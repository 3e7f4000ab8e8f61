---------------------------- MODULE SerialPosix ----------------------------
(***************************************************************************)
(* serialposix.py: the port is a file descriptor that does not block; a    *)
(* read waits with select() or, in PosixPollSerial, with poll().           *)
(***************************************************************************)
EXTENDS SerialState

PosixKeys == {"baudrate", "bytesize", "parity", "stopbits", "xonxoff", "rtscts",
              "interCharTimeout"}

(* _reconfigurePort: everything is validated before tcsetattr, except a    *)
(* speed outside the tables, which is set afterwards and may be refused    *)
(* with the rest applied at 38400 baud.  1.5 stop bits are set as two.     *)
PosixReconfigure(s, d) ==
  IF ~plugged \/ s.baudrate = "bad" \/ s.parity = "M" THEN {Refused(d)}
  ELSE LET two == IF s.stopbits = "1.5" THEN "2" ELSE s.stopbits
           t == [Put(d, PosixKeys, s) EXCEPT !.stopbits = two]
       IN IF s.baudrate = "custom"
          THEN {Refused([t EXCEPT !.baudrate = "38400"]), Applied(t)}
          ELSE {Applied(t)}

(* open: the descriptor is closed again if it cannot be configured.        *)
PosixOpen(op) ==
  IF ~CanOpen \/ ~plugged THEN OpenFails(op)
  ELSE \E o \in PosixReconfigure(stored, device) :
    /\ device' = o.dev /\ isOpen' = o.ok /\ handle' = o.ok
    /\ Reply(op, o.ok, <<>>)
    /\ UNCHANGED <<name, stored, lines, want, data>>

PosixClose == Released

(* read: wait with select for each part.  Readiness without data means     *)
(* that the device is gone; the bytes the call has so far go with it.      *)
PosixRead ==
  \/ rx # <<>> /\ Take(Smaller(Room, Len(rx)))
  \/ rx = <<>> /\ ~plugged /\ ReadFails
  \/ rx = <<>> /\ plugged /\ stored.timeout # None /\ ReturnHeld

(* PosixPollSerial.read: no timeout is a TypeError; an error event raises; *)
(* with nothing to read and VMIN = 1 os.read fails instead of returning.   *)
PollRead ==
  \/ (stored.timeout = None \/ ~plugged) /\ ReadFails
  \/ stored.timeout # None /\ plugged /\ rx # <<>> /\ Take(Smaller(Room, Len(rx)))
  \/ /\ stored.timeout # None /\ plugged /\ rx = <<>>
     /\ IF device.interCharTimeout = None THEN ReturnHeld ELSE ReadFails

(* MUTANT: what the driver took is not cut off before the next try.        *)
PosixWriteAgain ==
  \/ ~plugged /\ WriteFails
  \/ /\ plugged
     /\ \E n \in 1 .. Unsent :
          /\ queued + n <= OutRoom /\ queued' = queued + n
          /\ out' = out \o SubSeq(call.bytes, 1, n)
          /\ UNCHANGED <<rx, next>>
          /\ IF n = Unsent THEN Reply("write", TRUE, call.bytes)
             ELSE call' = [call EXCEPT !.done = @ + n] /\ UNCHANGED answer

(* write: the driver takes what it has room for; EAGAIN tries again at     *)
(* once.  Only after a part was taken is the time looked at, and waited    *)
(* for room: a write that times out may have sent some of its bytes.       *)
PosixWrite ==
  \/ ~plugged /\ WriteFails
  \/ /\ plugged /\ call.wait /\ WriteFails
  \/ /\ plugged /\ call.wait /\ queued < OutRoom
     /\ IF Unsent = 0 THEN Reply("write", TRUE, call.bytes)
        ELSE call' = [call EXCEPT !.wait = FALSE] /\ UNCHANGED answer
     /\ UNCHANGED data
  \/ /\ plugged /\ ~call.wait
     /\ \E n \in 1 .. Unsent :
          /\ Accept(n)
          /\ IF stored.writeTimeout = "some" \/ n < Unsent
             THEN /\ call' = [call EXCEPT !.done = @ + n,
                                          !.wait = stored.writeTimeout = "some"]
                  /\ UNCHANGED answer
             ELSE Reply("write", TRUE, call.bytes)

(* flush: tcdrain waits for the output.                                    *)
PosixFlush ==
  \/ ~plugged /\ Raise("flush") /\ UNCHANGED data
  \/ plugged /\ queued = 0 /\ Done("flush") /\ UNCHANGED data

PosixFlushInput ==
  /\ rx' = <<>> /\ Done("flushInput") /\ UNCHANGED <<next, queued, out>>
PosixFlushOutput ==
  /\ queued' = 0 /\ Done("flushOutput") /\ UNCHANGED <<rx, next, out>>

(* setBreak, setRTS, setDTR: an ioctl each.                                *)
PosixSetLine(l, v) ==
  /\ lines' = [lines EXCEPT ![l] = v]
  /\ Done("line") /\ UNCHANGED want
PosixSendBreak == Done("line") /\ UNCHANGED <<lines, want>>
PosixGetLine == Reply("query", TRUE, <<lines.cts>>)
=============================================================================
