---------------------------- MODULE SerialWin32 ----------------------------
(***************************************************************************)
(* serialwin32.py: overlapped input and output on an exclusive handle; the *)
(* timeouts of a read are settings of the driver.                          *)
(***************************************************************************)
EXTENDS SerialState

DriverTimeouts == {"timeout", "writeTimeout", "interCharTimeout"}
DcbKeys == {"baudrate", "bytesize", "parity", "stopbits", "xonxoff", "dsrdtr", "rtscts"}

(* MUTANT: RTS and DTR are always enabled, whatever setRTS and setDTR say. *)
Win32ReconfigureEnables(s, d, w) ==
  LET t == Put(d, DriverTimeouts, s)
      on == [lines EXCEPT !.rts = TRUE, !.dtr = TRUE]
  IN IF ~plugged \/ s.baudrate = "bad" THEN {Refused(t)}
     ELSE {[Applied(Put(t, DcbKeys, s)) EXCEPT !.lines = on]}

(* _reconfigurePort: the timeouts first, then the rest in one structure    *)
(* that SetCommState takes or refuses as a whole.  Unless they are used    *)
(* for a handshake, RTS and DTR take the state the program gave them.      *)
Win32Reconfigure(s, d, w) ==
  LET t == Put(d, DriverTimeouts, s)
      l == [lines EXCEPT !.rts = IF s.rtscts THEN @ ELSE w.rts,
                         !.dtr = IF s.dsrdtr THEN @ ELSE w.dtr]
      unusual == s.baudrate = "custom" \/ s.parity = "M" \/ s.stopbits = "1.5"
      taken == [Applied(Put(t, DcbKeys, s)) EXCEPT !.lines = l]
  IN IF ~plugged \/ s.baudrate = "bad" THEN {Refused(t)}
     ELSE IF unusual THEN {Refused(t), taken} ELSE {taken}

(* open: the handle is exclusive, and stays open when the port cannot be   *)
(* configured; the buffers are purged.                                     *)
Win32Open(op) ==
  IF ~CanOpen \/ ~plugged \/ handle THEN OpenFails(op)
  ELSE LET w == [rts |-> TRUE, dtr |-> TRUE]
       IN \E o \in Win32Reconfigure(stored, device, w) :
            /\ device' = o.dev /\ lines' = o.lines /\ want' = w
            /\ handle' = TRUE /\ isOpen' = o.ok
            /\ IF o.ok THEN Emptied ELSE UNCHANGED data
            /\ Reply(op, o.ok, <<>>)
            /\ UNCHANGED <<name, stored>>

(* MUTANT: the overlapped events are closed and the handle of the port is  *)
(* not.                                                                    *)
Win32CloseLeaks ==
  /\ isOpen' = FALSE
  /\ Emptied
  /\ UNCHANGED <<handle, stored, device, lines, want>>

Win32Close == Released

(* read: with timeout 0 what is there, otherwise ReadFile until its size,  *)
(* the driver's timeout or the gap between two characters ends it.  The    *)
(* result of GetOverlappedResult is not looked at: a device that goes      *)
(* away in the middle looks like a timeout.                                *)
Win32Read ==
  \/ ~plugged /\ call.held = <<>> /\ ReadFails
  \/ ~plugged /\ ReturnHeld
  \/ /\ plugged /\ rx # <<>>
     /\ Take(Smaller(Room, Len(rx)))
  \/ /\ plugged /\ rx = <<>>
     /\ \/ stored.timeout = "zero" \/ device.timeout = "some"
        \/ call.op = "read" /\ call.held # <<>> /\ device.interCharTimeout # None
     /\ ReturnHeld

(* write: WriteFile and, unless writeTimeout is 0, the wait for its end; a *)
(* count short of the data is a timeout.  With writeTimeout 0 the count    *)
(* returned is whatever is known at once.                                  *)
Win32Write ==
  \/ ~plugged /\ WriteFails
  \/ /\ plugged /\ stored.writeTimeout = "zero"
     /\ out' = out \o call.bytes /\ queued' = Smaller(OutRoom, queued + Unsent)
     /\ \E n \in 0 .. Len(call.bytes) : Reply("write", TRUE, SubSeq(call.bytes, 1, n))
     /\ UNCHANGED <<rx, next>>
  \/ plugged /\ stored.writeTimeout = "some" /\ WriteFails
  \/ /\ plugged /\ stored.writeTimeout # "zero" /\ Accept(1)
     /\ IF Unsent = 1 THEN Reply("write", TRUE, call.bytes)
        ELSE call' = [call EXCEPT !.done = @ + 1] /\ UNCHANGED answer

Win32FlushInput ==
  /\ rx' = <<>> /\ Done("flushInput") /\ UNCHANGED <<next, queued, out>>
Win32FlushOutput ==
  /\ queued' = 0 /\ Done("flushOutput") /\ UNCHANGED <<rx, next, out>>
Win32SendBreak == Done("line") /\ UNCHANGED <<lines, want>>
Win32SetBreak(v) ==
  /\ lines' = [lines EXCEPT !.brk = v]
  /\ Done("line") /\ UNCHANGED want

(* setRTS, setDTR: remembered, and set unless the driver handles the line. *)
Win32SetLine(l, v) ==
  LET handled == IF l = "rts" THEN device.rtscts ELSE device.dsrdtr
  IN /\ want' = [want EXCEPT ![l] = v]
     /\ lines' = IF plugged /\ ~handled THEN [lines EXCEPT ![l] = v] ELSE lines
     /\ Done("line")
Win32GetLine == Reply("query", TRUE, <<lines.cts>>)
=============================================================================
