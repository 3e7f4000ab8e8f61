------------------------------ MODULE SerialCli ------------------------------
(***************************************************************************)
(* serialcli.py: a System.IO.Ports.SerialPort of .NET or Mono, whose       *)
(* settings are properties that are set one after the other.               *)
(***************************************************************************)
EXTENDS SerialState

CliKeys == {"timeout", "writeTimeout", "baudrate", "bytesize", "parity",
            "stopbits", "rtscts", "xonxoff"}

(* MUTANT: the handshake is not set again.                                 *)
CliReconfigureNoHandshake(s, d) ==
  IF s.baudrate = "bad" THEN {Refused(d)}
  ELSE {Applied(Put(d, CliKeys \ {"rtscts", "xonxoff"}, s))}

(* _reconfigurePort: the properties set before one that is refused keep    *)
(* their new values.  The driver may refuse a rate or 1.5 stop bits, and   *)
(* refuses all when the device of an open port is gone.                    *)
CliReconfigure(s, d) ==
  LET timeouts == Put(d, {"timeout", "writeTimeout"}, s)
      format == Put(timeouts, {"baudrate", "bytesize", "parity"}, s)
      all == Put(d, CliKeys, s)
  IN IF s.baudrate = "bad" \/ (isOpen /\ ~plugged) THEN {Refused(timeouts)}
     ELSE {Applied(all)}
       \union (IF s.baudrate = "custom" THEN {Refused(timeouts)} ELSE {})
       \union (IF s.stopbits = "1.5" THEN {Refused(format)} ELSE {})

(* open: a new SerialPort is configured and then opened; nothing is held   *)
(* if either fails.  The buffers are discarded.                            *)
CliOpen(op) ==
  IF ~CanOpen THEN OpenFails(op)
  ELSE \E o \in CliReconfigure(stored, device) :
    LET opened == o.ok /\ plugged
    IN /\ device' = o.dev /\ isOpen' = opened /\ handle' = opened
       /\ lines' = IF opened /\ ~stored.rtscts
                   THEN [lines EXCEPT !.rts = TRUE, !.dtr = TRUE] ELSE lines
       /\ IF opened THEN Emptied ELSE UNCHANGED data
       /\ Reply(op, opened, <<>>)
       /\ UNCHANGED <<name, stored, want>>

CliClose == Released

(* read: byte by byte, until a byte times out.                             *)
CliRead ==
  \/ ~plugged /\ ReadFails
  \/ plugged /\ rx # <<>> /\ Take(1)
  \/ plugged /\ rx = <<>> /\ device.timeout # None /\ ReturnHeld

(* write: all of it, or a timeout after a part of it.                      *)
CliWrite ==
  \/ (~plugged \/ device.writeTimeout # None) /\ WriteFails
  \/ /\ plugged /\ Accept(1)
     /\ IF Unsent = 1 THEN Reply("write", TRUE, call.bytes)
        ELSE call' = [call EXCEPT !.done = @ + 1] /\ UNCHANGED answer

CliFlushInput ==
  /\ rx' = <<>> /\ Done("flushInput") /\ UNCHANGED <<next, queued, out>>
CliFlushOutput ==
  /\ queued' = 0 /\ Done("flushOutput") /\ UNCHANGED <<rx, next, out>>
CliSendBreak == Done("line") /\ UNCHANGED <<lines, want>>

(* setBreak, setRTS, setDTR.                                               *)
CliSetLine(l, v) ==
  /\ lines' = [lines EXCEPT ![l] = v]
  /\ Done("line") /\ UNCHANGED want
CliGetLine == Reply("query", TRUE, <<lines.cts>>)
=============================================================================
