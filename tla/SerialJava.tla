----------------------------- MODULE SerialJava -----------------------------
(***************************************************************************)
(* serialjava.py: a port of the Java Communications API.                   *)
(***************************************************************************)
EXTENDS SerialState

ParamKeys == {"baudrate", "bytesize", "parity", "stopbits", "xonxoff", "rtscts"}

(* _reconfigurePort: a receive timeout of 30 ms is set first.  Any stop    *)
(* bits but one end in a NameError (line 96 reads stopbits for             *)
(* self._stopbits).  The driver takes or refuses the parameters as a       *)
(* whole; the timeout of the settings is set last.                         *)
JavaReconfigure(s, d) ==
  LET brief == [d EXCEPT !.timeout = "some"]
      unusual == s.baudrate = "custom" \/ s.parity = "M"
      taken == Applied(Put(d, ParamKeys \union {"timeout"}, s))
  IN IF ~plugged THEN {Refused(d)}
     ELSE IF s.stopbits # "1" \/ s.baudrate = "bad" THEN {Refused(brief)}
     ELSE IF unusual THEN {Refused(brief), taken} ELSE {taken}

(* open: the port has one owner, and stays open when it cannot be          *)
(* configured.                                                             *)
JavaOpen(op) ==
  IF ~CanOpen \/ ~plugged \/ handle THEN OpenFails(op)
  ELSE \E o \in JavaReconfigure(stored, device) :
    /\ device' = o.dev /\ isOpen' = o.ok /\ handle' = TRUE
    /\ Reply(op, o.ok, <<>>)
    /\ UNCHANGED <<name, stored, lines, want, data>>

JavaClose == Released

(* MUTANT: -1 is always tried again.                                       *)
JavaReadRetries ==
  \/ ~plugged /\ ReadFails
  \/ plugged /\ rx # <<>> /\ Take(1)

(* read: byte by byte; -1 is a timeout, and tried again if there is none.  *)
JavaRead ==
  \/ ~plugged /\ ReadFails
  \/ plugged /\ rx # <<>> /\ Take(1)
  \/ /\ plugged /\ rx = <<>>
     /\ device.timeout # None /\ stored.timeout # None
     /\ ReturnHeld

(* write: returns when the stream took everything.                         *)
JavaWrite ==
  \/ ~plugged /\ WriteFails
  \/ /\ plugged /\ Accept(1)
     /\ IF Unsent = 1 THEN Reply("write", TRUE, call.bytes)
        ELSE call' = [call EXCEPT !.done = @ + 1] /\ UNCHANGED answer

(* flushInput skips what is there; flushOutput sends what is left instead  *)
(* of discarding it.                                                       *)
JavaFlushInput ==
  /\ rx' = <<>> /\ Done("flushInput") /\ UNCHANGED <<next, queued, out>>
JavaFlushOutput == Done("flushOutput") /\ UNCHANGED data
JavaSendBreak == Done("line") /\ UNCHANGED <<lines, want>>

(* setBreak: there is no attribute fd, and nothing to do if there were.    *)
JavaSetBreak == Raise("line") /\ UNCHANGED <<lines, want>>
JavaSetLine(l, v) ==
  /\ lines' = [lines EXCEPT ![l] = v]
  /\ Done("line") /\ UNCHANGED want

(* getCTS and the others ask the port and return None.                     *)
JavaGetLine == Reply("query", TRUE, <<None>>)
=============================================================================
