----------------------------- MODULE SerialLoop -----------------------------
(***************************************************************************)
(* protocol_loop.py: a port that reads what was written to it, by this     *)
(* program's thread or another one's.  Settings are kept and not used.     *)
(***************************************************************************)
EXTENDS SerialState

LoopReconfigure(s, d) == IF s.baudrate = "bad" THEN {Refused(d)} ELSE {Applied(d)}

(* open: nothing to open; CTS and DSR follow RTS and DTR, which are set    *)
(* unless rtscts is.                                                       *)
LoopOpen(op) ==
  IF ~CanOpen THEN OpenFails(op)
  ELSE \E o \in LoopReconfigure(stored, device) :
    /\ isOpen' = o.ok /\ handle' = FALSE
    /\ lines' = IF o.ok /\ ~stored.rtscts
                THEN [lines EXCEPT !.rts = TRUE, !.dtr = TRUE, !.cts = TRUE]
                ELSE [lines EXCEPT !.cts = FALSE]
    /\ Emptied
    /\ Reply(op, o.ok, <<>>)
    /\ UNCHANGED <<name, stored, device, want>>

LoopClose == Released

(* MUTANT: the bytes are deleted after the lock has been released, with    *)
(* those that another thread has added meanwhile.                          *)
LoopReadUnlocked ==
  \/ rx # <<>> /\ Reply(call.op, TRUE, call.held \o SubSeq(rx, 1, 1))
     /\ rx' = <<>> /\ UNCHANGED <<next, queued, out>>
  \/ rx = <<>> /\ stored.timeout # None /\ ReturnHeld

(* read: a busy loop that takes what is there under the lock.              *)
LoopRead ==
  \/ rx # <<>> /\ Take(Smaller(Room, Len(rx)))
  \/ rx = <<>> /\ stored.timeout # None /\ ReturnHeld

(* write: all, or nothing when the line would need longer than the write   *)
(* timeout.  A rate of 0 divides by zero.                                  *)
LoopWrite ==
  \/ (stored.writeTimeout # None \/ stored.baudrate = "bad") /\ WriteFails
  \/ /\ stored.writeTimeout # "zero"
     /\ rx' = rx \o call.bytes /\ out' = out \o call.bytes
     /\ Reply("write", TRUE, call.bytes)
     /\ UNCHANGED <<next, queued>>

LoopFlushInput ==
  /\ rx' = <<>> /\ Done("flushInput") /\ UNCHANGED <<next, queued, out>>
LoopFlushOutput == Done("flushOutput") /\ UNCHANGED data
LoopSendBreak == Done("line") /\ UNCHANGED <<lines, want>>

(* setBreak, setRTS, setDTR: CTS answers RTS.                              *)
LoopSetLine(l, v) ==
  /\ lines' = CASE l = "rts" -> [lines EXCEPT !.rts = v, !.cts = v]
                [] l = "dtr" -> [lines EXCEPT !.dtr = v]
                [] OTHER     -> lines
  /\ Done("line") /\ UNCHANGED want
LoopGetLine == Reply("query", TRUE, <<lines.cts>>)
=============================================================================
