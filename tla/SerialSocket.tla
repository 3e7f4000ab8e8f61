---------------------------- MODULE SerialSocket ----------------------------
(***************************************************************************)
(* protocol_socket.py: a TCP connection used as a port.  All settings but  *)
(* the timeout are ignored.                                                *)
(***************************************************************************)
EXTENDS SerialState

SocketReconfigure(d) == {Applied(d)}

(* open: connect; setRTS, setDTR and the flushes that follow do nothing.   *)
SocketOpen(op) ==
  IF ~CanOpen \/ ~plugged THEN OpenFails(op)
  ELSE /\ isOpen' = TRUE /\ handle' = TRUE
       /\ Done(op)
       /\ UNCHANGED <<name, stored, device, lines, want, data>>

SocketClose == Released

(* Each read of read(1) in readline starts empty.                          *)
Base == IF call.op = "read" THEN <<>> ELSE call.held

(* read: no timeout is a TypeError, 0 never reads.  recv asks for what is  *)
(* missing, but its result replaces what the call had.  A closed           *)
(* connection gives an empty string until the timeout, or an error.        *)
SocketRead ==
  \/ stored.timeout = None /\ ReadFails
  \/ stored.timeout # None /\ ReturnHeld
  \/ /\ stored.timeout = "some" /\ plugged /\ rx # <<>>
     /\ LET n == Smaller(Room, Len(rx))
            held == Base \o SubSeq(rx, 1, n)
            full == Len(held) >= call.size
        IN /\ rx' = SubSeq(rx, n + 1, Len(rx))
           /\ IF full /\ ~GoesOn(call.op, held)
              THEN Reply(call.op, TRUE, held)
              ELSE /\ call' = [call EXCEPT !.held = held,
                                           !.size = IF full THEN @ + 1 ELSE @]
                   /\ UNCHANGED answer
           /\ UNCHANGED <<next, queued, out>>
  \/ /\ stored.timeout = "some" /\ ~plugged
     /\ \/ ReadFails
        \/ Base # call.held /\ call' = [call EXCEPT !.held = Base]
           /\ UNCHANGED <<answer, data>>

(* write: sendall, with two seconds to make progress.                      *)
SocketWrite ==
  \/ (~plugged \/ queued = OutRoom) /\ WriteFails
  \/ /\ plugged /\ Accept(1)
     /\ IF Unsent = 1 THEN Reply("write", TRUE, call.bytes)
        ELSE call' = [call EXCEPT !.done = @ + 1] /\ UNCHANGED answer

SocketFlush(op) == Done(op) /\ UNCHANGED data
SocketSetLine == Done("line") /\ UNCHANGED <<lines, want>>
SocketGetLine == Reply("query", TRUE, <<TRUE>>)
=============================================================================
