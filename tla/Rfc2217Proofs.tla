---------------------------- MODULE Rfc2217Proofs ----------------------------
(***************************************************************************)
(* Proofs about the client and the server of RFC 2217: whatever the        *)
(* scenario, every reader thread that runs is the one of the open port or  *)
(* was left behind by an open that failed.                                 *)
(***************************************************************************)
EXTENDS Rfc2217, FiniteSetTheorems, SequenceTheorems, TLAPS

Used == {c \in Conns : net[c] # NoConn}
Running == {r \in Conns : readers[r].runs}

(* Connections are numbered as they are made, and neither end forgets one. *)
NetInv ==
  /\ DOMAIN net = Conns
  /\ \A c \in Conns : "server" \in DOMAIN net[c] /\ (net[c].server = "none" <=> net[c] = NoConn)
  /\ sock \in {0} \cup Conns /\ (sock # 0 => sock \in Used)
  /\ "conn" \in DOMAIN main /\ (main.conn \in Conns => main.conn \in Used)

NumberInv ==
  /\ Used = 1 .. Latest
  /\ "opens" \in DOMAIN left /\ left.opens \in Nat /\ left.opens + Latest <= MaxOpens

(* A call goes on with its tasks in order.  An open that is not finished   *)
(* has the step that sets _isOpen before it; a close that is about to      *)
(* finish has seen its reader end.                                         *)
Closing == {<<"check", "join", "closed">>, <<"join", "closed">>, <<"closed">>}
Ordinary == {"options", "settings", "flow", "opened", "rts on", "rts off", "dtr on", "dtr off",
             "break on", "break off", "purge in", "purge out", "empty", "poll"}
Tasks == Ordinary \cup {"check", "join", "closed"}
Inner == {"none", "set", "flushInput", "flushOutput", "line", "sendBreak", "getCTS"}
Ops == Inner \cup {"open", "close"}
IsCall(c) ==
  /\ "op" \in DOMAIN c /\ "todo" \in DOMAIN c /\ "waits" \in DOMAIN c
  /\ c.op \in Ops /\ c.todo \in Seq(Tasks) /\ c.waits \in BOOLEAN
CallInv ==
  /\ IsCall(call)
  /\ isOpen \in BOOLEAN
  /\ ~Idle =>
       /\ call.op = "open" \/ isOpen
       /\ call.op = "open" /\ ~isOpen => \E i \in DOMAIN call.todo : call.todo[i] = "opened"
       /\ IF call.op = "close" THEN call.todo \in Closing ELSE call.todo \in Seq(Ordinary)
       /\ call.op = "close" /\ Task = "closed" => thread = 0
  /\ call.waits => ~Idle /\ Task \notin {"opened", "check", "closed"}

(* _thread is the last reader started, and runs.                           *)
ThreadInv ==
  /\ DOMAIN readers = Conns
  /\ \A r \in Conns : "runs" \in DOMAIN readers[r] /\ readers[r].runs \in BOOLEAN
  /\ thread \in {0} \cup Conns
  /\ thread # 0 => thread = Latest /\ thread \in Running

Busy == isOpen \/ (~Idle /\ call.op = "open")
CountInv ==
  /\ failed \in Nat
  /\ Cardinality(Running) <= IF Busy /\ thread # 0 THEN failed + 1 ELSE failed

ReadersInv == NetInv /\ NumberInv /\ CallInv /\ ThreadInv /\ CountInv

-----------------------------------------------------------------------------
(* The connections.                                                        *)

(* A step that changes one connection leaves it made.                      *)
Edit(x) ==
  \E e : /\ net' = [net EXCEPT ![x] = e]
         /\ x \in Conns => "server" \in DOMAIN e /\ e.server # "none"

Kept ==
  /\ DOMAIN net' = Conns
  /\ \A c \in Conns : "server" \in DOMAIN net'[c] /\ (net'[c].server = "none" <=> net'[c] = NoConn)
  /\ Used' = Used

LEMMA EditKeeps ==
  ASSUME NetInv, NEW x, x \in Conns => x \in Used, Edit(x)
  PROVE  Kept
<1>1. PICK e : /\ net' = [net EXCEPT ![x] = e]
               /\ x \in Conns => "server" \in DOMAIN e /\ e.server # "none"
  BY DEF Edit
<1>2. DOMAIN net' = Conns
  BY <1>1 DEF NetInv
<1>3. ASSUME NEW c \in Conns, c # x PROVE net'[c] = net[c]
  BY <1>1, <1>3 DEF NetInv
<1>4. x \in Conns => net'[x] = e
  BY <1>1 DEF NetInv
<1>5. NoConn.server = "none"
  BY DEF NoConn
<1>6. x \in Conns => "server" \in DOMAIN net'[x] /\ net'[x].server # "none" /\ net'[x] # NoConn
  BY <1>1, <1>4, <1>5
<1>7. \A c \in Conns : "server" \in DOMAIN net'[c] /\ (net'[c].server = "none" <=> net'[c] = NoConn)
  BY <1>3, <1>6 DEF NetInv
<1>8. Used' = Used
  BY <1>3, <1>6 DEF Used
<1> QED
  BY <1>2, <1>7, <1>8 DEF Kept

LEMMA SameKeeps ==
  ASSUME NetInv, net' = net
  PROVE  Kept
BY DEF NetInv, Kept, Used

(* The other fields of a connection are no concern of its being made.      *)
LEMMA UpEdit ==
  ASSUME NetInv, NEW x, x \in Conns => x \in Used, NEW bytes,
         net' = [net EXCEPT ![x].up = bytes]
  PROVE  Edit(x)
<1> DEFINE e == [net[x] EXCEPT !.up = bytes]
<1>1. net' = [net EXCEPT ![x] = e]
  OBVIOUS
<1>2. x \in Conns => "server" \in DOMAIN e /\ e.server = net[x].server /\ net[x].server # "none"
  BY DEF NetInv, Used
<1> QED
  BY <1>1, <1>2 DEF Edit

LEMMA DownEdit ==
  ASSUME NetInv, NEW x, x \in Conns => x \in Used, NEW bytes,
         net' = [net EXCEPT ![x].down = bytes]
  PROVE  Edit(x)
<1> DEFINE e == [net[x] EXCEPT !.down = bytes]
<1>1. net' = [net EXCEPT ![x] = e]
  OBVIOUS
<1>2. x \in Conns => "server" \in DOMAIN e /\ e.server = net[x].server /\ net[x].server # "none"
  BY DEF NetInv, Used
<1> QED
  BY <1>1, <1>2 DEF Edit

LEMMA TakenEdit ==
  ASSUME NetInv, NEW x, x \in Conns => x \in Used, NEW bytes, NEW more,
         net' = [[net EXCEPT ![x].down = bytes] EXCEPT ![x].up = @ \o more]
  PROVE  Edit(x)
<1> DEFINE e == [[net[x] EXCEPT !.down = bytes] EXCEPT !.up = @ \o more]
<1>1. net' = [net EXCEPT ![x] = e]
  BY DEF NetInv
<1>2. x \in Conns => "server" \in DOMAIN e /\ e.server = net[x].server /\ net[x].server # "none"
  BY DEF NetInv, Used
<1> QED
  BY <1>1, <1>2 DEF Edit

LEMMA HangUpEdit ==
  ASSUME NetInv, NEW x, x \in Conns => x \in Used,
         net' = [net EXCEPT ![x].client = FALSE, ![x].down = <<>>]
  PROVE  Edit(x)
<1> DEFINE e == [[net[x] EXCEPT !.client = FALSE] EXCEPT !.down = <<>>]
<1>1. net' = [net EXCEPT ![x] = e]
  BY DEF NetInv
<1>2. x \in Conns => "server" \in DOMAIN e /\ e.server = net[x].server /\ net[x].server # "none"
  BY DEF NetInv, Used
<1> QED
  BY <1>1, <1>2 DEF Edit

(* What the server does to its end.                                        *)
LEMMA ServerEndEdit ==
  ASSUME NetInv, NEW x, NEW end \in {"open", "closed"}, NEW bytes,
         \/ net' = [net EXCEPT ![x].server = end, ![x].up = bytes]
         \/ net' = [net EXCEPT ![x].server = end, ![x].down = bytes]
  PROVE  Edit(x)
<1>1. CASE net' = [net EXCEPT ![x].server = end, ![x].up = bytes]
  <2> DEFINE e == [[net[x] EXCEPT !.server = end] EXCEPT !.up = bytes]
  <2>1. net' = [net EXCEPT ![x] = e]
    BY <1>1 DEF NetInv
  <2>2. x \in Conns => "server" \in DOMAIN e /\ e.server = end
    BY DEF NetInv
  <2> QED
    BY <2>1, <2>2 DEF Edit
<1>2. CASE net' = [net EXCEPT ![x].server = end, ![x].down = bytes]
  <2> DEFINE e == [[net[x] EXCEPT !.server = end] EXCEPT !.down = bytes]
  <2>1. net' = [net EXCEPT ![x] = e]
    BY <1>2 DEF NetInv
  <2>2. x \in Conns => "server" \in DOMAIN e /\ e.server = end
    BY DEF NetInv
  <2> QED
    BY <2>1, <2>2 DEF Edit
<1> QED
  BY <1>1, <1>2

(* What each step but an open does with the connections.                   *)
Keeps == net' = net \/ \E x : (x \in Conns => x \in Used) /\ Edit(x)
MainKeeps == Keeps /\ "conn" \in DOMAIN main' /\ (main'.conn \in Conns => main'.conn \in Used)

LEMMA KeepsKept ==
  ASSUME NetInv, Keeps
  PROVE  Kept
BY SameKeeps, EditKeeps DEF Keeps

LEMMA SendsDown ==
  ASSUME NetInv, NEW bytes, SendDown(bytes)
  PROVE  Keeps
<1>1. main.conn \in Conns => main.conn \in Used
  BY DEF NetInv
<1>2. Edit(main.conn)
  BY <1>1, DownEdit DEF SendDown
<1> QED
  BY <1>1, <1>2 DEF Keeps

LEMMA Answers ==
  ASSUME NetInv, NEW bytes, NEW then, AnswerWith(bytes, then),
         "conn" \in DOMAIN then, then.conn = main.conn
  PROVE  MainKeeps
<1>1. Keeps
  BY SendsDown DEF AnswerWith, GiveUp, Keeps
<1>2. "conn" \in DOMAIN main' /\ main'.conn = main.conn
  BY DEF AnswerWith, GiveUp, NetInv
<1> QED
  BY <1>1, <1>2 DEF MainKeeps, NetInv

LEMMA AcceptKeeps ==
  ASSUME NetInv, Accept
  PROVE  MainKeeps
<1>1. PICK c \in Conns :
        /\ net[c].server = "new"
        /\ \/ /\ net' = [net EXCEPT ![c].server = "open",
                                    ![c].down = Requests(ServerOrder, ServerTable)]
              /\ main' = [Waiting EXCEPT !.pc = "recv", !.conn = c]
           \/ /\ net' = [net EXCEPT ![c].server = "closed", ![c].up = <<>>]
              /\ main' = main
  BY DEF Accept
<1>2. c \in Used
  BY <1>1 DEF NetInv, Used
<1>3. Edit(c)
  BY <1>1, ServerEndEdit
<1>4. Keeps
  BY <1>2, <1>3 DEF Keeps
<1>5. CASE main' = [Waiting EXCEPT !.pc = "recv", !.conn = c]
  <2>1. "conn" \in DOMAIN main' /\ main'.conn = c
    BY <1>5 DEF Waiting
  <2> QED
    BY <2>1, <1>2, <1>4 DEF MainKeeps
<1>6. CASE main' = main
  BY <1>4, <1>6 DEF MainKeeps, NetInv
<1> QED
  BY <1>1, <1>5, <1>6

LEMMA ReceiveKeeps ==
  ASSUME NetInv, Receive
  PROVE  MainKeeps
<1>1. "conn" \in DOMAIN main' /\ main'.conn = main.conn
  BY DEF Receive, NetInv
<1>2. main.conn \in Conns => main.conn \in Used
  BY DEF NetInv
<1>3. net' = net \/ \E bytes : net' = [net EXCEPT ![main.conn].up = bytes]
  BY DEF Receive
<1>4. Keeps
  BY <1>2, <1>3, UpEdit DEF Keeps
<1> QED
  BY <1>1, <1>2, <1>4 DEF MainKeeps

LEMMA RestConn ==
  ASSUME NetInv
  PROVE  /\ "conn" \in DOMAIN Rest /\ Rest.conn = main.conn
         /\ "conn" \in DOMAIN ForcedCheck /\ ForcedCheck.conn = main.conn
BY DEF NetInv, Rest, ForcedCheck

LEMMA StaysKeeps ==
  ASSUME NetInv, net' = net, "conn" \in DOMAIN main', main'.conn = main.conn
  PROVE  MainKeeps
BY DEF MainKeeps, Keeps, NetInv

LEMMA SubKeeps ==
  ASSUME NetInv, NEW sub, ProcessSub(sub)
  PROVE  MainKeeps
<1>1. ASSUME main' = Rest, net' = net PROVE MainKeeps
  BY <1>1, RestConn, StaysKeeps
<1>2. ASSUME main' = ForcedCheck, net' = net PROVE MainKeeps
  BY <1>2, RestConn, StaysKeeps
<1>3. ASSUME NEW bytes, AnswerWith(bytes, Rest) PROVE MainKeeps
  BY <1>3, RestConn, Answers
<1>4. ASSUME SetControl(sub[2]) PROVE MainKeeps
  BY <1>3, <1>4 DEF SetControl
<1>5. ASSUME Purge(sub[2]) PROVE MainKeeps
  BY <1>3, <1>5 DEF Purge
<1>6. ASSUME SetSetting(sub[1], sub[2]) PROVE MainKeeps
  BY <1>3, <1>6 DEF SetSetting
<1> QED
  BY <1>1, <1>2, <1>4, <1>5, <1>6 DEF ProcessSub

LEMMA OptionKeeps ==
  ASSUME NetInv, NEW event, ProcessOption(event)
  PROVE  MainKeeps
<1>0. PICK activated \in BOOLEAN :
        \E bytes :
          IF bytes = <<>>
          THEN main' = (IF activated THEN ClientOk ELSE Rest) /\ UNCHANGED net
          ELSE AnswerWith(bytes, IF activated THEN ClientOk ELSE Rest)
  BY DEF ProcessOption
<1>1. PICK bytes :
        IF bytes = <<>>
        THEN main' = (IF activated THEN ClientOk ELSE Rest) /\ UNCHANGED net
        ELSE AnswerWith(bytes, IF activated THEN ClientOk ELSE Rest)
  BY <1>0
<1> DEFINE then == IF activated THEN ClientOk ELSE Rest
<1>2. "conn" \in DOMAIN then /\ then.conn = main.conn
  BY RestConn DEF ClientOk
<1>3. CASE bytes = <<>>
  BY <1>1, <1>2, <1>3, StaysKeeps
<1>4. CASE bytes # <<>>
  <2>1. AnswerWith(bytes, then)
    BY <1>1, <1>4
  <2> HIDE DEF then
  <2> QED
    BY <1>2, <2>1, Answers
<1> QED
  BY <1>3, <1>4

LEMMA FilterKeeps ==
  ASSUME NetInv, Filter
  PROVE  MainKeeps
<1>1. ASSUME main' = Rest, net' = net PROVE MainKeeps
  BY <1>1, RestConn, StaysKeeps
<1>2. ASSUME NEW byte, main' = [Rest EXCEPT !.got = Append(@, byte)], net' = net
      PROVE  MainKeeps
  <2>1. "conn" \in DOMAIN main' /\ main'.conn = main.conn
    BY <1>2, RestConn
  <2> QED
    BY <1>2, <2>1, StaysKeeps
<1>3. \/ main' = Rest /\ net' = net
      \/ \E byte : main' = [Rest EXCEPT !.got = Append(@, byte)] /\ net' = net
      \/ \E sub : ProcessSub(sub)
      \/ \E event : ProcessOption(event)
  BY DEF Filter
<1> QED
  BY <1>1, <1>2, <1>3, SubKeeps, OptionKeeps

LEMMA ForcedKeeps ==
  ASSUME NetInv, Forced
  PROVE  MainKeeps
<1>1. "conn" \in DOMAIN main' /\ main'.conn = main.conn
  BY DEF Forced, ForcedStep, GiveUp, NetInv
<1>2. Keeps
  BY SendsDown DEF Forced, ForcedStep, GiveUp, Keeps
<1> QED
  BY <1>1, <1>2 DEF MainKeeps, NetInv

LEMMA DisconnectKeeps ==
  ASSUME NetInv, Disconnect
  PROVE  MainKeeps
<1>1. net' = [net EXCEPT ![main.conn].server = "closed", ![main.conn].up = <<>>]
  BY DEF Disconnect
<1>2. Edit(main.conn)
  BY <1>1, ServerEndEdit
<1>3. main.conn \in Conns => main.conn \in Used
  BY DEF NetInv
<1>4. "conn" \in DOMAIN main' /\ main'.conn = 0
  BY DEF Disconnect, Waiting
<1>5. 0 \notin Conns
  BY TelnetAssumption DEF Conns
<1> QED
  BY <1>2, <1>3, <1>4, <1>5 DEF MainKeeps, Keeps

LEMMA MainThreadKeeps ==
  ASSUME NetInv, Main
  PROVE  MainKeeps
<1>1. ASSUME WriteSerial \/ Stop PROVE MainKeeps
  <2>1. net' = net /\ "conn" \in DOMAIN main' /\ main'.conn = main.conn
    BY <1>1 DEF WriteSerial, Stop, NetInv
  <2> QED
    BY <2>1, StaysKeeps
<1> QED
  BY <1>1, AcceptKeeps, ReceiveKeeps, FilterKeeps, ForcedKeeps, DisconnectKeeps DEF Main

LEMMA ThreadsKeep ==
  ASSUME NetInv, ReaderThread \/ Poller
  PROVE  MainKeeps
<1>1. main' = main
  BY DEF ReaderThread, ReadSerial, SendData, ReaderStops, Poller, PollLines, PollNotify,
         PollSave, PollerEnds
<1>2. net' = net \/ \E bytes : SendDown(bytes)
  BY DEF ReaderThread, ReadSerial, SendData, ReaderStops, Poller, PollLines, PollNotify,
         PollSave, PollerEnds
<1>3. Keeps
  BY <1>2, SendsDown DEF Keeps
<1> QED
  BY <1>1, <1>3 DEF MainKeeps, NetInv

(* The same of the client.                                                 *)
LEMMA SockUsed ==
  ASSUME NetInv
  PROVE  sock \in Conns => sock \in Used
<1>1. 0 \notin Conns
  BY TelnetAssumption DEF Conns
<1> QED
  BY <1>1 DEF NetInv

LEMMA SendsUp ==
  ASSUME NetInv, NEW bytes, SendUp(bytes)
  PROVE  Keeps
<1>1. sock \in Conns => sock \in Used
  BY SockUsed
<1>2. Edit(sock)
  BY <1>1, UpEdit DEF SendUp
<1> QED
  BY <1>1, <1>2 DEF Keeps

LEMMA CallsKeep ==
  ASSUME NetInv, Set \/ Control \/ Write \/ Read \/ Close
  PROVE  Keeps /\ (sock' = sock \/ sock' = 0)
<1>1. sock \in Conns => sock \in Used
  BY SockUsed
<1>2. ASSUME Set \/ Control \/ Read PROVE net' = net /\ sock' = sock
  <2>1. ASSUME Set PROVE net' = net /\ sock' = sock
    BY <2>1 DEF Set
  <2>2. ASSUME Control PROVE net' = net /\ sock' = sock
    BY <2>2 DEF Control
  <2>3. ASSUME Read PROVE net' = net /\ sock' = sock
    BY <2>3 DEF Read
  <2> QED
    BY <1>2, <2>1, <2>2, <2>3
<1>3. ASSUME Write PROVE Keeps /\ sock' = sock
  BY <1>3, SendsUp DEF Write, Keeps
<1>4. ASSUME Close PROVE Keeps /\ sock' = 0
  <2>1. net' = net \/ net' = [net EXCEPT ![sock].client = FALSE, ![sock].down = <<>>]
    BY <1>4 DEF Close
  <2>2. Keeps
    BY <2>1, <1>1, HangUpEdit DEF Keeps
  <2> QED
    BY <2>2, <1>4 DEF Close
<1> QED
  BY <1>2, <1>3, <1>4 DEF Keeps

LEMMA TasksKeep ==
  ASSUME NetInv, ClientThread
  PROVE  Keeps /\ sock' = sock
<1>1. sock' = sock
  BY DEF ClientThread, Negotiate, BeginRequest, AwaitRequest, Opened, EmptyBuffer, Poll, Join
<1>2. net' = net \/ \E bytes : SendUp(bytes)
  <2>1. CASE BeginRequest
    BY <2>1 DEF BeginRequest
  <2>2. CASE Poll
    BY <2>2 DEF Poll
  <2>3. CASE Negotiate
    BY <2>3 DEF Negotiate
  <2> QED
    BY <2>1, <2>2, <2>3 DEF ClientThread, AwaitRequest, Opened, EmptyBuffer, Join
<1> QED
  BY <1>1, <1>2, SendsUp DEF Keeps

(* What a reader does with what it takes.                                  *)
Downed(rest) == [net EXCEPT ![sock].down = rest]
Framed(r, frame) == readers' = [readers EXCEPT ![r].frame = frame] /\ thread' = thread
LEMMA TakesWhat ==
  ASSUME NEW r \in Conns, ReaderTakes(r)
  PROVE  /\ readers[r].runs
         /\ \E rest, frame, sub, more :
              \/ net' = Downed(rest) /\ Framed(r, frame)
              \/ net' = Downed(rest) /\ ProcessSubnegotiation(r, sub) /\ thread' = thread
              \/ net' = [Downed(rest) EXCEPT ![sock].up = @ \o more] /\ Framed(r, frame)
              \/ net' = Downed(rest) /\ Ends(r)
<1> DEFINE d == FirstEvent(readers[r].frame, net[sock].down)
<1> DEFINE n == NegotiateOption(clientOptions, d.event.command, d.event.option)
<1>1. readers[r].runs
  BY DEF ReaderTakes
<1>2. \/ net' = Downed(d.rest) /\ Framed(r, d.frame)
      \/ net' = Downed(d.rest) /\ ProcessSubnegotiation(r, d.event.sub) /\ thread' = thread
      \/ net' = [Downed(d.rest) EXCEPT ![sock].up = @ \o n.bytes] /\ Framed(r, d.frame)
      \/ net' = Downed(d.rest) /\ Ends(r)
  BY Zenon DEF ReaderTakes, Framed, Downed
<1> HIDE DEF d, n
<1> QED
  BY <1>1, <1>2

LEMMA ReaderKeeps ==
  ASSUME NetInv, Reader
  PROVE  Keeps /\ sock' = sock
<1>1. sock \in Conns => sock \in Used
  BY SockUsed
<1>2. PICK r \in Conns : ReaderTakes(r) \/ ReaderNotes(r) \/ ReaderEnds(r)
  BY DEF Reader
<1>3. CASE ReaderNotes(r) \/ ReaderEnds(r)
  BY <1>3 DEF ReaderNotes, ReaderEnds, Keeps
<1>4. CASE ReaderTakes(r)
  <2>1. sock' = sock
    BY <1>4 DEF ReaderTakes
  <2>2. PICK bytes, more :
          \/ net' = [net EXCEPT ![sock].down = bytes]
          \/ net' = [[net EXCEPT ![sock].down = bytes] EXCEPT ![sock].up = @ \o more]
    BY <1>4, TakesWhat DEF Downed
  <2>3. Edit(sock)
    BY <2>2, <1>1, DownEdit, TakenEdit
  <2> QED
    BY <1>1, <2>1, <2>3 DEF Keeps
<1> QED
  BY <1>2, <1>3, <1>4

LEMMA LoseKeeps ==
  ASSUME NetInv, Lose
  PROVE  Keeps
<1>1. PICK c \in Conns :
        /\ net[c].client
        /\ net' = [net EXCEPT ![c] =
                     [up |-> <<>>, down |-> <<>>, client |-> FALSE,
                      server |-> IF @.server = "new" THEN "new" ELSE "closed"]]
  BY DEF Lose
<1>2. c \in Used
  <2>1. net[c] # NoConn
    BY <1>1 DEF NoConn
  <2> QED
    BY <2>1 DEF Used
<1> DEFINE end == IF net[c].server = "new" THEN "new" ELSE "closed"
<1> DEFINE e == [up |-> <<>>, down |-> <<>>, client |-> FALSE, server |-> end]
<1>3. net' = [net EXCEPT ![c] = e]
  BY <1>1
<1>4. "server" \in DOMAIN e /\ e.server # "none"
  OBVIOUS
<1>5. Edit(c)
  <2> HIDE DEF e
  <2> QED
    BY <1>3, <1>4 DEF Edit
<1> QED
  BY <1>2, <1>5 DEF Keeps

(* No step but an open makes a connection.                                 *)
Opens == Open /\ UNCHANGED <<server, device>>

LEMMA OthersKeep ==
  ASSUME NetInv, [Next]_vars, ~Opens
  PROVE  MainKeeps /\ (sock' = sock \/ sock' = 0)
<1>1. ASSUME main' = main, Keeps PROVE MainKeeps
  BY <1>1 DEF MainKeeps, NetInv
<1>2. ASSUME (Set \/ Control \/ Write \/ Read \/ Close \/ ClientThread \/ Reader)
             /\ UNCHANGED <<server, device>>
      PROVE  MainKeeps /\ (sock' = sock \/ sock' = 0)
  BY <1>1, <1>2, CallsKeep, TasksKeep, ReaderKeeps DEF server
<1>3. ASSUME ServerStep PROVE MainKeeps /\ sock' = sock
  BY <1>3, MainThreadKeeps, ThreadsKeep DEF ServerStep, client
<1>4. ASSUME DeviceSends \/ LineChanges \/ UNCHANGED vars PROVE MainKeeps /\ sock' = sock
  <2>1. net' = net /\ main' = main /\ sock' = sock
    BY <1>4 DEF DeviceSends, LineChanges, vars, client, server
  <2> QED
    BY <2>1, <1>1 DEF Keeps
<1>5. ASSUME Lose PROVE MainKeeps /\ sock' = sock
  BY <1>5, <1>1, LoseKeeps DEF Lose, client, server
<1> QED
  BY <1>2, <1>3, <1>4, <1>5 DEF Next, ClientStep, ClientCalls, Opens

LEMMA SpendsOther ==
  ASSUME NumberInv, NEW what, what # "opens", Spend(what) \/ left' = left
  PROVE  "opens" \in DOMAIN left' /\ left'.opens = left.opens
BY DEF NumberInv, Spend

LEMMA OthersSpend ==
  ASSUME NumberInv, [Next]_vars, ~Opens
  PROVE  "opens" \in DOMAIN left' /\ left'.opens = left.opens
<1> DEFINE Spends == left' = left \/ \E what : what # "opens" /\ Spend(what)
<1>1. ASSUME Set PROVE Spends
  BY <1>1 DEF Set
<1>2. ASSUME Control PROVE Spends
  BY <1>2 DEF Control
<1>3. ASSUME Write \/ Read \/ Close PROVE Spends
  BY <1>3 DEF Write, Read, Close
<1>4. ASSUME ClientThread PROVE Spends
  <2>1. ASSUME AwaitRequest PROVE Spends
    BY <2>1 DEF AwaitRequest
  <2>2. ASSUME Poll PROVE Spends
    BY <2>2 DEF Poll
  <2> QED
    BY <1>4, <2>1, <2>2 DEF ClientThread, Negotiate, BeginRequest, Opened, EmptyBuffer, Join
<1>5. ASSUME Reader PROVE Spends
  <2>1. left' = left \/ Spend("overtakes")
    BY <1>5 DEF Reader, ReaderTakes, ReaderNotes, ReaderEnds
  <2> QED
    BY <2>1
<1>6. ASSUME Main \/ ReaderThread \/ Poller PROVE Spends
  BY <1>6 DEF Main, ReaderThread, Poller, PollLines, PollNotify, PollSave, PollerEnds
<1>7. ASSUME DeviceSends \/ LineChanges \/ Lose \/ UNCHANGED vars PROVE Spends
  BY <1>7 DEF DeviceSends, LineChanges, Lose, vars
<1>8. Spends
  BY <1>1, <1>2, <1>3, <1>4, <1>5, <1>6, <1>7
     DEF Next, ClientStep, ClientCalls, ServerStep, Opens
<1> QED
  BY <1>8, SpendsOther

LEMMA LatestNat ==
  /\ Latest = Cardinality(Used) /\ Latest \in Nat
  /\ MaxOpens \in Nat
<1>1. MaxOpens \in Nat /\ IsFiniteSet(Conns)
  BY TelnetAssumption, FS_Interval DEF Conns
<1>2. Used \subseteq Conns
  BY DEF Used
<1>3. Cardinality(Used) \in Nat
  BY <1>1, <1>2, FS_Subset, FS_CardinalityType
<1> QED
  BY <1>1, <1>3 DEF Latest, Used

LEMMA KeptNumber ==
  ASSUME NumberInv, Kept, "opens" \in DOMAIN left' /\ left'.opens = left.opens
  PROVE  NumberInv' /\ Latest' = Latest
<1>1. Latest' = Latest
  BY DEF Kept, Latest, Used
<1> QED
  BY <1>1 DEF NumberInv, Kept

(* The connection an open makes is the next one.                           *)
Fresh == [up |-> <<>>, down |-> <<>>, client |-> TRUE, server |-> "new"]
LEMMA OpenMakes ==
  ASSUME NetInv, NumberInv, Open
  PROVE  /\ Latest + 1 \in Conns
         /\ sock' = Latest + 1 /\ thread' = Latest + 1
         /\ readers' = [r \in Conns |->
              IF r = Latest + 1 THEN [StoppedReader EXCEPT !.runs = TRUE]
              ELSE [readers[r] EXCEPT !.noting = <<>>]]
         /\ net' = [d \in Conns |->
              IF d = Latest + 1 THEN Fresh
              ELSE IF d = sock THEN [net[d] EXCEPT !.client = FALSE, !.down = <<>>] ELSE net[d]]
<1> DEFINE P(c) == net[c] = NoConn /\ \A d \in Conns : d < c => net[d] # NoConn
<1>1. Latest \in Nat /\ MaxOpens \in Nat
  BY LatestNat
<1>2. left.opens > 0 /\ left.opens \in Nat /\ left.opens + Latest <= MaxOpens
  BY DEF Open, Spend, NumberInv
<1>3. Latest + 1 \in Conns
  BY <1>1, <1>2 DEF Conns
<1>4. \A c \in Conns : net[c] # NoConn <=> c <= Latest
  BY <1>1 DEF NumberInv, Used, Conns
<1>5. P(Latest + 1)
  BY <1>1, <1>3, <1>4 DEF Conns
<1>6. \A c \in Conns : P(c) => c = Latest + 1
  BY <1>1, <1>3, <1>4 DEF Conns
<1>7. (CHOOSE c \in Conns : P(c)) = Latest + 1
  <2> HIDE DEF P
  <2> QED
    BY <1>3, <1>5, <1>6
<1> QED
  BY <1>3, <1>7 DEF Open, Fresh

LEMMA OpenNumber ==
  ASSUME NetInv, NumberInv, Open
  PROVE  /\ DOMAIN net' = Conns
         /\ \A c \in Conns :
              "server" \in DOMAIN net'[c] /\ (net'[c].server = "none" <=> net'[c] = NoConn)
         /\ Used' = 1 .. (Latest + 1) /\ Latest' = Latest + 1
         /\ NumberInv'
<1> DEFINE N == Latest + 1
<1>1. Latest \in Nat /\ MaxOpens \in Nat
  BY LatestNat
<1>2. N \in Conns
  BY OpenMakes
<1>3. DOMAIN net' = Conns
  BY OpenMakes
<1>4. net'[N].server = "new" /\ "server" \in DOMAIN net'[N] /\ net'[N] # NoConn
  <2>1. net'[N] = Fresh
    BY <1>2, OpenMakes
  <2>2. Fresh.server = "new" /\ "server" \in DOMAIN Fresh
    BY DEF Fresh
  <2>3. NoConn.server = "none"
    BY DEF NoConn
  <2> QED
    BY <2>1, <2>2, <2>3
<1>5. ASSUME NEW d \in Conns, d # N
      PROVE  /\ "server" \in DOMAIN net'[d] /\ (net'[d].server = "none" <=> net'[d] = NoConn)
             /\ net'[d] # NoConn <=> net[d] # NoConn
  <2>1. net'[d] = IF d = sock THEN [net[d] EXCEPT !.client = FALSE, !.down = <<>>] ELSE net[d]
    BY <1>5, OpenMakes
  <2>2. CASE d # sock
    BY <2>1, <2>2 DEF NetInv
  <2>3. CASE d = sock
    <3>1. net[d].server # "none" /\ "server" \in DOMAIN net[d]
      BY <2>3, SockUsed DEF NetInv, Used
    <3>2. net'[d].server = net[d].server /\ "server" \in DOMAIN net'[d]
      BY <2>1, <2>3, <3>1
    <3>3. NoConn.server = "none"
      BY DEF NoConn
    <3> QED
      BY <3>1, <3>2, <3>3
  <2> QED
    BY <2>2, <2>3
<1>6. \A c \in Conns :
        "server" \in DOMAIN net'[c] /\ (net'[c].server = "none" <=> net'[c] = NoConn)
  BY <1>4, <1>5
<1>7. Used' = Used \cup {N}
  BY <1>2, <1>4, <1>5 DEF Used
<1>8. Used' = 1 .. N
  BY <1>1, <1>7 DEF NumberInv
<1>9. Latest' = N
  <2>1. Latest' = Cardinality(Used')
    BY DEF Latest, Used
  <2>2. Cardinality(1 .. N) = N
    BY <1>1, FS_Interval
  <2> QED
    BY <1>8, <2>1, <2>2
<1>10. "opens" \in DOMAIN left' /\ left'.opens = left.opens - 1 /\ left.opens > 0
  BY DEF Open, Spend, NumberInv
<1>11. NumberInv'
  <2>1. left.opens \in Nat /\ left.opens + Latest <= MaxOpens
    BY DEF NumberInv
  <2>2. left'.opens \in Nat /\ left'.opens + Latest' <= MaxOpens
    BY <1>1, <1>9, <1>10, <2>1
  <2> QED
    BY <1>8, <1>9, <1>10, <2>2 DEF NumberInv
<1> QED
  BY <1>3, <1>6, <1>8, <1>9, <1>11

LEMMA NetStep ==
  ASSUME NetInv, NumberInv, [Next]_vars
  PROVE  NetInv' /\ NumberInv'
<1>1. CASE Opens
  <2>1. sock' \in Used' /\ sock' \in Conns
    <3>1. Latest \in Nat
      BY LatestNat
    <3>2. sock' = Latest + 1 /\ Latest + 1 \in Conns /\ Used' = 1 .. (Latest + 1)
      BY <1>1, OpenMakes, OpenNumber DEF Opens
    <3> QED
      BY <3>1, <3>2
  <2>2. main' = main
    BY <1>1 DEF Opens, server
  <2>3. main.conn \in Used => main.conn \in Used'
    <3>1. Latest \in Nat /\ Used = 1 .. Latest /\ Used' = 1 .. (Latest + 1)
      BY <1>1, LatestNat, OpenNumber DEF Opens, NumberInv
    <3> QED
      BY <3>1
  <2>4. /\ DOMAIN net' = Conns
        /\ \A c \in Conns :
             "server" \in DOMAIN net'[c] /\ (net'[c].server = "none" <=> net'[c] = NoConn)
        /\ NumberInv'
    BY <1>1, OpenNumber DEF Opens
  <2>5. NetInv'
    BY <2>1, <2>2, <2>3, <2>4 DEF NetInv
  <2> QED
    BY <2>4, <2>5
<1>2. CASE ~Opens
  <2>1. MainKeeps /\ (sock' = sock \/ sock' = 0)
    BY <1>2, OthersKeep
  <2>2. Kept
    BY <2>1, KeepsKept DEF MainKeeps
  <2>3. NumberInv'
    BY <1>2, <2>2, OthersSpend, KeptNumber
  <2>4. NetInv'
    BY <2>1, <2>2 DEF NetInv, Kept, MainKeeps
  <2> QED
    BY <2>3, <2>4
<1> QED
  BY <1>1, <1>2

-----------------------------------------------------------------------------
(* The calls.                                                              *)

(* What a step does with the call, and with the number of readers left     *)
(* behind when no reader starts or ends.                                   *)
SameThreads == readers' = readers /\ thread' = thread
Goal == CallInv' /\ CountInv'

LEMMA RunningFinite == IsFiniteSet(Running) /\ Cardinality(Running) \in Nat
<1>1. IsFiniteSet(Conns)
  BY TelnetAssumption, FS_Interval DEF Conns
<1>2. Running \subseteq Conns
  BY DEF Running
<1> QED
  BY <1>1, <1>2, FS_Subset, FS_CardinalityType

LEMMA CountSame ==
  ASSUME CountInv, SameThreads, failed' = failed, Busy /\ thread # 0 => Busy'
  PROVE  CountInv'
<1>1. Running' = Running /\ thread' = thread
  BY DEF Running, SameThreads
<1>2. Cardinality(Running) \in Nat
  BY RunningFinite
<1>3. failed \in Nat /\ Cardinality(Running) <= failed + 1
  BY <1>2 DEF CountInv
<1>4. CASE Busy /\ thread # 0
  BY <1>1, <1>3, <1>4 DEF CountInv
<1>5. CASE ~(Busy /\ thread # 0)
  <2>1. Cardinality(Running) <= failed
    BY <1>5 DEF CountInv
  <2>2. failed' \in Nat /\ Cardinality(Running') <= failed' /\ Cardinality(Running') <= failed' + 1
    BY <1>1, <1>3, <2>1
  <2> QED
    BY <2>2 DEF CountInv
<1> QED
  BY <1>4, <1>5

LEMMA CallSame ==
  ASSUME CallInv, call' = call, isOpen' = isOpen, thread' = thread \/ thread' = 0
  PROVE  CallInv' /\ Busy' = Busy
BY DEF CallInv, Idle, Task, Busy

LEMMA Proceeds ==
  ASSUME CallInv, CountInv, SameThreads, failed' = failed, Proceed,
         ~Idle, call.op # "close",
         (Task # "opened" /\ isOpen' = isOpen) \/ isOpen' = TRUE
  PROVE  Goal
<1> DEFINE todo == call.todo
<1>1. todo \in Seq(Ordinary) /\ todo # <<>> /\ IsCall(call)
  BY DEF CallInv, Idle
<1>2. call'.op = call.op /\ call'.todo = Tail(todo) /\ call'.waits = FALSE
  BY <1>1 DEF Proceed, IsCall
<1>3. Tail(todo) \in Seq(Ordinary) /\ Tail(todo) \in Seq(Tasks)
  BY <1>1, HeadTailProperties DEF IsCall
<1>4. IsCall(call')
  <2>1. DOMAIN call' = DOMAIN call
    BY DEF Proceed
  <2> QED
    BY <1>1, <1>2, <1>3, <2>1 DEF IsCall
<1>5. isOpen' \in BOOLEAN
  BY DEF CallInv
<1>6. call.op = "open" \/ isOpen
  BY DEF CallInv
<1>7. ASSUME call.op = "open", ~isOpen'
      PROVE  \E i \in DOMAIN Tail(todo) : Tail(todo)[i] = "opened"
  <2>1. PICK i \in DOMAIN todo : todo[i] = "opened"
    BY <1>7, <1>5 DEF CallInv
  <2>2. i # 1
    BY <1>1, <1>7, <2>1 DEF Task
  <2>3. i \in 1 .. Len(todo) /\ Len(todo) \in Nat /\ Len(Tail(todo)) = Len(todo) - 1
    BY <1>1, <2>1, HeadTailProperties
  <2>4. i - 1 \in DOMAIN Tail(todo)
    BY <1>1, <1>3, <2>2, <2>3
  <2>5. Tail(todo)[i - 1] = todo[i]
    BY <1>1, <2>2, <2>3, HeadTailProperties
  <2> QED
    BY <2>1, <2>4, <2>5
<1>8. CallInv'
  BY <1>2, <1>3, <1>4, <1>5, <1>6, <1>7 DEF CallInv, Idle
<1>9. Busy => Busy'
  <2>1. ASSUME ~isOpen', Busy PROVE ~Idle' /\ call'.op = "open"
    <3>1. call.op = "open"
      BY <2>1, <1>6
    <3>2. Tail(todo) # <<>>
      BY <2>1, <3>1, <1>7
    <3> QED
      BY <3>1, <3>2, <1>2 DEF Idle
  <2> QED
    BY <2>1 DEF Busy
<1>10. CountInv'
  BY <1>9, CountSame
<1> QED
  BY <1>8, <1>10 DEF Goal

LEMMA Returns ==
  ASSUME CallInv, CountInv, SameThreads, failed' = failed, Returned,
         ~Idle, call.op # "close",
         (Task # "opened" /\ isOpen' = isOpen) \/ isOpen' = TRUE
  PROVE  Goal
BY Proceeds DEF Returned

LEMMA Raises ==
  ASSUME CallInv, CountInv, SameThreads, Raise, isOpen' = isOpen, ~Idle
  PROVE  Goal
<1>1. /\ call'.op = call.op /\ call'.todo = <<>> /\ call'.waits = FALSE
      /\ IsCall(call')
  <2>1. <<>> \in Seq(Tasks)
    OBVIOUS
  <2>2. IsCall(call)
    BY DEF CallInv
  <2> QED
    BY <2>1, <2>2 DEF Raise, IsCall
<1>2. CallInv'
  BY <1>1 DEF CallInv, Idle
<1>3. CASE isOpen
  <2>1. failed' = failed /\ Busy'
    BY <1>3 DEF Raise, Busy
  <2> QED
    BY <1>2, <2>1, CountSame DEF Goal
<1>4. CASE ~isOpen
  <2>1. call.op = "open"
    BY <1>4 DEF CallInv
  <2>2. failed' = failed + 1
    BY <1>4, <2>1 DEF Raise
  <2>3. Running' = Running
    BY DEF SameThreads, Running
  <2>4. ~Busy'
    BY <1>1, <1>4 DEF Busy, Idle
  <2>5. failed \in Nat /\ (Cardinality(Running) <= failed + 1 \/ Cardinality(Running) <= failed)
    BY DEF CountInv
  <2>6. Cardinality(Running') \in Nat
    BY <2>3, RunningFinite
  <2>7. failed' \in Nat /\ Cardinality(Running') <= failed'
    BY <2>2, <2>3, <2>5, <2>6
  <2>8. CountInv'
    BY <2>4, <2>7 DEF CountInv
  <2> QED
    BY <1>2, <2>8 DEF Goal
<1> QED
  BY <1>3, <1>4

LEMMA Waits ==
  ASSUME CallInv, CountInv, SameThreads, failed' = failed, isOpen' = isOpen,
         NEW rest, NEW w \in BOOLEAN,
         \/ call' = [call EXCEPT !.waits = w]
         \/ call' = [call EXCEPT !.unasked = rest, !.waits = w],
         ~Idle, Task \notin {"opened", "check", "closed"}
  PROVE  Goal
<1>1. /\ call'.op = call.op /\ call'.todo = call.todo
      /\ IsCall(call')
  BY DEF CallInv, IsCall
<1>2. CallInv'
  BY <1>1 DEF CallInv, SameThreads, Idle, Task
<1>3. Busy' = Busy
  BY <1>1 DEF Busy, Idle
<1> QED
  BY <1>2, <1>3, CountSame DEF Goal

LEMMA Starts ==
  ASSUME CallInv, CountInv, SameThreads, failed' = failed, isOpen' = isOpen, isOpen,
         NEW op \in Ops, NEW todo \in Seq(Tasks), Start(op, todo),
         \/ op \notin {"open", "close"} /\ todo \in Seq(Ordinary)
         \/ op = "close" /\ todo = <<"check", "join", "closed">>
  PROVE  Goal
<1>1. /\ call'.op = op /\ call'.todo = todo /\ call'.waits = FALSE
      /\ IsCall(call')
  BY DEF Start, IsCall
<1>2. isOpen' = TRUE
  BY DEF CallInv
<1> DEFINE Part ==
      /\ op = "open" /\ ~isOpen' => \E i \in DOMAIN todo : todo[i] = "opened"
      /\ IF op = "close" THEN todo \in Closing ELSE todo \in Seq(Ordinary)
      /\ op = "close" /\ Head(todo) = "closed" => thread' = 0
<1>3. Part
  <2>1. CASE op \notin {"open", "close"} /\ todo \in Seq(Ordinary)
    BY <2>1
  <2>2. CASE op = "close" /\ todo = <<"check", "join", "closed">>
    <3>1. todo \in Closing /\ Head(todo) = "check"
      BY <2>2 DEF Closing
    <3> QED
      BY <2>2, <3>1
  <2> QED
    BY <2>1, <2>2
<1>4. CallInv'
  BY <1>1, <1>2, <1>3 DEF CallInv, Idle, Task
<1>5. Busy'
  BY <1>2 DEF Busy
<1>6. CountInv'
  BY <1>5, CountSame
<1> QED
  BY <1>4, <1>6 DEF Goal

(* The lists of tasks are sequences.                                       *)
LEMMA ShortLists ==
  ASSUME NEW S, NEW a \in S, NEW b \in S
  PROVE  <<a>> \in Seq(S) /\ <<a, b>> \in Seq(S)
OBVIOUS

LEMMA LongLists ==
  ASSUME NEW S, NEW a \in S, NEW b \in S, NEW c \in S
  PROVE  <<a, b, c>> \in Seq(S)
OBVIOUS

LEMMA FourList ==
  ASSUME NEW S, NEW a \in S, NEW b \in S, NEW c \in S, NEW d \in S
  PROVE  <<a, b, c, d>> \in Seq(S)
OBVIOUS

(* An element of the first of two sequences is where it was.               *)
LEMMA Prefixed ==
  ASSUME NEW S, NEW a \in Seq(S), NEW b \in Seq(S)
  PROVE  /\ a \o b \in Seq(S) /\ Len(a \o b) = Len(a) + Len(b)
         /\ Len(a) \in Nat /\ Len(b) \in Nat
         /\ \A i \in 1 .. Len(a) : (a \o b)[i] = a[i]
BY ConcatProperties

LEMMA ClosingLists == \A todo \in Closing : todo \in Seq(Tasks) /\ todo # <<>>
<1>1. "check" \in Tasks /\ "join" \in Tasks /\ "closed" \in Tasks
  BY DEF Tasks
<1>2. /\ <<"check", "join", "closed">> \in Seq(Tasks) /\ <<"check", "join", "closed">> # <<>>
      /\ <<"join", "closed">> \in Seq(Tasks) /\ <<"join", "closed">> # <<>>
      /\ <<"closed">> \in Seq(Tasks) /\ <<"closed">> # <<>>
  BY <1>1, ShortLists, LongLists
<1> QED
  BY <1>2 DEF Closing

(* The calls and the tasks, one by one.                                    *)
LEMMA CallsGoal ==
  ASSUME CallInv, CountInv, Set \/ Control \/ Write \/ Read \/ Close
  PROVE  Goal
<1>1. SameThreads /\ failed' = failed /\ isOpen' = isOpen
  <2>1. ASSUME Set PROVE SameThreads /\ failed' = failed /\ isOpen' = isOpen
    BY <2>1 DEF Set, SameThreads
  <2>2. ASSUME Control PROVE SameThreads /\ failed' = failed /\ isOpen' = isOpen
    BY <2>2 DEF Control, SameThreads
  <2> QED
    BY <2>1, <2>2 DEF Write, Read, Close, SameThreads
<1>2. ASSUME call' = call PROVE Goal
  BY <1>1, <1>2, CallSame, CountSame DEF Goal, SameThreads
<1>3. ASSUME NEW op, NEW todo, Start(op, todo), isOpen,
             op \in Inner, todo \in Seq(Ordinary)
      PROVE  Goal
  <2>1. todo \in Seq(Tasks) /\ op \in Ops /\ op \notin {"open", "close"}
    BY <1>3 DEF Tasks, Ops, Inner
  <2> QED
    BY <1>1, <1>3, <2>1, Starts
<1>4. CASE Set
  <2>1. Reconfigure \in Seq(Ordinary) /\ "set" \in Inner
    <3>0. "set" \in Inner
      BY DEF Inner
    <3>1. "settings" \in Ordinary /\ "flow" \in Ordinary
      BY DEF Ordinary
    <3> QED
      BY <3>0, <3>1, ShortLists DEF Reconfigure
  <2>2. (isOpen /\ Start("set", Reconfigure)) \/ call' = call
    BY <1>4 DEF Set
  <2> QED
    BY <1>2, <1>3, <2>1, <2>2
<1>5. CASE Control
  <2>1. /\ <<"purge in", "empty">> \in Seq(Ordinary) /\ <<"purge out">> \in Seq(Ordinary)
        /\ <<"rts off">> \in Seq(Ordinary) /\ <<"dtr off">> \in Seq(Ordinary)
        /\ <<"break on", "break off">> \in Seq(Ordinary) /\ <<"poll">> \in Seq(Ordinary)
    <3>1. /\ "purge in" \in Ordinary /\ "empty" \in Ordinary /\ "purge out" \in Ordinary
          /\ "rts off" \in Ordinary /\ "dtr off" \in Ordinary /\ "poll" \in Ordinary
          /\ "break on" \in Ordinary /\ "break off" \in Ordinary
      BY DEF Ordinary
    <3> QED
      BY <3>1, ShortLists
  <2>2. isOpen
    BY <1>5 DEF Control
  <2>3. \/ Start("flushInput", <<"purge in", "empty">>)
        \/ Start("flushOutput", <<"purge out">>)
        \/ Start("line", <<"rts off">>)
        \/ Start("line", <<"dtr off">>)
        \/ Start("sendBreak", <<"break on", "break off">>)
        \/ Start("getCTS", <<"poll">>)
    BY <1>5 DEF Control
  <2>4. /\ "flushInput" \in Inner
        /\ "flushOutput" \in Inner
        /\ "line" \in Inner
        /\ "sendBreak" \in Inner
        /\ "getCTS" \in Inner
    BY DEF Inner
  <2> QED
    BY <1>3, <2>1, <2>2, <2>3, <2>4
<1>6. CASE Write \/ Read
  <2>1. call' = call
    BY <1>6 DEF Write, Read
  <2> QED
    BY <2>1, <1>2
<1>7. CASE Close
  <2>1. isOpen /\ Start("close", <<"check", "join", "closed">>)
    BY <1>7 DEF Close, CloseTasks
  <2>2. <<"check", "join", "closed">> \in Seq(Tasks) /\ "close" \in Ops
    BY ClosingLists DEF Closing, Ops
  <2> QED
    BY <1>1, <2>1, <2>2, Starts
<1> QED
  BY <1>4, <1>5, <1>6, <1>7

(* What a close has before it.                                             *)
LEMMA OfClose ==
  ASSUME CallInv, ~Idle
  PROVE  /\ Task \in {"check", "join", "closed"} <=> call.op = "close"
         /\ call.op = "close" =>
              /\ isOpen
              /\ Task = "check" => Tail(call.todo) = <<"join", "closed">>
              /\ Task = "join" => Tail(call.todo) = <<"closed">>
              /\ Task = "closed" => Tail(call.todo) = <<>> /\ thread = 0
<1>1. CASE call.op = "close"
  <2>1. /\ call.todo \in Closing /\ isOpen
        /\ Task = "closed" => thread = 0
    BY <1>1 DEF CallInv
  <2>2. CASE call.todo = <<"check", "join", "closed">>
    <3>1. Task = "check" /\ Tail(call.todo) = <<"join", "closed">>
      BY <2>2 DEF Task
    <3> QED
      BY <1>1, <2>1, <3>1
  <2>3. CASE call.todo = <<"join", "closed">>
    <3>1. Task = "join" /\ Tail(call.todo) = <<"closed">>
      BY <2>3 DEF Task
    <3> QED
      BY <1>1, <2>1, <3>1
  <2>4. CASE call.todo = <<"closed">>
    <3>1. Task = "closed" /\ Tail(call.todo) = <<>>
      BY <2>4 DEF Task
    <3> QED
      BY <1>1, <2>1, <3>1
  <2> QED
    BY <2>1, <2>2, <2>3, <2>4 DEF Closing
<1>2. CASE call.op # "close"
  <2>1. call.todo \in Seq(Ordinary) /\ call.todo # <<>>
    BY <1>2 DEF CallInv, Idle
  <2>2. Task \in Ordinary
    BY <2>1, HeadTailProperties DEF Task
  <2> QED
    BY <1>2, <2>2 DEF Ordinary
<1> QED
  BY <1>1, <1>2

LEMMA RequestGoal ==
  ASSUME CallInv, CountInv, BeginRequest
  PROVE  Goal
<1>1. SameThreads /\ isOpen' = isOpen /\ ~Idle /\ Task \notin {"opened", "check", "closed"}
  BY DEF BeginRequest, SameThreads, Local
<1>2. Raise \/ (call' = [call EXCEPT !.waits = TRUE] /\ failed' = failed)
  BY DEF BeginRequest
<1> QED
  BY <1>1, <1>2, Raises, Waits

LEMMA NegotiateGoal ==
  ASSUME CallInv, CountInv, Negotiate
  PROVE  Goal
<1>1. SameThreads /\ isOpen' = isOpen /\ ~Idle /\ Task \notin {"opened", "check", "closed"}
  BY DEF Negotiate, SameThreads
<1>2. \/ Raise
      \/ \E rest : \E w \in BOOLEAN :
           call' = [call EXCEPT !.unasked = rest, !.waits = w] /\ failed' = failed
  BY DEF Negotiate
<1> QED
  BY <1>1, <1>2, Raises, Waits

LEMMA AwaitGoal ==
  ASSUME CallInv, CountInv, AwaitRequest
  PROVE  Goal
<1>1. SameThreads /\ isOpen' = isOpen
  BY DEF AwaitRequest, SameThreads
<1>2. ~Idle /\ Task \notin {"opened", "check", "closed", "join"}
  BY DEF AwaitRequest, CallInv
<1>3. call.op # "close"
  BY <1>2, OfClose
<1>4. Raise \/ (Returned /\ failed' = failed)
  BY DEF AwaitRequest
<1> QED
  BY <1>1, <1>2, <1>3, <1>4, Raises, Returns

LEMMA OpenedGoal ==
  ASSUME CallInv, CountInv, Opened \/ EmptyBuffer
  PROVE  Goal
<1>1. SameThreads /\ failed' = failed /\ Returned /\ ~Idle
  BY DEF Opened, EmptyBuffer, SameThreads
<1>2. \/ Task = "opened" /\ isOpen' = TRUE
      \/ Task = "empty" /\ isOpen' = isOpen
  BY DEF Opened, EmptyBuffer
<1>3. call.op # "close"
  BY <1>1, <1>2, OfClose
<1> QED
  BY <1>1, <1>2, <1>3, Returns

LEMMA PollGoal ==
  ASSUME CallInv, CountInv, Poll
  PROVE  Goal
<1>1. SameThreads /\ isOpen' = isOpen /\ ~Idle /\ Task = "poll"
  BY DEF Poll, SameThreads
<1>2. call.op # "close"
  BY <1>1, OfClose
<1>3. \/ Raise
      \/ call' = [call EXCEPT !.waits = TRUE] /\ failed' = failed
      \/ Returned /\ failed' = failed
  BY DEF Poll
<1> QED
  BY <1>1, <1>2, <1>3, Raises, Returns, Waits

LEMMA JoinGoal ==
  ASSUME CallInv, CountInv, ThreadInv, Join
  PROVE  Goal
<1>1. SameThreads /\ ~Idle
  BY DEF Join, SameThreads
<1>2. Task \in {"check", "join", "closed"}
  BY DEF Join
<1>3. call.op = "close" /\ isOpen
  BY <1>1, <1>2, OfClose
<1>4. IsCall(call)
  BY DEF CallInv
<1>5. ASSUME NEW todo \in Closing, call' = [call EXCEPT !.todo = todo, !.waits = FALSE],
             Head(todo) = "closed" => thread = 0, isOpen' = isOpen, failed' = failed
      PROVE  Goal
  <2>1. todo \in Seq(Tasks) /\ todo # <<>>
    BY <1>5, ClosingLists
  <2>2. /\ IsCall(call')
        /\ call'.op = "close" /\ call'.todo = todo /\ call'.waits = FALSE
    BY <1>3, <1>4, <1>5, <2>1 DEF IsCall
  <2>3. isOpen' = TRUE
    BY <1>3, <1>5 DEF CallInv
  <2>4. CallInv'
    BY <1>1, <1>5, <2>2, <2>3 DEF CallInv, Idle, Task, SameThreads
  <2>5. Busy'
    BY <2>3 DEF Busy
  <2> QED
    BY <1>1, <1>5, <2>4, <2>5, CountSame DEF Goal
<1>6. CASE Task = "check" /\ thread # 0 /\ Returned /\ UNCHANGED <<failed, isOpen>>
  <2>1. Tail(call.todo) = <<"join", "closed">>
    BY <1>1, <1>3, <1>6, OfClose
  <2>2. call' = [call EXCEPT !.todo = <<"join", "closed">>, !.waits = FALSE]
    BY <1>6, <2>1 DEF Returned, Proceed
  <2>3. <<"join", "closed">> \in Closing /\ Head(<<"join", "closed">>) = "join"
    BY DEF Closing
  <2> QED
    BY <1>5, <1>6, <2>2, <2>3
<1>7. CASE /\ Task = "check" /\ thread = 0 /\ failed' = failed /\ isOpen' = isOpen
           /\ call' = [call EXCEPT !.todo = <<"closed">>]
  <2>1. call.waits = FALSE
    BY <1>4, <1>7 DEF CallInv, IsCall
  <2>2. call' = [call EXCEPT !.todo = <<"closed">>, !.waits = FALSE]
    BY <1>4, <1>7, <2>1 DEF IsCall
  <2>3. <<"closed">> \in Closing
    BY DEF Closing
  <2> QED
    BY <1>5, <1>7, <2>2, <2>3
<1>8. CASE /\ Task = "join" /\ ~call.waits
           /\ IF thread = 0 THEN Raise
              ELSE call' = [call EXCEPT !.waits = TRUE] /\ UNCHANGED <<answer, failed>>
           /\ isOpen' = isOpen
  BY <1>1, <1>8, Raises, Waits
<1>9. CASE /\ Task = "join" /\ call.waits /\ ~readers[Latest].runs
           /\ Returned /\ UNCHANGED <<failed, isOpen>>
  <2>1. thread = 0
    BY <1>9 DEF ThreadInv, Running
  <2>2. Tail(call.todo) = <<"closed">>
    BY <1>1, <1>3, <1>9, OfClose
  <2>3. call' = [call EXCEPT !.todo = <<"closed">>, !.waits = FALSE]
    BY <1>9, <2>2 DEF Returned, Proceed
  <2>4. <<"closed">> \in Closing
    BY DEF Closing
  <2> QED
    BY <1>5, <1>9, <2>1, <2>3, <2>4
<1>10. CASE Task = "closed" /\ isOpen' = FALSE /\ Returned /\ UNCHANGED failed
  <2>1. Tail(call.todo) = <<>> /\ thread = 0
    BY <1>1, <1>3, <1>10, OfClose
  <2>2. call' = [call EXCEPT !.todo = <<>>, !.waits = FALSE]
    BY <1>10, <2>1 DEF Returned, Proceed
  <2>3. <<>> \in Seq(Tasks)
    OBVIOUS
  <2>4. /\ IsCall(call')
        /\ call'.todo = <<>> /\ call'.waits = FALSE
    BY <1>4, <2>2, <2>3 DEF IsCall
  <2>5. CallInv'
    BY <1>10, <2>4 DEF CallInv, Idle
  <2>6. CountInv'
    BY <1>1, <1>10, <2>1, CountSame
  <2> QED
    BY <2>5, <2>6 DEF Goal
<1> QED
  BY <1>6, <1>7, <1>8, <1>9, <1>10 DEF Join

-----------------------------------------------------------------------------
(* The readers.                                                            *)

LEMMA ThreadSame ==
  ASSUME ThreadInv, readers' = readers, thread' = thread, Latest' = Latest
  PROVE  ThreadInv'
BY DEF ThreadInv, Running

(* A step of a reader: it goes on, or it ends and takes _thread with it.   *)
LEMMA ReaderGoal ==
  ASSUME CallInv, ThreadInv, CountInv, Reader, Latest' = Latest
  PROVE  Goal /\ ThreadInv'
<1>1. call' = call /\ isOpen' = isOpen /\ failed' = failed
  BY DEF Reader, ReaderTakes, ReaderNotes, ReaderEnds
<1> DEFINE GoesOn(r) == \E frame : Framed(r, frame)
<1> DEFINE Noted(r) ==
      \E frame, n : readers' = [readers EXCEPT ![r].frame = frame, ![r].noting = n]
<1> DEFINE Notes(r) == readers' = [readers EXCEPT ![r].noting = <<>>]
<1>2. PICK r \in Conns :
        \/ GoesOn(r)
        \/ (Noted(r) \/ Notes(r)) /\ thread' = thread
        \/ readers[r].runs /\ Ends(r)
  <2>1. PICK r \in Conns : ReaderTakes(r) \/ ReaderNotes(r) \/ ReaderEnds(r)
    BY DEF Reader
  <2>2. CASE ReaderTakes(r)
    <3>1. PICK frame, sub : \/ Framed(r, frame)
                            \/ ProcessSubnegotiation(r, sub) /\ thread' = thread
                            \/ readers[r].runs /\ Ends(r)
      BY <2>2, TakesWhat
    <3>2. ASSUME ProcessSubnegotiation(r, sub), thread' = thread
          PROVE  GoesOn(r) \/ (Noted(r) /\ thread' = thread)
      BY <3>2 DEF ProcessSubnegotiation, Framed
    <3> QED
      BY <3>1, <3>2
  <2>3. CASE ReaderNotes(r) \/ ReaderEnds(r)
    BY <2>3 DEF ReaderNotes, ReaderEnds
  <2> QED
    BY <2>1, <2>2, <2>3
<1>3. CASE GoesOn(r) \/ ((Noted(r) \/ Notes(r)) /\ thread' = thread)
  <2>2. thread' = thread
    BY <1>3 DEF Framed
  <2>3. /\ DOMAIN readers' = Conns
        /\ \A q \in Conns : "runs" \in DOMAIN readers'[q] /\ readers'[q].runs = readers[q].runs
    BY <1>3 DEF ThreadInv, Framed
  <2>4. Running' = Running
    BY <2>3 DEF Running
  <2>5. ThreadInv'
    BY <2>2, <2>3, <2>4 DEF ThreadInv
  <2>6. CallInv' /\ Busy' = Busy
    BY <1>1, <2>2, CallSame
  <2>7. CountInv'
    BY <1>1, <2>2, <2>4, <2>6 DEF CountInv
  <2> QED
    BY <2>5, <2>6, <2>7 DEF Goal
<1>4. CASE readers[r].runs /\ Ends(r)
  <2>1. readers' = [readers EXCEPT ![r] = StoppedReader] /\ thread' = 0
    BY <1>4 DEF Ends
  <2>2. StoppedReader.runs = FALSE /\ "runs" \in DOMAIN StoppedReader
    BY DEF StoppedReader
  <2>3. /\ DOMAIN readers' = Conns
        /\ \A q \in Conns : "runs" \in DOMAIN readers'[q] /\ readers'[q].runs \in BOOLEAN
    BY <2>1, <2>2 DEF ThreadInv
  <2>4. ThreadInv'
    BY <2>1, <2>3 DEF ThreadInv
  <2>5. r \in Running /\ Running' = Running \ {r}
    BY <1>4, <2>1, <2>2 DEF Running, ThreadInv
  <2>6. Cardinality(Running') = Cardinality(Running) - 1
    BY <2>5, RunningFinite, FS_RemoveElement
  <2>7. Cardinality(Running) <= failed + 1 \/ Cardinality(Running) <= failed
    BY DEF CountInv
  <2>8. failed \in Nat /\ Cardinality(Running) \in Nat
    BY RunningFinite DEF CountInv
  <2>9. failed' \in Nat /\ Cardinality(Running') <= failed'
    BY <1>1, <2>6, <2>7, <2>8
  <2>10. CountInv'
    BY <2>1, <2>9 DEF CountInv
  <2>11. CallInv'
    BY <1>1, <2>1, CallSame
  <2> QED
    BY <2>4, <2>10, <2>11 DEF Goal
<1> QED
  BY <1>2, <1>3, <1>4

(* An open starts one, and is not over.                                    *)
LEMMA OpenGoal ==
  ASSUME NetInv, NumberInv, CallInv, ThreadInv, CountInv, Open
  PROVE  Goal /\ ThreadInv'
<1> DEFINE N == Latest + 1
<1> DEFINE a == <<"options", "settings", "flow", "opened">>
<1> DEFINE b == IF stored.rtscts THEN <<>> ELSE <<"rts on", "dtr on">>
<1> DEFINE c == <<"purge in", "empty", "purge out">>
<1>1. /\ N \in Conns /\ thread' = N /\ Latest' = N /\ N # 0
      /\ readers' = [r \in Conns |->
           IF r = N THEN [StoppedReader EXCEPT !.runs = TRUE]
           ELSE [readers[r] EXCEPT !.noting = <<>>]]
  <2>1. N # 0
    BY LatestNat
  <2> QED
    BY <2>1, OpenMakes, OpenNumber
<1>2. ~isOpen /\ Idle /\ isOpen' = isOpen /\ failed' = failed
      /\ call' = [op |-> "open", waits |-> FALSE, unasked |-> ClientOrder, todo |-> a \o b \o c]
  BY DEF Open
<1>3. a \in Seq(Ordinary) /\ b \in Seq(Ordinary) /\ c \in Seq(Ordinary)
  <2>1. {"options", "settings", "flow", "opened", "rts on", "dtr on", "purge in", "empty",
         "purge out"} \subseteq Ordinary
    BY DEF Ordinary
  <2>2. <<>> \in Seq(Ordinary)
    OBVIOUS
  <2>3. a \in Seq(Ordinary) /\ c \in Seq(Ordinary)
    BY <2>1, LongLists, FourList
  <2>4. <<"rts on", "dtr on">> \in Seq(Ordinary)
    BY <2>1, ShortLists
  <2> QED
    BY <2>2, <2>3, <2>4
<1>4. Len(a) = 4 /\ a[1] = "options" /\ a[4] = "opened"
  OBVIOUS
<1> HIDE DEF a, b, c
<1>5. /\ a \o b \in Seq(Ordinary) /\ Len(a \o b) = 4 + Len(b)
      /\ (a \o b)[1] = "options" /\ (a \o b)[4] = "opened"
  <2>1. 1 \in 1 .. Len(a) /\ 4 \in 1 .. Len(a)
    BY <1>4
  <2>2. /\ a \o b \in Seq(Ordinary) /\ Len(a \o b) = Len(a) + Len(b)
        /\ \A i \in 1 .. Len(a) : (a \o b)[i] = a[i]
    BY <1>3, Prefixed
  <2> QED
    BY <1>4, <2>1, <2>2
<1>6. /\ a \o b \o c \in Seq(Ordinary) /\ Len(a \o b \o c) = 4 + Len(b) + Len(c)
      /\ (a \o b \o c)[1] = "options" /\ (a \o b \o c)[4] = "opened"
  <2>1. 1 \in 1 .. Len(a \o b) /\ 4 \in 1 .. Len(a \o b)
    BY <1>3, <1>5, Prefixed
  <2> QED
    BY <1>3, <1>5, <2>1, Prefixed
<1> DEFINE todo == a \o b \o c
<1>7. /\ todo \in Seq(Ordinary) /\ todo # <<>> /\ 4 \in DOMAIN todo
      /\ Head(todo) = "options" /\ todo[4] = "opened"
  <2>1. Len(b) \in Nat /\ Len(c) \in Nat
    BY <1>3
  <2> QED
    BY <1>6, <2>1
<1> HIDE DEF todo
<1>8. todo \in Seq(Tasks) /\ "open" \in Ops
  BY <1>7 DEF Tasks, Ops
<1>9. /\ IsCall(call')
      /\ call'.op = "open" /\ call'.todo = todo /\ call'.waits = FALSE
  BY <1>2, <1>8 DEF todo, IsCall
<1>10. ~Idle' /\ Task' = "options"
  BY <1>7, <1>9 DEF Idle, Task
<1>11. CallInv'
  BY <1>2, <1>7, <1>9, <1>10 DEF CallInv
<1>12. DOMAIN readers' = Conns
       /\ \A q \in Conns : /\ "runs" \in DOMAIN readers'[q]
                           /\ readers'[q].runs = (readers[q].runs \/ q = N)
  BY <1>1 DEF ThreadInv, StoppedReader
<1>13. Running' = Running \cup {N}
  BY <1>1, <1>12 DEF Running
<1>14. ThreadInv'
  BY <1>1, <1>12, <1>13 DEF ThreadInv
<1>15. Cardinality(Running) <= failed /\ failed \in Nat
  BY <1>2 DEF CountInv, Busy
<1>16. Cardinality(Running') <= failed' + 1
  <2>1. \/ Cardinality(Running') = Cardinality(Running)
        \/ Cardinality(Running') = Cardinality(Running) + 1
    BY <1>13, RunningFinite, FS_AddElement
  <2> QED
    BY <1>2, <1>15, <2>1, RunningFinite
<1>17. Busy' /\ thread' # 0
  BY <1>1, <1>9, <1>10 DEF Busy
<1>18. CountInv'
  BY <1>2, <1>15, <1>16, <1>17 DEF CountInv
<1> QED
  BY <1>11, <1>14, <1>18 DEF Goal

LEMMA ReadersInit == Init => ReadersInv
<1> SUFFICES ASSUME Init PROVE ReadersInv
  OBVIOUS
<1>1. MaxOpens \in Nat /\ 0 \notin Conns
  BY TelnetAssumption DEF Conns
<1>2. NoConn.server = "none" /\ "server" \in DOMAIN NoConn
  BY DEF NoConn
<1>3. net = [c \in Conns |-> NoConn]
  BY DEF Init
<1>4. main.conn = 0 /\ "conn" \in DOMAIN main /\ sock = 0
  BY DEF Init, ServerInit, Waiting, ClientInit
<1>5. NetInv
  BY <1>1, <1>2, <1>3, <1>4 DEF NetInv
<1>6. Used = {}
  BY <1>3 DEF Used
<1>7. Latest = 0
  BY <1>6, LatestNat, FS_EmptySet
<1>8. "opens" \in DOMAIN left /\ left.opens \in 0 .. MaxOpens
  BY TelnetAssumption DEF Init
<1>9. NumberInv
  BY <1>1, <1>6, <1>7, <1>8 DEF NumberInv
<1>10. /\ call = [op |-> "none", todo |-> <<>>, waits |-> FALSE, unasked |-> <<>>]
       /\ isOpen = FALSE /\ thread = 0 /\ failed = 0
       /\ readers = [r \in Conns |-> StoppedReader]
  BY DEF Init, ClientInit
<1>11. IsCall(call) /\ call.todo = <<>> /\ call.waits = FALSE
  <2>1. "none" \in Ops /\ <<>> \in Seq(Tasks)
    BY DEF Ops, Inner
  <2> QED
    BY <1>10, <2>1 DEF IsCall
<1>12. CallInv
  BY <1>10, <1>11 DEF CallInv, Idle
<1>13. StoppedReader.runs = FALSE /\ "runs" \in DOMAIN StoppedReader
  BY DEF StoppedReader
<1>14. ThreadInv
  BY <1>10, <1>13 DEF ThreadInv
<1>15. Running = {}
  BY <1>10, <1>13 DEF Running
<1>16. CountInv
  BY <1>10, <1>15, FS_EmptySet DEF CountInv
<1> QED
  BY <1>5, <1>9, <1>12, <1>14, <1>16 DEF ReadersInv

LEMMA ReadersStep ==
  ASSUME ReadersInv, [Next]_vars
  PROVE  ReadersInv'
<1> USE DEF ReadersInv
<1>1. NetInv' /\ NumberInv'
  BY NetStep
<1>2. CASE Opens
  BY <1>1, <1>2, OpenGoal DEF Opens, Goal
<1>3. CASE ~Opens
  <2>1. Latest' = Latest
    BY <1>3, OthersKeep, OthersSpend, KeepsKept, KeptNumber DEF MainKeeps
  <2>2. ASSUME Set \/ Control \/ Write \/ Read \/ Close PROVE Goal /\ ThreadInv'
    <3>1. readers' = readers /\ thread' = thread
      <4>1. ASSUME Set PROVE readers' = readers /\ thread' = thread
        BY <4>1 DEF Set
      <4>2. ASSUME Control PROVE readers' = readers /\ thread' = thread
        BY <4>2 DEF Control
      <4> QED
        BY <2>2, <4>1, <4>2 DEF Write, Read, Close
    <3> QED
      BY <2>1, <2>2, <3>1, CallsGoal, ThreadSame
  <2>3. ASSUME ClientThread PROVE Goal /\ ThreadInv'
    <3>1. readers' = readers /\ thread' = thread
      BY <2>3 DEF ClientThread, Negotiate, BeginRequest, AwaitRequest, Opened, EmptyBuffer, Poll, Join
    <3>2. ThreadInv'
      BY <2>1, <3>1, ThreadSame
    <3> QED
      BY <2>3, <3>2, NegotiateGoal, RequestGoal, AwaitGoal, OpenedGoal, PollGoal, JoinGoal DEF ClientThread
  <2>4. ASSUME Reader PROVE Goal /\ ThreadInv'
    BY <2>1, <2>4, ReaderGoal
  <2>5. ASSUME UNCHANGED client PROVE Goal /\ ThreadInv'
    <3>1. SameThreads /\ call' = call /\ isOpen' = isOpen /\ failed' = failed
      BY <2>5 DEF client, SameThreads
    <3>2. CallInv' /\ Busy' = Busy
      BY <3>1, CallSame DEF SameThreads
    <3> QED
      BY <2>1, <3>1, <3>2, CountSame, ThreadSame DEF Goal, SameThreads
  <2>6. Set \/ Control \/ Write \/ Read \/ Close \/ ClientThread \/ Reader \/ UNCHANGED client
    <3>1. ASSUME DeviceSends \/ LineChanges \/ Lose \/ UNCHANGED vars PROVE UNCHANGED client
      BY <3>1 DEF DeviceSends, LineChanges, Lose, vars
    <3> QED
      BY <1>3, <3>1 DEF Next, ClientStep, ClientCalls, ServerStep, Opens
  <2> QED
    BY <1>1, <2>2, <2>3, <2>4, <2>5, <2>6 DEF Goal
<1> QED
  BY <1>2, <1>3

LEMMA ReadersImply == ReadersInv => ReadersAccounted
<1> SUFFICES ASSUME ReadersInv PROVE ReadersAccounted
  OBVIOUS
<1>1. failed \in Nat /\ Cardinality(Running) \in Nat /\ IsFiniteSet(Running)
  BY RunningFinite DEF ReadersInv, CountInv
<1>2. Cardinality(Running) <= failed + 1
  BY <1>1 DEF ReadersInv, CountInv
<1>3. ASSUME Idle, ~isOpen, failed = 0 PROVE Running = {}
  <2>1. Cardinality(Running) <= 0
    BY <1>3 DEF ReadersInv, CountInv, Busy
  <2> QED
    BY <1>1, <2>1, FS_EmptySet
<1> QED
  BY <1>2, <1>3 DEF ReadersAccounted, Running

(* Whatever the calls, their timeouts, the answers and the losses of       *)
(* connections: of the reader threads that run, all but one were left by   *)
(* an open that failed, and a port that is closed has none if no open did. *)
THEOREM ReadersAreAccounted == Spec => []ReadersAccounted
<1>1. Init => ReadersInv
  BY ReadersInit
<1>2. ReadersInv /\ [Next]_vars => ReadersInv'
  BY ReadersStep
<1>3. ReadersInv => ReadersAccounted
  BY ReadersImply
<1> QED
  BY <1>1, <1>2, <1>3, PTL DEF Spec
=============================================================================
