------------------------------- MODULE Rfc2217 -------------------------------
(***************************************************************************)
(* A program with a remote serial port: the client, the server and the     *)
(* TCP connections between them, which may be lost.                        *)
(***************************************************************************)
EXTENDS Rfc2217Client, Rfc2217Server

device == <<cts, arrived>>
vars == <<net, client, server, device, left>>

Init ==
  /\ net = [c \in Conns |-> NoConn] /\ left \in Scenarios
  /\ ClientInit /\ ServerInit

ClientStep ==
  (ClientCalls \/ ClientThread \/ Reader) /\ UNCHANGED <<server, device>>
ServerStep ==
  (Main \/ ReaderThread \/ Poller) /\ UNCHANGED <<client, device>>

DeviceSends ==
  /\ arrived < Len(DownData) /\ Spend("bytes")
  /\ arrived' = arrived + 1 /\ rx' = Append(rx, DownData[arrived'])
  /\ UNCHANGED <<net, client, main, alive, manager, reader, poller, settings, outLines, cts,
                 printed, overlapped>>
LineChanges ==
  /\ Spend("flips")
  /\ cts' = IF cts = "on" THEN "off" ELSE "on"
  /\ UNCHANGED <<net, client, server, arrived>>
Lose ==
  /\ Spend("cuts")
  /\ \E c \in Conns :
       /\ net[c].client
       /\ net' = [net EXCEPT ![c] =
                    [up |-> <<>>, down |-> <<>>, client |-> FALSE,
                     server |-> IF @.server = "new" THEN "new" ELSE "closed"]]
  /\ UNCHANGED <<client, server, device>>

Threads ==
  \/ (ClientThread \/ Reader) /\ UNCHANGED <<server, device>>
  \/ ServerStep
Next == ClientStep \/ ServerStep \/ DeviceSends \/ LineChanges \/ Lose
Spec == Init /\ [][Next]_vars

(* The threads of the client and of the server go on while they can.       *)
FairSpec == Spec /\ WF_vars(Threads)

-----------------------------------------------------------------------------
(* Properties.                                                             *)

(* The data among bytes that are still to be read.                         *)
Then(seen, b) ==
  LET d == Deframe(seen.frame, b)
  IN [frame |-> d.frame,
      data |-> IF d.event.kind = "data" THEN Append(seen.data, d.event.byte) ELSE seen.data]
Data(frame, bytes) ==
  LET Seen[i \in 0 .. Len(bytes)] ==
        IF i = 0 THEN [frame |-> frame, data |-> <<>>]
        ELSE CHOOSE s \in {Then(seen, bytes[i]) : seen \in {Seen[i - 1]}} : TRUE
  IN Seen[Len(bytes)].data

UpBytes == IF main.conn = 0 THEN <<>> ELSE main.block \o net[main.conn].up
DownBytes == IF sock = 0 THEN <<>> ELSE net[sock].down

(* All data on its way, and at its end, in the order it will be there.     *)
UpStream == printed \o main.got \o Data(manager.frame, UpBytes)
DownStream ==
  delivered \o buf
    \o (IF sock = 0 THEN <<>> ELSE Data(readers[Latest].frame, DownBytes))
    \o reader.data \o rx

streams == <<net, printed, main, buf, delivered, reader, rx, written, arrived, sock, thread>>
ConnectionEnds ==
  \/ sock' # sock \/ thread' # thread \/ main'.conn # main.conn
  \/ \E c \in Conns : net[c].client /\ ~net'[c].client
  \/ reader.runs /\ ~reader'.runs

(* Data is kept through every block, command, escape and thread: each step *)
(* leaves both streams as they are but for the byte just written or        *)
(* received.  Only a purge or the end of a connection may take some out.   *)
(* (Not claimed once an open has failed and left its reader behind.)       *)
StreamsIntact ==
  [][failed = 0 =>
       /\ \/ UpStream' = UpStream \o SubSeq(UpData, written + 1, written')
          \/ (ConnectionEnds \/ main'.pc = "stop") /\ IsPrefix(UpStream', UpStream)
       /\ \/ DownStream' = DownStream \o SubSeq(DownData, arrived + 1, arrived')
          \/ ConnectionEnds
          \/ main.pc = "filter" /\ rx' = <<>> /\ IsPrefix(DownStream', DownStream)
          \/ ~Idle /\ Task = "empty" /\ IsPrefix(delivered', DownStream')]_streams

Drained ==
  /\ Connected /\ main.conn = sock
  /\ main.pc = "recv" /\ net[sock].up = <<>> /\ net[sock].down = <<>>
  /\ readers[Latest].noting = <<>>

(* open or a setter has returned without an error, and all that was on its *)
(* way has arrived.                                                        *)
Accepted ==
  /\ answer.op \in {"open", "set"} /\ answer.ok /\ Idle /\ isOpen
  /\ failed = 0 /\ Drained
Confirmed ==
  /\ \A k \in Settings : items[k].state = "active" /\ settings[k] = stored[k]
  /\ stored.rtscts => settings.rtscts
  /\ stored.xonxoff => settings.xonxoff

(* When open or a setter returns, the server has or will have the settings *)
(* of the client in force and confirmed, however late the answers to older *)
(* requests came, and the flow control asked for is on.  (Not claimed for  *)
(* a value set while the reader had compared an answer with the value      *)
(* before it and not noted the verdict: that then counts for the new one.) *)
SettingsAgree ==
  Accepted /\ (\A i \in DOMAIN items : ~items[i].crossed) => Confirmed

(* Once the client knows RFC 2217, and nothing about it is under way, the  *)
(* client's cached modem state is the one the server remembers having      *)
(* told it, so the next change of the line will be seen as one.  (Not      *)
(* claimed when the poller and a forced check overlapped.)                 *)
ToldWhatIsSaved ==
  (/\ manager.clientOk /\ ~overlapped /\ failed = 0
   /\ poller.pc = "sleep" /\ main.pc \in {"recv", "filter"}
   /\ Connected /\ main.conn = sock /\ thread # 0
   /\ "modem" \notin ToSet(DownBytes))
    => modem = manager.last

(* A port that is closed has no reader, and no two run at a time, unless   *)
(* an open failed after it had started one.                                *)
ReadersAccounted ==
  LET running == {r \in Conns : readers[r].runs} IN
  /\ Cardinality(running) <= failed + 1
  /\ Idle /\ ~isOpen /\ failed = 0 => running = {}

(* One option in one direction, at both ends: the client's, and the same   *)
(* in the table of the server.                                             *)
Shared ==
  {o \in DOMAIN clientOptions :
     <<o[1], IF o[2] = "DO" THEN "WILL" ELSE "DO">> \in DOMAIN manager.options}
Theirs(o) == manager.options[<<o[1], IF o[2] = "DO" THEN "WILL" ELSE "DO">>]

BothKnow == \A o \in Shared : clientOptions[o] = "active" <=> Theirs(o) = "active"

(* The same, but for an option that both ends asked for at first: open     *)
(* does not ask for it any more once the server's own request has come.    *)
OptionsAgree ==
  \A o \in Shared :
    \/ clientOptions[o] = "active" <=> Theirs(o) = "active"
    \/ ClientTable[o] = "requested" /\ clientOptions[o] = "active" /\ Theirs(o) = "requested"
NoCommands == Commands \intersect (ToSet(UpBytes) \union ToSet(DownBytes)) = {}

(* Negotiation comes to an end instead of the two ends acknowledging each  *)
(* other for ever, and no option is in use at one end that the other       *)
(* refused or never heard of.                                              *)
NegotiationSettles ==
  (sock # 0 /\ main.conn = sock)
    ~> \/ sock = 0 \/ main.conn # sock \/ ~net[sock].client
       \/ OptionsAgree /\ NoCommands

(* "options initialized with REQUESTED are tried to be enabled on startup" *)
(* at both ends: when open has returned and nothing is on its way, they    *)
(* agree on what is enabled.  Violated: the reader runs before the         *)
(* requests go out, and what it made active is neither asked for nor       *)
(* acknowledged.                                                           *)
StartupAgrees ==
  (answer = [op |-> "open", ok |-> TRUE] /\ Idle /\ isOpen /\ failed = 0 /\ Drained)
    => BothKnow
=============================================================================
