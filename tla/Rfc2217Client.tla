--------------------------- MODULE Rfc2217Client ---------------------------
(***************************************************************************)
(* RFC2217Serial of serial/rfc2217.py: a port object whose device is at    *)
(* the other end of a TCP connection.  The program's thread runs open,     *)
(* the setters and the calls for data; a reader thread, started by open,   *)
(* takes the connection apart and answers negotiation.                     *)
(*                                                                         *)
(* A call is a list of tasks.  A task sends a request and then waits for   *)
(* the answer, which is for the reader thread to note: it comes, it is a   *)
(* refusal, or the network timeout passes first.                           *)
(***************************************************************************)
EXTENDS Telnet, FiniteSets

CONSTANTS
  UpData              (* The bytes the program writes, in this order.      *)

VARIABLES
  sock,               (* _socket: its connection, or 0.                    *)
  thread,             (* _thread: the reader of that number, or 0.         *)
  readers,            (* The reader threads started so far: whether each   *)
                      (* runs, its framing and what it is about to note of *)
                      (* an answer.                                        *)
  clientOptions,      (* _telnet_options.                                  *)
  items,              (* _rfc2217_options: value and state and, as a       *)
                      (* history, whether the value was set while a reader *)
                      (* had compared the one before.                      *)
  stored,             (* The settings of the port object.                  *)
  isOpen,
  modem,              (* _modemstate, and whether it is newer than the     *)
  fresh,              (* last poll.                                        *)
  buf,                (* _read_buffer.                                     *)
  call,               (* The call in progress, its tasks and, for open,    *)
                      (* the options it has yet to look at.                *)
  answer,             (* The last call, and whether it returned.           *)
  delivered,          (* History: the bytes given to the program,          *)
  written,            (* how many it has written,                          *)
  failed              (* and how many calls of open raised too late.       *)

client == <<sock, thread, readers, clientOptions, items, stored, isOpen,
            modem, fresh, buf, call, answer, delivered, written, failed>>

Settings == {"baudrate", "bytesize", "parity", "stopbits"}

(* "IAC" is a baud rate with a byte 255, "refused" one that the server     *)
(* cannot set and "illegal" one that the client does not send.             *)
Baudrates == {"std", "IAC", "refused", "illegal"}
StartSettings == [baudrate |-> "std", bytesize |-> "8", parity |-> "N", stopbits |-> "1"]

ClientOrder ==
  << <<"ECHO", "DO">>, <<"SGA", "WILL">>, <<"SGA", "DO">>, <<"BINARY", "DO">>,
     <<"COM", "DO">>, <<"BINARY", "WILL">>, <<"COM", "WILL">> >>
Mandatory == {<<"BINARY", "WILL">>, <<"COM", "WILL">>}
ClientTable == Table(ClientOrder, ToSet(ClientOrder) \ {<<"BINARY", "DO">>, <<"BINARY", "WILL">>})

NoItem == [value |-> "None", state |-> "inactive", crossed |-> FALSE]
StoppedReader == [runs |-> FALSE, frame |-> Framing, noting |-> <<>>]

ClientInit ==
  /\ sock = 0 /\ thread = 0
  /\ readers = [r \in Conns |-> StoppedReader]
  /\ clientOptions = ClientTable
  /\ items = [i \in Settings \union {"purge", "control"} |-> NoItem]
  /\ stored = StartSettings @@ [rtscts |-> FALSE, xonxoff |-> FALSE, writeTimeout |-> FALSE]
  /\ isOpen = FALSE
  /\ modem = "None" /\ fresh = FALSE /\ buf = <<>>
  /\ call = [op |-> "none", todo |-> <<>>, waits |-> FALSE, unasked |-> <<>>]
  /\ answer = [op |-> "none", ok |-> TRUE]
  /\ delivered = <<>> /\ written = 0 /\ failed = 0

Idle == call.todo = <<>>
Latest == Cardinality({c \in Conns : net[c] # NoConn})

(* sendall under the write lock.                                           *)
CanSend == sock # 0 /\ net[sock].client /\ net[sock].server # "closed"
SendUp(bytes) == net' = [net EXCEPT ![sock].up = @ \o bytes]

-----------------------------------------------------------------------------
(* Calls.                                                                  *)

Start(op, todo) == call' = [op |-> op, todo |-> todo, waits |-> FALSE, unasked |-> <<>>]
Proceed == call' = [call EXCEPT !.todo = Tail(@), !.waits = FALSE]
Returned ==
  IF Len(call.todo) = 1
  THEN Proceed /\ answer' = [op |-> call.op, ok |-> TRUE]
  ELSE Proceed /\ answer' = answer
Raise ==
  /\ call' = [call EXCEPT !.todo = <<>>, !.waits = FALSE, !.unasked = <<>>]
  /\ answer' = [op |-> call.op, ok |-> FALSE]
  /\ failed' = IF call.op = "open" /\ ~isOpen THEN failed + 1 ELSE failed

(* open: the connection and its reader thread; the requests follow.  A     *)
(* socket that an earlier open left behind is closed with its last         *)
(* reference, and what an earlier reader has yet to note is about options  *)
(* that are no longer in use.                                              *)
Open ==
  /\ Idle /\ ~isOpen /\ Spend("opens")
  /\ LET c == CHOOSE c \in Conns : net[c] = NoConn /\ \A d \in Conns : d < c => net[d] # NoConn
     IN /\ sock' = c /\ thread' = c
        /\ readers' = [r \in Conns |->
             IF r = c THEN [StoppedReader EXCEPT !.runs = TRUE]
             ELSE [readers[r] EXCEPT !.noting = <<>>]]
        /\ net' = [d \in Conns |->
             IF d = c THEN [up |-> <<>>, down |-> <<>>, client |-> TRUE, server |-> "new"]
             ELSE IF d = sock THEN [net[d] EXCEPT !.client = FALSE, !.down = <<>>] ELSE net[d]]
  /\ clientOptions' = ClientTable
  /\ items' = [i \in DOMAIN items |-> NoItem]
  /\ modem' = "None" /\ fresh' = FALSE /\ buf' = <<>>
  /\ call' = [op |-> "open", waits |-> FALSE, unasked |-> ClientOrder,
              todo |-> <<"options", "settings", "flow", "opened">>
                       \o (IF stored.rtscts THEN <<>> ELSE <<"rts on", "dtr on">>)
                       \o <<"purge in", "empty", "purge out">>]
  /\ UNCHANGED <<stored, isOpen, answer, delivered, written, failed>>

Reconfigure == <<"settings", "flow">>

(* The setters store first; _reconfigurePort follows if the port is open.  *)
Set ==
  /\ Idle /\ Spend("sets")
  /\ \E s \in {[stored EXCEPT !.baudrate = b] : b \in Baudrates}
              \union {[stored EXCEPT !.parity = p] : p \in {"N", "E"}}
              \union {[stored EXCEPT ![k] = v] : k \in {"rtscts", "xonxoff", "writeTimeout"},
                                                 v \in BOOLEAN} :
       s # stored /\ stored' = s
  /\ IF isOpen THEN Start("set", Reconfigure) /\ answer' = answer
     ELSE UNCHANGED call /\ answer' = [op |-> "set", ok |-> TRUE]
  /\ UNCHANGED <<sock, thread, readers, clientOptions, items, isOpen, modem, fresh, buf,
                 delivered, written, failed, net>>

(* flushInput, flushOutput, setRTS, setDTR, setBreak and, with poll_modem, *)
(* getCTS and its like.                                                    *)
Control ==
  /\ Idle /\ isOpen /\ Spend("calls")
  /\ \/ Start("flushInput", <<"purge in", "empty">>)
     \/ Start("flushOutput", <<"purge out">>)
     \/ Start("line", <<"rts off">>)
     \/ Start("line", <<"dtr off">>)
     \/ Start("sendBreak", <<"break on", "break off">>)
     \/ Start("getCTS", <<"poll">>)
  /\ UNCHANGED <<sock, thread, readers, clientOptions, items, stored, isOpen, modem, fresh,
                 buf, answer, delivered, written, failed, net>>

Write ==
  /\ Idle /\ isOpen /\ written < Len(UpData) /\ Spend("calls")
  /\ IF CanSend
     THEN /\ SendUp(Escape(<<UpData[written + 1]>>)) /\ written' = written + 1
          /\ answer' = [op |-> "write", ok |-> TRUE]
     ELSE answer' = [op |-> "write", ok |-> FALSE] /\ UNCHANGED <<net, written>>
  /\ UNCHANGED <<sock, thread, readers, clientOptions, items, stored, isOpen, modem, fresh,
                 buf, call, delivered, failed>>

(* read(1): what is in the buffer cannot be had once the reader has ended. *)
Read ==
  /\ Idle /\ isOpen /\ Spend("calls")
  /\ IF thread = 0
     THEN answer' = [op |-> "read", ok |-> FALSE] /\ UNCHANGED <<buf, delivered>>
     ELSE /\ buf # <<>>
          /\ buf' = Tail(buf) /\ delivered' = Append(delivered, Head(buf))
          /\ answer' = [op |-> "read", ok |-> TRUE]
  /\ UNCHANGED <<sock, thread, readers, clientOptions, items, stored, isOpen, modem, fresh,
                 call, written, failed, net>>

(* close: the socket goes first, so that the reader ends, and is joined.   *)
(* MUTANT: the reader is not waited for.                                   *)
CloseTasksNoJoin == <<"closed">>
CloseTasks == <<"check", "join", "closed">>
Close ==
  /\ Idle /\ isOpen /\ Spend("calls")
  /\ Start("close", CloseTasks)
  /\ sock' = 0
  /\ net' = IF sock = 0 THEN net
            ELSE [net EXCEPT ![sock].client = FALSE, ![sock].down = <<>>]
  /\ UNCHANGED <<thread, readers, clientOptions, items, stored, isOpen, modem, fresh, buf,
                 answer, delivered, written, failed>>

-----------------------------------------------------------------------------
(* Tasks.                                                                  *)

Task == Head(call.todo)

(* The requests a task makes: the item and the value it sets.              *)
Asks(task) ==
  CASE task = "settings"  -> [i \in Settings |-> stored[i]]
    [] task = "flow"      -> [control |-> IF stored.rtscts THEN "hw"
                                          ELSE IF stored.xonxoff THEN "sw" ELSE "none"]
    [] task = "purge in"  -> [purge |-> "in"]
    [] task = "purge out" -> [purge |-> "out"]
    [] OTHER              -> [control |-> task]

SettingsBytes(asks) ==
  FlattenSeq([i \in 1 .. 4 |->
    LET item == <<"baudrate", "bytesize", "parity", "stopbits">>[i]
    IN SubBytes(item, asks[item])])

Local == {"opened", "empty", "check", "join", "closed", "poll"}

(* The values that no request is made for.                                 *)
Unsupported(task) ==
  \/ task = "settings" /\ (stored.writeTimeout \/ stored.baudrate = "illegal")
  \/ task = "flow" /\ stored.rtscts /\ stored.xonxoff

(* open goes through the options while the reader runs already, and asks   *)
(* for those that are still requested when it comes to them.               *)
Unasked == SelectSeq(call.unasked, LAMBDA o : clientOptions[o] = "requested")
Negotiate ==
  /\ ~Idle /\ Task = "options" /\ ~call.waits
  /\ \/ /\ Unasked = <<>>
        /\ call' = [call EXCEPT !.unasked = <<>>, !.waits = TRUE]
        /\ UNCHANGED <<net, answer, failed>>
     \/ /\ Unasked # <<>> /\ CanSend
        /\ SendUp(OptionBytes(Head(Unasked)[2], Head(Unasked)[1]))
        /\ call' = [call EXCEPT !.unasked = Tail(Unasked), !.waits = Len(Unasked) = 1]
        /\ UNCHANGED <<answer, failed>>
     \/ Unasked # <<>> /\ ~CanSend /\ Raise /\ net' = net
  /\ UNCHANGED <<sock, thread, readers, clientOptions, items, stored, isOpen, modem, fresh,
                 buf, delivered, written, left>>

(* A reader is between comparing an answer for the item and noting it.     *)
Crossing(i) == \E r \in Conns : readers[r].noting # <<>> /\ readers[r].noting[1].item = i

BeginRequest ==
  /\ ~Idle /\ ~call.waits /\ Task \notin Local \union {"options"}
  /\ IF Unsupported(Task)
     THEN Raise /\ UNCHANGED <<items, net>>
     ELSE LET asks == Asks(Task) IN
          /\ items' = [i \in DOMAIN items |->
               IF i \in DOMAIN asks
               THEN [value |-> asks[i], state |-> "requested", crossed |-> Crossing(i)]
               ELSE items[i]]
          /\ IF CanSend
             THEN /\ SendUp(IF Task = "settings" THEN SettingsBytes(asks)
                            ELSE LET i == CHOOSE i \in DOMAIN asks : TRUE
                                 IN SubBytes(i, asks[i]))
                  /\ call' = [call EXCEPT !.waits = TRUE]
                  /\ UNCHANGED <<answer, failed>>
             ELSE Raise /\ UNCHANGED net
  /\ UNCHANGED <<sock, thread, readers, clientOptions, stored, isOpen, modem, fresh, buf,
                 delivered, written, left>>

(* MUTANT: one setting accepted is enough.                                 *)
ReadyOne(task) ==
  IF task = "options" THEN \A o \in Mandatory : clientOptions[o] = "active"
  ELSE \E i \in DOMAIN Asks(task) : items[i].state = "active"

Ready(task) ==
  IF task = "options" THEN \A o \in Mandatory : clientOptions[o] = "active"
  ELSE \A i \in DOMAIN Asks(task) : items[i].state = "active"
Refused(task) ==
  task # "options" /\ \E i \in DOMAIN Asks(task) : items[i].state = "refused"

Ignorable(task) == task # "options" /\ "control" \in DOMAIN Asks(task)

AwaitRequest ==
  /\ call.waits /\ Task # "poll" /\ Task # "join"
  /\ \/ /\ Ready(Task) \/ (left.ignore /\ Ignorable(Task))
        /\ Returned /\ UNCHANGED <<failed, left>>
     \/ Refused(Task) /\ ~(left.ignore /\ Ignorable(Task)) /\ Raise /\ UNCHANGED left
     \/ Spend("timeouts") /\ Raise
  /\ UNCHANGED <<sock, thread, readers, clientOptions, items, stored, isOpen, modem, fresh,
                 buf, delivered, written, net>>

Opened ==
  /\ ~Idle /\ Task = "opened"
  /\ isOpen' = TRUE /\ Returned
  /\ UNCHANGED <<sock, thread, readers, clientOptions, items, stored, modem, fresh, buf,
                 delivered, written, failed, left, net>>

EmptyBuffer ==
  /\ ~Idle /\ Task = "empty"
  /\ buf' = <<>> /\ Returned
  /\ UNCHANGED <<sock, thread, readers, clientOptions, items, stored, isOpen, modem, fresh,
                 delivered, written, failed, left, net>>

(* getModemState: a poll that times out is no error.                       *)
Poll ==
  /\ ~Idle /\ Task = "poll"
  /\ \/ /\ ~call.waits
        /\ IF CanSend
           THEN SendUp(SubBytes("poll", "any")) /\ fresh' = FALSE
                /\ call' = [call EXCEPT !.waits = TRUE] /\ UNCHANGED <<answer, failed>>
           ELSE Raise /\ UNCHANGED <<net, fresh>>
        /\ UNCHANGED left
     \/ /\ call.waits
        /\ (fresh /\ UNCHANGED left) \/ Spend("timeouts")
        /\ IF modem = "None" THEN Raise ELSE Returned /\ UNCHANGED failed
        /\ UNCHANGED <<net, fresh>>
  /\ UNCHANGED <<sock, thread, readers, clientOptions, items, stored, isOpen, modem, buf,
                 delivered, written>>

(* `if self._thread: self._thread.join()' looks at _thread twice, and the  *)
(* reader sets it to None as it ends.                                      *)
Join ==
  /\ ~Idle
  /\ \/ Task = "check" /\ thread # 0 /\ Returned /\ UNCHANGED <<failed, isOpen>>
     \/ Task = "check" /\ thread = 0 /\ failed' = failed /\ answer' = answer
        /\ call' = [call EXCEPT !.todo = <<"closed">>] /\ isOpen' = isOpen
     \/ /\ Task = "join" /\ ~call.waits
        /\ IF thread = 0 THEN Raise
           ELSE call' = [call EXCEPT !.waits = TRUE] /\ UNCHANGED <<answer, failed>>
        /\ isOpen' = isOpen
     \/ /\ Task = "join" /\ call.waits /\ ~readers[Latest].runs
        /\ Returned /\ UNCHANGED <<failed, isOpen>>
     \/ Task = "closed" /\ isOpen' = FALSE /\ Returned /\ UNCHANGED failed
  /\ UNCHANGED <<sock, thread, readers, clientOptions, items, stored, modem, fresh, buf,
                 delivered, written, left, net>>

-----------------------------------------------------------------------------
(* The reader thread.                                                      *)

(* The notifications, and checkAnswer as far as its comparison.            *)
ProcessSubnegotiation(r, sub) ==
  IF Len(sub) < 2 THEN readers' = [readers EXCEPT ![r].frame = Framing] /\ UNCHANGED <<modem, fresh>>
  ELSE IF sub[1] = "modem"
  THEN /\ readers' = [readers EXCEPT ![r].frame = Framing]
       /\ modem' = sub[2] /\ fresh' = TRUE
  ELSE /\ readers' = [readers EXCEPT ![r].frame = Framing, ![r].noting =
              <<[item |-> sub[1],
                 state |-> IF items[sub[1]].value = sub[2] THEN "active" ELSE "refused"]>>]
       /\ UNCHANGED <<modem, fresh>>

Ends(r) ==
  /\ readers' = [readers EXCEPT ![r] = StoppedReader] /\ thread' = 0

(* The bytes received, up to the next one that has an effect.              *)
ReaderTakes(r) ==
  /\ readers[r].runs /\ readers[r].noting = <<>> /\ sock # 0 /\ net[sock].down # <<>>
  /\ LET d == FirstEvent(readers[r].frame, net[sock].down)
         taken == [net EXCEPT ![sock].down = d.rest]
         event == d.event
         goesOn == readers' = [readers EXCEPT ![r].frame = d.frame] /\ thread' = thread
     IN \/ /\ event.kind = "none" /\ goesOn /\ net' = taken
           /\ UNCHANGED <<buf, modem, fresh, clientOptions, left>>
        \/ /\ event.kind = "data" /\ goesOn /\ net' = taken
           /\ buf' = Append(buf, event.byte)
           /\ UNCHANGED <<modem, fresh, clientOptions, left>>
        \/ /\ event.kind = "sub" /\ thread' = thread /\ net' = taken
           /\ ProcessSubnegotiation(r, event.sub)
           /\ UNCHANGED <<buf, clientOptions, left>>
        \/ /\ event.kind = "option"
           /\ IF call.unasked = <<>> THEN left' = left ELSE Spend("overtakes")
           /\ LET n == NegotiateOption(clientOptions, event.command, event.option)
              IN /\ clientOptions' = n.table
                 /\ IF n.bytes = <<>> \/ CanSend
                    THEN net' = [taken EXCEPT ![sock].up = @ \o n.bytes] /\ goesOn
                    ELSE net' = taken /\ Ends(r)
           /\ UNCHANGED <<buf, modem, fresh>>
  /\ UNCHANGED <<sock, items, stored, isOpen, call, answer, delivered, written, failed>>

(* The rest of checkAnswer: the state is written whatever became of the    *)
(* value in the meantime.                                                  *)
ReaderNotes(r) ==
  /\ readers[r].noting # <<>>
  /\ LET n == readers[r].noting[1] IN items' = [items EXCEPT ![n.item].state = n.state]
  /\ readers' = [readers EXCEPT ![r].noting = <<>>]
  /\ UNCHANGED <<net, sock, thread, clientOptions, stored, isOpen, modem, fresh, buf, call,
                 answer, delivered, written, failed, left>>

(* The socket is gone, or the connection has ended.                        *)
ReaderEnds(r) ==
  /\ readers[r].runs /\ readers[r].noting = <<>>
  /\ \/ sock = 0
     \/ sock # 0 /\ net[sock].down = <<>> /\ (~net[sock].client \/ net[sock].server = "closed")
  /\ Ends(r)
  /\ UNCHANGED <<net, sock, clientOptions, items, stored, isOpen, modem, fresh, buf, call,
                 answer, delivered, written, failed, left>>

ClientThread == Negotiate \/ BeginRequest \/ AwaitRequest \/ Opened \/ EmptyBuffer \/ Poll \/ Join
Reader == \E r \in Conns : ReaderTakes(r) \/ ReaderNotes(r) \/ ReaderEnds(r)
ClientCalls == Open \/ Set \/ Control \/ Write \/ Read \/ Close
=============================================================================
