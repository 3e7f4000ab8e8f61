----------------------------- MODULE Publisher -----------------------------
(***************************************************************************)
(* examples/port_publisher.py: one thread serves many serial ports.  Each  *)
(* device that is there gets a Forwarder, with a server socket for one     *)
(* client at a time and an announcement on the network.  The main loop     *)
(* looks for devices that came or went, asks select which files are ready, *)
(* and runs their callbacks one after the other.  An exception that no     *)
(* callback caught ends the round it was raised in.                        *)
(*                                                                         *)
(* External: the devices, the clients and the announcing service.  Data is *)
(* counted; what is kept for a client is tagged with the client.           *)
(***************************************************************************)
EXTENDS Naturals, Sequences, SequencesExt, FiniteSets

CONSTANTS
  DeviceList,         (* device_list: the names looked at, in order.       *)
  Clients,            (* Those that connect, once each.                    *)
  Limit,              (* The 2048 bytes above which the network waits.     *)
  Scenarios           (* The devices present at first, and the budget:     *)
                      (* which devices are taken away or put back, how     *)
                      (* often, and what they send; how often a port does  *)
                      (* not open, a server socket is not had and the      *)
                      (* service fails; how often clients connect and send.*)

ASSUME PublisherAssumption == "none" \notin Clients

VARIABLES
  fw,                 (* The forwarder of each device.                     *)
  loop,               (* The main loop: where it is, the devices left to   *)
                      (* check, and the callbacks left to run.             *)
  due,                (* next_check has passed.                            *)
  present,            (* The devices whose path exists.                    *)
  rx,                 (* The bytes each port has received.                 *)
  clients,            (* Of each client: its device, where its connection  *)
                      (* is, whether its end is open, what it sent and     *)
                      (* whose data it got.                                *)
  budget

publisher == <<fw, loop, due, present, rx, clients, budget>>

Devices == ToSet(DeviceList)
Pay(what) == budget[what] > 0 /\ budget' = [budget EXCEPT ![what] = @ - 1]
MayFail(what) == IF budget[what] > 0 THEN BOOLEAN ELSE {FALSE}
Charge(failures) ==
  budget' = [b \in DOMAIN budget |-> IF b \in failures THEN budget[b] - 1 ELSE budget[b]]

NoForwarder ==
  [registered |-> FALSE, alive |-> FALSE, onClose |-> FALSE, handle |-> "none",
   server |-> "none", service |-> FALSE, socket |-> "none", rfc2217 |-> FALSE,
   changed |-> FALSE, net2ser |-> 0, ser2net |-> <<>>]
NoClient == [at |-> "none", st |-> "idle", here |-> FALSE, up |-> <<>>, got |-> {}]
Top == [pc |-> "top", todo |-> <<>>, readers |-> {}, writers |-> {}]

PublisherInit ==
  /\ fw = [d \in Devices |-> NoForwarder]
  /\ loop = Top /\ due = TRUE
  /\ \E s \in Scenarios : present = s.present /\ budget = s.budget
  /\ rx = [d \in Devices |-> 0]
  /\ clients = [c \in Clients |-> NoClient]

-----------------------------------------------------------------------------
(* Forwarder.  A method maps the forwarder to what it becomes, and to      *)
(* whether it raised.                                                      *)

Done(f) == [f |-> f, raised |-> FALSE]
Raised(f) == [f |-> f, raised |-> TRUE]

(* MUTANT: the client is kept when the control lines cannot be set.        *)
HandleDisconnectGivesUp(f) ==
  IF f.handle # "ok" THEN Raised(f)
  ELSE Done([f EXCEPT !.changed = FALSE, !.rfc2217 = FALSE, !.ser2net = <<>>, !.socket = "none"])
(* MUTANT: what is to be sent is kept.                                     *)
HandleDisconnectKeeps(f) ==
  IF f.handle = "gone" /\ f.changed THEN Raised([f EXCEPT !.changed = FALSE])
  ELSE [f |-> [f EXCEPT !.changed = FALSE, !.rfc2217 = FALSE, !.socket = "none"],
        raised |-> f.handle # "ok"]

(* The control lines of a device that has gone cannot be set, and neither  *)
(* can a setting that is to be restored: then the rest is not reached, but *)
(* the setting is stored and equal the next time.                          *)
HandleDisconnect(f) ==
  IF f.handle = "gone" /\ f.changed THEN Raised([f EXCEPT !.changed = FALSE])
  ELSE [f |-> [f EXCEPT !.changed = FALSE, !.rfc2217 = FALSE, !.ser2net = <<>>,
                        !.socket = "none"],
        raised |-> f.handle # "ok"]

(* The service: AddService and Commit, and Reset.                          *)
Publish(f, serviceFails) ==
  IF serviceFails THEN Raised(f) ELSE Done([f EXCEPT !.service = TRUE])
Unpublish(f, serviceFails) ==
  IF f.service /\ serviceFails THEN Raised(f) ELSE Done([f EXCEPT !.service = FALSE])

(* on_close, which is called only once, forgets the forwarder.             *)
Unregister(f) == [f EXCEPT !.registered = @ /\ ~f.onClose, !.onClose = FALSE]

ShutServer(f) == [f EXCEPT !.server = IF @ = "none" THEN "none" ELSE "closed"]
DropClient(f) == IF f.socket = "none" THEN Done(f) ELSE HandleDisconnect(f)

(* MUTANT: a forwarder that could not be closed goes on.                   *)
CloseStaysAlive(f, serviceFails) ==
  LET hidden == Unpublish(f, serviceFails)
      dropped == DropClient(ShutServer(hidden.f))
  IN IF hidden.raised THEN hidden
     ELSE IF dropped.raised THEN dropped
     ELSE Done(Unregister([dropped.f EXCEPT !.alive = FALSE, !.handle = "none"]))

(* Everything is released, and on_close unregisters: if nothing raises.    *)
Close(f, serviceFails) ==
  LET hidden == Unpublish([f EXCEPT !.alive = FALSE], serviceFails)
      dropped == DropClient(ShutServer(hidden.f))
  IN IF hidden.raised THEN hidden
     ELSE IF dropped.raised THEN dropped
     ELSE Done(Unregister([dropped.f EXCEPT !.handle = "none"]))

(* open goes on after an error that closed the forwarder.  One that is not *)
(* registered then has no reference left: __del__ closes it.               *)
Open(portFails, bindFails, serviceFails) ==
  LET new == [NoForwarder EXCEPT !.registered = TRUE, !.onClose = TRUE]
      port == IF portFails THEN Close(new, FALSE).f ELSE [new EXCEPT !.handle = "ok"]
      bound == IF bindFails THEN Close(port, FALSE).f ELSE [port EXCEPT !.server = "listening"]
      announced == Publish(bound, serviceFails)
  IN IF ~bound.registered THEN [f |-> NoForwarder, raised |-> serviceFails]
     ELSE IF announced.raised THEN announced
     ELSE Done([announced.f EXCEPT !.alive = TRUE])

-----------------------------------------------------------------------------
(* What a step of the loop leaves behind: a socket that the forwarder has  *)
(* let go of is closed, and so is a server socket with who waits there.    *)

ClosedBy(d, f, c) ==
  \/ fw[d].socket = c /\ f.socket # c
  \/ clients[c].st = "queued" /\ clients[c].at = d /\ f.server = "closed"
LetGo(d, f, cs) ==
  [c \in Clients |-> IF ClosedBy(d, f, c) THEN [cs[c] EXCEPT !.st = "closed", !.up = <<>>]
                     ELSE cs[c]]
Finish(d, result, cs, next) ==
  /\ fw' = [fw EXCEPT ![d] = result.f]
  /\ clients' = LetGo(d, result.f, cs)
  /\ loop' = IF result.raised THEN Top ELSE next

(* The check, due every five seconds, of each device.                      *)
Begin ==
  /\ loop.pc = "top"
  /\ loop' = IF due THEN [Top EXCEPT !.pc = "check", !.todo = DeviceList]
             ELSE [Top EXCEPT !.pc = "select"]
  /\ due' = FALSE
  /\ UNCHANGED <<fw, present, rx, clients, budget>>

NextDevice == [loop EXCEPT !.todo = Tail(@)]
Check ==
  /\ loop.pc = "check" /\ loop.todo # <<>>
  /\ LET d == Head(loop.todo) IN
     \/ /\ d \in present /\ ~fw[d].registered
        /\ \E port \in MayFail("port"), bind \in MayFail("bind"), service \in MayFail("service") :
             /\ Charge({w \in {"port"} : port} \union {w \in {"bind"} : bind}
                         \union {w \in {"service"} : service})
             /\ Finish(d, Open(port, bind, service), clients, NextDevice)
     \/ /\ d \notin present /\ fw[d].registered
        /\ \E service \in MayFail("service") :
             LET closed == Close(fw[d], service) IN
             /\ Charge({w \in {"service"} : service})
             /\ Finish(d, IF closed.raised THEN closed
                          ELSE Done([closed.f EXCEPT !.registered = FALSE]), clients, NextDevice)
     \/ /\ d \in present <=> fw[d].registered
        /\ loop' = NextDevice /\ UNCHANGED <<fw, clients, budget>>
  /\ UNCHANGED <<due, present, rx>>

Checked ==
  /\ loop.pc = "check" /\ loop.todo = <<>>
  /\ loop' = [Top EXCEPT !.pc = "select"]
  /\ UNCHANGED <<fw, due, present, rx, clients, budget>>

-----------------------------------------------------------------------------
(* update_select_maps, and select.                                         *)

Served == {d \in Devices : fw[d].registered /\ fw[d].alive}
Poisoned == \E d \in Served : fw[d].handle = "none" \/ fw[d].server # "listening"

Readable ==
  {<<d, "serial">> : d \in {d \in Served : rx[d] > 0 \/ fw[d].handle = "gone"}}
  \union {<<d, "socket">> : d \in {d \in Served :
            /\ fw[d].socket # "none" /\ fw[d].net2ser < Limit
            /\ clients[fw[d].socket].up # <<>> \/ ~clients[fw[d].socket].here}}
  \union {<<d, "server">> : d \in {d \in Served :
            \E c \in Clients : clients[c].st = "queued" /\ clients[c].at = d}}
Writable ==
  {<<d, "serial">> : d \in {d \in Served : fw[d].net2ser > 0}}
  \union {<<d, "socket">> : d \in {d \in Served : fw[d].socket # "none" /\ fw[d].ser2net # <<>>}}

Select ==
  /\ loop.pc = "select"
  /\ fw' = [d \in Devices |-> IF d \in Served /\ fw[d].socket = "none"
                              THEN [fw[d] EXCEPT !.ser2net = <<>>] ELSE fw[d]]
  /\ loop' = IF Poisoned THEN Top
             ELSE [Top EXCEPT !.pc = "run", !.readers = Readable, !.writers = Writable]
  /\ UNCHANGED <<due, present, rx, clients, budget>>

-----------------------------------------------------------------------------
(* The callbacks: all readers, then all writers.                           *)

Reading(d, file) == loop.pc = "run" /\ <<d, file>> \in loop.readers
AfterReading(d, file) == [loop EXCEPT !.readers = @ \ {<<d, file>>}]
Writing(d, file) == loop.pc = "run" /\ loop.readers = {} /\ <<d, file>> \in loop.writers
AfterWriting(d, file) == [loop EXCEPT !.writers = @ \ {<<d, file>>}]

(* An end of file closes the forwarder inside the try, and once more when  *)
(* that raised; an exception of os.read closes it once.                    *)
HandleSerialRead(d) ==
  /\ Reading(d, "serial")
  /\ IF fw[d].handle = "ok"
     THEN /\ rx' = [rx EXCEPT ![d] = 0]
          /\ Finish(d, Done(IF fw[d].socket = "none" THEN fw[d]
                            ELSE [fw[d] EXCEPT !.ser2net = Append(@, fw[d].socket)]),
                    clients, AfterReading(d, "serial"))
          /\ budget' = budget
     ELSE /\ \E service \in MayFail("service"), again \in BOOLEAN :
               LET once == Close(fw[d], service) IN
               /\ Charge({w \in {"service"} : service})
               /\ Finish(d, IF once.raised /\ again THEN Close(once.f, FALSE) ELSE once,
                         clients, AfterReading(d, "serial"))
          /\ rx' = rx
  /\ UNCHANGED <<due, present>>

HandleSerialWrite(d) ==
  /\ Writing(d, "serial")
  /\ \/ /\ fw[d].handle = "ok"
        /\ \E n \in 1 .. fw[d].net2ser :
             Finish(d, Done([fw[d] EXCEPT !.net2ser = @ - n]), clients, AfterWriting(d, "serial"))
        /\ budget' = budget
     \/ /\ fw[d].handle # "ok"
        /\ \E service \in MayFail("service") :
             /\ Charge({w \in {"service"} : service})
             /\ Finish(d, Close(fw[d], service), clients, AfterWriting(d, "serial"))
  /\ UNCHANGED <<due, present, rx>>

(* A chunk from the client.  With RFC 2217 a setting is made and answered; *)
(* on a device that has gone that raises, after the value is stored, and   *)
(* the chunk is lost.                                                      *)
Received(f, chunk) ==
  LET sets == Cardinality({i \in DOMAIN chunk : chunk[i] = "set"})
  IN IF ~f.rfc2217 THEN Done([f EXCEPT !.net2ser = @ + Len(chunk)])
     ELSE IF sets # 0 /\ f.handle = "gone" THEN Raised([f EXCEPT !.changed = TRUE])
     ELSE Done([f EXCEPT !.changed = @ \/ sets # 0,
                         !.net2ser = @ + Len(chunk) - sets,
                         !.ser2net = @ \o [i \in 1 .. sets |-> f.socket]])

HandleSocketRead(d) ==
  /\ Reading(d, "socket")
  /\ LET f == fw[d]
         c == f.socket
         next == AfterReading(d, "socket")
     IN \/ c = "none" /\ Finish(d, Raised(f), clients, next)
        \/ /\ c # "none" /\ clients[c].up # <<>>
           /\ \E n \in {1, Len(clients[c].up)} :
                Finish(d, Received(f, SubSeq(clients[c].up, 1, n)),
                       [clients EXCEPT ![c].up = SubSeq(@, n + 1, Len(@))], next)
        \/ /\ c # "none" /\ clients[c].up = <<>>
           /\ Finish(d, HandleDisconnect(f), clients, next)
  /\ UNCHANGED <<due, present, rx, budget>>

HandleSocketWrite(d) ==
  /\ Writing(d, "socket")
  /\ LET f == fw[d]
         c == f.socket
         next == AfterWriting(d, "socket")
     IN \/ c = "none" /\ Finish(d, Raised(f), clients, next)
        \/ /\ c # "none" /\ clients[c].here
           /\ \E n \in {m \in {1, Len(f.ser2net)} : m <= Len(f.ser2net)} :
                Finish(d, Done([f EXCEPT !.ser2net = SubSeq(@, n + 1, Len(@))]),
                       [clients EXCEPT ![c].got = @ \union ToSet(SubSeq(f.ser2net, 1, n))], next)
        \/ c # "none" /\ ~clients[c].here /\ Finish(d, HandleDisconnect(f), clients, next)
  /\ UNCHANGED <<due, present, rx, budget>>

(* A client is accepted in any case; one too many is closed.  On a device  *)
(* that has gone the new client is kept, but without RFC 2217.             *)
HandleConnect(d) ==
  /\ Reading(d, "server")
  /\ LET f == fw[d]
         next == AfterReading(d, "server")
     IN \/ f.server # "listening" /\ Finish(d, Raised(f), clients, next)
        \/ /\ f.server = "listening"
           /\ \E c \in Clients :
                /\ clients[c].st = "queued" /\ clients[c].at = d
                /\ IF f.socket # "none"
                   THEN Finish(d, Done(f), [clients EXCEPT ![c].st = "closed", ![c].up = <<>>], next)
                   ELSE Finish(d, IF f.handle = "ok"
                                  THEN Done([f EXCEPT !.socket = c, !.rfc2217 = TRUE,
                                                      !.ser2net = Append(@, c)])
                                  ELSE Raised([f EXCEPT !.socket = c]),
                               [clients EXCEPT ![c].st = "open"], next)
  /\ UNCHANGED <<due, present, rx, budget>>

RoundEnds ==
  /\ loop.pc = "run" /\ loop.readers = {} /\ loop.writers = {}
  /\ loop' = Top
  /\ UNCHANGED <<fw, due, present, rx, clients, budget>>

Loop ==
  \/ Begin \/ Check \/ Checked \/ Select \/ RoundEnds
  \/ \E d \in Devices :
       \/ HandleSerialRead(d) \/ HandleSerialWrite(d)
       \/ HandleSocketRead(d) \/ HandleSocketWrite(d) \/ HandleConnect(d)

-----------------------------------------------------------------------------
(* The surroundings.                                                       *)

TimePasses ==
  ~due /\ due' = TRUE /\ UNCHANGED <<fw, loop, present, rx, clients, budget>>

Plug(d) ==
  /\ d \in budget.moving /\ Pay("plugs")
  /\ present' = IF d \in present THEN present \ {d} ELSE present \union {d}
  /\ IF d \in present
     THEN /\ fw' = [fw EXCEPT ![d].handle = IF @ = "ok" THEN "gone" ELSE @]
          /\ rx' = [rx EXCEPT ![d] = 0]
     ELSE UNCHANGED <<fw, rx>>
  /\ UNCHANGED <<loop, due, clients>>
PortReceives(d) ==
  /\ fw[d].handle = "ok" /\ Pay("bytes")
  /\ rx' = [rx EXCEPT ![d] = @ + 1]
  /\ UNCHANGED <<fw, loop, due, present, clients>>

ClientConnects(c) ==
  /\ clients[c].st = "idle" /\ Pay("connects")
  /\ \E d \in Devices :
       /\ fw[d].server = "listening"
       /\ clients' = [clients EXCEPT ![c].st = "queued", ![c].at = d, ![c].here = TRUE]
  /\ UNCHANGED <<fw, loop, due, present, rx>>
ClientSends(c) ==
  /\ clients[c].st \in {"queued", "open"} /\ clients[c].here /\ Pay("sends")
  /\ \E what \in {"data", "set"} : clients' = [clients EXCEPT ![c].up = Append(@, what)]
  /\ UNCHANGED <<fw, loop, due, present, rx>>
ClientLeaves(c) ==
  /\ clients[c].here
  /\ clients' = [clients EXCEPT ![c].here = FALSE]
  /\ UNCHANGED <<fw, loop, due, present, rx, budget>>

PublisherNext ==
  \/ Loop \/ TimePasses
  \/ \E d \in Devices : Plug(d) \/ PortReceives(d)
  \/ \E c \in Clients : ClientConnects(c) \/ ClientSends(c) \/ ClientLeaves(c)

-----------------------------------------------------------------------------
(* Properties.                                                             *)

(* A client finds nothing of the one before it: it gets, and is kept, only *)
(* data that came while it was connected, and the settings of a port that  *)
(* nobody uses are the original ones.                                      *)
ClientsApart ==
  /\ \A c \in Clients : clients[c].got \subseteq {c}
  /\ \A d \in Served :
       IF fw[d].socket = "none" THEN fw[d].handle = "ok" => ~fw[d].changed
       ELSE ToSet(fw[d].ser2net) \subseteq {fw[d].socket}

(* select is never asked about a file that is closed, which would raise in *)
(* every round and end the service of every port, for as long as the       *)
(* forwarder is registered: however often and wherever closing one failed. *)
SelectNeverPoisoned == ~Poisoned

(* A forwarder that died but could not be closed at once is unregistered   *)
(* at last, if its device does not come back before that.                  *)
DeadAreUnregistered ==
  \A d \in Devices :
    (fw[d].registered /\ ~fw[d].alive /\ d \notin present)
      ~> (~fw[d].registered \/ d \in present)
=============================================================================
