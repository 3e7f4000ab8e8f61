-------------------------- MODULE ProgramsProofs --------------------------
(***************************************************************************)
(* Proofs about the programs that come with pySerial.                      *)
(*                                                                         *)
(* The port publisher, for any devices, any clients and any budget of      *)
(* failures: no closed file is ever given to select, and no client gets    *)
(* what is another's.                                                      *)
(*                                                                         *)
(* The terminal programs, for any number of acts of the user, the clients  *)
(* and the device: one reader at a time, on an open port, and nothing of   *)
(* what the user chose is lost when the port is changed.                   *)
(***************************************************************************)
EXTENDS Programs, FiniteSetTheorems, SequenceTheorems, TLAPS

-----------------------------------------------------------------------------
(* The port publisher.                                                     *)

(* What a forwarder keeps for its client c, or for none.                   *)
ForwarderOf(c) ==
  [registered : BOOLEAN, alive : BOOLEAN, onClose : BOOLEAN, handle : {"none", "ok", "gone"},
   server : {"none", "listening", "closed"}, service : BOOLEAN, socket : {c},
   rfc2217 : BOOLEAN, changed : BOOLEAN, net2ser : Int, ser2net : Seq({c} \ {"none"})]

(* One that is alive has both its files; one without a client has nothing  *)
(* to send and no setting to restore.                                      *)
Sound(f) ==
  /\ f.socket \in Clients \union {"none"} /\ f \in ForwarderOf(f.socket)
  /\ f.alive => f.handle # "none" /\ f.server = "listening"
  /\ f.changed => f.socket # "none"

ClientType ==
  [at : Devices \union {"none"}, st : {"idle", "queued", "open", "closed"}, here : BOOLEAN,
   up : Seq({"data", "set"}), got : SUBSET Clients]
Own(cs) == cs \in [Clients -> ClientType] /\ \A c \in Clients : cs[c].got \subseteq {c}

PublisherInv ==
  /\ fw = [d \in Devices |-> fw[d]] /\ \A d \in Devices : Sound(fw[d])
  /\ Own(clients)

-----------------------------------------------------------------------------
(* The methods of a forwarder.                                             *)

Dead(f) == Sound(f) /\ ~f.alive

LEMMA NothingFromNobody == ASSUME NEW s \in Seq({}) PROVE s = <<>>
  OBVIOUS

LEMMA NoForwarderDead == Dead(NoForwarder)
  BY DEF Dead, Sound, ForwarderOf, NoForwarder

LEMMA HandleDisconnectSound ==
  ASSUME NEW f, Sound(f)
  PROVE  LET h == HandleDisconnect(f).f
         IN /\ Sound(h)
            /\ h.alive = f.alive /\ h.registered = f.registered /\ h.onClose = f.onClose
<1> USE DEF Sound, ForwarderOf
<1>1. CASE f.handle = "gone" /\ f.changed
  <2>1. HandleDisconnect(f).f = [f EXCEPT !.changed = FALSE]
    BY <1>1 DEF HandleDisconnect, Raised
  <2> QED  BY <2>1
<1>2. CASE ~(f.handle = "gone" /\ f.changed)
  <2>1. HandleDisconnect(f).f = [f EXCEPT !.changed = FALSE, !.rfc2217 = FALSE,
                                          !.ser2net = <<>>, !.socket = "none"]
    BY <1>2 DEF HandleDisconnect
  <2> DEFINE h == HandleDisconnect(f).f
  <2>2. /\ h.socket = "none" /\ ~h.changed
        /\ h.alive = f.alive /\ h.handle = f.handle /\ h.server = f.server
        /\ h.registered = f.registered /\ h.onClose = f.onClose
    BY <2>1
  <2>3. h \in ForwarderOf("none")
    <3>1. h = [registered |-> f.registered, alive |-> f.alive, onClose |-> f.onClose,
               handle |-> f.handle, server |-> f.server, service |-> f.service,
               socket |-> "none", rfc2217 |-> FALSE, changed |-> FALSE,
               net2ser |-> f.net2ser, ser2net |-> <<>>]
      BY <2>1
    <3>2. <<>> \in Seq({"none"} \ {"none"})  OBVIOUS
    <3> HIDE DEF h
    <3> QED  BY <3>1, <3>2
  <2> HIDE DEF h
  <2>4. Sound(h)  BY <2>2, <2>3
  <2> QED  BY <2>2, <2>4 DEF h
<1> QED  BY <1>1, <1>2

LEMMA CloseDead ==
  ASSUME NEW f, Sound(f), NEW s \in BOOLEAN
  PROVE  Dead(Close(f, s).f)
<1> DEFINE g == [f EXCEPT !.alive = FALSE]
           hidden == Unpublish(g, s)
           shut == ShutServer(hidden.f)
           dropped == DropClient(shut)
<1>1. Dead(g)  BY DEF Dead, Sound, ForwarderOf
<1> HIDE DEF g
<1>2. Dead(hidden.f)  BY <1>1 DEF Unpublish, Raised, Done, Dead, Sound, ForwarderOf
<1> HIDE DEF hidden
<1>3. Dead(shut)  BY <1>2 DEF ShutServer, Dead, Sound, ForwarderOf
<1> HIDE DEF shut
<1>4. Dead(dropped.f)  BY <1>3, HandleDisconnectSound DEF DropClient, Done, Dead
<1> HIDE DEF dropped
<1>5. Dead(Unregister([dropped.f EXCEPT !.handle = "none"]))
  BY <1>4 DEF Unregister, Dead, Sound, ForwarderOf
<1>6. Close(f, s) \in {hidden, dropped, Done(Unregister([dropped.f EXCEPT !.handle = "none"]))}
  BY DEF Close, hidden, dropped, g, shut
<1> QED  BY <1>2, <1>4, <1>5, <1>6 DEF Done

(* One that has no client and is closed while the service answers is no    *)
(* longer registered, and closing registers nothing.                       *)
LEMMA CloseUnregisters ==
  ASSUME NEW f, Sound(f), NEW s \in BOOLEAN
  PROVE  /\ f.socket = "none" /\ f.onClose /\ ~s => ~Close(f, s).f.registered
         /\ ~f.registered => ~Close(f, s).f.registered
<1> DEFINE g == [f EXCEPT !.alive = FALSE]
           hidden == Unpublish(g, s)
           shut == ShutServer(hidden.f)
           dropped == DropClient(shut)
           gone == Unregister([dropped.f EXCEPT !.handle = "none"])
           Same(h) == h.registered = f.registered /\ h.onClose = f.onClose
<1>1. Dead(g) /\ Same(g) /\ g.socket = f.socket  BY DEF Dead, Sound, ForwarderOf
<1> HIDE DEF g
<1>2. /\ Dead(hidden.f) /\ Same(hidden.f) /\ hidden.f.socket = f.socket
      /\ ~s => ~hidden.raised
  BY <1>1 DEF Unpublish, Raised, Done, Dead, Sound, ForwarderOf
<1> HIDE DEF hidden
<1>3. Dead(shut) /\ Same(shut) /\ shut.socket = f.socket
  BY <1>2 DEF ShutServer, Dead, Sound, ForwarderOf
<1> HIDE DEF shut
<1>4. Dead(dropped.f) /\ Same(dropped.f) /\ (f.socket = "none" => ~dropped.raised)
  <2>1. CASE shut.socket = "none"  BY <1>3, <2>1 DEF DropClient, Done
  <2>2. CASE shut.socket # "none"
    <3>1. dropped.f = HandleDisconnect(shut).f  BY <2>2 DEF DropClient
    <3>2. Sound(shut) /\ ~shut.alive  BY <1>3 DEF Dead
    <3> QED  BY <1>3, <2>2, <3>1, <3>2, HandleDisconnectSound DEF Dead
  <2> QED  BY <2>1, <2>2
<1> HIDE DEF dropped
<1>5. (~f.registered => ~gone.registered) /\ (f.onClose => ~gone.registered)
  BY <1>4 DEF Unregister, Dead, Sound, ForwarderOf
<1>6. Close(f, s) = IF hidden.raised THEN hidden ELSE IF dropped.raised THEN dropped
                    ELSE Done(gone)
  BY DEF Close, hidden, dropped, g, shut
<1> QED  BY <1>2, <1>4, <1>5, <1>6 DEF Done

LEMMA OpenSound ==
  ASSUME NEW noPort \in BOOLEAN, NEW bind \in BOOLEAN, NEW service \in BOOLEAN
  PROVE  Sound(Open(noPort, bind, service).f)
<1> DEFINE new == [NoForwarder EXCEPT !.registered = TRUE, !.onClose = TRUE]
           opened == IF noPort THEN Close(new, FALSE).f ELSE [new EXCEPT !.handle = "ok"]
           bound == IF bind THEN Close(opened, FALSE).f ELSE [opened EXCEPT !.server = "listening"]
           announced == Publish(bound, service)
<1>1. Dead(new) /\ new.onClose /\ new.socket = "none"
  <2>1. Dead(new)  BY NoForwarderDead DEF Dead, Sound, ForwarderOf
  <2> QED  BY <2>1 DEF NoForwarder
<1> HIDE DEF new
<1>2. /\ Dead(opened)
      /\ opened.registered => opened.handle = "ok" /\ opened.onClose /\ opened.socket = "none"
  <2>1. CASE noPort  BY <2>1, <1>1, CloseDead, CloseUnregisters DEF Dead
  <2>2. CASE ~noPort  BY <2>2, <1>1 DEF Dead, Sound, ForwarderOf
  <2> QED  BY <2>1, <2>2
<1> HIDE DEF opened
<1>3. /\ Dead(bound)
      /\ bound.registered => bound.handle = "ok" /\ bound.server = "listening"
  <2>1. CASE bind  BY <2>1, <1>2, CloseDead, CloseUnregisters DEF Dead
  <2>2. CASE ~bind  BY <2>2, <1>2 DEF Dead, Sound, ForwarderOf
  <2> QED  BY <2>1, <2>2
<1> HIDE DEF bound
<1>4. CASE ~bound.registered
  BY <1>4, NoForwarderDead DEF Open, new, opened, bound, Dead
<1>5. CASE bound.registered
  <2>1. Open(noPort, bind, service).f \in {announced.f, [announced.f EXCEPT !.alive = TRUE]}
    BY <1>5 DEF Open, new, opened, bound, Done
  <2>2. /\ Dead(announced.f)
        /\ announced.f.handle = "ok" /\ announced.f.server = "listening"
    BY <1>3, <1>5 DEF Publish, Raised, Done, Dead, Sound, ForwarderOf
  <2> HIDE DEF announced
  <2>3. Sound([announced.f EXCEPT !.alive = TRUE])  BY <2>2 DEF Dead, Sound, ForwarderOf
  <2> QED  BY <2>1, <2>2, <2>3 DEF Dead
<1> QED  BY <1>4, <1>5

LEMMA ReceivedSound ==
  ASSUME NEW f, Sound(f), f.socket # "none", NEW chunk \in Seq({"data", "set"})
  PROVE  Sound(Received(f, chunk).f)
<1> DEFINE places == {i \in DOMAIN chunk : chunk[i] = "set"}
           sets == Cardinality(places)
           replies == [i \in 1 .. sets |-> f.socket]
<1>1. sets \in Nat
  <2>1. IsFiniteSet(1 .. Len(chunk))  BY FS_Interval
  <2>2. places \subseteq 1 .. Len(chunk)  OBVIOUS
  <2> QED  BY <2>1, <2>2, FS_Subset, FS_CardinalityType
<1>2. Len(chunk) \in Nat  OBVIOUS
<1> HIDE DEF sets
<1>3. replies \in Seq({f.socket} \ {"none"})  BY <1>1
<1>4. f.ser2net \o replies \in Seq({f.socket} \ {"none"})
  BY <1>3, ConcatProperties DEF Sound, ForwarderOf
<1> DEFINE plain == [f EXCEPT !.net2ser = @ + Len(chunk)]
           refused == [f EXCEPT !.changed = TRUE]
           changed == f.changed \/ sets # 0
           counted == f.net2ser + Len(chunk) - sets
           queue == f.ser2net \o replies
           answered == [f EXCEPT !.changed = changed, !.net2ser = counted, !.ser2net = queue]
<1>5. Sound(plain)
  <2> DEFINE more == f.net2ser + Len(chunk)
  <2>1. f.net2ser \in Int  BY DEF Sound, ForwarderOf
  <2>2. more \in Int  BY <1>2, <2>1
  <2>3. plain = [f EXCEPT !.net2ser = more]  OBVIOUS
  <2> HIDE DEF more, plain
  <2> QED  BY <2>2, <2>3 DEF Sound, ForwarderOf
<1>6. Sound(refused)  BY DEF Sound, ForwarderOf
<1>7. Sound(answered)
  <2>1. counted \in Int  BY <1>1, <1>2 DEF Sound, ForwarderOf
  <2>2. changed \in BOOLEAN  BY <1>1 DEF Sound, ForwarderOf
  <2>3. queue \in Seq({f.socket} \ {"none"})  BY <1>4
  <2> HIDE DEF changed, counted, queue
  <2> QED  BY <2>1, <2>2, <2>3 DEF Sound, ForwarderOf
<1>8. Received(f, chunk).f \in {plain, refused, answered}
  BY DEF Received, Done, Raised, sets
<1> QED  BY <1>5, <1>6, <1>7, <1>8, Zenon

-----------------------------------------------------------------------------
(* The steps of the loop.                                                  *)

LEMMA FinishKeeps ==
  ASSUME PublisherInv, NEW d, NEW result, d \in Devices => Sound(result.f), NEW cs, Own(cs), NEW next,
         Finish(d, result, cs, next)
  PROVE  PublisherInv'
<1>1. fw' = [fw EXCEPT ![d] = result.f]  BY DEF Finish
<1>2. fw' = [e \in Devices |-> fw'[e]] /\ \A e \in Devices : Sound(fw'[e])
  BY <1>1 DEF PublisherInv
<1>3. Own(clients')
  <2>1. clients' = LetGo(d, result.f, cs)  BY DEF Finish
  <2>2. ASSUME NEW c \in Clients
        PROVE  clients'[c] \in ClientType /\ clients'[c].got \subseteq {c}
    <3>1. cs[c] \in ClientType /\ cs[c].got \subseteq {c}  BY DEF Own
    <3>2. clients'[c] \in {cs[c], [cs[c] EXCEPT !.st = "closed", !.up = <<>>]}
      BY <2>1 DEF LetGo
    <3>3. [cs[c] EXCEPT !.st = "closed", !.up = <<>>] \in ClientType
      <4>1. <<>> \in Seq({"data", "set"})  OBVIOUS
      <4> QED  BY <3>1, <4>1 DEF ClientType
    <3>4. [cs[c] EXCEPT !.st = "closed", !.up = <<>>].got = cs[c].got  BY <3>1 DEF ClientType
    <3> QED  BY <3>1, <3>2, <3>3, <3>4
  <2>3. clients' = [c \in Clients |-> clients'[c]]  BY <2>1 DEF LetGo
  <2> QED  BY <2>2, <2>3 DEF Own
<1> QED  BY <1>2, <1>3 DEF PublisherInv, Sound, Own

LEMMA CheckKeeps == ASSUME PublisherInv, Check PROVE PublisherInv'
<1> DEFINE d == Head(loop.todo)
<1>0. Own(clients) /\ (d \in Devices => Sound(fw[d]))  BY DEF PublisherInv
<1>1. CASE \E noPort \in MayFail("port"), bind \in MayFail("bind"), service \in MayFail("service") :
             Finish(d, Open(noPort, bind, service), clients, NextDevice)
  <2>1. PICK noPort \in BOOLEAN, bind \in BOOLEAN, service \in BOOLEAN :
          Finish(d, Open(noPort, bind, service), clients, NextDevice)
    BY <1>1 DEF MayFail
  <2> QED  BY <1>0, <2>1, OpenSound, FinishKeeps
<1>2. CASE \E service \in MayFail("service") :
             LET closed == Close(fw[d], service)
             IN Finish(d, IF closed.raised THEN closed
                          ELSE Done([closed.f EXCEPT !.registered = FALSE]), clients, NextDevice)
  <2>1. PICK service \in BOOLEAN :
          LET closed == Close(fw[d], service)
          IN Finish(d, IF closed.raised THEN closed
                       ELSE Done([closed.f EXCEPT !.registered = FALSE]), clients, NextDevice)
    BY <1>2 DEF MayFail
  <2> DEFINE closed == Close(fw[d], service)
             result == IF closed.raised THEN closed
                       ELSE Done([closed.f EXCEPT !.registered = FALSE])
  <2>2. d \in Devices => Dead(closed.f)  BY <1>0, CloseDead
  <2> HIDE DEF closed
  <2>3. d \in Devices => Sound([closed.f EXCEPT !.registered = FALSE])
    BY <2>2 DEF Dead, Sound, ForwarderOf
  <2>4. d \in Devices => Sound(result.f)  BY <2>2, <2>3 DEF Done, Dead
  <2>5. Finish(d, result, clients, NextDevice)  BY <2>1 DEF closed
  <2> HIDE DEF result
  <2> QED  BY <1>0, <2>4, <2>5, FinishKeeps
<1>3. CASE UNCHANGED <<fw, clients>>  BY <1>3 DEF PublisherInv, Own
<1> QED  BY <1>1, <1>2, <1>3 DEF Check

LEMMA SelectKeeps == ASSUME PublisherInv, Select PROVE PublisherInv'
<1>1. \A d \in Devices : Sound([fw[d] EXCEPT !.ser2net = <<>>])
  <2> TAKE d \in Devices
  <2>1. Sound(fw[d])  BY DEF PublisherInv
  <2>2. <<>> \in Seq({fw[d].socket} \ {"none"})  OBVIOUS
  <2> QED  BY <2>1, <2>2 DEF Sound, ForwarderOf
<1>2. \A d \in Devices : fw'[d] \in {fw[d], [fw[d] EXCEPT !.ser2net = <<>>]}
  BY DEF Select
<1>3. \A d \in Devices : Sound(fw'[d])  BY <1>1, <1>2 DEF PublisherInv
<1>4. fw' = [d \in Devices |-> fw'[d]] /\ clients' = clients  BY DEF Select
<1> QED  BY <1>3, <1>4 DEF PublisherInv, Own

LEMMA HandleSerialReadKeeps ==
  ASSUME PublisherInv, NEW d \in Devices, HandleSerialRead(d) PROVE PublisherInv'
<1>0. Own(clients) /\ Sound(fw[d])  BY DEF PublisherInv
<1>1. CASE fw[d].handle = "ok"
  <2> DEFINE f == IF fw[d].socket = "none" THEN fw[d]
                  ELSE [fw[d] EXCEPT !.ser2net = Append(@, fw[d].socket)]
  <2>1. Finish(d, Done(f), clients, AfterReading(d, "serial"))
    BY <1>1 DEF HandleSerialRead
  <2>2. Sound(f)
    <3>1. CASE fw[d].socket = "none"  BY <1>0, <3>1
    <3>2. CASE fw[d].socket # "none"
      <4>1. Append(fw[d].ser2net, fw[d].socket) \in Seq({fw[d].socket} \ {"none"})
        BY <1>0, <3>2, AppendProperties DEF Sound, ForwarderOf
      <4> QED  BY <1>0, <3>2, <4>1 DEF Sound, ForwarderOf
    <3> QED  BY <3>1, <3>2
  <2> HIDE DEF f
  <2>3. Sound(Done(f).f)  BY <2>2 DEF Done
  <2> QED  BY <1>0, <2>1, <2>3, FinishKeeps
<1>2. CASE fw[d].handle # "ok"
  <2>1. PICK service \in BOOLEAN, again \in BOOLEAN :
          LET once == Close(fw[d], service)
          IN Finish(d, IF once.raised /\ again THEN Close(once.f, FALSE) ELSE once,
                    clients, AfterReading(d, "serial"))
    BY <1>2 DEF HandleSerialRead, MayFail
  <2> DEFINE once == Close(fw[d], service)
             result == IF once.raised /\ again THEN Close(once.f, FALSE) ELSE once
  <2>2. Sound(once.f)  BY <1>0, CloseDead DEF Dead
  <2>3. Finish(d, result, clients, AfterReading(d, "serial"))  BY <2>1
  <2> HIDE DEF once
  <2>4. Sound(result.f)  BY <2>2, CloseDead DEF Dead
  <2> HIDE DEF result
  <2> QED  BY <1>0, <2>3, <2>4, FinishKeeps
<1> QED  BY <1>1, <1>2

LEMMA HandleSerialWriteKeeps ==
  ASSUME PublisherInv, NEW d \in Devices, HandleSerialWrite(d) PROVE PublisherInv'
<1>0. Own(clients) /\ Sound(fw[d])  BY DEF PublisherInv
<1>1. CASE \E n \in 1 .. fw[d].net2ser :
             Finish(d, Done([fw[d] EXCEPT !.net2ser = @ - n]), clients, AfterWriting(d, "serial"))
  <2>1. PICK n \in 1 .. fw[d].net2ser :
          Finish(d, Done([fw[d] EXCEPT !.net2ser = @ - n]), clients, AfterWriting(d, "serial"))
    BY <1>1
  <2>2. Sound(Done([fw[d] EXCEPT !.net2ser = @ - n]).f)  BY <1>0 DEF Done, Sound, ForwarderOf
  <2> QED  BY <1>0, <2>1, <2>2, FinishKeeps
<1>2. CASE \E service \in MayFail("service") :
             Finish(d, Close(fw[d], service), clients, AfterWriting(d, "serial"))
  <2>1. PICK service \in BOOLEAN :
          Finish(d, Close(fw[d], service), clients, AfterWriting(d, "serial"))
    BY <1>2 DEF MayFail
  <2>2. Sound(Close(fw[d], service).f)  BY <1>0, CloseDead DEF Dead
  <2> QED  BY <1>0, <2>1, <2>2, FinishKeeps
<1> QED  BY <1>1, <1>2 DEF HandleSerialWrite

LEMMA HandleSocketReadKeeps ==
  ASSUME PublisherInv, NEW d \in Devices, HandleSocketRead(d) PROVE PublisherInv'
<1> DEFINE f == fw[d]
           c == f.socket
           next == AfterReading(d, "socket")
<1>0. Own(clients) /\ Sound(f)  BY DEF PublisherInv
<1>1. CASE Finish(d, Raised(f), clients, next)
  <2>1. Sound(Raised(f).f)  BY <1>0 DEF Raised
  <2> QED  BY <1>0, <1>1, <2>1, FinishKeeps
<1>2. CASE /\ c # "none" /\ clients[c].up # <<>>
           /\ \E n \in {1, Len(clients[c].up)} :
                Finish(d, Received(f, SubSeq(clients[c].up, 1, n)),
                       [clients EXCEPT ![c].up = SubSeq(@, n + 1, Len(@))], next)
  <2> DEFINE up == clients[c].up
  <2>1. c \in Clients  BY <1>0, <1>2 DEF Sound
  <2>2. clients[c] \in ClientType /\ up \in Seq({"data", "set"}) /\ up # <<>>
    BY <1>0, <1>2, <2>1 DEF Own, ClientType
  <2>3. PICK n \in {1, Len(up)} :
          Finish(d, Received(f, SubSeq(up, 1, n)),
                 [clients EXCEPT ![c].up = SubSeq(@, n + 1, Len(@))], next)
    BY <1>2
  <2> DEFINE chunk == SubSeq(up, 1, n)
             rest == SubSeq(up, n + 1, Len(up))
             after == [clients EXCEPT ![c].up = rest]
  <2>4. n \in 1 .. Len(up)  BY <2>2
  <2>5. chunk \in Seq({"data", "set"}) /\ rest \in Seq({"data", "set"})
    BY <2>2, <2>4, SubSeqProperties
  <2>6. Finish(d, Received(f, chunk), after, next)  BY <2>3
  <2> HIDE DEF chunk, rest
  <2>7. Sound(Received(f, chunk).f)  BY <1>0, <1>2, <2>5, ReceivedSound
  <2>8. Own(after)
    <3>1. [clients[c] EXCEPT !.up = rest] \in ClientType  BY <2>2, <2>5 DEF ClientType
    <3>2. [clients[c] EXCEPT !.up = rest].got = clients[c].got  BY <2>2 DEF ClientType
    <3> QED  BY <1>0, <2>1, <3>1, <3>2 DEF Own
  <2> QED  BY <2>6, <2>7, <2>8, FinishKeeps
<1>3. CASE Finish(d, HandleDisconnect(f), clients, next)
  <2>1. Sound(HandleDisconnect(f).f)  BY <1>0, HandleDisconnectSound
  <2> QED  BY <1>0, <1>3, <2>1, FinishKeeps
<1> QED  BY <1>1, <1>2, <1>3 DEF HandleSocketRead

(* What is sent to a client is its own.                                    *)
LEMMA HandleSocketWriteKeeps ==
  ASSUME PublisherInv, NEW d \in Devices, HandleSocketWrite(d) PROVE PublisherInv'
<1> DEFINE f == fw[d]
           c == f.socket
           next == AfterWriting(d, "socket")
<1>0. Own(clients) /\ Sound(f)  BY DEF PublisherInv
<1>1. CASE Finish(d, Raised(f), clients, next)
  <2>1. Sound(Raised(f).f)  BY <1>0 DEF Raised
  <2> QED  BY <1>0, <1>1, <2>1, FinishKeeps
<1>2. CASE /\ c # "none"
           /\ \E n \in {m \in {1, Len(f.ser2net)} : m <= Len(f.ser2net)} :
                Finish(d, Done([f EXCEPT !.ser2net = SubSeq(@, n + 1, Len(@))]),
                       [clients EXCEPT ![c].got = @ \union ToSet(SubSeq(f.ser2net, 1, n))], next)
  <2> DEFINE kept == f.ser2net
  <2>1. c \in Clients  BY <1>0, <1>2 DEF Sound
  <2>2. /\ clients[c] \in ClientType /\ clients[c].got \subseteq {c}
        /\ kept \in Seq({c} \ {"none"})
    BY <1>0, <2>1 DEF Own, Sound, ForwarderOf
  <2>3. PICK n \in {m \in {1, Len(kept)} : m <= Len(kept)} :
          Finish(d, Done([f EXCEPT !.ser2net = SubSeq(@, n + 1, Len(@))]),
                 [clients EXCEPT ![c].got = @ \union ToSet(SubSeq(kept, 1, n))], next)
    BY <1>2
  <2> DEFINE sent == SubSeq(kept, 1, n)
             rest == SubSeq(kept, n + 1, Len(kept))
             left == [f EXCEPT !.ser2net = rest]
             after == [clients EXCEPT ![c].got = @ \union ToSet(sent)]
  <2>4. n \in Nat /\ n <= Len(kept)  BY <2>2
  <2>5. sent \in Seq({c} \ {"none"}) /\ rest \in Seq({c} \ {"none"})
    BY <2>2, <2>4, SubSeqProperties
  <2>6. Finish(d, Done(left), after, next)  BY <2>3
  <2>7. ToSet(sent) \subseteq {c}
    <3> HIDE DEF sent
    <3> QED  BY <2>5 DEF ToSet
  <2> HIDE DEF sent, rest
  <2>8. Sound(Done(left).f)  BY <1>0, <2>5 DEF Done, Sound, ForwarderOf
  <2>9. Own(after)
    <3>1. [clients[c] EXCEPT !.got = @ \union ToSet(sent)] \in ClientType
      BY <2>1, <2>2, <2>7 DEF ClientType
    <3>2. [clients[c] EXCEPT !.got = @ \union ToSet(sent)].got \subseteq {c}
      BY <2>2, <2>7 DEF ClientType
    <3> QED  BY <1>0, <2>1, <3>1, <3>2 DEF Own
  <2> QED  BY <2>6, <2>8, <2>9, FinishKeeps
<1>3. CASE Finish(d, HandleDisconnect(f), clients, next)
  <2>1. Sound(HandleDisconnect(f).f)  BY <1>0, HandleDisconnectSound
  <2> QED  BY <1>0, <1>3, <2>1, FinishKeeps
<1> QED  BY <1>1, <1>2, <1>3 DEF HandleSocketWrite

LEMMA HandleConnectKeeps ==
  ASSUME PublisherInv, NEW d \in Devices, HandleConnect(d) PROVE PublisherInv'
<1> DEFINE f == fw[d]
           next == AfterReading(d, "server")
<1>0. Own(clients) /\ Sound(f)  BY DEF PublisherInv
<1>1. CASE Finish(d, Raised(f), clients, next)
  <2>1. Sound(Raised(f).f)  BY <1>0 DEF Raised
  <2> QED  BY <1>0, <1>1, <2>1, FinishKeeps
<1>2. ASSUME NEW c \in Clients, f.socket # "none",
             Finish(d, Done(f), [clients EXCEPT ![c].st = "closed", ![c].up = <<>>], next)
      PROVE  PublisherInv'
  <2>1. Sound(Done(f).f)  BY <1>0 DEF Done
  <2>2. Own([clients EXCEPT ![c].st = "closed", ![c].up = <<>>])
    <3>1. <<>> \in Seq({"data", "set"})  OBVIOUS
    <3>2. clients[c] \in ClientType /\ clients[c].got \subseteq {c}  BY <1>0 DEF Own
    <3>3. [clients[c] EXCEPT !.st = "closed", !.up = <<>>] \in ClientType
      BY <3>1, <3>2 DEF ClientType
    <3>4. [clients[c] EXCEPT !.st = "closed", !.up = <<>>].got = clients[c].got
      BY <3>2 DEF ClientType
    <3> QED  BY <1>0, <3>2, <3>3, <3>4 DEF Own
  <2> QED  BY <1>2, <2>1, <2>2, FinishKeeps
<1>3. ASSUME NEW c \in Clients, f.socket = "none",
             Finish(d, IF f.handle = "ok"
                       THEN Done([f EXCEPT !.socket = c, !.rfc2217 = TRUE,
                                           !.ser2net = Append(@, c)])
                       ELSE Raised([f EXCEPT !.socket = c]),
                    [clients EXCEPT ![c].st = "open"], next)
      PROVE  PublisherInv'
  <2> DEFINE served == [f EXCEPT !.socket = c, !.rfc2217 = TRUE, !.ser2net = Append(@, c)]
             kept == [f EXCEPT !.socket = c]
             result == IF f.handle = "ok" THEN Done(served) ELSE Raised(kept)
  <2>1. c # "none"  BY PublisherAssumption DEF PublisherAssumption
  <2>2. f.ser2net = <<>>  BY <1>0, <1>3, NothingFromNobody DEF Sound, ForwarderOf
  <2>3. <<>> \in Seq({c} \ {"none"}) /\ <<c>> \in Seq({c} \ {"none"})  BY <2>1
  <2>4. Sound(kept)  BY <1>0, <1>3, <2>1, <2>2, <2>3 DEF Sound, ForwarderOf
  <2>5. Sound(served)
    <3>1. Append(f.ser2net, c) = <<c>>  BY <2>2
    <3> QED  BY <1>0, <1>3, <2>1, <2>3, <3>1 DEF Sound, ForwarderOf
  <2>6. Finish(d, result, [clients EXCEPT ![c].st = "open"], next)  BY <1>3
  <2> HIDE DEF served, kept
  <2>7. Sound(result.f)  BY <2>4, <2>5 DEF Done, Raised
  <2>8. Own([clients EXCEPT ![c].st = "open"])
    <3>1. clients[c] \in ClientType /\ clients[c].got \subseteq {c}  BY <1>0 DEF Own
    <3>2. [clients[c] EXCEPT !.st = "open"] \in ClientType  BY <3>1 DEF ClientType
    <3>3. [clients[c] EXCEPT !.st = "open"].got = clients[c].got  BY <3>1 DEF ClientType
    <3> QED  BY <1>0, <3>1, <3>2, <3>3 DEF Own
  <2> HIDE DEF result
  <2> QED  BY <2>6, <2>7, <2>8, FinishKeeps
<1> QED  BY <1>1, <1>2, <1>3 DEF HandleConnect

-----------------------------------------------------------------------------
(* The surroundings, and the whole.                                        *)

LEMMA PlugKeeps == ASSUME PublisherInv, NEW d \in Devices, Plug(d) PROVE PublisherInv'
<1>1. CASE d \in present
  <2> DEFINE f == [fw[d] EXCEPT !.handle = IF @ = "ok" THEN "gone" ELSE @]
  <2>1. Sound(f)  BY DEF PublisherInv, Sound, ForwarderOf
  <2>2. fw' = [fw EXCEPT ![d] = f] /\ clients' = clients  BY <1>1 DEF Plug
  <2> HIDE DEF f
  <2>3. fw' = [e \in Devices |-> fw'[e]] /\ \A e \in Devices : Sound(fw'[e])
    BY <2>1, <2>2 DEF PublisherInv
  <2> QED  BY <2>2, <2>3 DEF PublisherInv, Own
<1>2. CASE d \notin present  BY <1>2 DEF Plug, PublisherInv, Own
<1> QED  BY <1>1, <1>2

LEMMA ClientKeeps ==
  ASSUME PublisherInv, NEW c \in Clients, ClientConnects(c) \/ ClientSends(c) \/ ClientLeaves(c)
  PROVE  PublisherInv'
<1>0. clients[c] \in ClientType /\ clients[c].got \subseteq {c}  BY DEF PublisherInv, Own
<1>1. PICK r \in ClientType : r.got = clients[c].got /\ clients' = [clients EXCEPT ![c] = r]
  <2>1. CASE ClientConnects(c)
    <3>1. PICK d \in Devices :
            clients' = [clients EXCEPT ![c].st = "queued", ![c].at = d, ![c].here = TRUE]
      BY <2>1 DEF ClientConnects
    <3> DEFINE r == [clients[c] EXCEPT !.st = "queued", !.at = d, !.here = TRUE]
    <3>2. r \in ClientType /\ r.got = clients[c].got  BY <1>0 DEF ClientType
    <3>3. clients' = [clients EXCEPT ![c] = r]  BY <3>1, <1>0 DEF PublisherInv, Own
    <3> QED  BY <3>2, <3>3
  <2>2. CASE ClientSends(c)
    <3>1. PICK what \in {"data", "set"} : clients' = [clients EXCEPT ![c].up = Append(@, what)]
      BY <2>2 DEF ClientSends
    <3> DEFINE up == Append(clients[c].up, what)
               r == [clients[c] EXCEPT !.up = up]
    <3>2. up \in Seq({"data", "set"})  BY <1>0, AppendProperties DEF ClientType
    <3>3. clients' = [clients EXCEPT ![c] = r]  BY <3>1
    <3> HIDE DEF up
    <3>4. r \in ClientType /\ r.got = clients[c].got  BY <1>0, <3>2 DEF ClientType
    <3> QED  BY <3>3, <3>4
  <2>3. CASE ClientLeaves(c)
    <3> DEFINE r == [clients[c] EXCEPT !.here = FALSE]
    <3>1. r \in ClientType /\ r.got = clients[c].got  BY <1>0 DEF ClientType
    <3>2. clients' = [clients EXCEPT ![c] = r]  BY <2>3 DEF ClientLeaves
    <3> QED  BY <3>1, <3>2
  <2> QED  BY <2>1, <2>2, <2>3
<1>2. Own(clients')  BY <1>0, <1>1 DEF PublisherInv, Own
<1>3. fw' = fw  BY DEF ClientConnects, ClientSends, ClientLeaves
<1> QED  BY <1>2, <1>3 DEF PublisherInv, Own

LEMMA PublisherStep == ASSUME PublisherInv, PublisherNext PROVE PublisherInv'
<1>1. CASE Begin \/ Checked \/ RoundEnds \/ TimePasses
  BY <1>1 DEF Begin, Checked, RoundEnds, TimePasses, PublisherInv, Own
<1>2. ASSUME NEW d \in Devices, PortReceives(d) PROVE PublisherInv'
  BY <1>2 DEF PortReceives, PublisherInv, Own
<1> QED
  BY <1>1, <1>2, CheckKeeps, SelectKeeps, HandleSerialReadKeeps, HandleSerialWriteKeeps,
     HandleSocketReadKeeps, HandleSocketWriteKeeps, HandleConnectKeeps, PlugKeeps, ClientKeeps
  DEF PublisherNext, Loop

LEMMA PublisherInductive == Spec => []PublisherInv
<1>1. Init => PublisherInv
  <2> SUFFICES ASSUME Init PROVE PublisherInv  OBVIOUS
  <2>1. fw = [d \in Devices |-> NoForwarder] /\ clients = [c \in Clients |-> NoClient]
    BY DEF Init, PublisherInit, PublisherOff
  <2>2. Sound(NoForwarder)  BY NoForwarderDead DEF Dead
  <2>3. NoClient \in ClientType /\ NoClient.got = {}
    <3>1. <<>> \in Seq({"data", "set"})  OBVIOUS
    <3> QED  BY <3>1 DEF NoClient, ClientType
  <2> QED  BY <2>1, <2>2, <2>3 DEF PublisherInv, Own
<1>2. PublisherInv /\ [Next]_vars => PublisherInv'
  <2> SUFFICES ASSUME PublisherInv, [Next]_vars PROVE PublisherInv'  OBVIOUS
  <2>1. CASE PublisherNext  BY <2>1, PublisherStep
  <2>2. CASE UNCHANGED publisher  BY <2>2 DEF publisher, PublisherInv, Own
  <2> QED  BY <2>1, <2>2 DEF Next, vars
<1> QED  BY <1>1, <1>2, PTL DEF Spec

(* select is never given a closed file, whichever of the steps of closing  *)
(* a forwarder fails and in whichever callback: a forwarder is marked dead *)
(* before the first thing that may raise.                                  *)
THEOREM SelectNeverPoisonedAlways == Spec => []SelectNeverPoisoned
<1>1. PublisherInv => SelectNeverPoisoned
  BY DEF PublisherInv, Sound, SelectNeverPoisoned, Poisoned, Served
<1> QED  BY <1>1, PublisherInductive, PTL

(* What the publisher keeps for a client and what it sends is the client's *)
(* own, for any number of clients, one after the other, on any port.       *)
THEOREM ClientsApartAlways == Spec => []ClientsApart
<1>1. ASSUME PublisherInv PROVE ClientsApart
  <2>1. \A c \in Clients : clients[c].got \subseteq {c}  BY <1>1 DEF PublisherInv, Own
  <2>2. ASSUME NEW d \in Served
        PROVE  IF fw[d].socket = "none" THEN fw[d].handle = "ok" => ~fw[d].changed
               ELSE ToSet(fw[d].ser2net) \subseteq {fw[d].socket}
    <3>1. Sound(fw[d])  BY <1>1 DEF PublisherInv, Served
    <3>2. fw[d].ser2net \in Seq({fw[d].socket} \ {"none"})  BY <3>1 DEF Sound, ForwarderOf
    <3>3. ToSet(fw[d].ser2net) \subseteq {fw[d].socket}  BY <3>2 DEF ToSet
    <3>4. fw[d].socket = "none" => ~fw[d].changed  BY <3>1 DEF Sound
    <3> QED  BY <3>3, <3>4
  <2> QED  BY <2>1, <2>2 DEF ClientsApart
<1> QED  BY <1>1, PublisherInductive, PTL

-----------------------------------------------------------------------------
(* The terminal programs.                                                  *)

Lines == [rts : BOOLEAN, dtr : BOOLEAN, brk : BOOLEAN]
Port == [open : BOOLEAN, gone : BOOLEAN, timed : BOOLEAN, settings : {"start", "changed"},
         lines : Lines]
ControlOfProgram ==
  \/ program = "miniterm" /\ control \in {"test", "key", "menu test", "menu", "change", "ended"}
  \/ program = "wxTerminal"
     /\ control \in {"first dialog", "dialog", "idle", "settings", "close", "exit"}
  \/ program = "redirect" /\ control \in {"accept", "copy", "join", "exit"}
  \/ program = "off" /\ control = "off"

Running(r) == readers[r] \in {"test", "read"}

TerminalsType ==
  /\ ControlOfProgram
  /\ readers \in [Threads -> {"none", "test", "read", "ended"}]
  /\ started \in Nat
  /\ port \in Port /\ shown \in Lines
  /\ lost \in BOOLEAN

(* Only the reader started last may run, and none while the user or the    *)
(* network is asked what comes next; what it reads is open.                *)
ReaderInv ==
  /\ \A r \in Threads : Running(r) => r = started /\ (port.open \/ lost)
  /\ control \in {"first dialog", "dialog", "accept"} => \A r \in Threads : ~Running(r)
  /\ program \in {"miniterm", "redirect"} => port.open \/ lost

(* CarriedOver, also in the middle of a change.                            *)
CarriedInv ==
  (program = "miniterm" /\ control # "ended" /\ ~lost)
    => /\ port.open /\ port.timed /\ port.settings = chosen
       /\ port.lines = shown

TerminalsInv == TerminalsType /\ ReaderInv /\ CarriedInv

LEMMA StartTerminals == ASSUME TerminalsOff \/ MinitermInit \/ OtherInit PROVE TerminalsInv
<1> USE TerminalsAssumption DEF TerminalsAssumption, ControlOfProgram, Port, Lines, Closed, Threads
<1>1. CASE TerminalsOff
  <2>1. ControlOfProgram  BY <1>1 DEF TerminalsOff
  <2>2. readers \in [Threads -> {"none", "test", "read", "ended"}]  BY <1>1 DEF TerminalsOff
  <2>3. started \in Nat /\ shown \in Lines /\ lost \in BOOLEAN  BY <1>1 DEF TerminalsOff
  <2>4. port \in Port  BY <1>1 DEF TerminalsOff
  <2>5. ReaderInv  BY <1>1 DEF TerminalsOff, ReaderInv, Running
  <2>6. CarriedInv  BY <1>1 DEF TerminalsOff, CarriedInv
  <2> QED  BY <2>1, <2>2, <2>3, <2>4, <2>5, <2>6 DEF TerminalsInv, TerminalsType
<1>2. CASE MinitermInit
  <2>1. ControlOfProgram  BY <1>2 DEF MinitermInit
  <2>2. readers \in [Threads -> {"none", "test", "read", "ended"}]  BY <1>2 DEF MinitermInit
  <2>0. PICK rts \in BOOLEAN, dtr \in BOOLEAN :
          /\ shown = [rts |-> rts, dtr |-> dtr, brk |-> FALSE]
          /\ port = [Closed EXCEPT !.open = TRUE, !.lines = shown]
    BY <1>2 DEF MinitermInit
  <2>3. started \in Nat /\ shown \in Lines /\ lost \in BOOLEAN
    <3>1. shown \in Lines  BY <2>0
    <3>2. started \in Nat  BY <1>2 DEF MinitermInit
    <3>3. lost \in BOOLEAN  BY <1>2, Zenon DEF MinitermInit
    <3> QED  BY <3>1, <3>2, <3>3
  <2>4. port \in Port
    <3>1. port = [open |-> TRUE, gone |-> FALSE, timed |-> TRUE, settings |-> "start",
                  lines |-> shown]
      BY <2>0
    <3> QED  BY <2>3, <3>1
  <2>5. ReaderInv  BY <1>2 DEF MinitermInit, ReaderInv, Running
  <2>6. CarriedInv  BY <1>2 DEF MinitermInit, CarriedInv
  <2> QED  BY <2>1, <2>2, <2>3, <2>4, <2>5, <2>6 DEF TerminalsInv, TerminalsType
<1>3. CASE OtherInit
  <2>1. ControlOfProgram  BY <1>3 DEF OtherInit
  <2>2. readers \in [Threads -> {"none", "test", "read", "ended"}]  BY <1>3 DEF OtherInit
  <2>3. started \in Nat /\ shown \in Lines /\ lost \in BOOLEAN  BY <1>3 DEF OtherInit
  <2>4. port \in Port
    <3>1. port \in {Closed, [Closed EXCEPT !.open = TRUE]}  BY <1>3 DEF OtherInit
    <3>2. Closed \in Port  OBVIOUS
    <3>3. [Closed EXCEPT !.open = TRUE] \in Port  OBVIOUS
    <3> QED  BY <3>1, <3>2, <3>3, Zenon
  <2>5. ReaderInv  BY <1>3 DEF OtherInit, ReaderInv, Running
  <2>6. CarriedInv  BY <1>3 DEF OtherInit, CarriedInv
  <2> QED  BY <2>1, <2>2, <2>3, <2>4, <2>5, <2>6 DEF TerminalsInv, TerminalsType
<1> QED  BY <1>1, <1>2, <1>3

(* Whoever waited for the reader finds none that runs.                     *)
LEMMA JoinedNoneRuns == ASSUME ReaderInv, Joined PROVE \A r \in Threads : ~Running(r)
<1> SUFFICES ASSUME NEW r \in Threads, Running(r) PROVE FALSE  OBVIOUS
<1>1. r = started  BY DEF ReaderInv
<1>2. r # 0  BY TerminalsAssumption DEF TerminalsAssumption, Threads
<1>3. readers[r] = "ended"  BY <1>1, <1>2 DEF Joined
<1> QED  BY <1>3 DEF Running

LEMMA TerminalsStep == ASSUME TerminalsInv, TerminalsNext PROVE TerminalsInv'
<1> USE TerminalsAssumption DEF TerminalsAssumption, ControlOfProgram, Port, Lines, threads,
        things, Threads, Act
<1>1. ASSUME NEW r \in Threads, ReaderTests(r) PROVE TerminalsInv'
  <2>1. ControlOfProgram'  BY <1>1 DEF ReaderTests, TerminalsInv, TerminalsType
  <2>2. (readers \in [Threads -> {"none", "test", "read", "ended"}])'
    BY <1>1 DEF ReaderTests, TerminalsInv, TerminalsType
  <2>3. (started \in Nat /\ shown \in Lines /\ lost \in BOOLEAN)'
    BY <1>1 DEF ReaderTests, TerminalsInv, TerminalsType
  <2>4. (port \in Port)'  BY <1>1 DEF ReaderTests, TerminalsInv, TerminalsType
  <2>5. ReaderInv'  BY <1>1 DEF ReaderTests,
           TerminalsInv, TerminalsType, ReaderInv, Running
  <2>6. CarriedInv'  BY <1>1 DEF ReaderTests, TerminalsInv, TerminalsType, CarriedInv
  <2> QED  BY <2>1, <2>2, <2>3, <2>4, <2>5, <2>6 DEF TerminalsInv, TerminalsType
<1>2. ASSUME NEW r \in Threads, ReaderReads(r) PROVE TerminalsInv'
  <2>1. ControlOfProgram'  BY <1>2 DEF ReaderReads, Usable, TerminalsInv, TerminalsType
  <2>2. (readers \in [Threads -> {"none", "test", "read", "ended"}])'
    BY <1>2 DEF ReaderReads, Usable, TerminalsInv, TerminalsType
  <2>3. (started \in Nat /\ shown \in Lines /\ lost \in BOOLEAN)'
    BY <1>2 DEF ReaderReads, Usable, TerminalsInv, TerminalsType
  <2>4. (port \in Port)'  BY <1>2 DEF ReaderReads, Usable, TerminalsInv, TerminalsType
  <2>5. ReaderInv'  BY <1>2 DEF ReaderReads, Usable,
           TerminalsInv, TerminalsType, ReaderInv, Running
  <2>6. CarriedInv'  BY <1>2 DEF ReaderReads, Usable, TerminalsInv, TerminalsType, CarriedInv
  <2> QED  BY <2>1, <2>2, <2>3, <2>4, <2>5, <2>6 DEF TerminalsInv, TerminalsType
<1>3. ASSUME NEW r \in Threads, ReaderFails(r) PROVE TerminalsInv'
  <2>1. ControlOfProgram'  BY <1>3 DEF ReaderFails, Usable, TerminalsInv, TerminalsType
  <2>2. (readers \in [Threads -> {"none", "test", "read", "ended"}])'
    BY <1>3 DEF ReaderFails, Usable, TerminalsInv, TerminalsType
  <2>3. (started \in Nat /\ shown \in Lines /\ lost \in BOOLEAN)'
    BY <1>3 DEF ReaderFails, Usable, TerminalsInv, TerminalsType
  <2>4. (port \in Port)'  BY <1>3 DEF ReaderFails, Usable, TerminalsInv, TerminalsType
  <2>5. ReaderInv'  BY <1>3 DEF ReaderFails, Usable,
           TerminalsInv, TerminalsType, ReaderInv, Running
  <2>6. CarriedInv'  BY <1>3 DEF ReaderFails, Usable, TerminalsInv, TerminalsType, CarriedInv
  <2> QED  BY <2>1, <2>2, <2>3, <2>4, <2>5, <2>6 DEF TerminalsInv, TerminalsType
<1>4. CASE WriterTests
  <2>1. TerminalsType'  BY <1>4 DEF WriterTests, TerminalsInv, TerminalsType
  <2>2. ReaderInv'  BY <1>4 DEF WriterTests,
           TerminalsInv, TerminalsType, ReaderInv, Running
  <2>3. CarriedInv'  BY <1>4 DEF WriterTests, TerminalsInv, TerminalsType, CarriedInv
  <2> QED  BY <2>1, <2>2, <2>3 DEF TerminalsInv
<1>5. CASE ChangePort
  <2>0. \A r \in Threads : ~Running(r)  BY <1>5, JoinedNoneRuns DEF ChangePort, TerminalsInv
  <2>1. program' = "miniterm" /\ program = "miniterm" /\ control' = "test" /\ control = "change"
    BY <1>5 DEF ChangePort
  <2>2. started \in Nat /\ started' = started + 1
    BY <1>5 DEF ChangePort, StartReader, TerminalsInv, TerminalsType
  <2>3. readers' = [readers EXCEPT ![started + 1] = "test"]  BY <1>5 DEF ChangePort, StartReader
  <2>4. (readers \in [Threads -> {"none", "test", "read", "ended"}])'
    BY <2>3 DEF TerminalsInv, TerminalsType
  <2>5. shown' = shown /\ chosen' = chosen  BY <1>5 DEF ChangePort
  <2>6. /\ (lost \in BOOLEAN)' /\ (port \in Port)' /\ (port.open \/ lost)'
        /\ ~lost' => /\ ~lost /\ port'.timed = port.timed /\ port'.settings = port.settings
                     /\ port' = NewPort \/ port' = port
    <3>0. port \in Port /\ shown \in Lines /\ lost \in BOOLEAN /\ (port.open \/ lost)
      BY <2>1 DEF TerminalsInv, TerminalsType, ReaderInv
    <3>1. CASE port' = NewPort /\ lost' = lost
      <4>1. NewPort \in Port  BY <3>0 DEF NewPort
      <4>2. NewPort.open /\ NewPort.timed = port.timed /\ NewPort.settings = port.settings
        BY DEF NewPort
      <4> QED  BY <3>0, <3>1, <4>1, <4>2
    <3>2. CASE UNCHANGED <<port, lost>>  BY <3>0, <3>2
    <3>3. CASE /\ port' = [port EXCEPT !.open = @ /\ newSerial # "in use"]
               /\ lost' = (lost \/ newSerial = "in use")
      <4>1. CASE newSerial = "in use"
        <5>1. lost' <=> TRUE  BY <3>3, <4>1
        <5>2. lost' \in BOOLEAN  BY <3>3
        <5>3. port' \in Port  BY <3>0, <3>3
        <5> QED  BY <5>1, <5>2, <5>3
      <4>2. CASE newSerial # "in use"
        <5>1. lost' <=> lost  BY <3>3, <4>2
        <5>2. lost' \in BOOLEAN  BY <3>3
        <5>3. port' = port  BY <3>0, <3>3, <4>2
        <5> QED  BY <3>0, <5>1, <5>2, <5>3
      <4> QED  BY <4>1, <4>2
    <3> QED  BY <1>5, <3>1, <3>2, <3>3 DEF ChangePort
  <2>7. TerminalsType'
    <3>1. (shown \in Lines)'  BY <2>5 DEF TerminalsInv, TerminalsType
    <3> QED  BY <2>1, <2>2, <2>4, <2>6, <3>1 DEF TerminalsType
  <2>8. ReaderInv'
    <3>1. \A r \in Threads : Running(r)' => r = started'
      BY <2>0, <2>2, <2>3 DEF Running, TerminalsInv, TerminalsType
    <3> QED  BY <2>1, <2>6, <3>1 DEF ReaderInv
  <2>9. CarriedInv'
    <3>1. ~lost => port.open /\ port.timed /\ port.settings = chosen /\ port.lines = shown
      BY <2>1 DEF TerminalsInv, CarriedInv
    <3>2. NewPort.open /\ NewPort.lines = shown  BY DEF NewPort
    <3> SUFFICES ASSUME ~lost' PROVE (port.open /\ port.timed /\ port.settings = chosen
                                      /\ port.lines = shown)'
      BY DEF CarriedInv
    <3>3. ~lost /\ port'.timed = port.timed /\ port'.settings = port.settings  BY <2>6, Zenon
    <3>4. port'.open  BY <2>6
    <3>5. port' = NewPort \/ port' = port  BY <2>6
    <3>6. port'.lines = shown'  BY <2>5, <3>1, <3>2, <3>3, <3>5
    <3>7. port'.timed /\ port'.settings = chosen'  BY <2>5, <3>1, <3>3, Zenon
    <3> QED  BY <3>4, <3>6, <3>7
  <2> QED  BY <2>7, <2>8, <2>9 DEF TerminalsInv
<1>6. CASE ChangeUnbound
  <2>1. TerminalsType'  BY <1>6 DEF ChangeUnbound, Joined, Dies, TerminalsInv, TerminalsType
  <2>2. ReaderInv'  BY <1>6 DEF ChangeUnbound, Joined, Dies,
           TerminalsInv, TerminalsType, ReaderInv, Running
  <2>3. CarriedInv'  BY <1>6 DEF ChangeUnbound, Joined, Dies, TerminalsInv, TerminalsType, CarriedInv
  <2> QED  BY <2>1, <2>2, <2>3 DEF TerminalsInv
<1>7. CASE MainWaits
  <2>1. ControlOfProgram'  BY <1>7 DEF MainWaits, Joined, TerminalsInv, TerminalsType
  <2>2. (readers \in [Threads -> {"none", "test", "read", "ended"}])'
    BY <1>7 DEF MainWaits, Joined, TerminalsInv, TerminalsType
  <2>3. (started \in Nat /\ shown \in Lines /\ lost \in BOOLEAN)'
    BY <1>7 DEF MainWaits, Joined, TerminalsInv, TerminalsType
  <2>4. (port \in Port)'  BY <1>7 DEF MainWaits, Joined, TerminalsInv, TerminalsType
  <2>5. ReaderInv'  BY <1>7 DEF MainWaits, Joined,
           TerminalsInv, TerminalsType, ReaderInv, Running
  <2>6. CarriedInv'  BY <1>7 DEF MainWaits, Joined, TerminalsInv, TerminalsType, CarriedInv
  <2> QED  BY <2>1, <2>2, <2>3, <2>4, <2>5, <2>6 DEF TerminalsInv, TerminalsType
<1>8. CASE Stopped
  <2>1. ControlOfProgram'  BY <1>8 DEF Stopped, Joined, TerminalsInv, TerminalsType
  <2>2. (readers \in [Threads -> {"none", "test", "read", "ended"}])'
    BY <1>8 DEF Stopped, Joined, TerminalsInv, TerminalsType
  <2>3. (started \in Nat /\ shown \in Lines /\ lost \in BOOLEAN)'
    BY <1>8 DEF Stopped, Joined, TerminalsInv, TerminalsType
  <2>4. (port \in Port)'  BY <1>8 DEF Stopped, Joined, TerminalsInv, TerminalsType
  <2>5. ReaderInv'
    <3>1. \A r \in Threads : ~Running(r)'  BY <1>8, JoinedNoneRuns DEF Stopped, TerminalsInv, Running
    <3>2. (program \in {"miniterm", "redirect"} => port.open \/ lost)'
      BY <1>8 DEF Stopped, TerminalsInv, TerminalsType
    <3> QED  BY <3>1, <3>2 DEF ReaderInv
  <2>6. CarriedInv'  BY <1>8 DEF Stopped, Joined, TerminalsInv, TerminalsType, CarriedInv
  <2> QED  BY <2>1, <2>2, <2>3, <2>4, <2>5, <2>6 DEF TerminalsInv, TerminalsType
<1>9. CASE PeerLeft
  <2>1. TerminalsType'  BY <1>9 DEF PeerLeft, TerminalsInv, TerminalsType
  <2>2. ReaderInv'  BY <1>9 DEF PeerLeft,
           TerminalsInv, TerminalsType, ReaderInv, Running
  <2>3. CarriedInv'  BY <1>9 DEF PeerLeft, TerminalsInv, TerminalsType, CarriedInv
  <2> QED  BY <2>1, <2>2, <2>3 DEF TerminalsInv
<1>10. CASE NextClient
  <2>1. TerminalsType'  BY <1>10 DEF NextClient, Joined, TerminalsInv, TerminalsType
  <2>2. ReaderInv'  BY <1>10 DEF NextClient, Joined,
           TerminalsInv, TerminalsType, ReaderInv, Running
  <2>3. CarriedInv'  BY <1>10 DEF NextClient, Joined, TerminalsInv, TerminalsType, CarriedInv
  <2> QED  BY <2>1, <2>2, <2>3 DEF TerminalsInv
<1>11. CASE Key
  <2>1. TerminalsType'
    BY <1>11 DEF Key, Dies, Obeys, DiesUnlessUsable, Usable, Stop, TerminalsInv, TerminalsType
  <2>2. ReaderInv'
    BY <1>11 DEF Key, Dies, Obeys, DiesUnlessUsable, Usable, Stop,
           TerminalsInv, TerminalsType, ReaderInv, Running
  <2>3. CarriedInv'
    BY <1>11 DEF Key, Dies, Obeys, DiesUnlessUsable, Usable, Stop, TerminalsInv, TerminalsType, CarriedInv
  <2> QED  BY <2>1, <2>2, <2>3 DEF TerminalsInv
<1>12. CASE MenuShow
  <2>1. TerminalsType'
    BY <1>12 DEF MenuShow, Dies, Obeys, DiesUnlessUsable, Usable, TerminalsInv, TerminalsType
  <2>2. ReaderInv'
    BY <1>12 DEF MenuShow, Dies, Obeys, DiesUnlessUsable, Usable,
           TerminalsInv, TerminalsType, ReaderInv, Running
  <2>3. CarriedInv'
    BY <1>12 DEF MenuShow, Dies, Obeys, DiesUnlessUsable, Usable, TerminalsInv, TerminalsType, CarriedInv
  <2> QED  BY <2>1, <2>2, <2>3 DEF TerminalsInv
<1>13. CASE MenuUpload
  <2>1. TerminalsType'
    BY <1>13 DEF MenuUpload, Dies, Obeys, DiesUnlessUsable, Usable, TerminalsInv, TerminalsType
  <2>2. ReaderInv'
    BY <1>13 DEF MenuUpload, Dies, Obeys, DiesUnlessUsable, Usable,
           TerminalsInv, TerminalsType, ReaderInv, Running
  <2>3. CarriedInv'
    BY <1>13 DEF MenuUpload, Dies, Obeys, DiesUnlessUsable, Usable, TerminalsInv, TerminalsType, CarriedInv
  <2> QED  BY <2>1, <2>2, <2>3 DEF TerminalsInv
<1>14. CASE MenuLine
  <2>0. PICK line \in {"rts", "dtr", "brk"} :
          /\ shown' = [shown EXCEPT ![line] = ~@]
          /\ port' = IF Usable THEN [port EXCEPT !.lines[line] = ~shown[line]] ELSE port
    BY <1>14 DEF MenuLine
  <2>1. ControlOfProgram'
    BY <1>14 DEF MenuLine, Dies, Obeys, DiesUnlessUsable, Usable, TerminalsInv, TerminalsType
  <2>2. (readers \in [Threads -> {"none", "test", "read", "ended"}])'
    BY <1>14 DEF MenuLine, Dies, Obeys, DiesUnlessUsable, Usable, TerminalsInv, TerminalsType
  <2>3. (started \in Nat /\ shown \in Lines /\ lost \in BOOLEAN)'
    BY <1>14 DEF MenuLine, Dies, Obeys, DiesUnlessUsable, Usable, TerminalsInv, TerminalsType
  <2>4. (port \in Port)'
    <3>1. port \in Port /\ shown \in Lines  BY DEF TerminalsInv, TerminalsType
    <3>2. [port EXCEPT !.lines[line] = ~shown[line]] \in Port
      <4>1. CASE line = "rts"  BY <3>1, <4>1
      <4>2. CASE line = "dtr"  BY <3>1, <4>2
      <4>3. CASE line = "brk"  BY <3>1, <4>3
      <4> QED  BY <4>1, <4>2, <4>3
    <3> QED  BY <2>0, <3>1, <3>2
  <2>5. ReaderInv'
    BY <1>14 DEF MenuLine, Dies, Obeys, DiesUnlessUsable, Usable,
           TerminalsInv, TerminalsType, ReaderInv, Running
  <2>6. CarriedInv'
    <3>1. CASE Usable
      <4>1. port'.lines = [port.lines EXCEPT ![line] = ~shown[line]]
        BY <2>0, <3>1 DEF TerminalsInv, TerminalsType
      <4>2. port.lines = shown => port'.lines = shown'
        BY <2>0, <4>1 DEF TerminalsInv, TerminalsType
      <4>3. port'.open = port.open /\ port'.timed = port.timed /\ port'.settings = port.settings
        BY <2>0, <3>1 DEF TerminalsInv, TerminalsType
      <4>4. CarriedInv  BY DEF TerminalsInv
      <4> QED  BY <1>14, <4>2, <4>3, <4>4 DEF MenuLine, CarriedInv
    <3>2. CASE ~Usable
      BY <1>14, <3>2 DEF MenuLine, DiesUnlessUsable, Dies, CarriedInv
    <3> QED  BY <3>1, <3>2
  <2> QED  BY <2>1, <2>2, <2>3, <2>4, <2>5, <2>6 DEF TerminalsInv, TerminalsType
<1>15. CASE MenuSetting
  <2>1. TerminalsType'
    <3>1. ControlOfProgram'
      BY <1>15 DEF MenuSetting, Dies, Obeys, DiesUnlessUsable
    <3>2. (port \in Port)'
      BY <1>15 DEF MenuSetting, TerminalsInv, TerminalsType
    <3> QED
      BY <1>15, <3>1, <3>2 DEF MenuSetting, TerminalsInv, TerminalsType
  <2>2. ReaderInv'
    BY <1>15 DEF MenuSetting, Dies, Obeys, DiesUnlessUsable, Usable,
           TerminalsInv, TerminalsType, ReaderInv, Running
  <2>3. CarriedInv'
    BY <1>15 DEF MenuSetting, Dies, Obeys, DiesUnlessUsable, Usable, TerminalsInv, TerminalsType, CarriedInv
  <2> QED  BY <2>1, <2>2, <2>3 DEF TerminalsInv
<1>16. CASE MenuPort
  <2>1. TerminalsType'  BY <1>16 DEF MenuPort, TerminalsInv, TerminalsType
  <2>2. ReaderInv'  BY <1>16 DEF MenuPort,
           TerminalsInv, TerminalsType, ReaderInv, Running
  <2>3. CarriedInv'  BY <1>16 DEF MenuPort, TerminalsInv, TerminalsType, CarriedInv
  <2> QED  BY <2>1, <2>2, <2>3 DEF TerminalsInv
<1>17. CASE Dialog
  <2>1. ControlOfProgram'  BY <1>17 DEF Dialog, StartReader, NoReader, TerminalsInv, TerminalsType
  <2>2. (readers \in [Threads -> {"none", "test", "read", "ended"}])'
    BY <1>17 DEF Dialog, StartReader, NoReader, TerminalsInv, TerminalsType
  <2>3. (started \in Nat /\ shown \in Lines /\ lost \in BOOLEAN)'
    <3>1. started' \in {started, started + 1}  BY <1>17 DEF Dialog, StartReader, NoReader
    <3>2. (shown \in Lines /\ lost \in BOOLEAN)'  BY <1>17 DEF Dialog, TerminalsInv, TerminalsType
    <3>3. started \in Nat  BY DEF TerminalsInv, TerminalsType
    <3>4. started' \in Nat  BY <3>1, <3>3
    <3> QED  BY <3>2, <3>4
  <2>4. (port \in Port)'  BY <1>17 DEF Dialog, StartReader, NoReader, TerminalsInv, TerminalsType
  <2>5. ReaderInv'
    BY <1>17 DEF Dialog, StartReader, NoReader,
           TerminalsInv, TerminalsType, ReaderInv, Running
  <2>6. CarriedInv'  BY <1>17 DEF Dialog, StartReader, NoReader, TerminalsInv, TerminalsType, CarriedInv
  <2> QED  BY <2>1, <2>2, <2>3, <2>4, <2>5, <2>6 DEF TerminalsInv, TerminalsType
<1>18. CASE Leave
  <2>1. TerminalsType'  BY <1>18 DEF Leave, TerminalsInv, TerminalsType
  <2>2. ReaderInv'  BY <1>18 DEF Leave,
           TerminalsInv, TerminalsType, ReaderInv, Running
  <2>3. CarriedInv'  BY <1>18 DEF Leave, TerminalsInv, TerminalsType, CarriedInv
  <2> QED  BY <2>1, <2>2, <2>3 DEF TerminalsInv
<1>19. CASE Accept
  <2>1. ControlOfProgram'  BY <1>19 DEF Accept, StartReader, TerminalsInv, TerminalsType
  <2>2. (readers \in [Threads -> {"none", "test", "read", "ended"}])'
    BY <1>19 DEF Accept, StartReader, TerminalsInv, TerminalsType
  <2>3. (started \in Nat /\ shown \in Lines /\ lost \in BOOLEAN)'
    BY <1>19 DEF Accept, StartReader, TerminalsInv, TerminalsType
  <2>4. (port \in Port)'  BY <1>19 DEF Accept, StartReader, TerminalsInv, TerminalsType
  <2>5. ReaderInv'  BY <1>19 DEF Accept, StartReader,
           TerminalsInv, TerminalsType, ReaderInv, Running
  <2>6. CarriedInv'  BY <1>19 DEF Accept, StartReader, TerminalsInv, TerminalsType, CarriedInv
  <2> QED  BY <2>1, <2>2, <2>3, <2>4, <2>5, <2>6 DEF TerminalsInv, TerminalsType
<1>20. CASE Copy
  <2>1. TerminalsType'  BY <1>20 DEF Copy, Usable, TerminalsInv, TerminalsType
  <2>2. ReaderInv'  BY <1>20 DEF Copy, Usable,
           TerminalsInv, TerminalsType, ReaderInv, Running
  <2>3. CarriedInv'  BY <1>20 DEF Copy, Usable, TerminalsInv, TerminalsType, CarriedInv
  <2> QED  BY <2>1, <2>2, <2>3 DEF TerminalsInv
<1>21. CASE DeviceGoes
  <2>1. TerminalsType'  BY <1>21 DEF DeviceGoes, TerminalsInv, TerminalsType
  <2>2. ReaderInv'  BY <1>21 DEF DeviceGoes,
           TerminalsInv, TerminalsType, ReaderInv, Running
  <2>3. CarriedInv'  BY <1>21 DEF DeviceGoes, TerminalsInv, TerminalsType, CarriedInv
  <2> QED  BY <2>1, <2>2, <2>3 DEF TerminalsInv
<1>22. CASE PeerLeaves
  <2>1. ControlOfProgram'  BY <1>22 DEF PeerLeaves, TerminalsInv, TerminalsType
  <2>2. (readers \in [Threads -> {"none", "test", "read", "ended"}])'
    BY <1>22 DEF PeerLeaves, TerminalsInv, TerminalsType
  <2>3. (started \in Nat /\ shown \in Lines /\ lost \in BOOLEAN)'
    BY <1>22 DEF PeerLeaves, TerminalsInv, TerminalsType
  <2>4. (port \in Port)'  BY <1>22 DEF PeerLeaves, TerminalsInv, TerminalsType
  <2>5. ReaderInv'  BY <1>22 DEF PeerLeaves,
           TerminalsInv, TerminalsType, ReaderInv, Running
  <2>6. CarriedInv'  BY <1>22 DEF PeerLeaves, TerminalsInv, TerminalsType, CarriedInv
  <2> QED  BY <2>1, <2>2, <2>3, <2>4, <2>5, <2>6 DEF TerminalsInv, TerminalsType
<1> QED
  BY <1>1, <1>2, <1>3, <1>4, <1>5, <1>6, <1>7, <1>8, <1>9, <1>10, <1>11, <1>12, <1>13, <1>14,
     <1>15, <1>16, <1>17, <1>18, <1>19, <1>20, <1>21, <1>22
  DEF TerminalsNext, Reader, Control, Deeds

LEMMA TerminalsInductive == Spec => []TerminalsInv
<1>1. Init => TerminalsInv  BY StartTerminals DEF Init, PublisherOff
<1>2. TerminalsInv /\ [Next]_vars => TerminalsInv'
  <2> SUFFICES ASSUME TerminalsInv, [Next]_vars PROVE TerminalsInv'  OBVIOUS
  <2>1. CASE TerminalsNext  BY <2>1, TerminalsStep
  <2>2. CASE UNCHANGED terminals
    BY <2>2 DEF terminals, threads, things, TerminalsInv, TerminalsType, ControlOfProgram, ReaderInv,
                Running, CarriedInv
  <2> QED  BY <2>1, <2>2 DEF Next, vars
<1> QED  BY <1>1, <1>2, PTL DEF Spec

(* One reader: however the port is changed, reopened or served again, at   *)
(* most one thread reads from it, and what it reads from is open (except   *)
(* the port that miniterm closes by mistake), for any number of acts.      *)
THEOREM OneReaderAlways == Spec => []OneReader
<1>1. ASSUME TerminalsInv PROVE OneReader
  <2> DEFINE S == {r \in Threads : readers[r] \in {"test", "read"}}
  <2>1. S \subseteq {started}  BY <1>1 DEF TerminalsInv, ReaderInv, Running
  <2>2. IsFiniteSet({started}) /\ Cardinality({started}) = 1  BY FS_Singleton
  <2>3. Cardinality(S) <= 1  BY <2>1, <2>2, FS_Subset
  <2>4. (\E r \in Threads : readers[r] = "read") => port.open \/ lost
    BY <1>1 DEF TerminalsInv, ReaderInv, Running
  <2> QED  BY <2>3, <2>4 DEF OneReader
<1> QED  BY <1>1, TerminalsInductive, PTL

(* The port that miniterm uses is open and has what the user chose, after  *)
(* any number of changes and failures.                                     *)
THEOREM CarriedAlways == Spec => []CarriedOver
<1>1. TerminalsInv => CarriedOver  BY DEF TerminalsInv, CarriedInv, CarriedOver
<1> QED  BY <1>1, TerminalsInductive, PTL
=============================================================================
