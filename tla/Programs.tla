------------------------------ MODULE Programs ------------------------------
(***************************************************************************)
(* The programs that come with pySerial and copy between a serial port and *)
(* something else: one of Publisher and Terminals runs, chosen at the      *)
(* start.                                                                  *)
(***************************************************************************)
EXTENDS Publisher, Terminals

vars == <<publisher, terminals>>

PublisherIdle == loop = [Top EXCEPT !.pc = "off"]
PublisherOff ==
  /\ fw = [d \in Devices |-> NoForwarder]
  /\ PublisherIdle /\ due = TRUE /\ present = Devices
  /\ rx = [d \in Devices |-> 0]
  /\ clients = [c \in Clients |-> NoClient]
  /\ budget = [b \in {} |-> 0]

Init ==
  \/ PublisherInit /\ TerminalsOff
  \/ PublisherOff /\ (MinitermInit \/ OtherInit)

Next ==
  \/ ~PublisherIdle /\ PublisherNext /\ UNCHANGED terminals
  \/ PublisherIdle /\ TerminalsNext /\ UNCHANGED publisher

Spec == Init /\ [][Next]_vars

(* The publisher's thread runs, and its clock.  Each thread of the others  *)
(* runs: select and every read have a timeout.                             *)
FairSpec ==
  /\ Spec
  /\ WF_vars(Loop /\ UNCHANGED terminals) /\ WF_vars(TimePasses /\ UNCHANGED terminals)
  /\ WF_vars(Reader /\ UNCHANGED publisher) /\ WF_vars(Control /\ UNCHANGED publisher)
=============================================================================
