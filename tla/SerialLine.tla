----------------------------- MODULE SerialLine -----------------------------
(***************************************************************************)
(* The serial line between the program and a board: serial_transmit behind *)
(* the hub, serial_receive, and ltcminer.py at the other end.  They meet   *)
(* in nothing but bytes on the line, which each of the three modules has   *)
(* at a grain of its own (cycles of a clock, steps of threads); so one of  *)
(* them is chosen at the start, and the others rest.                       *)
(***************************************************************************)
EXTENDS HubCore, SerialReceive, MinerHost

VARIABLE side   (* "uplink", "downlink" or "host".                         *)

vars == <<side, uplinkVars, downlinkVars, hostVars>>

Init ==
  /\ side \in {"uplink", "downlink", "host"}
  /\ UplinkInit /\ DownlinkInit /\ HostInit
  /\ side # "downlink" => skew = 0

Uplink(A) == side = "uplink" /\ A /\ UNCHANGED <<side, downlinkVars, hostVars>>
Downlink(A) == side = "downlink" /\ A /\ UNCHANGED <<side, uplinkVars, hostVars>>
Host(A) == side = "host" /\ A /\ UNCHANGED <<side, uplinkVars, downlinkVars>>

Next == Uplink(UplinkNext) \/ Downlink(DownlinkNext) \/ Host(HostNext)
Spec == Init /\ [][Next]_vars

(* The clock of the uplink never stops, and a byte takes a bounded number  *)
(* of its edges.  The threads of the program are scheduled, and what it    *)
(* sent arrives.  Nothing is assumed of who finds a nonce, of the pool, or *)
(* of a read timing out.                                                   *)
FairSpec ==
  /\ Spec
  /\ WF_vars(Uplink(UplinkNext)) /\ WF_vars(Uplink(EdgeByteDone))
  /\ WF_vars(Host(WriterStep)) /\ WF_vars(Host(ReadByte \/ Submit \/ SetGolden))
  /\ WF_vars(Host(FpgaReceives))
=============================================================================
