------------------------------- MODULE Engine -------------------------------
(***************************************************************************)
(* One mining core of the ICARUS-LX150 design: a pbkdfengine and its       *)
(* salsaengine, wired as in ltcminer_icarus.v, under their two clocks.     *)
(*                                                                         *)
(* A behaviour is a sequence of clock edges.  `skew` is the time of the    *)
(* next pbkdf_clk edge minus that of the next hash_clk edge: the earlier   *)
(* one is taken, and when they coincide either may be, which covers both   *)
(* outcomes of a synchroniser that samples a changing bit.  hash_clk's     *)
(* period is fixed when the behaviour starts (dyn_pll can change it, and   *)
(* the design runs at whatever speed it was set to).                       *)
(***************************************************************************)
EXTENDS PbkdfEngine, SalsaEngine, Integers

CONSTANTS
  PPeriod,   (* Period of pbkdf_clk, in some unit of time,                   *)
  HPeriods,  (* and the periods hash_clk may have.                           *)
  MaxLoads   (* Bound: works that the host sends in a behaviour.             *)

ASSUME ClockAssumption ==
  /\ PPeriod \in Nat \ {0}
  /\ HPeriods \subseteq Nat \ {0}
  /\ MaxLoads \in Nat

VARIABLES skew, hperiod

clockVars == <<skew, hperiod>>
vars == <<clockVars, pbkdfVars, salsaVars>>

Init ==
  /\ hperiod \in HPeriods
  /\ skew \in -hperiod .. PPeriod
  /\ PbkdfInit
  /\ SalsaInit

-----------------------------------------------------------------------------
(* loadnonce is high for one pbkdf_clk cycle after each work received.      *)

PbkdfEdge ==
  /\ skew <= 0
  /\ skew' = skew + PPeriod
  /\ \E loadnonce \in {FALSE} \cup {work < MaxLoads} : PbkdfTick(loadnonce)
  /\ UNCHANGED <<hperiod, salsaVars>>

HashTick ==
  /\ skew >= 0
  /\ skew' = skew - hperiod
  /\ ShifterTick(salsaShiftReg, salsa_nonce_sr, busy_flag, result)
  /\ SalsaTick(reset, SMixInRdy, salsa_shift, LastShift, ShiftCutShort, Xbuf, nonce_sr)
  /\ UNCHANGED hperiod

HashEdge == HashTick /\ SlotQuiet

(* The edge on which a thread completes.                                    *)
HashEdgeComplete == HashTick /\ Complete

Next == PbkdfEdge \/ HashEdge \/ HashEdgeComplete

Spec == Init /\ [][Next]_vars

(* Both clocks run, and a thread completes within a bounded number of       *)
(* visits of its slot.                                                      *)
FairSpec ==
  Spec /\ WF_vars(PbkdfEdge) /\ WF_vars(HashEdge) /\ SF_vars(HashEdgeComplete)

-----------------------------------------------------------------------------
(* Properties.                                                              *)

(* Every register holds a value of its type.                                *)
TypeOK ==
  /\ PbkdfTypeOK /\ SalsaTypeOK
  /\ hperiod \in HPeriods
  /\ skew \in -hperiod .. PPeriod

(* The nonce that comes back with a result is the one it was computed from: *)
(* the data and the nonce take separate ways (Xbuf, salsaShiftReg, the      *)
(* thread; nonce_sr, nonce_sr, snonce) through two clock domains, and a     *)
(* golden nonce is the one in nonce_sr at S_R18 (pbkdfengine.v 566-581).    *)
Paired ==
  state = "S_R18" /\ Xbuf.kind = "out" /\ Xbuf.work = work => nonce_sr = Xbuf.nonce

(* Every nonce that was used up and not yet checked is still somewhere in   *)
(* the core with its data, in one place only: none is lost between the two  *)
(* engines and none is hashed twice.                                        *)
HasNonce(n, item, nonce) ==
  item.kind \in {"in", "out"} /\ item.work = work /\ item.nonce = n /\ nonce = n

Places(n) ==
  {t \in Thread : HasNonce(n, sdata[t], snonce[t])}
    \cup (IF HasNonce(n, Xbuf, nonce_sr) THEN {THREADS} ELSE {})
    \cup (IF HasNonce(n, salsaShiftReg, salsa_nonce_sr) THEN {THREADS + 1} ELSE {})

NoneLost == \A n \in live : \E p \in Places(n) : Places(n) = {p}

(* A result of the current work that reaches the check was not checked      *)
(* before, and a nonce is not used again while it is being hashed.          *)
CheckedOnce ==
  [][/\ state = "S_R18" /\ Xbuf.kind = "out" /\ Xbuf.work = work /\ ~reset
          => Xbuf.nonce \in live
     /\ state = "S_NONCE" /\ state' = "S_SHIFT_IN" => nonce_cnt \notin live]_vars

(* "NB must ensure shift and result do NOT overlap by carefully controlling *)
(* timing of start signal" (salsaengine.v 236).                             *)
NoOverlap == ~(XSload /\ salsa_shift)

(* The long reset reaches every thread: when fsmreset goes down, all slots  *)
(* are idle (salsaengine.v 34, pbkdfengine.v 60-62).                        *)
ResetReachesAll ==
  [][fsmreset /\ ~fsmreset' => \A t \in Thread : sstate'[t] = "R_IDLE"]_vars

(* Mining never stops: results of the current work keep being checked,      *)
(* whatever the order of resets, waits and completions; busy and result go  *)
(* on to make one edge each for every exchange (salsaengine.v 356-482).     *)
KeepsChecking ==
  []<>(state = "S_R18" /\ Xbuf.kind = "out" /\ Xbuf.work = work)

=============================================================================
