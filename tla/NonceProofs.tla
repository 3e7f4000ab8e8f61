---------------------------- MODULE NonceProofs ----------------------------
(***************************************************************************)
(* Proofs that a mining core loses no nonce and checks each once, for any  *)
(* number of threads, nonces and works.                                    *)
(*                                                                         *)
(* The two engines hand items to each other through Xbuf, salsaShiftReg    *)
(* and the threads, each exchange overwriting what was there.  NonceInv    *)
(* says what each of these registers may hold at a time, so that what is   *)
(* overwritten is never a nonce that is still to be checked; how old the   *)
(* nonces in use are, so that none is counted on to twice; and that live   *)
(* is exactly what the registers hold.                                     *)
(***************************************************************************)
EXTENDS EngineProofs

(* Shifts, loads and resets are in time (see EngineProofs); a shift takes  *)
(* as long as the threads need to say that they are busy; and there are    *)
(* more nonces than threads, so that one is not counted on to while it is  *)
(* being hashed.                                                           *)
NoncesInTime == InTime /\ LoadInTime /\ THREADS <= SHIFTS + 2 /\ THREADS < NONCES

(* An item of the current work; which nonce it holds; and how long ago     *)
(* that nonce was used up.                                                 *)
Current(x) == x.kind # "junk" /\ x.work = work
Holds(n, x) == Current(x) /\ x.nonce = n
Age(n) == IF n < nonce_cnt THEN nonce_cnt - n ELSE nonce_cnt + NONCES - n

(* The current work is being hashed: its reset is over.                    *)
Steady == ~reset /\ resetcycles = RESETCYCLES

(* What the registers hold: in Xbuf an input on its way to salsaengine or  *)
(* a result to be checked; in salsaShiftReg an input that no thread has    *)
(* taken yet or a result that has not been fetched.                        *)
InXbuf == state = "S_SHIFT_IN" /\ Pending
OutXbuf ==
  \/ state = "S_SHIFT_OUT" /\ ~Pending
  \/ start_output \/ (state = "S_HASH" /\ mode = 1) \/ state = "S_R18"
Full == Current(salsaShiftReg) /\ salsaShiftReg.kind = "in"
Done == Current(salsaShiftReg) /\ salsaShiftReg.kind = "out"
Leftover == Current(Xbuf) /\ ~InXbuf /\ ~OutXbuf

(* reset follows every load.                                               *)
CycleInv == ~reset => resetcycles \in {0, RESETCYCLES}

(* A load of Xbuf is over before the next one is asked for.                *)
LoadsInv ==
  /\ ~reset /\ state # "S_NONCE" => ~Underway(Xbuf_load_request)
  /\ reset => /\ Xbuf_load_request[1] => Clears(5)
              /\ Xbuf_load_request[2] => Clears(4)
              /\ Xbuf_load_request[3] => Clears(3)
KhashInv ==
  Steady /\ state = "S_NONCE" =>
    /\ khash = Item("in", work, nonce_cnt)
    /\ Xbuf = khash \/ Underway(Xbuf_load_request)

(* Before the current work is being hashed, only the edge between its load *)
(* and its reset can have made an input of it, which stays in pbkdfengine. *)
UnsteadyInv ==
  /\ ~Steady => /\ live = {} /\ ~Current(salsaShiftReg)
                /\ \A t \in Thread : ~Current(sdata[t])
                /\ Current(Xbuf) => Current(khash)
                /\ Current(khash) => reset /\ ~Pending
  /\ Current(salsaShiftReg) \/ (\E t \in Thread : Current(sdata[t])) => ~reset_d /\ ~fsmreset

(* result goes up at every exchange, and only the thread that is to        *)
(* complete next makes one.                                                *)
ResultInv == result => SomeIn("R_START")
FirstInv ==
  ~fsmreset =>
  /\ \A t \in Thread : Slot(t) = "R_WAIT" => Len(order) > 0 /\ order[1] = t
  /\ XSload /\ Runs(phase_d) => Rise /\ Len(order) > 0 /\ order[1] = phase_d

(* The time since the last load of a thread is at least that of the shift. *)
Passed == IF salsa_shift THEN shift_count + 3
          ELSE IF shift_request[1] THEN 0 ELSE IF shift_request[2] THEN 1 ELSE 2
PassedInv == Pending => since = SPACING \/ since >= Passed

(* An input in salsaShiftReg is not taken for another one: no busy of an   *)
(* earlier load is on its way that would come after it is ready.           *)
FullInv ==
  Full =>
  /\ (state = "S_SHIFT_IN" /\ ~Pending) \/ (state = "S_IDLE" /\ InReady)
  /\ ~Current(Xbuf) /\ ~SMixOutRdy_state /\ ~Underway(result_seen)
  /\ ~BusyRise /\ \A t \in Thread : Slot(t) = "R_START" => XSload /\ t = phase_d
  /\ busy_seen[1] => shift_acknowledge[1]
  /\ busy_seen[2] => shift_acknowledge[1] \/ shift_acknowledge[2]
  /\ busy_seen[3] => Underway(shift_acknowledge)

(* A result in salsaShiftReg is fetched before anything else comes there.  *)
DoneInv ==
  Done => /\ Underway(result_seen) \/ (state = "S_SHIFT_OUT" /\ Pending)
          /\ ~Current(Xbuf)

(* What is in Xbuf.  An item that was checked stays there, and does no     *)
(* harm: the next input is loaded over it before anything is exchanged.    *)
XbufInv ==
  Steady =>
  /\ InXbuf => Current(Xbuf) /\ Xbuf.kind = "in"
  /\ OutXbuf /\ Current(Xbuf) => Xbuf.kind = "out"
  /\ Leftover =>
       /\ state \in {"S_IDLE", "S_HASH", "S_B6", "S_NONCE"}
       /\ ~FetchPending /\ (SMixOutRdy_state => Clr_SMixOutRdy) /\ ~Set_SMixInRdy
LeftoverInv ==
  Steady /\ Leftover /\ SMixInRdy =>
    ~reset_d /\ ~fsmreset /\ ~SomeIn("R_IDLE") /\ TakingOnce

(* Threads hash inputs, each of another nonce, and none that is older than *)
(* the threads that started after it.                                      *)
HashingInv ==
  \A t \in Thread : Current(sdata[t]) => sdata[t].kind = "in" /\ Runs(t)
Newest == IF InXbuf \/ Full THEN 1 ELSE 0
AgeInv ==
  Steady =>
  /\ \A i \in DOMAIN order :
       Current(sdata[order[i]]) => Age(sdata[order[i]].nonce) <= Len(order) - i + 1 + Newest
  /\ Full => Age(salsaShiftReg.nonce) = 1
  /\ InXbuf => Age(Xbuf.nonce) = 1
DistinctInv ==
  Steady =>
  /\ \A t, u \in Thread :
       t # u /\ Current(sdata[t]) /\ Current(sdata[u]) => sdata[t].nonce # sdata[u].nonce
  /\ \A t \in Thread : Current(sdata[t]) =>
       /\ Current(salsaShiftReg) => salsaShiftReg.nonce # sdata[t].nonce
       /\ Current(Xbuf) /\ ~Leftover => Xbuf.nonce # sdata[t].nonce

(* live are the nonces that are held.                                      *)
LiveInv ==
  /\ \A n \in live :
       \/ \E t \in Thread : Holds(n, sdata[t])
       \/ Holds(n, salsaShiftReg)
       \/ Holds(n, Xbuf) /\ ~Leftover
  /\ \A t \in Thread : Current(sdata[t]) => sdata[t].nonce \in live
  /\ Current(salsaShiftReg) => salsaShiftReg.nonce \in live
  /\ Current(Xbuf) => IF Steady /\ ~Leftover THEN Xbuf.nonce \in live ELSE Xbuf.nonce \notin live

NonceInv ==
  /\ OverlapInv /\ PairedInv /\ LoadInv
  /\ CycleInv /\ LoadsInv /\ KhashInv /\ UnsteadyInv /\ ResultInv /\ FirstInv /\ PassedInv
  /\ FullInv /\ DoneInv /\ XbufInv /\ LeftoverInv /\ HashingInv
  /\ AgeInv /\ DistinctInv /\ LiveInv

-----------------------------------------------------------------------------
(* Nonces and items.                                                       *)

LEMMA Ages ==
  ASSUME TypeInv, NEW n \in Nonces
  PROVE  Age(n) \in 1 .. NONCES /\ (Age(n) = NONCES <=> n = nonce_cnt)
<1>1. nonce_cnt \in 0 .. NONCES - 1 /\ n \in 0 .. NONCES - 1 /\ NONCES \in Nat
  BY PbkdfTypesMean, PbkdfAssumption DEF TypeInv, TypeOK, PbkdfTypes, Nonces
<1> QED
  BY <1>1 DEF Age

(* When the nonce is counted on all others grow older.                     *)
LEMMA AgesOn ==
  ASSUME TypeInv, nonce_cnt' = (nonce_cnt + 1) % NONCES, NEW n \in Nonces
  PROVE  Age(n)' = IF n = nonce_cnt THEN 1 ELSE Age(n) + 1
<1>1. nonce_cnt \in 0 .. NONCES - 1 /\ n \in 0 .. NONCES - 1 /\ NONCES \in Nat
  BY PbkdfTypesMean, PbkdfAssumption DEF TypeInv, TypeOK, PbkdfTypes, Nonces
<1>2. nonce_cnt' = IF nonce_cnt + 1 = NONCES THEN 0 ELSE nonce_cnt + 1
  <2>1. CASE nonce_cnt + 1 = NONCES
    BY <1>1, <2>1
  <2>2. CASE nonce_cnt + 1 # NONCES
    BY <1>1, <2>2
  <2> QED
    BY <2>1, <2>2
<1> QED
  BY <1>1, <1>2 DEF Age

LEMMA ItemsMean ==
  /\ \A x \in Items : x.kind = "in" \/ x.kind = "out" \/ x.kind = "junk"
  /\ \A x \in Items : x = Item(x.kind, x.work, x.nonce) /\ x.nonce \in Nonces /\ x.work \in Nat
  /\ \A k, w, n : Item(k, w, n).kind = k /\ Item(k, w, n).work = w /\ Item(k, w, n).nonce = n
BY DEF Items, Item

LEMMA JunkNotCurrent == ~Current(Junk) /\ ~Current(Junk)'
BY DEF Current, Junk, Item

(* A result is current when the input was, and has its nonce.              *)
LEMMA MixedCurrent ==
  ASSUME NEW x \in Items
  PROVE  /\ Current(Mixed(x)) <=> Current(x) /\ x.kind = "in"
         /\ Current(Mixed(x)) => Mixed(x).kind = "out"
         /\ x.kind = "in" => Mixed(x).nonce = x.nonce
         /\ Mixed(x).kind # "in"
<1>1. CASE x.kind = "in"
  <2>1. Mixed(x) = [kind |-> "out", work |-> x.work, nonce |-> x.nonce]
    BY <1>1 DEF Mixed, Items
  <2> QED
    BY <1>1, <2>1 DEF Current
<1>2. CASE x.kind # "in"
  BY <1>2, JunkNotCurrent DEF Mixed, Junk, Item
<1> QED
  BY <1>1, <1>2

(* What is paired is an item, of no later work.                            *)
LEMMA PairedItems ==
  ASSUME PairedInv
  PROVE  /\ Xbuf \in Items /\ Xbuf.work <= work /\ work \in Nat
         /\ salsaShiftReg \in Items /\ salsaShiftReg.work <= work
         /\ khash \in Items /\ khash.work <= work
         /\ DOMAIN sdata = Thread
         /\ \A t \in Thread : sdata[t] \in Items /\ sdata[t].work <= work
         /\ Current(Xbuf) => nonce_sr = Xbuf.nonce
         /\ Current(salsaShiftReg) => salsa_nonce_sr = salsaShiftReg.nonce
         /\ \A t \in Thread : Current(sdata[t]) => snonce[t] = sdata[t].nonce
BY DEF PairedInv, Matches, Current

LEMMA OrderMeans ==
  ASSUME TypeInv
  PROVE  /\ DOMAIN order = 1 .. Len(order) /\ Len(order) \in Nat /\ Len(order) <= THREADS
         /\ \A i \in DOMAIN order : order[i] \in Thread
BY LenProperties, RunningBound DEF TypeInv, RunningOnce

-----------------------------------------------------------------------------
(* An edge of pbkdf_clk, as far as nonces depend on it.                    *)

Counts ==
  /\ ~reset /\ state = "S_NONCE" /\ nonce_wait = 0 /\ state' = "S_SHIFT_IN" /\ Asks
  /\ nonce_cnt' = (nonce_cnt + 1) % NONCES
  /\ live' = IF resetcycles = RESETCYCLES THEN live \cup {nonce_cnt} ELSE live
Checks ==
  /\ ~reset /\ state = "S_R18" /\ state' = "S_IDLE" /\ Clr_SMixOutRdy' /\ ~Set_SMixInRdy'
  /\ start_output' = start_output /\ SameBits(shift_request)
  /\ nonce_cnt' = nonce_cnt
  /\ live' = IF Xbuf = Item("out", work, nonce_sr) THEN live \ {nonce_sr} ELSE live
Neither ==
  /\ reset \/ (state # "S_R18" /\ (state = "S_NONCE" => nonce_wait # 0))
  /\ nonce_cnt' = nonce_cnt /\ live' = live
NonceStep ==
  /\ IF ~reset /\ state = "S_B6"
     THEN khash' = Item("in", work, nonce_cnt) /\ Xbuf_load_request' = Toggle(Xbuf_load_request)
     ELSE khash' = khash /\ Xbuf_load_request' = Xbuf_load_request
  /\ \/ work' = work + 1 /\ live' = {} /\ resetcycles' = 0
     \/ /\ work' = work /\ resetcycles' = IF resetcycles = RESETCYCLES THEN RESETCYCLES
                                          ELSE resetcycles + 1
        /\ Counts \/ Checks \/ Neither

LEMMA NonceSteps ==
  ASSUME TypeInv, PbkdfEdge
  PROVE  NonceStep
<1>1. PICK loadnonce \in BOOLEAN : PbkdfTick(loadnonce)
  BY LoadsOrNot
<1>2. Fsm(loadnonce) /\ shift_request \in Crossing
  BY <1>1, PbkdfTypesMean DEF PbkdfTick, TypeInv, TypeOK, Crossings
<1>3. resetcycles' = IF loadnonce THEN 0
                     ELSE IF resetcycles = RESETCYCLES THEN RESETCYCLES
                     ELSE resetcycles + 1
  BY <1>1 DEF PbkdfTick, ResetControl
<1>4. RequestShift => Asks
  <2> SUFFICES ASSUME RequestShift PROVE Asks
    OBVIOUS
  <2>1. shift_request' = Toggle(shift_request)
    BY DEF RequestShift
  <2> QED
    BY <1>2, <2>1, ToggleBits DEF Asks
<1>5. LoadNonce(loadnonce) =>
        \/ work' = work + 1 /\ live' = {} /\ resetcycles' = 0
        \/ /\ work' = work /\ resetcycles' = IF resetcycles = RESETCYCLES THEN RESETCYCLES
                                             ELSE resetcycles + 1
           /\ nonce_cnt' = nonce_cnt /\ live' = live
  BY <1>3 DEF LoadNonce
<1>6. CASE FsmReset(loadnonce)
  BY <1>5, <1>6 DEF FsmReset, NonceStep, Neither, NoLoad
<1>7. CASE FetchOutput(loadnonce)
  BY <1>5, <1>7 DEF FetchOutput, NonceStep, Neither, NoLoad
<1>8. CASE StartHash(loadnonce)
  BY <1>5, <1>8 DEF StartHash, NonceStep, Neither, NoLoad
<1>9. CASE Idle(loadnonce)
  BY <1>5, <1>9 DEF Idle, NonceStep, Neither, NoLoad
<1>10. CASE HashInput(loadnonce)
  BY <1>5, <1>10 DEF HashInput, NonceStep, Neither, NoLoad
<1>11. CASE HashOutput(loadnonce)
  BY <1>5, <1>11 DEF HashOutput, NonceStep, Neither, NoLoad
<1>12. CASE LoadXbuf(loadnonce)
  BY <1>5, <1>12 DEF LoadXbuf, NonceStep, Neither, RequestLoad
<1>13. CASE NonceWait(loadnonce)
  BY <1>5, <1>13 DEF NonceWait, NonceStep, Neither, NoLoad
<1>14. CASE NextNonce(loadnonce)
  BY <1>3, <1>4, <1>14 DEF NextNonce, NonceStep, Counts, NoLoad
<1>15. CASE ShiftIn(loadnonce)
  BY <1>5, <1>15 DEF ShiftIn, NonceStep, Neither, NoLoad
<1>16. CASE ShiftOut(loadnonce)
  BY <1>5, <1>16 DEF ShiftOut, NonceStep, Neither, NoLoad
<1>17. CASE Check(loadnonce)
  BY <1>3, <1>17 DEF Check, NonceStep, Checks, NoLoad, NoShift, SameBits, Strobes
<1> QED
  BY <1>2, <1>6, <1>7, <1>8, <1>9, <1>10, <1>11, <1>12, <1>13, <1>14, <1>15, <1>16, <1>17 DEF Fsm

(* What it does with the items: another work makes all of them old.        *)
LEMMA PbkdfData ==
  ASSUME TypeInv, PairedInv, PbkdfEdge
  PROVE  /\ Xbuf' = Xbuf /\ nonce_sr' = nonce_sr /\ salsaShiftReg' = salsaShiftReg
         /\ sdata' = sdata /\ order' = order
         /\ \/ /\ work' = work + 1 /\ live' = {} /\ resetcycles' = 0
               /\ ~Current(Xbuf)' /\ ~Current(salsaShiftReg)' /\ ~Current(khash)'
               /\ \A t \in Thread : ~Current(sdata[t])'
            \/ /\ work' = work
               /\ (Current(Xbuf)' <=> Current(Xbuf))
               /\ (Current(salsaShiftReg)' <=> Current(salsaShiftReg))
               /\ \A t \in Thread : Current(sdata[t])' <=> Current(sdata[t])
<1>1. /\ Xbuf' = Xbuf /\ nonce_sr' = nonce_sr /\ salsaShiftReg' = salsaShiftReg
      /\ sdata' = sdata /\ order' = order
  BY PbkdfMoves DEF salsaVars, shifterVars
<1>2. NonceStep
  BY NonceSteps
<1>3. CASE work' = work + 1 /\ live' = {} /\ resetcycles' = 0
  <2>1. work \in Nat /\ \A x \in Items : x.work <= work => x.work # work'
    BY <1>3, PairedItems, ItemsMean
  <2>2. khash' = khash \/ khash' = Item("in", work, nonce_cnt)
    BY <1>2 DEF NonceStep
  <2>3. khash'.work # work'
    <3>1. khash.work # work' /\ work # work'
      BY <1>3, <2>1, PairedItems
    <3> QED
      BY <2>2, <3>1, ItemsMean
  <2>4. ~Current(Xbuf)' /\ ~Current(salsaShiftReg)' /\ ~Current(khash)'
    BY <1>1, <2>1, <2>3, PairedItems DEF Current
  <2>5. \A t \in Thread : ~Current(sdata[t])'
    BY <1>1, <2>1, PairedItems DEF Current
  <2> QED
    BY <1>1, <1>3, <2>4, <2>5
<1>4. CASE work' = work
  BY <1>1, <1>4 DEF Current
<1> QED
  BY <1>2, <1>3, <1>4 DEF NonceStep

(* The reset between a load and the hashing of its work.                   *)
LEMMA PbkdfSteady ==
  ASSUME TypeInv, work \in Nat, CycleInv, PbkdfEdge
  PROVE  /\ CycleInv'
         /\ work' # work => ~Steady'
         /\ work' = work /\ Steady => Steady'
         /\ work' = work /\ ~Steady /\ Steady' => reset /\ CyclesLeft = 0
         /\ ~Steady' => reset' \/ work' # work
         /\ ~Steady /\ ~reset => resetcycles # RESETCYCLES /\ reset'
<1>1. /\ RESETCYCLES \in Nat /\ RESETCYCLES > 0 /\ resetcycles \in Nat
      /\ resetcycles <= RESETCYCLES /\ CyclesLeft = RESETCYCLES - resetcycles
  BY Numbers DEF CyclesLeft
<1>2. reset' <=> (resetcycles = 0 \/ (CyclesLeft # 0 /\ reset))
  BY PbkdfClock
<1>3. \/ work' # work /\ resetcycles' = 0
      \/ work' = work /\ resetcycles' = IF resetcycles = RESETCYCLES THEN RESETCYCLES
                                        ELSE resetcycles + 1
  <2>1. work \in Nat => work + 1 # work
    OBVIOUS
  <2> QED
    BY <2>1, NonceSteps DEF NonceStep
<1>4. CASE work' # work
  BY <1>1, <1>2, <1>3, <1>4 DEF CycleInv, Steady
<1>5. CASE work' = work
  <2>1. /\ resetcycles = RESETCYCLES => resetcycles' = RESETCYCLES
        /\ resetcycles' = RESETCYCLES => resetcycles = RESETCYCLES \/ CyclesLeft = 1
        /\ CyclesLeft = 0 <=> resetcycles = RESETCYCLES
        /\ RESETCYCLES # 0
    BY <1>1, <1>3, <1>5
  <2> QED
    BY <1>2, <1>5, <2>1 DEF CycleInv, Steady
<1> QED
  BY <1>4, <1>5

(* The parts of the invariant at an edge of pbkdf_clk.                     *)
LEMMA PbkdfLoadsEnd ==
  ASSUME TypeInv, TypeInv', InTime, PbkdfEdge, LoadInv, LoadsInv
  PROVE  LoadsInv'
<1>1. NonceStep /\ FsmStep /\ skew <= 0 /\ Xbuf_load_request \in Crossing
  BY NonceSteps, FsmSteps, PbkdfTypesMean DEF PbkdfEdge, TypeInv, TypeOK, Crossings
<1>2. CASE reset /\ ~reset'
  <2>1. CyclesLeft = 0
    BY <1>2, PbkdfClock, Numbers DEF CyclesLeft
  <2>2. ~Clears(5) /\ ~Clears(4) /\ ~Clears(3)
    BY <2>1, ClearsNow
  <2>3. ~Underway(Xbuf_load_request) /\ Xbuf_load_request' = Xbuf_load_request
    BY <1>1, <1>2, <2>2 DEF LoadsInv, Underway, NonceStep
  <2> QED
    BY <1>2, <2>3 DEF LoadsInv, Underway
<1>3. CASE ~reset /\ ~reset'
  <2>1. CASE state = "S_NONCE"
    <3>1. nonce_wait = 0 => Xbuf_load_request = Still
      BY <1>1, <2>1, NoLoadUnderWay
    <3>2. Xbuf_load_request' = Xbuf_load_request
      BY <1>1, <2>1 DEF NonceStep
    <3>3. state' # "S_NONCE" => nonce_wait = 0
      BY <1>1, <1>3, <2>1 DEF FsmStep
    <3> QED
      BY <1>3, <3>1, <3>2, <3>3 DEF LoadsInv, Underway, Still
  <2>2. CASE state = "S_B6"
    BY <1>1, <1>3, <2>2 DEF FsmStep, LoadsInv
  <2>3. CASE state # "S_B6" /\ state # "S_NONCE"
    BY <1>1, <1>3, <2>3 DEF NonceStep, LoadsInv, Underway
  <2> QED
    BY <2>1, <2>2, <2>3
<1>4. CASE reset'
  <2>1. \A n \in 1 .. 5 : (reset => Clears(n)) => Clears(n)'
    BY <1>4, PbkdfClears
  <2>2. CASE reset
    <3>1. Xbuf_load_request' = Xbuf_load_request
      BY <1>1, <2>2 DEF NonceStep
    <3> QED
      BY <1>4, <2>1, <2>2, <3>1 DEF LoadsInv
  <2>3. CASE ~reset
    BY <1>4, <2>1, <2>3 DEF LoadsInv
  <2> QED
    BY <2>2, <2>3
<1> QED
  BY <1>2, <1>3, <1>4

LEMMA PbkdfRunning ==
  ASSUME TypeInv, PbkdfEdge, ShiftInv, ResultInv, FirstInv, PassedInv
  PROVE  ResultInv' /\ FirstInv' /\ PassedInv'
<1>1. FsmStep /\ UNCHANGED salsaVars /\ UNCHANGED shifterVars
  BY FsmSteps, PbkdfMoves
<1>2. /\ XSload' = XSload /\ fsmreset' = fsmreset /\ phase_d' = phase_d /\ (Rise' <=> Rise)
      /\ \A t \in Thread : Slot(t)' = Slot(t)
      /\ SomeIn("R_START")' <=> SomeIn("R_START")
  BY PbkdfKeeps DEF ThreadState
<1>3. result' = result /\ order' = order /\ since' = since /\ (Runs(phase_d)' <=> Runs(phase_d))
  BY <1>1 DEF salsaVars, Runs
<1>4. ResultInv'
  BY <1>2, <1>3 DEF ResultInv
<1>5. FirstInv'
  BY <1>2, <1>3 DEF FirstInv
<1>6. PassedInv'
  <2>1. salsa_shift' = salsa_shift /\ shift_count' = shift_count /\ since \in Nat
    BY PbkdfKeeps, Numbers
  <2>2. CASE SameBits(shift_request)
    <3>1. Passed' = Passed /\ (Pending' <=> Pending)
      BY <2>1, <2>2 DEF SameBits, Passed, Pending, Underway
    <3> QED
      BY <1>3, <3>1 DEF PassedInv
  <2>3. CASE Asks /\ ~Pending
    <3>1. Passed' = 0
      BY <2>1, <2>3 DEF Asks, Passed, Pending, Underway
    <3> QED
      BY <1>3, <2>1, <3>1 DEF PassedInv
  <2>4. SameBits(shift_request) \/ (Asks /\ ~Pending)
    BY <1>1 DEF FsmStep, ShiftInv, Shifting
  <2> QED
    BY <2>2, <2>3, <2>4
<1> QED
  BY <1>4, <1>5, <1>6

LEMMA PbkdfKhash ==
  ASSUME TypeInv, PairedInv, PbkdfEdge, CycleInv, LoadsInv, KhashInv
  PROVE  KhashInv'
<1> SUFFICES ASSUME Steady', state' = "S_NONCE"
             PROVE  /\ khash' = Item("in", work', nonce_cnt')
                    /\ Xbuf' = khash' \/ Underway(Xbuf_load_request)'
  BY DEF KhashInv
<1>1. NonceStep /\ FsmStep /\ Xbuf_load_request \in Crossing /\ Xbuf' = Xbuf
  BY NonceSteps, FsmSteps, PbkdfData, PbkdfTypesMean DEF TypeInv, TypeOK, Crossings
<1>2. work' = work /\ Steady /\ ~reset
  BY <1>1, PbkdfSteady, PairedItems DEF FsmStep, Steady
<1>3. nonce_cnt' = nonce_cnt
  BY <1>1, <1>2, PbkdfSteady, PairedItems DEF NonceStep, Counts, Checks, Neither, Steady
<1>4. CASE state = "S_B6"
  <2>1. khash' = Item("in", work, nonce_cnt) /\ Xbuf_load_request' = Toggle(Xbuf_load_request)
    BY <1>1, <1>2, <1>4 DEF NonceStep
  <2>2. Xbuf_load_request'[1]
    BY <1>1, <1>2, <1>4, <2>1, ToggleBits DEF LoadsInv, Underway
  <2> QED
    BY <1>2, <1>3, <2>1, <2>2 DEF Underway
<1>5. CASE state = "S_NONCE"
  BY <1>1, <1>2, <1>3, <1>5 DEF NonceStep, KhashInv, Underway
<1> QED
  BY <1>1, <1>2, <1>4, <1>5 DEF FsmStep

LEMMA PbkdfUnsteady ==
  ASSUME TypeInv, PairedInv, PbkdfEdge, ShiftInv, CycleInv, UnsteadyInv
  PROVE  UnsteadyInv'
<1>1. NonceStep /\ FsmStep
  BY NonceSteps, FsmSteps
<1>2. reset_d' = reset_d /\ fsmreset' = fsmreset /\ salsa_shift' = salsa_shift
  BY PbkdfKeeps
<1>3. CASE work' # work
  BY <1>3, PbkdfData DEF UnsteadyInv
<1>4. CASE work' = work
  <2>1. /\ Current(Xbuf)' <=> Current(Xbuf)
        /\ Current(salsaShiftReg)' <=> Current(salsaShiftReg)
        /\ \A t \in Thread : Current(sdata[t])' <=> Current(sdata[t])
    <3>1. work + 1 # work
      BY PairedItems
    <3> QED
      BY <1>4, <3>1, PbkdfData
  <2>2. Current(salsaShiftReg)' \/ (\E t \in Thread : Current(sdata[t])') => ~reset_d' /\ ~fsmreset'
    BY <1>2, <2>1 DEF UnsteadyInv
  <2>3. ASSUME ~Steady'
        PROVE  /\ live' = {} /\ ~Current(salsaShiftReg)'
               /\ \A t \in Thread : ~Current(sdata[t])'
               /\ Current(Xbuf)' => Current(khash)'
               /\ Current(khash)' => reset' /\ ~Pending'
    <3>1. ~Steady /\ reset'
      BY <1>4, <2>3, PbkdfSteady, PairedItems
    <3>2. live' = {}
      BY <1>1, <3>1, PbkdfSteady, PairedItems
        DEF NonceStep, Counts, Checks, Neither, UnsteadyInv
    <3>3. CASE reset
      <4>1. khash' = khash /\ SameBits(shift_request)
        BY <1>1, <3>3 DEF NonceStep, FsmStep
      <4>2. (Current(khash)' <=> Current(khash)) /\ (Pending' <=> Pending)
        BY <1>2, <1>4, <4>1 DEF Current, Pending, Underway, SameBits
      <4> QED
        BY <2>1, <3>1, <3>2, <4>2 DEF UnsteadyInv
    <3>4. CASE ~reset
      <4>1. ~Current(khash) /\ ~Current(Xbuf)
        BY <3>1, <3>4 DEF UnsteadyInv
      <4>2. CASE state = "S_B6"
        <5>1. SameBits(shift_request) /\ ~Pending
          BY <1>1, <3>4, <4>2 DEF FsmStep, ShiftInv, Shifting
        <5> QED
          BY <1>2, <2>1, <3>1, <3>2, <4>1, <5>1 DEF UnsteadyInv, Pending, Underway, SameBits
      <4>3. CASE state # "S_B6"
        BY <1>1, <1>4, <2>1, <3>1, <3>2, <4>1, <4>3 DEF UnsteadyInv, NonceStep, Current
      <4> QED
        BY <4>2, <4>3
    <3> QED
      BY <3>3, <3>4
  <2> QED
    BY <2>2, <2>3 DEF UnsteadyInv
<1> QED
  BY <1>3, <1>4

(* Of a work that is not hashed yet there is nothing to lose.              *)
RestInv ==
  /\ FullInv /\ DoneInv /\ XbufInv /\ LeftoverInv /\ HashingInv
  /\ AgeInv /\ DistinctInv /\ LiveInv

LEMMA UnsteadyRest == UnsteadyInv /\ ~Steady => RestInv
<1> SUFFICES ASSUME UnsteadyInv, ~Steady PROVE RestInv
  OBVIOUS
<1>1. live = {} /\ ~Current(salsaShiftReg) /\ \A t \in Thread : ~Current(sdata[t])
  BY DEF UnsteadyInv
<1>2. FullInv /\ DoneInv /\ HashingInv
  BY <1>1 DEF FullInv, DoneInv, HashingInv, Full, Done
<1>3. LiveInv
  BY <1>1 DEF LiveInv
<1> QED
  BY <1>2, <1>3 DEF RestInv, XbufInv, LeftoverInv, AgeInv, DistinctInv

LEMMA PbkdfResetEnds ==
  ASSUME TypeInv, PairedInv, PbkdfEdge, FlushInv, CycleInv, UnsteadyInv, ~Steady, Steady'
  PROVE  RestInv'
<1>1. work' = work /\ reset /\ CyclesLeft = 0
  BY PbkdfSteady, PairedItems
<1>2. FsmStep /\ NonceStep
  BY FsmSteps, NonceSteps
<1>3. state' = "S_IDLE" /\ ~start_output' /\ NoStrobe
  BY <1>1, <1>2 DEF FsmStep
<1>4. live' = {} /\ ~Current(salsaShiftReg)' /\ \A t \in Thread : ~Current(sdata[t])'
  <2>1. work + 1 # work
    BY PairedItems
  <2>2. ~Current(salsaShiftReg)' /\ \A t \in Thread : ~Current(sdata[t])'
    BY <1>1, <2>1, PbkdfData DEF UnsteadyInv
  <2>3. live' = {}
    BY <1>1, <1>2 DEF NonceStep, Counts, Checks, Neither, UnsteadyInv
  <2> QED
    BY <2>2, <2>3
<1>5. ~InXbuf' /\ ~OutXbuf' /\ ~Full' /\ ~Done'
  BY <1>3, <1>4 DEF InXbuf, OutXbuf, Full, Done
<1>6. ~FetchPending' /\ ~SMixOutRdy_state' /\ ~SMixInRdy'
  <2>1. ~Clears(1) /\ ~result_seen[1] /\ ~result_seen[2] /\ ~Rise
    BY <1>1, ClearsNow DEF FlushInv, Flushed
  <2>2. Arrives(result_seen) /\ ~Rise'
    BY <2>1, PbkdfMoves, PbkdfKeeps
  <2>3. ~SMixOutRdy_state' /\ ~SMixInRdy_state'
    BY <1>1, PbkdfMoves
  <2> QED
    BY <1>3, <2>1, <2>2, <2>3 DEF FetchPending, Underway, Arrives, NoStrobe, SMixInRdy
<1>7. FullInv' /\ DoneInv' /\ HashingInv'
  BY <1>4, <1>5 DEF FullInv, DoneInv, HashingInv
<1>8. XbufInv' /\ LeftoverInv'
  BY <1>3, <1>5, <1>6 DEF XbufInv, LeftoverInv, NoStrobe
<1>9. AgeInv'
  <2>1. \A i \in DOMAIN order' : order'[i] \in Thread
    BY PbkdfData, OrderMeans
  <2> QED
    BY <1>4, <1>5, <2>1 DEF AgeInv
<1>10. DistinctInv'
  BY <1>4 DEF DistinctInv
<1>11. LiveInv'
  BY <1>4, <1>5 DEF LiveInv, Leftover
<1> QED
  BY <1>7, <1>8, <1>9, <1>10, <1>11 DEF RestInv

(* What the registers can hold together, and when.                         *)
LEMMA Registers ==
  ASSUME Steady, PairedInv, ShiftInv, ReadyInv, QuietInv, FetchInv, FullInv, DoneInv, XbufInv
  PROVE  /\ ~reset /\ (start_output => state = "S_IDLE")
         /\ Current(salsaShiftReg) <=> Full \/ Done
         /\ Full => ~Done
         /\ Current(salsaShiftReg) => ~Current(Xbuf)
         /\ state \in {"S_B6", "S_NONCE"} => ~Current(salsaShiftReg) /\ ~InXbuf /\ ~OutXbuf
         /\ Pending => Shifting /\ ~Full
         /\ Pending /\ Current(Xbuf) => InXbuf
         /\ Pending /\ Done => state = "S_SHIFT_OUT"
         /\ Done => ~XSload
         /\ OutXbuf => ~InXbuf /\ SMixOutRdy_state /\ ~Clr_SMixOutRdy /\ ~FetchPending
<1>1. ~reset
  BY DEF Steady
<1>2. start_output => state = "S_IDLE"
  BY <1>1 DEF ReadyInv
<1>3. (Current(salsaShiftReg) <=> Full \/ Done) /\ (Full => ~Done)
  BY PairedItems, ItemsMean DEF Full, Done, Current
<1>4. Current(salsaShiftReg) => ~Current(Xbuf)
  BY <1>3 DEF FullInv, DoneInv
<1>5. Underway(result_seen) => ~Input /\ state # "S_SHIFT_IN" /\ ~XSload
  BY <1>1 DEF FetchInv, OutputBusy, FetchPending, Underway
<1>6. Pending => Shifting /\ ~Full
  BY <1>1 DEF ShiftInv, FullInv, Shifting
<1>7. state \in {"S_B6", "S_NONCE"} => ~Current(salsaShiftReg) /\ ~InXbuf /\ ~OutXbuf
  BY <1>2, <1>3, <1>5 DEF Input, FullInv, DoneInv, InXbuf, OutXbuf
<1>8. Pending /\ Current(Xbuf) => InXbuf
  BY <1>2, <1>6 DEF Shifting, XbufInv, InXbuf, OutXbuf, Leftover
<1>9. (Pending /\ Done => state = "S_SHIFT_OUT") /\ (Done => ~XSload)
  BY <1>5, <1>6 DEF DoneInv, Shifting, QuietInv
<1>10. OutXbuf => Output /\ ~InXbuf
  BY <1>2 DEF OutXbuf, InXbuf, Output
<1>11. OutXbuf => SMixOutRdy_state /\ ~Clr_SMixOutRdy /\ ~FetchPending
  BY <1>1, <1>10 DEF ReadyInv, FetchInv
<1> QED
  BY <1>1, <1>2, <1>3, <1>4, <1>6, <1>7, <1>8, <1>9, <1>10, <1>11

(* Xbuf changes its role when an input is complete and when a result has   *)
(* been checked.                                                           *)
LEMMA Roles ==
  ASSUME TypeInv, Steady, PbkdfEdge, work' = work, PairedInv, LoadInv, CycleInv, ShiftInv,
         ReadyInv, QuietInv, FetchInv, KhashInv, FullInv, DoneInv, XbufInv
  PROVE  /\ Steady' /\ ~reset /\ resetcycles = RESETCYCLES
         /\ \/ Counts /\ InXbuf' /\ ~InXbuf /\ ~OutXbuf /\ Xbuf = Item("in", work, nonce_cnt)
            \/ Checks /\ OutXbuf /\ ~InXbuf' /\ ~OutXbuf' /\ ~InXbuf
            \/ Neither /\ (InXbuf' <=> InXbuf) /\ (OutXbuf' <=> OutXbuf)
<1>1. Steady' /\ ~reset /\ resetcycles = RESETCYCLES
  BY PbkdfSteady, PairedItems DEF Steady
<1>2. FsmStep /\ (Counts \/ Checks \/ Neither) /\ salsa_shift' = salsa_shift /\ skew <= 0
  <2>1. work + 1 # work
    BY PairedItems
  <2> QED
    BY <2>1, FsmSteps, NonceSteps, PbkdfKeeps DEF NonceStep, PbkdfEdge
<1>3. start_output => state = "S_IDLE"
  BY Registers
<1>4. ASSUME Counts
      PROVE  InXbuf' /\ ~InXbuf /\ ~OutXbuf /\ Xbuf = Item("in", work, nonce_cnt)
  <2>1. Xbuf_load_request = Still
    BY <1>2, <1>4, NoLoadUnderWay DEF Counts
  <2>2. Xbuf = Item("in", work, nonce_cnt)
    BY <1>4, <2>1 DEF Counts, KhashInv, Underway, Still
  <2>3. ~Pending
    BY <1>1, <1>4 DEF Counts, ShiftInv, Shifting
  <2>4. InXbuf' /\ ~InXbuf
    BY <1>4, <2>3 DEF Counts, InXbuf, Pending, Underway, Asks
  <2> QED
    BY <1>4, <2>2, <2>4, Registers DEF Counts
<1>5. ASSUME Checks
      PROVE  OutXbuf /\ ~InXbuf' /\ ~OutXbuf' /\ ~InXbuf
  BY <1>3, <1>5 DEF Checks, InXbuf, OutXbuf
<1>6. ASSUME Neither
      PROVE  (InXbuf' <=> InXbuf) /\ (OutXbuf' <=> OutXbuf)
  <2>1. /\ Pending => ~shift_acknowledge[3]
        /\ ~Shifting => ~Pending
    BY <1>1 DEF ShiftInv, Underway
  <2>2. SameBits(shift_request) \/ (Asks /\ ~Pending)
    BY <1>1, <1>2, <2>1 DEF FsmStep, Shifting
  <2>3. /\ SameBits(shift_request) => (Pending' <=> Pending)
        /\ Asks /\ ~Pending => Pending'
    BY <1>2 DEF SameBits, Asks, Pending, Underway
  <2>4. start_output => SMixOutRdy
    BY <1>1 DEF ReadyInv, Output, SMixOutRdy
  <2>5. InXbuf' <=> InXbuf
    BY <1>1, <1>2, <1>6, <2>1, <2>3 DEF FsmStep, Neither, InXbuf
  <2>6. OutXbuf' <=> OutXbuf
    BY <1>1, <1>2, <1>3, <1>6, <2>1, <2>3, <2>4 DEF FsmStep, Neither, OutXbuf, Shifting
  <2> QED
    BY <2>5, <2>6
<1> QED
  BY <1>1, <1>2, <1>4, <1>5, <1>6

(* What is in the registers at such an edge.                               *)
LEMMA PbkdfSameData ==
  ASSUME TypeInv, PairedInv, PbkdfEdge, work' = work
  PROVE  /\ Current(Xbuf)' <=> Current(Xbuf)
         /\ Current(salsaShiftReg)' <=> Current(salsaShiftReg)
         /\ (Full' <=> Full) /\ (Done' <=> Done)
         /\ \A t \in Thread : Current(sdata[t])' <=> Current(sdata[t])
         /\ Xbuf' = Xbuf /\ nonce_sr' = nonce_sr /\ salsaShiftReg' = salsaShiftReg
         /\ sdata' = sdata /\ order' = order
<1>1. work + 1 # work
  BY PairedItems
<1> QED
  BY <1>1, PbkdfData DEF Full, Done

LEMMA PbkdfXbuf ==
  ASSUME TypeInv, Steady, PbkdfEdge, work' = work, PairedInv, LoadInv, CycleInv, ShiftInv,
         ReadyInv, QuietInv, FetchInv, KhashInv, FullInv, DoneInv, XbufInv, LeftoverInv,
         FetchInv', ExchangeInv'
  PROVE  XbufInv' /\ LeftoverInv'
<1>1. /\ Steady' /\ ~reset /\ ~reset' /\ FsmStep
      /\ Xbuf' = Xbuf /\ (Current(Xbuf)' <=> Current(Xbuf))
  BY Roles, FsmSteps, PbkdfSameData DEF Steady
<1>2. /\ Arrives(busy_seen) /\ Arrives(result_seen) /\ (Rise' <=> Rise) /\ (BusyRise' <=> BusyRise)
      /\ (SMixInRdy_state' <=> SMixInRdy) /\ (SMixOutRdy_state' <=> SMixOutRdy)
      /\ busy_flag' = busy_flag /\ reset_d' = reset_d /\ fsmreset' = fsmreset
      /\ SomeIn("R_IDLE")' <=> SomeIn("R_IDLE")
      /\ SomeIn("R_START")' <=> SomeIn("R_START")
      /\ OnlyOneIn("R_START")' <=> OnlyOneIn("R_START")
  BY <1>1, PbkdfMoves, PbkdfKeeps DEF ThreadState
<1>3. CASE Counts /\ InXbuf' /\ Xbuf = Item("in", work, nonce_cnt)
  <2>1. Current(Xbuf) /\ Xbuf.kind = "in"
    BY <1>3, ItemsMean DEF Current
  <2>2. ~OutXbuf' /\ ~Leftover'
    BY <1>1, <1>3, Roles DEF OutXbuf, InXbuf, FsmStep, Counts, Leftover
  <2> QED
    BY <1>1, <2>1, <2>2 DEF XbufInv, LeftoverInv
<1>4. CASE Checks /\ OutXbuf /\ ~InXbuf' /\ ~OutXbuf'
  <2>1. SMixOutRdy_state /\ ~Clr_SMixOutRdy /\ ~FetchPending
    BY <1>4, Registers
  <2>2. SMixOutRdy_state' /\ ~FetchPending'
    BY <1>2, <2>1 DEF SMixOutRdy, FetchPending, Underway, Arrives
  <2>3. XbufInv'
    BY <1>4, <2>2 DEF XbufInv, Checks
  <2>4. LeftoverInv'
    BY <1>1, <2>2 DEF LeftoverInv, FetchInv, ExchangeInv, OutputBusy
  <2> QED
    BY <2>3, <2>4
<1>5. CASE Neither /\ (InXbuf' <=> InXbuf) /\ (OutXbuf' <=> OutXbuf)
  <2>1. Leftover' <=> Leftover
    BY <1>1, <1>5 DEF Leftover
  <2>2. ASSUME Leftover
        PROVE  /\ state' \in {"S_IDLE", "S_HASH", "S_B6", "S_NONCE"}
               /\ ~FetchPending' /\ ~SMixOutRdy_state' /\ ~Set_SMixInRdy'
    <3>1. /\ state \in {"S_IDLE", "S_HASH", "S_B6", "S_NONCE"}
          /\ ~FetchPending /\ (SMixOutRdy_state => Clr_SMixOutRdy)
      BY <2>2 DEF XbufInv
    <3>2. ~SMixOutRdy /\ ~FetchPending'
      BY <1>2, <3>1 DEF SMixOutRdy, Set_SMixOutRdy, FetchPending, Underway, Arrived, Arrives
    <3>3. ~(state = "S_HASH" /\ mode = 1)
      BY <2>2 DEF Leftover, OutXbuf
    <3> QED
      BY <1>1, <1>2, <1>5, <3>1, <3>2, <3>3 DEF FsmStep, NoStrobe, Neither
  <2>3. XbufInv'
    BY <1>1, <1>5, <2>1, <2>2 DEF XbufInv
  <2>4. ASSUME Leftover, SMixInRdy'
        PROVE  SMixInRdy /\ (Underway(busy_seen)' <=> Underway(busy_seen))
    <3>1. SMixInRdy /\ ~Set_SMixInRdy
      BY <1>2, <2>2, <2>4 DEF SMixInRdy, XbufInv
    <3>2. ~busy_seen[3]
      BY <3>1 DEF SMixInRdy, Clr_SMixInRdy, Arrived
    <3> QED
      BY <1>2, <3>1, <3>2 DEF Underway, Arrives
  <2>5. LeftoverInv'
    <3> SUFFICES ASSUME Leftover', SMixInRdy' PROVE LeftoverInv'
      BY DEF LeftoverInv
    <3>1. SMixInRdy /\ (Underway(busy_seen)' <=> Underway(busy_seen)) /\ Leftover
      BY <2>1, <2>4
    <3> QED
      BY <1>2, <3>1 DEF LeftoverInv, TakingOnce, Taking
  <2> QED
    BY <2>3, <2>5
<1> QED
  BY <1>3, <1>4, <1>5, Roles

LEMMA PbkdfFull ==
  ASSUME TypeInv, Steady, PbkdfEdge, work' = work, PairedInv, ShiftInv, ReadyInv, QuietInv,
         FetchInv, FullInv, DoneInv, XbufInv
  PROVE  FullInv' /\ DoneInv'
<1>1. FsmStep /\ ~reset /\ salsa_shift' = salsa_shift /\ (start_output => state = "S_IDLE")
  BY FsmSteps, PbkdfKeeps, Registers
<1>2. /\ Arrives(busy_seen) /\ Arrives(result_seen) /\ Arrives(shift_acknowledge)
      /\ (Rise' <=> Rise) /\ (BusyRise' <=> BusyRise) /\ XSload' = XSload /\ phase_d' = phase_d
      /\ (SMixInRdy_state' <=> SMixInRdy) /\ (SMixOutRdy_state' <=> SMixOutRdy)
      /\ \A t \in Thread : Slot(t)' = Slot(t)
  BY <1>1, PbkdfMoves, PbkdfKeeps
<1>3. /\ (Full' <=> Full) /\ (Done' <=> Done) /\ (Current(Xbuf)' <=> Current(Xbuf))
  BY PbkdfSameData
<1>4. ASSUME Full PROVE FullInv'
  <2>1. /\ (state = "S_SHIFT_IN" /\ ~Pending) \/ (state = "S_IDLE" /\ InReady)
        /\ ~Current(Xbuf) /\ ~SMixOutRdy_state /\ ~Underway(result_seen)
    BY <1>4 DEF FullInv
  <2>2. ~SMixOutRdy /\ ~start_output
    BY <1>1, <2>1 DEF SMixOutRdy, Set_SMixOutRdy, Arrived, Underway, ReadyInv, Output
  <2>3. CASE state = "S_SHIFT_IN" /\ ~Pending
    <3>1. SameBits(shift_request)
      BY <1>1, <2>3 DEF FsmStep
    <3>2. ~Pending'
      BY <1>1, <2>3, <3>1 DEF Pending, Underway, SameBits
    <3>3. state' = "S_SHIFT_IN" \/ (state' = "S_IDLE" /\ InReady')
      BY <1>1, <2>3 DEF FsmStep, InReady
    <3> QED
      BY <1>2, <1>3, <1>4, <2>1, <2>2, <3>2, <3>3 DEF FullInv, Underway, Arrives
  <2>4. CASE state = "S_IDLE" /\ InReady
    <3>1. ~busy_seen[3]
      BY <1>1, <1>4, <2>4 DEF FullInv, ShiftInv, Shifting
    <3>2. SMixInRdy
      BY <2>4, <3>1 DEF SMixInRdy, Clr_SMixInRdy, Arrived, InReady
    <3>3. state' = "S_IDLE" /\ InReady'
      BY <1>1, <1>2, <2>2, <2>4, <3>2 DEF FsmStep, InReady
    <3> QED
      BY <1>2, <1>3, <1>4, <2>1, <2>2, <3>3 DEF FullInv, Underway, Arrives
  <2> QED
    BY <2>1, <2>3, <2>4
<1>5. ASSUME Done PROVE DoneInv'
  <2>1. ~Current(Xbuf)' /\ (Underway(result_seen) \/ (state = "S_SHIFT_OUT" /\ Pending))
    BY <1>3, <1>5 DEF DoneInv
  <2>2. CASE result_seen[1] \/ result_seen[2]
    BY <1>2, <2>1, <2>2 DEF DoneInv, Underway, Arrives
  <2>3. CASE result_seen[3]
    <3>1. ~SMixOutRdy_state /\ ~Input /\ state # "S_SHIFT_IN"
      BY <1>1, <2>3 DEF FetchInv, OutputBusy, FetchPending, Underway
    <3>2. ~Output /\ ~Clr_SMixOutRdy
      BY <1>1, <3>1 DEF ReadyInv
    <3>3. state = "S_IDLE" /\ ~start_output
      <4>1. state \in States /\ mode \in {0, 1}
        BY PbkdfTypesMean DEF TypeInv, TypeOK, PbkdfTypes
      <4> QED
        BY <3>1, <3>2, <4>1 DEF States, Input, Output
    <3>4. SMixOutRdy /\ ~Pending
      BY <1>1, <2>3, <3>1, <3>2, <3>3
        DEF SMixOutRdy, Set_SMixOutRdy, Arrived, ShiftInv, Shifting
    <3>5. state' = "S_SHIFT_OUT" /\ Asks
      BY <1>1, <3>3, <3>4 DEF FsmStep
    <3> QED
      BY <2>1, <3>4, <3>5 DEF DoneInv, Pending, Underway, Asks
  <2>4. CASE state = "S_SHIFT_OUT" /\ Pending
    <3>1. ~shift_acknowledge[3]
      BY <2>4 DEF ShiftInv, Underway
    <3>2. state' = "S_SHIFT_OUT" /\ SameBits(shift_request)
      BY <1>1, <2>4, <3>1 DEF FsmStep
    <3> QED
      BY <1>1, <2>1, <2>4, <3>2 DEF DoneInv, Pending, Underway, SameBits
  <2> QED
    BY <2>1, <2>2, <2>3, <2>4 DEF Underway
<1> QED
  BY <1>3, <1>4, <1>5 DEF FullInv, DoneInv

(* A nonce is counted on before it could be in use again.                  *)
LEMMA NotInUse ==
  ASSUME TypeInv, NoncesInTime, Steady, state = "S_NONCE", PairedInv, ShiftInv, ReadyInv, QuietInv,
         FetchInv, FullInv, DoneInv, XbufInv, HashingInv, AgeInv, LiveInv
  PROVE  /\ nonce_cnt \notin live
         /\ \A i \in DOMAIN order :
              Current(sdata[order[i]]) => Age(sdata[order[i]].nonce) <= Len(order) - i + 1
         /\ \A t \in Thread : Current(sdata[t]) => Age(sdata[t].nonce) < NONCES
<1>1. ~Current(salsaShiftReg) /\ ~InXbuf /\ ~OutXbuf
  BY Registers
<1>2. Newest = 0
  BY <1>1, Registers DEF Newest
<1>3. \A i \in DOMAIN order :
        Current(sdata[order[i]]) => Age(sdata[order[i]].nonce) <= Len(order) - i + 1
  <2> SUFFICES ASSUME NEW i \in DOMAIN order, Current(sdata[order[i]])
               PROVE  Age(sdata[order[i]].nonce) <= Len(order) - i + 1
    OBVIOUS
  <2>1. Age(sdata[order[i]].nonce) <= Len(order) - i + 1 + Newest
    BY DEF AgeInv
  <2>2. i \in Nat /\ Len(order) \in Nat
    BY OrderMeans
  <2> QED
    BY <1>2, <2>1, <2>2
<1>4. ASSUME NEW t \in Thread, Current(sdata[t])
      PROVE  sdata[t].nonce \in Nonces /\ Age(sdata[t].nonce) < NONCES
  <2>1. PICK i \in DOMAIN order : order[i] = t
    BY <1>4 DEF HashingInv, Runs
  <2>2. sdata[t].nonce \in Nonces
    BY PairedItems, ItemsMean
  <2>3. Age(sdata[t].nonce) \in Nat
    BY <2>2, Ages
  <2>4. i \in 1 .. Len(order) /\ Len(order) \in Nat /\ Len(order) <= THREADS
    BY <2>1, OrderMeans
  <2>5. Age(sdata[t].nonce) <= Len(order) - i + 1
    BY <1>3, <1>4, <2>1
  <2>6. THREADS < NONCES /\ THREADS \in Nat /\ NONCES \in Nat
    BY SalsaAssumption, PbkdfAssumption DEF NoncesInTime
  <2> QED
    BY <2>2, <2>3, <2>4, <2>5, <2>6
<1>5. nonce_cnt \notin live
  <2> SUFFICES ASSUME nonce_cnt \in live PROVE FALSE
    OBVIOUS
  <2>1. PICK t \in Thread : Holds(nonce_cnt, sdata[t])
    BY <1>1 DEF LiveInv, Holds, Leftover
  <2>2. sdata[t].nonce \in Nonces /\ Age(sdata[t].nonce) < NONCES /\ sdata[t].nonce = nonce_cnt
    BY <1>4, <2>1 DEF Holds
  <2> QED
    BY <2>2, Ages, PbkdfAssumption
<1> QED
  BY <1>3, <1>4, <1>5

LEMMA PbkdfAges ==
  ASSUME TypeInv, NoncesInTime, Steady, PbkdfEdge, work' = work, PairedInv, LoadInv, CycleInv,
         ShiftInv, ReadyInv, QuietInv, FetchInv, KhashInv, FullInv, DoneInv, XbufInv, HashingInv,
         AgeInv, DistinctInv, LiveInv
  PROVE  HashingInv' /\ AgeInv' /\ DistinctInv'
<1>1. /\ sdata' = sdata /\ order' = order /\ Xbuf' = Xbuf /\ salsaShiftReg' = salsaShiftReg
      /\ Current(Xbuf)' <=> Current(Xbuf)
      /\ Current(salsaShiftReg)' <=> Current(salsaShiftReg)
      /\ Full' <=> Full
      /\ \A t \in Thread : Current(sdata[t])' <=> Current(sdata[t])
  BY PbkdfSameData
<1>2. Steady' /\ \A i \in DOMAIN order : order[i] \in Thread
  BY Roles, OrderMeans
<1>3. HashingInv'
  BY <1>1 DEF HashingInv, Runs
<1>4. CASE Counts /\ InXbuf' /\ Xbuf = Item("in", work, nonce_cnt)
  <2>1. state = "S_NONCE" /\ nonce_cnt' = (nonce_cnt + 1) % NONCES
    BY <1>4 DEF Counts
  <2>2. ~Full' /\ Newest' = 1 /\ ~Current(salsaShiftReg)
    BY <1>1, <1>4, <2>1, Registers DEF Newest
  <2>3. \A n \in Nonces : Age(n) < NONCES => Age(n)' = Age(n) + 1 /\ n # nonce_cnt
    <3> TAKE n \in Nonces
    <3>1. Age(n)' = IF n = nonce_cnt THEN 1 ELSE Age(n) + 1
      BY <2>1, AgesOn
    <3> QED
      BY <3>1, Ages, PbkdfAssumption
  <2>4. \A t \in Thread : Current(sdata[t]) =>
          /\ Age(sdata[t].nonce)' = Age(sdata[t].nonce) + 1 /\ sdata[t].nonce # nonce_cnt
    <3> TAKE t \in Thread
    <3> HAVE Current(sdata[t])
    <3>1. Age(sdata[t].nonce) < NONCES /\ sdata[t].nonce \in Nonces
      BY <2>1, NotInUse, PairedItems, ItemsMean
    <3>2. PICK n \in Nonces : n = sdata[t].nonce
      BY <3>1
    <3>3. n = sdata'[t].nonce
      BY <1>1, <3>2
    <3>4. Age(n)' = Age(n) + 1 /\ n # nonce_cnt
      BY <2>3, <3>1, <3>2
    <3> QED
      BY <3>2, <3>3, <3>4 DEF Age
  <2>5. \A i \in DOMAIN order : Current(sdata[order[i]]) =>
          Age(sdata[order[i]].nonce)' <= Len(order) - i + 1 + 1
    <3> TAKE i \in DOMAIN order
    <3> HAVE Current(sdata[order[i]])
    <3>1. Age(sdata[order[i]].nonce) <= Len(order) - i + 1
      BY <2>1, NotInUse
    <3>2. Age(sdata[order[i]].nonce)' = Age(sdata[order[i]].nonce) + 1
      BY <1>1, <1>2, <2>4
    <3>3. i \in Nat /\ Len(order) \in Nat
      BY OrderMeans
    <3>4. Age(sdata[order[i]].nonce) \in Nat
      BY <1>2, PairedItems, ItemsMean, Ages
    <3> QED
      BY <3>1, <3>2, <3>3, <3>4
  <2>6. Age(Xbuf.nonce)' = 1 /\ Xbuf.nonce = nonce_cnt
    <3>1. Xbuf.nonce = nonce_cnt /\ nonce_cnt \in Nonces
      BY <1>4, ItemsMean, PbkdfTypesMean DEF TypeInv, TypeOK, PbkdfTypes
    <3>2. PICK n \in Nonces : n = nonce_cnt
      BY <3>1
    <3>3. Age(n)' = 1
      BY <2>1, <3>2, AgesOn
    <3> QED
      BY <1>1, <3>1, <3>2, <3>3 DEF Age
  <2>7. AgeInv'
    BY <1>1, <1>2, <2>2, <2>5, <2>6 DEF AgeInv
  <2>8. DistinctInv'
    BY <1>1, <1>2, <2>2, <2>4, <2>6 DEF DistinctInv
  <2> QED
    BY <1>3, <2>7, <2>8
<1>5. CASE (Checks \/ Neither) /\ (InXbuf' <=> InXbuf) /\ (OutXbuf' => OutXbuf)
  <2>1. nonce_cnt' = nonce_cnt
    BY <1>5 DEF Checks, Neither
  <2>2. Newest' = Newest /\ (Leftover => Leftover')
    BY <1>1, <1>5 DEF Newest, Leftover
  <2>3. \A t \in Thread : Age(sdata[t].nonce)' = Age(sdata[t].nonce)
    BY <1>1, <2>1 DEF Age
  <2>4. Age(Xbuf.nonce)' = Age(Xbuf.nonce) /\ Age(salsaShiftReg.nonce)' = Age(salsaShiftReg.nonce)
    BY <1>1, <2>1 DEF Age
  <2>5. AgeInv'
    <3>1. \A i \in DOMAIN order : Current(sdata[order[i]]) =>
            Age(sdata[order[i]].nonce)' <= Len(order) - i + 1 + Newest
      BY <1>1, <1>2, <2>3 DEF AgeInv
    <3> QED
      BY <1>1, <1>2, <1>5, <2>2, <2>4, <3>1 DEF AgeInv
  <2>6. DistinctInv'
    BY <1>1, <1>2, <2>2 DEF DistinctInv
  <2> QED
    BY <1>3, <2>5, <2>6
<1> QED
  BY <1>4, <1>5, Roles

LEMMA PbkdfLive ==
  ASSUME TypeInv, NoncesInTime, Steady, PbkdfEdge, work' = work, PairedInv, LoadInv, CycleInv,
         ShiftInv, ReadyInv, QuietInv, FetchInv, KhashInv, FullInv, DoneInv, XbufInv, HashingInv,
         AgeInv, DistinctInv, LiveInv
  PROVE  LiveInv'
<1>1. /\ sdata' = sdata /\ Xbuf' = Xbuf /\ salsaShiftReg' = salsaShiftReg
      /\ Current(Xbuf)' <=> Current(Xbuf)
      /\ Current(salsaShiftReg)' <=> Current(salsaShiftReg)
      /\ \A t \in Thread : Current(sdata[t])' <=> Current(sdata[t])
  BY PbkdfSameData
<1>2. Steady' /\ resetcycles = RESETCYCLES
  BY Roles
<1>3. CASE Counts /\ InXbuf' /\ ~InXbuf /\ ~OutXbuf /\ Xbuf = Item("in", work, nonce_cnt)
  <2>1. live' = live \cup {nonce_cnt} /\ ~Current(salsaShiftReg)
    BY <1>2, <1>3, Registers DEF Counts
  <2>2. Current(Xbuf) /\ Leftover /\ ~Leftover' /\ Xbuf.nonce = nonce_cnt
    BY <1>3, ItemsMean DEF Current, Leftover
  <2>3. \A n \in live' :
          (\E t \in Thread : Holds(n, sdata[t])') \/ (Holds(n, Xbuf)' /\ ~Leftover')
    BY <1>1, <2>1, <2>2 DEF LiveInv, Holds
  <2> QED
    BY <1>1, <1>2, <2>1, <2>2, <2>3 DEF LiveInv
<1>4. CASE Checks /\ OutXbuf /\ ~InXbuf' /\ ~OutXbuf'
  <2>1. CASE Current(Xbuf)
    <3>1. Xbuf = Item("out", work, nonce_sr) /\ nonce_sr = Xbuf.nonce
      BY <1>4, <2>1, PairedItems, ItemsMean DEF XbufInv, Current
    <3>2. live' = live \ {Xbuf.nonce}
      BY <1>4, <3>1 DEF Checks
    <3>3. ~Leftover /\ Leftover' /\ ~Current(salsaShiftReg)
      BY <1>1, <1>4, <2>1, Registers DEF Leftover
    <3>4. \A n \in live' : \E t \in Thread : Holds(n, sdata[t])'
      BY <1>1, <3>2, <3>3 DEF LiveInv, Holds
    <3>5. \A t \in Thread : Current(sdata[t]) => sdata[t].nonce \in live'
      BY <2>1, <3>2, <3>3 DEF LiveInv, DistinctInv
    <3> QED
      BY <1>1, <1>2, <3>2, <3>3, <3>4, <3>5 DEF LiveInv
  <2>2. CASE ~Current(Xbuf)
    <3>1. live' = live
      BY <1>4, <2>2, ItemsMean DEF Checks, Current
    <3> QED
      BY <1>1, <2>2, <3>1 DEF LiveInv, Holds
  <2> QED
    BY <2>1, <2>2
<1>5. CASE Neither /\ (InXbuf' <=> InXbuf) /\ (OutXbuf' <=> OutXbuf)
  <2>1. live' = live /\ (Leftover' <=> Leftover)
    BY <1>1, <1>5 DEF Neither, Leftover
  <2>2. \A n \in live : (Holds(n, Xbuf)' <=> Holds(n, Xbuf))
          /\ (Holds(n, salsaShiftReg)' <=> Holds(n, salsaShiftReg))
          /\ \A t \in Thread : Holds(n, sdata[t])' <=> Holds(n, sdata[t])
    BY <1>1 DEF Holds
  <2> QED
    BY <1>1, <1>2, <2>1, <2>2 DEF LiveInv
<1> QED
  BY <1>3, <1>4, <1>5, Roles

LEMMA PbkdfNonces ==
  ASSUME NonceInv, OverlapInv', NoncesInTime, PbkdfEdge
  PROVE  NonceInv'
<1> USE DEF NonceInv
<1>1. TypeInv /\ TypeInv' /\ InTime /\ LoadInTime /\ FetchInv' /\ ExchangeInv'
  BY DEF OverlapInv, NoncesInTime
<1>2. PairedInv' /\ LoadInv'
  BY <1>1, PbkdfPairs, PbkdfLoads
<1>3. CycleInv' /\ LoadsInv' /\ KhashInv' /\ UnsteadyInv'
  BY <1>1, PairedItems, PbkdfSteady, PbkdfLoadsEnd, PbkdfKhash, PbkdfUnsteady DEF OverlapInv
<1>4. ResultInv' /\ FirstInv' /\ PassedInv'
  BY <1>1, PbkdfRunning DEF OverlapInv
<1>5. RestInv'
  <2>1. CASE ~Steady'
    <3>1. (UnsteadyInv /\ ~Steady => RestInv)'
      BY UnsteadyRest, PTL
    <3> QED
      BY <1>3, <2>1, <3>1
  <2>2. CASE ~Steady /\ Steady'
    BY <1>1, <2>2, PbkdfResetEnds DEF OverlapInv
  <2>3. CASE Steady /\ Steady'
    <3>1. work' = work
      BY <1>1, <2>3, PairedItems, PbkdfSteady
    <3>2. XbufInv' /\ LeftoverInv'
      BY <1>1, <2>3, <3>1, PbkdfXbuf DEF OverlapInv
    <3>3. FullInv' /\ DoneInv'
      BY <1>1, <2>3, <3>1, PbkdfFull DEF OverlapInv
    <3>4. HashingInv' /\ AgeInv' /\ DistinctInv'
      BY <1>1, <2>3, <3>1, PbkdfAges DEF OverlapInv
    <3>5. LiveInv'
      BY <1>1, <2>3, <3>1, PbkdfLive DEF OverlapInv
    <3> QED
      BY <3>2, <3>3, <3>4, <3>5 DEF RestInv
  <2> QED
    BY <2>1, <2>2, <2>3
<1> QED
  BY <1>2, <1>3, <1>4, <1>5 DEF RestInv

-----------------------------------------------------------------------------
(* An edge of hash_clk, as far as nonces depend on it.                     *)

(* The thread that completes next goes to the end.                         *)
LEMMA OthersOfFirst ==
  ASSUME RunningOnce, NEW t, Len(order) > 0, order[1] = t
  PROVE  /\ Others(t) \in Seq(Thread) /\ Len(Others(t)) = Len(order) - 1
         /\ \A i \in 1 .. Len(order) - 1 : Others(t)[i] = order[i + 1]
<1>1. order \in Seq(Thread) /\ DOMAIN order = 1 .. Len(order) /\ Len(order) \in Nat
  BY LenProperties DEF RunningOnce
<1> DEFINE k == CHOOSE k \in DOMAIN order : order[k] = t
<1> DEFINE a == SubSeq(order, 1, k - 1)
<1> DEFINE b == SubSeq(order, k + 1, Len(order))
<1>2. \E i \in DOMAIN order : order[i] = t
  BY <1>1
<1>3. k \in DOMAIN order /\ order[k] = t
  BY <1>2
<1>4. k = 1
  <2> HIDE DEF k
  <2> QED
    BY <1>1, <1>3 DEF RunningOnce
<1>5. Others(t) = a \o b
  BY <1>2 DEF Others
<1>6. a \in Seq(Thread) /\ Len(a) = 0
  <2>1. \A n \in 1 .. 0 : order[n] \in Thread
    OBVIOUS
  <2>2. /\ SubSeq(order, 1, 0) \in Seq(Thread)
        /\ Len(SubSeq(order, 1, 0)) = IF 1 <= 0 THEN 0 - 1 + 1 ELSE 0
    BY <2>1, SubSeqProperties
  <2> HIDE DEF k
  <2> QED
    BY <1>4, <2>2
<1>7. b \in Seq(Thread) /\ Len(b) = Len(order) - 1
      /\ \A n \in 1 .. Len(order) - 1 : b[n] = order[n + 1]
  <2>1. \A n \in 2 .. Len(order) : order[n] \in Thread
    BY <1>1
  <2>2. /\ SubSeq(order, 2, Len(order)) \in Seq(Thread)
        /\ Len(SubSeq(order, 2, Len(order)))
             = IF 2 <= Len(order) THEN Len(order) - 2 + 1 ELSE 0
        /\ \A n \in 1 .. Len(order) - 2 + 1 :
             SubSeq(order, 2, Len(order))[n] = order[2 + n - 1]
    BY <1>1, <2>1, SubSeqProperties
  <2> HIDE DEF k
  <2> QED
    BY <1>1, <1>4, <2>2
<1> HIDE DEF a, b
<1>8. /\ a \o b \in Seq(Thread) /\ Len(a \o b) = Len(a) + Len(b)
      /\ \A n \in 1 .. Len(a) + Len(b) :
           (a \o b)[n] = IF n <= Len(a) THEN a[n] ELSE b[n - Len(a)]
  BY <1>6, <1>7, ConcatProperties
<1> HIDE DEF k
<1> QED
  BY <1>1, <1>5, <1>6, <1>7, <1>8

(* A thread that takes its input is the last of the order from then on,    *)
(* and was the first or none of it.                                        *)
LEMMA OrderTakes ==
  ASSUME TypeInv, TypeInv', HashTick, XSload, Runs(phase_d) => Len(order) > 0 /\ order[1] = phase_d
  PROVE  \E d \in {0, 1} :
           /\ Len(order') = Len(order) - d + 1 /\ order'[Len(order')] = phase_d
           /\ d = 1 => Len(order) > 0 /\ order[1] = phase_d
           /\ \A i \in 1 .. Len(order) - d : order'[i] = order[i + d]
           /\ \A i \in 1 .. Len(order) - d : order'[i] # phase_d
           /\ \A i \in DOMAIN order : order[i] = phase_d => d = 1 /\ i = 1
<1>1. RunningOnce /\ order' = Append(Others(phase_d), phase_d) /\ phase_d \in Thread
      /\ Len(order) \in Nat /\ DOMAIN order = 1 .. Len(order)
  BY OrderMeans DEF HashTick, SalsaTick, Spacing, TypeInv, RingInv
<1>2. \A o \in Seq(Thread) :
        /\ Len(Append(o, phase_d)) = Len(o) + 1
        /\ \A n \in 1 .. Len(o) : Append(o, phase_d)[n] = o[n]
        /\ Append(o, phase_d)[Len(o) + 1] = phase_d
  BY <1>1, AppendProperties
<1>3. CASE Runs(phase_d)
  <2>1. Len(order) > 0 /\ order[1] = phase_d
    BY <1>3
  <2>2. /\ Others(phase_d) \in Seq(Thread) /\ Len(Others(phase_d)) = Len(order) - 1
        /\ \A i \in 1 .. Len(order) - 1 : Others(phase_d)[i] = order[i + 1]
    BY <1>1, <2>1, OthersOfFirst
  <2>3. \A i \in DOMAIN order : order[i] = phase_d => i = 1
    BY <1>1, <2>1 DEF RunningOnce
  <2>4. \A i \in 1 .. Len(order) - 1 : order[i + 1] # phase_d
    BY <1>1, <2>3
  <2>5. Len(order') = Len(order) /\ order'[Len(order)] = phase_d
    <3>1. PICK o \in Seq(Thread) : o = Others(phase_d)
      BY <2>2
    <3>2. Len(order') = Len(o) + 1 /\ order'[Len(o) + 1] = phase_d
      BY <1>1, <1>2, <3>1
    <3>3. Len(o) = Len(order) - 1 /\ Len(order) \in Nat
      BY <1>1, <2>2, <3>1
    <3>4. Len(o) + 1 = Len(order)
      BY <3>3
    <3> QED
      BY <3>2, <3>4
  <2>6. \A i \in 1 .. Len(order) - 1 : order'[i] = order[i + 1]
    <3> TAKE i \in 1 .. Len(order) - 1
    <3>2. i \in 1 .. Len(Others(phase_d))
      BY <2>2
    <3>3. order'[i] = Others(phase_d)[i]
      BY <1>1, <1>2, <2>2, <3>2
    <3> QED
      BY <2>2, <3>3
  <2>7. /\ Len(order') = Len(order) - 1 + 1 /\ order'[Len(order')] = phase_d
        /\ \A i \in 1 .. Len(order) - 1 : order'[i] # phase_d
    BY <1>1, <2>4, <2>5, <2>6
  <2> QED
    BY <2>1, <2>3, <2>6, <2>7
<1>4. CASE ~Runs(phase_d)
  <2>1. Others(phase_d) = order /\ order \in Seq(Thread)
    BY <1>1, <1>4 DEF Others, Runs, RunningOnce
  <2>2. \A i \in DOMAIN order : order[i] # phase_d
    BY <1>4 DEF Runs
  <2>3. /\ Len(order') = Len(order) + 1 /\ order'[Len(order) + 1] = phase_d
        /\ \A i \in 1 .. Len(order) : order'[i] = order[i]
    BY <1>1, <1>2, <2>1
  <2> QED
    BY <1>1, <2>2, <2>3
<1> QED
  BY <1>3, <1>4

(* What it does with the items, when no shift is under way at a load.      *)
LEMMA HashData ==
  ASSUME TypeInv, PairedInv, QuietInv, HashTick
  PROVE  /\ Xbuf' = IF salsa_shift /\ LastShift THEN salsaShiftReg
                    ELSE IF ShiftCutShort THEN Junk
                    ELSE IF Xbuf_load_request[3] THEN khash ELSE Xbuf
         /\ salsaShiftReg' = IF salsa_shift /\ LastShift THEN Xbuf
                             ELSE IF ShiftCutShort THEN Junk
                             ELSE IF XSload THEN Mixed(sdata[phase_d]) ELSE salsaShiftReg
         /\ \A t \in Thread :
              sdata'[t] = IF t = phase_d /\ XSload THEN salsaShiftReg
                          ELSE IF t = phase_d /\ fsmreset THEN Junk ELSE sdata[t]
         /\ XSload => phase_d \in Thread /\ ~Pending /\ ~salsa_shift
         /\ ShiftCutShort => reset
         /\ Arrives(Xbuf_load_request)
         /\ work' = work /\ khash' = khash /\ nonce_cnt' = nonce_cnt /\ live' = live
         /\ (Steady' <=> Steady)
<1>1. /\ ShifterTick(salsaShiftReg, salsa_nonce_sr, busy_flag, result)
      /\ ThreadData(salsa_shift)
      /\ ShiftRegister(salsa_shift, LastShift, ShiftCutShort, Xbuf, nonce_sr)
  BY DEF HashTick, SalsaTick
<1>2. XSload => phase_d \in Thread /\ ~Pending /\ ~salsa_shift
  BY DEF TypeInv, RingInv, QuietInv, Pending
<1>3. ShiftBuffer(salsaShiftReg, salsa_nonce_sr) /\ ShiftControl /\ UNCHANGED pbkdfClkVars
  BY <1>1 DEF ShifterTick
<1>4. Xbuf' = IF salsa_shift /\ LastShift THEN salsaShiftReg
              ELSE IF ShiftCutShort THEN Junk
              ELSE IF Xbuf_load_request[3] THEN khash ELSE Xbuf
  BY <1>3 DEF ShiftBuffer, Arrived
<1>5. salsaShiftReg' = IF salsa_shift /\ LastShift THEN Xbuf
                       ELSE IF ShiftCutShort THEN Junk
                       ELSE IF XSload THEN Mixed(sdata[phase_d]) ELSE salsaShiftReg
  BY <1>1, <1>2 DEF ShiftRegister, ShiftCutShort
<1>6. \A t \in Thread :
        sdata'[t] = IF t = phase_d /\ XSload THEN salsaShiftReg
                    ELSE IF t = phase_d /\ fsmreset THEN Junk ELSE sdata[t]
  BY <1>1, <1>2, PairedItems DEF ThreadData
<1>7. ShiftCutShort => reset
  BY <1>3 DEF ShiftCutShort, ShiftControl
<1>8. Arrives(Xbuf_load_request)
  BY <1>3, ShiftBits DEF ShiftControl, Arrives
<1> QED
  BY <1>2, <1>3, <1>4, <1>5, <1>6, <1>7, <1>8 DEF pbkdfClkVars, Steady

(* The parts of the invariant at an edge of hash_clk.                      *)
LEMMA HashLoadsEnd ==
  ASSUME TypeInv, PairedInv, QuietInv, HashTick, LoadsInv
  PROVE  LoadsInv'
<1>1. Arrives(Xbuf_load_request) /\ reset' = reset /\ state' = state
  BY HashData, HashKeeps
<1>2. ASSUME reset
      PROVE  /\ Xbuf_load_request[1] => Clears(4)'
             /\ Xbuf_load_request[2] => Clears(3)'
  BY <1>2, ClearsHash DEF LoadsInv
<1> QED
  BY <1>1, <1>2 DEF LoadsInv, Underway, Arrives

LEMMA HashKhash ==
  ASSUME TypeInv, PairedInv, ShiftInv, QuietInv, HashTick, KhashInv
  PROVE  KhashInv'
<1> SUFFICES ASSUME Steady', state' = "S_NONCE"
             PROVE  /\ khash' = Item("in", work', nonce_cnt')
                    /\ Xbuf' = khash' \/ Underway(Xbuf_load_request)'
  BY DEF KhashInv
<1>1. /\ Steady /\ state = "S_NONCE" /\ Arrives(Xbuf_load_request)
      /\ work' = work /\ khash' = khash /\ nonce_cnt' = nonce_cnt
  BY HashData, HashKeeps
<1>2. ~salsa_shift /\ ~ShiftCutShort
  BY <1>1 DEF Steady, ShiftInv, Shifting, Pending, ShiftCutShort
<1>3. Xbuf' = IF Xbuf_load_request[3] THEN khash ELSE Xbuf
  BY <1>2, HashData
<1> QED
  BY <1>1, <1>3 DEF KhashInv, Underway, Arrives

LEMMA HashUnsteady ==
  ASSUME TypeInv, PairedInv, QuietInv, HashTick, UnsteadyInv
  PROVE  UnsteadyInv'
<1>1. /\ reset' = reset /\ (reset_d' <=> reset) /\ (fsmreset' <=> reset_d)
      /\ (Pending' => Pending)
  <2>1. Pending' => Pending
    BY HashMoves DEF Pending, Underway, Arrives
  <2> QED
    BY <2>1, HashMoves, HashKeeps
<1>2. /\ work' = work /\ khash' = khash /\ live' = live /\ (Steady' <=> Steady)
      /\ Current(khash)' <=> Current(khash)
  BY HashData DEF Current
<1>3. /\ Current(Xbuf)' => Current(Xbuf) \/ Current(khash) \/ (Current(salsaShiftReg) /\ Pending)
      /\ Current(salsaShiftReg)' =>
           \/ Current(salsaShiftReg)
           \/ Current(Xbuf) /\ Pending
           \/ \E t \in Thread : Current(sdata[t])
      /\ \A t \in Thread : Current(sdata[t])' =>
           Current(sdata[t]) \/ Current(salsaShiftReg)
  <2>1. ~Current(Junk)'
    BY JunkNotCurrent
  <2>2. salsa_shift => Pending
    BY DEF Pending
  <2>3. Current(Xbuf)' => Current(Xbuf) \/ Current(khash) \/ (Current(salsaShiftReg) /\ Pending)
    BY <1>2, <2>1, <2>2, HashData DEF Current
  <2>4. Current(salsaShiftReg)' =>
          \/ Current(salsaShiftReg)
          \/ Current(Xbuf) /\ Pending
          \/ XSload /\ Current(Mixed(sdata[phase_d]))
    BY <1>2, <2>1, <2>2, HashData DEF Current
  <2>5. XSload /\ Current(Mixed(sdata[phase_d])) => \E t \in Thread : Current(sdata[t])
    BY HashData, MixedCurrent, PairedItems
  <2>6. \A t \in Thread : Current(sdata[t])' => Current(sdata[t]) \/ Current(salsaShiftReg)
    <3> TAKE t \in Thread
    <3>1. sdata'[t] = salsaShiftReg \/ sdata'[t] = Junk \/ sdata'[t] = sdata[t]
      BY HashData
    <3> QED
      BY <1>2, <2>1, <3>1 DEF Current
  <2> QED
    BY <2>3, <2>4, <2>5, <2>6
<1>4. ASSUME ~Steady'
      PROVE  /\ live' = {} /\ ~Current(salsaShiftReg)'
             /\ \A t \in Thread : ~Current(sdata[t])'
             /\ Current(Xbuf)' => Current(khash)'
             /\ Current(khash)' => reset' /\ ~Pending'
  BY <1>1, <1>2, <1>3, <1>4 DEF UnsteadyInv
<1>5. ASSUME Current(salsaShiftReg)' \/ \E t \in Thread : Current(sdata[t])'
      PROVE  ~reset_d' /\ ~fsmreset'
  <2>1. Steady
    BY <1>2, <1>4, <1>5
  <2>2. Current(Xbuf) /\ Pending => ~reset_d
    BY <2>1 DEF QuietInv, Steady
  <2>3. ~reset_d
    BY <1>3, <1>5, <2>2 DEF UnsteadyInv
  <2> QED
    BY <1>1, <2>1, <2>3 DEF Steady
<1> QED
  BY <1>4, <1>5 DEF UnsteadyInv

(* A thread takes its input when it leaves idle, or with an exchange.      *)
LEMMA Exchanges ==
  ASSUME TypeInv, HashTick, SlotStep, WaitInv
  PROVE  /\ Rise' => result' /\ ~result /\ fsmstart /\ since = SPACING /\ ~XSload
         /\ XSload' => /\ ~fsmreset /\ phase \in Thread /\ mstate' = "R_START"
                       /\ \/ Slot(phase) = "R_IDLE" /\ (result' <=> result)
                          \/ result' /\ fsmstart /\ since = SPACING /\ ~XSload
         /\ mstate' = "R_START" => XSload'
<1>1. (Rise' <=> result' /\ ~result) /\ phase' \in Nat
  BY HashKeeps, SalsaAssumption DEF HashTick, SalsaTick, Rotate, TypeInv, TypeOK, SalsaTypeOK
<1>2. /\ phase \in Thread \/ (phase = THREADS /\ mstate_in = "R_IDLE")
      /\ \A t \in Thread : t = phase => Slot(t) = mstate_in
  BY SlotMoves
<1>3. mstate_in = "R_WAIT" => since = SPACING /\ ~XSload
  BY <1>2 DEF WaitInv, SomeIn
<1>4. EvenlySpaced => since = SPACING /\ ~XSload
  BY DEF EvenlySpaced
<1>5. Rise' => result' /\ ~result /\ fsmstart /\ since = SPACING /\ ~XSload
  BY <1>1, <1>3, <1>4 DEF SlotStep
<1>6. XSload' => ~fsmreset /\ mstate' = "R_START" /\ phase \in Thread
  BY <1>2 DEF SlotStep
<1>7. XSload' => \/ mstate_in = "R_IDLE" /\ (result' <=> result)
                 \/ result' /\ fsmstart /\ since = SPACING /\ ~XSload
  BY <1>3, <1>4 DEF SlotStep
<1> QED
  BY <1>2, <1>5, <1>6, <1>7 DEF SlotStep

LEMMA HashRunning ==
  ASSUME TypeInv, InTime, HashTick, SlotStep, ResetInv, ShiftInv, OrderInv, TakingInv, WaitInv,
         QuietInv, ResultInv, FirstInv, PassedInv
  PROVE  ResultInv' /\ FirstInv' /\ PassedInv'
<1>1. /\ (Rise' <=> result' /\ ~result) /\ phase_d' = phase /\ (fsmreset' <=> reset_d)
      /\ phase # phase_d
  BY HashKeeps, HashMoves, SlotMoves
<1>2. \A t \in Thread :
        /\ t # phase /\ ~fsmreset => Slot(t)' = Slot(t)
        /\ t = phase => Slot(t)' = mstate' /\ Slot(t) = mstate_in
  BY SlotMoves
<1>3. phase \in Thread \/ (phase = THREADS /\ mstate_in = "R_IDLE")
  BY SlotMoves
<1>4. ResultInv'
  <2> SUFFICES ASSUME result' PROVE SomeIn("R_START")'
    BY DEF ResultInv
  <2>1. CASE mstate' = "R_START"
    <3>1. phase \in Thread
      BY <2>1, Exchanges
    <3> QED
      BY <1>2, <2>1, <3>1 DEF SomeIn
  <2>2. CASE mstate' # "R_START"
    <3>1. result /\ ~fsmreset /\ mstate_in # "R_START"
      BY <2>2 DEF SlotStep
    <3>2. PICK t \in Thread : Slot(t) = "R_START"
      BY <3>1 DEF ResultInv, SomeIn
    <3>3. t # phase
      BY <1>2, <3>1, <3>2
    <3> QED
      BY <1>2, <3>1, <3>2, <3>3 DEF SomeIn
  <2> QED
    BY <2>1, <2>2
<1>5. FirstInv'
  <2>1. CASE fsmreset
    <3> SUFFICES ASSUME ~fsmreset' PROVE FirstInv'
      BY DEF FirstInv
    <3>1. \A t \in Thread : sstate'[t] = "R_IDLE"
      BY <2>1, HashResets
    <3>2. mstate' = "R_IDLE" /\ ~XSload'
      BY <2>1 DEF SlotStep
    <3> QED
      BY <3>1, <3>2 DEF FirstInv, Slot
  <2>2. CASE ~fsmreset
    <3>1. ~XSload => order' = order
      BY <2>2 DEF HashTick, SalsaTick, Spacing
    <3>2. ASSUME NEW t \in Thread, Slot(t)' = "R_WAIT"
          PROVE  Len(order') > 0 /\ order'[1] = t
      <4>1. CASE Slot(t) = "R_WAIT"
        <5>1. ~XSload
          BY <4>1 DEF WaitInv, SomeIn
        <5> QED
          BY <2>2, <3>1, <4>1, <5>1 DEF FirstInv
      <4>2. CASE Slot(t) # "R_WAIT"
        <5>1. t = phase /\ EvenlySpaced
          BY <1>2, <2>2, <3>2, <4>2 DEF SlotStep
        <5> QED
          BY <3>1, <5>1, SalsaAssumption DEF EvenlySpaced
      <4> QED
        BY <4>1, <4>2
    <3>3. ASSUME XSload', Runs(phase_d)'
          PROVE  Rise' /\ Len(order') > 0 /\ order'[1] = phase
      <4>1. phase \in Thread /\ Runs(phase)
        <5>1. PICK t \in Thread : t = phase
          BY <3>3, Exchanges
        <5>2. Runs(t)'
          BY <1>1, <3>3, <5>1 DEF Runs
        <5>3. Runs(t)
          BY <1>1, <5>1, <5>2, OrderMoves
        <5> QED
          BY <5>1, <5>3
      <4>2. Slot(phase) # "R_IDLE" /\ Slot(phase) = mstate_in
        BY <1>2, <2>2, <4>1 DEF OrderInv
      <4>3. result' /\ since = SPACING /\ ~XSload
        BY <3>3, <4>2, Exchanges
      <4>4. ~result
        BY <4>3, NoStartNow DEF ResultInv
      <4>5. Len(order) > 0 /\ order[1] = phase
        <5>1. mstate_in = "R_WAIT" \/ EvenlySpaced
          BY <2>2, <3>3, <4>2 DEF SlotStep
        <5> QED
          BY <2>2, <4>1, <4>2, <5>1, SalsaAssumption DEF FirstInv, EvenlySpaced
      <4> QED
        BY <1>1, <3>1, <4>3, <4>4, <4>5
    <3> QED
      BY <1>1, <3>2, <3>3 DEF FirstInv
  <2> QED
    BY <2>1, <2>2
<1>6. PassedInv'
  <2> SUFFICES ASSUME Pending' PROVE since' = SPACING \/ since' >= Passed'
    BY DEF PassedInv
  <2>1. /\ Arrives(shift_request)
        /\ salsa_shift' <=> ~LastShift /\ (shift_request[3] \/ (salsa_shift /\ ~reset))
        /\ shift_count' = IF LastShift THEN 0
                          ELSE IF salsa_shift THEN shift_count + 1
                          ELSE IF reset THEN 0
                          ELSE shift_count
    BY HashMoves
  <2>2. Pending
    BY <2>1 DEF Pending, Underway, Arrives
  <2>3. since' = IF since < SPACING THEN since + 1 ELSE since
    BY <2>2 DEF QuietInv, HashTick, SalsaTick, Spacing
  <2>4. since \in Nat /\ SPACING \in Nat /\ since <= SPACING /\ shift_count \in Nat
    BY Numbers
  <2>5. Passed' <= Passed + 1 /\ Passed \in Nat /\ Passed' \in Nat
    <3>1. CASE salsa_shift
      <4>1. ~Underway(shift_request)
        BY <3>1 DEF ShiftInv
      <4>2. ~LastShift /\ salsa_shift' /\ shift_count' = shift_count + 1
        BY <2>1, <3>1, <4>1 DEF Underway, Pending, Arrives
      <4> QED
        BY <2>4, <3>1, <4>2 DEF Passed
    <3>2. CASE ~salsa_shift
      <4>1. shift_count = 0
        BY <2>2, <3>2 DEF ShiftInv, Pending
      <4>2. salsa_shift' => shift_request[3] /\ shift_count' = 0
        BY <2>1, <3>2, <4>1
      <4>3. OneBit(shift_request)
        BY DEF ShiftInv
      <4> QED
        BY <2>1, <2>2, <3>2, <4>2, <4>3 DEF Passed, Pending, Underway, Arrives, OneBit
    <3> QED
      BY <3>1, <3>2
  <2> QED
    BY <2>2, <2>3, <2>4, <2>5 DEF PassedInv
<1> QED
  BY <1>4, <1>5, <1>6

(* What becomes of the items of the current work: the last bits of a shift *)
(* swap Xbuf and salsaShiftReg, an input is loaded into Xbuf, a thread     *)
(* exchanges its result for the next input.                                *)
Swaps == salsa_shift /\ LastShift

LEMMA HashRoles ==
  ASSUME TypeInv, InTime, Steady, HashTick, PairedInv, ShiftInv, ReadyInv, QuietInv, FetchInv,
         LoadsInv, KhashInv, FullInv, DoneInv, XbufInv
  PROVE  /\ Steady' /\ ~reset /\ work' = work /\ state' = state /\ live' = live
         /\ Swaps => /\ Pending /\ ~Pending' /\ ~XSload
                     /\ Xbuf' = salsaShiftReg /\ salsaShiftReg' = Xbuf
                     /\ ~InXbuf' /\ ~OutXbuf
                     /\ (state = "S_SHIFT_OUT" => OutXbuf')
         /\ ~Swaps => /\ (Pending' <=> Pending) /\ (InXbuf' <=> InXbuf) /\ (OutXbuf' <=> OutXbuf)
                      /\ salsaShiftReg' = IF XSload THEN Mixed(sdata[phase_d]) ELSE salsaShiftReg
                      /\ \/ Xbuf' = Xbuf
                         \/ state = "S_NONCE" /\ Xbuf' = Item("in", work, nonce_cnt)
<1>1. /\ Steady' /\ ~reset /\ work' = work /\ state' = state /\ live' = live /\ mode' = mode
      /\ (start_output' <=> start_output) /\ (start_output => state = "S_IDLE")
      /\ ~ShiftCutShort
  BY HashData, HashKeeps, Registers
<1>2. /\ Arrives(shift_request)
      /\ salsa_shift' <=> ~LastShift /\ (shift_request[3] \/ (salsa_shift /\ ~reset))
  BY HashMoves
<1>3. ASSUME Swaps
      PROVE  /\ Pending /\ ~Pending' /\ ~XSload
             /\ Xbuf' = salsaShiftReg /\ salsaShiftReg' = Xbuf
             /\ ~InXbuf' /\ ~OutXbuf
             /\ (state = "S_SHIFT_OUT" => OutXbuf')
  <2>1. Pending /\ ~Underway(shift_request) /\ salsa_shift /\ LastShift
    BY <1>3 DEF Swaps, Pending, ShiftInv
  <2>2. ~Pending'
    BY <1>2, <2>1 DEF Pending, Underway, Arrives
  <2>3. Shifting
    BY <1>1, <2>1 DEF ShiftInv
  <2>4. Xbuf' = salsaShiftReg /\ salsaShiftReg' = Xbuf /\ ~XSload
    BY <2>1, HashData
  <2> QED
    BY <1>1, <2>1, <2>2, <2>3, <2>4 DEF InXbuf, OutXbuf, Shifting
<1>4. ASSUME ~Swaps
      PROVE  /\ (Pending' <=> Pending) /\ (InXbuf' <=> InXbuf) /\ (OutXbuf' <=> OutXbuf)
             /\ salsaShiftReg' = IF XSload THEN Mixed(sdata[phase_d]) ELSE salsaShiftReg
             /\ \/ Xbuf' = Xbuf
                \/ state = "S_NONCE" /\ Xbuf' = Item("in", work, nonce_cnt)
  <2>1. LastShift => shift_count # 0
    BY SalsaAssumption, PbkdfAssumption DEF LastShift, InTime
  <2>2. ~LastShift
    BY <1>1, <1>4, <2>1 DEF ShiftInv, Swaps
  <2>3. Pending' <=> Pending
    BY <1>1, <1>2, <2>2 DEF Pending, Underway, Arrives
  <2>4. (InXbuf' <=> InXbuf) /\ (OutXbuf' <=> OutXbuf)
    BY <1>1, <2>3 DEF InXbuf, OutXbuf
  <2>5. salsaShiftReg' = IF XSload THEN Mixed(sdata[phase_d]) ELSE salsaShiftReg
    BY <1>1, <2>2, HashData
  <2>6. Xbuf' = IF Xbuf_load_request[3] THEN khash ELSE Xbuf
    BY <1>1, <2>2, HashData
  <2>7. Xbuf_load_request[3] => state = "S_NONCE" /\ khash = Item("in", work, nonce_cnt)
    BY <1>1 DEF LoadsInv, Underway, KhashInv
  <2> QED
    BY <2>3, <2>4, <2>5, <2>6, <2>7
<1> QED
  BY <1>1, <1>3, <1>4

LEMMA HashThreads ==
  ASSUME TypeInv, HashTick, PairedInv, QuietInv, UnsteadyInv, NEW t \in Thread
  PROVE  /\ t = phase_d /\ XSload => sdata'[t] = salsaShiftReg
         /\ ~(t = phase_d /\ XSload) =>
              /\ Current(sdata[t])' <=> Current(sdata[t])
              /\ Current(sdata[t]) => sdata'[t] = sdata[t]
<1>1. /\ sdata'[t] = IF t = phase_d /\ XSload THEN salsaShiftReg
                     ELSE IF t = phase_d /\ fsmreset THEN Junk ELSE sdata[t]
      /\ work' = work
  BY HashData
<1>2. Current(sdata[t]) => ~fsmreset
  BY DEF UnsteadyInv
<1> QED
  BY <1>1, <1>2, JunkNotCurrent DEF Current

LEMMA HashFull ==
  ASSUME TypeInv, NoncesInTime, Steady, HashTick, SlotStep, PairedInv, ShiftInv, ReadyInv,
         QuietInv, TakingInv, WaitInv, FetchInv, LoadsInv, KhashInv, UnsteadyInv, FirstInv,
         PassedInv, FullInv, DoneInv, XbufInv, HashingInv
  PROVE  FullInv' /\ DoneInv'
<1>1. InTime /\ THREADS <= SHIFTS + 2
  BY DEF NoncesInTime
<1>2. /\ ~reset /\ work' = work /\ state' = state
      /\ (InReady' <=> InReady) /\ (SMixOutRdy_state' <=> SMixOutRdy_state)
      /\ (BusyRise' <=> busy_flag' /\ ~busy_flag) /\ phase_d' = phase
      /\ Toggles(shift_acknowledge, LastShift)
      /\ Toggles(busy_seen, BusyRise) /\ Toggles(result_seen, Rise)
  BY <1>1, HashRoles, HashKeeps, HashMoves
<1>3. /\ \A t \in Thread : t # phase => Slot(t)' = Slot(t) \/ Slot(t)' = "R_IDLE"
      /\ \A t \in Thread : t = phase => Slot(t) = mstate_in
      /\ phase \in Thread \/ (phase = THREADS /\ mstate_in = "R_IDLE")
  BY SlotMoves
<1>4. \A t \in Thread : Slot(t)' = "R_START" /\ Slot(t) # "R_START" => XSload' /\ t = phase
  <2>1. \A t \in Thread : t = phase => Slot(t)' = mstate'
    BY SlotMoves
  <2> QED
    BY <1>3, <2>1, Exchanges
<1>5. ~SomeIn("R_START") => ~BusyRise'
  BY <1>2, <1>3 DEF SlotStep, SomeIn
<1>6. (Full' => Current(salsaShiftReg)' /\ salsaShiftReg'.kind = "in")
      /\ (Done' => Current(salsaShiftReg)' /\ salsaShiftReg'.kind = "out")
  BY DEF Full, Done
<1>7. CASE Swaps
  <2>1. /\ Pending /\ ~Pending' /\ ~XSload /\ Shifting
        /\ Xbuf' = salsaShiftReg /\ salsaShiftReg' = Xbuf
    BY <1>1, <1>7, HashRoles, Registers
  <2>2. /\ Current(salsaShiftReg)' => InXbuf /\ Current(Xbuf) /\ Xbuf.kind = "in"
        /\ Current(Xbuf)' <=> Current(salsaShiftReg)
    BY <1>2, <2>1, Registers DEF Current, XbufInv
  <2>3. ~Done'
    BY <1>6, <2>1, <2>2
  <2>4. ASSUME Full'
        PROVE  FullInv'
    <3>1. state = "S_SHIFT_IN" /\ ~Current(Xbuf)'
      BY <1>6, <2>2, <2>4, Registers DEF InXbuf
    <3>2. ~OutputBusy
      BY <1>2, <3>1 DEF FetchInv
    <3>3. ~SMixOutRdy_state' /\ ~Underway(result_seen)'
      BY <1>2, <3>2 DEF OutputBusy, FetchPending, Underway, Toggles
    <3>4. since = SPACING \/ since >= SHIFTS + 2
      <4>1. Passed = SHIFTS + 2
        BY <1>7, Numbers DEF Passed, Swaps, LastShift
      <4> QED
        BY <2>1, <4>1 DEF PassedInv
    <3>5. ~SomeIn("R_START")
      <4> SUFFICES ASSUME NEW t \in Thread, Slot(t) = "R_START" PROVE FALSE
        BY DEF SomeIn
      <4>1. since + Turn(t) <= THREADS
        BY <2>1 DEF TakingInv
      <4> QED
        BY <1>1, <3>4, <4>1, TypesDistance, LongSpacing, Numbers
    <3>6. shift_acknowledge'[1]
      BY <1>2, <1>7, <2>1 DEF Toggles, Swaps, ShiftInv, Underway
    <3>7. \A t \in Thread : Slot(t)' = "R_START" => XSload' /\ t = phase
      BY <1>4, <3>5 DEF SomeIn
    <3> QED
      BY <1>2, <1>5, <2>1, <3>1, <3>3, <3>5, <3>6, <3>7 DEF FullInv, Underway
  <2> QED
    BY <2>3, <2>4 DEF FullInv, DoneInv
<1>8. CASE ~Swaps /\ XSload
  <2>1. salsaShiftReg' = Mixed(sdata[phase_d]) /\ phase_d \in Thread
    BY <1>1, <1>8, HashRoles, HashData
  <2>2. sdata[phase_d] \in Items
    BY <2>1, PairedItems
  <2>3. ~Full' /\ (Done' => Current(sdata[phase_d]))
    BY <1>2, <2>1, <2>2, MixedCurrent DEF Full, Done, Current
  <2>4. ASSUME Done'
        PROVE  DoneInv'
    <3>1. Runs(phase_d) /\ ~fsmreset
      BY <2>1, <2>3, <2>4 DEF HashingInv, UnsteadyInv
    <3>2. Rise
      BY <1>8, <3>1 DEF FirstInv
    <3>3. Underway(result_seen)'
      BY <1>2, <3>2 DEF FetchInv, Underway, Toggles
    <3>4. ~Input /\ state # "S_SHIFT_IN" /\ FetchPending
      BY <1>2, <3>2 DEF FetchInv, OutputBusy, FetchPending
    <3>5. ~Current(Xbuf)
      BY <3>4, Registers DEF Leftover, XbufInv, InXbuf
    <3>6. Xbuf' = Xbuf
      BY <1>1, <1>8, <3>4, HashRoles DEF Input
    <3> QED
      BY <1>2, <3>3, <3>5, <3>6 DEF DoneInv, Current
  <2> QED
    BY <2>3, <2>4 DEF FullInv, DoneInv
<1>9. CASE ~Swaps /\ ~XSload
  <2>1. salsaShiftReg' = salsaShiftReg /\ (Pending' <=> Pending)
    BY <1>1, <1>9, HashRoles
  <2>2. (Full' <=> Full) /\ (Done' <=> Done)
    BY <1>2, <2>1 DEF Full, Done, Current
  <2>3. ~Rise
    BY <1>2, <1>9 DEF FetchInv
  <2>4. ASSUME Current(salsaShiftReg) PROVE ~Current(Xbuf)'
    <3>1. state # "S_NONCE" /\ ~Current(Xbuf)
      BY <2>4, Registers
    <3>2. Xbuf' = Xbuf
      BY <1>1, <1>9, <3>1, HashRoles
    <3> QED
      BY <1>2, <3>1, <3>2 DEF Current
  <2>5. ASSUME Full PROVE FullInv'
    <3>1. ~SomeIn("R_START") /\ ~BusyRise
      BY <1>9, <2>5 DEF FullInv, SomeIn
    <3>2. \A t \in Thread : Slot(t)' = "R_START" => XSload' /\ t = phase
      BY <1>4, <3>1 DEF SomeIn
    <3>3. ~LastShift
      <4>1. LastShift => shift_count # 0
        BY <1>1, PbkdfAssumption DEF LastShift, InTime
      <4> QED
        BY <1>2, <1>9, <4>1 DEF ShiftInv, Swaps
    <3>4. Current(salsaShiftReg)
      BY <2>5 DEF Full
    <3> QED
      BY <1>2, <1>5, <2>1, <2>3, <2>4, <2>5, <3>1, <3>2, <3>3, <3>4
        DEF FullInv, Underway, Toggles
  <2>6. ASSUME Done PROVE DoneInv'
    <3>1. Current(salsaShiftReg)
      BY <2>6 DEF Done
    <3> QED
      BY <1>2, <2>1, <2>3, <2>4, <2>6, <3>1 DEF DoneInv, Underway, Toggles
  <2> QED
    BY <2>2, <2>5, <2>6 DEF FullInv, DoneInv
<1> QED
  BY <1>7, <1>8, <1>9

LEMMA HashXbuf ==
  ASSUME TypeInv, InTime, Steady, HashTick, SlotStep, PairedInv, ShiftInv, NotReadyInv, ReadyInv,
         QuietInv, TakingInv, StartInv, WaitInv, FetchInv, ExchangeInv, LoadsInv, KhashInv, FullInv,
         DoneInv, XbufInv, LeftoverInv, FetchInv'
  PROVE  XbufInv' /\ LeftoverInv'
<1>1. /\ ~reset /\ work' = work /\ state' = state /\ (state = "S_NONCE" => ~InXbuf /\ ~OutXbuf)
      /\ Toggles(result_seen, Rise) /\ (reset_d' <=> reset) /\ (fsmreset' <=> reset_d)
      /\ (Clr_SMixOutRdy' <=> Clr_SMixOutRdy) /\ (Set_SMixInRdy' <=> Set_SMixInRdy)
      /\ (SMixOutRdy_state' <=> SMixOutRdy_state) /\ (SMixInRdy' <=> SMixInRdy)
      /\ reset' = reset /\ (Input' <=> Input) /\ Steady'
  BY Registers, HashRoles, HashKeeps, HashMoves
<1>2. CASE Swaps
  <2>1. /\ Pending /\ ~XSload /\ Xbuf' = salsaShiftReg /\ ~InXbuf'
        /\ (state = "S_SHIFT_OUT" => OutXbuf')
    BY <1>2, HashRoles
  <2>2. Current(Xbuf)' => Done /\ state = "S_SHIFT_OUT"
    BY <1>1, <2>1, Registers DEF Current
  <2>3. Current(Xbuf)' => OutXbuf' /\ Xbuf'.kind = "out"
    BY <2>1, <2>2 DEF Done
  <2> QED
    BY <2>1, <2>3 DEF XbufInv, LeftoverInv, Leftover
<1>3. CASE ~Swaps /\ Xbuf' = Xbuf
  <2>1. /\ (InXbuf' <=> InXbuf) /\ (OutXbuf' <=> OutXbuf)
        /\ (Current(Xbuf)' <=> Current(Xbuf)) /\ (Leftover' <=> Leftover)
    <3>1. (InXbuf' <=> InXbuf) /\ (OutXbuf' <=> OutXbuf) /\ (Current(Xbuf)' <=> Current(Xbuf))
      BY <1>1, <1>3, HashRoles DEF Current
    <3> QED
      BY <3>1 DEF Leftover
  <2>2. ASSUME Leftover, since = SPACING, ~XSload, fsmstart PROVE FALSE
    <3>1. SMixInRdy /\ ~Taking
      BY <1>1, <2>2, FetchedBefore
    <3> QED
      BY <2>2, <3>1 DEF Steady, LeftoverInv, TakingOnce
  <2>3. Leftover => ~Rise'
    BY <2>2, Exchanges
  <2>4. Leftover => ~FetchPending'
    BY <1>1, <2>3 DEF XbufInv, FetchPending, Underway, Toggles
  <2>5. XbufInv'
    BY <1>1, <1>3, <2>1, <2>4 DEF XbufInv
  <2>6. LeftoverInv'
    <3> SUFFICES ASSUME Leftover, SMixInRdy
                 PROVE  ~reset_d' /\ ~fsmreset' /\ ~SomeIn("R_IDLE")' /\ TakingOnce'
      BY <1>1, <2>1 DEF LeftoverInv
    <3>1. ~reset_d /\ ~fsmreset /\ ~SomeIn("R_IDLE") /\ TakingOnce
      BY DEF LeftoverInv
    <3>2. ~(fsmstart /\ mstate_in \in {"R_RUN", "R_WAIT"} /\ mstate' = "R_START")
      <4>1. mstate_in = "R_WAIT" => since = SPACING /\ ~XSload
        BY SlotMoves DEF WaitInv, SomeIn
      <4>2. mstate_in = "R_RUN" /\ mstate' = "R_START" => since = SPACING /\ ~XSload
        BY <3>1 DEF SlotStep, EvenlySpaced
      <4> QED
        BY <2>2, <4>1, <4>2
    <3>3. TakingOnce'
      BY <3>1, <3>2, HashTakingOnce
    <3>4. ~SomeIn("R_IDLE")'
      <4>1. \A t \in Thread : /\ t # phase => Slot(t)' = Slot(t)
                              /\ t = phase => Slot(t)' = mstate' /\ Slot(t) = mstate_in
        BY <3>1, SlotMoves
      <4>2. mstate' = "R_IDLE" => mstate_in = "R_IDLE"
        BY <3>1 DEF SlotStep
      <4> QED
        BY <3>1, <4>1, <4>2 DEF SomeIn
    <3> QED
      BY <1>1, <3>1, <3>3, <3>4
  <2> QED
    BY <2>5, <2>6
<1>4. CASE ~Swaps /\ state = "S_NONCE" /\ Xbuf' = Item("in", work, nonce_cnt)
  <2>1. ~InXbuf' /\ ~OutXbuf'
    BY <1>1, <1>4, HashRoles
  <2>2. Input /\ ~InReady
    BY <1>4 DEF Input, NotReadyInv
  <2>3. ~FetchPending' /\ ~SMixOutRdy_state'
    BY <1>1, <2>2 DEF FetchInv, OutputBusy
  <2>4. ~Set_SMixInRdy' /\ ~SMixInRdy'
    BY <1>1, <2>2 DEF InReady, SMixInRdy
  <2> QED
    BY <1>1, <1>4, <2>1, <2>3, <2>4 DEF XbufInv, LeftoverInv
<1> QED
  BY <1>2, <1>3, <1>4, HashRoles

(* Where the threads stand in the order after an edge.                     *)
LEMMA HashOrder ==
  ASSUME TypeInv, TypeInv', HashTick, ~fsmreset, FirstInv
  PROVE  /\ \A t \in Thread : Runs(t) \/ (XSload /\ t = phase_d) => Runs(t)'
         /\ ~XSload => order' = order
         /\ XSload => \A j \in DOMAIN order' :
              \/ j = Len(order') /\ order'[j] = phase_d
              \/ \E i \in DOMAIN order :
                   /\ order'[j] = order[i] /\ order[i] # phase_d
                   /\ Len(order) - i + 1 <= Len(order') - j
<1>1. ~XSload => order' = order
  BY DEF HashTick, SalsaTick, Spacing
<1>2. /\ DOMAIN order = 1 .. Len(order) /\ Len(order) \in Nat
      /\ DOMAIN order' = 1 .. Len(order') /\ Len(order') \in Nat
  <2>1. (TypeInv => DOMAIN order = 1 .. Len(order) /\ Len(order) \in Nat)'
    BY OrderMeans, PTL
  <2> QED
    BY <2>1, OrderMeans
<1>3. ASSUME XSload
      PROVE  /\ \A t \in Thread : Runs(t) \/ t = phase_d => Runs(t)'
             /\ \A j \in DOMAIN order' :
                  \/ j = Len(order') /\ order'[j] = phase_d
                  \/ \E i \in DOMAIN order :
                       /\ order'[j] = order[i] /\ order[i] # phase_d
                       /\ Len(order) - i + 1 <= Len(order') - j
  <2>1. PICK d \in {0, 1} :
          /\ Len(order') = Len(order) - d + 1 /\ order'[Len(order')] = phase_d
          /\ d = 1 => Len(order) > 0 /\ order[1] = phase_d
          /\ \A i \in 1 .. Len(order) - d : order'[i] = order[i + d]
          /\ \A i \in 1 .. Len(order) - d : order'[i] # phase_d
          /\ \A i \in DOMAIN order : order[i] = phase_d => d = 1 /\ i = 1
    BY <1>3, OrderTakes DEF FirstInv
  <2>2. \A t \in Thread : t = phase_d => Runs(t)'
    <3>1. Len(order') \in DOMAIN order'
      BY <1>2, <2>1
    <3> QED
      BY <2>1, <3>1 DEF Runs
  <2>3. ASSUME NEW t \in Thread, Runs(t), t # phase_d
        PROVE  Runs(t)'
    <3>1. PICK i \in DOMAIN order : order[i] = t
      BY <2>3 DEF Runs
    <3>2. i \in 1 .. Len(order) /\ (d = 1 => i # 1)
      BY <1>2, <2>1, <2>3, <3>1
    <3>3. i - d \in 1 .. Len(order) - d /\ i - d + d = i
      BY <1>2, <3>2
    <3>4. order'[i - d] = t /\ i - d \in DOMAIN order'
      BY <1>2, <2>1, <3>1, <3>3
    <3> QED
      BY <3>4 DEF Runs
  <2>4. ASSUME NEW j \in DOMAIN order', j # Len(order')
        PROVE  \E i \in DOMAIN order :
                 /\ order'[j] = order[i] /\ order[i] # phase_d
                 /\ Len(order) - i + 1 <= Len(order') - j
    <3>1. j \in 1 .. Len(order) - d
      BY <1>2, <2>1, <2>4
    <3>2. j + d \in DOMAIN order /\ Len(order) - (j + d) + 1 <= Len(order') - j
      BY <1>2, <2>1, <3>1
    <3> QED
      BY <2>1, <3>1, <3>2
  <2> QED
    BY <2>1, <2>2, <2>3, <2>4
<1> QED
  BY <1>1, <1>3 DEF Runs

(* An input that a thread takes is the one that was ready.                 *)
LEMMA TakesFull ==
  ASSUME Steady, PairedInv, ShiftInv, ReadyInv, QuietInv, FetchInv, FullInv, DoneInv, XbufInv,
         UnsteadyInv, XSload, Current(salsaShiftReg)
  PROVE  Full /\ ~Pending /\ ~InXbuf /\ ~fsmreset /\ ~Current(Xbuf) /\ state # "S_NONCE"
BY Registers DEF UnsteadyInv, QuietInv, InXbuf, FullInv

LEMMA HashAges ==
  ASSUME TypeInv, TypeInv', InTime, Steady, HashTick, PairedInv, ShiftInv, ReadyInv, QuietInv,
         FetchInv, LoadsInv, KhashInv, UnsteadyInv, FirstInv, FullInv, DoneInv, XbufInv,
         HashingInv, AgeInv
  PROVE  HashingInv' /\ AgeInv'
<1>1. /\ Steady' /\ ~reset /\ work' = work /\ nonce_cnt' = nonce_cnt
      /\ XSload => phase_d \in Thread
  BY HashRoles, HashData
<1>2. \A t \in Thread :
        /\ t = phase_d /\ XSload => sdata'[t] = salsaShiftReg
        /\ ~(t = phase_d /\ XSload) =>
             /\ Current(sdata[t])' <=> Current(sdata[t])
             /\ Current(sdata[t]) => sdata'[t] = sdata[t]
  BY HashThreads
<1>3. \A t \in Thread : t = phase_d /\ XSload /\ Current(sdata[t])' => Full /\ ~InXbuf /\ ~fsmreset
  BY <1>1, <1>2, TakesFull DEF Current
<1>4. ASSUME NEW t \in Thread, Current(sdata[t])'
      PROVE  ~fsmreset
  BY <1>2, <1>3, <1>4 DEF UnsteadyInv
<1>5. HashingInv'
  <2> SUFFICES ASSUME NEW t \in Thread, Current(sdata[t])'
               PROVE  sdata'[t].kind = "in" /\ Runs(t)'
    BY DEF HashingInv
  <2>1. CASE t = phase_d /\ XSload
    BY <1>2, <1>3, <1>4, <2>1, HashOrder DEF Full
  <2>2. CASE ~(t = phase_d /\ XSload)
    BY <1>2, <1>4, <2>2, HashOrder DEF HashingInv
  <2> QED
    BY <2>1, <2>2
<1>6. \A n : Age(n)' = Age(n)
  BY <1>1 DEF Age
<1>7. /\ XSload => salsaShiftReg' = Mixed(sdata[phase_d]) /\ ~InXbuf'
      /\ ~XSload => Newest <= Newest'
      /\ Full' => Age(salsaShiftReg.nonce)' = 1
      /\ InXbuf' => Age(Xbuf.nonce)' = 1
  <2>1. CASE Swaps
    <3>1. /\ ~XSload /\ Xbuf' = salsaShiftReg /\ salsaShiftReg' = Xbuf /\ ~InXbuf' /\ Pending
      BY <2>1, HashRoles
    <3>2. Full' => InXbuf
      BY <1>1, <3>1, Registers DEF Full, Current
    <3>3. ~Full /\ (InXbuf => Full')
      BY <1>1, <3>1, Registers DEF Full, Current, XbufInv
    <3>4. Full' => Age(salsaShiftReg.nonce)' = 1
      <4> HAVE Full'
      <4>1. Age(Xbuf.nonce) = 1
        BY <3>2 DEF AgeInv
      <4>2. PICK n : n = Xbuf.nonce
        OBVIOUS
      <4>3. n = salsaShiftReg'.nonce
        BY <3>1, <4>2
      <4> QED
        BY <1>1, <4>1, <4>2, <4>3 DEF Age
    <3> QED
      BY <3>1, <3>3, <3>4 DEF Newest
  <2>2. CASE ~Swaps
    <3>1. /\ InXbuf' <=> InXbuf
          /\ salsaShiftReg' = IF XSload THEN Mixed(sdata[phase_d]) ELSE salsaShiftReg
          /\ InXbuf => Xbuf' = Xbuf
      BY <2>2, HashRoles DEF InXbuf
    <3>2. XSload => ~Full' /\ ~InXbuf
      BY <1>1, <3>1, MixedCurrent, PairedItems DEF Full, QuietInv, InXbuf
    <3>3. ~XSload => (Full' <=> Full)
      BY <1>1, <3>1 DEF Full, Current
    <3>4. Full' => Age(salsaShiftReg.nonce)' = 1
      BY <1>1, <3>1, <3>2, <3>3 DEF Age, AgeInv
    <3>5. InXbuf' => Age(Xbuf.nonce)' = 1
      BY <1>1, <3>1 DEF Age, AgeInv
    <3> QED
      BY <3>1, <3>2, <3>3, <3>4, <3>5 DEF Newest
  <2> QED
    BY <2>1, <2>2
<1>8. Newest \in {0, 1} /\ Newest' \in {0, 1}
  BY DEF Newest
<1>9. /\ DOMAIN order = 1 .. Len(order) /\ Len(order) \in Nat
      /\ DOMAIN order' = 1 .. Len(order') /\ Len(order') \in Nat
      /\ \A j \in DOMAIN order' : order'[j] \in Thread
      /\ \A j \in DOMAIN order : order[j] \in Thread
  <2>1. (TypeInv => DOMAIN order = 1 .. Len(order) /\ Len(order) \in Nat)'
    BY OrderMeans, PTL
  <2>2. order' \in Seq(Thread)
    BY DEF TypeInv, RunningOnce
  <2> QED
    BY <2>1, <2>2, OrderMeans
<1>10. ASSUME NEW j \in DOMAIN order', Current(sdata[order[j]])'
       PROVE  Age(sdata[order[j]].nonce)' <= Len(order') - j + 1 + Newest'
  <2>1. PICK t \in Thread : t = order'[j]
    BY <1>9
  <2>2. PICK n : n = sdata'[t].nonce
    OBVIOUS
  <2>3. Current(sdata[t])' /\ ~fsmreset
    BY <1>4, <1>10, <2>1
  <2>4. Age(n) <= Len(order') - j + 1 + Newest'
    <3>1. CASE t = phase_d /\ XSload
      <4>1. Full /\ n = salsaShiftReg.nonce
        BY <1>2, <1>3, <2>2, <2>3, <3>1
      <4>2. Age(n) = 1
        BY <4>1 DEF AgeInv
      <4>3. j \in 1 .. Len(order')
        BY <1>9
      <4> QED
        BY <1>8, <1>9, <4>2, <4>3
    <3>2. CASE ~(t = phase_d /\ XSload)
      <4>1. Current(sdata[t]) /\ n = sdata[t].nonce
        BY <1>2, <2>2, <2>3, <3>2
      <4>2. Age(n) \in Nat
        BY <4>1, PairedItems, ItemsMean, Ages
      <4>3. CASE XSload
        <5>1. PICK i \in DOMAIN order : order[i] = t /\ Len(order) - i + 1 <= Len(order') - j
          BY <2>1, <2>3, <3>2, <4>3, HashOrder
        <5>2. Age(n) <= Len(order) - i + 1 + Newest
          BY <4>1, <5>1 DEF AgeInv
        <5>3. j \in 1 .. Len(order') /\ i \in 1 .. Len(order)
          BY <1>9
        <5> QED
          BY <1>8, <1>9, <4>2, <5>1, <5>2, <5>3
      <4>4. CASE ~XSload
        <5>1. order' = order
          BY <2>3, <4>4, HashOrder
        <5>2. Age(n) <= Len(order) - j + 1 + Newest
          BY <2>1, <4>1, <5>1 DEF AgeInv
        <5>3. j \in 1 .. Len(order)
          BY <1>9, <5>1
        <5> QED
          BY <1>7, <1>8, <1>9, <4>2, <4>4, <5>1, <5>2, <5>3
      <4> QED
        BY <4>3, <4>4
    <3> QED
      BY <3>1, <3>2
  <2> QED
    BY <1>1, <2>1, <2>2, <2>4 DEF Age
<1> QED
  BY <1>5, <1>7, <1>10 DEF AgeInv

(* Where the items of the current work come from.                          *)
LEMMA HashItems ==
  ASSUME TypeInv, InTime, Steady, HashTick, PairedInv, ShiftInv, ReadyInv, QuietInv, FetchInv,
         LoadsInv, KhashInv, UnsteadyInv, FullInv, DoneInv, XbufInv
  PROVE  /\ \A t \in Thread : Current(sdata[t])' =>
              IF t = phase_d /\ XSload
              THEN sdata'[t] = salsaShiftReg /\ Full /\ ~Current(Xbuf) /\ state # "S_NONCE"
              ELSE sdata'[t] = sdata[t] /\ Current(sdata[t])
         /\ Current(salsaShiftReg)' =>
              \/ ~XSload /\ salsaShiftReg' = Xbuf /\ Current(Xbuf) /\ ~Leftover
              \/ /\ XSload /\ phase_d \in Thread /\ Current(sdata[phase_d])
                 /\ salsaShiftReg'.nonce = sdata[phase_d].nonce
              \/ ~XSload /\ salsaShiftReg' = salsaShiftReg /\ Current(salsaShiftReg)
         /\ Current(Xbuf)' =>
              \/ ~XSload /\ Xbuf' = salsaShiftReg /\ Current(salsaShiftReg) /\ ~Leftover'
              \/ Xbuf' = Xbuf /\ Current(Xbuf) /\ (Leftover' <=> Leftover)
              \/ state = "S_NONCE" /\ Xbuf'.nonce = nonce_cnt /\ Leftover'
<1>1. /\ Steady' /\ ~reset /\ work' = work /\ state' = state
      /\ XSload => phase_d \in Thread
  BY HashRoles, HashData
<1>2. ASSUME NEW t \in Thread, Current(sdata[t])'
      PROVE  IF t = phase_d /\ XSload
             THEN sdata'[t] = salsaShiftReg /\ Full /\ ~Current(Xbuf) /\ state # "S_NONCE"
             ELSE sdata'[t] = sdata[t] /\ Current(sdata[t])
  BY <1>1, <1>2, HashThreads, TakesFull DEF Current
<1>3. ASSUME Swaps
      PROVE  /\ Current(salsaShiftReg)' =>
                  ~XSload /\ salsaShiftReg' = Xbuf /\ Current(Xbuf) /\ ~Leftover
             /\ Current(Xbuf)' =>
                  ~XSload /\ Xbuf' = salsaShiftReg /\ Current(salsaShiftReg) /\ ~Leftover'
  <2>1. /\ ~XSload /\ Xbuf' = salsaShiftReg /\ salsaShiftReg' = Xbuf /\ Pending
        /\ state = "S_SHIFT_OUT" => OutXbuf'
    BY <1>3, HashRoles
  <2>2. /\ Current(salsaShiftReg)' <=> Current(Xbuf)
        /\ Current(Xbuf)' <=> Current(salsaShiftReg)
    BY <1>1, <2>1 DEF Current
  <2>3. Current(Xbuf) => ~Leftover
    BY <2>1, Registers DEF Leftover
  <2>4. Current(salsaShiftReg) => ~Leftover'
    BY <2>1, Registers DEF Leftover
  <2> QED
    BY <2>1, <2>2, <2>3, <2>4
<1>4. ASSUME ~Swaps
      PROVE  /\ Current(salsaShiftReg)' =>
                  \/ /\ XSload /\ phase_d \in Thread /\ Current(sdata[phase_d])
                     /\ salsaShiftReg'.nonce = sdata[phase_d].nonce
                  \/ ~XSload /\ salsaShiftReg' = salsaShiftReg /\ Current(salsaShiftReg)
             /\ Current(Xbuf)' =>
                  \/ Xbuf' = Xbuf /\ Current(Xbuf) /\ (Leftover' <=> Leftover)
                  \/ state = "S_NONCE" /\ Xbuf'.nonce = nonce_cnt /\ Leftover'
  <2>1. /\ (InXbuf' <=> InXbuf) /\ (OutXbuf' <=> OutXbuf)
        /\ salsaShiftReg' = IF XSload THEN Mixed(sdata[phase_d]) ELSE salsaShiftReg
        /\ Xbuf' = Xbuf \/ (state = "S_NONCE" /\ Xbuf' = Item("in", work, nonce_cnt))
    BY <1>4, HashRoles
  <2>2. XSload /\ Current(salsaShiftReg)' =>
          /\ phase_d \in Thread /\ Current(sdata[phase_d])
          /\ salsaShiftReg'.nonce = sdata[phase_d].nonce
    <3> HAVE XSload /\ Current(salsaShiftReg)'
    <3>1. phase_d \in Thread /\ sdata[phase_d] \in Items
      BY <1>1, PairedItems
    <3>2. Current(Mixed(sdata[phase_d]))
      BY <1>1, <2>1 DEF Current
    <3> QED
      BY <2>1, <3>1, <3>2, MixedCurrent
  <2>3. ~XSload /\ Current(salsaShiftReg)' =>
          salsaShiftReg' = salsaShiftReg /\ Current(salsaShiftReg)
    BY <1>1, <2>1 DEF Current
  <2>4. Xbuf' = Xbuf /\ Current(Xbuf)' => Current(Xbuf) /\ (Leftover' <=> Leftover)
    <3> HAVE Xbuf' = Xbuf /\ Current(Xbuf)'
    <3>1. Current(Xbuf)
      BY <1>1 DEF Current
    <3> QED
      BY <2>1, <3>1 DEF Leftover
  <2>5. state = "S_NONCE" /\ Xbuf' = Item("in", work, nonce_cnt) /\ Current(Xbuf)' =>
          Xbuf'.nonce = nonce_cnt /\ Leftover'
    BY <2>1, Registers, ItemsMean DEF Leftover
  <2> QED
    BY <2>1, <2>2, <2>3, <2>4, <2>5
<1> QED
  BY <1>2, <1>3, <1>4

LEMMA HashDistinct ==
  ASSUME TypeInv, InTime, Steady, HashTick, PairedInv, ShiftInv, ReadyInv, QuietInv, FetchInv,
         LoadsInv, KhashInv, UnsteadyInv, FullInv, DoneInv, XbufInv, DistinctInv
  PROVE  DistinctInv'
<1>1. /\ \A t \in Thread : Current(sdata[t])' =>
           IF t = phase_d /\ XSload
           THEN sdata'[t] = salsaShiftReg /\ Full /\ ~Current(Xbuf) /\ state # "S_NONCE"
           ELSE sdata'[t] = sdata[t] /\ Current(sdata[t])
      /\ Current(salsaShiftReg)' =>
           \/ ~XSload /\ salsaShiftReg' = Xbuf /\ Current(Xbuf) /\ ~Leftover
           \/ /\ XSload /\ phase_d \in Thread /\ Current(sdata[phase_d])
              /\ salsaShiftReg'.nonce = sdata[phase_d].nonce
           \/ ~XSload /\ salsaShiftReg' = salsaShiftReg /\ Current(salsaShiftReg)
      /\ Current(Xbuf)' =>
           \/ ~XSload /\ Xbuf' = salsaShiftReg /\ Current(salsaShiftReg) /\ ~Leftover'
           \/ Xbuf' = Xbuf /\ Current(Xbuf) /\ (Leftover' <=> Leftover)
           \/ state = "S_NONCE" /\ Xbuf'.nonce = nonce_cnt /\ Leftover'
  BY HashItems
<1>2. Full => Current(salsaShiftReg)
  BY DEF Full
<1>3. ASSUME NEW t \in Thread, NEW u \in Thread, t # u, Current(sdata[t])', Current(sdata[u])'
      PROVE  sdata'[t].nonce # sdata'[u].nonce
  <2>1. CASE t = phase_d /\ XSload
    BY <1>1, <1>2, <1>3, <2>1 DEF DistinctInv
  <2>2. CASE u = phase_d /\ XSload
    BY <1>1, <1>2, <1>3, <2>2 DEF DistinctInv
  <2>3. CASE ~(t = phase_d /\ XSload) /\ ~(u = phase_d /\ XSload)
    BY <1>1, <1>3, <2>3 DEF DistinctInv
  <2> QED
    BY <2>1, <2>2, <2>3
<1>4. ASSUME NEW t \in Thread, Current(sdata[t])'
      PROVE  /\ Current(salsaShiftReg)' => salsaShiftReg'.nonce # sdata'[t].nonce
             /\ Current(Xbuf)' /\ ~Leftover' => Xbuf'.nonce # sdata'[t].nonce
  <2>1. CASE t = phase_d /\ XSload
    BY <1>1, <1>2, <1>4, <2>1 DEF DistinctInv
  <2>2. CASE ~(t = phase_d /\ XSload)
    BY <1>1, <1>4, <2>2 DEF DistinctInv
  <2> QED
    BY <2>1, <2>2
<1> QED
  BY <1>3, <1>4 DEF DistinctInv

LEMMA HashLive ==
  ASSUME TypeInv, NoncesInTime, Steady, HashTick, PairedInv, ShiftInv, ReadyInv, QuietInv, FetchInv,
         LoadsInv, KhashInv, UnsteadyInv, FullInv, DoneInv, XbufInv, HashingInv, AgeInv, LiveInv
  PROVE  LiveInv'
<1>1. InTime /\ Steady' /\ live' = live /\ work' = work /\ (XSload => phase_d \in Thread)
  BY HashRoles, HashData DEF NoncesInTime
<1>2. state = "S_NONCE" => nonce_cnt \notin live /\ ~InXbuf /\ ~OutXbuf
  BY NotInUse, Registers
<1>3. /\ \A t \in Thread : Current(sdata[t])' =>
           IF t = phase_d /\ XSload
           THEN sdata'[t] = salsaShiftReg /\ Full /\ ~Current(Xbuf) /\ state # "S_NONCE"
           ELSE sdata'[t] = sdata[t] /\ Current(sdata[t])
      /\ Current(salsaShiftReg)' =>
           \/ ~XSload /\ salsaShiftReg' = Xbuf /\ Current(Xbuf) /\ ~Leftover
           \/ /\ XSload /\ phase_d \in Thread /\ Current(sdata[phase_d])
              /\ salsaShiftReg'.nonce = sdata[phase_d].nonce
           \/ ~XSload /\ salsaShiftReg' = salsaShiftReg /\ Current(salsaShiftReg)
      /\ Current(Xbuf)' =>
           \/ ~XSload /\ Xbuf' = salsaShiftReg /\ Current(salsaShiftReg) /\ ~Leftover'
           \/ Xbuf' = Xbuf /\ Current(Xbuf) /\ (Leftover' <=> Leftover)
           \/ state = "S_NONCE" /\ Xbuf'.nonce = nonce_cnt /\ Leftover'
  BY <1>1, HashItems
<1>4. Full => Current(salsaShiftReg)
  BY DEF Full
<1>5. /\ \A t \in Thread : Current(sdata[t])' => sdata'[t].nonce \in live
      /\ Current(salsaShiftReg)' => salsaShiftReg'.nonce \in live
      /\ Current(Xbuf)' => IF ~Leftover' THEN Xbuf'.nonce \in live ELSE Xbuf'.nonce \notin live
  BY <1>2, <1>3, <1>4 DEF LiveInv
<1>6. ASSUME NEW n \in live
      PROVE  \/ \E t \in Thread : Holds(n, sdata[t])'
             \/ Holds(n, salsaShiftReg)'
             \/ Holds(n, Xbuf)' /\ ~Leftover'
  <2>1. CASE \E t \in Thread : Holds(n, sdata[t])
    <3>1. PICK t \in Thread : Current(sdata[t]) /\ sdata[t].nonce = n
      BY <2>1 DEF Holds
    <3>2. CASE t = phase_d /\ XSload
      <4>1. sdata[t].kind = "in" /\ sdata[t] \in Items
        BY <3>1, PairedItems DEF HashingInv
      <4>2. salsaShiftReg' = Mixed(sdata[t])
        BY <1>1, <3>2, HashRoles
      <4>3. Current(Mixed(sdata[t])) /\ Mixed(sdata[t]).nonce = n
        BY <3>1, <4>1, MixedCurrent
      <4> QED
        BY <1>1, <4>2, <4>3 DEF Holds, Current
    <3>3. CASE ~(t = phase_d /\ XSload)
      <4>1. Current(sdata[t])' /\ sdata'[t] = sdata[t]
        BY <3>1, <3>3, HashThreads
      <4> QED
        BY <3>1, <4>1 DEF Holds
    <3> QED
      BY <3>2, <3>3
  <2>2. CASE Holds(n, salsaShiftReg)
    <3>1. Current(salsaShiftReg) /\ salsaShiftReg.nonce = n
      BY <2>2 DEF Holds
    <3>2. CASE Swaps
      <4>1. /\ Xbuf' = salsaShiftReg /\ Pending
            /\ state = "S_SHIFT_OUT" => OutXbuf'
        BY <1>1, <3>2, HashRoles
      <4>2. OutXbuf'
        BY <3>1, <4>1, Registers
      <4> QED
        BY <1>1, <3>1, <4>1, <4>2 DEF Holds, Current, Leftover
    <3>3. CASE ~Swaps /\ XSload
      <4>1. sdata'[phase_d] = salsaShiftReg /\ phase_d \in Thread
        BY <1>1, <3>3, HashThreads
      <4> QED
        BY <1>1, <3>1, <4>1 DEF Holds, Current
    <3>4. CASE ~Swaps /\ ~XSload
      <4>1. salsaShiftReg' = salsaShiftReg
        BY <1>1, <3>4, HashRoles
      <4> QED
        BY <1>1, <3>1, <4>1 DEF Holds, Current
    <3> QED
      BY <3>2, <3>3, <3>4
  <2>3. CASE Holds(n, Xbuf) /\ ~Leftover
    <3>1. Current(Xbuf) /\ Xbuf.nonce = n /\ ~Leftover
      BY <2>3 DEF Holds
    <3>2. CASE Swaps
      <4>1. salsaShiftReg' = Xbuf
        BY <1>1, <3>2, HashRoles
      <4> QED
        BY <1>1, <3>1, <4>1 DEF Holds, Current
    <3>3. CASE ~Swaps
      <4>1. state # "S_NONCE"
        BY <1>2, <3>1 DEF Leftover
      <4>2. Xbuf' = Xbuf /\ (InXbuf' <=> InXbuf) /\ (OutXbuf' <=> OutXbuf)
        BY <1>1, <3>3, <4>1, HashRoles
      <4>3. Current(Xbuf)' /\ ~Leftover'
        BY <1>1, <3>1, <4>2 DEF Leftover, Current
      <4> QED
        BY <3>1, <4>2, <4>3 DEF Holds
    <3> QED
      BY <3>2, <3>3
  <2> QED
    BY <2>1, <2>2, <2>3 DEF LiveInv
<1> QED
  BY <1>1, <1>5, <1>6 DEF LiveInv

LEMMA HashNonces ==
  ASSUME NonceInv, OverlapInv', NoncesInTime, HashTick, SlotQuiet \/ Complete
  PROVE  NonceInv'
<1> USE DEF NonceInv
<1>1. TypeInv /\ TypeInv' /\ InTime /\ FetchInv'
  BY DEF OverlapInv, NoncesInTime
<1>2. SlotStep
  BY <1>1, SlotSteps
<1>3. PairedInv' /\ LoadInv'
  BY <1>1, HashPairs, HashLoads DEF OverlapInv
<1>4. CycleInv' /\ LoadsInv' /\ KhashInv' /\ UnsteadyInv'
  <2>1. CycleInv'
    BY <1>1, HashKeeps DEF CycleInv
  <2> QED
    BY <1>1, <2>1, HashLoadsEnd, HashKhash, HashUnsteady DEF OverlapInv
<1>5. ResultInv' /\ FirstInv' /\ PassedInv'
  BY <1>1, <1>2, HashRunning DEF OverlapInv
<1>6. RestInv'
  <2>1. CASE ~Steady'
    <3>1. (UnsteadyInv /\ ~Steady => RestInv)'
      BY UnsteadyRest, PTL
    <3> QED
      BY <1>4, <2>1, <3>1
  <2>2. CASE Steady'
    <3>1. Steady
      BY <1>1, <2>2, HashData DEF OverlapInv
    <3>2. XbufInv' /\ LeftoverInv'
      BY <1>1, <1>2, <3>1, HashXbuf DEF OverlapInv
    <3>3. FullInv' /\ DoneInv'
      BY <1>1, <1>2, <3>1, HashFull DEF OverlapInv
    <3>4. HashingInv' /\ AgeInv'
      BY <1>1, <3>1, HashAges DEF OverlapInv
    <3>5. DistinctInv'
      BY <1>1, <3>1, HashDistinct DEF OverlapInv
    <3>6. LiveInv'
      BY <1>1, <3>1, HashLive DEF OverlapInv
    <3> QED
      BY <3>2, <3>3, <3>4, <3>5, <3>6 DEF RestInv
  <2> QED
    BY <2>1, <2>2
<1> QED
  BY <1>3, <1>4, <1>5, <1>6 DEF RestInv

-----------------------------------------------------------------------------
(* The two properties.                                                     *)

LEMMA NonceInit == Init => NonceInv
<1> SUFFICES ASSUME Init PROVE NonceInv
  OBVIOUS
<1>1. OverlapInv /\ PairedInv /\ LoadInv
  BY OverlapInit, PairedInit
<1>2. /\ ~reset /\ resetcycles = 0 /\ live = {} /\ khash = Junk /\ Xbuf = Junk
      /\ salsaShiftReg = Junk /\ sdata = [t \in Thread |-> Junk]
      /\ ~XSload /\ ~result /\ mstate = "R_IDLE" /\ sstate = [t \in Thread |-> "R_IDLE"]
      /\ ~salsa_shift /\ shift_request = Still /\ Xbuf_load_request = Still
  BY Zenon DEF Init, PbkdfInit, SalsaInit
<1>3. ~Steady
  BY <1>2, PbkdfAssumption DEF Steady
<1>4. CycleInv /\ LoadsInv /\ KhashInv
  BY <1>2, <1>3 DEF CycleInv, LoadsInv, KhashInv, Underway, Still
<1>5. UnsteadyInv
  BY <1>2, JunkNotCurrent DEF UnsteadyInv
<1>6. ResultInv /\ FirstInv /\ PassedInv
  <2>1. \A t \in Thread : Slot(t) = "R_IDLE"
    BY <1>2 DEF Slot
  <2> QED
    BY <1>2, <2>1 DEF ResultInv, FirstInv, PassedInv, Pending, Underway, Still
<1> QED
  BY <1>1, <1>3, <1>4, <1>5, <1>6, UnsteadyRest DEF NonceInv, RestInv

LEMMA NonceStutters ==
  ASSUME NonceInv, OverlapInv', UNCHANGED vars
  PROVE  NonceInv'
<1>1. UNCHANGED pbkdfVars /\ UNCHANGED salsaVars /\ UNCHANGED clockVars
  BY DEF vars
<1>2. UNCHANGED pbkdfClkVars /\ UNCHANGED shifterVars /\ UNCHANGED crossVars
  BY <1>1 DEF pbkdfVars
<1> USE <1>1, <1>2 DEF pbkdfClkVars, shifterVars, crossVars, salsaVars, clockVars
<1>3. PairedInv' /\ LoadInv'
  BY DEF NonceInv, PairedInv, LoadInv, Matches
<1>4. CycleInv' /\ LoadsInv' /\ KhashInv'
  BY DEF NonceInv, CycleInv, LoadsInv, KhashInv, Clears, Within, CyclesLeft, Steady, Underway
<1>5. UnsteadyInv'
  BY DEF NonceInv, UnsteadyInv, Steady, Current, Pending, Underway
<1>6. ResultInv' /\ FirstInv' /\ PassedInv'
  BY DEF NonceInv, ResultInv, FirstInv, PassedInv, Passed, SomeIn, Slot, Runs,
         Rise, Pending, Underway
<1>7. (Steady' <=> Steady) /\ (Full' <=> Full) /\ (Done' <=> Done) /\ (Leftover' <=> Leftover)
      /\ (InXbuf' <=> InXbuf) /\ (OutXbuf' <=> OutXbuf) /\ (Pending' <=> Pending)
      /\ (Current(Xbuf)' <=> Current(Xbuf)) /\ (Current(salsaShiftReg)' <=> Current(salsaShiftReg))
      /\ \A t \in Thread : Current(sdata[t])' <=> Current(sdata[t])
  BY DEF Steady, Full, Done, Leftover, InXbuf, OutXbuf, Current, Pending, Underway
<1>8. FullInv' /\ DoneInv'
  BY <1>7 DEF NonceInv, FullInv, DoneInv, InReady, BusyRise, Slot, Underway
<1>9. XbufInv' /\ LeftoverInv'
  BY <1>7 DEF NonceInv, XbufInv, LeftoverInv, FetchPending, Rise, Underway,
         SMixInRdy, Clr_SMixInRdy, Arrived, SomeIn, Slot, TakingOnce, Taking, BusyRise, OnlyOneIn
<1>10. HashingInv' /\ AgeInv' /\ DistinctInv' /\ LiveInv'
  BY DEF NonceInv, HashingInv, AgeInv, DistinctInv, LiveInv, Runs, Age, Newest, Holds,
         Steady, Full, Leftover, InXbuf, OutXbuf, Current, Pending, Underway
<1> QED
  BY <1>3, <1>4, <1>5, <1>6, <1>8, <1>9, <1>10 DEF NonceInv

LEMMA NoncesKept ==
  ASSUME NoncesInTime, NonceInv, [Next]_vars
  PROVE  NonceInv'
<1>1. OverlapInv /\ InTime
  BY DEF NonceInv, NoncesInTime
<1>2. TypeInv'
  BY <1>1, TypeStep DEF OverlapInv
<1>3. OverlapInv'
  BY <1>1, <1>2, PbkdfOverlap, HashOverlap, OverlapStutters DEF Next, HashEdge, HashEdgeComplete
<1> QED
  BY <1>3, PbkdfNonces, HashNonces, NonceStutters DEF Next, HashEdge, HashEdgeComplete

(* Where a nonce is.                                                       *)
LEMMA PlacesAre ==
  ASSUME PairedInv, NEW n
  PROVE  Places(n) = {t \in Thread : Holds(n, sdata[t])}
                       \cup (IF Holds(n, Xbuf) THEN {THREADS} ELSE {})
                       \cup (IF Holds(n, salsaShiftReg) THEN {THREADS + 1} ELSE {})
<1>1. \A x \in Items : x.kind \in {"in", "out"} <=> x.kind # "junk"
  BY ItemsMean
<1>2. HasNonce(n, Xbuf, nonce_sr) <=> Holds(n, Xbuf)
  BY <1>1, PairedItems DEF HasNonce, Holds, Current
<1>3. HasNonce(n, salsaShiftReg, salsa_nonce_sr) <=> Holds(n, salsaShiftReg)
  BY <1>1, PairedItems DEF HasNonce, Holds, Current
<1>4. \A t \in Thread : HasNonce(n, sdata[t], snonce[t]) <=> Holds(n, sdata[t])
  BY <1>1, PairedItems DEF HasNonce, Holds, Current
<1> QED
  BY <1>2, <1>3, <1>4, Zenon DEF Places

LEMMA OnePlace == NonceInv => NoneLost
<1> SUFFICES ASSUME NonceInv, NEW n \in live PROVE \E p \in Places(n) : Places(n) = {p}
  BY DEF NoneLost
<1>1. /\ Steady /\ PairedInv /\ OverlapInv /\ FullInv /\ DoneInv /\ XbufInv
      /\ DistinctInv /\ LiveInv
  BY DEF NonceInv, UnsteadyInv
<1>2. Places(n) = {t \in Thread : Holds(n, sdata[t])}
                    \cup (IF Holds(n, Xbuf) THEN {THREADS} ELSE {})
                    \cup (IF Holds(n, salsaShiftReg) THEN {THREADS + 1} ELSE {})
  BY <1>1, PlacesAre
<1>3. Holds(n, Xbuf) => ~Leftover
  BY <1>1 DEF LiveInv, Holds
<1>4. Current(salsaShiftReg) => ~Current(Xbuf)
  BY <1>1, Registers DEF OverlapInv
<1>5. CASE \E t \in Thread : Holds(n, sdata[t])
  <2>1. PICK t \in Thread : Holds(n, sdata[t])
    BY <1>5
  <2>2. \A u \in Thread : Holds(n, sdata[u]) => u = t
    BY <1>1, <2>1 DEF DistinctInv, Holds
  <2>3. ~Holds(n, Xbuf) /\ ~Holds(n, salsaShiftReg)
    BY <1>1, <1>3, <2>1 DEF DistinctInv, Holds
  <2> QED
    BY <1>2, <2>1, <2>2, <2>3
<1>6. CASE Holds(n, salsaShiftReg)
  <2>1. ~Holds(n, Xbuf) /\ \A t \in Thread : ~Holds(n, sdata[t])
    BY <1>1, <1>4, <1>6 DEF DistinctInv, Holds
  <2> QED
    BY <1>2, <1>6, <2>1
<1>7. CASE Holds(n, Xbuf) /\ ~Leftover
  <2>1. ~Holds(n, salsaShiftReg) /\ \A t \in Thread : ~Holds(n, sdata[t])
    BY <1>1, <1>4, <1>7 DEF DistinctInv, Holds
  <2> QED
    BY <1>2, <1>7, <2>1
<1> QED
  BY <1>1, <1>5, <1>6, <1>7 DEF LiveInv

(* Every nonce that was used up and not yet checked is in exactly one of   *)
(* the threads, salsaShiftReg and Xbuf, with its data: the two engines     *)
(* lose none between them and hash none twice (the exchanges of            *)
(* salsaengine.v 356-482 and pbkdfengine.v 566-733), whatever the number   *)
(* of threads, nonces and works, as long as NoncesInTime.                  *)
THEOREM NoNonceIsLost ==
  ASSUME NoncesInTime
  PROVE  Spec => []NoneLost
<1>1. Init => NonceInv
  BY NonceInit
<1>2. NonceInv /\ [Next]_vars => NonceInv'
  BY NoncesKept
<1>3. NonceInv => NoneLost
  BY OnePlace
<1> QED
  BY <1>1, <1>2, <1>3, PTL DEF Spec

(* A result of the current work that reaches the check (pbkdfengine.v      *)
(* 566-581) was not checked before, and nonce_cnt (pbkdfengine.v 475) does *)
(* not come round to a nonce that is still being hashed.                   *)
THEOREM EachCheckedOnce ==
  ASSUME NoncesInTime
  PROVE  Spec => CheckedOnce
<1> DEFINE Checked ==
      /\ state = "S_R18" /\ Xbuf.kind = "out" /\ Xbuf.work = work /\ ~reset => Xbuf.nonce \in live
      /\ state = "S_NONCE" /\ state' = "S_SHIFT_IN" => nonce_cnt \notin live
<1>1. Init => NonceInv
  BY NonceInit
<1>2. NonceInv /\ [Next]_vars => NonceInv'
  BY NoncesKept
<1>3. NonceInv => Checked
  <2> SUFFICES ASSUME NonceInv PROVE Checked
    OBVIOUS
  <2>1. ASSUME state = "S_R18", Xbuf.kind = "out", Xbuf.work = work, ~reset
        PROVE  Xbuf.nonce \in live
    <3>1. Current(Xbuf) /\ ~Leftover
      BY <2>1 DEF Current, Leftover, OutXbuf
    <3>2. Steady
      BY <2>1, <3>1 DEF NonceInv, UnsteadyInv
    <3> QED
      BY <3>1, <3>2 DEF NonceInv, LiveInv
  <2>2. ASSUME state = "S_NONCE"
        PROVE  nonce_cnt \notin live
    <3>1. CASE Steady
      BY <2>2, <3>1, NotInUse DEF NonceInv, OverlapInv
    <3>2. CASE ~Steady
      BY <3>2 DEF NonceInv, UnsteadyInv
    <3> QED
      BY <3>1, <3>2
  <2> QED
    BY <2>1, <2>2
<1> QED
  BY <1>1, <1>2, <1>3, PTL DEF Spec, CheckedOnce
=============================================================================
