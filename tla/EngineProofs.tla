---------------------------- MODULE EngineProofs ----------------------------
(***************************************************************************)
(* Proofs about a mining core, for any number of threads, nonces and works *)
(* and any two clocks: every register keeps its type; a nonce comes back   *)
(* with the result that was computed from it, if a load reaches hash_clk   *)
(* before the nonce is counted on; a reset reaches every thread, if it     *)
(* lasts longer than a lap of the ring; and a shift of the data never      *)
(* meets a thread that takes its input, if the design is in time.          *)
(***************************************************************************)
EXTENDS Engine, FiniteSetTheorems, SequenceTheorems, TLAPS

Nonces == 0 .. NONCES - 1

(* What the types rest on: a thread takes its input in its own slot, the   *)
(* nonces in the salsa engine are nonces, no thread runs twice.            *)
RingInv ==
  /\ phase = IF phase_d < THREADS THEN phase_d + 1 ELSE 0
  /\ XSload => phase_d \in Thread
  /\ salsa_nonce_sr \in Nonces /\ snonce \in [Thread -> Nonces]

RunningOnce ==
  /\ order \in Seq(Thread)
  /\ \A i, j \in DOMAIN order : order[i] = order[j] => i = j

TypeInv == TypeOK /\ RingInv /\ RunningOnce

(* The data and its nonce go the same way.  A nonce that is loaded into    *)
(* Xbuf is the one khash was made from, because its load is over before    *)
(* the nonce is counted on.                                                *)
Items == [kind : {"in", "out", "junk"}, work : Nat, nonce : Nonces]
Matches(item, nonce) ==
  /\ item \in Items /\ item.work <= work
  /\ item.kind # "junk" /\ item.work = work => item.nonce = nonce

LoadInTime == \A h \in HPeriods : 3 * h < 8 * PPeriod

PairedInv ==
  /\ work \in Nat
  /\ DOMAIN sdata = Thread /\ \A t \in Thread : Matches(sdata[t], snonce[t])
  /\ Matches(salsaShiftReg, salsa_nonce_sr)
  /\ Matches(Xbuf, nonce_sr)
  /\ khash \in Items /\ khash.work <= work
  /\ Xbuf_load_request # Still => Matches(khash, nonce_cnt)

LoadInv ==
  \A b \in 1 .. 3 :
    Xbuf_load_request[b] /\ state = "S_NONCE"
      => (3 - b) * hperiod < skew + nonce_wait * PPeriod

(* A thread that is not reset yet has its slot before reset ends.          *)
LongReset == \A h \in HPeriods : (THREADS + 1) * h < RESETCYCLES * PPeriod

Distance(t) ==
  IF phase_d <= t THEN t - phase_d
  ELSE IF phase_d <= THREADS THEN t - phase_d + THREADS + 1
  ELSE t + 1

(* reset will be up at the next n edges of hash_clk, and fsmreset.         *)
ResetFor(n) ==
  n = 0 \/ (reset /\ (n - 1) * hperiod < skew + (RESETCYCLES - resetcycles) * PPeriod)
FsmResetFor(n) ==
  \/ n = 0
  \/ fsmreset /\ n = 1
  \/ fsmreset /\ reset_d /\ n > 1 /\ ResetFor(n - 2)
ResetInv ==
  /\ reset /\ ~reset_d => ResetFor(THREADS + 1)
  /\ reset_d /\ ~fsmreset => ResetFor(THREADS)
  /\ fsmreset => \A t \in Thread : sstate[t] # "R_IDLE" => FsmResetFor(Distance(t) + 1)

-----------------------------------------------------------------------------
(* Products.                                                               *)

LEMMA Distribute ==
  ASSUME NEW a \in Int, NEW c \in Int
  PROVE  (a - 1) * c = a * c - c
OBVIOUS

LEMMA OneMore ==
  ASSUME NEW b \in Int, NEW c \in Int
  PROVE  (3 - (b - 1)) * c = (3 - b) * c + c
<1>1. (3 - b + 1 - 1) * c = (3 - b + 1) * c - c
  BY Distribute
<1>2. 3 - b + 1 - 1 = 3 - b /\ 3 - b + 1 = 3 - (b - 1)
  OBVIOUS
<1>3. (3 - b) * c \in Int /\ (3 - (b - 1)) * c \in Int
  OBVIOUS
<1> QED
  BY <1>1, <1>2, <1>3

-----------------------------------------------------------------------------
(* Types.                                                                  *)

LEMMA Moves ==
  ASSUME NEW c \in Crossing
  PROVE  Toggle(c) \in Crossing /\ Shift(c) \in Crossing
BY DEF Crossing, Toggle, Shift

LEMMA StillMoves == Still \in Crossing
BY DEF Still, Crossing

LEMMA ShiftStill == Shift(Still) = Still
<1>1. ASSUME NEW b \in 1 .. 3 PROVE ~(b # 1 /\ Still[b - 1])
  <2>1. b # 1 => b - 1 \in 1 .. 3
    OBVIOUS
  <2> QED
    BY <2>1 DEF Still
<1>2. ASSUME NEW b \in 1 .. 3 PROVE (b # 1 /\ Still[b - 1]) = FALSE
  BY <1>1
<1> QED
  BY <1>2, Zenon DEF Shift, Still

(* The types of pbkdfengine one by one.                                    *)
Flags7 ==
  /\ Set_SMixInRdy \in BOOLEAN /\ Clr_SMixOutRdy \in BOOLEAN
  /\ SMixInRdy_state \in BOOLEAN /\ SMixOutRdy_state \in BOOLEAN
  /\ salsa_busy_d \in BOOLEAN /\ salsa_result_d \in BOOLEAN /\ salsa_shift \in BOOLEAN
Crossings ==
  /\ busy_seen \in Crossing /\ result_seen \in Crossing
  /\ Xbuf_load_request \in Crossing /\ shift_request \in Crossing
  /\ shift_acknowledge \in Crossing
PbkdfTypes ==
  /\ resetcycles \in 0 .. RESETCYCLES /\ reset \in BOOLEAN
  /\ nonce_cnt \in Nonces
  /\ state \in States /\ mode \in {0, 1} /\ cnt \in Nat /\ nonce_wait \in 0 .. 7
  /\ start_output \in BOOLEAN
  /\ shift_count \in 0 .. SHIFTS - 1
  /\ nonce_sr \in Nonces /\ live \subseteq Nonces

LEMMA PbkdfTypesMean == PbkdfTypeOK <=> PbkdfTypes /\ Flags7 /\ Crossings
BY DEF PbkdfTypeOK, PbkdfTypes, Flags7, Crossings, Nonces

(* What an edge of the FSM does with what only it writes.                  *)
FsmWrites ==
  /\ nonce_cnt' \in Nonces /\ live' \subseteq Nonces
  /\ state' \in States /\ mode' \in {0, 1} /\ cnt' \in Nat /\ nonce_wait' \in 0 .. 7
  /\ start_output' \in BOOLEAN
  /\ Set_SMixInRdy' \in BOOLEAN /\ Clr_SMixOutRdy' \in BOOLEAN
  /\ Xbuf_load_request' \in {Xbuf_load_request, Toggle(Xbuf_load_request)}
  /\ shift_request' \in {shift_request, Toggle(shift_request)}

LEMMA NoncesFacts == 0 \in Nonces /\ \A n \in Nonces : (n + 1) % NONCES \in Nonces
BY PbkdfAssumption DEF Nonces

LEMMA LoadsNonce ==
  ASSUME PbkdfTypes, NEW loadnonce \in BOOLEAN, LoadNonce(loadnonce)
  PROVE  nonce_cnt' \in Nonces /\ live' \subseteq Nonces
BY NoncesFacts DEF PbkdfTypes, LoadNonce

LEMMA FsmTypes ==
  ASSUME PbkdfTypes, NEW loadnonce \in BOOLEAN, Fsm(loadnonce)
  PROVE  FsmWrites
<1> USE DEF PbkdfTypes, States, Strobes, RequestLoad, NoLoad, RequestShift, NoShift, FsmWrites
<1>1. CASE FsmReset(loadnonce)
  BY <1>1, LoadsNonce DEF FsmReset
<1>2. CASE FetchOutput(loadnonce)
  BY <1>2, LoadsNonce DEF FetchOutput
<1>3. CASE StartHash(loadnonce)
  BY <1>3, LoadsNonce DEF StartHash
<1>4. CASE Idle(loadnonce)
  BY <1>4, LoadsNonce DEF Idle
<1>5. CASE HashInput(loadnonce)
  <2>1. cnt' \in Nat /\ state' \in States
    BY <1>5 DEF HashInput
  <2> QED
    BY <1>5, <2>1, LoadsNonce DEF HashInput
<1>6. CASE HashOutput(loadnonce)
  <2>1. cnt' \in Nat /\ state' \in States
    BY <1>6 DEF HashOutput
  <2> QED
    BY <1>6, <2>1, LoadsNonce DEF HashOutput
<1>7. CASE LoadXbuf(loadnonce)
  <2>1. nonce_wait' \in 0 .. 7 /\ state' \in States
    BY <1>7 DEF LoadXbuf
  <2> QED
    BY <1>7, <2>1, LoadsNonce DEF LoadXbuf
<1>8. CASE NonceWait(loadnonce)
  <2>1. nonce_wait' \in 0 .. 7
    BY <1>8 DEF NonceWait
  <2> QED
    BY <1>8, <2>1, LoadsNonce DEF NonceWait
<1>9. CASE NextNonce(loadnonce)
  <2>1. nonce_wait' \in 0 .. 7 /\ state' \in States
    BY <1>9 DEF NextNonce
  <2>2. nonce_cnt' \in Nonces /\ live' \subseteq Nonces
    BY <1>9, NoncesFacts DEF NextNonce
  <2> QED
    BY <1>9, <2>1, <2>2 DEF NextNonce
<1>10. CASE ShiftIn(loadnonce)
  BY <1>10, LoadsNonce DEF ShiftIn
<1>11. CASE ShiftOut(loadnonce)
  BY <1>11, LoadsNonce DEF ShiftOut
<1>12. CASE Check(loadnonce)
  BY <1>12, NoncesFacts DEF Check
<1> QED
  BY <1>1, <1>2, <1>3, <1>4, <1>5, <1>6, <1>7, <1>8, <1>9, <1>10, <1>11, <1>12 DEF Fsm

LEMMA LoadsOrNot ==
  ASSUME PbkdfEdge
  PROVE  \E loadnonce \in BOOLEAN : PbkdfTick(loadnonce)
<1>1. PICK loadnonce \in {FALSE} \cup {work < MaxLoads} : PbkdfTick(loadnonce)
  BY DEF PbkdfEdge
<1>2. (work < MaxLoads) \in BOOLEAN
  OBVIOUS
<1>3. loadnonce \in BOOLEAN
  BY <1>2
<1> QED
  BY <1>1, <1>3

LEMMA PbkdfTickTypes ==
  ASSUME PbkdfTypeOK, NEW loadnonce \in BOOLEAN, PbkdfTick(loadnonce)
  PROVE  PbkdfTypeOK'
<1>1. PbkdfTypes /\ Flags7 /\ Crossings
  BY PbkdfTypesMean
<1>2. FsmWrites
  BY <1>1, FsmTypes DEF PbkdfTick
<1>3. resetcycles' \in 0 .. RESETCYCLES
  BY <1>1, PbkdfAssumption DEF PbkdfTypes, PbkdfTick, ResetControl
<1>4. reset' \in BOOLEAN
  BY DEF PbkdfTick, ResetControl
<1>5. SMixInRdy_state' \in BOOLEAN /\ SMixOutRdy_state' \in BOOLEAN
  BY DEF PbkdfTick, Flags
<1>6. /\ salsa_busy_d' = salsa_busy_d /\ salsa_result_d' = salsa_result_d
      /\ salsa_shift' = salsa_shift /\ shift_count' = shift_count /\ nonce_sr' = nonce_sr
  BY DEF PbkdfTick, shifterVars
<1>7. PbkdfTypes'
  BY <1>1, <1>2, <1>3, <1>4, <1>6 DEF PbkdfTypes, FsmWrites
<1>8. Flags7'
  BY <1>1, <1>2, <1>5, <1>6 DEF Flags7, FsmWrites
<1>9. Crossings'
  BY <1>1, <1>2, Moves DEF Crossings, FsmWrites, PbkdfTick, Flags
<1> QED
  BY <1>7, <1>8, <1>9 DEF PbkdfTypeOK, PbkdfTypes, Flags7, Crossings, Nonces

LEMMA ShifterTypes ==
  ASSUME PbkdfTypeOK, salsa_nonce_sr \in Nonces, busy_flag \in BOOLEAN, result \in BOOLEAN,
         ShifterTick(salsaShiftReg, salsa_nonce_sr, busy_flag, result)
  PROVE  PbkdfTypeOK'
<1>1. PbkdfTypes /\ Flags7 /\ Crossings
  BY PbkdfTypesMean
<1>2. /\ resetcycles' = resetcycles /\ reset' = reset /\ nonce_cnt' = nonce_cnt
      /\ state' = state /\ mode' = mode /\ cnt' = cnt /\ nonce_wait' = nonce_wait
      /\ start_output' = start_output /\ live' = live
      /\ Set_SMixInRdy' = Set_SMixInRdy /\ Clr_SMixOutRdy' = Clr_SMixOutRdy
      /\ SMixInRdy_state' = SMixInRdy_state /\ SMixOutRdy_state' = SMixOutRdy_state
  BY DEF ShifterTick, pbkdfClkVars
<1>3. shift_count' \in 0 .. SHIFTS - 1
  BY <1>1, PbkdfAssumption DEF PbkdfTypes, ShifterTick, ShiftControl, LastShift
<1>4. nonce_sr' \in Nonces
  BY <1>1, NoncesFacts DEF PbkdfTypes, ShifterTick, ShiftBuffer
<1>5. salsa_shift' \in BOOLEAN
  BY DEF ShifterTick, ShiftControl
<1>6. PbkdfTypes'
  BY <1>1, <1>2, <1>3, <1>4 DEF PbkdfTypes
<1>7. Flags7'
  BY <1>1, <1>2, <1>5 DEF Flags7, ShifterTick, Follow
<1>8. Crossings'
  BY <1>1, Moves DEF Crossings, ShifterTick, Follow, ShiftControl
<1> QED
  BY <1>6, <1>7, <1>8 DEF PbkdfTypeOK, PbkdfTypes, Flags7, Crossings, Nonces

(* The types of salsaengine one by one.                                    *)
SalsaFlags ==
  /\ reset_d \in BOOLEAN /\ fsmreset \in BOOLEAN /\ start_d \in BOOLEAN /\ fsmstart \in BOOLEAN
  /\ XSload \in BOOLEAN /\ busy_flag \in BOOLEAN /\ result \in BOOLEAN /\ start_flag \in BOOLEAN
SalsaTypes ==
  /\ phase \in 0 .. THREADS /\ phase_d \in 0 .. THREADS + 1
  /\ mstate \in ThreadState /\ sstate \in [Thread -> ThreadState]
  /\ start_count \in 0 .. START_INTERVAL /\ since \in 0 .. SPACING

LEMMA SalsaTypesMean == SalsaTypeOK <=> SalsaTypes /\ SalsaFlags /\ Len(order) <= THREADS
BY DEF SalsaTypeOK, SalsaTypes, SalsaFlags

(* What the FSM writes, whatever the slot.                                 *)
SlotWrites ==
  /\ mstate' \in ThreadState
  /\ busy_flag' \in BOOLEAN /\ result' \in BOOLEAN /\ start_flag' \in BOOLEAN
  /\ XSload' \in BOOLEAN /\ (XSload' => phase \in Thread)

LEMMA SlotTypes ==
  ASSUME SalsaTypes, SalsaFlags, SlotQuiet \/ Complete
  PROVE  SlotWrites
<1> USE DEF SalsaTypes, SalsaFlags, SlotWrites, ThreadState, RaiseStart
<1>0. phase # THREADS => phase \in Thread
  BY SalsaAssumption DEF Thread
<1>a. mstate_in \in {"R_RUN", "R_WAIT"} => phase \in Thread
  BY <1>0 DEF mstate_in
<1>1. CASE FsmResetSlot
  BY <1>1 DEF FsmResetSlot
<1>2. CASE StayIdle
  BY <1>2 DEF StayIdle
<1>3. CASE LeaveIdle
  BY <1>0, <1>3 DEF LeaveIdle
<1>4. CASE Start
  BY <1>4 DEF Start
<1>5. CASE Run
  BY <1>5 DEF Run
<1>6. CASE Complete
  BY <1>a, <1>6 DEF Complete
<1>7. CASE Wait
  BY <1>7 DEF Wait
<1>8. CASE Resume
  BY <1>a, <1>8 DEF Resume
<1> QED
  BY <1>1, <1>2, <1>3, <1>4, <1>5, <1>6, <1>7, <1>8 DEF SlotQuiet

(* A list without one of its elements.                                     *)
LEMMA OthersRun ==
  ASSUME RunningOnce, NEW t
  PROVE  /\ Others(t) \in Seq(Thread)
         /\ \A i, j \in DOMAIN Others(t) : Others(t)[i] = Others(t)[j] => i = j
         /\ \A i \in DOMAIN Others(t) : Others(t)[i] # t
<1>1. order \in Seq(Thread) /\ DOMAIN order = 1 .. Len(order) /\ Len(order) \in Nat
  BY LenProperties DEF RunningOnce
<1>2. CASE ~\E i \in DOMAIN order : order[i] = t
  BY <1>1, <1>2 DEF Others, RunningOnce
<1>3. CASE \E i \in DOMAIN order : order[i] = t
  <2> DEFINE k == CHOOSE i \in DOMAIN order : order[i] = t
  <2> DEFINE a == SubSeq(order, 1, k - 1)
  <2> DEFINE b == SubSeq(order, k + 1, Len(order))
  <2>1. k \in 1 .. Len(order) /\ order[k] = t
    BY <1>1, <1>3
  <2>2. Others(t) = a \o b
    BY <1>3 DEF Others
  <2> HIDE DEF k
  <2>3. /\ a \in Seq(Thread) /\ Len(a) = k - 1
        /\ \A i \in 1 .. k - 1 : a[i] = order[i]
    <3>1. \A i \in 1 .. k - 1 : order[i] \in Thread
      BY <1>1, <2>1
    <3>2. /\ SubSeq(order, 1, k - 1) \in Seq(Thread)
          /\ Len(SubSeq(order, 1, k - 1)) = IF 1 <= k - 1 THEN k - 1 - 1 + 1 ELSE 0
          /\ \A i \in 1 .. k - 1 - 1 + 1 : SubSeq(order, 1, k - 1)[i] = order[1 + i - 1]
      BY <2>1, <3>1, SubSeqProperties
    <3> QED
      BY <2>1, <3>2
  <2>4. /\ b \in Seq(Thread) /\ Len(b) = Len(order) - k
        /\ \A i \in 1 .. Len(order) - k : b[i] = order[k + i]
    <3>1. \A i \in k + 1 .. Len(order) : order[i] \in Thread
      BY <1>1, <2>1
    <3>2. /\ SubSeq(order, k + 1, Len(order)) \in Seq(Thread)
          /\ Len(SubSeq(order, k + 1, Len(order)))
               = IF k + 1 <= Len(order) THEN Len(order) - (k + 1) + 1 ELSE 0
          /\ \A i \in 1 .. Len(order) - (k + 1) + 1 :
               SubSeq(order, k + 1, Len(order))[i] = order[k + 1 + i - 1]
      BY <1>1, <2>1, <3>1, SubSeqProperties
    <3> QED
      BY <1>1, <2>1, <3>2
  <2> HIDE DEF a, b
  <2>5. /\ a \o b \in Seq(Thread) /\ Len(a \o b) = Len(order) - 1
        /\ \A i \in 1 .. Len(order) - 1 :
             (a \o b)[i] = IF i <= k - 1 THEN order[i] ELSE order[i + 1]
    <3>1. /\ a \o b \in Seq(Thread) /\ Len(a \o b) = Len(a) + Len(b)
          /\ \A i \in 1 .. Len(a) + Len(b) :
               (a \o b)[i] = IF i <= Len(a) THEN a[i] ELSE b[i - Len(a)]
      BY <2>3, <2>4, ConcatProperties
    <3>2. Len(a) + Len(b) = Len(order) - 1
      BY <1>1, <2>1, <2>3, <2>4
    <3>3. ASSUME NEW i \in 1 .. Len(order) - 1
          PROVE  (a \o b)[i] = IF i <= k - 1 THEN order[i] ELSE order[i + 1]
      <4>1. CASE i <= k - 1
        BY <2>1, <2>3, <3>1, <3>2, <4>1
      <4>2. CASE ~(i <= k - 1)
        <5>1. i - (k - 1) \in 1 .. Len(order) - k
          BY <1>1, <2>1, <4>2
        <5>2. (a \o b)[i] = b[i - (k - 1)]
          BY <2>3, <3>1, <3>2, <4>2
        <5>3. b[i - (k - 1)] = order[k + (i - (k - 1))]
          BY <2>4, <5>1
        <5>4. k + (i - (k - 1)) = i + 1
          BY <2>1
        <5> QED
          BY <4>2, <5>2, <5>3, <5>4
      <4> QED
        BY <4>1, <4>2
    <3> QED
      BY <3>1, <3>2, <3>3
  <2>6. DOMAIN Others(t) = 1 .. Len(order) - 1
    BY <2>2, <2>5, LenProperties
  <2>7. \A i, j \in 1 .. Len(order) : order[i] = order[j] => i = j
    BY <1>1 DEF RunningOnce
  <2>8. ASSUME NEW i \in 1 .. Len(order) - 1, NEW j \in 1 .. Len(order) - 1, (a \o b)[i] = (a \o b)[j]
        PROVE  i = j
    <3> DEFINE Old(n) == IF n <= k - 1 THEN n ELSE n + 1
    <3>1. Old(i) \in 1 .. Len(order) /\ Old(j) \in 1 .. Len(order)
      BY <1>1, <2>1
    <3>2. order[Old(i)] = order[Old(j)]
      BY <2>5, <2>8
    <3>3. Old(i) = Old(j)
      BY <2>7, <3>1, <3>2
    <3> QED
      BY <2>1, <3>3
  <2>9. ASSUME NEW i \in 1 .. Len(order) - 1
        PROVE  (a \o b)[i] # t
    <3> DEFINE Old(n) == IF n <= k - 1 THEN n ELSE n + 1
    <3>1. Old(i) \in 1 .. Len(order) /\ Old(i) # k
      BY <1>1, <2>1
    <3>2. (a \o b)[i] = order[Old(i)]
      BY <2>5
    <3>3. order[Old(i)] # order[k]
      BY <2>1, <2>7, <3>1
    <3> QED
      BY <2>1, <3>2, <3>3
  <2> QED
    BY <2>2, <2>5, <2>6, <2>8, <2>9
<1> QED
  BY <1>2, <1>3

LEMMA OrderStep ==
  ASSUME RunningOnce, XSload => phase_d \in Thread, Spacing
  PROVE  RunningOnce'
<1>1. CASE XSload
  <2> DEFINE o == Others(phase_d)
  <2>1. order' = Append(o, phase_d) /\ phase_d \in Thread
    BY <1>1 DEF Spacing
  <2>2. /\ o \in Seq(Thread)
        /\ \A i, j \in DOMAIN o : o[i] = o[j] => i = j
        /\ \A i \in DOMAIN o : o[i] # phase_d
    BY OthersRun
  <2> HIDE DEF o
  <2>3. Len(o) \in Nat /\ DOMAIN o = 1 .. Len(o)
    BY <2>2, LenProperties
  <2>4. /\ Append(o, phase_d) \in Seq(Thread) /\ Len(Append(o, phase_d)) = Len(o) + 1
        /\ \A i \in 1 .. Len(o) : Append(o, phase_d)[i] = o[i]
        /\ Append(o, phase_d)[Len(o) + 1] = phase_d
    BY <2>1, <2>2, AppendProperties
  <2>5. DOMAIN order' = 1 .. Len(o) + 1
    BY <2>1, <2>4, LenProperties
  <2>6. ASSUME NEW i \in 1 .. Len(o) + 1, NEW j \in 1 .. Len(o) + 1, order'[i] = order'[j]
        PROVE  i = j
    BY <2>1, <2>2, <2>3, <2>4, <2>6
  <2> QED
    BY <2>1, <2>4, <2>5, <2>6 DEF RunningOnce
<1>2. CASE ~XSload /\ fsmreset
  BY <1>2, OthersRun DEF Spacing, RunningOnce
<1>3. CASE ~XSload /\ ~fsmreset
  BY <1>3 DEF Spacing, RunningOnce
<1> QED
  BY <1>1, <1>2, <1>3

LEMMA RunningBound == RunningOnce => Len(order) <= THREADS
<1> SUFFICES ASSUME RunningOnce, ~(Len(order) <= THREADS) PROVE FALSE
  OBVIOUS
<1>1. Len(order) \in Nat /\ order \in [1 .. Len(order) -> Thread] /\ DOMAIN order = 1 .. Len(order)
  BY LenProperties DEF RunningOnce
<1>2. IsFiniteSet(1 .. Len(order)) /\ Cardinality(1 .. Len(order)) = Len(order)
  BY <1>1, FS_Interval
<1>3. IsFiniteSet(Thread) /\ Cardinality(Thread) = THREADS
  <2>1. THREADS - 1 \in Int /\ THREADS - 1 >= 0
    BY SalsaAssumption
  <2>2. /\ IsFiniteSet(0 .. THREADS - 1)
        /\ Cardinality(0 .. THREADS - 1)
             = IF 0 > THREADS - 1 THEN 0 ELSE THREADS - 1 - 0 + 1
    BY <2>1, FS_Interval
  <2> QED
    BY <2>1, <2>2, SalsaAssumption DEF Thread
<1>4. Cardinality(Thread) < Cardinality(1 .. Len(order))
  BY <1>1, <1>2, <1>3, SalsaAssumption
<1>5. \E i, j \in 1 .. Len(order) : i # j /\ order[i] = order[j]
  BY <1>1, <1>2, <1>3, <1>4, FS_PigeonHole
<1> QED
  BY <1>1, <1>5 DEF RunningOnce

LEMMA SalsaTickTypes ==
  ASSUME TypeInv, HashTick, SlotQuiet \/ Complete
  PROVE  SalsaTypeOK' /\ RingInv' /\ RunningOnce'
<1>1. SalsaTypes /\ SalsaFlags /\ PbkdfTypes /\ Flags7
  BY SalsaTypesMean, PbkdfTypesMean DEF TypeInv, TypeOK
<1>2. SlotWrites
  BY <1>1, SlotTypes
<1>3. /\ Rotate(reset, SMixInRdy) /\ ThreadData(salsa_shift) /\ StartCounter /\ Spacing
      /\ ShiftRegister(salsa_shift, LastShift, ShiftCutShort, Xbuf, nonce_sr)
  BY DEF HashTick, SalsaTick
<1>4. phase' \in 0 .. THREADS /\ phase_d' \in 0 .. THREADS + 1 /\ phase_d' = phase
  BY <1>1, <1>3, SalsaAssumption DEF SalsaTypes, Rotate
<1>5. sstate' \in [Thread -> ThreadState]
  BY <1>1, <1>3 DEF SalsaTypes, Rotate, ThreadState
<1>6. start_count' \in 0 .. START_INTERVAL /\ since' \in 0 .. SPACING
  BY <1>1, <1>3, SalsaAssumption DEF SalsaTypes, StartCounter, Spacing
<1>7. SalsaTypes'
  BY <1>2, <1>4, <1>5, <1>6 DEF SalsaTypes, SlotWrites
<1>8. SMixInRdy \in BOOLEAN
  BY DEF SMixInRdy
<1>9. SalsaFlags'
  <2>1. reset_d' = reset /\ fsmreset' = reset_d /\ start_d' = SMixInRdy /\ fsmstart' = start_d
    BY <1>3 DEF Rotate
  <2> QED
    BY <1>1, <1>2, <1>8, <2>1 DEF SalsaFlags, SlotWrites, PbkdfTypes
<1>10. RunningOnce'
  BY <1>3, OrderStep DEF TypeInv, RingInv
<1>11. Len(order') <= THREADS
  <2>1. RunningOnce => Len(order) <= THREADS
    BY RunningBound
  <2>2. (RunningOnce => Len(order) <= THREADS)'
    BY RunningBound, PTL
  <2> QED
    BY <1>10, <2>2
<1>12. SalsaTypeOK'
  BY <1>7, <1>9, <1>11 DEF SalsaTypeOK, SalsaTypes, SalsaFlags
<1>13. phase' = IF phase_d' < THREADS THEN phase_d' + 1 ELSE 0
  BY <1>1, <1>3, SalsaAssumption DEF SalsaTypes, Rotate
<1>14. XSload' => phase_d' \in Thread
  BY <1>2, <1>4 DEF SlotWrites
<1>15. snonce' \in [Thread -> Nonces]
  BY <1>3 DEF ThreadData, TypeInv, RingInv
<1>16. salsa_nonce_sr' \in Nonces
  BY <1>1, <1>3, NoncesFacts DEF ShiftRegister, TypeInv, RingInv, PbkdfTypes
<1> QED
  BY <1>10, <1>12, <1>13, <1>14, <1>15, <1>16 DEF RingInv

LEMMA ClockStep ==
  ASSUME TypeInv, [Next]_vars
  PROVE  hperiod' \in HPeriods /\ hperiod' = hperiod /\ skew' \in -hperiod' .. PPeriod
<1>1. hperiod \in Nat \ {0} /\ PPeriod \in Nat \ {0} /\ skew \in -hperiod .. PPeriod
  BY ClockAssumption DEF TypeInv, TypeOK
<1>2. hperiod' = hperiod
  BY DEF Next, PbkdfEdge, HashEdge, HashEdgeComplete, HashTick, vars, clockVars
<1>3. \/ skew' = skew
      \/ skew <= 0 /\ skew' = skew + PPeriod
      \/ skew >= 0 /\ skew' = skew - hperiod
  BY DEF Next, PbkdfEdge, HashEdge, HashEdgeComplete, HashTick, vars, clockVars
<1>4. skew' \in -hperiod .. PPeriod
  BY <1>1, <1>3
<1> QED
  BY <1>2, <1>4 DEF TypeInv, TypeOK

LEMMA TypeInit == Init => TypeInv
<1> SUFFICES ASSUME Init PROVE TypeInv
  OBVIOUS
<1> USE DEF Init
<1>1. hperiod \in HPeriods /\ skew \in -hperiod .. PPeriod
  OBVIOUS
<1>2. PbkdfTypes
  <2>1. resetcycles = 0 /\ resetcycles \in 0 .. RESETCYCLES
    BY PbkdfAssumption DEF PbkdfInit
  <2>2. shift_count \in 0 .. SHIFTS - 1 /\ nonce_wait \in 0 .. 7 /\ cnt \in Nat
    BY PbkdfAssumption DEF PbkdfInit
  <2>3. nonce_cnt \in Nonces /\ nonce_sr \in Nonces /\ live \subseteq Nonces
    BY NoncesFacts DEF PbkdfInit
  <2>4. reset \in BOOLEAN /\ state \in States /\ mode \in {0, 1} /\ start_output \in BOOLEAN
    BY DEF PbkdfInit, States
  <2> QED
    BY <2>1, <2>2, <2>3, <2>4 DEF PbkdfTypes
<1>3. Flags7 /\ Crossings
  BY StillMoves DEF PbkdfInit, Flags7, Crossings
<1>4. SalsaTypes /\ SalsaFlags
  <2>1. phase \in 0 .. THREADS /\ phase_d \in 0 .. THREADS + 1
    BY SalsaAssumption DEF SalsaInit
  <2>2. start_count \in 0 .. START_INTERVAL /\ since \in 0 .. SPACING
    BY SalsaAssumption DEF SalsaInit
  <2>3. mstate \in ThreadState /\ sstate \in [Thread -> ThreadState]
    BY DEF SalsaInit, ThreadState
  <2>4. SalsaFlags
    BY DEF SalsaInit, SalsaFlags
  <2> QED
    BY <2>1, <2>2, <2>3, <2>4 DEF SalsaTypes
<1>5. RunningOnce
  BY DEF SalsaInit, RunningOnce
<1>6. RingInv
  <2>1. phase_d = THREADS + 1 /\ phase = 0 /\ XSload = FALSE /\ salsa_nonce_sr = 0
        /\ snonce = [t \in Thread |-> 0]
    BY DEF SalsaInit
  <2> QED
    BY <2>1, NoncesFacts, SalsaAssumption DEF RingInv
<1>7. SalsaTypeOK /\ PbkdfTypeOK
  BY <1>2, <1>3, <1>4, <1>5, RunningBound, SalsaTypesMean, PbkdfTypesMean
<1> QED
  BY <1>1, <1>5, <1>6, <1>7 DEF TypeInv, TypeOK

LEMMA TypeStep ==
  ASSUME TypeInv, [Next]_vars
  PROVE  TypeInv'
<1>1. hperiod' \in HPeriods /\ skew' \in -hperiod' .. PPeriod
  BY ClockStep
<1>2. CASE PbkdfEdge
  <2>1. PICK loadnonce \in BOOLEAN : PbkdfTick(loadnonce)
    BY <1>2, LoadsOrNot
  <2>2. PbkdfTypeOK'
    BY <2>1, PbkdfTickTypes DEF TypeInv, TypeOK
  <2>3. UNCHANGED salsaVars
    BY <1>2 DEF PbkdfEdge
  <2>4. SalsaTypeOK' /\ RingInv' /\ RunningOnce'
    BY <2>3 DEF TypeInv, TypeOK, salsaVars, SalsaTypeOK, RingInv, RunningOnce
  <2> QED
    BY <1>1, <2>2, <2>4 DEF TypeInv, TypeOK
<1>3. CASE HashEdge \/ HashEdgeComplete
  <2>1. HashTick /\ (SlotQuiet \/ Complete)
    BY <1>3 DEF HashEdge, HashEdgeComplete
  <2>2. salsa_nonce_sr \in Nonces /\ busy_flag \in BOOLEAN /\ result \in BOOLEAN
    BY DEF TypeInv, TypeOK, RingInv, SalsaTypeOK
  <2>3. PbkdfTypeOK'
    BY <2>1, <2>2, ShifterTypes DEF HashTick, TypeInv, TypeOK
  <2>4. SalsaTypeOK' /\ RingInv' /\ RunningOnce'
    BY <2>1, SalsaTickTypes
  <2> QED
    BY <1>1, <2>3, <2>4 DEF TypeInv, TypeOK
<1>4. CASE UNCHANGED vars
  <2>1. UNCHANGED pbkdfVars /\ UNCHANGED salsaVars
    BY <1>4 DEF vars
  <2>2. PbkdfTypeOK'
    BY <2>1 DEF TypeInv, TypeOK, PbkdfTypeOK, pbkdfVars, pbkdfClkVars, shifterVars, crossVars
  <2>3. SalsaTypeOK' /\ RingInv' /\ RunningOnce'
    BY <2>1 DEF TypeInv, TypeOK, salsaVars, SalsaTypeOK, RingInv, RunningOnce
  <2> QED
    BY <1>1, <2>2, <2>3 DEF TypeInv, TypeOK
<1> QED
  BY <1>2, <1>3, <1>4 DEF Next

(* Every register of the core keeps its type: the counters stay below      *)
(* their limits, a thread never runs twice.                                *)
THEOREM TypesOfCore == Spec => []TypeOK
<1>1. Init => TypeInv
  BY TypeInit
<1>2. TypeInv /\ [Next]_vars => TypeInv'
  BY TypeStep
<1>3. TypeInv => TypeOK
  BY DEF TypeInv
<1> QED
  BY <1>1, <1>2, <1>3, PTL DEF Spec

-----------------------------------------------------------------------------
(* A result and its nonce.                                                 *)

LEMMA JunkMatches ==
  ASSUME work \in Nat, NEW nonce
  PROVE  Matches(Junk, nonce)
BY NoncesFacts DEF Matches, Junk, Item, Items

LEMMA MixedMatches ==
  ASSUME work \in Nat, NEW item, NEW nonce, Matches(item, nonce)
  PROVE  Matches(Mixed(item), nonce)
<1>1. CASE item.kind = "in"
  <2> DEFINE m == [item EXCEPT !.kind = "out"]
  <2>1. Mixed(item) = m
    BY <1>1 DEF Mixed
  <2>2. m \in Items /\ m.work = item.work /\ m.nonce = item.nonce
    BY DEF Matches, Items
  <2> HIDE DEF m
  <2> QED
    BY <1>1, <2>1, <2>2 DEF Matches
<1>2. CASE item.kind # "in"
  BY <1>2, JunkMatches DEF Mixed
<1> QED
  BY <1>1, <1>2

(* The load that is under way when the nonce is about to be counted on.    *)
LEMMA NoLoadUnderWay ==
  ASSUME TypeInv, LoadInv, skew <= 0, state = "S_NONCE", nonce_wait = 0
  PROVE  Xbuf_load_request = Still
<1>1. Xbuf_load_request \in Crossing /\ hperiod \in Nat /\ PPeriod \in Nat /\ skew \in Int
  BY ClockAssumption DEF TypeInv, TypeOK, PbkdfTypeOK
<1>2. ASSUME NEW b \in 1 .. 3, Xbuf_load_request[b] PROVE FALSE
  <2>1. (3 - b) * hperiod < skew + nonce_wait * PPeriod
    BY <1>2 DEF LoadInv
  <2>2. nonce_wait * PPeriod = 0
    BY <1>1
  <2>3. (3 - b) * hperiod >= 0
    <3>1. b = 1 \/ b = 2 \/ b = 3
      OBVIOUS
    <3>2. 2 * hperiod >= 0 /\ 1 * hperiod >= 0 /\ 0 * hperiod >= 0
      BY <1>1
    <3> QED
      BY <3>1, <3>2
  <2>4. (3 - b) * hperiod \in Int
    BY <1>1
  <2> QED
    BY <1>1, <2>1, <2>2, <2>3, <2>4
<1> QED
  BY <1>1, <1>2 DEF Crossing, Still

(* What an edge of pbkdf_clk does with the work, the nonce and a load.     *)
LEMMA FsmPairs ==
  ASSUME TypeInv, LoadInv, skew <= 0, work \in Nat, NEW loadnonce \in BOOLEAN, Fsm(loadnonce)
  PROVE  /\ work' = work \/ work' = work + 1
         /\ \/ khash' = khash /\ Xbuf_load_request' = Xbuf_load_request
               /\ (work' = work /\ nonce_cnt' # nonce_cnt => Xbuf_load_request = Still)
            \/ khash' = Item("in", work, nonce_cnt) /\ (work' = work => nonce_cnt' = nonce_cnt)
<1> USE DEF NoLoad, LoadNonce
<1>1. CASE FsmReset(loadnonce)
  BY <1>1 DEF FsmReset
<1>2. CASE FetchOutput(loadnonce)
  BY <1>2 DEF FetchOutput
<1>3. CASE StartHash(loadnonce)
  BY <1>3 DEF StartHash
<1>4. CASE Idle(loadnonce)
  BY <1>4 DEF Idle
<1>5. CASE HashInput(loadnonce)
  BY <1>5 DEF HashInput
<1>6. CASE HashOutput(loadnonce)
  BY <1>6 DEF HashOutput
<1>7. CASE LoadXbuf(loadnonce)
  BY <1>7 DEF LoadXbuf
<1>8. CASE NonceWait(loadnonce)
  BY <1>8 DEF NonceWait
<1>9. CASE NextNonce(loadnonce)
  BY <1>9, NoLoadUnderWay DEF NextNonce
<1>10. CASE ShiftIn(loadnonce)
  BY <1>10 DEF ShiftIn
<1>11. CASE ShiftOut(loadnonce)
  BY <1>11 DEF ShiftOut
<1>12. CASE Check(loadnonce)
  BY <1>12 DEF Check
<1> QED
  BY <1>1, <1>2, <1>3, <1>4, <1>5, <1>6, <1>7, <1>8, <1>9, <1>10, <1>11, <1>12 DEF Fsm

LEMMA PbkdfPairs ==
  ASSUME TypeInv, PairedInv, LoadInv, PbkdfEdge
  PROVE  PairedInv'
<1>1. PICK loadnonce \in BOOLEAN : PbkdfTick(loadnonce)
  BY LoadsOrNot
<1>2. work \in Nat /\ skew <= 0
  BY DEF PairedInv, PbkdfEdge
<1>3. /\ work' = work \/ work' = work + 1
      /\ \/ khash' = khash /\ Xbuf_load_request' = Xbuf_load_request
            /\ (work' = work /\ nonce_cnt' # nonce_cnt => Xbuf_load_request = Still)
         \/ khash' = Item("in", work, nonce_cnt) /\ (work' = work => nonce_cnt' = nonce_cnt)
  BY <1>1, <1>2, FsmPairs DEF PbkdfTick
<1>4. /\ sdata' = sdata /\ snonce' = snonce /\ salsaShiftReg' = salsaShiftReg
      /\ salsa_nonce_sr' = salsa_nonce_sr /\ Xbuf' = Xbuf /\ nonce_sr' = nonce_sr
  BY <1>1 DEF PbkdfEdge, salsaVars, PbkdfTick, shifterVars
<1>5. ASSUME NEW item, NEW nonce, Matches(item, nonce)
      PROVE  /\ item \in Items /\ item.work <= work'
             /\ item.kind # "junk" /\ item.work = work' => item.nonce = nonce
  BY <1>2, <1>3, <1>5 DEF Matches, Items
<1>6. /\ DOMAIN sdata' = Thread /\ \A t \in Thread : Matches(sdata[t], snonce[t])'
      /\ Matches(salsaShiftReg, salsa_nonce_sr)' /\ Matches(Xbuf, nonce_sr)'
  BY <1>4, <1>5 DEF PairedInv, Matches
<1>7. work' \in Nat
  BY <1>2, <1>3
<1>8. nonce_cnt \in Nonces
  BY PbkdfTypesMean DEF TypeInv, TypeOK, PbkdfTypes
<1>9. khash' \in Items /\ khash'.work <= work'
  <2>1. CASE khash' = khash
    BY <1>2, <1>3, <2>1 DEF PairedInv, Items
  <2>2. CASE khash' = Item("in", work, nonce_cnt)
    BY <1>2, <1>3, <1>8, <2>2 DEF Item, Items
  <2> QED
    BY <1>3, <2>1, <2>2
<1>10. Xbuf_load_request' # Still => Matches(khash, nonce_cnt)'
  <2>1. CASE work' = work + 1
    BY <1>2, <1>3, <1>8, <1>9, <2>1 DEF Matches, PairedInv, Items, Item
  <2>2. CASE work' = work /\ khash' = Item("in", work, nonce_cnt) /\ nonce_cnt' = nonce_cnt
    BY <1>9, <2>2 DEF Matches, Item
  <2>3. CASE work' = work /\ khash' = khash /\ Xbuf_load_request' = Xbuf_load_request
             /\ (nonce_cnt' # nonce_cnt => Xbuf_load_request = Still)
    BY <2>3 DEF Matches, PairedInv
  <2> QED
    BY <1>2, <1>3, <2>1, <2>2, <2>3
<1> QED
  BY <1>6, <1>7, <1>9, <1>10 DEF PairedInv

LEMMA HashPairs ==
  ASSUME TypeInv, PairedInv, HashTick
  PROVE  PairedInv'
<1>1. /\ ThreadData(salsa_shift) /\ ShiftControl /\ ShiftBuffer(salsaShiftReg, salsa_nonce_sr)
      /\ ShiftRegister(salsa_shift, LastShift, ShiftCutShort, Xbuf, nonce_sr)
  BY DEF HashTick, ShifterTick, SalsaTick
<1>2. work' = work /\ khash' = khash /\ nonce_cnt' = nonce_cnt /\ work \in Nat
  BY DEF HashTick, ShifterTick, pbkdfClkVars, PairedInv
<1>3. ASSUME NEW item, NEW nonce, Matches(item, nonce)
      PROVE  /\ item \in Items /\ item.work <= work'
             /\ item.kind # "junk" /\ item.work = work' => item.nonce = nonce
  BY <1>2, <1>3 DEF Matches
<1>4. XSload => phase_d \in Thread
  BY DEF TypeInv, RingInv
<1>5. DOMAIN sdata = Thread /\ DOMAIN snonce = Thread
  BY DEF PairedInv, TypeInv, RingInv
<1>6. DOMAIN sdata' = Thread
  BY <1>1, <1>5 DEF ThreadData
<1>7. ASSUME NEW t \in Thread PROVE Matches(sdata'[t], snonce'[t])
  <2>1. \/ sdata'[t] = sdata[t] /\ snonce'[t] = snonce[t]
        \/ sdata'[t] = Junk
        \/ sdata'[t] = salsaShiftReg /\ snonce'[t] = salsa_nonce_sr
    BY <1>1, <1>4, <1>5 DEF ThreadData
  <2> QED
    BY <1>2, <2>1, JunkMatches DEF PairedInv
<1>8. Matches(salsaShiftReg', salsa_nonce_sr')
  <2>1. \/ salsaShiftReg' = salsaShiftReg /\ salsa_nonce_sr' = salsa_nonce_sr
        \/ salsaShiftReg' = Junk
        \/ salsaShiftReg' = Xbuf /\ salsa_nonce_sr' = nonce_sr
        \/ XSload /\ salsaShiftReg' = Mixed(sdata[phase_d]) /\ salsa_nonce_sr' = snonce[phase_d]
    BY <1>1 DEF ShiftRegister
  <2> QED
    BY <1>2, <1>4, <2>1, JunkMatches, MixedMatches DEF PairedInv
<1>9. Matches(Xbuf', nonce_sr')
  <2>1. \/ Xbuf' = Xbuf /\ nonce_sr' = nonce_sr
        \/ Xbuf' = Junk
        \/ Xbuf' = salsaShiftReg /\ nonce_sr' = salsa_nonce_sr
        \/ Arrived(Xbuf_load_request) /\ Xbuf' = khash /\ nonce_sr' = nonce_cnt
    BY <1>1 DEF ShiftBuffer
  <2>2. Arrived(Xbuf_load_request) => Xbuf_load_request # Still
    BY DEF Arrived, Still
  <2> QED
    BY <1>2, <2>1, <2>2, JunkMatches DEF PairedInv
<1>10. Xbuf_load_request' # Still => Xbuf_load_request # Still
  <2>1. Xbuf_load_request' = Shift(Xbuf_load_request)
    BY <1>1 DEF ShiftControl
  <2>2. Shift(Still) = Still
    BY ShiftStill
  <2> QED
    BY <2>1, <2>2
<1>11. /\ \A t \in Thread : Matches(sdata[t], snonce[t])'
       /\ Matches(salsaShiftReg, salsa_nonce_sr)' /\ Matches(Xbuf, nonce_sr)'
  BY <1>3, <1>7, <1>8, <1>9 DEF Matches
<1>12. Xbuf_load_request' # Still => Matches(khash, nonce_cnt)'
  BY <1>2, <1>10 DEF PairedInv, Matches
<1> QED
  BY <1>2, <1>6, <1>11, <1>12 DEF PairedInv

(* A load keeps the time it was given.                                     *)
LEMMA LoadBits ==
  ASSUME TypeInv, LoadInTime, NEW b \in 1 .. 3
  PROVE  (3 - b) * hperiod < skew + PPeriod + 7 * PPeriod
<1>1. hperiod \in Nat /\ hperiod \in HPeriods /\ PPeriod \in Nat /\ skew \in Int /\ skew >= -hperiod
  BY ClockAssumption DEF TypeInv, TypeOK
<1>2. 3 * hperiod < 8 * PPeriod
  BY <1>1 DEF LoadInTime
<1>3. b = 1 \/ b = 2 \/ b = 3
  OBVIOUS
<1>4. 0 * hperiod = 0 /\ 1 * hperiod = hperiod
  BY <1>1
<1>5. (3 - b) * hperiod <= 2 * hperiod
  BY <1>1, <1>3, <1>4
<1>6. (3 - b) * hperiod \in Int
  BY <1>1
<1> QED
  BY <1>1, <1>2, <1>5, <1>6

(* A tick later, and a wait less.                                          *)
LEMMA OneWaitLess ==
  ASSUME NEW w \in Int, NEW p \in Int, NEW s \in Int
  PROVE  s + w * p = s + p + (w - 1) * p
<1>1. (w - 1) * p = w * p - p
  BY Distribute
<1>2. w * p \in Int
  OBVIOUS
<1> QED
  BY <1>1, <1>2

LEMMA PbkdfLoads ==
  ASSUME TypeInv, LoadInv, LoadInTime, PbkdfEdge
  PROVE  LoadInv'
<1>1. PICK loadnonce \in BOOLEAN : PbkdfTick(loadnonce)
  BY LoadsOrNot
<1>2. hperiod' = hperiod /\ skew' = skew + PPeriod
  BY DEF PbkdfEdge
<1>3. hperiod \in Nat /\ PPeriod \in Nat /\ skew \in Int /\ nonce_wait \in 0 .. 7
  BY ClockAssumption DEF TypeInv, TypeOK, PbkdfTypeOK
<1>4. \/ state' # "S_NONCE"
      \/ nonce_wait' = 7 /\ state' = "S_NONCE"
      \/ /\ state = "S_NONCE" /\ nonce_wait' = nonce_wait - 1
         /\ Xbuf_load_request' = Xbuf_load_request
  <2>1. Fsm(loadnonce)
    BY <1>1 DEF PbkdfTick
  <2>2. ASSUME FsmReset(loadnonce) \/ FetchOutput(loadnonce) \/ StartHash(loadnonce)
               \/ Idle(loadnonce) \/ HashInput(loadnonce) \/ HashOutput(loadnonce)
               \/ NextNonce(loadnonce) \/ ShiftIn(loadnonce) \/ ShiftOut(loadnonce)
               \/ Check(loadnonce)
        PROVE  state' # "S_NONCE"
    BY <2>2 DEF FsmReset, FetchOutput, StartHash, Idle, HashInput, HashOutput, NextNonce,
                ShiftIn, ShiftOut, Check
  <2>3. ASSUME LoadXbuf(loadnonce) PROVE nonce_wait' = 7 /\ state' = "S_NONCE"
    BY <2>3 DEF LoadXbuf
  <2>4. ASSUME NonceWait(loadnonce)
        PROVE  /\ state = "S_NONCE" /\ nonce_wait' = nonce_wait - 1
               /\ Xbuf_load_request' = Xbuf_load_request
    BY <2>4 DEF NonceWait, NoLoad
  <2> QED
    BY <2>1, <2>2, <2>3, <2>4 DEF Fsm
<1>5. CASE state' # "S_NONCE"
  BY <1>5 DEF LoadInv
<1>6. CASE nonce_wait' = 7 /\ state' = "S_NONCE"
  BY <1>2, <1>6, LoadBits DEF LoadInv
<1>7. CASE /\ state = "S_NONCE" /\ nonce_wait' = nonce_wait - 1
           /\ Xbuf_load_request' = Xbuf_load_request
  <2>1. skew + nonce_wait * PPeriod = skew + PPeriod + (nonce_wait - 1) * PPeriod
    BY <1>3, OneWaitLess
  <2>2. ASSUME NEW b \in 1 .. 3, Xbuf_load_request[b]
        PROVE  (3 - b) * hperiod < skew + PPeriod + (nonce_wait - 1) * PPeriod
    BY <1>7, <2>1, <2>2 DEF LoadInv
  <2> QED
    BY <1>2, <1>7, <2>2 DEF LoadInv
<1> QED
  BY <1>4, <1>5, <1>6, <1>7

LEMMA HashLoads ==
  ASSUME TypeInv, LoadInv, HashTick
  PROVE  LoadInv'
<1>1. /\ Xbuf_load_request' = Shift(Xbuf_load_request) /\ state' = state
      /\ nonce_wait' = nonce_wait /\ hperiod' = hperiod /\ skew' = skew - hperiod
  BY DEF HashTick, ShifterTick, ShiftControl, pbkdfClkVars
<1>2. hperiod \in Nat /\ PPeriod \in Nat /\ skew \in Int /\ nonce_wait \in 0 .. 7
  BY ClockAssumption DEF TypeInv, TypeOK, PbkdfTypeOK
<1>3. ASSUME NEW b \in 1 .. 3, Xbuf_load_request'[b], state' = "S_NONCE"
      PROVE  (3 - b) * hperiod < skew - hperiod + nonce_wait * PPeriod
  <2>1. b # 1 /\ Xbuf_load_request[b - 1]
    BY <1>1, <1>3 DEF Shift
  <2>2. b - 1 \in 1 .. 3
    BY <2>1
  <2>3. (3 - (b - 1)) * hperiod < skew + nonce_wait * PPeriod
    BY <1>1, <1>3, <2>1, <2>2 DEF LoadInv
  <2>4. (3 - (b - 1)) * hperiod = (3 - b) * hperiod + hperiod
    BY <1>2, OneMore
  <2>5. (3 - b) * hperiod \in Int /\ nonce_wait * PPeriod \in Int
    BY <1>2
  <2> QED
    BY <1>2, <2>3, <2>4, <2>5
<1> QED
  BY <1>1, <1>3 DEF LoadInv

LEMMA PairedInit == Init => PairedInv /\ LoadInv
<1> SUFFICES ASSUME Init PROVE PairedInv /\ LoadInv
  OBVIOUS
<1>1. /\ work = 0 /\ khash = Junk /\ Xbuf = Junk /\ state = "S_IDLE"
      /\ Xbuf_load_request = Still
  BY DEF Init, PbkdfInit
<1>2. sdata = [t \in Thread |-> Junk] /\ salsaShiftReg = Junk
  BY DEF Init, SalsaInit
<1>3. Junk \in Items /\ Junk.work = 0
  BY NoncesFacts DEF Junk, Item, Items
<1>4. PairedInv
  BY <1>1, <1>2, <1>3, JunkMatches DEF PairedInv
<1> QED
  BY <1>1, <1>4 DEF LoadInv

(* The nonce that comes back with a result is the one it was computed from *)
(* if a load crosses to hash_clk (three of its edges) within the eight     *)
(* cycles of pbkdf_clk before the nonce is counted on: hash_clk may not be *)
(* slower than three eighths of pbkdf_clk, 18.75 MHz.                      *)
THEOREM PairedIfLoadsInTime ==
  ASSUME LoadInTime
  PROVE  Spec => []Paired
<1> DEFINE I == TypeInv /\ PairedInv /\ LoadInv
<1>1. Init => I
  BY TypeInit, PairedInit
<1>2. I /\ [Next]_vars => I'
  <2> SUFFICES ASSUME I, [Next]_vars PROVE I'
    OBVIOUS
  <2>1. TypeInv'
    BY TypeStep
  <2>2. CASE PbkdfEdge
    BY <2>1, <2>2, PbkdfPairs, PbkdfLoads
  <2>3. CASE HashTick
    BY <2>1, <2>3, HashPairs, HashLoads
  <2>4. CASE UNCHANGED vars
    <3>1. UNCHANGED pbkdfVars /\ UNCHANGED salsaVars /\ UNCHANGED clockVars
      BY <2>4 DEF vars
    <3>2. PairedInv'
      BY <3>1 DEF PairedInv, Matches, pbkdfVars, pbkdfClkVars, shifterVars, crossVars, salsaVars
    <3>3. LoadInv'
      BY <3>1 DEF LoadInv, pbkdfVars, pbkdfClkVars, crossVars, clockVars
    <3> QED
      BY <2>1, <3>2, <3>3
  <2> QED
    BY <2>2, <2>3, <2>4 DEF Next, HashEdge, HashEdgeComplete
<1>3. I => Paired
  BY DEF PairedInv, Matches, Paired
<1> QED
  BY <1>1, <1>2, <1>3, PTL DEF Spec

-----------------------------------------------------------------------------
(* The reset.                                                              *)

LEMMA TimesMonotone ==
  ASSUME NEW m \in Int, NEW n \in Int, NEW c \in Nat, m <= n
  PROVE  m * c <= n * c
OBVIOUS

LEMMA ResetShorter ==
  ASSUME TypeInv, NEW n \in Nat, NEW m \in Nat, m <= n, ResetFor(n)
  PROVE  ResetFor(m)
<1>1. hperiod \in Nat /\ PPeriod \in Nat /\ skew \in Int /\ resetcycles \in Int /\ RESETCYCLES \in Int
  BY ClockAssumption, PbkdfAssumption DEF TypeInv, TypeOK, PbkdfTypeOK
<1>2. CASE m = 0
  BY <1>2 DEF ResetFor
<1>3. CASE m # 0
  <2>1. reset /\ (n - 1) * hperiod < skew + (RESETCYCLES - resetcycles) * PPeriod
    BY <1>3 DEF ResetFor
  <2>2. (m - 1) * hperiod <= (n - 1) * hperiod
    BY <1>1, TimesMonotone
  <2>3. /\ (m - 1) * hperiod \in Int /\ (n - 1) * hperiod \in Int
        /\ (RESETCYCLES - resetcycles) * PPeriod \in Int
    BY <1>1
  <2>4. (m - 1) * hperiod < skew + (RESETCYCLES - resetcycles) * PPeriod
    BY <1>1, <2>1, <2>2, <2>3
  <2> QED
    BY <2>1, <2>4 DEF ResetFor
<1> QED
  BY <1>2, <1>3

(* An edge of pbkdf_clk takes nothing from the edges of hash_clk to come.  *)
LEMMA PbkdfResetFor ==
  ASSUME TypeInv, PbkdfEdge, NEW n \in Nat, ResetFor(n)
  PROVE  ResetFor(n)'
<1>1. PICK loadnonce \in BOOLEAN : PbkdfTick(loadnonce)
  BY LoadsOrNot
<1>2. hperiod' = hperiod /\ skew' = skew + PPeriod /\ skew <= 0
  BY DEF PbkdfEdge
<1>3. hperiod \in Nat /\ PPeriod \in Nat /\ skew \in Int
  BY ClockAssumption DEF TypeInv, TypeOK
<1>4. RESETCYCLES \in Nat /\ resetcycles \in 0 .. RESETCYCLES
  BY PbkdfAssumption DEF TypeInv, TypeOK, PbkdfTypeOK
<1>5. CASE n = 0
  BY <1>5 DEF ResetFor
<1>6. CASE n # 0
  <2> DEFINE left == (RESETCYCLES - resetcycles) * PPeriod
  <2>1. reset /\ (n - 1) * hperiod < skew + left
    BY <1>6 DEF ResetFor
  <2>2. (n - 1) * hperiod >= 0 /\ (n - 1) * hperiod \in Int /\ left \in Int
    <3>1. 0 * hperiod <= (n - 1) * hperiod
      BY <1>3, <1>6, TimesMonotone
    <3> QED
      BY <1>3, <1>4, <3>1
  <2>3. resetcycles # RESETCYCLES
    <3>1. left > 0
      BY <1>2, <1>3, <2>1, <2>2
    <3>2. 0 * PPeriod = 0
      BY <1>3
    <3> QED
      BY <1>4, <3>1, <3>2
  <2>4. reset'
    BY <1>1, <2>1, <2>3 DEF PbkdfTick, ResetControl
  <2>5. resetcycles' = 0 \/ resetcycles' = resetcycles + 1
    BY <1>1, <2>3 DEF PbkdfTick, ResetControl
  <2>6. (RESETCYCLES - (resetcycles + 1)) * PPeriod = left - PPeriod
    <3>1. (RESETCYCLES - resetcycles - 1) * PPeriod = left - PPeriod
      BY <1>3, <1>4, Distribute
    <3>2. RESETCYCLES - resetcycles - 1 = RESETCYCLES - (resetcycles + 1)
      BY <1>4
    <3> QED
      BY <3>1, <3>2
  <2>7. left - PPeriod <= (RESETCYCLES - resetcycles') * PPeriod
    <3>1. CASE resetcycles' = resetcycles + 1
      BY <1>3, <2>2, <2>6, <3>1
    <3>2. CASE resetcycles' = 0
      <4>1. left <= (RESETCYCLES - 0) * PPeriod
        BY <1>3, <1>4, TimesMonotone
      <4>2. (RESETCYCLES - 0) * PPeriod \in Int
        BY <1>3, <1>4
      <4> QED
        BY <1>3, <2>2, <3>2, <4>1, <4>2
    <3> QED
      BY <2>5, <3>1, <3>2
  <2>8. (RESETCYCLES - resetcycles') * PPeriod \in Int
    BY <1>3, <1>4, <2>5
  <2> HIDE DEF left
  <2>9. (n - 1) * hperiod < skew + PPeriod + (RESETCYCLES - resetcycles') * PPeriod
    BY <1>3, <2>1, <2>2, <2>7, <2>8
  <2> QED
    BY <1>2, <2>4, <2>9 DEF ResetFor
<1> QED
  BY <1>5, <1>6

(* reset goes up for longer than a lap.                                    *)
LEMMA ResetRises ==
  ASSUME TypeInv, LongReset, PbkdfEdge, ~reset, reset'
  PROVE  ResetFor(THREADS + 1)'
<1>1. PICK loadnonce \in BOOLEAN : PbkdfTick(loadnonce)
  BY LoadsOrNot
<1>2. hperiod' = hperiod /\ skew' = skew + PPeriod
  BY DEF PbkdfEdge
<1>3. hperiod \in Nat /\ hperiod \in HPeriods /\ PPeriod \in Nat /\ skew \in Int /\ skew >= -hperiod
  BY ClockAssumption DEF TypeInv, TypeOK
<1>4. RESETCYCLES \in Nat \ {0} /\ THREADS \in Nat
  BY PbkdfAssumption, SalsaAssumption
<1>5. resetcycles = 0 /\ (resetcycles' = 0 \/ resetcycles' = 1)
  <2>1. /\ reset' = (resetcycles = 0 \/ (resetcycles # RESETCYCLES /\ reset))
        /\ resetcycles' = IF loadnonce THEN 0
                          ELSE IF resetcycles = RESETCYCLES THEN RESETCYCLES
                          ELSE resetcycles + 1
    BY <1>1 DEF PbkdfTick, ResetControl
  <2>2. resetcycles = 0 \/ (resetcycles # RESETCYCLES /\ reset)
    BY <2>1, Zenon
  <2>3. resetcycles = 0
    BY <2>2, Zenon
  <2> QED
    BY <1>4, <2>1, <2>3
<1>6. (THREADS + 1) * hperiod < RESETCYCLES * PPeriod
  BY <1>3 DEF LongReset
<1>7. (THREADS + 1) * hperiod \in Int /\ RESETCYCLES * PPeriod \in Int /\ THREADS * hperiod \in Int
  BY <1>3, <1>4
<1>8. THREADS * hperiod = (THREADS + 1) * hperiod - hperiod
  <2>1. (THREADS + 1 - 1) * hperiod = (THREADS + 1) * hperiod - hperiod
    BY <1>3, <1>4, Distribute
  <2>2. THREADS + 1 - 1 = THREADS
    BY <1>4
  <2> QED
    BY <2>1, <2>2
<1>9. RESETCYCLES * PPeriod - PPeriod <= (RESETCYCLES - resetcycles') * PPeriod
  <2>1. (RESETCYCLES - 1) * PPeriod = RESETCYCLES * PPeriod - PPeriod
    BY <1>3, <1>4, Distribute
  <2>2. (RESETCYCLES - 1) * PPeriod <= (RESETCYCLES - resetcycles') * PPeriod
    BY <1>3, <1>4, <1>5, TimesMonotone
  <2> QED
    BY <2>1, <2>2
<1>10. (RESETCYCLES - resetcycles') * PPeriod \in Int
  BY <1>3, <1>4, <1>5
<1>11. THREADS * hperiod < skew + PPeriod + (RESETCYCLES - resetcycles') * PPeriod
  BY <1>3, <1>6, <1>7, <1>8, <1>9, <1>10
<1>12. PICK n \in Nat : n = THREADS + 1
  BY <1>4
<1>13. n - 1 = THREADS
  BY <1>4, <1>12
<1>14. reset' /\ (n - 1) * hperiod' < skew' + (RESETCYCLES - resetcycles') * PPeriod
  BY <1>2, <1>11, <1>13
<1>15. ResetFor(n)'
  BY <1>14 DEF ResetFor
<1> QED
  BY <1>12, <1>15

(* An edge of hash_clk is one of them.                                     *)
LEMMA HashResetFor ==
  ASSUME TypeInv, HashTick, NEW n \in Nat, ResetFor(n + 1)
  PROVE  reset /\ ResetFor(n)'
<1>1. /\ hperiod' = hperiod /\ skew' = skew - hperiod
      /\ reset' = reset /\ resetcycles' = resetcycles
  BY DEF HashTick, ShifterTick, pbkdfClkVars
<1>2. hperiod \in Nat /\ PPeriod \in Nat /\ skew \in Int /\ resetcycles \in Int /\ RESETCYCLES \in Int
  BY ClockAssumption, PbkdfAssumption DEF TypeInv, TypeOK, PbkdfTypeOK
<1>3. reset /\ (n + 1 - 1) * hperiod < skew + (RESETCYCLES - resetcycles) * PPeriod
  BY DEF ResetFor
<1>4. n + 1 - 1 = n /\ (n - 1) * hperiod = n * hperiod - hperiod
  BY <1>2, Distribute
<1>5. n * hperiod \in Int /\ (RESETCYCLES - resetcycles) * PPeriod \in Int
  BY <1>2
<1>6. (n - 1) * hperiod < skew - hperiod + (RESETCYCLES - resetcycles) * PPeriod
  BY <1>2, <1>3, <1>4, <1>5
<1> QED
  BY <1>1, <1>3, <1>6 DEF ResetFor

LEMMA PbkdfResets ==
  ASSUME TypeInv, LongReset, ResetInv, PbkdfEdge
  PROVE  ResetInv'
<1>1. /\ reset_d' = reset_d /\ fsmreset' = fsmreset /\ sstate' = sstate /\ phase_d' = phase_d
  BY DEF PbkdfEdge, salsaVars
<1>2. THREADS \in Nat /\ THREADS + 1 \in Nat
  BY SalsaAssumption
<1>3. reset' /\ ~reset_d' => ResetFor(THREADS + 1)'
  <2>1. CASE reset
    BY <1>1, <1>2, <2>1, PbkdfResetFor DEF ResetInv
  <2>2. CASE ~reset
    BY <2>2, ResetRises
  <2> QED
    BY <2>1, <2>2
<1>4. reset_d' /\ ~fsmreset' => ResetFor(THREADS)'
  BY <1>1, <1>2, PbkdfResetFor DEF ResetInv
<1>5. ASSUME NEW n \in Nat, FsmResetFor(n) PROVE FsmResetFor(n)'
  <2>1. CASE n <= 1
    BY <1>1, <1>5, <2>1 DEF FsmResetFor
  <2>2. CASE n > 1
    <3>1. fsmreset /\ reset_d /\ ResetFor(n - 2) /\ n - 2 \in Nat
      BY <1>5, <2>2 DEF FsmResetFor
    <3>2. ResetFor(n - 2)'
      BY <3>1, PbkdfResetFor
    <3> QED
      BY <1>1, <2>2, <3>1, <3>2 DEF FsmResetFor
  <2> QED
    BY <2>1, <2>2
<1>6. ASSUME fsmreset', NEW t \in Thread, sstate'[t] # "R_IDLE"
      PROVE  FsmResetFor(Distance(t) + 1)'
  <2>0. Distance(t) + 1 \in Nat
    <3>1. /\ phase_d \in 0 .. THREADS + 1 /\ t \in 0 .. THREADS - 1
      BY DEF TypeInv, TypeOK, SalsaTypeOK, Thread
    <3> QED
      BY <1>2, <3>1 DEF Distance
  <2>1. PICK n \in Nat : n = Distance(t) + 1
    BY <2>0
  <2>2. FsmResetFor(n)'
    BY <1>1, <1>5, <1>6, <2>1 DEF ResetInv
  <2>3. n = Distance(t)' + 1
    BY <1>1, <2>1 DEF Distance
  <2> QED
    BY <2>2, <2>3 DEF FsmResetFor, ResetFor
<1> QED
  BY <1>3, <1>4, <1>6 DEF ResetInv

(* The slot of a thread comes one phase closer.                            *)
LEMMA Closer ==
  ASSUME TypeInv, phase_d' = phase, NEW t \in Thread
  PROVE  /\ Distance(t) \in 0 .. THREADS /\ Distance(t)' \in 0 .. THREADS
         /\ t # phase_d => Distance(t)' = Distance(t) - 1 /\ Distance(t) > 0
<1>1. /\ phase_d \in 0 .. THREADS + 1 /\ phase \in 0 .. THREADS
      /\ phase = IF phase_d < THREADS THEN phase_d + 1 ELSE 0
  BY DEF TypeInv, TypeOK, SalsaTypeOK, RingInv
<1>2. THREADS \in Nat /\ t \in 0 .. THREADS - 1
  BY SalsaAssumption DEF Thread
<1>3. CASE phase_d <= t
  <2>1. Distance(t) = t - phase_d /\ phase = phase_d + 1
    BY <1>1, <1>2, <1>3 DEF Distance
  <2>2. CASE phase_d = t
    BY <1>1, <1>2, <2>1, <2>2 DEF Distance
  <2>3. CASE phase_d # t
    <3>1. Distance(t)' = t - (phase_d + 1)
      BY <1>1, <1>2, <1>3, <2>1, <2>3 DEF Distance
    <3> QED
      BY <1>1, <1>2, <1>3, <2>1, <2>3, <3>1
  <2> QED
    BY <2>2, <2>3
<1>4. CASE t < phase_d /\ phase_d <= THREADS
  <2>1. Distance(t) = t - phase_d + THREADS + 1
    BY <1>1, <1>2, <1>4 DEF Distance
  <2>2. CASE phase_d < THREADS
    <3>1. Distance(t)' = t - (phase_d + 1) + THREADS + 1
      BY <1>1, <1>2, <1>4, <2>2 DEF Distance
    <3> QED
      BY <1>1, <1>2, <1>4, <2>1, <2>2, <3>1
  <2>3. CASE ~(phase_d < THREADS)
    <3>1. Distance(t)' = t
      BY <1>1, <1>2, <2>3 DEF Distance
    <3> QED
      BY <1>1, <1>2, <1>4, <2>1, <2>3, <3>1
  <2> QED
    BY <2>2, <2>3
<1>5. CASE phase_d > THREADS
  <2>1. Distance(t) = t + 1
    BY <1>1, <1>2, <1>5 DEF Distance
  <2>2. Distance(t)' = t
    BY <1>1, <1>2, <1>5 DEF Distance
  <2> QED
    BY <1>2, <1>5, <2>1, <2>2
<1> QED
  BY <1>1, <1>2, <1>3, <1>4, <1>5

LEMMA HashResets ==
  ASSUME TypeInv, ResetInv, HashTick
  PROVE  ResetInv' /\ (fsmreset /\ ~fsmreset' => \A t \in Thread : sstate'[t] = "R_IDLE")
<1>1. /\ reset_d' = reset /\ fsmreset' = reset_d /\ reset' = reset /\ phase_d' = phase
      /\ sstate' = IF phase_d \in Thread
                   THEN [sstate EXCEPT ![phase_d] = IF fsmreset THEN "R_IDLE" ELSE mstate]
                   ELSE sstate
  BY DEF HashTick, SalsaTick, Rotate, ShifterTick, pbkdfClkVars
<1>2. THREADS \in Nat \ {0}
  BY SalsaAssumption
<1>3. sstate \in [Thread -> ThreadState]
  BY DEF TypeInv, TypeOK, SalsaTypeOK
<1>4. reset' /\ ~reset_d' => ResetFor(THREADS + 1)'
  BY <1>1
<1>5. reset_d' /\ ~fsmreset' => ResetFor(THREADS)'
  BY <1>1, <1>2, HashResetFor DEF ResetInv
<1>6. ASSUME fsmreset, NEW t \in Thread, sstate'[t] # "R_IDLE"
      PROVE  /\ FsmResetFor(Distance(t) + 1) /\ t # phase_d
  <2>1. t # phase_d /\ sstate'[t] = sstate[t]
    BY <1>1, <1>3, <1>6
  <2> QED
    BY <1>6, <2>1 DEF ResetInv
<1>7. ASSUME fsmreset', NEW t \in Thread, sstate'[t] # "R_IDLE"
      PROVE  FsmResetFor(Distance(t) + 1)'
  <2>1. PICK c \in 0 .. THREADS : c = Distance(t)
    BY <1>1, Closer
  <2>2. PICK e \in 0 .. THREADS : e = Distance(t)'
    BY <1>1, Closer
  <2>3. t # phase_d => e = c - 1 /\ c > 0
    BY <1>1, <2>1, <2>2, Closer
  <2>4. e # 0 => reset /\ fsmreset' /\ reset_d' /\ ResetFor(e - 1)'
    <3>1. CASE e # 0 /\ ~fsmreset
      <4>1. ResetFor(THREADS)
        BY <1>1, <1>7, <3>1 DEF ResetInv
      <4>2. ResetFor(e) /\ e - 1 \in Nat /\ e - 1 + 1 = e
        BY <1>2, <3>1, <4>1, ResetShorter
      <4>3. reset /\ ResetFor(e - 1)'
        BY <4>2, HashResetFor
      <4> QED
        BY <1>1, <1>7, <4>3
    <3>2. CASE e # 0 /\ fsmreset
      <4>1. FsmResetFor(c + 1) /\ t # phase_d
        BY <1>6, <1>7, <2>1, <3>2
      <4>2. c + 1 > 1 /\ c + 1 - 2 = e /\ e - 1 \in Nat /\ e - 1 + 1 = e
        BY <2>3, <3>2, <4>1
      <4>3. ResetFor(e)
        BY <4>1, <4>2 DEF FsmResetFor
      <4>4. reset /\ ResetFor(e - 1)'
        BY <4>2, <4>3, HashResetFor
      <4> QED
        BY <1>1, <1>7, <4>4
    <3> QED
      BY <3>1, <3>2
  <2>5. e + 1 - 2 = e - 1 /\ (e + 1 > 1 => e # 0)
    OBVIOUS
  <2>6. FsmResetFor(e + 1)'
    BY <1>7, <2>4, <2>5 DEF FsmResetFor
  <2> QED
    BY <2>2, <2>6 DEF FsmResetFor, ResetFor
<1>8. ASSUME fsmreset, ~fsmreset', NEW t \in Thread
      PROVE  sstate'[t] = "R_IDLE"
  <2> SUFFICES ASSUME sstate'[t] # "R_IDLE" PROVE FALSE
    OBVIOUS
  <2>1. FsmResetFor(Distance(t) + 1) /\ t # phase_d
    BY <1>6, <1>8
  <2>2. Distance(t) > 0 /\ Distance(t) \in Nat
    BY <1>1, <2>1, Closer
  <2>3. reset_d
    BY <2>1, <2>2 DEF FsmResetFor
  <2> QED
    BY <1>1, <1>8, <2>3
<1> QED
  BY <1>4, <1>5, <1>7, <1>8 DEF ResetInv

LEMMA ResetInit == Init => ResetInv
<1>1. Init => ~reset /\ ~reset_d /\ ~fsmreset
  BY Zenon DEF Init, PbkdfInit, SalsaInit
<1> QED
  BY <1>1, Zenon DEF ResetInv

(* When fsmreset goes down all slots are idle, if reset is longer than a   *)
(* lap of the ring and the synchroniser: the hazard of pbkdfengine.v 60-62 *)
(* is absent when hash_clk makes THREADS + 1 edges in RESETCYCLES cycles   *)
(* of pbkdf_clk.                                                           *)
THEOREM ResetReachesAllIfLong ==
  ASSUME LongReset
  PROVE  Spec => ResetReachesAll
<1> DEFINE I == TypeInv /\ ResetInv
<1> DEFINE Reached == fsmreset /\ ~fsmreset' => \A t \in Thread : sstate'[t] = "R_IDLE"
<1>1. Init => I
  BY TypeInit, ResetInit
<1>2. I /\ [Next]_vars => I' /\ Reached
  <2> SUFFICES ASSUME I, [Next]_vars PROVE I' /\ Reached
    OBVIOUS
  <2>1. TypeInv'
    BY TypeStep
  <2>2. CASE PbkdfEdge
    <3>1. fsmreset' = fsmreset
      BY <2>2 DEF PbkdfEdge, salsaVars
    <3> QED
      BY <2>1, <2>2, <3>1, PbkdfResets
  <2>3. CASE HashTick
    BY <2>1, <2>3, HashResets
  <2>4. CASE UNCHANGED vars
    <3>1. UNCHANGED pbkdfVars /\ UNCHANGED salsaVars /\ UNCHANGED clockVars
      BY <2>4 DEF vars
    <3>2. fsmreset' = fsmreset
      BY <3>1 DEF salsaVars
    <3>3. ResetInv'
      BY <3>1 DEF ResetInv, ResetFor, FsmResetFor, Distance, pbkdfVars, pbkdfClkVars,
                  salsaVars, clockVars
    <3> QED
      BY <2>1, <3>2, <3>3
  <2> QED
    BY <2>2, <2>3, <2>4 DEF Next, HashEdge, HashEdgeComplete
<1> QED
  BY <1>1, <1>2, PTL DEF Spec, ResetReachesAll

-----------------------------------------------------------------------------
(* Shifts and loads.                                                       *)
(*                                                                         *)
(* A core never shifts its data while a thread takes its input: "NB must   *)
(* ensure shift and result do NOT overlap by carefully controlling timing  *)
(* of start signal" (salsaengine.v 236).  Nothing in the two engines       *)
(* excludes it directly: a shift is asked for in one clock and made in the *)
(* other, while threads start and complete.  What excludes it is time.     *)
(* OverlapInv says for every register on the way how many edges of either  *)
(* clock are left, and InTime what the constants of the design must give   *)
(* for that to be enough.                                                  *)

(* The next n edges of hash_clk come before the k-th of pbkdf_clk.         *)
Within(n, k) == n > 0 => (n - 1) * hperiod < skew + (k - 1) * PPeriod

(* The time since the last load of a thread, and j more cycles of          *)
(* pbkdf_clk, are no more than c cycles of hash_clk and d of pbkdf_clk.    *)
Spent(j, c, d) == since * hperiod + skew + j * PPeriod <= c * hperiod + d * PPeriod
Early(c, d) == since * hperiod <= c * hperiod + d * PPeriod

(* A reset lasts for a lap of the ring and for the crossings; an input     *)
(* takes longer to make than the threads to start; a result is shifted     *)
(* out, and busy seen, before the next thread can complete.                *)
InTime ==
  /\ SHIFTS > 1
  /\ \A h \in HPeriods :
       /\ (THREADS + 2) * h < RESETCYCLES * PPeriod
       /\ 5 * h < (RESETCYCLES - 3) * PPeriod
       /\ (THREADS + 4) * h < (InCycles + 10) * PPeriod
       /\ 3 * PPeriod + (SHIFTS + 3) * h <= SPACING * h
       /\ 3 * PPeriod + (THREADS + 3) * h < SPACING * h

Lap == THREADS + 1
(* Edges of hash_clk until the slot of t is in phase, that one included.   *)
Turn(t) == IF t = phase_d THEN Lap ELSE Distance(t)

(* The crossings, and the slots.                                           *)
Underway(c) == c[1] \/ c[2] \/ c[3]
OneBit(c) == ~(c[1] /\ c[2]) /\ ~(c[1] /\ c[3]) /\ ~(c[2] /\ c[3])
SomeIn(s) == \E t \in Thread : Slot(t) = s
OnlyOneIn(s) == \A t, u \in Thread : Slot(t) = s /\ Slot(u) = s => t = u

Shifting == state \in {"S_SHIFT_IN", "S_SHIFT_OUT"}
Pending == Underway(shift_request) \/ salsa_shift
InReady == SMixInRdy_state \/ Set_SMixInRdy
Rise == result /\ ~salsa_result_d
BusyRise == busy_flag /\ ~salsa_busy_d

(* The next n edges of hash_clk leave three cycles of reset; c will be     *)
(* still when it ends.                                                     *)
CyclesLeft == RESETCYCLES - resetcycles
Clears(n) == Within(n, CyclesLeft - 1)
Flushed(c) == (c[1] => CyclesLeft >= 2) /\ (c[2] => CyclesLeft >= 1)

(* One shift at a time is asked for, made and acknowledged.                *)
ShiftInv ==
  /\ OneBit(shift_request) /\ OneBit(shift_acknowledge)
  /\ Pending \/ shift_count # 0 => ~Underway(shift_acknowledge)
  /\ salsa_shift \/ shift_count # 0 => ~Underway(shift_request)
  /\ ~reset /\ ~Shifting => ~Pending /\ ~Underway(shift_acknowledge)
  /\ ~reset /\ Shifting => Pending \/ Underway(shift_acknowledge)
  /\ ~reset /\ shift_count # 0 => salsa_shift

(* What reset finds on its way is over when it ends.                       *)
ShiftFlushInv ==
  reset => /\ shift_request[1] => Clears(5)
           /\ shift_request[2] => Clears(4)
           /\ shift_request[3] => Clears(3)
           /\ salsa_shift => Clears(2)
           /\ shift_count # 0 => Clears(1)
           /\ Flushed(shift_acknowledge)
FlushInv ==
  reset => /\ ~reset_d => Clears(3)
           /\ ~fsmreset => Clears(2)
           /\ Rise \/ BusyRise => Clears(1)
           /\ Flushed(result_seen) /\ Flushed(busy_seen)
StartFlushInv ==
  reset => /\ InReady => resetcycles <= 1
           /\ start_d => InReady \/ Clears(2)
           /\ fsmstart => InReady \/ Clears(1)

(* A thread that is in order runs, or will once more be reset.             *)
Runs(t) == \E i \in DOMAIN order : order[i] = t
LapInv ==
  /\ reset /\ ~reset_d => ResetFor(THREADS + 2)
  /\ reset_d /\ ~fsmreset => ResetFor(THREADS + 1)
  /\ fsmreset /\ XSload => FsmResetFor(THREADS + 2)
OrderInv ==
  /\ \A t \in Thread : Runs(t) =>
       IF fsmreset THEN (t = phase_d /\ XSload) \/ FsmResetFor(Distance(t) + 1)
                   ELSE Slot(t) # "R_IDLE"
  /\ XSload => mstate = "R_START"

(* While an input is made, threads that can still start have done so       *)
(* before its shift is asked for.                                          *)
Input == state \in {"S_B6", "S_NONCE"} \/ (state = "S_HASH" /\ mode = 0)
Output == start_output \/ state \in {"S_SHIFT_OUT", "S_R18"} \/ (state = "S_HASH" /\ mode = 1)
ToAsk == CASE state = "S_HASH" -> InCycles - cnt + 10
           [] state = "S_B6" -> 9
           [] OTHER -> nonce_wait + 1
NotReadyInv ==
  /\ state = "S_HASH" /\ mode = 0 => cnt <= InCycles
  /\ Input \/ state = "S_SHIFT_IN" => ~InReady
InputInv ==
  ~reset /\ Input =>
    /\ start_d \/ reset_d => Within(Lap + 3, ToAsk)
    /\ fsmstart \/ fsmreset => Within(Lap + 2, ToAsk)
    /\ start_flag => \A t \in Thread : Slot(t) = "R_IDLE" => Within(Turn(t) + 1, ToAsk)
    /\ XSload => Within(1, ToAsk)
ReadyInv ==
  ~reset => /\ Output => SMixOutRdy_state /\ ~Clr_SMixOutRdy
            /\ start_output => state = "S_IDLE"
            /\ Clr_SMixOutRdy => SMixOutRdy_state /\ state = "S_IDLE"
            /\ SMixOutRdy_state => Output \/ Clr_SMixOutRdy

(* No thread takes its input until a shift that was asked for is over:     *)
(* none is to start, or none can complete.                                 *)
Left == IF salsa_shift THEN SHIFTS - shift_count
        ELSE IF shift_request[1] THEN 3 + SHIFTS
        ELSE IF shift_request[2] THEN 2 + SHIFTS ELSE 1 + SHIFTS
QuietIn == /\ ~InReady /\ ~start_d /\ ~fsmstart
           /\ start_flag /\ SomeIn("R_IDLE") => fsmreset
QuietOut == since + Left <= SPACING /\ ~SomeIn("R_WAIT") /\ (SomeIn("R_IDLE") => fsmreset)
QuietInv ==
  Pending => /\ ~XSload /\ (reset_d => reset) /\ (fsmreset => reset_d)
             /\ QuietIn \/ QuietOut

(* busy comes soon after a load, and start goes down soon after busy.      *)
TakingInv ==
  /\ \A t \in Thread :
       Slot(t) = "R_START" /\ ~(XSload /\ t = phase_d) => since + Turn(t) <= THREADS
  /\ BusyRise => since <= THREADS
  /\ busy_seen[1] => Spent(2, THREADS, 3)
  /\ busy_seen[2] => Spent(1, THREADS, 3)
  /\ busy_seen[3] => Spent(0, THREADS, 3)
StartInv ==
  ~reset => /\ start_d => SMixInRdy \/ Early(THREADS + 1, 2)
            /\ fsmstart => SMixInRdy \/ Early(THREADS + 2, 2)
WaitInv ==
  /\ OnlyOneIn("R_WAIT")
  /\ SomeIn("R_WAIT") =>
       since = SPACING /\ ~busy_flag /\ ~XSload /\ (SomeIn("R_IDLE") => fsmreset)

(* One result at a time is on its way to pbkdfengine, and a thread that    *)
(* completes finds the one before fetched.                                 *)
FetchPending == Rise \/ Underway(result_seen)
OutputBusy == FetchPending \/ SMixOutRdy_state
Taking == SomeIn("R_START") \/ BusyRise \/ Underway(busy_seen)

FetchInv ==
  ~reset =>
  /\ OneBit(result_seen)
  /\ OutputBusy => /\ ~Input /\ state # "S_SHIFT_IN"
                   /\ ~reset_d /\ ~fsmreset /\ ~SomeIn("R_IDLE")
                   /\ Set_SMixInRdy => ~busy_seen[2] /\ ~busy_seen[3]
  /\ FetchPending => ~SMixOutRdy_state /\ ~SomeIn("R_WAIT") /\ InReady
  /\ Rise => XSload /\ ~Underway(result_seen) /\ ~Underway(busy_seen) /\ ~busy_flag
  /\ result_seen[1] => ~XSload /\ Spent(2, -1, 3) /\ ~busy_seen[2] /\ ~busy_seen[3]
  /\ result_seen[2] => ~XSload /\ Spent(1, -1, 3) /\ ~busy_seen[3]
  /\ result_seen[3] => ~XSload /\ Spent(0, -1, 3)

(* One thread takes the input that is ready, then its busy is on its way.  *)
TakingOnce ==
  /\ Taking
  /\ SomeIn("R_START") => ~busy_flag
  /\ SomeIn("R_START") \/ BusyRise => ~Underway(busy_seen)
  /\ BusyRise => ~SomeIn("R_START")
  /\ OnlyOneIn("R_START")
ExchangeInv == ~reset /\ OutputBusy /\ SMixInRdy => TakingOnce

OverlapInv ==
  /\ TypeInv /\ ResetInv
  /\ ShiftInv /\ ShiftFlushInv /\ FlushInv /\ StartFlushInv /\ LapInv /\ OrderInv
  /\ NotReadyInv /\ InputInv /\ ReadyInv /\ QuietInv
  /\ TakingInv /\ StartInv /\ WaitInv /\ FetchInv /\ ExchangeInv

-----------------------------------------------------------------------------
(* The numbers, and the flags.                                             *)

LEMMA Numbers ==
  ASSUME TypeInv
  PROVE  /\ hperiod \in HPeriods /\ hperiod \in Nat /\ hperiod > 0
         /\ PPeriod \in Nat /\ PPeriod > 0
         /\ skew \in Int /\ -hperiod <= skew /\ skew <= PPeriod
         /\ RESETCYCLES \in Nat /\ RESETCYCLES > 0
         /\ resetcycles \in Nat /\ resetcycles <= RESETCYCLES
         /\ CyclesLeft \in Nat
         /\ THREADS \in Nat /\ THREADS > 0
         /\ SHIFTS \in Nat /\ shift_count \in Nat /\ shift_count <= SHIFTS - 1
         /\ SPACING \in Nat /\ since \in Nat /\ since <= SPACING
         /\ InCycles \in Nat /\ cnt \in Nat /\ nonce_wait \in Nat
<1>1. PbkdfTypes /\ SalsaTypes /\ hperiod \in HPeriods /\ skew \in -hperiod .. PPeriod
  BY PbkdfTypesMean, SalsaTypesMean DEF TypeInv, TypeOK
<1>2. hperiod \in Nat /\ hperiod > 0 /\ PPeriod \in Nat /\ PPeriod > 0
  BY <1>1, ClockAssumption
<1>3. skew \in Int /\ -hperiod <= skew /\ skew <= PPeriod
  BY <1>1, <1>2
<1>4. /\ RESETCYCLES \in Nat /\ RESETCYCLES > 0
      /\ resetcycles \in Nat /\ resetcycles <= RESETCYCLES /\ RESETCYCLES - resetcycles \in Nat
      /\ SHIFTS \in Nat /\ shift_count \in Nat /\ shift_count <= SHIFTS - 1
      /\ InCycles \in Nat /\ cnt \in Nat /\ nonce_wait \in Nat
  BY <1>1, PbkdfAssumption DEF PbkdfTypes
<1>5. THREADS \in Nat /\ THREADS > 0 /\ SPACING \in Nat /\ since \in Nat /\ since <= SPACING
  BY <1>1, SalsaAssumption DEF SalsaTypes
<1> QED
  BY <1>1, <1>2, <1>3, <1>4, <1>5 DEF CyclesLeft

LEMMA TimeBounds ==
  ASSUME TypeInv, InTime
  PROVE  /\ LongReset
         /\ (THREADS + 2) * hperiod < RESETCYCLES * PPeriod
         /\ 5 * hperiod < (RESETCYCLES - 3) * PPeriod
         /\ (THREADS + 4) * hperiod < (InCycles + 10) * PPeriod
         /\ 3 * PPeriod + (SHIFTS + 3) * hperiod <= SPACING * hperiod
         /\ 3 * PPeriod + (THREADS + 3) * hperiod < SPACING * hperiod
<1>1. LongReset
  <2> SUFFICES ASSUME NEW h \in HPeriods PROVE (THREADS + 1) * h < RESETCYCLES * PPeriod
    BY DEF LongReset
  <2>1. h \in Nat /\ THREADS \in Nat /\ PPeriod \in Nat /\ RESETCYCLES \in Nat
    BY ClockAssumption, SalsaAssumption, PbkdfAssumption
  <2>2. (THREADS + 2) * h < RESETCYCLES * PPeriod
    BY DEF InTime
  <2>3. (THREADS + 1) * h <= (THREADS + 2) * h
    BY <2>1, TimesMonotone
  <2>4. (THREADS + 1) * h \in Int /\ (THREADS + 2) * h \in Int /\ RESETCYCLES * PPeriod \in Int
    BY <2>1
  <2> QED
    BY <2>2, <2>3, <2>4
<1> QED
  BY <1>1, Numbers DEF InTime

(* An edge of pbkdf_clk, seen from salsaengine; and what both leave alone. *)
LEMMA PbkdfClock ==
  ASSUME TypeInv, PbkdfEdge
  PROVE  /\ skew <= 0 /\ skew' = skew + PPeriod /\ hperiod' = hperiod
         /\ resetcycles' \in Nat /\ resetcycles' <= RESETCYCLES
         /\ CyclesLeft' = RESETCYCLES - resetcycles' /\ CyclesLeft' >= CyclesLeft - 1
         /\ reset' <=> (resetcycles = 0 \/ (CyclesLeft # 0 /\ reset))
         /\ ~reset /\ reset' => resetcycles' <= 1
         /\ reset /\ reset' => CyclesLeft > 0
         /\ resetcycles' <= resetcycles + 1
<1>1. PICK loadnonce \in BOOLEAN : PbkdfTick(loadnonce)
  BY LoadsOrNot
<1>2. skew <= 0 /\ skew' = skew + PPeriod /\ hperiod' = hperiod
  BY DEF PbkdfEdge
<1>3. RESETCYCLES \in Nat /\ RESETCYCLES > 0 /\ resetcycles \in Nat /\ resetcycles <= RESETCYCLES
  BY Numbers
<1>4. resetcycles' = IF loadnonce THEN 0
                     ELSE IF resetcycles = RESETCYCLES THEN RESETCYCLES
                     ELSE resetcycles + 1
  BY <1>1 DEF PbkdfTick, ResetControl
<1>5. reset' = (resetcycles = 0 \/ (resetcycles # RESETCYCLES /\ reset))
  BY <1>1 DEF PbkdfTick, ResetControl
<1>6. reset' <=> (resetcycles = 0 \/ (resetcycles # RESETCYCLES /\ reset))
  BY <1>5, Zenon
<1>7. /\ resetcycles' \in Nat /\ resetcycles' <= RESETCYCLES
      /\ RESETCYCLES - resetcycles' >= RESETCYCLES - resetcycles - 1
      /\ (resetcycles = 0 => resetcycles' <= 1) /\ resetcycles' <= resetcycles + 1
  BY <1>3, <1>4
<1>8. CyclesLeft' = RESETCYCLES - resetcycles' /\ CyclesLeft = RESETCYCLES - resetcycles
  BY DEF CyclesLeft
<1>9. CyclesLeft # 0 <=> resetcycles # RESETCYCLES
  BY <1>3, <1>8
<1>10. reset /\ reset' => CyclesLeft > 0
  BY <1>3, <1>6, <1>8
<1>11. ~reset /\ reset' => resetcycles' <= 1
  BY <1>6, <1>7
<1> QED
  BY <1>2, <1>6, <1>7, <1>8, <1>9, <1>10, <1>11

LEMMA HashClock ==
  ASSUME TypeInv, HashTick
  PROVE  /\ skew >= 0 /\ skew' = skew - hperiod /\ hperiod' = hperiod
         /\ resetcycles' = resetcycles /\ CyclesLeft' = CyclesLeft /\ (reset' <=> reset)
BY DEF HashTick, ShifterTick, pbkdfClkVars, CyclesLeft

-----------------------------------------------------------------------------
(* Edges to come.                                                          *)

LEMMA WithinFewer ==
  ASSUME TypeInv, NEW n \in Int, NEW k \in Int, NEW m \in Int, NEW l \in Int,
         Within(n, k), m <= n, k <= l
  PROVE  Within(m, l)
<1>1. hperiod \in Nat /\ PPeriod \in Nat /\ skew \in Int
  BY Numbers
<1>2. (m - 1) * hperiod <= (n - 1) * hperiod /\ (k - 1) * PPeriod <= (l - 1) * PPeriod
  BY <1>1, TimesMonotone
<1>3. /\ (m - 1) * hperiod \in Int /\ (n - 1) * hperiod \in Int
      /\ (k - 1) * PPeriod \in Int /\ (l - 1) * PPeriod \in Int
  BY <1>1
<1> QED
  BY <1>1, <1>2, <1>3 DEF Within

LEMMA LessIsWithin ==
  TypeInv => \A a, b, c, d \in Int : Within(a, b) /\ c <= a /\ b <= d => Within(c, d)
BY WithinFewer

LEMMA WithinHash ==
  ASSUME TypeInv, HashTick, NEW n \in Int, NEW k \in Int, Within(n, k)
  PROVE  Within(n - 1, k)'
<1>1. hperiod \in Nat /\ PPeriod \in Nat /\ skew \in Int
  BY Numbers
<1>2. skew' = skew - hperiod /\ hperiod' = hperiod
  BY HashClock
<1>3. (n - 1 - 1) * hperiod = (n - 1) * hperiod - hperiod
  BY <1>1, Distribute
<1>4. (n - 1) * hperiod \in Int /\ (k - 1) * PPeriod \in Int
  BY <1>1
<1> QED
  BY <1>1, <1>2, <1>3, <1>4 DEF Within

LEMMA WithinPbkdf ==
  ASSUME TypeInv, PbkdfEdge, NEW n \in Int, NEW k \in Int, Within(n, k)
  PROVE  Within(n, k - 1)'
<1>1. hperiod \in Nat /\ PPeriod \in Nat /\ skew \in Int
  BY Numbers
<1>2. skew' = skew + PPeriod /\ hperiod' = hperiod
  BY PbkdfClock
<1>3. (k - 1 - 1) * PPeriod = (k - 1) * PPeriod - PPeriod
  BY <1>1, Distribute
<1>4. (n - 1) * hperiod \in Int /\ (k - 1) * PPeriod \in Int
  BY <1>1
<1> QED
  BY <1>1, <1>2, <1>3, <1>4 DEF Within

(* An edge of pbkdf_clk was the k-th, and none of hash_clk came first.     *)
LEMMA WithinNow ==
  ASSUME TypeInv, PbkdfEdge, NEW n \in Int, Within(n, 1)
  PROVE  n <= 0
<1>1. hperiod \in Nat /\ PPeriod \in Nat /\ skew \in Int
  BY Numbers
<1>2. skew <= 0
  BY PbkdfClock
<1>3. n > 0 => 0 * hperiod <= (n - 1) * hperiod
  BY <1>1, TimesMonotone
<1>4. 0 * hperiod = 0 /\ (1 - 1) * PPeriod = 0 /\ (n - 1) * hperiod \in Int
  BY <1>1
<1> QED
  BY <1>1, <1>2, <1>3, <1>4 DEF Within

(* After an edge of pbkdf_clk there is time for what fits into its cycles. *)
LEMMA WithinStart ==
  ASSUME TypeInv, PbkdfEdge, NEW n \in Int, NEW k \in Int, n * hperiod < k * PPeriod
  PROVE  Within(n, k)'
<1>1. hperiod \in Nat /\ PPeriod \in Nat /\ skew \in Int /\ -hperiod <= skew
  BY Numbers
<1>2. skew' = skew + PPeriod /\ hperiod' = hperiod
  BY PbkdfClock
<1>3. (n - 1) * hperiod = n * hperiod - hperiod /\ (k - 1) * PPeriod = k * PPeriod - PPeriod
  BY <1>1, Distribute
<1>4. n * hperiod \in Int /\ k * PPeriod \in Int
  BY <1>1
<1> QED
  BY <1>1, <1>2, <1>3, <1>4 DEF Within

(* The same of the cycles of reset.                                        *)
LEMMA ClearsFewer ==
  ASSUME TypeInv, NEW n \in Int, NEW m \in Int, Clears(n), m <= n
  PROVE  Clears(m)
<1>1. CyclesLeft - 1 \in Int /\ CyclesLeft - 1 <= CyclesLeft - 1
  BY Numbers
<1> QED
  BY <1>1, WithinFewer DEF Clears

LEMMA ClearsHash ==
  ASSUME TypeInv, HashTick, NEW n \in Int, NEW m \in Int, Clears(n), m = n - 1
  PROVE  Clears(m)'
<1>1. PICK k \in Int : k = CyclesLeft - 1
  BY Numbers
<1>2. Within(n - 1, k)'
  BY <1>1, WithinHash DEF Clears
<1>3. (CyclesLeft - 1)' = k
  BY <1>1, HashClock
<1>4. m = n - 1
  OBVIOUS
<1> QED
  BY <1>2, <1>3, <1>4 DEF Clears, Within

LEMMA ClearsPbkdf ==
  ASSUME TypeInv, TypeInv', PbkdfEdge, NEW n \in Int, Clears(n)
  PROVE  Clears(n)'
<1>1. PICK k \in Int : k = CyclesLeft - 1
  BY Numbers
<1>2. PICK l \in Int : l = CyclesLeft' - 1
  BY PbkdfClock, Numbers
<1>3. Within(n, k - 1)'
  BY <1>1, WithinPbkdf DEF Clears
<1>4. k - 1 <= l
  BY <1>1, <1>2, PbkdfClock, Numbers
<1>5. (TypeInv => \A a, b, c, d \in Int : Within(a, b) /\ c <= a /\ b <= d => Within(c, d))'
  BY LessIsWithin, PTL
<1>6. Within(n, l)'
  BY <1>3, <1>4, <1>5
<1> QED
  BY <1>2, <1>6 DEF Clears, Within

LEMMA ClearsNow ==
  ASSUME TypeInv, NEW n \in Int, n > 0, Clears(n)
  PROVE  CyclesLeft >= 2
<1>1. Clears(1)
  BY ClearsFewer
<1>2. (1 - 1) * hperiod < skew + (CyclesLeft - 1 - 1) * PPeriod
  BY <1>1 DEF Clears, Within
<1>3. hperiod \in Nat /\ PPeriod \in Nat /\ skew \in Int /\ skew <= PPeriod /\ CyclesLeft \in Nat
  BY Numbers
<1>4. (1 - 1) * hperiod = 0
  BY <1>3
<1>5. CyclesLeft <= 1 => (CyclesLeft - 1 - 1) * PPeriod <= (-1) * PPeriod
  BY <1>3, TimesMonotone
<1>6. (-1) * PPeriod = -PPeriod /\ (CyclesLeft - 1 - 1) * PPeriod \in Int
  BY <1>3
<1> QED
  BY <1>2, <1>3, <1>4, <1>5, <1>6

LEMMA ClearsRise ==
  ASSUME TypeInv, TypeInv', InTime, PbkdfEdge, resetcycles' <= 2, NEW n \in Int, n <= 5
  PROVE  Clears(n)'
<1>1. PICK l \in Int : l = CyclesLeft' - 1
  BY PbkdfClock, Numbers
<1>2. RESETCYCLES - 3 \in Int /\ RESETCYCLES - 3 <= l
  BY <1>1, PbkdfClock, Numbers
<1>3. Within(5, RESETCYCLES - 3)'
  BY <1>2, TimeBounds, WithinStart
<1>4. (TypeInv => \A a, b, c, d \in Int : Within(a, b) /\ c <= a /\ b <= d => Within(c, d))'
  BY LessIsWithin, PTL
<1>5. PICK k \in Int : k = RESETCYCLES - 3
  BY <1>2
<1>6. Within(5, k)'
  BY <1>3, <1>5
<1>7. Within(n, l)'
  BY <1>2, <1>4, <1>5, <1>6
<1> QED
  BY <1>1, <1>7 DEF Clears, Within

(* reset and fsmreset at the edges to come.                                *)
LEMMA ResetStarts ==
  ASSUME TypeInv, PbkdfEdge, ~reset, reset', NEW n \in Nat, n * hperiod < RESETCYCLES * PPeriod
  PROVE  ResetFor(n)'
<1>1. hperiod \in Nat /\ PPeriod \in Nat /\ skew \in Int /\ RESETCYCLES \in Nat
  BY Numbers
<1>2. Within(n, RESETCYCLES)'
  BY <1>1, WithinStart
<1>3. skew' \in Int /\ hperiod' = hperiod /\ CyclesLeft' \in Int
      /\ RESETCYCLES - 1 \in Int
  BY <1>1, PbkdfClock
<1>4. RESETCYCLES - 1 <= CyclesLeft'
  BY <1>1, PbkdfClock
<1>5. (RESETCYCLES - 1) * PPeriod <= CyclesLeft' * PPeriod
  BY <1>1, <1>3, <1>4, TimesMonotone
<1>6. n # 0 => (n - 1) * hperiod' < skew' + (RESETCYCLES - 1) * PPeriod
  BY <1>2 DEF Within
<1>7. /\ (n - 1) * hperiod' \in Int /\ (RESETCYCLES - 1) * PPeriod \in Int
      /\ CyclesLeft' * PPeriod \in Int
  BY <1>1, <1>3
<1>8. n # 0 => (n - 1) * hperiod' < skew' + CyclesLeft' * PPeriod
  BY <1>3, <1>5, <1>6, <1>7
<1> QED
  BY <1>8 DEF ResetFor, CyclesLeft

LEMMA FsmResetShorter ==
  ASSUME TypeInv, NEW n \in Nat, NEW m \in Nat, m <= n, FsmResetFor(n)
  PROVE  FsmResetFor(m)
<1>1. CASE m <= 1
  BY <1>1 DEF FsmResetFor
<1>2. CASE m > 1
  <2>1. fsmreset /\ reset_d /\ ResetFor(n - 2) /\ n - 2 \in Nat /\ m - 2 \in Nat /\ m - 2 <= n - 2
    BY <1>2 DEF FsmResetFor
  <2>2. ResetFor(m - 2)
    BY <2>1, ResetShorter
  <2> QED
    BY <1>2, <2>1, <2>2 DEF FsmResetFor
<1> QED
  BY <1>1, <1>2

LEMMA PbkdfFsmResetFor ==
  ASSUME TypeInv, PbkdfEdge, NEW n \in Nat, FsmResetFor(n)
  PROVE  FsmResetFor(n)'
<1>1. reset_d' = reset_d /\ fsmreset' = fsmreset
  BY DEF PbkdfEdge, salsaVars
<1>2. CASE n <= 1
  BY <1>1, <1>2 DEF FsmResetFor
<1>3. CASE n > 1
  <2>1. fsmreset /\ reset_d /\ ResetFor(n - 2) /\ n - 2 \in Nat
    BY <1>3 DEF FsmResetFor
  <2>2. ResetFor(n - 2)'
    BY <2>1, PbkdfResetFor
  <2> QED
    BY <1>1, <1>3, <2>1, <2>2 DEF FsmResetFor
<1> QED
  BY <1>2, <1>3

LEMMA HashFsmResetFor ==
  ASSUME TypeInv, HashTick, NEW n \in Nat, n > 0, FsmResetFor(n + 1)
  PROVE  fsmreset' /\ FsmResetFor(n)'
<1>1. reset_d' = reset /\ fsmreset' = reset_d
  BY DEF HashTick, SalsaTick, Rotate
<1>2. fsmreset /\ reset_d /\ ResetFor(n - 1)
  BY DEF FsmResetFor
<1>3. CASE n = 1
  BY <1>1, <1>2, <1>3 DEF FsmResetFor
<1>4. CASE n > 1
  <2>1. n - 2 \in Nat /\ n - 2 + 1 = n - 1
    BY <1>4
  <2>2. reset /\ ResetFor(n - 2)'
    BY <1>2, <2>1, HashResetFor
  <2> QED
    BY <1>1, <1>2, <1>4, <2>2 DEF FsmResetFor
<1> QED
  BY <1>3, <1>4

LEMMA FsmResetStarts ==
  ASSUME TypeInv, HashTick, reset_d, NEW n \in Nat, n > 0, ResetFor(n)
  PROVE  fsmreset' /\ FsmResetFor(n + 1)'
<1>1. reset_d' = reset /\ fsmreset' = reset_d
  BY DEF HashTick, SalsaTick, Rotate
<1>2. n - 1 \in Nat /\ n - 1 + 1 = n /\ n + 1 - 2 = n - 1
  OBVIOUS
<1>3. reset /\ ResetFor(n - 1)'
  BY <1>2, HashResetFor
<1> QED
  BY <1>1, <1>2, <1>3 DEF FsmResetFor

-----------------------------------------------------------------------------
(* Time since the last load.                                               *)

LEMMA AtMostOneMore ==
  ASSUME NEW m \in Int, NEW n \in Int, NEW c \in Nat, m <= n + 1
  PROVE  m * c <= n * c + c
<1>1. PICK l \in Int : l = n + 1
  OBVIOUS
<1>2. m * c <= l * c
  BY <1>1, TimesMonotone
<1>3. (l - 1) * c = l * c - c /\ l - 1 = n
  BY <1>1, Distribute
<1>4. m * c \in Int /\ l * c \in Int
  OBVIOUS
<1> QED
  BY <1>2, <1>3, <1>4

LEMMA SpentHash ==
  ASSUME TypeInv, HashTick, since' \in Nat, since' <= since + 1,
         NEW j \in Int, NEW c \in Int, NEW d \in Int, Spent(j, c, d)
  PROVE  Spent(j, c, d)'
<1>1. hperiod \in Nat /\ PPeriod \in Nat /\ skew \in Int /\ since \in Int /\ since' \in Int
  BY Numbers
<1>2. skew' = skew - hperiod /\ hperiod' = hperiod
  BY HashClock
<1>3. since' * hperiod <= since * hperiod + hperiod
  BY <1>1, AtMostOneMore
<1>4. /\ since * hperiod \in Int /\ since' * hperiod \in Int
      /\ j * PPeriod \in Int /\ c * hperiod \in Int /\ d * PPeriod \in Int
  BY <1>1
<1>5. since' * hperiod + (skew - hperiod) + j * PPeriod <= c * hperiod + d * PPeriod
  <2>1. PICK s, t, u, v, w \in Int : /\ s = since * hperiod /\ t = since' * hperiod
                                     /\ u = j * PPeriod /\ v = c * hperiod /\ w = d * PPeriod
    BY <1>4
  <2>2. s + skew + u <= v + w /\ t <= s + hperiod
    BY <1>3, <2>1 DEF Spent
  <2>3. t + (skew - hperiod) + u <= v + w
    BY <1>1, <2>2
  <2> QED
    BY <2>1, <2>3
<1> QED
  BY <1>2, <1>5 DEF Spent

LEMMA SpentPbkdf ==
  ASSUME TypeInv, PbkdfEdge, NEW j \in Int, NEW i \in Int, i = j - 1,
         NEW c \in Int, NEW d \in Int, Spent(j, c, d)
  PROVE  Spent(i, c, d)'
<1>1. hperiod \in Nat /\ PPeriod \in Nat /\ skew \in Int /\ since \in Nat
  BY Numbers
<1>2. skew' = skew + PPeriod /\ hperiod' = hperiod /\ since' = since
  BY PbkdfClock DEF PbkdfEdge, salsaVars
<1>3. i * PPeriod = j * PPeriod - PPeriod
  BY <1>1, Distribute
<1>4. /\ since * hperiod \in Int /\ j * PPeriod \in Int /\ c * hperiod \in Int
      /\ d * PPeriod \in Int
  BY <1>1
<1> QED
  BY <1>1, <1>2, <1>3, <1>4 DEF Spent

LEMMA SpentFresh ==
  ASSUME TypeInv, HashTick, NEW n \in Int, since' \in Nat, since' <= n,
         NEW j \in Int, NEW c \in Int, c = n - 1, NEW d \in Int, d = j + 1
  PROVE  Spent(j, c, d)'
<1>1. hperiod \in Nat /\ PPeriod \in Nat /\ skew \in Int /\ skew <= PPeriod
      /\ since' \in Int
  BY Numbers
<1>2. skew' = skew - hperiod /\ hperiod' = hperiod
  BY HashClock
<1>3. since' * hperiod <= n * hperiod
  BY <1>1, TimesMonotone
<1>4. c * hperiod = n * hperiod - hperiod
  BY <1>1, Distribute
<1>5. j * PPeriod = d * PPeriod - PPeriod
  <2>1. (d - 1) * PPeriod = d * PPeriod - PPeriod /\ d - 1 = j
    BY <1>1, Distribute
  <2> QED
    BY <2>1
<1>6. /\ since' * hperiod \in Int /\ n * hperiod \in Int /\ d * PPeriod \in Int
      /\ j * PPeriod \in Int /\ c * hperiod \in Int
  BY <1>1
<1>7. since' * hperiod + (skew - hperiod) + j * PPeriod <= c * hperiod + d * PPeriod
  <2>1. PICK s, t, u, v, w \in Int : /\ s = n * hperiod /\ t = since' * hperiod
                                     /\ u = j * PPeriod /\ v = c * hperiod /\ w = d * PPeriod
    BY <1>6
  <2>2. t <= s /\ v = s - hperiod /\ u = w - PPeriod
    BY <1>3, <1>4, <1>5, <2>1
  <2>3. t + (skew - hperiod) + u <= v + w
    BY <1>1, <2>2
  <2> QED
    BY <2>1, <2>3
<1> QED
  BY <1>2, <1>7 DEF Spent

LEMMA SpentEarly ==
  ASSUME TypeInv, NEW j \in Int, NEW c \in Int, NEW d \in Int, Spent(j, c, d),
         NEW b \in Int, b = c + 1, NEW e \in Int, e = d - j
  PROVE  Early(b, e)
<1>1. hperiod \in Nat /\ PPeriod \in Nat /\ skew \in Int /\ since \in Nat /\ -hperiod <= skew
  BY Numbers
<1>2. c * hperiod = b * hperiod - hperiod
  <2>1. (b - 1) * hperiod = b * hperiod - hperiod /\ b - 1 = c
    BY <1>1, Distribute
  <2> QED
    BY <2>1
<1>3. d * PPeriod - j * PPeriod = e * PPeriod
  BY <1>1
<1>4. /\ since * hperiod \in Int /\ j * PPeriod \in Int /\ c * hperiod \in Int
      /\ d * PPeriod \in Int /\ b * hperiod \in Int /\ e * PPeriod \in Int
  BY <1>1
<1> QED
  BY <1>1, <1>2, <1>3, <1>4 DEF Spent, Early

LEMMA EarlyHash ==
  ASSUME TypeInv, HashTick, since' \in Nat, since' <= since + 1,
         NEW c \in Int, NEW d \in Int, Early(c, d), NEW b \in Int, b = c + 1
  PROVE  Early(b, d)'
<1>1. /\ hperiod \in Nat /\ PPeriod \in Nat /\ hperiod' = hperiod
      /\ since \in Int /\ since' \in Int
  BY Numbers, HashClock
<1>2. since' * hperiod <= since * hperiod + hperiod
  BY <1>1, AtMostOneMore
<1>3. (b - 1) * hperiod = b * hperiod - hperiod /\ b - 1 = c
  BY <1>1, Distribute
<1>4. /\ since * hperiod \in Int /\ since' * hperiod \in Int
      /\ c * hperiod \in Int /\ b * hperiod \in Int /\ d * PPeriod \in Int
  BY <1>1
<1>5. since' * hperiod <= b * hperiod + d * PPeriod
  <2>1. PICK s, t, u, v, w \in Int : /\ s = since * hperiod /\ t = since' * hperiod
                                     /\ u = b * hperiod /\ v = c * hperiod /\ w = d * PPeriod
    BY <1>4
  <2>2. s <= v + w /\ t <= s + hperiod /\ v = u - hperiod
    BY <1>2, <1>3, <2>1 DEF Early
  <2>3. t <= u + w
    BY <1>1, <2>2
  <2> QED
    BY <2>1, <2>3
<1> QED
  BY <1>1, <1>5 DEF Early

(* A thread may complete only later than that.                             *)
LEMMA NotEarly ==
  ASSUME TypeInv, InTime, NEW c \in Int, c <= THREADS + 3, NEW d \in Int, d <= 3, Early(c, d)
  PROVE  since < SPACING
<1>1. hperiod \in Nat /\ PPeriod \in Nat /\ since \in Nat /\ THREADS \in Nat /\ SPACING \in Nat
  BY Numbers
<1>2. c * hperiod <= (THREADS + 3) * hperiod /\ d * PPeriod <= 3 * PPeriod
  BY <1>1, TimesMonotone
<1>3. 3 * PPeriod + (THREADS + 3) * hperiod < SPACING * hperiod
  BY TimeBounds
<1>4. since >= SPACING => SPACING * hperiod <= since * hperiod
  BY <1>1, TimesMonotone
<1>5. /\ since * hperiod \in Int /\ SPACING * hperiod \in Int /\ (THREADS + 3) * hperiod \in Int
      /\ c * hperiod \in Int /\ d * PPeriod \in Int /\ 3 * PPeriod \in Int
  BY <1>1
<1> QED
  BY <1>1, <1>2, <1>3, <1>4, <1>5 DEF Early

LEMMA LongSpacing ==
  ASSUME TypeInv, InTime
  PROVE  SPACING > THREADS + 3
<1>1. hperiod \in Nat /\ PPeriod \in Nat /\ THREADS \in Nat /\ SPACING \in Nat
  BY Numbers
<1>2. 3 * PPeriod + (THREADS + 3) * hperiod < SPACING * hperiod
  BY TimeBounds
<1>3. SPACING <= THREADS + 3 => SPACING * hperiod <= (THREADS + 3) * hperiod
  BY <1>1, TimesMonotone
<1>4. SPACING * hperiod \in Int /\ (THREADS + 3) * hperiod \in Int /\ 3 * PPeriod \in Nat
  BY <1>1
<1> QED
  BY <1>1, <1>2, <1>3, <1>4

(* A result that is asked for has time to be shifted out.                  *)
LEMMA TimeToShift ==
  ASSUME TypeInv, InTime, Spent(0, -1, 3)
  PROVE  since + SHIFTS + 3 <= SPACING
<1>1. hperiod \in Nat /\ hperiod > 0 /\ PPeriod \in Nat /\ since \in Nat /\ SHIFTS \in Nat /\ SPACING \in Nat
  BY Numbers
<1>2. Early(0, 3)
  BY SpentEarly
<1>3. since * hperiod <= 3 * PPeriod
  <2>1. 0 * hperiod = 0 /\ 3 * PPeriod \in Int /\ since * hperiod \in Int
    BY <1>1
  <2> QED
    BY <1>2, <2>1 DEF Early
<1>4. 3 * PPeriod + (SHIFTS + 3) * hperiod <= SPACING * hperiod
  BY TimeBounds
<1>5. since * hperiod + (SHIFTS + 3) * hperiod = (since + SHIFTS + 3) * hperiod
  BY <1>1
<1>6. /\ since * hperiod \in Int /\ (SHIFTS + 3) * hperiod \in Int /\ SPACING * hperiod \in Int
      /\ 3 * PPeriod \in Int /\ (since + SHIFTS + 3) * hperiod \in Int /\ (SPACING + 1) * hperiod \in Int
  BY <1>1
<1>7. (since + SHIFTS + 3) * hperiod <= SPACING * hperiod
  BY <1>3, <1>4, <1>5, <1>6
<1>8. since + SHIFTS + 3 > SPACING => (SPACING + 1) * hperiod <= (since + SHIFTS + 3) * hperiod
  BY <1>1, TimesMonotone
<1>9. (SPACING + 1 - 1) * hperiod = (SPACING + 1) * hperiod - hperiod /\ SPACING + 1 - 1 = SPACING
  BY <1>1, Distribute
<1> QED
  BY <1>1, <1>6, <1>7, <1>8, <1>9

-----------------------------------------------------------------------------
(* The slots.                                                              *)

LEMMA TypesDistance ==
  ASSUME TypeInv, NEW t \in Thread
  PROVE  /\ Distance(t) \in 0 .. THREADS /\ Turn(t) \in 1 .. Lap
         /\ Distance(t) \in Int /\ Distance(t) + 1 \in Nat /\ Turn(t) \in Int /\ Turn(t) <= Lap
<1>1. phase_d \in 0 .. THREADS + 1 /\ t \in 0 .. THREADS - 1 /\ THREADS \in Nat
  BY SalsaAssumption DEF TypeInv, TypeOK, SalsaTypeOK, Thread
<1>2. Distance(t) \in 0 .. THREADS /\ (t # phase_d => Distance(t) > 0)
  BY <1>1 DEF Distance
<1> QED
  BY <1>1, <1>2 DEF Turn, Lap

-----------------------------------------------------------------------------
(* An edge of pbkdf_clk, as far as shifts and loads depend on it.          *)

SameBits(c) == (c[1]' <=> c[1]) /\ (c[2]' <=> c[2]) /\ (c[3]' <=> c[3])
Asks == (shift_request[1]' <=> ~shift_request[1])
        /\ (shift_request[2]' <=> shift_request[2]) /\ (shift_request[3]' <=> shift_request[3])
NoStrobe == ~Set_SMixInRdy' /\ ~Clr_SMixOutRdy'
FsmStep ==
  \/ reset /\ state' = "S_IDLE" /\ ~start_output' /\ SameBits(shift_request) /\ NoStrobe
  \/ /\ ~reset /\ state = "S_IDLE" /\ SMixOutRdy /\ ~start_output
     /\ state' = "S_SHIFT_OUT" /\ ~start_output' /\ Asks /\ NoStrobe
  \/ /\ ~reset /\ state = "S_IDLE" /\ ~(SMixOutRdy /\ ~start_output)
     /\ start_output \/ ~SMixInRdy
     /\ state' = "S_HASH" /\ ~start_output' /\ mode' = (IF SMixOutRdy THEN 1 ELSE 0) /\ cnt' = 0
     /\ SameBits(shift_request) /\ NoStrobe
  \/ /\ ~reset /\ state = "S_IDLE" /\ ~SMixOutRdy /\ ~start_output /\ SMixInRdy
     /\ state' = "S_IDLE" /\ ~start_output' /\ SameBits(shift_request) /\ NoStrobe
  \/ /\ ~reset /\ state = "S_HASH" /\ mode = 0 /\ mode' = 0 /\ start_output' = start_output
     /\ IF cnt < InCycles THEN cnt' = cnt + 1 /\ state' = "S_HASH" ELSE state' = "S_B6"
     /\ SameBits(shift_request) /\ NoStrobe
  \/ /\ ~reset /\ state = "S_HASH" /\ mode = 1 /\ mode' = 1 /\ start_output' = start_output
     /\ state' \in {"S_HASH", "S_R18"} /\ SameBits(shift_request) /\ NoStrobe
  \/ /\ ~reset /\ state = "S_B6" /\ state' = "S_NONCE" /\ nonce_wait' = 7
     /\ start_output' = start_output /\ SameBits(shift_request) /\ NoStrobe
  \/ /\ ~reset /\ state = "S_NONCE" /\ nonce_wait # 0 /\ state' = "S_NONCE"
     /\ nonce_wait' = nonce_wait - 1
     /\ start_output' = start_output /\ SameBits(shift_request) /\ NoStrobe
  \/ /\ ~reset /\ state = "S_NONCE" /\ nonce_wait = 0 /\ state' = "S_SHIFT_IN"
     /\ start_output' = start_output /\ Asks /\ NoStrobe
  \/ /\ ~reset /\ state = "S_SHIFT_IN" /\ start_output' = start_output
     /\ IF shift_acknowledge[3] THEN state' = "S_IDLE" /\ Set_SMixInRdy'
                                ELSE state' = "S_SHIFT_IN" /\ ~Set_SMixInRdy'
     /\ ~Clr_SMixOutRdy' /\ SameBits(shift_request)
  \/ /\ ~reset /\ state = "S_SHIFT_OUT"
     /\ IF shift_acknowledge[3] THEN state' = "S_IDLE" /\ start_output'
                                ELSE state' = "S_SHIFT_OUT" /\ start_output' = start_output
     /\ NoStrobe /\ SameBits(shift_request)
  \/ /\ ~reset /\ state = "S_R18" /\ state' = "S_IDLE" /\ mode' = 0 /\ start_output' = start_output
     /\ ~Set_SMixInRdy' /\ Clr_SMixOutRdy' /\ SameBits(shift_request)

LEMMA ShiftBits ==
  ASSUME NEW c
  PROVE  ~Shift(c)[1] /\ (Shift(c)[2] <=> c[1]) /\ (Shift(c)[3] <=> c[2])
<1>1. 1 \in 1 .. 3 /\ 2 \in 1 .. 3 /\ 3 \in 1 .. 3 /\ 2 - 1 = 1 /\ 3 - 1 = 2 /\ 2 # 1 /\ 3 # 1
  OBVIOUS
<1>2. Shift(c)[1] = (1 # 1 /\ c[1 - 1])
  BY <1>1 DEF Shift
<1>3. Shift(c)[2] = (2 # 1 /\ c[2 - 1])
  BY <1>1 DEF Shift
<1>4. Shift(c)[3] = (3 # 1 /\ c[3 - 1])
  BY <1>1 DEF Shift
<1>5. ~Shift(c)[1]
  BY <1>2
<1>6. Shift(c)[2] <=> c[1]
  BY <1>1, <1>3
<1>7. Shift(c)[3] <=> c[2]
  BY <1>1, <1>4
<1> QED
  BY <1>5, <1>6, <1>7

LEMMA ToggleBits ==
  ASSUME NEW c \in Crossing
  PROVE  /\ Toggle(c)[1] <=> ~c[1]
         /\ Toggle(c)[2] <=> c[2]
         /\ Toggle(c)[3] <=> c[3]
<1>1. /\ Toggle(c)[1] = ~c[1] /\ Toggle(c)[2] = c[2] /\ Toggle(c)[3] = c[3]
  BY DEF Toggle, Crossing
<1> QED
  BY <1>1, Zenon

LEMMA FsmSteps ==
  ASSUME TypeInv, PbkdfEdge
  PROVE  FsmStep
<1>1. PICK loadnonce \in BOOLEAN : PbkdfTick(loadnonce)
  BY LoadsOrNot
<1>2. Fsm(loadnonce) /\ shift_request \in Crossing /\ start_output \in BOOLEAN
  BY <1>1, PbkdfTypesMean DEF PbkdfTick, TypeInv, TypeOK, Crossings, PbkdfTypes
<1>3. RequestShift => Asks
  <2> SUFFICES ASSUME RequestShift PROVE Asks
    OBVIOUS
  <2>1. shift_request' = Toggle(shift_request)
    BY DEF RequestShift
  <2> QED
    BY <1>2, <2>1, ToggleBits DEF Asks
<1>4. NoShift => SameBits(shift_request)
  BY DEF NoShift, SameBits
<1>5. \A a, b \in BOOLEAN : Strobes(a, b) => (Set_SMixInRdy' <=> a) /\ (Clr_SMixOutRdy' <=> b)
  BY DEF Strobes
<1>6. Strobes(FALSE, FALSE) => NoStrobe
  BY DEF Strobes, NoStrobe
<1>7. CASE FsmReset(loadnonce)
  BY <1>4, <1>6, <1>7 DEF FsmReset, FsmStep
<1>8. CASE FetchOutput(loadnonce)
  BY <1>3, <1>6, <1>8 DEF FetchOutput, FsmStep
<1>9. CASE StartHash(loadnonce)
  BY <1>4, <1>6, <1>9 DEF StartHash, FsmStep
<1>10. CASE Idle(loadnonce)
  BY <1>4, <1>6, <1>10 DEF Idle, FsmStep
<1>11. CASE HashInput(loadnonce)
  BY <1>4, <1>6, <1>11 DEF HashInput, FsmStep
<1>12. CASE HashOutput(loadnonce)
  BY <1>4, <1>6, <1>12 DEF HashOutput, FsmStep
<1>13. CASE LoadXbuf(loadnonce)
  BY <1>4, <1>6, <1>13 DEF LoadXbuf, FsmStep
<1>14. CASE NonceWait(loadnonce)
  BY <1>4, <1>6, <1>14 DEF NonceWait, FsmStep
<1>15. CASE NextNonce(loadnonce)
  BY <1>3, <1>6, <1>15 DEF NextNonce, FsmStep
<1>16. CASE ShiftIn(loadnonce)
  BY <1>4, <1>16 DEF ShiftIn, FsmStep, Arrived, Strobes
<1>17. CASE ShiftOut(loadnonce)
  BY <1>4, <1>6, <1>17 DEF ShiftOut, FsmStep, Arrived
<1>18. CASE Check(loadnonce)
  BY <1>4, <1>18 DEF Check, FsmStep, Strobes
<1> QED
  BY <1>2, <1>7, <1>8, <1>9, <1>10, <1>11, <1>12, <1>13, <1>14, <1>15, <1>16, <1>17, <1>18 DEF Fsm

(* The crossings to pbkdf_clk and its flags; what belongs to hash_clk.     *)
Arrives(c) == ~c[1]' /\ (c[2]' <=> c[1]) /\ (c[3]' <=> c[2])

LEMMA PbkdfMoves ==
  ASSUME TypeInv, PbkdfEdge
  PROVE  /\ Arrives(busy_seen) /\ Arrives(result_seen) /\ Arrives(shift_acknowledge)
         /\ SMixInRdy_state' <=> SMixInRdy /\ ~reset
         /\ SMixOutRdy_state' <=> SMixOutRdy /\ ~reset
         /\ UNCHANGED salsaVars /\ UNCHANGED shifterVars
<1>1. PICK loadnonce \in BOOLEAN : PbkdfTick(loadnonce)
  BY LoadsOrNot
<1>2. Flags /\ UNCHANGED salsaVars /\ UNCHANGED shifterVars
  BY <1>1 DEF PbkdfTick, PbkdfEdge
<1>3. Arrives(busy_seen) /\ Arrives(result_seen) /\ Arrives(shift_acknowledge)
  BY <1>2, ShiftBits DEF Flags, Arrives
<1>4. SMixInRdy_state' <=> SMixInRdy /\ ~reset
  BY <1>2 DEF Flags
<1>5. SMixOutRdy_state' <=> SMixOutRdy /\ ~reset
  BY <1>2 DEF Flags
<1> QED
  BY <1>2, <1>3, <1>4, <1>5

LEMMA PbkdfKeeps ==
  ASSUME TypeInv, PbkdfEdge
  PROVE  /\ salsa_shift' = salsa_shift /\ shift_count' = shift_count
         /\ reset_d' = reset_d /\ fsmreset' = fsmreset /\ start_d' = start_d
         /\ fsmstart' = fsmstart /\ start_flag' = start_flag /\ XSload' = XSload
         /\ busy_flag' = busy_flag /\ mstate' = mstate /\ since' = since /\ phase_d' = phase_d
         /\ (Rise' <=> Rise) /\ (BusyRise' <=> BusyRise)
         /\ \A t \in Thread : /\ Slot(t)' = Slot(t) /\ Turn(t)' = Turn(t)
                              /\ Distance(t)' = Distance(t) /\ (Runs(t)' <=> Runs(t))
         /\ \A s \in ThreadState : (SomeIn(s)' <=> SomeIn(s)) /\ (OnlyOneIn(s)' <=> OnlyOneIn(s))
<1>1. UNCHANGED salsaVars /\ UNCHANGED shifterVars
  BY PbkdfMoves
<1>2. /\ \A t \in Thread : /\ Slot(t)' = Slot(t) /\ Distance(t)' = Distance(t)
                           /\ (Runs(t)' <=> Runs(t))
      /\ phase_d' = phase_d
  BY <1>1 DEF salsaVars, Slot, Distance, Runs
<1>3. \A t \in Thread : Turn(t)' = Turn(t)
  BY <1>2 DEF Turn
<1>4. \A s \in ThreadState : (SomeIn(s)' <=> SomeIn(s)) /\ (OnlyOneIn(s)' <=> OnlyOneIn(s))
  BY <1>2 DEF SomeIn, OnlyOneIn
<1> QED
  BY <1>1, <1>2, <1>3, <1>4 DEF salsaVars, shifterVars, Rise, BusyRise

-----------------------------------------------------------------------------
(* The parts of the invariant at an edge of pbkdf_clk.                     *)

LEMMA PbkdfShift ==
  ASSUME TypeInv, PbkdfEdge, ShiftInv, ShiftFlushInv
  PROVE  ShiftInv'
<1>1. FsmStep /\ Arrives(shift_acknowledge) /\ salsa_shift' = salsa_shift /\ shift_count' = shift_count
  BY FsmSteps, PbkdfMoves, PbkdfKeeps
<1>2. /\ reset' <=> (resetcycles = 0 \/ (CyclesLeft # 0 /\ reset))
      /\ (CyclesLeft = 0 => resetcycles # 0)
  BY PbkdfClock, Numbers DEF CyclesLeft
<1>3. reset /\ ~reset' => CyclesLeft = 0
  BY <1>2
<1>4. reset /\ ~reset' => /\ ~Pending /\ shift_count = 0
                          /\ ~shift_acknowledge[1] /\ ~shift_acknowledge[2]
  BY <1>3, ClearsNow DEF ShiftFlushInv, Flushed, Pending, Underway
<1>5. OneBit(shift_request)' /\ OneBit(shift_acknowledge)'
  BY <1>1 DEF ShiftInv, OneBit, FsmStep, Asks, SameBits, Arrives, Pending, Underway, Shifting
<1>6. Pending' \/ shift_count' # 0 => ~Underway(shift_acknowledge)'
  BY <1>1 DEF ShiftInv, FsmStep, Asks, SameBits, Arrives, Pending, Underway, Shifting
<1>7. salsa_shift' \/ shift_count' # 0 => ~Underway(shift_request)'
  BY <1>1 DEF ShiftInv, FsmStep, Asks, SameBits, Arrives, Pending, Underway, Shifting
<1>8. ~reset' /\ ~Shifting' => ~Pending' /\ ~Underway(shift_acknowledge)'
  BY <1>1, <1>4 DEF ShiftInv, OneBit, FsmStep, Asks, SameBits, Arrives, Pending, Underway, Shifting
<1>9. ~reset' /\ Shifting' => Pending' \/ Underway(shift_acknowledge)'
  BY <1>1 DEF ShiftInv, FsmStep, Asks, SameBits, Arrives, Pending, Underway, Shifting
<1>10. ~reset' /\ shift_count' # 0 => salsa_shift'
  BY <1>1, <1>4 DEF ShiftInv
<1> QED
  BY <1>5, <1>6, <1>7, <1>8, <1>9, <1>10 DEF ShiftInv

(* What is cleared in time stays so.                                       *)
LEMMA PbkdfClears ==
  ASSUME TypeInv, TypeInv', InTime, PbkdfEdge, reset', NEW n \in 1 .. 5, reset => Clears(n)
  PROVE  Clears(n)'
<1>1. ~reset => resetcycles' <= 2
  BY PbkdfClock
<1> QED
  BY <1>1, ClearsRise, ClearsPbkdf

LEMMA LongEnough ==
  ASSUME TypeInv, InTime
  PROVE  RESETCYCLES > 3
<1>1. hperiod \in Nat /\ PPeriod \in Nat /\ RESETCYCLES \in Nat
  BY Numbers
<1>2. 5 * hperiod < (RESETCYCLES - 3) * PPeriod
  BY TimeBounds
<1>3. RESETCYCLES <= 3 => (RESETCYCLES - 3) * PPeriod <= 0 * PPeriod
  BY <1>1, TimesMonotone
<1>4. 0 * PPeriod = 0 /\ (RESETCYCLES - 3) * PPeriod \in Int /\ 5 * hperiod \in Nat
  BY <1>1
<1> QED
  BY <1>1, <1>2, <1>3, <1>4

LEMMA PbkdfFlush ==
  ASSUME TypeInv, TypeInv', InTime, PbkdfEdge, ShiftInv, ShiftFlushInv, FlushInv, StartFlushInv
  PROVE  ShiftFlushInv' /\ FlushInv' /\ StartFlushInv'
<1> SUFFICES ASSUME reset'
             PROVE  ShiftFlushInv' /\ FlushInv' /\ StartFlushInv'
  BY DEF ShiftFlushInv, FlushInv, StartFlushInv
<1>1. FsmStep
  BY FsmSteps
<1>2. /\ Arrives(busy_seen) /\ Arrives(result_seen) /\ Arrives(shift_acknowledge)
      /\ SMixInRdy_state' <=> SMixInRdy /\ ~reset
  BY PbkdfMoves
<1>3. /\ salsa_shift' = salsa_shift /\ shift_count' = shift_count
      /\ reset_d' = reset_d /\ fsmreset' = fsmreset /\ start_d' = start_d
      /\ fsmstart' = fsmstart /\ (Rise' <=> Rise) /\ (BusyRise' <=> BusyRise)
  BY PbkdfKeeps
<1>4. \A n \in 1 .. 5 : (reset => Clears(n)) => Clears(n)'
  BY PbkdfClears
<1>5. /\ CyclesLeft \in Nat /\ CyclesLeft' >= CyclesLeft - 1
      /\ CyclesLeft' \in Nat /\ (~reset => CyclesLeft' >= 2)
  BY PbkdfClock, LongEnough, Numbers
<1>6. /\ Flushed(shift_acknowledge) \/ ~reset => Flushed(shift_acknowledge)'
      /\ Flushed(result_seen) \/ ~reset => Flushed(result_seen)'
      /\ Flushed(busy_seen) \/ ~reset => Flushed(busy_seen)'
  BY <1>2, <1>5 DEF Flushed, Arrives
<1>7. ShiftFlushInv'
  <2>1. CASE reset
    <3>1. SameBits(shift_request)
      BY <1>1, <2>1 DEF FsmStep
    <3> QED
      BY <1>3, <1>4, <1>6, <2>1, <3>1 DEF ShiftFlushInv, SameBits
  <2>2. CASE ~reset
    BY <1>4, <1>6, <2>2 DEF ShiftFlushInv
  <2> QED
    BY <2>1, <2>2
<1>8. FlushInv'
  BY <1>3, <1>4, <1>6 DEF FlushInv
<1>9. StartFlushInv'
  <2>1. CASE reset
    <3>1. ~InReady'
      BY <1>1, <1>2, <2>1 DEF FsmStep, InReady, NoStrobe
    <3>2. InReady => resetcycles' <= 2
      BY <2>1, PbkdfClock, Numbers DEF StartFlushInv
    <3>3. InReady => Clears(2)' /\ Clears(1)'
      BY <3>2, ClearsRise
    <3> QED
      BY <1>3, <1>4, <2>1, <3>1, <3>3 DEF StartFlushInv
  <2>2. CASE ~reset
    BY <1>3, <1>4, <2>2, PbkdfClock DEF StartFlushInv
  <2> QED
    BY <2>1, <2>2
<1> QED
  BY <1>7, <1>8, <1>9

LEMMA PbkdfLap ==
  ASSUME TypeInv, InTime, PbkdfEdge, LapInv, OrderInv
  PROVE  LapInv' /\ OrderInv'
<1>1. /\ reset_d' = reset_d /\ fsmreset' = fsmreset /\ XSload' = XSload /\ mstate' = mstate
      /\ phase_d' = phase_d
      /\ \A t \in Thread : /\ Slot(t)' = Slot(t) /\ Distance(t)' = Distance(t)
                           /\ (Runs(t)' <=> Runs(t))
  BY PbkdfKeeps
<1>2. THREADS \in Nat /\ THREADS + 1 \in Nat /\ THREADS + 2 \in Nat
  BY Numbers
<1>3. reset' /\ ~reset_d' => ResetFor(THREADS + 2)'
  <2>1. CASE reset
    BY <1>1, <1>2, <2>1, PbkdfResetFor DEF LapInv
  <2>2. CASE ~reset
    BY <1>2, <2>2, TimeBounds, ResetStarts
  <2> QED
    BY <2>1, <2>2
<1>4. reset_d' /\ ~fsmreset' => ResetFor(THREADS + 1)'
  BY <1>1, <1>2, PbkdfResetFor DEF LapInv
<1>5. fsmreset' /\ XSload' => FsmResetFor(THREADS + 2)'
  BY <1>1, <1>2, PbkdfFsmResetFor DEF LapInv
<1>6. ASSUME NEW t \in Thread, Runs(t)'
      PROVE  IF fsmreset' THEN (t = phase_d' /\ XSload') \/ FsmResetFor(Distance(t) + 1)'
                          ELSE Slot(t)' # "R_IDLE"
  <2>1. Runs(t)
    BY <1>1, <1>6
  <2>2. Distance(t) + 1 \in Nat
    BY <1>2, TypesDistance
  <2>3. PICK n \in Nat : n = Distance(t) + 1
    BY <2>2
  <2>4. FsmResetFor(n) => FsmResetFor(n)'
    BY PbkdfFsmResetFor
  <2>5. n = Distance(t)' + 1
    BY <1>1, <2>3
  <2>6. FsmResetFor(n)' => FsmResetFor(Distance(t) + 1)'
    BY <2>5 DEF FsmResetFor, ResetFor
  <2> QED
    BY <1>1, <2>1, <2>3, <2>4, <2>6 DEF OrderInv
<1>7. OrderInv'
  BY <1>1, <1>6 DEF OrderInv
<1> QED
  BY <1>3, <1>4, <1>5, <1>7 DEF LapInv

(* The input that is made comes one edge closer to its shift.              *)
LEMMA ToAskMeans ==
  /\ state = "S_HASH" => ToAsk = InCycles - cnt + 10
  /\ state = "S_B6" => ToAsk = 9
  /\ state = "S_NONCE" => ToAsk = nonce_wait + 1
BY DEF ToAsk

LEMMA ToAskStep ==
  ASSUME TypeInv, PbkdfEdge, NotReadyInv, Input'
  PROVE  /\ ~reset
         /\ \/ Input /\ ToAsk \in Int /\ ToAsk' = ToAsk - 1
            \/ state = "S_IDLE" /\ ToAsk' = InCycles + 10
<1>1. FsmStep /\ InCycles \in Nat /\ cnt \in Nat /\ nonce_wait \in Nat
  BY FsmSteps, Numbers
<1>2. /\ state = "S_HASH" => ToAsk = InCycles - cnt + 10
      /\ state = "S_B6" => ToAsk = 9
      /\ state = "S_NONCE" => ToAsk = nonce_wait + 1
  BY ToAskMeans
<1>3. (/\ state = "S_HASH" => ToAsk = InCycles - cnt + 10
       /\ state = "S_B6" => ToAsk = 9
       /\ state = "S_NONCE" => ToAsk = nonce_wait + 1)'
  BY ToAskMeans, PTL
<1>4. state = "S_HASH" /\ mode = 0 => cnt <= InCycles
  BY DEF NotReadyInv
<1> QED
  BY <1>1, <1>2, <1>3, <1>4 DEF FsmStep, Input

LEMMA PbkdfInput ==
  ASSUME TypeInv, TypeInv', InTime, PbkdfEdge, NotReadyInv, InputInv
  PROVE  InputInv'
<1> SUFFICES ASSUME Input' PROVE InputInv'
  BY DEF InputInv
<1>1. /\ reset_d' = reset_d /\ fsmreset' = fsmreset /\ XSload' = XSload
      /\ start_d' = start_d /\ fsmstart' = fsmstart /\ start_flag' = start_flag
      /\ \A t \in Thread : Slot(t)' = Slot(t) /\ Turn(t)' = Turn(t)
  BY PbkdfKeeps
<1>2. ~reset /\ (\/ Input /\ ToAsk \in Int /\ ToAsk' = ToAsk - 1
                 \/ ToAsk' = InCycles + 10)
  BY ToAskStep
<1>3. Lap = THREADS + 1 /\ THREADS \in Nat /\ InCycles \in Nat
  BY Numbers DEF Lap
<1>4. \A t \in Thread : Turn(t) \in Int /\ Turn(t) <= Lap
  BY TypesDistance
<1>5. CASE Input /\ ToAsk \in Int /\ ToAsk' = ToAsk - 1
  <2>1. PICK k \in Int : k = ToAsk
    BY <1>5
  <2>2. \A n \in Int : Within(n, ToAsk) => Within(n, k - 1)'
    BY <2>1, WithinPbkdf
  <2>3. \A n \in Int : Within(n, k - 1)' => Within(n, ToAsk)'
    BY <1>5, <2>1 DEF Within
  <2>4. ASSUME start_flag, NEW t \in Thread, Slot(t) = "R_IDLE"
        PROVE  Within(Turn(t) + 1, ToAsk)'
    <3>1. PICK n \in Int : n = Turn(t) + 1
      BY <1>4
    <3>2. Within(n, ToAsk)
      BY <1>2, <1>5, <2>4, <3>1 DEF InputInv
    <3>3. Within(n, ToAsk)'
      BY <2>2, <2>3, <3>2
    <3>4. n = Turn(t)' + 1
      BY <1>1, <3>1
    <3> QED
      BY <3>3, <3>4 DEF Within
  <2> QED
    BY <1>1, <1>2, <1>3, <1>5, <2>2, <2>3, <2>4 DEF InputInv
<1>6. CASE ToAsk' = InCycles + 10
  <2>1. THREADS + 4 \in Int /\ InCycles + 10 \in Int
    BY <1>3
  <2>2. PICK k \in Int : k = InCycles + 10
    BY <2>1
  <2>3. Within(THREADS + 4, k)'
    BY <2>1, <2>2, TimeBounds, WithinStart
  <2>4. (TypeInv => \A a, b, c, d \in Int : Within(a, b) /\ c <= a /\ b <= d => Within(c, d))'
    BY LessIsWithin, PTL
  <2>5. \A n \in Int : n <= THREADS + 4 => Within(n, k)'
    BY <2>1, <2>3, <2>4
  <2>6. \A n \in Int : n <= THREADS + 4 => Within(n, ToAsk)'
    BY <1>6, <2>2, <2>5 DEF Within
  <2>7. ASSUME NEW t \in Thread
        PROVE  Within(Turn(t) + 1, ToAsk)'
    <3>1. PICK n \in Int : n = Turn(t) + 1
      BY <1>4
    <3>2. n <= THREADS + 4
      BY <1>3, <1>4, <3>1
    <3>3. n = Turn(t)' + 1
      BY <1>1, <3>1
    <3> QED
      BY <2>6, <3>2, <3>3 DEF Within
  <2> QED
    BY <1>3, <2>6, <2>7 DEF InputInv
<1> QED
  BY <1>2, <1>5, <1>6

LEMMA PbkdfReady ==
  ASSUME TypeInv, PbkdfEdge, NotReadyInv, ReadyInv, FetchInv
  PROVE  NotReadyInv' /\ ReadyInv'
<1>1. FsmStep /\ InCycles \in Nat /\ cnt \in Nat
  BY FsmSteps, Numbers
<1>2. /\ SMixInRdy_state' <=> SMixInRdy /\ ~reset
      /\ SMixOutRdy_state' <=> SMixOutRdy /\ ~reset
  BY PbkdfMoves
<1>3. SMixInRdy => InReady
  BY DEF SMixInRdy, InReady
<1>4. /\ ~reset /\ start_output => SMixOutRdy
      /\ ~reset /\ (Output /\ ~start_output) => SMixOutRdy
      /\ SMixOutRdy => SMixOutRdy_state \/ result_seen[3]
  BY DEF ReadyInv, Output, SMixOutRdy, Set_SMixOutRdy, Arrived
<1>5. state' = "S_HASH" /\ mode' = 0 => cnt' <= InCycles
  BY <1>1 DEF FsmStep, NotReadyInv
<1>6. Input' \/ state' = "S_SHIFT_IN" => ~InReady'
  BY <1>1, <1>2, <1>3, <1>4 DEF FsmStep, NotReadyInv, Input, InReady, NoStrobe
<1>7. ASSUME ~reset' PROVE Output' => SMixOutRdy_state' /\ ~Clr_SMixOutRdy'
  BY <1>1, <1>2, <1>4 DEF FsmStep, Output, ReadyInv, NoStrobe
<1>8. start_output' => state' = "S_IDLE"
  BY <1>1 DEF FsmStep, ReadyInv
<1>9. Clr_SMixOutRdy' => SMixOutRdy_state' /\ state' = "S_IDLE"
  BY <1>1, <1>2, <1>4 DEF FsmStep, Output, ReadyInv, NoStrobe
<1>10. SMixOutRdy_state' => Output' \/ Clr_SMixOutRdy'
  <2>1. ~reset /\ SMixOutRdy_state => Output \/ Clr_SMixOutRdy
    BY DEF ReadyInv
  <2>2. ~reset /\ SMixOutRdy => ~Input /\ state # "S_SHIFT_IN"
    BY <1>4 DEF FetchInv, OutputBusy, FetchPending, Underway
  <2> QED
    BY <1>1, <1>2, <2>2 DEF FsmStep, Output, Input
<1> QED
  BY <1>5, <1>6, <1>7, <1>8, <1>9, <1>10 DEF NotReadyInv, ReadyInv

LEMMA PbkdfQuiet ==
  ASSUME TypeInv, InTime, PbkdfEdge, ShiftInv, ShiftFlushInv, LapInv, NotReadyInv, InputInv,
         ReadyInv, FetchInv, QuietInv
  PROVE  QuietInv'
<1> SUFFICES ASSUME Pending' PROVE QuietInv'
  BY DEF QuietInv
<1>1. FsmStep /\ Arrives(shift_acknowledge) /\ (SMixInRdy_state' <=> SMixInRdy /\ ~reset)
  BY FsmSteps, PbkdfMoves
<1>2. /\ salsa_shift' = salsa_shift /\ shift_count' = shift_count
      /\ reset_d' = reset_d /\ fsmreset' = fsmreset /\ start_d' = start_d
      /\ fsmstart' = fsmstart /\ start_flag' = start_flag /\ XSload' = XSload /\ since' = since
      /\ (SomeIn("R_IDLE")' <=> SomeIn("R_IDLE")) /\ (SomeIn("R_WAIT")' <=> SomeIn("R_WAIT"))
  BY PbkdfKeeps DEF ThreadState
<1>3. SMixInRdy => InReady
  BY DEF SMixInRdy, InReady
<1>4. CASE Pending
  <2>1. reset \/ Shifting
    BY <1>4 DEF ShiftInv
  <2>2. ~shift_acknowledge[3]
    BY <1>4 DEF ShiftInv, Underway
  <2>3. SameBits(shift_request) /\ ~Set_SMixInRdy'
    BY <1>1, <2>1, <2>2 DEF FsmStep, Shifting, NoStrobe
  <2>4. Left' = Left
    BY <1>2, <2>3 DEF Left, SameBits
  <2>5. reset => reset'
    <3>1. reset => Clears(5) \/ Clears(4) \/ Clears(3) \/ Clears(2)
      BY <1>4 DEF ShiftFlushInv, Pending, Underway
    <3>2. reset => CyclesLeft >= 2
      BY <3>1, ClearsNow
    <3> QED
      BY <3>2, PbkdfClock
  <2>6. QuietIn => QuietIn'
    BY <1>1, <1>2, <1>3, <2>3 DEF QuietIn, InReady
  <2>7. QuietOut => QuietOut'
    BY <1>2, <2>4 DEF QuietOut
  <2> QED
    BY <1>2, <1>4, <2>5, <2>6, <2>7 DEF QuietInv
<1>5. CASE ~Pending
  <2>1. ~SameBits(shift_request)
    BY <1>2, <1>5 DEF Pending, Underway, SameBits
  <2>2. /\ Asks /\ NoStrobe /\ ~reset
        /\ \/ state = "S_IDLE" /\ SMixOutRdy /\ ~start_output
           \/ state = "S_NONCE" /\ nonce_wait = 0
    BY <1>1, <2>1 DEF FsmStep
  <2>3. CASE state = "S_IDLE" /\ SMixOutRdy /\ ~start_output
    <3>1. ~Output /\ ~Clr_SMixOutRdy
      BY <2>3 DEF Output, SMixOutRdy
    <3>2. ~SMixOutRdy_state
      BY <2>2, <3>1 DEF ReadyInv
    <3>3. result_seen[3]
      BY <2>3, <3>2 DEF SMixOutRdy, Set_SMixOutRdy, Arrived
    <3>4. FetchPending /\ OutputBusy
      BY <3>3 DEF FetchPending, OutputBusy, Underway
    <3>5. /\ ~XSload /\ Spent(0, -1, 3) /\ ~reset_d /\ ~fsmreset
          /\ ~SomeIn("R_IDLE") /\ ~SomeIn("R_WAIT")
      BY <2>2, <3>3, <3>4 DEF FetchInv
    <3>6. since + SHIFTS + 3 <= SPACING
      BY <3>5, TimeToShift
    <3>7. since \in Nat /\ SHIFTS \in Nat
      BY Numbers
    <3>8. Left' = 3 + SHIFTS
      BY <1>2, <1>5, <2>2 DEF Left, Asks, Pending, Underway
    <3>9. QuietOut'
      BY <1>2, <3>5, <3>6, <3>7, <3>8 DEF QuietOut
    <3> QED
      BY <1>2, <3>5, <3>9 DEF QuietInv
  <2>4. CASE state = "S_NONCE" /\ nonce_wait = 0
    <3>1. Input /\ ToAsk = 1
      BY <2>4, ToAskMeans DEF Input
    <3>2. Lap \in Nat /\ \A t \in Thread : Turn(t) + 1 \in Int /\ Turn(t) + 1 > 0
      BY Numbers, TypesDistance DEF Lap
    <3>3. \A n \in Int : n > 0 => ~Within(n, ToAsk)
      BY <3>1, WithinNow
    <3>4. ~start_d /\ ~reset_d /\ ~fsmstart /\ ~fsmreset /\ ~XSload
      BY <2>2, <3>1, <3>2, <3>3 DEF InputInv
    <3>5. start_flag => ~SomeIn("R_IDLE")
      BY <2>2, <3>1, <3>2, <3>3 DEF InputInv, SomeIn
    <3>6. ~InReady /\ ~InReady'
      BY <1>1, <1>3, <2>2, <3>1 DEF NotReadyInv, InReady, NoStrobe
    <3>7. QuietIn'
      BY <1>2, <3>4, <3>5, <3>6 DEF QuietIn
    <3> QED
      BY <1>2, <3>4, <3>7 DEF QuietInv
  <2> QED
    BY <2>2, <2>3, <2>4
<1> QED
  BY <1>4, <1>5

LEMMA PbkdfTaking ==
  ASSUME TypeInv, PbkdfEdge, TakingInv, WaitInv
  PROVE  TakingInv' /\ WaitInv'
<1>1. Arrives(busy_seen)
  BY PbkdfMoves
<1>2. /\ XSload' = XSload /\ since' = since /\ phase_d' = phase_d /\ busy_flag' = busy_flag
      /\ fsmreset' = fsmreset /\ (BusyRise' <=> BusyRise)
      /\ \A t \in Thread : Slot(t)' = Slot(t) /\ Turn(t)' = Turn(t)
  BY PbkdfKeeps
<1>3. /\ SomeIn("R_IDLE")' <=> SomeIn("R_IDLE")
      /\ SomeIn("R_WAIT")' <=> SomeIn("R_WAIT")
      /\ OnlyOneIn("R_WAIT")' <=> OnlyOneIn("R_WAIT")
  BY PbkdfKeeps DEF ThreadState
<1>4. THREADS \in Int
  BY Numbers
<1>5. busy_seen[1] => Spent(1, THREADS, 3)'
  BY <1>4, SpentPbkdf DEF TakingInv
<1>6. busy_seen[2] => Spent(0, THREADS, 3)'
  BY <1>4, SpentPbkdf DEF TakingInv
<1>7. TakingInv'
  BY <1>1, <1>2, <1>5, <1>6 DEF TakingInv, Arrives
<1>8. WaitInv'
  BY <1>2, <1>3 DEF WaitInv
<1> QED
  BY <1>7, <1>8

LEMMA PbkdfStart ==
  ASSUME TypeInv, InTime, PbkdfEdge, StartFlushInv, TakingInv, StartInv
  PROVE  StartInv'
<1> SUFFICES ASSUME ~reset' PROVE StartInv'
  BY DEF StartInv
<1>1. /\ start_d' = start_d /\ fsmstart' = fsmstart /\ since' = since /\ hperiod' = hperiod
      /\ Arrives(busy_seen) /\ (SMixInRdy_state' <=> SMixInRdy /\ ~reset)
  BY PbkdfKeeps, PbkdfMoves, PbkdfClock
<1>2. CASE reset
  <2>1. CyclesLeft = 0 /\ ~(resetcycles <= 1)
    BY <1>2, PbkdfClock, LongEnough, Numbers DEF CyclesLeft
  <2>2. ~InReady /\ ~Clears(1) /\ ~Clears(2)
    BY <1>2, <2>1, ClearsNow DEF StartFlushInv
  <2> QED
    BY <1>1, <1>2, <2>2 DEF StartFlushInv, StartInv
<1>3. CASE ~reset
  <2>1. THREADS \in Int
    BY Numbers
  <2>2. busy_seen[2] => Early(THREADS + 1, 2)
    BY <2>1, SpentEarly DEF TakingInv
  <2>3. \A c, d \in Int : Early(c, d)' <=> Early(c, d)
    BY <1>1 DEF Early
  <2>4. Early(THREADS + 1, 2) => Early(THREADS + 2, 2)
    <3>1. hperiod \in Nat /\ PPeriod \in Nat /\ since \in Int
      BY Numbers
    <3>2. (THREADS + 1) * hperiod <= (THREADS + 2) * hperiod
      BY <2>1, <3>1, TimesMonotone
    <3>3. /\ (THREADS + 1) * hperiod \in Int /\ (THREADS + 2) * hperiod \in Int
          /\ 2 * PPeriod \in Int /\ since * hperiod \in Int
      BY <2>1, <3>1
    <3> QED
      BY <3>2, <3>3 DEF Early
  <2>5. SMixInRdy /\ ~busy_seen[2] => SMixInRdy'
    BY <1>1, <1>3 DEF Arrives, SMixInRdy, Clr_SMixInRdy, Arrived
  <2>6. THREADS + 1 \in Int /\ THREADS + 2 \in Int /\ 2 \in Int
    BY <2>1
  <2> QED
    BY <1>1, <1>3, <2>2, <2>3, <2>4, <2>5, <2>6 DEF StartInv
<1> QED
  BY <1>2, <1>3

LEMMA PbkdfFetch ==
  ASSUME TypeInv, InTime, PbkdfEdge, FlushInv, ReadyInv, FetchInv, ExchangeInv
  PROVE  FetchInv' /\ ExchangeInv'
<1> SUFFICES ASSUME ~reset' PROVE FetchInv' /\ ExchangeInv'
  BY DEF FetchInv, ExchangeInv
<1>1. FsmStep /\ Arrives(busy_seen) /\ Arrives(result_seen)
      /\ (SMixInRdy_state' <=> SMixInRdy /\ ~reset)
      /\ (SMixOutRdy_state' <=> SMixOutRdy /\ ~reset)
  BY FsmSteps, PbkdfMoves
<1>2. /\ XSload' = XSload /\ busy_flag' = busy_flag /\ (Rise' <=> Rise) /\ (BusyRise' <=> BusyRise)
      /\ reset_d' = reset_d /\ fsmreset' = fsmreset
      /\ SomeIn("R_IDLE")' <=> SomeIn("R_IDLE")
      /\ SomeIn("R_WAIT")' <=> SomeIn("R_WAIT")
      /\ SomeIn("R_START")' <=> SomeIn("R_START")
      /\ OnlyOneIn("R_START")' <=> OnlyOneIn("R_START")
  BY PbkdfKeeps DEF ThreadState
<1>3. CASE reset
  <2>1. CyclesLeft = 0
    BY <1>3, PbkdfClock, Numbers DEF CyclesLeft
  <2>2. ~Clears(1) /\ ~result_seen[1] /\ ~result_seen[2]
    BY <1>3, <2>1, ClearsNow DEF FlushInv, Flushed
  <2>3. ~OutputBusy' /\ ~Underway(result_seen)'
    BY <1>1, <1>2, <1>3, <2>2 DEF FlushInv, OutputBusy, FetchPending, Underway, Arrives
  <2> QED
    BY <2>3 DEF FetchInv, ExchangeInv, TakingOnce, OutputBusy, FetchPending, Underway, OneBit
<1>4. CASE ~reset
  <2>1. SMixOutRdy => SMixOutRdy_state \/ result_seen[3]
    BY DEF SMixOutRdy, Set_SMixOutRdy, Arrived
  <2>2. FetchPending' => Rise \/ result_seen[1] \/ result_seen[2]
    BY <1>1, <1>2 DEF FetchPending, Underway, Arrives
  <2>3. OutputBusy' => OutputBusy
    BY <1>1, <2>1, <2>2 DEF OutputBusy, FetchPending, Underway
  <2>4. FetchPending' => ~result_seen[3] /\ ~busy_seen[3] /\ InReady /\ ~SMixOutRdy_state
    BY <1>4, <2>2 DEF FetchInv, FetchPending, Underway, OneBit
  <2>5. FetchPending' => SMixInRdy /\ ~SMixOutRdy
    BY <2>1, <2>4 DEF SMixInRdy, Clr_SMixInRdy, InReady, Arrived
  <2>6. OutputBusy' => ~Input' /\ state' # "S_SHIFT_IN" /\ ~Set_SMixInRdy'
    <3>1. OutputBusy' => ~Input /\ state # "S_SHIFT_IN"
      BY <1>4, <2>3 DEF FetchInv
    <3>2. OutputBusy' => SMixOutRdy \/ SMixInRdy
      BY <1>1, <2>5 DEF OutputBusy
    <3>3. OutputBusy' /\ ~SMixOutRdy => FetchPending'
      BY <1>1 DEF OutputBusy
    <3>4. start_output => SMixOutRdy
      BY <1>4 DEF ReadyInv, Output, SMixOutRdy
    <3> QED
      BY <1>1, <1>4, <2>5, <3>1, <3>3, <3>4 DEF FsmStep, Input, NoStrobe
  <2>7. FetchInv'
    <3>1. OneBit(result_seen)'
      BY <1>1, <1>4 DEF FetchInv, OneBit, Arrives
    <3>2. OutputBusy' => ~reset_d' /\ ~fsmreset' /\ ~SomeIn("R_IDLE")'
      BY <1>2, <1>4, <2>3 DEF FetchInv
    <3>3. FetchPending' => ~SMixOutRdy_state' /\ ~SomeIn("R_WAIT")' /\ InReady'
      BY <1>1, <1>2, <1>4, <2>2, <2>5 DEF FetchInv, FetchPending, Underway, InReady
    <3>4. Rise' => XSload' /\ ~Underway(result_seen)' /\ ~Underway(busy_seen)' /\ ~busy_flag'
      BY <1>1, <1>2, <1>4 DEF FetchInv, Underway, Arrives
    <3>5. /\ result_seen[1] => Spent(1, -1, 3)'
          /\ result_seen[2] => Spent(0, -1, 3)'
      BY <1>4, SpentPbkdf DEF FetchInv
    <3>6. /\ result_seen[1] => ~XSload /\ ~busy_seen[2] /\ ~busy_seen[3]
          /\ result_seen[2] => ~XSload /\ ~busy_seen[3]
      BY <1>4 DEF FetchInv
    <3>7. /\ result_seen'[1] => ~XSload' /\ Spent(2, -1, 3)' /\ ~busy_seen'[2] /\ ~busy_seen'[3]
          /\ result_seen'[2] => ~XSload' /\ Spent(1, -1, 3)' /\ ~busy_seen'[3]
          /\ result_seen'[3] => ~XSload' /\ Spent(0, -1, 3)'
      BY <1>1, <1>2, <3>5, <3>6 DEF Arrives
    <3> QED
      BY <2>6, <3>1, <3>2, <3>3, <3>4, <3>7 DEF FetchInv
  <2>8. ExchangeInv'
    <3> SUFFICES ASSUME OutputBusy', SMixInRdy' PROVE ExchangeInv'
      BY DEF ExchangeInv
    <3>1. SMixInRdy /\ ~busy_seen[2]
      BY <1>1, <2>6 DEF SMixInRdy, Clr_SMixInRdy, Arrived, Arrives
    <3>2. ~busy_seen[3]
      BY <1>4, <2>3, <3>1 DEF SMixInRdy, Clr_SMixInRdy, Arrived, FetchInv
    <3>3. Underway(busy_seen)' <=> Underway(busy_seen)
      BY <1>1, <3>1, <3>2 DEF Underway, Arrives
    <3> QED
      BY <1>2, <1>4, <2>3, <3>1, <3>3 DEF ExchangeInv, TakingOnce, Taking
  <2> QED
    BY <2>7, <2>8
<1> QED
  BY <1>3, <1>4

LEMMA PbkdfOverlap ==
  ASSUME OverlapInv, TypeInv', InTime, PbkdfEdge
  PROVE  OverlapInv'
BY TimeBounds, PbkdfResets, PbkdfShift, PbkdfFlush, PbkdfLap, PbkdfInput, PbkdfReady, PbkdfQuiet,
   PbkdfTaking, PbkdfStart, PbkdfFetch DEF OverlapInv

-----------------------------------------------------------------------------
(* An edge of hash_clk, as far as shifts and loads depend on it.           *)

Toggles(c, event) ==
  (c[1]' <=> IF event THEN ~c[1] ELSE c[1]) /\ (c[2]' <=> c[2]) /\ (c[3]' <=> c[3])

LEMMA HashMoves ==
  ASSUME TypeInv, HashTick
  PROVE  /\ UNCHANGED pbkdfClkVars
         /\ Arrives(shift_request) /\ Toggles(shift_acknowledge, LastShift)
         /\ Toggles(busy_seen, BusyRise) /\ Toggles(result_seen, Rise)
         /\ (salsa_busy_d' <=> busy_flag) /\ (salsa_result_d' <=> result)
         /\ salsa_shift' <=> ~LastShift /\ (shift_request[3] \/ (salsa_shift /\ ~reset))
         /\ shift_count' = IF LastShift THEN 0
                           ELSE IF salsa_shift THEN shift_count + 1
                           ELSE IF reset THEN 0
                           ELSE shift_count
         /\ (reset_d' <=> reset) /\ (fsmreset' <=> reset_d)
         /\ (start_d' <=> SMixInRdy) /\ (fsmstart' <=> start_d)
         /\ (SMixInRdy' <=> SMixInRdy) /\ phase_d' = phase
         /\ since' \in Nat /\ since' <= since + 1 /\ (XSload => since' = 0)
         /\ ~XSload /\ since = SPACING => since' = SPACING
<1>1. /\ Follow(busy_flag, result) /\ ShiftControl /\ UNCHANGED pbkdfClkVars
      /\ Rotate(reset, SMixInRdy) /\ Spacing
  BY DEF HashTick, ShifterTick, SalsaTick
<1>2. Crossings
  BY PbkdfTypesMean DEF TypeInv, TypeOK
<1>3. Arrives(shift_request)
  BY <1>1, ShiftBits DEF ShiftControl, Arrives
<1>4. Toggles(shift_acknowledge, LastShift)
  BY <1>1, <1>2, ToggleBits DEF ShiftControl, Crossings, Toggles
<1>5. Toggles(busy_seen, BusyRise)
  BY <1>1, <1>2, ToggleBits DEF Follow, Crossings, Toggles, BusyRise
<1>6. Toggles(result_seen, Rise)
  BY <1>1, <1>2, ToggleBits DEF Follow, Crossings, Toggles, Rise
<1>7. /\ salsa_shift' <=> ~LastShift /\ (shift_request[3] \/ (salsa_shift /\ ~reset))
      /\ shift_count' = IF LastShift THEN 0
                        ELSE IF salsa_shift THEN shift_count + 1
                        ELSE IF reset THEN 0
                        ELSE shift_count
  BY <1>1 DEF ShiftControl, Arrived
<1>8. (salsa_busy_d' <=> busy_flag) /\ (salsa_result_d' <=> result)
  BY <1>1 DEF Follow
<1>9. /\ (reset_d' <=> reset) /\ (fsmreset' <=> reset_d)
      /\ (start_d' <=> SMixInRdy) /\ (fsmstart' <=> start_d) /\ phase_d' = phase
  BY <1>1 DEF Rotate
<1>10. SMixInRdy' <=> SMixInRdy
  BY <1>1, <1>5 DEF SMixInRdy, Clr_SMixInRdy, Arrived, pbkdfClkVars, Toggles
<1>11. /\ since' \in Nat /\ since' <= since + 1 /\ (XSload => since' = 0)
       /\ ~XSload /\ since = SPACING => since' = SPACING
  BY <1>1, Numbers DEF Spacing
<1> QED
  BY <1>1, <1>3, <1>4, <1>5, <1>6, <1>7, <1>8, <1>9, <1>10, <1>11

LEMMA HashKeeps ==
  ASSUME TypeInv, HashTick
  PROVE  /\ state' = state /\ mode' = mode /\ cnt' = cnt /\ nonce_wait' = nonce_wait
         /\ start_output' = start_output /\ reset' = reset /\ resetcycles' = resetcycles
         /\ Set_SMixInRdy' = Set_SMixInRdy /\ Clr_SMixOutRdy' = Clr_SMixOutRdy
         /\ SMixInRdy_state' = SMixInRdy_state /\ SMixOutRdy_state' = SMixOutRdy_state
         /\ (Input' <=> Input) /\ (Output' <=> Output) /\ (InReady' <=> InReady)
         /\ (Shifting' <=> Shifting) /\ ToAsk' = ToAsk
         /\ (Rise' <=> result' /\ ~result) /\ (BusyRise' <=> busy_flag' /\ ~busy_flag)
<1>1. UNCHANGED pbkdfClkVars /\ (salsa_busy_d' <=> busy_flag) /\ (salsa_result_d' <=> result)
  BY HashMoves
<1> QED
  BY <1>1 DEF pbkdfClkVars, Input, Output, InReady, Shifting, ToAsk, Rise, BusyRise

(* The slots: that of phase takes the state on its way, that of phase_d    *)
(* stores it.                                                              *)
LEMMA SlotMoves ==
  ASSUME TypeInv, HashTick
  PROVE  /\ phase # phase_d
         /\ \A t \in Thread : /\ Slot(t) \in ThreadState
                              /\ t # phase /\ t # phase_d => Slot(t)' = Slot(t)
                              /\ t # phase /\ ~fsmreset => Slot(t)' = Slot(t)
                              /\ t # phase /\ fsmreset /\ t = phase_d => Slot(t)' = "R_IDLE"
                              /\ t = phase => Slot(t)' = mstate' /\ Slot(t) = mstate_in
         /\ phase \in Thread \/ (phase = THREADS /\ mstate_in = "R_IDLE")
<1>1. /\ phase_d' = phase
      /\ sstate' = IF phase_d \in Thread
                   THEN [sstate EXCEPT ![phase_d] = IF fsmreset THEN "R_IDLE" ELSE mstate]
                   ELSE sstate
  BY DEF HashTick, SalsaTick, Rotate
<1>2. /\ phase \in 0 .. THREADS /\ phase_d \in 0 .. THREADS + 1 /\ THREADS \in Nat /\ THREADS > 0
      /\ phase = IF phase_d < THREADS THEN phase_d + 1 ELSE 0
      /\ sstate \in [Thread -> ThreadState] /\ mstate \in ThreadState
  BY SalsaAssumption DEF TypeInv, TypeOK, SalsaTypeOK, RingInv
<1>3. phase # phase_d
  BY <1>2
<1>4. phase \in Thread \/ phase = THREADS
  BY <1>2 DEF Thread
<1>5. phase = THREADS => mstate_in = "R_IDLE"
  BY DEF mstate_in
<1>6. ASSUME NEW t \in Thread
      PROVE  /\ Slot(t) \in ThreadState
             /\ t # phase /\ t # phase_d => Slot(t)' = Slot(t)
             /\ t # phase /\ ~fsmreset => Slot(t)' = Slot(t)
             /\ t # phase /\ fsmreset /\ t = phase_d => Slot(t)' = "R_IDLE"
             /\ t = phase => Slot(t)' = mstate' /\ Slot(t) = mstate_in
  <2>1. t # THREADS
    BY <1>2 DEF Thread
  <2> QED
    BY <1>1, <1>2, <1>3, <2>1 DEF Slot, mstate_in
<1> QED
  BY <1>3, <1>4, <1>5, <1>6

LEMMA TurnMoves ==
  ASSUME TypeInv, HashTick, NEW t \in Thread
  PROVE  /\ t # phase => Turn(t)' = Turn(t) - 1
         /\ t = phase => Turn(t) = 1 /\ Turn(t)' = Lap /\ Distance(t)' = 0
         /\ t = phase_d => Distance(t) = 0 /\ Distance(t)' = THREADS
         /\ t # phase_d => Distance(t)' = Distance(t) - 1 /\ Distance(t) > 0
         /\ Distance(t)' \in 0 .. THREADS /\ Turn(t)' \in Int /\ Turn(t)' <= Lap
<1>1. /\ phase \in 0 .. THREADS /\ phase_d \in 0 .. THREADS + 1 /\ THREADS \in Nat /\ THREADS > 0
      /\ phase = IF phase_d < THREADS THEN phase_d + 1 ELSE 0
      /\ t \in 0 .. THREADS - 1
  BY SalsaAssumption DEF TypeInv, TypeOK, SalsaTypeOK, RingInv, Thread
<1>2. phase_d' = phase
  BY HashMoves
<1>3. /\ Distance(t)' \in 0 .. THREADS
      /\ t # phase_d => Distance(t)' = Distance(t) - 1 /\ Distance(t) > 0
  BY <1>2, Closer
<1>4. t = phase_d => Distance(t) = 0
  BY <1>1 DEF Distance
<1>5. Distance(t)' = IF phase <= t THEN t - phase
                     ELSE IF phase <= THREADS THEN t - phase + THREADS + 1
                     ELSE t + 1
  BY <1>2 DEF Distance
<1>6. t = phase_d => Distance(t)' = THREADS
  BY <1>1, <1>5
<1>7. (t = phase => Distance(t)' = 0) /\ (t # phase => Distance(t)' # 0)
  BY <1>1, <1>5
<1>8. Turn(t)' = IF t = phase THEN Lap ELSE Distance(t)'
  BY <1>2 DEF Turn, Lap
<1>9. Distance(t) \in 0 .. THREADS
  BY TypesDistance
<1> QED
  BY <1>1, <1>3, <1>4, <1>6, <1>7, <1>8, <1>9 DEF Turn, Lap

SlotStep ==
  \/ /\ fsmreset /\ mstate' = "R_IDLE" /\ ~busy_flag' /\ ~result' /\ ~XSload'
     /\ (start_flag' => start_flag)
  \/ /\ ~fsmreset /\ mstate_in = "R_IDLE" /\ (phase = THREADS \/ ~start_flag)
     /\ mstate' = "R_IDLE" /\ ~XSload' /\ (busy_flag' <=> busy_flag) /\ (result' <=> result)
     /\ (start_flag' => start_flag \/ fsmstart)
  \/ /\ ~fsmreset /\ mstate_in = "R_IDLE" /\ phase # THREADS /\ start_flag
     /\ mstate' = "R_START" /\ XSload' /\ ~busy_flag' /\ (result' <=> result)
     /\ ~start_flag'
  \/ /\ ~fsmreset /\ mstate_in = "R_START"
     /\ mstate' = "R_RUN" /\ ~XSload' /\ busy_flag' /\ ~result'
     /\ (start_flag' => start_flag \/ fsmstart)
  \/ /\ ~fsmreset /\ mstate_in = "R_RUN"
     /\ mstate' = "R_RUN" /\ ~XSload' /\ (busy_flag' <=> busy_flag) /\ (result' <=> result)
     /\ (start_flag' => start_flag \/ fsmstart)
  \/ /\ ~fsmreset /\ mstate_in = "R_RUN" /\ EvenlySpaced /\ fsmstart
     /\ mstate' = "R_START" /\ XSload' /\ ~busy_flag' /\ result'
     /\ (start_flag' => start_flag \/ fsmstart)
  \/ /\ ~fsmreset /\ mstate_in = "R_RUN" /\ EvenlySpaced /\ ~fsmstart
     /\ mstate' = "R_WAIT" /\ ~XSload' /\ ~busy_flag' /\ (result' <=> result)
     /\ (start_flag' => start_flag \/ fsmstart)
  \/ /\ ~fsmreset /\ mstate_in = "R_WAIT" /\ ~fsmstart
     /\ mstate' = "R_WAIT" /\ ~XSload' /\ (busy_flag' <=> busy_flag) /\ (result' <=> result)
     /\ (start_flag' => start_flag \/ fsmstart)
  \/ /\ ~fsmreset /\ mstate_in = "R_WAIT" /\ fsmstart
     /\ mstate' = "R_START" /\ XSload' /\ (busy_flag' <=> busy_flag) /\ result'
     /\ (start_flag' => start_flag \/ fsmstart)

LEMMA SlotSteps ==
  ASSUME TypeInv, HashTick, SlotQuiet \/ Complete
  PROVE  SlotStep
<1>1. RaiseStart => start_flag \/ fsmstart
  BY DEF RaiseStart
<1>2. SalsaFlags
  BY SalsaTypesMean DEF TypeInv, TypeOK
<1>3. CASE FsmResetSlot
  BY <1>3 DEF FsmResetSlot, SlotStep
<1>4. CASE StayIdle
  BY <1>1, <1>4 DEF StayIdle, SlotStep
<1>5. CASE LeaveIdle
  BY <1>5 DEF LeaveIdle, SlotStep
<1>6. CASE Start
  BY <1>1, <1>6 DEF Start, SlotStep
<1>7. CASE Run
  BY <1>1, <1>7 DEF Run, SlotStep
<1>8. CASE Complete
  <2>1. CASE fsmstart
    BY <1>1, <1>8, <2>1 DEF Complete, SlotStep
  <2>2. CASE ~fsmstart
    BY <1>1, <1>8, <2>2 DEF Complete, SlotStep
  <2> QED
    BY <2>1, <2>2
<1>9. CASE Wait
  BY <1>1, <1>9 DEF Wait, SlotStep
<1>10. CASE Resume
  BY <1>1, <1>10 DEF Resume, SlotStep
<1> QED
  BY <1>3, <1>4, <1>5, <1>6, <1>7, <1>8, <1>9, <1>10 DEF SlotQuiet

(* The threads in order are those that were, without one that is reset and *)
(* with one that takes its input.                                          *)
LEMMA OthersWere ==
  ASSUME RunningOnce, NEW t, NEW i \in DOMAIN Others(t)
  PROVE  \E j \in DOMAIN order : order[j] = Others(t)[i]
<1>1. order \in Seq(Thread) /\ DOMAIN order = 1 .. Len(order) /\ Len(order) \in Nat
  BY LenProperties DEF RunningOnce
<1>2. CASE ~\E k \in DOMAIN order : order[k] = t
  BY <1>2 DEF Others
<1>3. CASE \E k \in DOMAIN order : order[k] = t
  <2> DEFINE k == CHOOSE k \in DOMAIN order : order[k] = t
  <2> DEFINE a == SubSeq(order, 1, k - 1)
  <2> DEFINE b == SubSeq(order, k + 1, Len(order))
  <2>1. k \in 1 .. Len(order)
    BY <1>1, <1>3
  <2>2. Others(t) = a \o b
    BY <1>3 DEF Others
  <2> HIDE DEF k
  <2>3. /\ a \in Seq(Thread) /\ Len(a) = k - 1
        /\ \A n \in 1 .. k - 1 : a[n] = order[n]
    <3>1. \A n \in 1 .. k - 1 : order[n] \in Thread
      BY <1>1, <2>1
    <3>2. /\ SubSeq(order, 1, k - 1) \in Seq(Thread)
          /\ Len(SubSeq(order, 1, k - 1)) = IF 1 <= k - 1 THEN k - 1 - 1 + 1 ELSE 0
          /\ \A n \in 1 .. k - 1 - 1 + 1 : SubSeq(order, 1, k - 1)[n] = order[1 + n - 1]
      BY <2>1, <3>1, SubSeqProperties
    <3> QED
      BY <2>1, <3>2
  <2>4. /\ b \in Seq(Thread) /\ Len(b) = Len(order) - k
        /\ \A n \in 1 .. Len(order) - k : b[n] = order[k + n]
    <3>1. \A n \in k + 1 .. Len(order) : order[n] \in Thread
      BY <1>1, <2>1
    <3>2. /\ SubSeq(order, k + 1, Len(order)) \in Seq(Thread)
          /\ Len(SubSeq(order, k + 1, Len(order)))
               = IF k + 1 <= Len(order) THEN Len(order) - (k + 1) + 1 ELSE 0
          /\ \A n \in 1 .. Len(order) - (k + 1) + 1 :
               SubSeq(order, k + 1, Len(order))[n] = order[k + 1 + n - 1]
      BY <1>1, <2>1, <3>1, SubSeqProperties
    <3> QED
      BY <1>1, <2>1, <3>2
  <2> HIDE DEF a, b
  <2>5. /\ a \o b \in Seq(Thread) /\ Len(a \o b) = Len(a) + Len(b)
        /\ \A n \in 1 .. Len(a) + Len(b) :
             (a \o b)[n] = IF n <= Len(a) THEN a[n] ELSE b[n - Len(a)]
    BY <2>3, <2>4, ConcatProperties
  <2>6. i \in 1 .. Len(order) - 1
    <3>1. DOMAIN (a \o b) = 1 .. Len(a) + Len(b)
      BY <2>5, LenProperties
    <3>2. Len(a) + Len(b) = Len(order) - 1
      BY <1>1, <2>1, <2>3, <2>4
    <3> QED
      BY <2>2, <3>1, <3>2
  <2>7. CASE i <= k - 1
    <3>1. i \in 1 .. k - 1 /\ i \in DOMAIN order /\ i \in 1 .. Len(a) + Len(b) /\ i <= Len(a)
      BY <1>1, <2>1, <2>3, <2>4, <2>6, <2>7
    <3>2. (a \o b)[i] = a[i] /\ a[i] = order[i]
      BY <2>3, <2>5, <3>1
    <3> QED
      BY <2>2, <3>1, <3>2
  <2>8. CASE ~(i <= k - 1)
    <3>1. i - (k - 1) \in 1 .. Len(order) - k /\ k + (i - (k - 1)) \in 1 .. Len(order)
      BY <1>1, <2>1, <2>6, <2>8
    <3>2. (a \o b)[i] = b[i - (k - 1)]
      BY <1>1, <2>1, <2>3, <2>4, <2>5, <2>6, <2>8
    <3>3. b[i - (k - 1)] = order[k + (i - (k - 1))]
      BY <2>4, <3>1
    <3> QED
      BY <1>1, <2>2, <3>1, <3>2, <3>3
  <2> QED
    BY <2>7, <2>8
<1> QED
  BY <1>2, <1>3

LEMMA OrderMoves ==
  ASSUME TypeInv, HashTick, NEW t \in Thread, Runs(t)'
  PROVE  \/ Runs(t) /\ ~(t = phase_d /\ (XSload \/ fsmreset))
         \/ XSload /\ t = phase_d
<1>1. Spacing /\ RunningOnce
  BY DEF HashTick, SalsaTick, TypeInv
<1>2. PICK i \in DOMAIN order' : order'[i] = t
  BY DEF Runs
<1>3. CASE XSload
  <2> DEFINE o == Others(phase_d)
  <2>1. order' = Append(o, phase_d)
    BY <1>1, <1>3 DEF Spacing
  <2>2. o \in Seq(Thread) /\ phase_d \in Thread /\ \A n \in DOMAIN o : o[n] # phase_d
    BY <1>1, <1>3, OthersRun DEF TypeInv, RingInv
  <2>3. \A n \in DOMAIN o : \E j \in DOMAIN order : order[j] = o[n]
    BY <1>1, OthersWere
  <2> HIDE DEF o
  <2>4. /\ Append(o, phase_d) \in Seq(Thread) /\ Len(Append(o, phase_d)) = Len(o) + 1
        /\ \A n \in 1 .. Len(o) : Append(o, phase_d)[n] = o[n]
        /\ Append(o, phase_d)[Len(o) + 1] = phase_d
    BY <2>2, AppendProperties
  <2>5. Len(o) \in Nat /\ DOMAIN o = 1 .. Len(o) /\ DOMAIN order' = 1 .. Len(o) + 1
    BY <2>1, <2>2, <2>4, LenProperties
  <2>6. CASE i = Len(o) + 1
    BY <1>2, <1>3, <2>1, <2>4, <2>6
  <2>7. CASE i \in 1 .. Len(o)
    <3>1. o[i] = t
      BY <1>2, <2>1, <2>4, <2>7
    <3> QED
      BY <2>2, <2>3, <2>5, <2>7, <3>1 DEF Runs
  <2> QED
    BY <1>2, <2>5, <2>6, <2>7
<1>4. CASE ~XSload /\ fsmreset
  <2>1. order' = Others(phase_d)
    BY <1>1, <1>4 DEF Spacing
  <2>2. \A n \in DOMAIN order' : order'[n] # phase_d
    BY <1>1, <2>1, OthersRun
  <2>3. \A n \in DOMAIN order' : \E j \in DOMAIN order : order[j] = order'[n]
    BY <1>1, <2>1, OthersWere
  <2> QED
    BY <1>2, <1>4, <2>2, <2>3 DEF Runs
<1>5. CASE ~XSload /\ ~fsmreset
  BY <1>1, <1>2, <1>5 DEF Spacing, Runs
<1> QED
  BY <1>3, <1>4, <1>5

(* When as many threads are in order as there are, all of them are.        *)
LEMMA AllRun ==
  ASSUME RunningOnce, Len(order) = THREADS, NEW t \in Thread
  PROVE  Runs(t)
<1> SUFFICES ASSUME ~Runs(t) PROVE FALSE
  OBVIOUS
<1>1. Len(order) \in Nat /\ order \in [1 .. Len(order) -> Thread] /\ DOMAIN order = 1 .. Len(order)
  BY LenProperties DEF RunningOnce
<1>2. IsFiniteSet(1 .. Len(order)) /\ Cardinality(1 .. Len(order)) = THREADS
  BY <1>1, FS_Interval
<1>3. IsFiniteSet(Thread) /\ Cardinality(Thread) = THREADS /\ THREADS \in Nat
  <2>1. THREADS - 1 \in Int /\ THREADS - 1 >= 0
    BY SalsaAssumption
  <2>2. /\ IsFiniteSet(0 .. THREADS - 1)
        /\ Cardinality(0 .. THREADS - 1)
             = IF 0 > THREADS - 1 THEN 0 ELSE THREADS - 1 - 0 + 1
    <3>1. 0 \in Int
      OBVIOUS
    <3> QED
      BY <2>1, <3>1, FS_Interval, Zenon
  <2> QED
    BY <2>1, <2>2, SalsaAssumption DEF Thread
<1>4. IsFiniteSet(Thread \ {t}) /\ Cardinality(Thread \ {t}) = THREADS - 1
  BY <1>3, FS_RemoveElement
<1>5. order \in [1 .. Len(order) -> Thread \ {t}]
  BY <1>1 DEF Runs
<1>6. \E i, j \in 1 .. Len(order) : i # j /\ order[i] = order[j]
  BY <1>2, <1>3, <1>4, <1>5, FS_PigeonHole
<1> QED
  BY <1>1, <1>6 DEF RunningOnce

-----------------------------------------------------------------------------
(* The parts of the invariant at an edge of hash_clk.                      *)

LEMMA HashShift ==
  ASSUME TypeInv, InTime, HashTick, ShiftInv
  PROVE  ShiftInv'
<1>1. /\ Arrives(shift_request) /\ Toggles(shift_acknowledge, LastShift)
      /\ salsa_shift' <=> ~LastShift /\ (shift_request[3] \/ (salsa_shift /\ ~reset))
      /\ shift_count' = IF LastShift THEN 0
                        ELSE IF salsa_shift THEN shift_count + 1
                        ELSE IF reset THEN 0
                        ELSE shift_count
      /\ reset' = reset /\ (Shifting' <=> Shifting)
  BY HashMoves, HashKeeps
<1>2. LastShift => shift_count # 0
  BY Numbers DEF LastShift, InTime
<1>3. LastShift => ~Underway(shift_request) /\ ~Underway(shift_acknowledge)
  BY <1>2 DEF ShiftInv
<1>4. shift_count' # 0 => ~LastShift /\ (salsa_shift \/ (shift_count # 0 /\ ~reset))
  BY <1>1
<1>5. OneBit(shift_request)' /\ OneBit(shift_acknowledge)'
  BY <1>1, <1>3 DEF ShiftInv, OneBit, Arrives, Toggles, Underway
<1>6. Pending' => ~LastShift /\ Pending
  BY <1>1, <1>3 DEF Pending, Underway, Arrives
<1>7. Pending' \/ shift_count' # 0 => ~Underway(shift_acknowledge)'
  BY <1>1, <1>4, <1>6 DEF ShiftInv, Toggles, Underway, Pending
<1>8. salsa_shift' \/ shift_count' # 0 => ~Underway(shift_request)'
  BY <1>1, <1>4 DEF ShiftInv, OneBit, Arrives, Underway
<1>9. ~reset' /\ ~Shifting' => ~Pending' /\ ~Underway(shift_acknowledge)'
  BY <1>1, <1>2, <1>6 DEF ShiftInv, Toggles, Underway, Pending
<1>10. ~reset' /\ Shifting' => Pending' \/ Underway(shift_acknowledge)'
  BY <1>1, <1>3 DEF ShiftInv, Arrives, Toggles, Underway, Pending
<1>11. ~reset' /\ shift_count' # 0 => salsa_shift'
  BY <1>1, <1>4 DEF ShiftInv
<1> QED
  BY <1>5, <1>7, <1>8, <1>9, <1>10, <1>11 DEF ShiftInv

LEMMA HashFlush ==
  ASSUME TypeInv, InTime, HashTick, SlotStep, ShiftFlushInv, FlushInv, StartFlushInv
  PROVE  ShiftFlushInv' /\ FlushInv' /\ StartFlushInv'
<1> SUFFICES ASSUME reset'
             PROVE  ShiftFlushInv' /\ FlushInv' /\ StartFlushInv'
  BY DEF ShiftFlushInv, FlushInv, StartFlushInv
<1>1. /\ Arrives(shift_request) /\ Toggles(shift_acknowledge, LastShift)
      /\ Toggles(busy_seen, BusyRise) /\ Toggles(result_seen, Rise)
      /\ salsa_shift' <=> ~LastShift /\ (shift_request[3] \/ (salsa_shift /\ ~reset))
      /\ shift_count' = IF LastShift THEN 0
                        ELSE IF salsa_shift THEN shift_count + 1
                        ELSE IF reset THEN 0
                        ELSE shift_count
      /\ (reset_d' <=> reset) /\ (fsmreset' <=> reset_d)
      /\ (start_d' <=> SMixInRdy) /\ (fsmstart' <=> start_d)
  BY HashMoves
<1>2. /\ reset /\ CyclesLeft' = CyclesLeft /\ resetcycles' = resetcycles
      /\ (Rise' <=> result' /\ ~result) /\ (BusyRise' <=> busy_flag' /\ ~busy_flag)
      /\ (InReady' <=> InReady)
  BY HashKeeps, HashClock
<1>3. /\ Clears(5) => Clears(4)'
      /\ Clears(4) => Clears(3)'
      /\ Clears(3) => Clears(2)'
      /\ Clears(2) => Clears(1)'
  BY ClearsHash
<1>4. Clears(1) => CyclesLeft >= 2
  BY ClearsNow
<1>5. LastShift => CyclesLeft >= 2
  <2>1. LastShift => shift_count # 0
    BY Numbers DEF LastShift, InTime
  <2> QED
    BY <1>2, <1>4, <2>1 DEF ShiftFlushInv
<1>6. SMixInRdy => InReady
  BY DEF SMixInRdy, InReady
<1>7. ShiftFlushInv'
  <2>1. Flushed(shift_acknowledge)'
    BY <1>1, <1>2, <1>5 DEF ShiftFlushInv, Flushed, Toggles
  <2> QED
    BY <1>1, <1>2, <1>3, <2>1 DEF ShiftFlushInv, Arrives
<1>8. FlushInv'
  <2>1. Flushed(result_seen)' /\ Flushed(busy_seen)'
    BY <1>1, <1>2, <1>4 DEF FlushInv, Flushed, Toggles
  <2>2. Rise' \/ BusyRise' => ~fsmreset
    BY <1>2 DEF SlotStep
  <2> QED
    BY <1>1, <1>2, <1>3, <2>1, <2>2 DEF FlushInv
<1>9. StartFlushInv'
  BY <1>1, <1>2, <1>3, <1>6 DEF StartFlushInv
<1> QED
  BY <1>7, <1>8, <1>9

LEMMA HashLap ==
  ASSUME TypeInv, HashTick, SlotStep, LapInv, OrderInv
  PROVE  LapInv' /\ OrderInv'
<1>1. /\ reset' = reset /\ (reset_d' <=> reset) /\ (fsmreset' <=> reset_d) /\ phase_d' = phase
  BY HashMoves, HashKeeps
<1>2. THREADS \in Nat /\ THREADS + 1 \in Nat /\ THREADS + 1 > 0 /\ THREADS + 1 + 1 = THREADS + 2
  BY Numbers
<1>3. XSload' => ~fsmreset /\ mstate' = "R_START"
  BY DEF SlotStep
<1>4. reset_d' /\ ~fsmreset' => ResetFor(THREADS + 1)'
  BY <1>1, <1>2, HashResetFor DEF LapInv
<1>5. fsmreset' /\ XSload' => FsmResetFor(THREADS + 2)'
  BY <1>1, <1>2, <1>3, FsmResetStarts DEF LapInv
<1>6. ASSUME NEW t \in Thread, Runs(t)'
      PROVE  IF fsmreset' THEN (t = phase_d' /\ XSload') \/ FsmResetFor(Distance(t) + 1)'
                          ELSE Slot(t)' # "R_IDLE"
  <2>1. \/ Runs(t) /\ ~(t = phase_d /\ (XSload \/ fsmreset))
        \/ XSload /\ t = phase_d
    BY <1>6, OrderMoves
  <2>2. PICK e \in 0 .. THREADS : e = Distance(t)'
    BY TurnMoves
  <2>3. FsmResetFor(e + 1)' => FsmResetFor(Distance(t) + 1)'
    BY <2>2 DEF FsmResetFor, ResetFor
  <2>4. CASE fsmreset
    <3>1. FsmResetFor(e + 2)
      <4>1. CASE XSload /\ t = phase_d
        <5>1. e = THREADS
          BY <2>2, <4>1, TurnMoves
        <5> QED
          BY <2>4, <4>1, <5>1 DEF LapInv
      <4>2. CASE Runs(t) /\ t # phase_d
        <5>1. e + 2 = Distance(t) + 1
          BY <2>2, <4>2, TurnMoves, TypesDistance
        <5> QED
          BY <2>4, <4>2, <5>1 DEF OrderInv
      <4> QED
        BY <2>1, <2>4, <4>1, <4>2
    <3>2. e + 1 \in Nat /\ e + 1 > 0 /\ e + 1 + 1 = e + 2
      OBVIOUS
    <3>3. fsmreset' /\ FsmResetFor(e + 1)'
      BY <3>1, <3>2, HashFsmResetFor
    <3> QED
      BY <2>3, <3>3
  <2>5. CASE ~fsmreset /\ reset_d
    <3>1. ResetFor(THREADS + 1)
      BY <2>5 DEF LapInv
    <3>2. CASE e = 0
      BY <1>1, <2>3, <2>5, <3>2 DEF FsmResetFor
    <3>3. CASE e # 0
      <4>1. e \in Nat /\ e > 0 /\ e <= THREADS + 1
        BY <1>2, <3>3
      <4>2. ResetFor(e)
        BY <1>2, <3>1, <4>1, ResetShorter
      <4> QED
        BY <2>3, <2>5, <4>1, <4>2, FsmResetStarts
    <3> QED
      BY <3>2, <3>3
  <2>6. CASE ~fsmreset /\ ~reset_d
    <3>1. Slot(t) # "R_IDLE"
      BY <2>1, <2>6 DEF OrderInv, Slot
    <3>2. CASE t = phase
      <4>1. Slot(t)' = mstate' /\ mstate_in # "R_IDLE"
        BY <3>1, <3>2, SlotMoves
      <4> QED
        BY <1>1, <2>6, <4>1 DEF SlotStep
    <3>3. CASE t # phase
      BY <1>1, <2>6, <3>1, <3>3, SlotMoves
    <3> QED
      BY <3>2, <3>3
  <2> QED
    BY <2>4, <2>5, <2>6
<1>7. OrderInv'
  BY <1>3, <1>6 DEF OrderInv
<1> QED
  BY <1>1, <1>4, <1>5, <1>7 DEF LapInv

LEMMA HashReady ==
  ASSUME TypeInv, HashTick, NotReadyInv, ReadyInv
  PROVE  NotReadyInv' /\ ReadyInv'
<1>1. NotReadyInv'
  BY HashKeeps DEF NotReadyInv
<1>2. ReadyInv'
  BY HashKeeps DEF ReadyInv
<1> QED
  BY <1>1, <1>2

LEMMA HashAsks ==
  ASSUME TypeInv, HashTick, SlotStep, NotReadyInv, InputInv
  PROVE  InputInv'
<1> SUFFICES ASSUME ~reset', Input' PROVE InputInv'
  BY DEF InputInv
<1>1. /\ ~reset /\ Input /\ ToAsk' = ToAsk
      /\ (reset_d' <=> reset) /\ (fsmreset' <=> reset_d)
      /\ (start_d' <=> SMixInRdy) /\ (fsmstart' <=> start_d) /\ phase_d' = phase
  BY HashKeeps, HashMoves
<1>2. ~start_d' /\ ~reset_d'
  BY <1>1 DEF NotReadyInv, InReady, SMixInRdy
<1>3. /\ Lap = THREADS + 1 /\ Lap \in Nat
      /\ ToAsk \in Int
  <2>1. InCycles - cnt + 10 \in Int /\ nonce_wait + 1 \in Int /\ THREADS \in Nat
    BY Numbers
  <2> QED
    BY <1>1, <2>1, ToAskMeans DEF Lap, Input
<1>4. PICK k \in Int : k = ToAsk
  BY <1>3
<1>5. \A m, n \in Int : Within(m, ToAsk) /\ n < m => Within(n, ToAsk)'
  <2> SUFFICES ASSUME NEW m \in Int, NEW n \in Int, Within(m, k), n < m
               PROVE  Within(n, ToAsk)'
    BY <1>4
  <2>1. n + 1 \in Int /\ n + 1 <= m /\ k <= k
    OBVIOUS
  <2>2. Within(n + 1, k)
    BY <2>1, WithinFewer
  <2>3. Within(n + 1 - 1, k)'
    BY <2>1, <2>2, WithinHash
  <2>4. n + 1 - 1 = n /\ k = ToAsk'
    BY <1>1, <1>4
  <2> QED
    BY <2>3, <2>4 DEF Within
<1>6. fsmstart' \/ fsmreset' => Within(Lap + 2, ToAsk)'
  <2>1. start_d \/ reset_d => Within(Lap + 3, ToAsk)
    BY <1>1 DEF InputInv
  <2>2. Lap + 3 \in Int /\ Lap + 2 \in Int /\ Lap + 2 < Lap + 3
    BY <1>3
  <2> QED
    BY <1>1, <1>5, <2>1, <2>2
<1>7. fsmstart \/ fsmreset => \A n \in Int : n < Lap + 2 => Within(n, ToAsk)'
  BY <1>1, <1>3, <1>5 DEF InputInv
<1>8. ASSUME start_flag', NEW t \in Thread, Slot(t)' = "R_IDLE"
      PROVE  Within(Turn(t) + 1, ToAsk)'
  <2>1. PICK e \in Int : e = Turn(t)'
    BY TurnMoves
  <2>2. e + 1 \in Int /\ e + 1 < Lap + 2
    BY <1>3, <2>1, TurnMoves
  <2>3. Within(e + 1, ToAsk)'
    <3>1. CASE fsmstart \/ fsmreset
      BY <1>7, <2>2, <3>1
    <3>2. CASE ~fsmstart /\ ~fsmreset
      <4>1. start_flag /\ ~XSload'
        BY <1>8, <3>2 DEF SlotStep
      <4>2. t # phase
        <5> SUFFICES ASSUME t = phase PROVE FALSE
          OBVIOUS
        <5>1. mstate' = "R_IDLE" /\ phase # THREADS
          BY <1>8, SlotMoves, Numbers DEF Thread
        <5> QED
          BY <3>2, <4>1, <5>1 DEF SlotStep
      <4>3. Slot(t) = "R_IDLE"
        BY <1>8, <3>2, <4>2, SlotMoves
      <4>4. Within(Turn(t) + 1, ToAsk)
        BY <1>1, <4>1, <4>3 DEF InputInv
      <4>5. Turn(t) + 1 = e + 2 /\ e + 2 \in Int /\ e + 1 < e + 2
        BY <2>1, <4>2, TurnMoves, TypesDistance
      <4> QED
        BY <1>5, <2>2, <4>4, <4>5
    <3> QED
      BY <3>1, <3>2
  <2> QED
    BY <2>1, <2>3 DEF Within
<1>9. XSload' => Within(1, ToAsk)'
  <2> SUFFICES ASSUME XSload', ~fsmstart, ~fsmreset PROVE Within(1, ToAsk)'
    BY <1>3, <1>7
  <2>1. start_flag /\ mstate_in = "R_IDLE" /\ phase # THREADS
    BY DEF SlotStep
  <2>2. phase \in Thread /\ Slot(phase) = "R_IDLE"
    BY <2>1, SlotMoves
  <2>3. Turn(phase) = 1
    BY <2>2, TurnMoves
  <2>4. Within(2, ToAsk)
    BY <1>1, <2>1, <2>2, <2>3 DEF InputInv
  <2> QED
    BY <1>5, <2>4
<1> QED
  BY <1>2, <1>6, <1>8, <1>9 DEF InputInv

LEMMA HashQuiet ==
  ASSUME TypeInv, InTime, HashTick, SlotStep, ShiftInv, QuietInv
  PROVE  QuietInv'
<1> SUFFICES ASSUME Pending' PROVE QuietInv'
  BY DEF QuietInv
<1>1. /\ Arrives(shift_request)
      /\ salsa_shift' <=> ~LastShift /\ (shift_request[3] \/ (salsa_shift /\ ~reset))
      /\ shift_count' = IF LastShift THEN 0
                        ELSE IF salsa_shift THEN shift_count + 1
                        ELSE IF reset THEN 0
                        ELSE shift_count
      /\ (reset_d' <=> reset) /\ (fsmreset' <=> reset_d)
      /\ (start_d' <=> SMixInRdy) /\ (fsmstart' <=> start_d)
      /\ since' \in Nat /\ since' <= since + 1
      /\ reset' = reset /\ (InReady' <=> InReady)
  BY HashMoves, HashKeeps
<1>2. /\ since \in Nat /\ SPACING \in Nat /\ SHIFTS \in Nat /\ shift_count \in Nat
      /\ shift_count <= SHIFTS - 1
  BY Numbers
<1>3. ~LastShift /\ Pending
  <2>1. LastShift => shift_count # 0
    BY <1>2 DEF LastShift, InTime
  <2> QED
    BY <1>1, <2>1 DEF ShiftInv, Pending, Underway, Arrives
<1>4. ~XSload /\ (reset_d => reset) /\ (fsmreset => reset_d) /\ (QuietIn \/ QuietOut)
  BY <1>3 DEF QuietInv
<1>5. ASSUME QuietIn
      PROVE  ~XSload' /\ (QuietIn \/ QuietOut)'
  <2>1. ~fsmstart /\ ~InReady' /\ ~start_d' /\ ~fsmstart' /\ ~SMixInRdy
    BY <1>1, <1>5 DEF QuietIn, InReady, SMixInRdy
  <2>2. ~fsmreset /\ mstate_in = "R_IDLE" /\ phase # THREADS => SomeIn("R_IDLE")
    BY SlotMoves DEF SomeIn
  <2>3. ~XSload'
    BY <1>5, <2>1, <2>2 DEF SlotStep, QuietIn
  <2>4. start_flag' => start_flag
    BY <1>5, <2>1 DEF SlotStep
  <2>5. ASSUME start_flag, ~fsmreset', NEW t \in Thread, Slot(t)' = "R_IDLE"
        PROVE  FALSE
    <3>1. ~fsmreset /\ ~SomeIn("R_IDLE")
      BY <1>1, <1>4, <1>5, <2>5 DEF QuietIn
    <3>2. Slot(t) # "R_IDLE"
      BY <3>1 DEF SomeIn
    <3>3. CASE t = phase
      <4>1. mstate' = "R_IDLE" /\ mstate_in # "R_IDLE"
        BY <2>5, <3>2, <3>3, SlotMoves
      <4> QED
        BY <3>1, <4>1 DEF SlotStep
    <3>4. CASE t # phase
      BY <2>5, <3>1, <3>2, <3>4, SlotMoves
    <3> QED
      BY <3>3, <3>4
  <2>6. QuietIn'
    BY <2>1, <2>4, <2>5 DEF QuietIn, SomeIn
  <2> QED
    BY <2>3, <2>6
<1>6. ASSUME QuietOut
      PROVE  ~XSload' /\ (QuietIn \/ QuietOut)'
  <2>1. /\ Left = IF salsa_shift THEN SHIFTS - shift_count
                  ELSE IF shift_request[1] THEN 3 + SHIFTS
                  ELSE IF shift_request[2] THEN 2 + SHIFTS ELSE 1 + SHIFTS
        /\ Left' = IF salsa_shift' THEN SHIFTS - shift_count'
                   ELSE IF shift_request'[1] THEN 3 + SHIFTS
                   ELSE IF shift_request'[2] THEN 2 + SHIFTS ELSE 1 + SHIFTS
    BY DEF Left
  <2>2. Left \in Nat /\ Left > 0
    BY <1>2, <2>1
  <2>3. shift_request[3] => ~salsa_shift /\ ~shift_request[1] /\ ~shift_request[2] /\ shift_count = 0
    BY DEF ShiftInv, OneBit, Underway
  <2>4. Left' \in Int /\ Left' <= Left - 1
    <3>1. CASE salsa_shift
      <4>1. ~Underway(shift_request)
        BY <3>1 DEF ShiftInv
      <4>2. salsa_shift' /\ shift_count' = shift_count + 1
        BY <1>1, <1>3, <3>1, <4>1 DEF Pending, Underway, Arrives
      <4> QED
        BY <1>2, <2>1, <3>1, <4>2
    <3>2. CASE ~salsa_shift /\ shift_request[3]
      <4>1. salsa_shift' /\ shift_count' = 0
        BY <1>1, <1>3, <2>3, <3>2
      <4> QED
        BY <1>2, <2>1, <2>3, <3>2, <4>1
    <3>3. CASE ~salsa_shift /\ ~shift_request[3]
      <4>1. ~salsa_shift' /\ ~shift_request'[1]
        BY <1>1, <3>3 DEF Arrives
      <4>2. IF shift_request[1] THEN shift_request'[2]
            ELSE shift_request[2] /\ ~shift_request'[2]
        BY <1>1, <1>3, <3>3 DEF Arrives, Pending, Underway
      <4> QED
        BY <1>2, <2>1, <3>3, <4>1, <4>2
    <3> QED
      BY <3>1, <3>2, <3>3
  <2>5. since < SPACING /\ ~EvenlySpaced
    BY <1>2, <1>6, <2>2 DEF QuietOut, EvenlySpaced
  <2>6. since' + Left' <= SPACING
    <3>1. since + Left <= SPACING
      BY <1>6 DEF QuietOut
    <3>2. PICK m \in Int : m = Left'
      BY <2>4
    <3>3. PICK n \in Int : n = since'
      BY <1>1
    <3>4. PICK l \in Int : l = Left
      BY <2>2
    <3>5. n <= since + 1 /\ m <= l - 1 /\ since + l <= SPACING
      BY <1>1, <2>4, <3>1, <3>2, <3>3, <3>4
    <3>6. n + m <= SPACING
      BY <1>2, <3>5
    <3> QED
      BY <3>2, <3>3, <3>6
  <2>7. /\ ~fsmreset /\ mstate_in = "R_IDLE" /\ phase # THREADS => SomeIn("R_IDLE")
        /\ mstate_in = "R_WAIT" => SomeIn("R_WAIT")
    BY SlotMoves DEF SomeIn
  <2>8. ~XSload'
    BY <1>6, <2>5, <2>7 DEF SlotStep, QuietOut
  <2>9. ASSUME NEW t \in Thread
        PROVE  Slot(t)' # "R_WAIT" /\ (Slot(t)' = "R_IDLE" => fsmreset')
    <3>1. Slot(t) # "R_WAIT" /\ (Slot(t) = "R_IDLE" => fsmreset)
      BY <1>6 DEF QuietOut, SomeIn
    <3>2. fsmreset => fsmreset'
      BY <1>1, <1>4
    <3>3. CASE t = phase
      <4>1. Slot(t)' = mstate' /\ mstate_in = Slot(t)
        BY <3>3, SlotMoves
      <4> QED
        BY <1>6, <2>5, <3>1, <3>2, <4>1 DEF SlotStep
    <3>4. CASE t # phase
      BY <3>1, <3>2, <3>4, SlotMoves
    <3> QED
      BY <3>3, <3>4
  <2>10. QuietOut'
    BY <2>6, <2>9 DEF QuietOut, SomeIn
  <2> QED
    BY <2>8, <2>10
<1> QED
  BY <1>1, <1>4, <1>5, <1>6 DEF QuietInv

LEMMA HashTaking ==
  ASSUME TypeInv, HashTick, SlotStep, TakingInv
  PROVE  TakingInv'
<1>1. /\ Toggles(busy_seen, BusyRise) /\ phase_d' = phase
      /\ since' \in Nat /\ since' <= since + 1 /\ (XSload => since' = 0)
      /\ (BusyRise' <=> busy_flag' /\ ~busy_flag)
  BY HashMoves, HashKeeps
<1>2. THREADS \in Nat /\ THREADS + 1 \in Int /\ since \in Nat /\ Lap = THREADS + 1
  BY Numbers DEF Lap
<1>3. ASSUME NEW t \in Thread, Slot(t)' = "R_START", ~(XSload' /\ t = phase_d')
      PROVE  since' + Turn(t)' <= THREADS
  <2>1. t # phase
    BY <1>1, <1>3, SlotMoves DEF SlotStep
  <2>2. Slot(t) = "R_START"
    BY <1>3, <2>1, SlotMoves
  <2>3. PICK e \in Int : e = Turn(t)'
    BY TurnMoves
  <2>4. e = Turn(t) - 1 /\ Turn(t) \in Int
    BY <2>1, <2>3, TurnMoves, TypesDistance
  <2>5. CASE XSload /\ t = phase_d
    BY <1>1, <1>2, <2>3, <2>4, <2>5 DEF Turn
  <2>6. CASE ~(XSload /\ t = phase_d)
    <3>1. since + Turn(t) <= THREADS
      BY <2>2, <2>6 DEF TakingInv
    <3> QED
      BY <1>1, <1>2, <2>3, <2>4, <3>1
  <2> QED
    BY <2>5, <2>6
<1>4. BusyRise' => since' <= THREADS
  <2> SUFFICES ASSUME BusyRise' PROVE since' <= THREADS
    OBVIOUS
  <2>1. mstate_in = "R_START"
    BY <1>1 DEF SlotStep
  <2>2. phase \in Thread /\ phase # phase_d /\ Slot(phase) = "R_START"
    BY <2>1, SlotMoves
  <2>3. Turn(phase) = 1 /\ since + Turn(phase) <= THREADS
    BY <2>2, TurnMoves DEF TakingInv
  <2> QED
    BY <1>1, <1>2, <2>3
<1>5. ASSUME NEW j \in 0 .. 2, Spent(j, THREADS, 3) PROVE Spent(j, THREADS, 3)'
  BY <1>1, <1>2, <1>5, SpentHash
<1>6. BusyRise => Spent(2, THREADS, 3)'
  <2>1. BusyRise => since' <= THREADS + 1
    BY <1>1, <1>2 DEF TakingInv
  <2>2. THREADS = THREADS + 1 - 1 /\ 3 = 2 + 1
    BY <1>2
  <2> QED
    BY <1>1, <1>2, <2>1, <2>2, SpentFresh
<1>7. /\ busy_seen'[1] => Spent(2, THREADS, 3)'
      /\ busy_seen'[2] => Spent(1, THREADS, 3)'
      /\ busy_seen'[3] => Spent(0, THREADS, 3)'
  BY <1>1, <1>5, <1>6 DEF TakingInv, Toggles
<1> QED
  BY <1>3, <1>4, <1>7 DEF TakingInv

LEMMA HashStarts ==
  ASSUME TypeInv, HashTick, StartInv
  PROVE  StartInv'
<1>1. /\ reset' = reset /\ (start_d' <=> SMixInRdy) /\ (fsmstart' <=> start_d)
      /\ (SMixInRdy' <=> SMixInRdy) /\ since' \in Nat /\ since' <= since + 1
  BY HashMoves, HashKeeps
<1>2. THREADS + 1 \in Int /\ THREADS + 2 \in Int /\ THREADS + 2 = THREADS + 1 + 1
  BY Numbers
<1>3. Early(THREADS + 1, 2) => Early(THREADS + 2, 2)'
  BY <1>1, <1>2, EarlyHash
<1> QED
  BY <1>1, <1>3 DEF StartInv

(* A thread takes its input soon after the load, and does not wait then.   *)
LEMMA NoStartNow ==
  ASSUME TypeInv, InTime, TakingInv, since = SPACING, ~XSload
  PROVE  ~SomeIn("R_START") /\ ~BusyRise
<1>1. SPACING > THREADS + 3 /\ THREADS \in Nat /\ since \in Nat
  BY LongSpacing, Numbers
<1>2. \A t \in Thread : Turn(t) \in Int /\ Turn(t) > 0
  BY TypesDistance
<1>3. \A t \in Thread : ~(since + Turn(t) <= THREADS)
  BY <1>1, <1>2
<1> QED
  BY <1>1, <1>3 DEF TakingInv, SomeIn

LEMMA NoneIdle ==
  ASSUME TypeInv, OrderInv, EvenlySpaced, ~fsmreset
  PROVE  ~SomeIn("R_IDLE")
<1>1. \A t \in Thread : Runs(t)
  BY AllRun DEF TypeInv, EvenlySpaced
<1> QED
  BY <1>1 DEF OrderInv, SomeIn

LEMMA HashWait ==
  ASSUME TypeInv, InTime, HashTick, SlotStep, ResetInv, OrderInv, TakingInv, WaitInv
  PROVE  WaitInv'
<1>1. /\ phase_d' = phase /\ (fsmreset' <=> reset_d)
      /\ ~XSload /\ since = SPACING => since' = SPACING
  BY HashMoves
<1>2. CASE ~fsmreset /\ mstate_in = "R_RUN" /\ mstate' = "R_WAIT"
  <2>1. EvenlySpaced /\ ~XSload' /\ ~busy_flag'
    BY <1>2 DEF SlotStep
  <2>2. /\ \A t \in Thread : Slot(t) # "R_WAIT" /\ Slot(t) # "R_IDLE"
        /\ ~XSload /\ since = SPACING
    BY <1>2, <2>1, NoneIdle DEF EvenlySpaced, SomeIn
  <2>3. ASSUME NEW t \in Thread, t # phase PROVE Slot(t)' # "R_WAIT" /\ Slot(t)' # "R_IDLE"
    BY <1>2, <2>2, <2>3, SlotMoves
  <2>4. ASSUME NEW t \in Thread, t = phase PROVE Slot(t)' = "R_WAIT"
    BY <1>2, <2>4, SlotMoves
  <2> QED
    BY <1>1, <2>1, <2>2, <2>3, <2>4 DEF WaitInv, OnlyOneIn, SomeIn
<1>3. CASE ~(~fsmreset /\ mstate_in = "R_RUN" /\ mstate' = "R_WAIT")
  <2>1. ASSUME NEW t \in Thread, Slot(t)' = "R_WAIT"
        PROVE  Slot(t) = "R_WAIT" /\ (fsmreset => t # phase /\ t # phase_d)
    <3>1. CASE t = phase
      <4>1. mstate' = "R_WAIT" /\ Slot(t) = mstate_in
        BY <2>1, <3>1, SlotMoves
      <4> QED
        BY <1>3, <4>1 DEF SlotStep
    <3>2. CASE t # phase
      BY <2>1, <3>2, SlotMoves
    <3> QED
      BY <3>1, <3>2
  <2>2. OnlyOneIn("R_WAIT")'
    BY <2>1 DEF WaitInv, OnlyOneIn
  <2>3. ASSUME NEW w \in Thread, Slot(w)' = "R_WAIT"
        PROVE  since' = SPACING /\ ~busy_flag' /\ ~XSload' /\ (SomeIn("R_IDLE")' => fsmreset')
    <3>1. Slot(w) = "R_WAIT" /\ (fsmreset => w # phase /\ w # phase_d)
      BY <2>1, <2>3
    <3>2. since = SPACING /\ ~busy_flag /\ ~XSload /\ (SomeIn("R_IDLE") => fsmreset)
      BY <3>1 DEF WaitInv, SomeIn
    <3>3. mstate_in # "R_START"
      <4>1. ~SomeIn("R_START")
        BY <3>2, NoStartNow
      <4> QED
        BY <4>1, SlotMoves DEF SomeIn
    <3>4. ~fsmreset /\ phase # THREADS => mstate_in # "R_IDLE"
      BY <3>2, SlotMoves DEF SomeIn
    <3>5. ~EvenlySpaced
      BY <3>1 DEF EvenlySpaced
    <3>6. ~fsmreset /\ mstate_in = "R_WAIT" => mstate' = "R_WAIT"
      <4>1. mstate_in = "R_WAIT" => phase \in Thread /\ Slot(phase) = "R_WAIT"
        BY SlotMoves
      <4>2. mstate_in = "R_WAIT" => w = phase
        BY <3>1, <4>1 DEF WaitInv, OnlyOneIn
      <4> QED
        BY <2>3, <4>2, SlotMoves
    <3>7. ~busy_flag' /\ ~XSload'
      BY <3>2, <3>3, <3>4, <3>5, <3>6 DEF SlotStep
    <3>8. fsmreset => fsmreset'
      <4> SUFFICES ASSUME fsmreset PROVE reset_d
        BY <1>1
      <4>1. sstate[w] # "R_IDLE"
        BY <3>1 DEF Slot
      <4>2. FsmResetFor(Distance(w) + 1)
        BY <4>1 DEF ResetInv
      <4>3. Distance(w) \in Int /\ Distance(w) > 0
        BY <3>1, TurnMoves, TypesDistance
      <4> QED
        BY <4>2, <4>3 DEF FsmResetFor
    <3>9. ASSUME ~fsmreset, NEW t \in Thread PROVE Slot(t)' # "R_IDLE"
      <4>1. Slot(t) # "R_IDLE"
        BY <3>2, <3>9 DEF SomeIn
      <4>2. CASE t = phase
        <5>1. Slot(t)' = mstate' /\ mstate_in # "R_IDLE"
          BY <4>1, <4>2, SlotMoves
        <5> QED
          BY <3>9, <5>1 DEF SlotStep
      <4>3. CASE t # phase
        BY <3>9, <4>1, <4>3, SlotMoves
      <4> QED
        BY <4>2, <4>3
    <3> QED
      BY <1>1, <3>2, <3>7, <3>8, <3>9 DEF SomeIn
  <2> QED
    BY <2>2, <2>3 DEF WaitInv, SomeIn
<1> QED
  BY <1>2, <1>3

LEMMA NotTaking ==
  ASSUME TypeInv, InTime, TakingInv, since = SPACING, ~XSload
  PROVE  ~Taking
<1>1. ~SomeIn("R_START") /\ ~BusyRise
  BY NoStartNow
<1>2. /\ THREADS \in Int /\ THREADS + 1 \in Int /\ THREADS + 1 <= THREADS + 3
      /\ since \in Nat /\ SPACING \in Nat
  BY Numbers
<1>3. ASSUME NEW j \in 0 .. 2, Spent(j, THREADS, 3) PROVE FALSE
  <2>1. 3 - j \in Int /\ 3 - j <= 3
    OBVIOUS
  <2>2. Early(THREADS + 1, 3 - j)
    BY <1>2, <1>3, <2>1, SpentEarly
  <2>3. since < SPACING
    BY <1>2, <2>1, <2>2, NotEarly
  <2> QED
    BY <1>2, <2>3
<1>4. ~Underway(busy_seen)
  BY <1>3 DEF TakingInv, Underway
<1> QED
  BY <1>1, <1>4 DEF Taking

(* A thread that has taken the input that is ready raises busy.            *)
LEMMA HashTakingOnce ==
  ASSUME TypeInv, InTime, HashTick, SlotStep, TakingInv, ~fsmreset, ~SomeIn("R_IDLE"), TakingOnce,
         ~(fsmstart /\ mstate_in \in {"R_RUN", "R_WAIT"} /\ mstate' = "R_START")
  PROVE  TakingOnce'
<1>1. Toggles(busy_seen, BusyRise) /\ (BusyRise' <=> busy_flag' /\ ~busy_flag)
  BY HashMoves, HashKeeps
<1>2. mstate_in = "R_IDLE" => phase = THREADS
  BY SlotMoves DEF SomeIn
<1>3. ~EvenlySpaced
  BY NotTaking DEF EvenlySpaced, TakingOnce
<1>4. \/ mstate_in = mstate' /\ mstate' # "R_START" /\ (busy_flag' <=> busy_flag)
      \/ mstate_in = "R_START" /\ mstate' = "R_RUN" /\ busy_flag'
  BY <1>2, <1>3 DEF SlotStep
<1>5. \A t \in Thread : /\ t # phase => Slot(t)' = Slot(t)
                        /\ t = phase => Slot(t)' = mstate' /\ Slot(t) = mstate_in
  BY SlotMoves
<1>6. CASE mstate_in = "R_START" /\ mstate' = "R_RUN" /\ busy_flag'
  <2>1. phase \in Thread /\ Slot(phase) = "R_START"
    BY <1>6, SlotMoves
  <2>2. SomeIn("R_START") /\ \A t \in Thread : Slot(t) = "R_START" => t = phase
    BY <2>1 DEF TakingOnce, SomeIn, OnlyOneIn
  <2>3. ~SomeIn("R_START")'
    BY <1>5, <1>6, <2>2 DEF SomeIn
  <2>4. BusyRise' /\ ~Underway(busy_seen)'
    BY <1>1, <1>6, <2>2 DEF TakingOnce, Underway, Toggles
  <2>5. OnlyOneIn("R_START")'
    BY <2>3 DEF SomeIn, OnlyOneIn
  <2> QED
    BY <2>3, <2>4, <2>5 DEF TakingOnce, Taking
<1>7. CASE mstate_in = mstate' /\ mstate' # "R_START" /\ (busy_flag' <=> busy_flag)
  <2>1. \A t \in Thread : Slot(t)' = "R_START" <=> Slot(t) = "R_START"
    BY <1>5, <1>7
  <2>2. (SomeIn("R_START")' <=> SomeIn("R_START")) /\ OnlyOneIn("R_START")'
    BY <2>1 DEF TakingOnce, SomeIn, OnlyOneIn
  <2>3. ~BusyRise'
    BY <1>1, <1>7
  <2>4. BusyRise \/ Underway(busy_seen) <=> Underway(busy_seen)'
    BY <1>1 DEF TakingOnce, Underway, Toggles
  <2> QED
    BY <1>7, <2>2, <2>3, <2>4 DEF TakingOnce, Taking
<1> QED
  BY <1>4, <1>6, <1>7

(* A result is exchanged only when the one before has been fetched.        *)
LEMMA FetchedBefore ==
  ASSUME TypeInv, InTime, ~reset, NotReadyInv, TakingInv, StartInv, FetchInv, ExchangeInv,
         since = SPACING, ~XSload, fsmstart
  PROVE  SMixInRdy /\ InReady /\ ~Taking /\ ~OutputBusy /\ ~Input /\ state # "S_SHIFT_IN"
<1>1. ~Taking
  BY NotTaking
<1>2. SMixInRdy
  <2>1. THREADS + 2 \in Int /\ THREADS + 2 <= THREADS + 3 /\ since \in Nat /\ SPACING \in Nat
    BY Numbers
  <2>2. Early(THREADS + 2, 2) => since < SPACING
    BY <2>1, NotEarly
  <2> QED
    BY <2>1, <2>2 DEF StartInv
<1>3. InReady
  BY <1>2 DEF SMixInRdy, InReady
<1> QED
  BY <1>1, <1>2, <1>3 DEF NotReadyInv, ExchangeInv, TakingOnce

LEMMA HashExchange ==
  ASSUME TypeInv, InTime, HashTick, ~reset, LapInv, OrderInv, NotReadyInv, TakingInv, StartInv,
         WaitInv, FetchInv, ExchangeInv, ~fsmreset, fsmstart, XSload', mstate' = "R_START",
         \/ mstate_in = "R_RUN" /\ EvenlySpaced /\ ~busy_flag'
         \/ mstate_in = "R_WAIT" /\ (busy_flag' <=> busy_flag)
  PROVE  FetchInv' /\ ExchangeInv'
<1>1. /\ Toggles(busy_seen, BusyRise) /\ Toggles(result_seen, Rise)
      /\ (reset_d' <=> reset) /\ (fsmreset' <=> reset_d) /\ (SMixInRdy' <=> SMixInRdy)
  BY HashMoves
<1>2. /\ (Input' <=> Input) /\ state' = state /\ (InReady' <=> InReady)
      /\ SMixOutRdy_state' = SMixOutRdy_state
      /\ (Rise' <=> result' /\ ~result) /\ (BusyRise' <=> busy_flag' /\ ~busy_flag)
  BY HashKeeps
<1>3. phase \in Thread
  BY SlotMoves
<1>4. ~reset_d
  BY Numbers DEF LapInv, ResetFor
<1>5. mstate_in = "R_WAIT" => Slot(phase) = "R_WAIT"
  BY <1>3, SlotMoves
<1>6. since = SPACING /\ ~XSload /\ ~busy_flag' /\ ~SomeIn("R_IDLE")
  <2>1. CASE mstate_in = "R_RUN" /\ EvenlySpaced /\ ~busy_flag'
    BY <2>1, NoneIdle DEF EvenlySpaced
  <2>2. CASE mstate_in = "R_WAIT" /\ (busy_flag' <=> busy_flag)
    BY <1>3, <1>5, <2>2 DEF WaitInv, SomeIn
  <2> QED
    BY <2>1, <2>2
<1>7. SMixInRdy /\ InReady /\ ~Taking /\ ~OutputBusy /\ ~Input /\ state # "S_SHIFT_IN"
  BY <1>6, FetchedBefore
<1>8. ~Underway(result_seen)' /\ ~Underway(busy_seen)' /\ ~BusyRise' /\ ~SomeIn("R_START")
  BY <1>1, <1>2, <1>6, <1>7 DEF OutputBusy, FetchPending, Taking, Underway, Toggles
<1>9. ASSUME NEW t \in Thread
      PROVE  /\ Slot(t)' # "R_IDLE" /\ Slot(t)' # "R_WAIT"
             /\ Slot(t)' = "R_START" <=> t = phase
  <2>1. CASE t = phase
    BY <2>1, SlotMoves
  <2>2. CASE t # phase
    <3>1. Slot(t)' = Slot(t)
      BY <2>2, SlotMoves
    <3>2. Slot(t) # "R_WAIT"
      BY <1>3, <1>5, <2>2 DEF EvenlySpaced, WaitInv, OnlyOneIn
    <3> QED
      BY <1>6, <1>8, <2>2, <3>1, <3>2 DEF SomeIn
  <2> QED
    BY <2>1, <2>2
<1>10. /\ ~SomeIn("R_IDLE")' /\ ~SomeIn("R_WAIT")'
       /\ SomeIn("R_START")' /\ OnlyOneIn("R_START")'
  BY <1>3, <1>9 DEF SomeIn, OnlyOneIn
<1>11. ~SMixOutRdy_state'
  BY <1>2, <1>7 DEF OutputBusy
<1>12. FetchInv'
  BY <1>1, <1>2, <1>4, <1>6, <1>7, <1>8, <1>10, <1>11 DEF FetchInv, Underway, OneBit
<1>13. ExchangeInv'
  BY <1>6, <1>8, <1>10 DEF ExchangeInv, TakingOnce, Taking
<1> QED
  BY <1>12, <1>13

LEMMA HashFetch ==
  ASSUME TypeInv, InTime, HashTick, SlotStep, LapInv, OrderInv, NotReadyInv, TakingInv, StartInv,
         WaitInv, FetchInv, ExchangeInv
  PROVE  FetchInv' /\ ExchangeInv'
<1> SUFFICES ASSUME ~reset' PROVE FetchInv' /\ ExchangeInv'
  BY DEF FetchInv, ExchangeInv
<1>1. /\ Toggles(busy_seen, BusyRise) /\ Toggles(result_seen, Rise)
      /\ (reset_d' <=> reset) /\ (fsmreset' <=> reset_d) /\ (SMixInRdy' <=> SMixInRdy)
      /\ since' \in Nat /\ since' <= since + 1 /\ (XSload => since' = 0)
  BY HashMoves
<1>2. /\ ~reset /\ (Input' <=> Input) /\ state' = state /\ (InReady' <=> InReady)
      /\ SMixOutRdy_state' = SMixOutRdy_state /\ Set_SMixInRdy' = Set_SMixInRdy
      /\ (Rise' <=> result' /\ ~result) /\ (BusyRise' <=> busy_flag' /\ ~busy_flag)
  BY HashKeeps
<1>3. CASE ~fsmreset /\ fsmstart /\ mstate_in \in {"R_RUN", "R_WAIT"} /\ mstate' = "R_START"
  <2>1. /\ XSload'
        /\ \/ mstate_in = "R_RUN" /\ EvenlySpaced /\ ~busy_flag'
           \/ mstate_in = "R_WAIT" /\ (busy_flag' <=> busy_flag)
    BY <1>3 DEF SlotStep
  <2> QED
    BY <1>2, <1>3, <2>1, HashExchange
<1>4. CASE ~(~fsmreset /\ fsmstart /\ mstate_in \in {"R_RUN", "R_WAIT"} /\ mstate' = "R_START")
  <2>1. ~Rise'
    BY <1>2, <1>4 DEF SlotStep
  <2>2. FetchPending' => FetchPending
    BY <1>1, <2>1 DEF FetchPending, Underway, Toggles
  <2>3. OutputBusy' => OutputBusy
    BY <1>2, <2>2 DEF OutputBusy
  <2> SUFFICES ASSUME OutputBusy' PROVE FetchInv' /\ ExchangeInv'
    BY <2>1 DEF FetchInv, ExchangeInv, TakingOnce, OutputBusy, FetchPending, Underway, OneBit
  <2>4. /\ OutputBusy /\ ~Input /\ state # "S_SHIFT_IN" /\ ~reset_d /\ ~fsmreset
        /\ ~SomeIn("R_IDLE") /\ (Set_SMixInRdy => ~busy_seen[2] /\ ~busy_seen[3])
    BY <1>2, <2>3 DEF FetchInv
  <2>5. mstate_in = "R_IDLE" => phase = THREADS
    BY <2>4, SlotMoves DEF SomeIn
  <2>6. \/ mstate_in = mstate' /\ mstate' # "R_START" /\ (busy_flag' <=> busy_flag)
        \/ mstate_in = "R_START" /\ mstate' = "R_RUN" /\ busy_flag'
        \/ mstate_in = "R_RUN" /\ mstate' = "R_WAIT" /\ EvenlySpaced
    BY <1>4, <2>4, <2>5 DEF SlotStep
  <2>7. ~XSload'
    BY <1>4, <2>4, <2>5 DEF SlotStep
  <2>8. \A t \in Thread : /\ t # phase => Slot(t)' = Slot(t)
                          /\ t = phase => Slot(t)' = mstate' /\ Slot(t) = mstate_in
    BY <2>4, SlotMoves
  <2>9. ~SomeIn("R_IDLE")'
    <3>1. \A t \in Thread : Slot(t) # "R_IDLE"
      BY <2>4 DEF SomeIn
    <3>2. \A t \in Thread : Slot(t)' # "R_IDLE"
      BY <2>6, <2>8, <3>1
    <3> QED
      BY <3>2 DEF SomeIn
  <2>10. EvenlySpaced => ~Taking
    BY NotTaking DEF EvenlySpaced
  <2>11. EvenlySpaced => ~FetchPending
    <3>1. FetchPending => InReady
      BY <1>2 DEF FetchInv
    <3>2. ~Taking /\ InReady => SMixInRdy
      BY DEF Taking, Underway, InReady, SMixInRdy, Clr_SMixInRdy, Arrived
    <3>3. SMixInRdy => Taking
      BY <1>2, <2>4 DEF ExchangeInv, TakingOnce
    <3> QED
      BY <2>10, <3>1, <3>2, <3>3
  <2>12. FetchPending' => ~SomeIn("R_WAIT")'
    <3> SUFFICES ASSUME FetchPending' PROVE ~SomeIn("R_WAIT")'
      OBVIOUS
    <3>1. ~EvenlySpaced /\ \A t \in Thread : Slot(t) # "R_WAIT"
      BY <1>2, <2>2, <2>11 DEF FetchInv, SomeIn
    <3>2. \A t \in Thread : Slot(t)' # "R_WAIT"
      BY <2>6, <2>8, <3>1
    <3> QED
      BY <3>2 DEF SomeIn
  <2>13. FetchInv'
    <3>1. OneBit(result_seen)'
      BY <1>1, <1>2 DEF FetchInv, OneBit, Underway, Toggles
    <3>2. FetchPending' => ~SMixOutRdy_state' /\ InReady'
      BY <1>2, <2>2 DEF FetchInv
    <3>3. \A j \in 0 .. 2 : Spent(j, -1, 3) => Spent(j, -1, 3)'
      BY <1>1, SpentHash
    <3>4. Rise => Spent(2, -1, 3)'
      <4>1. Rise => since' <= 0
        BY <1>1, <1>2 DEF FetchInv
      <4>2. -1 = 0 - 1 /\ 3 = 2 + 1
        OBVIOUS
      <4> QED
        BY <1>1, <4>1, <4>2, SpentFresh
    <3>5. result_seen'[1] => Spent(2, -1, 3)' /\ ~busy_seen'[2] /\ ~busy_seen'[3]
      BY <1>1, <1>2, <3>3, <3>4 DEF FetchInv, Underway, Toggles
    <3>6. result_seen'[2] => Spent(1, -1, 3)' /\ ~busy_seen'[3]
      BY <1>1, <1>2, <3>3 DEF FetchInv, Toggles
    <3>7. result_seen'[3] => Spent(0, -1, 3)'
      BY <1>1, <1>2, <3>3 DEF FetchInv, Toggles
    <3>8. ~Input' /\ state' # "S_SHIFT_IN" /\ ~reset_d' /\ ~fsmreset'
      BY <1>1, <1>2, <2>4
    <3>9. Set_SMixInRdy' => ~busy_seen'[2] /\ ~busy_seen'[3]
      BY <1>1, <1>2, <2>4 DEF Toggles
    <3> QED
      BY <2>1, <2>7, <2>9, <2>12, <3>1, <3>2, <3>5, <3>6, <3>7, <3>8, <3>9 DEF FetchInv
  <2>14. ExchangeInv'
    BY <1>1, <1>2, <1>4, <2>4, HashTakingOnce DEF ExchangeInv, TakingOnce, SlotStep
  <2> QED
    BY <2>13, <2>14
<1> QED
  BY <1>3, <1>4

LEMMA HashOverlap ==
  ASSUME OverlapInv, TypeInv', InTime, HashTick, SlotQuiet \/ Complete
  PROVE  OverlapInv'
<1>1. SlotStep
  BY SlotSteps DEF OverlapInv
<1> QED
  BY <1>1, HashResets, HashShift, HashFlush, HashLap, HashReady, HashAsks, HashQuiet,
     HashTaking, HashStarts, HashWait, HashFetch DEF OverlapInv

LEMMA OverlapInit == Init => OverlapInv
<1> SUFFICES ASSUME Init PROVE OverlapInv
  OBVIOUS
<1>1. TypeInv /\ ResetInv
  BY TypeInit, ResetInit
<1>2. /\ ~reset /\ ~reset_d /\ ~fsmreset /\ ~start_d /\ ~fsmstart /\ ~XSload
      /\ ~start_flag /\ ~busy_flag /\ ~result /\ ~salsa_shift /\ shift_count = 0
      /\ state = "S_IDLE" /\ ~start_output /\ order = <<>> /\ mode = 0
      /\ ~Set_SMixInRdy /\ ~Clr_SMixOutRdy /\ ~SMixInRdy_state /\ ~SMixOutRdy_state
  BY Zenon DEF Init, PbkdfInit, SalsaInit
<1>3. /\ busy_seen = Still /\ result_seen = Still
      /\ shift_request = Still /\ shift_acknowledge = Still
  BY Zenon DEF Init, PbkdfInit
<1>4. /\ ~Underway(busy_seen) /\ ~Underway(result_seen)
      /\ ~Underway(shift_request) /\ ~Underway(shift_acknowledge)
  BY <1>3 DEF Still, Underway
<1>5. \A t \in Thread : Slot(t) = "R_IDLE" /\ ~Runs(t)
  BY <1>2 DEF Init, SalsaInit, Slot, Runs
<1>6. ~SomeIn("R_START") /\ ~SomeIn("R_WAIT") /\ OnlyOneIn("R_WAIT") /\ OnlyOneIn("R_START")
  BY <1>5 DEF SomeIn, OnlyOneIn
<1>7. ~Rise /\ ~BusyRise /\ ~Pending /\ ~Input /\ ~Output /\ ~InReady /\ ~Shifting /\ ~OutputBusy
  BY <1>2, <1>4 DEF Rise, BusyRise, Pending, Input, Output, InReady, Shifting, OutputBusy, FetchPending
<1>8. ShiftInv /\ ShiftFlushInv /\ FlushInv /\ StartFlushInv
  BY <1>2, <1>4, <1>7 DEF ShiftInv, ShiftFlushInv, FlushInv, StartFlushInv, OneBit, Underway
<1>9. LapInv /\ OrderInv
  BY <1>2, <1>5 DEF LapInv, OrderInv
<1>10. NotReadyInv /\ InputInv /\ ReadyInv /\ QuietInv
  BY <1>2, <1>7 DEF NotReadyInv, InputInv, ReadyInv, QuietInv
<1>11. TakingInv /\ StartInv /\ WaitInv
  BY <1>2, <1>4, <1>5, <1>6, <1>7 DEF TakingInv, StartInv, WaitInv, Underway
<1>12. FetchInv /\ ExchangeInv
  BY <1>2, <1>4, <1>7 DEF FetchInv, ExchangeInv, TakingOnce, OutputBusy, FetchPending, Underway, OneBit
<1> QED
  BY <1>1, <1>8, <1>9, <1>10, <1>11, <1>12 DEF OverlapInv

LEMMA OverlapStutters ==
  ASSUME OverlapInv, TypeInv', UNCHANGED vars
  PROVE  OverlapInv'
<1>1. UNCHANGED pbkdfVars /\ UNCHANGED salsaVars /\ UNCHANGED clockVars
  BY DEF vars
<1>2. UNCHANGED pbkdfClkVars /\ UNCHANGED shifterVars /\ UNCHANGED crossVars
  BY <1>1 DEF pbkdfVars
<1> USE <1>1, <1>2 DEF pbkdfClkVars, shifterVars, crossVars, salsaVars, clockVars
<1>3. /\ ResetInv' /\ LapInv' /\ OrderInv'
  BY DEF OverlapInv, ResetInv, LapInv, OrderInv, FsmResetFor, ResetFor, Distance, Runs, Slot
<1>4. /\ ShiftInv' /\ ShiftFlushInv' /\ FlushInv' /\ StartFlushInv'
  BY DEF OverlapInv, ShiftInv, ShiftFlushInv, FlushInv, StartFlushInv, Clears, Within, CyclesLeft,
         Flushed, Rise, BusyRise, InReady, Pending, Shifting, Underway, OneBit
<1>5. NotReadyInv' /\ ReadyInv'
  BY DEF OverlapInv, NotReadyInv, ReadyInv, Input, Output, InReady
<1>6. InputInv'
  BY DEF OverlapInv, InputInv, Input, Within, ToAsk, Turn, Distance, Lap, Slot
<1>7. QuietInv'
  BY DEF OverlapInv, QuietInv, Pending, Underway, QuietIn, QuietOut, Left, SomeIn, Slot, InReady
<1>8. TakingInv' /\ StartInv' /\ WaitInv'
  BY DEF OverlapInv, TakingInv, StartInv, WaitInv, Slot, Turn, Distance, Lap, BusyRise, Spent, Early,
         SMixInRdy, Clr_SMixInRdy, Arrived, SomeIn, OnlyOneIn
<1>9. FetchInv' /\ ExchangeInv'
  BY DEF OverlapInv, FetchInv, ExchangeInv, TakingOnce, OutputBusy, FetchPending, Taking, Rise, BusyRise, Underway,
         OneBit, Input, InReady, Slot, Spent, SMixInRdy, Clr_SMixInRdy, Arrived, SomeIn, OnlyOneIn
<1> QED
  BY <1>3, <1>4, <1>5, <1>6, <1>7, <1>8, <1>9 DEF OverlapInv

(* A thread never takes its input while the shift register shifts, if the  *)
(* design's clocks, delays and spacing are in time: the note at            *)
(* salsaengine.v 236 that "shift and result do NOT overlap" holds for any  *)
(* number of threads, nonces and works.                                    *)
THEOREM NeverOverlaps ==
  ASSUME InTime
  PROVE  Spec => []NoOverlap
<1>1. Init => OverlapInv
  BY OverlapInit
<1>2. OverlapInv /\ [Next]_vars => OverlapInv'
  <2> SUFFICES ASSUME OverlapInv, [Next]_vars PROVE OverlapInv'
    OBVIOUS
  <2>1. TypeInv'
    BY TypeStep DEF OverlapInv
  <2> QED
    BY <2>1, PbkdfOverlap, HashOverlap, OverlapStutters DEF Next, HashEdge, HashEdgeComplete
<1>3. OverlapInv => NoOverlap
  BY DEF OverlapInv, QuietInv, Pending, NoOverlap
<1> QED
  BY <1>1, <1>2, <1>3, PTL DEF Spec

=============================================================================
