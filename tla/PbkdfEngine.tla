---------------------------- MODULE PbkdfEngine ----------------------------
(***************************************************************************)
(* pbkdfengine.v: makes the scrypt input of one nonce after another, hands *)
(* each to the salsa engine through a shift register, takes the results    *)
(* back the same way and checks them against the target.                   *)
(*                                                                         *)
(* PbkdfTick is one posedge of pbkdf_clk and ShifterTick one posedge of    *)
(* hash_clk; each is all the always blocks of its clock at once, and takes *)
(* as parameters the wires of the other engine.                            *)
(*                                                                         *)
(* Abstracted: the SHA256 rounds between S_H1 and S_B6, or S_R17, are one  *)
(* state S_HASH counted by cnt; of the four Xbuf loads of an input, only   *)
(* the last, which completes it; a shift moves the registers when its last *)
(* bits arrive, and leaves junk when it is cut short.                      *)
(***************************************************************************)
EXTENDS CrossClock, ScryptItem

CONSTANTS
  RESETCYCLES,  (* 31: pbkdf_clk cycles that reset is held.                  *)
  NONCES,       (* 2^28: nonce_cnt wraps here.                               *)
  InCycles,     (* pbkdf_clk cycles to make an input,                        *)
  OutCycles,    (* and to hash a result.                                     *)
  SHIFTS        (* (1024 + 32) / SBITS: hash_clk cycles of a shift.          *)

ASSUME PbkdfAssumption ==
  /\ RESETCYCLES \in Nat \ {0}
  /\ NONCES \in Nat \ {0}
  /\ InCycles \in Nat /\ OutCycles \in Nat
  /\ SHIFTS \in Nat \ {0}

VARIABLES
  resetcycles, reset,
  nonce_cnt,
  state, mode, cnt, nonce_wait, start_output,
  khash,              (* The item whose last quarter is in khash.            *)
  Set_SMixInRdy, Clr_SMixOutRdy, SMixInRdy_state, SMixOutRdy_state,
  salsa_busy_d, salsa_result_d,        (* The hash_clk copies (bit 0), and   *)
  busy_seen, result_seen,              (* the crossings of their rises.      *)
  Xbuf_load_request, shift_request, shift_acknowledge,
  Xbuf, nonce_sr,
  salsa_shift, shift_count,
  work,               (* History: the number of the current work.            *)
  live                (* History: its nonces used and not yet checked.       *)

pbkdfClkVars ==
  <<resetcycles, reset, nonce_cnt, state, mode, cnt, nonce_wait, start_output,
    khash, Set_SMixInRdy, Clr_SMixOutRdy, SMixInRdy_state, SMixOutRdy_state,
    work, live>>
shifterVars ==
  <<salsa_busy_d, salsa_result_d, Xbuf, nonce_sr, salsa_shift, shift_count>>
crossVars ==
  <<busy_seen, result_seen, Xbuf_load_request, shift_request, shift_acknowledge>>
pbkdfVars == <<pbkdfClkVars, shifterVars, crossVars>>

-----------------------------------------------------------------------------
States == {"S_IDLE", "S_HASH", "S_B6", "S_NONCE",
           "S_SHIFT_IN", "S_SHIFT_OUT", "S_R18"}

PbkdfInit ==
  /\ resetcycles = 0 /\ reset = FALSE
  /\ nonce_cnt = 0
  /\ state = "S_IDLE" /\ mode = 0 /\ cnt = 0 /\ nonce_wait = 0
  /\ start_output = FALSE
  /\ khash = Junk
  /\ Set_SMixInRdy = FALSE /\ Clr_SMixOutRdy = FALSE
  /\ SMixInRdy_state = FALSE /\ SMixOutRdy_state = FALSE
  /\ salsa_busy_d = FALSE /\ salsa_result_d = FALSE
  /\ busy_seen = Still /\ result_seen = Still
  /\ Xbuf_load_request = Still
  /\ shift_request = Still /\ shift_acknowledge = Still
  /\ Xbuf = Junk /\ nonce_sr = 0
  /\ salsa_shift = FALSE /\ shift_count = 0
  /\ work = 0 /\ live = {}

-----------------------------------------------------------------------------
(* The ready flags, as the wires that both engines read.                    *)

Clr_SMixInRdy == SMixInRdy_state /\ Arrived(busy_seen)
Set_SMixOutRdy == ~SMixOutRdy_state /\ Arrived(result_seen)
SMixInRdy == ~Clr_SMixInRdy /\ (Set_SMixInRdy \/ SMixInRdy_state)
SMixOutRdy == ~Clr_SMixOutRdy /\ (Set_SMixOutRdy \/ SMixOutRdy_state)

Flags ==
  /\ SMixInRdy_state' = (SMixInRdy /\ ~reset)
  /\ SMixOutRdy_state' = (SMixOutRdy /\ ~reset)
  /\ busy_seen' = Shift(busy_seen)
  /\ result_seen' = Shift(result_seen)
  /\ shift_acknowledge' = Shift(shift_acknowledge)

(* MUTANT: reset is released after three cycles.                            *)
ResetControlShort(loadnonce) ==
  /\ resetcycles' = IF loadnonce THEN 0
                    ELSE IF resetcycles = RESETCYCLES THEN RESETCYCLES
                    ELSE resetcycles + 1
  /\ reset' = (resetcycles = 0 \/ (resetcycles < 3 /\ reset))

ResetControl(loadnonce) ==
  /\ resetcycles' = IF loadnonce THEN 0
                    ELSE IF resetcycles = RESETCYCLES THEN RESETCYCLES
                    ELSE resetcycles + 1
  /\ reset' = (resetcycles = 0 \/ (resetcycles # RESETCYCLES /\ reset))

(* loadnonce takes the nonce of the new work, zero; data1 .. data3 are those *)
(* of the new work from here on.  An increment on the same edge wins.        *)
LoadNonce(loadnonce) ==
  /\ nonce_cnt' = IF loadnonce THEN 0 ELSE nonce_cnt
  /\ work' = IF loadnonce THEN work + 1 ELSE work
  /\ live' = IF loadnonce THEN {} ELSE live

-----------------------------------------------------------------------------
(* The FSM, one action per state and branch.  Set_SMixInRdy, Clr_SMixOutRdy *)
(* and the requests default to no event; RequestLoad and RequestShift are   *)
(* the toggles of bit 0.                                                    *)

RequestLoad == Xbuf_load_request' = Toggle(Xbuf_load_request)
NoLoad == UNCHANGED Xbuf_load_request
RequestShift == shift_request' = Toggle(shift_request)
NoShift == UNCHANGED shift_request
Strobes(set, clr) == Set_SMixInRdy' = set /\ Clr_SMixOutRdy' = clr

FsmReset(loadnonce) ==
  /\ reset
  /\ state' = "S_IDLE"
  /\ start_output' = FALSE
  /\ Strobes(FALSE, FALSE) /\ NoLoad /\ NoShift /\ LoadNonce(loadnonce)
  /\ UNCHANGED <<mode, cnt, nonce_wait, khash>>

FetchOutput(loadnonce) ==
  /\ ~reset /\ state = "S_IDLE"
  /\ SMixOutRdy /\ ~start_output
  /\ RequestShift
  /\ state' = "S_SHIFT_OUT"
  /\ Strobes(FALSE, FALSE) /\ NoLoad /\ LoadNonce(loadnonce)
  /\ UNCHANGED <<mode, cnt, nonce_wait, start_output, khash>>

StartHash(loadnonce) ==
  /\ ~reset /\ state = "S_IDLE"
  /\ ~(SMixOutRdy /\ ~start_output)
  /\ start_output \/ ~SMixInRdy
  /\ start_output' = FALSE
  /\ mode' = IF SMixOutRdy THEN 1 ELSE 0
  /\ cnt' = 0
  /\ state' = "S_HASH"
  /\ Strobes(FALSE, FALSE) /\ NoLoad /\ NoShift /\ LoadNonce(loadnonce)
  /\ UNCHANGED <<nonce_wait, khash>>

Idle(loadnonce) ==
  /\ ~reset /\ state = "S_IDLE"
  /\ ~SMixOutRdy /\ ~start_output /\ SMixInRdy
  /\ Strobes(FALSE, FALSE) /\ NoLoad /\ NoShift /\ LoadNonce(loadnonce)
  /\ UNCHANGED <<state, mode, cnt, nonce_wait, start_output, khash>>

(* S_H1 .. S_B5 make an input from the block header and nonce.               *)
HashInput(loadnonce) ==
  /\ ~reset /\ state = "S_HASH" /\ mode = 0
  /\ IF cnt < InCycles THEN cnt' = cnt + 1 /\ UNCHANGED state
                       ELSE cnt' = 0 /\ state' = "S_B6"
  /\ Strobes(FALSE, FALSE) /\ NoLoad /\ NoShift /\ LoadNonce(loadnonce)
  /\ UNCHANGED <<mode, nonce_wait, start_output, khash>>

(* S_H1 .. S_H6 and S_R1 .. S_R17 hash the result in Xbuf.                   *)
HashOutput(loadnonce) ==
  /\ ~reset /\ state = "S_HASH" /\ mode = 1
  /\ IF cnt < OutCycles THEN cnt' = cnt + 1 /\ UNCHANGED state
                        ELSE cnt' = 0 /\ state' = "S_R18"
  /\ Strobes(FALSE, FALSE) /\ NoLoad /\ NoShift /\ LoadNonce(loadnonce)
  /\ UNCHANGED <<mode, nonce_wait, start_output, khash>>

(* MUTANT: too short a wait for the request to cross to hash_clk.           *)
LoadXbufNoWait(loadnonce) ==
  /\ ~reset /\ state = "S_B6"
  /\ khash' = Item("in", work, nonce_cnt)
  /\ RequestLoad
  /\ nonce_wait' = 0
  /\ state' = "S_NONCE"
  /\ Strobes(FALSE, FALSE) /\ NoShift /\ LoadNonce(loadnonce)
  /\ UNCHANGED <<mode, cnt, start_output>>

LoadXbuf(loadnonce) ==
  /\ ~reset /\ state = "S_B6"
  /\ khash' = Item("in", work, nonce_cnt)
  /\ RequestLoad
  /\ nonce_wait' = 7
  /\ state' = "S_NONCE"
  /\ Strobes(FALSE, FALSE) /\ NoShift /\ LoadNonce(loadnonce)
  /\ UNCHANGED <<mode, cnt, start_output>>

(* nonce_wait is three bits.                                                *)
NonceWait(loadnonce) ==
  /\ ~reset /\ state = "S_NONCE" /\ nonce_wait # 0
  /\ nonce_wait' = nonce_wait - 1
  /\ Strobes(FALSE, FALSE) /\ NoLoad /\ NoShift /\ LoadNonce(loadnonce)
  /\ UNCHANGED <<state, mode, cnt, start_output, khash>>

(* A nonce that is used up while a reset is on its way (one edge between    *)
(* loadnonce and reset) was hashed for the work before.                     *)
NextNonce(loadnonce) ==
  /\ ~reset /\ state = "S_NONCE" /\ nonce_wait = 0
  /\ nonce_wait' = 7
  /\ nonce_cnt' = (nonce_cnt + 1) % NONCES
  /\ work' = IF loadnonce THEN work + 1 ELSE work
  /\ live' = IF loadnonce THEN {}
             ELSE IF resetcycles = RESETCYCLES THEN live \cup {nonce_cnt}
             ELSE live
  /\ RequestShift
  /\ state' = "S_SHIFT_IN"
  /\ Strobes(FALSE, FALSE) /\ NoLoad
  /\ UNCHANGED <<mode, cnt, start_output, khash>>

(* MUTANT: ready before the shift is acknowledged.                          *)
ShiftInNoAck(loadnonce) ==
  /\ ~reset /\ state = "S_SHIFT_IN"
  /\ Strobes(TRUE, FALSE) /\ state' = "S_IDLE"
  /\ NoLoad /\ NoShift /\ LoadNonce(loadnonce)
  /\ UNCHANGED <<mode, cnt, nonce_wait, start_output, khash>>

ShiftIn(loadnonce) ==
  /\ ~reset /\ state = "S_SHIFT_IN"
  /\ IF Arrived(shift_acknowledge)
     THEN Strobes(TRUE, FALSE) /\ state' = "S_IDLE"
     ELSE Strobes(FALSE, FALSE) /\ UNCHANGED state
  /\ NoLoad /\ NoShift /\ LoadNonce(loadnonce)
  /\ UNCHANGED <<mode, cnt, nonce_wait, start_output, khash>>

ShiftOut(loadnonce) ==
  /\ ~reset /\ state = "S_SHIFT_OUT"
  /\ IF Arrived(shift_acknowledge)
     THEN start_output' = TRUE /\ state' = "S_IDLE"
     ELSE UNCHANGED <<start_output, state>>
  /\ Strobes(FALSE, FALSE) /\ NoLoad /\ NoShift /\ LoadNonce(loadnonce)
  /\ UNCHANGED <<mode, cnt, nonce_wait, khash>>

(* MUTANT: the output flag stays up.                                        *)
CheckNoClear(loadnonce) ==
  /\ ~reset /\ state = "S_R18"
  /\ mode' = 0
  /\ state' = "S_IDLE"
  /\ live' = IF loadnonce THEN {}
             ELSE IF Xbuf = Item("out", work, nonce_sr) THEN live \ {nonce_sr}
             ELSE live
  /\ nonce_cnt' = IF loadnonce THEN 0 ELSE nonce_cnt
  /\ work' = IF loadnonce THEN work + 1 ELSE work
  /\ Strobes(FALSE, FALSE) /\ NoLoad /\ NoShift
  /\ UNCHANGED <<cnt, nonce_wait, start_output, khash>>

(* Whether the hash beats the target is not modelled: every check may.      *)
Check(loadnonce) ==
  /\ ~reset /\ state = "S_R18"
  /\ mode' = 0
  /\ state' = "S_IDLE"
  /\ live' = IF loadnonce THEN {}
             ELSE IF Xbuf = Item("out", work, nonce_sr) THEN live \ {nonce_sr}
             ELSE live
  /\ nonce_cnt' = IF loadnonce THEN 0 ELSE nonce_cnt
  /\ work' = IF loadnonce THEN work + 1 ELSE work
  /\ Strobes(FALSE, TRUE) /\ NoLoad /\ NoShift
  /\ UNCHANGED <<cnt, nonce_wait, start_output, khash>>

Fsm(loadnonce) ==
  \/ FsmReset(loadnonce)
  \/ FetchOutput(loadnonce) \/ StartHash(loadnonce) \/ Idle(loadnonce)
  \/ HashInput(loadnonce) \/ HashOutput(loadnonce)
  \/ LoadXbuf(loadnonce) \/ NonceWait(loadnonce) \/ NextNonce(loadnonce)
  \/ ShiftIn(loadnonce) \/ ShiftOut(loadnonce)
  \/ Check(loadnonce)

PbkdfTick(loadnonce) ==
  /\ ResetControl(loadnonce)
  /\ Flags
  /\ Fsm(loadnonce)
  /\ UNCHANGED shifterVars

-----------------------------------------------------------------------------
(* The blocks of hash_clk.  dout and dnonce are what the salsa engine's     *)
(* register holds, busy and result its outputs.                             *)

Follow(busy, result) ==
  /\ salsa_busy_d' = busy
  /\ busy_seen' = IF busy /\ ~salsa_busy_d THEN Toggle(busy_seen) ELSE busy_seen
  /\ salsa_result_d' = result
  /\ result_seen' =
       IF result /\ ~salsa_result_d THEN Toggle(result_seen) ELSE result_seen

LastShift == shift_count = SHIFTS - 1

(* MUTANT: shift_count is not cleared at the end of a shift.                *)
ShiftControlNoClear ==
  /\ Xbuf_load_request' = Shift(Xbuf_load_request)
  /\ shift_request' = Shift(shift_request)
  /\ salsa_shift' =
       (~LastShift /\ (Arrived(shift_request) \/ (salsa_shift /\ ~reset)))
  /\ shift_count' = IF salsa_shift THEN shift_count + 1 ELSE shift_count
  /\ shift_acknowledge' =
       IF LastShift THEN Toggle(shift_acknowledge) ELSE shift_acknowledge

(* Later assignments override earlier ones: a request starts a shift even   *)
(* in reset, a running shift counts on for one more edge.                   *)
ShiftControl ==
  /\ Xbuf_load_request' = Shift(Xbuf_load_request)
  /\ shift_request' = Shift(shift_request)
  /\ salsa_shift' =
       (~LastShift /\ (Arrived(shift_request) \/ (salsa_shift /\ ~reset)))
  /\ shift_count' = IF LastShift THEN 0
                    ELSE IF salsa_shift THEN shift_count + 1
                    ELSE IF reset THEN 0
                    ELSE shift_count
  /\ shift_acknowledge' =
       IF LastShift THEN Toggle(shift_acknowledge) ELSE shift_acknowledge

ShiftCutShort == salsa_shift /\ ~LastShift /\ ~salsa_shift'

ShiftBuffer(dout, dnonce) ==
  IF salsa_shift /\ LastShift THEN Xbuf' = dout /\ nonce_sr' = dnonce
  ELSE IF ShiftCutShort THEN Xbuf' = Junk /\ nonce_sr' = 0
  ELSE IF Arrived(Xbuf_load_request) THEN Xbuf' = khash /\ nonce_sr' = nonce_cnt
  ELSE UNCHANGED <<Xbuf, nonce_sr>>

ShifterTick(dout, dnonce, busy, result) ==
  /\ Follow(busy, result)
  /\ ShiftControl
  /\ ShiftBuffer(dout, dnonce)
  /\ UNCHANGED pbkdfClkVars

-----------------------------------------------------------------------------
PbkdfTypeOK ==
  /\ resetcycles \in 0 .. RESETCYCLES
  /\ reset \in BOOLEAN
  /\ nonce_cnt \in 0 .. NONCES - 1
  /\ state \in States
  /\ mode \in {0, 1}
  /\ cnt \in Nat
  /\ nonce_wait \in 0 .. 7
  /\ start_output \in BOOLEAN
  /\ \A f \in {Set_SMixInRdy, Clr_SMixOutRdy, SMixInRdy_state, SMixOutRdy_state,
               salsa_busy_d, salsa_result_d, salsa_shift} : f \in BOOLEAN
  /\ \A c \in {busy_seen, result_seen, Xbuf_load_request, shift_request,
               shift_acknowledge} : c \in Crossing
  /\ shift_count \in 0 .. SHIFTS - 1
  /\ nonce_sr \in 0 .. NONCES - 1
  /\ live \subseteq 0 .. NONCES - 1

=============================================================================
