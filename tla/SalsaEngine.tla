---------------------------- MODULE SalsaEngine ----------------------------
(***************************************************************************)
(* salsaengine.v: THREADS copies of ROMix share one salsa pipeline, each   *)
(* owning one slot of a ring of THREADS + 1 phases.  A thread that         *)
(* completes leaves its result in salsaShiftReg and takes its next input   *)
(* from there in the same cycle; its nonce and nonce_sr change places too. *)
(*                                                                         *)
(* SalsaTick is one posedge of hash_clk: the sequential part common to all *)
(* edges and the FSM's case for the slot in phase.  Its parameters are the *)
(* wires from pbkdfengine.                                                 *)
(*                                                                         *)
(* Abstracted: R_WRITE, R_MIX and R_INT are one state R_RUN, which a       *)
(* thread leaves in some visit of its slot (the salsa data decides which). *)
(***************************************************************************)
EXTENDS Naturals, Sequences, ScryptItem

CONSTANTS
  THREADS,         (* Threads in the pipeline.                               *)
  START_INTERVAL,  (* hash_clk cycles between the starts of idle threads.    *)
  SPACING          (* hash_clk cycles between two exchanges: what the design *)
                   (* relies on without enforcing it, see EvenlySpaced.      *)

ASSUME SalsaAssumption ==
  /\ THREADS \in Nat \ {0}
  /\ START_INTERVAL \in Nat \ {0}
  /\ SPACING \in Nat

VARIABLES
  phase, phase_d,
  reset_d, fsmreset, start_d, fsmstart,
  mstate,          (* The state on its way into slot phase_d.                *)
  sstate,          (* The state of each thread.                              *)
  XSload,          (* XCtl = XSload.                                         *)
  sdata, snonce,   (* The data each thread works on, and its nonce.          *)
  salsaShiftReg,
  salsa_nonce_sr,  (* nonce_sr of salsaengine.v, in series with it.          *)
  busy_flag, result,
  start_count, start_flag,
  since,           (* Cycles since a thread last took input, up to SPACING.  *)
  order            (* The running threads, the one to complete next first.   *)

salsaVars ==
  <<phase, phase_d, reset_d, fsmreset, start_d, fsmstart, mstate, sstate,
    XSload, sdata, snonce, salsaShiftReg, salsa_nonce_sr, busy_flag, result,
    start_count, start_flag, since, order>>

Thread == 0 .. THREADS - 1
ThreadState == {"R_IDLE", "R_START", "R_RUN", "R_WAIT"}

SalsaInit ==
  /\ phase = 0 /\ phase_d = THREADS + 1
  /\ reset_d = FALSE /\ fsmreset = FALSE
  /\ start_d = FALSE /\ fsmstart = FALSE
  /\ mstate = "R_IDLE"
  /\ sstate = [t \in Thread |-> "R_IDLE"]
  /\ XSload = FALSE
  /\ sdata = [t \in Thread |-> Junk]
  /\ snonce = [t \in Thread |-> 0]
  /\ salsaShiftReg = Junk
  /\ salsa_nonce_sr = 0
  /\ busy_flag = FALSE /\ result = FALSE
  /\ start_count = 0 /\ start_flag = FALSE
  /\ since = SPACING /\ order = <<>>

-----------------------------------------------------------------------------
(* The sequential part.                                                     *)

(* The phases advance; reset and start are synchronised; the state computed *)
(* on the edge before is stored.                                            *)
Rotate(reset, start) ==
  /\ phase' = IF phase = THREADS THEN 0 ELSE phase + 1
  /\ phase_d' = phase
  /\ reset_d' = reset /\ fsmreset' = reset_d
  /\ start_d' = start /\ fsmstart' = start_d
  /\ sstate' = IF phase_d \in Thread
               THEN [sstate EXCEPT ![phase_d] = IF fsmreset THEN "R_IDLE" ELSE mstate]
               ELSE sstate

(* XSload: the thread in phase_d takes the shift register as its input; if  *)
(* a shift is going on, whatever is passing by.  The data of an idle slot   *)
(* is scrambled from lap to lap.                                            *)
ThreadData(shift) ==
  /\ sdata' = IF XSload
              THEN [sdata EXCEPT ![phase_d] = IF shift THEN Junk ELSE salsaShiftReg]
              ELSE IF fsmreset /\ phase_d \in Thread
              THEN [sdata EXCEPT ![phase_d] = Junk]
              ELSE sdata
  /\ snonce' = IF XSload /\ ~shift
               THEN [snonce EXCEPT ![phase_d] = salsa_nonce_sr]
               ELSE snonce

(* A shift takes precedence over the result that XSload brings.  last and   *)
(* cut: see LastShift and ShiftCutShort of PbkdfEngine.                     *)
ShiftRegister(shift, last, cut, din, dinnonce) ==
  CASE shift /\ last -> salsaShiftReg' = din /\ salsa_nonce_sr' = dinnonce
    [] shift /\ cut -> salsaShiftReg' = Junk /\ salsa_nonce_sr' = 0
    [] ~shift /\ XSload -> /\ salsaShiftReg' = Mixed(sdata[phase_d])
                          /\ salsa_nonce_sr' = snonce[phase_d]
    [] OTHER -> UNCHANGED <<salsaShiftReg, salsa_nonce_sr>>

(* The state of a thread, be it stored or on its way.                       *)
Slot(t) == IF t = phase_d THEN mstate ELSE sstate[t]

(* The counter runs freely.  Once no thread is idle and start_flag is up its *)
(* value is not used again before fsmreset clears it: the model clears it   *)
(* then.                                                                    *)
StartCountUnused == start_flag /\ \A t \in Thread : Slot(t) # "R_IDLE"

StartCounter ==
  start_count' = IF fsmreset \/ start_count = START_INTERVAL \/ StartCountUnused
                 THEN 0 ELSE start_count + 1

RaiseStart == start_flag \/ (start_count = START_INTERVAL /\ ~fsmreset /\ fsmstart)

(* Bookkeeping of EvenlySpaced.                                             *)
Others(t) ==
  IF \E i \in DOMAIN order : order[i] = t
  THEN LET i == CHOOSE i \in DOMAIN order : order[i] = t
       IN SubSeq(order, 1, i - 1) \o SubSeq(order, i + 1, Len(order))
  ELSE order

Spacing ==
  /\ since' = IF XSload THEN 0 ELSE IF since < SPACING THEN since + 1 ELSE since
  /\ order' = IF XSload THEN Append(Others(phase_d), phase_d)
              ELSE IF fsmreset THEN Others(phase_d)
              ELSE order

-----------------------------------------------------------------------------
(* The FSM for the slot in phase.                                           *)

mstate_in == IF phase = THREADS THEN "R_IDLE" ELSE sstate[phase]

FsmResetSlot ==
  /\ fsmreset
  /\ mstate' = "R_IDLE"
  /\ busy_flag' = FALSE /\ result' = FALSE
  /\ XSload' = FALSE
  /\ start_flag' = start_flag

StayIdle ==
  /\ ~fsmreset /\ mstate_in = "R_IDLE"
  /\ phase = THREADS \/ ~start_flag
  /\ mstate' = "R_IDLE"
  /\ XSload' = FALSE
  /\ start_flag' = RaiseStart
  /\ UNCHANGED <<busy_flag, result>>

(* Only after a reset; start_flag says when it is this thread's turn.       *)
LeaveIdle ==
  /\ ~fsmreset /\ mstate_in = "R_IDLE"
  /\ phase # THREADS /\ start_flag
  /\ mstate' = "R_START"
  /\ XSload' = TRUE
  /\ start_flag' = FALSE
  /\ busy_flag' = FALSE
  /\ UNCHANGED result

(* MUTANT: busy is not raised again.                                        *)
StartQuiet ==
  /\ ~fsmreset /\ mstate_in = "R_START"
  /\ mstate' = "R_RUN"
  /\ result' = FALSE
  /\ XSload' = FALSE
  /\ start_flag' = RaiseStart
  /\ UNCHANGED busy_flag

Start ==
  /\ ~fsmreset /\ mstate_in = "R_START"
  /\ mstate' = "R_RUN"
  /\ busy_flag' = TRUE
  /\ result' = FALSE
  /\ XSload' = FALSE
  /\ start_flag' = RaiseStart

Run ==
  /\ ~fsmreset /\ mstate_in = "R_RUN"
  /\ mstate' = "R_RUN"
  /\ XSload' = FALSE
  /\ start_flag' = RaiseStart
  /\ UNCHANGED <<busy_flag, result>>

(* "This should be OK provided the threads remain evenly spaced": the       *)
(* threads complete in the order they started in, none before every thread  *)
(* has been started, while another one waits for input, or within SPACING   *)
(* of the last exchange.                                                    *)
EvenlySpaced ==
  /\ since = SPACING /\ ~XSload
  /\ Len(order) = THREADS /\ phase = order[1]
  /\ \A t \in Thread : Slot(t) # "R_WAIT"

(* The last cycle of a thread: it restarts at once on the input that is     *)
(* ready, or waits for one.                                                 *)
Complete ==
  /\ ~fsmreset /\ mstate_in = "R_RUN"
  /\ EvenlySpaced
  /\ busy_flag' = FALSE
  /\ XSload' = fsmstart
  /\ mstate' = IF fsmstart THEN "R_START" ELSE "R_WAIT"
  /\ result' = (fsmstart \/ result)
  /\ start_flag' = RaiseStart

Wait ==
  /\ ~fsmreset /\ mstate_in = "R_WAIT" /\ ~fsmstart
  /\ mstate' = "R_WAIT"
  /\ XSload' = FALSE
  /\ start_flag' = RaiseStart
  /\ UNCHANGED <<busy_flag, result>>

(* MUTANT: a waiting thread goes on without saying so.                      *)
ResumeSilent ==
  /\ ~fsmreset /\ mstate_in = "R_WAIT" /\ fsmstart
  /\ mstate' = "R_START"
  /\ XSload' = TRUE
  /\ start_flag' = RaiseStart
  /\ UNCHANGED <<busy_flag, result>>

Resume ==
  /\ ~fsmreset /\ mstate_in = "R_WAIT" /\ fsmstart
  /\ mstate' = "R_START"
  /\ XSload' = TRUE
  /\ result' = TRUE
  /\ start_flag' = RaiseStart
  /\ UNCHANGED busy_flag

SlotQuiet == FsmResetSlot \/ StayIdle \/ LeaveIdle \/ Start \/ Run \/ Wait \/ Resume

(* The parts common to every edge.                                          *)
SalsaTick(reset, start, shift, last, cut, din, dinnonce) ==
  /\ Rotate(reset, start)
  /\ ThreadData(shift)
  /\ ShiftRegister(shift, last, cut, din, dinnonce)
  /\ StartCounter
  /\ Spacing

-----------------------------------------------------------------------------
SalsaTypeOK ==
  /\ phase \in 0 .. THREADS
  /\ phase_d \in 0 .. THREADS + 1
  /\ \A f \in {reset_d, fsmreset, start_d, fsmstart, XSload, busy_flag, result,
               start_flag} : f \in BOOLEAN
  /\ mstate \in ThreadState
  /\ sstate \in [Thread -> ThreadState]
  /\ start_count \in 0 .. START_INTERVAL
  /\ since \in 0 .. SPACING
  /\ Len(order) <= THREADS

=============================================================================
