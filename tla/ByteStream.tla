----------------------------- MODULE ByteStream -----------------------------
(***************************************************************************)
(* What a serial port promises the program that reads from it, whatever    *)
(* the platform: the bytes of the device, in order, none twice and none    *)
(* left out, as the docstring of read() says - "If a timeout is set it may *)
(* return less characters as requested.  With no timeout it will block     *)
(* until the requested number of bytes is read."  Bytes may be lost where  *)
(* the program asks for it (flushInput, open, close), with the device when *)
(* it is unplugged, and in a read that fails, which a read does only when  *)
(* the device is gone.                                                     *)
(***************************************************************************)
EXTENDS Naturals, Sequences, SequencesExt

CONSTANT Byte         (* The bytes a device may send.                      *)

VARIABLES
  pending,            (* The bytes that the program has not been given.    *)
  asked,              (* The size of the read in progress, or 0.           *)
  timed,              (* Whether a read may end early.                     *)
  exact,              (* FALSE for a back end that may drop bytes,         *)
  waits,              (* and for one whose read may fail with the device.  *)
  up,                 (* Whether the device is there.                      *)
  answer              (* What the last call returned: op, ok, data.        *)

vars == <<pending, asked, timed, exact, waits, up, answer>>

Clears == {"flushInput", "open", "close", "port"}
Reads == {"read", "readline", "readlines"}

Init == pending = <<>> /\ asked = 0 /\ answer.op = "none"

(* The device sends, or another user of a loop back writes.                *)
Arrive ==
  /\ up
  /\ \E more \in Byte : pending' = Append(pending, more)
  /\ UNCHANGED <<asked, timed, exact, waits, up, answer>>

(* A read answers with the next bytes, fewer than asked only if it is      *)
(* timed or nothing more will come.                                        *)
Deliver ==
  /\ answer'.op \in Reads /\ answer'.ok
  /\ pending = answer'.data \o pending'
  /\ asked > Len(answer'.data) => timed \/ ~up
  /\ asked' = 0 /\ up' = up

(* Any other call; writing puts bytes into a loop back.                    *)
Answer ==
  /\ answer'.op \notin Reads /\ answer'.ok
  /\ \/ IsPrefix(pending, pending')
     \/ answer'.op \in Clears /\ pending' = <<>>
  /\ asked' = 0 /\ up' = up

(* A read fails when the device is gone; any other call that fails leaves  *)
(* the bytes alone, unless it is one that may clear them.                  *)
Fail ==
  /\ ~answer'.ok
  /\ \/ pending' = pending
     \/ IsSuffix(pending', pending) /\ (asked > 0 \/ answer'.op \in Clears)
  /\ asked > 0 => ~up \/ ~waits
  /\ asked' = 0 /\ up' = up

(* A call begins or goes on.                                               *)
Proceed ==
  /\ IF exact THEN pending' = pending ELSE IsSuffix(pending', pending)
  /\ UNCHANGED <<exact, up, answer>>

(* The device is unplugged, with the bytes not yet taken from it, or back. *)
Plug ==
  /\ up' = ~up
  /\ IF up THEN IsPrefix(pending', pending) ELSE pending' = pending
  /\ UNCHANGED <<asked, timed, exact, waits, answer>>

Next == Arrive \/ Deliver \/ Answer \/ Fail \/ Proceed \/ Plug
Spec == Init /\ [][Next]_vars
=============================================================================
