----------------------------- MODULE MinerHost -----------------------------
(***************************************************************************)
(* ltcminer.py, the host program: a Writer thread that fetches work and    *)
(* sends it to the FPGA, a Reader thread that receives golden nonces, and  *)
(* one Submitter thread for each nonce.  They share writer.block and the   *)
(* Event golden.                                                           *)
(*                                                                         *)
(* One action is a stretch of a thread between two points where another    *)
(* thread can be noticed.  External: the pool, which answers a getwork     *)
(* with new work or not at all, and the FPGA with the serial lines, which  *)
(* delay works and nonces arbitrarily.                                     *)
(***************************************************************************)
EXTENDS Naturals, Sequences

CONSTANTS
  WORD,       (* 4: bytes of a nonce on the line.                            *)
  MaxRounds,  (* Bound: getwork calls of the Writer                          *)
  MaxNonces   (* and nonces that the FPGA finds in a behaviour.              *)

ASSUME HostAssumption ==
  WORD \in Nat \ {0} /\ MaxRounds \in Nat /\ MaxNonces \in Nat

VARIABLES
  writer,       (* Where the Writer is: "getwork", "send", "wait", "clear".  *)
  block,        (* writer.block: the number of the work; 0 is the "000...0"  *)
                (* that it starts with.                                      *)
  rounds, works,(* getwork calls, and those the pool answered.               *)
  golden,       (* The Event.                                                *)
  reader,       (* Where the Reader is: "read", "submit", "set".             *)
  nonce,        (* The bytes that ser.read has.                              *)
  down,         (* Payloads on their way to the FPGA,                        *)
  fpga,         (* the work it has,                                          *)
  found,        (* the nonces it found,                                      *)
  up,           (* and their bytes on the way to the host.                   *)
  submissions,  (* What the Submitters were given.                           *)
  partial,      (* History: a read has timed out in the middle of a nonce.   *)
  unserved      (* History: golden was set and no getwork has followed.      *)

writerVars == <<writer, block, rounds, works, down>>
readerVars == <<reader, nonce, submissions, partial>>
fpgaVars == <<fpga, found>>
hostVars == <<writerVars, readerVars, fpgaVars, golden, up, unserved>>

NonceByte == [id : 1 .. MaxNonces, work : 0 .. MaxRounds, idx : 1 .. WORD]
Word(id, w) == [k \in 1 .. WORD |-> [id |-> id, work |-> w, idx |-> k]]

HostInit ==
  /\ writer = "getwork" /\ block = 0 /\ rounds = 0 /\ works = 0
  /\ golden = FALSE
  /\ reader = "read" /\ nonce = <<>>
  /\ down = <<>> /\ fpga = 0 /\ found = 0 /\ up = <<>>
  /\ submissions = {}
  /\ partial = FALSE /\ unserved = FALSE

-----------------------------------------------------------------------------
(* The Writer's loop.                                                       *)

GetWork ==
  /\ writer = "getwork" /\ rounds < MaxRounds
  /\ rounds' = rounds + 1
  /\ works' = works + 1
  /\ block' = works + 1
  /\ writer' = "send"
  /\ unserved' = FALSE
  /\ UNCHANGED <<readerVars, fpgaVars, down, golden, up>>

(* "RPC getwork error": go on with the old data.                            *)
GetWorkError ==
  /\ writer = "getwork" /\ rounds < MaxRounds
  /\ rounds' = rounds + 1
  /\ writer' = "send"
  /\ unserved' = FALSE
  /\ UNCHANGED <<readerVars, fpgaVars, block, works, down, golden, up>>

(* MUTANT: the work after the current one is sent.                          *)
SendAhead ==
  /\ writer = "send"
  /\ down' = Append(down, block + 1)
  /\ writer' = "wait"
  /\ UNCHANGED <<readerVars, fpgaVars, block, rounds, works, golden, up, unserved>>

(* MUTANT: golden is cleared before the wait.                               *)
SendThenClear ==
  /\ writer = "send"
  /\ down' = Append(down, block)
  /\ golden' = FALSE
  /\ writer' = "wait"
  /\ UNCHANGED <<readerVars, fpgaVars, block, rounds, works, up, unserved>>

Send ==
  /\ writer = "send"
  /\ down' = Append(down, block)
  /\ writer' = "wait"
  /\ UNCHANGED <<readerVars, fpgaVars, block, rounds, works, golden, up, unserved>>

(* golden.wait(askrate) returns at once when golden is set.                 *)
WaitGolden ==
  /\ writer = "wait" /\ golden
  /\ writer' = "clear"
  /\ UNCHANGED <<readerVars, fpgaVars, block, rounds, works, down, golden, up, unserved>>

WaitTimeout ==
  /\ writer = "wait" /\ ~golden
  /\ writer' = "getwork"
  /\ UNCHANGED <<readerVars, fpgaVars, block, rounds, works, down, golden, up, unserved>>

Clear ==
  /\ writer = "clear"
  /\ golden' = FALSE
  /\ writer' = "getwork"
  /\ UNCHANGED <<readerVars, fpgaVars, block, rounds, works, down, up, unserved>>

-----------------------------------------------------------------------------
(* The Reader's loop.                                                       *)

ReadByte ==
  /\ reader = "read" /\ up # <<>>
  /\ nonce' = Append(nonce, Head(up))
  /\ up' = Tail(up)
  /\ reader' = IF Len(nonce) + 1 = WORD THEN "submit" ELSE "read"
  /\ UNCHANGED <<writerVars, fpgaVars, submissions, partial, golden, unserved>>

(* MUTANT: the length of what was read is not checked.                      *)
ReadTimeoutUnchecked ==
  /\ reader = "read"
  /\ reader' = "submit"
  /\ partial' = (partial \/ nonce # <<>>)
  /\ UNCHANGED <<writerVars, fpgaVars, nonce, submissions, golden, up, unserved>>

(* ser.read returns what it has when its timeout expires, and anything less *)
(* than four bytes is dropped.                                              *)
ReadTimeout ==
  /\ reader = "read"
  /\ nonce' = <<>>
  /\ partial' = (partial \/ nonce # <<>>)
  /\ UNCHANGED <<writerVars, fpgaVars, reader, submissions, golden, up, unserved>>

(* MUTANT: the next nonce is read behind the one that was submitted.        *)
SubmitKeeps ==
  /\ reader = "submit"
  /\ submissions' = submissions \cup {[block |-> block, nonce |-> nonce]}
  /\ reader' = "set"
  /\ UNCHANGED <<writerVars, fpgaVars, nonce, partial, golden, up, unserved>>

Submit ==
  /\ reader = "submit"
  /\ submissions' = submissions \cup {[block |-> block, nonce |-> nonce]}
  /\ nonce' = <<>>
  /\ reader' = "set"
  /\ UNCHANGED <<writerVars, fpgaVars, partial, golden, up, unserved>>

SetGolden ==
  /\ reader = "set"
  /\ golden' = TRUE
  /\ unserved' = TRUE
  /\ reader' = "read"
  /\ UNCHANGED <<writerVars, fpgaVars, nonce, submissions, partial, up>>

-----------------------------------------------------------------------------
(* The FPGA: takes a work when its payload has arrived, and sends the       *)
(* nonces it finds for the work it has.                                     *)

FpgaReceives ==
  /\ down # <<>>
  /\ fpga' = Head(down)
  /\ down' = Tail(down)
  /\ UNCHANGED <<readerVars, writer, block, rounds, works, found, golden, up, unserved>>

FpgaFinds ==
  /\ found < MaxNonces
  /\ found' = found + 1
  /\ up' = up \o Word(found + 1, fpga)
  /\ UNCHANGED <<writerVars, readerVars, fpga, golden, unserved>>

WriterStep ==
  GetWork \/ GetWorkError \/ Send \/ WaitGolden \/ WaitTimeout \/ Clear
ReaderStep == ReadByte \/ ReadTimeout \/ Submit \/ SetGolden
FpgaStep == FpgaReceives \/ FpgaFinds

HostNext == WriterStep \/ ReaderStep \/ FpgaStep

HostSpec == HostInit /\ [][HostNext]_hostVars

-----------------------------------------------------------------------------
(* Properties.                                                              *)

(* Every variable holds a value of its type.                                *)
HostTypeOK ==
  /\ writer \in {"getwork", "send", "wait", "clear"}
  /\ reader \in {"read", "submit", "set"}
  /\ block \in 0 .. MaxRounds /\ works <= rounds /\ rounds <= MaxRounds
  /\ golden \in BOOLEAN
  /\ nonce \in Seq(NonceByte) /\ Len(nonce) <= WORD
  /\ up \in Seq(NonceByte)
  /\ fpga \in 0 .. MaxRounds
  /\ down \in Seq(0 .. MaxRounds)

(* A submission has the length of a nonce, wherever reads have timed out    *)
(* (ltcminer.py 79); and it is one nonce as the FPGA sent it, unless a read *)
(* timed out in the middle of one, which leaves the Reader out of step.     *)
WholeNonce ==
  \A s \in submissions :
    /\ Len(s.nonce) = WORD
    /\ ~partial => \E id \in 1 .. MaxNonces, w \in 0 .. MaxRounds :
                     s.nonce = Word(id, w)

(* A nonce is never submitted with a block older than the one it was found  *)
(* for: writer.block holds a work before the FPGA can have it.              *)
NeverOlderBlock ==
  \A s \in submissions : \A k \in DOMAIN s.nonce : s.block >= s.nonce[k].work

(* "Keep this order, because writer.block will be updated due to the golden *)
(* event" (ltcminer.py 80-81): the block that the Reader hands over is the  *)
(* one the nonce was found for (work 0 is what the FPGA starts with).       *)
SubmitsItsBlock ==
  \A s \in submissions : \A k \in DOMAIN s.nonce :
    s.nonce[k].work # 0 => s.block = s.nonce[k].work

(* No golden nonce is forgotten: the Writer never sits out the whole of     *)
(* askrate when a nonce came in after its last getwork, although golden is  *)
(* cleared some time after the wait returned.                               *)
GoldenServed == [][writer = "wait" /\ writer' = "getwork" => ~unserved]_hostVars

(* The FPGA catches up: every block that the Reader hands to Submitters is  *)
(* sooner or later the one the FPGA hashes, whatever the RPC errors,        *)
(* timeouts and golden nonces in between.                                   *)
FpgaFollows == \A w \in 1 .. MaxRounds : block = w ~> fpga = w

=============================================================================
