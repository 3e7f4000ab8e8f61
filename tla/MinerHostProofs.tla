-------------------------- MODULE MinerHostProofs --------------------------
(***************************************************************************)
(* Proofs about ltcminer.py for every length of a nonce on the line and    *)
(* any number of getwork calls and nonces.  HostInv is inductive: its      *)
(* first part follows the works down to the FPGA and back up in the bytes  *)
(* of nonces, its second the framing of the bytes.                         *)
(***************************************************************************)
EXTENDS MinerHost, SequenceTheorems, TLAPS

HostType ==
  /\ HostTypeOK
  /\ rounds \in Nat /\ works \in Nat
  /\ found \in 0 .. MaxNonces
  /\ partial \in BOOLEAN
  /\ \A s \in submissions : s.block \in 0 .. MaxRounds /\ s.nonce \in Seq(NonceByte)

(* No work anywhere is newer than writer.block.                             *)
NoneNewer ==
  /\ block <= works
  /\ fpga <= block
  /\ \A k \in 1 .. Len(down) : down[k] <= block
  /\ \A k \in 1 .. Len(up) : up[k].work <= block
  /\ \A k \in 1 .. Len(nonce) : nonce[k].work <= block
  /\ NeverOlderBlock

NextByte(b) == [b EXCEPT !.idx = @ + 1]

(* The bytes on the line: each but the last of a nonce is followed by the   *)
(* next one of the same nonce, and the last on the line ends a nonce.       *)
UpFramed ==
  /\ \A k \in 1 .. Len(up) - 1 :
       IF up[k].idx < WORD THEN up[k + 1] = NextByte(up[k]) ELSE up[k + 1].idx = 1
  /\ up # <<>> => up[Len(up)].idx = WORD

(* What ser.read has is the beginning of a nonce that the line goes on with.*)
NonceFramed ==
  /\ \A k \in 1 .. Len(nonce) : nonce[k] = [nonce[1] EXCEPT !.idx = k]
  /\ Len(nonce) \in 1 .. WORD - 1
       => up # <<>> /\ up[1] = NextByte(nonce[Len(nonce)])
  /\ Len(nonce) \in {0, WORD} => (up # <<>> => up[1].idx = 1)

ReadInv ==
  /\ reader = "read" => Len(nonce) < WORD
  /\ reader = "submit" => Len(nonce) = WORD
  /\ reader = "set" => nonce = <<>>
  /\ ~partial => NonceFramed
  /\ WholeNonce

HostInv == HostType /\ NoneNewer /\ UpFramed /\ ReadInv

-----------------------------------------------------------------------------
(* What the FPGA puts on the line, and what a read takes off it.            *)

LEMMA WordType ==
  ASSUME NEW id \in 1 .. MaxNonces, NEW w \in 0 .. MaxRounds
  PROVE  /\ Word(id, w) \in Seq(NonceByte)
         /\ Len(Word(id, w)) = WORD
         /\ \A k \in 1 .. WORD : Word(id, w)[k] = [id |-> id, work |-> w, idx |-> k]
<1>1. WORD \in Nat
  BY HostAssumption DEF HostAssumption
<1>2. Word(id, w) \in [1 .. WORD -> NonceByte]
  BY DEF Word, NonceByte
<1>3. Word(id, w) \in Seq(NonceByte)
  BY <1>1, <1>2, SeqDef
<1>4. Len(Word(id, w)) = WORD
  BY <1>1, <1>2, <1>3, LenProperties
<1> QED
  BY <1>3, <1>4 DEF Word

LEMMA UpType ==
  ASSUME HostType, HostType', [HostNext]_hostVars
  PROVE  /\ Len(up) \in Nat /\ Len(up') \in Nat
         /\ Len(nonce) \in Nat /\ Len(nonce') \in Nat
         /\ \A k \in 1 .. Len(up) : up[k] \in NonceByte
         /\ \A k \in 1 .. Len(nonce) : nonce[k] \in NonceByte
         /\ WORD \in Nat \ {0}
<1>1. up \in Seq(NonceByte) /\ up' \in Seq(NonceByte) /\ nonce \in Seq(NonceByte) /\ nonce' \in Seq(NonceByte)
  BY DEF HostType, HostTypeOK
<1>2. Len(up) \in Nat /\ Len(up') \in Nat /\ Len(nonce) \in Nat /\ Len(nonce') \in Nat
  BY <1>1, LenProperties
<1> QED
  BY <1>1, <1>2, ElementOfSeq, HostAssumption DEF HostAssumption

(* FpgaFinds appends a whole nonce.                                         *)
LEMMA FindsUp ==
  ASSUME HostType, FpgaFinds
  PROVE  /\ up' \in Seq(NonceByte)
         /\ Len(up') = Len(up) + WORD
         /\ \A k \in 1 .. Len(up) : up'[k] = up[k]
         /\ \A k \in 1 .. WORD :
              up'[Len(up) + k] = [id |-> found + 1, work |-> fpga, idx |-> k]
<1>1. found + 1 \in 1 .. MaxNonces /\ fpga \in 0 .. MaxRounds /\ up \in Seq(NonceByte)
  BY HostAssumption DEF HostType, HostTypeOK, FpgaFinds, HostAssumption
<1> DEFINE ww == Word(found + 1, fpga)
<1>2. /\ ww \in Seq(NonceByte) /\ Len(ww) = WORD
      /\ \A k \in 1 .. WORD : ww[k] = [id |-> found + 1, work |-> fpga, idx |-> k]
  BY <1>1, WordType
<1>3. up' = up \o ww
  BY DEF FpgaFinds
<1> HIDE DEF ww
<1>4. /\ up \o ww \in Seq(NonceByte)
      /\ Len(up \o ww) = Len(up) + Len(ww)
      /\ \A i \in 1 .. Len(up) + Len(ww) :
           (up \o ww)[i] = IF i <= Len(up) THEN up[i] ELSE ww[i - Len(up)]
  BY <1>1, <1>2, ConcatProperties
<1>5. Len(up) \in Nat /\ WORD \in Nat
  BY <1>1, LenProperties, HostAssumption DEF HostAssumption
<1>6. \A k \in 1 .. Len(up) : up'[k] = up[k]
  BY <1>2, <1>3, <1>4, <1>5
<1>7. ASSUME NEW k \in 1 .. WORD PROVE up'[Len(up) + k] = ww[k]
  <2>1. Len(up) + k \in 1 .. Len(up) + Len(ww) /\ ~(Len(up) + k <= Len(up))
    BY <1>2, <1>5
  <2>2. (Len(up) + k) - Len(up) = k
    BY <1>5
  <2> QED
    BY <1>3, <1>4, <2>1, <2>2
<1> QED
  BY <1>2, <1>3, <1>4, <1>6, <1>7

(* ReadByte moves the first byte of the line to the end of what was read.   *)
LEMMA ReadsUp ==
  ASSUME HostType, ReadByte
  PROVE  /\ up' \in Seq(NonceByte) /\ nonce' \in Seq(NonceByte)
         /\ Len(up) >= 1 /\ Len(up') = Len(up) - 1
         /\ \A k \in 1 .. Len(up') : up'[k] = up[k + 1]
         /\ Len(nonce') = Len(nonce) + 1
         /\ \A k \in 1 .. Len(nonce) : nonce'[k] = nonce[k]
         /\ nonce'[Len(nonce) + 1] = up[1]
<1>1. up \in Seq(NonceByte) /\ nonce \in Seq(NonceByte) /\ up # <<>>
  BY DEF HostType, HostTypeOK, ReadByte
<1>2. Len(up) \in Nat \ {0}
  BY <1>1, EmptySeq
<1>3. Head(up) \in NonceByte /\ Head(up) = up[1]
  BY <1>1, HeadTailProperties
<1>4. /\ Tail(up) \in Seq(NonceByte) /\ Len(Tail(up)) = Len(up) - 1
      /\ \A i \in 1 .. Len(Tail(up)) : Tail(up)[i] = up[i + 1]
  BY <1>1, HeadTailProperties
<1>5. /\ Append(nonce, Head(up)) \in Seq(NonceByte)
      /\ Len(Append(nonce, Head(up))) = Len(nonce) + 1
      /\ \A i \in 1 .. Len(nonce) : Append(nonce, Head(up))[i] = nonce[i]
      /\ Append(nonce, Head(up))[Len(nonce) + 1] = Head(up)
  BY <1>1, <1>3, AppendProperties
<1> QED
  BY <1>2, <1>3, <1>4, <1>5 DEF ReadByte

-----------------------------------------------------------------------------
(* Types.                                                                   *)

LEMMA HostTypeStep ==
  ASSUME HostType, ReadInv, [HostNext]_hostVars
  PROVE  HostType'
<1> USE DEF HostType, HostTypeOK
<1>0. /\ WORD \in Nat \ {0} /\ MaxRounds \in Nat /\ MaxNonces \in Nat
      /\ Len(nonce) \in Nat
      /\ <<>> \in Seq(NonceByte) /\ Len(<<>>) = 0
  BY HostAssumption, LenProperties, EmptySeq DEF HostAssumption
<1>1. CASE GetWork
  BY <1>0, <1>1 DEF GetWork, readerVars, fpgaVars
<1>2. CASE GetWorkError
  BY <1>0, <1>2 DEF GetWorkError, readerVars, fpgaVars
<1>3. CASE Send
  <2>1. Append(down, block) \in Seq(0 .. MaxRounds)
    BY AppendProperties
  <2> QED
    BY <2>1, <1>3 DEF Send, readerVars, fpgaVars
<1>4. CASE WaitGolden \/ WaitTimeout \/ Clear
  BY <1>4 DEF WaitGolden, WaitTimeout, Clear, readerVars, fpgaVars
<1>5. CASE ReadByte
  <2>1. up' \in Seq(NonceByte) /\ nonce' \in Seq(NonceByte) /\ Len(nonce') = Len(nonce) + 1
    BY <1>5, ReadsUp
  <2>2. Len(nonce) < WORD
    BY <1>5 DEF ReadByte, ReadInv
  <2> QED
    BY <1>0, <1>5, <2>1, <2>2 DEF ReadByte, writerVars, fpgaVars
<1>6. CASE ReadTimeout
  BY <1>0, <1>6 DEF ReadTimeout, writerVars, fpgaVars
<1>7. CASE Submit
  BY <1>0, <1>7 DEF Submit, writerVars, fpgaVars
<1>8. CASE SetGolden
  BY <1>8 DEF SetGolden, writerVars, fpgaVars
<1>9. CASE FpgaReceives
  <2>1. Head(down) \in 0 .. MaxRounds /\ Tail(down) \in Seq(0 .. MaxRounds)
    BY <1>9, HeadTailProperties DEF FpgaReceives
  <2> QED
    BY <2>1, <1>9 DEF FpgaReceives, readerVars
<1>10. CASE FpgaFinds
  <2>1. up' \in Seq(NonceByte)
    BY <1>10, FindsUp
  <2> QED
    BY <1>0, <1>10, <2>1 DEF FpgaFinds, writerVars, readerVars
<1>11. CASE UNCHANGED hostVars
  BY <1>11 DEF hostVars, writerVars, readerVars, fpgaVars
<1> QED
  BY <1>1, <1>2, <1>3, <1>4, <1>5, <1>6, <1>7, <1>8, <1>9, <1>10, <1>11
  DEF HostNext, WriterStep, ReaderStep, FpgaStep

-----------------------------------------------------------------------------
(* writer.block is the newest work there is.                                *)

LEMMA NoneNewerStep ==
  ASSUME HostType, HostType', NoneNewer, [HostNext]_hostVars
  PROVE  NoneNewer'
<1>0. /\ block \in Nat /\ block' \in Nat /\ works \in Nat /\ fpga \in Nat
      /\ Len(down) \in Nat /\ Len(up) \in Nat /\ Len(nonce) \in Nat
      /\ \A k \in 1 .. Len(down) : down[k] \in Nat
      /\ \A k \in 1 .. Len(up) : up[k].work \in Nat
      /\ \A k \in 1 .. Len(nonce) : nonce[k].work \in Nat
      /\ DOMAIN nonce = 1 .. Len(nonce)
      /\ Len(<<>>) = 0
  <2>1. /\ up \in Seq(NonceByte) /\ nonce \in Seq(NonceByte) /\ down \in Seq(0 .. MaxRounds)
        /\ block \in Nat /\ block' \in Nat /\ works \in Nat /\ fpga \in Nat
    BY DEF HostType, HostTypeOK
  <2>2. /\ Len(down) \in Nat /\ Len(up) \in Nat /\ Len(nonce) \in Nat
        /\ DOMAIN nonce = 1 .. Len(nonce)
    BY <2>1, LenProperties
  <2>3. /\ \A k \in 1 .. Len(down) : down[k] \in 0 .. MaxRounds
        /\ \A k \in 1 .. Len(up) : up[k] \in NonceByte
        /\ \A k \in 1 .. Len(nonce) : nonce[k] \in NonceByte
    BY <2>1, ElementOfSeq
  <2>4. \A b \in NonceByte : b.work \in Nat
    BY DEF NonceByte
  <2> QED
    BY <2>1, <2>2, <2>3, <2>4, EmptySeq
<1>1. CASE GetWork
  <2>1. block <= block' /\ block' = works'
    BY <1>0, <1>1 DEF GetWork, NoneNewer
  <2>2. NeverOlderBlock'
    BY <1>1 DEF GetWork, readerVars, NoneNewer, NeverOlderBlock
  <2> QED
    BY <1>0, <1>1, <2>1, <2>2 DEF GetWork, readerVars, fpgaVars, NoneNewer
<1>2. CASE GetWorkError \/ WaitGolden \/ WaitTimeout \/ Clear \/ SetGolden
  BY <1>2 DEF GetWorkError, WaitGolden, WaitTimeout, Clear, SetGolden, readerVars,
     fpgaVars, writerVars, NoneNewer, NeverOlderBlock
<1>3. CASE Send
  <2>1. /\ Len(down') = Len(down) + 1
        /\ \A k \in 1 .. Len(down) : down'[k] = down[k]
        /\ down'[Len(down) + 1] = block
    BY <1>3, AppendProperties DEF Send, HostType, HostTypeOK
  <2>2. \A k \in 1 .. Len(down') : down'[k] <= block
    BY <1>0, <2>1 DEF NoneNewer
  <2> QED
    BY <1>3, <2>2 DEF Send, readerVars, fpgaVars, NoneNewer, NeverOlderBlock
<1>4. CASE ReadByte
  <2>1. /\ Len(up) >= 1 /\ Len(up') = Len(up) - 1
        /\ \A k \in 1 .. Len(up') : up'[k] = up[k + 1]
        /\ Len(nonce') = Len(nonce) + 1
        /\ \A k \in 1 .. Len(nonce) : nonce'[k] = nonce[k]
        /\ nonce'[Len(nonce) + 1] = up[1]
    BY <1>4, ReadsUp
  <2>2. \A k \in 1 .. Len(up') : up'[k].work <= block
    BY <1>0, <2>1 DEF NoneNewer
  <2>3. \A k \in 1 .. Len(nonce') : nonce'[k].work <= block
    BY <1>0, <2>1 DEF NoneNewer
  <2> QED
    BY <1>4, <2>2, <2>3 DEF ReadByte, writerVars, fpgaVars, NoneNewer, NeverOlderBlock
<1>5. CASE ReadTimeout
  BY <1>0, <1>5 DEF ReadTimeout, writerVars, fpgaVars, NoneNewer, NeverOlderBlock
<1>6. CASE Submit
  <2>1. NeverOlderBlock'
    BY <1>0, <1>6 DEF Submit, NoneNewer, NeverOlderBlock
  <2> QED
    BY <1>0, <1>6, <2>1 DEF Submit, writerVars, fpgaVars, NoneNewer
<1>7. CASE FpgaReceives
  <2>1. down # <<>> /\ down \in Seq(0 .. MaxRounds)
    BY <1>7 DEF FpgaReceives, HostType, HostTypeOK
  <2>2. /\ Len(Tail(down)) = Len(down) - 1
        /\ \A k \in 1 .. Len(Tail(down)) : Tail(down)[k] = down[k + 1]
    BY <2>1, HeadTailProperties
  <2>3. Head(down) = down[1] /\ Len(down) \in Nat \ {0}
    BY <2>1, EmptySeq
  <2>4. fpga' <= block /\ \A k \in 1 .. Len(down') : down'[k] <= block
    BY <1>0, <1>7, <2>2, <2>3 DEF FpgaReceives, NoneNewer
  <2> QED
    BY <1>7, <2>4 DEF FpgaReceives, readerVars, NoneNewer, NeverOlderBlock
<1>8. CASE FpgaFinds
  <2>1. /\ Len(up') = Len(up) + WORD
        /\ \A k \in 1 .. Len(up) : up'[k] = up[k]
        /\ \A k \in 1 .. WORD :
             up'[Len(up) + k] = [id |-> found + 1, work |-> fpga, idx |-> k]
    BY <1>8, FindsUp
  <2>2. ASSUME NEW k \in 1 .. Len(up') PROVE up'[k].work <= block
    <3>1. CASE k \in 1 .. Len(up)
      <4>1. up'[k] = up[k] /\ up[k].work <= block
        BY <2>1, <3>1 DEF NoneNewer
      <4> QED
        BY <4>1
    <3>2. CASE ~(k \in 1 .. Len(up))
      <4>1. PICK j \in 1 .. WORD : k = Len(up) + j
        <5>1. k - Len(up) \in 1 .. WORD /\ k = Len(up) + (k - Len(up))
          BY <1>0, <2>1, <3>2, HostAssumption DEF HostAssumption
        <5> QED
          BY <5>1
      <4>2. up'[k] = [id |-> found + 1, work |-> fpga, idx |-> j]
        BY <2>1, <4>1
      <4>3. up'[k].work = fpga
        BY <4>2
      <4> QED
        BY <4>3 DEF NoneNewer
    <3> QED
      BY <3>1, <3>2
  <2> QED
    BY <1>8, <2>2 DEF FpgaFinds, writerVars, readerVars, NoneNewer, NeverOlderBlock
<1>9. CASE UNCHANGED hostVars
  BY <1>9 DEF hostVars, writerVars, readerVars, fpgaVars, NoneNewer, NeverOlderBlock
<1> QED
  BY <1>1, <1>2, <1>3, <1>4, <1>5, <1>6, <1>7, <1>8, <1>9
  DEF HostNext, WriterStep, ReaderStep, FpgaStep

-----------------------------------------------------------------------------
(* The framing of the bytes.                                                *)

LEMMA UpFramedStep ==
  ASSUME HostType, HostType', UpFramed, [HostNext]_hostVars
  PROVE  UpFramed'
<1>0. /\ Len(up) \in Nat /\ Len(up') \in Nat /\ WORD \in Nat \ {0}
      /\ \A k \in 1 .. Len(up) : up[k] \in NonceByte
  BY UpType
<1>1. CASE UNCHANGED up
  BY <1>1 DEF UpFramed
<1>2. CASE ReadByte
  <2>1. /\ up' \in Seq(NonceByte)
        /\ Len(up) >= 1 /\ Len(up') = Len(up) - 1
        /\ \A k \in 1 .. Len(up') : up'[k] = up[k + 1]
    BY <1>2, ReadsUp
  <2>2. \A k \in 1 .. Len(up') - 1 :
          IF up'[k].idx < WORD THEN up'[k + 1] = NextByte(up'[k]) ELSE up'[k + 1].idx = 1
    <3>1. SUFFICES ASSUME NEW k \in 1 .. Len(up') - 1
                   PROVE  IF up'[k].idx < WORD THEN up'[k + 1] = NextByte(up'[k])
                                               ELSE up'[k + 1].idx = 1
      OBVIOUS
    <3>2. k + 1 \in 1 .. Len(up) - 1 /\ k \in 1 .. Len(up') /\ k + 1 \in 1 .. Len(up')
      BY <1>0, <2>1
    <3>3. up'[k] = up[k + 1] /\ up'[k + 1] = up[(k + 1) + 1]
      BY <2>1, <3>2
    <3> QED
      BY <3>2, <3>3 DEF UpFramed
  <2>3. ASSUME up' # <<>> PROVE up'[Len(up')].idx = WORD
    <3>1. Len(up') \in 1 .. Len(up') /\ Len(up') + 1 = Len(up) /\ up # <<>>
      BY <1>0, <1>2, <2>1, <2>3, EmptySeq DEF ReadByte
    <3>2. up'[Len(up')] = up[Len(up)]
      BY <2>1, <3>1
    <3> QED
      BY <3>1, <3>2 DEF UpFramed
  <2> QED
    BY <2>2, <2>3 DEF UpFramed
<1>3. CASE FpgaFinds
  <2>1. /\ up' \in Seq(NonceByte)
        /\ Len(up') = Len(up) + WORD
        /\ \A k \in 1 .. Len(up) : up'[k] = up[k]
        /\ \A k \in 1 .. WORD :
             up'[Len(up) + k] = [id |-> found + 1, work |-> fpga, idx |-> k]
    BY <1>3, FindsUp
  <2>2. ASSUME NEW k \in 1 .. Len(up') - 1
        PROVE  IF up'[k].idx < WORD THEN up'[k + 1] = NextByte(up'[k])
                                    ELSE up'[k + 1].idx = 1
    <3>1. CASE k < Len(up)
      <4>1. k \in 1 .. Len(up) - 1 /\ k \in 1 .. Len(up) /\ k + 1 \in 1 .. Len(up)
        BY <1>0, <3>1
      <4>2. up'[k] = up[k] /\ up'[k + 1] = up[k + 1]
        BY <2>1, <4>1
      <4> QED
        BY <4>1, <4>2 DEF UpFramed
    <3>2. CASE k = Len(up)
      <4>1. up # <<>> /\ k \in 1 .. Len(up) /\ 1 \in 1 .. WORD
        BY <1>0, <3>2, EmptySeq
      <4>2. up'[k] = up[Len(up)] /\ up[Len(up)].idx = WORD
        BY <2>1, <3>2, <4>1 DEF UpFramed
      <4>3. up'[k + 1] = [id |-> found + 1, work |-> fpga, idx |-> 1]
        BY <2>1, <3>2, <4>1
      <4>4. up'[k + 1].idx = 1 /\ ~(up'[k].idx < WORD)
        BY <1>0, <4>2, <4>3
      <4> QED
        BY <4>4
    <3>3. CASE k > Len(up)
      <4>1. /\ k - Len(up) \in 1 .. WORD /\ (k - Len(up)) + 1 \in 1 .. WORD
            /\ Len(up) + (k - Len(up)) = k
            /\ Len(up) + ((k - Len(up)) + 1) = k + 1
        BY <1>0, <2>1, <3>3
      <4>2. up'[k] = [id |-> found + 1, work |-> fpga, idx |-> k - Len(up)]
        BY <2>1, <4>1
      <4>3. up'[k + 1] = [id |-> found + 1, work |-> fpga, idx |-> (k - Len(up)) + 1]
        BY <2>1, <4>1
      <4>4. up'[k + 1] = NextByte(up'[k])
        BY <4>2, <4>3 DEF NextByte
      <4>5. up'[k].idx < WORD
        BY <1>0, <4>1, <4>2
      <4> QED
        BY <4>4, <4>5
    <3> QED
      BY <1>0, <3>1, <3>2, <3>3
  <2>3. up'[Len(up')].idx = WORD
    <3>1. up'[Len(up')] = [id |-> found + 1, work |-> fpga, idx |-> WORD]
      BY <1>0, <2>1
    <3> QED
      BY <3>1
  <2> QED
    BY <2>2, <2>3 DEF UpFramed
<1>4. UNCHANGED up \/ ReadByte \/ FpgaFinds
  BY DEF HostNext, WriterStep, ReaderStep, FpgaStep, GetWork, GetWorkError, Send, WaitGolden,
     WaitTimeout, Clear, ReadTimeout, Submit, SetGolden, FpgaReceives, hostVars
<1> QED
  BY <1>1, <1>2, <1>3, <1>4

LEMMA NonceFramedStep ==
  ASSUME HostType, HostType', UpFramed, ReadInv, [HostNext]_hostVars, ~partial'
  PROVE  NonceFramed'
<1>0. /\ Len(up) \in Nat /\ Len(up') \in Nat /\ WORD \in Nat \ {0}
      /\ Len(nonce) \in Nat /\ Len(nonce') \in Nat
      /\ \A k \in 1 .. Len(up) : up[k] \in NonceByte
      /\ \A k \in 1 .. Len(nonce) : nonce[k] \in NonceByte
      /\ Len(<<>>) = 0
  BY UpType, EmptySeq
<1>1. NonceFramed
  BY DEF ReadInv, HostNext, WriterStep, ReaderStep, FpgaStep, GetWork, GetWorkError, Send,
     WaitGolden, WaitTimeout, Clear, ReadByte, ReadTimeout, Submit, SetGolden,
     FpgaReceives, FpgaFinds, hostVars, readerVars, HostType
<1>2. CASE UNCHANGED <<up, nonce>>
  BY <1>1, <1>2 DEF NonceFramed
<1>3. CASE ReadByte
  <2>1. /\ up' \in Seq(NonceByte) /\ nonce' \in Seq(NonceByte)
        /\ Len(up) >= 1 /\ Len(up') = Len(up) - 1
        /\ \A k \in 1 .. Len(up') : up'[k] = up[k + 1]
        /\ Len(nonce') = Len(nonce) + 1
        /\ \A k \in 1 .. Len(nonce) : nonce'[k] = nonce[k]
        /\ nonce'[Len(nonce) + 1] = up[1]
    BY <1>3, ReadsUp
  <2>2. Len(nonce) < WORD /\ up # <<>>
    BY <1>3 DEF ReadInv, ReadByte
  <2>3. up[1] \in NonceByte /\ up[1].idx \in 1 .. WORD
    BY <1>0, <2>1 DEF NonceByte
  <2>4. up[1] = [nonce'[1] EXCEPT !.idx = Len(nonce')]
    <3>1. CASE Len(nonce) = 0
      BY <1>1, <2>1, <2>2, <2>3, <3>1 DEF NonceFramed, NonceByte
    <3>2. CASE Len(nonce) # 0
      <4>1. Len(nonce) \in 1 .. WORD - 1 /\ 1 \in 1 .. Len(nonce)
            /\ Len(nonce) \in 1 .. Len(nonce)
        BY <1>0, <2>2, <3>2
      <4>2. up[1] = NextByte(nonce[Len(nonce)])
            /\ nonce[Len(nonce)] = [nonce[1] EXCEPT !.idx = Len(nonce)]
            /\ nonce'[1] = nonce[1] /\ nonce[1] \in NonceByte
        BY <1>0, <1>1, <2>1, <4>1 DEF NonceFramed
      <4> QED
        BY <2>1, <4>2 DEF NextByte, NonceByte
    <3> QED
      BY <3>1, <3>2
  <2>5. up[1].idx = Len(nonce')
    <3>1. nonce'[1] \in NonceByte
      BY <1>0, <2>1, ElementOfSeq
    <3> QED
      BY <2>4, <3>1 DEF NonceByte
  <2>6. ASSUME NEW k \in 1 .. Len(nonce')
        PROVE  nonce'[k] = [nonce'[1] EXCEPT !.idx = k]
    <3>1. CASE k = Len(nonce')
      BY <2>1, <2>4, <3>1
    <3>2. CASE k # Len(nonce')
      <4>1. k \in 1 .. Len(nonce) /\ 1 \in 1 .. Len(nonce)
        BY <1>0, <2>1, <3>2
      <4> QED
        BY <1>1, <2>1, <4>1 DEF NonceFramed
    <3> QED
      BY <3>1, <3>2
  <2>7. up' # <<>> => /\ 1 \in 1 .. Len(up) - 1 /\ up'[1] = up[1 + 1]
    <3>1. up' # <<>> => Len(up') >= 1
      BY <1>0, <2>1, EmptySeq
    <3> QED
      BY <1>0, <2>1, <3>1
  <2>8. ASSUME Len(nonce') \in 1 .. WORD - 1
        PROVE  up' # <<>> /\ up'[1] = NextByte(nonce'[Len(nonce')])
    <3>1. up[1].idx < WORD
      BY <1>0, <2>5, <2>8
    <3>2. up' # <<>>
      <4>1. up[Len(up)].idx = WORD
        BY <2>2 DEF UpFramed
      <4>2. Len(up) # 1
        BY <1>0, <3>1, <4>1
      <4> QED
        BY <1>0, <2>1, <4>2
    <3>3. nonce'[Len(nonce')] = up[1]
      BY <2>1
    <3> QED
      BY <2>7, <3>1, <3>2, <3>3 DEF UpFramed
  <2>9. ASSUME Len(nonce') \in {0, WORD}, up' # <<>> PROVE up'[1].idx = 1
    <3>1. ~(up[1].idx < WORD)
      BY <1>0, <2>1, <2>5, <2>9
    <3> QED
      BY <2>7, <2>9, <3>1 DEF UpFramed
  <2> QED
    BY <2>6, <2>8, <2>9 DEF NonceFramed
<1>4. CASE ReadTimeout \/ Submit
  <2>1. nonce' = <<>> /\ Len(nonce') = 0 /\ up' = up
    BY <1>0, <1>4 DEF ReadTimeout, Submit
  <2>2. Len(nonce) \in {0, WORD}
    BY <1>0, <1>4 DEF ReadTimeout, Submit, ReadInv
  <2> QED
    BY <1>0, <1>1, <2>1, <2>2 DEF NonceFramed
<1>5. CASE FpgaFinds
  <2>1. /\ Len(up') = Len(up) + WORD
        /\ \A k \in 1 .. Len(up) : up'[k] = up[k]
        /\ \A k \in 1 .. WORD :
             up'[Len(up) + k] = [id |-> found + 1, work |-> fpga, idx |-> k]
    BY <1>5, FindsUp
  <2>2. nonce' = nonce
    BY <1>5 DEF FpgaFinds, readerVars
  <2>3. up # <<>> => up'[1] = up[1]
    BY <1>0, <2>1, EmptySeq DEF HostType, HostTypeOK
  <2>4. up = <<>> => up'[1].idx = 1
    BY <1>0, <2>1
  <2>5. up' # <<>>
    BY <1>0, <2>1
  <2> QED
    BY <1>1, <2>2, <2>3, <2>4, <2>5 DEF NonceFramed
<1>6. UNCHANGED <<up, nonce>> \/ ReadByte \/ ReadTimeout \/ Submit \/ FpgaFinds
  BY DEF HostNext, WriterStep, ReaderStep, FpgaStep, GetWork, GetWorkError, Send, WaitGolden,
     WaitTimeout, Clear, SetGolden, FpgaReceives, hostVars, readerVars
<1> QED
  BY <1>2, <1>3, <1>4, <1>5, <1>6

(* A framed sequence as long as a nonce is a nonce.                         *)
LEMMA FramedIsWord ==
  ASSUME NEW n \in Seq(NonceByte), Len(n) = WORD,
         \A k \in 1 .. Len(n) : n[k] = [n[1] EXCEPT !.idx = k]
  PROVE  \E id \in 1 .. MaxNonces, w \in 0 .. MaxRounds : n = Word(id, w)
<1>0. WORD \in Nat \ {0}
  BY HostAssumption DEF HostAssumption
<1>1. n[1] \in NonceByte
  BY <1>0, ElementOfSeq
<1>2. n[1].id \in 1 .. MaxNonces /\ n[1].work \in 0 .. MaxRounds
  BY <1>1 DEF NonceByte
<1>3. ASSUME NEW k \in 1 .. WORD
      PROVE  n[k] = [id |-> n[1].id, work |-> n[1].work, idx |-> k]
  BY <1>1, <1>3 DEF NonceByte
<1>4. n \in [1 .. WORD -> NonceByte]
  BY LenProperties
<1>5. n = Word(n[1].id, n[1].work)
  BY <1>3, <1>4 DEF Word
<1> QED
  BY <1>2, <1>5

LEMMA ReadInvStep ==
  ASSUME HostType, HostType', UpFramed, ReadInv, [HostNext]_hostVars
  PROVE  ReadInv'
<1>0. Len(nonce) \in Nat /\ WORD \in Nat \ {0} /\ Len(<<>>) = 0
  BY UpType, EmptySeq
<1>1. ~partial' => NonceFramed'
  BY NonceFramedStep
<1>2. (reader = "read" => Len(nonce) < WORD)'
  BY <1>0, ReadsUp DEF ReadInv, HostNext, WriterStep, ReaderStep, FpgaStep, GetWork,
     GetWorkError, Send, WaitGolden, WaitTimeout, Clear, ReadByte, ReadTimeout, Submit,
     SetGolden, FpgaReceives, FpgaFinds, hostVars, readerVars
<1>3. (reader = "submit" => Len(nonce) = WORD)'
  BY <1>0, ReadsUp DEF ReadInv, HostNext, WriterStep, ReaderStep, FpgaStep, GetWork,
     GetWorkError, Send, WaitGolden, WaitTimeout, Clear, ReadByte, ReadTimeout, Submit,
     SetGolden, FpgaReceives, FpgaFinds, hostVars, readerVars
<1>4. (reader = "set" => nonce = <<>>)'
  BY DEF ReadInv, HostNext, WriterStep, ReaderStep, FpgaStep, GetWork, GetWorkError, Send,
     WaitGolden, WaitTimeout, Clear, ReadByte, ReadTimeout, Submit, SetGolden,
     FpgaReceives, FpgaFinds, hostVars, readerVars
<1>5. WholeNonce'
  <2>1. CASE Submit
    <3>1. Len(nonce) = WORD /\ nonce \in Seq(NonceByte)
      BY <2>1 DEF Submit, ReadInv, HostType, HostTypeOK
    <3>2. ~partial => \E id \in 1 .. MaxNonces, w \in 0 .. MaxRounds :
                        nonce = Word(id, w)
      BY <3>1, FramedIsWord DEF ReadInv, NonceFramed
    <3> QED
      BY <2>1, <3>1, <3>2 DEF Submit, ReadInv, WholeNonce
  <2>2. (submissions' = submissions /\ (partial => partial')) \/ Submit
    BY DEF HostNext, WriterStep, ReaderStep, FpgaStep, GetWork, GetWorkError, Send,
       WaitGolden, WaitTimeout, Clear, ReadByte, ReadTimeout, SetGolden,
       FpgaReceives, FpgaFinds, hostVars, readerVars
  <2> QED
    BY <2>1, <2>2 DEF ReadInv, WholeNonce
<1> QED
  BY <1>1, <1>2, <1>3, <1>4, <1>5 DEF ReadInv

-----------------------------------------------------------------------------
LEMMA InitHostInv == HostInit => HostInv
<1> SUFFICES ASSUME HostInit PROVE HostInv
  OBVIOUS
<1>0. /\ WORD \in Nat \ {0} /\ MaxRounds \in Nat /\ MaxNonces \in Nat
      /\ <<>> \in Seq(NonceByte) /\ <<>> \in Seq(0 .. MaxRounds)
      /\ Len(<<>>) = 0
  BY HostAssumption, EmptySeq DEF HostAssumption
<1>1. HostType
  <2>1. up \in Seq(NonceByte) /\ nonce \in Seq(NonceByte) /\ down \in Seq(0 .. MaxRounds)
    BY <1>0 DEF HostInit
  <2>2. Len(nonce) <= WORD
    BY <1>0 DEF HostInit
  <2>3. submissions = {} /\ rounds = 0 /\ works = 0 /\ found = 0 /\ block = 0 /\ fpga = 0
    BY DEF HostInit
  <2>4. /\ writer \in {"getwork", "send", "wait", "clear"}
        /\ reader \in {"read", "submit", "set"}
        /\ golden \in BOOLEAN /\ partial \in BOOLEAN
    BY DEF HostInit
  <2> QED
    BY <1>0, <2>1, <2>2, <2>3, <2>4 DEF HostType, HostTypeOK
<1>2. NoneNewer
  BY <1>0 DEF HostInit, NoneNewer, NeverOlderBlock
<1>3. UpFramed
  BY <1>0 DEF HostInit, UpFramed
<1>4. ReadInv
  BY <1>0 DEF HostInit, ReadInv, NonceFramed, WholeNonce
<1> QED
  BY <1>1, <1>2, <1>3, <1>4 DEF HostInv

(* HostInv holds in every state: nothing anywhere is newer than             *)
(* writer.block, and the bytes in flight are framed as they were sent.      *)
THEOREM HostInductive == HostSpec => []HostInv
<1>1. HostInv /\ [HostNext]_hostVars => HostInv'
  BY HostTypeStep, NoneNewerStep, UpFramedStep, ReadInvStep DEF HostInv
<1> QED
  BY InitHostInv, <1>1, PTL DEF HostSpec

(* Every variable of the host program keeps its type.                       *)
THEOREM HostTypeCorrect == HostSpec => []HostTypeOK
<1>1. HostInv => HostTypeOK
  BY DEF HostInv, HostType
<1> QED
  BY HostInductive, <1>1, PTL

(* The Reader never hands over less or more than the bytes of a nonce,      *)
(* wherever its reads time out; and they are one nonce as it was sent until *)
(* a read has timed out in the middle of one (ltcminer.py 77-83).           *)
THEOREM NoncesAreWhole == HostSpec => []WholeNonce
<1>1. HostInv => WholeNonce
  BY DEF HostInv, ReadInv
<1> QED
  BY HostInductive, <1>1, PTL

(* The block of a submission is never older than the work that the nonce    *)
(* was found for (ltcminer.py 82, 105, 144).                                *)
THEOREM BlockNeverOlder == HostSpec => []NeverOlderBlock
<1>1. HostInv => NeverOlderBlock
  BY DEF HostInv, NoneNewer
<1> QED
  BY HostInductive, <1>1, PTL

-----------------------------------------------------------------------------
(* golden is only down while a nonce is unserved if the Writer is already   *)
(* on its way to the next getwork.                                          *)
GoldenInv == unserved /\ writer \in {"send", "wait"} => golden

(* The Writer never waits out askrate when a nonce came in since its last   *)
(* getwork, although the Event is cleared after the wait (ltcminer.py       *)
(* 146-149).                                                                *)
THEOREM GoldenIsServed == HostSpec => GoldenServed
<1>1. HostInit => GoldenInv
  BY DEF HostInit, GoldenInv
<1>2. GoldenInv /\ [HostNext]_hostVars => GoldenInv'
  BY DEF GoldenInv, HostNext, WriterStep, ReaderStep, FpgaStep, GetWork, GetWorkError, Send,
     WaitGolden, WaitTimeout, Clear, ReadByte, ReadTimeout, Submit, SetGolden,
     FpgaReceives, FpgaFinds, hostVars, writerVars, readerVars, fpgaVars
<1>3. GoldenInv /\ [HostNext]_hostVars
        => [writer = "wait" /\ writer' = "getwork" => ~unserved]_hostVars
  BY DEF GoldenInv, HostNext, WriterStep, ReaderStep, FpgaStep, GetWork, GetWorkError, Send,
     WaitGolden, WaitTimeout, Clear, ReadByte, ReadTimeout, Submit, SetGolden,
     FpgaReceives, FpgaFinds, hostVars, writerVars, readerVars, fpgaVars
<1> QED
  BY <1>1, <1>2, <1>3, PTL DEF HostSpec, GoldenServed

=============================================================================
