--------------------------- MODULE HubCoreProofs ---------------------------
(***************************************************************************)
(* Proofs about the uplink for every number of ports, every synchroniser   *)
(* delay and every number of nonces.  IInv of HubCore is the inductive     *)
(* invariant; its parts are preserved by different always blocks, so there *)
(* is one lemma for each block or part, and Next is taken apart once.      *)
(***************************************************************************)
EXTENDS HubCore, TLAPS

UartStep == UartStart \/ UartShift \/ UartDone

(* An edge is one step of each block.                                       *)
LEMMA StepParts ==
  ASSUME UplinkNext
  PROVE  \E finding \in SUBSET Ports :
           Slaves(finding) /\ HubStep /\ TxStep /\ UartStep
BY DEF UplinkNext, Edge, EdgeByteDone, Clock, UartStep

-----------------------------------------------------------------------------
(* Types, block by block.                                                   *)

LEMMA SlavesType ==
  ASSUME UplinkTypeOK, NEW finding \in SUBSET Ports, Slaves(finding)
  PROVE  slave_nonces' \in [Ports -> Nat] /\ sync' \in [Ports -> Nat]
<1>1. slave_nonces' \in [Ports -> Nat]
  BY DEF UplinkTypeOK, Slaves
<1>2. sync' \in [Ports -> Nat]
  BY HubAssumption DEF UplinkTypeOK, Slaves, HubAssumption
<1> QED
  BY <1>1, <1>2

LEMMA HubType ==
  ASSUME UplinkTypeOK, HubStep
  PROVE  /\ new_nonces_flag' \in [Ports -> BOOLEAN]
         /\ port_counter' \in Ports
         /\ slave_nonces_shifted' \in Nonce
         /\ clear_nonces' \in [Ports -> BOOLEAN]
         /\ serial_send_reg' \in BOOLEAN
<1>1. RaiseFlags
  BY DEF HubStep, HubSend, HubQuiet
<1>2. new_nonces_flag' \in [Ports -> BOOLEAN]
  BY <1>1 DEF UplinkTypeOK, RaiseFlags
<1>3. port_counter' \in Ports
  BY <1>1, HubAssumption DEF UplinkTypeOK, RaiseFlags, Ports, NextPort, HubAssumption
<1>4. slave_nonces_shifted' \in Nonce
  <2>1. CASE HubSend
    BY <2>1 DEF UplinkTypeOK, HubSend, Nonce
  <2>2. CASE HubQuiet
    BY <2>2 DEF UplinkTypeOK, HubQuiet
  <2> QED
    BY <2>1, <2>2 DEF HubStep
<1>5. clear_nonces' \in [Ports -> BOOLEAN] /\ serial_send_reg' \in BOOLEAN
  BY DEF UplinkTypeOK, HubStep, HubSend, HubQuiet
<1> QED
  BY <1>2, <1>3, <1>4, <1>5

LEMMA TxType ==
  ASSUME UplinkTypeOK, ByteInv, TxStep
  PROVE  /\ mux_state' \in {0} \cup 8 .. 15
         /\ word_copy' \in Nonce
         /\ bytes_left' \in 0 .. 4
         /\ serial_start' \in BOOLEAN
         /\ out_byte' \in Byte
         /\ words' \in [Ports -> Nat]
         /\ last' \in [Ports -> Nat]
<1>1. CASE TxLoad
  <2>1. slave_nonces_shifted.port \in Ports /\ slave_nonces_shifted.seq \in Nat
    BY DEF UplinkTypeOK, Nonce
  <2>2. words' \in [Ports -> Nat] /\ last' \in [Ports -> Nat]
    BY <1>1, <2>1 DEF UplinkTypeOK, TxLoad
  <2> QED
    BY <1>1, <2>2 DEF UplinkTypeOK, TxLoad
<1>2. CASE TxByte
  <2>1. bytes_left \in 1 .. 4
    BY <1>2 DEF UplinkTypeOK, ByteInv, TxByte
  <2>2. out_byte' \in Byte
    BY <1>2, <2>1 DEF UplinkTypeOK, TxByte, Byte
  <2>3. bytes_left' \in 0 .. 4 /\ mux_state' \in 8 .. 15
    BY <1>2, <2>1 DEF TxByte
  <2> QED
    BY <1>2, <2>2, <2>3 DEF UplinkTypeOK, TxByte
<1>3. CASE TxWait
  <2>1. mux_state' \in {0} \cup 8 .. 15
    BY <1>3 DEF TxWait
  <2> QED
    BY <1>3, <2>1 DEF UplinkTypeOK, TxWait
<1>4. CASE TxHold
  BY <1>4 DEF UplinkTypeOK, TxHold, txVars
<1> QED
  BY <1>1, <1>2, <1>3, <1>4 DEF TxStep

LEMMA UartType ==
  ASSUME UplinkTypeOK, UartStep
  PROVE  tx_idle' \in BOOLEAN /\ outgoing' \in Byte /\ hostbuf' \in Seq(Byte)
<1>1. CASE UartStart
  BY <1>1 DEF UplinkTypeOK, UartStart
<1>2. CASE UartShift
  BY <1>2 DEF UplinkTypeOK, UartShift, uartVars
<1>3. CASE UartDone
  BY <1>3 DEF UplinkTypeOK, UartDone
<1> QED
  BY <1>1, <1>2, <1>3 DEF UartStep

LEMMA TypeStep ==
  ASSUME UplinkTypeOK, ByteInv, UplinkNext
  PROVE  UplinkTypeOK'
<1>1. PICK finding \in SUBSET Ports :
        Slaves(finding) /\ HubStep /\ TxStep /\ UartStep
  BY StepParts
<1>2. slave_nonces' \in [Ports -> Nat] /\ sync' \in [Ports -> Nat]
  BY <1>1, SlavesType
<1> QED
  BY <1>1, <1>2, HubType, TxType, UartType DEF UplinkTypeOK

-----------------------------------------------------------------------------
(* The bytes on the wire.                                                   *)

(* serial_transmit does not strobe the UART while it shifts.                *)
LEMMA ByteInvNoByteDropped == UplinkTypeOK /\ ByteInv => NoByteDropped
BY DEF UplinkTypeOK, ByteInv, NoByteDropped

(* The host keeps the bytes it has until the next one arrives.              *)
LEMMA HostHasKept ==
  ASSUME NEW n \in 0 .. 4, HostHas(n), UNCHANGED <<hostbuf, word_copy>>
  PROVE  HostHas(n)'
BY DEF HostHas

(* The byte that ends is the next one of its word.                          *)
LEMMA HostHasNext ==
  ASSUME NEW n \in 0 .. 3, UplinkTypeOK, HostHas(n), UartDone,
         outgoing = [nonce |-> word_copy, idx |-> n + 1],
         word_copy' = word_copy
  PROVE  HostHas(n + 1)'
<1> hostbuf \in Seq(Byte)
  BY DEF UplinkTypeOK
<1> hostbuf' = IF Len(hostbuf) = 4 THEN <<outgoing>> ELSE Append(hostbuf, outgoing)
  BY DEF UartDone
<1>1. CASE n = 0
  <2>1. Len(hostbuf) \in {0, 4}
    BY <1>1 DEF HostHas
  <2>2. Len(hostbuf') = 1 /\ hostbuf'[1] = outgoing
    BY <2>1
  <2> QED
    BY <1>1, <2>2 DEF HostHas
<1>2. CASE n # 0
  <2>1. Len(hostbuf) = n
    BY <1>2 DEF HostHas
  <2>2. Len(hostbuf') = n + 1
    BY <2>1
  <2>3. \A k \in 1 .. n : hostbuf'[k] = hostbuf[k]
    BY <2>1
  <2>4. hostbuf'[n + 1] = outgoing
    BY <2>1
  <2>5. \A k \in 1 .. n + 1 : hostbuf'[k] = [nonce |-> word_copy, idx |-> k]
    BY <1>2, <2>3, <2>4 DEF HostHas
  <2> QED
    BY <2>2, <2>5 DEF HostHas
<1> QED
  BY <1>1, <1>2

-----------------------------------------------------------------------------
(* The bytes on the wire, phase by phase.                                   *)

LEMMA ByteStep ==
  ASSUME UplinkTypeOK, UplinkTypeOK', ByteInv, TxStep, UartStep
  PROVE  ByteInv'
<1> USE DEF TxD_ready
<1>1. CASE TxLoad
  <2>1. mux_state = 0 /\ tx_idle /\ ~serial_start /\ HostHas(0)
    BY <1>1 DEF TxLoad, serial_busy, ByteInv
  <2>2. UNCHANGED <<tx_idle, hostbuf>>
    BY <2>1 DEF UartStep, UartStart, UartDone, UartShift, uartVars
  <2>3. HostHas(0)'
    BY <2>1, <2>2 DEF HostHas
  <2> QED
    BY <1>1, <2>1, <2>2, <2>3 DEF TxLoad, ByteInv
<1>2. CASE TxByte
  <2>1. /\ tx_idle /\ ~serial_start
        /\ 2 * bytes_left = 16 - mux_state
        /\ HostHas(4 - bytes_left)
    BY <1>2 DEF TxByte, ByteInv
  <2>2. UNCHANGED <<tx_idle, hostbuf>>
    BY <2>1 DEF UartStep, UartStart, UartDone, UartShift, uartVars
  <2>3. bytes_left \in 1 .. 4 /\ bytes_left' = bytes_left - 1 /\ word_copy' = word_copy
    BY <1>2, <2>1 DEF TxByte, UplinkTypeOK
  <2>4. 4 - bytes_left = 3 - bytes_left'
    BY <2>3
  <2>5. HostHas(3 - bytes_left)'
    BY <2>1, <2>2, <2>3, <2>4, HostHasKept
  <2>6. out_byte' = CurrentByte'
    BY <1>2, <2>3 DEF TxByte, CurrentByte
  <2>7. mux_state' \in {9, 11, 13, 15} /\ 2 * bytes_left' = 15 - mux_state'
    BY <1>2, <2>1, <2>3 DEF TxByte
  <2> QED
    BY <1>2, <2>1, <2>2, <2>5, <2>6, <2>7 DEF TxByte, ByteInv
<1>3. CASE TxWait
  <2>0. /\ mux_state \in {9, 11, 13, 15}
        /\ 2 * bytes_left = 15 - mux_state
        /\ bytes_left \in 0 .. 3
        /\ UNCHANGED <<word_copy, bytes_left, out_byte>>
        /\ ~serial_start'
    BY <1>3 DEF TxWait, ByteInv, UplinkTypeOK
  <2>1. CASE serial_start
    <3>1. tx_idle /\ out_byte = CurrentByte /\ HostHas(3 - bytes_left)
      BY <2>0, <2>1 DEF ByteInv
    <3>2. ~tx_idle' /\ outgoing' = out_byte /\ hostbuf' = hostbuf
      BY <2>1, <3>1 DEF UartStep, UartStart, UartDone, UartShift
    <3>3. mux_state' = mux_state
      BY <1>3, <2>1 DEF TxWait
    <3>4. HostHas(3 - bytes_left)'
      BY <2>0, <3>1, <3>2, HostHasKept
    <3>5. outgoing' = CurrentByte'
      BY <2>0, <3>1, <3>2 DEF CurrentByte
    <3> QED
      BY <2>0, <3>2, <3>3, <3>4, <3>5 DEF ByteInv
  <2>2. CASE ~serial_start /\ ~tx_idle
    <3>1. outgoing = CurrentByte /\ HostHas(3 - bytes_left)
      BY <2>0, <2>2 DEF ByteInv
    <3>2. mux_state' = mux_state
      BY <1>3, <2>2 DEF TxWait
    <3>3. CASE UartDone
      <4>1. HostHas(3 - bytes_left + 1)'
        BY <2>0, <3>1, <3>3, HostHasNext DEF CurrentByte
      <4>2. HostHas(4 - bytes_left)'
        BY <2>0, <4>1
      <4> QED
        BY <2>0, <3>2, <3>3, <4>2 DEF ByteInv, UartDone
    <3>4. CASE UartShift
      <4>1. ~tx_idle' /\ outgoing' = outgoing /\ hostbuf' = hostbuf
        BY <2>2, <3>4 DEF UartShift, uartVars
      <4>2. HostHas(3 - bytes_left)' /\ outgoing' = CurrentByte'
        BY <2>0, <3>1, <4>1, HostHasKept DEF CurrentByte
      <4> QED
        BY <2>0, <3>2, <4>1, <4>2 DEF ByteInv
    <3> QED
      BY <2>2, <3>3, <3>4 DEF UartStep, UartStart
  <2>3. CASE ~serial_start /\ tx_idle
    <3>1. HostHas(4 - bytes_left)
      BY <2>0, <2>3 DEF ByteInv
    <3>2. tx_idle' /\ hostbuf' = hostbuf
      BY <2>3 DEF UartStep, UartStart, UartDone, UartShift, uartVars
    <3>3. HostHas(4 - bytes_left)'
      BY <2>0, <3>1, <3>2, HostHasKept
    <3>4. mux_state' = (mux_state + 1) % 16
      BY <1>3, <2>3 DEF TxWait
    <3>5. CASE mux_state = 15
      <4>1. bytes_left = 0 /\ mux_state' = 0
        BY <2>0, <3>4, <3>5
      <4>2. HostHas(4)'
        BY <2>0, <3>3, <4>1
      <4>3. HostHas(0)'
        BY <4>2 DEF HostHas
      <4> QED
        BY <2>0, <3>2, <4>1, <4>3 DEF ByteInv
    <3>6. CASE mux_state # 15
      <4>1. mux_state' \in {10, 12, 14} /\ 2 * bytes_left' = 16 - mux_state'
        BY <2>0, <3>4, <3>6
      <4>2. mux_state' # 0 /\ mux_state' \notin {9, 11, 13, 15}
        BY <4>1
      <4> QED
        BY <2>0, <3>2, <3>3, <4>1, <4>2, Zenon DEF ByteInv
    <3> QED
      BY <3>5, <3>6
  <2> QED
    BY <2>1, <2>2, <2>3
<1>4. CASE TxHold
  <2>1. UNCHANGED <<mux_state, word_copy, bytes_left, serial_start>>
    BY <1>4 DEF TxHold, txVars
  <2>2. tx_idle /\ ~serial_start /\ mux_state = 0 /\ HostHas(0)
    BY <1>4 DEF TxHold, ByteInv
  <2>3. UNCHANGED <<tx_idle, hostbuf>>
    BY <2>2 DEF UartStep, UartStart, UartDone, UartShift, uartVars
  <2> QED
    BY <2>1, <2>2, <2>3 DEF ByteInv, HostHas
<1> QED
  BY <1>1, <1>2, <1>3, <1>4 DEF TxStep

(* Whatever the host has of a word is a prefix of one nonce.                *)
LEMMA IntactStep ==
  ASSUME UplinkTypeOK, UplinkTypeOK', ByteInv, ByteInv', WordsIntact, TxStep, UartStep
  PROVE  WordsIntact'
<1>1. CASE hostbuf' = hostbuf
  BY <1>1 DEF WordsIntact
<1>2. CASE UartDone
  <2>1. /\ mux_state \in {9, 11, 13, 15}
        /\ 2 * bytes_left = 15 - mux_state
        /\ bytes_left \in 0 .. 3
        /\ outgoing = CurrentByte
        /\ HostHas(3 - bytes_left)
    BY <1>2 DEF UartDone, ByteInv, UplinkTypeOK
  <2>2. word_copy' = word_copy
    BY <2>1 DEF TxStep, TxLoad, TxByte, TxWait, TxHold, txVars, serial_busy
  <2>3. PICK n \in 0 .. 3 : n = 3 - bytes_left
    BY <2>1
  <2>4. outgoing = [nonce |-> word_copy, idx |-> n + 1] /\ HostHas(n)
    BY <2>1, <2>3 DEF CurrentByte
  <2>5. HostHas(n + 1)'
    BY <1>2, <2>2, <2>4, HostHasNext
  <2>6. /\ Len(hostbuf') = n + 1
        /\ \A k \in 1 .. n + 1 : hostbuf'[k] = [nonce |-> word_copy', idx |-> k]
    BY <2>5 DEF HostHas
  <2>7. hostbuf'[1].nonce = word_copy'
    BY <2>6
  <2> QED
    BY <2>6, <2>7 DEF WordsIntact
<1> QED
  BY <1>1, <1>2 DEF UartStep, UartStart, UartShift, uartVars

-----------------------------------------------------------------------------
(* The hub's selections and the count of nonces.                            *)

LEMMA SelectStep ==
  ASSUME UplinkTypeOK, UplinkTypeOK', SelectInv, HubStep, TxStep
  PROVE  SelectInv'
<1>1. CASE HubSend
  <2>1. mux_state = 0 /\ serial_send_reg' /\ port_counter \in Ports
    BY <1>1 DEF HubSend, serial_busy, UplinkTypeOK
  <2>2. CASE TxLoad
    BY <2>1, <2>2 DEF TxLoad, SelectInv
  <2>3. CASE ~serial_send_reg
    <3>1. mux_state' = 0
      BY <2>1, <2>3 DEF TxStep, TxLoad, TxByte, TxWait, TxHold, txVars
    <3>2. \A i \in Ports : ~clear_nonces[i]
      BY <2>3 DEF SelectInv
    <3>3. \A i \in Ports : clear_nonces'[i] => i = port_counter
      BY <1>1, <3>2 DEF HubSend, UplinkTypeOK
    <3>4. slave_nonces_shifted'.port = port_counter
      BY <1>1 DEF HubSend
    <3> QED
      BY <2>1, <3>1, <3>3, <3>4 DEF SelectInv
  <2> QED
    BY <2>1, <2>2, <2>3 DEF TxStep, TxByte, TxWait, TxHold
<1>2. CASE HubQuiet
  BY <1>2 DEF HubQuiet, SelectInv
<1> QED
  BY <1>1, <1>2 DEF HubStep

LEMMA OneValue ==
  ASSUME NEW b \in BOOLEAN
  PROVE  One(b) \in {0, 1} /\ (b <=> One(b) = 1)
BY DEF One

(* Two places hold no more than two others, if they are filled from them.   *)
LEMMA OneSum ==
  ASSUME NEW x \in BOOLEAN, NEW y \in BOOLEAN,
         NEW p \in BOOLEAN, NEW q \in BOOLEAN,
         x \/ y => p \/ q, x /\ y => p /\ q
  PROVE  One(x) + One(y) <= One(p) + One(q)
<1>0. One(x) \in {0, 1} /\ One(y) \in {0, 1} /\ One(p) \in {0, 1} /\ One(q) \in {0, 1}
  BY DEF One
<1>1. CASE p /\ q
  <2>1. One(p) = 1 /\ One(q) = 1
    BY <1>1 DEF One
  <2> QED
    BY <1>0, <2>1
<1>2. CASE ~(p \/ q)
  <2>1. One(x) = 0 /\ One(y) = 0
    BY <1>2 DEF One
  <2> QED
    BY <1>0, <2>1
<1>3. CASE (p \/ q) /\ ~(p /\ q)
  <2>1. One(p) = 1 \/ One(q) = 1
    BY <1>3 DEF One
  <2>2. One(x) = 0 \/ One(y) = 0
    BY <1>3 DEF One
  <2> QED
    BY <1>0, <2>1, <2>2
<1> QED
  BY <1>1, <1>2, <1>3

(* Where port i's nonces are moves, in each case, without being copied.     *)
LEMMA CountStep ==
  ASSUME UplinkTypeOK, SelectInv, CountInv,
         NEW finding \in SUBSET Ports, Slaves(finding), HubStep, TxStep
  PROVE  CountInv'
<1> SUFFICES ASSUME NEW i \in Ports
             PROVE  words'[i] + One(InFlight(i)')
                      + One(new_nonces_flag'[i] /\ ~clear_nonces'[i])
                      + One(sync'[i] > 0) <= slave_nonces'[i]
  BY DEF CountInv
<1> DEFINE pending == new_nonces_flag[i] /\ ~clear_nonces[i]
           flight == InFlight(i)
<1>0. /\ words[i] \in Nat /\ slave_nonces[i] \in Nat /\ sync[i] \in Nat
      /\ new_nonces_flag[i] \in BOOLEAN /\ clear_nonces[i] \in BOOLEAN
      /\ words[i] + One(flight) + One(pending) + One(sync[i] > 0) <= slave_nonces[i]
  BY DEF UplinkTypeOK, CountInv
(* The slave: a find adds a nonce and its strobe, a strobe ends in a flag.  *)
<1>1. slave_nonces'[i] - One(sync'[i] > 0)
        >= slave_nonces[i] - One(sync[i] > 0) + One(sync[i] = 1)
  <2>1. CASE i \in finding
    <3>1. sync[i] <= 1 /\ slave_nonces'[i] = slave_nonces[i] + 1 /\ sync'[i] > 0
      BY <2>1, HubAssumption DEF Slaves, HubAssumption
    <3> QED
      BY <1>0, <3>1 DEF One
  <2>2. CASE i \notin finding
    <3>1. /\ slave_nonces'[i] = slave_nonces[i]
          /\ sync'[i] = IF sync[i] = 0 THEN 0 ELSE sync[i] - 1
      BY <2>2 DEF Slaves
    <3> QED
      BY <1>0, <3>1 DEF One
  <2> QED
    BY <2>1, <2>2
(* serial_transmit: a loaded word is one that was on its way.               *)
<1>2. words'[i] = words[i] + One(flight)
  <2>1. CASE TxLoad
    <3>1. serial_send_reg /\ mux_state = 0
      BY <2>1 DEF TxLoad, serial_busy
    <3>2. CASE slave_nonces_shifted.port = i
      <4>1. words'[i] = words[i] + 1
        BY <2>1, <3>2 DEF TxLoad, UplinkTypeOK
      <4>2. flight
        BY <3>1, <3>2 DEF InFlight
      <4> QED
        BY <4>1, <4>2 DEF One
    <3>3. CASE slave_nonces_shifted.port # i
      <4>1. words'[i] = words[i]
        BY <2>1, <3>3 DEF TxLoad, UplinkTypeOK
      <4>2. ~flight
        BY <3>3 DEF InFlight
      <4> QED
        BY <1>0, <4>1, <4>2 DEF One
    <3> QED
      BY <3>2, <3>3
  <2>2. CASE ~TxLoad
    <3>1. words' = words
      BY <2>2 DEF TxStep, TxByte, TxWait, TxHold, txVars
    <3>2. ~flight
      BY <2>2 DEF TxStep, TxByte, TxWait, TxHold, InFlight
    <3> QED
      BY <1>0, <3>1, <3>2 DEF One
  <2> QED
    BY <2>1, <2>2
(* hub_core: only a flagged, not yet selected nonce gets on its way.        *)
<1>3. new_nonces_flag'[i] = ((new_nonces_flag[i] /\ ~clear_nonces[i]) \/ sync[i] = 1)
  BY DEF HubStep, HubSend, HubQuiet, RaiseFlags, new_nonces
<1> DEFINE pending2 == new_nonces_flag'[i] /\ ~clear_nonces'[i]
           flight2 == InFlight(i)'
           strobed == sync[i] = 1
<1>4. (pending2 \/ flight2 => pending \/ strobed) /\ (pending2 /\ flight2 => pending /\ strobed)
  <2>0. pending2 => pending \/ strobed
    BY <1>3
  <2>1. CASE HubQuiet
    <3>1. ~flight2
      BY <2>1 DEF HubQuiet, InFlight
    <3> QED
      BY <2>0, <3>1
  <2>2. CASE HubSend /\ serial_send_reg
    <3>1. mux_state' = 8
      BY <2>2 DEF HubSend, TxStep, TxLoad, TxByte, TxWait, TxHold, serial_busy
    <3>2. ~flight2
      BY <3>1 DEF InFlight
    <3> QED
      BY <2>0, <3>2
  <2>3. CASE HubSend /\ ~serial_send_reg /\ port_counter = i
    <3>1. ~pending2 /\ pending
      BY <2>3 DEF HubSend, SelectInv, UplinkTypeOK
    <3> QED
      BY <3>1
  <2>4. CASE HubSend /\ port_counter # i
    <3>1. ~flight2
      BY <2>4 DEF HubSend, InFlight
    <3> QED
      BY <2>0, <3>1
  <2> QED
    BY <2>1, <2>2, <2>3, <2>4 DEF HubStep
<1> /\ pending \in BOOLEAN /\ flight \in BOOLEAN
    /\ pending2 \in BOOLEAN /\ flight2 \in BOOLEAN /\ strobed \in BOOLEAN
  BY DEF InFlight
<1> HIDE DEF pending, flight, pending2, flight2, strobed
<1>6. One(pending2) + One(flight2) <= One(pending) + One(strobed)
  BY <1>4, OneSum
<1>7. words'[i] + One(flight2) + One(pending2) <= slave_nonces'[i] - One(sync'[i] > 0)
  <2>1. words[i] + One(flight) + One(pending) <= slave_nonces[i] - One(sync[i] > 0)
    BY <1>0, OneValue DEF One
  <2> QED
    BY <1>0, <1>1, <1>2, <1>6, <2>1, OneValue, SlavesType DEF One, strobed
<1>8. /\ words'[i] \in Nat /\ slave_nonces'[i] \in Nat /\ One(flight2) \in {0, 1}
      /\ One(pending2) \in {0, 1} /\ One(sync'[i] > 0) \in {0, 1}
  BY <1>0, <1>2, SlavesType DEF One
<1>9. words'[i] + One(flight2) + One(pending2) + One(sync'[i] > 0) <= slave_nonces'[i]
  BY <1>7, <1>8
<1> QED
  BY <1>9 DEF pending2, flight2

-----------------------------------------------------------------------------
(* The order of a port's words.                                             *)

(* What a step does to port i: its register and strobe, what it loads, and  *)
(* what gets on its way.                                                    *)
LEMMA LoadOf ==
  ASSUME UplinkTypeOK, TxStep, NEW i \in Ports
  PROVE  IF InFlight(i)
         THEN words'[i] = words[i] + 1 /\ last'[i] = slave_nonces_shifted.seq
         ELSE words'[i] = words[i] /\ last'[i] = last[i]
<1>1. CASE TxLoad /\ slave_nonces_shifted.port = i
  <2>1. InFlight(i)
    BY <1>1 DEF TxLoad, serial_busy, InFlight
  <2> QED
    BY <1>1, <2>1 DEF TxLoad, UplinkTypeOK
<1>2. CASE TxLoad /\ slave_nonces_shifted.port # i
  <2>1. ~InFlight(i)
    BY <1>2 DEF InFlight
  <2> QED
    BY <1>2, <2>1 DEF TxLoad, UplinkTypeOK
<1>3. CASE ~TxLoad
  <2>1. ~InFlight(i)
    BY <1>3 DEF TxStep, TxByte, TxWait, TxHold, InFlight
  <2>2. UNCHANGED <<words, last>>
    BY <1>3 DEF TxStep, TxByte, TxWait, TxHold, txVars
  <2> QED
    BY <2>1, <2>2
<1> QED
  BY <1>1, <1>2, <1>3

LEMMA FindOf ==
  ASSUME UplinkTypeOK, NEW finding \in SUBSET Ports, Slaves(finding), NEW i \in Ports
  PROVE  \/ /\ slave_nonces'[i] = slave_nonces[i] + 1
            /\ sync[i] <= 1
            /\ sync'[i] = SyncDelay[i]
         \/ /\ slave_nonces'[i] = slave_nonces[i]
            /\ sync'[i] = IF sync[i] = 0 THEN 0 ELSE sync[i] - 1
BY DEF Slaves

(* A nonce that gets on its way is the register's, its flag was up and      *)
(* nothing was on its way before; it leaves no flag behind.                 *)
LEMMA SelectOf ==
  ASSUME UplinkTypeOK, SelectInv, HubStep, TxStep, NEW i \in Ports, InFlight(i)'
  PROVE  /\ slave_nonces_shifted'.seq = slave_nonces[i]
         /\ ~InFlight(i)
         /\ new_nonces_flag[i] /\ ~clear_nonces[i]
         /\ clear_nonces'[i]
<1>1. HubSend
  BY DEF InFlight, HubStep, HubQuiet
<1>2. mux_state = 0 /\ mux_state' = 0
  BY <1>1 DEF HubSend, serial_busy, InFlight
<1>3. ~serial_send_reg
  BY <1>2 DEF TxStep, TxLoad, TxByte, TxWait, TxHold, serial_busy
<1>4. port_counter = i /\ slave_nonces_shifted'.seq = slave_nonces[i]
  BY <1>1 DEF HubSend, InFlight
<1>5. new_nonces_flag[i] /\ clear_nonces'[i]
  BY <1>1, <1>4 DEF HubSend, UplinkTypeOK
<1>6. ~clear_nonces[i]
  BY <1>3 DEF SelectInv
<1> QED
  BY <1>3, <1>4, <1>5, <1>6 DEF InFlight

LEMMA OrderStep ==
  ASSUME UplinkTypeOK, UplinkTypeOK', SelectInv, OrderInv,
         NEW finding \in SUBSET Ports, Slaves(finding), HubStep, TxStep
  PROVE  OrderInv'
<1> SUFFICES ASSUME NEW i \in Ports
             PROVE  /\ last'[i] <= slave_nonces'[i]
                    /\ InFlight(i)' =>
                         slave_nonces_shifted'.seq \in last'[i] .. slave_nonces'[i]
                    /\ SyncDelay[i] = 1 =>
                         /\ sync'[i] <= 1
                         /\ InFlight(i)' => last'[i] < slave_nonces_shifted'.seq
                         /\ Pending(i)' =>
                              /\ last'[i] < slave_nonces'[i]
                              /\ InFlight(i)' => slave_nonces_shifted'.seq < slave_nonces'[i]
  BY DEF OrderInv
<1>0. /\ last[i] \in Nat /\ slave_nonces[i] \in Nat /\ sync[i] \in Nat
      /\ last'[i] \in Nat /\ slave_nonces'[i] \in Nat /\ sync'[i] \in Nat
      /\ slave_nonces_shifted.seq \in Nat /\ slave_nonces_shifted'.seq \in Nat
  BY DEF UplinkTypeOK, Nonce
<1> DEFINE load == InFlight(i)
           load2 == InFlight(i)'
           seq == slave_nonces_shifted.seq
           seq2 == slave_nonces_shifted'.seq
           reg == slave_nonces[i]
           reg2 == slave_nonces'[i]
<1>1. /\ last[i] <= reg
      /\ load => last[i] <= seq /\ seq <= reg
      /\ SyncDelay[i] = 1 =>
           /\ sync[i] <= 1
           /\ load => last[i] < seq
           /\ Pending(i) => last[i] < reg /\ (load => seq < reg)
  BY <1>0 DEF OrderInv
<1>2. last'[i] = IF load THEN seq ELSE last[i]
  BY LoadOf
<1>3. \/ reg2 = reg + 1 /\ sync'[i] = SyncDelay[i]
      \/ reg2 = reg /\ sync'[i] = IF sync[i] = 0 THEN 0 ELSE sync[i] - 1
  BY FindOf
<1>4. load2 => seq2 = reg /\ ~load /\ Pending(i) /\ clear_nonces'[i]
  BY SelectOf DEF Pending
<1>5. last'[i] <= reg /\ reg <= reg2
  BY <1>0, <1>1, <1>2, <1>3
<1>6. load2 => seq2 \in last'[i] .. reg2
  BY <1>0, <1>1, <1>2, <1>4, <1>5
<1>7. ASSUME SyncDelay[i] = 1
      PROVE  /\ sync'[i] <= 1
             /\ load2 => last'[i] < seq2
             /\ Pending(i)' => last'[i] < reg2 /\ (load2 => seq2 < reg2)
  <2>1. sync'[i] <= 1
    BY <1>0, <1>1, <1>3, <1>7
  <2>2. load2 => last'[i] < seq2
    BY <1>0, <1>1, <1>2, <1>4, <1>7
  <2>3. sync'[i] > 0 => reg2 = reg + 1
    BY <1>0, <1>1, <1>3, <1>7
  <2>4. new_nonces_flag'[i] => Pending(i)
    <3>1. new_nonces_flag'[i] => (new_nonces_flag[i] /\ ~clear_nonces[i]) \/ sync[i] = 1
      BY DEF HubStep, HubSend, HubQuiet, RaiseFlags, new_nonces
    <3> QED
      BY <1>0, <3>1 DEF Pending
  <2>5. Pending(i)' => sync'[i] > 0 \/ (Pending(i) /\ ~clear_nonces'[i])
    BY <2>4 DEF Pending
  <2>6. ASSUME Pending(i)' PROVE last'[i] < reg2 /\ (load2 => seq2 < reg2)
    <3>1. CASE sync'[i] > 0
      BY <1>0, <1>4, <1>5, <2>3, <3>1
    <3>2. CASE Pending(i) /\ ~clear_nonces'[i]
      BY <1>0, <1>1, <1>2, <1>4, <1>5, <1>7, <3>2
    <3> QED
      BY <2>5, <2>6, <3>1, <3>2
  <2> QED
    BY <2>1, <2>2, <2>6
<1> QED
  BY <1>5, <1>0, <1>6, <1>7

(* A port's words are loaded in order.                                      *)
LEMMA OrderedLoad ==
  ASSUME UplinkTypeOK, OrderInv, TxStep, NEW i \in Ports, words'[i] # words[i]
  PROVE  IF SyncDelay[i] = 1 THEN last'[i] > last[i] ELSE last'[i] >= last[i]
<1>1. InFlight(i) /\ last'[i] = slave_nonces_shifted.seq
  BY LoadOf
<1>2. last[i] \in Nat /\ slave_nonces_shifted.seq \in Nat
  BY DEF UplinkTypeOK, Nonce
<1>3. /\ last[i] <= slave_nonces_shifted.seq
      /\ SyncDelay[i] = 1 => last[i] < slave_nonces_shifted.seq
  BY <1>1, <1>2 DEF OrderInv, UplinkTypeOK
<1> QED
  BY <1>1, <1>2, <1>3

-----------------------------------------------------------------------------
(* The theorems.                                                            *)

LEMMA InitIInv == UplinkInit => IInv
<1> SUFFICES ASSUME UplinkInit PROVE IInv
  OBVIOUS
<1>0. 0 \in Ports
  BY HubAssumption DEF HubAssumption, Ports
<1>1. UplinkTypeOK
  <2>1. NoNonce \in Nonce
    BY <1>0 DEF NoNonce, Nonce
  <2>2. NoByte \in Byte
    BY <2>1 DEF NoByte, Byte
  <2> QED
    BY <1>0, <2>1, <2>2 DEF UplinkInit, UplinkTypeOK
<1>2. WordsIntact /\ ByteInv
  BY DEF UplinkInit, WordsIntact, ByteInv, HostHas
<1>3. SelectInv /\ CountInv
  BY DEF UplinkInit, SelectInv, CountInv, One, InFlight
<1>4. OrderInv
  BY DEF UplinkInit, OrderInv, InFlight, Pending
<1> QED
  BY <1>1, <1>2, <1>3, <1>4 DEF IInv

LEMMA NextIInv == IInv /\ [UplinkNext]_uplinkVars => IInv'
<1>1. ASSUME IInv, UplinkNext PROVE IInv'
  <2>1. PICK finding \in SUBSET Ports :
          Slaves(finding) /\ HubStep /\ TxStep /\ UartStep
    BY <1>1, StepParts
  <2>2. UplinkTypeOK'
    BY <1>1, TypeStep DEF IInv
  <2>3. ByteInv'
    BY <1>1, <2>1, <2>2, ByteStep DEF IInv
  <2>4. WordsIntact'
    BY <1>1, <2>1, <2>2, <2>3, IntactStep DEF IInv
  <2>5. SelectInv' /\ CountInv' /\ OrderInv'
    BY <1>1, <2>1, <2>2, SelectStep, CountStep, OrderStep DEF IInv
  <2> QED
    BY <2>2, <2>3, <2>4, <2>5 DEF IInv
<1>2. ASSUME IInv, UNCHANGED uplinkVars PROVE IInv'
  BY <1>2 DEF IInv, UplinkTypeOK, WordsIntact, ByteInv, HostHas, CurrentByte, SelectInv,
       CountInv, InFlight, OrderInv, Pending, uplinkVars, slaveVars, hubVars, txVars, uartVars
<1> QED
  BY <1>1, <1>2

(* IInv is an invariant of the uplink.                                      *)
THEOREM Inductive == UplinkSpec => []IInv
BY InitIInv, NextIInv, PTL DEF UplinkSpec

(* Every register of the uplink keeps its type (hub_core.v 12-39, serial.v  *)
(* 102-115); in particular mux_state never leaves 0 and 8 .. 15.            *)
THEOREM TypeCorrect == UplinkSpec => []UplinkTypeOK
<1>1. IInv => UplinkTypeOK
  BY DEF IInv
<1> QED
  BY <1>1, Inductive, PTL

(* The host never assembles a word from two nonces (serial.v 119-146).      *)
THEOREM WordsAreIntact == UplinkSpec => []WordsIntact
<1>1. IInv => WordsIntact
  BY DEF IInv
<1> QED
  BY <1>1, Inductive, PTL

(* The UART never ignores a byte it is given (serial.v 131-145).            *)
THEOREM BytesAreSent == UplinkSpec => []NoByteDropped
<1>1. IInv => NoByteDropped
  BY ByteInvNoByteDropped DEF IInv
<1> QED
  BY <1>1, Inductive, PTL

(* No port has more words sent for it than it found nonces (hub_core.v      *)
(* 41-67), whatever the ports do while a word goes out.                     *)
THEOREM SentAtMostOnce == UplinkSpec => []AtMostOnce
<1>1. IInv => AtMostOnce
  <2> SUFFICES ASSUME IInv, NEW i \in Ports PROVE words[i] <= slave_nonces[i]
    BY DEF AtMostOnce
  <2> DEFINE a == One(InFlight(i))
             b == One(new_nonces_flag[i] /\ ~clear_nonces[i])
             c == One(sync[i] > 0)
  <2>1. words[i] \in Nat /\ slave_nonces[i] \in Nat
    BY DEF IInv, UplinkTypeOK
  <2>2. a \in Nat /\ b \in Nat /\ c \in Nat
    BY DEF One
  <2>3. words[i] + a + b + c <= slave_nonces[i]
    BY DEF IInv, CountInv
  <2> QED
    BY <2>1, <2>2, <2>3
<1> QED
  BY <1>1, Inductive, PTL

(* A flagged nonce is forgotten only in the cycle after another word was    *)
(* loaded (hub_core.v 56-66 against serial.v 125-129).                      *)
THEOREM LossIsContained == UplinkSpec => LossOnlyAtStart
<1> DEFINE Contained ==
      \A i \in Ports :
        new_nonces_flag[i] /\ ~new_nonces_flag'[i] =>
          \/ mux_state = 8
          \/ mux_state' = 8 /\ word_copy'.port = i
<1>1. IInv /\ [UplinkNext]_uplinkVars => [Contained]_uplinkVars
  <2> SUFFICES ASSUME IInv, UplinkNext, NEW i \in Ports,
                      new_nonces_flag[i], ~new_nonces_flag'[i], mux_state # 8
               PROVE  mux_state' = 8 /\ word_copy'.port = i
    OBVIOUS
  <2>1. HubStep /\ TxStep
    BY StepParts
  <2>2. clear_nonces[i]
    BY <2>1 DEF HubStep, HubSend, HubQuiet, RaiseFlags
  <2>3. serial_send_reg /\ mux_state = 0
    BY <2>2 DEF IInv, SelectInv
  <2>4. TxLoad /\ slave_nonces_shifted.port = i
    BY <2>1, <2>2, <2>3 DEF TxStep, TxByte, TxWait, TxHold, IInv, SelectInv
  <2> QED
    BY <2>4 DEF TxLoad
<1> QED
  BY <1>1, Inductive, PTL DEF UplinkSpec, LossOnlyAtStart

(* A port's words leave in the order its nonces were found, and where the   *)
(* strobe is one edge behind the register none leaves twice (hub_core.v     *)
(* 41-67, serial.v 125-129), however the ports' finds fall.                 *)
THEOREM WordsInOrder == UplinkSpec => InOrder
<1> DEFINE Ordered ==
      \A i \in Ports :
        words'[i] # words[i] =>
          IF SyncDelay[i] = 1 THEN last'[i] > last[i] ELSE last'[i] >= last[i]
<1>1. IInv /\ [UplinkNext]_uplinkVars => [Ordered]_uplinkVars
  <2> SUFFICES ASSUME IInv, UplinkNext PROVE Ordered
    OBVIOUS
  <2>1. TxStep
    BY StepParts
  <2> QED
    BY <2>1, OrderedLoad DEF IInv
<1> QED
  BY <1>1, Inductive, PTL DEF UplinkSpec, InOrder

=============================================================================
