------------------------ MODULE SerialReceiveProofs ------------------------
(***************************************************************************)
(* Proofs about the downlink, for every length of a work, every timeout    *)
(* and every pair of clocks: types, the framing of works by silence, and   *)
(* that the crossing makes one loadnonce of each work.                     *)
(*                                                                         *)
(* The bytes since the last timeout or work are the window: the last       *)
(* demux_state bytes of input_buffer.                                      *)
(***************************************************************************)
EXTENDS SerialReceive, TLAPS

Window(m) == input_buffer[BYTES - demux_state + m]

(* What the line has sent so far.                                          *)
LineType ==
  /\ packet \in Nat \ {0} /\ idx \in 1 .. BYTES
  /\ gap \in 1 .. Quiet
  /\ lost \in Nat /\ intact \in BOOLEAN
  /\ fresh \subseteq Nat /\ owed \subseteq Nat
  /\ reported \in Nat /\ loads \in Nat

(* The timer is not behind the line while there is something in the        *)
(* window, so that a quiet line finds the window empty; and a work is      *)
(* taken at once.                                                          *)
TimerInv ==
  /\ demux_state \notin {0, BYTES} => gap <= timer + 1 /\ timer <= TIMEOUT
  /\ demux_state = BYTES => gap = 1

(* Nothing was received of what the line has not begun to send.            *)
Begun(p) == p <= packet /\ (idx = 1 => p < packet)
OldInv ==
  /\ \A k \in 1 .. BYTES : Begun(input_buffer[k].packet) /\ Begun(input_copy[k].packet)
  /\ \A p \in fresh : Begun(p)

(* A byte of a packet that came after a quiet line follows, in the window, *)
(* only on bytes of the same packet.                                       *)
MixInv ==
  /\ \A m \in 1 .. demux_state - 1 :
       Window(m).packet # Window(m + 1).packet => Window(m + 1).packet \notin fresh
  /\ demux_state \in 1 .. BYTES - 1 /\ packet \in fresh => input_buffer[BYTES].packet = packet

(* While nothing was lost the window is in step with the line, and so is   *)
(* the timer.                                                              *)
InStep ==
  /\ demux_state = idx - 1 \/ (demux_state = BYTES /\ idx = 1)
  /\ demux_state \notin {0, BYTES} => timer = gap - 1 /\ gap <= PAUSE
  /\ \A m \in 1 .. demux_state : Window(m).idx = m
WholeInv == lost = 0 => InStep

(* So it is, from its first byte on, while an intact packet is received.   *)
IntactInv ==
  intact /\ idx > 1 => InStep /\ \A m \in 1 .. demux_state : Window(m).packet = packet
OwedInv ==
  \A p \in owed : demux_state = BYTES /\ input_buffer = Packet(p)

(* Each report is in the crossing once, or a load; and until it is loaded  *)
(* there is a change on the way, or it is the target already.              *)
One(flag) == IF flag THEN 1 ELSE 0
LoadInv ==
  /\ loads + One(load[1]) + One(load[2]) + One(load[3]) + One(rx_done) = reported
  /\ rx_done \/ load[1] \/ load[2] \/ load[3] \/ targetreg = input_copy

(* While pbkdf_clk has not sampled the toggle, uart_clk has made as many   *)
(* edges since it changed as it is ahead: too few for another work.        *)
Ahead == skew + PPeriod
SpacedInv ==
  /\ rx_done => gap <= 2 /\ demux_state = 0
  /\ load[1] =>
       /\ UPeriod * (gap - 2) <= Ahead
       /\ demux_state = BYTES => UPeriod * (BYTETIME - 1) <= Ahead
       /\ rx_done => UPeriod * BYTETIME <= Ahead

FrameInv ==
  /\ DownlinkTypeOK /\ LineType /\ TimerInv /\ OldInv /\ MixInv /\ NoMixPastQuiet
  /\ WholeInv /\ WholeIfNoLoss /\ IntactInv /\ OwedInv /\ LoadInv
  /\ SpacedInv

-----------------------------------------------------------------------------
(* An edge of uart_clk is one of four: the work is taken, a byte is, one   *)
(* is lost, or there is none.  No byte ends while a work is taken.         *)
LEMMA UartCases ==
  ASSUME DownlinkTypeOK, LineType, TimerInv, NEW b \in WorkByte \cup {NoWorkByte}, Line(b), Receive(b)
  PROVE  \/ WorkDone /\ LineSilent(b)
         \/ TakeByte(b) /\ LineSends(b)
         \/ NoByteYet(b) /\ LineLoses(b)
         \/ NoByteYet(b) /\ LineSilent(b)
<1>1. LineSends(b) => b # NoWorkByte
  BY DEF LineType, LineSends, NoWorkByte
<1>2. WorkDone => ~OnLine
  BY SerialAssumption DEF SerialAssumption, WorkDone, TimerInv, OnLine
<1>3. LineSends(b) => OnLine
  BY DEF LineSends
<1>4. LineLoses(b) => OnLine /\ b = NoWorkByte
  BY DEF LineLoses
<1>5. LineSilent(b) => b = NoWorkByte
  BY DEF LineSilent
<1>6. TakeByte(b) => b # NoWorkByte
  BY DEF TakeByte
<1>7. NoByteYet(b) => b = NoWorkByte
  BY DEF NoByteYet
<1> QED
  BY <1>1, <1>2, <1>3, <1>4, <1>5, <1>6, <1>7 DEF Line, Receive

LEMMA RxType ==
  ASSUME DownlinkTypeOK, NEW b \in WorkByte \cup {NoWorkByte}, Receive(b)
  PROVE  /\ demux_state' \in 0 .. BYTES
         /\ timer' \in 0 .. 2 * TIMEOUT - 1
         /\ rx_done' \in BOOLEAN
         /\ input_buffer' \in Work
         /\ input_copy' \in Work
<1>1. demux_state' \in 0 .. BYTES
  BY SerialAssumption DEF SerialAssumption, DownlinkTypeOK, Receive, WorkDone, TakeByte, NoByteYet
<1>2. timer' \in 0 .. 2 * TIMEOUT - 1
  BY SerialAssumption DEF SerialAssumption, DownlinkTypeOK, Receive, WorkDone, TakeByte, NoByteYet
<1>3. rx_done' \in BOOLEAN
  BY DEF Receive, WorkDone, TakeByte, NoByteYet
<1>4. ShiftIn(b) \in Work
  BY SerialAssumption DEF SerialAssumption, DownlinkTypeOK, ShiftIn, Work
<1>5. input_buffer' \in Work /\ input_copy' \in Work
  BY <1>4 DEF DownlinkTypeOK, Receive, WorkDone, TakeByte, NoByteYet
<1> QED
  BY <1>1, <1>2, <1>3, <1>4, <1>5

LEMMA TypeStep ==
  ASSUME DownlinkTypeOK, DownlinkNext
  PROVE  DownlinkTypeOK'
<1>1. CASE UartEdge
  <2>1. PICK b \in WorkByte \cup {NoWorkByte} : Line(b) /\ Receive(b) /\ Owe(b)
    BY <1>1 DEF UartEdge
  <2>2. load' \in Crossing
    BY <1>1 DEF UartEdge, DownlinkTypeOK, Crossing, Toggle
  <2>3. skew' \in -PPeriod .. UPeriod
    BY <1>1, SerialAssumption DEF UartEdge, DownlinkTypeOK, SerialAssumption
  <2> QED
    BY <1>1, <2>1, <2>2, <2>3, RxType DEF UartEdge, DownlinkTypeOK
<1>2. CASE PbkdfEdge
  <2>1. load' \in Crossing
    BY <1>2 DEF PbkdfEdge, DownlinkTypeOK, Crossing, Shift
  <2>2. skew' \in -PPeriod .. UPeriod
    BY <1>2, SerialAssumption DEF PbkdfEdge, DownlinkTypeOK, SerialAssumption
  <2> QED
    BY <1>2, <2>1, <2>2 DEF PbkdfEdge, DownlinkTypeOK, rxVars
<1> QED
  BY <1>1, <1>2 DEF DownlinkNext

LEMMA LineTypeStep ==
  ASSUME DownlinkTypeOK, LineType, TimerInv, DownlinkNext
  PROVE  LineType'
<1>1. CASE UartEdge
  <2>1. PICK b \in WorkByte \cup {NoWorkByte} : Line(b) /\ Receive(b) /\ Owe(b)
    BY <1>1 DEF UartEdge
  <2>2. reported' \in Nat /\ loads' \in Nat
    BY <1>1 DEF UartEdge, LineType
  <2>3. owed' \subseteq Nat
    <3>1. b.packet \in Nat
      BY SerialAssumption DEF WorkByte, NoWorkByte, SerialAssumption
    <3> QED
      BY <2>1, <3>1 DEF Owe, LineType
  <2>4. OnLine => packet' \in Nat \ {0} /\ idx' \in 1 .. BYTES /\ gap' \in 1 .. Quiet /\ fresh' \subseteq Nat
    BY SerialAssumption DEF OnLine, LineType, Quiet, SerialAssumption
  <2>5. CASE LineSends(b)
    BY <2>2, <2>3, <2>4, <2>5 DEF LineType, LineSends
  <2>6. CASE LineLoses(b)
    <3>1. lost' \in Nat /\ OnLine
      BY <2>6 DEF LineType, LineLoses
    <3>2. intact' \in BOOLEAN
      BY <2>6 DEF LineLoses
    <3> QED
      BY <2>2, <2>3, <2>4, <3>1, <3>2 DEF LineType
  <2>7. CASE LineSilent(b)
    BY <2>2, <2>3, <2>7, SerialAssumption DEF LineType, LineSilent, Quiet, SerialAssumption
  <2> QED
    BY <2>1, <2>5, <2>6, <2>7 DEF Line
<1>2. CASE PbkdfEdge
  BY <1>2 DEF PbkdfEdge, LineType, lineVars
<1> QED
  BY <1>1, <1>2 DEF DownlinkNext

LEMMA TimerStep ==
  ASSUME DownlinkTypeOK, LineType, TimerInv, DownlinkNext
  PROVE  TimerInv'
<1> USE SerialAssumption DEF SerialAssumption, DownlinkTypeOK, LineType, TimerInv, Quiet
<1>1. CASE UartEdge
  <2>1. PICK b \in WorkByte \cup {NoWorkByte} : Line(b) /\ Receive(b) /\ Owe(b)
    BY <1>1 DEF UartEdge
  <2>2. CASE WorkDone /\ LineSilent(b)
    BY <2>2 DEF WorkDone
  <2>3. CASE TakeByte(b) /\ LineSends(b)
    BY <2>3 DEF TakeByte, LineSends, OnLine
  <2>4. CASE NoByteYet(b) /\ (LineLoses(b) \/ LineSilent(b))
    <3>1. gap' <= gap + 1 /\ gap' \in Nat
      BY <2>4 DEF LineLoses, LineSilent, OnLine
    <3>2. demux_state' # BYTES
      BY <2>4 DEF NoByteYet
    <3>3. ASSUME demux_state' # 0
          PROVE  timer' = timer + 1 /\ timer' <= TIMEOUT /\ gap' <= timer' + 1
      <4>1. demux_state \notin {0, BYTES} /\ timer # TIMEOUT
        BY <2>4, <3>3 DEF NoByteYet
      <4>2. timer \in Nat /\ timer + 1 <= TIMEOUT /\ gap <= timer + 1
        BY <4>1
      <4>3. timer' = (timer + 1) % (2 * TIMEOUT)
        BY <2>4 DEF NoByteYet
      <4>4. timer' = timer + 1
        BY <4>2, <4>3
      <4> QED
        BY <3>1, <4>2, <4>4
    <3> QED
      BY <3>2, <3>3
  <2> QED
    BY <2>1, <2>2, <2>3, <2>4, UartCases
<1>2. CASE PbkdfEdge
  BY <1>2 DEF PbkdfEdge, rxVars, lineVars
<1> QED
  BY <1>1, <1>2 DEF DownlinkNext

(* A quiet line finds nothing in the window.                               *)
LEMMA QuietEmpties ==
  ASSUME DownlinkTypeOK, LineType, TimerInv
  PROVE  gap = Quiet => demux_state = 0
BY SerialAssumption DEF SerialAssumption, DownlinkTypeOK, LineType, TimerInv, Quiet

-----------------------------------------------------------------------------
(* What is in the buffers was sent, and is not newer than the line.        *)

LEMMA BegunStays ==
  ASSUME LineType, NEW b, Line(b), NEW p \in Nat, Begun(p)
  PROVE  Begun(p)'
<1>1. CASE OnLine
  BY <1>1, SerialAssumption DEF SerialAssumption, LineType, OnLine, Begun
<1>2. CASE LineSilent(b)
  BY <1>2 DEF LineSilent, Begun
<1> QED
  BY <1>1, <1>2 DEF Line, LineSends, LineLoses

LEMMA BegunNow ==
  ASSUME LineType, OnLine, NEW p, p = packet
  PROVE  Begun(p)'
BY SerialAssumption DEF SerialAssumption, LineType, OnLine, Begun

LEMMA PacketNat ==
  ASSUME NEW buffer \in Work, NEW k \in 1 .. BYTES
  PROVE  buffer[k].packet \in Nat
BY SerialAssumption DEF SerialAssumption, Work, WorkByte, NoWorkByte

LEMMA OldStep ==
  ASSUME DownlinkTypeOK, LineType, OldInv, DownlinkNext
  PROVE  OldInv'
<1>1. CASE UartEdge
  <2>1. PICK b \in WorkByte \cup {NoWorkByte} : Line(b) /\ Receive(b) /\ Owe(b)
    BY <1>1 DEF UartEdge
  <2> DEFINE Soon(p) == p <= packet' /\ (idx' = 1 => p < packet')
  <2>2. ASSUME NEW p \in Nat, Begun(p) PROVE Soon(p)
    BY <2>1, <2>2, BegunStays DEF Begun
  <2>3. ASSUME OnLine PROVE Soon(packet)
    BY <2>3, BegunNow DEF Begun
  <2>4. \A k \in 1 .. BYTES : Soon(input_buffer[k].packet) /\ Soon(input_copy[k].packet)
    BY <2>2, PacketNat DEF DownlinkTypeOK, OldInv
  <2>5. TakeByte(b) => Soon(b.packet)
    BY <2>1, <2>3 DEF TakeByte, Line, LineSends, LineLoses, LineSilent
  <2>6. ASSUME NEW k \in 1 .. BYTES PROVE Soon(input_buffer'[k].packet) /\ Soon(input_copy'[k].packet)
    <3>1. CASE WorkDone \/ NoByteYet(b)
      BY <2>4, <3>1 DEF WorkDone, NoByteYet
    <3>2. CASE TakeByte(b)
      <4>1. input_buffer'[k] = IF k = BYTES THEN b ELSE input_buffer[k + 1]
        BY <3>2 DEF TakeByte, ShiftIn
      <4>2. k # BYTES => k + 1 \in 1 .. BYTES
        BY SerialAssumption DEF SerialAssumption
      <4>3. input_copy' = input_copy
        BY <3>2 DEF TakeByte
      <4> QED
        BY <2>4, <2>5, <3>2, <4>1, <4>2, <4>3
    <3> QED
      BY <2>1, <3>1, <3>2 DEF Receive
  <2>7. ASSUME NEW p \in fresh' PROVE Soon(p)
    <3>1. p \in fresh \/ (OnLine /\ p = packet)
      BY <2>1 DEF Line, LineSends, LineLoses, LineSilent, OnLine
    <3> QED
      BY <2>2, <2>3, <3>1 DEF OldInv, LineType
  <2> QED
    BY <2>6, <2>7 DEF OldInv, Begun
<1>2. CASE PbkdfEdge
  BY <1>2 DEF PbkdfEdge, rxVars, lineVars, OldInv, Begun
<1> QED
  BY <1>1, <1>2 DEF DownlinkNext

-----------------------------------------------------------------------------
(* The window.                                                             *)

LEMMA WindowGrows ==
  ASSUME DownlinkTypeOK, NEW b, TakeByte(b)
  PROVE  /\ demux_state' = demux_state + 1
         /\ \A m \in 1 .. demux_state : Window(m)' = Window(m)
         /\ \A m \in Nat : m = demux_state + 1 => Window(m)' = b
         /\ input_buffer'[BYTES] = b
<1> USE SerialAssumption DEF SerialAssumption
<1>1. demux_state' = demux_state + 1 /\ demux_state \in 0 .. BYTES - 1
  BY DEF DownlinkTypeOK, TakeByte
<1>2. \A k \in 1 .. BYTES : input_buffer'[k] = IF k = BYTES THEN b ELSE input_buffer[k + 1]
  BY DEF TakeByte, ShiftIn
<1>3. ASSUME NEW m \in 1 .. demux_state PROVE Window(m)' = Window(m)
  <2>1. BYTES - (demux_state + 1) + m \in 1 .. BYTES - 1
    BY <1>1
  <2>2. BYTES - (demux_state + 1) + m + 1 = BYTES - demux_state + m
    BY <1>1
  <2> QED
    BY <1>1, <1>2, <2>1, <2>2 DEF Window
<1>4. ASSUME NEW m \in Nat, m = demux_state + 1 PROVE Window(m)' = input_buffer'[BYTES]
  <2>1. BYTES - demux_state' + m = BYTES
    BY <1>1, <1>4
  <2> QED
    BY <2>1 DEF Window
<1>5. input_buffer'[BYTES] = b
  BY <1>2
<1> QED
  BY <1>1, <1>3, <1>4, <1>5

(* Without a byte it stays or is emptied; empty it stays empty.            *)
LEMMA WindowStays ==
  ASSUME DownlinkTypeOK, NEW b, NoByteYet(b)
  PROVE  /\ input_buffer' = input_buffer /\ input_copy' = input_copy
         /\ demux_state' = 0 \/ (demux_state' = demux_state /\ timer # TIMEOUT)
         /\ demux_state = 0 => demux_state' = 0
BY DEF NoByteYet

(* A packet is counted as fresh when its first byte finds an empty window. *)
LEMMA FreshGrows ==
  ASSUME DownlinkTypeOK, LineType, TimerInv, OldInv, NEW b, Line(b)
  PROVE  /\ fresh' = fresh \/ (fresh' = fresh \cup {packet} /\ idx = 1 /\ demux_state = 0)
         /\ packet' \in fresh' => packet' = packet
<1>1. fresh' = fresh \/ (fresh' = fresh \cup {packet} /\ idx = 1 /\ demux_state = 0)
  BY QuietEmpties DEF Line, LineSends, LineLoses, LineSilent, OnLine
<1>2. packet' = packet \/ packet' = packet + 1
  BY DEF Line, LineSends, LineLoses, LineSilent, OnLine
<1>3. \A p \in fresh : p \in Nat /\ p <= packet
  BY DEF OldInv, Begun, LineType
<1>4. packet \in Nat
  BY DEF LineType
<1>5. \A p \in fresh' : p \in Nat /\ p <= packet
  BY <1>1, <1>3, <1>4
<1> QED
  BY <1>1, <1>2, <1>4, <1>5

(* What was received before is not of a packet that becomes fresh now.     *)
LEMMA FreshIsNew ==
  ASSUME DownlinkTypeOK, LineType, TimerInv, OldInv, NEW b, Line(b),
         NEW k \in 1 .. BYTES
  PROVE  /\ input_copy[k].packet \notin fresh => input_copy[k].packet \notin fresh'
         /\ input_buffer[k].packet \notin fresh => input_buffer[k].packet \notin fresh'
<1>1. fresh' = fresh \/ (fresh' = fresh \cup {packet} /\ idx = 1)
  BY FreshGrows
<1>2. packet \in Nat /\ input_copy[k].packet \in Nat /\ input_buffer[k].packet \in Nat
  BY PacketNat DEF LineType, DownlinkTypeOK
<1>3. idx = 1 => input_copy[k].packet < packet /\ input_buffer[k].packet < packet
  BY DEF OldInv, Begun
<1> QED
  BY <1>1, <1>2, <1>3

LEMMA MixStep ==
  ASSUME DownlinkTypeOK, LineType, TimerInv, OldInv, MixInv, NoMixPastQuiet, DownlinkNext
  PROVE  MixInv' /\ NoMixPastQuiet'
<1> USE SerialAssumption DEF SerialAssumption
<1>1. CASE UartEdge
  <2>1. PICK b \in WorkByte \cup {NoWorkByte} : Line(b) /\ Receive(b) /\ Owe(b)
    BY <1>1 DEF UartEdge
  <2>2. CASE WorkDone /\ LineSilent(b)
    <3>1. demux_state = BYTES /\ demux_state' = 0 /\ input_copy' = input_buffer /\ fresh' = fresh
      BY <2>2 DEF WorkDone, LineSilent
    <3>2. \A m \in 1 .. BYTES : Window(m) = input_buffer[m]
      BY <3>1 DEF Window
    <3>3. ASSUME NEW k \in 1 .. BYTES - 1, input_copy'[k].packet # input_copy'[k + 1].packet
          PROVE  input_copy'[k + 1].packet \notin fresh'
      <4>1. k \in 1 .. BYTES /\ k + 1 \in 1 .. BYTES
        OBVIOUS
      <4> QED
        BY <3>1, <3>2, <3>3, <4>1 DEF MixInv
    <3>4. MixInv'
      BY <3>1 DEF MixInv
    <3> QED
      BY <3>3, <3>4 DEF NoMixPastQuiet
  <2>3. CASE ~WorkDone
    <3>1. NoMixPastQuiet'
      <4>0. input_copy' = input_copy
        BY <2>1, <2>3 DEF Receive, TakeByte, NoByteYet
      <4>1. \A k \in 1 .. BYTES - 1 : k + 1 \in 1 .. BYTES
        OBVIOUS
      <4> QED
        BY <2>1, <4>0, <4>1, FreshIsNew DEF NoMixPastQuiet
    <3>2. CASE TakeByte(b) /\ LineSends(b)
      <4>1. /\ demux_state' = demux_state + 1
            /\ \A m \in 1 .. demux_state : Window(m)' = Window(m)
            /\ \A m \in Nat : m = demux_state + 1 => Window(m)' = b
            /\ input_buffer'[BYTES] = b
        BY <3>2, WindowGrows
      <4>2. b.packet = packet /\ demux_state \in 0 .. BYTES - 1
        BY <3>2 DEF LineSends, TakeByte, DownlinkTypeOK
      <4>3. ASSUME NEW m \in 1 .. demux_state' - 1, Window(m)'.packet # Window(m + 1)'.packet
            PROVE  Window(m + 1)'.packet \notin fresh'
        <5>1. CASE m = demux_state
          <6>1. Window(m)' = input_buffer[BYTES] /\ Window(m + 1)' = b
            <7>1. Window(m) = input_buffer[BYTES] /\ Window(m)' = Window(m)
              BY <4>1, <4>2, <5>1 DEF Window
            <7>2. \A n \in Nat : n = m + 1 => Window(n)' = b
              BY <4>1, <5>1
            <7> QED
              BY <7>1, <7>2
          <6>2. packet \notin fresh
            BY <4>2, <4>3, <5>1, <6>1 DEF MixInv
          <6> QED
            BY <2>1, <4>2, <4>3, <5>1, <6>1, <6>2, FreshGrows
        <5>2. CASE m # demux_state
          <6>1. m \in 1 .. demux_state - 1 /\ m + 1 \in 1 .. demux_state
            BY <4>1, <4>2, <5>2
          <6>2. Window(m)' = Window(m) /\ Window(m + 1)' = Window(m + 1)
            BY <4>1, <4>2, <6>1
          <6>3. BYTES - demux_state + (m + 1) \in 1 .. BYTES
            BY <4>2, <6>1
          <6>4. Window(m + 1).packet \notin fresh
            BY <4>3, <6>1, <6>2 DEF MixInv
          <6> QED
            BY <2>1, <6>2, <6>3, <6>4, FreshIsNew DEF Window
        <5> QED
          BY <5>1, <5>2
      <4>4. packet' \in fresh' => input_buffer'[BYTES].packet = packet'
        BY <2>1, <4>1, <4>2, FreshGrows
      <4> QED
        BY <3>1, <4>3, <4>4 DEF MixInv
    <3>3. CASE NoByteYet(b)
      <4>1. /\ input_buffer' = input_buffer
            /\ demux_state' = 0 \/ demux_state' = demux_state
            /\ demux_state = 0 => demux_state' = 0
        BY <3>3, WindowStays
      <4>2. CASE demux_state' = 0
        BY <3>1, <4>2 DEF MixInv
      <4>3. CASE demux_state' # 0
        <5>1. demux_state' = demux_state /\ fresh' = fresh /\ (packet' \in fresh' => packet' = packet)
          BY <2>1, <4>1, <4>3, FreshGrows
        <5>2. MixInv'
          BY <4>1, <5>1 DEF MixInv, Window
        <5> QED
          BY <3>1, <5>2
      <4> QED
        BY <4>2, <4>3
    <3> QED
      BY <2>1, <2>3, <3>2, <3>3, UartCases
  <2> QED
    BY <2>1, <2>2, <2>3, UartCases DEF WorkDone, TakeByte, NoByteYet
<1>2. CASE PbkdfEdge
  BY <1>2 DEF PbkdfEdge, rxVars, lineVars, MixInv, Window, NoMixPastQuiet
<1> QED
  BY <1>1, <1>2 DEF DownlinkNext

-----------------------------------------------------------------------------
(* In step with the line.                                                  *)

LEMMA EmptyInStep ==
  ASSUME demux_state = 0, idx = 1
  PROVE  InStep
BY DEF InStep

LEMMA SentInStep ==
  ASSUME DownlinkTypeOK, LineType, InStep, NEW b, TakeByte(b), LineSends(b)
  PROVE  InStep'
<1> USE SerialAssumption DEF SerialAssumption
<1>1. /\ demux_state' = demux_state + 1
      /\ \A m \in 1 .. demux_state : Window(m)' = Window(m)
      /\ \A m \in Nat : m = demux_state + 1 => Window(m)' = b
  BY WindowGrows
<1>2. demux_state = idx - 1 /\ demux_state \in Nat /\ idx \in 1 .. BYTES
  BY DEF DownlinkTypeOK, LineType, InStep, TakeByte
<1>3. idx' = (IF idx = BYTES THEN 1 ELSE idx + 1) /\ gap' = 1 /\ timer' = 0 /\ b.idx = idx
  BY DEF LineSends, OnLine, TakeByte
<1>4. demux_state' = idx' - 1 \/ (demux_state' = BYTES /\ idx' = 1)
  BY <1>1, <1>2, <1>3
<1>5. ASSUME NEW m \in 1 .. demux_state' PROVE Window(m)'.idx = m
  <2>1. CASE m = demux_state + 1
    BY <1>1, <1>2, <1>3, <2>1
  <2>2. CASE m # demux_state + 1
    <3>1. m \in 1 .. demux_state
      BY <1>1, <1>2, <2>2
    <3> QED
      BY <1>1, <3>1 DEF InStep
  <2> QED
    BY <2>1, <2>2
<1> QED
  BY <1>3, <1>4, <1>5 DEF InStep

LEMMA SilentInStep ==
  ASSUME DownlinkTypeOK, LineType, InStep, NEW b, NoByteYet(b), LineSilent(b)
  PROVE  InStep' /\ demux_state' = demux_state /\ input_buffer' = input_buffer
<1> USE SerialAssumption DEF SerialAssumption
<1>1. idx' = idx /\ input_buffer' = input_buffer
  BY DEF LineSilent, NoByteYet
<1>2. CASE demux_state = 0
  BY <1>1, <1>2 DEF NoByteYet, InStep, LineType
<1>3. CASE demux_state # 0
  <2>1. timer = gap - 1 /\ gap <= PAUSE /\ demux_state # BYTES /\ gap \in Nat /\ gap >= 1
    BY <1>3 DEF InStep, NoByteYet, LineType
  <2>2. idx # 1 /\ gap < PAUSE
    BY <1>3, <2>1 DEF InStep, LineSilent
  <2>3. gap' = gap + 1
    BY <2>1, <2>2 DEF LineSilent, Quiet
  <2>4. timer' = timer + 1 /\ demux_state' = demux_state
    <3>1. timer + 1 <= TIMEOUT /\ timer \in Nat
      BY <2>1, <2>2
    <3> QED
      BY <3>1 DEF NoByteYet
  <2> QED
    BY <1>1, <2>1, <2>2, <2>3, <2>4 DEF InStep, Window
<1> QED
  BY <1>2, <1>3

LEMMA TakenInStep ==
  ASSUME LineType, InStep, NEW b, WorkDone, LineSilent(b)
  PROVE  idx = 1 /\ InStep'
<1>1. idx = 1
  BY SerialAssumption DEF SerialAssumption, LineType, InStep, WorkDone
<1> QED
  BY <1>1 DEF InStep, WorkDone, LineSilent

LEMMA WholeStep ==
  ASSUME DownlinkTypeOK, LineType, TimerInv, WholeInv, WholeIfNoLoss, DownlinkNext
  PROVE  WholeInv' /\ WholeIfNoLoss'
<1> USE SerialAssumption DEF SerialAssumption
<1>1. CASE UartEdge
  <2>1. PICK b \in WorkByte \cup {NoWorkByte} : Line(b) /\ Receive(b) /\ Owe(b)
    BY <1>1 DEF UartEdge
  <2>2. CASE LineLoses(b)
    BY <2>2 DEF LineLoses, LineType, WholeInv, WholeIfNoLoss
  <2>3. CASE WorkDone /\ LineSilent(b)
    <3>1. WholeInv'
      BY <2>3, TakenInStep DEF WholeInv, LineSilent
    <3>2. lost = 0 => \A k \in 1 .. BYTES : input_buffer[k].idx = k
      BY <2>3 DEF WholeInv, InStep, Window, WorkDone
    <3> QED
      BY <2>3, <3>1, <3>2 DEF WholeIfNoLoss, WorkDone, LineSilent
  <2>4. CASE TakeByte(b) /\ LineSends(b)
    BY <2>4, SentInStep DEF WholeInv, WholeIfNoLoss, TakeByte, LineSends
  <2>5. CASE NoByteYet(b) /\ LineSilent(b)
    BY <2>5, SilentInStep DEF WholeInv, WholeIfNoLoss, NoByteYet, LineSilent
  <2> QED
    BY <2>1, <2>2, <2>3, <2>4, <2>5, UartCases
<1>2. CASE PbkdfEdge
  BY <1>2 DEF PbkdfEdge, rxVars, lineVars, WholeInv, InStep, Window, WholeIfNoLoss
<1> QED
  BY <1>1, <1>2 DEF DownlinkNext

(* The bytes of an intact packet.                                          *)
LEMMA IntactByte ==
  ASSUME DownlinkTypeOK, LineType, TimerInv, IntactInv, NEW b, TakeByte(b), LineSends(b), intact'
  PROVE  /\ InStep'
         /\ \A m \in 1 .. demux_state' : Window(m)'.packet = packet
<1> USE SerialAssumption DEF SerialAssumption
<1>1. idx = 1 => demux_state = 0
  BY QuietEmpties DEF LineSends
<1>2. idx # 1 => intact /\ idx > 1
  BY DEF LineSends, LineType
<1>3. InStep /\ \A m \in 1 .. demux_state : Window(m).packet = packet
  BY <1>1, <1>2, EmptyInStep DEF IntactInv
<1>4. InStep'
  BY <1>3, SentInStep
<1>5. /\ demux_state' = demux_state + 1 /\ demux_state \in Nat
      /\ \A m \in 1 .. demux_state : Window(m)' = Window(m)
      /\ \A m \in Nat : m = demux_state + 1 => Window(m)' = b
  BY WindowGrows DEF DownlinkTypeOK
<1>6. b.packet = packet
  BY DEF LineSends
<1>7. ASSUME NEW m \in 1 .. demux_state' PROVE Window(m)'.packet = packet
  <2>1. m = demux_state + 1 \/ m \in 1 .. demux_state
    BY <1>5
  <2> QED
    BY <1>3, <1>5, <1>6, <2>1
<1> QED
  BY <1>4, <1>7

LEMMA IntactStep ==
  ASSUME DownlinkTypeOK, LineType, TimerInv, IntactInv, DownlinkNext
  PROVE  IntactInv'
<1> USE SerialAssumption DEF SerialAssumption
<1>1. CASE UartEdge
  <2>1. PICK b \in WorkByte \cup {NoWorkByte} : Line(b) /\ Receive(b) /\ Owe(b)
    BY <1>1 DEF UartEdge
  <2>2. CASE LineLoses(b)
    BY <2>2 DEF LineLoses, IntactInv
  <2>3. CASE WorkDone /\ LineSilent(b)
    <3>1. intact' = intact /\ idx' = idx
      BY <2>3 DEF LineSilent
    <3>2. ~(intact /\ idx > 1)
      BY <2>3, TakenInStep DEF IntactInv
    <3> QED
      BY <3>1, <3>2 DEF IntactInv
  <2>4. CASE TakeByte(b) /\ LineSends(b)
    <3>1. idx' > 1 => packet' = packet
      BY <2>4 DEF LineSends, OnLine
    <3> QED
      BY <2>4, <3>1, IntactByte DEF IntactInv
  <2>5. CASE NoByteYet(b) /\ LineSilent(b)
    <3>1. intact' = intact /\ idx' = idx /\ packet' = packet
      BY <2>5 DEF LineSilent
    <3> QED
      BY <2>5, <3>1, SilentInStep DEF IntactInv, Window
  <2> QED
    BY <2>1, <2>2, <2>3, <2>4, <2>5, UartCases
<1>2. CASE PbkdfEdge
  BY <1>2 DEF PbkdfEdge, rxVars, lineVars, IntactInv, InStep, Window
<1> QED
  BY <1>1, <1>2 DEF DownlinkNext

LEMMA OwedStep ==
  ASSUME DownlinkTypeOK, LineType, TimerInv, IntactInv, OwedInv, DownlinkNext
  PROVE  OwedInv'
<1> USE SerialAssumption DEF SerialAssumption
<1>1. CASE UartEdge
  <2>1. PICK b \in WorkByte \cup {NoWorkByte} : Line(b) /\ Receive(b) /\ Owe(b)
    BY <1>1 DEF UartEdge
  <2>2. CASE b = NoWorkByte
    <3>1. owed' = owed \ {p \in owed : rx_done' /\ input_copy' = Packet(p)}
      BY <2>1, <2>2 DEF Owe, NoWorkByte
    <3>2. owed = {} \/ WorkDone
      BY <2>1 DEF OwedInv, Receive, TakeByte, NoByteYet
    <3>3. WorkDone => \A p \in owed : rx_done' /\ input_copy' = Packet(p)
      BY DEF WorkDone, OwedInv
    <3>4. owed' = {}
      BY <3>1, <3>2, <3>3
    <3> QED
      BY <3>4 DEF OwedInv
  <2>3. CASE TakeByte(b) /\ LineSends(b)
    <3>1. owed = {}
      BY <2>3 DEF OwedInv, TakeByte
    <3>2. ASSUME NEW p \in owed' PROVE demux_state' = BYTES /\ input_buffer' = Packet(p)
      <4>1. p = packet /\ idx = BYTES /\ intact'
        BY <2>1, <2>3, <3>1 DEF Owe, LineSends
      <4>2. InStep' /\ \A m \in 1 .. demux_state' : Window(m)'.packet = packet
        BY <2>3, <4>1, IntactByte
      <4>3. idx' = 1 /\ demux_state' # 0
        BY <2>3, <4>1 DEF LineSends, OnLine, TakeByte, DownlinkTypeOK
      <4>4. demux_state' = BYTES
        BY <4>2, <4>3 DEF InStep
      <4>5. \A m \in 1 .. BYTES : Window(m)' = input_buffer'[m]
        BY <4>4 DEF Window
      <4>6. \A m \in 1 .. BYTES : input_buffer'[m].packet = p /\ input_buffer'[m].idx = m
        BY <4>1, <4>2, <4>4, <4>5 DEF InStep
      <4>7. input_buffer' \in Work
        BY <2>1, RxType
      <4>8. \A m \in 1 .. BYTES : input_buffer'[m] = [packet |-> p, idx |-> m]
        BY <4>6, <4>7 DEF Work, WorkByte, NoWorkByte
      <4>9. input_buffer' = [k \in 1 .. BYTES |-> [packet |-> p, idx |-> k]]
        BY <4>7, <4>8 DEF Work
      <4> QED
        BY <4>4, <4>9 DEF Packet
    <3> QED
      BY <3>2 DEF OwedInv, Packet
  <2> QED
    BY <2>1, <2>2, <2>3, UartCases DEF LineSilent, LineLoses
<1>2. CASE PbkdfEdge
  BY <1>2 DEF PbkdfEdge, rxVars, lineVars, OwedInv
<1> QED
  BY <1>1, <1>2 DEF DownlinkNext

-----------------------------------------------------------------------------
(* The crossing.                                                           *)

LEMMA OneNat == \A flag : One(flag) \in 0 .. 1
BY DEF One

LEMMA Distribute ==
  ASSUME NEW a \in Int, NEW c \in Int
  PROVE  a * (c + 1) = a * c + a
OBVIOUS

LEMMA TimesMonotone ==
  ASSUME NEW a \in Nat, NEW c \in Int, NEW d \in Int, c <= d
  PROVE  a * c <= a * d
<1>1. d - c \in Nat /\ d = c + (d - c)
  OBVIOUS
<1>2. a * (d - c) \in Nat
  BY <1>1
<1>3. a * (c + (d - c)) = a * c + a * (d - c)
  OBVIOUS
<1>4. a * c \in Int
  OBVIOUS
<1> QED
  BY <1>1, <1>2, <1>3, <1>4

LEMMA TwoLess ==
  ASSUME NEW c \in Nat, NEW d \in Nat
  PROVE  /\ c - 2 \in Int
         /\ d <= c + 1 => d - 2 <= c - 2 + 1
         /\ c <= 2 /\ d <= c + 1 => d - 2 <= 1
         /\ \A n \in Nat : c >= n => n - 1 <= c - 2 + 1
OBVIOUS

LEMMA LessAhead ==
  ASSUME NEW a \in Nat, NEW c \in Int, NEW d \in Int, NEW x \in Int, c <= d, a * d <= x
  PROVE  a * c <= x
<1>1. a * c <= a * d /\ a * c \in Int /\ a * d \in Int
  BY TimesMonotone
<1> QED
  BY <1>1

(* With one edge more uart_clk is a period further ahead.                  *)
LEMMA AheadGrows ==
  ASSUME DownlinkTypeOK, UartEdge, NEW c \in Int, UPeriod * c <= Ahead
  PROVE  UPeriod * (c + 1) <= Ahead'
<1>1. Ahead' = Ahead + UPeriod /\ Ahead \in Int /\ UPeriod \in Int
  BY SerialAssumption DEF SerialAssumption, DownlinkTypeOK, UartEdge, Ahead
<1>2. UPeriod * (c + 1) = UPeriod * c + UPeriod /\ UPeriod * c \in Int
  BY <1>1, Distribute
<1> QED
  BY <1>1, <1>2

(* And it never is as far ahead as a byte is long.                         *)
LEMMA NotByteAhead ==
  ASSUME DownlinkTypeOK, UartEdge
  PROVE  ~(UPeriod * BYTETIME <= Ahead)
<1>1. Ahead <= PPeriod /\ Ahead \in Int
  BY SerialAssumption DEF SerialAssumption, DownlinkTypeOK, UartEdge, Ahead
<1>2. UPeriod * BYTETIME = BYTETIME * UPeriod /\ UPeriod * BYTETIME \in Int /\ PPeriod \in Int
  BY SerialAssumption DEF SerialAssumption
<1> QED
  BY <1>1, <1>2, CrossingAssumption DEF CrossingAssumption

LEMMA NotLost ==
  ASSUME DownlinkTypeOK, SpacedInv, UartEdge, rx_done
  PROVE  ~load[1]
BY NotByteAhead DEF SpacedInv

LEMMA SpacedStep ==
  ASSUME DownlinkTypeOK, LineType, TimerInv, SpacedInv, DownlinkNext
  PROVE  SpacedInv'
<1> USE SerialAssumption DEF SerialAssumption
<1>1. CASE UartEdge
  <2>1. PICK b \in WorkByte \cup {NoWorkByte} : Line(b) /\ Receive(b) /\ Owe(b)
    BY <1>1 DEF UartEdge
  <2>2. \/ WorkDone /\ LineSilent(b)
        \/ TakeByte(b) /\ LineSends(b)
        \/ NoByteYet(b) /\ LineLoses(b)
        \/ NoByteYet(b) /\ LineSilent(b)
    BY <2>1, UartCases
  <2>3. rx_done' <=> WorkDone
    BY <2>2 DEF WorkDone, TakeByte, NoByteYet
  <2>4. demux_state' = BYTES => gap >= BYTETIME /\ gap' = 1
    BY <2>2 DEF WorkDone, TakeByte, LineSends, NoByteYet, OnLine
  <2>5. gap \in Nat /\ gap' \in Nat /\ gap' <= gap + 1
    BY <2>1 DEF Line, LineSends, LineLoses, LineSilent, OnLine, LineType, Quiet
  <2>6. rx_done' => gap' <= 2 /\ demux_state' = 0 /\ demux_state = BYTES
    <3>1. WorkDone => gap = 1
      BY DEF WorkDone, TimerInv
    <3> QED
      BY <2>3, <2>5, <3>1 DEF WorkDone
  <2>7. Ahead' \in Int /\ UPeriod \in Nat
    BY <1>1 DEF Ahead, DownlinkTypeOK, UartEdge
  <2>8. CASE load[1]
    <3> DEFINE g == gap - 2
               h == gap' - 2
               t == BYTETIME - 1
    <3>1. g \in Int /\ h \in Int /\ t \in Int
      BY <2>5
    <3>2. h <= g + 1
      BY <2>5, TwoLess
    <3>3. demux_state' = BYTES => t <= g + 1
      BY <2>4, <2>5, TwoLess
    <3>4. t + 1 = BYTETIME
      OBVIOUS
    <3>5. /\ UPeriod * g <= Ahead
          /\ demux_state = BYTES => UPeriod * t <= Ahead
      BY <2>8 DEF SpacedInv
    <3> SUFFICES /\ UPeriod * h <= Ahead'
                 /\ demux_state' = BYTES => UPeriod * t <= Ahead'
                 /\ rx_done' => UPeriod * (t + 1) <= Ahead'
      BY <2>6, <3>4 DEF SpacedInv
    <3> HIDE DEF g, h, t
    <3>6. UPeriod * (g + 1) <= Ahead'
      BY <1>1, <3>1, <3>5, AheadGrows
    <3>7. UPeriod * h <= Ahead'
      BY <2>7, <3>1, <3>6, <3>2, <3>3, LessAhead
    <3>8. demux_state' = BYTES => UPeriod * t <= Ahead'
      BY <2>7, <3>1, <3>6, <3>2, <3>3, LessAhead
    <3>9. rx_done' => UPeriod * (t + 1) <= Ahead'
      BY <1>1, <2>6, <3>1, <3>5, AheadGrows
    <3> QED
      BY <3>7, <3>8, <3>9
  <2>9. CASE ~load[1] /\ rx_done
    <3>1. gap <= 2 /\ demux_state = 0
      BY <2>9 DEF SpacedInv
    <3>2. UPeriod * 1 <= Ahead'
      BY <1>1 DEF UartEdge, Ahead, DownlinkTypeOK
    <3>3. ~rx_done'
      BY <2>6, <3>1
    <3> DEFINE h == gap' - 2
               t == BYTETIME - 1
    <3>4. h \in Int /\ t \in Int
      BY <2>5, TwoLess
    <3>5. h <= 1
      BY <2>5, <3>1, TwoLess
    <3>6. demux_state' = BYTES => t <= 1
      BY <2>4, <2>5, <3>1
    <3> SUFFICES /\ UPeriod * h <= Ahead'
                 /\ demux_state' = BYTES => UPeriod * t <= Ahead'
      BY <3>1, <3>3 DEF SpacedInv
    <3> HIDE DEF h, t
    <3> QED
      BY <2>7, <3>2, <3>4, <3>5, <3>6, LessAhead
  <2>10. CASE ~load[1] /\ ~rx_done
    <3>1. load' = load
      BY <1>1, <2>10 DEF UartEdge
    <3> QED
      BY <2>6, <2>10, <3>1 DEF SpacedInv
  <2> QED
    BY <2>8, <2>9, <2>10
<1>2. CASE PbkdfEdge
  <2>1. load'[1] = (1 # 1 /\ load[1 - 1])
    BY <1>2 DEF PbkdfEdge, Shift
  <2> QED
    BY <1>2, <2>1 DEF PbkdfEdge, rxVars, lineVars, SpacedInv
<1> QED
  BY <1>1, <1>2 DEF DownlinkNext

(* No report is lost on the way, and the last one leaves its work behind.   *)
LEMMA LoadStep ==
  ASSUME DownlinkTypeOK, LineType, LoadInv, SpacedInv, DownlinkNext
  PROVE  LoadInv'
<1>1. load \in [1 .. 3 -> BOOLEAN]
  BY DEF DownlinkTypeOK, Crossing
<1>2. CASE UartEdge
  <2>1. PICK b \in WorkByte \cup {NoWorkByte} : Receive(b)
    BY <1>2 DEF UartEdge
  <2>2. /\ load'[2] = load[2] /\ load'[3] = load[3] /\ loads' = loads
        /\ targetreg' = targetreg
    BY <1>1, <1>2 DEF UartEdge, Toggle
  <2>3. One(load'[1]) = One(load[1]) + One(rx_done) /\ (rx_done \/ load[1] => load'[1])
    <3>1. CASE rx_done
      <4>1. ~load[1] /\ load' = [load EXCEPT ![1] = ~load[1]]
        BY <1>2, <3>1, NotLost DEF UartEdge, Toggle
      <4>2. load'[1] = ~load[1]
        BY <1>1, <4>1
      <4>3. load'[1]
        BY <4>1, <4>2, Zenon
      <4> QED
        BY <3>1, <4>1, <4>2, <4>3 DEF One
    <3>2. CASE ~rx_done
      BY <1>2, <3>2, OneNat DEF UartEdge, One
    <3> QED
      BY <3>1, <3>2
  <2>4. reported' = reported + One(rx_done') /\ (rx_done' \/ input_copy' = input_copy)
    <3>1. CASE demux_state = BYTES
      <4>1. rx_done' = TRUE
        BY <2>1, <3>1 DEF Receive, WorkDone, TakeByte, NoByteYet
      <4> QED
        BY <1>2, <3>1, <4>1 DEF UartEdge, One
    <3>2. CASE demux_state # BYTES
      <4>1. rx_done' = FALSE /\ input_copy' = input_copy
        BY <2>1, <3>2 DEF Receive, WorkDone, TakeByte, NoByteYet
      <4> QED
        BY <1>2, <3>2, <4>1 DEF UartEdge, One, LineType
    <3> QED
      BY <3>1, <3>2
  <2>5. /\ One(load[1]) \in Int /\ One(load[2]) \in Int /\ One(load[3]) \in Int
        /\ One(rx_done) \in Int /\ One(rx_done') \in Int /\ One(load'[1]) \in Int
        /\ loads \in Int /\ reported \in Int
    BY OneNat DEF LineType
  <2>6. loads' + One(load'[1]) + One(load'[2]) + One(load'[3]) + One(rx_done') = reported'
    BY <2>2, <2>3, <2>4, <2>5 DEF LoadInv
  <2>7. rx_done' \/ load'[1] \/ load'[2] \/ load'[3] \/ targetreg' = input_copy'
    BY <2>2, <2>3, <2>4 DEF LoadInv
  <2> QED
    BY <2>6, <2>7 DEF LoadInv
<1>3. CASE PbkdfEdge
  <2>1. ~load'[1] /\ (load'[2] <=> load[1]) /\ (load'[3] <=> load[2])
    <3>1. \A i \in 1 .. 3 : load'[i] = (i # 1 /\ load[i - 1])
      BY <1>3 DEF PbkdfEdge, Shift
    <3>2. /\ load'[1] = (1 # 1 /\ load[1 - 1])
          /\ load'[2] = (2 # 1 /\ load[2 - 1])
          /\ load'[3] = (3 # 1 /\ load[3 - 1])
      BY <3>1
    <3>3. 2 # 1 /\ 3 # 1 /\ 2 - 1 = 1 /\ 3 - 1 = 2
      OBVIOUS
    <3> QED
      BY <3>2, <3>3, Zenon
  <2>2. loads' = loads + One(load[3])
    BY <1>3 DEF PbkdfEdge, loadnonce, Arrived, One, LineType
  <2>3. rx_done' = rx_done /\ reported' = reported
    BY <1>3 DEF PbkdfEdge, rxVars
  <2>4. One(load[1]) \in Int /\ One(load[2]) \in Int /\ One(load[3]) \in Int
        /\ One(rx_done) \in Int /\ loads \in Int /\ reported \in Int
    BY OneNat DEF LineType
  <2>5. One(load'[1]) = 0 /\ One(load'[2]) = One(load[1]) /\ One(load'[3]) = One(load[2])
    BY <2>1 DEF One
  <2>6. loads' + One(load'[1]) + One(load'[2]) + One(load'[3]) + One(rx_done') = reported'
    BY <2>2, <2>3, <2>4, <2>5 DEF LoadInv
  <2>7. /\ input_copy' = input_copy
        /\ targetreg' = IF load[3] THEN input_copy ELSE targetreg
    BY <1>3 DEF PbkdfEdge, rxVars, loadnonce, Arrived
  <2>8. rx_done' \/ load'[1] \/ load'[2] \/ load'[3] \/ targetreg' = input_copy'
    BY <2>1, <2>3, <2>7 DEF LoadInv
  <2> QED
    BY <2>6, <2>8 DEF LoadInv
<1> QED
  BY <1>2, <1>3 DEF DownlinkNext

-----------------------------------------------------------------------------
(* The inductive invariant, and what it implies.                           *)

LEMMA InitFrame == DownlinkInit => FrameInv
<1> SUFFICES ASSUME DownlinkInit PROVE FrameInv
  OBVIOUS
<1> USE SerialAssumption DEF SerialAssumption, DownlinkInit
<1>1. Blank \in Work /\ \A k \in 1 .. BYTES : Blank[k].packet = 0
  BY DEF Blank, Work, NoWorkByte
<1>2. DownlinkTypeOK
  <2>1. Still \in Crossing
    BY DEF Still, Crossing
  <2>2. demux_state \in 0 .. BYTES /\ timer \in 0 .. 2 * TIMEOUT - 1
    OBVIOUS
  <2>3. skew \in -PPeriod .. UPeriod
    OBVIOUS
  <2> QED
    BY <1>1, <2>1, <2>2, <2>3 DEF DownlinkTypeOK
<1>3. LineType /\ TimerInv
  <2>1. gap \in 1 .. Quiet
    BY DEF Quiet
  <2>2. LineType
    <3>1. intact \in BOOLEAN
      OBVIOUS
    <3>2. packet \in Nat \ {0} /\ idx \in 1 .. BYTES /\ lost \in Nat /\ reported \in Nat /\ loads \in Nat
      OBVIOUS
    <3> QED
      BY <2>1, <3>1, <3>2 DEF LineType
  <2>3. TimerInv
    BY DEF TimerInv
  <2> QED
    BY <2>2, <2>3
<1>4. OldInv
  BY <1>1 DEF OldInv, Begun
<1>5. MixInv /\ NoMixPastQuiet /\ WholeInv /\ IntactInv /\ OwedInv
  BY DEF MixInv, NoMixPastQuiet, WholeInv, InStep, IntactInv, OwedInv
<1>6. WholeIfNoLoss
  BY <1>1 DEF WholeIfNoLoss
<1>7. LoadInv
  <2>1. One(load[1]) = 0 /\ One(load[2]) = 0 /\ One(load[3]) = 0 /\ One(rx_done) = 0
    BY DEF One, Still
  <2> QED
    BY <2>1 DEF LoadInv
<1>8. SpacedInv
  BY DEF SpacedInv, Still
<1> QED
  BY <1>2, <1>3, <1>4, <1>5, <1>6, <1>7, <1>8 DEF FrameInv

LEMMA NextFrame ==
  ASSUME FrameInv, [DownlinkNext]_downlinkVars
  PROVE  FrameInv'
<1>1. CASE DownlinkNext
  <2> USE <1>1 DEF FrameInv
  <2>1. DownlinkTypeOK' /\ LineType' /\ TimerInv'
    BY TypeStep, LineTypeStep, TimerStep
  <2>2. OldInv' /\ MixInv' /\ NoMixPastQuiet'
    BY OldStep, MixStep
  <2>3. WholeInv' /\ WholeIfNoLoss' /\ IntactInv' /\ OwedInv'
    BY WholeStep, IntactStep, OwedStep
  <2>4. LoadInv' /\ SpacedInv'
    BY LoadStep, SpacedStep
  <2> QED
    BY <2>1, <2>2, <2>3, <2>4
<1>2. CASE UNCHANGED downlinkVars
  <2> USE <1>2 DEF downlinkVars, rxVars, lineVars
  <2>1. DownlinkTypeOK' /\ LineType' /\ TimerInv' /\ OldInv'
    BY DEF FrameInv, DownlinkTypeOK, LineType, TimerInv, OldInv, Begun
  <2>2. MixInv' /\ NoMixPastQuiet'
    BY DEF FrameInv, MixInv, Window, NoMixPastQuiet
  <2>3. WholeInv' /\ WholeIfNoLoss' /\ IntactInv' /\ OwedInv'
    BY DEF FrameInv, WholeInv, InStep, Window, WholeIfNoLoss, IntactInv, OwedInv
  <2>4. LoadInv' /\ SpacedInv'
    BY DEF FrameInv, LoadInv, SpacedInv, Ahead
  <2> QED
    BY <2>1, <2>2, <2>3, <2>4 DEF FrameInv
<1> QED
  BY <1>1, <1>2

(* The inductive invariant of the downlink: the window against the line,   *)
(* the timer against the silence, and each report against the crossing.    *)
THEOREM FrameInductive == DownlinkSpec => []FrameInv
BY InitFrame, NextFrame, PTL DEF DownlinkSpec

(* Every register of the downlink keeps its type: demux_state never passes *)
(* BYTES, and the timer wraps at one bit more than the timeout needs.      *)
THEOREM SerialTypeCorrect == DownlinkSpec => []DownlinkTypeOK
<1>1. FrameInv => DownlinkTypeOK
  BY DEF FrameInv
<1> QED
  BY <1>1, FrameInductive, PTL

(* Whatever was lost before, a whole packet after a quiet line is reported *)
(* on the edge after its last byte.                                        *)
THEOREM ResynchronisesAlways == DownlinkSpec => []Resynchronises
<1>1. FrameInv => Resynchronises
  BY DEF FrameInv, OwedInv, Resynchronises
<1> QED
  BY <1>1, FrameInductive, PTL

(* No work joins bytes from before and after a quiet line.                 *)
THEOREM NeverMixed == DownlinkSpec => []NoMixPastQuiet
<1>1. FrameInv => NoMixPastQuiet
  BY DEF FrameInv
<1> QED
  BY <1>1, FrameInductive, PTL

(* A line that loses nothing delivers only whole packets.                  *)
THEOREM WholeWithoutLoss == DownlinkSpec => []WholeIfNoLoss
<1>1. FrameInv => WholeIfNoLoss
  BY DEF FrameInv
<1> QED
  BY <1>1, FrameInductive, PTL

(* Every work that serial_receive reports makes exactly one loadnonce, and  *)
(* the target in use is then that of the work reported last, however far    *)
(* the two clocks drift (ltcminer_icarus.v 206-233).                        *)
THEOREM OneLoadOfEachWork == DownlinkSpec => []OneLoadEach
<1>1. FrameInv => OneLoadEach
  <2> SUFFICES ASSUME FrameInv PROVE OneLoadEach
    OBVIOUS
  <2>1. One(load[1]) \in 0 .. 1 /\ One(load[2]) \in 0 .. 1 /\ One(load[3]) \in 0 .. 1
        /\ One(rx_done) \in 0 .. 1
    BY OneNat
  <2>2. loads \in Nat /\ reported \in Nat /\ loads <= reported
    BY <2>1 DEF FrameInv, LoadInv, LineType
  <2>3. ASSUME load = Still, ~rx_done PROVE loads = reported /\ targetreg = input_copy
    <3>1. ~load[1] /\ ~load[2] /\ ~load[3]
      BY <2>3 DEF Still
    <3>2. One(load[1]) = 0 /\ One(load[2]) = 0 /\ One(load[3]) = 0 /\ One(rx_done) = 0
      BY <2>3, <3>1 DEF One
    <3> QED
      BY <2>2, <2>3, <3>1, <3>2 DEF FrameInv, LoadInv
  <2> QED
    BY <2>2, <2>3 DEF OneLoadEach
<1> QED
  BY <1>1, FrameInductive, PTL
=============================================================================
