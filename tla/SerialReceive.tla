--------------------------- MODULE SerialReceive ---------------------------
(***************************************************************************)
(* The downlink: serial_receive cuts the bytes from the host into works of *)
(* BYTES bytes, with a timeout as the only means to find the start of one, *)
(* and rx_done crosses to pbkdf_clk, where it loads the target and becomes *)
(* loadnonce (ltcminer_icarus.v).                                          *)
(*                                                                         *)
(* UartEdge is one posedge of uart_clk and PbkdfEdge one of pbkdf_clk; see *)
(* Engine for skew.  The line is external: the host writes whole packets,  *)
(* pauses between them as it likes, and uart_receiver drops a byte whose   *)
(* stop bit is missing.                                                    *)
(***************************************************************************)
EXTENDS CrossClock, Sequences, Integers

CONSTANTS
  BYTES,       (* 84: the bytes of a work.                                   *)
  TIMEOUT,     (* SERIAL_TIMEOUT: 2^23 uart_clk cycles.                      *)
  BYTETIME,    (* uart_clk cycles of a byte on the line,                     *)
  PAUSE,       (* and the longest between two bytes of one packet.  The host *)
               (* keeps within the timeout.                                  *)
  UPeriod,     (* Periods of uart_clk and pbkdf_clk.                         *)
  PPeriod,
  MaxPackets,  (* Bound: packets sent,                                       *)
  MaxLost      (* and bytes lost in a behaviour.                             *)

ASSUME SerialAssumption ==
  /\ BYTES \in Nat \ {0} /\ TIMEOUT \in Nat \ {0}
  /\ BYTETIME \in Nat /\ PAUSE \in Nat /\ 1 < BYTETIME /\ BYTETIME <= PAUSE
  /\ PAUSE <= TIMEOUT
  /\ UPeriod \in Nat \ {0} /\ PPeriod \in Nat \ {0}
  /\ MaxPackets \in Nat /\ MaxLost \in Nat

(* A byte takes the line longer than pbkdf_clk takes a cycle: ten bits at   *)
(* 115200 baud against nanoseconds.                                         *)
ASSUME CrossingAssumption == PPeriod < BYTETIME * UPeriod

VARIABLES
  demux_state, timer, input_buffer, input_copy, rx_done,
  load,        (* The crossing of rx_done_toggle.                            *)
  targetreg,   (* The work whose target pbkdfengine compares with.           *)
  skew,
  packet, idx, (* The next byte on the line is byte idx of packet.           *)
  gap,         (* Cycles since the last byte on the line, up to Quiet.       *)
  lost,        (* Bytes lost so far.                                         *)
  fresh,       (* History: the packets that came after a quiet line.         *)
  intact,      (* History: no byte of this packet was lost and it is fresh.  *)
  owed,        (* History: intact packets received and not yet reported,     *)
  reported,    (* works reported,                                            *)
  loads        (* and loadnonces.                                            *)

rxVars == <<demux_state, timer, input_buffer, input_copy, rx_done>>
lineVars == <<packet, idx, gap, lost, fresh, intact>>
downlinkVars == <<rxVars, lineVars, owed, reported, loads, load, targetreg, skew>>

Quiet == TIMEOUT + 2
WorkByte == [packet : 1 .. MaxPackets, idx : 1 .. BYTES]
NoWorkByte == [packet |-> 0, idx |-> 0]
Packet(p) == [k \in 1 .. BYTES |-> [packet |-> p, idx |-> k]]
Work == [1 .. BYTES -> WorkByte \cup {NoWorkByte}]
Blank == [k \in 1 .. BYTES |-> NoWorkByte]

DownlinkInit ==
  /\ demux_state = 0 /\ timer = 0 /\ rx_done = FALSE
  /\ input_buffer = Blank /\ input_copy = Blank /\ targetreg = Blank
  /\ load = Still
  /\ skew \in -PPeriod .. UPeriod
  /\ packet = 1 /\ idx = 1 /\ gap = Quiet /\ lost = 0
  /\ fresh = {} /\ intact = FALSE /\ owed = {}
  /\ reported = 0 /\ loads = 0

-----------------------------------------------------------------------------
(* serial_receive, for the byte (or NoByte) that uart_receiver strobes.     *)

ShiftIn(b) == [k \in 1 .. BYTES |-> IF k = BYTES THEN b ELSE input_buffer[k + 1]]

WorkDone ==
  /\ demux_state = BYTES
  /\ rx_done' = TRUE
  /\ input_copy' = input_buffer
  /\ demux_state' = 0
  /\ UNCHANGED <<timer, input_buffer>>

(* MUTANT: a byte does not restart the timer.                               *)
TakeByteNoTimer(b) ==
  /\ demux_state # BYTES /\ b # NoWorkByte
  /\ rx_done' = FALSE
  /\ input_buffer' = ShiftIn(b)
  /\ demux_state' = demux_state + 1
  /\ UNCHANGED <<timer, input_copy>>

TakeByte(b) ==
  /\ demux_state # BYTES /\ b # NoWorkByte
  /\ rx_done' = FALSE
  /\ input_buffer' = ShiftIn(b)
  /\ demux_state' = demux_state + 1
  /\ timer' = 0
  /\ UNCHANGED input_copy

(* MUTANT: the timeout does not drop the bytes so far.                      *)
NoByteNoTimeout(b) ==
  /\ demux_state # BYTES /\ b = NoWorkByte
  /\ rx_done' = FALSE
  /\ timer' = (timer + 1) % (2 * TIMEOUT)
  /\ UNCHANGED <<demux_state, input_buffer, input_copy>>

(* MUTANT: rx_done stays up until the next byte.                            *)
NoByteKeepDone(b) ==
  /\ demux_state # BYTES /\ b = NoWorkByte
  /\ timer' = (timer + 1) % (2 * TIMEOUT)
  /\ demux_state' = IF timer = TIMEOUT THEN 0 ELSE demux_state
  /\ UNCHANGED <<rx_done, input_buffer, input_copy>>

(* The timer has one bit more than TIMEOUT needs, and wraps.                *)
NoByteYet(b) ==
  /\ demux_state # BYTES /\ b = NoWorkByte
  /\ rx_done' = FALSE
  /\ timer' = (timer + 1) % (2 * TIMEOUT)
  /\ demux_state' = IF timer = TIMEOUT THEN 0 ELSE demux_state
  /\ UNCHANGED <<input_buffer, input_copy>>

Receive(b) == WorkDone \/ TakeByte(b) \/ NoByteYet(b)

-----------------------------------------------------------------------------
(* The line.                                                                *)

OnLine ==
  /\ packet <= MaxPackets
  /\ gap >= BYTETIME
  /\ gap' = 1
  /\ IF idx = BYTES THEN idx' = 1 /\ packet' = packet + 1
     ELSE idx' = idx + 1 /\ UNCHANGED packet
  /\ fresh' = IF idx = 1 /\ gap = Quiet THEN fresh \cup {packet} ELSE fresh

LineSends(b) ==
  /\ b = [packet |-> packet, idx |-> idx]
  /\ OnLine
  /\ intact' = IF idx = 1 THEN gap = Quiet ELSE intact
  /\ UNCHANGED lost

LineLoses(b) ==
  /\ b = NoWorkByte
  /\ lost < MaxLost
  /\ OnLine
  /\ lost' = lost + 1
  /\ intact' = FALSE

LineSilent(b) ==
  /\ b = NoWorkByte
  /\ idx = 1 \/ gap < PAUSE
  /\ gap' = IF gap < Quiet THEN gap + 1 ELSE Quiet
  /\ UNCHANGED <<packet, idx, lost, fresh, intact>>

Line(b) == LineSends(b) \/ LineLoses(b) \/ LineSilent(b)

(* Bookkeeping: the last byte of an intact packet makes it owed.            *)
Owe(b) ==
  owed' = (owed \ {p \in owed : rx_done' /\ input_copy' = Packet(p)})
            \cup {p \in {b.packet} : b.idx = BYTES /\ intact'}

-----------------------------------------------------------------------------
(* rx_done_toggle is in uart_clk, its three copies in pbkdf_clk.            *)

UartEdge ==
  /\ skew <= 0
  /\ skew' = skew + UPeriod
  /\ \E b \in WorkByte \cup {NoWorkByte} : Line(b) /\ Receive(b) /\ Owe(b)
  /\ load' = IF rx_done THEN Toggle(load) ELSE load
  /\ reported' = IF demux_state = BYTES THEN reported + 1 ELSE reported
  /\ UNCHANGED <<targetreg, loads>>

loadnonce == Arrived(load)

PbkdfEdge ==
  /\ skew >= 0
  /\ skew' = skew - PPeriod
  /\ load' = Shift(load)
  /\ targetreg' = IF loadnonce THEN input_copy ELSE targetreg
  /\ loads' = IF loadnonce THEN loads + 1 ELSE loads
  /\ UNCHANGED <<rxVars, lineVars, owed, reported>>

DownlinkNext == UartEdge \/ PbkdfEdge

DownlinkSpec == DownlinkInit /\ [][DownlinkNext]_downlinkVars

-----------------------------------------------------------------------------
(* Properties.                                                              *)

(* Every register holds a value of its type: demux_state never passes BYTES. *)
DownlinkTypeOK ==
  /\ demux_state \in 0 .. BYTES
  /\ timer \in 0 .. 2 * TIMEOUT - 1
  /\ rx_done \in BOOLEAN
  /\ input_buffer \in Work /\ input_copy \in Work /\ targetreg \in Work
  /\ load \in Crossing
  /\ skew \in -PPeriod .. UPeriod

(* Whatever was lost before, a packet that comes after a quiet line and is  *)
(* itself complete is reported, on the edge after its last byte was taken.  *)
Resynchronises == owed # {} => demux_state = BYTES

(* A reported work joins the bytes of two packets only when no quiet line   *)
(* was between them: a lost byte never shifts the framing past a pause.     *)
NoMixPastQuiet ==
  \A k \in 1 .. BYTES - 1 :
    input_copy[k].packet # input_copy[k + 1].packet
      => input_copy[k + 1].packet \notin fresh

(* A line that loses nothing delivers only whole packets, however long the  *)
(* host pauses between them and within the timeout inside them.             *)
WholeIfNoLoss ==
  lost = 0 =>
    \A k \in 1 .. BYTES : input_copy[k].packet # 0 => input_copy[k].idx = k

(* Every reported work makes one loadnonce and no more (each one restarts   *)
(* the search), and once the crossing has settled the target in use is that *)
(* of the work reported last.                                               *)
OneLoadEach ==
  /\ loads <= reported
  /\ load = Still /\ ~rx_done => loads = reported /\ targetreg = input_copy

=============================================================================
