------------------------------ MODULE HubCore ------------------------------
(***************************************************************************)
(* The uplink of the ICARUS-LX150 design: hub_core collects the golden     *)
(* nonces that the hashing cores and the chained external boards find, and *)
(* serial_transmit sends each one to the host as four bytes.               *)
(*                                                                         *)
(* One step is one posedge of uart_clk, in which every always block runs   *)
(* at once on the values the registers had before the edge, so a step is   *)
(* the conjunction of one action per block.  The two things outside these  *)
(* blocks are free: when a slave finds a nonce, and how many cycles the    *)
(* UART needs to shift a byte out (uart_transmitter counts ten baud        *)
(* delays; here a byte ends on any edge after the one that loaded it).     *)
(***************************************************************************)
EXTENDS Naturals, Sequences

CONSTANTS
  SLAVES,     (* Number of ports: local cores, then external boards.         *)
  SyncDelay,  (* Edges from a port's nonce register changing to its          *)
              (* new_nonces strobe being sampled: 1 for slave_receive, more  *)
              (* for a core, whose strobe crosses a clock domain.            *)
  MaxFinds    (* Bound: nonces each port finds in a behaviour.               *)

Ports == 0 .. SLAVES - 1

ASSUME HubAssumption ==
  /\ SLAVES \in Nat \ {0}
  /\ SyncDelay \in [Ports -> Nat \ {0}]
  /\ MaxFinds \in [Ports -> Nat]

VARIABLES
  slave_nonces,          (* Each port's nonce register: its n-th nonce is n. *)
  sync,                  (* Edges until new_nonces[i] is sampled, 0 if none. *)
  new_nonces_flag,
  port_counter,
  slave_nonces_shifted,  (* The selected nonce, golden_nonce of hub_core.    *)
  clear_nonces,
  serial_send_reg,
  mux_state,
  word_copy,             (* The nonce being sent,                            *)
  bytes_left,            (* and how many of its bytes are still in word_copy.*)
  serial_start,
  out_byte,
  tx_idle,               (* state[0] of uart_transmitter.                    *)
  outgoing,              (* The byte uart_transmitter is shifting out.       *)
  hostbuf,               (* The bytes of the current word the host has.      *)
  words,                 (* History: words loaded from each port.            *)
  last                   (* History: the last nonce loaded from each port.   *)

hubVars == <<new_nonces_flag, port_counter, slave_nonces_shifted,
             clear_nonces, serial_send_reg>>
txVars == <<mux_state, word_copy, bytes_left, serial_start, out_byte, words, last>>
uartVars == <<tx_idle, outgoing, hostbuf>>
slaveVars == <<slave_nonces, sync>>
uplinkVars == <<slaveVars, hubVars, txVars, uartVars>>

-----------------------------------------------------------------------------
(* Data.  A nonce is the n-th of a port (n = 0 is the register's reset      *)
(* value); a byte is a nonce and its place in the four-byte word.           *)

Nonce == [port : Ports, seq : Nat]
Byte == [nonce : Nonce, idx : 1 .. 4]
NoNonce == [port |-> 0, seq |-> 0]
NoByte == [nonce |-> NoNonce, idx |-> 1]

serial_busy == mux_state # 0

(* MUTANT: tx_ready without state[0].                                       *)
TxD_readyStrobeOnly == ~serial_start

TxD_ready == tx_idle /\ ~serial_start

UplinkInit ==
  /\ slave_nonces = [i \in Ports |-> 0]
  /\ sync = [i \in Ports |-> 0]
  /\ new_nonces_flag = [i \in Ports |-> FALSE]
  /\ port_counter = 0
  /\ slave_nonces_shifted = NoNonce
  /\ clear_nonces = [i \in Ports |-> FALSE]
  /\ serial_send_reg = FALSE
  /\ mux_state = 0
  /\ word_copy = NoNonce
  /\ bytes_left = 0
  /\ serial_start = FALSE
  /\ out_byte = NoByte
  /\ tx_idle = TRUE
  /\ outgoing = NoByte
  /\ hostbuf = <<>>
  /\ words = [i \in Ports |-> 0]
  /\ last = [i \in Ports |-> 0]

-----------------------------------------------------------------------------
(* The slaves: the ports in `finding` latch a new nonce on this edge, and   *)
(* the strobes of earlier finds move one edge closer.                       *)

new_nonces == {i \in Ports : sync[i] = 1}

Slaves(finding) ==
  /\ \A i \in finding : sync[i] <= 1 /\ slave_nonces[i] < MaxFinds[i]
  /\ slave_nonces' =
       [i \in Ports |-> IF i \in finding THEN slave_nonces[i] + 1
                                         ELSE slave_nonces[i]]
  /\ sync' = [i \in Ports |-> IF i \in finding THEN SyncDelay[i]
                              ELSE IF sync[i] = 0 THEN 0 ELSE sync[i] - 1]

-----------------------------------------------------------------------------
(* hub_core.                                                                *)

(* MUTANT: the selector wraps one port early.                               *)
NextPortShort == IF port_counter + 1 >= SLAVES - 1 THEN 0 ELSE port_counter + 1

NextPort == IF port_counter = SLAVES - 1 THEN 0 ELSE port_counter + 1

(* MUTANT: the flag of a nonce that was sent stays up.                      *)
RaiseFlagsNoClear ==
  /\ new_nonces_flag' =
       [i \in Ports |-> new_nonces_flag[i] \/ i \in new_nonces]
  /\ port_counter' = NextPort

RaiseFlags ==
  /\ new_nonces_flag' =
       [i \in Ports |-> (new_nonces_flag[i] /\ ~clear_nonces[i])
                          \/ i \in new_nonces]
  /\ port_counter' = NextPort

HubSend ==
  /\ RaiseFlags
  /\ ~serial_busy
  /\ new_nonces_flag[port_counter]
  /\ slave_nonces_shifted' =
       [port |-> port_counter, seq |-> slave_nonces[port_counter]]
  /\ serial_send_reg' = TRUE
  /\ clear_nonces' = [clear_nonces EXCEPT ![port_counter] = TRUE]

(* MUTANT: clear_nonces is not reset.                                       *)
HubQuietKeepClear ==
  /\ RaiseFlags
  /\ serial_busy \/ ~new_nonces_flag[port_counter]
  /\ serial_send_reg' = FALSE
  /\ UNCHANGED <<clear_nonces, slave_nonces_shifted>>

HubQuiet ==
  /\ RaiseFlags
  /\ serial_busy \/ ~new_nonces_flag[port_counter]
  /\ serial_send_reg' = FALSE
  /\ clear_nonces' = [i \in Ports |-> FALSE]
  /\ UNCHANGED slave_nonces_shifted

-----------------------------------------------------------------------------
(* serial_transmit.  mux_state is 0 when idle, 8 + 2k before byte k + 1 is  *)
(* given to the UART and 9 + 2k while that byte is on its way.              *)

TxLoad ==
  /\ ~serial_busy
  /\ serial_send_reg
  /\ mux_state' = 8
  /\ word_copy' = slave_nonces_shifted
  /\ bytes_left' = 4
  /\ words' = [words EXCEPT ![slave_nonces_shifted.port] = @ + 1]
  /\ last' = [last EXCEPT ![slave_nonces_shifted.port] = slave_nonces_shifted.seq]
  /\ UNCHANGED <<serial_start, out_byte>>

(* MUTANT: the word is not shifted after a byte.                            *)
TxByteNoShift ==
  /\ mux_state \in {8, 10, 12, 14}
  /\ TxD_ready
  /\ serial_start' = TRUE
  /\ mux_state' = mux_state + 1
  /\ out_byte' = [nonce |-> word_copy, idx |-> 5 - bytes_left]
  /\ UNCHANGED <<word_copy, bytes_left, words, last>>

TxByte ==
  /\ mux_state \in {8, 10, 12, 14}
  /\ TxD_ready
  /\ serial_start' = TRUE
  /\ mux_state' = mux_state + 1
  /\ out_byte' = [nonce |-> word_copy, idx |-> 5 - bytes_left]
  /\ bytes_left' = bytes_left - 1
  /\ UNCHANGED <<word_copy, words, last>>

(* MUTANT: mux_state does not wrap to idle after the fourth byte.           *)
TxWaitNoWrap ==
  /\ mux_state \in {9, 11, 13, 15}
  /\ serial_start' = FALSE
  /\ mux_state' = IF TxD_ready THEN mux_state + 1 ELSE mux_state
  /\ UNCHANGED <<word_copy, bytes_left, out_byte, words, last>>

TxWait ==
  /\ mux_state \in {9, 11, 13, 15}
  /\ serial_start' = FALSE
  /\ mux_state' = IF TxD_ready THEN (mux_state + 1) % 16 ELSE mux_state
  /\ UNCHANGED <<word_copy, bytes_left, out_byte, words, last>>

TxHold ==
  /\ \/ mux_state = 0 /\ ~serial_send_reg
     \/ mux_state \in {8, 10, 12, 14} /\ ~TxD_ready
  /\ UNCHANGED txVars

-----------------------------------------------------------------------------
(* uart_transmitter and the host at the other end of the wire.  A strobe is *)
(* ignored while a byte is being shifted out.                               *)

UartStart ==
  /\ tx_idle
  /\ serial_start
  /\ tx_idle' = FALSE
  /\ outgoing' = out_byte
  /\ UNCHANGED hostbuf

UartDone ==
  /\ ~tx_idle
  /\ tx_idle' = TRUE
  /\ hostbuf' = IF Len(hostbuf) = 4 THEN <<outgoing>> ELSE Append(hostbuf, outgoing)
  /\ UNCHANGED outgoing

UartShift ==
  /\ ~(tx_idle /\ serial_start)
  /\ UNCHANGED uartVars

-----------------------------------------------------------------------------
HubStep == HubSend \/ HubQuiet
TxStep == TxLoad \/ TxByte \/ TxWait \/ TxHold

(* One clock edge, but for the UART.                                        *)
Clock == \E finding \in SUBSET Ports : Slaves(finding) /\ HubStep /\ TxStep

Edge == Clock /\ (UartStart \/ UartShift)

(* An edge that ends the byte on the wire.                                  *)
EdgeByteDone == Clock /\ UartDone

UplinkNext == Edge \/ EdgeByteDone

UplinkSpec == UplinkInit /\ [][UplinkNext]_uplinkVars

-----------------------------------------------------------------------------
(* Properties.                                                              *)

(* Every register holds a value of its type; mux_state never takes one of   *)
(* the values 1 .. 7 that serial_transmit has no case for.                  *)
UplinkTypeOK ==
  /\ slave_nonces \in [Ports -> Nat]
  /\ sync \in [Ports -> Nat]
  /\ new_nonces_flag \in [Ports -> BOOLEAN]
  /\ port_counter \in Ports
  /\ slave_nonces_shifted \in Nonce
  /\ clear_nonces \in [Ports -> BOOLEAN]
  /\ serial_send_reg \in BOOLEAN
  /\ mux_state \in {0} \cup 8 .. 15
  /\ word_copy \in Nonce
  /\ bytes_left \in 0 .. 4
  /\ serial_start \in BOOLEAN
  /\ out_byte \in Byte
  /\ tx_idle \in BOOLEAN
  /\ outgoing \in Byte
  /\ hostbuf \in Seq(Byte)
  /\ words \in [Ports -> Nat]
  /\ last \in [Ports -> Nat]

(* The host never assembles a word from two nonces: whatever the hub        *)
(* selects while a word is going out, the bytes the host has of the current *)
(* word are the first bytes of one nonce, in order (serial.v 119-146).      *)
WordsIntact ==
  /\ Len(hostbuf) <= 4
  /\ \A k \in 1 .. Len(hostbuf) :
       hostbuf[k] = [nonce |-> hostbuf[1].nonce, idx |-> k]

(* The wait states keep serial_transmit in step with uart_transmitter: it   *)
(* never strobes a byte that the UART, still shifting, would ignore.        *)
NoByteDropped == serial_start => tx_idle

(* The hub never sends more words for a port than the port found nonces,    *)
(* although a flag stays up for two cycles after its nonce was selected and *)
(* the port may raise it again in between (hub_core.v 45-66).               *)
AtMostOnce == \A i \in Ports : words[i] <= slave_nonces[i]

(* A port whose nonce register and strobe change together (slave_receive)   *)
(* is reported in order and never twice with the same nonce; one whose      *)
(* strobe comes later (a core behind the synchroniser) may repeat a nonce   *)
(* but never goes back.                                                     *)
InOrder ==
  [][\A i \in Ports :
       words'[i] # words[i] =>
         IF SyncDelay[i] = 1 THEN last'[i] > last[i] ELSE last'[i] >= last[i]]_uplinkVars

(* A flag goes down without its nonce being sent only in the one cycle      *)
(* after another word was loaded, before hub_core can see serial_busy: at   *)
(* any other time a nonce that was flagged is remembered.                   *)
LossOnlyAtStart ==
  [][\A i \in Ports :
       new_nonces_flag[i] /\ ~new_nonces_flag'[i] =>
         \/ mux_state = 8
         \/ mux_state' = 8 /\ word_copy'.port = i]_uplinkVars

(* "Remember all nonces, even when they come too close together, and send   *)
(* them whenever the uplink is ready" (hub_core.v 15-16): a flag goes down  *)
(* only when its port's nonce is given to serial_transmit.                  *)
RememberAll ==
  [][\A i \in Ports :
       new_nonces_flag[i] /\ ~new_nonces_flag'[i] =>
         mux_state' = 8 /\ word_copy'.port = i]_uplinkVars

(* When the miners are silent the hub empties: a flagged port is served,    *)
(* and the uplink comes back to idle.                                       *)
Drains ==
  \A i \in Ports :
    new_nonces_flag[i] ~> ~new_nonces_flag[i] /\ ~serial_busy

-----------------------------------------------------------------------------
(* The inductive invariant behind the safety properties.                    *)

(* The host has exactly the first n bytes of the word being sent; before    *)
(* the first one it still has the previous word, or nothing.                *)
HostHas(n) ==
  IF n = 0 THEN Len(hostbuf) \in {0, 4}
  ELSE /\ Len(hostbuf) = n
       /\ \A k \in 1 .. n : hostbuf[k] = [nonce |-> word_copy, idx |-> k]

CurrentByte == [nonce |-> word_copy, idx |-> 4 - bytes_left]

(* Where the current byte is, in each phase of serial_transmit.             *)
ByteInv ==
  /\ mux_state = 0 => tx_idle /\ ~serial_start /\ HostHas(0)
  /\ mux_state \in {8, 10, 12, 14} =>
       /\ tx_idle /\ ~serial_start
       /\ 2 * bytes_left = 16 - mux_state
       /\ HostHas(4 - bytes_left)
  /\ mux_state \in {9, 11, 13, 15} =>
       /\ 2 * bytes_left = 15 - mux_state
       /\ \/ /\ serial_start /\ tx_idle
             /\ out_byte = CurrentByte
             /\ HostHas(3 - bytes_left)
          \/ /\ ~serial_start /\ ~tx_idle
             /\ outgoing = CurrentByte
             /\ HostHas(3 - bytes_left)
          \/ ~serial_start /\ tx_idle /\ HostHas(4 - bytes_left)

(* How the registers of hub_core follow a selection.                        *)
SelectInv ==
  /\ serial_send_reg => mux_state \in {0, 8}
  /\ \A i \in Ports : clear_nonces[i] => serial_send_reg
  /\ mux_state = 0 =>
       \A i \in Ports : clear_nonces[i] => slave_nonces_shifted.port = i

(* Every nonce found is in at most one place: strobed, flagged and not yet  *)
(* selected, on its way to serial_transmit, or loaded there.                *)
One(b) == IF b THEN 1 ELSE 0

InFlight(i) ==
  serial_send_reg /\ mux_state = 0 /\ slave_nonces_shifted.port = i

CountInv ==
  \A i \in Ports :
    words[i] + One(InFlight(i)) + One(new_nonces_flag[i] /\ ~clear_nonces[i])
      + One(sync[i] > 0) <= slave_nonces[i]

Pending(i) == sync[i] > 0 \/ (new_nonces_flag[i] /\ ~clear_nonces[i])

(* What is on its way is not older than the last word of its port.  Where   *)
(* the strobe is one edge behind the register (SyncDelay 1) it is newer,    *)
(* and while a further nonce is strobed or flagged the register is newer    *)
(* still.                                                                   *)
OrderInv ==
  \A i \in Ports :
    /\ last[i] <= slave_nonces[i]
    /\ InFlight(i) =>
         slave_nonces_shifted.seq \in last[i] .. slave_nonces[i]
    /\ SyncDelay[i] = 1 =>
         /\ sync[i] <= 1
         /\ InFlight(i) => last[i] < slave_nonces_shifted.seq
         /\ Pending(i) =>
              /\ last[i] < slave_nonces[i]
              /\ InFlight(i) => slave_nonces_shifted.seq < slave_nonces[i]

IInv == UplinkTypeOK /\ WordsIntact /\ ByteInv /\ SelectInv /\ CountInv /\ OrderInv

=============================================================================
