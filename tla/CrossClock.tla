----------------------------- MODULE CrossClock -----------------------------
(* The clock crossing used all over the design: a toggle register of the    *)
(* sending clock is shifted through three registers of the receiving clock, *)
(* and the receiver acts when the last two differ.  A crossing is the three *)
(* differences between neighbouring bits, which is all that matters of it.  *)
EXTENDS Naturals

Crossing == [1 .. 3 -> BOOLEAN]
Still == [b \in 1 .. 3 |-> FALSE]

(* The sender toggles its bit.                                              *)
Toggle(c) == [c EXCEPT ![1] = ~ @]

(* One edge of the receiving clock.                                         *)
Shift(c) == [b \in 1 .. 3 |-> b # 1 /\ c[b - 1]]

(* The last two bits differ: the receiver sees the event on this edge.      *)
Arrived(c) == c[3]

=============================================================================
