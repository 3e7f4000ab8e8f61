----------------------------- MODULE MCHubCore -----------------------------
(* Three ports as in the default build: two local cores, whose strobe is    *)
(* three or four edges behind their nonce, and one external board.          *)
EXTENDS HubCore

MCSyncDelay == [i \in 0 .. 2 |-> CASE i = 0 -> 3 [] i = 1 -> 4 [] i = 2 -> 1]
MCMaxFinds == [i \in 0 .. 2 |-> IF i = 1 THEN 1 ELSE 2]
=============================================================================
