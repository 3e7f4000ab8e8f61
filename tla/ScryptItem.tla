----------------------------- MODULE ScryptItem -----------------------------
(* What a 1024 bit register of the engine holds: the scrypt input of a      *)
(* nonce of a work, the result that ROMix computes from it, or neither.     *)

Item(k, w, n) == [kind |-> k, work |-> w, nonce |-> n]
Junk == Item("junk", 0, 0)

Mixed(x) == IF x.kind = "in" THEN [x EXCEPT !.kind = "out"] ELSE Junk

=============================================================================
