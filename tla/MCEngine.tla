------------------------------ MODULE MCEngine ------------------------------
(* The periods of hash_clk for 100 and 33 MHz when pbkdf_clk, at 50 MHz,    *)
(* has period 2; 10 MHz; and the default speed, 25 MHz.                     *)
EXTENDS Engine

FastAndMedium == {1, 3}
TenMHz == {10}
TwentyFiveMHz == {4}
=============================================================================
