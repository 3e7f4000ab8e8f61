----------------------------- MODULE MCRfc2217 -----------------------------
(* A small instance of Rfc2217, one scenario per question.                 *)
EXTENDS Rfc2217

MCUpData == <<"IAC", "u1">>
MCDownData == <<"IAC", "d1">>
None == [opens |-> 1, sets |-> 0, calls |-> 0, timeouts |-> 0, cuts |-> 0, flips |-> 0,
         looks |-> 0, bytes |-> 0, overtakes |-> 0, ignore |-> FALSE]
MCScenarios ==
  {[None EXCEPT !.sets = 2, !.timeouts = 1],
   [None EXCEPT !.calls = 2, !.bytes = 1],
   [None EXCEPT !.calls = 1, !.cuts = 1, !.bytes = 1],
   [None EXCEPT !.opens = 2, !.calls = 1, !.timeouts = 1],
   [None EXCEPT !.calls = 1, !.flips = 1, !.looks = 2],
   [None EXCEPT !.calls = 1, !.ignore = TRUE],
   [None EXCEPT !.sets = 1, !.overtakes = 2]}
MCOneOpen == {[None EXCEPT !.overtakes = 7]}
MCSettle ==
  {[None EXCEPT !.timeouts = 1, !.cuts = 1, !.overtakes = 7],
   [None EXCEPT !.opens = 2, !.timeouts = 1, !.overtakes = 1]}
=============================================================================
