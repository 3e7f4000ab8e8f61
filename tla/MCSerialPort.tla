---------------------------- MODULE MCSerialPort ----------------------------
(* The port over all back ends, for model checking; byte 2 ends a line.    *)
EXTENDS SerialPort
MCNewlines == {2}
MCBudgets == {[calls |-> 3, sets |-> 0], [calls |-> 2, sets |-> 1], [calls |-> 1, sets |-> 2]}
=============================================================================
