---------------------------- MODULE MCSerialLine ----------------------------
(* The three sides of the line, with the ports of MCHubCore.               *)
EXTENDS MCHubCore, SerialLine
=============================================================================
