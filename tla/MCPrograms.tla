----------------------------- MODULE MCPrograms -----------------------------
(* A small instance of Programs.                                           *)
EXTENDS Programs

MCDeviceList == <<"ttyUSB0", "ttyUSB1">>
None == [plugs |-> 0, bytes |-> 0, port |-> 0, bind |-> 0, service |-> 0,
         connects |-> 0, sends |-> 0, moving |-> Devices]

(* Two devices that come and go, with one client; and one device: with     *)
(* ports and sockets that fail, and with two clients.                      *)
One(b) ==
  [present |-> {"ttyUSB0"}, budget |-> [b EXCEPT !.moving = {"ttyUSB0"}]]
MCScenarios ==
  {[present |-> Devices,
    budget |-> [None EXCEPT !.plugs = 2, !.service = 1, !.connects = 1]],
   One([None EXCEPT !.plugs = 2, !.port = 1, !.bind = 1, !.connects = 1]),
   One([None EXCEPT !.plugs = 1, !.bytes = 1, !.sends = 2, !.connects = 2])}
=============================================================================
