--------------------------- MODULE Rfc2217Server ---------------------------
(***************************************************************************)
(* The server of examples/rfc2217_server.py with the PortManager of        *)
(* serial/rfc2217.py.  The main thread accepts one connection at a time    *)
(* and is then its writer, from the network to the serial port; a reader   *)
(* thread copies the other way and a poller watches the modem lines.       *)
(*                                                                         *)
(* External: the serial device.  One modem line stands for the four.       *)
(***************************************************************************)
EXTENDS Telnet

CONSTANTS
  DownData            (* The bytes the device sends, in this order.        *)

VARIABLES
  main,               (* The main thread: where it is, its connection, the *)
                      (* block it received and the data taken from it.     *)
  alive,              (* Redirector.alive.                                 *)
  manager,            (* PortManager: framing, options, whether the client *)
                      (* knows RFC 2217, and last_modemstate.              *)
  reader,             (* The reader thread: whether it runs and is in its  *)
                      (* read, and what it has read.                       *)
  poller,             (* The poller: where it is and the lines it saw.     *)
  settings,           (* The settings of the serial port,                  *)
  outLines,           (* its lines RTS, DTR and BREAK,                     *)
  cts,                (* the modem line,                                   *)
  rx,                 (* the bytes it received,                            *)
  arrived,            (* how many came so far,                             *)
  printed,            (* and, as a history, what it was given to send.     *)
  overlapped          (* History: two checks of the lines overlapped.      *)

server == <<main, alive, manager, reader, poller, settings, outLines, rx, printed, overlapped>>

InitialSettings ==
  [baudrate |-> "std", bytesize |-> "8", parity |-> "N", stopbits |-> "1",
   rtscts |-> FALSE, xonxoff |-> FALSE]

ServerOrder ==
  << <<"ECHO", "WILL">>, <<"SGA", "WILL">>, <<"SGA", "DO">>, <<"BINARY", "WILL">>,
     <<"BINARY", "DO">>, <<"COM", "WILL">>, <<"COM", "DO">> >>
ServerTable ==
  Table(ServerOrder, {<<"ECHO", "WILL">>, <<"SGA", "WILL">>, <<"BINARY", "DO">>, <<"COM", "WILL">>})

NewManager == [frame |-> Framing, options |-> ServerTable, clientOk |-> FALSE, last |-> "None"]
Waiting == [pc |-> "accept", conn |-> 0, block |-> <<>>, got |-> <<>>, saw |-> "None"]

ServerInit ==
  /\ main = Waiting /\ alive = FALSE /\ manager = NewManager
  /\ reader = [runs |-> FALSE, reading |-> FALSE, data |-> <<>>]
  /\ poller = [pc |-> "ended", saw |-> "None"]
  /\ settings = InitialSettings
  /\ outLines = [rts |-> FALSE, dtr |-> FALSE, brk |-> FALSE]
  /\ cts = "off" /\ rx = <<>> /\ arrived = 0 /\ printed = <<>>
  /\ overlapped = FALSE

Connected == main.conn # 0 /\ net[main.conn].client /\ net[main.conn].server = "open"
SendDown(bytes) == net' = [net EXCEPT ![main.conn].down = @ \o bytes]

-----------------------------------------------------------------------------
(* The main thread.                                                        *)

(* accept, the control lines, and a PortManager with its first requests; a *)
(* client that has gone already makes that fail.                           *)
Accept ==
  /\ main.pc = "accept"
  /\ \E c \in Conns :
       /\ net[c].server = "new"
       /\ \A d \in Conns : d < c => net[d].server # "new"
       /\ outLines' = [outLines EXCEPT !.rts = TRUE, !.dtr = TRUE]
       /\ manager' = NewManager
       /\ IF net[c].client
          THEN /\ net' = [net EXCEPT ![c].server = "open",
                                     ![c].down = Requests(ServerOrder, ServerTable)]
               /\ main' = [Waiting EXCEPT !.pc = "recv", !.conn = c]
               /\ alive' = TRUE
               /\ reader' = [runs |-> TRUE, reading |-> TRUE, data |-> <<>>]
               /\ poller' = [pc |-> "sleep", saw |-> "None"]
          ELSE /\ net' = [net EXCEPT ![c].server = "closed", ![c].up = <<>>]
               /\ UNCHANGED <<main, alive, reader, poller>>
  /\ overlapped' = FALSE
  /\ UNCHANGED <<settings, rx, printed>>

(* A block ends anywhere, so perhaps after its first byte.  alive is only  *)
(* looked at before recv.                                                  *)
Receive ==
  /\ main.pc = "recv"
  /\ LET up == net[main.conn].up IN
     \/ \E n \in {1, Len(up)} :
          /\ up # <<>>
          /\ main' = [main EXCEPT !.pc = "filter", !.block = SubSeq(up, 1, n), !.got = <<>>]
          /\ net' = [net EXCEPT ![main.conn].up = SubSeq(up, n + 1, Len(up))]
     \/ /\ ~alive \/ (up = <<>> /\ ~Connected)
        /\ main' = [main EXCEPT !.pc = "stop"] /\ UNCHANGED net
  /\ UNCHANGED <<alive, manager, reader, poller, settings, outLines, rx, printed, overlapped>>

(* The data of a block goes to the serial port when all of it is filtered. *)
WriteSerial ==
  /\ main.pc = "filter" /\ main.block = <<>>
  /\ printed' = printed \o main.got
  /\ main' = [main EXCEPT !.pc = "recv", !.got = <<>>]
  /\ UNCHANGED <<net, alive, manager, reader, poller, settings, outLines, rx, overlapped>>

(* The block, up to the next byte that has an effect.                      *)
Filtered == FirstEvent(manager.frame, main.block)
Rest == [main EXCEPT !.block = Filtered.rest]

(* A socket error: the rest of the block and its data are dropped.         *)
GiveUp == main' = [main EXCEPT !.pc = "stop", !.block = <<>>, !.got = <<>>] /\ UNCHANGED net
AnswerWith(bytes, then) ==
  IF Connected THEN SendDown(bytes) /\ main' = then ELSE GiveUp

(* MUTANT: the value asked for is confirmed, whatever became of it.        *)
SetSettingConfirms(key, value) ==
  /\ settings' = IF value = "refused" THEN settings ELSE [settings EXCEPT ![key] = value]
  /\ AnswerWith(SubBytes(key, value), Rest)
  /\ UNCHANGED <<outLines, rx>>

(* A value the port refuses is put back; the answer is what is in force.   *)
SetSetting(key, value) ==
  /\ settings' = IF value = "refused" THEN settings ELSE [settings EXCEPT ![key] = value]
  /\ AnswerWith(SubBytes(key, settings'[key]), Rest)
  /\ UNCHANGED <<outLines, rx>>

SetControl(value) ==
  /\ settings' = CASE value = "none" -> [settings EXCEPT !.xonxoff = FALSE, !.rtscts = FALSE]
                   [] value = "sw"   -> [settings EXCEPT !.xonxoff = TRUE]
                   [] value = "hw"   -> [settings EXCEPT !.rtscts = TRUE]
                   [] OTHER          -> settings
  /\ outLines' = CASE value = "rts on"    -> [outLines EXCEPT !.rts = TRUE]
                   [] value = "rts off"   -> [outLines EXCEPT !.rts = FALSE]
                   [] value = "dtr on"    -> [outLines EXCEPT !.dtr = TRUE]
                   [] value = "dtr off"   -> [outLines EXCEPT !.dtr = FALSE]
                   [] value = "break on"  -> [outLines EXCEPT !.brk = TRUE]
                   [] value = "break off" -> [outLines EXCEPT !.brk = FALSE]
                   [] OTHER               -> outLines
  /\ AnswerWith(SubBytes("control", value), Rest)
  /\ UNCHANGED rx

Purge(value) ==
  /\ rx' = IF value = "in" THEN <<>> ELSE rx
  /\ AnswerWith(SubBytes("purge", value), Rest)
  /\ UNCHANGED <<settings, outLines>>

ForcedCheck == [Rest EXCEPT !.pc = "check"]

ProcessSub(sub) ==
  CASE Len(sub) < 2 -> main' = Rest /\ UNCHANGED <<net, settings, outLines, rx>>
    [] Len(sub) = 2 /\ sub[1] = "control" -> SetControl(sub[2])
    [] Len(sub) = 2 /\ sub[1] = "purge" -> Purge(sub[2])
    [] Len(sub) = 2 /\ sub[1] = "poll" ->
         main' = ForcedCheck /\ UNCHANGED <<net, settings, outLines, rx>>
    [] OTHER -> SetSetting(sub[1], sub[2])

(* _client_ok, called when COM is activated, forces a notification.        *)
(* MUTANT: no notification is forced.                                      *)
ClientOkSilent == Rest
ClientOk == ForcedCheck

ProcessOption(event) ==
  LET n == NegotiateOption(manager.options, event.command, event.option)
      activated == \E d \in {"DO", "WILL"} :
        LET item == <<"COM", d>> IN
        n.table[item] = "active" /\ manager.options[item] # "active"
  IN /\ manager' = [manager EXCEPT !.frame.mode = "normal", !.options = n.table,
                                   !.clientOk = @ \/ activated]
     /\ IF n.bytes = <<>>
        THEN main' = (IF activated THEN ClientOk ELSE Rest) /\ UNCHANGED net
        ELSE AnswerWith(n.bytes, IF activated THEN ClientOk ELSE Rest)
     /\ UNCHANGED <<settings, outLines, rx>>

Filter ==
  /\ main.pc = "filter" /\ main.block # <<>>
  /\ LET d == Filtered
         framed == manager' = [manager EXCEPT !.frame = d.frame]
     IN \/ /\ d.event.kind = "none" /\ framed /\ main' = Rest
           /\ UNCHANGED <<net, settings, outLines, rx>>
        \/ /\ d.event.kind = "data" /\ framed
           /\ main' = [Rest EXCEPT !.got = Append(@, d.event.byte)]
           /\ UNCHANGED <<net, settings, outLines, rx>>
        \/ d.event.kind = "sub" /\ framed /\ ProcessSub(d.event.sub)
        \/ d.event.kind = "option" /\ ProcessOption(d.event)
  /\ UNCHANGED <<alive, reader, poller, printed, overlapped>>

(* check_modem_lines(force_notification=True), as the main thread runs it: *)
(* read the lines, notify, and only then remember what was seen.           *)
ForcedStep ==
  \/ /\ main.pc = "check"
     /\ main' = [main EXCEPT !.pc = "notify", !.saw = cts]
     /\ overlapped' = (overlapped \/ poller.pc \in {"notify", "save"})
     /\ UNCHANGED <<net, manager>>
  \/ /\ main.pc = "notify"
     /\ IF Connected
        THEN SendDown(SubBytes("modem", main.saw)) /\ main' = [main EXCEPT !.pc = "save"]
        ELSE GiveUp
     /\ UNCHANGED <<manager, overlapped>>
  \/ /\ main.pc = "save"
     /\ manager' = [manager EXCEPT !.last = main.saw]
     /\ main' = [main EXCEPT !.pc = "filter"]
     /\ UNCHANGED <<net, overlapped>>
Forced ==
  /\ ForcedStep
  /\ UNCHANGED <<alive, reader, poller, settings, outLines, rx, printed>>

(* stop waits for both threads, unless the reader has stopped already.     *)
Stop ==
  /\ main.pc = "stop"
  /\ main' = [main EXCEPT !.pc = IF alive THEN "join" ELSE "disconnect"]
  /\ alive' = FALSE
  /\ UNCHANGED <<net, manager, reader, poller, settings, outLines, rx, printed, overlapped>>

Disconnect ==
  /\ main.pc = "disconnect" \/ (main.pc = "join" /\ ~reader.runs /\ poller.pc = "ended")
  /\ net' = [net EXCEPT ![main.conn].server = "closed", ![main.conn].up = <<>>]
  /\ outLines' = [outLines EXCEPT !.rts = FALSE, !.dtr = FALSE]
  /\ settings' = InitialSettings
  /\ main' = Waiting
  /\ UNCHANGED <<alive, manager, reader, poller, rx, printed, overlapped>>

Main ==
  /\ Accept \/ Receive \/ WriteSerial \/ Filter \/ Forced \/ Stop \/ Disconnect
  /\ UNCHANGED left

-----------------------------------------------------------------------------
(* The reader thread: what is there is read and sent.  alive is only       *)
(* looked at before the read, which takes what comes until its timeout.    *)

ReadSerial ==
  /\ reader.runs /\ reader.reading /\ rx # <<>>
  /\ reader' = [reader EXCEPT !.data = rx, !.reading = FALSE] /\ rx' = <<>>
  /\ UNCHANGED <<net, main, alive, manager, poller, settings, outLines, printed, overlapped>>
SendData ==
  /\ reader.data # <<>>
  /\ IF Connected
     THEN /\ SendDown(Escape(reader.data)) /\ alive' = alive
          /\ reader' = [reader EXCEPT !.data = <<>>, !.reading = alive]
     ELSE UNCHANGED net /\ reader' = [reader EXCEPT !.runs = FALSE, !.data = <<>>] /\ alive' = FALSE
  /\ UNCHANGED <<main, manager, poller, settings, outLines, rx, printed, overlapped>>
ReaderStops ==
  /\ reader.runs /\ ~alive /\ reader.data = <<>>
  /\ reader' = [reader EXCEPT !.runs = FALSE, !.reading = FALSE]
  /\ UNCHANGED <<net, main, alive, manager, poller, settings, outLines, rx, printed, overlapped>>
ReaderThread == (ReadSerial \/ SendData \/ ReaderStops) /\ UNCHANGED left

(* The poller: a change is sent if the client knows RFC 2217, and then     *)
(* remembered.  A first look that finds all lines off is not sent.  alive  *)
(* is looked at before the sleep, so a look may follow the stop.           *)
PollLines ==
  /\ poller.pc = "sleep" /\ cts # manager.last /\ Spend("looks")
  /\ poller' = [pc |-> "notify", saw |-> cts]
  /\ overlapped' = (overlapped \/ main.pc \in {"notify", "save"})
  /\ UNCHANGED <<net, main, alive, manager, reader, settings, outLines, rx, printed>>
PollNotify ==
  /\ poller.pc = "notify"
  /\ LET sends == manager.clientOk /\ (poller.saw = "on" \/ manager.last = "on") IN
     IF sends /\ Connected
     THEN SendDown(SubBytes("modem", poller.saw)) /\ poller' = [poller EXCEPT !.pc = "save"]
     ELSE UNCHANGED net /\ poller' = [poller EXCEPT !.pc = IF sends THEN "ended" ELSE "save"]
  /\ UNCHANGED <<left, main, alive, manager, reader, settings, outLines, rx, printed, overlapped>>
PollSave ==
  /\ poller.pc = "save"
  /\ manager' = [manager EXCEPT !.last = poller.saw]
  /\ poller' = [poller EXCEPT !.pc = IF alive THEN "sleep" ELSE "ended"]
  /\ UNCHANGED <<left, net, main, alive, reader, settings, outLines, rx, printed, overlapped>>
PollerEnds ==
  /\ poller.pc = "sleep" /\ ~alive
  /\ poller' = [poller EXCEPT !.pc = "ended"]
  /\ UNCHANGED <<left, net, main, alive, manager, reader, settings, outLines, rx, printed, overlapped>>
Poller == PollLines \/ PollNotify \/ PollSave \/ PollerEnds
=============================================================================
