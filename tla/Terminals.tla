----------------------------- MODULE Terminals -----------------------------
(***************************************************************************)
(* Three programs that copy from a serial port in a thread of their own:   *)
(*   miniterm   serial/tools/miniterm.py: a main thread that waits, a      *)
(*              writer thread that obeys the keys, a reader thread;        *)
(*   wxTerminal examples/wxTerminal.py: the window's thread and a reader;  *)
(*   redirect   examples/tcp_serial_redirect.py: the main thread, which is *)
(*              the writer while a client is connected, and a reader.      *)
(* Each stops its reader by a flag, waits for it, and only then closes or  *)
(* changes the port, or serves the next client; the read must have a       *)
(* timeout for that.  An exception nobody caught ends its thread.          *)
(*                                                                         *)
(* External: the user, the clients and the device.  What the bytes are and *)
(* how they are shown is left out.                                         *)
(***************************************************************************)
EXTENDS Naturals, FiniteSets

CONSTANTS
  MaxActs,            (* How often the user, a client or a device acts.    *)
  Interruptible       (* Whether Ctrl-C reaches the main thread of         *)
                      (* miniterm (elsewhere than on posix).               *)

ASSUME TerminalsAssumption == MaxActs \in Nat

VARIABLES
  program,            (* Which of the three it is, or "off".               *)
  control,            (* The thread that obeys: the writer of miniterm,    *)
                      (* the window, the main thread of redirect.          *)
  waiting,            (* The main thread of miniterm.                      *)
  alive, readerAlive, (* The flags; only miniterm has two.                 *)
  readers,            (* The reader threads, in the order of their start.  *)
  started,            (* How many there are.                               *)
  port,               (* The port in use.                                  *)
  shown,              (* rts_state, dtr_state and break_state.             *)
  chosen,             (* History: the settings the user chose last.        *)
  newSerial,          (* What the local variable of that name refers to.   *)
  lost,               (* History: the port in use was closed by mistake.   *)
  peer,               (* The client of redirect.                           *)
  acts

threads == <<control, waiting, alive, readerAlive, readers, started>>
things == <<port, shown, chosen, newSerial, lost, peer>>
terminals == <<program, threads, things, acts>>

Threads == 1 .. MaxActs + 1
Closed == [open |-> FALSE, gone |-> FALSE, timed |-> TRUE, settings |-> "start",
           lines |-> [rts |-> TRUE, dtr |-> TRUE, brk |-> FALSE]]

Act == acts > 0 /\ acts' = acts - 1
Usable == port.open /\ ~port.gone

TerminalsOff ==
  /\ program = "off"
  /\ control = "off" /\ waiting = "off" /\ alive = FALSE /\ readerAlive = TRUE
  /\ readers = [r \in Threads |-> "none"] /\ started = 0
  /\ port = Closed /\ shown = Closed.lines /\ chosen = "start"
  /\ newSerial = "none" /\ lost = FALSE /\ peer = "none" /\ acts = 0

(* miniterm starts with an open port, forced lines and both threads.       *)
MinitermInit ==
  /\ program = "miniterm" /\ control = "test" /\ waiting = "join"
  /\ alive = TRUE /\ readerAlive = TRUE
  /\ started = 1 /\ readers = [r \in Threads |-> IF r = 1 THEN "test" ELSE "none"]
  /\ \E rts, dtr \in BOOLEAN :
       /\ shown = [rts |-> rts, dtr |-> dtr, brk |-> FALSE]
       /\ port = [Closed EXCEPT !.open = TRUE, !.lines = shown]
  /\ chosen = "start" /\ newSerial = "none" /\ lost = FALSE /\ peer = "none" /\ acts = MaxActs

(* wxTerminal with its first dialog, or redirect with its port open.       *)
OtherInit ==
  /\ \/ program = "wxTerminal" /\ control = "first dialog" /\ port = Closed
     \/ program = "redirect" /\ control = "accept" /\ port = [Closed EXCEPT !.open = TRUE]
  /\ waiting = "off" /\ alive = FALSE /\ readerAlive = TRUE
  /\ started = 0 /\ readers = [r \in Threads |-> "none"]
  /\ shown = Closed.lines /\ chosen = "start" /\ newSerial = "none" /\ lost = FALSE
  /\ peer = "none" /\ acts = MaxActs

-----------------------------------------------------------------------------
(* The reader thread.                                                      *)

StartReader ==
  /\ started' = started + 1
  /\ readers' = [readers EXCEPT ![started + 1] = "test"]
NoReader == UNCHANGED <<started, readers>>

(* MUTANT: nobody waits for the reader.                                    *)
JoinedAtOnce == TRUE
Joined == IF started = 0 THEN TRUE ELSE readers[started] = "ended"

ReaderTests(r) ==
  /\ readers[r] = "test"
  /\ readers' = [readers EXCEPT ![r] = IF alive /\ readerAlive THEN "read" ELSE "ended"]
  /\ alive' = IF program = "redirect" THEN alive /\ readerAlive ELSE alive
  /\ UNCHANGED <<program, control, waiting, readerAlive, started, things, acts>>

(* A byte or a timeout; only redirect may fail to pass a byte on.          *)
ReaderReads(r) ==
  /\ readers[r] = "read" /\ Usable
  /\ \/ /\ port.timed
        /\ readers' = [readers EXCEPT ![r] = "test"] /\ UNCHANGED <<alive, acts>>
     \/ /\ Act
        /\ IF program = "redirect" /\ peer = "left"
           THEN readers' = [readers EXCEPT ![r] = "ended"] /\ alive' = FALSE
           ELSE readers' = [readers EXCEPT ![r] = "test"] /\ alive' = alive
  /\ UNCHANGED <<program, control, waiting, readerAlive, started, things>>

(* The device is gone, which miniterm catches as a SerialException, or the *)
(* port is closed, which is a ValueError.                                  *)
ReaderFails(r) ==
  /\ readers[r] = "read" /\ ~Usable
  /\ readers' = [readers EXCEPT ![r] = "ended"]
  /\ alive' = IF program = "miniterm" /\ port.open THEN FALSE ELSE alive
  /\ UNCHANGED <<program, control, waiting, readerAlive, started, things, acts>>

Reader == \E r \in Threads : ReaderTests(r) \/ ReaderReads(r) \/ ReaderFails(r)

-----------------------------------------------------------------------------
(* miniterm: the writer.                                                   *)

Dies == control' = "ended" /\ alive' = FALSE
Obeys == control' = "test" /\ alive' = alive
DiesUnlessUsable == IF Usable THEN Obeys ELSE Dies

(* alive is looked at before every key, so also between the one for the    *)
(* menu and the next.                                                      *)
WriterTests ==
  /\ program = "miniterm" /\ control \in {"test", "menu test"}
  /\ control' = IF ~alive THEN "ended" ELSE IF control = "test" THEN "key" ELSE "menu"
  /\ UNCHANGED <<program, waiting, alive, readerAlive, readers, started, things, acts>>

(* MUTANT: the flag is not cleared.                                        *)
StopKeepsAlive == alive' = alive
Stop == alive' = FALSE

(* A key that is sent, the key that exits, or the one for the menu.        *)
Key ==
  /\ program = "miniterm" /\ control = "key" /\ Act
  /\ \/ DiesUnlessUsable
     \/ control' = "ended" /\ Stop
     \/ control' = "menu test" /\ alive' = alive
  /\ UNCHANGED <<program, waiting, readerAlive, readers, started, things>>

(* What is only shown or changes what is shown; the state of the lines is  *)
(* asked of the port.                                                      *)
MenuShow ==
  /\ program = "miniterm" /\ control = "menu" /\ Act
  /\ Obeys \/ DiesUnlessUsable
  /\ UNCHANGED <<program, waiting, readerAlive, readers, started, things>>

(* A file is sent, if it can be read.  An error of the device when it is   *)
(* written to is an IOError and taken for one of the file, when it is      *)
(* flushed it is not; nor is that of a closed port.                        *)
MenuUpload ==
  /\ program = "miniterm" /\ control = "menu" /\ Act
  /\ Obeys \/ DiesUnlessUsable
  /\ UNCHANGED <<program, waiting, readerAlive, readers, started, things>>

MenuLine ==
  /\ program = "miniterm" /\ control = "menu" /\ Act
  /\ \E line \in {"rts", "dtr", "brk"} :
       /\ shown' = [shown EXCEPT ![line] = ~@]
       /\ port' = IF Usable THEN [port EXCEPT !.lines[line] = ~shown[line]] ELSE port
  /\ DiesUnlessUsable
  /\ UNCHANGED <<program, waiting, readerAlive, readers, started, chosen, newSerial, lost, peer>>

(* A setting, which is then shown with the lines.  A baud rate that is     *)
(* refused is put back.                                                    *)
MenuSetting ==
  /\ program = "miniterm" /\ control = "menu" /\ Act
  /\ \/ chosen' = (IF Usable THEN "changed" ELSE chosen)
        /\ port' = (IF Usable THEN [port EXCEPT !.settings = "changed"] ELSE port)
        /\ DiesUnlessUsable
     \/ /\ UNCHANGED <<chosen, port>>
        /\ IF port.open THEN DiesUnlessUsable ELSE Obeys
  /\ UNCHANGED <<program, waiting, readerAlive, readers, started, shown, newSerial, lost, peer>>

(* A change of the port: first _stop_reader.                               *)
MenuPort ==
  /\ program = "miniterm" /\ control = "menu" /\ Act
  /\ control' = "change" /\ readerAlive' = FALSE
  /\ UNCHANGED <<program, waiting, alive, readers, started, things>>

(* MUTANT: the new port does not get the break condition of the old one.   *)
NewPortNoBreak ==
  [open |-> TRUE, gone |-> FALSE, timed |-> port.timed, settings |-> port.settings,
   lines |-> [shown EXCEPT !.brk = FALSE]]

(* applySettingsDict, the timeout among them, open and the three lines.    *)
NewPort ==
  [open |-> TRUE, gone |-> FALSE, timed |-> port.timed, settings |-> port.settings,
   lines |-> shown]

(* The reader has stopped.  The new port opens; or it does not; or its     *)
(* name is a URL of no known protocol, so that new_serial, which is then   *)
(* closed, is unbound or what an earlier change bound it to.               *)
ChangePort ==
  /\ program = "miniterm" /\ control = "change" /\ Joined
  /\ \/ port' = NewPort /\ newSerial' = "in use" /\ lost' = lost
     \/ newSerial' = "another" /\ UNCHANGED <<port, lost>>
     \/ newSerial # "none"
        /\ port' = [port EXCEPT !.open = @ /\ newSerial # "in use"]
        /\ lost' = (lost \/ newSerial = "in use")
        /\ newSerial' = newSerial
  /\ control' = "test" /\ readerAlive' = TRUE /\ StartReader
  /\ UNCHANGED <<program, waiting, alive, shown, chosen, peer, acts>>

ChangeUnbound ==
  /\ program = "miniterm" /\ control = "change" /\ Joined /\ newSerial = "none"
  /\ Dies
  /\ UNCHANGED <<program, waiting, readerAlive, readers, started, things, acts>>

(* The main thread: join(True), then join.                                 *)
MainWaits ==
  /\ program = "miniterm"
  /\ \/ waiting = "join" /\ control = "ended" /\ waiting' = "join all" /\ acts' = acts
     \/ waiting = "join" /\ Interruptible /\ Act /\ waiting' = "join all"
     \/ waiting = "join all" /\ control = "ended" /\ Joined /\ waiting' = "exit" /\ acts' = acts
  /\ UNCHANGED <<program, control, alive, readerAlive, readers, started, things>>

-----------------------------------------------------------------------------
(* wxTerminal: the thread of the window.  An exception in the handler of a *)
(* key is reported and changes nothing.                                    *)

(* The dialog: on startup it may be cancelled, which closes the window;    *)
(* later the port is opened in any case.  Until that succeeds it is shown  *)
(* again.                                                                  *)
Dialog ==
  /\ control \in {"first dialog", "dialog"} /\ Act
  /\ \/ /\ port' = [port EXCEPT !.open = TRUE, !.gone = FALSE]
        /\ control' = "idle" /\ alive' = TRUE /\ StartReader
     \/ UNCHANGED <<port, control, alive>> /\ NoReader
     \/ control = "first dialog" /\ control' = "close" /\ alive' = FALSE /\ port' = port /\ NoReader
  /\ UNCHANGED <<program, waiting, readerAlive, shown, chosen, newSerial, lost, peer>>

(* OnPortSettings and OnClose stop the thread first.                       *)
Leave ==
  /\ control = "idle" /\ Act
  /\ \E why \in {"settings", "close"} : control' = why
  /\ alive' = FALSE
  /\ UNCHANGED <<program, waiting, readerAlive, readers, started, things>>

Stopped ==
  /\ control \in {"settings", "close"} /\ Joined
  /\ port' = [port EXCEPT !.open = FALSE]
  /\ control' = IF control = "settings" THEN "dialog" ELSE "exit"
  /\ UNCHANGED <<program, waiting, alive, readerAlive, readers, started, shown, chosen, newSerial,
                 lost, peer, acts>>

-----------------------------------------------------------------------------
(* redirect: the main thread.                                              *)

Accept ==
  /\ control = "accept" /\ Act
  /\ peer' = "open" /\ alive' = TRUE /\ StartReader /\ control' = "copy"
  /\ UNCHANGED <<program, waiting, readerAlive, port, shown, chosen, newSerial, lost>>

(* Data for the port: nobody catches what a port that is gone raises, and  *)
(* the program ends.  alive is looked at before the next recv.             *)
Copy ==
  /\ control = "copy" /\ peer = "open" /\ Act
  /\ control' = IF ~Usable THEN "exit" ELSE IF alive THEN "copy" ELSE "join"
  /\ UNCHANGED <<program, waiting, alive, readerAlive, readers, started, things>>
PeerLeft ==
  /\ control = "copy" /\ peer = "left"
  /\ control' = "join" /\ alive' = FALSE
  /\ UNCHANGED <<program, waiting, readerAlive, readers, started, things, acts>>
NextClient ==
  /\ control = "join" /\ Joined
  /\ control' = "accept" /\ peer' = "none"
  /\ UNCHANGED <<program, waiting, alive, readerAlive, readers, started, port, shown, chosen,
                 newSerial, lost, acts>>

-----------------------------------------------------------------------------
DeviceGoes ==
  /\ program # "off" /\ port.open /\ ~port.gone /\ Act
  /\ port' = [port EXCEPT !.gone = TRUE]
  /\ UNCHANGED <<program, threads, shown, chosen, newSerial, lost, peer>>
PeerLeaves ==
  /\ peer = "open" /\ peer' = "left"
  /\ UNCHANGED <<program, threads, port, shown, chosen, newSerial, lost, acts>>

(* What a thread does without anybody's doing, and what is done to it.     *)
Control == WriterTests \/ ChangePort \/ ChangeUnbound \/ MainWaits \/ Stopped \/ PeerLeft \/ NextClient
Deeds ==
  \/ Key \/ MenuShow \/ MenuUpload \/ MenuLine \/ MenuSetting \/ MenuPort
  \/ Dialog \/ Leave \/ Accept \/ Copy \/ DeviceGoes \/ PeerLeaves
TerminalsNext == Reader \/ Control \/ Deeds

-----------------------------------------------------------------------------
(* Properties.                                                             *)

(* No two readers run, whichever way the first was told to stop, and a     *)
(* port is not closed or exchanged while a reader is in a call on it.      *)
(* (Except for the port that miniterm closes by mistake.)                  *)
OneReader ==
  /\ Cardinality({r \in Threads : readers[r] \in {"test", "read"}}) <= 1
  /\ (\E r \in Threads : readers[r] = "read") => port.open \/ lost

(* The port that miniterm uses, however often it was changed and whether   *)
(* that failed, is open, has the settings chosen last, a timeout, and the  *)
(* lines as they are shown; unless a URL of no known protocol was given    *)
(* after a successful change, which closes the port in use.                *)
CarriedOver ==
  (program = "miniterm" /\ control \in {"test", "key", "menu test", "menu"} /\ ~lost)
    => /\ port.open /\ port.timed /\ port.settings = chosen
       /\ port.lines = shown

(* A program that was told to end ends, and a redirect that lost its       *)
(* client comes back for the next one: the reader is always waited for in  *)
(* finite time, whatever became of the port.                               *)
EndsWhenAsked ==
  /\ (program = "miniterm" /\ control = "ended") ~> (waiting = "exit")
  /\ (control \in {"change", "settings", "close"}) ~> (control \notin {"change", "settings", "close"})
  /\ (peer = "left") ~> (peer # "left" \/ control = "exit")
=============================================================================
