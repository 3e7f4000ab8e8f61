---------------------------- MODULE SerialState ----------------------------
(***************************************************************************)
(* The state of one pyserial port object: what serialutil.SerialBase       *)
(* keeps, what the operating system keeps for it, and the call that the    *)
(* program has in progress.  Shared by the modules of the back ends.       *)
(*                                                                         *)
(* Bytes are numbered in the order in which they come into being, so a     *)
(* lost, repeated or reordered byte shows.  A call is one action from its  *)
(* start to its end unless it can block.  External: the device with its    *)
(* driver, which sends, takes output when it likes, and may be unplugged.  *)
(***************************************************************************)
EXTENDS Integers, Sequences, SequencesExt

CONSTANTS
  None,               (* Python's None.                                    *)
  Newlines,           (* The bytes that end a line.                        *)
  MaxBytes,           (* Bounds: bytes in a behaviour,                     *)
  Budgets,            (* how many calls for data and for settings,         *)
  OutRoom             (* and the size of the driver's output queue.        *)

VARIABLES
  kind,               (* The back end.                                     *)
  name,               (* _port is set, or None.                            *)
  isOpen,             (* _isOpen.                                          *)
  handle,             (* The operating system has the device open for us.  *)
  stored,             (* The settings _baudrate ... _interCharTimeout,     *)
  device,             (* those the device or its driver works with,        *)
  saved,              (* and a copy made by getSettingsDict.               *)
  failedOpen,         (* History: the last open() left the port not open.  *)
  lines,              (* The lines RTS, DTR, BREAK and CTS.                *)
  want,               (* Windows: _rtsState and _dtrState.                 *)
  plugged,            (* The device is there.                              *)
  rx,                 (* Bytes received and not read.                      *)
  next,               (* The number of the next byte.                      *)
  queued,             (* How many bytes the driver has yet to send.        *)
  out,                (* History: the bytes handed to the driver.          *)
  call,               (* The call in progress.                             *)
  answer,             (* What the last call returned or raised.            *)
  budget              (* Calls that the program may still make.            *)

config == <<name, isOpen, handle, stored, device, lines, want>>
data == <<rx, next, queued, out>>
vars == <<kind, failedOpen, config, saved, plugged, data, call, answer, budget>>

Keys == <<"baudrate", "bytesize", "parity", "stopbits", "xonxoff",
          "dsrdtr", "rtscts", "timeout", "writeTimeout", "interCharTimeout">>

Flags == {"xonxoff", "dsrdtr", "rtscts"}
Timeouts == {"timeout", "writeTimeout", "interCharTimeout"}

(* What a setter may be given: "bad" stands for every value that it or the *)
(* driver refuses, "custom" for a baud rate outside the tables.            *)
Values(key) ==
  CASE key = "baudrate" -> {"std", "custom", "bad"}
    [] key = "bytesize" -> {"8", "bad"}
    [] key = "parity"   -> {"N", "M", "bad"}
    [] key = "stopbits" -> {"1", "1.5", "bad"}
    [] key \in Flags    -> BOOLEAN
    [] key = "interCharTimeout" -> {None, "some", "bad"}
    [] OTHER            -> {None, "zero", "some", "bad"}

Defaults == [k \in ToSet(Keys) |->
  CASE k = "baudrate" -> "std" [] k = "bytesize" -> "8" [] k = "parity" -> "N"
    [] k = "stopbits" -> "1" [] k \in Flags -> FALSE [] OTHER -> None]

NoCall == [op |-> "none"]
Idle == call = NoCall
Reply(op, ok, bytes) ==
  /\ answer' = [op |-> op, ok |-> ok, data |-> bytes]
  /\ call' = NoCall
Raise(op) == Reply(op, FALSE, <<>>)
Done(op) == Reply(op, TRUE, <<>>)

(* What _reconfigurePort may make of the device: applied, or refused.      *)
Applied(d) == [dev |-> d, lines |-> lines, ok |-> TRUE]
Refused(d) == [dev |-> d, lines |-> lines, ok |-> FALSE]

(* Setting the keys ks of the device to what is stored.                    *)
Put(d, ks, s) == [k \in DOMAIN d |-> IF k \in ks THEN s[k] ELSE d[k]]

CanOpen == name # None /\ ~isOpen
OpenFails(op) == Raise(op) /\ UNCHANGED <<config, data>>
Emptied == rx' = <<>> /\ queued' = 0 /\ UNCHANGED <<next, out>>

(* The operating system lets go of the device when it is closed.           *)
Released ==
  /\ isOpen' = FALSE /\ handle' = FALSE
  /\ Emptied
  /\ UNCHANGED <<stored, device, lines, want>>

Smaller(a, b) == IF a < b THEN a ELSE b

(* The bytes read() has, and the size it asks for.  readline() and         *)
(* readlines() read one byte at a time: the next one unless it is done.    *)
GoesOn(op, held) ==
  \/ op = "readline" /\ Last(held) \notin Newlines
  \/ op = "readlines"

(* read() adds n of the waiting bytes to what it has, and is done or not.  *)
Take(n) ==
  LET held == call.held \o SubSeq(rx, 1, n)
      full == Len(held) = call.size
  IN /\ rx' = SubSeq(rx, n + 1, Len(rx))
     /\ IF full /\ ~GoesOn(call.op, held)
        THEN Reply(call.op, TRUE, held)
        ELSE /\ call' = [call EXCEPT !.held = held,
                                     !.size = IF full THEN @ + 1 ELSE @]
             /\ UNCHANGED answer
     /\ UNCHANGED <<next, queued, out>>

(* The timeout: what is there is returned.                                 *)
ReturnHeld == Reply(call.op, TRUE, call.held) /\ UNCHANGED data
ReadFails == Raise(call.op) /\ UNCHANGED data
Room == call.size - Len(call.held)

(* The driver takes n more bytes of a write.                               *)
Accept(n) ==
  /\ queued + n <= OutRoom
  /\ queued' = queued + n
  /\ out' = out \o SubSeq(call.bytes, call.done + 1, call.done + n)
  /\ UNCHANGED <<rx, next>>
Unsent == Len(call.bytes) - call.done
WriteFails == Raise("write") /\ UNCHANGED data
=============================================================================
