----------------------------- MODULE SerialPort -----------------------------
(***************************************************************************)
(* A pyserial port object as its program sees it: SerialBase of            *)
(* serialutil.py, with the settings it stores and hands to the back end,   *)
(* over any of the seven back ends.                                        *)
(***************************************************************************)
EXTENDS SerialPosix, SerialWin32, SerialLoop, SerialSocket, SerialCli, SerialJava

CONSTANT Kinds        (* The back ends to look at.                         *)

BackEnds == {"posix", "poll", "win32", "loop", "socket", "cli", "java"}

ASSUME SerialPortAssumption ==
  Kinds \subseteq BackEnds /\ MaxBytes \in Nat /\ None \notin {"zero", "some"}

Init ==
  /\ kind \in Kinds
  /\ name = "com" /\ isOpen = FALSE /\ handle = FALSE
  /\ stored = Defaults /\ device = Defaults /\ saved = Defaults
  /\ lines = [rts |-> FALSE, dtr |-> FALSE, brk |-> FALSE, cts |-> FALSE]
  /\ want = [rts |-> TRUE, dtr |-> TRUE]
  /\ failedOpen = FALSE /\ plugged = TRUE
  /\ rx = <<>> /\ next = 1 /\ queued = 0 /\ out = <<>>
  /\ call = NoCall
  /\ answer = [op |-> "none", ok |-> TRUE, data |-> <<>>]
  /\ budget \in Budgets

Posix == kind \in {"posix", "poll"}

Reconfigure(s) ==
  CASE Posix           -> PosixReconfigure(s, device)
    [] kind = "win32"  -> Win32Reconfigure(s, device, want)
    [] kind = "loop"   -> LoopReconfigure(s, device)
    [] kind = "socket" -> SocketReconfigure(device)
    [] kind = "cli"    -> CliReconfigure(s, device)
    [] kind = "java"   -> JavaReconfigure(s, device)

OpenAs(op) ==
  CASE Posix           -> PosixOpen(op)
    [] kind = "win32"  -> Win32Open(op)
    [] kind = "loop"   -> LoopOpen(op)
    [] kind = "socket" -> SocketOpen(op)
    [] kind = "cli"    -> CliOpen(op)
    [] kind = "java"   -> JavaOpen(op)

CloseAs ==
  CASE Posix           -> PosixClose
    [] kind = "win32"  -> Win32Close
    [] kind = "loop"   -> LoopClose
    [] kind = "socket" -> SocketClose
    [] kind = "cli"    -> CliClose
    [] kind = "java"   -> JavaClose

-----------------------------------------------------------------------------
(* Settings.                                                               *)

Spend(what) ==
  /\ Idle /\ budget[what] > 0
  /\ budget' = [budget EXCEPT ![what] = @ - 1]

(* A value is stored first and then, if the port is open, given to the     *)
(* back end: when it raises, what is stored and the device differ.         *)
Assign(key, v, Then(_)) ==
  /\ stored' = [stored EXCEPT ![key] = v]
  /\ IF isOpen
     THEN \E o \in Reconfigure(stored') :
            device' = o.dev /\ lines' = o.lines /\ Then(o.ok)
     ELSE UNCHANGED <<device, lines>> /\ Then(TRUE)
  /\ UNCHANGED <<name, isOpen, handle, want>>

Answered(ok) == Reply("set", ok, <<>>)
Rejected == Raise("set") /\ UNCHANGED config

SetBaudrate(v) == Assign("baudrate", v, Answered)
SetByteSize(v) == IF v = "bad" THEN Rejected ELSE Assign("bytesize", v, Answered)
SetParity(v) == IF v = "bad" THEN Rejected ELSE Assign("parity", v, Answered)
SetStopbits(v) == IF v = "bad" THEN Rejected ELSE Assign("stopbits", v, Answered)
SetTimeout(v) == IF v = "bad" THEN Rejected ELSE Assign("timeout", v, Answered)
SetWriteTimeout(v) ==
  IF v = "bad" THEN Rejected ELSE Assign("writeTimeout", v, Answered)
SetInterCharTimeout(v) ==
  IF v = "bad" THEN Rejected ELSE Assign("interCharTimeout", v, Answered)
SetXonXoff(v) == Assign("xonxoff", v, Answered)
SetRtsCts(v) == Assign("rtscts", v, Answered)

(* dsrdtr = None follows rtscts.                                           *)
SetDsrDtr(v) == Assign("dsrdtr", IF v = None THEN stored.rtscts ELSE v, Answered)

Set ==
  /\ Spend("sets")
  /\ \/ \E v \in Values("baudrate") : SetBaudrate(v)
     \/ \E v \in Values("bytesize") : SetByteSize(v)
     \/ \E v \in Values("parity") : SetParity(v)
     \/ \E v \in Values("stopbits") : SetStopbits(v)
     \/ \E v \in Values("timeout") : SetTimeout(v)
     \/ \E v \in Values("writeTimeout") : SetWriteTimeout(v)
     \/ \E v \in Values("interCharTimeout") : SetInterCharTimeout(v)
     \/ \E v \in BOOLEAN : SetXonXoff(v)
     \/ \E v \in BOOLEAN : SetRtsCts(v)
     \/ \E v \in BOOLEAN \union {None} : SetDsrDtr(v)
  /\ UNCHANGED <<kind, failedOpen, saved, plugged, data>>

GetSettingsDict ==
  /\ Idle /\ saved # stored
  /\ saved' = stored
  /\ UNCHANGED <<kind, failedOpen, config, plugged, data, call, answer, budget>>

(* applySettingsDict: each key that differs in its turn, through its       *)
(* setter; the first that raises ends it.  A setting that was refused but  *)
(* stored does not differ, so it is not tried again ("nothing").           *)
Apply ==
  /\ Spend("sets")
  /\ call' = [op |-> "apply", answer |-> "nothing"]
  /\ UNCHANGED <<kind, failedOpen, saved, plugged, config, data, answer>>
ApplyNext ==
  LET differ == {i \in DOMAIN Keys : saved[Keys[i]] # stored[Keys[i]]}
      first == Keys[CHOOSE i \in differ : \A j \in differ : i <= j]
      Then(ok) == IF ok THEN call' = [call EXCEPT !.answer = "apply"] /\ UNCHANGED answer
                  ELSE Raise("apply")
  IN /\ call.op = "apply"
     /\ IF differ = {} THEN Done(call.answer) /\ UNCHANGED config
        ELSE Assign(first, saved[first], Then)
     /\ UNCHANGED <<kind, failedOpen, saved, plugged, data, budget>>

-----------------------------------------------------------------------------
(* Opening and closing.                                                    *)

Open ==
  /\ Idle /\ OpenAs("open")
  /\ failedOpen' = ~isOpen'
  /\ UNCHANGED <<kind, saved, plugged, budget>>
Close ==
  /\ Spend("calls")
  /\ IF isOpen THEN CloseAs ELSE UNCHANGED <<isOpen, handle, stored, device, lines, want, data>>
  /\ Done("close")
  /\ UNCHANGED <<kind, failedOpen, name, saved, plugged>>

(* setPort: an open port is closed, and opened again as the new one.       *)
SetPort ==
  /\ Spend("calls")
  /\ \E n \in {"com", None} : name' = n
  /\ IF isOpen
     THEN /\ CloseAs
          /\ answer' = [op |-> "close", ok |-> TRUE, data |-> <<>>]
          /\ call' = [op |-> "port"]
     ELSE Done("port") /\ UNCHANGED <<isOpen, handle, stored, device, lines, want, data>>
  /\ UNCHANGED <<kind, failedOpen, saved, plugged>>
SetPortOpen ==
  /\ call.op = "port" /\ OpenAs("port")
  /\ failedOpen' = ~isOpen'
  /\ UNCHANGED <<kind, saved, plugged, budget>>

-----------------------------------------------------------------------------
(* Data.                                                                   *)

Reads == {"read", "readline", "readlines"}
NotOpen(op) == ~isOpen /\ Raise(op) /\ UNCHANGED data

Read(n) ==
  /\ Spend("calls")
  /\ \/ NotOpen("read")
     \/ isOpen /\ call' = [op |-> "read", size |-> n, held |-> <<>>]
        /\ UNCHANGED <<answer, data>>
  /\ UNCHANGED <<kind, failedOpen, config, saved, plugged>>

(* FileLike.readline and readlines; readlines refuses to wait for ever.    *)
ReadLine ==
  /\ Spend("calls")
  /\ \/ NotOpen("readline")
     \/ isOpen /\ call' = [op |-> "readline", size |-> 1, held |-> <<>>]
        /\ UNCHANGED <<answer, data>>
  /\ UNCHANGED <<kind, failedOpen, config, saved, plugged>>
ReadLines ==
  /\ Spend("calls")
  /\ IF stored.timeout = None \/ ~isOpen THEN Raise("readlines")
     ELSE call' = [op |-> "readlines", size |-> 1, held |-> <<>>] /\ UNCHANGED answer
  /\ UNCHANGED <<kind, failedOpen, config, saved, plugged, data>>

ReadStep ==
  /\ call.op \in Reads
  /\ CASE kind = "posix"  -> PosixRead
       [] kind = "poll"   -> PollRead
       [] kind = "win32"  -> Win32Read
       [] kind = "loop"   -> LoopRead
       [] kind = "socket" -> SocketRead
       [] kind = "cli"    -> CliRead
       [] kind = "java"   -> JavaRead
  /\ UNCHANGED <<kind, failedOpen, config, saved, plugged, budget>>

Write(n) ==
  /\ Spend("calls") /\ next + n <= MaxBytes + 1
  /\ \/ NotOpen("write")
     \/ /\ isOpen /\ next' = next + n
        /\ call' = [op |-> "write", bytes |-> [i \in 1 .. n |-> next + i - 1],
                    done |-> 0, wait |-> FALSE]
        /\ UNCHANGED <<rx, queued, out, answer>>
  /\ UNCHANGED <<kind, failedOpen, config, saved, plugged>>
WriteStep ==
  /\ call.op = "write"
  /\ CASE Posix           -> PosixWrite
       [] kind = "win32"  -> Win32Write
       [] kind = "loop"   -> LoopWrite
       [] kind = "socket" -> SocketWrite
       [] kind = "cli"    -> CliWrite
       [] kind = "java"   -> JavaWrite
  /\ UNCHANGED <<kind, failedOpen, config, saved, plugged, budget>>

(* flush waits in the Posix back end and does nothing elsewhere.           *)
Flush ==
  /\ Spend("calls") /\ isOpen /\ Posix
  /\ call' = [op |-> "flush"]
  /\ UNCHANGED <<kind, failedOpen, config, saved, plugged, data, answer>>
FlushStep ==
  /\ call.op = "flush" /\ PosixFlush
  /\ UNCHANGED <<kind, failedOpen, config, saved, plugged, budget>>

FlushInput ==
  /\ Spend("calls")
  /\ \/ NotOpen("flushInput")
     \/ isOpen /\ CASE Posix           -> PosixFlushInput
                    [] kind = "win32"  -> Win32FlushInput
                    [] kind = "loop"   -> LoopFlushInput
                    [] kind = "socket" -> SocketFlush("flushInput")
                    [] kind = "cli"    -> CliFlushInput
                    [] kind = "java"   -> JavaFlushInput
  /\ UNCHANGED <<kind, failedOpen, config, saved, plugged>>
FlushOutput ==
  /\ Spend("calls")
  /\ \/ NotOpen("flushOutput")
     \/ isOpen /\ CASE Posix           -> PosixFlushOutput
                    [] kind = "win32"  -> Win32FlushOutput
                    [] kind = "loop"   -> LoopFlushOutput
                    [] kind = "socket" -> SocketFlush("flushOutput")
                    [] kind = "cli"    -> CliFlushOutput
                    [] kind = "java"   -> JavaFlushOutput
  /\ UNCHANGED <<kind, failedOpen, config, saved, plugged>>

SetLine(l, v) ==
  CASE Posix           -> PosixSetLine(l, v)
    [] kind = "win32"  -> IF l = "brk" THEN Win32SetBreak(v) ELSE Win32SetLine(l, v)
    [] kind = "loop"   -> LoopSetLine(l, v)
    [] kind = "socket" -> SocketSetLine
    [] kind = "cli"    -> CliSetLine(l, v)
    [] kind = "java"   -> IF l = "brk" THEN JavaSetBreak ELSE JavaSetLine(l, v)
SendBreak ==
  CASE Posix           -> PosixSendBreak
    [] kind = "win32"  -> Win32SendBreak
    [] kind = "loop"   -> LoopSendBreak
    [] kind = "socket" -> SocketSetLine
    [] kind = "cli"    -> CliSendBreak
    [] kind = "java"   -> JavaSendBreak
Lines ==
  /\ Spend("calls") /\ isOpen /\ plugged
  /\ \/ \E l \in {"rts", "dtr", "brk"}, v \in BOOLEAN : SetLine(l, v)
     \/ SendBreak
  /\ UNCHANGED <<kind, failedOpen, name, isOpen, handle, stored, device, saved, plugged, data>>
GetLine ==
  /\ Spend("calls") /\ isOpen /\ plugged
  /\ CASE Posix           -> PosixGetLine
       [] kind = "win32"  -> Win32GetLine
       [] kind = "loop"   -> LoopGetLine
       [] kind = "socket" -> SocketGetLine
       [] kind = "cli"    -> CliGetLine
       [] kind = "java"   -> JavaGetLine
  /\ UNCHANGED <<kind, failedOpen, config, saved, plugged, data>>

-----------------------------------------------------------------------------
(* The device.                                                             *)

DeviceSends ==
  /\ isOpen /\ plugged /\ next <= MaxBytes
  /\ rx' = Append(rx, next) /\ next' = next + 1
  /\ UNCHANGED <<kind, failedOpen, config, saved, plugged, queued, out, call, answer, budget>>
DeviceTakes ==
  /\ plugged /\ queued > 0
  /\ queued' = queued - 1
  /\ UNCHANGED <<kind, failedOpen, config, saved, plugged, rx, next, out, call, answer, budget>>
Unplug ==
  /\ plugged /\ kind # "loop"
  /\ plugged' = FALSE /\ rx' = <<>>
  /\ UNCHANGED <<kind, failedOpen, config, saved, next, queued, out, call, answer, budget>>
Replug ==
  /\ ~plugged /\ ~handle
  /\ plugged' = TRUE
  /\ UNCHANGED <<kind, failedOpen, config, saved, data, call, answer, budget>>

Proceeds == ReadStep \/ WriteStep \/ FlushStep \/ ApplyNext \/ SetPortOpen
Next ==
  \/ Open \/ Close \/ SetPort \/ Set \/ GetSettingsDict \/ Apply
  \/ (\E n \in 1 .. 2 : Read(n) \/ Write(n))
  \/ ReadLine \/ ReadLines \/ Flush \/ FlushInput \/ FlushOutput
  \/ Lines \/ GetLine
  \/ Proceeds
  \/ DeviceSends \/ DeviceTakes \/ Unplug \/ Replug
Spec == Init /\ [][Next]_vars

(* A thread in a call goes on as long as it can.                           *)
FairSpec == Spec /\ WF_vars(Proceeds)

-----------------------------------------------------------------------------
(* Properties.                                                             *)

TypeOK ==
  /\ kind \in Kinds /\ name \in {"com", None}
  /\ isOpen \in BOOLEAN /\ handle \in BOOLEAN /\ plugged \in BOOLEAN
  /\ \A k \in ToSet(Keys) : stored[k] \in Values(k)
  /\ rx \in Seq(1 .. MaxBytes) /\ queued \in 0 .. OutRoom
  /\ answer.ok \in BOOLEAN

(* The refinement: every back end keeps the promise of ByteStream, but for *)
(* these breaches of it.  The port over a socket may drop bytes, as the    *)
(* next property shows; it and the one with poll() raise instead of        *)
(* waiting without a timeout, and poll() with an interCharTimeout raises   *)
(* where the timeout should end the read.                                  *)
Pending == IF call.op \in Reads THEN call.held \o rx ELSE rx
Asked == IF call.op \in Reads THEN call.size ELSE 0
Timed == stored.timeout # None \/ stored.interCharTimeout # None
Waits ==
  /\ kind \in {"poll", "socket"} => stored.timeout # None
  /\ kind = "poll" => device.interCharTimeout = None
Promise == INSTANCE ByteStream WITH
  Byte <- 1 .. MaxBytes, pending <- Pending, asked <- Asked, timed <- Timed,
  exact <- kind # "socket", waits <- Waits, up <- plugged
KeepsThePromise == Promise!Spec

(* "With no timeout it will block until the requested number of bytes is   *)
(* read" (protocol_socket.py 134-135), and with one it may return less: no *)
(* part of what a read has is lost when the next part comes.  Violated     *)
(* over a socket.                                                          *)
Whole == INSTANCE ByteStream WITH
  Byte <- 1 .. MaxBytes, pending <- Pending, asked <- Asked, timed <- Timed,
  exact <- TRUE, waits <- FALSE, up <- plugged
NothingOverwritten == Whole!Spec

(* The keys of the settings that reach the device.                         *)
DeviceKeys ==
  CASE Posix          -> PosixKeys
    [] kind = "win32" -> DriverTimeouts \union DcbKeys
    [] kind = "cli"   -> CliKeys
    [] kind = "java"  -> ParamKeys \union {"timeout"}
    [] OTHER          -> {}
Effective(key) ==
  IF Posix /\ key = "stopbits" /\ stored[key] = "1.5" THEN "2" ELSE stored[key]

(* After a call that changes settings and does not raise, the device works *)
(* with all the settings that the object shows, whatever calls were        *)
(* refused or half carried out before it.                                  *)
AgreedUnlessRaised ==
  (answer.op \in {"open", "set", "apply", "port"} /\ answer.ok /\ isOpen /\ Idle)
    => \A k \in DeviceKeys : device[k] = Effective(k)

(* A port that is not open holds no handle, so it can be opened again:     *)
(* close() always lets go of it, and only an open() that failed, and only  *)
(* on Windows and Java, leaves one behind.                                 *)
HandleAccounted ==
  /\ isOpen => handle \/ kind = "loop"
  /\ handle /\ ~isOpen => kind \in {"win32", "java"} /\ failedOpen

(* A write that returns has handed all of its bytes to the driver, in      *)
(* order and once, whatever parts the driver took them in.                 *)
WholeWrites ==
  [][call.op = "write" /\ Idle' /\ answer'.ok
       => /\ IsSuffix(call.bytes, out')
          /\ \A i, j \in DOMAIN out' : i < j => out'[i] < out'[j]]_vars

(* RTS and DTR on Windows are as the program set them, through every       *)
(* change of other settings, while no handshake owns them.                 *)
LinesKept ==
  kind = "win32" /\ isOpen /\ plugged =>
    /\ ~device.rtscts => lines.rts = want.rts
    /\ ~device.dsrdtr => lines.dtr = want.dtr

(* With a timeout a read ends, device or no device.                        *)
TimedReadsEnd ==
  (call.op \in Reads /\ stored.timeout # None) ~> Idle
=============================================================================
