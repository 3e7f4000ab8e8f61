-------------------------- MODULE SerialPortProofs --------------------------
(***************************************************************************)
(* Proofs about a port object, for every set of back ends, every budget of *)
(* calls and every size of the driver's queue: whatever calls failed or    *)
(* were half carried out before, the settings shown are those in use, the  *)
(* handle and the lines are accounted for, a write hands over all of its   *)
(* bytes in order, and the object keeps the promise of ByteStream.         *)
(***************************************************************************)
EXTENDS SerialPort, SequenceTheorems, TLAPS

KeySet == ToSet(Keys)

(* What the steps need to know of the types.                               *)
Shape ==
  /\ kind \in BackEnds
  /\ isOpen \in BOOLEAN /\ handle \in BOOLEAN /\ plugged \in BOOLEAN
  /\ DOMAIN stored = KeySet /\ DOMAIN device = KeySet
  /\ lines \in [rts : BOOLEAN, dtr : BOOLEAN, brk : BOOLEAN, cts : BOOLEAN]
  /\ want \in [rts : BOOLEAN, dtr : BOOLEAN]
  /\ "op" \in DOMAIN call

(* The device works with what is stored.                                   *)
Agreed == isOpen => \A k \in DeviceKeys : device[k] = Effective(k)

(* applySettingsDict in progress: what it went through was given to the    *)
(* device.                                                                 *)
Applying ==
  call.op = "apply" =>
    /\ call \in [op : {"apply"}, answer : {"nothing", "apply"}]
    /\ call.answer = "apply" => Agreed

SettingsInv ==
  Shape /\ HandleAccounted /\ LinesKept /\ AgreedUnlessRaised /\ Applying

-----------------------------------------------------------------------------
(* What _reconfigurePort makes of the device, in any back end.             *)

LEMMA KeysAre ==
  KeySet = {"baudrate", "bytesize", "parity", "stopbits", "xonxoff",
            "dsrdtr", "rtscts", "timeout", "writeTimeout", "interCharTimeout"}
<1>1. DOMAIN Keys = 1 .. 10  BY DEF Keys
<1> QED  BY <1>1 DEF KeySet, ToSet, Keys

EffectiveOf(s, key) ==
  IF Posix /\ key = "stopbits" /\ s[key] = "1.5" THEN "2" ELSE s[key]

(* A result of _reconfigurePort, for the settings s and the line states w. *)
Outcome(o, s, w) ==
  /\ DOMAIN o.dev = KeySet /\ (o.ok = TRUE \/ o.ok = FALSE)
  /\ o.lines \in [rts : BOOLEAN, dtr : BOOLEAN, brk : BOOLEAN, cts : BOOLEAN]
  /\ o.ok => \A k \in DeviceKeys : o.dev[k] = EffectiveOf(s, k)
  /\ kind = "win32" /\ o.ok =>
       /\ ~o.dev.rtscts => o.lines.rts = w.rts
       /\ ~o.dev.dsrdtr => o.lines.dtr = w.dtr
  /\ kind = "win32" /\ ~o.ok =>
       o.lines = lines /\ o.dev.rtscts = device.rtscts /\ o.dev.dsrdtr = device.dsrdtr

LEMMA AppliedIs ==
  ASSUME NEW d
  PROVE  Applied(d).dev = d /\ Applied(d).lines = lines /\ Applied(d).ok = TRUE
BY DEF Applied

LEMMA RefusedIs ==
  ASSUME NEW d
  PROVE  Refused(d).dev = d /\ Refused(d).lines = lines /\ Refused(d).ok = FALSE
BY DEF Refused

LEMMA PutIs ==
  ASSUME NEW d, NEW ks, NEW s
  PROVE  /\ DOMAIN Put(d, ks, s) = DOMAIN d
         /\ \A k \in DOMAIN d : Put(d, ks, s)[k] = IF k \in ks THEN s[k] ELSE d[k]
BY DEF Put

LEMMA AppliedOutcome ==
  ASSUME Shape, kind # "win32", NEW s, NEW d, DOMAIN d = KeySet,
         \A k \in DeviceKeys : d[k] = EffectiveOf(s, k), NEW w
  PROVE  Outcome(Applied(d), s, w)
BY AppliedIs DEF Shape, Outcome

LEMMA RefusedOutcome ==
  ASSUME Shape, kind # "win32", NEW s, NEW d, DOMAIN d = KeySet, NEW w
  PROVE  Outcome(Refused(d), s, w)
BY RefusedIs DEF Shape, Outcome

LEMMA PosixOutcome ==
  ASSUME Shape, Posix, NEW s, DOMAIN s = KeySet,
         NEW o \in PosixReconfigure(s, device), NEW w
  PROVE  Outcome(o, s, w)
<1> DEFINE two == IF s.stopbits = "1.5" THEN "2" ELSE s.stopbits
           p == Put(device, PosixKeys, s)
           t == [p EXCEPT !.stopbits = two]
           slow == [t EXCEPT !.baudrate = "38400"]
<1>1. o = Refused(device) \/ o = Refused(slow) \/ o = Applied(t)
  BY DEF PosixReconfigure
<1>2. DOMAIN p = KeySet  BY PutIs DEF Shape
<1>3. \A k \in PosixKeys : p[k] = s[k]  BY PutIs, KeysAre DEF Shape, PosixKeys
<1> HIDE DEF p
<1>4. DOMAIN t = KeySet /\ DOMAIN slow = KeySet  BY <1>2
<1>5. \A k \in PosixKeys : t[k] = EffectiveOf(s, k)
  BY <1>2, <1>3, KeysAre DEF EffectiveOf, PosixKeys
<1> HIDE DEF t, slow
<1>6. DeviceKeys = PosixKeys /\ kind # "win32"  BY DEF DeviceKeys, Posix
<1> QED  BY <1>1, <1>4, <1>5, <1>6, AppliedOutcome, RefusedOutcome DEF Shape

LEMMA Win32Outcome ==
  ASSUME Shape, kind = "win32", NEW s, DOMAIN s = KeySet,
         NEW w \in [rts : BOOLEAN, dtr : BOOLEAN],
         NEW o \in Win32Reconfigure(s, device, w)
  PROVE  Outcome(o, s, w)
<1> DEFINE t == Put(device, DriverTimeouts, s)
           all == Put(t, DcbKeys, s)
           l == [lines EXCEPT !.rts = IF s.rtscts THEN @ ELSE w.rts,
                              !.dtr = IF s.dsrdtr THEN @ ELSE w.dtr]
           taken == [Applied(all) EXCEPT !.lines = l]
<1>1. o = Refused(t) \/ o = taken  BY DEF Win32Reconfigure
<1>2. DOMAIN t = KeySet /\ DOMAIN all = KeySet  BY PutIs DEF Shape
<1>3. /\ \A k \in DriverTimeouts : t[k] = s[k]
      /\ t.rtscts = device.rtscts /\ t.dsrdtr = device.dsrdtr
  BY PutIs, KeysAre DEF Shape, DriverTimeouts
<1> HIDE DEF t
<1>4. \A k \in DriverTimeouts \union DcbKeys : all[k] = s[k]
  BY <1>2, <1>3, PutIs, KeysAre DEF DriverTimeouts, DcbKeys
<1> HIDE DEF all
<1>5. taken.dev = all /\ taken.lines = l /\ taken.ok = TRUE  BY DEF Applied
<1>6. /\ l \in [rts : BOOLEAN, dtr : BOOLEAN, brk : BOOLEAN, cts : BOOLEAN]
      /\ ~s.rtscts => l.rts = w.rts
      /\ ~s.dsrdtr => l.dtr = w.dtr
  BY DEF Shape
<1> HIDE DEF l, taken
<1>7. /\ DeviceKeys = DriverTimeouts \union DcbKeys
      /\ \A k : EffectiveOf(s, k) = s[k]
  BY DEF DeviceKeys, Posix, EffectiveOf
<1>8. CASE o = Refused(t)  BY <1>2, <1>3, <1>8, RefusedIs DEF Shape, Outcome
<1>9. CASE o = taken
  BY <1>2, <1>4, <1>5, <1>6, <1>7, <1>9 DEF Outcome, DcbKeys
<1> QED  BY <1>1, <1>8, <1>9

LEMMA CliOutcome ==
  ASSUME Shape, kind = "cli", NEW s, DOMAIN s = KeySet,
         NEW o \in CliReconfigure(s, device), NEW w
  PROVE  Outcome(o, s, w)
<1> DEFINE timeouts == Put(device, {"timeout", "writeTimeout"}, s)
           format == Put(timeouts, {"baudrate", "bytesize", "parity"}, s)
           all == Put(device, CliKeys, s)
<1>1. o = Refused(timeouts) \/ o = Refused(format) \/ o = Applied(all)
  BY DEF CliReconfigure
<1>2. DOMAIN timeouts = KeySet /\ DOMAIN all = KeySet  BY PutIs DEF Shape
<1>3. DOMAIN format = KeySet  BY <1>2, PutIs
<1>4. \A k \in CliKeys : all[k] = s[k]  BY PutIs, KeysAre DEF Shape, CliKeys
<1>5. DeviceKeys = CliKeys /\ \A k : EffectiveOf(s, k) = s[k]
  BY DEF DeviceKeys, Posix, EffectiveOf
<1> HIDE DEF timeouts, format, all
<1> QED  BY <1>1, <1>2, <1>3, <1>4, <1>5, AppliedOutcome, RefusedOutcome DEF Shape

LEMMA JavaOutcome ==
  ASSUME Shape, kind = "java", NEW s, DOMAIN s = KeySet,
         NEW o \in JavaReconfigure(s, device), NEW w
  PROVE  Outcome(o, s, w)
<1> DEFINE brief == [device EXCEPT !.timeout = "some"]
           all == Put(device, ParamKeys \union {"timeout"}, s)
<1>1. o = Refused(device) \/ o = Refused(brief) \/ o = Applied(all)
  BY DEF JavaReconfigure
<1>2. DOMAIN brief = KeySet /\ DOMAIN all = KeySet  BY PutIs DEF Shape
<1>3. \A k \in ParamKeys \union {"timeout"} : all[k] = s[k]
  BY PutIs, KeysAre DEF Shape, ParamKeys
<1>4. DeviceKeys = ParamKeys \union {"timeout"} /\ \A k : EffectiveOf(s, k) = s[k]
  BY DEF DeviceKeys, Posix, EffectiveOf
<1> HIDE DEF brief, all
<1> QED  BY <1>1, <1>2, <1>3, <1>4, AppliedOutcome, RefusedOutcome DEF Shape

LEMMA PlainOutcome ==
  ASSUME Shape, kind \in {"loop", "socket"}, NEW s, DOMAIN s = KeySet,
         NEW o \in LoopReconfigure(s, device) \union SocketReconfigure(device), NEW w
  PROVE  Outcome(o, s, w)
<1>1. o = Applied(device) \/ o = Refused(device)
  BY DEF LoopReconfigure, SocketReconfigure
<1>2. DeviceKeys = {} /\ kind # "win32"  BY DEF DeviceKeys, Posix
<1> QED  BY <1>1, <1>2, AppliedOutcome, RefusedOutcome DEF Shape

LEMMA AnyOutcome ==
  ASSUME Shape, NEW s, DOMAIN s = KeySet, NEW o \in Reconfigure(s)
  PROVE  Outcome(o, s, want)
<1>1. CASE Posix
  <2>1. o \in PosixReconfigure(s, device)  BY <1>1 DEF Reconfigure, Posix
  <2> QED  BY <1>1, <2>1, PosixOutcome
<1>2. CASE kind = "win32"
  <2>1. o \in Win32Reconfigure(s, device, want)  BY <1>2 DEF Reconfigure, Posix
  <2> QED  BY <1>2, <2>1, Win32Outcome DEF Shape
<1>3. CASE kind = "loop"
  <2>1. o \in LoopReconfigure(s, device)  BY <1>3 DEF Reconfigure, Posix
  <2> QED  BY <1>3, <2>1, PlainOutcome
<1>4. CASE kind = "socket"
  <2>1. o \in SocketReconfigure(device)  BY <1>4 DEF Reconfigure, Posix
  <2> QED  BY <1>4, <2>1, PlainOutcome
<1>5. CASE kind = "cli"
  <2>1. o \in CliReconfigure(s, device)  BY <1>5 DEF Reconfigure, Posix
  <2> QED  BY <1>5, <2>1, CliOutcome
<1>6. CASE kind = "java"
  <2>1. o \in JavaReconfigure(s, device)  BY <1>6 DEF Reconfigure, Posix
  <2> QED  BY <1>6, <2>1, JavaOutcome
<1> QED  BY <1>1, <1>2, <1>3, <1>4, <1>5, <1>6 DEF Shape, BackEnds, Posix

-----------------------------------------------------------------------------
(* Steps that leave the settings and the handle alone.                     *)

Settling == {"open", "set", "apply", "port"}

(* The call goes on, or ends with an answer that promises no settings.     *)
Quietly ==
  /\ "op" \in DOMAIN call'
  /\ \/ UNCHANGED <<call, answer>>
     \/ call'.op \notin {"none", "apply"}
     \/ call' = [op |-> "apply", answer |-> "nothing"]
     \/ call' = NoCall /\ (answer'.op \notin Settling \/ ~answer'.ok)

LEMMA ReplyIs ==
  ASSUME NEW op, NEW ok, NEW bytes, Reply(op, ok, bytes)
  PROVE  /\ call' = NoCall /\ "op" \in DOMAIN call'
         /\ answer'.op = op /\ answer'.ok = ok
BY DEF Reply, NoCall

LEMMA ReplyQuiet ==
  ASSUME NEW op, NEW ok, NEW bytes, Reply(op, ok, bytes), op \notin Settling \/ ok = FALSE
  PROVE  Quietly
BY ReplyIs DEF Quietly

LEMMA GoesOnQuiet ==
  ASSUME "op" \in DOMAIN call', call'.op \notin {"none", "apply"}
  PROVE  Quietly
BY DEF Quietly

(* A failed open stays on record until the next open.                      *)
Recorded == failedOpen' = failedOpen \/ failedOpen' = ~isOpen'

LEMMA QuietKeeps ==
  ASSUME SettingsInv, Shape', LinesKept', Quietly, Recorded,
         UNCHANGED <<kind, isOpen, handle, stored, device>>
  PROVE  SettingsInv'
<1>1. HandleAccounted'  BY DEF SettingsInv, HandleAccounted, Recorded
<1>2. UNCHANGED DeviceKeys /\ \A k : Effective(k)' = Effective(k)
  BY DEF DeviceKeys, Posix, Effective
<1>3. UNCHANGED Agreed  BY <1>2 DEF Agreed
<1>4. AgreedUnlessRaised'
  <2>1. CASE UNCHANGED <<call, answer>>
    BY <1>2, <2>1 DEF SettingsInv, AgreedUnlessRaised, Idle, NoCall
  <2>2. CASE call'.op # "none"  BY <2>2 DEF AgreedUnlessRaised, Idle, NoCall
  <2>3. CASE answer'.op \notin Settling \/ ~answer'.ok
    BY <2>3 DEF AgreedUnlessRaised, Settling
  <2> QED  BY <2>1, <2>2, <2>3 DEF Quietly
<1>5. Applying'
  <2>1. CASE UNCHANGED <<call, answer>>  BY <1>3, <2>1 DEF SettingsInv, Applying
  <2>2. CASE call'.op # "apply"  BY <2>2 DEF Applying
  <2>3. CASE call' = [op |-> "apply", answer |-> "nothing"]  BY <2>3 DEF Applying
  <2> QED  BY <2>1, <2>2, <2>3 DEF Quietly, NoCall
<1> QED  BY <1>1, <1>4, <1>5 DEF SettingsInv

(* The same when the device stays and its lines do.                        *)
LEMMA DataKeeps ==
  ASSUME SettingsInv, Quietly, Recorded, UNCHANGED <<kind, config, plugged>>
  PROVE  SettingsInv'
<1>1. Shape'  BY DEF SettingsInv, Shape, Quietly, config
<1>2. LinesKept'  BY DEF SettingsInv, LinesKept, config
<1> QED  BY <1>1, <1>2, QuietKeeps DEF config

LEMMA TakeQuiet ==
  ASSUME Shape, call.op \in Reads, NEW n, Take(n) PROVE Quietly
<1>1. CASE \E held : Reply(call.op, TRUE, held)
  BY <1>1, ReplyQuiet DEF Reads, Settling
<1>2. CASE \E held, size : call' = [call EXCEPT !.held = held, !.size = size]
  BY <1>2, GoesOnQuiet DEF Shape, Reads
<1> QED  BY <1>1, <1>2 DEF Take

LEMMA EndsQuiet ==
  ASSUME call.op \in Reads, ReturnHeld \/ ReadFails PROVE Quietly
BY ReplyQuiet DEF ReturnHeld, ReadFails, Raise, Reads, Settling

LEMMA ReadQuiet == ASSUME Shape, ReadStep PROVE Quietly
<1>1. call.op \in Reads  BY DEF ReadStep
<1>2. CASE (\E n : Take(n)) \/ ReturnHeld \/ ReadFails
  BY <1>1, <1>2, TakeQuiet, EndsQuiet
<1>3. CASE kind = "socket"
  <2>1. SocketRead  BY <1>3 DEF ReadStep
  <2>2. CASE \E held : Reply(call.op, TRUE, held)
    BY <1>1, <2>2, ReplyQuiet DEF Reads, Settling
  <2>3. CASE \E held, size : call' = [call EXCEPT !.held = held, !.size = size]
    BY <1>1, <2>3, GoesOnQuiet DEF Shape, Reads
  <2>4. CASE \E held : call' = [call EXCEPT !.held = held]
    BY <1>1, <2>4, GoesOnQuiet DEF Shape, Reads
  <2> QED  BY <1>1, <2>1, <2>2, <2>3, <2>4, EndsQuiet DEF SocketRead
<1> QED
  BY <1>2, <1>3 DEF ReadStep, Shape, BackEnds,
     PosixRead, PollRead, Win32Read, LoopRead, CliRead, JavaRead

LEMMA WriteQuiet == ASSUME Shape, WriteStep PROVE Quietly
<1>1. call.op = "write"  BY DEF WriteStep
<1>2. CASE \E ok, bytes : Reply("write", ok, bytes)
  BY <1>2, ReplyQuiet DEF Settling
<1>3. CASE \E n : call' = [call EXCEPT !.done = n]
  BY <1>1, <1>3, GoesOnQuiet DEF Shape
<1>4. CASE \E v : call' = [call EXCEPT !.wait = v]
  BY <1>1, <1>4, GoesOnQuiet DEF Shape
<1>5. CASE \E n, v : call' = [call EXCEPT !.done = n, !.wait = v]
  BY <1>1, <1>5, GoesOnQuiet DEF Shape
<1>6. ASSUME WriteFails PROVE Quietly  BY <1>2, <1>6 DEF WriteFails, Raise
<1>7. ASSUME PosixWrite PROVE Quietly
  <2>1. CASE \E n \in 1 .. Unsent :
               IF stored.writeTimeout = "some" \/ n < Unsent
               THEN call' = [call EXCEPT !.done = @ + n,
                                         !.wait = stored.writeTimeout = "some"]
               ELSE Reply("write", TRUE, call.bytes)
    BY <1>2, <1>5, <2>1
  <2> QED  BY <1>2, <1>4, <1>6, <1>7, <2>1 DEF PosixWrite
<1>8. ASSUME Win32Write PROVE Quietly
  BY <1>2, <1>3, <1>6, <1>8 DEF Win32Write
<1>9. ASSUME LoopWrite \/ SocketWrite \/ CliWrite \/ JavaWrite PROVE Quietly
  BY <1>2, <1>3, <1>6, <1>9 DEF LoopWrite, SocketWrite, CliWrite, JavaWrite
<1> QED  BY <1>7, <1>8, <1>9 DEF WriteStep, Shape, BackEnds, Posix

LEMMA StartQuiet ==
  ASSUME \/ \E n \in 1 .. 2 : Read(n) \/ Write(n)
         \/ ReadLine \/ ReadLines \/ Flush \/ Apply
  PROVE  Quietly /\ UNCHANGED <<kind, failedOpen, config, plugged>>
<1>1. ASSUME NEW op \in Reads \union {"write"}, Raise(op) PROVE Quietly
  BY <1>1, ReplyQuiet DEF Raise, Reads, Settling
<1>2. ASSUME NEW n, Read(n) PROVE Quietly
  <2>1. CASE call' = [op |-> "read", size |-> n, held |-> <<>>]
    BY <2>1, GoesOnQuiet
  <2> QED  BY <1>1, <1>2, <2>1 DEF Read, NotOpen, Reads
<1>3. ASSUME NEW n, Write(n) PROVE Quietly
  <2>1. CASE call' = [op |-> "write", bytes |-> [i \in 1 .. n |-> next + i - 1],
                      done |-> 0, wait |-> FALSE]
    BY <2>1, GoesOnQuiet
  <2> QED  BY <1>1, <1>3, <2>1 DEF Write, NotOpen
<1>4. ASSUME ReadLine \/ ReadLines PROVE Quietly
  <2>1. CASE \E op \in Reads : call' = [op |-> op, size |-> 1, held |-> <<>>]
    BY <2>1, GoesOnQuiet DEF Reads
  <2> QED  BY <1>1, <1>4, <2>1 DEF ReadLine, ReadLines, NotOpen, Reads
<1>5. ASSUME Flush PROVE Quietly  BY <1>5, GoesOnQuiet DEF Flush
<1>6. ASSUME Apply PROVE Quietly  BY <1>6 DEF Apply, Quietly
<1>7. UNCHANGED <<kind, failedOpen, config, plugged>>
  BY DEF Read, Write, ReadLine, ReadLines, Flush, Apply
<1> QED  BY <1>2, <1>3, <1>4, <1>5, <1>6, <1>7

LEMMA EmptyQuiet ==
  ASSUME FlushStep \/ FlushInput \/ FlushOutput, Shape
  PROVE  Quietly /\ UNCHANGED <<kind, failedOpen, config, plugged>>
<1>1. CASE FlushStep
  BY <1>1, ReplyQuiet DEF FlushStep, PosixFlush, Raise, Done, Settling
<1>2. CASE FlushInput
  <2>1. \E ok : Reply("flushInput", ok, <<>>)
    BY <1>2 DEF FlushInput, NotOpen, Raise, Done, Shape, BackEnds, Posix,
       PosixFlushInput, Win32FlushInput, LoopFlushInput, SocketFlush,
       CliFlushInput, JavaFlushInput
  <2> QED  BY <1>2, <2>1, ReplyQuiet DEF FlushInput, Settling
<1>3. CASE FlushOutput
  <2>1. \E ok : Reply("flushOutput", ok, <<>>)
    BY <1>3 DEF FlushOutput, NotOpen, Raise, Done, Shape, BackEnds, Posix,
       PosixFlushOutput, Win32FlushOutput, LoopFlushOutput, SocketFlush,
       CliFlushOutput, JavaFlushOutput
  <2> QED  BY <1>3, <2>1, ReplyQuiet DEF FlushOutput, Settling
<1> QED  BY <1>1, <1>2, <1>3

LEMMA GetLineQuiet ==
  ASSUME GetLine, Shape
  PROVE  Quietly /\ UNCHANGED <<kind, failedOpen, config, plugged>>
<1>1. \E bytes : Reply("query", TRUE, bytes)
  BY DEF GetLine, Shape, BackEnds, Posix, PosixGetLine, Win32GetLine, LoopGetLine,
     SocketGetLine, CliGetLine, JavaGetLine
<1> QED  BY <1>1, ReplyQuiet DEF GetLine, Settling

(* The control lines: on Windows one that is not handled by the driver     *)
(* takes the state that is remembered.                                     *)
LEMMA LinesKeeps == ASSUME SettingsInv, Lines PROVE SettingsInv'
<1>1. \E ok : Reply("line", ok, <<>>)
  BY DEF Lines, SettingsInv, Shape, BackEnds, Posix, SetLine, SendBreak, Done, Raise,
     PosixSetLine, PosixSendBreak, Win32SetLine, Win32SetBreak, Win32SendBreak,
     LoopSetLine, LoopSendBreak, SocketSetLine, CliSetLine, CliSendBreak,
     JavaSetLine, JavaSetBreak, JavaSendBreak
<1>2. Quietly  BY <1>1, ReplyQuiet DEF Settling
<1>3. lines' \in [rts : BOOLEAN, dtr : BOOLEAN, brk : BOOLEAN, cts : BOOLEAN]
  <2>1. CASE lines' = lines  BY <2>1 DEF SettingsInv, Shape
  <2>2. CASE \E l \in {"rts", "dtr", "brk"}, v \in BOOLEAN : lines' = [lines EXCEPT ![l] = v]
    BY <2>2 DEF SettingsInv, Shape
  <2>3. CASE \E v \in BOOLEAN : lines' = [lines EXCEPT !.rts = v, !.cts = v]
    BY <2>3 DEF SettingsInv, Shape
  <2>4. CASE SendBreak
    BY <2>1, <2>4 DEF SettingsInv, Shape, BackEnds, Posix, SendBreak, PosixSendBreak,
       Win32SendBreak, LoopSendBreak, SocketSetLine, CliSendBreak, JavaSendBreak
  <2>5. ASSUME NEW l \in {"rts", "dtr", "brk"}, NEW v \in BOOLEAN, SetLine(l, v)
        PROVE  \/ lines' = lines \/ lines' = [lines EXCEPT ![l] = v]
               \/ lines' = [lines EXCEPT !.rts = v, !.cts = v]
    BY <2>5 DEF SettingsInv, Shape, BackEnds, Posix, SetLine, PosixSetLine,
       Win32SetLine, Win32SetBreak, LoopSetLine, SocketSetLine, CliSetLine,
       JavaSetLine, JavaSetBreak
  <2> QED  BY <2>1, <2>2, <2>3, <2>4, <2>5 DEF Lines
<1>4. want' \in [rts : BOOLEAN, dtr : BOOLEAN]
  <2>1. CASE want' = want  BY <2>1 DEF SettingsInv, Shape
  <2>2. CASE \E l \in {"rts", "dtr", "brk"}, v \in BOOLEAN : want' = [want EXCEPT ![l] = v]
    BY <2>2 DEF SettingsInv, Shape
  <2>3. CASE kind = "win32"
    BY <2>1, <2>2, <2>3 DEF Lines, Posix, SetLine, SendBreak,
       Win32SetLine, Win32SetBreak, Win32SendBreak
  <2>4. CASE kind # "win32"
    <3>1. want' = want
      BY <2>4 DEF Lines, SettingsInv, Shape, BackEnds, Posix, SetLine, SendBreak,
         PosixSetLine, PosixSendBreak, LoopSetLine, LoopSendBreak, SocketSetLine,
         CliSetLine, CliSendBreak, JavaSetLine, JavaSetBreak, JavaSendBreak
    <3> QED  BY <2>1, <3>1
  <2> QED  BY <2>3, <2>4
<1>5. UNCHANGED <<kind, failedOpen, isOpen, handle, stored, device, plugged>>  BY DEF Lines
<1>6. Shape'  BY <1>2, <1>3, <1>4, <1>5 DEF SettingsInv, Shape, Quietly
<1>7. LinesKept'
  <2> SUFFICES ASSUME kind = "win32", isOpen PROVE LinesKept'
    BY <1>5 DEF LinesKept
  <2>1. LinesKept /\ plugged  BY DEF SettingsInv, Lines
  <2>2. CASE \E l \in {"rts", "dtr"}, v \in BOOLEAN : Win32SetLine(l, v)
    BY <1>5, <2>1, <2>2 DEF LinesKept, Win32SetLine, SettingsInv, Shape
  <2>3. CASE \E v \in BOOLEAN : Win32SetBreak(v)
    BY <1>5, <2>1, <2>3 DEF LinesKept, Win32SetBreak, SettingsInv, Shape
  <2>4. CASE Win32SendBreak  BY <1>5, <2>1, <2>4 DEF LinesKept, Win32SendBreak
  <2> QED  BY <2>2, <2>3, <2>4 DEF Lines, SetLine, SendBreak, Posix
<1> QED  BY <1>2, <1>5, <1>6, <1>7, QuietKeeps DEF Recorded

(* A device that goes away has no lines; it comes back to a closed port.   *)
LEMMA DeviceKeeps ==
  ASSUME SettingsInv, DeviceSends \/ DeviceTakes \/ Unplug \/ Replug
  PROVE  SettingsInv'
<1>1. UNCHANGED <<kind, failedOpen, config, call, answer>> /\ plugged' \in BOOLEAN
  BY DEF DeviceSends, DeviceTakes, Unplug, Replug, SettingsInv, Shape
<1>2. Quietly /\ Shape'  BY <1>1 DEF Quietly, SettingsInv, Shape, config
<1>3. LinesKept'
  BY <1>1 DEF DeviceSends, DeviceTakes, Unplug, Replug, SettingsInv, LinesKept,
     HandleAccounted, config
<1> QED  BY <1>1, <1>2, <1>3, QuietKeeps DEF config, Recorded

-----------------------------------------------------------------------------
(* Setters.                                                                *)

(* Assign, with what it tells Then() as its outcome.                       *)
Assigned(key, v, ok) ==
  /\ stored' = [stored EXCEPT ![key] = v]
  /\ IF isOpen
     THEN \E o \in Reconfigure(stored') :
            device' = o.dev /\ lines' = o.lines /\ o.ok = ok
     ELSE UNCHANGED <<device, lines>> /\ ok = TRUE
  /\ UNCHANGED <<name, isOpen, handle, want>>

LEMMA AssignedSound ==
  ASSUME SettingsInv, NEW key, NEW v, NEW ok, Assigned(key, v, ok),
         UNCHANGED <<kind, failedOpen, plugged>>, "op" \in DOMAIN call'
  PROVE  /\ Shape' /\ HandleAccounted' /\ LinesKept'
         /\ ok = TRUE \/ ok = FALSE
         /\ ok = TRUE => Agreed'
<1>1. DOMAIN stored' = KeySet  BY DEF Assigned, SettingsInv, Shape
<1>2. CASE ~isOpen
  <2>1. Shape'  BY <1>1, <1>2 DEF Assigned, SettingsInv, Shape
  <2>2. HandleAccounted' /\ LinesKept' /\ Agreed'
    BY <1>2 DEF Assigned, SettingsInv, HandleAccounted, LinesKept, Agreed
  <2> QED  BY <1>2, <2>1, <2>2 DEF Assigned
<1>3. CASE isOpen
  <2>1. PICK o \in Reconfigure(stored') : device' = o.dev /\ lines' = o.lines /\ o.ok = ok
    BY <1>3 DEF Assigned
  <2>2. Outcome(o, stored', want)  BY <1>1, <2>1, AnyOutcome DEF SettingsInv
  <2>3. UNCHANGED <<kind, failedOpen, isOpen, handle, want, plugged>>  BY DEF Assigned
  <2>4. Shape'  BY <1>1, <2>1, <2>2, <2>3 DEF SettingsInv, Shape, Outcome
  <2>5. HandleAccounted'  BY <2>3 DEF SettingsInv, HandleAccounted
  <2>6. LinesKept'
    BY <1>3, <2>1, <2>2, <2>3 DEF SettingsInv, LinesKept, Outcome
  <2>7. ok = TRUE => Agreed'
    <3>1. UNCHANGED DeviceKeys  BY <2>3 DEF DeviceKeys, Posix
    <3>2. \A k : Effective(k)' = EffectiveOf(stored', k)
      BY <2>3 DEF Effective, EffectiveOf, Posix
    <3> QED  BY <2>1, <2>2, <3>1, <3>2 DEF Agreed, Outcome
  <2> QED  BY <2>1, <2>2, <2>4, <2>5, <2>6, <2>7 DEF Outcome
<1> QED  BY <1>2, <1>3

LEMMA SetKeeps == ASSUME SettingsInv, Set PROVE SettingsInv'
<1>1. UNCHANGED <<kind, failedOpen, plugged>>  BY DEF Set
<1>2. CASE Rejected
  <2>1. Quietly  BY <1>2, ReplyQuiet DEF Rejected, Raise
  <2> QED  BY <1>1, <1>2, <2>1, DataKeeps DEF Rejected, Recorded
<1>3. CASE \E key, v : Assign(key, v, Answered)
  <2>1. PICK key, v : Assign(key, v, Answered)  BY <1>3
  <2>2. \E ok : Assigned(key, v, ok) /\ Reply("set", ok, <<>>)
    BY <2>1 DEF Assign, Assigned, Answered
  <2>3. PICK ok : Assigned(key, v, ok) /\ Reply("set", ok, <<>>)  BY <2>2
  <2>4. call' = NoCall /\ "op" \in DOMAIN call' /\ answer'.op = "set" /\ answer'.ok = ok
    BY <2>3, ReplyIs
  <2>5. /\ Shape' /\ HandleAccounted' /\ LinesKept'
        /\ ok = TRUE \/ ok = FALSE
        /\ ok = TRUE => Agreed'
    BY <1>1, <2>3, <2>4, AssignedSound
  <2>6. AgreedUnlessRaised'
    BY <2>4, <2>5 DEF AgreedUnlessRaised, Agreed
  <2>7. Applying'  BY <2>4 DEF Applying, NoCall
  <2> QED  BY <2>5, <2>6, <2>7 DEF SettingsInv
<1> QED
  BY <1>2, <1>3 DEF Set, SetBaudrate, SetByteSize, SetParity, SetStopbits, SetTimeout,
     SetWriteTimeout, SetInterCharTimeout, SetXonXoff, SetRtsCts, SetDsrDtr

(* applySettingsDict: one more setting given to the device, or the end.    *)
LEMMA ApplyNextKeeps == ASSUME SettingsInv, ApplyNext PROVE SettingsInv'
<1>1. UNCHANGED <<kind, failedOpen, plugged>>  BY DEF ApplyNext
<1>2. /\ call \in [op : {"apply"}, answer : {"nothing", "apply"}]
      /\ call.answer = "apply" => Agreed
  BY DEF ApplyNext, SettingsInv, Applying
<1>3. CASE Done(call.answer) /\ UNCHANGED config
  <2>1. call' = NoCall /\ "op" \in DOMAIN call' /\ answer'.op = call.answer
    BY <1>3, ReplyIs DEF Done
  <2>2. Shape' /\ HandleAccounted' /\ LinesKept'
    BY <1>1, <1>3, <2>1 DEF SettingsInv, Shape, HandleAccounted, LinesKept, config
  <2>3. UNCHANGED Agreed
    BY <1>1, <1>3 DEF Agreed, DeviceKeys, Effective, Posix, config
  <2>4. AgreedUnlessRaised'
    BY <1>2, <2>1, <2>3 DEF AgreedUnlessRaised, Agreed
  <2>5. Applying'  BY <2>1 DEF Applying, NoCall
  <2> QED  BY <2>2, <2>4, <2>5 DEF SettingsInv
<1>4. CASE \E key, v, ok :
             /\ Assigned(key, v, ok)
             /\ IF ok THEN call' = [call EXCEPT !.answer = "apply"] /\ UNCHANGED answer
                      ELSE Raise("apply")
  <2>1. PICK key, v, ok :
          /\ Assigned(key, v, ok)
          /\ IF ok THEN call' = [call EXCEPT !.answer = "apply"] /\ UNCHANGED answer
                   ELSE Raise("apply")
    BY <1>4
  <2>2. CASE ok
    <3>1. call' = [op |-> "apply", answer |-> "apply"]  BY <1>2, <2>1, <2>2
    <3>2. Shape' /\ HandleAccounted' /\ LinesKept' /\ Agreed'
      BY <1>1, <2>1, <2>2, <3>1, AssignedSound
    <3>3. AgreedUnlessRaised'  BY <3>1 DEF AgreedUnlessRaised, Idle, NoCall
    <3>4. Applying'  BY <3>1, <3>2 DEF Applying
    <3> QED  BY <3>2, <3>3, <3>4 DEF SettingsInv
  <2>3. CASE ~ok
    <3>1. call' = NoCall /\ "op" \in DOMAIN call' /\ answer'.ok = FALSE
      BY <2>1, <2>3, ReplyIs DEF Raise
    <3>2. Shape' /\ HandleAccounted' /\ LinesKept'
      BY <1>1, <2>1, <3>1, AssignedSound
    <3>3. AgreedUnlessRaised'  BY <3>1 DEF AgreedUnlessRaised
    <3>4. Applying'  BY <3>1 DEF Applying, NoCall
    <3> QED  BY <3>2, <3>3, <3>4 DEF SettingsInv
  <2> QED  BY <2>2, <2>3
<1> DEFINE differ == {i \in DOMAIN Keys : saved[Keys[i]] # stored[Keys[i]]}
           first == Keys[CHOOSE i \in differ : \A j \in differ : i <= j]
           Then(ok) == IF ok THEN call' = [call EXCEPT !.answer = "apply"] /\ UNCHANGED answer
                       ELSE Raise("apply")
<1>5. (Done(call.answer) /\ UNCHANGED config) \/ Assign(first, saved[first], Then)
  BY DEF ApplyNext
<1>6. CASE Assign(first, saved[first], Then)
  <2> DEFINE v == saved[first]
  <2>1. CASE isOpen
    <3>1. PICK o \in Reconfigure(stored') :
            device' = o.dev /\ lines' = o.lines /\ Then(o.ok)
      BY <1>6, <2>1 DEF Assign
    <3>2. Assigned(first, v, o.ok)  BY <1>6, <2>1, <3>1 DEF Assign, Assigned
    <3> QED  BY <1>4, <3>1, <3>2
  <2>2. CASE ~isOpen
    <3>1. Assigned(first, v, TRUE) /\ Then(TRUE)  BY <1>6, <2>2 DEF Assign, Assigned
    <3> QED  BY <1>4, <3>1
  <2> QED  BY <2>1, <2>2
<1> QED  BY <1>3, <1>5, <1>6

-----------------------------------------------------------------------------
(* Opening and closing.                                                    *)

(* A port that opens takes a sound outcome; one that does not answers so.  *)
LEMMA OpenedKeeps ==
  ASSUME SettingsInv, NEW op, NEW ok, Reply(op, ok, <<>>), op # "apply",
         UNCHANGED <<kind, plugged, stored>>,
         ok = TRUE \/ ok = FALSE,
         isOpen' = ok, handle' \in BOOLEAN,
         ok = TRUE => handle' \/ kind = "loop",
         ok = FALSE /\ handle' => kind \in {"win32", "java"},
         failedOpen' = ~isOpen',
         DOMAIN device' = KeySet,
         ok = TRUE => \A k \in DeviceKeys : device'[k] = EffectiveOf(stored, k),
         lines' \in [rts : BOOLEAN, dtr : BOOLEAN, brk : BOOLEAN, cts : BOOLEAN],
         want' \in [rts : BOOLEAN, dtr : BOOLEAN],
         kind = "win32" /\ ok = TRUE =>
           /\ ~device'.rtscts => lines'.rts = want'.rts
           /\ ~device'.dsrdtr => lines'.dtr = want'.dtr
  PROVE  SettingsInv'
<1>1. call' = NoCall /\ "op" \in DOMAIN call' /\ answer'.op = op /\ answer'.ok = ok
  BY ReplyIs
<1>2. Shape'  BY <1>1 DEF SettingsInv, Shape
<1>3. HandleAccounted'  BY DEF HandleAccounted
<1>4. LinesKept'  BY DEF LinesKept
<1>5. AgreedUnlessRaised'
  <2>1. UNCHANGED DeviceKeys  BY DEF DeviceKeys, Posix
  <2>2. \A k : Effective(k)' = EffectiveOf(stored, k)
    BY DEF Effective, EffectiveOf, Posix
  <2> QED  BY <2>1, <2>2 DEF AgreedUnlessRaised
<1>6. Applying'  BY <1>1 DEF Applying, NoCall
<1> QED  BY <1>2, <1>3, <1>4, <1>5, <1>6 DEF SettingsInv

LEMMA OpenKeeps ==
  ASSUME SettingsInv, NEW op \in {"open", "port"}, OpenAs(op), failedOpen' = ~isOpen',
         UNCHANGED <<kind, plugged>>
  PROVE  SettingsInv'
<1>1. CASE OpenFails(op)
  <2>1. Quietly  BY <1>1, ReplyQuiet DEF OpenFails, Raise
  <2> QED  BY <1>1, <2>1, DataKeeps DEF OpenFails, Recorded
<1>2. CASE Posix /\ ~OpenFails(op)
  <2>1. PICK o \in PosixReconfigure(stored, device) :
          /\ device' = o.dev /\ isOpen' = o.ok /\ handle' = o.ok
          /\ Reply(op, o.ok, <<>>)
          /\ UNCHANGED <<name, stored, lines, want, data>>
    BY <1>2 DEF OpenAs, PosixOpen, Posix
  <2>2. Outcome(o, stored, want)
    BY <1>2, <2>1, PosixOutcome DEF SettingsInv, Shape
  <2> QED  BY <1>2, <2>1, <2>2, OpenedKeeps DEF Outcome, SettingsInv, Shape, Posix
<1>3. CASE kind = "win32" /\ ~OpenFails(op)
  <2> DEFINE w == [rts |-> TRUE, dtr |-> TRUE]
  <2>1. PICK o \in Win32Reconfigure(stored, device, w) :
          /\ device' = o.dev /\ lines' = o.lines /\ want' = w
          /\ handle' = TRUE /\ isOpen' = o.ok
          /\ Reply(op, o.ok, <<>>)
          /\ UNCHANGED <<name, stored>>
    BY <1>3 DEF OpenAs, Win32Open, Posix
  <2>2. Outcome(o, stored, w)
    BY <1>3, <2>1, Win32Outcome DEF SettingsInv, Shape
  <2> QED  BY <1>3, <2>1, <2>2, OpenedKeeps DEF Outcome
<1>4. CASE kind = "loop" /\ ~OpenFails(op)
  <2>1. PICK o \in LoopReconfigure(stored, device) :
          /\ isOpen' = o.ok /\ handle' = FALSE
          /\ lines' = IF o.ok /\ ~stored.rtscts
                      THEN [lines EXCEPT !.rts = TRUE, !.dtr = TRUE, !.cts = TRUE]
                      ELSE [lines EXCEPT !.cts = FALSE]
          /\ Reply(op, o.ok, <<>>)
          /\ UNCHANGED <<name, stored, device, want>>
    BY <1>4 DEF OpenAs, LoopOpen, Posix
  <2>2. Outcome(o, stored, want)
    BY <1>4, <2>1, PlainOutcome DEF SettingsInv, Shape
  <2>3. lines' \in [rts : BOOLEAN, dtr : BOOLEAN, brk : BOOLEAN, cts : BOOLEAN]
    BY <2>1 DEF SettingsInv, Shape
  <2>4. DeviceKeys = {}  BY <1>4 DEF DeviceKeys, Posix
  <2> QED  BY <1>4, <2>1, <2>2, <2>3, <2>4, OpenedKeeps DEF Outcome, SettingsInv, Shape
<1>5. CASE kind = "socket" /\ ~OpenFails(op)
  <2>1. /\ isOpen' = TRUE /\ handle' = TRUE /\ Reply(op, TRUE, <<>>)
        /\ UNCHANGED <<name, stored, device, lines, want>>
    BY <1>5 DEF OpenAs, SocketOpen, Posix, Done
  <2>2. DeviceKeys = {}  BY <1>5 DEF DeviceKeys, Posix
  <2> QED  BY <1>5, <2>1, <2>2, OpenedKeeps DEF SettingsInv, Shape
<1>6. CASE kind = "cli" /\ ~OpenFails(op)
  <2>1. PICK o \in CliReconfigure(stored, device) :
          /\ device' = o.dev
          /\ isOpen' = (o.ok /\ plugged) /\ handle' = (o.ok /\ plugged)
          /\ lines' = IF o.ok /\ plugged /\ ~stored.rtscts
                      THEN [lines EXCEPT !.rts = TRUE, !.dtr = TRUE] ELSE lines
          /\ Reply(op, o.ok /\ plugged, <<>>)
          /\ UNCHANGED <<name, stored, want>>
    BY <1>6 DEF OpenAs, CliOpen, Posix
  <2>2. Outcome(o, stored, want)
    BY <1>6, <2>1, CliOutcome DEF SettingsInv, Shape
  <2>3. lines' \in [rts : BOOLEAN, dtr : BOOLEAN, brk : BOOLEAN, cts : BOOLEAN]
    BY <2>1 DEF SettingsInv, Shape
  <2> QED  BY <1>6, <2>1, <2>2, <2>3, OpenedKeeps DEF Outcome, SettingsInv, Shape
<1>7. CASE kind = "java" /\ ~OpenFails(op)
  <2>1. PICK o \in JavaReconfigure(stored, device) :
          /\ device' = o.dev /\ isOpen' = o.ok /\ handle' = TRUE
          /\ Reply(op, o.ok, <<>>)
          /\ UNCHANGED <<name, stored, lines, want, data>>
    BY <1>7 DEF OpenAs, JavaOpen, Posix
  <2>2. Outcome(o, stored, want)
    BY <1>7, <2>1, JavaOutcome DEF SettingsInv, Shape
  <2> QED  BY <1>7, <2>1, <2>2, OpenedKeeps DEF Outcome, SettingsInv, Shape
<1> QED
  BY <1>1, <1>2, <1>3, <1>4, <1>5, <1>6, <1>7 DEF SettingsInv, Shape, BackEnds, Posix

LEMMA CloseAsReleases == ASSUME Shape, CloseAs PROVE Released
BY DEF CloseAs, Shape, BackEnds, Posix, PosixClose, Win32Close, LoopClose, SocketClose,
   CliClose, JavaClose

LEMMA DoneIs ==
  ASSUME NEW op, Done(op)
  PROVE  call' = NoCall /\ call'.op = "none" /\ "op" \in DOMAIN call' /\ answer'.op = op
BY DEF Done, Reply, NoCall

LEMMA CloseKeeps == ASSUME SettingsInv, Close \/ SetPort PROVE SettingsInv'
<1>1. UNCHANGED <<kind, failedOpen, plugged, stored, device, lines, want>>
  BY CloseAsReleases DEF Close, SetPort, Released, SettingsInv
<1>2. \/ isOpen' = FALSE /\ handle' = FALSE
      \/ UNCHANGED <<isOpen, handle>>
  BY CloseAsReleases DEF Close, SetPort, Released, SettingsInv
<1>3. Quietly \/ (~isOpen /\ UNCHANGED isOpen /\ Done("port"))
  <2>1. CASE Done("close")  BY <2>1, ReplyQuiet DEF Done, Settling
  <2>2. CASE call' = [op |-> "port"]  BY <2>2, GoesOnQuiet
  <2> QED  BY <2>1, <2>2 DEF Close, SetPort
<1>4. "op" \in DOMAIN call'  BY <1>3, DoneIs DEF Quietly
<1>5. Shape'  BY <1>1, <1>2, <1>4 DEF SettingsInv, Shape
<1>6. HandleAccounted'  BY <1>1, <1>2 DEF SettingsInv, HandleAccounted
<1>7. LinesKept'  BY <1>1, <1>2 DEF SettingsInv, LinesKept
<1>8. AgreedUnlessRaised' /\ Applying'
  <2>1. CASE Done("close")
    BY <2>1, DoneIs DEF AgreedUnlessRaised, Applying
  <2>2. CASE call' = [op |-> "port"]
    BY <2>2 DEF AgreedUnlessRaised, Applying, NoCall, Idle
  <2>3. CASE ~isOpen /\ UNCHANGED isOpen /\ Done("port")
    BY <2>3, DoneIs DEF AgreedUnlessRaised, Applying
  <2> QED  BY <2>1, <2>2, <2>3 DEF Close, SetPort
<1> QED  BY <1>5, <1>6, <1>7, <1>8 DEF SettingsInv

LEMMA SavedKeeps == ASSUME SettingsInv, GetSettingsDict PROVE SettingsInv'
<1>1. Quietly  BY DEF GetSettingsDict, Quietly, SettingsInv, Shape
<1> QED  BY <1>1, DataKeeps DEF GetSettingsDict, Recorded

LEMMA SettingsInit == Init => SettingsInv
<1> SUFFICES ASSUME Init PROVE SettingsInv  OBVIOUS
<1>1. Shape
  BY SerialPortAssumption DEF Init, Shape, Defaults, KeySet, NoCall
<1>2. HandleAccounted /\ LinesKept /\ AgreedUnlessRaised /\ Applying
  BY DEF Init, HandleAccounted, LinesKept, AgreedUnlessRaised, Applying, NoCall
<1> QED  BY <1>1, <1>2 DEF SettingsInv

(* The invariant of the settings, step by step.                            *)
THEOREM SettingsInductive == SettingsInv /\ [Next]_vars => SettingsInv'
<1> SUFFICES ASSUME SettingsInv, [Next]_vars PROVE SettingsInv'  OBVIOUS
<1> USE DEF SettingsInv
<1>1. CASE Open  BY <1>1, OpenKeeps DEF Open
<1>2. CASE SetPortOpen  BY <1>2, OpenKeeps DEF SetPortOpen
<1>3. CASE Close \/ SetPort  BY <1>3, CloseKeeps
<1>4. CASE Set  BY <1>4, SetKeeps
<1>5. CASE GetSettingsDict  BY <1>5, SavedKeeps
<1>6. CASE (\E n \in 1 .. 2 : Read(n) \/ Write(n)) \/ ReadLine \/ ReadLines \/ Flush \/ Apply
  BY <1>6, StartQuiet, DataKeeps DEF Recorded
<1>7. CASE ReadStep  BY <1>7, ReadQuiet, DataKeeps DEF ReadStep, Recorded
<1>8. CASE WriteStep  BY <1>8, WriteQuiet, DataKeeps DEF WriteStep, Recorded
<1>9. CASE FlushStep \/ FlushInput \/ FlushOutput
  BY <1>9, EmptyQuiet, DataKeeps DEF Recorded
<1>10. CASE ApplyNext  BY <1>10, ApplyNextKeeps
<1>11. CASE Lines  BY <1>11, LinesKeeps
<1>12. CASE GetLine  BY <1>12, GetLineQuiet, DataKeeps DEF Recorded
<1>13. CASE DeviceSends \/ DeviceTakes \/ Unplug \/ Replug  BY <1>13, DeviceKeeps
<1>14. CASE UNCHANGED vars
  <2>1. Quietly /\ UNCHANGED <<kind, failedOpen, config, plugged>>
    BY <1>14 DEF vars, Quietly, Shape
  <2> QED  BY <2>1, DataKeeps DEF Recorded
<1> QED
  BY <1>1, <1>2, <1>3, <1>4, <1>5, <1>6, <1>7, <1>8, <1>9, <1>10, <1>11, <1>12,
     <1>13, <1>14 DEF Next, Proceeds

LEMMA SettingsAlways == Spec => []SettingsInv
BY SettingsInit, SettingsInductive, PTL DEF Spec

(* Whatever was refused or half done before, a call that changes settings  *)
(* and does not raise leaves the device with all of those shown.           *)
THEOREM AgreedAlways == Spec => []AgreedUnlessRaised
<1>1. SettingsInv => AgreedUnlessRaised  BY DEF SettingsInv
<1> QED  BY <1>1, SettingsAlways, PTL

(* A port that is not open holds no handle, except on Windows and Java     *)
(* after an open() that failed; close() lets go of it in every back end.   *)
THEOREM HandleAccountedAlways == Spec => []HandleAccounted
<1>1. SettingsInv => HandleAccounted  BY DEF SettingsInv
<1> QED  BY <1>1, SettingsAlways, PTL

(* RTS and DTR on Windows are as the program set them.                     *)
THEOREM LinesKeptAlways == Spec => []LinesKept
<1>1. SettingsInv => LinesKept  BY DEF SettingsInv
<1> QED  BY <1>1, SettingsAlways, PTL

-----------------------------------------------------------------------------
(* Writes.                                                                 *)

(* The first L bytes of f ascend below top, and the last d of them are     *)
(* those from B up.                                                        *)
Ascends(f, L, d, B, top) ==
  /\ L \in Nat /\ d \in Nat /\ B \in Nat /\ top \in Nat /\ d <= L
  /\ \A i \in 1 .. L : f[i] \in Nat /\ f[i] < top
  /\ \A i, j \in 1 .. L : i < j => f[i] < f[j]
  /\ \A i \in 1 .. L : i <= L - d => f[i] < B
  /\ \A i \in 1 .. L : i > L - d => f[i] = B + i - (L - d) - 1

(* A write in progress: its bytes are consecutive and younger than those   *)
(* handed over before, which end with the part of it that is done.  The    *)
(* back ends that write all at once have nothing done, and only the Posix  *)
(* ones wait when all is done.                                             *)
Sending ==
  call.op = "write" =>
    /\ call \in [op : {"write"}, bytes : Seq(Nat), done : Nat, wait : BOOLEAN]
    /\ Len(call.bytes) > 0 /\ call.done <= Len(call.bytes)
    /\ \A i \in 1 .. Len(call.bytes) : call.bytes[i] = call.bytes[1] + i - 1
    /\ call.bytes[1] + Len(call.bytes) <= next
    /\ Ascends(out, Len(out), call.done, call.bytes[1], next)
    /\ kind = "loop" \/ (kind = "win32" /\ stored.writeTimeout = "zero") => call.done = 0
    /\ ~Posix => call.done < Len(call.bytes)

WriteInv ==
  /\ out \in Seq(Nat)
  /\ Ascends(out, Len(out), 0, next, next)
  /\ Sending

LEMMA SuffixIs ==
  ASSUME NEW s \in Seq(Nat), NEW t \in Seq(Nat), Len(s) <= Len(t),
         \A i \in 1 .. Len(s) : t[Len(t) - Len(s) + i] = s[i]
  PROVE  IsSuffix(s, t)
<1> DEFINE r == [i \in 1 .. Len(s) |-> s[(Len(s) - i) + 1]]
           q == [i \in 1 .. Len(t) |-> t[(Len(t) - i) + 1]]
<1>1. r \in Seq(Nat) /\ q \in Seq(Nat) /\ Len(r) = Len(s) /\ Len(q) = Len(t)
  OBVIOUS
<1>2. \A i \in 1 .. Len(s) : r[i] = q[i]
  <2> SUFFICES ASSUME NEW i \in 1 .. Len(s) PROVE r[i] = q[i]  OBVIOUS
  <2> DEFINE j == Len(s) - i + 1
  <2>1. j \in 1 .. Len(s) /\ Len(t) - Len(s) + j = (Len(t) - i) + 1  OBVIOUS
  <2>2. t[Len(t) - Len(s) + j] = s[j]  BY <2>1
  <2>3. q[i] = t[(Len(t) - i) + 1] /\ r[i] = s[(Len(s) - i) + 1]  OBVIOUS
  <2> QED  BY <2>1, <2>2, <2>3
<1> HIDE DEF r, q
<1>3. SubSeq(r, 1, Len(r)) = SubSeq(q, 1, Len(r))  BY <1>1, <1>2
<1>4. IsPrefix(r, q)  BY <1>1, <1>3 DEF IsPrefix
<1> QED  BY <1>4 DEF IsSuffix, Reverse, r, q

LEMMA AscendsHigher ==
  ASSUME NEW f, NEW L, NEW top, NEW higher \in Nat,
         Ascends(f, L, 0, top, top), top <= higher
  PROVE  Ascends(f, L, 0, top, higher) /\ Ascends(f, L, 0, higher, higher)
BY DEF Ascends

LEMMA AscendsOn ==
  ASSUME NEW f, NEW L, NEW d, NEW B, NEW top, NEW higher \in Nat,
         Ascends(f, L, d, B, top), top <= higher
  PROVE  Ascends(f, L, d, B, higher)
BY DEF Ascends

LEMMA AscendsAtRest ==
  ASSUME NEW f, NEW L, NEW d, NEW B, NEW top, Ascends(f, L, d, B, top)
  PROVE  Ascends(f, L, 0, top, top)
BY DEF Ascends

(* n more bytes, from where the last d left off.                           *)
LEMMA AscendsFurther ==
  ASSUME NEW f, NEW g, NEW L, NEW d, NEW n \in Nat, NEW B, NEW top,
         Ascends(f, L, d, B, top), B + d + n <= top,
         \A i \in 1 .. L : g[i] = f[i],
         \A i \in 1 .. n : g[L + i] = B + d + i - 1
  PROVE  Ascends(g, L + n, d + n, B, top)
<1>1. /\ L \in Nat /\ d \in Nat /\ B \in Nat /\ top \in Nat /\ d <= L
      /\ L + n \in Nat /\ d + n \in Nat /\ d + n <= L + n
      /\ (L + n) - (d + n) = L - d
  BY DEF Ascends
<1>2. \A i \in 1 .. L + n : i > L => g[i] = B + i - (L - d) - 1
  <2> SUFFICES ASSUME NEW i \in 1 .. L + n, i > L PROVE g[i] = B + i - (L - d) - 1
    OBVIOUS
  <2>1. i - L \in 1 .. n /\ L + (i - L) = i  BY <1>1
  <2>2. g[L + (i - L)] = B + d + (i - L) - 1  BY <2>1
  <2> QED  BY <1>1, <2>1, <2>2
<1>3. \A i \in 1 .. L + n : i <= L - d => g[i] < B  BY <1>1 DEF Ascends
<1>4. \A i \in 1 .. L + n : i > L - d => g[i] = B + i - (L - d) - 1
  BY <1>1, <1>2 DEF Ascends
<1>5. \A i \in 1 .. L + n : g[i] \in Nat /\ g[i] < top
  <2> SUFFICES ASSUME NEW i \in 1 .. L + n PROVE g[i] \in Nat /\ g[i] < top  OBVIOUS
  <2>1. CASE i <= L  BY <1>1, <2>1 DEF Ascends
  <2>2. CASE i > L  BY <1>1, <1>2, <2>2
  <2> QED  BY <1>1, <2>1, <2>2
<1>6. \A i, j \in 1 .. L + n : i < j => g[i] < g[j]
  <2> SUFFICES ASSUME NEW i \in 1 .. L + n, NEW j \in 1 .. L + n, i < j
               PROVE  g[i] < g[j]
    OBVIOUS
  <2>1. CASE j <= L  BY <1>1, <2>1 DEF Ascends
  <2>2. CASE j > L
    <3>1. g[j] = B + j - (L - d) - 1  BY <1>2, <2>2
    <3>2. CASE i <= L - d
      <4>1. g[i] < B  BY <1>3, <3>2
      <4>2. g[i] \in Nat  BY <1>5
      <4> QED  BY <1>1, <2>2, <3>1, <4>1, <4>2
    <3>3. CASE i > L - d
      <4>1. g[i] = B + i - (L - d) - 1  BY <1>4, <3>3
      <4> QED  BY <1>1, <3>1, <4>1
    <3> QED  BY <1>1, <3>2, <3>3
  <2> QED  BY <1>1, <2>1, <2>2
<1> QED  BY <1>1, <1>3, <1>4, <1>5, <1>6 DEF Ascends

LEMMA PartIs ==
  ASSUME NEW b \in Seq(Nat), NEW d \in Nat, NEW n \in Nat, d + n <= Len(b)
  PROVE  /\ SubSeq(b, d + 1, d + n) \in Seq(Nat)
         /\ Len(SubSeq(b, d + 1, d + n)) = n
         /\ \A i \in 1 .. n : SubSeq(b, d + 1, d + n)[i] = b[d + i]
<1> DEFINE p == d + 1  q == d + n  part == SubSeq(b, p, q)
<1>1. p \in Int /\ q \in Int /\ q - p + 1 = n /\ (p <= q \/ n = 0)  OBVIOUS
<1>2. Len(b) \in Nat /\ \A i \in 1 .. Len(b) : b[i] \in Nat  OBVIOUS
<1>3. \A i \in p .. q : i \in 1 .. Len(b)  BY <1>2
<1>4. \A i \in p .. q : b[i] \in Nat  BY <1>2, <1>3
<1>5. \A i \in 1 .. n : p + i - 1 = d + i  OBVIOUS
<1> HIDE DEF p, q
<1>6. /\ part \in Seq(Nat) /\ Len(part) = IF p <= q THEN q - p + 1 ELSE 0
      /\ \A i \in 1 .. q - p + 1 : part[i] = b[p + i - 1]
  BY <1>1, <1>4, SubSeqProperties
<1> HIDE DEF part
<1>7. Len(part) = n
  <2>1. CASE p <= q  BY <1>1, <1>6, <2>1
  <2>2. CASE ~(p <= q)  BY <1>1, <1>6, <2>2
  <2> QED  BY <2>1, <2>2
<1>8. \A i \in 1 .. n : part[i] = b[d + i]  BY <1>1, <1>5, <1>6
<1> QED  BY <1>6, <1>7, <1>8 DEF part, p, q

(* What handing n more bytes to the driver makes of a write.               *)
LEMMA Handed ==
  ASSUME WriteInv, call.op = "write", NEW n \in 0 .. Unsent,
         out' = out \o SubSeq(call.bytes, call.done + 1, call.done + n)
  PROVE  /\ out' \in Seq(Nat)
         /\ Ascends(out', Len(out'), call.done + n, call.bytes[1], next)
<1> DEFINE b == call.bytes
           d == call.done
           B == b[1]
           more == SubSeq(b, d + 1, d + n)
<1>1. /\ b \in Seq(Nat) /\ d \in Nat /\ d <= Len(b) /\ Len(b) > 0
      /\ \A i \in 1 .. Len(b) : b[i] = B + i - 1
      /\ B + Len(b) <= next
      /\ Ascends(out, Len(out), d, B, next)
  BY DEF WriteInv, Sending
<1>2. n \in Nat /\ d + n <= Len(b) /\ Len(b) \in Nat
  <2>1. n \in 0 .. Len(b) - d  BY DEF Unsent
  <2>2. b \in Seq(Nat) /\ d \in Nat /\ d <= Len(b)  BY <1>1
  <2> HIDE DEF b, d
  <2>3. Len(b) \in Nat  BY <2>2
  <2> QED  BY <2>1, <2>2, <2>3
<1>3. out \in Seq(Nat)  BY DEF WriteInv
<1>4. next \in Nat /\ B \in Nat  BY <1>1 DEF Ascends
<1>5. out' = out \o more  OBVIOUS
<1> HIDE DEF b, d
<1>6. /\ more \in Seq(Nat) /\ Len(more) = n
      /\ \A i \in 1 .. n : more[i] = b[d + i]
  <2>1. b \in Seq(Nat) /\ d \in Nat  BY <1>1
  <2> QED  BY <1>2, <2>1, PartIs
<1>7. \A i \in 1 .. n : more[i] = B + d + i - 1
  <2> SUFFICES ASSUME NEW i \in 1 .. n PROVE more[i] = B + d + i - 1  OBVIOUS
  <2>1. more[i] = b[d + i]  BY <1>6
  <2>2. d + i \in 1 .. Len(b)
    <3>1. d \in Nat  BY <1>1
    <3> QED  BY <1>2, <3>1
  <2>3. b[d + i] = B + (d + i) - 1  BY <1>1, <2>2
  <2> HIDE DEF B, more
  <2> QED  BY <1>1, <1>4, <2>1, <2>3
<1> HIDE DEF more, B
<1>8. /\ out' \in Seq(Nat) /\ Len(out') = Len(out) + n
      /\ \A i \in 1 .. Len(out) : out'[i] = out[i]
      /\ \A i \in 1 .. n : out'[Len(out) + i] = more[i]
  <2>1. /\ out \o more \in Seq(Nat) /\ Len(out \o more) = Len(out) + n
        /\ \A i \in 1 .. Len(out) + n :
             (out \o more)[i] = IF i <= Len(out) THEN out[i] ELSE more[i - Len(out)]
    BY <1>3, <1>6, ConcatProperties
  <2>2. Len(out) \in Nat  BY <1>3
  <2>3. \A i \in 1 .. Len(out) : (out \o more)[i] = out[i]  BY <1>2, <2>1, <2>2
  <2>4. ASSUME NEW i \in 1 .. n PROVE (out \o more)[Len(out) + i] = more[i]
    <3>1. Len(out) + i \in 1 .. Len(out) + n /\ ~(Len(out) + i <= Len(out))
      BY <1>2, <2>2
    <3>2. (Len(out) + i) - Len(out) = i  BY <1>2, <2>2
    <3> QED  BY <2>1, <3>1, <3>2
  <2> QED  BY <1>5, <2>1, <2>3, <2>4
<1>9. \A i \in 1 .. n : out'[Len(out) + i] = B + d + i - 1  BY <1>7, <1>8
<1>10. B + d + n <= next  BY <1>1, <1>2, <1>4
<1>11. Ascends(out', Len(out) + n, d + n, B, next)
  BY <1>1, <1>2, <1>8, <1>9, <1>10, AscendsFurther
<1> QED  BY <1>8, <1>11 DEF b, d, B

(* The write goes on with n more bytes done, or has all of them done.      *)
LEMMA HandedKeeps ==
  ASSUME WriteInv, call.op = "write", NEW n \in 0 .. Unsent,
         out' = out \o SubSeq(call.bytes, call.done + 1, call.done + n),
         UNCHANGED <<kind, stored, next>>,
         NEW w \in BOOLEAN,
         \/ /\ kind # "loop" /\ ~(kind = "win32" /\ stored.writeTimeout = "zero")
            /\ Posix \/ n < Unsent
            /\ \/ call' = [call EXCEPT !.done = @ + n, !.wait = w]
               \/ call' = [call EXCEPT !.done = @ + n]
         \/ call'.op # "write"
  PROVE  WriteInv'
<1>1. /\ out' \in Seq(Nat)
      /\ Ascends(out', Len(out'), call.done + n, call.bytes[1], next)
  BY Handed
<1>2. Ascends(out', Len(out'), 0, next, next)  BY <1>1, AscendsAtRest
<1>3. Sending'
  <2>1. CASE call'.op # "write"  BY <2>1 DEF Sending
  <2>2. CASE /\ kind # "loop" /\ ~(kind = "win32" /\ stored.writeTimeout = "zero")
             /\ Posix \/ n < Unsent
             /\ \/ call' = [call EXCEPT !.done = @ + n, !.wait = w]
                \/ call' = [call EXCEPT !.done = @ + n]
    <3>1. call \in [op : {"write"}, bytes : Seq(Nat), done : Nat, wait : BOOLEAN]
      BY DEF WriteInv, Sending
    <3>2. n \in Nat /\ call.done + n <= Len(call.bytes)
      BY <3>1 DEF Unsent
    <3>3. /\ call' \in [op : {"write"}, bytes : Seq(Nat), done : Nat, wait : BOOLEAN]
          /\ call'.bytes = call.bytes /\ call'.done = call.done + n
      <4>1. call.done \in Nat /\ call.done + n \in Nat  BY <3>1, <3>2
      <4>2. CASE call' = [call EXCEPT !.done = @ + n, !.wait = w]  BY <3>1, <4>1, <4>2
      <4>3. CASE call' = [call EXCEPT !.done = @ + n]  BY <3>1, <4>1, <4>3
      <4> QED  BY <2>2, <4>2, <4>3
    <3>4. ~Posix => call.done + n < Len(call.bytes)
      BY <2>2, <3>1, <3>2 DEF Unsent
    <3> QED  BY <1>1, <2>2, <3>2, <3>3, <3>4 DEF WriteInv, Sending, Posix
  <2> QED  BY <2>1, <2>2
<1> QED  BY <1>1, <1>2, <1>3 DEF WriteInv

LEMMA AllHanded ==
  ASSUME WriteInv, call.op = "write", NEW n \in 0 .. Unsent,
         out' = out \o SubSeq(call.bytes, call.done + 1, call.done + n), n = Unsent
  PROVE  IsSuffix(call.bytes, out') /\ \A i, j \in DOMAIN out' : i < j => out'[i] < out'[j]
<1> DEFINE b == call.bytes  B == b[1]
<1>1. /\ b \in Seq(Nat) /\ call.done \in Nat
      /\ \A i \in 1 .. Len(b) : b[i] = B + i - 1
  BY DEF WriteInv, Sending
<1>2. call.done + n = Len(b) /\ Len(b) \in Nat  BY <1>1 DEF Unsent
<1>3. out' \in Seq(Nat) /\ Ascends(out', Len(out'), Len(b), B, next)
  BY <1>2, Handed
<1> DEFINE l == Len(b)  L == Len(out')
<1>4. l <= L /\ L \in Nat /\ l \in Nat /\ B \in Nat /\ DOMAIN out' = 1 .. L
  BY <1>2, <1>3 DEF Ascends
<1>5. /\ \A i \in 1 .. L : i > L - l => out'[i] = B + i - (L - l) - 1
      /\ \A i, j \in 1 .. L : i < j => out'[i] < out'[j]
  BY <1>3 DEF Ascends
<1> HIDE DEF b, B, l, L
<1>6. \A i \in 1 .. l : out'[L - l + i] = b[i]
  <2> SUFFICES ASSUME NEW i \in 1 .. l PROVE out'[L - l + i] = b[i]  OBVIOUS
  <2>1. L - l + i \in 1 .. L /\ L - l + i > L - l  BY <1>4
  <2>2. out'[L - l + i] = B + (L - l + i) - (L - l) - 1  BY <1>5, <2>1
  <2>3. b[i] = B + i - 1  BY <1>1 DEF l
  <2>4. i \in Int /\ B + (L - l + i) - (L - l) - 1 = B + i - 1  BY <1>4
  <2> QED  BY ONLY <2>2, <2>3, <2>4
<1>7. IsSuffix(b, out')  BY <1>1, <1>3, <1>4, <1>6, SuffixIs DEF l, L
<1>8. \A i, j \in DOMAIN out' : i < j => out'[i] < out'[j]  BY <1>4, <1>5
<1> QED  BY <1>7, <1>8 DEF b

(* A write that has returned without an error has handed over everything.  *)
WholeStep ==
  call.op = "write" /\ Idle' /\ answer'.ok
    => /\ IsSuffix(call.bytes, out')
       /\ \A i, j \in DOMAIN out' : i < j => out'[i] < out'[j]

(* A write that takes n more bytes and goes on, or ends with the last.     *)
Hands(n) ==
  /\ out' = out \o SubSeq(call.bytes, call.done + 1, call.done + n)
  /\ UNCHANGED <<kind, stored, next>>
  /\ \/ /\ kind # "loop" /\ ~(kind = "win32" /\ stored.writeTimeout = "zero")
        /\ Posix \/ n < Unsent
        /\ \/ \E w \in BOOLEAN : call' = [call EXCEPT !.done = @ + n, !.wait = w]
           \/ call' = [call EXCEPT !.done = @ + n]
     \/ n = Unsent /\ call' = NoCall

LEMMA HandsKeeps ==
  ASSUME WriteInv, call.op = "write", NEW n \in 0 .. Unsent, Hands(n)
  PROVE  WriteInv' /\ WholeStep
<1>1. call \in [op : {"write"}, bytes : Seq(Nat), done : Nat, wait : BOOLEAN]
  BY DEF WriteInv, Sending
<1>2. CASE /\ kind # "loop" /\ ~(kind = "win32" /\ stored.writeTimeout = "zero")
           /\ Posix \/ n < Unsent
           /\ \/ \E w \in BOOLEAN : call' = [call EXCEPT !.done = @ + n, !.wait = w]
              \/ call' = [call EXCEPT !.done = @ + n]
  <2>1. PICK w \in BOOLEAN : \/ call' = [call EXCEPT !.done = @ + n, !.wait = w]
                             \/ call' = [call EXCEPT !.done = @ + n]
    BY <1>2
  <2>2. WriteInv'  BY <1>2, <2>1, HandedKeeps DEF Hands
  <2>3. call'.op = "write"  BY <1>1, <2>1
  <2>4. ~Idle'  BY <2>3 DEF Idle, NoCall
  <2> QED  BY <2>2, <2>4 DEF WholeStep
<1>3. CASE n = Unsent /\ call' = NoCall
  <2>1. call'.op # "write"  BY <1>3 DEF NoCall
  <2>2. WriteInv'  BY <2>1, HandedKeeps DEF Hands
  <2>3. WholeStep  BY <1>3, AllHanded DEF Hands, WholeStep
  <2> QED  BY <2>2, <2>3
<1> QED  BY <1>2, <1>3 DEF Hands

LEMMA ElsewhereKeeps ==
  ASSUME WriteInv, UNCHANGED <<kind, out>>, next' \in Nat, next <= next',
         UNCHANGED <<call, stored>> \/ call'.op # "write"
  PROVE  WriteInv'
<1>1. /\ out \in Seq(Nat) /\ Ascends(out, Len(out), 0, next, next)  BY DEF WriteInv
<1>2. Ascends(out', Len(out'), 0, next', next')  BY <1>1, AscendsHigher
<1>3. Sending'
  <2>1. CASE call'.op # "write"  BY <2>1 DEF Sending
  <2>2. CASE UNCHANGED <<call, stored>> /\ call.op = "write"
    <3>1. Ascends(out, Len(out), call.done, call.bytes[1], next')
      BY <2>2, AscendsOn DEF WriteInv, Sending
    <3>2. /\ call.bytes[1] \in Nat /\ Len(call.bytes) \in Nat /\ next \in Nat
          /\ call.bytes[1] + Len(call.bytes) <= next
      BY <2>2 DEF WriteInv, Sending, Ascends
    <3>3. call.bytes[1] + Len(call.bytes) <= next'  BY <3>2
    <3> QED  BY <2>2, <3>1, <3>3 DEF WriteInv, Sending, Posix
  <2> QED  BY <2>1, <2>2
<1> QED  BY <1>1, <1>2, <1>3 DEF WriteInv

LEMMA WriteFailsKeeps ==
  ASSUME WriteInv, WriteFails, UNCHANGED <<kind, stored>>
  PROVE  WriteInv' /\ WholeStep
<1>1. call'.op # "write" /\ answer'.ok = FALSE /\ UNCHANGED <<out, next>>
  BY DEF WriteFails, Raise, Reply, NoCall, data
<1>2. next' \in Nat /\ next <= next'  BY <1>1 DEF WriteInv, Ascends
<1> QED  BY <1>1, <1>2, ElsewhereKeeps DEF WholeStep

LEMMA NothingHanded ==
  ASSUME WriteInv, call.op = "write"
  PROVE  out = out \o SubSeq(call.bytes, call.done + 1, call.done + 0)
<1>1. call.done \in Nat /\ out \in Seq(Nat)  BY DEF WriteInv, Sending
<1>2. SubSeq(call.bytes, call.done + 1, call.done + 0) = << >>
  BY <1>1, SubSeqEmpty
<1> QED  BY <1>1, <1>2, ConcatEmptySeq

LEMMA AllAtOnce ==
  ASSUME WriteInv, call.op = "write", call.done = 0
  PROVE  Unsent \in Nat /\ call.bytes = SubSeq(call.bytes, call.done + 1, call.done + Unsent)
<1>1. call.bytes \in Seq(Nat)  BY DEF WriteInv, Sending
<1> QED  BY <1>1, SubSeqFull DEF Unsent

LEMMA WriteStepKeeps ==
  ASSUME Shape, WriteInv, WriteStep
  PROVE  WriteInv' /\ WholeStep
<1>1. /\ call.op = "write" /\ UNCHANGED <<kind, stored>>
  BY DEF WriteStep, config
<1>2. /\ call \in [op : {"write"}, bytes : Seq(Nat), done : Nat, wait : BOOLEAN]
      /\ call.done <= Len(call.bytes)
  BY <1>1 DEF WriteInv, Sending
<1>3. Unsent \in Nat  BY <1>2 DEF Unsent
<1>4. CASE WriteFails  BY <1>1, <1>4, WriteFailsKeeps
<1>5. CASE /\ Posix /\ UNCHANGED data
           /\ \/ Unsent = 0 /\ Reply("write", TRUE, call.bytes)
              \/ call' = [call EXCEPT !.wait = FALSE]
  <2>1. out' = out \o SubSeq(call.bytes, call.done + 1, call.done + 0)
    BY <1>1, <1>5, NothingHanded DEF data
  <2>2. CASE Unsent = 0 /\ Reply("write", TRUE, call.bytes)
    <3>1. Hands(0)  BY <1>1, <1>5, <2>1, <2>2 DEF Hands, data, Reply
    <3> QED  BY <1>1, <1>3, <3>1, HandsKeeps
  <2>3. CASE call' = [call EXCEPT !.wait = FALSE]
    <3>1. call.done + 0 = call.done  BY <1>2
    <3>2. call' = [call EXCEPT !.done = @ + 0, !.wait = FALSE]  BY <1>2, <2>3, <3>1
    <3>3. Hands(0)  BY <1>1, <1>5, <2>1, <3>2 DEF Hands, data, Posix
    <3> QED  BY <1>1, <1>3, <3>3, HandsKeeps
  <2> QED  BY <1>5, <2>2, <2>3
<1>6. CASE \E n \in 1 .. Unsent :
             /\ Accept(n) /\ kind # "loop"
             /\ ~(kind = "win32" /\ stored.writeTimeout = "zero")
             /\ \/ /\ Posix \/ n < Unsent
                   /\ \/ \E w \in BOOLEAN : call' = [call EXCEPT !.done = @ + n, !.wait = w]
                      \/ call' = [call EXCEPT !.done = @ + n]
                \/ n = Unsent /\ Reply("write", TRUE, call.bytes)
  <2>1. PICK n \in 1 .. Unsent :
             /\ Accept(n) /\ kind # "loop"
             /\ ~(kind = "win32" /\ stored.writeTimeout = "zero")
             /\ \/ /\ Posix \/ n < Unsent
                   /\ \/ \E w \in BOOLEAN : call' = [call EXCEPT !.done = @ + n, !.wait = w]
                      \/ call' = [call EXCEPT !.done = @ + n]
                \/ n = Unsent /\ Reply("write", TRUE, call.bytes)
    BY <1>6
  <2>2. Hands(n)  BY <1>1, <2>1 DEF Hands, Accept, Reply
  <2>3. n \in 0 .. Unsent  BY <1>3
  <2> QED  BY <1>1, <2>2, <2>3, HandsKeeps
<1>7. CASE /\ out' = out \o call.bytes /\ UNCHANGED next /\ call' = NoCall
           /\ kind = "loop" \/ (kind = "win32" /\ stored.writeTimeout = "zero")
  <2>1. call.done = 0  BY <1>1, <1>7 DEF WriteInv, Sending
  <2>2. Hands(Unsent)  BY <1>1, <1>7, <2>1, AllAtOnce DEF Hands
  <2> QED  BY <1>1, <1>3, <2>2, HandsKeeps
<1>8. ASSUME ~Posix, kind # "loop", ~(kind = "win32" /\ stored.writeTimeout = "zero"),
             Accept(1),
             IF Unsent = 1 THEN Reply("write", TRUE, call.bytes)
             ELSE call' = [call EXCEPT !.done = @ + 1] /\ UNCHANGED answer
      PROVE  WriteInv' /\ WholeStep
  <2>1. Unsent > 0  BY <1>1, <1>2, <1>8 DEF WriteInv, Sending, Unsent
  <2>2. 1 \in 1 .. Unsent /\ (Unsent = 1 \/ 1 < Unsent)  BY <1>3, <2>1
  <2> QED  BY <1>6, <1>8, <2>2
<1>9. CASE Posix
  <2>1. PosixWrite  BY <1>9 DEF WriteStep, Posix
  <2>2. CASE plugged /\ ~call.wait
    <3>1. PICK n \in 1 .. Unsent :
            /\ Accept(n)
            /\ IF stored.writeTimeout = "some" \/ n < Unsent
               THEN call' = [call EXCEPT !.done = @ + n,
                                         !.wait = stored.writeTimeout = "some"]
               ELSE Reply("write", TRUE, call.bytes)
      BY <2>1, <2>2 DEF PosixWrite
    <3>2. (stored.writeTimeout = "some") \in BOOLEAN  OBVIOUS
    <3>3. n = Unsent \/ n < Unsent  BY <1>3
    <3> QED  BY <1>6, <1>9, <3>1, <3>2, <3>3 DEF Posix
  <2> QED  BY <1>4, <1>5, <1>9, <2>1, <2>2 DEF PosixWrite
<1>10. CASE kind = "win32"
  <2>1. Win32Write  BY <1>10 DEF WriteStep, Posix
  <2>2. CASE Accept(1) /\ stored.writeTimeout # "zero"
             /\ IF Unsent = 1 THEN Reply("write", TRUE, call.bytes)
                ELSE call' = [call EXCEPT !.done = @ + 1] /\ UNCHANGED answer
    BY <1>8, <1>10, <2>2 DEF Posix
  <2>3. CASE stored.writeTimeout = "zero" /\ out' = out \o call.bytes
             /\ (\E bytes : Reply("write", TRUE, bytes)) /\ UNCHANGED <<rx, next>>
    BY <1>7, <1>10, <2>3 DEF Reply
  <2> QED  BY <1>4, <2>1, <2>2, <2>3 DEF Win32Write
<1>11. CASE kind = "loop"
  <2>1. LoopWrite  BY <1>11 DEF WriteStep, Posix
  <2> QED  BY <1>4, <1>7, <1>11, <2>1 DEF LoopWrite, Reply
<1>12. CASE kind \in {"socket", "cli", "java"}
  <2>1. \/ WriteFails
        \/ /\ Accept(1)
           /\ IF Unsent = 1 THEN Reply("write", TRUE, call.bytes)
              ELSE call' = [call EXCEPT !.done = @ + 1] /\ UNCHANGED answer
    BY <1>12 DEF WriteStep, Posix, SocketWrite, CliWrite, JavaWrite
  <2> QED  BY <1>4, <1>8, <1>12, <2>1 DEF Posix
<1> QED  BY <1>9, <1>10, <1>11, <1>12 DEF Shape, BackEnds, Posix

(* The start of a write: its bytes are the next ones.                      *)
LEMMA WriteStarts ==
  ASSUME WriteInv, NEW n \in 1 .. 2, Write(n)
  PROVE  WriteInv' /\ WholeStep
<1>1. ~(call.op = "write") /\ UNCHANGED <<kind, out>>  BY DEF Write, Spend, Idle, NoCall, data, NotOpen
<1>2. CASE NotOpen("write")
  <2>1. call'.op # "write" /\ UNCHANGED next  BY <1>2 DEF NotOpen, Raise, Reply, NoCall, data
  <2>2. next' \in Nat /\ next <= next'  BY <2>1 DEF WriteInv, Ascends
  <2> QED  BY <1>1, <2>1, <2>2, ElsewhereKeeps DEF WholeStep
<1>3. CASE /\ next' = next + n
           /\ call' = [op |-> "write", bytes |-> [i \in 1 .. n |-> next + i - 1],
                       done |-> 0, wait |-> FALSE]
  <2>1. next \in Nat /\ next' \in Nat /\ next <= next'  BY <1>3 DEF WriteInv, Ascends
  <2>2. /\ Ascends(out', Len(out'), 0, next, next') /\ Ascends(out', Len(out'), 0, next', next')
        /\ out' \in Seq(Nat)
    BY <1>1, <2>1, AscendsHigher DEF WriteInv
  <2> DEFINE b == [i \in 1 .. n |-> next + i - 1]
  <2>3. b \in Seq(Nat) /\ Len(b) = n /\ b[1] = next  BY <2>1
  <2>4. \A i \in 1 .. n : b[i] = b[1] + i - 1  BY <2>1, <2>3
  <2> HIDE DEF b
  <2>5. call' = [op |-> "write", bytes |-> b, done |-> 0, wait |-> FALSE]  BY <1>3 DEF b
  <2>6. call'.bytes = b /\ call'.done = 0  BY <2>5
  <2>7. call' \in [op : {"write"}, bytes : Seq(Nat), done : Nat, wait : BOOLEAN]
    BY <2>3, <2>5
  <2>8. b[1] + n <= next' /\ n > 0 /\ 0 <= n  BY <1>3, <2>1, <2>3
  <2>9. Sending'  BY <2>2, <2>3, <2>4, <2>6, <2>7, <2>8 DEF Sending
  <2> QED  BY <1>1, <2>2, <2>9 DEF WriteInv, WholeStep
<1> QED  BY <1>2, <1>3 DEF Write

(* Every other step leaves what was handed over, and is no end of a write. *)
Aside ==
  /\ UNCHANGED <<kind, out>> /\ (next' = next \/ next' = next + 1)
  /\ \/ UNCHANGED <<call, stored>>
     \/ call.op # "write" /\ call'.op # "write"

LEMMA AsideKeeps == ASSUME WriteInv, Aside PROVE WriteInv' /\ WholeStep
<1>1. next \in Nat  BY DEF WriteInv, Ascends
<1>2. WriteInv'  BY <1>1, ElsewhereKeeps DEF Aside
<1>3. WholeStep  BY DEF Aside, WholeStep, Idle, NoCall
<1> QED  BY <1>2, <1>3

LEMMA ReadAside == ASSUME Shape, ReadStep PROVE Aside
<1>1. call.op \in Reads /\ UNCHANGED <<kind, stored>>  BY DEF ReadStep, config
<1>2. UNCHANGED <<next, out>>
  BY DEF ReadStep, Shape, BackEnds, Take, ReturnHeld, ReadFails, data,
     PosixRead, PollRead, Win32Read, LoopRead, SocketRead, CliRead, JavaRead
<1>3. call'.op # "write"
  <2>1. CASE \E ok, held : Reply(call.op, ok, held)  BY <2>1 DEF Reply, NoCall
  <2>2. CASE \E held, size : call' = [call EXCEPT !.held = held, !.size = size]
    BY <1>1, <2>2 DEF Shape, Reads
  <2>3. CASE \E held : call' = [call EXCEPT !.held = held]
    BY <1>1, <2>3 DEF Shape, Reads
  <2>4. ASSUME NEW n, Take(n) PROVE call'.op # "write"  BY <2>1, <2>2, <2>4 DEF Take
  <2>5. CASE ReturnHeld \/ ReadFails  BY <2>1, <2>5 DEF ReturnHeld, ReadFails, Raise
  <2>6. CASE kind = "socket"
    <3>1. SocketRead  BY <2>6 DEF ReadStep
    <3> QED  BY <2>1, <2>2, <2>3, <2>5, <3>1 DEF SocketRead
  <2> QED
    BY <2>4, <2>5, <2>6 DEF ReadStep, Shape, BackEnds,
       PosixRead, PollRead, Win32Read, LoopRead, CliRead, JavaRead
<1> QED  BY <1>1, <1>2, <1>3 DEF Aside, Reads

(* A step that only answers, or starts a call that is not a write.         *)
LEMMA AnswerAside ==
  ASSUME UNCHANGED <<kind, next, out>>, call.op # "write",
         \/ \E op, ok, bytes : Reply(op, ok, bytes)
         \/ call'.op # "write"
  PROVE  Aside
BY DEF Aside, Reply, NoCall

LEMMA OpenAside ==
  ASSUME Shape, NEW op, OpenAs(op), call.op # "write", UNCHANGED kind PROVE Aside
<1>1. \E ok : Reply(op, ok, <<>>)
  BY DEF OpenAs, Shape, BackEnds, Posix, OpenFails, Raise, Done, PosixOpen, Win32Open,
     LoopOpen, SocketOpen, CliOpen, JavaOpen
<1>2. UNCHANGED <<next, out>>
  BY DEF OpenAs, Shape, BackEnds, Posix, OpenFails, Emptied, data, PosixOpen, Win32Open,
     LoopOpen, SocketOpen, CliOpen, JavaOpen
<1> QED  BY <1>1, <1>2, AnswerAside

LEMMA IdleAside == Idle => call.op # "write"
BY DEF Idle, NoCall

LEMMA CloseAside == ASSUME Shape, Close \/ SetPort PROVE Aside
<1>1. call.op # "write" /\ UNCHANGED kind  BY IdleAside DEF Close, SetPort, Spend
<1>2. UNCHANGED <<next, out>>
  BY CloseAsReleases DEF Close, SetPort, Released, Emptied, data
<1>3. call'.op # "write"  BY DEF Close, SetPort, Done, Reply, NoCall
<1> QED  BY <1>1, <1>2, <1>3, AnswerAside

LEMMA SetAside == ASSUME Shape, Set \/ ApplyNext PROVE Aside
<1>1. UNCHANGED <<kind, next, out>>  BY DEF Set, ApplyNext, data
<1>2. CASE Set
  <2>1. \E ok : Reply("set", ok, <<>>)
    BY <1>2 DEF Set, SetBaudrate, SetByteSize, SetParity, SetStopbits, SetTimeout,
       SetWriteTimeout, SetInterCharTimeout, SetXonXoff, SetRtsCts, SetDsrDtr,
       Rejected, Raise, Assign, Answered
  <2> QED  BY <1>1, <1>2, <2>1, IdleAside, AnswerAside DEF Set, Spend
<1>3. CASE ApplyNext
  <2>1. call.op = "apply"  BY <1>3 DEF ApplyNext
  <2>2. \/ \E op, ok : Reply(op, ok, <<>>)
        \/ \E a : call' = [call EXCEPT !.answer = a]
    BY <1>3 DEF ApplyNext, Assign, Raise, Done
  <2>3. CASE \E a : call' = [call EXCEPT !.answer = a]
    <3>1. call'.op = "apply"  BY <2>1, <2>3 DEF Shape
    <3> QED  BY <1>1, <2>1, <3>1, AnswerAside
  <2> QED  BY <1>1, <2>1, <2>2, <2>3, AnswerAside
<1> QED  BY <1>2, <1>3

LEMMA StartAside ==
  ASSUME (\E n \in 1 .. 2 : Read(n)) \/ ReadLine \/ ReadLines \/ Flush \/ Apply
  PROVE  Aside
<1>1. call.op # "write" /\ UNCHANGED <<kind, next, out>>
  BY IdleAside DEF Read, ReadLine, ReadLines, Flush, Apply, Spend, NotOpen, data
<1>2. call'.op # "write"
  BY DEF Read, ReadLine, ReadLines, Flush, Apply, NotOpen, Raise, Reply, NoCall
<1> QED  BY <1>1, <1>2, AnswerAside

LEMMA RestAside ==
  ASSUME Shape,
         \/ FlushStep \/ FlushInput \/ FlushOutput \/ Lines \/ GetLine
         \/ GetSettingsDict \/ DeviceSends \/ DeviceTakes \/ Unplug \/ Replug
  PROVE  Aside
<1>1. CASE FlushStep
  <2>1. call.op # "write" /\ UNCHANGED <<kind, next, out>>
    BY <1>1 DEF FlushStep, PosixFlush, data
  <2> QED  BY <1>1, <2>1, AnswerAside DEF FlushStep, PosixFlush, Raise, Done
<1>2. CASE FlushInput
  <2>1. call.op # "write" /\ UNCHANGED <<kind, next, out>>
    BY <1>2, IdleAside DEF FlushInput, Spend, NotOpen, Shape, BackEnds, Posix, data,
       PosixFlushInput, Win32FlushInput, LoopFlushInput, SocketFlush,
       CliFlushInput, JavaFlushInput
  <2>2. \E ok : Reply("flushInput", ok, <<>>)
    BY <1>2 DEF FlushInput, NotOpen, Raise, Done, Shape, BackEnds, Posix,
       PosixFlushInput, Win32FlushInput, LoopFlushInput, SocketFlush,
       CliFlushInput, JavaFlushInput
  <2> QED  BY <2>1, <2>2, AnswerAside
<1>3. CASE FlushOutput
  <2>1. call.op # "write" /\ UNCHANGED <<kind, next, out>>
    BY <1>3, IdleAside DEF FlushOutput, Spend, NotOpen, Shape, BackEnds, Posix, data,
       PosixFlushOutput, Win32FlushOutput, LoopFlushOutput, SocketFlush,
       CliFlushOutput, JavaFlushOutput
  <2>2. \E ok : Reply("flushOutput", ok, <<>>)
    BY <1>3 DEF FlushOutput, NotOpen, Raise, Done, Shape, BackEnds, Posix,
       PosixFlushOutput, Win32FlushOutput, LoopFlushOutput, SocketFlush,
       CliFlushOutput, JavaFlushOutput
  <2> QED  BY <2>1, <2>2, AnswerAside
<1>4. CASE Lines
  <2>1. call.op # "write" /\ UNCHANGED <<kind, next, out>>
    BY <1>4, IdleAside DEF Lines, Spend, data
  <2>2. \E ok : Reply("line", ok, <<>>)
    BY <1>4 DEF Lines, Shape, BackEnds, Posix, SetLine, SendBreak, Done, Raise,
       PosixSetLine, PosixSendBreak, Win32SetLine, Win32SetBreak, Win32SendBreak,
       LoopSetLine, LoopSendBreak, SocketSetLine, CliSetLine, CliSendBreak,
       JavaSetLine, JavaSetBreak, JavaSendBreak
  <2> QED  BY <2>1, <2>2, AnswerAside
<1>5. CASE GetLine
  <2>1. call.op # "write" /\ UNCHANGED <<kind, next, out>>
    BY <1>5, IdleAside DEF GetLine, Spend, data
  <2>2. \E bytes : Reply("query", TRUE, bytes)
    BY <1>5 DEF GetLine, Shape, BackEnds, Posix, PosixGetLine, Win32GetLine,
       LoopGetLine, SocketGetLine, CliGetLine, JavaGetLine
  <2> QED  BY <2>1, <2>2, AnswerAside
<1>6. CASE GetSettingsDict \/ DeviceSends \/ DeviceTakes \/ Unplug \/ Replug
  BY <1>6 DEF GetSettingsDict, DeviceSends, DeviceTakes, Unplug, Replug, Aside, data, config
<1> QED  BY <1>1, <1>2, <1>3, <1>4, <1>5, <1>6

LEMMA WriteInit == Init => WriteInv
BY DEF Init, WriteInv, Ascends, Sending, NoCall

LEMMA WriteInductive ==
  Shape /\ WriteInv /\ [Next]_vars => WriteInv' /\ WholeStep
<1> SUFFICES ASSUME Shape, WriteInv, [Next]_vars PROVE WriteInv' /\ WholeStep  OBVIOUS
<1>1. CASE Open \/ SetPortOpen
  <2>1. (\E op : OpenAs(op)) /\ call.op # "write" /\ UNCHANGED kind
    BY <1>1, IdleAside DEF Open, SetPortOpen
  <2> QED  BY <2>1, OpenAside, AsideKeeps
<1>2. CASE Close \/ SetPort  BY <1>2, CloseAside, AsideKeeps
<1>3. CASE Set \/ ApplyNext  BY <1>3, SetAside, AsideKeeps
<1>4. CASE (\E n \in 1 .. 2 : Read(n)) \/ ReadLine \/ ReadLines \/ Flush \/ Apply
  BY <1>4, StartAside, AsideKeeps
<1>5. CASE \E n \in 1 .. 2 : Write(n)  BY <1>5, WriteStarts
<1>6. CASE ReadStep  BY <1>6, ReadAside, AsideKeeps
<1>7. CASE WriteStep  BY <1>7, WriteStepKeeps
<1>8. CASE \/ FlushStep \/ FlushInput \/ FlushOutput \/ Lines \/ GetLine
           \/ GetSettingsDict \/ DeviceSends \/ DeviceTakes \/ Unplug \/ Replug
  BY <1>8, RestAside, AsideKeeps
<1>9. CASE UNCHANGED vars
  <2>1. Aside  BY <1>9 DEF vars, data, config, Aside
  <2> QED  BY <2>1, AsideKeeps
<1> QED
  BY <1>1, <1>2, <1>3, <1>4, <1>5, <1>6, <1>7, <1>8, <1>9 DEF Next, Proceeds

(* A write that returns has handed all of its bytes to the driver, in      *)
(* order and once.                                                         *)
THEOREM WholeWritesAlways == Spec => WholeWrites
<1>1. SettingsInv => Shape  BY DEF SettingsInv
<1>2. Spec => []WriteInv
  BY WriteInit, WriteInductive, SettingsAlways, <1>1, PTL DEF Spec
<1>3. Shape /\ WriteInv /\ [Next]_vars =>
        [call.op = "write" /\ Idle' /\ answer'.ok
           => /\ IsSuffix(call.bytes, out')
              /\ \A i, j \in DOMAIN out' : i < j => out'[i] < out'[j]]_vars
  BY WriteInductive DEF WholeStep
<1> QED  BY <1>1, <1>2, <1>3, SettingsAlways, PTL DEF Spec, WholeWrites

-----------------------------------------------------------------------------
(* The refinement: a port object keeps the promise of ByteStream.  Each    *)
(* step of it is a step of ByteStream under the refinement mapping of      *)
(* SerialPort.  What it rests on is that a read in progress has less than  *)
(* it was asked for, and that the driver's timeouts are those of the       *)
(* object while it is open.                                                *)

(* A read in progress.                                                     *)
Reading ==
  call.op \in Reads =>
    /\ call \in [op : Reads, size : Nat, held : Seq(Nat)]
    /\ Len(call.held) < call.size
    /\ isOpen

(* The driver ends a read only if the object has a timeout.                *)
DriverTimed ==
  isOpen =>
    /\ kind = "win32" => /\ device.timeout = stored.timeout
                         /\ device.interCharTimeout = stored.interCharTimeout
    /\ kind = "cli" => device.timeout = stored.timeout

ReadInv ==
  /\ rx \in Seq(Nat)
  /\ next \in Nat /\ next > 0
  /\ Reading /\ DriverTimed

-----------------------------------------------------------------------------
(* Sequences.                                                              *)

LEMMA ConcatIs ==
  ASSUME NEW s \in Seq(Nat), NEW t \in Seq(Nat)
  PROVE  /\ s \o t \in Seq(Nat) /\ Len(s \o t) = Len(s) + Len(t)
         /\ \A i \in 1 .. Len(s) : (s \o t)[i] = s[i]
         /\ \A i \in 1 .. Len(t) : (s \o t)[Len(s) + i] = t[i]
OBVIOUS

LEMMA PrefixOfConcat ==
  ASSUME NEW s \in Seq(Nat), NEW t \in Seq(Nat) PROVE IsPrefix(s, s \o t)
<1>1. Len(s) <= Len(s \o t)  BY ConcatIs
<1>2. SubSeq(s, 1, Len(s)) = SubSeq(s \o t, 1, Len(s))  BY ConcatIs
<1> QED  BY <1>1, <1>2 DEF IsPrefix

LEMMA SuffixOfConcat ==
  ASSUME NEW s \in Seq(Nat), NEW t \in Seq(Nat) PROVE IsSuffix(t, s \o t)
<1>1. Len(t) <= Len(s \o t) /\ Len(s \o t) - Len(t) = Len(s)  BY ConcatIs
<1> QED  BY <1>1, ConcatIs, SuffixIs

LEMMA SuffixOfItself ==
  ASSUME NEW s \in Seq(Nat) PROVE IsSuffix(s, s) /\ IsSuffix(<<>>, s)
<1>1. IsSuffix(s, s)  BY SuffixIs
<1> DEFINE e == <<>>
<1>2. e \in Seq(Nat) /\ Len(e) = 0  OBVIOUS
<1> HIDE DEF e
<1>3. Len(e) <= Len(s) /\ \A i \in 1 .. Len(e) : s[Len(s) - Len(e) + i] = e[i]
  BY <1>2
<1>4. IsSuffix(e, s)  BY <1>2, <1>3, SuffixIs
<1> QED  BY <1>1, <1>4 DEF e

LEMMA ConcatThree ==
  ASSUME NEW h \in Seq(Nat), NEW s \in Seq(Nat), NEW t \in Seq(Nat)
  PROVE  (h \o s) \o t = h \o (s \o t)
BY ConcatAssociative

(* What was had, a part of what waits, and the rest of it.                 *)
LEMMA Split ==
  ASSUME NEW h \in Seq(Nat), NEW s \in Seq(Nat), NEW n \in 0 .. Len(s)
  PROVE  /\ h \o SubSeq(s, 1, n) \in Seq(Nat)
         /\ SubSeq(s, n + 1, Len(s)) \in Seq(Nat)
         /\ Len(h \o SubSeq(s, 1, n)) = Len(h) + n
         /\ (h \o SubSeq(s, 1, n)) \o SubSeq(s, n + 1, Len(s)) = h \o s
<1> DEFINE a == SubSeq(s, 1, n)  b == SubSeq(s, n + 1, Len(s))
<1>1. a \in Seq(Nat) /\ b \in Seq(Nat) /\ Len(a) = n  OBVIOUS
<1>2. a \o b = s
  <2>1. SubSeq(s, 1, n) \o SubSeq(s, n + 1, Len(s)) = SubSeq(s, 1, Len(s))
    <3>1. /\ 1 \in 1 .. Len(s) + 1 /\ n \in 1 - 1 .. Len(s)
          /\ Len(s) \in n .. Len(s)
      OBVIOUS
    <3> QED  BY <3>1, ConcatAdjacentSubSeq, Zenon
  <2>2. SubSeq(s, 1, Len(s)) = s  OBVIOUS
  <2> QED  BY <2>1, <2>2
<1> HIDE DEF a, b
<1>3. (h \o a) \o b = h \o (a \o b)  BY <1>1, ConcatThree
<1>4. h \o a \in Seq(Nat) /\ Len(h \o a) = Len(h) + n  BY <1>1, ConcatIs
<1> QED  BY <1>1, <1>2, <1>3, <1>4 DEF a, b

-----------------------------------------------------------------------------
(* The steps of ByteStream, under the mapping.                             *)

LEMMA SameOperators ==
  ASSUME NEW s, NEW t
  PROVE  /\ Promise!IsPrefix(s, t) <=> IsPrefix(s, t)
         /\ Promise!IsSuffix(s, t) <=> IsSuffix(s, t)
BY DEF Promise!IsPrefix, IsPrefix, Promise!IsSuffix, IsSuffix, Promise!Reverse, Reverse

LEMMA DeliverIs ==
  ASSUME answer'.op \in Reads, answer'.ok, Pending = answer'.data \o Pending',
         Asked > Len(answer'.data) => Timed \/ ~plugged,
         Asked' = 0, plugged' = plugged
  PROVE  Promise!Next
BY DEF Promise!Next, Promise!Deliver, Promise!Reads, Pending, Asked, Timed, Reads

LEMMA AnswerIs ==
  ASSUME answer'.op \notin Reads, answer'.ok,
         IsPrefix(Pending, Pending') \/ (answer'.op \in Promise!Clears /\ Pending' = <<>>),
         Asked' = 0, plugged' = plugged
  PROVE  Promise!Next
BY SameOperators DEF Promise!Next, Promise!Answer, Promise!Reads, Pending, Asked, Reads

LEMMA FailIs ==
  ASSUME ~answer'.ok, Asked' = 0, plugged' = plugged,
         \/ Pending' = Pending
         \/ IsSuffix(Pending', Pending) /\ (Asked > 0 \/ answer'.op \in Promise!Clears),
         Asked > 0 => ~plugged \/ ~Waits
  PROVE  Promise!Next
BY SameOperators DEF Promise!Next, Promise!Fail, Promise!Clears, Pending, Asked, Waits

LEMMA ProceedIs ==
  ASSUME Pending' = Pending \/ kind = "socket",
         IsSuffix(Pending', Pending), UNCHANGED <<kind, plugged, answer>>
  PROVE  Promise!Next
BY SameOperators DEF Promise!Next, Promise!Proceed, Pending

LEMMA ArriveIs ==
  ASSUME plugged, NEW b \in 1 .. MaxBytes, Pending' = Append(Pending, b),
         UNCHANGED <<Asked, Timed, Waits, kind, plugged, answer>>
  PROVE  Promise!Next
BY DEF Promise!Next, Promise!Arrive, Pending, Asked, Timed, Waits

LEMMA PlugIs ==
  ASSUME plugged' = ~plugged,
         IF plugged THEN IsPrefix(Pending', Pending) ELSE Pending' = Pending,
         UNCHANGED <<Asked, Timed, Waits, kind, answer>>
  PROVE  Promise!Next
BY SameOperators DEF Promise!Next, Promise!Plug, Pending, Asked, Timed, Waits

-----------------------------------------------------------------------------
(* The steps outside of reads.                                             *)

Outside ==
  /\ call.op \notin Reads /\ call'.op \notin Reads
  /\ UNCHANGED <<kind, plugged>> /\ rx' \in Seq(Nat)
  /\ \/ UNCHANGED <<answer, rx>>
     \/ /\ answer'.op \notin Reads /\ answer'.ok
        /\ \/ rx' = rx \/ IsPrefix(rx, rx')
           \/ answer'.op \in Promise!Clears /\ rx' = <<>>
     \/ ~answer'.ok /\ (rx' = rx \/ (answer'.op \in Promise!Clears /\ rx' = <<>>))

LEMMA OutsidePromise == ASSUME ReadInv, Outside PROVE Promise!Next
<1>1. rx \in Seq(Nat)  BY DEF ReadInv
<1>2. Pending = rx /\ Pending' = rx' /\ Asked = 0 /\ Asked' = 0
  BY DEF Outside, Pending, Asked, Reads
<1>3. CASE UNCHANGED <<answer, rx>>
  BY <1>1, <1>2, <1>3, SuffixOfItself, ProceedIs DEF Outside
<1>4. CASE /\ answer'.op \notin Reads /\ answer'.ok
           /\ \/ rx' = rx \/ IsPrefix(rx, rx')
              \/ answer'.op \in Promise!Clears /\ rx' = <<>>
  <2>1. IsPrefix(rx, rx)
    <3>1. Len(rx) \in Nat /\ Len(rx) <= Len(rx)  BY <1>1, LenProperties
    <3> QED  BY <3>1 DEF IsPrefix
  <2>2. IsPrefix(Pending, Pending') \/ (answer'.op \in Promise!Clears /\ Pending' = <<>>)
    BY <1>2, <1>4, <2>1
  <2>3. Asked' = 0 /\ plugged' = plugged  BY <1>2 DEF Outside
  <2> QED  BY <1>4, <2>2, <2>3, AnswerIs
<1>5. CASE ~answer'.ok /\ (rx' = rx \/ (answer'.op \in Promise!Clears /\ rx' = <<>>))
  <2>1. IsSuffix(rx', rx)  BY <1>1, <1>5, SuffixOfItself
  <2> QED  BY <1>2, <1>5, <2>1, FailIs DEF Outside
<1> QED  BY <1>3, <1>4, <1>5 DEF Outside

LEMMA RepliedIs ==
  ASSUME NEW op, NEW ok, NEW bytes, Reply(op, ok, bytes)
  PROVE  /\ call' = NoCall /\ call'.op \notin Reads /\ call'.op = "none"
         /\ answer'.op = op /\ answer'.ok = ok /\ answer'.data = bytes
BY DEF Reply, NoCall, Reads

LEMMA EndsOutside ==
  ASSUME ReadInv, call.op \notin Reads, call'.op \notin Reads,
         UNCHANGED <<kind, plugged>>,
         \/ rx' = rx
         \/ rx' = <<>> /\ answer'.op \in Promise!Clears,
         answer'.op \notin Reads \/ ~answer'.ok
  PROVE  Outside
<1>1. rx \in Seq(Nat) /\ <<>> \in Seq(Nat)  BY DEF ReadInv
<1>2. rx' \in Seq(Nat)  BY <1>1
<1> QED  BY <1>2 DEF Outside

LEMMA BeginsOutside ==
  ASSUME ReadInv, call.op \notin Reads, call'.op \notin Reads,
         UNCHANGED <<kind, plugged, rx, answer>>
  PROVE  Outside
BY DEF Outside, ReadInv

(* A call that only answers, and leaves the bytes that wait.               *)
LEMMA RepliesOutside ==
  ASSUME ReadInv, call.op \notin Reads, UNCHANGED <<kind, plugged, rx>>,
         NEW op, NEW ok, NEW bytes, Reply(op, ok, bytes), op \notin Reads \/ ok = FALSE
  PROVE  Outside
<1>1. call'.op \notin Reads  BY DEF Reply, NoCall, Reads
<1>2. answer'.op = op /\ answer'.ok = ok  BY ReplyIs
<1> QED  BY <1>1, <1>2, EndsOutside

LEMMA IdleOutside == Idle => call.op \notin Reads
BY DEF Idle, NoCall, Reads

LEMMA OpenOutside ==
  ASSUME Shape, ReadInv, NEW op \in {"open", "port"}, OpenAs(op),
         call.op \notin Reads, UNCHANGED <<kind, plugged>>
  PROVE  Outside
<1>1. \E ok : Reply(op, ok, <<>>)
  BY DEF OpenAs, Shape, BackEnds, Posix, OpenFails, Raise, Done, PosixOpen, Win32Open,
     LoopOpen, SocketOpen, CliOpen, JavaOpen
<1>2. rx' = rx \/ rx' = <<>>
  BY DEF OpenAs, Shape, BackEnds, Posix, OpenFails, Emptied, data, PosixOpen, Win32Open,
     LoopOpen, SocketOpen, CliOpen, JavaOpen
<1>3. call'.op \notin Reads /\ answer'.op = op  BY <1>1 DEF Reply, NoCall, Reads
<1>4. op \in Promise!Clears /\ op \notin Reads  BY DEF Promise!Clears, Reads
<1> QED  BY <1>2, <1>3, <1>4, EndsOutside

LEMMA CloseOutside == ASSUME Shape, ReadInv, Close \/ SetPort PROVE Outside
<1>1. call.op \notin Reads /\ UNCHANGED <<kind, plugged>>
  BY IdleOutside DEF Close, SetPort, Spend
<1>2. rx' = rx \/ (rx' = <<>> /\ answer'.op = "close")
  <2>1. CloseAs => rx' = <<>>  BY CloseAsReleases DEF Released, Emptied
  <2>2. CASE Close  BY <2>1, <2>2, ReplyIs DEF Close, Done, data
  <2>3. CASE SetPort  BY <2>1, <2>3 DEF SetPort, data
  <2> QED  BY <2>2, <2>3
<1>3. call'.op \notin Reads /\ answer'.op \in {"close", "port"}
  BY DEF Close, SetPort, Done, Reply, NoCall, Reads
<1>4. {"close", "port"} \subseteq Promise!Clears /\ {"close", "port"} \cap Reads = {}
  BY DEF Promise!Clears, Reads
<1> QED  BY <1>1, <1>2, <1>3, <1>4, EndsOutside

LEMMA SetOutside ==
  ASSUME Shape, Applying, ReadInv, Set \/ ApplyNext PROVE Outside
<1>1. UNCHANGED <<kind, plugged, rx>>  BY DEF Set, ApplyNext, data
<1>2. CASE Set
  <2>1. \E ok : Reply("set", ok, <<>>)
    BY <1>2 DEF Set, SetBaudrate, SetByteSize, SetParity, SetStopbits, SetTimeout,
       SetWriteTimeout, SetInterCharTimeout, SetXonXoff, SetRtsCts, SetDsrDtr,
       Rejected, Raise, Assign, Answered
  <2>2. call.op \notin Reads  BY <1>2, IdleOutside DEF Set, Spend
  <2>3. "set" \notin Reads  BY DEF Reads
  <2> QED  BY <1>1, <2>1, <2>2, <2>3, RepliesOutside
<1>3. CASE ApplyNext
  <2>1. call.op = "apply" /\ call.answer \in {"nothing", "apply"}
    BY <1>3 DEF ApplyNext, Applying
  <2>2. \/ \E op \in {"nothing", "apply"} : \E ok : Reply(op, ok, <<>>)
        \/ (\E a : call' = [call EXCEPT !.answer = a]) /\ UNCHANGED answer
    BY <1>3, <2>1 DEF ApplyNext, Assign, Raise, Done
  <2>3. call.op \notin Reads /\ \A op \in {"nothing", "apply"} : op \notin Reads
    BY <2>1 DEF Reads
  <2>4. CASE (\E a : call' = [call EXCEPT !.answer = a]) /\ UNCHANGED answer
    <3>1. call'.op = "apply"  BY <2>1, <2>4 DEF Shape
    <3> QED  BY <1>1, <2>3, <2>4, <3>1, BeginsOutside DEF Reads
  <2> QED  BY <1>1, <2>2, <2>3, <2>4, RepliesOutside
<1> QED  BY <1>2, <1>3

LEMMA WriteOutside ==
  ASSUME Shape, WriteInv, ReadInv, (\E n \in 1 .. 2 : Write(n)) \/ WriteStep
  PROVE  Outside
<1>1. UNCHANGED <<kind, plugged>>  BY DEF Write, WriteStep
<1>2. ASSUME NEW n \in 1 .. 2, Write(n) PROVE Outside
  <2>1. call.op \notin Reads  BY <1>2, IdleOutside DEF Write, Spend
  <2>2. CASE NotOpen("write")
    BY <1>1, <2>1, <2>2, RepliesOutside DEF NotOpen, Raise, data
  <2>3. CASE UNCHANGED <<rx, answer>> /\
             call' = [op |-> "write", bytes |-> [i \in 1 .. n |-> next + i - 1],
                      done |-> 0, wait |-> FALSE]
    <3>1. call'.op \notin Reads  BY <2>3 DEF Reads
    <3> QED  BY <1>1, <2>1, <2>3, <3>1, BeginsOutside
  <2> QED  BY <1>2, <2>2, <2>3 DEF Write
<1>3. ASSUME WriteStep PROVE Outside
  <2>1. call.op = "write" /\ call.op \notin Reads /\ "write" \notin Reads
    BY <1>3 DEF WriteStep, Reads
  <2>2. call \in [op : {"write"}, bytes : Seq(Nat), done : Nat, wait : BOOLEAN]
    BY <2>1 DEF WriteInv, Sending
  <2>3. ASSUME NEW c, call' = c, c.op = "write", UNCHANGED <<rx, answer>> PROVE Outside
    BY <1>1, <2>1, <2>3, BeginsOutside
  <2>4. ASSUME UNCHANGED rx, NEW ok, NEW bytes, Reply("write", ok, bytes) PROVE Outside
    BY <1>1, <2>1, <2>4, RepliesOutside
  <2>5. ASSUME WriteFails PROVE Outside
    BY <2>4, <2>5 DEF WriteFails, Raise, data
  <2>6. ASSUME UNCHANGED <<rx, answer>>,
               \/ \E d : call' = [call EXCEPT !.done = d]
               \/ \E w : call' = [call EXCEPT !.wait = w]
               \/ \E d, w : call' = [call EXCEPT !.done = d, !.wait = w]
        PROVE  Outside
    <3>1. call'.op = "write"  BY <2>2, <2>6
    <3> QED  BY <2>3, <2>6, <3>1
  <2>7. CASE Posix
    <3>1. PosixWrite  BY <1>3, <2>7 DEF WriteStep, Posix
    <3>2. CASE plugged /\ ~call.wait
      <4>1. PICK n \in 1 .. Unsent :
              /\ Accept(n)
              /\ IF stored.writeTimeout = "some" \/ n < Unsent
                 THEN /\ call' = [call EXCEPT !.done = @ + n,
                                              !.wait = stored.writeTimeout = "some"]
                      /\ UNCHANGED answer
                 ELSE Reply("write", TRUE, call.bytes)
        BY <3>1, <3>2 DEF PosixWrite
      <4> QED  BY <2>4, <2>6, <4>1 DEF Accept
    <3> QED  BY <2>4, <2>5, <2>6, <3>1, <3>2 DEF PosixWrite, data
  <2>8. CASE kind = "win32"
    BY <1>3, <2>4, <2>5, <2>6, <2>8 DEF WriteStep, Posix, Win32Write, Accept
  <2>9. CASE kind = "loop"
    <3>1. LoopWrite  BY <1>3, <2>9 DEF WriteStep, Posix
    <3>2. CASE /\ rx' = rx \o call.bytes /\ Reply("write", TRUE, call.bytes)
      <4>1. rx \in Seq(Nat) /\ call.bytes \in Seq(Nat)  BY <2>2 DEF ReadInv
      <4>2. rx' \in Seq(Nat) /\ IsPrefix(rx, rx')  BY <3>2, <4>1, ConcatIs, PrefixOfConcat
      <4>3. call'.op \notin Reads /\ answer'.op = "write" /\ answer'.ok = TRUE
        BY <3>2, RepliedIs
      <4> QED  BY <1>1, <2>1, <4>2, <4>3 DEF Outside
    <3> QED  BY <2>5, <3>1, <3>2 DEF LoopWrite
  <2>10. CASE kind \in {"socket", "cli", "java"}
    BY <1>3, <2>4, <2>5, <2>6, <2>10
       DEF WriteStep, Posix, SocketWrite, CliWrite, JavaWrite, Accept
  <2> QED  BY <2>7, <2>8, <2>9, <2>10 DEF Shape, BackEnds, Posix
<1> QED  BY <1>2, <1>3

LEMMA RestOutside ==
  ASSUME Shape, ReadInv,
         Flush \/ FlushStep \/ FlushInput \/ FlushOutput \/ Lines \/ GetLine \/ Apply
  PROVE  Outside
<1>1. UNCHANGED <<kind, plugged>>
  BY DEF Flush, FlushStep, FlushInput, FlushOutput, Lines, GetLine, Apply
<1>2. call.op \notin Reads
  BY IdleOutside DEF Flush, FlushStep, FlushInput, FlushOutput, Lines, GetLine, Apply,
     Spend, Reads
<1>3. CASE Flush \/ Apply
  <2>1. call'.op \notin Reads /\ UNCHANGED <<rx, answer>>
    BY <1>3 DEF Flush, Apply, data, Reads
  <2> QED  BY <1>1, <1>2, <2>1, BeginsOutside
<1>4. CASE FlushStep
  BY <1>1, <1>2, <1>4, RepliesOutside
     DEF FlushStep, PosixFlush, Raise, Done, data, Reads
<1>5. CASE FlushInput
  <2>1. \E ok : Reply("flushInput", ok, <<>>)
    BY <1>5 DEF FlushInput, NotOpen, Raise, Done, Shape, BackEnds, Posix,
       PosixFlushInput, Win32FlushInput, LoopFlushInput, SocketFlush,
       CliFlushInput, JavaFlushInput
  <2>2. rx' = rx \/ rx' = <<>>
    BY <1>5 DEF FlushInput, NotOpen, Shape, BackEnds, Posix, data,
       PosixFlushInput, Win32FlushInput, LoopFlushInput, SocketFlush,
       CliFlushInput, JavaFlushInput
  <2>3. call'.op \notin Reads /\ answer'.op = "flushInput"
    BY <2>1 DEF Reply, NoCall, Reads
  <2>4. "flushInput" \in Promise!Clears /\ "flushInput" \notin Reads
    BY DEF Promise!Clears, Reads
  <2> QED  BY <1>1, <1>2, <2>2, <2>3, <2>4, EndsOutside
<1>6. CASE FlushOutput
  <2>1. (\E ok : Reply("flushOutput", ok, <<>>)) /\ rx' = rx
    BY <1>6 DEF FlushOutput, NotOpen, Raise, Done, Shape, BackEnds, Posix, data,
       PosixFlushOutput, Win32FlushOutput, LoopFlushOutput, SocketFlush,
       CliFlushOutput, JavaFlushOutput
  <2> QED  BY <1>1, <1>2, <2>1, RepliesOutside DEF Reads
<1>7. CASE Lines
  <2>1. (\E ok : Reply("line", ok, <<>>)) /\ rx' = rx
    BY <1>7 DEF Lines, Shape, BackEnds, Posix, SetLine, SendBreak, Done, Raise, data,
       PosixSetLine, PosixSendBreak, Win32SetLine, Win32SetBreak, Win32SendBreak,
       LoopSetLine, LoopSendBreak, SocketSetLine, CliSetLine, CliSendBreak,
       JavaSetLine, JavaSetBreak, JavaSendBreak
  <2> QED  BY <1>1, <1>2, <2>1, RepliesOutside DEF Reads
<1>8. CASE GetLine
  <2>1. (\E bytes : Reply("query", TRUE, bytes)) /\ rx' = rx
    BY <1>8 DEF GetLine, Shape, BackEnds, Posix, data, PosixGetLine, Win32GetLine,
       LoopGetLine, SocketGetLine, CliGetLine, JavaGetLine
  <2> QED  BY <1>1, <1>2, <2>1, RepliesOutside DEF Reads
<1> QED  BY <1>3, <1>4, <1>5, <1>6, <1>7, <1>8

-----------------------------------------------------------------------------
(* The steps of a read.                                                    *)

LEMMA SmallerIs ==
  ASSUME NEW a \in Nat, NEW b \in Nat
  PROVE  Smaller(a, b) \in 0 .. b /\ Smaller(a, b) <= a
BY DEF Smaller

(* What is known of a read in progress, and of the room it has.            *)
LEMMA ReadingIs ==
  ASSUME ReadInv, call.op \in Reads
  PROVE  /\ call \in [op : Reads, size : Nat, held : Seq(Nat)]
         /\ call.held \in Seq(Nat) /\ call.size \in Nat /\ rx \in Seq(Nat)
         /\ Len(call.held) \in Nat /\ Len(rx) \in Nat
         /\ Room \in Nat /\ Room > 0 /\ call.size = Len(call.held) + Room
         /\ Pending = call.held \o rx
         /\ Asked = call.size
<1>1. /\ call \in [op : Reads, size : Nat, held : Seq(Nat)]
      /\ call.held \in Seq(Nat) /\ call.size \in Nat /\ rx \in Seq(Nat)
      /\ Len(call.held) < call.size
  BY DEF ReadInv, Reading
<1>2. Len(call.held) \in Nat /\ Len(rx) \in Nat  BY <1>1
<1>3. Room \in Nat /\ Room > 0 /\ call.size = Len(call.held) + Room
  BY <1>1, <1>2 DEF Room
<1> QED  BY <1>1, <1>2, <1>3 DEF Pending, Asked

(* A read that goes on, with what it then has and the size it is after.    *)
LEMMA GoesOnReading ==
  ASSUME ReadInv, call.op \in Reads, NEW h \in Seq(Nat), NEW z \in Nat, Len(h) < z,
         call' = [call EXCEPT !.held = h, !.size = z], UNCHANGED isOpen
  PROVE  Reading' /\ Pending' = h \o rx'
<1>1. call \in [op : Reads, size : Nat, held : Seq(Nat)] /\ isOpen
  BY DEF ReadInv, Reading
<1>2. /\ call' \in [op : Reads, size : Nat, held : Seq(Nat)]
      /\ call'.op = call.op /\ call'.held = h /\ call'.size = z
  BY <1>1
<1> QED  BY <1>1, <1>2 DEF Reading, Pending

ReadKept == Promise!Next /\ Reading' /\ rx' \in Seq(Nat)

LEMMA OutsideKept == ASSUME ReadInv, Outside PROVE ReadKept
BY OutsidePromise DEF Outside, Reading, ReadKept

LEMMA TakeKept ==
  ASSUME ReadInv, call.op \in Reads, NEW n \in 0 .. Len(rx), n <= Room, Take(n),
         UNCHANGED <<kind, plugged, isOpen>>
  PROVE  ReadKept
<1> DEFINE held == call.held \o SubSeq(rx, 1, n)
           rest == SubSeq(rx, n + 1, Len(rx))
           full == Len(held) = call.size
<1>1. /\ held \in Seq(Nat) /\ rest \in Seq(Nat)
      /\ Len(held) = Len(call.held) + n /\ held \o rest = call.held \o rx
  BY ReadingIs, Split
<1>2. rx' = rest
      /\ \/ full /\ Reply(call.op, TRUE, held)
         \/ /\ call' = [call EXCEPT !.held = held, !.size = IF full THEN @ + 1 ELSE @]
            /\ UNCHANGED answer
  BY DEF Take
<1> HIDE DEF held, rest
<1>3. Len(held) \in Nat /\ Len(held) <= call.size  BY <1>1, ReadingIs
<1>4. CASE full /\ Reply(call.op, TRUE, held)
  <2>1. /\ call'.op \notin Reads /\ call'.op = "none" /\ answer'.op = call.op
        /\ answer'.ok = TRUE /\ answer'.data = held
    BY <1>4, RepliedIs
  <2>2. Pending' = rest /\ Asked' = 0  BY <1>2, <2>1 DEF Pending, Asked
  <2>3. Pending = answer'.data \o Pending'  BY <1>1, <2>1, <2>2, ReadingIs
  <2>4. ~(Asked > Len(answer'.data))  BY <1>3, <1>4, <2>1, ReadingIs
  <2>5. Promise!Next  BY <2>1, <2>2, <2>3, <2>4, DeliverIs
  <2>6. Reading'  BY <2>1 DEF Reading
  <2> QED  BY <1>1, <1>2, <2>5, <2>6 DEF ReadKept
<1>5. CASE /\ call' = [call EXCEPT !.held = held, !.size = IF full THEN @ + 1 ELSE @]
           /\ UNCHANGED answer
  <2> DEFINE z == IF full THEN call.size + 1 ELSE call.size
  <2>1. z \in Nat /\ Len(held) < z  BY <1>3, ReadingIs
  <2>2. call' = [call EXCEPT !.held = held, !.size = z]  BY <1>5, ReadingIs
  <2> HIDE DEF z
  <2>3. Reading' /\ Pending' = held \o rx'  BY <1>1, <2>1, <2>2, GoesOnReading
  <2>4. Pending' = Pending /\ Pending \in Seq(Nat)
    <3>1. Pending' = held \o rest  BY <1>2, <2>3
    <3>2. Pending = call.held \o rx  BY ReadingIs
    <3>3. call.held \o rx \in Seq(Nat)  BY ReadingIs, ConcatIs
    <3> QED  BY <1>1, <3>1, <3>2, <3>3
  <2>5. IsSuffix(Pending', Pending)  BY <2>4, SuffixOfItself
  <2>6. Promise!Next  BY <1>5, <2>4, <2>5, ProceedIs
  <2> QED  BY <1>1, <1>2, <2>3, <2>6 DEF ReadKept
<1> QED  BY <1>2, <1>4, <1>5

(* A read that ends early has a timeout, or no device.                     *)
LEMMA ReturnKept ==
  ASSUME ReadInv, call.op \in Reads, ReturnHeld, Timed \/ ~plugged,
         UNCHANGED <<kind, plugged>>
  PROVE  ReadKept
<1>1. /\ call'.op \notin Reads /\ call'.op = "none" /\ answer'.op = call.op
      /\ answer'.ok = TRUE /\ answer'.data = call.held
  BY RepliedIs DEF ReturnHeld
<1>2. rx' = rx  BY DEF ReturnHeld, data
<1>3. Pending' = rx /\ Asked' = 0  BY <1>1, <1>2 DEF Pending, Asked
<1>4. Pending = answer'.data \o Pending'  BY <1>1, <1>3, ReadingIs
<1>5. Promise!Next  BY <1>1, <1>3, <1>4, DeliverIs
<1>6. Reading'  BY <1>1 DEF Reading
<1> QED  BY <1>2, <1>5, <1>6, ReadingIs DEF ReadKept

(* A read fails when it lost the device or its back end does not wait.     *)
LEMMA FailKept ==
  ASSUME ReadInv, call.op \in Reads, ReadFails, ~plugged \/ ~Waits,
         UNCHANGED <<kind, plugged>>
  PROVE  ReadKept
<1>1. call'.op \notin Reads /\ call'.op = "none" /\ answer'.ok = FALSE
  BY RepliedIs DEF ReadFails, Raise
<1>2. rx' = rx  BY DEF ReadFails, data
<1>3. Pending' = rx /\ Asked' = 0  BY <1>1, <1>2 DEF Pending, Asked
<1>4. IsSuffix(Pending', Pending)  BY <1>3, ReadingIs, SuffixOfConcat
<1>5. Promise!Next  BY <1>1, <1>3, <1>4, FailIs, ReadingIs
<1>6. Reading'  BY <1>1 DEF Reading
<1> QED  BY <1>2, <1>5, <1>6, ReadingIs DEF ReadKept

(* The read over a socket: what it has may be replaced by what comes, but  *)
(* never in the part that completes it.                                    *)
LEMMA SocketKept ==
  ASSUME ReadInv, kind = "socket", call.op \in Reads, SocketRead,
         UNCHANGED <<kind, plugged, isOpen>>
  PROVE  ReadKept
<1>1. Base = call.held \/ (Base = <<>> /\ call.op = "read")  BY DEF Base
<1>2. Base \in Seq(Nat) /\ Len(Base) \in Nat /\ Len(Base) <= Len(call.held)
  <2>1. CASE Base = call.held  BY <2>1, ReadingIs
  <2>2. CASE Base = <<>>  BY <2>2, ReadingIs
  <2> QED  BY <1>1, <2>1, <2>2
<1>3. IsSuffix(Base \o rx, call.held \o rx)
  <2>1. CASE Base = call.held  BY <2>1, ReadingIs, ConcatIs, SuffixOfItself
  <2>2. CASE Base = <<>>
    <3>1. Base \o rx = rx  BY <2>2, ReadingIs
    <3> QED  BY <3>1, ReadingIs, SuffixOfConcat
  <2> QED  BY <1>1, <2>1, <2>2
<1>4. CASE stored.timeout = None /\ ReadFails  BY <1>4, FailKept DEF Waits
<1>5. CASE stored.timeout # None /\ ReturnHeld  BY <1>5, ReturnKept DEF Timed
<1>6. CASE ~plugged /\ ReadFails  BY <1>6, FailKept
<1>7. CASE call' = [call EXCEPT !.held = Base] /\ UNCHANGED <<answer, data>>
  <2>1. call' = [call EXCEPT !.held = Base, !.size = call.size]  BY <1>7, ReadingIs
  <2>2. Len(Base) < call.size  BY <1>2, ReadingIs
  <2>3. rx' = rx  BY <1>7 DEF data
  <2>4. Reading' /\ Pending' = Base \o rx
    BY <1>2, <2>1, <2>2, <2>3, GoesOnReading, ReadingIs
  <2>5. IsSuffix(Pending', Pending)  BY <1>3, <2>4, ReadingIs
  <2>6. Promise!Next  BY <1>7, <2>5, ProceedIs
  <2> QED  BY <2>3, <2>4, <2>6, ReadingIs DEF ReadKept
<1> DEFINE n == Smaller(Room, Len(rx))
           held == Base \o SubSeq(rx, 1, n)
           rest == SubSeq(rx, n + 1, Len(rx))
           full == Len(held) >= call.size
<1>8. CASE /\ rx' = rest
           /\ \/ full /\ Reply(call.op, TRUE, held)
              \/ /\ call' = [call EXCEPT !.held = held, !.size = IF full THEN @ + 1 ELSE @]
                 /\ UNCHANGED answer
  <2>1. n \in 0 .. Len(rx) /\ n <= Room  BY ReadingIs, SmallerIs
  <2> HIDE DEF n
  <2>2. /\ held \in Seq(Nat) /\ rest \in Seq(Nat)
        /\ Len(held) = Len(Base) + n /\ held \o rest = Base \o rx
    BY <1>2, <2>1, ReadingIs, Split
  <2>3. Len(held) \in Nat /\ Len(held) <= call.size  BY <1>2, <2>1, <2>2, ReadingIs
  <2>4. full => Len(Base) = Len(call.held)  BY <1>2, <2>1, <2>2, ReadingIs
  <2>5. full => Base = call.held
    <3>1. Base = <<>> /\ Len(Base) = Len(call.held) => call.held = <<>>
      BY ReadingIs
    <3> QED  BY <1>1, <2>4, <3>1
  <2> HIDE DEF held, rest
  <2>6. CASE full /\ Reply(call.op, TRUE, held)
    <3>1. /\ call'.op \notin Reads /\ call'.op = "none" /\ answer'.op = call.op
          /\ answer'.ok = TRUE /\ answer'.data = held
      BY <2>6, RepliedIs
    <3>2. Pending' = rest /\ Asked' = 0  BY <1>8, <3>1 DEF Pending, Asked
    <3>3. Pending = answer'.data \o Pending'
      BY <2>2, <2>5, <2>6, <3>1, <3>2, ReadingIs
    <3>4. ~(Asked > Len(answer'.data))  BY <2>3, <2>6, <3>1, ReadingIs
    <3>5. Promise!Next  BY <3>1, <3>2, <3>3, <3>4, DeliverIs
    <3>6. Reading'  BY <3>1 DEF Reading
    <3> QED  BY <1>8, <2>2, <3>5, <3>6 DEF ReadKept
  <2>7. CASE /\ call' = [call EXCEPT !.held = held, !.size = IF full THEN @ + 1 ELSE @]
             /\ UNCHANGED answer
    <3> DEFINE z == IF full THEN call.size + 1 ELSE call.size
    <3>1. z \in Nat /\ Len(held) < z  BY <2>3, ReadingIs
    <3>2. call' = [call EXCEPT !.held = held, !.size = z]  BY <2>7, ReadingIs
    <3> HIDE DEF z
    <3>3. Reading' /\ Pending' = held \o rx'  BY <2>2, <3>1, <3>2, GoesOnReading
    <3>4. IsSuffix(Pending', Pending)  BY <1>3, <1>8, <2>2, <3>3, ReadingIs
    <3>5. Promise!Next  BY <2>7, <3>4, ProceedIs
    <3> QED  BY <1>8, <2>2, <3>3, <3>5 DEF ReadKept
  <2> QED  BY <1>8, <2>6, <2>7
<1> QED  BY <1>4, <1>5, <1>6, <1>7, <1>8 DEF SocketRead

LEMMA ReadStepKept == ASSUME Shape, ReadInv, ReadStep PROVE ReadKept
<1>1. call.op \in Reads /\ UNCHANGED <<kind, plugged, isOpen>>
  BY DEF ReadStep, config
<1>2. isOpen /\ DriverTimed  BY <1>1 DEF ReadInv, Reading
<1>3. ASSUME rx # <<>>, Take(1) PROVE ReadKept
  <2>1. 1 \in 0 .. Len(rx) /\ 1 <= Room  BY <1>1, <1>3, ReadingIs
  <2> QED  BY <1>1, <1>3, <2>1, TakeKept
<1>4. ASSUME Take(Smaller(Room, Len(rx))) PROVE ReadKept
  <2>1. /\ Smaller(Room, Len(rx)) \in 0 .. Len(rx)
        /\ Smaller(Room, Len(rx)) <= Room
    BY <1>1, ReadingIs, SmallerIs
  <2> QED  BY <1>1, <1>4, <2>1, TakeKept
<1>5. ASSUME ReadFails, ~plugged \/ ~Waits PROVE ReadKept  BY <1>1, <1>5, FailKept
<1>6. ASSUME stored.timeout # None \/ stored.interCharTimeout # None \/ ~plugged, ReturnHeld
      PROVE  ReadKept
  BY <1>1, <1>6, ReturnKept DEF Timed
<1>7. CASE kind = "win32"
  <2>1. Win32Read  BY <1>7 DEF ReadStep
  <2>2. device.timeout = stored.timeout /\ device.interCharTimeout = stored.interCharTimeout
    BY <1>2, <1>7 DEF DriverTimed
  <2> QED  BY <1>4, <1>5, <1>6, <2>1, <2>2, SerialPortAssumption DEF Win32Read
<1>8. CASE kind = "cli"
  <2>1. CliRead  BY <1>8 DEF ReadStep
  <2>2. device.timeout = stored.timeout  BY <1>2, <1>8 DEF DriverTimed
  <2> QED  BY <1>3, <1>5, <1>6, <2>1, <2>2 DEF CliRead
<1>9. CASE kind = "socket"
  <2>1. SocketRead  BY <1>9 DEF ReadStep
  <2> QED  BY <1>1, <1>9, <2>1, SocketKept
<1>10. CASE kind = "poll"
  BY <1>4, <1>5, <1>6, <1>10 DEF ReadStep, PollRead, Waits
<1>11. CASE kind \in {"posix", "loop", "java"}
  BY <1>3, <1>4, <1>5, <1>6, <1>11 DEF ReadStep, PosixRead, LoopRead, JavaRead
<1> QED  BY <1>7, <1>8, <1>9, <1>10, <1>11 DEF Shape, BackEnds

LEMMA StartKept ==
  ASSUME ReadInv, (\E n \in 1 .. 2 : Read(n)) \/ ReadLine \/ ReadLines PROVE ReadKept
<1>1. UNCHANGED <<kind, plugged, rx, isOpen>> /\ call.op \notin Reads
  BY IdleOutside DEF Read, ReadLine, ReadLines, Spend, config, data, NotOpen
<1>2. CASE \E op \in Reads : Raise(op)
  <2>1. Outside  BY <1>1, <1>2, RepliesOutside DEF Raise
  <2> QED  BY <2>1, OutsideKept
<1>3. CASE /\ \E op \in Reads, n \in 1 .. 2 : call' = [op |-> op, size |-> n, held |-> <<>>]
           /\ UNCHANGED answer /\ isOpen
  <2>1. PICK op \in Reads, n \in 1 .. 2 : call' = [op |-> op, size |-> n, held |-> <<>>]
    BY <1>3
  <2>2. call' \in [op : Reads, size : Nat, held : Seq(Nat)]
        /\ call'.op = op /\ call'.held = <<>> /\ call'.size = n
    BY <2>1
  <2>3. rx \in Seq(Nat) /\ <<>> \o rx = rx  BY DEF ReadInv
  <2>4. Pending = rx /\ Pending' = rx  BY <1>1, <2>2, <2>3 DEF Pending
  <2>5. IsSuffix(Pending', Pending)  BY <2>3, <2>4, SuffixOfItself
  <2>6. Promise!Next  BY <1>1, <1>3, <2>4, <2>5, ProceedIs
  <2>7. Reading'
    <3>1. Len(<<>>) < n  OBVIOUS
    <3> QED  BY <1>1, <1>3, <2>2, <3>1 DEF Reading
  <2> QED  BY <1>1, <2>3, <2>6, <2>7 DEF ReadKept
<1>4. 1 \in 1 .. 2 /\ {"read", "readline", "readlines"} \subseteq Reads  BY DEF Reads
<1>5. ASSUME NEW n \in 1 .. 2, Read(n) PROVE ReadKept
  BY <1>2, <1>3, <1>4, <1>5 DEF Read, NotOpen
<1>6. ASSUME ReadLine PROVE ReadKept
  BY <1>2, <1>3, <1>4, <1>6 DEF ReadLine, NotOpen
<1>7. ASSUME ReadLines PROVE ReadKept
  BY <1>2, <1>3, <1>4, <1>7 DEF ReadLines
<1> QED  BY <1>5, <1>6, <1>7

(* Steps that leave the call in progress alone.                            *)
LEMMA AsideKept ==
  ASSUME ReadInv,
         DeviceSends \/ DeviceTakes \/ Unplug \/ Replug \/ GetSettingsDict \/ UNCHANGED vars
  PROVE  ReadKept
<1>1. UNCHANGED <<kind, isOpen, stored, device, call, answer>>
  BY DEF DeviceSends, DeviceTakes, Unplug, Replug, GetSettingsDict, vars, config
<1>2. Reading' /\ UNCHANGED <<Asked, Timed, Waits>>
  BY <1>1 DEF ReadInv, Reading, Asked, Timed, Waits
<1>3. rx \in Seq(Nat) /\ next \in Nat /\ next > 0  BY DEF ReadInv
<1>4. \/ call.op \notin Reads /\ Pending = rx /\ Pending' = rx'
      \/ /\ call.op \in Reads /\ call.held \in Seq(Nat)
         /\ Pending = call.held \o rx /\ Pending' = call.held \o rx'
  BY <1>1, ReadingIs DEF Pending
<1>5. Pending \in Seq(Nat)  BY <1>3, <1>4, ConcatIs
<1>6. CASE DeviceSends
  <2>1. plugged /\ plugged' = plugged /\ rx' = Append(rx, next) /\ next \in 1 .. MaxBytes
    BY <1>3, <1>6, SerialPortAssumption DEF DeviceSends
  <2>2. rx' \in Seq(Nat)  BY <1>3, <2>1
  <2>3. ASSUME NEW h \in Seq(Nat) PROVE h \o Append(rx, next) = Append(h \o rx, next)
    <3>1. <<next>> \in Seq(Nat) /\ Append(rx, next) = rx \o <<next>>  BY <1>3
    <3>2. h \o rx \in Seq(Nat)  BY <1>3, ConcatIs
    <3>3. Append(h \o rx, next) = (h \o rx) \o <<next>>
      BY <1>3, <3>2, AppendIsConcat
    <3> QED  BY <1>3, <3>1, <3>3, ConcatThree
  <2>4. Pending' = Append(Pending, next)  BY <1>4, <2>1, <2>3
  <2>5. Promise!Next  BY <1>1, <1>2, <2>1, <2>4, ArriveIs
  <2> QED  BY <1>2, <2>2, <2>5 DEF ReadKept
<1>7. CASE Unplug
  <2>1. plugged /\ plugged' = FALSE /\ rx' = <<>>  BY <1>7 DEF Unplug
  <2>2. <<>> \in Seq(Nat)  OBVIOUS
  <2>3. IsPrefix(Pending', Pending)
    <3>1. CASE call.op \notin Reads
      <4>1. Pending' = <<>> /\ Pending = <<>> \o rx  BY <1>3, <1>4, <2>1, <3>1
      <4> QED  BY <1>3, <2>2, <4>1, PrefixOfConcat
    <3>2. CASE call.op \in Reads
      <4>1. Pending' = call.held  BY <1>4, <2>1, <3>2
      <4> QED  BY <1>3, <1>4, <3>2, <4>1, PrefixOfConcat
    <3> QED  BY <3>1, <3>2
  <2>4. Promise!Next  BY <1>1, <1>2, <2>1, <2>3, PlugIs
  <2> QED  BY <1>2, <2>1, <2>2, <2>4 DEF ReadKept
<1>8. CASE Replug
  <2>1. plugged' = ~plugged /\ ~plugged /\ rx' = rx  BY <1>8 DEF Replug, data
  <2>2. Pending' = Pending  BY <1>4, <2>1
  <2>3. Promise!Next  BY <1>1, <1>2, <2>1, <2>2, PlugIs
  <2> QED  BY <1>2, <1>3, <2>1, <2>3 DEF ReadKept
<1>9. CASE DeviceTakes \/ GetSettingsDict \/ UNCHANGED vars
  <2>1. UNCHANGED <<plugged, rx>>
    BY <1>9 DEF DeviceTakes, GetSettingsDict, vars, data
  <2>2. Pending' = Pending  BY <1>4, <2>1
  <2>3. IsSuffix(Pending', Pending)  BY <1>5, <2>2, SuffixOfItself
  <2>4. Promise!Next  BY <1>1, <2>1, <2>2, <2>3, ProceedIs
  <2> QED  BY <1>2, <1>3, <2>1, <2>4 DEF ReadKept
<1> QED  BY <1>6, <1>7, <1>8, <1>9

(* Every step keeps the promise, and what is known of the read.            *)
LEMMA StepKept ==
  ASSUME SettingsInv, WriteInv, ReadInv, [Next]_vars PROVE ReadKept
<1>1. Shape /\ Applying  BY DEF SettingsInv
<1>2. CASE Open \/ SetPortOpen
  <2>1. PICK op \in {"open", "port"} : OpenAs(op)  BY <1>2 DEF Open, SetPortOpen
  <2>2. call.op \notin Reads /\ UNCHANGED <<kind, plugged>>
    BY <1>2, IdleOutside DEF Open, SetPortOpen, Reads
  <2> QED  BY <1>1, <2>1, <2>2, OpenOutside, OutsideKept
<1>3. CASE Close \/ SetPort  BY <1>1, <1>3, CloseOutside, OutsideKept
<1>4. CASE Set \/ ApplyNext  BY <1>1, <1>4, SetOutside, OutsideKept
<1>5. CASE (\E n \in 1 .. 2 : Read(n)) \/ ReadLine \/ ReadLines  BY <1>5, StartKept
<1>6. CASE (\E n \in 1 .. 2 : Write(n)) \/ WriteStep
  BY <1>1, <1>6, WriteOutside, OutsideKept
<1>7. CASE ReadStep  BY <1>1, <1>7, ReadStepKept
<1>8. CASE Flush \/ FlushStep \/ FlushInput \/ FlushOutput \/ Lines \/ GetLine \/ Apply
  BY <1>1, <1>8, RestOutside, OutsideKept
<1>9. CASE \/ DeviceSends \/ DeviceTakes \/ Unplug \/ Replug \/ GetSettingsDict
           \/ UNCHANGED vars
  BY <1>9, AsideKept
<1> QED
  BY <1>2, <1>3, <1>4, <1>5, <1>6, <1>7, <1>8, <1>9 DEF Next, Proceeds

-----------------------------------------------------------------------------
(* The driver's timeouts: _reconfigurePort sets them before anything that  *)
(* may be refused.                                                         *)

LEMMA Win32Timed ==
  ASSUME Shape, NEW s, NEW w, NEW o \in Win32Reconfigure(s, device, w)
  PROVE  o.dev.timeout = s.timeout /\ o.dev.interCharTimeout = s.interCharTimeout
<1> DEFINE t == Put(device, DriverTimeouts, s)
           all == Put(t, DcbKeys, s)
<1>1. o.dev = t \/ o.dev = all  BY DEF Win32Reconfigure, Refused, Applied
<1>2. DOMAIN t = KeySet /\ t.timeout = s.timeout /\ t.interCharTimeout = s.interCharTimeout
  BY PutIs, KeysAre DEF Shape, DriverTimeouts
<1> HIDE DEF t
<1>3. all.timeout = s.timeout /\ all.interCharTimeout = s.interCharTimeout
  BY <1>2, PutIs, KeysAre DEF DcbKeys
<1> QED  BY <1>1, <1>2, <1>3

LEMMA CliTimed ==
  ASSUME Shape, NEW s, NEW o \in CliReconfigure(s, device)
  PROVE  o.dev.timeout = s.timeout
<1> DEFINE timeouts == Put(device, {"timeout", "writeTimeout"}, s)
           format == Put(timeouts, {"baudrate", "bytesize", "parity"}, s)
           all == Put(device, CliKeys, s)
<1>1. o.dev = timeouts \/ o.dev = format \/ o.dev = all
  BY DEF CliReconfigure, Refused, Applied
<1>2. DOMAIN timeouts = KeySet /\ timeouts.timeout = s.timeout
  BY PutIs, KeysAre DEF Shape
<1>3. all.timeout = s.timeout  BY PutIs, KeysAre DEF Shape, CliKeys
<1> HIDE DEF timeouts, all
<1>4. format.timeout = s.timeout  BY <1>2, PutIs, KeysAre
<1> QED  BY <1>1, <1>2, <1>3, <1>4

LEMMA OpenTimed ==
  ASSUME Shape, DriverTimed, UNCHANGED kind, NEW op, OpenAs(op) PROVE DriverTimed'
<1>1. CASE UNCHANGED config  BY <1>1 DEF config, DriverTimed
<1>2. CASE kind = "win32"
  <2>1. Win32Open(op)  BY <1>2 DEF OpenAs, Posix
  <2>2. CASE \E w : \E o \in Win32Reconfigure(stored, device, w) :
                    device' = o.dev /\ UNCHANGED stored
    BY <1>2, <2>2, Win32Timed DEF DriverTimed
  <2> QED  BY <1>1, <2>1, <2>2 DEF Win32Open, OpenFails
<1>3. CASE kind = "cli"
  <2>1. CliOpen(op)  BY <1>3 DEF OpenAs, Posix
  <2>2. CASE \E o \in CliReconfigure(stored, device) :
               device' = o.dev /\ UNCHANGED stored
    BY <1>3, <2>2, CliTimed DEF DriverTimed
  <2> QED  BY <1>1, <2>1, <2>2 DEF CliOpen, OpenFails
<1> QED  BY <1>2, <1>3 DEF DriverTimed

LEMMA AssignTimed ==
  ASSUME Shape, DriverTimed, UNCHANGED kind, NEW key, NEW v, NEW ok, Assigned(key, v, ok)
  PROVE  DriverTimed'
<1>1. CASE ~isOpen  BY <1>1 DEF Assigned, DriverTimed
<1>2. CASE isOpen /\ kind = "win32"
  <2>1. PICK o \in Win32Reconfigure(stored', device, want) : device' = o.dev
    BY <1>2 DEF Assigned, Reconfigure, Posix
  <2>2. o.dev.timeout = stored'.timeout /\ o.dev.interCharTimeout = stored'.interCharTimeout
    BY Win32Timed
  <2> QED  BY <1>2, <2>1, <2>2 DEF DriverTimed
<1>3. CASE isOpen /\ kind = "cli"
  <2>1. PICK o \in CliReconfigure(stored', device) : device' = o.dev
    BY <1>3 DEF Assigned, Reconfigure, Posix
  <2>2. o.dev.timeout = stored'.timeout  BY CliTimed
  <2> QED  BY <1>3, <2>1, <2>2 DEF DriverTimed
<1> QED  BY <1>1, <1>2, <1>3 DEF DriverTimed

LEMMA TimedKept ==
  ASSUME Shape, DriverTimed, [Next]_vars PROVE DriverTimed'
<1>1. ASSUME UNCHANGED <<kind, isOpen, stored, device>> PROVE DriverTimed'
  BY <1>1 DEF DriverTimed
<1>2. CASE Open \/ SetPortOpen  BY <1>2, OpenTimed DEF Open, SetPortOpen
<1>3. CASE Close \/ SetPort
  <2>1. isOpen' = FALSE \/ (~isOpen /\ UNCHANGED isOpen)
    BY <1>3, CloseAsReleases DEF Close, SetPort, Released
  <2> QED  BY <2>1 DEF DriverTimed
<1>4. CASE Set
  <2>1. CASE Rejected  BY <1>1, <1>4, <2>1 DEF Rejected, Set, config
  <2>2. CASE \E key, v : Assign(key, v, Answered)
    <3>1. PICK key, v : Assign(key, v, Answered)  BY <2>2
    <3>2. \E ok : Assigned(key, v, ok)  BY <3>1 DEF Assign, Assigned, Answered
    <3> QED  BY <1>4, <3>2, AssignTimed DEF Set
  <2> QED
    BY <1>4, <2>1, <2>2 DEF Set, SetBaudrate, SetByteSize, SetParity, SetStopbits,
       SetTimeout, SetWriteTimeout, SetInterCharTimeout, SetXonXoff, SetRtsCts, SetDsrDtr
<1>5. CASE ApplyNext
  <2>1. CASE UNCHANGED config  BY <1>1, <1>5, <2>1 DEF ApplyNext, config
  <2>2. CASE \E key, v, ok : Assigned(key, v, ok)
    BY <1>5, <2>2, AssignTimed DEF ApplyNext
  <2> QED  BY <1>5, <2>1, <2>2 DEF ApplyNext, Assign, Assigned
<1>6. CASE \/ (\E n \in 1 .. 2 : Read(n) \/ Write(n)) \/ ReadLine \/ ReadLines
           \/ Flush \/ FlushInput \/ FlushOutput \/ Lines \/ GetLine
           \/ GetSettingsDict \/ Apply \/ ReadStep \/ WriteStep \/ FlushStep
           \/ DeviceSends \/ DeviceTakes \/ Unplug \/ Replug \/ UNCHANGED vars
  <2>1. UNCHANGED <<kind, isOpen, stored, device>>
    BY <1>6 DEF Read, Write, ReadLine, ReadLines, Flush, FlushInput, FlushOutput, Lines,
       GetLine, GetSettingsDict, Apply, ReadStep, WriteStep, FlushStep,
       DeviceSends, DeviceTakes, Unplug, Replug, vars, config
  <2> QED  BY <1>1, <2>1
<1> QED  BY <1>2, <1>3, <1>4, <1>5, <1>6 DEF Next, Proceeds

-----------------------------------------------------------------------------
(* The refinement.                                                         *)

LEMMA NextRises ==
  ASSUME Shape, ReadInv, [Next]_vars PROVE next' \in Nat /\ next' > 0
<1>1. next \in Nat /\ next > 0  BY DEF ReadInv
<1>2. ASSUME Aside PROVE next' \in Nat /\ next' > 0  BY <1>1, <1>2 DEF Aside
<1>3. CASE Open \/ SetPortOpen
  <2>1. (\E op : OpenAs(op)) /\ call.op # "write" /\ UNCHANGED kind
    BY <1>3, IdleAside DEF Open, SetPortOpen
  <2> QED  BY <1>2, <2>1, OpenAside
<1>4. CASE Close \/ SetPort  BY <1>2, <1>4, CloseAside
<1>5. CASE Set \/ ApplyNext  BY <1>2, <1>5, SetAside
<1>6. CASE (\E n \in 1 .. 2 : Read(n)) \/ ReadLine \/ ReadLines \/ Flush \/ Apply
  BY <1>2, <1>6, StartAside
<1>7. ASSUME NEW n \in 1 .. 2, Write(n) PROVE next' \in Nat /\ next' > 0
  BY <1>1, <1>7 DEF Write, NotOpen, data
<1>8. CASE ReadStep  BY <1>2, <1>8, ReadAside
<1>9. CASE WriteStep
  <2>1. next' = next
    BY <1>9 DEF WriteStep, Shape, BackEnds, Posix, WriteFails, Accept, data,
       PosixWrite, Win32Write, LoopWrite, SocketWrite, CliWrite, JavaWrite
  <2> QED  BY <1>1, <2>1
<1>10. CASE \/ FlushStep \/ FlushInput \/ FlushOutput \/ Lines \/ GetLine
            \/ GetSettingsDict \/ DeviceSends \/ DeviceTakes \/ Unplug \/ Replug
  BY <1>2, <1>10, RestAside
<1>11. CASE UNCHANGED vars  BY <1>1, <1>11 DEF vars, data
<1> QED
  BY <1>3, <1>4, <1>5, <1>6, <1>7, <1>8, <1>9, <1>10, <1>11 DEF Next, Proceeds

LEMMA ReadInit == Init => ReadInv
BY DEF Init, ReadInv, Reading, DriverTimed, NoCall, Reads

LEMMA ReadInductive ==
  SettingsInv /\ WriteInv /\ ReadInv /\ [Next]_vars => ReadInv' /\ Promise!Next
<1> SUFFICES ASSUME SettingsInv, WriteInv, ReadInv, [Next]_vars
             PROVE  ReadInv' /\ Promise!Next
  OBVIOUS
<1>1. Shape  BY DEF SettingsInv
<1>2. ReadKept  BY StepKept
<1>3. DriverTimed'  BY <1>1, TimedKept DEF ReadInv
<1>4. next' \in Nat /\ next' > 0  BY <1>1, NextRises
<1> QED  BY <1>2, <1>3, <1>4 DEF ReadInv, ReadKept

LEMMA PromiseInit == Init => Promise!Init
BY DEF Init, Promise!Init, Pending, Asked, NoCall, Reads

(* Every back end keeps the promise of a byte stream: a program reads the  *)
(* bytes of the device in order, each once, a read that ends short had a   *)
(* timeout or lost the device, and one that raises lost the device; but    *)
(* for the bytes that the back end over a socket drops, and for the reads  *)
(* outside of Waits.                                                       *)
THEOREM PromiseKept == Spec => KeepsThePromise
<1>1. SettingsInv => Shape  BY DEF SettingsInv
<1>2. Spec => []WriteInv
  BY WriteInit, WriteInductive, SettingsAlways, <1>1, PTL DEF Spec
<1>3. SettingsInv /\ WriteInv /\ ReadInv /\ [Next]_vars => [Promise!Next]_Promise!vars
  BY ReadInductive
<1> QED
  BY <1>2, <1>3, ReadInit, ReadInductive, PromiseInit, SettingsAlways, PTL
     DEF Spec, KeepsThePromise, Promise!Spec
=============================================================================
