# FPGA Litecoin miner: a TLA+ model

The repository holds a scrypt (Litecoin) miner: a hashing core in Verilog, the
board design around it, the program on the host that feeds it with work, and the
pySerial library that this program talks to the board with. There are many
copies of the core for different boards. The models are of `ICARUS-LX150/`, the
one the repository documents as its current design, with its own uplink,
downlink and host program, and of the pySerial 2.6 tree in its
`MiningSoftware/`, which is the largest part of the repository's code: the port
objects of all its platforms, the RFC 2217 client and server, and the programs
that come with it.

Everything here is read from the source; "map" in `PROJECT.json` names the lines
that each definition stands for. Throughout, "pyserial/" is
`ICARUS-LX150/MiningSoftware/pyserial-2.6/`.

## The system

    pool  <--RPC-->  ltcminer.py  --84 bytes-->  serial_receive --> pbkdfengine <--> salsaengine
                          ^                        (uart_clk)       (pbkdf_clk)      (hash_clk)
                          |                                             |
                          +---4 bytes---  serial_transmit <-- hub_core <+
                                              ^
                                              +-- slave_receive <-- chained boards

    pySerial:   program --> SerialBase --> posix | poll | win32 | loop | socket | cli | java --> driver
                program --> RFC2217Serial ==TCP==> PortManager + redirector --> port
                miniterm, wxTerminal, tcp_serial_redirect: user or client <--> port
                port_publisher: clients <==TCP==> Forwarder of each device <--> port

| component | state it keeps | operations | talks to |
|---|---|---|---|
| uplink hub: `hub_core.v`, `serial_transmit`, `uart_transmitter.v` | a flag for each port, the selector, the selected nonce, `clear_nonces`; `mux_state`, the word; the UART's shift register | raise and lower flags, select, send; load, byte, wait | cores by a synchronised strobe and a register that the next nonce overwrites, host by the serial line |
| mining core: `pbkdfengine.v`, `salsaengine.v` | nonce counter, FSM, ready flags, Xbuf; a ring of 16 threads with state, data and nonce; the shift register between both | make an input, shift it in, exchange it with a finished thread's result, shift out, check; reset on new work | each other by toggles through synchronisers between `pbkdf_clk` and `hash_clk`, and by `start`, `busy`, `result` |
| serial downlink: `serial_receive`, `ltcminer_icarus.v` | bytes so far, timer, `input_copy`, the toggle, `targetreg` | take a byte, time out, report a work, `loadnonce` | host, core, clock control |
| clock control: `dyn_pll_ctrl.v` | current speed, programming state | accept a speed in the target's top bytes, program the DCM | downlink, `hash_clk` of the core |
| host program: `ltcminer.py` | `writer.block`, `golden`, the serial port's buffer | getwork, send, wait for a nonce or `askrate`; read a nonce, hand it to a Submitter | pool, board |
| port objects: `serialutil.py`, `serialposix.py`, `serialwin32.py`, `serialcli.py`, `serialjava.py`, `urlhandler/` | the settings as stored and as the device has them, the handle, buffers, a call in progress | open, close, every setter, the settings dictionary, read, readline, write, flushes, line control | program, driver |
| RFC 2217: `rfc2217.py`, `examples/rfc2217_server.py` | Telnet framing, option states, requests in flight, the cached modem state; three threads of the server | open with its negotiation, setters, data, purge, line control; notifications | each other over TCP |
| port publisher: `examples/port_publisher.py` | a forwarder for each device with port, server, client, announcement, two buffers | check the devices, select, the callbacks of ready files, close | devices, clients, announcing service |
| terminals: `miniterm.py`, `wxTerminal.py`, `tcp_serial_redirect.py` | threads and their flags, port, what is shown of it | keys and menu, change of port, dialogs, next client | user, client, port |
| hash data paths | pipelines of the salsa and SHA256 rounds | arithmetic | core |
| Altera design and Tcl scripts (`source/`, `scripts/`) | registers polled over JTAG | push work, poll nonce | each other |
| cgminer drivers, Ztex and CM1 boards (`experimental/`) | device handles, golden queue, DCM programming state | scan loop, select and release, clock | each other |

What is hard:

* **Registers that are read a cycle late.** All blocks of a clock act at once on
  old values; `serial_busy`, `clear_nonces` and the UART's ready line are each
  one or two cycles behind what they announce.
* **Three clock domains** with a ratio that changes at run time. Requests cross
  as toggles through three registers; some data crosses on nothing but a delay
  counted in cycles of the wrong clock.
* **Two engines, one register.** A thread exchanges its data with the shift
  register at a time only it knows; the shift must not be running then.
* **Reset in the middle of everything**: a new work restarts a core whose ring,
  shifter and flags are busy, in a fixed number of cycles.
* **Framing without markers**: only silence separates works on the line.
* **Two threads and a board** that share one block in the host program, where a
  nonce is always for the work of some time ago.
* **Settings stored before they are made.** A pySerial setter stores a value and
  then reconfigures the device, which may refuse, or do half of it; seven back
  ends differ in what they do first.
* **Answers that come late.** The RFC 2217 client waits for an answer with a
  timeout and asks again; the answer to the older request is still on its way.
* **Bytes cut anywhere.** TCP gives an escape, a command, or a subnegotiation in
  any pieces, while threads at both ends answer negotiation with negotiation.
* **Cleaning up that fails half way.** The publisher closes a port, a client and
  an announcement in one method, each of which may raise, in a loop that throws
  away the rest of a round on any exception.
* **Threads that are stopped by a flag** and then waited for, while the port they
  read is changed, closed, or unplugged.

What makes each part correct:

* uplink: words whole, in order, at most once, none lost, and the hub empties;
* core: a nonce comes back with the data it was hashed from, none lost or
  hashed twice, the reset reaches every thread, and mining goes on for ever;
* downlink: a lost byte does no harm past the next pause, no work is cut or
  loaded twice;
* host: what is submitted is a whole nonce and goes with its own block, no golden event is
  forgotten, and the board gets the block that is used for submissions;
* port objects: the bytes of the device reach the program in order and once, a
  write that returns was made whole, a call that changes settings and does not
  raise leaves device and object agreed, a closed port holds no handle, a timed
  read ends;
* RFC 2217: data unchanged through framing and threads, a setter that returns is
  in force at the server, negotiation ends in agreement, readers do not pile up;
* publisher: clients do not see each other, no closed file reaches select, a dead
  forwarder is unregistered at last;
* terminals: one reader at a time on an open port, a changed port has everything
  that was chosen, what is told to end ends.

`PROJECT.json` lists the hazards line by line with the properties that cover them,
and where no property does, or one only in part, says why.

## Modules

| module | models |
|---|---|
| `HubCore` | the uplink: ports, `hub_core`, `serial_transmit`, `uart_transmitter` |
| `HubCoreProofs` | the theorems about it |
| `CrossClock` | the toggle synchroniser that all crossings use |
| `ScryptItem` | what a 1024 bit register of the core may hold |
| `PbkdfEngine` | `pbkdfengine.v`, one tick for each of its two clocks |
| `SalsaEngine` | `salsaengine.v`, a tick of `hash_clk` |
| `Engine` | both engines and their clocks; the core's properties |
| `EngineProofs` | the theorems about it, `NoOverlap` (shifts and loads never meet) among them |
| `NonceProofs` | the theorems that no nonce is lost and that each is checked once |
| `SerialReceive` | `serial_receive`, the crossing to `pbkdf_clk`, the line |
| `MinerHost` | `ltcminer.py` with the board and the pool around it |
| `MinerHostProofs` | the theorems about it |
| `SerialReceiveProofs` | the theorems about the downlink |
| `SerialLine` | the three sides of the line above, one chosen at the start, with their fairness |
| `ByteStream` | abstract: what a serial port promises the program that reads from it |
| `SerialState` | the state of one port object and of its driver; settings, and how a call ends |
| `SerialPosix`, `SerialWin32`, `SerialLoop`, `SerialSocket`, `SerialCli`, `SerialJava` | the back ends: reconfigure, open, close, read, write, flush, lines (`PosixPollSerial` is in `SerialPosix`) |
| `SerialPort` | `serialutil.py` over any of them; their properties and the refinement of `ByteStream` |
| `SerialPortProofs` | the theorems about them; the proof of the refinement |
| `Telnet` | what both ends of RFC 2217 share: framing, and the negotiation of an option |
| `Rfc2217Client`, `Rfc2217Server` | `RFC2217Serial` with its reader thread; `PortManager` with the server's three threads |
| `Rfc2217` | both, with the connections between them |
| `Rfc2217Proofs` | the theorem about the client's reader threads |
| `Publisher` | `port_publisher.py` |
| `Terminals` | `miniterm.py`, `wxTerminal.py`, `tcp_serial_redirect.py` |
| `Programs` | one of the four programs, chosen at the start |
| `ProgramsProofs` | the theorems about the publisher and the terminals |
| `MCHubCore`, `MCSerialLine`, `MCEngine`, `MCSerialPort`, `MCRfc2217`, `MCPrograms` | constants for TLC |

**Steps.** In the Verilog models a step is one clock edge: the conjunction of one
action of each always block of that clock, since nonblocking assignments all read
the values from before the edge. An action is one branch of its block. Where a
later assignment overrides an earlier one (`ShiftControl`, `start_flag`) the
action has the value that wins. In `MinerHost` a step is a stretch of a thread up
to the next point at which another thread can be noticed.

**Clocks.** `Engine` and `SerialReceive` have two clocks and the time between
their next edges, `skew`. The earlier edge is taken; when both fall together
either may be first, which is both outcomes of a synchroniser that samples a
changing bit. A crossing is three booleans, the differences between neighbouring
bits of toggle, d1, d2 and d3 (`CrossClock`).

**Data.** A nonce is the n-th of its port, or a number; a byte is its nonce and
place; a 1024 bit register holds the input of a nonce of a work, its result, or
junk. `Mixed` is ROMix.

Bytes of a port are numbered as they come into being, so that a lost, repeated or
swapped one shows; on the RFC 2217 wire a byte is a string, with IAC among the
data; the publisher counts bytes and tags those kept for a client with the
client. A setting has a usual value, another, and where the code tells them apart
one that a driver may refuse and one that it must.

**History variables** record what the properties speak of and are never read by
an action of the program: `words`, `last` (hub), `work`, `live` (engine),
`fresh`, `intact`, `owed`, `reported`, `loads` (downlink), `submissions`, `partial`,
`unserved` (host), `out`, `failedOpen` (port objects), `failed`, `delivered`,
`overlapped`, `crossed` (RFC 2217), `chosen`, `lost` (terminals).

What each leaves out:

* `HubCore`: the baud counter; a byte takes any positive number of edges. The
  assembly of bytes in `slave_receive`; only when its register changes and that
  the strobe follows on the next edge. A core's strobe is later than its
  register, by `SyncDelay`: three or four edges, by where in a `uart_clk` cycle
  the toggle falls.
* `PbkdfEngine`: the rounds of SHA256 (`S_HASH` with a counter), the first three
  of the four loads of Xbuf, single shifts: registers move when the last bits
  arrive, and a shift that is cut short leaves junk.
* `SalsaEngine`: `R_WRITE`, `R_MIX` and `R_INT`, with the scratchpad, are one
  state `R_RUN` that a thread leaves at some visit of its slot, as the number of
  visits depends on the data.
* `SerialReceive`: sampling of bits; `uart_receiver` delivers a byte or drops it.
* `MinerHost`: the target, difficulty and statistics; the upload of a share.
* `SerialPort` and the back ends: RS-485, names of devices, the iterators,
  nonstandard rates other than that they may be refused, `VTIME`, asynchronous
  error codes. `readline` is modelled as the back ends run it, a `read(1)` at a time.
* `Rfc2217`: the server's `recv` returns one byte or everything there is; a send on
  a connection that has ended fails at once; the server's own port does not fail;
  one modem line stands for four. Requests that this client never sends
  (signature, line state, masks, flow suspension) are left out. When a client
  connects anew its old reader's `recv` has timed out.
  What is stepwise: `open` starts the reader first and then goes through the options
  (`Negotiate`), asking for those that are still requested; `checkAnswer` compares in
  `ProcessSubnegotiation` and writes the state in `ReaderNotes`, with the program's
  thread free to set the next value in between; the server's reader looks at `alive`
  before `read` and not after it (`ReadSerial`), so bytes that come after the end
  of a connection are taken and lost. An older reader that has compared and not
  noted when `open` begins anew would write to objects no longer in use; it drops
  that.
* `Publisher`: select's error map, signals, becoming a daemon. `__del__` runs when
  the last reference is gone (CPython).
* `Terminals`: how bytes are converted and shown, the command line, what the
  dialogs ask.

**`EvenlySpaced`.** `pbkdfengine.v:140` says that the interface is right "provided
the threads remain evenly spaced". The hardware starts them evenly
(`START_INTERVAL`) and does nothing more: how long a thread runs depends on its
data. The model takes the sentence as an assumption in the guard of `Complete`:
threads complete in the order in which they started, at least `SPACING` cycles of
`hash_clk` after the last exchange, after all were started, and not while another
thread waits. `NoneLost`, `NoOverlap` and `CheckedOnce` hold under it, and the
hazard list says so. With 16 threads and the default gap of 3808 cycles it can
fail only after the random walk of two threads has used up the gap.

## Runs

| run | constants | states | shows |
|---|---|---|---|
| `line` | uplink: 2 cores, 1 board, up to 2 nonces a port; downlink: 3 bytes a work, 2 lost bytes; host: 2 bytes a nonce, 3 rounds | 361,572 | all properties of the uplink, the downlink and the host program |
| `hub_remember` | the uplink of `line` | | `RememberAll` fails: `hub_core.v:15` |
| `engine` | 2 threads, 100 and 33 MHz against 50, one new work | 1,155,663 | all properties of a core |
| `engine_slow` | 10 MHz | | `Paired` fails: `pbkdfengine.v:440` |
| `engine_reset` | 16 threads, 25 MHz, 31 cycles | | `ResetReachesAll` fails: `pbkdfengine.v:60` |
| `host_stale` | the host program of `line` | | `SubmitsItsBlock` fails: `ltcminer.py:80` |
| `serial_port` | 7 back ends, 2 bytes; 3 calls, 2 and a setting, or 1 and two settings | 2,007,363 | every back end refines `ByteStream`; settings, handles, lines, whole writes, timed reads |
| `serial_socket_whole` | the socket | | `NothingOverwritten` fails: `protocol_socket.py:133` |
| `rfc2217` | 2 bytes each way with an IAC, 7 scenarios | 1,260,841 | data, settings, modem state and threads of a remote port |
| `rfc2217_settle` | 2 scenarios with a timeout; the reader overtakes `open` | 479,495 | the negotiation ends, and no option is in use at one end only but for one both asked for |
| `rfc2217_startup` | one `open` that the reader overtakes | | `StartupAgrees` fails: `rfc2217.py:424` |
| `programs` | 2 devices, 2 clients, 3 scenarios; 6 acts | 247,475 | all properties of the publisher and the terminals |

**One run for three sides.** The uplink, the downlink and the host program meet in
nothing but bytes on the line, and each has these at a grain of its own, so there
is nothing that a product of the three could show. `SerialLine` chooses one of them
at the start and leaves the other two at rest; `Uplink(A)`, `Downlink(A)` and
`Host(A)` are the steps of the one chosen. The modules keep specifications of
their own (`UplinkSpec`, `DownlinkSpec`, `HostSpec`), which the theorems are about.

**Why the bounds are enough.** The selector of `hub_core` sees three ports, so
that two may be flagged next to each other and a third elsewhere; two finds of a
port let the second one overwrite the register, arrive together with the clear,
and be raised again. In the engine two threads give every case of one finishing
before, during and after the other's exchange; `RESETCYCLES`, `SHIFTS` and
`START_INTERVAL` are scaled but keep the order of their sizes in the source (a
reset longer than a turn of the ring, a shift longer than a turn, a start interval
longer than both), and `InCycles` is not shorter than the wait that the code needs
between two inputs. Four nonces before the counter wraps are more than can be in
the core at once (two threads, shift register, Xbuf). `engine_slow` and
`engine_reset` use the source's own numbers for what they are about. In the
downlink three bytes have a first, a middle and a last; two lost bytes can lose
two of one packet or one each of two; pauses go beyond the timeout. In the host
two bytes are enough for a read to end inside a nonce, and three rounds for a
block to be replaced while an older one is still on its way.

In `serial_port` three calls are enough to fail, to recover and to look; two
bytes fit a driver's queue of one twice, so that a write goes in parts and a read
gets less than it asked for; two settings in a row show one that was refused and
then left alone. The devices' values are those that the code treats differently.
Each scenario of `rfc2217` gives what one question needs, as all at once is too
many states: two settings with a network timeout (the late answer); two calls
with data in both directions; a lost connection in the middle of a call; a second
connection after the first timed out; a modem line that changes while it is asked
for and polled; `ign_set_control`; a setting after an `open` that the reader
overtook. `overtakes` bounds how many options the reader may settle before `open`
is through with its requests: all seven in `rfc2217_startup` and in the first
scenario of `rfc2217_settle`, one or two elsewhere, where an `open` that skipped a
request is enough. In `programs` the publisher has two devices
that go and come with the service failing, one with ports and sockets that fail,
and one with two clients, the second of which comes while the first one is there
or after it; a limit of one byte is reached. Six acts reach every chain of three
things in a menu, with a device that goes at any time.

**Deadlock** is checked in `line` and in the runs of the core:
clocks always tick, and the Reader's timeout can always expire. The runs of
pySerial say `CHECK_DEADLOCK FALSE`: there the calls of a program are bounded by a
budget, and a program may stop calling or end; that threads do not wait for each
other for ever is what `TimedReadsEnd`, `NegotiationSettles`, `EndsWhenAsked` and
`DeadAreUnregistered` say.

**Fairness.** `SerialLine`, for the uplink: the clock runs, and a byte ends after
a bounded number of edges (`baud_delay` times ten); for the host program: the
operating system schedules the Writer and the Reader, and what was written to the
line arrives. No fairness is assumed of a slave or board finding a nonce, of the
pool, or of a read timing out. `Engine`: both clocks run, and a thread completes
after a bounded number of visits of its slot; as other edges fall between the
visits this is strong fairness. `SerialPort`: a call that can go on does
(`Proceeds`: the program's thread runs and its timeout expires); nothing is
assumed of the device. `Rfc2217`: the threads of both ends run, and with them the
connection that both are told of; nothing of the program, the device, or a loss.
`Programs`: the publisher's thread runs, as its select has a timeout of five
seconds; its clock does; the readers of the terminals run, as their ports have a
timeout; and a thread that is told to end or that waits for another one does what
it was told. Nothing is assumed of users and clients.

## Findings

* `hub_core.v:15-16` promises to remember all nonces. Two flags selected in
  neighbouring cycles lose the second one (`hub_remember`). `LossOnlyAtStart`
  shows that this cycle is the only place where a nonce is lost.
* `pbkdfengine.v:440` waits for the load of Xbuf and `nonce_sr`. At the slowest
  speed that the design accepts (`SPEED_MIN`, 10 MHz; `ltcminer.py` asks for 25 or
  more) the wait is too short and golden nonces are one too high (`engine_slow`).
* `pbkdfengine.v:60-62` counts on `hash_clk` being faster than `pbkdf_clk`. At
  the default speed it is half as fast and the reset does not reach every slot of
  the ring (`engine_reset`).
* `ltcminer.py:80-81` keeps an order so that a nonce goes with its block. After
  `askrate` the block changes without any nonce (`host_stale`).
* `protocol_socket.py:133-135` promises, as the docstring of every `read` does, all
  bytes without a timeout and fewer with one. Over a socket `data` is assigned and
  not extended, so of bytes that come in two parts the first is lost (line 143,
  `serial_socket_whole`). Three other reads break the same docstring by raising, for
  which no run was made: over a socket and with `PosixPollSerial` a read without a
  timeout is a TypeError (`protocol_socket.py:138`, `serialposix.py:620`), and with
  an `interCharTimeout` the `os.read` of `PosixPollSerial` after a timeout raises EAGAIN
  (line 625: the descriptor was opened with O_NONBLOCK in line 275 and stays so, as
  line 279 is commented out).
* `rfc2217.py:236-237` and `424` promise to try to enable what is REQUESTED at the
  start. The reader runs before the requests go out, and what the server asks for
  first is made active without a reply and then not requested: the server never
  learns of it (line 426, `rfc2217_startup`).

The properties of passing runs except these cases and no more. `KeepsThePromise`
gives `ByteStream` what is left of the promise: `exact` is false over a socket, whose
bytes still are the device's and in order, and `waits` is false for the reads that
raise. `NegotiationSettles` leaves out an option that both ends asked for and
of which the client's request was skipped.

Met on the way, without a line in the repository that says otherwise, and so
only kept out of a property by a history variable or named in a hazard:

* `miniterm.py:359-361`: after a change of the port that succeeded, `new_serial`
  is the port in use; a later URL of an unknown protocol makes
  `new_serial.close()` close it. Before the first change the name is unbound and
  the program ends. (`lost` in `CarriedOver` and `OneReader`.)
* `rfc2217.py:966-984`: the poller and a forced check both compare with, send and
  store `last_modemstate`; when they overlap the client may be told an older state
  last. (`overlapped` in `ToldWhatIsSaved`.)
* `rfc2217.py:342-343`: the reader compares an answer with the value asked for and
  then notes the verdict; the program may set the next value in between (312-313),
  and a late match then confirms a request that the server refuses. (`crossed` in
  `SettingsAgree`.)
* `rfc2217.py:435`: an open that times out in its negotiation leaves its reader
  thread behind. (`failed` in `ReadersAccounted`.)
* `port_publisher.py:434`: a device that was half closed and is back before the
  next check is never served again, as it is still registered.
* `serialjava.py:96` reads `stopbits` for `self._stopbits`: any but one stop bit
  raises NameError.

## Proofs

`HubCoreProofs` proves for every number of ports, every `SyncDelay` and every
`MaxFinds` (assumption `HubAssumption`: positive, natural):
`UplinkTypeOK`, `WordsIntact`, `NoByteDropped`, `AtMostOnce`, `LossOnlyAtStart` and
`InOrder`.

None of them is inductive. `IInv` adds

* `ByteInv`: in each phase of `mux_state`, where the current byte is (to be
  strobed, in the UART, or with the host), how many bytes are left in the word,
  and that the host has exactly the bytes before it. Without it a step cannot
  know that the byte that ends is the next one of the word, nor that the UART is
  idle when the next is strobed.
* `SelectInv`: `clear_nonces` is only up in the cycle after a selection, and while
  the transmitter is idle only for the port that was selected. `LossOnlyAtStart`
  is this and the definition of `RaiseFlags`.
* `CountInv`: for each port, the words loaded, plus one if a word is on its way
  to the transmitter, plus one if the flag is up and not about to be cleared,
  plus one if a strobe is on its way, is at most the number of nonces found. It is
  the reason why a flag that is up for two cycles never makes two words.
* `OrderInv`: the last word of a port is not newer than its register, and older
  while a flag or a strobe is up; so the word that is loaded next is newer than all
  before it, which is `InOrder`.

The proof has a lemma for each part (`TypeStep`, `ByteStep`, `IntactStep`,
`SelectStep`, `CountStep`), each by cases on the actions of the transmitter, the
hub and the UART, and `NextIInv` puts them together. The action property follows
from `IInv` in the state before.

`MinerHostProofs` proves for every length of a nonce on the line and any number of
rounds and nonces (`HostAssumption`): `HostTypeOK`, `NeverOlderBlock`, `WholeNonce`
and `GoldenServed`. Its inductive invariant `HostInv` is

* `NoneNewer`: no work on the line down, in the board, in the bytes on the line up
  or with the Reader is newer than `block`. `NeverOlderBlock` alone says nothing of
  the nonces that will be submitted next.
* `UpFramed`: on the line each byte is followed by the next of its nonce, or is the
  last of one and followed by a first.
* `ReadInv`: what the Reader has is the beginning of a nonce that the line goes on
  with, or a whole one before `Submit`, unless a read has timed out inside one.
  `WholeNonce` says of the length of a submission that it is right also after such
  a timeout; the Reader has `WORD` bytes whenever it submits, for its test of the
  length.

`GoldenServed` needs only `GoldenInv`: while the Writer sends or waits, a nonce that
came in since the last getwork holds `golden` up.

`SerialReceiveProofs` proves for any number of bytes in a work, any timeout and any
two clocks: `Resynchronises`, `NoMixPastQuiet`, `WholeIfNoLoss`, `DownlinkTypeOK`,
and `OneLoadEach`: neither more nor fewer loads than works. `SerialAssumption` has a
part that is about the host: it pauses inside a work no longer than the timeout
(`PAUSE <= TIMEOUT`); if it does, the board cuts the work. `CrossingAssumption` is
about the board: a period of `pbkdf_clk` is shorter than a byte on the line
(`PPeriod < BYTETIME * UPeriod`; at 115200 baud a byte takes thousands of them);
otherwise two reports could fall between two edges and cancel out. The
inductive invariant `FrameInv` ties together

* the window and the line: `demux_state` and the bytes in `input_buffer` against the
  bytes that the line has sent of its packet, or that the line has been quiet
  since the first of them;
* the timer and the silence: it counts no more than the edges since the last byte,
  and a packet in the window that is older than the line's is about to time out;
* each report and the crossing: a work that is not loaded has a change of the toggle
  among the three registers, one for each such work, and the toggle changes again
  only after the first register has seen the last change.

`EngineProofs` proves for any number of threads, nonces and works:

* `TypeOK`, with what it rests on: the ring's two phases follow each other, a load
  comes in its own thread's slot, and no thread is twice among those that run
  (`RunningOnce`, so that `order` never has more than `THREADS`).
* `Paired`, if `LoadInTime`: three edges of `hash_clk`, which a load of Xbuf needs to
  cross, fit in the eight cycles of `pbkdf_clk` from S_B6 to the count of the nonce.
  `PairedInv` says of every place that data can be in, that its nonce is with it;
  `LoadInv` is the time that is left: a request that is at bit `b` of its crossing
  has the edges it still needs before `nonce_wait` runs out. `LoadInTime` is what
  the code needs and no more than that: `hash_clk` above 18.75 MHz at a `pbkdf_clk`
  of 50 MHz. The run `engine` fulfils it, and `engine_slow`, which does not, finds
  the property violated.
* `ResetReachesAll`, if `LongReset`: `THREADS + 1` edges of `hash_clk` fit in
  `RESETCYCLES` cycles of `pbkdf_clk`; with sixteen threads and 31 cycles this is a
  `hash_clk` above 27.4 MHz. `ResetInv` counts forward: a slot that is not idle yet
  will have its turn before reset, its two synchronisers included, goes down
  (`FsmResetFor`). Here too `engine_reset` is the other side, at the default speed.

Both conditions are hypotheses of their theorems and not assumptions of the model,
since the repository allows speeds on either side of them.

It also proves `NoOverlap` for any number of threads, nonces, works and length
of a shift, with resets at any moment, if `InTime`. Nothing in the engines excludes
that a thread takes its input while the register shifts; what does is that the one
takes longer than the other, in two clocks. `InTime` says of these delays what the
proof needs:

* a reset lasts for a lap of the ring and its synchronisers, `THREADS + 2` edges of
  `hash_clk`, and longer by three cycles than the five edges that a crossing takes;
* to make an input takes longer than for the threads to be told of a start and to
  have a turn each, `THREADS + 4` edges;
* within `SPACING` edges a result can be seen and shifted out, and `busy` can be seen.

With sixteen threads, 31 cycles and shifts of 132 edges, in the 3808 between two
threads, all but the first hold for every speed that the design accepts, and the
first is a `hash_clk` above 29.1 MHz. This is enough and need not be necessary; the run
`engine` fulfils it for both of its speeds. The invariant `OverlapInv` says of each
register between an event and what it leads to, in which of the clocks how many edges
are left:

* `ShiftInv`, `ReadyInv`, `NotReadyInv`: the request, the shift and the acknowledgement
  exclude each other, and with the state of the FSM and the ready flags they make one
  protocol, as long as there is no reset.
* `ShiftFlushInv`, `FlushInv`, `StartFlushInv`: a reset cuts all this anywhere and clears
  only half of it. The toggles that were on their way then arrive while it still lasts.
* `LapInv`, `OrderInv`: a thread in the order of completion runs, or will be reset. So
  when one completes no thread is idle, and none takes input for its first time then.
* `InputInv`: while an input is made, what is still to come of the last start is over
  before the shift is asked for.
* `TakingInv`, `StartInv`: after a thread has taken its input `busy` is up within a lap,
  and start goes down two cycles of `pbkdf_clk` later; when the next thread completes,
  a start that it sees is a new one.
* `WaitInv`: one thread at most waits, and it does so `SPACING` edges after the last load.
* `FetchInv`, `ExchangeInv`: a result that was made is fetched before the next is. Without
  them a thread could complete while the last result waits in the register.
* `QuietInv`: from the moment a shift is asked for to its end no thread takes its input,
  either as none is to start (`QuietIn`), or as those that run have `SPACING` edges to go
  and the shift needs fewer (`QuietOut`). `NoOverlap` is a part of this.

There is one lemma for each part and each of the clocks (`PbkdfShift` to `PbkdfFetch`,
`HashShift` to `HashFetch`). They rest on lemmas about time: each of `Within`, `Clears`,
`Spent` and `Early` compares a count of edges of one clock with a count of the other's,
and a lemma for each clock says what an edge of it leaves.

`NonceProofs` proves `NoneLost` and `CheckedOnce` for any number of threads, nonces and
works, with resets at any moment, if `NoncesInTime`: `InTime` and `LoadInTime` as above;
`THREADS <= SHIFTS + 2`, so that while a shift lasts each thread has had its turn (16
threads, 132 edges); and `THREADS < NONCES`, without which the counter could return to a
nonce that is still being hashed (each core has 2^28 of them). The run
`engine` fulfils it. Neither property is inductive: whether a
nonce is overwritten depends on what each register holds between two events. `NonceInv`
adds to the invariants above, for items of the current work:

* `CycleInv`, `LoadsInv`, `KhashInv`: the load of Xbuf is over before the next one is
  asked for, and what it brings is the nonce that is counted on afterwards.
* `UnsteadyInv`: until the reset of a new work is over nothing of it is held, but for what
  the one cycle between its load and its reset may have made, which stays in
  `pbkdfengine`.
* `ResultInv`, `FirstInv`, `PassedInv`: only the thread that completes next exchanges,
  and the time since the last exchange covers the part of the shift that is over.
* `FullInv`, `DoneInv`: an input in `salsaShiftReg` is never taken for another one, as
  no `busy` of an earlier load comes after it is ready; a result there is fetched before
  anything else is shifted in.
* `XbufInv`, `LeftoverInv`: Xbuf holds the input on its way in or the result on its way
  out. An item that was checked stays in it; the next input is loaded over it before
  anything is exchanged.
* `HashingInv`, `AgeInv`, `DistinctInv`: threads hash distinct nonces. A thread's nonce
  was used up at most as many counts ago as threads started since, so with more nonces
  than threads the counter never returns to one in use.
* `LiveInv`: the nonces that count as being hashed are those that the registers hold.
  `NoneLost` and `CheckedOnce` then are facts about each overwrite.

The invariant has one lemma for each part and each clock (`PbkdfFull` to `PbkdfLive`,
`HashFull` to `HashLive`); the steps that end a reset are apart (`PbkdfResetEnds`), as are
those that change none of this (`NonceStutters`).

`SerialPortProofs` proves for any of the seven back ends, any budget of calls and
any size of the driver's queue (`SerialPortAssumption`: `Kinds` names no others,
`MaxBytes` is a number and `None` is no timeout): `AgreedUnlessRaised`,
`HandleAccounted`, `LinesKept` and `WholeWrites`. `Outcome` says of each
`_reconfigurePort` that what it makes of the device agrees with the settings
unless it refuses, and one lemma for each back end proves it. `SettingsInv` adds
to the three invariants the shapes of the records, and `Applying`: a settings
dictionary that is half applied, and whose last setter did not raise, has left the
device and the object in agreement; without it nothing is known when the last key
turns out not to differ. `HandleAccounted` is about a failed `open` and a `close`
apart: `failedOpen` records the last `open`, and without it no port that is not
open may hold a handle (`Recorded` says of each back end when it changes).
`LinesKept` needs `HandleAccounted`: a device comes back only when nobody holds
its handle, so never to an open port with its old lines. `WholeWrites` is about
steps; its invariant `Sending` says that what was handed over ascends, and that
the part of the call that is done is the end of it. The back ends that write at
once (`loop`, and Windows with a write timeout of 0) have nothing done before they
end, and only the Posix ones wait when all is done.

It proves under the same assumption, last, that the port objects refine
`ByteStream` (`PromiseKept`), for any number of bytes. Each step is shown to be a step
of `ByteStream`: the steps outside of reads leave the bytes, add to them, or drop all
where the promise allows it (`Outside`); those of a read in progress move bytes from
what waits to what the call has, and the two together stay the same (`TakeKept`). The
invariant `ReadInv` says that a read in progress has less than it is after
(`Reading`), which makes the step that completes it deliver exactly what was asked,
and over a socket shows that the part which replaces what the call had is never the
one that completes it; and that the driver's timeouts are the object's while it is
open (`DriverTimed`), so that on Windows and .NET, where the driver ends a read, a
short read means a timeout. It rests on the order in `_reconfigurePort` of both: the
timeouts are set before anything can be refused.

`Rfc2217Proofs` proves `ReadersAccounted` for any bytes, calls, losses and number of
connections, at whichever point of the negotiation, of `open` or of `close` a
timeout or a loss comes. Its invariant says

* `NetInv`, `NumberInv`: a connection that was made is never forgotten, and they are
  numbered without a gap; a new one is always another one;
* `CallInv`: what a call still has to do, and which options it has still to ask
  for. An `open` that is not finished has "opened" before it; what is left of
  `close` is an end of its list of steps, and the join of the reader comes before
  the port is "closed";
* `ThreadInv`: `_thread` is the reader of the newest connection, and it runs;
* `CountInv`: there are at most as many other readers as opens that failed.

`TelnetAssumption` gives the budgets their types. The bytes are not looked at: what
a command does to the port is the same for any.

`ProgramsProofs` proves for any devices, clients, limit and budget of failures
(assumption: no client is called "none"): `SelectNeverPoisoned` and `ClientsApart`. The
invariant is `Sound` for each forwarder: one that is alive has both its files, one
that has no client has nothing kept to send and no setting to restore. It has a
lemma for each method, as `close` and `open` put others together and may end
after each; that `close` clears `alive` before anything can raise is what carries
the first theorem, and that `handle_disconnect` drops the socket and its buffer
together, or neither, the second.

Of the terminals it proves for any number of acts: `OneReader` and `CarriedOver`. The
invariant says that only the reader started last runs, none while a dialog or
`accept` waits, that the port is open whenever one runs, and `CarriedOver` also in
the middle of a change.

Model-checked only:

* All liveness (`Drains`, `KeepsChecking`, `FpgaFollows`, `TimedReadsEnd`,
  `NegotiationSettles`, `DeadAreUnregistered`, `EndsWhenAsked`): TLAPS proves nothing
  under fairness.
* `StreamsIntact`, `SettingsAgree` and `ToldWhatIsSaved` of RFC 2217: they are about
  what one end makes of the bytes that the other one wrote, that is about recursive
  functions over sequences of any length (`FirstEvent`, `Data`, `Escape`), which
  needs induction over data.

## Plan

Done, in this order: the uplink and its proofs, the core, the downlink, the host
program and its proofs; then the port objects with the promise they refine, RFC
2217, the programs, and the proofs of the downlink, of the port objects (the
refinement among them), of the programs, and of what the core does with its nonces
(`NoOverlap`, then `NoneLost` and `CheckedOnce`). What could follow:

1. `RomixPad`: `R_WRITE`, `R_MIX` and `R_INT` of one slot with the lookup gap,
   refining ROMix on an abstract mix function.
2. `ClockControl`: the acceptance of a speed, `dyn_pll_ctrl`'s programming
   sequence, and that `dyn_pll_speed` says what the DCM was told.
3. `NonceSearch`: the abstract search (each nonce of a work is taken and checked
   at most once, in any order), refined by `Engine`.
4. `IcarusDriver` and `ZtexDriver`: the scan loop with its record of what was sent,
   and the select and release of a device by four threads.

## Not modelled

The values of hashes (salsa and SHA256 are arithmetic pipelines; the model uses
their timing), LEDs, board and constraint files, the Altera design and its Tcl
scripts (an older single engine polled over JTAG), the experimental copies of the
core for other boards, the parts of pySerial that only list ports, show dialogs
or are unfinished (`sermsdos.py`), its tests, the JSON-RPC library, and cgminer
itself.
