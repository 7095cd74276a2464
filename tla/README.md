# A TLA+ model of the teetest robot firmware

The repository holds the firmware of a two-wheel balancing robot (Teensy 4.1)
and a PC console that talks to it over TCP.  This directory models the parts
that carry state and can go wrong in ways a bench test hardly reaches, checks
them with TLC on small instances, and proves the main results with TLAPS for
every value of the constants.

`PROJECT.json` lists the components, the runs, the mutants (one plausible bug
for every checked property), the source lines of every definition, the hazards
of the code and the theorems.

## 1. Inventory

### The system

One main loop (`src/test/blink/blink.cpp`) calls, in every turn, the IMU driver,
the Ethernet loop, the log writer, and at 10, 4 and 1 Hz some events, of which the
4 Hz one (`event250ms`) reads the USB command line.  An event responder that a
1 kHz timer triggers drives the motors; a pin interrupt and a second responder,
which SPI triggers, bring IMU samples.  Commands arrive over
USB, TCP and an infrared remote and all go through `processTheCommand`.  The
console is a separate program with a TCP thread, an input thread and `main`.

| Part | Source | State | Operations | What is hard | What makes it correct |
|---|---|---|---|---|---|
| Log file writer | `src/src/logfile.cpp` | byte ring `rb`, `lfState`, `lfWriting`, open file, byte and message counters | `lfInit`, `lfStart`, `lfStop`, `lfSendMessage`, `lfProcess` | interrupt levels that send while the main loop drains; card failures; rotation | frames never torn, files never outgrown, a stopped log complete, a full block always drained |
| Log file numbering | `src/src/logfile.cpp:119-171` | `fileNumber`, `fn.txt` | `lfStart()` without a name | power loss between truncate and sync | no log overwritten |
| File transfer, robot side | `src/src/logsend.cpp`, `src/src/eth.cpp` | `ethFile`, packet and repeat counters, `infoHandler`, `clientConnected`, outgoing ring | `lfGetFile`, `sendFileViaEthHandler`, `ethLoop` | pings in the byte stream, disconnects, repeats | with the console: the copy is a prefix of the file, a finished copy is whole, transfers end, losses are noticed |
| File transfer, console side | `src/console/eth_client.cpp` | `readingTheLogFile`, `packetsCounter`, the file | `do_write`, `process`, `readingTheFile`, `checkThePacket` | TCP reads that are not packets; no timeout | as above |
| Motor driver | `src/src/motordriver.cpp` | wanted and applied speed of two motors, start-up calibration | `setMSpeed`, `mdStop`, `mdProcess` at 1 kHz | interrupt against main loop; an early return | pins show the applied speed, no steep ramp, no reversal at speed, the wanted speed is reached |
| IMU calibration and robot state | `src/nav/imu_alg.cpp` | `rState`, `icState`, `iaState`, accumulators, calibration, `irc.txt` | console commands, `imuAlgFeed` | long command sequences, files rewritten in place | a calibration never mixes sessions; stop stays stop |
| IMU driver | `src/src/memsic.cpp` | `memsicStatus`, SPI transfer, ring of samples | `setupMemsic_3`, `memsicTest`, data-ready interrupt, `erFunction`, `processMemsicData` | three interrupt levels over one buffer, start-up timeouts | samples whole, rightly timed, in order, losses counted; the set-up alone on the bus |
| Main loop | `src/test/blink/blink.cpp` | time stamps of the three events | `main` | 32-bit millisecond clock wraps | events keep their rate over the wrap |
| Event responders | `src/pjrc/teensy4/EventResponder.cpp`, `.h` (Teensy core) | two doubly linked lists, `_triggered` | `triggerEvent`, `clearEvent`, `attach`, `runFromYield`, `runFromInterrupt` | the flag is reset after the responder left the list | the lists are queues, every trigger is answered |
| Infrared remote | `src/src/ir.cpp` | time of the last press of each button | `irProces` | debounce, clock wrap | unreachable in this commit (below) |
| Command line | `src/src/cmdhandler.cpp` | line buffer and index | `onIncomingInfo`, `processTheCommand` | buffer limit | no write outside, no command made of a tail |
| Console program | `src/console/console.cpp`, `inproc.cpp` | mutex, condition variable, threads | `main`, TCP thread, input thread | waiting on each other | it always ends when asked to |
| Power | `src/src/power.cpp` | battery status | `batteryUpdate` | status machine behind an early `return` | unreachable in this commit |

How they interact: `imuAlgFeed` calls `setMSpeed` and `lfSendMessage`;
`endImuCalibration` stops and restarts the log; `lfGetFile` refuses to work while
a log is written and uses the log's ring buffer (`rbBuf`) for its packets; the
commands change the state of all of them between two turns of the main loop.

### Code that cannot run in this commit

`main` stops at a test loop (`blink.cpp:91-96`); the modules model the program
below it.  `batteryUpdate` returns at `power.cpp:63`, so `canUseMotors` is never
called.  `irProces` looks at `IrReceiver.decodedIRData`, which `irrecv.decode()`
does not fill, and compares a 16-bit command with 24-bit codes: the remote gives
no command.  No code selects the motor mode `mAngle` (so `left` and `right` change an
angle nobody follows), the motor current is never sampled, the EOF branch
`gfEmpty` is a comment, `lfFeed` has no live caller, and the assertion `mxat`
only prints.

## 2. Modules

Every module is a state machine with one action per operation; an operation that
can be interrupted is split at the places where it can.

### LogFile, LogFile_proofs

`LogFile` models `src/src/logfile.cpp`.  Frames are put into the ring by
`lfSendMessage` (`SendBegin`, `SendEnd`) at nested interrupt levels and moved to
the card by `lfProcess` and `lfStop` of the main loop.  A byte is a triple of
message count, index in the frame and frame length; payload and CRC are left
out.  Card operations fail as the constant `SdFaults` allows.  What is done with
interrupts disabled is one step; `CanRun` lets a level run only while every
higher level is idle.  `disk`, `accepted` and `writeLost` are history variables:
what the log's files hold, what was accepted, and whether a write failed.

### LogNumber

The part of `lfStart` that numbers the logs, at the grain of the card
operations: `ReadNumber` (or `OpenFails`), `Truncate`, `WriteNumber`, `OpenLog`.
Each of the four accesses to `fn.txt` may fail, as `Faults` allows.  `PowerCycle`
may come between any two of them and may change the card; `torn` records the cards
whose number was lost, or not heard once because `fgets` failed.  LogFile models the rest of `lfStart`
without the number.  The names of the specification (`NumberSpec`, `NumberNext`) are
other than those of LogFile, so that `LogFile_proofs` can extend both.

### FileTransfer, MCFileTransfer, FileTransfer_proofs

Both ends of the transfer and the TCP connection between them.  One call of
`ethLoop` is `EthTop` (link, accept, disconnect), any number of `EthRead`, and
`EthFlush` (ping or ring to the socket).  A callback of the console, `Process`,
is one step: how long its waits last is covered by what it finds in the streams.
A packet of 1024 bytes is a head and a tail unit, so a read may end inside it; a
short last packet is one unit.  The console reads any prefix of the stream the
1024 bytes allow; the robot reads all requests waiting, of which the code looks
at the first.  `EthFlush` waits for an empty request stream: what arrives between
the last read and the flush is read in the next turn instead, which changes
nothing either side can see.  Environment: the operator's `get`; `get` (also with
a name that cannot be opened), `log` and `lstop` on USB; lost connections, an
unplugged cable, a full disk on the PC; each has a budget constant.  With
`CardFails` an open or a read of the robot's card may fail at any time.  The -1 a
failing read returns, like the read of a file that a `get` over USB has closed,
passes the test for the end of the file and makes a packet of 15 bytes (`Junk`); the
CRC over its 2^32 - 1 bytes may run out of the memory, which starts the robot again
(`Fault`).  Three history variables: `logged`, the files during whose transfer a log
was started; `lost`, what was thrown away unread on this connection; `overrun`, that
the ring could not take what was fed to it.

### Motor, MCMotor, Motor_proofs

`mcp` is what the main loop wants, `mcpPrev` what the interrupt applies, `pwm` and
`dirPin` are the pins.  The calls of the main loop are split between the two
motors (`SetSpeed1`, `SetSpeed2`) and, for `inc speed`, between the two reads;
`MdProcess` may come between any two steps.  Floats in -1..1 are integers
`-Full..Full`; the duty cycle is any monotone function `Pwm` of the absolute
speed that is 0 at 0, because the code truncates `f * maxMotorPWM`.  A value that
is not a number is among the inputs.

### ImuAlg, ImuAlg_proofs

`rState`, `icState` and `iaState` with the commands `setup`, `enter`, `play`,
`stop`, `inc speed`, `log`, one action each, and `imuAlgFeed` split into one
action per stage.  A vector is replaced by the set of the sessions and stages its
samples were taken in, their number, and the session whose bias was taken off.
A slow sample of the rotation stage changes nothing and is a stuttering step.
`Crash` and `CrashInSave` lose everything but `irc.txt`, which is empty if power
failed between its truncation and its sync.  `held` remembers that nothing since
the last `stop` or power-on may drive the motors.

### FileCopy

What the transfer promises, in four variables (`alone`, `current`, `copy`,
`finished`).  As long as the console is `alone` there are three actions: `Begin`,
`Grow`, `GiveUp`.  `Intrude` is the first command on the robot's USB line, which clears
`alone`; from then on anything may happen (`Unpromised`).  `FileTransfer!Copy`
instantiates it with the file being received and with `alone` true while no command
has been typed on USB, and `ImplementsCopy` says that every step of the two programs
is a step of it or changes none of the four.

### MainLoop, MCMainLoop, MainLoop_proofs

The loop of `main` with its three nested events and the USB command line they
serve.  `Turn(d)` is one turn of the loop `d` later: `Due` is the comparison with
the 32-bit sum, `Fired` sets the times.  `UsbRead`, `OnChar` and `ChunkDone` are
`h_usb_serial` and `onIncomingInfo`, one character a step; `Rest` is what follows.
`since` is the true age of each event, `held` the events whose next time fell
between the last turn before a wrap and the wrap.  A character carries the line
and the place it was typed at, so that a command can be compared with its line.

### Memsic, Memsic_proofs

The set-up (`WaitEnds` to `Work`, with `memsicTest` inside) and the way of a sample:
`DataR` (the pin interrupt, which starts the burst through `Transfer`), `Dma` and
`DmaRxIsr` (SPI library), `ErPop`, `ErFunction`, `ParceMemsicInt`, `ErPut`, `ErReady`
(the event in PendSV) and `ProcessMemsicData` in the main loop.  A burst has two
halves and a byte order, so that a torn or twice swapped sample can be told from
a whole one; a sample's number is also the time it was ready.  `Late` says what
may be under way when the next sample comes.

### EventResponder, EventQueue, MCEventResponder, EventResponder_proofs

The linked lists of the Teensy core by which the event above is run.  An operation
on a list has the interrupts disabled and is one step; the runners are split
where they enable them (`Pop`, `Call`).  `EventQueue` is what a user expects: a
queue for each way of calling.  `ImplementsQueue` is the refinement; the queue is the
sequence that a walk along the `_next` links meets (`Forward`, `List`).  `ListsSound`
says that there is such a sequence, also along `_prev`, and which members it has.

### Console, Console_proofs

The three threads of the console with the mutex, the condition variable, the flags
they share without a lock, and the joins.  `wait_for` is `Test`, `Wait`,
`Notified` or `Timeout`, and `Lock` again; the handler of "tee" is `Tee`, `TeeLock`,
`Notify`, `Unlock`.  The network and the operator may do anything at any time.

## 3. Runs

| Run | Instance | Checks | Result | States |
|---|---|---|---|---|
| `log_nested` | three levels, ring of 6, blocks of 2, frames of 2 and 3, all card faults, 3 sends | `TypeOK`, `WritesFit`, `FramesIntact`, `StoppedLogComplete`, `RingDrained` | hold | 124 000 |
| `log_wedge` | failing `open` | `WritingMeansRecording` (comment at `logfile.h:7`) | violated | |
| `number_faults` | two cards, numbers 0..3, power failures, failing open, read, truncate and write of `fn.txt` | `FreshUnlessTorn`, `NumberNotBehind` | hold | 207 000 |
| `transfer_one` | one file of 3 blocks, short last packet, operator who asks twice without waiting, `get` on USB of a good or a bad name, failing opens and reads of the card, a split read, merges, a ping, a lost connection, a failing `fopen` | `TypeOK`, `ImplementsCopy` | hold | 1 362 000 |
| `transfer_faults` | a file of 2 blocks and an empty one, patient operator, `log` and `lstop` on USB, one each of: split read, ping, lost connection, pulled cable, failing `fopen` | `CopyIsPrefix`, `FinishedIsWhole`, `CountersAgree`, `TransferEnds`, `LossNoticed` | hold | 729 000 |
| `motor_safe` | 8 speed steps, ramp of 3, 5 duty cycles, 3 calls | `TypeOK`, `PinsFollow`, `Gentle`, `Reaches` | hold | 135 000 |
| `imu_calibration` | three samples a stage, 3 sessions, 2 power failures | `TypeOK`, `CalibrationPure`, `StopHolds`, `CalibrationProceeds` | hold | 23 000 |
| `imu_driver` | ring of 2, 7 samples, the event may be late | `TypeOK`, `SamplesWhole`, `InOrder`, `Accounted`, `SetupAlone`, `NormalWorkMode`, `SampleArrives` | hold | 8 000 |
| `main_loop` | clock of 16, periods 1, 2, 4, turns up to 2, buffer of 5, chunks of 2, 2 lines up to 5 characters | `TypeOK`, `OnTime`, `LineFits`, `CommandIsLine`, `NotEarly`, `LinesRead` | hold | 592 000 |
| `clock_wrap` | the same clock, nothing typed | `EventsKeepRate` (comments at `blink.cpp:21`, `28`, `37`) | violated | |
| `responder` | three responders, both ways | `ListsSound`, `ImplementsQueue`, `Served` | hold | 52 000 |
| `console` | 3 answers "tee" | `NoLostWakeup`, `Stops` | hold | 600 |

What the two violations show is in the findings of `PROJECT.json`: after a failed
rotation the log can be neither stopped nor started; an event whose next time
falls between the last turn before the wrap of the clock and the wrap is not run
for a round of the clock (49.7 days), and the events nested in it and the USB
command line with it.

### Why the bounds are enough

- Log: 3 sends over 3 levels give every nesting of a sender inside a sender
  inside the main loop; 9 bytes overflow the ring of 6, pass `FileSize2` and wrap
  the counter, so refusal, rotation and wrap-around happen, also in the middle of
  `lfStop`.  `FramesIntact`, `WritesFit` and `StoppedLogComplete` are proved
  without bounds.
- Numbers: four numbers on two cards, proved without bounds.
- Transfer: in `transfer_one` 3 blocks are a first, a middle and a last packet; `get` twice, and a third
  time over USB, lets two acknowledgements be under way, one of them late; 1 ping and 3
  repeats let a late duplicate meet the packet after the next; one split read already
  makes two or three wrong ones, because what is left of the packet is read as rubbish;
  failing reads of the card, in `transfer_one`, are not bounded; the budgets allow each disturbance, and
  all of them in one behaviour.  The safety properties are proved
  without bounds.
- Motor: the speeds include both ends, beyond both ends, one step from zero and
  not-a-number; the ramp does not divide the range; 5 duty cycles for 8 speeds make
  different speeds with the same duty cycle, which is what the early return of
  `processOutput` looks at.
- Calibration: 3 sessions leave room for one abandoned, one finished and one
  restarted; 2 power failures let one hit the save and one follow it.
- Main loop: the clock of 16 lets every event be run before, at and after the wrap
  with every phase of the other two; 5 characters pass the buffer of 5, and chunks of
  2 cut lines at every place.
- IMU driver: a ring of 2 is full while the main loop stands still, and 7 samples
  are the two of the set-up, a full ring and three more.
- Event responders: three are a first, a middle and a last one of a list.
- Console: 3 answers are the first, one that main still waits for and one later.

`CHECK_DEADLOCK FALSE` is used where the budgets of the environment end, in
`log_nested` and `log_wedge`, where a failed rotation really leaves the log stuck,
in `imu_driver`, where the samples end, and in `console`, where the program ends.

### What does not hold, and is not promised

Where the code misses what one would wish for, the property that is checked
names the case, so that TLC shows it to be the only one.

- Log numbers (`FreshUnlessTorn`): power lost between `truncate(0)` and `sync` of
  `fn.txt` makes the numbers start again from 0, over existing logs.  So does a failing
  read: `fgets` returns less than 1 for it as for an empty file, and the old number in
  `fn.txt` is overwritten.
- Log counts: a frame sent by a level that was interrupted in `lfSendMessage` has
  an old message count, as the comment at `logfile.cpp:269` says; only the frames are
  claimed to be whole.
- `lstop` without a running log sets `lfSError` on a working card
  (`logfile.cpp:189` prints and goes on).
- Transfer, two files: with an operator who does not wait, or a `get` of another
  file over USB, the console stores blocks of one file under the other's name.
  `transfer_one` therefore has one name, `transfer_faults` patience, and the theorems
  assume one or the other (`OneAtATime`).
- Transfer, USB: a `get` over USB during a transfer opens the file again and resets the
  packet counter under it.  Even if it is the same file the copy can begin with the
  second block: a request for the first block that is still under way then moves the
  robot on to packet 2, and a console that has been asked again meanwhile is back at
  its start and takes packet 2, whose number is above its counter
  (`checkThePacket` wants no more).  This needs a third `get`, or a second one over USB;
  `FileCopy` promises nothing after a command on USB.  With a name that cannot be opened
  it closes the file and leaves the handler set: every further `TBWF` reads -1.
- Transfer, card: the -1 of a failing read is taken for a size, so the packet counter
  advances over a packet that was never sent.  The console, which cannot use the 15
  bytes it gets, asks for a repetition until the robot gives up, if the robot survives
  the CRC; no wrong block reaches the disk (`ImplementsCopy`).
- Transfer, stalls (`TransferEnds`): no side has a timeout, so what is thrown away
  unread can stop a transfer for ever.  The property allows pings, split reads, merged
  requests and all the rest, and names five things that may be thrown away on the
  connection: an answer or packet behind a ping (the console drops a read that begins
  with one), a request behind another in one read of the robot (a repeat request
  merged with the next one makes the robot repeat a packet the console skips without
  asking again; merged with the end of transmission it leaves the robot in the
  transfer, and the next `get` is ignored), the end of transmission behind something else, the file, when `fopen`
  fails (the robot then ignores every further `get`), and what the ring had no room
  for.  After a `get` over USB a transfer need not end either; `transfer_faults` has
  none.  Nor has it failing reads of the card.
- Transfer, cable (`LossNoticed`): a connection that dies while the cable is out is
  never noticed, because `clientConnected` is false already; the transfer stays
  open and no other client is accepted.
- Transfer, log (`CopyIsPrefix`): a packet repeated after a log was started over USB
  may carry log frames under a good CRC, since both use `rbBuf`; they stay there, and in
  the copy, when the log is stopped again (`logged`).  The log is then
  damaged too, by the blocks read into its ring; LogFile does not model that.
- `get` of an empty file leaves `ethFile` open and fails the assertion at
  `logsend.cpp:77` at the next `get`; nothing follows from it.
- IMU driver: if a sample came while the burst of the one before was being read, it
  would be refused after its time had been stored, and the sample under way would
  get the wrong time (`Late = {"dma"}` violates `SamplesWhole`); if it came while
  the event ran, samples would be torn or swapped twice (`{"handler"}` violates
  `Accounted`).  The sensor's 10 ms against 0.6 ms exclude both.
- IMU set-up (`NormalWorkMode`): after a self-test timeout the data output stays off
  and the driver waits for samples that never come.
- Event responders: clearing or attaching a responder while a runner has just
  taken it (`Preempts`), or attaching one that is triggered (`Reattach`), breaks the
  lists.  The program does neither.
- Main loop (`OnTime`): the wrap of the clock, as in `clock_wrap`.  In the last
  period before the wrap an event may be run on every turn (`NotEarly`).  While the 4 Hz
  event is held up, what is typed is not read (`LinesRead`).
- Command line (`CommandIsLine`): a line longer than the buffer less a chunk may be
  cut, at a place that depends on the chunks, and its end is executed.
- Console (`Stops`): main holds `mu` except while it waits, so a "tee" that comes
  after the timeout, or a second one, leaves the TCP thread at the lock and main at
  `tcp.join()`; after F12 the program ends only with another key.
- `setup` while balancing leaves the motors at their last speed.

## 4. Fairness

- `LogFile!LiveSpec`: the main loop calls `lfProcess` in every turn, between the
  commands it executes (`SF` on its beginning, since commands disable it), and a
  function or interrupt that was entered goes on.
- `FileTransfer!FairSpec`: the main loop calls `ethLoop` for ever, the console's
  `io_context` runs every completed read, a pulled cable is plugged in again.
  Nothing is assumed of the operator, pings or losses.
- `MainLoop!FairSpec`: the loop turns while time passes, and what a turn has begun
  it ends.  The host may type or not.
- `Memsic!FairSpec`: a transfer ends, its interrupt and the event are served, and the
  main program goes on.  Nothing is assumed of the sensor.
- `EventResponder!FairSpec`: PendSV is served when pending and ends, and the main
  program, which interrupts hold up again and again, comes back to `yield()` (strong
  fairness).  Nothing is assumed of who triggers.
- `Console!FairSpec`: the threads run, and the mutex is given to a thread that could
  have it again and again.  Nothing is assumed of the network, the operator or the
  second key after F12.
- `Motor!FairSpec`: the 1 kHz timer ticks and a call of the main loop ends.
- `ImuAlg!FairSpec`: samples keep coming.  Samples fast enough for the rotation
  stage are not assumed.  The bound on `setup` excludes an operator who restarts
  the calibration for ever.

## 5. Proofs

All theorems are checked by TLAPS with Z3, Zenon and LS4; the constants satisfy
only the named assumptions of the modules, which TLC evaluates in the runs.

| Theorem | States | Assumptions |
|---|---|---|
| `LogTypeCorrect`, `LogWritesFit`, `LogFramesIntact`, `LogStoppedComplete` | the four invariants of `log_nested` | `SizeAssumption`, `MarginAssumption` (a margin of a full ring and of a block), `LevelAssumption`, `FaultAssumption` |
| `LogsSurvive`, `NumberKept` | `FreshUnlessTorn`, `NumberNotBehind` | `NumberAssumption` |
| `NumberCorrect` | `NumberIsFresh` when nothing fails within `lfStart` | and `Faults = {}` |
| `TransferTypes` | `TypeOK` of FileTransfer | `FilesAssumption` |
| `CopiesArePrefixes`, `FinishedAreWhole`, `CountersAgreeAlways` | `CopyIsPrefix`, `FinishedIsWhole`, `CountersAgree` | and `OneAtATime`, no `get` over USB (`"get" \notin UsbCommands`) |
| `CopyImplemented` | `ImplementsCopy` | `FilesAssumption`, `BoundAssumption`, `OneAtATime` |
| `MotorTypes`, `MotorInvariant` | `TypeOK`; `ParamsCoherent` and `PinsFollow` | `SpeedAssumption` (`Pwm` monotone, 0 at 0), `TimeAssumption` |
| `MotorGentle` | `Gentle` | the same |
| `Purity`, `Stopped`, `Types` | `CalibrationPure`, `StopHolds`, `TypeOK` | `CountAssumption` |
| `LoopTypes`, `LineBufferSafe`, `CommandsAreLines` | `TypeOK`, `LineFits`, `CommandIsLine` | `ClockAssumption`, `LineAssumption` |
| `EventsOnTime` | `OnTime` | `ClockAssumption` |
| `EventsNotEarly` | `NotEarly` | and `MaxAge > Period[3]` |
| `SetupHasBus`, `WorkModeSends` | `SetupAlone`, `NormalWorkMode` | `MemsicAssumption` |
| `DriverTypeCorrect`, `SamplesNotTorn`, `SamplesOrdered`, `SamplesAccounted` | `TypeOK`, `SamplesWhole`, `InOrder`, `Accounted` | and `Late \subseteq {"event"}` |
| `ListsAlwaysSound`, `QueueImplemented` | `ListsSound`, `ImplementsQueue` | `ResponderAssumption` (finitely many responders), `~Preempts`, `~Reattach` |
| `WakeupKept` | `NoLostWakeup` | none |

Where a theorem assumes more than its module does:

- `OneAtATime`: the operator waits for the end of a transfer, or there is one file,
  which he may ask for again at any moment.  It and no `get` over USB are needed:
  section 3 says what else happens to a copy.  A log may be started and stopped over
  USB, and the card may fail, at any time.  `CopyImplemented` needs nothing about USB, because `FileCopy` says itself that
  it ends with the first command there; until then it holds whatever commands are
  possible.
- `Late \subseteq {"event"}`: no sample is ready before the burst of the one before
  has been read (10 ms against 0.6 ms); the event in PendSV may be late.  Without it
  the four properties fail, as section 3 says.
- `~Preempts`, `~Reattach`: the program clears and attaches no responder between its
  being taken and its call, and attaches none that has a trigger: it has two
  responders, the motor driver's and the IMU driver's, each attached once in the set-up
  before anything triggers it.  Without either TLC finds the lists unsound.
- `MaxAge > Period[3]`: `since` is a history variable that saturates; it has to count
  beyond the longest period to tell an early run from a due one.

The inductive invariants:

- `LogInv` adds to the types where each function of the main loop may be
  (`ControlInv`), how many bytes the current file, the block in hand and the ring
  have together (`SpaceInv`: `lfProcess` keeps the file below `FileSize2` before
  each block, and `lfStop` adds at most the ring), and that card, block and ring
  together are whole frames of the accepted length (`StreamInv`).  `WritesFit`
  alone is not inductive: without `SpaceInv` nothing bounds what `lfStop` adds.
- LogNumber's `NumberInv` says what is known at each line: the number chosen is above
  all logs of a sound card, and after the write `fn.txt` holds it.  A card whose number
  was not heard leaves the sound ones at that line, so nothing is said of what is
  written back to it.
- FileTransfer: `TypeInv` says what the streams, the ring and the buffer hold; the
  handler may be set without an open file, after a `get` over USB that failed.
  `TransferInv` adds five things.
  `SessionInv`: the console waits or receives only on a connection that stands, so
  that the robot does not drop its file then.  `AskInv`: while an acknowledgement is
  under way the robot has opened this very file, at its beginning, and no request of
  an earlier transfer is left; nothing but pings comes behind the acknowledgement;
  and a `get` that comes late, in front of other requests or while the console
  already receives, will be ignored, because the robot has just opened the file and
  its handler is set (`LateIsIgnored`).  Without the last a repeated `get` would start
  the file again under the console.  `ReceiveInv`: the console's packet counter is the
  robot's or one more, the bytes and blocks received belong to it, every packet in
  ring or stream is at most the last one sent and holds its block (`PacketsSent`), and
  every request for the next packet is older than the counter (`RequestsSent`).  After a
  failing read (`ReadFailed`) the console waits for the packet with the robot's number,
  which was never sent, and no packet under way has it (`RobotAgrees`); so the jump of
  the robot's counter is never taken for a block.  `LoggedInv`: a log that runs during
  a transfer was started during it, since `lfGetFile` refuses while a log runs, so that
  log frames in the buffer are those of a file in `logged`.  And the two properties of
  the disk.  `CountersAgree` alone is not inductive: a stale
  packet or request would break it.  From this a packet that is accepted is the next
  one (`GoodPacket`), the byte counter reaches the size with the last block and not
  before (`SizeReached`), and the end of the file is never met during a transfer.  For
  the refinement each step is `Begin`, `Grow`, `GiveUp` or leaves the disk alone while
  no command has come over USB (`AloneInv`); the first one is `Intrude`, and
  `BudgetInv` says that it is not forgotten.
- Motor's `Inv` is the three invariants together: `PinsFollow` needs coherent
  parameters for the early return, where duty cycle and direction agree and the
  speed does not.  `Gentle` follows from it and from lemmas on one ramp step.
- ImuAlg's `IInv` ties each stage to its session: past the static test the bias is
  that of the session (`SessionBias`), a running stage holds exactly its own
  samples (`PhaseHolds`), and the rotation average waits for the static stage of
  the same session (`RateReady`).  `StopHolds` needs `held => rState # "rsPlay"`.
- MainLoop, command line: `TypeOK /\ LineFits` is inductive; the point is that the
  index in the chunk, which the test for overflow adds, is never negative.
  `CommandIsLine` needs that line, chunk and driver together are consecutive
  characters (`StreamInv`), and that the buffer holds the last of them, all as long as
  there are at most `SafeLen` (`InfoInv`).
- MainLoop, clock: `ClockInv` says that the 32-bit difference is the true age of an
  event not held up at a wrap, and bounds it by the age of the event around it; the sum
  of the periods is below the modulus.  `AgeInv` is the converse for `NotEarly`: the
  true age is at least that difference.
- Memsic: `SetupInv` says that nothing is under way until the status is 2, which only
  the end of the set-up writes.  `DriverInv` follows one sample: what `bInfoOut` and
  `memsicDataReadTime` hold is the newest sample's from the interrupt to the ring
  (`BurstInv`), the ring is whole and in the order of time, before the sample under
  way (`RingInv`), and the counters add up (`CountInv`).
- EventResponder's `IInv` says for each list that some sequence without repetition is
  the list, walked along both links from both ends (`Linked`), that its members are the
  responders that wait, and that a taken responder keeps its flag and its way until
  it is called (`TakenKept`).  Without the last, `Call` could reset the flag of a
  responder that is in a list.  `LinkedAppend` and `LinkedRemove` are about the links
  alone: what is put at the end or taken out at any place gives the sequence with it
  appended or left out, and `Pop` is a case of the second.  `LinkedFrame` and `Closed`
  keep the other list apart.  The refinement needs that the walk is unique
  (`WalkUnique`): of two different walks take the least place where they differ, which
  exists because `<` is well-founded on the naturals (`LeastNat`), and look one place
  before it.  That it is no longer than there are responders (`DistinctFits`) is the
  pigeonhole theorem of the library.
- Console's `IInv` says who holds the mutex from where the threads are, and that
  what main saw of `connected` under the mutex still holds when it waits, unless the
  TCP thread is at the lock.

TLC checked the invariants on the instances of the runs before they were proved.

Only model-checked: what is temporal under fairness (`RingDrained`, `TransferEnds`,
`LossNoticed`, `Reaches`, `CalibrationProceeds`, `LinesRead`, `SampleArrives`,
`Served`, `Stops`), which is out of the prover's reach.

## 6. Not modelled

- The numbers of the attitude filter and the balancing law, linear algebra
  (`nav/xmnav*`), encoder speed and PID (not reachable): floating point, out of TLC's
  reach.
- Formatted output, LEDs, ADC, pins, the display demo and the plots: no state that a
  property is about.
- The infrared remote and the battery's status machine: unreachable in this commit.
- What an overrun of the CRC reads outside the buffer (its two outcomes are modelled),
  the list of active timers of the Teensy core (`MillisTimer`, which triggers the motor
  driver's responder), and the input thread of the console acting inside a callback of
  the TCP thread.
- The vendored Teensy core and libraries (FNET, SdFat, USB, ADC and others under
  `src/pjrc`), which are nearly all of the repository's lines: the TCP/IP stack
  and the file system are third-party programs of their own, and most of the rest
  is register definitions and tables.  What the robot's own concurrency rests on is
  modelled from their source: the event responders, and the DMA transfer of the SPI
  library.

## 7. Plan

1. Done: all components above, with the two abstract specifications FileCopy and
   EventQueue; proofs of every safety property of the runs and of both refinements.
2. If more is modelled: the composition of ImuAlg with Motor (a tick between any two
   commands, motors at rest after `stop`), and the callbacks of the console's TCP
   thread split at their waits.
