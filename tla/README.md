# A TLA+ model of xvc-adaptive

xvc-adaptive is a Xilinx Virtual Cable (XVC) daemon. It serves JTAG over TCP
through one of two cables, the registers of an AXI4-JTAG core or an FTDI chip,
and calibrates the cable's clock so that TDO is sampled in time on long wires.
This directory models its own logic in TLA+, checks it with TLC on small
instances, and proves its safety properties and refinements with TLAPS for all
instances.
`PROJECT.json` lists the components, the runs, the source lines of every
definition, the hazards and the theorems.

Source paths below are relative to the repository root.

## The system

| component | source | state it keeps | operations | what makes it correct |
|---|---|---|---|---|
| `IOServer` | `src/ioserver.cpp` | the watched descriptors `conn`, `maxfd`, the snapshot of `select()`, the vector buffer | `start()`: accept, refuse, close; `handleData()`: getinfo, settck, shift | every watched descriptor is open and the converse; it keeps its place in every byte stream; a shift is executed once, in order, before its answer; consecutive shifts of a client are not split; nobody waits for ever |
| `XVCDriver` contract | `include/xvcdriver.h` | none | `shift(nbits, buffer, result)` | the first `nbits` bits go out in order, the bits sampled come back in order |
| `XVCDriver` TAP sequences | `src/xvcdriver.cpp` | idcode, irlen, idcmd, detected | `scanChain`, `probeIdCode`, `startBypass`, `probeBypass` | from any state of the target they read what it holds; nothing harmful takes effect there; detection finds what the list names |
| `AXIDevice` | `src/axidevice.cpp` | the core's registers | `shift`, `setClockDiv`, `setClockDelay`, `detect` | `shift` keeps the contract although the core runs beside it |
| `AXICalibrator`, `AXISetup` | `src/axicalibrator.cpp`, `src/axisetup.cpp` | the list of items, its file | `start`; add, delete, renumber, save, load, choose | an item stands for a measured window; the default is the item that passed the hard patterns; a file keeps what the list says |
| `FTDIDevice` | `src/ftdidevice.cpp` | the chip's clock registers | `setClockDiv`, `setClockFrequency`, `setTDOPosSampling`, `shift` | frequencies and divisors agree; `shift` keeps the contract |
| `FTDICalibrator`, `FTDISetup` | `src/ftdicalibrator.cpp`, `src/ftdisetup.cpp` | the list of items, its file | `start`; the same list operations | items are exactly the settings whose probes all matched, within the range asked for |
| `main()` | `src/xvcserver.cpp` | the options | detect, calibrate, save, load, choose, serve | what is served with is what a calibration found good, also in a later process |
| `DeviceDB` | `src/devicedb.cpp` | the table of devices | load from a file or the built-in list, look up by IDCODE | the revision of a device plays no part in a lookup |
| `argparse` | `src/argparse.cpp` | | | (vendored; not modelled) |

One process, one thread. `main()` makes a driver, which detects the target
through `scanChain()`; a calibrator drives the clock registers and probes the
target through the driver's `shift()`, and fills a setup; `main()` applies one
item of the setup and hands the driver to `IOServer`, which calls `shift()` for
its clients until the process dies. What runs beside the thread is outside of
it: the clients and the kernel (sockets), the AXI4-JTAG core (hardware that
clears `ctrl` when it is done), and whoever kills the process. What outlives it
is the calibration file and the registers of the device.

The behaviours that are hard here are the interleavings of clients, kernel and
server between two system calls of the scan, the race of the core with the
driver's word loop, the partial last word, the order of probing, deleting and
renumbering in the calibrators, arithmetic at the ends of the clock ranges, and
a save that a kill or a full disk cuts short. `PROJECT.json` lists them one by
one, each at its line.

## The modules

| module | what it models |
|---|---|
| `XvcService` | what the server promises, without sockets (abstract) |
| `IOServer` | `start()`, `handleData()` and `sread()`, with clients and kernel |
| `MCIOServer` | instances of `IOServer` for TLC |
| `IOServerProofs` | theorems about `IOServer`, among them that it implements `XvcService` |
| `JtagShift` | what `XVCDriver::shift()` promises (abstract) |
| `AXIShift`, `MCAXIShift` | `AXIDevice::shift()` beside the core |
| `AXIShiftProofs` | theorems about `AXIShift`, among them that it implements `JtagShift` |
| `FTDIShift`, `MCFTDIShift` | `FTDIDevice::shift()` beside the chip |
| `FTDIShiftProofs` | theorems about `FTDIShift`, among them that it implements `JtagShift` |
| `AXISetup` | the list of items, the file and the choices, as operators |
| `AXICalibrator`, `MCAXICalibrator` | `AXICalibrator::start()` |
| `FTDIClock` | frequencies, divisors and the divisor word, as operators |
| `FTDISetup` | the list operations of `FTDISetup`, which are `AXISetup`'s |
| `FTDICalibrator`, `MCFTDICalibrator` | `FTDICalibrator::start()` |
| `SetupProofs` | lemmas about the loops of `AXISetup` and `FTDISetup` |
| `AXICalibratorProofs`, `FTDICalibratorProofs` | theorems about the two calibrators |
| `Tap` | a target: the IEEE 1149.1 test access port, as operators (external) |
| `DeviceDB` | the table of devices, as operators |
| `TapDriver`, `MCTapDriver` | the sequences of `XVCDriver` and `detect()` of both drivers, on a target |
| `TapDriverProofs` | theorems about `TapDriver` |
| `XVCServer`, `MCXVCServer` | `main()`, run after run |
| `XVCServerProofs` | theorems about `XVCServer` |

`IOServer` implements `XvcService`; `AXIShift` and `FTDIShift` implement `JtagShift`,
all by `INSTANCE ... WITH` and a refinement mapping given at the end of the
detailed module. `AXICalibrator`, `FTDICalibrator` and `XVCServer` share
`AXISetup`. Operators whose comment begins with "fault:" are not part of the
specification: each is a plausible slip in the definition that follows it, and
replacing that definition with it must make the property named in
`PROJECT.json` fail.

### IOServer

`pc` is where the thread is: in `select()`, scanning a snapshot at descriptor
`fd`, or at one of the reads and writes of `handleData(fd)`. A step is one system
call or one loop iteration; clients and kernel act between any two.

* `rd`, `ex` are the `fd_set`s `read` and `except` after `select()`; `conn` and
  `maxfd` are the fields of that name; `file` is the process's descriptor table.
  The lowest free descriptor is the one `accept()` returns, as POSIX has it; that
  a closed descriptor can come back within one scan is what `SnapshotValid` is
  about.
* A connection's byte stream is a sequence of *tokens*, one for each `sread()`
  the request leads to: the two command bytes, the rest of the command, the length, the
  two vectors. A token is tagged with its kind and the number of the request, so that a
  server that lost its place would find the wrong tag (`InStep`).
* `handleData()` returns after a query (`Answer`), after anything it refuses or
  cannot read (`InvalidCommand`, `LengthExceeded`, `ReadFailed`), and after a shift
  goes on to read the next command (`Reply`): there it blocks. A failed answer of a
  query closes the connection, a failed answer of a shift is a message only.
* `Select` ends in `"terminated"` if a watched descriptor is closed: `start()` throws a
  string, which `main()`'s handler for `std::exception` does not catch.
  `NeverTerminated` proves that it does not happen.
* Left out: requests that are not framed as XVC 1.0 has it, negative lengths, a
  `write()` that blocks because the peer does not read, and errors of `select()`
  other than a bad descriptor. A client that reconnects is another `Client`.

### AXIShift

The driver steps one word at a time (`StartWord`, `ReadWord`); the core clocks one
bit at a time (`CoreClock`) while `ctrl` is 1, and clears it (`CoreDone`). The core
is hardware: it is modelled as the driver relies on it, that is, it keeps its TMS
and TDI registers and shifts the samples in at the top of TDO. What the target
answers is fixed with the call (`tap`).
The mapping shows the result only once the call returned, since only then does
the caller see it.

### FTDIShift

A call is cut into rounds (`StartRound`, `Send`, `ReadAnswers`, `Unpack`), and one step
of a round is one iteration of its inner loop (`AddByte`, `AddBits`, `AddTms`). A command
is a record of what its bytes mean, `wrPtr` counts the bytes it takes and `rdLen` the bytes it
returns; `desc` is `ftdi_desc`. The chip executes the commands bit by bit
(`ChipClock`). It is external, and modelled as the driver relies on it: samples
enter a byte at the top, so that fewer than 8 of them are found there.

One thing the driver relies on is not obvious. Bytes without TMS go out by commands
that say nothing of TMS, so the pin must be low then, also after a command that raised it.
`TmsHeld` is the other possibility, that the pin keeps the level last written. The run has
`TmsHeld = FALSE`; with `TRUE`, TLC finds `ImplementsShift` violated as soon as a
byte whose last bit has TMS is followed by one without, which is also
what the sequences of `XVCDriver` do (`src/xvcdriver.cpp`, lines 21 to 28: five cycles
of TMS high, then a byte without). The repository does not tell which of the two a
chip does. The comment beside the first setting of the pins
(`src/ftdidevice.cpp:37`) says "set TMS high", and what it sends sets it low.

Left out: `ftdi_write_data()` that fails, and `ftdi_read_data()` that fails for a
while, which `readBytes()` retries without a limit. Lengths are not negative.

### Tap, DeviceDB, TapDriver

A sequence of `src/xvcdriver.cpp` is a list of calls of `shift()`, each a vector of TMS
and of TDI, and a step (`Clock`) is one cycle of TCK: that is what `JtagShift` promises
of a call, and what `AXIShift` and `FTDIShift` are shown to keep. `NextCall` and `Returns`
are the code between and after the calls. `detect()` is `SetClock`, a scan and `Lookup`;
with AXI it goes once through every delay, and a later success replaces an earlier one.
`Probe` starts any of the probes, in any order, as the calibrators do, whether or not a target was
detected: `main()` does not ask. `Kill` may come at any cycle; another process then starts
on the target as it is. What a client of the server leaves behind is covered by the first
state, in which the port is in any of its 16 states under BYPASS, IDCODE or another instruction.

The target is external. It has one device, whose registers shift as the standard says; what
an instruction other than the two captures is a register of its own (`other`). TDO floats,
and reads 1, unless a register is shifted. Vectors are bits, not bytes: that a vector is cut
into bytes is the business of `AXIShift` and `FTDIShift`. `irlen` before any detection is any of
`Uninit`, as the field is not initialised; `idcode` and `idcmd`, of which the same is
true, start as zero.

A cable that samples too late spoils what is read, not what is sent. For the scans of the sweep this is in
the model: at a delay outside of the target's `clear`, the word read may be any of
its `noise`. For the probes, whose success at a delay is what a calibration is about, it
is the environment's choice in `AXICalibrator` and `FTDICalibrator`.

A device list is a sequence of lines, each a device or anything else. If the file
is found its lines are used, else the built-in list. Two things are assumed of the constants.
`ListsAssumption`: the length of an instruction in a list is at most 32, so that it fits the
word the code shifts 1 into (line 36); it is, for every device of the built-in list but
the two "Unknown" ones (99). `TargetsAssumption`: a target has an instruction that selects the
IDCODE, and it is not the one of all ones, which the standard gives to BYPASS.

Left out: descriptions, `dumpDevices()`, and the two bytes of the instruction's buffer,
past which the loops of lines 39 and 122 write when `irlen` is above 8.

### AXISetup, AXICalibrator

A probe succeeds or fails by the environment's choice, with no assumption that the
delays that work are neighbours. The history `eye` keeps the delays that worked, for
the divisors that got an item. `hyst` and `calibSize` are the arguments of a
calibration. The hundred passes of a pattern in phase 2 are one step that holds or
fails: only the first failure matters. Finding an item by id, by frequency and by
maximum frequency, and the file, are operators of `AXISetup`. `LoadFile` ends with
the last line twice, because the code asks `feof()` before it reads and does not
look at what `fgets()` returns; the buffer is a local of the loop body, and the
model takes it to keep its contents from one iteration to the next, which
is what a compiler that gives it one place in the frame yields. A file without any
line cannot come from a save that ended; what `main()` does with one is in
`XVCServer` (`Loaded`). `eyeWidth` is not modelled: nothing reads it.

### FTDIClock, FTDISetup, FTDICalibrator

Divisors are worked out as the C code does: the frequency doubled in 32 bits (`Twice`),
division towards zero (`Quotient`), and 16 bits to the chip. The doubling of a frequency
beyond 2^30 is undefined in C; it is taken to wrap. A probe of the IDCODE matches or not. `good` is a history of the probes
in a row that matched at each setting of the chip, so that an item filed under
another setting than the one probed shows.

`main()` asks of a range only that its ends are in order, and so does
`RangesAssumption`. An end of 0 (or one whose double wraps to 0) is divided by before the
sweep begins (`Dies`), and a divisor of -1, which a `--maxfreq` above 30 MHz leads to, in
the sweep: both end in `"crashed"`. From a negative frequency to a positive one there is no
divisor, and the sweep is empty; between two negative ones the divisors are negative, and the chip gets
the low 16 bits of them.

### XVCServer

One behaviour is several processes in a row, each with its options: `Start`,
`Connect` (the driver's constructor), `Calibrate`, the steps of a save
(`SaveOpens`, `SaveLine`, `SaveCloses`, or `SaveFails`), `QuickSetup`, `Load`,
`Choose`, and the server, of which only "serving" is left here. `Kill` may come
anywhere. What survives is `disk` and `dev`. A calibration's result is any of
`Calibrations`, constrained by an assumption that the calibrators' modules
justify (the types of their items, and `AXICalibrator`'s `DefaultHardened`, all of them
proved; the FTDI sweep says nothing of the state it leaves). For FTDI these are the calibrations of a
range within the divider's 16 bits (`ClockRange`): a `--minfreq` below 458 Hz or a `--maxfreq` above
30 MHz, which `main()` lets through, is modelled in `FTDICalibrator` and not followed into the file. A register may hold a negative
number: `main()` takes every value of `--cdiv` and `--cdel` but -1 as given, and the driver
refuses what is too large only. `slack` is what `FTDISetup::getItemByMaxFrequency()`
finds when the list is empty: `&calibList[0]` of a vector whose elements were
cleared, never null once it held an item. One file is used for `-s` and `-l`, and
a line is written whole or not at all; a core's registers survive the process.

## What is checked

Each run is `tlc -config <name>.cfg <module>`; `PROJECT.json` gives the module.
`CHECK_DEADLOCK FALSE` stands where the system may stop: all clients are gone,
the calibration is done, no more processes are to be started.

| run | bounds | shows |
|---|---|---|
| `IOServer_service` | 2 clients, 2 requests each of getinfo, mrd (refused) and shifts of 0, 8 and 9 bits with a buffer of 2 bytes; symmetric clients | types; `InStep`, `ExecutedInOrder`, `BurstsUnbroken`; `ImplementsService` |
| `IOServer_descriptors` | 3 clients, descriptors 0..2 with the listening socket in the middle; out-of-band data of one client; the listening socket may fail | `DescriptorsWatched`, `SnapshotValid` |
| `IOServer_liveness` | 2 clients, 2 requests each, queries and shifts | `EveryRequestSettled`, `BackToSelect` |
| `AXIShift_contract` | lengths 0, 17, 24, 32, 33, 65 and three vectors for each of TMS, TDI and TDO, any number of calls | types; `CoreUndisturbed`; `ImplementsShift`; `CallReturns` |
| `FTDIShift_contract` | lengths 0, 5, 8, 21, 33, 40; TMS in no bit, in the second byte, in the last, in the padding, or in many; buffers of 30 | types; `BuffersFit`; `ImplementsShift`; `CallReturns` |
| `AXICalibrator_calib` | 5 divisors, 4 delays, hysteresis 0 or 2, full or quick (2 items) | `WindowMeasured`, `DelayNearWindow`, `DefaultHardened`, `SelectionSurvivesFile`, `ClosestChosen`, `CalibrationEnds` |
| `FTDICalibrator_sweep` | 6 to 30 MHz (5 divisors), near 100 kHz (2 divisors of two bytes), 30 MHz alone, 3 kHz (4 divisors, 3 of them 2999 Hz); from 0, from -1 kHz to 1 kHz, up to 40 MHz, and up to the largest int; 2 probes | `ItemsProbed`, `RecordedFrequency`, `NothingMissed`, `CalibrationEnds` |
| `TapDriver_sequences` | 4 targets (one with a revision, one with 8 bits of instruction, one in no list, one whose noise is another device's IDCODE), 2 lists, 2 delays, `irlen` 0 or 3 before detection, probes of 1 and 2 words, a kill at any cycle | types; `AnswersTrue`, `InPlace`, `HarmlessUpdates`, `DetectsTarget` |
| `XVCServer_setup` | 3 processes, 105 command lines, 3 results for each driver, disk that may fail | `ServesCalibrated`, `RestartServesSame` |

Why the bounds are enough. Two clients with two requests each are what it takes for a
shift to come between two shifts of another client, and a length at, below and above
the limit of the buffer covers the comparison. A descriptor can be reused
within a scan only with at least two besides the listening socket, and a third
client for it to be given to; with the listening socket in the
middle a new descriptor may lie before or behind the scan. The lengths are on
both sides of a byte and of a word, with zero, one, two and three words; the
vectors repeat from word to word, change at each word, or change in each bit, so registers
are rewritten and not. With buffers of 30 bytes an FTDI round ends after two bytes
without TMS or one with, so a command that is being built is completed by each of the three
places that can, and every call above 16 bits takes several rounds; the
proof covers the size in the code. Divisor 4 is the first whose window must have two
points. That the delay of an item may be one step below the window is needed with a hysteresis of 1 only,
which takes the run more than twice as long; the proof covers it. Two failed items before the good one, and none good, all occur.
The FTDI ranges that crash or are empty are among those that are swept; one of negative divisors has no run, since what is recorded there is not
what the chip runs at, and its types are proved. Three
processes are a save, a second one that overwrites or is cut short, and a
load. Words have their 32 bits in `TapDriver`, since what is at stake are the cuts of
41, 32 and 33 bits; two delays are enough for a scan that fails before or after one that
succeeds, and two words for the second one to be cut right.

Runs that TLC must find violated show where the code departs from what the
repository says of it:

| run | says | does |
|---|---|---|
| `AXICalibrator_points` | `src/axicalibrator.cpp:26`: `validPoints` counts "consecutive valid measurements" | with `--hyst=1` the window starts a step early and a point is counted that failed or was not probed; the delay chosen, the centre of that window, may then be one at which the probe failed |
| `FTDICalibrator_maxfreq` | `README.md:45`: `--maxfreq` is the "max clock frequency for calibration" | the divisor is rounded down, so a range up to 20 MHz includes 30 MHz, and makes it the default |
| `TapDriver_bypass` | `src/xvcdriver.cpp:118`: "set BYPASS instruction", and 120: "irlen bits set to 1" | 0x3F is sent whatever `irlen`: on devices of the built-in list with 8, 10, 14 or 16 bits another instruction is selected, so that no probe of the AXI calibration reads what it sent but by chance |

The models show a few more that have no run of their own. `--maxfreq` above
30 MHz and `--minfreq=0` divide by zero; so does a `--maxfreq` near the largest int, whose double wraps to a negative number, only after
the sweep has tried divisor 0. `--loop=0` passes the check for a
"positive number" (`src/xvcserver.cpp:155`) and keeps every setting without a
probe. `README.md:33` and 34 give the ranges of `--cdiv` and `--cdel` the wrong
way round: a divisor above 255 is refused with a message, and the server starts
without it. An unknown `--id` is a message too. "calibration data saved in"
(`src/xvcserver.cpp:139`) is said, and the exit status is that of success, whether or not
the file could be opened: `Saved` follows `SaveFails` as it follows `SaveCloses`. The
properties of a restart hold all the same, for what is then in the file. On a target that was not
detected, with `irlen` 0, a probe never leaves Shift-IR, and the reset of the next one takes
over as an instruction what was shifted there; `AnswersTrue` and `HarmlessUpdates` are therefore
stated for a driver that `Knows` its target.

### Fairness

`IOServer`: the thread runs whenever it can (`WF` of `ServerStep`), as the
operating system schedules it, and a client that began a request sends the rest.
`PoliteSpec` adds that a client whose last request was a shift closes once it is
answered. The code does not enforce that, and needs it: `handleData()` stays with a
client after a shift and blocks in the next read, so one that goes quiet holds the
server for ever. Clients that end with a query may stay. `AXIShift`: the driver's
thread runs and the core finishes what it was given; the busy wait has no limit, so
`CallReturns` is as true as that. `FTDIShift`: the driver's thread runs and the chip
executes what it was sent. `AXICalibrator` and `FTDICalibrator`: the thread
runs; nothing is assumed of the probes.

## What is proved

Every safety property of a passing run, and each refinement, is a theorem: TLC shows it on an
instance, TLAPS for every value of the constants under the assumptions named in the
component's module. The modules with theorems end in `Proofs`. In each of them a theorem rests
on an inductive invariant, which is stronger than the properties, and each action has a lemma for
each part of it that it can disturb.

### The server

`IOServerProofs`, for every set of clients and requests, every number of descriptors and every
bound (distinct names for a free descriptor, the listener and the clients; bounds that
are naturals):

* `TypeCorrect`, `DescriptorsAlwaysWatched`, and from it `NeverTerminated`;
* `SnapshotAlwaysValid`;
* `AlwaysInStep`, `AlwaysExecutedInOrder`, `BurstsNeverBroken`;
* `Implementation`: `Spec => ImplementsService`.

The first ones rest on `Inv`: `TypeOK`, `TableInv` (the
watched set is the set of open descriptors, all at most `maxfd`, and the listening
socket is at `Sock` or nowhere) and `PlaceInv` (between scans the snapshot is empty;
what the scan has ahead is open; in `handleData(fd)`, `fd` refers to a client, and past
the command `cur` is a request's number). Types alone are not inductive: that closing
`fd` leaves the table right needs to know what is at `fd`, and that the scan never
meets a closed descriptor is what keeps it from `"terminated"`.
`SnapshotValid` is not inductive even with `Inv`: when the connection at `fd` is read or
closed, a descriptor ahead stays readable only if another client is at it.
`OwnerInv` says so: a client owns at most one descriptor or one place in the
queue of `accept()`, and a client that has either is not new, so that it cannot connect
a second time. `SInv` is `Inv`, `OwnerInv` and `SnapshotValid`.

The service rests on `ServiceInv`. What a client has to send and what the server has to read
are one list: the tokens in flight and those not sent yet form a chain, in which each token is the
one that follows the one before, and whose head is the token the server is at. The server's place
counts only while the client is attached (has a descriptor or a place in the queue). The logs of
answers, of executed shifts and of the JTAG port then agree with the number of the request the
server is at, and `BurstInv` says that a client whose last executed shift may be continued is the one
`handleData()` is with, and that this shift is the last one on the port. The refinement maps each step of the sockets, the scan and
the handler to a step of `XvcService` or to a stutter.

### The two `shift()`

`AXIShiftProofs`, for vectors of every length and content: `TypeCorrect`, `CoreIsUndisturbed`, and
`Implementation`: `Spec => ImplementsShift`. The invariant says that the registers
of the core equal `last_tms` and `last_tdi` (so that a write that is skipped because the word
did not change changes nothing), that `length` is 32 until the partial last word, that `ctrl` is
1 only while the driver waits, and what the samples so far are in TDO and in `result`.

`FTDIShiftProofs`: `BuffersAlwaysFit`: `Spec => []BuffersFit`, for all lengths and
vectors and every `MaxData` above 25. The comments of the code claim 9 descriptors and 24
bytes an iteration at most; that this is enough takes `BufferInv`. The bound on
descriptors is met with none to spare: the loop stops below `MaxData - 8`, an iteration may add 9, and
the command being built adds another one at the end, but never after a byte with TMS,
which is what `building => Len(desc) < MaxData` says. The bound on answers follows
from that on commands, since every byte that comes back cost at least one that
went out.

The other two theorems of the module are `TypeCorrect` and `Implementation`: with a chip that takes TMS low
again after each command that wrote it (`TmsHeld = FALSE`, what the driver takes for granted), `Spec =>
ImplementsShift`. `Inv` follows the bits of a round from the vectors to `result`. Two functions lay
its descriptors out (`Lay`): `f` gives the first bit of each in the vectors, `g` the bytes that
come back before its own. While the round is built (`BuildInv`) each command carries
the bits of its descriptor (`Fits`), and the byte command without a length yet those
behind the last one. While the chip executes (`ReadInv`, `UnderWay`) the commands left are the last ones
of that layout, the wire has the bits before them, and the bytes that are back, the part of the command being executed
included, hold the samples at the places where `Unpack` looks for them. From it follows
that the bytes the driver waits for are back when the last command is executed and
not before (`AllAnswered`), so that what is read never belongs to another descriptor. `SampleInv` says
what is in the byte being sampled: the last 8 bits at most, the latest at the top.

### The sequences on a target

`TapDriverProofs`, for all targets, device lists, data and delays that
`ListsAssumption` and `TargetsAssumption` allow, and whatever an undetected `irlen` is (up to 32):

* `TypeCorrect`. `TypeOK` alone does not say that a lookup has the 41 bits
  of a whole scan before it, nor that the probes run the seven calls and the scan the one;
  `Control` does. That what a lookup returns is an entry of the list takes `LeastElement`, since
  `FindDevice` is the first entry that matches.
* `AlwaysInPlace`, from `Place`, which says in which state the target is at
  every cycle of every call. It rests on `Settled(b)`, the states in which a target
  may be after `b` cycles of TMS high from anywhere: after five there is only one, after four
  there are two, so that the five of `scanChain()` and `startBypass()` are needed
  and enough. With `irlen` 0 the call that loads the instruction has no bit, the target stays in
  Shift-IR, and what follows is out of place: that is why `InPlace` excludes it.
* `AnswersAlwaysTrue`, from `Content`: for each call and each bit, what the target's registers hold
  of its own data, what of the vector, and what of both is in `result`.
* `UpdatesAlwaysHarmless`, from `OwnInv`: as long as nobody else moves the target, the instruction
  in effect is harmless, and each sequence ends in a state from which the first cycles of the next
  one update nothing but what the sequence itself shifted in.
* `AlwaysDetectsTarget`, from `Detection`: once a delay was tried at which a listed target reads
  right it is detected, and what a later delay replaces it by is an entry with the same IDCODE.

### The calibrators

The loops that choose an item, and what a file loads as, are folds; a fold is a recursive
function that is chosen. `SetupProofs` proves for each of them that a function satisfying the
recursion exists, by giving it, and what it computes by a least counterexample, since the
induction theorems cannot be used.

`AXICalibratorProofs`, for every number of divisors and delays, every hysteresis that is not negative, and whatever the
probes return: `TypeCorrect`, `WindowsMeasured`, `DelaysNearWindow`, `DefaultAlwaysHardened`,
`SelectionAlwaysSurvives`, `ClosestAlwaysChosen`. `SweepInv` says what the open window holds
(with hysteresis all of it but its first point worked, without all of it did), `ItemsInv` that the items are in the order of their
divisors and numbered by their place, and `HardInv` that the items that failed in phase 2
are the first ones, in order, which is why deleting them by id, and renumbering, leaves the one that passed in front.

`FTDICalibratorProofs`, for every range and number of probes: `TypeCorrect` for whatever `main()` lets
through, any two integers in order; `ItemsAlwaysProbed`, `FrequencyAlwaysRecorded` and `NothingEverMissed` under
`ClockRange` (every range is within 458 Hz, the slowest the divider has in 16 bits, and 30 MHz) and
`Loop # 0`. `main()` checks neither. Without, they need not hold: a divisor of more than 16 bits, or a negative one, is cut,
a range that holds -1 is not finished, and with no probe every setting passes. The invariant relates the settings that are past, in the order of the sweep, to
the items: those that passed, all of them, and no other. What `NothingMissed`
compares are frequencies in whole Hz. Below some 5.5 kHz neighbouring divisors can have the
same; the item is then as fast as any that passed by that measure and no other.
The run `FTDICalibrator_sweep` has such a range.

### `main()`

`XVCServerProofs`, for every set of command lines and of calibrations of the right types, every number of
runs, kills and failed saves: `TypeCorrect`, `AlwaysServesCalibrated`, `RestartAlwaysServesSame`. `FileGood`
is the heart of the invariant: a file, at whatever line its save was cut off, is the
whole file of a good list, because a save writes the lines in order and what is read from a
prefix is a prefix; so loading never invents a setting. `SavedGood` relates what
was announced as saved to the file as it is now, `PlaceInv` says which list `main()` has at
each place, and `LeftGood` that what the storage of a cleared list begins with is an item of a
calibration, so that the FTDI choice from an empty list still serves a good setting.

### What the proofs found

* Two guards of the `CASE` in `Loaded` (`XVCServer`) overlapped, so that TLA+ left open which of
  the two values it has, where TLC takes the first. They exclude each other now.
* The registers of the device are not naturals: `--cdiv=-5` is not refused. `TypeOK` of `XVCServer`
  said so only because no command line of the run had one; it has one now.
* `NothingMissed` is about whole Hz, as above.
* The types of the FTDI sweep do not rest on a positive range: they hold for every two integers in order,
  with a list that is empty where there is no divisor to sweep, and with frequencies that may be negative.

### Model-checked only

All liveness, `EveryRequestSettled`, `BackToSelect`, `CallReturns` and `CalibrationEnds`, is
checked by TLC only: it rests on fairness and `ENABLED`, out of the provers' reach.

## Not modelled

* The text of device lists and calibration files, below the level of a line.
* `argparse`: vendored. `main()` is modelled from the values it leaves.
* Opening devices, `mmap`, USB set-up, output, the Makefile: no state of the program's own.

## Plan

In order of importance; all of it exists.

1. `XvcService`, `IOServer`, and the proofs of its table and snapshot.
2. `JtagShift`, `AXIShift`.
3. `AXISetup`, `AXICalibrator`.
4. `FTDIClock`, `FTDISetup`, `FTDICalibrator`.
5. `XVCServer`.
6. `FTDIShift`, and the proof of its buffers, then that it implements `JtagShift`.
7. `Tap`, `DeviceDB`, `TapDriver`: the sequences over an IEEE 1149.1 TAP, from any state a
   predecessor or a client leaves.
8. Theorems: the safety properties of all runs, and the refinements.
