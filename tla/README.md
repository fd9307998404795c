# firestarter_fw: a TLA+ model of the programmer's firmware

Firestarter is the firmware of a ROM programmer (the RURP shield on an Arduino
Uno, a Leonardo or a PY32F071): a host sends one command frame at a time over a
serial link, and the firmware reads, writes or erases the chip in the socket,
with programming voltages of up to 25 V on some of its pins. What can go wrong is
seldom in one function: a cursor that moves by a size somebody else wrote, a
voltage that outlives its command, a configuration torn by a power cut, a frame
whose tail is read as the next command. These modules model that part of the code.

Line numbers below and in `PROJECT.json` are those of the repository's sources;
`PROJECT.json` maps every definition to the lines it models.

## The system's parts

| part | source | state | operations | what makes it correct |
|---|---|---|---|---|
| main loop | `src/firestarter.cpp` | `handle`, `timeout_started_ms` | accept a frame, dispatch, watchdog, `command_done` | every command ends, voltage off, with a frame that says how |
| operation engine | `src/operation_utils.cpp` | `operation_state` | INIT, MAIN, END phases, `op_wait_for_ack`, `op_get_message` | phases in order, each with the host's consent |
| transfer handlers | `src/eprom_operations.cpp` | `address`, `data_size`, waiting flag | pull-based write, push-based read, refusals | a transfer is its region, complete and within bounds |
| hardware operations | `src/hardware_operations.cpp` | | voltage readings, versions, configuration | rail off when the reading ends |
| command decoder | `src/command_decoder.c` | `bus_config` | validate a frame, then write the handle | nothing of a refused frame is kept; the bus is what the frame says |
| serial framing | `src/boards/rurp_serial_utils.cpp` | the decoder's locals | COBS decode byte by byte, drain, deadlines | a whole frame is decoded, and the next call starts on a frame |
| USB port of the PY32 | `usb_cdc.c` | two rings, `tx_busy` | read, write, flush; endpoint interrupts | two byte pipes, though nothing is locked |
| driver selection | `src/proms/memory.cpp`, `configure_*` | three callbacks | `configure_memory` | each (protocol, command) pair is run or refused |
| memory bus | `src/proms/memory.cpp` | | remap of an address, read-high line, rail window | an access selects the mapped lines only |
| EPROM driver | `src/proms/eprom.cpp` | `pending`, `pulses`, `accumulated` | scan and pulse passes, final pass, erase, chip id | every byte at target or an error; no pulse too many |
| 28C, NOR and 5 V page drivers | `eeprom_28c`, `flash_nor_unlock`, `flash_5v_page`, `flash_utils` | | unlock, page loads, polls, read-back | success means stored; a busy part is left alone |
| Intel flash driver | `flash_intel.cpp` | | init, main, end callbacks | rail up only in between; errors reported |
| register latch | `rurp_register_utils.h`, `rurp_hw_rev_utils.h` | cached copy, latch, switch-off time | write through a mapping that depends on the board | latch is what the copy says; idle holds no voltage |
| developer tools | `dev_tools.cpp` | | set registers, set address, sweep the rail | the same |
| voltage reading | `rurp_voltage_math.c`, `rurp_common.cpp` | | pre-flight, counts to millivolts, window | no operation wraps |
| configuration | `rurp_config_utils.cpp`, `rurp_config_migrate.cpp` | live record | load, migrate, CONFIG command | usable values only; settings change by command |
| AVR storage | `rurp_config_storage_eeprom.cpp` | EEPROM bytes | `EEPROM.put`, `get` | survives a torn write as far as it claims |
| PY32 storage | `config_storage_dualslot.cpp`, `config_storage_flash.cpp` | two flash pages | scan, erase, program | an atomic register |
| deferred log | `deferred_log.h`, `uno_rurp_shield.cpp` | 4 frames | push, flush | order, and no error lost |

How they interact. `loop()` owns everything and is the only thread; it calls the
operation engine, which calls the driver's callbacks, which write the register
latch. Interleaving comes from the host (bytes arrive at any time and are looked at
only where the code polls), from the PY32's USB interrupt (between any two
instructions of the main loop), from time (the watchdog and the ACK timeout are two
clocks over the same second), from the Uno's shared port (while a callback has the
bus, incoming bytes are thrown away and outgoing frames are queued), from the
rail's capacitor and the cycles of parts that time themselves, and from power loss.

## Modules

`Dispatch` — tables: what `configure_memory` and the `configure_*` functions
install for each protocol and command, and which callbacks leave a voltage on.

`Session` (extends `Dispatch`) — the main loop, the engine and the transfer
handlers. `cmd`, `state`, `waiting`, `address`, `dataSize` are fields of `handle`;
`pc` is where the one thread is: between calls of `loop()`, polling in
`op_wait_for_ack`, or inside a driver callback. One action per branch of the code
(`WriteData`, `WriteDone`, `WriteRefuses`, `AckTimesOut`, ...), each with all that
the branch does up to the next poll; `CommandDone` and `Abort` are shared tails.
`covered`, `acks` and `doneArrived` are ghosts. The host is `FreeHost` (any message,
any time) or the pair `HostCommands`/`HostAnswers` (a host that follows the
protocol). Abstractions: `rx` holds the messages that have arrived whole (one that is
still on the wire, or has arrived in part, is not in it; how its bytes are read is
`Link`'s subject), a chip's callback succeeds or fails in one step, and `data_size` at the acceptance of a command is 0. (The data
frame may be empty: `Data(0)`.)

`Cobs`, `Link` (extends `Cobs`) — one level below `Session`: bytes. `Cobs` is the
encoder, as a fold, and the decoder, as one step per byte with its one-byte
lookahead. `Link` is the loop around it: the words of `op_get_message`, the decoder's
inter-byte deadline, `_drain_to_delimiter` in both its forms, the watchdog, and a
port of bounded capacity. The host sends a message at a time, may be killed with half
of one out, and loses what finds the port full. Every byte carries, as a ghost, the
message it is from, so that a property can say which frame was read whole.

`UsbCdc` — the PY32's port: each of `py32_usb_read`, `py32_usb_write` and
`py32_usb_flush` in as many actions as it has visible steps, the endpoint callbacks
and bus events as actions that may come between any two. `BytePipe` is what it
promises, and `UsbCdc` implements it twice (`RxPipe`, `TxPipe`).

`CommandFrame` — `validate_memory`, `apply_memory` and `mem_util_remap_address_bus`
for the bus part of a frame. An address, or a word of the bus, is the set of its high
lines. The one step per behaviour hides nothing: a refused frame leaves the bus of
the frame accepted before it.

`EpromProgram` — `eprom_write_execute`, one action per step of its three nested
loops. `pending` starts with whatever the stack held. A pulse may change the byte
it hits to any value: the chip is not trusted. `Rows` gives the parameter rows of
`eprom_params.cpp`, one of which each command uses.

`PageWrite` — the drivers of parts that time themselves, one command from its first
bus write to its answer. The part is external: it collects bytes in a load window,
runs a cycle, answers reads with the complement of DQ7 meanwhile, and has at most one
fault: a window that ends early (an interrupt of the firmware's, or tBLC), a weak cell,
a protected sector, a cycle that never ends. One read in a cycle may show anything.
`blind` is a ghost: a byte was read back from a part that was still at work.

`HvRail` — the control register's copy, the latch behind
`rurp_map_ctrl_reg_for_hardware_revision`, and the rail. A driver callback is a
script of register operations (`EpromErase`, `IntelUp`, ...) run one step at a
time; `CommandDone` and `Reset` may come between any two steps, which covers every
error exit of the drivers. `charge` is how long the rail still needs to fall. It
models builds with `HARDWARE_REVISION`. A part has its pins and the lines above the
address latches (`TopLines`) that its accesses may drive, each of them high or low on any
access: address bits, the direction, a line that is always high, a VPP line that is not
the pin-1 one. Every choice is a superset of what one part's map does, and 28-pin parts
have A17 high besides. `DevTools` (extends `HvRail`) adds the three commands of a `DEV_TOOLS`
build, with register writes through the copy (`DevSpec`) and past it (`RawSpec`).

`CommandContract` — the abstract specification of a memory command as its host sees it:
accepted, three phases each opened by an ACK of its own and closed by a report of its own,
the bytes moving in the second, then finished, or failed with an error frame from
anywhere. `Session` implements it (`CommandsKeepTheContract`, through
`Contract == INSTANCE CommandContract WITH ...`); commands of other kinds are steps outside
the contract.

`VoltageMath` — the AVR's reading in arithmetic modulo `UintWrap`, the plausibility
test before it and the window the result is held against.

`DeferredLog` and `DriverReports` — the queue of the Uno, and the sequences of
frames each driver callback can make in one programmer-mode window (an operator
`Then` stops a sequence at its first error, as the callbacks return there).

`ConfigRules` — what a record is, when it is valid, how it is migrated, how a
CONFIG frame applies; shared by the two storages.
`ConfigPolicy` (extends `ConfigRules`, `DualSlot`) and `EepromConfig` (extends
`ConfigRules`) — boot and the CONFIG command over each storage.
`DualSlot` — `rurp_dualslot_save` as erase and program steps that may succeed,
fail or be cut by a power loss, leaving a blank, a torn or a whole page; an erase
counts against the page's endurance.
`ConfigRegister` — the abstract specification of the persistence seam: a write
takes effect as a whole or not at all. `DualSlot` implements it
(`StorageIsARegister`, through `Register == INSTANCE ConfigRegister WITH ...`).

`SessionProofs`, `EpromProofs`, `PageProofs`, `HvRailProofs`, `SerialProofs`,
`DualSlotProofs`, `BoardProofs` — the theorems. `BoardProofs` is about
`ConfigPolicy`, `EepromConfig` and the two of them side by side in `MCBoard`, and about
`DeferredLog`, `CommandFrame` and `VoltageMath`; `SerialProofs` about `Cobs`, `Link` and
`UsbCdc`. `Induction` — the lemmas by which the others reason about recursive functions
and folds: induction over the naturals stated of a *set* of them, since a theorem that
takes a predicate as its parameter cannot be instantiated by the provers. It rests on the
naturals' well-foundedness (`LeastNatural`), which follows from that of finite subsets.

`MCSession`, `MCDrivers`, `MCBoard`, `MCSerial`, `MCEeprom`, `MCHvRail` — small
instances for TLC. `MCBoard`, `MCDrivers` and `MCSerial` put components that share no
state side by side: a variable (`part`, `driving`, `level`) says which of them runs,
and the others rest in one state, so that the run's size is the sum of theirs and not
the product. They say nothing about an interaction between those components; the
interactions modelled are inside `Session` (loop, engine, handlers, shared port),
`Link` (loop, decoder, port), `UsbCdc` (main loop, interrupt), `ConfigPolicy` (policy,
storage), `DevTools` (drivers, tools, latch, rail) and the drivers with their parts.

Definitions commented as *slips* are plausible mistakes in the definition that
follows them; each property is known to fail with one.

## What the runs check

| run | question | properties |
|---|---|---|
| MCSessionTransfer | any host, any order, any timing, also none | `WriteComplete`, `TransferInBounds`, `HvNeedsConsent`, `CommandsKeepTheContract`, `NoRequestOverDone`, `CommandEnds`, `SilentHostReleasesHv`, `TypeOK` (both clocks bounded) |
| MCSessionPrompt | a host that keeps to the protocol and answers in time, on a Uno | `ReadComplete`, `PromptHostNeverTimedOut` |
| MCDrivers, EPROM | any content, any target, a chip that need not obey | `PulsesBounded`, `SuccessIsProgrammed`, `FailureNamesFirstBad`, `OnlyShortBytesPulsed`, `ReadsWithRouteDown`, `DriversReturn` |
| MCDrivers, pages | every family, task, block, page size, fault and protection | `SuccessIsStored`, `SoundPartSucceeds`, `OthersKept`, `SentToPartAtRest`, `DriversReturn` |
| MCBoard, py32 and avr | migration and commands over storage that fails and loses power | `SettingsUsable`, `SettingsStored`, `OnlyCommandsChangeSettings`, `StorageIsARegister`, `ReportedSavesAreStored` |
| MCBoard, log | every callback's reports, and arbitrary ones | `SendOrder`, `NoErrorLost` |
| MCBoard, rail | every driver's and tool's voltages, on every board, with aborts and resets | `LatchIsMapped`, `IdleIsSafe`, `StrobesAtTheirLevel`, `ReadsKeepVpeOffPin1` |
| MCBoard, frame | every bus map of three lines, accepted and refused | `BusIsTheMap` |
| MCBoard, voltage | every calibration and count of a small converter | `ReadingIsExact` |
| MCSerial, link | words and frames byte by byte, lost and cut | `BufferHolds`, `WholeFramesDecoded`, `OneDelimiterPerCall`, `LoopReturns` |
| MCSerial, usb | interrupts between any two steps, bus resets, a host that stops taking | `PortIsTwoPipes`, `CallsReturn`, `TransmitterRuns` |

Three of these properties say less than their names. `NoRequestOverDone` is about a DONE
that is whole in the buffer: `op_get_message` finds no message in a DONE that is on the
wire, or of which fewer than four bytes have come (`operation_utils.cpp:120`, 138-140), and
`_process_incoming_data` then asks for data over it, on every board.
`CommandEnds` is about commands that were accepted, under a host whose messages arrive
whole: it says nothing of a command frame that the drain swallowed in idle, which
never becomes a command, nor of a host that trickles bytes into `read_data` or the drain
while the watchdog is not looked at, and it excludes the host that sends empty data frames
for ever. `LoopReturns` has the trickling host, byte by byte, and excludes the one that
never stops sending: a drain then never ends.

Seven runs show where a comment of the code says more than the code does:

* `MCSessionUnoDone` — the check "for an incoming message first" is there to
  prevent a request after DONE (`eprom_operations.cpp:79`); on a Uno the DONE may
  have been drained with the UART's buffer, and the request goes out. (That a DONE not yet
  whole is not seen either, on any board, is below the messages of this run.)
* `MCSessionReadStray` — a data frame that arrives while a read waits for an ACK
  overwrites `data_size`, by which the cursor then moves, so that a read need not
  end at its region's end (`eprom_operations.cpp:138`).
* `MCEepromForeign` — "Nothing in a foreign record is trusted"
  (`rurp_config_migrate.cpp:81`), unless the power goes during the first boot's
  migration, once the version is written and before the fields are.
* `MCHvRailChipId` — `configure_memory` waits for the rail to fall before a READ
  only; an Intel chip-id read right after a voltage command puts the falling rail
  on pin 1 of a Rev 2 board (`memory.cpp:108` against 477). An ordinary READ can do the
  same, since the wait is for parts whose *VPP line* is the pin-1 switch: any address with
  line 21 high closes that switch (`memory.cpp:134`), and the AT28C040 has its address
  bit 18 there and no VPP line (`test/native/avr/_shared/sdp_bus_config.h:72`).
  `tlc -config MCHvRailAddress.cfg MCHvRail`, the same property on that part, shows it;
  it is one more instance of this question, and not listed as a run of its own.
* `MCDevRaw` — `command_done` "zeroes CONTROL_REGISTER on every command exit
  regardless" (`eprom.cpp:421`), but a register set by the default view of the
  developer's command is in the latch and not in the copy (`dev_tools.cpp:98`):
  the write of 0 finds 0 in the copy and is skipped, and the voltage stays.
* `MCSerialStrayD` — "an `OK` after a stray 'D' is still read"
  (`operation_utils.cpp:142`): not until a fourth byte comes, which a host that waits
  for the answer to its OK does not send.
* `MCVoltageHigh` — the folded arithmetic under-reads and "therefore cannot suppress
  a high-side VPP error" (`rurp_voltage_math.h:108`); an under-read is what does.
  With r1 = 271000, r2 = 44000, a bandgap of 1080 mV, 417 counts over 248 and a
  12500 mV part the 64-bit form reads 13001 mV, above the limit, and this one 12999.

### Bounds

`Session`: the buffer holds two bytes and devices have at most four, so that a
transfer takes several chunks, a short last one and a region end inside a chunk.
Timeouts are two or four ticks: enough for every order of the two clocks, which is
all the properties see. `MaxRx` bounds the messages under way to two; that is the
depth at which one message can be stale when the next is read. The free-host run has
the transfers, an erase and a reading; `MCSessionPrompt` every command and refusal.

`EpromProgram`: blocks of up to four bytes in groups of two give a block with one
group, two, and a partial one; two or three pulses give a byte that converges on the
first, between and on the last. Rows: one with a final pass and no cap, one whose
energy cap ends before its pulses.

`PageWrite`: eight addresses in two pages, blocks of one to eight bytes that begin on a
page or inside one, cross into the next, or fill both; three byte values (blank, and one
with each DQ7), a page size the driver takes and one for which it falls back. Pages of four
bytes are the shortest in which a load that is cut twice can mislead the poll (below).

`HvRail`: `Discharge` is two ticks, so that a command can come before, during and
after the fall of the rail. One part of each kind of rail sequence, among them a 28-pin
EPROM with VPP on pin 1, whose line is in the address latches, and an EEPROM with address
bits on all top lines, like the AT28C040; all revisions.

Configuration: two fields of two usable values and one that is not, so that a torn
record can mix a good field and a bad one. The dual slot's `Endurance` of two erases a
page wears both out, and `Wrap`, standing for 2^32, is beyond them as it is in the
code. The deferred queue has its real size of four, and callbacks of up to six frames.

`CommandFrame`: three address lines on a bus of four lines and one number that is no
line: a gap, a duplicate, a straight prefix followed by a crossed line, and a straight
line behind a crossed one all occur. `VoltageMath`: 4-bit integers and a 2-bit converter
keep the code's relation between the widths (`FullScale * FullScale <= UintWrap`);
calibrations are every value of the type, as the arithmetic unit must cope with them,
and so wider than the bands a configuration is migrated to (the reading quoted above
is within those bands).

`Link`: three bytes of buffer, a full run of two, a port of four bytes, a command frame
with a zero in it, a data frame that just fits in a command and is too long in idle,
and the words. The letters double as data and as run codes, as they do in the code. One
fault (`MaxFaults`) cuts or loses a message. `UsbCdc`: rings of two usable bytes and
packets of up to two, so that a ring wraps, fills and takes part of a packet, and a full
last packet needs its empty one.

No symmetry is used. `CHECK_DEADLOCK` is never disabled: no module can stop.
(`PageWrite`'s last step repeats: a command that has answered.)

### Fairness

`FairSpec` of `Session` says that `loop()` goes on being called and that time
passes, nothing about the host. `Tick` is fair by itself because time passes
whether or not the firmware has something to do. `CommandEnds` excludes one host by
name: the one that for ever sends data frames without a byte in them, which reset
the watchdog and move no cursor. `PromptSpec` adds that the host answers, which is
what "prompt" means, and that an answer takes at most `MaxAnswer`: in the run a quarter
of the timeout, in the theorem anything below a third of it, as the same period of the
watchdog has to serve for three waits in a row (the last chunk, END, the closing ACK).

`Link` is fair in the loop and the clock alone. `LoopReturns` excludes the host that
never stops sending: a drain reads as long as bytes come without a delimiter, and no
watchdog runs in it.

`EpromProgram` is fair in its own steps (`Work`), not in whether another block comes.
`PageFairness`: the driver runs on, its bounded polls run out, and a part that is not
stuck finishes its cycle. That a poll does not run out while a sound part is busy is
in `PollTimesOut`'s guard: the code's bounds are longer than any cycle of the parts.

`UsbFairness`: a call that has begun runs on, time passes, and a configured host takes
a packet it was offered; not that the bus stays configured. `TransmitterRuns` is about
a device that does stay so, and excludes a reset that took a packet with it:
`tx_busy` then waits for a completion that never comes (`usb_cdc.c:98`), and the port
sends nothing more, though `CallsReturn` holds.

## What is proved

For every value of the constants, with the assumptions each module names
(`SessionAssumption`, `RailAssumption`, ...: little more than the constants' types).
Each theorem follows from an inductive invariant, which TLC has checked on the small
instances before it was proved; what the invariants add to the properties is the
part of the argument that a reader of the code needs.

**Session** (`SessionProofs`): `TypeOK`, `HvNeedsConsent`, `WriteComplete`,
`TransferInBounds` and `NoSilentAbort` (an exit before the end leaves an error frame) of
`Spec`. `IInv` adds:
`ControlInv`, what `pc` says about the phase and the clock (in particular that a wait
for an ACK began before the watchdog would have fired, which bounds `elapsed`);
`ConsentInv`, that past READY an ACK has been seen; `WriteInv`, that what a write has
programmed is exactly the region up to the cursor, that the block in hand fits in what is
left, and that MAIN is left only at a declared region's end; `ReadInv`, its weaker form
for reads, weaker because of the stray data frame above. Types of Boolean variables
(`FlagsOK`) and the rest (`DataOK`) are separate lemmas. `DrainsRx` is a constant of
these theorems, so they hold for the Uno and for the other boards alike.

That `Session` implements `CommandContract` is proved over `IInv` and `GrantInv` (a command's
phase says how many ACKs it has taken): a lemma for each step of the contract says what
a step of the session has to do to be one, and each action of the session is then one of
these or none. `HvNeedsConsent`, `WriteComplete` and `NoSilentAbort` state parts of it for
a reader who checks them against the code without it.

Of `PromptSpec`, a host that follows the protocol: `ReadComplete`, from `TalkInv` (which
frame the host is answering, and where that answer will be read) and `DeliveredInv`;
and `PromptHostNeverTimedOut`, from `ClockInv`, for a host whose answers take less than
the ACK timeout and less than a third of the command timeout. Both bounds are sharp: TLC
finds the timeout at either. `NoRequestOverDone` is proved of boards with
`~DrainsRx`, for a DONE that is whole in the buffer, behind whatever else is there; on the
Uno it is false even of those, which `MCSessionUnoDone` shows.

**EPROM driver** (`EpromProofs`): all five safety properties and the types, for
every block, group size, row and every answer of the chip. `CountInv` ties what each
byte has had to the pass it is in; `GroupInv` says that a byte out of the bitmask
is at its target, which is what lets the bitmask be trusted as the memory of a group.
`pulses` never wraps at its eight bits since no row has more than 255.

**Drivers of parts that time themselves** (`PageProofs`): `OthersKept`,
`SentToPartAtRest`, `SoundPartSucceeds` and `SuccessIsStored`, for every block, page,
content and fault. `BaseInv` says that the bytes the part holds are the block's, and in a
load of one page; `RestInv` at which steps the part is at rest, the crux being that a
poll is never one read from believing a part at work (its two matches in a row are one
more than the reads that may go wrong in a cycle); `ReadBackInv` that what was
read back is there, whatever the fault; `TakenInv`, `BlankInv`, `EraseInv` and `SdpInv` what
a sound part has made of its orders; `ErrorInv` that it is never reported as failed.

The attempt to prove `SuccessIsStored` corrected it. It used to say that a 28C write
reported good is stored whatever became of the part's load windows. The window of a
part that ends a load twice takes the first bytes of a page, then (once it is ready) the
middle ones, and loses the last; the poll for the last byte then reads the complement of
another byte's DQ7, which may be what it waits for, and the read-back that follows reads a
part still at work. `eeprom_28c.cpp:478` calls the two questions separate, and 533 the
second a "proof"; it is one as long as the first was answered rightly. The property now
has that condition (`blind`); pages of two bytes, the earlier instance, are too short to
show the difference.

**Register and rail** (`HvRailProofs`): `LatchIsMapped` and `IdleIsSafe` for every set of
boards and parts, for a release build (`RailSpec`) and with the developer's commands that
write through the copy (`DevSpec`). `RailInv` adds that between commands the copy is 0:
this is why the revision the mapping depends on may change under it (a CONFIG command)
without the latch going stale. For `RawSpec` both are false, which `MCDevRaw` shows.
`StrobesAtTheirLevel` and `ReadsKeepVpeOffPin1`, also of `DevSpec`: `ScriptInv` and
`WriteInv` say that what is left of a callback is safe from here whatever interrupts
it, `FallInv` that the time since the regulator went off and the rail's charge make up its
fall. The second theorem assumes of the parts that one with VPP on pin 1 is on a driver
that has a VPP pin, since the wait of `configure_memory` is for those; and it excludes parts
with an address bit on the switch, of which it is false (`MCHvRailAddress`).

**Serial link** (`SerialProofs`): what `rurp_communication_write` makes of a payload of
any length, in runs of any length, is read back as that payload, with no remainder and its
CRC good (`FramesReadAsTheirPayload`): at each byte, what is on the wire decodes to the
bytes before the run that is being collected, and the run closes itself when it is full.
The encoder is called for `RESPONSE_CODE_DATA` only, which no shipped build sets: the
theorem is there for what the host sends in the same encoding, as `Encode` is what
`WholeFramesDecoded` takes for a good frame.
Of the frame reader, for every buffer, any messages and any loss: `BufferHolds`,
`OneDelimiterPerCall`, and `WholeFramesDecoded`, that a frame which reached the reader
whole and fits its buffer is delivered as it was sent. For the last, `FrameInv`: as
long as the bytes heard are a prefix of such a frame, the decoder holds what decoding that
prefix gives, has not overflowed (`HeldGrows`: the buffer only fills, so an overflow would
show at the end) and is not draining.

The attempt to prove `WholeFramesDecoded` corrected it. A frame was followed from any `#`
on, but a `#` may be a byte of data; and a command's frame, when it begins with the run
code 35, was taken by the property for a data frame without its marker, though nothing is
lost. The small instance had no run of 34 bytes and could not show it. A frame is
now followed from the first byte of a message only, and a data frame by its marker.

And `UsbCdc` implements two `BytePipe`s, by a refinement proved step by step: `RxInv`
and `TxInv` keep head and tail in range and the main loop's unpublished byte in a slot
that is free, and each interrupt or step of a call is then one step of a pipe or none.

**Bus words** (`BoardProofs`): `BusIsTheMap`, for a bus of any number of lines and every
map a frame may name. The lines in use come first, without a gap or a duplicate; the
straight prefix (`matching_lines`) is never longer than they are; hence the lines moved by
the loop and those left by the mask are disjoint, and the fold over the moved lines is
the set of the bits they carry (`MovedWord`). A fold is unfolded by exhibiting, with
`SetInduction`, the function that defines it.

**Configuration** (`DualSlotProofs`, `BoardProofs`): every behaviour of `DualSlot` is
one of `ConfigRegister`, for any endurance below the sequence's wrap, any configurations,
any failures and power losses. `SInv` bounds every valid sequence by the erases done (so it
never wraps), and says that the record under way is newer than the newest page and that
its slot is never that page's. The policy above it (`ConfigPolicy`) still implements the
register, and of it are proved `OnlyCommandsChangeSettings` and `ReportedSavesAreStored`;
they are properties of the dual-slot board only, as on the AVR a torn `EEPROM.put` does
change the settings (`MCEepromForeign`). `SettingsUsable` and `SettingsStored` are proved of
both storages, for every set of fields and values, whatever their defaults.

**Deferred log** (`BoardProofs`): `SendOrder`; `NoErrorLost` for every driver
callback and every length of the queue; and `NoSlotNoLoss`, which is why: a frame the
host waits for is lost only if a callback logs more of them than there are slots.

**Voltage** (`BoardProofs`): `ReadingIsExact` for every integer width, every converter
whose square fits it and every calibration. What carries it is that each bound of the
pre-flight is the largest operand its product can take: `SumMax` for the factor,
`ScaleMax` for the scaling, and the square of the converter for the rounding term
added to it (`RoomForACount`).

Only model-checked, of the properties of the passing runs: the liveness properties
(`CommandEnds`, `SilentHostReleasesHv`, `DriversReturn`, `LoopReturns`, `CallsReturn`,
`TransmitterRuns`), as the prover has no rule for ENABLED. Of the type invariants the runs
check `Session`'s; those of the other modules serve their proofs or their readers.

## Not modelled, and the plan

Left out for good: pin-level I/O and timing in microseconds (including the shields'
port writes and the PY32's), ADC sampling and the revision-detection bands, message
texts and the layout of log frames, USB descriptors, start-up code. The PY32's voltage
reading is 64-bit code of its own; `rurp_vpp.cpp` has no caller.

Not modelled yet: the refusal codes of the decoder and its header's checks; the Intel
status register; the chip-id and protection-status reads of the flash drivers, other
than as reports; the address latches' caches after a raw write by a developer's
command.

Done: `Dispatch`, `Session`, `CommandContract`; `EpromProgram`, `HvRail`, `DevTools`; the configuration
over both storages; `DeferredLog`, `DriverReports`; `Cobs`, `Link`; `UsbCdc`,
`BytePipe`; `PageWrite`; `CommandFrame`; `VoltageMath`; the proofs above.

Next: the Intel status register and the decoder's refusals, as their own modules.
