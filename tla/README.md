# A TLA+ model of the RP2040 SWIM probe

The repository is a debug probe for STM8 microcontrollers: firmware for an
RP2040 that speaks SWIM, the one-wire debug protocol of the STM8, and a Python
command line that drives the firmware over a USB serial port. These modules
model its behaviour, TLC checks them on small instances, and TLAPS proves the
most important results for every value of the constants.

## The system

```
host/rp2040_swim.py   command line flows (unlock, erase, flash, option bytes)
        |
host/protocol.py      Probe: one request, one response, sequence numbers
        |             USB CDC byte stream
firmware/src/main.c   command loop: read frame, handle_frame, write response
        |
  +-----+------------------+
stm8_flash.c          swim_link.c        ENTER_SWIM, SET_SPEED, ROTF, WOTF
erase, write, option       |
  +---- stm8_dm.c ---------+             memory access in chunks of 64
                           |
                      swim_phy.c         pads, timing, frames on the wire
                           |
             swim_pio_waveform.c, swim_pio_rx.c, firmware/pio/*.pio
                           |
                     SWIM and NRST, the STM8
```

The firmware is one loop on one core: it reads a frame, runs the command to its
end and answers. Concurrency comes from the other side: the target resets,
loses power, is busy with its flash, or does not answer; a transaction may have
taken effect although its answer was lost; the host may give up waiting while
the command runs; the PIO state machines and DMA run beside the C code.

## Inventory

| component | state it keeps | operations | what is hard | what makes it correct |
|---|---|---|---|---|
| main.c | `g_last_error` | one command per frame | errors of nested calls, commands that sleep | lines released and an answer sent after every command |
| swim_link.c | none (locals) | enter, set speed, read, write, stall | seven failure exits with NRST low, a lost acknowledge, power loss halfway | DONE means stalled; recovery from anything before; host and target in step |
| swim_phy.c | `g_phy` (pins, speed), `g_debug` (synced, Tswim, stage, CSR), cycle cache | pads, entry sequence, communication reset, frames, decoding | guessed or stale timing, rounding, damaged frames | frames mean what was sent; timing is the target's |
| swim_pio_waveform.c, swim_pio_rx.c, pio/ | `g_pio` (PIO, state machine, DMA, pin), loaded receive program | emit, emit and capture, arm, decode | IRQ0 handshake with the C code, DMA, program switching | receiver armed before the sender ends; no stale width or word |
| stm8_dm.c | none | memory read, memory write | failure between chunks | memory changes as a prefix of the request |
| stm8_flash.c | `g_flash_last_error` | erase range, write block, write option byte | busy controller, EOP left over, partial failure, 32 and 24 bit addresses | OK means done, nothing else touched, always returns |
| usb_protocol.c | none | read frame, write response | broken frames | a frame runs whole or not at all |
| host/protocol.py | sequence number, serial buffers | command, memory and flash helpers | late answers, dead processes, nested GET_LAST_ERROR | an answer belongs to its request |
| host/rp2040_swim.py | none | unlock, ROP, flash, option flows | reconnecting after ROP changes, polls | registers in order, verify after write |
| host/ihex.py, swim_timing.py | none | parse, image, timing helpers | overlapping records, address carry | image equals records |
| target_db.c, devices.py | constant tables | look-up | none | agreement of the two tables |

`PROJECT.json` lists the hazards line by line with the properties that watch
them.

## Modules

| module | models | proved | checked by |
|---|---|---|---|
| `SwimSession` | session commands of main.c, swim_link_enter, set_speed, session state of swim_phy.c, pads, target | `SwimSession_proofs` | `session`, two violation runs |
| `Stm8Flash` | stm8_flash.c against the flash controller | `Stm8Flash_proofs` | `flash`, two violation runs |
| `SwimLink`, `MemoryAccess` | ROTF and WOTF frame by frame with stm8_dm.c; what they promise | `SwimLink_proofs` | `link` |
| `SwimFrames` | parity, frames, low times, measured clock, decoding | `SwimFrames_proofs` | `frames`, one violation run |
| `UsbProtocol` | both ends of the USB stream | `UsbProtocol_proofs` | `usb` |
| `PioWire` | the three PIO programs, their state machines, DMA and IRQ 0, and the C code that arms, starts, polls and stops them | `PioWire_proofs` | `pio` |
| `HostFlow` | the commands of rp2040_swim.py as sequences of calls; ihex.py | `HostFlow_proofs` | `host` |

The modules stack as the code does, each taking the one below as a step.
`PioWire` shows that the engines play a frame as it was encoded and return the
answer to it and no other; `SwimFrames` takes that for one step.
`SwimFrames` shows what a frame is worth: damaged ones are refused, whole ones
understood. `SwimLink` starts from that (a frame or acknowledge is lost or
refused, never misread) and shows that a sequence of frames is a memory access.
`SwimSession` and `Stm8Flash` take one memory access that succeeds, fails, or
fails after having taken effect as a step. `UsbProtocol` takes a command as one
step of the firmware that may last longer than the host waits, and `HostFlow`
takes one call of a probe method as a step, by the contracts of the others: OK
means done unless a flash trigger was lost, an error means done, half done or
not at all.

### SwimSession

State: `cfg` is `g_phy.swim_pin`, `nrst_pin`; `pioPin` the pin the PIO engine
was initialised with; `pads` which pads PIO owns and which SIO drives low;
`speed`, `synced`, `tswim`, `stage`, `second`, `csr` the fields of `g_debug`
(`tswim` only tells whether the value was measured or assumed); `pc` and
`attempt` the position in the running command; `target` the SWIM and debug
module bits of the STM8.

One action per command that finishes at once (`SetPins`, `ReleaseTarget`,
`SetSpeedLow`, ...); a command that sleeps or talks to the target has an action
per point at which something can come between. ENTER_SWIM is `EnterSwim`
(assert NRST, entry sequence), `EnterSynced`/`EnterNoSync`,
`EnterCsrWritten`/`...Fails`, `EnterCsrRead`/`...Fails`, `EnterRelease`,
`EnterResynced`/`...Fails`, and the STALL loop (`EnterStallRead`,
`EnterStalled`, `EnterStallFails`, whose `StallFails` counts the attempts).
SET_SPEED high is `SetSpeedHigh`, `HighSpeedCsrRead`, `HighSpeedCsrWritten` (the
target is at high speed from here), then, after the 20 us of swim_link.c:311,
`HighSpeedAdopted` (the probe follows); in between the target may lose power.
Every failure goes through `EnterFails`, the `fail:` label. `PowerCycle` may
happen between any two steps.

### Stm8Flash

State: `req`, `pc`, `cur`, `polls`, `st` the running command, `result` the status
of the last one; `diag` and `text` which flash command the texts in
`g_flash_last_error` and at the end of `g_last_error` are about (`FailsElsewhere`
is an error raised outside stm8_flash.c: a request whose length main.c refuses,
or any other command); `ctl` and `op` the flash controller (mode bits,
EOP, WR_PG_DIS, PUL, DUL, the operation under way); `mem` the cells. HVOFF of an
idle controller may read 0 or 1: the code treats it as completion, the data
sheet does not settle it. `write_block` means to clear CR2 after a failed wait
but tests that the error text is empty just after setting it; the model follows
the code and leaves CR2 set. It also skips data bytes that are 0x00
(`NextByte`): where the cell was not erased before, the old contents stay.
`OkMeansDone` therefore asks for every named cell, and for erased cells under
the bytes skipped (`Skipped`).

### SwimLink and MemoryAccess

`MemoryAccess` is the abstract specification: bytes go one by one from the first
address, OK comes after the last, an error after any number, and a failed write
may have stored the byte it failed at. `SwimLink` sends command, length, AE, AH,
AL, data and acknowledges, in chunks, to a target that keeps its own position.
The refinement maps `done` to `base + i`; `Implements` is its property.
Addresses are 32 bits in C and 24 on the wire; WORD and WIRE keep that.

### SwimFrames

A frame is a function from bit positions to bits. Going out: header and parity
(`CommandFrame`, `ByteFrame`), low times in ticks (`HostLow`: `Encoded` takes off
the overhead, `Played` adds the instructions the PIO program really spends),
ticks in ns through the clock divider. Coming in: the low time counted in loops
of 16 ns (`LoopsUsed`, `DecodedBit`, with the sampling phase left open), the
threshold from the measured clock, header and parity, and the second attempt
with the bits reversed. Below 64 ns of Tswim the divider falls below 1, which
the hardware takes for 65536 (`TicksToNs`): each low of the host then lasts
milliseconds, the target takes it for a communication reset (`Resets`), and its
synchronization frame outlasts the loop counter of the width program. Times are
integers in ns and the divisions are those of
the code. The receivers that no command reaches (`swim_phy_read_bit`,
`swim_phy_read_frame_bits`, `decode_target_frame_from_widths`) are left out.

### UsbProtocol

Frames are sequences of pieces, each carrying the request it belongs to, so that
pieces of two frames read as one are told apart as magic and CRC tell them apart
in the code. The host process stops at any time (`Close`) and a new one opens
the port and clears its input. The firmware reads with its 500 ms limit per byte
(`ByteTimeout`), drops what is not a frame, runs what is, and answers. A header
mixed of a broken frame and what follows it is dropped at once or, where magic,
version and length happen to be right (`Passes`: a frame cut after five bytes
gives 339 for a length), swallows any number of pieces until its CRC is checked
or the bytes cease.

### PioWire

One action, `Cycle`, is a cycle of clk_sys: the receive machine executes one
instruction, the transmit machine one per `div` cycles, the DMA channel moves one
word if the FIFO has room, the line rises or falls, the target plays its answer.
The programs are the .pio files as sequences of instructions (`swim_waveform`,
`swim_rx_width`, `swim_rx_decode`), executed by `Stalls`, `Taken`, `Registers`,
`Following`. All other actions are steps of the CPU between two looks at the
hardware: `Arm` (with `Switched`, the program switch), `Setup`, `Start`,
`Enable`, `DmaDone`, the two halves of a polling loop (`PollEmpty`, then `InTime`
or `Expired`), `PollTakes`, `Stop`; `EmitSegments`, `CaptureResponse`,
`TickCaptureResponse` and `DecodeBits` are the four functions of
swim_pio_waveform.c made of them. The CPU comes up to LATE cycles late in an
exchange, so an answer can slip between the look at the FIFO and the look at the
clock; the word it leaves behind is there when the next exchange begins.
A released line needs a while to rise, which the receiver takes for a short pulse
of the target when the waveform ends low (the entry sequence does, and
swim_phy.c refuses widths below 8 us for it); `ResponseIsOwn` says how short.

### HostFlow

`steps` are the calls a command has still to make (`Flow`), `code` its exit code,
`offset` and `attempt` the variables of its two loops. The target is what the
calls change: `flash`, `opt` (OPT0), `prot` (the protection in force, loaded from
OPT0 by a reset), `open`, `up`, `alive`. Any call raises (`Raises`) after doing
its work, a part of it (`PartOf`) or nothing; an unlock may not take; a flash or
option write may be lost and reported OK (`faked`), which is what the run
`success_faked` finds the firmware can do; power fails for a moment or for good.
Intel HEX is a fold over records: `Record` is the parser's loop body, `Segments`,
`Outside` and `image_for_range` the rest of ihex.py. `Meant` is the reference
definition: a byte's place is given by the last base record before it.
`RefusalsExact` compares the two over files that use each kind of record and
files each wrong in one way.

## Runs

| run | states | what it shows |
|---|---|---|
| `session` | 173 509 | no command leaves a line driven; debug module only after the second sync; DONE means stalled; ENTER_SWIM recovers; SET_SPEED high leaves both ends at one speed; every command ends |
| `flash` | 120 060 | OK means done when triggers got through; only requested cells change; nothing is triggered while busy and CR2 is cleared under a running operation only by a command that gives up; errors carry the text of the right command; every command returns |
| `link` | 60 392 | host and target stay in step; OK means the bytes are there; `SwimLink` implements `MemoryAccess`; every call ends |
| `frames` | 95 010 | one damaged bit is always refused; answers are understood at every accepted clock; an acknowledge is never false, comes for every whole frame from 64 ns of Tswim up, and for none below |
| `usb` | 137 523 | answers belong to their requests; broken frames never run; nothing whole is lost; every call returns |
| `pio` | 293 798 | every low of a frame is played, to the cycle; no word of an earlier exchange is taken for an answer; an answer in time is heard; program switching never fails; every exchange ends |
| `host` | 89 157 | a file is refused or placed as the format says, before the probe is touched; success means the image is in flash, or the protection in force; every command ends |
| `timing_guessed` | violation | DEBUG_WAVEFORM leaves a guessed Tswim behind |
| `release_returns_pin` | violation | after SET_PINS the PIO engine keeps the old pin |
| `success_faked` | violation | an erase whose trigger never arrived returns OK |
| `erase_wraps` | violation | an erase in the last block of the C address space returns OK and does nothing |
| `comm_reset_short` | violation | the communication reset lasts 127 ticks |

The violation runs check one sentence of a document, comment or test each;
"findings" in `PROJECT.json` quotes it and tells the behaviour. More
disagreements show in the models and have no run:

* docs/protocol.md:39, docs/limitations.md:6 and `test_high_speed_remains_disabled`
  (tests/test_entry_waveform.py:276) say high speed is rejected. `SetSpeedHigh`
  ends at high speed on a target that sets HSIT, after which reads are refused by
  the probe; SET_SPEED low then changes the probe alone.
* ENTER_SWIM writes SWIM_CSR before the second sync where
  tests/test_entry_waveform.py:79 asserts the opposite order.
* A write whose data is 0x00 over cells that are not erased returns OK and
  changes nothing (stm8_flash.c:401): next to `success_faked` and `erase_wraps` a
  third way in which "instead of faking success" fails.
* docs/limitations.md:14-18, docs/protocol.md:54 and README.md:62 still say the
  flash and option commands refuse; they run.

### Bounds

* `session`: the two wired pins, a spare one, and one PIO cannot own: each
  relation between configured, initialised and wired pin occurs. Two faults: one
  inside a retry and one after it. Three attempts, as in the code.
* `flash`: blocks of 4 for 64, 16 cells, C addresses one bit wider than the
  wire. Requests end at a block boundary, cross one, hit protected cells, are
  truncated, overflow. Two commands, so that one inherits what the other left;
  one fault; two polls for 2000: a loop that ends by its limit and one that does
  not.
* `link`: two values of a byte for 256, so every carry between AE, AH and AL
  happens in eight cells; chunks of two, transfers of up to five, two faults.
* `frames`: all 256 bytes and 8 commands, every position of the damaged bit,
  clocks of every accepted sync, 7 to 300 us, with those next to the limits, to
  64 ns and to where rounding matters, and a refused one at either end; both
  sampling phases.
* `usb`: three sequence numbers with four requests, so that numbers repeat; two
  sessions; one command short, one longer than the host waits. TLC's deadlock
  check is off because a user need not start the program again. `AnswerIsOwn`
  is stated for sessions that found the firmware at rest, and for fewer requests
  outstanding than there are numbers: 65536 in the code.

* `pio`: segments of 9 and 10 ticks (more than the overhead of 8), at one
  instruction per 2 or 3 cycles; a FIFO of 2 words for frames of up to 5, so that
  the DMA channel has to wait; a deadline 100 cycles away with answers that end
  before, about and after it, break off early or go on for too long; both receive
  programs, in every order, so that each switch happens in both directions. The
  bounds are on cycles, not on exchanges: any number of them follow one another.
* `host`: two blocks of two bytes, digits of two bits for eight, three commands in
  a row, three reconnect attempts for 12, two faults. TLC's deadlock check is off
  because a user need not start another command.

Faults stay bounded in the model only; the properties speak of what one fault
does, and the next one finds a state the first has already reached.

### Fairness

Weak fairness of the firmware's own step (`Proceed`, `Firmware`, `Step`,
`FirmwareStep`) and of the host's (`HostStep`). The firmware is one loop without
preemption; each of its waits has a deadline (500 ms per USB byte, a timeout on
every PIO capture, a limit on every poll), but one: after starting a frame it
blocks until the DMA has filled the state machine's queue
(`swim_pio_waveform.c:324` and its siblings), and that queue is drained at the
RP2040's own clock whatever the line does (`ExchangesEnd`, where fairness is the
clock's, `Cycle`, and the polling CPU's). So it always takes a next step. The
host waits 15 s at most, and a call of the probe thus ends (`CallsReturn`), which is
what `HostFlow` assumes of its steps. Nothing is assumed of the target (its
operations may never end), of the line, or of the user.

## Proofs

`SwimSession_proofs` proves, for all pins, attempts and fault bounds, type
correctness and the five other safety properties of the session. Their
conjunction is not inductive: that a line is released depends on which commands
may hold it (`OnlyResetLow`), that DONE is right depends on what each earlier
point of ENTER_SWIM has established (`EnterProgress`), that ENTER_SWIM succeeds
depends on the target being where the command believes it (`CleanEntry`), and
that the speeds agree depends on what SET_SPEED high has reached at each point
and on timing being forgotten by the commands that slow a target down
(`HighProgress`). `IInv` is these four and `TypeOK`.
The only assumptions are `PinAssumption` and `BoundAssumption`.

`SwimFrames_proofs` proves, for all bytes and all target clocks, that a damaged
answer is refused, a whole one understood, and an acknowledge true. One half is
arithmetic: the measured clock is that of an accepted sync and within a ns of the
target's (`ClockMeasured`, the part that makes the invariant inductive), so the
threshold and the played low times separate ones from zeros (`WireKept`,
`HostWireKept`, `AckKept`), and where the divider falls below 1 every low is a
reset whose answer no counter holds (`HostWireResets`, `SyncTimesOut`). The other
half is parity: an accepted word has a fixed parity over all its bits, a damaged
bit turns it (`DamageTurnsParity`), and reversing the bits keeps it
(`ReversalKeepsWeight`). Assumptions: `LowAssumption`, which only says that a
target clock is a whole number of half ns (the range of accepted clocks is
derived from `SyncAccepted`, the code's own check), and `WordAssumption`.

`Stm8Flash_proofs` proves all five safety properties of `Stm8Flash`, for all
sizes, requests, protected cells and bounds. `BusyRespected` alone is not
inductive: what a poll has shown must outlive it, so `Quiet` says at each point
what is known of HVOFF and EOP, `Position` that the part at hand is one the
request names (for an erase, that rounding and the additions modulo 2^32 leave
every block of the loop in the request: `EndFacts`, `BlockRequested`), and
`Changes` that the operation under way belongs to the command or was found
running. `OkMeansDone` needs one more invariant, `Kept`: the trigger's operation
runs, is done, was refused or was cut, and every part before it is still in
memory (`OpKeepsBefore`); bytes that are skipped keep their erased cells
(`SkippedKept`). Assumptions: `SizeAssumption` and `RequestAssumption`,
whose bound on the data is RPSW_MAX_PAYLOAD's; without it a write longer than the
address space would overwrite its own bytes.

`SwimLink_proofs` proves, for all sizes of bytes, words and chunks, all requests
and any number of faults, that host and target stay in step, that `SwimLink`
implements `MemoryAccess`, and that OK means the bytes are there. `InStep` is not
inductive by itself: it needs to know where the host is in the chunk
(`Progress`). Two arithmetic facts carry it: three bytes make up an address
(`ThreeBytes`), and wrapping a chunk's address to 32 and then its bytes' to 24
bits is wrapping each byte's (`CellIs`). `OkMeansDone` then follows from the
abstract steps alone, because the bytes of one request have cells of their own
(`CellsApart`). Assumptions: `SizeAssumption` (the word is a multiple of the wire's
address) and `RequestAssumption` (no request is longer than the address space;
the firmware's callers stop at RPSW_MAX_PAYLOAD).

`UsbProtocol_proofs` proves every safety property of `UsbProtocol`, for all sizes
of requests and replies, any number of requests and sessions, and any range of
sequence numbers above one. What the firmware reads is one stream, the pieces in
its frame buffer followed by those on their way (`Stream`): it is in the order of
writing and holds no piece twice (`Order`), so a frame that passes the header and
CRC checks can only be one request from its first piece to its last (`TakeIs`),
later than all that were run. `Unbroken` says when a frame broken off (`cut`) can
spoil a later one: if none was, the stream is whole frames and, at its end, the
one being written (`Clean`, `Growing`); and what lies before a request that is
owed is whole frames (`OwedKept`), so neither a rejection nor the inter-byte
timeout reaches it. `AnswerIsOwn` needs that the sequence numbers of a session
count from its first request
(`InSession`): two requests of one session with the same number are a multiple
of `SEQ` apart (`SameNumber`). `MismatchOnlyIfLate` follows from `OneAtATime`: as
long as the host never gave up on a running request, what is under way is one
request, being written, run or answered. `TextIsOwn` is about the way back: what
has arrived and what the firmware still writes are whole responses, the first
perhaps begun, one after another with none of a command between left out, up to
the newest (`Chained`); and a GET_LAST_ERROR run right after a failure reports it
(`Texts`). So when the host asks for the text of an error, the response that
comes next is the one made next (`Asked`), and if it passes for the answer it
has that error's text. The text is of `outcome.reply`, the response that reported
the error; that this is the call's own request is `AnswerIsOwn`, which allows for
a sequence number that comes round again. Assumptions: `SizeAssumption` (with one
sequence number only, the first, 1, would already be out of range) and
`CommandAssumption`. `MaxRequests` and `MaxSessions` are the runs' bounds; the
theorems hold for all their values.

`HostFlow_proofs` proves all safety properties of `HostFlow`, for all devices,
files, command lines and fault bounds. The control half is `Typed`: the calls a
command has still to make are a tail of its `Flow`, so what follows a call is
known from the command alone (`Follow`). On it rests `InTime`: for each call that
may come next, `Due` says what the calls before it have achieved (the option
write took or was lost, the protection in force is OPT0's, the blocks before the
loop variable are written), and a success is due what the end of the flow is. A
call that raises ends the command, so that a promise is only ever kept by the
calls that returned. `RopOkMeansActive` and `FlashedMeansImage` follow.
`RefusalsExact` is about whole files and any number of records: `ReadSoFar` relates
the parser's state after i records to `Meant` of those i (the cells of the data
lines, the base the last base record left, a conflict or a broken record if
there was one), each kind of record keeps it, and `HexCorrect` concludes for
the whole file; that the blocks `load_ihex` builds hold just the cells read is
in it. Assumptions: `DeviceAssumption` (flash is a whole number of blocks),
`CommandAssumption`, `FileAssumption`, `BoundAssumption`.

`PioWire_proofs` proves all safety properties of `PioWire`, for all frames,
dividers, FIFO depths, answers, rises of the line, timeouts and delays of the
CPU, whatever is interleaved: that program switching never fails
(`ProgramsFit`), type correctness, that frames reach the line whole
(`WholeFrame`), that what is reported as an answer is one (`ResponseIsOwn`), and
that a whole answer in time is reported (`AnswerHeard`). `Layout` (where the
three programs lie) is inductive by itself. `WholeFrame` needs an invariant of
the whole machinery, `Engines`:

* `Served`, `Listening`, `Quiet`: what CPU and receive machine are at while
  nothing is sent, so that an exchange starts from an empty FIFO, a stopped
  transmit machine and an idle line;
* `Carrying` (`Playing`): during an exchange the words left in FIFO and DMA are
  the last of the frame (`Queued`), the registers of the transmit machine are
  what its program counter says (`Control`), and the lows on the line so far plus
  the cycles it still owes the current segment make up the frame's
  (`OnWire`, `Owes`). Its step is `TickControl` (one instruction), `Feeding` (one
  word of DMA) and `Beats` (one cycle of clk_sys);
* `Heeded`: IRQ 0, and any progress of the receive machine past it, comes after
  the last segment;
* `Timed`: the cycles left to play never exceed those until the CPU gives up, so
  a timeout cannot cut a frame.

Every number in `Owes` counts the overhead of the .pio program (8 ticks a
segment, 6 before the first), so the proof is also the reference for
SWIM_PIO_SEGMENT_OVERHEAD_TICKS. Assumptions: `EngineAssumption` (types) and
`FramesInTime`: segments longer than the overhead, as encode_segments demands,
and alternating with releases, and frames over before the deadline. Any
`FIFO` will do: once the first word is there, the queue is empty with words
still in the channel only right after a pull, because the channel moves one
word a cycle.

The answer needs, on top of `Layout` and `Engines`, what `Carrying` is for the
frame: `Tracking`, where the receive machine is in its program and in the
answer, cycle by cycle.

* Before the frame is over, `Tunes`, `Still` and `Alert`: the machine is armed
  with the program wanted and with the CPU's limit and bit count (`Primed`), and
  is at its `wait irq` before the transmit machine can raise it; so it is there
  when the line is its own, and no low of the host's is counted. `Falls`: after a
  frame that ends high the line has risen before the interrupt.
* From IRQ 0 on, `Receiving`. The answer is a tape (`Tape`): so many gaps and
  lows are over, so many cycles of the next are left. `Width` and `Decode` say for
  each address of the two programs how far the tape has got, `Loop` that x has
  counted the low under way in pairs of cycles, `Tallied` and `Past` that a
  finished low was counted right and how many cycles ago it began (three to six
  more than its length, so the gap after it, of 8 at least, is not over and the
  next falling edge is not missed). The shift register holds the bits of the lows
  read so far (`BitsOf`).
* When the word is out (`Said`), it is the answer's, or, after a frame that ends
  low, half the rise of the line at most. The whole answer has then been over
  for at most 8 cycles (`Late`) and, until the CPU looks, those it comes late.
* `Answered`: what the CPU returned is that word; a timeout was one.

This is what the eight cycles and `LATE` of `AnswerHeard` stand for: the longest
way from the end of the last low to the word in the FIFO, and the CPU's look at
the FIFO before its look at the clock. Its assumption is `AnswersInTurn`, below.

`NaturalFacts` holds facts on quotients, remainders and blocks, the least number
with a property, and two facts that stand in for induction over data: a set of
numbers that holds 0 and is closed under successor holds all of them
(`SetInduction`), and the recursive functions of the model obey their equations
(`Recursion`). The library's induction theorems take an operator as a parameter,
which none of the provers can instantiate; these take a set or a function.

Only model-checked: every liveness property (`CallsReturn`, `ExchangesEnd`,
`FlowsEnd` and their like), because fairness and ENABLED are beyond the prover,
and what the violation runs show. Every safety property of a passing run has a
theorem.

## Assumptions about what is outside

* Target: SWIM becomes active by the entry sequence under reset and is lost with
  power; a transaction it did not acknowledge may have taken effect; after a
  broken transaction it may ignore the next command. A target clock does not
  change between a sync and the next.
* Line: one damaged bit per frame in `SwimFrames`. Two can pass for another
  byte, as with any single parity bit.
* PIO: instructions take one cycle, a machine that is off keeps its registers,
  `pio_add_program` takes the highest free place, nothing else uses the PIO
  blocks (so claims succeed). The target answers only after IRQ 0, and the answer
  to a frame, late or not, is over when the next exchange begins; a frame is
  played well before the CPU gives up on its answer (`FramesInTime`: about 1.2 ms
  against 2 ms). `AnswersInTurn`: bit counts and limits fit the 32-bit registers,
  and the frames whose answer is decoded end released, as swim_phy.c:736-757
  builds them; an answer is gaps and lows in turn, with 8 cycles of clk_sys or more
  between lows (the shortest gap of a SWIM bit is 2 clocks of the target, some 30
  of clk_sys); a released line is high within 8 ticks, less than a segment,
  and, after a frame that ends low, before the target answers.
* Readout protection: in force from the reset after OPT0 was written; clearing
  OPT0 of a protected target erases its flash first.
* USB: the port loses and reorders nothing; payload bytes do not look like a
  frame header; what the firmware writes while no program has the port open is
  dropped.

## Not modelled yet, and plan

1. An abstract flash (erase, write, fail, all or part) that `Stm8Flash`
   implements.
2. `UsbProtocol`: frames the host itself makes over 1024 bytes.

Left out for good: device tables (constants), text of messages and reports,
argument parsing, serial port discovery, wiring; swim_timing.py and
entry_waveform.py (used for printing and by tests); and the code no command
reaches: the burst receivers and `frame_sm`, `swim_pio_rx_arm_now`,
`swim_pio_rx_arm_decode_bits_now`, `swim_pio_emit_tick_segments`, the
`wait_response` and `wait_sync` variants, swim_link_srst. A claim that fails and
the fallback to bit-banging the entry sequence are left out: the probe has both
PIO blocks to itself.
