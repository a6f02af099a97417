------------------------------ MODULE PioWire ------------------------------
(***************************************************************************)
(* The PIO engines, cycle by cycle: the transmit program plays the         *)
(* segments a DMA channel feeds it, its sentinel wakes a receive program   *)
(* through IRQ 0, and the CPU arms, starts, polls and stops both           *)
(* (swim_pio_waveform.c, swim_pio_rx.c, the three programs of pio/).       *)
(*                                                                         *)
(* Cycle is one cycle of clk_sys: a receive program executes one           *)
(* instruction, the transmit program one per div cycles, the DMA channel   *)
(* moves one word.  Every other action is a step of the CPU, which may     *)
(* come late.  A segment is a record of its level (1: low) and its ticks;  *)
(* an answer of the target is a sequence of gaps and lows in turn, in      *)
(* cycles, counted from IRQ 0.                                             *)
(***************************************************************************)
EXTENDS Integers, Sequences

CONSTANTS
  Exchanges,  \* what is asked of the engines and answered by the target:
              \* [kind, segs, div, bits, limit, answer]
  Rises,      \* cycles the line may need to rise, synchroniser included (external)
  FIFO,       \* depth of the joined transmit FIFO (8)
  TIMEOUT,    \* cycles the CPU waits for an answer
  LATE,       \* bound: cycles the CPU comes late, in one exchange
  REG         \* values of a scratch register (2^32)

\* The ticks of the first segments, and the low ones among them, in order.
TicksOf(segs) ==
  LET Total[i \in 0 .. Len(segs)] == IF i = 0 THEN 0 ELSE Total[i - 1] + segs[i].ticks
  IN  Total
Ticks(segs) == TicksOf(segs)[Len(segs)]

Low(s) == s.level = 1
LowsOf(segs) ==
  LET Lows[i \in 0 .. Len(segs)] ==
        IF i = 0 THEN << >>
        ELSE IF Low(segs[i]) THEN Append(Lows[i - 1], segs[i].ticks) ELSE Lows[i - 1]
  IN  Lows

Kinds == {"emit", "capture", "tick capture", "decode"}

ASSUME EngineAssumption ==
  /\ {FIFO, REG} \subseteq Nat \ {0} /\ {TIMEOUT, LATE} \subseteq Nat
  /\ Rises \subseteq Nat
  /\ \A e \in Exchanges :
       /\ e \in [kind : Kinds, segs : Seq([level : {0, 1}, ticks : Nat]),
                 div : Nat \ {0}, bits : Nat \ {0}, limit : Nat, answer : Seq(Nat)]
       /\ e.kind # "decode" => e.bits = 1

\* Segments are longer than the program's overhead and fit its counter, no two
\* lows follow each other, and a frame is over well before the CPU gives up
\* (2 ms against 1.2 ms at most for frame and answer).
ASSUME FramesInTime ==
  \A e \in Exchanges :
    /\ e.segs # << >>
    /\ \A i \in DOMAIN e.segs : e.segs[i].ticks > 8 /\ e.segs[i].ticks < REG
    /\ \A i \in 2 .. Len(e.segs) : ~(Low(e.segs[i - 1]) /\ Low(e.segs[i]))
    /\ (Ticks(e.segs) + 8) * e.div < TIMEOUT

\* The counters fit the registers (32 bits for 31 pulses and 0x7fffffff loops),
\* and every bit of a frame ends released (swim_phy.c:736-757).  An answer is
\* gaps and lows in turn, its gaps longer than the program's way from one low
\* to the next; the line rises within a segment, and before a target answers
\* (external).
ASSUME AnswersInTurn ==
  \A e \in Exchanges :
    LET last == e.segs[Len(e.segs)]
    IN  /\ e.bits < REG /\ e.limit < REG
        /\ e.kind = "decode" => ~Low(last)
        /\ Len(e.answer) % 2 = 0
        /\ \A i \in DOMAIN e.answer : e.answer[i] >= IF i % 2 = 1 THEN 8 ELSE 1
        /\ \A r \in Rises :
             /\ r <= 8 * e.div
             /\ Low(last) /\ e.answer # << >> => r + 10 <= e.answer[1]

VARIABLES
  pc,        \* the point the CPU has reached
  exchange,  \* the running or last exchange
  result,    \* its status, "NONE" while it runs
  got,       \* loops_used, or the bits
  loaded,    \* instruction memory: [prog, off]
  mode,      \* g_rx_program_mode
  offset,    \* g_rx_offset
  tx, rx,    \* the two state machines
  irq,       \* IRQ flag 0
  pad,       \* function of the SWIM pad: "pio" or "sio"
  dir,       \* pin direction 1: the transmit machine drives low
  div,       \* clock divider of the transmit machine
  phase,     \* its position
  dma,       \* words the channel has not moved
  due,       \* cycles to waveform_done
  left,      \* cycles to the deadline
  late,      \* cycles the CPU has come late
  rising,    \* cycles until the released line reads high (external)
  rise,      \* what it needs, one of Rises (external)
  answer,    \* what the target has still to send (external)
  played,    \* history: lows the host has played, in cycles
  run,       \* history: length of the low it is playing
  spare      \* history: left when the target finished its answer

report == <<exchange, result, got>>
memory == <<loaded, mode, offset>>
lines == <<irq, pad, dir, div, phase>>
feed == <<dma, due, left, late>>
wire == <<rising, rise, answer, played, run, spare>>
vars == <<pc, report, memory, tx, rx, lines, feed, wire>>

-----------------------------------------------------------------------------
(***************************************************************************)
(* The programs, instruction by instruction; addresses count from 0.       *)
(***************************************************************************)
I(name) == [op |-> name]
Jmp(cond, to) == [op |-> "jmp", cond |-> cond, to |-> to]
Arg(name, v) == [op |-> name, arg |-> v]

swim_waveform ==
  << I("pull"), I("out y, 1"), I("out x, 31"), Jmp("!x", 11), Jmp("!y", 8),
     Arg("set pindirs", 1), Jmp("x--", 6), Jmp("", 0),                 \* drive_low
     Arg("set pindirs", 0), Jmp("x--", 9), Jmp("", 0),                 \* release
     Arg("set pindirs", 0), I("irq set"), I("pull") >>                 \* done

swim_rx_width ==
  << I("pull"), I("mov y, osr"), I("pull"), I("wait irq"),
     I("mov x, osr"), Arg("wait pin", 0),                              \* next_width
     Jmp("pin", 8), Jmp("x--", 6),                                     \* width_loop
     I("mov isr, x"), I("push"), Jmp("y--", 4) >>                      \* width_done

swim_rx_decode ==
  << I("pull"), I("mov y, osr"), I("pull"), I("wait irq"), I("mov isr, null"),
     I("mov x, osr"), Arg("wait pin", 0),                              \* bit_start
     Jmp("pin", 12), Jmp("x--", 7),                                    \* low_loop
     Arg("wait pin", 1), I("in null, 1"), Jmp("", 15),                 \* bit_zero
     Arg("set x", 1), Arg("wait pin", 1), I("in x, 1"),                \* bit_one
     Jmp("y--", 5), I("push") >>                                       \* bit_done

Program == [waveform |-> swim_waveform, width |-> swim_rx_width,
            decode |-> swim_rx_decode]

\* Instruction memory has 32 places; pio_add_program takes the highest free ones.
Places(p, off) == off .. off + Len(Program[p]) - 1
Fits(l, p, off) == \A m \in l : Places(p, off) \cap Places(m.prog, m.off) = {}
Free(l, p) == {off \in 0 .. 32 - Len(Program[p]) : Fits(l, p, off)}
Highest(S) == CHOOSE o \in S : \A q \in S : q <= o
Add(l, p) == l \cup {[prog |-> p, off |-> Highest(Free(l, p))]}

-----------------------------------------------------------------------------
(***************************************************************************)
(* A state machine executes an instruction (external: the PIO hardware).   *)
(***************************************************************************)
Machine(on, at) ==
  [on |-> on, pc |-> at, x |-> 0, y |-> 0, osr |-> 0, isr |-> 0,
    in |-> << >>, out |-> << >>]

Driven == dir = 1 /\ pad = "pio"
Answering == Len(answer) % 2 = 1
Pin == IF Driven \/ Answering \/ rising > 0 THEN 0 ELSE 1

Where(s) == CHOOSE m \in loaded : s.pc \in Places(m.prog, m.off)
Fetch(s) == Program[Where(s).prog][s.pc - Where(s).off + 1]

Stalls(s, i) ==
  \/ i.op = "pull" /\ s.in = << >>
  \/ i.op = "push" /\ Len(s.out) = 4
  \/ i.op = "wait irq" /\ ~irq
  \/ i.op = "wait pin" /\ i.arg # Pin

Taken(s, cond) ==
  CASE cond = "" -> TRUE
    [] cond = "!x" -> s.x = 0
    [] cond = "!y" -> s.y = 0
    [] cond = "x--" -> s.x # 0
    [] cond = "y--" -> s.y # 0
    [] cond = "pin" -> Pin = 1

Following(s, i) ==
  LET m == Where(s)
  IN  IF i.op = "jmp" /\ Taken(s, i.cond) THEN m.off + i.to
      ELSE IF s.pc = m.off + Len(Program[m.prog]) - 1 THEN m.off
      ELSE s.pc + 1

Decremented(v) == (v + REG - 1) % REG
Registers(s, i) ==
  CASE i.op = "pull" -> [s EXCEPT !.osr = Head(s.in), !.in = Tail(s.in)]
    [] i.op = "out y, 1" -> [s EXCEPT !.y = s.osr % 2, !.osr = s.osr \div 2]
    [] i.op = "out x, 31" -> [s EXCEPT !.x = s.osr, !.osr = 0]
    [] i.op = "mov y, osr" -> [s EXCEPT !.y = s.osr]
    [] i.op = "mov x, osr" -> [s EXCEPT !.x = s.osr]
    [] i.op = "mov isr, x" -> [s EXCEPT !.isr = s.x]
    [] i.op = "mov isr, null" -> [s EXCEPT !.isr = 0]
    [] i.op = "set x" -> [s EXCEPT !.x = i.arg]
    [] i.op = "in x, 1" -> [s EXCEPT !.isr = 2 * s.isr + (s.x % 2)]
    [] i.op = "in null, 1" -> [s EXCEPT !.isr = 2 * s.isr]
    [] i.op = "push" -> [s EXCEPT !.out = Append(s.out, s.isr), !.isr = 0]
    [] i.op = "jmp" /\ i.cond = "x--" -> [s EXCEPT !.x = Decremented(s.x)]
    [] i.op = "jmp" /\ i.cond = "y--" -> [s EXCEPT !.y = Decremented(s.y)]
    [] OTHER -> s

Executes(s, op) == s.on /\ Fetch(s).op = op /\ ~Stalls(s, Fetch(s))
Stepped(s) ==
  IF ~s.on \/ Stalls(s, Fetch(s)) THEN s
  ELSE [Registers(s, Fetch(s)) EXCEPT !.pc = Following(s, Fetch(s))]

-----------------------------------------------------------------------------
Waveform == CHOOSE m \in loaded : m.prog = "waveform"

\* commands[] of encode_segments, and the sentinel.
Commands(segs) ==
  Append([i \in DOMAIN segs |-> 2 * (segs[i].ticks - 8) + segs[i].level], 0)

Statuses == {"NONE", "OK", "TIMEOUT", "INTERNAL"}
Off == [kind |-> "emit", segs |-> << >>, div |-> 1, bits |-> 1, limit |-> 1,
        answer |-> << >>]

TypeOK ==
  /\ pc \in {"off", "idle", "arm", "setup", "start", "enable", "dma", "wave",
             "poll", "expiry", "stop"}
  /\ exchange \in Exchanges \cup {Off}
  /\ result \in Statuses /\ got \in Nat
  /\ mode \in {"width", "decode"}
  /\ irq \in BOOLEAN /\ pad \in {"pio", "sio"} /\ dir \in {0, 1}
  /\ tx.in \in Seq(Nat) /\ Len(tx.in) <= FIFO /\ tx.out = << >>
  /\ Len(rx.in) <= 2 /\ Len(rx.out) <= 1
  /\ phase < div /\ left \in 0 .. TIMEOUT /\ late \in 0 .. LATE
  /\ rise \in Rises /\ rising \in 0 .. rise

Init ==
  /\ pc = "off" /\ exchange = Off /\ result = "NONE" /\ got = 0
  /\ loaded = {} /\ mode = "width" /\ offset = 0
  /\ tx = Machine(FALSE, 0) /\ rx = Machine(FALSE, 0)
  /\ irq = FALSE /\ pad = "sio" /\ dir = 0 /\ div = 1 /\ phase = 0
  /\ dma = << >> /\ due = 0 /\ left = TIMEOUT /\ late = 0
  /\ rise \in Rises /\ rising = 0 /\ answer = << >>
  /\ played = << >> /\ run = 0 /\ spare = 0

\* What try_claim_pio and then swim_pio_rx_init load.
Claimed == Add({}, "waveform")
RxOffset == Highest(Free(Claimed, "width"))

\* swim_pio_waveform_init, the first time it is called; the transmit machine is
\* left running, at its first pull.
Initialise ==
  /\ pc = "off"
  /\ loaded' = Add(Claimed, "width") /\ offset' = RxOffset
  /\ mode' = "width"
  /\ tx' = Machine(TRUE, Highest(Free({}, "waveform")))
  /\ rx' = Machine(FALSE, offset')
  /\ pad' = "pio" /\ dir' = 0
  /\ pc' = "idle"
  /\ UNCHANGED <<report, wire, irq, div, phase, feed>>

\* A function of swim_phy.c calls one of the engine's; whatever a target had
\* to send, it has sent.
Request ==
  /\ pc = "idle" /\ answer = << >> /\ rising = 0
  /\ exchange' \in Exchanges
  /\ result' = "NONE" /\ got' = 0
  /\ played' = << >> /\ run' = 0 /\ spare' = 0 /\ late' = 0
  /\ left' = TIMEOUT /\ due' = 0
  /\ pc' = IF exchange'.kind = "emit" THEN "setup" ELSE "arm"
  /\ UNCHANGED <<memory, tx, rx, lines, dma, rising, rise, answer>>

\* Between exchanges the pad may be taken for bit-banging
\* (swim_phy_sio_input, swim_phy_release).
TakePad ==
  /\ pc = "idle" /\ pad = "pio"
  /\ pad' = "sio"
  /\ UNCHANGED <<pc, report, memory, wire, tx, rx, irq, dir, div, phase, feed>>

-----------------------------------------------------------------------------
(***************************************************************************)
(* The CPU: one exchange.                                                  *)
(***************************************************************************)
Wanted == IF exchange.kind = "decode" THEN "decode" ELSE "width"

\* switch_rx_program, what it loads and where; its failure is -1.
MutSwitched ==
  IF mode = Wanted THEN [in |-> loaded, off |-> offset]
  ELSE IF Free(loaded, Wanted) = {} THEN [in |-> loaded, off |-> -1]
  ELSE [in |-> Add(loaded, Wanted), off |-> Highest(Free(loaded, Wanted))]
Switched ==
  LET rest == loaded \ {[prog |-> mode, off |-> offset]}
  IN  IF mode = Wanted THEN [in |-> loaded, off |-> offset]
      ELSE IF Free(rest, Wanted) = {} THEN [in |-> rest, off |-> -1]
      ELSE [in |-> Add(rest, Wanted), off |-> Highest(Free(rest, Wanted))]

\* What the machine is left with by clear_fifos, restart, a jump to the
\* program and two words.  The mutants forget clear_fifos, and ask for one
\* pulse too many.
MutArmedUncleared(s, off) ==
  [s EXCEPT !.on = TRUE, !.pc = off, !.in = << exchange.bits - 1, exchange.limit >>]
MutArmedCount(s, off) ==
  [s EXCEPT !.on = TRUE, !.pc = off, !.out = << >>,
            !.in = << exchange.bits, exchange.limit >>]
Armed(s, off) ==
  [s EXCEPT !.on = TRUE, !.pc = off, !.out = << >>,
            !.in = << exchange.bits - 1, exchange.limit >>]

\* swim_pio_rx_arm_after_tx_done, swim_pio_rx_arm_decode_bits_after_tx_done.
Arm ==
  /\ pc = "arm"
  /\ loaded' = Switched.in
  /\ IF Switched.off = -1
     THEN /\ pc' = "idle" /\ result' = "INTERNAL"
          /\ UNCHANGED <<mode, offset, rx, irq>>
     ELSE /\ mode' = Wanted /\ offset' = Switched.off
          /\ rx' = Armed(rx, Switched.off)
          /\ irq' = FALSE
          /\ pc' = "setup" /\ UNCHANGED result
  /\ UNCHANGED <<exchange, got, wire, tx, pad, dir, div, phase, feed>>

\* The transmit machine before a waveform.  The mutant does not restart it.
MutRestarted == [tx EXCEPT !.on = FALSE, !.in = << >>]
Restarted == [tx EXCEPT !.on = FALSE, !.in = << >>, !.pc = Waveform.off]

\* From the stop of the transmit machine to the configured channel.
Setup ==
  /\ pc = "setup"
  /\ tx' = Restarted
  /\ irq' = IF exchange.kind = "emit" THEN FALSE ELSE irq
  /\ pad' = "pio" /\ dir' = 0
  /\ div' = exchange.div /\ phase' = 0
  /\ pc' = "start"
  /\ UNCHANGED <<report, memory, wire, rx, feed>>

\* dma_channel_start; swim_pio_emit_segments takes the time here.
Start ==
  /\ pc = "start"
  /\ dma' = Commands(exchange.segs)
  /\ due' = Ticks(exchange.segs) * div
  /\ pc' = "enable"
  /\ UNCHANGED <<report, memory, wire, tx, rx, lines, left, late>>

Enable ==
  /\ pc = "enable"
  /\ tx' = [tx EXCEPT !.on = TRUE]
  /\ pc' = IF exchange.kind = "decode" THEN "poll" ELSE "dma"
  /\ UNCHANGED <<report, memory, wire, rx, lines, feed>>

\* dma_channel_wait_for_finish_blocking: before the result, or, when bits are
\* decoded, after it.
DmaDone ==
  /\ pc = "dma" /\ dma = << >>
  /\ pc' = CASE exchange.kind = "emit" -> "wave"
             [] exchange.kind = "decode" -> "stop"
             [] OTHER -> "poll"
  /\ UNCHANGED <<report, memory, wire, tx, rx, lines, feed>>

\* The loop of swim_pio_emit_segments.
EmitStatus ==
  IF irq \/ (due = 0 /\ tx.in = << >>) THEN "OK"
  ELSE IF left = 0 THEN "TIMEOUT" ELSE "NONE"

EmitEnds ==
  /\ pc = "wave" /\ EmitStatus # "NONE"
  /\ result' = EmitStatus
  /\ irq' = IF EmitStatus = "OK" THEN FALSE ELSE irq
  /\ tx' = [tx EXCEPT !.on = FALSE] /\ dir' = 0
  /\ pc' = "idle"
  /\ UNCHANGED <<exchange, got, memory, wire, rx, pad, div, phase, feed>>

AfterAnswer == IF exchange.kind = "decode" THEN "dma" ELSE "stop"

\* The loops of swim_pio_rx_get_width and swim_pio_rx_get_decoded_bits look at
\* the FIFO, then at the time.
PollEmpty ==
  /\ pc = "poll" /\ rx.out = << >>
  /\ pc' = "expiry"
  /\ UNCHANGED <<report, memory, wire, tx, rx, lines, feed>>

\* The mutant has no deadline.
MutInTime ==
  /\ pc = "expiry" /\ pc' = "poll"
  /\ UNCHANGED <<report, memory, wire, tx, rx, lines, feed>>

InTime ==
  /\ pc = "expiry" /\ left > 0
  /\ pc' = "poll"
  /\ UNCHANGED <<report, memory, wire, tx, rx, lines, feed>>

Expired ==
  /\ pc = "expiry" /\ left = 0
  /\ result' = "TIMEOUT"
  /\ rx' = [rx EXCEPT !.on = FALSE]
  /\ pc' = AfterAnswer
  /\ UNCHANGED <<exchange, got, memory, wire, tx, lines, feed>>

\* 2^n, the mask of n bits.
Two(n) ==
  LET Power[i \in 0 .. n] == IF i = 0 THEN 1 ELSE 2 * Power[i - 1]
  IN  Power[n]

\* loops_used, or the bits.  The mutant lets loops_used underflow.
MutValue(word) == exchange.limit - word
Value(word) ==
  IF exchange.kind = "decode" THEN word % Two(exchange.bits)
  ELSE IF exchange.limit >= word THEN exchange.limit - word ELSE 0

PollTakes ==
  /\ pc = "poll" /\ rx.out # << >>
  /\ result' = "OK" /\ got' = Value(Head(rx.out))
  /\ rx' = [rx EXCEPT !.on = FALSE, !.out = Tail(rx.out)]
  /\ pc' = AfterAnswer
  /\ UNCHANGED <<exchange, memory, wire, tx, lines, feed>>

\* The transmit machine stops and the line is released.
Stop ==
  /\ pc = "stop"
  /\ tx' = [tx EXCEPT !.on = FALSE] /\ dir' = 0
  /\ pc' = "idle"
  /\ UNCHANGED <<report, memory, wire, rx, irq, pad, div, phase, feed>>

-----------------------------------------------------------------------------
(***************************************************************************)
(* A cycle of the hardware.                                                *)
(***************************************************************************)
\* The CPU has something to do; it does so at most LATE cycles late.
Ready ==
  \/ pc \in {"arm", "setup", "start", "enable", "stop"}
  \/ pc = "dma" /\ dma = << >>
  \/ pc = "wave" /\ EmitStatus # "NONE"
  \/ pc = "poll" /\ rx.out # << >>
  \/ pc = "expiry" /\ (left = 0 \/ rx.out # << >>)

Moves == dma # << >> /\ Len(tx.in) < FIFO
Ticked == IF phase = 0 THEN Stepped(tx) ELSE tx
Raises == phase = 0 /\ Executes(tx, "irq set")
Less(n) == IF n > 0 THEN n - 1 ELSE 0

\* The target answers the interrupt's frame (external).
Sent ==
  IF answer = << >> THEN << >>
  ELSE IF Head(answer) = 1 THEN Tail(answer)
  ELSE [answer EXCEPT ![1] = @ - 1]

Cycle ==
  /\ pc # "off" /\ (pc = "idle" => answer # << >> \/ rising > 0)
  /\ Ready => late < LATE
  /\ late' = IF Ready THEN late + 1 ELSE late
  /\ tx' = IF Moves THEN [Ticked EXCEPT !.in = Append(@, Head(dma))] ELSE Ticked
  /\ dma' = IF Moves THEN Tail(dma) ELSE dma
  /\ rx' = Stepped(rx)
  /\ irq' = IF Executes(rx, "wait irq") THEN FALSE ELSE irq \/ Raises
  /\ dir' = IF phase = 0 /\ Executes(tx, "set pindirs") THEN Fetch(tx).arg ELSE dir
  /\ phase' = (phase + 1) % div
  /\ due' = Less(due)
  /\ left' = IF pc \in {"wave", "poll", "expiry"} THEN Less(left) ELSE left
  /\ rising' = IF Driven THEN rise ELSE Less(rising)
  /\ answer' = IF Raises THEN exchange.answer ELSE Sent
  /\ run' = IF Driven THEN run + 1 ELSE 0
  /\ played' = IF ~Driven /\ run > 0 THEN Append(played, run) ELSE played
  /\ spare' = IF answer # << >> /\ Sent = << >> THEN left ELSE spare
  /\ UNCHANGED <<pc, report, memory, pad, div, rise>>

Transmit == Setup \/ Start \/ Enable \/ DmaDone
Receive == PollEmpty \/ InTime \/ Expired \/ PollTakes

\* The functions of swim_pio_waveform.c.
EmitSegments == exchange.kind = "emit" /\ (Transmit \/ EmitEnds)
CaptureResponse ==
  exchange.kind = "capture" /\ (Arm \/ Transmit \/ Receive \/ Stop)
TickCaptureResponse ==
  exchange.kind = "tick capture" /\ (Arm \/ Transmit \/ Receive \/ Stop)
DecodeBits == exchange.kind = "decode" /\ (Arm \/ Transmit \/ Receive \/ Stop)

Cpu == EmitSegments \/ CaptureResponse \/ TickCaptureResponse \/ DecodeBits

Next == Initialise \/ Request \/ TakePad \/ Cycle \/ Cpu

\* The clock runs and the CPU polls.
Fairness == WF_vars(Cycle) /\ WF_vars(Cpu)
Spec == Init /\ [][Next]_vars /\ Fairness

-----------------------------------------------------------------------------
Over == pc = "idle" /\ result # "NONE"
EndsLow == exchange.segs # << >> /\ Low(exchange.segs[Len(exchange.segs)])
Heard == IF run > 0 THEN Append(played, run) ELSE played

\* When an exchange is over, whatever its outcome, the line has carried the
\* whole frame: every low segment in order, at its length to the cycle.  Only
\* a waveform that ends low loses ticks of its last pulse: one to the
\* sentinel, up to five when swim_pio_emit_segments leaves before it
\* (swim_pio_waveform.c:328-334).
WholeFrame ==
  Over =>
    LET want == LowsOf(exchange.segs)[Len(exchange.segs)]
    IN  /\ exchange.kind = "emit" => result = "OK"
        /\ Len(Heard) = Len(want)
        /\ \A i \in DOMAIN want :
             LET cut == IF ~EndsLow \/ i < Len(want) THEN 0
                        ELSE IF exchange.kind = "emit" THEN 5 ELSE 1
             IN  Heard[i] \in (want[i] - cut) * div .. want[i] * div

\* Lows at positions 2, 4, ... of the answer.
Measured(low) == IF low \div 2 > exchange.limit THEN 0 ELSE low \div 2
Decoded ==
  LET a == exchange.answer
      Bits[i \in 0 .. exchange.bits] ==
        IF i = 0 THEN 0
        ELSE 2 * Bits[i - 1] + IF a[2 * i] \div 2 <= exchange.limit THEN 1 ELSE 0
  IN  Bits[exchange.bits]

\* What the CPU reports as the answer is the target's answer to this frame,
\* never a word left by an earlier exchange; after a waveform that ends low it
\* may be the host's own pulse while the line rises, but then no longer than
\* that.
ResponseIsOwn ==
  Over /\ result = "OK" /\ exchange.kind # "emit" =>
    \/ /\ Len(exchange.answer) >= 2 * exchange.bits
       /\ got = IF exchange.kind = "decode" THEN Decoded
                ELSE Measured(exchange.answer[2])
    \/ EndsLow /\ 2 * got <= rise

\* An answer that is complete a few cycles before the deadline is never
\* reported as a timeout.
AnswerHeard ==
  Over /\ result = "TIMEOUT" /\ Len(exchange.answer) >= 2 * exchange.bits =>
    spare <= 8 + LATE

\* The programs in the 32 places of instruction memory never overlap, and the
\* one the receive machine is armed for is there: switching always succeeds
\* (swim_pio_rx.c:73-107).
ProgramsFit ==
  pc # "off" =>
    /\ result # "INTERNAL"
    /\ [prog |-> mode, off |-> offset] \in loaded
    /\ \A m \in loaded : Fits(loaded \ {m}, m.prog, m.off)

\* Every exchange comes to an end: the DMA wait and the polling loops do not
\* hang, whatever the target does.
ExchangesEnd == pc \in {"arm", "setup"} ~> pc = "idle"
=============================================================================
