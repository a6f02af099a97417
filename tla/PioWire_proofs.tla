--------------------------- MODULE PioWire_proofs ---------------------------
(***************************************************************************)
(* Proofs about the PIO engines: where the programs are, what the state    *)
(* machines do with them, that a frame is played whole, and that what the  *)
(* receive machine says of the target's answer is right and in time.       *)
(***************************************************************************)
EXTENDS PioWire, SequenceTheorems, NaturalFacts, TLAPS

LEMMA NumbersAre ==
  /\ FIFO \in Nat \ {0} /\ REG \in Nat \ {0} /\ TIMEOUT \in Nat /\ LATE \in Nat
  /\ Rises \subseteq Nat
BY EngineAssumption

-----------------------------------------------------------------------------
(***************************************************************************)
(* Instruction memory.                                                     *)
(***************************************************************************)
LEMMA Lengths ==
  /\ Len(Program["waveform"]) = 14 /\ Program["waveform"] = swim_waveform
  /\ Len(Program["width"]) = 11 /\ Program["width"] = swim_rx_width
  /\ Len(Program["decode"]) = 17 /\ Program["decode"] = swim_rx_decode
<1>1. Len(swim_waveform) = 14 /\ Len(swim_rx_width) = 11 /\ Len(swim_rx_decode) = 17
  BY DEF swim_waveform, swim_rx_width, swim_rx_decode
<1> QED BY <1>1 DEF Program

LEMMA HighestIs ==
  ASSUME NEW S, NEW o \in S, S \subseteq Nat, \A q \in S : q <= o
  PROVE  Highest(S) = o
<1> DEFINE h == CHOOSE m \in S : \A q \in S : q <= m
<1>1. h \in S /\ \A q \in S : q <= h
  OBVIOUS
<1> HIDE DEF h
<1>2. h = o
  <2>1. h <= o /\ o <= h /\ h \in Nat /\ o \in Nat
    BY <1>1
  <2> QED BY <2>1
<1> QED BY <1>2 DEF Highest, h

At(prog, off) == [prog |-> prog, off |-> off]

\* The transmit program is at the top; below it there is room for either of
\* the other two, but not for both.
Spot(m) == IF m = "width" THEN 7 ELSE 1

LEMMA HighestFree ==
  /\ Highest(Free({}, "waveform")) = 18
  /\ \A m \in {"width", "decode"} :
       /\ Free({At("waveform", 18)}, m) # {}
       /\ Highest(Free({At("waveform", 18)}, m)) = Spot(m)
<1>1. Free({}, "waveform") = 0 .. 18
  BY Lengths DEF Free, Fits
<1>2. Highest(Free({}, "waveform")) = 18
  BY <1>1, HighestIs
<1>3. ASSUME NEW m \in {"width", "decode"}
      PROVE  Free({At("waveform", 18)}, m) = 0 .. Spot(m)
  <2> DEFINE n == Len(Program[m])
  <2>1. n \in {11, 17}
    BY <1>3, Lengths
  <2>2. Spot(m) = 18 - n /\ Spot(m) \in Nat
    <3>1. CASE m = "width"
      BY <3>1, Lengths DEF Spot
    <3>2. CASE m = "decode"
      BY <3>2, Lengths DEF Spot
    <3> QED BY <3>1, <3>2
  <2>3. Places("waveform", 18) = 18 .. 31
    BY Lengths DEF Places
  <2>4. \A off : Places(m, off) = off .. off + n - 1
    BY DEF Places
  <2>5. Free({At("waveform", 18)}, m) =
          {off \in 0 .. 32 - n : Places(m, off) \cap Places("waveform", 18) = {}}
    BY DEF Free, Fits, At
  <2> HIDE DEF n
  <2>6. \A off \in 0 .. 32 - n :
          (off .. off + n - 1) \cap (18 .. 31) = {} <=> off <= 18 - n
    <3> TAKE off \in 0 .. 32 - n
    <3>1. CASE off <= 18 - n
      BY <2>1, <3>1
    <3>2. CASE off > 18 - n
      <4> DEFINE e == off + n - 1
      <4>1. e \in off .. off + n - 1 /\ e \in 18 .. 31
        BY <2>1, <3>2
      <4>2. (off .. off + n - 1) \cap (18 .. 31) # {}
        BY <4>1
      <4>3. ~(off <= 18 - n)
        BY <2>1, <3>2
      <4> QED BY <4>2, <4>3
    <3> QED BY <2>1, <3>1, <3>2
  <2>7. Free({At("waveform", 18)}, m) = {off \in 0 .. 32 - n : off <= 18 - n}
    BY <2>3, <2>4, <2>5, <2>6
  <2>8. \A off : off \in 0 .. 32 - n /\ off <= 18 - n <=> off \in 0 .. 18 - n
    BY <2>1
  <2> QED BY <2>2, <2>7, <2>8
<1>4. ASSUME NEW m \in {"width", "decode"}
      PROVE  /\ Free({At("waveform", 18)}, m) # {}
             /\ Highest(Free({At("waveform", 18)}, m)) = Spot(m)
  <2>1. Spot(m) \in 0 .. Spot(m) /\ 0 .. Spot(m) \subseteq Nat
    BY DEF Spot
  <2>2. \A q \in 0 .. Spot(m) : q <= Spot(m)
    BY DEF Spot
  <2> QED BY <1>3, <2>1, <2>2, HighestIs
<1> QED BY <1>2, <1>4

\* What is loaded, and where.
Layout ==
  /\ mode \in {"width", "decode"}
  /\ result # "INTERNAL"
  /\ pc = "off" => loaded = {}
  /\ pc # "off" =>
       /\ offset = Spot(mode)
       /\ loaded = {At("waveform", 18), At(mode, offset)}

LEMMA SwitchedIs ==
  ASSUME Layout, pc # "off"
  PROVE  /\ Switched.off = Spot(Wanted) /\ Wanted \in {"width", "decode"}
         /\ Switched.in = {At("waveform", 18), At(Wanted, Spot(Wanted))}
         /\ Switched.off # -1
<1>1. Wanted \in {"width", "decode"} /\ Spot(Wanted) \in {1, 7}
  BY DEF Wanted, Spot
<1>2. CASE mode = Wanted
  BY <1>1, <1>2 DEF Switched, Layout
<1>3. CASE mode # Wanted
  <2> DEFINE rest == loaded \ {At(mode, offset)}
  <2>1. rest = {At("waveform", 18)}
    BY DEF Layout, At
  <2>2. Free(rest, Wanted) # {} /\ Highest(Free(rest, Wanted)) = Spot(Wanted)
    BY <1>1, <2>1, HighestFree
  <2>3. Add(rest, Wanted) = {At("waveform", 18), At(Wanted, Spot(Wanted))}
    BY <2>1, <2>2 DEF Add, At
  <2>4. Switched = [in |-> Add(rest, Wanted), off |-> Highest(Free(rest, Wanted))]
    BY <1>3, <2>2 DEF Switched, At
  <2> QED BY <1>1, <2>2, <2>3, <2>4
<1> QED BY <1>2, <1>3

LEMMA InitLayout == Init => Layout
BY DEF Init, Layout

LEMMA NextLayout == Layout /\ [Next]_vars => Layout'
<1> SUFFICES ASSUME Layout, [Next]_vars PROVE Layout'
  OBVIOUS
<1> USE DEF report, memory, lines, feed, wire
<1>1. CASE Initialise
  <2>1. Claimed = {At("waveform", 18)}
    BY HighestFree DEF Claimed, Add, At
  <2>2. RxOffset = 7 /\ Add(Claimed, "width") = {At("waveform", 18), At("width", 7)}
    BY <2>1, HighestFree DEF RxOffset, Add, At, Spot
  <2>3. offset' = 7 /\ loaded' = {At("waveform", 18), At("width", 7)} /\ mode' = "width"
        /\ pc' = "idle" /\ result' = result
    BY <1>1, <2>2 DEF Initialise
  <2> QED BY <2>3 DEF Layout, Spot
<1>2. CASE Request
  BY <1>2 DEF Request, Layout
<1>3. CASE TakePad
  BY <1>3 DEF TakePad, Layout
<1>4. CASE Cycle
  BY <1>4 DEF Cycle, Layout
<1>5. CASE Arm
  BY <1>5, SwitchedIs DEF Arm, Layout
<1>6. CASE Setup \/ Start \/ Enable \/ DmaDone \/ PollEmpty \/ InTime \/ Stop
  BY <1>6 DEF Setup, Start, Enable, DmaDone, PollEmpty, InTime, Stop, Layout
<1>7. CASE EmitEnds \/ Expired \/ PollTakes
  <2>1. pc # "off" /\ pc' # "off" /\ result' # "INTERNAL" /\ UNCHANGED memory
    <3>1. CASE EmitEnds
      BY <3>1 DEF EmitEnds, EmitStatus
    <3>2. CASE Expired
      BY <3>2 DEF Expired, AfterAnswer
    <3>3. CASE PollTakes
      BY <3>3 DEF PollTakes, AfterAnswer
    <3> QED BY <1>7, <3>1, <3>2, <3>3
  <2> QED BY <2>1 DEF Layout
<1>8. CASE UNCHANGED vars
  BY <1>8 DEF vars, Layout
<1> QED
  BY <1>1, <1>2, <1>3, <1>4, <1>5, <1>6, <1>7, <1>8 DEF Next, Cpu, EmitSegments,
     CaptureResponse, TickCaptureResponse, DecodeBits, Transmit, Receive

LEMMA AlwaysLayout == Spec => []Layout
BY InitLayout, NextLayout, PTL DEF Spec

\* switch_rx_program always succeeds, though it removes one program before it
\* looks for room for the other; what the receive machine is armed for is in
\* instruction memory, and nothing there overlaps.
THEOREM SwitchingFits == Spec => []ProgramsFit
<1>1. Layout => ProgramsFit
  <2> SUFFICES ASSUME Layout, pc # "off" PROVE ProgramsFit
    BY DEF ProgramsFit
  <2>1. Places("waveform", 18) = 18 .. 31
    BY Lengths DEF Places
  <2>2. Places(mode, offset) = offset .. 17
    <3>1. CASE mode = "width"
      BY <3>1, Lengths DEF Places, Layout, Spot
    <3>2. CASE mode = "decode"
      BY <3>2, Lengths DEF Places, Layout, Spot
    <3> QED BY <3>1, <3>2 DEF Layout
  <2>3. Places("waveform", 18) \cap Places(mode, offset) = {}
    BY <2>1, <2>2 DEF Layout, Spot
  <2>4. loaded = {At("waveform", 18), At(mode, offset)}
        /\ At("waveform", 18).prog = "waveform" /\ At("waveform", 18).off = 18
        /\ At(mode, offset).prog = mode /\ At(mode, offset).off = offset
    BY DEF Layout, At
  <2>5. \A m \in loaded : Fits(loaded \ {m}, m.prog, m.off)
    BY <2>3, <2>4 DEF Fits
  <2> QED BY <2>4, <2>5 DEF ProgramsFit, Layout, At
<1> QED BY <1>1, AlwaysLayout, PTL

-----------------------------------------------------------------------------
(***************************************************************************)
(* The state machines, and the transmit program, instruction by            *)
(* instruction.                                                            *)
(***************************************************************************)
Machines ==
  [on : BOOLEAN, pc : Nat, x : Nat, y : Nat, osr : Nat, isr : Nat,
   in : Seq(Nat), out : Seq(Nat)]
MachineOf(on, at, x, y, osr, isr, in, out) ==
  [on |-> on, pc |-> at, x |-> x, y |-> y, osr |-> osr, isr |-> isr,
   in |-> in, out |-> out]

P(s) == s.pc - 18

LEMMA Explicit ==
  ASSUME NEW s \in Machines
  PROVE  s = MachineOf(s.on, s.pc, s.x, s.y, s.osr, s.isr, s.in, s.out)
BY DEF Machines, MachineOf

LEMMA FieldsOf ==
  ASSUME NEW on, NEW at, NEW x, NEW y, NEW osr, NEW isr, NEW in, NEW out,
         NEW s, s = MachineOf(on, at, x, y, osr, isr, in, out)
  PROVE  /\ s.on = on /\ s.pc = at /\ s.x = x /\ s.y = y /\ s.osr = osr
         /\ s.isr = isr /\ s.in = in /\ s.out = out
         /\ (/\ on \in BOOLEAN /\ at \in Nat /\ x \in Nat /\ y \in Nat /\ osr \in Nat
             /\ isr \in Nat /\ in \in Seq(Nat) /\ out \in Seq(Nat)) => s \in Machines
<1>1. /\ s.on = on /\ s.pc = at /\ s.x = x /\ s.y = y /\ s.osr = osr
      /\ s.isr = isr /\ s.in = in /\ s.out = out
  BY Zenon DEF MachineOf
<1>2. ASSUME on \in BOOLEAN, at \in Nat, x \in Nat, y \in Nat, osr \in Nat,
             isr \in Nat, in \in Seq(Nat), out \in Seq(Nat)
      PROVE  s \in Machines
  BY <1>2 DEF Machines, MachineOf
<1> QED BY <1>1, <1>2

LEMMA RegistersAre ==
  ASSUME NEW s \in Machines
  PROVE  /\ Registers(s, I("pull")) =
              MachineOf(s.on, s.pc, s.x, s.y, Head(s.in), s.isr, Tail(s.in), s.out)
         /\ Registers(s, I("out y, 1")) =
              MachineOf(s.on, s.pc, s.x, s.osr % 2, s.osr \div 2, s.isr, s.in, s.out)
         /\ Registers(s, I("out x, 31")) =
              MachineOf(s.on, s.pc, s.osr, s.y, 0, s.isr, s.in, s.out)
         /\ \A to : Registers(s, Jmp("x--", to)) =
              MachineOf(s.on, s.pc, Decremented(s.x), s.y, s.osr, s.isr, s.in, s.out)
         /\ Registers(s, I("irq set")) = s
         /\ \A v : Registers(s, Arg("set pindirs", v)) = s
         /\ \A to : \A c \in {"", "!x", "!y"} : Registers(s, Jmp(c, to)) = s
<1>1. Registers(s, I("pull")) = [s EXCEPT !.osr = Head(s.in), !.in = Tail(s.in)]
  BY DEF Registers, I
<1>2. Registers(s, I("out y, 1")) = [s EXCEPT !.y = s.osr % 2, !.osr = s.osr \div 2]
  BY DEF Registers, I
<1>3. Registers(s, I("out x, 31")) = [s EXCEPT !.x = s.osr, !.osr = 0]
  BY DEF Registers, I
<1>4. Registers(s, I("irq set")) = s
  BY DEF Registers, I
<1>5. \A v : Registers(s, Arg("set pindirs", v)) = s
  BY DEF Registers, Arg
<1>6. \A to : Registers(s, Jmp("x--", to)) = [s EXCEPT !.x = Decremented(s.x)]
  BY DEF Registers, Jmp
<1>7. \A to : \A c \in {"", "!x", "!y"} : Registers(s, Jmp(c, to)) = s
  <2> TAKE to
  <2>1. Registers(s, Jmp("", to)) = s
    BY DEF Registers, Jmp
  <2>2. Registers(s, Jmp("!x", to)) = s
    BY DEF Registers, Jmp
  <2>3. Registers(s, Jmp("!y", to)) = s
    BY DEF Registers, Jmp
  <2> QED BY <2>1, <2>2, <2>3
<1> DEFINE m == MachineOf(s.on, s.pc, s.x, s.y, s.osr, s.isr, s.in, s.out)
<1>8. s = m
  BY Explicit
<1>9. [s EXCEPT !.osr = Head(s.in), !.in = Tail(s.in)] =
        MachineOf(s.on, s.pc, s.x, s.y, Head(s.in), s.isr, Tail(s.in), s.out)
  <2> DEFINE v == Head(s.in)
             w == Tail(s.in)
  <2> HIDE DEF v, w
  <2>1. [m EXCEPT !.osr = v] = MachineOf(s.on, s.pc, s.x, s.y, v, s.isr, s.in, s.out)
    BY DEF MachineOf
  <2>2. [MachineOf(s.on, s.pc, s.x, s.y, v, s.isr, s.in, s.out) EXCEPT !.in = w]
          = MachineOf(s.on, s.pc, s.x, s.y, v, s.isr, w, s.out)
    BY DEF MachineOf
  <2>3. [s EXCEPT !.osr = v, !.in = w] = [[s EXCEPT !.osr = v] EXCEPT !.in = w]
    OBVIOUS
  <2> HIDE DEF m
  <2>4. [s EXCEPT !.osr = v, !.in = w]
          = MachineOf(s.on, s.pc, s.x, s.y, v, s.isr, w, s.out)
    BY <1>8, <2>1, <2>2, <2>3, Zenon
  <2> QED BY <2>4 DEF v, w
<1>10. [s EXCEPT !.y = s.osr % 2, !.osr = s.osr \div 2] =
        MachineOf(s.on, s.pc, s.x, s.osr % 2, s.osr \div 2, s.isr, s.in, s.out)
  <2>1. [m EXCEPT !.y = s.osr % 2] =
          MachineOf(s.on, s.pc, s.x, s.osr % 2, s.osr, s.isr, s.in, s.out)
    BY DEF MachineOf
  <2>2. [MachineOf(s.on, s.pc, s.x, s.osr % 2, s.osr, s.isr, s.in, s.out)
            EXCEPT !.osr = s.osr \div 2] =
          MachineOf(s.on, s.pc, s.x, s.osr % 2, s.osr \div 2, s.isr, s.in, s.out)
    BY DEF MachineOf
  <2>3. [s EXCEPT !.y = s.osr % 2, !.osr = s.osr \div 2] =
          [[s EXCEPT !.y = s.osr % 2] EXCEPT !.osr = s.osr \div 2]
    OBVIOUS
  <2> HIDE DEF m
  <2> QED BY <1>8, <2>1, <2>2, <2>3, Zenon
<1>11. [s EXCEPT !.x = s.osr, !.osr = 0] =
        MachineOf(s.on, s.pc, s.osr, s.y, 0, s.isr, s.in, s.out)
  <2>1. [m EXCEPT !.x = s.osr] =
          MachineOf(s.on, s.pc, s.osr, s.y, s.osr, s.isr, s.in, s.out)
    BY DEF MachineOf
  <2>2. [MachineOf(s.on, s.pc, s.osr, s.y, s.osr, s.isr, s.in, s.out) EXCEPT !.osr = 0] =
          MachineOf(s.on, s.pc, s.osr, s.y, 0, s.isr, s.in, s.out)
    BY DEF MachineOf
  <2>3. [s EXCEPT !.x = s.osr, !.osr = 0] =
          [[s EXCEPT !.x = s.osr] EXCEPT !.osr = 0]
    OBVIOUS
  <2> HIDE DEF m
  <2> QED BY <1>8, <2>1, <2>2, <2>3, Zenon
<1>12. [m EXCEPT !.x = Decremented(s.x)] =
         MachineOf(s.on, s.pc, Decremented(s.x), s.y, s.osr, s.isr, s.in, s.out)
  BY DEF MachineOf
<1> HIDE DEF m
<1>13. \A to : Registers(s, Jmp("x--", to)) = [m EXCEPT !.x = Decremented(s.x)]
  BY <1>6, <1>8, Zenon
<1> QED BY <1>1, <1>2, <1>3, <1>4, <1>5, <1>7, <1>9, <1>10, <1>11, <1>12, <1>13, Zenon

Jumped(m, f) == [m EXCEPT !.pc = f]

Executed(s, f, x, y, osr, isr, in, out) ==
  /\ s.on /\ ~Stalls(s, Fetch(s)) /\ Following(s, Fetch(s)) = f
  /\ Registers(s, Fetch(s)) = MachineOf(s.on, s.pc, x, y, osr, isr, in, out)

LEMMA SteppedIs ==
  ASSUME NEW s, NEW f, NEW x, NEW y, NEW osr, NEW isr, NEW in, NEW out,
         Executed(s, f, x, y, osr, isr, in, out)
  PROVE  Stepped(s) = MachineOf(s.on, f, x, y, osr, isr, in, out)
<1>1. /\ Stepped(s) = Jumped(Registers(s, Fetch(s)), f)
      /\ Registers(s, Fetch(s)) = MachineOf(s.on, s.pc, x, y, osr, isr, in, out)
  BY Zenon DEF Executed, Stepped, Jumped
<1> DEFINE on == s.on
           at == s.pc
<1> HIDE DEF on, at
<1>2. Jumped(MachineOf(on, at, x, y, osr, isr, in, out), f)
        = MachineOf(on, f, x, y, osr, isr, in, out)
  BY DEF Jumped, MachineOf
<1> QED BY <1>1, <1>2, Zenon DEF on, at

LEMMA TxFetch ==
  ASSUME Layout, pc # "off", NEW s, s.pc \in 18 .. 31
  PROVE  Where(s) = At("waveform", 18) /\ Fetch(s) = swim_waveform[s.pc - 17]
<1>1. Places("waveform", 18) = 18 .. 31
  BY Lengths DEF Places
<1>2. s.pc \notin Places(mode, offset)
  <2>1. CASE mode = "width"
    BY <2>1, Lengths DEF Places, Layout, Spot
  <2>2. CASE mode = "decode"
    BY <2>2, Lengths DEF Places, Layout, Spot
  <2> QED BY <2>1, <2>2 DEF Layout
<1>3. /\ At("waveform", 18) \in loaded
      /\ \A m \in loaded : s.pc \in Places(m.prog, m.off) => m = At("waveform", 18)
  BY <1>2 DEF Layout, At
<1>4. s.pc \in Places(At("waveform", 18).prog, At("waveform", 18).off)
  BY <1>1 DEF At
<1>5. Where(s) = At("waveform", 18)
  BY <1>3, <1>4 DEF Where
<1>6. Fetch(s) = swim_waveform[s.pc - 17]
  <2>1. s.pc - 18 + 1 = s.pc - 17
    OBVIOUS
  <2> QED BY <1>5, <2>1, Lengths DEF Fetch, At
<1> QED BY <1>5, <1>6

LEMMA TxProgram ==
  /\ swim_waveform[1] = I("pull") /\ swim_waveform[2] = I("out y, 1")
  /\ swim_waveform[3] = I("out x, 31") /\ swim_waveform[4] = Jmp("!x", 11)
  /\ swim_waveform[5] = Jmp("!y", 8) /\ swim_waveform[6] = Arg("set pindirs", 1)
  /\ swim_waveform[7] = Jmp("x--", 6) /\ swim_waveform[8] = Jmp("", 0)
  /\ swim_waveform[9] = Arg("set pindirs", 0) /\ swim_waveform[10] = Jmp("x--", 9)
  /\ swim_waveform[11] = Jmp("", 0) /\ swim_waveform[12] = Arg("set pindirs", 0)
  /\ swim_waveform[13] = I("irq set") /\ swim_waveform[14] = I("pull")
BY DEF swim_waveform

LEMMA Followed ==
  ASSUME Layout, pc # "off", NEW s, s.pc \in 18 .. 31
  PROVE  /\ \A n : n # "jmp" => Following(s, I(n)) = IF s.pc = 31 THEN 18 ELSE s.pc + 1
         /\ \A v : Following(s, Arg("set pindirs", v)) = IF s.pc = 31 THEN 18 ELSE s.pc + 1
         /\ \A c : \A to : Following(s, Jmp(c, to)) =
              IF Taken(s, c) THEN 18 + to ELSE IF s.pc = 31 THEN 18 ELSE s.pc + 1
<1>1. /\ Where(s) = At("waveform", 18)
      /\ At("waveform", 18).off = 18 /\ At("waveform", 18).prog = "waveform"
  BY TxFetch DEF At
<1>2. Len(Program["waveform"]) = 14
  BY Lengths
<1>3. (s.pc = 18 + 14 - 1) <=> s.pc = 31
  OBVIOUS
<1>4. \A i : Following(s, i) = IF i.op = "jmp" /\ Taken(s, i.cond) THEN 18 + i.to
                               ELSE IF s.pc = 31 THEN 18 ELSE s.pc + 1
  <2> TAKE i
  <2>1. Following(s, i) = IF i.op = "jmp" /\ Taken(s, i.cond) THEN 18 + i.to
                          ELSE IF s.pc = 18 + 14 - 1 THEN 18 ELSE s.pc + 1
    BY <1>1, <1>2, Zenon DEF Following
  <2> QED BY <1>3, <2>1, Zenon
<1>5. \A n : n # "jmp" => I(n).op # "jmp"
  BY DEF I
<1>6. \A v : Arg("set pindirs", v).op # "jmp"
  BY DEF Arg
<1>7. \A c : \A to : Jmp(c, to).op = "jmp" /\ Jmp(c, to).cond = c /\ Jmp(c, to).to = to
  BY DEF Jmp
<1>8. \A n : n # "jmp" => Following(s, I(n)) = IF s.pc = 31 THEN 18 ELSE s.pc + 1
  BY <1>4, <1>5, Zenon
<1>9. \A v : Following(s, Arg("set pindirs", v)) = IF s.pc = 31 THEN 18 ELSE s.pc + 1
  BY <1>4, <1>6, Zenon
<1>10. ASSUME NEW c, NEW to
       PROVE  Following(s, Jmp(c, to)) =
                IF Taken(s, c) THEN 18 + to ELSE IF s.pc = 31 THEN 18 ELSE s.pc + 1
  BY <1>4, <1>7
<1> QED BY <1>8, <1>9, <1>10, Zenon

\* What one instruction of the transmit program does.
Does(s, u) ==
  /\ P(s) = 0 /\ s.in = << >> => u = s
  /\ P(s) = 0 /\ s.in # << >> =>
       u = MachineOf(s.on, 19, s.x, s.y, Head(s.in), s.isr, Tail(s.in), s.out)
  /\ P(s) = 1 =>
       u = MachineOf(s.on, 20, s.x, s.osr % 2, s.osr \div 2, s.isr, s.in, s.out)
  /\ P(s) = 2 => u = MachineOf(s.on, 21, s.osr, s.y, 0, s.isr, s.in, s.out)
  /\ P(s) = 3 => u = MachineOf(s.on, IF s.x = 0 THEN 29 ELSE 22, s.x, s.y, s.osr,
                               s.isr, s.in, s.out)
  /\ P(s) = 4 => u = MachineOf(s.on, IF s.y = 0 THEN 26 ELSE 23, s.x, s.y, s.osr,
                               s.isr, s.in, s.out)
  /\ P(s) \in {6, 9} =>
       u = MachineOf(s.on, IF s.x # 0 THEN s.pc ELSE s.pc + 1, Decremented(s.x), s.y,
                     s.osr, s.isr, s.in, s.out)
  /\ P(s) \in {7, 10} => u = MachineOf(s.on, 18, s.x, s.y, s.osr, s.isr, s.in, s.out)
  /\ P(s) \in {5, 8, 11, 12} =>
       u = MachineOf(s.on, s.pc + 1, s.x, s.y, s.osr, s.isr, s.in, s.out)
  /\ P(s) = 13 => u = s

LEMMA TxInstruction ==
  ASSUME Layout, pc # "off", NEW s \in Machines, P(s) \in 0 .. 13
  PROVE  /\ s.pc \in 18 .. 31 /\ s.pc = 18 + P(s)
         /\ P(s) = 0 => Fetch(s) = I("pull")
         /\ P(s) = 1 => Fetch(s) = I("out y, 1")
         /\ P(s) = 2 => Fetch(s) = I("out x, 31")
         /\ P(s) = 3 => Fetch(s) = Jmp("!x", 11)
         /\ P(s) = 4 => Fetch(s) = Jmp("!y", 8)
         /\ P(s) = 5 => Fetch(s) = Arg("set pindirs", 1)
         /\ P(s) = 6 => Fetch(s) = Jmp("x--", 6)
         /\ P(s) = 7 => Fetch(s) = Jmp("", 0)
         /\ P(s) = 8 => Fetch(s) = Arg("set pindirs", 0)
         /\ P(s) = 9 => Fetch(s) = Jmp("x--", 9)
         /\ P(s) = 10 => Fetch(s) = Jmp("", 0)
         /\ P(s) = 11 => Fetch(s) = Arg("set pindirs", 0)
         /\ P(s) = 12 => Fetch(s) = I("irq set")
         /\ P(s) = 13 => Fetch(s) = I("pull")
<1>1. s.pc \in Nat /\ s.pc \in 18 .. 31 /\ s.pc = 18 + P(s)
  BY DEF P, Machines
<1>2. Fetch(s) = swim_waveform[s.pc - 17]
  BY <1>1, TxFetch
<1> DEFINE q == s.pc - 17
<1>3. q = P(s) + 1 /\ P(s) \in Int
  BY <1>1
<1>4. Fetch(s) = swim_waveform[q]
  BY <1>2
<1> HIDE DEF q
<1>5. \A n : q = n => Fetch(s) = swim_waveform[n]
  BY <1>4, Zenon
<1>6. /\ P(s) = 0 => q = 1
      /\ P(s) = 1 => q = 2
      /\ P(s) = 2 => q = 3
      /\ P(s) = 3 => q = 4
      /\ P(s) = 4 => q = 5
      /\ P(s) = 5 => q = 6
      /\ P(s) = 6 => q = 7
      /\ P(s) = 7 => q = 8
      /\ P(s) = 8 => q = 9
      /\ P(s) = 9 => q = 10
      /\ P(s) = 10 => q = 11
      /\ P(s) = 11 => q = 12
      /\ P(s) = 12 => q = 13
      /\ P(s) = 13 => q = 14
  BY <1>3
<1>7. /\ P(s) = 0 => Fetch(s) = swim_waveform[1]
      /\ P(s) = 1 => Fetch(s) = swim_waveform[2]
      /\ P(s) = 2 => Fetch(s) = swim_waveform[3]
      /\ P(s) = 3 => Fetch(s) = swim_waveform[4]
      /\ P(s) = 4 => Fetch(s) = swim_waveform[5]
      /\ P(s) = 5 => Fetch(s) = swim_waveform[6]
      /\ P(s) = 6 => Fetch(s) = swim_waveform[7]
      /\ P(s) = 7 => Fetch(s) = swim_waveform[8]
      /\ P(s) = 8 => Fetch(s) = swim_waveform[9]
      /\ P(s) = 9 => Fetch(s) = swim_waveform[10]
      /\ P(s) = 10 => Fetch(s) = swim_waveform[11]
      /\ P(s) = 11 => Fetch(s) = swim_waveform[12]
      /\ P(s) = 12 => Fetch(s) = swim_waveform[13]
      /\ P(s) = 13 => Fetch(s) = swim_waveform[14]
  BY <1>5, <1>6
<1>8. P(s) = 0 => Fetch(s) = I("pull")
  BY <1>7, TxProgram, Zenon
<1>9. P(s) = 1 => Fetch(s) = I("out y, 1")
  BY <1>7, TxProgram, Zenon
<1>10. P(s) = 2 => Fetch(s) = I("out x, 31")
  BY <1>7, TxProgram, Zenon
<1>11. P(s) = 3 => Fetch(s) = Jmp("!x", 11)
  BY <1>7, TxProgram, Zenon
<1>12. P(s) = 4 => Fetch(s) = Jmp("!y", 8)
  BY <1>7, TxProgram, Zenon
<1>13. P(s) = 5 => Fetch(s) = Arg("set pindirs", 1)
  BY <1>7, TxProgram, Zenon
<1>14. P(s) = 6 => Fetch(s) = Jmp("x--", 6)
  BY <1>7, TxProgram, Zenon
<1>15. P(s) = 7 => Fetch(s) = Jmp("", 0)
  BY <1>7, TxProgram, Zenon
<1>16. P(s) = 8 => Fetch(s) = Arg("set pindirs", 0)
  BY <1>7, TxProgram, Zenon
<1>17. P(s) = 9 => Fetch(s) = Jmp("x--", 9)
  BY <1>7, TxProgram, Zenon
<1>18. P(s) = 10 => Fetch(s) = Jmp("", 0)
  BY <1>7, TxProgram, Zenon
<1>19. P(s) = 11 => Fetch(s) = Arg("set pindirs", 0)
  BY <1>7, TxProgram, Zenon
<1>20. P(s) = 12 => Fetch(s) = I("irq set")
  BY <1>7, TxProgram, Zenon
<1>21. P(s) = 13 => Fetch(s) = I("pull")
  BY <1>7, TxProgram, Zenon
<1> QED BY <1>1, <1>8, <1>9, <1>10, <1>11, <1>12, <1>13, <1>14, <1>15, <1>16, <1>17, <1>18,
           <1>19, <1>20, <1>21, Zenon

LEMMA TxStep ==
  ASSUME Layout, pc # "off", NEW s \in Machines, s.on, P(s) \in 0 .. 13,
         P(s) = 13 => s.in = << >>
  PROVE  Does(s, Stepped(s))
<1> DEFINE i == Fetch(s)
           u == Stepped(s)
           f == Following(s, i)
<1>1. s.pc \in 18 .. 31 /\ s.pc = 18 + P(s) /\ P(s) \in 0 .. 13
  BY TxInstruction
<1>2. s = MachineOf(s.on, s.pc, s.x, s.y, s.osr, s.isr, s.in, s.out)
  BY Explicit
<1> HIDE DEF i, u, f
<1>4. ASSUME P(s) \in {0, 13}
      PROVE  i = I("pull") /\ (Stalls(s, i) <=> s.in = << >>)
  <2>1. i = I("pull")
    BY <1>4, TxInstruction DEF i
  <2>2. i.op = "pull"
    BY <2>1 DEF I
  <2> QED BY <2>1, <2>2, Zenon DEF Stalls
<1>5. ASSUME P(s) \in {0, 13}, s.in = << >>
      PROVE  u = s
  BY <1>4, <1>5, Zenon DEF u, i, Stepped
<1>6. ASSUME NEW n, i = I(n), n # "jmp"
      PROVE  f = IF s.pc = 31 THEN 18 ELSE s.pc + 1
  <2>1. Following(s, I(n)) = IF s.pc = 31 THEN 18 ELSE s.pc + 1
    BY <1>1, <1>6, Followed
  <2> QED BY <1>6, <2>1, Zenon DEF f
<1>7. ASSUME NEW v, i = Arg("set pindirs", v)
      PROVE  f = (IF s.pc = 31 THEN 18 ELSE s.pc + 1) /\ ~Stalls(s, i)
  <2>1. Following(s, Arg("set pindirs", v)) = IF s.pc = 31 THEN 18 ELSE s.pc + 1
    BY <1>1, Followed
  <2>2. i.op = "set pindirs"
    BY <1>7 DEF Arg
  <2>3. ~Stalls(s, i)
    BY <2>2 DEF Stalls
  <2> QED BY <1>7, <2>1, <2>3, Zenon DEF f
<1>8. ASSUME NEW c, NEW to, i = Jmp(c, to)
      PROVE  /\ f = IF Taken(s, c) THEN 18 + to ELSE IF s.pc = 31 THEN 18 ELSE s.pc + 1
             /\ ~Stalls(s, i)
  <2>1. i.op = "jmp"
    BY <1>8 DEF Jmp
  <2>2. ~Stalls(s, i)
    BY <2>1 DEF Stalls
  <2>3. Following(s, Jmp(c, to)) = IF Taken(s, c) THEN 18 + to
                                  ELSE IF s.pc = 31 THEN 18 ELSE s.pc + 1
    BY <1>1, Followed
  <2> QED BY <1>8, <2>2, <2>3, Zenon DEF f
<1>9. ASSUME P(s) = 0, s.in # << >>
      PROVE  u = MachineOf(s.on, 19, s.x, s.y, Head(s.in), s.isr, Tail(s.in), s.out)
  <2>1. i = I("pull") /\ ~Stalls(s, i) /\ s.pc = 18
    BY <1>1, <1>4, <1>9
  <2>2. f = 19
    <3>1. f = IF s.pc = 31 THEN 18 ELSE s.pc + 1
      BY <1>6, <2>1
    <3> QED BY <2>1, <3>1
  <2>3. Registers(s, i) = MachineOf(s.on, s.pc, s.x, s.y, Head(s.in), s.isr, Tail(s.in), s.out)
    BY <2>1, RegistersAre
  <2> DEFINE osr == Head(s.in)
             in == Tail(s.in)
  <2> HIDE DEF osr, in
  <2>4. Registers(s, i) = MachineOf(s.on, s.pc, s.x, s.y, osr, s.isr, in, s.out)
    BY <2>3 DEF osr, in
  <2>5. u = MachineOf(s.on, 19, s.x, s.y, osr, s.isr, in, s.out)
    <3>1. Executed(s, 19, s.x, s.y, osr, s.isr, in, s.out)
      BY <2>1, <2>2, <2>4, Zenon DEF Executed, i, f
    <3>2. Stepped(s) = MachineOf(s.on, 19, s.x, s.y, osr, s.isr, in, s.out)
      BY ONLY <3>1, SteppedIs, Zenon
    <3> QED BY <3>2, Zenon DEF u
  <2> QED BY <2>5 DEF osr, in
<1>10. ASSUME P(s) = 1
      PROVE  u = MachineOf(s.on, 20, s.x, s.osr % 2, s.osr \div 2, s.isr, s.in, s.out)
  <2>1. i = I("out y, 1") /\ s.pc = 19
    <3>1. i = I("out y, 1")
      BY <1>10, TxInstruction DEF i
    <3>2. s.pc = 19
      BY <1>1, <1>10
    <3> QED BY <3>1, <3>2
  <2>2. ~Stalls(s, i)
    <3>1. i.op = "out y, 1"
      BY <2>1 DEF I
    <3> QED BY <3>1 DEF Stalls
  <2>3. f = 20
    <3>1. f = IF s.pc = 31 THEN 18 ELSE s.pc + 1
      BY <1>6, <2>1
    <3>2. s.pc = 19
      BY <2>1
    <3> QED BY <3>1, <3>2
  <2>4. Registers(s, i) = MachineOf(s.on, s.pc, s.x, s.osr % 2, s.osr \div 2, s.isr, s.in, s.out)
    BY <2>1, RegistersAre
  <2> DEFINE y == s.osr % 2
             osr == s.osr \div 2
  <2>5. Registers(s, i) = MachineOf(s.on, s.pc, s.x, y, osr, s.isr, s.in, s.out)
    BY <2>4
  <2> HIDE DEF y, osr
  <2>6. Executed(s, 20, s.x, y, osr, s.isr, s.in, s.out)
    BY <2>2, <2>3, <2>5, Zenon DEF Executed, i, f
  <2>7. u = MachineOf(s.on, 20, s.x, y, osr, s.isr, s.in, s.out)
    <3>1. Stepped(s) = MachineOf(s.on, 20, s.x, y, osr, s.isr, s.in, s.out)
      BY ONLY <2>6, SteppedIs, Zenon
    <3> QED BY <3>1, Zenon DEF u
  <2> QED BY <2>7 DEF y, osr
<1>11. ASSUME P(s) = 2
      PROVE  u = MachineOf(s.on, 21, s.osr, s.y, 0, s.isr, s.in, s.out)
  <2>1. i = I("out x, 31") /\ s.pc = 20
    <3>1. i = I("out x, 31")
      BY <1>11, TxInstruction DEF i
    <3>2. s.pc = 20
      BY <1>1, <1>11
    <3> QED BY <3>1, <3>2
  <2>2. ~Stalls(s, i)
    <3>1. i.op = "out x, 31"
      BY <2>1 DEF I
    <3> QED BY <3>1 DEF Stalls
  <2>3. f = 21
    <3>1. f = IF s.pc = 31 THEN 18 ELSE s.pc + 1
      BY <1>6, <2>1
    <3>2. s.pc = 20
      BY <2>1
    <3> QED BY <3>1, <3>2
  <2>4. Registers(s, i) = MachineOf(s.on, s.pc, s.osr, s.y, 0, s.isr, s.in, s.out)
    BY <2>1, RegistersAre
  <2>5. Executed(s, 21, s.osr, s.y, 0, s.isr, s.in, s.out)
    BY <2>2, <2>3, <2>4, Zenon DEF Executed, i, f
  <2>6. Stepped(s) = MachineOf(s.on, 21, s.osr, s.y, 0, s.isr, s.in, s.out)
    BY ONLY <2>5, SteppedIs
  <2> QED BY <2>6, Zenon DEF u
<1>12. ASSUME Registers(s, i) = s, ~Stalls(s, i), NEW g, f = g
       PROVE  u = MachineOf(s.on, g, s.x, s.y, s.osr, s.isr, s.in, s.out)
  <2>1. Registers(s, i) = MachineOf(s.on, s.pc, s.x, s.y, s.osr, s.isr, s.in, s.out)
    BY <1>2, <1>12, Zenon
  <2>2. Executed(s, g, s.x, s.y, s.osr, s.isr, s.in, s.out)
    BY <1>12, <2>1, Zenon DEF Executed, i, f
  <2>3. Stepped(s) = MachineOf(s.on, g, s.x, s.y, s.osr, s.isr, s.in, s.out)
    BY ONLY <2>2, SteppedIs, Zenon
  <2> QED BY <2>3, Zenon DEF u
<1>13. ASSUME P(s) = 3
       PROVE  u = MachineOf(s.on, IF s.x = 0 THEN 29 ELSE 22, s.x, s.y, s.osr, s.isr, s.in, s.out)
  <2>1. i = Jmp("!x", 11) /\ s.pc = 21
    <3>1. i = Jmp("!x", 11)
      BY <1>13, TxInstruction DEF i
    <3>2. s.pc = 21
      BY <1>1, <1>13
    <3> QED BY <3>1, <3>2
  <2>2. ~Stalls(s, i) /\ f = IF s.x = 0 THEN 29 ELSE 22
    <3>1. Taken(s, "!x") <=> s.x = 0
      BY DEF Taken
    <3>2. ~Stalls(s, i) /\ f = IF Taken(s, "!x") THEN 18 + 11
                               ELSE IF s.pc = 31 THEN 18 ELSE s.pc + 1
      BY <1>8, <2>1
    <3> QED BY <2>1, <3>1, <3>2
  <2>3. Registers(s, i) = s
    BY <2>1, RegistersAre
  <2> QED BY <1>12, <2>2, <2>3, Zenon
<1>14. ASSUME P(s) = 4
       PROVE  u = MachineOf(s.on, IF s.y = 0 THEN 26 ELSE 23, s.x, s.y, s.osr, s.isr, s.in, s.out)
  <2>1. i = Jmp("!y", 8) /\ s.pc = 22
    <3>1. i = Jmp("!y", 8)
      BY <1>14, TxInstruction DEF i
    <3>2. s.pc = 22
      BY <1>1, <1>14
    <3> QED BY <3>1, <3>2
  <2>2. ~Stalls(s, i) /\ f = IF s.y = 0 THEN 26 ELSE 23
    <3>1. Taken(s, "!y") <=> s.y = 0
      BY DEF Taken
    <3>2. ~Stalls(s, i) /\ f = IF Taken(s, "!y") THEN 18 + 8
                               ELSE IF s.pc = 31 THEN 18 ELSE s.pc + 1
      BY <1>8, <2>1
    <3> QED BY <2>1, <3>1, <3>2
  <2>3. Registers(s, i) = s
    BY <2>1, RegistersAre
  <2> QED BY <1>12, <2>2, <2>3, Zenon
<1>15. ASSUME P(s) \in {6, 9}
       PROVE  u = MachineOf(s.on, IF s.x # 0 THEN s.pc ELSE s.pc + 1, Decremented(s.x),
                            s.y, s.osr, s.isr, s.in, s.out)
  <2> DEFINE to == P(s)
  <2>1. i = Jmp("x--", to) /\ s.pc = 18 + to /\ s.pc # 31
    <3>1. i = Jmp("x--", to)
      BY <1>15, TxInstruction DEF i
    <3>2. s.pc = 18 + to /\ s.pc # 31
      BY <1>1, <1>15
    <3> QED BY <3>1, <3>2
  <2> HIDE DEF to
  <2>2. ~Stalls(s, i) /\ f = IF s.x # 0 THEN s.pc ELSE s.pc + 1
    <3>1. Taken(s, "x--") <=> s.x # 0
      BY DEF Taken
    <3>2. ~Stalls(s, i) /\ f = IF Taken(s, "x--") THEN 18 + to
                               ELSE IF s.pc = 31 THEN 18 ELSE s.pc + 1
      BY <1>8, <2>1, Zenon
    <3> QED BY <2>1, <3>1, <3>2, Zenon
  <2>3. Registers(s, i) = MachineOf(s.on, s.pc, Decremented(s.x), s.y, s.osr, s.isr, s.in, s.out)
    BY <2>1, RegistersAre
  <2> DEFINE x == Decremented(s.x)
             g == IF s.x # 0 THEN s.pc ELSE s.pc + 1
  <2> HIDE DEF x, g
  <2>4. Registers(s, i) = MachineOf(s.on, s.pc, x, s.y, s.osr, s.isr, s.in, s.out) /\ f = g
    BY <2>2, <2>3 DEF x, g
  <2>5. u = MachineOf(s.on, g, x, s.y, s.osr, s.isr, s.in, s.out)
    <3>1. Executed(s, g, x, s.y, s.osr, s.isr, s.in, s.out)
      BY <2>2, <2>4, Zenon DEF Executed, i, f
    <3>2. Stepped(s) = MachineOf(s.on, g, x, s.y, s.osr, s.isr, s.in, s.out)
      BY ONLY <3>1, SteppedIs, Zenon
    <3> QED BY <3>2, Zenon DEF u
  <2> QED BY <2>5 DEF x, g
<1>16. ASSUME P(s) \in {7, 10}
       PROVE  u = MachineOf(s.on, 18, s.x, s.y, s.osr, s.isr, s.in, s.out)
  <2>1. i = Jmp("", 0)
    BY <1>16, TxInstruction DEF i
  <2>2. ~Stalls(s, i) /\ f = 18
    <3>1. Taken(s, "")
      BY DEF Taken
    <3>2. ~Stalls(s, i) /\ f = IF Taken(s, "") THEN 18 + 0
                               ELSE IF s.pc = 31 THEN 18 ELSE s.pc + 1
      BY <1>8, <2>1, Zenon
    <3>3. 18 + 0 = 18
      OBVIOUS
    <3> QED BY <3>1, <3>2, <3>3, Zenon
  <2>3. Registers(s, i) = s
    BY <2>1, RegistersAre
  <2> QED BY <1>12, <2>2, <2>3, Zenon
<1>17. ASSUME P(s) \in {5, 8, 11, 12}
       PROVE  u = MachineOf(s.on, s.pc + 1, s.x, s.y, s.osr, s.isr, s.in, s.out)
  <2>1. CASE P(s) = 12
    <3>1. i = I("irq set") /\ s.pc # 31
      <4>1. i = I("irq set")
        BY <2>1, TxInstruction DEF i
      <4>2. s.pc # 31
        BY <1>1, <2>1
      <4> QED BY <4>1, <4>2
    <3>2. ~Stalls(s, i)
      <4>1. i.op = "irq set"
        BY <3>1 DEF I
      <4> QED BY <4>1 DEF Stalls
    <3>3. Registers(s, i) = s /\ f = s.pc + 1
      BY <1>6, <3>1, RegistersAre
    <3> QED BY <1>12, <3>2, <3>3, Zenon
  <2>2. CASE P(s) # 12
    <3>1. PICK v : i = Arg("set pindirs", v)
      BY <1>17, <2>2, TxInstruction DEF i
    <3>2. s.pc # 31
      BY <1>1, <1>17
    <3>3. Registers(s, i) = s /\ f = s.pc + 1 /\ ~Stalls(s, i)
      BY <1>7, <3>1, <3>2, RegistersAre
    <3> QED BY <1>12, <3>3, Zenon
  <2> QED BY <2>1, <2>2
<1>18. P(s) = 13 => u = s
  BY <1>5
<1> QED BY <1>5, <1>9, <1>10, <1>11, <1>13, <1>14, <1>15, <1>16, <1>17, <1>18, Zenon DEF Does, u

-----------------------------------------------------------------------------
(***************************************************************************)
(* The frame: the words that ask for it, the ticks it lasts, its lows.     *)
(***************************************************************************)
N(e) == Len(e.segs)
T(e, i) == e.segs[i].ticks
Count(e, i) == IF i \in 1 .. N(e) THEN T(e, i) - 8 ELSE 0
Level(e, i) == IF i \in 1 .. N(e) THEN e.segs[i].level ELSE 0
Word(e, i) == 2 * Count(e, i) + Level(e, i)
Total(e, j) == TicksOf(e.segs)[j]

LEMMA ExchangeIs ==
  ASSUME NEW e \in Exchanges
  PROVE  /\ N(e) \in Nat \ {0} /\ e.segs \in Seq([level : {0, 1}, ticks : Nat])
         /\ e.div \in Nat \ {0}
         /\ \A i \in 1 .. N(e) :
              /\ T(e, i) \in Nat /\ T(e, i) > 8 /\ T(e, i) < REG
              /\ Count(e, i) = T(e, i) - 8
              /\ Level(e, i) = e.segs[i].level
              /\ Low(e.segs[i]) <=> Level(e, i) = 1
         /\ Count(e, N(e) + 1) = 0 /\ Level(e, 0) = 0
         /\ \A i : Count(e, i) \in Nat /\ Count(e, i) < REG /\ Level(e, i) \in {0, 1}
         /\ \A i \in 1 .. N(e) : ~(Level(e, i - 1) = 1 /\ Level(e, i) = 1)
         /\ (Total(e, N(e)) + 8) * e.div < TIMEOUT
<1>1. /\ e.segs \in Seq([level : {0, 1}, ticks : Nat]) /\ e.div \in Nat \ {0}
      /\ e.segs # << >> /\ REG \in Nat \ {0}
  BY EngineAssumption, FramesInTime
<1>2. /\ N(e) \in Nat \ {0} /\ DOMAIN e.segs = 1 .. N(e)
      /\ \A i \in 1 .. N(e) : e.segs[i] \in [level : {0, 1}, ticks : Nat]
  <2>1. Len(e.segs) \in Nat /\ DOMAIN e.segs = 1 .. Len(e.segs)
        /\ \A i \in 1 .. Len(e.segs) : e.segs[i] \in [level : {0, 1}, ticks : Nat]
    <3> DEFINE S == [level : {0, 1}, ticks : Nat]
               q == e.segs
    <3>1. q \in Seq(S)
      BY <1>1
    <3> HIDE DEF S, q
    <3>2. Len(q) \in Nat /\ DOMAIN q = 1 .. Len(q) /\ \A i \in 1 .. Len(q) : q[i] \in S
      BY <3>1
    <3> QED BY <3>2 DEF S, q
  <2>2. Len(e.segs) # 0
    BY <1>1
  <2> QED BY <2>1, <2>2 DEF N
<1>3. \A i \in 1 .. N(e) : T(e, i) \in Nat /\ T(e, i) > 8 /\ T(e, i) < REG
  BY <1>2, FramesInTime DEF T
<1>4. \A i \in 1 .. N(e) : /\ Count(e, i) = T(e, i) - 8
                           /\ Level(e, i) = e.segs[i].level
                           /\ Low(e.segs[i]) <=> Level(e, i) = 1
  BY DEF Count, Level, Low
<1>5. Count(e, N(e) + 1) = 0 /\ Level(e, 0) = 0
  BY <1>2 DEF Count, Level
<1>6. ASSUME NEW i
      PROVE  Count(e, i) \in Nat /\ Count(e, i) < REG /\ Level(e, i) \in {0, 1}
  <2>1. CASE i \in 1 .. N(e)
    <3>1. T(e, i) - 8 \in Nat /\ T(e, i) - 8 < REG
      BY <1>1, <1>3, <2>1
    <3>2. e.segs[i].level \in {0, 1}
      BY <1>2, <2>1
    <3> QED BY <1>4, <2>1, <3>1, <3>2
  <2>2. CASE i \notin 1 .. N(e)
    BY <1>1, <2>2 DEF Count, Level
  <2> QED BY <2>1, <2>2
<1>7. ASSUME NEW i \in 1 .. N(e) PROVE ~(Level(e, i - 1) = 1 /\ Level(e, i) = 1)
  <2>1. CASE i = 1
    <3>1. i - 1 = 0
      BY <2>1
    <3> QED BY <1>5, <3>1
  <2>2. CASE i # 1
    <3>1. i \in 2 .. Len(e.segs) /\ i - 1 \in 1 .. N(e)
      BY <1>2, <2>2 DEF N
    <3> QED BY <1>4, <3>1, FramesInTime
  <2> QED BY <2>1, <2>2
<1>8. (Total(e, N(e)) + 8) * e.div < TIMEOUT
  BY FramesInTime DEF Total, N, Ticks
<1> QED BY <1>1, <1>2, <1>3, <1>4, <1>5, <1>6, <1>7, <1>8

LEMMA TotalIs ==
  ASSUME NEW e \in Exchanges
  PROVE  /\ Total(e, 0) = 0
         /\ \A j \in 1 .. N(e) : Total(e, j) = Total(e, j - 1) + T(e, j)
         /\ \A j \in 0 .. N(e) : Total(e, j) \in Nat /\ Total(e, j) <= Total(e, N(e))
<1>1. N(e) \in Nat /\ \A i \in 1 .. N(e) : T(e, i) \in Nat
  BY ExchangeIs
<1> DEFINE n == N(e)
           Step == [q \in (1 .. n) \X Nat |-> q[2] + T(e, q[1])]
           Is(g) == g = [i \in 0 .. n |-> IF i = 0 THEN 0 ELSE g[i - 1] + T(e, i)]
<1>2. \E g \in [0 .. n -> Nat] : Is(g)
  <2>1. Step \in [(1 .. n) \X Nat -> Nat]
    BY <1>1
  <2> HIDE DEF Step, n
  <2>2. PICK g \in [0 .. n -> Nat] : Recurs(g, n, 0, Step)
    <3>1. n \in Nat /\ 0 \in Nat
      BY <1>1 DEF n
    <3> QED BY <2>1, <3>1, Recursion
  <2>3. \A i \in 0 .. n : i # 0 => Step[<<i, g[i - 1]>>] = g[i - 1] + T(e, i)
    <3> TAKE i \in 0 .. n
    <3> HAVE i # 0
    <3>1. i \in 1 .. n /\ i - 1 \in 0 .. n
      BY <1>1 DEF n
    <3>2. g[i - 1] \in Nat
      BY <2>2, <3>1
    <3> QED BY <3>1, <3>2 DEF Step
  <2> QED BY <2>2, <2>3 DEF Recurs
<1>3. TicksOf(e.segs) = CHOOSE g : Is(g)
  BY DEF TicksOf, N, T
<1>4. Is(TicksOf(e.segs))
  <2> HIDE DEF Is
  <2> QED BY <1>2, <1>3
<1> DEFINE t == TicksOf(e.segs)
<1>5. t = [i \in 0 .. n |-> IF i = 0 THEN 0 ELSE t[i - 1] + T(e, i)]
  BY <1>4
<1> HIDE DEF t, Is
<1>6. t[0] = 0 /\ \A j \in 1 .. n : t[j] = t[j - 1] + T(e, j)
  BY <1>1, <1>5
<1> DEFINE Up == {k \in Nat : k <= n => t[k] \in Nat}
<1>7. \A k \in 0 .. n : t[k] \in Nat
  <2>1. 0 \in Up
    BY <1>6
  <2>2. ASSUME NEW k \in Nat, k \in Up PROVE k + 1 \in Up
    <3> SUFFICES ASSUME k + 1 <= n PROVE t[k + 1] \in Nat
      OBVIOUS
    <3>1. k + 1 \in 1 .. n /\ k + 1 - 1 = k /\ k <= n
      BY <1>1
    <3> QED BY <1>1, <1>6, <2>2, <3>1
  <2>3. Nat \subseteq Up
    <3> HIDE DEF Up
    <3> QED BY <2>1, <2>2, SetInduction
  <2> QED BY <1>1, <2>3
<1> HIDE DEF Up
<1> DEFINE Down == {k \in Nat : k <= n => t[n - k] <= t[n]}
<1>8. \A k \in 0 .. n : t[k] <= t[n]
  <2>1. 0 \in Down
    <3>1. n - 0 = n /\ t[n] \in Nat
      BY <1>1, <1>7
    <3> QED BY <3>1
  <2>2. ASSUME NEW k \in Nat, k \in Down PROVE k + 1 \in Down
    <3> SUFFICES ASSUME k + 1 <= n PROVE t[n - (k + 1)] <= t[n]
      OBVIOUS
    <3> DEFINE j == n - k
    <3>1. j \in 1 .. n /\ n - (k + 1) = j - 1 /\ j - 1 \in 0 .. n /\ n \in 0 .. n
      BY <1>1
    <3>2. t[j] <= t[n]
      BY <1>1, <2>2
    <3> HIDE DEF j
    <3>3. t[j] = t[j - 1] + T(e, j) /\ T(e, j) \in Nat /\ t[j - 1] \in Nat /\ t[n] \in Nat
      BY <1>1, <1>6, <1>7, <3>1
    <3> QED BY <3>1, <3>2, <3>3
  <2>3. Nat \subseteq Down
    <3> HIDE DEF Down
    <3> QED BY <2>1, <2>2, SetInduction
  <2>4. ASSUME NEW k \in 0 .. n PROVE t[k] <= t[n]
    BY <1>1, <2>3
  <2> QED BY <2>4
<1> QED BY <1>6, <1>7, <1>8 DEF Total, t

\* The lows of the first segments, in cycles.
Lows(e, v, j) ==
  [i \in 1 .. Len(LowsOf(e.segs)[j]) |-> LowsOf(e.segs)[j][i] * v]

LEMMA LowsOfIs ==
  ASSUME NEW e \in Exchanges
  PROVE  /\ LowsOf(e.segs)[0] = << >>
         /\ \A j \in 1 .. N(e) : LowsOf(e.segs)[j] =
              IF Level(e, j) = 1 THEN Append(LowsOf(e.segs)[j - 1], T(e, j))
              ELSE LowsOf(e.segs)[j - 1]
         /\ \A j \in 0 .. N(e) : LowsOf(e.segs)[j] \in Seq(Nat)
<1>1. /\ N(e) \in Nat
      /\ \A i \in 1 .. N(e) : T(e, i) \in Nat /\ (Low(e.segs[i]) <=> Level(e, i) = 1)
  BY ExchangeIs
<1> DEFINE n == N(e)
           Step == [q \in (1 .. n) \X Seq(Nat) |->
                      IF Low(e.segs[q[1]]) THEN Append(q[2], T(e, q[1])) ELSE q[2]]
           Is(g) == g = [i \in 0 .. n |->
                           IF i = 0 THEN << >>
                           ELSE IF Low(e.segs[i]) THEN Append(g[i - 1], T(e, i))
                           ELSE g[i - 1]]
<1>2. \E g \in [0 .. n -> Seq(Nat)] : Is(g)
  <2>1. Step \in [(1 .. n) \X Seq(Nat) -> Seq(Nat)]
    <3>1. \A q \in (1 .. n) \X Seq(Nat) :
            (IF Low(e.segs[q[1]]) THEN Append(q[2], T(e, q[1])) ELSE q[2]) \in Seq(Nat)
      <4> TAKE q \in (1 .. n) \X Seq(Nat)
      <4>1. q[2] \in Seq(Nat) /\ T(e, q[1]) \in Nat
        BY <1>1
      <4>2. Append(q[2], T(e, q[1])) \in Seq(Nat)
        BY <4>1
      <4> QED BY <4>1, <4>2
    <3> QED BY <3>1
  <2> HIDE DEF Step, n
  <2>2. PICK g \in [0 .. n -> Seq(Nat)] : Recurs(g, n, << >>, Step)
    <3>1. n \in Nat /\ << >> \in Seq(Nat)
      BY <1>1 DEF n
    <3> QED BY <2>1, <3>1, Recursion
  <2>3. \A i \in 0 .. n : i # 0 =>
          Step[<<i, g[i - 1]>>] = IF Low(e.segs[i]) THEN Append(g[i - 1], T(e, i))
                                  ELSE g[i - 1]
    <3> TAKE i \in 0 .. n
    <3> HAVE i # 0
    <3>1. i \in 1 .. n /\ i - 1 \in 0 .. n
      BY <1>1 DEF n
    <3>2. g[i - 1] \in Seq(Nat)
      BY <2>2, <3>1
    <3> QED BY <3>1, <3>2 DEF Step
  <2> QED BY <2>2, <2>3 DEF Recurs
<1>3. LowsOf(e.segs) = CHOOSE g : Is(g)
  BY DEF LowsOf, N, T
<1>4. Is(LowsOf(e.segs))
  <2> HIDE DEF Is
  <2> QED BY <1>2, <1>3
<1> DEFINE t == LowsOf(e.segs)
<1>5. t = [i \in 0 .. n |-> IF i = 0 THEN << >>
                            ELSE IF Low(e.segs[i]) THEN Append(t[i - 1], T(e, i))
                            ELSE t[i - 1]]
  BY <1>4
<1> HIDE DEF t, Is
<1>6. t[0] = << >>
      /\ \A j \in 1 .. n : t[j] = IF Low(e.segs[j]) THEN Append(t[j - 1], T(e, j)) ELSE t[j - 1]
  <2> DEFINE F(i) == IF Low(e.segs[i]) THEN Append(t[i - 1], T(e, i)) ELSE t[i - 1]
  <2>1. t = [i \in 0 .. n |-> IF i = 0 THEN << >> ELSE F(i)]
    BY <1>5
  <2> HIDE DEF F
  <2>2. 0 \in 0 .. n /\ \A j \in 1 .. n : j \in 0 .. n /\ j # 0
    BY <1>1
  <2>3. t[0] = << >> /\ \A j \in 1 .. n : t[j] = F(j)
    BY <2>1, <2>2, Zenon
  <2> QED BY <2>3 DEF F
<1> DEFINE Up == {k \in Nat : k <= n => t[k] \in Seq(Nat)}
<1>7. \A k \in 0 .. n : t[k] \in Seq(Nat)
  <2>1. 0 \in Up
    <3>1. t[0] = << >> /\ << >> \in Seq(Nat)
      BY <1>6
    <3>2. t[0] \in Seq(Nat) /\ 0 \in Nat
      BY <3>1, Zenon
    <3> QED BY <3>2
  <2>2. ASSUME NEW k \in Nat, k \in Up PROVE k + 1 \in Up
    <3> SUFFICES ASSUME k + 1 <= n PROVE t[k + 1] \in Seq(Nat)
      OBVIOUS
    <3>1. k + 1 \in 1 .. n /\ k + 1 - 1 = k /\ k <= n
      BY <1>1
    <3>2. t[k] \in Seq(Nat) /\ T(e, k + 1) \in Nat
      BY <1>1, <2>2, <3>1
    <3>3. t[k + 1] = IF Low(e.segs[k + 1]) THEN Append(t[k], T(e, k + 1)) ELSE t[k]
      BY <1>6, <3>1
    <3>4. Append(t[k], T(e, k + 1)) \in Seq(Nat)
      BY <3>2
    <3> QED BY <3>2, <3>3, <3>4
  <2>3. Nat \subseteq Up
    <3> HIDE DEF Up
    <3> QED BY <2>1, <2>2, SetInduction
  <2> QED BY <1>1, <2>3
<1> QED BY <1>1, <1>6, <1>7 DEF t

\* Each low of the frame is a low on the wire.
LEMMA LowsAre ==
  ASSUME NEW e \in Exchanges, NEW v \in Nat
  PROVE  /\ Lows(e, v, 0) = << >>
         /\ \A j \in 1 .. N(e) :
              /\ Level(e, j) = 1 => Lows(e, v, j) = Append(Lows(e, v, j - 1), T(e, j) * v)
              /\ Level(e, j) # 1 => Lows(e, v, j) = Lows(e, v, j - 1)
         /\ \A j \in 0 .. N(e) :
              /\ Lows(e, v, j) \in Seq(Nat)
              /\ Len(Lows(e, v, j)) = Len(LowsOf(e.segs)[j])
              /\ \A i \in 1 .. Len(LowsOf(e.segs)[j]) :
                   Lows(e, v, j)[i] = LowsOf(e.segs)[j][i] * v
<1> DEFINE t(j) == LowsOf(e.segs)[j]
<1>1. /\ N(e) \in Nat
      /\ \A i \in 1 .. N(e) : T(e, i) \in Nat
  BY ExchangeIs
<1>2. t(0) = << >> /\ \A j \in 0 .. N(e) : t(j) \in Seq(Nat)
  BY LowsOfIs
<1>3. \A j \in 1 .. N(e) :
        t(j) = IF Level(e, j) = 1 THEN Append(t(j - 1), T(e, j)) ELSE t(j - 1)
  BY LowsOfIs
<1>4. \A j : Lows(e, v, j) = [i \in 1 .. Len(t(j)) |-> t(j)[i] * v]
  BY DEF Lows
<1> HIDE DEF t
<1>5. ASSUME NEW j \in 0 .. N(e)
      PROVE  /\ Lows(e, v, j) \in Seq(Nat) /\ Len(Lows(e, v, j)) = Len(t(j))
             /\ \A i \in 1 .. Len(t(j)) : Lows(e, v, j)[i] = t(j)[i] * v
  <2> DEFINE q == t(j)
  <2>1. q \in Seq(Nat)
    BY <1>2
  <2>2. Lows(e, v, j) = [i \in 1 .. Len(q) |-> q[i] * v]
    BY <1>4
  <2> HIDE DEF q
  <2>3. Len(q) \in Nat /\ \A i \in 1 .. Len(q) : q[i] * v \in Nat
    BY <2>1
  <2>4. [i \in 1 .. Len(q) |-> q[i] * v] \in Seq(Nat)
    BY <2>3
  <2>5. Len([i \in 1 .. Len(q) |-> q[i] * v]) = Len(q)
    BY <2>3
  <2> QED BY <2>2, <2>3, <2>4, <2>5 DEF q
<1>6. ASSUME NEW j \in 1 .. N(e), Level(e, j) = 1
      PROVE  Lows(e, v, j) = Append(Lows(e, v, j - 1), T(e, j) * v)
  <2> DEFINE q == t(j - 1)
             m == T(e, j)
  <2>1. j - 1 \in 0 .. N(e) /\ j \in 0 .. N(e)
    BY <1>1
  <2>2. q \in Seq(Nat) /\ m \in Nat /\ t(j) = Append(q, m)
    BY <1>1, <1>2, <1>3, <1>6, <2>1
  <2> HIDE DEF q, m
  <2>3. Len(q) \in Nat /\ Len(t(j)) = Len(q) + 1
        /\ \A i \in 1 .. Len(q) + 1 : t(j)[i] = IF i <= Len(q) THEN q[i] ELSE m
    BY <2>2
  <2> DEFINE a == Lows(e, v, j - 1)
             b == Lows(e, v, j)
  <2>4. /\ a \in Seq(Nat) /\ Len(a) = Len(q) /\ \A i \in 1 .. Len(q) : a[i] = q[i] * v
        /\ b \in Seq(Nat) /\ Len(b) = Len(t(j)) /\ \A i \in 1 .. Len(t(j)) : b[i] = t(j)[i] * v
    BY <1>5, <2>1 DEF q
  <2> HIDE DEF a, b
  <2>5. m * v \in Nat
    BY <2>2
  <2>6. Append(a, m * v) \in Seq(Nat) /\ Len(Append(a, m * v)) = Len(q) + 1
        /\ \A i \in 1 .. Len(q) + 1 : Append(a, m * v)[i] = IF i <= Len(q) THEN a[i] ELSE m * v
    BY <2>4, <2>5
  <2>7. \A i \in 1 .. Len(q) + 1 : b[i] = Append(a, m * v)[i]
    <3> TAKE i \in 1 .. Len(q) + 1
    <3>1. CASE i <= Len(q)
      <4>1. i \in 1 .. Len(q)
        BY <2>3, <3>1
      <4>2. t(j)[i] = q[i] /\ a[i] = q[i] * v /\ b[i] = t(j)[i] * v
        BY <2>3, <2>4, <3>1, <4>1
      <4> QED BY <2>6, <3>1, <4>2
    <3>2. CASE ~(i <= Len(q))
      <4>1. t(j)[i] = m /\ b[i] = t(j)[i] * v
        BY <2>3, <2>4, <3>2
      <4> QED BY <2>6, <3>2, <4>1
    <3> QED BY <3>1, <3>2
  <2>8. b = Append(a, m * v)
    BY <2>3, <2>4, <2>6, <2>7, SeqEqual
  <2> QED BY <2>8 DEF a, b, m
<1>7. ASSUME NEW j \in 1 .. N(e), Level(e, j) # 1
      PROVE  Lows(e, v, j) = Lows(e, v, j - 1)
  BY <1>3, <1>4, <1>7
<1>8. Lows(e, v, 0) = << >>
  BY <1>1, <1>2, <1>5
<1> QED BY <1>5, <1>6, <1>7, <1>8 DEF t

\* The cycles of the segments after j.
Togo(e, v, j) == (Total(e, N(e)) - Total(e, j)) * v

LEMMA TogoIs ==
  ASSUME NEW e \in Exchanges, NEW v \in Nat
  PROVE  /\ \A j \in 1 .. N(e) : Togo(e, v, j - 1) = Togo(e, v, j) + T(e, j) * v
         /\ \A j \in 0 .. N(e) : Togo(e, v, j) \in Nat
         /\ Togo(e, v, 0) = Total(e, N(e)) * v /\ Togo(e, v, N(e)) = 0
<1>1. N(e) \in Nat /\ \A j \in 1 .. N(e) : T(e, j) \in Nat
  BY ExchangeIs
<1> DEFINE n == Total(e, N(e))
<1>2. n \in Nat /\ Total(e, 0) = 0
  BY <1>1, TotalIs
<1>3. ASSUME NEW j \in 0 .. N(e) PROVE Togo(e, v, j) \in Nat
  <2> DEFINE t == Total(e, j)
  <2>1. t \in Nat /\ t <= n
    BY TotalIs
  <2> HIDE DEF t, n
  <2>2. n - t \in Nat
    BY <1>2, <2>1
  <2>3. (n - t) * v \in Nat
    BY <2>2
  <2> QED BY <2>3 DEF Togo, t, n
<1>4. ASSUME NEW j \in 1 .. N(e)
      PROVE  Togo(e, v, j - 1) = Togo(e, v, j) + T(e, j) * v
  <2> DEFINE a == Total(e, j - 1)
             b == Total(e, j)
             t == T(e, j)
  <2>1. a \in Nat /\ b = a + t /\ t \in Nat
    <3>1. j - 1 \in 0 .. N(e)
      BY <1>1
    <3> QED BY <1>1, <3>1, TotalIs
  <2> HIDE DEF a, b, t, n
  <2>2. (n - a) * v = (n - b) * v + t * v
    BY <1>2, <2>1
  <2> QED BY <2>2 DEF Togo, a, b, t, n
<1>5. Togo(e, v, 0) = n * v /\ Togo(e, v, N(e)) = 0
  <2> HIDE DEF n
  <2>1. (n - 0) * v = n * v /\ (n - n) * v = 0
    BY <1>2
  <2>2. Togo(e, v, 0) = (n - 0) * v /\ Togo(e, v, N(e)) = (n - n) * v
    BY <1>2 DEF Togo, n
  <2> QED BY <2>1, <2>2
<1> QED BY <1>3, <1>4, <1>5

LEMMA CommandsAre ==
  ASSUME NEW e \in Exchanges
  PROVE  /\ Commands(e.segs) \in Seq(Nat) /\ Len(Commands(e.segs)) = N(e) + 1
         /\ \A i \in 1 .. N(e) + 1 : Commands(e.segs)[i] = Word(e, i)
<1>1. /\ N(e) \in Nat /\ e.segs \in Seq([level : {0, 1}, ticks : Nat])
      /\ \A i : Count(e, i) \in Nat /\ Level(e, i) \in {0, 1}
      /\ Count(e, N(e) + 1) = 0
  BY ExchangeIs
<1>2. DOMAIN e.segs = 1 .. N(e)
  <2> DEFINE S == [level : {0, 1}, ticks : Nat]
  <2> HIDE DEF S
  <2>1. e.segs \in Seq(S)
    BY <1>1 DEF S
  <2> QED BY <2>1 DEF N
<1>3. \A i \in 1 .. N(e) :
        2 * (e.segs[i].ticks - 8) + e.segs[i].level = Word(e, i)
  BY DEF Word, Count, Level, T
<1>4. \A i : Word(e, i) \in Nat
  BY <1>1 DEF Word
<1> DEFINE w == [i \in 1 .. N(e) |-> Word(e, i)]
<1>5. Commands(e.segs) = Append(w, 0)
  BY <1>2, <1>3 DEF Commands
<1>6. w \in Seq(Nat) /\ Len(w) = N(e) /\ \A i \in 1 .. N(e) : w[i] = Word(e, i)
  BY <1>1, <1>4
<1>7. Word(e, N(e) + 1) = 0
  BY <1>1 DEF Word, Level
<1> HIDE DEF w
<1>8. Append(w, 0) \in Seq(Nat) /\ Len(Append(w, 0)) = N(e) + 1
      /\ \A i \in 1 .. N(e) + 1 : Append(w, 0)[i] = IF i <= N(e) THEN w[i] ELSE 0
  BY <1>1, <1>6
<1> QED BY <1>1, <1>5, <1>6, <1>7, <1>8

-----------------------------------------------------------------------------
(***************************************************************************)
(* The transmit machine.                                                   *)
(***************************************************************************)
\* Where it is in the program, when it has pulled k words.
Control(e, s, k) ==
  /\ P(s) \in 0 .. 13
  /\ k \in 0 .. N(e) + 1
  /\ P(s) = 0 => k <= N(e)
  /\ P(s) \in {1, 2, 3} => k >= 1
  /\ P(s) \in 4 .. 10 => k \in 1 .. N(e)
  /\ P(s) >= 11 => k = N(e) + 1
  /\ P(s) = 1 => s.osr = Word(e, k)
  /\ P(s) = 2 => s.osr = Count(e, k) /\ s.y = Level(e, k)
  /\ P(s) \in {3, 4} => s.x = Count(e, k) /\ s.y = Level(e, k)
  /\ P(s) \in {5, 6, 7} => Level(e, k) = 1
  /\ P(s) \in {8, 9, 10} => Level(e, k) = 0
  /\ P(s) \in {5, 8} => s.x = Count(e, k)
  /\ P(s) \in {6, 9} => s.x <= Count(e, k)

\* It reads the program counter and three registers only.
SameControl(s, u) == P(u) = P(s) /\ u.x = s.x /\ u.y = s.y /\ u.osr = s.osr
ControlAt(e, k, p, x, y, o) ==
  /\ p \in 0 .. 13
  /\ k \in 0 .. N(e) + 1
  /\ p = 0 => k <= N(e)
  /\ p \in {1, 2, 3} => k >= 1
  /\ p \in 4 .. 10 => k \in 1 .. N(e)
  /\ p >= 11 => k = N(e) + 1
  /\ p = 1 => o = Word(e, k)
  /\ p = 2 => o = Count(e, k) /\ y = Level(e, k)
  /\ p \in {3, 4} => x = Count(e, k) /\ y = Level(e, k)
  /\ p \in {5, 6, 7} => Level(e, k) = 1
  /\ p \in {8, 9, 10} => Level(e, k) = 0
  /\ p \in {5, 8} => x = Count(e, k)
  /\ p \in {6, 9} => x <= Count(e, k)

LEMMA ControlIs ==
  ASSUME NEW e, NEW k, NEW s
  PROVE  Control(e, s, k) <=> ControlAt(e, k, P(s), s.x, s.y, s.osr)
BY ONLY Zenon DEF Control, ControlAt

LEMMA ControlSame ==
  ASSUME NEW e, NEW k, NEW s, NEW u, Control(e, s, k), SameControl(s, u)
  PROVE  Control(e, u, k)
<1>1. ControlAt(e, k, P(s), s.x, s.y, s.osr)
  BY ControlIs
<1>2. P(u) = P(s) /\ u.x = s.x /\ u.y = s.y /\ u.osr = s.osr
  BY Zenon DEF SameControl
<1>3. ControlAt(e, k, P(u), u.x, u.y, u.osr)
  BY <1>1, <1>2, Zenon
<1> QED BY <1>3, ControlIs

\* The segment on the line, and the ticks it has still to last.
J(s, k) == IF P(s) \in {0, 6, 7, 9, 10} THEN k ELSE k - 1
D(s) ==
  IF P(s) <= 4 THEN 6 - P(s)
  ELSE IF P(s) \in {5, 8} THEN 1
  ELSE IF P(s) \in {6, 9} THEN s.x + 8
  ELSE IF P(s) \in {7, 10} THEN 7
  ELSE 13 - P(s)

Waits(s) == P(s) = 0 /\ s.in = << >>

\* What an instruction achieves: the machine stays where the words that it has
\* pulled put it, and the segment on the line is a tick shorter or the next.
Progress(e, s, k, u, m) ==
  /\ u \in Machines /\ u.on /\ u.out = s.out
  /\ u.in = IF P(s) = 0 /\ s.in # << >> THEN Tail(s.in) ELSE s.in
  /\ Control(e, u, m)
  /\ Waits(s) \/ P(s) = 13 => u = s
  /\ P(s) \in {5, 8} =>
       /\ J(u, m) = J(s, k) + 1 /\ J(u, m) \in 1 .. N(e)
       /\ D(s) = 1 /\ D(u) = T(e, J(u, m))
       /\ Level(e, J(u, m)) = IF P(s) = 5 THEN 1 ELSE 0
  /\ P(s) \notin {5, 8, 13} /\ ~Waits(s) =>
       J(u, m) = J(s, k) /\ D(u) = D(s) - 1
  /\ P(u) >= 12 <=> P(s) >= 11

\* An instruction that touches neither FIFO.
Made(s, u, at, x, y, osr) ==
  /\ s \in Machines /\ s.on /\ at \in Nat /\ x \in Nat /\ y \in Nat /\ osr \in Nat
  /\ u = MachineOf(s.on, at, x, y, osr, s.isr, s.in, s.out)
Became(s, u, at, x, y, osr) ==
  /\ u \in Machines /\ u.on /\ u.out = s.out /\ u.in = s.in
  /\ P(u) = at - 18 /\ u.x = x /\ u.y = y /\ u.osr = osr

LEMMA Becomes ==
  ASSUME NEW s, NEW u, NEW at, NEW x, NEW y, NEW osr, Made(s, u, at, x, y, osr)
  PROVE  Became(s, u, at, x, y, osr)
<1>1. /\ s \in Machines /\ s.on /\ at \in Nat /\ x \in Nat /\ y \in Nat /\ osr \in Nat
      /\ u = MachineOf(s.on, at, x, y, osr, s.isr, s.in, s.out)
  BY Zenon DEF Made
<1>2. /\ u.on = s.on /\ u.pc = at /\ u.x = x /\ u.y = y /\ u.osr = osr
      /\ u.isr = s.isr /\ u.in = s.in /\ u.out = s.out
  BY <1>1, Zenon DEF MachineOf
<1>3. u \in Machines
  BY <1>1 DEF Machines, MachineOf
<1>4. P(u) = at - 18
  BY <1>2, Zenon DEF P
<1> QED BY <1>1, <1>2, <1>3, <1>4, Zenon DEF Became

LEMMA TickControl ==
  ASSUME NEW e \in Exchanges, NEW s \in Machines, NEW u, NEW k, NEW m,
         s.on, Control(e, s, k), Does(s, u),
         P(s) = 0 /\ s.in # << >> => Head(s.in) = Word(e, k + 1),
         P(s) = 13 => s.in = << >>,
         m = IF P(s) = 0 /\ s.in # << >> THEN k + 1 ELSE k
  PROVE  Progress(e, s, k, u, m)
<1> SUFFICES
      /\ u \in Machines /\ u.on /\ u.out = s.out
      /\ u.in = IF P(s) = 0 /\ s.in # << >> THEN Tail(s.in) ELSE s.in
      /\ Control(e, u, m)
      /\ Waits(s) \/ P(s) = 13 => u = s
      /\ P(s) \in {5, 8} =>
           /\ J(u, m) = J(s, k) + 1 /\ J(u, m) \in 1 .. N(e)
           /\ D(s) = 1 /\ D(u) = T(e, J(u, m))
           /\ Level(e, J(u, m)) = IF P(s) = 5 THEN 1 ELSE 0
      /\ P(s) \notin {5, 8, 13} /\ ~Waits(s) =>
           J(u, m) = J(s, k) /\ D(u) = D(s) - 1
      /\ P(u) >= 12 <=> P(s) >= 11
  BY Zenon DEF Progress
<1>1. /\ N(e) \in Nat \ {0} /\ Count(e, N(e) + 1) = 0
      /\ \A i : Count(e, i) \in Nat /\ Count(e, i) < REG /\ Level(e, i) \in {0, 1}
      /\ \A i \in 1 .. N(e) : Count(e, i) = T(e, i) - 8 /\ T(e, i) > 8 /\ T(e, i) \in Nat
  BY ExchangeIs
<1>2. /\ s.on \in BOOLEAN /\ s.pc \in Nat /\ s.x \in Nat /\ s.y \in Nat /\ s.osr \in Nat
      /\ s.isr \in Nat /\ s.in \in Seq(Nat) /\ s.out \in Seq(Nat)
  BY DEF Machines
<1>3. P(s) \in 0 .. 13 /\ k \in 0 .. N(e) + 1 /\ s.pc = P(s) + 18
  BY <1>2 DEF Control, P
<1>5. CASE Waits(s) \/ P(s) = 13
  BY <1>5 DEF Does, Waits
<1>6. CASE P(s) = 0 /\ s.in # << >>
  <2> DEFINE osr == Head(s.in)
             in == Tail(s.in)
  <2>1. u = MachineOf(s.on, 19, s.x, s.y, osr, s.isr, in, s.out)
    BY <1>6 DEF Does
  <2>2. osr \in Nat /\ in \in Seq(Nat) /\ osr = Word(e, k + 1) /\ m = k + 1 /\ k <= N(e)
    BY <1>2, <1>6 DEF Control
  <2> HIDE DEF osr, in
  <2> DEFINE at == 19
  <2>3. at \in Nat /\ at - 18 = 1 /\ u = MachineOf(s.on, at, s.x, s.y, osr, s.isr, in, s.out)
    BY <2>1
  <2> HIDE DEF at
  <2>4. u \in Machines /\ u.on /\ u.out = s.out /\ u.in = in /\ P(u) = 1 /\ u.osr = osr
    <3>1. u \in Machines /\ u.on /\ u.out = s.out /\ u.in = in /\ P(u) = at - 18 /\ u.osr = osr
      BY <2>3, <2>2, <1>2 DEF MachineOf, Machines, P
    <3> QED BY <2>3, <3>1, Zenon
  <2>5. Control(e, u, m)
    BY <1>1, <1>3, <2>2, <2>4 DEF Control
  <2>6. J(u, m) = J(s, k) /\ D(u) = D(s) - 1
    BY <1>3, <1>6, <2>2, <2>4 DEF J, D
  <2>7. ~Waits(s) /\ P(s) # 13 /\ P(s) \notin {5, 8} /\ (P(u) >= 12 <=> P(s) >= 11)
    BY <1>6, <2>4 DEF Waits
  <2>8. u.in = IF P(s) = 0 /\ s.in # << >> THEN Tail(s.in) ELSE s.in
    BY <1>6, <2>4 DEF in
  <2> QED BY <2>4, <2>5, <2>6, <2>7, <2>8, Zenon
<1>7. CASE P(s) = 1
  <2> DEFINE at == 20
             x == s.x
             y == s.osr % 2
             osr == s.osr \div 2
  <2>1. u = MachineOf(s.on, at, x, y, osr, s.isr, s.in, s.out)
    BY <1>7 DEF Does
  <2>2. m = k /\ ~Waits(s) /\ P(s) # 13 /\ ~(P(s) = 0 /\ s.in # << >>)
    BY <1>7 DEF Waits
  <2>3. at \in Nat /\ x \in Nat /\ y \in Nat /\ osr \in Nat
    <3>1. s.osr \in Nat /\ x \in Nat
      BY <1>2
    <3>2. \A n \in Nat : n % 2 \in Nat /\ n \div 2 \in Nat
      OBVIOUS
    <3>3. y \in Nat /\ osr \in Nat
      BY <3>1, <3>2
    <3> QED BY <3>1, <3>3
  <2>4. at - 18 = 2 /\ y = Level(e, k) /\ osr = Count(e, k) /\ k >= 1
    BY <1>7, <1>1 DEF Control, Word
  <2> HIDE DEF at, x, y, osr
  <2>5. /\ u \in Machines /\ u.on /\ u.out = s.out /\ u.in = s.in
        /\ P(u) = at - 18 /\ u.x = x /\ u.y = y /\ u.osr = osr
    <3>1. Made(s, u, at, x, y, osr)
      BY <2>1, <2>3, Zenon DEF Made
    <3>2. Became(s, u, at, x, y, osr)
      BY <3>1, Becomes
    <3> QED BY <3>2, Zenon DEF Became
  <2>6. Control(e, u, m)
    BY <1>1, <1>3, <1>7, <2>2, <2>4, <2>5 DEF Control
  <2>7. J(u, m) = J(s, k) /\ D(u) = D(s) - 1
    BY <1>1, <1>3, <1>7, <2>2, <2>4, <2>5 DEF J, D
  <2>8. P(s) \notin {5, 8} /\ (P(u) >= 12 <=> P(s) >= 11)
    BY <1>3, <1>7, <2>4, <2>5
  <2>9. u.in = IF P(s) = 0 /\ s.in # << >> THEN Tail(s.in) ELSE s.in
    BY <2>2, <2>5, Zenon
  <2> QED BY <2>2, <2>5, <2>6, <2>7, <2>8, <2>9, Zenon
<1>8. CASE P(s) = 2
  <2> DEFINE at == 21
             x == s.osr
             y == s.y
             osr == 0
  <2>1. u = MachineOf(s.on, at, x, y, osr, s.isr, s.in, s.out)
    BY <1>8 DEF Does
  <2>2. m = k /\ ~Waits(s) /\ P(s) # 13 /\ ~(P(s) = 0 /\ s.in # << >>)
    BY <1>8 DEF Waits
  <2>3. at \in Nat /\ x \in Nat /\ y \in Nat /\ osr \in Nat
    BY <1>2
  <2>4. at - 18 = 3 /\ x = Count(e, k) /\ y = Level(e, k) /\ k >= 1
    BY <1>8 DEF Control
  <2> HIDE DEF at, x, y, osr
  <2>5. /\ u \in Machines /\ u.on /\ u.out = s.out /\ u.in = s.in
        /\ P(u) = at - 18 /\ u.x = x /\ u.y = y /\ u.osr = osr
    <3>1. Made(s, u, at, x, y, osr)
      BY <2>1, <2>3, Zenon DEF Made
    <3>2. Became(s, u, at, x, y, osr)
      BY <3>1, Becomes
    <3> QED BY <3>2, Zenon DEF Became
  <2>6. Control(e, u, m)
    BY <1>1, <1>3, <1>8, <2>2, <2>4, <2>5 DEF Control
  <2>7. J(u, m) = J(s, k) /\ D(u) = D(s) - 1
    BY <1>1, <1>3, <1>8, <2>2, <2>4, <2>5 DEF J, D
  <2>8. P(s) \notin {5, 8} /\ (P(u) >= 12 <=> P(s) >= 11)
    BY <1>3, <1>8, <2>4, <2>5
  <2>9. u.in = IF P(s) = 0 /\ s.in # << >> THEN Tail(s.in) ELSE s.in
    BY <2>2, <2>5, Zenon
  <2> QED BY <2>2, <2>5, <2>6, <2>7, <2>8, <2>9, Zenon
<1>9. CASE P(s) = 3
  <2> DEFINE at == IF s.x = 0 THEN 29 ELSE 22
             x == s.x
             y == s.y
             osr == s.osr
  <2>1. u = MachineOf(s.on, at, x, y, osr, s.isr, s.in, s.out)
    BY <1>9 DEF Does
  <2>2. m = k /\ ~Waits(s) /\ P(s) # 13 /\ ~(P(s) = 0 /\ s.in # << >>)
    BY <1>9 DEF Waits
  <2>3. at \in Nat /\ x \in Nat /\ y \in Nat /\ osr \in Nat
    BY <1>2
  <2>4. /\ s.x = 0 => at - 18 = 11 /\ k = N(e) + 1
        /\ s.x # 0 => at - 18 = 4 /\ k \in 1 .. N(e)
        /\ x = Count(e, k) /\ y = Level(e, k)
    BY <1>9, <1>1, <1>3 DEF Control
  <2> HIDE DEF at, x, y, osr
  <2>5. /\ u \in Machines /\ u.on /\ u.out = s.out /\ u.in = s.in
        /\ P(u) = at - 18 /\ u.x = x /\ u.y = y /\ u.osr = osr
    <3>1. Made(s, u, at, x, y, osr)
      BY <2>1, <2>3, Zenon DEF Made
    <3>2. Became(s, u, at, x, y, osr)
      BY <3>1, Becomes
    <3> QED BY <3>2, Zenon DEF Became
  <2>6. Control(e, u, m)
    BY <1>1, <1>3, <1>9, <2>2, <2>4, <2>5 DEF Control
  <2>7. J(u, m) = J(s, k) /\ D(u) = D(s) - 1
    BY <1>1, <1>3, <1>9, <2>2, <2>4, <2>5 DEF J, D
  <2>8. P(s) \notin {5, 8} /\ (P(u) >= 12 <=> P(s) >= 11)
    BY <1>3, <1>9, <2>4, <2>5
  <2>9. u.in = IF P(s) = 0 /\ s.in # << >> THEN Tail(s.in) ELSE s.in
    BY <2>2, <2>5, Zenon
  <2> QED BY <2>2, <2>5, <2>6, <2>7, <2>8, <2>9, Zenon
<1>10. CASE P(s) = 4
  <2> DEFINE at == IF s.y = 0 THEN 26 ELSE 23
             x == s.x
             y == s.y
             osr == s.osr
  <2>1. u = MachineOf(s.on, at, x, y, osr, s.isr, s.in, s.out)
    BY <1>10 DEF Does
  <2>2. m = k /\ ~Waits(s) /\ P(s) # 13 /\ ~(P(s) = 0 /\ s.in # << >>)
    BY <1>10 DEF Waits
  <2>3. at \in Nat /\ x \in Nat /\ y \in Nat /\ osr \in Nat
    BY <1>2
  <2>4. /\ s.y = 0 => at - 18 = 8 /\ Level(e, k) = 0
        /\ s.y # 0 => at - 18 = 5 /\ Level(e, k) = 1
        /\ k \in 1 .. N(e) /\ x = Count(e, k)
    BY <1>10, <1>1 DEF Control
  <2> HIDE DEF at, x, y, osr
  <2>5. /\ u \in Machines /\ u.on /\ u.out = s.out /\ u.in = s.in
        /\ P(u) = at - 18 /\ u.x = x /\ u.y = y /\ u.osr = osr
    <3>1. Made(s, u, at, x, y, osr)
      BY <2>1, <2>3, Zenon DEF Made
    <3>2. Became(s, u, at, x, y, osr)
      BY <3>1, Becomes
    <3> QED BY <3>2, Zenon DEF Became
  <2>6. Control(e, u, m)
    BY <1>1, <1>3, <1>10, <2>2, <2>4, <2>5 DEF Control
  <2>7. J(u, m) = J(s, k) /\ D(u) = D(s) - 1
    BY <1>1, <1>3, <1>10, <2>2, <2>4, <2>5 DEF J, D
  <2>8. P(s) \notin {5, 8} /\ (P(u) >= 12 <=> P(s) >= 11)
    BY <1>3, <1>10, <2>4, <2>5
  <2>9. u.in = IF P(s) = 0 /\ s.in # << >> THEN Tail(s.in) ELSE s.in
    BY <2>2, <2>5, Zenon
  <2> QED BY <2>2, <2>5, <2>6, <2>7, <2>8, <2>9, Zenon
<1>11. CASE P(s) \in {5, 8}
  <2> DEFINE at == s.pc + 1
             x == s.x
             y == s.y
             osr == s.osr
  <2>1. u = MachineOf(s.on, at, x, y, osr, s.isr, s.in, s.out)
    BY <1>11 DEF Does
  <2>2. m = k /\ ~Waits(s) /\ P(s) # 13 /\ ~(P(s) = 0 /\ s.in # << >>)
    BY <1>11 DEF Waits
  <2>3. at \in Nat /\ x \in Nat /\ y \in Nat /\ osr \in Nat
    BY <1>2
  <2>4. /\ at - 18 = P(s) + 1 /\ x = Count(e, k) /\ k \in 1 .. N(e)
        /\ Level(e, k) = IF P(s) = 5 THEN 1 ELSE 0
    BY <1>3, <1>11 DEF Control
  <2> HIDE DEF at, x, y, osr
  <2>5. /\ u \in Machines /\ u.on /\ u.out = s.out /\ u.in = s.in
        /\ P(u) = at - 18 /\ u.x = x /\ u.y = y /\ u.osr = osr
    <3>1. Made(s, u, at, x, y, osr)
      BY <2>1, <2>3, Zenon DEF Made
    <3>2. Became(s, u, at, x, y, osr)
      BY <3>1, Becomes
    <3> QED BY <3>2, Zenon DEF Became
  <2>6. Control(e, u, m)
    <3>1. CASE P(s) = 5
      BY <1>1, <1>3, <1>11, <2>2, <2>4, <2>5, <3>1 DEF Control
    <3>2. CASE P(s) = 8
      BY <1>1, <1>3, <1>11, <2>2, <2>4, <2>5, <3>2 DEF Control
    <3> QED BY <1>11, <3>1, <3>2
  <2>7. /\ J(u, m) = J(s, k) + 1 /\ J(u, m) \in 1 .. N(e)
        /\ D(s) = 1 /\ D(u) = T(e, J(u, m))
        /\ Level(e, J(u, m)) = IF P(s) = 5 THEN 1 ELSE 0
    <3>1. CASE P(s) = 5
      BY <1>1, <1>3, <1>11, <2>2, <2>4, <2>5, <3>1 DEF J, D
    <3>2. CASE P(s) = 8
      BY <1>1, <1>3, <1>11, <2>2, <2>4, <2>5, <3>2 DEF J, D
    <3> QED BY <1>11, <3>1, <3>2
  <2>8. P(s) \in {5, 8} /\ (P(u) >= 12 <=> P(s) >= 11)
    BY <1>3, <1>11, <2>4, <2>5
  <2>9. u.in = IF P(s) = 0 /\ s.in # << >> THEN Tail(s.in) ELSE s.in
    BY <2>2, <2>5, Zenon
  <2> QED BY <2>2, <2>5, <2>6, <2>7, <2>8, <2>9, Zenon
<1>12. CASE P(s) \in {6, 9}
  <2> DEFINE at == IF s.x # 0 THEN s.pc ELSE s.pc + 1
             x == Decremented(s.x)
             y == s.y
             osr == s.osr
  <2>1. u = MachineOf(s.on, at, x, y, osr, s.isr, s.in, s.out)
    BY <1>12 DEF Does
  <2>2. m = k /\ ~Waits(s) /\ P(s) # 13 /\ ~(P(s) = 0 /\ s.in # << >>)
    BY <1>12 DEF Waits
  <2>3. at \in Nat /\ x \in Nat /\ y \in Nat /\ osr \in Nat
    <3>1. (s.x + REG - 1) % REG \in Nat
      BY <1>2, NumbersAre
    <3> QED BY <1>2, <3>1 DEF Decremented
  <2>4. /\ s.x = 0 => at - 18 = P(s) + 1
        /\ s.x # 0 => at - 18 = P(s) /\ x = s.x - 1 /\ x <= Count(e, k)
        /\ k \in 1 .. N(e) /\ s.x <= Count(e, k) /\ Level(e, k) = IF P(s) = 6 THEN 1 ELSE 0
    <3>1. k \in 1 .. N(e) /\ s.x <= Count(e, k) /\ Level(e, k) = IF P(s) = 6 THEN 1 ELSE 0
      BY <1>12 DEF Control
    <3>2. s.x # 0 => x = s.x - 1
      <4> DEFINE c == Count(e, k)
      <4>1. c \in Nat /\ c < REG /\ s.x <= c /\ s.x \in Nat /\ REG \in Nat \ {0}
        BY <1>1, <1>2, <3>1, NumbersAre
      <4> HIDE DEF c
      <4>2. s.x # 0 => s.x - 1 \in Nat /\ s.x - 1 < REG /\ s.x + REG - 1 = REG * 1 + (s.x - 1)
        BY <4>1
      <4>3. s.x # 0 => (REG * 1 + (s.x - 1)) % REG = s.x - 1
        BY <4>1, <4>2, ModIs
      <4> QED BY <4>2, <4>3 DEF Decremented
    <3>3. s.x # 0 => x <= Count(e, k)
      BY <1>1, <1>2, <3>1, <3>2
    <3>4. (s.x = 0 => at = s.pc + 1) /\ (s.x # 0 => at = s.pc)
      OBVIOUS
    <3>5. (s.x = 0 => at - 18 = P(s) + 1) /\ (s.x # 0 => at - 18 = P(s))
      <4>1. s.pc \in Nat /\ s.pc = 18 + P(s)
        BY <1>3
      <4> DEFINE c == s.pc
                 q == P(s)
      <4>2. c \in Nat /\ c = 18 + q /\ q \in {6, 9}
        BY <1>12, <4>1
      <4>3. (s.x = 0 => at = c + 1) /\ (s.x # 0 => at = c)
        BY <3>4
      <4> HIDE DEF at, c, q
      <4>4. c - 18 = q /\ (c + 1) - 18 = q + 1
        BY <4>2
      <4>5. (s.x = 0 => at - 18 = q + 1) /\ (s.x # 0 => at - 18 = q)
        BY <4>3, <4>4, Zenon
      <4> QED BY <4>5 DEF q
    <3> HIDE DEF at, x
    <3> QED BY <3>1, <3>2, <3>3, <3>5, Zenon
  <2> HIDE DEF at, x, y, osr
  <2>5. /\ u \in Machines /\ u.on /\ u.out = s.out /\ u.in = s.in
        /\ P(u) = at - 18 /\ u.x = x /\ u.y = y /\ u.osr = osr
    <3>1. Made(s, u, at, x, y, osr)
      BY <2>1, <2>3, Zenon DEF Made
    <3>2. Became(s, u, at, x, y, osr)
      BY <3>1, Becomes
    <3> QED BY <3>2, Zenon DEF Became
  <2>6. Control(e, u, m)
    <3>1. CASE P(s) = 6 /\ s.x = 0
      BY <1>1, <1>3, <1>12, <2>2, <2>4, <2>5, <3>1 DEF Control
    <3>2. CASE P(s) = 6 /\ s.x # 0
      BY <1>1, <1>3, <1>12, <2>2, <2>4, <2>5, <3>2 DEF Control
    <3>3. CASE P(s) = 9 /\ s.x = 0
      BY <1>1, <1>3, <1>12, <2>2, <2>4, <2>5, <3>3 DEF Control
    <3>4. CASE P(s) = 9 /\ s.x # 0
      BY <1>1, <1>3, <1>12, <2>2, <2>4, <2>5, <3>4 DEF Control
    <3> QED BY <1>12, <3>1, <3>2, <3>3, <3>4
  <2>10. s.x \in Nat /\ (s.x # 0 => x + 8 = (s.x + 8) - 1) /\ 7 = (0 + 8) - 1
    BY <1>2, <2>4
  <2>7. J(u, m) = J(s, k) /\ D(u) = D(s) - 1
    <3>1. CASE P(s) = 6 /\ s.x = 0
      BY <1>1, <1>3, <1>12, <2>2, <2>4, <2>5, <3>1 DEF J, D
    <3>2. CASE P(s) = 6 /\ s.x # 0
      BY <2>2, <2>4, <2>5, <2>10, <3>2 DEF J, D
    <3>3. CASE P(s) = 9 /\ s.x = 0
      BY <1>1, <1>3, <1>12, <2>2, <2>4, <2>5, <3>3 DEF J, D
    <3>4. CASE P(s) = 9 /\ s.x # 0
      BY <2>2, <2>4, <2>5, <2>10, <3>4 DEF J, D
    <3> QED BY <1>12, <3>1, <3>2, <3>3, <3>4
  <2>8. P(s) \notin {5, 8} /\ (P(u) >= 12 <=> P(s) >= 11)
    BY <1>3, <1>12, <2>4, <2>5
  <2>9. u.in = IF P(s) = 0 /\ s.in # << >> THEN Tail(s.in) ELSE s.in
    BY <2>2, <2>5, Zenon
  <2> QED BY <2>2, <2>5, <2>6, <2>7, <2>8, <2>9, Zenon
<1>13. CASE P(s) \in {7, 10}
  <2> DEFINE at == 18
             x == s.x
             y == s.y
             osr == s.osr
  <2>1. u = MachineOf(s.on, at, x, y, osr, s.isr, s.in, s.out)
    BY <1>13 DEF Does
  <2>2. m = k /\ ~Waits(s) /\ P(s) # 13 /\ ~(P(s) = 0 /\ s.in # << >>)
    BY <1>13 DEF Waits
  <2>3. at \in Nat /\ x \in Nat /\ y \in Nat /\ osr \in Nat
    BY <1>2
  <2>4. at - 18 = 0 /\ k \in 1 .. N(e)
    BY <1>13 DEF Control
  <2> HIDE DEF at, x, y, osr
  <2>5. /\ u \in Machines /\ u.on /\ u.out = s.out /\ u.in = s.in
        /\ P(u) = at - 18 /\ u.x = x /\ u.y = y /\ u.osr = osr
    <3>1. Made(s, u, at, x, y, osr)
      BY <2>1, <2>3, Zenon DEF Made
    <3>2. Became(s, u, at, x, y, osr)
      BY <3>1, Becomes
    <3> QED BY <3>2, Zenon DEF Became
  <2>6. Control(e, u, m)
    BY <1>1, <1>3, <1>13, <2>2, <2>4, <2>5 DEF Control
  <2>7. J(u, m) = J(s, k) /\ D(u) = D(s) - 1
    BY <1>1, <1>3, <1>13, <2>2, <2>4, <2>5 DEF J, D
  <2>8. P(s) \notin {5, 8} /\ (P(u) >= 12 <=> P(s) >= 11)
    BY <1>3, <1>13, <2>4, <2>5
  <2>9. u.in = IF P(s) = 0 /\ s.in # << >> THEN Tail(s.in) ELSE s.in
    BY <2>2, <2>5, Zenon
  <2> QED BY <2>2, <2>5, <2>6, <2>7, <2>8, <2>9, Zenon
<1>14. CASE P(s) \in {11, 12}
  <2> DEFINE at == s.pc + 1
             x == s.x
             y == s.y
             osr == s.osr
  <2>1. u = MachineOf(s.on, at, x, y, osr, s.isr, s.in, s.out)
    BY <1>14 DEF Does
  <2>2. m = k /\ ~Waits(s) /\ P(s) # 13 /\ ~(P(s) = 0 /\ s.in # << >>)
    BY <1>14 DEF Waits
  <2>3. at \in Nat /\ x \in Nat /\ y \in Nat /\ osr \in Nat
    BY <1>2
  <2>4. at - 18 = P(s) + 1 /\ k = N(e) + 1
    BY <1>3, <1>14 DEF Control
  <2> HIDE DEF at, x, y, osr
  <2>5. /\ u \in Machines /\ u.on /\ u.out = s.out /\ u.in = s.in
        /\ P(u) = at - 18 /\ u.x = x /\ u.y = y /\ u.osr = osr
    <3>1. Made(s, u, at, x, y, osr)
      BY <2>1, <2>3, Zenon DEF Made
    <3>2. Became(s, u, at, x, y, osr)
      BY <3>1, Becomes
    <3> QED BY <3>2, Zenon DEF Became
  <2>6. Control(e, u, m)
    <3>1. CASE P(s) = 11
      BY <1>1, <1>3, <1>14, <2>2, <2>4, <2>5, <3>1 DEF Control
    <3>2. CASE P(s) = 12
      BY <1>1, <1>3, <1>14, <2>2, <2>4, <2>5, <3>2 DEF Control
    <3> QED BY <1>14, <3>1, <3>2
  <2>7. J(u, m) = J(s, k) /\ D(u) = D(s) - 1
    <3>1. CASE P(s) = 11
      BY <1>1, <1>3, <1>14, <2>2, <2>4, <2>5, <3>1 DEF J, D
    <3>2. CASE P(s) = 12
      BY <1>1, <1>3, <1>14, <2>2, <2>4, <2>5, <3>2 DEF J, D
    <3> QED BY <1>14, <3>1, <3>2
  <2>8. P(s) \notin {5, 8} /\ (P(u) >= 12 <=> P(s) >= 11)
    BY <1>3, <1>14, <2>4, <2>5
  <2>9. u.in = IF P(s) = 0 /\ s.in # << >> THEN Tail(s.in) ELSE s.in
    BY <2>2, <2>5, Zenon
  <2> QED BY <2>2, <2>5, <2>6, <2>7, <2>8, <2>9, Zenon
<1> QED BY <1>3, <1>5, <1>6, <1>7, <1>8, <1>9, <1>10, <1>11, <1>12, <1>13, <1>14 DEF Waits

\* The words that are still to be played are in the FIFO and in the channel.
Pulled(e, in, d) == N(e) + 1 - Len(in) - Len(d)
Queued(e, k, in, d) ==
  /\ in \in Seq(Nat) /\ d \in Seq(Nat)
  /\ \A i \in 1 .. Len(in) : in[i] = Word(e, k + i)
  /\ \A i \in 1 .. Len(d) : d[i] = Word(e, k + Len(in) + i)

\* The machine may pull a word while the channel moves one.
After(in, pull) == IF pull THEN Tail(in) ELSE in
Moved(in, d, moves) == IF moves THEN Append(in, Head(d)) ELSE in
Plus(k, pull) == IF pull THEN k + 1 ELSE k
Minus(k, pull) == IF pull THEN k - 1 ELSE k

LEMMA Feeding ==
  ASSUME NEW e \in Exchanges, NEW k \in Nat, NEW in, NEW d, NEW pull \in BOOLEAN,
         NEW moves \in BOOLEAN, NEW in1, NEW in2, NEW d2, NEW m,
         Queued(e, k, in, d), k = Pulled(e, in, d),
         pull => in # << >>, moves => d # << >>,
         in1 = After(in, pull), in2 = Moved(in1, d, moves), d2 = After(d, moves),
         m = Plus(k, pull)
  PROVE  /\ Queued(e, m, in2, d2) /\ m = Pulled(e, in2, d2)
         /\ Len(in2) = Plus(Minus(Len(in), pull), moves)
         /\ Len(d2) = Minus(Len(d), moves)
         /\ in # << >> => Head(in) = Word(e, k + 1)
<1>1. in \in Seq(Nat) /\ d \in Seq(Nat) /\ N(e) \in Nat /\ Len(in) \in Nat /\ Len(d) \in Nat
  <2>1. in \in Seq(Nat) /\ d \in Seq(Nat) /\ N(e) \in Nat
    BY ExchangeIs DEF Queued
  <2> QED BY <2>1
<1>2. \A i \in 1 .. Len(in) : in[i] = Word(e, k + i)
  BY DEF Queued
<1>3. \A i \in 1 .. Len(d) : d[i] = Word(e, k + Len(in) + i)
  BY DEF Queued
<1>4. /\ in1 \in Seq(Nat) /\ m \in Nat /\ Len(in1) = Minus(Len(in), pull)
      /\ \A i \in 1 .. Len(in1) : in1[i] = Word(e, m + i)
      /\ m + Len(in1) = k + Len(in)
  <2>1. CASE pull
    <3>1. in1 = Tail(in) /\ m = k + 1 /\ in # << >>
      BY <2>1 DEF After, Plus
    <3>2. in1 \in Seq(Nat) /\ Len(in1) = Len(in) - 1
          /\ \A i \in 1 .. Len(in1) : in1[i] = in[i + 1]
      BY <1>1, <3>1
    <3>3. ASSUME NEW i \in 1 .. Len(in1) PROVE in1[i] = Word(e, m + i)
      <4> DEFINE l == Len(in)
      <4>1. l \in Nat /\ i \in 1 .. l - 1
        BY <1>1, <3>2
      <4> HIDE DEF l
      <4>2. i + 1 \in 1 .. l /\ k + (i + 1) = m + i
        BY <3>1, <4>1
      <4>3. i + 1 \in 1 .. Len(in) /\ k + (i + 1) = m + i
        BY <4>2 DEF l
      <4> QED BY <1>2, <3>2, <4>3
    <3>4. m + Len(in1) = k + Len(in)
      BY <1>1, <3>1, <3>2
    <3>5. Minus(Len(in), pull) = Len(in) - 1
      BY <2>1, Zenon DEF Minus
    <3>6. k + 1 \in Nat
      OBVIOUS
    <3> QED BY <3>1, <3>2, <3>3, <3>4, <3>5, <3>6, Zenon
  <2>2. CASE ~pull
    BY <2>2, <1>1, <1>2 DEF After, Plus, Minus
  <2> QED BY <2>1, <2>2
<1>5. /\ in2 \in Seq(Nat) /\ d2 \in Seq(Nat)
      /\ Len(in2) = Plus(Len(in1), moves) /\ Len(d2) = Minus(Len(d), moves)
      /\ \A i \in 1 .. Len(in2) : in2[i] = Word(e, m + i)
      /\ \A i \in 1 .. Len(d2) : d2[i] = Word(e, m + Len(in2) + i)
  <2>1. CASE moves
    <3> DEFINE w == Head(d)
    <3>1. d # << >> /\ w \in Nat /\ w = d[1] /\ Len(d) >= 1
      BY <1>1, <2>1
    <3>2. in2 = Append(in1, w) /\ d2 = Tail(d)
      BY <2>1 DEF Moved, After
    <3> HIDE DEF w
    <3>3. in2 \in Seq(Nat) /\ Len(in2) = Len(in1) + 1
          /\ \A i \in 1 .. Len(in1) + 1 : in2[i] = IF i <= Len(in1) THEN in1[i] ELSE w
      <4>1. in1 \in Seq(Nat) /\ w \in Nat
        BY <1>4, <3>1
      <4>2. Append(in1, w) \in Seq(Nat) /\ Len(Append(in1, w)) = Len(in1) + 1
            /\ \A i \in 1 .. Len(in1) + 1 :
                 Append(in1, w)[i] = IF i <= Len(in1) THEN in1[i] ELSE w
        BY <4>1
      <4> QED BY <3>2, <4>2, Zenon
    <3>4. d2 \in Seq(Nat) /\ Len(d2) = Len(d) - 1
          /\ \A i \in 1 .. Len(d2) : d2[i] = d[i + 1]
      BY <1>1, <3>1, <3>2
    <3>5. w = Word(e, m + (Len(in1) + 1))
      <4> DEFINE l == Len(in)
                 l1 == Len(in1)
      <4>1. l \in Nat /\ l1 \in Nat /\ m \in Nat /\ m + l1 = k + l
        BY <1>1, <1>4
      <4> HIDE DEF l, l1
      <4>2. k + l + 1 = m + (l1 + 1)
        BY <4>1
      <4>3. 1 \in 1 .. Len(d) /\ k + Len(in) + 1 = m + (Len(in1) + 1)
        BY <1>1, <3>1, <4>2 DEF l, l1
      <4>4. d[1] = Word(e, k + Len(in) + 1)
        BY <1>3, <4>3
      <4> QED BY <3>1, <4>3, <4>4
    <3>6. ASSUME NEW i \in 1 .. Len(in2) PROVE in2[i] = Word(e, m + i)
      <4>1. Len(in1) \in Nat /\ i \in 1 .. Len(in1) + 1
        BY <1>4, <3>3
      <4>2. CASE i <= Len(in1)
        <5>1. i \in 1 .. Len(in1)
          BY <4>1, <4>2
        <5> QED BY <1>4, <3>3, <4>1, <4>2, <5>1
      <4>3. CASE ~(i <= Len(in1))
        <5>1. i = Len(in1) + 1
          BY <4>1, <4>3
        <5> QED BY <3>3, <3>5, <4>1, <4>3, <5>1
      <4> QED BY <4>2, <4>3
    <3>7. ASSUME NEW i \in 1 .. Len(d2) PROVE d2[i] = Word(e, m + Len(in2) + i)
      <4> DEFINE l == Len(in)
                 l1 == Len(in1)
                 l2 == Len(in2)
                 c == Len(d)
      <4>1. l \in Nat /\ l1 \in Nat /\ m \in Nat /\ m + l1 = k + l /\ l2 = l1 + 1
            /\ c \in Nat /\ i \in 1 .. c - 1
        BY <1>1, <1>4, <3>3, <3>4
      <4> HIDE DEF l, l1, l2, c
      <4>2. i + 1 \in 1 .. c /\ k + l + (i + 1) = m + l2 + i
        BY <4>1
      <4>3. i + 1 \in 1 .. Len(d) /\ k + Len(in) + (i + 1) = m + Len(in2) + i
        BY <4>2 DEF l, l2, c
      <4>4. d[i + 1] = Word(e, k + Len(in) + (i + 1))
        BY <1>3, <4>3
      <4> QED BY <3>4, <4>3, <4>4
    <3>8. Plus(Len(in1), moves) = Len(in1) + 1 /\ Minus(Len(d), moves) = Len(d) - 1
      BY <2>1 DEF Plus, Minus
    <3> QED BY <3>3, <3>4, <3>6, <3>7, <3>8
  <2>2. CASE ~moves
    BY <1>4, <2>2, <1>1, <1>3 DEF Moved, After, Plus, Minus
  <2> QED BY <2>1, <2>2
<1>6. m = Pulled(e, in2, d2)
  <2> DEFINE l == Len(in)
             l1 == Len(in1)
             l2 == Len(in2)
             c == Len(d)
             c2 == Len(d2)
  <2>1. l \in Nat /\ c \in Nat /\ k = N(e) + 1 - l - c /\ l1 \in Nat
    BY <1>1, <1>4 DEF Pulled
  <2>2. l1 = Minus(l, pull) /\ l2 = Plus(l1, moves) /\ c2 = Minus(c, moves) /\ m = Plus(k, pull)
    BY <1>4, <1>5
  <2> HIDE DEF l, l1, l2, c, c2
  <2>3. m = N(e) + 1 - l2 - c2
    BY <1>1, <2>1, <2>2 DEF Plus, Minus
  <2> QED BY <2>3 DEF Pulled, l2, c2
<1>7. in # << >> => Head(in) = Word(e, k + 1)
  <2> SUFFICES ASSUME in # << >> PROVE Head(in) = Word(e, k + 1)
    OBVIOUS
  <2>1. Head(in) = in[1] /\ 1 \in 1 .. Len(in)
    BY <1>1
  <2> QED BY <1>2, <2>1
<1>8. Len(in2) = Plus(Minus(Len(in), pull), moves)
  BY <1>4, <1>5
<1> QED BY <1>5, <1>6, <1>7, <1>8 DEF Queued

-----------------------------------------------------------------------------
(***************************************************************************)
(* The wire.                                                               *)
(***************************************************************************)
\* Cycles to the next instruction of the transmit machine.
Ahead(v, ph) == IF ph = 0 THEN 0 ELSE v - ph

LEMMA AheadIs ==
  ASSUME NEW v \in Nat \ {0}, NEW ph \in 0 .. v - 1
  PROVE  /\ (ph + 1) % v \in 0 .. v - 1 /\ Ahead(v, ph) \in 0 .. v - 1
         /\ Ahead(v, (ph + 1) % v) = IF ph = 0 THEN v - 1 ELSE Ahead(v, ph) - 1
<1>1. CASE ph + 1 < v
  <2>1. (v * 0 + (ph + 1)) % v = ph + 1
    BY <1>1, ModIs
  <2>2. (ph + 1) % v = ph + 1
    BY <2>1
  <2> QED BY <1>1, <2>2 DEF Ahead
<1>2. CASE ph + 1 = v
  <2>1. (v * 1 + 0) % v = 0
    BY ModIs
  <2>2. (ph + 1) % v = 0
    BY <1>2, <2>1
  <2> QED BY <1>2, <2>2 DEF Ahead
<1> QED BY <1>1, <1>2

HeardOf(n, lows) == IF n > 0 THEN Append(lows, n) ELSE lows

\* What is on the wire, and has been, when segment j has d ticks to last.
OnWire(e, v, j, d, p, ph, low, n, lows) ==
  /\ low = 1 <=> p <= 11 /\ Level(e, j) = 1
  /\ low = 1 => /\ n + (d * v + Ahead(v, ph)) = T(e, j) * v + v - 1
                /\ lows = Lows(e, v, j - 1)
  /\ low = 0 /\ p <= 11 => HeardOf(n, lows) = Lows(e, v, j)
  /\ p >= 12 => HeardOf(n, lows) =
       IF Level(e, N(e)) = 1 THEN Append(Lows(e, v, N(e) - 1), (T(e, N(e)) - 1) * v)
       ELSE Lows(e, v, N(e))

\* Cycles to the end of the frame.
Owes(e, v, j, d, ph) == Togo(e, v, j) + d * v + Ahead(v, ph)

\* What a cycle does to the wire: it carries the frame on, and the frame has a
\* cycle less to go unless the machine waits.
Carried(e, v, j, d, ph, j2, d2, p2, ticks, ph2, low2, n2, lows2) ==
  /\ OnWire(e, v, j2, d2, p2, ph2, low2, n2, lows2)
  /\ low2 \in {0, 1} /\ n2 \in Nat
  /\ ticks \/ ph # 0 => Owes(e, v, j2, d2, ph2) = Owes(e, v, j, d, ph) - 1
  /\ ~ticks /\ ph = 0 => Owes(e, v, j2, d2, ph2) = Owes(e, v, j, d, ph) + v - 1

\* How the machine moves on in a cycle: it ticks, or stays where it is; it ticks
\* on in a segment or begins the next; the history follows the line.
Carries(e, v, ph, j, d, p, low, n, lows, j2, d2, p2, ticks, low2, n2, lows2, ph2) ==
  /\ e \in Exchanges /\ v \in Nat \ {0} /\ ph \in 0 .. v - 1
  /\ j \in 0 .. N(e) /\ d \in Nat /\ p \in 0 .. 13
  /\ j2 \in 0 .. N(e) /\ d2 \in Nat /\ p2 \in 0 .. 13
  /\ ticks \in BOOLEAN /\ low \in {0, 1} /\ n \in Nat
  /\ OnWire(e, v, j, d, p, ph, low, n, lows)
  /\ ticks => ph = 0 /\ p # 13
  /\ ~ticks => j2 = j /\ d2 = d /\ p2 = p /\ low2 = low
  /\ ~ticks /\ ph = 0 => j = 0 \/ p = 13
  /\ ticks /\ p \in {5, 8} =>
       /\ j2 = j + 1 /\ d = 1 /\ d2 = T(e, j2) /\ low2 = Level(e, j2) /\ p2 <= 11
  /\ ticks /\ p \notin {5, 8} =>
       /\ j2 = j /\ d2 = d - 1 /\ low2 = IF p = 11 THEN 0 ELSE low
       /\ p2 >= 12 <=> p >= 11
  /\ p = 11 => j = N(e) /\ d = 2
  /\ n2 = IF low = 1 THEN n + 1 ELSE 0
  /\ lows2 = IF low = 0 /\ n > 0 THEN Append(lows, n) ELSE lows
  /\ ph2 = (ph + 1) % v

LEMMA BalanceIs ==
  ASSUME NEW n \in Nat, NEW b \in Nat, NEW c \in Nat, NEW v \in Nat, NEW a \in Nat,
         n + (b + a) = c + v - 1
  PROVE  /\ n + 1 + (b + (a - 1)) = c + v - 1
         /\ b = v /\ a = 0 => n + 1 = c
         /\ b = v + v /\ a = 0 => n + 1 = c - v
OBVIOUS

LEMMA ProductIs ==
  ASSUME NEW t \in Nat, NEW v \in Nat \ {0}
  PROVE  t * v \in Nat /\ (t > 8 => t * v > 0)
OBVIOUS

LEMMA WireStep ==
  ASSUME NEW e, NEW v, NEW ph, NEW j, NEW d, NEW p, NEW j2, NEW d2, NEW p2, NEW ticks,
         NEW low, NEW n, NEW lows, NEW low2, NEW n2, NEW lows2, NEW ph2,
         Carries(e, v, ph, j, d, p, low, n, lows, j2, d2, p2, ticks, low2, n2, lows2, ph2)
  PROVE  Carried(e, v, j, d, ph, j2, d2, p2, ticks, ph2, low2, n2, lows2)
<1> SUFFICES
      ASSUME e \in Exchanges, v \in Nat \ {0}, ph \in 0 .. v - 1,
             j \in 0 .. N(e), d \in Nat, p \in 0 .. 13,
             j2 \in 0 .. N(e), d2 \in Nat, p2 \in 0 .. 13, ticks \in BOOLEAN,
             low \in {0, 1}, n \in Nat, OnWire(e, v, j, d, p, ph, low, n, lows),
             ticks => ph = 0 /\ p # 13,
             ~ticks => j2 = j /\ d2 = d /\ p2 = p /\ low2 = low,
             ~ticks /\ ph = 0 => j = 0 \/ p = 13,
             ticks /\ p \in {5, 8} =>
               /\ j2 = j + 1 /\ d = 1 /\ d2 = T(e, j2) /\ low2 = Level(e, j2) /\ p2 <= 11,
             ticks /\ p \notin {5, 8} =>
               /\ j2 = j /\ d2 = d - 1 /\ low2 = IF p = 11 THEN 0 ELSE low
               /\ p2 >= 12 <=> p >= 11,
             p = 11 => j = N(e) /\ d = 2,
             n2 = IF low = 1 THEN n + 1 ELSE 0,
             lows2 = IF low = 0 /\ n > 0 THEN Append(lows, n) ELSE lows,
             ph2 = (ph + 1) % v
      PROVE  /\ OnWire(e, v, j2, d2, p2, ph2, low2, n2, lows2)
             /\ low2 \in {0, 1} /\ n2 \in Nat
             /\ ticks \/ ph # 0 => Owes(e, v, j2, d2, ph2) = Owes(e, v, j, d, ph) - 1
             /\ ~ticks /\ ph = 0 => Owes(e, v, j2, d2, ph2) = Owes(e, v, j, d, ph) + v - 1
  BY Zenon DEF Carries, Carried
<1>1. /\ N(e) \in Nat \ {0} /\ \A i : Level(e, i) \in {0, 1}
      /\ \A i \in 1 .. N(e) : T(e, i) \in Nat /\ T(e, i) > 8
      /\ \A i \in 1 .. N(e) : ~(Level(e, i - 1) = 1 /\ Level(e, i) = 1)
      /\ Level(e, 0) = 0
  BY ExchangeIs
<1>2. /\ ph2 \in 0 .. v - 1 /\ Ahead(v, ph) \in 0 .. v - 1
      /\ Ahead(v, ph2) = IF ph = 0 THEN v - 1 ELSE Ahead(v, ph) - 1
  BY AheadIs
<1>3. low2 \in {0, 1} /\ n2 \in Nat
  BY <1>1
<1>4. low = 1 => j \in 1 .. N(e) /\ p <= 11 /\ Level(e, j) = 1
  BY <1>1 DEF OnWire
<1>5. low = 0 => HeardOf(n2, lows2) = HeardOf(n, lows) /\ n2 = 0 /\ lows2 = HeardOf(n, lows)
  BY DEF HeardOf
<1>6. ASSUME low2 = 0, ~(p2 <= 11 /\ Level(e, j2) = 1),
             p2 <= 11 => HeardOf(n2, lows2) = Lows(e, v, j2),
             p2 >= 12 => HeardOf(n2, lows2) =
               IF Level(e, N(e)) = 1 THEN Append(Lows(e, v, N(e) - 1), (T(e, N(e)) - 1) * v)
               ELSE Lows(e, v, N(e))
      PROVE  OnWire(e, v, j2, d2, p2, ph2, low2, n2, lows2)
  <2>1. low2 # 1
    BY <1>6
  <2> QED BY <1>6, <2>1, Zenon DEF OnWire
<1>7. ASSUME low2 = 1, p2 <= 11, Level(e, j2) = 1,
             n2 + (d2 * v + Ahead(v, ph2)) = T(e, j2) * v + v - 1,
             lows2 = Lows(e, v, j2 - 1)
      PROVE  OnWire(e, v, j2, d2, p2, ph2, low2, n2, lows2)
  <2>1. low2 # 0 /\ ~(p2 >= 12)
    BY <1>7
  <2> QED BY <1>7, <2>1, Zenon DEF OnWire
<1>8. /\ low = 0 => ~(p <= 11 /\ Level(e, j) = 1)
      /\ low = 0 /\ p <= 11 => HeardOf(n, lows) = Lows(e, v, j)
      /\ low = 1 => /\ n + (d * v + Ahead(v, ph)) = T(e, j) * v + v - 1
                    /\ lows = Lows(e, v, j - 1)
  <2>1. low = 0 => low # 1
    OBVIOUS
  <2> QED BY <2>1, Zenon DEF OnWire
<1>9. p >= 12 => low = 0 /\ HeardOf(n, lows) =
               IF Level(e, N(e)) = 1 THEN Append(Lows(e, v, N(e) - 1), (T(e, N(e)) - 1) * v)
               ELSE Lows(e, v, N(e))
  <2>1. p >= 12 => low = 0
    BY <1>4
  <2> QED BY <2>1, Zenon DEF OnWire
<1> DEFINE a == Togo(e, v, j)
           b == d * v
           c == T(e, j) * v
<1>10. a \in Nat /\ b \in Nat /\ (j # 0 => c \in Nat /\ c > 0)
  <2>1. j # 0 => T(e, j) \in Nat /\ T(e, j) > 8
    BY <1>1
  <2>2. \A t \in Nat : t * v \in Nat /\ (t > 8 => t * v > 0)
    BY ProductIs
  <2>3. a \in Nat
    BY TogoIs
  <2>4. b \in Nat
    BY <2>2
  <2>5. j # 0 => c \in Nat /\ c > 0
    BY <2>1, <2>2
  <2> QED BY <2>3, <2>4, <2>5, Zenon
<1>11. CASE ~ticks
  <2>1. j2 = j /\ d2 = d /\ p2 = p /\ low2 = low
    BY <1>11
  <2>2. CASE ph = 0
    <3>1. low = 0
      BY <1>4, <1>11, <2>2
    <3>2. OnWire(e, v, j2, d2, p2, ph2, low2, n2, lows2)
      BY <1>5, <1>6, <1>8, <1>9, <2>1, <3>1, Zenon
    <3>3. Owes(e, v, j2, d2, ph2) = Owes(e, v, j, d, ph) + v - 1
      <4>1. Ahead(v, ph) = 0 /\ Ahead(v, ph2) = v - 1
        BY <1>2, <2>2 DEF Ahead
      <4>2. /\ Owes(e, v, j2, d2, ph2) = a + b + Ahead(v, ph2)
            /\ Owes(e, v, j, d, ph) = a + b + Ahead(v, ph)
        BY <2>1 DEF Owes
      <4> HIDE DEF a, b
      <4> QED BY <1>10, <4>1, <4>2
    <3> QED BY <1>3, <1>11, <2>2, <3>2, <3>3
  <2>3. CASE ph # 0
    <3>1. Owes(e, v, j2, d2, ph2) = Owes(e, v, j, d, ph) - 1
      <4>1. Ahead(v, ph2) = Ahead(v, ph) - 1 /\ Ahead(v, ph) \in Nat
        BY <1>2, <2>3
      <4>2. /\ Owes(e, v, j2, d2, ph2) = a + b + Ahead(v, ph2)
            /\ Owes(e, v, j, d, ph) = a + b + Ahead(v, ph)
        BY <2>1 DEF Owes
      <4> HIDE DEF a, b
      <4> QED BY <1>10, <4>1, <4>2
    <3>2. CASE low = 0
      <4>1. OnWire(e, v, j2, d2, p2, ph2, low2, n2, lows2)
        BY <1>5, <1>6, <1>8, <1>9, <2>1, <3>2, Zenon
      <4> QED BY <1>3, <1>11, <2>3, <3>1, <4>1
    <3>3. CASE low = 1
      <4>1. n + (b + Ahead(v, ph)) = c + v - 1 /\ lows2 = Lows(e, v, j - 1) /\ n2 = n + 1
        BY <1>8, <3>3
      <4>2. Ahead(v, ph2) = Ahead(v, ph) - 1 /\ Ahead(v, ph) \in Nat
        BY <1>2, <2>3
      <4>3. n2 + (b + Ahead(v, ph2)) = c + v - 1
        <5> HIDE DEF b, c
        <5>1. c \in Nat /\ b \in Nat /\ v \in Nat /\ Ahead(v, ph) \in Nat
          BY <1>4, <1>10, <3>3, <4>2
        <5>2. n + 1 + (b + (Ahead(v, ph) - 1)) = c + v - 1
          <6> DEFINE x == Ahead(v, ph)
          <6>1. n + (b + x) = c + v - 1 /\ x \in Nat
            BY <4>1, <5>1, Zenon
          <6> HIDE DEF x
          <6>2. n + 1 + (b + (x - 1)) = c + v - 1
            BY <5>1, <6>1, BalanceIs
          <6> QED BY <6>2 DEF x
        <5> QED BY <4>1, <4>2, <5>2, Zenon
      <4>4. OnWire(e, v, j2, d2, p2, ph2, low2, n2, lows2)
        BY <1>4, <1>7, <2>1, <3>3, <4>1, <4>3
      <4> QED BY <1>3, <1>11, <2>3, <3>1, <4>4
    <3> QED BY <3>2, <3>3
  <2> QED BY <2>2, <2>3
<1>12. CASE ticks
  <2>1. ph = 0 /\ p # 13 /\ Ahead(v, ph) = 0 /\ Ahead(v, ph2) = v - 1
    BY <1>2, <1>12 DEF Ahead
  <2>2. CASE p \in {5, 8}
    <3>1. /\ j2 = j + 1 /\ d = 1 /\ d2 = T(e, j2)
          /\ low2 = Level(e, j2) /\ p2 <= 11 /\ j2 \in 1 .. N(e)
          /\ j2 - 1 = j
      BY <1>1, <1>12, <2>2
    <3> DEFINE c2 == T(e, j2) * v
    <3>2. c2 \in Nat /\ b = v /\ a = Togo(e, v, j2) + c2 /\ Togo(e, v, j2) \in Nat
      <4>1. T(e, j2) \in Nat
        BY <1>1, <3>1
      <4>2. c2 \in Nat
        BY <4>1, ProductIs
      <4>3. b = v
        <5>1. 1 * v = v
          OBVIOUS
        <5> QED BY <3>1, <5>1, Zenon
      <4>4. Togo(e, v, j2 - 1) = Togo(e, v, j2) + c2 /\ Togo(e, v, j2) \in Nat
        <5>1. j2 \in 0 .. N(e) /\ v \in Nat
          BY <1>1, <3>1
        <5> QED BY <3>1, <5>1, TogoIs
      <4>5. a = Togo(e, v, j2) + c2
        BY <3>1, <4>4, Zenon
      <4> QED BY <4>2, <4>3, <4>4, <4>5, Zenon
    <3>3. Owes(e, v, j2, d2, ph2) = Togo(e, v, j2) + c2 + Ahead(v, ph2)
          /\ Owes(e, v, j, d, ph) = a + b + Ahead(v, ph)
      BY <3>1 DEF Owes
    <3>4. Owes(e, v, j2, d2, ph2) = Owes(e, v, j, d, ph) - 1
      <4> DEFINE t == Togo(e, v, j2)
                 o == Owes(e, v, j, d, ph)
                 o2 == Owes(e, v, j2, d2, ph2)
                 x == Ahead(v, ph)
                 x2 == Ahead(v, ph2)
      <4> HIDE DEF a, b, c2
      <4>1. o2 = t + c2 + x2 /\ o = a + b + x /\ a = t + c2 /\ b = v /\ x = 0 /\ x2 = v - 1
        BY <2>1, <3>2, <3>3, Zenon
      <4>2. t \in Nat /\ c2 \in Nat /\ v \in Nat
        BY <1>1, <3>2
      <4> HIDE DEF t, o, o2, x, x2
      <4>3. o2 = o - 1
        BY <4>1, <4>2
      <4> QED BY <4>3 DEF o, o2
    <3>5. (HeardOf(n2, lows2) = Lows(e, v, j) /\ lows2 = Lows(e, v, j)) \/ low = 1
      BY <1>5, <1>8, <2>2
    <3>6. CASE Level(e, j2) = 1
      <4>1. low = 0
        BY <1>1, <1>4, <3>1, <3>6
      <4>2. lows2 = Lows(e, v, j2 - 1) /\ n2 = 0
        BY <1>5, <3>1, <3>5, <4>1
      <4>3. n2 + (d2 * v + Ahead(v, ph2)) = T(e, j2) * v + v - 1
        <5>1. n2 + (c2 + Ahead(v, ph2)) = c2 + v - 1
          <6> HIDE DEF c2
          <6> QED BY <2>1, <3>2, <4>2
        <5> QED BY <3>1, <5>1
      <4>4. OnWire(e, v, j2, d2, p2, ph2, low2, n2, lows2)
        BY <1>7, <3>1, <3>6, <4>2, <4>3
      <4> QED BY <1>3, <1>12, <2>1, <3>4, <4>4
    <3>7. CASE Level(e, j2) # 1
      <4>1. low2 = 0 /\ ~(p2 >= 12) /\ Lows(e, v, j2) = Lows(e, v, j)
        BY <1>1, <3>1, <3>7, LowsAre
      <4>2. HeardOf(n2, lows2) = Lows(e, v, j)
        <5>1. CASE low = 0
          BY <3>5, <5>1
        <5>2. CASE low = 1
          <6>1. n + (b + Ahead(v, ph)) = c + v - 1 /\ lows2 = Lows(e, v, j - 1) /\ n2 = n + 1
                /\ j \in 1 .. N(e) /\ Level(e, j) = 1 /\ j # 0
            BY <1>4, <1>8, <5>2
          <6>2. n2 = c /\ n2 > 0
            <7> HIDE DEF b, c
            <7>1. c \in Nat /\ c > 0 /\ b \in Nat /\ v \in Nat
              BY <1>10, <6>1, Zenon
            <7>2. n + 1 = c
              <8> DEFINE x == Ahead(v, ph)
              <8>1. n + (b + x) = c + v - 1 /\ b = v /\ x = 0
                BY <2>1, <3>2, <6>1, Zenon
              <8> HIDE DEF x
              <8> QED BY <7>1, <8>1, BalanceIs
            <7> QED BY <6>1, <7>1, <7>2, Zenon
          <6>3. Lows(e, v, j) = Append(Lows(e, v, j - 1), c)
            BY <6>1, LowsAre
          <6> HIDE DEF c
          <6> QED BY <6>1, <6>2, <6>3 DEF HeardOf
        <5> QED BY <5>1, <5>2
      <4>3. OnWire(e, v, j2, d2, p2, ph2, low2, n2, lows2)
        BY <1>6, <3>7, <4>1, <4>2
      <4> QED BY <1>3, <1>12, <2>1, <3>4, <4>3
    <3> QED BY <3>6, <3>7
  <2>3. CASE p \notin {5, 8}
    <3>1. j2 = j /\ d2 = d - 1 /\ (p2 >= 12 <=> p >= 11) /\ low2 = IF p = 11 THEN 0 ELSE low
      BY <1>12, <2>3
    <3> DEFINE b2 == d2 * v
    <3>2. b2 \in Nat /\ b = b2 + v
      BY <3>1
    <3>3. Owes(e, v, j2, d2, ph2) = a + b2 + Ahead(v, ph2)
          /\ Owes(e, v, j, d, ph) = a + b + Ahead(v, ph)
      BY <3>1 DEF Owes
    <3>4. Owes(e, v, j2, d2, ph2) = Owes(e, v, j, d, ph) - 1
      <4> HIDE DEF a, b, b2
      <4> QED BY <1>10, <2>1, <3>2, <3>3
    <3>5. OnWire(e, v, j2, d2, p2, ph2, low2, n2, lows2)
      <4>1. CASE p >= 11
        <5>1. low2 = 0 /\ p2 >= 12 /\ ~(p2 <= 11)
          BY <1>4, <3>1, <4>1
        <5>2. CASE low = 0
          <6>1. p = 11 => j = N(e) /\ Level(e, N(e)) # 1 /\ HeardOf(n, lows) = Lows(e, v, N(e))
            BY <1>8, <5>2
          <6>2. p # 11 => p >= 12
            BY <4>1
          <6>3. HeardOf(n2, lows2) =
                  IF Level(e, N(e)) = 1 THEN Append(Lows(e, v, N(e) - 1), (T(e, N(e)) - 1) * v)
                  ELSE Lows(e, v, N(e))
            BY <1>5, <1>9, <5>2, <6>1, <6>2, Zenon
          <6> QED BY <1>6, <5>1, <6>3, Zenon
        <5>3. CASE low = 1
          <6>1. p = 11 /\ j = N(e) /\ d = 2 /\ Level(e, N(e)) = 1 /\ j # 0
            BY <1>4, <4>1, <5>3
          <6>2. n + (b + Ahead(v, ph)) = c + v - 1 /\ lows2 = Lows(e, v, N(e) - 1) /\ n2 = n + 1
            BY <1>8, <5>3, <6>1
          <6>3. b = v + v
            BY <6>1
          <6>4. (T(e, j) - 1) * v = c - v /\ (T(e, j) - 1) * v > 0
            <7> DEFINE t == T(e, j)
            <7>1. t \in Nat /\ t > 8
              BY <1>1, <6>1
            <7> HIDE DEF t
            <7>2. (t - 1) * v = t * v - v /\ (t - 1) * v > 0
              BY <7>1
            <7> QED BY <7>2 DEF t
          <6> DEFINE g == (T(e, j) - 1) * v
          <6>5. n2 = g /\ n2 > 0
            <7> HIDE DEF b, c, g
            <7>1. g = c - v /\ g > 0
              BY <6>4 DEF g, c
            <7>2. b \in Nat /\ c \in Nat
              BY <1>10, <6>1
            <7>3. n + 1 = c - v
              <8> DEFINE x == Ahead(v, ph)
              <8>1. n + (b + x) = c + v - 1 /\ b = v + v /\ x = 0 /\ x \in Nat
                BY <2>1, <6>2, <6>3
              <8> HIDE DEF x
              <8> QED BY <7>2, <8>1, BalanceIs
            <7> QED BY <6>2, <7>1, <7>3, Zenon
          <6>6. HeardOf(n2, lows2) = Append(Lows(e, v, N(e) - 1), (T(e, N(e)) - 1) * v)
            BY <6>1, <6>2, <6>5, Zenon DEF HeardOf
          <6> QED BY <1>6, <5>1, <6>1, <6>6, Zenon
        <5> QED BY <5>2, <5>3
      <4>2. CASE ~(p >= 11)
        <5>1. low2 = low /\ p2 <= 11 /\ p <= 11 /\ ~(p2 >= 12) /\ p # 11
          BY <3>1, <4>2
        <5>2. CASE low = 0
          BY <1>5, <1>6, <1>8, <3>1, <5>1, <5>2, Zenon
        <5>3. CASE low = 1
          <6>1. n + (b + Ahead(v, ph)) = c + v - 1 /\ lows2 = Lows(e, v, j - 1) /\ n2 = n + 1
                /\ Level(e, j) = 1 /\ j # 0
            BY <1>4, <1>8, <5>3
          <6>2. n2 + (b2 + Ahead(v, ph2)) = c + v - 1
            <7> HIDE DEF b, c, b2
            <7> QED BY <1>10, <2>1, <3>2, <6>1
          <6> QED BY <1>7, <3>1, <5>1, <5>3, <6>1, <6>2
        <5> QED BY <5>2, <5>3
      <4> QED BY <4>1, <4>2
    <3> QED BY <1>3, <1>12, <2>1, <3>4, <3>5
  <2> QED BY <2>2, <2>3
<1> QED BY <1>11, <1>12

\* The instructions of the transmit program that act on the outside.
LEMMA TxSignals ==
  ASSUME Layout, pc # "off", NEW s \in Machines, P(s) \in 0 .. 13
  PROVE  /\ Executes(s, "irq set") <=> s.on /\ P(s) = 12
         /\ Executes(s, "set pindirs") <=> s.on /\ P(s) \in {5, 8, 11}
         /\ P(s) \in {5, 8, 11} => Fetch(s).arg = IF P(s) = 5 THEN 1 ELSE 0
<1> DEFINE i == Fetch(s)
           g == P(s)
<1>1. g \in {0, 1, 2, 3, 4, 5, 6, 7, 8, 9, 10, 11, 12, 13}
  OBVIOUS
<1>2. /\ g \in {0, 13} => i = I("pull")
      /\ g = 1 => i = I("out y, 1")
      /\ g = 2 => i = I("out x, 31")
      /\ g \in {3, 4, 6, 7, 9, 10} => \E c : \E to : i = Jmp(c, to)
      /\ g \in {5, 8, 11} => i = Arg("set pindirs", IF g = 5 THEN 1 ELSE 0)
      /\ g = 12 => i = I("irq set")
  BY TxInstruction
<1> HIDE DEF i, g
<1>3. /\ g \in {0, 13} => i.op = "pull"
      /\ g = 1 => i.op = "out y, 1"
      /\ g = 2 => i.op = "out x, 31"
      /\ g \in {3, 4, 6, 7, 9, 10} => i.op = "jmp"
      /\ g \in {5, 8, 11} => i.op = "set pindirs" /\ i.arg = IF g = 5 THEN 1 ELSE 0
      /\ g = 12 => i.op = "irq set"
  <2>1. /\ \A n : I(n).op = n
        /\ \A c : \A to : Jmp(c, to).op = "jmp"
        /\ \A v : Arg("set pindirs", v).op = "set pindirs" /\ Arg("set pindirs", v).arg = v
    BY DEF I, Jmp, Arg
  <2>2. g \in {5, 8, 11} => i.op = "set pindirs" /\ i.arg = IF g = 5 THEN 1 ELSE 0
    BY <1>2, <2>1, Zenon
  <2>3. g \in {3, 4, 6, 7, 9, 10} => i.op = "jmp"
    <3>1. g \in {3, 4, 6, 7, 9, 10} => \E c : \E to : i = Jmp(c, to)
      BY <1>2, Zenon
    <3>2. ASSUME NEW c, NEW to, i = Jmp(c, to) PROVE i.op = "jmp"
      BY <2>1, <3>2, Zenon
    <3> QED BY <3>1, <3>2, Zenon
  <2>4. /\ g \in {0, 13} => i.op = "pull"
        /\ g = 1 => i.op = "out y, 1"
        /\ g = 2 => i.op = "out x, 31"
        /\ g = 12 => i.op = "irq set"
    BY <1>2, <2>1, Zenon
  <2> QED BY <2>2, <2>3, <2>4, Zenon
<1>4. i.op = "irq set" <=> g = 12
  BY <1>1, <1>3
<1>5. i.op = "set pindirs" <=> g \in {5, 8, 11}
  BY <1>1, <1>3
<1>6. i.op \in {"irq set", "set pindirs"} => ~Stalls(s, i)
  BY DEF Stalls
<1>7. /\ Executes(s, "irq set") <=> s.on /\ i.op = "irq set" /\ ~Stalls(s, i)
      /\ Executes(s, "set pindirs") <=> s.on /\ i.op = "set pindirs" /\ ~Stalls(s, i)
  BY Zenon DEF Executes, i
<1>8. /\ Executes(s, "irq set") <=> s.on /\ g = 12
      /\ Executes(s, "set pindirs") <=> s.on /\ g \in {5, 8, 11}
  <2>1. i.op = "irq set" => ~Stalls(s, i)
    BY <1>6
  <2>2. i.op = "set pindirs" => ~Stalls(s, i)
    BY <1>6
  <2> QED BY <1>4, <1>5, <1>7, <2>1, <2>2, Zenon
<1>9. g \in {5, 8, 11} => i.arg = IF g = 5 THEN 1 ELSE 0
  BY <1>3
<1> QED BY <1>8, <1>9 DEF i, g

\* The channel puts a word in the FIFO.
Filled(s, w) == [s EXCEPT !.in = Append(@, w)]

Fills(s, w, u) ==
  /\ u \in Machines /\ (u.on <=> s.on) /\ u.pc = s.pc /\ u.x = s.x /\ u.y = s.y
  /\ u.osr = s.osr /\ u.isr = s.isr /\ u.in = Append(s.in, w) /\ u.out = s.out

LEMMA FilledIs ==
  ASSUME NEW s \in Machines, NEW w \in Nat, NEW u, u = Filled(s, w)
  PROVE  Fills(s, w, u)
<1>1. s = MachineOf(s.on, s.pc, s.x, s.y, s.osr, s.isr, s.in, s.out)
  BY Explicit
<1>2. /\ s.on \in BOOLEAN /\ s.pc \in Nat /\ s.x \in Nat /\ s.y \in Nat /\ s.osr \in Nat
      /\ s.isr \in Nat /\ s.in \in Seq(Nat) /\ s.out \in Seq(Nat)
  BY DEF Machines
<1> DEFINE on == s.on
           q == Append(s.in, w)
<1>3. q \in Seq(Nat)
  BY <1>2
<1>4. Filled(s, w) = [s EXCEPT !.in = q]
  BY DEF Filled
<1> HIDE DEF on, q
<1>5. u = MachineOf(on, s.pc, s.x, s.y, s.osr, s.isr, q, s.out)
  <2> DEFINE f == MachineOf(on, s.pc, s.x, s.y, s.osr, s.isr, s.in, s.out)
  <2>1. [f EXCEPT !.in = q] = MachineOf(on, s.pc, s.x, s.y, s.osr, s.isr, q, s.out)
    BY DEF MachineOf
  <2>2. f = s
    BY <1>1 DEF on
  <2> HIDE DEF f
  <2> QED BY <1>4, <2>1, <2>2, Zenon
<1>6. /\ u.on = on /\ u.pc = s.pc /\ u.x = s.x /\ u.y = s.y /\ u.osr = s.osr
      /\ u.isr = s.isr /\ u.in = q /\ u.out = s.out /\ u \in Machines
  BY <1>2, <1>5, <1>3, FieldsOf DEF on, Machines, MachineOf
<1>7. (u.on <=> s.on)
  BY <1>6, Zenon DEF on
<1> QED BY <1>6, <1>7, Zenon DEF q, Fills

\* The frame of an exchange while it is sent: what the machine has still to
\* pull, where it is, and what the line has carried.
Playing(e, v, s, ph, low, n, lows, d, k) ==
  /\ s \in Machines /\ s.out = << >> /\ Len(s.in) <= FIFO
  /\ Queued(e, k, s.in, d) /\ k = Pulled(e, s.in, d)
  /\ Control(e, s, k)
  /\ low \in {0, 1} /\ n \in Nat
  /\ OnWire(e, v, J(s, k), D(s), P(s), ph, low, n, lows)
  /\ s.in = << >> /\ d # << >> => (P(s) = 0 /\ k = 0) \/ P(s) = 1
  /\ ~s.on => P(s) = 0 /\ k = 0

\* Cycles to the end of the frame, the wait for its first word included.
Starved(v, s, k) == IF s.in = << >> /\ k = 0 THEN v ELSE 0
Lasts(e, v, s, ph, k) == Owes(e, v, J(s, k), D(s), ph) + Starved(v, s, k)

\* Where the machine is, and how long the segment still lasts, when it may be.
LEMMA PlaceIs ==
  ASSUME NEW e \in Exchanges, NEW s \in Machines, NEW k, Control(e, s, k)
  PROVE  /\ J(s, k) \in 0 .. N(e) /\ D(s) \in Nat /\ P(s) \in 0 .. 13 /\ k \in Nat
         /\ P(s) # 13 => D(s) > 0
         /\ P(s) = 13 => D(s) = 0 /\ J(s, k) = N(e)
         /\ P(s) = 11 => D(s) = 2 /\ J(s, k) = N(e)
         /\ P(s) = 0 /\ k = 0 => J(s, k) = 0 /\ D(s) = 6
<1>1. N(e) \in Nat \ {0} /\ \A i : Count(e, i) \in Nat
  BY ExchangeIs
<1>2. s.x \in Nat
  BY DEF Machines
<1>3. P(s) \in 0 .. 13 /\ k \in Nat
  BY <1>1 DEF Control
<1>4. J(s, k) \in 0 .. N(e)
  BY <1>1, <1>3 DEF J, Control
<1>5. D(s) \in Nat /\ (P(s) # 13 => D(s) > 0)
  BY <1>2, <1>3 DEF D
<1>6. /\ P(s) = 13 => D(s) = 0 /\ J(s, k) = N(e)
      /\ P(s) = 11 => D(s) = 2 /\ J(s, k) = N(e)
      /\ P(s) = 0 /\ k = 0 => J(s, k) = 0 /\ D(s) = 6
  BY <1>1, <1>3 DEF D, J, Control
<1> QED BY <1>3, <1>4, <1>5, <1>6

\* A cycle of the clock while a frame is sent: the machine executes t out of
\* s, the channel makes it u.
Beats(e, v, ph, s, low, n, lows, d, k, t, u, ph2, low2, n2, lows2, d2, moves) ==
  /\ e \in Exchanges /\ v \in Nat \ {0} /\ ph \in 0 .. v - 1 /\ moves \in BOOLEAN
  /\ Playing(e, v, s, ph, low, n, lows, d, k)
  /\ ph = 0 /\ s.on => Does(s, t)
  /\ ~(ph = 0 /\ s.on) => t = s
  /\ moves <=> d # << >> /\ Len(s.in) < FIFO
  /\ u = IF moves THEN Filled(t, Head(d)) ELSE t
  /\ d2 = After(d, moves)
  /\ low2 = IF ph = 0 /\ s.on /\ P(s) \in {5, 8, 11} THEN IF P(s) = 5 THEN 1 ELSE 0
            ELSE low
  /\ n2 = IF low = 1 THEN n + 1 ELSE 0
  /\ lows2 = IF low = 0 /\ n > 0 THEN Append(lows, n) ELSE lows
  /\ ph2 = (ph + 1) % v

Played(e, v, ph, s, k, u, ph2, low2, n2, lows2, d2, m) ==
  /\ Playing(e, v, u, ph2, low2, n2, lows2, d2, m)
  /\ (u.on <=> s.on)
  /\ P(s) = 13 => P(u) = 13
  /\ ph = 0 /\ s.on /\ P(s) = 12 => P(u) = 13
  /\ Starved(v, u, m) = 0
  /\ (s.on /\ (P(s) # 13 \/ ph # 0)) =>
       Lasts(e, v, u, ph2, m) <= Lasts(e, v, s, ph, k) - 1
  /\ P(u) = 13 => P(s) = 13 \/ (ph = 0 /\ s.on /\ P(s) = 12)
  /\ P(s) <= 2 => P(u) <= P(s) + 1
  /\ Owes(e, v, J(u, m), D(u), ph2) >= Owes(e, v, J(s, k), D(s), ph) - 1
  /\ ph = 0 /\ s.on /\ P(s) = 8 => Owes(e, v, J(u, m), D(u), ph2) >= 9 * v

LEMMA DoesPlace ==
  ASSUME NEW s \in Machines, NEW u, Does(s, u), P(s) \in 0 .. 13
  PROVE  /\ P(u) = 13 => P(s) \in {12, 13}
         /\ P(s) <= 2 => P(u) <= P(s) + 1
<1>1. s.pc \in Nat /\ s.pc = P(s) + 18
  BY DEF Machines, P
<1>2. ASSUME NEW f, \E x, y, osr, in : u = MachineOf(s.on, f, x, y, osr, s.isr, in, s.out)
      PROVE  P(u) = f - 18
  <2>1. PICK x, y, osr, in : u = MachineOf(s.on, f, x, y, osr, s.isr, in, s.out)
    BY <1>2
  <2>2. u.pc = f
    BY <2>1, FieldsOf
  <2> QED BY <2>2 DEF P
<1>3. CASE P(s) = 0
  <2>1. u = s \/ u = MachineOf(s.on, 19, s.x, s.y, Head(s.in), s.isr, Tail(s.in), s.out)
    BY <1>3, Zenon DEF Does
  <2>2. u = s \/ P(u) = 19 - 18
    BY <1>2, <2>1, Zenon
  <2> QED BY <1>1, <1>3, <2>2
<1>4. CASE P(s) = 1
  <2>1. u = MachineOf(s.on, 20, s.x, s.osr % 2, s.osr \div 2, s.isr, s.in, s.out)
    BY <1>4, Zenon DEF Does
  <2>2. P(u) = 20 - 18
    BY <1>2, <2>1, Zenon
  <2> QED BY <1>1, <1>4, <2>2
<1>5. CASE P(s) = 2
  BY <1>5, <1>2, <1>1 DEF Does
<1>6. CASE P(s) = 3
  BY <1>6, <1>2, <1>1 DEF Does
<1>7. CASE P(s) = 4
  BY <1>7, <1>2, <1>1 DEF Does
<1>8. CASE P(s) \in {6, 9}
  <2>1. \E f \in {s.pc, s.pc + 1} :
          u = MachineOf(s.on, f, Decremented(s.x), s.y, s.osr, s.isr, s.in, s.out)
    BY <1>8, Zenon DEF Does
  <2>2. P(u) \in {s.pc - 18, s.pc + 1 - 18}
    <3>1. PICK f : /\ f = s.pc \/ f = s.pc + 1
                   /\ u = MachineOf(s.on, f, Decremented(s.x), s.y, s.osr, s.isr, s.in, s.out)
      BY <2>1, Zenon
    <3>2. P(u) = f - 18
      BY <1>2, <3>1, Zenon
    <3> QED BY ONLY <1>1, <3>1, <3>2
  <2>3. PICK f \in Nat : f = s.pc
    BY <1>1
  <2> DEFINE a == P(s)
             b == P(u)
  <2>4. a = P(s) /\ b = P(u)
    OBVIOUS
  <2> HIDE DEF a, b
  <2>5. f = 24 \/ f = 27
    BY ONLY <1>1, <1>8, <2>3, <2>4
  <2>6. b \in {f - 18, f + 1 - 18}
    BY ONLY <2>2, <2>3, <2>4
  <2>7. b # 13
    BY ONLY <2>5, <2>6
  <2>8. ~(a <= 2)
    BY ONLY <1>8, <2>4
  <2> QED BY ONLY <2>4, <2>7, <2>8
<1>9. CASE P(s) \in {7, 10}
  <2>1. u = MachineOf(s.on, 18, s.x, s.y, s.osr, s.isr, s.in, s.out)
    BY <1>9, Zenon DEF Does
  <2>2. P(u) = 18 - 18
    BY <1>2, <2>1, Zenon
  <2> QED BY <1>1, <1>9, <2>2
<1>10. CASE P(s) \in {5, 8, 11}
  <2>1. u = MachineOf(s.on, s.pc + 1, s.x, s.y, s.osr, s.isr, s.in, s.out)
    BY <1>10, Zenon DEF Does
  <2>2. P(u) = s.pc + 1 - 18
    <3>1. PICK f : f = s.pc + 1
      OBVIOUS
    <3>2. u = MachineOf(s.on, f, s.x, s.y, s.osr, s.isr, s.in, s.out)
      BY <2>1, <3>1, Zenon
    <3>3. P(u) = f - 18
      BY <1>2, <3>2, Zenon
    <3> QED BY ONLY <1>1, <3>1, <3>3
  <2>3. PICK f \in Nat : f = s.pc
    BY <1>1
  <2> DEFINE a == P(s)
             b == P(u)
  <2>4. a = P(s) /\ b = P(u)
    OBVIOUS
  <2> HIDE DEF a, b
  <2>5. f \in {23, 26, 29}
    BY ONLY <1>1, <1>10, <2>3, <2>4
  <2>6. b = f + 1 - 18
    BY ONLY <2>2, <2>3, <2>4
  <2>7. b # 13
    BY ONLY <2>5, <2>6
  <2>8. ~(a <= 2)
    BY ONLY <1>10, <2>4
  <2> QED BY ONLY <2>4, <2>7, <2>8
<1>11. CASE P(s) \in {12, 13}
  BY <1>11
<1> QED BY <1>3, <1>4, <1>5, <1>6, <1>7, <1>8, <1>9, <1>10, <1>11

\* A segment that has begun lasts nine ticks.
LEMMA NineTicks ==
  ASSUME NEW e \in Exchanges, NEW v \in Nat \ {0}, NEW j \in 1 .. N(e), NEW ph \in 0 .. v - 1
  PROVE  Owes(e, v, j, T(e, j), ph) >= 9 * v
<1> DEFINE t == T(e, j)
           g == Togo(e, v, j)
           a == Ahead(v, ph)
<1>1. t \in Nat /\ t > 8 /\ N(e) \in Nat
  BY ExchangeIs
<1>2. g \in Nat
  <2>1. j \in 0 .. N(e)
    BY <1>1
  <2> QED BY <2>1, TogoIs
<1>3. a \in Nat
  BY AheadIs
<1> HIDE DEF t, g, a
<1>4. PICK w \in Nat : t = 9 + w
  <2>1. t - 9 \in Nat /\ t = 9 + (t - 9)
    BY <1>1
  <2> QED BY <2>1
<1>5. t * v = 9 * v + w * v /\ w * v \in Nat
  BY <1>4
<1>6. g + t * v + a >= 9 * v
  <2> DEFINE c == w * v
             d == 9 * v
             b == t * v
  <2>1. b = d + c /\ c \in Nat /\ d \in Nat
    BY <1>5
  <2> HIDE DEF b, c, d
  <2> QED BY <1>2, <1>3, <2>1 DEF b, d
<1> QED BY <1>6 DEF Owes, t, g, a

LEMMA PlayCycle ==
  ASSUME NEW e, NEW v, NEW ph, NEW s, NEW low, NEW n, NEW lows, NEW d, NEW k, NEW t, NEW u,
         NEW ph2, NEW low2, NEW n2, NEW lows2, NEW d2, NEW moves,
         Beats(e, v, ph, s, low, n, lows, d, k, t, u, ph2, low2, n2, lows2, d2, moves)
  PROVE  Played(e, v, ph, s, k, u, ph2, low2, n2, lows2, d2, Pulled(e, u.in, d2))
<1> SUFFICES
      ASSUME e \in Exchanges, v \in Nat \ {0}, ph \in 0 .. v - 1, moves \in BOOLEAN,
             Playing(e, v, s, ph, low, n, lows, d, k),
             ph = 0 /\ s.on => Does(s, t),
             ~(ph = 0 /\ s.on) => t = s,
             moves <=> d # << >> /\ Len(s.in) < FIFO,
             u = (IF moves THEN Filled(t, Head(d)) ELSE t), d2 = After(d, moves),
             low2 = (IF ph = 0 /\ s.on /\ P(s) \in {5, 8, 11} THEN IF P(s) = 5 THEN 1 ELSE 0
                     ELSE low),
             n2 = (IF low = 1 THEN n + 1 ELSE 0),
             lows2 = (IF low = 0 /\ n > 0 THEN Append(lows, n) ELSE lows),
             ph2 = (ph + 1) % v
      PROVE  /\ Playing(e, v, u, ph2, low2, n2, lows2, d2, Pulled(e, u.in, d2))
             /\ (u.on <=> s.on)
             /\ P(s) = 13 => P(u) = 13
             /\ ph = 0 /\ s.on /\ P(s) = 12 => P(u) = 13
             /\ Starved(v, u, Pulled(e, u.in, d2)) = 0
             /\ (s.on /\ (P(s) # 13 \/ ph # 0)) =>
                  Lasts(e, v, u, ph2, Pulled(e, u.in, d2)) <= Lasts(e, v, s, ph, k) - 1
             /\ P(u) = 13 => P(s) = 13 \/ (ph = 0 /\ s.on /\ P(s) = 12)
             /\ P(s) <= 2 => P(u) <= P(s) + 1
             /\ Owes(e, v, J(u, Pulled(e, u.in, d2)), D(u), ph2)
                  >= Owes(e, v, J(s, k), D(s), ph) - 1
             /\ ph = 0 /\ s.on /\ P(s) = 8 =>
                  Owes(e, v, J(u, Pulled(e, u.in, d2)), D(u), ph2) >= 9 * v
  BY Zenon DEF Beats, Played
<1> DEFINE pull == ph = 0 /\ s.on /\ P(s) = 0 /\ s.in # << >>
           tick == ph = 0 /\ s.on /\ P(s) # 13 /\ ~Waits(s)
           m == Plus(k, pull)
<1>1. /\ s \in Machines /\ s.out = << >> /\ Len(s.in) <= FIFO
      /\ Queued(e, k, s.in, d) /\ k = Pulled(e, s.in, d) /\ Control(e, s, k)
      /\ low \in {0, 1} /\ n \in Nat
      /\ OnWire(e, v, J(s, k), D(s), P(s), ph, low, n, lows)
      /\ s.in = << >> /\ d # << >> => (P(s) = 0 /\ k = 0) \/ P(s) = 1
      /\ ~s.on => P(s) = 0 /\ k = 0
  BY Zenon DEF Playing
<1>2. /\ J(s, k) \in 0 .. N(e) /\ D(s) \in Nat /\ P(s) \in 0 .. 13 /\ k \in Nat
      /\ P(s) # 13 => D(s) > 0
      /\ P(s) = 13 => D(s) = 0 /\ J(s, k) = N(e)
      /\ P(s) = 11 => D(s) = 2 /\ J(s, k) = N(e)
      /\ P(s) = 0 /\ k = 0 => J(s, k) = 0 /\ D(s) = 6
  BY <1>1, PlaceIs, Zenon
<1>3. s.in \in Seq(Nat) /\ d \in Seq(Nat) /\ N(e) \in Nat \ {0} /\ FIFO \in Nat \ {0}
  BY <1>1, ExchangeIs, NumbersAre DEF Queued
<1>4. P(s) = 13 => s.in = << >> /\ d = << >>
  <2> SUFFICES ASSUME P(s) = 13 PROVE s.in = << >> /\ d = << >>
    OBVIOUS
  <2>1. N(e) + 1 = N(e) + 1 - Len(s.in) - Len(d)
    BY <1>1 DEF Control, Pulled
  <2>2. Len(s.in) \in Nat /\ Len(d) \in Nat
    BY <1>3
  <2>3. Len(s.in) = 0 /\ Len(d) = 0
    BY <1>3, <2>1, <2>2
  <2> QED BY <1>3, <2>3
<1>5. Waits(s) => k = 0
  <2> SUFFICES ASSUME Waits(s), d = << >> PROVE FALSE
    BY <1>1 DEF Waits
  <2>1. Len(s.in) = 0 /\ Len(d) = 0 /\ k <= N(e)
    BY <1>1 DEF Waits, Control
  <2> QED BY <1>1, <1>3, <2>1 DEF Pulled
<1>6. pull \in BOOLEAN /\ tick \in BOOLEAN
  OBVIOUS
<1>7. s.in # << >> => Head(s.in) = Word(e, k + 1)
  <2> SUFFICES ASSUME s.in # << >> PROVE Head(s.in) = Word(e, k + 1)
    OBVIOUS
  <2> DEFINE q == s.in
  <2>1. q \in Seq(Nat) /\ q # << >> /\ \A i \in 1 .. Len(q) : q[i] = Word(e, k + i)
    BY <1>1, <1>3 DEF Queued
  <2> HIDE DEF q
  <2>2. Head(q) = q[1] /\ 1 \in 1 .. Len(q)
    BY <2>1
  <2> QED BY <2>1, <2>2 DEF q
<1>8. /\ t \in Machines /\ (t.on <=> s.on) /\ t.out = s.out
      /\ t.in = After(s.in, pull) /\ Control(e, t, m)
      /\ ~tick => t = s /\ m = k
      /\ tick /\ P(s) \in {5, 8} =>
           /\ J(t, m) = J(s, k) + 1 /\ J(t, m) \in 1 .. N(e)
           /\ D(s) = 1 /\ D(t) = T(e, J(t, m))
           /\ Level(e, J(t, m)) = IF P(s) = 5 THEN 1 ELSE 0
      /\ tick /\ P(s) \notin {5, 8} => J(t, m) = J(s, k) /\ D(t) = D(s) - 1
      /\ P(t) >= 12 <=> P(s) >= (IF tick THEN 11 ELSE 12)
  <2>1. CASE ph = 0 /\ s.on
    <3>1. Does(s, t) /\ s.on /\ (P(s) = 13 => s.in = << >>)
      BY <1>4, <2>1
    <3>2. (pull <=> P(s) = 0 /\ s.in # << >>) /\ (tick <=> P(s) # 13 /\ ~Waits(s))
      BY <2>1
    <3>3. m = IF P(s) = 0 /\ s.in # << >> THEN k + 1 ELSE k
      BY <3>2, Zenon DEF Plus
    <3> HIDE DEF pull, tick, m
    <3>4. /\ t \in Machines /\ t.on /\ t.out = s.out
          /\ t.in = IF P(s) = 0 /\ s.in # << >> THEN Tail(s.in) ELSE s.in
          /\ Control(e, t, m)
          /\ Waits(s) \/ P(s) = 13 => t = s
          /\ P(s) \in {5, 8} =>
               /\ J(t, m) = J(s, k) + 1 /\ J(t, m) \in 1 .. N(e)
               /\ D(s) = 1 /\ D(t) = T(e, J(t, m))
               /\ Level(e, J(t, m)) = IF P(s) = 5 THEN 1 ELSE 0
          /\ P(s) \notin {5, 8, 13} /\ ~Waits(s) =>
               J(t, m) = J(s, k) /\ D(t) = D(s) - 1
          /\ P(t) >= 12 <=> P(s) >= 11
      <4>1. /\ s \in Machines /\ s.on /\ Control(e, s, k) /\ Does(s, t)
            /\ P(s) = 0 /\ s.in # << >> => Head(s.in) = Word(e, k + 1)
            /\ P(s) = 13 => s.in = << >>
        BY <1>1, <1>7, <3>1, Zenon
      <4>2. Progress(e, s, k, t, m)
        BY <3>3, <4>1, TickControl
      <4> QED BY <4>2, Zenon DEF Progress
    <3>5. t.in = After(s.in, pull)
      BY <3>2, <3>4, Zenon DEF After
    <3>6. ~tick => t = s /\ m = k
      BY <3>2, <3>3, <3>4 DEF Waits
    <3>7. P(t) >= 12 <=> P(s) >= (IF tick THEN 11 ELSE 12)
      BY <3>4, <3>6
    <3>8. tick /\ P(s) \in {5, 8} =>
           /\ J(t, m) = J(s, k) + 1 /\ J(t, m) \in 1 .. N(e)
           /\ D(s) = 1 /\ D(t) = T(e, J(t, m))
           /\ Level(e, J(t, m)) = IF P(s) = 5 THEN 1 ELSE 0
      BY <3>4, Zenon
    <3>9. tick /\ P(s) \notin {5, 8} => J(t, m) = J(s, k) /\ D(t) = D(s) - 1
      BY <3>2, <3>4
    <3> QED BY <3>1, <3>4, <3>5, <3>6, <3>7, <3>8, <3>9, Zenon
  <2>2. CASE ~(ph = 0 /\ s.on)
    <3>1. t = s /\ ~pull /\ ~tick
      BY <2>2
    <3>2. m = k /\ t.in = After(s.in, pull)
      BY <3>1, Zenon DEF After, Plus
    <3> HIDE DEF pull, tick, m
    <3>3. P(t) >= 12 <=> P(s) >= (IF tick THEN 11 ELSE 12)
      BY <3>1
    <3> QED BY <1>1, <3>1, <3>2, <3>3, Zenon
  <2> QED BY <2>1, <2>2
<1>9. /\ u \in Machines /\ (u.on <=> s.on) /\ u.out = << >>
      /\ u.in = Moved(t.in, d, moves)
      /\ u.pc = t.pc /\ u.x = t.x /\ u.y = t.y /\ u.osr = t.osr
  <2>1. CASE moves
    <3> DEFINE w == Head(d)
    <3>1. w \in Nat
      BY <1>3, <2>1
    <3>2. u = Filled(t, w)
      BY <2>1
    <3> HIDE DEF w
    <3>3. /\ u \in Machines /\ (u.on <=> t.on) /\ u.pc = t.pc /\ u.x = t.x /\ u.y = t.y
          /\ u.osr = t.osr /\ u.in = Append(t.in, w) /\ u.out = t.out
      <4>1. t \in Machines
        BY <1>8, Zenon
      <4>2. Fills(t, w, u)
        BY <3>1, <3>2, <4>1, FilledIs
      <4> QED BY <4>2, Zenon DEF Fills
    <3>4. u.in = Moved(t.in, d, moves)
      BY <2>1, <3>3, Zenon DEF Moved, w
    <3> QED BY <1>1, <1>8, <3>3, <3>4, Zenon
  <2>2. CASE ~moves
    BY <2>2, <1>1, <1>8 DEF Moved
  <2> QED BY <2>1, <2>2
<1>10. P(u) = P(t) /\ D(u) = D(t) /\ J(u, m) = J(t, m) /\ Control(e, u, m)
  <2> HIDE DEF m
  <2>1. P(u) = P(t)
    BY <1>9, Zenon DEF P
  <2>2. D(u) = D(t) /\ J(u, m) = J(t, m)
    BY <1>9, <2>1, Zenon DEF D, J
  <2>3. Control(e, u, m)
    BY <1>8, <1>9, <2>1, ControlSame DEF SameControl
  <2> QED BY <2>1, <2>2, <2>3, Zenon
<1>11. /\ Queued(e, m, u.in, d2) /\ m = Pulled(e, u.in, d2)
       /\ Len(u.in) = Plus(Minus(Len(s.in), pull), moves)
       /\ Len(d2) = Minus(Len(d), moves)
  <2> DEFINE in == s.in
             in1 == t.in
             in2 == u.in
  <2>1. /\ Queued(e, k, in, d) /\ k = Pulled(e, in, d) /\ k \in Nat
        /\ pull => in # << >>
        /\ moves => d # << >>
        /\ in1 = After(in, pull) /\ in2 = Moved(in1, d, moves) /\ d2 = After(d, moves)
        /\ m = Plus(k, pull)
    BY <1>1, <1>2, <1>8, <1>9
  <2> HIDE DEF in, in1, in2, pull, m
  <2>2. /\ Queued(e, m, in2, d2) /\ m = Pulled(e, in2, d2)
        /\ Len(in2) = Plus(Minus(Len(in), pull), moves)
        /\ Len(d2) = Minus(Len(d), moves)
    BY <1>6, <2>1, Feeding
  <2> QED BY <2>2 DEF in, in2
<1>12. m \in Nat /\ J(u, m) \in 0 .. N(e) /\ D(u) \in Nat /\ P(u) \in 0 .. 13
  <2> HIDE DEF m
  <2> QED BY <1>9, <1>10, PlaceIs, Zenon
<1>13. /\ OnWire(e, v, J(u, m), D(u), P(u), ph2, low2, n2, lows2)
       /\ low2 \in {0, 1} /\ n2 \in Nat
       /\ tick \/ ph # 0 => Owes(e, v, J(u, m), D(u), ph2) = Owes(e, v, J(s, k), D(s), ph) - 1
       /\ ~tick /\ ph = 0 =>
            Owes(e, v, J(u, m), D(u), ph2) = Owes(e, v, J(s, k), D(s), ph) + v - 1
  <2> DEFINE j == J(s, k)
             j2 == J(u, m)
             r == D(s)
             r2 == D(u)
             p == P(s)
             p2 == P(u)
  <2>1. /\ j \in 0 .. N(e) /\ r \in Nat /\ p \in 0 .. 13 /\ j2 \in 0 .. N(e) /\ r2 \in Nat
        /\ p2 \in 0 .. 13 /\ OnWire(e, v, j, r, p, ph, low, n, lows)
    BY <1>1, <1>2, <1>12
  <2>2. tick => ph = 0 /\ p # 13
    OBVIOUS
  <2>3. ~tick => j2 = j /\ r2 = r /\ p2 = p
    BY <1>8, <1>10
  <2>4. ~tick => low2 = low
    <3>1. ~tick => ~(ph = 0 /\ s.on /\ P(s) \in {5, 8, 11})
      BY DEF Waits
    <3> QED BY <3>1
  <2>5. ~tick /\ ph = 0 => j = 0 \/ p = 13
    BY <1>1, <1>2, <1>5 DEF Waits
  <2>6. tick /\ p \in {5, 8} =>
           j2 = j + 1 /\ r = 1 /\ r2 = T(e, j2) /\ low2 = Level(e, j2)
    BY <1>8, <1>10
  <2>7. tick /\ p \in {5, 8} => p2 <= 11
    <3>1. tick => (P(t) >= 12 <=> p >= 11)
      BY <1>8
    <3>2. p2 = P(t) /\ p2 \in 0 .. 13
      BY <1>10, <1>12
    <3> HIDE DEF tick, p, p2
    <3> QED BY <3>1, <3>2
  <2>8. tick /\ p \notin {5, 8} => j2 = j /\ r2 = r - 1 /\ (p2 >= 12 <=> p >= 11)
    BY <1>8, <1>10
  <2>9. tick /\ p \notin {5, 8} => low2 = IF p = 11 THEN 0 ELSE low
    OBVIOUS
  <2>10. p = 11 => j = N(e) /\ r = 2
    BY <1>2
  <2> HIDE DEF j, j2, r, r2, p, p2, tick, m
  <2>11. low \in {0, 1} /\ n \in Nat
    BY <1>1
  <2>12. /\ OnWire(e, v, j2, r2, p2, ph2, low2, n2, lows2)
         /\ low2 \in {0, 1} /\ n2 \in Nat
         /\ tick \/ ph # 0 => Owes(e, v, j2, r2, ph2) = Owes(e, v, j, r, ph) - 1
         /\ ~tick /\ ph = 0 => Owes(e, v, j2, r2, ph2) = Owes(e, v, j, r, ph) + v - 1
    <3>1. tick => ph = 0 /\ p # 13
      BY <2>2
    <3>2. ~tick => j2 = j /\ r2 = r /\ p2 = p /\ low2 = low
      BY <2>3, <2>4
    <3>3. tick /\ p \in {5, 8} =>
            /\ j2 = j + 1 /\ r = 1 /\ r2 = T(e, j2) /\ low2 = Level(e, j2) /\ p2 <= 11
      BY <2>6, <2>7
    <3>4. tick /\ p \notin {5, 8} =>
            /\ j2 = j /\ r2 = r - 1 /\ low2 = IF p = 11 THEN 0 ELSE low
            /\ p2 >= 12 <=> p >= 11
      BY <2>8, <2>9
    <3>5. PICK b \in BOOLEAN : (b <=> tick)
      BY <1>6
    <3>6. Carries(e, v, ph, j, r, p, low, n, lows, j2, r2, p2, b, low2, n2, lows2, ph2)
      BY <2>1, <2>5, <2>10, <2>11, <3>1, <3>2, <3>3, <3>4, <3>5, Zenon DEF Carries
    <3>7. Carried(e, v, j, r, ph, j2, r2, p2, b, ph2, low2, n2, lows2)
      BY <3>6, WireStep
    <3> QED BY <3>5, <3>7, Zenon DEF Carried
  <2> QED BY <2>12, Zenon DEF j, j2, r, r2, p, p2
<1>14. u.in = << >> /\ d2 # << >> => P(u) = 1
  <2> SUFFICES ASSUME u.in = << >>, d2 # << >> PROVE P(u) = 1
    OBVIOUS
  <2> DEFINE l == Len(s.in)
  <2>1. Plus(Minus(l, pull), moves) = 0 /\ l \in Nat /\ l <= FIFO
    BY <1>1, <1>3, <1>11
  <2>2. d # << >>
    BY DEF After
  <2>3. moves <=> l < FIFO
    BY <2>2
  <2> HIDE DEF l
  <2>4. pull
    <3> SUFFICES ASSUME ~pull PROVE FALSE
      OBVIOUS
    <3>1. Plus(l, moves) = 0
      BY <2>1, Zenon DEF Minus
    <3>2. l = 0 /\ ~moves
      <4>1. CASE moves
        <5>1. l + 1 = 0
          BY <3>1, <4>1, Zenon DEF Plus
        <5> QED BY <2>1, <5>1
      <4>2. CASE ~moves
        BY <3>1, <4>2, Zenon DEF Plus
      <4> QED BY <4>1, <4>2
    <3> QED BY <1>3, <2>3, <3>2
  <2>5. P(t) = 1
    BY <2>4 DEF Does, MachineOf, P
  <2> QED BY <1>10, <2>5
<1>15. ~u.on => P(u) = 0 /\ m = 0
  <2> SUFFICES ASSUME ~u.on PROVE P(u) = 0 /\ m = 0
    OBVIOUS
  <2>1. ~s.on /\ ~tick
    BY <1>9
  <2> HIDE DEF tick, m
  <2> QED BY <1>1, <1>8, <1>10, <2>1, Zenon
<1>16. Len(u.in) <= FIFO
  <2> DEFINE l == Len(s.in)
             l2 == Len(u.in)
  <2>1. l2 = Plus(Minus(l, pull), moves) /\ l \in Nat /\ l <= FIFO /\ (moves => l < FIFO)
    BY <1>1, <1>3, <1>11
  <2> HIDE DEF l, l2, pull
  <2> QED BY <1>3, <2>1 DEF Plus, Minus, l2
<1>17. Starved(v, u, m) = 0
  <2> SUFFICES ASSUME u.in = << >>, m = 0 PROVE FALSE
    BY Zenon DEF Starved
  <2>1. d2 # << >>
    <3>1. 0 = N(e) + 1 - 0 - Len(d2)
      BY <1>11 DEF Pulled
    <3> QED BY <1>3, <3>1
  <2>2. P(u) = 1
    BY <1>14, <2>1
  <2> QED BY <1>10, <2>2 DEF Control
<1>18. (s.on /\ (P(s) # 13 \/ ph # 0)) => Lasts(e, v, u, ph2, m) <= Lasts(e, v, s, ph, k) - 1
  <2> SUFFICES ASSUME s.on, P(s) # 13 \/ ph # 0
               PROVE  Lasts(e, v, u, ph2, m) <= Lasts(e, v, s, ph, k) - 1
    OBVIOUS
  <2> DEFINE a == Owes(e, v, J(s, k), D(s), ph)
             b == Owes(e, v, J(u, m), D(u), ph2)
             g == Starved(v, s, k)
  <2>1. a \in Nat
    <3>1. Togo(e, v, J(s, k)) \in Nat /\ D(s) * v \in Nat /\ Ahead(v, ph) \in Nat
      <4>1. Togo(e, v, J(s, k)) \in Nat
        BY <1>2, TogoIs
      <4>2. D(s) * v \in Nat
        BY <1>2, ProductIs
      <4>3. Ahead(v, ph) \in 0 .. v - 1
        BY AheadIs
      <4> QED BY <4>1, <4>2, <4>3
    <3> QED BY <3>1 DEF Owes
  <2>2. g \in {0, v}
    BY Zenon DEF Starved
  <2>3. tick \/ ph # 0 => b = a - 1
    BY <1>13
  <2>4. ~tick /\ ph = 0 => b = a + v - 1 /\ g = v
    BY <1>5, <1>13 DEF Waits, Starved
  <2>5. Lasts(e, v, u, ph2, m) = b + 0 /\ Lasts(e, v, s, ph, k) = a + g
    BY <1>17 DEF Lasts
  <2> HIDE DEF a, b, g, tick, m
  <2>6. b <= a + g - 1
    BY <2>1, <2>2, <2>3, <2>4
  <2>7. b \in Int
    BY <2>1, <2>3, <2>4
  <2>8. b <= (a + g) - 1 /\ b + 0 = b
    BY <2>1, <2>2, <2>6, <2>7
  <2> QED BY <2>5, <2>8, Zenon
<1>19. P(s) = 13 => P(u) = 13
  <2> SUFFICES ASSUME P(s) = 13 PROVE P(u) = 13
    OBVIOUS
  <2>1. ~tick
    OBVIOUS
  <2>2. t = s
    BY <2>1, <1>8
  <2> HIDE DEF tick, m
  <2> QED BY <1>10, <2>2, Zenon
<1>20. ph = 0 /\ s.on /\ P(s) = 12 => P(u) = 13
  <2> SUFFICES ASSUME ph = 0, s.on, P(s) = 12 PROVE P(u) = 13
    OBVIOUS
  <2>1. t = MachineOf(s.on, s.pc + 1, s.x, s.y, s.osr, s.isr, s.in, s.out)
    BY DEF Does
  <2>2. t.pc = s.pc + 1
    BY <2>1, Zenon DEF MachineOf
  <2>3. s.pc \in Nat
    BY <1>1 DEF Machines
  <2>4. P(t) = 13
    BY <2>2, <2>3 DEF P
  <2> QED BY <1>10, <2>4
<1>21. Playing(e, v, u, ph2, low2, n2, lows2, d2, m)
  <2> HIDE DEF m
  <2> QED BY <1>9, <1>10, <1>11, <1>13, <1>14, <1>15, <1>16, Zenon DEF Playing
<1>22. /\ P(u) = 13 => P(s) = 13 \/ (ph = 0 /\ s.on /\ P(s) = 12)
       /\ P(s) <= 2 => P(u) <= P(s) + 1
  <2>1. CASE ph = 0 /\ s.on
    <3>1. Does(s, t)
      BY <2>1
    <3>2. /\ P(t) = 13 => P(s) \in {12, 13}
          /\ P(s) <= 2 => P(t) <= P(s) + 1
      BY <1>1, <1>2, <3>1, DoesPlace
    <3>3. P(u) = P(t)
      BY <1>10
    <3> HIDE DEF m, tick, pull
    <3> QED BY <2>1, <3>2, <3>3
  <2>2. CASE ~(ph = 0 /\ s.on)
    <3>1. P(u) = P(s) /\ P(s) \in 0 .. 13
      BY <1>2, <1>10, <2>2
    <3> QED BY ONLY <3>1
  <2> QED BY <2>1, <2>2
<1>23. Owes(e, v, J(u, m), D(u), ph2) >= Owes(e, v, J(s, k), D(s), ph) - 1
  <2> DEFINE a == Owes(e, v, J(s, k), D(s), ph)
             b == Owes(e, v, J(u, m), D(u), ph2)
  <2>1. a \in Nat
    <3>1. Togo(e, v, J(s, k)) \in Nat /\ D(s) * v \in Nat /\ Ahead(v, ph) \in Nat
      <4>1. Togo(e, v, J(s, k)) \in Nat
        BY <1>2, TogoIs
      <4>2. D(s) * v \in Nat
        BY <1>2, ProductIs
      <4>3. Ahead(v, ph) \in 0 .. v - 1
        BY AheadIs
      <4> QED BY <4>1, <4>2, <4>3
    <3> QED BY <3>1 DEF Owes
  <2>2. (tick \/ ph # 0 => b = a - 1) /\ (~tick /\ ph = 0 => b = a + v - 1)
    BY <1>13
  <2> HIDE DEF a, b, tick, m
  <2>3. b >= a - 1
    BY <2>1, <2>2
  <2> QED BY <2>3 DEF a, b
<1>24. ph = 0 /\ s.on /\ P(s) = 8 => Owes(e, v, J(u, m), D(u), ph2) >= 9 * v
  <2> SUFFICES ASSUME ph = 0, s.on, P(s) = 8
               PROVE  Owes(e, v, J(u, m), D(u), ph2) >= 9 * v
    OBVIOUS
  <2>1. tick
    BY DEF Waits
  <2> HIDE DEF tick, m
  <2>2. J(u, m) \in 1 .. N(e) /\ D(u) = T(e, J(u, m))
    BY <1>8, <1>10, <2>1
  <2>3. ph2 \in 0 .. v - 1
    BY AheadIs
  <2> DEFINE j == J(u, m)
             c == D(u)
  <2>4. j \in 1 .. N(e) /\ c = T(e, j)
    BY <2>2
  <2> HIDE DEF j, c
  <2>5. Owes(e, v, j, T(e, j), ph2) >= 9 * v
    BY <2>3, <2>4, NineTicks
  <2>6. Owes(e, v, j, c, ph2) >= 9 * v
    BY <2>4, <2>5
  <2> QED BY <2>6 DEF j, c
<1> QED BY <1>9, <1>11, <1>17, <1>18, <1>19, <1>20, <1>21, <1>22, <1>23, <1>24, Zenon

-----------------------------------------------------------------------------
(***************************************************************************)
(* The receive machine.                                                    *)
(***************************************************************************)
LEMMA RxRegistersAre ==
  ASSUME NEW s \in Machines
  PROVE  /\ Registers(s, I("mov y, osr")) =
              MachineOf(s.on, s.pc, s.x, s.osr, s.osr, s.isr, s.in, s.out)
         /\ Registers(s, I("mov x, osr")) =
              MachineOf(s.on, s.pc, s.osr, s.y, s.osr, s.isr, s.in, s.out)
         /\ Registers(s, I("mov isr, x")) =
              MachineOf(s.on, s.pc, s.x, s.y, s.osr, s.x, s.in, s.out)
         /\ Registers(s, I("mov isr, null")) =
              MachineOf(s.on, s.pc, s.x, s.y, s.osr, 0, s.in, s.out)
         /\ Registers(s, Arg("set x", 1)) =
              MachineOf(s.on, s.pc, 1, s.y, s.osr, s.isr, s.in, s.out)
         /\ Registers(s, I("in x, 1")) =
              MachineOf(s.on, s.pc, s.x, s.y, s.osr, 2 * s.isr + (s.x % 2), s.in, s.out)
         /\ Registers(s, I("in null, 1")) =
              MachineOf(s.on, s.pc, s.x, s.y, s.osr, 2 * s.isr, s.in, s.out)
         /\ Registers(s, I("push")) =
              MachineOf(s.on, s.pc, s.x, s.y, s.osr, 0, s.in, Append(s.out, s.isr))
         /\ \A to : Registers(s, Jmp("y--", to)) =
              MachineOf(s.on, s.pc, s.x, Decremented(s.y), s.osr, s.isr, s.in, s.out)
         /\ Registers(s, I("wait irq")) = s
         /\ \A v : Registers(s, Arg("wait pin", v)) = s
         /\ \A to : \A c \in {"", "pin"} : Registers(s, Jmp(c, to)) = s
<1> DEFINE m == MachineOf(s.on, s.pc, s.x, s.y, s.osr, s.isr, s.in, s.out)
<1>1. s = m
  BY Explicit
<1>2. /\ [m EXCEPT !.y = s.osr] = MachineOf(s.on, s.pc, s.x, s.osr, s.osr, s.isr, s.in, s.out)
      /\ [m EXCEPT !.x = s.osr] = MachineOf(s.on, s.pc, s.osr, s.y, s.osr, s.isr, s.in, s.out)
      /\ [m EXCEPT !.isr = s.x] = MachineOf(s.on, s.pc, s.x, s.y, s.osr, s.x, s.in, s.out)
      /\ [m EXCEPT !.isr = 0] = MachineOf(s.on, s.pc, s.x, s.y, s.osr, 0, s.in, s.out)
      /\ [m EXCEPT !.x = 1] = MachineOf(s.on, s.pc, 1, s.y, s.osr, s.isr, s.in, s.out)
  BY DEF MachineOf
<1>3. /\ [m EXCEPT !.isr = 2 * s.isr + (s.x % 2)] =
           MachineOf(s.on, s.pc, s.x, s.y, s.osr, 2 * s.isr + (s.x % 2), s.in, s.out)
      /\ [m EXCEPT !.isr = 2 * s.isr] =
           MachineOf(s.on, s.pc, s.x, s.y, s.osr, 2 * s.isr, s.in, s.out)
      /\ [m EXCEPT !.y = Decremented(s.y)] =
           MachineOf(s.on, s.pc, s.x, Decremented(s.y), s.osr, s.isr, s.in, s.out)
  BY DEF MachineOf
<1>4. [s EXCEPT !.out = Append(s.out, s.isr), !.isr = 0] =
        MachineOf(s.on, s.pc, s.x, s.y, s.osr, 0, s.in, Append(s.out, s.isr))
  <2> DEFINE v == Append(s.out, s.isr)
  <2> HIDE DEF v
  <2>1. [m EXCEPT !.out = v] = MachineOf(s.on, s.pc, s.x, s.y, s.osr, s.isr, s.in, v)
    BY DEF MachineOf
  <2>2. [MachineOf(s.on, s.pc, s.x, s.y, s.osr, s.isr, s.in, v) EXCEPT !.isr = 0]
          = MachineOf(s.on, s.pc, s.x, s.y, s.osr, 0, s.in, v)
    BY DEF MachineOf
  <2>3. [s EXCEPT !.out = v, !.isr = 0] = [[s EXCEPT !.out = v] EXCEPT !.isr = 0]
    OBVIOUS
  <2> HIDE DEF m
  <2>4. [s EXCEPT !.out = v, !.isr = 0] = MachineOf(s.on, s.pc, s.x, s.y, s.osr, 0, s.in, v)
    BY <1>1, <2>1, <2>2, <2>3, Zenon
  <2> QED BY <2>4 DEF v
<1>5. /\ Registers(s, I("mov y, osr")) = [s EXCEPT !.y = s.osr]
      /\ Registers(s, I("mov x, osr")) = [s EXCEPT !.x = s.osr]
      /\ Registers(s, I("mov isr, x")) = [s EXCEPT !.isr = s.x]
      /\ Registers(s, I("mov isr, null")) = [s EXCEPT !.isr = 0]
  BY DEF Registers, I
<1>6. /\ Registers(s, I("in x, 1")) = [s EXCEPT !.isr = 2 * s.isr + (s.x % 2)]
      /\ Registers(s, I("in null, 1")) = [s EXCEPT !.isr = 2 * s.isr]
      /\ Registers(s, I("push")) = [s EXCEPT !.out = Append(s.out, s.isr), !.isr = 0]
      /\ Registers(s, I("wait irq")) = s
  BY DEF Registers, I
<1>7. /\ Registers(s, Arg("set x", 1)) = [s EXCEPT !.x = 1]
      /\ \A v : Registers(s, Arg("wait pin", v)) = s
  BY DEF Registers, Arg
<1>8. /\ \A to : Registers(s, Jmp("y--", to)) = [s EXCEPT !.y = Decremented(s.y)]
      /\ \A to : \A c \in {"", "pin"} : Registers(s, Jmp(c, to)) = s
  BY DEF Registers, Jmp
<1> HIDE DEF m
<1>9. /\ Registers(s, I("mov y, osr")) = [m EXCEPT !.y = s.osr]
      /\ Registers(s, I("mov x, osr")) = [m EXCEPT !.x = s.osr]
      /\ Registers(s, I("mov isr, x")) = [m EXCEPT !.isr = s.x]
      /\ Registers(s, I("mov isr, null")) = [m EXCEPT !.isr = 0]
  BY <1>1, <1>5, Zenon
<1>10. /\ Registers(s, I("in x, 1")) = [m EXCEPT !.isr = 2 * s.isr + (s.x % 2)]
       /\ Registers(s, I("in null, 1")) = [m EXCEPT !.isr = 2 * s.isr]
       /\ Registers(s, Arg("set x", 1)) = [m EXCEPT !.x = 1]
       /\ \A to : Registers(s, Jmp("y--", to)) = [m EXCEPT !.y = Decremented(s.y)]
  BY <1>1, <1>6, <1>7, <1>8, Zenon
<1>11. Registers(s, I("push")) =
         MachineOf(s.on, s.pc, s.x, s.y, s.osr, 0, s.in, Append(s.out, s.isr))
  BY <1>4, <1>6, Zenon
<1> QED BY <1>2, <1>3, <1>6, <1>7, <1>8, <1>9, <1>10, <1>11, Zenon

\* What an instruction of the receive programs does; f is the next one.
Steps(s, i, f, u) ==
  /\ Stalls(s, i) => u = s
  /\ ~Stalls(s, i) =>
       /\ i = I("pull") =>
            u = MachineOf(s.on, f, s.x, s.y, Head(s.in), s.isr, Tail(s.in), s.out)
       /\ i = I("mov y, osr") =>
            u = MachineOf(s.on, f, s.x, s.osr, s.osr, s.isr, s.in, s.out)
       /\ i = I("mov x, osr") =>
            u = MachineOf(s.on, f, s.osr, s.y, s.osr, s.isr, s.in, s.out)
       /\ i = I("mov isr, x") =>
            u = MachineOf(s.on, f, s.x, s.y, s.osr, s.x, s.in, s.out)
       /\ i = I("mov isr, null") =>
            u = MachineOf(s.on, f, s.x, s.y, s.osr, 0, s.in, s.out)
       /\ i = Arg("set x", 1) =>
            u = MachineOf(s.on, f, 1, s.y, s.osr, s.isr, s.in, s.out)
       /\ i = I("in x, 1") =>
            u = MachineOf(s.on, f, s.x, s.y, s.osr, 2 * s.isr + (s.x % 2), s.in, s.out)
       /\ i = I("in null, 1") =>
            u = MachineOf(s.on, f, s.x, s.y, s.osr, 2 * s.isr, s.in, s.out)
       /\ i = I("push") =>
            u = MachineOf(s.on, f, s.x, s.y, s.osr, 0, s.in, Append(s.out, s.isr))
       /\ \A to : i = Jmp("x--", to) =>
            u = MachineOf(s.on, f, Decremented(s.x), s.y, s.osr, s.isr, s.in, s.out)
       /\ \A to : i = Jmp("y--", to) =>
            u = MachineOf(s.on, f, s.x, Decremented(s.y), s.osr, s.isr, s.in, s.out)
       /\ \/ i = I("wait irq")
          \/ \E v : i = Arg("wait pin", v)
          \/ \E to : \E c \in {"", "pin"} : i = Jmp(c, to)
          => u = MachineOf(s.on, f, s.x, s.y, s.osr, s.isr, s.in, s.out)

LEMMA RxSteps ==
  ASSUME NEW s \in Machines, s.on
  PROVE  Steps(s, Fetch(s), Following(s, Fetch(s)), Stepped(s))
<1> DEFINE i == Fetch(s)
           f == Following(s, i)
           u == Stepped(s)
           on == s.on
           at == s.pc
<1>1. Stalls(s, i) => u = s
  BY Zenon DEF Stepped
<1>2. s = MachineOf(on, at, s.x, s.y, s.osr, s.isr, s.in, s.out)
  BY Explicit
<1>3. ~Stalls(s, i) => u = Jumped(Registers(s, i), f)
  BY Zenon DEF Stepped, Jumped
<1> HIDE DEF i, f, u, on, at
<1>4. ASSUME ~Stalls(s, i), i = I("pull")
      PROVE  u = MachineOf(on, f, s.x, s.y, Head(s.in), s.isr, Tail(s.in), s.out)
  <2>1. Registers(s, i) = MachineOf(on, at, s.x, s.y, Head(s.in), s.isr, Tail(s.in), s.out)
    BY <1>4, RegistersAre, Zenon DEF on, at
  <2> DEFINE h == Head(s.in)
             w == Tail(s.in)
  <2> HIDE DEF h, w
  <2>2. Jumped(MachineOf(on, at, s.x, s.y, h, s.isr, w, s.out), f)
          = MachineOf(on, f, s.x, s.y, h, s.isr, w, s.out)
    BY DEF Jumped, MachineOf
  <2> USE DEF h, w
  <2> QED BY <1>3, <1>4, <2>1, <2>2, Zenon
<1>5. ASSUME ~Stalls(s, i), i = I("mov y, osr")
      PROVE  u = MachineOf(on, f, s.x, s.osr, s.osr, s.isr, s.in, s.out)
  <2>1. Registers(s, i) = MachineOf(on, at, s.x, s.osr, s.osr, s.isr, s.in, s.out)
    BY <1>5, RxRegistersAre, Zenon DEF on, at
  <2>2. Jumped(MachineOf(on, at, s.x, s.osr, s.osr, s.isr, s.in, s.out), f)
          = MachineOf(on, f, s.x, s.osr, s.osr, s.isr, s.in, s.out)
    BY DEF Jumped, MachineOf
  <2> QED BY <1>3, <1>5, <2>1, <2>2, Zenon
<1>6. ASSUME ~Stalls(s, i), i = I("mov x, osr")
      PROVE  u = MachineOf(on, f, s.osr, s.y, s.osr, s.isr, s.in, s.out)
  <2>1. Registers(s, i) = MachineOf(on, at, s.osr, s.y, s.osr, s.isr, s.in, s.out)
    BY <1>6, RxRegistersAre, Zenon DEF on, at
  <2>2. Jumped(MachineOf(on, at, s.osr, s.y, s.osr, s.isr, s.in, s.out), f)
          = MachineOf(on, f, s.osr, s.y, s.osr, s.isr, s.in, s.out)
    BY DEF Jumped, MachineOf
  <2> QED BY <1>3, <1>6, <2>1, <2>2, Zenon
<1>7. ASSUME ~Stalls(s, i), i = I("mov isr, x")
      PROVE  u = MachineOf(on, f, s.x, s.y, s.osr, s.x, s.in, s.out)
  <2>1. Registers(s, i) = MachineOf(on, at, s.x, s.y, s.osr, s.x, s.in, s.out)
    BY <1>7, RxRegistersAre, Zenon DEF on, at
  <2>2. Jumped(MachineOf(on, at, s.x, s.y, s.osr, s.x, s.in, s.out), f)
          = MachineOf(on, f, s.x, s.y, s.osr, s.x, s.in, s.out)
    BY DEF Jumped, MachineOf
  <2> QED BY <1>3, <1>7, <2>1, <2>2, Zenon
<1>8. ASSUME ~Stalls(s, i), i = I("mov isr, null")
      PROVE  u = MachineOf(on, f, s.x, s.y, s.osr, 0, s.in, s.out)
  <2>1. Registers(s, i) = MachineOf(on, at, s.x, s.y, s.osr, 0, s.in, s.out)
    BY <1>8, RxRegistersAre, Zenon DEF on, at
  <2>2. Jumped(MachineOf(on, at, s.x, s.y, s.osr, 0, s.in, s.out), f)
          = MachineOf(on, f, s.x, s.y, s.osr, 0, s.in, s.out)
    BY DEF Jumped, MachineOf
  <2> QED BY <1>3, <1>8, <2>1, <2>2, Zenon
<1>9. ASSUME ~Stalls(s, i), i = Arg("set x", 1)
      PROVE  u = MachineOf(on, f, 1, s.y, s.osr, s.isr, s.in, s.out)
  <2>1. Registers(s, i) = MachineOf(on, at, 1, s.y, s.osr, s.isr, s.in, s.out)
    BY <1>9, RxRegistersAre, Zenon DEF on, at
  <2>2. Jumped(MachineOf(on, at, 1, s.y, s.osr, s.isr, s.in, s.out), f)
          = MachineOf(on, f, 1, s.y, s.osr, s.isr, s.in, s.out)
    BY DEF Jumped, MachineOf
  <2> QED BY <1>3, <1>9, <2>1, <2>2, Zenon
<1>10. ASSUME ~Stalls(s, i), i = I("in x, 1")
      PROVE  u = MachineOf(on, f, s.x, s.y, s.osr, 2 * s.isr + (s.x % 2), s.in, s.out)
  <2>1. Registers(s, i) = MachineOf(on, at, s.x, s.y, s.osr, 2 * s.isr + (s.x % 2), s.in, s.out)
    BY <1>10, RxRegistersAre, Zenon DEF on, at
  <2>2. Jumped(MachineOf(on, at, s.x, s.y, s.osr, 2 * s.isr + (s.x % 2), s.in, s.out), f)
          = MachineOf(on, f, s.x, s.y, s.osr, 2 * s.isr + (s.x % 2), s.in, s.out)
    BY DEF Jumped, MachineOf
  <2> QED BY <1>3, <1>10, <2>1, <2>2, Zenon
<1>11. ASSUME ~Stalls(s, i), i = I("in null, 1")
      PROVE  u = MachineOf(on, f, s.x, s.y, s.osr, 2 * s.isr, s.in, s.out)
  <2>1. Registers(s, i) = MachineOf(on, at, s.x, s.y, s.osr, 2 * s.isr, s.in, s.out)
    BY <1>11, RxRegistersAre, Zenon DEF on, at
  <2>2. Jumped(MachineOf(on, at, s.x, s.y, s.osr, 2 * s.isr, s.in, s.out), f)
          = MachineOf(on, f, s.x, s.y, s.osr, 2 * s.isr, s.in, s.out)
    BY DEF Jumped, MachineOf
  <2> QED BY <1>3, <1>11, <2>1, <2>2, Zenon
<1>12. ASSUME ~Stalls(s, i), i = I("push")
      PROVE  u = MachineOf(on, f, s.x, s.y, s.osr, 0, s.in, Append(s.out, s.isr))
  <2> DEFINE w == Append(s.out, s.isr)
  <2>1. Registers(s, i) = MachineOf(on, at, s.x, s.y, s.osr, 0, s.in, w)
    BY <1>12, RxRegistersAre, Zenon DEF on, at
  <2> HIDE DEF w
  <2>2. Jumped(MachineOf(on, at, s.x, s.y, s.osr, 0, s.in, w), f)
          = MachineOf(on, f, s.x, s.y, s.osr, 0, s.in, w)
    BY DEF Jumped, MachineOf
  <2>3. u = MachineOf(on, f, s.x, s.y, s.osr, 0, s.in, w)
    BY <1>3, <1>12, <2>1, <2>2, Zenon
  <2> QED BY <2>3 DEF w
<1>13. ASSUME ~Stalls(s, i), NEW to, i = Jmp("x--", to)
      PROVE  u = MachineOf(on, f, Decremented(s.x), s.y, s.osr, s.isr, s.in, s.out)
  <2>1. Registers(s, i) = MachineOf(on, at, Decremented(s.x), s.y, s.osr, s.isr, s.in, s.out)
    BY <1>13, RegistersAre, Zenon DEF on, at
  <2>2. Jumped(MachineOf(on, at, Decremented(s.x), s.y, s.osr, s.isr, s.in, s.out), f)
          = MachineOf(on, f, Decremented(s.x), s.y, s.osr, s.isr, s.in, s.out)
    BY DEF Jumped, MachineOf
  <2> QED BY <1>3, <1>13, <2>1, <2>2, Zenon
<1>14. ASSUME ~Stalls(s, i), NEW to, i = Jmp("y--", to)
      PROVE  u = MachineOf(on, f, s.x, Decremented(s.y), s.osr, s.isr, s.in, s.out)
  <2>1. Registers(s, i) = MachineOf(on, at, s.x, Decremented(s.y), s.osr, s.isr, s.in, s.out)
    BY <1>14, RxRegistersAre, Zenon DEF on, at
  <2>2. Jumped(MachineOf(on, at, s.x, Decremented(s.y), s.osr, s.isr, s.in, s.out), f)
          = MachineOf(on, f, s.x, Decremented(s.y), s.osr, s.isr, s.in, s.out)
    BY DEF Jumped, MachineOf
  <2> QED BY <1>3, <1>14, <2>1, <2>2, Zenon
<1>15. ASSUME ~Stalls(s, i), (\/ i = I("wait irq")
           \/ \E v : i = Arg("wait pin", v)
           \/ \E to : \E c \in {"", "pin"} : i = Jmp(c, to))
      PROVE  u = MachineOf(on, f, s.x, s.y, s.osr, s.isr, s.in, s.out)
  <2>1. Registers(s, i) = s
    <3>1. CASE i = I("wait irq")
      BY <3>1, RxRegistersAre, Zenon
    <3>2. ASSUME NEW v, i = Arg("wait pin", v) PROVE Registers(s, i) = s
      <4>1. Registers(s, Arg("wait pin", v)) = s
        BY RxRegistersAre
      <4> QED BY <3>2, <4>1, Zenon
    <3>3. ASSUME NEW to, NEW c \in {"", "pin"}, i = Jmp(c, to) PROVE Registers(s, i) = s
      <4>1. Registers(s, Jmp(c, to)) = s
        BY RxRegistersAre
      <4> QED BY <3>3, <4>1, Zenon
    <3> QED BY <1>15, <3>1, <3>2, <3>3, Zenon
  <2>2. Jumped(MachineOf(on, at, s.x, s.y, s.osr, s.isr, s.in, s.out), f)
          = MachineOf(on, f, s.x, s.y, s.osr, s.isr, s.in, s.out)
    BY DEF Jumped, MachineOf
  <2> QED BY <1>2, <1>3, <1>15, <2>1, <2>2, Zenon
<1>16. Steps(s, i, f, u)
  <2>1. CASE Stalls(s, i)
    BY <1>1, <2>1, Zenon DEF Steps
  <2>2. CASE ~Stalls(s, i)
    <3>1. /\ i = I("pull") =>
               u = MachineOf(on, f, s.x, s.y, Head(s.in), s.isr, Tail(s.in), s.out)
          /\ i = I("mov y, osr") =>
               u = MachineOf(on, f, s.x, s.osr, s.osr, s.isr, s.in, s.out)
          /\ i = I("mov x, osr") =>
               u = MachineOf(on, f, s.osr, s.y, s.osr, s.isr, s.in, s.out)
          /\ i = I("mov isr, x") =>
               u = MachineOf(on, f, s.x, s.y, s.osr, s.x, s.in, s.out)
      BY <1>4, <1>5, <1>6, <1>7, <2>2, Zenon
    <3>2. /\ i = I("mov isr, null") =>
               u = MachineOf(on, f, s.x, s.y, s.osr, 0, s.in, s.out)
          /\ i = Arg("set x", 1) =>
               u = MachineOf(on, f, 1, s.y, s.osr, s.isr, s.in, s.out)
          /\ i = I("in x, 1") =>
               u = MachineOf(on, f, s.x, s.y, s.osr, 2 * s.isr + (s.x % 2), s.in, s.out)
          /\ i = I("in null, 1") =>
               u = MachineOf(on, f, s.x, s.y, s.osr, 2 * s.isr, s.in, s.out)
      BY <1>8, <1>9, <1>10, <1>11, <2>2, Zenon
    <3>3. /\ i = I("push") =>
               u = MachineOf(on, f, s.x, s.y, s.osr, 0, s.in, Append(s.out, s.isr))
          /\ \A to : i = Jmp("x--", to) =>
               u = MachineOf(on, f, Decremented(s.x), s.y, s.osr, s.isr, s.in, s.out)
          /\ \A to : i = Jmp("y--", to) =>
               u = MachineOf(on, f, s.x, Decremented(s.y), s.osr, s.isr, s.in, s.out)
      BY <1>12, <1>13, <1>14, <2>2, Zenon
    <3>4. \/ i = I("wait irq")
          \/ \E v : i = Arg("wait pin", v)
          \/ \E to : \E c \in {"", "pin"} : i = Jmp(c, to)
          => u = MachineOf(on, f, s.x, s.y, s.osr, s.isr, s.in, s.out)
      BY <1>15, <2>2, Zenon
    <3> QED BY <2>2, <3>1, <3>2, <3>3, <3>4, Zenon DEF Steps, on
  <2> QED BY <2>1, <2>2, Zenon
<1> QED BY <1>16 DEF i, f, u

\* Where the receive machine is in its program.
Q(s) == s.pc - offset

LEMMA RxProgram ==
  /\ swim_rx_width[1] = I("pull")
  /\ swim_rx_width[2] = I("mov y, osr")
  /\ swim_rx_width[3] = I("pull")
  /\ swim_rx_width[4] = I("wait irq")
  /\ swim_rx_width[5] = I("mov x, osr")
  /\ swim_rx_width[6] = Arg("wait pin", 0)
  /\ swim_rx_width[7] = Jmp("pin", 8)
  /\ swim_rx_width[8] = Jmp("x--", 6)
  /\ swim_rx_width[9] = I("mov isr, x")
  /\ swim_rx_width[10] = I("push")
  /\ swim_rx_width[11] = Jmp("y--", 4)
  /\ swim_rx_decode[1] = I("pull")
  /\ swim_rx_decode[2] = I("mov y, osr")
  /\ swim_rx_decode[3] = I("pull")
  /\ swim_rx_decode[4] = I("wait irq")
  /\ swim_rx_decode[5] = I("mov isr, null")
  /\ swim_rx_decode[6] = I("mov x, osr")
  /\ swim_rx_decode[7] = Arg("wait pin", 0)
  /\ swim_rx_decode[8] = Jmp("pin", 12)
  /\ swim_rx_decode[9] = Jmp("x--", 7)
  /\ swim_rx_decode[10] = Arg("wait pin", 1)
  /\ swim_rx_decode[11] = I("in null, 1")
  /\ swim_rx_decode[12] = Jmp("", 15)
  /\ swim_rx_decode[13] = Arg("set x", 1)
  /\ swim_rx_decode[14] = Arg("wait pin", 1)
  /\ swim_rx_decode[15] = I("in x, 1")
  /\ swim_rx_decode[16] = Jmp("y--", 5)
  /\ swim_rx_decode[17] = I("push")
BY DEF swim_rx_width, swim_rx_decode

LEMMA RxPlaces ==
  ASSUME Layout, pc # "off"
  PROVE  /\ Places(mode, offset) = offset .. 17 /\ offset \in {1, 7}
         /\ offset + Len(Program[mode]) = 18
         /\ mode = "width" <=> offset = 7
<1>1. CASE mode = "width"
  BY <1>1, Lengths DEF Places, Layout, Spot
<1>2. CASE mode = "decode"
  BY <1>2, Lengths DEF Places, Layout, Spot
<1> QED BY <1>1, <1>2 DEF Layout

LEMMA RxFetch ==
  ASSUME Layout, pc # "off", NEW s, s.pc \in offset .. 17
  PROVE  /\ Where(s) = At(mode, offset) /\ Fetch(s) = Program[mode][Q(s) + 1]
         /\ \A i : Following(s, i) =
              IF i.op = "jmp" /\ Taken(s, i.cond) THEN offset + i.to
              ELSE IF s.pc = 17 THEN offset ELSE s.pc + 1
<1>1. Places("waveform", 18) = 18 .. 31
  BY Lengths DEF Places
<1>2. s.pc \in Places(mode, offset) /\ s.pc \notin Places("waveform", 18)
  BY <1>1, RxPlaces
<1>3. At(mode, offset) \in loaded
      /\ \A m \in loaded : s.pc \in Places(m.prog, m.off) => m = At(mode, offset)
  BY <1>2 DEF Layout, At
<1>4. At(mode, offset).prog = mode /\ At(mode, offset).off = offset
  BY DEF At
<1>5. Where(s) = At(mode, offset)
  BY <1>2, <1>3, <1>4 DEF Where
<1>6. Fetch(s) = Program[mode][Q(s) + 1]
  BY <1>4, <1>5, Zenon DEF Fetch, Q
<1>7. (s.pc = offset + Len(Program[mode]) - 1) <=> s.pc = 17
  BY RxPlaces
<1>8. ASSUME NEW i
      PROVE  Following(s, i) =
               IF i.op = "jmp" /\ Taken(s, i.cond) THEN offset + i.to
               ELSE IF s.pc = 17 THEN offset ELSE s.pc + 1
  BY <1>4, <1>5, <1>7, Zenon DEF Following
<1> QED BY <1>5, <1>6, <1>8, Zenon

LEMMA RxInstruction ==
  ASSUME Layout, pc # "off", NEW s, s.pc \in offset .. 17
  PROVE  /\ mode = "width" =>
              /\ Q(s) = 0 => Fetch(s) = I("pull")
              /\ Q(s) = 1 => Fetch(s) = I("mov y, osr")
              /\ Q(s) = 2 => Fetch(s) = I("pull")
              /\ Q(s) = 3 => Fetch(s) = I("wait irq")
              /\ Q(s) = 4 => Fetch(s) = I("mov x, osr")
              /\ Q(s) = 5 => Fetch(s) = Arg("wait pin", 0)
              /\ Q(s) = 6 => Fetch(s) = Jmp("pin", 8)
              /\ Q(s) = 7 => Fetch(s) = Jmp("x--", 6)
              /\ Q(s) = 8 => Fetch(s) = I("mov isr, x")
              /\ Q(s) = 9 => Fetch(s) = I("push")
              /\ Q(s) = 10 => Fetch(s) = Jmp("y--", 4)
         /\ mode = "decode" =>
              /\ Q(s) = 0 => Fetch(s) = I("pull")
              /\ Q(s) = 1 => Fetch(s) = I("mov y, osr")
              /\ Q(s) = 2 => Fetch(s) = I("pull")
              /\ Q(s) = 3 => Fetch(s) = I("wait irq")
              /\ Q(s) = 4 => Fetch(s) = I("mov isr, null")
              /\ Q(s) = 5 => Fetch(s) = I("mov x, osr")
              /\ Q(s) = 6 => Fetch(s) = Arg("wait pin", 0)
              /\ Q(s) = 7 => Fetch(s) = Jmp("pin", 12)
              /\ Q(s) = 8 => Fetch(s) = Jmp("x--", 7)
              /\ Q(s) = 9 => Fetch(s) = Arg("wait pin", 1)
              /\ Q(s) = 10 => Fetch(s) = I("in null, 1")
              /\ Q(s) = 11 => Fetch(s) = Jmp("", 15)
              /\ Q(s) = 12 => Fetch(s) = Arg("set x", 1)
              /\ Q(s) = 13 => Fetch(s) = Arg("wait pin", 1)
              /\ Q(s) = 14 => Fetch(s) = I("in x, 1")
              /\ Q(s) = 15 => Fetch(s) = Jmp("y--", 5)
              /\ Q(s) = 16 => Fetch(s) = I("push")
<1> DEFINE q == Q(s) + 1
<1>1. Q(s) \in Int /\ q = Q(s) + 1
  BY RxPlaces DEF Q
<1>2. Fetch(s) = Program[mode][q]
  BY RxFetch, Zenon
<1> HIDE DEF q
<1>3. /\ mode = "width" => \A n : q = n => Fetch(s) = swim_rx_width[n]
      /\ mode = "decode" => \A n : q = n => Fetch(s) = swim_rx_decode[n]
  BY <1>2, Lengths, Zenon
<1>4. /\ Q(s) = 0 => q = 1
      /\ Q(s) = 1 => q = 2
      /\ Q(s) = 2 => q = 3
      /\ Q(s) = 3 => q = 4
      /\ Q(s) = 4 => q = 5
      /\ Q(s) = 5 => q = 6
      /\ Q(s) = 6 => q = 7
      /\ Q(s) = 7 => q = 8
      /\ Q(s) = 8 => q = 9
      /\ Q(s) = 9 => q = 10
      /\ Q(s) = 10 => q = 11
      /\ Q(s) = 11 => q = 12
      /\ Q(s) = 12 => q = 13
      /\ Q(s) = 13 => q = 14
      /\ Q(s) = 14 => q = 15
      /\ Q(s) = 15 => q = 16
      /\ Q(s) = 16 => q = 17
  BY <1>1
<1>5. mode = "width" =>
        /\ Q(s) = 0 => Fetch(s) = swim_rx_width[1]
        /\ Q(s) = 1 => Fetch(s) = swim_rx_width[2]
        /\ Q(s) = 2 => Fetch(s) = swim_rx_width[3]
        /\ Q(s) = 3 => Fetch(s) = swim_rx_width[4]
        /\ Q(s) = 4 => Fetch(s) = swim_rx_width[5]
        /\ Q(s) = 5 => Fetch(s) = swim_rx_width[6]
        /\ Q(s) = 6 => Fetch(s) = swim_rx_width[7]
        /\ Q(s) = 7 => Fetch(s) = swim_rx_width[8]
        /\ Q(s) = 8 => Fetch(s) = swim_rx_width[9]
        /\ Q(s) = 9 => Fetch(s) = swim_rx_width[10]
        /\ Q(s) = 10 => Fetch(s) = swim_rx_width[11]
  BY <1>3, <1>4, Zenon
<1>6. mode = "decode" =>
        /\ Q(s) = 0 => Fetch(s) = swim_rx_decode[1]
        /\ Q(s) = 1 => Fetch(s) = swim_rx_decode[2]
        /\ Q(s) = 2 => Fetch(s) = swim_rx_decode[3]
        /\ Q(s) = 3 => Fetch(s) = swim_rx_decode[4]
        /\ Q(s) = 4 => Fetch(s) = swim_rx_decode[5]
        /\ Q(s) = 5 => Fetch(s) = swim_rx_decode[6]
        /\ Q(s) = 6 => Fetch(s) = swim_rx_decode[7]
        /\ Q(s) = 7 => Fetch(s) = swim_rx_decode[8]
        /\ Q(s) = 8 => Fetch(s) = swim_rx_decode[9]
        /\ Q(s) = 9 => Fetch(s) = swim_rx_decode[10]
        /\ Q(s) = 10 => Fetch(s) = swim_rx_decode[11]
        /\ Q(s) = 11 => Fetch(s) = swim_rx_decode[12]
        /\ Q(s) = 12 => Fetch(s) = swim_rx_decode[13]
        /\ Q(s) = 13 => Fetch(s) = swim_rx_decode[14]
        /\ Q(s) = 14 => Fetch(s) = swim_rx_decode[15]
        /\ Q(s) = 15 => Fetch(s) = swim_rx_decode[16]
        /\ Q(s) = 16 => Fetch(s) = swim_rx_decode[17]
  BY <1>3, <1>4, Zenon
<1>7. mode = "width" =>
        /\ Q(s) = 0 => Fetch(s) = I("pull")
        /\ Q(s) = 1 => Fetch(s) = I("mov y, osr")
        /\ Q(s) = 2 => Fetch(s) = I("pull")
        /\ Q(s) = 3 => Fetch(s) = I("wait irq")
        /\ Q(s) = 4 => Fetch(s) = I("mov x, osr")
        /\ Q(s) = 5 => Fetch(s) = Arg("wait pin", 0)
        /\ Q(s) = 6 => Fetch(s) = Jmp("pin", 8)
        /\ Q(s) = 7 => Fetch(s) = Jmp("x--", 6)
        /\ Q(s) = 8 => Fetch(s) = I("mov isr, x")
        /\ Q(s) = 9 => Fetch(s) = I("push")
        /\ Q(s) = 10 => Fetch(s) = Jmp("y--", 4)
  BY <1>5, RxProgram
<1>8. mode = "decode" =>
        /\ Q(s) = 0 => Fetch(s) = I("pull")
        /\ Q(s) = 1 => Fetch(s) = I("mov y, osr")
        /\ Q(s) = 2 => Fetch(s) = I("pull")
        /\ Q(s) = 3 => Fetch(s) = I("wait irq")
        /\ Q(s) = 4 => Fetch(s) = I("mov isr, null")
        /\ Q(s) = 5 => Fetch(s) = I("mov x, osr")
        /\ Q(s) = 6 => Fetch(s) = Arg("wait pin", 0)
        /\ Q(s) = 7 => Fetch(s) = Jmp("pin", 12)
        /\ Q(s) = 8 => Fetch(s) = Jmp("x--", 7)
        /\ Q(s) = 9 => Fetch(s) = Arg("wait pin", 1)
        /\ Q(s) = 10 => Fetch(s) = I("in null, 1")
        /\ Q(s) = 11 => Fetch(s) = Jmp("", 15)
        /\ Q(s) = 12 => Fetch(s) = Arg("set x", 1)
        /\ Q(s) = 13 => Fetch(s) = Arg("wait pin", 1)
        /\ Q(s) = 14 => Fetch(s) = I("in x, 1")
        /\ Q(s) = 15 => Fetch(s) = Jmp("y--", 5)
        /\ Q(s) = 16 => Fetch(s) = I("push")
  BY <1>6, RxProgram
<1> QED BY <1>7, <1>8, Zenon

LEMMA DecrementedIs ==
  ASSUME NEW n \in Nat
  PROVE  Decremented(n) \in Nat
<1>1. REG \in Nat \ {0}
  BY NumbersAre
<1>2. n + REG - 1 \in Nat
  BY <1>1
<1>3. (n + REG - 1) % REG \in Nat
  BY <1>1, <1>2
<1> QED BY <1>3 DEF Decremented

\* Between the pulls before a frame and the word after an answer, the machine
\* keeps what it is to count and touches neither FIFO.
Counting == {I("mov x, osr"), I("mov isr, x"), I("mov isr, null"), I("in x, 1"),
             I("in null, 1"), Arg("set x", 1)}
Waiting == {I("wait irq"), Arg("wait pin", 0), Arg("wait pin", 1), Jmp("", 15),
            Jmp("pin", 8), Jmp("pin", 12)}
Looping == {Jmp("x--", 6), Jmp("x--", 7)}

Kept(s, f, u) ==
  \E x \in Nat, osr \in Nat, isr \in Nat :
    u = MachineOf(s.on, f, x, s.y, osr, isr, s.in, s.out)

LEMMA KeptIs ==
  ASSUME NEW s \in Machines, s.on, Fetch(s) \in Counting \cup Waiting \cup Looping
  PROVE  Stepped(s) = s \/ Kept(s, Following(s, Fetch(s)), Stepped(s))
<1> DEFINE i == Fetch(s)
           f == Following(s, i)
           u == Stepped(s)
<1>1. Steps(s, i, f, u)
  BY RxSteps
<1>2. /\ s.x \in Nat /\ s.osr \in Nat /\ s.isr \in Nat /\ Decremented(s.x) \in Nat
      /\ 2 * s.isr + (s.x % 2) \in Nat /\ 2 * s.isr \in Nat /\ 0 \in Nat /\ 1 \in Nat
  <2>1. s.x \in Nat /\ s.osr \in Nat /\ s.isr \in Nat
    BY DEF Machines
  <2>2. Decremented(s.x) \in Nat
    BY <2>1, DecrementedIs
  <2>3. s.x % 2 \in Nat
    BY <2>1
  <2>4. 2 * s.isr + (s.x % 2) \in Nat
    BY <2>1, <2>3
  <2> QED BY <2>1, <2>2, <2>4
<1>3. i \in Counting \cup Waiting \cup Looping
  OBVIOUS
<1> HIDE DEF i, f, u
<1>4. Stalls(s, i) => u = s
  BY <1>1, Zenon DEF Steps
<1> SUFFICES ASSUME ~Stalls(s, i) PROVE Kept(s, f, u)
  <2>1. u = s \/ Kept(s, f, u)
    BY <1>4
  <2> QED BY <2>1 DEF u, f, i
<1>5. ASSUME NEW x \in Nat, NEW osr \in Nat, NEW isr \in Nat,
             u = MachineOf(s.on, f, x, s.y, osr, isr, s.in, s.out)
      PROVE  Kept(s, f, u)
  BY <1>5, Zenon DEF Kept
<1>6. CASE i \in Counting
  <2>1. CASE i = I("mov x, osr")
    BY <1>1, <2>1, <1>2, <1>5, Zenon DEF Steps
  <2>2. CASE i = I("mov isr, x")
    BY <1>1, <2>2, <1>2, <1>5, Zenon DEF Steps
  <2>3. CASE i = I("mov isr, null")
    <3>1. u = MachineOf(s.on, f, s.x, s.y, s.osr, 0, s.in, s.out)
      BY <1>1, <2>3, Zenon DEF Steps
    <3> QED BY <1>2, <1>5, <3>1, Zenon
  <2>4. CASE i = I("in x, 1")
    <3>1. u = MachineOf(s.on, f, s.x, s.y, s.osr, 2 * s.isr + (s.x % 2), s.in, s.out)
      BY <1>1, <2>4, Zenon DEF Steps
    <3> QED BY <1>2, <1>5, <3>1, Zenon
  <2>5. CASE i = I("in null, 1")
    <3>1. u = MachineOf(s.on, f, s.x, s.y, s.osr, 2 * s.isr, s.in, s.out)
      BY <1>1, <2>5, Zenon DEF Steps
    <3> QED BY <1>2, <1>5, <3>1, Zenon
  <2>6. CASE i = Arg("set x", 1)
    BY <1>1, <2>6, <1>2, <1>5, Zenon DEF Steps
  <2> QED BY <1>6, <2>1, <2>2, <2>3, <2>4, <2>5, <2>6, Zenon DEF Counting
<1>7. CASE i \in Waiting
  <2>1. \/ i = I("wait irq")
        \/ \E v : i = Arg("wait pin", v)
        \/ \E to : \E c \in {"", "pin"} : i = Jmp(c, to)
    BY <1>7, Zenon DEF Waiting
  <2>2. u = MachineOf(s.on, f, s.x, s.y, s.osr, s.isr, s.in, s.out)
    BY <1>1, <2>1, Zenon DEF Steps
  <2> QED BY <1>2, <1>5, <2>2, Zenon
<1>8. CASE i \in Looping
  <2>1. \E to : i = Jmp("x--", to)
    BY <1>8, Zenon DEF Looping
  <2>2. u = MachineOf(s.on, f, Decremented(s.x), s.y, s.osr, s.isr, s.in, s.out)
    BY <1>1, <2>1, Zenon DEF Steps
  <2> QED BY <1>2, <1>5, <2>2, Zenon
<1> QED BY <1>3, <1>6, <1>7, <1>8

\* Where the receive machine goes.
Place(s, f) ==
  /\ Q(s) \in {0, 1, 2, 3} => f = s.pc + 1
  /\ Q(s) >= 3 => f \in offset + 3 .. 17 \/ (s.pc = 17 /\ f = offset)

LEMMA RxPlace ==
  ASSUME Layout, pc # "off", NEW s, s.pc \in offset .. 17
  PROVE  Place(s, Following(s, Fetch(s)))
<1> DEFINE i == Fetch(s)
           f == Following(s, i)
           q == Q(s)
<1>1. offset \in {1, 7} /\ (mode = "width" <=> offset = 7) /\ mode \in {"width", "decode"}
  BY RxPlaces DEF Layout
<1>2. q \in 0 .. 16 /\ s.pc = offset + q /\ (mode = "width" => q <= 10)
  BY <1>1 DEF Q
<1>3. f = IF i.op = "jmp" /\ Taken(s, i.cond) THEN offset + i.to
          ELSE IF s.pc = 17 THEN offset ELSE s.pc + 1
  BY RxFetch
<1>4. /\ \A n : n # "jmp" => I(n).op # "jmp"
      /\ \A v : Arg("wait pin", v).op # "jmp"
      /\ \A v : Arg("set x", v).op # "jmp"
      /\ Jmp("pin", 8).to = 8 /\ Jmp("x--", 6).to = 6 /\ Jmp("y--", 4).to = 4
      /\ Jmp("pin", 12).to = 12 /\ Jmp("x--", 7).to = 7 /\ Jmp("", 15).to = 15
      /\ Jmp("y--", 5).to = 5
  BY DEF I, Arg, Jmp
<1> HIDE DEF i, f, q
<1>5. CASE mode = "width"
  <2>1. /\ q = 0 => i = I("pull")
        /\ q = 1 => i = I("mov y, osr")
        /\ q = 2 => i = I("pull")
        /\ q = 3 => i = I("wait irq")
        /\ q = 4 => i = I("mov x, osr")
        /\ q = 5 => i = Arg("wait pin", 0)
        /\ q = 6 => i = Jmp("pin", 8)
        /\ q = 7 => i = Jmp("x--", 6)
        /\ q = 8 => i = I("mov isr, x")
        /\ q = 9 => i = I("push")
        /\ q = 10 => i = Jmp("y--", 4)
    BY <1>5, RxInstruction DEF i, q
  <2>2. /\ q \in {0, 1, 2, 3, 4, 5, 8, 9} => i.op # "jmp"
        /\ q = 6 => i.to = 8
        /\ q = 7 => i.to = 6
        /\ q = 10 => i.to = 4
    <3>1. q = 0 => i.op # "jmp"
      BY <1>4, <2>1, Zenon
    <3>2. q = 1 => i.op # "jmp"
      BY <1>4, <2>1, Zenon
    <3>3. q = 2 => i.op # "jmp"
      BY <1>4, <2>1, Zenon
    <3>4. q = 3 => i.op # "jmp"
      BY <1>4, <2>1, Zenon
    <3>5. q = 4 => i.op # "jmp"
      BY <1>4, <2>1, Zenon
    <3>6. q = 5 => i.op # "jmp"
      BY <1>4, <2>1, Zenon
    <3>7. q = 8 => i.op # "jmp"
      BY <1>4, <2>1, Zenon
    <3>8. q = 9 => i.op # "jmp"
      BY <1>4, <2>1, Zenon
    <3>9.
          /\ q = 6 => i.to = 8
          /\ q = 7 => i.to = 6
          /\ q = 10 => i.to = 4
      BY <1>4, <2>1, Zenon
    <3> QED BY <3>1, <3>2, <3>3, <3>4, <3>5, <3>6, <3>7, <3>8, <3>9
  <2>3. q \in {0, 1, 2, 3, 4, 5, 6, 7, 8, 9, 10}
    BY <1>2, <1>5
  <2>4. /\ q \in {0, 1, 2, 3, 4, 5, 8, 9} => f = s.pc + 1
        /\ q = 6 => f \in {offset + 8, s.pc + 1}
        /\ q = 7 => f \in {offset + 6, s.pc + 1}
        /\ q = 10 => f \in {offset + 4, offset}
    BY <1>1, <1>2, <1>3, <1>5, <2>2
  <2>5. q \in {0, 1, 2, 3} => f = s.pc + 1
    BY <2>4
  <2>6. q >= 3 => f \in offset + 3 .. 17 \/ (s.pc = 17 /\ f = offset)
    BY <1>1, <1>2, <1>5, <2>3, <2>4
  <2> QED BY <2>5, <2>6, Zenon DEF Place, i, f, q
<1>6. CASE mode = "decode"
  <2>1. /\ q = 0 => i = I("pull")
        /\ q = 1 => i = I("mov y, osr")
        /\ q = 2 => i = I("pull")
        /\ q = 3 => i = I("wait irq")
        /\ q = 4 => i = I("mov isr, null")
        /\ q = 5 => i = I("mov x, osr")
        /\ q = 6 => i = Arg("wait pin", 0)
        /\ q = 7 => i = Jmp("pin", 12)
        /\ q = 8 => i = Jmp("x--", 7)
        /\ q = 9 => i = Arg("wait pin", 1)
        /\ q = 10 => i = I("in null, 1")
        /\ q = 11 => i = Jmp("", 15)
        /\ q = 12 => i = Arg("set x", 1)
        /\ q = 13 => i = Arg("wait pin", 1)
        /\ q = 14 => i = I("in x, 1")
        /\ q = 15 => i = Jmp("y--", 5)
        /\ q = 16 => i = I("push")
    BY <1>6, RxInstruction DEF i, q
  <2>2. /\ q \in {0, 1, 2, 3, 4, 5, 6, 9, 10, 12, 13, 14, 16} => i.op # "jmp"
        /\ q = 7 => i.to = 12
        /\ q = 8 => i.to = 7
        /\ q = 11 => i.to = 15
        /\ q = 15 => i.to = 5
    <3>1. q = 0 => i.op # "jmp"
      BY <1>4, <2>1, Zenon
    <3>2. q = 1 => i.op # "jmp"
      BY <1>4, <2>1, Zenon
    <3>3. q = 2 => i.op # "jmp"
      BY <1>4, <2>1, Zenon
    <3>4. q = 3 => i.op # "jmp"
      BY <1>4, <2>1, Zenon
    <3>5. q = 4 => i.op # "jmp"
      BY <1>4, <2>1, Zenon
    <3>6. q = 5 => i.op # "jmp"
      BY <1>4, <2>1, Zenon
    <3>7. q = 6 => i.op # "jmp"
      BY <1>4, <2>1, Zenon
    <3>8. q = 9 => i.op # "jmp"
      BY <1>4, <2>1, Zenon
    <3>9. q = 10 => i.op # "jmp"
      BY <1>4, <2>1, Zenon
    <3>10. q = 12 => i.op # "jmp"
      BY <1>4, <2>1, Zenon
    <3>11. q = 13 => i.op # "jmp"
      BY <1>4, <2>1, Zenon
    <3>12. q = 14 => i.op # "jmp"
      BY <1>4, <2>1, Zenon
    <3>13. q = 16 => i.op # "jmp"
      BY <1>4, <2>1, Zenon
    <3>14.
          /\ q = 7 => i.to = 12
          /\ q = 8 => i.to = 7
          /\ q = 11 => i.to = 15
          /\ q = 15 => i.to = 5
      BY <1>4, <2>1, Zenon
    <3> QED BY <3>1, <3>2, <3>3, <3>4, <3>5, <3>6, <3>7, <3>8, <3>9, <3>10, <3>11, <3>12,
               <3>13, <3>14
  <2>3. q \in {0, 1, 2, 3, 4, 5, 6, 7, 8, 9, 10, 11, 12, 13, 14, 15, 16}
    BY <1>2
  <2>4. /\ q \in {0, 1, 2, 3, 4, 5, 6, 9, 10, 12, 13, 14} => f = s.pc + 1
        /\ q = 16 => f = offset /\ s.pc = 17
        /\ q = 7 => f \in {offset + 12, s.pc + 1}
        /\ q = 8 => f \in {offset + 7, s.pc + 1}
        /\ q = 11 => f \in {offset + 15, s.pc + 1}
        /\ q = 15 => f \in {offset + 5, s.pc + 1}
    BY <1>1, <1>2, <1>3, <1>6, <2>2
  <2>5. q \in {0, 1, 2, 3} => f = s.pc + 1
    BY <2>4
  <2>6. q >= 3 => f \in offset + 3 .. 17 \/ (s.pc = 17 /\ f = offset)
    BY <1>1, <1>2, <1>6, <2>3, <2>4
  <2> QED BY <2>5, <2>6, Zenon DEF Place, i, f, q
<1> QED BY <1>1, <1>5, <1>6

\* What the receive machine has been given, and what it has answered, at each
\* point of its program: it takes the two words before it waits for the
\* interrupt, and waits for two more after the word it answers.
Hearing(s) ==
  /\ s \in Machines /\ s.pc \in offset .. 17
  /\ Q(s) = 0 => \/ s.in = << >>
                 \/ Len(s.in) = 2 /\ (mode = "width" => Head(s.in) = 0)
  /\ Q(s) = 1 => Len(s.in) = 1 /\ (mode = "width" => s.osr = 0)
  /\ Q(s) = 2 => Len(s.in) = 1
  /\ Q(s) >= 3 => s.in = << >>
  /\ mode = "width" /\ Q(s) >= 2 => s.y = 0
  /\ s.out # << >> =>
       Len(s.out) = 1 /\ s.in = << >> /\ (Q(s) = 0 \/ (mode = "width" /\ Q(s) = 10))

Early(s) == s.pc \in offset .. offset + 3 /\ s.out = << >>

Hears(s, u) ==
  /\ Hearing(u) /\ (u.on <=> s.on)
  /\ Early(s) /\ ~irq => Early(u)

LEMMA HearingIs ==
  ASSUME NEW s, Hearing(s), Layout, pc # "off"
  PROVE  /\ s \in Machines /\ s.pc \in offset .. 17 /\ Q(s) \in 0 .. 16 /\ s.pc = offset + Q(s)
         /\ mode = "width" => Q(s) <= 10
         /\ s.on \in BOOLEAN /\ s.x \in Nat /\ s.y \in Nat /\ s.osr \in Nat /\ s.isr \in Nat
         /\ s.in \in Seq(Nat) /\ s.out \in Seq(Nat) /\ s.pc \in Nat
<1>1. s \in Machines /\ s.pc \in offset .. 17
  BY DEF Hearing
<1>2. Q(s) \in 0 .. 16 /\ s.pc = offset + Q(s) /\ (mode = "width" => Q(s) <= 10)
  <2>1. offset \in {1, 7} /\ (mode = "width" => offset = 7)
    BY RxPlaces
  <2> QED BY <1>1, <2>1 DEF Q
<1>3. /\ s.on \in BOOLEAN /\ s.x \in Nat /\ s.y \in Nat /\ s.osr \in Nat /\ s.isr \in Nat
      /\ s.in \in Seq(Nat) /\ s.out \in Seq(Nat) /\ s.pc \in Nat
  BY <1>1 DEF Machines
<1> QED BY <1>1, <1>2, <1>3, Zenon

LEMMA RxPulls ==
  ASSUME Layout, pc # "off", NEW s, Hearing(s), s.on, Q(s) \in {0, 2}, s.in # << >>
  PROVE  Hears(s, Stepped(s))
<1> DEFINE i == Fetch(s)
           f == Following(s, i)
           u == Stepped(s)
           on == s.on
           h == Head(s.in)
           w == Tail(s.in)
<1>1. i = I("pull") /\ f = s.pc + 1
  <2>1. s.pc \in offset .. 17 /\ mode \in {"width", "decode"}
    BY DEF Hearing, Layout
  <2>2. Place(s, f)
    BY <2>1, RxPlace
  <2> HIDE DEF i, f
  <2>3. f = s.pc + 1
    BY <2>2 DEF Place
  <2>4. i = I("pull")
    BY <2>1, RxInstruction DEF i
  <2> QED BY <2>3, <2>4
<1>2. Steps(s, i, f, u)
  BY RxSteps DEF Hearing
<1>3. /\ s \in Machines /\ s.pc \in offset .. 17 /\ Q(s) \in 0 .. 16 /\ s.pc = offset + Q(s)
      /\ s.on \in BOOLEAN /\ s.x \in Nat /\ s.y \in Nat /\ s.osr \in Nat /\ s.isr \in Nat
      /\ s.in \in Seq(Nat) /\ s.out \in Seq(Nat) /\ s.pc \in Nat
  BY HearingIs, Zenon
<1>4. h \in Nat /\ w \in Seq(Nat) /\ Len(w) = Len(s.in) - 1
  BY <1>3
<1> HIDE DEF i, f, u, on, h, w
<1>5. ~Stalls(s, i)
  <2>1. i.op = "pull"
    BY <1>1 DEF I
  <2> QED BY <2>1 DEF Stalls
<1>6. u = MachineOf(on, s.pc + 1, s.x, s.y, h, s.isr, w, s.out)
  BY <1>1, <1>2, <1>5, Zenon DEF Steps, h, w, on
<1>7. /\ u.on = on /\ u.pc = s.pc + 1 /\ u.x = s.x /\ u.y = s.y /\ u.osr = h
      /\ u.isr = s.isr /\ u.in = w /\ u.out = s.out
  BY <1>6, FieldsOf
<1>8. u \in Machines
  BY <1>3, <1>4, <1>6 DEF on, Machines, MachineOf
<1>9. offset \in {1, 7} /\ s.pc + 1 \in offset .. 17 /\ Q(u) = Q(s) + 1
  <2>1. offset \in {1, 7}
    BY RxPlaces
  <2> DEFINE c == s.pc
             q == Q(s)
             at == u.pc
  <2>2. at = c + 1 /\ c = offset + q /\ c \in Nat /\ q \in {0, 2}
    BY <1>3, <1>7
  <2>3. Q(u) = at - offset
    BY DEF Q
  <2> HIDE DEF c, q, at
  <2>4. at - offset = q + 1 /\ c + 1 \in offset .. 17
    BY <2>1, <2>2
  <2>5. Q(u) = q + 1 /\ c + 1 \in offset .. 17
    BY <2>3, <2>4
  <2> QED BY <2>1, <2>5 DEF q, c
<1>10. s.out = << >>
  BY DEF Hearing
<1>11. CASE Q(s) = 0
  <2>1. Len(s.in) = 2 /\ (mode = "width" => h = 0)
    BY <1>11 DEF Hearing, h
  <2>2. Q(u) = 1 /\ Len(w) = 1
    BY <1>4, <1>9, <1>11, <2>1
  <2> HIDE DEF Q
  <2>3. Hearing(u)
    BY <1>7, <1>8, <1>9, <1>10, <2>1, <2>2 DEF Hearing
  <2>4. Early(u)
    BY <1>3, <1>7, <1>9, <1>10, <1>11 DEF Early
  <2> QED BY <1>7, <2>3, <2>4, Zenon DEF Hears, u, on
<1>12. CASE Q(s) = 2
  <2>1. Len(s.in) = 1 /\ (mode = "width" => s.y = 0)
    BY <1>12 DEF Hearing
  <2>2. Q(u) = 3 /\ w = << >>
    <3>1. Len(w) = 0
      BY <1>4, <2>1
    <3> QED BY <1>4, <1>9, <1>12, <3>1
  <2>3. Hearing(u)
    BY <1>7, <1>8, <1>9, <1>10, <2>1, <2>2 DEF Hearing
  <2>4. Early(u)
    BY <1>3, <1>7, <1>9, <1>10, <1>12 DEF Early
  <2> QED BY <1>7, <2>3, <2>4, Zenon DEF Hears, u, on
<1> QED BY <1>11, <1>12

LEMMA RxTakesCount ==
  ASSUME Layout, pc # "off", NEW s, Hearing(s), s.on, Q(s) = 1
  PROVE  Hears(s, Stepped(s))
<1> DEFINE i == Fetch(s)
           f == Following(s, i)
           u == Stepped(s)
           on == s.on
<1>1. i = I("mov y, osr") /\ f = s.pc + 1
  <2>1. s.pc \in offset .. 17 /\ mode \in {"width", "decode"}
    BY DEF Hearing, Layout
  <2>2. Place(s, f)
    BY <2>1, RxPlace
  <2> HIDE DEF i, f
  <2>3. f = s.pc + 1
    BY <2>2 DEF Place
  <2>4. i = I("mov y, osr")
    BY <2>1, RxInstruction DEF i
  <2> QED BY <2>3, <2>4
<1>2. Steps(s, i, f, u)
  BY RxSteps DEF Hearing
<1>3. /\ s \in Machines /\ s.pc \in offset .. 17 /\ Q(s) \in 0 .. 16 /\ s.pc = offset + Q(s)
      /\ s.on \in BOOLEAN /\ s.x \in Nat /\ s.y \in Nat /\ s.osr \in Nat /\ s.isr \in Nat
      /\ s.in \in Seq(Nat) /\ s.out \in Seq(Nat) /\ s.pc \in Nat
  BY HearingIs, Zenon
<1> HIDE DEF i, f, u, on
<1>4. ~Stalls(s, i)
  <2>1. i.op = "mov y, osr"
    BY <1>1 DEF I
  <2> QED BY <2>1 DEF Stalls
<1>5. u = MachineOf(on, s.pc + 1, s.x, s.osr, s.osr, s.isr, s.in, s.out)
  BY <1>1, <1>2, <1>4, Zenon DEF Steps, on
<1>6. /\ u.on = on /\ u.pc = s.pc + 1 /\ u.x = s.x /\ u.y = s.osr /\ u.osr = s.osr
      /\ u.isr = s.isr /\ u.in = s.in /\ u.out = s.out
  BY <1>5, FieldsOf
<1>7. u \in Machines
  BY <1>3, <1>5 DEF on, Machines, MachineOf
<1>8. offset \in {1, 7} /\ s.pc + 1 \in offset .. 17 /\ Q(u) = 2
  <2>1. offset \in {1, 7}
    BY RxPlaces
  <2>2. s.pc = offset + 1 /\ u.pc = s.pc + 1
    BY <1>3, <1>6
  <2> QED BY <2>1, <2>2 DEF Q
<1>9. s.out = << >> /\ Len(s.in) = 1 /\ (mode = "width" => s.osr = 0)
  BY DEF Hearing
<1>10. Hearing(u)
  BY <1>6, <1>7, <1>8, <1>9 DEF Hearing
<1>11. Early(u)
  BY <1>3, <1>6, <1>8, <1>9 DEF Early
<1> QED BY <1>6, <1>10, <1>11, Zenon DEF Hears, u, on

\* An instruction that is neither a pull nor the push nor the count of pulses.
Keeps(s) ==
  /\ Q(s) >= 3 /\ s.pc # 17 /\ Fetch(s) \in Counting \cup Waiting \cup Looping
  /\ Q(s) = 3 => Fetch(s) = I("wait irq")

LEMMA RxKeeps ==
  ASSUME Layout, pc # "off", NEW s, Hearing(s), s.on, Keeps(s)
  PROVE  Hears(s, Stepped(s))
<1> DEFINE i == Fetch(s)
           f == Following(s, i)
           u == Stepped(s)
           on == s.on
<1>0. Q(s) >= 3 /\ s.pc # 17
  BY Zenon DEF Keeps
<1>1. /\ s \in Machines /\ s.pc \in offset .. 17 /\ Q(s) \in 0 .. 16 /\ s.pc = offset + Q(s)
      /\ s.on \in BOOLEAN /\ s.x \in Nat /\ s.y \in Nat /\ s.osr \in Nat /\ s.isr \in Nat
      /\ s.in \in Seq(Nat) /\ s.out \in Seq(Nat) /\ s.pc \in Nat
      /\ mode = "width" => Q(s) <= 10
  BY HearingIs, Zenon
<1>2. offset \in {1, 7} /\ (mode = "width" => offset = 7) /\ mode \in {"width", "decode"}
  BY RxPlaces DEF Layout
<1>3. s.in = << >> /\ s.out = << >> /\ (mode = "width" => s.y = 0)
  BY <1>0, <1>1, <1>2 DEF Hearing
<1>4. f \in offset + 3 .. 17
  <2>1. Place(s, f)
    BY <1>1, RxPlace
  <2> HIDE DEF f
  <2> QED BY <1>0, <1>1, <2>1 DEF Place
<1>5. u = s \/ Kept(s, f, u)
  <2>1. Fetch(s) \in Counting \cup Waiting \cup Looping
    BY Zenon DEF Keeps
  <2> QED BY <1>1, <2>1, KeptIs, Zenon
<1>6. Q(s) = 3 /\ ~irq => u = s
  <2> SUFFICES ASSUME Q(s) = 3, ~irq PROVE u = s
    OBVIOUS
  <2>1. i = I("wait irq")
    BY Zenon DEF Keeps
  <2> HIDE DEF i
  <2>2. i.op = "wait irq"
    BY <2>1 DEF I
  <2>3. Stalls(s, i)
    BY <2>2 DEF Stalls
  <2> USE DEF i
  <2> QED BY <2>3, Zenon DEF Stepped
<1> HIDE DEF i, f, u, on
<1>7. CASE u = s
  BY <1>7, Zenon DEF Hears, u
<1>8. ASSUME NEW x \in Nat, NEW osr \in Nat, NEW isr \in Nat,
             u = MachineOf(s.on, f, x, s.y, osr, isr, s.in, s.out), ~(Q(s) = 3 /\ ~irq)
      PROVE  Hears(s, u)
  <2>1. u = MachineOf(on, f, x, s.y, osr, isr, s.in, s.out)
    BY <1>8, Zenon DEF on
  <2>2. u.on = on /\ u.pc = f /\ u.y = s.y /\ u.in = s.in /\ u.out = s.out
    BY <2>1, FieldsOf
  <2>3. u \in Machines
    <3>1. on \in BOOLEAN
      BY <1>1 DEF on
    <3>2. f \in Nat
      BY <1>2, <1>4
    <3> QED BY <1>1, <2>1, <3>1, <3>2 DEF Machines, MachineOf
  <2>4. Q(u) >= 3 /\ u.pc \in offset .. 17 /\ Q(u) \in Int
    BY <1>2, <1>4, <2>2 DEF Q
  <2>5. Hearing(u)
    BY <1>3, <2>2, <2>3, <2>4 DEF Hearing
  <2>6. ~(Early(s) /\ ~irq)
    <3>1. CASE Q(s) = 3
      BY <1>8, <3>1
    <3>2. CASE Q(s) # 3
      <4> DEFINE q == Q(s)
                 at == s.pc
      <4>1. q \in 0 .. 16 /\ q >= 3 /\ q # 3 /\ at = offset + q
        BY <1>0, <1>1, <3>2, Zenon
      <4> HIDE DEF q, at
      <4>2. at \notin offset .. offset + 3
        BY <1>2, <4>1
      <4> QED BY <4>2, Zenon DEF Early, at
    <3> QED BY <3>1, <3>2
  <2>7. (u.on <=> s.on)
    BY <2>2, Zenon DEF on
  <2> QED BY <2>5, <2>6, <2>7, Zenon DEF Hears
<1>9. Hears(s, u)
  <2>1. CASE Q(s) = 3 /\ ~irq
    BY <1>6, <1>7, <2>1, Zenon DEF u
  <2>2. CASE Kept(s, f, u) /\ ~(Q(s) = 3 /\ ~irq)
    <3>1. PICK x \in Nat, osr \in Nat, isr \in Nat :
            u = MachineOf(s.on, f, x, s.y, osr, isr, s.in, s.out)
      BY <2>2, Zenon DEF Kept
    <3> QED BY <1>8, <2>2, <3>1, Zenon
  <2> QED BY <1>5, <1>7, <2>1, <2>2, Zenon DEF u
<1> QED BY <1>9 DEF u

LEMMA RxPushes ==
  ASSUME Layout, pc # "off", NEW s, Hearing(s), s.on, Fetch(s) = I("push"),
         (mode = "width" /\ Q(s) = 9) \/ (mode = "decode" /\ Q(s) = 16)
  PROVE  Hears(s, Stepped(s))
<1> DEFINE i == Fetch(s)
           f == Following(s, i)
           u == Stepped(s)
           on == s.on
           q == Append(s.out, s.isr)
<1>1. /\ s \in Machines /\ s.pc \in offset .. 17 /\ Q(s) \in 0 .. 16 /\ s.pc = offset + Q(s)
      /\ s.on \in BOOLEAN /\ s.x \in Nat /\ s.y \in Nat /\ s.osr \in Nat /\ s.isr \in Nat
      /\ s.in \in Seq(Nat) /\ s.out \in Seq(Nat) /\ s.pc \in Nat
  BY HearingIs, Zenon
<1>2. offset \in {1, 7} /\ (mode = "width" <=> offset = 7) /\ mode \in {"width", "decode"}
  BY RxPlaces DEF Layout
<1>3. s.in = << >> /\ s.out = << >> /\ (mode = "width" => s.y = 0)
  BY <1>1 DEF Hearing
<1>4. q \in Seq(Nat) /\ Len(q) = 1
  BY <1>1, <1>3
<1>5. Steps(s, i, f, u)
  BY RxSteps DEF Hearing
<1>6. f = IF s.pc = 17 THEN offset ELSE s.pc + 1
  BY <1>1, RxFetch DEF I
<1>7. ~Stalls(s, i)
  <2>1. i.op = "push"
    BY DEF I
  <2>2. Len(s.out) # 4
    BY <1>3
  <2> QED BY <2>1, <2>2 DEF Stalls
<1>8. i = I("push")
  OBVIOUS
<1>9. /\ f \in offset .. 17
      /\ mode = "width" => f - offset = 10
      /\ mode = "decode" => f = offset
  BY <1>1, <1>2, <1>6
<1> HIDE DEF i, f, u, on, q
<1>10. u = MachineOf(on, f, s.x, s.y, s.osr, 0, s.in, q)
  BY <1>5, <1>7, <1>8, Zenon DEF Steps, on, q
<1>11. u.on = on /\ u.pc = f /\ u.y = s.y /\ u.in = s.in /\ u.out = q
  BY <1>10, FieldsOf
<1>12. u \in Machines
  <2>1. on \in BOOLEAN
    BY <1>1 DEF on
  <2>2. f \in Nat
    BY <1>2, <1>9
  <2> QED BY <1>1, <1>4, <1>10, <2>1, <2>2 DEF Machines, MachineOf
<1>13. u.pc \in offset .. 17 /\ (mode = "width" => Q(u) = 10) /\ (mode = "decode" => Q(u) = 0)
  BY <1>2, <1>9, <1>11 DEF Q
<1>14. Hearing(u)
  BY <1>2, <1>3, <1>4, <1>11, <1>12, <1>13 DEF Hearing
<1>15. ~Early(s)
  BY <1>1, <1>2 DEF Early
<1>16. (u.on <=> s.on)
  BY <1>11, Zenon DEF on
<1> QED BY <1>14, <1>15, <1>16, Zenon DEF Hears, u

LEMMA RxCounts ==
  ASSUME Layout, pc # "off", NEW s, Hearing(s), s.on,
         (mode = "width" /\ Q(s) = 10 /\ Fetch(s) = Jmp("y--", 4))
         \/ (mode = "decode" /\ Q(s) = 15 /\ Fetch(s) = Jmp("y--", 5))
  PROVE  Hears(s, Stepped(s))
<1> DEFINE i == Fetch(s)
           f == Following(s, i)
           u == Stepped(s)
           on == s.on
           y == Decremented(s.y)
<1>1. /\ s \in Machines /\ s.pc \in offset .. 17 /\ Q(s) \in 0 .. 16 /\ s.pc = offset + Q(s)
      /\ s.on \in BOOLEAN /\ s.x \in Nat /\ s.y \in Nat /\ s.osr \in Nat /\ s.isr \in Nat
      /\ s.in \in Seq(Nat) /\ s.out \in Seq(Nat) /\ s.pc \in Nat
  BY HearingIs, Zenon
<1>2. offset \in {1, 7} /\ (mode = "width" <=> offset = 7) /\ mode \in {"width", "decode"}
  BY RxPlaces DEF Layout
<1>3. /\ s.in = << >> /\ (mode = "width" => s.y = 0) /\ (mode = "decode" => s.out = << >>)
      /\ s.out # << >> => Len(s.out) = 1
  BY <1>1, <1>2 DEF Hearing
<1>4. y \in Nat
  BY <1>1, DecrementedIs
<1>5. Steps(s, i, f, u)
  BY RxSteps DEF Hearing
<1>6. PICK to \in {4, 5} : i = Jmp("y--", to) /\ (mode = "decode" => to = 5)
  BY <1>2
<1>7. Place(s, f) /\ (mode = "width" => f = offset)
  <2>1. Place(s, f)
    BY <1>1, RxPlace
  <2>2. ASSUME mode = "width" PROVE f = offset
    <3>1. s.pc = 17 /\ s.y = 0
      BY <1>1, <1>2, <1>3, <2>2
    <3>2. Jmp("y--", to).op = "jmp" /\ Jmp("y--", to).cond = "y--"
      BY DEF Jmp
    <3>3. ~Taken(s, "y--")
      BY <3>1 DEF Taken
    <3>4. \A j : Following(s, j) = IF j.op = "jmp" /\ Taken(s, j.cond) THEN offset + j.to
                                  ELSE IF s.pc = 17 THEN offset ELSE s.pc + 1
      BY <1>1, RxFetch
    <3> QED BY <1>6, <3>1, <3>2, <3>3, <3>4, Zenon
  <2> QED BY <2>1, <2>2
<1>8. ~Stalls(s, i)
  <2>1. i.op = "jmp"
    BY <1>6 DEF Jmp
  <2> QED BY <2>1 DEF Stalls
<1> HIDE DEF i, f, u, on, y
<1>9. u = MachineOf(on, f, s.x, y, s.osr, s.isr, s.in, s.out)
  BY <1>5, <1>6, <1>8, Zenon DEF Steps, on, y
<1>10. u.on = on /\ u.pc = f /\ u.y = y /\ u.in = s.in /\ u.out = s.out
  BY <1>9, FieldsOf
<1>11. /\ mode = "width" => f = offset
       /\ mode = "decode" => f \in offset + 3 .. 17
       /\ f \in offset .. 17
  BY <1>1, <1>2, <1>7 DEF Place
<1>12. u \in Machines
  <2>1. on \in BOOLEAN
    BY <1>1 DEF on
  <2>2. f \in Nat
    BY <1>2, <1>11
  <2> QED BY <1>1, <1>4, <1>9, <2>1, <2>2 DEF Machines, MachineOf
<1>13. u.pc \in offset .. 17 /\ (mode = "width" => Q(u) = 0) /\ (mode = "decode" => Q(u) >= 3)
       /\ Q(u) \in Int
  BY <1>2, <1>10, <1>11 DEF Q
<1>14. Hearing(u)
  BY <1>2, <1>3, <1>10, <1>12, <1>13 DEF Hearing
<1>15. ~Early(s)
  BY <1>1, <1>2 DEF Early
<1>16. (u.on <=> s.on)
  BY <1>10, Zenon DEF on
<1> QED BY <1>14, <1>15, <1>16, Zenon DEF Hears, u

LEMMA RxHears ==
  ASSUME Layout, pc # "off", NEW s, Hearing(s)
  PROVE  Hears(s, Stepped(s))
<1>1. CASE ~s.on
  <2>1. Stepped(s) = s
    BY <1>1, Zenon DEF Stepped
  <2> QED BY <2>1, Zenon DEF Hears
<1>2. CASE s.on
  <2>1. s.pc \in offset .. 17 /\ Q(s) \in 0 .. 16 /\ s.pc = offset + Q(s)
        /\ (mode = "width" => Q(s) <= 10)
    BY HearingIs, Zenon
  <2>2. offset \in {1, 7} /\ (mode = "width" <=> offset = 7) /\ mode \in {"width", "decode"}
    BY RxPlaces DEF Layout
  <2>3. CASE Q(s) \in {0, 2}
    <3>1. CASE s.in = << >>
      <4>1. Fetch(s) = I("pull")
        BY <2>1, <2>2, <2>3, RxInstruction
      <4>2. Fetch(s).op = "pull"
        BY <4>1 DEF I
      <4>3. Stalls(s, Fetch(s))
        BY <3>1, <4>2 DEF Stalls
      <4>4. Stepped(s) = s
        BY <4>3, Zenon DEF Stepped
      <4> QED BY <4>4, Zenon DEF Hears
    <3>2. CASE s.in # << >>
      BY <1>2, <2>3, <3>2, RxPulls
    <3> QED BY <3>1, <3>2
  <2>4. CASE Q(s) = 1
    BY <1>2, <2>4, RxTakesCount
  <2>5. CASE Q(s) >= 3 /\ mode = "width"
    <3>1. Q(s) \in {3, 4, 5, 6, 7, 8, 9, 10} /\ s.pc = 7 + Q(s)
      BY <2>1, <2>2, <2>5
    <3>2. CASE Q(s) = 9
      BY <1>2, <2>1, <2>5, <3>2, RxInstruction, RxPushes
    <3>3. CASE Q(s) = 10
      BY <1>2, <2>1, <2>5, <3>3, RxInstruction, RxCounts
    <3>4. CASE Q(s) \notin {9, 10}
      <4>1. s.pc # 17 /\ Q(s) \in {3, 4, 5, 6, 7, 8}
        BY <3>1, <3>4
      <4>2. /\ Q(s) = 3 => Fetch(s) = I("wait irq")
            /\ Q(s) = 4 => Fetch(s) = I("mov x, osr")
            /\ Q(s) = 5 => Fetch(s) = Arg("wait pin", 0)
            /\ Q(s) = 6 => Fetch(s) = Jmp("pin", 8)
            /\ Q(s) = 7 => Fetch(s) = Jmp("x--", 6)
            /\ Q(s) = 8 => Fetch(s) = I("mov isr, x")
        BY <2>1, <2>5, RxInstruction
      <4>3. Fetch(s) \in Counting \cup Waiting \cup Looping
        BY <4>1, <4>2, Zenon DEF Counting, Waiting, Looping
      <4>4. Keeps(s)
        BY <2>5, <4>1, <4>2, <4>3, Zenon DEF Keeps
      <4> QED BY <1>2, <4>4, RxKeeps
    <3> QED BY <3>2, <3>3, <3>4
  <2>6. CASE Q(s) >= 3 /\ mode = "decode"
    <3>1. Q(s) \in {3, 4, 5, 6, 7, 8, 9, 10, 11, 12, 13, 14, 15, 16} /\ s.pc = 1 + Q(s)
      BY <2>1, <2>2, <2>6
    <3>2. CASE Q(s) = 16
      BY <1>2, <2>1, <2>6, <3>2, RxInstruction, RxPushes
    <3>3. CASE Q(s) = 15
      BY <1>2, <2>1, <2>6, <3>3, RxInstruction, RxCounts
    <3>4. CASE Q(s) \notin {15, 16}
      <4>1. s.pc # 17 /\ Q(s) \in {3, 4, 5, 6, 7, 8, 9, 10, 11, 12, 13, 14}
        BY <3>1, <3>4
      <4>2. /\ Q(s) = 3 => Fetch(s) = I("wait irq")
            /\ Q(s) = 4 => Fetch(s) = I("mov isr, null")
            /\ Q(s) = 5 => Fetch(s) = I("mov x, osr")
            /\ Q(s) = 6 => Fetch(s) = Arg("wait pin", 0)
            /\ Q(s) = 7 => Fetch(s) = Jmp("pin", 12)
            /\ Q(s) = 8 => Fetch(s) = Jmp("x--", 7)
            /\ Q(s) = 9 => Fetch(s) = Arg("wait pin", 1)
            /\ Q(s) = 10 => Fetch(s) = I("in null, 1")
            /\ Q(s) = 11 => Fetch(s) = Jmp("", 15)
            /\ Q(s) = 12 => Fetch(s) = Arg("set x", 1)
            /\ Q(s) = 13 => Fetch(s) = Arg("wait pin", 1)
            /\ Q(s) = 14 => Fetch(s) = I("in x, 1")
        BY <2>1, <2>6, RxInstruction
      <4>3. Fetch(s) \in Counting \cup Waiting \cup Looping
        BY <4>1, <4>2, Zenon DEF Counting, Waiting, Looping
      <4>4. Keeps(s)
        BY <2>6, <4>1, <4>2, <4>3, Zenon DEF Keeps
      <4> QED BY <1>2, <4>4, RxKeeps
    <3> QED BY <3>2, <3>3, <3>4
  <2>7. Q(s) \in {0, 2} \/ Q(s) = 1 \/ Q(s) >= 3
    BY <2>1
  <2> QED BY <2>2, <2>3, <2>4, <2>5, <2>6, <2>7
<1> QED BY <1>1, <1>2

-----------------------------------------------------------------------------
(***************************************************************************)
(* The end of a frame.                                                     *)
(***************************************************************************)
\* The line has carried the lows of the frame, but for the ticks that its last
\* segment may lose.
Cut(e, i, m) ==
  IF ~(Low(e.segs[N(e)]) /\ i = m) THEN 0 ELSE IF e.kind = "emit" THEN 5 ELSE 1
Whole(e, v, heard, want) ==
  /\ Len(heard) = Len(want)
  /\ \A i \in DOMAIN want : heard[i] \in (want[i] - Cut(e, i, Len(want))) * v .. want[i] * v

Ended(e, v, s, ph, low, n, lows, d, k) ==
  /\ e \in Exchanges /\ v \in Nat \ {0} /\ ph \in 0 .. v - 1
  /\ Playing(e, v, s, ph, low, n, lows, d, k)
  /\ P(s) = 13 \/ (e.kind = "emit" /\ k = N(e) + 1)

LEMMA ShortenedIs ==
  ASSUME NEW n \in Nat, NEW t \in Nat, NEW v \in Nat \ {0}, NEW a \in 0 .. v - 1,
         NEW d \in 2 .. 5, t > 8, n + (d * v + a) = t * v + v - 1
  PROVE  n > 0 /\ n \in (t - 5) * v .. t * v
<1>1. n >= t * v - d * v
  OBVIOUS
<1>2. d * v <= 5 * v
  OBVIOUS
<1>3. (t - 5) * v = t * v - 5 * v /\ t * v \in Nat /\ (t - 5) * v > 0
  OBVIOUS
<1>4. d * v >= v
  OBVIOUS
<1> QED BY <1>1, <1>2, <1>3, <1>4

LEMMA FrameEnds ==
  ASSUME NEW e, NEW v, NEW s, NEW ph, NEW low, NEW n, NEW lows, NEW d, NEW k,
         Ended(e, v, s, ph, low, n, lows, d, k)
  PROVE  Whole(e, v, HeardOf(n, lows), LowsOf(e.segs)[N(e)])
<1>1. /\ e \in Exchanges /\ v \in Nat \ {0} /\ ph \in 0 .. v - 1
      /\ P(s) = 13 \/ (e.kind = "emit" /\ k = N(e) + 1)
      /\ s \in Machines /\ Control(e, s, k) /\ low \in {0, 1} /\ n \in Nat
      /\ OnWire(e, v, J(s, k), D(s), P(s), ph, low, n, lows)
  BY Zenon DEF Ended, Playing
<1> DEFINE heard == HeardOf(n, lows)
           want == LowsOf(e.segs)[N(e)]
           front == LowsOf(e.segs)[N(e) - 1]
           m == N(e)
           t == T(e, m)
           p == P(s)
<1>2. m \in Nat \ {0} /\ t \in Nat /\ t > 8 /\ Level(e, m) \in {0, 1}
      /\ (Low(e.segs[m]) <=> Level(e, m) = 1)
  <2>1. m \in Nat \ {0}
    BY <1>1, ExchangeIs
  <2>2. m \in 1 .. N(e)
    <3> DEFINE q == N(e)
    <3>1. q \in Nat \ {0}
      BY <2>1
    <3> HIDE DEF q
    <3>2. q \in 1 .. q
      BY <3>1
    <3> QED BY <3>2 DEF q
  <2> DEFINE Fine(i) == /\ T(e, i) \in Nat /\ T(e, i) > 8
                        /\ Low(e.segs[i]) <=> Level(e, i) = 1
  <2>3. \A i \in 1 .. N(e) : Fine(i)
    BY <1>1, ExchangeIs
  <2>4. \A i : Level(e, i) \in {0, 1}
    BY <1>1, ExchangeIs
  <2> HIDE DEF m, Fine
  <2>5. Fine(m)
    BY <2>2, <2>3, Zenon
  <2>6. Level(e, m) \in {0, 1}
    BY <2>4, Zenon
  <2> QED BY <2>1, <2>5, <2>6, Zenon DEF t, Fine
<1>3. p \in 0 .. 13 /\ k = m + 1 /\ p \in {1, 2, 3, 11, 12, 13} /\ J(s, k) = m
  <2>1. p \in 0 .. 13 /\ k = m + 1
    BY <1>1, <1>2 DEF Control
  <2>2. p \in {1, 2, 3, 11, 12, 13}
    BY <1>1, <1>2, <2>1 DEF Control
  <2> HIDE DEF m
  <2> QED BY <1>2, <2>1, <2>2 DEF J
<1>4. /\ Lows(e, v, m) \in Seq(Nat) /\ Lows(e, v, m - 1) \in Seq(Nat)
      /\ want \in Seq(Nat) /\ front \in Seq(Nat)
      /\ Len(Lows(e, v, m)) = Len(want) /\ Len(Lows(e, v, m - 1)) = Len(front)
      /\ \A i \in 1 .. Len(want) : Lows(e, v, m)[i] = want[i] * v
      /\ \A i \in 1 .. Len(front) : Lows(e, v, m - 1)[i] = front[i] * v
      /\ Level(e, m) = 1 => want = Append(front, t)
  <2>1. v \in Nat /\ m \in 0 .. N(e) /\ m - 1 \in 0 .. N(e) /\ m \in 1 .. N(e)
    BY <1>1, <1>2
  <2>2. want \in Seq(Nat) /\ front \in Seq(Nat) /\ (Level(e, m) = 1 => want = Append(front, t))
    BY <1>1, <2>1, LowsOfIs
  <2> QED BY <1>1, <2>1, <2>2, LowsAre
<1> HIDE DEF heard, want, front, m, t, p
<1>5. ASSUME heard = Lows(e, v, m), \A i \in DOMAIN want : Cut(e, i, Len(want)) = 0
      PROVE  Whole(e, v, heard, want)
  <2>1. DOMAIN want = 1 .. Len(want) /\ \A i \in 1 .. Len(want) : want[i] \in Nat
    BY <1>4
  <2>2. \A i \in 1 .. Len(want) :
          Cut(e, i, Len(want)) = 0 /\ heard[i] = want[i] * v
    BY <1>4, <1>5, <2>1
  <2>3. ASSUME NEW i \in 1 .. Len(want)
        PROVE  heard[i] \in (want[i] - Cut(e, i, Len(want))) * v .. want[i] * v
    <3> DEFINE w == want[i]
               c == Cut(e, i, Len(want))
    <3>1. w \in Nat /\ c = 0 /\ heard[i] = w * v
      BY <2>1, <2>2, <2>3
    <3> HIDE DEF w, c
    <3>2. (w - c) * v = w * v /\ w * v \in Nat
      BY <1>1, <3>1
    <3> QED BY <3>1, <3>2 DEF w, c
  <2>4. Len(heard) = Len(want)
    BY <1>4, <1>5
  <2> QED BY <2>1, <2>3, <2>4, Zenon DEF Whole
<1>6. CASE Level(e, m) # 1
  <2>1. heard = Lows(e, v, m)
    <3>1. CASE p >= 12
      BY <1>1, <1>6, <3>1, Zenon DEF OnWire, heard, p, m
    <3>2. CASE p <= 11
      <4>1. low = 0
        BY <1>1, <1>3, <1>6, <3>2 DEF OnWire, p
      <4> QED BY <1>1, <1>3, <3>2, <4>1, Zenon DEF OnWire, heard, p
    <3> QED BY <1>3, <3>1, <3>2
  <2>2. \A i \in DOMAIN want : Cut(e, i, Len(want)) = 0
    BY <1>2, <1>6, Zenon DEF Cut, m
  <2> QED BY <1>5, <2>1, <2>2 DEF heard, want
<1>7. ASSUME Level(e, m) = 1, NEW last \in Nat, heard = Append(Lows(e, v, m - 1), last),
             last \in (t - Cut(e, Len(want), Len(want))) * v .. t * v
      PROVE  Whole(e, v, heard, want)
  <2> DEFINE lead == Lows(e, v, m - 1)
             l == Len(front)
             c == Cut(e, Len(want), Len(want))
  <2>1. want = Append(front, t) /\ lead \in Seq(Nat) /\ Len(lead) = l /\ l \in Nat
        /\ \A i \in 1 .. l : lead[i] = front[i] * v
    BY <1>4, <1>7
  <2>2. last \in (t - c) * v .. t * v
    BY <1>7
  <2> HIDE DEF lead, c
  <2>3. heard = Append(lead, last)
    BY <1>7 DEF lead
  <2> HIDE DEF l
  <2>4. Len(want) = l + 1 /\ Len(heard) = l + 1 /\ DOMAIN want = 1 .. l + 1
        /\ want[l + 1] = t /\ heard[l + 1] = last
        /\ \A i \in 1 .. l : want[i] = front[i] /\ want[i] \in Nat /\ heard[i] = lead[i]
    <3>1. front \in Seq(Nat) /\ Len(front) = l
      BY <1>4 DEF l
    <3>2. /\ Len(want) = l + 1 /\ DOMAIN want = 1 .. l + 1 /\ want[l + 1] = t
          /\ \A i \in 1 .. l : want[i] = front[i] /\ want[i] \in Nat
      BY <1>2, <2>1, <3>1
    <3>3. /\ Len(heard) = l + 1 /\ heard[l + 1] = last
          /\ \A i \in 1 .. l : heard[i] = lead[i]
      <4>1. lead \in Seq(Nat) /\ Len(lead) = l /\ l \in Nat /\ last \in Nat
        BY <1>7, <2>1
      <4> QED BY <2>3, <4>1
    <3> QED BY <3>2, <3>3
  <2>5. ASSUME NEW i \in 1 .. l
        PROVE  heard[i] \in (want[i] - Cut(e, i, Len(want))) * v .. want[i] * v
    <3> DEFINE w == want[i]
               cut == Cut(e, i, Len(want))
    <3>1. w \in Nat /\ heard[i] = w * v /\ i # Len(want)
      BY <2>1, <2>4
    <3>2. cut = 0
      BY <3>1, Zenon DEF Cut
    <3> HIDE DEF w, cut
    <3>3. (w - cut) * v = w * v /\ w * v \in Nat
      BY <1>1, <3>1, <3>2
    <3> QED BY <3>1, <3>3 DEF w, cut
  <2>6. heard[l + 1] \in (want[l + 1] - Cut(e, l + 1, Len(want))) * v .. want[l + 1] * v
    BY <2>2, <2>4 DEF c
  <2>7. \A i \in DOMAIN want :
          heard[i] \in (want[i] - Cut(e, i, Len(want))) * v .. want[i] * v
    <3> TAKE i \in DOMAIN want
    <3>1. i \in 1 .. l \/ i = l + 1
      BY <2>1, <2>4
    <3> QED BY <2>5, <2>6, <3>1
  <2> QED BY <2>4, <2>7 DEF Whole
<1>8. CASE Level(e, m) = 1
  <2> DEFINE c == Cut(e, Len(want), Len(want))
  <2>1. c = IF e.kind = "emit" THEN 5 ELSE 1
    BY <1>2, <1>8, Zenon DEF Cut, m
  <2> HIDE DEF c
  <2>2. CASE p >= 12
    <3>1. heard = Append(Lows(e, v, m - 1), (t - 1) * v)
      BY <1>1, <1>8, <2>2, Zenon DEF OnWire, heard, p, m, t
    <3>2. (t - 1) * v \in Nat /\ (t - 1) * v \in (t - c) * v .. t * v
      BY <1>1, <1>2, <2>1
    <3> QED BY <1>7, <1>8, <3>1, <3>2 DEF c, heard, want
  <2>3. CASE p <= 11
    <3>1. p \in {1, 2, 3, 11} /\ c = 5
      BY <1>3, <2>3, <1>1, <2>1 DEF p
    <3>2. low = 1
      BY <1>1, <1>3, <1>8, <2>3, Zenon DEF OnWire, p
    <3>3. n + (D(s) * v + Ahead(v, ph)) = t * v + v - 1 /\ lows = Lows(e, v, m - 1)
      BY <1>1, <1>3, <3>2, Zenon DEF OnWire, t
    <3>4. D(s) \in 2 .. 5
      BY <3>1 DEF D, p
    <3>5. Ahead(v, ph) \in 0 .. v - 1
      BY <1>1, AheadIs
    <3>6. n > 0 /\ n \in (t - 5) * v .. t * v
      <4> DEFINE dd == D(s)
                 a == Ahead(v, ph)
      <4> HIDE DEF dd, a
      <4>1. n + (dd * v + a) = t * v + v - 1 /\ dd \in 2 .. 5 /\ a \in 0 .. v - 1
        BY <3>3, <3>4, <3>5 DEF dd, a
      <4> QED BY <1>1, <1>2, <4>1, ShortenedIs
    <3>7. heard = Append(Lows(e, v, m - 1), n)
      BY <3>3, <3>6, Zenon DEF heard, HeardOf
    <3> QED BY <1>1, <1>7, <1>8, <3>1, <3>6, <3>7 DEF c, heard, want
  <2> QED BY <1>3, <2>2, <2>3
<1> QED BY <1>2, <1>6, <1>8 DEF heard, want, m

-----------------------------------------------------------------------------
(***************************************************************************)
(* The invariant: types, the exchange that each point of the CPU belongs   *)
(* to, what the receive machine has, the transmit machine between frames   *)
(* and during one, what its interrupt tells, and the time that is left.    *)
(***************************************************************************)
Sending == pc \in {"enable", "dma", "wave", "poll", "expiry", "stop"}
K == Pulled(exchange, tx.in, dma)

Typed ==
  /\ pc \in {"off", "idle", "arm", "setup", "start"} \/ Sending
  /\ exchange \in Exchanges \cup {Off} /\ result \in Statuses /\ got \in Nat
  /\ irq \in BOOLEAN /\ pad \in {"pio", "sio"} /\ dir \in {0, 1}
  /\ tx \in Machines /\ tx.out = << >> /\ Len(tx.in) <= FIFO
  /\ div \in Nat \ {0} /\ phase \in 0 .. div - 1
  /\ left \in 0 .. TIMEOUT /\ due \in Nat /\ late \in 0 .. LATE
  /\ rise \in Rises /\ rising \in 0 .. rise /\ run \in Nat

Served ==
  /\ pc \notin {"off", "idle"} => exchange \in Exchanges
  /\ pc \in {"arm", "poll", "expiry", "stop"} => exchange.kind # "emit"
  /\ pc = "wave" => exchange.kind = "emit"
  /\ pc = "off" => result = "NONE" /\ rx = Machine(FALSE, 0)
  /\ pc = "idle" /\ result # "NONE" =>
       /\ exchange \in Exchanges /\ (exchange.kind = "emit" => result = "OK")
       /\ Whole(exchange, div, Heard, LowsOf(exchange.segs)[N(exchange)])

Listening == pc # "off" => Hearing(rx)

Quiet ==
  ~Sending =>
    /\ dir = 0 /\ dma = << >>
    /\ pc # "off" => P(tx) \in 0 .. 13 /\ (tx.on => tx.in = << >> /\ P(tx) = 0)
    /\ pc \in {"arm", "setup", "start"} => run = 0 /\ played = << >>
    /\ pc = "start" =>
         ~tx.on /\ P(tx) = 0 /\ tx.in = << >> /\ pad = "pio" /\ div = exchange.div

Carrying ==
  Sending =>
    /\ Playing(exchange, div, tx, phase, dir, run, played, dma, K)
    /\ pad = "pio" /\ div = exchange.div /\ (tx.on <=> pc # "enable")

\* The interrupt, and all that follows it, is after the frame.
Heeded ==
  /\ pc = "start" => ~irq
  /\ exchange.kind # "emit" /\ pc \in {"setup", "start"} => ~irq /\ Early(rx)
  /\ Sending /\ (irq \/ (exchange.kind # "emit" /\ ~Early(rx))) => P(tx) = 13

Remains == Lasts(exchange, div, tx, phase, K) <= left + div - 1
Timed ==
  /\ Sending /\ pc # "enable" => Remains
  /\ pc = "wave" => dma = << >> /\ (due = 0 \/ due < left)
  /\ pc \in {"arm", "setup", "start", "enable"} => left = TIMEOUT
  /\ pc \in {"enable", "dma"} /\ exchange.kind # "decode" => left = TIMEOUT /\ due < TIMEOUT
  /\ pc = "dma" /\ exchange.kind = "decode" => P(tx) = 13
  /\ pc = "stop" => P(tx) = 13

Engines == Typed /\ Served /\ Listening /\ Quiet /\ Carrying /\ Heeded /\ Timed

Sized(e, v, s, ph, k) ==
  /\ e \in Exchanges /\ v \in Nat \ {0} /\ ph \in 0 .. v - 1
  /\ s \in Machines /\ Control(e, s, k)
Sizes(e, v, s, ph, k) ==
  /\ Lasts(e, v, s, ph, k) \in Nat
  /\ P(s) = 13 <=> Lasts(e, v, s, ph, k) <= v - 1
  /\ P(s) = 0 /\ k = 0 /\ v = e.div => Lasts(e, v, s, ph, k) < TIMEOUT

LEMMA LastsIs ==
  ASSUME NEW e, NEW v, NEW s, NEW ph, NEW k, Sized(e, v, s, ph, k)
  PROVE  Sizes(e, v, s, ph, k)
<1>1. /\ e \in Exchanges /\ v \in Nat \ {0} /\ ph \in 0 .. v - 1
      /\ s \in Machines /\ Control(e, s, k)
  BY Zenon DEF Sized
<1>2. /\ J(s, k) \in 0 .. N(e) /\ D(s) \in Nat /\ P(s) \in 0 .. 13 /\ k \in Nat
      /\ P(s) # 13 => D(s) > 0
      /\ P(s) = 13 => D(s) = 0 /\ J(s, k) = N(e)
      /\ P(s) = 0 /\ k = 0 => J(s, k) = 0 /\ D(s) = 6
  BY <1>1, PlaceIs
<1>3. N(e) \in Nat \ {0} /\ Total(e, N(e)) \in Nat
      /\ (v = e.div => (Total(e, N(e)) + 8) * v < TIMEOUT)
  BY <1>1, ExchangeIs, TotalIs
<1>4. /\ Togo(e, v, J(s, k)) \in Nat /\ Ahead(v, ph) \in 0 .. v - 1
      /\ Togo(e, v, 0) = Total(e, N(e)) * v /\ Togo(e, v, N(e)) = 0
  BY <1>1, <1>2, TogoIs, AheadIs
<1>5. Starved(v, s, k) \in {0, v} /\ (P(s) = 13 => Starved(v, s, k) = 0)
  <2>1. P(s) = 13 => k # 0
    BY <1>1, <1>3 DEF Control
  <2>2. P(s) = 13 => Starved(v, s, k) = 0
    BY <2>1, Zenon DEF Starved
  <2> QED BY <2>2 DEF Starved
<1> DEFINE g == Togo(e, v, J(s, k))
           d == D(s)
           a == Ahead(v, ph)
           w == Starved(v, s, k)
           t == Total(e, N(e))
           p == P(s)
           l == Lasts(e, v, s, ph, k)
<1>6. l = (g + d * v + a) + w
  BY Zenon DEF Lasts, Owes
<1>7. /\ g \in Nat /\ d \in Nat /\ a \in 0 .. v - 1 /\ w \in {0, v} /\ t \in Nat
      /\ p # 13 => d > 0
      /\ p = 13 => d = 0 /\ g = 0 /\ w = 0
      /\ p = 0 /\ k = 0 => g = t * v /\ d = 6
      /\ v = e.div => (t + 8) * v < TIMEOUT
  BY <1>2, <1>3, <1>4, <1>5, Zenon
<1> HIDE DEF g, d, a, w, t, p, l
<1>8. d * v \in Nat /\ (d > 0 => d * v >= v) /\ (d = 0 => d * v = 0)
  BY <1>1, <1>7
<1>9. l \in Nat /\ (p = 13 <=> l <= v - 1)
  BY <1>1, <1>6, <1>7, <1>8
<1>10. ASSUME p = 0, k = 0, v = e.div PROVE l < TIMEOUT
  BY <1>1, <1>7, <1>10, <1>6, NumbersAre
<1> QED BY <1>9, <1>10, Zenon DEF Sizes, p, l

\* A frame begins with all its words in the channel.
Begins(e, v, s, ph, d) ==
  /\ e \in Exchanges /\ v \in Nat \ {0} /\ ph \in 0 .. v - 1
  /\ s \in Machines /\ s.out = << >> /\ s.in = << >> /\ ~s.on /\ P(s) = 0
  /\ d = Commands(e.segs)

LEMMA FrameBegins ==
  ASSUME NEW e, NEW v, NEW s, NEW ph, NEW d, Begins(e, v, s, ph, d)
  PROVE  Playing(e, v, s, ph, 0, 0, << >>, d, Pulled(e, s.in, d))
<1>1. /\ e \in Exchanges /\ v \in Nat \ {0} /\ ph \in 0 .. v - 1
      /\ s \in Machines /\ s.out = << >> /\ s.in = << >> /\ ~s.on /\ P(s) = 0
      /\ d = Commands(e.segs)
  BY Zenon DEF Begins
<1>2. N(e) \in Nat \ {0} /\ Level(e, 0) = 0
  BY <1>1, ExchangeIs
<1>3. d \in Seq(Nat) /\ Len(d) = N(e) + 1 /\ \A i \in 1 .. N(e) + 1 : d[i] = Word(e, i)
  BY <1>1, CommandsAre
<1> DEFINE in == s.in
           p == P(s)
           k == Pulled(e, in, d)
<1>4. in = << >> /\ p = 0
  BY <1>1
<1> HIDE DEF in, p
<1>5. k = 0
  BY <1>2, <1>3, <1>4 DEF Pulled
<1> HIDE DEF k
<1>6. Queued(e, k, in, d)
  <2>1. in \in Seq(Nat) /\ Len(in) = 0
    BY <1>4
  <2>2. \A i \in 1 .. Len(in) : in[i] = Word(e, k + i)
    BY <2>1
  <2>3. ASSUME NEW i \in 1 .. Len(d) PROVE d[i] = Word(e, k + Len(in) + i)
    <3>1. k + Len(in) + i = i /\ i \in 1 .. N(e) + 1
      BY <1>2, <1>3, <1>5, <2>1
    <3> QED BY <1>3, <3>1
  <2> QED BY <1>3, <2>1, <2>2, <2>3 DEF Queued
<1>7. Control(e, s, k)
  BY <1>1, <1>2, <1>5 DEF Control
<1>8. OnWire(e, v, J(s, k), D(s), P(s), ph, 0, 0, << >>)
  BY <1>1, <1>5, <1>2, LowsAre DEF J, HeardOf, OnWire
<1>9. Len(s.in) <= FIFO
  BY <1>1, NumbersAre
<1> QED BY <1>1, <1>4, <1>5, <1>6, <1>7, <1>8, <1>9, Zenon DEF Playing, in, k

-----------------------------------------------------------------------------
(***************************************************************************)
(* Every step of the CPU keeps the invariant.                              *)
(***************************************************************************)
LEMMA FreshMachine ==
  ASSUME NEW on \in BOOLEAN, NEW at \in Nat
  PROVE  /\ Machine(on, at) \in Machines
         /\ Machine(on, at).pc = at /\ Machine(on, at).in = << >>
         /\ Machine(on, at).out = << >> /\ Machine(on, at).y = 0
<1>1. << >> \in Seq(Nat)
  OBVIOUS
<1> QED BY <1>1 DEF Machine, Machines

LEMMA InitEngines == Init => Engines
<1> SUFFICES ASSUME Init PROVE Engines
  OBVIOUS
<1>1. tx \in Machines /\ tx.out = << >> /\ tx.in = << >>
  BY FreshMachine DEF Init
<1>2. Typed
  <2>1. Len(tx.in) <= FIFO
    BY <1>1, NumbersAre
  <2>2. /\ pc = "off" /\ exchange = Off /\ result = "NONE" /\ got = 0 /\ irq = FALSE
        /\ pad = "sio" /\ dir = 0 /\ div = 1 /\ phase = 0 /\ due = 0 /\ left = TIMEOUT
        /\ late = 0 /\ rise \in Rises /\ rising = 0 /\ run = 0
    BY Zenon DEF Init
  <2>3. /\ got \in Nat /\ dir \in {0, 1} /\ div \in Nat \ {0} /\ phase \in 0 .. div - 1
        /\ left \in 0 .. TIMEOUT /\ due \in Nat /\ late \in 0 .. LATE
        /\ rising \in 0 .. rise /\ run \in Nat
    BY <2>2, NumbersAre
  <2>4. irq \in BOOLEAN
    BY <2>2
  <2> QED BY <1>1, <2>1, <2>2, <2>3, <2>4, Zenon DEF Typed, Statuses
<1>3. ~Sending /\ pc = "off"
  BY DEF Init, Sending
<1>4. Served /\ Listening /\ Quiet
  BY <1>3 DEF Init, Served, Listening, Quiet
<1>5. Carrying /\ Heeded /\ Timed
  BY <1>3, Zenon DEF Carrying, Heeded, Timed, Init
<1> QED BY <1>2, <1>4, <1>5 DEF Engines

LEMMA InitialiseKeeps ==
  ASSUME Layout, Layout', Engines, Initialise
  PROVE  Engines'
<1>1. /\ pc = "off" /\ pc' = "idle" /\ mode' = "width" /\ pad' = "pio" /\ dir' = 0
      /\ tx' = Machine(TRUE, 18) /\ rx' = Machine(FALSE, offset')
      /\ UNCHANGED <<exchange, result, got, irq, div, phase, dma, due, left, late>>
      /\ UNCHANGED <<rising, rise, answer, played, run, spare>>
  BY HighestFree DEF Initialise, report, wire, feed
<1>2. offset' = 7
  BY <1>1 DEF Layout, Spot
<1>3. /\ tx' \in Machines /\ tx'.out = << >> /\ tx'.in = << >> /\ tx'.pc = 18
      /\ rx' \in Machines /\ rx'.out = << >> /\ rx'.in = << >> /\ rx'.pc = 7
  BY <1>1, <1>2, FreshMachine
<1>4. ~Sending /\ ~Sending'
  BY <1>1 DEF Sending
<1>5. Typed'
  <2>1. Len(tx'.in) <= FIFO
    BY <1>3, NumbersAre
  <2>2. dir' \in {0, 1} /\ pad' \in {"pio", "sio"}
    BY <1>1
  <2> QED BY <1>1, <1>3, <2>1, <2>2, Zenon DEF Engines, Typed
<1>6. Served'
  BY <1>1 DEF Engines, Served
<1>7. Listening'
  <2>1. Q(rx)' = 0 /\ rx'.pc \in offset' .. 17
    BY <1>2, <1>3 DEF Q
  <2>2. Hearing(rx)'
    <3> DEFINE q == Q(rx)'
               s == rx'
    <3>1. q = 0 /\ s \in Machines /\ s.pc \in offset' .. 17 /\ s.in = << >> /\ s.out = << >>
      BY <1>3, <2>1
    <3>2. ~(q = 1) /\ ~(q = 2) /\ ~(q >= 3) /\ ~(q >= 2)
      BY <3>1
    <3> QED BY <3>1, <3>2, Zenon DEF Hearing
  <2> QED BY <2>2, Zenon DEF Listening
<1>8. Quiet'
  BY <1>3, <1>1, <1>4 DEF P, Engines, Quiet
<1>9. Carrying' /\ Heeded' /\ Timed'
  BY <1>1, <1>4, Zenon DEF Carrying, Heeded, Timed
<1> QED BY <1>5, <1>6, <1>7, <1>8, <1>9 DEF Engines

LEMMA RequestKeeps ==
  ASSUME Layout, Layout', Engines, Request
  PROVE  Engines'
<1>1. /\ pc = "idle" /\ exchange' \in Exchanges /\ result' = "NONE" /\ got' = 0
      /\ played' = << >> /\ run' = 0 /\ late' = 0 /\ left' = TIMEOUT /\ due' = 0
      /\ pc' = IF exchange'.kind = "emit" THEN "setup" ELSE "arm"
      /\ UNCHANGED <<mode, offset, tx, rx, irq, pad, dir, div, phase, dma, rise, rising>>
  BY DEF Request, memory, lines
<1>2. pc' \in {"setup", "arm"} /\ ~Sending /\ ~Sending'
  BY <1>1 DEF Sending
<1>3. Typed'
  BY <1>1, <1>2, NumbersAre DEF Engines, Typed, Statuses
<1>4. Served'
  BY <1>1, <1>2 DEF Served
<1>5. Listening'
  BY <1>1, Zenon DEF Engines, Listening, Hearing, Q
<1>6. Quiet'
  BY <1>1, <1>2, Zenon DEF Engines, Quiet
<1>7. Carrying' /\ Heeded' /\ Timed'
  <2>1. exchange'.kind # "emit" => pc' # "setup"
    BY <1>1
  <2> QED BY <1>1, <1>2, <2>1 DEF Carrying, Heeded, Timed
<1> QED BY <1>3, <1>4, <1>5, <1>6, <1>7 DEF Engines

LEMMA TakePadKeeps ==
  ASSUME Layout, Layout', Engines, TakePad
  PROVE  Engines'
<1>1. /\ pc = "idle" /\ pc' = "idle" /\ pad' = "sio"
      /\ UNCHANGED <<exchange, result, got, mode, offset, tx, rx, irq, dir, div, phase>>
      /\ UNCHANGED <<dma, due, left, late, rising, rise, played, run>>
  BY DEF TakePad, report, memory, feed, wire
<1>2. ~Sending /\ ~Sending'
  BY <1>1 DEF Sending
<1>3. Typed'
  BY <1>1, <1>2 DEF Engines, Typed
<1>4. Served' /\ Listening' /\ Quiet'
  <2>1. Served'
    BY <1>1, Zenon DEF Engines, Served, Heard
  <2>2. Listening'
    BY <1>1, Zenon DEF Engines, Listening, Hearing, Q
  <2>3. Quiet'
    BY <1>1, <1>2, Zenon DEF Engines, Quiet
  <2> QED BY <2>1, <2>2, <2>3
<1>5. Carrying' /\ Heeded' /\ Timed'
  BY <1>1, <1>2, Zenon DEF Carrying, Heeded, Timed
<1> QED BY <1>3, <1>4, <1>5 DEF Engines

\* What Arm and Setup leave the machines with.
LEMMA ArmedIs ==
  ASSUME NEW s \in Machines, NEW off \in Nat, exchange \in Exchanges
  PROVE  /\ Armed(s, off) \in Machines /\ Armed(s, off).pc = off
         /\ Armed(s, off).in = << exchange.bits - 1, exchange.limit >>
         /\ Armed(s, off).out = << >>
         /\ exchange.kind # "decode" => exchange.bits = 1
<1>1. /\ exchange.bits \in Nat \ {0} /\ exchange.limit \in Nat
      /\ exchange.kind # "decode" => exchange.bits = 1
  BY EngineAssumption
<1> DEFINE w == << exchange.bits - 1, exchange.limit >>
           m == MachineOf(s.on, s.pc, s.x, s.y, s.osr, s.isr, s.in, s.out)
           z == << >>
           b == TRUE
           a == s.on
<1>2. w \in Seq(Nat) /\ z \in Seq(Nat)
  BY <1>1
<1>3. s = m
  BY Explicit
<1>4. Armed(s, off) = [s EXCEPT !.on = b, !.pc = off, !.out = z, !.in = w]
  BY DEF Armed
<1>13. b \in BOOLEAN
  OBVIOUS
<1> HIDE DEF w, z, b
<1>5. [s EXCEPT !.on = b, !.pc = off, !.out = z, !.in = w]
        = [[[[s EXCEPT !.on = b] EXCEPT !.pc = off] EXCEPT !.out = z] EXCEPT !.in = w]
  OBVIOUS
<1>6. [m EXCEPT !.on = b] = MachineOf(b, s.pc, s.x, s.y, s.osr, s.isr, s.in, s.out)
  <2> HIDE DEF a
  <2>1. m = MachineOf(a, s.pc, s.x, s.y, s.osr, s.isr, s.in, s.out)
    BY DEF a
  <2> HIDE DEF m
  <2>2. [MachineOf(a, s.pc, s.x, s.y, s.osr, s.isr, s.in, s.out) EXCEPT !.on = b]
          = MachineOf(b, s.pc, s.x, s.y, s.osr, s.isr, s.in, s.out)
    BY DEF MachineOf
  <2> QED BY <2>1, <2>2, Zenon
<1>7. [MachineOf(b, s.pc, s.x, s.y, s.osr, s.isr, s.in, s.out) EXCEPT !.pc = off]
        = MachineOf(b, off, s.x, s.y, s.osr, s.isr, s.in, s.out)
  BY DEF MachineOf
<1>8. [MachineOf(b, off, s.x, s.y, s.osr, s.isr, s.in, s.out) EXCEPT !.out = z]
        = MachineOf(b, off, s.x, s.y, s.osr, s.isr, s.in, z)
  BY DEF MachineOf
<1>9. [MachineOf(b, off, s.x, s.y, s.osr, s.isr, s.in, z) EXCEPT !.in = w]
        = MachineOf(b, off, s.x, s.y, s.osr, s.isr, w, z)
  BY DEF MachineOf
<1> DEFINE u == Armed(s, off)
<1>10. u = MachineOf(b, off, s.x, s.y, s.osr, s.isr, w, z)
  <2> HIDE DEF m
  <2>1. [s EXCEPT !.on = b] = MachineOf(b, s.pc, s.x, s.y, s.osr, s.isr, s.in, s.out)
    BY <1>3, <1>6, Zenon
  <2>2. [[s EXCEPT !.on = b] EXCEPT !.pc = off]
          = MachineOf(b, off, s.x, s.y, s.osr, s.isr, s.in, s.out)
    BY <1>7, <2>1, Zenon
  <2>3. [[[s EXCEPT !.on = b] EXCEPT !.pc = off] EXCEPT !.out = z]
          = MachineOf(b, off, s.x, s.y, s.osr, s.isr, s.in, z)
    BY <1>8, <2>2, Zenon
  <2>4. [[[[s EXCEPT !.on = b] EXCEPT !.pc = off] EXCEPT !.out = z] EXCEPT !.in = w]
          = MachineOf(b, off, s.x, s.y, s.osr, s.isr, w, z)
    BY <1>9, <2>3, Zenon
  <2> QED BY <1>4, <1>5, <2>4, Zenon
<1> HIDE DEF u
<1>11. u.pc = off /\ u.in = w /\ u.out = z
  BY <1>10, FieldsOf
<1>12. u \in Machines
  BY <1>2, <1>10, <1>13 DEF Machines, MachineOf
<1> QED BY <1>1, <1>11, <1>12 DEF u, w, z

LEMMA ArmKeeps ==
  ASSUME Layout, Layout', Engines, Arm
  PROVE  Engines'
<1>1. /\ pc = "arm" /\ pc' = "setup" /\ mode' = Wanted /\ offset' = Spot(Wanted)
      /\ rx' = Armed(rx, offset') /\ irq' = FALSE
      /\ UNCHANGED <<result, exchange, got, tx, pad, dir, div, phase>>
      /\ UNCHANGED <<dma, due, left, late, rising, rise, played, run>>
  BY SwitchedIs DEF Arm, wire, feed
<1>2. /\ exchange \in Exchanges /\ exchange.kind # "emit" /\ ~Sending /\ ~Sending'
      /\ rx \in Machines
  BY <1>1 DEF Engines, Served, Sending, Listening, Hearing
<1>3. offset' \in {1, 7} /\ offset' \in Nat
  BY <1>1 DEF Spot
<1>4. /\ rx' \in Machines /\ rx'.pc = offset' /\ rx'.out = << >>
      /\ rx'.in = << exchange.bits - 1, exchange.limit >>
      /\ exchange.kind # "decode" => exchange.bits = 1
  BY <1>1, <1>2, <1>3, ArmedIs
<1>5. mode' = "width" => exchange.bits = 1
  BY <1>1, <1>4 DEF Wanted
<1>6. Typed'
  BY <1>1, <1>2 DEF Engines, Typed
<1>7. Served'
  BY <1>1, <1>2 DEF Served
<1>8. Listening'
  <2>1. (Q(rx) = 0)'
    BY <1>3, <1>4 DEF Q
  <2>2. Len(rx'.in) = 2 /\ (mode' = "width" => Head(rx'.in) = 0)
    BY <1>4, <1>5
  <2> QED BY <1>3, <1>4, <2>1, <2>2 DEF Listening, Hearing
<1>9. Quiet'
  BY <1>1, <1>2, Zenon DEF Engines, Quiet
<1>10. Carrying' /\ Heeded' /\ Timed'
  <2>1. Early(rx)'
    <3> DEFINE o == offset'
    <3>1. rx'.pc = o /\ o \in Nat
      BY <1>3, <1>4, Zenon
    <3> HIDE DEF o
    <3>2. rx'.pc \in o .. o + 3
      BY <3>1
    <3> QED BY <1>4, <3>2, Zenon DEF Early, o
  <2>2. left' = TIMEOUT
    BY <1>1 DEF Engines, Timed
  <2>3. Carrying' /\ Heeded'
    BY <1>1, <1>2, <2>1, Zenon DEF Carrying, Heeded
  <2>4. Timed'
    BY <1>1, <1>2, <2>2, Zenon DEF Timed
  <2> QED BY <2>3, <2>4
<1> QED BY <1>6, <1>7, <1>8, <1>9, <1>10 DEF Engines

LEMMA RestartedIs ==
  ASSUME Layout, pc # "off", tx \in Machines
  PROVE  /\ Restarted \in Machines /\ Restarted.pc = 18 /\ Restarted.in = << >>
         /\ Restarted.out = tx.out /\ ~Restarted.on
<1>1. Waveform.off = 18
  <2>1. At("waveform", 18).prog = "waveform" /\ At("waveform", 18).off = 18
        /\ At(mode, offset).prog = mode
    BY DEF At
  <2>2. Waveform = At("waveform", 18)
    BY <2>1 DEF Layout, Waveform
  <2> QED BY <2>1, <2>2
<1> DEFINE s == tx
           z == << >>
           b == FALSE
           a == s.on
           m == MachineOf(a, s.pc, s.x, s.y, s.osr, s.isr, s.in, s.out)
           u == Restarted
<1>2. s = m
  BY Explicit
<1>3. z \in Seq(Nat) /\ b \in BOOLEAN
  OBVIOUS
<1>4. u = [[[s EXCEPT !.on = b] EXCEPT !.in = z] EXCEPT !.pc = 18]
  <2>1. u = [s EXCEPT !.on = b, !.in = z, !.pc = 18]
    BY <1>1 DEF Restarted
  <2> HIDE DEF u, s, z, b
  <2>2. [s EXCEPT !.on = b, !.in = z, !.pc = 18]
          = [[[s EXCEPT !.on = b] EXCEPT !.in = z] EXCEPT !.pc = 18]
    OBVIOUS
  <2> QED BY <2>1, <2>2
<1>5. s.pc \in Nat /\ s.x \in Nat /\ s.y \in Nat /\ s.osr \in Nat /\ s.isr \in Nat
      /\ s.in \in Seq(Nat) /\ s.out \in Seq(Nat)
  BY DEF Machines
<1> HIDE DEF s, z, b, a, u
<1>6. [m EXCEPT !.on = b] = MachineOf(b, s.pc, s.x, s.y, s.osr, s.isr, s.in, s.out)
  BY DEF MachineOf
<1>7. [MachineOf(b, s.pc, s.x, s.y, s.osr, s.isr, s.in, s.out) EXCEPT !.in = z]
        = MachineOf(b, s.pc, s.x, s.y, s.osr, s.isr, z, s.out)
  BY DEF MachineOf
<1>8. [MachineOf(b, s.pc, s.x, s.y, s.osr, s.isr, z, s.out) EXCEPT !.pc = 18]
        = MachineOf(b, 18, s.x, s.y, s.osr, s.isr, z, s.out)
  BY DEF MachineOf
<1> HIDE DEF m
<1>9. [s EXCEPT !.on = b] = MachineOf(b, s.pc, s.x, s.y, s.osr, s.isr, s.in, s.out)
  BY <1>2, <1>6, Zenon
<1>10. u = MachineOf(b, 18, s.x, s.y, s.osr, s.isr, z, s.out)
  BY <1>4, <1>7, <1>8, <1>9, Zenon
<1>11. u.on = b /\ u.pc = 18 /\ u.in = z /\ u.out = s.out
  BY <1>10, FieldsOf
<1>12. u \in Machines
  BY <1>3, <1>5, <1>10 DEF Machines, MachineOf
<1> QED BY <1>11, <1>12, Zenon DEF u, z, b, s

\* A machine that is only switched on or off.
Switch(s, b) == [s EXCEPT !.on = b]
Same(s, u) ==
  /\ u \in Machines /\ u.pc = s.pc /\ u.x = s.x /\ u.y = s.y /\ u.osr = s.osr
  /\ u.isr = s.isr /\ u.in = s.in /\ u.out = s.out

LEMMA SwitchIs ==
  ASSUME NEW s \in Machines, NEW b \in BOOLEAN, NEW u, u = Switch(s, b)
  PROVE  Same(s, u) /\ u.on = b
<1> DEFINE a == s.on
           m == MachineOf(a, s.pc, s.x, s.y, s.osr, s.isr, s.in, s.out)
<1>1. s = m
  BY Explicit
<1>2. s.pc \in Nat /\ s.x \in Nat /\ s.y \in Nat /\ s.osr \in Nat /\ s.isr \in Nat
      /\ s.in \in Seq(Nat) /\ s.out \in Seq(Nat)
  BY DEF Machines
<1> HIDE DEF a
<1>3. [m EXCEPT !.on = b] = MachineOf(b, s.pc, s.x, s.y, s.osr, s.isr, s.in, s.out)
  BY DEF MachineOf
<1> HIDE DEF m
<1>4. u = MachineOf(b, s.pc, s.x, s.y, s.osr, s.isr, s.in, s.out)
  BY <1>1, <1>3, Zenon DEF Switch
<1>5. /\ u.on = b /\ u.pc = s.pc /\ u.x = s.x /\ u.y = s.y /\ u.osr = s.osr
      /\ u.isr = s.isr /\ u.in = s.in /\ u.out = s.out
  BY <1>4, FieldsOf
<1>6. u \in Machines
  BY <1>2, <1>4 DEF Machines, MachineOf
<1> QED BY <1>5, <1>6, Zenon DEF Same

LEMMA SamePlace ==
  ASSUME NEW s, NEW u, Same(s, u)
  PROVE  /\ P(u) = P(s) /\ D(u) = D(s)
         /\ \A k : J(u, k) = J(s, k)
         /\ \A e, k : Control(e, s, k) => Control(e, u, k)
         /\ \A v, k : Starved(v, u, k) = Starved(v, s, k)
         /\ \A e, v, ph, k : Lasts(e, v, u, ph, k) = Lasts(e, v, s, ph, k)
<1>1. P(u) = P(s)
  BY Zenon DEF P, Same
<1>2. D(u) = D(s)
  BY <1>1, Zenon DEF D, Same
<1>3. \A k : J(u, k) = J(s, k)
  BY <1>1, Zenon DEF J
<1>4. ASSUME NEW e, NEW k, Control(e, s, k) PROVE Control(e, u, k)
  <2>1. u.osr = s.osr /\ u.x = s.x /\ u.y = s.y
    BY Zenon DEF Same
  <2> DEFINE p == P(s)
             w == P(u)
             x == s.x
             y == s.y
             o == s.osr
  <2> HIDE DEF p, w, x, y, o
  <2>2. w = p /\ u.osr = o /\ u.x = x /\ u.y = y
    BY <1>1, <2>1 DEF p, w, x, y, o
  <2>3. /\ p \in 0 .. 13 /\ k \in 0 .. N(e) + 1
        /\ p = 0 => k <= N(e)
        /\ p \in {1, 2, 3} => k >= 1
        /\ p \in 4 .. 10 => k \in 1 .. N(e)
        /\ p >= 11 => k = N(e) + 1
        /\ p = 1 => o = Word(e, k)
        /\ p = 2 => o = Count(e, k) /\ y = Level(e, k)
        /\ p \in {3, 4} => x = Count(e, k) /\ y = Level(e, k)
        /\ p \in {5, 6, 7} => Level(e, k) = 1
        /\ p \in {8, 9, 10} => Level(e, k) = 0
        /\ p \in {5, 8} => x = Count(e, k)
        /\ p \in {6, 9} => x <= Count(e, k)
    BY <1>4, Zenon DEF Control, p, x, y, o
  <2> QED BY <2>2, <2>3, Zenon DEF Control, w
<1>5. ASSUME NEW v, NEW k PROVE Starved(v, u, k) = Starved(v, s, k)
  BY Zenon DEF Starved, Same
<1>6. ASSUME NEW e, NEW v, NEW ph, NEW k
      PROVE  Lasts(e, v, u, ph, k) = Lasts(e, v, s, ph, k)
  BY <1>2, <1>3, <1>5, Zenon DEF Lasts
<1> QED BY <1>1, <1>2, <1>3, <1>4, <1>5, <1>6, Zenon

LEMMA SetupKeeps ==
  ASSUME Layout, Layout', Engines, Setup
  PROVE  Engines'
<1>1. /\ pc = "setup" /\ pc' = "start" /\ tx' = Restarted
      /\ irq' = (IF exchange.kind = "emit" THEN FALSE ELSE irq)
      /\ pad' = "pio" /\ dir' = 0 /\ div' = exchange.div /\ phase' = 0
      /\ UNCHANGED <<result, exchange, got, mode, offset, rx>>
      /\ UNCHANGED <<dma, due, left, late, rising, rise, played, run>>
  BY DEF Setup, report, memory, feed, wire
<1>2. exchange \in Exchanges /\ ~Sending /\ ~Sending' /\ tx \in Machines /\ tx.out = << >>
  BY <1>1 DEF Engines, Served, Sending, Typed
<1>3. tx' \in Machines /\ tx'.pc = 18 /\ tx'.in = << >> /\ tx'.out = << >> /\ ~tx'.on
  BY <1>1, <1>2, RestartedIs, Zenon
<1>4. exchange.div \in Nat \ {0}
  BY <1>2, ExchangeIs
<1>5. Typed'
  <2>1. Len(tx'.in) <= FIFO /\ dir' \in {0, 1} /\ pad' \in {"pio", "sio"}
    BY <1>1, <1>3, NumbersAre
  <2>2. div' \in Nat \ {0} /\ phase' \in 0 .. div' - 1
    BY <1>1, <1>4
  <2>3. irq' \in BOOLEAN
    BY <1>1, Zenon DEF Engines, Typed
  <2> QED BY <1>1, <1>2, <1>3, <2>1, <2>2, <2>3, Zenon DEF Engines, Typed
<1>6. Served' /\ Listening'
  <2>1. Served'
    BY <1>1, <1>2 DEF Served
  <2>2. Listening'
    BY <1>1, Zenon DEF Engines, Listening, Hearing, Q
  <2> QED BY <2>1, <2>2
<1>7. Quiet'
  BY <1>3, <1>1, <1>2 DEF P, Engines, Quiet
<1>8. Carrying' /\ Heeded' /\ Timed'
  BY <1>2, <1>1 DEF Carrying, Engines, Heeded, Early, Timed
<1> QED BY <1>5, <1>6, <1>7, <1>8 DEF Engines

LEMMA StartKeeps ==
  ASSUME Layout, Layout', Engines, Start
  PROVE  Engines'
<1>1. /\ pc = "start" /\ pc' = "enable" /\ dma' = Commands(exchange.segs)
      /\ due' = Ticks(exchange.segs) * div
      /\ UNCHANGED <<result, exchange, got, mode, offset, tx, rx, irq, pad, dir, div, phase>>
      /\ UNCHANGED <<left, late, rising, rise, played, run>>
  BY DEF Start, report, memory, lines, wire
<1>2. /\ exchange \in Exchanges /\ ~Sending /\ Sending' /\ tx \in Machines /\ tx.out = << >>
      /\ div \in Nat \ {0} /\ phase \in 0 .. div - 1
  BY <1>1 DEF Engines, Served, Sending, Typed
<1>3. /\ ~tx.on /\ P(tx) = 0 /\ tx.in = << >> /\ pad = "pio" /\ div = exchange.div
      /\ run = 0 /\ played = << >> /\ dir = 0
  BY <1>1, <1>2, Zenon DEF Engines, Quiet
<1>4. due' \in Nat /\ due' < TIMEOUT
  <2> DEFINE t == Total(exchange, N(exchange))
  <2>1. t \in Nat /\ (t + 8) * exchange.div < TIMEOUT
    BY <1>2, ExchangeIs, TotalIs
  <2>2. due' = t * div
    BY <1>1 DEF Ticks, Total, N
  <2> HIDE DEF t
  <2>3. (t + 8) * div < TIMEOUT /\ (t + 8) * div = t * div + 8 * div
    <3>1. (t + 8) * div < TIMEOUT
      BY <1>3, <2>1, Zenon
    <3>2. (t + 8) * div = t * div + 8 * div
      BY <1>2, <2>1
    <3> QED BY <3>1, <3>2
  <2>4. t * div \in Nat /\ 8 * div \in Nat
    BY <1>2, <2>1
  <2> QED BY <2>2, <2>3, <2>4, NumbersAre
<1>5. Typed'
  BY <1>1, <1>2, <1>4, Zenon DEF Engines, Typed
<1>6. Served' /\ Listening'
  <2>1. Served'
    BY <1>1, <1>2 DEF Served
  <2>2. Listening'
    BY <1>1, Zenon DEF Engines, Listening, Hearing, Q
  <2> QED BY <2>1, <2>2
<1>7. Quiet'
  BY <1>2, Zenon DEF Quiet
<1>8. Carrying'
  BY <1>1, <1>2, <1>3, FrameBegins DEF Begins, K, Carrying
<1>9. Heeded' /\ Timed'
  BY <1>1, <1>4 DEF Engines, Heeded, Timed, Early
<1> QED BY <1>5, <1>6, <1>7, <1>8, <1>9 DEF Engines

LEMMA PlayingOn ==
  ASSUME NEW e, NEW v, NEW s, NEW u, NEW ph, NEW low, NEW n, NEW lows, NEW d, NEW k,
         Same(s, u), u.on, Playing(e, v, s, ph, low, n, lows, d, k)
  PROVE  Playing(e, v, u, ph, low, n, lows, d, k)
<1>1. /\ u \in Machines /\ u.in = s.in /\ u.out = s.out /\ P(u) = P(s) /\ D(u) = D(s)
      /\ J(u, k) = J(s, k) /\ (Control(e, s, k) => Control(e, u, k))
  BY SamePlace, Zenon DEF Same
<1> QED BY <1>1, Zenon DEF Playing

\* While a frame is sent.
LEMMA SendingIs ==
  ASSUME Engines, Sending
  PROVE  /\ Playing(exchange, div, tx, phase, dir, run, played, dma, K)
         /\ Sizes(exchange, div, tx, phase, K) /\ Control(exchange, tx, K)
         /\ exchange \in Exchanges /\ tx \in Machines /\ N(exchange) \in Nat /\ K \in Nat
         /\ P(tx) \in 0 .. 13 /\ dma \in Seq(Nat) /\ tx.in \in Seq(Nat)
         /\ div \in Nat \ {0} /\ phase \in 0 .. div - 1
         /\ P(tx) = 13 => K = N(exchange) + 1
         /\ K = N(exchange) + 1 <=> dma = << >> /\ tx.in = << >>
<1>1. Playing(exchange, div, tx, phase, dir, run, played, dma, K)
  BY DEF Engines, Carrying
<1>2. exchange \in Exchanges /\ tx \in Machines /\ div \in Nat \ {0} /\ phase \in 0 .. div - 1
  <2>1. pc \notin {"off", "idle"}
    BY DEF Sending
  <2> QED BY <2>1, Zenon DEF Engines, Served, Typed
<1>3. Control(exchange, tx, K) /\ dma \in Seq(Nat) /\ tx.in \in Seq(Nat)
  BY <1>1, Zenon DEF Playing, Queued
<1>4. Sizes(exchange, div, tx, phase, K)
  <2>1. Sized(exchange, div, tx, phase, K)
    BY <1>2, <1>3, Zenon DEF Sized
  <2> QED BY <2>1, LastsIs
<1>5. N(exchange) \in Nat
  BY <1>2, ExchangeIs
<1>6. P(tx) \in 0 .. 13 /\ K \in Nat /\ (P(tx) = 13 => K = N(exchange) + 1)
  <2> HIDE DEF K
  <2>1. P(tx) \in 0 .. 13 /\ K \in 0 .. N(exchange) + 1
    BY <1>3, Zenon DEF Control
  <2>2. P(tx) = 13 => K = N(exchange) + 1
    <3>1. P(tx) >= 11 => K = N(exchange) + 1
      BY <1>3, Zenon DEF Control
    <3> QED BY <2>1, <3>1
  <2> QED BY <1>5, <2>1, <2>2
<1>7. K = N(exchange) + 1 <=> dma = << >> /\ tx.in = << >>
  <2> DEFINE in == tx.in
             n == N(exchange)
             l == Len(in)
             h == Len(dma)
  <2>1. K = n + 1 - l - h
    BY DEF K, Pulled
  <2>2. /\ l \in Nat /\ h \in Nat /\ n \in Nat
        /\ (l = 0 <=> in = << >>) /\ (h = 0 <=> dma = << >>)
    <3>1. in \in Seq(Nat) /\ dma \in Seq(Nat) /\ n \in Nat
      BY <1>3, <1>5
    <3> HIDE DEF in, n
    <3> QED BY <3>1
  <2> HIDE DEF in, n, l, h
  <2>3. K = n + 1 <=> l = 0 /\ h = 0
    BY <2>1, <2>2
  <2> QED BY <2>2, <2>3 DEF n, in
<1> QED BY <1>1, <1>2, <1>3, <1>4, <1>5, <1>6, <1>7, Zenon

LEMMA EnableKeeps ==
  ASSUME Layout, Layout', Engines, Enable
  PROVE  Engines'
<1>1. /\ pc = "enable" /\ pc' = (IF exchange.kind = "decode" THEN "poll" ELSE "dma")
      /\ tx' = Switch(tx, TRUE)
      /\ UNCHANGED <<result, exchange, got, mode, offset, rx, irq, pad, dir, div, phase>>
      /\ UNCHANGED <<dma, due, left, late, rising, rise, played, run>>
  BY DEF Enable, report, memory, lines, feed, wire, Switch
<1>2. Sending /\ Sending' /\ pc' \in {"poll", "dma"}
  BY <1>1 DEF Sending
<1>3. /\ Playing(exchange, div, tx, phase, dir, run, played, dma, K)
      /\ Sizes(exchange, div, tx, phase, K) /\ exchange \in Exchanges
      /\ tx \in Machines
  BY <1>2, SendingIs, Zenon
<1>4. Same(tx, tx') /\ tx'.on
  <2> DEFINE u == tx'
             b == TRUE
  <2>1. u = Switch(tx, b) /\ b \in BOOLEAN
    BY <1>1
  <2> HIDE DEF u, b
  <2>2. Same(tx, u) /\ u.on = b
    BY <1>3, <2>1, SwitchIs
  <2> QED BY <2>2, Zenon DEF u, b
<1>5. tx' \in Machines /\ tx'.out = tx.out /\ tx'.in = tx.in
  BY <1>4, Zenon DEF Same
<1>6. /\ P(tx') = P(tx)
      /\ Lasts(exchange, div, tx', phase, K) = Lasts(exchange, div, tx, phase, K)
  <2> DEFINE u == tx'
  <2>1. Same(tx, u)
    BY <1>4
  <2> HIDE DEF u
  <2>2. P(u) = P(tx)
    BY <2>1, SamePlace
  <2>3. \A e, v, ph, k : Lasts(e, v, u, ph, k) = Lasts(e, v, tx, ph, k)
    BY <2>1, SamePlace
  <2> QED BY <2>2, <2>3 DEF u
<1>7. K' = K
  BY <1>1, <1>5, Zenon DEF K
<1>8. Typed'
  BY <1>1, <1>2, <1>5, Zenon DEF Engines, Typed
<1>9. Served' /\ Listening' /\ Quiet'
  <2>1. exchange.kind = "decode" => exchange.kind # "emit"
    OBVIOUS
  <2>2. Served'
    BY <1>1, <1>2, <1>3, <2>1 DEF Served
  <2>3. Listening'
    BY <1>1, <1>2, Zenon DEF Engines, Listening, Hearing, Q
  <2>4. Quiet'
    BY <1>2, Zenon DEF Quiet
  <2> QED BY <2>2, <2>3, <2>4
<1>10. Carrying'
  BY <1>3, <1>4, <1>1, <1>7, <1>2, PlayingOn DEF Engines, Carrying
<1>11. Heeded'
  BY <1>2, <1>6, <1>1 DEF Engines, Heeded, Early
<1>12. Timed'
  <2>1. left = TIMEOUT /\ (exchange.kind # "decode" => due < TIMEOUT)
    BY <1>1 DEF Engines, Timed
  <2>2. P(tx) = 0 /\ K = 0 /\ div = exchange.div
    <3>1. ~tx.on /\ div = exchange.div
      BY <1>1, <1>2 DEF Engines, Carrying
    <3> QED BY <1>3, <3>1, Zenon DEF Playing
  <2>3. Lasts(exchange, div, tx, phase, K) \in Nat
        /\ Lasts(exchange, div, tx, phase, K) < TIMEOUT
    BY <1>3, <2>2, Zenon DEF Sizes
  <2>4. Remains'
    <3> DEFINE l == Lasts(exchange, div, tx, phase, K)
    <3>1. Lasts(exchange, div, tx, phase, K)' = l
      BY <1>1, <1>6, <1>7, Zenon
    <3> HIDE DEF l
    <3>2. l \in Nat /\ l < TIMEOUT /\ div \in Nat \ {0} /\ left = TIMEOUT
      BY <2>1, <2>3 DEF l, Engines, Typed
    <3>3. l <= left + div - 1
      BY <3>2, NumbersAre
    <3> QED BY <1>1, <3>1, <3>3, Zenon DEF Remains
  <2>5. pc' = "dma" => exchange'.kind # "decode"
    BY <1>1
  <2> QED BY <1>1, <1>2, <2>1, <2>4, <2>5 DEF Timed
<1> QED BY <1>8, <1>9, <1>10, <1>11, <1>12 DEF Engines

\* The CPU goes on, and the machines with it.
Passing ==
  /\ UNCHANGED <<exchange, got, mode, offset, tx, irq, pad, dir, div, phase>>
  /\ UNCHANGED <<dma, due, left, late, rising, rise, played, run>>

LEMMA PassingKeeps ==
  ASSUME Engines, Sending, Sending', pc # "enable", pc' # "enable", Passing
  PROVE  Carrying' /\ Quiet' /\ (Remains' <=> Remains) /\ P(tx)' = P(tx) /\ K' = K
<1>1. K' = K /\ P(tx)' = P(tx)
  BY Zenon DEF Passing, K, P
<1>2. Carrying'
  BY <1>1, Zenon DEF Engines, Carrying, Passing
<1>3. Quiet'
  BY Zenon DEF Quiet
<1>4. Remains' <=> Remains
  BY <1>1, Zenon DEF Remains, Passing
<1> QED BY <1>1, <1>2, <1>3, <1>4

LEMMA DmaDoneKeeps ==
  ASSUME Layout, Layout', Engines, DmaDone
  PROVE  Engines'
<1>1. /\ pc = "dma" /\ dma = << >> /\ Passing /\ UNCHANGED <<rx, result>>
      /\ pc' = CASE exchange.kind = "emit" -> "wave"
                 [] exchange.kind = "decode" -> "stop"
                 [] OTHER -> "poll"
  BY DEF DmaDone, report, memory, lines, feed, wire, Passing
<1>2. /\ pc' \in {"wave", "stop", "poll"}
      /\ pc' = "wave" <=> exchange.kind = "emit"
      /\ pc' = "stop" <=> exchange.kind = "decode"
  BY <1>1
<1>3. Sending /\ Sending' /\ exchange \in Exchanges
  BY <1>1, <1>2 DEF Sending, Engines, Served
<1>4. Carrying' /\ Quiet' /\ (Remains' <=> Remains) /\ P(tx)' = P(tx)
  BY <1>1, <1>2, <1>3, PassingKeeps
<1>5. Typed'
  BY <1>1, <1>3, Zenon DEF Engines, Typed, Passing
<1>6. Served' /\ Listening'
  <2>1. Served'
    BY <1>1, <1>2, <1>3 DEF Served, Passing
  <2>2. Listening'
    BY <1>1, Zenon DEF Engines, Listening, Hearing, Q, Passing
  <2> QED BY <2>1, <2>2
<1>7. Heeded'
  BY <1>1, <1>2, <1>3, <1>4 DEF Early, Passing, Engines, Heeded
<1>8. Timed'
  BY <1>1, <1>3, <1>2, <1>4 DEF Engines, Timed, Passing
<1> QED BY <1>4, <1>5, <1>6, <1>7, <1>8 DEF Engines

LEMMA LookKeeps ==
  ASSUME Layout, Layout', Engines, PollEmpty \/ InTime
  PROVE  Engines'
<1>1. /\ pc \in {"poll", "expiry"} /\ pc' \in {"poll", "expiry"} /\ Passing
      /\ UNCHANGED <<rx, result>>
  BY DEF PollEmpty, InTime, report, memory, lines, feed, wire, Passing
<1>2. Sending /\ Sending' /\ pc # "enable" /\ pc' # "enable"
  BY <1>1 DEF Sending
<1>3. Carrying' /\ Quiet' /\ (Remains' <=> Remains) /\ P(tx)' = P(tx)
  BY <1>1, <1>2, PassingKeeps
<1>4. Typed'
  BY <1>1, <1>2, Zenon DEF Engines, Typed, Passing
<1>5. Served' /\ Listening'
  <2>1. exchange \in Exchanges /\ exchange.kind # "emit" /\ exchange' = exchange
    BY <1>1 DEF Engines, Served, Passing
  <2>2. Served'
    BY <1>1, <2>1 DEF Served
  <2>3. Listening'
    BY <1>1, Zenon DEF Engines, Listening, Hearing, Q, Passing
  <2> QED BY <2>2, <2>3
<1>6. Heeded'
  BY <1>1, <1>2, <1>3 DEF Early, Passing, Engines, Heeded
<1>7. Timed'
  <2>1. Remains
    BY <1>2 DEF Engines, Timed
  <2> QED BY <1>1, <1>3, <2>1 DEF Timed
<1> QED BY <1>3, <1>4, <1>5, <1>6, <1>7 DEF Engines

LEMMA HearingSame ==
  ASSUME NEW s, NEW u, Same(s, u), Hearing(s)
  PROVE  Hearing(u) /\ (Early(u) <=> Early(s))
<1>1. /\ u \in Machines /\ u.pc = s.pc /\ u.y = s.y /\ u.osr = s.osr
      /\ u.in = s.in /\ u.out = s.out
  BY Zenon DEF Same
<1>2. Q(u) = Q(s)
  BY <1>1, Zenon DEF Q
<1>3. Hearing(u)
  BY <1>1, <1>2, Zenon DEF Hearing
<1> QED BY <1>1, <1>3, Zenon DEF Early

LEMMA SwitchedOff ==
  ASSUME NEW s \in Machines, NEW u, u = Switch(s, FALSE)
  PROVE  Same(s, u) /\ ~u.on
<1> DEFINE b == FALSE
<1>1. u = Switch(s, b) /\ b \in BOOLEAN
  OBVIOUS
<1> HIDE DEF b
<1>2. Same(s, u) /\ u.on = b
  BY <1>1, SwitchIs
<1> QED BY <1>2, Zenon DEF b

LEMMA OneWord ==
  ASSUME NEW q \in Seq(Nat), Len(q) = 1
  PROVE  Head(q) \in Nat /\ Tail(q) = << >> /\ Tail(q) \in Seq(Nat)
<1>1. q # << >>
  <2>1. Len(<< >>) = 0
    BY EmptySeq
  <2>2. q = << >> => Len(q) = 0
    BY <2>1, Zenon
  <2> QED BY <2>2
<1>2. Head(q) \in Nat /\ Tail(q) \in Seq(Nat) /\ Len(Tail(q)) = Len(q) - 1
  BY <1>1, HeadTailProperties
<1>3. Len(Tail(q)) = 0
  BY <1>2
<1> QED BY <1>2, <1>3, EmptySeq

\* The receive machine stopped, and its word taken.
Emptied(s) == [s EXCEPT !.on = FALSE, !.out = Tail(s.out)]

LEMMA EmptiedIs ==
  ASSUME NEW s, Hearing(s), s.out # << >>, NEW u, u = Emptied(s)
  PROVE  Hearing(u) /\ Head(s.out) \in Nat /\ ~Early(s)
<1>1. s \in Machines /\ Len(s.out) = 1
  BY DEF Hearing
<1> DEFINE a == s.on
           b == FALSE
           z == Tail(s.out)
           m == MachineOf(a, s.pc, s.x, s.y, s.osr, s.isr, s.in, s.out)
<1>2. s = m
  BY <1>1, Explicit
<1>3. s.pc \in Nat /\ s.x \in Nat /\ s.y \in Nat /\ s.osr \in Nat /\ s.isr \in Nat
      /\ s.in \in Seq(Nat) /\ s.out \in Seq(Nat)
  BY <1>1 DEF Machines
<1>4. Head(s.out) \in Nat /\ z = << >> /\ z \in Seq(Nat)
  <2>1. s.out \in Seq(Nat) /\ Len(s.out) = 1
    BY <1>1, <1>3
  <2> QED BY <2>1, OneWord
<1>5. b \in BOOLEAN
  OBVIOUS
<1>6. u = [[s EXCEPT !.on = b] EXCEPT !.out = z]
  <2>1. u = [s EXCEPT !.on = b, !.out = z]
    BY DEF Emptied
  <2> HIDE DEF b, z
  <2>2. [s EXCEPT !.on = b, !.out = z] = [[s EXCEPT !.on = b] EXCEPT !.out = z]
    OBVIOUS
  <2> QED BY <2>1, <2>2
<1> HIDE DEF a, b, z
<1>7. [m EXCEPT !.on = b] = MachineOf(b, s.pc, s.x, s.y, s.osr, s.isr, s.in, s.out)
  BY DEF MachineOf
<1>8. [MachineOf(b, s.pc, s.x, s.y, s.osr, s.isr, s.in, s.out) EXCEPT !.out = z]
        = MachineOf(b, s.pc, s.x, s.y, s.osr, s.isr, s.in, z)
  BY DEF MachineOf
<1> HIDE DEF m
<1>9. u = MachineOf(b, s.pc, s.x, s.y, s.osr, s.isr, s.in, z)
  BY <1>2, <1>6, <1>7, <1>8, Zenon
<1>10. /\ u.pc = s.pc /\ u.y = s.y /\ u.osr = s.osr /\ u.in = s.in /\ u.out = z
       /\ u \in Machines
  BY <1>9, <1>3, <1>4, <1>5, FieldsOf DEF Machines, MachineOf
<1>11. Q(u) = Q(s)
  BY <1>10, Zenon DEF Q
<1>12. Hearing(u)
  BY <1>4, <1>10, <1>11, Zenon DEF Hearing
<1> QED BY <1>4, <1>12 DEF Early

LEMMA TwoIs ==
  ASSUME NEW n \in Nat
  PROVE  Two(n) \in Nat \ {0}
<1> DEFINE Step == [q \in (1 .. n) \X Nat |-> 2 * q[2]]
           Is(g) == g = [i \in 0 .. n |-> IF i = 0 THEN 1 ELSE 2 * g[i - 1]]
           w == CHOOSE g : Is(g)
<1>1. \E g \in [0 .. n -> Nat] : Is(g)
  <2>1. Step \in [(1 .. n) \X Nat -> Nat]
    OBVIOUS
  <2> HIDE DEF Step
  <2>2. PICK g \in [0 .. n -> Nat] : Recurs(g, n, 1, Step)
    <3>1. n \in Nat /\ 1 \in Nat
      OBVIOUS
    <3> QED BY <2>1, <3>1, Recursion
  <2>3. \A i \in 0 .. n : i # 0 => Step[<<i, g[i - 1]>>] = 2 * g[i - 1]
    <3> TAKE i \in 0 .. n
    <3> HAVE i # 0
    <3>1. i \in 1 .. n /\ i - 1 \in 0 .. n
      OBVIOUS
    <3>2. g[i - 1] \in Nat
      BY <2>2, <3>1
    <3> QED BY <3>1, <3>2 DEF Step
  <2> QED BY <2>2, <2>3 DEF Recurs
<1>2. Is(w)
  <2> HIDE DEF Is
  <2> QED BY <1>1
<1>3. Two(n) = w[n]
  BY DEF Two
<1> HIDE DEF w
<1>4. w[0] = 1 /\ \A j \in 1 .. n : w[j] = 2 * w[j - 1]
  BY <1>2
<1> HIDE DEF Is
<1> DEFINE Up == {k \in Nat : k <= n => w[k] \in Nat \ {0}}
<1>5. 0 \in Up
  BY <1>4
<1>6. ASSUME NEW k \in Nat, k \in Up PROVE k + 1 \in Up
  <2> SUFFICES ASSUME k + 1 <= n PROVE w[k + 1] \in Nat \ {0}
    OBVIOUS
  <2>1. k + 1 \in 1 .. n /\ k + 1 - 1 = k /\ k <= n
    OBVIOUS
  <2>2. w[k + 1] = 2 * w[k] /\ w[k] \in Nat \ {0}
    BY <1>4, <1>6, <2>1
  <2> QED BY <2>2
<1>7. Nat \subseteq Up
  <2> HIDE DEF Up
  <2> QED BY <1>5, <1>6, SetInduction
<1> QED BY <1>3, <1>7

LEMMA ValueIs ==
  ASSUME exchange \in Exchanges, NEW word \in Nat
  PROVE  Value(word) \in Nat
<1>1. exchange.bits \in Nat /\ exchange.limit \in Nat
  BY EngineAssumption
<1> DEFINE t == Two(exchange.bits)
           l == exchange.limit
<1>2. t \in Nat \ {0} /\ l \in Nat
  BY <1>1, TwoIs
<1> HIDE DEF t, l
<1>3. word % t \in Nat
  BY <1>2
<1>4. l >= word => l - word \in Nat
  BY <1>2
<1> QED BY <1>3, <1>4 DEF Value, t, l

LEMMA AfterAnswerIs ==
  /\ AfterAnswer \in {"dma", "stop"}
  /\ AfterAnswer = "dma" <=> exchange.kind = "decode"
BY DEF AfterAnswer

LEMMA ExpiredKeeps ==
  ASSUME Layout, Layout', Engines, Expired
  PROVE  Engines'
<1>1. /\ pc = "expiry" /\ left = 0 /\ result' = "TIMEOUT" /\ rx' = Switch(rx, FALSE)
      /\ Passing /\ pc' \in {"dma", "stop"} /\ (pc' = "dma" <=> exchange.kind = "decode")
  <2>1. pc' = AfterAnswer
    BY DEF Expired
  <2>2. pc' \in {"dma", "stop"} /\ (pc' = "dma" <=> exchange.kind = "decode")
    BY <2>1, AfterAnswerIs
  <2> QED BY <2>2 DEF Expired, report, memory, lines, feed, wire, Passing, Switch
<1>2. Sending /\ Sending' /\ pc # "enable" /\ pc' # "enable" /\ pc # "off"
  BY <1>1 DEF Sending
<1>3. Carrying' /\ Quiet' /\ (Remains' <=> Remains) /\ P(tx)' = P(tx)
  BY <1>1, <1>2, PassingKeeps
<1>4. exchange \in Exchanges /\ exchange.kind # "emit" /\ Hearing(rx) /\ Remains
  BY <1>1, <1>2 DEF Engines, Served, Listening, Timed
<1>5. Hearing(rx') /\ (Early(rx') <=> Early(rx))
  <2> DEFINE u == rx'
  <2>1. u = Switch(rx, FALSE) /\ rx \in Machines
    BY <1>1, <1>4 DEF Hearing
  <2> HIDE DEF u
  <2>2. Same(rx, u)
    BY <2>1, SwitchedOff
  <2>3. Hearing(u) /\ (Early(u) <=> Early(rx))
    BY <1>4, <2>2, HearingSame
  <2> QED BY <2>3 DEF u
<1>6. P(tx) = 13
  <2> DEFINE l == Lasts(exchange, div, tx, phase, K)
  <2>1. l \in Nat /\ (P(tx) = 13 <=> l <= div - 1)
    BY <1>2, SendingIs, Zenon DEF Sizes
  <2>2. l <= left + div - 1
    BY <1>4 DEF Remains
  <2>3. div \in Nat
    BY DEF Engines, Typed
  <2> HIDE DEF l
  <2>4. l <= div - 1
    BY <1>1, <2>1, <2>2, <2>3
  <2> QED BY <2>1, <2>4
<1>7. Typed'
  <2>1. result' \in Statuses
    BY <1>1 DEF Statuses
  <2> QED BY <1>1, <1>2, <2>1, Zenon DEF Engines, Typed, Passing
<1>8. Served' /\ Listening'
  BY <1>1, <1>4, <1>5 DEF Served, Passing, Listening, Hearing, Q
<1>9. Heeded'
  BY <1>1, <1>3, <1>6 DEF Heeded
<1>10. Timed'
  BY <1>1, <1>3, <1>4, <1>6 DEF Passing, Timed
<1> QED BY <1>3, <1>7, <1>8, <1>9, <1>10 DEF Engines

LEMMA PollTakesKeeps ==
  ASSUME Layout, Layout', Engines, PollTakes
  PROVE  Engines'
<1>1. /\ pc = "poll" /\ rx.out # << >> /\ result' = "OK" /\ rx' = Emptied(rx)
      /\ got' = Value(Head(rx.out))
      /\ UNCHANGED <<exchange, mode, offset, tx, irq, pad, dir, div, phase>>
      /\ UNCHANGED <<dma, due, left, late, rising, rise, played, run>>
      /\ pc' \in {"dma", "stop"} /\ (pc' = "dma" <=> exchange.kind = "decode")
  <2>1. pc' = AfterAnswer
    BY DEF PollTakes
  <2>2. pc' \in {"dma", "stop"} /\ (pc' = "dma" <=> exchange.kind = "decode")
    BY <2>1, AfterAnswerIs
  <2> QED BY <2>2 DEF PollTakes, memory, lines, feed, wire, Emptied
<1>2. Sending /\ Sending' /\ pc # "enable" /\ pc' # "enable" /\ pc # "off"
  BY <1>1 DEF Sending
<1>3. exchange \in Exchanges /\ exchange.kind # "emit" /\ Hearing(rx) /\ Remains
  BY <1>1, <1>2 DEF Engines, Served, Listening, Timed
<1>4. Hearing(rx') /\ Head(rx.out) \in Nat /\ ~Early(rx)
  <2> DEFINE u == rx'
  <2>1. u = Emptied(rx)
    BY <1>1
  <2> HIDE DEF u
  <2>2. Hearing(u) /\ Head(rx.out) \in Nat /\ ~Early(rx)
    BY <1>1, <1>3, <2>1, EmptiedIs
  <2> QED BY <2>2 DEF u
<1>5. P(tx) = 13
  BY <1>2, <1>3, <1>4 DEF Engines, Heeded
<1>6. K' = K /\ P(tx)' = P(tx)
  BY <1>1, Zenon DEF K, P
<1>7. Carrying' /\ Quiet'
  BY <1>1, <1>2, <1>6 DEF Engines, Carrying, Quiet
<1>8. Typed'
  BY <1>1, <1>3, <1>4, <1>2, ValueIs DEF Statuses, Engines, Typed
<1>9. Served' /\ Listening'
  <2>1. Served'
    BY <1>1, <1>3 DEF Served
  <2>2. Listening'
    BY <1>1, <1>4, Zenon DEF Listening, Hearing, Q
  <2> QED BY <2>1, <2>2
<1>10. Heeded'
  BY <1>1, <1>5, <1>6 DEF Heeded
<1>11. Timed'
  BY <1>1, <1>3, <1>6, <1>5 DEF Remains, Timed
<1> QED BY <1>7, <1>8, <1>9, <1>10, <1>11 DEF Engines

\* The machine stops after the frame, as emit reports it, or with the wire
\* idle at its end.
Stopping ==
  /\ pc \in {"wave", "stop"} /\ pc' = "idle"
  /\ tx' = Switch(tx, FALSE) /\ dir' = 0
  /\ P(tx) = 13 \/ (exchange.kind = "emit" /\ K = N(exchange) + 1)
  /\ result' \in Statuses /\ (exchange.kind = "emit" => result' = "OK")
  /\ irq' \in BOOLEAN
  /\ UNCHANGED <<exchange, got, mode, offset, rx, pad, div, phase>>
  /\ UNCHANGED <<dma, due, left, late, rising, rise, played, run>>

LEMMA StoppingKeeps ==
  ASSUME Layout, Layout', Engines, Stopping
  PROVE  Engines'
<1>1. /\ pc \in {"wave", "stop"} /\ pc' = "idle"
      /\ tx' = Switch(tx, FALSE) /\ dir' = 0
      /\ P(tx) = 13 \/ (exchange.kind = "emit" /\ K = N(exchange) + 1)
      /\ result' \in Statuses /\ (exchange.kind = "emit" => result' = "OK")
      /\ irq' \in BOOLEAN
      /\ UNCHANGED <<exchange, got, mode, offset, rx, pad, div, phase>>
      /\ UNCHANGED <<dma, due, left, late, rising, rise, played, run>>
  BY Zenon DEF Stopping
<1>2. Sending /\ ~Sending' /\ pc # "off"
  BY <1>1 DEF Sending
<1>3. /\ Playing(exchange, div, tx, phase, dir, run, played, dma, K)
      /\ exchange \in Exchanges /\ tx \in Machines /\ P(tx) \in 0 .. 13
      /\ P(tx) = 13 => K = N(exchange) + 1
      /\ K = N(exchange) + 1 <=> dma = << >> /\ tx.in = << >>
      /\ div \in Nat \ {0} /\ phase \in 0 .. div - 1
  BY <1>2, SendingIs, Zenon
<1>4. dma = << >> /\ tx.in = << >>
  BY <1>1, <1>3, Zenon
<1>5. /\ tx' \in Machines /\ ~tx'.on /\ tx'.in = tx.in /\ tx'.out = tx.out
      /\ P(tx') = P(tx)
  <2> DEFINE u == tx'
  <2>1. u = Switch(tx, FALSE)
    BY <1>1
  <2> HIDE DEF u
  <2>2. Same(tx, u) /\ ~u.on
    BY <1>3, <2>1, SwitchedOff
  <2>3. P(u) = P(tx) /\ u \in Machines /\ u.in = tx.in /\ u.out = tx.out
    BY <2>2, Zenon DEF Same, P
  <2> QED BY <2>2, <2>3 DEF u
<1>6. Typed'
  <2>1. dir' \in {0, 1}
    BY <1>1
  <2> QED BY <1>1, <1>5, <2>1, Zenon DEF Engines, Typed
<1>7. Served'
  BY <1>1, <1>3, FrameEnds DEF Ended, Heard, HeardOf, Served
<1>8. Listening' /\ Quiet' /\ Carrying' /\ Heeded' /\ Timed'
  <2>1. Hearing(rx)
    BY <1>2 DEF Engines, Listening
  <2>2. Listening'
    BY <1>1, <2>1, Zenon DEF Listening, Hearing, Q
  <2>3. Quiet'
    BY <1>1, <1>3, <1>4, <1>5 DEF Quiet
  <2>4. Carrying'
    BY <1>2 DEF Carrying
  <2>5. Heeded' /\ Timed'
    BY <1>1, <1>2 DEF Heeded, Timed
  <2> QED BY <2>2, <2>3, <2>4, <2>5
<1> QED BY <1>6, <1>7, <1>8 DEF Engines

LEMMA StopKeeps ==
  ASSUME Layout, Layout', Engines, Stop, exchange.kind # "emit"
  PROVE  Engines'
<1>1. /\ pc = "stop" /\ pc' = "idle" /\ tx' = Switch(tx, FALSE) /\ dir' = 0
      /\ UNCHANGED <<result, irq, exchange, got, mode, offset, rx, pad, div, phase>>
      /\ UNCHANGED <<dma, due, left, late, rising, rise, played, run>>
  BY DEF Stop, report, memory, feed, wire, Switch
<1>2. P(tx) = 13
  BY <1>1 DEF Engines, Timed
<1>3. Stopping
  BY <1>1, <1>2, Zenon DEF Engines, Typed, Stopping
<1> QED BY <1>3, StoppingKeeps

LEMMA EmitEndsKeeps ==
  ASSUME Layout, Layout', Engines, EmitEnds
  PROVE  Engines'
<1>1. /\ pc = "wave" /\ pc' = "idle" /\ tx' = Switch(tx, FALSE) /\ dir' = 0
      /\ EmitStatus # "NONE" /\ result' = EmitStatus
      /\ irq' = (IF EmitStatus = "OK" THEN FALSE ELSE irq)
      /\ UNCHANGED <<exchange, got, mode, offset, rx, pad, div, phase>>
      /\ UNCHANGED <<dma, due, left, late, rising, rise, played, run>>
  BY DEF EmitEnds, memory, feed, wire, Switch
<1>2. Sending /\ pc # "off"
  BY <1>1 DEF Sending
<1>3. /\ Remains /\ dma = << >> /\ (due = 0 \/ due < left) /\ exchange.kind = "emit"
      /\ due \in Nat /\ left \in Nat /\ div \in Nat \ {0} /\ (irq => P(tx) = 13)
  <2>1. left \in Nat
    <3>1. left \in 0 .. TIMEOUT
      BY DEF Engines, Typed
    <3> QED BY <3>1, NumbersAre
  <2> QED BY <1>1, <1>2, <2>1 DEF Engines, Typed, Served, Heeded, Timed
<1>4. /\ P(tx) = 13 => tx.in = << >> /\ K = N(exchange) + 1
      /\ K = N(exchange) + 1 <=> dma = << >> /\ tx.in = << >>
      /\ Sizes(exchange, div, tx, phase, K)
  BY <1>2, SendingIs, Zenon
<1>5. left = 0 => P(tx) = 13
  <2> DEFINE l == Lasts(exchange, div, tx, phase, K)
  <2>1. l \in Nat /\ (P(tx) = 13 <=> l <= div - 1)
    BY <1>4, Zenon DEF Sizes
  <2>2. l <= left + div - 1
    BY <1>3 DEF Remains
  <2> HIDE DEF l
  <2>3. left = 0 => l <= div - 1
    BY <1>3, <2>1, <2>2
  <2> QED BY <2>1, <2>3
<1>6. EmitStatus = "OK"
  <2>1. CASE irq \/ (due = 0 /\ tx.in = << >>)
    BY <2>1 DEF EmitStatus
  <2>2. CASE ~(irq \/ (due = 0 /\ tx.in = << >>))
    BY <1>1, <2>2, <1>3, <1>4, <1>5 DEF EmitStatus
  <2> QED BY <2>1, <2>2
<1>7. K = N(exchange) + 1
  <2>1. irq \/ (due = 0 /\ tx.in = << >>)
    BY <1>6 DEF EmitStatus
  <2> QED BY <1>3, <1>4, <2>1, Zenon
<1>8. result' = "OK" /\ irq' = FALSE /\ "OK" \in Statuses
  BY <1>1, <1>6 DEF Statuses
<1>9. Stopping
  <2>1. result' \in Statuses /\ irq' \in BOOLEAN
    BY <1>8
  <2> QED BY <1>1, <1>3, <1>7, <1>8, <2>1, Zenon DEF Stopping
<1> QED BY <1>9, StoppingKeeps

-----------------------------------------------------------------------------
(***************************************************************************)
(* A cycle of the hardware.                                                *)
(***************************************************************************)
LEMMA LessIs ==
  ASSUME NEW n \in Nat
  PROVE  /\ Less(n) \in Nat /\ Less(n) <= n /\ Less(n) >= n - 1
         /\ n = 0 => Less(n) = 0
         /\ n # 0 => Less(n) = n - 1
BY DEF Less

\* What no cycle changes, and what every cycle does to the numbers.
LEMMA CycleNumbers ==
  ASSUME Layout, Engines, Cycle
  PROVE  /\ pc # "off"
         /\ UNCHANGED <<pc, exchange, result, got, mode, offset, pad, div, rise>>
         /\ phase' = (phase + 1) % div /\ phase' \in 0 .. div - 1
         /\ due' \in Nat /\ (due = 0 => due' = 0) /\ (due # 0 => due' = due - 1)
         /\ left' \in 0 .. TIMEOUT /\ left \in Nat /\ left' >= left - 1
         /\ pc \notin {"wave", "poll", "expiry"} => left' = left
         /\ late' \in 0 .. LATE /\ rising' \in 0 .. rise /\ run' \in Nat /\ irq' \in BOOLEAN
<1>1. /\ pc # "off"
      /\ UNCHANGED <<pc, exchange, result, got, mode, offset, pad, div, rise>>
      /\ phase' = (phase + 1) % div /\ due' = Less(due)
      /\ left' = (IF pc \in {"wave", "poll", "expiry"} THEN Less(left) ELSE left)
      /\ (Ready => late < LATE) /\ late' = (IF Ready THEN late + 1 ELSE late)
      /\ rising' = (IF Driven THEN rise ELSE Less(rising))
      /\ run' = (IF Driven THEN run + 1 ELSE 0)
      /\ irq' = (IF Executes(rx, "wait irq") THEN FALSE ELSE irq \/ Raises)
  BY DEF Cycle, report, memory
<1>2. /\ div \in Nat \ {0} /\ phase \in 0 .. div - 1 /\ due \in Nat /\ left \in 0 .. TIMEOUT
      /\ late \in 0 .. LATE /\ rise \in Rises /\ rising \in 0 .. rise /\ run \in Nat
      /\ irq \in BOOLEAN
  BY DEF Engines, Typed
<1>3. TIMEOUT \in Nat /\ LATE \in Nat /\ rise \in Nat
  BY <1>2, EngineAssumption
<1>4. phase' \in 0 .. div - 1
  BY <1>1, <1>2, AheadIs
<1>5. due' \in Nat /\ (due = 0 => due' = 0) /\ (due # 0 => due' = due - 1)
  <2>1. due \in Nat /\ due' = Less(due)
    BY <1>1, <1>2, Zenon
  <2> QED BY <2>1, LessIs
<1>6. /\ left' \in 0 .. TIMEOUT /\ left \in Nat /\ left' >= left - 1
      /\ pc \notin {"wave", "poll", "expiry"} => left' = left
  <2>1. left \in Nat /\ left <= TIMEOUT
    BY <1>2, <1>3
  <2>2. Less(left) \in Nat /\ Less(left) <= left /\ Less(left) >= left - 1
    BY <2>1, LessIs
  <2>3. left' = Less(left) \/ left' = left
    BY <1>1, Zenon
  <2>4. left' \in 0 .. TIMEOUT /\ left' >= left - 1
    BY <1>3, <2>1, <2>2, <2>3
  <2>5. pc \notin {"wave", "poll", "expiry"} => left' = left
    BY <1>1, Zenon
  <2> QED BY <2>1, <2>4, <2>5
<1>7. late' \in 0 .. LATE
  <2>1. (late < LATE /\ late' = late + 1) \/ late' = late
    BY <1>1, Zenon
  <2> QED BY <1>2, <1>3, <2>1
<1>8. rising' \in 0 .. rise /\ run' \in Nat
  <2>1. rising \in Nat /\ rising <= rise
    BY <1>2, <1>3
  <2>2. Less(rising) \in Nat /\ Less(rising) <= rising
    BY <2>1, LessIs
  <2>3. rising' = rise \/ rising' = Less(rising)
    BY <1>1, Zenon
  <2>4. run' = run + 1 \/ run' = 0
    BY <1>1, Zenon
  <2>5. rising' \in 0 .. rise
    BY <1>3, <2>1, <2>2, <2>3
  <2>6. run' \in Nat
    BY <1>2, <2>4
  <2> QED BY <2>5, <2>6
<1>9. irq' \in BOOLEAN
  BY <1>1, <1>2, Zenon
<1> QED BY <1>1, <1>4, <1>5, <1>6, <1>7, <1>8, <1>9

LEMMA CycleHears ==
  ASSUME Layout, Engines, Cycle
  PROVE  Hearing(rx)' /\ (Early(rx) /\ ~irq => Early(rx)')
<1>1. pc # "off" /\ rx' = Stepped(rx) /\ UNCHANGED <<mode, offset>>
  BY DEF Cycle, memory
<1>2. Hearing(rx)
  BY <1>1 DEF Engines, Listening
<1> DEFINE u == Stepped(rx)
<1>3. Hears(rx, u)
  BY <1>1, <1>2, RxHears
<1> HIDE DEF u
<1>4. Hearing(u) /\ (Early(rx) /\ ~irq => Early(u))
  BY <1>3, Zenon DEF Hears
<1>5. rx' = u
  BY <1>1 DEF u
<1>6. Hearing(rx)' <=> Hearing(u)
  BY <1>1, <1>5, Zenon DEF Hearing, Q
<1>7. Early(rx)' <=> Early(u)
  BY <1>1, <1>5, Zenon DEF Early
<1> QED BY <1>4, <1>6, <1>7

\* Between frames the transmit machine waits, or is off.
LEMMA CycleRests ==
  ASSUME Layout, Engines, Cycle, ~Sending
  PROVE  tx' = tx /\ dma' = dma /\ dir' = dir /\ (irq' => irq) /\ run' = 0 /\ Heard' = Heard
         /\ (run = 0 => played' = played)
<1>1. /\ pc # "off"
      /\ tx' = (IF Moves THEN [Ticked EXCEPT !.in = Append(@, Head(dma))] ELSE Ticked)
      /\ dma' = (IF Moves THEN Tail(dma) ELSE dma)
      /\ irq' = (IF Executes(rx, "wait irq") THEN FALSE ELSE irq \/ Raises)
      /\ dir' = (IF phase = 0 /\ Executes(tx, "set pindirs") THEN Fetch(tx).arg ELSE dir)
      /\ run' = (IF Driven THEN run + 1 ELSE 0)
      /\ played' = (IF ~Driven /\ run > 0 THEN Append(played, run) ELSE played)
  BY DEF Cycle
<1>2. /\ tx \in Machines /\ dir = 0 /\ dma = << >> /\ P(tx) \in 0 .. 13
      /\ tx.on => tx.in = << >> /\ P(tx) = 0
      /\ run \in Nat
  BY <1>1 DEF Engines, Typed, Quiet
<1>3. ~Moves /\ ~Driven
  BY <1>2 DEF Moves, Driven
<1>4. Stepped(tx) = tx
  <2>1. CASE ~tx.on
    BY <2>1, Zenon DEF Stepped
  <2>2. CASE tx.on
    <3>1. P(tx) = 0 /\ tx.in = << >> /\ P(tx) # 13
      BY <1>2, <2>2
    <3>2. Does(tx, Stepped(tx))
      BY <1>1, <1>2, <2>2, <3>1, TxStep
    <3> QED BY <3>1, <3>2, Zenon DEF Does
  <2> QED BY <2>1, <2>2
<1>5. tx' = tx /\ dma' = dma
  BY <1>1, <1>3, <1>4, Zenon DEF Ticked
<1>6. ~Executes(tx, "set pindirs") /\ ~Raises
  <2>1. tx.on => P(tx) \notin {5, 8, 11} /\ P(tx) # 12
    BY <1>2
  <2>2. /\ Executes(tx, "irq set") <=> tx.on /\ P(tx) = 12
        /\ Executes(tx, "set pindirs") <=> tx.on /\ P(tx) \in {5, 8, 11}
    BY <1>1, <1>2, TxSignals
  <2> QED BY <2>1, <2>2, Zenon DEF Raises
<1>7. dir' = dir /\ (irq' => irq)
  BY <1>1, <1>6, Zenon
<1>8. run' = 0 /\ played' = IF run > 0 THEN Append(played, run) ELSE played
  BY <1>1, <1>3
<1>9. Heard' = Heard /\ (run = 0 => played' = played)
  BY <1>2, <1>8 DEF Heard
<1> QED BY <1>5, <1>7, <1>8, <1>9

LEMMA RestKeeps ==
  ASSUME Layout, Engines, Cycle, ~Sending
  PROVE  Engines'
<1>1. /\ pc # "off"
      /\ UNCHANGED <<pc, exchange, result, got, mode, offset, pad, div, rise>>
      /\ phase' \in 0 .. div - 1
      /\ due' \in Nat /\ left' \in 0 .. TIMEOUT
      /\ pc \notin {"wave", "poll", "expiry"} => left' = left
      /\ late' \in 0 .. LATE /\ rising' \in 0 .. rise /\ run' \in Nat /\ irq' \in BOOLEAN
  BY CycleNumbers, Zenon
<1>2. /\ tx' = tx /\ dma' = dma /\ dir' = dir /\ (irq' => irq) /\ run' = 0 /\ Heard' = Heard
      /\ (run = 0 => played' = played)
  BY CycleRests, Zenon
<1>3. Hearing(rx)' /\ (Early(rx) /\ ~irq => Early(rx)')
  BY CycleHears
<1>4. ~Sending' /\ (Sending' <=> Sending)
  BY <1>1, Zenon DEF Sending
<1>5. Typed'
  BY <1>1, <1>2, <1>4, Zenon DEF Engines, Typed
<1>6. Served'
  BY <1>1, <1>2, Zenon DEF Engines, Served
<1>7. Listening' /\ Carrying'
  BY <1>3, <1>4 DEF Listening, Carrying
<1>8. Quiet'
  <2>1. P(tx)' = P(tx)
    BY <1>2, Zenon DEF P
  <2> QED BY <1>1, <1>2, <1>4, <2>1, Zenon DEF Engines, Quiet
<1>9. Heeded'
  BY <1>1, <1>2, <1>3, <1>4 DEF Engines, Heeded
<1>10. Timed'
  BY <1>1, <1>4 DEF Sending, Engines, Timed
<1> QED BY <1>5, <1>6, <1>7, <1>8, <1>9, <1>10 DEF Engines

\* During a frame it plays on.
LEMMA CycleBeats ==
  ASSUME Layout, Engines, Cycle, Sending
  PROVE  /\ Played(exchange, div, phase, tx, K, tx', phase', dir', run', played', dma', K')
         /\ dma = << >> => dma' = << >>
<1>1. /\ tx' = (IF Moves THEN [Ticked EXCEPT !.in = Append(@, Head(dma))] ELSE Ticked)
      /\ dma' = (IF Moves THEN Tail(dma) ELSE dma)
      /\ dir' = (IF phase = 0 /\ Executes(tx, "set pindirs") THEN Fetch(tx).arg ELSE dir)
      /\ run' = (IF Driven THEN run + 1 ELSE 0)
      /\ played' = (IF ~Driven /\ run > 0 THEN Append(played, run) ELSE played)
      /\ phase' = (phase + 1) % div /\ exchange' = exchange /\ pc # "off"
  BY DEF Cycle, report
<1>2. /\ Playing(exchange, div, tx, phase, dir, run, played, dma, K)
      /\ exchange \in Exchanges /\ tx \in Machines /\ P(tx) \in 0 .. 13
      /\ P(tx) = 13 => K = N(exchange) + 1
      /\ K = N(exchange) + 1 <=> dma = << >> /\ tx.in = << >>
      /\ div \in Nat \ {0} /\ phase \in 0 .. div - 1
  BY SendingIs, Zenon
<1>3. pad = "pio" /\ dir \in {0, 1}
  BY DEF Engines, Carrying, Typed
<1>4. (Driven <=> dir = 1) /\ (~Driven <=> dir = 0)
  BY <1>3 DEF Driven
<1>5. /\ Executes(tx, "set pindirs") <=> tx.on /\ P(tx) \in {5, 8, 11}
      /\ P(tx) \in {5, 8, 11} => Fetch(tx).arg = IF P(tx) = 5 THEN 1 ELSE 0
  BY <1>1, <1>2, TxSignals
<1>6. phase = 0 /\ tx.on => Does(tx, Ticked)
  <2> SUFFICES ASSUME phase = 0, tx.on PROVE Does(tx, Ticked)
    OBVIOUS
  <2>1. P(tx) = 13 => tx.in = << >>
    BY <1>2, Zenon
  <2>2. Does(tx, Stepped(tx))
    BY <1>1, <1>2, <2>1, TxStep
  <2> QED BY <2>2, Zenon DEF Ticked
<1>7. ~(phase = 0 /\ tx.on) => Ticked = tx
  BY Zenon DEF Ticked, Stepped
<1>8. PICK b \in BOOLEAN : b <=> Moves
  BY Zenon
<1> DEFINE t == Ticked
           d == dma
<1>9. (b <=> d # << >> /\ Len(tx.in) < FIFO) /\ dma' = After(d, b)
  BY <1>1, <1>8, Zenon DEF Moves, After
<1>10. tx' = IF b THEN Filled(t, Head(d)) ELSE t
  BY <1>1, <1>8, Zenon DEF Filled
<1>11. dir' = IF phase = 0 /\ tx.on /\ P(tx) \in {5, 8, 11} THEN IF P(tx) = 5 THEN 1 ELSE 0
              ELSE dir
  BY <1>1, <1>5, Zenon
<1>12. /\ run' = (IF dir = 1 THEN run + 1 ELSE 0)
       /\ played' = IF dir = 0 /\ run > 0 THEN Append(played, run) ELSE played
  BY <1>1, <1>4, Zenon
<1>13. Beats(exchange, div, phase, tx, dir, run, played, dma, K, t, tx', phase', dir', run',
             played', dma', b)
  BY <1>1, <1>2, <1>6, <1>7, <1>8, <1>9, <1>10, <1>11, <1>12, Zenon DEF Beats
<1> HIDE DEF t
<1>14. Played(exchange, div, phase, tx, K, tx', phase', dir', run', played', dma',
              Pulled(exchange, tx'.in, dma'))
  BY <1>13, PlayCycle
<1>15. K' = Pulled(exchange, tx'.in, dma')
  BY <1>1, Zenon DEF K
<1>16. dma = << >> => dma' = << >>
  BY <1>8, <1>9, Zenon DEF After
<1> QED BY <1>14, <1>15, <1>16, Zenon

LEMMA PlayedIs ==
  ASSUME NEW e, NEW v, NEW ph, NEW s, NEW k, NEW u, NEW ph2, NEW low2, NEW n2, NEW lows2,
         NEW d2, NEW m, e \in Exchanges, v \in Nat \ {0}, ph2 \in 0 .. v - 1,
         Played(e, v, ph, s, k, u, ph2, low2, n2, lows2, d2, m)
  PROVE  Sizes(e, v, u, ph2, m)
<1>1. Playing(e, v, u, ph2, low2, n2, lows2, d2, m)
  BY Zenon DEF Played
<1>2. u \in Machines /\ Control(e, u, m)
  BY <1>1, Zenon DEF Playing
<1>3. Sized(e, v, u, ph2, m)
  BY <1>2, Zenon DEF Sized
<1> QED BY <1>3, LastsIs

LEMMA StillInTime ==
  ASSUME NEW w \in Nat, NEW l \in Nat, NEW r \in Nat, NEW r2 \in Nat, NEW v \in Nat
  PROVE  /\ w <= v - 1 => w <= r2 + v - 1
         /\ w <= l - 1 /\ l <= r + v - 1 /\ r2 >= r - 1 => w <= r2 + v - 1
OBVIOUS

LEMMA PlayKeeps ==
  ASSUME Layout, Engines, Cycle, Sending
  PROVE  Engines'
<1>1. /\ pc # "off"
      /\ UNCHANGED <<pc, exchange, result, got, mode, offset, pad, div, rise>>
      /\ phase' \in 0 .. div - 1
      /\ due' \in Nat /\ (due = 0 => due' = 0) /\ (due # 0 => due' = due - 1)
      /\ left' \in 0 .. TIMEOUT /\ left \in Nat /\ left' >= left - 1
      /\ pc \notin {"wave", "poll", "expiry"} => left' = left
      /\ late' \in 0 .. LATE /\ rising' \in 0 .. rise /\ run' \in Nat /\ irq' \in BOOLEAN
  BY CycleNumbers, Zenon
<1>2. Hearing(rx)' /\ (Early(rx) /\ ~irq => Early(rx)')
  BY CycleHears
<1> DEFINE u == tx'
           m == K'
           l == Lasts(exchange, div, tx, phase, K)
           w == Lasts(exchange, div, u, phase', m)
<1>3. /\ Played(exchange, div, phase, tx, K, u, phase', dir', run', played', dma', m)
      /\ dma = << >> => dma' = << >>
  BY CycleBeats
<1>4. /\ Sizes(exchange, div, tx, phase, K) /\ exchange \in Exchanges /\ P(tx) \in 0 .. 13
      /\ div \in Nat \ {0} /\ tx \in Machines
  BY SendingIs, Zenon
<1>5. Sending'
  BY <1>1, Zenon DEF Sending
<1>6. m = Pulled(exchange', u.in, dma') /\ Sizes(exchange, div, u, phase', m)
  <2>1. m = Pulled(exchange', u.in, dma')
    BY Zenon DEF K
  <2> HIDE DEF u, m
  <2>2. Sizes(exchange, div, u, phase', m)
    BY <1>1, <1>3, <1>4, PlayedIs
  <2> QED BY <2>1, <2>2
<1>7. Remains' <=> w <= left' + div - 1
  BY <1>1, Zenon DEF Remains
<1> HIDE DEF u, m
<1>8. /\ Playing(exchange, div, u, phase', dir', run', played', dma', m)
      /\ (u.on <=> tx.on)
      /\ P(tx) = 13 => P(u) = 13
      /\ phase = 0 /\ tx.on /\ P(tx) = 12 => P(u) = 13
      /\ (tx.on /\ (P(tx) # 13 \/ phase # 0)) => w <= l - 1
  BY <1>3, Zenon DEF Played
<1>9. u \in Machines /\ u.out = << >> /\ Len(u.in) <= FIFO /\ dir' \in {0, 1}
  BY <1>8, Zenon DEF Playing
<1>10. Typed'
  BY <1>5, <1>1, <1>9 DEF Engines, Typed, u
<1>11. Served' /\ Listening' /\ Quiet'
  BY <1>1, <1>2, <1>5 DEF Sending, Engines, Served, Listening, Quiet
<1>12. Carrying'
  BY <1>1, <1>8, Zenon DEF u, m, Engines, Carrying
<1>13. Heeded'
  <2>1. /\ irq => P(tx) = 13
        /\ exchange.kind # "emit" /\ ~Early(rx) => P(tx) = 13
    BY DEF Engines, Heeded
  <2>2. Raises => phase = 0 /\ tx.on /\ P(tx) = 12
    <3>1. Executes(tx, "irq set") <=> tx.on /\ P(tx) = 12
      BY <1>1, <1>4, TxSignals
    <3> QED BY <3>1, Zenon DEF Raises
  <2>3. irq' => irq \/ Raises
    <3>1. irq' = (IF Executes(rx, "wait irq") THEN FALSE ELSE irq \/ Raises)
      BY DEF Cycle
    <3> QED BY <3>1, Zenon
  <2>4. irq' => P(u) = 13
    BY <1>8, <2>1, <2>2, <2>3, Zenon
  <2>5. exchange.kind # "emit" /\ ~Early(rx)' => P(u) = 13
    BY <1>2, <1>8, <2>1, Zenon
  <2>6. P(tx)' = P(u)
    BY Zenon DEF P, u
  <2>7. pc \notin {"start", "setup"}
    BY DEF Sending
  <2> QED BY <1>1, <2>4, <2>5, <2>6, <2>7, Zenon DEF Heeded
<1>14. Timed'
  <2>1. l \in Nat /\ w \in Nat /\ (P(u) = 13 <=> w <= div - 1)
    BY <1>4, <1>6, Zenon DEF Sizes
  <2>2. pc # "enable" => tx.on /\ l <= left + div - 1
    BY DEF Engines, Carrying, Timed, Remains
  <2> HIDE DEF l, w
  <2>3. pc # "enable" => w <= left' + div - 1
    <3> SUFFICES ASSUME pc # "enable" PROVE w <= left' + div - 1
      OBVIOUS
    <3>1. left' \in Nat
      BY <1>1, NumbersAre
    <3>2. CASE P(tx) = 13
      BY <1>8, <2>1, <3>2, <1>4, <3>1, StillInTime
    <3>3. CASE P(tx) # 13
      <4>1. w <= l - 1
        BY <1>8, <2>2, <3>3, Zenon
      <4>2. left' >= left - 1 /\ left \in Nat
        BY <1>1
      <4>3. l <= left + div - 1
        BY <2>2
      <4>4. div \in Nat
        BY <1>4
      <4> QED BY <2>1, <3>1, <4>1, <4>2, <4>3, <4>4, StillInTime
    <3> QED BY <3>2, <3>3
  <2>4. pc = "wave" => dma' = << >> /\ (due' = 0 \/ due' < left')
    <3> SUFFICES ASSUME pc = "wave" PROVE dma' = << >> /\ (due' = 0 \/ due' < left')
      OBVIOUS
    <3>1. dma = << >> /\ (due = 0 \/ due < left) /\ due \in Nat
      BY DEF Engines, Timed, Typed
    <3>2. CASE due = 0
      BY <1>1, <1>3, <3>1, <3>2
    <3>3. CASE due # 0
      BY <1>1, <3>1, <3>3, <1>3, NumbersAre
    <3> QED BY <3>2, <3>3
  <2>5. pc = "enable" => left' = TIMEOUT
    BY <1>1 DEF Engines, Timed
  <2>6. pc \in {"enable", "dma"} /\ exchange.kind # "decode" =>
          left' = TIMEOUT /\ due' < TIMEOUT
    <3> SUFFICES ASSUME pc \in {"enable", "dma"}, exchange.kind # "decode"
                 PROVE  left' = TIMEOUT /\ due' < TIMEOUT
      OBVIOUS
    <3>1. left' = left /\ left = TIMEOUT /\ due < TIMEOUT /\ due \in Nat
      BY <1>1 DEF Engines, Timed, Typed
    <3>2. due' = 0 \/ due' = due - 1
      BY <1>1
    <3>3. due' < TIMEOUT
      BY <3>1, <3>2, NumbersAre
    <3> QED BY <3>1, <3>3
  <2>7. /\ pc = "dma" /\ exchange.kind = "decode" => P(u) = 13
        /\ pc = "stop" => P(u) = 13
    BY <1>8, Zenon DEF Engines, Timed
  <2>8. P(tx)' = P(u)
    BY Zenon DEF P, u
  <2>9. pc \notin {"arm", "setup", "start"}
    BY DEF Sending
  <2>10. pc' # "enable" => Remains'
    BY <1>1, <1>7, <2>3, Zenon DEF w
  <2> QED BY <1>1, <2>4, <2>5, <2>6, <2>7, <2>8, <2>9, <2>10, Zenon DEF Timed
<1> QED BY <1>10, <1>11, <1>12, <1>13, <1>14 DEF Engines

LEMMA NextEngines ==
  ASSUME Layout, Layout', Engines, [Next]_vars
  PROVE  Engines'
<1>1. CASE Initialise
  BY <1>1, InitialiseKeeps
<1>2. CASE Request
  BY <1>2, RequestKeeps
<1>3. CASE TakePad
  BY <1>3, TakePadKeeps
<1>4. CASE Cycle
  BY <1>4, RestKeeps, PlayKeeps
<1>5. CASE Cpu
  <2>1. CASE Arm
    BY <2>1, ArmKeeps
  <2>2. CASE Setup
    BY <2>2, SetupKeeps
  <2>3. CASE Start
    BY <2>3, StartKeeps
  <2>4. CASE Enable
    BY <2>4, EnableKeeps
  <2>5. CASE DmaDone
    BY <2>5, DmaDoneKeeps
  <2>6. CASE EmitEnds
    BY <2>6, EmitEndsKeeps
  <2>7. CASE PollEmpty \/ InTime
    BY <2>7, LookKeeps
  <2>8. CASE Expired
    BY <2>8, ExpiredKeeps
  <2>9. CASE PollTakes
    BY <2>9, PollTakesKeeps
  <2>10. CASE Stop /\ exchange.kind # "emit"
    BY <2>10, StopKeeps
  <2>11. \/ Arm \/ Setup \/ Start \/ Enable \/ DmaDone \/ EmitEnds \/ PollEmpty \/ InTime
         \/ Expired \/ PollTakes \/ (Stop /\ exchange.kind # "emit")
    BY <1>5 DEF Cpu, EmitSegments, CaptureResponse, TickCaptureResponse, DecodeBits,
                Transmit, Receive
  <2> QED BY <2>1, <2>2, <2>3, <2>4, <2>5, <2>6, <2>7, <2>8, <2>9, <2>10, <2>11
<1>6. CASE UNCHANGED vars
  <2>1. /\ UNCHANGED <<pc, exchange, result, got, mode, offset, tx, rx, irq, pad, dir, div>>
        /\ UNCHANGED <<phase, dma, due, left, late, rising, rise, played, run>>
    BY <1>6 DEF vars, report, memory, lines, feed, wire
  <2>2. K' = K /\ P(tx)' = P(tx) /\ (Sending' <=> Sending) /\ Heard' = Heard
    BY <2>1, Zenon DEF K, P, Sending, Heard
  <2>3. (Hearing(rx)' <=> Hearing(rx)) /\ (Early(rx)' <=> Early(rx))
    BY <2>1, Zenon DEF Hearing, Early, Q
  <2>4. Typed' /\ Served'
    <3>1. Typed /\ Served
      BY Zenon DEF Engines
    <3>2. Typed'
      BY <2>1, <2>2, <3>1, Zenon DEF Typed
    <3>3. Served'
      BY <2>1, <2>2, <3>1, Zenon DEF Served
    <3> QED BY <3>2, <3>3
  <2>5. Listening' /\ Quiet'
    BY <2>1, <2>2, <2>3, Zenon DEF Engines, Listening, Quiet
  <2>6. Carrying' /\ Heeded'
    BY <2>1, <2>2, <2>3, Zenon DEF Engines, Carrying, Heeded
  <2>7. Timed'
    BY <2>1, <2>2, Zenon DEF Engines, Timed, Remains
  <2> QED BY <2>4, <2>5, <2>6, <2>7 DEF Engines
<1> QED BY <1>1, <1>2, <1>3, <1>4, <1>5, <1>6 DEF Next

LEMMA AlwaysEngines == Spec => [](Layout /\ Engines)
<1>1. Init => Engines
  BY InitEngines
<1>2. Layout /\ Engines /\ [Next]_vars => (Layout /\ Engines)'
  BY NextLayout, NextEngines
<1> QED BY <1>1, <1>2, InitLayout, PTL DEF Spec

\* Everything has its type, in every exchange: the FIFOs hold no more than they
\* can, the receive machine no more than its two words and the one it answers,
\* and the CPU comes with the time it may take.
THEOREM TypeCorrect == Spec => []TypeOK
<1>1. Layout /\ Engines => TypeOK
  <2> SUFFICES ASSUME Layout, Engines PROVE TypeOK
    OBVIOUS
  <2>1. /\ pc \in {"off", "idle", "arm", "setup", "start", "enable", "dma", "wave",
                   "poll", "expiry", "stop"}
        /\ exchange \in Exchanges \cup {Off} /\ result \in Statuses /\ got \in Nat
        /\ irq \in BOOLEAN /\ pad \in {"pio", "sio"} /\ dir \in {0, 1}
        /\ Len(tx.in) <= FIFO /\ tx.out = << >>
        /\ left \in 0 .. TIMEOUT /\ late \in 0 .. LATE
        /\ rise \in Rises /\ rising \in 0 .. rise
    BY DEF Engines, Typed, Sending
  <2>2. tx.in \in Seq(Nat)
    <3>1. tx \in Machines
      BY DEF Engines, Typed
    <3> QED BY <3>1 DEF Machines
  <2>3. phase < div
    <3>1. phase \in 0 .. div - 1 /\ div \in Nat \ {0}
      BY DEF Engines, Typed
    <3> QED BY <3>1
  <2>4. mode \in {"width", "decode"}
    BY DEF Layout
  <2>5. Len(rx.in) <= 2 /\ Len(rx.out) <= 1
    <3>1. CASE pc = "off"
      BY <3>1 DEF Engines, Served, Machine
    <3>2. CASE pc # "off"
      <4> DEFINE i == rx.in
                 o == rx.out
                 q == Q(rx)
      <4>1. Hearing(rx)
        BY <3>2 DEF Engines, Listening
      <4>2. i \in Seq(Nat) /\ o \in Seq(Nat) /\ q \in 0 .. 16
        BY <3>2, <4>1, HearingIs
      <4>3. /\ q = 0 => i = << >> \/ Len(i) = 2
            /\ q = 1 => Len(i) = 1
            /\ q = 2 => Len(i) = 1
            /\ q >= 3 => i = << >>
            /\ o # << >> => Len(o) = 1
        BY <4>1, Zenon DEF Hearing
      <4>4. Len(<< >>) = 0
        BY EmptySeq
      <4> DEFINE a == Len(i)
                 b == Len(o)
      <4>5. /\ q = 0 => a = 0 \/ a = 2
            /\ q = 1 => a = 1
            /\ q = 2 => a = 1
            /\ q >= 3 => a = 0
            /\ b = 0 \/ b = 1
        BY <4>3, <4>4, Zenon
      <4> HIDE DEF i, o, q, a, b
      <4>6. a <= 2
        BY <4>2, <4>5
      <4>7. b <= 1
        BY <4>5
      <4> QED BY <4>6, <4>7 DEF a, b, i, o
    <3> QED BY <3>1, <3>2
  <2> QED BY <2>1, <2>2, <2>3, <2>4, <2>5 DEF TypeOK
<1> QED BY <1>1, AlwaysEngines, PTL

\* Whenever an exchange is over, in time or not, the line has carried every low
\* of its frame at its length to the cycle, but for the last ticks of a frame
\* that ends low: neither the channel nor the CPU nor the target can tear it.
THEOREM FramesWhole == Spec => []WholeFrame
<1>1. Layout /\ Engines => WholeFrame
  <2> SUFFICES ASSUME Engines, Over PROVE
        LET want == LowsOf(exchange.segs)[Len(exchange.segs)]
        IN  /\ exchange.kind = "emit" => result = "OK"
            /\ Len(Heard) = Len(want)
            /\ \A i \in DOMAIN want :
                 LET cut == IF ~EndsLow \/ i < Len(want) THEN 0
                            ELSE IF exchange.kind = "emit" THEN 5 ELSE 1
                 IN  Heard[i] \in (want[i] - cut) * div .. want[i] * div
    BY DEF WholeFrame
  <2> DEFINE want == LowsOf(exchange.segs)[N(exchange)]
             cut(i) == IF ~EndsLow \/ i < Len(want) THEN 0
                       ELSE IF exchange.kind = "emit" THEN 5 ELSE 1
  <2>1. /\ exchange \in Exchanges /\ (exchange.kind = "emit" => result = "OK")
        /\ Whole(exchange, div, Heard, want)
    BY DEF Engines, Served, Over
  <2>2. EndsLow <=> Low(exchange.segs[N(exchange)])
    <3>1. exchange.segs # << >>
      BY <2>1, FramesInTime
    <3> QED BY <3>1, Zenon DEF EndsLow, N
  <2>3. want \in Seq(Nat)
    BY <2>1, ExchangeIs, LowsOfIs
  <2> HIDE DEF want
  <2>4. DOMAIN want = 1 .. Len(want) /\ Len(want) \in Nat
    BY <2>3
  <2>5. ASSUME NEW i \in DOMAIN want PROVE Cut(exchange, i, Len(want)) = cut(i)
    BY <2>4, <2>2 DEF Cut
  <2> HIDE DEF cut
  <2>6. /\ Len(Heard) = Len(want)
        /\ \A i \in DOMAIN want : Heard[i] \in (want[i] - cut(i)) * div .. want[i] * div
    BY <2>1, <2>5, Zenon DEF Whole
  <2> QED BY <2>1, <2>6, Zenon DEF want, cut, N
<1> QED BY <1>1, AlwaysEngines, PTL
-----------------------------------------------------------------------------
(***************************************************************************)
(* The answer.                                                             *)
(***************************************************************************)
EndsIn(e) == Low(e.segs[N(e)])

LEMMA AnswerIs ==
  ASSUME NEW e \in Exchanges
  PROVE  /\ e.bits \in Nat \ {0} /\ e.limit \in Nat /\ e.bits < REG /\ e.limit < REG
         /\ e.kind # "decode" => e.bits = 1
         /\ e.kind = "decode" => ~EndsIn(e)
         /\ e.answer \in Seq(Nat) /\ Len(e.answer) \in Nat /\ Len(e.answer) % 2 = 0
         /\ \A i \in 1 .. Len(e.answer) :
              e.answer[i] \in Nat /\ e.answer[i] > 0 /\ (i % 2 = 1 => e.answer[i] >= 8)
         /\ \A r \in Rises : r <= 8 * e.div
         /\ EndsIn(e) /\ e.answer # << >> => \A r \in Rises : r + 10 <= e.answer[1]
<1>1. /\ e.bits \in Nat \ {0} /\ e.limit \in Nat /\ e.answer \in Seq(Nat)
      /\ e.kind # "decode" => e.bits = 1
  BY EngineAssumption
<1>2. /\ e.bits < REG /\ e.limit < REG /\ Len(e.answer) % 2 = 0
      /\ \A i \in DOMAIN e.answer : e.answer[i] >= IF i % 2 = 1 THEN 8 ELSE 1
  BY AnswersInTurn
<1>3. e.kind = "decode" => ~EndsIn(e)
  BY AnswersInTurn, Zenon DEF EndsIn, N
<1>4. \A r \in Rises : r <= 8 * e.div /\ (EndsIn(e) /\ e.answer # << >> => r + 10 <= e.answer[1])
  BY AnswersInTurn, Zenon DEF EndsIn, N
<1>5. Len(e.answer) \in Nat /\ DOMAIN e.answer = 1 .. Len(e.answer)
  BY <1>1
<1>6. ASSUME NEW i \in 1 .. Len(e.answer)
      PROVE  e.answer[i] \in Nat /\ e.answer[i] > 0 /\ (i % 2 = 1 => e.answer[i] >= 8)
  <2> DEFINE c == e.answer[i]
             b == i % 2 = 1
  <2>1. c \in Nat
    BY <1>1, <1>5
  <2>2. c >= IF b THEN 8 ELSE 1
    BY <1>2, <1>5, <1>6, Zenon DEF c, b
  <2>3. c > 0 /\ (b => c >= 8)
    <3> HIDE DEF c, b
    <3> QED BY <2>1, <2>2
  <2> QED BY <2>1, <2>3 DEF c, b
<1> QED BY <1>1, <1>2, <1>3, <1>4, <1>5, <1>6

\* Where the target is in its answer: n gaps and lows are over, of the next one
\* h cycles are left; the line needs r of rs cycles to rise; g cycles of the
\* time left have passed since the answer was over.
Tape(e, n, h, r, rs) ==
  /\ n \in 0 .. Len(e.answer) /\ h \in Nat /\ r \in Nat /\ rs \in Rises
  /\ h = 0 <=> n = Len(e.answer)
  /\ n < Len(e.answer) => h <= e.answer[n + 1]

\* What a cycle makes of it.
Turns(e, n, h, r, g, n2, h2, r2, g2) ==
  /\ h > 1 => n2 = n /\ h2 = h - 1
  /\ h = 1 => n2 = n + 1 /\ h2 = IF n2 = Len(e.answer) THEN 0 ELSE e.answer[n2 + 1]
  /\ h = 0 => n2 = n /\ h2 = 0
  /\ r2 = Less(r)
  /\ g \in Int /\ g2 \in Int
  /\ h = 0 => g2 <= g + 1
  /\ h = 1 => g2 <= 1

Turning(e, n, h, r, rs, g, n2, h2, r2, g2) ==
  e \in Exchanges /\ Tape(e, n, h, r, rs) /\ Turns(e, n, h, r, g, n2, h2, r2, g2)

\* The target has not begun the i-th low, and a gap before it lasts c cycles
\* more; the line may be rising before the first.
Before(e, n, h, r, rs, i, c) ==
  /\ i \in 1 .. e.bits /\ n = 2 * i - 2
  /\ n < Len(e.answer) => h >= c
  /\ r > 0 => /\ i = 1 /\ EndsIn(e) /\ r <= rs
              /\ e.answer # << >> => h >= r + 8

\* The low of b cycles that the machine measures began t cycles ago: the i-th
\* of the answer, or, before it, the host's own while the line rises.
Theirs(e, n, h, r, g, i, b, t) ==
  /\ r = 0 /\ 2 * i <= Len(e.answer) /\ b = e.answer[2 * i]
  /\ \/ n = 2 * i - 1 /\ t + h = b
     \/ n = 2 * i /\ n < Len(e.answer) /\ t + h = b + e.answer[n + 1]
     \/ n = 2 * i /\ n = Len(e.answer) /\ t >= b /\ g <= t - b + 1
Ours(e, n, h, r, rs, i, b, t) ==
  /\ i = 1 /\ EndsIn(e) /\ b <= rs /\ b > 0 /\ n = 0
  /\ r = IF t < b THEN b - t ELSE 0
  /\ e.answer # << >> => h + t >= b + 8
Pulse(e, n, h, r, rs, g, i, b, t) ==
  /\ i \in 1 .. e.bits /\ b \in Nat /\ t \in Nat
  /\ Theirs(e, n, h, r, g, i, b, t) \/ Ours(e, n, h, r, rs, i, b, t)

Begun(e, n, h, r, rs, g, i) == \E b \in Nat : Pulse(e, n, h, r, rs, g, i, b, 0)
Poised(e, n, h, r, rs, g, i) ==
  Before(e, n, h, r, rs, i, 1) \/ Begun(e, n, h, r, rs, g, i)

\* The line is low.
Down(n, r) == n % 2 = 1 \/ r > 0

LEMMA EvenOdd ==
  ASSUME NEW i \in Nat \ {0}
  PROVE  /\ (2 * i - 1) % 2 = 1 /\ (2 * i) % 2 = 0 /\ (2 * i - 2) % 2 = 0
         /\ (2 * i + 1) % 2 = 1
OBVIOUS

\* Before a low, the gap runs on; then the low begins.
LEMMA BeforeTurns ==
  ASSUME NEW e, NEW n, NEW h, NEW r, NEW rs, NEW g, NEW n2, NEW h2, NEW r2, NEW g2,
         NEW i, NEW c,
         Turning(e, n, h, r, rs, g, n2, h2, r2, g2),
         c \in Nat \ {0, 1}, Before(e, n, h, r, rs, i, c)
  PROVE  Before(e, n2, h2, r2, rs, i, c - 1)
<1>1. /\ e \in Exchanges /\ n \in 0 .. Len(e.answer) /\ h \in Nat /\ r \in Nat /\ rs \in Nat
      /\ h = 0 <=> n = Len(e.answer)
  BY NumbersAre DEF Turning, Tape
<1> DEFINE l == Len(e.answer)
<1>2. l \in Nat /\ (e.answer # << >> <=> l > 0)
  BY <1>1, AnswerIs
<1>3. /\ h > 1 => n2 = n /\ h2 = h - 1
      /\ h = 0 => n2 = n /\ h2 = 0
      /\ r2 = Less(r)
  BY DEF Turning, Turns
<1>4. r2 \in Nat /\ (r > 0 => r2 = r - 1) /\ (r = 0 => r2 = 0)
  BY <1>1, <1>3, LessIs
<1>5. /\ i \in 1 .. e.bits /\ n = 2 * i - 2 /\ (n < l => h >= c)
      /\ r > 0 => i = 1 /\ EndsIn(e) /\ r <= rs /\ (l > 0 => h >= r + 8)
  BY <1>2 DEF Before
<1> HIDE DEF l
<1>6. n2 = n /\ (n < l => h2 = h - 1)
  BY <1>1, <1>2, <1>3, <1>5 DEF l
<1>7. n2 < l => h2 >= c - 1
  BY <1>1, <1>5, <1>6
<1>8. r2 > 0 => i = 1 /\ EndsIn(e) /\ r2 <= rs /\ (l > 0 => h2 >= r2 + 8)
  <2> SUFFICES ASSUME r2 > 0 PROVE i = 1 /\ EndsIn(e) /\ r2 <= rs /\ (l > 0 => h2 >= r2 + 8)
    OBVIOUS
  <2>1. r > 0 /\ r2 = r - 1
    BY <1>1, <1>4
  <2>2. i = 1 /\ EndsIn(e) /\ r2 <= rs /\ (l > 0 => h >= r + 8)
    BY <1>1, <1>5, <2>1
  <2>3. l > 0 => n < l
    BY <1>5, <2>2
  <2> QED BY <1>1, <1>6, <2>1, <2>2, <2>3
<1> QED BY <1>2, <1>5, <1>6, <1>7, <1>8 DEF Before, l

LEMMA BeforeBegins ==
  ASSUME NEW e, NEW n, NEW h, NEW r, NEW rs, NEW g, NEW n2, NEW h2, NEW r2, NEW g2, NEW i,
         Turning(e, n, h, r, rs, g, n2, h2, r2, g2), Before(e, n, h, r, rs, i, 1)
  PROVE  Poised(e, n2, h2, r2, rs, g2, i)
<1> DEFINE l == Len(e.answer)
<1>1. /\ e \in Exchanges /\ n \in 0 .. l /\ h \in Nat /\ r \in Nat /\ rs \in Nat
      /\ h = 0 <=> n = l
      /\ h > 1 => n2 = n /\ h2 = h - 1
      /\ h = 1 => n2 = n + 1 /\ h2 = IF n2 = l THEN 0 ELSE e.answer[n2 + 1]
      /\ h = 0 => n2 = n /\ h2 = 0
      /\ r2 = Less(r)
  BY NumbersAre DEF Turning, Tape, Turns
<1>2. /\ l \in Nat /\ (e.answer # << >> <=> l > 0) /\ l % 2 = 0 /\ i \in Nat \ {0}
      /\ \A j \in 1 .. l : e.answer[j] \in Nat /\ e.answer[j] > 0
  <2>1. /\ l \in Nat /\ l % 2 = 0 /\ e.answer \in Seq(Nat) /\ e.bits \in Nat
        /\ \A j \in 1 .. l : e.answer[j] \in Nat /\ e.answer[j] > 0
    BY <1>1, AnswerIs
  <2>2. i \in Nat \ {0}
    BY <2>1 DEF Before
  <2>3. e.answer # << >> <=> l > 0
    BY <2>1
  <2> QED BY <2>1, <2>2, <2>3, Zenon
<1>3. r2 \in Nat /\ (r > 0 => r2 = r - 1) /\ (r = 0 => r2 = 0)
  BY <1>1, LessIs
<1>4. /\ i \in 1 .. e.bits /\ n = 2 * i - 2 /\ (n < l => h >= 1)
      /\ r > 0 => i = 1 /\ EndsIn(e) /\ r <= rs /\ (l > 0 => h >= r + 8)
  BY <1>2 DEF Before
<1> HIDE DEF l
<1>5. r > 0 => (n < l <=> l > 0)
  BY <1>1, <1>2, <1>4
<1>6. CASE h = 1
  <2> DEFINE k == 2 * i
             b == e.answer[k]
  <2>1. k \in Nat /\ n = k - 2 /\ k % 2 = 0
    BY <1>2, <1>4, EvenOdd
  <2> HIDE DEF k, b
  <2>2. n < l /\ k <= l
    BY <1>1, <1>2, <1>6, <2>1
  <2>3. n2 = k - 1 /\ n2 # l /\ n2 + 1 = k
    BY <1>1, <1>2, <1>6, <2>1, <2>2
  <2>4. h2 = b
    BY <1>1, <1>6, <2>3, Zenon DEF b
  <2>5. b \in Nat /\ b > 0
    BY <1>2, <2>1, <2>2, <2>3, <1>1 DEF b
  <2>6. r2 = 0
    BY <1>1, <1>3, <1>4, <1>6, <2>2
  <2>7. 0 + h2 = b
    BY <2>4, <2>5
  <2>8. Theirs(e, n2, h2, r2, g2, i, b, 0)
    BY <2>2, <2>3, <2>6, <2>7, Zenon DEF Theirs, l, k, b
  <2>9. Pulse(e, n2, h2, r2, rs, g2, i, b, 0)
    BY <1>4, <2>5, <2>8 DEF Pulse
  <2> QED BY <2>5, <2>9, Zenon DEF Poised, Begun
<1>7. CASE h # 1
  <2>1. n2 = n /\ (n < l => h2 = h - 1)
    BY <1>1, <1>2, <1>7
  <2>2. n2 < l => h2 >= 1
    BY <1>1, <1>4, <1>7, <2>1
  <2>3. r2 > 0 => i = 1 /\ EndsIn(e) /\ r2 <= rs /\ (l > 0 => h2 >= r2 + 8)
    <3> SUFFICES ASSUME r2 > 0 PROVE i = 1 /\ EndsIn(e) /\ r2 <= rs /\ (l > 0 => h2 >= r2 + 8)
      OBVIOUS
    <3>1. r > 0 /\ r2 = r - 1
      BY <1>1, <1>3
    <3>2. i = 1 /\ EndsIn(e) /\ r2 <= rs /\ (l > 0 => h >= r + 8)
      BY <1>1, <1>4, <3>1
    <3> QED BY <1>1, <1>5, <2>1, <3>1, <3>2
  <2>4. Before(e, n2, h2, r2, rs, i, 1)
    BY <1>2, <1>4, <2>1, <2>2, <2>3 DEF Before, l
  <2> QED BY <2>4, Zenon DEF Poised
<1> QED BY <1>6, <1>7

\* While it measures a low, the line is low for just as long.
LEMMA PulseDown ==
  ASSUME NEW e, NEW n, NEW h, NEW r, NEW rs, NEW g, NEW i, NEW b, NEW t,
         e \in Exchanges, Tape(e, n, h, r, rs),
         Pulse(e, n, h, r, rs, g, i, b, t), t <= b + 6
  PROVE  /\ b \in Nat \ {0} /\ t \in Nat
         /\ Down(n, r) <=> t < b
<1> DEFINE l == Len(e.answer)
           k == 2 * i
<1>1. /\ n \in 0 .. l /\ h \in Nat /\ r \in Nat /\ (h = 0 <=> n = l)
     /\ (n < l => h <= e.answer[n + 1])
      /\ i \in Nat \ {0} /\ b \in Nat /\ t \in Nat
  BY AnswerIs DEF Tape, Pulse
<1>2. /\ l \in Nat
      /\ \A j \in 1 .. l : e.answer[j] \in Nat /\ e.answer[j] > 0
  BY AnswerIs
<1>3. k \in Nat \ {0} /\ k % 2 = 0 /\ (k - 1) % 2 = 1
  BY <1>1, EvenOdd
<1>4. CASE Theirs(e, n, h, r, g, i, b, t)
  <2>1. /\ r = 0 /\ k <= l /\ b = e.answer[k]
        /\ \/ n = k - 1 /\ t + h = b
           \/ n = k /\ n < l /\ t + h = b + e.answer[n + 1]
           \/ n = k /\ n = l /\ t >= b /\ g <= t - b + 1
    BY <1>4 DEF Theirs
  <2> HIDE DEF k, l
  <2>2. b > 0
    BY <1>2, <1>3, <2>1
  <2>3. CASE n = k - 1 /\ t + h = b
    <3>1. h > 0 /\ Down(n, r)
      BY <1>1, <1>2, <1>3, <2>1, <2>3 DEF Down
    <3> QED BY <1>1, <2>2, <2>3, <3>1
  <2>4. CASE n = k /\ n < l /\ t + h = b + e.answer[n + 1]
    <3> DEFINE c == e.answer[n + 1]
    <3>1. c \in Nat /\ h <= c
      BY <1>1, <1>2, <2>4
    <3> HIDE DEF c
    <3>2. t >= b
      BY <1>1, <2>4, <3>1 DEF c
    <3>3. ~Down(n, r)
      BY <1>3, <2>1, <2>4 DEF Down
    <3> QED BY <1>1, <2>2, <3>2, <3>3
  <2>5. CASE n = k /\ t >= b
    BY <1>1, <1>3, <2>1, <2>2, <2>5 DEF Down
  <2> QED BY <2>1, <2>3, <2>4, <2>5
<1>5. CASE Ours(e, n, h, r, rs, i, b, t)
  BY <1>5, <1>1 DEF Ours, Down
<1> QED BY <1>4, <1>5 DEF Pulse

LEMMA PulseTurns ==
  ASSUME NEW e, NEW n, NEW h, NEW r, NEW rs, NEW g, NEW n2, NEW h2, NEW r2, NEW g2,
         NEW i, NEW b, NEW t,
         Turning(e, n, h, r, rs, g, n2, h2, r2, g2),
         Pulse(e, n, h, r, rs, g, i, b, t), t <= b + 6
  PROVE  Pulse(e, n2, h2, r2, rs, g2, i, b, t + 1)
<1> DEFINE l == Len(e.answer)
           k == 2 * i
<1>1. /\ e \in Exchanges /\ n \in 0 .. l /\ h \in Nat /\ r \in Nat /\ rs \in Nat
      /\ h = 0 <=> n = l
      /\ n < l => h <= e.answer[n + 1]
      /\ h > 1 => n2 = n /\ h2 = h - 1
      /\ h = 1 => n2 = n + 1 /\ h2 = IF n2 = l THEN 0 ELSE e.answer[n2 + 1]
      /\ h = 0 => n2 = n /\ h2 = 0
      /\ r2 = Less(r) /\ g \in Int /\ g2 \in Int
      /\ h = 0 => g2 <= g + 1
      /\ h = 1 => g2 <= 1
  BY NumbersAre DEF Turning, Tape, Turns
<1>2. /\ l \in Nat /\ (e.answer # << >> <=> l > 0)
      /\ \A j \in 1 .. l : e.answer[j] \in Nat /\ e.answer[j] > 0 /\ (j % 2 = 1 => e.answer[j] >= 8)
      /\ i \in 1 .. e.bits /\ i \in Nat \ {0} /\ b \in Nat /\ t \in Nat /\ t + 1 \in Nat
  <2>1. /\ l \in Nat /\ e.answer \in Seq(Nat) /\ e.bits \in Nat
        /\ \A j \in 1 .. l :
             e.answer[j] \in Nat /\ e.answer[j] > 0 /\ (j % 2 = 1 => e.answer[j] >= 8)
    BY <1>1, AnswerIs
  <2>2. i \in 1 .. e.bits /\ b \in Nat /\ t \in Nat
    BY DEF Pulse
  <2> QED BY <2>1, <2>2
<1>3. k \in Nat \ {0} /\ (k + 1) % 2 = 1
  BY <1>2, EvenOdd
<1>4. r2 \in Nat /\ (r > 0 => r2 = r - 1) /\ (r = 0 => r2 = 0)
  BY <1>1, LessIs
<1>5. CASE Theirs(e, n, h, r, g, i, b, t)
  <2>1. /\ r = 0 /\ k <= l /\ b = e.answer[k]
        /\ \/ n = k - 1 /\ t + h = b
           \/ n = k /\ n < l /\ t + h = b + e.answer[n + 1]
           \/ n = k /\ n = l /\ t >= b /\ g <= t - b + 1
    BY <1>5 DEF Theirs
  <2>2. r2 = 0
    BY <1>4, <2>1
  <2> HIDE DEF k, l
  <2>3. \/ n2 = k - 1 /\ (t + 1) + h2 = b
        \/ n2 = k /\ n2 < l /\ (t + 1) + h2 = b + e.answer[n2 + 1]
        \/ n2 = k /\ n2 = l /\ t + 1 >= b /\ g2 <= (t + 1) - b + 1
    <3>1. CASE n = k - 1 /\ t + h = b
      <4>1. h > 0
        BY <1>1, <1>2, <1>3, <2>1, <3>1
      <4>2. CASE h > 1
        BY <1>1, <1>2, <3>1, <4>2
      <4>3. CASE h = 1
        <5>1. n2 = k /\ t + 1 = b
          BY <1>1, <1>3, <3>1, <4>3
        <5>2. CASE k = l
          <6>1. g2 <= 1
            BY <1>1, <4>3
          <6> QED BY <1>1, <1>2, <5>1, <5>2, <6>1
        <5>3. CASE k # l
          <6> DEFINE c == e.answer[k + 1]
          <6>1. h2 = c
            BY <1>1, <4>3, <5>1, <5>3, Zenon DEF c
          <6>2. c \in Nat /\ k < l
            BY <1>2, <1>3, <2>1, <5>3 DEF c
          <6> HIDE DEF c
          <6>3. (t + 1) + h2 = b + c
            BY <1>2, <5>1, <6>1, <6>2
          <6> QED BY <5>1, <6>2, <6>3 DEF c
        <5> QED BY <5>2, <5>3
      <4> QED BY <1>1, <4>1, <4>2, <4>3
    <3>2. CASE n = k /\ n < l /\ t + h = b + e.answer[n + 1]
      <4> DEFINE c == e.answer[k + 1]
      <4>1. c \in Nat /\ c >= 8 /\ t + h = b + c
        BY <1>2, <1>3, <3>2 DEF c
      <4> HIDE DEF c
      <4>2. h > 1
        BY <1>1, <1>2, <4>1
      <4>3. n2 = k /\ h2 = h - 1
        BY <1>1, <3>2, <4>2
      <4>4. (t + 1) + h2 = b + c
        BY <1>1, <1>2, <4>1, <4>3
      <4> QED BY <3>2, <4>3, <4>4 DEF c
    <3>3. CASE n = k /\ n = l /\ t >= b /\ g <= t - b + 1
      <4>1. n2 = k /\ g2 <= g + 1
        BY <1>1, <3>3
      <4> QED BY <1>1, <1>2, <3>3, <4>1
    <3> QED BY <2>1, <3>1, <3>2, <3>3
  <2>4. Theirs(e, n2, h2, r2, g2, i, b, t + 1)
    BY <2>1, <2>2, <2>3, Zenon DEF Theirs, k, l
  <2> QED BY <1>2, <2>4 DEF Pulse
<1>6. CASE Ours(e, n, h, r, rs, i, b, t)
  <2>1. /\ i = 1 /\ EndsIn(e) /\ b <= rs /\ b > 0 /\ n = 0
        /\ r = IF t < b THEN b - t ELSE 0
        /\ l > 0 => h + t >= b + 8
    BY <1>2, <1>6 DEF Ours
  <2> HIDE DEF k, l
  <2>2. n2 = 0 /\ (l > 0 => h2 + (t + 1) >= b + 8)
    BY <1>1, <1>2, <2>1
  <2>3. r2 = IF t + 1 < b THEN b - (t + 1) ELSE 0
    BY <1>1, <1>2, <1>4, <2>1
  <2>4. Ours(e, n2, h2, r2, rs, i, b, t + 1)
    BY <1>2, <2>1, <2>2, <2>3 DEF Ours, l
  <2> QED BY <1>2, <2>4 DEF Pulse
<1> QED BY <1>5, <1>6 DEF Pulse

\* The machine waits for the line to fall.
LEMMA PoisedTurns ==
  ASSUME NEW e, NEW n, NEW h, NEW r, NEW rs, NEW g, NEW n2, NEW h2, NEW r2, NEW g2, NEW i,
         Turning(e, n, h, r, rs, g, n2, h2, r2, g2), Poised(e, n, h, r, rs, g, i)
  PROVE  /\ ~Down(n, r) => Poised(e, n2, h2, r2, rs, g2, i)
         /\ Down(n, r) => \E b \in Nat : Pulse(e, n2, h2, r2, rs, g2, i, b, 1)
<1>1. /\ e \in Exchanges /\ Tape(e, n, h, r, rs) /\ n \in Nat /\ h \in Nat /\ r \in Nat
  BY AnswerIs DEF Turning, Tape
<1>2. ASSUME NEW b \in Nat, Pulse(e, n, h, r, rs, g, i, b, 0)
      PROVE  Down(n, r) /\ \E c \in Nat : Pulse(e, n2, h2, r2, rs, g2, i, c, 1)
  <2>1. 0 <= b + 6 /\ 0 + 1 = 1
    OBVIOUS
  <2>2. b > 0 /\ (Down(n, r) <=> 0 < b)
    <3>1. b \in Nat \ {0} /\ (Down(n, r) <=> 0 < b)
      BY <1>1, <1>2, <2>1, PulseDown
    <3> QED BY <3>1
  <2>3. Pulse(e, n2, h2, r2, rs, g2, i, b, 0 + 1)
    BY <1>2, <2>1, PulseTurns
  <2> QED BY <2>1, <2>2, <2>3
<1>3. CASE Before(e, n, h, r, rs, i, 1)
  <2>1. CASE r = 0
    <3>1. i \in Nat \ {0} /\ n = 2 * i - 2
      BY <1>1, <1>3, AnswerIs DEF Before
    <3>2. n % 2 = 0
      BY <3>1, EvenOdd
    <3>3. ~Down(n, r)
      BY <2>1, <3>2 DEF Down
    <3>4. Poised(e, n2, h2, r2, rs, g2, i)
      BY <1>3, BeforeBegins
    <3> QED BY <3>3, <3>4
  <2>2. CASE r # 0
    BY <1>1, <1>3, <2>2, <1>2 DEF Before, Ours, Pulse
  <2> QED BY <2>1, <2>2
<1>4. CASE Begun(e, n, h, r, rs, g, i)
  BY <1>2, <1>4 DEF Begun
<1> QED BY <1>3, <1>4 DEF Poised

\* After a low of the target it is in time for the next one.
LEMMA NextLow ==
  ASSUME NEW e, NEW n, NEW h, NEW r, NEW rs, NEW g, NEW i, NEW b, NEW t,
         e \in Exchanges, Tape(e, n, h, r, rs), ~EndsIn(e), i + 1 \in 1 .. e.bits,
         Pulse(e, n, h, r, rs, g, i, b, t), t >= b
  PROVE  Before(e, n, h, r, rs, i + 1, 1)
<1> DEFINE l == Len(e.answer)
           k == 2 * i
<1>1. /\ n \in 0 .. l /\ h \in Nat /\ (h = 0 <=> n = l)
      /\ i \in Nat \ {0} /\ b \in Nat /\ t \in Nat /\ l \in Nat /\ Theirs(e, n, h, r, g, i, b, t)
  BY AnswerIs DEF Tape, Pulse, Ours
<1>2. k \in Nat /\ k = 2 * (i + 1) - 2
  BY <1>1
<1>3. r = 0 /\ k <= l
      /\ (\/ n = k - 1 /\ t + h = b
          \/ n = k)
  BY <1>1 DEF Theirs
<1> HIDE DEF k, l
<1>4. n = k
  BY <1>1, <1>2, <1>3
<1>5. n < l => h >= 1
  BY <1>1
<1> QED BY <1>2, <1>3, <1>4, <1>5 DEF Before, l

LEMMA TapeTurns ==
  ASSUME NEW e, NEW n, NEW h, NEW r, NEW rs, NEW g, NEW n2, NEW h2, NEW r2, NEW g2,
         Turning(e, n, h, r, rs, g, n2, h2, r2, g2)
  PROVE  e \in Exchanges /\ Tape(e, n, h, r, rs) /\ Tape(e, n2, h2, r2, rs)
<1> DEFINE l == Len(e.answer)
<1>1. /\ e \in Exchanges /\ n \in 0 .. l /\ h \in Nat /\ r \in Nat /\ rs \in Rises
      /\ h = 0 <=> n = l
      /\ n < l => h <= e.answer[n + 1]
      /\ h > 1 => n2 = n /\ h2 = h - 1
      /\ h = 1 => n2 = n + 1 /\ h2 = IF n2 = l THEN 0 ELSE e.answer[n2 + 1]
      /\ h = 0 => n2 = n /\ h2 = 0
      /\ r2 = Less(r)
  BY DEF Turning, Tape, Turns
<1>2. l \in Nat /\ \A j \in 1 .. l : e.answer[j] \in Nat /\ e.answer[j] > 0
  BY <1>1, AnswerIs
<1>3. r2 \in Nat
  BY <1>1, LessIs
<1> HIDE DEF l
<1>4. n2 \in 0 .. l /\ h2 \in Nat /\ (h2 = 0 <=> n2 = l) /\ (n2 < l => h2 <= e.answer[n2 + 1])
  <2>1. CASE h > 1
    <3> DEFINE c == e.answer[n + 1]
    <3>1. n < l
      BY <1>1, <1>2, <2>1
    <3>2. c \in Nat /\ h <= c
      BY <1>1, <1>2, <3>1
    <3>3. h2 <= c /\ n2 = n /\ h2 = h - 1
      <4> HIDE DEF c
      <4> QED BY <1>1, <2>1, <3>2
    <3> QED BY <1>1, <1>2, <2>1, <3>1, <3>3
  <2>2. CASE h = 1
    <3> DEFINE c == e.answer[n2 + 1]
    <3>1. n < l /\ n2 = n + 1
      BY <1>1, <1>2, <2>2
    <3>2. CASE n2 = l
      BY <1>1, <1>2, <2>2, <3>1, <3>2
    <3>3. CASE n2 # l
      <4>1. n2 < l /\ n2 \in 0 .. l /\ n2 + 1 \in 1 .. l
        BY <1>1, <1>2, <3>1, <3>3
      <4>2. c \in Nat /\ c > 0
        BY <1>2, <4>1
      <4>3. h2 = c
        BY <1>1, <2>2, <3>3, Zenon
      <4> HIDE DEF c
      <4>4. h2 \in Nat /\ h2 # 0 /\ h2 <= c
        BY <4>2, <4>3
      <4> QED BY <3>3, <4>1, <4>4 DEF c
    <3> QED BY <3>2, <3>3
  <2>3. CASE h = 0
    BY <1>1, <2>3
  <2> QED BY <1>1, <2>1, <2>2, <2>3
<1> QED BY <1>1, <1>3, <1>4 DEF Tape, l

\* In the loop of either program x counts the cycles of a low in pairs.
Loop(e, x, n, h, r, rs, g, i, c) ==
  \E b \in Nat : \E m \in Nat :
    /\ x \in Nat /\ x + m = e.limit /\ 2 * m + 2 * c - 2 <= b
    /\ Pulse(e, n, h, r, rs, g, i, b, 2 * m + c)

LEMMA LoopLooks ==
  ASSUME NEW e, NEW n, NEW h, NEW r, NEW rs, NEW g, NEW n2, NEW h2, NEW r2, NEW g2,
         NEW i, NEW x,
         Turning(e, n, h, r, rs, g, n2, h2, r2, g2), Loop(e, x, n, h, r, rs, g, i, 1)
  PROVE  /\ Down(n, r) => Loop(e, x, n2, h2, r2, rs, g2, i, 2)
         /\ ~Down(n, r) =>
              \E b \in Nat : \E t \in Nat :
                /\ x + b \div 2 = e.limit /\ b <= t /\ t <= b + 2
                /\ Pulse(e, n2, h2, r2, rs, g2, i, b, t)
<1>1. e \in Exchanges /\ Tape(e, n, h, r, rs)
  BY DEF Turning
<1>2. PICK b \in Nat : \E m \in Nat :
        /\ x \in Nat /\ x + m = e.limit /\ 2 * m + 2 * 1 - 2 <= b
        /\ Pulse(e, n, h, r, rs, g, i, b, 2 * m + 1)
  BY DEF Loop
<1>3. PICK m \in Nat : /\ x \in Nat /\ x + m = e.limit /\ 2 * m + 2 * 1 - 2 <= b
                       /\ Pulse(e, n, h, r, rs, g, i, b, 2 * m + 1)
  BY <1>2
<1>4. PICK t : t = 2 * m + 1
  OBVIOUS
<1>5. Pulse(e, n, h, r, rs, g, i, b, t) /\ t <= b + 6 /\ t \in Nat /\ 2 * m <= b
  BY <1>3, <1>4
<1>6. Down(n, r) <=> t < b
  BY <1>1, <1>5, PulseDown
<1>7. Pulse(e, n2, h2, r2, rs, g2, i, b, t + 1)
  BY <1>5, PulseTurns
<1>8. ASSUME Down(n, r) PROVE Loop(e, x, n2, h2, r2, rs, g2, i, 2)
  <2>1. t + 1 = 2 * m + 2 /\ 2 * m + 2 * 2 - 2 <= b
    BY <1>4, <1>5, <1>6, <1>8
  <2> QED BY <1>3, <1>7, <2>1, Zenon DEF Loop
<1>9. ASSUME ~Down(n, r)
      PROVE  \E c \in Nat : \E u \in Nat :
                /\ x + c \div 2 = e.limit /\ c <= u /\ u <= c + 2
                /\ Pulse(e, n2, h2, r2, rs, g2, i, c, u)
  <2>1. b \div 2 = m
    BY <1>4, <1>5, <1>6, <1>9
  <2>2. b <= t + 1 /\ t + 1 <= b + 2 /\ t + 1 \in Nat
    BY <1>4, <1>5, <1>6, <1>9
  <2> QED BY <1>3, <1>7, <2>1, <2>2, Zenon
<1> QED BY <1>8, <1>9

LEMMA DecrementedBy ==
  ASSUME NEW v \in Nat, v <= REG
  PROVE  /\ v # 0 => Decremented(v) = v - 1
         /\ v = 0 => Decremented(v) = REG - 1
<1>1. REG \in Nat \ {0}
  BY NumbersAre
<1> DEFINE R == REG
<1>2. R \in Nat \ {0} /\ v <= R
  BY <1>1
<1> HIDE DEF R
<1>3. v # 0 => (v + R - 1) % R = v - 1
  <2> SUFFICES ASSUME v # 0 PROVE (v + R - 1) % R = v - 1
    OBVIOUS
  <2>1. v + R - 1 = R * 1 + (v - 1) /\ v - 1 \in Nat /\ v - 1 < R
    BY <1>2
  <2>2. (R * 1 + (v - 1)) % R = v - 1
    BY <1>2, <2>1, ModIs
  <2> QED BY <2>1, <2>2
<1>4. v = 0 => (v + R - 1) % R = R - 1
  <2> SUFFICES ASSUME v = 0 PROVE (v + R - 1) % R = R - 1
    OBVIOUS
  <2>1. v + R - 1 = R * 0 + (R - 1) /\ R - 1 \in Nat /\ R - 1 < R
    BY <1>2
  <2>2. (R * 0 + (R - 1)) % R = R - 1
    BY <1>2, <2>1, ModIs
  <2> QED BY <2>1, <2>2
<1> QED BY <1>3, <1>4 DEF Decremented, R

LEMMA LoopCounts ==
  ASSUME NEW e, NEW n, NEW h, NEW r, NEW rs, NEW g, NEW n2, NEW h2, NEW r2, NEW g2,
         NEW i, NEW x,
         Turning(e, n, h, r, rs, g, n2, h2, r2, g2), Loop(e, x, n, h, r, rs, g, i, 2)
  PROVE  /\ x # 0 => Loop(e, Decremented(x), n2, h2, r2, rs, g2, i, 1)
         /\ x = 0 => /\ Decremented(x) = REG - 1
                     /\ \E b \in Nat : \E t \in Nat :
                          /\ b \div 2 > e.limit /\ t <= b + 1
                          /\ Pulse(e, n2, h2, r2, rs, g2, i, b, t)
<1>1. e \in Exchanges /\ Tape(e, n, h, r, rs) /\ e.limit \in Nat /\ e.limit < REG
  BY AnswerIs DEF Turning
<1>2. PICK b \in Nat : \E m \in Nat :
        /\ x \in Nat /\ x + m = e.limit /\ 2 * m + 2 * 2 - 2 <= b
        /\ Pulse(e, n, h, r, rs, g, i, b, 2 * m + 2)
  BY DEF Loop
<1>3. PICK m \in Nat : /\ x \in Nat /\ x + m = e.limit /\ 2 * m + 2 * 2 - 2 <= b
                       /\ Pulse(e, n, h, r, rs, g, i, b, 2 * m + 2)
  BY <1>2
<1>4. PICK t : t = 2 * m + 2
  OBVIOUS
<1>5. Pulse(e, n, h, r, rs, g, i, b, t) /\ t <= b + 6 /\ t \in Nat /\ t <= b
  BY <1>3, <1>4
<1>6. Pulse(e, n2, h2, r2, rs, g2, i, b, t + 1)
  BY <1>5, PulseTurns
<1>7. x <= REG /\ REG \in Nat
  BY <1>1, <1>3, NumbersAre
<1>8. ASSUME x # 0 PROVE Loop(e, Decremented(x), n2, h2, r2, rs, g2, i, 1)
  <2>1. Decremented(x) = x - 1
    BY <1>3, <1>7, <1>8, DecrementedBy
  <2>2. PICK k : k = m + 1
    OBVIOUS
  <2>3. /\ k \in Nat /\ x - 1 \in Nat /\ (x - 1) + k = e.limit
        /\ t + 1 = 2 * k + 1 /\ 2 * k + 2 * 1 - 2 <= b
    BY <1>1, <1>3, <1>4, <1>5, <1>8, <2>2
  <2> QED BY <1>6, <2>1, <2>3, Zenon DEF Loop
<1>9. ASSUME x = 0
      PROVE  /\ Decremented(x) = REG - 1
             /\ \E c \in Nat : \E u \in Nat :
                  /\ c \div 2 > e.limit /\ u <= c + 1
                  /\ Pulse(e, n2, h2, r2, rs, g2, i, c, u)
  <2>1. Decremented(x) = REG - 1
    BY <1>3, <1>7, <1>9, DecrementedBy
  <2>2. m = e.limit
    BY <1>1, <1>3, <1>9
  <2>3. b \div 2 > m /\ t + 1 <= b + 1 /\ t + 1 \in Nat
    BY <1>3, <1>4, <1>5
  <2> QED BY <1>6, <2>1, <2>2, <2>3, Zenon
<1> QED BY <1>8, <1>9

\* What a low of b cycles leaves in x, when it began t <= b + c cycles ago.
Counted(e, w, b) ==
  /\ b \div 2 <= e.limit => w + b \div 2 = e.limit
  /\ b \div 2 > e.limit => w = REG - 1
Tallied(e, w, n, h, r, rs, g, c) ==
  \E b \in Nat : \E t \in Nat :
    w \in Nat /\ Counted(e, w, b) /\ t <= b + c /\ Pulse(e, n, h, r, rs, g, 1, b, t)

LEMMA TalliedTurns ==
  ASSUME NEW e, NEW n, NEW h, NEW r, NEW rs, NEW g, NEW n2, NEW h2, NEW r2, NEW g2,
         NEW w,
         Turning(e, n, h, r, rs, g, n2, h2, r2, g2), Tallied(e, w, n, h, r, rs, g, 2)
  PROVE  Tallied(e, w, n2, h2, r2, rs, g2, 3)
<1>1. PICK b \in Nat : \E t \in Nat :
        w \in Nat /\ Counted(e, w, b) /\ t <= b + 2 /\ Pulse(e, n, h, r, rs, g, 1, b, t)
  BY DEF Tallied
<1>2. PICK t \in Nat :
        w \in Nat /\ Counted(e, w, b) /\ t <= b + 2 /\ Pulse(e, n, h, r, rs, g, 1, b, t)
  BY <1>1
<1>3. t <= b + 6 /\ t + 1 <= b + 3 /\ t + 1 \in Nat
  BY <1>2
<1>4. Pulse(e, n2, h2, r2, rs, g2, 1, b, t + 1)
  BY <1>2, <1>3, PulseTurns
<1> QED BY <1>2, <1>3, <1>4, Zenon DEF Tallied

\* Where the width program is, once the interrupt has come: at address q.
Width(e, q, x, osr, isr, n, h, r, rs, g) ==
  /\ q \in 3 .. 9
  /\ q \in {3, 4} => osr = e.limit
  /\ q = 3 => Before(e, n, h, r, rs, 1, 8)
  /\ q = 4 => Before(e, n, h, r, rs, 1, 7)
  /\ q = 5 => x = e.limit /\ Poised(e, n, h, r, rs, g, 1)
  /\ q = 6 => Loop(e, x, n, h, r, rs, g, 1, 1)
  /\ q = 7 => Loop(e, x, n, h, r, rs, g, 1, 2)
  /\ q = 8 => Tallied(e, x, n, h, r, rs, g, 2)
  /\ q = 9 => Tallied(e, isr, n, h, r, rs, g, 3)

WidthMoves(low, q, x, osr, isr, q2, x2, osr2, isr2) ==
  /\ q = 3 => q2 = 4 /\ osr2 = osr
  /\ q = 4 => q2 = 5 /\ x2 = osr
  /\ q = 5 => x2 = x /\ (low => q2 = 6) /\ (~low => q2 = 5)
  /\ q = 6 => x2 = x /\ (low => q2 = 7) /\ (~low => q2 = 8)
  /\ q = 7 => x2 = Decremented(x) /\ (x # 0 => q2 = 6) /\ (x = 0 => q2 = 8)
  /\ q = 8 => q2 = 9 /\ isr2 = x

LEMMA WidthTurns ==
  ASSUME NEW e, NEW n, NEW h, NEW r, NEW rs, NEW g, NEW n2, NEW h2, NEW r2, NEW g2,
         NEW q, NEW x, NEW osr, NEW isr, NEW q2, NEW x2, NEW osr2, NEW isr2,
         Turning(e, n, h, r, rs, g, n2, h2, r2, g2),
         Width(e, q, x, osr, isr, n, h, r, rs, g), q # 9,
         WidthMoves(Down(n, r), q, x, osr, isr, q2, x2, osr2, isr2)
  PROVE  Width(e, q2, x2, osr2, isr2, n2, h2, r2, rs, g2)
<1>1. q \in 3 .. 8
  BY DEF Width
<1>2. e.limit \in Nat /\ e.limit < REG /\ REG \in Nat
  BY AnswerIs, NumbersAre DEF Turning
<1>3. CASE q = 3
  BY <1>3, BeforeTurns DEF Width, WidthMoves
<1>4. CASE q = 4
  <2>1. osr = e.limit /\ Before(e, n, h, r, rs, 1, 7) /\ q2 = 5 /\ x2 = osr
    BY <1>4 DEF Width, WidthMoves
  <2>2. 7 \in Nat \ {0, 1} /\ 7 - 1 = 6
    OBVIOUS
  <2>3. Before(e, n2, h2, r2, rs, 1, 7 - 1)
    BY <2>1, <2>2, BeforeTurns
  <2>4. Tape(e, n2, h2, r2, rs)
    BY TapeTurns
  <2>5. h2 \in Nat
    BY <2>4 DEF Tape
  <2>6. Before(e, n2, h2, r2, rs, 1, 1)
    BY <2>2, <2>3, <2>5 DEF Before
  <2> QED BY <2>1, <2>6 DEF Width, Poised
<1>5. CASE q = 5
  <2>1. /\ x = e.limit /\ Poised(e, n, h, r, rs, g, 1) /\ x2 = x
        /\ (Down(n, r) => q2 = 6) /\ (~Down(n, r) => q2 = 5)
    BY <1>5 DEF Width, WidthMoves
  <2>2. /\ ~Down(n, r) => Poised(e, n2, h2, r2, rs, g2, 1)
        /\ Down(n, r) => \E b \in Nat : Pulse(e, n2, h2, r2, rs, g2, 1, b, 1)
    BY <2>1, PoisedTurns
  <2>3. CASE Down(n, r)
    <3>1. PICK b \in Nat : Pulse(e, n2, h2, r2, rs, g2, 1, b, 1)
      BY <2>2, <2>3
    <3>2. 0 \in Nat /\ e.limit + 0 = e.limit /\ 2 * 0 + 2 * 1 - 2 <= b /\ 2 * 0 + 1 = 1
      BY <1>2
    <3>3. Pulse(e, n2, h2, r2, rs, g2, 1, b, 2 * 0 + 1)
      BY <3>1, <3>2, Zenon
    <3>4. Loop(e, e.limit, n2, h2, r2, rs, g2, 1, 1)
      BY <1>2, <3>2, <3>3, Zenon DEF Loop
    <3> QED BY <2>1, <2>3, <3>4 DEF Width
  <2>4. CASE ~Down(n, r)
    BY <2>1, <2>2, <2>4 DEF Width
  <2> QED BY <2>3, <2>4
<1>6. CASE q = 6
  <2>1. /\ Loop(e, x, n, h, r, rs, g, 1, 1) /\ x2 = x
        /\ (Down(n, r) => q2 = 7) /\ (~Down(n, r) => q2 = 8)
    BY <1>6 DEF Width, WidthMoves
  <2>2. /\ Down(n, r) => Loop(e, x, n2, h2, r2, rs, g2, 1, 2)
        /\ ~Down(n, r) =>
              \E b \in Nat : \E t \in Nat :
                /\ x + b \div 2 = e.limit /\ b <= t /\ t <= b + 2
                /\ Pulse(e, n2, h2, r2, rs, g2, 1, b, t)
    BY <2>1, LoopLooks
  <2>3. CASE Down(n, r)
    BY <2>1, <2>2, <2>3 DEF Width
  <2>4. CASE ~Down(n, r)
    <3>1. PICK b \in Nat : \E t \in Nat :
                /\ x + b \div 2 = e.limit /\ b <= t /\ t <= b + 2
                /\ Pulse(e, n2, h2, r2, rs, g2, 1, b, t)
      BY <2>2, <2>4
    <3>2. PICK t \in Nat :
                /\ x + b \div 2 = e.limit /\ b <= t /\ t <= b + 2
                /\ Pulse(e, n2, h2, r2, rs, g2, 1, b, t)
      BY <3>1
    <3>3. x \in Nat
      BY <2>1 DEF Loop
    <3>4. Counted(e, x, b)
      BY <1>2, <3>2, <3>3 DEF Counted
    <3>5. Tallied(e, x, n2, h2, r2, rs, g2, 2)
      BY <3>2, <3>3, <3>4, Zenon DEF Tallied
    <3> QED BY <2>1, <2>4, <3>5 DEF Width
  <2> QED BY <2>3, <2>4
<1>7. CASE q = 7
  <2>1. /\ Loop(e, x, n, h, r, rs, g, 1, 2) /\ x2 = Decremented(x)
        /\ (x # 0 => q2 = 6) /\ (x = 0 => q2 = 8)
    BY <1>7 DEF Width, WidthMoves
  <2>2. /\ x # 0 => Loop(e, Decremented(x), n2, h2, r2, rs, g2, 1, 1)
        /\ x = 0 => /\ Decremented(x) = REG - 1
                    /\ \E b \in Nat : \E t \in Nat :
                          /\ b \div 2 > e.limit /\ t <= b + 1
                          /\ Pulse(e, n2, h2, r2, rs, g2, 1, b, t)
    BY <2>1, LoopCounts
  <2>3. CASE x # 0
    BY <2>1, <2>2, <2>3 DEF Width
  <2>4. CASE x = 0
    <3>1. PICK b \in Nat : \E t \in Nat :
                          /\ b \div 2 > e.limit /\ t <= b + 1
                          /\ Pulse(e, n2, h2, r2, rs, g2, 1, b, t)
      BY <2>2, <2>4
    <3>2. PICK t \in Nat : /\ b \div 2 > e.limit /\ t <= b + 1
                           /\ Pulse(e, n2, h2, r2, rs, g2, 1, b, t)
      BY <3>1
    <3>3. x2 = REG - 1 /\ x2 \in Nat
      BY <1>2, <2>1, <2>2, <2>4
    <3>4. Counted(e, x2, b) /\ t <= b + 2
      BY <1>2, <3>2, <3>3 DEF Counted
    <3>5. Tallied(e, x2, n2, h2, r2, rs, g2, 2)
      BY <3>2, <3>3, <3>4, Zenon DEF Tallied
    <3> QED BY <2>1, <2>4, <3>5 DEF Width
  <2> QED BY <2>3, <2>4
<1>8. CASE q = 8
  BY <1>8, TalliedTurns DEF Width, WidthMoves
<1> QED BY <1>1, <1>3, <1>4, <1>5, <1>6, <1>7, <1>8

\* The powers up to Two(n).
LEMMA PowersAre ==
  ASSUME NEW n \in Nat
  PROVE  \E w \in [0 .. n -> Nat \ {0}] :
           w[0] = 1 /\ w[n] = Two(n) /\ \A j \in 1 .. n : w[j] = 2 * w[j - 1]
<1> DEFINE Step == [q \in (1 .. n) \X (Nat \ {0}) |-> 2 * q[2]]
           Is(g) == g = [i \in 0 .. n |-> IF i = 0 THEN 1 ELSE 2 * g[i - 1]]
           w == CHOOSE g : Is(g)
<1>1. \E g : Is(g)
  <2>1. Step \in [(1 .. n) \X (Nat \ {0}) -> Nat \ {0}]
    OBVIOUS
  <2> HIDE DEF Step
  <2>2. PICK g \in [0 .. n -> Nat \ {0}] : Recurs(g, n, 1, Step)
    <3>1. n \in Nat /\ 1 \in Nat \ {0}
      OBVIOUS
    <3> QED BY <2>1, <3>1, Recursion
  <2>3. \A i \in 0 .. n : i # 0 => Step[<<i, g[i - 1]>>] = 2 * g[i - 1]
    <3> TAKE i \in 0 .. n
    <3> HAVE i # 0
    <3>1. i \in 1 .. n /\ i - 1 \in 0 .. n
      OBVIOUS
    <3>2. g[i - 1] \in Nat \ {0}
      BY <2>2, <3>1
    <3> QED BY <3>1, <3>2 DEF Step
  <2>4. g = [i \in 0 .. n |-> IF i = 0 THEN 1 ELSE Step[<<i, g[i - 1]>>]]
    BY <2>2 DEF Recurs
  <2>5. [i \in 0 .. n |-> IF i = 0 THEN 1 ELSE Step[<<i, g[i - 1]>>]]
          = [i \in 0 .. n |-> IF i = 0 THEN 1 ELSE 2 * g[i - 1]]
    BY <2>3
  <2>6. Is(g)
    BY <2>4, <2>5, Zenon
  <2> QED BY <2>6, Zenon
<1>2. Is(w)
  <2> HIDE DEF Is
  <2> QED BY <1>1
<1>3. Two(n) = w[n]
  BY DEF Two
<1>4. w = [i \in 0 .. n |-> IF i = 0 THEN 1 ELSE 2 * w[i - 1]]
  BY <1>2
<1> HIDE DEF w, Is
<1>5. w[0] = 1 /\ \A j \in 1 .. n : w[j] = 2 * w[j - 1]
  BY <1>4
<1> DEFINE Up == {k \in Nat : k <= n => w[k] \in Nat \ {0}}
<1>6. 0 \in Up
  BY <1>5
<1>7. ASSUME NEW k \in Nat, k \in Up PROVE k + 1 \in Up
  <2> SUFFICES ASSUME k + 1 <= n PROVE w[k + 1] \in Nat \ {0}
    OBVIOUS
  <2>1. k + 1 \in 1 .. n /\ k + 1 - 1 = k /\ k <= n
    OBVIOUS
  <2>2. w[k + 1] = 2 * w[k] /\ w[k] \in Nat \ {0}
    BY <1>5, <1>7, <2>1
  <2> QED BY <2>2
<1>8. Nat \subseteq Up
  <2> HIDE DEF Up
  <2> QED BY <1>6, <1>7, SetInduction
<1>9. w \in [0 .. n -> Nat \ {0}]
  <2>1. \A k \in 0 .. n : w[k] \in Nat \ {0}
    BY <1>8
  <2>2. DOMAIN w = 0 .. n /\ w = [k \in 0 .. n |-> w[k]]
    BY <1>4
  <2> QED BY <2>1, <2>2
<1> QED BY <1>3, <1>5, <1>9

\* The bits that the first lows of an answer stand for.
Mark(e, i) == IF e.answer[2 * i] \div 2 <= e.limit THEN 1 ELSE 0
BitsOf(e) ==
  LET Bits[i \in 0 .. e.bits] == IF i = 0 THEN 0 ELSE 2 * Bits[i - 1] + Mark(e, i)
  IN  Bits

LEMMA BitsAre ==
  ASSUME NEW e, e.bits \in Nat
  PROVE  /\ BitsOf(e)[0] = 0
         /\ \A i \in 1 .. e.bits : BitsOf(e)[i] = 2 * BitsOf(e)[i - 1] + Mark(e, i)
         /\ \A i \in 0 .. e.bits : BitsOf(e)[i] \in Nat
         /\ BitsOf(e)[e.bits] < Two(e.bits)
<1> DEFINE n == e.bits
           Step == [q \in (1 .. n) \X Nat |-> 2 * q[2] + Mark(e, q[1])]
           Is(g) == g = [i \in 0 .. n |-> IF i = 0 THEN 0 ELSE 2 * g[i - 1] + Mark(e, i)]
           b == BitsOf(e)
<1>1. n \in Nat /\ \A i : Mark(e, i) \in {0, 1}
  BY DEF Mark
<1>2. \E g : Is(g)
  <2>1. Step \in [(1 .. n) \X Nat -> Nat]
    BY <1>1
  <2> HIDE DEF Step, n
  <2>2. PICK g \in [0 .. n -> Nat] : Recurs(g, n, 0, Step)
    <3>1. n \in Nat /\ 0 \in Nat
      BY <1>1
    <3> QED BY <2>1, <3>1, Recursion
  <2>3. \A i \in 0 .. n : i # 0 => Step[<<i, g[i - 1]>>] = 2 * g[i - 1] + Mark(e, i)
    <3> TAKE i \in 0 .. n
    <3> HAVE i # 0
    <3>1. i \in 1 .. n /\ i - 1 \in 0 .. n
      BY <1>1
    <3>2. g[i - 1] \in Nat
      BY <1>1, <2>2, <3>1
    <3> QED BY <3>1, <3>2 DEF Step
  <2> QED BY <2>2, <2>3 DEF Recurs
<1>3. b = CHOOSE g : Is(g)
  BY DEF BitsOf
<1>4. Is(b)
  <2> HIDE DEF Is, b
  <2> QED BY <1>2, <1>3
<1>5. b = [i \in 0 .. n |-> IF i = 0 THEN 0 ELSE 2 * b[i - 1] + Mark(e, i)]
  BY <1>4
<1> HIDE DEF b, Is, Step, n
<1>6. b[0] = 0 /\ \A j \in 1 .. n : b[j] = 2 * b[j - 1] + Mark(e, j)
  BY <1>1, <1>5
<1>7. PICK w \in [0 .. n -> Nat \ {0}] :
        w[0] = 1 /\ w[n] = Two(n) /\ \A j \in 1 .. n : w[j] = 2 * w[j - 1]
  BY <1>1, PowersAre
<1> DEFINE Up == {k \in Nat : k <= n => b[k] \in Nat /\ b[k] < w[k]}
<1>8. 0 \in Up
  BY <1>6, <1>7
<1>9. ASSUME NEW k \in Nat, k \in Up PROVE k + 1 \in Up
  <2> SUFFICES ASSUME k + 1 <= n PROVE b[k + 1] \in Nat /\ b[k + 1] < w[k + 1]
    OBVIOUS
  <2>1. k + 1 \in 1 .. n /\ k + 1 - 1 = k /\ k <= n /\ k \in 0 .. n
    BY <1>1
  <2>2. b[k + 1] = 2 * b[k] + Mark(e, k + 1) /\ b[k] \in Nat /\ b[k] < w[k]
    BY <1>6, <1>9, <2>1
  <2>3. w[k + 1] = 2 * w[k] /\ w[k] \in Nat /\ Mark(e, k + 1) \in {0, 1}
    BY <1>1, <1>7, <2>1
  <2> DEFINE bk == b[k]
             wk == w[k]
             mk == Mark(e, k + 1)
  <2> HIDE DEF bk, wk, mk
  <2>4. 2 * bk + mk \in Nat /\ 2 * bk + mk < 2 * wk
    <3>1. bk \in Nat /\ wk \in Nat /\ bk < wk /\ mk \in {0, 1}
      BY <2>2, <2>3 DEF bk, wk, mk
    <3> QED BY <3>1
  <2> QED BY <2>2, <2>3, <2>4 DEF bk, wk, mk
<1>10. Nat \subseteq Up
  <2> HIDE DEF Up
  <2> QED BY <1>8, <1>9, SetInduction
<1>11. \A k \in 0 .. n : b[k] \in Nat /\ b[k] < w[k]
  BY <1>1, <1>10
<1>12. b[n] < Two(n)
  BY <1>1, <1>7, <1>11
<1> QED BY <1>6, <1>11, <1>12 DEF b, n

LEMMA DecodedIs == Decoded = BitsOf(exchange)[exchange.bits]
BY DEF Decoded, BitsOf, Mark

\* The i-th low is over, and began at most c cycles more than its length ago.
Past(e, n, h, r, rs, g, i, c) ==
  \E b \in Nat : \E t \in Nat : b <= t /\ t <= b + c /\ Pulse(e, n, h, r, rs, g, i, b, t)

LEMMA PastTurns ==
  ASSUME NEW e, NEW n, NEW h, NEW r, NEW rs, NEW g, NEW n2, NEW h2, NEW r2, NEW g2,
         NEW i, NEW c \in Nat, c <= 5,
         Turning(e, n, h, r, rs, g, n2, h2, r2, g2), Past(e, n, h, r, rs, g, i, c)
  PROVE  ~Down(n, r) /\ Past(e, n2, h2, r2, rs, g2, i, c + 1)
<1>1. PICK b \in Nat : \E t \in Nat :
        b <= t /\ t <= b + c /\ Pulse(e, n, h, r, rs, g, i, b, t)
  BY DEF Past
<1>2. PICK t \in Nat : b <= t /\ t <= b + c /\ Pulse(e, n, h, r, rs, g, i, b, t)
  BY <1>1
<1>3. t <= b + 6 /\ b <= t + 1 /\ t + 1 <= b + (c + 1) /\ t + 1 \in Nat
  BY <1>2
<1>4. Pulse(e, n2, h2, r2, rs, g2, i, b, t + 1)
  BY <1>2, <1>3, PulseTurns
<1>5. e \in Exchanges /\ Tape(e, n, h, r, rs)
  BY DEF Turning
<1>6. Down(n, r) <=> t < b
  BY <1>2, <1>3, <1>5, PulseDown
<1>7. ~Down(n, r)
  BY <1>2, <1>6
<1>8. Past(e, n2, h2, r2, rs, g2, i, c + 1)
  BY <1>3, <1>4, Zenon DEF Past
<1> QED BY <1>7, <1>8

LEMMA PastLonger ==
  ASSUME NEW e, NEW n, NEW h, NEW r, NEW rs, NEW g, NEW i, NEW c \in Nat, NEW d \in Nat,
         c <= d, Past(e, n, h, r, rs, g, i, c)
  PROVE  Past(e, n, h, r, rs, g, i, d)
BY DEF Past

\* When no low of the host's is left on the line, it is the target's that counts.
LEMMA PulseMarks ==
  ASSUME NEW e \in Exchanges, NEW n, NEW h, NEW r, NEW rs, NEW g, NEW i, NEW b, NEW t,
         ~EndsIn(e), Pulse(e, n, h, r, rs, g, i, b, t)
  PROVE  Mark(e, i) = IF b \div 2 <= e.limit THEN 1 ELSE 0
<1>1. b = e.answer[2 * i]
  BY DEF Pulse, Theirs, Ours
<1> QED BY <1>1, Zenon DEF Mark

\* Where the decoding program is, at address q, in the i-th bit.
Decode(e, q, x, y, osr, isr, n, h, r, rs, g, i) ==
  /\ q \in 3 .. 16 /\ i \in 1 .. e.bits /\ y \in Nat
  /\ q # 16 => osr = e.limit /\ y + i = e.bits
  /\ q \in {3, 4} => i = 1
  /\ q \in {5, 6, 7, 8, 9, 10, 12, 13, 14} => isr = BitsOf(e)[i - 1]
  /\ q \in {11, 15, 16} => isr = BitsOf(e)[i]
  /\ q = 3 => Before(e, n, h, r, rs, i, 8)
  /\ q = 4 => Before(e, n, h, r, rs, i, 7)
  /\ q = 5 => Before(e, n, h, r, rs, i, 1)
  /\ q = 6 => x = e.limit /\ Poised(e, n, h, r, rs, g, i)
  /\ q = 7 => Loop(e, x, n, h, r, rs, g, i, 1)
  /\ q = 8 => Loop(e, x, n, h, r, rs, g, i, 2)
  /\ q \in {9, 10} => Mark(e, i) = 0
  /\ q = 9 => \E b \in Nat : \E t \in Nat : t <= b + 1 /\ Pulse(e, n, h, r, rs, g, i, b, t)
  /\ q \in {12, 13, 14} => Mark(e, i) = 1
  /\ q \in {13, 14} => x = 1
  /\ q \in {10, 12} => Past(e, n, h, r, rs, g, i, 2)
  /\ q \in {11, 13} => Past(e, n, h, r, rs, g, i, 3)
  /\ q = 14 => Past(e, n, h, r, rs, g, i, 4)
  /\ q = 15 => Past(e, n, h, r, rs, g, i, 5)
  /\ q = 16 => i = e.bits /\ Past(e, n, h, r, rs, g, i, 6)
Reading(e, q, x, y, osr, isr, n, h, r, rs, g) ==
  \E i \in Nat : Decode(e, q, x, y, osr, isr, n, h, r, rs, g, i)

DecodeMoves(low, q, x, y, osr, isr, q2, x2, y2, osr2, isr2) ==
  /\ osr2 = osr
  /\ q # 15 => y2 = y
  /\ q \notin {4, 10, 14} => isr2 = isr
  /\ q = 3 => q2 = 4
  /\ q = 4 => q2 = 5 /\ isr2 = 0
  /\ q = 5 => q2 = 6 /\ x2 = osr
  /\ q = 6 => x2 = x /\ (low => q2 = 7) /\ (~low => q2 = 6)
  /\ q = 7 => x2 = x /\ (low => q2 = 8) /\ (~low => q2 = 12)
  /\ q = 8 => x2 = Decremented(x) /\ (x # 0 => q2 = 7) /\ (x = 0 => q2 = 9)
  /\ q = 9 => (low => q2 = 9) /\ (~low => q2 = 10)
  /\ q = 10 => q2 = 11 /\ isr2 = 2 * isr
  /\ q = 11 => q2 = 15
  /\ q = 12 => q2 = 13 /\ x2 = 1
  /\ q = 13 => x2 = x /\ (low => q2 = 13) /\ (~low => q2 = 14)
  /\ q = 14 => q2 = 15 /\ isr2 = 2 * isr + (x % 2)
  /\ q = 15 => y2 = Decremented(y) /\ (y # 0 => q2 = 5) /\ (y = 0 => q2 = 16)

LEMMA DecodeTurns ==
  ASSUME NEW e, NEW n, NEW h, NEW r, NEW rs, NEW g, NEW n2, NEW h2, NEW r2, NEW g2,
         NEW q, NEW x, NEW y, NEW osr, NEW isr, NEW q2, NEW x2, NEW y2, NEW osr2, NEW isr2,
         Turning(e, n, h, r, rs, g, n2, h2, r2, g2), e.kind = "decode",
         Reading(e, q, x, y, osr, isr, n, h, r, rs, g), q # 16,
         DecodeMoves(Down(n, r), q, x, y, osr, isr, q2, x2, y2, osr2, isr2)
  PROVE  Reading(e, q2, x2, y2, osr2, isr2, n2, h2, r2, rs, g2)
<1>1. PICK i \in Nat : Decode(e, q, x, y, osr, isr, n, h, r, rs, g, i)
  BY DEF Reading
<1>2. /\ e \in Exchanges /\ e.limit \in Nat /\ e.limit < REG /\ REG \in Nat
      /\ e.bits \in Nat /\ e.bits < REG /\ ~EndsIn(e) /\ Tape(e, n, h, r, rs)
      /\ Tape(e, n2, h2, r2, rs)
  BY AnswerIs, NumbersAre, TapeTurns DEF Turning
<1>3. /\ q \in 3 .. 15 /\ i \in 1 .. e.bits /\ y \in Nat /\ i # 0
      /\ osr = e.limit /\ y + i = e.bits /\ osr2 = e.limit
      /\ q # 15 => y2 = y
      /\ q \notin {4, 10, 14} => isr2 = isr
  BY <1>1, <1>2 DEF Decode, DecodeMoves
<1>4. /\ BitsOf(e)[0] = 0
      /\ \A j \in 1 .. e.bits : BitsOf(e)[j] = 2 * BitsOf(e)[j - 1] + Mark(e, j)
      /\ \A j \in 0 .. e.bits : BitsOf(e)[j] \in Nat
  BY <1>2, BitsAre
<1>5. BitsOf(e)[i] = 2 * BitsOf(e)[i - 1] + Mark(e, i) /\ BitsOf(e)[i - 1] \in Nat
  <2>1. i \in 1 .. e.bits /\ i - 1 \in 0 .. e.bits
    BY <1>2, <1>3
  <2> QED BY <1>4, <2>1
<1> SUFFICES ASSUME TRUE
             PROVE  \E k \in Nat : Decode(e, q2, x2, y2, osr2, isr2, n2, h2, r2, rs, g2, k)
  BY DEF Reading
<1>6. CASE q = 3
  BY <1>1, <1>6, <1>3, BeforeTurns DEF Decode, DecodeMoves
<1>7. CASE q = 4
  <2>1. i = 1 /\ Before(e, n, h, r, rs, i, 7) /\ q2 = 5 /\ isr2 = 0
    BY <1>1, <1>7 DEF Decode, DecodeMoves
  <2>2. 7 \in Nat \ {0, 1} /\ 7 - 1 = 6 /\ i - 1 = 0
    BY <2>1
  <2>3. Before(e, n2, h2, r2, rs, i, 7 - 1)
    BY <2>1, <2>2, BeforeTurns
  <2>5. h2 \in Nat
    BY <1>2 DEF Tape
  <2>6. Before(e, n2, h2, r2, rs, i, 1)
    BY <2>2, <2>3, <2>5 DEF Before
  <2>7. isr2 = BitsOf(e)[i - 1]
    BY <1>4, <2>1, <2>2
  <2>4. Decode(e, q2, x2, y2, osr2, isr2, n2, h2, r2, rs, g2, i)
    BY <1>3, <1>7, <2>1, <2>6, <2>7 DEF Decode
  <2> QED BY <2>4
<1>8. CASE q = 5
  BY <1>1, <1>8, <1>3, BeforeBegins DEF Decode, DecodeMoves
<1>9. CASE q = 6
  <2>1. /\ x = e.limit /\ Poised(e, n, h, r, rs, g, i) /\ x2 = x /\ isr = BitsOf(e)[i - 1]
        /\ (Down(n, r) => q2 = 7) /\ (~Down(n, r) => q2 = 6)
    BY <1>1, <1>9 DEF Decode, DecodeMoves
  <2>2. /\ ~Down(n, r) => Poised(e, n2, h2, r2, rs, g2, i)
        /\ Down(n, r) => \E b \in Nat : Pulse(e, n2, h2, r2, rs, g2, i, b, 1)
    BY <2>1, PoisedTurns
  <2>3. Down(n, r) => Loop(e, x2, n2, h2, r2, rs, g2, i, 1)
    <3> SUFFICES ASSUME Down(n, r) PROVE Loop(e, e.limit, n2, h2, r2, rs, g2, i, 1)
      BY <2>1
    <3>1. PICK b \in Nat : Pulse(e, n2, h2, r2, rs, g2, i, b, 1)
      BY <2>2
    <3>2. 0 \in Nat /\ e.limit + 0 = e.limit /\ 2 * 0 + 2 * 1 - 2 <= b /\ 2 * 0 + 1 = 1
      BY <1>2
    <3>3. Pulse(e, n2, h2, r2, rs, g2, i, b, 2 * 0 + 1)
      BY <3>1, <3>2, Zenon
    <3> QED BY <1>2, <3>2, <3>3, Zenon DEF Loop
  <2>4. Decode(e, q2, x2, y2, osr2, isr2, n2, h2, r2, rs, g2, i)
    BY <1>3, <1>9, <2>1, <2>2, <2>3 DEF Decode
  <2> QED BY <2>4
<1>10. CASE q = 7
  <2>1. /\ Loop(e, x, n, h, r, rs, g, i, 1) /\ x2 = x /\ isr = BitsOf(e)[i - 1]
        /\ (Down(n, r) => q2 = 8) /\ (~Down(n, r) => q2 = 12)
    BY <1>1, <1>10 DEF Decode, DecodeMoves
  <2>2. /\ Down(n, r) => Loop(e, x, n2, h2, r2, rs, g2, i, 2)
        /\ ~Down(n, r) =>
              \E b \in Nat : \E t \in Nat :
                /\ x + b \div 2 = e.limit /\ b <= t /\ t <= b + 2
                /\ Pulse(e, n2, h2, r2, rs, g2, i, b, t)
    BY <2>1, LoopLooks
  <2>3. ~Down(n, r) => Mark(e, i) = 1 /\ Past(e, n2, h2, r2, rs, g2, i, 2)
    <3> SUFFICES ASSUME ~Down(n, r)
                 PROVE  Mark(e, i) = 1 /\ Past(e, n2, h2, r2, rs, g2, i, 2)
      OBVIOUS
    <3>1. PICK b \in Nat : \E t \in Nat :
                /\ x + b \div 2 = e.limit /\ b <= t /\ t <= b + 2
                /\ Pulse(e, n2, h2, r2, rs, g2, i, b, t)
      BY <2>2
    <3>2. PICK t \in Nat :
                /\ x + b \div 2 = e.limit /\ b <= t /\ t <= b + 2
                /\ Pulse(e, n2, h2, r2, rs, g2, i, b, t)
      BY <3>1
    <3>3. x \in Nat
      BY <2>1 DEF Loop
    <3>4. b \div 2 <= e.limit
      BY <1>2, <3>2, <3>3
    <3>5. Mark(e, i) = IF b \div 2 <= e.limit THEN 1 ELSE 0
      BY <1>2, <3>2, PulseMarks
    <3>6. Past(e, n2, h2, r2, rs, g2, i, 2)
      BY <3>2, Zenon DEF Past
    <3> QED BY <3>4, <3>5, <3>6, Zenon
  <2>4. Decode(e, q2, x2, y2, osr2, isr2, n2, h2, r2, rs, g2, i)
    BY <1>3, <1>10, <2>1, <2>2, <2>3 DEF Decode
  <2> QED BY <2>4
<1>11. CASE q = 8
  <2>1. /\ Loop(e, x, n, h, r, rs, g, i, 2) /\ x2 = Decremented(x)
        /\ isr = BitsOf(e)[i - 1]
        /\ (x # 0 => q2 = 7) /\ (x = 0 => q2 = 9)
    BY <1>1, <1>11 DEF Decode, DecodeMoves
  <2>2. /\ x # 0 => Loop(e, Decremented(x), n2, h2, r2, rs, g2, i, 1)
        /\ x = 0 => /\ Decremented(x) = REG - 1
                    /\ \E b \in Nat : \E t \in Nat :
                          /\ b \div 2 > e.limit /\ t <= b + 1
                          /\ Pulse(e, n2, h2, r2, rs, g2, i, b, t)
    BY <2>1, LoopCounts
  <2>3. CASE x # 0
    BY <1>3, <1>11, <2>1, <2>2, <2>3 DEF Decode
  <2>4. CASE x = 0
    <3>1. PICK b \in Nat : \E t \in Nat :
                          /\ b \div 2 > e.limit /\ t <= b + 1
                          /\ Pulse(e, n2, h2, r2, rs, g2, i, b, t)
      BY <2>2, <2>4
    <3>2. PICK t \in Nat : /\ b \div 2 > e.limit /\ t <= b + 1
                           /\ Pulse(e, n2, h2, r2, rs, g2, i, b, t)
      BY <3>1
    <3>3. ~(b \div 2 <= e.limit)
      BY <1>2, <3>2
    <3>4. Mark(e, i) = IF b \div 2 <= e.limit THEN 1 ELSE 0
      BY <1>2, <3>2, PulseMarks
    <3>5. Mark(e, i) = 0
      BY <3>3, <3>4, Zenon
    <3>6. \E c \in Nat : \E u \in Nat : u <= c + 1 /\ Pulse(e, n2, h2, r2, rs, g2, i, c, u)
      BY <3>2, Zenon
    <3>7. Decode(e, q2, x2, y2, osr2, isr2, n2, h2, r2, rs, g2, i)
      BY <1>3, <1>11, <2>1, <2>4, <3>5, <3>6 DEF Decode
    <3> QED BY <3>7
  <2> QED BY <2>3, <2>4
<1>12. CASE q = 9
  <2>1. /\ Mark(e, i) = 0 /\ isr = BitsOf(e)[i - 1]
        /\ (Down(n, r) => q2 = 9) /\ (~Down(n, r) => q2 = 10)
    BY <1>1, <1>12 DEF Decode, DecodeMoves
  <2>2. PICK b \in Nat : \E t \in Nat : t <= b + 1 /\ Pulse(e, n, h, r, rs, g, i, b, t)
    BY <1>1, <1>12 DEF Decode
  <2>3. PICK t \in Nat : t <= b + 1 /\ Pulse(e, n, h, r, rs, g, i, b, t)
    BY <2>2
  <2>4. t <= b + 6
    BY <2>3
  <2>5. (Down(n, r) <=> t < b) /\ Pulse(e, n2, h2, r2, rs, g2, i, b, t + 1)
    BY <1>2, <2>3, <2>4, PulseDown, PulseTurns
  <2>6. CASE Down(n, r)
    BY <2>3, <2>5, <2>6, <1>3, <1>12, <2>1 DEF Decode
  <2>7. CASE ~Down(n, r)
    BY <2>3, <2>5, <2>7, <1>3, <1>12, <2>1 DEF Past, Decode
  <2> QED BY <2>6, <2>7
<1>13. CASE q = 10
  BY <1>1, <1>13, <1>5, <1>3, PastTurns DEF Decode, DecodeMoves
<1>14. CASE q = 11
  BY <1>1, <1>14, <1>3, PastTurns, PastLonger DEF Decode, DecodeMoves
<1>15. CASE q = 12
  BY <1>1, <1>15, <1>3, PastTurns DEF Decode, DecodeMoves
<1>16. CASE q = 13
  BY <1>1, <1>16, <1>3, PastTurns DEF Decode, DecodeMoves
<1>17. CASE q = 14
  BY <1>1, <1>17, <1>5, <1>3, PastTurns DEF Decode, DecodeMoves
<1>18. CASE q = 15
  <2>1. /\ isr = BitsOf(e)[i] /\ y2 = Decremented(y) /\ (y # 0 => q2 = 5) /\ (y = 0 => q2 = 16)
        /\ Past(e, n, h, r, rs, g, i, 5)
    BY <1>1, <1>18 DEF Decode, DecodeMoves
  <2>2. y <= REG /\ (y # 0 => Decremented(y) = y - 1) /\ (y = 0 => Decremented(y) = REG - 1)
    <3>1. y <= REG
      BY <1>2, <1>3
    <3> QED BY <1>3, <3>1, DecrementedBy
  <2>3. Past(e, n2, h2, r2, rs, g2, i, 5 + 1) /\ 5 + 1 = 6
    BY <2>1, PastTurns
  <2>4. CASE y = 0
    BY <1>2, <1>3, <2>1, <2>2, <2>4, <1>18, <2>3 DEF Decode
  <2>5. CASE y # 0
    <3>1. PICK k : k = i + 1
      OBVIOUS
    <3>2. /\ k \in Nat /\ k \in 1 .. e.bits /\ y2 \in Nat /\ y2 + k = e.bits /\ k - 1 = i
          /\ i + 1 \in 1 .. e.bits
      BY <1>2, <1>3, <2>1, <2>2, <2>5, <3>1
    <3>3. PICK b \in Nat : \E t \in Nat :
            b <= t /\ t <= b + 6 /\ Pulse(e, n2, h2, r2, rs, g2, i, b, t)
      BY <2>3 DEF Past
    <3>4. PICK t \in Nat : b <= t /\ t <= b + 6 /\ Pulse(e, n2, h2, r2, rs, g2, i, b, t)
      BY <3>3
    <3>5. t >= b
      BY <3>4
    <3>6. Before(e, n2, h2, r2, rs, i + 1, 1)
      BY <1>2, <3>2, <3>4, <3>5, NextLow
    <3>7. Decode(e, q2, x2, y2, osr2, isr2, n2, h2, r2, rs, g2, k)
      BY <1>3, <1>18, <2>1, <2>5, <3>1, <3>2, <3>6 DEF Decode
    <3> QED BY <3>2, <3>7
  <2> QED BY <2>4, <2>5
<1> QED BY <1>3, <1>6, <1>7, <1>8, <1>9, <1>10, <1>11, <1>12, <1>13, <1>14, <1>15, <1>16,
           <1>17, <1>18

\* The answer is not over, or has been for no more than 8 cycles; or there is
\* none.
Late(e, n, g) == Len(e.answer) = 0 \/ n < Len(e.answer) \/ g <= 8

LEMMA PulseLate ==
  ASSUME NEW e, NEW n, NEW h, NEW r, NEW rs, NEW g, NEW i, NEW b, NEW t,
         e \in Exchanges, Tape(e, n, h, r, rs), g \in Int,
         Pulse(e, n, h, r, rs, g, i, b, t), t <= b + 7
  PROVE  Late(e, n, g)
<1> DEFINE l == Len(e.answer)
           k == 2 * i
<1>1. n \in 0 .. l /\ i \in Nat \ {0} /\ b \in Nat /\ t \in Nat /\ l \in Nat
  BY AnswerIs DEF Tape, Pulse
<1>2. k \in Nat
  BY <1>1
<1>3. CASE Theirs(e, n, h, r, g, i, b, t)
  <2>1. /\ k <= l
        /\ \/ n = k - 1
           \/ n = k /\ n < l
           \/ n = k /\ n = l /\ t >= b /\ g <= t - b + 1
    BY <1>3 DEF Theirs
  <2> HIDE DEF l, k
  <2>2. n < l \/ g <= 8
    BY <1>1, <1>2, <2>1
  <2> QED BY <2>2 DEF Late, l
<1>4. CASE Ours(e, n, h, r, rs, i, b, t)
  <2>1. n = 0
    BY <1>4 DEF Ours
  <2> HIDE DEF l
  <2>2. l = 0 \/ n < l
    BY <1>1, <2>1
  <2> QED BY <2>2 DEF Late, l
<1> QED BY <1>3, <1>4 DEF Pulse

LEMMA BeforeLate ==
  ASSUME NEW e, NEW n, NEW h, NEW r, NEW rs, NEW g, NEW i, NEW c,
         e \in Exchanges, 2 * e.bits <= Len(e.answer), Before(e, n, h, r, rs, i, c)
  PROVE  Late(e, n, g)
<1>1. e.bits \in Nat /\ Len(e.answer) \in Nat
  BY AnswerIs
<1>2. i \in 1 .. e.bits /\ n = 2 * i - 2
  BY DEF Before
<1>3. n < Len(e.answer)
  BY <1>1, <1>2
<1> QED BY <1>3 DEF Late

LEMMA PoisedLate ==
  ASSUME NEW e, NEW n, NEW h, NEW r, NEW rs, NEW g, NEW i,
         e \in Exchanges, Tape(e, n, h, r, rs), g \in Int,
         2 * e.bits <= Len(e.answer), Poised(e, n, h, r, rs, g, i)
  PROVE  Late(e, n, g)
<1>1. CASE Before(e, n, h, r, rs, i, 1)
  BY <1>1, BeforeLate
<1>2. CASE Begun(e, n, h, r, rs, g, i)
  <2>1. PICK b \in Nat : Pulse(e, n, h, r, rs, g, i, b, 0)
    BY <1>2 DEF Begun
  <2>2. 0 <= b + 7
    OBVIOUS
  <2> QED BY <2>1, <2>2, PulseLate
<1> QED BY <1>1, <1>2 DEF Poised

LEMMA LoopLate ==
  ASSUME NEW e, NEW n, NEW h, NEW r, NEW rs, NEW g, NEW i, NEW x, NEW c \in {1, 2},
         e \in Exchanges, Tape(e, n, h, r, rs), g \in Int,
         Loop(e, x, n, h, r, rs, g, i, c)
  PROVE  Late(e, n, g)
<1>1. PICK b \in Nat : \E m \in Nat :
        /\ 2 * m + 2 * c - 2 <= b
        /\ Pulse(e, n, h, r, rs, g, i, b, 2 * m + c)
  BY DEF Loop
<1>2. PICK m \in Nat : /\ 2 * m + 2 * c - 2 <= b
                       /\ Pulse(e, n, h, r, rs, g, i, b, 2 * m + c)
  BY <1>1
<1>3. 2 * m + c <= b + 7
  BY <1>2
<1> QED BY <1>2, <1>3, PulseLate

LEMMA TalliedLate ==
  ASSUME NEW e, NEW n, NEW h, NEW r, NEW rs, NEW g, NEW w, NEW c \in {2, 3},
         e \in Exchanges, Tape(e, n, h, r, rs), g \in Int,
         Tallied(e, w, n, h, r, rs, g, c)
  PROVE  Late(e, n, g)
<1>1. PICK b \in Nat : \E t \in Nat : t <= b + c /\ Pulse(e, n, h, r, rs, g, 1, b, t)
  BY DEF Tallied
<1>2. PICK t \in Nat : t <= b + c /\ Pulse(e, n, h, r, rs, g, 1, b, t)
  BY <1>1
<1>3. t <= b + 7
  BY <1>2
<1> QED BY <1>2, <1>3, PulseLate

LEMMA PastLate ==
  ASSUME NEW e, NEW n, NEW h, NEW r, NEW rs, NEW g, NEW i, NEW c \in 2 .. 6,
         e \in Exchanges, Tape(e, n, h, r, rs), g \in Int,
         Past(e, n, h, r, rs, g, i, c)
  PROVE  Late(e, n, g)
<1>1. PICK b \in Nat : \E t \in Nat : t <= b + c /\ Pulse(e, n, h, r, rs, g, i, b, t)
  BY DEF Past
<1>2. PICK t \in Nat : t <= b + c /\ Pulse(e, n, h, r, rs, g, i, b, t)
  BY <1>1
<1>3. t <= b + 7
  BY <1>2
<1> QED BY <1>2, <1>3, PulseLate

LEMMA WidthLate ==
  ASSUME NEW e, NEW n, NEW h, NEW r, NEW rs, NEW g, NEW q, NEW x, NEW osr, NEW isr,
         e \in Exchanges, Tape(e, n, h, r, rs), g \in Int, 2 * e.bits <= Len(e.answer),
         Width(e, q, x, osr, isr, n, h, r, rs, g)
  PROVE  Late(e, n, g)
<1>1. \/ Before(e, n, h, r, rs, 1, 8) \/ Before(e, n, h, r, rs, 1, 7)
      \/ Poised(e, n, h, r, rs, g, 1)
      \/ Loop(e, x, n, h, r, rs, g, 1, 1) \/ Loop(e, x, n, h, r, rs, g, 1, 2)
      \/ Tallied(e, x, n, h, r, rs, g, 2) \/ Tallied(e, isr, n, h, r, rs, g, 3)
  BY DEF Width
<1>2. 1 \in {1, 2} /\ 2 \in {1, 2} /\ 2 \in {2, 3} /\ 3 \in {2, 3}
  OBVIOUS
<1>3. CASE Before(e, n, h, r, rs, 1, 8) \/ Before(e, n, h, r, rs, 1, 7)
  BY <1>3, BeforeLate
<1>4. CASE Poised(e, n, h, r, rs, g, 1)
  BY <1>4, PoisedLate
<1>5. CASE Loop(e, x, n, h, r, rs, g, 1, 1) \/ Loop(e, x, n, h, r, rs, g, 1, 2)
  BY <1>2, <1>5, LoopLate
<1>6. CASE Tallied(e, x, n, h, r, rs, g, 2) \/ Tallied(e, isr, n, h, r, rs, g, 3)
  BY <1>2, <1>6, TalliedLate
<1> QED BY <1>1, <1>3, <1>4, <1>5, <1>6

LEMMA ReadingLate ==
  ASSUME NEW e, NEW n, NEW h, NEW r, NEW rs, NEW g, NEW q, NEW x, NEW y, NEW osr, NEW isr,
         e \in Exchanges, Tape(e, n, h, r, rs), g \in Int, 2 * e.bits <= Len(e.answer),
         Reading(e, q, x, y, osr, isr, n, h, r, rs, g)
  PROVE  Late(e, n, g)
<1>0. PICK i \in Nat : Decode(e, q, x, y, osr, isr, n, h, r, rs, g, i)
  BY DEF Reading
<1>1. \/ \E c \in {1, 7, 8} : Before(e, n, h, r, rs, i, c)
      \/ Poised(e, n, h, r, rs, g, i)
      \/ \E c \in {1, 2} : Loop(e, x, n, h, r, rs, g, i, c)
      \/ \E b \in Nat : \E t \in Nat : t <= b + 1 /\ Pulse(e, n, h, r, rs, g, i, b, t)
      \/ \E c \in 2 .. 6 : Past(e, n, h, r, rs, g, i, c)
  <2>1. q \in 3 .. 16
    BY <1>0 DEF Decode
  <2>2. q \in {3, 4, 5} => \E c \in {1, 7, 8} : Before(e, n, h, r, rs, i, c)
    BY <1>0 DEF Decode
  <2>3. q = 6 => Poised(e, n, h, r, rs, g, i)
    BY <1>0 DEF Decode
  <2>4. q \in {7, 8} => \E c \in {1, 2} : Loop(e, x, n, h, r, rs, g, i, c)
    BY <1>0 DEF Decode
  <2>5. q = 9 => \E b \in Nat : \E t \in Nat : t <= b + 1 /\ Pulse(e, n, h, r, rs, g, i, b, t)
    BY <1>0 DEF Decode
  <2>6. q \in 10 .. 16 => \E c \in 2 .. 6 : Past(e, n, h, r, rs, g, i, c)
    BY <1>0 DEF Decode
  <2> QED BY <2>1, <2>2, <2>3, <2>4, <2>5, <2>6
<1>2. CASE \E c \in {1, 7, 8} : Before(e, n, h, r, rs, i, c)
  BY <1>2, BeforeLate
<1>3. CASE Poised(e, n, h, r, rs, g, i)
  BY <1>3, PoisedLate
<1>4. CASE \E c \in {1, 2} : Loop(e, x, n, h, r, rs, g, i, c)
  BY <1>4, LoopLate
<1>5. CASE \E b \in Nat : \E t \in Nat : t <= b + 1 /\ Pulse(e, n, h, r, rs, g, i, b, t)
  <2>1. PICK b \in Nat : \E t \in Nat : t <= b + 1 /\ Pulse(e, n, h, r, rs, g, i, b, t)
    BY <1>5
  <2>2. PICK t \in Nat : t <= b + 1 /\ Pulse(e, n, h, r, rs, g, i, b, t)
    BY <2>1
  <2>3. t <= b + 7
    BY <2>2
  <2> QED BY <2>2, <2>3, PulseLate
<1>6. CASE \E c \in 2 .. 6 : Past(e, n, h, r, rs, g, i, c)
  BY <1>6, PastLate
<1> QED BY <1>1, <1>2, <1>3, <1>4, <1>5, <1>6

\* What a word in the receive FIFO may be.
Said(e, rs, w) ==
  \/ /\ Len(e.answer) >= 2 * e.bits
     /\ IF e.kind = "decode" THEN w = BitsOf(e)[e.bits] ELSE Counted(e, w, e.answer[2])
  \/ EndsIn(e) /\ e.kind # "decode" /\ \E b \in 1 .. rs : Counted(e, w, b)

LEMMA WidthSays ==
  ASSUME NEW e, NEW n, NEW h, NEW r, NEW rs, NEW g, NEW n2, NEW h2, NEW r2, NEW g2,
         NEW x, NEW osr, NEW isr,
         Turning(e, n, h, r, rs, g, n2, h2, r2, g2), e.kind # "decode",
         Width(e, 9, x, osr, isr, n, h, r, rs, g)
  PROVE  isr \in Nat /\ Said(e, rs, isr) /\ Late(e, n2, g2)
<1>1. /\ e \in Exchanges /\ Tape(e, n, h, r, rs) /\ Tape(e, n2, h2, r2, rs)
      /\ e.bits = 1 /\ rs \in Nat /\ g2 \in Int /\ Len(e.answer) \in Nat
  <2>1. e \in Exchanges /\ Tape(e, n, h, r, rs) /\ Tape(e, n2, h2, r2, rs)
    BY TapeTurns
  <2>2. e.bits = 1 /\ Len(e.answer) \in Nat
    BY <2>1, AnswerIs
  <2>3. rs \in Nat /\ g2 \in Int
    BY <2>1, NumbersAre DEF Tape, Turning, Turns
  <2> QED BY <2>1, <2>2, <2>3
<1>2. Tallied(e, isr, n, h, r, rs, g, 3)
  BY DEF Width
<1>3. PICK b \in Nat : \E t \in Nat :
        isr \in Nat /\ Counted(e, isr, b) /\ t <= b + 3 /\ Pulse(e, n, h, r, rs, g, 1, b, t)
  BY <1>2 DEF Tallied
<1>4. PICK t \in Nat :
        isr \in Nat /\ Counted(e, isr, b) /\ t <= b + 3 /\ Pulse(e, n, h, r, rs, g, 1, b, t)
  BY <1>3
<1>5. t <= b + 6 /\ t + 1 <= b + 7
  BY <1>4
<1>6. Pulse(e, n2, h2, r2, rs, g2, 1, b, t + 1)
  BY <1>4, <1>5, PulseTurns
<1>7. Late(e, n2, g2)
  BY <1>1, <1>5, <1>6, PulseLate
<1>8. CASE Theirs(e, n, h, r, g, 1, b, t)
  BY <1>8, <1>1, <1>4, <1>7 DEF Theirs, Said
<1>9. CASE Ours(e, n, h, r, rs, 1, b, t)
  <2>1. EndsIn(e) /\ b \in 1 .. rs
    BY <1>1, <1>9 DEF Ours
  <2> QED BY <1>4, <1>7, <2>1 DEF Said
<1> QED BY <1>4, <1>8, <1>9 DEF Pulse

LEMMA ReadingSays ==
  ASSUME NEW e, NEW n, NEW h, NEW r, NEW rs, NEW g, NEW n2, NEW h2, NEW r2, NEW g2,
         NEW x, NEW y, NEW osr, NEW isr,
         Turning(e, n, h, r, rs, g, n2, h2, r2, g2), e.kind = "decode",
         Reading(e, 16, x, y, osr, isr, n, h, r, rs, g)
  PROVE  isr \in Nat /\ Said(e, rs, isr) /\ Late(e, n2, g2)
<1>1. /\ e \in Exchanges /\ Tape(e, n, h, r, rs) /\ Tape(e, n2, h2, r2, rs)
      /\ ~EndsIn(e) /\ e.bits \in Nat /\ g2 \in Int /\ Len(e.answer) \in Nat
  BY TapeTurns, AnswerIs DEF Turning, Turns
<1>2. PICK i \in Nat : Decode(e, 16, x, y, osr, isr, n, h, r, rs, g, i)
  BY DEF Reading
<1>3. i = e.bits /\ isr = BitsOf(e)[i] /\ Past(e, n, h, r, rs, g, i, 6)
  BY <1>2 DEF Decode
<1>4. PICK b \in Nat : \E t \in Nat : t <= b + 6 /\ Pulse(e, n, h, r, rs, g, i, b, t)
  BY <1>3 DEF Past
<1>5. PICK t \in Nat : t <= b + 6 /\ Pulse(e, n, h, r, rs, g, i, b, t)
  BY <1>4
<1>6. Pulse(e, n2, h2, r2, rs, g2, i, b, t + 1) /\ t + 1 <= b + 7
  <2>1. Pulse(e, n2, h2, r2, rs, g2, i, b, t + 1)
    BY <1>5, PulseTurns
  <2> QED BY <1>5, <2>1
<1>7. Late(e, n2, g2)
  BY <1>1, <1>6, PulseLate
<1>8. 2 * i <= Len(e.answer)
  BY <1>1, <1>5 DEF Pulse, Theirs, Ours
<1>9. isr \in Nat
  BY <1>1, <1>3, BitsAre
<1>10. Len(e.answer) >= 2 * e.bits
  BY <1>1, <1>3, <1>8
<1> QED BY <1>3, <1>7, <1>9, <1>10, Zenon DEF Said

\* So the value that the CPU makes of it is what ResponseIsOwn asks.
LEMMA SaidIs ==
  ASSUME exchange \in Exchanges, NEW w \in Nat, rise \in Nat, Said(exchange, rise, w)
  PROVE  \/ /\ Len(exchange.answer) >= 2 * exchange.bits
            /\ Value(w) = IF exchange.kind = "decode" THEN Decoded
                          ELSE Measured(exchange.answer[2])
         \/ EndsLow /\ 2 * Value(w) <= rise
<1> DEFINE e == exchange
           lim == e.limit
           R == REG
<1>1. /\ lim \in Nat /\ lim < R /\ R \in Nat /\ e.bits \in Nat
      /\ \A i \in 1 .. Len(e.answer) : e.answer[i] \in Nat
      /\ e.bits # 0 /\ Len(e.answer) \in Nat
  BY AnswerIs, NumbersAre
<1>2. ASSUME e.kind # "decode", NEW b \in Nat, Counted(e, w, b)
      PROVE  Value(w) = Measured(b) /\ 2 * Value(w) <= b
  <2> DEFINE c == b \div 2
  <2>1. /\ c <= lim => w + c = lim
        /\ c > lim => w = R - 1
    BY <1>2 DEF Counted
  <2>2. c \in Nat /\ 2 * c <= b
    OBVIOUS
  <2>3. Value(w) = IF lim >= w THEN lim - w ELSE 0
    BY <1>2, Zenon DEF Value
  <2>4. Measured(b) = IF c > lim THEN 0 ELSE c
    BY Zenon DEF Measured
  <2> HIDE DEF c, lim, e, R
  <2>5. (IF lim >= w THEN lim - w ELSE 0) = IF c > lim THEN 0 ELSE c
    BY <1>1, <2>1, <2>2
  <2>6. 2 * (IF c > lim THEN 0 ELSE c) <= b
    BY <1>1, <2>2
  <2>7. Value(w) = Measured(b)
    BY <2>3, <2>4, <2>5
  <2>8. 2 * Value(w) <= b
    BY <2>4, <2>6, <2>7
  <2> QED BY <2>7, <2>8
<1>3. CASE e.kind = "decode"
  <2>1. Len(e.answer) >= 2 * e.bits /\ w = BitsOf(e)[e.bits]
    BY <1>3 DEF Said
  <2>2. w < Two(e.bits) /\ Two(e.bits) \in Nat \ {0}
    BY <1>1, <2>1, BitsAre, TwoIs
  <2> DEFINE t == Two(e.bits)
  <2>3. w % t = w
    <3> HIDE DEF t
    <3> QED BY <2>2 DEF t
  <2>4. Value(w) = w % t
    BY <1>3, Zenon DEF Value
  <2>5. Value(w) = Decoded
    BY <2>1, <2>3, <2>4, DecodedIs
  <2> QED BY <1>3, <2>1, <2>5
<1>4. CASE e.kind # "decode"
  <2>1. CASE Len(e.answer) >= 2 * e.bits /\ Counted(e, w, e.answer[2])
    <3>1. 2 \in 1 .. Len(e.answer)
      BY <1>1, <2>1
    <3>2. e.answer[2] \in Nat
      BY <1>1, <3>1
    <3>3. Value(w) = Measured(e.answer[2])
      BY <1>2, <1>4, <2>1, <3>2
    <3> QED BY <1>4, <2>1, <3>3
  <2>2. CASE EndsIn(e) /\ \E b \in 1 .. rise : Counted(e, w, b)
    <3>1. PICK b \in 1 .. rise : Counted(e, w, b)
      BY <2>2
    <3>2. 2 * Value(w) <= b
      BY <1>2, <1>4, <3>1
    <3>3. e.segs # << >>
      BY FramesInTime
    <3>4. EndsLow
      BY <2>2, <3>3 DEF EndsIn, EndsLow, N
    <3>5. Value(w) \in Nat
      BY ValueIs
    <3>6. 2 * Value(w) <= rise
      <4> DEFINE v == Value(w)
      <4> HIDE DEF v
      <4> QED BY <3>2, <3>5 DEF v
    <3> QED BY <3>4, <3>6
  <2> QED BY <1>4, <2>1, <2>2 DEF Said
<1> QED BY <1>3, <1>4
-----------------------------------------------------------------------------
(***************************************************************************)
(* The receive machine reads the answer.                                   *)
(***************************************************************************)
Turned(u, q, x, y, osr, isr, in, out) ==
  /\ Q(u) = q /\ u.x = x /\ u.y = y /\ u.osr = osr /\ u.isr = isr
  /\ u.in = in /\ u.out = out

\* What an instruction makes of the machine; n is the next address.
RxDoes(s, i, n, u) ==
  /\ i = I("pull") /\ s.in # << >> =>
       Turned(u, n, s.x, s.y, Head(s.in), s.isr, Tail(s.in), s.out)
  /\ i = I("pull") /\ s.in = << >> => u = s
  /\ i = I("mov y, osr") => Turned(u, n, s.x, s.osr, s.osr, s.isr, s.in, s.out)
  /\ i = I("mov x, osr") => Turned(u, n, s.osr, s.y, s.osr, s.isr, s.in, s.out)
  /\ i = I("mov isr, x") => Turned(u, n, s.x, s.y, s.osr, s.x, s.in, s.out)
  /\ i = I("mov isr, null") => Turned(u, n, s.x, s.y, s.osr, 0, s.in, s.out)
  /\ i = Arg("set x", 1) => Turned(u, n, 1, s.y, s.osr, s.isr, s.in, s.out)
  /\ i = I("in x, 1") =>
       Turned(u, n, s.x, s.y, s.osr, 2 * s.isr + (s.x % 2), s.in, s.out)
  /\ i = I("in null, 1") => Turned(u, n, s.x, s.y, s.osr, 2 * s.isr, s.in, s.out)
  /\ i = I("push") /\ s.out = << >> =>
       Turned(u, n, s.x, s.y, s.osr, 0, s.in, << s.isr >>)
  /\ i = I("wait irq") /\ irq => Turned(u, n, s.x, s.y, s.osr, s.isr, s.in, s.out)
  /\ i = I("wait irq") /\ ~irq => u = s
  /\ \A v : i = Arg("wait pin", v) =>
       IF v = Pin THEN Turned(u, n, s.x, s.y, s.osr, s.isr, s.in, s.out) ELSE u = s
  /\ \A to \in Nat : i = Jmp("x--", to) =>
       Turned(u, IF s.x # 0 THEN to ELSE n, Decremented(s.x), s.y, s.osr, s.isr, s.in, s.out)
  /\ \A to \in Nat : i = Jmp("y--", to) =>
       Turned(u, IF s.y # 0 THEN to ELSE n, s.x, Decremented(s.y), s.osr, s.isr, s.in, s.out)
  /\ \A to \in Nat : i = Jmp("pin", to) =>
       Turned(u, IF Pin = 1 THEN to ELSE n, s.x, s.y, s.osr, s.isr, s.in, s.out)
  /\ \A to \in Nat : i = Jmp("", to) => Turned(u, to, s.x, s.y, s.osr, s.isr, s.in, s.out)

LEMMA RxInstructionDoes ==
  ASSUME Layout, pc # "off", NEW s, Hearing(s), s.on
  PROVE  RxDoes(s, Fetch(s), IF s.pc = 17 THEN 0 ELSE Q(s) + 1, Stepped(s))
<1> DEFINE i == Fetch(s)
           f == Following(s, i)
           u == Stepped(s)
<1>1. PICK n : n = IF s.pc = 17 THEN 0 ELSE Q(s) + 1
  OBVIOUS
<1>2. /\ s \in Machines /\ s.pc \in offset .. 17 /\ Q(s) \in 0 .. 16 /\ s.pc = offset + Q(s)
      /\ s.in \in Seq(Nat) /\ s.out \in Seq(Nat) /\ s.pc \in Nat
  BY HearingIs, Zenon
<1>3. offset \in {1, 7}
  BY RxPlaces
<1>4. Steps(s, i, f, u)
  BY RxSteps DEF Hearing
<1>5. f = IF i.op = "jmp" /\ Taken(s, i.cond) THEN offset + i.to
          ELSE IF s.pc = 17 THEN offset ELSE s.pc + 1
  BY <1>2, RxFetch
<1>6. ~(i.op = "jmp" /\ Taken(s, i.cond)) => f - offset = n
  <2> SUFFICES ASSUME ~(i.op = "jmp" /\ Taken(s, i.cond)) PROVE f - offset = n
    OBVIOUS
  <2>1. f = IF s.pc = 17 THEN offset ELSE s.pc + 1
    BY <1>5, Zenon
  <2> HIDE DEF i, f
  <2>2. CASE s.pc = 17
    <3>1. f = offset /\ n = 0
      BY <1>1, <2>1, <2>2, Zenon
    <3> QED BY <1>3, <3>1
  <2>3. CASE s.pc # 17
    <3>1. f = s.pc + 1 /\ n = Q(s) + 1
      BY <1>1, <2>1, <2>3, Zenon
    <3>2. Q(s) \in Nat /\ s.pc = offset + Q(s)
      BY <1>2
    <3> QED BY ONLY <1>3, <3>1, <3>2
  <2> QED BY <2>2, <2>3
<1>7. ASSUME NEW c, NEW to, i = Jmp(c, to)
      PROVE  /\ i.op = "jmp" /\ i.cond = c /\ i.to = to
             /\ Taken(s, c) => f = offset + to
             /\ ~Taken(s, c) => f - offset = n
             /\ ~Stalls(s, i)
  <2>1. Jmp(c, to).op = "jmp" /\ Jmp(c, to).cond = c /\ Jmp(c, to).to = to
    BY DEF Jmp
  <2>2. i.op = "jmp" /\ i.cond = c /\ i.to = to
    BY <1>7, <2>1, Zenon
  <2> HIDE DEF i, f
  <2>3. ~Stalls(s, i)
    BY <2>2 DEF Stalls
  <2> QED BY <1>5, <1>6, <2>2, <2>3, Zenon
<1>8. ASSUME NEW q, NEW x, NEW y, NEW osr, NEW isr, NEW in, NEW out, f - offset = q,
             u = MachineOf(s.on, f, x, y, osr, isr, in, out)
      PROVE  Turned(u, q, x, y, osr, isr, in, out)
  <2>1. /\ u.pc = f /\ u.x = x /\ u.y = y /\ u.osr = osr /\ u.isr = isr
        /\ u.in = in /\ u.out = out
    <3> DEFINE on == s.on
    <3>1. u = MachineOf(on, f, x, y, osr, isr, in, out)
      BY <1>8
    <3> HIDE DEF u, f, on
    <3> QED BY <3>1, FieldsOf
  <2> HIDE DEF u, f
  <2> QED BY <1>8, <2>1, Zenon DEF Turned, Q
<1>9. ASSUME NEW o, i = I(o), o \notin {"jmp", "pull", "push", "wait irq", "wait pin"}
      PROVE  ~Stalls(s, i) /\ f - offset = n
  <2>0. I(o).op = o
    BY DEF I
  <2>1. i.op = o
    BY <1>9, <2>0, Zenon
  <2> HIDE DEF i, f
  <2>2. ~Stalls(s, i)
    BY <1>9, <2>1 DEF Stalls
  <2>3. i.op # "jmp"
    BY <1>9, <2>1
  <2> QED BY <1>6, <2>2, <2>3
<1> HIDE DEF i, f, u
<1>10. ASSUME i = I("pull")
       PROVE  /\ s.in # << >> => Turned(u, n, s.x, s.y, Head(s.in), s.isr, Tail(s.in), s.out)
              /\ s.in = << >> => u = s
  <2>1. i.op = "pull"
    BY <1>10 DEF I
  <2>2. f - offset = n
    BY <1>6, <2>1
  <2>3. s.in = << >> => Stalls(s, i)
    BY <2>1 DEF Stalls
  <2>4. s.in # << >> => ~Stalls(s, i)
    BY <2>1 DEF Stalls
  <2>5. s.in # << >> => Turned(u, n, s.x, s.y, Head(s.in), s.isr, Tail(s.in), s.out)
    BY <1>4, <1>8, <1>10, <2>2, <2>4, Zenon DEF Steps
  <2>6. s.in = << >> => u = s
    BY <1>4, <2>3, Zenon DEF Steps
  <2> QED BY <2>5, <2>6
<1>11. i = I("mov y, osr") => Turned(u, n, s.x, s.osr, s.osr, s.isr, s.in, s.out)
  <2>1. "mov y, osr" \notin {"jmp", "pull", "push", "wait irq", "wait pin"}
    OBVIOUS
  <2> QED BY <1>4, <1>8, <1>9, <2>1, Zenon DEF Steps
<1>12. i = I("mov x, osr") => Turned(u, n, s.osr, s.y, s.osr, s.isr, s.in, s.out)
  <2>1. "mov x, osr" \notin {"jmp", "pull", "push", "wait irq", "wait pin"}
    OBVIOUS
  <2> QED BY <1>4, <1>8, <1>9, <2>1, Zenon DEF Steps
<1>13. i = I("mov isr, x") => Turned(u, n, s.x, s.y, s.osr, s.x, s.in, s.out)
  <2>1. "mov isr, x" \notin {"jmp", "pull", "push", "wait irq", "wait pin"}
    OBVIOUS
  <2> QED BY <1>4, <1>8, <1>9, <2>1, Zenon DEF Steps
<1>14. i = I("mov isr, null") => Turned(u, n, s.x, s.y, s.osr, 0, s.in, s.out)
  <2>1. "mov isr, null" \notin {"jmp", "pull", "push", "wait irq", "wait pin"}
    OBVIOUS
  <2> QED BY <1>4, <1>8, <1>9, <2>1, Zenon DEF Steps
<1>15. i = I("in x, 1") => Turned(u, n, s.x, s.y, s.osr, 2 * s.isr + (s.x % 2), s.in, s.out)
  <2>1. "in x, 1" \notin {"jmp", "pull", "push", "wait irq", "wait pin"}
    OBVIOUS
  <2> QED BY <1>4, <1>8, <1>9, <2>1, Zenon DEF Steps
<1>16. i = I("in null, 1") => Turned(u, n, s.x, s.y, s.osr, 2 * s.isr, s.in, s.out)
  <2>1. "in null, 1" \notin {"jmp", "pull", "push", "wait irq", "wait pin"}
    OBVIOUS
  <2> QED BY <1>4, <1>8, <1>9, <2>1, Zenon DEF Steps
<1>17. i = Arg("set x", 1) => Turned(u, n, 1, s.y, s.osr, s.isr, s.in, s.out)
  <2> SUFFICES ASSUME i = Arg("set x", 1)
               PROVE  Turned(u, n, 1, s.y, s.osr, s.isr, s.in, s.out)
    OBVIOUS
  <2>1. i.op = "set x"
    BY DEF Arg
  <2>2. ~Stalls(s, i)
    BY <2>1 DEF Stalls
  <2>3. f - offset = n
    BY <1>6, <2>1
  <2> QED BY <1>4, <1>8, <2>2, <2>3, Zenon DEF Steps
<1>18. i = I("push") /\ s.out = << >> => Turned(u, n, s.x, s.y, s.osr, 0, s.in, << s.isr >>)
  <2> SUFFICES ASSUME i = I("push"), s.out = << >>
               PROVE  Turned(u, n, s.x, s.y, s.osr, 0, s.in, << s.isr >>)
    OBVIOUS
  <2>1. i.op = "push"
    BY DEF I
  <2>2. Len(s.out) # 4 /\ Append(s.out, s.isr) = << s.isr >>
    OBVIOUS
  <2>3. ~Stalls(s, i)
    BY <2>1, <2>2 DEF Stalls
  <2>4. f - offset = n
    BY <1>6, <2>1
  <2>5. u = MachineOf(s.on, f, s.x, s.y, s.osr, 0, s.in, Append(s.out, s.isr))
    BY <1>4, <2>3, Zenon DEF Steps
  <2>6. u = MachineOf(s.on, f, s.x, s.y, s.osr, 0, s.in, << s.isr >>)
    BY <2>2, <2>5, Zenon
  <2> QED BY <1>8, <2>4, <2>6, Zenon
<1>19. ASSUME i = I("wait irq")
       PROVE  /\ irq => Turned(u, n, s.x, s.y, s.osr, s.isr, s.in, s.out)
              /\ ~irq => u = s
  <2>1. i.op = "wait irq"
    BY <1>19 DEF I
  <2>2. Stalls(s, i) <=> ~irq
    BY <2>1 DEF Stalls
  <2>3. f - offset = n
    BY <1>6, <2>1
  <2>4. irq => Turned(u, n, s.x, s.y, s.osr, s.isr, s.in, s.out)
    BY <1>4, <1>8, <1>19, <2>2, <2>3, Zenon DEF Steps
  <2>5. ~irq => u = s
    BY <1>4, <2>2, Zenon DEF Steps
  <2> QED BY <2>4, <2>5
<1>20. ASSUME NEW v, i = Arg("wait pin", v)
       PROVE  IF v = Pin THEN Turned(u, n, s.x, s.y, s.osr, s.isr, s.in, s.out) ELSE u = s
  <2>1. i.op = "wait pin" /\ i.arg = v
    BY <1>20 DEF Arg
  <2>2. Stalls(s, i) <=> v # Pin
    BY <2>1 DEF Stalls
  <2>3. f - offset = n
    BY <1>6, <2>1
  <2>4. v = Pin => Turned(u, n, s.x, s.y, s.osr, s.isr, s.in, s.out)
    BY <1>4, <1>8, <1>20, <2>2, <2>3, Zenon DEF Steps
  <2>5. v # Pin => u = s
    BY <1>4, <2>2, Zenon DEF Steps
  <2> QED BY <2>4, <2>5
<1>21. /\ Taken(s, "x--") <=> s.x # 0
       /\ Taken(s, "y--") <=> s.y # 0
       /\ Taken(s, "pin") <=> Pin = 1
       /\ Taken(s, "")
  BY DEF Taken
<1>22. offset \in Nat /\ \A to \in Nat : offset + to - offset = to
  BY <1>3
<1>23. ASSUME NEW to \in Nat, i = Jmp("x--", to)
       PROVE  Turned(u, IF s.x # 0 THEN to ELSE n, Decremented(s.x), s.y, s.osr, s.isr, s.in, s.out)
  <2>1. u = MachineOf(s.on, f, Decremented(s.x), s.y, s.osr, s.isr, s.in, s.out)
    BY <1>4, <1>7, <1>23, Zenon DEF Steps
  <2>2. /\ Taken(s, "x--") => f = offset + to
        /\ ~Taken(s, "x--") => f - offset = n
    BY <1>7, <1>23, Zenon
  <2>3. Taken(s, "x--") => f - offset = to
    BY <1>3, <2>2
  <2>4. f - offset = IF s.x # 0 THEN to ELSE n
    BY <1>21, <2>2, <2>3, Zenon
  <2> QED BY <1>8, <2>1, <2>4, Zenon
<1>24. ASSUME NEW to \in Nat, i = Jmp("y--", to)
       PROVE  Turned(u, IF s.y # 0 THEN to ELSE n, s.x, Decremented(s.y), s.osr, s.isr, s.in, s.out)
  <2>1. u = MachineOf(s.on, f, s.x, Decremented(s.y), s.osr, s.isr, s.in, s.out)
    BY <1>4, <1>7, <1>24, Zenon DEF Steps
  <2>2. /\ Taken(s, "y--") => f = offset + to
        /\ ~Taken(s, "y--") => f - offset = n
    BY <1>7, <1>24, Zenon
  <2>3. Taken(s, "y--") => f - offset = to
    BY <1>3, <2>2
  <2>4. f - offset = IF s.y # 0 THEN to ELSE n
    BY <1>21, <2>2, <2>3, Zenon
  <2> QED BY <1>8, <2>1, <2>4, Zenon
<1>25. ASSUME NEW to \in Nat, i = Jmp("pin", to)
       PROVE  Turned(u, IF Pin = 1 THEN to ELSE n, s.x, s.y, s.osr, s.isr, s.in, s.out)
  <2>1. u = MachineOf(s.on, f, s.x, s.y, s.osr, s.isr, s.in, s.out)
    BY <1>4, <1>7, <1>25, Zenon DEF Steps
  <2>2. /\ Taken(s, "pin") => f = offset + to
        /\ ~Taken(s, "pin") => f - offset = n
    BY <1>7, <1>25, Zenon
  <2>3. Taken(s, "pin") => f - offset = to
    BY <1>3, <2>2
  <2>4. f - offset = IF Pin = 1 THEN to ELSE n
    BY <1>21, <2>2, <2>3, Zenon
  <2> QED BY <1>8, <2>1, <2>4, Zenon
<1>26. ASSUME NEW to \in Nat, i = Jmp("", to)
       PROVE  Turned(u, to, s.x, s.y, s.osr, s.isr, s.in, s.out)
  <2>1. u = MachineOf(s.on, f, s.x, s.y, s.osr, s.isr, s.in, s.out)
    BY <1>4, <1>7, <1>26, Zenon DEF Steps
  <2>2. /\ Taken(s, "") => f = offset + to
        /\ ~Taken(s, "") => f - offset = n
    BY <1>7, <1>26, Zenon
  <2>3. Taken(s, "") => f - offset = to
    <3> SUFFICES ASSUME Taken(s, "") PROVE f - offset = to
      OBVIOUS
    <3>1. f = offset + to
      BY <2>2
    <3> QED BY ONLY <1>3, <3>1, to \in Nat
  <2>4. f - offset = to
    BY <1>21, <2>2, <2>3, Zenon
  <2> QED BY <1>8, <2>1, <2>4, Zenon
<1>27. RxDoes(s, i, n, u)
  BY <1>10, <1>11, <1>12, <1>13, <1>14, <1>15, <1>16, <1>17, <1>18, <1>19, <1>20, <1>21, <1>22,
     <1>23, <1>24, <1>25, <1>26, Zenon
     DEF RxDoes
<1> QED BY <1>1, <1>27, Zenon DEF i, u

\* From the interrupt to the word it answers with, the width program.
WidthDoes(s, u) ==
  /\ Q(s) # 9 => u.out = << >> /\ Q(u) # 3
  /\ Q(s) # 9 => WidthMoves(Pin = 0, Q(s), s.x, s.osr, s.isr, Q(u), u.x, u.osr, u.isr)
  /\ Q(s) = 9 => u.out = << s.isr >>

LEMMA WidthSteps ==
  ASSUME Layout, pc # "off", NEW s, Hearing(s), s.on, mode = "width", s.out = << >>,
         Q(s) \in 3 .. 9, Q(s) = 3 => irq, NEW u, u = Stepped(s)
  PROVE  WidthDoes(s, u)
<1>1. /\ s \in Machines /\ Q(s) \in 3 .. 9 /\ s.pc = offset + Q(s) /\ s.pc \in offset .. 17
  BY HearingIs, Zenon
<1>2. Pin \in {0, 1}
  BY DEF Pin
<1>3. RxDoes(s, Fetch(s), IF s.pc = 17 THEN 0 ELSE Q(s) + 1, u)
  BY RxInstructionDoes, Zenon
<1>4. offset = 7
  BY RxPlaces
<1>5. PICK n : n = IF s.pc = 17 THEN 0 ELSE Q(s) + 1
  OBVIOUS
<1>6. RxDoes(s, Fetch(s), n, u)
  BY <1>3, <1>5, Zenon
<1>7. Q(s) # 10 => n = Q(s) + 1
  <2> SUFFICES ASSUME Q(s) # 10 PROVE n = Q(s) + 1
    OBVIOUS
  <2>1. s.pc # 17
    BY ONLY <1>1, <1>4, Q(s) # 10
  <2> QED BY <1>5, <2>1, Zenon
<1>8. CASE Q(s) = 3
  <2>1. Fetch(s) = I("wait irq")
    BY <1>1, <1>8, RxInstruction
  <2>3. n = 4
    BY <1>7, <1>8
  <2>2. Turned(u, 4, s.x, s.y, s.osr, s.isr, s.in, s.out)
    BY <1>6, <2>1, <2>3, <1>8, Zenon DEF RxDoes
  <2> QED BY <1>2, <1>8, <2>2 DEF Turned, WidthDoes, WidthMoves
<1>9. CASE Q(s) = 4
  <2>1. Fetch(s) = I("mov x, osr")
    BY <1>1, <1>9, RxInstruction
  <2>3. n = 5
    BY <1>7, <1>9
  <2>2. Turned(u, 5, s.osr, s.y, s.osr, s.isr, s.in, s.out)
    BY <1>6, <2>1, <2>3, Zenon DEF RxDoes
  <2> QED BY <1>2, <1>9, <2>2 DEF Turned, WidthDoes, WidthMoves
<1>10. CASE Q(s) = 5
  <2>1. Fetch(s) = Arg("wait pin", 0)
    BY <1>1, <1>10, RxInstruction
  <2>2. IF 0 = Pin THEN Turned(u, n, s.x, s.y, s.osr, s.isr, s.in, s.out) ELSE u = s
    BY <1>6, <2>1, Zenon DEF RxDoes
  <2>5. n = 6
    BY <1>7, <1>10
  <2>3. Pin = 0 => Turned(u, 6, s.x, s.y, s.osr, s.isr, s.in, s.out)
    BY <2>2, <2>5, Zenon
  <2>4. Pin # 0 => u = s
    BY <2>2, Zenon
  <2> QED BY <1>2, <1>10, <2>3, <2>4 DEF Turned, WidthDoes, WidthMoves
<1>11. CASE Q(s) = 6
  <2>1. Fetch(s) = Jmp("pin", 8)
    BY <1>1, <1>11, RxInstruction
  <2>2. 8 \in Nat /\ n = 7
    BY <1>7, <1>11
  <2>3. Turned(u, IF Pin = 1 THEN 8 ELSE n, s.x, s.y, s.osr, s.isr, s.in, s.out)
    BY <1>6, <2>1, <2>2, Zenon DEF RxDoes
  <2>4. Pin = 1 => Turned(u, 8, s.x, s.y, s.osr, s.isr, s.in, s.out)
    BY <2>3, Zenon
  <2>5. ~(Pin = 1) => Turned(u, 7, s.x, s.y, s.osr, s.isr, s.in, s.out)
    BY <2>2, <2>3, Zenon
  <2> QED BY <1>2, <1>11, <2>4, <2>5 DEF Turned, WidthDoes, WidthMoves
<1>12. CASE Q(s) = 7
  <2>1. Fetch(s) = Jmp("x--", 6)
    BY <1>1, <1>12, RxInstruction
  <2>2. 6 \in Nat /\ n = 8
    BY <1>7, <1>12
  <2>3. Turned(u, IF s.x # 0 THEN 6 ELSE n, Decremented(s.x), s.y, s.osr, s.isr, s.in, s.out)
    BY <1>6, <2>1, <2>2, Zenon DEF RxDoes
  <2>4. s.x # 0 => Turned(u, 6, Decremented(s.x), s.y, s.osr, s.isr, s.in, s.out)
    BY <2>3, Zenon
  <2>5. ~(s.x # 0) => Turned(u, 8, Decremented(s.x), s.y, s.osr, s.isr, s.in, s.out)
    BY <2>2, <2>3, Zenon
  <2> QED BY <1>2, <1>12, <2>4, <2>5 DEF Turned, WidthDoes, WidthMoves
<1>13. CASE Q(s) = 8
  <2>1. Fetch(s) = I("mov isr, x")
    BY <1>1, <1>13, RxInstruction
  <2>3. n = 9
    BY <1>7, <1>13
  <2>2. Turned(u, 9, s.x, s.y, s.osr, s.x, s.in, s.out)
    BY <1>6, <2>1, <2>3, Zenon DEF RxDoes
  <2> QED BY <1>2, <1>13, <2>2 DEF Turned, WidthDoes, WidthMoves
<1>14. CASE Q(s) = 9
  <2>1. Fetch(s) = I("push")
    BY <1>1, <1>14, RxInstruction
  <2>2. Turned(u, n, s.x, s.y, s.osr, 0, s.in, << s.isr >>)
    BY <1>6, <2>1, Zenon DEF RxDoes
  <2> QED BY <1>2, <1>14, <2>2 DEF Turned, WidthDoes, WidthMoves
<1>15. Q(s) \in {3, 4, 5, 6, 7, 8, 9}
  BY <1>1
<1> QED BY <1>8, <1>9, <1>10, <1>11, <1>12, <1>13, <1>14, <1>15

\* The same of the decoding program.
DecodeDoes(s, u) ==
  /\ Q(s) # 16 => u.out = << >> /\ Q(u) # 3
  /\ Q(s) # 16 =>
       DecodeMoves(Pin = 0, Q(s), s.x, s.y, s.osr, s.isr, Q(u), u.x, u.y, u.osr, u.isr)
  /\ Q(s) = 16 => u.out = << s.isr >>

LEMMA DecodeSteps ==
  ASSUME Layout, pc # "off", NEW s, Hearing(s), s.on, mode = "decode", s.out = << >>,
         Q(s) \in 3 .. 16, Q(s) = 3 => irq, NEW u, u = Stepped(s)
  PROVE  DecodeDoes(s, u)
<1>1. /\ s \in Machines /\ Q(s) \in 3 .. 16 /\ s.pc = offset + Q(s) /\ s.pc \in offset .. 17
  BY HearingIs, Zenon
<1>2. Pin \in {0, 1}
  BY DEF Pin
<1>3. RxDoes(s, Fetch(s), IF s.pc = 17 THEN 0 ELSE Q(s) + 1, u)
  BY RxInstructionDoes, Zenon
<1>4. offset = 1
  BY RxPlaces
<1>5. PICK n : n = IF s.pc = 17 THEN 0 ELSE Q(s) + 1
  OBVIOUS
<1>6. RxDoes(s, Fetch(s), n, u)
  BY <1>3, <1>5, Zenon
<1>7. Q(s) # 16 => n = Q(s) + 1
  <2> SUFFICES ASSUME Q(s) # 16 PROVE n = Q(s) + 1
    OBVIOUS
  <2>1. s.pc # 17
    BY ONLY <1>1, <1>4, Q(s) # 16
  <2> QED BY <1>5, <2>1, Zenon
<1>8. CASE Q(s) = 3
  <2>1. Fetch(s) = I("wait irq")
    BY <1>1, <1>8, RxInstruction
  <2>3. n = 4
    BY <1>7, <1>8
  <2>2. Turned(u, 4, s.x, s.y, s.osr, s.isr, s.in, s.out)
    BY <1>6, <2>1, <2>3, <1>8, Zenon DEF RxDoes
  <2> QED BY <1>2, <1>8, <2>2 DEF Turned, DecodeDoes, DecodeMoves
<1>9. CASE Q(s) = 4
  <2>1. Fetch(s) = I("mov isr, null")
    BY <1>1, <1>9, RxInstruction
  <2>3. n = 5
    BY <1>7, <1>9
  <2>2. Turned(u, 5, s.x, s.y, s.osr, 0, s.in, s.out)
    BY <1>6, <2>1, <2>3, Zenon DEF RxDoes
  <2> QED BY <1>2, <1>9, <2>2 DEF Turned, DecodeDoes, DecodeMoves
<1>10. CASE Q(s) = 5
  <2>1. Fetch(s) = I("mov x, osr")
    BY <1>1, <1>10, RxInstruction
  <2>3. n = 6
    BY <1>7, <1>10
  <2>2. Turned(u, 6, s.osr, s.y, s.osr, s.isr, s.in, s.out)
    BY <1>6, <2>1, <2>3, Zenon DEF RxDoes
  <2> QED BY <1>2, <1>10, <2>2 DEF Turned, DecodeDoes, DecodeMoves
<1>11. CASE Q(s) = 6
  <2>1. Fetch(s) = Arg("wait pin", 0)
    BY <1>1, <1>11, RxInstruction
  <2>2. IF 0 = Pin THEN Turned(u, n, s.x, s.y, s.osr, s.isr, s.in, s.out) ELSE u = s
    BY <1>6, <2>1, Zenon DEF RxDoes
  <2>5. n = 7
    BY <1>7, <1>11
  <2>3. Pin = 0 => Turned(u, 7, s.x, s.y, s.osr, s.isr, s.in, s.out)
    BY <2>2, <2>5, Zenon
  <2>4. Pin # 0 => u = s
    BY <2>2, Zenon
  <2> QED BY <1>2, <1>11, <2>3, <2>4 DEF Turned, DecodeDoes, DecodeMoves
<1>12. CASE Q(s) = 7
  <2>1. Fetch(s) = Jmp("pin", 12)
    BY <1>1, <1>12, RxInstruction
  <2>2. 12 \in Nat /\ n = 8
    BY <1>7, <1>12
  <2>3. Turned(u, IF Pin = 1 THEN 12 ELSE n, s.x, s.y, s.osr, s.isr, s.in, s.out)
    BY <1>6, <2>1, <2>2, Zenon DEF RxDoes
  <2>4. Pin = 1 => Turned(u, 12, s.x, s.y, s.osr, s.isr, s.in, s.out)
    BY <2>3, Zenon
  <2>5. ~(Pin = 1) => Turned(u, 8, s.x, s.y, s.osr, s.isr, s.in, s.out)
    BY <2>2, <2>3, Zenon
  <2> QED BY <1>2, <1>12, <2>4, <2>5 DEF Turned, DecodeDoes, DecodeMoves
<1>13. CASE Q(s) = 8
  <2>1. Fetch(s) = Jmp("x--", 7)
    BY <1>1, <1>13, RxInstruction
  <2>2. 7 \in Nat /\ n = 9
    BY <1>7, <1>13
  <2>3. Turned(u, IF s.x # 0 THEN 7 ELSE n, Decremented(s.x), s.y, s.osr, s.isr, s.in, s.out)
    BY <1>6, <2>1, <2>2, Zenon DEF RxDoes
  <2>4. s.x # 0 => Turned(u, 7, Decremented(s.x), s.y, s.osr, s.isr, s.in, s.out)
    BY <2>3, Zenon
  <2>5. ~(s.x # 0) => Turned(u, 9, Decremented(s.x), s.y, s.osr, s.isr, s.in, s.out)
    BY <2>2, <2>3, Zenon
  <2> QED BY <1>2, <1>13, <2>4, <2>5 DEF Turned, DecodeDoes, DecodeMoves
<1>14. CASE Q(s) = 9
  <2>1. Fetch(s) = Arg("wait pin", 1)
    BY <1>1, <1>14, RxInstruction
  <2>2. IF 1 = Pin THEN Turned(u, n, s.x, s.y, s.osr, s.isr, s.in, s.out) ELSE u = s
    BY <1>6, <2>1, Zenon DEF RxDoes
  <2>5. n = 10
    BY <1>7, <1>14
  <2>3. Pin = 1 => Turned(u, 10, s.x, s.y, s.osr, s.isr, s.in, s.out)
    BY <2>2, <2>5, Zenon
  <2>4. Pin # 1 => u = s
    BY <2>2, Zenon
  <2> QED BY <1>2, <1>14, <2>3, <2>4 DEF Turned, DecodeDoes, DecodeMoves
<1>15. CASE Q(s) = 10
  <2>1. Fetch(s) = I("in null, 1")
    BY <1>1, <1>15, RxInstruction
  <2>3. n = 11
    BY <1>7, <1>15
  <2>2. Turned(u, 11, s.x, s.y, s.osr, 2 * s.isr, s.in, s.out)
    BY <1>6, <2>1, <2>3, Zenon DEF RxDoes
  <2> QED BY <1>2, <1>15, <2>2 DEF Turned, DecodeDoes, DecodeMoves
<1>16. CASE Q(s) = 11
  <2>1. Fetch(s) = Jmp("", 15)
    BY <1>1, <1>16, RxInstruction
  <2>2. Turned(u, 15, s.x, s.y, s.osr, s.isr, s.in, s.out)
    BY <1>6, <2>1, Zenon DEF RxDoes
  <2> QED BY <1>2, <1>16, <2>2 DEF Turned, DecodeDoes, DecodeMoves
<1>17. CASE Q(s) = 12
  <2>1. Fetch(s) = Arg("set x", 1)
    BY <1>1, <1>17, RxInstruction
  <2>3. n = 13
    BY <1>7, <1>17
  <2>2. Turned(u, 13, 1, s.y, s.osr, s.isr, s.in, s.out)
    BY <1>6, <2>1, <2>3, Zenon DEF RxDoes
  <2> QED BY <1>2, <1>17, <2>2 DEF Turned, DecodeDoes, DecodeMoves
<1>18. CASE Q(s) = 13
  <2>1. Fetch(s) = Arg("wait pin", 1)
    BY <1>1, <1>18, RxInstruction
  <2>2. IF 1 = Pin THEN Turned(u, n, s.x, s.y, s.osr, s.isr, s.in, s.out) ELSE u = s
    BY <1>6, <2>1, Zenon DEF RxDoes
  <2>5. n = 14
    BY <1>7, <1>18
  <2>3. Pin = 1 => Turned(u, 14, s.x, s.y, s.osr, s.isr, s.in, s.out)
    BY <2>2, <2>5, Zenon
  <2>4. Pin # 1 => u = s
    BY <2>2, Zenon
  <2> QED BY <1>2, <1>18, <2>3, <2>4 DEF Turned, DecodeDoes, DecodeMoves
<1>19. CASE Q(s) = 14
  <2>1. Fetch(s) = I("in x, 1")
    BY <1>1, <1>19, RxInstruction
  <2>3. n = 15
    BY <1>7, <1>19
  <2>2. Turned(u, 15, s.x, s.y, s.osr, 2 * s.isr + (s.x % 2), s.in, s.out)
    BY <1>6, <2>1, <2>3, Zenon DEF RxDoes
  <2> QED BY <1>2, <1>19, <2>2 DEF Turned, DecodeDoes, DecodeMoves
<1>20. CASE Q(s) = 15
  <2>1. Fetch(s) = Jmp("y--", 5)
    BY <1>1, <1>20, RxInstruction
  <2>2. 5 \in Nat /\ n = 16
    BY <1>7, <1>20
  <2>3. Turned(u, IF s.y # 0 THEN 5 ELSE n, s.x, Decremented(s.y), s.osr, s.isr, s.in, s.out)
    BY <1>6, <2>1, <2>2, Zenon DEF RxDoes
  <2>4. s.y # 0 => Turned(u, 5, s.x, Decremented(s.y), s.osr, s.isr, s.in, s.out)
    BY <2>3, Zenon
  <2>5. ~(s.y # 0) => Turned(u, 16, s.x, Decremented(s.y), s.osr, s.isr, s.in, s.out)
    BY <2>2, <2>3, Zenon
  <2> QED BY <1>2, <1>20, <2>4, <2>5 DEF Turned, DecodeDoes, DecodeMoves
<1>21. CASE Q(s) = 16
  <2>1. Fetch(s) = I("push")
    BY <1>1, <1>21, RxInstruction
  <2>2. Turned(u, n, s.x, s.y, s.osr, 0, s.in, << s.isr >>)
    BY <1>6, <2>1, Zenon DEF RxDoes
  <2> QED BY <1>2, <1>21, <2>2 DEF Turned, DecodeDoes, DecodeMoves
<1>22. Q(s) \in {3, 4, 5, 6, 7, 8, 9, 10, 11, 12, 13, 14, 15, 16}
  BY <1>1
<1> QED BY <1>8, <1>9, <1>10, <1>11, <1>12, <1>13, <1>14, <1>15, <1>16, <1>17, <1>18, <1>19,
           <1>20, <1>21, <1>22


\* Before the interrupt the machine takes the two words it is armed with.
Primed(e, s) ==
  /\ Q(s) \in 0 .. 3 /\ s.out = << >>
  /\ Q(s) = 0 => s.in = << e.bits - 1, e.limit >>
  /\ Q(s) = 1 => s.osr = e.bits - 1
  /\ Q(s) \in {1, 2} => s.in = << e.limit >>
  /\ Q(s) \in {2, 3} => s.y = e.bits - 1
  /\ Q(s) = 3 => s.osr = e.limit

LEMMA PrimedSteps ==
  ASSUME Layout, pc # "off", NEW s, Hearing(s), s.on, ~irq, NEW e, Primed(e, s),
         NEW u, u = Stepped(s)
  PROVE  /\ Primed(e, u)
         /\ Q(s) = 3 => Q(u) = 3
         /\ Q(s) \in 0 .. 2 => Q(u) = Q(s) + 1
<1>1. s \in Machines /\ Q(s) \in 0 .. 3 /\ s.pc = offset + Q(s) /\ s.pc \in offset .. 17
  BY HearingIs DEF Primed
<1>2. offset \in {1, 7} /\ mode \in {"width", "decode"}
  BY RxPlaces DEF Layout
<1>3. PICK n : n = IF s.pc = 17 THEN 0 ELSE Q(s) + 1
  OBVIOUS
<1>4. RxDoes(s, Fetch(s), n, u)
  BY <1>3, RxInstructionDoes, Zenon
<1>5. n = Q(s) + 1
  <2>1. s.pc # 17
    BY <1>1, <1>2
  <2> QED BY <1>3, <2>1, Zenon
<1> DEFINE b == e.bits - 1
           l == e.limit
<1>6. CASE Q(s) = 0
  <2>1. Fetch(s) = I("pull")
    BY <1>1, <1>2, <1>6, RxInstruction
  <2>2. s.in = << b, l >>
    BY <1>6 DEF Primed
  <2> HIDE DEF b, l
  <2>3. s.in # << >> /\ Head(s.in) = b /\ Tail(s.in) = << l >>
    BY <2>2
  <2>4. n = 1
    BY <1>5, <1>6
  <2>5. Turned(u, 1, s.x, s.y, b, s.isr, << l >>, s.out)
    BY <1>4, <2>1, <2>3, <2>4, Zenon DEF RxDoes
  <2> USE DEF b, l
  <2> QED BY <1>6, <2>5 DEF Turned, Primed
<1>7. CASE Q(s) = 1
  <2>1. Fetch(s) = I("mov y, osr")
    BY <1>1, <1>2, <1>7, RxInstruction
  <2>4. n = 2
    BY <1>5, <1>7
  <2>5. Turned(u, 2, s.x, s.osr, s.osr, s.isr, s.in, s.out)
    BY <1>4, <2>1, <2>4, Zenon DEF RxDoes
  <2> QED BY <1>7, <2>5 DEF Turned, Primed
<1>8. CASE Q(s) = 2
  <2>1. Fetch(s) = I("pull")
    BY <1>1, <1>2, <1>8, RxInstruction
  <2>2. s.in = << l >>
    BY <1>8 DEF Primed
  <2> HIDE DEF b, l
  <2>3. s.in # << >> /\ Head(s.in) = l /\ Tail(s.in) = << >>
    BY <2>2
  <2>4. n = 3
    BY <1>5, <1>8
  <2>5. Turned(u, 3, s.x, s.y, l, s.isr, << >>, s.out)
    BY <1>4, <2>1, <2>3, <2>4, Zenon DEF RxDoes
  <2> USE DEF b, l
  <2> QED BY <1>8, <2>5 DEF Turned, Primed
<1>9. CASE Q(s) = 3
  <2>1. Fetch(s) = I("wait irq")
    BY <1>1, <1>2, <1>9, RxInstruction
  <2>2. u = s
    BY <1>4, <2>1, Zenon DEF RxDoes
  <2> QED BY <1>9, <2>2
<1> QED BY <1>1, <1>6, <1>7, <1>8, <1>9

\* When the interrupt comes the machine is at the beginning of its measure.
LEMMA PrimedReads ==
  ASSUME NEW s, NEW e, Primed(e, s), Q(s) = 3, e \in Exchanges,
         NEW n, NEW h, NEW r, NEW rs, NEW g, Before(e, n, h, r, rs, 1, 8)
  PROVE  /\ Width(e, Q(s), s.x, s.osr, s.isr, n, h, r, rs, g)
         /\ Reading(e, Q(s), s.x, s.y, s.osr, s.isr, n, h, r, rs, g)
<1>1. s.osr = e.limit /\ s.y = e.bits - 1
  BY DEF Primed
<1>2. e.bits \in Nat \ {0}
  BY AnswerIs
<1>3. Width(e, Q(s), s.x, s.osr, s.isr, n, h, r, rs, g)
  BY <1>1 DEF Width
<1>4. s.y \in Nat /\ s.y + 1 = e.bits /\ 1 \in 1 .. e.bits
  BY <1>1, <1>2
<1>5. Decode(e, Q(s), s.x, s.y, s.osr, s.isr, n, h, r, rs, g, 1)
  BY <1>1, <1>4 DEF Decode
<1> QED BY <1>3, <1>5 DEF Reading

\* A word in the FIFO stays there.
LEMMA OutStays ==
  ASSUME Layout, pc # "off", NEW s, Hearing(s), s.out # << >>, NEW u, u = Stepped(s)
  PROVE  u.out = s.out
<1>1. CASE ~s.on
  BY <1>1, Zenon DEF Stepped
<1>2. CASE s.on
  <2>1. s.pc \in offset .. 17 /\ mode \in {"width", "decode"}
    BY HearingIs DEF Layout
  <2>2. PICK n : RxDoes(s, Fetch(s), n, u)
    BY <1>2, RxInstructionDoes, Zenon
  <2>3. s.in = << >> /\ (Q(s) = 0 \/ (mode = "width" /\ Q(s) = 10))
    BY DEF Hearing
  <2>4. CASE Q(s) = 0
    <3>1. Fetch(s) = I("pull")
      BY <2>1, <2>4, RxInstruction
    <3> QED BY <2>2, <2>3, <3>1, Zenon DEF RxDoes
  <2>5. CASE mode = "width" /\ Q(s) = 10
    <3>1. Fetch(s) = Jmp("y--", 4)
      BY <2>1, <2>5, RxInstruction
    <3>2. 4 \in Nat
      OBVIOUS
    <3>3. \E f : Turned(u, f, s.x, Decremented(s.y), s.osr, s.isr, s.in, s.out)
      BY <2>2, <3>1, <3>2, Zenon DEF RxDoes
    <3> QED BY <3>3, Zenon DEF Turned
  <2> QED BY <2>3, <2>4, <2>5
<1> QED BY <1>1, <1>2
-----------------------------------------------------------------------------
\* What the target has still to send of the answer, as a tape.
Gone(e, a) == Len(e.answer) - Len(a)
Rest(a) == IF a = << >> THEN 0 ELSE a[1]
Told(e, a) ==
  /\ a \in Seq(Nat) /\ Len(a) <= Len(e.answer)
  /\ a # << >> => a[1] > 0 /\ a[1] <= e.answer[Gone(e, a) + 1]
  /\ \A j \in 2 .. Len(a) : a[j] = e.answer[Gone(e, a) + j]

LEMMA ToldTape ==
  ASSUME NEW e \in Exchanges, NEW a, Told(e, a), NEW r \in Nat, NEW rs \in Rises
  PROVE  Tape(e, Gone(e, a), Rest(a), r, rs)
<1> DEFINE n == Gone(e, a)
           h == Rest(a)
           l == Len(a)
           c == Len(e.answer)
<1>1. a \in Seq(Nat) /\ l \in Nat /\ c \in Nat /\ l <= c /\ n = c - l
  BY AnswerIs DEF Told, Gone
<1>2. a # << >> <=> l > 0
  BY <1>1
<1>3. a = << >> => h = 0
  BY Zenon DEF Rest
<1>4. a # << >> => h = a[1] /\ h > 0 /\ h <= e.answer[n + 1] /\ h \in Nat
  <2> SUFFICES ASSUME a # << >> PROVE h = a[1] /\ h > 0 /\ h <= e.answer[n + 1] /\ h \in Nat
    OBVIOUS
  <2>1. h = a[1]
    BY Zenon DEF Rest
  <2>2. a[1] \in Nat /\ a[1] > 0 /\ a[1] <= e.answer[n + 1]
    BY <1>1 DEF Told
  <2> QED BY <2>1, <2>2, Zenon
<1> HIDE DEF n, h, l, c
<1>5. n \in 0 .. c /\ h \in Nat /\ (h = 0 <=> n = c) /\ (n < c => h <= e.answer[n + 1])
  BY <1>1, <1>2, <1>3, <1>4
<1> QED BY <1>5 DEF Tape, n, h, c

LEMMA ToldFresh ==
  ASSUME NEW e \in Exchanges
  PROVE  /\ Told(e, e.answer) /\ Gone(e, e.answer) = 0
         /\ e.answer = << >> => Rest(e.answer) = 0
         /\ e.answer # << >> => Rest(e.answer) = e.answer[1]
<1> DEFINE a == e.answer
<1>1. /\ a \in Seq(Nat) /\ Len(a) \in Nat
      /\ \A i \in 1 .. Len(a) : a[i] \in Nat /\ a[i] > 0
  BY AnswerIs
<1> HIDE DEF a
<1>2. Len(a) - Len(a) = 0
  BY <1>1
<1>3. a # << >> => a[1] > 0 /\ a[1] <= a[0 + 1] /\ a[1] \in Nat
  BY <1>1
<1>4. \A j \in 2 .. Len(a) : a[j] = a[0 + j]
  BY <1>1
<1> USE DEF a
<1>5. Gone(e, a) = 0
  BY <1>2, Zenon DEF Gone
<1> HIDE DEF a
<1>6. Told(e, a)
  BY <1>1, <1>3, <1>4, <1>5 DEF a, Told
<1>7. (a = << >> => Rest(a) = 0) /\ (a # << >> => Rest(a) = a[1])
  BY Zenon DEF Rest
<1> QED BY <1>5, <1>6, <1>7, Zenon DEF a

\* A cycle of the target.
ToldOn(e, a, b) ==
  /\ Told(e, b)
  /\ Rest(a) > 1 => Gone(e, b) = Gone(e, a) /\ Rest(b) = Rest(a) - 1
  /\ Rest(a) = 1 =>
       /\ Gone(e, b) = Gone(e, a) + 1
       /\ Rest(b) = IF Gone(e, b) = Len(e.answer) THEN 0 ELSE e.answer[Gone(e, b) + 1]
  /\ Rest(a) = 0 => Gone(e, b) = Gone(e, a) /\ Rest(b) = 0

LEMMA ToldTurns ==
  ASSUME NEW e \in Exchanges, Told(e, answer), NEW b, b = Sent
  PROVE  /\ ToldOn(e, answer, b)
         /\ answer # << >> <=> Rest(answer) > 0
         /\ answer # << >> /\ b = << >> => Rest(answer) = 1
         /\ b = << >> <=> Gone(e, b) = Len(e.answer)
<1> DEFINE a == answer
           c == e.answer
           n == Gone(e, a)
           l == Len(a)
<1>1. /\ a \in Seq(Nat) /\ l \in Nat /\ l <= Len(c) /\ n = Len(c) - l
      /\ c \in Seq(Nat) /\ Len(c) \in Nat /\ \A i \in 1 .. Len(c) : c[i] \in Nat /\ c[i] > 0
      /\ a # << >> => a[1] > 0 /\ a[1] <= c[n + 1]
      /\ \A j \in 2 .. l : a[j] = c[n + j]
  <2>1. /\ a \in Seq(Nat) /\ l <= Len(c)
        /\ a # << >> => a[1] > 0 /\ a[1] <= c[n + 1]
        /\ \A j \in 2 .. l : a[j] = c[n + j]
    BY Zenon DEF Told
  <2>2. c \in Seq(Nat) /\ Len(c) \in Nat /\ \A i \in 1 .. Len(c) : c[i] \in Nat /\ c[i] > 0
    BY AnswerIs
  <2>3. n = Len(c) - l
    BY Zenon DEF Gone
  <2>4. l \in Nat
    BY <2>1
  <2> QED BY <2>1, <2>2, <2>3, <2>4
<1>2. a # << >> <=> l > 0
  BY <1>1
<1>3. a = << >> => Rest(a) = 0 /\ b = << >>
  BY Zenon DEF Rest, Sent
<1>4. a # << >> => Rest(a) = a[1] /\ Head(a) = a[1] /\ a[1] \in Nat
  BY <1>1 DEF Rest
<1>5. CASE a = << >>
  <2>1. Rest(b) = 0 /\ Gone(e, b) = n /\ Told(e, b) /\ n = Len(c)
    BY <1>3, <1>5, <1>1, <1>2
  <2> QED BY <1>3, <1>5, <2>1 DEF ToldOn
<1>6. CASE a # << >> /\ a[1] = 1
  <2>1. b = Tail(a)
    BY <1>4, <1>6, Zenon DEF Sent
  <2> DEFINE n2 == Gone(e, b)
  <2>2. b \in Seq(Nat) /\ Len(b) = l - 1 /\ (\A j \in 1 .. Len(b) : b[j] = a[j + 1])
        /\ (b = << >> <=> Len(b) = 0)
    <3>1. a \in Seq(Nat) /\ a # << >>
      BY <1>1, <1>6
    <3> HIDE DEF a
    <3>2. /\ Tail(a) \in Seq(Nat) /\ Len(Tail(a)) = Len(a) - 1 /\ Len(Tail(a)) \in Nat
          /\ \A j \in 1 .. Len(a) - 1 : Tail(a)[j] = a[j + 1]
      BY <3>1
    <3>3. \A j \in 1 .. Len(b) : b[j] = a[j + 1]
      BY <2>1, <3>2
    <3>4. b \in Seq(Nat)
      BY <2>1, <3>2, Zenon
    <3>5. b = << >> <=> Len(b) = 0
      BY <3>4
    <3> QED BY <2>1, <3>2, <3>3, <3>4, <3>5
  <2>3. n2 = n + 1 /\ Len(b) <= Len(c)
    <3>1. n2 = Len(c) - Len(b)
      BY Zenon DEF Gone
    <3> HIDE DEF n2
    <3> QED BY <1>1, <1>2, <1>6, <2>2, <3>1
  <2> HIDE DEF n2, n, a, l, c
  <2>4. \A j \in 1 .. Len(b) : b[j] = c[n2 + j]
    <3> SUFFICES ASSUME NEW j \in 1 .. Len(b) PROVE b[j] = c[n2 + j]
      OBVIOUS
    <3> DEFINE k == j + 1
    <3>1. k \in 2 .. l /\ b[j] = a[k] /\ n + k = n2 + j
      BY <1>1, <1>2, <1>6, <2>2, <2>3
    <3> HIDE DEF k
    <3>2. a[k] = c[n + k]
      BY <1>1, <3>1
    <3> QED BY <3>1, <3>2, Zenon
  <2>5. b # << >> => b[1] = c[n2 + 1] /\ b[1] > 0 /\ b[1] <= c[n2 + 1]
    <3> SUFFICES ASSUME b # << >> PROVE b[1] = c[n2 + 1] /\ b[1] > 0 /\ b[1] <= c[n2 + 1]
      OBVIOUS
    <3>1. 1 \in 1 .. Len(b) /\ n2 + 1 \in 1 .. Len(c)
      BY <1>1, <1>2, <1>6, <2>2, <2>3
    <3>2. b[1] = c[n2 + 1]
      BY <2>4, <3>1
    <3>3. c[n2 + 1] \in Nat /\ c[n2 + 1] > 0
      BY <1>1, <3>1
    <3> QED BY <3>2, <3>3
  <2>6. b = << >> <=> n2 = Len(c)
    BY <1>1, <1>2, <1>6, <2>2, <2>3
  <2>7. Told(e, b)
    BY <2>2, <2>4, <2>3, <2>5 DEF Told, n2, c
  <2>8. Rest(b) = IF n2 = Len(c) THEN 0 ELSE c[n2 + 1]
    BY <2>5, <2>6, Zenon DEF Rest
  <2>9. Rest(a) = 1
    BY <1>4, <1>6, Zenon
  <2>10. ToldOn(e, a, b)
    <3>1. ~(Rest(a) > 1) /\ ~(Rest(a) = 0)
      BY <2>9
    <3> QED BY <2>3, <2>7, <2>8, <2>9, <3>1, Zenon DEF ToldOn, n2, n, c
  <2>11. Rest(a) > 0
    BY <2>9
  <2> QED BY <1>6, <2>6, <2>9, <2>10, <2>11, Zenon DEF n2, c, a
<1>7. CASE a # << >> /\ a[1] # 1
  <2>1. b = [a EXCEPT ![1] = a[1] - 1]
    BY <1>4, <1>7, Zenon DEF Sent
  <2>2. 1 \in 1 .. l /\ a[1] \in Nat /\ a[1] > 1 /\ a[1] <= c[n + 1]
    BY <1>1, <1>2, <1>4, <1>7
  <2>3. b \in Seq(Nat) /\ Len(b) = l /\ b[1] = a[1] - 1 /\ \A j \in 2 .. l : b[j] = a[j]
    BY <1>1, <2>1, <2>2
  <2>4. b # << >>
    BY <1>1, <2>2, <2>3
  <2>5. Gone(e, b) = n
    BY <2>3, Zenon DEF Gone
  <2>6. Rest(b) = b[1]
    BY <2>4, Zenon DEF Rest
  <2>7. n + 1 \in 1 .. Len(c) /\ c[n + 1] \in Nat /\ n # Len(c)
    BY <1>1, <2>2
  <2> HIDE DEF n, a, l, c
  <2>8. b[1] > 0 /\ b[1] <= c[n + 1]
    BY <2>2, <2>3, <2>7
  <2>9. Told(e, b)
    BY <1>1, <2>3, <2>5, <2>8 DEF Told, c
  <2>10. Rest(a) > 1 /\ Rest(a) # 1 /\ Rest(a) # 0 /\ Rest(b) = Rest(a) - 1 /\ Rest(a) > 0
    BY <1>4, <1>7, <2>2, <2>3, <2>6
  <2>11. ToldOn(e, a, b)
    BY <2>5, <2>9, <2>10, Zenon DEF ToldOn, n
  <2> QED BY <1>7, <2>4, <2>5, <2>7, <2>10, <2>11, Zenon DEF a, c, n
<1> QED BY <1>5, <1>6, <1>7
-----------------------------------------------------------------------------
\* The receive machine, and the tape it reads.
Reads(e, q, s, n, h, r, rs, g) ==
  /\ e.kind = "decode" => Reading(e, q, s.x, s.y, s.osr, s.isr, n, h, r, rs, g)
  /\ e.kind # "decode" => Width(e, q, s.x, s.osr, s.isr, n, h, r, rs, g)

LEMMA WidthReads ==
  ASSUME Layout, pc # "off", NEW s, Hearing(s), s.on, s.out = << >>, NEW u, u = Stepped(s),
         NEW e, NEW n, NEW h, NEW r, NEW rs, NEW g, NEW n2, NEW h2, NEW r2, NEW g2,
         Turning(e, n, h, r, rs, g, n2, h2, r2, g2), Pin = 0 <=> Down(n, r),
         mode = "width", e.kind # "decode", Q(s) = 3 => irq,
         Width(e, Q(s), s.x, s.osr, s.isr, n, h, r, rs, g)
  PROVE  /\ u.out = << >> =>
              Q(u) # 3 /\ Width(e, Q(u), u.x, u.osr, u.isr, n2, h2, r2, rs, g2)
         /\ u.out # << >> => Said(e, rs, Head(u.out)) /\ Late(e, n2, g2)
<1>1. Q(s) \in 3 .. 9
  BY Zenon DEF Width
<1>2. WidthDoes(s, u)
  BY <1>1, WidthSteps, Zenon
<1>3. CASE Q(s) # 9
  BY <1>2, <1>3, WidthTurns DEF WidthDoes, WidthMoves
<1>4. CASE Q(s) = 9
  <2>1. u.out = << s.isr >>
    BY <1>2, <1>4, Zenon DEF WidthDoes
  <2>2. Width(e, 9, s.x, s.osr, s.isr, n, h, r, rs, g)
    BY <1>4, Zenon
  <2>3. s.isr \in Nat /\ Said(e, rs, s.isr) /\ Late(e, n2, g2)
    BY <2>2, WidthSays, Zenon
  <2> DEFINE w == s.isr
  <2>4. u.out = << w >>
    BY <2>1
  <2> HIDE DEF w
  <2>5. u.out # << >> /\ Head(u.out) = w
    BY <2>4
  <2> QED BY <2>3, <2>5, Zenon DEF w
<1> QED BY <1>3, <1>4

LEMMA DecodeReads ==
  ASSUME Layout, pc # "off", NEW s, Hearing(s), s.on, s.out = << >>, NEW u, u = Stepped(s),
         NEW e, NEW n, NEW h, NEW r, NEW rs, NEW g, NEW n2, NEW h2, NEW r2, NEW g2,
         Turning(e, n, h, r, rs, g, n2, h2, r2, g2), Pin = 0 <=> Down(n, r),
         mode = "decode", e.kind = "decode", Q(s) = 3 => irq,
         Reading(e, Q(s), s.x, s.y, s.osr, s.isr, n, h, r, rs, g)
  PROVE  /\ u.out = << >> =>
              Q(u) # 3 /\ Reading(e, Q(u), u.x, u.y, u.osr, u.isr, n2, h2, r2, rs, g2)
         /\ u.out # << >> => Said(e, rs, Head(u.out)) /\ Late(e, n2, g2)
<1>1. Q(s) \in 3 .. 16
  BY Zenon DEF Reading, Decode
<1>2. DecodeDoes(s, u)
  BY <1>1, DecodeSteps, Zenon
<1>3. CASE Q(s) # 16
  <2>1. u.out = << >> /\ Q(u) # 3
        /\ DecodeMoves(Pin = 0, Q(s), s.x, s.y, s.osr, s.isr, Q(u), u.x, u.y, u.osr, u.isr)
    BY <1>2, <1>3, Zenon DEF DecodeDoes
  <2>2. DecodeMoves(Down(n, r), Q(s), s.x, s.y, s.osr, s.isr, Q(u), u.x, u.y, u.osr, u.isr)
    BY <2>1, Zenon DEF DecodeMoves
  <2>3. Reading(e, Q(u), u.x, u.y, u.osr, u.isr, n2, h2, r2, rs, g2)
    BY <1>3, <2>2, DecodeTurns, Zenon
  <2> QED BY <2>1, <2>3
<1>4. CASE Q(s) = 16
  <2>1. u.out = << s.isr >>
    BY <1>2, <1>4, Zenon DEF DecodeDoes
  <2>2. Reading(e, 16, s.x, s.y, s.osr, s.isr, n, h, r, rs, g)
    BY <1>4, Zenon
  <2>3. s.isr \in Nat /\ Said(e, rs, s.isr) /\ Late(e, n2, g2)
    BY <2>2, ReadingSays, Zenon
  <2> DEFINE w == s.isr
  <2>4. u.out = << w >>
    BY <2>1
  <2> HIDE DEF w
  <2>5. u.out # << >> /\ Head(u.out) = w
    BY <2>4
  <2> QED BY <2>3, <2>5, Zenon DEF w
<1> QED BY <1>3, <1>4

LEMMA RxReads ==
  ASSUME Layout, pc # "off", NEW s, Hearing(s), s.on, s.out = << >>, NEW u, u = Stepped(s),
         NEW n, NEW h, NEW r, NEW rs, NEW g, NEW n2, NEW h2, NEW r2, NEW g2,
         Turning(exchange, n, h, r, rs, g, n2, h2, r2, g2), Pin = 0 <=> Down(n, r),
         mode = Wanted, Q(s) = 3 => irq, Reads(exchange, Q(s), s, n, h, r, rs, g)
  PROVE  /\ u.out = << >> => Q(u) # 3 /\ Reads(exchange, Q(u), u, n2, h2, r2, rs, g2)
         /\ u.out # << >> => Said(exchange, rs, Head(u.out)) /\ Late(exchange, n2, g2)
<1>1. CASE exchange.kind = "decode"
  BY <1>1, DecodeReads, Zenon DEF Wanted, Reads
<1>2. CASE exchange.kind # "decode"
  BY <1>2, WidthReads, Zenon DEF Wanted, Reads
<1> QED BY <1>1, <1>2

\* The line is low when the tape says so.
LEMMA PinIs ==
  ASSUME exchange \in Exchanges, Told(exchange, answer), dir = 0, rising \in Nat
  PROVE  Pin = 0 <=> Down(Gone(exchange, answer), rising)
<1> DEFINE l == Len(answer)
           c == Len(exchange.answer)
           n == Gone(exchange, answer)
<1>1. l \in Nat /\ c \in Nat /\ c % 2 = 0 /\ l <= c /\ n = c - l
  <2>1. c \in Nat /\ c % 2 = 0
    BY AnswerIs
  <2>2. answer \in Seq(Nat) /\ l <= c
    BY Zenon DEF Told
  <2>3. l \in Nat
    BY <2>2
  <2> QED BY <2>1, <2>2, <2>3 DEF Gone
<1>2. Pin = 0 <=> l % 2 = 1 \/ rising > 0
  BY DEF Pin, Driven, Answering
<1> HIDE DEF l, c, n
<1>3. n % 2 = 1 <=> l % 2 = 1
  BY <1>1
<1> QED BY <1>2, <1>3, Zenon DEF Down, n

\* What a cycle of the target and of the clock makes of the tape.
LEMMA CycleTurns ==
  ASSUME Layout, Engines, Cycle, exchange \in Exchanges, ~Raises, dir = 0,
         Told(exchange, answer), spare \in Nat,
         answer # << >> \/ exchange.answer = << >> => spare = 0,
         NEW b, b = Sent, NEW sp, sp = spare', NEW lf, lf = left', NEW r, r = rising'
  PROVE  /\ answer' = b /\ Told(exchange, b) /\ sp \in Nat
         /\ b # << >> \/ exchange.answer = << >> => sp = 0
         /\ Turning(exchange, Gone(exchange, answer), Rest(answer), rising, rise, spare - left,
                    Gone(exchange, b), Rest(b), r, sp - lf)
         /\ answer = << >> => sp = spare
         /\ answer # << >> => sp - lf <= 1
<1>1. /\ answer' = b /\ r = Less(rising)
      /\ answer # << >> /\ b = << >> => sp = left
      /\ ~(answer # << >> /\ b = << >>) => sp = spare
  <2>1. /\ answer' = IF Raises THEN exchange.answer ELSE Sent
        /\ rising' = IF Driven THEN rise ELSE Less(rising)
        /\ spare' = IF answer # << >> /\ Sent = << >> THEN left ELSE spare
    BY Zenon DEF Cycle
  <2>2. ~Driven
    BY DEF Driven
  <2> QED BY <2>1, <2>2, Zenon
<1>2. left \in Nat /\ lf \in Nat /\ lf >= left - 1
  BY CycleNumbers
<1>3. rising \in Nat /\ rise \in Rises
  BY EngineAssumption DEF Engines, Typed
<1>4. /\ ToldOn(exchange, answer, b)
      /\ answer # << >> <=> Rest(answer) > 0
      /\ answer # << >> /\ b = << >> => Rest(answer) = 1
      /\ b = << >> <=> Gone(exchange, b) = Len(exchange.answer)
  BY ToldTurns, Zenon
<1>5. Tape(exchange, Gone(exchange, answer), Rest(answer), rising, rise)
  BY <1>3, ToldTape, Zenon
<1>6. sp \in Nat /\ (b # << >> \/ exchange.answer = << >> => sp = 0)
      /\ (answer = << >> => sp = spare) /\ (answer # << >> => sp - lf <= 1)
  <2>1. answer = << >> => b = << >>
    BY Zenon DEF Sent
  <2>2. exchange.answer = << >> => answer = << >>
    BY DEF Told
  <2>3. CASE answer # << >> /\ b = << >>
    <3>1. sp = left
      BY <1>1, <2>3, Zenon
    <3>2. sp \in Nat /\ sp - lf <= 1
      BY ONLY <1>2, <3>1
    <3> QED BY <2>2, <2>3, <3>2, Zenon
  <2>4. CASE ~(answer # << >> /\ b = << >>)
    <3>1. sp = spare
      BY <1>1, <2>4, Zenon
    <3>2. sp \in Nat
      BY <3>1, Zenon
    <3>3. answer # << >> => sp = 0
      BY <3>1, Zenon
    <3>4. answer # << >> => sp - lf <= 1
      BY ONLY <1>2, <3>3
    <3>5. b # << >> \/ exchange.answer = << >> => sp = 0
      BY <2>1, <3>1, Zenon
    <3> QED BY <3>1, <3>2, <3>4, <3>5, Zenon
  <2> QED BY <2>3, <2>4
<1>7. Turns(exchange, Gone(exchange, answer), Rest(answer), rising, spare - left,
            Gone(exchange, b), Rest(b), r, sp - lf)
  <2> DEFINE n == Gone(exchange, answer)
             h == Rest(answer)
             n2 == Gone(exchange, b)
             h2 == Rest(b)
             g == spare - left
             g2 == sp - lf
  <2>1. /\ h > 1 => n2 = n /\ h2 = h - 1
        /\ h = 1 => /\ n2 = n + 1
                    /\ h2 = IF n2 = Len(exchange.answer) THEN 0 ELSE exchange.answer[n2 + 1]
        /\ h = 0 => n2 = n /\ h2 = 0
    BY <1>4, Zenon DEF ToldOn
  <2>2. g \in Int /\ g2 \in Int
    BY <1>2, <1>6
  <2>3. h = 0 => g2 <= g + 1
    <3>1. h = 0 => answer = << >>
      BY <1>4
    <3>2. answer = << >> => g2 <= g + 1
      <4> SUFFICES ASSUME answer = << >> PROVE g2 <= g + 1
        OBVIOUS
      <4>1. sp = spare /\ sp \in Nat
        BY <1>6
      <4> QED BY ONLY <1>2, <4>1
    <3> QED BY <3>1, <3>2
  <2>4. h = 1 => g2 <= 1
    <3>1. h = 1 => answer # << >>
      BY <1>4
    <3> QED BY <1>6, <3>1
  <2> QED BY <1>1, <2>1, <2>2, <2>3, <2>4, Zenon DEF Turns
<1>8. Told(exchange, b)
  BY <1>4, Zenon DEF ToldOn
<1> QED BY <1>1, <1>5, <1>6, <1>7, <1>8, Zenon DEF Turning
-----------------------------------------------------------------------------
(***************************************************************************)
(* The line, until the target answers.                                     *)
(***************************************************************************)
\* After a frame that ends high the line is high before the interrupt: while it
\* rises, the frame has more than a tick to go.
Falling(e, v, low, r, o) == ~EndsIn(e) /\ low = 0 => r = 0 \/ r + v <= o
Falls ==
  Sending =>
    Falling(exchange, div, dir, rising, Owes(exchange, div, J(tx, K), D(tx), phase))

LEMMA OwesIs ==
  ASSUME NEW e \in Exchanges, NEW v \in Nat \ {0}, NEW ph \in 0 .. v - 1, NEW s \in Machines,
         NEW k, Control(e, s, k)
  PROVE  Owes(e, v, J(s, k), D(s), ph) \in Nat
<1>1. J(s, k) \in 0 .. N(e) /\ D(s) \in Nat
  BY PlaceIs
<1> DEFINE t == Togo(e, v, J(s, k))
           d == D(s)
           a == Ahead(v, ph)
<1>2. t \in Nat
  BY <1>1, TogoIs
<1>3. a \in Nat
  BY AheadIs
<1>4. d * v \in Nat
  <2>1. d \in Nat /\ v \in Nat
    BY <1>1
  <2> HIDE DEF d
  <2> QED BY <2>1
<1>5. t + d * v + a \in Nat
  <2> DEFINE c == d * v
  <2>1. c \in Nat
    BY <1>4
  <2> HIDE DEF t, a, c
  <2>2. t + c + a \in Nat
    BY <1>2, <1>3, <2>1
  <2> QED BY <2>2 DEF c
<1> QED BY <1>5, Zenon DEF Owes

LEMMA FallsCycle ==
  ASSUME Layout, Engines, Cycle, Sending, Falls
  PROVE  Falling(exchange, div, dir', rising', Owes(exchange, div, J(tx', K'), D(tx'), phase'))
<1>1. Played(exchange, div, phase, tx, K, tx', phase', dir', run', played', dma', K')
  BY CycleBeats
<1>2. /\ Playing(exchange, div, tx, phase, dir, run, played, dma, K)
      /\ Control(exchange, tx, K) /\ exchange \in Exchanges /\ tx \in Machines
      /\ P(tx) \in 0 .. 13 /\ div \in Nat \ {0} /\ phase \in 0 .. div - 1
  BY SendingIs, Zenon
<1>3. PICK o \in Nat : o = Owes(exchange, div, J(tx, K), D(tx), phase)
  BY <1>2, OwesIs
<1>4. PICK o2 \in Nat : o2 = Owes(exchange, div, J(tx', K'), D(tx'), phase')
  <2> DEFINE u == tx'
             k == K'
             ph == phase'
  <2>1. Playing(exchange, div, u, ph, dir', run', played', dma', k)
    BY <1>1, Zenon DEF Played
  <2>2. u \in Machines /\ Control(exchange, u, k)
    BY <2>1, Zenon DEF Playing
  <2>3. ph \in 0 .. div - 1
    BY CycleNumbers
  <2> HIDE DEF u, k, ph
  <2>4. Owes(exchange, div, J(u, k), D(u), ph) \in Nat
    BY <1>2, <2>2, <2>3, OwesIs, Zenon
  <2> QED BY <2>4 DEF u, k, ph
<1>5. o2 >= o - 1 /\ (phase = 0 /\ tx.on /\ P(tx) = 8 => o2 >= 9 * div)
  BY <1>1, <1>3, <1>4, Zenon DEF Played
<1>6. Falling(exchange, div, dir, rising, o)
  BY <1>3, Zenon DEF Falls
<1>7. /\ rise \in Rises /\ rise \in Nat /\ rising \in Nat /\ dir \in {0, 1} /\ pad = "pio"
      /\ div = exchange.div
  BY EngineAssumption DEF Engines, Typed, Carrying
<1>8. /\ rising' = IF Driven THEN rise ELSE Less(rising)
      /\ dir' = (IF phase = 0 /\ Executes(tx, "set pindirs") THEN Fetch(tx).arg ELSE dir)
      /\ pc # "off"
  BY Zenon DEF Cycle
<1> SUFFICES ASSUME ~EndsIn(exchange), dir' = 0
             PROVE  rising' = 0 \/ rising' + div <= o2
  BY <1>4, Zenon DEF Falling
<1>9. CASE dir = 0
  <2>1. rising' = Less(rising)
    <3>1. ~Driven
      BY <1>9 DEF Driven
    <3> QED BY <1>8, <3>1, Zenon
  <2>2. rising = 0 \/ rising + div <= o
    BY <1>6, <1>9, Zenon DEF Falling
  <2>3. CASE rising = 0
    BY <1>7, <2>1, <2>3, LessIs
  <2>4. CASE rising # 0
    <3>1. rising' = rising - 1
      BY <1>7, <2>1, <2>4, LessIs
    <3> DEFINE v == div
               r == rising
               r2 == rising'
    <3>2. v \in Nat /\ r \in Nat /\ r + v <= o /\ r2 = r - 1
      BY <1>2, <1>7, <2>2, <2>4, <3>1
    <3> HIDE DEF v, r, r2
    <3>3. r2 + v <= o2
      BY <1>5, <3>2
    <3> QED BY <3>3 DEF v, r2
  <2> QED BY <2>3, <2>4
<1>10. CASE dir = 1
  <2>1. rising' = rise
    <3>1. Driven
      BY <1>7, <1>10 DEF Driven
    <3> QED BY <1>8, <3>1, Zenon
  <2>2. phase = 0 /\ tx.on /\ P(tx) \in {8, 11}
    <3>1. /\ Executes(tx, "set pindirs") <=> tx.on /\ P(tx) \in {5, 8, 11}
          /\ P(tx) \in {5, 8, 11} => Fetch(tx).arg = IF P(tx) = 5 THEN 1 ELSE 0
      BY <1>2, <1>8, TxSignals
    <3>2. phase = 0 /\ Executes(tx, "set pindirs") /\ Fetch(tx).arg = 0
      <4>1. 1 # 0
        OBVIOUS
      <4> QED BY <1>8, <1>10, <4>1, Zenon
    <3>3. tx.on /\ P(tx) \in {5, 8, 11}
      BY <3>1, <3>2, Zenon
    <3>4. P(tx) # 5
      <4> SUFFICES ASSUME P(tx) = 5 PROVE FALSE
        OBVIOUS
      <4>1. Fetch(tx).arg = 1
        BY <3>1, <3>3, Zenon
      <4>2. 1 # 0
        OBVIOUS
      <4> QED BY <3>2, <4>1, <4>2, Zenon
    <3> QED BY <3>2, <3>3, <3>4, Zenon
  <2>3. P(tx) # 11
    <3> SUFFICES ASSUME P(tx) = 11 PROVE FALSE
      OBVIOUS
    <3>1. J(tx, K) = N(exchange)
      BY <1>2, PlaceIs
    <3>2. OnWire(exchange, div, J(tx, K), D(tx), P(tx), phase, dir, run, played)
      BY <1>2, Zenon DEF Playing
    <3>3. Level(exchange, N(exchange)) = 1
      BY <1>10, <3>1, <3>2, Zenon DEF OnWire
    <3>4. /\ N(exchange) \in 1 .. N(exchange)
          /\ (Low(exchange.segs[N(exchange)]) <=> Level(exchange, N(exchange)) = 1)
      <4> DEFINE n == N(exchange)
      <4>1. n \in Nat \ {0} /\ \A i \in 1 .. n : Low(exchange.segs[i]) <=> Level(exchange, i) = 1
        BY <1>2, ExchangeIs
      <4>2. n \in 1 .. n
        <5> HIDE DEF n
        <5> QED BY <4>1
      <4> QED BY <4>1, <4>2, Zenon
    <3> QED BY <3>3, <3>4, Zenon DEF EndsIn
  <2>4. o2 >= 9 * div
    <3>1. P(tx) = 8
      BY <2>2, <2>3
    <3> QED BY <1>5, <2>2, <3>1, Zenon
  <2>5. rise <= 8 * div
    BY <1>2, <1>7, AnswerIs, Zenon
  <2> DEFINE v == div
             r == rise
  <2>6. v \in Nat /\ r \in Nat /\ o2 >= 9 * v /\ r <= 8 * v
    BY <1>2, <1>7, <2>4, <2>5
  <2> HIDE DEF v, r
  <2>7. r + v <= o2
    BY <2>6
  <2> QED BY <2>1, <2>7, Zenon DEF v, r
<1> QED BY <1>7, <1>9, <1>10

\* When the interrupt comes.
LEMMA RaisedIs ==
  ASSUME Layout, Engines, Sending, Falls, Raises, NEW r, r = Less(rising)
  PROVE  /\ phase = 0 /\ tx.on /\ P(tx) = 12 /\ dir = 0
         /\ r \in Nat /\ Before(exchange, 0, Rest(exchange.answer), r, rise, 1, 8)
<1>1. /\ Playing(exchange, div, tx, phase, dir, run, played, dma, K)
      /\ Control(exchange, tx, K) /\ exchange \in Exchanges /\ tx \in Machines
      /\ P(tx) \in 0 .. 13 /\ div \in Nat \ {0} /\ phase \in 0 .. div - 1
      /\ N(exchange) \in Nat
  BY SendingIs, Zenon
<1>2. phase = 0 /\ tx.on /\ P(tx) = 12
  <2>1. pc # "off"
    BY DEF Sending
  <2>2. phase = 0 /\ Executes(tx, "irq set")
    BY Zenon DEF Raises
  <2>3. Executes(tx, "irq set") <=> tx.on /\ P(tx) = 12
    BY <1>1, <2>1, TxSignals
  <2> QED BY <2>2, <2>3
<1>3. dir = 0
  BY <1>1, <1>2 DEF Playing, OnWire
<1>4. Owes(exchange, div, J(tx, K), D(tx), phase) = div
  <2>1. K = N(exchange) + 1
    <3>1. P(tx) >= 11
      BY <1>2
    <3> QED BY <1>1, <3>1, Zenon DEF Control
  <2>2. J(tx, K) = N(exchange)
    <3> DEFINE k == K
               n == N(exchange)
    <3>1. k = n + 1 /\ n \in Nat
      BY <1>1, <2>1
    <3>2. J(tx, k) = k - 1
      BY <1>2 DEF J
    <3> HIDE DEF k, n
    <3>3. k - 1 = n
      BY <3>1
    <3> QED BY <3>2, <3>3 DEF k, n
  <2>3. D(tx) = 1
    BY <1>2 DEF D
  <2>4. Togo(exchange, div, N(exchange)) = 0
    BY <1>1, TogoIs
  <2>5. Ahead(div, phase) = 0
    BY <1>2 DEF Ahead
  <2>6. Owes(exchange, div, J(tx, K), D(tx), phase) = 0 + 1 * div + 0
    BY <2>2, <2>3, <2>4, <2>5, Zenon DEF Owes
  <2>7. \A v \in Nat : 0 + 1 * v + 0 = v
    OBVIOUS
  <2> QED BY <1>1, <2>6, <2>7
<1>5. rise \in Rises /\ rise \in Nat /\ rising \in Nat /\ rising <= rise
  BY EngineAssumption DEF Engines, Typed
<1>6. ~EndsIn(exchange) => rising = 0
  <2> SUFFICES ASSUME ~EndsIn(exchange) PROVE rising = 0
    OBVIOUS
  <2>1. rising = 0 \/ rising + div <= div
    BY <1>3, <1>4, Zenon DEF Falls, Falling
  <2> DEFINE v == div
  <2>2. v \in Nat /\ (rising = 0 \/ rising + v <= v)
    BY <1>1, <2>1
  <2> HIDE DEF v
  <2> QED BY <1>5, <2>2
<1>7. r \in Nat /\ r <= rising /\ (rising = 0 => r = 0)
  BY <1>5, LessIs
<1> DEFINE a == exchange.answer
           h == Rest(a)
           c == Len(a)
<1>8. /\ 1 \in 1 .. exchange.bits /\ a \in Seq(Nat) /\ c \in Nat /\ (a # << >> <=> c > 0)
      /\ a # << >> => a[1] \in Nat /\ a[1] >= 8
      /\ EndsIn(exchange) /\ a # << >> => rise + 10 <= a[1]
  <2>1. /\ exchange.bits \in Nat \ {0} /\ a \in Seq(Nat) /\ c \in Nat
        /\ \A i \in 1 .. c : a[i] \in Nat /\ a[i] > 0 /\ (i % 2 = 1 => a[i] >= 8)
    BY <1>1, AnswerIs
  <2>2. EndsIn(exchange) /\ a # << >> => rise + 10 <= a[1]
    BY <1>1, <1>5, AnswerIs, Zenon
  <2> HIDE DEF a
  <2>3. a # << >> => 1 \in 1 .. c
    BY <2>1
  <2>4. 1 % 2 = 1
    OBVIOUS
  <2>5. a # << >> => a[1] \in Nat /\ a[1] >= 8
    BY <2>1, <2>3, <2>4
  <2>6. a # << >> <=> c > 0
    BY <2>1
  <2> QED BY <2>1, <2>2, <2>5, <2>6
<1>9. a # << >> => h = a[1]
  BY Zenon DEF Rest
<1> HIDE DEF a, h, c
<1>10. 0 < c => h >= 8
  BY <1>8, <1>9
<1>11. r > 0 => EndsIn(exchange) /\ r <= rise /\ (a # << >> => h >= r + 8)
  <2> SUFFICES ASSUME r > 0 PROVE EndsIn(exchange) /\ r <= rise /\ (a # << >> => h >= r + 8)
    OBVIOUS
  <2>1. rising # 0 /\ r <= rise
    BY <1>5, <1>7
  <2>2. EndsIn(exchange)
    BY <1>6, <2>1
  <2>3. a # << >> => h >= r + 8
    <3> SUFFICES ASSUME a # << >> PROVE h >= r + 8
      OBVIOUS
    <3>1. h = a[1] /\ a[1] \in Nat
      BY <1>8, <1>9
    <3>2. rise + 10 <= a[1]
      BY <1>8, <2>2, Zenon
    <3> QED BY ONLY <1>5, <1>7, <2>1, <3>1, <3>2
  <2> QED BY <2>1, <2>2, <2>3
<1>12. Before(exchange, 0, h, r, rise, 1, 8)
  <2>1. 0 = 2 * 1 - 2 /\ 1 = 1
    OBVIOUS
  <2> QED BY <1>8, <1>10, <1>11, <2>1, Zenon DEF Before, a, c
<1> QED BY <1>2, <1>3, <1>7, <1>12 DEF h, a
-----------------------------------------------------------------------------
(***************************************************************************)
(* The invariant of an answer: the receive machine is armed and silent     *)
(* until the frame is over, then it reads the tape; what it says is the    *)
(* target's, and the CPU has it in time.                                   *)
(***************************************************************************)
\* The receive machine is armed, and nothing is taken from it yet.
Tuned ==
  /\ exchange.kind # "emit"
  /\ \/ pc \in {"setup", "start", "enable", "poll", "expiry"}
     \/ pc = "dma" /\ exchange.kind # "decode"

Tunes == spare \in Nat /\ (Tuned => rx.on /\ mode = Wanted)
Still == pc \in {"arm", "setup", "start"} => answer = << >> /\ rising = 0 /\ spare = 0
Alert ==
  Tuned /\ (~Sending \/ P(tx) # 13) =>
    /\ answer = << >> /\ spare = 0 /\ Primed(exchange, rx)
    /\ Sending /\ tx.on => Q(rx) = 3 \/ P(tx) <= Q(rx)

Receives(e, q, s, i, a, r, rs, sp, lf, lt) ==
  /\ Told(e, a)
  /\ a # << >> \/ e.answer = << >> => sp = 0
  /\ s.out = << >> => (q = 3 => i) /\ Reads(e, q, s, Gone(e, a), Rest(a), r, rs, sp - lf)
  /\ s.out # << >> => Said(e, rs, Head(s.out)) /\ sp - lf <= 8 + lt
Receiving ==
  Tuned /\ Sending /\ P(tx) = 13 =>
    Receives(exchange, Q(rx), rx, irq, answer, rising, rise, spare, left, late)

Own ==
  \/ /\ Len(exchange.answer) >= 2 * exchange.bits
     /\ got = IF exchange.kind = "decode" THEN Decoded ELSE Measured(exchange.answer[2])
  \/ EndsLow /\ 2 * got <= rise
Overdue == left = 0 /\ (Len(exchange.answer) >= 2 * exchange.bits => spare <= 8 + LATE)
Answered ==
  exchange.kind # "emit" /\ result # "NONE" =>
    (result = "OK" => Own) /\ (result = "TIMEOUT" => Overdue)

Tracks == Tunes /\ Still /\ Alert /\ Falls /\ Receiving
Tracking == Tracks /\ Answered

LEMMA InitTracking == Init => Tracking
<1> SUFFICES ASSUME Init PROVE Tracking
  OBVIOUS
<1>1. pc = "off" /\ spare = 0 /\ result = "NONE"
  BY DEF Init
<1>2. ~Tuned /\ ~Sending /\ pc \notin {"arm", "setup", "start"}
  BY <1>1 DEF Tuned, Sending
<1>3. spare \in Nat
  BY <1>1
<1> QED BY <1>1, <1>2, <1>3, Zenon
        DEF Tracking, Tracks, Tunes, Still, Alert, Falls, Receiving, Answered

\* What an answered exchange keeps while nothing of it changes.
LEMMA AnsweredSame ==
  ASSUME Answered, UNCHANGED <<exchange, result, got, rise, left, spare>>
  PROVE  Answered'
<1>1. (Own' <=> Own) /\ (Overdue' <=> Overdue)
  BY Zenon DEF Own, Overdue, Decoded, Measured, EndsLow
<1> QED BY <1>1, Zenon DEF Answered

\* The CPU looks, while the machines are where they are.
LEMMA TracksSame ==
  ASSUME Tracks, Tuned' => Tuned, Sending' => Sending, Tuned' /\ Sending => Sending',
         pc' \in {"arm", "setup", "start"} => pc \in {"arm", "setup", "start"},
         UNCHANGED <<exchange, mode, offset, tx, rx, irq, dir, div, phase, dma>>,
         UNCHANGED <<left, late, rising, rise, answer, spare>>
  PROVE  Tracks'
<1>1. K' = K /\ P(tx)' = P(tx) /\ Q(rx)' = Q(rx) /\ Wanted' = Wanted
      /\ Primed(exchange, rx)' = Primed(exchange, rx)
  BY Zenon DEF K, P, Q, Wanted, Primed
<1>2. Tunes' /\ Still'
  BY <1>1, Zenon DEF Tracks, Tunes, Still
<1>3. Alert'
  BY <1>1, Zenon DEF Tracks, Alert
<1>4. Falls'
  <2>1. J(tx, K)' = J(tx, K) /\ D(tx)' = D(tx)
    BY <1>1, Zenon DEF J, D, P
  <2> QED BY <2>1, Zenon DEF Tracks, Falls
<1>5. Receiving'
  BY <1>1, Zenon DEF Reads, Tracks, Receiving, Receives
<1> QED BY <1>2, <1>3, <1>4, <1>5, Zenon DEF Tracks

\* The CPU no longer waits for the receive machine.
LEMMA TracksOver ==
  ASSUME Tracks, ~Tuned', spare' = spare, pc' \notin {"arm", "setup", "start"},
         Sending' => Sending /\ UNCHANGED <<exchange, tx, dir, div, phase, dma, rising>>
  PROVE  Tracks'
<1>1. Falls'
  <2> SUFFICES ASSUME Sending' PROVE Falls'
    BY Zenon DEF Falls
  <2>1. K' = K
    BY Zenon DEF K
  <2>2. J(tx, K)' = J(tx, K) /\ D(tx)' = D(tx)
    BY <2>1, Zenon DEF J, D, P
  <2> QED BY <2>2, Zenon DEF Tracks, Falls
<1>2. Tunes' /\ Still' /\ Alert' /\ Receiving'
  BY Zenon DEF Tracks, Tunes, Still, Alert, Receiving
<1> QED BY <1>1, <1>2, Zenon DEF Tracks

\* Before the receive machine is armed, and when the CPU has its result.
LEMMA InitialiseTracks ==
  ASSUME Engines, Tracking, Initialise
  PROVE  Tracking'
<1>1. pc = "off" /\ pc' = "idle" /\ spare' = spare /\ result' = result
  BY DEF Initialise, report, wire
<1>2. result = "NONE"
  BY <1>1 DEF Engines, Served
<1>3. ~Tuned' /\ ~Sending' /\ pc' \notin {"arm", "setup", "start"}
  BY <1>1 DEF Tuned, Sending
<1> QED BY <1>1, <1>2, <1>3, TracksOver, Zenon DEF Tracking, Answered

LEMMA RequestTracks ==
  ASSUME Tracking, Request
  PROVE  Tracking'
<1>1. /\ pc' \in {"setup", "arm"} /\ (pc' = "setup" => exchange'.kind = "emit")
      /\ answer' = << >> /\ rising' = 0 /\ spare' = 0 /\ result' = "NONE"
  BY DEF Request
<1>2. ~Tuned' /\ ~Sending'
  BY <1>1 DEF Tuned, Sending
<1>3. spare' \in Nat
  BY <1>1
<1> QED BY <1>1, <1>2, <1>3, Zenon
        DEF Tracking, Tracks, Tunes, Still, Alert, Falls, Receiving, Answered

LEMMA TakePadTracks ==
  ASSUME Tracking, TakePad
  PROVE  Tracking'
<1>1. pc = "idle" /\ pc' = "idle"
      /\ UNCHANGED <<exchange, result, got, rise, left, spare>>
  BY DEF TakePad, report, wire, feed
<1>2. ~Tuned' /\ ~Sending' /\ pc' \notin {"arm", "setup", "start"}
  BY <1>1 DEF Tuned, Sending
<1>3. Tracks'
  BY <1>1, <1>2, TracksOver, Zenon DEF Tracking
<1>4. Answered'
  BY <1>1, AnsweredSame, Zenon DEF Tracking
<1> QED BY <1>3, <1>4, Zenon DEF Tracking

LEMMA ArmTracks ==
  ASSUME Layout, Engines, Tracking, Arm
  PROVE  Tracking'
<1>1. pc = "arm" /\ exchange \in Exchanges /\ exchange.kind # "emit" /\ rx \in Machines
  BY HearingIs DEF Arm, Engines, Listening, Served
<1>2. Switched.off # -1 /\ Switched.off \in Nat
  <2>1. Switched.off = Spot(Wanted) /\ Switched.off # -1
    BY <1>1, SwitchedIs
  <2> QED BY <2>1 DEF Spot
<1>3. /\ mode' = Wanted /\ offset' = Switched.off /\ rx' = Armed(rx, Switched.off)
      /\ pc' = "setup" /\ result' = result
      /\ UNCHANGED <<exchange, got, rise, rising, answer, spare, left>>
  BY <1>2 DEF Arm, wire, feed
<1> DEFINE off == Switched.off
           u == Armed(rx, off)
<1>4. /\ u.pc = off /\ u.out = << >> /\ u.in = << exchange.bits - 1, exchange.limit >> /\ u.on
  <2>1. off \in Nat
    BY <1>2
  <2> HIDE DEF off
  <2>2. u.pc = off /\ u.out = << >> /\ u.in = << exchange.bits - 1, exchange.limit >>
    BY <1>1, <2>1, ArmedIs
  <2>3. u.on
    BY <1>1, <2>1 DEF Armed, Machines
  <2> QED BY <2>2, <2>3
<1> HIDE DEF u
<1>5. rx' = u /\ offset' = off
  BY <1>3 DEF u
<1>6. Q(rx)' = 0
  <2>1. Q(rx)' = u.pc - off
    BY <1>5, Zenon DEF Q
  <2>2. off \in Nat
    BY <1>2
  <2> HIDE DEF off
  <2> QED BY <1>4, <2>1, <2>2
<1>7. Primed(exchange, rx)'
  BY <1>3, <1>4, <1>5, <1>6 DEF Primed
<1>8. ~Sending' /\ pc' = "setup"
  BY <1>3 DEF Sending
<1>9. answer' = << >> /\ rising' = 0 /\ spare' = 0 /\ spare' \in Nat
  BY <1>1, <1>3 DEF Tracking, Tracks, Still
<1>10. rx'.on /\ mode' = Wanted'
  <2>1. Wanted' = Wanted
    BY <1>3, Zenon DEF Wanted
  <2> QED BY <1>3, <1>4, <1>5, <2>1
<1>11. Tracks'
  BY <1>7, <1>8, <1>9, <1>10, Zenon DEF Tracks, Tunes, Still, Alert, Falls, Receiving
<1>12. Answered'
  BY <1>3, AnsweredSame, Zenon DEF Tracking
<1> QED BY <1>11, <1>12, Zenon DEF Tracking

LEMMA SetupTracks ==
  ASSUME Engines, Tracking, Setup
  PROVE  Tracking'
<1>1. /\ pc = "setup" /\ pc' = "start"
      /\ UNCHANGED <<exchange, result, got, mode, offset, rx, rise, rising, answer, spare, left>>
  BY DEF Setup, report, memory, wire, feed
<1>2. ~Sending /\ ~Sending' /\ (Tuned' => Tuned)
  BY <1>1 DEF Sending, Tuned
<1>3. Primed(exchange, rx)' = Primed(exchange, rx) /\ Wanted' = Wanted
  BY <1>1, Zenon DEF Primed, Q, Wanted
<1>4. Still'
  BY <1>1 DEF Tracking, Tracks, Still
<1>5. Tracks'
  BY <1>1, <1>2, <1>3, <1>4, Zenon DEF Tracking, Tracks, Tunes, Alert, Falls, Receiving
<1>6. Answered'
  BY <1>1, AnsweredSame, Zenon DEF Tracking
<1> QED BY <1>5, <1>6, Zenon DEF Tracking

LEMMA StartTracks ==
  ASSUME Engines, Tracking, Start
  PROVE  Tracking'
<1>1. /\ pc = "start" /\ pc' = "enable"
      /\ UNCHANGED <<exchange, result, got, mode, offset, tx, rx, rise, rising, answer>>
      /\ UNCHANGED <<spare, left>>
  BY DEF Start, report, memory, wire, lines
<1>2. ~Sending /\ (Tuned' => Tuned) /\ pc' \notin {"arm", "setup", "start"}
  BY <1>1 DEF Sending, Tuned
<1>3. Primed(exchange, rx)' = Primed(exchange, rx) /\ Wanted' = Wanted
  BY <1>1, Zenon DEF Primed, Q, Wanted
<1>4. ~tx'.on /\ P(tx)' = 0 /\ rising' = 0
  <2>1. ~tx.on /\ P(tx) = 0
    BY <1>1, <1>2 DEF Engines, Quiet
  <2>2. rising = 0
    BY <1>1 DEF Tracking, Tracks, Still
  <2> QED BY <1>1, <2>1, <2>2, Zenon DEF P
<1>5. P(tx)' # 13
  BY <1>4
<1>6. Falls'
  BY <1>4, Zenon DEF Falls, Falling
<1>7. Tunes' /\ Still' /\ Alert' /\ Receiving'
  BY <1>1, <1>2, <1>3, <1>4, <1>5, Zenon
     DEF Tracking, Tracks, Tunes, Still, Alert, Receiving
<1>8. Answered'
  BY <1>1, AnsweredSame, Zenon DEF Tracking
<1> QED BY <1>6, <1>7, <1>8, Zenon DEF Tracking, Tracks

LEMMA EnableTracks ==
  ASSUME Engines, Tracking, Enable
  PROVE  Tracking'
<1>1. /\ pc = "enable" /\ tx' = Switch(tx, TRUE)
      /\ pc' = (IF exchange.kind = "decode" THEN "poll" ELSE "dma")
      /\ UNCHANGED <<exchange, result, got, mode, offset, rx, rise, rising, answer, spare>>
      /\ UNCHANGED <<left, dir, div, phase, dma>>
  BY DEF Enable, report, memory, wire, lines, feed, Switch
<1>2. Sending /\ Sending' /\ (Tuned' => Tuned) /\ pc' \notin {"arm", "setup", "start"}
  BY <1>1 DEF Sending, Tuned
<1>3. Primed(exchange, rx)' = Primed(exchange, rx) /\ Q(rx)' = Q(rx) /\ Wanted' = Wanted
  BY <1>1, Zenon DEF Primed, Q, Wanted
<1>4. P(tx) = 0
  BY <1>2, <1>1, SendingIs DEF Engines, Carrying, Playing
<1>5. PICK u : u = tx'
  OBVIOUS
<1>6. Same(tx, u)
  BY <1>2, <1>1, <1>5, SendingIs, SwitchIs
<1>7. P(u) = P(tx) /\ D(u) = D(tx) /\ (\A k : J(u, k) = J(tx, k)) /\ u.in = tx.in
  <2>1. u.in = tx.in
    BY <1>6, Zenon DEF Same
  <2> QED BY <1>6, <2>1, SamePlace
<1>8. P(tx)' = P(tx) /\ D(tx)' = D(tx) /\ K' = K /\ J(tx, K)' = J(tx, K)
  BY <1>1, <1>5, <1>7, Zenon DEF K, P, D, J
<1>9. Falls'
  BY <1>1, <1>2, <1>8, Zenon DEF Tracking, Tracks, Falls
<1>10. Alert'
  <2> SUFFICES ASSUME Tuned' PROVE Alert'
    BY Zenon DEF Alert
  <2>1. P(tx) # 13
    BY <1>4
  <2>2. answer = << >> /\ spare = 0 /\ Primed(exchange, rx)
    BY <1>2, <2>1, Zenon DEF Tracking, Tracks, Alert
  <2>3. P(tx)' <= Q(rx)'
    BY <2>2, <1>3, <1>4, <1>8 DEF Primed
  <2> QED BY <1>1, <1>3, <2>2, <2>3, Zenon DEF Alert
<1>11. P(tx)' # 13
  BY <1>4, <1>8
<1>12. Tunes' /\ Still' /\ Receiving'
  BY <1>1, <1>2, <1>3, <1>11, Zenon DEF Tracking, Tracks, Tunes, Still, Receiving
<1>13. Answered'
  BY <1>1, AnsweredSame, Zenon DEF Tracking
<1> QED BY <1>9, <1>10, <1>12, <1>13, Zenon DEF Tracking, Tracks

LEMMA LookTracks ==
  ASSUME Engines, Tracking, DmaDone \/ PollEmpty \/ InTime
  PROVE  Tracking'
<1>1. /\ UNCHANGED <<exchange, result, got, mode, offset, tx, rx, irq, dir, div, phase, dma>>
      /\ UNCHANGED <<left, late, rising, rise, answer, spare>>
  BY DEF DmaDone, PollEmpty, InTime, report, memory, wire, lines, feed
<1>2. \/ pc \in {"poll", "expiry"} /\ pc' \in {"poll", "expiry"}
      \/ /\ pc = "dma"
         /\ pc' = CASE exchange.kind = "emit" -> "wave"
                    [] exchange.kind = "decode" -> "stop"
                    [] OTHER -> "poll"
  BY DEF DmaDone, PollEmpty, InTime
<1>3. Sending /\ Sending' /\ (Tuned' => Tuned) /\ pc' \notin {"arm", "setup", "start"}
  BY <1>1, <1>2 DEF Sending, Tuned
<1>4. Tracks'
  BY <1>1, <1>3, TracksSame, Zenon DEF Tracking
<1>5. Answered'
  BY <1>1, AnsweredSame, Zenon DEF Tracking
<1> QED BY <1>4, <1>5, Zenon DEF Tracking

\* A deadline that comes before the answer.
LEMMA OverdueIs ==
  ASSUME Engines, Tracking, pc = "expiry", left = 0
  PROVE  Overdue
<1> SUFFICES ASSUME Len(exchange.answer) >= 2 * exchange.bits PROVE spare <= 8 + LATE
  BY DEF Overdue
<1>1. exchange \in Exchanges /\ exchange.kind # "emit" /\ Sending /\ Tuned
  BY DEF Engines, Served, Sending, Tuned
<1>2. late \in Nat /\ late <= LATE /\ rise \in Rises /\ rising \in Nat /\ LATE \in Nat
  BY EngineAssumption, NumbersAre DEF Engines, Typed
<1>3. CASE P(tx) # 13
  <2>1. spare = 0
    BY <1>1, <1>3, Zenon DEF Tracking, Tracks, Alert
  <2> QED BY <1>2, <2>1
<1>4. CASE P(tx) = 13
  <2>1. Receives(exchange, Q(rx), rx, irq, answer, rising, rise, spare, left, late)
    BY <1>1, <1>4, Zenon DEF Tracking, Tracks, Receiving
  <2>2. spare \in Nat
    BY Zenon DEF Tracking, Tracks, Tunes
  <2>3. spare - left = spare
    BY <2>2
  <2>4. CASE rx.out # << >>
    <3>1. spare <= 8 + late
      BY <2>1, <2>3, <2>4, Zenon DEF Receives
    <3> QED BY <1>2, <2>2, <3>1
  <2>5. CASE rx.out = << >>
    <3> DEFINE n == Gone(exchange, answer)
               h == Rest(answer)
               g == spare - left
    <3>1. Told(exchange, answer) /\ Reads(exchange, Q(rx), rx, n, h, rising, rise, g)
      BY <2>1, <2>5, Zenon DEF Receives
    <3>2. Tape(exchange, n, h, rising, rise)
      BY <1>1, <1>2, <3>1, ToldTape
    <3>3. g \in Int
      BY <2>2, <2>3
    <3>4. Late(exchange, n, g)
      <4> HIDE DEF n, h, g
      <4>1. CASE exchange.kind = "decode"
        BY <3>1, <4>1, <1>1, <3>2, <3>3, ReadingLate, Zenon DEF Reads
      <4>2. CASE exchange.kind # "decode"
        BY <3>1, <4>2, <1>1, <3>2, <3>3, WidthLate, Zenon DEF Reads
      <4> QED BY <4>1, <4>2
    <3>5. Len(exchange.answer) # 0
      <4> DEFINE b == exchange.bits
                 l == Len(exchange.answer)
      <4>1. b \in Nat \ {0} /\ l \in Nat /\ l >= 2 * b
        BY <1>1, AnswerIs
      <4> HIDE DEF b, l
      <4>2. l # 0
        BY <4>1
      <4> QED BY <4>2 DEF l
    <3>6. CASE n < Len(exchange.answer)
      <4>1. answer # << >>
        <5>1. answer = << >> => Len(answer) = 0
          OBVIOUS
        <5> DEFINE l == Len(exchange.answer)
        <5>2. l \in Nat
          BY <1>1, AnswerIs
        <5>3. n = l - Len(answer)
          BY Zenon DEF Gone
        <5> HIDE DEF n, l
        <5>4. n < l
          BY <3>6 DEF l
        <5> QED BY <5>1, <5>2, <5>3, <5>4
      <4>2. spare = 0
        BY <2>1, <4>1, Zenon DEF Receives
      <4> QED BY <1>2, <4>2
    <3>7. CASE g <= 8
      <4>1. spare <= 8
        BY <2>3, <3>7
      <4> QED BY <1>2, <2>2, <4>1
    <3> QED BY <3>4, <3>5, <3>6, <3>7, Zenon DEF Late
  <2> QED BY <2>4, <2>5
<1> QED BY <1>3, <1>4

LEMMA ExpiredTracks ==
  ASSUME Engines, Tracking, Expired
  PROVE  Tracking'
<1>1. /\ pc = "expiry" /\ left = 0 /\ result' = "TIMEOUT" /\ pc' = AfterAnswer
      /\ UNCHANGED <<exchange, tx, dir, div, phase, dma, left, rising, spare>>
  BY DEF Expired, wire, lines, feed
<1>2. Sending /\ ~Tuned' /\ pc' \notin {"arm", "setup", "start"}
  BY <1>1, AfterAnswerIs DEF Sending, Tuned
<1>3. Tracks'
  BY <1>1, <1>2, TracksOver, Zenon DEF Tracking
<1>4. Overdue'
  <2>1. Overdue
    BY <1>1, OverdueIs
  <2> QED BY <1>1, <2>1, Zenon DEF Overdue
<1>5. result' # "OK"
  BY <1>1
<1> QED BY <1>3, <1>4, <1>5, Zenon DEF Tracking, Answered

\* The word that the CPU takes.
LEMMA PollTakesTracks ==
  ASSUME Engines, Tracking, PollTakes, Layout
  PROVE  Tracking'
<1>1. /\ pc = "poll" /\ rx.out # << >> /\ result' = "OK" /\ got' = Value(Head(rx.out))
      /\ pc' = AfterAnswer
      /\ UNCHANGED <<exchange, tx, dir, div, phase, dma, left, rising, rise, spare>>
  BY DEF PollTakes, wire, lines, feed
<1>2. Sending /\ Tuned /\ ~Tuned' /\ pc' \notin {"arm", "setup", "start"}
      /\ exchange \in Exchanges /\ exchange.kind # "emit"
  BY <1>1, AfterAnswerIs DEF Sending, Tuned, Engines, Served
<1>3. Tracks'
  BY <1>1, <1>2, TracksOver, Zenon DEF Tracking
<1>4. P(tx) = 13
  <2>1. ~Early(rx)
    BY <1>1, Zenon DEF Early
  <2> QED BY <1>2, <2>1, Zenon DEF Engines, Heeded
<1>5. Said(exchange, rise, Head(rx.out))
  BY <1>2, <1>4, <1>1, Zenon DEF Tracking, Tracks, Receiving, Receives
<1>6. Head(rx.out) \in Nat
  <2>1. Hearing(rx)
    BY <1>1 DEF Engines, Listening
  <2>2. PICK u : u = Emptied(rx)
    OBVIOUS
  <2> QED BY <1>1, <2>1, <2>2, EmptiedIs
<1>7. rise \in Nat
  <2>1. rise \in Rises
    BY DEF Engines, Typed
  <2> QED BY <2>1, EngineAssumption
<1> DEFINE w == Head(rx.out)
<1>8. \/ /\ Len(exchange.answer) >= 2 * exchange.bits
         /\ Value(w) = IF exchange.kind = "decode" THEN Decoded
                       ELSE Measured(exchange.answer[2])
      \/ EndsLow /\ 2 * Value(w) <= rise
  <2>1. w \in Nat /\ Said(exchange, rise, w)
    BY <1>5, <1>6
  <2> HIDE DEF w
  <2> QED BY <1>2, <1>7, <2>1, SaidIs, Zenon
<1>9. Own'
  <2>1. Decoded' = Decoded /\ (\A v : Measured(v)' = Measured(v)) /\ (EndsLow' <=> EndsLow)
    BY <1>1, Zenon DEF Decoded, Measured, EndsLow
  <2>2. got' = Value(w)
    BY <1>1
  <2>3. CASE EndsLow /\ 2 * Value(w) <= rise
    BY <1>1, <2>1, <2>2, <2>3, Zenon DEF Own
  <2>4. CASE /\ Len(exchange.answer) >= 2 * exchange.bits
             /\ Value(w) = IF exchange.kind = "decode" THEN Decoded
                           ELSE Measured(exchange.answer[2])
    BY <1>1, <2>1, <2>2, <2>4, Zenon DEF Measured, Own
  <2> QED BY <1>8, <2>3, <2>4
<1>10. result' # "TIMEOUT"
  BY <1>1
<1> QED BY <1>3, <1>9, <1>10, Zenon DEF Tracking, Answered

LEMMA StopTracks ==
  ASSUME Engines, Tracking, Stop
  PROVE  Tracking'
<1>1. /\ pc' = "idle"
      /\ UNCHANGED <<exchange, result, got, rise, left, spare>>
  BY DEF Stop, report, wire, feed
<1>2. ~Tuned' /\ ~Sending' /\ pc' \notin {"arm", "setup", "start"}
  BY <1>1 DEF Tuned, Sending
<1>3. Tracks'
  BY <1>1, <1>2, TracksOver, Zenon DEF Tracking
<1>4. Answered'
  BY <1>1, AnsweredSame, Zenon DEF Tracking
<1> QED BY <1>3, <1>4, Zenon DEF Tracking

LEMMA EmitEndsTracks ==
  ASSUME Engines, Tracking, EmitEnds
  PROVE  Tracking'
<1>1. /\ pc = "wave" /\ pc' = "idle"
      /\ UNCHANGED <<exchange, spare>>
  BY DEF EmitEnds, wire
<1>2. ~Tuned' /\ ~Sending' /\ pc' \notin {"arm", "setup", "start"}
      /\ exchange.kind = "emit"
  BY <1>1 DEF Tuned, Sending, Engines, Served
<1>3. Tracks'
  BY <1>1, <1>2, TracksOver, Zenon DEF Tracking
<1>4. Answered'
  BY <1>1, <1>2, Zenon DEF Answered
<1> QED BY <1>3, <1>4, Zenon DEF Tracking

\* A cycle leaves a report alone, and no deadline comes back.
LEMMA CycleTunes ==
  ASSUME Layout, Engines, Tracking, Cycle
  PROVE  /\ Answered' /\ Tunes' /\ (Tuned' <=> Tuned) /\ (Sending' <=> Sending)
         /\ Wanted' = Wanted /\ rx' = Stepped(rx) /\ Hearing(rx) /\ pc # "off"
         /\ answer = << >> => spare' = spare
<1>1. /\ pc # "off" /\ UNCHANGED <<pc, exchange, result, got, mode, offset, rise>>
      /\ left \in Nat /\ left' \in Nat
  BY CycleNumbers, NumbersAre
<1>2. /\ rx' = Stepped(rx)
      /\ spare' = (IF answer # << >> /\ Sent = << >> THEN left ELSE spare)
      /\ left' = (IF pc \in {"wave", "poll", "expiry"} THEN Less(left) ELSE left)
  BY DEF Cycle
<1>3. Hearing(rx)
  BY <1>1 DEF Engines, Listening
<1>4. spare \in Nat /\ (Tuned => rx.on /\ mode = Wanted)
  BY Zenon DEF Tracking, Tracks, Tunes
<1>5. (Tuned' <=> Tuned) /\ (Sending' <=> Sending) /\ Wanted' = Wanted
  BY <1>1, Zenon DEF Tuned, Sending, Wanted
<1>6. rx'.on <=> rx.on
  <2>1. Hears(rx, Stepped(rx))
    BY <1>1, <1>3, RxHears
  <2> QED BY <1>2, <2>1, Zenon DEF Hears
<1>7. spare' \in Nat
  BY <1>1, <1>2, <1>4
<1>8. Tunes'
  BY <1>1, <1>4, <1>5, <1>6, <1>7, Zenon DEF Tunes
<1>9. Own' <=> Own
  BY <1>1, Zenon DEF Own, Decoded, Measured, EndsLow
<1>10. Overdue => Overdue'
  <2> SUFFICES ASSUME Overdue PROVE Overdue'
    OBVIOUS
  <2>1. left = 0
    BY DEF Overdue
  <2>2. left' = 0
    <3>1. Less(left) = 0
      BY <2>1, <1>1, LessIs
    <3> QED BY <1>2, <2>1, <3>1, Zenon
  <2>3. spare' = 0 \/ spare' = spare
    BY <1>2, <2>1, Zenon
  <2>4. 0 <= 8 + LATE
    BY NumbersAre
  <2> QED BY <1>1, <2>2, <2>3, <2>4, Zenon DEF Overdue
<1>11. Answered'
  BY <1>1, <1>9, <1>10, Zenon DEF Tracking, Answered
<1> QED BY <1>1, <1>2, <1>3, <1>5, <1>8, <1>11, Zenon

\* A cycle before the interrupt: the machine takes its words and waits.
LEMMA AlertSteps ==
  ASSUME Layout, Engines, Tracking, Cycle, Tuned, ~Sending \/ P(tx) # 13, NEW u, u = rx'
  PROVE  /\ Primed(exchange, rx) /\ Primed(exchange, u) /\ Primed(exchange, rx)'
         /\ Q(rx)' = Q(u) /\ (Q(rx) = 3 => Q(u) = 3) /\ (Q(rx) \in 0 .. 2 => Q(u) = Q(rx) + 1)
         /\ ~irq /\ answer = << >> /\ Sent = << >> /\ spare = 0 /\ spare' = 0
<1>1. answer = << >> /\ spare = 0 /\ Primed(exchange, rx)
  BY Zenon DEF Tracking, Tracks, Alert
<1>2. ~irq
  <2>1. CASE Sending
    BY <2>1, Zenon DEF Engines, Heeded
  <2>2. CASE ~Sending
    BY <2>2 DEF Tuned, Sending, Engines, Heeded
  <2> QED BY <2>1, <2>2
<1>3. u = Stepped(rx) /\ Hearing(rx) /\ pc # "off" /\ spare' = spare
  BY <1>1, CycleTunes, Zenon
<1>4. rx.on
  BY Zenon DEF Tracking, Tracks, Tunes
<1>5. /\ Primed(exchange, u) /\ (Q(rx) = 3 => Q(u) = 3)
      /\ Q(rx) \in 0 .. 2 => Q(u) = Q(rx) + 1
  BY <1>1, <1>2, <1>3, <1>4, PrimedSteps, Zenon
<1>6. UNCHANGED <<exchange, offset>>
  BY CycleNumbers
<1>7. Q(rx)' = Q(u) /\ Primed(exchange, rx)' = Primed(exchange, u)
  BY <1>6, Zenon DEF Q, Primed
<1>8. Sent = << >>
  BY <1>1, Zenon DEF Sent
<1> QED BY <1>1, <1>2, <1>3, <1>5, <1>7, <1>8, Zenon

LEMMA RestTracks ==
  ASSUME Layout, Engines, Tracking, Cycle, ~Sending
  PROVE  Tracking'
<1>1. /\ Answered' /\ Tunes' /\ (Tuned' <=> Tuned) /\ ~Sending' /\ pc # "off"
      /\ answer = << >> => spare' = spare
  BY CycleTunes, Zenon
<1>2. pc' = pc
  BY CycleNumbers
<1>3. Still'
  <2> SUFFICES ASSUME pc \in {"arm", "setup", "start"}
               PROVE  answer' = << >> /\ rising' = 0 /\ spare' = 0
    BY <1>2, Zenon DEF Still
  <2>1. answer = << >> /\ rising = 0 /\ spare = 0
    BY Zenon DEF Tracking, Tracks, Still
  <2>2. /\ tx \in Machines /\ dir = 0 /\ P(tx) \in 0 .. 13 /\ (tx.on => P(tx) = 0)
    BY <1>1 DEF Engines, Typed, Quiet
  <2>3. ~Raises
    <3>1. tx.on => P(tx) # 12
      BY <2>2
    <3>2. Executes(tx, "irq set") <=> tx.on /\ P(tx) = 12
      BY <1>1, <2>2, TxSignals
    <3> QED BY <3>1, <3>2, Zenon DEF Raises
  <2>4. ~Driven
    BY <2>2 DEF Driven
  <2>5. answer' = Sent /\ rising' = Less(rising)
    BY <2>3, <2>4, Zenon DEF Cycle
  <2>6. Sent = << >>
    BY <2>1, Zenon DEF Sent
  <2>7. Less(rising) = 0
    BY <2>1, LessIs
  <2> QED BY <1>1, <2>1, <2>5, <2>6, <2>7, Zenon
<1>4. Alert'
  <2> SUFFICES ASSUME Tuned PROVE Alert'
    BY <1>1, Zenon DEF Alert
  <2>1. pc \in {"setup", "start"}
    BY DEF Tuned, Sending
  <2>2. PICK u : u = rx'
    OBVIOUS
  <2>3. Primed(exchange, rx)'
    BY <2>2, AlertSteps, Zenon
  <2>4. answer' = << >> /\ spare' = 0
    BY <1>2, <1>3, <2>1 DEF Still
  <2> QED BY <1>1, <2>3, <2>4, Zenon DEF Alert
<1> QED BY <1>1, <1>3, <1>4, Zenon DEF Tracking, Tracks, Falls, Receiving

\* What a frame that is sent does to the transmit machine in a cycle.
LEMMA TxBeats ==
  ASSUME Layout, Engines, Cycle, Sending, NEW t, t = tx'
  PROVE  /\ P(tx)' = P(t) /\ P(tx) \in 0 .. 13 /\ tx \in Machines
         /\ P(t) \in 0 .. 13 /\ (t.on <=> tx.on)
         /\ P(tx) = 13 => P(t) = 13 /\ dir = 0 /\ ~Raises
         /\ Raises <=> phase = 0 /\ tx.on /\ P(tx) = 12
         /\ P(t) = 13 => P(tx) = 13 \/ Raises
         /\ Raises => P(t) = 13
         /\ P(tx) <= 2 => P(t) <= P(tx) + 1
<1>1. /\ Playing(exchange, div, tx, phase, dir, run, played, dma, K)
      /\ tx \in Machines /\ P(tx) \in 0 .. 13
  BY SendingIs, Zenon
<1>2. Played(exchange, div, phase, tx, K, t, phase', dir', run', played', dma', K')
  BY CycleBeats, Zenon
<1>3. /\ Playing(exchange, div, t, phase', dir', run', played', dma', K')
      /\ (t.on <=> tx.on) /\ (P(tx) = 13 => P(t) = 13)
      /\ phase = 0 /\ tx.on /\ P(tx) = 12 => P(t) = 13
      /\ P(t) = 13 => P(tx) = 13 \/ (phase = 0 /\ tx.on /\ P(tx) = 12)
      /\ P(tx) <= 2 => P(t) <= P(tx) + 1
  BY <1>2, Zenon DEF Played
<1>4. P(t) \in 0 .. 13
  BY <1>3, Zenon DEF Playing, Control
<1>5. P(tx)' = P(t)
  BY Zenon DEF P
<1>6. Raises <=> phase = 0 /\ tx.on /\ P(tx) = 12
  <2>1. pc # "off"
    BY DEF Sending
  <2>2. Executes(tx, "irq set") <=> tx.on /\ P(tx) = 12
    BY <1>1, <2>1, TxSignals
  <2> QED BY <2>2, Zenon DEF Raises
<1>7. P(tx) = 13 => dir = 0 /\ ~Raises
  <2> SUFFICES ASSUME P(tx) = 13 PROVE dir = 0 /\ ~Raises
    OBVIOUS
  <2>1. OnWire(exchange, div, J(tx, K), D(tx), P(tx), phase, dir, run, played)
        /\ dir \in {0, 1}
    BY <1>1, Zenon DEF Playing
  <2>2. ~(P(tx) <= 11) /\ P(tx) # 12
    BY <1>1
  <2>3. dir # 1
    BY <2>1, <2>2, Zenon DEF OnWire
  <2>4. ~Raises
    BY <1>6, <2>2
  <2> QED BY <2>1, <2>3, <2>4
<1> QED BY <1>1, <1>3, <1>4, <1>5, <1>6, <1>7, Zenon

\* The machine is ahead of the frame: it waits before the interrupt comes.
LEMMA AlertCycle ==
  ASSUME Layout, Engines, Tracking, Cycle, Sending
  PROVE  Alert'
<1>1. (Tuned' <=> Tuned) /\ Sending'
  BY CycleTunes, Zenon
<1>2. PICK t : t = tx'
  OBVIOUS
<1> SUFFICES ASSUME Tuned, P(tx)' # 13 PROVE Alert'
  BY <1>1, Zenon DEF Alert
<1>3. /\ P(tx)' = P(t) /\ P(tx) # 13 /\ P(tx) \in 0 .. 13 /\ P(t) \in 0 .. 13
      /\ (t.on <=> tx.on) /\ ~Raises /\ (P(tx) <= 2 => P(t) <= P(tx) + 1)
  BY <1>2, TxBeats, Zenon
<1>4. PICK u : u = rx'
  OBVIOUS
<1>5. /\ Primed(exchange, rx) /\ Primed(exchange, u) /\ Primed(exchange, rx)'
      /\ Q(rx)' = Q(u) /\ (Q(rx) = 3 => Q(u) = 3) /\ (Q(rx) \in 0 .. 2 => Q(u) = Q(rx) + 1)
      /\ Sent = << >> /\ spare' = 0
  BY <1>3, <1>4, AlertSteps, Zenon
<1>6. answer' = << >>
  BY <1>3, <1>5, Zenon DEF Cycle
<1>7. tx.on => Q(u) = 3 \/ P(t) <= Q(u)
  <2> SUFFICES ASSUME tx.on, Q(rx) # 3 PROVE P(t) <= Q(u)
    BY <1>5
  <2>1. P(tx) <= Q(rx)
    BY <1>3, Zenon DEF Tracking, Tracks, Alert
  <2>2. Q(rx) \in 0 .. 3
    BY <1>5, Zenon DEF Primed
  <2> DEFINE q == Q(rx)
             p == P(tx)
             p2 == P(t)
             q2 == Q(u)
  <2>3. q \in 0 .. 2
    <3>1. q \in 0 .. 3 /\ q # 3
      BY <2>2
    <3> HIDE DEF q
    <3> QED BY <3>1
  <2>4. q2 = q + 1 /\ p \in 0 .. 13 /\ p2 \in 0 .. 13 /\ p <= q
    BY <1>3, <1>5, <2>1, <2>3, Zenon
  <2>5. p <= 2 => p2 <= p + 1
    BY <1>3, Zenon
  <2> HIDE DEF q, p, p2, q2
  <2>6. p2 <= q2
    BY <2>3, <2>4, <2>5
  <2> QED BY <2>6 DEF p2, q2
<1> QED BY <1>1, <1>2, <1>3, <1>5, <1>6, <1>7, Zenon DEF Alert

\* What is received in a state, of constants.
LEMMA ReceivingIs ==
  ASSUME UNCHANGED <<exchange, offset, rise>>,
         NEW u, u = rx', NEW i, i = irq', NEW b, b = answer', NEW r, r = rising',
         NEW sp, sp = spare', NEW lf, lf = left', NEW lt, lt = late',
         Receives(exchange, Q(u), u, i, b, r, rise, sp, lf, lt)
  PROVE  Receiving'
<1>1. Q(rx)' = Q(u)
  BY Zenon DEF Q
<1>2. Receives(exchange, Q(rx), rx, irq, answer, rising, rise, spare, left, late)'
      = Receives(exchange, Q(u), u, i, b, r, rise, sp, lf, lt)
  BY <1>1, Zenon DEF Receives, Reads, Told, Gone, Rest
<1> QED BY <1>2, Zenon DEF Receiving

\* The interrupt: the target begins its answer, and the machine its measure.
LEMMA RaisedTracks ==
  ASSUME Layout, Engines, Tracking, Cycle, Sending, Tuned, Raises
  PROVE  Receiving'
<1>1. PICK u : u = rx'
  OBVIOUS
<1>2. PICK r : r = rising'
  OBVIOUS
<1>3. PICK t : t = tx'
  OBVIOUS
<1>4. phase = 0 /\ tx.on /\ P(tx) = 12 /\ P(tx) # 13 /\ P(tx) \in 0 .. 13
  BY <1>3, TxBeats
<1>5. /\ Primed(exchange, rx) /\ Primed(exchange, u) /\ (Q(rx) = 3 => Q(u) = 3)
      /\ ~irq /\ Sent = << >> /\ spare' = 0
  BY <1>1, <1>4, AlertSteps, Zenon
<1>6. Q(u) = 3
  <2>1. Q(rx) = 3 \/ P(tx) <= Q(rx)
    BY <1>4, Zenon DEF Tracking, Tracks, Alert
  <2>2. Q(rx) \in 0 .. 3
    BY <1>5, Zenon DEF Primed
  <2> DEFINE q == Q(rx)
             p == P(tx)
  <2>3. q \in 0 .. 3 /\ p = 12 /\ (q = 3 \/ p <= q)
    BY <1>4, <2>1, <2>2
  <2> HIDE DEF q, p
  <2>4. q = 3
    BY <2>3
  <2> QED BY <1>5, <2>4, Zenon DEF q
<1>7. exchange \in Exchanges
  BY SendingIs, Zenon
<1>8. dir = 0 /\ r \in Nat /\ Before(exchange, 0, Rest(exchange.answer), r, rise, 1, 8)
  <2>1. dir = 0
    <3>1. Falls
      BY Zenon DEF Tracking, Tracks
    <3>2. PICK l : l = Less(rising)
      OBVIOUS
    <3> QED BY <3>1, <3>2, RaisedIs, Zenon
  <2>2. ~Driven
    <3>1. 0 # 1
      OBVIOUS
    <3> QED BY <2>1, <3>1, Zenon DEF Driven
  <2>3. r = Less(rising)
    BY <1>2, <2>2, Zenon DEF Cycle
  <2>4. Falls
    BY Zenon DEF Tracking, Tracks
  <2> QED BY <2>1, <2>3, <2>4, RaisedIs, Zenon
<1>9. irq' = TRUE
  <2>1. ~Executes(rx, "wait irq")
    <3> SUFFICES ASSUME Executes(rx, "wait irq") PROVE FALSE
      OBVIOUS
    <3>1. Fetch(rx).op = "wait irq" /\ ~Stalls(rx, Fetch(rx))
      BY Zenon DEF Executes
    <3> QED BY <1>5, <3>1, Zenon DEF Stalls
  <2>2. irq' = (irq \/ Raises)
    BY <2>1, Zenon DEF Cycle
  <2> QED BY <2>2
<1>10. answer' = exchange.answer
  BY Zenon DEF Cycle
<1> DEFINE b == exchange.answer
<1>11. Told(exchange, b) /\ Gone(exchange, b) = 0
  BY <1>7, ToldFresh
<1>12. PICK lf : lf = left'
  OBVIOUS
<1>13. PICK lt : lt = late'
  OBVIOUS
<1>14. Reads(exchange, Q(u), u, Gone(exchange, b), Rest(b), r, rise, 0 - lf)
  <2>1. Before(exchange, Gone(exchange, b), Rest(b), r, rise, 1, 8)
    BY <1>8, <1>11, Zenon
  <2> DEFINE n == Gone(exchange, b)
             h == Rest(b)
             g == 0 - lf
  <2> HIDE DEF n, h, g, b
  <2>2. Before(exchange, n, h, r, rise, 1, 8)
    BY <2>1 DEF n, h
  <2>3. /\ Width(exchange, Q(u), u.x, u.osr, u.isr, n, h, r, rise, g)
        /\ Reading(exchange, Q(u), u.x, u.y, u.osr, u.isr, n, h, r, rise, g)
    BY <1>5, <1>6, <1>7, <2>2, PrimedReads, Zenon
  <2>4. Reads(exchange, Q(u), u, n, h, r, rise, g)
    BY <2>3, Zenon DEF Reads
  <2> QED BY <2>4, Zenon DEF n, h, g
<1>15. u.out = << >>
  BY <1>5, Zenon DEF Primed
<1> HIDE DEF b
<1>16. Receives(exchange, Q(u), u, TRUE, b, r, rise, 0, lf, lt)
  BY <1>11, <1>14, <1>15, Zenon DEF Receives
<1>17. UNCHANGED <<exchange, offset, rise>>
  BY CycleNumbers
<1>18. b = answer'
  BY <1>10 DEF b
<1> QED BY <1>1, <1>2, <1>5, <1>9, <1>12, <1>13, <1>16, <1>17, <1>18, ReceivingIs, Zenon

\* The CPU sees a word as soon as there is one, unless it is late.
LEMMA WordWaits ==
  ASSUME Layout, Engines, Cycle, Tuned, Sending, P(tx) = 13, rx.out # << >>
  PROVE  /\ left \in Nat /\ left' \in Nat /\ late \in Nat /\ late' \in Nat
         /\ left' >= left - 1 /\ late' >= late
         /\ left' = left \/ late' = late + 1
<1>1. left \in Nat /\ left' \in Nat /\ late \in Nat /\ left' >= left - 1
  BY CycleNumbers, NumbersAre DEF Engines, Typed
<1>2. /\ late' = (IF Ready THEN late + 1 ELSE late)
      /\ left' = (IF pc \in {"wave", "poll", "expiry"} THEN Less(left) ELSE left)
  BY DEF Cycle
<1>3. CASE pc \in {"poll", "expiry"}
  <2>1. Ready
    BY <1>3 DEF Ready
  <2>2. late' = late + 1
    BY <1>2, <2>1, Zenon
  <2> QED BY <1>1, <2>2
<1>4. CASE pc \notin {"poll", "expiry"}
  <2>1. pc \notin {"wave", "poll", "expiry"}
    <3>1. pc # "wave"
      BY DEF Tuned
    <3> QED BY <1>4, <3>1
  <2>2. left' = left
    BY <1>2, <2>1, Zenon
  <2>3. late' = late \/ late' = late + 1
    BY <1>2, Zenon
  <2> QED BY <1>1, <2>2, <2>3
<1> QED BY <1>3, <1>4

\* After the interrupt: the machine reads the tape as the target plays it.
LEMMA AnswerCycle ==
  ASSUME Layout, Engines, Tracking, Cycle, Sending, Tuned, P(tx) = 13
  PROVE  Receiving'
<1>1. PICK u : u = rx'
  OBVIOUS
<1>2. PICK r : r = rising'
  OBVIOUS
<1>3. PICK b : b = Sent
  OBVIOUS
<1>4. PICK sp : sp = spare'
  OBVIOUS
<1>5. PICK lf : lf = left'
  OBVIOUS
<1>6. PICK lt : lt = late'
  OBVIOUS
<1>7. PICK i : i = irq'
  OBVIOUS
<1>8. dir = 0 /\ ~Raises
  <2>1. PICK t : t = tx'
    OBVIOUS
  <2> QED BY <2>1, TxBeats, Zenon
<1>9. Receives(exchange, Q(rx), rx, irq, answer, rising, rise, spare, left, late)
  BY Zenon DEF Tracking, Tracks, Receiving
<1>10. /\ Told(exchange, answer) /\ (answer # << >> \/ exchange.answer = << >> => spare = 0)
       /\ rx.out = << >> =>
            /\ Q(rx) = 3 => irq
            /\ Reads(exchange, Q(rx), rx, Gone(exchange, answer), Rest(answer), rising, rise,
                     spare - left)
       /\ rx.out # << >> => Said(exchange, rise, Head(rx.out)) /\ spare - left <= 8 + late
  BY <1>9, Zenon DEF Receives
<1>11. exchange \in Exchanges
  BY SendingIs, Zenon
<1>12. spare \in Nat /\ rx.on /\ mode = Wanted
  BY Zenon DEF Tracking, Tracks, Tunes
<1>13. u = Stepped(rx) /\ Hearing(rx) /\ pc # "off"
  BY <1>1, CycleTunes, Zenon
<1>14. rising \in Nat
  BY EngineAssumption DEF Engines, Typed
<1>15. UNCHANGED <<exchange, offset, rise>>
  BY CycleNumbers
<1>16. /\ answer' = b /\ Told(exchange, b) /\ sp \in Nat
       /\ b # << >> \/ exchange.answer = << >> => sp = 0
       /\ Turning(exchange, Gone(exchange, answer), Rest(answer), rising, rise, spare - left,
                  Gone(exchange, b), Rest(b), r, sp - lf)
       /\ answer = << >> => sp = spare
       /\ answer # << >> => sp - lf <= 1
  BY <1>2, <1>3, <1>4, <1>5, <1>8, <1>10, <1>11, <1>12, CycleTurns, Zenon
<1>17. Pin = 0 <=> Down(Gone(exchange, answer), rising)
  BY <1>8, <1>10, <1>11, <1>14, PinIs, Zenon
<1>18. lf \in Nat /\ lt \in Nat
  <2>1. left' \in 0 .. TIMEOUT /\ late' \in 0 .. LATE
    BY CycleNumbers
  <2> QED BY <1>5, <1>6, <2>1, NumbersAre
<1> DEFINE n == Gone(exchange, answer)
           h == Rest(answer)
           g == spare - left
           n2 == Gone(exchange, b)
           h2 == Rest(b)
           g2 == sp - lf
<1>19. CASE rx.out = << >>
  <2> HIDE DEF n, h, g, n2, h2, g2
  <2>1. Turning(exchange, n, h, rising, rise, g, n2, h2, r, g2)
    BY <1>16, Zenon DEF n, h, g, n2, h2, g2
  <2>2. Reads(exchange, Q(rx), rx, n, h, rising, rise, g) /\ (Q(rx) = 3 => irq)
    BY <1>10, <1>19, Zenon DEF n, h, g
  <2>3. Pin = 0 <=> Down(n, rising)
    BY <1>17, Zenon DEF n
  <2>4. /\ u.out = << >> => Q(u) # 3 /\ Reads(exchange, Q(u), u, n2, h2, r, rise, g2)
        /\ u.out # << >> => Said(exchange, rise, Head(u.out)) /\ Late(exchange, n2, g2)
    BY <1>12, <1>13, <1>19, <2>1, <2>2, <2>3, RxReads, Zenon
  <2>5. u.out # << >> => sp - lf <= 8 + lt
    <3> SUFFICES ASSUME u.out # << >> PROVE sp - lf <= 8 + lt
      OBVIOUS
    <3>1. CASE exchange.answer = << >> \/ b # << >>
      <4>1. sp = 0
        BY <1>16, <3>1, Zenon
      <4> QED BY <1>18, <4>1
    <3>2. CASE exchange.answer # << >> /\ b = << >>
      <4> DEFINE c == exchange.answer
      <4>1. c \in Seq(Nat)
        BY <1>11, AnswerIs
      <4>2. Len(c) # 0 /\ Len(b) = 0 /\ Len(c) - 0 = Len(c)
        BY <3>2, <4>1
      <4>3. n2 = Len(c) - Len(b)
        BY Zenon DEF n2, Gone
      <4>4. n2 = Len(c)
        BY <4>2, <4>3, Zenon
      <4>5. ~(Len(c) < Len(c))
        BY <4>1
      <4>6. g2 <= 8
        BY <2>4, <4>2, <4>4, <4>5, Zenon DEF Late
      <4>7. sp - lf <= 8
        BY <4>6 DEF g2
      <4> QED BY <1>16, <1>18, <4>7
    <3> QED BY <3>1, <3>2
  <2>6. Receives(exchange, Q(u), u, i, b, r, rise, sp, lf, lt)
    BY <2>4, <1>16, <2>5, Zenon DEF n2, h2, g2, Receives
  <2> QED BY <1>1, <1>2, <1>4, <1>5, <1>6, <1>7, <1>15, <1>16, <2>6, ReceivingIs, Zenon
<1>20. CASE rx.out # << >>
  <2>1. u.out = rx.out
    BY <1>13, <1>20, OutStays, Zenon
  <2>2. Said(exchange, rise, Head(u.out)) /\ spare - left <= 8 + late
    BY <1>10, <1>20, <2>1, Zenon
  <2>3. sp - lf <= 8 + lt
    <3>1. /\ left \in Nat /\ late \in Nat /\ lf >= left - 1 /\ lt >= late
          /\ lf = left \/ lt = late + 1
      BY <1>5, <1>6, <1>20, WordWaits
    <3>2. CASE answer = << >>
      <4>1. sp = spare
        BY <1>16, <3>2, Zenon
      <4> QED BY <1>12, <1>18, <2>2, <3>1, <4>1
    <3>3. CASE answer # << >>
      <4>1. sp - lf <= 1
        BY <1>16, <3>3, Zenon
      <4> QED BY <1>16, <1>18, <4>1
    <3> QED BY <3>2, <3>3
  <2>4. Receives(exchange, Q(u), u, i, b, r, rise, sp, lf, lt)
    BY <1>16, <1>20, <2>1, <2>2, <2>3, Zenon DEF Receives
  <2> QED BY <1>1, <1>2, <1>4, <1>5, <1>6, <1>7, <1>15, <1>16, <2>4, ReceivingIs, Zenon
<1> QED BY <1>19, <1>20

LEMMA PlayTracks ==
  ASSUME Layout, Engines, Tracking, Cycle, Sending
  PROVE  Tracking'
<1>1. /\ Answered' /\ Tunes' /\ (Tuned' <=> Tuned) /\ Sending'
  BY CycleTunes, Zenon
<1>2. Still'
  BY CycleNumbers DEF Sending, Still
<1>3. Falls'
  <2>1. UNCHANGED <<exchange, div>>
    BY CycleNumbers
  <2>2. Falls
    BY Zenon DEF Tracking, Tracks
  <2>3. Falling(exchange, div, dir', rising', Owes(exchange, div, J(tx', K'), D(tx'), phase'))
    BY <2>2, FallsCycle, Zenon
  <2>4. J(tx, K)' = J(tx', K') /\ D(tx)' = D(tx')
    BY Zenon DEF J, D, P
  <2> QED BY <2>1, <2>3, <2>4, Zenon DEF Falls
<1>4. Alert'
  BY AlertCycle
<1>5. Receiving'
  <2> SUFFICES ASSUME Tuned, P(tx)' = 13 PROVE Receiving'
    BY <1>1, Zenon DEF Receiving
  <2>1. P(tx) = 13 \/ Raises
    <3>1. PICK t : t = tx'
      OBVIOUS
    <3> QED BY <3>1, TxBeats, Zenon
  <2> QED BY <2>1, AnswerCycle, RaisedTracks
<1> QED BY <1>1, <1>2, <1>3, <1>4, <1>5, Zenon DEF Tracking, Tracks

LEMMA NextTracking ==
  ASSUME Layout, Engines, Tracking, [Next]_vars
  PROVE  Tracking'
<1>1. CASE Initialise
  BY <1>1, InitialiseTracks
<1>2. CASE Request
  BY <1>2, RequestTracks
<1>3. CASE TakePad
  BY <1>3, TakePadTracks
<1>4. CASE Cycle
  BY <1>4, RestTracks, PlayTracks
<1>5. CASE Cpu
  <2>1. \/ Arm \/ Setup \/ Start \/ Enable \/ (DmaDone \/ PollEmpty \/ InTime) \/ EmitEnds
        \/ Expired \/ PollTakes \/ Stop
    BY <1>5 DEF Cpu, EmitSegments, CaptureResponse, TickCaptureResponse, DecodeBits,
                Transmit, Receive
  <2> QED BY <2>1, ArmTracks, SetupTracks, StartTracks, EnableTracks, LookTracks,
             EmitEndsTracks, ExpiredTracks, PollTakesTracks, StopTracks
<1>6. CASE UNCHANGED vars
  <2>1. /\ UNCHANGED <<pc, exchange, result, got, mode, offset, tx, rx, irq, dir, div, phase>>
        /\ UNCHANGED <<dma, left, late, rising, rise, answer, spare>>
    BY <1>6 DEF vars, report, memory, lines, feed, wire
  <2>2. (Tuned' <=> Tuned) /\ (Sending' <=> Sending)
    BY <2>1, Zenon DEF Tuned, Sending
  <2>3. Tracks'
    BY <2>1, <2>2, TracksSame, Zenon DEF Tracking
  <2>4. Answered'
    BY <2>1, AnsweredSame, Zenon DEF Tracking
  <2> QED BY <2>3, <2>4, Zenon DEF Tracking
<1> QED BY <1>1, <1>2, <1>3, <1>4, <1>5, <1>6 DEF Next

LEMMA AlwaysTracking == Spec => []Tracking
<1>1. Layout /\ Engines /\ Tracking /\ [Next]_vars => Tracking'
  BY NextTracking
<1> QED BY <1>1, InitTracking, AlwaysEngines, PTL DEF Spec

\* What the CPU reports as an answer is the target's answer to this frame, for
\* every frame, answer, rise of the line and delay of the CPU: no word is left
\* from an earlier exchange, no pulse of the host's is taken for the target's
\* but that of a line which still rises after a frame that ends low, and the
\* counts and bits are those of the pulses on the wire.
THEOREM ResponsesAreOwn == Spec => []ResponseIsOwn
<1>1. Tracking => ResponseIsOwn
  BY Zenon DEF Tracking, Answered, Own, ResponseIsOwn, Over
<1> QED BY <1>1, AlwaysTracking, PTL

\* A whole answer that the CPU reports as a timeout ended no more than eight
\* cycles, and those the CPU was late, before the deadline.
THEOREM AnswersHeard == Spec => []AnswerHeard
<1>1. Engines /\ Tracking => AnswerHeard
  <2> SUFFICES ASSUME Engines, Tracking, Over, result = "TIMEOUT",
                      Len(exchange.answer) >= 2 * exchange.bits
               PROVE  spare <= 8 + LATE
    BY Zenon DEF AnswerHeard
  <2>1. result # "NONE" /\ result # "OK"
    OBVIOUS
  <2>2. exchange.kind # "emit"
    BY <2>1, Zenon DEF Engines, Served, Over
  <2>3. Overdue
    BY <2>1, <2>2, Zenon DEF Tracking, Answered
  <2> QED BY <2>3, Zenon DEF Overdue
<1> QED BY <1>1, AlwaysTracking, AlwaysEngines, PTL
=============================================================================
