--------------------------- MODULE HostFlow_proofs --------------------------
(***************************************************************************)
(* Proofs about the commands of the host: what a file means, and what a    *)
(* command that succeeds has done.                                         *)
(***************************************************************************)
EXTENDS HostFlow, SequenceTheorems, NaturalFacts, TLAPS

CallSet == {"open", "report", "enter", "access", "try", "reset", "unlock", "check",
            "erase", "write", "verify", "before", "option", "reconnect", "after",
            "give up"}

\* Which call may follow which, in the commands with promises about memory.
Follow(c, h, n) ==
  /\ c.kind \in {"set-rop", "unprotect-rop"} =>
       <<h, n>> \in {<<"open", "enter">>, <<"enter", "before">>, <<"before", "option">>,
                     <<"option", "reconnect">>, <<"reconnect", "after">>} \cup
         IF c.kind = "set-rop" THEN {<<"after", "end">>}
         ELSE {<<"after", "access">>, <<"access", "end">>}
  /\ c.kind = "flash" =>
       <<h, n>> \in {<<"open", "enter">>, <<"enter", "unlock">>, <<"unlock", "erase">>,
                     <<"erase", "write">>} \cup
         CASE c.verify /\ c.reset ->
                {<<"write", "verify">>, <<"verify", "reset">>, <<"reset", "end">>}
           [] c.verify /\ ~c.reset -> {<<"write", "verify">>, <<"verify", "end">>}
           [] ~c.verify /\ c.reset -> {<<"write", "reset">>, <<"reset", "end">>}
           [] OTHER -> {<<"write", "end">>}

FollowIn(s, c) ==
  /\ \A i \in 1 .. Len(s) - 1 : Follow(c, s[i], s[i + 1])
  /\ s # <<>> => Follow(c, s[Len(s)], "end")

LEMMA NumbersAre ==
  /\ FlashSize \in Nat \ {0} /\ BlockSize \in Nat \ {0} /\ Attempts \in Nat \ {0}
  /\ BYTE \in Nat \ {0} /\ FlashStart \in Nat /\ FlashSize % BlockSize = 0
  /\ MaxFaults \in Nat /\ MaxCmds \in Nat /\ PARA \in Nat /\ LINEAR \in Nat
  /\ Erased \in Byte
BY DeviceAssumption, BoundAssumption, FileAssumption DEF Erased, Byte

LEMMA FlowIs ==
  ASSUME NEW c \in Commands
  PROVE  /\ Flow(c) \in Seq(CallSet) /\ FollowIn(Flow(c), c)
         /\ Flow(c) # <<>> /\ Flow(c)[1] = "open"
<1>1. c.kind \in Kinds
  BY CommandAssumption
<1>2. CASE c.kind = "flash"
  <2> DEFINE base == <<"open", "enter", "unlock", "erase", "write">>
             v == IF c.verify THEN <<"verify">> ELSE << >>
             r == IF c.reset THEN <<"reset">> ELSE << >>
  <2>1. c.verify \in BOOLEAN /\ c.reset \in BOOLEAN
    BY <1>2, CommandAssumption
  <2>2. Flow(c) = (base \o v) \o r
    BY <1>2 DEF Flow
  <2>3. base \in Seq(CallSet) /\ Len(base) = 5
    BY DEF CallSet
  <2>4. /\ v \in Seq(CallSet) /\ r \in Seq(CallSet)
        /\ Len(v) = (IF c.verify THEN 1 ELSE 0) /\ Len(r) = IF c.reset THEN 1 ELSE 0
        /\ c.verify => v[1] = "verify"
        /\ c.reset => r[1] = "reset"
    <3>1. << >> \in Seq(CallSet) /\ Len(<< >>) = 0
      BY EmptySeq
    <3>2. \A s \in CallSet : <<s>> \in Seq(CallSet) /\ Len(<<s>>) = 1 /\ <<s>>[1] = s
      OBVIOUS
    <3>3. "verify" \in CallSet /\ "reset" \in CallSet
      BY DEF CallSet
    <3>4. /\ v \in Seq(CallSet) /\ Len(v) = IF c.verify THEN 1 ELSE 0
          /\ c.verify => v[1] = "verify"
      BY <2>1, <3>1, <3>2, <3>3
    <3>5. /\ r \in Seq(CallSet) /\ Len(r) = IF c.reset THEN 1 ELSE 0
          /\ c.reset => r[1] = "reset"
      BY <2>1, <3>1, <3>2, <3>3
    <3> QED BY <3>4, <3>5
  <2>5. /\ base[1] = "open" /\ base[2] = "enter" /\ base[3] = "unlock"
        /\ base[4] = "erase" /\ base[5] = "write"
    OBVIOUS
  <2> HIDE DEF base, v, r
  <2> DEFINE bv == base \o v
             n == Len(bv)
             f == bv \o r
  <2>6. /\ bv \in Seq(CallSet) /\ n = 5 + Len(v)
        /\ \A i \in 1 .. 5 : bv[i] = base[i]
        /\ c.verify => bv[6] = "verify"
    <3>1. /\ bv \in Seq(CallSet) /\ Len(bv) = Len(base) + Len(v)
          /\ \A i \in 1 .. Len(base) + Len(v) :
               bv[i] = IF i <= Len(base) THEN base[i] ELSE v[i - Len(base)]
      BY <2>3, <2>4, ConcatProperties
    <3> HIDE DEF bv
    <3> QED BY <2>1, <2>3, <2>4, <3>1
  <2> HIDE DEF bv, n
  <2>7. /\ f \in Seq(CallSet) /\ Len(f) = n + Len(r)
        /\ \A i \in 1 .. n : f[i] = bv[i]
        /\ c.reset => f[n + 1] = "reset"
    <3>1. n \in Nat /\ n = Len(bv)
      BY <2>1, <2>4, <2>6 DEF n
    <3>2. /\ f \in Seq(CallSet) /\ Len(f) = Len(bv) + Len(r)
          /\ \A i \in 1 .. Len(bv) + Len(r) :
               f[i] = IF i <= Len(bv) THEN bv[i] ELSE r[i - Len(bv)]
      BY <2>4, <2>6, ConcatProperties
    <3> HIDE DEF f
    <3> QED BY <2>1, <2>4, <3>1, <3>2
  <2> HIDE DEF f
  <2>8. /\ f[1] = "open" /\ f[2] = "enter" /\ f[3] = "unlock" /\ f[4] = "erase"
        /\ f[5] = "write" /\ n \in {5, 6} /\ Len(f) \in {5, 6, 7}
    <3>1. n \in {5, 6} /\ Len(f) \in {5, 6, 7}
      BY <2>1, <2>4, <2>6, <2>7
    <3>2. \A i \in 1 .. 5 : i \in 1 .. n
      BY <3>1
    <3>3. \A i \in 1 .. 5 : f[i] = base[i]
      BY <2>6, <2>7, <3>2
    <3> QED BY <2>5, <3>1, <3>3
  <2>9. FollowIn(f, c)
    <3>1. CASE c.verify /\ c.reset
      <4>1. Len(f) = 7 /\ f[6] = "verify" /\ f[7] = "reset"
        BY <2>4, <2>6, <2>7, <3>1
      <4> QED BY <1>2, <2>8, <3>1, <4>1 DEF FollowIn, Follow
    <3>2. CASE c.verify /\ ~c.reset
      <4>1. Len(f) = 6 /\ f[6] = "verify"
        BY <2>4, <2>6, <2>7, <3>2
      <4> QED BY <1>2, <2>8, <3>2, <4>1 DEF FollowIn, Follow
    <3>3. CASE ~c.verify /\ c.reset
      <4>1. Len(f) = 6 /\ f[6] = "reset"
        BY <2>4, <2>6, <2>7, <3>3
      <4> QED BY <1>2, <2>8, <3>3, <4>1 DEF FollowIn, Follow
    <3>4. CASE ~c.verify /\ ~c.reset
      <4>1. Len(f) = 5
        BY <2>4, <2>6, <2>7, <3>4
      <4> QED BY <1>2, <2>8, <3>4, <4>1 DEF FollowIn, Follow
    <3> QED BY <2>1, <3>1, <3>2, <3>3, <3>4
  <2>10. f # <<>>
    BY <2>7, <2>8, EmptySeq
  <2> QED BY <2>2, <2>7, <2>8, <2>9, <2>10 DEF f, bv
<1>3. CASE c.kind = "set-rop"
  <2>1. Flow(c) = <<"open", "enter", "before", "option", "reconnect", "after">>
    BY <1>3 DEF Flow
  <2> QED BY <1>3, <2>1 DEF CallSet, FollowIn, Follow
<1>4. CASE c.kind = "unprotect-rop"
  <2>1. Flow(c) = <<"open", "enter", "before", "option", "reconnect", "after", "access">>
    BY <1>4 DEF Flow
  <2> QED BY <1>4, <2>1 DEF CallSet, FollowIn, Follow
<1>5. CASE c.kind \notin {"flash", "set-rop", "unprotect-rop"}
  <2>1. FollowIn(Flow(c), c)
    BY <1>5 DEF FollowIn, Follow
  <2>2. Flow(c) \in Seq(CallSet) /\ Flow(c) # <<>> /\ Flow(c)[1] = "open"
    <3>1. CASE c.kind = "probe"
      BY <3>1 DEF Flow, CallSet
    <3>2. CASE c.kind = "enter-debug"
      BY <3>2 DEF Flow, CallSet
    <3>3. CASE c.kind = "entry-waveform"
      BY <3>3 DEF Flow, CallSet
    <3>4. CASE c.kind = "reset"
      BY <3>4 DEF Flow, CallSet
    <3>5. CASE c.kind \in {"read", "write-ram", "rop-status"}
      <4>1. Flow(c) = <<"open", "enter", "access">>
        BY <3>5 DEF Flow
      <4> QED BY <4>1 DEF CallSet
    <3>6. CASE c.kind = "unlock"
      BY <3>6 DEF Flow, CallSet
    <3>7. CASE c.kind = "erase"
      BY <3>7 DEF Flow, CallSet
    <3> QED BY <1>1, <1>5, <3>1, <3>2, <3>3, <3>4, <3>5, <3>6, <3>7 DEF Kinds
  <2> QED BY <2>1, <2>2
<1> QED BY <1>2, <1>3, <1>4, <1>5

-----------------------------------------------------------------------------
(* Types.                                                                  *)

NoCommand == [kind |-> "none"]
Promising == {"flash", "set-rop", "unprotect-rop"}
ControlTyped ==
  /\ cmd \in Commands \cup {NoCommand}
  /\ cmd = NoCommand => steps = << >>
  /\ steps \in Seq(CallSet) /\ FollowIn(steps, cmd)
  /\ code \in {"none", "running", "success", "error"}
  /\ (code = "running") <=> (steps # << >>)
  /\ image \in [Flash -> Byte] /\ cmds \in 0 .. MaxCmds
  /\ offset \in 0 .. FlashSize /\ offset % BlockSize = 0
  /\ attempt \in 0 .. Attempts /\ (steps # << >> => attempt < Attempts)
TargetTyped ==
  /\ flash \in [Flash -> Byte] /\ faults \in 0 .. MaxFaults
  /\ opt \in BOOLEAN /\ prot \in BOOLEAN /\ open \in BOOLEAN /\ up \in BOOLEAN
  /\ alive \in BOOLEAN /\ faked \in BOOLEAN
Typed == ControlTyped /\ TargetTyped

\* What the loop of cmd_flash finds.
LEMMA NextBlockIs ==
  ASSUME image \in [Flash -> Byte], offset \in 0 .. FlashSize
  PROVE  LET n == NextBlock(offset)
         IN  /\ n \in offset .. FlashSize /\ n % BlockSize = 0
             /\ \A k \in offset .. n - 1 :
                  k % BlockSize = 0 => \A a \in BlockOf(FlashStart + k) : image[a] = Erased
<1> DEFINE T == {n \in offset .. FlashSize :
                   /\ n % BlockSize = 0
                   /\ n < FlashSize => \E a \in BlockOf(FlashStart + n) : image[a] # Erased}
<1>1. FlashSize \in T /\ T \subseteq Nat
  BY NumbersAre
<1>2. PICK m \in T : \A k \in T : m <= k
  BY <1>1, LeastNatural
<1>3. \A k \in offset .. m - 1 :
        k % BlockSize = 0 => \A a \in BlockOf(FlashStart + k) : image[a] = Erased
  <2> TAKE k \in offset .. m - 1
  <2>1. m \in Nat /\ m <= FlashSize /\ k \in offset .. FlashSize /\ k < m
    BY <1>1, <1>2, NumbersAre
  <2>2. k \notin T
    BY <1>2, <2>1
  <2> QED BY <2>1, <2>2, NumbersAre
<1>4. \E n \in offset .. FlashSize :
        /\ n % BlockSize = 0
        /\ n < FlashSize => \E a \in BlockOf(FlashStart + n) : image[a] # Erased
        /\ \A k \in offset .. n - 1 :
             k % BlockSize = 0 => \A a \in BlockOf(FlashStart + k) : image[a] = Erased
  BY <1>2, <1>3
<1> QED BY <1>4 DEF NextBlock

LEMMA FirstCall ==
  ASSUME steps \in Seq(CallSet), NEW s, Calls(s)
  PROVE  /\ steps # << >> /\ s = steps[1] /\ s \in CallSet
         /\ Len(steps) \in Nat \ {0} /\ Tail(steps) \in Seq(CallSet)
         /\ Len(Tail(steps)) = Len(steps) - 1
         /\ \A i \in 1 .. Len(steps) - 1 : Tail(steps)[i] = steps[i + 1]
<1>1. steps # << >> /\ s = Head(steps)
  BY DEF Calls
<1>2. Len(steps) \in Nat \ {0}
  BY <1>1, EmptySeq
<1>3. Head(steps) = steps[1]
  BY <1>1
<1>4. /\ Head(steps) \in CallSet /\ Tail(steps) \in Seq(CallSet)
      /\ Len(Tail(steps)) = Len(steps) - 1
      /\ \A i \in 1 .. Len(Tail(steps)) : Tail(steps)[i] = steps[i + 1]
  BY <1>1, HeadTailProperties
<1> QED BY <1>1, <1>2, <1>3, <1>4

\* A call that succeeds is followed by the next, or ends the command.
LEMMA ProceedIs ==
  ASSUME steps \in Seq(CallSet), FollowIn(steps, cmd), NEW s, Calls(s), Proceed,
         UNCHANGED cmd
  PROVE  /\ steps' \in Seq(CallSet) /\ FollowIn(steps, cmd)'
         /\ code' = IF steps' = << >> THEN "success" ELSE "running"
         /\ steps' = << >> => Follow(cmd, s, "end")
         /\ \A n : Calls(n)' => Follow(cmd, s, n)
<1>1. /\ steps # << >> /\ s = steps[1] /\ steps' = Tail(steps)
      /\ Len(steps) \in Nat \ {0} /\ steps' \in Seq(CallSet)
      /\ Len(steps') = Len(steps) - 1
      /\ \A i \in 1 .. Len(steps) - 1 : steps'[i] = steps[i + 1]
      /\ code' = IF steps' = << >> THEN "success" ELSE "running"
  BY FirstCall DEF Proceed
<1>2. steps' = << >> <=> Len(steps) = 1
  <2>1. steps' = << >> <=> Len(steps') = 0
    BY <1>1, EmptySeq
  <2>2. Len(steps') = Len(steps) - 1 /\ Len(steps) \in Nat
    BY <1>1
  <2> QED BY <2>1, <2>2
<1>3. \A i \in 1 .. Len(steps') - 1 : Follow(cmd, steps'[i], steps'[i + 1])
  <2> TAKE i \in 1 .. Len(steps') - 1
  <2>1. i + 1 \in 1 .. Len(steps) - 1 /\ i \in 1 .. Len(steps) - 1
    BY <1>1
  <2> QED BY <1>1, <2>1 DEF FollowIn
<1>4. steps' # << >> => steps'[Len(steps')] = steps[Len(steps)]
  BY <1>1, <1>2
<1>5. FollowIn(steps, cmd)'
  BY <1>1, <1>3, <1>4 DEF FollowIn
<1>6. ASSUME NEW n, Calls(n)'
      PROVE  Follow(cmd, s, n)
  <2>1. steps' # << >> /\ n = Head(steps')
    BY <1>6 DEF Calls
  <2>2. n = steps'[1] /\ 1 \in 1 .. Len(steps) - 1
    BY <1>1, <1>2, <2>1
  <2> QED BY <1>1, <2>2 DEF FollowIn
<1> QED BY <1>1, <1>2, <1>5, <1>6 DEF FollowIn

-----------------------------------------------------------------------------
\* A command goes on to its next call, ends, or tries again.
LEMMA NoSteps ==
  ASSUME NEW c
  PROVE  << >> \in Seq(CallSet) /\ FollowIn(<< >>, c)
BY EmptySeq DEF FollowIn

LEMMA KindIs ==
  ASSUME ControlTyped
  PROVE  /\ cmd.kind \in Kinds \cup {"none"}
         /\ cmd # NoCommand => cmd \in Commands /\ cmd.kind \in Kinds
         /\ steps # << >> => cmd \in Commands
BY CommandAssumption DEF ControlTyped, NoCommand

LEMMA ControlStep ==
  ASSUME ControlTyped, NEW s, Calls(s), UNCHANGED <<cmd, image, cmds, offset, attempt>>,
         \/ Proceed
         \/ Exit("success") \/ Exit("error")
         \/ UNCHANGED <<steps, code>>
  PROVE  ControlTyped'
<1>1. CASE Proceed
  <2>1. /\ steps' \in Seq(CallSet) /\ FollowIn(steps, cmd)'
        /\ code' = IF steps' = << >> THEN "success" ELSE "running"
    BY <1>1, ProceedIs DEF ControlTyped
  <2>2. steps # << >>
    BY DEF Calls
  <2> QED BY <2>1, <2>2 DEF ControlTyped
<1>2. CASE Exit("success") \/ Exit("error")
  <2>1. steps' = << >> /\ code' \in {"success", "error"}
    BY <1>2 DEF Exit
  <2>2. steps' \in Seq(CallSet) /\ FollowIn(steps, cmd)'
    BY <2>1, NoSteps DEF FollowIn
  <2> QED BY <2>1, <2>2 DEF ControlTyped
<1>3. CASE UNCHANGED <<steps, code>>
  BY <1>3 DEF ControlTyped, FollowIn
<1> QED BY <1>1, <1>2, <1>3

LEMMA FaultTyped ==
  ASSUME faults \in 0 .. MaxFaults, Fault
  PROVE  faults' \in 0 .. MaxFaults
BY NumbersAre DEF Fault

\* What the target makes of its flash.
LEMMA FlashTyped ==
  ASSUME flash \in [Flash -> Byte], image \in [Flash -> Byte], NEW S
  PROVE  Wiped(S) \in [Flash -> Byte] /\ Written(S) \in [Flash -> Byte]
         /\ [a \in Flash |-> Erased] \in [Flash -> Byte]
BY NumbersAre DEF Wiped, Written

LEMMA PartTyped ==
  ASSUME TargetTyped, image \in [Flash -> Byte], NEW s, PartOf(s),
         UNCHANGED <<alive, faked>>, faults' \in 0 .. MaxFaults
  PROVE  TargetTyped'
<1>1. flash \in [Flash -> Byte] /\ opt \in BOOLEAN /\ prot \in BOOLEAN
      /\ open \in BOOLEAN /\ up \in BOOLEAN
  BY DEF TargetTyped
<1>2. flash' \in [Flash -> Byte] /\ opt' \in BOOLEAN /\ prot' \in BOOLEAN
      /\ open' \in BOOLEAN /\ up' \in BOOLEAN
  <2>1. CASE s \in {"enter", "try", "reset"}
    BY <1>1, <2>1 DEF PartOf
  <2>2. CASE s = "unlock"
    BY <1>1, <2>2 DEF PartOf
  <2>3. CASE s = "erase"
    BY <1>1, <2>3, FlashTyped DEF PartOf
  <2>4. CASE s = "write"
    BY <1>1, <2>4, FlashTyped DEF PartOf
  <2>5. CASE s = "option"
    <3>1. Wants(cmd) \in BOOLEAN
      BY DEF Wants
    <3> QED BY <1>1, <2>5, <3>1, FlashTyped DEF PartOf, OptionDone
  <2>6. CASE s \notin {"enter", "try", "reset", "unlock", "erase", "write", "option"}
    BY <1>1, <2>6 DEF PartOf
  <2> QED BY <2>1, <2>2, <2>3, <2>4, <2>5, <2>6
<1> QED BY <1>2 DEF TargetTyped

LEMMA InitTyped == Init => Typed
<1> SUFFICES ASSUME Init PROVE Typed
  OBVIOUS
<1>1. cmd = NoCommand /\ steps = << >> /\ code = "none"
  BY DEF Init, NoCommand
<1>2. ControlTyped
  <2>1. steps \in Seq(CallSet) /\ FollowIn(steps, cmd)
    BY <1>1, NoSteps
  <2>2. image \in [Flash -> Byte] /\ cmds = 0 /\ offset = 0 /\ attempt = 0
    BY NumbersAre DEF Init
  <2>3. offset % BlockSize = 0 /\ 0 \in 0 .. FlashSize /\ 0 \in 0 .. MaxCmds
        /\ 0 \in 0 .. Attempts
    BY <2>2, NumbersAre
  <2> QED BY <1>1, <2>1, <2>2, <2>3 DEF ControlTyped
<1>3. TargetTyped
  <2>1. 0 \in 0 .. MaxFaults
    BY NumbersAre
  <2> QED BY <2>1, DeviceAssumption DEF TargetTyped, Init
<1> QED BY <1>2, <1>3 DEF Typed

LEMMA ImageTyped ==
  ASSUME NEW m
  PROVE  image_for_range(m) \in [Flash -> Byte]
<1>1. \A a \in Flash :
        (IF \E v \in Byte : <<a, v>> \in m THEN CHOOSE v \in Byte : <<a, v>> \in m
         ELSE Erased) \in Byte
  BY NumbersAre
<1> QED BY <1>1 DEF image_for_range

LEMMA LaunchTyped ==
  ASSUME Typed, Launch
  PROVE  Typed'
<1>1. cmd' \in Commands /\ cmd' # NoCommand
  BY CommandAssumption DEF Launch, NoCommand, Kinds
<1>2. image' \in [Flash -> Byte]
  BY ImageTyped DEF Launch, Typed, ControlTyped
<1>3. /\ steps' \in Seq(CallSet) /\ FollowIn(steps', cmd')
      /\ code' \in {"none", "running", "success", "error"}
      /\ (code' = "running") <=> (steps' # << >>)
  <2>1. CASE Refused(cmd')
    BY <2>1, NoSteps DEF Launch, Exit
  <2>2. CASE ~Refused(cmd')
    <3>1. steps' = Flow(cmd') /\ code' = "running"
      BY <2>2 DEF Launch
    <3> QED BY <1>1, <3>1, FlowIs
  <2> QED BY <2>1, <2>2
<1>4. cmds' \in 0 .. MaxCmds /\ offset' = 0 /\ attempt' = 0
  BY NumbersAre DEF Launch, Typed, ControlTyped
<1>5. /\ offset' \in 0 .. FlashSize /\ offset' % BlockSize = 0
      /\ attempt' \in 0 .. Attempts /\ attempt' < Attempts
  BY <1>4, NumbersAre
<1>6. FollowIn(steps, cmd)'
  BY <1>3 DEF FollowIn
<1>7. ControlTyped'
  BY <1>1, <1>2, <1>3, <1>4, <1>5, <1>6 DEF ControlTyped
<1>8. TargetTyped'
  BY DEF Launch, Typed, TargetTyped, target
<1> QED BY <1>7, <1>8 DEF Typed

\* The calls that go through ControlStep, and what they leave of the target.
LEMMA CallTyped ==
  ASSUME Typed,
         \/ Open \/ Enter \/ GiveUp \/ Unlock \/ Check \/ Erase \/ WritesDone \/ Verify
         \/ Reset \/ Access \/ Report \/ RopBefore \/ WriteRop \/ Reconnect \/ RopAfter
  PROVE  Typed'
<1> USE DEF loop, target
<1>1. ControlTyped /\ TargetTyped
  BY DEF Typed
<1>2. /\ flash \in [Flash -> Byte] /\ image \in [Flash -> Byte]
      /\ faults \in 0 .. MaxFaults
  BY <1>1 DEF ControlTyped, TargetTyped
<1>3. CASE Open
  BY <1>1, <1>3, ControlStep DEF Open, Typed, TargetTyped
<1>4. CASE Enter
  BY <1>1, <1>4, ControlStep DEF Enter, Typed, TargetTyped
<1>5. CASE GiveUp
  BY <1>1, <1>5, ControlStep DEF GiveUp, Typed, TargetTyped
<1>6. CASE Unlock
  <2>1. faults' \in 0 .. MaxFaults
    BY <1>2, <1>6, FaultTyped DEF Unlock
  <2>2. TargetTyped'
    BY <1>1, <1>6, <2>1 DEF Unlock, TargetTyped
  <2> QED BY <1>1, <1>6, <2>2, ControlStep DEF Unlock, Typed
<1>7. CASE Check
  BY <1>1, <1>7, ControlStep DEF Check, Typed, TargetTyped
<1>8. CASE Erase
  <2>1. /\ faults' \in 0 .. MaxFaults /\ flash' \in [Flash -> Byte]
        /\ faked' \in {faked, TRUE}
    BY <1>2, <1>8, FaultTyped, FlashTyped DEF Erase
  <2>2. TargetTyped'
    BY <1>1, <1>8, <2>1 DEF Erase, TargetTyped
  <2> QED BY <1>1, <1>8, <2>2, ControlStep DEF Erase, Typed
<1>9. CASE WritesDone
  BY <1>1, <1>9, ControlStep DEF WritesDone, Typed, TargetTyped
<1>10. CASE Verify
  BY <1>1, <1>10, ControlStep DEF Verify, Typed, TargetTyped
<1>11. CASE Reset
  BY <1>1, <1>11, ControlStep DEF Reset, Typed, TargetTyped
<1>12. CASE Access
  BY <1>1, <1>12, ControlStep DEF Access, Typed, TargetTyped
<1>13. CASE Report
  BY <1>1, <1>13, ControlStep DEF Report, Typed, TargetTyped
<1>14. CASE RopBefore
  BY <1>1, <1>14, ControlStep DEF RopBefore, Typed, TargetTyped
<1>15. CASE WriteRop
  <2>1. /\ faults' \in 0 .. MaxFaults /\ flash' \in [Flash -> Byte]
        /\ opt' \in {opt, TRUE, FALSE} /\ faked' \in {faked, TRUE}
    BY <1>2, <1>15, FaultTyped, FlashTyped DEF WriteRop, OptionDone, Wants
  <2>2. TargetTyped'
    BY <1>1, <1>15, <2>1 DEF WriteRop, TargetTyped
  <2> QED BY <1>1, <1>15, <2>2, ControlStep DEF WriteRop, Typed
<1>16. CASE Reconnect
  BY <1>1, <1>16, ControlStep DEF Reconnect, Typed, TargetTyped
<1>17. CASE RopAfter
  BY <1>1, <1>17, ControlStep DEF RopAfter, Typed, TargetTyped
<1> QED
  BY <1>3, <1>4, <1>5, <1>6, <1>7, <1>8, <1>9, <1>10, <1>11, <1>12, <1>13, <1>14,
     <1>15, <1>16, <1>17

LEMMA TryTyped ==
  ASSUME Typed, Try
  PROVE  Typed'
<1>1. ControlTyped /\ TargetTyped /\ steps # << >>
  BY DEF Typed, Try, Calls
<1>2. UNCHANGED <<cmd, image, cmds, offset, attempt>>
  BY DEF Try, loop
<1>3. ControlTyped'
  <2>1. CASE Proceed
    BY <1>1, <1>2, <2>1, ControlStep DEF Try
  <2>2. CASE steps' = <<"report", "give up">> /\ UNCHANGED code
    <3>1. steps' \in Seq(CallSet) /\ steps' # << >>
      <4>1. "report" \in CallSet /\ "give up" \in CallSet
        BY DEF CallSet
      <4>2. \A x, y \in CallSet : <<x, y>> \in Seq(CallSet) /\ <<x, y>> # << >>
        OBVIOUS
      <4> QED BY <2>2, <4>1, <4>2
    <3>2. Calls("try") /\ steps \in Seq(CallSet) /\ FollowIn(steps, cmd)
      BY <1>1 DEF Try, ControlTyped
    <3>3. cmd.kind \notin Promising
      <4>1. steps # << >> /\ steps[1] = "try" /\ Len(steps) \in Nat \ {0}
        BY <3>2, FirstCall
      <4>2. \E n : Follow(cmd, "try", n)
        BY <3>2, <4>1 DEF FollowIn
      <4> QED BY <4>2 DEF Follow, Promising
    <3>4. FollowIn(steps, cmd)'
      BY <1>2, <3>3 DEF FollowIn, Follow, Promising
    <3> QED BY <1>1, <1>2, <2>2, <3>1, <3>4 DEF ControlTyped
  <2> QED BY <2>1, <2>2 DEF Try
<1>4. TargetTyped'
  <2>1. faults' \in 0 .. MaxFaults
    BY <1>1, FaultTyped DEF Try, TargetTyped
  <2> QED BY <1>1, <2>1 DEF Try, TargetTyped
<1> QED BY <1>3, <1>4 DEF Typed

LEMMA WriteBlockTyped ==
  ASSUME Typed, WriteBlock
  PROVE  Typed'
<1>1. ControlTyped /\ TargetTyped
  BY DEF Typed
<1>2. /\ NextBlock(offset) \in 0 .. FlashSize /\ NextBlock(offset) % BlockSize = 0
      /\ NextBlock(offset) < FlashSize
  <2>1. NextBlock(offset) \in offset .. FlashSize /\ NextBlock(offset) % BlockSize = 0
    BY <1>1, NextBlockIs DEF ControlTyped
  <2> QED BY <1>1, <2>1, NumbersAre DEF ControlTyped, WriteBlock
<1>3. offset' \in 0 .. FlashSize /\ offset' % BlockSize = 0
  <2> DEFINE n == NextBlock(offset)
  <2>1. n \in Nat /\ n % BlockSize = 0 /\ n < FlashSize /\ offset' = n + BlockSize
    BY <1>2 DEF WriteBlock
  <2> HIDE DEF n
  <2>2. n + BlockSize <= FlashSize /\ (n + BlockSize) % BlockSize = 0
    BY <2>1, NumbersAre, NextMultiple
  <2> QED BY <2>1, <2>2, NumbersAre
<1>4. ControlTyped'
  BY <1>1, <1>3 DEF WriteBlock, ControlTyped, FollowIn
<1>5. /\ faults' \in 0 .. MaxFaults /\ flash' \in [Flash -> Byte]
      /\ faked' \in {faked, TRUE}
  BY <1>1, FaultTyped, FlashTyped DEF WriteBlock, ControlTyped, TargetTyped
<1>6. TargetTyped'
  BY <1>1, <1>5 DEF WriteBlock, TargetTyped
<1> QED BY <1>4, <1>6 DEF Typed

LEMMA ReconnectFailsTyped ==
  ASSUME Typed, ReconnectFails
  PROVE  Typed'
<1>1. ControlTyped /\ TargetTyped /\ steps # << >>
  BY DEF Typed, ReconnectFails, Calls
<1>2. attempt' = attempt + 1 /\ attempt' \in 0 .. Attempts
  BY <1>1, NumbersAre DEF ReconnectFails, ControlTyped
<1>3. /\ steps' \in Seq(CallSet) /\ FollowIn(steps, cmd)'
      /\ code' \in {"none", "running", "success", "error"}
      /\ (code' = "running") <=> (steps' # << >>)
      /\ steps' # << >> => attempt' < Attempts
  <2>1. CASE attempt' = Attempts
    BY <2>1, NoSteps DEF ReconnectFails, Exit, FollowIn
  <2>2. CASE attempt' # Attempts
    BY <1>1, <1>2, <2>2, NumbersAre DEF ReconnectFails, ControlTyped, FollowIn
  <2> QED BY <2>1, <2>2
<1>4. ControlTyped'
  BY <1>1, <1>2, <1>3 DEF ReconnectFails, ControlTyped
<1>5. faults' \in 0 .. MaxFaults
  BY <1>1, FaultTyped DEF ReconnectFails, TargetTyped
<1>6. TargetTyped'
  BY <1>1, <1>5 DEF ReconnectFails, TargetTyped
<1> QED BY <1>4, <1>6 DEF Typed

LEMMA RaisesTyped ==
  ASSUME Typed, Raises
  PROVE  Typed'
<1>1. ControlTyped /\ TargetTyped /\ Calls(Head(steps))
  BY DEF Typed, Raises, Calls
<1>2. ControlTyped'
  BY <1>1, ControlStep DEF Raises, loop
<1>3. faults' \in 0 .. MaxFaults
  BY <1>1, FaultTyped DEF Raises, TargetTyped
<1>4. image \in [Flash -> Byte]
  BY <1>1 DEF ControlTyped
<1>5. TargetTyped'
  BY <1>1, <1>3, <1>4, PartTyped DEF Raises
<1> QED BY <1>2, <1>5 DEF Typed

LEMMA StepTyped == Typed /\ [Next]_vars => Typed'
<1> SUFFICES ASSUME Typed, [Next]_vars PROVE Typed'
  OBVIOUS
<1>1. CASE Launch
  BY <1>1, LaunchTyped
<1>2. CASE Host
  BY <1>2, CallTyped, TryTyped, WriteBlockTyped, ReconnectFailsTyped, RaisesTyped DEF Host
<1>3. CASE PowerLoss \/ PowerReturns
  <2>1. ControlTyped'
    BY <1>3 DEF PowerLoss, PowerReturns, loop, Typed, ControlTyped, FollowIn
  <2>2. faults' \in 0 .. MaxFaults
    BY <1>3, FaultTyped DEF PowerLoss, PowerReturns, Typed, TargetTyped
  <2>3. TargetTyped'
    BY <1>3, <2>2 DEF PowerLoss, PowerReturns, Typed, TargetTyped
  <2> QED BY <2>1, <2>3 DEF Typed
<1>4. CASE UNCHANGED vars
  BY <1>4 DEF vars, Typed, ControlTyped, TargetTyped, FollowIn
<1> QED BY <1>1, <1>2, <1>3, <1>4 DEF Next

LEMMA AlwaysTyped == Spec => []Typed
BY InitTyped, StepTyped, PTL DEF Spec

\* The types of HostFlow, and in them that the loop of reconnect_after_rop_change
\* ends after its last attempt.
THEOREM TypeCorrect == Spec => []TypeOK
<1>1. Typed => TypeOK
  BY KindIs DEF Typed, ControlTyped, TargetTyped, TypeOK
<1> QED BY <1>1, AlwaysTyped, PTL

-----------------------------------------------------------------------------
(***************************************************************************)
(* What a command has achieved by the time it makes a call, and by its     *)
(* successful end.                                                         *)
(***************************************************************************)
Cleared == [a \in Flash |-> Erased]

\* The option write took, or it was lost.
OptionTried ==
  /\ before.opt = ~Wants(cmd)
  /\ opt = Wants(cmd) => flash = IF Wants(cmd) THEN before.flash ELSE Cleared
RopDue(s) ==
  CASE s \in {"open", "enter"} -> Untouched
    [] s = "before" -> Untouched /\ prot = opt
    [] s = "option" -> Untouched /\ prot = opt /\ opt # Wants(cmd)
    [] s = "reconnect" -> OptionTried
    [] s = "after" -> OptionTried /\ prot = opt
    [] s = "access" -> OptionTried /\ prot = opt /\ opt = Wants(cmd)
    [] s = "end" -> /\ prot = opt /\ opt = Wants(cmd)
                    /\ \/ Untouched
                       \/ OptionTried
    [] OTHER -> FALSE

\* The blocks before the loop variable are written, the others erased.
WrittenUpTo(o) ==
  \A a \in Flash : flash[a] = IF a < FlashStart + o THEN image[a] ELSE Erased
FlashDue(s) ==
  CASE s \in {"open", "enter", "unlock", "erase"} -> offset = 0
    [] s = "write" -> faked \/ WrittenUpTo(offset)
    [] s = "verify" -> faked \/ flash = image
    [] s \in {"reset", "end"} -> cmd.verify \/ ~faked => flash = image
    [] OTHER -> FALSE

Due(s) ==
  /\ cmd.kind \in {"set-rop", "unprotect-rop"} => RopDue(s)
  /\ cmd.kind = "flash" => FlashDue(s)
InTime ==
  /\ \A s \in CallSet : Calls(s) => Due(s)
  /\ code = "success" => Due("end")

LEMMA ProceedInTime ==
  ASSUME ControlTyped, NEW s, Calls(s), Proceed, UNCHANGED cmd,
         \A n : Follow(cmd, s, n) => Due(n)'
  PROVE  InTime'
<1>1. /\ steps' = << >> => Follow(cmd, s, "end")
      /\ \A n : Calls(n)' => Follow(cmd, s, n)
      /\ code' = IF steps' = << >> THEN "success" ELSE "running"
  BY ProceedIs DEF ControlTyped
<1>2. ASSUME NEW n \in CallSet, Calls(n)'
      PROVE  Due(n)'
  BY <1>1, <1>2
<1>3. ASSUME code' = "success"
      PROVE  Due("end")'
  BY <1>1, <1>3
<1> QED BY <1>2, <1>3 DEF InTime

\* A command that fails has no promise left to keep.
LEMMA ErrorInTime ==
  ASSUME Exit("error")
  PROVE  InTime'
BY DEF Exit, InTime, Calls

LEMMA DueNow ==
  ASSUME ControlTyped, InTime, NEW s, Calls(s)
  PROVE  s \in CallSet /\ Due(s)
BY FirstCall DEF ControlTyped, InTime

LEMMA WipedAll ==
  Wiped(Blocks) = Cleared
<1> SUFFICES ASSUME NEW a \in Flash
             PROVE  \E b \in Blocks : a \in BlockOf(b)
  BY DEF Wiped, Cleared
<1> DEFINE x == a - FlashStart
           q == x \div BlockSize
           b == x - (x % BlockSize)
           m == FlashSize \div BlockSize
<1>1. x \in Nat /\ x < FlashSize /\ a = FlashStart + x /\ a \in Int
  BY NumbersAre DEF Flash
<1>2. b \in 0 .. x /\ b = BlockSize * q /\ x < b + BlockSize /\ q \in Nat
  BY <1>1, NumbersAre, BlockBefore, DivMod
<1>3. FlashSize = BlockSize * m /\ m \in Nat
  <2>1. /\ m \in Nat /\ FlashSize % BlockSize = 0
        /\ FlashSize = BlockSize * m + (FlashSize % BlockSize)
    BY NumbersAre, DivMod
  <2> HIDE DEF m
  <2> QED BY <2>1, NumbersAre
<1> HIDE DEF x, q, b, m
<1>4. q <= m - 1
  <2> SUFFICES ASSUME m <= q PROVE FALSE
    BY <1>2, <1>3
  <2>1. PICK k \in Nat : q = m + k
    BY <1>2, <1>3
  <2>2. BlockSize * q = BlockSize * m + BlockSize * k /\ BlockSize * k \in Nat
    BY <1>3, <2>1, NumbersAre
  <2> QED BY <1>1, <1>2, <1>3, <2>2, NumbersAre
<1>5. FlashStart + BlockSize * q \in Blocks
  <2>1. q \in 0 .. m - 1
    BY <1>2, <1>3, <1>4
  <2> QED BY <2>1 DEF Blocks, m
<1>6. a \in BlockOf(FlashStart + BlockSize * q)
  BY <1>1, <1>2, NumbersAre DEF BlockOf
<1> QED BY <1>5, <1>6

\* The bytes that the loop of cmd_flash skips are erased in the image.
LEMMA SkippedErased ==
  ASSUME ControlTyped, NEW a \in Flash, FlashStart + offset <= a,
         a < FlashStart + NextBlock(offset)
  PROVE  image[a] = Erased
<1> DEFINE x == a - FlashStart
           b == x - (x % BlockSize)
           n == NextBlock(offset)
<1>1. /\ n \in offset .. FlashSize /\ offset \in 0 .. FlashSize
      /\ offset % BlockSize = 0
      /\ \A k \in offset .. n - 1 :
           k % BlockSize = 0 => \A c \in BlockOf(FlashStart + k) : image[c] = Erased
  BY NextBlockIs DEF ControlTyped
<1>2. x \in Nat /\ x < n /\ offset <= x /\ a = FlashStart + x /\ a \in Int
  BY <1>1, NumbersAre DEF Flash
<1>3. b \in 0 .. x /\ b % BlockSize = 0 /\ x < b + BlockSize
  BY <1>2, NumbersAre, BlockBefore
<1> HIDE DEF x, b, n
<1>4. offset <= b
  <2> SUFFICES ASSUME b < offset PROVE FALSE
    BY <1>1, <1>3, NumbersAre
  <2>0. b \in Nat /\ offset \in Nat /\ BlockSize \in Nat \ {0}
    BY <1>1, <1>2, <1>3, NumbersAre
  <2>1. b + BlockSize <= offset
    BY <1>1, <1>3, <2>0, NextMultiple
  <2> QED BY <1>1, <1>2, <1>3, <2>1, NumbersAre
<1>5. b \in offset .. n - 1
  BY <1>1, <1>2, <1>3, <1>4, NumbersAre
<1>6. a \in BlockOf(FlashStart + b)
  BY <1>2, <1>3, NumbersAre DEF BlockOf
<1> QED BY <1>1, <1>3, <1>5, <1>6

LEMMA LaunchInTime ==
  ASSUME Typed, Launch
  PROVE  InTime'
<1>1. CASE Refused(cmd')
  BY <1>1, ErrorInTime DEF Launch
<1>2. CASE ~Refused(cmd')
  <2>1. steps' = Flow(cmd') /\ code' = "running" /\ offset' = 0 /\ cmd' \in Commands
    BY <1>2 DEF Launch
  <2>2. steps'[1] = "open" /\ steps' # << >> /\ steps' \in Seq(CallSet)
    BY <2>1, FlowIs
  <2>3. Untouched'
    BY DEF Launch, target, Untouched
  <2>4. \A s : Calls(s)' => s = "open"
    <3>1. Head(steps') = steps'[1]
      BY <2>2
    <3> QED BY <2>2, <3>1 DEF Calls
  <2>5. Due("open")'
    BY <2>1, <2>3 DEF Due, RopDue, FlashDue
  <2> QED BY <2>1, <2>4, <2>5 DEF InTime
<1> QED BY <1>1, <1>2

\* The calls that leave memory alone.
LEMMA QuietInTime ==
  ASSUME Typed, InTime,
         \/ Open \/ Enter \/ GiveUp \/ Unlock \/ Check \/ WritesDone \/ Verify
         \/ Reset \/ Access \/ Report \/ RopBefore \/ Reconnect \/ RopAfter
  PROVE  InTime'
<1> USE DEF loop, target
<1>0. /\ ControlTyped
      /\ UNCHANGED <<cmd, image, offset, before, flash, opt, faked>>
  BY DEF Typed, Open, Enter, GiveUp, Unlock, Check, WritesDone, Verify, Reset, Access,
         Report, RopBefore, Reconnect, RopAfter
<1>1. CASE Open
  <2>1. Calls("open") /\ Proceed /\ Due("open")
    BY <1>0, <1>1, DueNow DEF Open
  <2>2. ASSUME NEW n, Follow(cmd, "open", n)
        PROVE  Due(n)'
    BY <1>0, <1>1, <2>1, <2>2 DEF Follow, Due, RopDue, FlashDue, Untouched
  <2> QED BY <1>0, <2>1, <2>2, ProceedInTime
<1>2. CASE Enter
  <2>1. Calls("enter") /\ Proceed /\ Due("enter") /\ prot' = opt
    BY <1>0, <1>2, DueNow DEF Enter
  <2>2. ASSUME NEW n, Follow(cmd, "enter", n)
        PROVE  Due(n)'
    BY <1>0, <2>1, <2>2 DEF Follow, Due, RopDue, FlashDue, Untouched
  <2> QED BY <1>0, <2>1, <2>2, ProceedInTime
<1>3. CASE GiveUp
  BY <1>3, ErrorInTime DEF GiveUp
<1>4. CASE Unlock
  <2>1. Calls("unlock") /\ Proceed /\ Due("unlock")
    BY <1>0, <1>4, DueNow DEF Unlock
  <2>2. ASSUME NEW n, Follow(cmd, "unlock", n)
        PROVE  Due(n)'
    BY <1>0, <2>1, <2>2 DEF Follow, Due, RopDue, FlashDue
  <2> QED BY <1>0, <2>1, <2>2, ProceedInTime
<1>5. CASE Check
  <2>1. Calls("check") /\ (Proceed \/ Exit("error")) /\ Due("check")
    BY <1>0, <1>5, DueNow DEF Check
  <2>2. ASSUME NEW n, Follow(cmd, "check", n)
        PROVE  Due(n)'
    BY <1>0, <2>1, <2>2 DEF Follow, Due, RopDue, FlashDue
  <2> QED BY <1>0, <2>1, <2>2, ProceedInTime, ErrorInTime
<1>6. CASE WritesDone
  <2>1. Calls("write") /\ Proceed /\ Due("write") /\ NextBlock(offset) = FlashSize
    BY <1>0, <1>6, DueNow DEF WritesDone
  <2>2. WrittenUpTo(offset) => flash = image
    <3> SUFFICES ASSUME WrittenUpTo(offset), NEW a \in Flash
                 PROVE  flash[a] = image[a]
      BY DEF Typed, ControlTyped, TargetTyped
    <3>1. a < FlashStart + FlashSize /\ a \in Int
      BY NumbersAre DEF Flash
    <3>2. ~(a < FlashStart + offset) => image[a] = Erased
      BY <1>0, <2>1, <3>1, SkippedErased, NumbersAre DEF ControlTyped
    <3> QED BY <3>2 DEF WrittenUpTo
  <2>3. ASSUME NEW n, Follow(cmd, "write", n)
        PROVE  Due(n)'
    <3>1. cmd.kind = "flash" => faked \/ flash = image
      BY <2>1, <2>2 DEF Due, FlashDue
    <3>2. cmd.kind \notin {"set-rop", "unprotect-rop"}
      BY <2>1 DEF Due, RopDue
    <3>3. CASE cmd.kind = "flash"
      BY <1>0, <2>3, <3>1, <3>3 DEF Follow, Due, FlashDue
    <3> QED BY <1>0, <3>2, <3>3 DEF Due
  <2> QED BY <1>0, <2>1, <2>3, ProceedInTime
<1>7. CASE Verify
  <2>1. Calls("verify") /\ Due("verify")
    BY <1>0, <1>7, DueNow DEF Verify
  <2>2. CASE flash = image /\ ~prot
    <3>1. Proceed
      BY <1>7, <2>2 DEF Verify
    <3>2. ASSUME NEW n, Follow(cmd, "verify", n)
          PROVE  Due(n)'
      BY <1>0, <2>1, <2>2, <3>2 DEF Follow, Due, RopDue, FlashDue
    <3> QED BY <1>0, <2>1, <3>1, <3>2, ProceedInTime
  <2> QED BY <1>7, <2>2, ErrorInTime DEF Verify
<1>8. CASE Reset
  <2>1. Calls("reset") /\ Proceed /\ Due("reset")
    BY <1>0, <1>8, DueNow DEF Reset
  <2>2. ASSUME NEW n, Follow(cmd, "reset", n)
        PROVE  Due(n)'
    BY <1>0, <2>1, <2>2 DEF Follow, Due, RopDue, FlashDue
  <2> QED BY <1>0, <2>1, <2>2, ProceedInTime
<1>9. CASE Access
  <2>1. Calls("access") /\ Proceed /\ Due("access") /\ prot' = prot
    BY <1>0, <1>9, DueNow DEF Access
  <2>2. ASSUME NEW n, Follow(cmd, "access", n)
        PROVE  Due(n)'
    BY <1>0, <2>1, <2>2 DEF Follow, Due, RopDue, FlashDue, OptionTried, Wants
  <2> QED BY <1>0, <2>1, <2>2, ProceedInTime
<1>10. CASE Report
  <2>1. Calls("report") /\ Proceed /\ Due("report")
    BY <1>0, <1>10, DueNow DEF Report
  <2>2. ASSUME NEW n, Follow(cmd, "report", n)
        PROVE  Due(n)'
    BY <1>0, <2>1, <2>2 DEF Follow, Due, RopDue, FlashDue
  <2> QED BY <1>0, <2>1, <2>2, ProceedInTime
<1>11. CASE RopBefore
  <2>1. Calls("before") /\ Due("before") /\ prot' = prot
    BY <1>0, <1>11, DueNow DEF RopBefore
  <2>2. CASE opt = Wants(cmd)
    <3>1. steps' = << >> /\ code' = "success"
      BY <1>11, <2>2 DEF RopBefore, Exit
    <3>2. Due("end")'
      BY <1>0, <2>1, <2>2 DEF Due, RopDue, FlashDue, Untouched, Wants
    <3> QED BY <3>1, <3>2 DEF InTime, Calls
  <2>3. CASE opt # Wants(cmd)
    <3>1. Proceed
      BY <1>11, <2>3 DEF RopBefore
    <3>2. ASSUME NEW n, Follow(cmd, "before", n)
          PROVE  Due(n)'
      BY <1>0, <2>1, <2>3, <3>2 DEF Follow, Due, RopDue, FlashDue, Untouched, Wants
    <3> QED BY <1>0, <2>1, <3>1, <3>2, ProceedInTime
  <2> QED BY <2>2, <2>3
<1>12. CASE Reconnect
  <2>1. Calls("reconnect") /\ Proceed /\ Due("reconnect") /\ prot' = opt
    BY <1>0, <1>12, DueNow DEF Reconnect
  <2>2. ASSUME NEW n, Follow(cmd, "reconnect", n)
        PROVE  Due(n)'
    BY <1>0, <2>1, <2>2 DEF Follow, Due, RopDue, FlashDue, OptionTried, Wants
  <2> QED BY <1>0, <2>1, <2>2, ProceedInTime
<1>13. CASE RopAfter
  <2>1. Calls("after") /\ Due("after") /\ prot' = prot
    BY <1>0, <1>13, DueNow DEF RopAfter
  <2>2. CASE opt = Wants(cmd)
    <3>1. Proceed
      BY <1>13, <2>2 DEF RopAfter
    <3>2. ASSUME NEW n, Follow(cmd, "after", n)
          PROVE  Due(n)'
      BY <1>0, <2>1, <2>2, <3>2 DEF Follow, Due, RopDue, FlashDue, OptionTried, Wants
    <3> QED BY <1>0, <2>1, <3>1, <3>2, ProceedInTime
  <2> QED BY <1>13, <2>2, ErrorInTime DEF RopAfter
<1> QED
  BY <1>1, <1>2, <1>3, <1>4, <1>5, <1>6, <1>7, <1>8, <1>9, <1>10, <1>11, <1>12, <1>13

LEMMA EraseInTime ==
  ASSUME Typed, InTime, Erase
  PROVE  InTime'
<1>1. /\ ControlTyped /\ Calls("erase") /\ Proceed /\ Due("erase")
      /\ UNCHANGED <<cmd, offset, image>>
  BY DueNow DEF Erase, loop, Typed
<1>2. flash' = Cleared \/ faked'
  BY WipedAll DEF Erase
<1>3. \A a \in Flash : ~(a < FlashStart + 0)
  BY NumbersAre DEF Flash
<1>4. ASSUME NEW n, Follow(cmd, "erase", n)
      PROVE  Due(n)'
  <2>1. cmd.kind \notin {"set-rop", "unprotect-rop"}
    BY <1>1 DEF Due, RopDue
  <2>2. CASE cmd.kind = "flash"
    <3>1. n = "write" /\ offset' = 0
      BY <1>1, <1>4, <2>2 DEF Follow, Due, FlashDue
    <3>2. faked' \/ WrittenUpTo(offset)'
      BY <1>2, <1>3, <3>1 DEF WrittenUpTo, Cleared
    <3> QED BY <1>1, <2>1, <3>1, <3>2 DEF Due, FlashDue
  <2> QED BY <1>1, <2>1, <2>2 DEF Due
<1> QED BY <1>1, <1>4, ProceedInTime

LEMMA WriteRopInTime ==
  ASSUME Typed, InTime, WriteRop
  PROVE  InTime'
<1>1. /\ ControlTyped /\ Calls("option") /\ Proceed /\ Due("option")
      /\ UNCHANGED <<cmd, before>>
  BY DueNow DEF WriteRop, loop, Typed
<1>2. ASSUME NEW n, Follow(cmd, "option", n)
      PROVE  Due(n)'
  <2>1. cmd.kind # "flash"
    BY <1>1 DEF Due, FlashDue
  <2>2. CASE cmd.kind \in {"set-rop", "unprotect-rop"}
    <3>1. n = "reconnect"
      BY <1>2, <2>1, <2>2 DEF Follow
    <3>2. Untouched /\ prot = opt /\ opt # Wants(cmd)
      BY <1>1, <2>2 DEF Due, RopDue
    <3>3. Wants(cmd) \in BOOLEAN /\ opt \in BOOLEAN
      BY DEF Wants, Typed, TargetTyped
    <3>6. before.opt = ~Wants(cmd)
      <4>1. before.opt = opt
        BY <3>2 DEF Untouched
      <4>2. opt = ~Wants(cmd)
        BY <3>2, <3>3
      <4> QED BY <4>1, <4>2
    <3>4. CASE OptionDone(Wants(cmd))
      <4>1. Wants(cmd) => flash' = before.flash
        BY <3>2, <3>4 DEF OptionDone, Untouched
      <4>2. ~Wants(cmd) => flash' = Cleared
        BY <3>2, <3>3, <3>4 DEF OptionDone, Cleared
      <4>3. OptionTried'
        BY <1>1, <3>6, <4>1, <4>2 DEF OptionTried, Wants
      <4> QED BY <1>1, <2>1, <3>1, <4>3 DEF Due, RopDue
    <3>5. CASE UNCHANGED <<opt, flash>>
      <4>1. OptionTried'
        BY <1>1, <3>2, <3>5, <3>6 DEF OptionTried, Wants
      <4> QED BY <1>1, <2>1, <3>1, <4>1 DEF Due, RopDue
    <3> QED BY <3>4, <3>5 DEF WriteRop
  <2> QED BY <1>1, <2>1, <2>2 DEF Due
<1> QED BY <1>1, <1>2, ProceedInTime

LEMMA WriteBlockInTime ==
  ASSUME Typed, InTime, WriteBlock
  PROVE  InTime'
<1> DEFINE n == NextBlock(offset)
           B == BlockOf(FlashStart + n)
<1>1. /\ ControlTyped /\ Calls("write") /\ Due("write")
      /\ UNCHANGED <<cmd, steps, code, image>> /\ offset' = n + BlockSize
  BY DueNow DEF WriteBlock, Typed
<1>2. n \in offset .. FlashSize /\ offset \in 0 .. FlashSize
  BY <1>1, NextBlockIs DEF ControlTyped
<1>3. faked' \/ (UNCHANGED faked /\ flash' = Written(B))
  BY DEF WriteBlock
<1>4. steps # << >> /\ \A s : Calls(s)' => s = "write"
  BY <1>1 DEF Calls
<1>5. code' # "success"
  BY <1>1, <1>4 DEF ControlTyped
<1>6. ASSUME WrittenUpTo(offset), flash' = Written(B)
      PROVE  WrittenUpTo(offset)'
  <2> SUFFICES ASSUME NEW a \in Flash
               PROVE  flash'[a] = IF a < FlashStart + offset' THEN image[a] ELSE Erased
    BY <1>1 DEF WrittenUpTo
  <2>1. flash'[a] = IF a \in B /\ image[a] # Erased THEN image[a] ELSE flash[a]
    BY <1>6 DEF Written
  <2>2. flash[a] = IF a < FlashStart + offset THEN image[a] ELSE Erased
    BY <1>6 DEF WrittenUpTo
  <2>3. a \in B <=> FlashStart + n <= a /\ a < FlashStart + n + BlockSize
    BY <1>2, NumbersAre DEF Flash, BlockOf
  <2>4. FlashStart + offset <= a /\ a < FlashStart + n => image[a] = Erased
    BY <1>1, SkippedErased
  <2>5. a \in Int /\ n \in Nat /\ offset \in Nat /\ offset <= n
        /\ FlashStart \in Nat /\ BlockSize \in Nat \ {0}
    BY <1>2, NumbersAre DEF Flash
  <2> HIDE DEF n, B
  <2>6. CASE a < FlashStart + n
    BY <1>1, <2>1, <2>2, <2>3, <2>4, <2>5, <2>6
  <2>7. CASE ~(a < FlashStart + n)
    BY <1>1, <2>1, <2>2, <2>3, <2>5, <2>7
  <2> QED BY <2>6, <2>7
<1>7. Due("write")'
  <2>1. cmd.kind = "flash" => faked' \/ WrittenUpTo(offset)'
    BY <1>1, <1>3, <1>6 DEF Due, FlashDue
  <2>2. cmd.kind \notin {"set-rop", "unprotect-rop"}
    BY <1>1 DEF Due, RopDue
  <2> QED BY <1>1, <2>1, <2>2 DEF Due, FlashDue
<1> QED BY <1>4, <1>5, <1>7 DEF InTime

\* Steps that leave the call to be made, the command and its memory alone.
LEMMA StayInTime ==
  ASSUME InTime, prot' = prot \/ prot' = opt,
         UNCHANGED <<cmd, steps, code, image, offset, before, flash, opt, faked>>
  PROVE  InTime'
<1>1. \A s : Calls(s)' <=> Calls(s)
  BY DEF Calls
<1>2. ASSUME NEW s, Due(s)
      PROVE  Due(s)'
  <2>1. RopDue(s) => RopDue(s)'
    BY DEF RopDue, Untouched, OptionTried, Wants
  <2>2. FlashDue(s) => FlashDue(s)'
    BY DEF FlashDue, WrittenUpTo
  <2> QED BY <1>2, <2>1, <2>2 DEF Due
<1> QED BY <1>1, <1>2 DEF InTime

LEMMA TryInTime ==
  ASSUME Typed, InTime, Try
  PROVE  InTime'
<1>1. ControlTyped /\ Calls("try") /\ Due("try") /\ cmd' = cmd
  BY DueNow DEF Try, loop, Typed
<1>2. cmd.kind \notin {"flash", "set-rop", "unprotect-rop"}
  BY <1>1 DEF Due, RopDue, FlashDue
<1> QED BY <1>1, <1>2 DEF InTime, Due

LEMMA StepInTime == Typed /\ InTime /\ [Next]_vars => InTime'
<1> SUFFICES ASSUME Typed, InTime, [Next]_vars PROVE InTime'
  OBVIOUS
<1>1. CASE Launch
  BY <1>1, LaunchInTime
<1>2. CASE ReconnectFails
  <2>1. CASE attempt' = Attempts
    BY <1>2, <2>1, ErrorInTime DEF ReconnectFails
  <2>2. CASE attempt' # Attempts
    BY <1>2, <2>2, StayInTime DEF ReconnectFails
  <2> QED BY <2>1, <2>2
<1>3. CASE Raises
  BY <1>3, ErrorInTime DEF Raises
<1>4. CASE Host /\ ~ReconnectFails /\ ~Raises
  BY <1>4, QuietInTime, EraseInTime, WriteRopInTime, WriteBlockInTime, TryInTime DEF Host
<1>5. CASE PowerLoss \/ PowerReturns
  BY <1>5, StayInTime DEF PowerLoss, PowerReturns, loop
<1>6. CASE UNCHANGED vars
  BY <1>6, StayInTime DEF vars
<1> QED BY <1>1, <1>2, <1>3, <1>4, <1>5, <1>6 DEF Next

LEMMA AlwaysInTime == Spec => [](Typed /\ InTime)
<1>1. Init => InTime
  BY DEF Init, InTime, Calls
<1> QED BY <1>1, InitTyped, StepTyped, StepInTime, PTL DEF Spec

\* cmd_set_rop and cmd_unprotect_rop say that it is done only when OPT0 and the
\* protection in force are what was asked for, and flash is kept or erased
\* accordingly, whatever was lost on the way and whenever power failed.
THEOREM RopCorrect == Spec => []RopOkMeansActive
<1>1. Typed /\ InTime => RopOkMeansActive
  <2> SUFFICES ASSUME Typed, InTime PROVE RopOkMeansActive
    OBVIOUS
  <2>1. opt \in BOOLEAN /\ prot \in BOOLEAN
    BY DEF Typed, TargetTyped
  <2>2. ASSUME cmd.kind \in {"set-rop", "unprotect-rop"}, code = "success"
        PROVE  /\ prot = opt /\ opt = Wants(cmd)
               /\ Untouched \/ OptionTried
    BY <2>2 DEF InTime, Due, RopDue
  <2>3. Succeeded("set-rop") => opt /\ prot /\ flash = before.flash
    BY <2>1, <2>2 DEF Succeeded, Wants, Untouched, OptionTried
  <2>4. Succeeded("unprotect-rop") =>
          /\ ~opt /\ ~prot
          /\ IF before.opt THEN \A a \in Flash : flash[a] = Erased ELSE Untouched
    <3> SUFFICES ASSUME Succeeded("unprotect-rop")
                 PROVE  /\ ~opt /\ ~prot
                        /\ IF before.opt THEN \A a \in Flash : flash[a] = Erased
                           ELSE Untouched
      OBVIOUS
    <3>1. ~opt /\ ~prot /\ (Untouched \/ OptionTried)
      BY <2>1, <2>2 DEF Succeeded, Wants
    <3>2. CASE Untouched
      BY <3>1, <3>2 DEF Untouched
    <3>3. CASE OptionTried
      <4>1. ~Wants(cmd)
        BY DEF Succeeded, Wants
      <4>2. before.opt = TRUE
        <5>1. before.opt = ~Wants(cmd)
          BY <3>3 DEF OptionTried
        <5> HIDE DEF Wants
        <5> QED BY <4>1, <5>1
      <4>3. opt = Wants(cmd)
        BY <2>1, <3>1, <4>1 DEF Wants
      <4>4. flash = Cleared
        BY <3>3, <4>1, <4>3 DEF OptionTried
      <4> QED BY <3>1, <4>2, <4>4 DEF Cleared
    <3> QED BY <3>1, <3>2, <3>3
  <2> QED BY <2>3, <2>4 DEF RopOkMeansActive
<1> QED BY <1>1, AlwaysInTime, PTL

-----------------------------------------------------------------------------
(***************************************************************************)
(* What parse_ihex makes of a file, record by record.                      *)
(***************************************************************************)
HexRecord == [type : Nat, good : BOOLEAN, addr : Nat, data : Seq(Byte)]
HexState == [mem : SUBSET (Nat \X Byte), linear : Nat, segment : Nat,
             eof : BOOLEAN, bad : BOOLEAN]

\* The loop is a recursion over the records: there is such a function.
LEMMA AfterIs ==
  ASSUME NEW f \in Files
  PROVE  /\ After(f)[0] = Start
         /\ \A i \in 0 .. Len(f) - 1 : After(f)[i + 1] = Record(After(f)[i], f[i + 1])
<1> DEFINE n == Len(f)
           F(g, k) == [i \in 0 .. k |-> IF i = 0 THEN Start ELSE Record(g[i - 1], f[i])]
           S == {k \in Nat : k <= n => \E g : g = F(g, k)}
<1>0. n \in Nat
  <2>1. f \in Seq(HexRecord)
    BY FileAssumption DEF HexRecord
  <2> QED BY <2>1
<1> HIDE DEF n
<1>1. 0 \in S
  <2> DEFINE g == [i \in 0 .. 0 |-> Start]
  <2>1. g = F(g, 0)
    OBVIOUS
  <2> HIDE DEF g
  <2> QED BY <2>1
<1>2. ASSUME NEW k \in Nat, k \in S
      PROVE  k + 1 \in S
  <2> SUFFICES ASSUME k + 1 <= n PROVE \E g : g = F(g, k + 1)
    OBVIOUS
  <2>1. PICK g : g = F(g, k)
    BY <1>0, <1>2
  <2> DEFINE h == [i \in 0 .. k + 1 |-> IF i <= k THEN g[i] ELSE Record(g[k], f[k + 1])]
  <2>2. \A i \in 0 .. k : h[i] = g[i]
    OBVIOUS
  <2>3. h[k + 1] = Record(h[k], f[k + 1])
    OBVIOUS
  <2>4. \A i \in 0 .. k : g[i] = IF i = 0 THEN Start ELSE Record(g[i - 1], f[i])
    BY <2>1
  <2>5. h = [i \in 0 .. k + 1 |-> h[i]]
    OBVIOUS
  <2> HIDE DEF h
  <2>6. \A i \in 0 .. k + 1 : h[i] = IF i = 0 THEN Start ELSE Record(h[i - 1], f[i])
    <3> TAKE i \in 0 .. k + 1
    <3>1. CASE i = k + 1
      BY <2>3, <3>1
    <3>2. CASE i # k + 1
      <4>1. i \in 0 .. k /\ (i # 0 => i - 1 \in 0 .. k)
        BY <3>2
      <4> QED BY <2>2, <2>4, <4>1
    <3> QED BY <3>1, <3>2
  <2>7. h = F(h, k + 1)
    BY <2>5, <2>6
  <2> QED BY <2>7
<1>3. n \in S
  <2> HIDE DEF S
  <2>1. Nat \subseteq S
    BY <1>1, <1>2, SetInduction
  <2> QED BY <1>0, <2>1
<1>4. \E g : g = F(g, n)
  BY <1>0, <1>3
<1>5. After(f) = CHOOSE g : g = F(g, n)
  BY DEF After, n
<1>6. After(f) = F(After(f), n)
  BY <1>4, <1>5
<1>7. \A i \in 0 .. n : After(f)[i] = IF i = 0 THEN Start
                                      ELSE Record(After(f)[i - 1], f[i])
  BY <1>6
<1>8. After(f)[0] = Start
  BY <1>0, <1>7
<1>9. ASSUME NEW i \in 0 .. n - 1
      PROVE  After(f)[i + 1] = Record(After(f)[i], f[i + 1])
  <2>1. i + 1 \in 0 .. n /\ i + 1 # 0 /\ (i + 1) - 1 = i
    BY <1>0
  <2> QED BY <1>7, <2>1
<1> QED BY <1>8, <1>9 DEF n

\* The cells a data record locates, and those of the first i records.
CellsOf(f, k) ==
  {<<Base(f, k) + f[k].addr + j - 1, f[k].data[j]>> : j \in DOMAIN f[k].data}
MeantTo(f, i) == UNION {CellsOf(f, k) : k \in {k \in 1 .. i : f[k].type = 0}}

Lines(f, i) ==
  \A k \in 1 .. i :
    /\ f[k].good /\ f[k].type \in 0 .. 5
    /\ f[k].type \in {2, 4} => Len(f[k].data) = 2
    /\ f[k].type = 1 => k = i /\ f[k].data = << >>

ReadSoFar(f, i, p) ==
  /\ p \in HexState
  /\ p.bad <=> ~Lines(f, i) \/ Conflict(MeantTo(f, i))
  /\ ~p.bad => /\ p.mem = MeantTo(f, i)
               /\ p.eof <=> i # 0 /\ f[i].type = 1
               /\ p.linear + p.segment = Base(f, i + 1)
  /\ \E M \in Nat : \A c \in p.mem : c[1] <= M

LEMMA FileIs ==
  ASSUME NEW f \in Files
  PROVE  /\ f \in Seq(HexRecord) /\ Len(f) \in Nat /\ DOMAIN f = 1 .. Len(f)
         /\ \A k \in 1 .. Len(f) : f[k] \in HexRecord
<1>1. f \in Seq(HexRecord)
  BY FileAssumption DEF HexRecord
<1> QED BY <1>1

LEMMA NatProduct ==
  ASSUME NEW x \in Nat, NEW y \in Nat
  PROVE  x * y \in Nat
OBVIOUS

LEMMA Value16Is ==
  ASSUME NEW d \in Seq(Byte), Len(d) = 2
  PROVE  Value16(d) \in Nat
<1>1. d[1] \in Byte /\ d[2] \in Byte
  OBVIOUS
<1>2. d[1] \in Nat /\ d[2] \in Nat /\ BYTE \in Nat
  BY <1>1, NumbersAre DEF Byte
<1>3. d[1] * BYTE \in Nat
  BY <1>2, NatProduct
<1> QED BY <1>2, <1>3 DEF Value16

\* The base a record leaves to the next.
LEMMA BaseIs ==
  ASSUME NEW f, NEW i \in Nat \ {0}
  PROVE  /\ Base(f, 1) = 0
         /\ f[i].type \in {2, 4} =>
              Base(f, i + 1) = Value16(f[i].data) * IF f[i].type = 2 THEN PARA ELSE LINEAR
         /\ f[i].type \notin {2, 4} => Base(f, i + 1) = Base(f, i)
<1>1. Base(f, 1) = 0
  <2>1. Bases(f, 1) = {}
    BY DEF Bases
  <2> QED BY <2>1 DEF Base
<1>2. ASSUME f[i].type \in {2, 4}
      PROVE  Base(f, i + 1) = Value16(f[i].data) * IF f[i].type = 2 THEN PARA ELSE LINEAR
  <2> DEFINE B == Bases(f, i + 1)
             k == CHOOSE k \in B : \A j \in B : j <= k
  <2>1. i \in B /\ \A j \in B : j <= i /\ j \in Nat
    BY <1>2 DEF Bases
  <2> HIDE DEF B
  <2>2. k = i
    <3>1. k \in B /\ \A j \in B : j <= k
      BY <2>1
    <3> HIDE DEF k
    <3> QED BY <2>1, <3>1
  <2>3. Base(f, i + 1) = Value16(f[k].data) * IF f[k].type = 2 THEN PARA ELSE LINEAR
    BY <2>1 DEF Base, B
  <2> HIDE DEF k
  <2> QED BY <2>2, <2>3
<1>3. ASSUME f[i].type \notin {2, 4}
      PROVE  Base(f, i + 1) = Base(f, i)
  <2>1. Bases(f, i + 1) = Bases(f, i)
    BY <1>3 DEF Bases
  <2> DEFINE G(B) == IF B = {} THEN 0
                     ELSE LET k == CHOOSE k \in B : \A j \in B : j <= k
                          IN  Value16(f[k].data) * IF f[k].type = 2 THEN PARA ELSE LINEAR
  <2>2. Base(f, i + 1) = G(Bases(f, i + 1)) /\ Base(f, i) = G(Bases(f, i))
    BY Zenon DEF Base
  <2> HIDE DEF G
  <2> QED BY <2>1, <2>2
<1> QED BY <1>1, <1>2, <1>3

LEMMA MeantGrows ==
  ASSUME NEW f, NEW i \in Nat
  PROVE  MeantTo(f, i + 1) =
           MeantTo(f, i) \cup IF f[i + 1].type = 0 THEN CellsOf(f, i + 1) ELSE {}
<1>1. {k \in 1 .. i + 1 : f[k].type = 0} =
        {k \in 1 .. i : f[k].type = 0} \cup IF f[i + 1].type = 0 THEN {i + 1} ELSE {}
  OBVIOUS
<1> QED BY <1>1 DEF MeantTo

LEMMA LinesGrow ==
  ASSUME NEW f, NEW i \in Nat
  PROVE  Lines(f, i + 1) <=>
           /\ Lines(f, i) /\ ~(i # 0 /\ f[i].type = 1)
           /\ f[i + 1].good /\ f[i + 1].type \in 0 .. 5
           /\ f[i + 1].type \in {2, 4} => Len(f[i + 1].data) = 2
           /\ f[i + 1].type = 1 => f[i + 1].data = << >>
<1>1. ASSUME Lines(f, i + 1)
      PROVE  Lines(f, i) /\ ~(i # 0 /\ f[i].type = 1)
  <2>1. \A k \in 1 .. i : k \in 1 .. i + 1 /\ k # i + 1
    OBVIOUS
  <2>2. Lines(f, i)
    BY <1>1, <2>1 DEF Lines
  <2>3. i # 0 => i \in 1 .. i
    OBVIOUS
  <2> QED BY <1>1, <2>1, <2>2, <2>3 DEF Lines
<1>2. Lines(f, i + 1) => /\ f[i + 1].good /\ f[i + 1].type \in 0 .. 5
                         /\ f[i + 1].type \in {2, 4} => Len(f[i + 1].data) = 2
                         /\ f[i + 1].type = 1 => f[i + 1].data = << >>
  <2>1. i + 1 \in 1 .. i + 1
    OBVIOUS
  <2> QED BY <2>1 DEF Lines
<1>3. ASSUME Lines(f, i), ~(i # 0 /\ f[i].type = 1),
             f[i + 1].good, f[i + 1].type \in 0 .. 5,
             f[i + 1].type \in {2, 4} => Len(f[i + 1].data) = 2,
             f[i + 1].type = 1 => f[i + 1].data = << >>,
             NEW k \in 1 .. i + 1
      PROVE  /\ f[k].good /\ f[k].type \in 0 .. 5
             /\ f[k].type \in {2, 4} => Len(f[k].data) = 2
             /\ f[k].type = 1 => k = i + 1 /\ f[k].data = << >>
  <2>1. CASE k = i + 1
    BY <1>3, <2>1
  <2>2. CASE k # i + 1
    <3>1. k \in 1 .. i /\ (k = i => i # 0)
      BY <2>2
    <3> QED BY <1>3, <3>1 DEF Lines
  <2> QED BY <2>1, <2>2
<1> QED BY <1>1, <1>2, <1>3 DEF Lines

\* The fields of the state after one more record.
LEMMA RecordIs ==
  ASSUME NEW p \in HexState, NEW r \in HexRecord, NEW q, q = Record(p, r)
  PROVE  /\ Broken(p, r) => q \in HexState /\ q.mem = p.mem /\ q.bad = TRUE
         /\ ~Broken(p, r) =>
              /\ r.type = 0 => q = DataRecord(p, r)
              /\ r.type = 1 =>
                   /\ q \in HexState /\ q.mem = p.mem /\ q.linear = p.linear
                   /\ q.segment = p.segment /\ q.eof = TRUE
                   /\ q.bad = (r.data # << >>)
              /\ r.type = 2 =>
                   /\ q \in HexState /\ q.mem = p.mem /\ q.linear = 0
                   /\ q.segment = Value16(r.data) * PARA
                   /\ q.eof = p.eof /\ q.bad = p.bad
              /\ r.type = 4 =>
                   /\ q \in HexState /\ q.mem = p.mem
                   /\ q.linear = Value16(r.data) * LINEAR
                   /\ q.segment = 0 /\ q.eof = p.eof /\ q.bad = p.bad
              /\ r.type \in {3, 5} => q = p
<1>0. r.type \in Nat /\ r.data \in Seq(Byte)
  BY DEF HexRecord
<1>1. ASSUME Broken(p, r)
      PROVE  q \in HexState /\ q.mem = p.mem /\ q.bad = TRUE
  <2>1. q = [p EXCEPT !.bad = TRUE]
    BY <1>1 DEF Record
  <2> QED BY <2>1 DEF HexState
<1>2. ASSUME ~Broken(p, r), r.type = 0
      PROVE  q = DataRecord(p, r)
  BY <1>0, <1>2 DEF Record
<1>3. ASSUME ~Broken(p, r), r.type = 1
      PROVE  /\ q \in HexState /\ q.mem = p.mem /\ q.linear = p.linear
             /\ q.segment = p.segment /\ q.eof = TRUE /\ q.bad = (r.data # << >>)
  <2> DEFINE b == r.data # << >>
  <2>1. q = [p EXCEPT !.eof = TRUE, !.bad = b]
    BY <1>0, <1>3 DEF Record
  <2>2. b \in BOOLEAN
    OBVIOUS
  <2> HIDE DEF b
  <2>3. q \in HexState /\ q.mem = p.mem /\ q.linear = p.linear
        /\ q.segment = p.segment /\ q.eof = TRUE /\ q.bad = b
    BY <2>1, <2>2 DEF HexState
  <2> QED BY <2>3 DEF b
<1>4. ASSUME ~Broken(p, r), r.type = 2
      PROVE  /\ q \in HexState /\ q.mem = p.mem /\ q.linear = 0
             /\ q.segment = Value16(r.data) * PARA
             /\ q.eof = p.eof /\ q.bad = p.bad
  <2> DEFINE x == Value16(r.data) * PARA
  <2>1. q = [p EXCEPT !.segment = x, !.linear = 0]
    BY <1>0, <1>4 DEF Record
  <2>2. x \in Nat
    BY <1>0, <1>4, Value16Is, NumbersAre, NatProduct DEF Broken
  <2> HIDE DEF x
  <2>3. q.mem = p.mem /\ q.linear = 0 /\ q.segment = x
    BY <2>1, <2>2 DEF HexState
  <2>5. q \in HexState
    <3>1. /\ p.mem \in SUBSET (Nat \X Byte) /\ p.linear \in Nat /\ p.segment \in Nat
          /\ p.eof \in BOOLEAN /\ p.bad \in BOOLEAN
      BY DEF HexState
    <3>2. q = [mem |-> p.mem, linear |-> 0, segment |-> x, eof |-> p.eof, bad |-> p.bad]
      BY <2>1 DEF HexState
    <3> QED BY <2>2, <3>1, <3>2 DEF HexState
  <2>4. q.eof = p.eof /\ q.bad = p.bad
    BY <2>1, Zenon DEF HexState
  <2> QED BY <2>3, <2>4, <2>5 DEF x
<1>5. ASSUME ~Broken(p, r), r.type = 4
      PROVE  /\ q \in HexState /\ q.mem = p.mem /\ q.segment = 0
             /\ q.linear = Value16(r.data) * LINEAR
             /\ q.eof = p.eof /\ q.bad = p.bad
  <2> DEFINE x == Value16(r.data) * LINEAR
  <2>1. q = [p EXCEPT !.linear = x, !.segment = 0]
    BY <1>0, <1>5 DEF Record
  <2>2. x \in Nat
    BY <1>0, <1>5, Value16Is, NumbersAre, NatProduct DEF Broken
  <2> HIDE DEF x
  <2>3. q.mem = p.mem /\ q.linear = x /\ q.segment = 0
    BY <2>1, <2>2 DEF HexState
  <2>5. q \in HexState
    <3>1. /\ p.mem \in SUBSET (Nat \X Byte) /\ p.linear \in Nat /\ p.segment \in Nat
          /\ p.eof \in BOOLEAN /\ p.bad \in BOOLEAN
      BY DEF HexState
    <3>2. q = [mem |-> p.mem, linear |-> x, segment |-> 0, eof |-> p.eof, bad |-> p.bad]
      BY <2>1 DEF HexState
    <3> QED BY <2>2, <3>1, <3>2 DEF HexState
  <2>4. q.eof = p.eof /\ q.bad = p.bad
    BY <2>1, Zenon DEF HexState
  <2> QED BY <2>3, <2>4, <2>5 DEF x
<1>6. ASSUME ~Broken(p, r), r.type \in {3, 5}
      PROVE  q = p
  BY <1>0, <1>6 DEF Record
<1> QED BY <1>1, <1>2, <1>3, <1>4, <1>5, <1>6

LEMMA CellsAre ==
  ASSUME NEW f \in Files, NEW k \in 1 .. Len(f), Base(f, k) \in Nat
  PROVE  /\ CellsOf(f, k) \subseteq Nat \X Byte
         /\ \E M \in Nat : \A c \in CellsOf(f, k) : c[1] <= M
<1>1. f[k].addr \in Nat /\ f[k].data \in Seq(Byte)
  BY FileIs DEF HexRecord
<1> DEFINE d == f[k].data
           x == Base(f, k) + f[k].addr
<1>2. x \in Nat /\ d \in Seq(Byte) /\ Len(d) \in Nat /\ DOMAIN d = 1 .. Len(d)
  BY <1>1
<1>3. CellsOf(f, k) = {<<x + j - 1, d[j]>> : j \in DOMAIN d}
  BY DEF CellsOf
<1> HIDE DEF d, x
<1>4. \A j \in DOMAIN d : x + j - 1 \in Nat /\ d[j] \in Byte /\ x + j - 1 <= x + Len(d)
  BY <1>2
<1>5. x + Len(d) \in Nat
  BY <1>2
<1> QED BY <1>3, <1>4, <1>5

LEMMA Larger ==
  ASSUME NEW A, NEW B, NEW M \in Nat, NEW N \in Nat,
         \A c \in A : c[1] \in Nat /\ c[1] <= M, \A c \in B : c[1] \in Nat /\ c[1] <= N
  PROVE  \E L \in Nat : \A c \in A \cup B : c[1] <= L
<1>1. M + N \in Nat /\ \A x \in Nat : (x <= M => x <= M + N) /\ (x <= N => x <= M + N)
  OBVIOUS
<1>2. \A c \in A \cup B : c[1] <= M + N
  BY <1>1
<1> QED BY <1>1, <1>2

LEMMA ConflictGrows ==
  ASSUME NEW A, NEW B, A \subseteq B, Conflict(A)
  PROVE  Conflict(B)
BY DEF Conflict

\* One record, read as the format means it.
LEMMA ReadRecord ==
  ASSUME NEW f \in Files, NEW i \in Nat, i < Len(f), NEW p, ReadSoFar(f, i, p),
         NEW q, q = Record(p, f[i + 1])
  PROVE  ReadSoFar(f, i + 1, q)
<1> DEFINE r == f[i + 1]
<1>1. /\ p \in HexState /\ p.bad \in BOOLEAN /\ p.eof \in BOOLEAN
      /\ p.mem \in SUBSET (Nat \X Byte) /\ p.linear \in Nat /\ p.segment \in Nat
  BY DEF ReadSoFar, HexState
<1>2. /\ i + 1 \in 1 .. Len(f) /\ r \in HexRecord /\ r.type \in Nat
      /\ r.addr \in Nat /\ r.data \in Seq(Byte) /\ i + 1 # 0
  <2>1. i + 1 \in 1 .. Len(f) /\ i + 1 # 0
    BY FileIs
  <2>2. r \in HexRecord
    BY <2>1, FileIs
  <2> HIDE DEF r
  <2>3. r.type \in Nat /\ r.addr \in Nat /\ r.data \in Seq(Byte)
    BY <2>2 DEF HexRecord
  <2> QED BY <2>1, <2>2, <2>3
<1>3. PICK M \in Nat : \A c \in p.mem : c[1] <= M
  BY DEF ReadSoFar
<1>4. MeantTo(f, i) \subseteq MeantTo(f, i + 1)
  BY MeantGrows
<1>5. CASE Broken(p, r)
  <2>1. q \in HexState /\ q.bad = TRUE /\ q.mem = p.mem
    <3>1. q = Record(p, r)
      OBVIOUS
    <3> HIDE DEF r
    <3>2. p \in HexState /\ r \in HexRecord
      BY <1>1, <1>2
    <3> QED BY <1>5, <3>1, <3>2, RecordIs, ZenonT(60)
  <2>2. ~Lines(f, i + 1) \/ Conflict(MeantTo(f, i + 1))
    <3>1. CASE p.bad
      <4>1. ~Lines(f, i) \/ Conflict(MeantTo(f, i))
        BY <3>1 DEF ReadSoFar
      <4> QED BY <1>4, <4>1, LinesGrow, ConflictGrows
    <3>2. CASE ~p.bad /\ p.eof
      <4>1. i # 0 /\ f[i].type = 1
        BY <3>2 DEF ReadSoFar
      <4> QED BY <4>1, LinesGrow
    <3>3. CASE ~r.good \/ r.type \notin 0 .. 5 \/ (r.type \in {2, 4} /\ Len(r.data) # 2)
      BY <3>3, LinesGrow
    <3> QED BY <1>5, <3>1, <3>2, <3>3 DEF Broken
  <2> QED BY <1>3, <2>1, <2>2 DEF ReadSoFar
<1>6. CASE ~Broken(p, r)
  <2>0. /\ ~p.bad /\ ~p.eof /\ r.good /\ r.type \in 0 .. 5
        /\ r.type \in {2, 4} => Len(r.data) = 2
    BY <1>6 DEF Broken
  <2>1. /\ Lines(f, i) /\ ~Conflict(MeantTo(f, i)) /\ p.mem = MeantTo(f, i)
        /\ ~(i # 0 /\ f[i].type = 1) /\ p.linear + p.segment = Base(f, i + 1)
    BY <2>0 DEF ReadSoFar
  <2>2. Lines(f, i + 1) <=> (r.type = 1 => r.data = << >>)
    BY <2>0, <2>1, LinesGrow
  <2>3. MeantTo(f, i + 1) = MeantTo(f, i) \cup IF r.type = 0 THEN CellsOf(f, i + 1) ELSE {}
    BY MeantGrows
  <2>4. /\ (i + 1) + 1 = i + 2
        /\ r.type \in {2, 4} =>
             Base(f, i + 2) = Value16(r.data) * IF r.type = 2 THEN PARA ELSE LINEAR
        /\ r.type \notin {2, 4} => Base(f, i + 2) = Base(f, i + 1)
    <3>1. i + 1 \in Nat \ {0} /\ (i + 1) + 1 = i + 2
      BY <1>2
    <3> QED BY <3>1, BaseIs
  <2>5. /\ r.type = 0 => q = DataRecord(p, r)
        /\ r.type = 1 =>
             /\ q \in HexState /\ q.mem = p.mem /\ q.linear = p.linear
             /\ q.segment = p.segment /\ q.eof = TRUE
             /\ q.bad = (r.data # << >>)
        /\ r.type = 2 =>
             /\ q \in HexState /\ q.mem = p.mem /\ q.linear = 0
             /\ q.segment = Value16(r.data) * PARA
             /\ q.eof = p.eof /\ q.bad = p.bad
        /\ r.type = 4 =>
             /\ q \in HexState /\ q.mem = p.mem
             /\ q.linear = Value16(r.data) * LINEAR
             /\ q.segment = 0 /\ q.eof = p.eof /\ q.bad = p.bad
        /\ r.type \in {3, 5} => q = p
    <3>1. q = Record(p, r)
      OBVIOUS
    <3> HIDE DEF r
    <3>2. p \in HexState /\ r \in HexRecord
      BY <1>1, <1>2
    <3> QED BY <1>6, <3>1, <3>2, RecordIs, ZenonT(60)
  <2>6. CASE r.type = 0
    <3> DEFINE m == p.mem \cup CellsOf(f, i + 1)
               b == Conflict(m)
    <3>1. p.linear + p.segment + r.addr = Base(f, i + 1) + f[i + 1].addr
      BY <2>1
    <3>2. CellsOf(f, i + 1) =
            {<<p.linear + p.segment + r.addr + j - 1, r.data[j]>> : j \in DOMAIN r.data}
      BY <3>1 DEF CellsOf
    <3>3. q = [p EXCEPT !.mem = m, !.bad = b]
      BY <2>5, <2>6, <3>2 DEF DataRecord
    <3>4. Base(f, i + 1) \in Nat
      BY <1>1, <2>1
    <3>5. PICK N \in Nat : \A c \in CellsOf(f, i + 1) : c[1] <= N
      BY <1>2, <3>4, CellsAre
    <3>6. m \in SUBSET (Nat \X Byte) /\ CellsOf(f, i + 1) \subseteq Nat \X Byte
      BY <1>1, <1>2, <3>4, CellsAre
    <3>7. m = MeantTo(f, i + 1)
      BY <2>1, <2>3, <2>6
    <3>8. \E L \in Nat : \A c \in m : c[1] <= L
      <4>1. \A c \in p.mem : c[1] \in Nat /\ c[1] <= M
        BY <1>1, <1>3
      <4>2. \A c \in CellsOf(f, i + 1) : c[1] \in Nat /\ c[1] <= N
        BY <3>5, <3>6
      <4> QED BY <4>1, <4>2, Larger
    <3>9. b \in BOOLEAN
      BY DEF Conflict
    <3> HIDE DEF m, b
    <3>10. /\ q \in HexState /\ q.mem = m /\ q.bad = b
           /\ q.linear = p.linear /\ q.segment = p.segment
      BY <1>1, <3>3, <3>6, <3>9 DEF HexState
    <3>11. q.eof = p.eof
      BY <1>1, <3>3, Zenon DEF HexState
    <3>12. Lines(f, i + 1) /\ r.type # 1
      BY <2>2, <2>6
    <3>13. q.bad <=> ~Lines(f, i + 1) \/ Conflict(MeantTo(f, i + 1))
      BY <3>7, <3>10, <3>12 DEF b
    <3>14. /\ q.mem = MeantTo(f, i + 1)
           /\ q.linear + q.segment = Base(f, (i + 1) + 1)
      BY <2>1, <2>4, <2>6, <3>7, <3>10
    <3>15. q.eof <=> i + 1 # 0 /\ f[i + 1].type = 1
      BY <2>0, <3>11, <3>12
    <3>16. \E L \in Nat : \A c \in q.mem : c[1] <= L
      BY <3>8, <3>10
    <3> QED BY <3>10, <3>13, <3>14, <3>15, <3>16 DEF ReadSoFar
  <2>7. CASE r.type # 0
    <3>1. MeantTo(f, i + 1) = MeantTo(f, i)
      BY <2>3, <2>7
    <3>2. q.mem = p.mem /\ q \in HexState
      BY <1>1, <2>0, <2>5, <2>7
    <3>3. q.bad <=> ~Lines(f, i + 1) \/ Conflict(MeantTo(f, i + 1))
      <4>1. CASE r.type = 1
        BY <2>1, <2>2, <2>5, <3>1, <4>1
      <4>2. CASE r.type # 1
        <5>1. q.bad = p.bad
          BY <2>0, <2>5, <2>7, <4>2
        <5> QED BY <2>0, <2>1, <2>2, <3>1, <4>2, <5>1
      <4> QED BY <4>1, <4>2
    <3>4. q.eof <=> i + 1 # 0 /\ f[i + 1].type = 1
      <4>1. CASE r.type = 1
        BY <1>2, <2>5, <4>1
      <4>2. CASE r.type # 1
        <5>1. q.eof = p.eof
          BY <2>0, <2>5, <2>7, <4>2
        <5> QED BY <2>0, <4>2, <5>1
      <4> QED BY <4>1, <4>2
    <3>5. q.linear + q.segment = Base(f, (i + 1) + 1)
      <4>1. CASE r.type = 2
        <5>1. Value16(r.data) * PARA \in Nat
          BY <1>2, <2>0, <4>1, Value16Is, NumbersAre, NatProduct
        <5> QED BY <2>4, <2>5, <4>1, <5>1
      <4>2. CASE r.type = 4
        <5>1. Value16(r.data) * LINEAR \in Nat
          BY <1>2, <2>0, <4>2, Value16Is, NumbersAre, NatProduct
        <5> QED BY <2>4, <2>5, <4>2, <5>1
      <4>3. CASE r.type \in {1, 3, 5}
        BY <2>1, <2>4, <2>5, <4>3
      <4> QED BY <1>2, <2>0, <2>7, <4>1, <4>2, <4>3
    <3>6. q.mem = MeantTo(f, i + 1) /\ \A c \in q.mem : c[1] <= M
      BY <1>3, <2>1, <3>1, <3>2
    <3> QED BY <3>2, <3>3, <3>4, <3>5, <3>6 DEF ReadSoFar
  <2> QED BY <2>6, <2>7
<1> QED BY <1>5, <1>6

\* The whole file.
LEMMA ReadAll ==
  ASSUME NEW f \in Files
  PROVE  ReadSoFar(f, Len(f), parse_ihex(f))
<1> DEFINE P == After(f)
           S == {i \in Nat : i <= Len(f) => ReadSoFar(f, i, P[i])}
<1>1. 0 \in S
  <2>1. P[0] = Start
    BY AfterIs
  <2>2. MeantTo(f, 0) = {} /\ Lines(f, 0)
    BY DEF MeantTo, Lines
  <2>3. Base(f, 0 + 1) = 0
    <3>1. Base(f, 1) = 0
      BY BaseIs
    <3> QED BY <3>1
  <2>4. Start \in HexState /\ Start.mem = {} /\ ~Start.bad /\ ~Start.eof
        /\ Start.linear = 0 /\ Start.segment = 0
    BY DEF Start, HexState
  <2>5. ~Conflict({})
    BY DEF Conflict
  <2> HIDE DEF P
  <2>6. ReadSoFar(f, 0, Start)
    BY <2>2, <2>3, <2>4, <2>5 DEF ReadSoFar
  <2> QED BY <2>1, <2>6
<1>2. ASSUME NEW i \in Nat, i \in S
      PROVE  i + 1 \in S
  <2> SUFFICES ASSUME i + 1 <= Len(f) PROVE ReadSoFar(f, i + 1, P[i + 1])
    OBVIOUS
  <2>1. i < Len(f) /\ i \in 0 .. Len(f) - 1
    BY FileIs
  <2>2. ReadSoFar(f, i, P[i])
    BY <1>2, <2>1, FileIs
  <2>3. P[i + 1] = Record(P[i], f[i + 1])
    BY <2>1, AfterIs
  <2> HIDE DEF P
  <2> QED BY <2>1, <2>2, <2>3, ReadRecord
<1>3. Len(f) \in S
  <2> HIDE DEF S
  <2>1. Nat \subseteq S
    BY <1>1, <1>2, SetInduction
  <2> QED BY <2>1, FileIs
<1>4. Len(f) <= Len(f)
  BY FileIs
<1> QED BY <1>3, <1>4 DEF parse_ihex

\* load_ihex and image_for_range: a byte outside of flash is in a run that
\* reaches out of it.
LEMMA OutsideIs ==
  ASSUME NEW mem \in SUBSET (Nat \X Byte), NEW M \in Nat, \A c \in mem : c[1] <= M
  PROVE  Outside(mem) <=> \E c \in mem : c[1] \notin Flash
<1> DEFINE A == {c[1] : c \in mem}
<1>1. A \subseteq Nat /\ \A x \in A : x <= M
  OBVIOUS
<1>2. \A x : (\E c \in mem : c[1] = x) <=> x \in A
  OBVIOUS
<1>3. Segments(mem) = {s \in A \X A :
        /\ s[1] <= s[2] /\ s[1] .. s[2] \subseteq A
        /\ s[1] - 1 \notin A /\ s[2] + 1 \notin A}
  BY DEF Segments
<1> HIDE DEF A
<1>4. ASSUME Outside(mem)
      PROVE  \E c \in mem : c[1] \notin Flash
  <2>1. PICK s \in Segments(mem) : s[1] < FlashStart \/ s[2] + 1 > FlashStart + FlashSize
    BY <1>4 DEF Outside
  <2>2. s[1] \in A /\ s[2] \in A /\ s[1] \in Nat /\ s[2] \in Nat
    BY <1>1, <1>3, <2>1
  <2>3. s[1] \notin Flash \/ s[2] \notin Flash
    BY <2>1, <2>2, NumbersAre DEF Flash
  <2> QED BY <1>2, <2>2, <2>3
<1>5. ASSUME NEW x \in A, x \notin Flash
      PROVE  Outside(mem)
  <2> DEFINE L == {l \in Nat : l <= x /\ l .. x \subseteq A}
             H == {h \in Nat : x <= h /\ h + 1 \notin A}
  <2>1. x \in Nat /\ x \in L /\ L \subseteq Nat
    BY <1>1, <1>5
  <2>2. M \in H /\ H \subseteq Nat
    BY <1>1, <1>5
  <2>3. PICK l \in L : \A k \in L : l <= k
    BY <2>1, LeastNatural
  <2>4. PICK h \in H : \A k \in H : h <= k
    BY <2>2, LeastNatural
  <2>5. l \in Nat /\ l <= x /\ l .. x \subseteq A /\ l \in A
    BY <2>1, <2>3
  <2>6. h \in Nat /\ x <= h /\ h + 1 \notin A
    BY <2>4
  <2>7. l - 1 \notin A
    <3> SUFFICES ASSUME l - 1 \in A PROVE FALSE
      OBVIOUS
    <3>1. l - 1 \in Nat /\ l - 1 <= x
      BY <1>1, <2>1, <2>5
    <3>2. (l - 1) .. x \subseteq A
      BY <2>1, <2>5, <3>1
    <3>3. l <= l - 1
      BY <2>3, <3>1, <3>2
    <3> QED BY <2>5, <3>3
  <2>8. x .. h \subseteq A
    <3> SUFFICES ASSUME NEW y \in x .. h, y \notin A PROVE FALSE
      OBVIOUS
    <3>1. y # x /\ y \in Nat /\ x < y /\ y <= h
      BY <1>5, <2>1, <2>6
    <3>2. y - 1 \in Nat /\ x <= y - 1 /\ (y - 1) + 1 = y
      BY <2>1, <3>1
    <3>3. h <= y - 1
      BY <2>4, <3>2
    <3> QED BY <2>6, <3>1, <3>3
  <2>9. h \in A /\ l <= h /\ l .. h \subseteq A
    <3>1. h \in x .. h /\ l <= h
      BY <2>1, <2>5, <2>6
    <3>2. \A y \in l .. h : y \in l .. x \/ y \in x .. h
      BY <2>1, <2>5, <2>6
    <3> QED BY <2>5, <2>8, <3>1, <3>2
  <2>10. <<l, h>> \in Segments(mem)
    BY <1>3, <2>5, <2>6, <2>7, <2>9
  <2>11. l < FlashStart \/ h + 1 > FlashStart + FlashSize
    BY <1>5, <2>1, <2>5, <2>6, NumbersAre DEF Flash
  <2> QED BY <2>10, <2>11 DEF Outside
<1> QED BY <1>2, <1>4, <1>5

LEMMA MeantIs ==
  ASSUME NEW f \in Files
  PROVE  /\ MeantTo(f, Len(f)) = Meant(f)
         /\ (f # << >> <=> Len(f) # 0)
         /\ WellFormed(f) <=> Lines(f, Len(f)) /\ Len(f) # 0 /\ f[Len(f)].type = 1
<1>1. DOMAIN f = 1 .. Len(f) /\ Len(f) \in Nat /\ (f # << >> <=> Len(f) # 0)
  <2>1. f \in Seq(HexRecord) /\ DOMAIN f = 1 .. Len(f) /\ Len(f) \in Nat
    BY FileIs
  <2> QED BY <2>1, EmptySeq
<1>2. MeantTo(f, Len(f)) = Meant(f)
  BY <1>1 DEF MeantTo, Meant, CellsOf
<1>3. ASSUME WellFormed(f)
      PROVE  Lines(f, Len(f)) /\ Len(f) # 0 /\ f[Len(f)].type = 1
  <2>1. Len(f) # 0 /\ Len(f) \in DOMAIN f
    BY <1>1, <1>3 DEF WellFormed
  <2>2. f[Len(f)].type = 1
    BY <1>3, <2>1 DEF WellFormed
  <2>3. Lines(f, Len(f))
    BY <1>1, <1>3 DEF WellFormed, Lines
  <2> QED BY <2>1, <2>2, <2>3
<1>4. ASSUME Lines(f, Len(f)), Len(f) # 0, f[Len(f)].type = 1
      PROVE  WellFormed(f)
  <2>1. f # << >>
    BY <1>1, <1>4
  <2>2. \A i \in 1 .. Len(f) :
          /\ f[i].good /\ f[i].type \in 0 .. 5
          /\ f[i].type \in {2, 4} => Len(f[i].data) = 2
          /\ f[i].type = 1 => f[i].data = << >>
    BY <1>4 DEF Lines
  <2>3. \A i \in 1 .. Len(f) : f[i].type = 1 <=> i = Len(f)
    BY <1>4 DEF Lines
  <2> QED BY <1>1, <2>1, <2>2, <2>3 DEF WellFormed
<1> QED BY <1>1, <1>2, <1>3, <1>4

\* The reader raises at exactly the files that cannot be flashed, and makes of
\* the others the image they mean.
LEMMA HexCorrect ==
  ASSUME NEW f \in Files
  PROVE  /\ HexError(f) <=> ~Flashable(f)
         /\ Flashable(f) =>
              LET image1 == image_for_range(parse_ihex(f).mem)
              IN  \A a \in Flash :
                    \/ <<a, image1[a]>> \in Meant(f)
                    \/ image1[a] = Erased /\ ~\E p \in Meant(f) : p[1] = a
<1> DEFINE q == parse_ihex(f)
<1>1. ReadSoFar(f, Len(f), q)
  BY ReadAll
<1> HIDE DEF q
<1>2. q \in HexState /\ q.mem \in SUBSET (Nat \X Byte)
  BY <1>1 DEF ReadSoFar, HexState
<1>3. PICK M \in Nat : \A c \in q.mem : c[1] <= M
  BY <1>1 DEF ReadSoFar
<1>4. q.bad \/ ~q.eof <=> ~WellFormed(f) \/ Conflict(Meant(f))
  <2>1. q.bad <=> ~Lines(f, Len(f)) \/ Conflict(Meant(f))
    BY <1>1, MeantIs DEF ReadSoFar
  <2>2. ~q.bad => (q.eof <=> Len(f) # 0 /\ f[Len(f)].type = 1)
    BY <1>1 DEF ReadSoFar
  <2>3. WellFormed(f) <=> Lines(f, Len(f)) /\ Len(f) # 0 /\ f[Len(f)].type = 1
    BY MeantIs
  <2> QED BY <2>1, <2>2, <2>3
<1>5. ~q.bad => q.mem = Meant(f)
  BY <1>1, MeantIs DEF ReadSoFar
<1>6. Outside(q.mem) <=> \E c \in q.mem : c[1] \notin Flash
  BY <1>2, <1>3, OutsideIs
<1>7. ~q.bad => (Conflict(Meant(f)) <=>
                   \E c, d \in Meant(f) : c[1] = d[1] /\ c # d)
  <2> SUFFICES ASSUME ~q.bad
               PROVE  Conflict(Meant(f)) <=>
                        \E c, d \in Meant(f) : c[1] = d[1] /\ c # d
    OBVIOUS
  <2>1. \A c, d \in Meant(f) : c[1] = d[1] => (c # d <=> c[2] # d[2])
    BY <1>2, <1>5
  <2> QED BY <2>1 DEF Conflict
<1>8. HexError(f) <=> q.bad \/ ~q.eof \/ Outside(q.mem)
  BY DEF HexError, q
<1>9. HexError(f) <=> ~Flashable(f)
  <2>1. CASE q.bad
    <3>1. ~WellFormed(f) \/ Conflict(Meant(f))
      BY <1>4, <2>1
    <3>2. Conflict(Meant(f)) => \E c, d \in Meant(f) : c[1] = d[1] /\ c # d
      BY DEF Conflict
    <3> QED BY <1>8, <2>1, <3>1, <3>2 DEF Flashable
  <2>2. CASE ~q.bad
    BY <1>4, <1>5, <1>6, <1>7, <1>8, <2>2 DEF Flashable
  <2> QED BY <2>1, <2>2
<1>10. ASSUME Flashable(f), NEW a \in Flash
       PROVE  LET v == image_for_range(q.mem)[a]
              IN  \/ <<a, v>> \in Meant(f)
                  \/ v = Erased /\ ~\E p \in Meant(f) : p[1] = a
  <2>1. q.mem = Meant(f)
    BY <1>5, <1>8, <1>9, <1>10
  <2>2. \A p \in q.mem : p = <<p[1], p[2]>> /\ p[2] \in Byte
    BY <1>2
  <2>3. image_for_range(q.mem)[a] =
          IF \E v \in Byte : <<a, v>> \in q.mem
          THEN CHOOSE v \in Byte : <<a, v>> \in q.mem ELSE Erased
    BY DEF image_for_range
  <2>4. CASE \E v \in Byte : <<a, v>> \in q.mem
    BY <2>1, <2>3, <2>4
  <2>5. CASE ~\E v \in Byte : <<a, v>> \in q.mem
    BY <2>1, <2>2, <2>3, <2>5
  <2> QED BY <2>4, <2>5
<1> QED BY <1>9, <1>10 DEF q

-----------------------------------------------------------------------------
\* A command that is refused makes no call, and one that flashes works from the
\* image it has read.
Launched ==
  /\ Refused(cmd) => steps = << >> /\ code = "error" /\ Untouched
  /\ cmd.kind = "flash" /\ ~Refused(cmd) =>
       image = image_for_range(parse_ihex(cmd.file).mem)

LEMMA HostCalls ==
  ASSUME Host
  PROVE  steps # << >> /\ UNCHANGED <<cmd, image, before>>
BY DEF Host, Open, Enter, Try, GiveUp, Unlock, Check, Erase, WriteBlock, WritesDone,
       Verify, Reset, Access, Report, RopBefore, WriteRop, Reconnect, ReconnectFails,
       RopAfter, Raises, Calls, loop

LEMMA StepLaunched == Launched /\ [Next]_vars => Launched'
<1> SUFFICES ASSUME Launched, [Next]_vars PROVE Launched'
  OBVIOUS
<1>1. CASE Launch
  <2>1. Untouched'
    BY <1>1 DEF Launch, target, Untouched
  <2> QED BY <1>1, <2>1 DEF Launch, Launched, Exit, Refused
<1>2. CASE Host
  BY <1>2, HostCalls DEF Launched, Refused
<1>3. CASE PowerLoss \/ PowerReturns
  BY <1>3 DEF PowerLoss, PowerReturns, loop, Launched, Refused, Untouched
<1>4. CASE UNCHANGED vars
  BY <1>4 DEF vars, Launched, Refused, Untouched
<1> QED BY <1>1, <1>2, <1>3, <1>4 DEF Next

LEMMA AlwaysLaunched == Spec => []Launched
<1>1. Init => Launched
  BY DEF Init, Launched, Refused
<1> QED BY <1>1, StepLaunched, PTL DEF Spec

\* cmd_flash works from what its file means, byte for byte, or not at all: for
\* every file, parse_ihex, load_ihex and image_for_range refuse exactly those
\* that break the format, give a cell two values or leave flash; and a command
\* without its confirmation touches nothing.
THEOREM RefusalsCorrect == Spec => []RefusalsExact
<1>1. Typed /\ Launched => RefusalsExact
  <2> SUFFICES ASSUME Typed, Launched PROVE RefusalsExact
    OBVIOUS
  <2>1. cmd.kind = "flash" => cmd.file \in Files
    BY CommandAssumption, KindIs DEF Typed, ControlTyped, NoCommand
  <2>2. cmd.kind = "flash" => (Refused(cmd) <=> ~Flashable(cmd.file))
    BY <2>1, HexCorrect DEF Refused
  <2>3. cmd.kind \in {"set-rop", "unprotect-rop"} => (Refused(cmd) <=> ~cmd.confirmed)
    BY DEF Refused
  <2>4. cmd.kind = "flash" /\ Flashable(cmd.file) =>
          \A a \in Flash : \/ <<a, image[a]>> \in Meant(cmd.file)
                           \/ /\ image[a] = Erased
                              /\ ~\E p \in Meant(cmd.file) : p[1] = a
    BY <2>1, <2>2, HexCorrect DEF Launched
  <2> QED BY <2>2, <2>3, <2>4 DEF RefusalsExact, Launched
<1> QED BY <1>1, AlwaysTyped, AlwaysLaunched, PTL

\* cmd_flash that says "programmed" has left in every byte of flash what the file
\* says, whatever failed on the way; without --verify unless the firmware took a
\* lost operation for done.
THEOREM FlashCorrect == Spec => []FlashedMeansImage
<1>1. Typed /\ InTime /\ RefusalsExact => FlashedMeansImage
  <2> SUFFICES ASSUME Typed, InTime, RefusalsExact, Succeeded("flash"),
                      cmd.verify \/ ~faked
               PROVE  \A a \in Flash :
                        \/ <<a, flash[a]>> \in Meant(cmd.file)
                        \/ /\ flash[a] = Erased
                           /\ ~\E p \in Meant(cmd.file) : p[1] = a
    BY DEF FlashedMeansImage
  <2>1. cmd.kind = "flash" /\ code = "success"
    BY DEF Succeeded
  <2>2. flash = image
    BY <2>1 DEF InTime, Due, FlashDue
  <2>3. Flashable(cmd.file)
    BY <2>1 DEF RefusalsExact
  <2> QED BY <2>1, <2>2, <2>3 DEF RefusalsExact
<1> QED BY <1>1, RefusalsCorrect, AlwaysInTime, PTL
=============================================================================
