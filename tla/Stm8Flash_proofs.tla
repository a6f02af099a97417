-------------------------- MODULE Stm8Flash_proofs --------------------------
(***************************************************************************)
(* For every size, every target and any number of faults: a command of     *)
(* stm8_flash.c changes only the cells it was asked to change, leaves a    *)
(* controller at work alone, tells its failures, and means its OK.         *)
(***************************************************************************)
EXTENDS Stm8Flash, NaturalFacts, TLAPS

Commands ==
  {NoReq}
    \cup {[kind |-> "erase", addr |-> r[1], len |-> r[2]] : r \in EraseRequests}
    \cup {[kind |-> "write", addr |-> r[1], data |-> r[2]] : r \in WriteRequests}
    \cup {[kind |-> "option", addr |-> r[1], data |-> r[2]] : r \in OptionRequests}

\* What the command knows at the point it has reached.
Status ==
  /\ req \in Commands /\ (pc # "idle" => req.kind # "none")
  /\ pc \in {"dukr", "dul_wait"} => req.kind = "option"
  /\ pc \notin {"idle", "abort"} => diag = 0
  /\ pc # "idle" => text = 0 \/ text < cmds
  /\ pc = "abort" => st \in Answers \cup {"TARGET"}
  /\ pc = "unlocked" /\ req.kind = "erase" => req.len > 0

\* c is the address of a block of the erase.
InRange(c) ==
  /\ c \in Nat /\ c % BLOCK = 0 /\ req.len > 0
  /\ req.addr <= EndOf(req.addr, req.len)
  /\ RoundDown(req.addr) <= c /\ c < RoundedEnd(req.addr, req.len)

\* cur is a part of the request: a block, or a byte that is not skipped.
Position ==
  pc \in {"mode", "trigger", "resync", "wait", "clear"} =>
    /\ req.kind = "erase" => InRange(cur)
    /\ req.kind = "write" =>
         /\ cur \in 1 .. Len(req.data) + 1
         /\ cur <= Len(req.data) => req.data[cur] # Erased
         /\ pc \in {"trigger", "resync", "wait"} => cur <= Len(req.data)
         /\ pc = "clear" => cur > Len(req.data)

\* What a poll has shown stays true: nothing runs before the trigger, EOP and
\* WR_PG_DIS tell of this command's operation, and a command that gives up on a
\* running one has no answer or has used all its polls.
Quiet ==
  prior = {} =>
    /\ pc = "unlocked" => ~Busy
    /\ pc \in {"dukr", "dul_wait", "mode", "trigger", "clear"} =>
         ~Busy /\ ~ctl.eop /\ ~ctl.wrpg
    /\ pc \in {"resync", "wait"} /\ (ctl.eop \/ ctl.wrpg) => ~Busy
    /\ pc = "abort" /\ Busy => st \in Answers \/ LastPoll

\* The operation under way is one this command asked for, or found.
Changes == op.cells \subseteq Requested(req) \cup prior /\ OnlyRequested

IInv == TypeOK /\ DiagTellsResult /\ Status /\ Position /\ Quiet /\ Changes

-----------------------------------------------------------------------------
LEMMA Sizes ==
  /\ WORD \in Nat \ {0} /\ WIRE \in Nat \ {0} /\ BLOCK \in Nat \ {0}
  /\ MaxPolls \in Nat \ {0} /\ MaxFaults \in Nat /\ MaxCmds \in Nat
  /\ WORD % WIRE = 0 /\ WIRE % BLOCK = 0
BY SizeAssumption, RequestAssumption

LEMMA EraseFacts ==
  ASSUME req \in Commands, req.kind = "erase"
  PROVE  /\ req.addr \in Nat /\ req.addr < WORD
         /\ req.len \in Nat /\ req.len < WORD
<1>1. PICK r \in EraseRequests : req = [kind |-> "erase", addr |-> r[1], len |-> r[2]]
  BY DEF Commands, NoReq
<1>2. r[1] \in 0 .. WORD - 1 /\ r[2] \in 0 .. WORD - 1
  BY RequestAssumption
<1> QED BY <1>1, <1>2, Sizes

LEMMA WriteFacts ==
  ASSUME req \in Commands, req.kind = "write"
  PROVE  /\ req.addr \in Nat /\ req.addr < WORD
         /\ req.data \in Seq(Values) /\ Len(req.data) \in Nat /\ Len(req.data) < WIRE
         /\ \A k \in 1 .. Len(req.data) : req.data[k] \in Values
<1>1. PICK r \in WriteRequests : req = [kind |-> "write", addr |-> r[1], data |-> r[2]]
  BY DEF Commands, NoReq
<1>2. r[1] \in 0 .. WORD - 1 /\ r[2] \in Seq(Values) /\ Len(r[2]) < WIRE
  BY RequestAssumption
<1> QED BY <1>1, <1>2, Sizes

LEMMA OptionFacts ==
  ASSUME req \in Commands, req.kind = "option"
  PROVE  req.addr \in Nat /\ req.data \in Values
<1>1. PICK r \in OptionRequests : req = [kind |-> "option", addr |-> r[1], data |-> r[2]]
  BY DEF Commands, NoReq
<1>2. r[1] \in 0 .. WORD - 1 /\ r[2] \in Values
  BY RequestAssumption DEF Values
<1> QED BY <1>1, <1>2, Sizes

LEMMA Kinds ==
  ASSUME NEW r \in Commands
  PROVE  r.kind \in {"none", "erase", "write", "option"}
BY DEF Commands, NoReq

LEMMA WireCell ==
  ASSUME NEW a \in Nat
  PROVE  Wire(a) \in Cells
BY Sizes, DivMod DEF Wire, Cells

\* Rounding down.
LEMMA RoundFacts ==
  ASSUME NEW a \in Nat
  PROVE  /\ RoundDown(a) \in Nat /\ RoundDown(a) <= a /\ a < RoundDown(a) + BLOCK
         /\ RoundDown(a) % BLOCK = 0
<1> DEFINE q == a \div BLOCK
           r == a % BLOCK
           b == BLOCK * q
<1>1. BLOCK \in Nat \ {0}
  BY Sizes
<1>2. q \in Nat /\ r \in Nat /\ r < BLOCK /\ a = BLOCK * q + r
  BY <1>1, DivMod
<1>3. RoundDown(a) = a - r
  BY DEF RoundDown
<1> HIDE DEF q, r
<1>4. b \in Nat /\ b = BLOCK * q + 0
  BY <1>1, <1>2
<1>5. b % BLOCK = 0
  BY <1>1, <1>2, <1>4, ModIs
<1> HIDE DEF b
<1>6. a = b + r
  BY <1>2 DEF b
<1> QED BY <1>1, <1>2, <1>3, <1>4, <1>5, <1>6

\* Multiples of BLOCK are a block apart.
LEMMA BlockGap ==
  ASSUME NEW a \in Nat, NEW b \in Nat, a % BLOCK = 0, b % BLOCK = 0, a < b
  PROVE  a + BLOCK <= b
<1> DEFINE q == a \div BLOCK
           p == b \div BLOCK
<1>1. BLOCK \in Nat \ {0}
  BY Sizes
<1>2. q \in Nat /\ p \in Nat /\ a = BLOCK * q /\ b = BLOCK * p
  BY <1>1, DivMod
<1> HIDE DEF q, p
<1>3. CASE p <= q
  <2> DEFINE k == q - p
  <2>1. k \in Nat /\ q = p + k
    BY <1>2, <1>3
  <2> HIDE DEF k
  <2>2. a = b + BLOCK * k /\ BLOCK * k \in Nat
    BY <1>1, <1>2, <2>1
  <2> QED BY <2>2
<1>4. CASE q < p
  <2> DEFINE k == p - q - 1
  <2>1. k \in Nat /\ p = q + 1 + k
    BY <1>2, <1>4
  <2> HIDE DEF k
  <2>2. b = a + BLOCK + BLOCK * k /\ BLOCK * k \in Nat
    BY <1>1, <1>2, <2>1
  <2> QED BY <1>1, <2>2
<1> QED BY <1>2, <1>3, <1>4

LEMMA NextBlock ==
  ASSUME NEW a \in Nat, a % BLOCK = 0
  PROVE  (a + BLOCK) % BLOCK = 0
<1> DEFINE q == a \div BLOCK
           k == q + 1
<1>1. BLOCK \in Nat \ {0}
  BY Sizes
<1>2. q \in Nat /\ a = BLOCK * q
  BY <1>1, DivMod
<1> HIDE DEF q
<1>3. k \in Nat /\ 0 \in Nat /\ 0 < BLOCK /\ a + BLOCK = BLOCK * k + 0
  BY <1>1, <1>2
<1> HIDE DEF k
<1>4. (BLOCK * k + 0) % BLOCK = 0
  BY <1>1, <1>3, ModIs
<1> QED BY <1>3, <1>4

\* The end of an erase, with both additions modulo WORD.
LEMMA EndFacts ==
  ASSUME req \in Commands, req.kind = "erase"
  PROVE  LET e == EndOf(req.addr, req.len)
             z == RoundedEnd(req.addr, req.len)
         IN  /\ e \in Nat /\ e <= req.addr + req.len
             /\ z \in Nat /\ z % BLOCK = 0 /\ z <= WORD /\ z <= e + BLOCK - 1
             /\ req.addr + req.len <= WORD - BLOCK => req.addr + req.len <= z
<1> DEFINE s == req.addr + req.len
           e == EndOf(req.addr, req.len)
           y == e + BLOCK - 1
           x == y % WORD
           z == RoundedEnd(req.addr, req.len)
<1>1. s \in Nat /\ WORD \in Nat \ {0} /\ BLOCK \in Nat \ {0}
  BY Sizes, EraseFacts
<1>2. e = s % WORD
  BY DEF EndOf
<1> HIDE DEF s, e
<1>3. e \in Nat /\ e <= s /\ (s < WORD => e = s)
  <2> DEFINE q == s \div WORD
             w == WORD * q
  <2>1. q \in Nat /\ e \in Nat /\ e < WORD /\ s = WORD * q + e
    BY <1>1, <1>2, DivMod
  <2> HIDE DEF q
  <2>2. w \in Nat /\ s = w + e
    BY <1>1, <2>1
  <2>3. s < WORD => e = s
    <3> SUFFICES ASSUME s < WORD PROVE e = s
      OBVIOUS
    <3>1. 0 \in Nat /\ WORD * 0 + s = WORD * q + e
      BY <1>1, <2>1
    <3> QED BY <1>1, <2>1, <3>1, Unique
  <2> HIDE DEF w
  <2> QED BY <1>1, <2>1, <2>2, <2>3
<1>4. y \in Nat
  BY <1>1, <1>3
<1>5. z = RoundDown(x)
  BY DEF RoundedEnd, e
<1> HIDE DEF y, z
<1>6. x \in Nat /\ x < WORD /\ x <= y /\ (y < WORD => x = y)
  <2> DEFINE q == y \div WORD
             w == WORD * q
  <2>1. q \in Nat /\ x \in Nat /\ x < WORD /\ y = WORD * q + x
    BY <1>1, <1>4, DivMod
  <2> HIDE DEF q, x
  <2>2. w \in Nat /\ y = w + x
    BY <1>1, <2>1
  <2>3. y < WORD => x = y
    <3> SUFFICES ASSUME y < WORD PROVE x = y
      OBVIOUS
    <3>1. 0 \in Nat /\ WORD * 0 + y = WORD * q + x
      BY <1>1, <1>4, <2>1
    <3> QED BY <1>1, <1>4, <2>1, <3>1, Unique
  <2> HIDE DEF w
  <2> QED BY <1>1, <2>1, <2>2, <2>3
<1> HIDE DEF x
<1>7. z \in Nat /\ z <= x /\ x < z + BLOCK /\ z % BLOCK = 0
  BY <1>5, <1>6, RoundFacts
<1>8. y = e + BLOCK - 1
  BY DEF y
<1>9. s <= WORD - BLOCK => s <= z
  BY <1>1, <1>3, <1>4, <1>6, <1>7, <1>8
<1>10. z <= WORD /\ z <= e + BLOCK - 1
  BY <1>1, <1>3, <1>4, <1>6, <1>7, <1>8
<1> QED BY <1>3, <1>7, <1>9, <1>10 DEF s, e, z

\* A block in range is the block of a byte the erase names.
LEMMA BlockRequested ==
  ASSUME req \in Commands, req.kind = "erase", InRange(cur)
  PROVE  /\ cur \in Nat /\ cur <= WORD
         /\ \E a \in req.addr .. req.addr + req.len - 1 : RoundDown(a) = cur
<1> DEFINE s == req.addr + req.len
           e == EndOf(req.addr, req.len)
           z == RoundedEnd(req.addr, req.len)
           d == RoundDown(req.addr)
<1>1. /\ cur \in Nat /\ cur % BLOCK = 0 /\ req.len > 0 /\ d <= cur /\ cur < z
  BY DEF InRange
<1>2. /\ req.addr \in Nat /\ req.len \in Nat /\ BLOCK \in Nat \ {0} /\ WORD \in Nat
  BY Sizes, EraseFacts
<1>3. /\ d \in Nat /\ d <= req.addr /\ req.addr < d + BLOCK /\ d % BLOCK = 0
  BY <1>2, RoundFacts
<1>4. e \in Nat /\ e <= s /\ z \in Nat /\ z % BLOCK = 0 /\ z <= WORD /\ z <= e + BLOCK - 1
  BY EndFacts
<1>5. cur + BLOCK <= z
  BY <1>1, <1>4, BlockGap
<1>6. cur <= s - 1 /\ s - 1 \in Nat
  <2> HIDE DEF e, z
  <2> QED BY <1>1, <1>2, <1>4, <1>5
<1>7. CASE cur = d
  <2>1. req.addr \in req.addr .. s - 1
    BY <1>1, <1>2
  <2> QED BY <1>1, <1>2, <1>4, <1>7, <2>1
<1>8. CASE cur # d
  <2>1. d + BLOCK <= cur
    <3> HIDE DEF d
    <3> QED BY <1>1, <1>3, <1>8, BlockGap
  <2>2. cur \in req.addr .. s - 1
    <3> HIDE DEF d
    <3> QED BY <1>1, <1>2, <1>3, <1>6, <2>1
  <2>3. RoundDown(cur) = cur
    BY <1>1 DEF RoundDown
  <2> QED BY <1>1, <1>2, <1>4, <2>2, <2>3
<1> QED BY <1>7, <1>8

-----------------------------------------------------------------------------
CtlType == [mode : Modes \cup {"mixed"}, eop : BOOLEAN, wrpg : BOOLEAN,
            pul : BOOLEAN, dul : BOOLEAN, on : BOOLEAN]

Parts == {"mode", "trigger", "resync", "wait", "clear"}

LEMMA Types ==
  ASSUME TypeOK
  PROVE  /\ ctl \in CtlType /\ ctl.on \in BOOLEAN /\ ctl.eop \in BOOLEAN
         /\ Seen \in CtlType /\ Seen.eop = FALSE /\ Seen.wrpg = FALSE
         /\ Seen.on = ctl.on /\ ctl.wrpg \in BOOLEAN
         /\ \A m \in Modes \cup {"mixed"} : [ctl EXCEPT !.mode = m] \in CtlType
         /\ \A m : /\ [ctl EXCEPT !.mode = m].eop = ctl.eop
                   /\ [ctl EXCEPT !.mode = m].wrpg = ctl.wrpg
         /\ faults \in 0 .. MaxFaults /\ cmds \in 0 .. MaxCmds /\ cur \in 0 .. WORD
         /\ polls \in 0 .. MaxPolls /\ op \in [cells : SUBSET Cells, value : Values]
         /\ mem \in [Cells -> Values] /\ before \in [Cells -> Values]
         /\ Locked \in CtlType /\ NoOp \in [cells : SUBSET Cells, value : Values]
<1>1. ctl \in CtlType
  BY DEF TypeOK, CtlType
<1>2. Erased \in Values
  BY DEF Values
<1>3. /\ Seen \in CtlType /\ Seen.eop = FALSE /\ Seen.wrpg = FALSE
      /\ Seen.on = ctl.on /\ ctl.wrpg \in BOOLEAN
  BY <1>1 DEF Seen, CtlType
<1>4. \A m \in Modes \cup {"mixed"} : [ctl EXCEPT !.mode = m] \in CtlType
  BY <1>1 DEF CtlType
<1>5. \A m : /\ [ctl EXCEPT !.mode = m].eop = ctl.eop
            /\ [ctl EXCEPT !.mode = m].wrpg = ctl.wrpg
  BY <1>1 DEF CtlType
<1>6. Locked \in CtlType
  BY DEF Locked, CtlType, Modes
<1>7. NoOp \in [cells : SUBSET Cells, value : Values]
  BY <1>2 DEF NoOp
<1> QED BY <1>1, <1>3, <1>4, <1>5, <1>6, <1>7 DEF TypeOK, CtlType

LEMMA FailsType ==
  ASSUME TypeOK, Fails
  PROVE  faults' \in 0 .. MaxFaults
BY Sizes DEF TypeOK, Fails

\* What the other variables need while a step leaves the memory alone.
Frame == UNCHANGED <<req, cmds, prior, before, mem, op>> /\ lost' \in BOOLEAN

LEMMA FrameKeeps ==
  ASSUME IInv, Frame
  PROVE  Changes' /\ req' \in Commands
BY DEF IInv, Frame, Changes, OnlyRequested, Status

\* A command that returns leaves an invariant behind, whatever happened.
LEMMA Returns ==
  ASSUME IInv, Frame, ctl' \in CtlType, faults' \in 0 .. MaxFaults, pc # "idle",
         NEW s, NEW d, Return(s, d),
         \/ d = cmds /\ s \in Answers \cup {"TARGET"}
         \/ d = 0 /\ s = "OK"
         \/ d = 0 /\ s = "BAD_ARGUMENT" /\ req.kind = "erase"
  PROVE  IInv'
<1>1. /\ pc' = "idle" /\ result' = s /\ diag' = d /\ cur' = 0 /\ polls' = 0 /\ st' = "OK"
      /\ text' = IF s = "OK" THEN text ELSE d
  BY DEF Return
<1>2. Changes' /\ req' \in Commands
  BY FrameKeeps
<1>3. TypeOK'
  <2>1. 0 \in 0 .. WORD /\ 0 \in 0 .. MaxPolls
    BY Sizes
  <2>2. d \in 0 .. MaxCmds /\ s \in {"OK", "TARGET", "BAD_ARGUMENT"} \cup Answers
    BY Sizes DEF IInv, TypeOK
  <2>3. diag' \in 0 .. MaxCmds /\ text' \in 0 .. MaxCmds
        /\ result' \in {"OK", "TARGET", "BAD_ARGUMENT"} \cup Answers
    BY <1>1, <2>2 DEF IInv, TypeOK
  <2>4. pc' \in Pcs /\ cur' \in 0 .. WORD /\ polls' \in 0 .. MaxPolls /\ st' = "OK"
    BY <1>1, <2>1 DEF Pcs
  <2> QED BY <2>3, <2>4 DEF IInv, TypeOK, Frame, CtlType
<1>4. DiagTellsResult'
  <2>1. text = 0 \/ text < cmds
    BY DEF IInv, Status
  <2>2. cmds' = cmds /\ req' = req
    BY DEF Frame
  <2> QED BY <1>1, <2>1, <2>2 DEF DiagTellsResult, OverflowRefused, Answers
<1>5. Status' /\ Position' /\ Quiet'
  BY <1>1, <1>2 DEF Status, Position, Quiet
<1> QED BY <1>2, <1>3, <1>4, <1>5 DEF IInv

LEMMA Aborts ==
  ASSUME IInv, Frame, ctl' \in CtlType, faults' \in 0 .. MaxFaults, req.kind # "none",
         pc # "idle", NEW s \in Answers \cup {"TARGET"}, Abort(s),
         prior = {} /\ Busy => s \in Answers \/ LastPoll
  PROVE  IInv'
<1>1. pc' = "abort" /\ st' = s /\ diag' = cmds /\ UNCHANGED <<text, result, cur, polls>>
  BY DEF Abort
<1>2. Changes' /\ req' \in Commands /\ req' = req
  BY FrameKeeps DEF Frame
<1>3. TypeOK'
  BY <1>1 DEF IInv, TypeOK, Frame, CtlType, Pcs
<1>4. DiagTellsResult'
  BY <1>1 DEF DiagTellsResult
<1>5. Status' /\ Position'
  BY <1>1, <1>2 DEF IInv, Status, Position, Frame
<1>6. Quiet'
  BY <1>1 DEF Quiet, Frame, Busy, LastPoll
<1> QED BY <1>2, <1>3, <1>4, <1>5, <1>6 DEF IInv

\* A command that goes on, to a point whose promises hold.
LEMMA GoesOn ==
  ASSUME IInv, Frame, ctl' \in CtlType, faults' \in 0 .. MaxFaults,
         pc \notin {"idle", "abort"}, UNCHANGED <<st, diag, text, result>>,
         pc' \in Pcs \ {"idle", "abort", "unlocked"}, cur' \in 0 .. WORD, polls' \in 0 .. MaxPolls,
         pc' \in {"dukr", "dul_wait"} => req.kind = "option", Position', Quiet'
  PROVE  IInv'
<1>1. Changes' /\ req' \in Commands /\ req' = req
  BY FrameKeeps DEF Frame
<1>2. TypeOK'
  BY DEF IInv, TypeOK, Frame, CtlType
<1>3. DiagTellsResult'
  BY DEF DiagTellsResult
<1>4. Status'
  BY <1>1 DEF IInv, Status, Frame
<1> QED BY <1>1, <1>2, <1>3, <1>4 DEF IInv

\* The part at cur, as an operation of the controller.
LEMMA TargetFacts ==
  ASSUME IInv, pc \in Parts,
         req.kind = "write" => cur <= Len(req.data)
  PROVE  /\ Target(req, cur) \in [cells : SUBSET Cells, value : Values]
         /\ Target(req, cur).cells \subseteq Requested(req)
<1>1. req \in Commands /\ cur \in Nat
  BY Sizes DEF IInv, Status, TypeOK
<1>2. CASE req.kind = "erase"
  <2>1. Target(req, cur) = [cells |-> BlockCells(cur), value |-> Erased]
    BY <1>2 DEF Target
  <2>2. BlockCells(cur) \subseteq Cells
    <3> SUFFICES ASSUME NEW j \in 0 .. BLOCK - 1 PROVE Wire(cur + j) \in Cells
      BY DEF BlockCells
    <3>1. cur + j \in Nat
      BY <1>1
    <3> QED BY <3>1, WireCell
  <2>3. PICK a \in req.addr .. req.addr + req.len - 1 : RoundDown(a) = cur
    BY <1>1, <1>2, BlockRequested DEF IInv, Position, Parts
  <2>4. Requested(req) =
          UNION {BlockCells(RoundDown(b)) : b \in req.addr .. req.addr + req.len - 1}
    BY <1>2 DEF Requested
  <2>5. BlockCells(cur) \subseteq Requested(req)
    BY <2>3, <2>4
  <2> QED BY <2>1, <2>2, <2>5 DEF Values
<1>3. CASE req.kind = "write"
  <2>1. /\ cur \in 1 .. Len(req.data) /\ req.data[cur] # Erased /\ req.data[cur] \in Values
        /\ req.addr \in Nat /\ req.data \in Seq(Values)
    BY <1>1, <1>3, WriteFacts DEF IInv, Position, Parts
  <2>2. Target(req, cur) = [cells |-> {Wire(req.addr + cur - 1)}, value |-> req.data[cur]]
    BY <1>3 DEF Target
  <2>3. req.addr + cur - 1 \in Nat
    BY <2>1
  <2>4. Wire(req.addr + cur - 1) \in Cells
    BY <2>3, WireCell
  <2>5. cur \in DOMAIN req.data
    BY <2>1
  <2>6. Requested(req) =
          {Wire(req.addr + k - 1) : k \in {j \in DOMAIN req.data : req.data[j] # Erased}}
    BY <1>3 DEF Requested
  <2>7. Wire(req.addr + cur - 1) \in Requested(req)
    BY <2>1, <2>5, <2>6
  <2> QED BY <2>1, <2>2, <2>4, <2>7
<1>4. CASE req.kind = "option"
  <2>1. Target(req, cur) = [cells |-> {Wire(req.addr)}, value |-> req.data]
    BY <1>4 DEF Target
  <2>2. Wire(req.addr) \in Cells /\ req.data \in Values
    BY <1>1, <1>4, OptionFacts, WireCell
  <2> QED BY <1>4, <2>1, <2>2 DEF Requested
<1> QED BY <1>1, <1>2, <1>3, <1>4, Kinds DEF IInv, Status, Parts

\* The wire's addresses are part of the program's.
LEMMA WireFits == WIRE \in Nat /\ WORD \in Nat /\ WIRE <= WORD
<1> DEFINE q == WORD \div WIRE
<1>1. q \in Nat /\ WORD = WIRE * q /\ WORD \in Nat \ {0} /\ WIRE \in Nat \ {0}
  BY Sizes, DivMod
<1> HIDE DEF q
<1>2. q # 0
  BY <1>1
<1> DEFINE k == q - 1
<1>3. k \in Nat /\ WORD = WIRE + WIRE * k
  BY <1>1, <1>2
<1> HIDE DEF k
<1>4. WIRE * k \in Nat
  BY <1>1, <1>3
<1> QED BY <1>1, <1>3, <1>4

LEMMA Cr2 ==
  ASSUME TypeOK, NEW v \in Modes, Cr2Set(v) \/ \E s \in Answers \cup {"TARGET"} : Cr2Fails(v, s)
  PROVE  /\ ctl' \in CtlType /\ ctl'.eop = ctl.eop /\ ctl'.wrpg = ctl.wrpg
         /\ faults' \in 0 .. MaxFaults
<1>1. CASE Cr2Set(v)
  BY <1>1, Types DEF Cr2Set
<1>2. CASE \E s \in Answers \cup {"TARGET"} : Cr2Fails(v, s)
  <2>1. PICK s \in Answers \cup {"TARGET"} : Cr2Fails(v, s)
    BY <1>2
  <2>2. Fails /\ (ctl' = ctl \/ \E m \in {"mixed", v} : ctl' = [ctl EXCEPT !.mode = m])
    BY <2>1 DEF Cr2Fails
  <2>3. faults' \in 0 .. MaxFaults
    BY <2>2, FailsType
  <2>4. ctl' \in CtlType /\ ctl'.eop = ctl.eop /\ ctl'.wrpg = ctl.wrpg
    <3>1. CASE ctl' = ctl
      BY <3>1, Types
    <3>2. ASSUME NEW m \in {"mixed", v}, ctl' = [ctl EXCEPT !.mode = m]
          PROVE  ctl' \in CtlType /\ ctl'.eop = ctl.eop /\ ctl'.wrpg = ctl.wrpg
      <4>1. m \in Modes \cup {"mixed"}
        OBVIOUS
      <4> QED BY <3>2, <4>1, Types
    <3> QED BY <2>2, <3>1, <3>2
  <2> QED BY <2>3, <2>4
<1> QED BY <1>1, <1>2

LEMMA ReadFailsType ==
  ASSUME TypeOK, ReadFails
  PROVE  ctl' \in CtlType /\ faults' \in 0 .. MaxFaults
BY Types, FailsType DEF ReadFails

-----------------------------------------------------------------------------
LEMMA InitIInv == Init => IInv
<1> SUFFICES ASSUME Init PROVE IInv
  OBVIOUS
<1>1. /\ req = NoReq /\ pc = "idle" /\ cur = 0 /\ polls = 0 /\ st = "OK" /\ diag = 0
      /\ text = 0 /\ result = "OK" /\ mem = [a \in Cells |-> Old] /\ before = mem
      /\ ctl = [Locked EXCEPT !.on = TRUE] /\ op = NoOp /\ faults = 0 /\ cmds = 0
      /\ ~lost /\ prior = {}
  BY DEF Init
<1>2. ctl \in CtlType
  BY <1>1 DEF Locked, CtlType, Modes
<1>3. op \in [cells : SUBSET Cells, value : Values] /\ op.cells = {}
  BY <1>1 DEF NoOp, Values
<1>4. mem \in [Cells -> Values]
  BY <1>1 DEF Values
<1>5. 0 \in 0 .. WORD /\ 0 \in 0 .. MaxPolls /\ 0 \in 0 .. MaxFaults /\ 0 \in 0 .. MaxCmds
  BY Sizes
<1>6. lost \in BOOLEAN
  BY DEF Init
<1>7. TypeOK
  BY <1>1, <1>2, <1>3, <1>4, <1>5, <1>6 DEF TypeOK, CtlType, NoReq, Pcs
<1>8. Status /\ DiagTellsResult
  BY <1>1 DEF Status, DiagTellsResult, Commands, NoReq, Answers
<1>9. Position /\ Quiet
  BY <1>1 DEF Position, Quiet
<1>10. Changes
  BY <1>1, <1>3 DEF Changes, OnlyRequested
<1> QED BY <1>7, <1>8, <1>9, <1>10 DEF IInv

LEMMA Starts ==
  ASSUME IInv, NEW r \in Commands, r.kind # "none", StartCommand(r),
         \/ Return("OK", 0)
         \/ Return("BAD_ARGUMENT", cmds') /\ r.kind = "option"
         \/ Begin("unlocked") /\ (r.kind = "erase" => r.len > 0)
  PROVE  IInv'
<1>1. /\ req' = r /\ lost' = FALSE /\ prior' = op.cells /\ before' = mem /\ cmds' = cmds + 1
      /\ cmds < MaxCmds /\ UNCHANGED <<mem, ctl, op, faults>>
  BY DEF StartCommand
<1>2. /\ r.kind \in {"none", "erase", "write", "option"} /\ cmds + 1 \in 0 .. MaxCmds
      /\ op.cells \subseteq Cells /\ mem \in [Cells -> Values]
  <2>1. cmds + 1 \in 0 .. MaxCmds
    BY <1>1, Sizes DEF IInv, TypeOK
  <2> QED BY <2>1, Kinds, Types DEF IInv
<1>3. /\ pc' \in {"idle", "unlocked"} /\ pc' \in Pcs
      /\ diag' \in 0 .. MaxCmds /\ text' \in 0 .. MaxCmds /\ result' \in {"OK", "TARGET", "BAD_ARGUMENT"} \cup Answers
      /\ cur' \in 0 .. WORD /\ polls' \in 0 .. MaxPolls /\ st' \in {"OK", "TARGET"} \cup Answers
  <2>1. 0 \in 0 .. WORD /\ 0 \in 0 .. MaxPolls
    BY Sizes
  <2>2. CASE Return("OK", 0) \/ Return("BAD_ARGUMENT", cmds')
    BY <1>1, <1>2, <2>1, <2>2, Sizes DEF Return, Pcs, IInv, TypeOK
  <2>3. CASE Begin("unlocked")
    BY <2>3, Sizes DEF Begin, Pcs, IInv, TypeOK
  <2> QED BY <2>2, <2>3
<1>4. TypeOK'
  BY <1>1, <1>2, <1>3 DEF IInv, TypeOK, CtlType
<1>a. text = 0 \/ text < cmds'
  <2>1. pc = "idle" /\ cmds \in Nat /\ text \in Nat
    BY Sizes DEF StartCommand, IInv, TypeOK
  <2>2. text <= cmds
    BY <2>1 DEF IInv, DiagTellsResult
  <2> QED BY <1>1, <2>1, <2>2
<1>5. DiagTellsResult'
  BY <1>1, <1>a DEF DiagTellsResult, OverflowRefused, Return, Begin, Answers
<1>6. Status'
  BY <1>1, <1>a DEF Status, Return, Begin
<1>7. Position'
  BY <1>3 DEF Position
<1>8. Quiet'
  BY <1>1, <1>3 DEF Quiet, Busy
<1>9. Changes'
  BY <1>1 DEF Changes, OnlyRequested
<1> QED BY <1>4, <1>5, <1>6, <1>7, <1>8, <1>9 DEF IInv

LEMMA StartKeeps ==
  ASSUME IInv,
         \/ \E r \in EraseRequests : StartErase(r[1], r[2])
         \/ \E r \in WriteRequests : StartWrite(r[1], r[2])
         \/ \E r \in OptionRequests : StartOption(r[1], r[2])
  PROVE  IInv'
<1>1. ASSUME NEW r \in EraseRequests, StartErase(r[1], r[2]) PROVE IInv'
  <2> DEFINE c == [kind |-> "erase", addr |-> r[1], len |-> r[2]]
  <2>1. c \in Commands /\ c.kind = "erase" /\ c.len = r[2]
    BY DEF Commands
  <2>2. r[2] \in Nat
    BY Sizes, RequestAssumption
  <2>3. /\ StartCommand(c)
        /\ Return("OK", 0) \/ (Begin("unlocked") /\ c.len > 0)
    <3>1. StartCommand(c) /\ IF r[2] = 0 THEN Return("OK", 0) ELSE Begin("unlocked")
      BY <1>1 DEF StartErase
    <3> HIDE DEF c
    <3>2. CASE r[2] = 0
      BY <3>1, <3>2
    <3>3. CASE r[2] # 0
      <4>1. c.len > 0
        BY <2>1, <2>2, <3>3
      <4> QED BY <3>1, <3>3, <4>1, Zenon
    <3> QED BY <3>2, <3>3
  <2> HIDE DEF c
  <2> QED BY <2>1, <2>3, Starts
<1>2. ASSUME NEW r \in WriteRequests, StartWrite(r[1], r[2]) PROVE IInv'
  <2> DEFINE c == [kind |-> "write", addr |-> r[1], data |-> r[2]]
  <2>1. c \in Commands /\ c.kind = "write"
    BY DEF Commands
  <2>2. StartCommand(c) /\ (Return("OK", 0) \/ Begin("unlocked"))
    BY <1>2 DEF StartWrite
  <2> HIDE DEF c
  <2> QED BY <2>1, <2>2, Starts
<1>3. ASSUME NEW r \in OptionRequests, StartOption(r[1], r[2]) PROVE IInv'
  <2> DEFINE c == [kind |-> "option", addr |-> r[1], data |-> r[2]]
  <2>1. c \in Commands /\ c.kind = "option"
    BY DEF Commands
  <2>2. StartCommand(c) /\ (Return("BAD_ARGUMENT", cmds') \/ Begin("unlocked"))
    BY <1>3 DEF StartOption
  <2> HIDE DEF c
  <2> QED BY <2>1, <2>2, Starts
<1> QED BY <1>1, <1>2, <1>3

LEMMA UnlockedKeeps ==
  ASSUME IInv, Unlocked
  PROVE  IInv'
<1>1. /\ pc = "unlocked" /\ ctl' = Seen /\ UNCHANGED <<req, cmds, prior, before, mem, op, faults, lost>>
      /\ req.kind \in {"erase", "write", "option"} /\ req \in Commands /\ diag = 0
  BY Kinds DEF Unlocked, IInv, Status, TypeOK
<1>2. Frame /\ ctl' \in CtlType /\ ctl'.eop = FALSE /\ ctl'.wrpg = FALSE
      /\ faults' \in 0 .. MaxFaults
  BY <1>1, Types DEF IInv, Frame, TypeOK
<1>3. prior = {} => ~Busy
  BY <1>1 DEF IInv, Quiet
<1>4. Quiet' \/ pc' \notin {"dukr", "mode"}
  BY <1>1, <1>2, <1>3 DEF Quiet, Busy
<1>5. CASE req.kind = "option"
  <2>1. pc' \in {"mode", "dukr"} /\ UNCHANGED <<st, diag, text, result, cur, polls>>
    BY <1>5 DEF Unlocked, Goto
  <2>2. Position'
    BY <1>1, <1>5 DEF Position
  <2> QED BY <1>1, <1>2, <1>4, <1>5, <2>1, <2>2, GoesOn, Types DEF Pcs, IInv
<1>6. CASE req.kind \in {"erase", "write"} /\ ~ctl.pul
  <2>1. Return("TARGET", cmds)
    BY <1>6 DEF Unlocked
  <2> QED BY <1>1, <1>2, <2>1, Returns
<1>7. CASE req.kind = "erase" /\ ctl.pul
  <2>1. FirstBlock
    BY <1>7 DEF Unlocked
  <2>2. CASE \E s \in {"OK", "BAD_ARGUMENT"} : Return(s, diag)
    <3>1. diag = 0
      BY <1>1
    <3> QED BY <1>1, <1>2, <1>7, <2>2, <3>1, Returns
  <2>3. CASE /\ req.addr <= EndOf(req.addr, req.len)
             /\ RoundDown(req.addr) < RoundedEnd(req.addr, req.len)
             /\ cur' = RoundDown(req.addr) /\ pc' = "mode" /\ UNCHANGED <<st, diag, text, result, polls>>
    <3>1. req.addr \in Nat /\ req.len > 0
      BY <1>1, <1>7, EraseFacts DEF IInv, Status
    <3>2. InRange(cur')
      BY <2>3, <3>1, RoundFacts DEF InRange
    <3>3. cur' \in 0 .. WORD
      <4>1. /\ cur' \in Nat /\ RoundedEnd(req.addr, req.len) \in Nat
            /\ RoundedEnd(req.addr, req.len) <= WORD
        BY <1>1, <1>7, <2>3, <3>1, RoundFacts, EndFacts
      <4> QED BY <2>3, <4>1, Sizes
    <3>4. Position'
      BY <1>1, <1>7, <3>2 DEF Position, InRange
    <3> QED BY <1>1, <1>2, <1>4, <2>3, <3>3, <3>4, GoesOn, Types DEF Pcs, IInv
  <2>4. /\ EndOf(req.addr, req.len) \in Nat /\ RoundedEnd(req.addr, req.len) \in Nat
        /\ req.addr \in Nat /\ RoundDown(req.addr) \in Nat
    BY <1>1, <1>7, EraseFacts, EndFacts, RoundFacts
  <2> QED BY <2>1, <2>2, <2>3, <2>4 DEF FirstBlock
<1>8. CASE req.kind = "write" /\ ctl.pul
  <2>1. FirstByte
    BY <1>8 DEF Unlocked
  <2>2. PICK k \in 1 .. Len(req.data) + 1 : NextByte(req.data, 1, k) /\ cur' = k
    BY <2>1 DEF FirstByte
  <2>3. pc' = "mode" /\ UNCHANGED <<st, diag, text, result, polls>>
    BY <2>1 DEF FirstByte
  <2>4. Position'
    BY <1>1, <1>8, <2>2, <2>3 DEF Position, NextByte
  <2>5. cur' \in 0 .. WORD
    <3>1. Len(req.data) \in Nat /\ Len(req.data) < WIRE
      BY <1>1, <1>8, WriteFacts
    <3>2. WIRE \in Nat /\ WORD \in Nat /\ WIRE <= WORD
      BY WireFits
    <3> QED BY <2>2, <3>1, <3>2
  <2> QED BY <1>1, <1>2, <1>4, <2>3, <2>4, <2>5, GoesOn, Types DEF Pcs, IInv
<1> QED BY <1>1, <1>5, <1>6, <1>7, <1>8, Types DEF CtlType, IInv

LEMMA KeysKeep ==
  ASSUME IInv, WriteKeys
  PROVE  IInv'
<1>1. pc = "dukr" /\ UNCHANGED <<req, cmds, prior, before, mem, op, lost>> /\ Frame
  BY DEF WriteKeys, Frame, IInv, TypeOK
<1>2. req.kind = "option" /\ (prior = {} => ~Busy /\ ~ctl.eop /\ ~ctl.wrpg)
  BY <1>1 DEF IInv, Status, Quiet
<1>3. CASE /\ ctl' \in {ctl, [ctl EXCEPT !.dul = TRUE]}
           /\ Goto("dul_wait") /\ UNCHANGED faults
  <2>1. ctl' \in CtlType /\ ctl'.eop = ctl.eop /\ ctl'.wrpg = ctl.wrpg /\ faults' \in 0 .. MaxFaults
    BY <1>3, Types DEF IInv, CtlType
  <2>2. pc' = "dul_wait" /\ UNCHANGED <<st, diag, text, result, cur, polls>>
    BY <1>3 DEF Goto
  <2>3. Position' /\ Quiet'
    BY <1>1, <1>2, <2>1, <2>2 DEF Position, Quiet, Busy
  <2> QED BY <1>1, <1>2, <2>1, <2>2, <2>3, GoesOn, Types DEF Pcs, IInv
<1>4. CASE Fails /\ UNCHANGED ctl /\ \E s \in Answers : Return(s, cmds)
  BY <1>1, <1>4, Returns, FailsType, Types DEF IInv
<1> QED BY <1>3, <1>4 DEF WriteKeys

LEMMA DulKeeps ==
  ASSUME IInv, WaitDul
  PROVE  IInv'
<1>1. pc = "dul_wait" /\ UNCHANGED <<req, cmds, prior, before, mem, op, lost>> /\ Frame
  BY DEF WaitDul, Frame, IInv, TypeOK
<1>2. req.kind = "option" /\ (prior = {} => ~Busy)
  BY <1>1 DEF IInv, Status, Quiet
<1>3. CASE ctl' = Seen /\ UNCHANGED faults /\ UNCHANGED <<st, diag, text, result, cur>>
           /\ pc' \in {"dul_wait", "mode"} /\ polls' \in 0 .. MaxPolls
  <2>1. /\ ctl' \in CtlType /\ ctl'.eop = FALSE /\ ctl'.wrpg = FALSE
        /\ faults' \in 0 .. MaxFaults /\ cur' \in 0 .. WORD
    BY <1>3, Types DEF IInv
  <2>2. Position' /\ Quiet'
    BY <1>1, <1>2, <1>3, <2>1 DEF Position, Quiet, Busy
  <2> QED BY <1>1, <1>2, <1>3, <2>1, <2>2, GoesOn DEF Pcs
<1>4. CASE ctl' = Seen /\ UNCHANGED faults /\ Return("TARGET", cmds)
  BY <1>1, <1>4, Returns, Types DEF IInv
<1>5. CASE ReadFails /\ \E s \in Answers : Return(s, cmds)
  BY <1>1, <1>5, Returns, ReadFailsType DEF IInv
<1>6. CASE ctl' = Seen /\ UNCHANGED faults /\ ctl.dul /\ pc' = "mode" /\ polls' = 0
           /\ UNCHANGED <<st, diag, text, result, cur>>
  BY <1>3, <1>6, Sizes
<1>7. CASE ctl' = Seen /\ UNCHANGED faults /\ PollAgain
  BY <1>1, <1>3, <1>7, Sizes DEF PollAgain, IInv, TypeOK
<1> QED BY <1>4, <1>5, <1>6, <1>7 DEF WaitDul

LEMMA ModeKeeps ==
  ASSUME IInv, SetMode \/ SetModeFails
  PROVE  IInv'
<1>1. pc = "mode" /\ UNCHANGED <<req, cmds, prior, before, mem, op, lost>> /\ Frame
  BY DEF SetMode, SetModeFails, Frame, IInv, TypeOK
<1>2. req.kind \in Modes /\ req \in Commands /\ req.kind # "none"
  BY <1>1, Kinds DEF IInv, Status, Modes
<1>3. CASE SetMode
  <2>1. ctl' \in CtlType /\ ctl'.eop = ctl.eop /\ ctl'.wrpg = ctl.wrpg /\ faults' \in 0 .. MaxFaults
    BY <1>2, <1>3, Cr2 DEF IInv, SetMode
  <2>2. /\ pc' = IF req.kind = "write" /\ cur > Len(req.data) THEN "clear" ELSE "trigger"
        /\ UNCHANGED <<st, diag, text, result, cur, polls>>
    BY <1>3 DEF SetMode, Goto
  <2>3. req.kind = "write" => cur \in Nat /\ Len(req.data) \in Nat
    BY <1>2, WriteFacts, Sizes DEF IInv, TypeOK
  <2>4. Position'
    BY <1>1, <2>2, <2>3 DEF IInv, Position, InRange
  <2>5. Quiet'
    BY <1>1, <2>1, <2>2 DEF IInv, Quiet, Busy
  <2> QED BY <1>1, <1>2, <2>1, <2>2, <2>4, <2>5, GoesOn, Types DEF Pcs, IInv
<1>4. CASE SetModeFails
  <2>1. PICK s \in Answers \cup {"TARGET"} :
          /\ Cr2Fails(req.kind, s)
          /\ IF req.kind = "write" THEN Return(s, cmds) ELSE Abort(s)
    BY <1>4 DEF SetModeFails
  <2>2. ctl' \in CtlType /\ faults' \in 0 .. MaxFaults
    BY <1>2, <2>1, Cr2 DEF IInv
  <2>3. CASE Return(s, cmds)
    BY <1>1, <2>2, <2>3, Returns
  <2>4. CASE Abort(s)
    <3>1. prior = {} => ~Busy
      BY <1>1 DEF IInv, Quiet
    <3> QED BY <1>1, <1>2, <2>2, <2>4, <3>1, Aborts
  <2> QED BY <2>1, <2>3, <2>4
<1> QED BY <1>3, <1>4

\* After the trigger: the loop over IAPSR, with or without a resynchronisation.
LEMMA TriggerKeeps ==
  ASSUME IInv, TriggerStarts \/ TriggerRefused \/ TriggerLost
  PROVE  IInv'
<1>1. /\ pc = "trigger" /\ pc' \in {"wait", "resync"} /\ polls' = 0
      /\ UNCHANGED <<st, diag, text, result, cur, req, cmds, prior, before, mem>>
  BY DEF TriggerStarts, TriggerRefused, TriggerLost, AfterTrigger
<1>2. /\ req.kind # "none" /\ req \in Commands /\ cur \in 0 .. WORD /\ 0 \in 0 .. MaxPolls
      /\ req.kind = "write" => cur \in 1 .. Len(req.data) + 1 /\ cur <= Len(req.data)
                               /\ req.data[cur] # Erased
      /\ req.kind = "erase" => InRange(cur)
      /\ prior = {} => ~Busy /\ ~ctl.eop /\ ~ctl.wrpg
      /\ TypeOK
  BY <1>1, Sizes DEF IInv, Status, TypeOK, Position, Quiet
<1>3. /\ ctl' \in CtlType /\ ctl'.eop = ctl.eop /\ lost' \in BOOLEAN /\ faults' \in 0 .. MaxFaults
      /\ op' = op \/ op' = Target(req, cur)
  <2>1. CASE TriggerStarts
    BY <1>2, <2>1, Types DEF TriggerStarts, TypeOK
  <2>2. CASE TriggerRefused
    BY <1>2, <2>2, Types DEF TriggerRefused, TypeOK, CtlType
  <2>3. CASE TriggerLost
    BY <1>2, <2>3, Types, FailsType DEF TriggerLost
  <2> QED BY <2>1, <2>2, <2>3
<1>4. /\ Target(req, cur) \in [cells : SUBSET Cells, value : Values]
      /\ Target(req, cur).cells \subseteq Requested(req)
  BY <1>1, <1>2, TargetFacts DEF Parts
<1>5. op' \in [cells : SUBSET Cells, value : Values] /\ op'.cells \subseteq Requested(req) \cup prior
  BY <1>2, <1>3, <1>4, Types DEF IInv, Changes
<1>6. TypeOK'
  BY <1>1, <1>2, <1>3, <1>5 DEF TypeOK, CtlType, Pcs
<1>7. DiagTellsResult' /\ Status'
  BY <1>1, <1>2 DEF IInv, DiagTellsResult, Status, AfterTrigger
<1>8. Position'
  BY <1>1, <1>2 DEF Position, InRange
<1>9. Quiet'
  <2>1. prior = {} => ~ctl'.eop /\ (ctl'.wrpg => ~Busy')
    <3>1. CASE TriggerRefused
      BY <1>2, <1>3, <3>1 DEF TriggerRefused, Busy
    <3>2. CASE TriggerStarts \/ TriggerLost
      BY <1>2, <1>3, <3>2 DEF TriggerStarts, TriggerLost
    <3> QED BY <3>1, <3>2
  <2> QED BY <1>1, <2>1 DEF Quiet
<1>10. Changes'
  BY <1>1, <1>5 DEF IInv, Changes, OnlyRequested
<1> QED BY <1>6, <1>7, <1>8, <1>9, <1>10 DEF IInv

LEMMA ResyncKeeps ==
  ASSUME IInv, Resync
  PROVE  IInv'
<1>1. /\ pc = "resync" /\ UNCHANGED <<req, cmds, prior, before, mem, ctl, op, lost>> /\ Frame
      /\ ctl' \in CtlType /\ req.kind # "none"
  BY Types DEF Resync, Frame, IInv, TypeOK, Status
<1>2. CASE Goto("wait") /\ UNCHANGED faults
  <2>1. pc' = "wait" /\ UNCHANGED <<st, diag, text, result, cur, polls>>
    BY <1>2 DEF Goto
  <2>2. Position' /\ Quiet'
    BY <1>1, <2>1 DEF IInv, Position, Quiet, Busy, InRange
  <2> QED BY <1>1, <1>2, <2>1, <2>2, GoesOn, Types DEF Pcs, IInv
<1>3. CASE Fails /\ Abort("TIMEOUT")
  BY <1>1, <1>3, Aborts, FailsType DEF IInv, Answers
<1> QED BY <1>2, <1>3 DEF Resync

LEMMA GivesUpKeeps ==
  ASSUME IInv, pc = "wait", Frame, ctl' \in CtlType, faults' \in 0 .. MaxFaults,
         NEW s \in Answers \cup {"TARGET"}, WaitGivesUp(s),
         prior = {} /\ Busy => s \in Answers \/ LastPoll
  PROVE  IInv'
<1>1. req.kind # "none"
  BY DEF IInv, Status
<1>2. CASE Return(s, cmds)
  BY <1>2, Returns
<1>3. CASE Abort(s)
  BY <1>1, <1>3, Aborts
<1> QED BY <1>2, <1>3 DEF WaitGivesUp

LEMMA WaitKeeps ==
  ASSUME IInv, Wait
  PROVE  IInv'
<1>1. /\ pc = "wait" /\ ctl' = Seen /\ UNCHANGED <<req, cmds, prior, before, mem, op, faults, lost>>
      /\ Frame
  BY DEF Wait, Frame, IInv, TypeOK
<1>2. /\ ctl' \in CtlType /\ ctl'.eop = FALSE /\ ctl'.wrpg = FALSE /\ faults' \in 0 .. MaxFaults /\ polls \in 0 .. MaxPolls
      /\ req \in Commands /\ cur \in Nat /\ cur \in 0 .. WORD /\ req.kind # "none"
      /\ req.kind = "erase" => InRange(cur)
      /\ req.kind = "write" => cur \in 1 .. Len(req.data) + 1 /\ cur <= Len(req.data)
      /\ prior = {} /\ (ctl.eop \/ ctl.wrpg) => ~Busy
  <2>1. ctl' \in CtlType /\ ctl'.eop = FALSE /\ ctl'.wrpg = FALSE /\ cur \in 0 .. WORD /\ faults' \in 0 .. MaxFaults
    BY <1>1, Types DEF IInv
  <2>2. cur \in Nat /\ polls \in 0 .. MaxPolls
    BY <2>1, Sizes DEF IInv, TypeOK
  <2>3. /\ req \in Commands /\ req.kind # "none"
        /\ req.kind = "erase" => InRange(cur)
        /\ req.kind = "write" => cur \in 1 .. Len(req.data) + 1 /\ cur <= Len(req.data)
        /\ prior = {} /\ (ctl.eop \/ ctl.wrpg) => ~Busy
    BY <1>1 DEF IInv, Status, Position, Quiet
  <2> QED BY <2>1, <2>2, <2>3
<1>3. PICK hvoff \in BOOLEAN :
        /\ hvoff => ~Busy
        /\ \/ ctl.wrpg /\ WaitGivesUp("TARGET")
           \/ PollDone(hvoff) /\ NextPart
           \/ ~ctl.wrpg /\ ~PollDone(hvoff) /\ PollAgain
           \/ ~ctl.wrpg /\ ~PollDone(hvoff) /\ LastPoll /\ WaitGivesUp("TARGET")
  BY DEF Wait
<1>4. CASE WaitGivesUp("TARGET") /\ (ctl.wrpg \/ LastPoll)
  BY <1>1, <1>2, <1>4, GivesUpKeeps
<1>5. CASE PollAgain
  <2>1. polls' \in 0 .. MaxPolls /\ UNCHANGED <<pc, st, diag, text, result, cur>>
    BY <1>2, <1>5, Sizes DEF PollAgain
  <2>2. Position' /\ Quiet'
    BY <1>1, <1>2, <2>1 DEF IInv, Position, Quiet, Busy, InRange
  <2> QED BY <1>1, <1>2, <2>1, <2>2, GoesOn DEF Pcs
<1>6. CASE PollDone(hvoff) /\ NextPart
  <2>1. prior = {} => ~Busy
    BY <1>2, <1>3, <1>6 DEF PollDone
  <2>2. UNCHANGED <<st, diag, text, result, polls>> /\ pc' \in {"clear", "trigger"}
    BY <1>6 DEF NextPart, Goto
  <2>3. Quiet'
    BY <1>1, <1>2, <2>1, <2>2 DEF Quiet, Busy
  <2>4. CASE req.kind = "write"
    <3>1. PICK k \in cur + 1 .. Len(req.data) + 1 : NextByte(req.data, cur + 1, k) /\ cur' = k
      BY <1>6, <2>4 DEF NextPart
    <3>2. pc' = IF cur' > Len(req.data) THEN "clear" ELSE "trigger"
      BY <1>6, <2>4 DEF NextPart
    <3>3. Len(req.data) \in Nat /\ Len(req.data) < WIRE /\ WIRE <= WORD /\ WORD \in Nat /\ WIRE \in Nat
      BY <1>2, <2>4, WriteFacts, WireFits
    <3>4. k \in Nat /\ k \in 1 .. Len(req.data) + 1 /\ k \in 0 .. WORD
      BY <1>2, <3>1, <3>3
    <3>5. k <= Len(req.data) => req.data[k] # Erased
      BY <3>1 DEF NextByte
    <3>6. Position'
      BY <1>1, <2>4, <3>1, <3>2, <3>3, <3>4, <3>5 DEF Position
    <3> QED BY <1>1, <1>2, <2>2, <2>3, <3>1, <3>4, <3>6, GoesOn DEF Pcs
  <2>5. CASE req.kind # "write"
    <3>1. pc' = "clear" /\ UNCHANGED cur
      BY <1>6, <2>5 DEF NextPart, Goto
    <3>2. Position'
      BY <1>1, <1>2, <2>5, <3>1 DEF Position, InRange
    <3> QED BY <1>1, <1>2, <2>2, <2>3, <3>1, <3>2, GoesOn DEF Pcs
  <2> QED BY <2>4, <2>5
<1> QED BY <1>3, <1>4, <1>5, <1>6

LEMMA ClearKeeps ==
  ASSUME IInv, Clear \/ ClearFails \/ AbortReturn
  PROVE  IInv'
<1>1. /\ pc \in {"clear", "abort"} /\ UNCHANGED <<req, cmds, prior, before, mem, op, lost>> /\ Frame
      /\ Cr2Set("normal") \/ \E s \in Answers \cup {"TARGET"} : Cr2Fails("normal", s)
  BY DEF Clear, ClearFails, AbortReturn, Frame, IInv, TypeOK
<1>2. ctl' \in CtlType /\ ctl'.eop = ctl.eop /\ ctl'.wrpg = ctl.wrpg /\ faults' \in 0 .. MaxFaults
  BY <1>1, Cr2 DEF IInv, Modes
<1>3. CASE ClearFails \/ AbortReturn
  <2>1. \E s \in Answers \cup {"TARGET"} : Return(s, cmds)
    BY <1>3 DEF ClearFails, AbortReturn, IInv, Status
  <2> QED BY <1>1, <1>2, <2>1, Returns
<1>4. CASE Clear /\ Return("OK", diag)
  <2>1. diag = 0
    BY <1>4 DEF Clear, IInv, Status
  <2> QED BY <1>1, <1>2, <1>4, <2>1, Returns
<1>5. CASE /\ Clear /\ req.kind = "erase" /\ cur + BLOCK < RoundedEnd(req.addr, req.len)
           /\ cur' = cur + BLOCK /\ pc' = "mode" /\ polls' = 0 /\ UNCHANGED <<st, diag, text, result>>
  <2> DEFINE z == RoundedEnd(req.addr, req.len)
  <2>1. pc = "clear" /\ req \in Commands /\ InRange(cur)
    BY <1>5 DEF Clear, IInv, Status, Position
  <2>2. z \in Nat /\ z <= WORD /\ BLOCK \in Nat /\ WORD \in Nat /\ 0 \in 0 .. MaxPolls
    BY <1>5, <2>1, EndFacts, Sizes
  <2>3. /\ cur \in Nat /\ cur % BLOCK = 0 /\ req.len > 0
        /\ req.addr <= EndOf(req.addr, req.len) /\ RoundDown(req.addr) <= cur
        /\ RoundDown(req.addr) \in Nat
    BY <1>5, <2>1, EraseFacts, RoundFacts DEF InRange
  <2>4. (cur + BLOCK) % BLOCK = 0
    BY <2>3, NextBlock
  <2>5. cur + BLOCK \in 0 .. WORD /\ RoundDown(req.addr) <= cur + BLOCK /\ cur + BLOCK \in Nat
    <3> HIDE DEF z
    <3>1. cur + BLOCK < z
      BY <1>5 DEF z
    <3> QED BY <2>2, <2>3, <3>1
  <2>6. InRange(cur + BLOCK)
    BY <1>5, <2>3, <2>4, <2>5 DEF InRange
  <2>7. Position'
    BY <1>1, <1>5, <2>6 DEF Position, InRange
  <2>8. Quiet'
    BY <1>1, <1>2, <1>5, <2>1 DEF IInv, Quiet, Busy
  <2> QED BY <1>1, <1>2, <1>5, <2>1, <2>2, <2>5, <2>7, <2>8, GoesOn DEF Pcs
<1> QED BY <1>3, <1>4, <1>5 DEF Clear

\* A step of the target, or a reset, changes memory only where its operation is.
LEMMA TargetKeeps ==
  ASSUME IInv, op' = NoOp, mem' \in {mem, Applied(op)}, ctl' \in CtlType,
         faults' \in 0 .. MaxFaults,
         UNCHANGED <<req, cur, result, cmds, prior, before, pc, polls, st, diag, text, lost>>,
         Busy \/ ~ctl'.eop, ctl'.wrpg => ctl.wrpg
  PROVE  IInv'
<1>1. /\ mem \in [Cells -> Values] /\ op \in [cells : SUBSET Cells, value : Values]
      /\ NoOp \in [cells : SUBSET Cells, value : Values] /\ NoOp.cells = {}
  BY Types DEF IInv, NoOp
<1>2. mem' \in [Cells -> Values] /\ \A a \in Cells : mem'[a] # mem[a] => a \in op.cells
  BY <1>1 DEF Applied
<1>3. TypeOK'
  BY <1>1, <1>2 DEF IInv, TypeOK, CtlType
<1>4. DiagTellsResult' /\ Status' /\ Position'
  BY DEF IInv, DiagTellsResult, OverflowRefused, Status, Position, InRange
<1>5. Quiet'
  BY <1>1 DEF IInv, Quiet, Busy, LastPoll
<1>6. Changes'
  BY <1>1, <1>2 DEF IInv, Changes, OnlyRequested
<1> QED BY <1>3, <1>4, <1>5, <1>6 DEF IInv

LEMMA OutsideKeeps ==
  ASSUME IInv, OperationEnds \/ PowerLoss \/ HostEnters \/ HostUnlocks \/ FailsElsewhere
  PROVE  IInv'
<1>1. CASE OperationEnds
  <2>1. ctl' \in CtlType /\ ctl'.wrpg = ctl.wrpg
    BY <1>1, Types DEF OperationEnds, IInv, CtlType
  <2> QED BY <1>1, <2>1, TargetKeeps, Types DEF OperationEnds, progress, IInv
<1>2. CASE PowerLoss
  <2>0. faults' \in 0 .. MaxFaults
    BY <1>2, Sizes DEF PowerLoss, IInv, TypeOK
  <2>1. ctl' \in CtlType /\ ~ctl'.eop /\ ~ctl'.wrpg
    BY <1>2, Types DEF PowerLoss, ResetTo, Locked, IInv
  <2> QED BY <1>2, <2>0, <2>1, TargetKeeps DEF PowerLoss, ResetTo, progress
<1>3. CASE HostEnters
  <2>1. ctl' \in CtlType /\ ~ctl'.eop /\ ~ctl'.wrpg /\ faults' \in 0 .. MaxFaults
    BY <1>3, Types DEF HostEnters, ResetTo, Locked, CtlType, IInv, Modes
  <2> QED BY <1>3, <2>1, TargetKeeps DEF HostEnters, ResetTo, progress
<1>4. CASE HostUnlocks
  <2>1. /\ pc = "idle" /\ UNCHANGED <<req, cur, result, cmds, prior, before, pc, polls, st, diag, text>>
        /\ UNCHANGED <<mem, op, faults, lost>> /\ ctl' \in CtlType
    BY <1>4, Types DEF HostUnlocks, progress, CtlType, IInv
  <2>2. TypeOK' /\ DiagTellsResult' /\ Status'
    BY <2>1 DEF IInv, TypeOK, CtlType, DiagTellsResult, OverflowRefused, Status
  <2>3. Position' /\ Quiet' /\ Changes'
    BY <2>1 DEF IInv, Position, Quiet, Changes, OnlyRequested
  <2> QED BY <2>2, <2>3 DEF IInv
<1>5. CASE FailsElsewhere
  <2>1. /\ pc = "idle" /\ text' = diag /\ UNCHANGED <<req, cur, result, cmds, prior, before>>
        /\ UNCHANGED <<pc, polls, st, diag, mem, ctl, op, faults, lost>>
    BY <1>5 DEF FailsElsewhere, progress
  <2>2. TypeOK'
    BY <2>1 DEF IInv, TypeOK
  <2>3. DiagTellsResult'
    BY <2>1 DEF IInv, DiagTellsResult, OverflowRefused
  <2>4. Status' /\ Position' /\ Quiet' /\ Changes'
    BY <2>1 DEF IInv, Status, Position, Quiet, Changes, OnlyRequested
  <2> QED BY <2>2, <2>3, <2>4 DEF IInv
<1> QED BY <1>1, <1>2, <1>3, <1>4, <1>5

LEMMA NextIInv == IInv /\ [Next]_vars => IInv'
<1> SUFFICES ASSUME IInv, [Next]_vars PROVE IInv'
  OBVIOUS
<1>1. CASE Host
  BY <1>1, StartKeeps, OutsideKeeps DEF Host
<1>2. CASE UnlockReadFails
  BY <1>2, Returns, ReadFailsType DEF UnlockReadFails, Frame, IInv, TypeOK
<1>3. CASE WaitReadFails
  BY <1>3, GivesUpKeeps, ReadFailsType DEF WaitReadFails, Frame, IInv, TypeOK
<1>4. CASE Firmware
  BY <1>2, <1>3, <1>4, UnlockedKeeps, KeysKeep, DulKeeps, ModeKeeps, TriggerKeeps, ResyncKeeps,
     WaitKeeps, ClearKeeps DEF Firmware
<1>5. CASE OperationEnds \/ PowerLoss
  BY <1>5, OutsideKeeps
<1>6. CASE UNCHANGED vars
  <2>1. TypeOK' /\ DiagTellsResult' /\ Status'
    BY <1>6 DEF vars, IInv, TypeOK, DiagTellsResult, OverflowRefused, Status
  <2>2. Position' /\ Quiet' /\ Changes'
    BY <1>6 DEF vars, IInv, Position, InRange, Quiet, Busy, LastPoll, Changes, OnlyRequested
  <2> QED BY <2>1, <2>2 DEF IInv
<1> QED BY <1>1, <1>4, <1>5, <1>6 DEF Next

\* The inductive invariant: types, what the command knows at each point, and
\* where the operation under way came from (stm8_flash.c).
THEOREM Invariance == Spec => []IInv
BY InitIInv, NextIInv, PTL DEF Spec

\* Every variable has its type: no address leaves the 24 bits of the wire.
THEOREM TypeCorrect == Spec => []TypeOK
<1>1. IInv => TypeOK
  BY DEF IInv
<1> QED BY <1>1, Invariance, PTL

\* However a command ends, whatever the wrapped additions of an erase give, it
\* changed no cell it was not asked to change.
THEOREM ChangesOnlyRequested == Spec => []OnlyRequested
<1>1. IInv => OnlyRequested
  BY DEF IInv, Changes
<1> QED BY <1>1, Invariance, PTL

\* While an operation of the command runs nothing is triggered, and only a
\* command that gives up, without an answer or out of polls, rewrites CR2.
THEOREM LeavesBusyAlone == Spec => []BusyRespected
<1>1. IInv => BusyRespected
  BY DEF IInv, Quiet, BusyRespected
<1> QED BY <1>1, Invariance, PTL

\* The texts of g_flash_last_error and g_last_error are those of the latest flash
\* command, and only if it failed; an error reported since then carries that one.
THEOREM TextTellsResult == Spec => []DiagTellsResult
<1>1. IInv => DiagTellsResult
  BY DEF IInv
<1> QED BY <1>1, Invariance, PTL

-----------------------------------------------------------------------------
\* The part at cur is in memory, and so is every part before it.
Stored(m) == \A a \in Target(req, cur).cells : m[a] = Target(req, cur).value
Before(m) ==
  /\ req.kind = "erase" => \A a \in RoundDown(req.addr) .. cur - 1 : m[Wire(a)] = Erased
  /\ req.kind = "write" =>
       \A k \in 1 .. cur - 1 :
         req.data[k] # Erased => m[Wire(req.addr + k - 1)] = req.data[k]

\* The operation of a trigger that got through runs, is done, was refused, or
\* was cut by a power loss that nothing answers after.
Kept ==
  /\ ~ctl.on => ~Busy
  /\ ~lost /\ prior = {} =>
       /\ pc \in {"resync", "wait"} =>
            \/ op = Target(req, cur)
            \/ ~Busy /\ (~ctl.on \/ ctl.wrpg \/ Stored(mem))
       /\ pc = "clear" /\ req.kind # "write" => Stored(mem)
       /\ pc \in Parts => Before(mem)

LEMMA OnFacts ==
  ASSUME TypeOK
  PROVE  /\ Seen.on = ctl.on /\ Seen.wrpg = FALSE
         /\ \A m : [ctl EXCEPT !.mode = m].on = ctl.on
         /\ [ctl EXCEPT !.wrpg = TRUE].on = ctl.on /\ [ctl EXCEPT !.wrpg = TRUE].wrpg = TRUE
         /\ [ctl EXCEPT !.eop = TRUE].on = ctl.on /\ [ctl EXCEPT !.eop = TRUE].wrpg = ctl.wrpg
         /\ \A k \in {"pul", "dul"} : [ctl EXCEPT ![k] = TRUE].on = ctl.on
         /\ Locked.on = FALSE /\ NoOp.cells = {} /\ ctl \in CtlType
<1>1. ctl \in CtlType
  BY Types
<1>2. Seen.on = ctl.on /\ Seen.wrpg = FALSE
  BY <1>1 DEF CtlType, Seen
<1>3. /\ \A m : [ctl EXCEPT !.mode = m].on = ctl.on
      /\ [ctl EXCEPT !.wrpg = TRUE].on = ctl.on /\ [ctl EXCEPT !.wrpg = TRUE].wrpg = TRUE
      /\ [ctl EXCEPT !.eop = TRUE].on = ctl.on /\ [ctl EXCEPT !.eop = TRUE].wrpg = ctl.wrpg
  BY <1>1 DEF CtlType
<1>4. /\ [ctl EXCEPT !["pul"] = TRUE].on = ctl.on /\ [ctl EXCEPT !["dul"] = TRUE].on = ctl.on
      /\ Locked.on = FALSE /\ NoOp.cells = {}
  BY <1>1 DEF CtlType, Locked, NoOp
<1> QED BY <1>1, <1>2, <1>3, <1>4

LEMMA Cr2On ==
  ASSUME TypeOK, NEW v \in Modes, Cr2Set(v) \/ \E s \in Answers \cup {"TARGET"} : Cr2Fails(v, s)
  PROVE  ctl'.on = ctl.on
<1>1. ctl' = ctl \/ \E m \in {"mixed", v} : ctl' = [ctl EXCEPT !.mode = m]
  BY DEF Cr2Set, Cr2Fails
<1> QED BY <1>1, OnFacts

\* The controller works only while it answers.
LEMMA OnWhileBusy ==
  ASSUME IInv, ~ctl.on => ~Busy, [Next]_vars
  PROVE  ~ctl'.on => ~Busy'
<1>0. TypeOK /\ (pc \in Parts => req.kind \in Modes) /\ "normal" \in Modes
  BY Kinds DEF IInv, Status, Modes, Parts
<1>1. CASE OperationEnds \/ PowerLoss \/ HostEnters
  BY <1>0, <1>1, OnFacts DEF OperationEnds, PowerLoss, HostEnters, ResetTo, Busy
<1>2. CASE TriggerStarts
  BY <1>2 DEF TriggerStarts
<1>3. ASSUME op' = op, ctl'.on = ctl.on PROVE ~ctl'.on => ~Busy'
  BY <1>3 DEF Busy
<1>4. CASE HostUnlocks
  <2>1. op' = op /\ \E k \in {"pul", "dul"} : ctl' = [ctl EXCEPT ![k] = TRUE]
    BY <1>4 DEF HostUnlocks
  <2> QED BY <1>0, <1>3, <2>1, OnFacts
<1>5. CASE \/ \E r \in EraseRequests : StartErase(r[1], r[2])
           \/ \E r \in WriteRequests : StartWrite(r[1], r[2])
           \/ \E r \in OptionRequests : StartOption(r[1], r[2])
           \/ FailsElsewhere
  BY <1>3, <1>5 DEF StartErase, StartWrite, StartOption, StartCommand, FailsElsewhere
<1>6. CASE Unlocked \/ UnlockReadFails \/ WaitDul \/ Wait \/ WaitReadFails
  <2>1. op' = op /\ ctl' \in {ctl, Seen}
    BY <1>6 DEF Unlocked, UnlockReadFails, WaitDul, Wait, WaitReadFails, ReadFails
  <2> QED BY <1>0, <1>3, <2>1, OnFacts
<1>7. CASE WriteKeys
  <2>1. op' = op /\ ctl' \in {ctl, [ctl EXCEPT !.dul = TRUE]}
    BY <1>7 DEF WriteKeys
  <2>2. [ctl EXCEPT !.dul = TRUE].on = ctl.on
    BY <1>0, Types DEF CtlType
  <2> QED BY <1>3, <2>1, <2>2
<1>8. CASE SetMode \/ SetModeFails
  <2>1. op' = op /\ req.kind \in Modes
    BY <1>0, <1>8 DEF SetMode, SetModeFails, Parts
  <2>2. Cr2Set(req.kind) \/ \E s \in Answers \cup {"TARGET"} : Cr2Fails(req.kind, s)
    BY <1>8 DEF SetMode, SetModeFails
  <2> QED BY <1>0, <1>3, <2>1, <2>2, Cr2On
<1>9. CASE Clear \/ ClearFails \/ AbortReturn
  <2>1. op' = op
    BY <1>9 DEF Clear, ClearFails, AbortReturn
  <2>2. Cr2Set("normal") \/ \E s \in Answers \cup {"TARGET"} : Cr2Fails("normal", s)
    BY <1>9 DEF Clear, ClearFails, AbortReturn
  <2> QED BY <1>0, <1>3, <2>1, <2>2, Cr2On
<1>10. CASE TriggerRefused \/ TriggerLost \/ Resync \/ UNCHANGED vars
  <2>1. op' = op /\ ctl' \in {ctl, [ctl EXCEPT !.wrpg = TRUE]}
    BY <1>10 DEF TriggerRefused, TriggerLost, Resync, vars
  <2> QED BY <1>0, <1>3, <2>1, OnFacts
<1> QED BY <1>1, <1>2, <1>4, <1>5, <1>6, <1>7, <1>8, <1>9, <1>10 DEF Next, Host, Firmware

-----------------------------------------------------------------------------
\* When the operation of the part at cur ends, the part is stored.
LEMMA OpStores ==
  ASSUME IInv, op = Target(req, cur)
  PROVE  Stored(Applied(op))
<1>1. op.cells \subseteq Cells
  BY Types DEF IInv
<1> QED BY <1>1 DEF Stored, Applied

\* It leaves the parts before as they are: other bytes of a write have other
\* cells, other blocks of an erase the same value.
LEMMA OpKeepsBefore ==
  ASSUME IInv, op = Target(req, cur), pc \in {"resync", "wait"}, Before(mem)
  PROVE  Before(Applied(op))
<1>1. req \in Commands /\ mem \in [Cells -> Values]
  BY Types DEF IInv, Status
<1>2. CASE req.kind = "erase"
  <2> SUFFICES ASSUME NEW a \in RoundDown(req.addr) .. cur - 1
               PROVE  Applied(op)[Wire(a)] = Erased
    BY <1>2 DEF Before
  <2>1. req.addr \in Nat /\ cur \in Nat
    BY <1>1, <1>2, EraseFacts DEF IInv, Position, InRange
  <2>2. a \in Nat
    BY <2>1, RoundFacts
  <2>3. Wire(a) \in Cells
    BY <2>2, WireCell
  <2>4. op.value = Erased
    BY <1>2 DEF Target
  <2> QED BY <1>2, <2>3, <2>4 DEF Before, Applied
<1>3. CASE req.kind = "write"
  <2>1. /\ req.addr \in Nat /\ Len(req.data) \in Nat /\ Len(req.data) < WIRE /\ WIRE \in Nat \ {0}
        /\ cur \in Nat /\ cur <= Len(req.data)
    <3>1. cur \in 0 .. WORD /\ cur <= Len(req.data)
      BY <1>3, Types DEF IInv, Position
    <3> QED BY <1>1, <1>3, <3>1, WriteFacts, Sizes
  <2> SUFFICES ASSUME NEW k \in 1 .. cur - 1, req.data[k] # Erased
               PROVE  Applied(op)[Wire(req.addr + k - 1)] = req.data[k]
    BY <1>3 DEF Before
  <2> DEFINE x == req.addr + k - 1
             d == cur - k
  <2>2. x \in Nat /\ d \in Nat /\ 0 < d /\ d < WIRE /\ x + d = req.addr + cur - 1
    BY <2>1
  <2>3. op.cells = {Wire(x + d)}
    BY <1>3, <2>2 DEF Target
  <2>4. mem[Wire(x)] = req.data[k]
    BY <1>3 DEF Before
  <2> HIDE DEF x, d
  <2>5. Wire(x) # Wire(x + d)
    BY <2>1, <2>2, Apart DEF Wire
  <2>6. Wire(x) \in Cells
    BY <2>2, WireCell
  <2>7. Applied(op)[Wire(x)] = mem[Wire(x)]
    BY <2>3, <2>5, <2>6 DEF Applied
  <2> QED BY <2>4, <2>7 DEF x
<1> QED BY <1>1, <1>2, <1>3, Kinds DEF Before

\* What is kept when the target works, or loses power, in the middle.
LEMMA OutsideKept ==
  ASSUME IInv, Kept, OperationEnds \/ PowerLoss, ~lost', prior' = {}
  PROVE  /\ pc' \in {"resync", "wait"} => (~Busy /\ (~ctl.on \/ ctl.wrpg \/ Stored(mem)))'
         /\ pc' = "clear" /\ req'.kind # "write" => Stored(mem)'
         /\ pc' \in Parts => Before(mem)'
<1>1. /\ UNCHANGED <<req, cur, pc, lost, prior>> /\ op' = NoOp /\ ~Busy'
      /\ mem' = mem \/ mem' = Applied(op)
  BY OnFacts DEF OperationEnds, PowerLoss, ResetTo, progress, Busy, NoOp
<1>2. OperationEnds => Busy /\ mem' = Applied(op) /\ ctl'.wrpg = ctl.wrpg /\ ctl'.on = ctl.on
  BY OnFacts DEF OperationEnds, IInv
<1>3. PowerLoss => ctl'.on = FALSE
  BY OnFacts DEF PowerLoss, ResetTo, IInv
<1>4. ~Busy => Applied(op) = mem
  <2>1. mem \in [Cells -> Values]
    BY Types DEF IInv
  <2> QED BY <2>1 DEF Applied, Busy
<1>5. pc \in {"mode", "trigger", "clear"} => ~Busy
  BY <1>1 DEF IInv, Quiet
<1>6. CASE pc \in {"resync", "wait"}
  <2>1. Before(mem)
    BY <1>1, <1>6 DEF Kept, Parts
  <2>2. op = Target(req, cur) \/ (~Busy /\ (~ctl.on \/ ctl.wrpg \/ Stored(mem)))
    BY <1>1, <1>6 DEF Kept
  <2>3. CASE op = Target(req, cur)
    <3>1. Stored(Applied(op)) /\ Before(Applied(op))
      BY <1>6, <2>1, <2>3, OpStores, OpKeepsBefore
    <3>2. Before(mem)'
      BY <1>1, <2>1, <3>1 DEF Before
    <3>3. OperationEnds => Stored(mem)'
      BY <1>1, <1>2, <3>1 DEF Stored
    <3> QED BY <1>1, <1>3, <1>6, <3>2, <3>3
  <2>4. CASE ~Busy /\ (~ctl.on \/ ctl.wrpg \/ Stored(mem))
    <3>1. mem' = mem
      BY <1>1, <1>4, <2>4
    <3>2. Before(mem)'
      BY <1>1, <2>1, <3>1 DEF Before
    <3> QED BY <1>1, <1>2, <1>3, <1>6, <2>4, <3>2
  <2> QED BY <2>2, <2>3, <2>4
<1>7. CASE pc \in {"mode", "trigger", "clear"}
  <2>1. mem' = mem
    BY <1>1, <1>4, <1>5, <1>7
  <2>2. Before(mem) /\ (pc = "clear" /\ req.kind # "write" => Stored(mem))
    BY <1>1, <1>7 DEF Kept, Parts
  <2> QED BY <1>1, <1>7, <2>1, <2>2 DEF Before, Stored
<1> QED BY <1>1, <1>6, <1>7 DEF Parts

\* A command that has not reached a part, or has left the last one.
LEMMA NoPart ==
  ASSUME ~ctl'.on => ~Busy', pc' \notin Parts
  PROVE  Kept'
BY DEF Kept, Parts

LEMMA StartKept ==
  ASSUME \/ \E r \in EraseRequests : StartErase(r[1], r[2])
         \/ \E r \in WriteRequests : StartWrite(r[1], r[2])
         \/ \E r \in OptionRequests : StartOption(r[1], r[2])
  PROVE  pc' \notin Parts
BY DEF StartErase, StartWrite, StartOption, Return, Begin, Parts

LEMMA UnlockedKept ==
  ASSUME IInv, Unlocked, pc' \in Parts
  PROVE  pc' = "mode" /\ Before(mem)'
<1>1. /\ req \in Commands /\ UNCHANGED <<req, mem>> /\ req.kind \in {"erase", "write", "option"}
      /\ pc = "unlocked"
  BY Kinds DEF Unlocked, IInv, Status
<1>2. CASE req.kind = "option"
  BY <1>1, <1>2 DEF Unlocked, Goto, Parts, Before
<1>3. CASE req.kind = "erase"
  <2>1. pc' = "mode" /\ cur' = RoundDown(req.addr)
    BY <1>3 DEF Unlocked, Return, FirstBlock, Parts
  <2>2. req.addr \in Nat /\ RoundDown(req.addr) \in Nat
    BY <1>1, <1>3, EraseFacts, RoundFacts
  <2>3. RoundDown(req.addr) .. cur' - 1 = {}
    BY <2>1, <2>2
  <2> QED BY <1>1, <1>3, <2>1, <2>3 DEF Before
<1>4. CASE req.kind = "write"
  <2>1. FirstByte
    BY <1>4 DEF Unlocked, Return, Parts
  <2>2. PICK k \in 1 .. Len(req.data) + 1 : NextByte(req.data, 1, k) /\ cur' = k
    BY <2>1 DEF FirstByte
  <2> QED BY <1>1, <1>4, <2>1, <2>2 DEF Before, FirstByte, NextByte
<1> QED BY <1>1, <1>2, <1>3, <1>4

LEMMA TriggerKept ==
  ASSUME IInv, Kept, TriggerStarts \/ TriggerRefused \/ TriggerLost, ~lost', prior' = {}
  PROVE  /\ pc' \in {"resync", "wait"} /\ Before(mem)'
         /\ \/ op' = Target(req, cur)'
            \/ (~Busy /\ ctl.wrpg)'
<1>1. /\ pc = "trigger" /\ pc' \in {"resync", "wait"}
      /\ UNCHANGED <<cur, req, prior, mem>>
  BY DEF TriggerStarts, TriggerRefused, TriggerLost, AfterTrigger
<1>2. ~TriggerLost /\ ~lost
  BY DEF TriggerStarts, TriggerRefused, TriggerLost
<1>3. Before(mem)'
  BY <1>1, <1>2 DEF Kept, Parts, Before
<1>4. CASE TriggerStarts
  BY <1>1, <1>3, <1>4 DEF TriggerStarts
<1>5. CASE TriggerRefused
  BY <1>1, <1>3, <1>5, OnFacts DEF TriggerRefused, Busy, IInv
<1> QED BY <1>2, <1>4, <1>5

\* The poll that ends the wait has seen the operation of this part end.
LEMMA WaitKept ==
  ASSUME IInv, Kept, Wait, ~lost, prior = {}, pc' \in Parts
  PROVE  /\ pc' = "wait" => \/ op' = Target(req, cur)'
                            \/ (~Busy /\ (~ctl.on \/ ctl.wrpg \/ Stored(mem)))'
         /\ pc' = "clear" /\ req.kind # "write" => Stored(mem)'
         /\ pc' \in {"wait", "clear", "trigger"} /\ Before(mem)'
<1>1. /\ pc = "wait" /\ ctl' = Seen /\ UNCHANGED <<req, mem, op>> /\ ctl.on
      /\ req \in Commands
  BY DEF Wait, IInv, Status
<1>2. /\ Before(mem) /\ req.kind # "none"
      /\ op = Target(req, cur) \/ (~Busy /\ (ctl.wrpg \/ Stored(mem)))
  BY <1>1 DEF Kept, Parts, IInv, Status
<1>3. PICK hvoff \in BOOLEAN :
        /\ hvoff => ~Busy
        /\ \/ ctl.wrpg /\ WaitGivesUp("TARGET")
           \/ PollDone(hvoff) /\ NextPart
           \/ ~ctl.wrpg /\ ~PollDone(hvoff) /\ PollAgain
           \/ ~ctl.wrpg /\ ~PollDone(hvoff) /\ LastPoll /\ WaitGivesUp("TARGET")
  BY DEF Wait
<1>4. ~WaitGivesUp("TARGET")
  BY DEF WaitGivesUp, Return, Abort, Parts
<1>5. CASE ~ctl.wrpg /\ PollAgain
  <2>1. UNCHANGED <<pc, cur>>
    BY <1>5 DEF PollAgain
  <2>2. Before(mem)'
    BY <1>1, <1>2, <2>1 DEF Before
  <2>3. op' = Target(req, cur)' \/ (~Busy' /\ Stored(mem)')
    BY <1>1, <1>2, <1>5, <2>1 DEF Busy, Stored
  <2> QED BY <1>1, <2>1, <2>2, <2>3
<1>6. CASE PollDone(hvoff) /\ NextPart
  <2>1. ~Busy /\ ~ctl.wrpg
    BY <1>1, <1>3, <1>6 DEF PollDone, IInv, Quiet
  <2>2. Target(req, cur).cells # {}
    <3>1. /\ (req.kind = "write" => cur <= Len(req.data)) /\ 0 \in 0 .. BLOCK - 1
          /\ req.kind \in {"erase", "write", "option"}
      BY <1>1, <1>2, Kinds, Sizes DEF IInv, Position
    <3>2. BlockCells(cur) # {}
      BY <3>1 DEF BlockCells
    <3> QED BY <3>1, <3>2 DEF Target
  <2>3. Stored(mem)
    BY <1>2, <2>1, <2>2 DEF Busy
  <2>4. CASE req.kind = "write"
    <3>1. PICK k \in cur + 1 .. Len(req.data) + 1 : NextByte(req.data, cur + 1, k) /\ cur' = k
      BY <1>6, <2>4 DEF NextPart
    <3>2. pc' \in {"clear", "trigger"}
      BY <1>6, <2>4 DEF NextPart
    <3>3. mem[Wire(req.addr + cur - 1)] = req.data[cur]
      BY <2>3, <2>4 DEF Stored, Target
    <3>4. cur \in Nat /\ k \in Nat
      <4>1. cur \in Nat
        BY Types, Sizes DEF IInv
      <4>2. Len(req.data) \in Nat
        BY <1>1, <2>4, WriteFacts
      <4> QED BY <4>1, <4>2
    <3>5. ASSUME NEW j \in 1 .. k - 1, req.data[j] # Erased
          PROVE  mem[Wire(req.addr + j - 1)] = req.data[j]
      <4>1. j \in cur + 1 .. k - 1 => req.data[j] = Erased
        BY <3>1 DEF NextByte
      <4>2. j \in 1 .. cur - 1 \/ j = cur
        BY <3>4, <3>5, <4>1
      <4> QED BY <1>2, <2>4, <3>3, <3>5, <4>2 DEF Before
    <3>6. Before(mem)'
      BY <1>1, <2>4, <3>1, <3>5 DEF Before
    <3> QED BY <2>4, <3>2, <3>6
  <2>5. CASE req.kind # "write"
    <3>1. pc' = "clear" /\ UNCHANGED cur
      BY <1>6, <2>5 DEF NextPart, Goto
    <3>2. Before(mem)' /\ Stored(mem)'
      BY <1>1, <1>2, <2>3, <3>1 DEF Before, Stored
    <3> QED BY <3>1, <3>2
  <2> QED BY <2>4, <2>5
<1> QED BY <1>3, <1>4, <1>5, <1>6

\* After the last byte of a block every byte up to the next block is erased.
LEMMA BlockDone ==
  ASSUME req \in Commands, req.kind = "erase", InRange(cur), Stored(mem), Before(mem)
  PROVE  \A a \in RoundDown(req.addr) .. cur + BLOCK - 1 : mem[Wire(a)] = Erased
<1> SUFFICES ASSUME NEW a \in RoundDown(req.addr) .. cur + BLOCK - 1
             PROVE  mem[Wire(a)] = Erased
  OBVIOUS
<1>1. cur \in Nat /\ BLOCK \in Nat /\ RoundDown(req.addr) \in Nat
  BY Sizes, EraseFacts, RoundFacts DEF InRange
<1>2. CASE a < cur
  <2>1. a \in RoundDown(req.addr) .. cur - 1
    BY <1>1, <1>2
  <2> QED BY <2>1 DEF Before
<1>3. CASE cur <= a
  <2> DEFINE j == a - cur
  <2>1. j \in 0 .. BLOCK - 1 /\ cur + j = a
    BY <1>1, <1>3
  <2> HIDE DEF j
  <2>2. Wire(a) \in BlockCells(cur)
    BY <2>1 DEF BlockCells
  <2> QED BY <2>2 DEF Stored, Target
<1> QED BY <1>1, <1>2, <1>3

LEMMA ClearKept ==
  ASSUME IInv, Kept, Clear, ~lost, prior = {}, pc' \in Parts
  PROVE  pc' = "mode" /\ Before(mem)'
<1>1. /\ pc = "clear" /\ req.kind = "erase" /\ req \in Commands /\ UNCHANGED <<req, mem>>
      /\ cur' = cur + BLOCK /\ pc' = "mode"
  BY DEF Clear, Return, Parts, IInv, Status
<1>2. InRange(cur) /\ Stored(mem) /\ Before(mem)
  BY <1>1 DEF IInv, Position, Kept, Parts
<1>3. \A a \in RoundDown(req.addr) .. cur + BLOCK - 1 : mem[Wire(a)] = Erased
  BY <1>1, <1>2, BlockDone
<1>4. cur' - 1 = cur + BLOCK - 1
  <2>1. cur \in Nat /\ BLOCK \in Nat
    BY <1>2, Sizes DEF InRange
  <2> QED BY <1>1, <2>1
<1>5. \A a \in RoundDown(req'.addr) .. cur' - 1 : mem'[Wire(a)] = Erased
  BY <1>1, <1>3, <1>4
<1> QED BY <1>1, <1>5 DEF Before

LEMMA InitKept == Init => Kept
<1> SUFFICES ASSUME Init PROVE Kept
  OBVIOUS
<1>1. pc = "idle" /\ op = NoOp /\ NoOp.cells = {}
  BY DEF Init, NoOp
<1> QED BY <1>1 DEF Kept, Parts, Busy

LEMMA NextKept ==
  ASSUME IInv, Kept, [Next]_vars
  PROVE  Kept'
<1>1. ~ctl'.on => ~Busy'
  BY OnWhileBusy DEF Kept
<1> SUFFICES ASSUME ~lost', prior' = {}, pc' \in Parts
             PROVE  Kept'
  BY <1>1 DEF Kept, Parts
<1>2. CASE Host
  <2>1. pc' \notin Parts
    BY <1>2, StartKept DEF Host, HostEnters, HostUnlocks, FailsElsewhere, ResetTo, Parts
  <2> QED BY <2>1
<1>3. CASE Unlocked
  BY <1>1, <1>3, UnlockedKept DEF Kept
<1>4. CASE TriggerStarts \/ TriggerRefused \/ TriggerLost
  <2>1. /\ pc' \in {"resync", "wait"} /\ Before(mem)'
        /\ op' = Target(req, cur)' \/ (~Busy /\ ctl.wrpg)'
    BY <1>4, TriggerKept
  <2> QED BY <1>1, <2>1 DEF Kept
<1>5. CASE Wait
  <2>1. ~lost /\ prior = {} /\ req' = req
    BY <1>5 DEF Wait
  <2>2. /\ pc' = "wait" => \/ op' = Target(req, cur)'
                           \/ (~Busy /\ (~ctl.on \/ ctl.wrpg \/ Stored(mem)))'
        /\ pc' = "clear" /\ req.kind # "write" => Stored(mem)'
        /\ pc' \in {"wait", "clear", "trigger"} /\ Before(mem)'
    BY <1>5, <2>1, WaitKept
  <2> QED BY <1>1, <2>1, <2>2 DEF Kept
<1>6. CASE Clear
  <2>1. ~lost /\ prior = {}
    BY <1>6 DEF Clear
  <2>2. pc' = "mode" /\ Before(mem)'
    BY <1>6, <2>1, ClearKept
  <2> QED BY <1>1, <2>2 DEF Kept
<1>7. CASE OperationEnds \/ PowerLoss
  <2>1. /\ pc' \in {"resync", "wait"} => (~Busy /\ (~ctl.on \/ ctl.wrpg \/ Stored(mem)))'
        /\ pc' = "clear" /\ req'.kind # "write" => Stored(mem)'
        /\ pc' \in Parts => Before(mem)'
    BY <1>7, OutsideKept
  <2> QED BY <1>1, <2>1 DEF Kept
<1>8. CASE WaitDul
  <2>1. pc' = "mode" /\ req.kind = "option" /\ req' = req
    BY <1>8 DEF WaitDul, PollAgain, Return, IInv, Status, Parts
  <2>2. Before(mem)'
    BY <2>1 DEF Before
  <2> QED BY <1>1, <2>1, <2>2 DEF Kept
<1>9. CASE SetMode
  <2>1. /\ pc = "mode" /\ UNCHANGED <<req, cur, mem, lost, prior>>
        /\ pc' = IF req.kind = "write" /\ cur > Len(req.data) THEN "clear" ELSE "trigger"
    BY <1>9 DEF SetMode, Goto
  <2>2. Before(mem)'
    BY <2>1 DEF Kept, Parts, Before
  <2> QED BY <1>1, <2>1, <2>2 DEF Kept
<1>10. CASE Resync
  <2>1. pc = "resync" /\ UNCHANGED <<req, mem, ctl, op, lost, prior>> /\ pc' = "wait" /\ UNCHANGED cur
    BY <1>10 DEF Resync, Goto, Abort, Parts
  <2>2. Before(mem) /\ (op = Target(req, cur) \/ (~Busy /\ (~ctl.on \/ ctl.wrpg \/ Stored(mem))))
    BY <2>1 DEF Kept, Parts
  <2>3. Before(mem)' /\ (op = Target(req, cur) \/ (~Busy /\ (~ctl.on \/ ctl.wrpg \/ Stored(mem))))'
    BY <2>1, <2>2 DEF Before, Stored, Busy
  <2> QED BY <1>1, <2>1, <2>3 DEF Kept
<1>11. CASE UnlockReadFails \/ WriteKeys \/ SetModeFails \/ WaitReadFails \/ ClearFails \/ AbortReturn
  <2>1. pc' \notin Parts
    BY <1>11 DEF UnlockReadFails, WriteKeys, SetModeFails, WaitReadFails, ClearFails, AbortReturn,
       WaitGivesUp, Return, Abort, Goto, Parts
  <2> QED BY <2>1
<1>12. CASE UNCHANGED vars
  BY <1>12 DEF vars, Kept, Parts, Before, Stored, Busy
<1> QED
  BY <1>2, <1>3, <1>4, <1>5, <1>6, <1>7, <1>8, <1>9, <1>10, <1>11, <1>12 DEF Next, Firmware

\* A write leaves the cells of its 0x00 bytes alone: no other byte of the data
\* has their cell, since the data is shorter than the address space of SWIM.
LEMMA SkippedKept ==
  ASSUME IInv, prior = {}, req \in Commands, req.kind = "write",
         NEW i \in 1 .. Len(req.data), req.data[i] = Erased
  PROVE  /\ Wire(req.addr + i - 1) \in Skipped(req)
         /\ mem[Wire(req.addr + i - 1)] = before[Wire(req.addr + i - 1)]
<1>1. /\ req.addr \in Nat /\ Len(req.data) \in Nat /\ Len(req.data) < WIRE
      /\ WIRE \in Nat \ {0} /\ DOMAIN req.data = 1 .. Len(req.data)
  BY WriteFacts, Sizes
<1> DEFINE x == req.addr + i - 1
<1>2. x \in Nat /\ Wire(x) \in Cells
  BY <1>1, WireCell
<1>3. Wire(x) \in Skipped(req)
  BY <1>1 DEF Skipped
<1>4. ASSUME NEW k \in 1 .. Len(req.data), req.data[k] # Erased
      PROVE  Wire(req.addr + k - 1) # Wire(x)
  <2> DEFINE y == req.addr + k - 1
             a == req.addr
             n == Len(req.data)
  <2>1. y \in Nat /\ k # i
    BY <1>1, <1>4
  <2>2. /\ a \in Nat /\ n \in Nat /\ n < WIRE /\ WIRE \in Nat
        /\ i \in 1 .. n /\ k \in 1 .. n /\ x = a + i - 1 /\ y = a + k - 1
    BY <1>1
  <2> HIDE DEF x, y, a, n
  <2>3. CASE k < i
    <3> DEFINE d == i - k
    <3>1. d \in Nat /\ 0 < d /\ d < WIRE /\ y + d = x
      BY <2>2, <2>3
    <3> HIDE DEF d
    <3> QED BY <1>1, <2>1, <3>1, Apart DEF Wire, y
  <2>4. CASE i < k
    <3> DEFINE d == k - i
    <3>1. d \in Nat /\ 0 < d /\ d < WIRE /\ x + d = y
      BY <2>2, <2>4
    <3> HIDE DEF d
    <3> QED BY <1>1, <1>2, <3>1, Apart DEF Wire, y
  <2>5. k < i \/ i < k
    BY <2>1, <2>2
  <2> QED BY <2>3, <2>4, <2>5
<1> HIDE DEF x
<1>5. Wire(x) \notin Requested(req)
  BY <1>1, <1>4 DEF Requested
<1>6. mem[Wire(x)] = before[Wire(x)]
  BY <1>2, <1>5 DEF IInv, Changes, OnlyRequested
<1> QED BY <1>3, <1>6 DEF x

\* What the last return of a command finds.
LEMMA SuccessIsDone ==
  ASSUME IInv, Kept, [Next]_vars, Succeeds, ~lost, prior = {}, ~Wraps(req),
         \A a \in Skipped(req) : before[a] = Erased
  PROVE  Done(req, mem')
<1>1. pc # "idle" /\ pc' = "idle" /\ result' = "OK"
  BY DEF Succeeds
<1>2. CASE Unlocked
  <2>1. req \in Commands /\ req.kind = "erase" /\ pc = "unlocked"
    BY <1>1, <1>2, Kinds DEF Unlocked, Goto, Return, FirstByte, IInv, Status
  <2>2. FirstBlock /\ req.len > 0
    BY <1>1, <1>2, <2>1 DEF Unlocked, Return, IInv, Status
  <2> DEFINE s == req.addr + req.len
             z == RoundedEnd(req.addr, req.len)
             d == RoundDown(req.addr)
  <2>3. d >= z
    BY <1>1, <2>2 DEF FirstBlock, Return
  <2>4. s <= WORD - BLOCK
    <3>1. req.addr + req.len \in Nat /\ WORD \in Nat /\ BLOCK \in Nat
      BY <2>1, EraseFacts, Sizes
    <3> QED BY <2>1, <3>1 DEF Wraps
  <2>5. s <= z /\ z \in Nat
    BY <2>1, <2>4, EndFacts
  <2>6. d <= req.addr /\ d \in Nat /\ req.addr \in Nat /\ req.len \in Nat
    BY <2>1, EraseFacts, RoundFacts
  <2> HIDE DEF d, z
  <2>7. FALSE
    BY <2>2, <2>3, <2>5, <2>6
  <2> QED BY <2>7
<1>3. CASE Clear
  <2>1. /\ pc = "clear" /\ mem' = mem /\ req \in Commands /\ Before(mem)
        /\ req.kind # "write" => Stored(mem)
        /\ req.kind = "erase" => InRange(cur)
        /\ req.kind = "write" => cur > Len(req.data) /\ cur \in 1 .. Len(req.data) + 1
    BY <1>3 DEF Clear, Kept, Parts, IInv, Status, Position
  <2>2. CASE req.kind = "erase"
    <3> DEFINE s == req.addr + req.len
               z == RoundedEnd(req.addr, req.len)
    <3>1. ~(cur + BLOCK < z)
      BY <1>1, <1>3, <2>2 DEF Clear
    <3>2. s <= WORD - BLOCK
      <4>1. req.addr + req.len \in Nat /\ WORD \in Nat /\ BLOCK \in Nat
        BY <2>1, <2>2, EraseFacts, Sizes
      <4> QED BY <2>2, <4>1 DEF Wraps
    <3>3. s <= z /\ z \in Nat
      BY <2>1, <2>2, <3>2, EndFacts
    <3>4. /\ RoundDown(req.addr) <= req.addr /\ RoundDown(req.addr) \in Nat /\ req.addr \in Nat
          /\ req.len \in Nat /\ cur \in Nat /\ BLOCK \in Nat
      BY <2>1, <2>2, EraseFacts, RoundFacts, Sizes DEF InRange
    <3>5. \A a \in RoundDown(req.addr) .. cur + BLOCK - 1 : mem[Wire(a)] = Erased
      BY <2>1, <2>2, BlockDone
    <3>6. ASSUME NEW a \in req.addr .. req.addr + req.len - 1
          PROVE  mem'[Wire(a)] = Erased
      <4>1. a \in RoundDown(req.addr) .. cur + BLOCK - 1
        <5> HIDE DEF z
        <5> QED BY <3>1, <3>3, <3>4
      <4> QED BY <2>1, <3>5, <4>1
    <3>7. \A a \in req.addr .. req.addr + req.len - 1 : mem'[Wire(a)] = Erased
      BY <3>6
    <3> HIDE DEF s, z
    <3> QED BY <2>2, <3>7 DEF Done
  <2>3. CASE req.kind = "write"
    <3>1. cur - 1 = Len(req.data) /\ req.data \in Seq(Values)
      BY <2>1, <2>3, WriteFacts
    <3>2. \A k \in 1 .. Len(req.data) :
            req.data[k] # Erased => mem[Wire(req.addr + k - 1)] = req.data[k]
      BY <2>1, <2>3, <3>1 DEF Before
    <3>3. DOMAIN req.data = 1 .. Len(req.data)
      BY <3>1
    <3>4. \A k \in 1 .. Len(req.data) :
            req.data[k] = Erased => mem[Wire(req.addr + k - 1)] = Erased
      BY <2>1, <2>3, SkippedKept
    <3> QED BY <2>1, <2>3, <3>2, <3>3, <3>4 DEF Done
  <2>4. CASE req.kind = "option"
    BY <2>1, <2>4 DEF Stored, Target, Done
  <2>5. req.kind \in {"erase", "write", "option"}
    BY <2>1, Kinds DEF IInv, Status
  <2> QED BY <2>2, <2>3, <2>4, <2>5
<1>4. ~Host /\ ~OperationEnds /\ ~PowerLoss /\ ~UNCHANGED vars
  BY <1>1 DEF Host, HostEnters, HostUnlocks, StartErase, StartWrite, StartOption, StartCommand,
     FailsElsewhere, OperationEnds, PowerLoss, ResetTo, vars
<1>5. ~UnlockReadFails /\ ~WriteKeys /\ ~WaitDul /\ ~SetMode /\ ~SetModeFails
  BY <1>1 DEF UnlockReadFails, WriteKeys, WaitDul, SetMode, SetModeFails, Goto, Return, Abort,
     PollAgain, Answers
<1>6. ~TriggerStarts /\ ~TriggerRefused /\ ~TriggerLost /\ ~Resync
  BY <1>1 DEF TriggerStarts, TriggerRefused, TriggerLost, AfterTrigger, Resync, Goto, Abort
<1>7. ~Wait /\ ~WaitReadFails /\ ~ClearFails
  BY <1>1 DEF Wait, WaitReadFails, ClearFails, WaitGivesUp, NextPart, Goto, Return, Abort,
     PollAgain, Answers
<1>8. ~AbortReturn
  BY <1>1 DEF AbortReturn, Return, IInv, Status, Answers
<1> QED BY <1>2, <1>3, <1>4, <1>5, <1>6, <1>7, <1>8 DEF Next, Firmware

\* OK means that every cell the request names holds what it asked for, given
\* triggers that got through, a range that does not wrap, and erased cells where
\* the data of a write is 0x00: EOP, HVOFF and WR_PG_DIS never make a command
\* report an operation that was refused, cut, or another one's.
THEOREM OkIsDone == Spec => OkMeansDone
<1>1. IInv /\ Kept /\ [Next]_vars => Kept'
  BY NextKept
<1>2. Spec => []Kept
  BY <1>1, InitKept, Invariance, PTL DEF Spec
<1> DEFINE Good == /\ Succeeds /\ ~lost /\ prior = {} /\ ~Wraps(req)
                   /\ \A a \in Skipped(req) : before[a] = Erased
                   => Done(req, mem')
<1>3. IInv /\ Kept /\ [Next]_vars => [Good]_vars
  BY SuccessIsDone
<1> HIDE DEF Good
<1>4. Spec => [][Good]_vars
  BY <1>2, <1>3, Invariance, PTL DEF Spec
<1> QED BY <1>4 DEF OkMeansDone, Good
=============================================================================
