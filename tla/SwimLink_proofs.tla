-------------------------- MODULE SwimLink_proofs --------------------------
(***************************************************************************)
(* For every size of bytes, words and chunks: host and target stay in      *)
(* step, SwimLink implements MemoryAccess, and OK means done.              *)
(***************************************************************************)
EXTENDS SwimLink, NaturalFacts, TLAPS

-----------------------------------------------------------------------------
\* Where the host is in a call; with it, TypeOK and InStep are inductive.
Progress ==
  /\ pc \in Fields => req \in Requests /\ base < Size
  /\ req = NoReq => pc = "idle" /\ base = 0
  /\ pc \notin {"data", "ack"} => i = 0
  /\ pc = "idle" /\ req # NoReq => base = Size
  /\ pc \in {"AE", "AH", "AL"} => tgt.n = Chunk(base)
  /\ pc = "data" => req.op = "write" /\ i < Chunk(base)
  /\ pc = "ack" => req.op = "read" /\ 1 <= i /\ i <= Chunk(base)

IInv == TypeOK /\ InStep /\ Progress

LEMMA Sizes ==
  /\ BYTE \in Nat \ {0} /\ WORD \in Nat \ {0} /\ CHUNK \in Nat \ {0}
  /\ WIRE \in Nat \ {0} /\ WORD % WIRE = 0
<1>1. /\ BYTE \in Nat \ {0} /\ WORD \in Nat \ {0} /\ CHUNK \in Nat \ {0}
      /\ WORD % WIRE = 0
  BY SizeAssumption
<1> QED BY <1>1 DEF WIRE

LEMMA RequestFacts ==
  ASSUME req \in Requests
  PROVE  /\ req # NoReq /\ req.op \in {"read", "write"} /\ req.addr \in Nat
         /\ req.data \in Seq(Values) /\ Size \in Nat /\ Size <= WIRE
<1>1. WORD \in Nat
  BY Sizes
<1>2. /\ req.op \in {"read", "write"} /\ req.addr \in 0 .. WORD - 1
      /\ req.data \in Seq(Values) /\ Len(req.data) <= WIRE
  BY RequestAssumption
<1> QED BY <1>1, <1>2 DEF NoReq, Size

LEMMA ChunkFacts ==
  ASSUME req \in Requests, base \in Nat, base < Size
  PROVE  /\ Chunk(base) \in Nat /\ 1 <= Chunk(base) /\ Chunk(base) <= CHUNK
         /\ base + Chunk(base) <= Size
BY Sizes, RequestFacts DEF Chunk

\* The cell of byte i of the chunk, on the wire.
At(n) == ((Address % WIRE) + n) % WIRE

LEMMA Cell ==
  ASSUME NEW n \in Nat
  PROVE  n % WIRE \in Cells /\ ((n % WIRE) + 1) % WIRE = (n + 1) % WIRE
<1>1. n % WIRE \in Nat /\ n % WIRE < WIRE /\ WIRE \in Nat \ {0}
  BY Sizes, DivMod
<1>2. ((n % WIRE) + 1) % WIRE = (n + 1) % WIRE
  <2>1. 1 \in Nat
    OBVIOUS
  <2> QED BY <1>1, <2>1, ModAdd
<1> QED BY <1>1, <1>2 DEF Cells

\* The address as the target puts it together.
LEMMA AddressFacts ==
  ASSUME req \in Requests, base \in Nat
  PROVE  LET A == Address % WIRE
         IN  /\ Address \in Nat /\ A \in Cells /\ A \in Nat
             /\ Sent("AE") * BYTE * BYTE = A - (A % (BYTE * BYTE))
             /\ A - (A % (BYTE * BYTE)) + Sent("AH") * BYTE = A - (A % BYTE)
             /\ A - (A % BYTE) + Sent("AL") = A
             /\ A - (A % (BYTE * BYTE)) \in Cells /\ A - (A % BYTE) \in Cells
             /\ At(0) = A
<1> DEFINE A == Address % WIRE
<1>1. Address \in Nat
  BY RequestFacts, Sizes, DivMod DEF Address
<1>2. A \in Nat /\ A < WIRE /\ A \in Cells
  BY <1>1, Sizes, DivMod DEF Cells
<1>3. /\ Sent("AE") = (Address \div (BYTE * BYTE)) % BYTE
      /\ Sent("AH") = (Address \div BYTE) % BYTE
      /\ Sent("AL") = Address % BYTE
  BY DEF Sent
<1> DEFINE e == (Address \div (BYTE * BYTE)) % BYTE
           h == (Address \div BYTE) % BYTE
           l == Address % BYTE
<1>4. /\ e * BYTE * BYTE = A - (A % (BYTE * BYTE))
      /\ e * BYTE * BYTE + h * BYTE = A - (A % BYTE)
      /\ e * BYTE * BYTE + h * BYTE + l = A
      /\ e \in Nat /\ h \in Nat /\ l \in Nat
  BY <1>1, Sizes, ThreeBytes DEF WIRE
<1>5. e * BYTE * BYTE \in Nat /\ h * BYTE \in Nat
  BY <1>4, Sizes
<1>6. A % WIRE = A
  <2>1. WIRE \in Nat \ {0} /\ A = WIRE * 0 + A
    BY <1>2, Sizes
  <2> HIDE DEF A
  <2> QED BY <1>2, <2>1, ModIs
<1> HIDE DEF e, h, l, A
<1>7. /\ A - (A % (BYTE * BYTE)) \in Cells
      /\ A - (A % BYTE) \in Cells
  <2> DEFINE u == e * BYTE * BYTE
             v == h * BYTE
  <2>1. u \in Nat /\ v \in Nat /\ l \in Nat /\ u + v + l = A
    BY <1>4, <1>5
  <2>2. A - (A % (BYTE * BYTE)) = u /\ A - (A % BYTE) = u + v
    BY <1>4
  <2> HIDE DEF u, v
  <2>3. u \in Cells /\ u + v \in Cells
    BY <1>2, <2>1, Sizes DEF Cells
  <2> QED BY <2>2, <2>3
<1>8. At(0) = A
  BY <1>2, <1>6 DEF At, A
<1> QED BY <1>1, <1>2, <1>3, <1>4, <1>5, <1>7, <1>8 DEF e, h, l, A

TgtType == [wants : Fields, op : {"none", "read", "write"}, n : 0 .. CHUNK, addr : Cells]

\* What the target has after each field.
LEMMA HeaderTaken ==
  ASSUME IInv, req \in Requests, base \in Nat
  PROVE  LET A == Address % WIRE
         IN  /\ pc = "command" => Taken("command", Sent("command")) =
                  [wants |-> "length", op |-> req.op, n |-> 0, addr |-> 0]
             /\ pc = "length" => Taken("length", Sent("length")) =
                  [wants |-> "AE", op |-> req.op, n |-> Chunk(base), addr |-> 0]
             /\ pc = "AE" => Taken("AE", Sent("AE")) =
                  [wants |-> "AH", op |-> req.op, n |-> Chunk(base),
                   addr |-> A - (A % (BYTE * BYTE))]
             /\ pc = "AH" => Taken("AH", Sent("AH")) =
                  [wants |-> "AL", op |-> req.op, n |-> Chunk(base),
                   addr |-> A - (A % BYTE)]
             /\ pc = "AL" => Taken("AL", Sent("AL")) =
                  [wants |-> IF req.op = "read" THEN "ack" ELSE "data", op |-> req.op,
                   n |-> Chunk(base), addr |-> A]
<1> DEFINE A == Address % WIRE
<1>1. tgt \in TgtType
  BY DEF IInv, TypeOK, TgtType
<1>2. /\ Sent("AE") * BYTE * BYTE = A - (A % (BYTE * BYTE))
      /\ A - (A % (BYTE * BYTE)) + Sent("AH") * BYTE = A - (A % BYTE)
      /\ A - (A % BYTE) + Sent("AL") = A
  BY AddressFacts
<1>3. /\ Sent("command") = req.op /\ Sent("length") = Chunk(base)
  BY DEF Sent
<1>4. /\ pc \in {"length", "AE", "AH", "AL"} => tgt.op = req.op
      /\ pc \in {"AE", "AH", "AL"} => tgt.n = Chunk(base)
      /\ pc = "AH" => tgt.addr = A - (A % (BYTE * BYTE))
      /\ pc = "AL" => tgt.addr = A - (A % BYTE)
  BY DEF IInv, InStep, Progress, Fields
<1> HIDE DEF A
<1>5. pc = "command" => Taken("command", Sent("command")) =
        [wants |-> "length", op |-> req.op, n |-> 0, addr |-> 0]
  BY <1>3 DEF Taken, Ready
<1>6. pc = "length" => Taken("length", Sent("length")) =
        [wants |-> "AE", op |-> req.op, n |-> Chunk(base), addr |-> 0]
  BY <1>1, <1>3, <1>4 DEF Taken, TgtType
<1>7. pc = "AE" => Taken("AE", Sent("AE")) =
        [wants |-> "AH", op |-> req.op, n |-> Chunk(base),
         addr |-> A - (A % (BYTE * BYTE))]
  BY <1>1, <1>2, <1>4 DEF Taken, TgtType
<1>8. pc = "AH" => Taken("AH", Sent("AH")) =
        [wants |-> "AL", op |-> req.op, n |-> Chunk(base), addr |-> A - (A % BYTE)]
  BY <1>1, <1>2, <1>4 DEF Taken, TgtType
<1>9. pc = "AL" => Taken("AL", Sent("AL")) =
        [wants |-> IF req.op = "read" THEN "ack" ELSE "data", op |-> req.op,
         n |-> Chunk(base), addr |-> A]
  BY <1>1, <1>2, <1>4 DEF Taken, TgtType
<1> QED BY <1>5, <1>6, <1>7, <1>8, <1>9 DEF A

LEMMA Moved ==
  ASSUME NEW t, t \in TgtType, NEW m, NEW a, NEW u, u = [t EXCEPT !.n = m, !.addr = a]
  PROVE  u = [wants |-> t.wants, op |-> t.op, n |-> m, addr |-> a]
BY DEF TgtType

\* A byte moves the target to the next cell; the last one ends the transaction.
LEMMA ByteTaken ==
  ASSUME IInv, pc \in {"data", "ack"}
  PROVE  LET last == Chunk(base) - (IF pc = "data" THEN 1 ELSE 0)
             n == IF pc = "data" THEN i + 1 ELSE i
         IN  /\ pc = "data" => tgt.addr = At(i)
             /\ Taken(pc, Sent(pc)) =
                  IF i = last THEN Ready
                  ELSE [wants |-> pc, op |-> req.op, n |-> tgt.n - 1, addr |-> At(n)]
<1> DEFINE A == Address % WIRE
<1>1. tgt \in TgtType /\ i \in Nat /\ req \in Requests /\ base \in Nat /\ base < Size
  BY Sizes DEF IInv, TypeOK, TgtType, Progress, Fields
<1>2. A \in Nat /\ Chunk(base) \in Nat
  BY <1>1, AddressFacts, ChunkFacts
<1>3. /\ tgt.wants = pc /\ tgt.op = req.op
      /\ pc = "data" => tgt.addr = (A + i) % WIRE /\ tgt.n = Chunk(base) - i
      /\ pc = "ack" => /\ tgt.addr = (A + i - 1) % WIRE
                       /\ tgt.n = Chunk(base) - i + 1 /\ 1 <= i
  BY DEF IInv, InStep, Progress, Fields
<1>4. Taken(pc, Sent(pc)) =
        IF tgt.n = 1 THEN Ready
        ELSE [wants |-> pc, op |-> req.op, n |-> tgt.n - 1, addr |-> (tgt.addr + 1) % WIRE]
  <2>1. Taken(pc, Sent(pc)) =
          IF tgt.n = 1 THEN Ready
          ELSE [tgt EXCEPT !.n = @ - 1, !.addr = (@ + 1) % WIRE]
    <3>1. CASE pc = "data"
      BY <3>1 DEF Taken
    <3>2. CASE pc = "ack"
      BY <3>2 DEF Taken
    <3> QED BY <3>1, <3>2
  <2>2. [tgt EXCEPT !.n = @ - 1, !.addr = (@ + 1) % WIRE] =
          [wants |-> pc, op |-> req.op, n |-> tgt.n - 1, addr |-> (tgt.addr + 1) % WIRE]
    <3> DEFINE m == tgt.n - 1
               a == (tgt.addr + 1) % WIRE
    <3> HIDE DEF m, a
    <3>1. [tgt EXCEPT !.n = m, !.addr = a] =
            [wants |-> tgt.wants, op |-> tgt.op, n |-> m, addr |-> a]
      BY <1>1, Moved
    <3>2. tgt.wants = pc /\ tgt.op = req.op
      BY <1>3
    <3> QED BY <3>1, <3>2 DEF m, a
  <2> QED BY <2>1, <2>2
<1> HIDE DEF A
<1>5. CASE pc = "data"
  <2>1. (tgt.addr + 1) % WIRE = (A + i + 1) % WIRE
    <3>1. A + i \in Nat
      BY <1>1, <1>2
    <3> QED BY <1>3, <1>5, <3>1, Cell
  <2>2. A + i + 1 = A + (i + 1)
    BY <1>1, <1>2
  <2>3. tgt.n = 1 <=> i = Chunk(base) - 1
    BY <1>1, <1>2, <1>3, <1>5
  <2>4. (tgt.addr + 1) % WIRE = At(i + 1) /\ tgt.addr = At(i)
    BY <1>3, <1>5, <2>1, <2>2 DEF At, A
  <2> QED BY <1>4, <1>5, <2>3, <2>4
<1>6. CASE pc = "ack"
  <2>1. A + i - 1 \in Nat /\ (A + i - 1) + 1 = A + i
    BY <1>1, <1>2, <1>3, <1>6
  <2>2. (tgt.addr + 1) % WIRE = (A + i) % WIRE
    BY <1>3, <1>6, <2>1, Cell
  <2>3. tgt.n = 1 <=> i = Chunk(base)
    BY <1>1, <1>2, <1>3, <1>6
  <2>4. (tgt.addr + 1) % WIRE = At(i)
    BY <2>2 DEF At, A
  <2> QED BY <1>2, <1>4, <1>6, <2>3, <2>4
<1> QED BY <1>5, <1>6

LEMMA InField ==
  ASSUME IInv, pc \in Fields
  PROVE  /\ req \in Requests /\ base \in Nat /\ base < Size /\ i \in Nat /\ tgt \in TgtType
         /\ Size \in Nat /\ req.op \in {"read", "write"}
         /\ Chunk(base) \in Nat /\ 1 <= Chunk(base) /\ Chunk(base) <= CHUNK
         /\ base + Chunk(base) <= Size /\ mem \in [Cells -> Values]
<1>1. /\ req \in Requests /\ base \in Nat /\ base < Size /\ i \in Nat /\ tgt \in TgtType
      /\ mem \in [Cells -> Values]
  BY Sizes DEF IInv, TypeOK, TgtType, Progress
<1> QED BY <1>1, RequestFacts, ChunkFacts

\* What the target makes of a field has its type; only data changes memory.
LEMMA TargetStep ==
  ASSUME IInv, pc \in Fields, Target(pc)
  PROVE  /\ tgt' \in TgtType /\ mem' \in [Cells -> Values]
         /\ pc # "data" => mem' = mem
         /\ pc = "data" => mem' = [mem EXCEPT ![At(i)] = req.data[base + i + 1]]
<1>0. tgt' = Taken(pc, Sent(pc)) /\ CHUNK \in Nat
  BY Sizes DEF Target
<1> DEFINE A == Address % WIRE
<1>1. A \in Cells /\ A - (A % (BYTE * BYTE)) \in Cells /\ A - (A % BYTE) \in Cells /\ 0 \in Cells
  <2>1. 0 \in Cells
    BY Sizes DEF Cells
  <2> QED BY <2>1, InField, AddressFacts
<1> DEFINE A2 == A - (A % (BYTE * BYTE))
           A1 == A - (A % BYTE)
<1>a. /\ pc = "command" => tgt' = [wants |-> "length", op |-> req.op, n |-> 0, addr |-> 0]
      /\ pc = "length" => tgt' = [wants |-> "AE", op |-> req.op, n |-> Chunk(base), addr |-> 0]
      /\ pc = "AE" => tgt' = [wants |-> "AH", op |-> req.op, n |-> Chunk(base), addr |-> A2]
      /\ pc = "AH" => tgt' = [wants |-> "AL", op |-> req.op, n |-> Chunk(base), addr |-> A1]
      /\ pc = "AL" => tgt' = [wants |-> IF req.op = "read" THEN "ack" ELSE "data",
                              op |-> req.op, n |-> Chunk(base), addr |-> A]
  BY <1>0, InField, HeaderTaken
<1> HIDE DEF A, A1, A2
<1>b. A \in Cells /\ A1 \in Cells /\ A2 \in Cells /\ 0 \in Cells
  BY <1>1 DEF A1, A2
<1>2. pc \in {"command", "length", "AE", "AH", "AL"} => tgt' \in TgtType
  BY <1>0, <1>a, <1>b, InField DEF TgtType, Fields
<1>3. \A n \in Nat : At(n) \in Cells
  <2>1. TAKE n \in Nat
  <2>2. (Address % WIRE) + n \in Nat
    BY InField, AddressFacts
  <2> QED BY <2>2, Cell DEF At
<1>4. pc \in {"data", "ack"} => tgt' \in TgtType
  <2> SUFFICES ASSUME pc \in {"data", "ack"} PROVE tgt' \in TgtType
    OBVIOUS
  <2> DEFINE n == IF pc = "data" THEN i + 1 ELSE i
  <2>1. \/ tgt' = Ready
        \/ /\ tgt' = [wants |-> pc, op |-> req.op, n |-> tgt.n - 1, addr |-> At(n)]
           /\ i # Chunk(base) - (IF pc = "data" THEN 1 ELSE 0)
    BY <1>0, ByteTaken
  <2>2. Ready \in TgtType
    BY <1>0, <1>b DEF TgtType, Ready, Fields
  <2>3. n \in Nat /\ At(n) \in Cells
    BY <1>3, InField
  <2>4. tgt.n \in Nat /\ 1 <= tgt.n /\ tgt.n <= CHUNK
    <3>1. tgt.n \in 0 .. CHUNK
      BY InField DEF TgtType
    <3>2. 1 <= tgt.n
      BY <3>1, InField DEF IInv, InStep, Progress, Fields
    <3> QED BY <1>0, <3>1, <3>2
  <2> HIDE DEF n
  <2>5. tgt.n - 1 \in 0 .. CHUNK /\ req.op \in {"none", "read", "write"} /\ pc \in Fields
    BY <1>0, <2>4, InField
  <2> QED BY <2>1, <2>2, <2>3, <2>5 DEF TgtType
<1>5. pc = "data" => mem' = [mem EXCEPT ![At(i)] = req.data[base + i + 1]]
  BY ByteTaken DEF Target, Sent
<1>6. pc = "data" => mem' \in [Cells -> Values]
  <2> SUFFICES ASSUME pc = "data" PROVE mem' \in [Cells -> Values]
    OBVIOUS
  <2>1. i < Chunk(base)
    BY DEF IInv, Progress
  <2>2. base + i + 1 \in 1 .. Size
    BY <2>1, InField
  <2>3. req.data[base + i + 1] \in Values
    BY <2>2, InField, RequestFacts DEF Size
  <2> QED BY <1>3, <1>5, <2>3, InField
<1>7. pc # "data" => mem' = mem
  BY DEF Target
<1> QED BY <1>2, <1>4, <1>5, <1>6, <1>7, InField DEF Fields

-----------------------------------------------------------------------------
LEMMA InitIInv == Init => IInv
<1> SUFFICES ASSUME Init PROVE IInv
  OBVIOUS
<1>1. /\ req = NoReq /\ pc = "idle" /\ base = 0 /\ i = 0 /\ buf = <<>>
      /\ result = "OK" /\ mem = First /\ tgt = Ready /\ faults = 0
  BY DEF Init
<1>2. /\ First \in [Cells -> Values] /\ 0 \in Cells /\ CHUNK \in Nat /\ MaxFaults \in Nat
  BY Sizes, SizeAssumption DEF Cells
<1>3. TypeOK
  BY <1>1, <1>2 DEF TypeOK, Fields, Errors, Ready
<1>4. InStep /\ Progress
  BY <1>1 DEF InStep, Progress, Fields, NoReq
<1> QED BY <1>3, <1>4 DEF IInv

\* The header leaves the target with the chunk's length and address.
LEMMA HeaderKeeps ==
  ASSUME IInv, SendHeader
  PROVE  IInv'
<1> DEFINE A == Address % WIRE
<1>1. /\ pc \in {"command", "length", "AE", "AH", "AL"} /\ pc \in Fields /\ Target(pc)
      /\ UNCHANGED <<req, base, i, buf, result, faults>>
      /\ pc = "command" => pc' = "length"
      /\ pc = "length" => pc' = "AE"
      /\ pc = "AE" => pc' = "AH"
      /\ pc = "AH" => pc' = "AL"
      /\ pc = "AL" => pc' = "data" /\ req.op = "write"
  BY DEF SendHeader, Exchange, Fields
<1>2. /\ req \in Requests /\ base \in Nat /\ base < Size /\ i = 0
      /\ Chunk(base) \in Nat /\ 1 <= Chunk(base) /\ A \in Nat /\ At(0) = A
  BY <1>1, InField, AddressFacts DEF IInv, Progress
<1>3. tgt' \in TgtType /\ mem' \in [Cells -> Values] /\ tgt' = Taken(pc, Sent(pc))
  BY <1>1, TargetStep DEF Target
<1>4. /\ pc = "command" => tgt' = [wants |-> "length", op |-> req.op, n |-> 0, addr |-> 0]
      /\ pc = "length" => tgt' = [wants |-> "AE", op |-> req.op, n |-> Chunk(base), addr |-> 0]
      /\ pc = "AE" => tgt' = [wants |-> "AH", op |-> req.op, n |-> Chunk(base),
                              addr |-> A - (A % (BYTE * BYTE))]
      /\ pc = "AH" => tgt' = [wants |-> "AL", op |-> req.op, n |-> Chunk(base),
                              addr |-> A - (A % BYTE)]
      /\ pc = "AL" => tgt' = [wants |-> IF req.op = "read" THEN "ack" ELSE "data",
                              op |-> req.op, n |-> Chunk(base), addr |-> A]
  BY <1>2, <1>3, HeaderTaken
<1>5. Address' = Address /\ Chunk(base)' = Chunk(base) /\ Size' = Size
  BY <1>1 DEF Address, Chunk, Size
<1>6. TypeOK'
  BY <1>1, <1>3 DEF IInv, TypeOK, TgtType, Fields
<1>7. Progress'
  BY <1>1, <1>2, <1>4, <1>5 DEF IInv, Progress, Fields
<1>8. (A + i) % WIRE = A
  BY <1>2 DEF At
<1>9. InStep'
  <2> DEFINE A2 == A - (A % (BYTE * BYTE))
             A1 == A - (A % BYTE)
             D == (A + i) % WIRE
  <2>1. /\ tgt'.wants = pc' /\ tgt'.op = req.op
        /\ pc' = "AH" => tgt'.addr = A2
        /\ pc' = "AL" => tgt'.addr = A1
        /\ pc' = "data" => tgt'.addr = D /\ tgt'.n = Chunk(base) - i
        /\ pc' # "ack"
    <3> HIDE DEF A, A1, A2
    <3>1. D = A
      BY <1>8
    <3> HIDE DEF D
    <3>2. /\ pc = "AE" => tgt'.addr = A2
          /\ pc = "AH" => tgt'.addr = A1
      BY <1>4 DEF A1, A2
    <3> QED BY <1>1, <1>2, <1>4, <3>1, <3>2
  <2>2. A' = A /\ i' = i /\ req' = req
    BY <1>1, <1>5
  <2> QED BY <2>1, <2>2, <1>5 DEF InStep
<1> QED BY <1>6, <1>7, <1>9 DEF IInv

\* After the last byte of a chunk there is another chunk, or no byte is left.
LEMMA ChunkEnds ==
  ASSUME IInv, pc \in Fields, NextChunk
  PROVE  /\ i' = 0 /\ base' = base + Chunk(base) /\ base' \in Nat
         /\ pc' \in {"command", "idle"}
         /\ pc' = "command" => base' < Size
         /\ pc' = "idle" => base' = Size
<1>1. /\ base \in Nat /\ Size \in Nat /\ Chunk(base) \in Nat /\ base + Chunk(base) <= Size
  BY InField
<1> DEFINE c == Chunk(base)
           z == Size
<1>2. i' = 0 /\ base' = base + c /\ pc' = IF base + c < z THEN "command" ELSE "idle"
  BY DEF NextChunk
<1> HIDE DEF c, z
<1>3. base \in Nat /\ z \in Nat /\ c \in Nat /\ base + c <= z
  BY <1>1 DEF c, z
<1>4. /\ i' = 0 /\ base' = base + c /\ base' \in Nat
      /\ pc' \in {"command", "idle"}
      /\ pc' = "command" => base' < z
      /\ pc' = "idle" => base' = z
  BY <1>2, <1>3
<1> QED BY <1>4 DEF c, z

\* Between chunks, only the types and the bytes done matter.
LEMMA BetweenChunks ==
  ASSUME IInv, pc \in Fields, NextChunk, UNCHANGED <<req, buf, result>>,
         tgt' \in TgtType, mem' \in [Cells -> Values], faults' \in 0 .. MaxFaults
  PROVE  IInv'
<1>1. /\ i' = 0 /\ base' \in Nat /\ pc' \in {"command", "idle"}
      /\ pc' = "command" => base' < Size
      /\ pc' = "idle" => base' = Size
  BY ChunkEnds
<1>2. req \in Requests /\ req # NoReq /\ CHUNK \in Nat /\ Size' = Size
  BY Sizes, InField, RequestFacts DEF Size
<1>3. TypeOK'
  BY <1>1, <1>2 DEF IInv, TypeOK, TgtType, Fields
<1>4. InStep'
  BY <1>1 DEF InStep, Fields
<1>5. Progress'
  BY <1>1, <1>2 DEF Progress, Fields
<1> QED BY <1>3, <1>4, <1>5 DEF IInv

LEMMA DataKeeps ==
  ASSUME IInv, SendData
  PROVE  IInv'
<1>1. /\ pc = "data" /\ pc \in Fields /\ Target(pc) /\ UNCHANGED <<req, buf, result, faults>>
      /\ \/ i + 1 < Chunk(base) /\ i' = i + 1 /\ UNCHANGED <<pc, base>>
         \/ NextChunk
  BY DEF SendData, Exchange, Fields
<1>2. tgt' \in TgtType /\ mem' \in [Cells -> Values] /\ tgt' = Taken(pc, Sent(pc))
  BY <1>1, TargetStep DEF Target
<1>3. faults' \in 0 .. MaxFaults
  BY <1>1 DEF IInv, TypeOK
<1>4. CASE NextChunk
  BY <1>1, <1>2, <1>3, <1>4, BetweenChunks
<1>5. CASE i + 1 < Chunk(base) /\ i' = i + 1 /\ UNCHANGED <<pc, base>>
  <2> DEFINE c == Chunk(base)
             a == At(i + 1)
  <2>1. /\ req \in Requests /\ base < Size /\ req # NoReq /\ i \in Nat /\ c \in Nat /\ c <= CHUNK
        /\ req.op = "write" /\ CHUNK \in Nat
    BY <1>1, InField, RequestFacts, Sizes DEF IInv, Progress
  <2>2. tgt' = [wants |-> pc, op |-> req.op, n |-> tgt.n - 1, addr |-> a]
    <3>1. i # c - 1
      BY <1>5, <2>1
    <3> QED BY <1>1, <1>2, <3>1, ByteTaken
  <2>3. tgt.n = c - i
    BY <1>1 DEF IInv, InStep, Fields
  <2>4. Address' = Address /\ Chunk(base)' = Chunk(base) /\ Size' = Size
    BY <1>1, <1>5 DEF Address, Chunk, Size
  <2>5. a = ((Address % WIRE) + i') % WIRE
    BY <1>5 DEF At
  <2>6. i' \in 0 .. CHUNK /\ i' < c
    <3> HIDE DEF c
    <3> QED BY <1>5, <2>1 DEF c
  <2>7. tgt'.n = c - i'
    <3> HIDE DEF c, a
    <3> QED BY <1>5, <2>1, <2>2, <2>3
  <2>8. TypeOK'
    BY <1>1, <1>2, <1>5, <2>6 DEF IInv, TypeOK, TgtType
  <2>9. Progress'
    BY <1>1, <1>5, <2>1, <2>4, <2>6 DEF IInv, Progress, Fields
  <2>10. InStep'
    <3>1. tgt'.wants = pc' /\ tgt'.op = req' .op /\ tgt'.addr = a /\ pc' = "data"
      BY <1>1, <1>5, <2>2
    <3> QED BY <2>4, <2>5, <2>7, <3>1 DEF InStep
  <2> QED BY <2>8, <2>9, <2>10 DEF IInv
<1> QED BY <1>1, <1>4, <1>5

\* A byte is read from the cell it is of.
LEMMA ReadReaches ==
  ASSUME IInv, ReadByte
  PROVE  /\ pc \in Fields /\ i < Chunk(base) /\ req.op = "read" /\ pc' = "ack" /\ i' = i + 1
         /\ UNCHANGED <<req, base, result, mem, faults>>
         /\ buf' = Append(buf, mem[At(i)])
         /\ tgt' \in TgtType /\ At(i) \in Cells
         /\ tgt' = [wants |-> "ack", op |-> req.op, n |-> Chunk(base) - i, addr |-> At(i)]
<1>1. /\ pc \in {"AL", "ack"} /\ pc \in Fields /\ Target(pc) /\ pc' = "ack" /\ i' = i + 1
      /\ UNCHANGED <<req, base, result, faults>> /\ buf' = Append(buf, mem[tgt'.addr])
      /\ pc = "AL" => req.op = "read"
      /\ pc = "ack" => i < Chunk(base)
  BY DEF ReadByte, Exchange, Fields
<1>2. tgt' \in TgtType /\ mem' = mem /\ tgt' = Taken(pc, Sent(pc))
  BY <1>1, TargetStep DEF Target
<1> DEFINE c == Chunk(base)
<1>3. c \in Nat /\ 1 <= c /\ i \in Nat /\ req \in Requests /\ base \in Nat
  BY <1>1, InField
<1>4. CASE pc = "AL"
  <2>1. i = 0 /\ At(0) = Address % WIRE
    BY <1>3, <1>4, AddressFacts DEF IInv, Progress
  <2>2. tgt' = [wants |-> "ack", op |-> req.op, n |-> c, addr |-> At(i)]
    BY <1>1, <1>2, <1>3, <1>4, <2>1, HeaderTaken
  <2>3. c - i = c /\ i < c
    <3> HIDE DEF c
    <3> QED BY <1>3, <2>1
  <2>4. At(i) \in Cells
    BY <1>2, <2>2 DEF TgtType
  <2> QED BY <1>1, <1>2, <1>4, <2>2, <2>3, <2>4
<1>5. CASE pc = "ack"
  <2>1. i < c /\ req.op = "read" /\ tgt.n = c - i + 1
    BY <1>1, <1>5 DEF IInv, Progress, InStep, Fields
  <2>2. tgt' = [wants |-> "ack", op |-> req.op, n |-> tgt.n - 1, addr |-> At(i)]
    <3>1. i # c - 0
      BY <1>3, <2>1
    <3> QED BY <1>2, <1>5, <3>1, ByteTaken
  <2>3. tgt.n - 1 = c - i
    <3> HIDE DEF c
    <3> QED BY <1>3, <2>1
  <2>4. At(i) \in Cells
    BY <1>2, <2>2 DEF TgtType
  <2> QED BY <1>1, <1>2, <1>5, <2>1, <2>2, <2>3, <2>4
<1> QED BY <1>1, <1>4, <1>5

LEMMA ReadKeeps ==
  ASSUME IInv, ReadByte
  PROVE  IInv'
<1> DEFINE c == Chunk(base)
           a == At(i)
<1>1. /\ pc \in Fields /\ i < c /\ req.op = "read" /\ pc' = "ack" /\ i' = i + 1
      /\ UNCHANGED <<req, base, result, mem, faults>>
      /\ buf' = Append(buf, mem[a]) /\ tgt' \in TgtType /\ a \in Cells
      /\ tgt' = [wants |-> "ack", op |-> req.op, n |-> c - i, addr |-> a]
  BY ReadReaches
<1>2. /\ req \in Requests /\ base < Size /\ req # NoReq /\ i \in Nat /\ c \in Nat /\ c <= CHUNK
      /\ CHUNK \in Nat /\ mem \in [Cells -> Values] /\ Address % WIRE \in Nat
  BY <1>1, InField, RequestFacts, AddressFacts, Sizes
<1>3. Address' = Address /\ Chunk(base)' = c /\ Size' = Size
  BY <1>1 DEF Address, Chunk, Size
<1>4. buf' \in Seq(Values)
  BY <1>1, <1>2 DEF IInv, TypeOK
<1>5. i' \in 0 .. CHUNK /\ 1 <= i' /\ i' <= c /\ tgt'.n = c - i' + 1
  <2> HIDE DEF c, a
  <2> QED BY <1>1, <1>2
<1>6. TypeOK'
  BY <1>1, <1>2, <1>4, <1>5 DEF IInv, TypeOK, TgtType, Fields
<1>7. Progress'
  BY <1>1, <1>2, <1>3, <1>5 DEF IInv, Progress, Fields
<1>8. a = ((Address % WIRE) + i' - 1) % WIRE
  <2>1. (Address % WIRE) + i' - 1 = (Address % WIRE) + i
    BY <1>1, <1>2
  <2> QED BY <2>1 DEF At
<1>9. InStep'
  <2>1. tgt'.wants = "ack" /\ tgt'.op = req'.op /\ tgt'.addr = a /\ pc' = "ack"
    BY <1>1
  <2> QED BY <1>3, <1>5, <1>8, <2>1 DEF InStep
<1> QED BY <1>6, <1>7, <1>9 DEF IInv

LEMMA AckKeeps ==
  ASSUME IInv, LastAck
  PROVE  IInv'
<1>1. /\ pc \in Fields /\ NextChunk /\ UNCHANGED <<req, buf, result>>
      /\ \/ Target(pc) /\ UNCHANGED faults
         \/ faults < MaxFaults /\ faults' = faults + 1 /\ UNCHANGED <<mem, tgt>>
  BY DEF LastAck, Exchange, Fields
<1>2. faults \in 0 .. MaxFaults /\ MaxFaults \in Nat
  BY SizeAssumption DEF IInv, TypeOK
<1>3. tgt' \in TgtType /\ mem' \in [Cells -> Values] /\ faults' \in 0 .. MaxFaults
  BY <1>1, <1>2, InField, TargetStep
<1> QED BY <1>1, <1>3, BetweenChunks

LEMMA FailsKeep ==
  ASSUME IInv, Fails
  PROVE  IInv'
<1>1. /\ pc \in Fields
      /\ pc' = "idle" /\ req' = NoReq /\ i' = 0 /\ base' = 0 /\ result' \in Errors /\ buf' = buf
      /\ Target(pc) \/ UNCHANGED <<mem, tgt>>
      /\ \/ faults' = faults
         \/ faults < MaxFaults /\ faults' = faults + 1
  BY DEF Fails, Return
<1>2. faults \in 0 .. MaxFaults /\ MaxFaults \in Nat /\ CHUNK \in Nat
  BY SizeAssumption DEF IInv, TypeOK
<1>3. tgt' \in TgtType /\ mem' \in [Cells -> Values] /\ faults' \in 0 .. MaxFaults
  BY <1>1, <1>2, InField, TargetStep
<1>4. TypeOK'
  BY <1>1, <1>2, <1>3 DEF IInv, TypeOK, TgtType
<1>5. InStep' /\ Progress'
  BY <1>1 DEF InStep, Progress, Fields
<1> QED BY <1>4, <1>5 DEF IInv

LEMMA CallKeeps ==
  ASSUME IInv, NEW r \in Requests, Call(r)
  PROVE  IInv'
<1>1. /\ req' = r /\ base' = 0 /\ i' = 0 /\ buf' = <<>>
      /\ pc' = IF r.data = <<>> THEN "idle" ELSE "command"
      /\ UNCHANGED <<result, mem, tgt, faults>>
  BY DEF Call
<1>2. r.data \in Seq(Values) /\ r.op \in {"read", "write"} /\ CHUNK \in Nat
  BY RequestAssumption, Sizes
<1>3. r # NoReq
  BY <1>2 DEF NoReq
<1>4. Size' = Len(r.data)
  BY <1>1 DEF Size
<1>5. r.data = <<>> => Len(r.data) = 0
  OBVIOUS
<1>6. r.data # <<>> => 0 < Len(r.data)
  BY <1>2
<1>7. TypeOK'
  BY <1>1, <1>2 DEF IInv, TypeOK, Fields
<1>8. InStep' /\ Progress'
  BY <1>1, <1>3, <1>4, <1>5, <1>6 DEF InStep, Progress, Fields
<1> QED BY <1>7, <1>8 DEF IInv

LEMMA ReturnKeeps ==
  ASSUME IInv, ReturnOk
  PROVE  IInv'
<1>1. /\ pc' = "idle" /\ req' = NoReq /\ result' = "OK" /\ i' = 0 /\ base' = 0
      /\ UNCHANGED <<buf, mem, tgt, faults>> /\ CHUNK \in Nat
  BY Sizes DEF ReturnOk, Return
<1>2. TypeOK'
  BY <1>1 DEF IInv, TypeOK
<1>3. InStep' /\ Progress'
  BY <1>1 DEF InStep, Progress, Fields
<1> QED BY <1>2, <1>3 DEF IInv

LEMMA NextIInv == IInv /\ [Next]_vars => IInv'
<1> SUFFICES ASSUME IInv, [Next]_vars PROVE IInv'
  OBVIOUS
<1>1. ASSUME NEW r \in Requests, Call(r) PROVE IInv'
  BY <1>1, CallKeeps
<1>2. CASE ReturnOk
  BY <1>2, ReturnKeeps
<1>3. CASE SendHeader
  BY <1>3, HeaderKeeps
<1>4. CASE SendData
  BY <1>4, DataKeeps
<1>5. CASE ReadByte
  BY <1>5, ReadKeeps
<1>6. CASE LastAck
  BY <1>6, AckKeeps
<1>7. CASE Fails
  BY <1>7, FailsKeep
<1>8. CASE UNCHANGED vars
  <2>1. Address' = Address /\ Chunk(base)' = Chunk(base) /\ Size' = Size
    BY <1>8 DEF vars, Address, Chunk, Size
  <2>2. TypeOK'
    BY <1>8 DEF vars, IInv, TypeOK
  <2>3. Progress'
    BY <1>8, <2>1 DEF vars, IInv, Progress
  <2>4. InStep'
    BY <1>8, <2>1 DEF vars, IInv, InStep
  <2> QED BY <2>2, <2>3, <2>4 DEF IInv
<1> QED BY <1>1, <1>2, <1>3, <1>4, <1>5, <1>6, <1>7, <1>8 DEF Next, Step

\* The inductive invariant: types, host and target in step, and where the
\* host is in the call (stm8_dm.c, swim_link_read, swim_link_write).
THEOREM Invariance == Spec => []IInv
BY InitIInv, NextIInv, PTL DEF Spec

\* Every variable has its type: chunks never exceed a length byte, the target
\* never leaves the 24-bit cells.
THEOREM TypeCorrect == Spec => []TypeOK
<1>1. IInv => TypeOK
  BY DEF IInv
<1> QED BY <1>1, Invariance, PTL

\* The debug module waits for the field the host sends next, with the bytes
\* left and the cell the host means, after any failures: the retries of
\* swim_link.c and the chunks of stm8_dm.c never write elsewhere.
THEOREM StaysInStep == Spec => []InStep
<1>1. IInv => InStep
  BY DEF IInv
<1> QED BY <1>1, Invariance, PTL

-----------------------------------------------------------------------------
\* Wrapping to 32 bits first makes no difference on the wire.
LEMMA Truncated ==
  ASSUME NEW x \in Nat
  PROVE  (x % WORD) % WIRE = x % WIRE
BY Sizes, ModMod

\* Wrapping a chunk's address and then its bytes is wrapping each byte's.
LEMMA CellIs ==
  ASSUME IInv, pc \in Fields
  PROVE  At(i) = Memory!Cell(req.addr, base + i)
<1> DEFINE x == req.addr + base
<1>1. req.addr \in Nat /\ base \in Nat /\ i \in Nat
  BY InField, RequestFacts
<1>2. x \in Nat /\ x + i \in Nat /\ x + i = req.addr + (base + i)
  BY <1>1
<1> HIDE DEF x
<1>3. (x % WORD) % WIRE = x % WIRE /\ ((x + i) % WORD) % WIRE = (x + i) % WIRE
  BY <1>2, Truncated
<1>4. ((x % WIRE) + i) % WIRE = (x + i) % WIRE
  <2>1. WIRE \in Nat \ {0}
    BY Sizes
  <2> QED BY <1>1, <1>2, <2>1, ModAdd
<1>5. At(i) = (((x % WORD) % WIRE) + i) % WIRE
  BY DEF At, Address, x
<1>6. Memory!Cell(req.addr, base + i) = ((x + i) % WORD) % WIRE
  BY <1>2 DEF Memory!Cell
<1> QED BY <1>3, <1>4, <1>5, <1>6

mapped == <<req, base + i, buf, mem, result>>

LEMMA NextImplements ==
  ASSUME IInv, [Next]_vars
  PROVE  [Memory!Next]_mapped
<1>0. Size = Memory!Size /\ Memory!NoReq = NoReq /\ Memory!Errors = Errors
  BY DEF Size, Memory!Size, Memory!NoReq, NoReq, Memory!Errors, Errors
<1>1. ASSUME NEW r \in Requests, Call(r) PROVE [Memory!Next]_mapped
  <2>1. Memory!Call(r)
    BY <1>0, <1>1 DEF Call, Memory!Call
  <2> QED BY <2>1 DEF Memory!Next
<1>2. CASE ReturnOk
  <2>1. req # NoReq /\ base + i = Size
    <3>1. i = 0 /\ base = Size /\ base \in Nat
      BY <1>2 DEF ReturnOk, IInv, Progress, TypeOK
    <3> QED BY <1>2, <3>1 DEF ReturnOk
  <2>2. req' = NoReq /\ base' + i' = 0 /\ result' = "OK" /\ UNCHANGED <<buf, mem>>
    BY <1>2 DEF ReturnOk, Return
  <2>3. Memory!ReturnOk
    BY <1>0, <2>1, <2>2 DEF Memory!ReturnOk
  <2> QED BY <2>3 DEF Memory!Next
<1>3. CASE SendHeader
  <2>1. pc \in Fields /\ pc # "data" /\ Target(pc) /\ UNCHANGED <<req, base, i, buf, result>>
    BY <1>3 DEF SendHeader, Exchange, Fields
  <2>2. mem' = mem
    BY <2>1, TargetStep
  <2> QED BY <2>1, <2>2 DEF mapped
<1>4. CASE SendData
  <2>1. /\ pc = "data" /\ pc \in Fields /\ Target(pc) /\ UNCHANGED <<req, buf, result>>
        /\ \/ i + 1 < Chunk(base) /\ i' = i + 1 /\ UNCHANGED base
           \/ ~(i + 1 < Chunk(base)) /\ NextChunk
    BY <1>4 DEF SendData, Exchange, Fields
  <2> DEFINE c == Chunk(base)
             z == Size
  <2>2. /\ req.op = "write" /\ i < c /\ i \in Nat /\ base \in Nat /\ c \in Nat /\ z \in Nat
        /\ base + c <= z
    BY <2>1, InField DEF IInv, Progress
  <2>3. \/ i' = i + 1 /\ base' = base
        \/ ~(i + 1 < c) /\ i' = 0 /\ base' = base + c
    BY <2>1, ChunkEnds
  <2>4. mem' = [mem EXCEPT ![Memory!Cell(req.addr, base + i)] = req.data[base + i + 1]]
    BY <2>1, TargetStep, CellIs
  <2>5. base + i < z /\ base' + i' = base + i + 1
    <3> HIDE DEF c, z
    <3> QED BY <2>2, <2>3
  <2>6. Memory!WriteByte
    BY <1>0, <2>1, <2>2, <2>4, <2>5 DEF Memory!WriteByte, Memory!Stored
  <2> QED BY <2>6 DEF Memory!Next
<1>5. CASE ReadByte
  <2> DEFINE c == Chunk(base)
             z == Size
  <2>1. /\ pc \in Fields /\ i < c /\ req.op = "read" /\ i' = i + 1
        /\ UNCHANGED <<req, base, result, mem>> /\ buf' = Append(buf, mem[At(i)])
    BY <1>5, ReadReaches
  <2>2. i \in Nat /\ base \in Nat /\ c \in Nat /\ z \in Nat /\ base + c <= z
    BY <2>1, InField
  <2>3. base + i < z /\ base' + i' = base + i + 1
    <3> HIDE DEF c, z
    <3> QED BY <2>1, <2>2
  <2>4. buf' = Append(buf, mem[Memory!Cell(req.addr, base + i)])
    BY <2>1, CellIs
  <2>5. Memory!ReadByte
    BY <1>0, <2>1, <2>3, <2>4 DEF Memory!ReadByte
  <2> QED BY <2>5 DEF Memory!Next
<1>6. CASE LastAck
  <2>1. /\ pc = "ack" /\ pc \in Fields /\ i = Chunk(base) /\ NextChunk /\ UNCHANGED <<req, buf, result>>
        /\ Target(pc) \/ UNCHANGED mem
    BY <1>6 DEF LastAck, Exchange, Fields
  <2>2. mem' = mem
    BY <2>1, TargetStep
  <2>3. base' + i' = base + i
    <3> DEFINE c == Chunk(base)
    <3>1. i' = 0 /\ base' = base + c /\ i = c
      BY <2>1, ChunkEnds
    <3>2. base \in Nat /\ c \in Nat
      BY <2>1, InField
    <3> HIDE DEF c
    <3> QED BY <3>1, <3>2
  <2> QED BY <2>1, <2>2, <2>3 DEF mapped
<1>7. CASE Fails
  <2>1. pc \in Fields /\ (Target(pc) \/ UNCHANGED mem)
    BY <1>7 DEF Fails
  <2>2. /\ req' = NoReq /\ base' + i' = 0 /\ result' \in Errors /\ buf' = buf
    BY <1>7 DEF Fails, Return
  <2>3. req # NoReq /\ i \in Nat /\ base \in Nat /\ Chunk(base) \in Nat /\ base + Chunk(base) <= Size /\ Size \in Nat
    BY <2>1, InField, RequestFacts
  <2>4. pc = "data" => req.op = "write" /\ i < Chunk(base)
    BY DEF IInv, Progress
  <2>5. pc = "data" => base + i < Size
    <3> DEFINE c == Chunk(base)
               z == Size
    <3> HIDE DEF c, z
    <3>1. i \in Nat /\ base \in Nat /\ c \in Nat /\ z \in Nat /\ base + c <= z
      BY <2>3 DEF c, z
    <3>2. pc = "data" => i < c
      BY <2>4 DEF c
    <3>3. pc = "data" => base + i < z
      BY <3>1, <3>2
    <3> QED BY <3>3 DEF z
  <2>6. \/ UNCHANGED mem
        \/ req.op = "write" /\ base + i < Size
           /\ mem' = [mem EXCEPT ![Memory!Cell(req.addr, base + i)] = req.data[base + i + 1]]
    BY <2>1, <2>4, <2>5, TargetStep, CellIs
  <2>7. Memory!ReturnError
    BY <1>0, <2>2, <2>3, <2>6 DEF Memory!ReturnError, Memory!Stored
  <2> QED BY <2>7 DEF Memory!Next
<1>8. CASE UNCHANGED vars
  BY <1>8 DEF vars, mapped
<1> QED BY <1>1, <1>2, <1>3, <1>4, <1>5, <1>6, <1>7, <1>8 DEF Next, Step

\* Frames, acknowledges, chunks and faults implement the interface the rest of
\* the firmware calls: bytes in order, OK only after the last one.
THEOREM Implementation == Spec => Implements
<1>1. Init => Memory!Init
  BY DEF Init, Memory!Init, NoReq, Memory!NoReq
<1>2. IInv /\ [Next]_vars => [Memory!Next]_mapped
  BY NextImplements
<1> QED BY <1>1, <1>2, Invariance, PTL DEF Spec, Implements, Memory!Spec, mapped

-----------------------------------------------------------------------------
LEMMA CellsApart ==
  ASSUME req \in Requests, NEW k \in Nat, NEW l \in Nat, k < l, l < Size
  PROVE  Memory!Cell(req.addr, k) # Memory!Cell(req.addr, l)
<1> DEFINE a == req.addr
           x == a + k
           d == l - k
<1>0. a \in Nat /\ Size \in Nat /\ Size <= WIRE /\ WIRE \in Nat \ {0}
  BY RequestFacts, Sizes
<1>1. x \in Nat /\ d \in Nat /\ 0 < d /\ d < WIRE /\ x + d = a + l /\ x + d \in Nat
  BY <1>0
<1>2. Memory!Cell(a, k) = (x % WORD) % WIRE /\ Memory!Cell(a, l) = ((x + d) % WORD) % WIRE
  BY <1>1 DEF Memory!Cell
<1> HIDE DEF a, x, d
<1>3. Memory!Cell(a, k) = x % WIRE /\ Memory!Cell(a, l) = (x + d) % WIRE
  <2> DEFINE y == x + d
  <2>1. x \in Nat /\ y \in Nat
    BY <1>1
  <2> HIDE DEF y
  <2>2. (x % WORD) % WIRE = x % WIRE /\ (y % WORD) % WIRE = y % WIRE
    BY <2>1, Truncated
  <2> QED BY <1>2, <2>2 DEF y
<1>4. x % WIRE # (x + d) % WIRE
  BY <1>0, <1>1, Apart
<1> QED BY <1>3, <1>4 DEF a

\* What has been transferred so far.
Transferred ==
  req # NoReq =>
    /\ req.op = "read" => buf \in Seq(Values) /\ Len(buf) = base + i
    /\ \A k \in 1 .. base + i :
         mem[Memory!Cell(req.addr, k - 1)] =
           IF req.op = "read" THEN buf[k] ELSE req.data[k]

LEMMA CellInCells ==
  ASSUME req \in Requests, NEW k \in Nat
  PROVE  Memory!Cell(req.addr, k) \in Cells
<1> DEFINE x == (req.addr + k) % WORD
<1>1. x \in Nat
  <2>1. req.addr + k \in Nat /\ WORD \in Nat \ {0}
    BY RequestFacts, Sizes
  <2> QED BY <2>1, DivMod
<1>2. Memory!Cell(req.addr, k) = x % WIRE
  BY DEF Memory!Cell
<1> HIDE DEF x
<1> QED BY <1>1, <1>2, Cell

LEMMA NextTransferred ==
  ASSUME IInv, IInv', Transferred, [Next]_vars
  PROVE  Transferred'
<1> DEFINE done == base + i
<1>0. /\ done \in Nat /\ done' \in Nat /\ mem \in [Cells -> Values]
      /\ req # NoReq => req \in Requests
      /\ buf \in Seq(Values) /\ buf' \in Seq(Values)
  <2>1. base \in Nat /\ i \in Nat /\ base' \in Nat /\ i' \in Nat
    <3>1. CHUNK \in Nat /\ i \in 0 .. CHUNK /\ i' \in 0 .. CHUNK
      BY Sizes DEF IInv, TypeOK
    <3> QED BY <3>1 DEF IInv, TypeOK
  <2>2. /\ mem \in [Cells -> Values]
        /\ req # NoReq => req \in Requests
        /\ buf \in Seq(Values) /\ buf' \in Seq(Values)
    BY DEF IInv, TypeOK
  <2>3. done \in Nat
    BY <2>1
  <2>4. \A a, b \in Nat : a + b \in Nat
    OBVIOUS
  <2>5. done' \in Nat
    BY <2>1, <2>4, Zenon
  <2> HIDE DEF done
  <2> QED BY <2>2, <2>3, <2>5
<1>1. [Memory!Next]_mapped
  BY NextImplements
<1>2. Size = Memory!Size /\ Memory!NoReq = NoReq
  BY DEF Size, Memory!Size, Memory!NoReq, NoReq
<1>3. ASSUME NEW r \in Requests, Memory!Call(r) PROVE Transferred'
  <2>1. done' = 0 /\ buf' = <<>>
    BY <1>3 DEF Memory!Call
  <2> QED BY <2>1 DEF Transferred
<1>4. CASE Memory!ReadByte
  <2> DEFINE c == Memory!Cell(req.addr, done)
  <2>1. /\ req.op = "read" /\ done' = done + 1 /\ buf' = Append(buf, mem[c])
        /\ req' = req /\ mem' = mem
    BY <1>4 DEF Memory!ReadByte
  <2> SUFFICES ASSUME req # NoReq
               PROVE  /\ Len(buf') = done'
                      /\ \A k \in 1 .. done' : mem[Memory!Cell(req.addr, k - 1)] = buf'[k]
    BY <1>0, <2>1 DEF Transferred
  <2>2. Len(buf) = done /\ \A k \in 1 .. done : mem[Memory!Cell(req.addr, k - 1)] = buf[k]
    BY <2>1 DEF Transferred
  <2>3. Len(buf') = done' /\ buf'[done + 1] = mem[c] /\ \A k \in 1 .. done : buf'[k] = buf[k]
    <3>1. c \in Cells
      BY <1>0, CellInCells
    <3>2. mem[c] \in Values
      BY <1>0, <3>1
    <3> HIDE DEF c, done
    <3> QED BY <1>0, <2>1, <2>2, <3>2
  <2>4. ASSUME NEW k \in 1 .. done' PROVE mem[Memory!Cell(req.addr, k - 1)] = buf'[k]
    <3>1. k \in 1 .. done \/ (k = done + 1 /\ k - 1 = done)
      <4> HIDE DEF done
      <4> QED BY <1>0, <2>1
    <3> QED BY <2>2, <2>3, <3>1
  <2> QED BY <2>3, <2>4
<1>5. CASE Memory!WriteByte
  <2> DEFINE c == Memory!Cell(req.addr, done)
  <2>1. /\ req.op = "write" /\ done' = done + 1 /\ done < Size /\ req' = req
        /\ mem' = [mem EXCEPT ![c] = req.data[done + 1]]
    BY <1>2, <1>5 DEF Memory!WriteByte, Memory!Stored
  <2> SUFFICES ASSUME req # NoReq
               PROVE  \A k \in 1 .. done' : mem'[Memory!Cell(req.addr, k - 1)] = req.data[k]
    BY <2>1 DEF Transferred
  <2>2. \A k \in 1 .. done : mem[Memory!Cell(req.addr, k - 1)] = req.data[k]
    BY <2>1 DEF Transferred
  <2>3. c \in Cells
    BY <1>0, CellInCells
  <2> SUFFICES ASSUME NEW k \in 1 .. done'
               PROVE  mem'[Memory!Cell(req.addr, k - 1)] = req.data[k]
    OBVIOUS
  <2>4. CASE k = done + 1
    <3>1. k - 1 = done
      BY <1>0, <2>4
    <3>2. mem'[c] = req.data[done + 1]
      BY <1>0, <2>1, <2>3
    <3> QED BY <2>4, <3>1, <3>2
  <2>5. CASE k \in 1 .. done
    <3> DEFINE j == k - 1
               b == Memory!Cell(req.addr, j)
    <3>1. j \in Nat /\ j < done
      BY <1>0, <2>5
    <3>2. b \in Cells
      BY <1>0, <3>1, CellInCells
    <3>3. b # c
      BY <1>0, <2>1, <3>1, CellsApart
    <3>4. mem'[b] = mem[b]
      <4> HIDE DEF b, c
      <4> QED BY <1>0, <2>1, <2>3, <3>2, <3>3
    <3> QED BY <2>2, <2>5, <3>4
  <2>6. k = done + 1 \/ k \in 1 .. done
    <3> HIDE DEF done
    <3> QED BY <1>0, <2>1
  <2> QED BY <2>4, <2>5, <2>6
<1>6. CASE Memory!ReturnOk \/ Memory!ReturnError
  BY <1>2, <1>6 DEF Memory!ReturnOk, Memory!ReturnError, Transferred
<1>7. CASE UNCHANGED mapped
  <2>1. req' = req /\ done' = done /\ buf' = buf /\ mem' = mem
    BY <1>7 DEF mapped
  <2> QED BY <2>1 DEF Transferred
<1> QED BY <1>1, <1>3, <1>4, <1>5, <1>6, <1>7 DEF Memory!Next

\* OK of a write means that the memory holds the data, OK of a read that the
\* buffer holds the memory, whatever chunks, wrapped addresses and failures
\* came before: bytes already stored are not overwritten by later ones.
THEOREM OkIsDone == Spec => OkMeansDone
<1>1. Init => Transferred
  BY DEF Init, Transferred
<1>2. IInv /\ IInv' /\ Transferred /\ [Next]_vars => Transferred'
  BY NextTransferred
<1>3. Spec => []Transferred
  BY <1>1, <1>2, Invariance, PTL DEF Spec
<1> DEFINE Done ==
      req # NoReq /\ req' = NoReq /\ result' = "OK" =>
        /\ req.op = "read" => Len(buf) = Size
        /\ \A k \in 1 .. Size :
             mem[((req.addr + k - 1) % WORD) % WIRE] =
               IF req.op = "read" THEN buf[k] ELSE req.data[k]
<1>4. IInv /\ Transferred /\ [Next]_vars => [Done]_vars
  <2> SUFFICES ASSUME IInv, Transferred, [Next]_vars,
                      req # NoReq, req' = NoReq, result' = "OK"
               PROVE  Done
    OBVIOUS
  <2>1. /\ Size = Memory!Size /\ Memory!NoReq = NoReq /\ "OK" \notin Memory!Errors
        /\ req \in Requests
    BY DEF IInv, TypeOK, Size, Memory!Size, Memory!NoReq, NoReq, Memory!Errors
  <2>2. [Memory!Next]_mapped
    BY NextImplements
  <2>3. base + i = Size
    <3>1. ASSUME NEW r \in Requests, Memory!Call(r) PROVE FALSE
      BY <2>1, <3>1 DEF Memory!Call
    <3>2. ~Memory!ReadByte /\ ~Memory!WriteByte /\ ~UNCHANGED mapped
      BY DEF Memory!ReadByte, Memory!WriteByte, mapped
    <3>3. ~Memory!ReturnError
      BY <2>1 DEF Memory!ReturnError
    <3>4. Memory!ReturnOk
      BY <2>2, <3>1, <3>2, <3>3 DEF Memory!Next
    <3> QED BY <2>1, <3>4 DEF Memory!ReturnOk
  <2>4. /\ req.op = "read" => Len(buf) = Size
        /\ \A k \in 1 .. Size : mem[Memory!Cell(req.addr, k - 1)] =
             IF req.op = "read" THEN buf[k] ELSE req.data[k]
    BY <2>3 DEF Transferred
  <2>5. ASSUME NEW k \in 1 .. Size
        PROVE  Memory!Cell(req.addr, k - 1) = ((req.addr + k - 1) % WORD) % WIRE
    <3>1. req.addr + (k - 1) = req.addr + k - 1
      BY <2>1, RequestFacts
    <3> QED BY <3>1 DEF Memory!Cell
  <2> QED BY <2>4, <2>5
<1> HIDE DEF Done
<1>5. Spec => [][Done]_vars
  BY <1>3, <1>4, Invariance, PTL DEF Spec
<1> QED BY <1>5 DEF OkMeansDone, Done
=============================================================================
