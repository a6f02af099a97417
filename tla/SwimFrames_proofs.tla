-------------------------- MODULE SwimFrames_proofs --------------------------
(***************************************************************************)
(* For every set of bytes and every target clock the host accepts: a       *)
(* damaged answer is never taken for a byte, an undamaged one is received  *)
(* as it was sent, and an acknowledge is never false.  The argument has two halves.  Arithmetic: the threshold   *)
(* computed from the measured clock separates the low times of ones and    *)
(* zeros, so that the word received is the word on the wire (WireKept).    *)
(* Parity: an accepted word has a fixed parity over all its bits, which a  *)
(* single damaged bit changes and the reversal does not.                   *)
(***************************************************************************)
EXTENDS SwimFrames, TLAPS

\* Ones of a word of ten and of eleven bits.
Weight10(w) == w[0] + w[1] + w[2] + w[3] + w[4] + w[5] + w[6] + w[7] + w[8] + w[9]
Weight11(w) == Weight10(w) + w[10]
Ones(v) == v[0] + v[1] + v[2] + v[3] + v[4] + v[5] + v[6] + v[7]

\* The number of ones is a number.
LEMMA WeightType ==
  /\ \A w \in Words(10) : Weight10(w) \in Nat
  /\ \A w \in Words(11) : Weight11(w) \in Nat
<1>1. ASSUME NEW w \in Words(10)
      PROVE  Weight10(w) \in Nat
  <2>1. \A i \in 0 .. 9 : w[i] \in 0 .. 1
    BY DEF Words, Bit
  <2> QED
    BY <2>1 DEF Weight10
<1>2. ASSUME NEW w \in Words(11)
      PROVE  Weight11(w) \in Nat
  <2>1. \A i \in 0 .. 10 : w[i] \in 0 .. 1
    BY DEF Words, Bit
  <2> QED
    BY <2>1 DEF Weight11, Weight10
<1> QED
  BY <1>1, <1>2

\* The three shifts of swim_parity8 leave the parity of all eight bits.
LEMMA ParityIsSum ==
  ASSUME NEW v \in Words(8)
  PROVE  parity8(v) = Ones(v) % 2
<1> DEFINE p == XorShift(v, 4)
           q == XorShift(p, 2)
<1>0. /\ v[0] \in Bit /\ v[1] \in Bit /\ v[2] \in Bit /\ v[3] \in Bit
      /\ v[4] \in Bit /\ v[5] \in Bit /\ v[6] \in Bit /\ v[7] \in Bit
  BY DEF Words
<1>1. /\ p[0] = Xor(v[0], v[4]) /\ p[1] = Xor(v[1], v[5])
      /\ p[2] = Xor(v[2], v[6]) /\ p[3] = Xor(v[3], v[7])
  BY DEF XorShift
<1>2. q[0] = Xor(p[0], p[2]) /\ q[1] = Xor(p[1], p[3])
  BY DEF XorShift
<1>3. parity8(v) = Xor(q[0], q[1])
  BY DEF parity8, XorShift
<1>4. parity8(v) = Xor(Xor(Xor(v[0], v[4]), Xor(v[2], v[6])),
                       Xor(Xor(v[1], v[5]), Xor(v[3], v[7])))
  BY <1>1, <1>2, <1>3
<1> QED
  BY <1>0, <1>4 DEF Xor, Bit, Ones

\* A word of ten bits that decodes has an odd number of ones.
LEMMA AcceptedIsOdd ==
  ASSUME NEW w \in Words(10), DecodeFrame(w) # Nothing
  PROVE  Weight10(w) % 2 = 1
<1> DEFINE b == Payload(w, 8)
<1>1. b \in Words(8)
  BY DEF Payload, Words, Bit
<1>2. w[9] = 1 /\ w[0] = parity8(b)
  BY DEF DecodeFrame
<1>3. w[0] = Ones(b) % 2
  BY <1>1, <1>2, ParityIsSum
<1>4. Ones(b) = w[1] + w[2] + w[3] + w[4] + w[5] + w[6] + w[7] + w[8]
  BY DEF Ones, Payload
<1>5. /\ w[0] \in Bit /\ w[1] \in Bit /\ w[2] \in Bit /\ w[3] \in Bit /\ w[4] \in Bit
      /\ w[5] \in Bit /\ w[6] \in Bit /\ w[7] \in Bit /\ w[8] \in Bit
  BY DEF Words
<1> HIDE DEF b
<1> QED
  BY <1>2, <1>3, <1>4, <1>5 DEF Weight10, Bit

\* Reversal keeps the number of ones.
LEMMA ReversalKeepsWeight ==
  /\ \A w \in Words(10) : /\ reverse_low_bits(w, 10) \in Words(10)
                          /\ Weight10(reverse_low_bits(w, 10)) = Weight10(w)
  /\ \A w \in Words(11) : /\ reverse_low_bits(w, 11) \in Words(11)
                          /\ Weight11(reverse_low_bits(w, 11)) = Weight11(w)
<1>1. ASSUME NEW w \in Words(10)
      PROVE  /\ reverse_low_bits(w, 10) \in Words(10)
             /\ Weight10(reverse_low_bits(w, 10)) = Weight10(w)
  <2>1. reverse_low_bits(w, 10) \in Words(10)
    BY DEF reverse_low_bits, Words
  <2>2. \A i \in 0 .. 9 : w[i] \in 0 .. 1
    BY DEF Words, Bit
  <2> QED
    BY <2>1, <2>2 DEF Weight10, reverse_low_bits
<1>2. ASSUME NEW w \in Words(11)
      PROVE  /\ reverse_low_bits(w, 11) \in Words(11)
             /\ Weight11(reverse_low_bits(w, 11)) = Weight11(w)
  <2>1. reverse_low_bits(w, 11) \in Words(11)
    BY DEF reverse_low_bits, Words
  <2>2. \A i \in 0 .. 10 : w[i] \in 0 .. 1
    BY DEF Words, Bit
  <2> QED
    BY <2>1, <2>2 DEF Weight11, Weight10, reverse_low_bits
<1> QED
  BY <1>1, <1>2

\* The frames of the target have these parities.
LEMMA AnswerParity ==
  ASSUME NEW b \in Words(8)
  PROVE  /\ AnswerFrame(b) \in Words(10)
         /\ Weight10(AnswerFrame(b)) % 2 = 1
         /\ AckAnswerFrame(b) \in Words(11)
         /\ Weight11(AckAnswerFrame(b)) % 2 = 0
<1> DEFINE F == AnswerFrame(b)
           G == AckAnswerFrame(b)
<1>1. \A i \in 0 .. 7 : b[i] \in 0 .. 1
  BY DEF Words, Bit
<1>2. EvenParity(b) = Ones(b) % 2
  BY <1>1 DEF EvenParity, Ones, Words
<1>3. Ones(b) \in Nat
  BY <1>1 DEF Ones
<1>4. EvenParity(b) \in 0 .. 1
  BY <1>2, <1>3
<1>5. F \in Words(10)
  BY <1>4 DEF AnswerFrame, Words, Bit
<1>6. G \in Words(11)
  BY <1>5 DEF AckAnswerFrame, Words, Bit
<1>7. Weight10(F) = EvenParity(b) + Ones(b) + 1
  BY <1>1, <1>4 DEF Weight10, Ones, AnswerFrame
<1>8. Weight11(G) = Weight10(F) + 1
  BY <1>5 DEF Weight11, Weight10, AckAnswerFrame, Words, Bit
<1> QED
  BY <1>2, <1>3, <1>5, <1>6, <1>7, <1>8

\* One damaged bit turns the parity of a word.
LEMMA DamageTurnsParity ==
  /\ \A w \in Words(10), f \in 0 .. 9 :
       /\ Damaged(w, f) \in Words(10)
       /\ (Weight10(Damaged(w, f)) + Weight10(w)) % 2 = 1
  /\ \A w \in Words(11), f \in 0 .. 10 :
       /\ Damaged(w, f) \in Words(11)
       /\ (Weight11(Damaged(w, f)) + Weight11(w)) % 2 = 1
<1>1. ASSUME NEW w \in Words(10), NEW f \in 0 .. 9
      PROVE  /\ Damaged(w, f) \in Words(10)
             /\ (Weight10(Damaged(w, f)) + Weight10(w)) % 2 = 1
  <2>1. Damaged(w, f) \in Words(10)
    BY DEF Damaged, Words, Bit
  <2>2. \A i \in 0 .. 9 : w[i] \in 0 .. 1
    BY DEF Words, Bit
  <2>3. \A i \in 0 .. 9 : Damaged(w, f)[i] = IF i = f THEN 1 - w[i] ELSE w[i]
    BY DEF Damaged, Words
  <2> QED
    BY <2>1, <2>2, <2>3 DEF Weight10
<1>2. ASSUME NEW w \in Words(11), NEW f \in 0 .. 10
      PROVE  /\ Damaged(w, f) \in Words(11)
             /\ (Weight11(Damaged(w, f)) + Weight11(w)) % 2 = 1
  <2>1. Damaged(w, f) \in Words(11)
    BY DEF Damaged, Words, Bit
  <2>2. \A i \in 0 .. 10 : w[i] \in 0 .. 1
    BY DEF Words, Bit
  <2>3. \A i \in 0 .. 10 : Damaged(w, f)[i] = IF i = f THEN 1 - w[i] ELSE w[i]
    BY DEF Damaged, Words
  <2> QED
    BY <2>1, <2>2, <2>3 DEF Weight11, Weight10
<1> QED
  BY <1>1, <1>2

-----------------------------------------------------------------------------
\* Reading a damaged word gives nothing, forwards and backwards.
LEMMA DamagedIsRefused ==
  ASSUME NEW b \in Words(8)
  PROVE  /\ \A f \in 0 .. 9 : ReceivedFrame(Damaged(AnswerFrame(b), f)) = Nothing
         /\ \A f \in 0 .. 10 : ReceivedAckFrame(Damaged(AckAnswerFrame(b), f)) = Nothing
<1>1. ASSUME NEW f \in 0 .. 9
      PROVE  ReceivedFrame(Damaged(AnswerFrame(b), f)) = Nothing
  <2> DEFINE w == Damaged(AnswerFrame(b), f)
             r == reverse_low_bits(w, 10)
  <2>1. w \in Words(10) /\ (Weight10(w) + Weight10(AnswerFrame(b))) % 2 = 1
    BY AnswerParity, DamageTurnsParity
  <2>2. r \in Words(10) /\ Weight10(r) = Weight10(w)
    BY <2>1, ReversalKeepsWeight
  <2>3. Weight10(w) \in Int /\ Weight10(AnswerFrame(b)) \in Int
    BY <2>1, AnswerParity, WeightType
  <2>4. Weight10(AnswerFrame(b)) % 2 = 1
    BY AnswerParity
  <2> HIDE DEF w, r
  <2>5. Weight10(w) % 2 = 0
    BY <2>1, <2>3, <2>4
  <2>6. DecodeFrame(w) = Nothing /\ DecodeFrame(r) = Nothing
    BY <2>1, <2>2, <2>5, AcceptedIsOdd
  <2> QED
    BY <2>6 DEF ReceivedFrame, w, r
<1>2. ASSUME NEW f \in 0 .. 10
      PROVE  ReceivedAckFrame(Damaged(AckAnswerFrame(b), f)) = Nothing
  <2> DEFINE w == Damaged(AckAnswerFrame(b), f)
             r == reverse_low_bits(w, 11)
  <2>1. w \in Words(11) /\ (Weight11(w) + Weight11(AckAnswerFrame(b))) % 2 = 1
    BY AnswerParity, DamageTurnsParity
  <2>2. r \in Words(11) /\ Weight11(r) = Weight11(w)
    BY <2>1, ReversalKeepsWeight
  <2>3. Weight11(w) \in Int /\ Weight11(AckAnswerFrame(b)) \in Int
    BY <2>1, AnswerParity, WeightType
  <2>4. Weight11(AckAnswerFrame(b)) % 2 = 0
    BY AnswerParity
  <2> HIDE DEF w, r
  <2>5. Weight11(w) % 2 = 1
    BY <2>1, <2>3, <2>4
  <2>6. ASSUME NEW x \in Words(11), Weight11(x) % 2 = 1
        PROVE  DecodeAckFrame(x) = Nothing
    <3> DEFINE y == [i \in 0 .. 9 |-> x[i]]
    <3>1. y \in Words(10) /\ Weight10(y) = Weight10(x) /\ Weight10(x) \in Int
      BY DEF Words, Bit, Weight10
    <3>2. DecodeFrame(y) = DecodeFrame(x)
      BY DEF DecodeFrame, Payload
    <3>3. CASE x[10] = 1 /\ DecodeFrame(x) # Nothing
      <4>1. Weight10(y) % 2 = 1
        BY <3>1, <3>2, <3>3, AcceptedIsOdd
      <4> HIDE DEF y
      <4> QED
        BY <3>1, <3>3, <4>1, <2>6 DEF Weight11
    <3> QED
      BY <3>3 DEF DecodeAckFrame
  <2> QED
    BY <2>1, <2>2, <2>5, <2>6 DEF ReceivedAckFrame, w, r
<1> QED
  BY <1>1, <1>2

\* An undamaged answer decodes to its byte.
LEMMA WholeIsAccepted ==
  ASSUME NEW b \in Words(8)
  PROVE  /\ ReceivedFrame(AnswerFrame(b)) = b
         /\ ReceivedAckFrame(AckAnswerFrame(b)) = b
<1>1. b # Nothing
  BY DEF Words, Nothing
<1>2. EvenParity(b) = parity8(b)
  <2>1. \A i \in 0 .. 7 : b[i] \in 0 .. 1
    BY DEF Words, Bit
  <2>2. EvenParity(b) = Ones(b) % 2
    BY <2>1 DEF EvenParity, Ones, Words
  <2> QED
    BY <2>2, ParityIsSum
<1>3. Payload(AnswerFrame(b), 8) = b
  BY DEF Payload, AnswerFrame, Words
<1>4. Payload(AckAnswerFrame(b), 8) = b
  BY DEF Payload, AckAnswerFrame, AnswerFrame, Words
<1>5. DecodeFrame(AnswerFrame(b)) = b
  BY <1>2, <1>3 DEF DecodeFrame, AnswerFrame
<1>6. DecodeFrame(AckAnswerFrame(b)) = b
  BY <1>2, <1>4 DEF DecodeFrame, AckAnswerFrame, AnswerFrame
<1>7. AckAnswerFrame(b)[10] = 1
  BY DEF AckAnswerFrame
<1> QED
  BY <1>1, <1>5, <1>6, <1>7 DEF ReceivedFrame, ReceivedAckFrame, DecodeAckFrame

-----------------------------------------------------------------------------
\* What is known of the target clock and of its measurement.
Measured == /\ low \in Nat /\ low % 64 = 0 /\ 6976 <= low /\ low <= 300032
            /\ tswim \in Nat
            /\ low - 80 <= 128 * tswim /\ 128 * tswim <= low + 80

\* An accepted synchronization frame lasts 7 to 300 us, and gives the clock to
\* within a ns.
LEMMA Measuring ==
  ASSUME low \in SyncLows, NEW e \in {0, 1}, SyncAccepted(SyncNs(e))
  PROVE  /\ RecordedTswim(SyncNs(e)) \in Nat /\ InRange(low)
         /\ low - 80 <= 128 * RecordedTswim(SyncNs(e))
         /\ 128 * RecordedTswim(SyncNs(e)) <= low + 80
<1>1. low \in Nat
  BY LowAssumption
<1>2. ns_to_max_loops(300000) = 18750
  BY DEF ns_to_max_loops, CeilDiv
<1> DEFINE loops == LoopsUsed(low, e, 18750)
<1>3. SyncNs(e) = 16 * loops
  BY <1>2 DEF SyncNs, loops_to_ns
<1>4. loops # 0
  BY <1>3 DEF SyncAccepted, CeilDiv
<1>5. loops = low \div 16 + e
  BY <1>4 DEF LoopsUsed
<1>6. loops <= 18750 /\ loops \in Nat
  BY <1>1 DEF LoopsUsed
<1>7. 7001 <= SyncNs(e)
  BY <1>3, <1>6 DEF SyncAccepted, CeilDiv
<1> HIDE DEF loops
<1> QED
  BY <1>1, <1>3, <1>5, <1>6, <1>7 DEF RecordedTswim, InRange

\* The threshold of the decode program separates ones from zeros.
LEMMA BitKept ==
  ASSUME Measured, NEW e \in {0, 1}
  PROVE  /\ DecodedBit(TargetLow(1), e, Threshold) = 1
         /\ DecodedBit(TargetLow(0), e, Threshold) = 0
<1>1. Threshold = (tswim + 1) \div 2
  BY DEF Threshold, ns_to_max_loops, CeilDiv, Measured
<1>2. TargetLow(1) = low \div 64 /\ TargetLow(0) = 10 * (low \div 64)
  BY DEF TargetLow, Measured
<1> QED
  BY <1>1, <1>2 DEF DecodedBit, Measured

\* The word received is the word on the wire.
LEMMA WireKept ==
  ASSUME Measured, NEW e \in {0, 1}, NEW n \in Nat, NEW w \in Words(n)
  PROVE  Decoded(TargetLows(w), e) = w
<1>1. \A i \in 0 .. n - 1 : w[i] = 0 \/ w[i] = 1
  BY DEF Words, Bit
<1>2. DOMAIN w = 0 .. n - 1 /\ w = [i \in 0 .. n - 1 |-> w[i]]
  BY DEF Words
<1> QED
  BY <1>1, <1>2, BitKept DEF Decoded, TargetLows

\* A frame of ten or eleven bits, whole or damaged, is a word of that length.
LEMMA DamagedWord ==
  ASSUME NEW n \in Nat, NEW w \in Words(n), NEW f \in Int
  PROVE  /\ Damaged(w, f) \in Words(n)
         /\ f = -1 => Damaged(w, f) = w
<1>1. \A i \in 0 .. n - 1 : w[i] = 0 \/ w[i] = 1
  BY DEF Words, Bit
<1>2. DOMAIN w = 0 .. n - 1 /\ w = [i \in 0 .. n - 1 |-> w[i]]
  BY DEF Words
<1>3. Damaged(w, f) \in Words(n)
  BY <1>1, <1>2 DEF Damaged, Words, Bit
<1>4. ASSUME f = -1
      PROVE  Damaged(w, f) = w
  BY <1>2, <1>4 DEF Damaged
<1> QED
  BY <1>3, <1>4

-----------------------------------------------------------------------------
\* The low times the PIO engine plays are in the target's windows, unless the
\* clock divider is below 1: then each of them is a reset.
LEMMA HostBitKept ==
  ASSUME Measured, Clocked
  PROVE  /\ HostLow(0) \in Int
         /\ 128 * HostLow(1) <= 8 * low
         /\ 128 * HostLow(0) > 8 * low
         /\ HostLow(0) < low /\ HostLow(1) < low
<1>1. HostLow(1) = TicksToNs(16) /\ HostLow(0) = TicksToNs(160)
  BY DEF HostLow, Played, Encoded
<1>2. ~ 4 * tswim < 256
  BY DEF Measured, Clocked
<1>3. TicksToNs(16) = 2 * tswim /\ TicksToNs(160) = 20 * tswim
  BY <1>2 DEF TicksToNs, Measured
<1> QED
  BY <1>1, <1>3 DEF Measured

LEMMA HostBitResets ==
  ASSUME Measured, ~Clocked, NEW b \in Bit
  PROVE  HostLow(b) >= low
<1>1. HostLow(1) = TicksToNs(16) /\ HostLow(0) = TicksToNs(160)
  BY DEF HostLow, Played, Encoded
<1>2. 4 * tswim < 256
  BY DEF Measured, Clocked
<1>3. TicksToNs(16) = 8388608 /\ TicksToNs(160) = 83886080
  BY <1>2 DEF TicksToNs
<1> QED
  BY <1>1, <1>3 DEF Measured, Bit

\* The target hears the word the host sends, or a reset.
LEMMA HostWireKept ==
  ASSUME Measured, Clocked, NEW n \in Nat, NEW w \in Words(n)
  PROVE  HeardBits(HostLows(w)) = w /\ ~Resets(HostLows(w))
<1>1. \A i \in 0 .. n - 1 : w[i] = 0 \/ w[i] = 1
  BY DEF Words, Bit
<1>2. DOMAIN w = 0 .. n - 1 /\ w = [i \in 0 .. n - 1 |-> w[i]]
  BY DEF Words
<1> DEFINE taken(b) == IF 128 * HostLow(b) <= 8 * low THEN 1 ELSE 0
<1>3. low \in Nat /\ HostLow(0) \in Int
  BY HostBitKept DEF Measured
<1>4. taken(1) = 1 /\ taken(0) = 0
  BY <1>3, HostBitKept
<1>5. \A i \in 0 .. n - 1 : taken(w[i]) = w[i]
  BY <1>1, <1>4
<1>6. HeardBits(HostLows(w)) = [i \in 0 .. n - 1 |-> taken(w[i])]
  BY <1>2 DEF HeardBits, HostLows
<1>7. \A i \in 0 .. n - 1 : HostLows(w)[i] < low
  BY <1>1, <1>2, HostBitKept DEF HostLows
<1>8. HeardBits(HostLows(w)) = w
  BY <1>2, <1>5, <1>6
<1>9. \A i \in 0 .. n - 1 : HostLows(w)[i] \in Int
  <2>1. HostLow(1) \in Int
    BY DEF HostLow, Played, Encoded, TicksToNs, Measured
  <2> QED
    BY <1>1, <1>2, <2>1, HostBitKept DEF HostLows
<1>10. DOMAIN HostLows(w) = 0 .. n - 1
  BY <1>2 DEF HostLows
<1> QED
  BY <1>3, <1>7, <1>8, <1>9, <1>10 DEF Resets

LEMMA HostWireResets ==
  ASSUME Measured, ~Clocked, NEW n \in Nat \ {0}, NEW w \in Words(n)
  PROVE  Resets(HostLows(w))
<1>1. 0 \in DOMAIN w /\ w[0] \in Bit
  BY DEF Words
<1>2. HostLows(w)[0] = HostLow(w[0]) /\ 0 \in DOMAIN HostLows(w)
  BY <1>1 DEF HostLows
<1> QED
  BY <1>1, <1>2, HostBitResets DEF Resets

\* Division by a variable divisor, as far as it is needed.
LEMMA QuotientAt9 ==
  ASSUME NEW x \in Nat, NEW t \in Nat, t > 0
  PROVE  /\ x < 9 * t => x \div t <= 8
         /\ x >= 9 * t => x \div t >= 9
<1>1. ASSUME x < 9 * t
      PROVE  x \div t <= 8
  BY <1>1
<1>2. ASSUME x >= 9 * t
      PROVE  x \div t >= 9
  BY <1>2
<1> QED
  BY <1>1, <1>2

\* The width of the acknowledge is read for what the target sent.
LEMMA AckKept ==
  ASSUME Measured, NEW e \in {0, 1}
  PROVE  /\ AckStatus(TargetLow(1), e) = "OK"
         /\ AckStatus(TargetLow(0), e) = "NACK"
<1>1. TargetLow(1) = low \div 64 /\ TargetLow(0) = 10 * (low \div 64)
  BY DEF TargetLow, Measured
<1>2. ns_to_max_loops(64 * tswim) = 4 * tswim
  BY DEF ns_to_max_loops, CeilDiv, Measured
<1> DEFINE l1 == TargetLow(1) \div 16 + e
           l0 == TargetLow(0) \div 16 + e
           half == tswim \div 2
<1>3. /\ l1 \in Nat /\ l0 \in Nat /\ l1 # 0 /\ l0 # 0
      /\ l1 <= 4 * tswim /\ l0 <= 4 * tswim
  BY <1>1 DEF Measured
<1>4. /\ 16 * l1 + half \in Nat /\ 16 * l1 + half < 9 * tswim
      /\ 16 * l0 + half \in Nat /\ 16 * l0 + half >= 9 * tswim
  BY <1>1 DEF Measured
<1>5. tswim \in Nat /\ tswim > 0
  BY DEF Measured
<1>6. /\ LoopsUsed(TargetLow(1), e, 4 * tswim) = l1
      /\ LoopsUsed(TargetLow(0), e, 4 * tswim) = l0
  BY <1>3, <1>5 DEF LoopsUsed
<1> HIDE DEF l1, l0
<1>7. (16 * l1 + half) \div tswim <= 8 /\ (16 * l0 + half) \div tswim >= 9
  BY <1>4, <1>5, QuotientAt9
<1>8. (16 * l0 + half) \div tswim \in Int
  BY <1>4, <1>5
<1> QED
  BY <1>2, <1>3, <1>6, <1>7, <1>8 DEF AckStatus, loops_to_ns

\* A synchronization frame in the place of an acknowledge outlasts the counter.
LEMMA SyncTimesOut ==
  ASSUME Measured, NEW e \in {0, 1}
  PROVE  AckStatus(low, e) = "TIMEOUT"
<1>1. ns_to_max_loops(64 * tswim) = 4 * tswim
  BY DEF ns_to_max_loops, CeilDiv, Measured
<1>2. low \div 16 + e > 4 * tswim
  BY DEF Measured
<1>3. LoopsUsed(low, e, 4 * tswim) = 0
  BY <1>2 DEF LoopsUsed
<1> QED
  BY <1>1, <1>3 DEF AckStatus

-----------------------------------------------------------------------------
Weight5(w) == w[0] + w[1] + w[2] + w[3] + w[4]

\* What the target makes of a byte frame: the byte if it is whole, nothing if
\* a bit of it is damaged.
LEMMA ByteFrameHeard ==
  ASSUME NEW b \in Words(8)
  PROVE  /\ ByteFrame(b) \in Words(10)
         /\ Understood(ByteFrame(b), 8) = b
         /\ \A f \in 0 .. 9 : Understood(Damaged(ByteFrame(b), f), 8) = Nothing
<1>1. \A i \in 0 .. 7 : b[i] \in 0 .. 1
  BY DEF Words, Bit
<1>2. parity8(b) = Ones(b) % 2 /\ Ones(b) \in Nat
  BY <1>1, ParityIsSum DEF Ones
<1>3. parity8(b) \in 0 .. 1
  BY <1>2
<1>4. \A v \in Words(8) : EvenParity(v) = Ones(v) % 2
  BY DEF EvenParity, Ones, Words, Bit
<1>5. ByteFrame(b) \in Words(10)
  BY <1>3 DEF ByteFrame, Words, Bit
<1>6. Payload(ByteFrame(b), 8) = b
  BY DEF Payload, ByteFrame, Words
<1>7. Understood(ByteFrame(b), 8) = b
  BY <1>2, <1>4, <1>6 DEF Understood, ByteFrame
<1>8. Weight10(ByteFrame(b)) = parity8(b) + Ones(b)
  BY <1>1, <1>3 DEF Weight10, Ones, ByteFrame
<1>9. ASSUME NEW f \in 0 .. 9
      PROVE  Understood(Damaged(ByteFrame(b), f), 8) = Nothing
  <2> DEFINE w == Damaged(ByteFrame(b), f)
             v == Payload(w, 8)
  <2>1. w \in Words(10) /\ (Weight10(w) + Weight10(ByteFrame(b))) % 2 = 1
    BY <1>5, DamageTurnsParity
  <2> HIDE DEF w
  <2>2. Weight10(w) \in Nat
    BY <2>1, WeightType
  <2>3. Weight10(w) % 2 = 1
    BY <1>2, <1>8, <2>1, <2>2
  <2>4. v \in Words(8) /\ EvenParity(v) = Ones(v) % 2
    BY <1>4, <2>1 DEF Payload, Words, Bit
  <2>5. Ones(v) = w[1] + w[2] + w[3] + w[4] + w[5] + w[6] + w[7] + w[8]
    BY DEF Ones, Payload
  <2>6. \A i \in 0 .. 9 : w[i] \in 0 .. 1
    BY <2>1 DEF Words, Bit
  <2> HIDE DEF v
  <2>7. ~ (w[9] = 0 /\ w[0] = EvenParity(v))
    BY <2>3, <2>4, <2>5, <2>6 DEF Weight10
  <2> QED
    BY <2>7 DEF Understood, v, w
<1> QED
  BY <1>5, <1>7, <1>9

\* The same for the command frames, which carry three bits.
LEMMA CommandFrameHeard ==
  ASSUME NEW c \in Words(3)
  PROVE  /\ CommandFrame(c) \in Words(5)
         /\ Understood(CommandFrame(c), 3) = c
         /\ \A f \in 0 .. 4 : Understood(Damaged(CommandFrame(c), f), 3) = Nothing
<1>1. c[0] \in 0 .. 1 /\ c[1] \in 0 .. 1 /\ c[2] \in 0 .. 1
  BY DEF Words, Bit
<1>2. parity3(c) = (c[0] + c[1] + c[2]) % 2
  BY <1>1 DEF parity3, Xor
<1>3. parity3(c) \in 0 .. 1
  BY <1>1, <1>2
<1>4. \A v \in Words(3) : EvenParity(v) = (v[0] + v[1] + v[2]) % 2
  BY DEF EvenParity, Words, Bit
<1>5. CommandFrame(c) \in Words(5)
  BY <1>3 DEF CommandFrame, Words, Bit
<1>6. Payload(CommandFrame(c), 3) = c
  BY DEF Payload, CommandFrame, Words
<1>7. Understood(CommandFrame(c), 3) = c
  BY <1>2, <1>4, <1>6 DEF Understood, CommandFrame
<1>8. Weight5(CommandFrame(c)) = parity3(c) + c[0] + c[1] + c[2]
  BY <1>1, <1>3 DEF Weight5, CommandFrame
<1>9. ASSUME NEW f \in 0 .. 4
      PROVE  Understood(Damaged(CommandFrame(c), f), 3) = Nothing
  <2> DEFINE w == Damaged(CommandFrame(c), f)
             v == Payload(w, 3)
  <2>1. w \in Words(5)
    BY <1>5, DamagedWord
  <2>2. \A i \in 0 .. 4 : /\ w[i] \in 0 .. 1 /\ CommandFrame(c)[i] \in 0 .. 1
                           /\ w[i] = IF i = f THEN 1 - CommandFrame(c)[i]
                                     ELSE CommandFrame(c)[i]
    BY <1>5, <2>1 DEF Damaged, Words, Bit
  <2> HIDE DEF w
  <2>3. (Weight5(w) + Weight5(CommandFrame(c))) % 2 = 1
    BY <2>2 DEF Weight5
  <2>4. Weight5(w) \in Nat
    BY <2>2 DEF Weight5
  <2>5. Weight5(w) % 2 = 1
    BY <1>1, <1>2, <1>8, <2>3, <2>4
  <2>6. EvenParity(v) = (w[1] + w[2] + w[3]) % 2
    BY <1>4, <2>1 DEF Payload, Words, Bit
  <2> HIDE DEF v
  <2>7. ~ (w[4] = 0 /\ w[0] = EvenParity(v))
    BY <2>2, <2>5, <2>6 DEF Weight5
  <2> QED
    BY <2>7 DEF Understood, v, w
<1> QED
  BY <1>5, <1>7, <1>9

-----------------------------------------------------------------------------
LEMMA IsMeasured ==
  ASSUME IInv, phase # "sync"
  PROVE  Measured
BY LowAssumption DEF IInv, TypeOK, ClockMeasured, InRange, Measured

\* One exchange of a host frame: AckMeansHeard, and the types.
LEMMA Sending ==
  ASSUME IInv, phase = "ready",
         NEW n \in {3, 8}, NEW v \in Words(n), NEW frame \in Words(n + 2),
         Understood(frame, n) = v,
         \A f \in 0 .. n + 1 : Understood(Damaged(frame, f), n) = Nothing,
         v \in Bytes \cup Commands,
         Send(v, frame, n)
  PROVE  /\ flip' \in -1 .. 10 /\ word' = v
         /\ heard' = IF Clocked /\ flip' = -1 THEN v ELSE Nothing
         /\ ack' = IF ~Clocked THEN "TIMEOUT"
                   ELSE IF flip' = -1 THEN "OK" ELSE "NACK"
<1>1. Measured
  BY IsMeasured
<1> DEFINE lows(f) == HostLows(Damaged(frame, f))
<1>2. PICK f \in DOMAIN frame \cup {-1}, e \in {0, 1} :
        /\ word' = v /\ flip' = f
        /\ heard' = IF Resets(lows(f)) THEN Nothing
                    ELSE Understood(HeardBits(lows(f)), n)
        /\ ack' = AckStatus(IF Resets(lows(f)) THEN low
                            ELSE TargetLow(IF heard' = Nothing THEN 0 ELSE 1), e)
  BY DEF Send
<1>3. f \in -1 .. n + 1 /\ f \in Int /\ n + 2 \in Nat \ {0}
  BY DEF Words
<1>4. Damaged(frame, f) \in Words(n + 2) /\ (f = -1 => Damaged(frame, f) = frame)
  BY <1>3, DamagedWord
<1>5. v # Nothing
  BY DEF Words, Nothing
<1>6. CASE Clocked
  <2>1. HeardBits(lows(f)) = Damaged(frame, f) /\ ~Resets(lows(f))
    BY <1>1, <1>3, <1>4, <1>6, HostWireKept
  <2> HIDE DEF lows
  <2>2. heard' = IF flip' = -1 THEN v ELSE Nothing
    BY <1>2, <1>3, <1>4, <2>1
  <2>3. ack' = IF flip' = -1 THEN "OK" ELSE "NACK"
    BY <1>1, <1>2, <1>5, <2>1, <2>2, AckKept
  <2> QED
    BY <1>2, <1>3, <1>6, <2>2, <2>3
<1>7. CASE ~Clocked
  <2>1. Resets(lows(f))
    BY <1>1, <1>3, <1>4, <1>7, HostWireResets
  <2> HIDE DEF lows
  <2>2. heard' = Nothing /\ ack' = "TIMEOUT"
    BY <1>1, <1>2, <2>1, SyncTimesOut
  <2> QED
    BY <1>2, <1>3, <1>7, <2>2
<1> QED
  BY <1>6, <1>7

\* One answer of the target.
LEMMA Receiving ==
  ASSUME IInv, phase = "ready", ReadFirst \/ ReadNext
  PROVE  /\ flip' \in -1 .. 10 /\ word' \in Bytes
         /\ got' = IF flip' = -1 THEN word' ELSE Nothing
<1>1. Measured
  BY IsMeasured
<1>2. CASE ReadFirst
  <2>1. PICK b \in Bytes, f \in -1 .. 10, e \in {0, 1} :
          /\ word' = b /\ flip' = f
          /\ got' = ReceivedAckFrame(
                      Decoded(TargetLows(Damaged(AckAnswerFrame(b), f)), e))
    BY <1>2 DEF ReadFirst
  <2>2. b \in Words(8)
    BY WordAssumption
  <2>3. Damaged(AckAnswerFrame(b), f) \in Words(11)
        /\ (f = -1 => Damaged(AckAnswerFrame(b), f) = AckAnswerFrame(b))
    BY <2>2, AnswerParity, DamagedWord
  <2>4. got' = ReceivedAckFrame(Damaged(AckAnswerFrame(b), f))
    BY <1>1, <2>1, <2>3, WireKept
  <2> QED
    BY <2>1, <2>2, <2>3, <2>4, DamagedIsRefused, WholeIsAccepted
<1>3. CASE ReadNext
  <2>1. PICK b \in Bytes, f \in -1 .. 9, e \in {0, 1} :
          /\ word' = b /\ flip' = f
          /\ got' = ReceivedFrame(
                      Decoded(TargetLows(Damaged(AnswerFrame(b), f)), e))
    BY <1>3 DEF ReadNext
  <2>2. b \in Words(8)
    BY WordAssumption
  <2>3. Damaged(AnswerFrame(b), f) \in Words(10)
        /\ (f = -1 => Damaged(AnswerFrame(b), f) = AnswerFrame(b))
    BY <2>2, AnswerParity, DamagedWord
  <2>4. got' = ReceivedFrame(Damaged(AnswerFrame(b), f))
    BY <1>1, <2>1, <2>3, WireKept
  <2> QED
    BY <2>1, <2>2, <2>3, <2>4, DamagedIsRefused, WholeIsAccepted
<1> QED
  BY <1>2, <1>3

-----------------------------------------------------------------------------
LEMMA InitIInv == Init => IInv
BY DEF Init, IInv, TypeOK, ClockMeasured, DamageDetected, AnswerUnderstood,
       AckMeansHeard

LEMMA NextIInv == IInv /\ [Next]_vars => IInv'
<1> SUFFICES ASSUME IInv, [Next]_vars
             PROVE  IInv'
  OBVIOUS
<1> USE DEF IInv
<1>1. CASE WaitSync
  <2>1. phase = "sync" /\ UNCHANGED <<low, word, flip, heard, ack, got, held>>
    BY <1>1 DEF WaitSync
  <2>2. /\ tswim' \in Nat /\ phase' \in {"sync", "ready"}
        /\ phase' = "ready" =>
             InRange(low) /\ 128 * tswim' \in low - 80 .. low + 80
    <3>1. PICK e \in {0, 1} :
            IF SyncAccepted(SyncNs(e))
            THEN tswim' = RecordedTswim(SyncNs(e)) /\ phase' = "ready"
            ELSE UNCHANGED <<tswim, phase>>
      BY <1>1 DEF WaitSync
    <3>2. low \in SyncLows /\ low \in Nat /\ tswim \in Nat
      BY LowAssumption DEF TypeOK
    <3>3. CASE SyncAccepted(SyncNs(e))
      BY <3>1, <3>2, <3>3, Measuring
    <3>4. CASE ~SyncAccepted(SyncNs(e))
      BY <2>1, <3>1, <3>2, <3>4
    <3> QED
      BY <3>3, <3>4
  <2>3. TypeOK'
    BY <2>1, <2>2 DEF TypeOK
  <2>4. ClockMeasured'
    BY <2>1, <2>2 DEF ClockMeasured
  <2> QED
    BY <2>2, <2>3, <2>4 DEF DamageDetected, AnswerUnderstood, AckMeansHeard
<1>2. CASE CommReset
  <2>1. held' = 127
    BY <1>2 DEF CommReset, Played, Encoded
  <2>2. phase' = "sync" /\ UNCHANGED <<low, tswim, word, flip, heard, ack, got>>
    BY <1>2 DEF CommReset
  <2>3. TypeOK'
    BY <2>1, <2>2 DEF TypeOK
  <2> QED
    BY <2>2, <2>3 DEF ClockMeasured, DamageDetected, AnswerUnderstood, AckMeansHeard
<1>3. ASSUME NEW n \in {3, 8}, NEW v \in Words(n), NEW frame \in Words(n + 2),
             Understood(frame, n) = v,
             \A f \in 0 .. n + 1 : Understood(Damaged(frame, f), n) = Nothing,
             v \in Bytes \cup Commands,
             Send(v, frame, n)
      PROVE  IInv'
  <2>2. /\ phase = "ready" /\ phase' = "sent"
        /\ UNCHANGED <<low, tswim, got, held>>
    BY <1>3 DEF Send
  <2>3. /\ flip' \in -1 .. 10 /\ word' = v
        /\ heard' = IF Clocked /\ flip' = -1 THEN v ELSE Nothing
        /\ ack' = IF ~Clocked THEN "TIMEOUT"
                  ELSE IF flip' = -1 THEN "OK" ELSE "NACK"
    BY <1>3, <2>2, Sending
  <2>4. v \in Words(3) \cup Words(8)
    BY <1>3
  <2>5. TypeOK'
    BY <1>3, <2>2, <2>3, <2>4 DEF TypeOK
  <2>6. AckMeansHeard'
    BY <2>2, <2>3 DEF AckMeansHeard, Clocked
  <2> QED
    BY <2>2, <2>5, <2>6 DEF ClockMeasured, DamageDetected, AnswerUnderstood
<1>4. CASE SendCommand
  <2>1. PICK c \in Commands : Send(c, CommandFrame(c), 3)
    BY <1>4 DEF SendCommand
  <2>2. c \in Words(3)
    BY WordAssumption
  <2> QED
    BY <1>3, <2>1, <2>2, CommandFrameHeard
<1>5. CASE SendByte
  <2>1. PICK b \in Bytes : Send(b, ByteFrame(b), 8)
    BY <1>5 DEF SendByte
  <2>2. b \in Words(8)
    BY WordAssumption
  <2> QED
    BY <1>3, <2>1, <2>2, ByteFrameHeard
<1>6. CASE ReadFirst \/ ReadNext
  <2>1. /\ phase = "ready" /\ phase' = "answered"
        /\ UNCHANGED <<low, tswim, heard, ack, held>>
    BY <1>6 DEF ReadFirst, ReadNext
  <2>2. /\ flip' \in -1 .. 10 /\ word' \in Bytes
        /\ got' = IF flip' = -1 THEN word' ELSE Nothing
    BY <1>6, <2>1, Receiving
  <2>3. word' \in Words(8)
    BY <2>2, WordAssumption
  <2>4. TypeOK'
    BY <2>1, <2>2, <2>3 DEF TypeOK
  <2>5. DamageDetected' /\ AnswerUnderstood'
    BY <2>2 DEF DamageDetected, AnswerUnderstood
  <2> QED
    BY <2>1, <2>4, <2>5 DEF ClockMeasured, AckMeansHeard
<1>7. CASE Take
  BY <1>7 DEF Take, TypeOK, ClockMeasured, DamageDetected, AnswerUnderstood,
              AckMeansHeard
<1>8. CASE UNCHANGED vars
  BY <1>8 DEF vars, TypeOK, ClockMeasured, DamageDetected, AnswerUnderstood,
              AckMeansHeard, Clocked
<1> QED
  BY <1>1, <1>2, <1>4, <1>5, <1>6, <1>7, <1>8 DEF Next

\* The inductive invariant of SwimFrames.
THEOREM Invariance == Spec => []IInv
BY InitIInv, NextIInv, PTL DEF Spec

\* The types of SwimFrames: whatever was damaged on the way, what either end
\* takes for a word is one of the width of its frame, and the clock that
\* swim_phy_update_measured_timing computes is a whole number of ns.
THEOREM TypeCorrect == Spec => []TypeOK
BY Invariance, PTL DEF IInv

\* For every set of bytes and every target clock, an answer with one
\* damaged bit is refused, the reading with reversed bits included
\* (swim_phy.c:911-926, 990-1001).
THEOREM DamageRefused == Spec => []DamageDetected
BY Invariance, PTL DEF IInv

\* For every target clock the host accepts, an undamaged answer is received as
\* the byte sent: measured clock, threshold and sampling phase included.
THEOREM AnswersUnderstood == Spec => []AnswerUnderstood
BY Invariance, PTL DEF IInv

\* For every target clock the host accepts, an acknowledge is read only when the
\* target heard the byte or command sent; above 64 ns it is read for every whole
\* frame, and below no frame gets one (swim_phy.c:415, 547).
THEOREM AcksTrue == Spec => []AckMeansHeard
BY Invariance, PTL DEF IInv
=============================================================================
