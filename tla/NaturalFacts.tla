---------------------------- MODULE NaturalFacts ----------------------------
(***************************************************************************)
(* Addresses are cut to 24 or 32 bits, split in bytes and rounded to       *)
(* blocks, sequence numbers wrap: facts about quotients and remainders of  *)
(* natural numbers.  Files are read record by record: induction, stated    *)
(* for sets of naturals, since the provers instantiate no operator.        *)
(***************************************************************************)
EXTENDS Naturals, WellFoundedInduction, TLAPS

\* A set of naturals that is not empty has a least element.
LEMMA LeastNatural ==
  ASSUME NEW T, T \subseteq Nat, T # {}
  PROVE  \E m \in T : \A k \in T : m <= k
<1> DEFINE R == OpToRel(<, Nat)
<1>1. IsWellFoundedOn(R, Nat)
  BY NatLessThanWellFounded
<1>2. \A x, y \in Nat : x < y => <<x, y>> \in R
  BY DEF OpToRel
<1> HIDE DEF R
<1>3. PICK m \in T : \A y \in T : ~ (<<y, m>> \in R)
  BY <1>1, WFMin
<1>4. ASSUME NEW k \in T PROVE m <= k
  <2>1. m \in Nat /\ k \in Nat /\ ~(k < m)
    BY <1>2, <1>3, <1>4
  <2> QED BY <2>1
<1> QED BY <1>3, <1>4

LEMMA SetInduction ==
  ASSUME NEW S, 0 \in S, \A n \in Nat : n \in S => n + 1 \in S
  PROVE  Nat \subseteq S
<1> SUFFICES ASSUME Nat \ S # {} PROVE FALSE
  OBVIOUS
<1>1. PICK m \in Nat \ S : \A k \in Nat \ S : m <= k
  BY LeastNatural
<1>2. m # 0 /\ m - 1 \in Nat /\ m - 1 \in S
  BY <1>1
<1> QED BY <1>1, <1>2

\* A recursion over 0 .. n that stays in V has a function.
Recurs(g, n, start, step) ==
  g = [i \in 0 .. n |-> IF i = 0 THEN start ELSE step[<<i, g[i - 1]>>]]

LEMMA Recursion ==
  ASSUME NEW n \in Nat, NEW V, NEW start \in V, NEW step \in [(1 .. n) \X V -> V]
  PROVE  \E g \in [0 .. n -> V] : Recurs(g, n, start, step)
<1> DEFINE Good(g, k) ==
             /\ g \in [0 .. k -> V]
             /\ \A i \in 0 .. k : g[i] = IF i = 0 THEN start ELSE step[<<i, g[i - 1]>>]
           S == {k \in Nat : k <= n => \E g : Good(g, k)}
<1>1. 0 \in S
  <2> DEFINE g == [i \in 0 .. 0 |-> start]
  <2>1. Good(g, 0)
    OBVIOUS
  <2> QED BY <2>1
<1>2. ASSUME NEW k \in Nat, k \in S
      PROVE  k + 1 \in S
  <2> SUFFICES ASSUME k + 1 <= n PROVE \E g : Good(g, k + 1)
    OBVIOUS
  <2>1. PICK g : Good(g, k)
    BY <1>2
  <2> DEFINE last == step[<<k + 1, g[k]>>]
             h == [i \in 0 .. k + 1 |-> IF i <= k THEN g[i] ELSE last]
  <2>2. last \in V
    <3>1. k + 1 \in 1 .. n /\ g[k] \in V
      BY <2>1
    <3> QED BY <3>1
  <2>3. \A i \in 0 .. k : g[i] \in V
    BY <2>1
  <2> HIDE DEF last
  <2>4. h \in [0 .. k + 1 -> V] /\ (\A i \in 0 .. k : h[i] = g[i]) /\ h[k + 1] = last
    BY <2>2, <2>3
  <2> HIDE DEF h
  <2>5. \A i \in 0 .. k + 1 : h[i] = IF i = 0 THEN start ELSE step[<<i, h[i - 1]>>]
    <3> TAKE i \in 0 .. k + 1
    <3>1. CASE i = k + 1
      <4>1. i # 0 /\ i - 1 = k /\ k \in 0 .. k
        BY <3>1
      <4> QED BY <2>4, <3>1, <4>1 DEF last
    <3>2. CASE i # k + 1
      <4>1. i \in 0 .. k /\ (i # 0 => i - 1 \in 0 .. k)
        BY <3>2
      <4> QED BY <2>1, <2>4, <4>1
    <3> QED BY <3>1, <3>2
  <2> QED BY <2>4, <2>5
<1>3. n \in S
  <2> HIDE DEF S
  <2>1. Nat \subseteq S
    BY <1>1, <1>2, SetInduction
  <2> QED BY <2>1
<1>4. PICK g : Good(g, n)
  BY <1>3
<1>5. g = [i \in 0 .. n |-> IF i = 0 THEN start ELSE step[<<i, g[i - 1]>>]]
  <2>1. g = [i \in 0 .. n |-> g[i]]
    BY <1>4
  <2>2. \A i \in 0 .. n : g[i] = IF i = 0 THEN start ELSE step[<<i, g[i - 1]>>]
    BY <1>4
  <2> QED BY <2>1, <2>2
<1> QED BY <1>4, <1>5 DEF Recurs

\* A quotient and a remainder are determined by what they make up.
LEMMA DivMod ==
  ASSUME NEW x \in Nat, NEW d \in Nat \ {0}
  PROVE  x \div d \in Nat /\ x % d \in Nat /\ x % d < d /\ x = d * (x \div d) + (x % d)
  OBVIOUS

LEMMA Unique ==
  ASSUME NEW d \in Nat \ {0}, NEW q \in Nat, NEW p \in Nat, NEW r \in Nat, NEW s \in Nat,
         r < d, s < d, d * q + r = d * p + s
  PROVE  q = p /\ r = s
<1>1. ~(q < p)
  <2> SUFFICES ASSUME q + 1 <= p PROVE FALSE
    OBVIOUS
  <2>1. PICK k \in Nat : p = q + 1 + k
    <3> WITNESS p - q - 1 \in Nat
    <3> QED OBVIOUS
  <2>2. d * p = d * q + d + d * k /\ d * k \in Nat
    BY <2>1
  <2> QED BY <2>2
<1>2. ~(p < q)
  <2> SUFFICES ASSUME p + 1 <= q PROVE FALSE
    OBVIOUS
  <2>1. PICK k \in Nat : q = p + 1 + k
    <3> WITNESS q - p - 1 \in Nat
    <3> QED OBVIOUS
  <2>2. d * q = d * p + d + d * k /\ d * k \in Nat
    BY <2>1
  <2> QED BY <2>2
<1> QED BY <1>1, <1>2

LEMMA ModIs ==
  ASSUME NEW d \in Nat \ {0}, NEW q \in Nat, NEW r \in Nat, r < d
  PROVE  (d * q + r) \div d = q /\ (d * q + r) % d = r
<1> DEFINE x == d * q + r
<1>1. x \in Nat
  OBVIOUS
<1>2. /\ x \div d \in Nat /\ x % d \in Nat /\ x % d < d
      /\ d * q + r = d * (x \div d) + (x % d)
  BY <1>1, DivMod
<1> HIDE DEF x
<1>3. q = x \div d /\ r = x % d
  BY <1>2, Unique
<1> QED BY <1>3 DEF x

\* Multiples of d lie d apart.
LEMMA NextMultiple ==
  ASSUME NEW d \in Nat \ {0}, NEW x \in Nat, NEW y \in Nat, x % d = 0, y % d = 0, x < y
  PROVE  x + d <= y /\ (x + d) % d = 0
<1> DEFINE q == x \div d
           p == y \div d
<1>1. q \in Nat /\ p \in Nat /\ x = d * q /\ y = d * p
  BY DivMod
<1> HIDE DEF q, p
<1>2. q < p
  <2> SUFFICES ASSUME q >= p PROVE FALSE
    BY <1>1
  <2>1. PICK k \in Nat : q = p + k
    BY <1>1
  <2>2. d * q = d * p + d * k /\ d * k \in Nat
    BY <1>1, <2>1
  <2> QED BY <1>1, <2>2
<1>3. PICK k \in Nat : p = q + 1 + k
  <2>1. p - q - 1 \in Nat /\ p = q + 1 + (p - q - 1)
    BY <1>1, <1>2
  <2> QED BY <2>1
<1>4. d * p = d * q + d + d * k /\ d * k \in Nat
  BY <1>1, <1>3
<1>5. x + d = d * (q + 1) + 0
  BY <1>1
<1>6. (d * (q + 1) + 0) % d = 0
  BY <1>1, ModIs
<1> QED BY <1>1, <1>4, <1>5, <1>6

\* Every number is in the block of d that begins at the multiple before it.
LEMMA BlockBefore ==
  ASSUME NEW d \in Nat \ {0}, NEW x \in Nat
  PROVE  LET b == x - (x % d)
         IN  /\ b \in 0 .. x /\ b % d = 0 /\ x < b + d
             /\ b = d * (x \div d)
<1> DEFINE q == x \div d
           r == x % d
<1>1. q \in Nat /\ r \in Nat /\ r < d /\ x = d * q + r /\ d * q \in Nat
  BY DivMod
<1> HIDE DEF q, r
<1>2. (d * q + 0) % d = 0
  BY <1>1, ModIs
<1>3. d * q + 0 = x - r
  BY <1>1
<1>4. (x - r) % d = 0
  BY <1>2, <1>3
<1>5. x - r \in 0 .. x /\ x < (x - r) + d /\ x - r = d * q
  BY <1>1
<1> QED BY <1>4, <1>5 DEF q, r

\* Remainders of sums.
LEMMA ModAdd ==
  ASSUME NEW x \in Nat, NEW i \in Nat, NEW m \in Nat \ {0}
  PROVE  ((x % m) + i) % m = (x + i) % m
<1> DEFINE q == x \div m
           r == x % m
           p == (r + i) \div m
           s == (r + i) % m
<1>1. q \in Nat /\ r \in Nat /\ r < m /\ x = m * q + r
  BY DivMod
<1> HIDE DEF q, r
<1>2. r + i \in Nat
  BY <1>1
<1>3. p \in Nat /\ s \in Nat /\ s < m /\ r + i = m * p + s
  BY <1>2, DivMod
<1> HIDE DEF p, s
<1> DEFINE k == q + p
<1>4. k \in Nat /\ x + i = m * k + s
  BY <1>1, <1>3
<1> HIDE DEF k
<1>5. (x + i) % m = s
  BY <1>3, <1>4, ModIs
<1> QED BY <1>5 DEF s, r

\* The remainder of a remainder.
LEMMA ModMod ==
  ASSUME NEW x \in Nat, NEW n \in Nat \ {0}, NEW m \in Nat \ {0}, n % m = 0
  PROVE  (x % n) % m = x % m
<1> DEFINE c == n \div m
           q == x \div n
           r == x % n
           p == r \div m
           s == r % m
<1>1. c \in Nat /\ n = m * c
  BY DivMod
<1>2. q \in Nat /\ r \in Nat /\ x = n * q + r
  BY DivMod
<1> HIDE DEF c, q, r
<1>3. p \in Nat /\ s \in Nat /\ s < m /\ r = m * p + s
  BY <1>2, DivMod
<1> HIDE DEF p, s
<1> DEFINE k == c * q
<1>4. k \in Nat /\ n * q = m * k
  BY <1>1, <1>2
<1> HIDE DEF k
<1>5. k + p \in Nat /\ x = m * k + m * p + s
  BY <1>2, <1>3, <1>4
<1>6. x = m * (k + p) + s
  BY <1>3, <1>4, <1>5
<1>7. x % m = s
  <2> DEFINE j == k + p
  <2>1. j \in Nat /\ x = m * j + s
    BY <1>5, <1>6
  <2> HIDE DEF j
  <2> QED BY <1>3, <2>1, ModIs
<1> QED BY <1>7 DEF s, r

\* Three bytes make up an address: what the target adds up of AE, AH and AL.
LEMMA ThreeBytes ==
  ASSUME NEW a \in Nat, NEW B \in Nat \ {0}
  PROVE  LET w == a % (B * B * B)
             e == (a \div (B * B)) % B
             h == (a \div B) % B
             l == a % B
         IN  /\ e * B * B = w - (w % (B * B))
             /\ e * B * B + h * B = w - (w % B)
             /\ e * B * B + h * B + l = w
             /\ w \in Nat /\ w < B * B * B
             /\ e \in Nat /\ h \in Nat /\ l \in Nat
<1> DEFINE q1 == a \div B
           l == a % B
           q2 == q1 \div B
           h == q1 % B
           q3 == q2 \div B
           e == q2 % B
<1>1. q1 \in Nat /\ l \in Nat /\ l < B /\ a = B * q1 + l
  BY DivMod
<1> HIDE DEF q1, l
<1>2. q2 \in Nat /\ h \in Nat /\ h < B /\ q1 = B * q2 + h
  BY <1>1, DivMod
<1> HIDE DEF q2, h
<1>3. q3 \in Nat /\ e \in Nat /\ e < B /\ q2 = B * q3 + e
  BY <1>2, DivMod
<1> HIDE DEF q3, e
<1> DEFINE C == B * B
           D == B * B * B
<1>4. C \in Nat \ {0} /\ D \in Nat \ {0} /\ D = C * B /\ D = B * C
  OBVIOUS
<1>5. h * B + l \in Nat /\ h * B + l < C
  <2>1. h * B + B <= C
    <3> DEFINE k == B - h - 1
    <3>1. k \in Nat /\ B = h + 1 + k
      BY <1>2
    <3> HIDE DEF k
    <3>2. C = h * B + B + k * B /\ k * B \in Nat /\ h * B \in Nat
      BY <1>2, <3>1
    <3> QED BY <3>2
  <2> QED BY <1>1, <1>2, <2>1
<1>6. a = C * q2 + (h * B + l)
  BY <1>1, <1>2
<1>7. a \div C = q2
  BY <1>2, <1>4, <1>5, <1>6, ModIs
<1> DEFINE w == C * e + (h * B + l)
<1>8. w \in Nat /\ w < D
  <2>1. C * e + C <= D
    <3> DEFINE k == B - e - 1
    <3>1. k \in Nat /\ B = e + 1 + k
      BY <1>3
    <3> HIDE DEF k
    <3>2. D = C * e + C + C * k /\ C * k \in Nat /\ C * e \in Nat
      BY <1>3, <1>4, <3>1
    <3> QED BY <3>2
  <2> QED BY <1>3, <1>4, <1>5, <2>1
<1>9. a = D * q3 + w
  <2>1. C * q2 = C * B * q3 + C * e
    BY <1>3, <1>4
  <2> QED BY <1>3, <1>4, <1>5, <1>6, <2>1
<1>10. a % D = w
  <2> HIDE DEF w, D
  <2> QED BY <1>3, <1>4, <1>8, <1>9, ModIs
<1>11. w % C = h * B + l
  BY <1>3, <1>4, <1>5, ModIs
<1>12. w % B = l
  <2>1. w = B * (B * e + h) + l
    BY <1>1, <1>2, <1>3
  <2>2. B * e + h \in Nat
    BY <1>2, <1>3
  <2> HIDE DEF w
  <2> QED BY <1>1, <2>1, <2>2, ModIs
<1>13. e * B * B = C * e /\ C * e \in Nat /\ h * B \in Nat
  BY <1>2, <1>3
<1>14. /\ (a \div (B * B)) % B = e
       /\ (a \div B) % B = h
       /\ a % B = l
  BY <1>7 DEF e, h, l, q1, q2
<1> QED
  BY <1>1, <1>2, <1>3, <1>8, <1>10, <1>11, <1>12, <1>13, <1>14

\* Numbers less than m apart have different remainders.
LEMMA Apart ==
  ASSUME NEW m \in Nat \ {0}, NEW x \in Nat, NEW d \in Nat, 0 < d, d < m
  PROVE  x % m # (x + d) % m
<1> DEFINE q == x \div m
           r == x % m
           y == x + d
           p == y \div m
           s == y % m
<1>0. y \in Nat
  OBVIOUS
<1>1. /\ q \in Nat /\ r \in Nat /\ r < m /\ x = m * q + r
      /\ p \in Nat /\ s \in Nat /\ s < m /\ y = m * p + s
  BY <1>0, DivMod
<1> HIDE DEF q, r, p, s
<1> SUFFICES ASSUME r = s PROVE FALSE
  BY DEF r, s
<1> DEFINE u == m * q
           v == m * p
<1>2. u \in Nat /\ v \in Nat /\ v = u + d
  BY <1>1
<1>3. CASE p <= q
  <2> DEFINE k == q - p
  <2>1. k \in Nat /\ q = p + k
    BY <1>1, <1>3
  <2> HIDE DEF k
  <2>2. u = v + m * k /\ m * k \in Nat
    BY <1>1, <2>1
  <2> QED BY <1>2, <2>2
<1>4. CASE q < p
  <2> DEFINE k == p - q - 1
  <2>1. k \in Nat /\ p = q + 1 + k
    BY <1>1, <1>4
  <2> HIDE DEF k
  <2>2. v = u + m + m * k /\ m * k \in Nat
    BY <1>1, <2>1
  <2> QED BY <1>2, <2>2
<1> QED BY <1>1, <1>3, <1>4
=============================================================================
