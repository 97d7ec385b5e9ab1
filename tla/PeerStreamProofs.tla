-------------------------- MODULE PeerStreamProofs --------------------------
(***************************************************************************)
(* Proofs about PeerStream, for every set of clients, keys and paddings and   *)
(* every size of a byte, a serial and the traffic.                            *)
(***************************************************************************)
EXTENDS PeerStream, TLAPS, SequenceTheorems, FiniteSetTheorems, WellFoundedInduction

-----------------------------------------------------------------------------
(* The cipher *)

\* Induction, as the absence of a least counterexample.
LEMMA NoLeast ==
  ASSUME NEW S, S \subseteq Nat, \A n \in S : \E m \in S : m < n
  PROVE  S = {}
<1> SUFFICES ASSUME S # {} PROVE FALSE
  OBVIOUS
<1> DEFINE Less == {ab \in Nat \X Nat : ab[1] < ab[2]}
<1>1. IsWellFoundedOn(Less, Nat)
  BY NatLessThanWellFounded, Zenon DEF OpToRel
<1>2. PICK n \in S : \A m \in S : ~ (<<m, n>> \in Less)
  BY <1>1, WFMin
<1>3. PICK m \in S : m < n
  OBVIOUS
<1> QED
  BY <1>2, <1>3

\* f is XorBits, for the low n bits.
XorsTo(f, n) ==
  f = [i \in 0 .. n |-> [p \in Nat |-> [q \in Nat |->
         IF i = 0 THEN 0 ELSE ((p + q) % 2) + 2 * f[i - 1][p \div 2][q \div 2]]]]

\* The recursion of XorBits has a solution.
LEMMA XorsExist ==
  ASSUME NEW n \in Nat
  PROVE  \E f : XorsTo(f, n)
<1> DEFINE S == {m \in Nat : ~ \E f : XorsTo(f, m)}
<1>1. ASSUME NEW m \in S PROVE \E k \in S : k < m
  <2> SUFFICES ASSUME \A k \in Nat : k < m => \E f : XorsTo(f, k)
               PROVE  \E g : XorsTo(g, m)
    OBVIOUS
  <2>1. CASE m = 0
    <3>1. PICK g : g = [i \in 0 .. 0 |-> [p \in Nat |-> [q \in Nat |-> 0]]]
      OBVIOUS
    <3>2. g = [i \in 0 .. 0 |-> [p \in Nat |-> [q \in Nat |->
                IF i = 0 THEN 0 ELSE ((p + q) % 2) + 2 * g[i - 1][p \div 2][q \div 2]]]]
      BY <3>1
    <3> QED
      BY <2>1, <3>2 DEF XorsTo
  <2>2. CASE m # 0
    <3>1. m - 1 \in Nat /\ m - 1 < m
      BY <2>2
    <3>2. PICK f : XorsTo(f, m - 1)
      BY <3>1
    <3>3. PICK g : g = [i \in 0 .. m |-> IF i < m THEN f[i] ELSE [p \in Nat |-> [q \in Nat |->
                          ((p + q) % 2) + 2 * f[m - 1][p \div 2][q \div 2]]]]
      OBVIOUS
    <3>4. ASSUME NEW i \in 0 .. m
          PROVE  g[i] = [p \in Nat |-> [q \in Nat |->
                   IF i = 0 THEN 0 ELSE ((p + q) % 2) + 2 * g[i - 1][p \div 2][q \div 2]]]
      <4>1. CASE i = m
        <5>1. g[i - 1] = f[m - 1]
          BY <3>1, <3>3, <4>1
        <5>2. g[i] = [p \in Nat |-> [q \in Nat |->
                        ((p + q) % 2) + 2 * f[m - 1][p \div 2][q \div 2]]]
          BY <3>3, <4>1
        <5> QED
          BY <2>2, <4>1, <5>1, <5>2
      <4>2. CASE i < m
        <5>1. i \in 0 .. m - 1 /\ g[i] = f[i]
          BY <3>3, <4>2
        <5>2. f[i] = [p \in Nat |-> [q \in Nat |->
                        IF i = 0 THEN 0 ELSE ((p + q) % 2) + 2 * f[i - 1][p \div 2][q \div 2]]]
          BY <3>2, <5>1 DEF XorsTo
        <5>3. i # 0 => g[i - 1] = f[i - 1]
          BY <3>3, <4>2
        <5>4. CASE i = 0
          BY <5>1, <5>2, <5>4
        <5>5. CASE i # 0
          BY <5>1, <5>2, <5>3, <5>5
        <5> QED
          BY <5>4, <5>5
      <4> QED
        BY <4>1, <4>2
    <3>5. g = [i \in 0 .. m |-> g[i]]
      BY <3>3
    <3>6. XorsTo(g, m)
      BY <3>4, <3>5 DEF XorsTo
    <3> QED
      BY <3>6
  <2> QED
    BY <2>1, <2>2
<1>2. S = {}
  BY <1>1, NoLeast
<1> QED
  BY <1>2

\* The equations of XorBits.
LEMMA XorBitsIs ==
  ASSUME NEW i \in 0 .. ByteBits, NEW p \in Nat, NEW q \in Nat
  PROVE  XorBits[i][p][q] =
           IF i = 0 THEN 0 ELSE ((p + q) % 2) + 2 * XorBits[i - 1][p \div 2][q \div 2]
<1>1. ByteBits \in Nat
  BY CryptoAssumption
<1>2. XorBits = CHOOSE f : XorsTo(f, ByteBits)
  BY DEF XorBits, XorsTo
<1>3. XorsTo(XorBits, ByteBits)
  BY <1>1, <1>2, XorsExist
<1>4. PICK f : f = XorBits
  OBVIOUS
<1>5. f = [j \in 0 .. ByteBits |-> [x \in Nat |-> [y \in Nat |->
            IF j = 0 THEN 0 ELSE ((x + y) % 2) + 2 * f[j - 1][x \div 2][y \div 2]]]]
  BY <1>3, <1>4 DEF XorsTo
<1>6. f[i] = [x \in Nat |-> [y \in Nat |->
               IF i = 0 THEN 0 ELSE ((x + y) % 2) + 2 * f[i - 1][x \div 2][y \div 2]]]
  BY <1>5
<1>7. f[i][p] = [y \in Nat |->
                  IF i = 0 THEN 0 ELSE ((p + y) % 2) + 2 * f[i - 1][p \div 2][y \div 2]]
  BY <1>6
<1>8. f[i][p][q] = IF i = 0 THEN 0 ELSE ((p + q) % 2) + 2 * f[i - 1][p \div 2][q \div 2]
  BY <1>7
<1> QED
  BY <1>4, <1>8

\* What is xored twice is as it was, and xor of two bytes is a byte.
LEMMA XorBack ==
  ASSUME NEW a \in Byte, NEW b \in Byte
  PROVE  Xor(a, b) \in Byte /\ Xor(Xor(a, b), b) = a
<1> DEFINE P(n) == \A p, q \in 0 .. 2 ^ n - 1 :
             XorBits[n][p][q] \in 0 .. 2 ^ n - 1 /\ XorBits[n][XorBits[n][p][q]][q] = p
           S == {n \in 0 .. ByteBits : ~ P(n)}
<1>0. ByteBits \in Nat \ {0}
  BY CryptoAssumption
<1> HIDE DEF P
<1>1. ASSUME NEW n \in S PROVE \E m \in S : m < n
  <2>1. CASE n = 0
    <3>1. 2 ^ 0 = 1
      OBVIOUS
    <3>2. XorBits[0][0][0] = 0
      <4>1. 0 \in 0 .. ByteBits
        BY <1>0
      <4>2. XorBits[0][0][0] =
              IF 0 = 0 THEN 0 ELSE ((0 + 0) % 2) + 2 * XorBits[0 - 1][0 \div 2][0 \div 2]
        BY <4>1, XorBitsIs, Zenon
      <4> QED
        BY <4>2
    <3>3. P(0)
      BY <3>1, <3>2 DEF P
    <3> QED
      BY <2>1, <3>3
  <2>2. CASE n # 0
    <3>1. n - 1 \in 0 .. ByteBits - 1 /\ n \in 0 .. ByteBits
      BY <1>0, <2>2
    <3>5. n - 1 \in 0 .. ByteBits /\ n - 1 < n
      BY <1>0, <3>1
    <3> SUFFICES ASSUME P(n - 1) PROVE P(n)
      BY <3>5
    <3>2. PICK w \in Int : w = 2 ^ (n - 1)
      BY <3>1
    <3>3. 2 ^ n = 2 * w
      <4>1. PICK m : m = n - 1
        OBVIOUS
      <4>2. m \in 0 .. ByteBits - 1 /\ n = m + 1
        BY <3>1, <4>1
      <4>3. 2 ^ (m + 1) = 2 * 2 ^ m
        BY <4>2, CryptoAssumption
      <4> QED
        BY <3>2, <4>1, <4>2, <4>3
    <3>4. ASSUME NEW p \in 0 .. 2 * w - 1, NEW q \in 0 .. 2 * w - 1
          PROVE  /\ XorBits[n][p][q] \in 0 .. 2 * w - 1
                 /\ XorBits[n][XorBits[n][p][q]][q] = p
      <4>1. p \div 2 \in 0 .. w - 1 /\ q \div 2 \in 0 .. w - 1
        BY <3>2
      <4>2. PICK y : y = XorBits[n - 1][p \div 2][q \div 2]
        OBVIOUS
      <4>3. y \in 0 .. w - 1 /\ XorBits[n - 1][y][q \div 2] = p \div 2
        BY <3>2, <4>1, <4>2 DEF P
      <4>0. p \in Nat /\ q \in Nat
        BY <3>2
      <4>4. PICK r : r = XorBits[n][p][q]
        OBVIOUS
      <4>5. r = ((p + q) % 2) + 2 * y
        BY <2>2, <3>1, <4>0, <4>2, <4>4, XorBitsIs
      <4>6. r \in 0 .. 2 * w - 1 /\ r \div 2 = y /\ (r + q) % 2 = p % 2
        BY <3>2, <4>3, <4>5
      <4>7. XorBits[n][r][q] = ((r + q) % 2) + 2 * XorBits[n - 1][r \div 2][q \div 2]
        <5>1. r \in Nat
          BY <3>2, <4>6
        <5> QED
          BY <2>2, <3>1, <4>0, <5>1, XorBitsIs
      <4>8. XorBits[n][r][q] = (p % 2) + 2 * (p \div 2)
        BY <4>3, <4>6, <4>7
      <4> QED
        BY <4>4, <4>6, <4>8
    <3> QED
      BY <3>3, <3>4 DEF P
  <2> QED
    BY <2>1, <2>2
<1>2. S = {}
  <2>1. S \subseteq Nat
    BY <1>0
  <2> HIDE DEF S
  <2> QED
    BY <1>1, <2>1, NoLeast
<1>3. P(ByteBits)
  BY <1>0, <1>2
<1> QED
  BY <1>3 DEF P, Xor, Byte, ByteBase

\* f are the first n results of a step function on R, from a on.
Iterated(R, a, n, step, f) ==
  f \in [0 .. n -> R] /\ f[0] = a /\ \A i \in 1 .. n : f[i] = step[i][f[i - 1]]

\* A step function can be iterated.
LEMMA Iterates ==
  ASSUME NEW R, NEW a \in R, NEW n \in Nat, NEW step \in [1 .. n -> [R -> R]]
  PROVE  \E f : Iterated(R, a, n, step, f)
<1> DEFINE Q(m, f) == f \in [0 .. m -> R] /\ f[0] = a /\ \A i \in 1 .. m : f[i] = step[i][f[i - 1]]
           S == {m \in 0 .. n : ~ \E f : Q(m, f)}
<1>1. ASSUME NEW m \in S PROVE \E k \in S : k < m
  <2> SUFFICES ASSUME \A k \in 0 .. n : k < m => \E f : Q(k, f) PROVE \E g : Q(m, g)
    OBVIOUS
  <2>1. CASE m = 0
    <3>1. Q(0, [i \in 0 .. 0 |-> a])
      OBVIOUS
    <3> QED
      BY <2>1, <3>1
  <2>2. CASE m # 0
    <3>1. m \in 1 .. n /\ m - 1 \in 0 .. n /\ m - 1 < m
      BY <2>2
    <3> HIDE DEF Q
    <3>2. PICK f : Q(m - 1, f)
      BY <3>1
    <3>3. PICK v : v = step[m][f[m - 1]]
      OBVIOUS
    <3>4. f \in [0 .. m - 1 -> R] /\ f[0] = a /\ \A i \in 1 .. m - 1 : f[i] = step[i][f[i - 1]]
      BY <3>2 DEF Q
    <3>5. v \in R
      BY <3>1, <3>3, <3>4
    <3>6. PICK g : g = [i \in 0 .. m |-> IF i = m THEN v ELSE f[i]]
      OBVIOUS
    <3>7. g \in [0 .. m -> R] /\ g[0] = a
      BY <3>1, <3>4, <3>5, <3>6
    <3>8. \A i \in 1 .. m : g[i] = step[i][g[i - 1]]
      BY <3>1, <3>3, <3>4, <3>6
    <3>9. Q(m, g)
      BY <3>7, <3>8 DEF Q
    <3> QED
      BY <3>9
  <2> QED
    BY <2>1, <2>2
<1>2. S = {}
  <2>1. S \subseteq Nat
    OBVIOUS
  <2> HIDE DEF S
  <2> QED
    BY <1>1, <2>1, NoLeast
<1>3. n \in 0 .. n
  OBVIOUS
<1> HIDE DEF Q
<1>4. PICK f : Q(n, f)
  BY <1>2, <1>3
<1> QED
  BY <1>4 DEF Q, Iterated

\* A byte is a number below ByteBase.
LEMMA ByteBaseIs == ByteBase \in Nat \ {0} /\ Byte = 0 .. ByteBase - 1
<1> DEFINE S == {n \in 0 .. ByteBits : ~ (2 ^ n \in Nat \ {0})}
<1>0. ByteBits \in Nat \ {0}
  BY CryptoAssumption
<1>1. ASSUME NEW n \in S PROVE \E m \in S : m < n
  <2>1. n # 0
    <3> SUFFICES ASSUME n = 0 PROVE 2 ^ n \in Nat \ {0}
      OBVIOUS
    <3>1. 2 ^ 0 = 1
      OBVIOUS
    <3> QED
      BY <3>1
  <2>2. PICK m : m = n - 1
    OBVIOUS
  <2>3. m \in 0 .. ByteBits - 1 /\ n = m + 1 /\ m \in 0 .. ByteBits /\ m < n
    BY <1>0, <2>1, <2>2
  <2>4. 2 ^ (m + 1) = 2 * 2 ^ m
    BY <2>3, CryptoAssumption
  <2>5. ~ (2 ^ m \in Nat \ {0})
    BY <2>3, <2>4
  <2> QED
    BY <2>3, <2>5
<1>2. S = {}
  <2>1. S \subseteq Nat
    BY <1>0
  <2> HIDE DEF S
  <2> QED
    BY <1>1, <2>1, NoLeast
<1>3. 2 ^ ByteBits \in Nat \ {0}
  BY <1>0, <1>2
<1> QED
  BY <1>3 DEF ByteBase, Byte

Permutation == [Byte -> Byte]

\* Swapping two bytes of the RC4 state keeps it a map of the bytes.
LEMMA SwapTyped ==
  ASSUME NEW s \in Permutation, NEW i \in Byte, NEW j \in Byte
  PROVE  Swap(s, i, j) \in Permutation
BY DEF Swap, Permutation

\* r is the function KeySchedule recurs with.
Schedules(key, r) ==
  r = [n \in 0 .. ByteBase |->
         IF n = 0 THEN [s |-> [b \in Byte |-> b], j |-> 0]
         ELSE LET p == r[n - 1]
                  j == (p.j + p.s[n - 1] + key[((n - 1) % Len(key)) + 1]) % ByteBase
              IN  [s |-> Swap(p.s, n - 1, j), j |-> j]]

\* The key schedule permutes the bytes, or at least maps them to bytes.
LEMMA KeyScheduleTyped ==
  ASSUME NEW key \in Seq(Byte), key # <<>>
  PROVE  KeySchedule(key) \in Permutation
<1> DEFINE R == [s : Permutation, j : Byte]
           J(n, p) == (p.j + p.s[n - 1] + key[((n - 1) % Len(key)) + 1]) % ByteBase
           step == [n \in 1 .. ByteBase |-> [p \in R |-> [s |-> Swap(p.s, n - 1, J(n, p)), j |-> J(n, p)]]]
           a == [s |-> [b \in Byte |-> b], j |-> 0]
<1>1. ByteBase \in Nat \ {0} /\ Byte = 0 .. ByteBase - 1
  BY ByteBaseIs
<1>2. a \in R
  BY <1>1 DEF Permutation
<1>3. ASSUME NEW n \in 1 .. ByteBase, NEW p \in R
      PROVE  J(n, p) \in Byte /\ [s |-> Swap(p.s, n - 1, J(n, p)), j |-> J(n, p)] \in R
  <2>1. n - 1 \in Byte
    BY <1>1
  <2>2. PICK i : i = ((n - 1) % Len(key)) + 1
    OBVIOUS
  <2>3. i \in 1 .. Len(key)
    <3>1. Len(key) \in Nat \ {0} /\ n - 1 \in Nat
      BY <1>1
    <3> QED
      BY <2>2, <3>1
  <2>4. key[i] \in Byte
    BY <2>3
  <2>5. p.j \in Byte /\ p.s[n - 1] \in Byte
    BY <2>1 DEF Permutation
  <2>6. PICK t : t = p.j + p.s[n - 1] + key[i]
    OBVIOUS
  <2>7. t \in Nat
    BY <1>1, <2>4, <2>5, <2>6, SMTT(40)
  <2>8. t % ByteBase \in Byte
    BY <1>1, <2>7
  <2>9. J(n, p) \in Byte
    BY <2>2, <2>6, <2>8
  <2> HIDE DEF J
  <2> QED
    BY <2>1, <2>9, SwapTyped
<1>4. step \in [1 .. ByteBase -> [R -> R]]
  BY <1>3
<1> HIDE DEF a, step
<1>5. PICK f \in [0 .. ByteBase -> R] : f[0] = a /\ \A n \in 1 .. ByteBase : f[n] = step[n][f[n - 1]]
  <2>1. PICK X, x, st, l : X = R /\ x = a /\ st = step /\ l = ByteBase
    OBVIOUS
  <2>2. x \in X /\ l \in Nat /\ st \in [1 .. l -> [X -> X]]
    BY <1>1, <1>2, <1>4, <2>1
  <2>3. PICK g : Iterated(X, x, l, st, g)
    BY <2>2, Iterates
  <2> HIDE DEF R
  <2> QED
    BY <2>1, <2>3 DEF Iterated
<1>6. Schedules(key, f)
  <2>1. ASSUME NEW n \in 0 .. ByteBase
        PROVE  f[n] = IF n = 0 THEN a
                      ELSE [s |-> Swap(f[n - 1].s, n - 1, J(n, f[n - 1])), j |-> J(n, f[n - 1])]
    <3>1. n # 0 => n \in 1 .. ByteBase /\ f[n - 1] \in R
      <4>1. n # 0 => n \in 1 .. ByteBase /\ n - 1 \in 0 .. ByteBase
        BY <1>1
      <4> HIDE DEF R
      <4> QED
        BY <1>5, <4>1
    <3> HIDE DEF J
    <3> QED
      BY <1>5, <3>1 DEF step
  <2> QED
    BY <2>1 DEF Schedules, a
<1>7. PICK r : r = CHOOSE g : Schedules(key, g)
  OBVIOUS
<1>8. Schedules(key, r)
  BY <1>6, <1>7
<1>9. KeySchedule(key) = r[ByteBase].s
  BY <1>7 DEF KeySchedule, Schedules
<1>10. \A n \in 0 .. ByteBase : r[n] \in R
  <2> DEFINE S == {n \in 0 .. ByteBase : r[n] \notin R}
  <2>1. ASSUME NEW n \in S PROVE \E m \in S : m < n
    <3>1. r[n] = IF n = 0 THEN a
                 ELSE [s |-> Swap(r[n - 1].s, n - 1, J(n, r[n - 1])), j |-> J(n, r[n - 1])]
      BY <1>8 DEF Schedules, a
    <3>2. n # 0
      BY <1>2, <3>1
    <3>3. n \in 1 .. ByteBase /\ n - 1 \in 0 .. ByteBase /\ n - 1 < n
      BY <1>1, <3>2
    <3>4. r[n - 1] \notin R
      BY <1>3, <3>1, <3>2, <3>3
    <3> QED
      BY <3>3, <3>4
  <2>2. S = {}
    <3>1. S \subseteq Nat
      BY <1>1
    <3> HIDE DEF S
    <3> QED
      BY <2>1, <3>1, NoLeast
  <2> QED
    BY <2>2
<1>11. r[ByteBase] \in R
  BY <1>1, <1>10
<1> QED
  BY <1>9, <1>11

\* r is the function KeyStream recurs with.
Streams(key, length, r) ==
  r = [n \in 0 .. length |->
         IF n = 0 THEN [s |-> KeySchedule(key), j |-> 0, out |-> <<>>]
         ELSE LET p == r[n - 1]
                  i == n % ByteBase
                  j == (p.j + p.s[i]) % ByteBase
                  s == Swap(p.s, i, j)
              IN  [s |-> s, j |-> j, out |-> Append(p.out, s[(s[i] + s[j]) % ByteBase])]]

\* The key stream is as long as asked for and consists of bytes.
LEMMA KeyStreamTyped ==
  ASSUME NEW key \in Seq(Byte), key # <<>>, NEW length \in Nat
  PROVE  KeyStream(key, length) \in Seq(Byte) /\ Len(KeyStream(key, length)) = length
<1> DEFINE R == [s : Permutation, j : Byte, out : Seq(Byte)]
           I(n) == n % ByteBase
           J(n, p) == (p.j + p.s[I(n)]) % ByteBase
           T(n, p) == Swap(p.s, I(n), J(n, p))
           K(n, p) == T(n, p)[(T(n, p)[I(n)] + T(n, p)[J(n, p)]) % ByteBase]
           G(n, p) == [s |-> T(n, p), j |-> J(n, p), out |-> Append(p.out, K(n, p))]
           step == [n \in 1 .. length |-> [p \in R |-> G(n, p)]]
           a == [s |-> KeySchedule(key), j |-> 0, out |-> <<>>]
<1>1. ByteBase \in Nat \ {0} /\ Byte = 0 .. ByteBase - 1
  BY ByteBaseIs
<1>2. a \in R /\ a.out = <<>>
  <2>1. 0 \in Byte /\ <<>> \in Seq(Byte)
    BY <1>1
  <2> QED
    BY <2>1, KeyScheduleTyped
<1>3. ASSUME NEW n \in 1 .. length, NEW p \in R
      PROVE  G(n, p) \in R /\ Len(G(n, p).out) = Len(p.out) + 1
  <2>1. I(n) \in Byte
    BY <1>1
  <2> HIDE DEF I
  <2>2. p.j \in Byte /\ p.s[I(n)] \in Byte /\ p.s \in Permutation /\ p.out \in Seq(Byte)
    BY <2>1 DEF Permutation
  <2>3. \A x, y \in Byte : (x + y) % ByteBase \in Byte
    BY <1>1
  <2>4. J(n, p) \in Byte
    BY <2>2, <2>3
  <2> HIDE DEF J
  <2>5. T(n, p) \in Permutation
    BY <2>1, <2>2, <2>4, SwapTyped
  <2> HIDE DEF T
  <2>6. K(n, p) \in Byte
    <3>1. T(n, p)[I(n)] \in Byte /\ T(n, p)[J(n, p)] \in Byte
      BY <2>1, <2>4, <2>5 DEF Permutation
    <3>2. (T(n, p)[I(n)] + T(n, p)[J(n, p)]) % ByteBase \in Byte
      BY <2>3, <3>1
    <3> QED
      BY <2>5, <3>2 DEF Permutation
  <2> HIDE DEF K
  <2>7. Append(p.out, K(n, p)) \in Seq(Byte) /\ Len(Append(p.out, K(n, p))) = Len(p.out) + 1
    BY <2>2, <2>6, AppendProperties
  <2> QED
    BY <2>4, <2>5, <2>7
<1> HIDE DEF G
<1>4. step \in [1 .. length -> [R -> R]]
  BY <1>3
<1> HIDE DEF a, step
<1>5. PICK f \in [0 .. length -> R] : f[0] = a /\ \A n \in 1 .. length : f[n] = step[n][f[n - 1]]
  <2>1. PICK X, x, st, l : X = R /\ x = a /\ st = step /\ l = length
    OBVIOUS
  <2>2. x \in X /\ l \in Nat /\ st \in [1 .. l -> [X -> X]]
    BY <1>2, <1>4, <2>1
  <2>3. PICK g : Iterated(X, x, l, st, g)
    BY <2>2, Iterates
  <2> HIDE DEF R
  <2> QED
    BY <2>1, <2>3 DEF Iterated
<1>6. Streams(key, length, f)
  <2>1. ASSUME NEW n \in 0 .. length
        PROVE  f[n] = IF n = 0 THEN a ELSE G(n, f[n - 1])
    <3>1. n # 0 => n \in 1 .. length /\ f[n - 1] \in R
      <4>1. n # 0 => n \in 1 .. length /\ n - 1 \in 0 .. length
        OBVIOUS
      <4> HIDE DEF R
      <4> QED
        BY <1>5, <4>1
    <3> QED
      BY <1>5, <3>1 DEF step
  <2>2. f = [n \in 0 .. length |-> IF n = 0 THEN a ELSE G(n, f[n - 1])]
    <3> HIDE DEF R
    <3> QED
      BY <1>5, <2>1
  <2> QED
    BY <2>2 DEF Streams, a, G
<1>7. PICK r : r = CHOOSE g : Streams(key, length, g)
  OBVIOUS
<1>8. Streams(key, length, r)
  BY <1>6, <1>7
<1>9. KeyStream(key, length) = r[length].out
  BY <1>7 DEF KeyStream, Streams
<1>10. r = [n \in 0 .. length |-> IF n = 0 THEN a ELSE G(n, r[n - 1])]
  BY <1>8 DEF Streams, a, G
<1>11. \A n \in 0 .. length : r[n] \in R /\ Len(r[n].out) = n
  <2> DEFINE S == {n \in 0 .. length : ~ (r[n] \in R /\ Len(r[n].out) = n)}
  <2>1. ASSUME NEW n \in S PROVE \E m \in S : m < n
    <3>1. r[n] = IF n = 0 THEN a ELSE G(n, r[n - 1])
      BY <1>10
    <3>2. n # 0
      BY <1>2, <3>1
    <3>3. n \in 1 .. length /\ n - 1 \in 0 .. length /\ n - 1 < n
      BY <3>2
    <3>4. ~ (r[n - 1] \in R /\ Len(r[n - 1].out) = n - 1)
      BY <1>3, <3>1, <3>2, <3>3
    <3> QED
      BY <3>3, <3>4
  <2>2. S = {}
    <3>1. S \subseteq Nat
      OBVIOUS
    <3> HIDE DEF S
    <3> QED
      BY <2>1, <3>1, NoLeast
  <2> QED
    BY <2>2
<1>12. r[length] \in R /\ Len(r[length].out) = length
  BY <1>11
<1> QED
  BY <1>9, <1>12

\* Every session key has a stream of eight bytes.
LEMMA StreamTyped ==
  ASSUME NEW key \in SessionKey
  PROVE  Stream[key] \in Seq(Byte) /\ Len(Stream[key]) = 8
<1>1. key \in Seq(Byte) /\ key # <<>>
  BY StreamAssumption
<1>2. Stream[key] = KeyStream(key, 8)
  BY DEF Stream
<1>3. KeyStream(key, 8) \in Seq(Byte) /\ Len(KeyStream(key, 8)) = 8
  <2>1. 8 \in Nat
    OBVIOUS
  <2> QED
    BY <1>1, <2>1, KeyStreamTyped
<1> QED
  BY <1>2, <1>3

\* RC4 undoes itself: a message of up to eight bytes that is enciphered twice is what it was.
LEMMA CipherBack ==
  ASSUME NEW key \in SessionKey, NEW data \in Seq(Byte), Len(data) <= 8
  PROVE  /\ rc4_apply(Stream[key], data) \in Seq(Byte)
         /\ Len(rc4_apply(Stream[key], data)) = Len(data)
         /\ rc4_apply(Stream[key], rc4_apply(Stream[key], data)) = data
<1>1. PICK t : t = Stream[key]
  OBVIOUS
<1>2. t \in Seq(Byte) /\ Len(t) = 8
  BY <1>1, StreamTyped
<1>3. PICK n \in Nat : n = Len(data)
  OBVIOUS
<1>4. \A i \in 1 .. n : data[i] \in Byte /\ t[i] \in Byte
  BY <1>2, <1>3
<1>5. PICK c : c = [i \in 1 .. n |-> Xor(data[i], t[i])]
  OBVIOUS
<1>6. c = rc4_apply(t, data)
  BY <1>3, <1>5 DEF rc4_apply
<1>7. \A i \in 1 .. n : Xor(data[i], t[i]) \in Byte /\ Xor(Xor(data[i], t[i]), t[i]) = data[i]
  BY <1>4, XorBack
<1>8. c \in [1 .. n -> Byte]
  BY <1>5, <1>7
<1>9. c \in Seq(Byte) /\ Len(c) = n /\ DOMAIN c = 1 .. n
  BY <1>8, IsASeq
<1>10. rc4_apply(t, c) = [i \in 1 .. n |-> Xor(c[i], t[i])]
  BY <1>9 DEF rc4_apply
<1>11. PICK d : d = [i \in 1 .. n |-> data[i]]
  OBVIOUS
<1>12. rc4_apply(t, c) = d
  BY <1>5, <1>7, <1>10, <1>11
<1>13. d = data
  BY <1>3, <1>11
<1> QED
  BY <1>1, <1>3, <1>6, <1>9, <1>12, <1>13

-----------------------------------------------------------------------------
(* Messages as bytes *)

\* The messages that go into encrypted ones: short enough for the streams.
Inner == {m \in [type : {"rmi", "encrypted_reliable", "connection_request"}, body : Seq(Byte)] :
            Len(m.body) <= 6}

\* Each is bytes, and is read back from them.
LEMMA BytesBack ==
  ASSUME NEW m \in Inner
  PROVE  /\ Bytes(m) \in Seq(Byte) /\ Len(Bytes(m)) = Len(m.body) + 1
         /\ Parsed(Bytes(m)) = m
<1>1. 1 \in Byte /\ 2 \in Byte /\ 3 \in Byte
  BY ByteBaseIs, StreamAssumption
<1>2. PICK t, b : t = m.type /\ b = m.body
  OBVIOUS
<1>3. /\ t \in {"rmi", "encrypted_reliable", "connection_request"}
      /\ b \in Seq(Byte) /\ m = [type |-> t, body |-> b]
  BY <1>2 DEF Inner
<1>4. PICK c : c = TypeByte[t]
  OBVIOUS
<1>5. c \in Byte
  BY <1>1, <1>3, <1>4 DEF TypeByte
<1>6. Bytes(m) = <<c>> \o b
  BY <1>2, <1>4 DEF Bytes
<1>7. PICK d : d = <<c>> \o b
  OBVIOUS
<1>8. d \in Seq(Byte) /\ Len(d) = Len(b) + 1 /\ d[1] = c
  BY <1>3, <1>5, <1>7
<1>9. Tail(d) = b
  BY <1>3, <1>5, <1>7, <1>8
<1>10. (CHOOSE x \in DOMAIN TypeByte : TypeByte[x] = c) = t
  <2>1. DOMAIN TypeByte = {"rmi", "encrypted_reliable", "connection_request"}
    BY DEF TypeByte
  <2>2. \A x \in DOMAIN TypeByte : TypeByte[x] = c <=> x = t
    BY <1>3, <1>4, <2>1 DEF TypeByte
  <2>3. t \in DOMAIN TypeByte
    BY <1>3, <2>1
  <2>4. \A x : (x \in DOMAIN TypeByte /\ TypeByte[x] = c) <=> x = t
    BY <2>2, <2>3
  <2> QED
    BY <2>2, <2>3, Zenon
<1>11. Parsed(d) = m
  BY <1>3, <1>8, <1>9, <1>10 DEF Parsed
<1> QED
  BY <1>2, <1>6, <1>7, <1>8, <1>11

\* What the receiver reads in a sealed message: the serial and the message.
Reads(key, f, s, m) ==
  LET plain == rc4_apply(Stream[key], f.body)
  IN  plain[1] = s /\ Parsed(Tail(plain)) = m

\* f is a message of this type with a body of this length.
IsFrame(f, type, length) ==
  /\ f = [type |-> type, body |-> f.body]
  /\ f.body \in Seq(Byte) /\ Len(f.body) = length

\* What was sealed with a key is read with that key.
LEMMA UnsealBack ==
  ASSUME NEW key \in SessionKey, NEW s \in 0 .. SerialCount - 1, NEW m \in Inner, NEW type
  PROVE  /\ IsFrame(Wrapped(type, key, <<s>>, m), type, Len(m.body) + 2)
         /\ Reads(key, Wrapped(type, key, <<s>>, m), s, m)
<1>1. PICK b : b = Bytes(m)
  OBVIOUS
<1>2. b \in Seq(Byte) /\ Len(b) = Len(m.body) + 1 /\ Parsed(b) = m
  BY <1>1, BytesBack
<1>3. s \in Byte
  BY ByteBaseIs, StreamAssumption
<1>4. PICK d : d = <<s>> \o b
  OBVIOUS
<1>5. d \in Seq(Byte) /\ Len(d) = Len(b) + 1 /\ d[1] = s
  BY <1>2, <1>3, <1>4
<1>6. Tail(d) = b
  BY <1>2, <1>3, <1>4, <1>5
<1>7. Len(m.body) \in Nat /\ Len(m.body) <= 6
  BY DEF Inner
<1>8. Len(d) <= 8 /\ Len(d) = Len(m.body) + 2
  BY <1>2, <1>5, <1>7
<1>9. PICK f : f = Wrapped(type, key, <<s>>, m)
  OBVIOUS
<1>10. f.type = type /\ f.body = rc4_apply(Stream[key], d) /\ f = [type |-> type, body |-> f.body]
  BY <1>1, <1>4, <1>9 DEF Wrapped
<1>11. /\ f.body \in Seq(Byte) /\ Len(f.body) = Len(d)
       /\ rc4_apply(Stream[key], f.body) = d
  BY <1>5, <1>8, <1>10, CipherBack
<1>12. Reads(key, f, s, m)
  BY <1>2, <1>5, <1>6, <1>11 DEF Reads
<1>13. IsFrame(f, type, Len(m.body) + 2)
  BY <1>8, <1>10, <1>11 DEF IsFrame
<1> QED
  BY <1>9, <1>12, <1>13

\* The same without a serial.
LEMMA UnsealPlainBack ==
  ASSUME NEW key \in SessionKey, NEW m \in Inner, NEW type
  PROVE  /\ IsFrame(Wrapped(type, key, <<>>, m), type, Len(m.body) + 1)
         /\ Parsed(rc4_apply(Stream[key], Wrapped(type, key, <<>>, m).body)) = m
<1>1. PICK b : b = Bytes(m)
  OBVIOUS
<1>2. b \in Seq(Byte) /\ Len(b) = Len(m.body) + 1 /\ Parsed(b) = m
  BY <1>1, BytesBack
<1>3. <<>> \o b = b
  BY <1>2, ConcatEmptySeq
<1>4. Len(b) <= 8
  <2>1. Len(m.body) \in Nat /\ Len(m.body) <= 6
    BY DEF Inner
  <2> QED
    BY <1>2, <2>1
<1>5. PICK f : f = Wrapped(type, key, <<>>, m)
  OBVIOUS
<1>6. f.type = type /\ f.body = rc4_apply(Stream[key], b) /\ f = [type |-> type, body |-> f.body]
  BY <1>1, <1>3, <1>5 DEF Wrapped
<1>7. /\ f.body \in Seq(Byte) /\ Len(f.body) = Len(b)
      /\ rc4_apply(Stream[key], f.body) = b
  BY <1>2, <1>4, <1>6, CipherBack
<1>8. IsFrame(f, type, Len(m.body) + 1)
  BY <1>2, <1>6, <1>7 DEF IsFrame
<1> QED
  BY <1>2, <1>5, <1>7, <1>8

-----------------------------------------------------------------------------
(* Messages and frames *)

\* The SIMPLEBLOBs the server may send.
Blobs == UNION {UNION {BlobsOf(c, k) : k \in SessionKey} : c \in Client}

\* The RMIs of either side.
Calls == {Rmi(n) : n \in 0 .. MaxMessages}

\* What send is called with: the messages of the handshake and the RMIs of the sinks.
Sendable ==
  {Plain(t) : t \in {"hint", "version_mismatch", "connect_success", "speed_hack_detector_enabled"}}
    \cup {[type |-> "session_key", body |-> b] : b \in Blobs}
    \cup Calls

\* An RMI is its number, in two bytes.
LEMMA CallTyped ==
  ASSUME NEW m \in Calls
  PROVE  m.type = "rmi" /\ m.body \in Seq(Byte) /\ Len(m.body) = 2 /\ m \in Inner
<1>1. PICK n \in 0 .. MaxMessages : m = Rmi(n)
  BY DEF Calls
<1>2. PICK B : B = ByteBase
  OBVIOUS
<1>3. B \in Nat \ {0} /\ Byte = 0 .. B - 1 /\ n \in Nat /\ n < B * B
  BY <1>2, ByteBaseIs, StreamAssumption
<1>4. PICK y \in Byte : y = n % B
  BY <1>3
<1>5. PICK x \in Byte : x = n \div B
  BY <1>3, SMTT(40)
<1>6. m = [type |-> "rmi", body |-> <<x, y>>]
  BY <1>1, <1>2, <1>4, <1>5 DEF Rmi
<1>7. <<x, y>> \in Seq(Byte) /\ Len(<<x, y>>) = 2
  OBVIOUS
<1>8. m.type = "rmi" /\ m.body = <<x, y>>
  BY <1>6
<1>9. m \in [type : {"rmi", "encrypted_reliable", "connection_request"}, body : Seq(Byte)]
  BY <1>6, <1>7
<1>10. PICK b : b = m.body
  OBVIOUS
<1>11. b \in Seq(Byte) /\ Len(b) = 2 /\ Len(b) <= 6
  BY <1>7, <1>8, <1>10
<1> QED
  BY <1>8, <1>9, <1>10, <1>11 DEF Inner

Sealed(key, serial, message) == Wrapped("encrypted_reliable", key, <<serial>>, message)

\* What it queues.
Frame ==
  Sendable \cup {Sealed(k, s, m) : k \in SessionKey, s \in 0 .. SerialCount - 1, m \in Calls}

OutRecord ==
  [m_write_queue : Seq(Frame), m_writing : BOOLEAN, writes : Seq(Frame),
   m_send_serial : 0 .. SerialCount - 1, sent : Seq(Sendable)]

\* The frame that send makes of a message.
FrameOf(o, message, encrypted) ==
  IF encrypted THEN Sealed(m_session_key, o.m_send_serial, message) ELSE message

\* One write is under way exactly when m_writing says so, and frames wait for no other reason.
Busy(o) ==
  /\ Len(o.writes) <= 1
  /\ o.m_writing <=> o.writes # <<>>
  /\ o.m_write_queue # <<>> => o.m_writing

\* The frames that are not written yet, the one under way first.
Pending(o) == o.writes \o o.m_write_queue

\* The counter of encrypted messages wraps around.
LEMMA SerialTyped ==
  ASSUME NEW s \in 0 .. SerialCount - 1, NEW e \in BOOLEAN
  PROVE  NextSerial(s, e) \in 0 .. SerialCount - 1
<1>1. SerialCount \in Nat \ {0}
  BY StreamAssumption
<1> QED
  BY <1>1 DEF NextSerial

\* x is o after a message was sent in it as this frame.
Queued(o, x, message, frame, encrypted) ==
  /\ x \in OutRecord
  /\ x.sent = Append(o.sent, message)
  /\ x.m_send_serial = NextSerial(o.m_send_serial, encrypted)
  /\ Busy(x)
  /\ Pending(x) = Append(Pending(o), frame)

\* send queues one frame and starts a write if there is none.
LEMMA SendIs ==
  ASSUME NEW o \in OutRecord, Busy(o), NEW message \in Sendable, NEW encrypt \in BOOLEAN,
         encrypt => message \in Calls, m_session_key \in SessionKey \cup {<<>>}
  PROVE  LET encrypted == encrypt /\ m_session_key # <<>>
         IN  Queued(o, send(o, message, encrypt), message, FrameOf(o, message, encrypted), encrypted)
<1> DEFINE x == send(o, message, encrypt)
<1>1. PICK encrypted \in BOOLEAN : encrypted = (encrypt /\ m_session_key # <<>>)
  OBVIOUS
<1>2. PICK frame : frame = FrameOf(o, message, encrypted)
  OBVIOUS
<1>3. frame \in Frame
  <2>1. CASE ~ encrypted
    BY <1>2, <2>1 DEF FrameOf, Frame
  <2>2. CASE encrypted
    <3>1. PICK k \in SessionKey : k = m_session_key
      BY <1>1, <2>2
    <3>2. PICK s \in 0 .. SerialCount - 1 : s = o.m_send_serial
      BY DEF OutRecord
    <3>3. frame = Sealed(k, s, message)
      BY <1>2, <2>2, <3>1, <3>2 DEF FrameOf
    <3>4. message \in Calls
      BY <1>1, <2>2
    <3> QED
      BY <3>3, <3>4 DEF Frame
  <2> QED
    BY <2>1, <2>2
<1>4. PICK serial \in 0 .. SerialCount - 1 : serial = NextSerial(o.m_send_serial, encrypted)
  BY SerialTyped DEF OutRecord
<1>5. PICK q : q = [o EXCEPT !.sent = Append(o.sent, message), !.m_send_serial = serial,
                             !.m_write_queue = Append(o.m_write_queue, frame)]
  OBVIOUS
<1>6. x = IF o.m_writing THEN q ELSE write_next(q, FALSE)
  BY <1>1, <1>2, <1>4, <1>5 DEF send, FrameOf, Sealed
<1>7. /\ q \in OutRecord /\ q.sent = Append(o.sent, message) /\ q.m_send_serial = serial
      /\ q.m_writing = o.m_writing /\ q.writes = o.writes
      /\ q.m_write_queue = Append(o.m_write_queue, frame)
  <2>1. Append(o.sent, message) \in Seq(Sendable) /\ Append(o.m_write_queue, frame) \in Seq(Frame)
    BY <1>3, AppendProperties DEF OutRecord
  <2> QED
    BY <1>4, <1>5, <2>1 DEF OutRecord
<1>8. o.writes \in Seq(Frame) /\ o.m_write_queue \in Seq(Frame)
  BY DEF OutRecord
<1> HIDE DEF x
<1>9. CASE o.m_writing
  <2>1. x = q
    BY <1>6, <1>9
  <2>2. Busy(x)
    BY <1>7, <1>9, <2>1 DEF Busy
  <2>3. Pending(x) = Append(Pending(o), frame)
    <3>1. Pending(x) = o.writes \o (o.m_write_queue \o <<frame>>)
      BY <1>3, <1>7, <1>8, <2>1, AppendIsConcat DEF Pending
    <3>2. Pending(o) \in Seq(Frame) /\ <<frame>> \in Seq(Frame)
      BY <1>3, <1>8, ConcatProperties DEF Pending
    <3>3. Pending(x) = Pending(o) \o <<frame>>
      <4>1. PICK a \in Seq(Frame), b \in Seq(Frame), c \in Seq(Frame) :
              a = o.writes /\ b = o.m_write_queue /\ c = <<frame>>
        BY <1>8, <3>2
      <4>2. (a \o b) \o c = a \o (b \o c)
        BY ConcatAssociative, SMTT(40)
      <4> QED
        BY <3>1, <4>1, <4>2 DEF Pending
    <3> QED
      BY <1>3, <3>2, <3>3, AppendIsConcat
  <2> QED
    BY <1>1, <1>2, <1>4, <1>7, <2>1, <2>2, <2>3 DEF Queued, x
<1>10. CASE ~ o.m_writing
  <2>1. o.writes = <<>> /\ o.m_write_queue = <<>>
    BY <1>10 DEF Busy, OutRecord
  <2>2. q.m_write_queue = <<frame>>
    BY <1>7, <2>1
  <2>3. x = [q EXCEPT !.m_writing = TRUE, !.m_write_queue = <<>>, !.writes = <<frame>>]
    BY <1>3, <1>6, <1>7, <1>10, <2>1, <2>2 DEF write_next
  <2>4. /\ x \in OutRecord /\ x.sent = q.sent /\ x.m_send_serial = q.m_send_serial
        /\ x.m_writing = TRUE /\ x.m_write_queue = <<>> /\ x.writes = <<frame>>
    <3>1. <<frame>> \in Seq(Frame) /\ <<>> \in Seq(Frame)
      BY <1>3
    <3> QED
      BY <1>7, <2>3, <3>1 DEF OutRecord
  <2>5. Busy(x)
    BY <2>4 DEF Busy
  <2>6. Pending(x) = Append(Pending(o), frame)
    BY <1>3, <2>1, <2>4 DEF Pending
  <2> QED
    BY <1>1, <1>2, <1>4, <1>7, <2>4, <2>5, <2>6 DEF Queued, x
<1> QED
  BY <1>9, <1>10 DEF OutRecord

-----------------------------------------------------------------------------
(* The invariants *)

State == {"awaiting_public_key", "awaiting_connection_request", "connected", "closed"}
Served == {"connected", "closed"}

\* What needs no key to be right.
BaseInv ==
  /\ m_state \in State
  /\ m_session_key \in SessionKey \cup {<<>>}
  /\ m_recv_serial \in 0 .. SerialCount - 1
  /\ out \in OutRecord
  /\ reading \in BOOLEAN
  /\ client \in Client
  /\ issued \in Seq(Calls)
  /\ Len(out.writes) <= 1
  /\ Open => Busy(out)

\* Once the session key k is on its way to the client c, it stays.
KeyFrame(f, st, k, c) ==
  f.type = "session_key" =>
    st # "awaiting_public_key" /\ k \in SessionKey /\ f.body \in BlobsOf(c, k)

\* The frame is the message: as it is or sealed, with a serial.
Carries(f, message, serial, k) ==
  IF f.type = "encrypted_reliable"
  THEN k \in SessionKey /\ f = Sealed(k, serial, message) /\ message \in Calls
  ELSE f = message

\* What is only sent to a client that has, or will have, the key before.
NeedsKey(f) == f.type = "encrypted_reliable" \/ f = Plain("connect_success")

\* The i-th of the pending frames p is the message sent at that place, n of the sent ones
\* having arrived: with the serial ser[i] the client will expect then, cs now and ss when
\* all have arrived, and under the key k. The client has the key ck, or gets it in time.
Aligned(ser, p, s, n, cs, ss, k, ck) ==
  /\ Len(s) = n + Len(p)
  /\ ser \in [1 .. Len(p) + 1 -> 0 .. SerialCount - 1]
  /\ ser[1] = cs /\ ser[Len(p) + 1] = ss
  /\ \A i \in 1 .. Len(p) :
       /\ Carries(p[i], s[n + i], ser[i], k)
       /\ ser[i + 1] = NextSerial(ser[i], p[i].type = "encrypted_reliable")
       /\ NeedsKey(p[i]) /\ ck = <<>> => \E j \in 1 .. i - 1 : p[j].type = "session_key"

InLine(p, s, n, cs, ss, k, ck) == \E ser : Aligned(ser, p, s, n, cs, ss, k, ck)

View == [key : SessionKey \cup {<<>>}, serial : 0 .. SerialCount - 1, got : Seq(Sendable)]

\* The client will have the key once all that is pending has arrived.
KeyComing(p, ck) == ck # <<>> \/ \E j \in 1 .. Len(p) : p[j].type = "session_key"

\* Nothing is lost or turned round on the way down from a peer in the state st with the
\* session key k. (A write that fails loses a frame and is the last one.)
Down(st, k, o, v, c) ==
  /\ v \in View
  /\ st \notin {"awaiting_public_key", "closed"} => k # <<>>
  /\ \A i \in 1 .. Len(Pending(o)) : KeyFrame(Pending(o)[i], st, k, c)
  /\ v.key # <<>> => v.key = k /\ st # "awaiting_public_key"
  /\ st # "closed" \/ o.writes # <<>> =>
       InLine(Pending(o), o.sent, Len(v.got), v.serial, o.m_send_serial, k, v.key)
  /\ st \in {"awaiting_connection_request", "connected"} => KeyComing(Pending(o), v.key)
  /\ Contains(v.got, Plain("connect_success")) => st \in Served /\ v.key # <<>>
  /\ \A i \in 1 .. Len(Pending(o)) : Pending(o)[i] = Plain("connect_success") => st \in Served

DownInv == Down(m_state, m_session_key, out, view, client)

\* The message in the frame f of the client, sealed or not, with the serial s if it is
\* numbered. Nothing is sealed before the session key is given away.
Holds(f, message, s, st, k) ==
  \/ f = message /\ message.type \in {"public_key", "connection_request", "rmi"}
  \/ /\ k \in SessionKey /\ st # "awaiting_public_key" /\ message \in Inner
     /\ \/ f = Wrapped("encrypted_reliable", k, <<s>>, message)
        \/ f = Wrapped("encrypted_unreliable", k, <<>>, message)

\* After a of the RMIs calls the frame f holds the next of them, or another message and a
\* stays.
Item(f, s, a, after, st, k, calls) ==
  \E message :
    /\ Holds(f, message, s, st, k)
    /\ IF message.type = "rmi"
       THEN st \in Served /\ after = a + 1 /\ message = calls[a + 1]
       ELSE after = a

\* The frames b hold, in order, the RMIs that were issued and not handled; ser[i] is the
\* serial expected at the i-th frame, at[i] the RMIs before it.
Carried(ser, at, b, st, k, rs, cs, calls, n) ==
  /\ ser \in [1 .. Len(b) + 1 -> 0 .. SerialCount - 1]
  /\ at \in [1 .. Len(b) + 1 -> 0 .. Len(calls)]
  /\ ser[1] = rs /\ ser[Len(b) + 1] = cs
  /\ at[1] = n /\ at[Len(b) + 1] = Len(calls)
  /\ \A i \in 1 .. Len(b) :
       /\ ser[i + 1] = NextSerial(ser[i], b[i].type = "encrypted_reliable")
       /\ Item(b[i], ser[i], at[i], at[i + 1], st, k, calls)

Upcoming(b, st, k, rs, cs, calls, n) == \E ser, at : Carried(ser, at, b, st, k, rs, cs, calls, n)

\* Nothing is lost or turned round on the way up, while the peer is open.
UpInv ==
  /\ inbox \in Seq(Message) /\ handled \in Seq(Calls)
  /\ c_serial \in 0 .. SerialCount - 1
  /\ Open => Upcoming(inbox, m_state, m_session_key, m_recv_serial, c_serial, issued, Len(handled))

-----------------------------------------------------------------------------
(* Steps that keep BaseInv *)

\* What a message of the client may make the server do, by the state it is in.
Idle == UNCHANGED <<m_state, m_session_key, out>>

Refuses == m_state' = "closed" /\ UNCHANGED <<m_session_key, out, handled>>

DrawsOnly ==
  /\ m_state = "awaiting_public_key" /\ m_session_key' \in SessionKey
  /\ UNCHANGED <<m_state, out, handled>>

GivesKey(cipher) ==
  /\ m_state = "awaiting_public_key" /\ m_state' = "awaiting_connection_request"
  /\ m_session_key' \in SessionKey /\ UNCHANGED handled
  /\ cipher \in BlobsOf(client, m_session_key')
  /\ out' = send(out, [type |-> "session_key", body |-> cipher], FALSE)

TurnsAway ==
  /\ m_state = "awaiting_connection_request" /\ m_state' = "closed"
  /\ UNCHANGED <<m_session_key, handled>>
  /\ out' = send(out, Plain("version_mismatch"), FALSE)

Accepts ==
  /\ m_state = "awaiting_connection_request" /\ m_state' = "connected"
  /\ UNCHANGED <<m_session_key, handled>>
  /\ out' = send(send(out, Plain("connect_success"), FALSE),
                 Plain("speed_hack_detector_enabled"), FALSE)

Handling ==
  Idle \/ Refuses \/ DrawsOnly \/ (\E cipher : GivesKey(cipher)) \/ TurnsAway \/ Accepts

\* A message does one of these things, sealed or not.
LEMMA DispatchIs ==
  ASSUME NEW message, Dispatch(message)
  PROVE  Handling
<1>1. CASE on_public_key
  BY <1>1 DEF on_public_key, Handling, Idle, Refuses, DrawsOnly, GivesKey, BlobsOf
<1>2. CASE on_connection_request
  BY <1>2 DEF on_connection_request, Handling, Idle, TurnsAway, Accepts
<1>3. CASE on_rmi(message)
  BY <1>3 DEF on_rmi, Handling, Idle
<1> QED
  BY <1>1, <1>2, <1>3 DEF Dispatch, Handling, Idle

\* The same for what process_payload is called with; the serial only moves on.
LEMMA PayloadIs ==
  ASSUME BaseInv, NEW message, process_payload(message)
  PROVE  /\ Handling
         /\ \E e \in BOOLEAN : m_recv_serial' = NextSerial(m_recv_serial, e)
<1>1. ASSUME NEW reliable \in BOOLEAN, on_encrypted(message, reliable)
      PROVE  /\ Handling
             /\ \E e \in BOOLEAN : m_recv_serial' = NextSerial(m_recv_serial, e)
  <2>1. PICK inner : \/ UNCHANGED <<m_state, m_session_key, m_recv_serial, out, handled>>
                     \/ m_recv_serial' = NextSerial(m_recv_serial, reliable) /\ Dispatch(inner)
    BY <1>1 DEF on_encrypted
  <2>2. CASE UNCHANGED <<m_state, m_session_key, m_recv_serial, out, handled>>
    BY <2>2 DEF Handling, Idle, NextSerial
  <2>3. CASE m_recv_serial' = NextSerial(m_recv_serial, reliable) /\ Dispatch(inner)
    BY <2>3, DispatchIs
  <2> QED
    BY <2>1, <2>2, <2>3
<1>2. CASE Dispatch(message) /\ UNCHANGED m_recv_serial
  BY <1>2, DispatchIs DEF NextSerial
<1> QED
  BY <1>1, <1>2 DEF process_payload

\* What send is called with in the handshake is Sendable.
LEMMA HandshakeSendable ==
  /\ Plain("version_mismatch") \in Sendable /\ Plain("connect_success") \in Sendable
  /\ Plain("speed_hack_detector_enabled") \in Sendable /\ Plain("hint") \in Sendable
  /\ \A c \in Client, k \in SessionKey : \A b \in BlobsOf(c, k) :
       [type |-> "session_key", body |-> b] \in Sendable
<1>1. ASSUME NEW c \in Client, NEW k \in SessionKey, NEW b \in BlobsOf(c, k) PROVE b \in Blobs
  <2>1. b \in UNION {BlobsOf(c, l) : l \in SessionKey}
    OBVIOUS
  <2> QED
    BY <2>1, Zenon DEF Blobs
<1> QED
  BY <1>1 DEF Sendable

\* A plain message is its own frame.
LEMMA SendPlain ==
  ASSUME BaseInv, NEW o \in OutRecord, Busy(o), NEW message \in Sendable
  PROVE  Queued(o, send(o, message, FALSE), message, message, FALSE)
<1>1. Queued(o, send(o, message, FALSE), message, FrameOf(o, message, FALSE), FALSE)
  BY SendIs DEF BaseInv
<1> QED
  BY <1>1 DEF FrameOf

\* A connected client is sent two messages when it is accepted.
LEMMA AcceptSends ==
  ASSUME BaseInv, Open, Accepts
  PROVE  \E o : /\ Queued(out, o, Plain("connect_success"), Plain("connect_success"), FALSE)
                /\ Queued(o, out', Plain("speed_hack_detector_enabled"),
                          Plain("speed_hack_detector_enabled"), FALSE)
<1>1. PICK o : o = send(out, Plain("connect_success"), FALSE)
  OBVIOUS
<1>2. out \in OutRecord /\ Busy(out)
  BY DEF BaseInv
<1>3. Queued(out, o, Plain("connect_success"), Plain("connect_success"), FALSE)
  BY <1>1, <1>2, SendPlain, HandshakeSendable
<1>4. o \in OutRecord /\ Busy(o)
  BY <1>3 DEF Queued
<1>5. out' = send(o, Plain("speed_hack_detector_enabled"), FALSE)
  BY <1>1 DEF Accepts
<1>6. Queued(o, out', Plain("speed_hack_detector_enabled"),
             Plain("speed_hack_detector_enabled"), FALSE)
  BY <1>4, <1>5, SendPlain, HandshakeSendable
<1> QED
  BY <1>3, <1>6

\* The write queue stays in order whatever the client sends.
LEMMA HandlingKeepsBase ==
  ASSUME BaseInv, Open, Handling
  PROVE  /\ m_state' \in State /\ m_session_key' \in SessionKey \cup {<<>>}
         /\ out' \in OutRecord /\ Len(out'.writes) <= 1 /\ Busy(out')
<1> USE DEF State
<1>0. out \in OutRecord /\ Busy(out) /\ client \in Client
  BY DEF BaseInv
<1>1. CASE Idle
  BY <1>0, <1>1 DEF BaseInv, Idle
<1>2. CASE Refuses
  BY <1>0, <1>2 DEF BaseInv, Refuses
<1>3. CASE DrawsOnly
  BY <1>0, <1>3 DEF BaseInv, DrawsOnly
<1>4. ASSUME NEW cipher, GivesKey(cipher)
      PROVE  /\ m_state' \in State /\ m_session_key' \in SessionKey \cup {<<>>}
             /\ out' \in OutRecord /\ Len(out'.writes) <= 1 /\ Busy(out')
  <2>1. PICK k \in SessionKey : k = m_session_key'
    BY <1>4 DEF GivesKey
  <2>2. PICK message : message = [type |-> "session_key", body |-> cipher]
    OBVIOUS
  <2>3. message \in Sendable
    BY <1>0, <1>4, <2>1, <2>2, HandshakeSendable DEF GivesKey
  <2>4. Queued(out, out', message, message, FALSE)
    BY <1>0, <1>4, <2>2, <2>3, SendPlain DEF GivesKey
  <2> QED
    BY <1>4, <2>4 DEF GivesKey, Queued, Busy
<1>5. CASE TurnsAway
  <2>1. Queued(out, out', Plain("version_mismatch"), Plain("version_mismatch"), FALSE)
    BY <1>0, <1>5, SendPlain, HandshakeSendable DEF TurnsAway
  <2> QED
    BY <1>5, <2>1 DEF BaseInv, TurnsAway, Queued, Busy
<1>6. CASE Accepts
  BY <1>6, AcceptSends DEF BaseInv, Accepts, Queued, Busy
<1> QED
  BY <1>1, <1>2, <1>3, <1>4, <1>5, <1>6 DEF Handling

\* A sequence of at most one element has only that one.
LEMMA ShortSeq ==
  ASSUME NEW S, NEW w \in Seq(S), Len(w) <= 1, NEW i \in 1 .. Len(w)
  PROVE  i = 1 /\ Len(w) = 1
OBVIOUS

\* The write under way is the only one.
LEMMA OnlyWrite ==
  ASSUME BaseInv, NEW i \in DOMAIN out.writes
  PROVE  /\ i = 1 /\ out.writes = <<out.writes[1]>> /\ out.writes[1] \in Frame
         /\ Without(i) = <<>>
         /\ Pending(out) = <<out.writes[1]>> \o out.m_write_queue
<1>1. out.writes \in Seq(Frame) /\ Len(out.writes) <= 1
  BY DEF BaseInv, OutRecord
<1>2. Len(out.writes) = 1 /\ i = 1
  <2>1. PICK w : w = out.writes
    OBVIOUS
  <2>2. w \in Seq(Frame) /\ Len(w) <= 1 /\ i \in 1 .. Len(w)
    BY <1>1, <2>1
  <2> QED
    BY <2>1, <2>2, ShortSeq
<1>3. out.writes = <<out.writes[1]>> /\ out.writes[1] \in Frame
  BY <1>1, <1>2
<1>4. SubSeq(out.writes, 1, 0) = <<>> /\ SubSeq(out.writes, 2, 1) = <<>>
  BY <1>1, <1>2, SubSeqEmpty
<1>5. Without(i) = <<>>
  BY <1>2, <1>4 DEF Without
<1> QED
  BY <1>2, <1>3, <1>5 DEF Pending

\* x is o after its write has ended: what waits is what was waiting.
Advanced(o, x) ==
  /\ x \in OutRecord
  /\ x.sent = o.sent /\ x.m_send_serial = o.m_send_serial
  /\ Len(x.writes) <= 1
  /\ Pending(x) = o.m_write_queue

\* The completion handler starts the next write, or none once the peer is closed.
LEMMA WriteNextIs ==
  ASSUME NEW o \in OutRecord, NEW shut \in BOOLEAN
  PROVE  LET x == write_next([o EXCEPT !.writes = <<>>], shut)
         IN  /\ Advanced(o, x)
             /\ IF shut THEN x.writes = <<>> ELSE Busy(x)
<1>1. PICK q : q = [o EXCEPT !.writes = <<>>]
  OBVIOUS
<1>2. /\ q \in OutRecord /\ q.writes = <<>> /\ q.m_write_queue = o.m_write_queue
      /\ q.sent = o.sent /\ q.m_send_serial = o.m_send_serial /\ q.m_writing = o.m_writing
  <2>1. <<>> \in Seq(Frame)
    OBVIOUS
  <2> QED
    BY <1>1, <2>1 DEF OutRecord
<1>3. PICK w : w = o.m_write_queue
  OBVIOUS
<1>4. w \in Seq(Frame)
  BY <1>3 DEF OutRecord
<1> DEFINE x == write_next(q, shut)
<1>5. CASE w = <<>> \/ shut
  <2>1. x = [q EXCEPT !.m_writing = FALSE]
    BY <1>2, <1>3, <1>5 DEF write_next
  <2>2. /\ x \in OutRecord /\ x.writes = <<>> /\ x.m_write_queue = w
        /\ x.sent = o.sent /\ x.m_send_serial = o.m_send_serial /\ x.m_writing = FALSE
    BY <1>2, <1>3, <2>1 DEF OutRecord
  <2>3. Pending(x) = w
    BY <1>4, <2>2, ConcatEmptySeq DEF Pending
  <2> QED
    BY <1>1, <1>3, <1>5, <2>2, <2>3 DEF Advanced, Busy
<1>6. CASE ~ (w = <<>> \/ shut)
  <2>1. PICK f \in Frame, t \in Seq(Frame) : f = Head(w) /\ t = Tail(w)
    BY <1>4, <1>6, HeadTailProperties
  <2>2. x = [q EXCEPT !.m_writing = TRUE, !.m_write_queue = t, !.writes = <<f>>]
    BY <1>2, <1>3, <1>6, <2>1 DEF write_next
  <2>3. <<f>> \in Seq(Frame)
    OBVIOUS
  <2>4. /\ x \in OutRecord /\ x.writes = <<f>> /\ x.m_write_queue = t
        /\ x.sent = o.sent /\ x.m_send_serial = o.m_send_serial /\ x.m_writing = TRUE
    BY <1>2, <2>2, <2>3 DEF OutRecord
  <2>5. Pending(x) = w
    <3>1. w = <<f>> \o t
      BY <1>4, <1>6, <2>1
    <3> QED
      BY <2>4, <3>1 DEF Pending
  <2> QED
    <3>1. Len(x.writes) <= 1 /\ x.writes # <<>> /\ ~ shut
      BY <1>6, <2>4
    <3> HIDE DEF x
    <3>2. Advanced(o, x) /\ Busy(x)
      BY <1>3, <2>4, <2>5, <3>1 DEF Advanced, Busy
    <3> QED
      BY <1>1, <3>1, <3>2 DEF x
<1> QED
  BY <1>5, <1>6

\* A failing write ends without a successor.
LEMMA WriteFailsIs ==
  ASSUME NEW o \in OutRecord
  PROVE  LET x == [o EXCEPT !.writes = <<>>] IN Advanced(o, x) /\ x.writes = <<>>
<1>1. PICK x : x = [o EXCEPT !.writes = <<>>]
  OBVIOUS
<1>2. /\ x \in OutRecord /\ x.writes = <<>> /\ x.m_write_queue = o.m_write_queue
      /\ x.sent = o.sent /\ x.m_send_serial = o.m_send_serial
  <2>1. <<>> \in Seq(Frame)
    OBVIOUS
  <2> QED
    BY <1>1, <2>1 DEF OutRecord
<1>3. Pending(x) = o.m_write_queue
  BY <1>2, ConcatEmptySeq DEF Pending, OutRecord
<1> QED
  BY <1>1, <1>2, <1>3 DEF Advanced

\* The RMI a sink sends is one of the numbered ones.
LEMMA SinkMessage ==
  ASSUME BaseInv, Len(issued) + Rmis(out.sent) < MaxMessages
  PROVE  /\ Rmis(out.sent) \in Nat
         /\ Rmi(Rmis(out.sent) + 1) \in Calls
         /\ Rmi(Rmis(out.sent) + 1) \in Sendable
<1>1. PICK s \in Seq(Sendable) : s = out.sent
  BY DEF BaseInv, OutRecord
<1>2. PICK D : D = {i \in DOMAIN s : s[i].type = "rmi"}
  OBVIOUS
<1>3. IsFiniteSet(D)
  <2>1. IsFiniteSet(1 .. Len(s))
    BY FS_Interval
  <2>2. D \subseteq 1 .. Len(s)
    BY <1>2
  <2> QED
    BY <2>1, <2>2, FS_Subset
<1>4. Cardinality(D) \in Nat
  BY <1>3, FS_CardinalityType
<1>5. Rmis(out.sent) \in Nat
  BY <1>1, <1>2, <1>4 DEF Rmis
<1>6. Rmis(out.sent) + 1 \in 0 .. MaxMessages
  <2>1. Len(issued) \in Nat
    BY DEF BaseInv
  <2> QED
    BY <1>5, <2>1, StreamAssumption
<1> QED
  BY <1>5, <1>6 DEF Sendable, Calls

\* The hint is the one write under way at first.
LEMMA InitBase ==
  ASSUME Init
  PROVE  BaseInv
<1>1. /\ out.m_write_queue = <<>> /\ out.m_writing = TRUE /\ out.writes = <<Plain("hint")>>
      /\ out.m_send_serial = 0 /\ out.sent = <<Plain("hint")>>
  BY DEF Init
<1>2. 0 \in 0 .. SerialCount - 1
  BY StreamAssumption
<1>3. Plain("hint") \in Sendable /\ Plain("hint") \in Frame
  <2>1. Plain("hint") \in Sendable
    BY HandshakeSendable
  <2>2. \A m \in Sendable : m \in Frame
    BY DEF Frame
  <2> QED
    BY <2>1, <2>2
<1>4. out \in OutRecord
  BY <1>2, <1>3 DEF Init, OutRecord
<1>5. Busy(out) /\ Len(out.writes) <= 1
  BY <1>1 DEF Busy
<1> QED
  BY <1>2, <1>4, <1>5 DEF Init, BaseInv, State

\* A message of the client leaves the write queue in order.
LEMMA ReceiveBase ==
  ASSUME BaseInv, Receive
  PROVE  BaseInv'
<1>1. Handling /\ \E e \in BOOLEAN : m_recv_serial' = NextSerial(m_recv_serial, e)
  BY PayloadIs DEF Receive
<1>2. /\ m_state' \in State /\ m_session_key' \in SessionKey \cup {<<>>}
      /\ out' \in OutRecord /\ Len(out'.writes) <= 1 /\ Busy(out')
  BY <1>1, HandlingKeepsBase DEF Receive
<1>3. m_recv_serial' \in 0 .. SerialCount - 1
  BY <1>1, SerialTyped DEF BaseInv
<1> QED
  BY <1>2, <1>3 DEF BaseInv, Receive

\* The completion of a write starts the next one, if the peer is open and a frame waits.
LEMMA WriteDoneBase ==
  ASSUME BaseInv, WriteDone
  PROVE  BaseInv' /\ Advanced(out, out') /\ view' = ClientGets(out.writes[1])
<1>1. PICK i \in DOMAIN out.writes :
        /\ view' = ClientGets(out.writes[i])
        /\ out' = write_next([out EXCEPT !.writes = Without(i)], ~ Open)
  BY DEF WriteDone
<1>2. i = 1 /\ Without(i) = <<>>
  BY OnlyWrite
<1>3. PICK shut \in BOOLEAN : shut = ~ Open
  BY DEF Open
<1>4. out' = write_next([out EXCEPT !.writes = <<>>], shut)
  BY <1>1, <1>2, <1>3
<1>5. out \in OutRecord
  BY DEF BaseInv
<1>6. /\ Advanced(out, out')
      /\ IF shut THEN out'.writes = <<>> ELSE Busy(out')
  BY <1>4, <1>5, WriteNextIs
<1>7. BaseInv'
  BY <1>3, <1>6 DEF BaseInv, WriteDone, Advanced, in_vars, Open
<1> QED
  BY <1>1, <1>2, <1>6, <1>7

\* A write that fails is the last one.
LEMMA WriteFailsBase ==
  ASSUME BaseInv, WriteFails
  PROVE  BaseInv' /\ Advanced(out, out') /\ out'.writes = <<>>
<1>1. PICK i \in DOMAIN out.writes : out' = [out EXCEPT !.writes = Without(i)]
  BY DEF WriteFails
<1>2. out' = [out EXCEPT !.writes = <<>>]
  BY <1>1, OnlyWrite
<1>3. Advanced(out, out') /\ out'.writes = <<>>
  BY <1>2, WriteFailsIs DEF BaseInv
<1> QED
  BY <1>3 DEF BaseInv, WriteFails, Advanced, in_vars, Open, State

\* An RMI of a sink is queued as one frame.
LEMMA SinkBase ==
  ASSUME BaseInv, NEW encrypt \in BOOLEAN, NEW closes \in BOOLEAN, SinkSends(encrypt, closes)
  PROVE  /\ BaseInv'
         /\ \E message \in Calls, encrypted \in BOOLEAN :
              /\ encrypted = (encrypt /\ m_session_key # <<>>)
              /\ Queued(out, out', message, FrameOf(out, message, encrypted), encrypted)
<1>1. PICK message \in Calls : message = Rmi(Rmis(out.sent) + 1) /\ message \in Sendable
  BY SinkMessage DEF SinkSends
<1>2. out \in OutRecord /\ Busy(out) /\ m_session_key \in SessionKey \cup {<<>>}
  BY DEF BaseInv, SinkSends, Open
<1>3. out' = send(out, message, encrypt)
  BY <1>1 DEF SinkSends
<1>4. PICK encrypted \in BOOLEAN : encrypted = (encrypt /\ m_session_key # <<>>)
  OBVIOUS
<1>5. Queued(out, out', message, FrameOf(out, message, encrypted), encrypted)
  BY <1>1, <1>2, <1>3, <1>4, SendIs
<1>6. BaseInv'
  BY <1>5 DEF BaseInv, SinkSends, Queued, Busy, in_vars, Open, State
<1> QED
  BY <1>4, <1>5, <1>6

\* What the client sends leaves the server as it is.
LEMMA ClientBase ==
  ASSUME BaseInv,
         \/ \E type \in {"public_key", "connection_request"} : ClientShakes(type)
         \/ \E type \in {"rmi", "encrypted_reliable", "encrypted_unreliable"} : ClientCalls(type)
         \/ \E type \in {"connection_request", "encrypted_reliable"} : ClientWraps(type)
  PROVE  BaseInv'
<1>1. issued' \in Seq(Calls)
  <2>1. issued \in Seq(Calls) /\ Len(issued) \in Nat
    BY DEF BaseInv
  <2>2. ASSUME NEW type, ClientCalls(type) PROVE issued' \in Seq(Calls)
    <3>1. issued' = Append(issued, Rmi(Len(issued) + 1))
      BY <2>2 DEF ClientCalls
    <3>2. Rmi(Rmis(out.sent) + 1) \in Calls /\ Rmis(out.sent) \in Nat
      BY <2>2, SinkMessage DEF ClientCalls
    <3>3. Len(issued) + 1 \in 0 .. MaxMessages
      BY <2>1, <2>2, <3>2, StreamAssumption DEF ClientCalls
    <3> QED
      BY <2>1, <3>1, <3>3, AppendProperties DEF Calls
  <2> QED
    BY <2>1, <2>2 DEF ClientShakes, ClientWraps
<1>2. UNCHANGED <<m_state, m_session_key, m_recv_serial, out, view, reading, client, handled>>
  BY DEF ClientShakes, ClientCalls, ClientWraps, ClientStep
<1> QED
  BY <1>1, <1>2 DEF BaseInv, Open

\* Every step keeps the write queue in order.
LEMMA NextKeepsBase ==
  ASSUME BaseInv, [Next]_vars
  PROVE  BaseInv'
<1>1. CASE UNCHANGED vars
  BY <1>1 DEF vars, BaseInv, Open
<1>2. CASE close
  BY <1>2 DEF BaseInv, close, in_vars, Open, State
<1> QED
  BY <1>1, <1>2, ReceiveBase, WriteDoneBase, WriteFailsBase, SinkBase, ClientBase DEF Next

-----------------------------------------------------------------------------
(* The write queue *)

\* BaseInv holds throughout, whoever the client is and whatever it sends.
THEOREM BaseInvariant == Spec => []BaseInv
<1>1. Init => BaseInv
  BY InitBase
<1>2. BaseInv /\ [Next]_vars => BaseInv'
  BY NextKeepsBase
<1> QED
  BY <1>1, <1>2, PTL DEF Spec

\* peer::write_next never has two writes of an open peer under way, and no frame waits
\* for a write that nobody starts.
THEOREM OneWrite == Spec => []OneWriteAtATime
<1>1. BaseInv => OneWriteAtATime
  BY DEF BaseInv, Busy, OneWriteAtATime
<1> QED
  BY <1>1, BaseInvariant, PTL

-----------------------------------------------------------------------------
(* The way down *)

\* A frame queued behind the others, with the next serial if it is sealed.
LEMMA LineGrows ==
  ASSUME NEW p \in Seq(Frame), NEW s \in Seq(Sendable), NEW n \in Nat, NEW cs, NEW ss, NEW k, NEW ck,
         InLine(p, s, n, cs, ss, k, ck),
         NEW f \in Frame, NEW m \in Sendable, Carries(f, m, ss, k),
         NeedsKey(f) => KeyComing(p, ck)
  PROVE  InLine(Append(p, f), Append(s, m), n, cs,
                NextSerial(ss, f.type = "encrypted_reliable"), k, ck)
<1>1. PICK ser : Aligned(ser, p, s, n, cs, ss, k, ck)
  BY DEF InLine
<1>2. PICK l \in Nat : l = Len(p)
  OBVIOUS
<1>3. PICK e \in BOOLEAN : e = (f.type = "encrypted_reliable")
  OBVIOUS
<1>4. PICK q : q = Append(p, f)
  OBVIOUS
<1>5. PICK t : t = Append(s, m)
  OBVIOUS
<1>6. /\ Len(q) = l + 1 /\ q[l + 1] = f /\ \A i \in 1 .. l : q[i] = p[i]
  BY <1>2, <1>4, AppendProperties
<1>7. Len(s) = n + l
  BY <1>1, <1>2 DEF Aligned
<1>8. Len(t) = n + l + 1 /\ t[n + l + 1] = m /\ \A i \in 1 .. n + l : t[i] = s[i]
  BY <1>5, <1>7, AppendProperties
<1>9. ss \in 0 .. SerialCount - 1
  BY <1>1, <1>2 DEF Aligned
<1>10. PICK z \in 0 .. SerialCount - 1 : z = NextSerial(ss, e)
  BY <1>9, SerialTyped
<1>11. PICK r : r = [i \in 1 .. l + 2 |-> IF i = l + 2 THEN z ELSE ser[i]]
  OBVIOUS
<1>12. r \in [1 .. l + 2 -> 0 .. SerialCount - 1] /\ r[l + 2] = z /\ \A i \in 1 .. l + 1 : r[i] = ser[i]
  <2>1. ser \in [1 .. l + 1 -> 0 .. SerialCount - 1]
    BY <1>1, <1>2 DEF Aligned
  <2>2. \A i \in 1 .. l + 2 : i # l + 2 => i \in 1 .. l + 1
    OBVIOUS
  <2> QED
    BY <1>11, <2>1, <2>2
<1>13. ASSUME NEW i \in 1 .. l + 1
       PROVE  /\ Carries(q[i], t[n + i], r[i], k)
              /\ r[i + 1] = NextSerial(r[i], q[i].type = "encrypted_reliable")
              /\ NeedsKey(q[i]) /\ ck = <<>> => \E j \in 1 .. i - 1 : q[j].type = "session_key"
  <2>1. CASE i = l + 1
    <3>1. q[i] = f /\ t[n + i] = m /\ r[i] = ss /\ r[i + 1] = z
      BY <1>1, <1>2, <1>6, <1>8, <1>12, <2>1 DEF Aligned
    <3>2. \A j \in 1 .. l : q[j] = p[j] /\ j \in 1 .. i - 1
      BY <1>6, <2>1
    <3>3. NeedsKey(f) /\ ck = <<>> => \E j \in 1 .. i - 1 : q[j].type = "session_key"
      BY <1>2, <3>2 DEF KeyComing
    <3> QED
      BY <1>3, <1>10, <3>1, <3>3
  <2>2. CASE i # l + 1
    <3>1. i \in 1 .. l /\ n + i \in 1 .. n + l /\ i + 1 \in 1 .. l + 1
      BY <2>2
    <3>2. q[i] = p[i] /\ t[n + i] = s[n + i] /\ r[i] = ser[i] /\ r[i + 1] = ser[i + 1]
      BY <1>6, <1>8, <1>12, <3>1
    <3>3. \A j \in 1 .. i - 1 : q[j] = p[j]
      BY <1>6, <3>1
    <3> QED
      BY <1>1, <1>2, <3>1, <3>2, <3>3 DEF Aligned
  <2> QED
    BY <2>1, <2>2
<1>14. Aligned(r, q, t, n, cs, z, k, ck)
  <2>1. r[1] = cs
    BY <1>1, <1>2, <1>12 DEF Aligned
  <2> QED
    BY <1>6, <1>8, <1>12, <1>13, <2>1 DEF Aligned
<1> QED
  BY <1>3, <1>4, <1>5, <1>10, <1>14 DEF InLine

\* The frame f is the next of the messages s, with the serial expected, and if it is sealed
\* the client has the key.
IsNext(f, s, n, cs, k, ck) ==
  /\ n < Len(s) /\ Carries(f, s[n + 1], cs, k)
  /\ cs \in 0 .. SerialCount - 1
  /\ NeedsKey(f) => ck # <<>>

\* The client has the key once it got f.
KeyAfter(f, ck, ck2) == IF f.type = "session_key" THEN ck2 # <<>> ELSE ck2 = ck

\* The first frame arrives: it is the next message, and the others are in line for the
\* client as it is then.
LEMMA LineMoves ==
  ASSUME NEW q \in Seq(Frame), NEW f \in Frame, NEW p, p = <<f>> \o q,
         NEW s \in Seq(Sendable), NEW n \in Nat, NEW cs, NEW ss, NEW k, NEW ck, NEW ck2,
         InLine(p, s, n, cs, ss, k, ck), KeyAfter(f, ck, ck2)
  PROVE  /\ IsNext(f, s, n, cs, k, ck)
         /\ InLine(q, s, n + 1, NextSerial(cs, f.type = "encrypted_reliable"), ss, k, ck2)
<1>1. PICK ser : Aligned(ser, p, s, n, cs, ss, k, ck)
  BY DEF InLine
<1>2. PICK l \in Nat : l = Len(q)
  OBVIOUS
<1>3. Len(p) = l + 1 /\ p[1] = f /\ \A i \in 1 .. l : p[i + 1] = q[i]
  <2>1. <<f>> \in Seq(Frame) /\ Len(<<f>>) = 1
    OBVIOUS
  <2> QED
    BY <1>2, <2>1, ConcatProperties
<1>4. Len(s) = n + l + 1 /\ ser \in [1 .. l + 2 -> 0 .. SerialCount - 1] /\ ser[1] = cs /\ ser[l + 2] = ss
  <2>1. Len(p) + 1 = l + 2
    BY <1>3
  <2>2. /\ Len(s) = n + Len(p) /\ ser \in [1 .. Len(p) + 1 -> 0 .. SerialCount - 1]
        /\ ser[1] = cs /\ ser[Len(p) + 1] = ss
    BY <1>1 DEF Aligned
  <2>3. Len(s) = n + l + 1
    BY <1>3, <2>2
  <2>4. ser \in [1 .. l + 2 -> 0 .. SerialCount - 1] /\ ser[1] = cs /\ ser[l + 2] = ss
    BY <2>1, <2>2, Zenon
  <2> QED
    BY <2>3, <2>4
<1>5. \A i \in 1 .. l + 1 :
        /\ Carries(p[i], s[n + i], ser[i], k)
        /\ ser[i + 1] = NextSerial(ser[i], p[i].type = "encrypted_reliable")
        /\ NeedsKey(p[i]) /\ ck = <<>> => \E j \in 1 .. i - 1 : p[j].type = "session_key"
  BY <1>1, <1>3 DEF Aligned
<1>6. /\ Carries(f, s[n + 1], cs, k) /\ ser[2] = NextSerial(cs, f.type = "encrypted_reliable")
      /\ NeedsKey(f) => ck # <<>>
  BY <1>3, <1>4, <1>5
<1>7. PICK r : r = [i \in 1 .. l + 1 |-> ser[i + 1]]
  OBVIOUS
<1>8. /\ r \in [1 .. l + 1 -> 0 .. SerialCount - 1] /\ \A i \in 1 .. l + 1 : r[i] = ser[i + 1]
      /\ r[1] = ser[2] /\ r[l + 1] = ss
  BY <1>4, <1>7
<1>9. ASSUME NEW i \in 1 .. l
      PROVE  /\ Carries(q[i], s[n + 1 + i], r[i], k)
             /\ r[i + 1] = NextSerial(r[i], q[i].type = "encrypted_reliable")
             /\ NeedsKey(q[i]) /\ ck2 = <<>> => \E j \in 1 .. i - 1 : q[j].type = "session_key"
  <2>1. /\ i + 1 \in 1 .. l + 1 /\ q[i] = p[i + 1] /\ r[i] = ser[i + 1] /\ r[i + 1] = ser[i + 2]
        /\ n + 1 + i = n + (i + 1) /\ (i + 1) + 1 = i + 2
    <3>1. /\ i \in 1 .. l + 1 /\ i + 1 \in 1 .. l + 1
          /\ n + 1 + i = n + (i + 1) /\ (i + 1) + 1 = i + 2
      OBVIOUS
    <3>2. r[i] = ser[i + 1] /\ r[i + 1] = ser[(i + 1) + 1]
      BY <1>8, <3>1
    <3> QED
      BY <1>3, <3>1, <3>2
  <2>2. /\ Carries(q[i], s[n + 1 + i], r[i], k)
        /\ r[i + 1] = NextSerial(r[i], q[i].type = "encrypted_reliable")
    BY <1>5, <2>1
  <2>3. ASSUME NeedsKey(q[i]), ck2 = <<>>
        PROVE  \E j \in 1 .. i - 1 : q[j].type = "session_key"
    <3>1. PICK h \in 1 .. (i + 1) - 1 : p[h].type = "session_key"
      BY <1>5, <2>1, <2>3 DEF KeyAfter
    <3>2. h # 1
      BY <1>3, <2>3, <3>1 DEF KeyAfter
    <3>3. h - 1 \in 1 .. i - 1 /\ h - 1 \in 1 .. l /\ (h - 1) + 1 = h
      BY <3>1, <3>2
    <3> QED
      BY <1>3, <3>1, <3>3
  <2> QED
    BY <2>2, <2>3
<1>10. Aligned(r, q, s, n + 1, ser[2], ss, k, ck2)
  BY <1>2, <1>4, <1>8, <1>9 DEF Aligned
<1> QED
  BY <1>4, <1>6, <1>10 DEF InLine, IsNext

\* A sealed frame is of the type that says so, and of the others only what is plain.
LEMMA FrameType ==
  ASSUME NEW m \in Sendable
  PROVE  m.type # "encrypted_reliable" /\ m \in Frame
<1>1. m.type # "encrypted_reliable"
  BY CallTyped DEF Sendable, Plain
<1> QED
  BY <1>1 DEF Frame

\* A message is queued in an open peer, which may change its state at that. It does not go
\* back to a state before the key, and tells the client of a connection only if it has one.
LEMMA DownQueue ==
  ASSUME NEW st, NEW k, NEW o \in OutRecord, NEW v, NEW c, Down(st, k, o, v, c), st # "closed",
         NEW m \in Sendable, NEW f \in Frame, NEW x,
         Queued(o, x, m, f, f.type = "encrypted_reliable"),
         Carries(f, m, o.m_send_serial, k),
         NeedsKey(f) => st \in {"awaiting_connection_request", "connected"},
         NEW st2 \in State,
         st2 = "awaiting_public_key" => st = "awaiting_public_key",
         st2 \notin {"awaiting_public_key", "closed"} => k # <<>>,
         KeyFrame(f, st2, k, c),
         st2 \in {"awaiting_connection_request", "connected"} =>
           f.type = "session_key" \/ st \in {"awaiting_connection_request", "connected"},
         st \in Served \/ f = Plain("connect_success") => st2 \in Served
  PROVE  Down(st2, k, x, v, c)
<1>1. PICK p \in Seq(Frame) : p = Pending(o)
  BY ConcatProperties DEF Pending, OutRecord
<1>2. PICK q : q = Append(p, f)
  OBVIOUS
<1>3. Pending(x) = q
  BY <1>1, <1>2 DEF Queued
<1>4. Len(q) = Len(p) + 1 /\ q[Len(p) + 1] = f /\ \A i \in 1 .. Len(p) : q[i] = p[i]
  BY <1>2, AppendProperties
<1>5. \A i \in 1 .. Len(q) : i \in 1 .. Len(p) \/ i = Len(p) + 1
  BY <1>4
<1>6. v \in View /\ Len(v.got) \in Nat
  BY DEF Down, View
<1>7. \A i \in 1 .. Len(q) : KeyFrame(q[i], st2, k, c)
  <2>1. \A i \in 1 .. Len(p) : KeyFrame(p[i], st, k, c)
    BY <1>1 DEF Down
  <2>2. \A i \in 1 .. Len(p) : KeyFrame(q[i], st2, k, c)
    BY <1>4, <2>1 DEF KeyFrame
  <2> QED
    BY <1>4, <1>5, <2>2
<1>8. v.key # <<>> => v.key = k /\ st2 # "awaiting_public_key"
  BY DEF Down
<1>9. InLine(q, x.sent, Len(v.got), v.serial, x.m_send_serial, k, v.key)
  <2>1. PICK s \in Seq(Sendable) : s = o.sent
    BY DEF OutRecord
  <2>2. PICK n \in Nat : n = Len(v.got)
    BY <1>6
  <2>3. PICK cs, ss, ck : cs = v.serial /\ ss = o.m_send_serial /\ ck = v.key
    OBVIOUS
  <2>4. InLine(p, s, n, cs, ss, k, ck)
    BY <1>1, <2>1, <2>2, <2>3 DEF Down
  <2>5. NeedsKey(f) => KeyComing(p, ck)
    BY <1>1, <2>3 DEF Down
  <2>6. Carries(f, m, ss, k)
    BY <2>3
  <2>7. InLine(Append(p, f), Append(s, m), n, cs, NextSerial(ss, f.type = "encrypted_reliable"), k, ck)
    BY <2>4, <2>5, <2>6, LineGrows
  <2>8. x.sent = Append(s, m) /\ x.m_send_serial = NextSerial(ss, f.type = "encrypted_reliable")
    BY <2>1, <2>3 DEF Queued
  <2> QED
    BY <1>2, <2>2, <2>3, <2>7, <2>8
<1>10. st2 \in {"awaiting_connection_request", "connected"} => KeyComing(q, v.key)
  <2>1. f.type = "session_key" => KeyComing(q, v.key)
    BY <1>4 DEF KeyComing
  <2>2. KeyComing(p, v.key) => KeyComing(q, v.key)
    BY <1>4 DEF KeyComing
  <2>3. st \in {"awaiting_connection_request", "connected"} => KeyComing(p, v.key)
    BY <1>1 DEF Down
  <2> QED
    BY <2>1, <2>2, <2>3
<1>11. Contains(v.got, Plain("connect_success")) => st2 \in Served /\ v.key # <<>>
  BY DEF Down
<1>12. \A i \in 1 .. Len(q) : q[i] = Plain("connect_success") => st2 \in Served
  <2>1. \A i \in 1 .. Len(p) : p[i] = Plain("connect_success") => st \in Served
    BY <1>1 DEF Down
  <2>2. \A i \in 1 .. Len(p) : q[i] = Plain("connect_success") => st2 \in Served
    BY <1>4, <2>1
  <2> QED
    BY <1>4, <1>5, <2>2
<1> QED
  BY <1>3, <1>6, <1>7, <1>8, <1>9, <1>10, <1>11, <1>12 DEF Down

\* A key is drawn before any was given away.
LEMMA DownKey ==
  ASSUME NEW k, NEW k2, NEW o \in OutRecord, NEW v, NEW c,
         Down("awaiting_public_key", k, o, v, c)
  PROVE  Down("awaiting_public_key", k2, o, v, c)
<1>1. PICK p \in Seq(Frame) : p = Pending(o)
  BY ConcatProperties DEF Pending, OutRecord
<1>2. v \in View /\ v.key = <<>>
  BY DEF Down
<1>3. \A i \in 1 .. Len(p) : p[i].type # "session_key"
  BY <1>1 DEF Down, KeyFrame
<1>4. PICK s, n, cs, ss : s = o.sent /\ n = Len(v.got) /\ cs = v.serial /\ ss = o.m_send_serial
  OBVIOUS
<1>5. PICK ser : Aligned(ser, p, s, n, cs, ss, k, <<>>)
  BY <1>1, <1>2, <1>4 DEF Down, InLine
<1>6. \A i \in 1 .. Len(p) : ~ NeedsKey(p[i])
  <2>1. ASSUME NEW i \in 1 .. Len(p), NeedsKey(p[i]) PROVE FALSE
    <3>1. PICK j \in 1 .. i - 1 : p[j].type = "session_key"
      BY <1>5, <2>1 DEF Aligned
    <3>2. j \in 1 .. Len(p)
      OBVIOUS
    <3> QED
      BY <1>3, <3>1, <3>2
  <2> QED
    BY <2>1
<1>7. \A i \in 1 .. Len(p) : Carries(p[i], s[n + i], ser[i], k) => Carries(p[i], s[n + i], ser[i], k2)
  BY <1>6 DEF Carries, NeedsKey
<1>8. Aligned(ser, p, s, n, cs, ss, k2, <<>>)
  BY <1>5, <1>7 DEF Aligned
<1>9. InLine(p, s, n, cs, ss, k2, v.key)
  BY <1>2, <1>8 DEF InLine
<1>10. \A i \in 1 .. Len(p) : KeyFrame(p[i], "awaiting_public_key", k2, c)
  BY <1>3 DEF KeyFrame
<1> QED
  BY <1>1, <1>2, <1>4, <1>9, <1>10 DEF Down

\* Closing changes nothing on the way.
LEMMA DownClose ==
  ASSUME NEW st, NEW k, NEW o \in OutRecord, NEW v, NEW c, Down(st, k, o, v, c)
  PROVE  Down("closed", k, o, v, c)
<1>1. PICK p : p = Pending(o)
  OBVIOUS
<1>2. \A i \in 1 .. Len(p) : KeyFrame(p[i], st, k, c) => KeyFrame(p[i], "closed", k, c)
  BY DEF KeyFrame
<1>3. /\ v \in View /\ \A i \in 1 .. Len(p) : KeyFrame(p[i], st, k, c)
      /\ v.key # <<>> => v.key = k
      /\ st # "closed" \/ o.writes # <<>> =>
           InLine(p, o.sent, Len(v.got), v.serial, o.m_send_serial, k, v.key)
      /\ Contains(v.got, Plain("connect_success")) => v.key # <<>>
  BY <1>1 DEF Down
<1>4. o.writes # <<>> => InLine(p, o.sent, Len(v.got), v.serial, o.m_send_serial, k, v.key)
  BY <1>3
<1> QED
  BY <1>1, <1>2, <1>3, <1>4 DEF Down, Served

\* The SIMPLEBLOBs are bytes from which the clients recover the session key, whatever the
\* padding: the arithmetic of RSA, for the keys of these clients.
KeyExchange ==
  \A c \in Client, k \in SessionKey : \A b \in BlobsOf(c, k) : b \in Seq(Byte) /\ Unwrapped[c][b] = k

\* What the client makes of the next frame is the next message, unchanged.
LEMMA ClientReads ==
  ASSUME KeyExchange, client \in Client, view \in View, NEW k, NEW st, NEW f \in Frame, NEW m \in Sendable,
         KeyFrame(f, st, k, client), Carries(f, m, view.serial, k),
         NeedsKey(f) => view.key # <<>>, view.key # <<>> => view.key = k
  PROVE  LET w == ClientGets(f)
         IN  /\ w \in View
             /\ w.key = IF f.type = "session_key" THEN k ELSE view.key
             /\ w.serial = NextSerial(view.serial, f.type = "encrypted_reliable")
             /\ w.got = Append(view.got, m)
             /\ f.type = "session_key" => k \in SessionKey
<1>1. PICK v \in View : v = view
  OBVIOUS
<1>2. v.got \in Seq(Sendable) /\ v.serial \in 0 .. SerialCount - 1 /\ v.key \in SessionKey \cup {<<>>}
  BY DEF View
<1>3. PICK g \in Seq(Sendable) : g = Append(v.got, m)
  BY <1>2, AppendProperties
<1>4. PICK w : w = ClientGets(f)
  OBVIOUS
<1>5. CASE f.type = "session_key"
  <2>1. f = m /\ k \in SessionKey
    BY <1>5 DEF Carries, KeyFrame
  <2>2. Unwrapped[client][f.body] = k
    BY <1>5 DEF KeyFrame, KeyExchange
  <2>3. w = [v EXCEPT !.key = k, !.got = g]
    BY <1>1, <1>3, <1>4, <1>5, <2>1, <2>2 DEF ClientGets
  <2>4. w \in View /\ w.key = k /\ w.serial = v.serial /\ w.got = g
    BY <2>1, <2>3 DEF View
  <2> QED
    BY <1>1, <1>3, <1>4, <1>5, <2>1, <2>4 DEF NextSerial
<1>6. CASE f.type \notin {"session_key", "encrypted_reliable"}
  <2>1. f = m
    BY <1>6 DEF Carries
  <2>2. w = [v EXCEPT !.got = g]
    BY <1>1, <1>3, <1>4, <1>6, <2>1 DEF ClientGets
  <2>3. w \in View /\ w.key = v.key /\ w.serial = v.serial /\ w.got = g
    BY <2>2 DEF View
  <2> QED
    BY <1>1, <1>3, <1>4, <1>6, <2>3 DEF NextSerial
<1>7. CASE f.type = "encrypted_reliable"
  <2>1. k \in SessionKey /\ f = Sealed(k, v.serial, m) /\ m \in Calls
    BY <1>1, <1>7 DEF Carries
  <2>2. v.key = k /\ v.key # <<>>
    BY <1>1, <1>7 DEF NeedsKey
  <2>3. m \in Inner
    BY <2>1, CallTyped
  <2>4. PICK plain : plain = rc4_apply(Stream[k], f.body)
    OBVIOUS
  <2>5. plain[1] = v.serial /\ Parsed(Tail(plain)) = m
    <3>1. PICK z \in 0 .. SerialCount - 1 : z = v.serial
      BY <1>2
    <3>2. f = Wrapped("encrypted_reliable", k, <<z>>, m)
      BY <2>1, <3>1 DEF Sealed
    <3>3. Reads(k, f, z, m)
      <4>1. PICK ty : ty = "encrypted_reliable"
        OBVIOUS
      <4>2. Reads(k, Wrapped(ty, k, <<z>>, m), z, m)
        BY <2>1, <2>3, UnsealBack, Zenon
      <4> QED
        BY <3>2, <4>1, <4>2
    <3> QED
      BY <2>4, <3>1, <3>3 DEF Reads
  <2>6. PICK z \in 0 .. SerialCount - 1 : z = (v.serial + 1) % SerialCount
    BY <1>2, SerialTyped DEF NextSerial
  <2>7. w = [v EXCEPT !.serial = z, !.got = g]
    BY <1>1, <1>3, <1>4, <1>7, <2>2, <2>4, <2>5, <2>6 DEF ClientGets
  <2>8. w \in View /\ w.key = v.key /\ w.serial = z /\ w.got = g
    BY <2>7 DEF View
  <2> QED
    BY <1>1, <1>3, <1>4, <1>7, <2>6, <2>8 DEF NextSerial
<1> QED
  BY <1>5, <1>6, <1>7

\* The first of the pending frames arrives: it delivers the next message.
LEMMA DownArrives ==
  ASSUME KeyExchange, client \in Client, NEW st, NEW k, NEW o \in OutRecord, NEW x, NEW f \in Frame,
         Down(st, k, o, view, client), o.writes = <<f>>, Advanced(o, x)
  PROVE  LET w == ClientGets(f)
         IN  /\ Down(st, k, x, w, client)
             /\ Len(view.got) < Len(o.sent)
             /\ w.got = Append(view.got, o.sent[Len(view.got) + 1])
<1>1. PICK v \in View : v = view
  BY DEF Down
<1>2. PICK q \in Seq(Frame) : q = o.m_write_queue
  BY DEF OutRecord
<1>3. PICK p : p = <<f>> \o q
  OBVIOUS
<1>4. Pending(o) = p /\ Pending(x) = q /\ x.sent = o.sent /\ x.m_send_serial = o.m_send_serial
  BY <1>2, <1>3 DEF Pending, Advanced
<1>5. Len(p) = Len(q) + 1 /\ p[1] = f /\ \A i \in 1 .. Len(q) : p[i + 1] = q[i]
  <2>1. <<f>> \in Seq(Frame) /\ Len(<<f>>) = 1
    OBVIOUS
  <2> QED
    BY <1>3, <2>1, ConcatProperties
<1>6. PICK s \in Seq(Sendable), n \in Nat : s = o.sent /\ n = Len(v.got)
  BY DEF OutRecord, View
<1>7. PICK cs, ss, ck : cs = v.serial /\ ss = o.m_send_serial /\ ck = v.key
  OBVIOUS
<1>8. InLine(p, s, n, cs, ss, k, ck)
  BY <1>1, <1>4, <1>6, <1>7 DEF Down
<1>9. \A i \in 1 .. Len(p) : KeyFrame(p[i], st, k, client)
  BY <1>4 DEF Down
<1>10. KeyFrame(f, st, k, client)
  BY <1>5, <1>9
<1>11. PICK ck2 : ck2 = IF f.type = "session_key" THEN k ELSE ck
  OBVIOUS
<1>12. f.type = "session_key" => k \in SessionKey /\ k # <<>>
  BY <1>10, StreamAssumption DEF KeyFrame
<1>13. /\ n < Len(s) /\ Carries(f, s[n + 1], cs, k)
       /\ NeedsKey(f) => ck # <<>>
       /\ InLine(q, s, n + 1, NextSerial(cs, f.type = "encrypted_reliable"), ss, k, ck2)
  <2>1. KeyAfter(f, ck, ck2)
    BY <1>11, <1>12 DEF KeyAfter
  <2>2. /\ IsNext(f, s, n, cs, k, ck)
        /\ InLine(q, s, n + 1, NextSerial(cs, f.type = "encrypted_reliable"), ss, k, ck2)
    BY <1>3, <1>8, <2>1, LineMoves
  <2> QED
    BY <2>2 DEF IsNext
<1>14. PICK m \in Sendable : m = s[n + 1]
  BY <1>13
<1>15. PICK w : w = ClientGets(f)
  OBVIOUS
<1>16. v.key # <<>> => v.key = k /\ st # "awaiting_public_key"
  BY <1>1 DEF Down
<1>17. /\ w \in View /\ w.key = ck2 /\ w.serial = NextSerial(cs, f.type = "encrypted_reliable")
       /\ w.got = Append(v.got, m)
  <2>1. /\ Carries(f, m, view.serial, k) /\ view \in View
        /\ NeedsKey(f) => view.key # <<>>
        /\ view.key # <<>> => view.key = k
    BY <1>1, <1>7, <1>13, <1>14, <1>16
  <2> QED
    BY <1>1, <1>7, <1>10, <1>11, <1>15, <2>1, ClientReads
<1>18. \A i \in 1 .. Len(q) : KeyFrame(q[i], st, k, client) /\ i + 1 \in 1 .. Len(p)
  BY <1>5, <1>9
<1>19. w.key # <<>> => w.key = k /\ st # "awaiting_public_key"
  BY <1>7, <1>10, <1>11, <1>16, <1>17 DEF KeyFrame
<1>20. InLine(q, x.sent, Len(w.got), w.serial, x.m_send_serial, k, w.key)
  <2>1. Len(w.got) = n + 1
    BY <1>6, <1>17, AppendProperties DEF View
  <2> QED
    BY <1>4, <1>6, <1>7, <1>13, <1>17, <2>1
<1>21. st \in {"awaiting_connection_request", "connected"} => KeyComing(q, w.key)
  <2>1. st \in {"awaiting_connection_request", "connected"} => KeyComing(p, ck)
    BY <1>1, <1>4, <1>7 DEF Down
  <2>2. KeyComing(p, ck) => KeyComing(q, ck2)
    <3>1. CASE f.type = "session_key"
      BY <1>11, <1>12, <3>1 DEF KeyComing
    <3>2. CASE f.type # "session_key" /\ ck # <<>>
      BY <1>11, <3>2 DEF KeyComing
    <3>3. ASSUME f.type # "session_key", NEW j \in 1 .. Len(p), p[j].type = "session_key"
          PROVE  KeyComing(q, ck2)
      <4>1. j # 1
        BY <1>5, <3>3
      <4>2. j - 1 \in 1 .. Len(q) /\ (j - 1) + 1 = j
        BY <1>5, <4>1
      <4>3. q[j - 1].type = "session_key"
        BY <1>5, <3>3, <4>2
      <4> QED
        BY <4>2, <4>3 DEF KeyComing
    <3> QED
      BY <3>1, <3>2, <3>3 DEF KeyComing
  <2> QED
    BY <1>17, <2>1, <2>2
<1>22. \A i \in 1 .. Len(p) : p[i] = Plain("connect_success") => st \in Served
  BY <1>4 DEF Down
<1>23. \A i \in 1 .. Len(q) : q[i] = Plain("connect_success") => st \in Served
  BY <1>5, <1>18, <1>22
<1>24. Contains(w.got, Plain("connect_success")) => st \in Served /\ w.key # <<>>
  <2>1. CASE m = Plain("connect_success")
    <3>1. m \notin Calls
      BY <2>1, CallTyped DEF Plain
    <3>2. f = m
      BY <1>13, <1>14, <3>1 DEF Carries
    <3>3. f.type # "session_key" /\ NeedsKey(f)
      BY <2>1, <3>2 DEF Plain, NeedsKey
    <3>4. 1 \in 1 .. Len(p)
      BY <1>5
    <3> QED
      BY <1>5, <1>11, <1>13, <1>17, <1>22, <2>1, <3>2, <3>3, <3>4
  <2>2. CASE m # Plain("connect_success") /\ Contains(w.got, Plain("connect_success"))
    <3>1. PICK i \in 1 .. Len(w.got) : w.got[i] = Plain("connect_success")
      BY <2>2 DEF Contains
    <3>2. i \in 1 .. n /\ v.got[i] = w.got[i]
      <4>1. /\ Len(w.got) = n + 1 /\ w.got[n + 1] = m
            /\ \A j \in 1 .. n : w.got[j] = v.got[j]
        BY <1>6, <1>17, AppendProperties DEF View
      <4> QED
        BY <2>2, <3>1, <4>1
    <3>3. Contains(v.got, Plain("connect_success"))
      BY <1>6, <3>1, <3>2 DEF Contains
    <3>4. st \in Served /\ ck # <<>>
      BY <1>1, <1>7, <3>3 DEF Down
    <3> QED
      BY <1>11, <1>12, <1>17, <3>4
  <2> QED
    BY <2>1, <2>2
<1>25. st \notin {"awaiting_public_key", "closed"} => k # <<>>
  BY DEF Down
<1>26. Down(st, k, x, w, client)
  BY <1>4, <1>17, <1>18, <1>19, <1>20, <1>21, <1>23, <1>24, <1>25 DEF Down
<1> QED
  BY <1>1, <1>6, <1>13, <1>14, <1>15, <1>17, <1>26

\* A write that fails takes its frame with it and closes the peer.
LEMMA DownFails ==
  ASSUME NEW st, NEW k, NEW o \in OutRecord, NEW v, NEW c, NEW x, NEW f \in Frame,
         Down(st, k, o, v, c), o.writes = <<f>>, Advanced(o, x), x.writes = <<>>
  PROVE  Down("closed", k, x, v, c)
<1>1. PICK q \in Seq(Frame) : q = o.m_write_queue
  BY DEF OutRecord
<1>2. PICK p : p = <<f>> \o q
  OBVIOUS
<1>3. Pending(o) = p /\ Pending(x) = q
  BY <1>1, <1>2 DEF Pending, Advanced
<1>4. \A i \in 1 .. Len(q) : i + 1 \in 1 .. Len(p) /\ p[i + 1] = q[i]
  <2>1. <<f>> \in Seq(Frame) /\ Len(<<f>>) = 1
    OBVIOUS
  <2> QED
    BY <1>2, <2>1, ConcatProperties
<1>5. \A i \in 1 .. Len(p) : KeyFrame(p[i], st, k, c)
  BY <1>3 DEF Down
<1>6. \A i \in 1 .. Len(q) : KeyFrame(q[i], "closed", k, c)
  BY <1>4, <1>5 DEF KeyFrame
<1>7. /\ v \in View
      /\ v.key # <<>> => v.key = k
      /\ Contains(v.got, Plain("connect_success")) => v.key # <<>>
  BY DEF Down
<1> QED
  BY <1>3, <1>6, <1>7 DEF Down, Served

\* The hint is the first frame.
LEMMA InitDown ==
  ASSUME Init
  PROVE  DownInv
<1>1. PICK o : o = out
  OBVIOUS
<1>2. /\ o.writes = <<Plain("hint")>> /\ o.m_write_queue = <<>>
      /\ o.m_send_serial = 0 /\ o.sent = <<Plain("hint")>>
  BY <1>1 DEF Init
<1>3. Plain("hint") \in Sendable /\ Plain("hint") \in Frame
  BY HandshakeSendable, FrameType
<1>4. Pending(o) = <<Plain("hint")>>
  BY <1>2, <1>3 DEF Pending
<1>5. 0 \in 0 .. SerialCount - 1
  BY StreamAssumption
<1>6. PICK ser : ser = [i \in 1 .. 2 |-> 0]
  OBVIOUS
<1>7. ser \in [1 .. 2 -> 0 .. SerialCount - 1] /\ ser[1] = 0 /\ ser[2] = 0
  BY <1>5, <1>6
<1>8. PICK p : p = <<Plain("hint")>>
  OBVIOUS
<1>9. Len(p) = 1 /\ p[1] = Plain("hint")
  BY <1>8
<1>10. /\ p[1].type = "hint" /\ ~ NeedsKey(p[1])
  BY <1>9 DEF Plain, NeedsKey
<1>11. Aligned(ser, p, p, 0, 0, 0, <<>>, <<>>)
  <2>1. ser \in [1 .. Len(p) + 1 -> 0 .. SerialCount - 1]
    BY <1>7, <1>9
  <2>2. ASSUME NEW i \in 1 .. Len(p)
        PROVE  /\ Carries(p[i], p[0 + i], ser[i], <<>>)
               /\ ser[i + 1] = NextSerial(ser[i], p[i].type = "encrypted_reliable")
               /\ ~ NeedsKey(p[i])
    <3>1. i = 1
      BY <1>9
    <3> QED
      BY <1>7, <1>10, <3>1 DEF Carries, NextSerial
  <2> QED
    BY <1>7, <1>9, <2>1, <2>2 DEF Aligned
<1>12. /\ view \in View /\ view.key = <<>> /\ view.serial = 0 /\ view.got = <<>> /\ Len(view.got) = 0
  BY <1>5 DEF Init, NoView, View
<1>13. InLine(Pending(o), o.sent, Len(view.got), view.serial, o.m_send_serial, <<>>, view.key)
  BY <1>2, <1>4, <1>8, <1>11, <1>12 DEF InLine
<1>14. \A i \in 1 .. Len(Pending(o)) :
         /\ KeyFrame(Pending(o)[i], m_state, m_session_key, client)
         /\ Pending(o)[i] # Plain("connect_success")
  BY <1>4, <1>8, <1>9, <1>10 DEF KeyFrame, Plain
<1>15. ~ Contains(view.got, Plain("connect_success"))
  BY <1>12 DEF Contains
<1>16. m_state = "awaiting_public_key" /\ m_session_key = <<>>
  BY DEF Init
<1> QED
  BY <1>1, <1>12, <1>13, <1>14, <1>15, <1>16 DEF DownInv, Down

\* What the channel promises of a step of the server.
DownStep == Downward!Next \/ UNCHANGED <<out.sent, view.got, ~ Open>>

\* One message after the others, or two.
LEMMA Longer ==
  ASSUME NEW S, NEW s \in Seq(S), NEW a \in S
  PROVE  /\ IsStrictPrefix(s, Append(s, a))
         /\ \A b \in S : IsStrictPrefix(s, Append(Append(s, a), b))
<1>1. ASSUME NEW t \in Seq(S), Len(t) > Len(s), \A i \in 1 .. Len(s) : t[i] = s[i]
      PROVE  IsStrictPrefix(s, t)
  <2>1. SubSeq(s, 1, Len(s)) = SubSeq(t, 1, Len(s))
    <3>1. PICK n \in Nat : n = Len(s)
      OBVIOUS
    <3>2. \A i \in 1 .. n : s[i] \in S /\ t[i] \in S
      BY <1>1, <3>1
    <3>3. SubSeq(s, 1, n) \in Seq(S) /\ SubSeq(t, 1, n) \in Seq(S)
      BY <3>2, SubSeqProperties
    <3>4. Len(SubSeq(s, 1, n)) = n /\ Len(SubSeq(t, 1, n)) = n
      BY <3>1, <1>1
    <3>5. \A i \in 1 .. n : SubSeq(s, 1, n)[i] = SubSeq(t, 1, n)[i]
      BY <3>1, <1>1
    <3> QED
      BY <3>1, <3>3, <3>4, <3>5, SeqEqual
  <2> QED
    BY <1>1, <2>1 DEF IsStrictPrefix, IsPrefix
<1>2. PICK t : t = Append(s, a)
  OBVIOUS
<1>3. t \in Seq(S) /\ Len(t) = Len(s) + 1 /\ Len(t) > Len(s) /\ \A i \in 1 .. Len(s) : t[i] = s[i]
  BY <1>2, AppendProperties
<1>4. ASSUME NEW b \in S PROVE IsStrictPrefix(s, Append(t, b))
  <2>1. PICK u : u = Append(t, b)
    OBVIOUS
  <2>2. u \in Seq(S) /\ Len(u) > Len(s) /\ \A i \in 1 .. Len(s) : u[i] = s[i]
    BY <1>3, <2>1, AppendProperties
  <2>3. IsStrictPrefix(s, u)
    BY <1>1, <2>2
  <2> QED
    BY <2>1, <2>3
<1>5. IsStrictPrefix(s, t)
  BY <1>1, <1>3
<1> QED
  BY <1>2, <1>4, <1>5

\* A message is sent while the peer is open.
LEMMA Sends ==
  ASSUME out \in OutRecord, Open, UNCHANGED view, NEW m \in Sendable, out'.sent = Append(out.sent, m)
  PROVE  DownStep
<1>1. out.sent \in Seq(Sendable)
  BY DEF OutRecord
<1>2. IsStrictPrefix(out.sent, out'.sent)
  BY <1>1, Longer
<1>3. Downward!IsStrictPrefix(out.sent, out'.sent)
  BY <1>2 DEF IsStrictPrefix, IsPrefix, Downward!IsStrictPrefix, Downward!IsPrefix
<1> QED
  BY <1>3 DEF DownStep, Downward!Next, Downward!Send

\* Whatever a message of the client makes the server do.
LEMMA HandlingDown ==
  ASSUME BaseInv, DownInv, Open, Handling, UNCHANGED <<view, client>>
  PROVE  DownInv' /\ DownStep
<1>1. out \in OutRecord /\ Busy(out) /\ client \in Client /\ m_state \in State
  BY DEF BaseInv
<1>2. Down(m_state, m_session_key, out, view, client) /\ m_state # "closed"
  BY DEF DownInv, Open
<1>3. CASE Idle
  <2>1. Down(m_state', m_session_key', out', view', client')
    BY <1>2, <1>3 DEF Idle
  <2> QED
    BY <1>3, <2>1 DEF Idle, DownInv, DownStep, Open
<1>4. CASE Refuses
  <2>1. Down("closed", m_session_key, out, view, client)
    BY <1>1, <1>2, DownClose
  <2>2. DownInv'
    BY <1>4, <2>1 DEF Refuses, DownInv
  <2> QED
    BY <1>4, <2>2 DEF Refuses, DownStep, Open, Downward!Next, Downward!Close
<1>5. CASE DrawsOnly
  <2>1. Down("awaiting_public_key", m_session_key', out, view, client)
    BY <1>1, <1>2, <1>5, DownKey DEF DrawsOnly
  <2>2. DownInv'
    BY <1>5, <2>1 DEF DrawsOnly, DownInv
  <2> QED
    BY <1>5, <2>2 DEF DrawsOnly, DownStep, Open
<1>6. ASSUME NEW cipher, GivesKey(cipher) PROVE DownInv' /\ DownStep
  <2>1. PICK k \in SessionKey : k = m_session_key'
    BY <1>6 DEF GivesKey
  <2>2. PICK m : m = [type |-> "session_key", body |-> cipher]
    OBVIOUS
  <2>3. m \in Sendable
    BY <1>1, <1>6, <2>1, <2>2, HandshakeSendable DEF GivesKey
  <2>4. m \in Frame /\ m.type = "session_key" /\ m.body = cipher
    BY <2>2, <2>3, FrameType
  <2>5. Queued(out, out', m, m, FALSE)
    BY <1>1, <1>6, <2>2, <2>3, SendPlain DEF GivesKey
  <2>6. Down("awaiting_public_key", k, out, view, client)
    BY <1>1, <1>2, <1>6, DownKey DEF GivesKey
  <2>7. Down("awaiting_connection_request", k, out', view, client)
    <3>1. k # <<>>
      BY StreamAssumption
    <3>2. KeyFrame(m, "awaiting_connection_request", k, client)
      BY <1>6, <2>1, <2>4 DEF KeyFrame, GivesKey
    <3>3. Carries(m, m, out.m_send_serial, k) /\ ~ NeedsKey(m)
      BY <2>4 DEF Carries, NeedsKey, Plain
    <3>4. Queued(out, out', m, m, m.type = "encrypted_reliable")
      BY <2>4, <2>5
    <3>5. m # Plain("connect_success")
      BY <2>4 DEF Plain
    <3> QED
      BY <1>1, <2>3, <2>4, <2>6, <3>1, <3>2, <3>3, <3>4, <3>5, DownQueue DEF State, Served
  <2>8. DownInv'
    BY <1>6, <2>1, <2>7 DEF DownInv, GivesKey
  <2> QED
    BY <1>1, <2>3, <2>5, <2>8, Sends DEF Queued
<1>7. CASE TurnsAway
  <2>1. PICK m \in Sendable : m = Plain("version_mismatch")
    BY HandshakeSendable
  <2>2. Queued(out, out', m, m, FALSE)
    BY <1>1, <1>7, <2>1, SendPlain DEF TurnsAway
  <2>3. Down("closed", m_session_key, out', view, client)
    <3>1. m \in Frame /\ m.type = "version_mismatch"
      BY <2>1, FrameType DEF Plain
    <3>2. KeyFrame(m, "closed", m_session_key, client)
      BY <3>1 DEF KeyFrame
    <3>3. Carries(m, m, out.m_send_serial, m_session_key) /\ ~ NeedsKey(m)
      BY <3>1 DEF Carries, NeedsKey, Plain
    <3>4. Queued(out, out', m, m, m.type = "encrypted_reliable")
      BY <2>2, <3>1
    <3> QED
      BY <1>1, <1>2, <3>1, <3>2, <3>3, <3>4, DownQueue DEF State, Served
  <2>4. DownInv'
    BY <1>7, <2>3 DEF DownInv, TurnsAway
  <2> QED
    BY <1>1, <2>2, <2>4, Sends DEF Queued
<1>8. CASE Accepts
  <2>1. PICK m \in Sendable, n \in Sendable :
          m = Plain("connect_success") /\ n = Plain("speed_hack_detector_enabled")
    BY HandshakeSendable
  <2>2. PICK o : Queued(out, o, m, m, FALSE) /\ Queued(o, out', n, n, FALSE)
    BY <1>8, <2>1, AcceptSends
  <2>3. /\ m \in Frame /\ m.type = "connect_success" /\ n \in Frame
        /\ n.type = "speed_hack_detector_enabled" /\ n # Plain("connect_success")
    BY <2>1, FrameType DEF Plain
  <2>4. m_state = "awaiting_connection_request" /\ m_session_key # <<>>
    BY <1>2, <1>8 DEF Accepts, Down
  <2>5. Down("connected", m_session_key, o, view, client)
    <3>1. KeyFrame(m, "connected", m_session_key, client)
      BY <2>3 DEF KeyFrame
    <3>2. Carries(m, m, out.m_send_serial, m_session_key)
      BY <2>3 DEF Carries
    <3>3. Queued(out, o, m, m, m.type = "encrypted_reliable")
      BY <2>2, <2>3
    <3> QED
      BY <1>1, <1>2, <2>3, <2>4, <3>1, <3>2, <3>3, DownQueue DEF State, Served
  <2>6. Down("connected", m_session_key, out', view, client)
    <3>1. KeyFrame(n, "connected", m_session_key, client)
      BY <2>3 DEF KeyFrame
    <3>2. Carries(n, n, o.m_send_serial, m_session_key)
      BY <2>3 DEF Carries
    <3>3. Queued(o, out', n, n, n.type = "encrypted_reliable") /\ o \in OutRecord
      BY <2>2, <2>3 DEF Queued
    <3> QED
      BY <2>3, <2>4, <2>5, <3>1, <3>2, <3>3, DownQueue DEF State, Served
  <2>7. DownInv'
    BY <1>8, <2>6 DEF DownInv, Accepts
  <2>8. out'.sent = Append(Append(out.sent, m), n)
    BY <2>2 DEF Queued
  <2>9. IsStrictPrefix(out.sent, out'.sent)
    <3>1. out.sent \in Seq(Sendable)
      BY <1>1 DEF OutRecord
    <3> QED
      BY <2>8, <3>1, Longer
  <2>10. Downward!IsStrictPrefix(out.sent, out'.sent)
    BY <2>9 DEF IsStrictPrefix, IsPrefix, Downward!IsStrictPrefix, Downward!IsPrefix
  <2> QED
    BY <2>7, <2>10 DEF DownStep, Downward!Next, Downward!Send
<1> QED
  BY <1>3, <1>4, <1>5, <1>6, <1>7, <1>8 DEF Handling

\* A write that ended was the first of the pending frames.
LEMMA FirstWrite ==
  ASSUME BaseInv, NEW i \in DOMAIN out.writes
  PROVE  \E f \in Frame : f = out.writes[1] /\ out.writes = <<f>>
<1>1. out.writes = <<out.writes[1]>> /\ out.writes[1] \in Frame
  BY OnlyWrite
<1> QED
  BY <1>1

\* A frame that was written is the next message.
LEMMA WriteDoneDown ==
  ASSUME KeyExchange, BaseInv, DownInv, WriteDone
  PROVE  DownInv' /\ DownStep
<1>1. Advanced(out, out') /\ view' = ClientGets(out.writes[1])
  BY WriteDoneBase
<1>2. PICK i \in DOMAIN out.writes : TRUE
  BY DEF WriteDone
<1>3. PICK f \in Frame : f = out.writes[1] /\ out.writes = <<f>>
  BY <1>2, FirstWrite
<1>4. out \in OutRecord /\ client \in Client /\ Down(m_state, m_session_key, out, view, client)
  BY DEF BaseInv, DownInv
<1>5. UNCHANGED <<m_state, m_session_key, client>>
  BY DEF WriteDone, in_vars
<1>6. PICK w : w = ClientGets(f)
  OBVIOUS
<1>7. /\ Down(m_state, m_session_key, out', w, client)
      /\ Len(view.got) < Len(out.sent)
      /\ w.got = Append(view.got, out.sent[Len(view.got) + 1])
  BY <1>1, <1>3, <1>4, <1>6, DownArrives
<1>8. view' = w
  BY <1>1, <1>3, <1>6
<1>9. DownInv'
  BY <1>5, <1>7, <1>8 DEF DownInv
<1>10. out'.sent = out.sent
  BY <1>1 DEF Advanced
<1>11. view'.got = Append(view.got, out.sent[Len(view.got) + 1])
  BY <1>7, <1>8
<1> QED
  BY <1>5, <1>7, <1>9, <1>10, <1>11 DEF DownStep, Downward!Next, Downward!Deliver, Open

\* A write that fails closes the channel.
LEMMA WriteFailsDown ==
  ASSUME BaseInv, DownInv, WriteFails
  PROVE  DownInv' /\ DownStep
<1>1. Advanced(out, out') /\ out'.writes = <<>>
  BY WriteFailsBase
<1>2. PICK i \in DOMAIN out.writes : TRUE
  BY DEF WriteFails
<1>3. PICK f \in Frame : out.writes = <<f>>
  BY <1>2, FirstWrite
<1>4. out \in OutRecord /\ Down(m_state, m_session_key, out, view, client)
  BY DEF BaseInv, DownInv
<1>5. m_state' = "closed" /\ UNCHANGED <<m_session_key, view, client>>
  BY DEF WriteFails, in_vars
<1>6. Down("closed", m_session_key, out', view, client)
  BY <1>1, <1>3, <1>4, DownFails
<1>7. DownInv'
  BY <1>5, <1>6 DEF DownInv
<1>8. out'.sent = out.sent
  BY <1>1 DEF Advanced
<1> QED
  BY <1>5, <1>7, <1>8 DEF DownStep, Downward!Next, Downward!Close, Open

\* The RMIs of the sinks, plain or sealed.
LEMMA SinkDown ==
  ASSUME BaseInv, DownInv, NEW encrypt \in BOOLEAN, NEW closes \in BOOLEAN, SinkSends(encrypt, closes)
  PROVE  DownInv' /\ DownStep
<1>1. PICK m \in Calls, e \in BOOLEAN :
        /\ e = (encrypt /\ m_session_key # <<>>)
        /\ Queued(out, out', m, FrameOf(out, m, e), e)
  BY SinkBase
<1>2. m \in Sendable /\ m \in Frame /\ m.type = "rmi"
  BY CallTyped, FrameType DEF Sendable
<1>3. out \in OutRecord /\ Down(m_state, m_session_key, out, view, client)
  BY DEF BaseInv, DownInv
<1>4. m_state = "connected" /\ Open
  BY DEF SinkSends, Open
<1>5. PICK k \in SessionKey : k = m_session_key
  BY <1>3, <1>4 DEF Down, BaseInv
<1>6. PICK z \in 0 .. SerialCount - 1 : z = out.m_send_serial
  BY <1>3 DEF OutRecord
<1>7. PICK f : f = FrameOf(out, m, e)
  OBVIOUS
<1>8. /\ f \in Frame /\ Carries(f, m, z, k) /\ e = (f.type = "encrypted_reliable")
      /\ f.type # "session_key" /\ f # Plain("connect_success")
  <2>1. CASE e
    <3>1. f = Sealed(k, z, m)
      BY <1>5, <1>6, <1>7, <2>1 DEF FrameOf
    <3>2. f.type = "encrypted_reliable"
      BY <3>1 DEF Sealed, Wrapped
    <3>3. f \in Frame
      BY <1>2, <3>1 DEF Frame
    <3>4. Carries(f, m, z, k)
      BY <1>1, <1>5, <3>1, <3>2 DEF Carries
    <3>5. f # Plain("connect_success")
      BY <3>2 DEF Plain
    <3> QED
      BY <2>1, <3>2, <3>3, <3>4, <3>5
  <2>2. CASE ~ e
    <3>1. f = m
      BY <1>7, <2>2 DEF FrameOf
    <3> QED
      BY <1>2, <2>2, <3>1 DEF Carries, Plain
  <2> QED
    BY <2>1, <2>2
<1>9. Down(m_state', m_session_key, out', view, client)
  <2>1. m_state' \in {"connected", "closed"}
    BY <1>4 DEF SinkSends
  <2>2. PICK st2 \in State : st2 = m_state' /\ st2 \in {"connected", "closed"}
    BY <2>1 DEF State
  <2>3. KeyFrame(f, st2, k, client)
    BY <1>8 DEF KeyFrame
  <2>4. Queued(out, out', m, f, f.type = "encrypted_reliable")
    BY <1>1, <1>7, <1>8
  <2>5. k # <<>>
    BY StreamAssumption
  <2>6. Carries(f, m, out.m_send_serial, k) /\ Down("connected", k, out, view, client)
    BY <1>3, <1>4, <1>5, <1>6, <1>8
  <2>7. Down(st2, k, out', view, client)
    BY <1>2, <1>3, <1>8, <2>2, <2>3, <2>4, <2>5, <2>6, DownQueue DEF Served
  <2> QED
    BY <1>5, <2>2, <2>7
<1>10. UNCHANGED <<m_session_key, view, client>>
  BY DEF SinkSends, in_vars
<1>11. DownInv'
  BY <1>9, <1>10 DEF DownInv
<1> QED
  BY <1>1, <1>2, <1>3, <1>4, <1>10, <1>11, Sends DEF Queued

\* Every step keeps the frames in line and is one the channel allows.
LEMMA NextDown ==
  ASSUME KeyExchange, BaseInv, DownInv, [Next]_vars
  PROVE  DownInv' /\ DownStep
<1>1. CASE Receive
  <2>1. Handling /\ Open /\ UNCHANGED <<view, client>>
    BY <1>1, PayloadIs DEF Receive
  <2> QED
    BY <2>1, HandlingDown
<1>2. CASE close
  <2>1. Down("closed", m_session_key, out, view, client)
    BY DownClose DEF BaseInv, DownInv
  <2>2. DownInv'
    BY <1>2, <2>1 DEF close, in_vars, DownInv
  <2> QED
    BY <1>2, <2>2 DEF close, in_vars, DownStep, Downward!Next, Downward!Close, Open
<1>3. CASE UNCHANGED <<m_state, m_session_key, out, view, client>>
  <2>1. Down(m_state', m_session_key', out', view', client')
    BY <1>3 DEF DownInv
  <2> QED
    BY <1>3, <2>1 DEF DownInv, DownStep, Open
<1>4. ASSUME NEW type, ClientShakes(type) \/ ClientCalls(type) \/ ClientWraps(type)
      PROVE  UNCHANGED <<m_state, m_session_key, out, view, client>>
  BY <1>4 DEF ClientShakes, ClientCalls, ClientWraps, ClientStep
<1>5. CASE UNCHANGED vars
  BY <1>3, <1>5 DEF vars
<1> QED
  BY <1>1, <1>2, <1>3, <1>4, <1>5, WriteDoneDown, WriteFailsDown, SinkDown DEF Next

\* What the theorems about the way down rest on.
THEOREM DownInvariant == KeyExchange => (Spec => [](BaseInv /\ DownInv))
<1> SUFFICES ASSUME KeyExchange PROVE Spec => [](BaseInv /\ DownInv)
  OBVIOUS
<1>1. Init => BaseInv /\ DownInv
  BY InitBase, InitDown
<1>2. (BaseInv /\ DownInv) /\ [Next]_vars => (BaseInv /\ DownInv)'
  BY NextKeepsBase, NextDown
<1> QED
  BY <1>1, <1>2, PTL DEF Spec

\* A client that was sent a session key has the one the server uses, if RSA is right: the
\* key is never drawn again once it was given away, whatever the client sends and when.
THEOREM KeysStayEqual == KeyExchange => (Spec => []KeysAgree)
<1> SUFFICES ASSUME KeyExchange PROVE Spec => []KeysAgree
  OBVIOUS
<1>1. BaseInv /\ DownInv => KeysAgree
  BY DEF DownInv, Down, KeysAgree
<1>2. Spec => [](BaseInv /\ DownInv)
  BY DownInvariant
<1> QED
  BY <1>1, <1>2, PTL

\* The sending side of the peer implements the channel: what send was called with reaches
\* the client once, unchanged and in order, through the write queue, RC4 and the serials,
\* plain and encrypted messages mixed.
THEOREM ServerToClientHolds == KeyExchange => (Spec => ServerToClient)
<1> SUFFICES ASSUME KeyExchange PROVE Spec => ServerToClient
  OBVIOUS
<1>1. Init => Downward!Init
  BY DEF Init, Downward!Init, NoView, Open
<1>2. (BaseInv /\ DownInv) /\ [Next]_vars => [Downward!Next]_<<out.sent, view.got, ~ Open>>
  BY NextDown DEF DownStep
<1>3. Spec => [](BaseInv /\ DownInv)
  BY DownInvariant
<1> QED
  BY <1>1, <1>2, <1>3, PTL DEF Spec, ServerToClient, Downward!Spec

-----------------------------------------------------------------------------
(* The way up *)

\* A frame sent behind the others.
LEMMA UpGrows ==
  ASSUME NEW b \in Seq(Message), NEW st, NEW k, NEW rs, NEW cs, NEW calls \in Seq(Calls), NEW n,
         Upcoming(b, st, k, rs, cs, calls, n),
         NEW f \in Message, NEW more \in Seq(Calls), Len(calls) <= Len(more),
         \A i \in 1 .. Len(calls) : more[i] = calls[i],
         Item(f, cs, Len(calls), Len(more), st, k, more)
  PROVE  Upcoming(Append(b, f), st, k, rs, NextSerial(cs, f.type = "encrypted_reliable"), more, n)
<1>1. PICK ser, at : Carried(ser, at, b, st, k, rs, cs, calls, n)
  BY DEF Upcoming
<1>2. PICK l \in Nat : l = Len(b)
  OBVIOUS
<1>3. PICK q : q = Append(b, f)
  OBVIOUS
<1>4. Len(q) = l + 1 /\ q[l + 1] = f /\ \A i \in 1 .. l : q[i] = b[i]
  BY <1>2, <1>3, AppendProperties
<1>5. /\ ser \in [1 .. l + 1 -> 0 .. SerialCount - 1] /\ at \in [1 .. l + 1 -> 0 .. Len(calls)]
      /\ ser[1] = rs /\ ser[l + 1] = cs /\ at[1] = n /\ at[l + 1] = Len(calls)
  BY <1>1, <1>2 DEF Carried
<1>6. \A i \in 1 .. l :
        /\ ser[i + 1] = NextSerial(ser[i], b[i].type = "encrypted_reliable")
        /\ Item(b[i], ser[i], at[i], at[i + 1], st, k, calls)
  BY <1>1, <1>2 DEF Carried
<1>7. PICK e \in BOOLEAN : e = (f.type = "encrypted_reliable")
  OBVIOUS
<1>8. PICK z \in 0 .. SerialCount - 1 : z = NextSerial(cs, e)
  <2>1. cs \in 0 .. SerialCount - 1
    BY <1>5
  <2> QED
    BY <2>1, SerialTyped
<1>9. PICK x \in Nat, y \in Nat : x = Len(calls) /\ y = Len(more) /\ x <= y
  OBVIOUS
<1>10. PICK r : r = [i \in 1 .. l + 2 |-> IF i = l + 2 THEN z ELSE ser[i]]
  OBVIOUS
<1>11. PICK t : t = [i \in 1 .. l + 2 |-> IF i = l + 2 THEN y ELSE at[i]]
  OBVIOUS
<1>12. \A i \in 1 .. l + 2 : i # l + 2 => i \in 1 .. l + 1
  OBVIOUS
<1>13. r \in [1 .. l + 2 -> 0 .. SerialCount - 1] /\ r[l + 2] = z /\ \A i \in 1 .. l + 1 : r[i] = ser[i]
  BY <1>5, <1>10, <1>12
<1>14. t \in [1 .. l + 2 -> 0 .. y] /\ t[l + 2] = y /\ \A i \in 1 .. l + 1 : t[i] = at[i]
  <2>1. at \in [1 .. l + 1 -> 0 .. x] /\ \A j \in 0 .. x : j \in 0 .. y
    BY <1>5, <1>9
  <2> QED
    BY <1>9, <1>11, <1>12, <2>1
<1>15. ASSUME NEW i \in 1 .. l + 1
       PROVE  /\ r[i + 1] = NextSerial(r[i], q[i].type = "encrypted_reliable")
              /\ Item(q[i], r[i], t[i], t[i + 1], st, k, more)
  <2>1. CASE i = l + 1
    <3>1. q[i] = f /\ r[i] = cs /\ r[i + 1] = z /\ t[i] = Len(calls) /\ t[i + 1] = Len(more)
      BY <1>4, <1>5, <1>9, <1>13, <1>14, <2>1
    <3> QED
      BY <1>7, <1>8, <3>1
  <2>2. CASE i # l + 1
    <3>1. i \in 1 .. l /\ i \in 1 .. l + 1 /\ i + 1 \in 1 .. l + 1
      BY <2>2
    <3>2. q[i] = b[i] /\ r[i] = ser[i] /\ r[i + 1] = ser[i + 1] /\ t[i] = at[i] /\ t[i + 1] = at[i + 1]
      BY <1>4, <1>13, <1>14, <3>1
    <3>3. at[i] \in 0 .. x /\ at[i + 1] \in 0 .. x
      BY <1>5, <1>9, <3>1
    <3>4. at[i + 1] = at[i] + 1 => more[at[i] + 1] = calls[at[i] + 1]
      BY <1>9, <3>3
    <3>5. Item(b[i], ser[i], at[i], at[i + 1], st, k, calls)
      BY <1>6, <3>1
    <3>6. Item(b[i], ser[i], at[i], at[i + 1], st, k, more)
      BY <3>4, <3>5 DEF Item
    <3> QED
      BY <1>6, <3>1, <3>2, <3>6
  <2> QED
    BY <2>1, <2>2
<1>16. Carried(r, t, q, st, k, rs, z, more, n)
  <2>1. r[1] = rs /\ t[1] = n
    BY <1>5, <1>13, <1>14
  <2>2. (l + 1) + 1 = l + 2
    OBVIOUS
  <2>3. /\ r \in [1 .. Len(q) + 1 -> 0 .. SerialCount - 1] /\ r[Len(q) + 1] = z
        /\ t \in [1 .. Len(q) + 1 -> 0 .. Len(more)] /\ t[Len(q) + 1] = Len(more)
    BY <1>4, <1>9, <1>13, <1>14, <2>2, Zenon
  <2> QED
    BY <1>4, <1>15, <2>1, <2>3 DEF Carried
<1> QED
  BY <1>3, <1>7, <1>8, <1>16 DEF Upcoming

\* The first frame is read, and the others follow it.
LEMMA UpMoves ==
  ASSUME NEW b \in Seq(Message), b # <<>>, NEW st, NEW k, NEW rs, NEW cs,
         NEW calls \in Seq(Calls), NEW n, Upcoming(b, st, k, rs, cs, calls, n)
  PROVE  \E a \in 0 .. Len(calls) :
           /\ Item(Head(b), rs, n, a, st, k, calls)
           /\ Upcoming(Tail(b), st, k, NextSerial(rs, Head(b).type = "encrypted_reliable"), cs, calls, a)
<1>1. PICK ser, at : Carried(ser, at, b, st, k, rs, cs, calls, n)
  BY DEF Upcoming
<1>2. PICK q \in Seq(Message), f \in Message : q = Tail(b) /\ f = Head(b)
  BY HeadTailProperties
<1>3. PICK l \in Nat : l = Len(q)
  OBVIOUS
<1>4. Len(b) = l + 1 /\ b[1] = f /\ \A i \in 1 .. l : b[i + 1] = q[i]
  BY <1>2, <1>3
<1>5. Len(b) + 1 = l + 2
  BY <1>4
<1>6. /\ ser \in [1 .. l + 2 -> 0 .. SerialCount - 1] /\ at \in [1 .. l + 2 -> 0 .. Len(calls)]
      /\ ser[1] = rs /\ ser[l + 2] = cs /\ at[1] = n /\ at[l + 2] = Len(calls)
  BY <1>1, <1>5, Zenon DEF Carried
<1>7. \A i \in 1 .. l + 1 :
        /\ ser[i + 1] = NextSerial(ser[i], b[i].type = "encrypted_reliable")
        /\ Item(b[i], ser[i], at[i], at[i + 1], st, k, calls)
  BY <1>1, <1>4 DEF Carried
<1>8. PICK r : r = [i \in 1 .. l + 1 |-> ser[i + 1]]
  OBVIOUS
<1>9. PICK t : t = [i \in 1 .. l + 1 |-> at[i + 1]]
  OBVIOUS
<1>10. /\ r \in [1 .. l + 1 -> 0 .. SerialCount - 1] /\ \A i \in 1 .. l + 1 : r[i] = ser[i + 1]
       /\ r[1] = ser[2] /\ r[l + 1] = cs
  BY <1>6, <1>8
<1>11. /\ t \in [1 .. l + 1 -> 0 .. Len(calls)] /\ \A i \in 1 .. l + 1 : t[i] = at[i + 1]
       /\ t[1] = at[2] /\ t[l + 1] = Len(calls)
  <2>1. PICK x \in Nat : x = Len(calls)
    OBVIOUS
  <2>2. at \in [1 .. l + 2 -> 0 .. x] /\ at[l + 2] = x
    BY <1>6, <2>1
  <2>3. /\ t \in [1 .. l + 1 -> 0 .. x] /\ \A i \in 1 .. l + 1 : t[i] = at[i + 1]
        /\ t[1] = at[2] /\ t[l + 1] = x
    BY <1>9, <2>2
  <2> QED
    BY <2>1, <2>3
<1>12. ASSUME NEW i \in 1 .. l
       PROVE  /\ r[i + 1] = NextSerial(r[i], q[i].type = "encrypted_reliable")
              /\ Item(q[i], r[i], t[i], t[i + 1], st, k, calls)
  <2>1. i \in 1 .. l + 1 /\ i + 1 \in 1 .. l + 1
    OBVIOUS
  <2>2. /\ r[i] = ser[i + 1] /\ r[i + 1] = ser[(i + 1) + 1]
        /\ t[i] = at[i + 1] /\ t[i + 1] = at[(i + 1) + 1] /\ q[i] = b[i + 1]
    BY <1>4, <1>10, <1>11, <2>1
  <2> QED
    BY <1>7, <2>1, <2>2
<1>13. Carried(r, t, q, st, k, ser[2], cs, calls, at[2])
  BY <1>3, <1>10, <1>11, <1>12 DEF Carried
<1>14. /\ ser[2] = NextSerial(rs, f.type = "encrypted_reliable")
       /\ Item(f, rs, n, at[2], st, k, calls) /\ at[2] \in 0 .. Len(calls)
  BY <1>4, <1>6, <1>7
<1> QED
  BY <1>2, <1>13, <1>14 DEF Upcoming

\* The peer moves on: a key that was given away stays, and so does being served.
LEMMA UpState ==
  ASSUME NEW b, NEW st, NEW k, NEW rs, NEW cs, NEW calls, NEW n,
         Upcoming(b, st, k, rs, cs, calls, n), NEW st2, NEW k2,
         st # "awaiting_public_key" => st2 # "awaiting_public_key" /\ k2 = k,
         st \in Served => st2 \in Served
  PROVE  Upcoming(b, st2, k2, rs, cs, calls, n)
<1>1. PICK ser, at : Carried(ser, at, b, st, k, rs, cs, calls, n)
  BY DEF Upcoming
<1>2. \A f, m, s : Holds(f, m, s, st, k) => Holds(f, m, s, st2, k2)
  BY DEF Holds
<1>3. \A f, s, a, z : Item(f, s, a, z, st, k, calls) => Item(f, s, a, z, st2, k2, calls)
  BY <1>2 DEF Item
<1>4. Carried(ser, at, b, st2, k2, rs, cs, calls, n)
  BY <1>1, <1>3 DEF Carried
<1> QED
  BY <1>4 DEF Upcoming

\* process_payload finds the message in the frame and dispatches it; the serial is the one
\* it expects.
LEMMA PayloadHolds ==
  ASSUME BaseInv, NEW f, NEW m, process_payload(f),
         Holds(f, m, m_recv_serial, m_state, m_session_key)
  PROVE  /\ Dispatch(m)
         /\ m_recv_serial' = NextSerial(m_recv_serial, f.type = "encrypted_reliable")
<1>1. PICK z \in 0 .. SerialCount - 1 : z = m_recv_serial
  BY DEF BaseInv
<1>2. CASE f = m /\ m.type \in {"public_key", "connection_request", "rmi"}
  BY <1>2 DEF process_payload, NextSerial
<1>3. ASSUME m_session_key \in SessionKey, m \in Inner
      PROVE  /\ f = Wrapped("encrypted_reliable", m_session_key, <<z>>, m) =>
                  /\ Dispatch(m)
                  /\ m_recv_serial' = NextSerial(m_recv_serial, f.type = "encrypted_reliable")
             /\ f = Wrapped("encrypted_unreliable", m_session_key, <<>>, m) =>
                  /\ Dispatch(m)
                  /\ m_recv_serial' = NextSerial(m_recv_serial, f.type = "encrypted_reliable")
  <2>1. PICK k \in SessionKey : k = m_session_key
    BY <1>3
  <2>2. k # <<>>
    BY StreamAssumption
  <2>3. PICK ty, tu : ty = "encrypted_reliable" /\ tu = "encrypted_unreliable"
    OBVIOUS
  <2>4. PICK plain : plain = rc4_apply(Stream[k], f.body)
    OBVIOUS
  <2>5. ASSUME f = Wrapped("encrypted_reliable", m_session_key, <<z>>, m)
        PROVE  /\ Dispatch(m)
               /\ m_recv_serial' = NextSerial(m_recv_serial, f.type = "encrypted_reliable")
    <3>1. Reads(k, Wrapped(ty, k, <<z>>, m), z, m)
      BY <1>3, UnsealBack, Zenon
    <3>2. f = Wrapped(ty, k, <<z>>, m)
      BY <2>1, <2>3, <2>5
    <3>3. plain[1] = z /\ Parsed(Tail(plain)) = m
      BY <2>4, <3>1, <3>2 DEF Reads
    <3>4. f.type = "encrypted_reliable"
      BY <2>5 DEF Wrapped
    <3>5. on_encrypted(f, TRUE)
      BY <3>4 DEF process_payload
    <3>6. m_recv_serial' = NextSerial(m_recv_serial, TRUE) /\ Dispatch(m)
      BY <1>1, <2>1, <2>2, <2>4, <3>3, <3>5 DEF on_encrypted
    <3> QED
      BY <3>4, <3>6
  <2>6. ASSUME f = Wrapped("encrypted_unreliable", m_session_key, <<>>, m)
        PROVE  /\ Dispatch(m)
               /\ m_recv_serial' = NextSerial(m_recv_serial, f.type = "encrypted_reliable")
    <3>1. Parsed(rc4_apply(Stream[k], Wrapped(tu, k, <<>>, m).body)) = m
      BY <1>3, UnsealPlainBack, Zenon
    <3>2. f = Wrapped(tu, k, <<>>, m)
      BY <2>1, <2>3, <2>6
    <3>3. Parsed(plain) = m
      BY <2>4, <3>1, <3>2
    <3>4. f.type = "encrypted_unreliable"
      BY <2>6 DEF Wrapped
    <3>5. on_encrypted(f, FALSE)
      BY <3>4 DEF process_payload
    <3>6. m_recv_serial' = NextSerial(m_recv_serial, FALSE) /\ Dispatch(m)
      BY <2>1, <2>2, <2>4, <3>3, <3>5 DEF on_encrypted
    <3>7. (f.type = "encrypted_reliable") = FALSE
      BY <3>4
    <3> QED
      BY <3>6, <3>7
  <2> QED
    BY <2>5, <2>6
<1> QED
  BY <1>1, <1>2, <1>3 DEF Holds

\* Only RMIs are handled, once each, by a connected peer, and change nothing else here.
LEMMA DispatchHandles ==
  ASSUME NEW m, Dispatch(m)
  PROVE  IF m.type = "rmi"
         THEN /\ UNCHANGED <<m_state, m_session_key>>
              /\ m_state = "connected" => handled' = Append(handled, m)
         ELSE UNCHANGED handled
<1>1. CASE m.type = "rmi"
  BY <1>1 DEF Dispatch, on_rmi
<1>2. CASE m.type # "rmi"
  BY <1>2 DEF Dispatch, on_public_key, on_connection_request
<1> QED
  BY <1>1, <1>2

\* The peer only moves on.
LEMMA HandlingMoves ==
  ASSUME BaseInv, Open, Handling
  PROVE  /\ m_state # "awaiting_public_key" =>
              m_state' # "awaiting_public_key" /\ m_session_key' = m_session_key
         /\ m_state \in Served => m_state' \in Served
BY DEF Handling, Idle, Refuses, DrawsOnly, GivesKey, TurnsAway, Accepts, Served

\* What the channel promises of a step on the way up.
UpStep == Upward!Next \/ UNCHANGED <<issued, handled, ~ Open>>

\* A message is read: if it is an RMI it is the next one.
LEMMA ReceiveUp ==
  ASSUME BaseInv, UpInv, Receive
  PROVE  UpInv' /\ UpStep
<1>1. /\ Open /\ inbox # <<>> /\ inbox' = Tail(inbox) /\ process_payload(Head(inbox))
      /\ UNCHANGED <<c_serial, issued>>
  BY DEF Receive
<1>2. inbox \in Seq(Message) /\ issued \in Seq(Calls) /\ handled \in Seq(Calls)
  BY DEF UpInv, BaseInv
<1>3. PICK st, k, rs, cs, n : /\ st = m_state /\ k = m_session_key /\ rs = m_recv_serial
                              /\ cs = c_serial /\ n = Len(handled)
  OBVIOUS
<1>4. Upcoming(inbox, st, k, rs, cs, issued, n)
  BY <1>1, <1>3 DEF UpInv
<1>5. PICK f : f = Head(inbox)
  OBVIOUS
<1>6. PICK a \in 0 .. Len(issued) :
        /\ Item(f, rs, n, a, st, k, issued)
        /\ Upcoming(Tail(inbox), st, k, NextSerial(rs, f.type = "encrypted_reliable"), cs, issued, a)
  <2>1. PICK b \in Seq(Message), c \in Seq(Calls) : b = inbox /\ c = issued
    BY <1>2
  <2>2. b # <<>> /\ Upcoming(b, st, k, rs, cs, c, n)
    BY <1>1, <1>4, <2>1
  <2>3. \E x \in 0 .. Len(c) :
          /\ Item(Head(b), rs, n, x, st, k, c)
          /\ Upcoming(Tail(b), st, k, NextSerial(rs, Head(b).type = "encrypted_reliable"), cs, c, x)
    BY <2>2, UpMoves
  <2> QED
    BY <1>5, <2>1, <2>3
<1>7. PICK m : /\ Holds(f, m, rs, st, k)
               /\ IF m.type = "rmi" THEN st \in Served /\ a = n + 1 /\ m = issued[n + 1] ELSE a = n
  BY <1>6 DEF Item
<1>8. /\ Dispatch(m)
      /\ m_recv_serial' = NextSerial(rs, f.type = "encrypted_reliable")
  BY <1>1, <1>3, <1>5, <1>7, PayloadHolds
<1>9. Handling
  BY <1>8, DispatchIs
<1>10. Upcoming(inbox', m_state', m_session_key', m_recv_serial', c_serial', issued', a)
  <2>1. PICK st2, k2, b, rs2 :
          st2 = m_state' /\ k2 = m_session_key' /\ b = inbox' /\ rs2 = m_recv_serial'
    OBVIOUS
  <2>2. Upcoming(b, st, k, rs2, cs, issued, a)
    BY <1>1, <1>6, <1>8, <2>1
  <2>3. /\ st # "awaiting_public_key" => st2 # "awaiting_public_key" /\ k2 = k
        /\ st \in Served => st2 \in Served
    BY <1>1, <1>3, <1>9, <2>1, HandlingMoves
  <2>4. Upcoming(b, st2, k2, rs2, cs, issued, a)
    BY <2>2, <2>3, UpState
  <2> QED
    BY <1>1, <1>3, <2>1, <2>4
<1>11. inbox' \in Seq(Message)
  BY <1>1, <1>2, HeadTailProperties
<1>12. CASE m.type = "rmi"
  <2>1. m_state = "connected" /\ n \in Nat /\ n < Len(issued) /\ a = n + 1 /\ m = issued[n + 1]
    BY <1>1, <1>2, <1>3, <1>6, <1>7, <1>12 DEF Served, Open
  <2>2. UNCHANGED m_state /\ handled' = Append(handled, m)
    BY <1>8, <1>12, <2>1, DispatchHandles
  <2>3. m \in Calls
    BY <1>2, <2>1
  <2>4. handled' \in Seq(Calls) /\ Len(handled') = a
    BY <1>2, <1>3, <2>1, <2>2, <2>3, AppendProperties
  <2>5. UpInv'
    BY <1>1, <1>10, <1>11, <2>4 DEF UpInv
  <2>6. Upward!Deliver
    BY <1>1, <1>3, <2>1, <2>2 DEF Upward!Deliver, Open
  <2> QED
    BY <2>5, <2>6 DEF UpStep, Upward!Next
<1>13. CASE m.type # "rmi"
  <2>1. UNCHANGED handled /\ a = n
    BY <1>7, <1>8, <1>13, DispatchHandles
  <2>2. UpInv'
    BY <1>1, <1>2, <1>3, <1>10, <1>11, <2>1 DEF UpInv
  <2>3. UpStep
    BY <1>1, <2>1 DEF UpStep, Upward!Next, Upward!Close, Open
  <2> QED
    BY <2>2, <2>3
<1> QED
  BY <1>12, <1>13

\* A message of the client as it goes into an encrypted one, or as it is.
LEMMA UpFrames ==
  ASSUME NEW k \in SessionKey, NEW m \in Inner, NEW s \in 0 .. SerialCount - 1
  PROVE  /\ m \in Message
         /\ Wrapped("encrypted_reliable", k, <<s>>, m) \in Message
         /\ Wrapped("encrypted_reliable", k, <<s>>, m).type = "encrypted_reliable"
         /\ Len(Wrapped("encrypted_reliable", k, <<s>>, m).body) = Len(m.body) + 2
         /\ Wrapped("encrypted_unreliable", k, <<>>, m) \in Message
         /\ Wrapped("encrypted_unreliable", k, <<>>, m).type = "encrypted_unreliable"
<1>1. m \in Message
  BY DEF Inner, Message, MessageType
<1>2. PICK ty, tu : ty = "encrypted_reliable" /\ tu = "encrypted_unreliable"
  OBVIOUS
<1>3. PICK f, g : f = Wrapped(ty, k, <<s>>, m) /\ g = Wrapped(tu, k, <<>>, m)
  OBVIOUS
<1>4. IsFrame(Wrapped(ty, k, <<s>>, m), ty, Len(m.body) + 2)
  BY UnsealBack, Zenon
<1>5. IsFrame(Wrapped(tu, k, <<>>, m), tu, Len(m.body) + 1)
  BY UnsealPlainBack, Zenon
<1>6. /\ f \in Message /\ f.type = ty /\ Len(f.body) = Len(m.body) + 2
      /\ g \in Message /\ g.type = tu
  BY <1>2, <1>3, <1>4, <1>5 DEF Message, MessageType, IsFrame
<1> QED
  BY <1>1, <1>2, <1>3, <1>6

\* One more frame in the inbox, with what it adds to the RMIs.
LEMMA InboxGrows ==
  ASSUME UpInv, Open, BaseInv, UNCHANGED <<m_state, m_session_key, m_recv_serial, handled>>,
         NEW f \in Message, inbox' = Append(inbox, f), issued' \in Seq(Calls),
         Len(issued) <= Len(issued'), \A i \in 1 .. Len(issued) : issued'[i] = issued[i],
         Item(f, c_serial, Len(issued), Len(issued'), m_state, m_session_key, issued'),
         c_serial' = NextSerial(c_serial, f.type = "encrypted_reliable")
  PROVE  UpInv'
<1>1. PICK b \in Seq(Message), calls \in Seq(Calls), more \in Seq(Calls) :
        b = inbox /\ calls = issued /\ more = issued'
  BY DEF UpInv, BaseInv
<1>2. PICK st, k, rs, cs, n : /\ st = m_state /\ k = m_session_key /\ rs = m_recv_serial
                              /\ cs = c_serial /\ n = Len(handled)
  OBVIOUS
<1>3. /\ Upcoming(b, st, k, rs, cs, calls, n)
      /\ Item(f, cs, Len(calls), Len(more), st, k, more)
      /\ Len(calls) <= Len(more) /\ \A i \in 1 .. Len(calls) : more[i] = calls[i]
  BY <1>1, <1>2 DEF UpInv
<1>4. Upcoming(Append(b, f), st, k, rs, NextSerial(cs, f.type = "encrypted_reliable"), more, n)
  BY <1>3, UpGrows
<1>5. Upcoming(inbox', m_state', m_session_key', m_recv_serial', c_serial', issued', Len(handled'))
  BY <1>1, <1>2, <1>4
<1>6. inbox' \in Seq(Message)
  BY <1>1, AppendProperties
<1>7. c_serial' \in 0 .. SerialCount - 1
  <2>1. PICK e \in BOOLEAN : e = (f.type = "encrypted_reliable")
    OBVIOUS
  <2> QED
    BY <2>1, SerialTyped DEF UpInv
<1> QED
  BY <1>5, <1>6, <1>7 DEF UpInv

\* The handshake messages of the client.
LEMMA ShakesUp ==
  ASSUME BaseInv, UpInv, NEW type \in {"public_key", "connection_request"}, ClientShakes(type)
  PROVE  UpInv' /\ UpStep
<1>1. PICK f : f = Plain(type)
  OBVIOUS
<1>2. f \in Message /\ f.type = type
  <2>1. <<>> \in Seq(Byte)
    OBVIOUS
  <2> QED
    BY <1>1, <2>1 DEF Plain, Message, MessageType
<1>3. /\ Open /\ UNCHANGED <<m_state, m_session_key, m_recv_serial, handled, issued, c_serial>>
      /\ inbox' = Append(inbox, f)
  BY <1>1 DEF ClientShakes, ClientStep
<1>4. issued \in Seq(Calls) /\ Len(issued) <= Len(issued)
  BY DEF BaseInv
<1>5. Item(f, c_serial, Len(issued), Len(issued), m_state, m_session_key, issued)
  BY <1>2 DEF Item, Holds
<1>6. c_serial' = NextSerial(c_serial, f.type = "encrypted_reliable")
  BY <1>2, <1>3 DEF NextSerial
<1>7. UpInv'
  BY <1>2, <1>3, <1>4, <1>5, <1>6, InboxGrows
<1> QED
  BY <1>3, <1>7 DEF UpStep, Open

\* Its RMIs, however they are wrapped.
LEMMA CallsUp ==
  ASSUME BaseInv, DownInv, UpInv, BaseInv',
         NEW type \in {"rmi", "encrypted_reliable", "encrypted_unreliable"}, ClientCalls(type)
  PROVE  UpInv' /\ UpStep
<1>1. PICK m : m = Rmi(Len(issued) + 1)
  OBVIOUS
<1>2. PICK calls \in Seq(Calls), n \in Nat : calls = issued /\ n = Len(issued)
  BY DEF BaseInv
<1>3. issued' = Append(issued, m) /\ issued' \in Seq(Calls)
  BY <1>1 DEF ClientCalls, BaseInv
<1>4. PICK more \in Seq(Calls) : more = issued' /\ more = Append(calls, m)
  BY <1>2, <1>3
<1>5. Len(more) = n + 1 /\ more[n + 1] = m /\ \A i \in 1 .. n : more[i] = calls[i]
  BY <1>2, <1>4
<1>6. m \in Calls /\ m \in Inner /\ m.type = "rmi"
  <2>1. n + 1 \in 1 .. Len(more)
    BY <1>5
  <2>2. m \in Calls
    BY <1>5, <2>1
  <2> QED
    BY <2>2, CallTyped
<1>7. m_state \in Served /\ view.key # <<>> /\ view.key = m_session_key /\ m_state # "awaiting_public_key"
  BY DEF ClientCalls, DownInv, Down
<1>8. PICK k \in SessionKey : k = view.key /\ k = m_session_key
  BY <1>7 DEF BaseInv
<1>9. PICK s \in 0 .. SerialCount - 1 : s = c_serial
  BY DEF UpInv
<1>10. PICK f : f = IF type = "rmi" THEN m
                    ELSE IF type = "encrypted_reliable"
                    THEN Wrapped("encrypted_reliable", k, <<s>>, m)
                    ELSE Wrapped("encrypted_unreliable", k, <<>>, m)
  OBVIOUS
<1>11. inbox' = Append(inbox, f)
  <2>1. CASE type = "rmi"
    BY <1>1, <1>10, <2>1 DEF ClientCalls
  <2>2. CASE type = "encrypted_reliable"
    BY <1>1, <1>8, <1>9, <1>10, <2>2 DEF ClientCalls
  <2>3. CASE type = "encrypted_unreliable"
    BY <1>1, <1>8, <1>9, <1>10, <2>3 DEF ClientCalls
  <2> QED
    BY <2>1, <2>2, <2>3
<1>12. f \in Message /\ f.type = type
  BY <1>6, <1>10, UpFrames
<1>13. Holds(f, m, s, m_state, k)
  BY <1>6, <1>7, <1>10 DEF Holds
<1>14. Item(f, s, n, n + 1, m_state, k, more)
  BY <1>5, <1>6, <1>7, <1>13 DEF Item
<1>15. Open /\ UNCHANGED <<m_state, m_session_key, m_recv_serial, handled>>
  BY DEF ClientCalls, ClientStep
<1>16. c_serial' = NextSerial(c_serial, f.type = "encrypted_reliable")
  BY <1>12 DEF ClientCalls, NextSerial
<1>17. /\ Len(issued) <= Len(issued') /\ \A i \in 1 .. Len(issued) : issued'[i] = issued[i]
       /\ Item(f, c_serial, Len(issued), Len(issued'), m_state, m_session_key, issued')
  BY <1>2, <1>4, <1>5, <1>8, <1>9, <1>14
<1>18. UpInv'
  BY <1>3, <1>11, <1>12, <1>15, <1>16, <1>17, InboxGrows
<1>19. IsStrictPrefix(issued, issued')
  BY <1>2, <1>3, <1>6, Longer
<1>20. Upward!IsStrictPrefix(issued, issued')
  BY <1>19 DEF IsStrictPrefix, IsPrefix, Upward!IsStrictPrefix, Upward!IsPrefix
<1>21. Upward!Send
  BY <1>15, <1>20 DEF Upward!Send
<1> QED
  BY <1>18, <1>21 DEF UpStep, Upward!Next

\* Its request encrypted, or an encrypted message in an encrypted one.
LEMMA WrapsUp ==
  ASSUME BaseInv, DownInv, UpInv,
         NEW type \in {"connection_request", "encrypted_reliable"}, ClientWraps(type)
  PROVE  UpInv' /\ UpStep
<1>1. view.key # <<>> /\ view.key = m_session_key /\ m_state # "awaiting_public_key"
  BY DEF ClientWraps, DownInv, Down
<1>2. PICK k \in SessionKey : k = view.key /\ k = m_session_key
  BY <1>1 DEF BaseInv
<1>3. PICK s \in 0 .. SerialCount - 1 : s = c_serial
  BY DEF UpInv
<1>4. PICK m : m = IF type = "connection_request" THEN Plain(type)
                   ELSE Wrapped("encrypted_reliable", k, <<s>>, Rmi(0))
  OBVIOUS
<1>5. m \in Inner /\ m.type = type
  <2>1. CASE type = "connection_request"
    <3>1. m = [type |-> "connection_request", body |-> <<>>]
      BY <1>4, <2>1 DEF Plain
    <3>2. <<>> \in Seq(Byte) /\ Len(<<>>) <= 6
      OBVIOUS
    <3> QED
      BY <2>1, <3>1, <3>2 DEF Inner
  <2>2. CASE type = "encrypted_reliable"
    <3>1. PICK r \in Calls : r = Rmi(0)
      BY StreamAssumption DEF Calls
    <3>2. r \in Inner /\ Len(r.body) = 2
      BY CallTyped
    <3>3. m = Wrapped("encrypted_reliable", k, <<s>>, r)
      BY <1>4, <2>2, <3>1
    <3>4. m \in Message /\ m.type = "encrypted_reliable" /\ Len(m.body) = Len(r.body) + 2
      BY <3>2, <3>3, UpFrames
    <3>5. Len(m.body) <= 6
      BY <3>2, <3>4
    <3> QED
      BY <2>2, <3>4, <3>5 DEF Inner, Message
  <2> QED
    BY <2>1, <2>2
<1>6. PICK f : f = Wrapped("encrypted_reliable", k, <<s>>, m)
  OBVIOUS
<1>7. f \in Message /\ f.type = "encrypted_reliable"
  BY <1>5, <1>6, UpFrames
<1>8. /\ Open /\ UNCHANGED <<m_state, m_session_key, m_recv_serial, handled, issued>>
      /\ inbox' = Append(inbox, f)
  BY <1>2, <1>3, <1>4, <1>6 DEF ClientWraps, ClientStep
<1>9. c_serial' = NextSerial(c_serial, f.type = "encrypted_reliable")
  BY <1>7 DEF ClientWraps, NextSerial
<1>10. Holds(f, m, s, m_state, k) /\ m.type # "rmi"
  BY <1>1, <1>5, <1>6 DEF Holds
<1>11. Item(f, c_serial, Len(issued), Len(issued), m_state, m_session_key, issued)
  BY <1>2, <1>3, <1>10 DEF Item
<1>12. issued \in Seq(Calls) /\ Len(issued) <= Len(issued)
  BY DEF BaseInv
<1>13. UpInv'
  BY <1>7, <1>8, <1>9, <1>11, <1>12, InboxGrows
<1> QED
  BY <1>8, <1>13 DEF UpStep, Open

\* A step that has nothing to do with the way up, except that it may close the peer.
LEMMA OtherUp ==
  ASSUME UpInv, UNCHANGED <<m_session_key, m_recv_serial, inbox, c_serial, issued, handled>>,
         m_state' \in {m_state, "closed"}
  PROVE  UpInv' /\ UpStep
<1>1. CASE m_state' = m_state
  BY <1>1 DEF UpInv, UpStep, Open
<1>2. CASE m_state' = "closed" /\ m_state # "closed"
  BY <1>2 DEF UpInv, UpStep, Open, Upward!Next, Upward!Close
<1> QED
  BY <1>1, <1>2

\* Every step keeps the inbox in line and is one the channel allows.
LEMMA NextUp ==
  ASSUME BaseInv, DownInv, UpInv, BaseInv', [Next]_vars
  PROVE  UpInv' /\ UpStep
<1>1. CASE UNCHANGED vars \/ WriteDone \/ WriteFails \/ close
  <2>1. /\ UNCHANGED <<m_session_key, m_recv_serial, inbox, c_serial, issued, handled>>
        /\ m_state' \in {m_state, "closed"}
    BY <1>1 DEF vars, in_vars, WriteDone, WriteFails, close
  <2> QED
    BY <2>1, OtherUp
<1>2. ASSUME NEW encrypt \in BOOLEAN, NEW closes \in BOOLEAN, SinkSends(encrypt, closes)
      PROVE  UpInv' /\ UpStep
  <2>1. /\ UNCHANGED <<m_session_key, m_recv_serial, inbox, c_serial, issued, handled>>
        /\ m_state' \in {m_state, "closed"}
    BY <1>2 DEF in_vars, SinkSends
  <2> QED
    BY <2>1, OtherUp
<1> QED
  BY <1>1, <1>2, ReceiveUp, ShakesUp, CallsUp, WrapsUp DEF Next

\* Nothing is on the way at first.
LEMMA InitUp ==
  ASSUME Init
  PROVE  UpInv
<1>1. 0 \in 0 .. SerialCount - 1
  BY StreamAssumption
<1>2. PICK z : z = [i \in 1 .. 1 |-> 0]
  OBVIOUS
<1>3. z \in [1 .. 1 -> 0 .. SerialCount - 1] /\ z \in [1 .. 1 -> 0 .. 0] /\ z[1] = 0
  BY <1>1, <1>2
<1>4. PICK b, c : b = inbox /\ c = issued
  OBVIOUS
<1>5. b = <<>> /\ c = <<>> /\ Len(b) = 0 /\ Len(c) = 0
  BY <1>4 DEF Init
<1>6. Carried(z, z, b, m_state, m_session_key, 0, 0, c, 0)
  BY <1>3, <1>5 DEF Carried
<1>7. Upcoming(b, m_state, m_session_key, 0, 0, c, 0)
  BY <1>6 DEF Upcoming
<1>8. m_recv_serial = 0 /\ c_serial = 0 /\ handled = <<>> /\ Len(handled) = 0 /\ inbox = <<>>
  BY DEF Init
<1> QED
  BY <1>1, <1>4, <1>7, <1>8 DEF UpInv

IInv == BaseInv /\ DownInv /\ UpInv

\* The inductive invariant of the whole connection.
THEOREM Invariant == KeyExchange => (Spec => []IInv)
<1> SUFFICES ASSUME KeyExchange PROVE Spec => []IInv
  OBVIOUS
<1>1. Init => IInv
  BY InitBase, InitDown, InitUp DEF IInv
<1>2. IInv /\ [Next]_vars => IInv'
  <2> SUFFICES ASSUME IInv, [Next]_vars PROVE IInv'
    OBVIOUS
  <2>1. BaseInv'
    BY NextKeepsBase DEF IInv
  <2> QED
    BY <2>1, NextDown, NextUp DEF IInv
<1> QED
  BY <1>1, <1>2, PTL DEF Spec

\* The receiving side of the peer implements the channel: the RMIs of the client reach
\* on_rmi once, unchanged and in order, plain and encrypted ones mixed, whatever their
\* handlers throw and whatever else the client sends in between.
THEOREM ClientToServerHolds == KeyExchange => (Spec => ClientToServer)
<1> SUFFICES ASSUME KeyExchange PROVE Spec => ClientToServer
  OBVIOUS
<1>1. Init => Upward!Init
  BY DEF Init, Upward!Init, Open
<1>2. IInv /\ IInv' /\ [Next]_vars => [Upward!Next]_<<issued, handled, ~ Open>>
  BY NextUp DEF UpStep, IInv
<1>3. Spec => []IInv
  BY Invariant
<1> QED
  BY <1>1, <1>2, <1>3, PTL DEF Spec, ClientToServer, Upward!Spec

\* Whatever may be sent is a message.
LEMMA SendableTyped ==
  ASSUME KeyExchange
  PROVE  Sendable \subseteq Message /\ Frame \subseteq Message /\ Calls \subseteq Message
<1>1. ASSUME NEW m \in Calls PROVE m \in Message
  <2>1. m \in Inner
    BY CallTyped
  <2> QED
    BY <2>1 DEF Inner, Message, MessageType
<1>2. ASSUME NEW b \in Blobs PROVE b \in Seq(Byte)
  <2>1. PICK c \in Client : b \in UNION {BlobsOf(c, l) : l \in SessionKey}
    BY Zenon DEF Blobs
  <2>2. PICK k \in SessionKey : b \in BlobsOf(c, k)
    BY <2>1, Zenon
  <2> QED
    BY <2>2, Zenon DEF KeyExchange
<1>3. <<>> \in Seq(Byte)
  OBVIOUS
<1>4. ASSUME NEW m \in Sendable PROVE m \in Message
  <2>1. CASE m \in Calls
    BY <1>1, <2>1
  <2>2. ASSUME NEW t \in {"hint", "version_mismatch", "connect_success", "speed_hack_detector_enabled"},
               m = Plain(t)
        PROVE  m \in Message
    BY <1>3, <2>2 DEF Plain, Message, MessageType
  <2>3. ASSUME NEW b \in Blobs, m = [type |-> "session_key", body |-> b]
        PROVE  m \in Message
    BY <1>2, <2>3 DEF Message, MessageType
  <2> QED
    BY <2>1, <2>2, <2>3 DEF Sendable
<1>5. ASSUME NEW f \in Frame PROVE f \in Message
  <2>1. CASE f \in Sendable
    BY <1>4, <2>1
  <2>2. ASSUME NEW k \in SessionKey, NEW s \in 0 .. SerialCount - 1, NEW m \in Calls,
               f = Sealed(k, s, m)
        PROVE  f \in Message
    <3>1. m \in Inner
      BY CallTyped
    <3> QED
      BY <2>2, <3>1, UpFrames DEF Sealed
  <2> QED
    BY <2>1, <2>2 DEF Frame
<1> QED
  BY <1>1, <1>4, <1>5

\* Every variable keeps its type; in particular whatever is queued, written or read back
\* is a message.
THEOREM TypeCorrect == KeyExchange => (Spec => []TypeOK)
<1> SUFFICES ASSUME KeyExchange PROVE Spec => []TypeOK
  OBVIOUS
<1>1. IInv => TypeOK
  <2> SUFFICES ASSUME IInv PROVE TypeOK
    OBVIOUS
  <2>1. BaseInv /\ DownInv /\ UpInv
    BY DEF IInv
  <2>2. m_session_key \in Seq(Byte)
    <3>1. <<>> \in Seq(Byte)
      OBVIOUS
    <3> QED
      BY <2>1, <3>1, StreamAssumption DEF BaseInv
  <2>3. out \in OutRecord
    BY <2>1 DEF BaseInv
  <2>4. /\ out.m_write_queue \in Seq(Message) /\ out.writes \in Seq(Message)
        /\ out.sent \in Seq(Message)
    BY <2>3, SendableTyped, SeqMonotonic DEF OutRecord
  <2>5. /\ out.m_send_serial \in Nat /\ out.m_send_serial < SerialCount
        /\ out.m_writing \in BOOLEAN
    BY <2>3, StreamAssumption DEF OutRecord
  <2>6. out \in OutType
    BY <2>3, <2>4, <2>5 DEF OutRecord, OutType
  <2>7. view.got \in Seq(Message)
    BY <2>1, SendableTyped, SeqMonotonic DEF DownInv, Down, View
  <2>8. issued \in Seq(Message) /\ handled \in Seq(Message)
    BY <2>1, SendableTyped, SeqMonotonic DEF BaseInv, UpInv
  <2> QED
    BY <2>1, <2>2, <2>5, <2>6, <2>7, <2>8 DEF TypeOK, BaseInv, State
<1>2. Spec => []IInv
  BY Invariant
<1> QED
  BY <1>1, <1>2, PTL
=============================================================================
