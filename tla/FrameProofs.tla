---------------------------- MODULE FrameProofs ----------------------------
(***************************************************************************)
(* Proofs about Codec and FrameParser, for every set of payloads, texts and   *)
(* malformed frames, any number of frames and any cut of the stream.          *)
(***************************************************************************)
EXTENDS FrameParser, TLAPS, SequenceTheorems, FiniteSetTheorems, WellFoundedInduction

-----------------------------------------------------------------------------
(* Recursion *)

\* Induction, as the absence of a least counterexample.
LEMMA NoLeast ==
  ASSUME NEW S, S \subseteq Nat, \A n \in S : \E m \in S : m < n
  PROVE  S = {}
<1> SUFFICES ASSUME S # {} PROVE FALSE
  OBVIOUS
<1> DEFINE Less == {ab \in Nat \X Nat : ab[1] < ab[2]}
<1>1. IsWellFoundedOn(Less, Nat)
  BY NatLessThanWellFounded, Zenon DEF OpToRel
<1>2. PICK n \in S : \A m \in S : ~ (<<m, n>> \in Less)
  BY <1>1, WFMin
<1>3. PICK m \in S : m < n
  OBVIOUS
<1> QED
  BY <1>2, <1>3

\* f solves a recursion on D: it is z where the recursion ends, and elsewhere what g makes
\* of the value at j, which has a lower rank.
Solves(D, B, V, z, g, j, f) ==
  /\ f \in [D -> V]
  /\ \A i \in D : f[i] = IF i \in B THEN z ELSE g[i][f[j[i]]]

\* Every recursion that goes down in rank has a solution.
LEMMA Solvable ==
  ASSUME NEW D, NEW B, NEW V, NEW z \in V, NEW rank \in [D -> Nat], NEW top \in Nat,
         NEW g \in [D \ B -> [V -> V]], NEW j \in [D \ B -> D],
         \A i \in D : rank[i] <= top,
         \A i \in D \ B : rank[j[i]] < rank[i]
  PROVE  \E f : Solves(D, B, V, z, g, j, f)
<1> DEFINE E(n) == {i \in D : rank[i] <= n}
           Q(n, f) == /\ f \in [E(n) -> V]
                      /\ \A i \in E(n) : f[i] = IF i \in B THEN z ELSE g[i][f[j[i]]]
           S == {n \in Nat : ~ \E f : Q(n, f)}
<1>1. ASSUME NEW n \in S PROVE \E m \in S : m < n
  <2> HIDE DEF Q
  <2>2. SUFFICES ASSUME \A m \in Nat : m < n => \E f : Q(m, f) PROVE \E h : Q(n, h)
    OBVIOUS
  <2> USE DEF Q
  <2>3. PICK f : \A i \in D : rank[i] < n =>
                   f[i] \in V /\ f[i] = IF i \in B THEN z ELSE g[i][f[j[i]]]
    <3>1. CASE n = 0
      BY <3>1
    <3>2. CASE n # 0
      <4>1. n - 1 \in Nat /\ n - 1 < n /\ \A i \in D : rank[i] < n => rank[i] <= n - 1
        BY <3>2
      <4>2. PICK f : Q(n - 1, f)
        BY <2>2, <4>1
      <4> QED
        BY <4>1, <4>2
    <3> QED
      BY <3>1, <3>2
  <2>4. PICK h : h = [i \in E(n) |-> IF rank[i] < n THEN f[i]
                                     ELSE IF i \in B THEN z ELSE g[i][f[j[i]]]]
    OBVIOUS
  <2>5. ASSUME NEW i \in E(n)
        PROVE  h[i] \in V /\ h[i] = IF i \in B THEN z ELSE g[i][h[j[i]]]
    <3>0. i \in D /\ rank[i] <= n /\ rank[i] \in Nat
      OBVIOUS
    <3>1. CASE i \in B
      BY <2>3, <2>4, <3>0, <3>1
    <3>2. CASE i \notin B
      <4>1. j[i] \in D /\ rank[j[i]] < n /\ rank[j[i]] \in Nat
        BY <3>0, <3>2
      <4>2. h[j[i]] = f[j[i]] /\ f[j[i]] \in V
        BY <2>3, <2>4, <4>1
      <4>3. h[i] = g[i][f[j[i]]]
        BY <2>3, <2>4, <3>0, <3>2
      <4> QED
        BY <3>0, <3>2, <4>2, <4>3
    <3> QED
      BY <3>1, <3>2
  <2>6. h \in [E(n) -> V]
    BY <2>4, <2>5
  <2> HIDE DEF E
  <2>7. Q(n, h)
    BY <2>5, <2>6
  <2> QED
    BY <2>7
<1>2. S = {}
  <2>1. S \subseteq Nat
    OBVIOUS
  <2> HIDE DEF S
  <2> QED
    BY <1>1, <2>1, NoLeast
<1>3. PICK f : Q(top, f)
  BY <1>2
<1>4. E(top) = D
  OBVIOUS
<1> QED
  BY <1>3, <1>4 DEF Solves

\* P holds where such a recursion ends, and passes from j to what is made of it.
Inherited(D, B, P, rank, j) ==
  /\ rank \in [D -> Nat] /\ j \in [D \ B -> D]
  /\ \A i \in D \ B : rank[j[i]] < rank[i]
  /\ \A i \in D \cap B : i \in P
  /\ \A i \in D \ B : j[i] \in P => i \in P

\* Induction along such a recursion.
LEMMA Descends ==
  ASSUME NEW D, NEW B, NEW P, NEW rank, NEW j, Inherited(D, B, P, rank, j)
  PROVE  D \subseteq P
<1> USE DEF Inherited
<1> DEFINE S == {rank[i] : i \in D \ P}
<1>1. ASSUME NEW n \in S PROVE \E m \in S : m < n
  <2>1. PICK i \in D \ P : n = rank[i]
    OBVIOUS
  <2>2. j[i] \in D \ P /\ rank[j[i]] < n
    BY <2>1
  <2> QED
    BY <2>2
<1>2. S = {}
  <2>1. S \subseteq Nat
    OBVIOUS
  <2> HIDE DEF S
  <2> QED
    BY <1>1, <2>1, NoLeast
<1> QED
  BY <1>2

\* Induction from zero up to a bound.
LEMMA Ascends ==
  ASSUME NEW n \in Nat, NEW P, 0 \in P, \A i \in 1 .. n : i - 1 \in P => i \in P
  PROVE  \A i \in 0 .. n : i \in P
<1> DEFINE S == {i \in 0 .. n : i \notin P}
<1>1. ASSUME NEW i \in S PROVE \E m \in S : m < i
  <2>1. i \in 1 .. n /\ i - 1 \in 0 .. n /\ i - 1 < i
    OBVIOUS
  <2> QED
    BY <2>1
<1>2. S = {}
  <2>1. S \subseteq Nat
    OBVIOUS
  <2> HIDE DEF S
  <2> QED
    BY <1>1, <2>1, NoLeast
<1> QED
  BY <1>2

-----------------------------------------------------------------------------
(* Numbers *)

\* The number four bytes stand for.
Four(b) == b[1] + 256 * b[2] + 65536 * b[3] + 16777216 * b[4]

\* f is the recursion of Unsigned.
UnsignedTo(b, f) ==
  f = [i \in 1 .. Len(b) + 1 |-> IF i > Len(b) THEN 0 ELSE b[i] + 256 * f[i + 1]]

\* The equations of Unsigned.
LEMMA UnsignedIs ==
  ASSUME NEW b \in Seq(Byte)
  PROVE  \E f : /\ Unsigned(b) = f[1] /\ f[1] \in Nat /\ f[Len(b) + 1] = 0
                /\ \A i \in 1 .. Len(b) : f[i] = b[i] + 256 * f[i + 1]
<1> DEFINE n == Len(b)
           D == 1 .. n + 1
           B == {n + 1}
           rank == [i \in D |-> n + 1 - i]
           g == [i \in D \ B |-> [v \in Nat |-> b[i] + 256 * v]]
           j == [i \in D \ B |-> i + 1]
<1>1. n \in Nat /\ \A i \in 1 .. n : b[i] \in Byte
  OBVIOUS
<1> HIDE DEF n
<1>2. /\ rank \in [D -> Nat] /\ j \in [D \ B -> D]
      /\ \A i \in D : rank[i] <= n
      /\ \A i \in D \ B : rank[j[i]] < rank[i]
  BY <1>1
<1>3. g \in [D \ B -> [Nat -> Nat]]
  BY <1>1 DEF Byte
<1>4. PICK f : Solves(D, B, Nat, 0, g, j, f)
  <2>1. \A X, Y, r, h, k : /\ r \in [X -> Nat] /\ h \in [X \ Y -> [Nat -> Nat]] /\ k \in [X \ Y -> X]
                           /\ \A i \in X : r[i] <= n
                           /\ \A i \in X \ Y : r[k[i]] < r[i]
                           => \E e : Solves(X, Y, Nat, 0, h, k, e)
    BY <1>1, Solvable
  <2> HIDE DEF D, B, rank, g, j
  <2> QED
    BY <1>2, <1>3, <2>1
<1>5. \A i \in D : f[i] = IF i > n THEN 0 ELSE b[i] + 256 * f[i + 1]
  <2>1. ASSUME NEW i \in 1 .. n PROVE f[i] = b[i] + 256 * f[i + 1]
    <3>1. i \in D \ B /\ i + 1 \in D
      BY <1>1
    <3>2. f[i + 1] \in Nat
      BY <1>4, <3>1 DEF Solves
    <3>3. f[i] = g[i][f[j[i]]] /\ j[i] = i + 1
      BY <1>4, <3>1 DEF Solves
    <3> QED
      BY <3>1, <3>2, <3>3
  <2>2. n + 1 \in D /\ n + 1 \in B
    BY <1>1
  <2>3. f[n + 1] = 0
    BY <1>4, <2>2 DEF Solves
  <2> QED
    BY <1>1, <2>1, <2>3
<1>6. UnsignedTo(b, f)
  BY <1>4, <1>5 DEF UnsignedTo, Solves, n
<1>7. PICK h : h = CHOOSE e : UnsignedTo(b, e)
  OBVIOUS
<1>8. UnsignedTo(b, h)
  BY <1>6, <1>7
<1>9. Unsigned(b) = h[1]
  BY <1>7 DEF Unsigned, UnsignedTo
<1>10. h[n + 1] = 0 /\ \A i \in 1 .. n : h[i] = b[i] + 256 * h[i + 1]
  BY <1>1, <1>8 DEF UnsignedTo, n
<1>11. D \subseteq {i \in D : h[i] \in Nat}
  <2> DEFINE P == {i \in D : h[i] \in Nat}
  <2>1. \A i \in D \cap B : i \in P
    BY <1>10
  <2>2. ASSUME NEW i \in D \ B, j[i] \in P PROVE i \in P
    <3>1. i \in 1 .. n /\ h[i + 1] \in Nat /\ b[i] \in Nat
      BY <1>1, <2>2 DEF Byte
    <3> QED
      BY <1>10, <3>1
  <2> HIDE DEF D, B, rank, j, P
  <2>3. Inherited(D, B, P, rank, j)
    BY <1>2, <2>1, <2>2 DEF Inherited
  <2>4. D \subseteq P
    BY <2>3, Descends
  <2> QED
    BY <2>4 DEF P
<1>12. h[1] \in Nat
  BY <1>1, <1>11
<1> QED
  BY <1>9, <1>10, <1>12 DEF n

\* Four bytes as a number, the last one first.
LEMMA FourIs ==
  ASSUME NEW b, b[1] \in Int, b[2] \in Int, b[3] \in Int, b[4] \in Int,
         NEW f, f[5] = 0, f[4] = b[4] + 256 * f[5], f[3] = b[3] + 256 * f[4],
         f[2] = b[2] + 256 * f[3], f[1] = b[1] + 256 * f[2]
  PROVE  f[1] = Four(b)
<1>1. \A w, x, y, z, q, r, s, v \in Int :
        s = 256 * z /\ r = 256 * (y + s) /\ q = 256 * (x + r) /\ v = w + q
          => v = w + 256 * x + 65536 * y + 16777216 * z
  BY SMT
<1>2. PICK w \in Int, x \in Int, y \in Int, z \in Int : w = b[1] /\ x = b[2] /\ y = b[3] /\ z = b[4]
  OBVIOUS
<1>3. f[4] = z
  BY <1>2
<1>4. f[3] = y + 256 * z
  BY <1>2, <1>3
<1>5. PICK s \in Int : s = 256 * z
  OBVIOUS
<1>6. f[2] = x + 256 * (y + s)
  BY <1>2, <1>4, <1>5
<1>7. PICK r \in Int : r = 256 * (y + s)
  OBVIOUS
<1>8. f[1] = w + 256 * (x + r)
  BY <1>2, <1>6, <1>7
<1>9. PICK q \in Int : q = 256 * (x + r)
  OBVIOUS
<1>10. PICK v \in Int : v = w + q
  OBVIOUS
<1>11. v = w + 256 * x + 65536 * y + 16777216 * z
  BY <1>1, <1>5, <1>7, <1>9, <1>10, SMT
<1> QED
  BY <1>2, <1>8, <1>9, <1>10, <1>11, SMT DEF Four

\* Unsigned in the widths of a scalar.
LEMMA UnsignedOf ==
  ASSUME NEW b \in Seq(Byte)
  PROVE  /\ Len(b) = 1 => Unsigned(b) = b[1]
         /\ Len(b) = 2 => Unsigned(b) = b[1] + 256 * b[2]
         /\ Len(b) = 4 => Unsigned(b) = Four(b)
         /\ Len(b) = 8 /\ b[5] = 0 /\ b[6] = 0 /\ b[7] = 0 /\ b[8] = 0 => Unsigned(b) = Four(b)
<1>1. PICK f : /\ Unsigned(b) = f[1] /\ f[Len(b) + 1] = 0
               /\ \A i \in 1 .. Len(b) : f[i] = b[i] + 256 * f[i + 1]
  BY UnsignedIs
<1>2. \A i \in 1 .. Len(b) : b[i] \in Int
  BY DEF Byte
<1>3. CASE Len(b) = 1
  <2>1. f[2] = 0 /\ f[1] = b[1] + 256 * f[2]
    BY <1>1, <1>3
  <2> QED
    BY <1>1, <1>2, <1>3, <2>1
<1>4. CASE Len(b) = 2
  <2>1. f[3] = 0 /\ f[2] = b[2] + 256 * f[3] /\ f[1] = b[1] + 256 * f[2]
    BY <1>1, <1>4
  <2> QED
    BY <1>1, <1>2, <1>4, <2>1
<1>5. CASE Len(b) = 4
  <2>1. /\ f[5] = 0 /\ f[4] = b[4] + 256 * f[5] /\ f[3] = b[3] + 256 * f[4]
        /\ f[2] = b[2] + 256 * f[3] /\ f[1] = b[1] + 256 * f[2]
    BY <1>1, <1>5
  <2>2. b[1] \in Int /\ b[2] \in Int /\ b[3] \in Int /\ b[4] \in Int
    BY <1>2, <1>5
  <2>6. f[1] = Four(b)
    BY <2>1, <2>2, FourIs, ZenonT(40)
  <2> QED
    BY <1>1, <1>5, <2>6
<1>6. CASE Len(b) = 8 /\ b[5] = 0 /\ b[6] = 0 /\ b[7] = 0 /\ b[8] = 0
  <2>1. /\ f[9] = 0 /\ f[8] = b[8] + 256 * f[9] /\ f[7] = b[7] + 256 * f[8]
        /\ f[6] = b[6] + 256 * f[7] /\ f[5] = b[5] + 256 * f[6]
    BY <1>1, <1>6
  <2>2. f[5] = 0
    BY <1>6, <2>1
  <2>3. /\ f[4] = b[4] + 256 * f[5] /\ f[3] = b[3] + 256 * f[4]
        /\ f[2] = b[2] + 256 * f[3] /\ f[1] = b[1] + 256 * f[2]
    BY <1>1, <1>6
  <2>4. b[1] \in Int /\ b[2] \in Int /\ b[3] \in Int /\ b[4] \in Int
    BY <1>2, <1>6
  <2>8. f[1] = Four(b)
    BY <2>2, <2>3, <2>4, FourIs, ZenonT(40)
  <2> QED
    BY <1>1, <1>6, <2>8
<1> QED
  BY <1>3, <1>4, <1>5, <1>6

\* A number is written as so many bytes.
LEMMA WriteTyped ==
  ASSUME NEW n \in Nat, NEW size \in Nat
  PROVE  write(n, size) \in Seq(Byte) /\ Len(write(n, size)) = size
<1>1. ASSUME NEW i \in 1 .. size, i <= 4 PROVE (n \div place[i]) % 256 \in Byte
  BY <1>1, SMT DEF place, Byte
<1>2. write(n, size) \in [1 .. size -> Byte]
  BY <1>1 DEF write, Byte
<1> QED
  BY <1>2

\* The reader gets back the number the writer wrote, in every width that holds it.
LEMMA SignedWrite ==
  ASSUME NEW n \in Nat, n <= MaxInt, NEW size \in {1, 2, 4, 8}, width(n) <= size
  PROVE  Signed(write(n, size)) = n
<1>1. PICK b : b = write(n, size)
  OBVIOUS
<1>2. b \in Seq(Byte) /\ Len(b) = size
  BY <1>1, WriteTyped
<1>3. \A i \in 1 .. size : b[i] = IF i <= 4 THEN (n \div place[i]) % 256 ELSE 0
  BY <1>1 DEF write
<1>5. b[size] < 128 => Signed(b) = Unsigned(b)
  BY <1>2 DEF Signed
<1>6. CASE size = 1
  <2>1. n < 128
    BY <1>6, SMT DEF width, MaxInt
  <2>2. b[1] = n
    BY <1>3, <1>6, <2>1, SMT DEF place, MaxInt
  <2> QED
    BY <1>1, <1>2, <1>5, <1>6, <2>1, <2>2, UnsignedOf
<1>7. CASE size = 2
  <2>1. b[1] = n % 256 /\ b[2] = (n \div 256) % 256
    BY <1>3, <1>7, SMT DEF place
  <2>2. b[2] < 128 /\ b[1] + 256 * b[2] = n
    BY <1>7, <2>1, SMT DEF width, MaxInt
  <2> QED
    BY <1>1, <1>2, <1>5, <1>7, <2>2, UnsignedOf
<1>8. ASSUME size >= 4
      PROVE  b[4] < 128 /\ Four(b) = n
  <2>1. 1 \in 1 .. size /\ 2 \in 1 .. size /\ 3 \in 1 .. size /\ 4 \in 1 .. size
    BY <1>8
  <2>2. /\ b[1] = n % 256 /\ b[2] = (n \div 256) % 256 /\ b[3] = (n \div 65536) % 256
        /\ b[4] = (n \div 16777216) % 256
    BY <1>3, <2>1, SMT DEF place
  <2> QED
    BY <2>2, SMT DEF MaxInt, Four
<1>9. CASE size = 4
  BY <1>1, <1>2, <1>5, <1>8, <1>9, UnsignedOf
<1>10. CASE size = 8
  <2>1. b[5] = 0 /\ b[6] = 0 /\ b[7] = 0 /\ b[8] = 0
    BY <1>3, <1>10
  <2> QED
    BY <1>1, <1>2, <1>5, <1>8, <1>10, <2>1, UnsignedOf
<1> QED
  BY <1>6, <1>7, <1>9, <1>10

\* What a scalar that is complete reads as.
LEMMA ReadScalar ==
  ASSUME NEW n \in Nat, n <= MaxInt, NEW size \in {1, 2, 4, 8}, width(n) <= size,
         NEW r \in Seq(Byte)
  PROVE  read_scalar(<<size>> \o write(n, size) \o r) = [ok |-> TRUE, value |-> n, rest |-> r]
<1>1. PICK w : w = write(n, size)
  OBVIOUS
<1>2. w \in Seq(Byte) /\ Len(w) = size
  BY <1>1, WriteTyped
<1>3. PICK b : b = <<size>> \o w \o r
  OBVIOUS
<1>4. b \in Seq(Byte) /\ Len(b) = 1 + size + Len(r) /\ b[1] = size
  BY <1>2, <1>3 DEF Byte
<1>5. \A i \in 1 .. size : b[1 + i] = w[i]
  BY <1>2, <1>3
<1>6. \A i \in 1 .. Len(r) : b[1 + size + i] = r[i]
  BY <1>2, <1>3
<1>7. SubSeq(b, 2, 1 + size) = w
  BY <1>2, <1>4, <1>5
<1>8. SubSeq(b, 1 + size + 1, Len(b)) = r
  BY <1>4, <1>6
<1>9. b # <<>> /\ b[1] \in {1, 2, 4, 8} /\ ~ (Len(b) < 1 + b[1])
  BY <1>4
<1>10. read_scalar(b) = Value(Signed(w), b, 1 + size)
  BY <1>4, <1>7, <1>9 DEF read_scalar
<1>11. Signed(w) = n
  BY <1>1, SignedWrite
<1> QED
  BY <1>1, <1>3, <1>8, <1>10, <1>11 DEF Value

\* What reads as a scalar is an integer.
LEMMA SignedTyped ==
  ASSUME NEW b \in Seq(Byte), Len(b) > 0
  PROVE  Signed(b) \in Int
<1>1. \A e \in Seq(Byte) : Unsigned(e) \in Nat
  BY UnsignedIs
<1>2. CASE b[Len(b)] < 128
  BY <1>1, <1>2 DEF Signed
<1>3. CASE ~ (b[Len(b)] < 128)
  <2>1. PICK e : e = [i \in 1 .. Len(b) |-> 255 - b[i]]
    OBVIOUS
  <2>2. \A i \in 1 .. Len(b) : 255 - b[i] \in Byte
    BY DEF Byte
  <2>3. e \in [1 .. Len(b) -> Byte] /\ Len(b) \in Nat
    BY <2>1, <2>2
  <2>4. e \in Seq(Byte)
    BY <2>3, SeqDef
  <2>5. Signed(b) = -1 - Unsigned(e)
    BY <1>3, <2>1 DEF Signed
  <2> QED
    BY <1>1, <2>4, <2>5
<1> QED
  BY <1>2, <1>3

-----------------------------------------------------------------------------
(* The parser *)

\* x are the n bytes of b behind the first m.
IsSub(x, b, m, n) == x = SubSeq(b, m + 1, m + n)

\* What a part of a sequence holds.
LEMMA Sub ==
  ASSUME NEW b \in Seq(Byte), NEW m \in Nat, NEW n \in Nat, m + n <= Len(b), NEW x, IsSub(x, b, m, n)
  PROVE  x \in Seq(Byte) /\ Len(x) = n /\ \A i \in 1 .. n : x[i] = b[m + i]
BY DEF IsSub

\* Sequences that hold the same are the same.
LEMMA Same ==
  ASSUME NEW x \in Seq(Byte), NEW y \in Seq(Byte), Len(x) = Len(y), \A i \in 1 .. Len(x) : x[i] = y[i]
  PROVE  x = y
BY SeqEqual

\* What the header of a frame says of the length.
LEMMA HeaderIs ==
  ASSUME NEW b \in Seq(Byte), Len(b) >= 3, b[3] \in {1, 2, 4, 8}, Len(b) >= 3 + b[3]
  PROVE  /\ read_scalar(SubSeq(b, 3, 3 + b[3])).value = Signed(SubSeq(b, 4, 3 + b[3]))
         /\ Signed(SubSeq(b, 4, 3 + b[3])) \in Int
<1>1. PICK n : n = b[3]
  OBVIOUS
<1>2. n \in {1, 2, 4, 8} /\ Len(b) >= 3 + n
  BY <1>1
<1>3. PICK s : s = SubSeq(b, 3, 3 + n)
  OBVIOUS
<1>4. s \in Seq(Byte) /\ Len(s) = 1 + n /\ \A i \in 1 .. 1 + n : s[i] = b[2 + i]
  BY <1>2, <1>3
<1>5. s[1] = n /\ s # <<>>
  BY <1>1, <1>2, <1>4
<1>6. PICK v : v = SubSeq(b, 4, 3 + n)
  OBVIOUS
<1>7. v \in Seq(Byte) /\ Len(v) = n /\ \A i \in 1 .. n : v[i] = b[3 + i]
  BY <1>2, <1>6
<1>8. SubSeq(s, 2, 1 + n) = v
  BY <1>2, <1>4, <1>7
<1>9. read_scalar(s) = Value(Signed(v), s, 1 + n)
  <2>1. s # <<>> /\ s[1] \in {1, 2, 4, 8} /\ ~ (Len(s) < 1 + s[1])
    BY <1>2, <1>4, <1>5
  <2> QED
    BY <1>5, <1>8, <2>1 DEF read_scalar
<1>10. read_scalar(s).value = Signed(v)
  BY <1>9 DEF Value
<1>11. Signed(v) \in Int
  BY <1>2, <1>7, SignedTyped
<1> QED
  BY <1>1, <1>3, <1>6, <1>10, <1>11

\* What next finds: nothing yet, nothing at all, or a payload, and at least four bytes less.
LEMMA NextIs ==
  ASSUME NEW b \in Seq(Byte)
  PROVE  \/ next(b) = Incomplete
         \/ next(b) = Error
         \/ \E p, r \in Seq(Byte) :
              next(b) = [kind |-> "frame", payload |-> p, rest |-> r] /\ Len(r) + 4 <= Len(b)
<1> SUFFICES ASSUME next(b) # Incomplete, next(b) # Error
             PROVE  \E p, r \in Seq(Byte) :
                      /\ next(b) = [kind |-> "frame", payload |-> p, rest |-> r]
                      /\ Len(r) + 4 <= Len(b)
  OBVIOUS
<1>1. /\ Len(b) >= 3 /\ b[3] \in {1, 2, 4, 8} /\ Len(b) >= 3 + b[3]
      /\ next(b) = Body(b, 3 + b[3], read_scalar(SubSeq(b, 3, 3 + b[3])).value)
  <2>1. ~ (Len(b) < 3)
    BY DEF next
  <2>2. ~ (SubSeq(b, 1, 2) # magic \/ b[3] \notin {1, 2, 4, 8})
    BY <2>1 DEF next
  <2>3. ~ (Len(b) < 3 + b[3])
    BY <2>1, <2>2 DEF next
  <2>4. next(b) = Body(b, 3 + b[3], read_scalar(SubSeq(b, 3, 3 + b[3])).value)
    BY <2>1, <2>2, <2>3 DEF next
  <2>5. b[3] \in {1, 2, 4, 8}
    BY <2>2
  <2> QED
    BY <2>1, <2>3, <2>4, <2>5
<1>2. PICK h, n \in Int : h = 3 + b[3] /\ n = read_scalar(SubSeq(b, 3, h)).value /\ h \in Nat /\ h >= 4
  BY <1>1, HeaderIs
<1>3. next(b) = Body(b, h, n) /\ Len(b) >= h
  BY <1>1, <1>2
<1>4. n >= 0 /\ ~ (n > max_frame_payload) /\ ~ (Len(b) < h + n)
  <2>1. ~ (n < 0 \/ n > max_frame_payload)
    BY <1>3 DEF Body
  <2>2. ~ (Len(b) < h + n)
    BY <1>3, <2>1 DEF Body
  <2> QED
    BY <2>1, <2>2
<1>5. next(b) = [kind |-> "frame", payload |-> SubSeq(b, h + 1, h + n),
                 rest |-> SubSeq(b, h + n + 1, Len(b))]
  BY <1>3, <1>4 DEF Body
<1>6. SubSeq(b, h + 1, h + n) \in Seq(Byte)
  BY <1>2, <1>4
<1>7. PICK m \in Nat, l \in Nat : m = h + n /\ Len(b) = m + l /\ m >= 4
  <2>1. Len(b) \in Nat
    OBVIOUS
  <2>2. PICK m \in Nat : m = h + n /\ m >= 4 /\ m <= Len(b)
    BY <1>2, <1>4, <2>1
  <2>3. Len(b) - m \in Nat /\ Len(b) = m + (Len(b) - m)
    BY <2>1, <2>2
  <2> QED
    BY <2>2, <2>3
<1>8. PICK r : r = SubSeq(b, h + n + 1, Len(b))
  OBVIOUS
<1>9. IsSub(r, b, m, l)
  BY <1>7, <1>8 DEF IsSub
<1>10. r \in Seq(Byte) /\ Len(r) = l
  BY <1>7, <1>9, Sub
<1>11. Len(r) + 4 <= Len(b)
  BY <1>7, <1>10
<1> QED
  BY <1>5, <1>6, <1>8, <1>10, <1>11

\* The states of the loop that empties the parser.
Draining == [rest : Seq(Byte), done : Seq(Seq(Byte)), ok : BOOLEAN]

\* What a turn of the loop does.
LEMMA TurnIs ==
  ASSUME NEW d \in Draining
  PROVE  /\ Turn(d) \in Draining
         /\ next(d.rest) \in {Incomplete, Error} =>
              /\ Turn(d).rest = d.rest /\ Turn(d).done = d.done
              /\ Turn(d).ok <=> next(d.rest) = Incomplete
         /\ \A p, r \in Seq(Byte) :
              next(d.rest) = [kind |-> "frame", payload |-> p, rest |-> r] =>
                Turn(d) = [rest |-> r, done |-> Append(d.done, p), ok |-> TRUE]
<1>1. d.rest \in Seq(Byte) /\ d.done \in Seq(Seq(Byte))
  BY DEF Draining
<1>2. PICK e \in BOOLEAN : e = (next(d.rest) = Incomplete)
  OBVIOUS
<1>3. ASSUME next(d.rest) \in {Incomplete, Error}
      PROVE  Turn(d) = [d EXCEPT !.ok = e]
  <2>1. next(d.rest).kind # "frame"
    BY <1>3 DEF Incomplete, Error
  <2>2. (next(d.rest).kind = "incomplete") = e
    BY <1>2, <1>3 DEF Incomplete, Error
  <2> QED
    BY <2>1, <2>2 DEF Turn
<1>4. ASSUME NEW p \in Seq(Byte), NEW r \in Seq(Byte),
             next(d.rest) = [kind |-> "frame", payload |-> p, rest |-> r]
      PROVE  Turn(d) = [rest |-> r, done |-> Append(d.done, p), ok |-> TRUE]
  BY <1>4 DEF Turn
<1>5. Turn(d) \in Draining
  <2>1. CASE next(d.rest) \in {Incomplete, Error}
    BY <1>2, <1>3, <2>1 DEF Draining
  <2>3. ASSUME NEW p \in Seq(Byte), NEW r \in Seq(Byte),
               next(d.rest) = [kind |-> "frame", payload |-> p, rest |-> r]
        PROVE  Turn(d) \in Draining
    <3>1. Append(d.done, p) \in Seq(Seq(Byte))
      BY <1>1, AppendProperties
    <3>2. Turn(d) = [rest |-> r, done |-> Append(d.done, p), ok |-> TRUE]
      BY <1>4, <2>3
    <3> QED
      BY <3>1, <3>2 DEF Draining
  <2> QED
    BY <1>1, <2>1, <2>3, NextIs
<1>6. ASSUME next(d.rest) \in {Incomplete, Error}
      PROVE  /\ Turn(d).rest = d.rest /\ Turn(d).done = d.done
             /\ Turn(d).ok <=> next(d.rest) = Incomplete
  BY <1>2, <1>3, <1>6 DEF Draining
<1> QED
  BY <1>4, <1>5, <1>6

\* f is the recursion of Drain.
DrainTo(b, done, f) ==
  f = [k \in 0 .. Len(b) \div 4 + 1 |->
         IF k = 0 THEN [rest |-> b, done |-> done, ok |-> TRUE] ELSE Turn(f[k - 1])]

\* The equations of Drain.
LEMMA DrainIs ==
  ASSUME NEW b \in Seq(Byte), NEW done \in Seq(Seq(Byte))
  PROVE  \E f, n : /\ n \in Nat /\ 4 * n > Len(b)
                   /\ Drain(b, done) = f[n]
                   /\ f[0] = [rest |-> b, done |-> done, ok |-> TRUE]
                   /\ \A k \in 1 .. n : f[k] = Turn(f[k - 1])
<1> DEFINE n == Len(b) \div 4 + 1
           D == 0 .. n
           B == {0}
           z == [rest |-> b, done |-> done, ok |-> TRUE]
           rank == [i \in D |-> i]
           g == [i \in D \ B |-> [d \in Draining |-> Turn(d)]]
           j == [i \in D \ B |-> i - 1]
<1>1. n \in Nat /\ 4 * n > Len(b)
  OBVIOUS
<1>2. z \in Draining
  BY DEF Draining
<1> HIDE DEF n, z
<1>3. /\ rank \in [D -> Nat] /\ j \in [D \ B -> D]
      /\ \A i \in D : rank[i] <= n
      /\ \A i \in D \ B : rank[j[i]] < rank[i]
  BY <1>1
<1>4. g \in [D \ B -> [Draining -> Draining]]
  BY TurnIs
<1>5. PICK f : Solves(D, B, Draining, z, g, j, f)
  <2> HIDE DEF D, B, rank, g, j
  <2> QED
    BY <1>1, <1>2, <1>3, <1>4, Solvable
<1>6. DrainTo(b, done, f)
  <2>1. ASSUME NEW k \in D
        PROVE  f[k] = IF k = 0 THEN z ELSE Turn(f[k - 1])
    <3>1. CASE k = 0
      BY <1>5, <3>1 DEF Solves
    <3>2. CASE k # 0
      <4>1. k \in D \ B /\ k - 1 \in D /\ j[k] = k - 1
        BY <1>1, <3>2
      <4>2. f[k - 1] \in Draining
        BY <1>5, <4>1 DEF Solves
      <4>3. f[k] = g[k][f[k - 1]]
        BY <1>5, <4>1 DEF Solves
      <4> QED
        BY <3>2, <4>1, <4>2, <4>3
    <3> QED
      BY <3>1, <3>2
  <2>2. f = [k \in D |-> f[k]]
    BY <1>5 DEF Solves
  <2> QED
    BY <2>1, <2>2 DEF DrainTo, n, z
<1>7. PICK h : h = CHOOSE e : DrainTo(b, done, e)
  OBVIOUS
<1>8. DrainTo(b, done, h)
  BY <1>6, <1>7
<1>9. Drain(b, done) = h[n]
  BY <1>7 DEF Drain, DrainTo, n
<1>10. \A k \in 0 .. n : h[k] = IF k = 0 THEN z ELSE Turn(h[k - 1])
  BY <1>8 DEF DrainTo, n, z
<1>11. h[0] = z
  <2>1. 0 \in 0 .. n
    BY <1>1
  <2> QED
    BY <1>10, <2>1, Zenon
<1>12. ASSUME NEW k \in 1 .. n PROVE h[k] = Turn(h[k - 1])
  <2>1. k \in 0 .. n /\ k # 0
    BY <1>1
  <2> QED
    BY <1>10, <2>1, Zenon
<1> QED
  BY <1>1, <1>9, <1>11, <1>12 DEF z

-----------------------------------------------------------------------------
(* Streams *)

\* f is the recursion of Starts.
StartsTo(s, f) ==
  f = [i \in 1 .. Len(s) + 1 |-> IF i = 1 THEN 0 ELSE f[i - 1] + Len(s[i - 1].bytes)]

\* The equations of Starts.
LEMMA StartsIs ==
  ASSUME NEW S, NEW s \in Seq(S), \A x \in S : x.bytes \in Seq(Byte)
  PROVE  /\ Starts(s) \in [1 .. Len(s) + 1 -> Nat]
         /\ Starts(s)[1] = 0
         /\ \A i \in 1 .. Len(s) : Starts(s)[i + 1] = Starts(s)[i] + Len(s[i].bytes)
<1> DEFINE n == Len(s)
           D == 1 .. n + 1
           B == {1}
           rank == [i \in D |-> i]
           g == [i \in D \ B |-> [v \in Nat |-> v + Len(s[i - 1].bytes)]]
           j == [i \in D \ B |-> i - 1]
<1>1. n \in Nat /\ \A i \in 1 .. n : s[i].bytes \in Seq(Byte) /\ Len(s[i].bytes) \in Nat
  OBVIOUS
<1> HIDE DEF n
<1>2. /\ rank \in [D -> Nat] /\ j \in [D \ B -> D]
      /\ \A i \in D : rank[i] <= n + 1
      /\ \A i \in D \ B : rank[j[i]] < rank[i]
  BY <1>1
<1>3. g \in [D \ B -> [Nat -> Nat]]
  <2>1. ASSUME NEW i \in D \ B, NEW v \in Nat PROVE v + Len(s[i - 1].bytes) \in Nat
    <3>1. i - 1 \in 1 .. n
      BY <1>1
    <3> QED
      BY <1>1, <3>1
  <2> QED
    BY <2>1
<1>4. PICK f : Solves(D, B, Nat, 0, g, j, f)
  <2>1. n + 1 \in Nat
    BY <1>1
  <2> HIDE DEF D, B, rank, g, j
  <2> QED
    BY <1>2, <1>3, <2>1, Solvable
<1>5. StartsTo(s, f)
  <2>1. ASSUME NEW i \in D
        PROVE  f[i] = IF i = 1 THEN 0 ELSE f[i - 1] + Len(s[i - 1].bytes)
    <3>1. CASE i = 1
      BY <1>4, <3>1 DEF Solves
    <3>2. CASE i # 1
      <4>1. i \in D \ B /\ i - 1 \in D /\ j[i] = i - 1
        BY <1>1, <3>2
      <4>2. f[i - 1] \in Nat
        BY <1>4, <4>1 DEF Solves
      <4>3. f[i] = g[i][f[i - 1]]
        BY <1>4, <4>1 DEF Solves
      <4> QED
        BY <3>2, <4>1, <4>2, <4>3
    <3> QED
      BY <3>1, <3>2
  <2>2. f = [i \in D |-> f[i]]
    BY <1>4 DEF Solves
  <2> QED
    BY <2>1, <2>2 DEF StartsTo, n
<1>6. Starts(s) = CHOOSE e : StartsTo(s, e)
  BY DEF Starts, StartsTo
<1>7. StartsTo(s, Starts(s))
  BY <1>5, <1>6
<1>8. PICK h : h = Starts(s)
  OBVIOUS
<1>9. /\ h = [i \in D |-> h[i]] /\ h[1] = 0
      /\ \A i \in 1 .. n : h[i + 1] = h[i] + Len(s[i].bytes)
  <2>1. h = [i \in D |-> IF i = 1 THEN 0 ELSE h[i - 1] + Len(s[i - 1].bytes)]
    BY <1>7, <1>8, Zenon DEF StartsTo, n
  <2>2. ASSUME NEW i \in 1 .. n PROVE h[i + 1] = h[i] + Len(s[i].bytes)
    <3>1. i + 1 \in D /\ i + 1 # 1 /\ (i + 1) - 1 = i
      BY <1>1
    <3> QED
      BY <2>1, <3>1
  <2>3. h[1] = 0
    BY <1>1, <2>1
  <2> QED
    BY <2>1, <2>2, <2>3
<1>10. \A i \in 0 .. n : i \in {k \in 0 .. n : h[k + 1] \in Nat}
  <2> DEFINE P == {k \in 0 .. n : h[k + 1] \in Nat}
  <2>1. 0 \in P
    BY <1>1, <1>9
  <2>2. ASSUME NEW i \in 1 .. n, i - 1 \in P PROVE i \in P
    <3>1. h[i] \in Nat
      BY <1>1, <2>2
    <3>2. h[i + 1] = h[i] + Len(s[i].bytes) /\ Len(s[i].bytes) \in Nat
      BY <1>1, <1>9
    <3> QED
      BY <1>1, <3>1, <3>2
  <2> HIDE DEF P
  <2>3. \A i \in 0 .. n : i \in P
    BY <1>1, <2>1, <2>2, Ascends
  <2> QED
    BY <2>3 DEF P
<1>11. \A i \in D : h[i] \in Nat
  <2>1. ASSUME NEW i \in D PROVE h[i] \in Nat
    <3>1. i - 1 \in 0 .. n /\ (i - 1) + 1 = i
      BY <1>1
    <3>2. h[(i - 1) + 1] \in Nat
      BY <1>10, <3>1
    <3> QED
      BY <3>1, <3>2
  <2> QED
    BY <2>1
<1> QED
  BY <1>8, <1>9, <1>11 DEF n

\* u is s and then t.
IsCat(u, s, t) == u = s \o t

\* What a concatenation holds.
LEMMA Cat ==
  ASSUME NEW s \in Seq(Byte), NEW t \in Seq(Byte), NEW u, IsCat(u, s, t)
  PROVE  /\ u \in Seq(Byte) /\ Len(u) = Len(s) + Len(t)
         /\ \A i \in 1 .. Len(s) : u[i] = s[i]
         /\ \A i \in 1 .. Len(t) : u[Len(s) + i] = t[i]
<1>1. /\ u \in Seq(Byte) /\ Len(u) = Len(s) + Len(t)
      /\ \A i \in 1 .. Len(s) + Len(t) : u[i] = IF i <= Len(s) THEN s[i] ELSE t[i - Len(s)]
  BY ConcatProperties DEF IsCat
<1>2. Len(s) \in Nat /\ Len(t) \in Nat
  OBVIOUS
<1>3. ASSUME NEW i \in 1 .. Len(t) PROVE u[Len(s) + i] = t[i]
  <2>1. Len(s) + i \in 1 .. Len(s) + Len(t) /\ ~ (Len(s) + i <= Len(s)) /\ (Len(s) + i) - Len(s) = i
    BY <1>2
  <2> QED
    BY <1>1, <2>1
<1> QED
  BY <1>1, <1>2, <1>3

\* A stream that begins with a: what has been read of it.
LEMMA Reads ==
  ASSUME NEW r \in Seq(Byte), NEW w \in Seq(Byte), NEW a \in Seq(Byte), NEW t \in Seq(Byte),
         r \o w = a \o t
  PROVE  /\ \A i \in 1 .. Len(r) : i <= Len(a) => r[i] = a[i]
         /\ Len(r) >= Len(a) =>
              /\ SubSeq(r, Len(a) + 1, Len(r)) \in Seq(Byte)
              /\ Len(SubSeq(r, Len(a) + 1, Len(r))) = Len(r) - Len(a)
              /\ SubSeq(r, Len(a) + 1, Len(r)) \o w = t
<1>1. /\ Len(r) + Len(w) = Len(a) + Len(t)
      /\ \A i \in 1 .. Len(r) : (r \o w)[i] = r[i]
      /\ \A i \in 1 .. Len(a) : (a \o t)[i] = a[i]
  BY ConcatProperties
<1>2. \A i \in 1 .. Len(r) : i <= Len(a) => r[i] = a[i]
  BY <1>1
<1>3. ASSUME Len(r) >= Len(a)
      PROVE  /\ SubSeq(r, Len(a) + 1, Len(r)) \in Seq(Byte)
             /\ Len(SubSeq(r, Len(a) + 1, Len(r))) = Len(r) - Len(a)
             /\ SubSeq(r, Len(a) + 1, Len(r)) \o w = t
  <2>1. PICK u : u = SubSeq(r, Len(a) + 1, Len(r))
    OBVIOUS
  <2>2. u \in Seq(Byte) /\ Len(u) = Len(r) - Len(a)
    BY <1>3, <2>1
  <2>3. PICK x : x = r \o w
    OBVIOUS
  <2>4. PICK y : y = u \o w
    OBVIOUS
  <2>5. /\ Len(x) = Len(r) + Len(w)
        /\ \A i \in 1 .. Len(r) : x[i] = r[i]
        /\ \A i \in 1 .. Len(w) : x[Len(r) + i] = w[i]
    <3>1. IsCat(x, r, w)
      BY <2>3 DEF IsCat
    <3> QED
      BY <3>1, Cat
  <2>6. /\ Len(x) = Len(a) + Len(t)
        /\ \A i \in 1 .. Len(t) : x[Len(a) + i] = t[i]
    <3>1. IsCat(x, a, t)
      BY <2>3 DEF IsCat
    <3> QED
      BY <3>1, Cat
  <2>7. /\ y \in Seq(Byte) /\ Len(y) = Len(u) + Len(w)
        /\ \A i \in 1 .. Len(u) : y[i] = u[i]
        /\ \A i \in 1 .. Len(w) : y[Len(u) + i] = w[i]
    <3>1. IsCat(y, u, w)
      BY <2>4 DEF IsCat
    <3>2. u \in Seq(Byte)
      BY <2>2
    <3> QED
      BY <3>1, <3>2, Cat
  <2>8. y = t
    <3>1. Len(y) = Len(t)
      BY <2>2, <2>5, <2>6, <2>7
    <3>2. ASSUME NEW i \in 1 .. Len(y) PROVE y[i] = t[i]
      <4>1. t[i] = x[Len(a) + i]
        BY <2>6, <3>1
      <4>2. CASE i <= Len(u)
        <5>1. y[i] = r[Len(a) + i] /\ Len(a) + i \in 1 .. Len(r)
          BY <1>3, <2>1, <2>2, <2>7, <4>2
        <5> QED
          BY <2>5, <4>1, <5>1
      <4>3. CASE i > Len(u)
        <5>1. /\ i - Len(u) \in 1 .. Len(w) /\ Len(u) + (i - Len(u)) = i
              /\ Len(r) + (i - Len(u)) = Len(a) + i
          BY <1>3, <2>2, <2>7, <4>3
        <5> QED
          BY <2>5, <2>7, <4>1, <5>1
      <4> QED
        BY <2>2, <4>2, <4>3
    <3> QED
      BY <2>7, <3>1, <3>2, SeqEqual
  <2> QED
    BY <2>1, <2>2, <2>4, <2>8
<1> QED
  BY <1>2, <1>3

-----------------------------------------------------------------------------
(* Frames *)

\* A line of text is written as bytes.
LEMMA TextTyped ==
  ASSUME NEW w \in Seq(Unit)
  PROVE  /\ UnitBytes(w) \in Seq(Byte) /\ Len(UnitBytes(w)) = 2 * Len(w)
         /\ write_wstring(w) = <<unicode>> \o write_scalar(Len(w)) \o UnitBytes(w)
         /\ write_wstring(w) \in Seq(Byte)
         /\ Len(write_wstring(w)) >= Len(w)
<1>1. Len(w) \in Nat
  OBVIOUS
<1>2. ASSUME NEW i \in 1 .. 2 * Len(w)
      PROVE  write(w[(i + 1) \div 2], 2)[2 - (i % 2)] \in Byte
  <2>1. (i + 1) \div 2 \in 1 .. Len(w) /\ 2 - (i % 2) \in {1, 2}
    BY <1>1
  <2>2. PICK x : x = w[(i + 1) \div 2]
    OBVIOUS
  <2>3. x \in Nat
    BY <2>1, <2>2 DEF Unit
  <2>4. write(x, 2) \in Seq(Byte) /\ Len(write(x, 2)) = 2
    BY <2>3, WriteTyped
  <2>5. write(x, 2)[1] \in Byte /\ write(x, 2)[2] \in Byte
    BY <2>4
  <2> QED
    BY <2>1, <2>2, <2>5
<1>3. UnitBytes(w) \in [1 .. 2 * Len(w) -> Byte]
  BY <1>2 DEF UnitBytes
<1>4. UnitBytes(w) \in Seq(Byte) /\ Len(UnitBytes(w)) = 2 * Len(w)
  BY <1>1, <1>3
<1>5. PICK n : n = width(Len(w))
  OBVIOUS
<1>6. n \in {1, 2, 4}
  BY <1>5 DEF width
<1>7. write(Len(w), n) \in Seq(Byte) /\ Len(write(Len(w), n)) = n
  BY <1>1, <1>6, WriteTyped
<1>8. <<n>> \in Seq(Byte) /\ <<unicode>> \in Seq(Byte)
  BY <1>6 DEF Byte, unicode
<1>9. write_scalar(Len(w)) \in Seq(Byte) /\ Len(write_scalar(Len(w))) \in Nat
  BY <1>5, <1>7, <1>8 DEF write_scalar
<1>10. <<unicode>> \o write_scalar(Len(w)) \in Seq(Byte)
  BY <1>8, <1>9
<1>11. write_wstring(w) = <<unicode>> \o write_scalar(Len(w)) \o UnitBytes(w)
  BY DEF write_wstring
<1>12. /\ write_wstring(w) \in Seq(Byte)
       /\ Len(write_wstring(w)) = Len(<<unicode>> \o write_scalar(Len(w))) + 2 * Len(w)
  BY <1>4, <1>10, <1>11, ConcatProperties
<1>13. Len(<<unicode>> \o write_scalar(Len(w))) \in Nat
  BY <1>10
<1> QED
  BY <1>1, <1>4, <1>11, <1>12, <1>13

Sent == Good \cup Lines \cup Bad

\* b is the magic, the length of p in so many bytes, and p.
Made(b, size, p) ==
  /\ b \in Seq(Byte) /\ Len(b) = 3 + size + Len(p)
  /\ b[1] = 19 /\ b[2] = 87 /\ b[3] = size
  /\ \A i \in 1 .. size : b[3 + i] = write(Len(p), size)[i]
  /\ \A i \in 1 .. Len(p) : b[3 + size + i] = p[i]

\* The bytes of a frame that is well formed.
LEMMA MakeFrameTyped ==
  ASSUME NEW size \in {1, 2, 4, 8}, NEW p \in Seq(Byte)
  PROVE  Made(make_frame(size, p), size, p)
<1>1. PICK w : w = write(Len(p), size)
  OBVIOUS
<1>2. w \in Seq(Byte) /\ Len(w) = size
  BY <1>1, WriteTyped
<1>3. PICK h : h = magic \o <<size>>
  OBVIOUS
<1>4. h \in Seq(Byte) /\ Len(h) = 3 /\ h[1] = 19 /\ h[2] = 87 /\ h[3] = size
  <2>1. magic \in Seq(Byte) /\ Len(magic) = 2 /\ magic[1] = 19 /\ magic[2] = 87
    BY DEF magic, Byte
  <2>2. PICK z : z = <<size>>
    OBVIOUS
  <2>3. z \in Seq(Byte) /\ Len(z) = 1 /\ z[1] = size
    BY <2>2 DEF Byte
  <2>4. IsCat(h, magic, z)
    BY <1>3, <2>2, Zenon DEF IsCat
  <2>5. /\ h \in Seq(Byte) /\ Len(h) = Len(magic) + Len(z)
        /\ \A i \in 1 .. Len(magic) : h[i] = magic[i]
        /\ \A i \in 1 .. Len(z) : h[Len(magic) + i] = z[i]
    <3>1. magic \in Seq(Byte) /\ z \in Seq(Byte)
      BY <2>1, <2>3
    <3> QED
      BY <2>4, <3>1, Cat
  <2>6. h[1] = magic[1] /\ h[2] = magic[2] /\ h[2 + 1] = z[1]
    BY <2>1, <2>3, <2>5
  <2> QED
    BY <2>1, <2>3, <2>5, <2>6
<1>6. PICK a : a = h \o w
  OBVIOUS
<1>7. /\ a \in Seq(Byte) /\ Len(a) = 3 + size
      /\ \A i \in 1 .. 3 : a[i] = h[i]
      /\ \A i \in 1 .. size : a[3 + i] = w[i]
  <2>1. /\ a \in Seq(Byte) /\ Len(a) = Len(h) + Len(w)
        /\ \A i \in 1 .. Len(h) : a[i] = h[i]
        /\ \A i \in 1 .. Len(w) : a[Len(h) + i] = w[i]
    <3>1. IsCat(a, h, w)
      BY <1>6 DEF IsCat
    <3>2. h \in Seq(Byte) /\ w \in Seq(Byte)
      BY <1>2, <1>4
    <3> QED
      BY <3>1, <3>2, Cat
  <2> QED
    BY <1>2, <1>4, <2>1
<1>8. PICK b : b = a \o p
  OBVIOUS
<1>9. /\ b \in Seq(Byte) /\ Len(b) = 3 + size + Len(p)
      /\ \A i \in 1 .. 3 + size : b[i] = a[i]
      /\ \A i \in 1 .. Len(p) : b[3 + size + i] = p[i]
  <2>1. /\ b \in Seq(Byte) /\ Len(b) = Len(a) + Len(p)
        /\ \A i \in 1 .. Len(a) : b[i] = a[i]
        /\ \A i \in 1 .. Len(p) : b[Len(a) + i] = p[i]
    <3>1. IsCat(b, a, p)
      BY <1>8 DEF IsCat
    <3>2. a \in Seq(Byte)
      BY <1>7
    <3> QED
      BY <3>1, <3>2, Cat
  <2> QED
    BY <1>7, <2>1
<1>10. make_frame(size, p) = b
  BY <1>1, <1>3, <1>6, <1>8 DEF make_frame
<1>11. b[1] = 19 /\ b[2] = 87 /\ b[3] = size
  <2>1. a[1] = 19 /\ a[2] = 87 /\ a[3] = size
    BY <1>4, <1>7
  <2> QED
    BY <1>9, <2>1
<1>12. ASSUME NEW i \in 1 .. size PROVE b[3 + i] = w[i]
  <2>1. 3 + i \in 1 .. 3 + size
    OBVIOUS
  <2> QED
    BY <1>7, <1>9, <2>1
<1> QED
  BY <1>1, <1>9, <1>10, <1>11, <1>12 DEF Made

\* A payload in a frame, or bytes that are no frame.
IsFrame(F) ==
  /\ F.bytes \in Seq(Byte) /\ F.payload \in Seq(Byte) /\ F.ok \in BOOLEAN
  /\ F.needs \in Nat /\ F.needs >= 3 /\ F.needs <= Len(F.bytes)
  /\ F.ok => /\ F.needs = Len(F.bytes) /\ Len(F.payload) <= max_frame_payload
             /\ \E size \in {1, 2, 4, 8} :
                  width(Len(F.payload)) <= size /\ F.bytes = make_frame(size, F.payload)
  /\ ~ F.ok => \/ NoHeader(F.bytes) /\ F.needs = 3
               \/ ~ NoHeader(F.bytes) /\ NoLength(F.bytes) /\ F.needs = 3 + F.bytes[3]

\* What the client sends.
LEMMA FrameIs ==
  ASSUME NEW F \in Sent
  PROVE  IsFrame(F)
<1>1. ASSUME NEW size \in {1, 2, 4, 8}, NEW p \in Seq(Byte), NEW b,
             F = Frame(size, p, b), width(Len(p)) <= size, Len(p) <= max_frame_payload
      PROVE  IsFrame(F)
  <2>1. /\ F.bytes = make_frame(size, p) /\ F.payload = p /\ F.ok = TRUE
        /\ F.needs = Len(make_frame(size, p))
    BY <1>1, Zenon DEF Frame
  <2>2. make_frame(size, p) \in Seq(Byte) /\ Len(make_frame(size, p)) = 3 + size + Len(p)
    BY MakeFrameTyped DEF Made
  <2>3. PICK x : x = make_frame(size, p)
    OBVIOUS
  <2>4. F.needs \in Nat /\ F.needs >= 3 /\ F.needs = Len(F.bytes)
    <3>1. Len(x) \in Nat /\ Len(x) >= 3
      BY <2>2, <2>3
    <3> QED
      BY <2>1, <2>3, <3>1
  <2>5. /\ F.bytes \in Seq(Byte) /\ F.payload \in Seq(Byte) /\ Len(F.payload) <= max_frame_payload
        /\ width(Len(F.payload)) <= size /\ F.bytes = make_frame(size, F.payload)
    BY <1>1, <2>1, <2>2, Zenon
  <2> QED
    <3>1. F.needs <= Len(F.bytes)
      BY <2>4
    <3>2. F.ok \in BOOLEAN
      BY <2>1, Zenon
    <3> QED
      BY <2>1, <2>4, <2>5, <3>1, <3>2, Zenon DEF IsFrame
<1>2. CASE F \in Good
  <2>1. \E size \in ScalarSize : \E p \in Payload : F = Frame(size, p, FALSE)
    BY <1>2, SMT DEF Good, Frame
  <2>2. PICK size \in ScalarSize : \E p \in Payload : F = Frame(size, p, FALSE)
    BY <2>1, Zenon
  <2>3. PICK p \in Payload : F = Frame(size, p, FALSE)
    BY <2>2, Zenon
  <2>4. /\ size \in {1, 2, 4, 8} /\ p \in Seq(Byte) /\ width(Len(p)) <= size
        /\ Len(p) <= max_frame_payload
    BY FrameAssumption
  <2> QED
    BY <1>1, <2>3, <2>4, Zenon
<1>3. CASE F \in Lines
  <2>1. PICK t \in Text : F = Frame(width(Len(write_wstring(t))), write_wstring(t), TRUE)
    BY <1>3, Zenon DEF Lines
  <2>2. PICK p : p = write_wstring(t)
    OBVIOUS
  <2>3. p \in Seq(Byte) /\ Len(p) <= max_frame_payload
    BY <2>2, FrameAssumption, TextTyped
  <2>4. width(Len(p)) \in {1, 2, 4, 8} /\ width(Len(p)) <= width(Len(p))
    BY DEF width
  <2>5. F = Frame(width(Len(p)), p, TRUE)
    BY <2>1, <2>2, Zenon
  <2> QED
    BY <1>1, <2>3, <2>4, <2>5, Zenon
<1>4. CASE F \in Bad
  <2>1. PICK m \in Malformed :
          F = [bytes |-> m.bytes, payload |-> <<>>, ok |-> FALSE, text |-> FALSE, needs |-> m.needs]
    BY <1>4, Zenon DEF Bad
  <2>2. /\ F.bytes = m.bytes /\ F.payload = <<>> /\ F.ok = FALSE /\ F.needs = m.needs
    BY <2>1, Zenon
  <2>3. /\ m.bytes \in Seq(Byte) /\ Len(m.bytes) >= m.needs
        /\ \/ NoHeader(m.bytes) /\ m.needs = 3
           \/ ~ NoHeader(m.bytes) /\ NoLength(m.bytes) /\ m.needs = 3 + m.bytes[3]
    BY FrameAssumption
  <2>4. m.needs \in Nat /\ m.needs >= 3
    BY <2>3 DEF NoHeader
  <2>5. F.payload \in Seq(Byte)
    BY <2>2
  <2> QED
    BY <2>2, <2>3, <2>4, <2>5, Zenon DEF IsFrame
<1> QED
  BY <1>2, <1>3, <1>4 DEF Sent

\* How next decides on bytes that may hold a width.
LEMMA NextOf ==
  ASSUME NEW r \in Seq(Byte)
  PROVE  /\ Len(r) < 3 => next(r) = Incomplete
         /\ Len(r) >= 3 /\ NoHeader(r) => next(r) = Error
         /\ Len(r) >= 3 /\ ~ NoHeader(r) =>
              /\ r[3] \in {1, 2, 4, 8}
              /\ Len(r) < 3 + r[3] => next(r) = Incomplete
              /\ Len(r) >= 3 + r[3] => next(r) = Body(r, 3 + r[3], Signed(SubSeq(r, 4, 3 + r[3])))
<1>1. Len(r) < 3 => next(r) = Incomplete
  BY DEF next
<1>2. ASSUME Len(r) >= 3, NoHeader(r) PROVE next(r) = Error
  BY <1>2 DEF next, NoHeader
<1>3. ASSUME Len(r) >= 3, ~ NoHeader(r)
      PROVE  /\ r[3] \in {1, 2, 4, 8}
             /\ Len(r) < 3 + r[3] => next(r) = Incomplete
             /\ Len(r) >= 3 + r[3] => next(r) = Body(r, 3 + r[3], Signed(SubSeq(r, 4, 3 + r[3])))
  <2>1. ~ (SubSeq(r, 1, 2) # magic \/ r[3] \notin {1, 2, 4, 8}) /\ ~ (Len(r) < 3)
    BY <1>3 DEF NoHeader
  <2>2. r[3] \in {1, 2, 4, 8}
    BY <2>1
  <2>3. Len(r) < 3 + r[3] => next(r) = Incomplete
    BY <2>1 DEF next
  <2>4. ASSUME Len(r) >= 3 + r[3]
        PROVE  next(r) = Body(r, 3 + r[3], Signed(SubSeq(r, 4, 3 + r[3])))
    <3>1. ~ (Len(r) < 3 + r[3])
      BY <2>2, <2>4
    <3>2. next(r) = Body(r, 3 + r[3], read_scalar(SubSeq(r, 3, 3 + r[3])).value)
      BY <2>1, <3>1 DEF next
    <3>3. read_scalar(SubSeq(r, 3, 3 + r[3])).value = Signed(SubSeq(r, 4, 3 + r[3]))
      BY <1>3, <2>2, <2>4, HeaderIs
    <3> QED
      BY <3>2, <3>3
  <2> QED
    BY <2>2, <2>3, <2>4
<1> QED
  BY <1>1, <1>2, <1>3

\* b and r agree as far as both go.
Agree(r, b) == \A i \in 1 .. Len(r) : i <= Len(b) => r[i] = b[i]

\* The beginning of what agrees.
LEMMA SameHeader ==
  ASSUME NEW r \in Seq(Byte), NEW b \in Seq(Byte), Agree(r, b), Len(r) >= 3, Len(b) >= 3
  PROVE  (NoHeader(r) <=> NoHeader(b)) /\ r[3] = b[3]
<1>1. r[1] = b[1] /\ r[2] = b[2] /\ r[3] = b[3]
  BY DEF Agree
<1>2. SubSeq(r, 1, 2) = SubSeq(b, 1, 2)
  BY <1>1
<1> QED
  BY <1>1, <1>2 DEF NoHeader

\* And the bytes of the length behind it.
LEMMA SameLength ==
  ASSUME NEW r \in Seq(Byte), NEW b \in Seq(Byte), Agree(r, b),
         NEW n \in Nat, Len(r) >= 3 + n, Len(b) >= 3 + n
  PROVE  /\ SubSeq(r, 4, 3 + n) = SubSeq(b, 4, 3 + n)
         /\ SubSeq(b, 4, 3 + n) \in Seq(Byte) /\ Len(SubSeq(b, 4, 3 + n)) = n
<1>1. PICK x : x = SubSeq(r, 4, 3 + n)
  OBVIOUS
<1>2. PICK y : y = SubSeq(b, 4, 3 + n)
  OBVIOUS
<1>3. x \in Seq(Byte) /\ Len(x) = n /\ \A i \in 1 .. n : x[i] = r[3 + i]
  <2>1. IsSub(x, r, 3, n)
    BY <1>1 DEF IsSub
  <2> QED
    BY <2>1, Sub
<1>4. y \in Seq(Byte) /\ Len(y) = n /\ \A i \in 1 .. n : y[i] = b[3 + i]
  <2>1. IsSub(y, b, 3, n)
    BY <1>2 DEF IsSub
  <2> QED
    BY <2>1, Sub
<1>5. \A i \in 1 .. n : r[3 + i] = b[3 + i]
  BY DEF Agree
<1>6. \A i \in 1 .. Len(x) : x[i] = y[i]
  BY <1>3, <1>4, <1>5
<1>7. x = y
  BY <1>3, <1>4, <1>6, Same
<1> QED
  BY <1>1, <1>2, <1>4, <1>7

\* The parser waits for the whole of a frame, and then takes it.
LEMMA NextGood ==
  ASSUME NEW r \in Seq(Byte), NEW F, IsFrame(F), F.ok, Agree(r, F.bytes)
  PROVE  /\ Len(r) < F.needs => next(r) = Incomplete
         /\ Len(r) >= F.needs =>
              next(r) = [kind |-> "frame", payload |-> F.payload,
                         rest |-> SubSeq(r, Len(F.bytes) + 1, Len(r))]
<1>1. PICK size \in {1, 2, 4, 8} : width(Len(F.payload)) <= size /\ F.bytes = make_frame(size, F.payload)
  BY DEF IsFrame
<1>2. PICK p \in Seq(Byte) : p = F.payload /\ Len(p) <= max_frame_payload
  BY DEF IsFrame
<1>3. PICK b \in Seq(Byte) : b = F.bytes /\ F.needs = Len(b)
  BY DEF IsFrame
<1>4. /\ b = make_frame(size, p) /\ Agree(r, b) /\ width(Len(p)) <= size
  BY <1>1, <1>2, <1>3
<1>5. /\ Len(b) = 3 + size + Len(p) /\ b[1] = 19 /\ b[2] = 87 /\ b[3] = size
      /\ \A i \in 1 .. size : b[3 + i] = write(Len(p), size)[i]
      /\ \A i \in 1 .. Len(p) : b[3 + size + i] = p[i]
  <2>1. Made(b, size, p)
    BY <1>1, <1>2, <1>4, MakeFrameTyped
  <2> QED
    BY <2>1, Zenon DEF Made
<1>6. Len(p) \in Nat /\ Len(p) <= MaxInt
  BY <1>2, FrameAssumption, SMT DEF MaxInt
<1>7. ~ NoHeader(b)
  <2>1. SubSeq(b, 1, 2) = magic
    <3>1. Len(b) \in Nat /\ Len(b) >= 2
      BY <1>1, <1>3, <1>5, <1>6
    <3>2. PICK c : c = SubSeq(b, 1, 2)
      OBVIOUS
    <3>3. c \in Seq(Byte) /\ Len(c) = 2 /\ c[1] = 19 /\ c[2] = 87
      BY <1>3, <1>5, <3>1, <3>2
    <3>4. magic \in Seq(Byte) /\ Len(magic) = 2 /\ magic[1] = 19 /\ magic[2] = 87
      BY DEF magic, Byte
    <3>5. \A i \in 1 .. Len(c) : c[i] = magic[i]
      BY <3>3, <3>4
    <3>6. c = magic
      BY <3>3, <3>4, <3>5, Same
    <3> QED
      BY <3>2, <3>6
  <2> QED
    BY <1>1, <1>5, <2>1 DEF NoHeader
<1>8. CASE Len(r) < 3
  BY <1>1, <1>3, <1>5, <1>6, <1>8, NextOf
<1>9. CASE Len(r) >= 3
  <2>1. /\ ~ NoHeader(r) /\ r[3] = size
        /\ Len(r) >= 3 + size => SubSeq(r, 4, 3 + size) = SubSeq(b, 4, 3 + size)
    <3>1. Len(b) >= 3 + size /\ Len(b) >= 3 /\ size \in Nat
      BY <1>1, <1>5, <1>6
    <3>2. NoHeader(r) <=> NoHeader(b)
      BY <1>3, <1>4, <1>9, <3>1, SameHeader
    <3>3. r[3] = b[3]
      BY <1>3, <1>4, <1>9, <3>1, SameHeader
    <3>4. Len(r) >= 3 + size => SubSeq(r, 4, 3 + size) = SubSeq(b, 4, 3 + size)
      BY <1>4, <3>1, SameLength
    <3> QED
      BY <1>5, <1>7, <3>2, <3>3, <3>4
  <2>2. CASE Len(r) < 3 + size
    BY <1>1, <1>3, <1>5, <1>6, <1>9, <2>1, <2>2, NextOf
  <2>3. CASE Len(r) >= 3 + size
    <3>1. next(r) = Body(r, 3 + size, Signed(SubSeq(b, 4, 3 + size)))
      BY <1>9, <2>1, <2>3, NextOf
    <3>2. SubSeq(b, 4, 3 + size) = write(Len(p), size)
      <4>1. PICK x : x = SubSeq(b, 4, 3 + size)
        OBVIOUS
      <4>2. PICK w : w = write(Len(p), size)
        OBVIOUS
      <4>3. x \in Seq(Byte) /\ Len(x) = size /\ \A i \in 1 .. size : x[i] = b[3 + i]
        <5>1. IsSub(x, b, 3, size)
          BY <4>1 DEF IsSub
        <5>2. 3 + size <= Len(b) /\ size \in Nat
          BY <1>5, <1>6
        <5> QED
          BY <5>1, <5>2, Sub
      <4>4. w \in Seq(Byte) /\ Len(w) = size
        BY <1>1, <1>6, <4>2, WriteTyped
      <4>5. \A i \in 1 .. Len(x) : x[i] = w[i]
        BY <1>5, <4>2, <4>3
      <4>6. x = w
        BY <4>3, <4>4, <4>5, SeqEqual
      <4> QED
        BY <4>1, <4>2, <4>6
    <3>3. Signed(write(Len(p), size)) = Len(p)
      BY <1>1, <1>4, <1>6, SignedWrite
    <3>4. PICK n \in Nat : n = Len(p) /\ n <= max_frame_payload
      BY <1>2, <1>6
    <3>5. next(r) = Body(r, 3 + size, n)
      BY <3>1, <3>2, <3>3, <3>4
    <3>6. ~ (n < 0 \/ n > max_frame_payload)
      BY <3>4, FrameAssumption
    <3>7. CASE Len(r) < 3 + size + n
      <4>1. Len(r) < F.needs
        BY <1>1, <1>3, <1>5, <3>4, <3>7
      <4>2. next(r) = Incomplete
        BY <3>5, <3>6, <3>7 DEF Body
      <4>3. ~ (Len(r) >= F.needs)
        BY <1>3, <4>1
      <4> QED
        BY <4>2, <4>3
    <3>8. CASE Len(r) >= 3 + size + n
      <4>1. next(r) = [kind |-> "frame", payload |-> SubSeq(r, 3 + size + 1, 3 + size + n),
                       rest |-> SubSeq(r, 3 + size + n + 1, Len(r))]
        BY <1>1, <3>4, <3>5, <3>6, <3>8 DEF Body
      <4>2. PICK y : y = SubSeq(r, 3 + size + 1, 3 + size + n)
        OBVIOUS
      <4>3. y \in Seq(Byte) /\ Len(y) = n /\ \A i \in 1 .. n : y[i] = r[3 + size + i]
        BY <1>1, <3>4, <3>8, <4>2
      <4>4. \A i \in 1 .. n : r[3 + size + i] = b[3 + size + i]
        <5>1. ASSUME NEW i \in 1 .. n PROVE r[3 + size + i] = b[3 + size + i]
          <6>1. Len(b) = 3 + size + n
            BY <1>5, <3>4
          <6>2. 3 + size + i \in 1 .. Len(r) /\ 3 + size + i <= 3 + size + n
            BY <3>8
          <6> QED
            BY <1>4, <6>1, <6>2 DEF Agree
        <5> QED
          BY <5>1
      <4>5. \A i \in 1 .. Len(y) : y[i] = p[i]
        BY <1>5, <3>4, <4>3, <4>4
      <4>6. y = p
        BY <1>2, <3>4, <4>3, <4>5, SeqEqual
      <4>7. 3 + size + n + 1 = Len(F.bytes) + 1 /\ Len(r) >= F.needs
        BY <1>1, <1>3, <1>5, <3>4, <3>8
      <4>8. next(r) = [kind |-> "frame", payload |-> F.payload,
                       rest |-> SubSeq(r, Len(F.bytes) + 1, Len(r))]
        BY <1>2, <4>1, <4>2, <4>6, <4>7
      <4>9. ~ (Len(r) < F.needs)
        BY <1>3, <4>7
      <4> QED
        BY <4>8, <4>9
    <3> QED
      BY <1>1, <3>4, <3>7, <3>8
  <2> QED
    BY <1>1, <2>2, <2>3
<1>10. Len(r) < 3 \/ Len(r) >= 3
  OBVIOUS
<1> QED
  BY <1>8, <1>9, <1>10, Zenon

\* The parser gives up as soon as the bytes that show a frame to be none are there.
LEMMA NextBad ==
  ASSUME NEW r \in Seq(Byte), NEW F, IsFrame(F), ~ F.ok, Agree(r, F.bytes)
  PROVE  /\ Len(r) < F.needs => next(r) = Incomplete
         /\ Len(r) >= F.needs => next(r) = Error
<1>1. PICK b \in Seq(Byte), needs \in Nat :
         b = F.bytes /\ needs = F.needs /\ needs >= 3 /\ needs <= Len(b)
  BY DEF IsFrame
<1>2. \/ NoHeader(b) /\ needs = 3
      \/ ~ NoHeader(b) /\ NoLength(b) /\ needs = 3 + b[3]
  BY <1>1 DEF IsFrame
<1>3. Agree(r, b)
  BY <1>1
<1>4. CASE Len(r) < 3
  BY <1>1, <1>4, NextOf
<1>5. ASSUME Len(r) >= 3, NoHeader(b), needs = 3
      PROVE  next(r) = Error
  <2>1. NoHeader(r)
    BY <1>1, <1>3, <1>5, SameHeader
  <2> QED
    BY <1>5, <2>1, NextOf
<1>6. ASSUME Len(r) >= 3, ~ NoHeader(b), NoLength(b), needs = 3 + b[3]
      PROVE  /\ Len(r) < needs => next(r) = Incomplete
             /\ Len(r) >= needs => next(r) = Error
  <2>1. ~ NoHeader(r) /\ r[3] = b[3]
    BY <1>1, <1>3, <1>6, SameHeader
  <2>2. r[3] \in {1, 2, 4, 8}
    BY <1>6, <2>1, NextOf
  <2>3. Len(r) < needs => next(r) = Incomplete
    BY <1>6, <2>1, NextOf
  <2>4. ASSUME Len(r) >= needs PROVE next(r) = Error
    <3>1. PICK n \in Nat : n = b[3] /\ n >= 1
      BY <2>1, <2>2
    <3>2. Len(r) >= 3 + n /\ Len(b) >= 3 + n
      BY <1>1, <1>6, <2>4, <3>1
    <3>3. /\ SubSeq(r, 4, 3 + n) = SubSeq(b, 4, 3 + n)
          /\ SubSeq(b, 4, 3 + n) \in Seq(Byte) /\ Len(SubSeq(b, 4, 3 + n)) = n
      BY <1>3, <3>2, SameLength
    <3>4. next(r) = Body(r, 3 + n, Signed(SubSeq(b, 4, 3 + n)))
      BY <1>6, <2>1, <3>1, <3>2, <3>3, NextOf
    <3>5. PICK v : v = Signed(SubSeq(b, 4, 3 + n))
      OBVIOUS
    <3>6. v \in Int
      <4>1. PICK y : y = SubSeq(b, 4, 3 + n)
        OBVIOUS
      <4>2. y \in Seq(Byte) /\ Len(y) > 0
        BY <3>1, <3>3, <4>1
      <4> QED
        BY <3>5, <4>1, <4>2, SignedTyped
    <3>7. v \notin 0 .. max_frame_payload
      BY <1>6, <3>1, <3>5 DEF NoLength
    <3>8. v < 0 \/ v > max_frame_payload
      BY <3>6, <3>7, FrameAssumption
    <3> QED
      BY <3>4, <3>5, <3>8 DEF Body
  <2> QED
    BY <2>3, <2>4
<1> QED
  BY <1>1, <1>2, <1>4, <1>5, <1>6

\* Every frame takes bytes, so that they start one after the other.
LEMMA StartsRise ==
  ASSUME NEW s \in Seq(Sent), NEW k \in 1 .. Len(s) + 1
  PROVE  \A i \in k .. Len(s) + 1 : Starts(s)[k] <= Starts(s)[i]
<1>1. \A x \in Sent : x.bytes \in Seq(Byte)
  BY FrameIs DEF IsFrame
<1>2. PICK st : st = Starts(s)
  OBVIOUS
<1>3. PICK n \in Nat : n = Len(s)
  OBVIOUS
<1>4. /\ \A i \in 1 .. n + 1 : st[i] \in Nat
      /\ \A i \in 1 .. n : st[i + 1] = st[i] + Len(s[i].bytes)
  <2>1. Starts(s) \in [1 .. Len(s) + 1 -> Nat]
    BY <1>1, StartsIs
  <2>2. \A i \in 1 .. Len(s) : Starts(s)[i + 1] = Starts(s)[i] + Len(s[i].bytes)
    BY <1>1, StartsIs
  <2> QED
    BY <1>2, <1>3, <2>1, <2>2
<1>5. \A i \in 1 .. n : Len(s[i].bytes) \in Nat
  BY <1>1, <1>3
<1> DEFINE P == {i \in 0 .. n + 1 : i >= k => st[k] <= st[i]}
<1>6. 0 \in P
  BY <1>3
<1>7. ASSUME NEW i \in 1 .. n + 1, i - 1 \in P PROVE i \in P
  <2>1. CASE i <= k
    BY <1>3, <1>4, <2>1
  <2>2. CASE i > k
    <3>1. i - 1 \in 1 .. n /\ (i - 1) + 1 = i /\ st[k] <= st[i - 1]
      BY <1>3, <1>7, <2>2
    <3>2. st[i] = st[i - 1] + Len(s[i - 1].bytes)
      BY <1>4, <3>1
    <3>3. Len(s[i - 1].bytes) \in Nat
      BY <1>5, <3>1
    <3> QED
      BY <1>3, <1>4, <3>1, <3>2, <3>3
  <2> QED
    BY <1>3, <2>1, <2>2
<1>8. n + 1 \in Nat
  BY <1>3
<1> HIDE DEF P
<1>9. \A i \in 0 .. n + 1 : i \in P
  BY <1>6, <1>7, <1>8, Ascends
<1> USE DEF P
<1> QED
  BY <1>2, <1>3, <1>9

\* One more frame at the end moves no other.
LEMMA StartsKept ==
  ASSUME NEW s \in Seq(Sent), NEW F \in Sent
  PROVE  \A i \in 1 .. Len(s) + 1 : Starts(Append(s, F))[i] = Starts(s)[i]
<1>1. \A x \in Sent : x.bytes \in Seq(Byte)
  BY FrameIs DEF IsFrame
<1>2. PICK t : t = Append(s, F)
  OBVIOUS
<1>3. PICK n \in Nat : n = Len(s)
  OBVIOUS
<1>4. t \in Seq(Sent) /\ Len(t) = n + 1 /\ \A i \in 1 .. n : t[i] = s[i]
  BY <1>2, <1>3, AppendProperties
<1>5. /\ Starts(s)[1] = 0
      /\ \A i \in 1 .. n : Starts(s)[i + 1] = Starts(s)[i] + Len(s[i].bytes)
  BY <1>1, <1>3, StartsIs
<1>6. /\ Starts(t)[1] = 0
      /\ \A i \in 1 .. n + 1 : Starts(t)[i + 1] = Starts(t)[i] + Len(t[i].bytes)
  BY <1>1, <1>4, StartsIs
<1> DEFINE P == {i \in 0 .. n : Starts(t)[i + 1] = Starts(s)[i + 1]}
<1>7. 0 \in P
  BY <1>3, <1>5, <1>6
<1>8. ASSUME NEW i \in 1 .. n, i - 1 \in P PROVE i \in P
  <2>1. Starts(t)[i] = Starts(s)[i]
    BY <1>3, <1>8
  <2>2. Starts(t)[i + 1] = Starts(t)[i] + Len(t[i].bytes)
    BY <1>3, <1>6
  <2>3. Starts(s)[i + 1] = Starts(s)[i] + Len(s[i].bytes)
    BY <1>5
  <2> QED
    BY <1>3, <1>4, <2>1, <2>2, <2>3
<1> HIDE DEF P
<1>9. \A i \in 0 .. n : i \in P
  BY <1>3, <1>7, <1>8, Ascends
<1> USE DEF P
<1>10. ASSUME NEW i \in 1 .. n + 1 PROVE Starts(t)[i] = Starts(s)[i]
  <2>1. i - 1 \in 0 .. n /\ (i - 1) + 1 = i
    BY <1>3
  <2>2. i - 1 \in P
    BY <1>9, <2>1
  <2> QED
    BY <2>1, <2>2
<1> QED
  BY <1>2, <1>3, <1>10

-----------------------------------------------------------------------------
(* The loop *)

\* What every turn keeps holds at the end, where no complete frame is left.
LEMMA DrainEnds ==
  ASSUME NEW b \in Seq(Byte), NEW done \in Seq(Seq(Byte)), NEW P \in SUBSET Draining,
         [rest |-> b, done |-> done, ok |-> TRUE] \in P,
         \A d \in P : Turn(d) \in P
  PROVE  /\ Drain(b, done) \in P
         /\ next(Drain(b, done).rest) \in {Incomplete, Error}
         /\ Drain(b, done).ok <=> next(Drain(b, done).rest) = Incomplete
<1>1. PICK f, n : /\ n \in Nat /\ 4 * n > Len(b)
                  /\ Drain(b, done) = f[n]
                  /\ f[0] = [rest |-> b, done |-> done, ok |-> TRUE]
                  /\ \A k \in 1 .. n : f[k] = Turn(f[k - 1])
  BY DrainIs
<1>2. Len(b) \in Nat /\ n >= 1
  BY <1>1
<1> DEFINE Stuck(d) == next(d.rest) \in {Incomplete, Error}
           Q == {k \in 0 .. n : /\ f[k] \in P
                                /\ Stuck(f[k]) \/ Len(f[k].rest) + 4 * k <= Len(b)}
<1>3. 0 \in Q
  <2>1. f[0].rest = b
    BY <1>1
  <2> QED
    BY <1>1, <1>2, <2>1
<1>4. ASSUME NEW d \in P
      PROVE  /\ d \in Draining /\ d.rest \in Seq(Byte) /\ Len(d.rest) \in Nat
             /\ Stuck(d) => Turn(d).rest = d.rest /\ (Turn(d).ok <=> next(d.rest) = Incomplete)
             /\ ~ Stuck(d) => Len(Turn(d).rest) + 4 <= Len(d.rest)
  <2>1. d \in Draining
    OBVIOUS
  <2>2. d.rest \in Seq(Byte) /\ Len(d.rest) \in Nat
    BY <2>1 DEF Draining
  <2>3. ASSUME Stuck(d)
        PROVE  Turn(d).rest = d.rest /\ (Turn(d).ok <=> next(d.rest) = Incomplete)
    BY <2>1, <2>3, TurnIs
  <2>4. ASSUME ~ Stuck(d) PROVE Len(Turn(d).rest) + 4 <= Len(d.rest)
    <3>1. PICK p \in Seq(Byte), r \in Seq(Byte) :
            next(d.rest) = [kind |-> "frame", payload |-> p, rest |-> r] /\ Len(r) + 4 <= Len(d.rest)
      BY <2>2, <2>4, NextIs
    <3>2. Turn(d) = [rest |-> r, done |-> Append(d.done, p), ok |-> TRUE]
      BY <2>1, <3>1, TurnIs
    <3> QED
      BY <3>1, <3>2
  <2> QED
    BY <2>1, <2>2, <2>3, <2>4
<1>5. ASSUME NEW k \in 1 .. n, k - 1 \in Q PROVE k \in Q
  <2>1. PICK e : e = f[k - 1]
    OBVIOUS
  <2>2. f[k] = Turn(e) /\ e \in P /\ (Stuck(e) \/ Len(e.rest) + 4 * (k - 1) <= Len(b))
    BY <1>1, <1>5, <2>1
  <2>3. f[k] \in P /\ k \in 0 .. n
    BY <1>1, <2>2
  <2>4. CASE Stuck(e)
    <3>1. f[k].rest = e.rest
      BY <1>4, <2>2, <2>4
    <3>2. Stuck(f[k])
      BY <2>4, <3>1
    <3> HIDE DEF Stuck
    <3> QED
      BY <2>3, <3>2
  <2>5. CASE ~ Stuck(e)
    <3>1. PICK y : y = Len(e.rest)
      OBVIOUS
    <3>2. PICK x : x = Len(f[k].rest)
      OBVIOUS
    <3>3. x \in Nat /\ y \in Nat
      BY <1>4, <2>2, <2>3, <3>1, <3>2
    <3>4. y + 4 * (k - 1) <= Len(b)
      BY <2>2, <2>5, <3>1
    <3>5. x + 4 <= y
      BY <1>4, <2>2, <2>5, <3>1, <3>2
    <3>6. x + 4 * k <= Len(b)
      BY <1>1, <1>2, <3>3, <3>4, <3>5
    <3> QED
      BY <2>3, <3>2, <3>6
  <2> QED
    BY <2>4, <2>5
<1> HIDE DEF Q
<1>6. \A k \in 0 .. n : k \in Q
  BY <1>1, <1>3, <1>5, Ascends
<1> USE DEF Q
<1>7. n - 1 \in 0 .. n /\ n \in 1 .. n /\ n \in 0 .. n
  BY <1>1, <1>2
<1>8. PICK d \in P : d = f[n - 1] /\ (Stuck(d) \/ Len(d.rest) + 4 * (n - 1) <= Len(b))
  BY <1>6, <1>7
<1>9. Stuck(d)
  <2>1. ~ (Len(d.rest) >= 4 /\ Len(d.rest) + 4 * (n - 1) <= Len(b))
    <3>1. \A y, l, m \in Int : y >= 4 /\ y + 4 * (m - 1) <= l => ~ (4 * m > l)
      OBVIOUS
    <3>2. Len(d.rest) \in Int /\ Len(b) \in Int /\ n \in Int /\ 4 * n > Len(b)
      BY <1>1, <1>2, <1>4
    <3> QED
      BY <3>1, <3>2
  <2>2. SUFFICES ASSUME ~ Stuck(d) PROVE FALSE
    OBVIOUS
  <2>3. PICK r \in Seq(Byte) : Len(r) + 4 <= Len(d.rest)
    BY <1>4, <1>8, <2>2, NextIs
  <2>4. Len(d.rest) >= 4
    BY <1>4, <1>8, <2>3
  <2> QED
    BY <1>8, <2>1, <2>2, <2>4
<1>10. Drain(b, done) = Turn(d)
  BY <1>1, <1>7, <1>8
<1>11. Turn(d).rest = d.rest /\ (Turn(d).ok <=> next(d.rest) = Incomplete)
  BY <1>4, <1>8, <1>9
<1> QED
  BY <1>8, <1>9, <1>10, <1>11

-----------------------------------------------------------------------------
(* The stream *)

\* Where the frames start, as numbers.
LEMMA StartsFacts ==
  ASSUME NEW s \in Seq(Sent)
  PROVE  /\ Len(s) \in Nat /\ Starts(s)[1] = 0
         /\ \A i \in 1 .. Len(s) + 1 : Starts(s)[i] \in Nat
         /\ \A i \in 1 .. Len(s) :
              /\ s[i] \in Sent /\ IsFrame(s[i])
              /\ s[i].bytes \in Seq(Byte) /\ Len(s[i].bytes) \in Nat
              /\ Starts(s)[i + 1] = Starts(s)[i] + Len(s[i].bytes)
<1>1. \A x \in Sent : IsFrame(x) /\ x.bytes \in Seq(Byte)
  BY FrameIs DEF IsFrame
<1>2. Starts(s) \in [1 .. Len(s) + 1 -> Nat] /\ Starts(s)[1] = 0
  BY <1>1, StartsIs
<1>3. \A i \in 1 .. Len(s) : Starts(s)[i + 1] = Starts(s)[i] + Len(s[i].bytes)
  BY <1>1, StartsIs
<1>4. \A i \in 1 .. Len(s) : s[i] \in Sent
  OBVIOUS
<1>5. \A i \in 1 .. Len(s) : Len(s[i].bytes) \in Nat
  BY <1>1, <1>4
<1>6. Len(s) \in Nat
  OBVIOUS
<1> QED
  BY <1>1, <1>2, <1>3, <1>4, <1>5, <1>6

\* v is the a-th byte of a stream of which r holds those after from up to the R-th, and w
\* the others.
At(v, a, from, R, r, w) ==
  /\ a <= R => v = r[a - from]
  /\ a > R  => v = w[a - R]

\* The bytes of the frames from the k-th on are there.
Lies(s, k, from, r, w, R) ==
  \A i \in k .. Len(s) : \A j \in 1 .. Len(s[i].bytes) :
    At(s[i].bytes[j], Starts(s)[i] + j, from, R, r, w)

\* u is r, of length l, with the first m bytes of w, of length n, and y the others of w.
Moved(l, n, m, r, w, u, y) ==
  /\ \A q \in 1 .. l : u[q] = r[q]
  /\ \A q \in 1 .. m : u[l + q] = w[q]
  /\ \A q \in 1 .. n - m : y[q] = w[m + q]

\* A byte that moves with the border stays in the stream.
LEMMA AtMoved ==
  ASSUME NEW v, NEW a \in Nat, NEW from \in Nat, NEW R \in Nat, NEW l \in Nat, NEW n \in Nat,
         NEW m \in Nat, NEW r, NEW w, NEW u, NEW y,
         R = from + l, from < a, a <= R + n, m <= n,
         At(v, a, from, R, r, w), Moved(l, n, m, r, w, u, y)
  PROVE  At(v, a, from, R + m, u, y)
<1>1. CASE a <= R
  <2>1. a - from \in 1 .. l /\ ~ (a > R + m)
    BY <1>1
  <2>2. v = r[a - from]
    BY <1>1 DEF At
  <2>3. u[a - from] = r[a - from]
    BY <2>1 DEF Moved
  <2> QED
    BY <2>1, <2>2, <2>3 DEF At
<1>2. CASE a > R /\ a <= R + m
  <2>1. a - R \in 1 .. m /\ l + (a - R) = a - from /\ ~ (a > R + m)
    BY <1>2
  <2>2. v = w[a - R]
    BY <1>2 DEF At
  <2>3. u[l + (a - R)] = w[a - R]
    BY <2>1 DEF Moved
  <2> QED
    BY <2>1, <2>2, <2>3 DEF At
<1>3. CASE a > R + m
  <2>1. a - (R + m) \in 1 .. n - m /\ m + (a - (R + m)) = a - R /\ a > R /\ ~ (a <= R + m)
    BY <1>3
  <2>2. v = w[a - R]
    BY <2>1 DEF At
  <2>3. y[a - (R + m)] = w[m + (a - (R + m))]
    BY <2>1 DEF Moved
  <2> QED
    BY <2>1, <2>2, <2>3 DEF At
<1> QED
  BY <1>1, <1>2, <1>3

\* A byte keeps its place when m before it are taken.
LEMMA AtTaken ==
  ASSUME NEW v, NEW a \in Nat, NEW from \in Nat, NEW R, NEW l \in Nat, NEW m \in Nat,
         NEW r, NEW w, NEW u, R = from + l, from + m < a, m <= l, At(v, a, from, R, r, w),
         \A q \in 1 .. l - m : u[q] = r[m + q]
  PROVE  At(v, a, from + m, R, u, w)
<1>1. CASE a <= R
  <2>1. a - (from + m) \in 1 .. l - m /\ m + (a - (from + m)) = a - from /\ ~ (a > R)
    BY <1>1
  <2>2. v = r[a - from]
    BY <1>1 DEF At
  <2>3. u[a - (from + m)] = r[m + (a - (from + m))]
    BY <2>1
  <2> QED
    BY <2>1, <2>2, <2>3 DEF At
<1>2. CASE a > R
  BY <1>2 DEF At
<1> QED
  BY <1>1, <1>2

\* A byte stays where it is when more follow.
LEMMA AtLonger ==
  ASSUME NEW v, NEW a \in Nat, NEW from \in Nat, NEW R \in Nat, NEW n \in Nat,
         NEW r, NEW w, NEW x, a <= R + n, At(v, a, from, R, r, w), \A q \in 1 .. n : x[q] = w[q]
  PROVE  At(v, a, from, R, r, x)
<1>1. CASE a <= R
  BY <1>1 DEF At
<1>2. CASE a > R
  <2>1. a - R \in 1 .. n
    BY <1>2
  <2> QED
    BY <1>2, <2>1 DEF At
<1> QED
  BY <1>1, <1>2

\* r and w hold the stream from the k-th frame on, r as far as the R-th byte.
Ahead(s, k, r, w, R) ==
  /\ r \in Seq(Byte) /\ w \in Seq(Byte)
  /\ R = Starts(s)[k] + Len(r)
  /\ Starts(s)[Len(s) + 1] = R + Len(w)
  /\ Lies(s, k, Starts(s)[k], r, w, R)

\* What is ahead begins with the k-th frame, or there is nothing.
LEMMA AheadFirst ==
  ASSUME NEW s \in Seq(Sent), NEW k \in 1 .. Len(s) + 1, NEW r, NEW w, NEW R, Ahead(s, k, r, w, R)
  PROVE  /\ k <= Len(s) => Agree(r, s[k].bytes)
         /\ k > Len(s) => r = <<>>
<1>1. r \in Seq(Byte) /\ w \in Seq(Byte) /\ Len(r) \in Nat /\ Len(w) \in Nat
  BY DEF Ahead
<1>2. PICK n \in Nat : n = Len(s)
  OBVIOUS
<1>3. PICK from \in Nat : from = Starts(s)[k] /\ R = from + Len(r)
  BY StartsFacts DEF Ahead
<1>4. ASSUME k <= n PROVE Agree(r, s[k].bytes)
  <2>1. k \in k .. n
    BY <1>2, <1>4
  <2>2. ASSUME NEW i \in 1 .. Len(r), i <= Len(s[k].bytes) PROVE r[i] = s[k].bytes[i]
    <3>1. Len(s[k].bytes) \in Nat
      BY <1>2, <1>4, StartsFacts
    <3>2. i \in 1 .. Len(s[k].bytes) /\ from + i <= R /\ from + i - from = i
      BY <1>1, <1>3, <2>2, <3>1
    <3>3. s[k].bytes[i] = r[from + i - from]
      <4>1. At(s[k].bytes[i], from + i, from, R, r, w)
        BY <1>2, <1>3, <2>1, <3>2 DEF Ahead, Lies
      <4> QED
        BY <3>2, <4>1 DEF At
    <3> QED
      BY <3>2, <3>3
  <2> QED
    BY <2>2 DEF Agree
<1>5. ASSUME k > n PROVE r = <<>>
  <2>1. k = n + 1
    BY <1>2, <1>5
  <2>2. from = R + Len(w)
    BY <1>2, <1>3, <2>1 DEF Ahead
  <2>3. Len(r) = 0
    BY <1>1, <1>3, <2>2
  <2> QED
    BY <1>1, <2>3
<1> QED
  BY <1>2, <1>4, <1>5

\* Where the bytes of a frame that is ahead lie.
LEMMA Within ==
  ASSUME NEW s \in Seq(Sent), NEW k \in 1 .. Len(s) + 1, NEW i \in k .. Len(s),
         NEW j \in 1 .. Len(s[i].bytes)
  PROVE  /\ Starts(s)[i] + j \in Nat /\ Starts(s)[k] \in Nat /\ Starts(s)[Len(s) + 1] \in Nat
         /\ Starts(s)[k] < Starts(s)[i] + j
         /\ Starts(s)[i] + j <= Starts(s)[Len(s) + 1]
<1>1. PICK n \in Nat : n = Len(s)
  OBVIOUS
<1>2. i \in 1 .. n /\ i + 1 \in 1 .. n + 1 /\ i \in k .. n + 1 /\ n + 1 \in i + 1 .. n + 1 /\ k \in 1 .. n + 1
  BY <1>1
<1>3. PICK a \in Nat, b \in Nat, c \in Nat, d \in Nat :
         a = Starts(s)[k] /\ b = Starts(s)[i] /\ c = Starts(s)[i + 1] /\ d = Starts(s)[n + 1]
  <2>1. \A q \in 1 .. n + 1 : Starts(s)[q] \in Nat
    BY <1>1, StartsFacts
  <2>2. n + 1 \in 1 .. n + 1 /\ i \in 1 .. n + 1
    BY <1>1, <1>2
  <2> QED
    BY <1>2, <2>1, <2>2
<1>4. a <= b
  BY <1>1, <1>2, <1>3, StartsRise
<1>5. c <= d
  BY <1>1, <1>2, <1>3, StartsRise
<1>6. PICK m \in Nat : m = Len(s[i].bytes) /\ c = b + m
  BY <1>1, <1>2, <1>3, StartsFacts
<1>7. j \in Nat /\ 1 <= j /\ j <= m
  BY <1>6
<1>8. b + j \in Nat /\ a < b + j /\ b + j <= d
  <2>1. b + j <= c
    BY <1>6, <1>7
  <2> QED
    BY <1>4, <1>5, <1>7, <2>1
<1> QED
  BY <1>1, <1>3, <1>8

\* Without the k-th frame, what is ahead begins with the next one.
LEMMA AheadTaken ==
  ASSUME NEW s \in Seq(Sent), NEW k \in 1 .. Len(s), NEW r, NEW w, NEW R, Ahead(s, k, r, w, R),
         Len(r) >= Len(s[k].bytes)
  PROVE  Ahead(s, k + 1, SubSeq(r, Len(s[k].bytes) + 1, Len(r)), w, R)
<1>1. r \in Seq(Byte) /\ w \in Seq(Byte) /\ Len(r) \in Nat /\ Len(w) \in Nat
  BY DEF Ahead
<1>2. PICK n \in Nat : n = Len(s)
  OBVIOUS
<1>3. PICK from \in Nat : from = Starts(s)[k] /\ R = from + Len(r)
  BY StartsFacts DEF Ahead
<1>4. PICK m \in Nat : m = Len(s[k].bytes) /\ Starts(s)[k + 1] = from + m
  BY <1>3, StartsFacts
<1>5. PICK u : u = SubSeq(r, m + 1, Len(r))
  OBVIOUS
<1>6. u \in Seq(Byte) /\ Len(u) = Len(r) - m /\ \A i \in 1 .. Len(r) - m : u[i] = r[m + i]
  <2>1. m <= Len(r)
    BY <1>4
  <2> QED
    BY <1>1, <1>5, <2>1
<1>7. ASSUME NEW i \in k + 1 .. n, NEW j \in 1 .. Len(s[i].bytes)
      PROVE  At(s[i].bytes[j], Starts(s)[i] + j, from + m, R, u, w)
  <2>1. k + 1 \in 1 .. n + 1 /\ i \in k + 1 .. n /\ i \in k .. n
    BY <1>2
  <2>2. PICK a \in Nat : a = Starts(s)[i] + j /\ from + m < a
    <3>1. Starts(s)[i] + j \in Nat /\ Starts(s)[k + 1] < Starts(s)[i] + j
      BY <1>2, <2>1, Within
    <3> QED
      BY <1>4, <3>1
  <2>3. At(s[i].bytes[j], a, from, R, r, w)
    BY <1>2, <1>3, <2>1, <2>2 DEF Ahead, Lies
  <2>4. PICK l \in Nat : l = Len(r) /\ m <= l
    BY <1>1, <1>4
  <2>5. R = from + l /\ \A q \in 1 .. l - m : u[q] = r[m + q]
    BY <1>3, <1>6, <2>4
  <2>6. At(s[i].bytes[j], a, from + m, R, u, w)
    BY <2>2, <2>3, <2>4, <2>5, AtTaken
  <2> QED
    BY <2>2, <2>6
<1>8. Lies(s, k + 1, from + m, u, w, R)
  BY <1>2, <1>7 DEF Lies
<1>9. R = from + m + Len(u)
  BY <1>1, <1>3, <1>6
<1>10. Starts(s)[Len(s) + 1] = R + Len(w)
  BY DEF Ahead
<1> QED
  BY <1>1, <1>4, <1>5, <1>6, <1>8, <1>9, <1>10 DEF Ahead

\* Reading moves the border between the bytes that are there and those on their way.
LEMMA AheadRead ==
  ASSUME NEW s \in Seq(Sent), NEW k \in 1 .. Len(s) + 1, NEW r, NEW w, NEW R \in Nat, Ahead(s, k, r, w, R),
         NEW m \in 1 .. Len(w)
  PROVE  Ahead(s, k, r \o SubSeq(w, 1, m), SubSeq(w, m + 1, Len(w)), R + m)
<1>1. r \in Seq(Byte) /\ w \in Seq(Byte) /\ Len(r) \in Nat /\ Len(w) \in Nat
  BY DEF Ahead
<1>2. PICK from \in Nat : from = Starts(s)[k] /\ R = from + Len(r)
  BY StartsFacts DEF Ahead
<1>3. PICK x : x = SubSeq(w, 1, m)
  OBVIOUS
<1>4. PICK y : y = SubSeq(w, m + 1, Len(w))
  OBVIOUS
<1>5. PICK u : u = r \o x
  OBVIOUS
<1>6. x \in Seq(Byte) /\ Len(x) = m /\ \A q \in 1 .. m : x[q] = w[q]
  BY <1>1, <1>3
<1>7. y \in Seq(Byte) /\ Len(y) = Len(w) - m /\ \A q \in 1 .. Len(w) - m : y[q] = w[m + q]
  BY <1>1, <1>4
<1>8. /\ u \in Seq(Byte) /\ Len(u) = Len(r) + m
      /\ \A q \in 1 .. Len(r) : u[q] = r[q]
      /\ \A q \in 1 .. m : u[Len(r) + q] = x[q]
  <2>1. IsCat(u, r, x)
    BY <1>5 DEF IsCat
  <2>2. x \in Seq(Byte)
    BY <1>6
  <2>3. /\ u \in Seq(Byte) /\ Len(u) = Len(r) + Len(x)
        /\ \A q \in 1 .. Len(r) : u[q] = r[q]
        /\ \A q \in 1 .. Len(x) : u[Len(r) + q] = x[q]
    BY <1>1, <2>1, <2>2, Cat
  <2> QED
    BY <1>6, <2>3
<1>9. Starts(s)[Len(s) + 1] = R + Len(w)
  BY DEF Ahead
<1>10. ASSUME NEW i \in k .. Len(s), NEW j \in 1 .. Len(s[i].bytes)
       PROVE  At(s[i].bytes[j], Starts(s)[i] + j, from, R + m, u, y)
  <2>1. PICK a \in Nat : a = Starts(s)[i] + j /\ from < a /\ a <= R + Len(w)
    <3>1. /\ Starts(s)[i] + j \in Nat /\ Starts(s)[k] < Starts(s)[i] + j
          /\ Starts(s)[i] + j <= Starts(s)[Len(s) + 1]
      BY Within
    <3> QED
      BY <1>2, <1>9, <3>1
  <2>2. At(s[i].bytes[j], a, from, R, r, w)
    BY <1>2, <2>1 DEF Ahead, Lies
  <2>3. Moved(Len(r), Len(w), m, r, w, u, y)
    BY <1>6, <1>7, <1>8 DEF Moved
  <2>4. m \in Nat /\ m <= Len(w)
    BY <1>1
  <2>5. At(s[i].bytes[j], a, from, R + m, u, y)
    BY <1>1, <1>2, <2>1, <2>2, <2>3, <2>4, AtMoved
  <2> QED
    BY <2>1, <2>5
<1>11. Lies(s, k, from, u, y, R + m)
  BY <1>10 DEF Lies
<1>12. R + m = from + Len(u) /\ Starts(s)[Len(s) + 1] = R + m + Len(y)
  <2>1. PICK l \in Nat, n \in Nat : l = Len(r) /\ n = Len(w)
    BY <1>1
  <2>2. R = from + l /\ Len(u) = l + m /\ Len(y) = n - m /\ Starts(s)[Len(s) + 1] = R + n
    BY <1>2, <1>7, <1>8, <1>9, <2>1
  <2>3. m \in Nat
    BY <2>1
  <2>4. R + m = from + (l + m) /\ R + n = R + m + (n - m)
    BY <2>1, <2>2, <2>3
  <2> QED
    BY <2>2, <2>4
<1> QED
  BY <1>2, <1>3, <1>4, <1>5, <1>7, <1>8, <1>11, <1>12 DEF Ahead

\* A frame more lies behind the others.
LEMMA AheadSent ==
  ASSUME NEW s \in Seq(Sent), NEW k \in 1 .. Len(s) + 1, NEW r, NEW w, NEW R \in Nat, Ahead(s, k, r, w, R),
         NEW F \in Sent
  PROVE  Ahead(Append(s, F), k, r, w \o F.bytes, R)
<1>1. r \in Seq(Byte) /\ w \in Seq(Byte) /\ Len(r) \in Nat /\ Len(w) \in Nat
  BY DEF Ahead
<1>2. PICK from \in Nat : from = Starts(s)[k] /\ R = from + Len(r)
  BY StartsFacts DEF Ahead
<1>3. PICK n \in Nat : n = Len(s)
  OBVIOUS
<1>4. PICK t : t = Append(s, F)
  OBVIOUS
<1>5. t \in Seq(Sent) /\ Len(t) = n + 1 /\ t[n + 1] = F /\ \A i \in 1 .. n : t[i] = s[i]
  BY <1>3, <1>4, AppendProperties
<1>6. PICK b \in Seq(Byte) : b = F.bytes /\ Len(b) \in Nat
  BY FrameIs DEF IsFrame
<1>7. PICK x : x = w \o b
  OBVIOUS
<1>8. /\ x \in Seq(Byte) /\ Len(x) = Len(w) + Len(b)
      /\ \A q \in 1 .. Len(w) : x[q] = w[q]
      /\ \A q \in 1 .. Len(b) : x[Len(w) + q] = b[q]
  <2>1. IsCat(x, w, b)
    BY <1>7 DEF IsCat
  <2> QED
    BY <1>1, <2>1, Cat
<1>9. \A i \in 1 .. n + 1 : Starts(t)[i] = Starts(s)[i]
  BY <1>3, <1>4, StartsKept
<1>10. Starts(s)[n + 1] = R + Len(w)
  BY <1>3 DEF Ahead
<1>11. Starts(t)[n + 2] = R + Len(x)
  <2>1. n + 1 \in 1 .. n + 1 /\ n + 1 + 1 = n + 2
    BY <1>3
  <2>2. Starts(t)[n + 1] = R + Len(w)
    BY <1>9, <1>10, <2>1
  <2>3. Starts(t)[n + 1 + 1] = Starts(t)[n + 1] + Len(t[n + 1].bytes)
    BY <1>5, <2>1, StartsFacts
  <2>4. Len(t[n + 1].bytes) = Len(b)
    BY <1>5, <1>6
  <2>5. PICK l \in Nat : l = Len(w)
    BY <1>1
  <2>6. PICK o \in Nat : o = Len(b)
    BY <1>6
  <2>7. Starts(t)[n + 2] = (R + l) + o /\ Len(x) = l + o
    BY <1>8, <2>1, <2>2, <2>3, <2>4, <2>5, <2>6
  <2> QED
    BY <2>7
<1>12. ASSUME NEW i \in k .. n + 1, NEW j \in 1 .. Len(t[i].bytes)
       PROVE  At(t[i].bytes[j], Starts(t)[i] + j, from, R, r, x)
  <2>0. i \in 1 .. n + 1
    BY <1>3
  <2>1. CASE i <= n
    <3>1. i \in k .. Len(s) /\ t[i] = s[i] /\ Starts(t)[i] = Starts(s)[i]
      BY <1>3, <1>5, <1>9, <2>0, <2>1
    <3>2. j \in 1 .. Len(s[i].bytes)
      BY <3>1
    <3>3. PICK a \in Nat : a = Starts(s)[i] + j /\ from < a /\ a <= R + Len(w)
      <4>1. /\ Starts(s)[i] + j \in Nat /\ Starts(s)[k] < Starts(s)[i] + j
            /\ Starts(s)[i] + j <= Starts(s)[Len(s) + 1]
        BY <3>1, <3>2, Within
      <4> QED
        BY <1>2, <1>3, <1>10, <4>1
    <3>4. At(s[i].bytes[j], a, from, R, r, w)
      BY <1>2, <3>1, <3>2, <3>3 DEF Ahead, Lies
    <3>5. \A q \in 1 .. Len(w) : x[q] = w[q]
      BY <1>8
    <3>6. At(s[i].bytes[j], a, from, R, r, x)
      BY <1>1, <3>3, <3>4, <3>5, AtLonger
    <3> QED
      BY <3>1, <3>3, <3>6
  <2>2. CASE i = n + 1
    <3>1. PICK l \in Nat : l = Len(w)
      BY <1>1
    <3>2. t[i].bytes = b /\ Starts(t)[i] = R + l
      BY <1>5, <1>6, <1>9, <1>10, <2>0, <2>2, <3>1
    <3>3. j \in 1 .. Len(b) /\ j \in Nat /\ j >= 1
      BY <1>6, <3>2
    <3>4. x[l + j] = b[j]
      BY <1>8, <3>1, <3>3
    <3>5. \A y, z, q \in Nat : q >= 1 => y + z + q - y = z + q /\ ~ (y + z + q <= y)
      OBVIOUS
    <3>6. R + l + j - R = l + j /\ ~ (R + l + j <= R)
      BY <3>3, <3>5
    <3> QED
      BY <3>2, <3>4, <3>6 DEF At
  <2> QED
    BY <1>3, <2>0, <2>1, <2>2
<1>13. Lies(t, k, from, r, x, R)
  BY <1>5, <1>12 DEF Lies
<1>14. Starts(t)[k] = from
  BY <1>2, <1>3, <1>9
<1>15. Starts(t)[Len(t) + 1] = R + Len(x)
  BY <1>3, <1>5, <1>11
<1>16. Ahead(t, k, r, x, R)
  BY <1>1, <1>2, <1>8, <1>13, <1>14, <1>15 DEF Ahead
<1> QED
  BY <1>4, <1>6, <1>7, <1>16

-----------------------------------------------------------------------------
(* The invariant *)

\* done are the payloads of the first frames, which are well formed.
Taken(s, done) ==
  /\ done \in Seq(Seq(Byte)) /\ Len(done) <= Len(s)
  /\ \A i \in 1 .. Len(done) : s[i].ok /\ done[i] = s[i].payload

\* The states of the loop with the rest of the stream at hand.
Looping(s, w, R) ==
  {d \in Draining : Taken(s, d.done) /\ Ahead(s, Len(d.done) + 1, d.rest, w, R)}

\* A turn takes the next frame, if it is well formed and complete, and else nothing.
LEMMA TurnKeeps ==
  ASSUME NEW s \in Seq(Sent), NEW w, NEW R, NEW d \in Looping(s, w, R)
  PROVE  Turn(d) \in Looping(s, w, R)
<1>1. d \in Draining /\ Taken(s, d.done) /\ Ahead(s, Len(d.done) + 1, d.rest, w, R)
  BY DEF Looping
<1>2. d.rest \in Seq(Byte) /\ d.done \in Seq(Seq(Byte)) /\ Turn(d) \in Draining
  BY <1>1, TurnIs DEF Draining
<1>3. PICK k \in 1 .. Len(s) + 1 : k = Len(d.done) + 1
  BY <1>1, <1>2 DEF Taken
<1>4. CASE next(d.rest) \in {Incomplete, Error}
  <2>1. Turn(d).rest = d.rest /\ Turn(d).done = d.done
    BY <1>1, <1>4, TurnIs
  <2> QED
    BY <1>1, <1>2, <2>1 DEF Looping
<1>5. CASE next(d.rest) \notin {Incomplete, Error}
  <2>1. PICK b \in Seq(Byte) : b = d.rest
    BY <1>2
  <2>2. k <= Len(s) /\ Agree(b, s[k].bytes)
    <3>1. ASSUME k > Len(s) PROVE FALSE
      <4>1. b = <<>>
        BY <1>1, <1>3, <2>1, <3>1, AheadFirst
      <4>2. Len(b) < 3
        BY <4>1
      <4> QED
        BY <1>5, <2>1, <4>2, NextOf
    <3>2. k <= Len(s)
      BY <3>1
    <3> QED
      BY <1>1, <1>3, <2>1, <3>2, AheadFirst
  <2>3. PICK F : F = s[k] /\ F \in Sent /\ IsFrame(F) /\ Agree(b, F.bytes)
    BY <2>2, FrameIs
  <2>4. PICK needs \in Nat : needs = F.needs
    BY <2>3 DEF IsFrame
  <2>5. Len(b) \in Nat
    BY <2>1
  <2>6. F.ok /\ Len(b) >= needs
    <3>1. Len(b) < needs \/ Len(b) >= needs
      BY <2>4, <2>5
    <3>2. ASSUME ~ F.ok PROVE FALSE
      BY <1>5, <2>1, <2>3, <2>4, <3>1, <3>2, NextBad
    <3>3. ASSUME Len(b) < needs PROVE FALSE
      BY <1>5, <2>1, <2>3, <2>4, <3>2, <3>3, NextGood
    <3> QED
      BY <3>1, <3>2, <3>3
  <2>7. PICK p \in Seq(Byte) : p = F.payload
    BY <2>3 DEF IsFrame
  <2>8. PICK r : r = SubSeq(b, Len(F.bytes) + 1, Len(b))
    OBVIOUS
  <2>9. next(b) = [kind |-> "frame", payload |-> p, rest |-> r]
    BY <2>3, <2>4, <2>6, <2>7, <2>8, NextGood
  <2>10. needs = Len(F.bytes) /\ Len(F.bytes) \in Nat
    BY <2>3, <2>4, <2>6 DEF IsFrame
  <2>11. r \in Seq(Byte)
    BY <2>5, <2>6, <2>8, <2>10
  <2>12. PICK e : e = Append(d.done, p)
    OBVIOUS
  <2>13. Turn(d).rest = r /\ Turn(d).done = e
    <3>1. Turn(d) = [rest |-> r, done |-> Append(d.done, p), ok |-> TRUE]
      BY <1>1, <2>1, <2>9, <2>11, TurnIs
    <3> QED
      BY <2>12, <3>1
  <2>14. /\ e \in Seq(Seq(Byte)) /\ Len(e) = k /\ e[k] = p
         /\ \A i \in 1 .. k - 1 : e[i] = d.done[i]
    BY <1>2, <1>3, <2>12, AppendProperties
  <2>15. Taken(s, e)
    <3>1. ASSUME NEW i \in 1 .. k PROVE s[i].ok /\ e[i] = s[i].payload
      <4>1. CASE i = k
        BY <2>3, <2>6, <2>7, <2>14, <4>1
      <4>2. CASE i # k
        <5>1. i \in 1 .. Len(d.done) /\ i \in 1 .. k - 1
          BY <1>2, <1>3, <4>2
        <5> QED
          BY <1>1, <2>14, <5>1 DEF Taken
      <4> QED
        BY <4>1, <4>2
    <3> QED
      BY <2>2, <2>14, <3>1 DEF Taken
  <2>16. Ahead(s, k + 1, r, w, R)
    <3>1. k \in 1 .. Len(s) /\ Len(b) >= Len(s[k].bytes) /\ Ahead(s, k, b, w, R)
      BY <1>1, <1>3, <2>1, <2>2, <2>3, <2>6, <2>10
    <3>2. r = SubSeq(b, Len(s[k].bytes) + 1, Len(b))
      BY <2>3, <2>8
    <3> QED
      BY <3>1, <3>2, AheadTaken
  <2> QED
    BY <1>2, <2>13, <2>14, <2>15, <2>16 DEF Looping
<1> QED
  BY <1>4, <1>5

\* The payloads processed are those of the first frames, which are well formed. An open
\* peer has the stream from the next frame on before it, of which less than a frame is in
\* the buffer; a closed one met a malformed frame there.
FInv ==
  /\ sent \in Seq(Sent) /\ received \in Nat /\ open \in BOOLEAN
  /\ wire \in Seq(Byte) /\ m_buffer \in Seq(Byte)
  /\ Taken(sent, processed)
  /\ Starts(sent)[Len(processed) + 1] <= received
  /\ open => /\ Ahead(sent, Len(processed) + 1, m_buffer, wire, received)
             /\ next(m_buffer) = Incomplete
  /\ ~ open => /\ Len(processed) + 1 \in DOMAIN sent
               /\ ~ sent[Len(processed) + 1].ok
               /\ Decidable(Len(processed) + 1)

\* Before the first frame nothing is there.
LEMMA FInvInit ==
  ASSUME Init
  PROVE  FInv
<1>1. sent = <<>> /\ wire = <<>> /\ m_buffer = <<>> /\ received = 0 /\ processed = <<>> /\ open = TRUE
  BY DEF Init
<1>2. sent \in Seq(Sent) /\ Len(sent) = 0 /\ Len(processed) = 0 /\ processed \in Seq(Seq(Byte))
  BY <1>1
<1>3. Starts(sent)[1] = 0
  BY <1>2, StartsFacts
<1>4. Taken(sent, processed)
  BY <1>2 DEF Taken
<1>5. Lies(sent, 1, 0, m_buffer, wire, 0)
  BY <1>2 DEF Lies
<1>6. Ahead(sent, 1, m_buffer, wire, 0)
  BY <1>1, <1>2, <1>3, <1>5 DEF Ahead
<1>7. next(m_buffer) = Incomplete
  <2>1. m_buffer \in Seq(Byte) /\ Len(m_buffer) < 3
    BY <1>1
  <2> QED
    BY <2>1, NextOf
<1> QED
  BY <1>1, <1>2, <1>3, <1>4, <1>6, <1>7 DEF FInv

\* A frame more changes nothing for those before it.
LEMMA FInvSends ==
  ASSUME FInv, ClientSends
  PROVE  FInv'
<1>1. PICK F \in Sent : sent' = Append(sent, F) /\ wire' = wire \o F.bytes
  BY DEF ClientSends, Sent
<1>2. /\ open /\ m_buffer' = m_buffer /\ received' = received /\ processed' = processed
      /\ open' = open
  BY DEF ClientSends
<1>3. /\ sent \in Seq(Sent) /\ received \in Nat /\ open \in BOOLEAN
      /\ wire \in Seq(Byte) /\ m_buffer \in Seq(Byte) /\ Taken(sent, processed)
      /\ Starts(sent)[Len(processed) + 1] <= received
      /\ Ahead(sent, Len(processed) + 1, m_buffer, wire, received)
      /\ next(m_buffer) = Incomplete
  BY <1>2 DEF FInv
<1>4. PICK k \in 1 .. Len(sent) + 1 : k = Len(processed) + 1
  BY <1>3 DEF Taken
<1>5. /\ sent' \in Seq(Sent) /\ Len(sent') = Len(sent) + 1
      /\ \A i \in 1 .. Len(sent) : sent'[i] = sent[i]
  BY <1>1, <1>3, AppendProperties
<1>6. Taken(sent', processed')
  <2>1. \A i \in 1 .. Len(processed) : sent[i].ok /\ processed[i] = sent[i].payload
    BY <1>3 DEF Taken
  <2>2. processed \in Seq(Seq(Byte)) /\ Len(processed) <= Len(sent)
    BY <1>3 DEF Taken
  <2>3. \A i \in 1 .. Len(processed) : sent'[i] = sent[i]
    BY <1>5, <2>2
  <2>4. Len(processed) <= Len(sent')
    BY <1>3, <1>5, <2>2
  <2>5. Taken(sent', processed)
    BY <2>1, <2>2, <2>3, <2>4 DEF Taken
  <2> QED
    BY <1>2, <2>5
<1>7. Starts(sent')[k] = Starts(sent)[k]
  BY <1>1, <1>3, StartsKept
<1>8. Ahead(sent', k, m_buffer, wire', received)
  BY <1>1, <1>3, <1>4, AheadSent
<1>9. wire' \in Seq(Byte)
  BY <1>8 DEF Ahead
<1> QED
  BY <1>2, <1>3, <1>4, <1>5, <1>6, <1>7, <1>8, <1>9 DEF FInv

\* A read takes all the frames that have become complete.
LEMMA FInvRead ==
  ASSUME FInv, Read
  PROVE  FInv'
<1>1. PICK n, d :
        /\ n \in 1 .. Len(wire)
        /\ d = Drain(m_buffer \o SubSeq(wire, 1, n), processed)
        /\ wire' = SubSeq(wire, n + 1, Len(wire)) /\ received' = received + n
        /\ m_buffer' = d.rest /\ processed' = d.done /\ open' = d.ok
  BY DEF Read
<1>2. open /\ sent' = sent
  BY DEF Read
<1>3. /\ sent \in Seq(Sent) /\ received \in Nat /\ open \in BOOLEAN
      /\ wire \in Seq(Byte) /\ m_buffer \in Seq(Byte) /\ Taken(sent, processed)
      /\ Ahead(sent, Len(processed) + 1, m_buffer, wire, received)
  BY <1>2 DEF FInv
<1>4. PICK k \in 1 .. Len(sent) + 1 : k = Len(processed) + 1
  BY <1>3 DEF Taken
<1>5. PICK b : b = m_buffer \o SubSeq(wire, 1, n)
  OBVIOUS
<1>6. PICK y : y = SubSeq(wire, n + 1, Len(wire))
  OBVIOUS
<1>7. PICK R \in Nat : R = received + n
  BY <1>1, <1>3
<1>8. Ahead(sent, k, b, y, R)
  BY <1>1, <1>3, <1>4, <1>5, <1>6, <1>7, AheadRead
<1>9. b \in Seq(Byte) /\ y \in Seq(Byte) /\ processed \in Seq(Seq(Byte))
  BY <1>3, <1>8 DEF Ahead, Taken
<1>10. [rest |-> b, done |-> processed, ok |-> TRUE] \in Looping(sent, y, R)
  BY <1>3, <1>4, <1>8, <1>9 DEF Looping, Draining
<1>11. Looping(sent, y, R) \in SUBSET Draining
  BY DEF Looping
<1>12. \A e \in Looping(sent, y, R) : Turn(e) \in Looping(sent, y, R)
  BY <1>3, TurnKeeps
<1>13. d = Drain(b, processed)
  BY <1>1, <1>5
<1>14. /\ d \in Looping(sent, y, R)
       /\ next(d.rest) \in {Incomplete, Error}
       /\ d.ok <=> next(d.rest) = Incomplete
  BY <1>9, <1>10, <1>11, <1>12, <1>13, DrainEnds
<1>15. PICK r \in Seq(Byte), done \in Seq(Seq(Byte)) : r = d.rest /\ done = d.done /\ d.ok \in BOOLEAN
  BY <1>14 DEF Looping, Draining
<1>16. Taken(sent, done) /\ Ahead(sent, Len(done) + 1, r, y, R)
  BY <1>14, <1>15 DEF Looping
<1>17. PICK h \in 1 .. Len(sent) + 1 : h = Len(done) + 1
  BY <1>15, <1>16 DEF Taken
<1>18. R = Starts(sent)[h] + Len(r) /\ Starts(sent)[h] \in Nat /\ Len(r) \in Nat
  <2>1. Starts(sent)[h] \in Nat
    BY <1>3, <1>17, StartsFacts
  <2> QED
    BY <1>15, <1>16, <1>17, <2>1 DEF Ahead
<1>19. Starts(sent)[h] <= R
  BY <1>18
<1>20. ASSUME ~ d.ok
       PROVE  h \in DOMAIN sent /\ ~ sent[h].ok /\ Starts(sent)[h] + sent[h].needs <= R
  <2>1. next(r) = Error /\ next(r) # Incomplete
    BY <1>14, <1>15, <1>20 DEF Error, Incomplete
  <2>2. Ahead(sent, h, r, y, R)
    BY <1>16, <1>17
  <2>3. h <= Len(sent)
    <3>1. ASSUME h > Len(sent) PROVE FALSE
      <4>1. r = <<>>
        BY <1>3, <2>2, <3>1, AheadFirst
      <4>2. Len(r) < 3
        BY <4>1
      <4> QED
        BY <2>1, <4>2, NextOf
    <3> QED
      BY <3>1
  <2>4. PICK F : F = sent[h] /\ IsFrame(F) /\ Agree(r, F.bytes)
    <3>1. Agree(r, sent[h].bytes)
      BY <1>3, <2>2, <2>3, AheadFirst
    <3>2. IsFrame(sent[h])
      BY <1>3, <2>3, StartsFacts
    <3> QED
      BY <3>1, <3>2
  <2>5. PICK needs \in Nat : needs = F.needs
    BY <2>4 DEF IsFrame
  <2>6. Len(r) < needs \/ Len(r) >= needs
    BY <1>18, <2>5
  <2>7. ~ F.ok
    <3>1. SUFFICES ASSUME F.ok PROVE FALSE
      OBVIOUS
    <3>2. Len(r) >= needs
      BY <2>1, <2>4, <2>5, <2>6, <3>1, NextGood
    <3>3. next(r) = [kind |-> "frame", payload |-> F.payload,
                     rest |-> SubSeq(r, Len(F.bytes) + 1, Len(r))]
      BY <2>4, <2>5, <3>1, <3>2, NextGood
    <3> QED
      BY <2>1, <3>3 DEF Error
  <2>8. Len(r) >= needs
    BY <2>1, <2>4, <2>5, <2>6, <2>7, NextBad
  <2> QED
    <3>1. h \in DOMAIN sent
      BY <1>3, <2>3
    <3>2. PICK c \in Nat, l \in Nat : c = Starts(sent)[h] /\ l = Len(r) /\ R = c + l
      BY <1>18
    <3>3. c + needs <= R
      BY <2>8, <3>2
    <3> QED
      BY <2>4, <2>5, <2>7, <3>1, <3>2, <3>3
<1>21. Taken(sent', processed') /\ processed' = done
  BY <1>1, <1>2, <1>15, <1>16
<1>22. /\ sent' \in Seq(Sent) /\ received' \in Nat /\ open' \in BOOLEAN
       /\ wire' \in Seq(Byte) /\ m_buffer' \in Seq(Byte)
  BY <1>1, <1>2, <1>3, <1>6, <1>7, <1>9, <1>15
<1>23. open' => Ahead(sent', Len(processed') + 1, m_buffer', wire', received') /\ next(m_buffer') = Incomplete
  BY <1>1, <1>2, <1>6, <1>7, <1>14, <1>15, <1>16, <1>21
<1>24. Starts(sent')[Len(processed') + 1] <= received'
  BY <1>1, <1>2, <1>7, <1>17, <1>19, <1>21
<1>25. ~ open' => /\ Len(processed') + 1 \in DOMAIN sent' /\ ~ sent'[Len(processed') + 1].ok
                 /\ Decidable(Len(processed) + 1)'
  BY <1>1, <1>2, <1>7, <1>17, <1>20, <1>21 DEF Decidable
<1> QED
  BY <1>21, <1>22, <1>23, <1>24, <1>25 DEF FInv

\* The invariant of the parser holds, whatever is sent and however it is cut.
LEMMA FInvHolds == Spec => []FInv
<1>1. FInv /\ [Next]_vars => FInv'
  <2> SUFFICES ASSUME FInv, [Next]_vars PROVE FInv'
    OBVIOUS
  <2>1. CASE ClientSends
    BY <2>1, FInvSends
  <2>2. CASE Read
    BY <2>2, FInvRead
  <2>3. CASE UNCHANGED vars
    BY <2>3 DEF vars, FInv, Decidable
  <2> QED
    BY <2>1, <2>2, <2>3 DEF Next
<1> QED
  BY <1>1, FInvInit, PTL DEF Spec

\* In terms of bytes read: the frames taken are complete, and of a peer that is open the
\* next one, and with it all the others, is not, while a closed one stopped before it.
LEMMA Frontier ==
  ASSUME FInv
  PROVE  /\ Len(processed) \in Nat /\ Len(processed) <= Len(sent) /\ Len(sent) \in Nat
         /\ \A i \in 1 .. Len(processed) :
              sent[i].ok /\ processed[i] = sent[i].payload /\ Decidable(i)
         /\ \A i \in Len(processed) + 1 .. Len(sent) :
              /\ open => ~ Decidable(i) \/ (i # Len(processed) + 1 /\ ~ sent[Len(processed) + 1].ok)
              /\ Decidable(i) => Decidable(Len(processed) + 1) \/ ~ sent[Len(processed) + 1].ok
<1>1. sent \in Seq(Sent) /\ received \in Nat /\ Taken(sent, processed)
  BY DEF FInv
<1>2. PICK n \in Nat : n = Len(sent)
  BY <1>1
<1>3. PICK k \in 1 .. n + 1 : k = Len(processed) + 1 /\ Len(processed) \in Nat /\ Len(processed) <= n
  BY <1>1, <1>2 DEF Taken
<1>4. \A i \in 1 .. n : /\ sent[i].needs \in Nat /\ Starts(sent)[i] \in Nat
                        /\ sent[i].ok => Starts(sent)[i + 1] = Starts(sent)[i] + sent[i].needs
  <2>1. \A i \in 1 .. n : IsFrame(sent[i]) /\ Starts(sent)[i + 1] = Starts(sent)[i] + Len(sent[i].bytes)
    BY <1>1, <1>2, StartsFacts
  <2>2. \A i \in 1 .. n : Starts(sent)[i] \in Nat
    <3>1. \A i \in 1 .. n : i \in 1 .. Len(sent) + 1
      BY <1>2
    <3> QED
      BY <1>1, <3>1, StartsFacts
  <2> QED
    BY <2>1, <2>2 DEF IsFrame
<1>5. Starts(sent)[k] <= received /\ Starts(sent)[k] \in Nat
  BY <1>1, <1>2, <1>3, StartsFacts DEF FInv
<1>6. ASSUME NEW i \in 1 .. Len(processed)
      PROVE  sent[i].ok /\ processed[i] = sent[i].payload /\ Decidable(i)
  <2>1. sent[i].ok /\ processed[i] = sent[i].payload
    BY <1>1 DEF Taken
  <2>2. i \in 1 .. n /\ i + 1 \in 1 .. n + 1 /\ k \in i + 1 .. n + 1
    BY <1>3
  <2>3. PICK a \in Nat, c \in Nat : a = Starts(sent)[i + 1] /\ c = Starts(sent)[k] /\ a <= c
    <3>1. Starts(sent)[i + 1] <= Starts(sent)[k]
      BY <1>1, <1>2, <2>2, StartsRise
    <3>2. Starts(sent)[i + 1] \in Nat
      BY <1>1, <1>2, <2>2, StartsFacts
    <3> QED
      BY <1>5, <3>1, <3>2
  <2>4. a <= received
    BY <1>1, <1>5, <2>3
  <2>5. a = Starts(sent)[i] + sent[i].needs
    BY <1>4, <2>1, <2>2, <2>3
  <2> QED
    BY <2>1, <2>4, <2>5 DEF Decidable
<1>7. ASSUME NEW i \in k .. n, Decidable(i), i # k, sent[k].ok PROVE Decidable(k)
  <2>1. k \in 1 .. n /\ k + 1 \in 1 .. n + 1 /\ i \in k + 1 .. n + 1 /\ i \in 1 .. n
    BY <1>2, <1>7
  <2>2. PICK a \in Nat, c \in Nat, m \in Nat :
          a = Starts(sent)[k + 1] /\ c = Starts(sent)[i] /\ m = sent[i].needs /\ a <= c
    <3>1. Starts(sent)[k + 1] <= Starts(sent)[i]
      BY <1>1, <1>2, <2>1, StartsRise
    <3>2. Starts(sent)[k + 1] \in Nat
      BY <1>1, <1>2, <2>1, StartsFacts
    <3> QED
      BY <1>4, <2>1, <3>1, <3>2
  <2>3. c + m <= received
    BY <1>7, <2>2 DEF Decidable
  <2>4. a <= received
    BY <1>1, <2>2, <2>3
  <2>5. a = Starts(sent)[k] + sent[k].needs
    BY <1>4, <1>7, <2>1, <2>2
  <2> QED
    BY <2>4, <2>5 DEF Decidable
<1>8. ASSUME open, k <= n PROVE ~ Decidable(k)
  <2>1. Ahead(sent, k, m_buffer, wire, received) /\ next(m_buffer) = Incomplete /\ m_buffer \in Seq(Byte)
    BY <1>3, <1>8 DEF FInv
  <2>2. PICK F : F = sent[k] /\ IsFrame(F) /\ Agree(m_buffer, F.bytes)
    <3>1. Agree(m_buffer, sent[k].bytes)
      BY <1>1, <1>2, <1>8, <2>1, AheadFirst
    <3>2. IsFrame(sent[k])
      BY <1>1, <1>2, <1>8, StartsFacts
    <3> QED
      BY <3>1, <3>2
  <2>3. ~ (Len(m_buffer) >= F.needs)
    <3>1. SUFFICES ASSUME Len(m_buffer) >= F.needs PROVE FALSE
      OBVIOUS
    <3>2. CASE F.ok
      <4>1. next(m_buffer) = [kind |-> "frame", payload |-> F.payload,
                              rest |-> SubSeq(m_buffer, Len(F.bytes) + 1, Len(m_buffer))]
        BY <2>1, <2>2, <3>1, <3>2, NextGood
      <4> QED
        BY <2>1, <4>1 DEF Incomplete
    <3>3. CASE ~ F.ok
      <4>1. next(m_buffer) = Error
        BY <2>1, <2>2, <3>1, <3>3, NextBad
      <4> QED
        BY <2>1, <4>1 DEF Incomplete, Error
    <3> QED
      BY <3>2, <3>3
  <2>4. PICK c \in Nat, m \in Nat, l \in Nat :
          c = Starts(sent)[k] /\ m = F.needs /\ l = Len(m_buffer) /\ received = c + l /\ ~ (l >= m)
    <3>1. F.needs \in Nat /\ Len(m_buffer) \in Nat
      BY <2>1, <2>2 DEF IsFrame
    <3>2. received = Starts(sent)[k] + Len(m_buffer)
      BY <2>1 DEF Ahead
    <3> QED
      BY <1>5, <2>3, <3>1, <3>2
  <2>5. ~ (c + m <= received)
    BY <2>4
  <2> QED
    BY <2>2, <2>4, <2>5 DEF Decidable
<1>9. ASSUME NEW i \in k .. n
      PROVE  /\ open => ~ Decidable(i) \/ (i # k /\ ~ sent[k].ok)
             /\ Decidable(i) => Decidable(k) \/ ~ sent[k].ok
  BY <1>2, <1>7, <1>8
<1> QED
  BY <1>2, <1>3, <1>6, <1>9

-----------------------------------------------------------------------------
(* UTF-8 *)

\* The code points: those of the code units, and of the pairs of surrogates.
Codes == {c \in Nat : c < 1114112}

\* The number that the sequence of l bytes from i on stands for.
Decoded(s, i, l) ==
  IF l = 1 THEN Lead(s[i]).bits
  ELSE IF l = 2 THEN Lead(s[i]).bits * 64 + (s[i + 1] % 64)
  ELSE IF l = 3 THEN (Lead(s[i]).bits * 64 + (s[i + 1] % 64)) * 64 + (s[i + 2] % 64)
  ELSE ((Lead(s[i]).bits * 64 + (s[i + 1] % 64)) * 64 + (s[i + 2] % 64)) * 64 + (s[i + 3] % 64)

\* f is the recursion of Point.
PointTo(s, i, f) ==
  f = [j \in i .. Last(s, i) |-> IF j = i THEN Lead(s[i]).bits ELSE f[j - 1] * 64 + (s[j] % 64)]

\* What a first byte says.
LEMMA LeadIs ==
  ASSUME NEW b \in Byte
  PROVE  Lead(b).bits \in Nat /\ Lead(b).extra \in {0, 1, 2, 3}
<1>1. b \in Nat
  BY DEF Byte
<1>2. b % 32 \in Nat /\ b % 16 \in Nat /\ b % 8 \in Nat
  BY <1>1
<1> QED
  BY <1>1, <1>2 DEF Lead

\* The equations of Point.
LEMMA PointIs ==
  ASSUME NEW s \in Seq(Byte), NEW i \in 1 .. Len(s)
  PROVE  /\ Last(s, i) \in i .. Len(s) /\ Point(s, i) \in Nat
         /\ \E f : /\ Point(s, i) = f[Last(s, i)]
                  /\ f[i] = Lead(s[i]).bits
                  /\ \A j \in i + 1 .. Last(s, i) : f[j] = f[j - 1] * 64 + (s[j] % 64)
<1>1. PICK m : m = Last(s, i)
  OBVIOUS
<1>2. \A j \in 1 .. Len(s) : s[j] \in Nat /\ s[j] % 64 \in Nat
  <2>1. \A j \in 1 .. Len(s) : s[j] \in Nat
    BY DEF Byte
  <2>2. \A x \in Nat : x % 64 \in Nat
    OBVIOUS
  <2> QED
    BY <2>1, <2>2
<1>3. PICK bits \in Nat, extra \in Nat : bits = Lead(s[i]).bits /\ extra = Lead(s[i]).extra
  BY LeadIs
<1>4. m \in i .. Len(s) /\ m \in Nat /\ i \in Nat
  BY <1>1, <1>3 DEF Last
<1> DEFINE D == i .. m
           B == {i}
           rank == [j \in D |-> j]
           g == [j \in D \ B |-> [v \in Nat |-> v * 64 + (s[j] % 64)]]
           before == [j \in D \ B |-> j - 1]
<1>5. /\ rank \in [D -> Nat] /\ before \in [D \ B -> D]
      /\ \A j \in D : rank[j] <= m
      /\ \A j \in D \ B : rank[before[j]] < rank[j]
  BY <1>4
<1>6. g \in [D \ B -> [Nat -> Nat]]
  <2>1. ASSUME NEW j \in D \ B, NEW v \in Nat PROVE v * 64 + (s[j] % 64) \in Nat
    <3>1. j \in 1 .. Len(s)
      BY <1>4
    <3>2. s[j] % 64 \in Nat
      BY <1>2, <3>1
    <3> QED
      BY <3>2
  <2> QED
    BY <2>1
<1>7. PICK f : Solves(D, B, Nat, bits, g, before, f)
  <2> HIDE DEF D, B, rank, g, before
  <2> QED
    BY <1>4, <1>5, <1>6, Solvable
<1>8. PointTo(s, i, f)
  <2>1. ASSUME NEW j \in D
        PROVE  f[j] = IF j = i THEN bits ELSE f[j - 1] * 64 + (s[j] % 64)
    <3>1. CASE j = i
      BY <1>7, <3>1 DEF Solves
    <3>2. CASE j # i
      <4>1. j \in D \ B /\ j - 1 \in D /\ before[j] = j - 1
        BY <1>4, <3>2
      <4>2. f[j - 1] \in Nat
        BY <1>7, <4>1 DEF Solves
      <4>3. f[j] = g[j][f[before[j]]]
        BY <1>7, <4>1 DEF Solves
      <4>4. f[j] = g[j][f[j - 1]]
        BY <4>1, <4>3
      <4>5. g[j] = [v \in Nat |-> v * 64 + (s[j] % 64)]
        BY <4>1
      <4> QED
        BY <3>2, <4>2, <4>4, <4>5
    <3> QED
      BY <3>1, <3>2
  <2>2. f = [j \in D |-> f[j]]
    BY <1>7 DEF Solves
  <2> QED
    BY <1>1, <1>3, <2>1, <2>2 DEF PointTo
<1>9. PICK h : h = CHOOSE e : PointTo(s, i, e)
  OBVIOUS
<1>10. PointTo(s, i, h)
  BY <1>8, <1>9
<1>11. Point(s, i) = h[m]
  BY <1>1, <1>9 DEF Point, PointTo
<1>12. \A j \in D : h[j] = IF j = i THEN bits ELSE h[j - 1] * 64 + (s[j] % 64)
  BY <1>1, <1>3, <1>10 DEF PointTo
<1>13. h[i] = bits
  BY <1>4, <1>12
<1>14. \A j \in i + 1 .. m : h[j] = h[j - 1] * 64 + (s[j] % 64)
  BY <1>4, <1>12
<1>15. D \subseteq {j \in D : h[j] \in Nat}
  <2> DEFINE P == {j \in D : h[j] \in Nat}
  <2>1. \A j \in D \cap B : j \in P
    BY <1>13
  <2>2. ASSUME NEW j \in D \ B, before[j] \in P PROVE j \in P
    <3>1. j \in i + 1 .. m /\ h[j - 1] \in Nat /\ j \in 1 .. Len(s)
      BY <1>4, <2>2
    <3>2. h[j] = h[j - 1] * 64 + (s[j] % 64) /\ s[j] % 64 \in Nat
      BY <1>2, <1>14, <3>1
    <3> QED
      BY <3>1, <3>2
  <2> HIDE DEF D, B, rank, before, P
  <2>3. Inherited(D, B, P, rank, before)
    BY <1>5, <2>1, <2>2 DEF Inherited
  <2>4. D \subseteq P
    BY <2>3, Descends
  <2> QED
    BY <2>4 DEF P
<1>16. h[m] \in Nat
  BY <1>4, <1>15
<1> QED
  BY <1>1, <1>3, <1>4, <1>11, <1>13, <1>14, <1>16

\* A sequence of bytes that is all there stands for this number.
LEMMA PointOf ==
  ASSUME NEW s \in Seq(Byte), NEW i \in 1 .. Len(s), NEW l \in {1, 2, 3, 4},
         Lead(s[i]).extra = l - 1, i + l - 1 <= Len(s)
  PROVE  Last(s, i) = i + l - 1 /\ Point(s, i) = Decoded(s, i, l)
<1>1. Last(s, i) = i + l - 1
  BY DEF Last
<1>2. PICK f : /\ Point(s, i) = f[i + l - 1]
               /\ f[i] = Lead(s[i]).bits
               /\ \A j \in i + 1 .. i + l - 1 : f[j] = f[j - 1] * 64 + (s[j] % 64)
  BY <1>1, PointIs, SMTT(40)
<1>3. i \in Nat
  OBVIOUS
<1>4. CASE l = 1
  <2>1. i + l - 1 = i
    BY <1>3, <1>4
  <2> QED
    BY <1>1, <1>2, <1>4, <2>1 DEF Decoded
<1>5. ASSUME l >= 2 PROVE f[i + 1] = f[i] * 64 + (s[i + 1] % 64)
  <2>1. i + 1 \in i + 1 .. i + l - 1 /\ (i + 1) - 1 = i
    BY <1>3, <1>5
  <2> QED
    BY <1>2, <2>1
<1>6. ASSUME l >= 3 PROVE f[i + 2] = f[i + 1] * 64 + (s[i + 2] % 64)
  <2>1. i + 2 \in i + 1 .. i + l - 1 /\ (i + 2) - 1 = i + 1
    BY <1>3, <1>6
  <2> QED
    BY <1>2, <2>1
<1>7. ASSUME l >= 4 PROVE f[i + 3] = f[i + 2] * 64 + (s[i + 3] % 64)
  <2>1. i + 3 \in i + 1 .. i + l - 1 /\ (i + 3) - 1 = i + 2
    BY <1>3, <1>7
  <2> QED
    BY <1>2, <2>1
<1>8. CASE l = 2
  <2>1. i + l - 1 = i + 1
    BY <1>3, <1>8
  <2> QED
    BY <1>1, <1>2, <1>5, <1>8, <2>1 DEF Decoded
<1>9. CASE l = 3
  <2>1. i + l - 1 = i + 2
    BY <1>3, <1>9
  <2> QED
    BY <1>1, <1>2, <1>5, <1>6, <1>9, <2>1 DEF Decoded
<1>10. CASE l = 4
  <2>1. i + l - 1 = i + 3
    BY <1>3, <1>10
  <2> QED
    BY <1>1, <1>2, <1>5, <1>6, <1>7, <1>10, <2>1 DEF Decoded
<1> QED
  BY <1>4, <1>8, <1>9, <1>10

\* u begins the sequence of c, of l bytes.
Encodes(u, l, c) ==
  /\ u \in Seq(Byte) /\ Len(u) = l /\ l \in {1, 2, 3, 4}
  /\ Lead(u[1]).extra = l - 1
  /\ Decoded(u, 1, l) = c

\* A sequence of one byte stands for what it was made of.
LEMMA Utf8One ==
  ASSUME NEW c \in Nat, c < 128
  PROVE  Encodes(Utf8(c), 1, c)
<1>1. Utf8(c) = <<c>>
  BY DEF Utf8
<1>2. c \in Byte /\ Lead(c).bits = c /\ Lead(c).extra = 0
  BY DEF Byte, Lead
<1> QED
  BY <1>1, <1>2 DEF Encodes, Decoded

\* A byte that follows carries six bits.
LEMMA TailIs ==
  ASSUME NEW x \in Nat
  PROVE  128 + (x % 64) \in Byte /\ (128 + (x % 64)) % 64 = x % 64
BY SMT DEF Byte

\* The same for two bytes.
LEMMA Utf8Two ==
  ASSUME NEW c \in Nat, c >= 128, c < 2048
  PROVE  Encodes(Utf8(c), 2, c)
<1>1. PICK x, y : x = 192 + c \div 64 /\ y = 128 + ((c \div 1) % 64)
  OBVIOUS
<1>2. Utf8(c) = <<x, y>>
  BY <1>1 DEF Utf8
<1>3. x \in Byte /\ x >= 192 /\ x < 224 /\ x % 32 = c \div 64
  BY <1>1, SMT DEF Byte
<1>4. c \div 1 = c
  BY SMT
<1>5. y \in Byte /\ y % 64 = c % 64
  BY <1>1, <1>4, TailIs
<1>6. Lead(x).bits = c \div 64 /\ Lead(x).extra = 1
  BY <1>3 DEF Lead, Byte
<1>7. (c \div 64) * 64 + (c % 64) = c
  BY SMT
<1>8. PICK u : u = Utf8(c)
  OBVIOUS
<1>9. u \in Seq(Byte) /\ Len(u) = 2 /\ u[1] = x /\ u[2] = y
  BY <1>2, <1>3, <1>5, <1>8
<1>10. Decoded(u, 1, 2) = c
  BY <1>5, <1>6, <1>7, <1>9 DEF Decoded
<1> QED
  BY <1>6, <1>8, <1>9, <1>10 DEF Encodes

\* The same for three bytes.
LEMMA Utf8Three ==
  ASSUME NEW c \in Nat, c >= 2048, c < 65536
  PROVE  Encodes(Utf8(c), 3, c)
<1>1. PICK x, y, z : x = 224 + c \div 4096 /\ y = 128 + ((c \div 64) % 64) /\ z = 128 + ((c \div 1) % 64)
  OBVIOUS
<1>2. Utf8(c) = <<x, y, z>>
  BY <1>1 DEF Utf8
<1>3. x \in Byte /\ x >= 224 /\ x < 240 /\ x % 16 = c \div 4096
  BY <1>1, SMT DEF Byte
<1>4. c \div 1 = c /\ c \div 64 \in Nat
  BY SMT
<1>5. y \in Byte /\ y % 64 = (c \div 64) % 64
  BY <1>1, <1>4, TailIs
<1>6. z \in Byte /\ z % 64 = c % 64
  BY <1>1, <1>4, TailIs
<1>7. Lead(x).bits = c \div 4096 /\ Lead(x).extra = 2
  BY <1>3 DEF Lead, Byte
<1>8. ((c \div 4096) * 64 + ((c \div 64) % 64)) * 64 + (c % 64) = c
  BY SMT
<1>9. PICK u : u = Utf8(c)
  OBVIOUS
<1>10. u \in Seq(Byte) /\ Len(u) = 3 /\ u[1] = x /\ u[2] = y /\ u[3] = z
  BY <1>2, <1>3, <1>5, <1>6, <1>9
<1>11. Decoded(u, 1, 3) = c
  BY <1>5, <1>6, <1>7, <1>8, <1>10 DEF Decoded
<1> QED
  BY <1>7, <1>9, <1>10, <1>11 DEF Encodes

\* The same for four bytes.
LEMMA Utf8Four ==
  ASSUME NEW c \in Codes, c >= 65536
  PROVE  Encodes(Utf8(c), 4, c)
<1>0. c \in Nat
  BY DEF Codes
<1>1. PICK x, y, z, v : /\ x = 240 + c \div 262144 /\ y = 128 + ((c \div 4096) % 64)
                        /\ z = 128 + ((c \div 64) % 64) /\ v = 128 + ((c \div 1) % 64)
  OBVIOUS
<1>2. Utf8(c) = <<x, y, z, v>>
  BY <1>0, <1>1, SMT DEF Utf8
<1>3. x \in Byte /\ x >= 240 /\ x < 248 /\ x % 8 = c \div 262144
  BY <1>1, SMT DEF Byte, Codes
<1>4. c \div 1 = c /\ c \div 64 \in Nat /\ c \div 4096 \in Nat
  BY <1>0, SMT
<1>5. y \in Byte /\ y % 64 = (c \div 4096) % 64
  BY <1>1, <1>4, TailIs
<1>6. z \in Byte /\ z % 64 = (c \div 64) % 64
  BY <1>1, <1>4, TailIs
<1>7. v \in Byte /\ v % 64 = c % 64
  BY <1>0, <1>1, <1>4, TailIs
<1>8. Lead(x).bits = c \div 262144 /\ Lead(x).extra = 3
  BY <1>3 DEF Lead, Byte
<1>9. (((c \div 262144) * 64 + ((c \div 4096) % 64)) * 64 + ((c \div 64) % 64)) * 64 + (c % 64) = c
  BY <1>0, SMT
<1>10. PICK u : u = Utf8(c)
  OBVIOUS
<1>11. u \in Seq(Byte) /\ Len(u) = 4 /\ u[1] = x /\ u[2] = y /\ u[3] = z /\ u[4] = v
  BY <1>2, <1>3, <1>5, <1>6, <1>7, <1>10
<1>12. Decoded(u, 1, 4) = c
  BY <1>5, <1>6, <1>7, <1>8, <1>9, <1>11 DEF Decoded
<1> QED
  BY <1>8, <1>10, <1>11, <1>12 DEF Encodes

\* Every code point is decoded to what it was before it was encoded.
LEMMA Utf8Is ==
  ASSUME NEW c \in Codes
  PROVE  \E l \in {1, 2, 3, 4} : Encodes(Utf8(c), l, c)
<1>1. c \in Nat
  BY DEF Codes
<1>2. CASE c < 128
  BY <1>1, <1>2, Utf8One
<1>3. CASE c >= 128 /\ c < 2048
  BY <1>1, <1>3, Utf8Two
<1>4. CASE c >= 2048 /\ c < 65536
  BY <1>1, <1>4, Utf8Three
<1>5. CASE c >= 65536
  BY <1>5, Utf8Four
<1> QED
  BY <1>1, <1>2, <1>3, <1>4, <1>5, SMT

\* The sequence of c at p in a longer one is decoded to c.
LEMMA PointAt ==
  ASSUME NEW s \in Seq(Byte), NEW p \in 1 .. Len(s), NEW u, NEW l, NEW c, Encodes(u, l, c),
         p + l - 1 <= Len(s), \A q \in 1 .. l : s[p + q - 1] = u[q]
  PROVE  Last(s, p) = p + l - 1 /\ Point(s, p) = c
<1>1. l \in {1, 2, 3, 4} /\ p \in Nat
  BY DEF Encodes
<1>2. s[p] = u[1]
  <2>1. 1 \in 1 .. l /\ p + 1 - 1 = p
    BY <1>1
  <2> QED
    BY <2>1
<1>3. /\ l >= 2 => s[p + 1] = u[2]
      /\ l >= 3 => s[p + 2] = u[3]
      /\ l >= 4 => s[p + 3] = u[4]
  <2>1. p + 2 - 1 = p + 1 /\ p + 3 - 1 = p + 2 /\ p + 4 - 1 = p + 3
    BY <1>1
  <2>2. l >= 2 => 2 \in 1 .. l
    BY <1>1
  <2>3. l >= 3 => 3 \in 1 .. l
    BY <1>1
  <2>4. l >= 4 => 4 \in 1 .. l
    BY <1>1
  <2> QED
    BY <2>1, <2>2, <2>3, <2>4
<1>4. Decoded(s, p, l) = Decoded(u, 1, l)
  <2>1. CASE l = 1
    BY <1>2, <2>1 DEF Decoded
  <2>2. CASE l = 2
    BY <1>2, <1>3, <2>2 DEF Decoded
  <2>3. CASE l = 3
    BY <1>2, <1>3, <2>3 DEF Decoded
  <2>4. CASE l = 4
    BY <1>2, <1>3, <2>4 DEF Decoded
  <2> QED
    BY <1>1, <2>1, <2>2, <2>3, <2>4
<1>5. Lead(s[p]).extra = l - 1 /\ Decoded(s, p, l) = c
  BY <1>2, <1>4 DEF Encodes
<1> QED
  BY <1>1, <1>5, PointOf

-----------------------------------------------------------------------------
(* UTF-16 *)

\* The code point at i, and how many code units it takes.
Code(w, i) == IF IsPair(w, i) THEN Joined(w, i) ELSE w[i]
Wide(w, i) == IF IsPair(w, i) THEN 2 ELSE 1

\* The units of a code point are those it was read from: a pair of surrogates comes back as
\* the pair, and half of one as the half.
LEMMA CodeIs ==
  ASSUME NEW w \in Seq(Unit), NEW i \in 1 .. Len(w)
  PROVE  /\ Code(w, i) \in Codes
         /\ Wide(w, i) \in {1, 2} /\ i + Wide(w, i) \in i + 1 .. Len(w) + 1
         /\ Wide(w, i) = 1 => Utf16(Code(w, i)) = <<w[i]>>
         /\ Wide(w, i) = 2 => Utf16(Code(w, i)) = <<w[i], w[i + 1]>>
<1>1. CASE IsPair(w, i)
  <2>1. i \in Nat /\ i < Len(w) /\ High(w[i]) /\ Low(w[i + 1])
    BY <1>1 DEF IsPair
  <2>2. PICK x, y : x = w[i] /\ y = w[i + 1]
    OBVIOUS
  <2>3. x \in Nat /\ y \in Nat
    BY <2>1, <2>2 DEF Unit
  <2>4. PICK c : c = 65536 + (x - 55296) * 1024 + y - 56320
    OBVIOUS
  <2>5. High(x) /\ Low(y)
    BY <2>1, <2>2
  <2>6. c \in Nat /\ c \in Codes /\ c >= 65536
    BY <2>3, <2>4, <2>5, SMT DEF High, Low, Codes
  <2>7. (55296 + (c - 65536) \div 1024) % 65536 = x /\ 56320 + ((c - 65536) % 1024) = y
    <3>1. PICK a, b : a = x - 55296 /\ b = y - 56320
      OBVIOUS
    <3>2. a \in Nat /\ b \in Nat /\ a < 1024 /\ b < 1024
      BY <2>3, <2>5, <3>1, SMT DEF High, Low
    <3>3. c - 65536 = a * 1024 + b
      BY <2>3, <2>4, <3>1, SMT
    <3>4. (a * 1024 + b) \div 1024 = a /\ (a * 1024 + b) % 1024 = b
      BY <3>2, SMT
    <3>5. (55296 + a) % 65536 = x
      BY <2>3, <3>1, <3>2, SMT
    <3>6. 56320 + b = y
      BY <2>3, <3>1, SMT
    <3> QED
      BY <3>3, <3>4, <3>5, <3>6
  <2>8. Utf16(c) = <<x, y>>
    <3>1. ~ (c < 65536)
      BY <2>6, SMT
    <3> QED
      BY <2>7, <3>1 DEF Utf16
  <2>9. Code(w, i) = c /\ Wide(w, i) = 2
    BY <1>1, <2>2, <2>4 DEF Code, Joined, Wide
  <2> QED
    BY <2>1, <2>2, <2>6, <2>8, <2>9
<1>2. CASE ~ IsPair(w, i)
  <2>1. PICK x : x = w[i]
    OBVIOUS
  <2>2. x \in Nat /\ x < 65536
    BY <2>1 DEF Unit
  <2>3. x \in Codes
    BY <2>2, SMT DEF Codes
  <2>4. Utf16(x) = <<x>>
    BY <2>2 DEF Utf16
  <2>5. Code(w, i) = x /\ Wide(w, i) = 1
    BY <1>2, <2>1 DEF Code, Wide
  <2>6. i + 1 \in i + 1 .. Len(w) + 1
    OBVIOUS
  <2> QED
    BY <2>1, <2>3, <2>4, <2>5, <2>6
<1> QED
  BY <1>1, <1>2

\* f is the recursion of utf16_to_utf8.
ToUtf8To(w, f) ==
  f = [i \in 1 .. Len(w) + 1 |->
        IF i > Len(w) THEN <<>>
        ELSE IF IsPair(w, i) THEN Utf8(Joined(w, i)) \o f[i + 2]
        ELSE Utf8(w[i]) \o f[i + 1]]

\* The equations of utf16_to_utf8.
LEMMA ToUtf8Is ==
  ASSUME NEW w \in Seq(Unit)
  PROVE  \E f : /\ utf16_to_utf8(w) = f[1] /\ f[Len(w) + 1] = <<>>
                /\ \A i \in 1 .. Len(w) : f[i] = Utf8(Code(w, i)) \o f[i + Wide(w, i)]
                /\ \A i \in 1 .. Len(w) + 1 : f[i] \in Seq(Byte)
<1>1. PICK n \in Nat : n = Len(w)
  OBVIOUS
<1>2. \A i \in 1 .. n : /\ Utf8(Code(w, i)) \in Seq(Byte)
                        /\ Wide(w, i) \in {1, 2} /\ i + Wide(w, i) \in i + 1 .. n + 1
  <2>1. \A c \in Codes : Utf8(c) \in Seq(Byte)
    BY Utf8Is DEF Encodes
  <2> QED
    BY <1>1, <2>1, CodeIs
<1> DEFINE D == 1 .. n + 1
           B == {n + 1}
           rank == [i \in D |-> n + 1 - i]
           g == [i \in D \ B |-> [v \in Seq(Byte) |-> Utf8(Code(w, i)) \o v]]
           j == [i \in D \ B |-> i + Wide(w, i)]
<1>3. /\ rank \in [D -> Nat] /\ j \in [D \ B -> D]
      /\ \A i \in D : rank[i] <= n
      /\ \A i \in D \ B : rank[j[i]] < rank[i]
  <2>1. rank \in [D -> Nat] /\ \A i \in D : rank[i] <= n
    BY <1>1
  <2>2. ASSUME NEW i \in D \ B PROVE j[i] \in D /\ rank[j[i]] < rank[i]
    <3>1. i \in 1 .. n
      BY <1>1
    <3>2. PICK h \in i + 1 .. n + 1 : h = i + Wide(w, i)
      BY <1>2, <3>1
    <3>3. h \in D /\ rank[h] < rank[i]
      BY <1>1, <3>1, <3>2
    <3> QED
      BY <3>2, <3>3
  <2>3. j \in [D \ B -> D]
    BY <2>2
  <2> QED
    BY <2>1, <2>2, <2>3
<1>4. g \in [D \ B -> [Seq(Byte) -> Seq(Byte)]]
  <2>1. ASSUME NEW i \in D \ B, NEW v \in Seq(Byte) PROVE Utf8(Code(w, i)) \o v \in Seq(Byte)
    <3>1. i \in 1 .. n
      BY <1>1
    <3>2. Utf8(Code(w, i)) \in Seq(Byte)
      BY <1>2, <3>1
    <3> QED
      BY <3>2
  <2> QED
    BY <2>1
<1>5. PICK f : Solves(D, B, Seq(Byte), <<>>, g, j, f)
  <2>1. <<>> \in Seq(Byte)
    OBVIOUS
  <2> HIDE DEF D, B, rank, g, j
  <2> QED
    BY <1>1, <1>3, <1>4, <2>1, Solvable
<1>6. ToUtf8To(w, f)
  <2>1. ASSUME NEW i \in D
        PROVE  f[i] = IF i > n THEN <<>> ELSE Utf8(Code(w, i)) \o f[i + Wide(w, i)]
    <3>1. CASE i = n + 1
      <4>1. i \in B /\ i > n
        BY <1>1, <3>1
      <4>2. f[i] = <<>>
        BY <1>5, <4>1 DEF Solves
      <4> QED
        BY <4>1, <4>2
    <3>2. CASE i # n + 1
      <4>1. i \in D \ B /\ ~ (i > n)
        BY <1>1, <3>2
      <4>2. j[i] = i + Wide(w, i) /\ j[i] \in D
        BY <1>3, <4>1
      <4>3. f[j[i]] \in Seq(Byte) /\ f[i] = g[i][f[j[i]]]
        BY <1>5, <4>1, <4>2 DEF Solves
      <4>4. g[i] = [v \in Seq(Byte) |-> Utf8(Code(w, i)) \o v]
        BY <4>1
      <4>5. f[i] = Utf8(Code(w, i)) \o f[j[i]]
        BY <4>3, <4>4
      <4> QED
        BY <4>1, <4>2, <4>5, Zenon
    <3> QED
      BY <3>1, <3>2
  <2>2. ASSUME NEW i \in D
        PROVE  f[i] = IF i > n THEN <<>>
                      ELSE IF IsPair(w, i) THEN Utf8(Joined(w, i)) \o f[i + 2]
                           ELSE Utf8(w[i]) \o f[i + 1]
    <3>1. CASE IsPair(w, i)
      <4>1. Code(w, i) = Joined(w, i) /\ Wide(w, i) = 2
        BY <3>1 DEF Code, Wide
      <4> QED
        BY <2>1, <3>1, <4>1, Zenon
    <3>2. CASE ~ IsPair(w, i)
      <4>1. Code(w, i) = w[i] /\ Wide(w, i) = 1
        BY <3>2 DEF Code, Wide
      <4> QED
        BY <2>1, <3>2, <4>1, Zenon
    <3> QED
      BY <3>1, <3>2
  <2>3. f = [i \in D |-> f[i]]
    BY <1>5 DEF Solves
  <2>4. f = [i \in D |-> IF i > n THEN <<>>
                         ELSE IF IsPair(w, i) THEN Utf8(Joined(w, i)) \o f[i + 2]
                              ELSE Utf8(w[i]) \o f[i + 1]]
    <3> HIDE DEF D
    <3> QED
      BY <2>2, <2>3
  <2> QED
    BY <1>1, <2>4, Zenon DEF ToUtf8To
<1>7. PICK h : h = CHOOSE e : ToUtf8To(w, e)
  OBVIOUS
<1>8. ToUtf8To(w, h)
  BY <1>6, <1>7
<1>9. utf16_to_utf8(w) = h[1]
  BY <1>7, Zenon DEF utf16_to_utf8, ToUtf8To
<1>10. \A i \in D : h[i] = IF i > n THEN <<>>
                          ELSE IF IsPair(w, i) THEN Utf8(Joined(w, i)) \o h[i + 2]
                               ELSE Utf8(w[i]) \o h[i + 1]
  <2>1. h = [i \in D |-> IF i > n THEN <<>>
                         ELSE IF IsPair(w, i) THEN Utf8(Joined(w, i)) \o h[i + 2]
                              ELSE Utf8(w[i]) \o h[i + 1]]
    BY <1>1, <1>8, Zenon DEF ToUtf8To
  <2> HIDE DEF D
  <2> QED
    BY <2>1, Zenon
<1>11. h[n + 1] = <<>>
  <2>1. n + 1 \in D /\ n + 1 > n
    BY <1>1
  <2> QED
    BY <1>10, <2>1, Zenon
<1>12. ASSUME NEW i \in 1 .. n PROVE h[i] = Utf8(Code(w, i)) \o h[i + Wide(w, i)]
  <2>1. i \in D /\ ~ (i > n)
    BY <1>1
  <2>2. CASE IsPair(w, i)
    BY <1>10, <2>1, <2>2, Zenon DEF Code, Wide
  <2>3. CASE ~ IsPair(w, i)
    BY <1>10, <2>1, <2>3, Zenon DEF Code, Wide
  <2> QED
    BY <2>2, <2>3
<1>13. D \subseteq {i \in D : h[i] \in Seq(Byte)}
  <2> DEFINE P == {i \in D : h[i] \in Seq(Byte)}
  <2>1. \A i \in D \cap B : i \in P
    <3>1. <<>> \in Seq(Byte)
      OBVIOUS
    <3>2. h[n + 1] \in Seq(Byte)
      BY <1>11, <3>1
    <3> QED
      BY <3>2
  <2>2. ASSUME NEW i \in D \ B, j[i] \in P PROVE i \in P
    <3>1. i \in 1 .. n
      BY <1>1
    <3>2. PICK v \in Seq(Byte) : v = h[i + Wide(w, i)]
      BY <2>2
    <3>3. PICK u \in Seq(Byte) : u = Utf8(Code(w, i))
      BY <1>2, <3>1
    <3>4. h[i] = u \o v
      BY <1>12, <3>1, <3>2, <3>3
    <3>5. h[i] \in Seq(Byte)
      BY <3>4
    <3> QED
      BY <3>5
  <2> HIDE DEF D, B, rank, j, P
  <2>3. Inherited(D, B, P, rank, j)
    BY <1>3, <2>1, <2>2 DEF Inherited
  <2>4. D \subseteq P
    BY <2>3, Descends
  <2> QED
    BY <2>4 DEF P
<1> QED
  BY <1>1, <1>9, <1>11, <1>12, <1>13

\* f is the recursion of utf8_to_utf16.
ToUtf16To(s, f) ==
  f = [i \in 1 .. Len(s) + 1 |->
        IF i > Len(s) THEN <<>> ELSE Utf16(Point(s, i)) \o f[Last(s, i) + 1]]

\* The equations of utf8_to_utf16.
LEMMA ToUtf16Is ==
  ASSUME NEW s \in Seq(Byte)
  PROVE  \E f : /\ utf8_to_utf16(s) = f[1] /\ f[Len(s) + 1] = <<>>
                /\ \A i \in 1 .. Len(s) : f[i] = Utf16(Point(s, i)) \o f[Last(s, i) + 1]
<1>1. PICK n \in Nat : n = Len(s)
  OBVIOUS
<1>2. \A i \in 1 .. n : Utf16(Point(s, i)) \in Seq(Int) /\ Last(s, i) \in i .. n
  <2>1. ASSUME NEW c \in Nat PROVE Utf16(c) \in Seq(Int)
    <3>1. CASE c < 65536
      BY <3>1 DEF Utf16
    <3>2. CASE ~ (c < 65536)
      <4>1. PICK x, y : x = (55296 + (c - 65536) \div 1024) % 65536 /\ y = 56320 + ((c - 65536) % 1024)
        OBVIOUS
      <4>2. x \in Int /\ y \in Int
        BY <4>1, SMT
      <4>3. Utf16(c) = <<x, y>>
        BY <3>2, <4>1 DEF Utf16
      <4> QED
        BY <4>2, <4>3
    <3> QED
      BY <3>1, <3>2
  <2>2. \A i \in 1 .. n : Point(s, i) \in Nat /\ Last(s, i) \in i .. n
    BY <1>1, PointIs
  <2> QED
    BY <2>1, <2>2
<1> DEFINE D == 1 .. n + 1
           B == {n + 1}
           rank == [i \in D |-> n + 1 - i]
           g == [i \in D \ B |-> [v \in Seq(Int) |-> Utf16(Point(s, i)) \o v]]
           j == [i \in D \ B |-> Last(s, i) + 1]
<1>3. /\ rank \in [D -> Nat] /\ j \in [D \ B -> D]
      /\ \A i \in D : rank[i] <= n
      /\ \A i \in D \ B : rank[j[i]] < rank[i]
  <2>1. rank \in [D -> Nat] /\ \A i \in D : rank[i] <= n
    BY <1>1
  <2>2. ASSUME NEW i \in D \ B PROVE j[i] \in D /\ rank[j[i]] < rank[i]
    <3>1. i \in 1 .. n
      BY <1>1
    <3>2. PICK h \in i + 1 .. n + 1 : h = Last(s, i) + 1
      <4>1. Last(s, i) \in i .. n
        BY <1>2, <3>1
      <4> QED
        BY <1>1, <4>1
    <3>3. h \in D /\ rank[h] < rank[i]
      BY <1>1, <3>1, <3>2
    <3> QED
      BY <3>2, <3>3
  <2>3. j \in [D \ B -> D]
    BY <2>2
  <2> QED
    BY <2>1, <2>2, <2>3
<1>4. g \in [D \ B -> [Seq(Int) -> Seq(Int)]]
  <2>1. ASSUME NEW i \in D \ B, NEW v \in Seq(Int) PROVE Utf16(Point(s, i)) \o v \in Seq(Int)
    <3>1. i \in 1 .. n
      BY <1>1
    <3>2. Utf16(Point(s, i)) \in Seq(Int)
      BY <1>2, <3>1
    <3> QED
      BY <3>2
  <2> QED
    BY <2>1
<1>5. PICK f : Solves(D, B, Seq(Int), <<>>, g, j, f)
  <2>1. <<>> \in Seq(Int)
    OBVIOUS
  <2> HIDE DEF D, B, rank, g, j
  <2> QED
    BY <1>1, <1>3, <1>4, <2>1, Solvable
<1>6. ToUtf16To(s, f)
  <2>1. ASSUME NEW i \in D
        PROVE  f[i] = IF i > n THEN <<>> ELSE Utf16(Point(s, i)) \o f[Last(s, i) + 1]
    <3>1. CASE i = n + 1
      <4>1. i \in B /\ i > n
        BY <1>1, <3>1
      <4>2. f[i] = <<>>
        BY <1>5, <4>1 DEF Solves
      <4> QED
        BY <4>1, <4>2
    <3>2. CASE i # n + 1
      <4>1. i \in D \ B /\ ~ (i > n)
        BY <1>1, <3>2
      <4>2. j[i] = Last(s, i) + 1 /\ j[i] \in D
        BY <1>3, <4>1
      <4>3. f[j[i]] \in Seq(Int) /\ f[i] = g[i][f[j[i]]]
        BY <1>5, <4>1, <4>2 DEF Solves
      <4>4. g[i] = [v \in Seq(Int) |-> Utf16(Point(s, i)) \o v]
        BY <4>1
      <4>5. f[i] = Utf16(Point(s, i)) \o f[j[i]]
        BY <4>3, <4>4
      <4> QED
        BY <4>1, <4>2, <4>5, Zenon
    <3> QED
      BY <3>1, <3>2
  <2>2. f = [i \in D |-> f[i]]
    BY <1>5 DEF Solves
  <2>3. f = [i \in D |-> IF i > n THEN <<>> ELSE Utf16(Point(s, i)) \o f[Last(s, i) + 1]]
    <3> HIDE DEF D
    <3> QED
      BY <2>1, <2>2
  <2> QED
    BY <1>1, <2>3, Zenon DEF ToUtf16To
<1>7. PICK h : h = CHOOSE e : ToUtf16To(s, e)
  OBVIOUS
<1>8. ToUtf16To(s, h)
  BY <1>6, <1>7
<1>9. utf8_to_utf16(s) = h[1]
  BY <1>7, Zenon DEF utf8_to_utf16, ToUtf16To
<1>10. \A i \in D : h[i] = IF i > n THEN <<>> ELSE Utf16(Point(s, i)) \o h[Last(s, i) + 1]
  <2>1. h = [i \in D |-> IF i > n THEN <<>> ELSE Utf16(Point(s, i)) \o h[Last(s, i) + 1]]
    BY <1>1, <1>8, Zenon DEF ToUtf16To
  <2> HIDE DEF D
  <2> QED
    BY <2>1, Zenon
<1>11. h[n + 1] = <<>>
  <2>1. n + 1 \in D /\ n + 1 > n
    BY <1>1
  <2> QED
    BY <1>10, <2>1, Zenon
<1>12. ASSUME NEW i \in 1 .. n PROVE h[i] = Utf16(Point(s, i)) \o h[Last(s, i) + 1]
  <2>1. i \in D /\ ~ (i > n)
    BY <1>1
  <2> QED
    BY <1>10, <2>1, Zenon
<1> QED
  BY <1>1, <1>9, <1>11, <1>12

\* v is what s holds from p on.
Behind(s, p, v) == Len(s) + 1 - p = Len(v) /\ \A q \in 1 .. Len(v) : s[p + q - 1] = v[q]

\* Behind the sequence u comes what follows it.
LEMMA BehindNext ==
  ASSUME NEW s \in Seq(Byte), NEW p \in 1 .. Len(s) + 1, NEW u \in Seq(Byte), NEW v \in Seq(Byte),
         NEW x, IsCat(x, u, v), Behind(s, p, x)
  PROVE  /\ p + Len(u) \in 1 .. Len(s) + 1 /\ Behind(s, p + Len(u), v)
         /\ \A q \in 1 .. Len(u) : s[p + q - 1] = u[q]
<1>1. /\ x \in Seq(Byte) /\ Len(x) = Len(u) + Len(v)
      /\ \A q \in 1 .. Len(u) : x[q] = u[q]
      /\ \A q \in 1 .. Len(v) : x[Len(u) + q] = v[q]
  BY Cat
<1>2. PICK a \in Nat, b \in Nat, n \in Nat : a = Len(u) /\ b = Len(v) /\ n = Len(s)
  OBVIOUS
<1>3. n + 1 - p = a + b /\ Len(x) = a + b
  BY <1>1, <1>2 DEF Behind
<1>4. p + a \in 1 .. n + 1 /\ n + 1 - (p + a) = b
  BY <1>2, <1>3
<1>5. ASSUME NEW q \in 1 .. a PROVE s[p + q - 1] = u[q]
  <2>1. q \in 1 .. Len(x)
    BY <1>3
  <2> QED
    BY <1>1, <1>2, <2>1 DEF Behind
<1>6. ASSUME NEW q \in 1 .. b PROVE s[p + a + q - 1] = v[q]
  <2>1. a + q \in 1 .. Len(x) /\ p + (a + q) - 1 = p + a + q - 1
    BY <1>2, <1>3
  <2>2. s[p + (a + q) - 1] = x[a + q]
    BY <2>1 DEF Behind
  <2>3. x[a + q] = v[q]
    BY <1>1, <1>2
  <2> QED
    BY <2>1, <2>2, <2>3
<1> QED
  BY <1>2, <1>4, <1>5, <1>6 DEF Behind

\* The units from i on are those at i and the others.
LEMMA UnitsFrom ==
  ASSUME NEW w \in Seq(Unit), NEW i \in 1 .. Len(w)
  PROVE  /\ <<w[i]>> \o SubSeq(w, i + 1, Len(w)) = SubSeq(w, i, Len(w))
         /\ i < Len(w) => <<w[i], w[i + 1]>> \o SubSeq(w, i + 2, Len(w)) = SubSeq(w, i, Len(w))
<1>1. <<w[i]>> \o SubSeq(w, i + 1, Len(w)) = SubSeq(w, i, Len(w))
  OBVIOUS
<1>2. ASSUME i < Len(w)
      PROVE  <<w[i], w[i + 1]>> \o SubSeq(w, i + 2, Len(w)) = SubSeq(w, i, Len(w))
  BY <1>2
<1> QED
  BY <1>1, <1>2

\* Text that goes from UTF-16 to UTF-8 and back is what it was, halves of pairs included.
LEMMA RoundTrip ==
  ASSUME NEW w \in Seq(Unit)
  PROVE  utf8_to_utf16(utf16_to_utf8(w)) = w
<1>1. PICK n \in Nat : n = Len(w)
  OBVIOUS
<1>2. PICK f : /\ utf16_to_utf8(w) = f[1] /\ f[n + 1] = <<>>
               /\ \A i \in 1 .. n : f[i] = Utf8(Code(w, i)) \o f[i + Wide(w, i)]
               /\ \A i \in 1 .. n + 1 : f[i] \in Seq(Byte)
  BY <1>1, ToUtf8Is
<1>3. PICK s \in Seq(Byte) : s = f[1]
  BY <1>1, <1>2
<1>4. PICK h : /\ utf8_to_utf16(s) = h[1] /\ h[Len(s) + 1] = <<>>
               /\ \A i \in 1 .. Len(s) : h[i] = Utf16(Point(s, i)) \o h[Last(s, i) + 1]
  BY ToUtf16Is
<1> DEFINE D == 1 .. n + 1
           B == {n + 1}
           rank == [i \in D |-> n + 1 - i]
           j == [i \in D \ B |-> i + Wide(w, i)]
           P == {i \in D : \A p \in 1 .. Len(s) + 1 : Behind(s, p, f[i]) => h[p] = SubSeq(w, i, n)}
<1>5. /\ rank \in [D -> Nat] /\ j \in [D \ B -> D]
      /\ \A i \in D \ B : rank[j[i]] < rank[i]
  <2>1. rank \in [D -> Nat]
    BY <1>1
  <2>2. ASSUME NEW i \in D \ B PROVE j[i] \in D /\ rank[j[i]] < rank[i]
    <3>1. i \in 1 .. n
      BY <1>1
    <3>2. PICK k \in i + 1 .. n + 1 : k = i + Wide(w, i)
      BY <1>1, <3>1, CodeIs
    <3>3. k \in D /\ rank[k] < rank[i]
      BY <1>1, <3>1, <3>2
    <3> QED
      BY <3>2, <3>3
  <2>3. j \in [D \ B -> D]
    BY <2>2
  <2> QED
    BY <2>1, <2>2, <2>3
<1>6. \A i \in D \cap B : i \in P
  <2>1. ASSUME NEW p \in 1 .. Len(s) + 1, Behind(s, p, f[n + 1]) PROVE h[p] = SubSeq(w, n + 1, n)
    <3>1. Len(s) + 1 - p = 0
      <4>1. Len(f[n + 1]) = 0
        BY <1>2
      <4> QED
        BY <2>1, <4>1 DEF Behind
    <3>2. p = Len(s) + 1
      BY <3>1
    <3>3. h[p] = <<>>
      BY <1>4, <3>2
    <3>4. SubSeq(w, n + 1, n) = <<>>
      BY <1>1
    <3> QED
      BY <3>3, <3>4
  <2>2. n + 1 \in D
    BY <1>1
  <2>3. n + 1 \in P
    BY <2>1, <2>2
  <2> QED
    BY <2>3
<1>7. ASSUME NEW i \in D \ B, j[i] \in P PROVE i \in P
  <2>1. i \in 1 .. n /\ i \in D
    BY <1>1
  <2>2. PICK c \in Codes, d \in {1, 2} :
          /\ c = Code(w, i) /\ d = Wide(w, i) /\ i + d \in i + 1 .. n + 1
          /\ d = 1 => Utf16(c) = <<w[i]>>
          /\ d = 2 => Utf16(c) = <<w[i], w[i + 1]>>
    BY <1>1, <2>1, CodeIs
  <2>3. PICK u : u = Utf8(c)
    OBVIOUS
  <2>4. PICK l \in {1, 2, 3, 4} : Encodes(u, l, c)
    BY <2>3, Utf8Is
  <2>5. u \in Seq(Byte) /\ Len(u) = l
    BY <2>4 DEF Encodes
  <2>6. PICK v \in Seq(Byte) : v = f[i + d]
    <3>1. i + d \in 1 .. n + 1
      BY <2>1, <2>2
    <3> QED
      BY <1>2, <3>1
  <2>7. PICK x : x = f[i]
    OBVIOUS
  <2>8. IsCat(x, u, v)
    <3>1. f[i] = Utf8(Code(w, i)) \o f[i + Wide(w, i)]
      BY <1>2, <2>1
    <3> QED
      BY <2>2, <2>3, <2>6, <2>7, <3>1, Zenon DEF IsCat
  <2>9. \A p \in 1 .. Len(s) + 1 : Behind(s, p, v) => h[p] = SubSeq(w, i + d, n)
    BY <1>7, <2>1, <2>2, <2>6
  <2>10. ASSUME NEW p \in 1 .. Len(s) + 1, Behind(s, p, x) PROVE h[p] = SubSeq(w, i, n)
    <3>1. /\ p + Len(u) \in 1 .. Len(s) + 1 /\ Behind(s, p + Len(u), v)
          /\ \A q \in 1 .. Len(u) : s[p + q - 1] = u[q]
      <4>1. u \in Seq(Byte)
        BY <2>5
      <4> QED
        BY <2>8, <2>10, <4>1, BehindNext
    <3>2. /\ p + l \in 1 .. Len(s) + 1 /\ Behind(s, p + l, v)
          /\ \A q \in 1 .. l : s[p + q - 1] = u[q]
      BY <2>5, <3>1
    <3>3. p \in 1 .. Len(s) /\ p + l - 1 <= Len(s) /\ p + l - 1 + 1 = p + l
      BY <2>4, <3>2
    <3>4. Last(s, p) = p + l - 1 /\ Point(s, p) = c
      BY <2>4, <3>2, <3>3, PointAt
    <3>5. h[p] = Utf16(c) \o h[p + l]
      BY <1>4, <3>3, <3>4
    <3>6. h[p + l] = SubSeq(w, i + d, n)
      BY <2>9, <3>2
    <3>7. CASE d = 1
      BY <1>1, <2>1, <2>2, <3>5, <3>6, <3>7, UnitsFrom
    <3>8. CASE d = 2
      <4>1. i < n
        BY <1>1, <2>1, <2>2, <3>8
      <4> QED
        BY <1>1, <2>1, <2>2, <3>5, <3>6, <3>8, <4>1, UnitsFrom
    <3> QED
      BY <2>2, <3>7, <3>8
  <2> QED
    BY <2>1, <2>7, <2>10
<1>8. 1 \in P
  <2>1. 1 \in D
    BY <1>1
  <2> HIDE DEF D, B, rank, j, P
  <2>2. Inherited(D, B, P, rank, j)
    BY <1>5, <1>6, <1>7 DEF Inherited
  <2> QED
    BY <2>1, <2>2, Descends
<1>9. Behind(s, 1, f[1])
  <2>1. \A q \in 1 .. Len(s) : 1 + q - 1 = q
    OBVIOUS
  <2> QED
    BY <1>3, <2>1 DEF Behind
<1>10. h[1] = SubSeq(w, 1, n)
  <2>1. 1 \in 1 .. Len(s) + 1
    OBVIOUS
  <2> QED
    BY <1>8, <1>9, <2>1
<1> QED
  BY <1>1, <1>2, <1>3, <1>4, <1>10

-----------------------------------------------------------------------------
(* Text *)

\* A number in two bytes, the low one first.
LEMMA WriteTwo ==
  ASSUME NEW x \in Nat
  PROVE  write(x, 2)[1] = x % 256 /\ write(x, 2)[2] = (x \div 256) % 256
<1>1. write(x, 2)[1] = (x \div 1) % 256
  BY SMT DEF write, place
<1>2. write(x, 2)[2] = (x \div 256) % 256
  BY SMT DEF write, place
<1>3. x \div 1 = x
  BY SMT
<1> QED
  BY <1>1, <1>2, <1>3

\* The code units of the bytes of code units.
LEMMA UnitsBack ==
  ASSUME NEW w \in Seq(Unit)
  PROVE  Units(UnitBytes(w)) = w
<1>1. PICK n \in Nat : n = Len(w)
  OBVIOUS
<1>2. PICK b : b = UnitBytes(w)
  OBVIOUS
<1>3. b \in Seq(Byte) /\ Len(b) = 2 * n
  BY <1>1, <1>2, TextTyped
<1>4. \A i \in 1 .. 2 * n : b[i] = write(w[(i + 1) \div 2], 2)[2 - (i % 2)]
  BY <1>1, <1>2 DEF UnitBytes
<1>5. ASSUME NEW i \in 1 .. n PROVE b[2 * i - 1] + 256 * b[2 * i] = w[i]
  <2>1. /\ 2 * i - 1 \in 1 .. 2 * n /\ 2 * i \in 1 .. 2 * n
        /\ (2 * i - 1 + 1) \div 2 = i /\ (2 * i + 1) \div 2 = i
        /\ 2 - ((2 * i - 1) % 2) = 1 /\ 2 - ((2 * i) % 2) = 2
    BY <1>1
  <2>2. PICK x \in Nat : x = w[i]
    BY <1>1 DEF Unit
  <2>3. x < 65536
    BY <1>1, <2>2 DEF Unit
  <2>4. b[2 * i - 1] = write(x, 2)[1] /\ b[2 * i] = write(x, 2)[2]
    BY <1>4, <2>1, <2>2
  <2>5. write(x, 2)[1] = x % 256 /\ write(x, 2)[2] = (x \div 256) % 256
    BY WriteTwo
  <2>6. (x % 256) + 256 * ((x \div 256) % 256) = x
    BY <2>3, SMT
  <2> QED
    BY <2>2, <2>4, <2>5, <2>6
<1>6. Len(b) \div 2 = n
  BY <1>3
<1>7. Units(b) = [i \in 1 .. n |-> b[2 * i - 1] + 256 * b[2 * i]]
  BY <1>6 DEF Units
<1>8. Units(b) = [i \in 1 .. n |-> w[i]]
  BY <1>5, <1>7
<1>9. w = [i \in 1 .. n |-> w[i]]
  BY <1>1
<1> QED
  BY <1>2, <1>8, <1>9

\* Behind the first byte of a string lies the rest.
LEMMA TailOf ==
  ASSUME NEW x \in Byte, NEW a \in Seq(Byte), NEW c \in Seq(Byte)
  PROVE  /\ Tail(<<x>> \o a \o c) = a \o c
         /\ (<<x>> \o a \o c)[1] = x /\ <<x>> \o a \o c # <<>>
<1>1. PICK e : e = <<x>>
  OBVIOUS
<1>2. e \in Seq(Byte) /\ Len(e) = 1 /\ e[1] = x
  BY <1>1
<1>3. PICK d : d = e \o a
  OBVIOUS
<1>4. /\ d \in Seq(Byte) /\ Len(d) = 1 + Len(a) /\ d[1] = x
      /\ \A i \in 1 .. Len(a) : d[1 + i] = a[i]
  <2>1. IsCat(d, e, a)
    BY <1>3 DEF IsCat
  <2>2. e \in Seq(Byte)
    BY <1>2
  <2>3. /\ d \in Seq(Byte) /\ Len(d) = Len(e) + Len(a)
        /\ \A i \in 1 .. Len(e) : d[i] = e[i]
        /\ \A i \in 1 .. Len(a) : d[Len(e) + i] = a[i]
    BY <2>1, <2>2, Cat
  <2> QED
    BY <1>2, <2>3
<1>5. PICK b : b = d \o c
  OBVIOUS
<1>6. /\ b \in Seq(Byte) /\ Len(b) = Len(d) + Len(c)
      /\ \A i \in 1 .. Len(d) : b[i] = d[i]
      /\ \A i \in 1 .. Len(c) : b[Len(d) + i] = c[i]
  <2>1. IsCat(b, d, c)
    BY <1>5 DEF IsCat
  <2>2. d \in Seq(Byte)
    BY <1>4
  <2> QED
    BY <2>1, <2>2, Cat
<1>7. PICK y : y = a \o c
  OBVIOUS
<1>8. /\ y \in Seq(Byte) /\ Len(y) = Len(a) + Len(c)
      /\ \A i \in 1 .. Len(a) : y[i] = a[i]
      /\ \A i \in 1 .. Len(c) : y[Len(a) + i] = c[i]
  <2>1. IsCat(y, a, c)
    BY <1>7 DEF IsCat
  <2> QED
    BY <2>1, Cat
<1>9. PICK l \in Nat, m \in Nat : l = Len(a) /\ m = Len(c)
  OBVIOUS
<1>10. b \in Seq(Byte) /\ Len(b) = 1 + l + m /\ b[1] = x /\ b # <<>>
  <2>1. 1 \in 1 .. Len(d)
    BY <1>4, <1>9
  <2> QED
    BY <1>4, <1>6, <1>9, <2>1
<1>11. PICK t : t = Tail(b)
  OBVIOUS
<1>12. t \in Seq(Byte) /\ Len(t) = l + m /\ \A i \in 1 .. l + m : t[i] = b[i + 1]
  BY <1>9, <1>10, <1>11
<1>13. ASSUME NEW i \in 1 .. Len(t) PROVE t[i] = y[i]
  <2>1. CASE i <= l
    <3>1. i \in 1 .. Len(a) /\ 1 + i \in 1 .. Len(d) /\ 1 + i = i + 1
      BY <1>4, <1>9, <1>12, <2>1
    <3>2. b[1 + i] = a[i]
      BY <1>4, <1>6, <3>1
    <3>3. y[i] = a[i]
      BY <1>8, <3>1
    <3> QED
      BY <1>12, <3>1, <3>2, <3>3
  <2>2. CASE i > l
    <3>1. PICK q \in 1 .. m : q = i - l /\ i = l + q /\ Len(d) + q = i + 1
      <4>1. i - l \in 1 .. m /\ i = l + (i - l)
        BY <1>9, <1>12, <2>2
      <4>2. Len(d) = 1 + l
        BY <1>4, <1>9
      <4>3. PICK q : q = i - l
        OBVIOUS
      <4>4. q \in 1 .. m /\ i = l + q
        BY <4>1, <4>3
      <4>5. 1 + l + q = i + 1
        BY <1>9, <4>4
      <4>6. Len(d) + q = i + 1
        BY <4>2, <4>5
      <4> QED
        BY <4>3, <4>4, <4>6
    <3>2. b[Len(d) + q] = c[q]
      BY <1>6, <1>9, <3>1
    <3>3. y[Len(a) + q] = c[q]
      BY <1>8, <1>9, <3>1
    <3> QED
      BY <1>9, <1>12, <3>1, <3>2, <3>3
  <2> QED
    BY <1>9, <2>1, <2>2
<1>14. t = y
  <2>1. Len(t) = Len(y)
    BY <1>8, <1>9, <1>12
  <2> QED
    BY <1>8, <1>12, <1>13, <2>1, SeqEqual
<1> QED
  BY <1>1, <1>3, <1>5, <1>7, <1>10, <1>11, <1>14

\* A line of text is read and written again as it was.
LEMMA LineKept ==
  ASSUME NEW w \in Seq(Unit), Len(write_wstring(w)) <= max_frame_payload
  PROVE  Relay(write_wstring(w)) = <<write_wstring(w)>>
<1>1. PICK n \in Nat : n = Len(w) /\ n <= MaxInt
  <2>1. Len(w) <= Len(write_wstring(w)) /\ Len(write_wstring(w)) \in Nat /\ Len(w) \in Nat
    BY TextTyped
  <2>2. max_frame_payload <= MaxInt /\ max_frame_payload \in Nat /\ MaxInt \in Nat
    BY FrameAssumption, SMT DEF MaxInt
  <2>3. Len(w) <= MaxInt
    BY <2>1, <2>2
  <2> QED
    BY <2>1, <2>3
<1>2. PICK ub \in Seq(Byte) : ub = UnitBytes(w) /\ Len(ub) = 2 * n
  BY <1>1, TextTyped
<1>3. PICK size : size = width(n) /\ size \in {1, 2, 4, 8} /\ width(n) <= size
  <2>1. width(n) \in {1, 2, 4, 8}
    BY DEF width
  <2>2. width(n) <= width(n)
    BY <2>1
  <2> QED
    BY <2>1, <2>2
<1>4. PICK wr : wr = write(n, size)
  OBVIOUS
<1>5. wr \in Seq(Byte)
  BY <1>3, <1>4, WriteTyped
<1>6. PICK ws : ws = <<size>> \o wr
  OBVIOUS
<1>7. ws \in Seq(Byte)
  <2>1. <<size>> \in Seq(Byte)
    BY <1>3 DEF Byte
  <2> QED
    BY <1>5, <1>6, <2>1
<1>8. PICK b : b = write_wstring(w)
  OBVIOUS
<1>9. b = <<unicode>> \o ws \o ub
  BY <1>1, <1>2, <1>3, <1>4, <1>6, <1>8, Zenon DEF write_wstring, write_scalar
<1>10. Tail(b) = ws \o ub /\ b[1] = unicode /\ b # <<>>
  <2>1. unicode \in Byte
    BY DEF unicode, Byte
  <2> QED
    <3>1. PICK x \in Byte : x = unicode
      BY <2>1
    <3>2. b = <<x>> \o ws \o ub
      BY <1>9, <3>1
    <3>3. Tail(b) = ws \o ub /\ b[1] = x /\ b # <<>>
      BY <1>2, <1>7, <3>2, TailOf, ZenonT(40)
    <3> QED
      BY <3>1, <3>3
<1>11. read_scalar(Tail(b)) = [ok |-> TRUE, value |-> n, rest |-> ub]
  <2>1. read_scalar(<<size>> \o write(n, size) \o ub) = [ok |-> TRUE, value |-> n, rest |-> ub]
    BY <1>1, <1>2, <1>3, ReadScalar
  <2> QED
    BY <1>4, <1>6, <1>10, <2>1, Zenon
<1>12. PICK len : len = read_scalar(Tail(b))
  OBVIOUS
<1>13. len.ok /\ len.value = n /\ len.rest = ub
  BY <1>11, <1>12
<1>14. SubSeq(ub, 1, 2 * n) = ub
  BY <1>2
<1>15. read_string(b) = Value(utf16_to_utf8(Units(ub)), ub, 2 * n)
  <2>1. ~ (n < 0 \/ 2 * n > Len(ub))
    BY <1>2
  <2> QED
    BY <1>10, <1>12, <1>13, <1>14, <2>1 DEF read_string
<1>16. Units(ub) = w
  BY <1>2, UnitsBack
<1>17. read_string(b).ok /\ read_string(b).value = utf16_to_utf8(w)
  BY <1>15, <1>16 DEF Value
<1>18. Relay(b) = <<write_text(utf16_to_utf8(w))>>
  BY <1>17 DEF Relay
<1>19. write_text(utf16_to_utf8(w)) = b
  BY <1>8, RoundTrip DEF write_text
<1> QED
  BY <1>8, <1>18, <1>19

\* The payload of a line of chat is its text.
LEMMA LineIs ==
  ASSUME NEW F \in Sent, F.text
  PROVE  \E t \in Text : F.payload = write_wstring(t)
<1>1. F \notin Good
  <2>1. SUFFICES ASSUME F \in Good PROVE FALSE
    OBVIOUS
  <2>2. \E size \in ScalarSize : \E p \in Payload : F = Frame(size, p, FALSE)
    BY <2>1, SMT DEF Good, Frame
  <2>3. PICK size, p : F = Frame(size, p, FALSE)
    BY <2>2, Zenon
  <2>4. F.text = FALSE
    BY <2>3, Zenon DEF Frame
  <2> QED
    BY <2>4, Zenon
<1>2. F \notin Bad
  <2>1. SUFFICES ASSUME F \in Bad PROVE FALSE
    OBVIOUS
  <2>2. PICK m \in Malformed :
          F = [bytes |-> m.bytes, payload |-> <<>>, ok |-> FALSE, text |-> FALSE, needs |-> m.needs]
    BY <2>1, Zenon DEF Bad
  <2>3. F.text = FALSE
    BY <2>2, Zenon
  <2> QED
    BY <2>3, Zenon
<1>3. PICK t \in Text : F = Frame(width(Len(write_wstring(t))), write_wstring(t), TRUE)
  BY <1>1, <1>2, Zenon DEF Sent, Lines
<1>4. F.payload = write_wstring(t)
  BY <1>3, Zenon DEF Frame
<1> QED
  BY <1>4

-----------------------------------------------------------------------------
(* The theorems *)

\* FramesRecovered: however the stream is cut into reads, every payload whose last byte has
\* arrived is processed by the end of that read, once, unchanged and in order.
THEOREM Recovered == Spec => []FramesRecovered
<1>1. FInv => FramesRecovered
  <2> SUFFICES ASSUME FInv PROVE FramesRecovered
    OBVIOUS
  <2>1. PICK n \in Nat : n = Len(processed) /\ n <= Len(sent) /\ Len(sent) \in Nat
    BY Frontier
  <2>2. DOMAIN sent = 1 .. Len(sent)
    BY DEF FInv
  <2>3. ASSUME NEW i \in 1 .. n PROVE i \in GoodPrefix /\ Decidable(i)
    <3>1. i \in 1 .. Len(sent) /\ \A j \in 1 .. i : j \in 1 .. n
      BY <2>1
    <3>2. \A j \in 1 .. n : sent[j].ok /\ Decidable(j)
      BY <2>1, Frontier
    <3> QED
      BY <2>2, <3>1, <3>2 DEF GoodPrefix
  <2>4. ASSUME NEW i \in GoodPrefix, Decidable(i) PROVE i \in 1 .. n
    <3>1. i \in 1 .. Len(sent) /\ \A j \in 1 .. i : sent[j].ok
      BY <2>2 DEF GoodPrefix
    <3>2. SUFFICES ASSUME ~ (i <= n) PROVE FALSE
      BY <2>1, <3>1
    <3>3. i \in n + 1 .. Len(sent) /\ n + 1 \in 1 .. i
      BY <2>1, <3>1, <3>2
    <3>4. sent[n + 1].ok
      BY <3>1, <3>3
    <3>5. open
      BY <2>1, <3>4 DEF FInv
    <3> QED
      BY <2>1, <2>4, <3>3, <3>4, <3>5, Frontier
  <2>5. {i \in GoodPrefix : Decidable(i)} = 1 .. n
    <3>1. \A i \in 1 .. n : i \in {j \in GoodPrefix : Decidable(j)}
      BY <2>3
    <3>2. \A i \in {j \in GoodPrefix : Decidable(j)} : i \in 1 .. n
      BY <2>4
    <3> QED
      BY <3>1, <3>2
  <2>6. Cardinality(1 .. n) = n
    <3>1. 1 \in Int /\ n \in Int
      BY <2>1
    <3>2. Cardinality(1 .. n) = IF 1 > n THEN 0 ELSE n - 1 + 1
      BY <3>1, FS_Interval
    <3> QED
      BY <2>1, <3>2
  <2>7. processed = [i \in 1 .. n |-> sent[i].payload]
    <3>1. processed \in Seq(Seq(Byte))
      BY DEF FInv, Taken
    <3>2. processed = [i \in 1 .. n |-> processed[i]]
      BY <2>1, <3>1
    <3>3. \A i \in 1 .. n : processed[i] = sent[i].payload
      BY <2>1, Frontier
    <3> QED
      BY <3>2, <3>3
  <2> QED
    BY <2>5, <2>6, <2>7 DEF FramesRecovered
<1> QED
  BY <1>1, FInvHolds, PTL

\* ClosedByMalformed: the peer is closed by the read that shows a frame to be malformed,
\* no earlier and no later, and never for anything else.
THEOREM Closed == Spec => []ClosedByMalformed
<1>1. FInv => ClosedByMalformed
  <2> SUFFICES ASSUME FInv PROVE ClosedByMalformed
    OBVIOUS
  <2>1. PICK n \in Nat : n = Len(processed) /\ n <= Len(sent) /\ Len(sent) \in Nat
    BY Frontier
  <2>2. DOMAIN sent = 1 .. Len(sent)
    BY DEF FInv
  <2>3. \A i \in 1 .. n : sent[i].ok
    BY <2>1, Frontier
  <2>4. ASSUME ~ open
        PROVE  \E i \in DOMAIN sent : ~ sent[i].ok /\ Decidable(i) /\ \A j \in 1 .. i - 1 : sent[j].ok
    <3>1. n + 1 \in DOMAIN sent /\ ~ sent[n + 1].ok /\ Decidable(n + 1)
      BY <2>1, <2>4 DEF FInv
    <3>2. \A j \in 1 .. (n + 1) - 1 : sent[j].ok
      BY <2>1, <2>3
    <3> QED
      BY <3>1, <3>2
  <2>5. ASSUME open, NEW i \in DOMAIN sent, ~ sent[i].ok, Decidable(i), \A j \in 1 .. i - 1 : sent[j].ok
        PROVE  FALSE
    <3>1. i \in 1 .. Len(sent) /\ ~ (i \in 1 .. n)
      BY <2>2, <2>3, <2>5
    <3>2. i \in n + 1 .. Len(sent)
      BY <2>1, <3>1
    <3>3. i # n + 1 /\ ~ sent[n + 1].ok
      BY <2>1, <2>5, <3>2, Frontier
    <3>4. n + 1 \in 1 .. i - 1
      BY <2>1, <3>2, <3>3
    <3> QED
      BY <2>5, <3>3, <3>4
  <2> QED
    BY <2>4, <2>5 DEF ClosedByMalformed
<1> QED
  BY <1>1, FInvHolds, PTL

\* TextRelayedUnchanged: whatever a client types reaches the others as it was sent, byte for
\* byte, pairs of surrogates and halves of pairs included.
THEOREM Relayed == Spec => []TextRelayedUnchanged
<1>1. FInv => TextRelayedUnchanged
  <2> SUFFICES ASSUME FInv, NEW i \in DOMAIN processed, sent[i].text
               PROVE  Relay(processed[i]) = <<sent[i].payload>>
    BY DEF TextRelayedUnchanged
  <2>1. i \in 1 .. Len(processed) /\ Len(processed) <= Len(sent)
    BY Frontier DEF FInv, Taken
  <2>2. processed[i] = sent[i].payload
    BY <2>1, Frontier
  <2>3. sent[i] \in Sent
    BY <2>1 DEF FInv, Taken
  <2>4. PICK t \in Text : sent[i].payload = write_wstring(t)
    BY <2>3, LineIs
  <2>5. t \in Seq(Unit) /\ Len(write_wstring(t)) <= max_frame_payload
    BY FrameAssumption
  <2> QED
    BY <2>2, <2>4, <2>5, LineKept
<1> QED
  BY <1>1, FInvHolds, PTL
=============================================================================
