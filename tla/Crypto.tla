------------------------------- MODULE Crypto -------------------------------
(***************************************************************************)
(* The arithmetic of the key exchange (src/src/crypto/rsa.hpp) and the       *)
(* stream cipher (src/src/crypto/rc4.hpp), with the sizes of a byte, a limb  *)
(* and the padding as parameters: 8 bits, 4 bytes and 8 bytes in the code.   *)
(* A bigint is its m_limbs, least significant first.                         *)
(***************************************************************************)
EXTENDS Integers, Sequences, SequencesExt, FiniteSetsExt

CONSTANTS ByteBits,  \* bits of a byte
          LimbBytes, \* bytes of a limb
          MinPadding \* bytes of padding a message needs at least

ASSUME CryptoAssumption ==
  /\ ByteBits \in Nat \ {0} /\ LimbBytes \in Nat \ {0} /\ MinPadding \in Nat
  \* A law of exponents, which no prover here knows.
  /\ \A i \in 0 .. ByteBits - 1 : 2 ^ (i + 1) = 2 * 2 ^ i

ByteBase == 2 ^ ByteBits
LimbBits == ByteBits * LimbBytes
LimbBase == 2 ^ LimbBits
Byte == 0 .. ByteBase - 1

-----------------------------------------------------------------------------
(* bigint *)

trim(l) == SubSeq(l, 1, Max({0} \cup {i \in DOMAIN l : l[i] # 0}))

from_le_bytes(b) ==
  LET byte(i) == IF i <= Len(b) THEN b[i] ELSE 0
      limb[i \in Nat, j \in 0 .. LimbBytes] ==
        IF j = 0 THEN 0 ELSE limb[i, j - 1] + byte((i - 1) * LimbBytes + j) * ByteBase ^ (j - 1)
  IN  trim([i \in 1 .. (Len(b) + LimbBytes - 1) \div LimbBytes |-> limb[i, LimbBytes]])

Zeros(n) == [i \in 1 .. n |-> 0] \o <<>>

from_be_bytes(b) == from_le_bytes(Reverse(b))

from_u32(v) == trim(<<v>>)

to_le_bytes(l, size) ==
  [i \in 1 .. size |->
     LET limb == ((i - 1) \div LimbBytes) + 1
     IN  IF limb <= Len(l) THEN (l[limb] \div ByteBase ^ ((i - 1) % LimbBytes)) % ByteBase ELSE 0]

bit_length(l) ==
  IF l = <<>> THEN 0
  ELSE (Len(l) - 1) * LimbBits + Min({b \in 0 .. LimbBits : Last(l) < 2 ^ b})

\* Bit n, counted from 0.
bit(l, n) ==
  LET limb == (n \div LimbBits) + 1
  IN  limb <= Len(l) /\ (l[limb] \div 2 ^ (n % LimbBits)) % 2 = 1

\* compare(a, b) >= 0.
AtLeast(a, b) ==
  IF Len(a) # Len(b) THEN Len(a) > Len(b)
  ELSE LET differ == {i \in DOMAIN a : a[i] # b[i]}
       IN  differ = {} \/ a[Max(differ)] > b[Max(differ)]

\* The limbs r and the carry after the inner loop of mul has run up to j.
MulRow(r, a, b, i) ==
  LET row[j \in 0 .. Len(b)] ==
        IF j = 0 THEN [r |-> r, carry |-> 0]
        ELSE LET s == row[j - 1]
                 cur == s.r[i + j - 1] + a[i] * b[j] + s.carry
             IN  [r |-> [s.r EXCEPT ![i + j - 1] = cur % LimbBase], carry |-> cur \div LimbBase]
  IN  row[Len(b)]

\* Mutant: the last carry of a row is dropped.
mul_NoLastCarry(a, b) ==
  LET r[i \in 0 .. Len(a)] ==
        IF i = 0 THEN Zeros(Len(a) + Len(b)) ELSE MulRow(r[i - 1], a, b, i).r
  IN  trim(r[Len(a)])

\* Long multiplication, a limb of a after the other.
mul(a, b) ==
  LET r[i \in 0 .. Len(a)] ==
        IF i = 0 THEN Zeros(Len(a) + Len(b))
        ELSE LET row == MulRow(r[i - 1], a, b, i)
             IN  [row.r EXCEPT ![i + Len(b)] = (@ + row.carry) % LimbBase]
  IN  IF a = <<>> \/ b = <<>> THEN <<>> ELSE trim(r[Len(a)])

shl1(l) ==
  LET carry(i) == IF i = 0 THEN 0 ELSE l[i] \div (LimbBase \div 2)
      shifted == [i \in DOMAIN l |-> ((2 * l[i]) % LimbBase) + carry(i - 1)]
  IN  IF carry(Len(l)) = 0 THEN shifted ELSE Append(shifted, 1)

\* a - b, for a >= b.
sub(a, b) ==
  LET cur(i, borrow) == a[i] - borrow - (IF i <= Len(b) THEN b[i] ELSE 0)
      borrow[i \in 0 .. Len(a)] ==
        IF i > 0 /\ cur(i, borrow[i - 1]) < 0 THEN 1 ELSE 0
  IN  trim([i \in DOMAIN a |-> cur(i, borrow[i - 1]) % LimbBase])

\* r with its lowest bit, which shl1 left clear, set.
SetBit0(r) == IF r = <<>> THEN <<1>> ELSE <<r[1] + 1>> \o Tail(r)

\* Long division: r[n] is the remainder once all but the lowest n bits are taken.
mod(a, m) ==
  LET r[n \in 0 .. bit_length(a)] ==
        IF n = bit_length(a) THEN <<>>
        ELSE LET next == IF bit(a, n) THEN SetBit0(shl1(r[n + 1])) ELSE shl1(r[n + 1])
             IN  IF AtLeast(next, m) THEN sub(next, m) ELSE next
  IN  r[0]

\* Square and multiply: r[n] is base to the power of exp without its lowest n bits.
mod_pow(base, exp, m) ==
  LET r[n \in 0 .. bit_length(exp)] ==
        IF n = bit_length(exp) THEN from_u32(1)
        ELSE LET square == mod(mul(r[n + 1], r[n + 1]), m)
             IN  IF bit(exp, n) THEN mod(mul(square, mod(base, m)), m) ELSE square
  IN  r[0]

-----------------------------------------------------------------------------
(* Key blobs. A PUBLICKEYBLOB is the record of its fields; header says       *)
(* whether all of them arrived, modulus holds the bytes after them.          *)

BadKey == [modulus |-> <<>>, exponent |-> <<>>, modulus_bytes |-> 0]

parse_publickeyblob(blob) ==
  LET modulus_bytes == blob.bitlen \div ByteBits
  IN  IF ~blob.header \/ blob.type # "PUBLICKEYBLOB" \/ blob.magic # "RSA1" \/ blob.bitlen = 0
          \/ blob.bitlen % ByteBits # 0 \/ Len(blob.modulus) < modulus_bytes
      THEN BadKey
      ELSE [modulus |-> from_le_bytes(SubSeq(blob.modulus, 1, modulus_bytes)),
            exponent |-> from_u32(blob.pubexp), modulus_bytes |-> modulus_bytes]

\* rsa_pkcs1_encrypt throws: no room for the padding.
TooLong(key, message) == Len(message) + 3 + MinPadding > key.modulus_bytes

\* The paddings rsa_pkcs1_encrypt may draw: bytes from these, none of them zero.
Padding(key, message, bytes) == [1 .. key.modulus_bytes - 3 - Len(message) -> bytes \ {0}]

rsa_pkcs1_encrypt(key, message, ps) ==
  LET em == <<0, 2>> \o ps \o <<0>> \o message
      c == mod_pow(from_be_bytes(em), key.exponent, key.modulus)
  IN  Reverse(to_le_bytes(c, key.modulus_bytes))

\* The ciphertext of the SIMPLEBLOB, in its byte order.
make_rc4_simpleblob(key, rc4_key, ps) == Reverse(rsa_pkcs1_encrypt(key, rc4_key, ps))

-----------------------------------------------------------------------------
(* RC4 *)

\* Bit by bit, the lowest first: of the low i bits of p and q.
XorBits[i \in 0 .. ByteBits] ==
  [p \in Nat |-> [q \in Nat |->
     IF i = 0 THEN 0 ELSE ((p + q) % 2) + 2 * XorBits[i - 1][p \div 2][q \div 2]]]

Xor(a, b) == XorBits[ByteBits][a][b]

Swap(s, i, j) == [s EXCEPT ![i] = s[j], ![j] = s[i]]

\* The permutation the key makes: after n of its swaps.
KeySchedule(key) ==
  LET r[n \in 0 .. ByteBase] ==
        IF n = 0 THEN [s |-> [b \in Byte |-> b], j |-> 0]
        ELSE LET p == r[n - 1]
                 j == (p.j + p.s[n - 1] + key[((n - 1) % Len(key)) + 1]) % ByteBase
             IN  [s |-> Swap(p.s, n - 1, j), j |-> j]
  IN  r[ByteBase].s

\* The first bytes of the key stream: where the generator is after n of them.
KeyStream(key, length) ==
  LET r[n \in 0 .. length] ==
        IF n = 0 THEN [s |-> KeySchedule(key), j |-> 0, out |-> <<>>]
        ELSE LET p == r[n - 1]
                 i == n % ByteBase
                 j == (p.j + p.s[i]) % ByteBase
                 s == Swap(p.s, i, j)
             IN  [s |-> s, j |-> j, out |-> Append(p.out, s[(s[i] + s[j]) % ByteBase])]
  IN  r[length].out

\* Every message is combined with the stream of its key from the start.
rc4_apply(stream, data) == [n \in DOMAIN data |-> Xor(data[n], stream[n])]
=============================================================================
