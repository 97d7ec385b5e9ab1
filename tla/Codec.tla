------------------------------- MODULE Codec -------------------------------
(***************************************************************************)
(* net::message_writer and net::message_reader (src/src/net/message.hpp):    *)
(* little-endian numbers, compact scalars, and strings, which the servers    *)
(* keep as UTF-8 and the clients send and expect as UTF-16. Bytes and code   *)
(* units are numbers, at their real widths.                                  *)
(***************************************************************************)
EXTENDS Integers, Sequences

Byte == {n \in Nat : n < 256}
Unit == {n \in Nat : n < 65536}   \* a UTF-16 code unit
MaxInt == 2147483647             \* the largest int32_t

\* write<T> of a number in the given number of bytes; from the fifth on, its sign.
place == <<1, 256, 65536, 16777216>>
write(n, size) ==
  [i \in 1 .. size |-> IF i <= 4 THEN (n \div place[i]) % 256 ELSE IF n < 0 THEN 255 ELSE 0]

\* read<T>, of an unsigned and of a signed type.
Unsigned(b) ==
  LET from[i \in 1 .. Len(b) + 1] == IF i > Len(b) THEN 0 ELSE b[i] + 256 * from[i + 1]
  IN  from[1]
Signed(b) ==
  IF b[Len(b)] < 128 THEN Unsigned(b)
  ELSE -1 - Unsigned([i \in 1 .. Len(b) |-> 255 - b[i]])

\* The narrowest form that holds the number. (The one of 8 bytes is for numbers
\* beyond 32 bits, which nothing writes.)
width(n) == IF -128 <= n /\ n <= 127 THEN 1 ELSE IF -32768 <= n /\ n <= 32767 THEN 2 ELSE 4
write_scalar(n) == <<width(n)>> \o write(n, width(n))

\* What a read yields: a value and the bytes behind it, or an exception.
Thrown == [ok |-> FALSE]
Value(v, b, n) == [ok |-> TRUE, value |-> v, rest |-> SubSeq(b, n + 1, Len(b))]

read_scalar(b) ==
  IF b = <<>> \/ b[1] \notin {1, 2, 4, 8} \/ Len(b) < 1 + b[1] THEN Thrown
  ELSE Value(Signed(SubSeq(b, 2, 1 + b[1])), b, 1 + b[1])

-----------------------------------------------------------------------------
(* UTF-16 to UTF-8 and back *)

\* The UTF-8 bytes of a code point: the low bits in groups of six, the rest first.
Utf8(c) ==
  LET tail(d) == 128 + ((c \div d) % 64)
  IN  IF c < 128 THEN <<c>>
      ELSE IF c < 2048 THEN <<192 + c \div 64, tail(1)>>
      ELSE IF c < 65536 THEN <<224 + c \div 4096, tail(64), tail(1)>>
      ELSE <<240 + c \div 262144, tail(4096), tail(64), tail(1)>>

High(x) == 55296 <= x /\ x <= 56319   \* D800 to DBFF
Low(x) == 56320 <= x /\ x <= 57343    \* DC00 to DFFF

\* Mutant: whatever follows a high surrogate is taken for the low one.
IsPair_HighOnly(w, i) == High(w[i]) /\ i < Len(w)

\* A high surrogate at i that a low one follows.
IsPair(w, i) == High(w[i]) /\ i < Len(w) /\ Low(w[i + 1])

\* The code point of the pair at i.
Joined(w, i) == 65536 + (w[i] - 55296) * 1024 + w[i + 1] - 56320

utf16_to_utf8(w) ==
  LET from[i \in 1 .. Len(w) + 1] ==
        IF i > Len(w) THEN <<>>
        ELSE IF IsPair(w, i) THEN Utf8(Joined(w, i)) \o from[i + 2]
        ELSE Utf8(w[i]) \o from[i + 1]
  IN  from[1]

\* The code units of a code point.
Utf16(c) ==
  IF c < 65536 THEN <<c>>
  ELSE <<(55296 + (c - 65536) \div 1024) % 65536, 56320 + ((c - 65536) % 1024)>>

\* What the first byte of a sequence says: its bits of the code point, and how many
\* bytes with six more each follow.
Lead(b) ==
  IF b < 128 THEN [bits |-> b, extra |-> 0]
  ELSE IF 192 <= b /\ b < 224 THEN [bits |-> b % 32, extra |-> 1]
  ELSE IF 224 <= b /\ b < 240 THEN [bits |-> b % 16, extra |-> 2]
  ELSE [bits |-> b % 8, extra |-> 3]

\* The last byte of the sequence at i: bytes that are missing at the end are not waited for.
Last(s, i) == IF i + Lead(s[i]).extra < Len(s) THEN i + Lead(s[i]).extra ELSE Len(s)

\* The code point of the sequence at i.
Point(s, i) ==
  LET to[j \in i .. Last(s, i)] == IF j = i THEN Lead(s[i]).bits ELSE to[j - 1] * 64 + (s[j] % 64)
  IN  to[Last(s, i)]

utf8_to_utf16(s) ==
  LET from[i \in 1 .. Len(s) + 1] ==
        IF i > Len(s) THEN <<>> ELSE Utf16(Point(s, i)) \o from[Last(s, i) + 1]
  IN  from[1]

-----------------------------------------------------------------------------
(* Strings *)

ansi == 1
unicode == 2

\* The bytes of code units, and the code units of bytes.
UnitBytes(w) == [i \in 1 .. 2 * Len(w) |-> write(w[(i + 1) \div 2], 2)[2 - (i % 2)]]
Units(b) == [i \in 1 .. Len(b) \div 2 |-> b[2 * i - 1] + 256 * b[2 * i]]

write_wstring(w) == <<unicode>> \o write_scalar(Len(w)) \o UnitBytes(w)

write_text(utf8) == write_wstring(utf8_to_utf16(utf8))

\* Either kind of string, as UTF-8.
read_string(b) ==
  LET length == read_scalar(Tail(b))
      size   == IF b[1] = unicode THEN 2 * length.value ELSE length.value
      raw    == SubSeq(length.rest, 1, size)
  IN  IF b = <<>> \/ ~length.ok THEN Thrown
      ELSE IF length.value < 0 \/ size > Len(length.rest) THEN Thrown
      ELSE Value(IF b[1] = unicode THEN utf16_to_utf8(Units(raw)) ELSE raw, length.rest, size)
=============================================================================
