------------------------------ MODULE MCStream ------------------------------
(* PeerStream for TLC: bytes of 2 bits, limbs of 2 bytes, and clients with RSA keys of *)
(* 7 bytes: one that may send others first, too short or broken, and one of another    *)
(* version.                                                                            *)
EXTENDS PeerStream

\* n in bytes, low byte first.
Le(n, size) == [i \in 1 .. size |-> (n \div ByteBase ^ (i - 1)) % ByteBase]

Blob(n, size, e) == [header |-> TRUE, type |-> "PUBLICKEYBLOB", magic |-> "RSA1",
                     bitlen |-> size * ByteBits, pubexp |-> e, modulus |-> Le(n, size)]

\* 61 * 71 and 43 * 211, with 11 * 191 = 1 modulo 420 and 210; 7 * 13.
Good == Blob(4331, 7, 11)
Other == Blob(9073, 7, 11)
Short == Blob(91, 4, 5)
Broken == [Short EXCEPT !.bitlen = 9]

MCClient ==
  {[blobs |-> {Good, Short, Broken}, n |-> 4331, d |-> 191, version |-> TRUE],
   [blobs |-> {Other}, n |-> 9073, d |-> 191, version |-> TRUE],
   [blobs |-> {Other}, n |-> 9073, d |-> 191, version |-> FALSE]}

MCSessionKey == {<<1, 2>>, <<3, 0>>}
=============================================================================
