------------------------------- MODULE Words -------------------------------
(***************************************************************************)
(* Bytes, and words made of them, with the bitwise operators of C.  TLC's  *)
(* integers have 32 bits and a sign, so a uint32_t is a pair of halves.    *)
(***************************************************************************)
EXTENDS Integers, Sequences

Byte == 0 .. 255
Half == {n \in Nat : n < 65536}
XorByte ==
  [x \in Byte |-> [y \in Byte |->
    LET low[n \in 0 .. 8] ==     \* of the n lowest bits
          IF n = 0 THEN 0
          ELSE low[n - 1] + 2 ^ (n - 1) * ((x \div 2 ^ (n - 1) + y \div 2 ^ (n - 1)) % 2)
    IN  low[8]]]

\* x ^ y of two uint16_t, or of bytes.
Xor16(x, y) == 256 * XorByte[x \div 256][y \div 256] + XorByte[x % 256][y % 256]
And16(x, y) == (x + y - Xor16(x, y)) \div 2   \* x + y is x ^ y, and the carries

XorWord(x, y) == <<Xor16(x[1], y[1]), Xor16(x[2], y[2])>>
AndWord(x, y) == <<And16(x[1], y[1]), And16(x[2], y[2])>>
NotWord(x) == <<65535 - x[1], 65535 - x[2]>>

\* x + y of two uint32_t.
AddWord(x, y) ==
  LET low == x[2] + y[2] IN
    <<(x[1] + y[1] + low \div 65536) % 65536, low % 65536>>

\* The bits of a word of n bits, the most significant first.
BitsOf(x, n) == [i \in 1 .. n |-> (x \div 2 ^ (n - i)) % 2]

\* The sequence itself: TLC evaluates its elements once, and not at each use.
Tuple(s) == s \o << >>

\* a ^ b of two byte strings of one length.
XorBytes(a, b) == Tuple([i \in DOMAIN a |-> XorByte[a[i]][b[i]]])

Zeros(n) == [i \in 1 .. n |-> 0]
=============================================================================
