------------------------------- MODULE ToyCrc -------------------------------
(***************************************************************************)
(* A 4-bit CRC over bytes of two bits, for the small instances: the loop   *)
(* of crc16_mcrf4xx_update in utils/crc.c with another width and           *)
(* polynomial, and tables of its values.                                   *)
(***************************************************************************)
EXTENDS Integers, Sequences

ToyByte == 0 .. 3
ToyWord == 0 .. 15

Bit(word, i) == (word \div (2 ^ i)) % 2

\* The bitwise exclusive or of two words.
Xor(x, y) ==
  LET differ(i) == (Bit(x, i) + Bit(y, i)) % 2
  IN  differ(0) + 2 * differ(1) + 4 * differ(2) + 8 * differ(3)

\* The loop body of crc16_mcrf4xx_update, with the reflected polynomial 9.
ShiftStep(crc, bit) ==
  IF (crc + bit) % 2 = 1 THEN Xor(crc \div 2, 9) ELSE crc \div 2

\* One byte more.
ToyUpdate ==
  [x \in ToyWord \X ToyByte |-> ShiftStep(ShiftStep(x[1], x[2] % 2), x[2] \div 2)]

\* A whole buffer of up to n bytes.
ToyCrcUpTo(n) ==
  LET fold[s \in UNION {[1 .. k -> ToyByte] : k \in 0 .. n}] ==
        IF s = << >> THEN 15
        ELSE ToyUpdate[<<fold[SubSeq(s, 1, Len(s) - 1)], s[Len(s)]>>]
  IN  fold
=============================================================================
