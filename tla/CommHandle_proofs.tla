-------------------------- MODULE CommHandle_proofs --------------------------
(***************************************************************************)
(* Proofs about the older stack, for every byte width and CRC function.    *)
(* The decoder of MyPacker, for every length limit and buffer: its type,   *)
(* writes in bounds, that fed a byte at a time it accepts exactly the      *)
(* frames that my_pack_data makes and that fit the buffer, and that it     *)
(* ends every candidate with the result my_unpack_data has for a buffer    *)
(* that begins with it.  CommHandle, for every queue, batch, chunk and     *)
(* message set: that every byte queued is handed to the transport once and *)
(* in order and reaches the wire as handed, that the flag and              *)
(* comm_manager_tx_idle tell the truth, and that the peer's payloads are   *)
(* delivered in order as long as no chunk is dropped.                      *)
(***************************************************************************)
EXTENDS CommHandle, SequenceLemmas

-----------------------------------------------------------------------------
(* Bytes and words.                                                        *)

\* Splitting a word into its two bytes and joining them again.
LEMMA WordSplit ==
  ASSUME NEW w \in Word
  PROVE  low(w) \in Byte /\ high(w) \in Byte /\ w = B * high(w) + low(w)
BY ByteAssumption DEF Byte, Word, low, high

LEMMA WordJoin ==
  ASSUME NEW hi \in Byte, NEW lo \in Byte
  PROVE  /\ B * hi + lo \in Word
         /\ low(B * hi + lo) = lo /\ high(B * hi + lo) = hi
BY ByteAssumption DEF Byte, Word, low, high

LEMMA SizeFacts ==
  /\ COM_MAX_PAYLOAD_SIZE \in Nat /\ COM_MAX_PAYLOAD_SIZE >= 1
  /\ COM_MAX_PAYLOAD_SIZE + 6 <= B * B - 1
  /\ CrcLength \in Nat /\ CrcLength >= COM_MAX_PAYLOAD_SIZE + 2
  /\ size_out \in Nat /\ size_out >= 1
  /\ B \in Nat /\ B > 1 /\ B * B \in Nat
  /\ 0 \in Byte /\ 0 \in Word /\ B * B - 1 \in Word
  /\ Byte \subseteq Word
  /\ \A n \in 0 .. COM_MAX_PAYLOAD_SIZE + 6 : n \in Word
<1>1. B * B \in Nat /\ B * B > B
  BY ByteAssumption
<1>2. /\ COM_MAX_PAYLOAD_SIZE \in Nat /\ COM_MAX_PAYLOAD_SIZE >= 1
      /\ COM_MAX_PAYLOAD_SIZE + 6 <= B * B - 1
      /\ CrcLength \in Nat /\ CrcLength >= COM_MAX_PAYLOAD_SIZE + 2
  BY <1>1, SizeAssumption DEF PACKER_FRAME_OVERHEAD
<1>3. size_out \in Nat /\ size_out >= 1
  BY <1>1, SizeAssumption DEF Word
<1>4. /\ B \in Nat /\ B > 1 /\ 0 \in Byte /\ 0 \in Word /\ B * B - 1 \in Word
      /\ Byte \subseteq Word
  BY <1>1, ByteAssumption DEF Byte, Word
<1>5. \A n \in 0 .. COM_MAX_PAYLOAD_SIZE + 6 : n \in Word
  BY <1>1, <1>2 DEF Word
<1> QED
  BY <1>1, <1>2, <1>3, <1>4, <1>5

-----------------------------------------------------------------------------
(* Sequences of bytes and their CRC.                                       *)

LEMMA InBytesUpTo ==
  ASSUME NEW s \in Seq(Byte), NEW n \in Int, Len(s) <= n
  PROVE  s \in BytesUpTo(n)
<1>1. s \in [1 .. Len(s) -> Byte] /\ Len(s) \in 0 .. n
  BY LenProperties
<1> QED
  BY <1>1 DEF BytesUpTo

LEMMA BytesUpToSeq ==
  ASSUME NEW n \in Int, NEW s \in BytesUpTo(n)
  PROVE  s \in Seq(Byte) /\ Len(s) \in 0 .. n
<1>1. PICK k \in 0 .. n : s \in [1 .. k -> Byte]
  BY DEF BytesUpTo
<1> QED
  BY <1>1

\* The bytes of c from the second to the m-th.
LEMMA FromSecond ==
  ASSUME NEW c \in Seq(Byte), NEW m \in 1 .. Len(c)
  PROVE  /\ SubSeq(c, 2, m) \in Seq(Byte)
         /\ Len(SubSeq(c, 2, m)) = m - 1
         /\ \A i \in 1 .. m - 1 : SubSeq(c, 2, m)[i] = c[i + 1]
<1>1. Len(c) \in Nat /\ m \in Int /\ 2 \in Int
  OBVIOUS
<1>2. \A i \in 2 .. m : c[i] \in Byte
  <2> SUFFICES ASSUME NEW i \in 2 .. m PROVE c[i] \in Byte
    OBVIOUS
  <2>1. i \in 1 .. Len(c)
    BY <1>1
  <2> QED
    BY <2>1, ElementOfSeq
<1>3. /\ SubSeq(c, 2, m) \in Seq(Byte)
      /\ Len(SubSeq(c, 2, m)) = IF 2 <= m THEN m - 2 + 1 ELSE 0
      /\ \A i \in 1 .. m - 2 + 1 : SubSeq(c, 2, m)[i] = c[2 + i - 1]
  BY <1>1, <1>2, SubSeqProperties
<1>4. m - 2 + 1 = m - 1 /\ (IF 2 <= m THEN m - 2 + 1 ELSE 0) = m - 1
  BY <1>1
<1>5. \A i \in 1 .. m - 1 : 2 + i - 1 = i + 1
  BY <1>1
<1> QED
  BY <1>3, <1>4, <1>5

\* Where the bytes of a concatenation come from.
LEMMA ConcatAt ==
  ASSUME NEW s \in Seq(Byte), NEW t \in Seq(Byte)
  PROVE  /\ s \o t \in Seq(Byte) /\ Len(s \o t) = Len(s) + Len(t)
         /\ \A i \in 1 .. Len(s) : (s \o t)[i] = s[i]
         /\ \A i \in 1 .. Len(t) : (s \o t)[Len(s) + i] = t[i]
<1>1. /\ s \o t \in Seq(Byte) /\ Len(s \o t) = Len(s) + Len(t)
      /\ \A i \in 1 .. Len(s) + Len(t) : (s \o t)[i] = IF i <= Len(s) THEN s[i] ELSE t[i - Len(s)]
  BY ConcatProperties
<1>2. Len(s) \in Nat /\ Len(t) \in Nat
  OBVIOUS
<1>3. ASSUME NEW i \in 1 .. Len(t) PROVE (s \o t)[Len(s) + i] = t[i]
  <2>1. Len(s) + i \in 1 .. Len(s) + Len(t) /\ ~(Len(s) + i <= Len(s)) /\ Len(s) + i - Len(s) = i
    BY <1>2
  <2> QED
    BY <1>1, <2>1
<1>4. ASSUME NEW i \in 1 .. Len(s) PROVE (s \o t)[i] = s[i]
  <2>1. i \in 1 .. Len(s) + Len(t) /\ i <= Len(s)
    BY <1>2
  <2> QED
    BY <1>1, <2>1
<1> QED
  BY <1>1, <1>3, <1>4

\* Dropping the first byte commutes with appending one more.
LEMMA TailAppend ==
  ASSUME NEW c \in Seq(Byte), Len(c) >= 1, NEW b \in Byte
  PROVE  SubSeq(Append(c, b), 2, Len(c) + 1) = Append(SubSeq(c, 2, Len(c)), b)
<1> DEFINE s == SubSeq(c, 2, Len(c))
           t == SubSeq(Append(c, b), 2, Len(c) + 1)
           u == Append(s, b)
<1>1. Len(c) \in Nat /\ Len(c) \in 1 .. Len(c)
  OBVIOUS
<1>2. /\ s \in Seq(Byte) /\ Len(s) = Len(c) - 1
      /\ \A i \in 1 .. Len(c) - 1 : s[i] = c[i + 1]
  BY <1>1, FromSecond
<1>3. /\ Append(c, b) \in Seq(Byte) /\ Len(Append(c, b)) = Len(c) + 1
      /\ Append(c, b)[Len(c) + 1] = b
      /\ \A i \in 1 .. Len(c) : Append(c, b)[i] = c[i]
  BY AppendProperties
<1>4. /\ t \in Seq(Byte) /\ Len(t) = Len(c) + 1 - 1
      /\ \A i \in 1 .. Len(c) + 1 - 1 : t[i] = Append(c, b)[i + 1]
  BY <1>1, <1>3, FromSecond
<1>5. /\ u \in Seq(Byte) /\ Len(u) = Len(s) + 1
      /\ u[Len(s) + 1] = b
      /\ \A i \in 1 .. Len(s) : u[i] = s[i]
  BY <1>2, AppendProperties
<1> HIDE DEF s, t, u
<1>6. ASSUME NEW i \in 1 .. Len(c) PROVE t[i] = u[i]
  <2>1. t[i] = Append(c, b)[i + 1]
    BY <1>1, <1>4
  <2>2. CASE i = Len(c)
    BY <1>1, <1>2, <1>3, <1>5, <2>1, <2>2
  <2>3. CASE i # Len(c)
    <3>1. i \in 1 .. Len(c) - 1 /\ i + 1 \in 1 .. Len(c) /\ i \in 1 .. Len(s)
      BY <1>1, <1>2, <2>3
    <3>2. Append(c, b)[i + 1] = c[i + 1]
      BY <1>3, <3>1
    <3> QED
      BY <1>2, <1>5, <2>1, <3>1, <3>2
  <2> QED
    BY <2>2, <2>3
<1>7. Len(t) = Len(c) /\ Len(u) = Len(c)
  BY <1>1, <1>2, <1>4, <1>5
<1>8. t = u
  BY <1>4, <1>5, <1>6, <1>7, SeqEqual
<1> QED
  BY <1>8 DEF s, t, u

\* Appending does not change what was there.
LEMMA TailKept ==
  ASSUME NEW c \in Seq(Byte), NEW b \in Byte, NEW m \in 1 .. Len(c)
  PROVE  SubSeq(Append(c, b), 2, m) = SubSeq(c, 2, m)
<1>1. /\ Append(c, b) \in Seq(Byte) /\ Len(Append(c, b)) = Len(c) + 1
      /\ \A i \in 1 .. Len(c) : Append(c, b)[i] = c[i]
  BY AppendProperties
<1>2. m \in 1 .. Len(Append(c, b)) /\ \A i \in 1 .. m - 1 : i + 1 \in 1 .. Len(c)
  BY <1>1
<1>3. /\ SubSeq(c, 2, m) \in Seq(Byte) /\ Len(SubSeq(c, 2, m)) = m - 1
      /\ \A i \in 1 .. m - 1 : SubSeq(c, 2, m)[i] = c[i + 1]
  BY FromSecond
<1>4. /\ SubSeq(Append(c, b), 2, m) \in Seq(Byte) /\ Len(SubSeq(Append(c, b), 2, m)) = m - 1
      /\ \A i \in 1 .. m - 1 : SubSeq(Append(c, b), 2, m)[i] = Append(c, b)[i + 1]
  BY <1>1, <1>2, FromSecond
<1> QED
  BY <1>1, <1>2, <1>3, <1>4, SeqEqual

\* One more byte fed is one more byte covered, as long as CrcAssumption speaks.
LEMMA CrcStep ==
  ASSUME NEW c \in Seq(Byte), Len(c) >= 1, Len(c) <= COM_MAX_PAYLOAD_SIZE + 2, NEW b \in Byte
  PROVE  crc16_cal[SubSeq(Append(c, b), 2, Len(c) + 1)]
           = crc16_byte_cal[<<crc16_cal[SubSeq(c, 2, Len(c))], b>>]
<1>1. Len(c) \in 1 .. Len(c) /\ Len(c) \in Nat
  BY SizeFacts
<1>2. SubSeq(c, 2, Len(c)) \in Seq(Byte) /\ Len(SubSeq(c, 2, Len(c))) = Len(c) - 1
  BY <1>1, FromSecond
<1> DEFINE n == CrcLength - 1
<1>3. n \in Int /\ Len(c) - 1 <= n
  BY <1>1, SizeFacts
<1> HIDE DEF n
<1>4. SubSeq(c, 2, Len(c)) \in BytesUpTo(n)
  BY <1>2, <1>3, InBytesUpTo
<1> QED
  BY <1>4, TailAppend, CrcAssumption DEF n

\* The incremental CRC stays a word.
LEMMA CrcType ==
  ASSUME NEW crc \in Word, NEW b \in Byte
  PROVE  crc16_byte_cal[<<crc, b>>] \in Word
BY CrcAssumption

-----------------------------------------------------------------------------
(* The shape of a frame.                                                   *)

\* Where my_pack_data puts each byte.
LEMMA FrameShape ==
  ASSUME NEW p \in Seq(Byte), Len(p) <= COM_MAX_PAYLOAD_SIZE
  PROVE  /\ frame(p) \in Seq(Byte) /\ Len(frame(p)) = Len(p) + 6
         /\ frame(p)[1] = PACKER_START_BYTE
         /\ frame(p)[2] = high(Len(p)) /\ frame(p)[3] = low(Len(p))
         /\ \A i \in 1 .. Len(p) : frame(p)[3 + i] = p[i]
         /\ SubSeq(frame(p), 2, 3 + Len(p)) = covered(p)
         /\ crc16_cal[covered(p)] \in Word
         /\ frame(p)[4 + Len(p)] = high(crc16_cal[covered(p)])
         /\ frame(p)[5 + Len(p)] = low(crc16_cal[covered(p)])
         /\ frame(p)[6 + Len(p)] = PACKER_END_BYTE
<1> DEFINE n == Len(p)
           s == <<PACKER_START_BYTE>>
           l == <<high(n), low(n)>>
           c == l \o p
           w == crc16_cal[c]
           e == <<high(w), low(w), PACKER_END_BYTE>>
<1>1. n \in Nat /\ n <= COM_MAX_PAYLOAD_SIZE /\ n \in Word
  <2>1. n \in Nat
    OBVIOUS
  <2> QED
    BY <2>1, SizeFacts
<1>2. low(n) \in Byte /\ high(n) \in Byte
  BY <1>1, WordSplit
<1>3. l \in Seq(Byte) /\ Len(l) = 2 /\ l[1] = high(n) /\ l[2] = low(n)
  BY <1>2
<1> HIDE DEF n, l
<1>4. /\ c \in Seq(Byte) /\ Len(c) = 2 + n
      /\ \A i \in 1 .. 2 : c[i] = l[i]
      /\ \A i \in 1 .. n : c[2 + i] = p[i]
  <2>1. /\ c \in Seq(Byte) /\ Len(c) = Len(l) + Len(p)
        /\ \A i \in 1 .. Len(l) : c[i] = l[i]
        /\ \A i \in 1 .. Len(p) : c[Len(l) + i] = p[i]
    BY <1>3, ConcatAt
  <2> QED
    BY <1>3, <2>1 DEF n
<1> HIDE DEF c
<1>5. c \in BytesUpTo(CrcLength)
  BY <1>1, <1>4, InBytesUpTo, SizeFacts
<1>6. w \in Word
  BY <1>5, CrcAssumption
<1> HIDE DEF w
<1>7. low(w) \in Byte /\ high(w) \in Byte
  BY <1>6, WordSplit
<1>8. e \in Seq(Byte) /\ Len(e) = 3 /\ e[1] = high(w) /\ e[2] = low(w) /\ e[3] = PACKER_END_BYTE
  BY <1>7, ByteAssumption
<1>9. s \in Seq(Byte) /\ Len(s) = 1 /\ s[1] = PACKER_START_BYTE
  BY ByteAssumption
<1> HIDE DEF s, e
<1>10. /\ s \o c \in Seq(Byte) /\ Len(s \o c) = 1 + (2 + n)
       /\ \A i \in 1 .. 1 : (s \o c)[i] = s[i]
       /\ \A i \in 1 .. 2 + n : (s \o c)[1 + i] = c[i]
  <2>1. /\ s \o c \in Seq(Byte) /\ Len(s \o c) = Len(s) + Len(c)
        /\ \A i \in 1 .. Len(s) : (s \o c)[i] = s[i]
        /\ \A i \in 1 .. Len(c) : (s \o c)[Len(s) + i] = c[i]
    BY <1>4, <1>9, ConcatAt
  <2> QED
    BY <1>4, <1>9, <2>1
<1>11. (s \o c) \in Seq(Byte) /\ 1 + (2 + n) \in Nat
  BY <1>1, <1>10
<1>12. /\ (s \o c) \o e \in Seq(Byte) /\ Len((s \o c) \o e) = (1 + (2 + n)) + 3
       /\ \A i \in 1 .. 1 + (2 + n) : ((s \o c) \o e)[i] = (s \o c)[i]
       /\ \A i \in 1 .. 3 : ((s \o c) \o e)[(1 + (2 + n)) + i] = e[i]
  <2> DEFINE sc == s \o c
  <2>1. sc \in Seq(Byte)
    BY <1>10
  <2>2. Len(sc) = 1 + (2 + n)
    BY <1>10
  <2> HIDE DEF sc
  <2>3. /\ sc \o e \in Seq(Byte) /\ Len(sc \o e) = Len(sc) + Len(e)
        /\ \A i \in 1 .. Len(sc) : (sc \o e)[i] = sc[i]
        /\ \A i \in 1 .. Len(e) : (sc \o e)[Len(sc) + i] = e[i]
    BY <1>8, <2>1, ConcatAt
  <2>4. /\ sc \o e \in Seq(Byte) /\ Len(sc \o e) = (1 + (2 + n)) + 3
        /\ \A i \in 1 .. 1 + (2 + n) : (sc \o e)[i] = sc[i]
        /\ \A i \in 1 .. 3 : (sc \o e)[(1 + (2 + n)) + i] = e[i]
    BY <1>8, <2>2, <2>3
  <2> QED
    BY <2>4 DEF sc
<1>13. frame(p) = (s \o c) \o e /\ covered(p) = c
  <2>1. covered(p) = c
    BY DEF covered, c, l, n
  <2>2. <<high(crc16_cal[covered(p)]), low(crc16_cal[covered(p)]), PACKER_END_BYTE>> = e
    BY <2>1 DEF e, w
  <2>3. (s \o c) \o e = s \o c \o e
    OBVIOUS
  <2>4. frame(p) = s \o covered(p) \o <<high(crc16_cal[covered(p)]), low(crc16_cal[covered(p)]), PACKER_END_BYTE>>
    BY DEF frame, s
  <2> QED
    BY <2>1, <2>2, <2>3, <2>4
<1> DEFINE f == frame(p)
<1> HIDE DEF f
<1>14. /\ f \in Seq(Byte) /\ Len(f) = n + 6
       /\ f[1] = s[1]
       /\ \A i \in 1 .. 2 + n : f[1 + i] = c[i]
       /\ \A i \in 1 .. 3 : f[3 + n + i] = e[i]
  <2>1. f = (s \o c) \o e
    BY <1>13 DEF f
  <2>2. f[1] = s[1]
    BY <1>1, <1>10, <1>12, <2>1
  <2>3. ASSUME NEW i \in 1 .. 2 + n PROVE f[1 + i] = c[i]
    <3>1. 1 + i \in 1 .. 1 + (2 + n)
      BY <1>1
    <3> QED
      BY <1>10, <1>12, <2>1, <3>1
  <2>4. ASSUME NEW i \in 1 .. 3 PROVE f[3 + n + i] = e[i]
    <3>1. (1 + (2 + n)) + i = 3 + n + i
      BY <1>1
    <3> QED
      BY <1>12, <2>1, <3>1
  <2>5. (1 + (2 + n)) + 3 = n + 6
    BY <1>1
  <2> QED
    BY <1>12, <2>1, <2>2, <2>3, <2>4, <2>5
<1>15. /\ f[2] = l[1] /\ f[3] = l[2]
       /\ \A i \in 1 .. n : f[3 + i] = p[i]
  <2>1. 1 \in 1 .. 2 + n /\ 2 \in 1 .. 2 + n
    BY <1>1
  <2>2. f[1 + 1] = c[1] /\ f[1 + 2] = c[2]
    BY <1>14, <2>1
  <2>3. ASSUME NEW i \in 1 .. n PROVE f[3 + i] = p[i]
    <3>1. 2 + i \in 1 .. 2 + n /\ 1 + (2 + i) = 3 + i
      BY <1>1
    <3> QED
      BY <1>4, <1>14, <3>1
  <2> QED
    BY <1>4, <2>2, <2>3
<1>16. f[4 + n] = e[1] /\ f[5 + n] = e[2] /\ f[6 + n] = e[3]
  <2>1. 3 + n + 1 = 4 + n /\ 3 + n + 2 = 5 + n /\ 3 + n + 3 = 6 + n
    BY <1>1
  <2> QED
    BY <1>14, <2>1
<1>17. SubSeq(f, 2, 3 + n) = c
  <2> DEFINE m == 3 + n
             g == SubSeq(f, 2, m)
  <2>1. m \in 1 .. Len(f) /\ m - 1 = 2 + n /\ \A i \in 1 .. 2 + n : i + 1 = 1 + i
    BY <1>1, <1>14
  <2> HIDE DEF m
  <2>2. /\ g \in Seq(Byte) /\ Len(g) = m - 1
        /\ \A i \in 1 .. m - 1 : g[i] = f[i + 1]
    BY <1>14, <2>1, FromSecond
  <2> HIDE DEF g
  <2>3. Len(g) = Len(c)
    BY <1>4, <2>1, <2>2
  <2>4. ASSUME NEW i \in 1 .. Len(g) PROVE g[i] = c[i]
    <3>1. i \in 1 .. m - 1 /\ i \in 1 .. 2 + n /\ i + 1 = 1 + i
      BY <1>1, <2>1, <2>2
    <3>2. g[i] = f[i + 1] /\ f[1 + i] = c[i]
      BY <1>14, <2>2, <3>1
    <3> QED
      BY <3>1, <3>2
  <2>5. g = c
    BY <1>4, <2>2, <2>3, <2>4, SeqEqual
  <2> QED
    BY <2>5 DEF g, m
<1> QED
  BY <1>3, <1>6, <1>8, <1>9, <1>13, <1>14, <1>15, <1>16, <1>17 DEF n, w, f

-----------------------------------------------------------------------------
(* The inductive invariant.                                                *)

LEMMA InitLock == PackerInit => PackerTypeOK /\ LockInv /\ FailureIsReal
<1> SUFFICES ASSUME PackerInit PROVE PackerTypeOK /\ LockInv /\ FailureIsReal
  OBVIOUS
<1>1. PackerTypeOK
  BY SizeFacts DEF PackerInit, PackerTypeOK
<1>2. LockInv /\ FailureIsReal
  BY DEF PackerInit, LockInv, FailureIsReal
<1> QED
  BY <1>1, <1>2

\* What appending the byte fed does to the candidate.
LEMMA Appended ==
  ASSUME PackerTypeOK, NEW byte \in Byte, candidate' = Append(candidate, byte)
  PROVE  /\ Len(candidate) \in Nat
         /\ candidate' \in Seq(Byte) /\ Len(candidate') = Len(candidate) + 1
         /\ candidate' # << >>
         /\ candidate'[Len(candidate) + 1] = byte
         /\ \A i \in 1 .. Len(candidate) : candidate'[i] = candidate[i]
BY AppendProperties DEF PackerTypeOK

\* A byte that is covered by the CRC keeps the running CRC right.
LEMMA CrcExtends ==
  ASSUME PackerTypeOK, NEW byte \in Byte, candidate' = Append(candidate, byte),
         Len(candidate) \in 1 .. COM_MAX_PAYLOAD_SIZE + 2, CrcUpTo(Len(candidate)),
         unpack_crc' = crc16_byte_cal[<<unpack_crc, byte>>]
  PROVE  unpack_crc' = crc16_cal[SubSeq(candidate', 2, Len(candidate'))]
<1>1. candidate \in Seq(Byte) /\ Len(candidate) >= 1 /\ Len(candidate) <= COM_MAX_PAYLOAD_SIZE + 2
  BY SizeFacts DEF PackerTypeOK
<1>2. crc16_cal[SubSeq(candidate', 2, Len(candidate) + 1)]
        = crc16_byte_cal[<<crc16_cal[SubSeq(candidate, 2, Len(candidate))], byte>>]
  BY <1>1, CrcStep
<1> QED
  BY <1>2, Appended DEF CrcUpTo

\* A byte behind the covered ones does not disturb it.
LEMMA CrcStays ==
  ASSUME PackerTypeOK, NEW byte \in Byte, candidate' = Append(candidate, byte),
         NEW m \in 1 .. Len(candidate), CrcUpTo(m), UNCHANGED unpack_crc
  PROVE  unpack_crc' = crc16_cal[SubSeq(candidate', 2, m)]
BY TailKept DEF CrcUpTo, PackerTypeOK

\* Once it is read, the length is that of a payload that fits.
LEMMA LengthFacts ==
  ASSUME PackerTypeOK, LengthRead
  PROVE  /\ unpack_length \in Nat /\ unpack_length >= 1
         /\ unpack_length <= COM_MAX_PAYLOAD_SIZE
         /\ unpack_length <= size_out
<1>1. unpack_length \in Nat
  BY SizeFacts DEF PackerTypeOK, Word
<1> QED
  BY <1>1 DEF LengthRead, decodable, PACKER_MIN_PAYLOAD_SIZE

\* A byte of the trailer leaves what was read of the frame as it is.
LEMMA FrameStays ==
  ASSUME PackerTypeOK, NEW byte \in Byte, candidate' = Append(candidate, byte),
         FrameRead, Len(candidate) >= 3 + unpack_length,
         UNCHANGED <<unpack_crc, unpack_offset, unpack_length, buffer_out>>
  PROVE  /\ FrameRead'
         /\ candidate' \in Seq(Byte) /\ candidate' # << >>
         /\ Len(candidate') = Len(candidate) + 1 /\ candidate'[Len(candidate) + 1] = byte
         /\ \A i \in 1 .. Len(candidate) : candidate'[i] = candidate[i]
<1>1. LengthRead /\ PayloadRead(unpack_length) /\ CrcUpTo(3 + unpack_length)
  BY DEF FrameRead
<1>2. unpack_length \in Nat /\ unpack_length >= 1
  BY <1>1, LengthFacts
<1>3. /\ Len(candidate) \in Nat
      /\ candidate' \in Seq(Byte) /\ Len(candidate') = Len(candidate) + 1
      /\ candidate' # << >>
      /\ candidate'[Len(candidate) + 1] = byte
      /\ \A i \in 1 .. Len(candidate) : candidate'[i] = candidate[i]
  BY Appended
<1>4. candidate'[2] = candidate[2] /\ candidate'[3] = candidate[3]
  BY <1>2, <1>3
<1>5. LengthRead'
  BY <1>1, <1>4 DEF LengthRead, received_length
<1>6. PayloadRead(unpack_length)'
  <2> SUFFICES ASSUME NEW i \in 1 .. unpack_length
               PROVE  candidate'[3 + i] = buffer_out[i - 1]
    BY DEF PayloadRead
  <2>1. 3 + i \in 1 .. Len(candidate)
    BY <1>2, <1>3
  <2> QED
    BY <1>1, <1>3, <2>1 DEF PayloadRead
<1>7. 3 + unpack_length \in 1 .. Len(candidate)
  BY <1>2, <1>3
<1>8. unpack_crc' = crc16_cal[SubSeq(candidate', 2, 3 + unpack_length)]
  BY <1>1, <1>7, CrcStays
<1>9. CrcUpTo(3 + unpack_length)'
  BY <1>8 DEF CrcUpTo
<1> QED
  BY <1>3, <1>5, <1>6, <1>9 DEF FrameRead

LEMMA ResetLock ==
  ASSUME PackerTypeOK, LockInv, Reset
  PROVE  PackerTypeOK' /\ LockInv' /\ FailureIsReal'
<1>1. /\ unpack_state' = "WAIT_START" /\ unpack_crc' = 0 /\ unpack_offset' = 0
      /\ unpack_length' = 0 /\ candidate' = << >> /\ result' = "RUNNING"
      /\ buffer_out' = buffer_out /\ candidate' \in Seq(Byte)
  BY DEF Reset, unit_packer_init_no_func
<1>2. PackerTypeOK'
  BY <1>1, SizeFacts DEF PackerTypeOK
<1> QED
  BY <1>1, <1>2 DEF LockInv, FailureIsReal

LEMMA WaitStartLock ==
  ASSUME PackerTypeOK, LockInv, NEW byte \in Byte, WaitStart(byte)
  PROVE  PackerTypeOK' /\ LockInv' /\ FailureIsReal'
<1>1. result' = "RUNNING" /\ unpack_offset' = 0 /\ unpack_length' = 0 /\ buffer_out' = buffer_out
  BY DEF WaitStart, GoOn
<1>2. CASE byte = PACKER_START_BYTE
  <2>1. candidate' = <<byte>> /\ unpack_state' = "READ_LENGTH_HIGH" /\ unpack_crc' = B * B - 1
    BY <1>2 DEF WaitStart, GoOn
  <2>2. /\ candidate' \in Seq(Byte) /\ candidate' # << >>
        /\ Len(candidate') = 1 /\ candidate'[1] = byte
    BY <2>1
  <2>3. PackerTypeOK'
    BY <1>1, <2>1, <2>2, SizeFacts DEF PackerTypeOK
  <2>4. SubSeq(candidate', 2, 1) = << >>
    BY SubSeqEmpty
  <2>5. CrcUpTo(1)'
    BY <2>1, <2>4, CrcAssumption DEF CrcUpTo
  <2> QED
    BY <1>1, <1>2, <2>1, <2>2, <2>3, <2>5 DEF LockInv, FailureIsReal
<1>3. CASE byte # PACKER_START_BYTE
  <2>1. candidate' = << >> /\ unpack_state' = "WAIT_START" /\ unpack_crc' = unpack_crc
    BY <1>3 DEF WaitStart, GoOn
  <2>2. candidate' \in Seq(Byte)
    BY <2>1
  <2>3. PackerTypeOK'
    BY <1>1, <2>1, <2>2, SizeFacts DEF PackerTypeOK
  <2> QED
    BY <1>1, <2>1, <2>3 DEF LockInv, FailureIsReal
<1> QED
  BY <1>2, <1>3

LEMMA ReadLengthHighLock ==
  ASSUME PackerTypeOK, LockInv, NEW byte \in Byte, ReadLengthHigh(byte),
         candidate' = Append(candidate, byte)
  PROVE  PackerTypeOK' /\ LockInv' /\ FailureIsReal'
<1>1. /\ Len(candidate) = 1 /\ CrcUpTo(Len(candidate)) /\ candidate[1] = PACKER_START_BYTE
      /\ 1 \in 1 .. COM_MAX_PAYLOAD_SIZE + 2
  <2>1. Len(candidate) = 1 /\ CrcUpTo(1) /\ candidate[1] = PACKER_START_BYTE
    BY DEF LockInv, ReadLengthHigh
  <2>2. CrcUpTo(Len(candidate))
    BY <2>1
  <2> QED
    BY <2>1, <2>2, SizeFacts
<1>2. /\ unpack_state' = "READ_LENGTH_LOW" /\ unpack_offset' = unpack_offset
      /\ unpack_length' = B * byte /\ result' = "RUNNING" /\ buffer_out' = buffer_out
      /\ unpack_crc' = crc16_byte_cal[<<unpack_crc, byte>>]
  BY DEF ReadLengthHigh, GoOn
<1>3. unpack_crc' = crc16_cal[SubSeq(candidate', 2, Len(candidate'))]
  BY <1>1, <1>2, CrcExtends
<1>4. /\ candidate' \in Seq(Byte) /\ Len(candidate') = 2 /\ candidate' # << >>
      /\ candidate'[1] = PACKER_START_BYTE /\ candidate'[2] = byte
  BY <1>1, Appended
<1>5. unpack_length' \in Word
  <2>1. B * byte + 0 \in Word /\ B * byte + 0 = B * byte
    BY WordJoin, SizeFacts DEF Byte
  <2> QED
    BY <1>2, <2>1
<1>6. PackerTypeOK'
  BY <1>2, <1>4, <1>5, CrcType DEF PackerTypeOK
<1>7. CrcUpTo(2)'
  BY <1>3, <1>4 DEF CrcUpTo
<1> QED
  BY <1>2, <1>4, <1>6, <1>7 DEF LockInv, FailureIsReal

LEMMA ReadLengthLowLock ==
  ASSUME PackerTypeOK, LockInv, NEW byte \in Byte, ReadLengthLow(byte),
         candidate' = Append(candidate, byte)
  PROVE  PackerTypeOK' /\ LockInv' /\ FailureIsReal'
<1>1. /\ Len(candidate) = 2 /\ CrcUpTo(Len(candidate)) /\ candidate[1] = PACKER_START_BYTE
      /\ 2 \in 1 .. COM_MAX_PAYLOAD_SIZE + 2 /\ unpack_length = B * candidate[2]
  <2>1. /\ Len(candidate) = 2 /\ CrcUpTo(2) /\ candidate[1] = PACKER_START_BYTE
        /\ unpack_length = B * candidate[2]
    BY DEF LockInv, ReadLengthLow
  <2>2. CrcUpTo(Len(candidate))
    BY <2>1
  <2> QED
    BY <2>1, <2>2, SizeFacts
<1>2. /\ unpack_offset' = 0 /\ unpack_length' = unpack_length + byte /\ buffer_out' = buffer_out
      /\ unpack_crc' = crc16_byte_cal[<<unpack_crc, byte>>]
  BY DEF ReadLengthLow
<1>3. unpack_crc' = crc16_cal[SubSeq(candidate', 2, Len(candidate'))]
  BY <1>1, <1>2, CrcExtends
<1>4. /\ candidate' \in Seq(Byte) /\ Len(candidate') = 3 /\ candidate' # << >>
      /\ candidate'[1] = PACKER_START_BYTE /\ candidate'[2] = candidate[2] /\ candidate'[3] = byte
  BY <1>1, Appended
<1>5. unpack_length' \in Word
  <2>1. candidate[2] \in Byte
    BY <1>1, ElementOfSeq DEF PackerTypeOK
  <2> QED
    BY <1>1, <1>2, <2>1, WordJoin
<1>6. unpack_length' = received_length(candidate')
  BY <1>1, <1>2, <1>4 DEF received_length
<1>7. CASE ~decodable(unpack_length')
  <2>1. unpack_state' = "WAIT_START" /\ result' = "LENGTH_OUT_OF_BOUNDS"
    BY <1>7 DEF ReadLengthLow, Fail
  <2>2. PackerTypeOK'
    BY <1>2, <1>4, <1>5, <2>1, CrcType, SizeFacts DEF PackerTypeOK
  <2>3. LockInv'
    BY <1>4, <2>1 DEF LockInv
  <2>4. FailureIsReal'
    BY <1>4, <1>6, <1>7, <2>1 DEF FailureIsReal
  <2> QED
    BY <2>2, <2>3, <2>4
<1>8. CASE decodable(unpack_length')
  <2>1. unpack_state' = "READ_PAYLOAD" /\ result' = "RUNNING"
    BY <1>8 DEF ReadLengthLow, GoOn
  <2>2. PackerTypeOK'
    BY <1>2, <1>4, <1>5, <2>1, CrcType, SizeFacts DEF PackerTypeOK
  <2>3. LengthRead'
    BY <1>6, <1>8 DEF LengthRead
  <2>4. PayloadRead(unpack_offset)'
    BY <1>2 DEF PayloadRead
  <2>5. CrcUpTo(Len(candidate))'
    BY <1>3 DEF CrcUpTo
  <2>6. unpack_offset' < unpack_length' /\ Len(candidate') = 3 + unpack_offset'
    <3>1. unpack_length' \in Nat /\ unpack_length' >= 1
      BY <1>5, <1>8, SizeFacts DEF decodable, PACKER_MIN_PAYLOAD_SIZE, Word
    <3> QED
      BY <1>2, <1>4, <3>1
  <2> QED
    BY <1>4, <2>1, <2>2, <2>3, <2>4, <2>5, <2>6 DEF LockInv, FailureIsReal
<1> QED
  BY <1>7, <1>8

LEMMA ReadPayloadLock ==
  ASSUME PackerTypeOK, LockInv, NEW byte \in Byte, ReadPayload(byte),
         candidate' = Append(candidate, byte)
  PROVE  PackerTypeOK' /\ LockInv' /\ FailureIsReal'
<1>1. /\ unpack_offset < unpack_length /\ Len(candidate) = 3 + unpack_offset
      /\ LengthRead /\ PayloadRead(unpack_offset) /\ CrcUpTo(Len(candidate))
      /\ candidate[1] = PACKER_START_BYTE
  BY DEF LockInv, ReadPayload
<1>2. /\ buffer_out' = [buffer_out EXCEPT ![unpack_offset] = byte]
      /\ unpack_offset' = unpack_offset + 1
      /\ unpack_crc' = crc16_byte_cal[<<unpack_crc, byte>>]
      /\ unpack_length' = unpack_length /\ result' = "RUNNING"
      /\ unpack_state' = IF unpack_offset' >= unpack_length THEN "READ_CRC_HIGH" ELSE "READ_PAYLOAD"
  BY DEF ReadPayload, GoOn
<1>3. /\ unpack_length \in Nat /\ unpack_offset \in Nat /\ COM_MAX_PAYLOAD_SIZE \in Nat
      /\ size_out \in Nat /\ unpack_length <= COM_MAX_PAYLOAD_SIZE /\ unpack_length <= size_out
  BY <1>1, LengthFacts, SizeFacts DEF PackerTypeOK, Word
<1>4. Len(candidate) \in 1 .. COM_MAX_PAYLOAD_SIZE + 2
  BY <1>1, <1>3
<1>5. unpack_crc' = crc16_cal[SubSeq(candidate', 2, Len(candidate'))]
  BY <1>1, <1>2, <1>4, CrcExtends
<1>6. /\ candidate' \in Seq(Byte) /\ Len(candidate') = 3 + (unpack_offset + 1) /\ candidate' # << >>
      /\ candidate'[3 + (unpack_offset + 1)] = byte
      /\ \A i \in 1 .. 3 + unpack_offset : candidate'[i] = candidate[i]
  BY <1>1, <1>3, Appended
<1>7. /\ candidate'[1] = PACKER_START_BYTE /\ candidate'[2] = candidate[2]
      /\ candidate'[3] = candidate[3]
  BY <1>1, <1>3, <1>6
<1>8. LengthRead'
  BY <1>1, <1>2, <1>7 DEF LengthRead, received_length
<1>9. buffer_out \in [0 .. size_out - 1 -> Byte] /\ unpack_offset \in 0 .. size_out - 1
  BY <1>1, <1>3 DEF PackerTypeOK
<1>10. buffer_out' \in [0 .. size_out - 1 -> Byte]
  BY <1>2, <1>9
<1>11. \A i \in 1 .. unpack_offset + 1 : candidate'[3 + i] = buffer_out'[i - 1]
  <2> SUFFICES ASSUME NEW i \in 1 .. unpack_offset + 1
               PROVE  candidate'[3 + i] = buffer_out'[i - 1]
    OBVIOUS
  <2>1. CASE i = unpack_offset + 1
    BY <1>2, <1>3, <1>6, <1>9, <2>1
  <2>2. CASE i # unpack_offset + 1
    <3>1. i \in 1 .. unpack_offset /\ 3 + i \in 1 .. 3 + unpack_offset
          /\ i - 1 \in 0 .. size_out - 1 /\ i - 1 # unpack_offset
      BY <1>3, <1>9, <2>2
    <3>2. candidate'[3 + i] = candidate[3 + i] /\ candidate[3 + i] = buffer_out[i - 1]
      BY <1>1, <1>6, <3>1 DEF PayloadRead
    <3>3. buffer_out'[i - 1] = buffer_out[i - 1]
      BY <1>2, <1>9, <3>1
    <3> QED
      BY <3>2, <3>3
  <2> QED
    BY <2>1, <2>2
<1>12. PayloadRead(unpack_offset)' /\ CrcUpTo(Len(candidate))' /\ unpack_offset' \in Word
       /\ Len(candidate') = 3 + unpack_offset'
  <2>1. unpack_offset + 1 \in 0 .. COM_MAX_PAYLOAD_SIZE + 6
    BY <1>1, <1>3
  <2> QED
    BY <1>2, <1>5, <1>6, <1>11, <2>1, SizeFacts DEF PayloadRead, CrcUpTo
<1>13. PackerTypeOK'
  BY <1>2, <1>6, <1>10, <1>12, CrcType DEF PackerTypeOK
<1>14. FailureIsReal'
  BY <1>2 DEF FailureIsReal
<1>15. CASE unpack_offset + 1 >= unpack_length
  <2>1. unpack_state' = "READ_CRC_HIGH" /\ unpack_offset' = unpack_length'
    BY <1>1, <1>2, <1>3, <1>15
  <2>2. PayloadRead(unpack_length)' /\ CrcUpTo(3 + unpack_length)' /\ Len(candidate') = 3 + unpack_length'
    BY <1>12, <2>1 DEF PayloadRead, CrcUpTo
  <2>3. FrameRead'
    BY <1>8, <2>2 DEF FrameRead
  <2>4. LockInv'
    BY <1>2, <1>6, <1>7, <2>1, <2>2, <2>3 DEF LockInv
  <2> QED
    BY <1>13, <1>14, <2>4
<1>16. CASE unpack_offset + 1 < unpack_length
  <2>1. unpack_state' = "READ_PAYLOAD" /\ unpack_offset' < unpack_length'
    BY <1>2, <1>3, <1>16
  <2>2. LockInv'
    BY <1>2, <1>6, <1>7, <1>8, <1>12, <2>1 DEF LockInv
  <2> QED
    BY <1>13, <1>14, <2>2
<1> QED
  BY <1>3, <1>15, <1>16

LEMMA ReadCrcHighLock ==
  ASSUME PackerTypeOK, LockInv, NEW byte \in Byte, ReadCrcHigh(byte),
         candidate' = Append(candidate, byte)
  PROVE  PackerTypeOK' /\ LockInv' /\ FailureIsReal'
<1>1. FrameRead /\ Len(candidate) = 3 + unpack_length /\ candidate[1] = PACKER_START_BYTE
  BY DEF LockInv, ReadCrcHigh
<1>2. UNCHANGED <<unpack_crc, unpack_offset, unpack_length, buffer_out>>
  BY DEF ReadCrcHigh, Check
<1>3. unpack_length \in Nat /\ unpack_length >= 1 /\ 3 + unpack_length >= 3 + unpack_length
  BY <1>1, LengthFacts DEF FrameRead
<1>4. /\ FrameRead'
      /\ candidate' \in Seq(Byte) /\ candidate' # << >>
      /\ Len(candidate') = Len(candidate) + 1 /\ candidate'[Len(candidate) + 1] = byte
      /\ \A i \in 1 .. Len(candidate) : candidate'[i] = candidate[i]
  BY <1>1, <1>2, <1>3, FrameStays
<1>5. /\ Len(candidate') = 4 + unpack_length' /\ candidate'[4 + unpack_length'] = byte
      /\ candidate'[1] = PACKER_START_BYTE
  BY <1>1, <1>2, <1>3, <1>4
<1>6. CASE byte = high(unpack_crc)
  <2>1. unpack_state' = "READ_CRC_LOW" /\ result' = "RUNNING"
    BY <1>6 DEF ReadCrcHigh, Check, GoOn
  <2>2. HighRead'
    BY <1>2, <1>5, <1>6 DEF HighRead
  <2>3. PackerTypeOK'
    BY <1>2, <1>4, <2>1 DEF PackerTypeOK
  <2> QED
    BY <1>4, <1>5, <2>1, <2>2, <2>3 DEF LockInv, FailureIsReal
<1>7. CASE byte # high(unpack_crc)
  <2>1. unpack_state' = "WAIT_START" /\ result' = "CRC_MISMATCH"
    BY <1>7 DEF ReadCrcHigh, Check, Fail
  <2>2. ~HighRead'
    BY <1>2, <1>5, <1>7 DEF HighRead
  <2>3. PackerTypeOK'
    BY <1>2, <1>4, <2>1 DEF PackerTypeOK
  <2> QED
    BY <1>4, <1>5, <2>1, <2>2, <2>3 DEF LockInv, FailureIsReal
<1> QED
  BY <1>6, <1>7

LEMMA ReadCrcLowLock ==
  ASSUME PackerTypeOK, LockInv, NEW byte \in Byte, ReadCrcLow(byte),
         candidate' = Append(candidate, byte)
  PROVE  PackerTypeOK' /\ LockInv' /\ FailureIsReal'
<1>1. /\ FrameRead /\ HighRead /\ Len(candidate) = 4 + unpack_length
      /\ candidate[1] = PACKER_START_BYTE
  BY DEF LockInv, ReadCrcLow
<1>2. UNCHANGED <<unpack_crc, unpack_offset, unpack_length, buffer_out>>
  BY DEF ReadCrcLow, Check
<1>3. unpack_length \in Nat /\ unpack_length >= 1 /\ 4 + unpack_length >= 3 + unpack_length
  BY <1>1, LengthFacts DEF FrameRead
<1>4. /\ FrameRead'
      /\ candidate' \in Seq(Byte) /\ candidate' # << >>
      /\ Len(candidate') = Len(candidate) + 1 /\ candidate'[Len(candidate) + 1] = byte
      /\ \A i \in 1 .. Len(candidate) : candidate'[i] = candidate[i]
  BY <1>1, <1>2, <1>3, FrameStays
<1>5. /\ Len(candidate') = 5 + unpack_length' /\ candidate'[5 + unpack_length'] = byte
      /\ candidate'[4 + unpack_length'] = candidate[4 + unpack_length]
      /\ candidate'[1] = PACKER_START_BYTE
  BY <1>1, <1>2, <1>3, <1>4
<1>6. HighRead'
  BY <1>1, <1>2, <1>5 DEF HighRead
<1>7. CASE byte = low(unpack_crc)
  <2>1. unpack_state' = "WAIT_END" /\ result' = "RUNNING"
    BY <1>7 DEF ReadCrcLow, Check, GoOn
  <2>2. TrailerRead'
    BY <1>2, <1>4, <1>5, <1>6, <1>7 DEF TrailerRead
  <2>3. PackerTypeOK'
    BY <1>2, <1>4, <2>1 DEF PackerTypeOK
  <2> QED
    BY <1>4, <1>5, <2>1, <2>2, <2>3 DEF LockInv, FailureIsReal
<1>8. CASE byte # low(unpack_crc)
  <2>1. unpack_state' = "WAIT_START" /\ result' = "CRC_MISMATCH"
    BY <1>8 DEF ReadCrcLow, Check, Fail
  <2>2. candidate'[5 + unpack_length'] # low(unpack_crc')
    BY <1>2, <1>5, <1>8
  <2>3. PackerTypeOK'
    BY <1>2, <1>4, <2>1 DEF PackerTypeOK
  <2> QED
    BY <1>4, <1>5, <2>1, <2>2, <2>3 DEF LockInv, FailureIsReal
<1> QED
  BY <1>7, <1>8

LEMMA WaitEndLock ==
  ASSUME PackerTypeOK, LockInv, NEW byte \in Byte, WaitEnd(byte),
         candidate' = Append(candidate, byte)
  PROVE  PackerTypeOK' /\ LockInv' /\ FailureIsReal'
<1>1. /\ TrailerRead /\ Len(candidate) = 5 + unpack_length
      /\ candidate[1] = PACKER_START_BYTE
  BY DEF LockInv, WaitEnd
<1>2. /\ UNCHANGED <<unpack_crc, unpack_offset, unpack_length, buffer_out>>
      /\ unpack_state' = "WAIT_START"
      /\ result' = IF byte = PACKER_END_BYTE THEN "SUCCESS" ELSE "INVALID_END_BYTE"
  BY DEF WaitEnd
<1>3. FrameRead /\ unpack_length \in Nat /\ unpack_length >= 1 /\ 5 + unpack_length >= 3 + unpack_length
  BY <1>1, LengthFacts DEF TrailerRead, FrameRead
<1>4. /\ FrameRead'
      /\ candidate' \in Seq(Byte) /\ candidate' # << >>
      /\ Len(candidate') = Len(candidate) + 1 /\ candidate'[Len(candidate) + 1] = byte
      /\ \A i \in 1 .. Len(candidate) : candidate'[i] = candidate[i]
  BY <1>1, <1>2, <1>3, FrameStays
<1>5. /\ Len(candidate') = 6 + unpack_length' /\ candidate'[6 + unpack_length'] = byte
      /\ candidate'[4 + unpack_length'] = candidate[4 + unpack_length]
      /\ candidate'[5 + unpack_length'] = candidate[5 + unpack_length]
      /\ candidate'[1] = PACKER_START_BYTE
  BY <1>1, <1>2, <1>3, <1>4
<1>6. TrailerRead'
  BY <1>1, <1>2, <1>4, <1>5 DEF TrailerRead, HighRead
<1>7. PackerTypeOK'
  BY <1>2, <1>4 DEF PackerTypeOK
<1> QED
  BY <1>2, <1>4, <1>5, <1>6, <1>7 DEF LockInv, FailureIsReal

\* The step of the inductive invariant.
LEMMA LockNext ==
  PackerTypeOK /\ LockInv /\ FailureIsReal /\ [PackerNext]_packer_vars
    => PackerTypeOK' /\ LockInv' /\ FailureIsReal'
<1> SUFFICES ASSUME PackerTypeOK, LockInv, FailureIsReal, [PackerNext]_packer_vars
             PROVE  PackerTypeOK' /\ LockInv' /\ FailureIsReal'
  OBVIOUS
<1>1. CASE UNCHANGED packer_vars
  <2>1. /\ unpack_state' = unpack_state /\ unpack_crc' = unpack_crc
        /\ unpack_offset' = unpack_offset /\ unpack_length' = unpack_length
        /\ buffer_out' = buffer_out /\ result' = result /\ candidate' = candidate
    BY <1>1 DEF packer_vars
  <2>2. PackerTypeOK'
    BY <2>1 DEF PackerTypeOK
  <2>3. LockInv' /\ FailureIsReal'
    BY <2>1 DEF LockInv, FailureIsReal, TrailerRead, HighRead, FrameRead, LengthRead, PayloadRead, CrcUpTo
  <2> QED
    BY <2>2, <2>3
<1>2. CASE Reset
  BY <1>2, ResetLock
<1>3. ASSUME NEW byte \in Byte, my_unpack_data_state(byte)
      PROVE  PackerTypeOK' /\ LockInv' /\ FailureIsReal'
  <2>1. CASE WaitStart(byte)
    BY <2>1, WaitStartLock
  <2>2. CASE ReadLengthHigh(byte) /\ candidate' = Append(candidate, byte)
    BY <2>2, ReadLengthHighLock
  <2>3. CASE ReadLengthLow(byte) /\ candidate' = Append(candidate, byte)
    BY <2>3, ReadLengthLowLock
  <2>4. CASE ReadPayload(byte) /\ candidate' = Append(candidate, byte)
    BY <2>4, ReadPayloadLock
  <2>5. CASE ReadCrcHigh(byte) /\ candidate' = Append(candidate, byte)
    BY <2>5, ReadCrcHighLock
  <2>6. CASE ReadCrcLow(byte) /\ candidate' = Append(candidate, byte)
    BY <2>6, ReadCrcLowLock
  <2>7. CASE WaitEnd(byte) /\ candidate' = Append(candidate, byte)
    BY <2>7, WaitEndLock
  <2> QED
    BY <1>3, <2>1, <2>2, <2>3, <2>4, <2>5, <2>6, <2>7 DEF my_unpack_data_state
<1> QED
  BY <1>1, <1>2, <1>3 DEF PackerNext

\* The invariant holds of every behaviour of the decoder.
THEOREM PackerLock == PackerSpec => [](PackerTypeOK /\ LockInv /\ FailureIsReal)
BY InitLock, LockNext, PTL DEF PackerSpec


-----------------------------------------------------------------------------
(* The properties.                                                         *)

\* The decoder's fields keep their types and it never writes past buffer_out.
THEOREM PackerWritesInBounds == PackerSpec => []WritesInBounds
<1>1. PackerTypeOK /\ LockInv => WritesInBounds
  <2> SUFFICES ASSUME PackerTypeOK, LockInv PROVE WritesInBounds
    OBVIOUS
  <2>1. ASSUME unpack_state = "READ_PAYLOAD" PROVE unpack_offset < unpack_length /\ unpack_offset < size_out
    <3>1. unpack_offset < unpack_length /\ LengthRead
      BY <2>1 DEF LockInv
    <3>2. unpack_length <= size_out /\ unpack_length \in Nat
      BY <3>1, LengthFacts
    <3>3. unpack_offset \in Nat /\ size_out \in Nat
      BY SizeFacts DEF PackerTypeOK, Word
    <3> QED
      BY <3>1, <3>2, <3>3
  <2> QED
    BY <2>1 DEF WritesInBounds
<1> QED
  BY <1>1, PackerLock, PTL

\* Two byte strings that agree from the second byte to the m-th.
LEMMA SameCovered ==
  ASSUME NEW c \in Seq(Byte), NEW f \in Seq(Byte), NEW m \in Nat,
         m \in 1 .. Len(c), m \in 1 .. Len(f), \A i \in 2 .. m : c[i] = f[i]
  PROVE  SubSeq(c, 2, m) = SubSeq(f, 2, m)
<1> DEFINE g == SubSeq(c, 2, m)
           h == SubSeq(f, 2, m)
<1>1. /\ g \in Seq(Byte) /\ Len(g) = m - 1
      /\ \A i \in 1 .. m - 1 : g[i] = c[i + 1]
  BY FromSecond
<1>2. /\ h \in Seq(Byte) /\ Len(h) = m - 1
      /\ \A i \in 1 .. m - 1 : h[i] = f[i + 1]
  BY FromSecond
<1>3. \A i \in 1 .. m - 1 : c[i + 1] = f[i + 1]
  OBVIOUS
<1> HIDE DEF g, h
<1>4. g = h
  BY <1>1, <1>2, <1>3, SeqEqual
<1> QED
  BY <1>4 DEF g, h

LEMMA SoundFromLock == PackerTypeOK /\ LockInv => DeliversFrames
<1> SUFFICES ASSUME PackerTypeOK, LockInv, result = "SUCCESS"
             PROVE  /\ packable(unpack_length, COM_MAX_PAYLOAD_SIZE + PACKER_FRAME_OVERHEAD)
                    /\ candidate = frame(payload)
  BY DEF DeliversFrames
<1> DEFINE c == candidate
           n == unpack_length
           p == payload
           f == frame(p)
           w == crc16_cal[covered(p)]
<1>1. /\ TrailerRead /\ Len(c) = 6 + n /\ c[6 + n] = PACKER_END_BYTE
      /\ c[1] = PACKER_START_BYTE /\ c \in Seq(Byte)
  BY DEF LockInv, PackerTypeOK
<1>2. /\ LengthRead /\ PayloadRead(n) /\ CrcUpTo(3 + n)
      /\ c[4 + n] = high(unpack_crc) /\ c[5 + n] = low(unpack_crc)
  BY <1>1 DEF TrailerRead, FrameRead, HighRead
<1>3. n \in Nat /\ n >= 1 /\ n <= size_out /\ n <= COM_MAX_PAYLOAD_SIZE /\ size_out \in Nat
  BY <1>2, LengthFacts, SizeFacts
<1>4. \A i \in 0 .. n - 1 : buffer_out[i] \in Byte
  BY <1>3 DEF PackerTypeOK
<1>5. p \in Seq(Byte) /\ Len(p) = n /\ \A i \in 1 .. n : p[i] = buffer_out[i - 1]
  <2>1. \A i \in 1 .. n : buffer_out[i - 1] \in Byte
    BY <1>3, <1>4
  <2>2. p = [i \in 1 .. n |-> buffer_out[i - 1]]
    BY DEF payload
  <2>3. p \in [1 .. n -> Byte]
    BY <2>1, <2>2
  <2>4. p \in Seq(Byte)
    BY <1>3, <2>3
  <2>5. Len(p) = n
    BY <1>3, <2>3, <2>4, LenProperties
  <2> QED
    BY <2>2, <2>4, <2>5
<1>6. packable(n, COM_MAX_PAYLOAD_SIZE + PACKER_FRAME_OVERHEAD)
  BY <1>3, SizeFacts DEF packable, PACKER_MIN_PAYLOAD_SIZE, PACKER_FRAME_OVERHEAD
<1> HIDE DEF p, n, c
<1>7. /\ f \in Seq(Byte) /\ Len(f) = n + 6
      /\ f[1] = PACKER_START_BYTE /\ f[2] = high(n) /\ f[3] = low(n)
      /\ \A i \in 1 .. n : f[3 + i] = p[i]
      /\ SubSeq(f, 2, 3 + n) = covered(p)
      /\ w \in Word /\ f[4 + n] = high(w) /\ f[5 + n] = low(w)
      /\ f[6 + n] = PACKER_END_BYTE
  BY <1>3, <1>5, FrameShape
<1> HIDE DEF f, w
<1>8. \A i \in 1 .. 6 + n : c[i] \in Byte
  BY <1>1, ElementOfSeq
<1>9. c[2] = f[2] /\ c[3] = f[3]
  <2>1. c[2] \in Byte /\ c[3] \in Byte
    BY <1>3, <1>8
  <2>2. n = B * c[2] + c[3]
    BY <1>2 DEF LengthRead, received_length, c, n
  <2> QED
    BY <1>7, <2>1, <2>2, WordJoin
<1>10. \A i \in 1 .. n : c[3 + i] = f[3 + i]
  BY <1>2, <1>5, <1>7 DEF PayloadRead, c
<1>11. \A i \in 1 .. 3 + n : c[i] = f[i]
  <2> SUFFICES ASSUME NEW i \in 1 .. 3 + n PROVE c[i] = f[i]
    OBVIOUS
  <2>1. CASE i > 3
    <3>1. i - 3 \in 1 .. n /\ 3 + (i - 3) = i
      BY <1>3, <2>1
    <3> QED
      BY <1>10, <3>1
  <2>2. CASE ~(i > 3)
    <3>1. i = 1 \/ i = 2 \/ i = 3
      BY <1>3, <2>2
    <3> QED
      BY <1>1, <1>7, <1>9, <3>1
  <2> QED
    BY <2>1, <2>2
<1>12. unpack_crc = w
  <2> DEFINE m == 3 + n
  <2>1. m \in Nat /\ m \in 1 .. Len(c) /\ m \in 1 .. Len(f) /\ \A i \in 2 .. m : c[i] = f[i]
    BY <1>1, <1>3, <1>7, <1>11
  <2> HIDE DEF m
  <2>2. SubSeq(c, 2, m) = SubSeq(f, 2, m)
    BY <1>1, <1>7, <2>1, SameCovered
  <2>3. unpack_crc = crc16_cal[SubSeq(c, 2, m)]
    BY <1>2 DEF CrcUpTo, c, m
  <2> QED
    BY <1>7, <2>2, <2>3 DEF w, m
<1>13. c[4 + n] = f[4 + n] /\ c[5 + n] = f[5 + n]
  BY <1>2, <1>7, <1>12
<1>14. \A i \in 1 .. 6 + n : c[i] = f[i]
  <2> SUFFICES ASSUME NEW i \in 1 .. 6 + n PROVE c[i] = f[i]
    OBVIOUS
  <2>1. i \in 1 .. 3 + n \/ i = 4 + n \/ i = 5 + n \/ i = 6 + n
    BY <1>3
  <2> QED
    BY <1>1, <1>7, <1>11, <1>13, <2>1
<1>15. Len(f) = 6 + n
  BY <1>3, <1>7
<1>16. c = f
  BY <1>1, <1>7, <1>14, <1>15, SeqEqual
<1> QED
  BY <1>6, <1>16 DEF c, f, p, n

\* SUCCESS stands for exactly the payload of the frame received.
THEOREM PackerSound == PackerSpec => []DeliversFrames
BY PackerLock, SoundFromLock, PTL

LEMMA CompleteFromLock == PackerTypeOK /\ LockInv /\ FailureIsReal => AcceptsFrames
<1> DEFINE c == candidate
           n == Len(c)
<1> SUFFICES ASSUME PackerTypeOK, LockInv, FailureIsReal,
                    NEW p \in BytesUpTo(size_out),
                    decodable(Len(p))
             PROVE  n \in 1 .. Len(frame(p)) /\ c = SubSeq(frame(p), 1, n)
                      => IF n < Len(frame(p)) THEN unpack_state # "WAIT_START"
                                              ELSE result = "SUCCESS" /\ payload = p
  BY DEF AcceptsFrames
<1>0. SUFFICES ASSUME n \in 1 .. Len(frame(p)), c = SubSeq(frame(p), 1, n)
               PROVE  IF n < Len(frame(p)) THEN unpack_state # "WAIT_START"
                                           ELSE result = "SUCCESS" /\ payload = p
  OBVIOUS
<1> DEFINE f == frame(p)
           size == Len(p)
           w == crc16_cal[covered(p)]
<1>1. p \in Seq(Byte)
  BY BytesUpToSeq, SizeFacts
<1>2. size \in Nat /\ size <= COM_MAX_PAYLOAD_SIZE /\ size \in Word
  <2>1. size \in Nat
    BY <1>1
  <2>2. size <= COM_MAX_PAYLOAD_SIZE
    BY DEF decodable
  <2> QED
    BY <2>1, <2>2, SizeFacts
<1>3. /\ f \in Seq(Byte) /\ Len(f) = size + 6
      /\ f[1] = PACKER_START_BYTE /\ f[2] = high(size) /\ f[3] = low(size)
      /\ \A i \in 1 .. size : f[3 + i] = p[i]
      /\ SubSeq(f, 2, 3 + size) = covered(p)
      /\ w \in Word /\ f[4 + size] = high(w) /\ f[5 + size] = low(w)
      /\ f[6 + size] = PACKER_END_BYTE
  BY <1>1, <1>2, FrameShape
<1>4. n \in Nat /\ n >= 1 /\ n <= size + 6
  BY <1>0, <1>2, <1>3
<1>5. c \in Seq(Byte)
  BY DEF PackerTypeOK
<1>6. decodable(size)
  OBVIOUS
<1> HIDE DEF f, size, w
<1>7. \A i \in 1 .. n : c[i] = f[i]
  <2> DEFINE m == n
  <2>1. m \in Nat /\ m <= Len(f) /\ c = SubSeq(f, 1, m)
    BY <1>0, <1>3, <1>4 DEF f
  <2> HIDE DEF m, c
  <2>2. ASSUME NEW i \in 1 .. m PROVE SubSeq(f, 1, m)[i] = f[i]
    BY <1>3, <2>1
  <2> QED
    BY <2>1, <2>2 DEF m
<1> HIDE DEF c
<1>8. n >= 3 => received_length(c) = size
  <2>1. n >= 3 => c[2] = high(size) /\ c[3] = low(size)
    BY <1>3, <1>4, <1>7
  <2> QED
    BY <1>2, <2>1, WordSplit DEF received_length
<1>9. n >= 3 /\ LengthRead => unpack_length = size
  BY <1>8 DEF LengthRead, c
<1>10. n >= 3 + unpack_length /\ FrameRead => unpack_length = size /\ unpack_crc = w /\ PayloadRead(size)
  <2> SUFFICES ASSUME n >= 3 + unpack_length, FrameRead
               PROVE  unpack_length = size /\ unpack_crc = w /\ PayloadRead(size)
    OBVIOUS
  <2>1. LengthRead /\ PayloadRead(unpack_length) /\ CrcUpTo(3 + unpack_length)
    BY DEF FrameRead
  <2>2. unpack_length \in Nat
    BY <2>1, LengthFacts
  <2>3. unpack_length = size
    BY <1>4, <1>9, <2>1, <2>2
  <2> DEFINE m == 3 + size
  <2>4. m \in Nat /\ m \in 1 .. Len(c) /\ m \in 1 .. Len(f) /\ \A i \in 2 .. m : c[i] = f[i]
    <3>1. n >= 3 + size
      BY <2>3
    <3>2. m \in 1 .. n /\ m \in Nat
      BY <1>2, <1>4, <3>1
    <3> QED
      BY <1>2, <1>3, <1>4, <1>7, <3>2
  <2> HIDE DEF m
  <2>5. SubSeq(c, 2, m) = SubSeq(f, 2, m)
    BY <1>3, <1>5, <2>4, SameCovered
  <2>6. unpack_crc = crc16_cal[SubSeq(c, 2, m)]
    BY <2>1, <2>3 DEF CrcUpTo, c, m
  <2> QED
    BY <1>3, <2>1, <2>3, <2>5, <2>6 DEF w, m
<1>11. result # "LENGTH_OUT_OF_BOUNDS"
  <2> SUFFICES ASSUME result = "LENGTH_OUT_OF_BOUNDS" PROVE FALSE
    OBVIOUS
  <2>1. n = 3 /\ ~decodable(received_length(c))
    BY DEF FailureIsReal, c
  <2>2. received_length(c) = size
    BY <1>4, <1>8, <2>1
  <2> QED
    BY <1>6, <2>1, <2>2
<1>12. result # "CRC_MISMATCH"
  <2> SUFFICES ASSUME result = "CRC_MISMATCH" PROVE FALSE
    OBVIOUS
  <2>1. /\ FrameRead
        /\ \/ n = 4 + unpack_length /\ c[4 + unpack_length] # high(unpack_crc)
           \/ n = 5 + unpack_length /\ c[5 + unpack_length] # low(unpack_crc)
    BY DEF FailureIsReal, HighRead, c
  <2>2. unpack_length \in Nat
    BY <2>1, LengthFacts DEF FrameRead
  <2>3. n >= 3 + unpack_length
    BY <1>4, <2>1, <2>2
  <2>4. unpack_length = size /\ unpack_crc = w
    BY <1>10, <2>1, <2>3
  <2>5. CASE n = 4 + size /\ c[4 + size] # high(w)
    <3>1. c[4 + size] = f[4 + size]
      BY <1>2, <1>7, <2>5
    <3> QED
      BY <1>3, <2>5, <3>1
  <2>6. CASE n = 5 + size /\ c[5 + size] # low(w)
    <3>1. c[5 + size] = f[5 + size]
      BY <1>2, <1>7, <2>6
    <3> QED
      BY <1>3, <2>6, <3>1
  <2> QED
    BY <2>1, <2>4, <2>5, <2>6
<1>13. result # "INVALID_END_BYTE"
  <2> SUFFICES ASSUME result = "INVALID_END_BYTE" PROVE FALSE
    OBVIOUS
  <2>1. FrameRead /\ n = 6 + unpack_length /\ c[6 + unpack_length] # PACKER_END_BYTE
    BY DEF FailureIsReal, TrailerRead, c
  <2>2. unpack_length \in Nat
    BY <2>1, LengthFacts DEF FrameRead
  <2>3. unpack_length = size
    BY <1>4, <1>10, <2>1, <2>2
  <2> QED
    BY <1>3, <1>4, <1>7, <2>1, <2>2, <2>3
<1>14. unpack_state = "WAIT_START" => result = "SUCCESS"
  <2> SUFFICES ASSUME unpack_state = "WAIT_START", result = "RUNNING" PROVE FALSE
    BY <1>11, <1>12, <1>13 DEF PackerTypeOK
  <2>1. c = << >>
    BY DEF LockInv, c
  <2> QED
    BY <1>4, <2>1
<1>15. result = "SUCCESS" => n = 6 + size /\ unpack_length = size /\ PayloadRead(size)
  <2> SUFFICES ASSUME result = "SUCCESS" PROVE n = 6 + size /\ unpack_length = size /\ PayloadRead(size)
    OBVIOUS
  <2>1. FrameRead /\ n = 6 + unpack_length
    BY DEF LockInv, TrailerRead, c
  <2>2. unpack_length \in Nat
    BY <2>1, LengthFacts DEF FrameRead
  <2> QED
    BY <1>4, <1>10, <2>1, <2>2
<1>16. unpack_state # "WAIT_START" => n < size + 6
  <2> SUFFICES ASSUME unpack_state # "WAIT_START" PROVE n < size + 6
    OBVIOUS
  <2>1. unpack_length \in Nat /\ unpack_offset \in Nat
    BY SizeFacts DEF PackerTypeOK, Word
  <2>2. CASE unpack_state = "READ_LENGTH_HIGH" \/ unpack_state = "READ_LENGTH_LOW"
    <3>1. n = 1 \/ n = 2
      BY <2>2 DEF LockInv, c
    <3>2. 1 < size + 6 /\ 2 < size + 6
      BY <1>2
    <3> QED
      BY <3>1, <3>2
  <2>3. CASE unpack_state = "READ_PAYLOAD"
    <3>1. unpack_offset < unpack_length /\ n = 3 + unpack_offset /\ LengthRead
      BY <2>3 DEF LockInv, c
    <3> QED
      BY <1>2, <1>9, <2>1, <3>1
  <2>4. CASE unpack_state \in {"READ_CRC_HIGH", "READ_CRC_LOW", "WAIT_END"}
    <3>1. FrameRead /\ n \in {3 + unpack_length, 4 + unpack_length, 5 + unpack_length}
      BY <2>4 DEF LockInv, TrailerRead, c
    <3>2. n >= 3 + unpack_length /\ n <= 5 + unpack_length
      BY <1>4, <2>1, <3>1
    <3>3. unpack_length = size
      BY <1>10, <3>1, <3>2
    <3> QED
      BY <1>2, <3>2, <3>3
  <2> QED
    BY <2>2, <2>3, <2>4 DEF PackerTypeOK
<1>17. CASE n < size + 6
  <2>1. ASSUME result = "SUCCESS" PROVE FALSE
    <3>1. n = 6 + size
      BY <1>15, <2>1
    <3> QED
      BY <1>2, <1>17, <3>1
  <2> QED
    BY <1>3, <1>14, <1>17, <2>1 DEF f
<1>18. CASE ~(n < size + 6)
  <2>1. result = "SUCCESS"
    BY <1>14, <1>16, <1>18
  <2>2. n = 6 + size /\ unpack_length = size /\ PayloadRead(size)
    BY <1>15, <2>1
  <2>3. ASSUME NEW i \in 1 .. size PROVE buffer_out[i - 1] = p[i]
    <3>1. 3 + i \in 1 .. n
      BY <1>2, <2>2
    <3>2. c[3 + i] = buffer_out[i - 1]
      BY <2>2 DEF PayloadRead, c
    <3> QED
      BY <1>3, <1>7, <3>1, <3>2
  <2>4. payload = [i \in 1 .. size |-> p[i]]
    BY <2>2, <2>3 DEF payload
  <2>5. p = [i \in 1 .. size |-> p[i]]
    BY <1>1 DEF size
  <2> QED
    BY <1>3, <1>18, <2>1, <2>4, <2>5 DEF f
<1> QED
  BY <1>17, <1>18

\* A frame that fits is never refused once the decoder has locked on its START.
THEOREM PackerComplete == PackerSpec => []AcceptsFrames
BY PackerLock, CompleteFromLock, PTL

-----------------------------------------------------------------------------
(* The two decoders.                                                       *)

\* The bytes StreamMatchesBatch puts behind the candidate.
LEMMA BehindCandidate ==
  ASSUME PackerTypeOK, LockInv, result # "RUNNING", NEW r \in Seq(Byte)
  PROVE  /\ candidate \o r \in Seq(Byte) /\ Len(candidate \o r) = Len(candidate) + Len(r)
         /\ Len(candidate) \in Nat /\ Len(candidate) >= 1 /\ Len(r) \in Nat
         /\ (candidate \o r)[1] = PACKER_START_BYTE
         /\ \A i \in 1 .. Len(candidate) : (candidate \o r)[i] = candidate[i]
<1>1. candidate \in Seq(Byte) /\ candidate # << >> /\ candidate[1] = PACKER_START_BYTE
  BY DEF PackerTypeOK, LockInv
<1>2. Len(candidate) \in Nat /\ Len(candidate) >= 1 /\ Len(r) \in Nat
  BY <1>1
<1> QED
  BY <1>1, <1>2, ConcatAt

\* Past the length tests, what my_unpack_data compares.
LEMMA BatchOfFrame ==
  ASSUME PackerTypeOK, LockInv, FrameRead, Len(candidate) >= 3 + unpack_length,
         result # "RUNNING", NEW r \in Seq(Byte), Len(r) >= COM_MAX_PAYLOAD_SIZE + 6
  PROVE  LET b == candidate \o r
             n == unpack_length
         IN  /\ b[4 + n] \in Byte /\ b[5 + n] \in Byte /\ unpack_crc \in Word
             /\ \A i \in 1 .. Len(candidate) : b[i] = candidate[i]
             /\ my_unpack_data(b) =
                  IF B * b[4 + n] + b[5 + n] # unpack_crc THEN "CRC_MISMATCH"
                  ELSE IF b[6 + n] # PACKER_END_BYTE THEN "INVALID_END_BYTE" ELSE "SUCCESS"
<1> DEFINE b == candidate \o r
           n == unpack_length
           m == 3 + n
<1>1. LengthRead /\ CrcUpTo(3 + n)
  BY DEF FrameRead
<1>2. n \in Nat /\ n >= 1 /\ n <= COM_MAX_PAYLOAD_SIZE /\ COM_MAX_PAYLOAD_SIZE \in Nat
  BY <1>1, LengthFacts, SizeFacts
<1>3. /\ b \in Seq(Byte) /\ Len(b) = Len(candidate) + Len(r)
      /\ Len(candidate) \in Nat /\ Len(r) \in Nat
      /\ b[1] = PACKER_START_BYTE
      /\ \A i \in 1 .. Len(candidate) : b[i] = candidate[i]
  BY BehindCandidate
<1> HIDE DEF b
<1>4. /\ Len(b) >= 7 /\ n + 6 <= Len(b) /\ ~(Len(b) < 7) /\ ~(n + 6 > Len(b))
  BY <1>2, <1>3
<1>5. received_length(b) = n /\ decodable(n)
  <2>1. b[2] = candidate[2] /\ b[3] = candidate[3]
    BY <1>2, <1>3
  <2> QED
    BY <1>1, <2>1 DEF LengthRead, received_length
<1>6. SubSeq(b, 2, 3 + n) = SubSeq(candidate, 2, 3 + n)
  <2>1. /\ candidate \in Seq(Byte) /\ m \in Nat /\ m \in 1 .. Len(candidate) /\ m \in 1 .. Len(b)
        /\ \A i \in 2 .. m : b[i] = candidate[i]
    BY <1>2, <1>3, <1>4 DEF PackerTypeOK
  <2> HIDE DEF m
  <2>2. SubSeq(b, 2, m) = SubSeq(candidate, 2, m)
    BY <1>3, <2>1, SameCovered
  <2> QED
    BY <2>2 DEF m
<1>7. crc16_cal[SubSeq(b, 2, 3 + n)] = unpack_crc
  BY <1>1, <1>6 DEF CrcUpTo
<1>8. b[4 + n] \in Byte /\ b[5 + n] \in Byte
  <2>1. 4 + n \in 1 .. Len(b) /\ 5 + n \in 1 .. Len(b)
    BY <1>2, <1>3, <1>4
  <2> QED
    BY <1>3, <2>1, ElementOfSeq
<1>9. my_unpack_data(b) =
        IF B * b[4 + n] + b[5 + n] # unpack_crc THEN "CRC_MISMATCH"
        ELSE IF b[6 + n] # PACKER_END_BYTE THEN "INVALID_END_BYTE" ELSE "SUCCESS"
  <2> HIDE DEF n, m
  <2> QED
    BY <1>3, <1>4, <1>5, <1>7
       DEF my_unpack_data, PACKER_FRAME_OVERHEAD, PACKER_MIN_PAYLOAD_SIZE
<1>10. unpack_crc \in Word
  BY DEF PackerTypeOK
<1> QED
  BY <1>3, <1>8, <1>9, <1>10 DEF b

LEMMA AgreeFromLock == PackerTypeOK /\ LockInv /\ FailureIsReal => StreamMatchesBatch
<1> SUFFICES ASSUME PackerTypeOK, LockInv, FailureIsReal, result # "RUNNING", NEW x \in Byte
             PROVE  my_unpack_data(candidate \o
                      [i \in 1 .. COM_MAX_PAYLOAD_SIZE + PACKER_FRAME_OVERHEAD |-> x]) = result
  BY DEF StreamMatchesBatch
<1> DEFINE k == COM_MAX_PAYLOAD_SIZE + PACKER_FRAME_OVERHEAD
           r == [i \in 1 .. k |-> x]
           b == candidate \o r
           n == unpack_length
<1>1. r \in Seq(Byte) /\ Len(r) = COM_MAX_PAYLOAD_SIZE + 6 /\ Len(r) >= COM_MAX_PAYLOAD_SIZE + 6
  <2>1. k \in Nat /\ k = COM_MAX_PAYLOAD_SIZE + 6
    BY SizeFacts DEF PACKER_FRAME_OVERHEAD
  <2> HIDE DEF k
  <2>2. r \in [1 .. k -> Byte]
    OBVIOUS
  <2>3. r \in Seq(Byte)
    BY <2>1, <2>2
  <2>4. Len(r) = k
    BY <2>1, <2>2, <2>3, LenProperties
  <2> QED
    BY <2>1, <2>3, <2>4, SizeFacts
<1> SUFFICES my_unpack_data(b) = result
  OBVIOUS
<1> HIDE DEF r
<1>2. /\ b \in Seq(Byte) /\ Len(b) = Len(candidate) + Len(r)
      /\ Len(candidate) \in Nat /\ b[1] = PACKER_START_BYTE
      /\ \A i \in 1 .. Len(candidate) : b[i] = candidate[i]
  BY <1>1, BehindCandidate
<1>3. FrameRead /\ Len(candidate) >= 3 + n =>
        /\ b[4 + n] \in Byte /\ b[5 + n] \in Byte /\ unpack_crc \in Word
        /\ my_unpack_data(b) =
             IF B * b[4 + n] + b[5 + n] # unpack_crc THEN "CRC_MISMATCH"
             ELSE IF b[6 + n] # PACKER_END_BYTE THEN "INVALID_END_BYTE" ELSE "SUCCESS"
  BY <1>1, BatchOfFrame
<1> HIDE DEF b
<1>4. FrameRead => n \in Nat /\ n >= 1
  BY LengthFacts DEF FrameRead
<1>5. CASE result = "LENGTH_OUT_OF_BOUNDS"
  <2>1. Len(candidate) = 3 /\ ~decodable(received_length(candidate))
    BY <1>5 DEF FailureIsReal
  <2>2. received_length(b) = received_length(candidate)
    BY <1>2, <2>1 DEF received_length
  <2>3. ~(Len(b) < 7)
    BY <1>1, <1>2, <2>1, SizeFacts
  <2> QED
    BY <1>2, <1>5, <2>1, <2>2, <2>3
       DEF my_unpack_data, PACKER_FRAME_OVERHEAD, PACKER_MIN_PAYLOAD_SIZE
<1>6. CASE result = "CRC_MISMATCH"
  <2>1. /\ FrameRead
        /\ \/ Len(candidate) = 4 + n /\ candidate[4 + n] # high(unpack_crc)
           \/ Len(candidate) = 5 + n /\ candidate[5 + n] # low(unpack_crc)
    BY <1>6 DEF FailureIsReal, HighRead
  <2>2. /\ n \in Nat /\ Len(candidate) >= 3 + n
        /\ b[4 + n] # high(unpack_crc) \/ b[5 + n] # low(unpack_crc)
    BY <1>2, <1>4, <2>1
  <2>3. B * b[4 + n] + b[5 + n] # unpack_crc
    BY <1>3, <2>1, <2>2, WordJoin
  <2> QED
    BY <1>3, <1>6, <2>1, <2>2, <2>3
<1>7. CASE result \in {"SUCCESS", "INVALID_END_BYTE"}
  <2>1. /\ FrameRead /\ Len(candidate) = 6 + n
        /\ candidate[4 + n] = high(unpack_crc) /\ candidate[5 + n] = low(unpack_crc)
        /\ result = IF candidate[6 + n] # PACKER_END_BYTE THEN "INVALID_END_BYTE" ELSE "SUCCESS"
    BY <1>7 DEF FailureIsReal, LockInv, TrailerRead, HighRead
  <2>2. /\ n \in Nat /\ Len(candidate) >= 3 + n /\ b[6 + n] = candidate[6 + n]
        /\ b[4 + n] = high(unpack_crc) /\ b[5 + n] = low(unpack_crc)
    BY <1>2, <1>4, <2>1
  <2>3. B * b[4 + n] + b[5 + n] = unpack_crc
    BY <1>3, <2>1, <2>2, WordSplit
  <2> QED
    BY <1>3, <2>1, <2>2, <2>3
<1> QED
  BY <1>5, <1>6, <1>7 DEF PackerTypeOK

\* my_unpack_data_state and my_unpack_data never disagree about a frame.
THEOREM DecodersAgree == PackerSpec => []StreamMatchesBatch
BY PackerLock, AgreeFromLock, PTL
-----------------------------------------------------------------------------
(* Frames.                                                                 *)

LEMMA PackableFrame ==
  ASSUME NEW m \in Packable
  PROVE  /\ m \in Seq(Byte) /\ Len(m) \in 1 .. COM_MAX_PAYLOAD_SIZE
         /\ frame(m) \in Seq(Byte) /\ Len(frame(m)) = Len(m) + 6
         /\ frame(m)[1] = PACKER_START_BYTE
<1>1. m \in Seq(Byte) /\ Len(m) \in Nat
  BY DEF Packable
<1>2. Len(m) >= 1 /\ Len(m) <= COM_MAX_PAYLOAD_SIZE
  BY DEF Packable, packable, PACKER_MIN_PAYLOAD_SIZE
<1> QED
  BY <1>1, <1>2, SizeFacts, FrameShape

\* Frames is the concatenation of the values of a function.
LEMMA FramesOf ==
  \E f : /\ IsMap(f, Packable, Byte)
         /\ \A m \in Packable : f[m] = frame(m)
         /\ \A ms \in Seq(Packable) : Frames(ms) = Joined(f, ms)
<1> DEFINE f == [m \in Packable |-> frame(m)]
<1>1. \A m \in Packable : frame(m) \in Seq(Byte)
  BY PackableFrame
<1>2. IsMap(f, Packable, Byte) /\ \A m \in Packable : f[m] = frame(m)
  BY <1>1 DEF IsMap
<1>3. ASSUME NEW ms \in Seq(Packable) PROVE Frames(ms) = Joined(f, ms)
  <2>1. \A k \in DOMAIN ms : ms[k] \in Packable
    BY LenProperties, ElementOfSeq
  <2>2. [k \in DOMAIN ms |-> frame(ms[k])] = MapSeq(f, ms)
    BY <2>1 DEF MapSeq
  <2> QED
    BY <2>2 DEF Frames, Joined
<1> HIDE DEF f
<1> QED
  BY <1>2, <1>3

LEMMA FramesType ==
  ASSUME NEW ms \in Seq(Packable)
  PROVE  Frames(ms) \in Seq(Byte)
BY FramesOf, JoinedType

LEMMA FramesEmpty == Frames(<< >>) = << >>
<1>1. << >> \in Seq(Packable)
  OBVIOUS
<1> QED
  BY <1>1, FramesOf, JoinedEmpty

LEMMA FramesAppend ==
  ASSUME NEW ms \in Seq(Packable), NEW m \in Packable
  PROVE  Frames(Append(ms, m)) = Frames(ms) \o frame(m)
<1>1. Append(ms, m) \in Seq(Packable)
  BY AppendProperties
<1>2. PICK f : /\ IsMap(f, Packable, Byte) /\ f[m] = frame(m)
               /\ \A s \in Seq(Packable) : Frames(s) = Joined(f, s)
  BY FramesOf
<1>3. Joined(f, Append(ms, m)) = Joined(f, ms) \o f[m]
  BY <1>2, JoinedAppend
<1> QED
  BY <1>1, <1>2, <1>3

\* The first frame and those of the other messages.
LEMMA FramesFirst ==
  ASSUME NEW ms \in Seq(Packable), Len(ms) > 0
  PROVE  Frames(ms) = frame(ms[1]) \o Frames(SubSeq(ms, 2, Len(ms)))
<1>1. Len(ms) \in Nat /\ 1 \in 0 .. Len(ms) /\ 1 \in 1 .. Len(ms) /\ 1 + 1 = 2
  BY LenProperties
<1>2. SubSeq(ms, 2, Len(ms)) \in Seq(Packable) /\ ms[1] \in Packable
  <2>1. SubSeq(ms, 1 + 1, Len(ms)) \in Seq(Packable)
    BY <1>1, Behind
  <2> QED
    BY <1>1, <2>1, ElementOfSeq
<1>3. PICK f : /\ IsMap(f, Packable, Byte) /\ f[ms[1]] = frame(ms[1])
               /\ \A s \in Seq(Packable) : Frames(s) = Joined(f, s)
  BY <1>2, FramesOf
<1>4. Joined(f, ms) = f[ms[1]] \o Joined(f, SubSeq(ms, 2, Len(ms)))
  <2>1. IsMap(f, Packable, Byte)
    BY <1>3
  <2>2. ms # << >>
    BY EmptySeq
  <2>3. FirstApart(f, ms)
    BY <2>1, <2>2, JoinedFirst
  <2> QED
    BY <2>3 DEF FirstApart
<1> QED
  BY <1>2, <1>3, <1>4

-----------------------------------------------------------------------------
(* The invariant of the transmit side.                                     *)

LEMMA HandleFacts ==
  /\ UART_TX_QUEUE_SIZE \in Nat /\ UART_TX_QUEUE_SIZE >= 2
  /\ UART_RX_QUEUE_SIZE \in Nat /\ UART_RX_QUEUE_SIZE >= 2
  /\ RxBatch \in Nat /\ RxBatch >= 1 /\ DropLimit \in Nat /\ DropLimit >= 2
  /\ COM_MAX_FRAME_SIZE \in Nat /\ COM_MAX_FRAME_SIZE >= 7
<1>1. COM_MAX_FRAME_SIZE = COM_MAX_PAYLOAD_SIZE + 6
  BY DEF COM_MAX_FRAME_SIZE, PACKER_FRAME_OVERHEAD
<1> QED
  BY <1>1, SizeFacts, HandleAssumption

LEMMA TxSameVars ==
  ASSUME UNCHANGED tx_vars
  PROVE  /\ comm_tx_active_buffer' = comm_tx_active_buffer
         /\ comm_tx_in_progress' = comm_tx_in_progress
         /\ comm_tx_queue' = comm_tx_queue /\ to_send' = to_send
         /\ transfer_len' = transfer_len /\ shifted' = shifted /\ wire' = wire
         /\ sent' = sent /\ handed' = handed /\ idle' = idle
BY DEF tx_vars

\* Where neither the queue nor the buffer is in use by comm_control or tx_idle.
Quiet == {"app", "report", "pop", "rx", "tx"}

LEMMA TxSame ==
  ASSUME TxInv, UNCHANGED tx_vars,
         main_pc' = main_pc \/ (main_pc \in Quiet /\ main_pc' \in Quiet)
  PROVE  TxInv'
<1>1. /\ comm_tx_active_buffer' = comm_tx_active_buffer
      /\ comm_tx_in_progress' = comm_tx_in_progress
      /\ comm_tx_queue' = comm_tx_queue /\ to_send' = to_send
      /\ transfer_len' = transfer_len /\ shifted' = shifted /\ wire' = wire
      /\ sent' = sent /\ handed' = handed /\ idle' = idle
  BY TxSameVars
<1>2. \A pc \in {"idle", "start", "discard", "refused"} : main_pc' = pc <=> main_pc = pc
  BY DEF Quiet
<1>3. TxTypeOK'
  BY <1>1 DEF TxInv, TxTypeOK, Quiet
<1>4. ChunkHeld'
  BY <1>1, <1>2 DEF TxInv, ChunkHeld
<1>5. RestBetweenSteps' /\ BusyTracksTransfer'
  BY <1>1, <1>2 DEF TxInv, RestBetweenSteps, BusyTracksTransfer, InFlight
<1>6. Remaining' = Remaining
  BY <1>1, <1>2 DEF Remaining
<1>7. Unshifted' = Unshifted
  BY <1>1 DEF Unshifted
<1> QED
  BY <1>1, <1>3, <1>4, <1>5, <1>6, <1>7 DEF TxInv, WireIsHanded

LEMMA TxInit == Init => TxInv
<1> SUFFICES ASSUME Init PROVE TxInv
  OBVIOUS
<1>1. 0 \in Byte /\ COM_MAX_FRAME_SIZE \in Nat
  BY SizeFacts, HandleFacts
<1>2. TxTypeOK
  <2>1. comm_tx_active_buffer \in [0 .. COM_MAX_FRAME_SIZE - 1 -> Byte]
    BY <1>1 DEF Init
  <2>2. << >> \in Seq(Byte) /\ << >> \in Seq(Messages) /\ Len(<< >>) = 0
    OBVIOUS
  <2>3. /\ comm_tx_in_progress \in BOOLEAN /\ idle \in BOOLEAN
        /\ comm_tx_queue = << >> /\ wire = << >> /\ handed = << >> /\ sent = << >>
        /\ main_pc = "app" /\ to_send = 0 /\ transfer_len = 0 /\ shifted = 0
    BY DEF Init
  <2>4. 0 \in 0 .. COM_MAX_FRAME_SIZE /\ 0 \in 0 .. 0 /\ 0 < UART_TX_QUEUE_SIZE
    BY <1>1, HandleFacts
  <2> QED
    BY <2>1, <2>2, <2>3, <2>4 DEF TxTypeOK
<1>3. ChunkHeld /\ RestBetweenSteps /\ BusyTracksTransfer
  BY DEF Init, ChunkHeld, RestBetweenSteps, BusyTracksTransfer, InFlight
<1>4. Remaining = << >>
  BY SubSeqEmpty DEF Init, Remaining
<1>5. Unshifted = << >>
  BY DEF Init, Unshifted
<1>6. handed \o Remaining = Frames(sent) /\ WireIsHanded
  BY <1>4, <1>5, FramesEmpty DEF Init, WireIsHanded
<1> QED
  BY <1>2, <1>3, <1>6 DEF TxInv, Init

\* What is remaining and what is left of the buffer are bytes.
LEMMA RemainingFacts ==
  ASSUME TxInv
  PROVE  Remaining \in Seq(Byte) /\ Unshifted \in Seq(Byte)
<1>1. comm_tx_queue \in Seq(Byte) /\ Len(comm_tx_queue) \in Nat
  BY DEF TxInv, TxTypeOK
<1>2. Remaining \in Seq(Byte)
  <2>1. CASE main_pc = "discard"
    <3>1. to_send \in 0 .. Len(comm_tx_queue)
      BY <1>1, <2>1 DEF TxInv, ChunkHeld
    <3>2. Remaining = SubSeq(comm_tx_queue, to_send + 1, Len(comm_tx_queue))
      BY <2>1 DEF Remaining
    <3> QED
      BY <1>1, <3>1, <3>2, Behind
  <2>2. CASE main_pc # "discard"
    <3>1. Remaining = SubSeq(comm_tx_queue, 1, Len(comm_tx_queue))
      BY <2>2 DEF Remaining
    <3> QED
      BY <1>1, <3>1, SubSeqFull
  <2> QED
    BY <2>1, <2>2
<1>3. Unshifted \in Seq(Byte)
  <2>1. \A k \in 1 .. transfer_len - shifted : shifted + k - 1 \in 0 .. COM_MAX_FRAME_SIZE - 1
    BY HandleFacts DEF TxInv, TxTypeOK
  <2>2. \A k \in 1 .. transfer_len - shifted : comm_tx_active_buffer[shifted + k - 1] \in Byte
    BY <2>1 DEF TxInv, TxTypeOK
  <2>3. transfer_len - shifted \in Nat
    BY HandleFacts DEF TxInv, TxTypeOK
  <2> QED
    BY <2>2, <2>3 DEF Unshifted
<1> QED
  BY <1>2, <1>3

\* Nothing is discarded: the whole queue remains.
LEMMA RemainingAll ==
  ASSUME comm_tx_queue \in Seq(Byte), main_pc # "discard"
  PROVE  Remaining = comm_tx_queue
<1>1. Remaining = SubSeq(comm_tx_queue, 1, Len(comm_tx_queue))
  BY DEF Remaining
<1> QED
  BY <1>1, SubSeqFull

\* comm_manager_send_data: a frame is queued whole, behind what is there.
LEMMA SendTx ==
  ASSUME TxInv, NEW message \in Messages, comm_manager_send_data(message)
  PROVE  TxInv'
<1> DEFINE f == frame(message)
<1>1. message \in Packable
  BY HandleAssumption DEF comm_manager_send_data, MaySend, Packable
<1>2. f \in Seq(Byte) /\ Len(f) \in Nat
  BY <1>1, PackableFrame
<1>3. /\ comm_tx_queue' = comm_tx_queue \o f
      /\ Len(f) <= UART_TX_QUEUE_SIZE - 1 - Len(comm_tx_queue)
      /\ sent' = Append(sent, message) /\ idle' = FALSE
      /\ UNCHANGED <<comm_tx_active_buffer, comm_tx_in_progress, to_send, transfer_len, shifted,
                     wire, handed, main_pc>>
  BY DEF comm_manager_send_data, Queue, queue_get_space
<1> HIDE DEF f
<1>4. comm_tx_queue \in Seq(Byte) /\ sent \in Seq(Packable) /\ sent \in Seq(Messages)
  BY DEF TxInv, TxTypeOK
<1>5. /\ comm_tx_queue' \in Seq(Byte) /\ Len(comm_tx_queue') = Len(comm_tx_queue) + Len(f)
      /\ \A k \in 1 .. Len(comm_tx_queue) : comm_tx_queue'[k] = comm_tx_queue[k]
  BY <1>2, <1>3, <1>4, ConcatAt
<1>6. Len(comm_tx_queue) \in Nat /\ Len(comm_tx_queue') < UART_TX_QUEUE_SIZE
  BY <1>2, <1>3, <1>4, <1>5, HandleFacts
<1>7. sent' \in Seq(Packable) /\ sent' \in Seq(Messages)
  BY <1>1, <1>3, <1>4, AppendProperties
<1>8. TxTypeOK'
  BY <1>3, <1>5, <1>6, <1>7 DEF TxInv, TxTypeOK
<1>9. ChunkHeld'
  <2>1. to_send \in 1 .. Len(comm_tx_queue) => to_send \in 1 .. Len(comm_tx_queue')
    BY <1>2, <1>5, <1>6
  <2>2. ASSUME main_pc = "start", NEW k \in 0 .. to_send - 1
        PROVE  comm_tx_active_buffer[k] = comm_tx_queue'[k + 1]
    <3>1. comm_tx_active_buffer[k] = comm_tx_queue[k + 1] /\ to_send \in 1 .. Len(comm_tx_queue)
      BY <2>2 DEF TxInv, ChunkHeld
    <3>2. k + 1 \in 1 .. Len(comm_tx_queue)
      BY <3>1, <1>6
    <3> QED
      BY <1>5, <3>1, <3>2
  <2> QED
    BY <1>3, <2>1, <2>2 DEF TxInv, ChunkHeld
<1>10. RestBetweenSteps' /\ BusyTracksTransfer'
  BY <1>3 DEF TxInv, RestBetweenSteps, BusyTracksTransfer, InFlight
<1>11. Remaining' = Remaining \o f
  <2>1. CASE main_pc = "discard"
    <3>1. to_send \in 0 .. Len(comm_tx_queue)
      BY <1>6, <2>1 DEF TxInv, ChunkHeld
    <3>2. /\ Remaining = SubSeq(comm_tx_queue, to_send + 1, Len(comm_tx_queue))
          /\ Remaining' = SubSeq(comm_tx_queue', to_send + 1, Len(comm_tx_queue'))
      BY <1>3, <2>1 DEF Remaining
    <3>3. SubSeq(comm_tx_queue \o f, to_send + 1, Len(comm_tx_queue \o f))
            = SubSeq(comm_tx_queue, to_send + 1, Len(comm_tx_queue)) \o f
      BY <1>2, <1>4, <3>1, BehindConcat
    <3> QED
      BY <1>3, <3>2, <3>3
  <2>2. CASE main_pc # "discard"
    <3>1. Remaining = comm_tx_queue
      BY <1>4, <2>2, RemainingAll
    <3>2. Remaining' = SubSeq(comm_tx_queue', 1, Len(comm_tx_queue'))
      BY <1>3, <2>2 DEF Remaining
    <3>3. Remaining' = comm_tx_queue'
      BY <1>5, <3>2, SubSeqFull
    <3> QED
      BY <1>3, <3>1, <3>3
  <2> QED
    BY <2>1, <2>2
<1>12. handed' \o Remaining' = Frames(sent')
  <2>1. handed \in Seq(Byte) /\ Remaining \in Seq(Byte)
    BY RemainingFacts DEF TxInv, TxTypeOK
  <2>2. handed \o (Remaining \o f) = (handed \o Remaining) \o f
    <3>1. Associates(handed, Remaining, f)
      BY <1>2, <2>1, JoinAssociates
    <3> QED
      BY <3>1 DEF Associates
  <2>3. Frames(sent') = Frames(sent) \o f
    BY <1>1, <1>3, <1>4, FramesAppend DEF f
  <2> QED
    BY <1>3, <1>11, <2>2, <2>3 DEF TxInv
<1>13. WireIsHanded'
  <2>1. Unshifted' = Unshifted
    BY <1>3 DEF Unshifted
  <2> QED
    BY <1>3, <2>1 DEF TxInv, WireIsHanded
<1> QED
  BY <1>7, <1>8, <1>9, <1>10, <1>12, <1>13 DEF TxInv

LEMMA TxIdleFlagTx ==
  ASSUME TxInv, TxIdleFlag
  PROVE  TxInv'
<1>1. /\ main_pc = "app" /\ main_pc' = "idle" /\ ~comm_tx_in_progress
      /\ comm_tx_active_buffer' = comm_tx_active_buffer
      /\ comm_tx_in_progress' = comm_tx_in_progress
      /\ comm_tx_queue' = comm_tx_queue /\ to_send' = to_send
      /\ transfer_len' = transfer_len /\ shifted' = shifted /\ wire' = wire
      /\ sent' = sent /\ handed' = handed /\ idle' = idle
  BY DEF TxIdleFlag, TxIdleUnchanged
<1>2. TxTypeOK'
  BY <1>1 DEF TxInv, TxTypeOK
<1>3. ~InFlight
  BY <1>1 DEF TxInv, BusyTracksTransfer
<1>4. ChunkHeld' /\ RestBetweenSteps' /\ BusyTracksTransfer'
  BY <1>1, <1>3 DEF TxInv, ChunkHeld, RestBetweenSteps, BusyTracksTransfer, InFlight
<1>5. Remaining' = Remaining /\ Unshifted' = Unshifted
  BY <1>1 DEF Remaining, Unshifted
<1> QED
  BY <1>1, <1>2, <1>4, <1>5 DEF TxInv, WireIsHanded

\* comm_manager_tx_idle returns true only when the queue is empty, too.
LEMMA TxIdleQueueTx ==
  ASSUME TxInv, TxIdleQueue
  PROVE  TxInv'
<1>1. /\ main_pc = "idle" /\ main_pc' = "app" /\ idle' = (comm_tx_queue = << >>)
      /\ comm_tx_active_buffer' = comm_tx_active_buffer
      /\ comm_tx_in_progress' = comm_tx_in_progress
      /\ comm_tx_queue' = comm_tx_queue /\ to_send' = to_send
      /\ transfer_len' = transfer_len /\ shifted' = shifted /\ wire' = wire
      /\ sent' = sent /\ handed' = handed
  BY DEF TxIdleQueue, TxIdleUnchanged
<1>2. TxTypeOK'
  BY <1>1 DEF TxInv, TxTypeOK
<1>3. ~InFlight
  BY <1>1 DEF TxInv, RestBetweenSteps
<1>4. ChunkHeld' /\ RestBetweenSteps' /\ BusyTracksTransfer'
  BY <1>1, <1>3 DEF TxInv, ChunkHeld, RestBetweenSteps, BusyTracksTransfer, InFlight
<1>5. Remaining' = Remaining /\ Unshifted' = Unshifted
  BY <1>1 DEF Remaining, Unshifted
<1> QED
  BY <1>1, <1>2, <1>4, <1>5 DEF TxInv, WireIsHanded

\* The flag is clear: no transfer reads the buffer that is written.
LEMMA PeekChunkTx ==
  ASSUME TxInv, PeekChunk
  PROVE  TxInv'
<1>1. /\ main_pc = "tx" /\ main_pc' = "start" /\ ~comm_tx_in_progress /\ comm_tx_queue # << >>
      /\ to_send' = Min({COM_MAX_FRAME_SIZE, Len(comm_tx_queue)})
      /\ comm_tx_active_buffer' = [k \in DOMAIN comm_tx_active_buffer |->
           IF k < to_send' THEN comm_tx_queue[k + 1] ELSE comm_tx_active_buffer[k]]
      /\ comm_tx_in_progress' = TRUE
      /\ comm_tx_queue' = comm_tx_queue
      /\ transfer_len' = transfer_len /\ shifted' = shifted /\ wire' = wire
      /\ sent' = sent /\ handed' = handed /\ idle' = idle
  BY DEF PeekChunk, Peek
<1>2. /\ comm_tx_queue \in Seq(Byte) /\ Len(comm_tx_queue) \in Nat \ {0}
      /\ \A k \in 1 .. Len(comm_tx_queue) : comm_tx_queue[k] \in Byte
  BY <1>1, EmptySeq, ElementOfSeq DEF TxInv, TxTypeOK
<1>3. /\ to_send' \in 1 .. Len(comm_tx_queue) /\ to_send' <= COM_MAX_FRAME_SIZE
      /\ to_send' \in Nat /\ COM_MAX_FRAME_SIZE \in Nat
  BY <1>1, <1>2, HandleFacts, MinOfTwo
<1>4. ~InFlight /\ transfer_len = 0 /\ shifted = 0
  BY <1>1 DEF TxInv, BusyTracksTransfer, InFlight, TxTypeOK
<1>5. DOMAIN comm_tx_active_buffer = 0 .. COM_MAX_FRAME_SIZE - 1
  BY DEF TxInv, TxTypeOK
<1>6. comm_tx_active_buffer' \in [0 .. COM_MAX_FRAME_SIZE - 1 -> Byte]
  <2>1. ASSUME NEW k \in 0 .. COM_MAX_FRAME_SIZE - 1
        PROVE  (IF k < to_send' THEN comm_tx_queue[k + 1] ELSE comm_tx_active_buffer[k]) \in Byte
    <3>1. k < to_send' => k + 1 \in 1 .. Len(comm_tx_queue)
      BY <1>2, <1>3
    <3>2. comm_tx_active_buffer[k] \in Byte
      BY DEF TxInv, TxTypeOK
    <3> QED
      BY <1>2, <3>1, <3>2
  <2> QED
    BY <1>1, <1>5, <2>1
<1>7. TxTypeOK'
  <2>1. to_send' \in 0 .. COM_MAX_FRAME_SIZE
    BY <1>2, <1>3, HandleFacts
  <2> QED
    BY <1>1, <1>6, <2>1 DEF TxInv, TxTypeOK
<1>8. ChunkHeld'
  <2>1. PICK n \in Nat : n = to_send' /\ n <= COM_MAX_FRAME_SIZE
    BY <1>3
  <2>2. ASSUME NEW k \in 0 .. n - 1
        PROVE  comm_tx_active_buffer'[k] = comm_tx_queue[k + 1]
    <3>a. n <= COM_MAX_FRAME_SIZE
      BY <2>1
    <3>b. COM_MAX_FRAME_SIZE \in Nat
      BY HandleFacts
    <3>c. k < n
      OBVIOUS
    <3>1. k \in 0 .. COM_MAX_FRAME_SIZE - 1 /\ k < n
      BY <3>a, <3>b, <3>c
    <3>2. k \in DOMAIN comm_tx_active_buffer
      BY <1>5, <3>1
    <3> QED
      BY <1>1, <2>1, <3>1, <3>2
  <2> QED
    BY <1>1, <1>3, <2>1, <2>2 DEF ChunkHeld
<1>9. RestBetweenSteps' /\ BusyTracksTransfer'
  BY <1>1, <1>4 DEF TxInv, RestBetweenSteps, BusyTracksTransfer, InFlight
<1>10. Remaining' = Remaining
  BY <1>1 DEF Remaining
<1>11. Unshifted = << >> /\ Unshifted' = << >>
  BY <1>1, <1>4 DEF Unshifted
<1> QED
  BY <1>1, <1>7, <1>8, <1>9, <1>10, <1>11 DEF TxInv, WireIsHanded

\* start_send is handed the front of the queue, and no transfer was in flight.
LEMMA StartAcceptedTx ==
  ASSUME TxInv, StartAccepted
  PROVE  TxInv'
<1> DEFINE q == comm_tx_queue
           chunk == [k \in 1 .. to_send |-> comm_tx_active_buffer[k - 1]]
<1>1. /\ main_pc = "start" /\ main_pc' = "discard"
      /\ transfer_len' = to_send /\ shifted' = 0 /\ handed' = handed \o chunk
      /\ comm_tx_active_buffer' = comm_tx_active_buffer
      /\ comm_tx_in_progress' = comm_tx_in_progress
      /\ comm_tx_queue' = comm_tx_queue /\ to_send' = to_send
      /\ wire' = wire /\ sent' = sent /\ idle' = idle
  BY DEF StartAccepted
<1>2. /\ q \in Seq(Byte) /\ Len(q) \in Nat /\ to_send \in 1 .. Len(q) /\ to_send \in 0 .. Len(q)
      /\ to_send \in 1 .. COM_MAX_FRAME_SIZE
      /\ \A k \in 0 .. to_send - 1 : comm_tx_active_buffer[k] = q[k + 1]
  BY <1>1, HandleFacts DEF TxInv, TxTypeOK, ChunkHeld
<1>3. ~InFlight /\ transfer_len = 0 /\ shifted = 0
  BY <1>1 DEF TxInv, RestBetweenSteps, InFlight, TxTypeOK
<1>4. comm_tx_in_progress
  BY <1>1 DEF TxInv, BusyTracksTransfer
<1>5. chunk = SubSeq(q, 1, to_send) /\ chunk \in Seq(Byte)
  <2>1. /\ SubSeq(q, 1, to_send) \in Seq(Byte) /\ Len(SubSeq(q, 1, to_send)) = to_send
        /\ \A i \in 1 .. to_send : SubSeq(q, 1, to_send)[i] = q[i]
    BY <1>2, Behind
  <2>2. ASSUME NEW k \in 1 .. to_send PROVE comm_tx_active_buffer[k - 1] = q[k] /\ q[k] \in Byte
    <3>1. k - 1 \in 0 .. to_send - 1 /\ k - 1 + 1 = k /\ k \in 1 .. Len(q)
      BY <1>2
    <3>2. comm_tx_active_buffer[k - 1] = q[k - 1 + 1]
      BY <1>2, <3>1
    <3> QED
      BY <1>2, <3>1, <3>2, ElementOfSeq
  <2>3. chunk \in Seq(Byte) /\ Len(chunk) = to_send
    BY <1>2, <2>2
  <2>4. \A k \in 1 .. to_send : chunk[k] = q[k]
    BY <2>2
  <2> HIDE DEF chunk
  <2> QED
    BY <2>1, <2>3, <2>4, SeqEqual
<1>6. handed \in Seq(Byte) /\ wire \in Seq(Byte)
  BY DEF TxInv, TxTypeOK
<1>7. TxTypeOK'
  <2>1. handed' \in Seq(Byte)
    BY <1>1, <1>5, <1>6, ConcatProperties
  <2>2. transfer_len' \in 0 .. COM_MAX_FRAME_SIZE /\ shifted' \in 0 .. transfer_len'
    BY <1>1, <1>2, HandleFacts
  <2> QED
    BY <1>1, <2>1, <2>2 DEF TxInv, TxTypeOK
<1>8. ChunkHeld'
  BY <1>1, <1>2 DEF ChunkHeld
<1>9. ~idle
  <2>1. q # << >>
    BY <1>2, EmptySeq
  <2> QED
    BY <2>1 DEF TxInv, RestBetweenSteps
<1>10. RestBetweenSteps' /\ BusyTracksTransfer'
  BY <1>1, <1>2, <1>4, <1>9 DEF TxInv, RestBetweenSteps, BusyTracksTransfer, InFlight, TxTypeOK
<1>11. handed' \o Remaining' = Frames(sent')
  <2>1. Remaining = q
    BY <1>1, <1>2, RemainingAll
  <2>2. Remaining' = SubSeq(q, to_send + 1, Len(q))
    BY <1>1 DEF Remaining
  <2>3. SubSeq(q, to_send + 1, Len(q)) \in Seq(Byte)
    BY <1>2, Behind
  <2>4. PICK c \in Seq(Byte), v \in Seq(Byte) :
          c = chunk /\ v = SubSeq(q, to_send + 1, Len(q)) /\ c \o v = q
    BY <1>2, <1>5, <2>3, Behind
  <2> HIDE DEF chunk
  <2>5. (handed \o c) \o v = handed \o (c \o v)
    <3>1. Associates(handed, c, v)
      BY <1>6, JoinAssociates
    <3> QED
      BY <3>1 DEF Associates
  <2>6. handed \o q = Frames(sent)
    BY <2>1 DEF TxInv
  <2> QED
    BY <1>1, <2>2, <2>4, <2>5, <2>6
<1>12. WireIsHanded'
  <2>1. Unshifted = << >>
    BY <1>3 DEF Unshifted
  <2>2. wire = handed
    BY <1>6, <2>1, ConcatEmptySeq DEF TxInv, WireIsHanded
  <2>3. Unshifted' = [k \in 1 .. to_send - 0 |-> comm_tx_active_buffer[0 + k - 1]]
    BY <1>1 DEF Unshifted
  <2>4. [k \in 1 .. to_send - 0 |-> comm_tx_active_buffer[0 + k - 1]] = chunk
    <3>1. to_send - 0 = to_send /\ \A k \in 1 .. to_send : 0 + k - 1 = k - 1
      BY <1>2
    <3> QED
      BY <3>1
  <2> QED
    BY <1>1, <2>2, <2>3, <2>4 DEF WireIsHanded
<1> QED
  BY <1>1, <1>7, <1>8, <1>10, <1>11, <1>12 DEF TxInv

LEMMA StartRefusedTx ==
  ASSUME TxInv, StartRefused
  PROVE  TxInv'
<1>1. /\ main_pc = "start" /\ main_pc' = "refused"
      /\ comm_tx_active_buffer' = comm_tx_active_buffer
      /\ comm_tx_in_progress' = comm_tx_in_progress
      /\ comm_tx_queue' = comm_tx_queue /\ to_send' = to_send
      /\ transfer_len' = transfer_len /\ shifted' = shifted /\ wire' = wire
      /\ sent' = sent /\ handed' = handed /\ idle' = idle
  BY TxSameVars DEF StartRefused
<1>2. TxTypeOK'
  BY <1>1 DEF TxInv, TxTypeOK
<1>3. ChunkHeld' /\ RestBetweenSteps' /\ BusyTracksTransfer'
  BY <1>1 DEF TxInv, ChunkHeld, RestBetweenSteps, BusyTracksTransfer, InFlight
<1>4. Remaining' = Remaining /\ Unshifted' = Unshifted
  BY <1>1 DEF Remaining, Unshifted
<1> QED
  BY <1>1, <1>2, <1>3, <1>4 DEF TxInv, WireIsHanded

\* Only what was handed over is discarded.
LEMMA DiscardChunkTx ==
  ASSUME TxInv, DiscardChunk
  PROVE  TxInv'
<1> DEFINE q == comm_tx_queue
<1>1. /\ main_pc = "discard" /\ main_pc' = "app"
      /\ comm_tx_queue' = SubSeq(q, to_send + 1, Len(q))
      /\ comm_tx_active_buffer' = comm_tx_active_buffer
      /\ comm_tx_in_progress' = comm_tx_in_progress
      /\ to_send' = to_send
      /\ transfer_len' = transfer_len /\ shifted' = shifted /\ wire' = wire
      /\ sent' = sent /\ handed' = handed /\ idle' = idle
  BY DEF DiscardChunk, Unqueue
<1>2. /\ q \in Seq(Byte) /\ Len(q) \in Nat /\ to_send \in 1 .. Len(q) /\ to_send \in 0 .. Len(q)
  BY <1>1 DEF TxInv, TxTypeOK, ChunkHeld
<1>3. /\ comm_tx_queue' \in Seq(Byte) /\ Len(comm_tx_queue') = Len(q) - to_send
  BY <1>1, <1>2, Behind
<1>4. TxTypeOK'
  <2>1. Len(comm_tx_queue') < UART_TX_QUEUE_SIZE
    BY <1>2, <1>3, HandleFacts DEF TxInv, TxTypeOK
  <2> QED
    BY <1>1, <1>3, <2>1 DEF TxInv, TxTypeOK
<1>5. ChunkHeld'
  BY <1>1 DEF ChunkHeld
<1>6. ~idle
  <2>1. q # << >>
    BY <1>2, EmptySeq
  <2> QED
    BY <2>1 DEF TxInv, RestBetweenSteps
<1>7. RestBetweenSteps' /\ BusyTracksTransfer'
  BY <1>1, <1>6 DEF TxInv, RestBetweenSteps, BusyTracksTransfer, InFlight
<1>8. Remaining' = Remaining
  <2>1. Remaining = comm_tx_queue'
    BY <1>1 DEF Remaining
  <2>2. Remaining' = SubSeq(comm_tx_queue', 1, Len(comm_tx_queue'))
    BY <1>1 DEF Remaining
  <2>3. Remaining' = comm_tx_queue'
    BY <1>3, <2>2, SubSeqFull
  <2> QED
    BY <2>1, <2>3
<1>9. Unshifted' = Unshifted
  BY <1>1 DEF Unshifted
<1> QED
  BY <1>1, <1>4, <1>5, <1>7, <1>8, <1>9 DEF TxInv, WireIsHanded

LEMMA StartFailedTx ==
  ASSUME TxInv, StartFailed
  PROVE  TxInv'
<1>1. /\ main_pc = "refused" /\ main_pc' = "app" /\ comm_tx_in_progress' = FALSE
      /\ comm_tx_active_buffer' = comm_tx_active_buffer
      /\ comm_tx_queue' = comm_tx_queue /\ to_send' = to_send
      /\ transfer_len' = transfer_len /\ shifted' = shifted /\ wire' = wire
      /\ sent' = sent /\ handed' = handed /\ idle' = idle
  BY DEF StartFailed
<1>2. TxTypeOK'
  BY <1>1 DEF TxInv, TxTypeOK
<1>3. ~InFlight
  BY <1>1 DEF TxInv, RestBetweenSteps
<1>4. ChunkHeld' /\ RestBetweenSteps' /\ BusyTracksTransfer'
  BY <1>1, <1>3 DEF TxInv, ChunkHeld, RestBetweenSteps, BusyTracksTransfer, InFlight
<1>5. Remaining' = Remaining /\ Unshifted' = Unshifted
  BY <1>1 DEF Remaining, Unshifted
<1> QED
  BY <1>1, <1>2, <1>4, <1>5 DEF TxInv, WireIsHanded

\* The byte that goes out is the first of those left in the buffer.
LEMMA TransmitByteTx ==
  ASSUME TxInv, TransmitByte
  PROVE  TxInv'
<1> DEFINE b == comm_tx_active_buffer[shifted]
<1>1. /\ InFlight /\ shifted < transfer_len
      /\ wire' = Append(wire, b) /\ shifted' = shifted + 1
      /\ main_pc' = main_pc
      /\ comm_tx_active_buffer' = comm_tx_active_buffer
      /\ comm_tx_in_progress' = comm_tx_in_progress
      /\ comm_tx_queue' = comm_tx_queue /\ to_send' = to_send
      /\ transfer_len' = transfer_len /\ sent' = sent /\ handed' = handed /\ idle' = idle
  BY DEF TransmitByte
<1>2. /\ transfer_len \in Nat /\ shifted \in Nat /\ shifted \in 0 .. COM_MAX_FRAME_SIZE - 1
      /\ COM_MAX_FRAME_SIZE \in Nat
  BY <1>1, HandleFacts DEF TxInv, TxTypeOK
<1>3. b \in Byte /\ wire \in Seq(Byte)
  BY <1>2 DEF TxInv, TxTypeOK
<1>4. wire' \in Seq(Byte)
  BY <1>1, <1>3, AppendProperties
<1>5. TxTypeOK'
  <2>1. shifted' \in 0 .. transfer_len'
    BY <1>1, <1>2
  <2> QED
    BY <1>1, <1>4, <2>1 DEF TxInv, TxTypeOK
<1>6. ChunkHeld' /\ RestBetweenSteps' /\ BusyTracksTransfer'
  BY <1>1 DEF TxInv, ChunkHeld, RestBetweenSteps, BusyTracksTransfer, InFlight
<1>7. Remaining' = Remaining
  BY <1>1 DEF Remaining
<1>8. PICK u \in Seq(Byte) : u = Unshifted
  BY RemainingFacts
<1>9. /\ Len(u) = transfer_len - shifted /\ Len(u) >= 1 /\ u[1] = b
  <2>1. Len(u) = transfer_len - shifted
    BY <1>1, <1>2, <1>8 DEF Unshifted
  <2>2. 1 \in 1 .. transfer_len - shifted /\ shifted + 1 - 1 = shifted
    BY <1>1, <1>2
  <2>3. u[1] = comm_tx_active_buffer[shifted + 1 - 1]
    BY <1>8, <2>2 DEF Unshifted
  <2> QED
    BY <1>1, <1>2, <2>1, <2>2, <2>3
<1>10. SubSeq(u, 2, Len(u)) \in Seq(Byte) /\ <<b>> \o SubSeq(u, 2, Len(u)) = u
  <2>1. 1 \in 1 .. Len(u) /\ Len(u) \in 1 .. Len(u)
    BY <1>2, <1>9
  <2>2. SubSeq(u, 1, Len(u)) = <<u[1]>> \o SubSeq(u, 1 + 1, Len(u))
    BY <2>1, SubSeqRecursiveFirst
  <2>3. SubSeq(u, 1, Len(u)) = u
    BY SubSeqFull
  <2>4. 1 \in 0 .. Len(u)
    BY <2>1
  <2>5. SubSeq(u, 1 + 1, Len(u)) \in Seq(Byte)
    BY <2>4, Behind
  <2> QED
    BY <1>9, <2>2, <2>3, <2>5
<1>11. Unshifted' = SubSeq(u, 2, Len(u))
  <2>1. Unshifted' = [k \in 1 .. transfer_len - (shifted + 1) |-> comm_tx_active_buffer[shifted + 1 + k - 1]]
    BY <1>1 DEF Unshifted
  <2>2. /\ Len(SubSeq(u, 2, Len(u))) = Len(u) - 1
        /\ \A k \in 1 .. Len(u) - 1 : SubSeq(u, 2, Len(u))[k] = u[k + 1]
    <3>1. Len(u) \in 1 .. Len(u)
      BY <1>2, <1>9
    <3> QED
      BY <3>1, FromSecond
  <2>3. ASSUME NEW k \in 1 .. Len(u) - 1
        PROVE  u[k + 1] = comm_tx_active_buffer[shifted + 1 + k - 1]
    <3>1. k + 1 \in 1 .. transfer_len - shifted /\ shifted + (k + 1) - 1 = shifted + 1 + k - 1
      BY <1>2, <1>9
    <3>2. u[k + 1] = comm_tx_active_buffer[shifted + (k + 1) - 1]
      BY <1>8, <3>1 DEF Unshifted
    <3> QED
      BY <3>1, <3>2
  <2>4. transfer_len - (shifted + 1) = Len(u) - 1
    BY <1>2, <1>9
  <2>5. SubSeq(u, 2, Len(u)) = [k \in 1 .. Len(u) - 1 |-> SubSeq(u, 2, Len(u))[k]]
    BY <1>10, <2>2, LenProperties
  <2> QED
    BY <2>1, <2>2, <2>3, <2>4, <2>5
<1>12. WireIsHanded'
  <2>1. PICK v \in Seq(Byte) : v = SubSeq(u, 2, Len(u))
    BY <1>10
  <2>2. <<b>> \in Seq(Byte)
    BY <1>3
  <2> HIDE DEF b
  <2>3. Append(wire, b) = wire \o <<b>>
    BY <1>3, AppendIsConcat
  <2>4. (wire \o <<b>>) \o v = wire \o (<<b>> \o v)
    <3>1. Associates(wire, <<b>>, v)
      BY <1>3, <2>2, JoinAssociates
    <3> QED
      BY <3>1 DEF Associates
  <2>5. wire \o u = handed
    BY <1>8 DEF TxInv, WireIsHanded
  <2> QED
    BY <1>1, <1>10, <1>11, <2>1, <2>3, <2>4, <2>5 DEF WireIsHanded
<1> QED
  BY <1>1, <1>5, <1>6, <1>7, <1>12 DEF TxInv

\* The whole chunk is out.
LEMMA SendDoneTx ==
  ASSUME TxInv, onSendDone
  PROVE  TxInv'
<1>1. /\ InFlight /\ shifted = transfer_len /\ comm_tx_in_progress' = FALSE
      /\ transfer_len' = 0 /\ shifted' = 0
      /\ main_pc' = main_pc
      /\ comm_tx_active_buffer' = comm_tx_active_buffer
      /\ comm_tx_queue' = comm_tx_queue /\ to_send' = to_send
      /\ wire' = wire /\ sent' = sent /\ handed' = handed /\ idle' = idle
  BY DEF onSendDone
<1>2. TxTypeOK'
  <2>1. 0 \in 0 .. COM_MAX_FRAME_SIZE /\ 0 \in 0 .. 0
    BY HandleFacts
  <2> QED
    BY <1>1, <2>1 DEF TxInv, TxTypeOK
<1>3. ChunkHeld' /\ RestBetweenSteps' /\ BusyTracksTransfer'
  BY <1>1 DEF TxInv, ChunkHeld, RestBetweenSteps, BusyTracksTransfer, InFlight
<1>4. Remaining' = Remaining
  BY <1>1 DEF Remaining
<1>5. Unshifted = << >> /\ Unshifted' = << >>
  <2>1. transfer_len \in Nat /\ transfer_len - shifted = 0
    BY <1>1 DEF TxInv, TxTypeOK
  <2> QED
    BY <1>1, <2>1 DEF Unshifted
<1> QED
  BY <1>1, <1>2, <1>3, <1>4, <1>5 DEF TxInv, WireIsHanded

-----------------------------------------------------------------------------
(* The invariant of the receive side.                                      *)

LEMMA RxSameVars ==
  ASSUME UNCHANGED rx_vars
  PROVE  /\ UNCHANGED packer_vars
         /\ comm_rx_queue' = comm_rx_queue /\ len' = len /\ comm_rx' = comm_rx /\ fed' = fed
         /\ kept' = kept /\ delivered' = delivered /\ line' = line /\ peer_sent' = peer_sent
BY DEF rx_vars

LEMMA PackerSameVars ==
  ASSUME UNCHANGED packer_vars
  PROVE  /\ unpack_state' = unpack_state /\ candidate' = candidate
         /\ result' = result /\ unpack_length' = unpack_length /\ buffer_out' = buffer_out
BY DEF packer_vars

\* A decoder that is not called keeps its invariant.
LEMMA LockSame ==
  ASSUME RxInv, UNCHANGED packer_vars
  PROVE  PackerTypeOK' /\ LockInv' /\ FailureIsReal' /\ locked' = locked
<1>1. PackerTypeOK /\ LockInv /\ FailureIsReal
  BY DEF RxInv, RxTypeOK
<1>2. unpack_state' = unpack_state /\ candidate' = candidate
  BY PackerSameVars
<1> QED
  BY <1>1, <1>2, LockNext DEF locked

LEMMA DropVars ==
  ASSUME UNCHANGED drop_vars
  PROVE  /\ comm_rx_drop_count' = comm_rx_drop_count
         /\ comm_rx_drop_reported' = comm_rx_drop_reported
         /\ drops' = drops /\ told' = told
BY DEF drop_vars

\* Steps of the main loop between its calls, and those of the transmit side.
LEMMA RxSame ==
  ASSUME RxInv, UNCHANGED rx_vars, UNCHANGED drop_vars,
         callback' \in {"none", "success", "fail"},
         \/ main_pc' = main_pc
         \/ /\ main_pc # "rx" \/ (len = 0 /\ comm_rx = << >>)
            /\ main_pc' = "report" => comm_rx_drop_reported # comm_rx_drop_count
  PROVE  RxInv'
<1>1. /\ UNCHANGED packer_vars
      /\ comm_rx_queue' = comm_rx_queue /\ len' = len /\ comm_rx' = comm_rx /\ fed' = fed
      /\ kept' = kept /\ delivered' = delivered /\ line' = line /\ peer_sent' = peer_sent
  BY RxSameVars
<1>2. /\ comm_rx_drop_count' = comm_rx_drop_count
      /\ comm_rx_drop_reported' = comm_rx_drop_reported
      /\ drops' = drops /\ told' = told
  BY DropVars
<1>3. PackerTypeOK' /\ LockInv' /\ FailureIsReal' /\ locked' = locked
  BY <1>1, LockSame
<1>4. RxTypeOK'
  BY <1>1, <1>2, <1>3 DEF RxInv, RxTypeOK
<1>5. BatchDecoded'
  BY <1>1 DEF RxInv, BatchDecoded
<1>6. WholeChunks'
  BY <1>1 DEF RxInv, WholeChunks
<1>7. ToCome' = ToCome /\ Undelivered' = Undelivered
  BY <1>1, <1>3 DEF ToCome, Undelivered
<1>8. drops = 0 => main_pc' # "report"
  BY DEF RxInv, NothingMissed
<1>9. NothingMissed'
  BY <1>1, <1>2, <1>3, <1>7, <1>8 DEF RxInv, NothingMissed
<1> QED
  BY <1>3, <1>4, <1>5, <1>6, <1>9 DEF RxInv

LEMMA RxInit == Init => RxInv
<1> SUFFICES ASSUME Init PROVE RxInv
  OBVIOUS
<1>1. PackerTypeOK /\ LockInv /\ FailureIsReal
  BY InitLock DEF Init
<1>2. /\ comm_rx_queue = << >> /\ comm_rx_drop_count = 0 /\ comm_rx_drop_reported = 0
      /\ main_pc = "app" /\ len = 0 /\ comm_rx = << >> /\ callback = "none"
      /\ line = << >> /\ peer_sent = << >> /\ kept = << >> /\ fed = << >> /\ delivered = << >>
      /\ drops = 0 /\ told = 0 /\ unpack_state = "WAIT_START"
  BY DEF Init, PackerInit
<1>3. /\ << >> \in Seq(Byte) /\ << >> \in Seq(PeerMessages) /\ << >> \in Seq(Seq(Byte))
      /\ Len(<< >>) = 0
  OBVIOUS
<1>4. RxTypeOK
  <2>1. 0 < UART_RX_QUEUE_SIZE /\ 0 \in 0 .. DropLimit - 1 /\ 0 \in 0 .. 0 /\ 0 + 0 <= RxBatch
    BY HandleFacts
  <2> QED
    BY <1>1, <1>2, <1>3, <2>1 DEF RxTypeOK
<1>5. BatchDecoded
  BY <1>2 DEF BatchDecoded
<1>6. << >> \o << >> = << >>
  BY <1>3, ConcatEmptySeq
<1>7. WholeChunks
  BY <1>2, <1>6 DEF WholeChunks
<1>8. locked = << >> /\ ToCome = << >>
  BY <1>2, <1>6 DEF locked, ToCome
<1>9. Undelivered = << >> /\ SubSeq(<< >>, 1, 0) = << >>
  BY <1>2, <1>3, SubSeqEmpty DEF Undelivered
<1>10. NothingMissed
  BY <1>2, <1>3, <1>8, <1>9, FramesEmpty DEF NothingMissed
<1> QED
  BY <1>1, <1>4, <1>5, <1>7, <1>10 DEF RxInv

\* The decoder is reset only after a drop.
LEMMA ReportDropsRx ==
  ASSUME RxInv, ReportDrops
  PROVE  RxInv'
<1>1. /\ main_pc = "report" /\ main_pc' = "pop" /\ callback' = "fail"
      /\ comm_rx_drop_reported' = comm_rx_drop_count /\ Reset /\ told' = drops
      /\ comm_rx_queue' = comm_rx_queue /\ len' = len /\ comm_rx' = comm_rx /\ fed' = fed
      /\ kept' = kept /\ delivered' = delivered /\ line' = line /\ peer_sent' = peer_sent
      /\ comm_rx_drop_count' = comm_rx_drop_count /\ drops' = drops
  BY DEF ReportDrops
<1>2. PackerTypeOK' /\ LockInv' /\ FailureIsReal'
  BY <1>1, LockNext DEF RxInv, RxTypeOK, PackerNext
<1>3. RxTypeOK'
  <2>1. told' \in 0 .. drops'
    BY <1>1 DEF RxInv, RxTypeOK
  <2> QED
    BY <1>1, <1>2, <2>1 DEF RxInv, RxTypeOK
<1>4. BatchDecoded' /\ WholeChunks'
  BY <1>1 DEF RxInv, BatchDecoded, WholeChunks
<1>5. drops' # 0
  BY <1>1 DEF RxInv, NothingMissed
<1> QED
  BY <1>2, <1>3, <1>4, <1>5 DEF RxInv, NothingMissed

LEMMA StartPopRx ==
  ASSUME RxInv, StartPop
  PROVE  RxInv'
<1>1. /\ main_pc = "pop" /\ main_pc' = "rx" /\ callback' = "none"
      /\ len' = Min({RxBatch, Len(comm_rx_queue)})
      /\ UNCHANGED packer_vars
      /\ comm_rx_queue' = comm_rx_queue /\ comm_rx' = comm_rx /\ fed' = fed
      /\ kept' = kept /\ delivered' = delivered /\ line' = line /\ peer_sent' = peer_sent
      /\ comm_rx_drop_count' = comm_rx_drop_count
      /\ comm_rx_drop_reported' = comm_rx_drop_reported
      /\ drops' = drops /\ told' = told
  BY DropVars DEF StartPop
<1>2. PackerTypeOK' /\ LockInv' /\ FailureIsReal' /\ locked' = locked
  BY <1>1, LockSame
<1>3. comm_rx = << >> /\ Len(comm_rx) = 0
  BY <1>1, EmptySeq DEF RxInv, BatchDecoded
<1>4. len' \in 0 .. Len(comm_rx_queue) /\ len' + 0 <= RxBatch
  <2>1. Len(comm_rx_queue) \in Nat
    BY DEF RxInv, RxTypeOK
  <2> QED
    BY <1>1, <2>1, HandleFacts, MinOfTwo
<1>5. RxTypeOK'
  BY <1>1, <1>2, <1>3, <1>4 DEF RxInv, RxTypeOK
<1>6. BatchDecoded' /\ WholeChunks'
  BY <1>1 DEF RxInv, BatchDecoded, WholeChunks
<1>7. ToCome' = ToCome /\ Undelivered' = Undelivered
  BY <1>1, <1>2 DEF ToCome, Undelivered
<1>8. NothingMissed'
  BY <1>1, <1>2, <1>7 DEF RxInv, NothingMissed
<1> QED
  BY <1>2, <1>5, <1>6, <1>8 DEF RxInv

\* queue_pop moves a byte from the front of the queue to the end of the batch.
LEMMA PopByteRx ==
  ASSUME RxInv, PopByte
  PROVE  RxInv'
<1>1. /\ main_pc = "rx" /\ main_pc' = main_pc /\ callback' = callback /\ len > 0
      /\ comm_rx' = Append(comm_rx, Head(comm_rx_queue))
      /\ comm_rx_queue' = Tail(comm_rx_queue) /\ len' = len - 1
      /\ UNCHANGED packer_vars /\ fed' = fed
      /\ kept' = kept /\ delivered' = delivered /\ line' = line /\ peer_sent' = peer_sent
      /\ comm_rx_drop_count' = comm_rx_drop_count
      /\ comm_rx_drop_reported' = comm_rx_drop_reported
      /\ drops' = drops /\ told' = told
  BY DropVars DEF PopByte
<1>2. PackerTypeOK' /\ LockInv' /\ FailureIsReal' /\ locked' = locked
  BY <1>1, LockSame
<1>3. /\ comm_rx_queue \in Seq(Byte) /\ comm_rx \in Seq(Byte) /\ fed \in Seq(Byte)
      /\ line \in Seq(Byte) /\ locked \in Seq(Byte)
  BY DEF RxInv, RxTypeOK, locked, PackerTypeOK
<1>4. comm_rx_queue # << >>
  BY <1>1, <1>3, EmptySeq DEF RxInv, RxTypeOK
<1>5. PICK b \in Byte, q \in Seq(Byte) :
        /\ b = Head(comm_rx_queue) /\ q = Tail(comm_rx_queue)
        /\ <<b>> \o q = comm_rx_queue /\ Len(q) = Len(comm_rx_queue) - 1
  BY <1>3, <1>4, HeadAndTail
<1>6. /\ comm_rx' \in Seq(Byte) /\ Len(comm_rx') = Len(comm_rx) + 1 /\ comm_rx' = comm_rx \o <<b>>
  BY <1>1, <1>3, <1>5, AppendProperties, AppendIsConcat
<1>7. RxTypeOK'
  <2>1. /\ Len(comm_rx_queue') < UART_RX_QUEUE_SIZE
        /\ len' \in 0 .. Len(comm_rx_queue') /\ len' + Len(comm_rx') <= RxBatch
    <3>1. Len(comm_rx) \in Nat /\ Len(comm_rx_queue) \in Nat
      BY <1>3
    <3>2. Len(comm_rx_queue') = Len(comm_rx_queue) - 1
      BY <1>1, <1>5
    <3> QED
      BY <1>1, <1>6, <3>1, <3>2, HandleFacts DEF RxInv, RxTypeOK
  <2> QED
    BY <1>1, <1>2, <1>5, <1>6, <2>1 DEF RxInv, RxTypeOK
<1>8. BatchDecoded'
  BY <1>1 DEF BatchDecoded
<1>9. <<b>> \in Seq(Byte)
  OBVIOUS
<1>10. WholeChunks'
  <2>1. PICK a \in Seq(Byte) : a = fed \o comm_rx
    BY <1>3, ConcatProperties
  <2>2. fed \o (comm_rx \o <<b>>) = (fed \o comm_rx) \o <<b>>
    <3>1. Associates(fed, comm_rx, <<b>>)
      BY <1>3, <1>9, JoinAssociates
    <3> QED
      BY <3>1 DEF Associates
  <2>3. (a \o <<b>>) \o q = a \o (<<b>> \o q)
    <3>1. Associates(a, <<b>>, q)
      BY <1>9, JoinAssociates
    <3> QED
      BY <3>1 DEF Associates
  <2> QED
    BY <1>1, <1>5, <1>6, <2>1, <2>2, <2>3 DEF RxInv, WholeChunks
<1>11. Undelivered' = Undelivered
  BY <1>1 DEF Undelivered
<1>12. ToCome' = ToCome
  <2>1. PICK z \in Seq(Byte) : z = q \o line
    BY <1>3, ConcatProperties
  <2>2. (<<b>> \o q) \o line = <<b>> \o (q \o line)
    <3>1. Associates(<<b>>, q, line)
      BY <1>3, <1>9, JoinAssociates
    <3> QED
      BY <3>1 DEF Associates
  <2>3. (comm_rx \o <<b>>) \o z = comm_rx \o (<<b>> \o z)
    <3>1. Associates(comm_rx, <<b>>, z)
      BY <1>3, <1>9, JoinAssociates
    <3> QED
      BY <3>1 DEF Associates
  <2> QED
    BY <1>1, <1>2, <1>5, <1>6, <2>1, <2>2, <2>3 DEF ToCome
<1>13. NothingMissed'
  BY <1>1, <1>2, <1>11, <1>12 DEF RxInv, NothingMissed
<1> QED
  BY <1>2, <1>7, <1>8, <1>10, <1>13 DEF RxInv

\* A chunk is queued whole or dropped whole.
LEMMA ReceiveRx ==
  ASSUME RxInv, NEW n \in ChunkSizes, onReceiveData(n)
  PROVE  RxInv'
<1>1. /\ n <= Len(line) /\ line' = SubSeq(line, n + 1, Len(line))
      /\ main_pc' = main_pc /\ callback' = callback
      /\ UNCHANGED packer_vars /\ len' = len /\ comm_rx' = comm_rx /\ fed' = fed
      /\ delivered' = delivered /\ peer_sent' = peer_sent
      /\ comm_rx_drop_reported' = comm_rx_drop_reported /\ told' = told
  BY DEF onReceiveData, Arrived
<1>2. PackerTypeOK' /\ LockInv' /\ FailureIsReal' /\ locked' = locked
  BY <1>1, LockSame
<1>3. /\ comm_rx_queue \in Seq(Byte) /\ comm_rx \in Seq(Byte) /\ fed \in Seq(Byte)
      /\ line \in Seq(Byte) /\ locked \in Seq(Byte) /\ kept \in Seq(Byte)
  BY DEF RxInv, RxTypeOK, locked, PackerTypeOK
<1>4. /\ n \in 0 .. Len(line) /\ n \in Nat
  BY <1>1, <1>3, HandleAssumption
<1>5. PICK chunk \in Seq(Byte), rest \in Seq(Byte) :
        /\ chunk = SubSeq(line, 1, n) /\ rest = SubSeq(line, n + 1, Len(line))
        /\ Len(chunk) = n /\ chunk \o rest = line
  <2>1. SubSeq(line, 1, n) \in Seq(Byte) /\ SubSeq(line, n + 1, Len(line)) \in Seq(Byte)
    BY <1>3, <1>4, Behind
  <2>2. Len(SubSeq(line, 1, n)) = n /\ SubSeq(line, 1, n) \o SubSeq(line, n + 1, Len(line)) = line
    BY <1>3, <1>4, Behind
  <2> QED
    BY <2>1, <2>2
<1>6. BatchDecoded'
  BY <1>1 DEF RxInv, BatchDecoded
<1>7. CASE UNCHANGED comm_rx_queue /\ Dropped
  <2>1. /\ comm_rx_drop_count' = (comm_rx_drop_count + 1) % DropLimit
        /\ drops' = drops + 1 /\ kept' = kept /\ comm_rx_queue' = comm_rx_queue
    BY <1>7 DEF Dropped
  <2>2. comm_rx_drop_count' \in 0 .. DropLimit - 1
    BY <2>1, HandleFacts DEF RxInv, RxTypeOK
  <2>3. drops' \in Nat /\ told' \in 0 .. drops' /\ drops' # 0
    BY <1>1, <2>1 DEF RxInv, RxTypeOK
  <2>4. RxTypeOK'
    BY <1>1, <1>2, <1>5, <2>1, <2>2, <2>3 DEF RxInv, RxTypeOK
  <2>5. WholeChunks'
    BY <1>1, <2>1 DEF RxInv, WholeChunks
  <2>6. NothingMissed'
    BY <2>3 DEF NothingMissed
  <2> QED
    BY <1>2, <1>6, <2>4, <2>5, <2>6 DEF RxInv
<1>8. CASE UART_RX_QUEUE_SIZE - 1 - Len(comm_rx_queue) >= n /\ Kept(chunk)
  <2>1. /\ comm_rx_queue' = comm_rx_queue \o chunk /\ kept' = kept \o chunk
        /\ comm_rx_drop_count' = comm_rx_drop_count /\ drops' = drops
    BY <1>8 DEF Kept
  <2>2. /\ comm_rx_queue' \in Seq(Byte) /\ Len(comm_rx_queue') = Len(comm_rx_queue) + n
        /\ kept' \in Seq(Byte)
    BY <1>3, <1>5, <2>1, ConcatProperties
  <2>3. Len(comm_rx_queue') < UART_RX_QUEUE_SIZE /\ len' \in 0 .. Len(comm_rx_queue')
    <3>1. Len(comm_rx_queue) \in Nat
      BY <1>3
    <3>2. Len(comm_rx_queue') < UART_RX_QUEUE_SIZE /\ Len(comm_rx_queue') \in Nat
      BY <1>4, <1>8, <2>2, <3>1, HandleFacts
    <3>3. len' \in 0 .. Len(comm_rx_queue)
      BY <1>1 DEF RxInv, RxTypeOK
    <3> QED
      BY <1>4, <2>2, <3>1, <3>2, <3>3
  <2>4. RxTypeOK'
    BY <1>1, <1>2, <1>5, <2>1, <2>2, <2>3 DEF RxInv, RxTypeOK
  <2>5. WholeChunks'
    <3>1. PICK a \in Seq(Byte) : a = fed \o comm_rx
      BY <1>3, ConcatProperties
    <3>2. (a \o comm_rx_queue) \o chunk = a \o (comm_rx_queue \o chunk)
      <4>1. Associates(a, comm_rx_queue, chunk)
        BY <1>3, JoinAssociates
      <4> QED
        BY <4>1 DEF Associates
    <3> QED
      BY <1>1, <2>1, <3>1, <3>2 DEF RxInv, WholeChunks
  <2>6. Undelivered' = Undelivered
    BY <1>1 DEF Undelivered
  <2>7. ToCome' = ToCome
    <3>1. (comm_rx_queue \o chunk) \o rest = comm_rx_queue \o (chunk \o rest)
      <4>1. Associates(comm_rx_queue, chunk, rest)
        BY <1>3, JoinAssociates
      <4> QED
        BY <4>1 DEF Associates
    <3> QED
      BY <1>1, <1>2, <1>5, <2>1, <3>1 DEF ToCome
  <2>8. NothingMissed'
    BY <1>1, <1>2, <2>1, <2>6, <2>7 DEF RxInv, NothingMissed
  <2> QED
    BY <1>2, <1>6, <2>4, <2>5, <2>8 DEF RxInv
<1> QED
  BY <1>5, <1>7, <1>8 DEF onReceiveData, queue_get_space

\* The peer's messages have frames, and so have those not delivered.
LEMMA PeerFacts ==
  ASSUME peer_sent \in Seq(PeerMessages), Len(delivered) \in 0 .. Len(peer_sent)
  PROVE  /\ PeerMessages \subseteq Packable
         /\ peer_sent \in Seq(Packable) /\ Len(peer_sent) \in Nat
         /\ Undelivered \in Seq(Packable)
         /\ Len(Undelivered) = Len(peer_sent) - Len(delivered)
         /\ \A i \in 1 .. Len(Undelivered) : Undelivered[i] = peer_sent[Len(delivered) + i]
<1>1. PeerMessages \subseteq Packable
  BY HandleAssumption, PeerAssumption DEF Packable
<1>2. peer_sent \in Seq(Packable) /\ Len(peer_sent) \in Nat
  BY <1>1, SeqMonotonic
<1> QED
  BY <1>1, <1>2, Behind DEF Undelivered

LEMMA PeerSendRx ==
  ASSUME RxInv, NEW message \in PeerMessages, PeerSend(message)
  PROVE  RxInv'
<1>1. /\ peer_sent' = Append(peer_sent, message) /\ line' = line \o frame(message)
      /\ main_pc' = main_pc /\ callback' = callback
      /\ UNCHANGED packer_vars /\ len' = len /\ comm_rx' = comm_rx /\ fed' = fed
      /\ comm_rx_queue' = comm_rx_queue /\ kept' = kept /\ delivered' = delivered
      /\ comm_rx_drop_count' = comm_rx_drop_count
      /\ comm_rx_drop_reported' = comm_rx_drop_reported
      /\ drops' = drops /\ told' = told
  BY DropVars DEF PeerSend
<1>2. PackerTypeOK' /\ LockInv' /\ FailureIsReal' /\ locked' = locked
  BY <1>1, LockSame
<1>3. /\ comm_rx_queue \in Seq(Byte) /\ comm_rx \in Seq(Byte)
      /\ line \in Seq(Byte) /\ locked \in Seq(Byte) /\ peer_sent \in Seq(PeerMessages)
  BY DEF RxInv, RxTypeOK, locked, PackerTypeOK
<1>4. message \in Packable
  BY HandleAssumption, PeerAssumption DEF Packable
<1>5. PICK f \in Seq(Byte) : f = frame(message)
  BY <1>4, PackableFrame
<1>6. line' \in Seq(Byte)
  BY <1>1, <1>3, <1>5, ConcatProperties
<1>7. /\ peer_sent' \in Seq(PeerMessages) /\ Len(peer_sent') = Len(peer_sent) + 1
      /\ \A i \in 1 .. Len(peer_sent) : peer_sent'[i] = peer_sent[i]
  BY <1>1, <1>3, AppendProperties
<1>8. RxTypeOK'
  BY <1>1, <1>2, <1>6, <1>7 DEF RxInv, RxTypeOK
<1>9. BatchDecoded' /\ WholeChunks'
  BY <1>1 DEF RxInv, BatchDecoded, WholeChunks
<1>10. ASSUME drops = 0 PROVE NothingMissed'
  <2> DEFINE n == Len(delivered)
  <2>1. /\ comm_rx_drop_count = 0 /\ comm_rx_drop_reported = 0 /\ main_pc # "report"
        /\ n <= Len(peer_sent) /\ delivered = SubSeq(peer_sent, 1, n)
        /\ ToCome = Frames(Undelivered)
        /\ locked # << >> => n < Len(peer_sent) /\ Len(locked) < Len(frame(peer_sent[n + 1]))
    BY <1>10 DEF RxInv, NothingMissed
  <2>2. n \in Nat
    BY DEF RxInv, RxTypeOK
  <2>3. n \in 0 .. Len(peer_sent) /\ Len(peer_sent) \in Nat
    BY <1>3, <2>1, <2>2
  <2> HIDE DEF n
  <2>4. /\ peer_sent \in Seq(Packable) /\ Undelivered \in Seq(Packable)
    BY <1>3, <2>3, PeerFacts DEF n
  <2>5. PICK one \in Seq(Packable) : one = <<message>>
    <3>1. <<message>> \in Seq(Packable)
      BY <1>4
    <3> QED
      BY <3>1
  <2>6. peer_sent' = peer_sent \o one
    BY <1>1, <1>4, <2>4, <2>5, AppendIsConcat
  <2>7. Undelivered' = Append(Undelivered, message)
    <3>1. Undelivered' = SubSeq(peer_sent \o one, n + 1, Len(peer_sent \o one))
      BY <1>1, <2>6 DEF Undelivered, n
    <3>2. Undelivered = SubSeq(peer_sent, n + 1, Len(peer_sent))
      BY DEF Undelivered, n
    <3>3. SubSeq(peer_sent \o one, n + 1, Len(peer_sent \o one))
            = SubSeq(peer_sent, n + 1, Len(peer_sent)) \o one
      BY <2>3, <2>4, BehindConcat
    <3>4. Append(Undelivered, message) = Undelivered \o one
      BY <1>4, <2>4, <2>5, AppendIsConcat
    <3> QED
      BY <3>1, <3>2, <3>3, <3>4
  <2>8. Frames(Undelivered') = Frames(Undelivered) \o f
    BY <1>4, <2>4, <2>7, <1>5, FramesAppend
  <2>9. ToCome' = ToCome \o f
    <3>1. PICK q \in Seq(Byte) : q = comm_rx_queue \o line
      BY <1>3, ConcatProperties
    <3>2. PICK z \in Seq(Byte) : z = comm_rx \o q
      BY <1>3, ConcatProperties
    <3>3. (comm_rx_queue \o line) \o f = comm_rx_queue \o (line \o f)
      <4>1. Associates(comm_rx_queue, line, f)
        BY <1>3, JoinAssociates
      <4> QED
        BY <4>1 DEF Associates
    <3>4. (comm_rx \o q) \o f = comm_rx \o (q \o f)
      <4>1. Associates(comm_rx, q, f)
        BY <1>3, JoinAssociates
      <4> QED
        BY <4>1 DEF Associates
    <3>5. (locked \o z) \o f = locked \o (z \o f)
      <4>1. Associates(locked, z, f)
        BY <1>3, JoinAssociates
      <4> QED
        BY <4>1 DEF Associates
    <3> QED
      BY <1>1, <1>2, <1>5, <3>1, <3>2, <3>3, <3>4, <3>5 DEF ToCome
  <2>10. delivered' = SubSeq(peer_sent', 1, n)
    <3>1. /\ SubSeq(peer_sent, 1, n) \in Seq(Packable) /\ Len(SubSeq(peer_sent, 1, n)) = n
          /\ \A i \in 1 .. n : SubSeq(peer_sent, 1, n)[i] = peer_sent[i]
      BY <2>3, <2>4, Behind
    <3>2. peer_sent' \in Seq(Packable) /\ n \in 0 .. Len(peer_sent')
      BY <1>1, <1>4, <1>7, <2>3, <2>4, AppendProperties
    <3>3. /\ SubSeq(peer_sent', 1, n) \in Seq(Packable) /\ Len(SubSeq(peer_sent', 1, n)) = n
          /\ \A i \in 1 .. n : SubSeq(peer_sent', 1, n)[i] = peer_sent'[i]
      BY <3>2, Behind
    <3>4. \A i \in 1 .. n : peer_sent'[i] = peer_sent[i]
      BY <1>7, <2>3
    <3>5. SubSeq(peer_sent', 1, n) = SubSeq(peer_sent, 1, n)
      BY <3>1, <3>3, <3>4, SeqEqual
    <3> QED
      BY <1>1, <2>1, <3>5
  <2>11. locked' # << >> =>
           n < Len(peer_sent') /\ Len(locked') < Len(frame(peer_sent'[n + 1]))
    <3> SUFFICES ASSUME locked # << >>
                 PROVE  n < Len(peer_sent') /\ Len(locked) < Len(frame(peer_sent'[n + 1]))
      BY <1>2
    <3>1. n < Len(peer_sent) /\ Len(locked) < Len(frame(peer_sent[n + 1]))
      BY <2>1
    <3>2. n + 1 \in 1 .. Len(peer_sent) /\ n < Len(peer_sent')
      BY <1>7, <2>3, <3>1
    <3> QED
      BY <1>7, <3>1, <3>2
  <2>12. n <= Len(peer_sent') /\ n = Len(delivered')
    BY <1>1, <1>7, <2>3 DEF n
  <2> QED
    BY <1>1, <2>1, <2>8, <2>9, <2>10, <2>11, <2>12 DEF NothingMissed
<1>11. NothingMissed'
  <2>1. drops' # 0 => NothingMissed'
    BY DEF NothingMissed
  <2> QED
    BY <1>1, <1>10, <2>1
<1> QED
  BY <1>2, <1>8, <1>9, <1>11 DEF RxInv

-----------------------------------------------------------------------------
(* One round of the decoding loop.                                         *)

LEMMA CompleteAfter ==
  (PackerTypeOK /\ LockInv /\ FailureIsReal => AcceptsFrames)'
BY CompleteFromLock, PTL

\* Behind what it is locked on and the byte it is fed, the decoder finds the
\* rest of a frame: it goes on, or it has reached the end.
LEMMA DecoderFollows ==
  ASSUME PackerTypeOK, LockInv, FailureIsReal, NEW b \in Byte, my_unpack_data_state(b),
         NEW m \in Packable, NEW rest \in Seq(Byte), NEW y \in Seq(Byte),
         Len(locked) < Len(frame(m))
  PROVE  Append(locked, b) \o rest = frame(m) \o y
           => \/ /\ result' = "RUNNING" /\ locked' = Append(locked, b)
                 /\ Len(locked') < Len(frame(m))
              \/ /\ result' = "SUCCESS" /\ payload' = m /\ locked' = << >> /\ rest = y
<1>0. SUFFICES ASSUME Append(locked, b) \o rest = frame(m) \o y
               PROVE  \/ /\ result' = "RUNNING" /\ locked' = Append(locked, b)
                         /\ Len(locked') < Len(frame(m))
                      \/ /\ result' = "SUCCESS" /\ payload' = m /\ locked' = << >> /\ rest = y
  OBVIOUS
<1>1. locked \in Seq(Byte)
  BY DEF locked, PackerTypeOK
<1>2. PICK f \in Seq(Byte) : f = frame(m) /\ Len(f) = Len(m) + 6 /\ f[1] = PACKER_START_BYTE
  BY PackableFrame
<1>3. PICK c \in Seq(Byte) : /\ c = Append(locked, b) /\ Len(c) = Len(locked) + 1
                             /\ c[Len(locked) + 1] = b
  BY <1>1, AppendProperties
<1>4. Len(c) \in 1 .. Len(f) /\ Len(c) <= Len(f)
  <2>1. Len(locked) \in Nat /\ Len(f) \in Nat
    BY <1>1, LenProperties
  <2> QED
    BY <1>2, <1>3, <2>1
<1>5. c = SubSeq(f, 1, Len(c)) /\ (Len(c) = Len(f) => rest = y)
  <2>1. SameJoin(c, rest, f, y)
    BY <1>0, <1>2, <1>3 DEF SameJoin
  <2>2. IsFront(c, f) /\ (Len(c) = Len(f) => rest = y)
    BY <1>4, <2>1, PrefixOfConcat
  <2> QED
    BY <2>2 DEF IsFront
<1>6. PackerTypeOK' /\ LockInv' /\ FailureIsReal'
  BY LockNext DEF PackerNext
<1>7. candidate' = c
  <2>1. CASE WaitStart(b)
    <3>1. locked = << >>
      BY <2>1 DEF WaitStart, locked
    <3>2. c = <<b>> /\ Len(c) = 1 /\ c[1] = b
      BY <1>3, <3>1
    <3>3. c[1] = f[1]
      <4>1. /\ 1 \in 0 .. Len(f)
        BY <1>4, <3>2
      <4>2. \A i \in 1 .. 1 : SubSeq(f, 1, 1)[i] = f[i]
        BY <4>1, Behind
      <4> QED
        BY <1>5, <3>2, <4>2
    <3> QED
      BY <1>2, <2>1, <3>2, <3>3 DEF WaitStart
  <2>2. CASE unpack_state # "WAIT_START" /\ candidate' = Append(candidate, b)
    BY <1>3, <2>2 DEF locked
  <2> QED
    BY <2>1, <2>2 DEF my_unpack_data_state, ReadLengthHigh, ReadLengthLow, ReadPayload,
                      ReadCrcHigh, ReadCrcLow, WaitEnd
<1>8. m \in BytesUpTo(size_out) /\ decodable(Len(m))
  <2>1. m \in Seq(Byte) /\ Len(m) \in 1 .. COM_MAX_PAYLOAD_SIZE
    BY PackableFrame
  <2>2. COM_MAX_PAYLOAD_SIZE = size_out /\ size_out \in Nat
    BY SizeFacts, RxBufferAssumption
  <2> QED
    BY <2>1, <2>2, InBytesUpTo DEF decodable, PACKER_MIN_PAYLOAD_SIZE
<1>9. IF Len(c) < Len(f) THEN unpack_state' # "WAIT_START" ELSE result' = "SUCCESS" /\ payload' = m
  <2>1. AcceptsFrames'
    BY <1>6, CompleteAfter
  <2>2. Len(c) \in 1 .. Len(f) /\ candidate' # << >>
    BY <1>3, <1>4, <1>7
  <2> QED
    BY <1>2, <1>5, <1>7, <1>8, <2>1, <2>2 DEF AcceptsFrames
<1>10. CASE Len(c) < Len(f)
  <2>1. unpack_state' # "WAIT_START"
    BY <1>9, <1>10
  <2>2. result' = "RUNNING"
    BY <1>6, <2>1 DEF LockInv
  <2> QED
    BY <1>2, <1>3, <1>7, <1>10, <2>1, <2>2 DEF locked
<1>11. CASE ~(Len(c) < Len(f))
  <2>1. result' = "SUCCESS" /\ payload' = m
    BY <1>9, <1>11
  <2>2. unpack_state' = "WAIT_START"
    BY <1>6, <2>1 DEF LockInv
  <2>3. Len(c) = Len(f)
    BY <1>4, <1>11
  <2> QED
    BY <1>5, <2>1, <2>2, <2>3 DEF locked
<1> QED
  BY <1>10, <1>11

LEMMA LengthAfter ==
  (PackerTypeOK /\ LengthRead => unpack_length \in Nat /\ unpack_length <= size_out)'
<1>1. PackerTypeOK /\ LengthRead => unpack_length \in Nat /\ unpack_length <= size_out
  BY LengthFacts
<1> QED
  BY <1>1, PTL

LEMMA DecodeByteRx ==
  ASSUME RxInv, DecodeByte
  PROVE  RxInv'
<1>1. /\ main_pc = "rx" /\ main_pc' = main_pc /\ comm_rx # << >>
      /\ Decoded(Head(comm_rx)) /\ comm_rx' = Tail(comm_rx) /\ fed' = Append(fed, Head(comm_rx))
      /\ comm_rx_queue' = comm_rx_queue /\ len' = len /\ len = 0 /\ kept' = kept
      /\ line' = line /\ peer_sent' = peer_sent
      /\ comm_rx_drop_count' = comm_rx_drop_count
      /\ comm_rx_drop_reported' = comm_rx_drop_reported
      /\ drops' = drops /\ told' = told
  BY DropVars DEF DecodeByte
<1>2. /\ comm_rx_queue \in Seq(Byte) /\ comm_rx \in Seq(Byte) /\ fed \in Seq(Byte)
      /\ line \in Seq(Byte) /\ locked \in Seq(Byte) /\ peer_sent \in Seq(PeerMessages)
      /\ delivered \in Seq(Seq(Byte))
  BY DEF RxInv, RxTypeOK, locked, PackerTypeOK
<1>3. PICK b \in Byte, t \in Seq(Byte) :
        /\ b = Head(comm_rx) /\ t = Tail(comm_rx)
        /\ <<b>> \o t = comm_rx /\ Len(t) = Len(comm_rx) - 1
  BY <1>1, <1>2, HeadAndTail
<1>4. /\ my_unpack_data_state(b)
      /\ \/ result' = "RUNNING" /\ callback' = "none" /\ delivered' = delivered
         \/ /\ result' = "SUCCESS" /\ callback' = "success"
            /\ delivered' = Append(delivered, payload')
         \/ result' \notin {"RUNNING", "SUCCESS"} /\ callback' = "fail" /\ delivered' = delivered
  BY <1>1, <1>3 DEF Decoded
<1>5. PackerTypeOK' /\ LockInv' /\ FailureIsReal'
  BY <1>4, LockNext DEF RxInv, RxTypeOK, PackerNext
<1>6. result' = "SUCCESS" => payload' \in Seq(Byte)
  <2> SUFFICES ASSUME result' = "SUCCESS" PROVE payload' \in Seq(Byte)
    OBVIOUS
  <2>1. LengthRead'
    BY <1>5 DEF LockInv, TrailerRead, FrameRead
  <2>2. unpack_length' \in Nat /\ unpack_length' <= size_out
    BY <1>5, <2>1, LengthAfter
  <2>3. size_out \in Nat /\ buffer_out' \in [0 .. size_out - 1 -> Byte]
    BY <1>5, SizeFacts DEF PackerTypeOK
  <2>4. PICK n \in Nat : n = unpack_length' /\ n <= size_out
    BY <2>2
  <2>5. \A i \in 1 .. n : i - 1 \in 0 .. size_out - 1
    BY <2>3, <2>4
  <2>6. payload' = [i \in 1 .. n |-> buffer_out'[i - 1]]
    BY <2>4 DEF payload
  <2>7. \A i \in 1 .. n : buffer_out'[i - 1] \in Byte
    BY <2>3, <2>5
  <2>8. [i \in 1 .. n |-> buffer_out'[i - 1]] \in Seq(Byte)
    BY <2>4, <2>7, IsASeq
  <2> QED
    BY <2>6, <2>8
<1>7. RxTypeOK'
  <2>1. callback' \in {"none", "success", "fail"}
    BY <1>4
  <2>2. delivered' \in Seq(Seq(Byte))
    <3>1. CASE delivered' = delivered
      BY <1>2, <3>1
    <3>2. CASE result' = "SUCCESS" /\ delivered' = Append(delivered, payload')
      BY <1>2, <1>6, <3>2, AppendProperties
    <3> QED
      BY <1>4, <3>1, <3>2
  <2>3. fed' \in Seq(Byte)
    BY <1>1, <1>2, <1>3, AppendProperties
  <2>4. len' + Len(comm_rx') <= RxBatch
    <3>1. Len(comm_rx) \in Nat
      BY <1>2
    <3> QED
      BY <1>1, <1>3, <3>1, HandleFacts DEF RxInv, RxTypeOK
  <2> QED
    BY <1>1, <1>3, <1>5, <2>1, <2>2, <2>3, <2>4 DEF RxInv, RxTypeOK
<1>8. BatchDecoded'
  BY <1>1 DEF BatchDecoded
<1>9. <<b>> \in Seq(Byte)
  OBVIOUS
<1>10. WholeChunks'
  <2>1. Append(fed, b) = fed \o <<b>>
    BY <1>2, AppendIsConcat
  <2>2. (fed \o <<b>>) \o t = fed \o (<<b>> \o t)
    <3>1. Associates(fed, <<b>>, t)
      BY <1>2, <1>9, JoinAssociates
    <3> QED
      BY <3>1 DEF Associates
  <2> QED
    BY <1>1, <1>3, <2>1, <2>2 DEF RxInv, WholeChunks
<1>11. ASSUME drops = 0 PROVE NothingMissed'
  <2>1. /\ comm_rx_drop_count = 0 /\ comm_rx_drop_reported = 0
        /\ Len(delivered) <= Len(peer_sent)
        /\ delivered = SubSeq(peer_sent, 1, Len(delivered))
        /\ ToCome = Frames(Undelivered)
        /\ locked # << >> => /\ Len(delivered) < Len(peer_sent)
                            /\ Len(locked) < Len(frame(peer_sent[Len(delivered) + 1]))
    BY <1>11 DEF RxInv, NothingMissed
  <2>2. PICK n \in Nat : n = Len(delivered)
    BY <1>2
  <2>3. n \in 0 .. Len(peer_sent) /\ Len(peer_sent) \in Nat
    BY <1>2, <2>1, <2>2
  <2>4. /\ peer_sent \in Seq(Packable) /\ Undelivered \in Seq(Packable)
        /\ Len(Undelivered) = Len(peer_sent) - n
        /\ \A i \in 1 .. Len(Undelivered) : Undelivered[i] = peer_sent[n + i]
    BY <1>2, <2>2, <2>3, PeerFacts
  \* What follows the byte.
  <2>5. PICK rest \in Seq(Byte) : rest = t \o (comm_rx_queue \o line)
    BY <1>2, ConcatProperties
  <2>6. ToCome = Append(locked, b) \o rest
    <3>1. PICK q \in Seq(Byte) : q = comm_rx_queue \o line
      BY <1>2, ConcatProperties
    <3>2. locked \o ((<<b>> \o t) \o q) = Append(locked, b) \o (t \o q)
      <4>1. PICK l \in Seq(Byte) : l = locked
        BY <1>2
      <4>2. l \o ((<<b>> \o t) \o q) = Append(l, b) \o (t \o q)
        <5>1. MovesOver(l, b, t, q)
          BY ElementJoins
        <5> QED
          BY <5>1 DEF MovesOver
      <4> QED
        BY <4>1, <4>2
    <3> QED
      BY <1>3, <2>5, <3>1, <3>2 DEF ToCome
  <2>7. Len(Undelivered) > 0
    <3> SUFFICES ASSUME ~(Len(Undelivered) > 0) PROVE FALSE
      OBVIOUS
    <3>1. Undelivered = << >>
      <4>1. Len(Undelivered) \in Nat
        BY <2>4, LenProperties
      <4> QED
        BY <2>4, <4>1, EmptySeq
    <3>2. Append(locked, b) \o rest = << >>
      BY <2>1, <2>6, <3>1, FramesEmpty
    <3>3. Append(locked, b) \in Seq(Byte) /\ Len(Append(locked, b)) = Len(locked) + 1
      BY <1>2, AppendProperties
    <3>4. Len(Append(locked, b) \o rest) = Len(locked) + 1 + Len(rest)
      BY <3>3, ConcatProperties
    <3>5. Len(Append(locked, b) \o rest) = 0
      BY <3>2
    <3>6. Len(locked) \in Nat /\ Len(rest) \in Nat
      BY <1>2, LenProperties
    <3> QED
      BY <3>4, <3>5, <3>6
  <2>8. n < Len(peer_sent) /\ n + 1 \in 1 .. Len(peer_sent)
    BY <2>3, <2>4, <2>7
  <2>9. PICK m \in Packable : m = peer_sent[n + 1] /\ m = Undelivered[1]
    BY <2>4, <2>7, <2>8
  <2>10. PICK others \in Seq(Packable) : others = SubSeq(peer_sent, n + 2, Len(peer_sent))
    <3>1. n + 1 \in 0 .. Len(peer_sent) /\ n + 1 + 1 = n + 2
      BY <2>8
    <3>2. SubSeq(peer_sent, n + 1 + 1, Len(peer_sent)) \in Seq(Packable)
      BY <2>4, <3>1, Behind
    <3> QED
      BY <3>1, <3>2
  <2>11. SubSeq(Undelivered, 2, Len(Undelivered)) = others
    BY <2>3, <2>4, <2>7, <2>8, <2>10, SecondBehind, <2>2 DEF Undelivered
  <2>12. PICK y \in Seq(Byte) : y = Frames(others)
    BY FramesType
  <2>13. Frames(Undelivered) = frame(m) \o y
    BY <2>4, <2>7, <2>9, <2>11, <2>12, FramesFirst
  <2>14. Len(locked) < Len(frame(m))
    <3>1. CASE locked # << >>
      BY <2>1, <2>2, <2>9, <3>1
    <3>2. CASE locked = << >>
      <4>1. Len(locked) = 0
        BY <3>2
      <4>2. Len(frame(m)) = Len(m) + 6 /\ Len(m) \in 1 .. COM_MAX_PAYLOAD_SIZE
        BY PackableFrame
      <4> QED
        BY <4>1, <4>2
    <3> QED
      BY <3>1, <3>2
  <2>15. \/ /\ result' = "RUNNING" /\ locked' = Append(locked, b)
            /\ Len(locked') < Len(frame(m))
         \/ /\ result' = "SUCCESS" /\ payload' = m /\ locked' = << >> /\ rest = y
    <3>1. Append(locked, b) \o rest = frame(m) \o y
      BY <2>1, <2>6, <2>13
    <3>2. PackerTypeOK /\ LockInv /\ FailureIsReal
      BY DEF RxInv, RxTypeOK
    <3> QED
      BY <1>4, <2>14, <3>1, <3>2, DecoderFollows
  <2>16. ToCome' = locked' \o rest
    BY <1>1, <1>3, <2>5 DEF ToCome
  <2>17. CASE /\ result' = "RUNNING" /\ locked' = Append(locked, b)
              /\ Len(locked') < Len(frame(m))
    <3>1. delivered' = delivered
      BY <1>4, <2>17
    <3>2. Undelivered' = Undelivered
      BY <1>1, <3>1 DEF Undelivered
    <3>3. ToCome' = Frames(Undelivered')
      BY <2>1, <2>6, <2>16, <2>17, <3>2
    <3> QED
      BY <1>1, <2>1, <2>2, <2>8, <2>9, <2>17, <3>1, <3>3 DEF NothingMissed
  <2>18. CASE /\ result' = "SUCCESS" /\ payload' = m /\ locked' = << >> /\ rest = y
    <3>1. delivered' = Append(delivered, m)
      BY <1>4, <2>18
    <3>2. Len(delivered') = n + 1
      BY <1>2, <2>2, <3>1, <2>9, AppendProperties DEF Packable
    <3>3. Undelivered' = others
      <4>1. n + 1 + 1 = n + 2
        OBVIOUS
      <4> QED
        BY <1>1, <2>10, <3>2, <4>1 DEF Undelivered
    <3>4. ToCome' = Frames(Undelivered')
      <4>1. ToCome' = << >> \o rest
        BY <2>16, <2>18
      <4>2. << >> \o rest = rest
        BY ConcatEmptySeq
      <4> QED
        BY <2>12, <2>18, <3>3, <4>1, <4>2
    <3>5. delivered' = SubSeq(peer_sent, 1, n + 1)
      BY <2>1, <2>2, <2>4, <2>8, <2>9, <3>1, FrontGrows
    <3>6. n + 1 <= Len(peer_sent)
      BY <2>8
    <3> QED
      BY <1>1, <2>1, <2>18, <3>2, <3>4, <3>5, <3>6 DEF NothingMissed
  <2> QED
    BY <2>15, <2>17, <2>18
<1>12. NothingMissed'
  <2>1. drops' # 0 => NothingMissed'
    BY DEF NothingMissed
  <2> QED
    BY <1>1, <1>11, <2>1
<1> QED
  BY <1>5, <1>7, <1>8, <1>10, <1>12 DEF RxInv

-----------------------------------------------------------------------------
(* Every step.                                                             *)

LEMMA TxNext == TxInv /\ [Next]_vars => TxInv'
<1> SUFFICES ASSUME TxInv, [Next]_vars PROVE TxInv'
  OBVIOUS
<1>1. CASE UNCHANGED vars
  BY <1>1, TxSame DEF vars
<1>2. ASSUME NEW m \in Messages, comm_manager_send_data(m) PROVE TxInv'
  BY <1>2, SendTx
<1>3. CASE TxIdleFlag
  BY <1>3, TxIdleFlagTx
<1>4. CASE TxIdleQueue
  BY <1>4, TxIdleQueueTx
<1>5. CASE comm_control
  <2>1. CASE CheckDrops
    BY <2>1, TxSame DEF CheckDrops, Quiet
  <2>2. CASE ReportDrops
    BY <2>2, TxSame DEF ReportDrops, Quiet
  <2>3. CASE StartPop
    BY <2>3, TxSame DEF StartPop, Quiet
  <2>4. CASE PopByte
    BY <2>4, TxSame DEF PopByte
  <2>5. CASE DecodeByte
    BY <2>5, TxSame DEF DecodeByte
  <2>6. CASE DecodeEnd
    BY <2>6, TxSame DEF DecodeEnd, Quiet
  <2>7. CASE NothingToStart
    BY <2>7, TxSame DEF NothingToStart, Quiet
  <2>8. CASE PeekChunk
    BY <2>8, PeekChunkTx
  <2>9. CASE DiscardChunk
    BY <2>9, DiscardChunkTx
  <2>10. CASE StartFailed
    BY <2>10, StartFailedTx
  <2> QED
    BY <1>5, <2>1, <2>2, <2>3, <2>4, <2>5, <2>6, <2>7, <2>8, <2>9, <2>10 DEF comm_control
<1>6. CASE StartAccepted
  BY <1>6, StartAcceptedTx
<1>7. CASE StartRefused
  BY <1>7, StartRefusedTx
<1>8. CASE TransmitByte
  BY <1>8, TransmitByteTx
<1>9. CASE onSendDone
  BY <1>9, SendDoneTx
<1>10. CASE Receive
  <2>1. PICK n \in ChunkSizes : onReceiveData(n)
    BY <1>10 DEF Receive
  <2>2. UNCHANGED tx_vars /\ main_pc' = main_pc
    BY <2>1 DEF onReceiveData, Arrived
  <2> QED
    BY <2>2, TxSame
<1>11. ASSUME NEW m \in PeerMessages, PeerSend(m) PROVE TxInv'
  BY <1>11, TxSame DEF PeerSend
<1> QED
  BY <1>1, <1>2, <1>3, <1>4, <1>5, <1>6, <1>7, <1>8, <1>9, <1>10, <1>11 DEF Next

LEMMA RxNext == RxInv /\ [Next]_vars => RxInv'
<1> SUFFICES ASSUME RxInv, [Next]_vars PROVE RxInv'
  OBVIOUS
<1>0. /\ callback \in {"none", "success", "fail"} /\ "none" \in {"none", "success", "fail"}
      /\ main_pc # "rx" => len = 0 /\ comm_rx = << >>
  BY DEF RxInv, RxTypeOK, BatchDecoded
<1>1. CASE UNCHANGED vars
  BY <1>0, <1>1, RxSame DEF vars
<1>2. ASSUME NEW m \in Messages, comm_manager_send_data(m) PROVE RxInv'
  BY <1>0, <1>2, RxSame DEF comm_manager_send_data, Queue
<1>3. CASE TxIdleFlag
  BY <1>0, <1>3, RxSame DEF TxIdleFlag, TxIdleUnchanged
<1>4. CASE TxIdleQueue
  BY <1>0, <1>4, RxSame DEF TxIdleQueue, TxIdleUnchanged
<1>5. CASE comm_control
  <2>1. CASE CheckDrops
    BY <1>0, <2>1, RxSame DEF CheckDrops
  <2>2. CASE ReportDrops
    BY <2>2, ReportDropsRx
  <2>3. CASE StartPop
    BY <2>3, StartPopRx
  <2>4. CASE PopByte
    BY <2>4, PopByteRx
  <2>5. CASE DecodeByte
    BY <2>5, DecodeByteRx
  <2>6. CASE DecodeEnd
    BY <1>0, <2>6, RxSame DEF DecodeEnd
  <2>7. CASE NothingToStart
    BY <1>0, <2>7, RxSame DEF NothingToStart
  <2>8. CASE PeekChunk
    BY <1>0, <2>8, RxSame DEF PeekChunk, Peek
  <2>9. CASE DiscardChunk
    BY <1>0, <2>9, RxSame DEF DiscardChunk, Unqueue
  <2>10. CASE StartFailed
    BY <1>0, <2>10, RxSame DEF StartFailed
  <2> QED
    BY <1>5, <2>1, <2>2, <2>3, <2>4, <2>5, <2>6, <2>7, <2>8, <2>9, <2>10 DEF comm_control
<1>6. CASE StartAccepted
  BY <1>0, <1>6, RxSame DEF StartAccepted
<1>7. CASE StartRefused
  BY <1>0, <1>7, RxSame DEF StartRefused
<1>8. CASE TransmitByte
  BY <1>0, <1>8, RxSame DEF TransmitByte
<1>9. CASE onSendDone
  BY <1>0, <1>9, RxSame DEF onSendDone
<1>10. CASE Receive
  BY <1>10, ReceiveRx DEF Receive
<1>11. ASSUME NEW m \in PeerMessages, PeerSend(m) PROVE RxInv'
  BY <1>11, PeerSendRx
<1> QED
  BY <1>1, <1>2, <1>3, <1>4, <1>5, <1>6, <1>7, <1>8, <1>9, <1>10, <1>11 DEF Next

\* The invariant of the two directions holds in every reachable state, for
\* every size of the queues, of the batch, of the chunks and of the payloads.
THEOREM HandleInv == Spec => [](TxInv /\ RxInv)
BY TxInit, RxInit, TxNext, RxNext, PTL DEF Spec

-----------------------------------------------------------------------------
(* The properties.                                                         *)

\* What comm_manager_send_data has queued is handed to the transport in order
\* and once, whatever start_send refuses and wherever chunks cut the frames.
THEOREM HandleQueuedOnce == Spec => []QueuedOnce
<1>1. TxInv /\ RxInv => QueuedOnce
  BY DEF TxInv, RxInv, QueuedOnce, HandleTypeOK
<1> QED
  BY <1>1, HandleInv, PTL

\* The transport shifts out exactly the bytes it has accepted: comm_control
\* writes nothing to the active buffer while a transfer reads it.
THEOREM HandleWireIsHanded == Spec => []WireIsHanded
<1>1. TxInv => WireIsHanded
  BY DEF TxInv
<1> QED
  BY <1>1, HandleInv, PTL

\* The flag is true exactly during a hand-over or a transfer, although
\* onSendDone may run before start_send has returned.
THEOREM HandleBusyTracksTransfer == Spec => []BusyTracksTransfer
<1>1. TxInv => BusyTracksTransfer
  BY DEF TxInv
<1> QED
  BY <1>1, HandleInv, PTL

\* comm_manager_tx_idle tells the truth although it reads the flag and the
\* queue at two moments.
THEOREM HandleIdleIsTrue == Spec => []IdleIsTrue
<1>1. ASSUME TxInv, idle PROVE ~InFlight /\ wire = Frames(sent)
  <2>1. /\ ~InFlight /\ comm_tx_queue = << >>
        /\ wire \o Unshifted = handed /\ handed \o Remaining = Frames(sent)
    BY <1>1 DEF TxInv, RestBetweenSteps, WireIsHanded
  <2>2. /\ wire \in Seq(Byte) /\ handed \in Seq(Byte)
        /\ transfer_len \in Nat /\ shifted \in 0 .. transfer_len
    BY HandleFacts, <1>1 DEF TxInv, TxTypeOK
  <2>3. Unshifted = << >>
    <3>1. transfer_len = 0 /\ shifted = 0
      BY <2>1, <2>2 DEF InFlight
    <3>2. 1 .. transfer_len - shifted = {}
      BY <3>1
    <3> QED
      BY <3>2 DEF Unshifted
  <2>4. Len(<< >>) = 0 /\ SubSeq(<< >>, 1, 0) = << >>
    BY SubSeqEmpty
  <2>5. main_pc # "discard"
    BY <1>1, <2>1, <2>4 DEF TxInv, ChunkHeld
  <2>6. Remaining = << >>
    BY <2>1, <2>4, <2>5 DEF Remaining
  <2>7. wire \o << >> = wire /\ handed \o << >> = handed
    BY <2>2, ConcatEmptySeq
  <2> QED
    BY <2>1, <2>3, <2>6, <2>7
<1>2. TxInv => IdleIsTrue
  BY <1>1 DEF IdleIsTrue
<1> QED
  BY <1>2, HandleInv, PTL

\* No byte that was received is lost between onReceiveData and the decoder
\* but with the whole of its chunk.
THEOREM HandleWholeChunks == Spec => []WholeChunks
<1>1. RxInv => WholeChunks
  BY DEF RxInv
<1> QED
  BY <1>1, HandleInv, PTL

\* Without drops the peer's payloads are delivered in order, and all of them
\* once nothing is left to decode.
LEMMA InOrder == RxInv => PeerInOrder
<1> SUFFICES ASSUME RxInv, drops = 0
             PROVE  /\ IsPrefix(delivered, peer_sent)
                    /\ line \o comm_rx_queue \o comm_rx = << >> => delivered = peer_sent
  BY DEF PeerInOrder
<1>1. /\ Len(delivered) <= Len(peer_sent)
      /\ delivered = SubSeq(peer_sent, 1, Len(delivered))
      /\ ToCome = Frames(Undelivered)
      /\ locked # << >> => /\ Len(delivered) < Len(peer_sent)
                          /\ Len(locked) < Len(frame(peer_sent[Len(delivered) + 1]))
  BY DEF RxInv, NothingMissed
<1>2. /\ comm_rx_queue \in Seq(Byte) /\ comm_rx \in Seq(Byte) /\ line \in Seq(Byte)
      /\ locked \in Seq(Byte) /\ peer_sent \in Seq(PeerMessages)
      /\ delivered \in Seq(Seq(Byte))
  BY DEF RxInv, RxTypeOK, locked, PackerTypeOK
<1>3. PICK n \in 0 .. Len(peer_sent) : n = Len(delivered)
  <2>1. Len(delivered) \in Nat /\ Len(peer_sent) \in Nat /\ Len(delivered) <= Len(peer_sent)
    BY <1>1, <1>2, LenProperties
  <2> QED
    BY <2>1
<1>4. /\ peer_sent \in Seq(Packable) /\ Undelivered \in Seq(Packable)
      /\ Len(peer_sent) \in Nat /\ Len(Undelivered) = Len(peer_sent) - n
      /\ \A i \in 1 .. Len(Undelivered) : Undelivered[i] = peer_sent[n + i]
  BY <1>2, <1>3, PeerFacts
<1>5. IsPrefix(delivered, peer_sent)
  <2>1. SubSeq(delivered, 1, Len(delivered)) = delivered
    BY <1>2, SubSeqFull
  <2> QED
    BY <1>1, <2>1 DEF IsPrefix
<1>6. ASSUME line \o comm_rx_queue \o comm_rx = << >> PROVE delivered = peer_sent
  <2>1. line = << >> /\ comm_rx_queue = << >> /\ comm_rx = << >>
    <3>1. line \o comm_rx_queue \in Seq(Byte) /\ Len(line \o comm_rx_queue) = Len(line) + Len(comm_rx_queue)
      BY <1>2, ConcatProperties
    <3>2. Len(line \o comm_rx_queue \o comm_rx) = Len(line \o comm_rx_queue) + Len(comm_rx)
      BY <1>2, <3>1, ConcatProperties
    <3>3. Len(line \o comm_rx_queue \o comm_rx) = 0
      BY <1>6
    <3>4. Len(line) \in Nat /\ Len(comm_rx_queue) \in Nat /\ Len(comm_rx) \in Nat
      BY <1>2, LenProperties
    <3>5. Len(line) = 0 /\ Len(comm_rx_queue) = 0 /\ Len(comm_rx) = 0
      BY <3>1, <3>2, <3>3, <3>4
    <3> QED
      BY <1>2, <3>5, EmptySeq
  <2>2. ToCome = locked
    <3>1. << >> \o << >> = << >> /\ locked \o << >> = locked
      BY <1>2, ConcatEmptySeq
    <3> QED
      BY <2>1, <3>1 DEF ToCome
  <2>3. Len(Undelivered) = 0
    <3> SUFFICES ASSUME Len(Undelivered) # 0 PROVE FALSE
      OBVIOUS
    <3>1. Len(Undelivered) > 0 /\ 1 \in 1 .. Len(Undelivered)
      BY <1>4, LenProperties
    <3>2. PICK m \in Packable : m = peer_sent[n + 1] /\ m = Undelivered[1]
      BY <1>4, <3>1, ElementOfSeq
    <3>3. PICK y \in Seq(Byte) : y = Frames(SubSeq(Undelivered, 2, Len(Undelivered)))
      <4>1. SubSeq(Undelivered, 1 + 1, Len(Undelivered)) \in Seq(Packable) /\ 1 + 1 = 2
        BY <1>4, <3>1, Behind
      <4> QED
        BY <4>1, FramesType
    <3>4. locked = frame(m) \o y
      BY <1>1, <1>4, <2>2, <3>1, <3>2, <3>3, FramesFirst
    <3>5. frame(m) \in Seq(Byte) /\ Len(frame(m)) \in Nat /\ Len(frame(m)) > 0 /\ Len(y) \in Nat
      BY PackableFrame, LenProperties
    <3>6. Len(locked) = Len(frame(m)) + Len(y)
      BY <3>4, <3>5, ConcatProperties
    <3>7. locked # << >>
      BY <3>5, <3>6
    <3>8. Len(locked) < Len(frame(m))
      BY <1>1, <1>3, <3>2, <3>7
    <3> QED
      BY <3>5, <3>6, <3>8
  <2>4. n = Len(peer_sent)
    BY <1>3, <1>4, <2>3
  <2>5. SubSeq(peer_sent, 1, Len(peer_sent)) = peer_sent
    BY <1>2, SubSeqFull
  <2> QED
    BY <1>1, <1>3, <2>4, <2>5
<1> QED
  BY <1>5, <1>6

\* The same of every reachable state.
THEOREM HandlePeerInOrder == Spec => []PeerInOrder
BY HandleInv, InOrder, PTL

=============================================================================
