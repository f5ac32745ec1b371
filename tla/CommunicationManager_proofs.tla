---------------------- MODULE CommunicationManager_proofs ---------------------
(***************************************************************************)
(* Proofs about Protocol and CommunicationManager.                         *)
(*                                                                         *)
(* Protocol, for every byte width, CRC function, length limit and receive  *)
(* buffer: type correctness, writes in bounds, and that the parser accepts *)
(* exactly the frames that protocol_pack makes and that fit the buffer.    *)
(*                                                                         *)
(* CommunicationManager, for every size of the queues, of the chunks and   *)
(* of the payloads, and every interleaving of the main loop with the two   *)
(* interrupts: the TX queue stays framed, a frame in flight intact,        *)
(* tx_busy and what comm_send returns true, the echo is delivered in       *)
(* order, and the manager and the line implement Link.                     *)
(***************************************************************************)
EXTENDS CommunicationManager, SequenceLemmas, FiniteSetTheorems

-----------------------------------------------------------------------------
(* Bytes and words.                                                        *)

\* Splitting a word into its two bytes and joining them again.
LEMMA WordSplit ==
  ASSUME NEW w \in Word
  PROVE  low(w) \in Byte /\ high(w) \in Byte /\ w = low(w) + B * high(w)
BY ByteAssumption DEF Byte, Word, low, high

LEMMA WordJoin ==
  ASSUME NEW lo \in Byte, NEW hi \in Byte
  PROVE  /\ lo + B * hi \in Word
         /\ low(lo + B * hi) = lo /\ high(lo + B * hi) = hi
BY ByteAssumption DEF Byte, Word, low, high

\* What packable says once the uint16_t sum is known not to wrap.
LEMMA PackableIs ==
  ASSUME NEW len \in Nat
  PROVE  packable(len, OutputSize) <=>
           len <= PROTOCOL_MAX_PAYLOAD /\ len + PROTOCOL_FRAME_OVERHEAD <= OutputSize
<1>1. ASSUME len <= PROTOCOL_MAX_PAYLOAD
      PROVE  (len + PROTOCOL_FRAME_OVERHEAD) % (B * B) = len + PROTOCOL_FRAME_OVERHEAD
  <2>1. B * B \in Nat \ {0}
    BY ByteAssumption
  <2> DEFINE W == B * B
  <2>2. W \in Nat \ {0} /\ len + 6 \in 0 .. W - 1
    BY <1>1, <2>1, SizeAssumption DEF PROTOCOL_FRAME_OVERHEAD
  <2> HIDE DEF W
  <2>3. (len + 6) % W = len + 6
    BY <2>2
  <2> QED
    BY <2>3 DEF W, PROTOCOL_FRAME_OVERHEAD
<1> QED
  BY <1>1 DEF packable

LEMMA SizeFacts ==
  /\ OutputSize \in Nat /\ OutputSize >= 6 /\ OutputSize <= B * B - 1
  /\ PROTOCOL_MAX_PAYLOAD \in Nat
  /\ B \in Nat /\ B > 1 /\ B * B \in Nat
  /\ 0 \in Byte /\ 0 \in Word /\ 1 \in Word /\ B * B - 1 \in Word
  /\ Byte \subseteq Word
  /\ \A n \in 0 .. OutputSize : n \in Word
<1>1. B * B \in Nat /\ B * B > B
  BY ByteAssumption
<1> QED
  BY <1>1, ByteAssumption, SizeAssumption DEF Byte, Word, PROTOCOL_FRAME_OVERHEAD

-----------------------------------------------------------------------------
(* Sequences of bytes and their CRC.                                       *)

LEMMA InBytesUpTo ==
  ASSUME NEW s \in Seq(Byte), NEW n \in Int, Len(s) <= n
  PROVE  s \in BytesUpTo(n)
<1>1. s \in [1 .. Len(s) -> Byte] /\ Len(s) \in 0 .. n
  BY LenProperties
<1> QED
  BY <1>1 DEF BytesUpTo

LEMMA BytesUpToSeq ==
  ASSUME NEW n \in Int, NEW s \in BytesUpTo(n)
  PROVE  s \in Seq(Byte) /\ Len(s) \in 0 .. n
<1>1. PICK k \in 0 .. n : s \in [1 .. k -> Byte]
  BY DEF BytesUpTo
<1> QED
  BY <1>1

\* The bytes of c from the second to the m-th.
LEMMA FromSecond ==
  ASSUME NEW c \in Seq(Byte), NEW m \in 1 .. Len(c)
  PROVE  /\ SubSeq(c, 2, m) \in Seq(Byte)
         /\ Len(SubSeq(c, 2, m)) = m - 1
         /\ \A i \in 1 .. m - 1 : SubSeq(c, 2, m)[i] = c[i + 1]
<1>1. Len(c) \in Nat /\ m \in Int /\ 2 \in Int
  OBVIOUS
<1>2. \A i \in 2 .. m : c[i] \in Byte
  <2> SUFFICES ASSUME NEW i \in 2 .. m PROVE c[i] \in Byte
    OBVIOUS
  <2>1. i \in 1 .. Len(c)
    BY <1>1
  <2> QED
    BY <2>1, ElementOfSeq
<1>3. /\ SubSeq(c, 2, m) \in Seq(Byte)
      /\ Len(SubSeq(c, 2, m)) = IF 2 <= m THEN m - 2 + 1 ELSE 0
      /\ \A i \in 1 .. m - 2 + 1 : SubSeq(c, 2, m)[i] = c[2 + i - 1]
  BY <1>1, <1>2, SubSeqProperties
<1>4. m - 2 + 1 = m - 1 /\ (IF 2 <= m THEN m - 2 + 1 ELSE 0) = m - 1
  BY <1>1
<1>5. \A i \in 1 .. m - 1 : 2 + i - 1 = i + 1
  BY <1>1
<1> QED
  BY <1>3, <1>4, <1>5

\* Where the bytes of a concatenation come from.
LEMMA ConcatAt ==
  ASSUME NEW s \in Seq(Byte), NEW t \in Seq(Byte)
  PROVE  /\ s \o t \in Seq(Byte) /\ Len(s \o t) = Len(s) + Len(t)
         /\ \A i \in 1 .. Len(s) : (s \o t)[i] = s[i]
         /\ \A i \in 1 .. Len(t) : (s \o t)[Len(s) + i] = t[i]
<1>1. /\ s \o t \in Seq(Byte) /\ Len(s \o t) = Len(s) + Len(t)
      /\ \A i \in 1 .. Len(s) + Len(t) : (s \o t)[i] = IF i <= Len(s) THEN s[i] ELSE t[i - Len(s)]
  BY ConcatProperties
<1>2. Len(s) \in Nat /\ Len(t) \in Nat
  OBVIOUS
<1>3. ASSUME NEW i \in 1 .. Len(t) PROVE (s \o t)[Len(s) + i] = t[i]
  <2>1. Len(s) + i \in 1 .. Len(s) + Len(t) /\ ~(Len(s) + i <= Len(s)) /\ Len(s) + i - Len(s) = i
    BY <1>2
  <2> QED
    BY <1>1, <2>1
<1>4. ASSUME NEW i \in 1 .. Len(s) PROVE (s \o t)[i] = s[i]
  <2>1. i \in 1 .. Len(s) + Len(t) /\ i <= Len(s)
    BY <1>2
  <2> QED
    BY <1>1, <2>1
<1> QED
  BY <1>1, <1>3, <1>4

\* Dropping the first byte commutes with appending one more.
LEMMA TailAppend ==
  ASSUME NEW c \in Seq(Byte), Len(c) >= 1, NEW b \in Byte
  PROVE  SubSeq(Append(c, b), 2, Len(c) + 1) = Append(SubSeq(c, 2, Len(c)), b)
<1> DEFINE s == SubSeq(c, 2, Len(c))
           t == SubSeq(Append(c, b), 2, Len(c) + 1)
           u == Append(s, b)
<1>1. Len(c) \in Nat /\ Len(c) \in 1 .. Len(c)
  OBVIOUS
<1>2. /\ s \in Seq(Byte) /\ Len(s) = Len(c) - 1
      /\ \A i \in 1 .. Len(c) - 1 : s[i] = c[i + 1]
  BY <1>1, FromSecond
<1>3. /\ Append(c, b) \in Seq(Byte) /\ Len(Append(c, b)) = Len(c) + 1
      /\ Append(c, b)[Len(c) + 1] = b
      /\ \A i \in 1 .. Len(c) : Append(c, b)[i] = c[i]
  BY AppendProperties
<1>4. /\ t \in Seq(Byte) /\ Len(t) = Len(c) + 1 - 1
      /\ \A i \in 1 .. Len(c) + 1 - 1 : t[i] = Append(c, b)[i + 1]
  BY <1>1, <1>3, FromSecond
<1>5. /\ u \in Seq(Byte) /\ Len(u) = Len(s) + 1
      /\ u[Len(s) + 1] = b
      /\ \A i \in 1 .. Len(s) : u[i] = s[i]
  BY <1>2, AppendProperties
<1> HIDE DEF s, t, u
<1>6. ASSUME NEW i \in 1 .. Len(c) PROVE t[i] = u[i]
  <2>1. t[i] = Append(c, b)[i + 1]
    BY <1>1, <1>4
  <2>2. CASE i = Len(c)
    BY <1>1, <1>2, <1>3, <1>5, <2>1, <2>2
  <2>3. CASE i # Len(c)
    <3>1. i \in 1 .. Len(c) - 1 /\ i + 1 \in 1 .. Len(c) /\ i \in 1 .. Len(s)
      BY <1>1, <1>2, <2>3
    <3>2. Append(c, b)[i + 1] = c[i + 1]
      BY <1>3, <3>1
    <3> QED
      BY <1>2, <1>5, <2>1, <3>1, <3>2
  <2> QED
    BY <2>2, <2>3
<1>7. Len(t) = Len(c) /\ Len(u) = Len(c)
  BY <1>1, <1>2, <1>4, <1>5
<1>8. t = u
  BY <1>4, <1>5, <1>6, <1>7, SeqEqual
<1> QED
  BY <1>8 DEF s, t, u

\* Appending does not change what was there.
LEMMA TailKept ==
  ASSUME NEW c \in Seq(Byte), NEW b \in Byte, NEW m \in 1 .. Len(c)
  PROVE  SubSeq(Append(c, b), 2, m) = SubSeq(c, 2, m)
<1>1. /\ Append(c, b) \in Seq(Byte) /\ Len(Append(c, b)) = Len(c) + 1
      /\ \A i \in 1 .. Len(c) : Append(c, b)[i] = c[i]
  BY AppendProperties
<1>2. m \in 1 .. Len(Append(c, b)) /\ \A i \in 1 .. m - 1 : i + 1 \in 1 .. Len(c)
  BY <1>1
<1>3. /\ SubSeq(c, 2, m) \in Seq(Byte) /\ Len(SubSeq(c, 2, m)) = m - 1
      /\ \A i \in 1 .. m - 1 : SubSeq(c, 2, m)[i] = c[i + 1]
  BY FromSecond
<1>4. /\ SubSeq(Append(c, b), 2, m) \in Seq(Byte) /\ Len(SubSeq(Append(c, b), 2, m)) = m - 1
      /\ \A i \in 1 .. m - 1 : SubSeq(Append(c, b), 2, m)[i] = Append(c, b)[i + 1]
  BY <1>1, <1>2, FromSecond
<1> QED
  BY <1>1, <1>2, <1>3, <1>4, SeqEqual

\* One more byte fed is one more byte covered, as long as CrcAssumption speaks.
LEMMA CrcStep ==
  ASSUME NEW c \in Seq(Byte), Len(c) >= 1, Len(c) <= OutputSize - 4, NEW b \in Byte
  PROVE  crc16_mcrf4xx[SubSeq(Append(c, b), 2, Len(c) + 1)]
           = crc16_mcrf4xx_update[<<crc16_mcrf4xx[SubSeq(c, 2, Len(c))], b>>]
<1>1. Len(c) \in 1 .. Len(c) /\ Len(c) \in Nat /\ OutputSize \in Nat
  BY SizeFacts
<1>2. SubSeq(c, 2, Len(c)) \in Seq(Byte) /\ Len(SubSeq(c, 2, Len(c))) = Len(c) - 1
  BY <1>1, FromSecond
<1> DEFINE n == CrcLength - 1
<1>3. n \in Int /\ Len(c) - 1 <= n
  BY <1>1, SizeAssumption
<1> HIDE DEF n
<1>4. SubSeq(c, 2, Len(c)) \in BytesUpTo(n)
  BY <1>2, <1>3, InBytesUpTo
<1> QED
  BY <1>4, TailAppend, CrcAssumption DEF n

\* The incremental CRC stays a word.
LEMMA CrcType ==
  ASSUME NEW crc \in Word, NEW b \in Byte
  PROVE  crc16_mcrf4xx_update[<<crc, b>>] \in Word
BY CrcAssumption

-----------------------------------------------------------------------------
(* The shape of a frame.                                                   *)

\* Where protocol_pack puts each byte.
LEMMA FrameLayout ==
  ASSUME NEW p \in Seq(Byte), Len(p) <= PROTOCOL_MAX_PAYLOAD, Len(p) + 2 <= CrcLength
  PROVE  /\ frame(p) \in Seq(Byte) /\ Len(frame(p)) = Len(p) + 6
         /\ frame(p)[1] = PROTOCOL_START_BYTE
         /\ frame(p)[2] = low(Len(p)) /\ frame(p)[3] = high(Len(p))
         /\ \A i \in 1 .. Len(p) : frame(p)[3 + i] = p[i]
         /\ SubSeq(frame(p), 2, 3 + Len(p)) = covered(p)
         /\ crc16_mcrf4xx[covered(p)] \in Word
         /\ frame(p)[4 + Len(p)] = low(crc16_mcrf4xx[covered(p)])
         /\ frame(p)[5 + Len(p)] = high(crc16_mcrf4xx[covered(p)])
         /\ frame(p)[6 + Len(p)] = PROTOCOL_STOP_BYTE
<1> DEFINE n == Len(p)
           s == <<PROTOCOL_START_BYTE>>
           l == <<low(n), high(n)>>
           c == l \o p
           w == crc16_mcrf4xx[c]
           e == <<low(w), high(w), PROTOCOL_STOP_BYTE>>
<1>1. n \in Nat /\ n + 2 <= CrcLength /\ n \in Word
  <2>1. n \in Nat
    OBVIOUS
  <2> QED
    BY <2>1, SizeAssumption, SizeFacts DEF PROTOCOL_FRAME_OVERHEAD, Word
<1>2. low(n) \in Byte /\ high(n) \in Byte
  BY <1>1, WordSplit
<1>3. l \in Seq(Byte) /\ Len(l) = 2 /\ l[1] = low(n) /\ l[2] = high(n)
  BY <1>2
<1> HIDE DEF n, l
<1>4. /\ c \in Seq(Byte) /\ Len(c) = 2 + n
      /\ \A i \in 1 .. 2 : c[i] = l[i]
      /\ \A i \in 1 .. n : c[2 + i] = p[i]
  <2>1. /\ c \in Seq(Byte) /\ Len(c) = Len(l) + Len(p)
        /\ \A i \in 1 .. Len(l) : c[i] = l[i]
        /\ \A i \in 1 .. Len(p) : c[Len(l) + i] = p[i]
    BY <1>3, ConcatAt
  <2> QED
    BY <1>3, <2>1 DEF n
<1> HIDE DEF c
<1>5. c \in BytesUpTo(CrcLength)
  BY <1>1, <1>4, InBytesUpTo, SizeAssumption
<1>6. w \in Word
  BY <1>5, CrcAssumption
<1> HIDE DEF w
<1>7. low(w) \in Byte /\ high(w) \in Byte
  BY <1>6, WordSplit
<1>8. e \in Seq(Byte) /\ Len(e) = 3 /\ e[1] = low(w) /\ e[2] = high(w) /\ e[3] = PROTOCOL_STOP_BYTE
  BY <1>7, ByteAssumption
<1>9. s \in Seq(Byte) /\ Len(s) = 1 /\ s[1] = PROTOCOL_START_BYTE
  BY ByteAssumption
<1> HIDE DEF s, e
<1>10. /\ s \o c \in Seq(Byte) /\ Len(s \o c) = 1 + (2 + n)
       /\ \A i \in 1 .. 1 : (s \o c)[i] = s[i]
       /\ \A i \in 1 .. 2 + n : (s \o c)[1 + i] = c[i]
  <2>1. /\ s \o c \in Seq(Byte) /\ Len(s \o c) = Len(s) + Len(c)
        /\ \A i \in 1 .. Len(s) : (s \o c)[i] = s[i]
        /\ \A i \in 1 .. Len(c) : (s \o c)[Len(s) + i] = c[i]
    BY <1>4, <1>9, ConcatAt
  <2> QED
    BY <1>4, <1>9, <2>1
<1>11. (s \o c) \in Seq(Byte) /\ 1 + (2 + n) \in Nat
  BY <1>1, <1>10
<1>12. /\ (s \o c) \o e \in Seq(Byte) /\ Len((s \o c) \o e) = (1 + (2 + n)) + 3
       /\ \A i \in 1 .. 1 + (2 + n) : ((s \o c) \o e)[i] = (s \o c)[i]
       /\ \A i \in 1 .. 3 : ((s \o c) \o e)[(1 + (2 + n)) + i] = e[i]
  <2> DEFINE sc == s \o c
  <2>1. sc \in Seq(Byte)
    BY <1>10
  <2>2. Len(sc) = 1 + (2 + n)
    BY <1>10
  <2> HIDE DEF sc
  <2>3. /\ sc \o e \in Seq(Byte) /\ Len(sc \o e) = Len(sc) + Len(e)
        /\ \A i \in 1 .. Len(sc) : (sc \o e)[i] = sc[i]
        /\ \A i \in 1 .. Len(e) : (sc \o e)[Len(sc) + i] = e[i]
    BY <1>8, <2>1, ConcatAt
  <2>4. /\ sc \o e \in Seq(Byte) /\ Len(sc \o e) = (1 + (2 + n)) + 3
        /\ \A i \in 1 .. 1 + (2 + n) : (sc \o e)[i] = sc[i]
        /\ \A i \in 1 .. 3 : (sc \o e)[(1 + (2 + n)) + i] = e[i]
    BY <1>8, <2>2, <2>3
  <2> QED
    BY <2>4 DEF sc
<1>13. frame(p) = (s \o c) \o e /\ covered(p) = c
  <2>1. covered(p) = c
    BY DEF covered, c, l, n
  <2>2. trailer(crc16_mcrf4xx[covered(p)]) = e
    BY <2>1 DEF trailer, e, w
  <2>3. (s \o c) \o e = s \o c \o e
    OBVIOUS
  <2>4. frame(p) = s \o covered(p) \o trailer(crc16_mcrf4xx[covered(p)])
    BY DEF frame, s
  <2> QED
    BY <2>1, <2>2, <2>3, <2>4
<1> DEFINE f == frame(p)
<1> HIDE DEF f
<1>14. /\ f \in Seq(Byte) /\ Len(f) = n + 6
       /\ f[1] = s[1]
       /\ \A i \in 1 .. 2 + n : f[1 + i] = c[i]
       /\ \A i \in 1 .. 3 : f[3 + n + i] = e[i]
  <2>1. f = (s \o c) \o e
    BY <1>13 DEF f
  <2>2. f[1] = s[1]
    BY <1>1, <1>10, <1>12, <2>1
  <2>3. ASSUME NEW i \in 1 .. 2 + n PROVE f[1 + i] = c[i]
    <3>1. 1 + i \in 1 .. 1 + (2 + n)
      BY <1>1
    <3> QED
      BY <1>10, <1>12, <2>1, <3>1
  <2>4. ASSUME NEW i \in 1 .. 3 PROVE f[3 + n + i] = e[i]
    <3>1. (1 + (2 + n)) + i = 3 + n + i
      BY <1>1
    <3> QED
      BY <1>12, <2>1, <3>1
  <2>5. (1 + (2 + n)) + 3 = n + 6
    BY <1>1
  <2> QED
    BY <1>12, <2>1, <2>2, <2>3, <2>4, <2>5
<1>15. /\ f[2] = l[1] /\ f[3] = l[2]
       /\ \A i \in 1 .. n : f[3 + i] = p[i]
  <2>1. 1 \in 1 .. 2 + n /\ 2 \in 1 .. 2 + n
    BY <1>1
  <2>2. f[1 + 1] = c[1] /\ f[1 + 2] = c[2]
    BY <1>14, <2>1
  <2>3. ASSUME NEW i \in 1 .. n PROVE f[3 + i] = p[i]
    <3>1. 2 + i \in 1 .. 2 + n /\ 1 + (2 + i) = 3 + i
      BY <1>1
    <3> QED
      BY <1>4, <1>14, <3>1
  <2> QED
    BY <1>4, <2>2, <2>3
<1>16. f[4 + n] = e[1] /\ f[5 + n] = e[2] /\ f[6 + n] = e[3]
  <2>1. 3 + n + 1 = 4 + n /\ 3 + n + 2 = 5 + n /\ 3 + n + 3 = 6 + n
    BY <1>1
  <2> QED
    BY <1>14, <2>1
<1>17. SubSeq(f, 2, 3 + n) = c
  <2> DEFINE m == 3 + n
             g == SubSeq(f, 2, m)
  <2>1. m \in 1 .. Len(f) /\ m - 1 = 2 + n /\ \A i \in 1 .. 2 + n : i + 1 = 1 + i
    BY <1>1, <1>14
  <2> HIDE DEF m
  <2>2. /\ g \in Seq(Byte) /\ Len(g) = m - 1
        /\ \A i \in 1 .. m - 1 : g[i] = f[i + 1]
    BY <1>14, <2>1, FromSecond
  <2> HIDE DEF g
  <2>3. Len(g) = Len(c)
    BY <1>4, <2>1, <2>2
  <2>4. ASSUME NEW i \in 1 .. Len(g) PROVE g[i] = c[i]
    <3>1. i \in 1 .. m - 1 /\ i \in 1 .. 2 + n /\ i + 1 = 1 + i
      BY <1>1, <2>1, <2>2
    <3>2. g[i] = f[i + 1] /\ f[1 + i] = c[i]
      BY <1>14, <2>2, <3>1
    <3> QED
      BY <3>1, <3>2
  <2>5. g = c
    BY <1>4, <2>2, <2>3, <2>4, SeqEqual
  <2> QED
    BY <2>5 DEF g, m
<1> QED
  BY <1>3, <1>6, <1>8, <1>9, <1>13, <1>14, <1>15, <1>16, <1>17 DEF n, w, f

\* The same of a payload that fits the receive buffer.
LEMMA FrameShape ==
  ASSUME NEW p \in Seq(Byte), packable(Len(p), OutputSize)
  PROVE  /\ frame(p) \in Seq(Byte) /\ Len(frame(p)) = Len(p) + 6
         /\ frame(p)[1] = PROTOCOL_START_BYTE
         /\ frame(p)[2] = low(Len(p)) /\ frame(p)[3] = high(Len(p))
         /\ \A i \in 1 .. Len(p) : frame(p)[3 + i] = p[i]
         /\ SubSeq(frame(p), 2, 3 + Len(p)) = covered(p)
         /\ crc16_mcrf4xx[covered(p)] \in Word
         /\ frame(p)[4 + Len(p)] = low(crc16_mcrf4xx[covered(p)])
         /\ frame(p)[5 + Len(p)] = high(crc16_mcrf4xx[covered(p)])
         /\ frame(p)[6 + Len(p)] = PROTOCOL_STOP_BYTE
<1>1. Len(p) \in Nat
  OBVIOUS
<1>2. Len(p) <= PROTOCOL_MAX_PAYLOAD /\ Len(p) + 6 <= OutputSize
  BY <1>1, PackableIs DEF PROTOCOL_FRAME_OVERHEAD
<1>3. Len(p) + 2 <= CrcLength
  BY <1>1, <1>2, SizeFacts, SizeAssumption
<1> QED
  BY <1>2, <1>3, FrameLayout

-----------------------------------------------------------------------------
(* The inductive invariant.                                                *)

LEMMA InitLock == ParserInit => ParserTypeOK /\ LockInv
<1> SUFFICES ASSUME ParserInit PROVE ParserTypeOK /\ LockInv
  OBVIOUS
<1>1. ParserTypeOK
  BY SizeFacts DEF ParserInit, protocol_reset, ParserTypeOK
<1>2. LockInv
  BY SizeFacts DEF ParserInit, protocol_reset, LockInv
<1> QED
  BY <1>1, <1>2

\* What appending the byte fed does to the candidate.
LEMMA Appended ==
  ASSUME ParserTypeOK, NEW byte \in Byte, candidate' = Append(candidate, byte)
  PROVE  /\ Len(candidate) \in Nat
         /\ candidate' \in Seq(Byte) /\ Len(candidate') = Len(candidate) + 1
         /\ candidate' # << >>
         /\ candidate'[Len(candidate) + 1] = byte
         /\ \A i \in 1 .. Len(candidate) : candidate'[i] = candidate[i]
BY AppendProperties DEF ParserTypeOK

\* A byte that is covered by the CRC keeps the running CRC right.
LEMMA CrcExtends ==
  ASSUME ParserTypeOK, NEW byte \in Byte, candidate' = Append(candidate, byte),
         Len(candidate) \in 1 .. OutputSize - 4, CrcUpTo(Len(candidate)),
         unpack_crc' = crc16_mcrf4xx_update[<<unpack_crc, byte>>]
  PROVE  unpack_crc' = crc16_mcrf4xx[SubSeq(candidate', 2, Len(candidate'))]
<1>1. candidate \in Seq(Byte) /\ Len(candidate) >= 1 /\ Len(candidate) <= OutputSize - 4
  BY SizeFacts DEF ParserTypeOK
<1>2. crc16_mcrf4xx[SubSeq(candidate', 2, Len(candidate) + 1)]
        = crc16_mcrf4xx_update[<<crc16_mcrf4xx[SubSeq(candidate, 2, Len(candidate))], byte>>]
  BY <1>1, CrcStep
<1> QED
  BY <1>2, Appended DEF CrcUpTo

\* A byte behind the covered ones does not disturb it.
LEMMA CrcStays ==
  ASSUME ParserTypeOK, NEW byte \in Byte, candidate' = Append(candidate, byte),
         NEW m \in 1 .. Len(candidate), CrcUpTo(m), UNCHANGED unpack_crc
  PROVE  unpack_crc' = crc16_mcrf4xx[SubSeq(candidate', 2, m)]
BY TailKept DEF CrcUpTo, ParserTypeOK

\* Once it is read, the length is that of a payload that fits.
LEMMA LengthFacts ==
  ASSUME ParserTypeOK, LengthRead
  PROVE  /\ unpack_length \in Nat
         /\ unpack_length <= PROTOCOL_MAX_PAYLOAD
         /\ unpack_length + 6 <= OutputSize
<1>1. unpack_length \in Nat
  BY SizeFacts DEF ParserTypeOK, Word
<1> QED
  BY <1>1, PackableIs DEF LengthRead, PROTOCOL_FRAME_OVERHEAD

LEMMA WaitStartLock ==
  ASSUME ParserTypeOK, LockInv, NEW byte \in Byte, WaitStart(byte)
  PROVE  ParserTypeOK' /\ LockInv'
<1>1. CASE byte = PROTOCOL_START_BYTE
  <2>1. /\ candidate' = <<byte>> /\ candidate' \in Seq(Byte) /\ candidate' # << >>
        /\ Len(candidate') = 1 /\ candidate'[1] = byte
    <3>1. candidate' = <<byte>>
      BY <1>1 DEF WaitStart
    <3> QED
      BY <3>1
  <2>2. ParserTypeOK'
    BY <1>1, <2>1, SizeFacts DEF WaitStart, ParserTypeOK, Report
  <2>3. SubSeq(candidate', 2, 1) = << >>
    BY SubSeqEmpty
  <2>4. CrcUpTo(1)'
    BY <1>1, <2>3, CrcAssumption DEF WaitStart, CrcUpTo
  <2>5. /\ state' = "READ_LENGTH" /\ outcome' = "pending" /\ unpack_offset' = 0
    BY <1>1 DEF WaitStart, Report
  <2>6. CrcUpTo(Len(candidate))'
    BY <2>1, <2>4 DEF CrcUpTo
  <2>7. Len(candidate') <= OutputSize
    BY <2>1, SizeFacts
  <2> QED
    BY <1>1, <2>1, <2>2, <2>5, <2>6, <2>7 DEF LockInv
<1>2. CASE byte # PROTOCOL_START_BYTE
  <2>1. /\ state' = state /\ unpack_crc' = unpack_crc /\ unpack_offset' = unpack_offset
        /\ unpack_length' = unpack_length /\ output' = output
        /\ state = "WAIT_START" /\ outcome' = "pending" /\ candidate' = << >>
    BY <1>2 DEF WaitStart, Report
  <2>2. candidate' \in Seq(Byte) /\ Len(candidate') = 0
    BY <2>1
  <2>3. ParserTypeOK'
    BY <2>1, <2>2 DEF ParserTypeOK
  <2>4. LockInv'
    BY <2>1, <2>2, SizeFacts DEF LockInv
  <2> QED
    BY <2>3, <2>4
<1> QED
  BY <1>1, <1>2

LEMMA ReadLengthLowLock ==
  ASSUME ParserTypeOK, LockInv, NEW byte \in Byte, ReadLengthLow(byte),
         candidate' = Append(candidate, byte)
  PROVE  ParserTypeOK' /\ LockInv'
<1>1. /\ Len(candidate) = 1 /\ CrcUpTo(Len(candidate)) /\ candidate[1] = PROTOCOL_START_BYTE
      /\ 1 \in 1 .. OutputSize - 4
  BY SizeFacts DEF LockInv, ReadLengthLow
<1>2. /\ state' = "READ_LENGTH" /\ unpack_offset' = 1 /\ unpack_length' = byte
      /\ outcome' = "pending" /\ output' = output
      /\ unpack_crc' = crc16_mcrf4xx_update[<<unpack_crc, byte>>]
  BY DEF ReadLengthLow, Report
<1>3. unpack_crc' = crc16_mcrf4xx[SubSeq(candidate', 2, Len(candidate'))]
  BY <1>1, <1>2, CrcExtends
<1>4. /\ candidate' \in Seq(Byte) /\ Len(candidate') = 2 /\ candidate' # << >>
      /\ candidate'[1] = PROTOCOL_START_BYTE /\ candidate'[2] = byte
  BY <1>1, Appended
<1>5. ParserTypeOK'
  BY <1>2, <1>4, CrcType, SizeFacts DEF ParserTypeOK
<1>6. LockInv'
  BY <1>2, <1>3, <1>4, SizeFacts DEF LockInv, CrcUpTo
<1> QED
  BY <1>5, <1>6

LEMMA ReadLengthHighLock ==
  ASSUME ParserTypeOK, LockInv, NEW byte \in Byte, ReadLengthHigh(byte),
         candidate' = Append(candidate, byte)
  PROVE  ParserTypeOK' /\ LockInv'
<1>1. /\ Len(candidate) = 2 /\ CrcUpTo(Len(candidate)) /\ candidate[1] = PROTOCOL_START_BYTE
      /\ 2 \in 1 .. OutputSize - 4 /\ unpack_length = candidate[2]
  BY SizeFacts DEF LockInv, ReadLengthHigh
<1>2. /\ unpack_offset' = 0 /\ unpack_length' = unpack_length + B * byte /\ output' = output
      /\ unpack_crc' = crc16_mcrf4xx_update[<<unpack_crc, byte>>]
  BY DEF ReadLengthHigh
<1>3. unpack_crc' = crc16_mcrf4xx[SubSeq(candidate', 2, Len(candidate'))]
  BY <1>1, <1>2, CrcExtends
<1>4. /\ candidate' \in Seq(Byte) /\ Len(candidate') = 3 /\ candidate' # << >>
      /\ candidate'[1] = PROTOCOL_START_BYTE /\ candidate'[2] = candidate[2] /\ candidate'[3] = byte
  BY <1>1, Appended
<1>5. unpack_length' \in Word
  <2>1. candidate[2] \in Byte
    BY <1>1, ElementOfSeq DEF ParserTypeOK
  <2> QED
    BY <1>1, <1>2, <2>1, WordJoin
<1>6. CASE ~packable(unpack_length', OutputSize)
  <2>1. state' = "WAIT_START" /\ outcome' = "OVERFLOW"
    BY <1>6 DEF ReadLengthHigh, Fail, Report
  <2>2. ParserTypeOK'
    BY <1>2, <1>4, <1>5, <2>1, CrcType, SizeFacts DEF ParserTypeOK
  <2>3. LockInv'
    BY <1>4, <2>1, SizeFacts DEF LockInv
  <2> QED
    BY <2>2, <2>3
<1>7. CASE packable(unpack_length', OutputSize)
  <2>1. /\ state' = IF unpack_length' = 0 THEN "READ_CRC" ELSE "READ_PAYLOAD"
        /\ outcome' = "pending"
    BY <1>7 DEF ReadLengthHigh, Report
  <2>2. ParserTypeOK'
    BY <1>2, <1>4, <1>5, <2>1, CrcType, SizeFacts DEF ParserTypeOK
  <2>3. LengthRead'
    BY <1>1, <1>2, <1>4, <1>7 DEF LengthRead
  <2>4. PayloadRead(0)'
    BY DEF PayloadRead
  <2>5. CrcUpTo(Len(candidate))'
    BY <1>3 DEF CrcUpTo
  <2>6. CASE unpack_length' = 0
    <3>1. state' = "READ_CRC"
      BY <2>1, <2>6
    <3>2. PayloadRead(unpack_length)'
      BY <2>6 DEF PayloadRead
    <3>3. CrcUpTo(3 + unpack_length)'
      BY <1>4, <2>5, <2>6 DEF CrcUpTo
    <3> QED
      BY <1>2, <1>4, <2>1, <2>2, <2>3, <2>6, <3>1, <3>2, <3>3, SizeFacts DEF LockInv
  <2>7. CASE unpack_length' # 0
    <3>1. state' = "READ_PAYLOAD"
      BY <2>1, <2>7
    <3>2. unpack_length' > 0
      BY <1>5, <2>7, SizeFacts DEF Word
    <3>3. PayloadRead(unpack_offset)'
      BY <1>2 DEF PayloadRead
    <3> QED
      BY <1>2, <1>4, <2>1, <2>2, <2>3, <2>5, <3>1, <3>2, <3>3, SizeFacts DEF LockInv
  <2> QED
    BY <2>6, <2>7
<1> QED
  BY <1>6, <1>7

LEMMA ReadPayloadLock ==
  ASSUME ParserTypeOK, LockInv, NEW byte \in Byte, ReadPayload(byte),
         candidate' = Append(candidate, byte)
  PROVE  ParserTypeOK' /\ LockInv'
<1>1. /\ unpack_offset < unpack_length /\ Len(candidate) = 3 + unpack_offset
      /\ LengthRead /\ PayloadRead(unpack_offset) /\ CrcUpTo(Len(candidate))
      /\ candidate[1] = PROTOCOL_START_BYTE
  BY DEF LockInv, ReadPayload
<1>2. /\ output' = [output EXCEPT ![unpack_offset] = byte]
      /\ unpack_crc' = crc16_mcrf4xx_update[<<unpack_crc, byte>>]
      /\ unpack_length' = unpack_length /\ outcome' = "pending"
  BY DEF ReadPayload, Report
<1>3. /\ unpack_length \in Nat /\ unpack_offset \in Nat /\ OutputSize \in Nat
      /\ unpack_length + 6 <= OutputSize
  BY <1>1, LengthFacts, SizeFacts DEF ParserTypeOK, Word
<1>4. Len(candidate) \in 1 .. OutputSize - 4
  BY <1>1, <1>3
<1>5. unpack_crc' = crc16_mcrf4xx[SubSeq(candidate', 2, Len(candidate'))]
  BY <1>1, <1>2, <1>4, CrcExtends
<1>6. /\ candidate' \in Seq(Byte) /\ Len(candidate') = 3 + (unpack_offset + 1) /\ candidate' # << >>
      /\ candidate'[3 + (unpack_offset + 1)] = byte
      /\ \A i \in 1 .. 3 + unpack_offset : candidate'[i] = candidate[i]
  BY <1>1, <1>3, Appended
<1>7. /\ candidate'[1] = PROTOCOL_START_BYTE /\ candidate'[2] = candidate[2]
      /\ candidate'[3] = candidate[3]
  BY <1>1, <1>3, <1>6
<1>8. LengthRead'
  BY <1>1, <1>2, <1>7 DEF LengthRead
<1>9. output \in [0 .. OutputSize - 1 -> Byte] /\ unpack_offset \in 0 .. OutputSize - 1
  BY <1>1, <1>3 DEF ParserTypeOK
<1>10. output' \in [0 .. OutputSize - 1 -> Byte]
  BY <1>2, <1>9
<1>11. PayloadRead(unpack_offset + 1)' <=> \A i \in 1 .. unpack_offset' + 1 : candidate'[3 + i] = output'[i - 1]
  BY DEF PayloadRead
<1>12. \A i \in 1 .. unpack_offset + 1 : candidate'[3 + i] = output'[i - 1]
  <2> SUFFICES ASSUME NEW i \in 1 .. unpack_offset + 1
               PROVE  candidate'[3 + i] = output'[i - 1]
    OBVIOUS
  <2>1. CASE i = unpack_offset + 1
    BY <1>2, <1>3, <1>6, <1>9, <2>1
  <2>2. CASE i # unpack_offset + 1
    <3>1. i \in 1 .. unpack_offset /\ 3 + i \in 1 .. 3 + unpack_offset
          /\ i - 1 \in 0 .. OutputSize - 1 /\ i - 1 # unpack_offset
      BY <1>3, <1>9, <2>2
    <3>2. candidate'[3 + i] = candidate[3 + i] /\ candidate[3 + i] = output[i - 1]
      BY <1>1, <1>6, <3>1 DEF PayloadRead
    <3>3. output'[i - 1] = output[i - 1]
      BY <1>2, <1>9, <3>1
    <3> QED
      BY <3>2, <3>3
  <2> QED
    BY <2>1, <2>2
<1>13. CASE unpack_offset + 1 >= unpack_length
  <2>1. unpack_offset' = 0 /\ state' = "READ_CRC" /\ unpack_offset + 1 = unpack_length
    BY <1>1, <1>3, <1>13 DEF ReadPayload
  <2>2. ParserTypeOK'
    BY <1>2, <1>6, <1>10, <2>1, CrcType, SizeFacts DEF ParserTypeOK
  <2>3. PayloadRead(unpack_length)'
    BY <1>2, <1>12, <2>1 DEF PayloadRead
  <2>4. CrcUpTo(3 + unpack_length)'
    BY <1>2, <1>5, <1>6, <2>1 DEF CrcUpTo
  <2>5. Len(candidate') = 3 + unpack_length' + unpack_offset' /\ Len(candidate') <= OutputSize
    BY <1>2, <1>3, <1>6, <2>1
  <2> QED
    BY <1>2, <1>6, <1>7, <1>8, <2>1, <2>2, <2>3, <2>4, <2>5 DEF LockInv
<1>14. CASE unpack_offset + 1 < unpack_length
  <2>1. unpack_offset' = unpack_offset + 1 /\ state' = "READ_PAYLOAD"
    BY <1>3, <1>14 DEF ReadPayload
  <2>2. unpack_offset' \in Word
    BY <1>3, <1>14, <2>1, SizeFacts
  <2>3. ParserTypeOK'
    BY <1>2, <1>6, <1>10, <2>1, <2>2, CrcType, SizeFacts DEF ParserTypeOK
  <2>4. PayloadRead(unpack_offset)'
    BY <1>12, <2>1 DEF PayloadRead
  <2>5. CrcUpTo(Len(candidate))'
    BY <1>5 DEF CrcUpTo
  <2>6. Len(candidate') = 3 + unpack_offset' /\ Len(candidate') <= OutputSize /\ unpack_offset' < unpack_length'
    BY <1>2, <1>3, <1>6, <1>14, <2>1
  <2> QED
    BY <1>2, <1>6, <1>7, <1>8, <2>1, <2>3, <2>4, <2>5, <2>6 DEF LockInv
<1> QED
  BY <1>3, <1>13, <1>14

LEMMA ReadCrcLowLock ==
  ASSUME ParserTypeOK, LockInv, NEW byte \in Byte, ReadCrcLow(byte),
         candidate' = Append(candidate, byte)
  PROVE  ParserTypeOK' /\ LockInv'
<1>1. /\ unpack_offset = 0 /\ Len(candidate) = 3 + unpack_length + unpack_offset
      /\ LengthRead /\ PayloadRead(unpack_length) /\ CrcUpTo(3 + unpack_length)
      /\ candidate[1] = PROTOCOL_START_BYTE
  BY DEF LockInv, ReadCrcLow
<1>2. /\ output' = [output EXCEPT ![unpack_length] = byte]
      /\ unpack_crc' = unpack_crc /\ unpack_offset' = 1 /\ state' = "READ_CRC"
      /\ unpack_length' = unpack_length /\ outcome' = "pending"
  BY DEF ReadCrcLow, Report
<1>3. /\ unpack_length \in Nat /\ OutputSize \in Nat /\ unpack_length + 6 <= OutputSize
  BY <1>1, LengthFacts, SizeFacts
<1>4. 3 + unpack_length \in 1 .. Len(candidate)
  BY <1>1, <1>3
<1>5. unpack_crc' = crc16_mcrf4xx[SubSeq(candidate', 2, 3 + unpack_length)]
  BY <1>1, <1>2, <1>4, CrcStays
<1>6. /\ candidate' \in Seq(Byte) /\ Len(candidate') = 4 + unpack_length /\ candidate' # << >>
      /\ candidate'[4 + unpack_length] = byte
      /\ \A i \in 1 .. 3 + unpack_length : candidate'[i] = candidate[i]
  BY <1>1, <1>3, Appended
<1>7. /\ candidate'[1] = PROTOCOL_START_BYTE /\ candidate'[2] = candidate[2]
      /\ candidate'[3] = candidate[3]
  BY <1>1, <1>3, <1>6
<1>8. output \in [0 .. OutputSize - 1 -> Byte] /\ unpack_length \in 0 .. OutputSize - 1
  BY <1>3 DEF ParserTypeOK
<1>9. output' \in [0 .. OutputSize - 1 -> Byte] /\ output'[unpack_length] = byte
  BY <1>2, <1>8
<1>10. ParserTypeOK'
  BY <1>2, <1>6, <1>9, SizeFacts DEF ParserTypeOK, ReadCrcLow
<1>11. LengthRead'
  BY <1>1, <1>2, <1>7 DEF LengthRead
<1>12. PayloadRead(unpack_length)'
  <2> SUFFICES ASSUME NEW i \in 1 .. unpack_length
               PROVE  candidate'[3 + i] = output'[i - 1]
    BY <1>2 DEF PayloadRead
  <2>1. /\ 3 + i \in 1 .. 3 + unpack_length
        /\ i - 1 \in 0 .. OutputSize - 1 /\ i - 1 # unpack_length
    BY <1>3
  <2>2. candidate'[3 + i] = candidate[3 + i] /\ candidate[3 + i] = output[i - 1]
    BY <1>1, <1>6, <2>1 DEF PayloadRead
  <2> QED
    BY <1>2, <1>8, <2>1, <2>2
<1>13. CrcUpTo(3 + unpack_length)'
  BY <1>2, <1>5 DEF CrcUpTo
<1>14. /\ Len(candidate') = 3 + unpack_length' + unpack_offset' /\ Len(candidate') <= OutputSize
       /\ output'[unpack_length'] = candidate'[4 + unpack_length']
  BY <1>2, <1>3, <1>6, <1>9
<1> QED
  BY <1>2, <1>6, <1>7, <1>10, <1>11, <1>12, <1>13, <1>14 DEF LockInv

LEMMA ReadCrcHighLock ==
  ASSUME ParserTypeOK, LockInv, NEW byte \in Byte, ReadCrcHigh(byte),
         candidate' = Append(candidate, byte)
  PROVE  ParserTypeOK' /\ LockInv' /\ FailureIsReal'
<1>1. /\ unpack_offset = 1 /\ Len(candidate) = 3 + unpack_length + unpack_offset
      /\ LengthRead /\ PayloadRead(unpack_length) /\ CrcUpTo(3 + unpack_length)
      /\ candidate[1] = PROTOCOL_START_BYTE
      /\ output[unpack_length] = candidate[4 + unpack_length]
  BY DEF LockInv, ReadCrcHigh
<1>2. /\ unpack_crc' = unpack_crc /\ unpack_offset' = 0
      /\ unpack_length' = unpack_length /\ output' = output
  BY DEF ReadCrcHigh
<1>3. /\ unpack_length \in Nat /\ OutputSize \in Nat /\ unpack_length + 6 <= OutputSize
  BY <1>1, LengthFacts, SizeFacts
<1>4. 3 + unpack_length \in 1 .. Len(candidate)
  BY <1>1, <1>3
<1>5. unpack_crc' = crc16_mcrf4xx[SubSeq(candidate', 2, 3 + unpack_length)]
  BY <1>1, <1>2, <1>4, CrcStays
<1>6. /\ candidate' \in Seq(Byte) /\ Len(candidate') = 5 + unpack_length /\ candidate' # << >>
      /\ candidate'[5 + unpack_length] = byte
      /\ \A i \in 1 .. 4 + unpack_length : candidate'[i] = candidate[i]
  BY <1>1, <1>3, Appended
<1>7. /\ candidate'[1] = PROTOCOL_START_BYTE /\ candidate'[2] = candidate[2]
      /\ candidate'[3] = candidate[3] /\ candidate'[4 + unpack_length] = output[unpack_length]
  BY <1>1, <1>3, <1>6
<1>8. LengthRead'
  BY <1>1, <1>2, <1>7 DEF LengthRead
<1>9. PayloadRead(unpack_length)'
  <2> SUFFICES ASSUME NEW i \in 1 .. unpack_length
               PROVE  candidate'[3 + i] = output'[i - 1]
    BY <1>2 DEF PayloadRead
  <2>1. 3 + i \in 1 .. 4 + unpack_length
    BY <1>3
  <2> QED
    BY <1>1, <1>2, <1>6, <2>1 DEF PayloadRead
<1>10. CrcUpTo(3 + unpack_length)'
  BY <1>2, <1>5 DEF CrcUpTo
<1> DEFINE received_crc == output[unpack_length] + B * byte
<1>11. candidate'[4 + unpack_length'] + B * candidate'[5 + unpack_length'] = received_crc
  BY <1>2, <1>6, <1>7
<1>12. Len(candidate') = 5 + unpack_length' /\ Len(candidate') <= OutputSize
  BY <1>2, <1>3, <1>6
<1>13. CASE received_crc # unpack_crc
  <2>1. state' = "WAIT_START" /\ outcome' = "CRC_ERROR"
    BY <1>13 DEF ReadCrcHigh, Fail, Report
  <2>2. ParserTypeOK'
    BY <1>2, <1>6, <2>1, SizeFacts DEF ParserTypeOK
  <2>3. LockInv'
    BY <1>6, <1>12, <2>1 DEF LockInv
  <2>4. received_crc # unpack_crc'
    BY <1>2, <1>13
  <2> HIDE DEF received_crc
  <2>5. FailureIsReal'
    BY <1>8, <1>10, <1>11, <1>12, <2>1, <2>4 DEF FailureIsReal
  <2> QED
    BY <2>2, <2>3, <2>5
<1>14. CASE received_crc = unpack_crc
  <2>1. state' = "READ_STOP" /\ outcome' = "pending"
    BY <1>14 DEF ReadCrcHigh, Report
  <2>2. ParserTypeOK'
    BY <1>2, <1>6, <2>1, SizeFacts DEF ParserTypeOK
  <2>3. received_crc = unpack_crc'
    BY <1>2, <1>14
  <2> HIDE DEF received_crc
  <2>4. TrailerRead'
    BY <1>8, <1>9, <1>10, <1>11, <2>3 DEF TrailerRead
  <2>5. LockInv'
    BY <1>6, <1>7, <1>12, <2>1, <2>4 DEF LockInv
  <2>6. FailureIsReal'
    BY <2>1 DEF FailureIsReal
  <2> QED
    BY <2>2, <2>5, <2>6
<1> QED
  BY <1>13, <1>14

LEMMA ReadStopLock ==
  ASSUME ParserTypeOK, LockInv, NEW byte \in Byte, ReadStop(byte),
         candidate' = Append(candidate, byte)
  PROVE  ParserTypeOK' /\ LockInv' /\ FailureIsReal'
<1>1. TrailerRead /\ Len(candidate) = 5 + unpack_length /\ candidate[1] = PROTOCOL_START_BYTE
  BY DEF LockInv, ReadStop
<1>2. LengthRead /\ PayloadRead(unpack_length) /\ CrcUpTo(3 + unpack_length)
  BY <1>1 DEF TrailerRead
<1>3. /\ unpack_crc' = unpack_crc /\ unpack_offset' = unpack_offset
      /\ unpack_length' = unpack_length /\ output' = output /\ state' = "WAIT_START"
  BY DEF ReadStop, Fail
<1>4. /\ unpack_length \in Nat /\ OutputSize \in Nat /\ unpack_length + 6 <= OutputSize
  BY <1>2, LengthFacts, SizeFacts
<1>5. 3 + unpack_length \in 1 .. Len(candidate)
  BY <1>1, <1>4
<1>6. unpack_crc' = crc16_mcrf4xx[SubSeq(candidate', 2, 3 + unpack_length)]
  BY <1>2, <1>3, <1>5, CrcStays
<1>7. /\ candidate' \in Seq(Byte) /\ Len(candidate') = 6 + unpack_length /\ candidate' # << >>
      /\ candidate'[6 + unpack_length] = byte
      /\ \A i \in 1 .. 5 + unpack_length : candidate'[i] = candidate[i]
  BY <1>1, <1>4, Appended
<1>8. /\ candidate'[1] = PROTOCOL_START_BYTE /\ candidate'[2] = candidate[2]
      /\ candidate'[3] = candidate[3]
      /\ candidate'[4 + unpack_length] = candidate[4 + unpack_length]
      /\ candidate'[5 + unpack_length] = candidate[5 + unpack_length]
  BY <1>1, <1>4, <1>7
<1>9. LengthRead'
  BY <1>2, <1>3, <1>8 DEF LengthRead
<1>10. PayloadRead(unpack_length)'
  <2> SUFFICES ASSUME NEW i \in 1 .. unpack_length
               PROVE  candidate'[3 + i] = output'[i - 1]
    BY <1>3 DEF PayloadRead
  <2>1. 3 + i \in 1 .. 5 + unpack_length
    BY <1>4
  <2> QED
    BY <1>2, <1>3, <1>7, <2>1 DEF PayloadRead
<1>11. CrcUpTo(3 + unpack_length)'
  BY <1>3, <1>6 DEF CrcUpTo
<1>12. candidate'[4 + unpack_length'] + B * candidate'[5 + unpack_length'] = unpack_crc'
  BY <1>1, <1>3, <1>8 DEF TrailerRead
<1>13. /\ Len(candidate') = 6 + unpack_length' /\ Len(candidate') <= OutputSize
       /\ candidate'[6 + unpack_length'] = byte
  BY <1>3, <1>4, <1>7
<1>14. TrailerRead'
  BY <1>9, <1>10, <1>11, <1>12 DEF TrailerRead
<1>15. CASE byte # PROTOCOL_STOP_BYTE
  <2>1. outcome' = "FORMAT_ERROR"
    BY <1>15 DEF ReadStop, Fail, Report
  <2>2. ParserTypeOK'
    BY <1>3, <1>7, <2>1 DEF ParserTypeOK
  <2>3. LockInv'
    BY <1>3, <1>7, <1>13, <2>1 DEF LockInv
  <2>4. FailureIsReal'
    BY <1>9, <1>13, <1>15, <2>1 DEF FailureIsReal
  <2> QED
    BY <2>2, <2>3, <2>4
<1>16. CASE byte = PROTOCOL_STOP_BYTE
  <2>1. outcome' = "done"
    BY <1>16 DEF ReadStop, Fail, Report
  <2>2. ParserTypeOK'
    BY <1>3, <1>7, <2>1 DEF ParserTypeOK
  <2>3. LockInv'
    BY <1>3, <1>7, <1>8, <1>13, <1>14, <1>16, <2>1 DEF LockInv
  <2>4. FailureIsReal'
    BY <2>1 DEF FailureIsReal
  <2> QED
    BY <2>2, <2>3, <2>4
<1> QED
  BY <1>15, <1>16

\* The step of the inductive invariant.
LEMMA LockNext ==
  ParserTypeOK /\ LockInv /\ FailureIsReal /\ [ParserNext]_parser_vars
    => ParserTypeOK' /\ LockInv' /\ FailureIsReal'
<1> SUFFICES ASSUME ParserTypeOK, LockInv, FailureIsReal, [ParserNext]_parser_vars
             PROVE  ParserTypeOK' /\ LockInv' /\ FailureIsReal'
  OBVIOUS
<1>1. CASE UNCHANGED parser_vars
  <2>1. /\ state' = state /\ unpack_crc' = unpack_crc /\ unpack_offset' = unpack_offset
        /\ unpack_length' = unpack_length /\ output' = output /\ outcome' = outcome
        /\ candidate' = candidate
    BY <1>1 DEF parser_vars
  <2>2. ParserTypeOK'
    BY <2>1 DEF ParserTypeOK
  <2>3. LockInv' /\ FailureIsReal'
    BY <2>1 DEF LockInv, FailureIsReal, TrailerRead, LengthRead, PayloadRead, CrcUpTo
  <2> QED
    BY <2>2, <2>3
<1>2. ASSUME NEW byte \in Byte, feed(byte)
      PROVE  ParserTypeOK' /\ LockInv' /\ FailureIsReal'
  <2>1. CASE WaitStart(byte)
    <3>1. outcome' = "pending"
      BY <2>1 DEF WaitStart, Report
    <3> QED
      BY <2>1, <3>1, WaitStartLock DEF FailureIsReal
  <2>2. CASE ReadLengthLow(byte) /\ candidate' = Append(candidate, byte)
    <3>1. outcome' = "pending"
      BY <2>2 DEF ReadLengthLow, Report
    <3> QED
      BY <2>2, <3>1, ReadLengthLowLock DEF FailureIsReal
  <2>3. CASE ReadLengthHigh(byte) /\ candidate' = Append(candidate, byte)
    <3>1. ParserTypeOK' /\ LockInv'
      BY <2>3, ReadLengthHighLock
    <3>2. CASE packable(unpack_length', OutputSize)
      <4>1. outcome' = "pending"
        BY <2>3, <3>2 DEF ReadLengthHigh, Report
      <4> QED
        BY <3>1, <4>1 DEF FailureIsReal
    <3>3. CASE ~packable(unpack_length', OutputSize)
      <4>1. outcome' = "OVERFLOW"
        BY <2>3, <3>3 DEF ReadLengthHigh, Fail, Report
      <4>2. Len(candidate) = 2 /\ unpack_length = candidate[2]
        BY <2>3 DEF LockInv, ReadLengthHigh
      <4>3. Len(candidate') = 3 /\ candidate'[2] = candidate[2] /\ candidate'[3] = byte
        BY <2>3, <4>2, Appended
      <4>4. unpack_length' = candidate'[2] + B * candidate'[3]
        BY <2>3, <4>2, <4>3 DEF ReadLengthHigh
      <4> QED
        BY <3>1, <3>3, <4>1, <4>3, <4>4 DEF FailureIsReal
    <3> QED
      BY <3>2, <3>3
  <2>4. CASE ReadPayload(byte) /\ candidate' = Append(candidate, byte)
    <3>1. outcome' = "pending"
      BY <2>4 DEF ReadPayload, Report
    <3> QED
      BY <2>4, <3>1, ReadPayloadLock DEF FailureIsReal
  <2>5. CASE ReadCrcLow(byte) /\ candidate' = Append(candidate, byte)
    <3>1. outcome' = "pending"
      BY <2>5 DEF ReadCrcLow, Report
    <3> QED
      BY <2>5, <3>1, ReadCrcLowLock DEF FailureIsReal
  <2>6. CASE ReadCrcHigh(byte) /\ candidate' = Append(candidate, byte)
    BY <2>6, ReadCrcHighLock
  <2>7. CASE ReadStop(byte) /\ candidate' = Append(candidate, byte)
    BY <2>7, ReadStopLock
  <2> QED
    BY <1>2, <2>1, <2>2, <2>3, <2>4, <2>5, <2>6, <2>7 DEF feed
<1> QED
  BY <1>1, <1>2 DEF ParserNext

\* The invariant holds of every behaviour of the parser.
THEOREM ParserLock == ParserSpec => [](ParserTypeOK /\ LockInv /\ FailureIsReal)
<1>1. ParserInit => FailureIsReal
  BY DEF ParserInit, FailureIsReal
<1> QED
  BY <1>1, InitLock, LockNext, PTL DEF ParserSpec

-----------------------------------------------------------------------------
(* The properties.                                                         *)

\* Every field of comm_protocol_t and the receive buffer keep their types.
THEOREM ParserTypeCorrect == ParserSpec => []ParserTypeOK
BY ParserLock, PTL

LEMMA BoundsFromLock == ParserTypeOK /\ LockInv => WritesInBounds /\ BoundedLock
<1> SUFFICES ASSUME ParserTypeOK, LockInv PROVE WritesInBounds /\ BoundedLock
  OBVIOUS
<1>1. /\ OutputSize \in Nat /\ OutputSize >= 6 /\ unpack_offset \in Nat /\ unpack_length \in Nat
      /\ Len(candidate) \in Nat
  BY SizeFacts DEF ParserTypeOK, Word
<1>2. LengthRead => unpack_length + 6 <= OutputSize
  BY LengthFacts
<1>3. WritesInBounds
  BY <1>1, <1>2 DEF WritesInBounds, LockInv
<1>4. state # "WAIT_START" => Len(candidate) < OutputSize
  BY <1>1, <1>2 DEF LockInv, ParserTypeOK, TrailerRead
<1>5. Len(candidate) <= OutputSize
  BY DEF LockInv
<1> QED
  BY <1>3, <1>4, <1>5 DEF BoundedLock

\* No write of protocol_feed is outside the caller's buffer.
THEOREM ParserWritesInBounds == ParserSpec => []WritesInBounds
BY ParserLock, BoundsFromLock, PTL

\* A false START costs at most a buffer of bytes.
THEOREM ParserResynchronises == ParserSpec => []BoundedLock
BY ParserLock, BoundsFromLock, PTL

LEMMA SoundFromLock == ParserTypeOK /\ LockInv => DeliversFrames
<1> SUFFICES ASSUME ParserTypeOK, LockInv, outcome = "done"
             PROVE  packable(unpack_length, OutputSize) /\ candidate = frame(payload)
  BY DEF DeliversFrames
<1> DEFINE c == candidate
           n == unpack_length
           p == payload
           f == frame(p)
           w == crc16_mcrf4xx[covered(p)]
<1>1. /\ TrailerRead /\ Len(c) = 6 + n /\ c[6 + n] = PROTOCOL_STOP_BYTE
      /\ c[1] = PROTOCOL_START_BYTE /\ c \in Seq(Byte)
  BY DEF LockInv, ParserTypeOK
<1>2. LengthRead /\ PayloadRead(n) /\ CrcUpTo(3 + n) /\ c[4 + n] + B * c[5 + n] = unpack_crc
  BY <1>1 DEF TrailerRead
<1>3. n \in Nat /\ n + 6 <= OutputSize /\ OutputSize \in Nat
  BY <1>2, LengthFacts, SizeFacts
<1>4. \A i \in 0 .. n - 1 : output[i] \in Byte
  BY <1>3 DEF ParserTypeOK
<1>5. p \in Seq(Byte) /\ Len(p) = n /\ \A i \in 1 .. n : p[i] = output[i - 1]
  <2>1. \A i \in 1 .. n : output[i - 1] \in Byte
    BY <1>3, <1>4
  <2>2. p = [i \in 1 .. n |-> output[i - 1]]
    BY DEF payload
  <2>3. p \in [1 .. n -> Byte]
    BY <2>1, <2>2
  <2>4. p \in Seq(Byte)
    BY <1>3, <2>3
  <2>5. Len(p) = n
    BY <1>3, <2>3, <2>4, LenProperties
  <2> QED
    BY <2>2, <2>4, <2>5
<1>6. packable(Len(p), OutputSize)
  BY <1>2, <1>5 DEF LengthRead
<1> HIDE DEF p, n, c
<1>7. /\ f \in Seq(Byte) /\ Len(f) = n + 6
      /\ f[1] = PROTOCOL_START_BYTE /\ f[2] = low(n) /\ f[3] = high(n)
      /\ \A i \in 1 .. n : f[3 + i] = p[i]
      /\ SubSeq(f, 2, 3 + n) = covered(p)
      /\ w \in Word /\ f[4 + n] = low(w) /\ f[5 + n] = high(w)
      /\ f[6 + n] = PROTOCOL_STOP_BYTE
  BY <1>5, <1>6, FrameShape
<1> HIDE DEF f, w
<1>8. \A i \in 1 .. 6 + n : c[i] \in Byte
  BY <1>1, ElementOfSeq
<1>9. c[2] = f[2] /\ c[3] = f[3]
  <2>1. c[2] \in Byte /\ c[3] \in Byte
    BY <1>3, <1>8
  <2>2. n = c[2] + B * c[3]
    BY <1>2 DEF LengthRead, c, n
  <2> QED
    BY <1>7, <2>1, <2>2, WordJoin
<1>10. \A i \in 1 .. n : c[3 + i] = f[3 + i]
  BY <1>2, <1>5, <1>7 DEF PayloadRead, c
<1>11. \A i \in 1 .. 3 + n : c[i] = f[i]
  <2> SUFFICES ASSUME NEW i \in 1 .. 3 + n PROVE c[i] = f[i]
    OBVIOUS
  <2>1. CASE i > 3
    <3>1. i - 3 \in 1 .. n /\ 3 + (i - 3) = i
      BY <1>3, <2>1
    <3> QED
      BY <1>10, <3>1
  <2>2. CASE ~(i > 3)
    <3>1. i = 1 \/ i = 2 \/ i = 3
      BY <1>3, <2>2
    <3> QED
      BY <1>1, <1>7, <1>9, <3>1
  <2> QED
    BY <2>1, <2>2
<1>12. unpack_crc = w
  <2> DEFINE m == 3 + n
             g == SubSeq(c, 2, m)
             h == SubSeq(f, 2, m)
  <2>1. m \in 1 .. Len(c) /\ m \in 1 .. Len(f) /\ m \in Nat
    BY <1>1, <1>3, <1>7
  <2>2. \A i \in 1 .. m - 1 : c[i + 1] = f[i + 1]
    BY <1>3, <1>11
  <2> HIDE DEF m
  <2>3. /\ g \in Seq(Byte) /\ Len(g) = m - 1
        /\ \A i \in 1 .. m - 1 : g[i] = c[i + 1]
    BY <1>1, <2>1, FromSecond
  <2>4. /\ h \in Seq(Byte) /\ Len(h) = m - 1
        /\ \A i \in 1 .. m - 1 : h[i] = f[i + 1]
    BY <1>7, <2>1, FromSecond
  <2> HIDE DEF g, h
  <2>5. g = h
    BY <2>2, <2>3, <2>4, SeqEqual
  <2>6. unpack_crc = crc16_mcrf4xx[g]
    BY <1>2 DEF CrcUpTo, c, g, m
  <2>7. h = covered(p)
    BY <1>7 DEF h, m
  <2> QED
    BY <2>5, <2>6, <2>7 DEF w
<1>13. c[4 + n] = f[4 + n] /\ c[5 + n] = f[5 + n]
  <2>1. c[4 + n] \in Byte /\ c[5 + n] \in Byte
    BY <1>3, <1>8
  <2>2. w = c[4 + n] + B * c[5 + n]
    BY <1>2, <1>12
  <2> QED
    BY <1>7, <2>1, <2>2, WordJoin
<1>14. \A i \in 1 .. 6 + n : c[i] = f[i]
  <2> SUFFICES ASSUME NEW i \in 1 .. 6 + n PROVE c[i] = f[i]
    OBVIOUS
  <2>1. i \in 1 .. 3 + n \/ i = 4 + n \/ i = 5 + n \/ i = 6 + n
    BY <1>3
  <2> QED
    BY <1>1, <1>7, <1>11, <1>13, <2>1
<1>15. Len(f) = 6 + n
  BY <1>3, <1>7
<1>16. c = f
  BY <1>1, <1>7, <1>14, <1>15, SeqEqual
<1> QED
  BY <1>2, <1>16 DEF c, f, p, n, LengthRead

\* on_parser_done hands over exactly the payload of the frame received.
THEOREM ParserSound == ParserSpec => []DeliversFrames
BY ParserLock, SoundFromLock, PTL

LEMMA CompleteFromLock == ParserTypeOK /\ LockInv /\ FailureIsReal => AcceptsFrames
<1> DEFINE c == candidate
           n == Len(c)
<1> SUFFICES ASSUME ParserTypeOK, LockInv, FailureIsReal,
                    NEW p \in BytesUpTo(OutputSize - PROTOCOL_FRAME_OVERHEAD),
                    packable(Len(p), OutputSize),
                    n \in 1 .. Len(frame(p)), c = SubSeq(frame(p), 1, n)
             PROVE  IF n < Len(frame(p)) THEN state # "WAIT_START"
                                         ELSE outcome = "done" /\ payload = p
  BY DEF AcceptsFrames
<1> DEFINE f == frame(p)
           len == Len(p)
           w == crc16_mcrf4xx[covered(p)]
<1>1. p \in Seq(Byte)
  BY BytesUpToSeq, SizeFacts DEF PROTOCOL_FRAME_OVERHEAD
<1>2. /\ f \in Seq(Byte) /\ Len(f) = len + 6
      /\ f[1] = PROTOCOL_START_BYTE /\ f[2] = low(len) /\ f[3] = high(len)
      /\ \A i \in 1 .. len : f[3 + i] = p[i]
      /\ SubSeq(f, 2, 3 + len) = covered(p)
      /\ w \in Word /\ f[4 + len] = low(w) /\ f[5 + len] = high(w)
      /\ f[6 + len] = PROTOCOL_STOP_BYTE
  BY <1>1, FrameShape
<1>3. len \in Nat /\ len \in Word /\ n \in Nat /\ n >= 1 /\ n <= len + 6
  <2>1. len \in Nat
    BY <1>1
  <2>2. len + 6 <= OutputSize
    BY <2>1, PackableIs DEF PROTOCOL_FRAME_OVERHEAD
  <2> QED
    BY <1>2, <2>1, <2>2, SizeFacts
<1>4. c \in Seq(Byte)
  BY DEF ParserTypeOK
<1> HIDE DEF f, len, w
<1>5. \A i \in 1 .. n : c[i] = f[i]
  <2> DEFINE m == n
  <2>1. m \in Nat /\ m <= Len(f) /\ c = SubSeq(f, 1, m)
    BY <1>2, <1>3 DEF f
  <2> HIDE DEF m, c
  <2>2. ASSUME NEW i \in 1 .. m PROVE SubSeq(f, 1, m)[i] = f[i]
    BY <1>2, <2>1
  <2> QED
    BY <2>1, <2>2 DEF m
<1> HIDE DEF c
<1>6. n >= 3 => c[2] + B * c[3] = len
  <2>1. n >= 3 => c[2] = low(len) /\ c[3] = high(len)
    BY <1>2, <1>3, <1>5
  <2> QED
    BY <1>3, <2>1, WordSplit
<1>7. n >= 3 /\ LengthRead => unpack_length = len
  BY <1>6 DEF LengthRead, c
<1>8. n >= 3 + len /\ LengthRead /\ CrcUpTo(3 + unpack_length) => unpack_crc = w
  <2> SUFFICES ASSUME n >= 3 + len, LengthRead, CrcUpTo(3 + unpack_length) PROVE unpack_crc = w
    OBVIOUS
  <2> DEFINE m == 3 + len
             g == SubSeq(c, 2, m)
             h == SubSeq(f, 2, m)
  <2>1. m \in 1 .. Len(c) /\ m \in 1 .. Len(f) /\ m \in Nat /\ m <= n
    BY <1>2, <1>3
  <2>2. \A i \in 1 .. m - 1 : c[i + 1] = f[i + 1]
    BY <1>3, <1>5, <2>1
  <2>3. unpack_length = len
    BY <1>3, <1>7
  <2> HIDE DEF m
  <2>4. /\ g \in Seq(Byte) /\ Len(g) = m - 1
        /\ \A i \in 1 .. m - 1 : g[i] = c[i + 1]
    BY <1>4, <2>1, FromSecond
  <2>5. /\ h \in Seq(Byte) /\ Len(h) = m - 1
        /\ \A i \in 1 .. m - 1 : h[i] = f[i + 1]
    BY <1>2, <2>1, FromSecond
  <2> HIDE DEF g, h
  <2>6. g = h
    BY <2>2, <2>4, <2>5, SeqEqual
  <2>7. unpack_crc = crc16_mcrf4xx[g]
    BY <2>3 DEF CrcUpTo, c, g, m
  <2>8. h = covered(p)
    BY <1>2 DEF h, m
  <2> QED
    BY <2>6, <2>7, <2>8 DEF w
<1>9. outcome # "OVERFLOW"
  <2> SUFFICES ASSUME outcome = "OVERFLOW" PROVE FALSE
    OBVIOUS
  <2>1. n = 3 /\ ~packable(c[2] + B * c[3], OutputSize)
    BY DEF FailureIsReal, c
  <2> QED
    BY <1>6, <2>1 DEF len
<1>10. outcome # "CRC_ERROR"
  <2> SUFFICES ASSUME outcome = "CRC_ERROR" PROVE FALSE
    OBVIOUS
  <2>1. /\ n = 5 + unpack_length /\ LengthRead /\ CrcUpTo(3 + unpack_length)
        /\ c[4 + unpack_length] + B * c[5 + unpack_length] # unpack_crc
    BY DEF FailureIsReal, c
  <2>2. unpack_length \in Nat
    BY LengthFacts, <2>1
  <2>3. unpack_length = len
    BY <1>7, <2>1, <2>2
  <2>4. unpack_crc = w
    BY <1>3, <1>8, <2>1, <2>3
  <2>5. c[4 + len] = low(w) /\ c[5 + len] = high(w)
    BY <1>2, <1>3, <1>5, <2>1, <2>3
  <2> QED
    BY <1>2, <2>1, <2>3, <2>4, <2>5, WordSplit
<1>11. outcome # "FORMAT_ERROR"
  <2> SUFFICES ASSUME outcome = "FORMAT_ERROR" PROVE FALSE
    OBVIOUS
  <2>1. n = 6 + unpack_length /\ LengthRead /\ c[6 + unpack_length] # PROTOCOL_STOP_BYTE
    BY DEF FailureIsReal, c
  <2>2. unpack_length \in Nat
    BY LengthFacts, <2>1
  <2>3. unpack_length = len
    BY <1>7, <2>1, <2>2
  <2> QED
    BY <1>2, <1>3, <1>5, <2>1, <2>3
<1>12. state = "WAIT_START" => outcome = "done"
  <2> SUFFICES ASSUME state = "WAIT_START", outcome = "pending" PROVE FALSE
    BY <1>9, <1>10, <1>11 DEF ParserTypeOK
  <2>1. c = << >>
    BY DEF LockInv, c
  <2> QED
    BY <1>3, <2>1
<1>13. outcome = "done" => n = 6 + len /\ unpack_length = len /\ PayloadRead(len)
  <2> SUFFICES ASSUME outcome = "done" PROVE n = 6 + len /\ unpack_length = len /\ PayloadRead(len)
    OBVIOUS
  <2>1. TrailerRead /\ n = 6 + unpack_length
    BY DEF LockInv, c
  <2>2. LengthRead /\ PayloadRead(unpack_length)
    BY <2>1 DEF TrailerRead
  <2>3. unpack_length \in Nat
    BY LengthFacts, <2>2
  <2>4. unpack_length = len
    BY <1>7, <2>1, <2>2, <2>3
  <2> QED
    BY <2>1, <2>2, <2>4
<1>14. state # "WAIT_START" => n < len + 6
  <2> SUFFICES ASSUME state # "WAIT_START" PROVE n < len + 6
    OBVIOUS
  <2>1. unpack_length \in Nat /\ unpack_offset \in Nat
    BY SizeFacts DEF ParserTypeOK, Word
  <2>2. CASE state = "READ_LENGTH"
    <3>1. unpack_offset \in {0, 1} /\ n = 1 + unpack_offset
      BY <2>2 DEF LockInv, c
    <3> QED
      BY <1>3, <3>1
  <2>3. CASE state = "READ_PAYLOAD"
    <3>1. unpack_offset < unpack_length /\ n = 3 + unpack_offset /\ LengthRead
      BY <2>3 DEF LockInv, c
    <3> QED
      BY <1>3, <1>7, <2>1, <3>1
  <2>4. CASE state = "READ_CRC"
    <3>1. unpack_offset \in {0, 1} /\ n = 3 + unpack_length + unpack_offset /\ LengthRead
      BY <2>4 DEF LockInv, c
    <3> QED
      BY <1>3, <1>7, <2>1, <3>1
  <2>5. CASE state = "READ_STOP"
    <3>1. LengthRead /\ n = 5 + unpack_length
      BY <2>5 DEF LockInv, TrailerRead, c
    <3> QED
      BY <1>3, <1>7, <2>1, <3>1
  <2> QED
    BY <2>2, <2>3, <2>4, <2>5 DEF ParserTypeOK
<1>15. CASE n < len + 6
  <2>1. ASSUME outcome = "done" PROVE FALSE
    <3>1. n = 6 + len
      BY <1>13, <2>1
    <3> QED
      BY <1>3, <1>15, <3>1
  <2> QED
    BY <1>2, <1>12, <1>15, <2>1 DEF f
<1>16. CASE ~(n < len + 6)
  <2>1. outcome = "done"
    BY <1>12, <1>14, <1>16
  <2>2. n = 6 + len /\ unpack_length = len /\ PayloadRead(len)
    BY <1>13, <2>1
  <2>3. ASSUME NEW i \in 1 .. len PROVE output[i - 1] = p[i]
    <3>1. 3 + i \in 1 .. n
      BY <1>3, <2>2
    <3>2. c[3 + i] = output[i - 1]
      BY <2>2 DEF PayloadRead, c
    <3> QED
      BY <1>2, <1>5, <3>1, <3>2
  <2>4. payload = [i \in 1 .. len |-> p[i]]
    BY <2>2, <2>3 DEF payload
  <2>5. p = [i \in 1 .. len |-> p[i]]
    BY <1>1 DEF len
  <2> QED
    BY <1>2, <1>16, <2>1, <2>4, <2>5 DEF f
<1> QED
  BY <1>15, <1>16

\* A frame that fits is never refused once the parser has locked on its START.
THEOREM ParserComplete == ParserSpec => []AcceptsFrames
BY ParserLock, CompleteFromLock, PTL

-----------------------------------------------------------------------------
(***************************************************************************)
(* The manager.                                                            *)
(***************************************************************************)

-----------------------------------------------------------------------------
(* Frames and records.                                                     *)

LEMMA PackableFrame ==
  ASSUME NEW m \in Packable
  PROVE  /\ m \in Messages /\ m \in Seq(Byte) /\ m # << >>
         /\ Len(m) \in 1 .. PROTOCOL_MAX_PAYLOAD
         /\ frame(m) \in Seq(Byte) /\ Len(frame(m)) = Len(m) + 6
         /\ Len(frame(m)) \in 7 .. PackSize /\ Len(frame(m)) \in Word
         /\ frame(m)[1] = PROTOCOL_START_BYTE
<1>1. m \in Messages /\ m # << >> /\ Len(m) <= PROTOCOL_MAX_PAYLOAD
  BY DEF Packable, packable
<1>2. m \in Seq(Byte) /\ Len(m) + 2 <= CrcLength
  BY <1>1, ManagerAssumption, PackCrcAssumption
<1>3. Len(m) \in 1 .. PROTOCOL_MAX_PAYLOAD
  BY <1>1, <1>2, EmptySeq, LenProperties, SizeFacts
<1>4. /\ frame(m) \in Seq(Byte) /\ Len(frame(m)) = Len(m) + 6
      /\ frame(m)[1] = PROTOCOL_START_BYTE
  BY <1>1, <1>2, FrameLayout
<1>5. Len(m) + 6 \in 7 .. PackSize /\ Len(m) + 6 \in Word
  BY <1>3, SizeFacts, SizeAssumption DEF PackSize, PROTOCOL_FRAME_OVERHEAD, Word
<1> QED
  BY <1>1, <1>2, <1>3, <1>4, <1>5

\* The length in front of a frame.
LEMMA PackableRecord ==
  ASSUME NEW m \in Packable
  PROVE  \E l \in Seq(Byte) :
           /\ l = <<low(Len(frame(m))), high(Len(frame(m)))>> /\ Len(l) = 2
           /\ l[1] + B * l[2] = Len(frame(m))
           /\ record(m) = l \o frame(m)
           /\ record(m) \in Seq(Byte) /\ Len(record(m)) = 2 + Len(frame(m))
<1>1. Len(frame(m)) \in Word /\ frame(m) \in Seq(Byte)
  BY PackableFrame
<1>2. PICK lo \in Byte, hi \in Byte :
        lo = low(Len(frame(m))) /\ hi = high(Len(frame(m))) /\ lo + B * hi = Len(frame(m))
  BY <1>1, WordSplit
<1>3. PICK l \in Seq(Byte) : l = <<lo, hi>> /\ Len(l) = 2 /\ l[1] = lo /\ l[2] = hi
  <2>1. <<lo, hi>> \in Seq(Byte) /\ Len(<<lo, hi>>) = 2 /\ (<<lo, hi>>)[1] = lo /\ (<<lo, hi>>)[2] = hi
    OBVIOUS
  <2> QED
    BY <2>1
<1>4. record(m) = l \o frame(m)
  BY <1>2, <1>3 DEF record
<1>5. l \o frame(m) \in Seq(Byte) /\ Len(l \o frame(m)) = 2 + Len(frame(m))
  BY <1>1, <1>3, ConcatProperties
<1> QED
  BY <1>2, <1>3, <1>4, <1>5

\* Frames and Records are the concatenations of the values of functions.
LEMMA FramesOf ==
  \E f : /\ IsMap(f, Packable, Byte)
         /\ \A m \in Packable : f[m] = frame(m)
         /\ \A ms \in Seq(Packable) : Frames(ms) = Joined(f, ms)
<1> DEFINE f == [m \in Packable |-> frame(m)]
<1>1. \A m \in Packable : frame(m) \in Seq(Byte)
  BY PackableFrame
<1>2. IsMap(f, Packable, Byte) /\ \A m \in Packable : f[m] = frame(m)
  BY <1>1 DEF IsMap
<1>3. ASSUME NEW ms \in Seq(Packable) PROVE Frames(ms) = Joined(f, ms)
  <2>1. \A k \in DOMAIN ms : ms[k] \in Packable
    BY LenProperties, ElementOfSeq
  <2>2. [k \in DOMAIN ms |-> frame(ms[k])] = MapSeq(f, ms)
    BY <2>1 DEF MapSeq
  <2> QED
    BY <2>2 DEF Frames, Joined
<1> HIDE DEF f
<1> QED
  BY <1>2, <1>3

LEMMA RecordsOf ==
  \E f : /\ IsMap(f, Packable, Byte)
         /\ \A m \in Packable : f[m] = record(m)
         /\ \A ms \in Seq(Packable) : Records(ms) = Joined(f, ms)
<1> DEFINE f == [m \in Packable |-> record(m)]
<1>1. \A m \in Packable : record(m) \in Seq(Byte)
  BY PackableRecord
<1>2. IsMap(f, Packable, Byte) /\ \A m \in Packable : f[m] = record(m)
  BY <1>1 DEF IsMap
<1>3. ASSUME NEW ms \in Seq(Packable) PROVE Records(ms) = Joined(f, ms)
  <2>1. \A k \in DOMAIN ms : ms[k] \in Packable
    BY LenProperties, ElementOfSeq
  <2>2. [k \in DOMAIN ms |-> record(ms[k])] = MapSeq(f, ms)
    BY <2>1 DEF MapSeq
  <2> QED
    BY <2>2 DEF Records, Joined
<1> HIDE DEF f
<1> QED
  BY <1>2, <1>3

LEMMA FramesType ==
  ASSUME NEW ms \in Seq(Packable)
  PROVE  Frames(ms) \in Seq(Byte)
BY FramesOf, JoinedType

LEMMA RecordsType ==
  ASSUME NEW ms \in Seq(Packable)
  PROVE  Records(ms) \in Seq(Byte)
BY RecordsOf, JoinedType

LEMMA NoFrames == Frames(<< >>) = << >> /\ Records(<< >>) = << >>
<1>1. << >> \in Seq(Packable)
  OBVIOUS
<1> QED
  BY <1>1, FramesOf, RecordsOf, JoinedEmpty

LEMMA FramesAppend ==
  ASSUME NEW ms \in Seq(Packable), NEW m \in Packable
  PROVE  Frames(Append(ms, m)) = Frames(ms) \o frame(m)
<1>1. Append(ms, m) \in Seq(Packable)
  BY AppendProperties
<1>2. PICK f : /\ IsMap(f, Packable, Byte) /\ f[m] = frame(m)
               /\ \A s \in Seq(Packable) : Frames(s) = Joined(f, s)
  BY FramesOf
<1>3. Joined(f, Append(ms, m)) = Joined(f, ms) \o f[m]
  BY <1>2, JoinedAppend
<1> QED
  BY <1>1, <1>2, <1>3

LEMMA RecordsAppend ==
  ASSUME NEW ms \in Seq(Packable), NEW m \in Packable
  PROVE  Records(Append(ms, m)) = Records(ms) \o record(m)
<1>1. Append(ms, m) \in Seq(Packable)
  BY AppendProperties
<1>2. PICK f : /\ IsMap(f, Packable, Byte) /\ f[m] = record(m)
               /\ \A s \in Seq(Packable) : Records(s) = Joined(f, s)
  BY RecordsOf
<1>3. Joined(f, Append(ms, m)) = Joined(f, ms) \o f[m]
  BY <1>2, JoinedAppend
<1> QED
  BY <1>1, <1>2, <1>3

\* The messages behind the first.
LEMMA OthersFacts ==
  ASSUME NEW ms \in Seq(Packable), ms # << >>
  PROVE  /\ Len(ms) \in Nat \ {0} /\ ms[1] \in Packable
         /\ SubSeq(ms, 2, Len(ms)) \in Seq(Packable)
<1>1. Len(ms) \in Nat \ {0} /\ 1 \in 0 .. Len(ms) /\ 1 \in 1 .. Len(ms) /\ 1 + 1 = 2
  BY LenProperties, EmptySeq
<1>2. SubSeq(ms, 1 + 1, Len(ms)) \in Seq(Packable)
  BY <1>1, Behind
<1> QED
  BY <1>1, <1>2, ElementOfSeq

\* The first frame, or record, and those of the other messages.
LEMMA FramesFirst ==
  ASSUME NEW ms \in Seq(Packable), ms # << >>
  PROVE  Frames(ms) = frame(ms[1]) \o Frames(SubSeq(ms, 2, Len(ms)))
<1>1. ms[1] \in Packable /\ SubSeq(ms, 2, Len(ms)) \in Seq(Packable)
  BY OthersFacts
<1>2. PICK f : /\ IsMap(f, Packable, Byte) /\ f[ms[1]] = frame(ms[1])
               /\ \A s \in Seq(Packable) : Frames(s) = Joined(f, s)
  BY <1>1, FramesOf
<1>3. FirstApart(f, ms)
  <2>1. IsMap(f, Packable, Byte)
    BY <1>2
  <2> QED
    BY <2>1, JoinedFirst
<1> QED
  BY <1>1, <1>2, <1>3 DEF FirstApart

LEMMA RecordsFirst ==
  ASSUME NEW ms \in Seq(Packable), ms # << >>
  PROVE  Records(ms) = record(ms[1]) \o Records(SubSeq(ms, 2, Len(ms)))
<1>1. ms[1] \in Packable /\ SubSeq(ms, 2, Len(ms)) \in Seq(Packable)
  BY OthersFacts
<1>2. PICK f : /\ IsMap(f, Packable, Byte) /\ f[ms[1]] = record(ms[1])
               /\ \A s \in Seq(Packable) : Records(s) = Joined(f, s)
  BY <1>1, RecordsOf
<1>3. FirstApart(f, ms)
  <2>1. IsMap(f, Packable, Byte)
    BY <1>2
  <2> QED
    BY <2>1, JoinedFirst
<1> QED
  BY <1>1, <1>2, <1>3 DEF FirstApart

-----------------------------------------------------------------------------
(* The invariant of the transmit side.                                     *)

LEMMA OverwrittenIs ==
  ASSUME NEW buf \in [0 .. PackSize - 1 -> Byte], NEW bytes \in Seq(Byte),
         Len(bytes) <= PackSize
  PROVE  /\ overwritten(buf, bytes) \in [0 .. PackSize - 1 -> Byte]
         /\ \A i \in 0 .. Len(bytes) - 1 : overwritten(buf, bytes)[i] = bytes[i + 1]
<1>1. Len(bytes) \in Nat /\ PackSize \in Nat
  BY SizeFacts, LenProperties DEF PackSize, PROTOCOL_FRAME_OVERHEAD
<1>2. overwritten(buf, bytes)
        = [i \in 0 .. PackSize - 1 |-> IF i < Len(bytes) THEN bytes[i + 1] ELSE buf[i]]
  BY DEF overwritten
<1>3. ASSUME NEW i \in 0 .. PackSize - 1
      PROVE  (IF i < Len(bytes) THEN bytes[i + 1] ELSE buf[i]) \in Byte
  <2>1. CASE i < Len(bytes)
    <3>1. i + 1 \in 1 .. Len(bytes)
      BY <1>1, <2>1
    <3> QED
      BY <2>1, <3>1, ElementOfSeq
  <2>2. CASE ~(i < Len(bytes))
    BY <2>2
  <2> QED
    BY <2>1, <2>2
<1>4. ASSUME NEW i \in 0 .. Len(bytes) - 1
      PROVE  overwritten(buf, bytes)[i] = bytes[i + 1]
  <2>1. i \in 0 .. PackSize - 1 /\ i < Len(bytes)
    BY <1>1
  <2> QED
    BY <1>2, <2>1
<1> QED
  BY <1>2, <1>3, <1>4

LEMMA TxInit == Init => TxInv
<1> SUFFICES ASSUME Init PROVE TxInv
  OBVIOUS
<1>1. PackSize \in Nat /\ 0 \in 0 .. PackSize /\ 0 \in 0 .. 0
  BY SizeFacts DEF PackSize, PROTOCOL_FRAME_OVERHEAD
<1>2. /\ << >> \in Seq(Byte) /\ << >> \in Seq(Messages) /\ << >> \in Seq(Call)
      /\ << >> \in Seq(Packable) /\ Len(<< >>) = 0
  OBVIOUS
<1>3. [i \in 0 .. PackSize - 1 |-> 0] \in [0 .. PackSize - 1 -> Byte]
  BY SizeFacts
<1>4. 0 < TxSize
  BY ManagerAssumption
<1>5. TxTypeOK
  BY <1>1, <1>2, <1>3, <1>4 DEF Init, TxTypeOK, Events
<1>6. ~InFlight
  BY DEF Init, InFlight
<1>7. tx_queue = Records(Queued)
  <2>1. Queued = << >>
    <3>1. Queued = SubSeq(<< >>, 0 + 1, 0)
      BY <1>2 DEF Init, Queued
    <3> QED
      BY <3>1, SubSeqEmpty
  <2> QED
    BY <2>1, NoFrames DEF Init
<1> QED
  BY <1>2, <1>5, <1>6, <1>7
     DEF Init, TxInv, BusyTracksTransfer, NoSendWithinSend, FrameInHand, CopyInFlight

LEMMA TxSame ==
  ASSUME TxInv,
         UNCHANGED <<tx_queue, tx_busy, _pack_status, pack_buf, copied, main_pc, frame_len,
                     transfer_len, shifted, calls, event, accepted, popped, handed>>
  PROVE  TxInv'
<1>1. TxTypeOK'
  BY DEF TxInv, TxTypeOK
<1>2. Queued' = Queued /\ InFlight' = InFlight
  BY DEF Queued, InFlight
<1> QED
  BY <1>1, <1>2 DEF TxInv, BusyTracksTransfer, NoSendWithinSend, FrameInHand, CopyInFlight, Holds

\* Whatever leaves queue, transfer and frame in hand alone.
LEMMA TxRest ==
  ASSUME TxInv,
         main_pc \in {"app", "sent", "rx"}, main_pc' \in {"app", "rx"},
         pack_buf' \in [0 .. PackSize - 1 -> Byte],
         _pack_status' \in {"COMM_OK", "COMM_ERR_QUEUE_FULL", "COMM_ERR_INVALID_ARG"},
         event' \in {"none", "TX_FAIL", "QUEUE_FULL", "RX_DONE", "PROTOCOL_ERROR"},
         calls' \in Seq(Call),
         UNCHANGED <<tx_queue, tx_busy, copied, frame_len,
                     transfer_len, shifted, accepted, popped, handed>>
  PROVE  TxInv'
<1>1. TxTypeOK'
  BY DEF TxInv, TxTypeOK, Events
<1>2. Queued' = Queued /\ InFlight' = InFlight
  BY DEF Queued, InFlight
<1>3. BusyTracksTransfer'
  BY <1>2 DEF TxInv, BusyTracksTransfer
<1>4. NoSendWithinSend' /\ FrameInHand'
  BY DEF NoSendWithinSend, FrameInHand
<1>5. CopyInFlight'
  BY <1>2 DEF TxInv, CopyInFlight, Holds
<1> QED
  BY <1>1, <1>2, <1>3, <1>4, <1>5 DEF TxInv

\* event_cb does not run while comm_process has a frame in hand.
LEMMA MaySendWhere ==
  ASSUME TxInv, MaySend
  PROVE  main_pc \in {"app", "rx"}
BY DEF TxInv, MaySend, NoSendWithinSend, TxTypeOK

LEMMA PackedBuffer ==
  ASSUME TxInv, NEW message \in Messages, Pack(message)
  PROVE  /\ message \in Packable /\ main_pc \in {"app", "rx"}
         /\ pack_buf' \in [0 .. PackSize - 1 -> Byte]
<1>1. message \in Packable /\ main_pc \in {"app", "rx"}
  BY MaySendWhere DEF Pack, Packable
<1>2. frame(message) \in Seq(Byte) /\ Len(frame(message)) <= PackSize
  BY <1>1, PackableFrame
<1> QED
  BY <1>1, <1>2, OverwrittenIs DEF Pack, TxInv, TxTypeOK

\* The stack of calls, pushed and popped.
LEMMA PushedCall ==
  ASSUME TxInv, NEW call
  PROVE  \E t : /\ t = <<call>> \o calls /\ DOMAIN t = 1 .. Len(calls) + 1 /\ t[1] = call
                /\ \A k \in 2 .. Len(calls) + 1 : t[k] = calls[k - 1] /\ k - 1 \in DOMAIN calls
<1>1. PICK s \in Seq(Call) : s = calls
  BY DEF TxInv, TxTypeOK
<1>2. PICK n \in Nat : n = Len(s) /\ DOMAIN s = 1 .. n
  BY LenProperties
<1>3. /\ DOMAIN (<<call>> \o s) = 1 .. n + 1 /\ (<<call>> \o s)[1] = call
      /\ \A k \in 2 .. n + 1 : (<<call>> \o s)[k] = s[k - 1] /\ k - 1 \in DOMAIN s
  BY <1>2
<1> QED
  BY <1>1, <1>2, <1>3

LEMMA LastCall ==
  ASSUME TxInv, calls # << >>
  PROVE  /\ 1 \in DOMAIN calls /\ Head(calls) = calls[1] /\ Head(calls) \in Call
         /\ \A k \in DOMAIN Tail(calls) : k + 1 \in DOMAIN calls /\ Tail(calls)[k] = calls[k + 1]
<1>1. PICK s : s = calls /\ s \in Seq(Call) /\ s # << >>
  BY DEF TxInv, TxTypeOK
<1>2. PICK n \in Nat \ {0} : n = Len(s) /\ DOMAIN s = 1 .. n
  BY <1>1, EmptySeq, LenProperties
<1>3. Head(s) = s[1] /\ Head(s) \in Call
  BY <1>1, HeadAndTail
<1>4. \A k \in DOMAIN Tail(s) : k + 1 \in DOMAIN s /\ Tail(s)[k] = s[k + 1]
  <2>1. /\ Tail(s) \in Seq(Call) /\ Len(Tail(s)) = n - 1
        /\ \A k \in 1 .. n - 1 : Tail(s)[k] = s[k + 1]
    BY <1>1, <1>2, HeadTailProperties
  <2>2. DOMAIN Tail(s) = 1 .. n - 1
    BY <2>1, LenProperties
  <2> QED
    BY <1>2, <2>1, <2>2
<1> QED
  BY <1>1, <1>2, <1>3, <1>4

\* A call whose event_cb is told of its failure.
LEMMA CallsGrow ==
  ASSUME TxInv, NEW message \in Messages, NEW status, NEW told, NotQueued(message, status, told)
  PROVE  calls' \in Seq(Call)
<1>1. PICK call \in Call : call = [message |-> message, within |-> event, before |-> Len(accepted)]
  BY LenProperties DEF TxInv, TxTypeOK, Call
<1>2. calls' = <<call>> \o calls
  BY <1>1 DEF NotQueued
<1>3. <<call>> \in Seq(Call) /\ calls \in Seq(Call)
  BY DEF TxInv, TxTypeOK
<1> QED
  BY <1>2, <1>3, ConcatProperties

LEMMA FailedSendTx ==
  ASSUME TxInv, NEW message \in Messages,
         SendEmpty \/ SendRefused(message) \/ SendFull(message) \/ SendReturn
  PROVE  TxInv'
<1>0. /\ _pack_status \in {"COMM_OK", "COMM_ERR_QUEUE_FULL", "COMM_ERR_INVALID_ARG"}
      /\ pack_buf \in [0 .. PackSize - 1 -> Byte] /\ calls \in Seq(Call)
  BY DEF TxInv, TxTypeOK
<1>1. CASE SendEmpty
  <2>1. main_pc \in {"app", "rx"}
    BY <1>1, MaySendWhere DEF SendEmpty
  <2>2. calls' \in Seq(Call)
    BY <1>1, CallsGrow DEF SendEmpty
  <2> QED
    BY <1>0, <1>1, <2>1, <2>2, TxRest DEF SendEmpty, NotQueued, send_unchanged, transport_vars
<1>2. CASE SendRefused(message)
  <2>1. main_pc \in {"app", "rx"}
    BY <1>2, MaySendWhere DEF SendRefused
  <2>2. calls' \in Seq(Call)
    BY <1>2, CallsGrow DEF SendRefused
  <2> QED
    BY <1>0, <1>2, <2>1, <2>2, TxRest DEF SendRefused, NotQueued, send_unchanged, transport_vars
<1>3. CASE SendFull(message)
  <2>1. main_pc \in {"app", "rx"} /\ pack_buf' \in [0 .. PackSize - 1 -> Byte]
    BY <1>3, PackedBuffer DEF SendFull
  <2>2. calls' \in Seq(Call)
    BY <1>3, CallsGrow DEF SendFull
  <2> QED
    BY <1>0, <1>3, <2>1, <2>2, TxRest DEF SendFull, NotQueued, send_unchanged, transport_vars
<1>4. CASE SendReturn
  <2>1. main_pc \in {"app", "rx"} \/ main_pc \in {"send", "sent", "failed"}
    BY DEF TxInv, TxTypeOK
  <2>2. main_pc \in {"app", "rx"}
    BY <1>4, <2>1 DEF SendReturn, TxInv, NoSendWithinSend
  <2>3. Tail(calls) \in Seq(Call) /\ Head(calls) \in Call
    BY <1>0, <1>4, HeadAndTail DEF SendReturn
  <2>4. calls' \in Seq(Call) /\ event' \in Events
    BY <1>4, <2>3 DEF SendReturn, Call
  <2> QED
    BY <1>0, <1>4, <2>2, <2>4, TxRest DEF SendReturn, send_unchanged, transport_vars, Events
<1> QED
  BY <1>1, <1>2, <1>3, <1>4

\* The records of what is queued grow by the whole record of the message.
LEMMA SendQueuedTx ==
  ASSUME TxInv, NEW message \in Messages, SendQueued(message)
  PROVE  TxInv'
<1>1. /\ message \in Packable /\ main_pc \in {"app", "rx"}
      /\ pack_buf' \in [0 .. PackSize - 1 -> Byte]
  BY PackedBuffer DEF SendQueued
<1>2. /\ accepted' = Append(accepted, message) /\ _pack_status' = "COMM_OK"
      /\ main_pc' = main_pc /\ frame_len' = frame_len /\ tx_busy' = tx_busy
      /\ transfer_len' = transfer_len /\ shifted' = shifted /\ copied' = copied
      /\ calls' = calls /\ event' = event /\ popped' = popped /\ handed' = handed
  BY DEF SendQueued, Enqueue, send_unchanged, transport_vars
<1>3. /\ tx_queue \in Seq(Byte) /\ tx_queue = Records(Queued)
      /\ accepted \in Seq(Packable) /\ popped \in 0 .. Len(accepted) /\ Len(accepted) \in Nat
  BY LenProperties DEF TxInv, TxTypeOK
<1>4. PICK r \in Seq(Byte) : r = record(message)
  BY <1>1, PackableRecord
<1>5. tx_queue' = tx_queue \o SubSeq(r, 1, Min({free_space(tx_queue, TxSize), Len(r)}))
  BY <1>4 DEF SendQueued, Enqueue
<1>a. free_space(tx_queue, TxSize) >= Len(r)
  BY <1>4 DEF SendQueued
<1>6. free_space(tx_queue, TxSize) \in Int /\ Len(r) \in Nat /\ Len(tx_queue) \in Nat
      /\ free_space(tx_queue, TxSize) = TxSize - 1 - Len(tx_queue) /\ TxSize \in Nat
  BY <1>3, LenProperties, ManagerAssumption DEF free_space
<1>7. tx_queue' = tx_queue \o r
  <2>1. Min({free_space(tx_queue, TxSize), Len(r)}) = Len(r)
    <3>1. PICK x \in Int : x = free_space(tx_queue, TxSize)
      BY <1>6
    <3>2. PICK n \in Int : n = Len(r)
      BY <1>6
    <3>3. x >= n
      BY <3>1, <3>2, <1>a
    <3>4. Min({x, n}) = n
      BY <3>3, MinOfTwo
    <3> QED
      BY <3>1, <3>2, <3>4
  <2>2. SubSeq(r, 1, Len(r)) = r
    BY SubSeqFull
  <2> QED
    BY <1>5, <2>1, <2>2
<1>8. tx_queue' \in Seq(Byte) /\ Len(tx_queue') < TxSize
  <2>1. tx_queue \o r \in Seq(Byte) /\ Len(tx_queue \o r) = Len(tx_queue) + Len(r)
    BY <1>3, ConcatProperties
  <2>2. Len(tx_queue) + Len(r) < TxSize
    BY <1>6, <1>a
  <2> QED
    BY <1>7, <2>1, <2>2
<1>9. /\ accepted' \in Seq(Packable) /\ accepted' \in Seq(Messages)
      /\ Len(accepted') = Len(accepted) + 1
      /\ \A i \in 1 .. Len(accepted) : accepted'[i] = accepted[i]
  <2>1. accepted \in Seq(Messages)
    BY DEF TxInv, TxTypeOK
  <2> QED
    BY <1>1, <1>2, <1>3, <2>1, AppendProperties
<1>10. popped' \in 0 .. Len(accepted')
  BY <1>2, <1>3, <1>9
<1>11. TxTypeOK'
  BY <1>1, <1>2, <1>8, <1>9, <1>10 DEF TxInv, TxTypeOK
<1>12. Queued' = Append(Queued, message) /\ Queued \in Seq(Packable)
  <2>1. PICK one \in Seq(Packable) : one = <<message>>
    <3>1. <<message>> \in Seq(Packable)
      BY <1>1
    <3> QED
      BY <3>1
  <2>2. accepted' = accepted \o one
    BY <1>1, <1>2, <1>3, <2>1, AppendIsConcat
  <2>3. SubSeq(accepted \o one, popped + 1, Len(accepted \o one))
          = SubSeq(accepted, popped + 1, Len(accepted)) \o one
    BY <1>3, BehindConcat
  <2>4. Queued \in Seq(Packable)
    BY <1>3, Behind DEF Queued
  <2>5. Append(Queued, message) = Queued \o one
    BY <1>1, <2>1, <2>4, AppendIsConcat
  <2> QED
    BY <1>2, <2>2, <2>3, <2>4, <2>5 DEF Queued
<1>13. tx_queue' = Records(Queued')
  BY <1>1, <1>3, <1>4, <1>7, <1>12, RecordsAppend
<1>14. BusyTracksTransfer' /\ NoSendWithinSend'
  BY <1>2 DEF TxInv, BusyTracksTransfer, NoSendWithinSend, InFlight
<1>15. FrameInHand'
  BY <1>1, <1>2 DEF FrameInHand
<1>16. CopyInFlight'
  BY <1>2 DEF TxInv, CopyInFlight, Holds, InFlight
<1> QED
  BY <1>2, <1>9, <1>11, <1>13, <1>14, <1>15, <1>16 DEF TxInv

\* The first record of the queue, and what lies behind it.
LEMMA FirstRecord ==
  ASSUME TxInv, Len(tx_queue) >= 2
  PROVE  /\ popped < Len(accepted) /\ popped + 1 \in 1 .. Len(accepted)
         /\ accepted[popped + 1] \in Packable
         /\ \E l \in Seq(Byte), f \in Seq(Byte), rest \in Seq(Byte) :
              /\ f = frame(accepted[popped + 1])
              /\ rest = Records(SubSeq(accepted, popped + 2, Len(accepted)))
              /\ Len(l) = 2 /\ l[1] + B * l[2] = Len(f)
              /\ tx_queue = (l \o f) \o rest
<1>1. /\ tx_queue \in Seq(Byte) /\ tx_queue = Records(Queued)
      /\ accepted \in Seq(Packable) /\ popped \in 0 .. Len(accepted) /\ Len(accepted) \in Nat
  BY LenProperties DEF TxInv, TxTypeOK
<1>2. /\ Queued \in Seq(Packable) /\ Len(Queued) = Len(accepted) - popped
      /\ \A i \in 1 .. Len(accepted) - popped : Queued[i] = accepted[popped + i]
  BY <1>1, Behind DEF Queued
<1>3. Queued # << >>
  <2> SUFFICES ASSUME Queued = << >> PROVE FALSE
    OBVIOUS
  <2>1. tx_queue = << >>
    BY <1>1, NoFrames
  <2> QED
    BY <2>1
<1>4. Len(Queued) \in Nat \ {0}
  BY <1>2, <1>3, EmptySeq
<1>5. popped < Len(accepted) /\ popped + 1 \in 1 .. Len(accepted) /\ popped \in Nat
  BY <1>1, <1>2, <1>4
<1>6. PICK m \in Packable : m = accepted[popped + 1] /\ m = Queued[1]
  <2>1. accepted[popped + 1] \in Packable
    BY <1>1, <1>5, ElementOfSeq
  <2>2. 1 \in 1 .. Len(accepted) - popped
    BY <1>1, <1>5
  <2> QED
    BY <1>2, <2>1, <2>2
<1>7. PICK others \in Seq(Packable) : others = SubSeq(accepted, popped + 2, Len(accepted))
                                      /\ others = SubSeq(Queued, 2, Len(Queued))
  <2>1. SubSeq(Queued, 2, Len(Queued)) = SubSeq(accepted, popped + 2, Len(accepted))
    BY <1>1, <1>5, SecondBehind DEF Queued
  <2>2. SubSeq(Queued, 2, Len(Queued)) \in Seq(Packable)
    BY <1>2, <1>3, OthersFacts
  <2> QED
    BY <2>1, <2>2
<1>8. PICK rest \in Seq(Byte) : rest = Records(others)
  BY RecordsType
<1>9. PICK l \in Seq(Byte) : /\ Len(l) = 2 /\ l[1] + B * l[2] = Len(frame(m))
                             /\ record(m) = l \o frame(m)
  BY PackableRecord
<1>10. PICK f \in Seq(Byte) : f = frame(m)
  BY PackableFrame
<1>11. Records(Queued) = record(m) \o rest
  BY <1>2, <1>3, <1>6, <1>7, <1>8, RecordsFirst
<1>12. tx_queue = (l \o f) \o rest
  BY <1>1, <1>9, <1>10, <1>11
<1> QED
  BY <1>5, <1>6, <1>7, <1>8, <1>9, <1>10, <1>12

LEMMA PopFrameTx ==
  ASSUME TxInv, ProcessPopFrame
  PROVE  TxInv'
<1> DEFINE length == tx_queue[1] + B * tx_queue[2]
           last == Min({2 + length, Len(tx_queue)})
<1>1. /\ main_pc = "app" /\ calls = << >> /\ ~tx_busy /\ Len(tx_queue) >= 2
      /\ frame_len' = length
      /\ pack_buf' = overwritten(pack_buf, SubSeq(tx_queue, 3, last))
      /\ tx_queue' = SubSeq(tx_queue, last + 1, Len(tx_queue))
      /\ tx_busy' = TRUE /\ popped' = popped + 1
      /\ main_pc' = "send" /\ event' = "none" /\ calls' = calls
      /\ _pack_status' = _pack_status /\ accepted' = accepted /\ handed' = handed
      /\ transfer_len' = transfer_len /\ shifted' = shifted /\ copied' = copied
  BY DEF ProcessPopFrame, PopFrame, transport_vars
<1>2. PICK m \in Packable : m = accepted[popped + 1]
  BY <1>1, FirstRecord
<1>3. PICK l \in Seq(Byte), f \in Seq(Byte), rest \in Seq(Byte) :
        /\ f = frame(m)
        /\ rest = Records(SubSeq(accepted, popped + 2, Len(accepted)))
        /\ Len(l) = 2 /\ l[1] + B * l[2] = Len(f)
        /\ tx_queue = (l \o f) \o rest
  BY <1>1, <1>2, FirstRecord
<1>4. Len(f) \in 7 .. PackSize /\ Len(f) \in Nat /\ Len(rest) \in Nat /\ PackSize \in Nat
  BY <1>3, PackableFrame, LenProperties, SizeFacts DEF PackSize, PROTOCOL_FRAME_OVERHEAD
<1>5. PICK r \in Seq(Byte) : /\ r = l \o f /\ Len(r) = 2 + Len(f) /\ r[1] = l[1] /\ r[2] = l[2]
  <2>1. /\ l \o f \in Seq(Byte) /\ Len(l \o f) = Len(l) + Len(f)
        /\ \A i \in 1 .. Len(l) : (l \o f)[i] = l[i]
    BY ConcatAt
  <2>2. Len(l) = 2 /\ 1 \in 1 .. 2 /\ 2 \in 1 .. 2
    BY <1>3
  <2>3. (l \o f)[1] = l[1] /\ (l \o f)[2] = l[2] /\ Len(l \o f) = 2 + Len(f)
    BY <2>1, <2>2
  <2> QED
    BY <2>1, <2>3
<1>6. /\ Len(tx_queue) = 2 + Len(f) + Len(rest) /\ tx_queue[1] = l[1] /\ tx_queue[2] = l[2]
  <2>1. /\ Len(r \o rest) = Len(r) + Len(rest)
        /\ \A i \in 1 .. Len(r) : (r \o rest)[i] = r[i]
    BY ConcatAt
  <2>2. 1 \in 1 .. Len(r) /\ 2 \in 1 .. Len(r)
    BY <1>4, <1>5
  <2> QED
    BY <1>3, <1>5, <2>1, <2>2
<1>7. length = Len(f)
  BY <1>3, <1>6
<1>8. last = 2 + Len(f)
  <2>1. PICK x \in Int, n \in Int : x = 2 + Len(f) /\ n = Len(tx_queue) /\ x <= n
    BY <1>4, <1>6
  <2>2. Min({x, n}) = x
    BY <2>1, MinOfTwo
  <2> QED
    BY <1>7, <2>1, <2>2
<1> HIDE DEF last, length
<1>9. SubSeq(tx_queue, 3, last) = f
  <2>1. SubSeq((l \o f) \o rest, Len(l) + 1, Len(l) + Len(f)) = f
    BY MiddleIs
  <2>2. Len(l) + 1 = 3 /\ Len(l) + Len(f) = last
    BY <1>3, <1>8
  <2> QED
    BY <1>3, <2>1, <2>2
<1>10. tx_queue' = rest
  <2>1. SubSeq(r \o rest, Len(r) + 1, Len(r \o rest)) = rest
    BY BehindIs
  <2> QED
    BY <1>1, <1>3, <1>5, <1>8, <2>1
<1>11. /\ pack_buf' \in [0 .. PackSize - 1 -> Byte]
       /\ \A i \in 0 .. Len(f) - 1 : pack_buf'[i] = f[i + 1]
  <2>1. pack_buf \in [0 .. PackSize - 1 -> Byte] /\ Len(f) <= PackSize
    BY <1>4 DEF TxInv, TxTypeOK
  <2> QED
    BY <1>1, <1>9, <2>1, OverwrittenIs
<1>12. popped' \in 0 .. Len(accepted') /\ popped' > 0
  <2>1. popped \in Nat /\ popped < Len(accepted) /\ Len(accepted) \in Nat
    BY <1>1, FirstRecord, LenProperties DEF TxInv, TxTypeOK
  <2> QED
    BY <1>1, <2>1
<1>13. Len(tx_queue') < TxSize
  <2>1. Len(tx_queue) < TxSize /\ TxSize \in Nat
    BY ManagerAssumption DEF TxInv, TxTypeOK
  <2> QED
    BY <1>4, <1>6, <1>10, <2>1
<1>14. frame_len' = Len(f) /\ frame_len' \in 0 .. PackSize
  BY <1>1, <1>4, <1>7
<1>15. TxTypeOK'
  BY <1>1, <1>10, <1>11, <1>12, <1>13, <1>14 DEF TxInv, TxTypeOK, Events
<1>16. tx_queue' = Records(Queued')
  <2>1. Queued' = SubSeq(accepted, popped + 2, Len(accepted))
    <3>1. popped \in Nat
      BY DEF TxInv, TxTypeOK
    <3>2. popped + 1 + 1 = popped + 2
      BY <3>1
    <3> QED
      BY <1>1, <3>2 DEF Queued
  <2> QED
    BY <1>3, <1>10, <2>1
<1>17. ~InFlight /\ InFlight' = InFlight
  BY <1>1 DEF TxInv, BusyTracksTransfer, InFlight
<1>18. BusyTracksTransfer' /\ NoSendWithinSend' /\ CopyInFlight'
  BY <1>1, <1>17 DEF BusyTracksTransfer, NoSendWithinSend, CopyInFlight
<1>19. FrameInHand'
  BY <1>1, <1>2, <1>3, <1>11, <1>12, <1>14 DEF FrameInHand, Holds
<1> QED
  BY <1>1, <1>15, <1>16, <1>18, <1>19 DEF TxInv

\* The frame in hand becomes the one in flight.
LEMMA TransportStartTx ==
  ASSUME TxInv, TransportStart
  PROVE  TxInv'
<1>1. /\ main_pc = "send" /\ main_pc' = "sent"
      /\ transfer_len' = frame_len /\ shifted' = 0
      /\ copied' = IF Copies THEN pack_buf ELSE copied
      /\ handed' = Append(handed, accepted[popped])
      /\ tx_queue' = tx_queue /\ tx_busy' = tx_busy /\ pack_buf' = pack_buf
      /\ frame_len' = frame_len /\ calls' = calls /\ event' = event
      /\ _pack_status' = _pack_status /\ accepted' = accepted /\ popped' = popped
  BY DEF TransportStart, process_unchanged
<1>2. popped > 0 /\ Holds(pack_buf, frame_len, accepted[popped])
  BY <1>1 DEF TxInv, FrameInHand
<1>3. PICK m \in Packable : m = accepted[popped]
  <2>1. popped \in 1 .. Len(accepted) /\ accepted \in Seq(Packable)
    BY <1>2, LenProperties DEF TxInv, TxTypeOK
  <2> QED
    BY <2>1, ElementOfSeq
<1>4. frame_len = Len(frame(m)) /\ frame_len \in 7 .. PackSize
  BY <1>2, <1>3, PackableFrame DEF Holds
<1>5. frame_len > 0 /\ 0 \in 0 .. frame_len /\ frame_len \in 0 .. PackSize
  BY <1>4, SizeFacts DEF PackSize, PROTOCOL_FRAME_OVERHEAD
<1>6. /\ handed' \in Seq(Packable) /\ Len(handed') = Len(handed) + 1 /\ Len(handed) \in Nat
      /\ handed'[Len(handed) + 1] = m
  BY <1>1, <1>3, AppendProperties, LenProperties DEF TxInv
<1>7. handed' # << >> /\ Last(handed') = m
  BY <1>6 DEF Last
<1>8. handed' \in Seq(Messages)
  <2>1. m \in Messages /\ handed \in Seq(Messages)
    BY PackableFrame DEF TxInv, TxTypeOK
  <2> QED
    BY <1>1, <1>3, <2>1, AppendProperties
<1>9. copied' \in [0 .. PackSize - 1 -> Byte]
  BY <1>1 DEF TxInv, TxTypeOK
<1>10. TxTypeOK'
  BY <1>1, <1>5, <1>8, <1>9 DEF TxInv, TxTypeOK
<1>11. Queued' = Queued
  BY <1>1 DEF Queued
<1>12. InFlight' /\ tx_busy
  BY <1>1, <1>5 DEF InFlight, TxInv, BusyTracksTransfer
<1>13. BusyTracksTransfer' /\ NoSendWithinSend' /\ FrameInHand'
  BY <1>1, <1>12 DEF TxInv, BusyTracksTransfer, NoSendWithinSend, FrameInHand
<1>14. CopyInFlight'
  BY <1>1, <1>2, <1>3, <1>4, <1>7 DEF CopyInFlight, Holds
<1> QED
  BY <1>1, <1>6, <1>10, <1>11, <1>13, <1>14 DEF TxInv

LEMMA TransportRefuseTx ==
  ASSUME TxInv, TransportRefuse
  PROVE  TxInv'
<1>1. /\ main_pc = "send" /\ main_pc' = "failed"
      /\ UNCHANGED <<tx_queue, tx_busy, _pack_status, pack_buf, copied, frame_len,
                     transfer_len, shifted, calls, event, accepted, popped, handed>>
  BY DEF TransportRefuse, process_unchanged, transport_vars
<1>2. TxTypeOK'
  BY <1>1 DEF TxInv, TxTypeOK
<1>3. Queued' = Queued /\ InFlight' = InFlight
  BY <1>1 DEF Queued, InFlight
<1> QED
  BY <1>1, <1>2, <1>3
     DEF TxInv, BusyTracksTransfer, NoSendWithinSend, FrameInHand, CopyInFlight, Holds

LEMMA ProcessSendFailedTx ==
  ASSUME TxInv, ProcessSendFailed
  PROVE  TxInv'
<1>1. /\ main_pc = "failed" /\ main_pc' = "rx" /\ tx_busy' = FALSE /\ event' = "TX_FAIL"
      /\ UNCHANGED <<tx_queue, _pack_status, pack_buf, copied, frame_len,
                     transfer_len, shifted, calls, accepted, popped, handed>>
  BY DEF ProcessSendFailed, process_unchanged, transport_vars
<1>2. TxTypeOK'
  BY <1>1 DEF TxInv, TxTypeOK, Events
<1>3. Queued' = Queued /\ InFlight' = InFlight
  BY <1>1 DEF Queued, InFlight
<1> QED
  BY <1>1, <1>2, <1>3
     DEF TxInv, BusyTracksTransfer, NoSendWithinSend, FrameInHand, CopyInFlight, Holds

LEMMA TransmitByteTx ==
  ASSUME TxInv, TransmitByte
  PROVE  TxInv'
<1>1. /\ InFlight /\ shifted < transfer_len /\ shifted' = shifted + 1
      /\ UNCHANGED <<tx_queue, tx_busy, _pack_status, pack_buf, copied, main_pc, frame_len,
                     transfer_len, calls, event, accepted, popped, handed>>
  BY DEF TransmitByte, main_unchanged, app_vars
<1>2. shifted' \in 0 .. transfer_len'
  <2>1. shifted \in 0 .. transfer_len /\ transfer_len \in Nat
    BY SizeFacts DEF TxInv, TxTypeOK, PackSize, PROTOCOL_FRAME_OVERHEAD
  <2> QED
    BY <1>1, <2>1
<1>3. TxTypeOK'
  BY <1>1, <1>2 DEF TxInv, TxTypeOK
<1>4. Queued' = Queued /\ InFlight' = InFlight
  BY <1>1 DEF Queued, InFlight
<1> QED
  BY <1>1, <1>3, <1>4
     DEF TxInv, BusyTracksTransfer, NoSendWithinSend, FrameInHand, CopyInFlight, Holds

LEMMA SendDoneTx ==
  ASSUME TxInv, comm_send_done_handler
  PROVE  TxInv'
<1>1. /\ InFlight /\ transfer_len' = 0 /\ shifted' = 0 /\ tx_busy' = FALSE
      /\ UNCHANGED <<tx_queue, _pack_status, pack_buf, copied, main_pc, frame_len,
                     calls, event, accepted, popped, handed>>
  BY DEF comm_send_done_handler, main_unchanged, app_vars
<1>2. 0 \in 0 .. PackSize /\ 0 \in 0 .. 0
  BY SizeFacts DEF PackSize, PROTOCOL_FRAME_OVERHEAD
<1>3. TxTypeOK'
  BY <1>1, <1>2 DEF TxInv, TxTypeOK
<1>4. Queued' = Queued /\ ~InFlight'
  BY <1>1 DEF Queued, InFlight
<1>5. main_pc \notin {"send", "failed"}
  BY <1>1 DEF TxInv, NoSendWithinSend
<1> QED
  BY <1>1, <1>3, <1>4, <1>5
     DEF TxInv, BusyTracksTransfer, NoSendWithinSend, FrameInHand, CopyInFlight, Holds

LEMMA TxNext == TxInv /\ [Next]_vars => TxInv'
<1> SUFFICES ASSUME TxInv, [Next]_vars PROVE TxInv'
  OBVIOUS
<1>0. /\ _pack_status \in {"COMM_OK", "COMM_ERR_QUEUE_FULL", "COMM_ERR_INVALID_ARG"}
      /\ pack_buf \in [0 .. PackSize - 1 -> Byte] /\ calls \in Seq(Call)
      /\ event \in {"none", "TX_FAIL", "QUEUE_FULL", "RX_DONE", "PROTOCOL_ERROR"}
  BY DEF TxInv, TxTypeOK, Events
<1>1. CASE UNCHANGED vars
  BY <1>1, TxSame DEF vars, app_vars, transport_vars
<1>2. CASE SendEmpty
  BY <1>2, FailedSendTx DEF SendEmpty
<1>3. ASSUME NEW m \in Messages, SendRefused(m) \/ SendFull(m) PROVE TxInv'
  BY <1>3, FailedSendTx
<1>4. ASSUME NEW m \in Messages, SendQueued(m) PROVE TxInv'
  BY <1>4, SendQueuedTx
<1>5. CASE SendReturn
  <2>1. Head(calls) \in Call
    BY <1>0, <1>5, HeadAndTail DEF SendReturn
  <2>2. Head(calls).message \in Messages
    BY <2>1 DEF Call
  <2> QED
    BY <1>5, <2>2, FailedSendTx
<1>6. CASE ProcessNoTx
  BY <1>0, <1>6, TxRest DEF ProcessNoTx, transport_vars
<1>7. CASE ProcessPopFrame
  BY <1>7, PopFrameTx
<1>8. CASE TransportStart
  BY <1>8, TransportStartTx
<1>9. CASE TransportRefuse
  BY <1>9, TransportRefuseTx
<1>10. CASE ProcessSendOk
  BY <1>0, <1>10, TxRest DEF ProcessSendOk, process_unchanged, transport_vars
<1>11. CASE ProcessSendFailed
  BY <1>11, ProcessSendFailedTx
<1>12. CASE ProcessByte
  BY <1>0, <1>12, TxRest DEF ProcessByte, process_unchanged, transport_vars
<1>13. CASE ProcessReturn
  BY <1>0, <1>13, TxRest DEF ProcessReturn, process_unchanged, transport_vars
<1>14. CASE TransmitByte
  BY <1>14, TransmitByteTx
<1>15. CASE comm_send_done_handler
  BY <1>15, SendDoneTx
<1>16. CASE Receive
  BY <1>16, TxSame DEF Receive, comm_on_receive, Arrive, main_unchanged, app_vars
<1> QED
  BY <1>1, <1>2, <1>3, <1>4, <1>5, <1>6, <1>7, <1>8, <1>9, <1>10, <1>11, <1>12, <1>13,
     <1>14, <1>15, <1>16 DEF Next, comm_send, comm_process

-----------------------------------------------------------------------------
(* The invariant of the receive side.                                      *)

LEMMA ParserSame ==
  ASSUME ParserTypeOK, LockInv, FailureIsReal, UNCHANGED parser_vars
  PROVE  ParserTypeOK' /\ LockInv' /\ FailureIsReal' /\ locked' = locked
<1>1. ParserTypeOK' /\ LockInv' /\ FailureIsReal'
  BY LockNext
<1> QED
  BY <1>1 DEF locked, parser_vars

LEMMA UnshiftedFacts ==
  ASSUME TxInv
  PROVE  /\ shifted \in Nat /\ transfer_len \in Nat /\ shifted <= transfer_len
         /\ HasType(copied, shifted, transfer_len, Byte)
         /\ Unshifted = Window(copied, shifted, transfer_len)
         /\ Unshifted \in Seq(Byte)
<1>1. /\ transfer_len \in 0 .. PackSize /\ shifted \in 0 .. transfer_len
      /\ copied \in [0 .. PackSize - 1 -> Byte] /\ PackSize \in Nat
  BY SizeFacts DEF TxInv, TxTypeOK, PackSize, PROTOCOL_FRAME_OVERHEAD
<1>2. shifted \in Nat /\ transfer_len \in Nat /\ shifted <= transfer_len
  BY <1>1
<1>3. HasType(copied, shifted, transfer_len, Byte)
  <2>1. \A i \in shifted .. transfer_len - 1 : i \in 0 .. PackSize - 1
    BY <1>1
  <2> QED
    BY <1>1, <2>1 DEF HasType
<1>4. Unshifted = Window(copied, shifted, transfer_len)
  BY DEF Unshifted, Window
<1> QED
  BY <1>2, <1>3, <1>4, WindowType

LEMMA RxInit == Init => RxInv
<1> SUFFICES ASSUME Init PROVE RxInv
  OBVIOUS
<1>1. ParserTypeOK /\ LockInv
  BY InitLock DEF Init
<1>2. FailureIsReal
  BY DEF Init, ParserInit, FailureIsReal
<1>3. << >> \in Seq(Byte) /\ << >> \in Seq(Seq(Byte)) /\ << >> \in Seq(Packable) /\ Len(<< >>) = 0
  OBVIOUS
<1>4. 0 < RxSize
  BY ManagerAssumption
<1>5. RxTypeOK
  BY <1>1, <1>3, <1>4 DEF Init, RxTypeOK
<1>6. locked = << >>
  BY DEF Init, ParserInit, protocol_reset, locked
<1>7. Unshifted = << >>
  BY DEF Init, Unshifted
<1>8. Undelivered = << >> /\ SubSeq(handed, 1, Len(delivered)) = << >>
  <2>1. Undelivered = SubSeq(<< >>, 0 + 1, 0) /\ SubSeq(handed, 1, Len(delivered)) = SubSeq(<< >>, 1, 0)
    BY <1>3 DEF Init, Undelivered
  <2> QED
    BY <2>1, SubSeqEmpty
<1>9. ToCome = << >>
  <2>1. << >> \o << >> = << >>
    BY <1>3, ConcatEmptySeq
  <2> QED
    BY <1>6, <1>7, <2>1 DEF Init, ToCome
<1>10. NothingMissed
  BY <1>3, <1>6, <1>8, <1>9, NoFrames DEF Init, NothingMissed, EveryFrameParses
<1> QED
  BY <1>1, <1>2, <1>5, <1>10 DEF RxInv

\* Whatever leaves parser, bytes on their way and deliveries alone.
LEMMA RxSame ==
  ASSUME RxInv, UNCHANGED <<rx_queue, line, delivered, overflowed, handed>>,
         UNCHANGED parser_vars, Unshifted' = Unshifted,
         Copies /\ MessagesFit /\ ~overflowed => event' = event \/ event' # "PROTOCOL_ERROR"
  PROVE  RxInv'
<1>1. ParserTypeOK' /\ LockInv' /\ FailureIsReal' /\ locked' = locked
  BY ParserSame DEF RxInv, RxTypeOK
<1>2. RxTypeOK'
  BY <1>1 DEF RxInv, RxTypeOK
<1>3. ToCome' = ToCome /\ Undelivered' = Undelivered
  BY <1>1 DEF ToCome, Undelivered
<1>4. NothingMissed'
  BY <1>1, <1>3 DEF RxInv, NothingMissed, EveryFrameParses
<1> QED
  BY <1>1, <1>2, <1>4 DEF RxInv

\* What is handed to the transport lengthens both sides by its frame.
LEMMA TransportStartRx ==
  ASSUME TxInv, RxInv, TransportStart
  PROVE  RxInv'
<1>1. /\ main_pc = "send" /\ transfer_len' = frame_len /\ shifted' = 0
      /\ copied' = IF Copies THEN pack_buf ELSE copied
      /\ handed' = Append(handed, accepted[popped])
      /\ UNCHANGED parser_vars /\ rx_queue' = rx_queue /\ event' = event /\ line' = line
      /\ delivered' = delivered /\ overflowed' = overflowed
  BY DEF TransportStart, process_unchanged
<1>2. ParserTypeOK' /\ LockInv' /\ FailureIsReal' /\ locked' = locked
  BY <1>1, ParserSame DEF RxInv, RxTypeOK
<1>3. RxTypeOK'
  BY <1>1, <1>2 DEF RxInv, RxTypeOK
<1>4. /\ locked \in Seq(Byte) /\ rx_queue \in Seq(Byte) /\ line \in Seq(Byte)
      /\ delivered \in Seq(Seq(Byte)) /\ handed \in Seq(Packable)
  BY DEF RxInv, RxTypeOK, locked, ParserTypeOK, TxInv
<1>5. popped > 0 /\ Holds(pack_buf, frame_len, accepted[popped]) /\ ~InFlight
  BY <1>1 DEF TxInv, FrameInHand, NoSendWithinSend
<1>6. PICK m \in Packable : m = accepted[popped]
  <2>1. popped \in 1 .. Len(accepted) /\ accepted \in Seq(Packable)
    BY <1>5, LenProperties DEF TxInv, TxTypeOK
  <2> QED
    BY <2>1, ElementOfSeq
<1>7. PICK f \in Seq(Byte) : f = frame(m) /\ Len(f) = frame_len /\ frame_len \in Nat
  BY <1>5, <1>6, PackableFrame DEF Holds
<1>8. ASSUME Copies, MessagesFit, ~overflowed PROVE NothingMissed'
  <2>1. /\ Len(delivered) <= Len(handed)
        /\ delivered = SubSeq(handed, 1, Len(delivered))
        /\ ToCome = Frames(Undelivered)
        /\ locked # << >> => /\ Len(delivered) < Len(handed)
                            /\ Len(locked) < Len(frame(handed[Len(delivered) + 1]))
        /\ EveryFrameParses
    BY <1>8 DEF RxInv, NothingMissed
  <2>a. Len(delivered) <= Len(handed)
    BY <1>8 DEF RxInv, NothingMissed
  <2>b. Len(delivered) \in Nat /\ Len(handed) \in Nat
    BY <1>4, LenProperties
  <2>c. Len(delivered) \in 0 .. Len(handed)
    BY <2>a, <2>b
  <2>2. PICK n \in 0 .. Len(handed) : n = Len(delivered) /\ Len(handed) \in Nat
    BY <2>b, <2>c
  <2>3. Unshifted = << >>
    <3>1. transfer_len - shifted = 0
      BY <1>5, UnshiftedFacts DEF InFlight
    <3> QED
      BY <3>1 DEF Unshifted
  <2>4. Unshifted' = f
    <3>1. Unshifted' = [k \in 1 .. frame_len - 0 |-> pack_buf[0 + k - 1]]
      BY <1>1, <1>8 DEF Unshifted
    <3>2. ASSUME NEW k \in 1 .. frame_len PROVE pack_buf[0 + k - 1] = f[k]
      <4>1. k - 1 \in 0 .. frame_len - 1 /\ 0 + k - 1 = k - 1 /\ k - 1 + 1 = k
        BY <1>7
      <4>2. pack_buf[k - 1] = f[k - 1 + 1]
        BY <1>5, <1>6, <1>7, <4>1 DEF Holds
      <4> QED
        BY <4>1, <4>2
    <3>3. frame_len - 0 = frame_len
      BY <1>7
    <3>4. f = [k \in 1 .. frame_len |-> f[k]]
      BY <1>7, LenProperties
    <3> QED
      BY <3>1, <3>2, <3>3, <3>4
  <2>5. ToCome' = ToCome \o f
    <3>1. line \o << >> = line
      BY <1>4, ConcatEmptySeq
    <3>2. PICK q \in Seq(Byte) : q = rx_queue \o line
      BY <1>4, ConcatProperties
    <3>3. (rx_queue \o line) \o f = rx_queue \o (line \o f)
      <4>1. Associates(rx_queue, line, f)
        BY <1>4, JoinAssociates
      <4> QED
        BY <4>1 DEF Associates
    <3>4. (locked \o q) \o f = locked \o (q \o f)
      <4>1. Associates(locked, q, f)
        BY <1>4, JoinAssociates
      <4> QED
        BY <4>1 DEF Associates
    <3>5. ToCome = locked \o q
      BY <2>3, <3>1, <3>2 DEF ToCome
    <3>6. ToCome' = locked \o (rx_queue \o (line \o f))
      BY <1>1, <1>2, <2>4 DEF ToCome
    <3> QED
      BY <3>2, <3>3, <3>4, <3>5, <3>6
  <2>6. /\ handed' \in Seq(Packable) /\ Len(handed') = Len(handed) + 1
        /\ \A i \in 1 .. Len(handed) : handed'[i] = handed[i]
    BY <1>1, <1>4, <1>6, AppendProperties
  <2>7. Undelivered' = Append(Undelivered, m) /\ Undelivered \in Seq(Packable)
    <3>1. PICK one \in Seq(Packable) : one = <<m>>
      <4>1. <<m>> \in Seq(Packable)
        OBVIOUS
      <4> QED
        BY <4>1
    <3>2. handed' = handed \o one
      BY <1>1, <1>4, <1>6, <3>1, AppendIsConcat
    <3>3. SubSeq(handed \o one, n + 1, Len(handed \o one))
            = SubSeq(handed, n + 1, Len(handed)) \o one
      BY <1>4, BehindConcat
    <3>4. Undelivered \in Seq(Packable)
      BY <1>4, <2>2, Behind DEF Undelivered
    <3>5. Append(Undelivered, m) = Undelivered \o one
      BY <3>1, <3>4, AppendIsConcat
    <3> QED
      BY <1>1, <2>2, <3>2, <3>3, <3>4, <3>5 DEF Undelivered
  <2>8. ToCome' = Frames(Undelivered')
    BY <1>7, <2>1, <2>5, <2>7, FramesAppend
  <2>9. delivered' = SubSeq(handed', 1, n)
    <3>1. /\ SubSeq(handed, 1, n) \in Seq(Packable) /\ Len(SubSeq(handed, 1, n)) = n
          /\ \A i \in 1 .. n : SubSeq(handed, 1, n)[i] = handed[i]
      BY <1>4, Behind
    <3>2. n \in 0 .. Len(handed')
      BY <2>2, <2>6
    <3>3. /\ SubSeq(handed', 1, n) \in Seq(Packable) /\ Len(SubSeq(handed', 1, n)) = n
          /\ \A i \in 1 .. n : SubSeq(handed', 1, n)[i] = handed'[i]
      BY <2>6, <3>2, Behind
    <3>4. \A i \in 1 .. n : handed'[i] = handed[i]
      BY <2>2, <2>6
    <3>5. SubSeq(handed', 1, n) = SubSeq(handed, 1, n)
      BY <3>1, <3>3, <3>4, SeqEqual
    <3> QED
      BY <1>1, <2>1, <2>2, <3>5
  <2>10. locked # << >> =>
           n < Len(handed') /\ Len(locked) < Len(frame(handed'[n + 1]))
    <3> SUFFICES ASSUME locked # << >>
                 PROVE  n < Len(handed') /\ Len(locked) < Len(frame(handed'[n + 1]))
      OBVIOUS
    <3>1. n < Len(handed) /\ Len(locked) < Len(frame(handed[n + 1]))
      BY <2>1, <2>2
    <3>2. n + 1 \in 1 .. Len(handed) /\ n < Len(handed')
      BY <2>2, <2>6, <3>1
    <3> QED
      BY <2>6, <3>1, <3>2
  <2>11. n <= Len(handed') /\ n = Len(delivered') /\ EveryFrameParses'
    BY <1>1, <2>1, <2>2, <2>6 DEF EveryFrameParses
  <2> QED
    BY <1>2, <2>8, <2>9, <2>10, <2>11 DEF NothingMissed
<1>9. NothingMissed'
  <2>1. ~(Copies /\ MessagesFit /\ ~overflowed) => NothingMissed'
    <3>1. MessagesFit' = MessagesFit
      BY DEF MessagesFit
    <3> QED
      BY <1>1, <3>1 DEF NothingMissed
  <2> QED
    BY <1>8, <2>1
<1> QED
  BY <1>2, <1>3, <1>9 DEF RxInv

\* A byte moves from the transfer to the line.
LEMMA TransmitByteRx ==
  ASSUME TxInv, RxInv, TransmitByte
  PROVE  RxInv'
<1>1. /\ shifted < transfer_len /\ shifted' = shifted + 1
      /\ line' = Append(line, IF Copies THEN copied[shifted] ELSE pack_buf[shifted])
      /\ UNCHANGED parser_vars /\ transfer_len' = transfer_len /\ copied' = copied
      /\ UNCHANGED <<rx_queue, delivered, overflowed, handed, event>>
  BY DEF TransmitByte, main_unchanged, app_vars
<1>2. ParserTypeOK' /\ LockInv' /\ FailureIsReal' /\ locked' = locked
  BY <1>1, ParserSame DEF RxInv, RxTypeOK
<1>3. /\ locked \in Seq(Byte) /\ rx_queue \in Seq(Byte) /\ line \in Seq(Byte)
  BY DEF RxInv, RxTypeOK, locked, ParserTypeOK
<1>4. /\ shifted \in Nat /\ transfer_len \in Nat
      /\ HasType(copied, shifted, transfer_len, Byte)
      /\ Unshifted = Window(copied, shifted, transfer_len)
  BY UnshiftedFacts
<1>5. /\ copied[shifted] \in Byte
      /\ Window(copied, shifted + 1, transfer_len) \in Seq(Byte)
      /\ Window(copied, shifted, transfer_len)
           = <<copied[shifted]>> \o Window(copied, shifted + 1, transfer_len)
  BY <1>1, <1>4, WindowMoves
<1>6. line' \in Seq(Byte)
  <2>1. pack_buf[shifted] \in Byte
    <3>1. shifted \in 0 .. PackSize - 1
      BY <1>1, <1>4, SizeFacts DEF TxInv, TxTypeOK, PackSize, PROTOCOL_FRAME_OVERHEAD
    <3> QED
      BY <3>1 DEF TxInv, TxTypeOK
  <2>2. (IF Copies THEN copied[shifted] ELSE pack_buf[shifted]) \in Byte
    BY <1>5, <2>1
  <2> QED
    BY <1>1, <1>3, <2>2, AppendProperties
<1>7. RxTypeOK'
  BY <1>1, <1>2, <1>6 DEF RxInv, RxTypeOK
<1>8. Undelivered' = Undelivered
  BY <1>1 DEF Undelivered
<1>9. ASSUME Copies PROVE ToCome' = ToCome
  <2>1. PICK b \in Byte : b = copied[shifted]
    BY <1>5
  <2>2. PICK u \in Seq(Byte) : u = Window(copied, shifted + 1, transfer_len)
    BY <1>5
  <2>3. Unshifted = <<b>> \o u /\ Unshifted' = u
    <3>1. Unshifted' = Window(copied, shifted + 1, transfer_len)
      BY <1>1 DEF Unshifted, Window
    <3> QED
      BY <1>4, <1>5, <2>1, <2>2, <3>1
  <2>4. Append(line, b) \o u = line \o (<<b>> \o u)
    <3>1. <<b>> \in Seq(Byte) /\ line \in Seq(Byte)
      BY <1>3
    <3>2. Append(line, b) = line \o <<b>>
      BY <3>1, AppendIsConcat
    <3>3. (line \o <<b>>) \o u = line \o (<<b>> \o u)
      <4>1. Associates(line, <<b>>, u)
        BY <3>1, JoinAssociates
      <4> QED
        BY <4>1 DEF Associates
    <3> QED
      BY <3>2, <3>3
  <2>5. line' = Append(line, b)
    BY <1>1, <1>9, <2>1
  <2> QED
    BY <1>1, <1>2, <2>3, <2>4, <2>5 DEF ToCome
<1>10. NothingMissed'
  BY <1>1, <1>2, <1>8, <1>9 DEF RxInv, NothingMissed, EveryFrameParses, MessagesFit
<1> QED
  BY <1>2, <1>7, <1>10 DEF RxInv

\* What fits of a chunk moves from the line to the RX queue.
LEMMA ReceiveRx ==
  ASSUME TxInv, RxInv, NEW n \in 1 .. MaxChunk, comm_on_receive(n)
  PROVE  RxInv'
<1> DEFINE written == Min({n, free_space(rx_queue, RxSize)})
<1>1. /\ n <= Len(line) /\ rx_queue' = rx_queue \o SubSeq(line, 1, written)
      /\ line' = SubSeq(line, n + 1, Len(line))
      /\ overflowed' = (overflowed \/ written < n)
      /\ UNCHANGED parser_vars
      /\ UNCHANGED <<delivered, handed, event, transfer_len, shifted, copied>>
  BY DEF comm_on_receive, Arrive, main_unchanged, app_vars
<1>2. ParserTypeOK' /\ LockInv' /\ FailureIsReal' /\ locked' = locked
  BY <1>1, ParserSame DEF RxInv, RxTypeOK
<1>3. /\ locked \in Seq(Byte) /\ rx_queue \in Seq(Byte) /\ line \in Seq(Byte)
  BY DEF RxInv, RxTypeOK, locked, ParserTypeOK
<1>4. n \in Nat /\ n \in 0 .. Len(line) /\ Len(line) \in Nat
  BY <1>1, <1>3, ManagerAssumption, LenProperties
<1>5. /\ RxSize - 1 - Len(rx_queue) \in Nat /\ Len(rx_queue) \in Nat /\ RxSize \in Nat
      /\ free_space(rx_queue, RxSize) = RxSize - 1 - Len(rx_queue)
  BY <1>3, ManagerAssumption DEF RxInv, RxTypeOK, free_space
<1>6. /\ written \in Nat /\ written <= n /\ written \in 0 .. Len(line)
      /\ written <= RxSize - 1 - Len(rx_queue)
  <2>1. PICK x \in Nat : x = free_space(rx_queue, RxSize)
    BY <1>5
  <2>2. written = IF n <= x THEN n ELSE x
    BY <1>4, <2>1, MinOfTwo
  <2> HIDE DEF written
  <2>3. written \in Nat /\ written <= n /\ written <= x
    BY <1>4, <2>2
  <2> QED
    BY <1>4, <1>5, <2>1, <2>3
<1> HIDE DEF written
<1>7. PICK chunk \in Seq(Byte) : chunk = SubSeq(line, 1, written) /\ Len(chunk) = written
  <2>1. SubSeq(line, 1, written) \in Seq(Byte) /\ Len(SubSeq(line, 1, written)) = written
    BY <1>3, <1>6, Behind
  <2> QED
    BY <2>1
<1>8. PICK rest \in Seq(Byte) : rest = SubSeq(line, n + 1, Len(line))
  BY <1>3, <1>4, Behind
<1>9. rx_queue' \in Seq(Byte) /\ Len(rx_queue') < RxSize
  <2>1. rx_queue \o chunk \in Seq(Byte) /\ Len(rx_queue \o chunk) = Len(rx_queue) + Len(chunk)
    BY <1>3, ConcatProperties
  <2>2. Len(rx_queue) + written < RxSize
    BY <1>5, <1>6
  <2> QED
    BY <1>1, <1>7, <2>1, <2>2
<1>10. overflowed' \in BOOLEAN
  BY <1>1
<1>11. RxTypeOK'
  BY <1>1, <1>2, <1>8, <1>9, <1>10 DEF RxInv, RxTypeOK
<1>12. Undelivered' = Undelivered /\ Unshifted' = Unshifted
  BY <1>1 DEF Undelivered, Unshifted
<1>13. ASSUME ~overflowed' PROVE ToCome' = ToCome
  <2>a. ~(written < n)
    BY <1>1, <1>13
  <2>1. written = n
    BY <1>4, <1>6, <2>a
  <2>2. line = chunk \o rest
    BY <1>3, <1>4, <1>7, <1>8, <2>1, Behind
  <2>3. PICK u \in Seq(Byte) : u = Unshifted
    BY UnshiftedFacts
  <2>4. (chunk \o rest) \o u = chunk \o (rest \o u)
    <3>1. Associates(chunk, rest, u)
      BY JoinAssociates
    <3> QED
      BY <3>1 DEF Associates
  <2>5. PICK z \in Seq(Byte) : z = rest \o u
    BY ConcatProperties
  <2>6. (rx_queue \o chunk) \o z = rx_queue \o (chunk \o z)
    <3>1. Associates(rx_queue, chunk, z)
      BY <1>3, JoinAssociates
    <3> QED
      BY <3>1 DEF Associates
  <2>7. ToCome' = locked \o ((rx_queue \o chunk) \o (rest \o u))
    BY <1>1, <1>2, <1>7, <1>8, <1>12, <2>3 DEF ToCome
  <2>8. ToCome = locked \o (rx_queue \o ((chunk \o rest) \o u))
    BY <2>2, <2>3 DEF ToCome
  <2> QED
    BY <2>4, <2>5, <2>6, <2>7, <2>8
<1>14. NothingMissed'
  BY <1>1, <1>2, <1>12, <1>13 DEF RxInv, NothingMissed, EveryFrameParses, MessagesFit
<1> QED
  BY <1>2, <1>11, <1>14 DEF RxInv

-----------------------------------------------------------------------------
(* One round of the RX loop.                                               *)

LEMMA CompleteAfter ==
  (ParserTypeOK /\ LockInv /\ FailureIsReal => AcceptsFrames)'
BY CompleteFromLock, PTL

LEMMA LengthAfter ==
  (ParserTypeOK /\ LengthRead => unpack_length \in Nat /\ unpack_length <= OutputSize)'
<1>1. ParserTypeOK /\ LengthRead => unpack_length \in Nat /\ unpack_length <= OutputSize
  BY LengthFacts, SizeFacts
<1> QED
  BY <1>1, PTL

\* Behind what it is locked on and the byte it is fed, the parser finds the
\* rest of a frame that fits rx_buf: it goes on, or it has reached the end.
LEMMA ParserFollows ==
  ASSUME ParserTypeOK, LockInv, FailureIsReal, NEW b \in Byte, feed(b),
         NEW m \in Packable, packable(Len(m), OutputSize),
         NEW rest \in Seq(Byte), NEW y \in Seq(Byte), Len(locked) < Len(frame(m))
  PROVE  Append(locked, b) \o rest = frame(m) \o y
           => \/ /\ outcome' = "pending" /\ locked' = Append(locked, b)
                 /\ Len(locked') < Len(frame(m))
              \/ /\ outcome' = "done" /\ payload' = m /\ locked' = << >> /\ rest = y
<1>0. SUFFICES ASSUME Append(locked, b) \o rest = frame(m) \o y
               PROVE  \/ /\ outcome' = "pending" /\ locked' = Append(locked, b)
                         /\ Len(locked') < Len(frame(m))
                      \/ /\ outcome' = "done" /\ payload' = m /\ locked' = << >> /\ rest = y
  OBVIOUS
<1>1. locked \in Seq(Byte)
  BY DEF locked, ParserTypeOK
<1>2. PICK f \in Seq(Byte) : f = frame(m) /\ Len(f) = Len(m) + 6 /\ f[1] = PROTOCOL_START_BYTE
  BY PackableFrame
<1>3. PICK c \in Seq(Byte) : /\ c = Append(locked, b) /\ Len(c) = Len(locked) + 1
                             /\ c[Len(locked) + 1] = b
  BY <1>1, AppendProperties
<1>4. Len(c) \in 1 .. Len(f) /\ Len(c) <= Len(f)
  <2>1. Len(locked) \in Nat /\ Len(f) \in Nat
    BY <1>1, LenProperties
  <2> QED
    BY <1>2, <1>3, <2>1
<1>5. c = SubSeq(f, 1, Len(c)) /\ (Len(c) = Len(f) => rest = y)
  <2>1. SameJoin(c, rest, f, y)
    BY <1>0, <1>2, <1>3 DEF SameJoin
  <2>2. IsFront(c, f) /\ (Len(c) = Len(f) => rest = y)
    BY <1>4, <2>1, PrefixOfConcat
  <2> QED
    BY <2>2 DEF IsFront
<1>6. ParserTypeOK' /\ LockInv' /\ FailureIsReal'
  BY LockNext DEF ParserNext
<1>7. candidate' = c
  <2>1. CASE WaitStart(b)
    <3>1. locked = << >>
      BY <2>1 DEF WaitStart, locked
    <3>2. c = <<b>> /\ Len(c) = 1 /\ c[1] = b
      BY <1>3, <3>1
    <3>3. c[1] = f[1]
      <4>1. 1 \in 0 .. Len(f)
        BY <1>4, <3>2
      <4>2. \A i \in 1 .. 1 : SubSeq(f, 1, 1)[i] = f[i]
        BY <4>1, Behind
      <4> QED
        BY <1>5, <3>2, <4>2
    <3> QED
      BY <1>2, <2>1, <3>2, <3>3 DEF WaitStart
  <2>2. CASE state # "WAIT_START" /\ candidate' = Append(candidate, b)
    BY <1>3, <2>2 DEF locked
  <2> QED
    BY <2>1, <2>2 DEF feed, ReadLengthHigh, ReadLengthLow, ReadPayload,
                      ReadCrcHigh, ReadCrcLow, ReadStop
<1>8. m \in BytesUpTo(OutputSize - PROTOCOL_FRAME_OVERHEAD)
  <2>1. m \in Seq(Byte)
    BY PackableFrame
  <2>2. Len(m) \in Nat /\ Len(m) <= OutputSize - 6 /\ OutputSize - 6 \in Nat
    BY <2>1, PackableIs, LenProperties, SizeFacts DEF PROTOCOL_FRAME_OVERHEAD
  <2> QED
    BY <2>1, <2>2, InBytesUpTo DEF PROTOCOL_FRAME_OVERHEAD
<1>9. IF Len(c) < Len(f) THEN state' # "WAIT_START" ELSE outcome' = "done" /\ payload' = m
  <2>1. AcceptsFrames'
    BY <1>6, CompleteAfter
  <2>2. Len(c) \in 1 .. Len(f) /\ candidate' # << >>
    BY <1>3, <1>4, <1>7
  <2> QED
    BY <1>2, <1>5, <1>7, <1>8, <2>1, <2>2 DEF AcceptsFrames
<1>10. CASE Len(c) < Len(f)
  <2>1. state' # "WAIT_START"
    BY <1>9, <1>10
  <2>2. outcome' = "pending"
    BY <1>6, <2>1 DEF LockInv
  <2> QED
    BY <1>2, <1>3, <1>7, <1>10, <2>1, <2>2 DEF locked
<1>11. CASE ~(Len(c) < Len(f))
  <2>1. outcome' = "done" /\ payload' = m
    BY <1>9, <1>11
  <2>2. state' = "WAIT_START"
    BY <1>6, <2>1 DEF LockInv
  <2>3. Len(c) = Len(f)
    BY <1>4, <1>11
  <2> QED
    BY <1>5, <2>1, <2>2, <2>3 DEF locked
<1> QED
  BY <1>10, <1>11

LEMMA ProcessByteRx ==
  ASSUME TxInv, RxInv, ProcessByte
  PROVE  RxInv'
<1>1. /\ rx_queue # << >> /\ feed(Head(rx_queue)) /\ rx_queue' = Tail(rx_queue)
      /\ \/ outcome' = "pending" /\ event' = "none" /\ delivered' = delivered
         \/ /\ outcome' = "done" /\ event' = "RX_DONE"
            /\ delivered' = Append(delivered, payload')
         \/ /\ outcome' \notin {"pending", "done"} /\ event' = "PROTOCOL_ERROR"
            /\ delivered' = delivered
      /\ UNCHANGED <<line, transfer_len, shifted, copied, handed, overflowed>>
  BY DEF ProcessByte, process_unchanged, transport_vars
<1>2. /\ rx_queue \in Seq(Byte) /\ line \in Seq(Byte) /\ locked \in Seq(Byte)
      /\ handed \in Seq(Packable) /\ delivered \in Seq(Seq(Byte))
  BY DEF RxInv, RxTypeOK, locked, ParserTypeOK, TxInv
<1>3. PICK b \in Byte, t \in Seq(Byte) :
        /\ b = Head(rx_queue) /\ t = Tail(rx_queue)
        /\ <<b>> \o t = rx_queue /\ Len(t) = Len(rx_queue) - 1
  BY <1>1, <1>2, HeadAndTail
<1>4. feed(b)
  BY <1>1, <1>3
<1>5. ParserTypeOK' /\ LockInv' /\ FailureIsReal'
  BY <1>4, LockNext DEF RxInv, RxTypeOK, ParserNext
<1>6. outcome' = "done" => payload' \in Seq(Byte)
  <2> SUFFICES ASSUME outcome' = "done" PROVE payload' \in Seq(Byte)
    OBVIOUS
  <2>1. LengthRead'
    BY <1>5 DEF LockInv, TrailerRead
  <2>2. unpack_length' \in Nat /\ unpack_length' <= OutputSize
    BY <1>5, <2>1, LengthAfter
  <2>3. OutputSize \in Nat /\ output' \in [0 .. OutputSize - 1 -> Byte]
    BY <1>5, SizeFacts DEF ParserTypeOK
  <2>4. PICK n \in Nat : n = unpack_length' /\ n <= OutputSize
    BY <2>2
  <2>5. \A i \in 1 .. n : i - 1 \in 0 .. OutputSize - 1
    BY <2>3, <2>4
  <2>6. payload' = [i \in 1 .. n |-> output'[i - 1]]
    BY <2>4 DEF payload
  <2>7. \A i \in 1 .. n : output'[i - 1] \in Byte
    BY <2>3, <2>5
  <2>8. [i \in 1 .. n |-> output'[i - 1]] \in Seq(Byte)
    BY <2>4, <2>7, IsASeq
  <2> QED
    BY <2>6, <2>8
<1>7. RxTypeOK'
  <2>1. delivered' \in Seq(Seq(Byte))
    <3>1. CASE delivered' = delivered
      BY <1>2, <3>1
    <3>2. CASE outcome' = "done" /\ delivered' = Append(delivered, payload')
      BY <1>2, <1>6, <3>2, AppendProperties
    <3> QED
      BY <1>1, <3>1, <3>2
  <2>2. Len(rx_queue') < RxSize
    <3>1. Len(rx_queue) \in Nat /\ Len(rx_queue) < RxSize /\ RxSize \in Nat
      BY <1>2, ManagerAssumption DEF RxInv, RxTypeOK
    <3> QED
      BY <1>1, <1>3, <3>1
  <2> QED
    BY <1>1, <1>3, <1>5, <2>1, <2>2 DEF RxInv, RxTypeOK
<1>8. ASSUME Copies, MessagesFit, ~overflowed PROVE NothingMissed'
  <2>1. /\ delivered = SubSeq(handed, 1, Len(delivered))
        /\ ToCome = Frames(Undelivered)
        /\ locked # << >> => /\ Len(delivered) < Len(handed)
                            /\ Len(locked) < Len(frame(handed[Len(delivered) + 1]))
    BY <1>8 DEF RxInv, NothingMissed
  <2>2. PICK n \in 0 .. Len(handed) : n = Len(delivered)
    <3>1. Len(delivered) \in Nat /\ Len(handed) \in Nat
      BY <1>2, LenProperties
    <3>2. Len(delivered) <= Len(handed)
      BY <1>8 DEF RxInv, NothingMissed
    <3>3. Len(delivered) \in 0 .. Len(handed)
      BY <3>1, <3>2
    <3> QED
      BY <3>3
  <2>3. n \in Nat /\ Len(handed) \in Nat
    BY <1>2, <2>2, LenProperties
  <2>4. /\ Undelivered \in Seq(Packable)
        /\ Len(Undelivered) = Len(handed) - n
        /\ \A i \in 1 .. Len(Undelivered) : Undelivered[i] = handed[n + i]
    <3>1. /\ SubSeq(handed, n + 1, Len(handed)) \in Seq(Packable)
          /\ Len(SubSeq(handed, n + 1, Len(handed))) = Len(handed) - n
          /\ \A i \in 1 .. Len(handed) - n : SubSeq(handed, n + 1, Len(handed))[i] = handed[n + i]
      BY <1>2, <2>2, Behind
    <3> QED
      BY <2>2, <3>1 DEF Undelivered
  \* What follows the byte.
  <2>u. PICK u \in Seq(Byte) : u = Unshifted /\ u = Unshifted'
    <3>1. Unshifted' = Unshifted /\ Unshifted \in Seq(Byte)
      BY <1>1, UnshiftedFacts DEF Unshifted
    <3> QED
      BY <3>1
  <2>q. PICK q \in Seq(Byte) : q = line \o u
    BY <1>2, ConcatProperties
  <2>5. PICK rest \in Seq(Byte) : rest = t \o q
    BY ConcatProperties
  <2>6. ToCome = Append(locked, b) \o rest
    <3>1. locked \o ((<<b>> \o t) \o q) = Append(locked, b) \o (t \o q)
      <4>1. PICK l \in Seq(Byte) : l = locked
        BY <1>2
      <4>2. MovesOver(l, b, t, q)
        BY ElementJoins
      <4> QED
        BY <4>1, <4>2 DEF MovesOver
    <3> QED
      BY <1>3, <2>u, <2>q, <2>5, <3>1 DEF ToCome
  <2>7. Len(Undelivered) > 0
    <3> SUFFICES ASSUME ~(Len(Undelivered) > 0) PROVE FALSE
      OBVIOUS
    <3>1. Undelivered = << >>
      <4>1. Len(Undelivered) \in Nat
        BY <2>4, LenProperties
      <4> QED
        BY <2>4, <4>1, EmptySeq
    <3>2. Append(locked, b) \o rest = << >>
      BY <2>1, <2>6, <3>1, NoFrames
    <3>3. Append(locked, b) \in Seq(Byte) /\ Len(Append(locked, b)) = Len(locked) + 1
      BY <1>2, AppendProperties
    <3>4. Len(Append(locked, b) \o rest) = Len(locked) + 1 + Len(rest)
      BY <3>3, ConcatProperties
    <3>5. Len(Append(locked, b) \o rest) = 0
      BY <3>2
    <3>6. Len(locked) \in Nat /\ Len(rest) \in Nat
      BY <1>2, LenProperties
    <3> QED
      BY <3>4, <3>5, <3>6
  <2>8. n < Len(handed) /\ n + 1 \in 1 .. Len(handed) /\ 1 \in 1 .. Len(Undelivered)
    BY <2>3, <2>4, <2>7
  <2>9. PICK m \in Packable : m = handed[n + 1] /\ m = Undelivered[1]
    <3>1. handed[n + 1] \in Packable
      BY <1>2, <2>8, ElementOfSeq
    <3> QED
      BY <2>4, <2>8, <3>1
  <2>10. PICK others \in Seq(Packable) : others = SubSeq(handed, n + 2, Len(handed))
    <3>1. n + 1 \in 0 .. Len(handed) /\ n + 1 + 1 = n + 2
      BY <2>3, <2>8
    <3>2. SubSeq(handed, n + 1 + 1, Len(handed)) \in Seq(Packable)
      BY <1>2, <3>1, Behind
    <3> QED
      BY <3>1, <3>2
  <2>11. SubSeq(Undelivered, 2, Len(Undelivered)) = others
    BY <1>2, <2>2, <2>3, <2>8, <2>10, SecondBehind DEF Undelivered
  <2>12. PICK y \in Seq(Byte) : y = Frames(others)
    BY FramesType
  <2>13. Frames(Undelivered) = frame(m) \o y
    <3>1. Undelivered # << >>
      BY <2>7
    <3> QED
      BY <2>4, <2>9, <2>11, <2>12, <3>1, FramesFirst
  <2>14. Len(locked) < Len(frame(m))
    <3>1. CASE locked # << >>
      BY <2>1, <2>2, <2>9, <3>1
    <3>2. CASE locked = << >>
      <4>1. Len(locked) = 0
        BY <3>2
      <4>2. Len(frame(m)) \in 7 .. PackSize
        BY PackableFrame
      <4> QED
        BY <4>1, <4>2
    <3> QED
      BY <3>1, <3>2
  <2>15. \/ /\ outcome' = "pending" /\ locked' = Append(locked, b)
            /\ Len(locked') < Len(frame(m))
         \/ /\ outcome' = "done" /\ payload' = m /\ locked' = << >> /\ rest = y
    <3>1. Append(locked, b) \o rest = frame(m) \o y
      BY <2>1, <2>6, <2>13
    <3>2. ParserTypeOK /\ LockInv /\ FailureIsReal
      BY DEF RxInv, RxTypeOK
    <3>3. packable(Len(m), OutputSize)
      BY <1>8 DEF MessagesFit
    <3> QED
      BY <1>4, <2>14, <3>1, <3>2, <3>3, ParserFollows
  <2>16. ToCome' = locked' \o rest
    BY <1>1, <1>3, <2>u, <2>q, <2>5 DEF ToCome
  <2>17. CASE /\ outcome' = "pending" /\ locked' = Append(locked, b)
              /\ Len(locked') < Len(frame(m))
    <3>1. delivered' = delivered /\ event' = "none"
      BY <1>1, <2>17
    <3>2. Undelivered' = Undelivered
      BY <1>1, <3>1 DEF Undelivered
    <3>3. ToCome' = Frames(Undelivered')
      BY <2>1, <2>6, <2>16, <2>17, <3>2
    <3>4. n <= Len(handed)
      BY <2>3, <2>8
    <3> QED
      BY <1>1, <2>1, <2>2, <2>8, <2>9, <2>17, <3>1, <3>3, <3>4 DEF NothingMissed, EveryFrameParses
  <2>18. CASE /\ outcome' = "done" /\ payload' = m /\ locked' = << >> /\ rest = y
    <3>1. delivered' = Append(delivered, m) /\ event' = "RX_DONE"
      BY <1>1, <2>18
    <3>2. Len(delivered') = n + 1
      BY <1>2, <2>2, <3>1, PackableFrame, AppendProperties
    <3>3. Undelivered' = others
      <4>1. n + 1 + 1 = n + 2
        BY <2>3
      <4> QED
        BY <1>1, <2>10, <3>2, <4>1 DEF Undelivered
    <3>4. ToCome' = Frames(Undelivered')
      <4>1. ToCome' = << >> \o rest
        BY <2>16, <2>18
      <4>2. << >> \o rest = rest
        BY ConcatEmptySeq
      <4> QED
        BY <2>12, <2>18, <3>3, <4>1, <4>2
    <3>5. delivered' = SubSeq(handed, 1, n + 1)
      BY <1>2, <2>1, <2>2, <2>3, <2>8, <2>9, <3>1, FrontGrows
    <3>6. n + 1 <= Len(handed)
      BY <2>3, <2>8
    <3> QED
      BY <1>1, <2>18, <3>1, <3>2, <3>4, <3>5, <3>6 DEF NothingMissed, EveryFrameParses
  <2> QED
    BY <2>15, <2>17, <2>18
<1>9. NothingMissed'
  <2>1. ~(Copies /\ MessagesFit /\ ~overflowed) => NothingMissed'
    <3>1. MessagesFit' = MessagesFit
      BY DEF MessagesFit
    <3> QED
      BY <1>1, <3>1 DEF NothingMissed
  <2> QED
    BY <1>8, <2>1
<1> QED
  BY <1>5, <1>7, <1>9 DEF RxInv

LEMMA RxNext == TxInv /\ RxInv /\ NoErrorBehind /\ [Next]_vars => RxInv'
<1> SUFFICES ASSUME TxInv, RxInv, NoErrorBehind, [Next]_vars PROVE RxInv'
  OBVIOUS
<1>1. CASE UNCHANGED vars
  <2>1. Unshifted' = Unshifted
    BY <1>1 DEF Unshifted, vars, transport_vars
  <2> QED
    BY <1>1, <2>1, RxSame DEF vars, transport_vars, app_vars
<1>2. CASE comm_send \/ SendReturn
  <2>1. UNCHANGED send_unchanged
    BY <1>2 DEF comm_send, SendReturn, SendEmpty, SendRefused, SendFull, SendQueued,
                NotQueued, Enqueue
  <2>2. Copies /\ MessagesFit /\ ~overflowed => event' = event \/ event' # "PROTOCOL_ERROR"
    <3>1. CASE comm_send
      BY <3>1 DEF comm_send, SendEmpty, SendRefused, SendFull, SendQueued, NotQueued, Enqueue
    <3>2. CASE SendReturn
      BY <3>2, LastCall DEF NoErrorBehind, SendReturn
    <3> QED
      BY <1>2, <3>1, <3>2
  <2>3. Unshifted' = Unshifted
    BY <2>1 DEF Unshifted, send_unchanged, transport_vars
  <2> QED
    BY <2>1, <2>2, <2>3, RxSame DEF send_unchanged, transport_vars
<1>3. CASE ProcessNoTx \/ ProcessPopFrame
  <2>1. /\ UNCHANGED <<parser_vars, rx_queue, transport_vars, handed, delivered, overflowed>>
        /\ event' = "none"
    BY <1>3 DEF ProcessNoTx, ProcessPopFrame, PopFrame
  <2>2. Unshifted' = Unshifted
    BY <2>1 DEF Unshifted, transport_vars
  <2> QED
    BY <2>1, <2>2, RxSame DEF transport_vars
<1>4. CASE TransportRefuse \/ ProcessSendOk \/ ProcessSendFailed \/ ProcessReturn
  <2>1. /\ UNCHANGED <<parser_vars, rx_queue, transport_vars, handed, delivered, overflowed>>
        /\ event' \in {"none", "TX_FAIL", event}
    BY <1>4 DEF TransportRefuse, ProcessSendOk, ProcessSendFailed, ProcessReturn, process_unchanged
  <2>2. Unshifted' = Unshifted
    BY <2>1 DEF Unshifted, transport_vars
  <2> QED
    BY <2>1, <2>2, RxSame DEF transport_vars
<1>5. CASE ProcessByte
  BY <1>5, ProcessByteRx
<1>6. CASE TransportStart
  BY <1>6, TransportStartRx
<1>7. CASE TransmitByte
  BY <1>7, TransmitByteRx
<1>8. CASE comm_send_done_handler
  <2>1. /\ UNCHANGED <<parser_vars, rx_queue, line, handed, delivered, overflowed, event>>
        /\ shifted = transfer_len /\ shifted' = 0 /\ transfer_len' = 0
    BY <1>8 DEF comm_send_done_handler, main_unchanged, app_vars
  <2>2. Unshifted = << >> /\ Unshifted' = << >>
    <3>1. transfer_len - shifted = 0
      BY <2>1, UnshiftedFacts
    <3> QED
      BY <2>1, <3>1 DEF Unshifted
  <2> QED
    BY <2>1, <2>2, RxSame
<1>9. CASE Receive
  BY <1>9, ReceiveRx DEF Receive
<1> QED
  BY <1>1, <1>2, <1>3, <1>4, <1>5, <1>6, <1>7, <1>8, <1>9 DEF Next, comm_process

LEMMA BehindInit == Init => NoErrorBehind
<1>1. DOMAIN << >> = {}
  OBVIOUS
<1> QED
  BY <1>1 DEF Init, NoErrorBehind

\* A call begins within the event being handled, which is not an error.
LEMMA BehindBegun ==
  ASSUME TxInv, RxInv, NoErrorBehind, NEW message, NEW status, NEW told,
         NotQueued(message, status, told)
  PROVE  NoErrorBehind'
<1>1. PICK call : call = [message |-> message, within |-> event, before |-> Len(accepted)]
  OBVIOUS
<1>2. PICK t : t = <<call>> \o calls /\ DOMAIN t = 1 .. Len(calls) + 1 /\ t[1] = call
               /\ \A k \in 2 .. Len(calls) + 1 : t[k] = calls[k - 1] /\ k - 1 \in DOMAIN calls
  BY PushedCall
<1>3. calls' = t /\ overflowed' = overflowed
  BY <1>1, <1>2 DEF NotQueued, send_unchanged
<1>4. Copies /\ MessagesFit /\ ~overflowed => event # "PROTOCOL_ERROR"
  BY DEF RxInv, NothingMissed, EveryFrameParses
<1>5. \A k \in DOMAIN t : k = 1 \/ k \in 2 .. Len(calls) + 1
  <2>1. Len(calls) \in Nat
    BY LenProperties DEF TxInv, TxTypeOK
  <2> QED
    BY <1>2, <2>1
<1> QED
  BY <1>1, <1>2, <1>3, <1>4, <1>5 DEF NoErrorBehind

LEMMA BehindNext == TxInv /\ RxInv /\ NoErrorBehind /\ [Next]_vars => NoErrorBehind'
<1> SUFFICES ASSUME TxInv, RxInv, NoErrorBehind, [Next]_vars PROVE NoErrorBehind'
  OBVIOUS
<1>1. ASSUME calls' = calls, ~overflowed' => ~overflowed PROVE NoErrorBehind'
  BY <1>1 DEF NoErrorBehind
<1>2. CASE SendEmpty
  BY <1>2, BehindBegun DEF SendEmpty
<1>3. ASSUME NEW m \in Messages, SendRefused(m) \/ SendFull(m) PROVE NoErrorBehind'
  BY <1>3, BehindBegun DEF SendRefused, SendFull
<1>4. ASSUME NEW m \in Messages, SendQueued(m) PROVE NoErrorBehind'
  BY <1>1, <1>4 DEF SendQueued, Enqueue, send_unchanged
<1>5. CASE SendReturn
  <2>1. PICK t : t = Tail(calls) /\ \A k \in DOMAIN t : k + 1 \in DOMAIN calls /\ t[k] = calls[k + 1]
    BY <1>5, LastCall DEF SendReturn
  <2>2. calls' = t /\ overflowed' = overflowed
    BY <1>5, <2>1 DEF SendReturn, send_unchanged
  <2> QED
    BY <2>1, <2>2 DEF NoErrorBehind
<1>6. CASE UNCHANGED vars
  BY <1>1, <1>6 DEF vars, app_vars
<1>7. CASE comm_process \/ TransportStart \/ TransportRefuse
  BY <1>1, <1>7 DEF comm_process, ProcessNoTx, ProcessPopFrame, PopFrame, ProcessSendOk,
                    ProcessSendFailed, ProcessByte, ProcessReturn, TransportStart,
                    TransportRefuse, process_unchanged
<1>8. CASE TransmitByte \/ comm_send_done_handler
  BY <1>1, <1>8 DEF TransmitByte, comm_send_done_handler, main_unchanged, app_vars
<1>9. CASE Receive
  <2>1. calls' = calls /\ (~overflowed' => ~overflowed)
    BY <1>9 DEF Receive, comm_on_receive, Arrive, main_unchanged, app_vars
  <2> QED
    BY <1>1, <2>1
<1> QED
  BY <1>2, <1>3, <1>4, <1>5, <1>6, <1>7, <1>8, <1>9 DEF Next, comm_send

\* The inductive invariant, of both sides.
THEOREM ManagerInv == Spec => [](TxInv /\ RxInv)
<1>1. Init => TxInv /\ RxInv /\ NoErrorBehind
  BY TxInit, RxInit, BehindInit
<1>2. TxInv /\ RxInv /\ NoErrorBehind /\ [Next]_vars => (TxInv /\ RxInv /\ NoErrorBehind)'
  BY TxNext, RxNext, BehindNext
<1> QED
  BY <1>1, <1>2, PTL DEF Spec

-----------------------------------------------------------------------------
(* The properties of the transmit side.                                    *)

\* The TX queue holds whole records of the messages accepted and not yet
\* popped, whatever comm_send finds no room for: comm_process never reads a
\* length that is not its frame's.
THEOREM ManagerTxQueueFramed == Spec => []TxQueueFramed
<1>1. TxInv /\ RxInv => TxQueueFramed
  BY DEF TxInv, RxInv, TxQueueFramed, ManagerTypeOK
<1> QED
  BY <1>1, ManagerInv, PTL

\* tx_busy is set exactly during a hand-over or a transfer, although the
\* completion interrupt may run before transport->send has returned.
THEOREM ManagerBusyTracksTransfer == Spec => []BusyTracksTransfer
<1>1. TxInv => BusyTracksTransfer
  BY DEF TxInv
<1> QED
  BY <1>1, ManagerInv, PTL

\* With a transport that copies what it is handed, nothing is written over the
\* frame in flight: comm_send packs into pack_buf again while it is shifted out.
THEOREM ManagerInFlightIntact ==
  ASSUME Copies
  PROVE  Spec => []InFlightIntact
<1>1. ASSUME TxInv, InFlight
      PROVE  LET f == frame(Last(handed))
             IN  /\ transfer_len = Len(f)
                 /\ \A i \in shifted .. transfer_len - 1 :
                      (IF Copies THEN copied[i] ELSE pack_buf[i]) = f[i + 1]
  <2>1. /\ transfer_len = Len(frame(Last(handed)))
        /\ \A i \in 0 .. transfer_len - 1 : copied[i] = frame(Last(handed))[i + 1]
    BY <1>1 DEF TxInv, CopyInFlight, Holds
  <2>2. shifted \in Nat /\ transfer_len \in Nat
    BY <1>1, UnshiftedFacts
  <2>3. \A i \in shifted .. transfer_len - 1 : i \in 0 .. transfer_len - 1
    BY <2>2
  <2> QED
    BY <2>1, <2>3
<1>2. TxInv => InFlightIntact
  BY <1>1 DEF InFlightIntact
<1> QED
  BY <1>2, ManagerInv, PTL

-----------------------------------------------------------------------------
(* The status comm_send returns, however its calls nest.                   *)

Result == [message : Messages,
           status : {"COMM_OK", "COMM_ERR_QUEUE_FULL", "COMM_ERR_INVALID_ARG"},
           queued : BOOLEAN]

StatusInv == results \in Seq(Result) /\ OkMeansQueued /\ StatusIsSince

LEMMA StatusInit == Init => StatusInv
<1> SUFFICES ASSUME Init PROVE StatusInv
  OBVIOUS
<1>1. << >> \in Seq(Result) /\ DOMAIN << >> = {}
  OBVIOUS
<1> QED
  BY <1>1 DEF Init, StatusInv, OkMeansQueued, StatusIsSince

\* One more result, true to what was queued.
LEMMA ResultAdded ==
  ASSUME OkMeansQueued, results \in Seq(Result), NEW r \in Result, results' = Append(results, r),
         r.status = "COMM_OK" => r.queued
  PROVE  results' \in Seq(Result) /\ OkMeansQueued'
<1>1. PICK n \in Nat : n = Len(results) /\ DOMAIN results = 1 .. n
  BY LenProperties
<1>2. PICK t \in Seq(Result) : t = Append(results, r)
  BY AppendProperties
<1>3. DOMAIN t = 1 .. n + 1 /\ t[n + 1] = r /\ \A i \in 1 .. n : t[i] = results[i]
  <2>1. Len(t) = n + 1 /\ t[n + 1] = r /\ \A i \in 1 .. n : t[i] = results[i]
    BY <1>1, <1>2, AppendProperties
  <2> QED
    BY <2>1, LenProperties
<1>4. \A i \in 1 .. n + 1 : i = n + 1 \/ i \in 1 .. n
  BY <1>1
<1>5. \A i \in DOMAIN t : t[i].status = "COMM_OK" => t[i].queued
  BY <1>1, <1>3, <1>4 DEF OkMeansQueued
<1> QED
  BY <1>2, <1>5 DEF OkMeansQueued

\* A failed call begins: its status is not COMM_OK.
LEMMA CallBegun ==
  ASSUME TxInv, StatusInv, NEW message, NEW status, NEW told,
         NotQueued(message, status, told), status # "COMM_OK"
  PROVE  StatusInv'
<1>1. PICK call : call = [message |-> message, within |-> event, before |-> Len(accepted)]
  OBVIOUS
<1>2. PICK t : t = <<call>> \o calls /\ DOMAIN t = 1 .. Len(calls) + 1 /\ t[1] = call
               /\ \A k \in 2 .. Len(calls) + 1 : t[k] = calls[k - 1] /\ k - 1 \in DOMAIN calls
  BY PushedCall
<1>3. Len(accepted) <= Len(accepted) /\ Len(calls) \in Nat
  BY LenProperties DEF TxInv, TxTypeOK
<1>4. \A k \in DOMAIN t : k = 1 \/ k \in 2 .. Len(calls) + 1
  BY <1>2, <1>3
<1>5. \A k \in DOMAIN calls : calls[k].before <= Len(accepted)
  BY DEF StatusInv, StatusIsSince
<1>6. \A k \in DOMAIN t : t[k].before <= Len(accepted)
  BY <1>1, <1>2, <1>3, <1>4, <1>5
<1>7. calls' = t /\ accepted' = accepted /\ results' = results /\ _pack_status' # "COMM_OK"
  BY <1>1, <1>2 DEF NotQueued
<1> QED
  BY <1>6, <1>7 DEF StatusInv, OkMeansQueued, StatusIsSince

\* A message is queued, and every call under way has begun before.
LEMMA QueuedSince ==
  ASSUME TxInv, StatusInv, NEW message \in Messages, SendQueued(message)
  PROVE  StatusInv'
<1>1. /\ results' = returned(message, "COMM_OK", TRUE)
      /\ accepted' = Append(accepted, message) /\ calls' = calls
  BY DEF SendQueued, Enqueue
<1>2. PICK r \in Result : r = [message |-> message, status |-> "COMM_OK", queued |-> TRUE]
  BY DEF Result
<1>3. results' \in Seq(Result) /\ OkMeansQueued'
  BY <1>1, <1>2, ResultAdded DEF returned, StatusInv
<1>4. PICK a \in Nat : a = Len(accepted) /\ Len(accepted') = a + 1
  BY <1>1, LenProperties, AppendProperties DEF TxInv, TxTypeOK
<1>5. ASSUME NEW k \in DOMAIN calls PROVE calls[k].before <= a /\ calls[k].before \in Nat
  <2>1. calls[k] \in Call
    BY ElementOfSeq, LenProperties DEF TxInv, TxTypeOK
  <2> QED
    BY <1>4, <2>1 DEF StatusInv, StatusIsSince, Call
<1>6. \A k \in DOMAIN calls : calls[k].before <= a + 1 /\ calls[k].before < a + 1
  BY <1>5
<1> QED
  BY <1>1, <1>3, <1>4, <1>6 DEF StatusInv, StatusIsSince

\* event_cb of the last call is back: COMM_OK is that of a message queued since.
LEMMA CallReturned ==
  ASSUME TxInv, StatusInv, SendReturn
  PROVE  StatusInv'
<1>1. /\ calls \in Seq(Call) /\ calls # << >> /\ accepted \in Seq(Messages)
      /\ _pack_status \in {"COMM_OK", "COMM_ERR_QUEUE_FULL", "COMM_ERR_INVALID_ARG"}
  BY DEF SendReturn, TxInv, TxTypeOK
<1>2. \A k \in DOMAIN Tail(calls) : k + 1 \in DOMAIN calls /\ Tail(calls)[k] = calls[k + 1]
  BY <1>1, LastCall
<1>3. 1 \in DOMAIN calls /\ Head(calls) = calls[1] /\ Head(calls) \in Call
  BY <1>1, LastCall
<1>4. PICK s \in {"COMM_OK", "COMM_ERR_QUEUE_FULL", "COMM_ERR_INVALID_ARG"} :
        s = IF Head(calls).message = << >> THEN "COMM_ERR_INVALID_ARG" ELSE _pack_status
  BY <1>1
<1>5. PICK q \in BOOLEAN : q = (Len(accepted) > Head(calls).before)
  <2>1. (Len(accepted) > Head(calls).before) \in BOOLEAN
    OBVIOUS
  <2> QED
    BY <2>1, Zenon
<1>6. s = "COMM_OK" => q
  <2>1. s = "COMM_OK" => calls[1].before < Len(accepted)
    BY <1>3, <1>4 DEF StatusInv, StatusIsSince
  <2>2. Len(accepted) \in Nat /\ calls[1].before \in Nat
    BY <1>1, <1>3, LenProperties DEF Call
  <2> QED
    BY <1>3, <1>5, <2>1, <2>2
<1>7. PICK r \in Result : r = [message |-> Head(calls).message, status |-> s, queued |-> q]
  BY <1>3 DEF Result, Call
<1>8. results' = Append(results, r)
  BY <1>4, <1>5, <1>7 DEF SendReturn, returned
<1>9. results' \in Seq(Result) /\ OkMeansQueued'
  BY <1>6, <1>7, <1>8, ResultAdded DEF StatusInv
<1>10. ASSUME NEW k \in DOMAIN Tail(calls)
       PROVE  /\ Tail(calls)[k].before <= Len(accepted)
              /\ _pack_status = "COMM_OK" => Tail(calls)[k].before < Len(accepted)
  BY <1>2 DEF StatusInv, StatusIsSince
<1>11. calls' = Tail(calls) /\ accepted' = accepted /\ _pack_status' = _pack_status
  BY DEF SendReturn
<1> QED
  BY <1>9, <1>10, <1>11 DEF StatusInv, StatusIsSince

LEMMA StatusNext == TxInv /\ StatusInv /\ [Next]_vars => StatusInv'
<1> SUFFICES ASSUME TxInv, StatusInv, [Next]_vars PROVE StatusInv'
  OBVIOUS
<1>1. ASSUME UNCHANGED <<calls, _pack_status, results, accepted>> PROVE StatusInv'
  BY <1>1 DEF StatusInv, OkMeansQueued, StatusIsSince
<1>2. CASE SendEmpty
  BY <1>2, CallBegun DEF SendEmpty
<1>3. ASSUME NEW m \in Messages, SendRefused(m) \/ SendFull(m) PROVE StatusInv'
  BY <1>3, CallBegun DEF SendRefused, SendFull
<1>4. ASSUME NEW m \in Messages, SendQueued(m) PROVE StatusInv'
  BY <1>4, QueuedSince
<1>5. CASE SendReturn
  BY <1>5, CallReturned
<1>6. CASE UNCHANGED vars
  BY <1>1, <1>6 DEF vars, app_vars
<1>7. CASE comm_process \/ TransportStart \/ TransportRefuse
  BY <1>1, <1>7 DEF comm_process, ProcessNoTx, ProcessPopFrame, PopFrame, ProcessSendOk,
                    ProcessSendFailed, ProcessByte, ProcessReturn, TransportStart,
                    TransportRefuse, process_unchanged
<1>8. CASE TransmitByte \/ comm_send_done_handler \/ Receive
  BY <1>1, <1>8 DEF TransmitByte, comm_send_done_handler, Receive, comm_on_receive,
                    Arrive, main_unchanged, app_vars
<1> QED
  BY <1>2, <1>3, <1>4, <1>5, <1>6, <1>7, <1>8 DEF Next, comm_send

\* A comm_send that returns COMM_OK has put a message on the TX queue while it
\* was under way, however many calls event_cb makes and however deep they nest:
\* a failed call can be answered COMM_OK only by a later one's success.
THEOREM ManagerOkMeansQueued == Spec => []OkMeansQueued
<1>1. StatusInv => OkMeansQueued
  BY DEF StatusInv
<1> QED
  BY <1>1, TxInit, TxNext, StatusInit, StatusNext, PTL DEF Spec

-----------------------------------------------------------------------------
(* The properties of the echo.                                             *)

\* The messages handed to the transport and not delivered back.
LEMMA UndeliveredFacts ==
  ASSUME TxInv, RxInv, Copies, MessagesFit, ~overflowed
  PROVE  \E n \in 0 .. Len(handed) :
           /\ n = Len(delivered) /\ Len(handed) \in Nat
           /\ Undelivered \in Seq(Packable) /\ Len(Undelivered) = Len(handed) - n
           /\ \A i \in 1 .. Len(Undelivered) : Undelivered[i] = handed[n + i]
<1>1. handed \in Seq(Packable) /\ delivered \in Seq(Seq(Byte))
  BY DEF TxInv, RxInv, RxTypeOK
<1>2. PICK n \in 0 .. Len(handed) : n = Len(delivered)
  <2>1. Len(delivered) \in Nat /\ Len(handed) \in Nat
    BY <1>1, LenProperties
  <2>2. Len(delivered) <= Len(handed)
    BY DEF RxInv, NothingMissed
  <2>3. Len(delivered) \in 0 .. Len(handed)
    BY <2>1, <2>2
  <2> QED
    BY <2>3
<1>3. /\ SubSeq(handed, n + 1, Len(handed)) \in Seq(Packable)
      /\ Len(SubSeq(handed, n + 1, Len(handed))) = Len(handed) - n
      /\ \A i \in 1 .. Len(handed) - n : SubSeq(handed, n + 1, Len(handed))[i] = handed[n + i]
  BY <1>1, <1>2, Behind
<1> QED
  BY <1>1, <1>2, <1>3, LenProperties DEF Undelivered

\* Once nothing is on its way, nothing is missing.
LEMMA Drained ==
  ASSUME TxInv, RxInv, Copies, MessagesFit, ~overflowed,
         ~InFlight, line = << >>, rx_queue = << >>
  PROVE  delivered = handed
<1>1. /\ delivered = SubSeq(handed, 1, Len(delivered))
      /\ ToCome = Frames(Undelivered)
      /\ locked # << >> => Len(locked) < Len(frame(handed[Len(delivered) + 1]))
  BY DEF RxInv, NothingMissed
<1>2. locked \in Seq(Byte) /\ handed \in Seq(Packable)
  BY DEF RxInv, RxTypeOK, locked, ParserTypeOK, TxInv
<1>3. PICK n \in 0 .. Len(handed) :
        /\ n = Len(delivered) /\ Len(handed) \in Nat
        /\ Undelivered \in Seq(Packable) /\ Len(Undelivered) = Len(handed) - n
        /\ \A i \in 1 .. Len(Undelivered) : Undelivered[i] = handed[n + i]
  BY UndeliveredFacts
<1>4. Unshifted = << >>
  <2>1. transfer_len - shifted = 0
    BY UnshiftedFacts DEF InFlight
  <2> QED
    BY <2>1 DEF Unshifted
<1>5. ToCome = locked
  <2>1. << >> \o << >> = << >> /\ locked \o << >> = locked
    BY <1>2, ConcatEmptySeq
  <2> QED
    BY <1>4, <2>1 DEF ToCome
<1>6. Len(Undelivered) = 0
  <2> SUFFICES ASSUME Len(Undelivered) # 0 PROVE FALSE
    OBVIOUS
  <2>1. Len(Undelivered) > 0 /\ 1 \in 1 .. Len(Undelivered)
    BY <1>3, LenProperties
  <2>2. PICK m \in Packable : m = handed[n + 1] /\ m = Undelivered[1]
    BY <1>3, <2>1, ElementOfSeq
  <2>3. PICK y \in Seq(Byte) : y = Frames(SubSeq(Undelivered, 2, Len(Undelivered)))
    <3>1. SubSeq(Undelivered, 1 + 1, Len(Undelivered)) \in Seq(Packable) /\ 1 + 1 = 2
      BY <1>3, <2>1, Behind
    <3> QED
      BY <3>1, FramesType
  <2>4. locked = frame(m) \o y
    <3>1. Undelivered # << >>
      BY <2>1
    <3>2. Frames(Undelivered) = frame(m) \o y
      BY <1>3, <2>2, <2>3, <3>1, FramesFirst
    <3> QED
      BY <1>1, <1>5, <3>2
  <2>5. frame(m) \in Seq(Byte) /\ Len(frame(m)) \in Nat /\ Len(frame(m)) > 0 /\ Len(y) \in Nat
    BY PackableFrame, LenProperties
  <2>6. Len(locked) = Len(frame(m)) + Len(y)
    BY <2>4, <2>5, ConcatProperties
  <2>7. locked # << >>
    BY <2>5, <2>6
  <2>8. Len(locked) < Len(frame(m))
    BY <1>1, <1>3, <2>2, <2>7
  <2> QED
    BY <2>5, <2>6, <2>8
<1>7. n = Len(handed)
  BY <1>3, <1>6
<1>8. SubSeq(handed, 1, Len(handed)) = handed
  BY <1>2, SubSeqFull
<1> QED
  BY <1>1, <1>3, <1>7, <1>8

\* With a transport that copies and messages that fit rx_buf, the echo is
\* delivered in order, and all of it once line and RX queue are drained, unless
\* QUEUE_OVERFLOW has been reported: comm_on_receive drops no byte in silence.
THEOREM ManagerEchoInOrder ==
  ASSUME Copies, MessagesFit
  PROVE  Spec => []EchoInOrder
<1>1. ASSUME TxInv, RxInv, ~overflowed PROVE IsPrefix(delivered, handed)
  <2>1. delivered = SubSeq(handed, 1, Len(delivered)) /\ Len(delivered) <= Len(handed)
    BY <1>1 DEF RxInv, NothingMissed
  <2>2. delivered \in Seq(Seq(Byte))
    BY <1>1 DEF RxInv, RxTypeOK
  <2>3. SubSeq(delivered, 1, Len(delivered)) = delivered
    BY <2>2, SubSeqFull
  <2> QED
    BY <2>1, <2>3 DEF IsPrefix
<1>2. TxInv /\ RxInv => EchoInOrder
  BY <1>1, Drained DEF EchoInOrder
<1> QED
  BY <1>2, ManagerInv, PTL

\* Nor is a PROTOCOL_ERROR reported on such a line.
THEOREM ManagerEveryFrameParses ==
  ASSUME Copies, MessagesFit
  PROVE  Spec => []EveryFrameParses
<1>1. RxInv => EveryFrameParses
  BY DEF RxInv, NothingMissed, EveryFrameParses
<1> QED
  BY <1>1, ManagerInv, PTL

-----------------------------------------------------------------------------
(* The refinement of Link.                                                 *)

Pending == Undelivered \o ToHand

\* The first of the elements behind n, and the others.
LEMMA OneApart ==
  ASSUME NEW S, NEW s \in Seq(S), NEW n \in Nat, n < Len(s)
  PROVE  /\ s[n + 1] \in S /\ <<s[n + 1]>> \in Seq(S)
         /\ SubSeq(s, n + 1, Len(s)) \in Seq(S) /\ SubSeq(s, n + 2, Len(s)) \in Seq(S)
         /\ SubSeq(s, n + 1, Len(s)) = <<s[n + 1]>> \o SubSeq(s, n + 2, Len(s))
<1>1. /\ Len(s) \in Nat /\ n + 1 \in 1 .. Len(s) /\ n \in 0 .. Len(s) /\ n + 1 \in 0 .. Len(s)
      /\ n + 1 + 1 = n + 2 /\ Len(s) \in n + 1 .. Len(s)
  BY LenProperties
<1>2. s[n + 1] \in S
  BY <1>1, ElementOfSeq
<1>3. SubSeq(s, n + 1, Len(s)) \in Seq(S) /\ SubSeq(s, n + 1 + 1, Len(s)) \in Seq(S)
  BY <1>1, Behind
<1>4. SubSeq(s, n + 1, Len(s)) = <<s[n + 1]>> \o SubSeq(s, n + 1 + 1, Len(s))
  BY <1>1, SubSeqRecursiveFirst
<1> QED
  BY <1>1, <1>2, <1>3, <1>4

\* The messages that wait for transport->send, the one in hand included.
LEMMA HandFacts ==
  ASSUME TxInv
  PROVE  /\ accepted \in Seq(Packable) /\ Len(accepted) \in Nat /\ popped \in Nat
         /\ Taken \in 0 .. Len(accepted) /\ ToHand \in Seq(Packable)
         /\ main_pc = "send" => Taken = popped - 1 /\ Taken \in Nat /\ Taken < Len(accepted)
<1>1. /\ accepted \in Seq(Packable) /\ Len(accepted) \in Nat
      /\ popped \in 0 .. Len(accepted) /\ popped \in Nat
  BY LenProperties DEF TxInv, TxTypeOK
<1>2. main_pc = "send" => popped > 0
  BY DEF TxInv, FrameInHand
<1>3. Taken \in 0 .. Len(accepted)
  BY <1>1, <1>2 DEF Taken
<1>4. ToHand \in Seq(Packable)
  BY <1>1, <1>3, Behind DEF ToHand
<1>5. main_pc = "send" => Taken = popped - 1 /\ Taken \in Nat /\ Taken < Len(accepted)
  BY <1>1, <1>2 DEF Taken
<1> QED
  BY <1>1, <1>3, <1>4, <1>5

\* A message accepted waits behind the others.
LEMMA SendQueuedLink ==
  ASSUME TxInv, Undelivered \in Seq(Packable), NEW m \in Messages, SendQueued(m)
  PROVE  Pending' = Append(Pending, m) /\ delivered' = delivered
<1>1. m \in Packable
  BY PackedBuffer DEF SendQueued
<1>2. /\ accepted' = Append(accepted, m) /\ main_pc' = main_pc /\ popped' = popped
      /\ handed' = handed /\ delivered' = delivered
  BY DEF SendQueued, Enqueue, send_unchanged
<1>3. PICK one \in Seq(Packable) : one = <<m>>
  <2>1. <<m>> \in Seq(Packable)
    BY <1>1
  <2> QED
    BY <2>1
<1>4. accepted \in Seq(Packable)
  BY HandFacts
<1>5. PICK n \in 0 .. Len(accepted) : n = Taken
  BY HandFacts
<1>6. accepted' = accepted \o one
  BY <1>1, <1>2, <1>3, <1>4, AppendIsConcat
<1>7. SubSeq(accepted \o one, n + 1, Len(accepted \o one))
        = SubSeq(accepted, n + 1, Len(accepted)) \o one
  BY <1>4, BehindConcat
<1>8. Taken' = Taken /\ Undelivered' = Undelivered
  BY <1>2 DEF Taken, Undelivered
<1>9. ToHand' = ToHand \o one
  BY <1>5, <1>6, <1>7, <1>8 DEF ToHand
<1>10. PICK h \in Seq(Packable), u \in Seq(Packable) : h = ToHand /\ u = Undelivered
  BY HandFacts
<1>11. u \o (h \o one) = (u \o h) \o one
  <2>1. Associates(u, h, one)
    BY JoinAssociates
  <2> QED
    BY <2>1 DEF Associates
<1>12. u \o h \in Seq(Packable)
  BY ConcatProperties
<1>13. Append(u \o h, m) = (u \o h) \o one
  BY <1>1, <1>3, <1>12, AppendIsConcat
<1> QED
  BY <1>2, <1>8, <1>9, <1>10, <1>11, <1>13 DEF Pending

\* transport->send takes the first that waits: it is undelivered instead.
LEMMA TransportStartLink ==
  ASSUME TxInv, TransportStart,
         NEW n \in 0 .. Len(handed), n = Len(delivered)
  PROVE  Pending' = Pending /\ delivered' = delivered
<1>1. /\ main_pc = "send" /\ main_pc' = "sent" /\ handed' = Append(handed, accepted[popped])
      /\ accepted' = accepted /\ popped' = popped /\ delivered' = delivered
  BY DEF TransportStart, process_unchanged
<1>2. /\ accepted \in Seq(Packable) /\ handed \in Seq(Packable)
      /\ popped \in Nat /\ Taken = popped - 1 /\ Taken \in Nat /\ Taken < Len(accepted)
  BY <1>1, HandFacts DEF TxInv
<1>3. PICK t \in Nat : t = Taken /\ t + 1 = popped /\ t + 2 = popped + 1 /\ t < Len(accepted)
  BY <1>2
<1>4. PICK one \in Seq(Packable), others \in Seq(Packable) :
        /\ one = <<accepted[t + 1]>> /\ others = SubSeq(accepted, t + 2, Len(accepted))
        /\ SubSeq(accepted, t + 1, Len(accepted)) = one \o others
  <2>1. accepted \in Seq(Packable) /\ t < Len(accepted)
    BY <1>2, <1>3
  <2>2. /\ <<accepted[t + 1]>> \in Seq(Packable)
        /\ SubSeq(accepted, t + 2, Len(accepted)) \in Seq(Packable)
        /\ SubSeq(accepted, t + 1, Len(accepted))
             = <<accepted[t + 1]>> \o SubSeq(accepted, t + 2, Len(accepted))
    BY <2>1, OneApart
  <2> QED
    BY <2>2
<1>5. ToHand = one \o others /\ ToHand' = others
  BY <1>1, <1>3, <1>4 DEF ToHand, Taken
<1>6. accepted[popped] \in Packable
  BY <1>2, <1>3, OneApart
<1>7. handed' = handed \o one
  BY <1>1, <1>2, <1>3, <1>4, <1>6, AppendIsConcat
<1>8. SubSeq(handed \o one, n + 1, Len(handed \o one))
        = SubSeq(handed, n + 1, Len(handed)) \o one
  BY <1>2, BehindConcat
<1>9. PICK u \in Seq(Packable) : u = Undelivered /\ u = SubSeq(handed, n + 1, Len(handed))
  <2>1. SubSeq(handed, n + 1, Len(handed)) \in Seq(Packable)
    BY <1>2, Behind
  <2> QED
    BY <2>1 DEF Undelivered
<1>10. Undelivered' = u \o one
  BY <1>1, <1>7, <1>8, <1>9 DEF Undelivered
<1>11. (u \o one) \o others = u \o (one \o others)
  <2>1. Associates(u, one, others)
    BY JoinAssociates
  <2> QED
    BY <2>1 DEF Associates
<1> QED
  BY <1>1, <1>5, <1>9, <1>10, <1>11 DEF Pending

\* It refuses it: the message leaves from between the others.
LEMMA TransportRefuseLink ==
  ASSUME TxInv, Undelivered \in Seq(Packable), TransportRefuse
  PROVE  /\ \E k \in 1 .. Len(Pending) :
              Pending' = SubSeq(Pending, 1, k - 1) \o SubSeq(Pending, k + 1, Len(Pending))
         /\ delivered' = delivered
<1>1. /\ main_pc = "send" /\ main_pc' = "failed" /\ handed' = handed
      /\ accepted' = accepted /\ popped' = popped /\ delivered' = delivered
  BY DEF TransportRefuse, process_unchanged
<1>2. /\ accepted \in Seq(Packable) /\ popped \in Nat
      /\ Taken = popped - 1 /\ Taken \in Nat /\ Taken < Len(accepted)
  BY <1>1, HandFacts
<1>3. PICK t \in Nat : t = Taken /\ t + 1 = popped /\ t + 2 = popped + 1 /\ t < Len(accepted)
  BY <1>2
<1>4. PICK one \in Seq(Packable), others \in Seq(Packable) :
        /\ one = <<accepted[t + 1]>> /\ others = SubSeq(accepted, t + 2, Len(accepted))
        /\ SubSeq(accepted, t + 1, Len(accepted)) = one \o others
  <2>1. accepted \in Seq(Packable) /\ t < Len(accepted)
    BY <1>2, <1>3
  <2>2. /\ <<accepted[t + 1]>> \in Seq(Packable)
        /\ SubSeq(accepted, t + 2, Len(accepted)) \in Seq(Packable)
        /\ SubSeq(accepted, t + 1, Len(accepted))
             = <<accepted[t + 1]>> \o SubSeq(accepted, t + 2, Len(accepted))
    BY <2>1, OneApart
  <2> QED
    BY <2>2
<1>5. ToHand = one \o others /\ ToHand' = others
  BY <1>1, <1>3, <1>4 DEF ToHand, Taken
<1>6. PICK u \in Seq(Packable) : u = Undelivered /\ u = Undelivered'
  BY <1>1 DEF Undelivered
<1>7. PICK v \in Seq(Packable) : v = u \o one
  BY ConcatProperties
<1>8. Pending = v \o others /\ Pending' = u \o others
  <2>1. (u \o one) \o others = u \o (one \o others)
    <3>1. Associates(u, one, others)
      BY JoinAssociates
    <3> QED
      BY <3>1 DEF Associates
  <2> QED
    BY <1>5, <1>6, <1>7, <2>1 DEF Pending
<1>9. PICK w \in Seq(Packable) : w = one \o others
  BY ConcatProperties
<1>10. Pending = u \o w
  BY <1>5, <1>6, <1>9 DEF Pending
<1>11. Len(u) \in Nat /\ Len(others) \in Nat /\ Len(one) = 1
       /\ Len(v) = Len(u) + 1 /\ Len(v \o others) = Len(u) + 1 + Len(others)
  <2>1. Len(one) = 1
    BY <1>4
  <2>2. Len(u \o one) = Len(u) + Len(one) /\ Len(v \o others) = Len(v) + Len(others)
    BY ConcatProperties
  <2> QED
    BY <1>7, <2>1, <2>2, LenProperties
<1>12. SubSeq(u \o w, 1, Len(u)) = u
  BY BehindIs
<1>13. SubSeq(v \o others, Len(v) + 1, Len(v \o others)) = others
  BY BehindIs
<1>14. PICK k \in 1 .. Len(Pending) : k = Len(u) + 1 /\ k - 1 = Len(u) /\ k = Len(v)
  <2>1. Len(u) + 1 \in 1 .. Len(Pending) /\ Len(u) + 1 - 1 = Len(u)
    BY <1>8, <1>11
  <2> QED
    BY <1>11, <2>1
<1>15. SubSeq(Pending, 1, k - 1) = u
  BY <1>10, <1>12, <1>14
<1>16. SubSeq(Pending, k + 1, Len(Pending)) = others
  BY <1>8, <1>13, <1>14
<1> QED
  BY <1>1, <1>8, <1>15, <1>16

\* RX_DONE hands over the oldest of the messages.
LEMMA ProcessByteLink ==
  ASSUME TxInv, RxInv, RxInv', Copies, MessagesFit, ~overflowed, ProcessByte
  PROVE  \/ Pending' = Pending /\ delivered' = delivered
         \/ /\ Pending # << >>
            /\ delivered' = Append(delivered, Head(Pending))
            /\ Pending' = Tail(Pending)
<1>1. /\ \/ delivered' = delivered
         \/ delivered' = Append(delivered, payload')
      /\ handed' = handed /\ accepted' = accepted /\ popped' = popped /\ main_pc' = main_pc
      /\ overflowed' = overflowed
  BY DEF ProcessByte, process_unchanged
<1>2. ToHand' = ToHand
  BY <1>1 DEF ToHand, Taken
<1>3. CASE delivered' = delivered
  BY <1>1, <1>2, <1>3 DEF Pending, Undelivered
<1>4. CASE delivered' = Append(delivered, payload')
  <2>1. delivered \in Seq(Seq(Byte)) /\ delivered' \in Seq(Seq(Byte)) /\ handed \in Seq(Packable)
    BY DEF RxInv, RxTypeOK, TxInv
  <2>2. PICK n \in Nat : n = Len(delivered)
    BY <2>1, LenProperties
  <2>3. Len(delivered') = n + 1 /\ delivered'[n + 1] = payload'
    <3>1. Append(delivered, payload') \in Seq(Seq(Byte))
      BY <1>4, <2>1
    <3> QED
      BY <1>4, <2>1, <2>2, <3>1
  <2>4. /\ delivered' = SubSeq(handed, 1, n + 1) /\ n + 1 <= Len(handed)
    <3>1. /\ Len(delivered') <= Len(handed')
          /\ delivered' = SubSeq(handed', 1, Len(delivered'))
      <4>1. MessagesFit'
        BY DEF MessagesFit
      <4> QED
        BY <1>1, <4>1 DEF RxInv, NothingMissed
    <3> QED
      BY <1>1, <2>3, <3>1
  <2>5. n < Len(handed) /\ n + 1 \in 0 .. Len(handed) /\ n + 1 \in 1 .. n + 1
    BY <2>1, <2>2, <2>4, LenProperties
  <2>6. payload' = handed[n + 1]
    <3>1. \A i \in 1 .. n + 1 : SubSeq(handed, 1, n + 1)[i] = handed[i]
      BY <2>1, <2>5, Behind
    <3> QED
      BY <2>3, <2>4, <2>5, <3>1
  <2>7. PICK h \in Packable, one \in Seq(Packable), others \in Seq(Packable) :
          /\ h = handed[n + 1] /\ one = <<h>> /\ others = SubSeq(handed, n + 2, Len(handed))
          /\ SubSeq(handed, n + 1, Len(handed)) = one \o others
    <3>1. /\ handed[n + 1] \in Packable /\ <<handed[n + 1]>> \in Seq(Packable)
          /\ SubSeq(handed, n + 2, Len(handed)) \in Seq(Packable)
          /\ SubSeq(handed, n + 1, Len(handed))
               = <<handed[n + 1]>> \o SubSeq(handed, n + 2, Len(handed))
      BY <2>1, <2>5, OneApart
    <3> QED
      BY <3>1
  <2>8. Undelivered = one \o others /\ Undelivered' = others
    <3>1. n + 1 + 1 = n + 2
      BY <2>2
    <3> QED
      BY <1>1, <2>2, <2>3, <2>7, <3>1 DEF Undelivered
  <2>9. PICK t \in Seq(Packable) : t = ToHand
    BY HandFacts
  <2>10. PICK w \in Seq(Packable) : w = others \o t
    BY ConcatProperties
  <2>11. (one \o others) \o t = one \o (others \o t)
    <3>1. Associates(one, others, t)
      BY JoinAssociates
    <3> QED
      BY <3>1 DEF Associates
  <2>12. Pending = one \o w /\ Pending' = w
    BY <1>2, <2>8, <2>9, <2>10, <2>11 DEF Pending
  <2>13. one \o w # << >> /\ Head(one \o w) = h /\ Tail(one \o w) = w
    <3>1. PICK z \in Seq(Packable) : z = one \o w /\ Len(z) = 1 + Len(w) /\ z[1] = h
      <4>1. /\ one \o w \in Seq(Packable) /\ Len(one \o w) = Len(one) + Len(w)
            /\ \A i \in 1 .. Len(one) : (one \o w)[i] = one[i]
        BY ConcatProperties
      <4>2. Len(one) = 1 /\ one[1] = h /\ 1 \in 1 .. 1
        BY <2>7
      <4> QED
        BY <4>1, <4>2
    <3>2. z # << >> /\ Len(w) \in Nat
      BY <3>1, LenProperties
    <3>3. Head(z) = h
      BY <3>1, <3>2
    <3>4. <<Head(z)>> \o Tail(z) = z /\ Tail(z) \in Seq(Packable)
      BY <3>2, HeadAndTail
    <3>5. one \o Tail(z) = one \o w
      BY <2>7, <3>1, <3>3, <3>4
    <3>6. Tail(z) = w
      BY <3>4, <3>5, CancelFront
    <3> QED
      BY <3>1, <3>2, <3>3, <3>6
  <2> QED
    BY <1>4, <2>6, <2>7, <2>12, <2>13
<1> QED
  BY <1>1, <1>3, <1>4

LEMMA LinkInit == Init => EchoLink!Init
<1> SUFFICES ASSUME Init PROVE EchoLink!Init
  OBVIOUS
<1>1. Taken = 0 /\ delivered = << >> /\ Len(<< >>) = 0
  BY DEF Init, Taken
<1>2. Undelivered = SubSeq(<< >>, 0 + 1, 0) /\ ToHand = SubSeq(<< >>, 0 + 1, 0)
  BY <1>1 DEF Init, Undelivered, ToHand
<1>3. Undelivered = << >> /\ ToHand = << >>
  BY <1>2, SubSeqEmpty
<1>4. << >> \o << >> = << >>
  BY ConcatEmptySeq
<1> QED
  BY <1>1, <1>3, <1>4 DEF EchoLink!Init

LEMMA LinkNext ==
  ASSUME Copies, MessagesFit
  PROVE  /\ TxInv /\ RxInv /\ RxInv' /\ ~overflowed /\ [Next]_vars
           => [EchoLink!Next]_<<Undelivered \o ToHand, delivered>>
<1> SUFFICES ASSUME TxInv, RxInv, RxInv', ~overflowed, [Next]_vars
             PROVE  [EchoLink!Next]_<<Undelivered \o ToHand, delivered>>
  OBVIOUS
<1>0. PICK n \in 0 .. Len(handed) : n = Len(delivered) /\ Undelivered \in Seq(Packable)
  BY UndeliveredFacts
<1>1. ASSUME UNCHANGED <<Pending, delivered>>
      PROVE  [EchoLink!Next]_<<Undelivered \o ToHand, delivered>>
  BY <1>1 DEF Pending
<1>2. ASSUME UNCHANGED <<accepted, handed, delivered>>, Taken' = Taken
      PROVE  UNCHANGED <<Pending, delivered>>
  BY <1>2 DEF Pending, Undelivered, ToHand
<1>3. CASE UNCHANGED vars
  BY <1>1, <1>2, <1>3 DEF vars, app_vars, Taken
<1>4. CASE SendEmpty \/ SendReturn
  BY <1>1, <1>2, <1>4 DEF SendEmpty, NotQueued, SendReturn, send_unchanged, Taken
<1>5. CASE \E m \in Messages : SendRefused(m) \/ SendFull(m)
  BY <1>1, <1>2, <1>5 DEF SendRefused, SendFull, NotQueued, send_unchanged, Taken
<1>6. CASE \E m \in Messages : SendQueued(m)
  <2>1. PICK m \in Messages : SendQueued(m)
    BY <1>6
  <2>2. Pending' = Append(Pending, m) /\ delivered' = delivered
    BY <1>0, <2>1, SendQueuedLink
  <2>3. EchoLink!Accept
    BY <2>2 DEF EchoLink!Accept, Pending
  <2> QED
    BY <2>3 DEF EchoLink!Next
<1>7. CASE ProcessNoTx \/ ProcessSendOk \/ ProcessSendFailed \/ ProcessReturn
  BY <1>1, <1>2, <1>7 DEF ProcessNoTx, ProcessSendOk, ProcessSendFailed, ProcessReturn,
                          process_unchanged, Taken
<1>8. CASE ProcessPopFrame
  <2>1. popped \in Nat
    BY HandFacts
  <2>2. /\ main_pc = "app" /\ main_pc' = "send" /\ popped' = popped + 1
        /\ UNCHANGED <<accepted, handed, delivered>>
    BY <1>8 DEF ProcessPopFrame, PopFrame
  <2>3. Taken' = Taken
    <3>1. Taken = popped
      BY <2>2 DEF Taken
    <3>2. Taken' = popped' - 1
      BY <2>2 DEF Taken
    <3> QED
      BY <2>1, <2>2, <3>1, <3>2
  <2> QED
    BY <1>1, <1>2, <2>2, <2>3
<1>9. CASE ProcessByte
  <2>1. CASE Pending' = Pending /\ delivered' = delivered
    BY <1>1, <2>1
  <2>2. CASE /\ Pending # << >>
             /\ delivered' = Append(delivered, Head(Pending))
             /\ Pending' = Tail(Pending)
    BY <2>2 DEF EchoLink!Next, EchoLink!Deliver, Pending
  <2> QED
    BY <1>9, <2>1, <2>2, ProcessByteLink
<1>10. CASE TransportStart
  BY <1>0, <1>1, <1>10, TransportStartLink
<1>11. CASE TransportRefuse
  <2>1. /\ \E k \in 1 .. Len(Pending) :
              Pending' = SubSeq(Pending, 1, k - 1) \o SubSeq(Pending, k + 1, Len(Pending))
        /\ delivered' = delivered
    BY <1>0, <1>11, TransportRefuseLink
  <2> QED
    BY <2>1 DEF EchoLink!Next, EchoLink!Refuse, Pending
<1>12. CASE TransmitByte \/ comm_send_done_handler \/ Receive
  BY <1>1, <1>2, <1>12 DEF TransmitByte, comm_send_done_handler, Receive, comm_on_receive,
                           Arrive, main_unchanged, app_vars, Taken
<1> QED
  BY <1>3, <1>4, <1>5, <1>6, <1>7, <1>8, <1>9, <1>10, <1>11, <1>12 DEF Next, comm_send, comm_process

\* As long as no QUEUE_OVERFLOW is reported, the manager, a transport that
\* copies and a line that echoes are a link: what comm_send accepts is
\* delivered in order and once, or was refused by transport->send.
THEOREM ManagerImplementsLink ==
  ASSUME Copies, MessagesFit
  PROVE  Spec /\ []~overflowed => ImplementsLink
<1>1. /\ TxInv /\ RxInv /\ RxInv' /\ ~overflowed /\ [Next]_vars
        => [EchoLink!Next]_<<Undelivered \o ToHand, delivered>>
  BY LinkNext
<1> QED
  BY <1>1, LinkInit, ManagerInv, PTL DEF Spec, ImplementsLink, EchoLink!Spec
=============================================================================
