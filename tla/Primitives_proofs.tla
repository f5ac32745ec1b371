-------------------------- MODULE Primitives_proofs --------------------------
(***************************************************************************)
(* Proofs about the layouts of the boot protocol and about SHA-256.        *)
(***************************************************************************)
EXTENDS Sha256, BootProtocol, Crc_proofs

-----------------------------------------------------------------------------
(* The payloads of the boot protocol.                                      *)

\* x is found in p after n bytes.
Holds(p, n, x) == n + Len(x) <= Len(p) /\ \A i \in 1 .. Len(x) : p[n + i] = x[i]

LEMMA HoldsParts ==
  ASSUME NEW s \in Seq(Byte), NEW t \in Seq(Byte)
  PROVE  /\ s \o t \in Seq(Byte) /\ Len(s \o t) = Len(s) + Len(t)
         /\ Holds(s \o t, 0, s) /\ Holds(s \o t, Len(s), t)
<1>1. Len(s) \in Nat /\ Len(t) \in Nat
  BY LenProperties
<1>2. /\ s \o t \in Seq(Byte) /\ Len(s \o t) = Len(s) + Len(t)
      /\ \A i \in 1 .. Len(s) + Len(t) :
           (s \o t)[i] = IF i <= Len(s) THEN s[i] ELSE t[i - Len(s)]
  BY ConcatProperties
<1>3. PICK p \in Seq(Byte) : p = s \o t
  BY <1>2
<1>4. ASSUME NEW i \in 1 .. Len(s) PROVE p[0 + i] = s[i]
  <2>1. i \in 1 .. Len(s) + Len(t) /\ i <= Len(s) /\ 0 + i = i
    BY <1>1
  <2> QED
    BY <2>1, <1>2, <1>3
<1>5. ASSUME NEW i \in 1 .. Len(t) PROVE p[Len(s) + i] = t[i]
  <2>1. /\ Len(s) + i \in 1 .. Len(s) + Len(t) /\ ~(Len(s) + i <= Len(s))
        /\ (Len(s) + i) - Len(s) = i
    BY <1>1
  <2> QED
    BY <2>1, <1>2, <1>3
<1>6. 0 + Len(s) <= Len(p) /\ Len(s) + Len(t) <= Len(p)
  BY <1>1, <1>2, <1>3
<1> QED
  BY <1>2, <1>3, <1>4, <1>5, <1>6 DEF Holds

LEMMA HoldsStill ==
  ASSUME NEW s \in Seq(Byte), NEW t \in Seq(Byte), NEW n \in Nat, NEW x \in Seq(Byte),
         Holds(s, n, x)
  PROVE  Holds(s \o t, n, x)
<1>1. Len(s) \in Nat /\ Len(t) \in Nat /\ Len(x) \in Nat
  BY LenProperties
<1>2. /\ s \o t \in Seq(Byte) /\ Len(s \o t) = Len(s) + Len(t) /\ Holds(s \o t, 0, s)
  BY HoldsParts
<1>3. PICK p \in Seq(Byte) : p = s \o t
  BY <1>2
<1>4. ASSUME NEW i \in 1 .. Len(x) PROVE p[n + i] = x[i]
  <2>1. n + i \in 1 .. Len(s) /\ 0 + (n + i) = n + i
    BY <1>1 DEF Holds
  <2>2. p[0 + (n + i)] = s[n + i]
    BY <2>1, <1>2, <1>3 DEF Holds
  <2> QED
    BY <2>1, <2>2 DEF Holds
<1>5. n + Len(x) <= Len(p)
  BY <1>1, <1>2, <1>3 DEF Holds
<1> QED
  BY <1>3, <1>4, <1>5 DEF Holds

\* p is t after s, and holds what s held where s held it.
IsJoin(p, s, t) ==
  /\ p = s \o t /\ Len(p) = Len(s) + Len(t) /\ Holds(p, 0, s) /\ Holds(p, Len(s), t)
  /\ \A n \in Nat : \A x \in Seq(Byte) : Holds(s, n, x) => Holds(p, n, x)

LEMMA JoinExists ==
  ASSUME NEW s \in Seq(Byte), NEW t \in Seq(Byte)
  PROVE  \E p \in Seq(Byte) : IsJoin(p, s, t)
<1>1. PICK p \in Seq(Byte) : /\ p = s \o t /\ Len(p) = Len(s) + Len(t)
                             /\ Holds(p, 0, s) /\ Holds(p, Len(s), t)
  <2>1. /\ s \o t \in Seq(Byte) /\ Len(s \o t) = Len(s) + Len(t)
        /\ Holds(s \o t, 0, s) /\ Holds(s \o t, Len(s), t)
    BY HoldsParts
  <2> QED
    BY <2>1
<1>2. ASSUME NEW n \in Nat, NEW x \in Seq(Byte), Holds(s, n, x) PROVE Holds(p, n, x)
  <2>1. Holds(s \o t, n, x)
    BY <1>2, HoldsStill
  <2> QED
    BY <1>1, <2>1
<1> QED
  BY <1>1, <1>2 DEF IsJoin

LEMMA HoldsTaken ==
  ASSUME NEW p \in Seq(Byte), NEW n \in Nat, NEW x \in Seq(Byte), Holds(p, n, x)
  PROVE  SubSeq(p, n + 1, n + Len(x)) = x
<1>1. Len(p) \in Nat /\ Len(x) \in Nat
  BY LenProperties
<1>2. PICK m \in Nat : m = n + Len(x) /\ m <= Len(p)
  BY <1>1 DEF Holds
<1>3. n + 1 \in 1 .. Len(p) + 1 /\ m \in n .. Len(p)
  BY <1>1, <1>2
<1>6. PICK y \in Seq(Byte) : y = SubSeq(p, n + 1, m)
  <2>1. SubSeq(p, n + 1, m) \in Seq(Byte)
    BY <1>3, SubSeqProperties
  <2> QED
    BY <2>1
<1>4. /\ Len(y) = Len(x) /\ \A i \in 1 .. Len(x) : y[i] = p[n + 1 + i - 1]
  <2>1. CASE n + 1 <= m
    <3>1. /\ Len(y) = m - (n + 1) + 1
          /\ \A i \in 1 .. m - (n + 1) + 1 : y[i] = p[n + 1 + i - 1]
      BY <1>3, <1>6, <2>1, SubSeqProperties
    <3> QED
      BY <1>1, <1>2, <3>1
  <2>2. CASE ~(n + 1 <= m)
    <3>1. Len(x) = 0
      BY <1>1, <1>2, <2>2
    <3>2. Len(y) = 0
      BY <1>3, <1>6, <2>2, SubSeqProperties
    <3> QED
      BY <3>1, <3>2
  <2> QED
    BY <2>1, <2>2
<1>5. \A i \in 1 .. Len(x) : y[i] = x[i]
  <2> SUFFICES ASSUME NEW i \in 1 .. Len(x) PROVE y[i] = x[i]
    OBVIOUS
  <2>1. n + 1 + i - 1 = n + i
    BY <1>1
  <2> QED
    BY <1>4, <2>1 DEF Holds
<1>7. y = x
  BY <1>4, <1>5, SeqEqual
<1> QED
  BY <1>2, <1>6, <1>7

\* A 32-bit field reads back as it was written.
LEMMA FieldReads ==
  ASSUME NEW v \in Word
  PROVE  /\ write_u32_le(v) \in Seq(Byte) /\ Len(write_u32_le(v)) = 4
         /\ \A p : \A n \in Nat : Holds(p, n, write_u32_le(v)) => read_u32_le(p, n) = v
<1>1. PICK a \in Half, b \in Half : v = <<a, b>>
  BY WordHalves
<1>2. PICK x \in Byte, y \in Byte : /\ x = b % 256 /\ y = b \div 256 /\ b = x + 256 * y
  <2>1. b % 256 \in Byte /\ b \div 256 \in Byte /\ b = (b % 256) + 256 * (b \div 256)
    BY DEF Byte, Half
  <2> QED
    BY <2>1
<1>3. PICK z \in Byte, u \in Byte : /\ z = a % 256 /\ u = a \div 256 /\ a = z + 256 * u
  <2>1. a % 256 \in Byte /\ a \div 256 \in Byte /\ a = (a % 256) + 256 * (a \div 256)
    BY DEF Byte, Half
  <2> QED
    BY <2>1
<1>4. write_u32_le(v) = <<x, y, z, u>>
  BY <1>1, <1>2, <1>3 DEF write_u32_le
<1>5. PICK w \in Seq(Byte) : /\ w = write_u32_le(v) /\ Len(w) = 4
                             /\ w[1] = x /\ w[2] = y /\ w[3] = z /\ w[4] = u
  <2>1. /\ <<x, y, z, u>> \in Seq(Byte) /\ Len(<<x, y, z, u>>) = 4
        /\ <<x, y, z, u>>[1] = x /\ <<x, y, z, u>>[2] = y /\ <<x, y, z, u>>[3] = z
        /\ <<x, y, z, u>>[4] = u
    OBVIOUS
  <2> QED
    BY <1>4, <2>1
<1>6. ASSUME NEW p, NEW n \in Nat, Holds(p, n, w) PROVE read_u32_le(p, n) = v
  <2>1. /\ p[n + 1] = w[1] /\ p[n + 2] = w[2] /\ p[n + 3] = w[3] /\ p[n + 4] = w[4]
    BY <1>5, <1>6 DEF Holds
  <2>2. read_u32_le(p, n) = <<z + 256 * u, x + 256 * y>>
    BY <1>5, <2>1 DEF read_u32_le
  <2> QED
    BY <1>1, <1>2, <1>3, <2>2
<1> QED
  BY <1>5, <1>6


\* What the host encodes, part by part.
BeginPayload(v, w, s, t) == <<16>> \o write_u32_le(v) \o write_u32_le(w) \o s \o t
ChunkPayload(v, s) == <<17>> \o write_u32_le(v) \o s
IsBegin(p, v, w, s, t) ==
  /\ p = BeginPayload(v, w, s, t)
  /\ Len(p) = 105 /\ p[1] = 16
  /\ read_u32_le(p, 1) = v /\ read_u32_le(p, 5) = w
  /\ SubSeq(p, 10, 41) = s /\ SubSeq(p, 42, 105) = t

LEMMA BeginEncoded ==
  ASSUME NEW v \in Word, NEW w \in Word,
         NEW s \in Seq(Byte), Len(s) = 32, NEW t \in Seq(Byte), Len(t) = 64
  PROVE  \E p \in Seq(Byte) : IsBegin(p, v, w, s, t)
<1>1. PICK a \in Seq(Byte) : a = <<16>> /\ Len(a) = 1 /\ a[1] = 16
  <2>1. <<16>> \in Seq(Byte) /\ Len(<<16>>) = 1 /\ <<16>>[1] = 16
    BY DEF Byte
  <2> QED
    BY <2>1
<1>2. PICK b \in Seq(Byte) : b = write_u32_le(v) /\ Len(b) = 4
  BY FieldReads
<1>3. PICK c \in Seq(Byte) : c = write_u32_le(w) /\ Len(c) = 4
  BY FieldReads
<1>4. PICK p2 \in Seq(Byte) : IsJoin(p2, a, b)
  BY JoinExists
<1>4a. /\ p2 = a \o b /\ Len(p2) = 5 /\ Holds(p2, 0, a) /\ Holds(p2, 1, b)
  BY <1>1, <1>2, <1>4 DEF IsJoin
<1>5. PICK p3 \in Seq(Byte) : IsJoin(p3, p2, c)
  BY JoinExists
<1>5a. /\ p3 = p2 \o c /\ Len(p3) = 9 /\ Holds(p3, 0, a) /\ Holds(p3, 1, b) /\ Holds(p3, 5, c)
  BY <1>3, <1>4a, <1>5 DEF IsJoin
<1>6. PICK p4 \in Seq(Byte) : IsJoin(p4, p3, s)
  BY JoinExists
<1>6a. /\ p4 = p3 \o s /\ Len(p4) = 41 /\ Holds(p4, 0, a) /\ Holds(p4, 1, b) /\ Holds(p4, 5, c)
       /\ Holds(p4, 9, s)
  BY <1>5a, <1>6 DEF IsJoin
<1>7. PICK p \in Seq(Byte) : IsJoin(p, p4, t)
  BY JoinExists
<1>7a. /\ p = p4 \o t /\ Len(p) = 105 /\ Holds(p, 0, a) /\ Holds(p, 1, b) /\ Holds(p, 5, c)
       /\ Holds(p, 9, s) /\ Holds(p, 41, t)
  BY <1>6a, <1>7 DEF IsJoin
<1>8. p[1] = 16
  <2>1. Holds(p, 0, a) /\ 1 \in 1 .. Len(a)
    BY <1>1, <1>7a
  <2>2. p[0 + 1] = a[1]
    BY <2>1 DEF Holds
  <2> QED
    BY <1>1, <2>2
<1>9. read_u32_le(p, 1) = v /\ read_u32_le(p, 5) = w
  BY <1>2, <1>3, <1>7a, FieldReads
<1>10. SubSeq(p, 10, 41) = s /\ SubSeq(p, 42, 105) = t
  <2>1. PICK n \in Nat, m \in Nat : n = 9 /\ m = 41
    OBVIOUS
  <2>2. Holds(p, n, s) /\ Holds(p, m, t)
    BY <1>7a, <2>1
  <2>3. SubSeq(p, n + 1, n + Len(s)) = s
    BY ONLY <2>2, p \in Seq(Byte), n \in Nat, s \in Seq(Byte), HoldsTaken
  <2>4. SubSeq(p, m + 1, m + Len(t)) = t
    BY ONLY <2>2, p \in Seq(Byte), m \in Nat, t \in Seq(Byte), HoldsTaken
  <2> QED
    BY <2>1, <2>3, <2>4
<1> QED
  <2>1. p = BeginPayload(v, w, s, t)
    BY <1>1, <1>2, <1>3, <1>4a, <1>5a, <1>6a, <1>7a DEF BeginPayload
  <2> QED
    BY <1>7a, <1>8, <1>9, <1>10, <2>1 DEF IsBegin

LEMMA ChunkEncoded ==
  ASSUME NEW v \in Word, NEW s \in Seq(Byte)
  PROVE  \E p \in Seq(Byte) :
           /\ p = ChunkPayload(v, s)
           /\ Len(p) = 5 + Len(s) /\ p[1] = 17
           /\ read_u32_le(p, 1) = v /\ SubSeq(p, 6, Len(p)) = s
<1>1. PICK a \in Seq(Byte) : a = <<17>> /\ Len(a) = 1 /\ a[1] = 17
  <2>1. <<17>> \in Seq(Byte) /\ Len(<<17>>) = 1 /\ <<17>>[1] = 17
    BY DEF Byte
  <2> QED
    BY <2>1
<1>2. PICK b \in Seq(Byte) : b = write_u32_le(v) /\ Len(b) = 4
  BY FieldReads
<1>4. PICK p2 \in Seq(Byte) : IsJoin(p2, a, b)
  BY JoinExists
<1>4a. /\ p2 = a \o b /\ Len(p2) = 5 /\ Holds(p2, 0, a) /\ Holds(p2, 1, b)
  BY <1>1, <1>2, <1>4 DEF IsJoin
<1>5. PICK p \in Seq(Byte) : IsJoin(p, p2, s)
  BY JoinExists
<1>5a. /\ p = p2 \o s /\ Len(p) = 5 + Len(s) /\ Holds(p, 0, a) /\ Holds(p, 1, b) /\ Holds(p, 5, s)
  BY <1>4a, <1>5 DEF IsJoin
<1>8. p[1] = 17
  <2>1. p[0 + 1] = a[1]
    BY <1>1, <1>5a DEF Holds
  <2> QED
    BY <1>1, <2>1
<1>9. read_u32_le(p, 1) = v
  BY <1>2, <1>5a, FieldReads
<1>10. SubSeq(p, 6, Len(p)) = s
  <2>1. SubSeq(p, 5 + 1, 5 + Len(s)) = s
    BY <1>5a, HoldsTaken
  <2> QED
    BY <1>5a, <2>1
<1> QED
  <2>1. p = ChunkPayload(v, s)
    BY <1>1, <1>2, <1>4a, <1>5a DEF ChunkPayload
  <2> QED
    BY <1>5a, <1>8, <1>9, <1>10, <2>1

\* What arrives of p when bytes are missing or added.
Arrived(p, slack) == IF slack <= 0 THEN SubSeq(p, 1, Len(p) + slack) ELSE p \o Zeros(slack)

LEMMA ArrivedIs ==
  ASSUME NEW p \in Seq(Byte), Len(p) >= 1, NEW slack \in Int, Len(p) + slack >= 1
  PROVE  /\ Arrived(p, slack) \in Seq(Byte) /\ Len(Arrived(p, slack)) = Len(p) + slack
         /\ Arrived(p, slack)[1] = p[1]
         /\ slack = 0 => Arrived(p, slack) = p
<1>1. Len(p) \in Nat
  BY LenProperties
<1>2. CASE slack <= 0
  <2>1. PICK m \in Nat : m = Len(p) + slack /\ m >= 1 /\ m <= Len(p)
    BY <1>1, <1>2
  <2>2. 1 \in 1 .. Len(p) + 1 /\ m \in 1 - 1 .. Len(p)
    BY <1>1, <2>1
  <2>3. /\ SubSeq(p, 1, m) \in Seq(Byte) /\ Len(SubSeq(p, 1, m)) = m
        /\ \A i \in 1 .. m : SubSeq(p, 1, m)[i] = p[i]
    <3>1. /\ SubSeq(p, 1, m) \in Seq(Byte) /\ Len(SubSeq(p, 1, m)) = m - 1 + 1
          /\ \A i \in 1 .. m - 1 + 1 : SubSeq(p, 1, m)[i] = p[1 + i - 1]
      BY <2>1, <2>2, SubSeqProperties
    <3>2. m - 1 + 1 = m /\ \A i \in 1 .. m : 1 + i - 1 = i
      OBVIOUS
    <3> QED
      BY <3>1, <3>2
  <2>4. PICK y \in Seq(Byte) : y = SubSeq(p, 1, m)
    BY <2>3
  <2>5. Arrived(p, slack) = y
    BY <1>2, <2>1, <2>4 DEF Arrived
  <2>6. slack = 0 => y = p
    <3> SUFFICES ASSUME slack = 0 PROVE y = p
      OBVIOUS
    <3>1. m = Len(p)
      BY <1>1, <2>1
    <3> QED
      BY <3>1, <2>3, <2>4, SeqEqual
  <2>7. 1 \in 1 .. m
    BY <2>1
  <2> QED
    BY <2>1, <2>3, <2>4, <2>5, <2>6, <2>7
<1>3. CASE ~(slack <= 0)
  <2>1. slack \in Nat
    BY <1>3
  <2>2. PICK z \in Seq(Byte) : z = Zeros(slack) /\ Len(z) = slack
    <3>1. Zeros(slack) \in Seq(Byte) /\ Len(Zeros(slack)) = slack
      BY <2>1, IsASeq DEF Zeros, Byte
    <3> QED
      BY <3>1
  <2>3. /\ p \o z \in Seq(Byte) /\ Len(p \o z) = Len(p) + Len(z) /\ Holds(p \o z, 0, p)
    BY HoldsParts
  <2>4. (p \o z)[0 + 1] = p[1]
    <3>1. 1 \in 1 .. Len(p)
      BY <1>1
    <3> QED
      BY <2>3, <3>1 DEF Holds
  <2>5. Arrived(p, slack) = p \o z
    BY <1>3, <2>2 DEF Arrived
  <2> QED
    BY <1>3, <2>2, <2>3, <2>4, <2>5
<1> QED
  BY <1>2, <1>3


\* The command is a BEGIN with these fields.
BeginIs(c, v, w, s, t) ==
  /\ c = [accepted |-> TRUE, command |-> 16, image_size |-> v,
          image_version |-> w, image_sha256 |-> s, signature |-> t]
  /\ Len(s) = 32 /\ Len(t) = 64

LEMMA CommandKinds ==
  ASSUME NEW c \in Commands
  PROVE  \/ \E v, w \in Word : \E s, t \in Seq(Byte) :
              /\ c = [accepted |-> TRUE, command |-> 16, image_size |-> v,
                      image_version |-> w, image_sha256 |-> s, signature |-> t]
              /\ Len(s) = 32 /\ Len(t) = 64
         \/ \E v \in Word : \E s \in Seq(Byte) :
              c = [accepted |-> TRUE, command |-> 17, offset |-> v, data |-> s]
         \/ c = [accepted |-> TRUE, command |-> 18]
<1>1. CASE c \in [accepted : {TRUE}, command : {UPDATE_BEGIN}, image_size : Fields,
                 image_version : Fields, image_sha256 : Hashes, signature : Signatures]
  <2>1. /\ c.image_size \in Fields /\ c.image_version \in Fields
        /\ c.image_sha256 \in Hashes /\ c.signature \in Signatures
        /\ c = [accepted |-> TRUE, command |-> 16, image_size |-> c.image_size,
                image_version |-> c.image_version, image_sha256 |-> c.image_sha256,
                signature |-> c.signature]
    BY <1>1 DEF UPDATE_BEGIN
  <2>2. PICK v \in Fields, w \in Fields, s \in Hashes, t \in Signatures :
          c = [accepted |-> TRUE, command |-> 16, image_size |-> v,
               image_version |-> w, image_sha256 |-> s, signature |-> t]
    BY <2>1
  <2>3. v \in Word /\ w \in Word /\ s \in Seq(Byte) /\ Len(s) = 32
        /\ t \in Seq(Byte) /\ Len(t) = 64
    BY BootAssumption DEF Word
  <2>4. v \in Word /\ w \in Word /\ s \in Seq(Byte) /\ t \in Seq(Byte)
    BY ONLY <2>3
  <2>5. BeginIs(c, v, w, s, t)
    BY ONLY <2>2, <2>3 DEF BeginIs
  <2>6. \E v1, w1 \in Word : \E s1, t1 \in Seq(Byte) : BeginIs(c, v1, w1, s1, t1)
    BY ONLY <2>4, <2>5
  <2> QED
    BY ONLY <2>6, Zenon DEF BeginIs
<1>2. CASE c \in [accepted : {TRUE}, command : {UPDATE_CHUNK}, offset : Fields, data : Chunks]
  <2>1. /\ c.offset \in Fields /\ c.data \in Chunks
        /\ c = [accepted |-> TRUE, command |-> 17, offset |-> c.offset, data |-> c.data]
    BY <1>2 DEF UPDATE_CHUNK
  <2>2. PICK v \in Fields, s \in Chunks :
          c = [accepted |-> TRUE, command |-> 17, offset |-> v, data |-> s]
    BY <2>1
  <2>3. v \in Word /\ s \in Seq(Byte)
    BY BootAssumption DEF Word
  <2> QED
    BY <2>2, <2>3
<1>3. CASE c \in [accepted : {TRUE}, command : {UPDATE_END}]
  BY <1>3 DEF UPDATE_END
<1> QED
  BY <1>1, <1>2, <1>3 DEF Commands

\* What arrived as the payload, and what the three parsers make of it.
Parsed(q) ==
  [begin |-> parse_update_begin(q), chunk |-> parse_update_chunk(q),
   end |-> parse_update_end(q)]

\* Once it is known which parser takes q, if any, and what it makes of it.
LEMMA OneTaker ==
  ASSUME NEW g, DOMAIN g = {"begin", "chunk", "end"}, NEW b \in DOMAIN g, NEW takes \in BOOLEAN,
         \A n \in DOMAIN g : n # b => g[n] = Refused,
         IF takes THEN g[b].accepted = TRUE ELSE g[b] = Refused
  PROVE  {n \in DOMAIN g : g[n].accepted} = IF takes THEN {b} ELSE {}
<1>1. ~Refused.accepted
  BY DEF Refused
<1> QED
  BY <1>1

LEMMA BeginParsed ==
  ASSUME NEW v \in Word, NEW w \in Word, NEW s \in Seq(Byte), Len(s) = 32,
         NEW t \in Seq(Byte), Len(t) = 64, NEW slack \in Int,
         NEW c, c = [accepted |-> TRUE, command |-> 16, image_size |-> v,
                     image_version |-> w, image_sha256 |-> s, signature |-> t],
         NEW q, q = Arrived(HostEncode(c), slack), Len(HostEncode(c)) + slack >= 1
  PROVE  /\ parse_update_chunk(q) = Refused /\ parse_update_end(q) = Refused
         /\ parse_update_begin(q) = IF slack = 0 THEN c ELSE Refused
<1>0. PICK p \in Seq(Byte) : IsBegin(p, v, w, s, t)
  BY BeginEncoded
<1>1. /\ p = BeginPayload(v, w, s, t)
      /\ Len(p) = 105 /\ p[1] = 16
      /\ read_u32_le(p, 1) = v /\ read_u32_le(p, 5) = w
      /\ SubSeq(p, 10, 41) = s /\ SubSeq(p, 42, 105) = t
  BY <1>0 DEF IsBegin
<1>2. HostEncode(c) = p
  <2>1. /\ c.command = 16 /\ c.image_size = v /\ c.image_version = w
        /\ c.image_sha256 = s /\ c.signature = t
    OBVIOUS
  <2>2. HostEncode(c) = BeginPayload(v, w, s, t)
    BY ONLY <2>1 DEF BeginPayload, HostEncode, UPDATE_BEGIN, UPDATE_CHUNK, UPDATE_END
  <2> QED
    BY <1>1, <2>2
<1>3. /\ q \in Seq(Byte) /\ Len(q) = 105 + slack /\ q[1] = 16 /\ (slack = 0 => q = p)
  <2>1. q = Arrived(p, slack) /\ Len(p) + slack >= 1
    BY <1>2, Zenon
  <2>2. Len(p) >= 1
    BY ONLY <1>1
  <2>3. /\ q \in Seq(Byte) /\ Len(q) = Len(p) + slack /\ q[1] = p[1]
        /\ (slack = 0 => q = p)
    BY <2>1, <2>2, ArrivedIs
  <2> QED
    BY <1>1, <2>3
<1>4. parse_update_chunk(q) = Refused /\ parse_update_end(q) = Refused
  BY <1>3 DEF parse_update_chunk, parse_update_end, UPDATE_CHUNK, UPDATE_END
<1>5. slack # 0 => parse_update_begin(q) = Refused
  <2>1. slack # 0 => Len(q) # 105
    BY ONLY <1>3, slack \in Int
  <2> QED
    BY <2>1 DEF parse_update_begin, UPDATE_BEGIN_SIZE
<1>6. slack = 0 => parse_update_begin(q) = c
  <2>1. slack = 0 => /\ Len(q) = 105 /\ q[1] = 16 /\ read_u32_le(q, 1) = v
                     /\ read_u32_le(q, 5) = w /\ SubSeq(q, 10, 41) = s
                     /\ SubSeq(q, 42, 105) = t
    BY <1>1, <1>3, ZenonT(60)
  <2> QED
    BY <2>1 DEF parse_update_begin, UPDATE_BEGIN_SIZE, UPDATE_BEGIN
<1> QED
  BY <1>4, <1>5, <1>6

ChunkTaken(q, c, slack) ==
  /\ parse_update_begin(q) = Refused /\ parse_update_end(q) = Refused
  /\ IF Len(q) > 5 THEN parse_update_chunk(q).accepted = TRUE
     ELSE parse_update_chunk(q) = Refused
  /\ slack = 0 /\ Len(q) > 5 => parse_update_chunk(q) = c

LEMMA ChunkParsed ==
  ASSUME NEW v \in Word, NEW s \in Seq(Byte), NEW slack \in Int,
         NEW c, c = [accepted |-> TRUE, command |-> 17, offset |-> v, data |-> s],
         NEW q, q = Arrived(HostEncode(c), slack), Len(HostEncode(c)) + slack >= 1
  PROVE  ChunkTaken(q, c, slack)
<1>1. PICK p \in Seq(Byte) :
         /\ p = ChunkPayload(v, s)
         /\ Len(p) = 5 + Len(s) /\ p[1] = 17
         /\ read_u32_le(p, 1) = v /\ SubSeq(p, 6, Len(p)) = s
  BY ChunkEncoded
<1>2. HostEncode(c) = p
  <2>1. c.command = 17 /\ c.offset = v /\ c.data = s
    OBVIOUS
  <2>2. HostEncode(c) = ChunkPayload(v, s)
    BY ONLY <2>1 DEF ChunkPayload, HostEncode, UPDATE_BEGIN, UPDATE_CHUNK, UPDATE_END
  <2> QED
    BY <1>1, <2>2
<1>3. /\ q \in Seq(Byte) /\ Len(q) \in Nat /\ q[1] = 17 /\ (slack = 0 => q = p)
  <2>1. Len(s) \in Nat /\ Len(p) >= 1 /\ Len(p) + slack >= 1
    BY <1>1, <1>2, LenProperties
  <2>2. q \in Seq(Byte) /\ q[1] = p[1] /\ (slack = 0 => q = p)
    BY <1>1, <1>2, <2>1, ArrivedIs
  <2> QED
    BY <1>1, <2>2, LenProperties
<1>4. parse_update_begin(q) = Refused /\ parse_update_end(q) = Refused
  BY <1>3 DEF parse_update_begin, parse_update_end, UPDATE_BEGIN, UPDATE_END
<1>5. IF Len(q) > 5 THEN parse_update_chunk(q).accepted = TRUE
      ELSE parse_update_chunk(q) = Refused
  <2>1. CASE Len(q) > 5
    <3>1. ~(Len(q) < 6) /\ q[1] = UPDATE_CHUNK
      BY <1>3, <2>1 DEF UPDATE_CHUNK
    <3>2. parse_update_chunk(q).accepted = TRUE
      BY <3>1 DEF parse_update_chunk
    <3> QED
      BY <2>1, <3>2
  <2>2. CASE ~(Len(q) > 5)
    <3>1. Len(q) < 6
      BY <1>3, <2>2
    <3> QED
      BY <2>2, <3>1 DEF parse_update_chunk
  <2> QED
    BY <2>1, <2>2
<1>6. ASSUME slack = 0, Len(q) > 5 PROVE parse_update_chunk(q) = c
  <2>1. ~(Len(q) < 6) /\ q[1] = UPDATE_CHUNK
    BY <1>3, <1>6 DEF UPDATE_CHUNK
  <2>2. read_u32_le(q, 1) = v /\ SubSeq(q, 6, Len(q)) = s
    BY <1>1, <1>3, <1>6
  <2> QED
    BY <2>1, <2>2 DEF parse_update_chunk, UPDATE_CHUNK
<1> QED
  BY <1>4, <1>5, <1>6 DEF ChunkTaken

LEMMA EndParsed ==
  ASSUME NEW slack \in Int, NEW c, c = [accepted |-> TRUE, command |-> 18],
         NEW q, q = Arrived(HostEncode(c), slack), Len(HostEncode(c)) + slack >= 1
  PROVE  /\ parse_update_begin(q) = Refused /\ parse_update_chunk(q) = Refused
         /\ parse_update_end(q) = IF slack = 0 THEN c ELSE Refused
<1>1. PICK p \in Seq(Byte) : p = <<18>> /\ Len(p) = 1 /\ p[1] = 18
  <2>1. <<18>> \in Seq(Byte) /\ Len(<<18>>) = 1 /\ <<18>>[1] = 18
    BY DEF Byte
  <2> QED
    BY <2>1
<1>2. HostEncode(c) = p
  <2>1. c.command = 18
    OBVIOUS
  <2> QED
    BY ONLY <2>1, <1>1 DEF HostEncode, UPDATE_BEGIN, UPDATE_CHUNK, UPDATE_END
<1>3. /\ q \in Seq(Byte) /\ Len(q) = 1 + slack /\ q[1] = 18 /\ (slack = 0 => q = p)
  <2>1. q = Arrived(p, slack) /\ Len(p) + slack >= 1
    BY <1>2, Zenon
  <2>2. Len(p) >= 1
    BY ONLY <1>1
  <2>3. /\ q \in Seq(Byte) /\ Len(q) = Len(p) + slack /\ q[1] = p[1]
        /\ (slack = 0 => q = p)
    BY <2>1, <2>2, ArrivedIs
  <2> QED
    BY <1>1, <2>3
<1>4. parse_update_begin(q) = Refused /\ parse_update_chunk(q) = Refused
  BY <1>3 DEF parse_update_begin, parse_update_chunk, UPDATE_BEGIN, UPDATE_CHUNK
<1>5. slack # 0 => parse_update_end(q) = Refused
  <2>1. slack # 0 => Len(q) # 1
    BY ONLY <1>3, slack \in Int
  <2> QED
    BY <2>1 DEF parse_update_end, UPDATE_END_SIZE
<1>6. slack = 0 => parse_update_end(q) = c
  <2>1. slack = 0 => Len(q) = 1 /\ q[1] = 18
    BY <1>1, <1>3
  <2> QED
    BY <2>1 DEF parse_update_end, UPDATE_END_SIZE, UPDATE_END
<1> QED
  BY <1>4, <1>5, <1>6

\* A command of the wrong kind or length is refused; the right one arrives.
LEMMA CommandExchange ==
  ASSUME NEW c \in Commands, NEW slack \in Slack, Command(c, slack)
  PROVE  BootExchange'
<1>0. slack \in Int
  BY BootAssumption
<1>1. PICK q : /\ q = Arrived(HostEncode(c), slack) /\ payload' = q
               /\ Len(HostEncode(c)) + slack >= 1
               /\ sent' = [c EXCEPT !.accepted = slack = 0]
               /\ got' = Parsed(q)
  BY DEF Command, Arrived, Parsed
<1>2. PICK g : g = got' /\ DOMAIN g = {"begin", "chunk", "end"}
        /\ g["begin"] = parse_update_begin(q) /\ g["chunk"] = parse_update_chunk(q)
        /\ g["end"] = parse_update_end(q)
  BY <1>1 DEF Parsed
<1>3. \A n \in DOMAIN g : n \in {"begin", "chunk", "end"}
  BY <1>2
<1>4. Refused.accepted = FALSE
  BY DEF Refused
<1>5. ASSUME NEW b \in DOMAIN g, NEW takes \in BOOLEAN,
             {n \in DOMAIN g : g[n].accepted} = IF takes THEN {b} ELSE {},
             slack = 0 /\ takes => g[b] = c, "command" \in DOMAIN c,
             "accepted" \in DOMAIN c,
             c.accepted = TRUE, c = [n \in DOMAIN c |-> c[n]],
             IF c.command = UPDATE_CHUNK THEN b = "chunk" /\ takes = (Len(q) > 5)
             ELSE takes = (slack = 0) /\ b = IF c.command = UPDATE_END THEN "end" ELSE "begin"
      PROVE  BootExchange'
  <2>1. "command" \in DOMAIN sent' /\ sent'.command = c.command /\ sent'.accepted = (slack = 0)
    BY <1>1, <1>5
  <2>2. slack = 0 => sent' = c
    BY <1>1, <1>5
  <2>3. \A n \in DOMAIN g : g[n].accepted => n = b /\ takes
    BY <1>5
  <2>4. sent'.accepted => \A n \in DOMAIN got' : got'[n].accepted => got'[n] = sent'
    BY <1>2, <1>5, <2>1, <2>2, <2>3
  <2>5. {n \in DOMAIN got' : got'[n].accepted} = IF takes THEN {b} ELSE {}
    BY <1>2, <1>5
  <2>6. IF sent'.command = UPDATE_CHUNK
        THEN {n \in DOMAIN got' : got'[n].accepted}
               = IF Len(payload') > 5 THEN {"chunk"} ELSE {}
        ELSE {n \in DOMAIN got' : got'[n].accepted}
               = IF sent'.accepted THEN {IF sent'.command = UPDATE_END
                                         THEN "end" ELSE "begin"} ELSE {}
    BY <1>1, <1>5, <2>1, <2>5
  <2> QED
    BY <2>1, <2>4, <2>6 DEF BootExchange
<1>6. ASSUME NEW v \in Word, NEW w \in Word, NEW s \in Seq(Byte), Len(s) = 32,
             NEW t \in Seq(Byte), Len(t) = 64,
             c = [accepted |-> TRUE, command |-> 16, image_size |-> v,
                  image_version |-> w, image_sha256 |-> s, signature |-> t]
      PROVE  BootExchange'
  <2>1. PICK takes \in BOOLEAN : takes = (slack = 0)
    OBVIOUS
  <2>2. /\ g["chunk"] = Refused /\ g["end"] = Refused
        /\ g["begin"] = IF slack = 0 THEN c ELSE Refused
    BY <1>0, <1>1, <1>2, <1>6, BeginParsed
  <2>3. /\ c.accepted = TRUE /\ c.command = 16 /\ "command" \in DOMAIN c
        /\ "accepted" \in DOMAIN c /\ c = [n \in DOMAIN c |-> c[n]]
    BY <1>6
  <2>4. /\ IF takes THEN g["begin"].accepted = TRUE ELSE g["begin"] = Refused
        /\ slack = 0 /\ takes => g["begin"] = c
    BY <2>1, <2>2, <2>3
  <2>5. {n \in DOMAIN g : g[n].accepted} = IF takes THEN {"begin"} ELSE {}
    BY <1>2, <1>3, <2>2, <2>4, OneTaker, ZenonT(60)
  <2>6. IF c.command = UPDATE_CHUNK THEN "begin" = "chunk" /\ takes = (Len(q) > 5)
        ELSE takes = (slack = 0) /\ "begin" = IF c.command = UPDATE_END THEN "end" ELSE "begin"
    BY <2>1, <2>3 DEF UPDATE_CHUNK, UPDATE_END
  <2>7. "begin" \in DOMAIN g
    BY <1>2
  <2> QED
    BY <1>5, <2>3, <2>4, <2>5, <2>6, <2>7
<1>7. ASSUME NEW v \in Word, NEW s \in Seq(Byte),
             c = [accepted |-> TRUE, command |-> 17, offset |-> v, data |-> s]
      PROVE  BootExchange'
  <2>1. PICK takes \in BOOLEAN : takes = (Len(q) > 5)
    <3>1. (Len(q) > 5) \in BOOLEAN
      BY ONLY TRUE
    <3> QED
      BY <3>1
  <2>2. /\ g["begin"] = Refused /\ g["end"] = Refused
        /\ IF takes THEN g["chunk"].accepted = TRUE ELSE g["chunk"] = Refused
        /\ slack = 0 /\ takes => g["chunk"] = c
    <3>1. /\ parse_update_begin(q) = Refused /\ parse_update_end(q) = Refused
          /\ IF Len(q) > 5 THEN parse_update_chunk(q).accepted = TRUE
             ELSE parse_update_chunk(q) = Refused
          /\ slack = 0 /\ Len(q) > 5 => parse_update_chunk(q) = c
      <4>1. q = Arrived(HostEncode(c), slack) /\ Len(HostEncode(c)) + slack >= 1
        BY <1>1
      <4>2. ChunkTaken(q, c, slack)
        BY <1>0, <1>7, <4>1, ChunkParsed
      <4> QED
        BY <4>2 DEF ChunkTaken
    <3> QED
      BY <1>2, <2>1, <3>1, Zenon
  <2>3. /\ c.accepted = TRUE /\ c.command = 17 /\ "command" \in DOMAIN c
        /\ "accepted" \in DOMAIN c /\ c = [n \in DOMAIN c |-> c[n]]
    BY <1>7
  <2>4. {n \in DOMAIN g : g[n].accepted} = IF takes THEN {"chunk"} ELSE {}
    BY <1>2, <1>3, <2>1, <2>2, OneTaker
  <2> QED
    BY <1>2, <1>5, <2>1, <2>2, <2>3, <2>4 DEF UPDATE_CHUNK
<1>8. ASSUME c = [accepted |-> TRUE, command |-> 18] PROVE BootExchange'
  <2>1. PICK takes \in BOOLEAN : takes = (slack = 0)
    OBVIOUS
  <2>2. /\ g["begin"] = Refused /\ g["chunk"] = Refused
        /\ g["end"] = IF slack = 0 THEN c ELSE Refused
    BY <1>0, <1>1, <1>2, <1>8, EndParsed
  <2>3. /\ c.accepted = TRUE /\ c.command = 18 /\ "command" \in DOMAIN c
        /\ "accepted" \in DOMAIN c /\ c = [n \in DOMAIN c |-> c[n]]
    BY <1>8
  <2>4. /\ IF takes THEN g["end"].accepted = TRUE ELSE g["end"] = Refused
        /\ slack = 0 /\ takes => g["end"] = c
    BY <2>1, <2>2, <2>3
  <2>5. {n \in DOMAIN g : g[n].accepted} = IF takes THEN {"end"} ELSE {}
    BY <1>2, <1>3, <2>2, <2>4, OneTaker, ZenonT(60)
  <2>6. IF c.command = UPDATE_CHUNK THEN "end" = "chunk" /\ takes = (Len(q) > 5)
        ELSE takes = (slack = 0) /\ "end" = IF c.command = UPDATE_END THEN "end" ELSE "begin"
    BY <2>1, <2>3 DEF UPDATE_CHUNK, UPDATE_END
  <2>7. "end" \in DOMAIN g
    BY <1>2
  <2> QED
    BY <1>5, <2>3, <2>4, <2>5, <2>6, <2>7
<1> QED
  BY <1>6, <1>7, <1>8, CommandKinds


\* Eight bytes and their positions.
Starts(p, a, b, c, d, e, f, g, h) ==
  /\ p[1] = a /\ p[2] = b /\ p[3] = c /\ p[4] = d
  /\ p[5] = e /\ p[6] = f /\ p[7] = g /\ p[8] = h
IsHeader(x, a, b, c, d, e, f, g, h) ==
  /\ x = <<a, b, c, d, e, f, g, h>> /\ Len(x) = 8
  /\ \A p : Holds(p, 0, x) => Starts(p, a, b, c, d, e, f, g, h)

LEMMA EightBytes ==
  ASSUME NEW a \in Byte, NEW b \in Byte, NEW c \in Byte, NEW d \in Byte, NEW e \in Byte,
         NEW f \in Byte, NEW g \in Byte, NEW h \in Byte
  PROVE  \E x \in Seq(Byte) : IsHeader(x, a, b, c, d, e, f, g, h)
<1>1. PICK x \in Seq(Byte) : /\ x = <<a, b, c, d, e, f, g, h>> /\ Len(x) = 8
        /\ x[1] = a /\ x[2] = b /\ x[3] = c /\ x[4] = d
        /\ x[5] = e /\ x[6] = f /\ x[7] = g /\ x[8] = h
  <2>1. PICK x : x = <<a, b, c, d, e, f, g, h>>
    OBVIOUS
  <2>2. x \in Seq(Byte)
    BY <2>1
  <2>3. /\ Len(x) = 8 /\ x[1] = a /\ x[2] = b /\ x[3] = c /\ x[4] = d
        /\ x[5] = e /\ x[6] = f /\ x[7] = g /\ x[8] = h
    BY <2>1
  <2> QED
    BY <2>1, <2>2, <2>3, Zenon
<1>2. ASSUME NEW p, Holds(p, 0, x)
      PROVE  /\ p[1] = a /\ p[2] = b /\ p[3] = c /\ p[4] = d
             /\ p[5] = e /\ p[6] = f /\ p[7] = g /\ p[8] = h
  <2>1. \A i \in 1 .. 8 : p[0 + i] = x[i]
    BY <1>1, <1>2 DEF Holds
  <2>2. \A i \in 1 .. 8 : 0 + i = i
    OBVIOUS
  <2> QED
    BY <1>1, <2>1, <2>2
<1> QED
  BY <1>1, <1>2 DEF IsHeader, Starts

RunPayload(r) ==
  <<r.report, r.command, r.state, r.result, r.active, r.confirmed, r.trial, r.update_state>>
  \o write_u32_le(r.received) \o write_u32_le(r.expected) \o write_u32_le(r.version)
SlotPayload(r) ==
  <<REPORT_SLOT_INFO, COMMAND_SLOT_INFO, r.state, r.result, r.result1, r.valid1,
    r.result2, r.valid2>>
  \o write_u32_le(r.size1) \o write_u32_le(r.version1) \o write_u32_le(r.size2)
  \o write_u32_le(r.version2) \o write_u32_le(r.minimum) \o <<r.target>>

LEMMA RunReportBuilt ==
  ASSUME NEW r \in RunReport
  PROVE  \E p \in Seq(Byte) :
           /\ p = RunPayload(r)
           /\ Len(p) = 20 /\ HostDecode(p) = r
<1>1. PICK a \in Byte, b \in Byte, c \in Byte, d \in Byte, e \in Byte, f \in Byte, g \in Byte,
           h \in Byte, u \in Word, v \in Word, w \in Word :
        r = [report |-> a, command |-> b, state |-> c, result |-> d, active |-> e,
             confirmed |-> f, trial |-> g, update_state |-> h,
             received |-> u, expected |-> v, version |-> w]
  <2>1. /\ r.report \in Byte /\ r.command \in Byte /\ r.state \in Byte
        /\ r.result \in Byte /\ r.active \in Byte /\ r.confirmed \in Byte
        /\ r.trial \in Byte /\ r.update_state \in Byte /\ r.received \in Word
        /\ r.expected \in Word /\ r.version \in Word
    BY DEF RunReport, Word
  <2>2. r = [report |-> r.report, command |-> r.command, state |-> r.state,
             result |-> r.result, active |-> r.active, confirmed |-> r.confirmed,
             trial |-> r.trial, update_state |-> r.update_state,
             received |-> r.received, expected |-> r.expected,
             version |-> r.version]
    BY DEF RunReport
  <2> QED
    BY <2>1, <2>2
<1>0. PICK x \in Seq(Byte) : IsHeader(x, a, b, c, d, e, f, g, h)
  BY EightBytes
<1>2. /\ x = <<a, b, c, d, e, f, g, h>> /\ Len(x) = 8
      /\ \A p : Holds(p, 0, x) => Starts(p, a, b, c, d, e, f, g, h)
  BY <1>0 DEF IsHeader
<1>3. PICK y1 \in Seq(Byte) : y1 = write_u32_le(u) /\ Len(y1) = 4
  BY FieldReads
<1>4. PICK y2 \in Seq(Byte) : y2 = write_u32_le(v) /\ Len(y2) = 4
  BY FieldReads
<1>5. PICK y3 \in Seq(Byte) : y3 = write_u32_le(w) /\ Len(y3) = 4
  BY FieldReads
<1>6. PICK p1 \in Seq(Byte) : IsJoin(p1, x, y1)
  BY JoinExists
<1>6a. /\ p1 = x \o y1 /\ Len(p1) = 12 /\ Holds(p1, 0, x) /\ Holds(p1, 8, y1)
  BY <1>2, <1>3, <1>6 DEF IsJoin
<1>7. PICK p2 \in Seq(Byte) : IsJoin(p2, p1, y2)
  BY JoinExists
<1>7a. /\ p2 = p1 \o y2 /\ Len(p2) = 16 /\ Holds(p2, 0, x) /\ Holds(p2, 8, y1) /\ Holds(p2, 12, y2)
  BY <1>4, <1>6a, <1>7 DEF IsJoin
<1>8. PICK p \in Seq(Byte) : IsJoin(p, p2, y3)
  BY JoinExists
<1>8a. /\ p = p2 \o y3 /\ Len(p) = 20 /\ Holds(p, 0, x) /\ Holds(p, 8, y1) /\ Holds(p, 12, y2)
       /\ Holds(p, 16, y3)
  BY <1>5, <1>7a, <1>8 DEF IsJoin
<1>9. /\ p[1] = a /\ p[2] = b /\ p[3] = c /\ p[4] = d
      /\ p[5] = e /\ p[6] = f /\ p[7] = g /\ p[8] = h
  BY <1>2, <1>8a DEF Starts
<1>10. read_u32_le(p, 8) = u /\ read_u32_le(p, 12) = v /\ read_u32_le(p, 16) = w
  BY <1>3, <1>4, <1>5, <1>8a, FieldReads
<1>11. HostDecode(p) = r
  BY <1>1, <1>8a, <1>9, <1>10 DEF HostDecode, Field
<1>12. p = RunPayload(r)
  BY <1>1, <1>2, <1>3, <1>4, <1>5, <1>6, <1>6a, <1>7, <1>7a, <1>8, <1>8a DEF RunPayload
<1> QED
  BY <1>8a, <1>11, <1>12

LEMMA SlotReportBuilt ==
  ASSUME NEW r \in SlotReport
  PROVE  \E p \in Seq(Byte) :
           /\ p = SlotPayload(r)
           /\ Len(p) = 29 /\ HostDecode(p) = r
<1>1. PICK c \in Byte, d \in Byte, e \in Byte, f \in Byte, g \in Byte, h \in Byte,
           u1 \in Word, u2 \in Word, u3 \in Word,
           u4 \in Word, u5 \in Word, t \in Byte :
        r = [state |-> c, result |-> d, result1 |-> e, valid1 |-> f, result2 |-> g,
             valid2 |-> h, size1 |-> u1, version1 |-> u2, size2 |-> u3, version2 |-> u4,
             minimum |-> u5, target |-> t]
  <2>1. /\ r.state \in Byte /\ r.result \in Byte /\ r.result1 \in Byte
        /\ r.valid1 \in Byte /\ r.result2 \in Byte /\ r.valid2 \in Byte
        /\ r.size1 \in Word /\ r.version1 \in Word /\ r.size2 \in Word
        /\ r.version2 \in Word /\ r.minimum \in Word /\ r.target \in Byte
    BY DEF SlotReport, Word
  <2>2. r = [state |-> r.state, result |-> r.result, result1 |-> r.result1,
             valid1 |-> r.valid1, result2 |-> r.result2, valid2 |-> r.valid2,
             size1 |-> r.size1, version1 |-> r.version1, size2 |-> r.size2,
             version2 |-> r.version2, minimum |-> r.minimum, target |-> r.target]
    BY DEF SlotReport
  <2> QED
    BY <2>1, <2>2
<1>13. 133 \in Byte /\ 5 \in Byte
  BY DEF Byte
<1>0. PICK x \in Seq(Byte) : IsHeader(x, 133, 5, c, d, e, f, g, h)
  BY <1>13, EightBytes
<1>2. /\ x = <<133, 5, c, d, e, f, g, h>> /\ Len(x) = 8
      /\ \A p : Holds(p, 0, x) => Starts(p, 133, 5, c, d, e, f, g, h)
  BY <1>0 DEF IsHeader
<1>3. PICK y1 \in Seq(Byte) : y1 = write_u32_le(u1) /\ Len(y1) = 4
  BY FieldReads
<1>4. PICK y2 \in Seq(Byte) : y2 = write_u32_le(u2) /\ Len(y2) = 4
  BY FieldReads
<1>5. PICK y3 \in Seq(Byte) : y3 = write_u32_le(u3) /\ Len(y3) = 4
  BY FieldReads
<1>6. PICK y4 \in Seq(Byte) : y4 = write_u32_le(u4) /\ Len(y4) = 4
  BY FieldReads
<1>7. PICK y5 \in Seq(Byte) : y5 = write_u32_le(u5) /\ Len(y5) = 4
  BY FieldReads
<1>8. PICK y6 \in Seq(Byte) : y6 = <<t>> /\ Len(y6) = 1 /\ y6[1] = t
  <2>1. <<t>> \in Seq(Byte) /\ Len(<<t>>) = 1 /\ <<t>>[1] = t
    OBVIOUS
  <2> QED
    BY <2>1
<1>9. PICK p1 \in Seq(Byte) : IsJoin(p1, x, y1)
  BY JoinExists
<1>9a. /\ p1 = x \o y1 /\ Len(p1) = 12 /\ Holds(p1, 0, x) /\ Holds(p1, 8, y1)
  BY <1>2, <1>3, <1>9 DEF IsJoin
<1>10. PICK p2 \in Seq(Byte) : IsJoin(p2, p1, y2)
  BY JoinExists
<1>10a. /\ p2 = p1 \o y2 /\ Len(p2) = 16 /\ Holds(p2, 0, x) /\ Holds(p2, 8, y1) /\ Holds(p2, 12, y2)
  BY <1>4, <1>9a, <1>10 DEF IsJoin
<1>11. PICK p3 \in Seq(Byte) : IsJoin(p3, p2, y3)
  BY JoinExists
<1>11a. /\ p3 = p2 \o y3 /\ Len(p3) = 20 /\ Holds(p3, 0, x) /\ Holds(p3, 8, y1) /\ Holds(p3, 12, y2)
        /\ Holds(p3, 16, y3)
  BY <1>5, <1>10a, <1>11 DEF IsJoin
<1>12. PICK p4 \in Seq(Byte) : IsJoin(p4, p3, y4)
  BY JoinExists
<1>12a. /\ p4 = p3 \o y4 /\ Len(p4) = 24 /\ Holds(p4, 0, x) /\ Holds(p4, 8, y1) /\ Holds(p4, 12, y2)
        /\ Holds(p4, 16, y3) /\ Holds(p4, 20, y4)
  BY <1>6, <1>11a, <1>12 DEF IsJoin
<1>14. PICK p5 \in Seq(Byte) : IsJoin(p5, p4, y5)
  BY JoinExists
<1>14a. /\ p5 = p4 \o y5 /\ Len(p5) = 28 /\ Holds(p5, 0, x) /\ Holds(p5, 8, y1) /\ Holds(p5, 12, y2)
        /\ Holds(p5, 16, y3) /\ Holds(p5, 20, y4) /\ Holds(p5, 24, y5)
  BY <1>7, <1>12a, <1>14 DEF IsJoin
<1>15. PICK p \in Seq(Byte) : IsJoin(p, p5, y6)
  BY JoinExists
<1>15b. p = p5 \o y6 /\ Len(p) = 29
  <2>1. Len(y6) = 1
    BY <1>8
  <2> QED
    BY ONLY <1>14a, <1>15, <2>1 DEF IsJoin
<1>15a. /\ Holds(p, 0, x) /\ Holds(p, 8, y1) /\ Holds(p, 12, y2)
        /\ Holds(p, 16, y3) /\ Holds(p, 20, y4) /\ Holds(p, 24, y5) /\ Holds(p, 28, y6)
  BY <1>14a, <1>15 DEF IsJoin
<1>16. p[3] = c /\ p[4] = d /\ p[5] = e /\ p[6] = f /\ p[7] = g /\ p[8] = h
  BY <1>2, <1>15a DEF Starts
<1>17. /\ read_u32_le(p, 8) = u1 /\ read_u32_le(p, 12) = u2 /\ read_u32_le(p, 16) = u3
       /\ read_u32_le(p, 20) = u4 /\ read_u32_le(p, 24) = u5
  BY <1>3, <1>4, <1>5, <1>6, <1>7, <1>15a, FieldReads, SMTT(60)
<1>18. p[29] = t
  <2>1. p[28 + 1] = y6[1]
    BY <1>8, <1>15a, SMTT(60) DEF Holds
  <2> QED
    BY <1>8, <2>1
<1>19. HostDecode(p) = r
  BY <1>1, <1>15b, <1>16, <1>17, <1>18 DEF HostDecode, Field
<1>20. p = SlotPayload(r)
  <2>1. <<133, 5, r.state, r.result, r.result1, r.valid1, r.result2, r.valid2>> = x
    BY <1>1, <1>2
  <2>2. /\ write_u32_le(r.size1) = y1 /\ write_u32_le(r.version1) = y2
        /\ write_u32_le(r.size2) = y3 /\ write_u32_le(r.version2) = y4
        /\ write_u32_le(r.minimum) = y5 /\ <<r.target>> = y6
    BY <1>1, <1>3, <1>4, <1>5, <1>6, <1>7, <1>8
  <2> QED
    BY ONLY <2>1, <2>2, <1>9a, <1>10a, <1>11a, <1>12a, <1>14a, <1>15b
       DEF SlotPayload, REPORT_SLOT_INFO, COMMAND_SLOT_INFO
<1> QED
  BY <1>15b, <1>19, <1>20

LEMMA ReportExchange ==
  ASSUME NEW capacity \in Capacities, NEW r \in Reports, Report(capacity, r)
  PROVE  BootExchange'
<1>0. capacity \in Int
  BY BootAssumption
<1>1. /\ sent' = [accepted |-> capacity >= Size(r), report |-> r]
      /\ payload' = IF "target" \in DOMAIN r THEN build_slot_info_report(capacity, r)
                    ELSE build_report(capacity, r)
      /\ got' = IF payload' = << >> THEN Refused ELSE HostDecode(payload')
  BY DEF Report
<1>2. /\ "report" \in DOMAIN sent' /\ sent'.report = r
      /\ sent'.accepted = (capacity >= Size(r))
  BY <1>1
<1>5. ASSUME NEW p \in Seq(Byte), HostDecode(p) = r, p # << >>, Len(p) = Size(r),
             Size(r) \in Nat, payload' = IF capacity < Size(r) THEN << >> ELSE p
      PROVE  BootExchange'
  <2>1. CASE capacity < Size(r)
    <3>0. ~(capacity >= Size(r))
      BY <1>0, <1>5, <2>1
    <3>1. payload' = << >> /\ ~sent'.accepted
      BY <1>2, <1>5, <2>1, <3>0, Zenon
    <3> QED
      BY <1>2, <3>1 DEF BootExchange
  <2>2. CASE ~(capacity < Size(r))
    <3>0. capacity >= Size(r)
      BY <1>0, <1>5, <2>2
    <3>1. payload' = p /\ sent'.accepted = TRUE
      BY <1>2, <1>5, <2>2, <3>0, Zenon
    <3>2. got' = sent'.report /\ Len(payload') = Size(sent'.report)
      BY <1>1, <1>2, <1>5, <3>1
    <3> QED
      BY <1>2, <3>1, <3>2 DEF BootExchange
  <2> QED
    BY <2>1, <2>2
<1>3. CASE r \in SlotReport
  <2>1. "target" \in DOMAIN r /\ Size(r) = 29
    BY <1>3 DEF SlotReport, Size
  <2>2. PICK p \in Seq(Byte) :
           /\ p = SlotPayload(r)
           /\ Len(p) = 29 /\ HostDecode(p) = r
    BY <1>3, SlotReportBuilt
  <2>3. payload' = IF capacity < 29 THEN << >> ELSE p
    BY <1>1, <2>1, <2>2 DEF SlotPayload, build_slot_info_report, SLOT_INFO_REPORT_SIZE
  <2>4. p # << >>
    BY <2>2
  <2> QED
    BY <1>2, <1>5, <2>1, <2>2, <2>3, <2>4
<1>4. CASE r \in RunReport
  <2>1. "target" \notin DOMAIN r /\ Size(r) = 20
    BY <1>4 DEF RunReport, Size
  <2>2. PICK p \in Seq(Byte) :
           /\ p = RunPayload(r)
           /\ Len(p) = 20 /\ HostDecode(p) = r
    BY <1>4, RunReportBuilt
  <2>3. payload' = IF capacity < 20 THEN << >> ELSE p
    BY <1>1, <2>1, <2>2 DEF RunPayload, build_report, REPORT_SIZE
  <2>4. p # << >>
    BY <2>2
  <2> QED
    BY <1>2, <1>5, <2>1, <2>2, <2>3, <2>4
<1> QED
  BY <1>3, <1>4, BootAssumption

\* Whatever the host means by a command, whatever the bootloader reports and
\* however many bytes are missing or too many: each side takes what the other
\* meant, field by field, or nothing.
THEOREM LayoutsAgree == BootSpec => []BootExchange
<1>1. BootInit => BootExchange
  BY DEF BootInit, BootExchange
<1>2. ASSUME BootExchange, [BootNext]_bootVars PROVE BootExchange'
  <2>1. CASE UNCHANGED bootVars
    BY <1>2, <2>1 DEF bootVars, BootExchange
  <2>2. ASSUME NEW c \in Commands, NEW slack \in Slack, Command(c, slack) PROVE BootExchange'
    BY <2>2, CommandExchange
  <2>3. ASSUME NEW capacity \in Capacities, NEW r \in Reports, Report(capacity, r)
        PROVE  BootExchange'
    BY <2>3, ReportExchange
  <2> QED
    BY <1>2, <2>1, <2>2, <2>3 DEF BootNext
<1> QED
  BY <1>1, <1>2, PTL DEF BootSpec

\* A byte is the sum of its bits.
LEMMA ByteBits ==
  ASSUME NEW x \in Byte
  PROVE  x = ((x \div 1) % 2) + 2 * ((x \div 2) % 2) + 4 * ((x \div 4) % 2)
             + 8 * ((x \div 8) % 2) + 16 * ((x \div 16) % 2) + 32 * ((x \div 32) % 2)
             + 64 * ((x \div 64) % 2) + 128 * ((x \div 128) % 2)
<1>1. PICK h1 \in Nat, h2 \in Nat, h3 \in Nat, h4 \in Nat, h5 \in Nat, h6 \in Nat, h7 \in Nat :
        /\ h1 = x \div 2 /\ h2 = x \div 4 /\ h3 = x \div 8 /\ h4 = x \div 16
        /\ h5 = x \div 32 /\ h6 = x \div 64 /\ h7 = x \div 128
  BY DEF Byte
<1>2. PICK b0 \in 0 .. 1, b1 \in 0 .. 1, b2 \in 0 .. 1, b3 \in 0 .. 1 :
        /\ b0 = x % 2 /\ b1 = h1 % 2 /\ b2 = h2 % 2 /\ b3 = h3 % 2
  BY <1>1 DEF Byte
<1>3. PICK b4 \in 0 .. 1, b5 \in 0 .. 1, b6 \in 0 .. 1, b7 \in 0 .. 1 :
        /\ b4 = h4 % 2 /\ b5 = h5 % 2 /\ b6 = h6 % 2 /\ b7 = h7 % 2
  BY <1>1 DEF Byte
<1>4. x = 2 * h1 + b0 /\ h1 = 2 * h2 + b1 /\ h2 = 2 * h3 + b2 /\ h3 = 2 * h4 + b3
  BY <1>1, <1>2 DEF Byte
<1>5. h4 = 2 * h5 + b4 /\ h5 = 2 * h6 + b5 /\ h6 = 2 * h7 + b6 /\ h7 = b7
  BY <1>1, <1>3 DEF Byte
<1>6. x = b0 + 2 * b1 + 4 * b2 + 8 * b3 + 16 * b4 + 32 * b5 + 64 * b6 + 128 * b7
  BY <1>4, <1>5
<1>7. x \div 1 = x
  BY DEF Byte
<1>8. /\ (x \div 1) % 2 = b0 /\ (x \div 2) % 2 = b1 /\ (x \div 4) % 2 = b2
      /\ (x \div 8) % 2 = b3 /\ (x \div 16) % 2 = b4 /\ (x \div 32) % 2 = b5
      /\ (x \div 64) % 2 = b6 /\ (x \div 128) % 2 = b7
  BY <1>1, <1>2, <1>3, <1>7
<1> QED
  BY <1>6, <1>8

\* The carries of x + y are left when the bits of x ^ y are taken away.
LEMMA XorByteAtMost ==
  ASSUME NEW x \in Byte, NEW y \in Byte
  PROVE  XorByte[x][y] <= x + y
<1>1. PICK a0, a1, a2, a3, a4, a5, a6, a7 \in 0 .. 1 :
           /\ x = a0 + 2 * a1 + 4 * a2 + 8 * a3 + 16 * a4 + 32 * a5 + 64 * a6 + 128 * a7
           /\ (x \div 1) % 2 = a0 /\ (x \div 2) % 2 = a1 /\ (x \div 4) % 2 = a2
           /\ (x \div 8) % 2 = a3 /\ (x \div 16) % 2 = a4 /\ (x \div 32) % 2 = a5
           /\ (x \div 64) % 2 = a6 /\ (x \div 128) % 2 = a7
  <2>1. \A n \in {1, 2, 4, 8, 16, 32, 64, 128} : (x \div n) % 2 \in 0 .. 1
    BY DEF Byte
  <2> QED
    BY <2>1, ByteBits
<1>2. PICK b0, b1, b2, b3, b4, b5, b6, b7 \in 0 .. 1 :
           /\ y = b0 + 2 * b1 + 4 * b2 + 8 * b3 + 16 * b4 + 32 * b5 + 64 * b6 + 128 * b7
           /\ (y \div 1) % 2 = b0 /\ (y \div 2) % 2 = b1 /\ (y \div 4) % 2 = b2
           /\ (y \div 8) % 2 = b3 /\ (y \div 16) % 2 = b4 /\ (y \div 32) % 2 = b5
           /\ (y \div 64) % 2 = b6 /\ (y \div 128) % 2 = b7
  <2>1. \A n \in {1, 2, 4, 8, 16, 32, 64, 128} : (y \div n) % 2 \in 0 .. 1
    BY DEF Byte
  <2> QED
    BY <2>1, ByteBits
<1>3. \A u, v \in Int : (u + v) % 2 <= (u % 2) + (v % 2) /\ (u + v) % 2 \in Int
  OBVIOUS
<1>4. \A n \in {1, 2, 4, 8, 16, 32, 64, 128} : x \div n \in Int /\ y \div n \in Int
  BY DEF Byte
<1>5. /\ (x \div 1 + y \div 1) % 2 <= a0 + b0 /\ (x \div 2 + y \div 2) % 2 <= a1 + b1
      /\ (x \div 4 + y \div 4) % 2 <= a2 + b2 /\ (x \div 8 + y \div 8) % 2 <= a3 + b3
      /\ (x \div 16 + y \div 16) % 2 <= a4 + b4 /\ (x \div 32 + y \div 32) % 2 <= a5 + b5
      /\ (x \div 64 + y \div 64) % 2 <= a6 + b6 /\ (x \div 128 + y \div 128) % 2 <= a7 + b7
  BY <1>1, <1>2, <1>3, <1>4
<1>6. PICK d0, d1, d2, d3, d4, d5, d6, d7 \in Int :
        /\ d0 = (x \div 1 + y \div 1) % 2 /\ d1 = (x \div 2 + y \div 2) % 2
        /\ d2 = (x \div 4 + y \div 4) % 2 /\ d3 = (x \div 8 + y \div 8) % 2
        /\ d4 = (x \div 16 + y \div 16) % 2 /\ d5 = (x \div 32 + y \div 32) % 2
        /\ d6 = (x \div 64 + y \div 64) % 2 /\ d7 = (x \div 128 + y \div 128) % 2
  BY <1>3, <1>4, ZenonT(60)
<1>7. XorByte[x][y] = d0 + 2 * d1 + 4 * d2 + 8 * d3 + 16 * d4 + 32 * d5 + 64 * d6 + 128 * d7
  <2>1. /\ XorDigit(x, y, 1) = d0 /\ XorDigit(x, y, 2) = 2 * d1
        /\ XorDigit(x, y, 3) = 4 * d2 /\ XorDigit(x, y, 4) = 8 * d3
        /\ XorDigit(x, y, 5) = 16 * d4 /\ XorDigit(x, y, 6) = 32 * d5
        /\ XorDigit(x, y, 7) = 64 * d6 /\ XorDigit(x, y, 8) = 128 * d7
    BY <1>6 DEF XorDigit
  <2> QED
    BY <2>1, XorByteSum
<1>8. /\ d0 <= a0 + b0 /\ d1 <= a1 + b1 /\ d2 <= a2 + b2 /\ d3 <= a3 + b3
      /\ d4 <= a4 + b4 /\ d5 <= a5 + b5 /\ d6 <= a6 + b6 /\ d7 <= a7 + b7
  BY <1>5, <1>6
<1>9. d0 + 2 * d1 + 4 * d2 + 8 * d3 + 16 * d4 + 32 * d5 + 64 * d6 + 128 * d7
        <= (a0 + 2 * a1 + 4 * a2 + 8 * a3 + 16 * a4 + 32 * a5 + 64 * a6 + 128 * a7)
           + (b0 + 2 * b1 + 4 * b2 + 8 * b3 + 16 * b4 + 32 * b5 + 64 * b6 + 128 * b7)
  BY <1>8
<1> QED
  BY <1>1, <1>2, <1>7, <1>9

LEMMA Xor16AtMost ==
  ASSUME NEW x \in Half, NEW y \in Half
  PROVE  Xor16(x, y) <= x + y
<1>0. \A z \in Half : z = 256 * (z \div 256) + (z % 256)
  BY DEF Half
<1>1. PICK a \in Byte, b \in Byte : a = x \div 256 /\ b = x % 256 /\ x = 256 * a + b
  BY <1>0, HalfParts
<1>2. PICK c \in Byte, d \in Byte : c = y \div 256 /\ d = y % 256 /\ y = 256 * c + d
  BY <1>0, HalfParts
<1>3. PICK u \in Byte, v \in Byte : /\ u = XorByte[a][c] /\ v = XorByte[b][d]
                                    /\ u <= a + c /\ v <= b + d
  BY XorByteType, XorByteAtMost
<1>4. Xor16(x, y) = 256 * u + v
  BY <1>1, <1>2, <1>3 DEF Xor16
<1>5. 256 * u + v <= (256 * a + b) + (256 * c + d)
  <2>1. u \in Int /\ v \in Int /\ a \in Int /\ b \in Int /\ c \in Int /\ d \in Int
    BY DEF Byte
  <2>2. 256 * u <= 256 * a + 256 * c
    BY <1>3, <2>1
  <2> QED
    BY <1>3, <2>1, <2>2
<1> QED
  BY <1>1, <1>2, <1>4, <1>5

LEMMA And16Type ==
  ASSUME NEW x \in Half, NEW y \in Half
  PROVE  And16(x, y) \in Half
<1>1. PICK z \in Half : z = Xor16(x, y) /\ z <= x + y
  BY Xor16Type, Xor16AtMost
<1>2. (x + y - z) \div 2 \in Half
  BY <1>1 DEF Half
<1> QED
  BY <1>1, <1>2 DEF And16

-----------------------------------------------------------------------------
(* SHA-256: the functions of words.                                        *)

LEMMA AddWordType ==
  ASSUME NEW x \in Word, NEW y \in Word
  PROVE  AddWord(x, y) \in Word /\ AddWord(x, y) = AddWord(y, x)
<1>1. PICK a \in Half, b \in Half, c \in Half, d \in Half :
        a = x[1] /\ b = x[2] /\ c = y[1] /\ d = y[2]
  BY WordHalves
<1>2. AddWord(x, y) = <<(a + c + (b + d) \div 65536) % 65536, (b + d) % 65536>>
  BY <1>1 DEF AddWord
<1>3. AddWord(y, x) = <<(c + a + (d + b) \div 65536) % 65536, (d + b) % 65536>>
  BY <1>1 DEF AddWord
<1>4. /\ (a + c + (b + d) \div 65536) % 65536 \in Half
      /\ (b + d) % 65536 \in Half
      /\ a + c = c + a /\ b + d = d + b
  BY DEF Half
<1> QED
  BY <1>2, <1>3, <1>4 DEF Word

LEMMA LogicTypes ==
  ASSUME NEW x \in Word, NEW y \in Word
  PROVE  XorWord(x, y) \in Word /\ AndWord(x, y) \in Word /\ NotWord(x) \in Word
<1>1. XorWord(x, y) \in Word
  BY XorWordType DEF Word
<1>2. PICK a \in Half, b \in Half, c \in Half, d \in Half :
        a = x[1] /\ b = x[2] /\ c = y[1] /\ d = y[2]
  BY WordHalves
<1>3. And16(a, c) \in Half /\ And16(b, d) \in Half
  BY And16Type
<1>4. 65535 - a \in Half /\ 65535 - b \in Half
  BY DEF Half
<1> QED
  BY <1>1, <1>2, <1>3, <1>4 DEF Word, AndWord, NotWord

\* What is shifted from one half into the other.
LEMMA ShiftTypes ==
  ASSUME NEW x \in Word
  PROVE  /\ Shr(x, 3) \in Word /\ Shr(x, 10) \in Word
         /\ ROR(x, 2) \in Word /\ ROR(x, 6) \in Word /\ ROR(x, 7) \in Word
         /\ ROR(x, 11) \in Word /\ ROR(x, 13) \in Word /\ ROR(x, 17) \in Word
         /\ ROR(x, 18) \in Word /\ ROR(x, 19) \in Word /\ ROR(x, 22) \in Word
         /\ ROR(x, 25) \in Word
<1>1. PICK a \in Half, b \in Half : a = x[1] /\ b = x[2]
  BY WordHalves
<1>2. \A u, v \in Half :
        /\ (u % 2) * 32768 + (v \div 2) \in Half
        /\ (u % 4) * 16384 + (v \div 4) \in Half
        /\ (u % 8) * 8192 + (v \div 8) \in Half
        /\ (u % 64) * 1024 + (v \div 64) \in Half
        /\ (u % 128) * 512 + (v \div 128) \in Half
        /\ (u % 512) * 128 + (v \div 512) \in Half
        /\ (u % 1024) * 64 + (v \div 1024) \in Half
        /\ (u % 2048) * 32 + (v \div 2048) \in Half
        /\ (u % 8192) * 8 + (v \div 8192) \in Half
  BY DEF Half
<1>3. a \div 8 \in Half /\ a \div 1024 \in Half
  BY DEF Half
<1>4. Shr(x, 3) \in Word /\ Shr(x, 10) \in Word
  <2>1. Shr(x, 3) = <<a \div 8, (a % 8) * 8192 + (b \div 8)>>
    BY <1>1 DEF Shr
  <2>2. Shr(x, 10) = <<a \div 1024, (a % 1024) * 64 + (b \div 1024)>>
    BY <1>1 DEF Shr
  <2> QED
    BY <1>2, <1>3, <2>1, <2>2 DEF Word
<1>5. ROR(x, 2) \in Word /\ ROR(x, 6) \in Word /\ ROR(x, 7) \in Word
  <2>1. ROR(x, 2) = <<(b % 4) * 16384 + (a \div 4), (a % 4) * 16384 + (b \div 4)>>
    BY <1>1 DEF ROR, Swapped
  <2>2. ROR(x, 6) = <<(b % 64) * 1024 + (a \div 64), (a % 64) * 1024 + (b \div 64)>>
    BY <1>1 DEF ROR, Swapped
  <2>3. ROR(x, 7) = <<(b % 128) * 512 + (a \div 128), (a % 128) * 512 + (b \div 128)>>
    BY <1>1 DEF ROR, Swapped
  <2> QED
    BY <1>2, <2>1, <2>2, <2>3 DEF Word
<1>6. ROR(x, 11) \in Word /\ ROR(x, 13) \in Word
  <2>1. ROR(x, 11) = <<(b % 2048) * 32 + (a \div 2048), (a % 2048) * 32 + (b \div 2048)>>
    BY <1>1 DEF ROR, Swapped
  <2>2. ROR(x, 13) = <<(b % 8192) * 8 + (a \div 8192), (a % 8192) * 8 + (b \div 8192)>>
    BY <1>1 DEF ROR, Swapped
  <2> QED
    BY <1>2, <2>1, <2>2 DEF Word
<1>7. ROR(x, 17) \in Word /\ ROR(x, 18) \in Word /\ ROR(x, 19) \in Word
  <2>1. ROR(x, 17) = <<(a % 2) * 32768 + (b \div 2), (b % 2) * 32768 + (a \div 2)>>
    BY <1>1 DEF ROR, Swapped
  <2>2. ROR(x, 18) = <<(a % 4) * 16384 + (b \div 4), (b % 4) * 16384 + (a \div 4)>>
    BY <1>1 DEF ROR, Swapped
  <2>3. ROR(x, 19) = <<(a % 8) * 8192 + (b \div 8), (b % 8) * 8192 + (a \div 8)>>
    BY <1>1 DEF ROR, Swapped
  <2> QED
    BY <1>2, <2>1, <2>2, <2>3 DEF Word
<1>8. ROR(x, 22) \in Word /\ ROR(x, 25) \in Word
  <2>1. ROR(x, 22) = <<(a % 64) * 1024 + (b \div 64), (b % 64) * 1024 + (a \div 64)>>
    BY <1>1 DEF ROR, Swapped
  <2>2. ROR(x, 25) = <<(a % 512) * 128 + (b \div 512), (b % 512) * 128 + (a \div 512)>>
    BY <1>1 DEF ROR, Swapped
  <2> QED
    BY <1>2, <2>1, <2>2 DEF Word
<1> QED
  BY <1>4, <1>5, <1>6, <1>7, <1>8

LEMMA MixTypes ==
  ASSUME NEW x \in Word, NEW y \in Word, NEW z \in Word
  PROVE  /\ S0(x) \in Word /\ S1(x) \in Word /\ G0(x) \in Word /\ G1(x) \in Word
         /\ CH(x, y, z) \in Word /\ MAJ(x, y, z) \in Word /\ Add3(x, y, z) \in Word
<1>1. \A p, q, r \in Word : Xor3(p, q, r) \in Word
  BY LogicTypes DEF Xor3
<1>2. S0(x) \in Word /\ S1(x) \in Word /\ G0(x) \in Word /\ G1(x) \in Word
  BY <1>1, ShiftTypes DEF S0, S1, G0, G1
<1>3. CH(x, y, z) \in Word
  BY LogicTypes DEF CH
<1>4. MAJ(x, y, z) \in Word
  BY <1>1, LogicTypes DEF MAJ
<1>5. Add3(x, y, z) \in Word
  BY AddWordType DEF Add3
<1> QED
  BY <1>2, <1>3, <1>4, <1>5

LEMMA RoundConstants == \A i \in 0 .. 63 : k[i] \in Word
<1>1. k_upper \in Seq(Half) /\ Len(k_upper) = 64
  BY DEF k_upper, Half
<1>2. k_lower \in Seq(Half) /\ Len(k_lower) = 64
  BY DEF k_lower, Half
<1> SUFFICES ASSUME NEW i \in 0 .. 63 PROVE k[i] \in Word
  OBVIOUS
<1>3. k[i] = <<k_upper[i + 1], k_lower[i + 1]>>
  BY DEF k
<1>4. k_upper[i + 1] \in Half /\ k_lower[i + 1] \in Half
  <2>1. PICK j \in 1 .. 64 : j = i + 1
    OBVIOUS
  <2>2. k_upper[j] \in Half /\ k_lower[j] \in Half
    BY <1>1, <1>2, ElementOfSeq
  <2> QED
    BY <2>1, <2>2
<1> QED
  BY <1>3, <1>4 DEF Word

Registers == [0 .. 7 -> Word]

LEMMA InitialType == initial \in Registers
<1>1. \A i \in 0 .. 7 : initial[i] \in Word
  BY DEF initial, Word, Half
<1> QED
  BY <1>1 DEF initial, Registers

-----------------------------------------------------------------------------
(* SHA-256: the 64 rounds.                                                 *)

Machine == [v : Registers, w : [0 .. 15 -> Word]]

\* The register that goes by the n-th name in round i.
Letter(i, s, n) == s.v[(n - i) % 8]

Incoming(i, s) ==
  IF i < 16 THEN s.w[i % 16]
  ELSE AddWord(s.w[i % 16],
               Add3(G1(s.w[(i + 14) % 16]), s.w[(i + 9) % 16], G0(s.w[(i + 1) % 16])))

LEMMA LetterType ==
  ASSUME NEW i \in 0 .. 64, NEW s \in Machine, NEW n \in 0 .. 7
  PROVE  Letter(i, s, n) \in Word
<1>1. (n - i) % 8 \in 0 .. 7
  OBVIOUS
<1> QED
  BY <1>1 DEF Letter, Machine, Registers

LEMMA IncomingType ==
  ASSUME NEW i \in 0 .. 63, NEW s \in Machine
  PROVE  Incoming(i, s) \in Word
<1>1. /\ i % 16 \in 0 .. 15 /\ (i + 14) % 16 \in 0 .. 15 /\ (i + 9) % 16 \in 0 .. 15
      /\ (i + 1) % 16 \in 0 .. 15
  OBVIOUS
<1>2. PICK a \in Word, b \in Word, c \in Word, d \in Word :
        /\ a = s.w[i % 16] /\ b = s.w[(i + 14) % 16] /\ c = s.w[(i + 9) % 16]
        /\ d = s.w[(i + 1) % 16]
  BY <1>1 DEF Machine
<1>3. AddWord(a, Add3(G1(b), c, G0(d))) \in Word
  BY MixTypes, AddWordType
<1> QED
  BY <1>2, <1>3 DEF Incoming

LEMMA RoundIs ==
  ASSUME NEW i \in 0 .. 63, NEW s \in Machine,
         NEW t1, t1 = Add3(Add3(Letter(i, s, 7), S1(Letter(i, s, 4)),
                                CH(Letter(i, s, 4), Letter(i, s, 5), Letter(i, s, 6))),
                           k[i], Incoming(i, s)),
         NEW t2, t2 = AddWord(S0(Letter(i, s, 0)),
                              MAJ(Letter(i, s, 0), Letter(i, s, 1), Letter(i, s, 2)))
  PROVE  /\ t1 \in Word /\ t2 \in Word
         /\ ROUND(i, s) \in Machine
         /\ Letter(i + 1, ROUND(i, s), 0) = AddWord(t1, t2)
         /\ Letter(i + 1, ROUND(i, s), 4) = AddWord(Letter(i, s, 3), t1)
         /\ \A n \in {1, 2, 3, 5, 6, 7} :
              Letter(i + 1, ROUND(i, s), n) = Letter(i, s, n - 1)
         /\ ROUND(i, s).w = [s.w EXCEPT ![i % 16] = Incoming(i, s)]
<1> DEFINE d == (3 - i) % 8
           h == (7 - i) % 8
           v == [s.v EXCEPT ![d] = AddWord(@, t1), ![h] = AddWord(t1, t2)]
           w == [s.w EXCEPT ![i % 16] = Incoming(i, s)]
<1>1. t1 \in Word
  <2>1. Letter(i, s, 7) \in Word /\ Letter(i, s, 4) \in Word /\ Letter(i, s, 5) \in Word
        /\ Letter(i, s, 6) \in Word
    BY LetterType
  <2>2. k[i] \in Word /\ Incoming(i, s) \in Word
    BY RoundConstants, IncomingType
  <2>3. S1(Letter(i, s, 4)) \in Word
    BY <2>1, MixTypes
  <2>4. CH(Letter(i, s, 4), Letter(i, s, 5), Letter(i, s, 6)) \in Word
    BY <2>1, MixTypes
  <2>5. Add3(Letter(i, s, 7), S1(Letter(i, s, 4)),
             CH(Letter(i, s, 4), Letter(i, s, 5), Letter(i, s, 6))) \in Word
    BY <2>1, <2>3, <2>4, MixTypes
  <2> QED
    BY <2>2, <2>5, MixTypes
<1>2. t2 \in Word
  <2>1. Letter(i, s, 0) \in Word /\ Letter(i, s, 1) \in Word /\ Letter(i, s, 2) \in Word
    BY LetterType
  <2>2. S0(Letter(i, s, 0)) \in Word
        /\ MAJ(Letter(i, s, 0), Letter(i, s, 1), Letter(i, s, 2)) \in Word
    BY <2>1, MixTypes
  <2> QED
    BY <2>2, AddWordType
<1>3. ROUND(i, s) = [v |-> v, w |-> w]
  <2>1. (i + 0) % 16 = i % 16
    OBVIOUS
  <2> QED
    BY <2>1 DEF ROUND, Turned, Letter, Incoming
<1>4. /\ d \in 0 .. 7 /\ h \in 0 .. 7 /\ d # h /\ i % 16 \in 0 .. 15
      /\ (0 - (i + 1)) % 8 = h /\ (4 - (i + 1)) % 8 = d
      /\ \A n \in {1, 2, 3, 5, 6, 7} : /\ (n - (i + 1)) % 8 = ((n - 1) - i) % 8
                                       /\ (n - (i + 1)) % 8 \in 0 .. 7
                                       /\ (n - (i + 1)) % 8 # d /\ (n - (i + 1)) % 8 # h
  BY SMTT(60)
<1> HIDE DEF d, h
<1>5. /\ DOMAIN s.v = 0 .. 7 /\ DOMAIN s.w = 0 .. 15
      /\ \A n \in 0 .. 7 : s.v[n] \in Word
      /\ \A n \in 0 .. 15 : s.w[n] \in Word
  BY DEF Machine, Registers
<1>6. /\ v[h] = AddWord(t1, t2) /\ v[d] = AddWord(s.v[d], t1)
      /\ \A n \in 0 .. 7 : n # d /\ n # h => v[n] = s.v[n]
      /\ DOMAIN v = 0 .. 7
  BY <1>4, <1>5
<1>7. v \in Registers
  <2>1. AddWord(t1, t2) \in Word /\ AddWord(s.v[d], t1) \in Word
    BY <1>1, <1>2, <1>4, <1>5, AddWordType
  <2>2. \A n \in 0 .. 7 : v[n] \in Word
    BY <1>5, <1>6, <2>1
  <2>3. v = [n \in 0 .. 7 |-> v[n]]
    BY <1>5
  <2> HIDE DEF v
  <2> QED
    BY <2>2, <2>3 DEF Registers
<1>8. w \in [0 .. 15 -> Word]
  BY <1>4, <1>5, IncomingType DEF Machine
<1> HIDE DEF v, w
<1>9. ROUND(i, s).v = v /\ ROUND(i, s).w = w
  BY <1>3
<1>10. ROUND(i, s) \in Machine
  BY <1>3, <1>7, <1>8 DEF Machine
<1>11. /\ Letter(i + 1, ROUND(i, s), 0) = v[h] /\ Letter(i + 1, ROUND(i, s), 4) = v[d]
       /\ Letter(i, s, 3) = s.v[d]
  BY <1>4, <1>9 DEF Letter, d
<1>12. \A n \in {1, 2, 3, 5, 6, 7} :
         Letter(i + 1, ROUND(i, s), n) = Letter(i, s, n - 1)
  <2> SUFFICES ASSUME NEW n \in {1, 2, 3, 5, 6, 7}
               PROVE  Letter(i + 1, ROUND(i, s), n) = Letter(i, s, n - 1)
    OBVIOUS
  <2>1. PICK j \in 0 .. 7 : /\ j = (n - (i + 1)) % 8 /\ j = ((n - 1) - i) % 8
                            /\ j # d /\ j # h
    BY ONLY <1>4, n \in {1, 2, 3, 5, 6, 7}
  <2>2. v[j] = s.v[j]
    BY ONLY <1>6, <2>1
  <2>3. Letter(i + 1, ROUND(i, s), n) = v[j]
    BY ONLY <1>9, <2>1 DEF Letter
  <2>4. Letter(i, s, n - 1) = s.v[j]
    BY ONLY <2>1 DEF Letter
  <2> QED
    BY ONLY <2>2, <2>3, <2>4
<1> QED
  BY <1>1, <1>2, <1>6, <1>9, <1>10, <1>11, <1>12 DEF w

LEMMA RoundsRun ==
  ASSUME NEW state \in Registers, NEW w \in [0 .. 15 -> Word]
  PROVE  \E s : /\ s[0] = [v |-> state, w |-> w]
                /\ \A i \in 0 .. 63 : s[i + 1] = ROUND(i, s[i])
                /\ \A i \in 0 .. 64 : s[i] \in Machine
                /\ Rounds(state, w) = s[64].v
<1> DEFINE start == [v |-> state, w |-> w]
           P(g) == g = [i \in 0 .. 64 |-> IF i = 0 THEN start ELSE ROUND(i - 1, g[i - 1])]
           F == [i \in 1 .. 64 |-> [x \in Machine |-> ROUND(i - 1, x)]]
           s == CHOOSE g : P(g)
<1>1. Rounds(state, w) = s[64].v
  BY DEF Rounds
<1>2. start \in Machine
  BY DEF Machine
<1> HIDE DEF start
<1>3. ASSUME NEW i \in 1 .. 64, NEW x \in Machine
      PROVE  F[i][x] = ROUND(i - 1, x) /\ F[i][x] \in Machine
  <2>1. F[i][x] = ROUND(i - 1, x)
    OBVIOUS
  <2>2. PICK j \in 0 .. 63 : j = i - 1
    OBVIOUS
  <2>3. ROUND(j, x) \in Machine
    BY RoundIs
  <2> QED
    BY <2>1, <2>2, <2>3
<1> HIDE DEF F
<1>4. IsSteps(F, Machine, 64)
  BY <1>3 DEF IsSteps
<1>5. PICK g : DefinedBy(g, F, start, 64)
  BY IterationExists
<1>6. Iterates(g, F, start, 64)
  BY <1>5, DefinedIterates
<1>7. \A i \in 0 .. 64 : g[i] \in Machine
  BY <1>2, <1>4, <1>6, IterationType
<1>8. \A i \in 1 .. 64 : F[i][g[i - 1]] = ROUND(i - 1, g[i - 1])
  BY <1>3, <1>7, SMTT(60)
<1>9. P(g)
  <2>1. \A i \in 0 .. 64 : i = 0 \/ i \in 1 .. 64
    OBVIOUS
  <2>2. \A i \in 0 .. 64 : (IF i = 0 THEN start ELSE F[i][g[i - 1]]) = (IF i = 0 THEN start ELSE ROUND(i - 1, g[i - 1]))
    BY <2>1, <1>8
  <2> QED
    BY <2>2, <1>5, Zenon DEF DefinedBy
<1> HIDE DEF P
<1>10. P(s)
  BY <1>9
<1> USE DEF P
<1> HIDE DEF s
<1>11. s[0] = start /\ \A i \in 1 .. 64 : s[i] = ROUND(i - 1, s[i - 1])
  BY <1>10
<1>12. ASSUME NEW i \in 0 .. 63 PROVE s[i + 1] = ROUND(i, s[i])
  <2>1. i + 1 \in 1 .. 64 /\ (i + 1) - 1 = i
    OBVIOUS
  <2> QED
    BY <2>1, <1>11
<1>13. \A i \in 0 .. 64 : s[i] \in Machine
  <2> DEFINE T == {i \in Nat : i <= 64 => s[i] \in Machine}
  <2>1. 0 \in T
    BY <1>2, <1>11
  <2>2. ASSUME NEW i \in Nat, i \in T PROVE i + 1 \in T
    <3> SUFFICES ASSUME i + 1 <= 64 PROVE s[i + 1] \in Machine
      OBVIOUS
    <3>1. i \in 0 .. 63 /\ s[i] \in Machine
      BY <2>2
    <3>2. ROUND(i, s[i]) \in Machine
      BY <3>1, RoundIs, ZenonT(60)
    <3> QED
      BY <3>1, <3>2, <1>12
  <2> HIDE DEF T
  <2>3. Nat \subseteq T
    BY <2>1, <2>2, Induct
  <2> QED
    BY <2>3 DEF T
<1> QED
  BY <1>1, <1>11, <1>12, <1>13 DEF start

\* The reference: the words of the schedule, first those of the block.
\* W is the schedule that begins with first.
IsSchedule(W, first) ==
  /\ W \in Seq(Word) /\ Len(W) = 64
  /\ \A j \in 1 .. 16 : W[j] = first[j]
  /\ \A t \in 16 .. 63 :
       W[t + 1] = AddWord(Add3(G1(W[t - 1]), W[t - 6], G0(W[t - 14])), W[t - 15])

LEMMA ScheduleIs ==
  ASSUME NEW first \in Seq(Word), Len(first) = 16
  PROVE  /\ Schedule(first) \in Seq(Word) /\ Len(Schedule(first)) = 64
         /\ \A j \in 1 .. 16 : Schedule(first)[j] = first[j]
         /\ \A t \in 16 .. 63 :
              Schedule(first)[t + 1] =
                AddWord(Add3(G1(Schedule(first)[t - 1]), Schedule(first)[t - 6],
                             G0(Schedule(first)[t - 14])), Schedule(first)[t - 15])
<1> DEFINE W(u, t) == AddWord(Add3(G1(u[t - 1]), u[t - 6], G0(u[t - 14])), u[t - 15])
           Longer(u, n) == Append(u, W(u, 15 + n))
           P(g) == g = [n \in 0 .. 48 |-> IF n = 0 THEN first ELSE Longer(g[n - 1], n)]
           Those(n) == {v \in Seq(Word) : Len(v) = 15 + n}
           F == [n \in 1 .. 48 |-> [u \in Those(n) |-> Longer(u, n)]]
           w == CHOOSE g : P(g)
<1>1. Schedule(first) = w[48]
  BY DEF Schedule
<1>2. ASSUME NEW u \in Seq(Word), NEW t \in 16 .. 63, t <= Len(u)
      PROVE  W(u, t) \in Word
  <2>1. /\ t - 1 \in 1 .. Len(u) /\ t - 6 \in 1 .. Len(u) /\ t - 14 \in 1 .. Len(u)
        /\ t - 15 \in 1 .. Len(u)
    BY <1>2, LenProperties
  <2>2. PICK a \in Word, b \in Word, c \in Word, d \in Word :
          a = u[t - 1] /\ b = u[t - 6] /\ c = u[t - 14] /\ d = u[t - 15]
    BY <2>1, ElementOfSeq
  <2>3. AddWord(Add3(G1(a), b, G0(c)), d) \in Word
    BY MixTypes, AddWordType
  <2> QED
    BY <2>2, <2>3
<1> HIDE DEF W
\* One word more.
<1>16. ASSUME NEW n \in 1 .. 48, NEW u \in Seq(Word), Len(u) = 15 + n
       PROVE  /\ Longer(u, n) \in Seq(Word) /\ Len(Longer(u, n)) = 16 + n
              /\ Longer(u, n)[16 + n] = W(u, 15 + n)
              /\ \A j \in 1 .. 15 + n : Longer(u, n)[j] = u[j]
  <2>1. PICK t \in 16 .. 63 : t = 15 + n
    OBVIOUS
  <2>2. PICK x \in Word : x = W(u, 15 + n)
    BY <1>2, <1>16, <2>1
  <2>3. PICK v \in Seq(Word) : v = Longer(u, n) /\ v = Append(u, x)
    <3>1. Append(u, x) \in Seq(Word)
      BY AppendProperties
    <3> QED
      BY <2>2, <3>1
  <2>4. /\ Len(v) = Len(u) + 1 /\ v[Len(u) + 1] = x
        /\ \A j \in 1 .. Len(u) : v[j] = u[j]
    BY <2>3, AppendProperties
  <2>5. Len(u) + 1 = 16 + n
    BY <1>16
  <2> QED
    BY <1>16, <2>2, <2>3, <2>4, <2>5
<1> HIDE DEF Longer
<1>3. PICK g : DefinedBy(g, F, first, 48)
  BY IterationExists
<1>4. Iterates(g, F, first, 48)
  BY <1>3, DefinedIterates
<1>5. ASSUME NEW n \in 1 .. 48, NEW u \in Seq(Word), Len(u) = 15 + n
      PROVE  F[n][u] = Longer(u, n)
  <2>1. u \in Those(n)
    BY <1>5
  <2> HIDE DEF Those
  <2> QED
    BY <2>1
<1> HIDE DEF F
<1>6. ASSUME NEW n \in 0 .. 48 PROVE g[n] \in Seq(Word) /\ Len(g[n]) = 16 + n
  <2> DEFINE Fits(i) == g[i] \in Seq(Word) /\ Len(g[i]) = 16 + i
             T == {i \in Nat : i <= 48 => Fits(i)}
  <2>1. Fits(0)
    <3>1. g[0] = first
      BY <1>4 DEF Iterates
    <3> QED
      BY <3>1
  <2>2. ASSUME NEW i \in Nat, i + 1 <= 48, Fits(i) PROVE Fits(i + 1)
    <3>1. PICK m \in 1 .. 48 : m = i + 1 /\ m - 1 = i /\ 15 + m = 16 + i
      BY <2>2
    <3>2. PICK u \in Seq(Word) : u = g[i] /\ Len(u) = 15 + m
      BY <2>2, <3>1
    <3>3. g[m] = F[m][u]
      BY <3>1, <3>2, <1>4 DEF Iterates
    <3>4. F[m][u] = Longer(u, m) /\ Longer(u, m) \in Seq(Word) /\ Len(Longer(u, m)) = 16 + m
      BY <3>2, <1>5, <1>16
    <3> QED
      BY <3>1, <3>3, <3>4
  <2> HIDE DEF Fits
  <2>3. 0 \in T /\ \A i \in Nat : i \in T => i + 1 \in T
    BY <2>1, <2>2
  <2> HIDE DEF T
  <2>4. Nat \subseteq T
    BY <2>3, Induct
  <2> USE DEF T
  <2>5. Fits(n)
    BY <2>4
  <2> QED
    BY <2>5 DEF Fits
<1>7. ASSUME NEW n \in 1 .. 48 PROVE F[n][g[n - 1]] = Longer(g[n - 1], n)
  <2>1. n - 1 \in 0 .. 48 /\ 16 + (n - 1) = 15 + n
    OBVIOUS
  <2> QED
    BY <2>1, <1>5, <1>6, Zenon
<1>8. P(g)
  <2>1. \A n \in 0 .. 48 : n = 0 \/ n \in 1 .. 48
    OBVIOUS
  <2>2. \A n \in 0 .. 48 : (IF n = 0 THEN first ELSE F[n][g[n - 1]]) = (IF n = 0 THEN first ELSE Longer(g[n - 1], n))
    BY <2>1, <1>7
  <2> QED
    BY <2>2, <1>3, Zenon DEF DefinedBy
<1> HIDE DEF P
<1>9. P(w)
  BY <1>8
<1> USE DEF P
<1> HIDE DEF w
<1>10. w[0] = first /\ \A n \in 1 .. 48 : w[n] = Longer(w[n - 1], n)
  BY <1>9
<1>11. \A n \in 0 .. 48 : w[n] = g[n]
  <2> DEFINE T == {i \in Nat : i <= 48 => w[i] = g[i]}
  <2>1. 0 \in T
    BY <1>4, <1>10 DEF Iterates
  <2>2. ASSUME NEW i \in Nat, i \in T PROVE i + 1 \in T
    <3> SUFFICES ASSUME i + 1 <= 48 PROVE w[i + 1] = g[i + 1]
      OBVIOUS
    <3>1. w[i] = g[i] /\ i + 1 \in 1 .. 48 /\ (i + 1) - 1 = i
      BY <2>2
    <3> QED
      BY <3>1, <1>4, <1>7, <1>10, ZenonT(60) DEF Iterates
  <2> HIDE DEF T
  <2>3. Nat \subseteq T
    BY <2>1, <2>2, Induct
  <2> QED
    BY <2>3 DEF T
\* What is there stays.
<1>12. ASSUME NEW m \in 0 .. 48, NEW n \in m .. 48, NEW j \in 1 .. 16 + m
       PROVE  w[n][j] = w[m][j]
  <2> DEFINE T == {i \in Nat : m <= i /\ i <= 48 => w[i][j] = w[m][j]}
  <2>1. 0 \in T
    OBVIOUS
  <2>2. ASSUME NEW i \in Nat, i \in T PROVE i + 1 \in T
    <3> SUFFICES ASSUME m <= i + 1, i + 1 <= 48 PROVE w[i + 1][j] = w[m][j]
      OBVIOUS
    <3>1. CASE m = i + 1
      BY <3>1
    <3>2. CASE m <= i
      <4>1. /\ w[i][j] = w[m][j] /\ i \in 0 .. 48
        BY <2>2, <3>2
      <4>2. PICK l \in 1 .. 48 : l = i + 1 /\ l - 1 = i /\ 15 + l = 16 + i
        BY <3>2
      <4>3. PICK u \in Seq(Word) : u = w[i] /\ Len(u) = 15 + l
        BY <4>1, <4>2, <1>6, <1>11
      <4>4. w[l] = Longer(u, l)
        BY <4>2, <4>3, <1>10
      <4>5. j \in 1 .. 15 + l
        BY <3>2, <4>2, SMTT(60)
      <4>6. Longer(u, l)[j] = u[j]
        BY <4>3, <4>5, <1>16
      <4> QED
        BY <4>1, <4>2, <4>3, <4>4, <4>6
    <3> QED
      BY <3>1, <3>2
  <2> HIDE DEF T
  <2>3. Nat \subseteq T
    BY <2>1, <2>2, Induct
  <2> QED
    BY <2>3 DEF T
<1>13. \A j \in 1 .. 16 : w[48][j] = first[j]
  <2> SUFFICES ASSUME NEW j \in 1 .. 16 PROVE w[48][j] = first[j]
    OBVIOUS
  <2>1. 0 \in 0 .. 48 /\ 48 \in 0 .. 48 /\ j \in 1 .. 16 + 0
    OBVIOUS
  <2> QED
    BY <2>1, <1>10, <1>12, ZenonT(60)
<1>14. ASSUME NEW t \in 16 .. 63 PROVE w[48][t + 1] = W(w[48], t)
  <2>1. PICK n \in 1 .. 48 : t = 15 + n /\ t + 1 = 16 + n
    <3>1. t - 15 \in 1 .. 48 /\ t = 15 + (t - 15)
      OBVIOUS
    <3> QED
      BY <3>1
  <2>2. n - 1 \in 0 .. 48 /\ 16 + (n - 1) = 15 + n
    OBVIOUS
  <2>3. PICK u \in Seq(Word) : u = w[n - 1] /\ Len(u) = 15 + n
    BY <2>2, <1>6, <1>11
  <2>4. w[n][16 + n] = W(u, 15 + n)
    BY <2>3, <1>10, <1>16, ZenonT(60)
  <2>5. w[48][16 + n] = w[n][16 + n]
    <3>1. n \in 0 .. 48 /\ 48 \in n .. 48 /\ 16 + n \in 1 .. 16 + n
      OBVIOUS
    <3> QED
      BY <3>1, <1>12, ZenonT(60)
  <2>6. ASSUME NEW j \in 1 .. 15 + n PROVE w[48][j] = u[j]
    <3>1. 48 \in n - 1 .. 48 /\ j \in 1 .. 16 + (n - 1)
      OBVIOUS
    <3> QED
      BY <2>2, <2>3, <3>1, <1>12, Zenon
  <2>7. t - 1 \in 1 .. 15 + n /\ t - 6 \in 1 .. 15 + n /\ t - 14 \in 1 .. 15 + n
        /\ t - 15 \in 1 .. 15 + n
    BY <2>1
  <2>8. W(w[48], t) = W(u, t)
    BY <2>6, <2>7 DEF W
  <2> QED
    BY <2>1, <2>4, <2>5, <2>8
<1>15. w[48] \in Seq(Word) /\ Len(w[48]) = 64
  <2>1. PICK n \in 0 .. 48 : n = 48 /\ 16 + n = 64
    OBVIOUS
  <2>2. w[n] = g[n] /\ g[n] \in Seq(Word) /\ Len(g[n]) = 16 + n
    BY <1>6, <1>11
  <2> QED
    BY <2>1, <2>2
<1> QED
  BY <1>1, <1>13, <1>14, <1>15 DEF W

Letters == [1 .. 8 -> Word]

\* Two registers take new values.
LEMMA TwoReplaced ==
  ASSUME NEW q, DOMAIN q = 1 .. 8, NEW a, NEW b, NEW f, f = [q EXCEPT ![1] = a, ![5] = b]
  PROVE  /\ DOMAIN f = 1 .. 8
         /\ f[1] = a /\ f[5] = b
         /\ f[2] = q[2] /\ f[3] = q[3] /\ f[4] = q[4] /\ f[6] = q[6] /\ f[7] = q[7]
         /\ f[8] = q[8]
<1>1. PICK g : g = [q EXCEPT ![1] = a]
  OBVIOUS
<1>2. /\ DOMAIN g = 1 .. 8 /\ g[1] = a /\ g[2] = q[2] /\ g[3] = q[3] /\ g[4] = q[4]
      /\ g[5] = q[5] /\ g[6] = q[6] /\ g[7] = q[7] /\ g[8] = q[8]
  BY <1>1
<1>3. f = [g EXCEPT ![5] = b]
  BY <1>1
<1>4. DOMAIN f = 1 .. 8
  BY ONLY <1>2, <1>3
<1>5. /\ f[1] = g[1] /\ f[2] = g[2] /\ f[3] = g[3] /\ f[4] = g[4]
      /\ f[5] = b /\ f[6] = g[6] /\ f[7] = g[7] /\ f[8] = g[8]
  BY ONLY <1>2, <1>3
<1> QED
  BY <1>2, <1>4, <1>5

LEMMA ShiftedIs ==
  ASSUME NEW r \in Letters, NEW kt \in Word, NEW wt \in Word,
         NEW t1, t1 = Add3(Add3(r[8], S1(r[5]), CH(r[5], r[6], r[7])), kt, wt),
         NEW t2, t2 = AddWord(S0(r[1]), MAJ(r[1], r[2], r[3]))
  PROVE  /\ Shifted(r, kt, wt) \in Letters
         /\ Shifted(r, kt, wt)[1] = AddWord(t1, t2)
         /\ Shifted(r, kt, wt)[5] = AddWord(r[4], t1)
         /\ \A n \in {2, 3, 4, 6, 7, 8} : Shifted(r, kt, wt)[n] = r[n - 1]
<1> DEFINE q == <<r[8], r[1], r[2], r[3], r[4], r[5], r[6], r[7]>>
           f == [q EXCEPT ![1] = AddWord(t1, t2), ![5] = AddWord(@, t1)]
<1>0. /\ r[1] \in Word /\ r[2] \in Word /\ r[3] \in Word /\ r[4] \in Word
      /\ r[5] \in Word /\ r[6] \in Word /\ r[7] \in Word /\ r[8] \in Word
  BY DEF Letters
<1>1. Shifted(r, kt, wt) = f
  BY DEF Shifted
<1>2. t1 \in Word /\ t2 \in Word
  <2>1. /\ S1(r[5]) \in Word /\ CH(r[5], r[6], r[7]) \in Word /\ S0(r[1]) \in Word
        /\ MAJ(r[1], r[2], r[3]) \in Word
    BY <1>0, MixTypes
  <2>2. Add3(r[8], S1(r[5]), CH(r[5], r[6], r[7])) \in Word
    BY <1>0, <2>1, MixTypes
  <2> QED
    BY <2>1, <2>2, MixTypes, AddWordType
<1>3. /\ DOMAIN q = 1 .. 8 /\ q[1] = r[8] /\ q[5] = r[4]
      /\ q[2] = r[1] /\ q[3] = r[2] /\ q[4] = r[3] /\ q[6] = r[5] /\ q[7] = r[6] /\ q[8] = r[7]
  OBVIOUS
<1> HIDE DEF q
<1>4. /\ DOMAIN f = 1 .. 8 /\ f = [n \in 1 .. 8 |-> f[n]]
      /\ f[1] = AddWord(t1, t2) /\ f[5] = AddWord(r[4], t1)
      /\ f[2] = r[1] /\ f[3] = r[2] /\ f[4] = r[3] /\ f[6] = r[5] /\ f[7] = r[6] /\ f[8] = r[7]
  <2>1. PICK a, b : a = AddWord(t1, t2) /\ b = AddWord(q[5], t1)
    OBVIOUS
  <2>4. PICK x : x = f
    OBVIOUS
  <2>2. x = f /\ x = [q EXCEPT ![1] = a, ![5] = b]
    BY ONLY <2>1, <2>4, <1>3
  <2>3. /\ DOMAIN x = 1 .. 8 /\ x = [n \in 1 .. 8 |-> x[n]]
        /\ x[1] = a /\ x[5] = b
        /\ x[2] = q[2] /\ x[3] = q[3] /\ x[4] = q[4] /\ x[6] = q[6] /\ x[7] = q[7]
        /\ x[8] = q[8]
    <3>1. DOMAIN q = 1 .. 8
      BY <1>3
    <3>2. x = [q EXCEPT ![1] = a, ![5] = b]
      BY <2>2
    <3>3. x = [n \in 1 .. 8 |-> x[n]]
      BY ONLY <3>1, <3>2
    <3>4. /\ DOMAIN x = 1 .. 8 /\ x[1] = a /\ x[5] = b
          /\ x[2] = q[2] /\ x[3] = q[3] /\ x[4] = q[4] /\ x[6] = q[6] /\ x[7] = q[7]
          /\ x[8] = q[8]
      BY ONLY <3>1, <3>2, TwoReplaced
    <3> QED
      BY ONLY <3>3, <3>4
  <2> HIDE DEF f
  <2> QED
    BY <1>3, <2>1, <2>2, <2>3
<1> HIDE DEF f
<1>5. AddWord(t1, t2) \in Word /\ AddWord(r[4], t1) \in Word
  BY <1>0, <1>2, AddWordType
<1>6. \A n \in 1 .. 8 : f[n] \in Word
  <2> SUFFICES ASSUME NEW n \in 1 .. 8 PROVE f[n] \in Word
    OBVIOUS
  <2>1. n \in {1, 2, 3, 4, 5, 6, 7, 8}
    OBVIOUS
  <2> QED
    BY <1>0, <1>4, <1>5, <2>1
<1>7. f \in Letters
  BY <1>4, <1>6 DEF Letters
<1>8. \A n \in {2, 3, 4, 6, 7, 8} : f[n] = r[n - 1]
  BY <1>4
<1> QED
  BY <1>1, <1>4, <1>7, <1>8

\* The registers r after a round of t1 and t2.
Moved(r, t1, t2, f) ==
  /\ f[1] = AddWord(t1, t2) /\ f[5] = AddWord(r[4], t1)
  /\ \A n \in {2, 3, 4, 6, 7, 8} : f[n] = r[n - 1]

FirstTerm(a, b, c, d, kt, wt) == Add3(Add3(d, S1(a), CH(a, b, c)), kt, wt)
SecondTerm(a, b, c) == AddWord(S0(a), MAJ(a, b, c))

LEMMA ShiftedMoves ==
  ASSUME NEW r \in Letters, NEW kt \in Word, NEW wt \in Word
  PROVE  Moved(r, FirstTerm(r[5], r[6], r[7], r[8], kt, wt), SecondTerm(r[1], r[2], r[3]),
               Shifted(r, kt, wt))
<1>1. PICK t1, t2 : /\ t1 = Add3(Add3(r[8], S1(r[5]), CH(r[5], r[6], r[7])), kt, wt)
                    /\ t2 = AddWord(S0(r[1]), MAJ(r[1], r[2], r[3]))
  OBVIOUS
<1>2. Moved(r, t1, t2, Shifted(r, kt, wt))
  BY <1>1, ShiftedIs DEF Moved
<1> QED
  BY ONLY <1>1, <1>2 DEF FirstTerm, SecondTerm

\* The same of the registers by their names in round i.
Turns(i, s, t1, t2, f) ==
  /\ Letter(i + 1, f, 0) = AddWord(t1, t2)
  /\ Letter(i + 1, f, 4) = AddWord(Letter(i, s, 3), t1)
  /\ \A n \in {1, 2, 3, 5, 6, 7} : Letter(i + 1, f, n) = Letter(i, s, n - 1)
  /\ f.w = [s.w EXCEPT ![i % 16] = Incoming(i, s)]

LEMMA RoundTurns ==
  ASSUME NEW i \in 0 .. 63, NEW s \in Machine
  PROVE  Turns(i, s,
               FirstTerm(Letter(i, s, 4), Letter(i, s, 5), Letter(i, s, 6), Letter(i, s, 7),
                         k[i], Incoming(i, s)),
               SecondTerm(Letter(i, s, 0), Letter(i, s, 1), Letter(i, s, 2)),
               ROUND(i, s))
<1>1. PICK t1, t2 :
        /\ t1 = Add3(Add3(Letter(i, s, 7), S1(Letter(i, s, 4)),
                          CH(Letter(i, s, 4), Letter(i, s, 5), Letter(i, s, 6))),
                     k[i], Incoming(i, s))
        /\ t2 = AddWord(S0(Letter(i, s, 0)),
                        MAJ(Letter(i, s, 0), Letter(i, s, 1), Letter(i, s, 2)))
  OBVIOUS
<1>2. Turns(i, s, t1, t2, ROUND(i, s))
  BY <1>1, RoundIs, SMTT(60) DEF Turns
<1> QED
  BY ONLY <1>1, <1>2 DEF FirstTerm, SecondTerm

LEMMA CompressedRun ==
  ASSUME NEW h \in Letters, NEW w \in Seq(Word), Len(w) = 64
  PROVE  \E r : /\ r[0] = h
                /\ \A t \in 0 .. 63 : r[t + 1] = Shifted(r[t], k[t], w[t + 1])
                /\ \A t \in 0 .. 64 : r[t] \in Letters
                /\ Compressed(h, w) = r[64]
<1> DEFINE Turn(x, t) == Shifted(x, k[t - 1], w[t])
           P(g) == g = [t \in 0 .. 64 |-> IF t = 0 THEN h ELSE Turn(g[t - 1], t)]
           F == [t \in 1 .. 64 |-> [x \in Letters |-> Turn(x, t)]]
           r == CHOOSE g : P(g)
<1>1. Compressed(h, w) = r[64]
  BY DEF Compressed
<1>2. ASSUME NEW t \in 0 .. 63, NEW x \in Letters
      PROVE  Shifted(x, k[t], w[t + 1]) \in Letters
  <2>1. t + 1 \in 1 .. Len(w)
    OBVIOUS
  <2>4. k[t] \in Word
    BY RoundConstants
  <2>5. w[t + 1] \in Word
    BY <2>1, ElementOfSeq, ZenonT(60)
  <2>2. PICK y \in Word, z \in Word : y = k[t] /\ z = w[t + 1]
    BY <2>4, <2>5
  <2>3. Shifted(x, y, z) \in Letters
    BY ShiftedIs
  <2> QED
    BY <2>2, <2>3
<1>3. ASSUME NEW t \in 1 .. 64, NEW x \in Letters
      PROVE  F[t][x] = Turn(x, t) /\ F[t][x] \in Letters
  <2>1. F[t][x] = Turn(x, t)
    OBVIOUS
  <2>2. t - 1 \in 0 .. 63 /\ (t - 1) + 1 = t
    OBVIOUS
  <2> QED
    BY <2>1, <2>2, <1>2
<1> HIDE DEF F
<1>14. ASSUME NEW t \in 0 .. 63, NEW x PROVE Turn(x, t + 1) = Shifted(x, k[t], w[t + 1])
  <2>1. (t + 1) - 1 = t
    OBVIOUS
  <2> QED
    BY <2>1
<1> HIDE DEF Turn
<1>4. IsSteps(F, Letters, 64)
  BY <1>3 DEF IsSteps
<1>5. PICK g : DefinedBy(g, F, h, 64)
  BY IterationExists
<1>6. Iterates(g, F, h, 64)
  BY <1>5, DefinedIterates
<1>7. \A t \in 0 .. 64 : g[t] \in Letters
  BY <1>4, <1>6, IterationType
<1>8. ASSUME NEW t \in 1 .. 64 PROVE F[t][g[t - 1]] = Turn(g[t - 1], t)
  <2>1. t - 1 \in 0 .. 64
    OBVIOUS
  <2>2. PICK x \in Letters : x = g[t - 1]
    BY <2>1, <1>7, ZenonT(60)
  <2>3. F[t][x] = Turn(x, t)
    BY <1>3
  <2> QED
    BY <2>2, <2>3
<1>9. P(g)
  <2>1. \A t \in 0 .. 64 : t = 0 \/ t \in 1 .. 64
    OBVIOUS
  <2>2. \A t \in 0 .. 64 : (IF t = 0 THEN h ELSE F[t][g[t - 1]]) = (IF t = 0 THEN h ELSE Turn(g[t - 1], t))
    BY <2>1, <1>8
  <2> QED
    BY ONLY <2>2, <1>5, Zenon DEF DefinedBy
<1> HIDE DEF P
<1>10. P(r)
  BY <1>9
<1> USE DEF P
<1> HIDE DEF r
<1>11. r[0] = h /\ \A t \in 1 .. 64 : r[t] = Turn(r[t - 1], t)
  BY <1>10
<1>12. ASSUME NEW t \in 0 .. 63 PROVE r[t + 1] = Shifted(r[t], k[t], w[t + 1])
  <2>1. t + 1 \in 1 .. 64 /\ (t + 1) - 1 = t
    OBVIOUS
  <2>2. r[t + 1] = Turn(r[(t + 1) - 1], t + 1)
    BY <2>1, <1>11
  <2>3. Turn(r[t], t + 1) = Shifted(r[t], k[t], w[t + 1])
    BY <1>14
  <2> QED
    BY <2>1, <2>2, <2>3
<1>13. \A t \in 0 .. 64 : r[t] \in Letters
  <2> DEFINE T == {t \in Nat : t <= 64 => r[t] \in Letters}
  <2>1. 0 \in T
    BY <1>11
  <2>2. ASSUME NEW t \in Nat, t \in T PROVE t + 1 \in T
    <3> SUFFICES ASSUME t + 1 <= 64 PROVE r[t + 1] \in Letters
      OBVIOUS
    <3>1. t \in 0 .. 63 /\ r[t] \in Letters
      BY <2>2
    <3> QED
      BY <3>1, <1>2, <1>12, ZenonT(60)
  <2> HIDE DEF T
  <2>3. Nat \subseteq T
    BY <2>1, <2>2, Induct
  <2> QED
    BY <2>3 DEF T
<1> QED
  BY <1>1, <1>11, <1>12, <1>13

\* Less than 16 apart in the schedule, two words do not share a place.
LEMMA RingDistance ==
  ASSUME NEW i \in Nat, NEW j \in Nat, j < i + 16, i < j + 16, i # j
  PROVE  i % 16 # j % 16 /\ i % 16 \in 0 .. 15 /\ j % 16 \in 0 .. 15
<1>1. PICK a \in Nat, b \in 0 .. 15 : i = 16 * a + b /\ b = i % 16
  <2>1. i \div 16 \in Nat /\ i % 16 \in 0 .. 15 /\ i = 16 * (i \div 16) + (i % 16)
    OBVIOUS
  <2> QED
    BY <2>1
<1>2. PICK c \in Nat, d \in 0 .. 15 : j = 16 * c + d /\ d = j % 16
  <2>1. j \div 16 \in Nat /\ j % 16 \in 0 .. 15 /\ j = 16 * (j \div 16) + (j % 16)
    OBVIOUS
  <2> QED
    BY <2>1
<1>3. b # d
  <2>1. CASE a = c
    BY <1>1, <1>2, <2>1
  <2>2. CASE a < c
    <3>1. 16 * c >= 16 * a + 16
      BY <2>2
    <3> QED
      BY <1>1, <1>2, <3>1
  <2>3. CASE a > c
    <3>1. 16 * a >= 16 * c + 16
      BY <2>3
    <3> QED
      BY <1>1, <1>2, <3>1
  <2> QED
    BY <2>1, <2>2, <2>3
<1> QED
  BY <1>1, <1>2, <1>3

LEMMA SmallRemainders ==
  /\ \A n \in 0 .. 7 : (n - 0) % 8 = n /\ (n - 64) % 8 = n
  /\ \A j \in 0 .. 15 : j % 16 = j
<1>1. ASSUME NEW n \in 0 .. 7 PROVE (n - 0) % 8 = n /\ (n - 64) % 8 = n
  <2>1. n \in {0, 1, 2, 3, 4, 5, 6, 7}
    OBVIOUS
  <2> QED
    BY <2>1
<1>2. ASSUME NEW j \in 0 .. 15 PROVE j % 16 = j
  OBVIOUS
<1> QED
  BY <1>1, <1>2

\* The registers that turn are the ones that shift, and the ring of 16 words
\* holds what the schedule still needs.
LEMMA RoundsAreStandard ==
  ASSUME NEW state \in Registers, NEW w \in [0 .. 15 -> Word],
         NEW first \in Seq(Word), Len(first) = 16, \A j \in 0 .. 15 : w[j] = first[j + 1],
         NEW h \in Letters, \A i \in 1 .. 8 : h[i] = state[i - 1]
  PROVE  /\ Rounds(state, w) \in Registers
         /\ Compressed(h, Schedule(first)) \in Letters
         /\ \A i \in 0 .. 7 : Rounds(state, w)[i] = Compressed(h, Schedule(first))[i + 1]
<1>14. IsSchedule(Schedule(first), first)
  BY ScheduleIs DEF IsSchedule
<1>15. PICK W : W = Schedule(first) /\ IsSchedule(W, first)
  BY ONLY <1>14
<1>16. W \in Seq(Word)
  BY ONLY <1>15 DEF IsSchedule
<1>1. /\ W = Schedule(first) /\ Len(W) = 64
      /\ \A j \in 1 .. 16 : W[j] = first[j]
      /\ \A t \in 16 .. 63 :
           W[t + 1] = AddWord(Add3(G1(W[t - 1]), W[t - 6], G0(W[t - 14])), W[t - 15])
  BY ONLY <1>15 DEF IsSchedule
<1>2. PICK s : /\ s[0] = [v |-> state, w |-> w]
               /\ \A i \in 0 .. 63 : s[i + 1] = ROUND(i, s[i])
               /\ \A i \in 0 .. 64 : s[i] \in Machine
               /\ Rounds(state, w) = s[64].v
  BY RoundsRun, ZenonT(60)
<1>3. PICK r : /\ r[0] = h
               /\ \A t \in 0 .. 63 : r[t + 1] = Shifted(r[t], k[t], W[t + 1])
               /\ \A t \in 0 .. 64 : r[t] \in Letters
               /\ Compressed(h, W) = r[64]
  BY <1>1, <1>16, CompressedRun, ZenonT(60)
<1>12. /\ \A i \in 0 .. 63 : s[i + 1] = ROUND(i, s[i])
       /\ \A i \in 0 .. 64 : s[i] \in Machine
  BY <1>2
<1>13. /\ \A t \in 0 .. 63 : r[t + 1] = Shifted(r[t], k[t], W[t + 1])
       /\ \A t \in 0 .. 64 : r[t] \in Letters
  BY <1>3
<1> DEFINE lo(t) == IF t <= 16 THEN 0 ELSE t - 16
           A(t) == \A n \in 0 .. 7 : Letter(t, s[t], n) = r[t][n + 1]
           B(t) == \A j \in lo(t) .. lo(t) + 15 : s[t].w[j % 16] = W[j + 1]
           T == {t \in Nat : t <= 64 => A(t) /\ B(t)}
<1> HIDE DEF lo, A, B
<1>4. A(0)
  <2>1. s[0].v = state /\ r[0] = h
    BY <1>2, <1>3
  <2>2. ASSUME NEW n \in 0 .. 7 PROVE Letter(0, s[0], n) = r[0][n + 1]
    <3>1. (n - 0) % 8 = n /\ n + 1 \in 1 .. 8 /\ (n + 1) - 1 = n
      BY ONLY n \in 0 .. 7, SmallRemainders
    <3> QED
      BY <2>1, <3>1 DEF Letter
  <2> QED
    BY <2>2 DEF A
<1>5. B(0)
  <2>1. s[0].w = w
    BY <1>2
  <2>2. ASSUME NEW j \in 0 .. 15 PROVE s[0].w[j % 16] = W[j + 1]
    <3>1. j % 16 = j /\ j + 1 \in 1 .. 16 /\ (j + 1) - 1 = j
      BY ONLY j \in 0 .. 15, SmallRemainders
    <3> QED
      BY <1>1, <2>1, <3>1
  <2>3. lo(0) .. lo(0) + 15 = 0 .. 15
    BY ONLY TRUE DEF lo
  <2> QED
    BY ONLY <2>2, <2>3 DEF B
<1>6. ASSUME NEW t \in Nat, t \in T PROVE t + 1 \in T
  <2> SUFFICES ASSUME t + 1 <= 64 PROVE A(t + 1) /\ B(t + 1)
    BY SMTT(60)
  <2>1. t \in 0 .. 63 /\ A(t) /\ B(t)
    BY ONLY <1>6, t + 1 <= 64
  <2>19. t \in 0 .. 63 /\ t \in 0 .. 64
    BY ONLY <2>1
  <2>2. s[t] \in Machine /\ s[t + 1] = ROUND(t, s[t])
    BY ONLY <2>19, <1>12, Zenon
  <2>3. r[t] \in Letters /\ r[t + 1] = Shifted(r[t], k[t], W[t + 1])
    BY ONLY <2>19, <1>13, Zenon
  <2>4. Incoming(t, s[t]) = W[t + 1]
    <3>1. CASE t < 16
      <4>1. t \in lo(t) .. lo(t) + 15
        BY ONLY t \in Nat, <3>1 DEF lo
      <4>2. s[t].w[t % 16] = W[t + 1]
        BY ONLY <2>1, <4>1 DEF B
      <4> QED
        BY ONLY <3>1, <4>2 DEF Incoming
    <3>2. CASE t >= 16
      <4>1. lo(t) = t - 16
        BY ONLY <3>2, t \in Nat DEF lo
      <4>2. /\ t - 16 \in lo(t) .. lo(t) + 15 /\ t - 2 \in lo(t) .. lo(t) + 15
            /\ t - 7 \in lo(t) .. lo(t) + 15 /\ t - 15 \in lo(t) .. lo(t) + 15
        BY ONLY t \in Nat, <4>1
      <4>3. /\ t % 16 = (t - 16) % 16 /\ (t + 14) % 16 = (t - 2) % 16
            /\ (t + 9) % 16 = (t - 7) % 16 /\ (t + 1) % 16 = (t - 15) % 16
            /\ (t - 16) + 1 = t - 15 /\ (t - 2) + 1 = t - 1 /\ (t - 7) + 1 = t - 6
            /\ (t - 15) + 1 = t - 14
        BY ONLY t \in Nat
      <4>4. /\ s[t].w[t % 16] = W[t - 15] /\ s[t].w[(t + 14) % 16] = W[t - 1]
            /\ s[t].w[(t + 9) % 16] = W[t - 6] /\ s[t].w[(t + 1) % 16] = W[t - 14]
        BY ONLY <2>1, <4>2, <4>3 DEF B
      <4>5. PICK a \in Word, b \in Word, c \in Word, d \in Word :
              a = W[t - 1] /\ b = W[t - 6] /\ c = W[t - 14] /\ d = W[t - 15]
        <5>1. /\ t - 1 \in 1 .. 64 /\ t - 6 \in 1 .. 64 /\ t - 14 \in 1 .. 64
              /\ t - 15 \in 1 .. 64
          BY ONLY t \in Nat, t + 1 <= 64, <3>2
        <5> QED
          BY ONLY <1>1, <1>16, <5>1, ElementOfSeq, ZenonT(60)
      <4>6. AddWord(d, Add3(G1(a), b, G0(c))) = AddWord(Add3(G1(a), b, G0(c)), d)
        BY MixTypes, AddWordType
      <4>7. t \in 16 .. 63 /\ ~(t < 16)
        BY ONLY t \in Nat, t + 1 <= 64, <3>2
      <4> QED
        BY <1>1, <4>4, <4>5, <4>6, <4>7 DEF Incoming
    <3> QED
      BY ONLY t \in Nat, <3>1, <3>2
  <2>16. PICK u1, u2 :
           /\ u1 = FirstTerm(Letter(t, s[t], 4), Letter(t, s[t], 5), Letter(t, s[t], 6),
                             Letter(t, s[t], 7), k[t], Incoming(t, s[t]))
           /\ u2 = SecondTerm(Letter(t, s[t], 0), Letter(t, s[t], 1), Letter(t, s[t], 2))
    OBVIOUS
  <2>5. \A n \in 0 .. 7 : Letter(t, s[t], n) = r[t][n + 1]
    BY ONLY <2>1 DEF A
  <2>15. /\ Letter(t, s[t], 0) = r[t][1] /\ Letter(t, s[t], 1) = r[t][2]
         /\ Letter(t, s[t], 2) = r[t][3] /\ Letter(t, s[t], 3) = r[t][4]
         /\ Letter(t, s[t], 4) = r[t][5] /\ Letter(t, s[t], 5) = r[t][6]
         /\ Letter(t, s[t], 6) = r[t][7] /\ Letter(t, s[t], 7) = r[t][8]
    BY ONLY <2>5
  <2>6. /\ u1 = FirstTerm(r[t][5], r[t][6], r[t][7], r[t][8], k[t], W[t + 1])
        /\ u2 = SecondTerm(r[t][1], r[t][2], r[t][3])
    BY ONLY <2>4, <2>15, <2>16
  <2>7. k[t] \in Word /\ W[t + 1] \in Word
    <3>1. t + 1 \in 1 .. 64
      BY ONLY <2>1
    <3> QED
      BY <1>1, <1>16, <2>1, <3>1, ElementOfSeq, RoundConstants
  <2>8. PICK rt \in Letters, kt \in Word, wt \in Word : rt = r[t] /\ kt = k[t] /\ wt = W[t + 1]
    BY <2>3, <2>7
  <2>17. Moved(rt, u1, u2, Shifted(rt, kt, wt))
    BY ONLY rt \in Letters, kt \in Word, wt \in Word, <2>6, <2>8, ShiftedMoves
  <2>9. /\ Shifted(rt, kt, wt)[1] = AddWord(u1, u2)
        /\ Shifted(rt, kt, wt)[5] = AddWord(rt[4], u1)
        /\ \A n \in {2, 3, 4, 6, 7, 8} : Shifted(rt, kt, wt)[n] = rt[n - 1]
    BY ONLY <2>17 DEF Moved
  <2>10. PICK st \in Machine : st = s[t]
    BY <2>2
  <2>18. Turns(t, st, u1, u2, ROUND(t, st))
    BY ONLY <2>19, st \in Machine, <2>10, <2>16, RoundTurns
  <2>11. /\ Letter(t + 1, ROUND(t, st), 0) = AddWord(u1, u2)
         /\ Letter(t + 1, ROUND(t, st), 4) = AddWord(Letter(t, st, 3), u1)
         /\ \A n \in {1, 2, 3, 5, 6, 7} :
              Letter(t + 1, ROUND(t, st), n) = Letter(t, st, n - 1)
         /\ ROUND(t, st).w = [st.w EXCEPT ![t % 16] = Incoming(t, st)]
    BY ONLY <2>18 DEF Turns
  <2>12. A(t + 1)
    <3>1. /\ Letter(t + 1, s[t + 1], 0) = r[t + 1][1]
          /\ Letter(t + 1, s[t + 1], 4) = r[t + 1][5]
      BY ONLY <2>2, <2>3, <2>8, <2>9, <2>10, <2>11, <2>15
    <3>2. ASSUME NEW n \in {1, 2, 3, 5, 6, 7}
          PROVE  Letter(t + 1, s[t + 1], n) = r[t + 1][n + 1]
      <4>1. n + 1 \in {2, 3, 4, 6, 7, 8} /\ (n + 1) - 1 = n /\ n - 1 \in 0 .. 7
            /\ (n - 1) + 1 = n
        BY ONLY n \in {1, 2, 3, 5, 6, 7}
      <4>2. r[t + 1][n + 1] = r[t][n]
        BY ONLY <4>1, <2>3, <2>8, <2>9, SMTT(60)
      <4>3. Letter(t + 1, s[t + 1], n) = Letter(t, s[t], n - 1)
        BY ONLY <2>2, <2>10, <2>11, n \in {1, 2, 3, 5, 6, 7}
      <4>4. Letter(t, s[t], n - 1) = r[t][n]
        BY ONLY <4>1, <2>5
      <4> QED
        BY <4>2, <4>3, <4>4
    <3>3. \A n \in 0 .. 7 : n = 0 \/ n = 4 \/ n \in {1, 2, 3, 5, 6, 7}
      BY ONLY TRUE
    <3> QED
      BY ONLY <3>1, <3>2, <3>3 DEF A
  <2>13. B(t + 1)
    <3>1. s[t + 1].w = [s[t].w EXCEPT ![t % 16] = W[t + 1]]
      BY ONLY <2>2, <2>4, <2>10, <2>11
    <3>4. t % 16 \in 0 .. 15
      BY ONLY t \in Nat
    <3>2. DOMAIN s[t].w = 0 .. 15 /\ t % 16 \in 0 .. 15
      BY ONLY <2>2, <3>4 DEF Machine
    <3>3. ASSUME NEW j \in lo(t + 1) .. lo(t + 1) + 15 PROVE s[t + 1].w[j % 16] = W[j + 1]
      <4>1. CASE j = t
        BY ONLY <3>1, <3>2, <4>1
      <4>2. CASE j # t
        <5>3. j \in Nat /\ j < t + 16 /\ t - 16 < j /\ j \in lo(t) .. lo(t) + 15
          <6>1. CASE t < 16
            <7>1. lo(t) = 0 /\ lo(t + 1) = 0
              BY ONLY t \in Nat, <6>1 DEF lo
            <7> QED
              BY ONLY t \in Nat, j \in lo(t + 1) .. lo(t + 1) + 15, <4>2, <6>1, <7>1, SMTT(60)
          <6>2. CASE t >= 16
            <7>1. lo(t) = t - 16 /\ lo(t + 1) = t - 15
              BY ONLY t \in Nat, <6>2 DEF lo
            <7> QED
              BY ONLY t \in Nat, j \in lo(t + 1) .. lo(t + 1) + 15, <4>2, <6>2, <7>1, SMTT(60)
          <6> QED
            BY ONLY t \in Nat, <6>1, <6>2
        <5>4. j % 16 # t % 16 /\ j % 16 \in 0 .. 15 /\ t % 16 \in 0 .. 15
          <6>1. j \in Nat /\ j < t + 16 /\ t < j + 16 /\ j # t
            BY ONLY t \in Nat, <4>2, <5>3
          <6> QED
            BY ONLY t \in Nat, <6>1, RingDistance
        <5>1. j \in lo(t) .. lo(t) + 15 /\ j % 16 # t % 16 /\ j % 16 \in 0 .. 15
          BY ONLY <5>3, <5>4
        <5>2. s[t].w[j % 16] = W[j + 1]
          BY ONLY <2>1, <5>1 DEF B
        <5> QED
          BY ONLY <3>1, <3>2, <5>1, <5>2
      <4> QED
        BY <4>1, <4>2
    <3> QED
      BY ONLY <3>3 DEF B
  <2> QED
    BY <2>12, <2>13
<1>7. 0 \in T
  BY <1>4, <1>5
<1> HIDE DEF T
<1>8. Nat \subseteq T
  BY <1>6, <1>7, Induct
<1>9. A(64)
  BY ONLY <1>8 DEF T
<1>10. s[64] \in Machine /\ r[64] \in Letters
  BY <1>2, <1>3
<1>11. ASSUME NEW i \in 0 .. 7 PROVE s[64].v[i] = r[64][i + 1]
  <2>1. (i - 64) % 8 = i
    BY ONLY i \in 0 .. 7, SmallRemainders
  <2> QED
    BY <1>9, <2>1 DEF Letter, A
<1> QED
  BY <1>1, <1>2, <1>3, <1>10, <1>11, ZenonT(60) DEF Machine

LEMMA Load32Type ==
  ASSUME NEW p \in Seq(Byte), NEW at \in Nat, at + 4 <= Len(p)
  PROVE  load32(p, at) \in Word
<1>1. /\ at + 1 \in 1 .. Len(p) /\ at + 2 \in 1 .. Len(p) /\ at + 3 \in 1 .. Len(p)
      /\ at + 4 \in 1 .. Len(p)
  BY LenProperties
<1>2. PICK a \in Byte, b \in Byte, c \in Byte, d \in Byte :
        a = p[at + 1] /\ b = p[at + 2] /\ c = p[at + 3] /\ d = p[at + 4]
  BY <1>1, ElementOfSeq
<1>3. 256 * a + b \in Half /\ 256 * c + d \in Half
  BY DEF Byte, Half
<1> QED
  BY <1>2, <1>3 DEF load32, Word

\* A block is hashed as the standard says.
LEMMA TransformIsStandard ==
  ASSUME NEW state \in Registers, NEW p \in Seq(Byte), NEW at \in Nat, at + 64 <= Len(p)
  PROVE  transform(state, p, at) \in Registers /\ transform(state, p, at) = HashBlock(state, p, at)
<1> DEFINE fst == [t \in 1 .. 16 |-> load32(p, at + 4 * t - 4)]
           hh == [i \in 1 .. 8 |-> state[i - 1]]
<1>1. PICK w \in [0 .. 15 -> Word] : /\ w = BlockWords(p, at)
                                     /\ \A i \in 0 .. 15 : w[i] = load32(p, at + 4 * i)
  <2>1. ASSUME NEW i \in 0 .. 15 PROVE load32(p, at + 4 * i) \in Word
    <3>1. PICK a \in Nat : a = at + 4 * i /\ a + 4 <= Len(p)
      BY LenProperties
    <3> QED
      BY <3>1, Load32Type
  <2>2. PICK w : w = BlockWords(p, at)
    OBVIOUS
  <2>3. w = [i \in 0 .. 15 |-> load32(p, at + 4 * i)]
    BY ONLY <2>2 DEF BlockWords
  <2>4. \A i \in 0 .. 15 : w[i] = load32(p, at + 4 * i)
    BY ONLY <2>3
  <2>5. w \in [0 .. 15 -> Word]
    BY ONLY <2>1, <2>3
  <2> QED
    BY ONLY <2>2, <2>4, <2>5
<1>2. PICK first \in Seq(Word) : /\ first = Tuple(fst) /\ Len(first) = 16
                                 /\ \A t \in 1 .. 16 : first[t] = load32(p, at + 4 * t - 4)
  <2>1. \A t \in 1 .. 16 : fst[t] = load32(p, at + 4 * t - 4)
    OBVIOUS
  <2>2. ASSUME NEW t \in 1 .. 16 PROVE fst[t] \in Word
    <3>1. PICK a \in Nat : a = at + 4 * t - 4 /\ a + 4 <= Len(p)
      BY LenProperties
    <3> QED
      BY <2>1, <3>1, Load32Type
  <2>3. fst \in Seq(Word)
    <3>1. fst = [t \in 1 .. 16 |-> fst[t]]
      OBVIOUS
    <3> HIDE DEF fst
    <3> QED
      BY <2>2, <3>1, IsASeq
  <2>4. Len(fst) = 16
    OBVIOUS
  <2> HIDE DEF fst
  <2>5. PICK f \in Seq(Word) : f = fst
    BY <2>3
  <2>6. f \o << >> = f
    BY ConcatEmptySeq
  <2> QED
    BY <2>1, <2>3, <2>4, <2>5, <2>6 DEF Tuple
<1>3. PICK h \in Letters : h = hh /\ \A i \in 1 .. 8 : h[i] = state[i - 1]
  <2>1. hh \in Letters
    BY DEF Letters, Registers
  <2> QED
    BY <2>1
<1>4. \A j \in 0 .. 15 : w[j] = first[j + 1]
  <2> SUFFICES ASSUME NEW j \in 0 .. 15 PROVE w[j] = first[j + 1]
    OBVIOUS
  <2>1. j + 1 \in 1 .. 16 /\ at + 4 * (j + 1) - 4 = at + 4 * j
    OBVIOUS
  <2> QED
    BY <1>1, <1>2, <2>1
<1>5. /\ Rounds(state, w) \in Registers
      /\ \A i \in 0 .. 7 : Rounds(state, w)[i] = Compressed(h, Schedule(first))[i + 1]
  BY <1>2, <1>3, <1>4, RoundsAreStandard, ZenonT(60)
<1>6. transform(state, p, at) = [i \in 0 .. 7 |-> AddWord(state[i], Rounds(state, w)[i])]
  BY <1>1 DEF transform
<1>7. HashBlock(state, p, at)
        = [i \in 0 .. 7 |-> AddWord(state[i], Compressed(h, Schedule(first))[i + 1])]
  BY <1>2, <1>3 DEF HashBlock
<1>8. \A i \in 0 .. 7 : AddWord(state[i], Rounds(state, w)[i]) \in Word
  BY <1>5, AddWordType DEF Registers
<1> QED
  BY <1>5, <1>6, <1>7, <1>8 DEF Registers

-----------------------------------------------------------------------------
(* SHA-256: the blocks of a message.                                       *)

LEMMA TransformType ==
  ASSUME NEW state \in Registers, NEW p \in Seq(Byte), NEW at \in Nat, at + 64 <= Len(p)
  PROVE  transform(state, p, at) \in Registers
BY TransformIsStandard

\* The 64 bytes at p[at] are those at q[from].
SameBlock(p, at, q, from) == \A j \in 1 .. 64 : p[at + j] = q[from + j]

\* transform reads no other byte.
LEMMA TransformReads ==
  ASSUME NEW state, NEW p, NEW at \in Nat, NEW q, NEW from \in Nat, SameBlock(p, at, q, from)
  PROVE  transform(state, p, at) = transform(state, q, from)
<1>1. ASSUME NEW i \in 0 .. 15 PROVE load32(p, at + 4 * i) = load32(q, from + 4 * i)
  <2>1. PICK a \in 1 .. 64, b \in 1 .. 64, c \in 1 .. 64, d \in 1 .. 64 :
          a = 4 * i + 1 /\ b = 4 * i + 2 /\ c = 4 * i + 3 /\ d = 4 * i + 4
    <3>1. /\ 4 * i + 1 \in 1 .. 64 /\ 4 * i + 2 \in 1 .. 64 /\ 4 * i + 3 \in 1 .. 64
          /\ 4 * i + 4 \in 1 .. 64
      OBVIOUS
    <3> QED
      BY ONLY <3>1, Zenon
  <2>2. /\ p[at + a] = q[from + a] /\ p[at + b] = q[from + b]
        /\ p[at + c] = q[from + c] /\ p[at + d] = q[from + d]
    BY DEF SameBlock
  <2>3. /\ (at + 4 * i) + 1 = at + a /\ (at + 4 * i) + 2 = at + b
        /\ (at + 4 * i) + 3 = at + c /\ (at + 4 * i) + 4 = at + d
        /\ (from + 4 * i) + 1 = from + a /\ (from + 4 * i) + 2 = from + b
        /\ (from + 4 * i) + 3 = from + c /\ (from + 4 * i) + 4 = from + d
    BY <2>1
  <2> QED
    BY ONLY <2>2, <2>3 DEF load32
<1>2. BlockWords(p, at) = BlockWords(q, from)
  BY <1>1 DEF BlockWords
<1> QED
  BY ONLY <1>2 DEF transform

\* s goes from h through the first n blocks of p.
Passes(s, h, p, n) == s[0] = h /\ \A i \in 1 .. n : s[i] = transform(s[i - 1], p, 64 * (i - 1))

LEMMA PassesType ==
  ASSUME NEW h \in Registers, NEW p \in Seq(Byte), NEW n \in Nat, 64 * n <= Len(p),
         NEW s, Passes(s, h, p, n)
  PROVE  \A i \in 0 .. n : s[i] \in Registers
<1> DEFINE T == {i \in Nat : i <= n => s[i] \in Registers}
<1>1. 0 \in T
  BY DEF Passes
<1>2. ASSUME NEW i \in Nat, i \in T PROVE i + 1 \in T
  <2> SUFFICES ASSUME i + 1 <= n PROVE s[i + 1] \in Registers
    OBVIOUS
  <2>1. s[i] \in Registers /\ i + 1 \in 1 .. n /\ (i + 1) - 1 = i
    BY <1>2
  <2>2. PICK at \in Nat : at = 64 * i /\ at + 64 <= Len(p)
    <3>1. Len(p) \in Nat
      BY LenProperties
    <3>2. 64 * (i + 1) <= 64 * n
      OBVIOUS
    <3> QED
      BY <3>1, <3>2
  <2>3. s[i + 1] = transform(s[i], p, at)
    BY <2>1, <2>2 DEF Passes
  <2> QED
    BY <2>1, <2>2, <2>3, TransformType
<1> HIDE DEF T
<1>3. Nat \subseteq T
  BY <1>1, <1>2, Induct
<1> QED
  BY <1>3 DEF T

LEMMA WholeBlocksRun ==
  ASSUME NEW h \in Registers, NEW p \in Seq(Byte), NEW n \in Nat, 64 * n <= Len(p)
  PROVE  \E s : Passes(s, h, p, n) /\ WholeBlocks(h, p, n) = s[n]
<1> DEFINE P(g) == g = [i \in 0 .. n |-> IF i = 0 THEN h ELSE transform(g[i - 1], p, 64 * (i - 1))]
           F == [i \in 1 .. n |-> [x \in Registers |-> transform(x, p, 64 * (i - 1))]]
           s == CHOOSE g : P(g)
<1>1. WholeBlocks(h, p, n) = s[n]
  BY DEF WholeBlocks
<1>2. ASSUME NEW i \in 1 .. n, NEW x \in Registers
      PROVE  F[i][x] = transform(x, p, 64 * (i - 1)) /\ F[i][x] \in Registers
  <2>1. F[i][x] = transform(x, p, 64 * (i - 1))
    OBVIOUS
  <2>2. PICK at \in Nat : at = 64 * (i - 1) /\ at + 64 <= Len(p)
    <3>1. Len(p) \in Nat
      BY LenProperties
    <3>2. 64 * i <= 64 * n /\ 64 * (i - 1) = 64 * i - 64
      OBVIOUS
    <3> QED
      BY <3>1, <3>2
  <2> QED
    BY <2>1, <2>2, TransformType
<1> HIDE DEF F
<1>3. IsSteps(F, Registers, n)
  BY <1>2 DEF IsSteps
<1>4. PICK g : DefinedBy(g, F, h, n)
  BY IterationExists
<1>5. Iterates(g, F, h, n)
  BY <1>4, DefinedIterates
<1>6. \A i \in 0 .. n : g[i] \in Registers
  BY <1>3, <1>5, IterationType
<1>7. ASSUME NEW i \in 1 .. n PROVE F[i][g[i - 1]] = transform(g[i - 1], p, 64 * (i - 1))
  <2>1. i - 1 \in 0 .. n
    OBVIOUS
  <2>2. g[i - 1] \in Registers
    BY <2>1, <1>6
  <2> QED
    BY <2>2, <1>2
<1>8. P(g)
  <2>1. \A i \in 0 .. n : i = 0 \/ i \in 1 .. n
    OBVIOUS
  <2>2. \A i \in 0 .. n :
          (IF i = 0 THEN h ELSE F[i][g[i - 1]])
            = (IF i = 0 THEN h ELSE transform(g[i - 1], p, 64 * (i - 1)))
    BY <2>1, <1>7
  <2> QED
    BY ONLY <2>2, <1>4 DEF DefinedBy
<1> HIDE DEF P
<1>9. P(s)
  BY <1>8
<1> USE DEF P
<1> HIDE DEF s
<1>10. Passes(s, h, p, n)
  BY <1>9 DEF Passes
<1> QED
  BY <1>1, <1>10

\* The steps are determined.
LEMMA PassesUnique ==
  ASSUME NEW h, NEW p, NEW n \in Nat, NEW q, NEW s, NEW t,
         Passes(s, h, p, n), Passes(t, h, q, n),
         \A i \in 1 .. n : SameBlock(p, 64 * (i - 1), q, 64 * (i - 1))
  PROVE  \A i \in 0 .. n : s[i] = t[i]
<1> DEFINE T == {i \in Nat : i <= n => s[i] = t[i]}
<1>1. 0 \in T
  BY DEF Passes
<1>2. ASSUME NEW i \in Nat, i \in T PROVE i + 1 \in T
  <2> SUFFICES ASSUME i + 1 <= n PROVE s[i + 1] = t[i + 1]
    OBVIOUS
  <2>1. s[i] = t[i] /\ i + 1 \in 1 .. n /\ (i + 1) - 1 = i
    BY <1>2
  <2>2. PICK at \in Nat : at = 64 * i
    OBVIOUS
  <2>3. s[i + 1] = transform(s[i], p, at) /\ t[i + 1] = transform(t[i], q, at)
    BY <2>1, <2>2 DEF Passes
  <2>4. SameBlock(p, at, q, at)
    BY <2>1, <2>2
  <2>5. transform(s[i], p, at) = transform(s[i], q, at)
    BY <2>4, TransformReads
  <2> QED
    BY <2>1, <2>3, <2>5
<1> HIDE DEF T
<1>3. Nat \subseteq T
  BY <1>1, <1>2, Induct
<1> QED
  BY <1>3 DEF T

LEMMA BlocksType ==
  ASSUME NEW h \in Registers, NEW p \in Seq(Byte), NEW n \in Nat, 64 * n <= Len(p)
  PROVE  WholeBlocks(h, p, n) \in Registers
<1>1. PICK s : Passes(s, h, p, n) /\ WholeBlocks(h, p, n) = s[n]
  BY WholeBlocksRun
<1>2. s[n] \in Registers
  BY <1>1, PassesType
<1> QED
  BY <1>1, <1>2

LEMMA BlocksNone ==
  ASSUME NEW h \in Registers, NEW p \in Seq(Byte)
  PROVE  WholeBlocks(h, p, 0) = h
<1>1. PICK n \in Nat : n = 0 /\ 64 * n <= Len(p)
  BY LenProperties
<1>2. PICK s : Passes(s, h, p, n) /\ WholeBlocks(h, p, n) = s[n]
  BY <1>1, WholeBlocksRun
<1> QED
  BY <1>1, <1>2 DEF Passes

LEMMA BlocksNext ==
  ASSUME NEW h \in Registers, NEW p \in Seq(Byte), NEW n \in Nat, 64 * n + 64 <= Len(p)
  PROVE  WholeBlocks(h, p, n + 1) = transform(WholeBlocks(h, p, n), p, 64 * n)
<1>0. Len(p) \in Nat
  BY LenProperties
<1>1. PICK m \in Nat : m = n + 1 /\ 64 * m <= Len(p) /\ 64 * n <= Len(p)
  BY <1>0
<1>2. PICK s : Passes(s, h, p, m) /\ WholeBlocks(h, p, m) = s[m]
  BY <1>1, WholeBlocksRun
<1>3. PICK t : Passes(t, h, p, n) /\ WholeBlocks(h, p, n) = t[n]
  BY <1>1, WholeBlocksRun
<1>4. Passes(s, h, p, n)
  <2>1. \A i \in 1 .. n : i \in 1 .. m
    BY <1>1
  <2> QED
    BY <1>2, <2>1 DEF Passes
<1>5. \A i \in 1 .. n : SameBlock(p, 64 * (i - 1), p, 64 * (i - 1))
  BY DEF SameBlock
<1>6. s[n] = t[n]
  BY <1>3, <1>4, <1>5, PassesUnique
<1>7. s[m] = transform(s[n], p, 64 * n)
  <2>1. m \in 1 .. m /\ m - 1 = n
    BY <1>1
  <2> QED
    BY <1>2, <2>1 DEF Passes
<1> QED
  BY <1>1, <1>2, <1>3, <1>6, <1>7

\* Only the bytes of the blocks count.
LEMMA BlocksFront ==
  ASSUME NEW h \in Registers, NEW n \in Nat, NEW p \in Seq(Byte), 64 * n <= Len(p),
         NEW q \in Seq(Byte), 64 * n <= Len(q), \A j \in 1 .. 64 * n : p[j] = q[j]
  PROVE  WholeBlocks(h, p, n) = WholeBlocks(h, q, n)
<1>1. PICK s : Passes(s, h, p, n) /\ WholeBlocks(h, p, n) = s[n]
  BY WholeBlocksRun
<1>2. PICK t : Passes(t, h, q, n) /\ WholeBlocks(h, q, n) = t[n]
  BY WholeBlocksRun
<1>3. ASSUME NEW i \in 1 .. n PROVE SameBlock(p, 64 * (i - 1), q, 64 * (i - 1))
  <2>1. PICK at \in Nat : at = 64 * (i - 1) /\ at + 64 <= 64 * n
    <3>1. 64 * i <= 64 * n /\ 64 * (i - 1) = 64 * i - 64
      OBVIOUS
    <3> QED
      BY <3>1
  <2>2. \A j \in 1 .. 64 : at + j \in 1 .. 64 * n
    BY <2>1
  <2>3. SameBlock(p, at, q, at)
    BY <2>2 DEF SameBlock
  <2> QED
    BY <2>1, <2>3
<1>4. s[n] = t[n]
  BY <1>1, <1>2, <1>3, PassesUnique, SMTT(60)
<1> QED
  BY <1>1, <1>2, <1>4

\* r begins with the first a blocks of p and goes on with b blocks of q.
Spliced(r, p, a, q, b) ==
  /\ \A j \in 1 .. 64 * a : r[j] = p[j]
  /\ \A j \in 1 .. 64 * b : r[64 * a + j] = q[j]

LEMMA BlocksJoin ==
  ASSUME NEW h \in Registers, NEW a \in Nat, NEW b \in Nat,
         NEW p \in Seq(Byte), 64 * a <= Len(p), NEW q \in Seq(Byte), 64 * b <= Len(q),
         NEW r \in Seq(Byte), 64 * (a + b) <= Len(r), Spliced(r, p, a, q, b)
  PROVE  WholeBlocks(WholeBlocks(h, p, a), q, b) = WholeBlocks(h, r, a + b)
<1> DEFINE T == {n \in Nat : n <= b =>
                   WholeBlocks(WholeBlocks(h, p, a), q, n) = WholeBlocks(h, r, a + n)}
<1>1. Len(p) \in Nat /\ Len(q) \in Nat /\ Len(r) \in Nat
  BY LenProperties
<1>2. PICK g \in Registers : g = WholeBlocks(h, p, a)
  BY BlocksType
<1>3. 0 \in T
  <2>1. 64 * a <= Len(r)
    BY <1>1
  <2>2. WholeBlocks(h, p, a) = WholeBlocks(h, r, a)
    BY <2>1, BlocksFront DEF Spliced
  <2>3. WholeBlocks(g, q, 0) = g /\ a + 0 = a
    BY BlocksNone
  <2> QED
    BY <1>2, <2>2, <2>3
<1>4. ASSUME NEW n \in Nat, n \in T PROVE n + 1 \in T
  <2> SUFFICES ASSUME n + 1 <= b
               PROVE  WholeBlocks(WholeBlocks(h, p, a), q, n + 1) = WholeBlocks(h, r, a + (n + 1))
    OBVIOUS
  <2>1. WholeBlocks(g, q, n) = WholeBlocks(h, r, a + n)
    BY <1>2, <1>4
  <2> HIDE DEF T
  <2>2. PICK m \in Nat, at \in Nat, to \in Nat :
          /\ m = a + n /\ at = 64 * n /\ to = 64 * m /\ to = 64 * a + at
          /\ at + 64 <= 64 * b /\ a + (n + 1) = m + 1
    <3>1. 64 * (n + 1) <= 64 * b /\ 64 * (n + 1) = 64 * n + 64
      OBVIOUS
    <3>2. 64 * (a + n) = 64 * a + 64 * n
      OBVIOUS
    <3> QED
      BY <3>1, <3>2
  <2>3. at + 64 <= Len(q) /\ to + 64 <= Len(r)
    <3>1. 64 * (a + b) = 64 * a + 64 * b
      OBVIOUS
    <3> QED
      BY <1>1, <2>2, <3>1
  <2>4. WholeBlocks(g, q, n + 1) = transform(WholeBlocks(g, q, n), q, at)
    BY <2>2, <2>3, BlocksNext
  <2>5. WholeBlocks(h, r, m + 1) = transform(WholeBlocks(h, r, m), r, to)
    BY <2>2, <2>3, BlocksNext
  <2>6. SameBlock(r, to, q, at)
    <3> SUFFICES ASSUME NEW j \in 1 .. 64 PROVE r[to + j] = q[at + j]
      BY DEF SameBlock
    <3>1. PICK i \in 1 .. 64 * b : i = at + j /\ 64 * a + i = to + j
      BY <2>2
    <3> QED
      BY <3>1 DEF Spliced
  <2>7. transform(WholeBlocks(h, r, m), r, to) = transform(WholeBlocks(h, r, m), q, at)
    BY <2>6, TransformReads
  <2> QED
    BY ONLY <1>2, <2>1, <2>2, <2>4, <2>5, <2>7
<1> HIDE DEF T
<1>5. Nat \subseteq T
  BY <1>3, <1>4, Induct
<1> QED
  BY <1>5 DEF T

-----------------------------------------------------------------------------
(* SHA-256: the context of a computation.                                  *)

Buffers == {b \in Seq(Byte) : Len(b) = 64}
Contexts == [state : Registers, total_size : Nat, buffer_size : 0 .. 63, buffer : Buffers]

LEMMA CopiedIs ==
  ASSUME NEW b \in Buffers, NEW from \in Nat, NEW p \in Seq(Byte), from + Len(p) <= 64
  PROVE  /\ Copied(b, from, p) \in Buffers
         /\ \A j \in 1 .. from : Copied(b, from, p)[j] = b[j]
         /\ \A j \in 1 .. Len(p) : Copied(b, from, p)[from + j] = p[j]
<1>0. b \in Seq(Byte) /\ Len(b) = 64 /\ Len(p) \in Nat
  BY LenProperties DEF Buffers
<1> DEFINE f == Copied(b, from, p)
<1>1. f = [i \in 1 .. 64 |-> IF i > from /\ i <= from + Len(p) THEN p[i - from] ELSE b[i]]
  BY DEF Copied
<1> HIDE DEF f
<1>2. \A i \in 1 .. 64 : f[i] = IF i > from /\ i <= from + Len(p) THEN p[i - from] ELSE b[i]
  BY ONLY <1>1
<1>3. ASSUME NEW i \in 1 .. 64 PROVE f[i] \in Byte
  <2>1. CASE i > from /\ i <= from + Len(p)
    <3>1. PICK j \in 1 .. Len(p) : j = i - from
      BY <1>0, <2>1
    <3>2. p[j] \in Byte
      BY ElementOfSeq
    <3> QED
      BY <1>2, <2>1, <3>1, <3>2
  <2>2. CASE ~(i > from /\ i <= from + Len(p))
    <3>1. b[i] \in Byte
      BY <1>0, ElementOfSeq, ZenonT(60)
    <3> QED
      BY <1>2, <2>2, <3>1
  <2> QED
    BY <2>1, <2>2
<1>4. f = [i \in 1 .. 64 |-> f[i]]
  BY ONLY <1>1
<1>5. f \in Seq(Byte) /\ Len(f) = 64
  <2>1. f \in Seq(Byte)
    BY <1>3, <1>4, IsASeq
  <2>2. DOMAIN f = 1 .. 64
    BY ONLY <1>1
  <2> QED
    BY <2>1, <2>2, LenProperties
<1>6. \A j \in 1 .. from : f[j] = b[j]
  <2> SUFFICES ASSUME NEW j \in 1 .. from PROVE f[j] = b[j]
    OBVIOUS
  <2>1. j \in 1 .. 64 /\ ~(j > from)
    BY <1>0
  <2> QED
    BY <1>2, <2>1
<1>7. \A j \in 1 .. Len(p) : f[from + j] = p[j]
  <2> SUFFICES ASSUME NEW j \in 1 .. Len(p) PROVE f[from + j] = p[j]
    OBVIOUS
  <2>1. /\ from + j \in 1 .. 64 /\ from + j > from /\ from + j <= from + Len(p)
        /\ (from + j) - from = j
    BY <1>0
  <2> QED
    BY <1>2, <2>1
<1>8. f \in Buffers
  BY <1>5 DEF Buffers
<1> QED
  BY <1>6, <1>7, <1>8 DEF f

\* c stands where the standard is after m: the first q blocks are hashed, and
\* the buffer holds the rest.
Holding(c, m, q) ==
  /\ c.state = WholeBlocks(initial, m, q)
  /\ Len(m) = 64 * q + c.buffer_size
  /\ \A j \in 1 .. c.buffer_size : c.buffer[j] = m[64 * q + j]

LEMMA FreshHolds ==
  sha256_init \in Contexts /\ sha256_init.total_size = 0 /\ Holding(sha256_init, << >>, 0)
<1>1. Zeros(64) \in Buffers
  <2>1. PICK n \in Nat : n = 64
    OBVIOUS
  <2>2. Zeros(n) \in Seq(Byte) /\ DOMAIN Zeros(n) = 1 .. n
    BY IsASeq DEF Zeros, Byte
  <2> QED
    BY <2>1, <2>2, LenProperties DEF Buffers
<1>2. sha256_init = [state |-> initial, total_size |-> 0, buffer_size |-> 0, buffer |-> Zeros(64)]
  BY DEF sha256_init
<1>3. initial \in Registers /\ << >> \in Seq(Byte) /\ Len(<< >>) = 0
  BY InitialType
<1>4. WholeBlocks(initial, << >>, 0) = initial
  BY <1>3, BlocksNone
<1>5. sha256_init \in Contexts
  BY <1>1, <1>2, <1>3 DEF Contexts
<1>6. /\ sha256_init.state = initial /\ sha256_init.total_size = 0
      /\ sha256_init.buffer_size = 0
  BY <1>2
<1> QED
  BY <1>3, <1>4, <1>5, <1>6 DEF Holding

LEMMA FilledHolds ==
  ASSUME NEW c \in Contexts, NEW m \in Seq(Byte), NEW q \in Nat, Holding(c, m, q),
         NEW p \in Seq(Byte), NEW n \in Nat, n <= Len(p), c.buffer_size + n <= 64
  PROVE  /\ Filled(c, p, n) \in Contexts
         /\ Filled(c, p, n).total_size = c.total_size
         /\ \E r \in Nat : Holding(Filled(c, p, n), m \o SubSeq(p, 1, n), r)
         /\ c.buffer_size + n = 64 => Filled(c, p, n).buffer_size = 0
         /\ c.buffer_size + n < 64 => Filled(c, p, n).buffer_size = c.buffer_size + n
<1> DEFINE F == Filled(c, p, n)
<1>1. PICK piece \in Seq(Byte) : piece = SubSeq(p, 1, n) /\ Len(piece) = n
  <2>1. n \in 0 .. Len(p)
    BY LenProperties
  <2>2. SubSeq(p, 1, n) \in Seq(Byte) /\ Len(SubSeq(p, 1, n)) = n
    BY ONLY p \in Seq(Byte), <2>1, Behind
  <2> QED
    BY ONLY <2>2
<1>2. PICK from \in 0 .. 63 : from = c.buffer_size
  BY DEF Contexts
<1>3. c.buffer \in Buffers /\ c.state \in Registers /\ c.total_size \in Nat
  BY DEF Contexts
<1>4. PICK full \in Buffers : /\ full = Copied(c.buffer, from, piece)
                              /\ \A j \in 1 .. from : full[j] = c.buffer[j]
                              /\ \A j \in 1 .. n : full[from + j] = piece[j]
  <2>1. from \in Nat /\ from + Len(piece) <= 64
    <3>1. Len(piece) = n /\ from + n <= 64
      BY ONLY <1>1, <1>2, c.buffer_size + n <= 64
    <3> QED
      BY ONLY <3>1, from \in 0 .. 63
  <2>2. /\ Copied(c.buffer, from, piece) \in Buffers
        /\ \A j \in 1 .. from : Copied(c.buffer, from, piece)[j] = c.buffer[j]
        /\ \A j \in 1 .. Len(piece) : Copied(c.buffer, from, piece)[from + j] = piece[j]
    BY ONLY <1>3, <2>1, piece \in Seq(Byte), CopiedIs
  <2> QED
    BY ONLY <1>1, <2>2
<1>5. PICK M \in Seq(Byte) :
        /\ M = m \o piece /\ Len(M) = Len(m) + n
        /\ \A i \in 1 .. Len(m) + n : M[i] = IF i <= Len(m) THEN m[i] ELSE piece[i - Len(m)]
  <2>1. /\ m \o piece \in Seq(Byte) /\ Len(m \o piece) = Len(m) + Len(piece)
        /\ \A i \in 1 .. Len(m) + Len(piece) :
             (m \o piece)[i] = IF i <= Len(m) THEN m[i] ELSE piece[i - Len(m)]
    BY ONLY m \in Seq(Byte), piece \in Seq(Byte), ConcatProperties
  <2> QED
    BY ONLY <1>1, <2>1
<1>6. Len(m) = 64 * q + from /\ Len(m) \in Nat
  BY <1>2, LenProperties DEF Holding
<1>7. \A i \in 1 .. 64 * q : M[i] = m[i]
  <2> SUFFICES ASSUME NEW i \in 1 .. 64 * q PROVE M[i] = m[i]
    OBVIOUS
  <2>1. i \in 1 .. Len(m) + n /\ i <= Len(m)
    BY <1>6
  <2> QED
    BY ONLY <1>5, <2>1
<1>8. \A j \in 1 .. from : M[64 * q + j] = full[j]
  <2> SUFFICES ASSUME NEW j \in 1 .. from PROVE M[64 * q + j] = full[j]
    OBVIOUS
  <2>1. 64 * q + j \in 1 .. Len(m) + n /\ 64 * q + j <= Len(m)
    BY <1>6
  <2>2. c.buffer[j] = m[64 * q + j]
    BY <1>2 DEF Holding
  <2> QED
    BY <1>4, <1>5, <2>1, <2>2
<1>9. \A j \in 1 .. n : M[64 * q + (from + j)] = full[from + j]
  <2> SUFFICES ASSUME NEW j \in 1 .. n PROVE M[64 * q + (from + j)] = full[from + j]
    OBVIOUS
  <2>1. /\ 64 * q + (from + j) \in 1 .. Len(m) + n /\ ~(64 * q + (from + j) <= Len(m))
        /\ (64 * q + (from + j)) - Len(m) = j
    BY <1>6
  <2> QED
    BY <1>4, <1>5, <2>1, SMTT(60)
<1>10. \A j \in 1 .. from + n : M[64 * q + j] = full[j]
  <2> SUFFICES ASSUME NEW j \in 1 .. from + n PROVE M[64 * q + j] = full[j]
    OBVIOUS
  <2>1. CASE j <= from
    BY <1>8, <2>1
  <2>2. CASE j > from
    <3>1. PICK i \in 1 .. n : i = j - from /\ from + i = j
      BY <2>2
    <3> QED
      BY <1>9, <3>1
  <2> QED
    BY ONLY j \in 1 .. from + n, from \in 0 .. 63, n \in Nat, <2>1, <2>2
<1>11. WholeBlocks(initial, M, q) = c.state
  <2>1. 64 * q <= Len(m) /\ 64 * q <= Len(M)
    BY <1>5, <1>6
  <2>2. WholeBlocks(initial, M, q) = WholeBlocks(initial, m, q)
    BY <1>7, <2>1, InitialType, BlocksFront
  <2> QED
    BY <2>2 DEF Holding
<1>12. F = [c EXCEPT !.buffer = full,
                     !.buffer_size = IF from + n = 64 THEN 0 ELSE from + n,
                     !.state = IF from + n = 64 THEN transform(@, full, 0) ELSE @]
  BY <1>1, <1>2, <1>4 DEF Filled, BLOCK_SIZE
<1> HIDE DEF F
<1>13. CASE from + n = 64
  <2>1. PICK state : state = transform(c.state, full, 0)
    OBVIOUS
  <2>2. F = [c EXCEPT !.buffer = full, !.buffer_size = 0, !.state = state]
    BY ONLY <1>12, <1>13, <2>1
  <2>3. F = [state |-> state, total_size |-> c.total_size, buffer_size |-> 0, buffer |-> full]
    BY ONLY <2>2, c \in Contexts DEF Contexts
  <2>4. F.state = state /\ F.total_size = c.total_size /\ F.buffer_size = 0 /\ F.buffer = full
    BY ONLY <2>3
  <2>5. SameBlock(M, 64 * q, full, 0)
    BY <1>10, <1>13 DEF SameBlock
  <2>6. PICK at \in Nat : at = 64 * q /\ at + 64 <= Len(M)
    BY <1>5, <1>6, <1>13
  <2>7. transform(c.state, M, at) = transform(c.state, full, 0)
    BY <2>5, <2>6, TransformReads
  <2>8. state = WholeBlocks(initial, M, q + 1)
    <3>1. WholeBlocks(initial, M, q + 1) = transform(WholeBlocks(initial, M, q), M, 64 * q)
      BY <2>6, InitialType, BlocksNext
    <3> QED
      BY ONLY <3>1, <1>11, <2>1, <2>6, <2>7
  <2>9. state \in Registers
    BY <1>3, <2>1, <2>6, <2>7, TransformType
  <2>10. F \in Contexts
    BY <1>3, <1>4, <2>3, <2>9 DEF Contexts
  <2>11. Len(M) = 64 * (q + 1) + 0
    BY <1>5, <1>6, <1>13
  <2>12. Holding(F, M, q + 1)
    BY ONLY <2>4, <2>8, <2>11 DEF Holding
  <2> QED
    BY <1>1, <1>2, <1>5, <1>13, <2>4, <2>10, <2>12 DEF F
<1>14. CASE from + n < 64
  <2>1. PICK size \in 0 .. 63 : size = from + n
    BY <1>14
  <2>8. ~(from + n = 64)
    BY ONLY <1>14, from \in 0 .. 63, n \in Nat
  <2>2. F = [c EXCEPT !.buffer = full, !.buffer_size = size, !.state = @]
    BY ONLY <1>12, <2>1, <2>8
  <2>3. F = [state |-> c.state, total_size |-> c.total_size, buffer_size |-> size, buffer |-> full]
    BY ONLY <2>2, c \in Contexts DEF Contexts
  <2>4. F.state = c.state /\ F.total_size = c.total_size /\ F.buffer_size = size /\ F.buffer = full
    BY ONLY <2>3
  <2>5. F \in Contexts
    BY <1>3, <1>4, <2>3 DEF Contexts
  <2>6. Len(M) = 64 * q + size
    BY <1>5, <1>6, <2>1
  <2>7. Holding(F, M, q)
    BY ONLY <1>10, <1>11, <2>1, <2>4, <2>6 DEF Holding
  <2> QED
    BY <1>1, <1>2, <1>5, <1>14, <2>1, <2>4, <2>5, <2>7 DEF F
<1> QED
  BY <1>2, <1>13, <1>14

LEMMA AbsorbedHolds ==
  ASSUME NEW c \in Contexts, NEW m \in Seq(Byte), NEW q \in Nat, Holding(c, m, q),
         NEW p \in Seq(Byte), c.buffer_size = 0 \/ p = << >>
  PROVE  /\ Absorbed(c, p) \in Contexts
         /\ Absorbed(c, p).total_size = c.total_size
         /\ \E r \in Nat : Holding(Absorbed(c, p), m \o p, r)
<1> DEFINE A == Absorbed(c, p)
<1>1. c.buffer \in Buffers /\ c.state \in Registers /\ c.total_size \in Nat /\ c.buffer_size \in 0 .. 63
  BY DEF Contexts
<1>2. Len(p) \in Nat /\ Len(m) \in Nat
  BY LenProperties
<1>3. PICK b \in Nat, left \in 0 .. 63 : b = Len(p) \div 64 /\ Len(p) = 64 * b + left
  <2>1. PICK l \in Nat : l = Len(p)
    BY ONLY <1>2
  <2>2. l \div 64 \in Nat /\ l % 64 \in 0 .. 63 /\ l = 64 * (l \div 64) + (l % 64)
    BY ONLY l \in Nat
  <2> QED
    BY ONLY <2>1, <2>2
<1>4. PICK rest \in Seq(Byte) : /\ rest = SubSeq(p, 64 * b + 1, Len(p)) /\ Len(rest) = left
                                /\ \A j \in 1 .. left : rest[j] = p[64 * b + j]
  <2>1. PICK at \in 0 .. Len(p) : at = 64 * b /\ Len(p) - at = left
    BY <1>3
  <2>2. /\ SubSeq(p, at + 1, Len(p)) \in Seq(Byte)
        /\ Len(SubSeq(p, at + 1, Len(p))) = Len(p) - at
        /\ \A i \in 1 .. Len(p) - at : SubSeq(p, at + 1, Len(p))[i] = p[at + i]
    BY ONLY p \in Seq(Byte), at \in 0 .. Len(p), Behind
  <2> QED
    BY ONLY <2>1, <2>2
<1>14. Len(p) = 64 * b + left
  BY ONLY <1>3
<1>15. Len(rest) = left /\ \A j \in 1 .. left : rest[j] = p[64 * b + j]
  BY ONLY <1>4
<1>5. PICK state : state = WholeBlocks(c.state, p, b)
  OBVIOUS
<1>6. [c EXCEPT !.state = WholeBlocks(@, p, b)]
        = [state |-> state, total_size |-> c.total_size, buffer_size |-> c.buffer_size,
           buffer |-> c.buffer]
  BY ONLY <1>5, c \in Contexts DEF Contexts
<1>7. PICK c1 : /\ c1 = [c EXCEPT !.state = WholeBlocks(@, p, b)]
                /\ c1.state = state /\ c1.total_size = c.total_size
                /\ c1.buffer_size = c.buffer_size /\ c1.buffer = c.buffer
                /\ c1 = [state |-> state, total_size |-> c.total_size,
                         buffer_size |-> c.buffer_size, buffer |-> c.buffer]
  BY ONLY <1>6
<1>8. state \in Registers
  BY <1>1, <1>2, <1>3, <1>5, BlocksType
<1>9. c1 \in Contexts
  BY ONLY <1>1, <1>7, <1>8 DEF Contexts
<1>10. A = IF rest = << >> THEN c1
           ELSE [c1 EXCEPT !.buffer = Copied(@, 0, rest), !.buffer_size = Len(rest)]
  BY ONLY <1>3, <1>4, <1>7, ZenonT(60) DEF Absorbed, BLOCK_SIZE
<1> HIDE DEF A
<1>11. PICK M \in Seq(Byte) :
         /\ M = m \o p /\ Len(M) = Len(m) + Len(p)
         /\ \A i \in 1 .. Len(m) + Len(p) : M[i] = IF i <= Len(m) THEN m[i] ELSE p[i - Len(m)]
  <2>1. /\ m \o p \in Seq(Byte) /\ Len(m \o p) = Len(m) + Len(p)
        /\ \A i \in 1 .. Len(m) + Len(p) :
             (m \o p)[i] = IF i <= Len(m) THEN m[i] ELSE p[i - Len(m)]
    BY ONLY m \in Seq(Byte), p \in Seq(Byte), ConcatProperties
  <2> QED
    BY ONLY <2>1
<1>16. Len(M) = Len(m) + Len(p)
  BY ONLY <1>11
<1>12. CASE p = << >>
  <2>7. Len(p) = 0
    BY ONLY <1>12
  <2>1. b = 0 /\ left = 0
    <3>1. 64 * b + left = 0
      BY ONLY <1>14, <2>7
    <3> QED
      BY ONLY <3>1, b \in Nat, left \in 0 .. 63
  <2>2. rest = << >>
    BY ONLY <1>4, <2>1, rest \in Seq(Byte), EmptySeq
  <2>3. M = m
    BY ONLY <1>11, <1>12, m \in Seq(Byte), ConcatEmptySeq
  <2>4. state = c.state
    BY <1>1, <1>5, <2>1, BlocksNone
  <2>5. A = c1
    BY ONLY <1>10, <2>2
  <2>6. Holding(A, M, q)
    BY ONLY Holding(c, m, q), <1>7, <2>3, <2>4, <2>5 DEF Holding
  <2> QED
    BY ONLY <1>7, <1>9, <1>11, <2>5, <2>6, q \in Nat DEF A
<1>13. CASE c.buffer_size = 0
  <2>1. Len(m) = 64 * q
    BY ONLY Holding(c, m, q), <1>13, q \in Nat DEF Holding
  <2>2. ASSUME NEW j \in 1 .. Len(p) PROVE M[64 * q + j] = p[j]
    <3>1. /\ 64 * q + j \in 1 .. Len(m) + Len(p) /\ ~(64 * q + j <= Len(m))
          /\ (64 * q + j) - Len(m) = j
      BY ONLY <1>2, <2>1, q \in Nat, j \in 1 .. Len(p)
    <3> QED
      BY ONLY <1>11, <3>1
  <2>3. ASSUME NEW i \in 1 .. 64 * q PROVE M[i] = m[i]
    <3>1. i \in 1 .. Len(m) + Len(p) /\ i <= Len(m)
      BY ONLY <1>2, <2>1, q \in Nat, i \in 1 .. 64 * q
    <3> QED
      BY ONLY <1>11, <3>1
  <2>4. state = WholeBlocks(initial, M, q + b)
    <3>1. /\ 64 * q <= Len(m) /\ 64 * b <= Len(p) /\ 64 * (q + b) <= Len(M)
      BY ONLY <1>2, <1>14, <1>16, <2>1, q \in Nat, b \in Nat, left \in 0 .. 63
    <3>2. \A j \in 1 .. 64 * b : M[64 * q + j] = p[j]
      <4>1. \A j \in 1 .. 64 * b : j \in 1 .. Len(p)
        BY ONLY <1>2, <3>1, b \in Nat
      <4> QED
        BY ONLY <2>2, <4>1
    <3>3. WholeBlocks(WholeBlocks(initial, m, q), p, b) = WholeBlocks(initial, M, q + b)
      <4>1. Spliced(M, m, q, p, b)
        BY ONLY <2>3, <3>2 DEF Spliced
      <4> QED
        BY ONLY <3>1, <4>1, InitialType, q \in Nat, b \in Nat, m \in Seq(Byte),
                p \in Seq(Byte), M \in Seq(Byte), BlocksJoin
    <3> QED
      BY ONLY <1>5, <3>3, Holding(c, m, q) DEF Holding
  <2>5. Len(M) = 64 * (q + b) + left
    BY ONLY <1>2, <1>14, <1>16, <2>1, q \in Nat, b \in Nat, left \in 0 .. 63
  <2>6. ASSUME NEW j \in 1 .. left PROVE M[64 * (q + b) + j] = rest[j]
    <3>1. PICK i \in 1 .. Len(p) : i = 64 * b + j /\ 64 * (q + b) + j = 64 * q + i
      <4>1. /\ 64 * b + j \in 1 .. Len(p)
            /\ 64 * (q + b) + j = 64 * q + (64 * b + j)
        BY ONLY <1>14, j \in 1 .. left, q \in Nat, b \in Nat, left \in 0 .. 63
      <4> QED
        BY ONLY <4>1
    <3> QED
      BY ONLY <1>15, <2>2, <3>1, j \in 1 .. left, ZenonT(60)
  <2>7. CASE rest = << >>
    <3>1. A = c1 /\ left = 0
      BY ONLY <1>15, <1>10, <2>7, EmptySeq
    <3>2. Holding(A, M, q + b)
      BY ONLY <1>7, <1>13, <2>4, <2>5, <3>1, <2>6 DEF Holding
    <3> QED
      <4>1. q + b \in Nat
        BY ONLY q \in Nat, b \in Nat
      <4> QED
        BY ONLY <1>7, <1>9, <1>11, <3>1, <3>2, <4>1 DEF A
  <2>8. CASE rest # << >>
    <3>1. PICK full \in Buffers : /\ full = Copied(c.buffer, 0, rest)
                                  /\ \A j \in 1 .. left : full[j] = rest[j]
      <4>1. PICK from \in Nat : from = 0 /\ from + Len(rest) <= 64
        <5>1. Len(rest) = left
          BY ONLY <1>15
        <5> QED
          BY ONLY <5>1, left \in 0 .. 63
      <4>2. /\ Copied(c.buffer, from, rest) \in Buffers
            /\ \A j \in 1 .. Len(rest) : Copied(c.buffer, from, rest)[from + j] = rest[j]
        BY ONLY <1>1, <4>1, rest \in Seq(Byte), CopiedIs
      <4>3. \A j \in 1 .. left : from + j = j
        BY ONLY <4>1
      <4>4. \A j \in 1 .. left : Copied(c.buffer, from, rest)[j] = rest[j]
        BY ONLY <1>15, <4>2, <4>3
      <4>5. Copied(c.buffer, 0, rest) \in Buffers /\ from = 0
        BY ONLY <4>1, <4>2
      <4> QED
        BY ONLY <4>4, <4>5
    <3>2. A = [c1 EXCEPT !.buffer = full, !.buffer_size = left]
      BY ONLY <1>4, <1>7, <1>10, <2>8, <3>1
    <3>3. A = [state |-> state, total_size |-> c.total_size, buffer_size |-> left, buffer |-> full]
      BY ONLY <1>7, <3>2
    <3>4. A.state = state /\ A.total_size = c.total_size /\ A.buffer_size = left /\ A.buffer = full
      BY ONLY <3>3
    <3>5. A \in Contexts
      BY ONLY <1>1, <1>8, <3>3, full \in Buffers, left \in 0 .. 63 DEF Contexts
    <3>6. Holding(A, M, q + b)
      BY ONLY <2>4, <2>5, <2>6, <3>1, <3>4 DEF Holding
    <3> QED
      BY <1>11, <3>4, <3>5, <3>6 DEF A
  <2> QED
    BY <2>7, <2>8
<1> QED
  BY <1>12, <1>13

\* The context after m.
After(c, m) ==
  c \in Contexts /\ c.total_size = Len(m) /\ \E q \in Nat : Holding(c, m, q)

LEMMA UpdateAfter ==
  ASSUME NEW c, NEW m \in Seq(Byte), After(c, m), NEW p \in Seq(Byte)
  PROVE  After(sha256_update(c, p), m \o p)
<1> DEFINE size == Len(p)
           free == 64 - c.buffer_size
           n == IF c.buffer_size = 0 THEN 0 ELSE IF free > size THEN size ELSE free
           counted == [c EXCEPT !.total_size = @ + size]
<1>1. c \in Contexts /\ size \in Nat /\ Len(m) \in Nat /\ c.buffer_size \in 0 .. 63
  BY LenProperties DEF After, Contexts
<1>2. PICK q \in Nat : Holding(c, m, q)
  BY DEF After
<1>3. PICK d : d = counted
  OBVIOUS
<1>4. d = [state |-> c.state, total_size |-> c.total_size + size,
           buffer_size |-> c.buffer_size, buffer |-> c.buffer]
  BY ONLY <1>1, <1>3 DEF Contexts
<1>5. /\ d.state = c.state /\ d.total_size = c.total_size + size
      /\ d.buffer_size = c.buffer_size /\ d.buffer = c.buffer
  BY ONLY <1>4
<1>6. d \in Contexts
  BY ONLY <1>1, <1>4 DEF Contexts
<1>7. Holding(d, m, q)
  BY ONLY <1>2, <1>5 DEF Holding
<1>8. PICK k0 \in Nat : /\ k0 = n /\ k0 <= size /\ d.buffer_size + k0 <= 64
                        /\ k0 = size \/ d.buffer_size + k0 = 64 \/ (d.buffer_size = 0 /\ k0 = 0)
  <2>1. PICK a \in 0 .. 63, l \in Nat : a = c.buffer_size /\ l = size
    BY ONLY <1>1
  <2>2. PICK x : x = n
    OBVIOUS
  <2>3. x = IF a = 0 THEN 0 ELSE IF 64 - a > l THEN l ELSE 64 - a
    BY ONLY <2>1, <2>2
  <2>4. /\ x \in Nat /\ x <= l /\ a + x <= 64
        /\ x = l \/ a + x = 64 \/ (a = 0 /\ x = 0)
    BY ONLY <2>3, a \in 0 .. 63, l \in Nat
  <2> QED
    BY ONLY <1>5, <2>1, <2>2, <2>4
<1>9. sha256_update(c, p) = Absorbed(Filled(d, p, k0), SubSeq(p, k0 + 1, size))
  BY ONLY <1>3, <1>8 DEF sha256_update, BLOCK_SIZE
<1> HIDE DEF size, n
<1>10. PICK f : f = Filled(d, p, k0)
  OBVIOUS
<1>11. /\ f \in Contexts /\ f.total_size = d.total_size
       /\ d.buffer_size + k0 = 64 => f.buffer_size = 0
       /\ d.buffer_size + k0 < 64 => f.buffer_size = d.buffer_size + k0
  BY <1>6, <1>7, <1>8, <1>10, FilledHolds DEF size
<1>12. PICK r \in Nat : Holding(f, m \o SubSeq(p, 1, k0), r)
  BY <1>6, <1>7, <1>8, <1>10, FilledHolds DEF size
<1>13. PICK u \in Seq(Byte), v \in Seq(Byte) :
         /\ u = SubSeq(p, 1, k0) /\ v = SubSeq(p, k0 + 1, size) /\ u \o v = p
         /\ Len(v) = size - k0
  <2>1. k0 \in 0 .. Len(p)
    BY ONLY <1>1, <1>8 DEF size
  <2>2. /\ SubSeq(p, 1, k0) \in Seq(Byte) /\ SubSeq(p, k0 + 1, Len(p)) \in Seq(Byte)
        /\ Len(SubSeq(p, k0 + 1, Len(p))) = Len(p) - k0
        /\ SubSeq(p, 1, k0) \o SubSeq(p, k0 + 1, Len(p)) = p
    BY ONLY p \in Seq(Byte), <2>1, Behind
  <2> QED
    BY ONLY <2>2 DEF size
<1>14. f.buffer_size = 0 \/ v = << >>
  <2>1. CASE k0 = size
    BY ONLY <1>1, <1>13, <2>1, v \in Seq(Byte), EmptySeq
  <2>2. CASE d.buffer_size + k0 = 64
    BY <1>11, <2>2
  <2>3. CASE d.buffer_size = 0 /\ k0 = 0
    BY <1>11, <2>3
  <2> QED
    BY <1>8, <2>1, <2>2, <2>3
<1>15. PICK x \in Seq(Byte) : x = m \o u /\ x \o v = m \o p
  <2>1. m \o u \in Seq(Byte)
    BY ONLY m \in Seq(Byte), u \in Seq(Byte), ConcatProperties
  <2>2. (m \o u) \o v = m \o (u \o v)
    BY ONLY m \in Seq(Byte), u \in Seq(Byte), v \in Seq(Byte), JoinAssociates, SMTT(60) DEF Associates
  <2> QED
    BY ONLY <1>13, <2>1, <2>2
<1>16. Holding(f, x, r)
  BY ONLY <1>12, <1>13, <1>15
<1>17. PICK a : a = Absorbed(f, v)
  OBVIOUS
<1>18. /\ a \in Contexts /\ a.total_size = f.total_size
       /\ \E s \in Nat : Holding(a, x \o v, s)
  BY ONLY <1>11, <1>14, <1>16, <1>17, x \in Seq(Byte), v \in Seq(Byte), r \in Nat, AbsorbedHolds
<1>19. a = sha256_update(c, p)
  BY ONLY <1>9, <1>10, <1>13, <1>17
<1>20. Len(m \o p) = Len(m) + size
  BY ONLY m \in Seq(Byte), p \in Seq(Byte), ConcatProperties DEF size
<1>21. a.total_size = Len(m \o p)
  BY ONLY After(c, m), <1>5, <1>11, <1>18, <1>20 DEF After
<1> QED
  BY ONLY <1>15, <1>18, <1>19, <1>21 DEF After

-----------------------------------------------------------------------------
(* SHA-256: the padding.                                                   *)

LEMMA ZerosAre ==
  ASSUME NEW n \in Nat
  PROVE  Zeros(n) \in Seq(Byte) /\ Len(Zeros(n)) = n /\ \A j \in 1 .. n : Zeros(n)[j] = 0
<1>1. PICK z : z = Zeros(n)
  OBVIOUS
<1>2. z = [i \in 1 .. n |-> 0]
  BY <1>1 DEF Zeros
<1>3. DOMAIN z = 1 .. n /\ \A j \in 1 .. n : z[j] = 0
  BY ONLY <1>2
<1>4. 0 \in Byte
  BY DEF Byte
<1>5. z \in Seq(Byte)
  BY <1>2, <1>4, IsASeq
<1>6. Len(z) = n
  BY <1>3, <1>5, LenProperties
<1> QED
  BY ONLY <1>1, <1>3, <1>5, <1>6

LEMMA LengthBytes ==
  ASSUME NEW n \in Nat
  PROVE  store64(n) \in Seq(Byte) /\ Len(store64(n)) = 8
<1> DEFINE P(g) == g = [i \in 0 .. 7 |-> IF i = 0 THEN n ELSE g[i - 1] \div 256]
           F == [i \in 1 .. 7 |-> [x \in Nat |-> x \div 256]]
           s == CHOOSE g : P(g)
<1>1. PICK b : b = store64(n)
  OBVIOUS
<1>2. b = [i \in 1 .. 8 |-> s[8 - i] % 256]
  BY <1>1 DEF store64
<1>3. ASSUME NEW i \in 1 .. 7, NEW x \in Nat
      PROVE  F[i][x] = x \div 256 /\ F[i][x] \in Nat
  OBVIOUS
<1> HIDE DEF F
<1>4. IsSteps(F, Nat, 7)
  BY <1>3 DEF IsSteps
<1>5. PICK g : DefinedBy(g, F, n, 7)
  BY IterationExists
<1>6. Iterates(g, F, n, 7)
  BY <1>5, DefinedIterates
<1>7. \A i \in 0 .. 7 : g[i] \in Nat
  BY <1>4, <1>6, IterationType
<1>8. ASSUME NEW i \in 1 .. 7 PROVE F[i][g[i - 1]] = g[i - 1] \div 256
  <2>1. i - 1 \in 0 .. 7
    OBVIOUS
  <2> QED
    BY <2>1, <1>3, <1>7
<1>9. P(g)
  <2>1. \A i \in 0 .. 7 : i = 0 \/ i \in 1 .. 7
    OBVIOUS
  <2>2. \A i \in 0 .. 7 : (IF i = 0 THEN n ELSE F[i][g[i - 1]])
                            = (IF i = 0 THEN n ELSE g[i - 1] \div 256)
    BY <2>1, <1>8
  <2> QED
    BY ONLY <2>2, <1>5 DEF DefinedBy
<1> HIDE DEF P
<1>10. P(s)
  BY <1>9
<1> USE DEF P
<1> HIDE DEF s
<1>11. s[0] = n /\ \A i \in 1 .. 7 : s[i] = s[i - 1] \div 256
  BY <1>10
<1>12. \A i \in 0 .. 7 : s[i] \in Nat
  <2> DEFINE T == {i \in Nat : i <= 7 => s[i] \in Nat}
  <2>1. 0 \in T
    BY <1>11
  <2>2. ASSUME NEW i \in Nat, i \in T PROVE i + 1 \in T
    <3> SUFFICES ASSUME i + 1 <= 7 PROVE s[i + 1] \in Nat
      OBVIOUS
    <3>1. s[i] \in Nat /\ i + 1 \in 1 .. 7 /\ (i + 1) - 1 = i
      BY <2>2
    <3>2. s[i + 1] = s[i] \div 256
      BY <3>1, <1>11
    <3> QED
      BY <3>1, <3>2
  <2> HIDE DEF T
  <2>3. Nat \subseteq T
    BY <2>1, <2>2, Induct
  <2> QED
    BY <2>3 DEF T
<1>13. ASSUME NEW i \in 1 .. 8 PROVE s[8 - i] % 256 \in Byte
  <2>1. PICK x \in Nat : x = s[8 - i]
    BY <1>12
  <2>2. x % 256 \in Byte
    BY ONLY x \in Nat DEF Byte
  <2> QED
    BY <2>1, <2>2
<1>14. b \in Seq(Byte)
  BY <1>2, <1>13, IsASeq
<1>15. DOMAIN b = 1 .. 8
  BY ONLY <1>2
<1> QED
  BY <1>1, <1>14, <1>15, LenProperties

\* M is m, a bit, z bytes of zero, and the length.
PaddedBy(M, m, z) ==
  /\ Len(M) = Len(m) + z + 9
  /\ \A j \in 1 .. Len(m) : M[j] = m[j]
  /\ M[Len(m) + 1] = 128
  /\ \A j \in 1 .. z : M[Len(m) + 1 + j] = 0
  /\ \A j \in 1 .. 8 : M[Len(m) + 1 + z + j] = store64(8 * Len(m))[j]

LEMMA PaddedIs ==
  ASSUME NEW m \in Seq(Byte), NEW z \in Nat, z = (55 - Len(m)) % 64
  PROVE  Padded(m) \in Seq(Byte) /\ PaddedBy(Padded(m), m, z)
<1>1. PICK l \in Nat : l = Len(m)
  BY LenProperties
<1>2. PICK mark \in Seq(Byte) : mark = <<128>> /\ Len(mark) = 1 /\ mark[1] = 128
  <2>1. PICK x \in Byte : x = 128
    BY DEF Byte
  <2>2. <<x>> \in Seq(Byte) /\ Len(<<x>>) = 1 /\ <<x>>[1] = x
    BY ONLY x \in Byte
  <2> QED
    BY ONLY <2>1, <2>2, ZenonT(60)
<1>3. PICK fill \in Seq(Byte) : fill = Zeros(z) /\ Len(fill) = z /\ \A j \in 1 .. z : fill[j] = 0
  BY ONLY z \in Nat, ZerosAre
<1>4. PICK count8 \in Seq(Byte) : count8 = store64(8 * l) /\ Len(count8) = 8
  <2>1. 8 * l \in Nat
    BY ONLY l \in Nat
  <2> QED
    BY ONLY <2>1, LengthBytes
<1>5. Padded(m) = ((m \o mark) \o fill) \o count8
  BY ONLY <1>1, <1>2, <1>3, <1>4, z = (55 - Len(m)) % 64 DEF Padded
<1>6. PICK a \in Seq(Byte) : IsJoin(a, m, mark)
  BY ONLY m \in Seq(Byte), mark \in Seq(Byte), JoinExists
<1>7. PICK b \in Seq(Byte) : IsJoin(b, a, fill)
  BY ONLY a \in Seq(Byte), fill \in Seq(Byte), JoinExists
<1>8. PICK M \in Seq(Byte) : IsJoin(M, b, count8)
  BY ONLY b \in Seq(Byte), count8 \in Seq(Byte), JoinExists
<1>9. a = m \o mark /\ b = a \o fill /\ M = b \o count8
  BY ONLY <1>6, <1>7, <1>8 DEF IsJoin
<1>10. Len(a) = l + 1 /\ Len(b) = l + 1 + z /\ Len(M) = l + 1 + z + 8
  <2>1. Len(a) = Len(m) + Len(mark)
    BY ONLY <1>6 DEF IsJoin
  <2>2. Len(b) = Len(a) + Len(fill)
    BY ONLY <1>7 DEF IsJoin
  <2>3. Len(M) = Len(b) + Len(count8)
    BY ONLY <1>8 DEF IsJoin
  <2> QED
    BY ONLY <1>1, <1>2, <1>3, <1>4, <2>1, <2>2, <2>3
<1>11. l + 1 \in Nat /\ l + 1 + z \in Nat /\ 0 \in Nat /\ l + 1 + z + 8 = l + z + 9
  BY ONLY l \in Nat, z \in Nat
<1>12. Holds(M, 0, m) /\ Holds(M, l, mark)
  <2>1. Holds(a, 0, m) /\ Holds(a, l, mark)
    BY ONLY <1>1, <1>6 DEF IsJoin
  <2>2. Holds(b, 0, m) /\ Holds(b, l, mark)
    BY ONLY <1>7, <1>11, <2>1, l \in Nat, m \in Seq(Byte), mark \in Seq(Byte) DEF IsJoin
  <2> QED
    BY ONLY <1>8, <1>11, <2>2, l \in Nat, m \in Seq(Byte), mark \in Seq(Byte) DEF IsJoin
<1>13. Holds(M, l + 1, fill)
  <2>1. Holds(b, l + 1, fill)
    BY ONLY <1>7, <1>10 DEF IsJoin
  <2> QED
    BY ONLY <1>8, <1>11, <2>1, fill \in Seq(Byte) DEF IsJoin
<1>14. Holds(M, l + 1 + z, count8)
  BY ONLY <1>8, <1>10 DEF IsJoin
<1>15. \A i \in 1 .. l : M[i] = m[i]
  <2>1. \A i \in 1 .. l : 0 + i = i
    BY ONLY l \in Nat
  <2> QED
    BY ONLY <1>1, <1>12, <2>1 DEF Holds
<1>16. M[l + 1] = 128
  BY ONLY <1>2, <1>12 DEF Holds
<1>17. \A i \in 1 .. z : M[l + 1 + i] = 0
  BY ONLY <1>3, <1>13 DEF Holds
<1>19. \A i \in 1 .. 8 : M[l + 1 + z + i] = count8[i]
  BY ONLY <1>4, <1>14 DEF Holds
<1>18. PaddedBy(M, m, z)
  BY ONLY <1>1, <1>4, <1>10, <1>11, <1>15, <1>16, <1>17, <1>19 DEF PaddedBy
<1> QED
  BY ONLY <1>5, <1>9, <1>18, M \in Seq(Byte)

\* The block that ends with the length.
Ended(b, from, w) == Copied(Copied(b, from, Zeros(56 - from)), 56, w)

\* x is b up to from, then zeros, then w.
EndsIn(x, b, from, w) ==
  /\ \A j \in 1 .. from : x[j] = b[j]
  /\ \A j \in from + 1 .. 56 : x[j] = 0
  /\ \A j \in 1 .. 8 : x[56 + j] = w[j]

LEMMA LastBlockIs ==
  ASSUME NEW b \in Buffers, NEW from \in 0 .. 56, NEW w \in Seq(Byte), Len(w) = 8
  PROVE  EndsIn(Ended(b, from, w), b, from, w)
<1>0. PICK x : x = Ended(b, from, w)
  OBVIOUS
<1>1. PICK n \in Nat : n = 56 - from /\ from + n = 56
  OBVIOUS
<1>2. PICK z \in Seq(Byte) : z = Zeros(n) /\ Len(z) = n /\ \A j \in 1 .. n : z[j] = 0
  BY ONLY n \in Nat, ZerosAre
<1>3. from \in Nat /\ from + Len(z) <= 64
  BY ONLY <1>1, <1>2, from \in 0 .. 56
<1>4. PICK y \in Buffers : /\ y = Copied(b, from, z)
                           /\ \A j \in 1 .. from : y[j] = b[j]
                           /\ \A j \in 1 .. n : y[from + j] = 0
  <2>1. /\ Copied(b, from, z) \in Buffers
        /\ \A j \in 1 .. from : Copied(b, from, z)[j] = b[j]
        /\ \A j \in 1 .. Len(z) : Copied(b, from, z)[from + j] = z[j]
    BY ONLY b \in Buffers, z \in Seq(Byte), <1>3, CopiedIs
  <2> QED
    BY ONLY <1>2, <2>1
<1>5. PICK at \in Nat : at = 56 /\ at + Len(w) <= 64
  OBVIOUS
<1>6. /\ Copied(y, at, w) \in Buffers
      /\ \A j \in 1 .. at : Copied(y, at, w)[j] = y[j]
      /\ \A j \in 1 .. Len(w) : Copied(y, at, w)[at + j] = w[j]
  BY ONLY y \in Buffers, at \in Nat, w \in Seq(Byte), <1>5, CopiedIs
<1>7. x = Copied(y, at, w)
  BY ONLY <1>0, <1>1, <1>2, <1>4, <1>5 DEF Ended
<1>8. /\ x \in Buffers /\ \A j \in 1 .. 56 : x[j] = y[j]
      /\ \A j \in 1 .. 8 : x[56 + j] = w[j]
  BY ONLY <1>5, <1>6, <1>7, Len(w) = 8
<1>9. ASSUME NEW j \in 1 .. from PROVE x[j] = b[j]
  <2>1. j \in 1 .. 56
    OBVIOUS
  <2> QED
    BY ONLY <1>4, <1>8, <2>1, j \in 1 .. from
<1>10. ASSUME NEW j \in from + 1 .. 56 PROVE x[j] = 0
  <2>1. PICK i \in 1 .. n : from + i = j /\ j \in 1 .. 56
    <3>1. j - from \in 1 .. n /\ from + (j - from) = j /\ j \in 1 .. 56
      BY ONLY <1>1, j \in from + 1 .. 56, from \in 0 .. 56
    <3> QED
      BY ONLY <3>1
  <2> QED
    BY ONLY <1>4, <1>8, <2>1
<1> QED
  BY ONLY <1>0, <1>8, <1>9, <1>10 DEF EndsIn

\* At M[at] is a block of b's first bytes, zeros, and w.
EndsWith(M, at, b, from, w) ==
  /\ \A j \in 1 .. from : b[j] = M[at + j]
  /\ \A j \in from + 1 .. 56 : M[at + j] = 0
  /\ \A j \in 1 .. 8 : M[at + 56 + j] = w[j]

LEMMA LastBlockReads ==
  ASSUME NEW b \in Buffers, NEW from \in 0 .. 56, NEW w \in Seq(Byte), Len(w) = 8,
         NEW M, NEW at \in Nat, EndsWith(M, at, b, from, w), NEW state
  PROVE  transform(state, Ended(b, from, w), 0) = transform(state, M, at)
<1>0. PICK x : x = Ended(b, from, w) /\ EndsIn(x, b, from, w)
  BY LastBlockIs
<1>1. /\ \A j \in 1 .. from : x[j] = b[j]
      /\ \A j \in 1 .. 8 : x[56 + j] = w[j]
  BY ONLY <1>0 DEF EndsIn
<1>2. ASSUME NEW j \in 1 .. 64 PROVE x[j] = M[at + j]
  <2>1. CASE j \in 1 .. from
    BY ONLY <1>1, <2>1, EndsWith(M, at, b, from, w) DEF EndsWith
  <2>2. CASE j \in from + 1 .. 56
    <3>1. x[j] = 0
      BY ONLY <1>0, <2>2 DEF EndsIn
    <3>2. M[at + j] = 0
      BY ONLY <2>2, EndsWith(M, at, b, from, w) DEF EndsWith
    <3> QED
      BY ONLY <3>1, <3>2
  <2>3. CASE j \in 57 .. 64
    <3>1. PICK i \in 1 .. 8 : j = 56 + i
      <4>1. j - 56 \in 1 .. 8 /\ j = 56 + (j - 56)
        BY ONLY <2>3
      <4> QED
        BY ONLY <4>1
    <3>2. at + j = at + 56 + i
      BY ONLY <3>1, at \in Nat, i \in 1 .. 8
    <3>3. x[j] = w[i]
      BY ONLY <1>1, <3>1, i \in 1 .. 8
    <3>4. M[at + 56 + i] = w[i]
      BY ONLY EndsWith(M, at, b, from, w), i \in 1 .. 8 DEF EndsWith
    <3> QED
      BY ONLY <3>2, <3>3, <3>4
  <2>4. j \in 1 .. from \/ j \in from + 1 .. 56 \/ j \in 57 .. 64
    BY ONLY j \in 1 .. 64, from \in 0 .. 56
  <2> QED
    BY ONLY <2>1, <2>2, <2>3, <2>4
<1>3. \A j \in 1 .. 64 : 0 + j = j
  OBVIOUS
<1>4. SameBlock(x, 0, M, at)
  BY ONLY <1>2, <1>3 DEF SameBlock
<1> QED
  BY ONLY <1>0, <1>4, at \in Nat, TransformReads

\* What a block of its own, and the chain of them, make of a padded message.
LEMMA ReferenceIs ==
  ASSUME NEW m, NEW M \in Seq(Byte), M = Padded(m), NEW n \in Nat, Len(M) = 64 * n
  PROVE  Reference(m) = DigestOf(WholeBlocks(initial, M, n))
<1> DEFINE P(g) == g = [i \in 0 .. n |-> IF i = 0 THEN initial
                                         ELSE HashBlock(g[i - 1], M, 64 * (i - 1))]
           F == [i \in 1 .. n |-> [x \in Registers |-> HashBlock(x, M, 64 * (i - 1))]]
           s == CHOOSE g : P(g)
<1>0. Len(M) \div 64 = n
  BY ONLY n \in Nat, Len(M) = 64 * n
<1>1. Reference(m) = DigestOf(s[n])
  BY ONLY <1>0, M = Padded(m), ZenonT(60) DEF Reference
<1>2. ASSUME NEW i \in 1 .. n, NEW x \in Registers
      PROVE  /\ HashBlock(x, M, 64 * (i - 1)) = transform(x, M, 64 * (i - 1))
             /\ HashBlock(x, M, 64 * (i - 1)) \in Registers
  <2>1. PICK at \in Nat : at = 64 * (i - 1) /\ at + 64 <= Len(M)
    <3>1. 64 * i <= 64 * n /\ 64 * (i - 1) = 64 * i - 64 /\ 64 * (i - 1) \in Nat
      OBVIOUS
    <3> QED
      BY ONLY <3>1, Len(M) = 64 * n, i \in 1 .. n, n \in Nat
  <2> QED
    BY ONLY <2>1, x \in Registers, M \in Seq(Byte), TransformIsStandard
<1>3. ASSUME NEW i \in 1 .. n, NEW x \in Registers
      PROVE  F[i][x] = HashBlock(x, M, 64 * (i - 1)) /\ F[i][x] \in Registers
  <2>1. F[i][x] = HashBlock(x, M, 64 * (i - 1))
    OBVIOUS
  <2> QED
    BY ONLY <2>1, <1>2, i \in 1 .. n, x \in Registers
<1> HIDE DEF F
<1>4. IsSteps(F, Registers, n)
  BY <1>3 DEF IsSteps
<1>5. PICK g : DefinedBy(g, F, initial, n)
  BY IterationExists
<1>6. Iterates(g, F, initial, n)
  BY <1>5, DefinedIterates
<1>7. \A i \in 0 .. n : g[i] \in Registers
  BY <1>4, <1>6, InitialType, IterationType
<1>8. ASSUME NEW i \in 1 .. n PROVE F[i][g[i - 1]] = HashBlock(g[i - 1], M, 64 * (i - 1))
  <2>1. i - 1 \in 0 .. n
    OBVIOUS
  <2>2. g[i - 1] \in Registers
    BY <2>1, <1>7
  <2> QED
    BY <2>2, <1>3
<1>9. P(g)
  <2>1. \A i \in 0 .. n : i = 0 \/ i \in 1 .. n
    OBVIOUS
  <2>2. \A i \in 0 .. n :
          (IF i = 0 THEN initial ELSE F[i][g[i - 1]])
            = (IF i = 0 THEN initial ELSE HashBlock(g[i - 1], M, 64 * (i - 1)))
    BY <2>1, <1>8
  <2> QED
    BY ONLY <2>2, <1>5 DEF DefinedBy
<1> HIDE DEF P
<1>10. P(s)
  BY <1>9
<1> USE DEF P
<1> HIDE DEF s
<1>11. s[0] = initial /\ \A i \in 1 .. n : s[i] = HashBlock(s[i - 1], M, 64 * (i - 1))
  BY <1>10
<1>12. \A i \in 0 .. n : s[i] \in Registers
  <2> DEFINE T == {i \in Nat : i <= n => s[i] \in Registers}
  <2>1. 0 \in T
    BY <1>11, InitialType
  <2>2. ASSUME NEW i \in Nat, i \in T PROVE i + 1 \in T
    <3> SUFFICES ASSUME i + 1 <= n PROVE s[i + 1] \in Registers
      OBVIOUS
    <3>1. PICK j \in 1 .. n : j = i + 1 /\ j - 1 = i /\ s[i] \in Registers
      BY <2>2
    <3>2. s[j] = HashBlock(s[i], M, 64 * (j - 1))
      BY <3>1, <1>11
    <3> QED
      BY <3>1, <3>2, <1>2
  <2> HIDE DEF T
  <2>3. Nat \subseteq T
    BY <2>1, <2>2, Induct
  <2> QED
    BY <2>3 DEF T
<1>13. Passes(s, initial, M, n)
  <2>1. ASSUME NEW i \in 1 .. n PROVE s[i] = transform(s[i - 1], M, 64 * (i - 1))
    <3>1. i - 1 \in 0 .. n
      OBVIOUS
    <3>2. PICK x \in Registers : x = s[i - 1]
      BY <3>1, <1>12
    <3>3. s[i] = HashBlock(x, M, 64 * (i - 1))
      BY ONLY <3>2, <1>11, i \in 1 .. n
    <3>4. HashBlock(x, M, 64 * (i - 1)) = transform(x, M, 64 * (i - 1))
      BY ONLY <1>2, i \in 1 .. n, x \in Registers
    <3> QED
      BY ONLY <3>2, <3>3, <3>4
  <2> QED
    BY ONLY <2>1, <1>11 DEF Passes
<1>14. PICK t : Passes(t, initial, M, n) /\ WholeBlocks(initial, M, n) = t[n]
  <2>1. 64 * n <= Len(M)
    BY ONLY n \in Nat, Len(M) = 64 * n
  <2> QED
    BY ONLY <2>1, n \in Nat, M \in Seq(Byte), InitialType, WholeBlocksRun
<1>15. s[n] = t[n]
  <2>1. \A i \in 1 .. n : SameBlock(M, 64 * (i - 1), M, 64 * (i - 1))
    BY DEF SameBlock
  <2>2. \A i \in 0 .. n : s[i] = t[i]
    BY ONLY <1>13, <1>14, <2>1, n \in Nat, PassesUnique
  <2> QED
    BY ONLY <2>2, n \in Nat
<1> QED
  BY ONLY <1>1, <1>14, <1>15

\* sha256_final: in the block at hand, or with one more when it is crowded.
LEMMA FinalIs ==
  ASSUME NEW c, NEW m \in Seq(Byte), After(c, m)
  PROVE  sha256_final(c) = Reference(m)
<1>1. PICK q \in Nat : Holding(c, m, q)
  BY DEF After
<1>2. PICK r \in 0 .. 63 : r = c.buffer_size
  BY DEF After, Contexts
<1>3. c.buffer \in Buffers /\ c.state \in Registers /\ c.total_size = Len(m)
  BY DEF After, Contexts
<1>4. PICK l \in Nat : l = Len(m) /\ l = 64 * q + r
  BY ONLY <1>1, <1>2, m \in Seq(Byte), LenProperties DEF Holding
<1>5. \A j \in 1 .. r : c.buffer[j] = m[64 * q + j]
  BY ONLY <1>1, <1>2 DEF Holding
<1>6. PICK w \in Seq(Byte) : w = store64(8 * l) /\ Len(w) = 8
  <2>1. 8 * l \in Nat
    BY ONLY l \in Nat
  <2> QED
    BY ONLY <2>1, LengthBytes
<1>7. PICK z \in Nat : /\ z = (55 - Len(m)) % 64
                       /\ z = IF r <= 55 THEN 55 - r ELSE 119 - r
  <2>1. PICK y \in Nat : y = IF r <= 55 THEN 55 - r ELSE 119 - r
    BY ONLY r \in 0 .. 63, SMTT(60)
  <2>2. (55 - l) % 64 = y
    <3>1. CASE r <= 55
      <4>1. 55 - l = y + 64 * (0 - q) /\ y \in 0 .. 63
        BY ONLY <1>4, <2>1, <3>1, q \in Nat, r \in 0 .. 63
      <4> QED
        BY ONLY <4>1, q \in Nat, l \in Nat
    <3>2. CASE r > 55
      <4>1. 55 - l = y + 64 * (0 - (q + 1)) /\ y \in 0 .. 63
        BY ONLY <1>4, <2>1, <3>2, q \in Nat, r \in 0 .. 63
      <4> QED
        BY ONLY <4>1, q \in Nat, l \in Nat
    <3> QED
      BY ONLY <3>1, <3>2, r \in 0 .. 63
  <2> QED
    BY ONLY <1>4, <2>1, <2>2
<1>8. PICK M \in Seq(Byte) : M = Padded(m) /\ PaddedBy(M, m, z)
  BY ONLY <1>7, m \in Seq(Byte), z \in Nat, PaddedIs
<1>9. Len(M) = l + z + 9 /\ M[l + 1] = 128
  BY ONLY <1>4, <1>8 DEF PaddedBy
<1>17. \A j \in 1 .. l : M[j] = m[j]
  BY ONLY <1>4, <1>8 DEF PaddedBy
<1>18. \A j \in 1 .. z : M[l + 1 + j] = 0
  BY ONLY <1>4, <1>8, ZenonT(60) DEF PaddedBy
<1>19. \A j \in 1 .. 8 : M[l + 1 + z + j] = w[j]
  <2>1. \A j \in 1 .. 8 : M[Len(m) + 1 + z + j] = store64(8 * Len(m))[j]
    BY ONLY <1>8 DEF PaddedBy
  <2> QED
    BY ONLY <1>4, <1>6, <2>1
<1>10. PICK mark \in Seq(Byte) : mark = <<128>> /\ Len(mark) = 1 /\ mark[1] = 128
  <2>1. PICK x \in Byte : x = 128
    BY DEF Byte
  <2>2. <<x>> \in Seq(Byte) /\ Len(<<x>>) = 1 /\ <<x>>[1] = x
    BY ONLY x \in Byte
  <2> QED
    BY ONLY <2>1, <2>2, ZenonT(60)
<1>11. PICK marked \in Buffers : /\ marked = Copied(c.buffer, r, mark)
                                 /\ \A j \in 1 .. r : marked[j] = c.buffer[j]
                                 /\ marked[r + 1] = 128
  <2>1. r \in Nat /\ r + Len(mark) <= 64
    BY ONLY <1>10, r \in 0 .. 63
  <2>2. /\ Copied(c.buffer, r, mark) \in Buffers
        /\ \A j \in 1 .. r : Copied(c.buffer, r, mark)[j] = c.buffer[j]
        /\ \A j \in 1 .. Len(mark) : Copied(c.buffer, r, mark)[r + j] = mark[j]
    BY ONLY <1>3, <2>1, mark \in Seq(Byte), CopiedIs
  <2> QED
    BY ONLY <1>10, <2>2
<1>12. \A j \in 1 .. r + 1 : marked[j] = M[64 * q + j]
  <2> SUFFICES ASSUME NEW j \in 1 .. r + 1 PROVE marked[j] = M[64 * q + j]
    OBVIOUS
  <2>1. CASE j = r + 1
    <3>1. 64 * q + j = l + 1
      BY ONLY <1>4, <2>1, q \in Nat, r \in 0 .. 63
    <3> QED
      BY ONLY <1>9, <1>11, <2>1, <3>1
  <2>2. CASE j # r + 1
    <3>1. j \in 1 .. r /\ 64 * q + j \in 1 .. l
      BY ONLY <1>4, <2>2, j \in 1 .. r + 1, q \in Nat, r \in 0 .. 63
    <3> QED
      BY ONLY <1>5, <1>11, <1>17, <3>1, SMTT(60)
  <2> QED
    BY ONLY <2>1, <2>2
<1>13. WholeBlocks(initial, M, q) = c.state
  <2>1. 64 * q <= Len(m) /\ 64 * q <= Len(M)
    BY ONLY <1>4, <1>9, q \in Nat, r \in 0 .. 63, z \in Nat
  <2>2. \A j \in 1 .. 64 * q : j \in 1 .. l
    BY ONLY <1>4, q \in Nat, r \in 0 .. 63
  <2>3. \A j \in 1 .. 64 * q : M[j] = m[j]
    BY ONLY <1>17, <2>2
  <2>4. WholeBlocks(initial, M, q) = WholeBlocks(initial, m, q)
    BY ONLY <2>1, <2>3, q \in Nat, m \in Seq(Byte), M \in Seq(Byte), InitialType, BlocksFront
  <2> QED
    BY ONLY <1>1, <2>4 DEF Holding
<1>20. Len(M) = 64 * q + r + z + 9
  BY ONLY <1>4, <1>9
<1>15. CASE r <= 55
  <2>1. PICK from \in 0 .. 56 : from = r + 1
    BY ONLY <1>15, r \in 0 .. 63
  <2>2. PICK at \in Nat : at = 64 * q
    BY ONLY q \in Nat
  <2>3. z = 55 - r /\ at + 56 = l + 1 + z /\ Len(M) = 64 * (q + 1)
    <3>1. z = 55 - r
      BY ONLY <1>7, <1>15
    <3>2. l = 64 * q + r
      BY ONLY <1>4
    <3> QED
      BY ONLY <1>20, <2>2, <3>1, <3>2, q \in Nat, r \in 0 .. 63
  <2>4. ASSUME NEW j \in from + 1 .. 56 PROVE M[at + j] = 0
    <3>1. PICK i \in 1 .. z : at + j = l + 1 + i
      <4>1. j - from \in 1 .. z /\ at + j = l + 1 + (j - from)
        BY ONLY <1>4, <2>1, <2>2, <2>3, j \in from + 1 .. 56, q \in Nat, r \in 0 .. 63
      <4> QED
        BY ONLY <4>1
    <3> QED
      BY ONLY <1>18, <3>1
  <2>5. PICK x : x = Ended(marked, from, w)
    OBVIOUS
  <2>6. \A j \in 1 .. from : marked[j] = M[at + j]
    BY ONLY <1>12, <2>1, <2>2
  <2>7. transform(c.state, x, 0) = transform(c.state, M, at)
    <3>1. \A j \in 1 .. 8 : M[at + 56 + j] = w[j]
      BY ONLY <1>19, <2>3
    <3>2. EndsWith(M, at, marked, from, w)
      BY ONLY <2>4, <2>6, <3>1 DEF EndsWith
    <3> QED
      BY ONLY <1>6, <2>5, <3>2, marked \in Buffers, w \in Seq(Byte), from \in 0 .. 56,
              at \in Nat, LastBlockReads, SMTT(60)
  <2>8. WholeBlocks(initial, M, q + 1) = transform(c.state, M, at)
    <3>1. 64 * q + 64 <= Len(M)
      BY ONLY <2>3, q \in Nat
    <3> QED
      BY ONLY <3>1, <1>13, <2>2, q \in Nat, M \in Seq(Byte), InitialType, BlocksNext
  <2>9. Reference(m) = DigestOf(WholeBlocks(initial, M, q + 1))
    <3>1. q + 1 \in Nat
      BY ONLY q \in Nat
    <3> QED
      BY ONLY <3>1, <1>8, <2>3, M \in Seq(Byte), ReferenceIs
  <2>10. sha256_final(c) = DigestOf(transform(c.state, x, 0))
    <3>1. ~crowded(r + 1)
      BY ONLY <1>15, r \in 0 .. 63 DEF crowded
    <3> QED
      BY ONLY <3>1, <1>2, <1>3, <1>4, <1>6, <1>10, <1>11, <2>1, <2>5 DEF sha256_final, Ended
  <2> QED
    BY ONLY <2>7, <2>8, <2>9, <2>10
<1>16. CASE r > 55
  <2>1. PICK at \in Nat, next \in Nat : at = 64 * q /\ next = 64 * q + 64 /\ next = 64 * (q + 1)
    BY ONLY q \in Nat
  <2>2. z = 119 - r /\ next + 56 = l + 1 + z /\ Len(M) = 64 * (q + 2) /\ next + 64 = Len(M)
    <3>1. ~(r <= 55)
      BY ONLY <1>16, r \in 0 .. 63
    <3>2. z = 119 - r
      BY ONLY <1>7, <3>1
    <3>3. l = 64 * q + r
      BY ONLY <1>4
    <3> QED
      BY ONLY <1>20, <2>1, <3>2, <3>3, q \in Nat, r \in 0 .. 63
  <2>3. PICK n \in Nat : n = 64 - (r + 1) /\ (r + 1) + n = 64
    BY ONLY r \in 0 .. 63
  <2>4. PICK y \in Seq(Byte) : y = Zeros(n) /\ Len(y) = n /\ \A j \in 1 .. n : y[j] = 0
    BY ONLY n \in Nat, ZerosAre
  <2>5. PICK first \in Buffers : /\ first = Copied(marked, r + 1, y)
                                 /\ \A j \in 1 .. r + 1 : first[j] = marked[j]
                                 /\ \A j \in 1 .. n : first[(r + 1) + j] = 0
    <3>1. r + 1 \in Nat /\ (r + 1) + Len(y) <= 64
      BY ONLY <2>3, <2>4, r \in 0 .. 63
    <3>2. /\ Copied(marked, r + 1, y) \in Buffers
          /\ \A j \in 1 .. r + 1 : Copied(marked, r + 1, y)[j] = marked[j]
          /\ \A j \in 1 .. Len(y) : Copied(marked, r + 1, y)[(r + 1) + j] = y[j]
      BY ONLY <3>1, marked \in Buffers, y \in Seq(Byte), CopiedIs
    <3> QED
      BY ONLY <2>4, <3>2, ZenonT(60)
  <2>6. ASSUME NEW j \in 1 .. 64 PROVE first[j] = M[at + j]
    <3>1. CASE j \in 1 .. r + 1
      BY ONLY <1>12, <2>1, <2>5, <3>1
    <3>2. CASE j \in r + 2 .. 64
      <4>1. PICK i \in 1 .. n : j = (r + 1) + i
        <5>1. j - (r + 1) \in 1 .. n /\ j = (r + 1) + (j - (r + 1))
          BY ONLY <2>3, <3>2, r \in 0 .. 63
        <5> QED
          BY ONLY <5>1
      <4>2. i \in 1 .. z /\ at + j = l + 1 + i
        BY ONLY <1>4, <1>16, <2>1, <2>2, <2>3, <4>1, i \in 1 .. n, q \in Nat, r \in 0 .. 63, n \in Nat
      <4> QED
        <5>1. M[at + j] = 0
          BY ONLY <1>18, <4>2
        <5>2. first[j] = 0
          BY ONLY <2>5, <4>1, i \in 1 .. n
        <5> QED
          BY ONLY <5>1, <5>2
    <3>3. j \in 1 .. r + 1 \/ j \in r + 2 .. 64
      BY ONLY j \in 1 .. 64, r \in 0 .. 63
    <3> QED
      BY ONLY <3>1, <3>2, <3>3
  <2>7. transform(c.state, first, 0) = transform(c.state, M, at)
    <3>1. \A j \in 1 .. 64 : 0 + j = j
      OBVIOUS
    <3>2. SameBlock(first, 0, M, at)
      BY ONLY <2>6, <3>1 DEF SameBlock
    <3> QED
      BY ONLY <3>2, at \in Nat, TransformReads
  <2>8. PICK state : state = WholeBlocks(initial, M, q + 1) /\ state = transform(c.state, first, 0)
    <3>1. 64 * q + 64 <= Len(M)
      BY ONLY <2>1, <2>2, q \in Nat
    <3>2. WholeBlocks(initial, M, q + 1) = transform(WholeBlocks(initial, M, q), M, 64 * q)
      BY ONLY <3>1, q \in Nat, M \in Seq(Byte), InitialType, BlocksNext
    <3> QED
      BY ONLY <3>2, <1>13, <2>1, <2>7
  <2>9. PICK x : x = Ended(marked, 0, w)
    OBVIOUS
  <2>10. transform(state, x, 0) = transform(state, M, next)
    <3>1. PICK from \in 0 .. 56 : from = 0
      OBVIOUS
    <3>2. ASSUME NEW j \in from + 1 .. 56 PROVE M[next + j] = 0
      <4>1. PICK i \in 1 .. z : next + j = l + 1 + i
        <5>1. (63 - r) + j \in 1 .. z /\ next + j = l + 1 + ((63 - r) + j)
          BY ONLY <1>4, <2>1, <2>2, <3>1, j \in from + 1 .. 56, q \in Nat, r \in 0 .. 63
        <5> QED
          BY ONLY <5>1
      <4> QED
        BY ONLY <1>18, <4>1
    <3>3. \A j \in 1 .. from : marked[j] = M[next + j]
      BY ONLY <3>1
    <3>4. x = Ended(marked, from, w)
      BY ONLY <2>9, <3>1
    <3> QED
      <4>1. \A j \in 1 .. 8 : M[next + 56 + j] = w[j]
        BY ONLY <1>19, <2>2
      <4>2. EndsWith(M, next, marked, from, w)
        BY ONLY <3>2, <3>3, <4>1 DEF EndsWith
      <4>3. Len(w) = 8
        BY ONLY <1>6
      <4>4. transform(state, Ended(marked, from, w), 0) = transform(state, M, next)
        BY ONLY <4>2, <4>3, marked \in Buffers, w \in Seq(Byte), from \in 0 .. 56,
                next \in Nat, LastBlockReads, SMTT(60)
      <4> QED
        BY ONLY <3>4, <4>4
  <2>11. WholeBlocks(initial, M, q + 2) = transform(state, M, next)
    <3>1. PICK k1 \in Nat : k1 = q + 1 /\ k1 + 1 = q + 2 /\ 64 * k1 = next /\ 64 * k1 + 64 <= Len(M)
      <4>1. Len(M) = next + 64
        BY ONLY <2>2
      <4>2. q + 1 \in Nat /\ (q + 1) + 1 = q + 2 /\ 64 * (q + 1) = next /\ 64 * (q + 1) + 64 <= next + 64
        BY ONLY <2>1, q \in Nat
      <4> QED
        BY ONLY <4>1, <4>2
    <3>2. WholeBlocks(initial, M, k1 + 1) = transform(WholeBlocks(initial, M, k1), M, 64 * k1)
      BY ONLY <3>1, k1 \in Nat, M \in Seq(Byte), InitialType, BlocksNext
    <3>3. WholeBlocks(initial, M, k1) = state
      BY ONLY <2>8, <3>1
    <3>4. k1 + 1 = q + 2 /\ 64 * k1 = next
      BY ONLY <3>1
    <3> QED
      BY ONLY <3>2, <3>3, <3>4
  <2>12. Reference(m) = DigestOf(WholeBlocks(initial, M, q + 2))
    <3>1. q + 2 \in Nat
      BY ONLY q \in Nat
    <3> QED
      BY ONLY <3>1, <1>8, <2>2, M \in Seq(Byte), ReferenceIs
  <2>13. sha256_final(c) = DigestOf(transform(state, x, 0))
    <3>1. crowded(r + 1)
      BY ONLY <1>16, r \in 0 .. 63 DEF crowded
    <3> QED
      BY ONLY <3>1, <1>2, <1>3, <1>4, <1>6, <1>10, <1>11, <2>3, <2>4, <2>5, <2>8, <2>9 DEF sha256_final, Ended
  <2> QED
    BY ONLY <2>10, <2>11, <2>12, <2>13
<1> QED
  BY ONLY <1>15, <1>16, r \in 0 .. 63

-----------------------------------------------------------------------------
(* SHA-256: the specification.                                             *)

LEMMA UpdateIs ==
  ASSUME NEW p \in Seq(Byte)
  PROVE  sha256_compute(p) = Reference(p)
<1>1. After(sha256_init, << >>)
  <2>1. Len(<< >>) = 0 /\ 0 \in Nat
    OBVIOUS
  <2> QED
    BY ONLY <2>1, FreshHolds DEF After
<1>2. << >> \in Seq(Byte) /\ << >> \o p = p
  BY ConcatEmptySeq
<1>3. After(sha256_update(sha256_init, p), p)
  <2>1. After(sha256_update(sha256_init, p), << >> \o p)
    BY ONLY <1>1, <1>2, p \in Seq(Byte), UpdateAfter
  <2> QED
    BY ONLY <1>2, <2>1
<1>4. PICK c : c = sha256_update(sha256_init, p)
  OBVIOUS
<1>5. sha256_final(c) = Reference(p)
  BY ONLY <1>3, <1>4, p \in Seq(Byte), FinalIs
<1> QED
  BY ONLY <1>4, <1>5 DEF sha256_compute

\* Until the digest is taken the context stands where the standard is after
\* what has been hashed.
ShaInv ==
  /\ hashed \in Seq(Byte)
  /\ digest = << >> => After(context, hashed)
  /\ digest # << >> => digest = Reference(hashed)

\* However a message is cut into pieces, sha256_update and sha256_final make
\* the digest FIPS 180-4 defines for the whole, and so does one call.
THEOREM DigestsAreStandard == ShaSpec => []DigestIsStandard
<1>1. ShaInit => ShaInv
  <2>1. << >> \in Seq(Byte) /\ Len(<< >>) = 0 /\ 0 \in Nat
    OBVIOUS
  <2>2. After(sha256_init, << >>)
    BY ONLY <2>1, FreshHolds DEF After
  <2> QED
    BY ONLY <2>1, <2>2 DEF ShaInit, ShaInv
<1>2. ShaInv /\ [ShaNext]_shaVars => ShaInv'
  <2> SUFFICES ASSUME ShaInv, [ShaNext]_shaVars PROVE ShaInv'
    OBVIOUS
  <2>1. ASSUME NEW piece \in Pieces, Update(piece) PROVE ShaInv'
    <3>1. piece \in Seq(Byte)
      BY ShaAssumption
    <3>2. digest = << >> /\ digest' = digest /\ hashed' = hashed \o piece
          /\ context' = sha256_update(context, piece)
      BY <2>1 DEF Update
    <3>3. hashed \in Seq(Byte) /\ After(context, hashed)
      BY <3>2 DEF ShaInv
    <3>4. After(sha256_update(context, piece), hashed \o piece)
      BY ONLY <3>1, <3>3, UpdateAfter
    <3>5. hashed \o piece \in Seq(Byte)
      BY ONLY <3>1, <3>3, ConcatProperties
    <3>6. hashed' \in Seq(Byte) /\ After(context', hashed') /\ digest' = << >>
      BY ONLY <3>2, <3>4, <3>5
    <3> QED
      BY ONLY <3>6 DEF ShaInv
  <2>2. ASSUME Final PROVE ShaInv'
    <3>1. digest = << >> /\ digest' = sha256_final(context) /\ hashed' = hashed
      BY <2>2 DEF Final
    <3>2. hashed \in Seq(Byte) /\ After(context, hashed)
      BY <3>1 DEF ShaInv
    <3>3. sha256_final(context) = Reference(hashed)
      BY ONLY <3>2, FinalIs
    <3>4. digest' = Reference(hashed') /\ hashed' \in Seq(Byte)
      BY ONLY <3>1, <3>2, <3>3
    <3>5. digest' # << >>
      <4>1. \A h : DigestOf(h) # << >>
        <5> SUFFICES ASSUME NEW h PROVE DigestOf(h) # << >>
          OBVIOUS
        <5>1. DOMAIN DigestOf(h) = 1 .. 32
          BY DEF DigestOf
        <5> QED
          BY <5>1
      <4>2. \E h : sha256_final(context) = DigestOf(h)
        BY DEF sha256_final
      <4> QED
        BY ONLY <3>1, <4>1, <4>2
    <3> QED
      BY ONLY <3>4, <3>5 DEF ShaInv
  <2>3. CASE UNCHANGED shaVars
    BY <2>3 DEF ShaInv, shaVars, After, Holding
  <2> QED
    BY <2>1, <2>2, <2>3 DEF ShaNext
<1>3. ShaInv => DigestIsStandard
  BY UpdateIs DEF ShaInv, DigestIsStandard
<1> QED
  BY <1>1, <1>2, <1>3, PTL DEF ShaSpec
=============================================================================
