---------------------------- MODULE SequenceLemmas ----------------------------
(***************************************************************************)
(* Lemmas that several proofs share.  About sequences: fronts and tails,   *)
(* buffers in transmission, FlattenSeq, and induction on the length, which *)
(* follows from the well-foundedness of < on Nat.  About the ring of       *)
(* module Ring, for every size: the arithmetic of its indices, and how the *)
(* bytes it holds change when a slot is stored into and when either index  *)
(* moves.                                                                  *)
(***************************************************************************)
EXTENDS Ring, SequencesExt, SequenceTheorems, WellFoundedInduction, TLAPS

-----------------------------------------------------------------------------
(* Fronts and tails.                                                       *)

\* What lies behind the first n elements, and that both make the whole.
LEMMA Behind ==
  ASSUME NEW S, NEW s \in Seq(S), NEW n \in 0 .. Len(s)
  PROVE  /\ Len(s) \in Nat
         /\ SubSeq(s, 1, n) \in Seq(S) /\ Len(SubSeq(s, 1, n)) = n
         /\ SubSeq(s, n + 1, Len(s)) \in Seq(S) /\ Len(SubSeq(s, n + 1, Len(s))) = Len(s) - n
         /\ \A i \in 1 .. n : SubSeq(s, 1, n)[i] = s[i]
         /\ \A i \in 1 .. Len(s) - n : SubSeq(s, n + 1, Len(s))[i] = s[n + i]
         /\ SubSeq(s, 1, n) \o SubSeq(s, n + 1, Len(s)) = s
<1>1. Len(s) \in Nat /\ n \in Nat /\ n <= Len(s) /\ \A i \in 1 .. Len(s) : s[i] \in S
  BY LenProperties, ElementOfSeq
<1>2. /\ SubSeq(s, 1, n) \in Seq(S) /\ Len(SubSeq(s, 1, n)) = n
      /\ \A i \in 1 .. n : SubSeq(s, 1, n)[i] = s[i]
  <2>1. \A i \in 1 .. n : s[i] \in S
    BY <1>1
  <2>2. /\ SubSeq(s, 1, n) \in Seq(S)
        /\ Len(SubSeq(s, 1, n)) = IF 1 <= n THEN n - 1 + 1 ELSE 0
        /\ \A i \in 1 .. n - 1 + 1 : SubSeq(s, 1, n)[i] = s[1 + i - 1]
    BY <1>1, <2>1, SubSeqProperties
  <2>3. n - 1 + 1 = n /\ \A i \in 1 .. n : 1 + i - 1 = i
    BY <1>1
  <2> QED
    BY <1>1, <2>2, <2>3
<1>3. /\ SubSeq(s, n + 1, Len(s)) \in Seq(S) /\ Len(SubSeq(s, n + 1, Len(s))) = Len(s) - n
      /\ \A i \in 1 .. Len(s) - n : SubSeq(s, n + 1, Len(s))[i] = s[n + i]
  <2>1. n + 1 \in Int /\ \A i \in n + 1 .. Len(s) : s[i] \in S
    BY <1>1
  <2>2. /\ SubSeq(s, n + 1, Len(s)) \in Seq(S)
        /\ Len(SubSeq(s, n + 1, Len(s))) = IF n + 1 <= Len(s) THEN Len(s) - (n + 1) + 1 ELSE 0
        /\ \A i \in 1 .. Len(s) - (n + 1) + 1 : SubSeq(s, n + 1, Len(s))[i] = s[n + 1 + i - 1]
    BY <1>1, <2>1, SubSeqProperties
  <2>3. Len(s) - (n + 1) + 1 = Len(s) - n /\ \A i \in 1 .. Len(s) - n : n + 1 + i - 1 = n + i
    BY <1>1
  <2>4. (IF n + 1 <= Len(s) THEN Len(s) - n ELSE 0) = Len(s) - n
    BY <1>1
  <2> QED
    BY <2>2, <2>3, <2>4
<1>4. SubSeq(s, 1, n) \o SubSeq(s, n + 1, Len(s)) = s
  <2>1. 1 \in 1 .. Len(s) + 1 /\ n \in 1 - 1 .. Len(s) /\ Len(s) \in n .. Len(s)
    BY <1>1
  <2>2. SubSeq(s, 1, n) \o SubSeq(s, n + 1, Len(s)) = SubSeq(s, 1, Len(s))
    BY <2>1, ConcatAdjacentSubSeq
  <2> QED
    BY <2>2, SubSeqFull
<1> QED
  BY <1>1, <1>2, <1>3, <1>4

LEMMA CancelFront ==
  ASSUME NEW S, NEW s \in Seq(S), NEW t \in Seq(S), NEW u \in Seq(S), s \o t = s \o u
  PROVE  t = u
<1>0. Len(s) \in Nat /\ Len(t) \in Nat /\ Len(u) \in Nat
  BY LenProperties
<1>1. /\ Len(s \o t) = Len(s) + Len(t)
      /\ \A i \in 1 .. Len(s) + Len(t) : (s \o t)[i] = IF i <= Len(s) THEN s[i] ELSE t[i - Len(s)]
  BY ConcatProperties
<1>2. /\ Len(s \o u) = Len(s) + Len(u)
      /\ \A i \in 1 .. Len(s) + Len(u) : (s \o u)[i] = IF i <= Len(s) THEN s[i] ELSE u[i - Len(s)]
  BY ConcatProperties
<1>3. Len(t) = Len(u)
  BY <1>0, <1>1, <1>2
<1>4. ASSUME NEW i \in 1 .. Len(t) PROVE t[i] = u[i]
  <2>1. /\ Len(s) + i \in 1 .. Len(s) + Len(t) /\ Len(s) + i \in 1 .. Len(s) + Len(u)
        /\ ~(Len(s) + i <= Len(s)) /\ Len(s) + i - Len(s) = i
    BY <1>0, <1>3
  <2>2. (s \o t)[Len(s) + i] = t[i]
    BY <1>1, <2>1
  <2>3. (s \o u)[Len(s) + i] = u[i]
    BY <1>2, <2>1
  <2> QED
    BY <2>2, <2>3
<1> QED
  BY <1>3, <1>4, SeqEqual

\* A front of a concatenation, and what lies behind it.
LEMMA BehindIs ==
  ASSUME NEW S, NEW t \in Seq(S), NEW u \in Seq(S)
  PROVE  /\ t \o u \in Seq(S) /\ Len(t) \in 0 .. Len(t \o u) /\ Len(t \o u) = Len(t) + Len(u)
         /\ SubSeq(t \o u, 1, Len(t)) = t
         /\ SubSeq(t \o u, Len(t) + 1, Len(t \o u)) = u
<1> DEFINE s == t \o u
<1>1. Len(t) \in Nat /\ Len(u) \in Nat /\ Len(s) = Len(t) + Len(u) /\ s \in Seq(S)
      /\ \A i \in 1 .. Len(t) + Len(u) : s[i] = IF i <= Len(t) THEN t[i] ELSE u[i - Len(t)]
  BY LenProperties, ConcatProperties
<1>s. s = t \o u
  OBVIOUS
<1> HIDE DEF s
<1>2. Len(t) \in 0 .. Len(s)
  BY <1>1
<1> DEFINE f == SubSeq(s, 1, Len(t))
           r == SubSeq(s, Len(t) + 1, Len(s))
<1>3. /\ f \in Seq(S) /\ Len(f) = Len(t) /\ r \in Seq(S) /\ f \o r = s
      /\ \A i \in 1 .. Len(t) : f[i] = s[i]
  BY <1>1, <1>2, Behind
<1> HIDE DEF f, r
<1>4. f = t
  <2>1. ASSUME NEW i \in 1 .. Len(f) PROVE f[i] = t[i]
    <3>1. i \in 1 .. Len(t) /\ i \in 1 .. Len(t) + Len(u) /\ i <= Len(t)
      BY <1>1, <1>3
    <3> QED
      BY <1>1, <1>3, <3>1
  <2> QED
    BY <1>3, <2>1, SeqEqual
<1>5. r = u
  BY <1>3, <1>4, <1>s, CancelFront
<1> QED
  BY <1>1, <1>2, <1>4, <1>5 DEF f, r, s

\* Concatenation is associative.  The conclusion is an operator, to be expanded
\* in a step of its own, lest the provers go on to rewrite with it.
Associates(s, t, u) == (s \o t) \o u = s \o (t \o u)

LEMMA JoinAssociates ==
  ASSUME NEW S, NEW s \in Seq(S), NEW t \in Seq(S), NEW u \in Seq(S)
  PROVE  Associates(s, t, u)
BY ConcatAssociative DEF Associates

\* What lies in the middle.
LEMMA MiddleIs ==
  ASSUME NEW S, NEW s \in Seq(S), NEW t \in Seq(S), NEW u \in Seq(S)
  PROVE  SubSeq((s \o t) \o u, Len(s) + 1, Len(s) + Len(t)) = t
<1> DEFINE y == (s \o t) \o u
           m == Len(s)
           n == Len(s) + Len(t)
           f == SubSeq(y, 1, m)
           r == SubSeq(y, m + 1, n)
<1>1. Len(s) \in Nat /\ Len(t) \in Nat /\ Len(u) \in Nat
  BY LenProperties
<1>2. PICK x \in Seq(S) : x = s \o t /\ Len(x) = n
  BY ConcatProperties
<1>3. PICK z \in Seq(S) : z = t \o u
  BY ConcatProperties
<1>4. y = s \o z
  BY <1>3, ConcatAssociative
<1>5. y \in Seq(S) /\ Len(y) = n + Len(u) /\ SubSeq(y, 1, n) = x
  <2>1. /\ x \o u \in Seq(S) /\ Len(x \o u) = Len(x) + Len(u)
        /\ SubSeq(x \o u, 1, Len(x)) = x
    BY BehindIs
  <2> QED
    BY <1>2, <2>1
<1>6. f = s
  <2>1. SubSeq(s \o z, 1, Len(s)) = s
    BY BehindIs
  <2> QED
    BY <1>4, <2>1
<1> HIDE DEF y
<1>7. f \o r = SubSeq(y, 1, n)
  <2>1. 1 \in 1 .. Len(y) + 1 /\ m \in 1 - 1 .. Len(y) /\ n \in m .. Len(y)
    BY <1>1, <1>5
  <2> HIDE DEF m, n
  <2> QED
    BY <1>5, <2>1, ConcatAdjacentSubSeq
<1>8. r \in Seq(S)
  <2>1. ASSUME NEW i \in m + 1 .. n PROVE y[i] \in S
    <3>1. i \in 1 .. Len(y)
      BY <1>1, <1>5
    <3> QED
      BY <1>5, <3>1, ElementOfSeq
  <2>2. m + 1 \in Int /\ n \in Int
    BY <1>1
  <2> HIDE DEF m, n
  <2> QED
    BY <2>1, <2>2, SubSeqProperties
<1>9. s \o r = s \o t
  BY <1>2, <1>5, <1>6, <1>7
<1> HIDE DEF r
<1>10. r = t
  BY <1>8, <1>9, CancelFront
<1> QED
  BY <1>10 DEF r, y

\* What lies behind the first n elements grows as the whole does.
LEMMA BehindConcat ==
  ASSUME NEW S, NEW s \in Seq(S), NEW t \in Seq(S), NEW n \in 0 .. Len(s)
  PROVE  SubSeq(s \o t, n + 1, Len(s \o t)) = SubSeq(s, n + 1, Len(s)) \o t
<1>1. PICK f \in Seq(S), r \in Seq(S) :
        Len(f) = n /\ f \o r = s /\ r = SubSeq(s, n + 1, Len(s))
  <2>1. Len(SubSeq(s, 1, n)) = n /\ SubSeq(s, 1, n) \o SubSeq(s, n + 1, Len(s)) = s
    BY Behind
  <2>2. SubSeq(s, 1, n) \in Seq(S) /\ SubSeq(s, n + 1, Len(s)) \in Seq(S)
    BY Behind
  <2> QED
    BY <2>1, <2>2
<1>2. PICK u \in Seq(S) : u = r \o t
  BY ConcatProperties
<1>3. (f \o r) \o t = f \o (r \o t)
  BY ConcatAssociative
<1>4. SubSeq(f \o u, Len(f) + 1, Len(f \o u)) = u
  BY BehindIs
<1>5. s \o t = f \o u
  BY <1>1, <1>2, <1>3
<1>6. SubSeq(s \o t, n + 1, Len(s \o t)) = u
  BY <1>1, <1>4, <1>5
<1> QED
  BY <1>1, <1>2, <1>6

\* The first element and the others.
LEMMA HeadAndTail ==
  ASSUME NEW S, NEW s \in Seq(S), s # << >>
  PROVE  /\ Head(s) \in S /\ Tail(s) \in Seq(S) /\ Len(s) \in Nat \ {0}
         /\ Len(Tail(s)) = Len(s) - 1 /\ <<Head(s)>> \o Tail(s) = s
<1>1. Len(s) \in Nat \ {0} /\ 1 \in 1 .. Len(s) /\ Len(s) \in 1 .. Len(s)
  BY EmptySeq
<1>2. Head(s) \in S /\ Tail(s) \in Seq(S) /\ Len(Tail(s)) = Len(s) - 1
  BY HeadTailProperties
<1>3. Tail(s) = SubSeq(s, 2, Len(s)) /\ Head(s) = s[1]
  BY <1>1, TailIsSubSeq
<1>4. SubSeq(s, 1, Len(s)) = <<s[1]>> \o SubSeq(s, 1 + 1, Len(s))
  BY <1>1, SubSeqRecursiveFirst
<1>5. SubSeq(s, 1, Len(s)) = s
  BY SubSeqFull
<1> QED
  BY <1>1, <1>2, <1>3, <1>4, <1>5

\* What lies behind the n + 1st element, and the first n + 1.
LEMMA SecondBehind ==
  ASSUME NEW S, NEW s \in Seq(S), NEW n \in Nat, n < Len(s)
  PROVE  LET t == SubSeq(s, n + 1, Len(s))
         IN  SubSeq(t, 2, Len(t)) = SubSeq(s, n + 2, Len(s))
<1>1. Len(s) \in Nat /\ n \in 0 .. Len(s) /\ n + 1 \in 0 .. Len(s)
      /\ n + 1 + 1 = n + 2 /\ Len(s) - (n + 1) = Len(s) - n - 1
  BY LenProperties
<1>2. PICK t \in Seq(S) : /\ t = SubSeq(s, n + 1, Len(s)) /\ Len(t) = Len(s) - n
                          /\ \A i \in 1 .. Len(s) - n : t[i] = s[n + i]
  <2>1. /\ SubSeq(s, n + 1, Len(s)) \in Seq(S) /\ Len(SubSeq(s, n + 1, Len(s))) = Len(s) - n
        /\ \A i \in 1 .. Len(s) - n : SubSeq(s, n + 1, Len(s))[i] = s[n + i]
    BY <1>1, Behind
  <2> QED
    BY <2>1
<1>3. PICK u \in Seq(S) : /\ u = SubSeq(s, n + 2, Len(s)) /\ Len(u) = Len(s) - n - 1
                          /\ \A i \in 1 .. Len(s) - n - 1 : u[i] = s[n + 1 + i]
  <2>1. /\ SubSeq(s, n + 1 + 1, Len(s)) \in Seq(S)
        /\ Len(SubSeq(s, n + 1 + 1, Len(s))) = Len(s) - (n + 1)
        /\ \A i \in 1 .. Len(s) - (n + 1) : SubSeq(s, n + 1 + 1, Len(s))[i] = s[n + 1 + i]
    BY <1>1, Behind
  <2> QED
    BY <1>1, <2>1
<1>4. PICK v \in Seq(S) : /\ v = SubSeq(t, 2, Len(t)) /\ Len(v) = Len(t) - 1
                          /\ \A i \in 1 .. Len(t) - 1 : v[i] = t[1 + i]
  <2>1. 1 \in 0 .. Len(t) /\ 1 + 1 = 2
    BY <1>1, <1>2
  <2>2. /\ SubSeq(t, 1 + 1, Len(t)) \in Seq(S) /\ Len(SubSeq(t, 1 + 1, Len(t))) = Len(t) - 1
        /\ \A i \in 1 .. Len(t) - 1 : SubSeq(t, 1 + 1, Len(t))[i] = t[1 + i]
    BY <2>1, Behind
  <2> QED
    BY <2>1, <2>2
<1>a. PICK k \in Nat : k = Len(s) - n - 1 /\ Len(t) = k + 1 /\ Len(s) - n = k + 1
  <2>1. /\ Len(s) - n - 1 \in Nat
        /\ Len(t) = Len(s) - n - 1 + 1 /\ Len(s) - n = Len(s) - n - 1 + 1
    BY <1>1, <1>2
  <2> QED
    BY <2>1
<1>5. Len(v) = k /\ Len(u) = k
  BY <1>3, <1>4, <1>a
<1>6. ASSUME NEW i \in 1 .. Len(u) PROVE v[i] = u[i]
  <2>0. i \in 1 .. k
    BY <1>5
  <2>1. i \in 1 .. Len(t) - 1 /\ i \in 1 .. Len(s) - n - 1 /\ 1 + i \in 1 .. Len(s) - n
        /\ n + (1 + i) = n + 1 + i
    BY <1>a, <2>0
  <2>2. v[i] = t[1 + i]
    BY <1>4, <2>1
  <2>3. t[1 + i] = s[n + (1 + i)]
    BY <1>2, <2>1
  <2>4. u[i] = s[n + 1 + i]
    BY <1>3, <2>1
  <2> QED
    BY <2>1, <2>2, <2>3, <2>4
<1>7. v = u
  BY <1>5, <1>6, SeqEqual
<1> QED
  BY <1>2, <1>3, <1>4, <1>7

LEMMA FrontGrows ==
  ASSUME NEW S, NEW s \in Seq(S), NEW n \in Nat, n < Len(s)
  PROVE  Append(SubSeq(s, 1, n), s[n + 1]) = SubSeq(s, 1, n + 1)
<1>1. Len(s) \in Nat /\ n \in 0 .. Len(s) /\ n + 1 \in 0 .. Len(s) /\ n + 1 \in 1 .. Len(s)
      /\ s[n + 1] \in S
  BY LenProperties, ElementOfSeq
<1>2. PICK t \in Seq(S) : /\ t = SubSeq(s, 1, n) /\ Len(t) = n
                          /\ \A i \in 1 .. n : t[i] = s[i]
  <2>1. /\ SubSeq(s, 1, n) \in Seq(S) /\ Len(SubSeq(s, 1, n)) = n
        /\ \A i \in 1 .. n : SubSeq(s, 1, n)[i] = s[i]
    BY <1>1, Behind
  <2> QED
    BY <2>1
<1>3. PICK u \in Seq(S) : /\ u = SubSeq(s, 1, n + 1) /\ Len(u) = n + 1
                          /\ \A i \in 1 .. n + 1 : u[i] = s[i]
  <2>1. /\ SubSeq(s, 1, n + 1) \in Seq(S) /\ Len(SubSeq(s, 1, n + 1)) = n + 1
        /\ \A i \in 1 .. n + 1 : SubSeq(s, 1, n + 1)[i] = s[i]
    BY <1>1, Behind
  <2> QED
    BY <2>1
<1>4. PICK v \in Seq(S) : /\ v = Append(t, s[n + 1]) /\ Len(v) = n + 1 /\ v[n + 1] = s[n + 1]
                          /\ \A i \in 1 .. n : v[i] = t[i]
  <2>1. /\ Append(t, s[n + 1]) \in Seq(S) /\ Len(Append(t, s[n + 1])) = Len(t) + 1
        /\ Append(t, s[n + 1])[Len(t) + 1] = s[n + 1]
        /\ \A i \in 1 .. Len(t) : Append(t, s[n + 1])[i] = t[i]
    BY <1>1, AppendProperties
  <2> QED
    BY <1>2, <2>1
<1>5. ASSUME NEW i \in 1 .. n + 1 PROVE v[i] = u[i]
  <2>1. CASE i = n + 1
    BY <1>3, <1>4, <2>1
  <2>2. CASE i \in 1 .. n
    BY <1>2, <1>3, <1>4, <2>2
  <2> QED
    BY <2>1, <2>2
<1>6. v = u
  BY <1>3, <1>4, <1>5, SeqEqual
<1> QED
  BY <1>2, <1>3, <1>4, <1>6

\* Opaque to the provers where they have only to apply the lemma.
SameJoin(c, r, f, y) == c \o r = f \o y
IsFront(c, f) == c = SubSeq(f, 1, Len(c))

LEMMA PrefixOfConcat ==
  ASSUME NEW S, NEW c \in Seq(S), NEW r \in Seq(S), NEW f \in Seq(S), NEW y \in Seq(S),
         SameJoin(c, r, f, y), Len(c) <= Len(f)
  PROVE  IsFront(c, f) /\ (Len(c) = Len(f) => r = y)
<1>1. Len(c) \in Nat /\ Len(r) \in Nat /\ Len(f) \in Nat /\ Len(y) \in Nat
  BY LenProperties
<1>2. /\ Len(c \o r) = Len(c) + Len(r)
      /\ \A i \in 1 .. Len(c) + Len(r) : (c \o r)[i] = IF i <= Len(c) THEN c[i] ELSE r[i - Len(c)]
  BY ConcatProperties
<1>3. /\ Len(f \o y) = Len(f) + Len(y)
      /\ \A i \in 1 .. Len(f) + Len(y) : (f \o y)[i] = IF i <= Len(f) THEN f[i] ELSE y[i - Len(f)]
  BY ConcatProperties
<1>0. c \o r = f \o y
  BY DEF SameJoin
<1>4. Len(c) \in 0 .. Len(f) /\ Len(c) + Len(r) = Len(f) + Len(y)
  BY <1>0, <1>1, <1>2, <1>3
<1>5. c = SubSeq(f, 1, Len(c))
  <2>1. /\ SubSeq(f, 1, Len(c)) \in Seq(S) /\ Len(SubSeq(f, 1, Len(c))) = Len(c)
        /\ \A i \in 1 .. Len(c) : SubSeq(f, 1, Len(c))[i] = f[i]
    BY <1>4, Behind
  <2>2. ASSUME NEW i \in 1 .. Len(c) PROVE c[i] = f[i]
    <3>1. /\ i \in 1 .. Len(c) + Len(r) /\ i \in 1 .. Len(f) + Len(y)
          /\ i <= Len(c) /\ i <= Len(f)
      BY <1>1, <1>4
    <3>2. (c \o r)[i] = c[i]
      BY <1>2, <3>1
    <3>3. (f \o y)[i] = f[i]
      BY <1>3, <3>1
    <3> QED
      BY <1>0, <3>2, <3>3
  <2> QED
    BY <2>1, <2>2, SeqEqual
<1>6. ASSUME Len(c) = Len(f) PROVE r = y
  <2>1. SubSeq(f, 1, Len(f)) = f
    BY SubSeqFull
  <2>2. c \o r = c \o y
    BY <1>0, <1>5, <1>6, <2>1
  <2> QED
    BY <2>2, CancelFront
<1> QED
  BY <1>5, <1>6 DEF IsFront

\* b can be seen at the head of what follows l, or at the end of l.
MovesOver(l, b, t, q) == l \o ((<<b>> \o t) \o q) = Append(l, b) \o (t \o q)

LEMMA ElementJoins ==
  ASSUME NEW S, NEW l \in Seq(S), NEW b \in S, NEW t \in Seq(S), NEW q \in Seq(S)
  PROVE  MovesOver(l, b, t, q)
<1>1. PICK one \in Seq(S) : one = <<b>>
  <2>1. <<b>> \in Seq(S)
    OBVIOUS
  <2> QED
    BY <2>1
<1>2. PICK u \in Seq(S) : u = t \o q
  BY ConcatProperties
<1>3. (one \o t) \o q = one \o (t \o q)
  BY ConcatAssociative
<1>4. (l \o one) \o u = l \o (one \o u)
  BY ConcatAssociative
<1>5. Append(l, b) = l \o one
  BY <1>1, AppendIsConcat
<1> QED
  BY <1>1, <1>2, <1>3, <1>4, <1>5 DEF MovesOver

LEMMA MinOfTwo ==
  ASSUME NEW m \in Int, NEW n \in Int
  PROVE  Min({m, n}) = IF m <= n THEN m ELSE n
<1> DEFINE k == IF m <= n THEN m ELSE n
<1>1. k \in {m, n} /\ \A y \in {m, n} : k <= y
  OBVIOUS
<1>2. \A x \in {m, n} : (\A y \in {m, n} : x <= y) => x = k
  OBVIOUS
<1> HIDE DEF k
<1>3. Min({m, n}) = k
  BY <1>1, <1>2 DEF Min
<1> QED
  BY <1>3 DEF k

-----------------------------------------------------------------------------
(* The part of a buffer, indexed from 0, that is still to be transmitted.  *)

Window(buf, from, to) == [k \in 1 .. to - from |-> buf[from + k - 1]]
HasType(buf, from, to, S) == \A i \in from .. to - 1 : buf[i] \in S

LEMMA WindowType ==
  ASSUME NEW S, NEW buf, NEW from \in Nat, NEW to \in Nat, from <= to,
         HasType(buf, from, to, S)
  PROVE  Window(buf, from, to) \in Seq(S) /\ Len(Window(buf, from, to)) = to - from
<1>1. PICK n \in Nat : n = to - from
  OBVIOUS
<1>2. ASSUME NEW k \in 1 .. n PROVE buf[from + k - 1] \in S
  <2>1. from + k - 1 \in from .. to - 1
    BY <1>1
  <2> QED
    BY <2>1 DEF HasType
<1>3. [k \in 1 .. n |-> buf[from + k - 1]] \in Seq(S)
  BY <1>2, IsASeq
<1>4. Len([k \in 1 .. n |-> buf[from + k - 1]]) = n
  OBVIOUS
<1> QED
  BY <1>1, <1>3, <1>4 DEF Window

\* The first element has been transmitted.
LEMMA WindowMoves ==
  ASSUME NEW S, NEW buf, NEW from \in Nat, NEW to \in Nat, from < to,
         HasType(buf, from, to, S)
  PROVE  /\ buf[from] \in S /\ Window(buf, from + 1, to) \in Seq(S)
         /\ Window(buf, from, to) = <<buf[from]>> \o Window(buf, from + 1, to)
<1>1. from \in from .. to - 1 /\ from + 1 \in Nat /\ from + 1 <= to
      /\ \A i \in from + 1 .. to - 1 : i \in from .. to - 1
  OBVIOUS
<1>2. PICK b \in S : b = buf[from]
  BY <1>1 DEF HasType
<1>3. PICK t \in Seq(S) : t = Window(buf, from + 1, to) /\ Len(t) = to - (from + 1)
  <2>1. PICK n \in Nat : n = from + 1 /\ n <= to
    BY <1>1
  <2>2. HasType(buf, n, to, S)
    BY <1>1, <2>1 DEF HasType
  <2>3. Window(buf, n, to) \in Seq(S) /\ Len(Window(buf, n, to)) = to - n
    BY <2>1, <2>2, WindowType
  <2> QED
    BY <2>1, <2>3
<1>4. PICK w \in Seq(S) : w = Window(buf, from, to) /\ Len(w) = to - from
  <2>1. from <= to
    OBVIOUS
  <2> QED
    BY <2>1, WindowType
<1>5. PICK one \in Seq(S) : one = <<b>> /\ Len(one) = 1 /\ one[1] = b
  <2>1. <<b>> \in Seq(S) /\ Len(<<b>>) = 1 /\ (<<b>>)[1] = b
    OBVIOUS
  <2> QED
    BY <2>1
<1>6. PICK u \in Seq(S) : /\ u = one \o t /\ Len(u) = 1 + Len(t)
                          /\ \A i \in 1 .. 1 + Len(t) : u[i] = IF i <= 1 THEN one[i] ELSE t[i - 1]
  <2>1. /\ one \o t \in Seq(S) /\ Len(one \o t) = Len(one) + Len(t)
        /\ \A i \in 1 .. Len(one) + Len(t) :
             (one \o t)[i] = IF i <= Len(one) THEN one[i] ELSE t[i - Len(one)]
    BY ConcatProperties
  <2> QED
    BY <1>5, <2>1
<1>7. ASSUME NEW i \in 1 .. Len(w) PROVE w[i] = u[i]
  <2>1. /\ i \in 1 .. to - from /\ i \in 1 .. 1 + Len(t) /\ w[i] = buf[from + i - 1]
    BY <1>3, <1>4 DEF Window
  <2>2. CASE i = 1
    <3>1. from + i - 1 = from
      BY <2>2
    <3> QED
      BY <1>2, <1>5, <1>6, <2>1, <2>2, <3>1
  <2>3. CASE i # 1
    <3>1. ~(i <= 1) /\ i - 1 \in 1 .. to - (from + 1) /\ from + 1 + (i - 1) - 1 = from + i - 1
      BY <2>1, <2>3
    <3>2. u[i] = t[i - 1]
      BY <1>6, <2>1, <3>1
    <3>3. t[i - 1] = buf[from + 1 + (i - 1) - 1]
      BY <1>3, <3>1 DEF Window
    <3> QED
      BY <2>1, <3>1, <3>2, <3>3
  <2> QED
    BY <2>2, <2>3
<1>8. Len(w) = Len(u)
  <2>1. 1 + (to - (from + 1)) = to - from
    OBVIOUS
  <2>2. Len(u) = 1 + (to - (from + 1))
    BY <1>3, <1>6
  <2> QED
    BY <1>4, <2>1, <2>2
<1>9. w = u
  BY <1>7, <1>8, SeqEqual
<1> QED
  BY <1>2, <1>3, <1>4, <1>5, <1>6, <1>9

-----------------------------------------------------------------------------
(* Induction, from the well-foundedness of < on Nat.                       *)

\* A set of natural numbers has a least element.
LEMMA LeastNat ==
  ASSUME NEW T, T \subseteq Nat, T # {}
  PROVE  \E m \in T : \A k \in T : m <= k
<1> DEFINE Less == {ss \in Nat \X Nat : ss[1] < ss[2]}
<1>1. IsWellFoundedOn(Less, Nat)
  BY NatLessThanWellFounded DEF OpToRel
<1> HIDE DEF Less
<1>2. PICK m \in T : \A k \in T : ~ (<<k, m>> \in Less)
  BY <1>1, WFMin
<1>3. ASSUME NEW k \in T PROVE m <= k
  <2>1. ~(k < m)
    BY <1>2 DEF Less
  <2> QED
    BY <2>1
<1> QED
  BY <1>3

LEMMA Induct ==
  ASSUME NEW T, 0 \in T, \A n \in Nat : n \in T => n + 1 \in T
  PROVE  Nat \subseteq T
<1> SUFFICES ASSUME Nat \ T # {} PROVE FALSE
  OBVIOUS
<1>1. PICK m \in Nat \ T : \A k \in Nat \ T : m <= k
  BY LeastNat
<1>2. m # 0 /\ m - 1 \in Nat
  BY <1>1
<1>3. m - 1 \in T
  BY <1>1, <1>2
<1> QED
  BY <1>1, <1>2, <1>3

-----------------------------------------------------------------------------
(* FlattenSeq: the function it is defined by, and how it grows.            *)

\* g is the concatenation of the first i elements of ss, for i up to n.
Flat(g, ss, n) == g = [i \in 1 .. n |-> IF i = 1 THEN ss[i] ELSE g[i - 1] \o ss[i]]

LEMMA FlatExists ==
  ASSUME NEW ss, NEW n \in Nat
  PROVE  \E g : Flat(g, ss, n)
<1> DEFINE T == {k \in Nat : \E g : Flat(g, ss, k)}
<1>1. 0 \in T
  <2> DEFINE e == [i \in 1 .. 0 |-> i]
  <2>1. e = [i \in 1 .. 0 |-> IF i = 1 THEN ss[i] ELSE e[i - 1] \o ss[i]]
    OBVIOUS
  <2>2. Flat(e, ss, 0)
    BY <2>1 DEF Flat
  <2> QED
    BY <2>2
<1>2. ASSUME NEW k \in Nat, k \in T PROVE k + 1 \in T
  <2>1. PICK g : Flat(g, ss, k)
    BY <1>2
  <2> DEFINE last == IF k = 0 THEN ss[1] ELSE g[k] \o ss[k + 1]
             h == [i \in 1 .. k + 1 |-> IF i = k + 1 THEN last ELSE g[i]]
  <2>2. \A i \in 1 .. k : g[i] = IF i = 1 THEN ss[i] ELSE g[i - 1] \o ss[i]
    BY <2>1 DEF Flat
  <2>3. ASSUME NEW i \in 1 .. k + 1
        PROVE  h[i] = IF i = 1 THEN ss[i] ELSE h[i - 1] \o ss[i]
    <3>1. CASE i = k + 1
      <4>1. CASE k = 0
        BY <3>1, <4>1
      <4>2. CASE k # 0
        <5>1. h[k] = g[k] /\ k \in 1 .. k + 1
          BY <4>2
        <5>2. h[i] = g[k] \o ss[k + 1]
          BY <3>1, <4>2
        <5>3. i - 1 = k /\ i # 1
          BY <3>1, <4>2
        <5> HIDE DEF h
        <5> QED
          BY <3>1, <5>1, <5>2, <5>3
      <4> QED
        BY <4>1, <4>2
    <3>2. CASE i # k + 1
      <4>1. i \in 1 .. k /\ h[i] = g[i]
        BY <3>2
      <4>2. i # 1 => h[i - 1] = g[i - 1]
        BY <4>1
      <4> QED
        BY <2>2, <4>1, <4>2
    <3> QED
      BY <3>1, <3>2
  <2>4. h = [i \in 1 .. k + 1 |-> IF i = 1 THEN ss[i] ELSE h[i - 1] \o ss[i]]
    <3>1. h = [i \in 1 .. k + 1 |-> h[i]]
      OBVIOUS
    <3> HIDE DEF h
    <3> QED
      BY <2>3, <3>1
  <2>5. Flat(h, ss, k + 1)
    BY <2>4 DEF Flat
  <2> QED
    BY <2>5
<1> QED
  <2> HIDE DEF T
  <2>1. Nat \subseteq T
    BY <1>1, <1>2, Induct
  <2> QED
    BY <2>1 DEF T

LEMMA FlatUnique ==
  ASSUME NEW ss, NEW n \in Nat, NEW f, NEW g, Flat(f, ss, n), Flat(g, ss, n)
  PROVE  f = g
<1> DEFINE T == {i \in 1 .. n : f[i] # g[i]}
<1>0. /\ \A i \in 1 .. n : f[i] = IF i = 1 THEN ss[i] ELSE f[i - 1] \o ss[i]
      /\ \A i \in 1 .. n : g[i] = IF i = 1 THEN ss[i] ELSE g[i - 1] \o ss[i]
  BY DEF Flat
<1>1. ASSUME T # {} PROVE FALSE
  <2>1. PICK m \in T : \A k \in T : m <= k
    <3>1. T \subseteq Nat
      OBVIOUS
    <3> HIDE DEF T
    <3> QED
      BY <1>1, <3>1, LeastNat
  <2>2. m # 1
    BY <1>0
  <2>3. m - 1 \in 1 .. n /\ m - 1 \notin T
    BY <2>1, <2>2
  <2>4. f[m - 1] = g[m - 1]
    BY <2>3
  <2> QED
    BY <1>0, <2>1, <2>2, <2>4
<1>2. f = [i \in 1 .. n |-> f[i]] /\ g = [i \in 1 .. n |-> g[i]]
  BY DEF Flat
<1> QED
  BY <1>1, <1>2

LEMMA FlattenIs ==
  ASSUME NEW ss, Len(ss) \in Nat \ {0}, NEW g, Flat(g, ss, Len(ss))
  PROVE  FlattenSeq(ss) = g[Len(ss)]
<1> DEFINE f == CHOOSE h : Flat(h, ss, Len(ss))
<1>1. Flat(f, ss, Len(ss))
  OBVIOUS
<1>2. f = g
  BY <1>1, FlatUnique
<1>3. FlattenSeq(ss) = f[Len(ss)]
  BY DEF FlattenSeq, Flat
<1> QED
  BY <1>2, <1>3

LEMMA FlattenEmpty == FlattenSeq(<< >>) = << >>
BY DEF FlattenSeq

LEMMA FlattenAppend ==
  ASSUME NEW S, NEW ss \in Seq(Seq(S)), NEW s \in Seq(S)
  PROVE  FlattenSeq(Append(ss, s)) = FlattenSeq(ss) \o s
<1> DEFINE t == Append(ss, s)
           n == Len(ss)
<1>1. /\ n \in Nat /\ Len(t) = n + 1 /\ t[n + 1] = s
      /\ \A i \in 1 .. n : t[i] = ss[i]
  BY AppendProperties, LenProperties
<1> HIDE DEF t
<1>2. PICK g : Flat(g, t, n + 1)
  <2>1. n + 1 \in Nat
    BY <1>1
  <2> QED
    BY <2>1, FlatExists
<1>3. FlattenSeq(t) = g[n + 1]
  BY <1>1, <1>2, FlattenIs
<1>4. \A i \in 1 .. n + 1 : g[i] = IF i = 1 THEN t[i] ELSE g[i - 1] \o t[i]
  BY <1>2 DEF Flat
<1>5. CASE n = 0
  <2>1. g[n + 1] = s
    BY <1>1, <1>4, <1>5
  <2>2. FlattenSeq(ss) = << >>
    BY <1>5, FlattenEmpty, EmptySeq
  <2> QED
    BY <1>3, <2>1, <2>2, ConcatEmptySeq DEF t
<1>6. CASE n # 0
  <2> DEFINE h == [i \in 1 .. n |-> g[i]]
  <2>1. ASSUME NEW i \in 1 .. n
        PROVE  h[i] = IF i = 1 THEN ss[i] ELSE h[i - 1] \o ss[i]
    <3>1. i \in 1 .. n + 1 /\ h[i] = g[i] /\ t[i] = ss[i]
      BY <1>1
    <3>2. i # 1 => h[i - 1] = g[i - 1]
      BY <1>1
    <3> QED
      BY <1>4, <3>1, <3>2
  <2>2. h = [i \in 1 .. n |-> h[i]]
    OBVIOUS
  <2> HIDE DEF h
  <2>3. Flat(h, ss, n)
    BY <2>1, <2>2 DEF Flat
  <2>4. FlattenSeq(ss) = h[n]
    BY <1>1, <1>6, <2>3, FlattenIs
  <2>5. h[n] = g[n]
    BY <1>1, <1>6 DEF h
  <2>6. g[n + 1] = g[n] \o s
    <3>1. n + 1 # 1 /\ (n + 1) - 1 = n /\ n + 1 \in 1 .. n + 1
      BY <1>1, <1>6
    <3>2. g[n + 1] = IF n + 1 = 1 THEN t[n + 1] ELSE g[(n + 1) - 1] \o t[n + 1]
      BY <1>4, <3>1
    <3> QED
      BY <1>1, <3>1, <3>2
  <2> QED
    BY <1>3, <2>4, <2>5, <2>6 DEF t
<1> QED
  BY <1>5, <1>6

LEMMA FlattenType ==
  ASSUME NEW S, NEW ss \in Seq(Seq(S))
  PROVE  FlattenSeq(ss) \in Seq(S)
<1> DEFINE T == {n \in Nat : \A tt \in Seq(Seq(S)) : Len(tt) = n => FlattenSeq(tt) \in Seq(S)}
<1>1. 0 \in T
  <2> SUFFICES ASSUME NEW tt \in Seq(Seq(S)), Len(tt) = 0 PROVE FlattenSeq(tt) \in Seq(S)
    OBVIOUS
  <2> QED
    BY EmptySeq, FlattenEmpty
<1>2. ASSUME NEW n \in Nat, n \in T PROVE n + 1 \in T
  <2> SUFFICES ASSUME NEW tt \in Seq(Seq(S)), Len(tt) = n + 1 PROVE FlattenSeq(tt) \in Seq(S)
    OBVIOUS
  <2>1. PICK uu \in Seq(Seq(S)), u \in Seq(S) : tt = Append(uu, u) /\ Len(uu) = n
    <3>1. /\ tt = Append(SubSeq(tt, 1, n), tt[n + 1])
          /\ SubSeq(tt, 1, n) \in Seq(Seq(S)) /\ Len(SubSeq(tt, 1, n)) = n
          /\ tt[n + 1] \in Seq(S)
      BY LenProperties, ElementOfSeq
    <3> QED
      BY <3>1
  <2>2. FlattenSeq(uu) \in Seq(S)
    BY <1>2, <2>1
  <2> QED
    BY <2>1, <2>2, FlattenAppend, ConcatProperties
<1> QED
  <2> HIDE DEF T
  <2>1. Nat \subseteq T
    BY <1>1, <1>2, Induct
  <2> QED
    BY <2>1, LenProperties DEF T

LEMMA FlattenCons ==
  ASSUME NEW S, NEW ss \in Seq(Seq(S)), NEW s \in Seq(S)
  PROVE  FlattenSeq(<<s>> \o ss) = s \o FlattenSeq(ss)
<1> DEFINE P(tt) == FlattenSeq(<<s>> \o tt) = s \o FlattenSeq(tt)
           T == {n \in Nat : \A tt \in Seq(Seq(S)) : Len(tt) = n => P(tt)}
<1> HIDE DEF P
<1>0. <<s>> \in Seq(Seq(S)) /\ << >> \in Seq(Seq(S))
  OBVIOUS
<1>1. 0 \in T
  <2> SUFFICES ASSUME NEW tt \in Seq(Seq(S)), Len(tt) = 0
               PROVE  P(tt)
    OBVIOUS
  <2>1. tt = << >>
    BY EmptySeq
  <2>2. <<s>> \o tt = <<s>> /\ <<s>> = Append(<< >>, s)
    BY <1>0, <2>1, ConcatEmptySeq
  <2>3. FlattenSeq(<<s>> \o tt) = << >> \o s
    BY <1>0, <2>2, FlattenAppend, FlattenEmpty
  <2> QED
    BY <2>1, <2>3, ConcatEmptySeq, FlattenEmpty DEF P
<1>2. ASSUME NEW n \in Nat, n \in T PROVE n + 1 \in T
  <2> SUFFICES ASSUME NEW tt \in Seq(Seq(S)), Len(tt) = n + 1
               PROVE  P(tt)
    OBVIOUS
  <2>1. PICK uu \in Seq(Seq(S)), u \in Seq(S) : tt = Append(uu, u) /\ Len(uu) = n
    <3>1. /\ tt = Append(SubSeq(tt, 1, n), tt[n + 1])
          /\ SubSeq(tt, 1, n) \in Seq(Seq(S)) /\ Len(SubSeq(tt, 1, n)) = n
          /\ tt[n + 1] \in Seq(S)
      BY LenProperties, ElementOfSeq
    <3> QED
      BY <3>1
  <2>2. <<s>> \o tt = Append(<<s>> \o uu, u) /\ <<s>> \o uu \in Seq(Seq(S))
    <3>1. tt = uu \o <<u>> /\ <<u>> \in Seq(Seq(S))
      BY <2>1, AppendIsConcat
    <3>2. <<s>> \o tt = (<<s>> \o uu) \o <<u>> /\ <<s>> \o uu \in Seq(Seq(S))
      BY <1>0, <3>1, ConcatAssociative, ConcatProperties
    <3> QED
      BY <3>2, AppendIsConcat
  <2>3. FlattenSeq(<<s>> \o tt) = FlattenSeq(<<s>> \o uu) \o u
    BY <2>2, FlattenAppend
  <2>4. FlattenSeq(<<s>> \o uu) = s \o FlattenSeq(uu) /\ FlattenSeq(uu) \in Seq(S)
    BY <1>2, <2>1, FlattenType DEF P
  <2>5. FlattenSeq(tt) = FlattenSeq(uu) \o u
    BY <2>1, FlattenAppend
  <2>6. (s \o FlattenSeq(uu)) \o u = s \o (FlattenSeq(uu) \o u)
    BY <2>1, <2>4, ConcatAssociative
  <2> QED
    BY <2>3, <2>4, <2>5, <2>6 DEF P
<1> QED
  <2> HIDE DEF T
  <2>1. Nat \subseteq T
    BY <1>1, <1>2, Induct
  <2> QED
    BY <2>1, LenProperties DEF T, P
-----------------------------------------------------------------------------
(* The concatenation of what a function f gives for each message.          *)

MapSeq(f, ms) == [k \in DOMAIN ms |-> f[ms[k]]]
Joined(f, ms) == FlattenSeq(MapSeq(f, ms))
IsMap(f, M, S) == f \in [M -> Seq(S)]

LEMMA MapType ==
  ASSUME NEW S, NEW M, NEW f, IsMap(f, M, S), NEW ms \in Seq(M)
  PROVE  /\ Len(ms) \in Nat
         /\ MapSeq(f, ms) \in Seq(Seq(S)) /\ Len(MapSeq(f, ms)) = Len(ms)
         /\ \A k \in 1 .. Len(ms) : MapSeq(f, ms)[k] = f[ms[k]]
<1>1. Len(ms) \in Nat /\ DOMAIN ms = 1 .. Len(ms) /\ \A k \in 1 .. Len(ms) : ms[k] \in M
  BY LenProperties, ElementOfSeq
<1>2. \A k \in 1 .. Len(ms) : f[ms[k]] \in Seq(S)
  BY <1>1 DEF IsMap
<1>3. MapSeq(f, ms) = [k \in 1 .. Len(ms) |-> f[ms[k]]]
  BY <1>1 DEF MapSeq
<1>4. [k \in 1 .. Len(ms) |-> f[ms[k]]] \in Seq(Seq(S))
  BY <1>1, <1>2, IsASeq
<1>5. DOMAIN MapSeq(f, ms) = 1 .. Len(MapSeq(f, ms)) /\ Len(MapSeq(f, ms)) \in Nat
  BY <1>3, <1>4, LenProperties
<1>6. DOMAIN MapSeq(f, ms) = 1 .. Len(ms)
  BY <1>3
<1>7. Len(MapSeq(f, ms)) = Len(ms)
  <2>1. ASSUME NEW n \in Nat, NEW k \in Nat, 1 .. n = 1 .. k, n < k PROVE FALSE
    <3>1. k \in 1 .. k /\ k \notin 1 .. n
      BY <2>1
    <3> QED
      BY <2>1, <3>1
  <2>2. PICK n \in Nat, k \in Nat : n = Len(MapSeq(f, ms)) /\ k = Len(ms)
    BY <1>1, <1>5
  <2>3. 1 .. n = 1 .. k
    BY <1>5, <1>6, <2>2
  <2>4. ~(n < k) /\ ~(k < n)
    BY <2>1, <2>3
  <2>5. n = k
    BY <2>4
  <2> QED
    BY <2>2, <2>5
<1> QED
  BY <1>1, <1>3, <1>4, <1>7

LEMMA JoinedType ==
  ASSUME NEW S, NEW M, NEW f, IsMap(f, M, S), NEW ms \in Seq(M)
  PROVE  Joined(f, ms) \in Seq(S)
BY MapType, FlattenType DEF Joined

LEMMA JoinedEmpty ==
  ASSUME NEW f
  PROVE  Joined(f, << >>) = << >>
<1>1. MapSeq(f, << >>) = << >>
  BY DEF MapSeq
<1> QED
  BY <1>1, FlattenEmpty DEF Joined

LEMMA JoinedAppend ==
  ASSUME NEW S, NEW M, NEW f, IsMap(f, M, S), NEW ms \in Seq(M), NEW m \in M
  PROVE  Joined(f, Append(ms, m)) = Joined(f, ms) \o f[m]
<1>1. PICK t \in Seq(M) : /\ t = Append(ms, m) /\ Len(t) = Len(ms) + 1 /\ t[Len(ms) + 1] = m
                          /\ \A k \in 1 .. Len(ms) : t[k] = ms[k]
  <2>1. /\ Append(ms, m) \in Seq(M) /\ Len(Append(ms, m)) = Len(ms) + 1
        /\ Append(ms, m)[Len(ms) + 1] = m
        /\ \A k \in 1 .. Len(ms) : Append(ms, m)[k] = ms[k]
    BY AppendProperties
  <2> QED
    BY <2>1
<1>2. PICK ff \in Seq(Seq(S)) : /\ ff = MapSeq(f, ms) /\ Len(ff) = Len(ms) /\ Len(ms) \in Nat
                                /\ \A k \in 1 .. Len(ms) : ff[k] = f[ms[k]]
  <2>1. /\ MapSeq(f, ms) \in Seq(Seq(S)) /\ Len(MapSeq(f, ms)) = Len(ms) /\ Len(ms) \in Nat
        /\ \A k \in 1 .. Len(ms) : MapSeq(f, ms)[k] = f[ms[k]]
    BY MapType
  <2> QED
    BY <2>1
<1>3. PICK gg \in Seq(Seq(S)) : /\ gg = MapSeq(f, t) /\ Len(gg) = Len(t)
                                /\ \A k \in 1 .. Len(t) : gg[k] = f[t[k]]
  <2>1. /\ MapSeq(f, t) \in Seq(Seq(S)) /\ Len(MapSeq(f, t)) = Len(t)
        /\ \A k \in 1 .. Len(t) : MapSeq(f, t)[k] = f[t[k]]
    BY MapType
  <2> QED
    BY <2>1
<1>4. PICK s \in Seq(S) : s = f[m]
  BY DEF IsMap
<1>5. PICK hh \in Seq(Seq(S)) : /\ hh = Append(ff, s) /\ Len(hh) = Len(ms) + 1
                                /\ hh[Len(ms) + 1] = s
                                /\ \A k \in 1 .. Len(ms) : hh[k] = ff[k]
  <2>1. /\ Append(ff, s) \in Seq(Seq(S)) /\ Len(Append(ff, s)) = Len(ff) + 1
        /\ Append(ff, s)[Len(ff) + 1] = s
        /\ \A k \in 1 .. Len(ff) : Append(ff, s)[k] = ff[k]
    BY AppendProperties
  <2> QED
    BY <1>2, <2>1
<1>6. ASSUME NEW k \in 1 .. Len(gg) PROVE gg[k] = hh[k]
  <2>0. k \in 1 .. Len(ms) + 1 /\ gg[k] = f[t[k]]
    BY <1>1, <1>3
  <2>1. CASE k = Len(ms) + 1
    <3>1. t[k] = m /\ hh[k] = s
      BY <1>1, <1>5, <2>1
    <3> QED
      BY <1>4, <2>0, <3>1
  <2>2. CASE k # Len(ms) + 1
    <3>1. k \in 1 .. Len(ms)
      BY <1>2, <2>0, <2>2
    <3>2. t[k] = ms[k] /\ ff[k] = f[ms[k]] /\ hh[k] = ff[k]
      BY <1>1, <1>2, <1>5, <3>1
    <3> QED
      BY <2>0, <3>2
  <2> QED
    BY <2>1, <2>2
<1>7. gg = hh
  BY <1>1, <1>3, <1>5, <1>6, SeqEqual
<1>8. FlattenSeq(hh) = FlattenSeq(ff) \o s
  BY <1>5, FlattenAppend
<1> QED
  BY <1>1, <1>2, <1>3, <1>4, <1>7, <1>8 DEF Joined

\* What the first message gives, and the others.
FirstApart(f, ms) == Joined(f, ms) = f[ms[1]] \o Joined(f, SubSeq(ms, 2, Len(ms)))

LEMMA JoinedFirst ==
  ASSUME NEW S, NEW M, NEW f, IsMap(f, M, S), NEW ms \in Seq(M), ms # << >>
  PROVE  FirstApart(f, ms)
<1>0. Len(ms) > 0
  BY LenProperties, EmptySeq
<1>1. Len(ms) \in Nat /\ 1 \in 1 .. Len(ms) /\ ms[1] \in M /\ 1 \in 0 .. Len(ms)
  BY <1>0, LenProperties, ElementOfSeq
<1>2. PICK t \in Seq(M) : /\ t = SubSeq(ms, 2, Len(ms)) /\ Len(t) = Len(ms) - 1
                          /\ \A k \in 1 .. Len(ms) - 1 : t[k] = ms[1 + k]
  <2>1. /\ SubSeq(ms, 1 + 1, Len(ms)) \in Seq(M) /\ Len(SubSeq(ms, 1 + 1, Len(ms))) = Len(ms) - 1
        /\ \A k \in 1 .. Len(ms) - 1 : SubSeq(ms, 1 + 1, Len(ms))[k] = ms[1 + k]
    BY <1>1, Behind
  <2>2. 1 + 1 = 2
    OBVIOUS
  <2> QED
    BY <2>1, <2>2
<1>3. PICK s \in Seq(S) : s = f[ms[1]]
  BY <1>1 DEF IsMap
<1>4. PICK ff \in Seq(Seq(S)) : /\ ff = MapSeq(f, t) /\ Len(ff) = Len(t)
                                /\ \A k \in 1 .. Len(t) : ff[k] = f[t[k]]
  <2>1. /\ MapSeq(f, t) \in Seq(Seq(S)) /\ Len(MapSeq(f, t)) = Len(t)
        /\ \A k \in 1 .. Len(t) : MapSeq(f, t)[k] = f[t[k]]
    BY MapType
  <2> QED
    BY <2>1
<1>5. PICK gg \in Seq(Seq(S)) : /\ gg = MapSeq(f, ms) /\ Len(gg) = Len(ms)
                                /\ \A k \in 1 .. Len(ms) : gg[k] = f[ms[k]]
  <2>1. /\ MapSeq(f, ms) \in Seq(Seq(S)) /\ Len(MapSeq(f, ms)) = Len(ms)
        /\ \A k \in 1 .. Len(ms) : MapSeq(f, ms)[k] = f[ms[k]]
    BY MapType
  <2> QED
    BY <2>1
<1>6. PICK one \in Seq(Seq(S)) : one = <<s>> /\ Len(one) = 1 /\ one[1] = s
  <2>1. <<s>> \in Seq(Seq(S)) /\ Len(<<s>>) = 1 /\ (<<s>>)[1] = s
    OBVIOUS
  <2> QED
    BY <2>1
<1>7. PICK hh \in Seq(Seq(S)) :
        /\ hh = one \o ff /\ Len(hh) = 1 + Len(ff)
        /\ \A k \in 1 .. 1 + Len(ff) : hh[k] = IF k <= 1 THEN one[k] ELSE ff[k - 1]
  <2>1. /\ one \o ff \in Seq(Seq(S)) /\ Len(one \o ff) = Len(one) + Len(ff)
        /\ \A k \in 1 .. Len(one) + Len(ff) :
             (one \o ff)[k] = IF k <= Len(one) THEN one[k] ELSE ff[k - Len(one)]
    BY ConcatProperties
  <2> QED
    BY <1>6, <2>1
<1>8. Len(hh) = Len(ms)
  BY <1>1, <1>2, <1>4, <1>7
<1>9. ASSUME NEW k \in 1 .. Len(gg) PROVE gg[k] = hh[k]
  <2>0. k \in 1 .. Len(ms) /\ k \in 1 .. 1 + Len(ff)
    BY <1>1, <1>2, <1>4, <1>5
  <2>1. CASE k = 1
    <3>1. hh[k] = s
      BY <1>6, <1>7, <2>0, <2>1
    <3> QED
      BY <1>3, <1>5, <2>0, <2>1, <3>1
  <2>2. CASE k # 1
    <3>1. k - 1 \in 1 .. Len(ms) - 1 /\ ~(k <= 1) /\ 1 + (k - 1) = k
      BY <1>1, <2>0, <2>2
    <3>2. hh[k] = ff[k - 1]
      BY <1>7, <2>0, <3>1
    <3>3. ff[k - 1] = f[t[k - 1]] /\ t[k - 1] = ms[k]
      BY <1>2, <1>4, <3>1
    <3> QED
      BY <1>5, <2>0, <3>2, <3>3
  <2> QED
    BY <2>1, <2>2
<1>10. gg = hh
  BY <1>5, <1>8, <1>9, SeqEqual, Zenon
<1>11. FlattenSeq(hh) = s \o FlattenSeq(ff)
  BY <1>6, <1>7, FlattenCons
<1> QED
  BY <1>2, <1>3, <1>4, <1>5, <1>10, <1>11 DEF Joined, FirstApart
-----------------------------------------------------------------------------
(* The indices of a ring of module Ring.                                   *)

\* Below size, % leaves an index alone.
LEMMA ModBelow ==
  ASSUME NEW size \in Nat \ {0}, NEW x \in 0 .. size - 1
  PROVE  x % size = x
OBVIOUS

\* Between size and 2 size, % subtracts size once.
LEMMA ModAbove ==
  ASSUME NEW size \in Nat \ {0}, NEW x \in size .. 2 * size - 1
  PROVE  x % size = x - size
OBVIOUS

\* The successor of a slot is a slot.
LEMMA SuccessorSlot ==
  ASSUME NEW size \in Nat \ {0}, NEW i \in Slot(size)
  PROVE  /\ successor(i, size) \in Slot(size)
         /\ successor(i, size) = IF i + 1 < size THEN i + 1 ELSE 0
<1>1. CASE i + 1 < size
  <2>1. i + 1 \in 0 .. size - 1
    BY <1>1 DEF Slot
  <2> QED
    BY <1>1, <2>1, ModBelow DEF Slot, successor
<1>2. CASE ~(i + 1 < size)
  <2>1. i + 1 = size /\ size \in size .. 2 * size - 1
    BY <1>2 DEF Slot
  <2>2. size % size = 0
    BY <2>1, ModAbove
  <2> QED
    BY <1>2, <2>1, <2>2 DEF Slot, successor
<1> QED
  BY <1>1, <1>2

\* Different slots have different successors.
LEMMA SuccessorInjective ==
  ASSUME NEW size \in Nat \ {0}, NEW i \in Slot(size), NEW j \in Slot(size), i # j
  PROVE  successor(i, size) # successor(j, size)
<1>1. i \in 0 .. size - 1 /\ j \in 0 .. size - 1 /\ size \in Nat
  BY DEF Slot
<1>2. successor(i, size) = IF i + 1 < size THEN i + 1 ELSE 0
  BY SuccessorSlot
<1>3. successor(j, size) = IF j + 1 < size THEN j + 1 ELSE 0
  BY SuccessorSlot
<1> QED
  BY <1>1, <1>2, <1>3

\* The count is the distance from r to w around the ring.
LEMMA CountIs ==
  ASSUME NEW size \in Nat \ {0}, NEW w \in Slot(size), NEW r \in Slot(size)
  PROVE  /\ count(w, r, size) \in 0 .. size - 1
         /\ count(w, r, size) = IF w >= r THEN w - r ELSE w - r + size
<1>1. CASE w >= r
  <2>1. w - r + size \in size .. 2 * size - 1
    BY <1>1 DEF Slot
  <2>2. PICK x \in size .. 2 * size - 1 : x = w - r + size
    BY <2>1
  <2>3. x % size = x - size
    BY ModAbove
  <2> QED
    BY <1>1, <2>2, <2>3 DEF Slot, count
<1>2. CASE ~(w >= r)
  <2>1. w - r + size \in 0 .. size - 1
    BY <1>2 DEF Slot
  <2> QED
    BY <1>2, <2>1, ModBelow DEF Slot, count
<1> QED
  BY <1>1, <1>2

\* The producer's step adds one to the count, the ring being full at size - 1.
LEMMA CountPublish ==
  ASSUME NEW size \in Nat \ {0}, NEW w \in Slot(size), NEW r \in Slot(size)
  PROVE  /\ successor(w, size) = r <=> count(w, r, size) = size - 1
         /\ successor(w, size) # r => count(successor(w, size), r, size) = count(w, r, size) + 1
<1>1. w \in 0 .. size - 1 /\ r \in 0 .. size - 1 /\ size \in Nat \ {0}
  BY DEF Slot
<1>2. successor(w, size) \in Slot(size) /\ successor(w, size) = IF w + 1 < size THEN w + 1 ELSE 0
  BY SuccessorSlot
<1>3. count(w, r, size) = IF w >= r THEN w - r ELSE w - r + size
  BY CountIs
<1>4. count(successor(w, size), r, size)
        = IF successor(w, size) >= r THEN successor(w, size) - r ELSE successor(w, size) - r + size
  BY <1>2, CountIs
<1> DEFINE c == count(w, r, size)
           d == count(successor(w, size), r, size)
           s == successor(w, size)
<1> HIDE DEF c, d, s
<1>5. /\ s = IF w + 1 < size THEN w + 1 ELSE 0
      /\ c = IF w >= r THEN w - r ELSE w - r + size
      /\ d = IF s >= r THEN s - r ELSE s - r + size
  BY <1>2, <1>3, <1>4 DEF c, d, s
<1>6. s = r <=> c = size - 1
  BY <1>1, <1>5
<1>7. s # r => d = c + 1
  BY <1>1, <1>5
<1> QED
  BY <1>6, <1>7 DEF c, d, s

\* The consumer's step takes one from it, the ring being empty at 0.
LEMMA CountAdvance ==
  ASSUME NEW size \in Nat \ {0}, NEW w \in Slot(size), NEW r \in Slot(size)
  PROVE  /\ w = r <=> count(w, r, size) = 0
         /\ w # r => count(w, successor(r, size), size) = count(w, r, size) - 1
<1>1. w \in 0 .. size - 1 /\ r \in 0 .. size - 1 /\ size \in Nat \ {0}
  BY DEF Slot
<1>2. successor(r, size) \in Slot(size) /\ successor(r, size) = IF r + 1 < size THEN r + 1 ELSE 0
  BY SuccessorSlot
<1>3. count(w, r, size) = IF w >= r THEN w - r ELSE w - r + size
  BY CountIs
<1>4. count(w, successor(r, size), size)
        = IF w >= successor(r, size) THEN w - successor(r, size) ELSE w - successor(r, size) + size
  BY <1>2, CountIs
<1> DEFINE c == count(w, r, size)
           d == count(w, successor(r, size), size)
           s == successor(r, size)
<1> HIDE DEF c, d, s
<1>5. /\ s = IF r + 1 < size THEN r + 1 ELSE 0
      /\ c = IF w >= r THEN w - r ELSE w - r + size
      /\ d = IF w >= s THEN w - s ELSE w - s + size
  BY <1>2, <1>3, <1>4 DEF c, d, s
<1>6. w = r <=> c = 0
  BY <1>1, <1>5
<1>7. w # r => d = c - 1
  BY <1>1, <1>5
<1> QED
  BY <1>6, <1>7 DEF c, d, s

\* Where the k-th oldest byte lies.
LEMMA PositionIs ==
  ASSUME NEW size \in Nat \ {0}, NEW r \in Slot(size), NEW k \in 1 .. size
  PROVE  /\ (r + k - 1) % size \in Slot(size)
         /\ (r + k - 1) % size = IF r + k - 1 < size THEN r + k - 1 ELSE r + k - 1 - size
<1>1. CASE r + k - 1 < size
  <2>1. r + k - 1 \in 0 .. size - 1
    BY <1>1 DEF Slot
  <2> QED
    BY <1>1, <2>1, ModBelow DEF Slot
<1>2. CASE ~(r + k - 1 < size)
  <2>1. r + k - 1 \in size .. 2 * size - 1
    BY <1>2 DEF Slot
  <2> QED
    BY <1>2, <2>1, ModAbove DEF Slot
<1> QED
  BY <1>1, <1>2

-----------------------------------------------------------------------------
(* How its contents change.                                                *)

\* The contents are a sequence of as many bytes as the count says.
LEMMA RingType ==
  ASSUME NEW size \in Nat \ {0}, NEW S, NEW b \in Storage(size, S),
         NEW w \in Slot(size), NEW r \in Slot(size)
  PROVE  /\ Bytes(b, w, r, size) \in Seq(S)
         /\ Len(Bytes(b, w, r, size)) = count(w, r, size)
         /\ \A k \in 1 .. count(w, r, size) : Bytes(b, w, r, size)[k] = b[(r + k - 1) % size]
<1> DEFINE n == count(w, r, size)
<1>1. n \in Nat /\ n <= size
  BY CountIs
<1>2. ASSUME NEW k \in 1 .. n PROVE b[(r + k - 1) % size] \in S
  <2>1. k \in 1 .. size
    BY <1>1
  <2>2. (r + k - 1) % size \in Slot(size)
    BY <2>1, PositionIs
  <2> QED
    BY <2>2 DEF Storage
<1>3. Bytes(b, w, r, size) \in [1 .. n -> S]
  BY <1>2 DEF Bytes
<1> HIDE DEF n
<1>4. Bytes(b, w, r, size) \in Seq(S) /\ Len(Bytes(b, w, r, size)) = n
  BY <1>1, <1>3
<1> QED
  BY <1>4 DEF Bytes, n

\* A store into the free slot at w does not touch them.
StoredAt(c, b, w, v) == c = [b EXCEPT ![w] = v]

LEMMA RingStore ==
  ASSUME NEW size \in Nat \ {0}, NEW S, NEW b \in Storage(size, S),
         NEW w \in Slot(size), NEW r \in Slot(size), NEW v, NEW c, StoredAt(c, b, w, v)
  PROVE  Bytes(c, w, r, size) = Bytes(b, w, r, size)
<1>1. ASSUME NEW k \in 1 .. count(w, r, size)
      PROVE  c[(r + k - 1) % size] = b[(r + k - 1) % size]
  <2>1. k \in 1 .. size
    BY CountIs
  <2>2. w \in 0 .. size - 1 /\ r \in 0 .. size - 1 /\ size \in Nat
    BY DEF Slot
  <2>3. k <= (IF w >= r THEN w - r ELSE w - r + size)
    BY <2>2, CountIs
  <2>4. (r + k - 1) % size = IF r + k - 1 < size THEN r + k - 1 ELSE r + k - 1 - size
    BY <2>1, PositionIs
  <2>5. (r + k - 1) % size # w
    BY <2>1, <2>2, <2>3, <2>4
  <2>6. (r + k - 1) % size \in Slot(size)
    BY <2>1, PositionIs
  <2> QED
    BY <2>5, <2>6 DEF StoredAt, Storage
<1> QED
  BY <1>1 DEF Bytes

\* Moving w over a slot that is not the last free one appends its byte.
LEMMA RingPublish ==
  ASSUME NEW size \in Nat \ {0}, NEW S, NEW b \in Storage(size, S),
         NEW w \in Slot(size), NEW r \in Slot(size),
         successor(w, size) # r
  PROVE  Bytes(b, successor(w, size), r, size) = Append(Bytes(b, w, r, size), b[w])
<1> DEFINE old == Bytes(b, w, r, size)
           new == Bytes(b, successor(w, size), r, size)
           n   == count(w, r, size)
<1>1. successor(w, size) \in Slot(size)
  BY SuccessorSlot
<1>2. count(successor(w, size), r, size) = n + 1 /\ n \in Nat /\ n + 1 <= size
  <2>1. w \in 0 .. size - 1 /\ r \in 0 .. size - 1 /\ size \in Nat
    BY DEF Slot
  <2>2. n = IF w >= r THEN w - r ELSE w - r + size
    BY CountIs
  <2>3. count(successor(w, size), r, size)
          = IF successor(w, size) >= r THEN successor(w, size) - r ELSE successor(w, size) - r + size
    BY <1>1, CountIs
  <2>4. successor(w, size) = IF w + 1 < size THEN w + 1 ELSE 0
    BY SuccessorSlot
  <2> HIDE DEF n
  <2> QED
    BY <2>1, <2>2, <2>3, <2>4
<1>3. (r + (n + 1) - 1) % size = w
  <2>1. w \in 0 .. size - 1 /\ r \in 0 .. size - 1 /\ size \in Nat
    BY DEF Slot
  <2>2. n = IF w >= r THEN w - r ELSE w - r + size
    BY CountIs
  <2> HIDE DEF n
  <2>3. n + 1 \in 1 .. size
    BY <1>2, <2>1
  <2>4. (r + (n + 1) - 1) % size
          = IF r + (n + 1) - 1 < size THEN r + (n + 1) - 1 ELSE r + (n + 1) - 1 - size
    BY <2>3, PositionIs
  <2> QED
    BY <2>1, <2>2, <2>4
<1>4. old \in Seq(S) /\ Len(old) = n /\ \A k \in 1 .. n : old[k] = b[(r + k - 1) % size]
  BY RingType
<1>5. /\ new \in Seq(S) /\ Len(new) = n + 1
      /\ \A k \in 1 .. n + 1 : new[k] = b[(r + k - 1) % size]
  BY <1>1, <1>2, RingType
<1>6. b[w] \in S
  BY DEF Storage
<1> HIDE DEF old, new, n
<1>7. new[n + 1] = b[w]
  BY <1>2, <1>3, <1>5
<1>8. ASSUME NEW k \in 1 .. n
      PROVE  new[k] = old[k]
  <2>1. k \in 1 .. n + 1
    BY <1>2
  <2> QED
    BY <1>4, <1>5, <2>1
<1>9. /\ Append(old, b[w]) \in Seq(S) /\ Len(Append(old, b[w])) = n + 1
      /\ \A k \in 1 .. n : Append(old, b[w])[k] = old[k]
      /\ Append(old, b[w])[n + 1] = b[w]
  BY <1>4, <1>6, AppendProperties
<1>10. \A k \in 1 .. n + 1 : new[k] = Append(old, b[w])[k]
  BY <1>2, <1>7, <1>8, <1>9
<1> QED
  BY <1>2, <1>5, <1>9, <1>10, SeqEqual DEF old, new

\* Moving r over an occupied slot removes the oldest byte.
LEMMA RingAdvance ==
  ASSUME NEW size \in Nat \ {0}, NEW S, NEW b \in Storage(size, S),
         NEW w \in Slot(size), NEW r \in Slot(size),
         w # r
  PROVE  /\ Bytes(b, w, r, size) # << >>
         /\ Head(Bytes(b, w, r, size)) = b[r]
         /\ Bytes(b, w, successor(r, size), size) = Tail(Bytes(b, w, r, size))
<1> DEFINE old == Bytes(b, w, r, size)
           new == Bytes(b, w, successor(r, size), size)
           n   == count(w, r, size)
<1>1. successor(r, size) \in Slot(size)
  BY SuccessorSlot
<1>2. count(w, successor(r, size), size) = n - 1 /\ n \in 1 .. size - 1
  <2>1. w \in 0 .. size - 1 /\ r \in 0 .. size - 1 /\ size \in Nat
    BY DEF Slot
  <2>2. n = IF w >= r THEN w - r ELSE w - r + size
    BY CountIs
  <2>3. count(w, successor(r, size), size)
          = IF w >= successor(r, size) THEN w - successor(r, size) ELSE w - successor(r, size) + size
    BY <1>1, CountIs
  <2>4. successor(r, size) = IF r + 1 < size THEN r + 1 ELSE 0
    BY SuccessorSlot
  <2> HIDE DEF n
  <2> QED
    BY <2>1, <2>2, <2>3, <2>4
<1>3. old \in Seq(S) /\ Len(old) = n /\ \A k \in 1 .. n : old[k] = b[(r + k - 1) % size]
  BY RingType
<1>4. /\ new \in Seq(S) /\ Len(new) = n - 1
      /\ \A k \in 1 .. n - 1 : new[k] = b[(successor(r, size) + k - 1) % size]
  BY <1>1, <1>2, RingType
<1>5. ASSUME NEW k \in 1 .. n - 1
      PROVE  (successor(r, size) + k - 1) % size = (r + (k + 1) - 1) % size
  <2>1. r \in 0 .. size - 1 /\ size \in Nat
    BY DEF Slot
  <2>2. k \in 1 .. size /\ k + 1 \in 1 .. size
    BY <1>2, <2>1
  <2>3. successor(r, size) = IF r + 1 < size THEN r + 1 ELSE 0
    BY SuccessorSlot
  <2>4. (successor(r, size) + k - 1) % size
          = IF successor(r, size) + k - 1 < size THEN successor(r, size) + k - 1
                                           ELSE successor(r, size) + k - 1 - size
    BY <1>1, <2>2, PositionIs
  <2>5. (r + (k + 1) - 1) % size
          = IF r + (k + 1) - 1 < size THEN r + (k + 1) - 1 ELSE r + (k + 1) - 1 - size
    BY <2>2, PositionIs
  <2> QED
    BY <2>1, <2>2, <2>3, <2>4, <2>5
<1>6. (r + 1 - 1) % size = r
  BY PositionIs DEF Slot
<1> HIDE DEF old, new, n
<1>7. old # << >> /\ old[1] = b[r]
  BY <1>2, <1>3, <1>6
<1>8. /\ Tail(old) \in Seq(S) /\ Len(Tail(old)) = n - 1
      /\ \A k \in 1 .. n - 1 : Tail(old)[k] = old[k + 1]
  BY <1>3, <1>7, HeadTailProperties
<1>9. ASSUME NEW k \in 1 .. n - 1 PROVE new[k] = Tail(old)[k]
  <2>1. k + 1 \in 1 .. n
    BY <1>2
  <2> QED
    BY <1>3, <1>4, <1>5, <1>8, <2>1
<1>10. new = Tail(old)
  BY <1>2, <1>4, <1>8, <1>9, SeqEqual
<1> QED
  BY <1>7, <1>10 DEF old, new

\* Moving r over n occupied slots removes the n oldest bytes.
LEMMA RingDiscard ==
  ASSUME NEW size \in Nat \ {0}, NEW S, NEW b \in Storage(size, S),
         NEW w \in Slot(size), NEW r \in Slot(size),
         NEW n \in 0 .. count(w, r, size)
  PROVE  /\ (r + n) % size \in Slot(size)
         /\ count(w, (r + n) % size, size) = count(w, r, size) - n
         /\ Bytes(b, w, (r + n) % size, size) = SubSeq(Bytes(b, w, r, size), n + 1, count(w, r, size))
<1> DEFINE old == Bytes(b, w, r, size)
           c   == count(w, r, size)
           q   == (r + n) % size
           new == Bytes(b, w, q, size)
           cut == SubSeq(old, n + 1, c)
<1>1. w \in 0 .. size - 1 /\ r \in 0 .. size - 1 /\ size \in Nat /\ c \in 0 .. size - 1
  BY CountIs DEF Slot
<1>2. n \in 0 .. c
  OBVIOUS
<1>3. c = IF w >= r THEN w - r ELSE w - r + size
  BY CountIs
<1>4. q \in Slot(size) /\ q = IF r + n < size THEN r + n ELSE r + n - size
  <2> HIDE DEF c
  <2>1. n + 1 \in 1 .. size /\ r + (n + 1) - 1 = r + n
    BY <1>1, <1>2
  <2>2. (r + (n + 1) - 1) % size \in Slot(size)
        /\ (r + (n + 1) - 1) % size = IF r + (n + 1) - 1 < size THEN r + (n + 1) - 1
                                       ELSE r + (n + 1) - 1 - size
    BY <2>1, PositionIs
  <2> QED
    BY <2>1, <2>2
<1>5. count(w, q, size) = c - n
  <2>1. count(w, q, size) = IF w >= q THEN w - q ELSE w - q + size
    BY <1>4, CountIs
  <2>2. q \in 0 .. size - 1
    BY <1>4 DEF Slot
  <2> HIDE DEF c, q
  <2> QED
    BY <1>1, <1>2, <1>3, <1>4, <2>1, <2>2
<1>6. old \in Seq(S) /\ Len(old) = c /\ \A k \in 1 .. c : old[k] = b[(r + k - 1) % size]
  BY RingType
<1>7. /\ new \in Seq(S) /\ Len(new) = c - n
      /\ \A k \in 1 .. c - n : new[k] = b[(q + k - 1) % size]
  <2> HIDE DEF c, q
  <2>1. /\ new \in Seq(S) /\ Len(new) = count(w, q, size)
        /\ \A k \in 1 .. count(w, q, size) : new[k] = b[(q + k - 1) % size]
    <3>1. PICK y \in Slot(size) : y = q
      BY <1>4
    <3>2. Bytes(b, w, y, size) \in Seq(S) /\ Len(Bytes(b, w, y, size)) = count(w, y, size)
          /\ \A k \in 1 .. count(w, y, size) : Bytes(b, w, y, size)[k] = b[(y + k - 1) % size]
      BY RingType
    <3> QED
      BY <3>1, <3>2
  <2> HIDE DEF new
  <2> QED
    BY <1>5, <2>1
<1>8. ASSUME NEW k \in 1 .. c - n
      PROVE  (q + k - 1) % size = (r + (n + k) - 1) % size
  <2> HIDE DEF c, q
  <2>1. k \in 1 .. size /\ n + k \in 1 .. size
    BY <1>1, <1>2
  <2>2. (q + k - 1) % size = IF q + k - 1 < size THEN q + k - 1 ELSE q + k - 1 - size
    BY <1>4, <2>1, PositionIs
  <2>3. (r + (n + k) - 1) % size
          = IF r + (n + k) - 1 < size THEN r + (n + k) - 1 ELSE r + (n + k) - 1 - size
    BY <2>1, PositionIs
  <2> QED
    BY <1>1, <1>2, <1>4, <2>1, <2>2, <2>3
<1> HIDE DEF old, new, c, q
<1>9. /\ cut \in Seq(S) /\ Len(cut) = c - n
      /\ \A k \in 1 .. c - n : cut[k] = old[n + k]
  <2>1. n + 1 \in 1 .. Len(old) + 1 /\ c \in n .. Len(old) /\ n \in Nat /\ c \in Nat
    BY <1>1, <1>2, <1>6
  <2>2. CASE n = c
    BY <1>1, <1>6, <2>1, <2>2, SubSeqProperties
  <2>3. CASE n # c
    BY <1>1, <1>2, <1>6, <2>1, <2>3, SubSeqProperties
  <2> QED
    BY <2>2, <2>3
<1>10. ASSUME NEW k \in 1 .. c - n
       PROVE  new[k] = cut[k]
  <2>1. n + k \in 1 .. c
    BY <1>1, <1>2
  <2> QED
    BY <1>6, <1>7, <1>8, <1>9, <2>1
<1>11. new = cut
  BY <1>1, <1>2, <1>7, <1>9, <1>10, SeqEqual
<1> QED
  BY <1>4, <1>5, <1>11 DEF new, old, c, q, cut

-----------------------------------------------------------------------------
(* Several bytes at a time.                                                *)

\* n slots on from w.
Ahead(w, n, size) == IF w + n < size THEN w + n ELSE w + n - size

LEMMA CountGrows ==
  ASSUME NEW size \in Nat \ {0}, NEW w \in Slot(size), NEW r \in Slot(size), NEW n \in Nat,
         count(w, r, size) + n < size
  PROVE  /\ Ahead(w, n, size) \in Slot(size)
         /\ count(Ahead(w, n, size), r, size) = count(w, r, size) + n
<1>1. w \in 0 .. size - 1 /\ r \in 0 .. size - 1 /\ size \in Nat
  BY DEF Slot
<1>2. count(w, r, size) = IF w >= r THEN w - r ELSE w - r + size
  BY CountIs
<1>3. PICK v : v = Ahead(w, n, size)
  OBVIOUS
<1>4. v = IF w + n < size THEN w + n ELSE w + n - size
  BY <1>3 DEF Ahead
<1>5. n < size
  BY <1>1, <1>2
<1>6. v \in Slot(size) /\ v \in 0 .. size - 1
  BY <1>1, <1>4, <1>5 DEF Slot
<1>7. count(v, r, size) = IF v >= r THEN v - r ELSE v - r + size
  BY <1>6, CountIs
<1>8. count(v, r, size) = count(w, r, size) + n
  BY <1>1, <1>2, <1>4, <1>6, <1>7
<1> QED
  BY <1>3, <1>6, <1>8

\* The k-th slot from w is k - 1 slots on.
LEMMA CountFrom ==
  ASSUME NEW size \in Nat \ {0}, NEW w \in Slot(size), NEW k \in 1 .. size
  PROVE  count((w + k - 1) % size, w, size) = k - 1
<1>1. w \in 0 .. size - 1 /\ size \in Nat
  BY DEF Slot
<1>2. PICK p : p = (w + k - 1) % size
  OBVIOUS
<1>3. p \in Slot(size) /\ p = IF w + k - 1 < size THEN w + k - 1 ELSE w + k - 1 - size
  BY <1>2, PositionIs
<1>4. count(p, w, size) = IF p >= w THEN p - w ELSE p - w + size
  BY <1>3, CountIs
<1>5. count(p, w, size) = k - 1
  BY <1>1, <1>3, <1>4
<1> QED
  BY <1>2, <1>5

\* Stores into n free slots from w on do not touch the contents.
KeptBut(c, b, w, n, size) == \A i \in Slot(size) : count(i, w, size) >= n => c[i] = b[i]

LEMMA RingStores ==
  ASSUME NEW size \in Nat \ {0}, NEW b, NEW c,
         NEW w \in Slot(size), NEW r \in Slot(size), NEW n \in Nat,
         count(w, r, size) + n < size, KeptBut(c, b, w, n, size)
  PROVE  Bytes(c, w, r, size) = Bytes(b, w, r, size)
<1>1. ASSUME NEW k \in 1 .. count(w, r, size)
      PROVE  c[(r + k - 1) % size] = b[(r + k - 1) % size]
  <2>1. k \in 1 .. size
    BY CountIs
  <2>2. w \in 0 .. size - 1 /\ r \in 0 .. size - 1 /\ size \in Nat
    BY DEF Slot
  <2>3. count(w, r, size) = IF w >= r THEN w - r ELSE w - r + size
    BY CountIs
  <2>4. PICK p : p = (r + k - 1) % size
    OBVIOUS
  <2>5. p \in Slot(size) /\ p = IF r + k - 1 < size THEN r + k - 1 ELSE r + k - 1 - size
    BY <2>1, <2>4, PositionIs
  <2>6. count(p, w, size) = IF p >= w THEN p - w ELSE p - w + size
    BY <2>5, CountIs
  <2>7. k <= count(w, r, size)
    BY <2>2, <2>3
  <2>8. count(p, w, size) >= n
    BY <2>2, <2>3, <2>5, <2>6, <2>7
  <2> QED
    BY <2>4, <2>5, <2>8 DEF KeptBut
<1> QED
  BY <1>1 DEF Bytes

\* Moving w over slots that hold s appends s.
LiesAt(s, b, w, size) == \A k \in 1 .. Len(s) : b[(w + k - 1) % size] = s[k]

LEMMA RingPublishes ==
  ASSUME NEW size \in Nat \ {0}, NEW S, NEW b \in Storage(size, S),
         NEW w \in Slot(size), NEW r \in Slot(size), NEW s \in Seq(S),
         count(w, r, size) + Len(s) < size, LiesAt(s, b, w, size)
  PROVE  Bytes(b, Ahead(w, Len(s), size), r, size) = Bytes(b, w, r, size) \o s
<1> DEFINE v == Ahead(w, Len(s), size)
           old == Bytes(b, w, r, size)
           new == Bytes(b, v, r, size)
           n == count(w, r, size)
           m == Len(s)
<1>1. m \in Nat /\ n \in Nat /\ n + m < size
  BY CountIs, LenProperties
<1>2. v \in Slot(size) /\ count(v, r, size) = n + m
  BY <1>1, CountGrows
<1>3. old \in Seq(S) /\ Len(old) = n /\ \A k \in 1 .. n : old[k] = b[(r + k - 1) % size]
  BY RingType
<1>4. /\ new \in Seq(S) /\ Len(new) = n + m
      /\ \A k \in 1 .. n + m : new[k] = b[(r + k - 1) % size]
  BY <1>2, RingType
<1>5. ASSUME NEW k \in n + 1 .. n + m
      PROVE  new[k] = s[k - n]
  <2>1. w \in 0 .. size - 1 /\ r \in 0 .. size - 1 /\ size \in Nat
    BY DEF Slot
  <2>2. n = IF w >= r THEN w - r ELSE w - r + size
    BY CountIs
  <2> HIDE DEF n
  <2>3. PICK j \in 1 .. m : j = k - n
    BY <1>1
  <2>4. k \in 1 .. size /\ j \in 1 .. size /\ k \in 1 .. n + m
    BY <1>1, <2>3
  <2>5. (r + k - 1) % size = IF r + k - 1 < size THEN r + k - 1 ELSE r + k - 1 - size
    BY <2>4, PositionIs
  <2>6. (w + j - 1) % size = IF w + j - 1 < size THEN w + j - 1 ELSE w + j - 1 - size
    BY <2>4, PositionIs
  <2>7. (r + k - 1) % size = (w + j - 1) % size
    BY <1>1, <2>1, <2>2, <2>3, <2>5, <2>6
  <2>8. b[(w + j - 1) % size] = s[j]
    BY DEF LiesAt
  <2> QED
    BY <1>4, <2>3, <2>4, <2>7, <2>8
<1> HIDE DEF old, new, n, m
<1>6. /\ old \o s \in Seq(S) /\ Len(old \o s) = n + m
      /\ \A k \in 1 .. n + m : (old \o s)[k] = IF k <= n THEN old[k] ELSE s[k - n]
  BY <1>3, ConcatProperties DEF m
<1>7. ASSUME NEW k \in 1 .. n + m PROVE new[k] = (old \o s)[k]
  <2>1. CASE k <= n
    <3>1. k \in 1 .. n
      BY <1>1, <2>1
    <3> QED
      BY <1>3, <1>4, <1>6, <2>1, <3>1
  <2>2. CASE ~(k <= n)
    <3>1. k \in n + 1 .. n + m
      BY <1>1, <2>2
    <3> QED
      BY <1>5, <1>6, <2>2, <3>1
  <2> QED
    BY <2>1, <2>2
<1> QED
  BY <1>4, <1>6, <1>7, SeqEqual DEF old, new

=============================================================================
