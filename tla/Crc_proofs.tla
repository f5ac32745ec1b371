----------------------------- MODULE Crc_proofs -----------------------------
(***************************************************************************)
(* Proofs about Crc: the functions that take a message in pieces, the      *)
(* tables, the loops over bits and the division of polynomials agree on    *)
(* every message.                                                          *)
(***************************************************************************)
EXTENDS Crc, SequenceLemmas

-----------------------------------------------------------------------------
(* Iteration.                                                              *)

\* g is what n steps make of h, step i being F[i].
Iterates(g, F, h, n) == g[0] = h /\ \A i \in 1 .. n : g[i] = F[i][g[i - 1]]

\* The same, as a definition of g.
DefinedBy(g, F, h, n) == g = [i \in 0 .. n |-> IF i = 0 THEN h ELSE F[i][g[i - 1]]]

\* n steps within X.
IsSteps(F, X, n) == \A i \in 1 .. n : \A x \in X : F[i][x] \in X

LEMMA IterationType ==
  ASSUME NEW X, NEW F, NEW n \in Nat, IsSteps(F, X, n), NEW h \in X,
         NEW g, Iterates(g, F, h, n)
  PROVE  \A i \in 0 .. n : g[i] \in X
<1> DEFINE T == {i \in Nat : i <= n => g[i] \in X}
<1>1. 0 \in T
  BY DEF Iterates
<1>2. ASSUME NEW j \in Nat, j \in T PROVE j + 1 \in T
  <2> SUFFICES ASSUME j + 1 <= n PROVE g[j + 1] \in X
    OBVIOUS
  <2>1. g[j] \in X
    BY <1>2
  <2>2. j + 1 \in 1 .. n /\ (j + 1) - 1 = j
    OBVIOUS
  <2>3. g[j + 1] = F[j + 1][g[j]]
    BY <2>2 DEF Iterates
  <2> QED
    BY <2>1, <2>2, <2>3 DEF IsSteps
<1> HIDE DEF T
<1>3. Nat \subseteq T
  BY <1>1, <1>2, Induct
<1> QED
  BY <1>3 DEF T

LEMMA IterationExists ==
  ASSUME NEW F, NEW h, NEW n \in Nat
  PROVE  \E g : DefinedBy(g, F, h, n)
<1> DEFINE P(g, m) == g = [i \in 0 .. m |-> IF i = 0 THEN h ELSE F[i][g[i - 1]]]
           T == {m \in Nat : \E g : P(g, m)}
<1>1. 0 \in T
  <2> DEFINE e == [i \in 0 .. 0 |-> h]
  <2>1. e = [i \in 0 .. 0 |-> IF i = 0 THEN h ELSE F[i][e[i - 1]]]
    OBVIOUS
  <2> QED
    BY <2>1
<1>2. ASSUME NEW j \in Nat, j \in T PROVE j + 1 \in T
  <2>1. PICK g : P(g, j)
    BY <1>2
  <2> HIDE DEF P
  <2>2. /\ DOMAIN g = 0 .. j
        /\ \A i \in 0 .. j : g[i] = IF i = 0 THEN h ELSE F[i][g[i - 1]]
    BY <2>1 DEF P
  <2> DEFINE f == [i \in 0 .. j + 1 |-> IF i = j + 1 THEN F[i][g[i - 1]] ELSE g[i]]
  <2>3. ASSUME NEW i \in 0 .. j + 1
        PROVE  f[i] = IF i = 0 THEN h ELSE F[i][f[i - 1]]
    <3>1. CASE i = j + 1
      <4>1. i # 0 /\ i - 1 \in 0 .. j /\ i - 1 \in 0 .. j + 1 /\ i - 1 # j + 1
        BY <3>1
      <4>2. f[i - 1] = g[i - 1] /\ f[i] = F[i][g[i - 1]]
        BY <3>1, <4>1
      <4> QED
        BY <4>1, <4>2
    <3>2. CASE i = 0
      <4>1. i # j + 1 /\ i \in 0 .. j
        BY <3>2
      <4> QED
        BY <2>2, <3>2, <4>1
    <3>3. CASE i # 0 /\ i # j + 1
      <4>1. i \in 0 .. j /\ i - 1 \in 0 .. j + 1 /\ i - 1 # j + 1
        BY <3>3
      <4>2. f[i] = g[i] /\ f[i - 1] = g[i - 1] /\ g[i] = F[i][g[i - 1]]
        BY <2>2, <3>3, <4>1
      <4> QED
        BY <3>3, <4>2
    <3> QED
      BY <3>1, <3>2, <3>3
  <2>4. f = [i \in 0 .. j + 1 |-> f[i]]
    OBVIOUS
  <2> HIDE DEF f
  <2>5. [i \in 0 .. j + 1 |-> f[i]]
          = [i \in 0 .. j + 1 |-> IF i = 0 THEN h ELSE F[i][f[i - 1]]]
    BY <2>3
  <2>6. P(f, j + 1)
    BY <2>4, <2>5 DEF P
  <2> QED
    BY <2>6
<1> HIDE DEF T, P
<1>3. Nat \subseteq T
  BY <1>1, <1>2, Induct
<1>4. \E g : P(g, n)
  BY <1>3 DEF T
<1> QED
  BY <1>4 DEF P, DefinedBy

LEMMA DefinedIterates ==
  ASSUME NEW F, NEW h, NEW n \in Nat, NEW g, DefinedBy(g, F, h, n)
  PROVE  Iterates(g, F, h, n)
BY DEF DefinedBy, Iterates

-----------------------------------------------------------------------------
(* A function of two arguments, over a sequence.                           *)

\* G takes a value and an element to a value.
Takes(G, X, Y) == \A x \in X : \A y \in Y : G[x][y] \in X

StepsOf(G, s) == [i \in 1 .. Len(s) |-> [x \in DOMAIN G |-> G[x][s[i]]]]

IsRunOf(g, G, h, s) == g[0] = h /\ \A i \in 1 .. Len(s) : g[i] = G[g[i - 1]][s[i]]

\* The value that the functions below define by recursion.
Folded(G, h, s) ==
  LET g == CHOOSE g : g = [n \in 0 .. Len(s) |-> IF n = 0 THEN h ELSE G[g[n - 1]][s[n]]]
  IN  g[Len(s)]

LEMMA RunType ==
  ASSUME NEW X, NEW Y, NEW G, Takes(G, X, Y), NEW h \in X, NEW s \in Seq(Y),
         NEW g, IsRunOf(g, G, h, s)
  PROVE  \A i \in 0 .. Len(s) : g[i] \in X
<1>0. Len(s) \in Nat /\ \A i \in 1 .. Len(s) : s[i] \in Y
  BY LenProperties, ElementOfSeq
<1> DEFINE T == {i \in Nat : i <= Len(s) => g[i] \in X}
<1>1. 0 \in T
  BY DEF IsRunOf
<1>2. ASSUME NEW i \in Nat, i \in T PROVE i + 1 \in T
  <2> SUFFICES ASSUME i + 1 <= Len(s) PROVE g[i + 1] \in X
    OBVIOUS
  <2>1. g[i] \in X /\ i + 1 \in 1 .. Len(s) /\ (i + 1) - 1 = i
    BY <1>0, <1>2
  <2>2. g[i + 1] = G[g[i]][s[i + 1]]
    BY <2>1 DEF IsRunOf
  <2> QED
    BY <1>0, <2>1, <2>2 DEF Takes
<1> HIDE DEF T
<1>3. Nat \subseteq T
  BY <1>1, <1>2, Induct
<1> QED
  BY <1>0, <1>3 DEF T

LEMMA RunExists ==
  ASSUME NEW X, NEW Y, NEW G, DOMAIN G = X, Takes(G, X, Y), NEW h \in X, NEW s \in Seq(Y)
  PROVE  /\ \E g : g = [n \in 0 .. Len(s) |-> IF n = 0 THEN h ELSE G[g[n - 1]][s[n]]]
         /\ \E g : /\ IsRunOf(g, G, h, s) /\ \A i \in 0 .. Len(s) : g[i] \in X
                   /\ Folded(G, h, s) = g[Len(s)]
<1> DEFINE F == StepsOf(G, s)
           P(g) == g = [n \in 0 .. Len(s) |-> IF n = 0 THEN h ELSE G[g[n - 1]][s[n]]]
<1>0. Len(s) \in Nat /\ \A i \in 1 .. Len(s) : s[i] \in Y
  BY LenProperties, ElementOfSeq
<1>1. \A i \in 1 .. Len(s) : \A x \in X : F[i][x] = G[x][s[i]]
  BY DEF StepsOf
<1> HIDE DEF F
<1>2. IsSteps(F, X, Len(s))
  BY <1>0, <1>1 DEF IsSteps, Takes
<1>3. PICK g : DefinedBy(g, F, h, Len(s))
  BY <1>0, IterationExists
<1>4. Iterates(g, F, h, Len(s))
  BY <1>0, <1>3, DefinedIterates
<1>5. \A i \in 0 .. Len(s) : g[i] \in X
  BY <1>0, <1>2, <1>4, IterationType
<1>6. \A n \in 1 .. Len(s) : F[n][g[n - 1]] = G[g[n - 1]][s[n]]
  BY <1>0, <1>1, <1>5
<1>7. P(g)
  <2>1. g = [n \in 0 .. Len(s) |-> IF n = 0 THEN h ELSE F[n][g[n - 1]]]
    BY <1>3 DEF DefinedBy
  <2>2. \A n \in 0 .. Len(s) : n # 0 => n \in 1 .. Len(s)
    BY <1>0, SMTT(60)
  <2> QED
    BY <2>1, <2>2, <1>6
<1> DEFINE f == CHOOSE g1 : P(g1)
<1>8. P(f)
  BY <1>7, Zenon
<1>9. Folded(G, h, s) = f[Len(s)]
  BY DEF Folded
<1> HIDE DEF f
<1>10. IsRunOf(f, G, h, s)
  BY <1>0, <1>8 DEF IsRunOf
<1>11. \A i \in 0 .. Len(s) : f[i] \in X
  BY <1>10, RunType
<1> QED
  BY <1>7, <1>9, <1>10, <1>11

LEMMA RunIs ==
  ASSUME NEW X, NEW Y, NEW G, DOMAIN G = X, Takes(G, X, Y), NEW h \in X, NEW s \in Seq(Y)
  PROVE  \E g : /\ IsRunOf(g, G, h, s) /\ \A i \in 0 .. Len(s) : g[i] \in X
                /\ Folded(G, h, s) = g[Len(s)]
BY RunExists

\* Two runs that agree on the first n elements agree so far.
LEMMA RunsAgree ==
  ASSUME NEW G, NEW h, NEW s, NEW t, NEW n \in Nat, n <= Len(s), n <= Len(t),
         Len(s) \in Nat, Len(t) \in Nat, \A i \in 1 .. n : s[i] = t[i],
         NEW f, NEW g, IsRunOf(f, G, h, s), IsRunOf(g, G, h, t)
  PROVE  f[n] = g[n]
<1> DEFINE T == {i \in Nat : i <= n => f[i] = g[i]}
<1>1. 0 \in T
  BY DEF IsRunOf
<1>2. ASSUME NEW j \in Nat, j \in T PROVE j + 1 \in T
  <2> SUFFICES ASSUME j + 1 <= n PROVE f[j + 1] = g[j + 1]
    OBVIOUS
  <2>1. /\ f[j] = g[j] /\ j + 1 \in 1 .. n /\ j + 1 \in 1 .. Len(s) /\ j + 1 \in 1 .. Len(t)
        /\ (j + 1) - 1 = j
    BY <1>2
  <2> QED
    BY <2>1 DEF IsRunOf
<1> HIDE DEF T
<1>3. Nat \subseteq T
  BY <1>1, <1>2, Induct
<1> QED
  BY <1>3 DEF T

LEMMA FoldedIs ==
  ASSUME NEW X, NEW Y, NEW G, DOMAIN G = X, Takes(G, X, Y), NEW h \in X, NEW s \in Seq(Y),
         NEW g, IsRunOf(g, G, h, s)
  PROVE  Folded(G, h, s) = g[Len(s)] /\ Folded(G, h, s) \in X
<1>1. PICK f : /\ IsRunOf(f, G, h, s) /\ \A i \in 0 .. Len(s) : f[i] \in X
               /\ Folded(G, h, s) = f[Len(s)]
  BY RunExists
<1>2. Len(s) \in Nat /\ Len(s) \in 0 .. Len(s) /\ Len(s) <= Len(s)
  BY LenProperties
<1>3. f[Len(s)] = g[Len(s)]
  BY <1>1, <1>2, RunsAgree
<1> QED
  BY <1>1, <1>2, <1>3

LEMMA FoldedType ==
  ASSUME NEW X, NEW Y, NEW G, DOMAIN G = X, Takes(G, X, Y), NEW h \in X, NEW s \in Seq(Y)
  PROVE  Folded(G, h, s) \in X
BY RunExists, FoldedIs

LEMMA FoldedEmpty ==
  ASSUME NEW X, NEW Y, NEW G, DOMAIN G = X, Takes(G, X, Y), NEW h \in X
  PROVE  Folded(G, h, << >>) = h
<1>1. PICK e \in Seq(Y) : e = << >> /\ Len(e) = 0
  <2>1. << >> \in Seq(Y) /\ Len(<< >>) = 0
    OBVIOUS
  <2> QED
    BY <2>1
<1>2. PICK f : IsRunOf(f, G, h, e) /\ Folded(G, h, e) = f[Len(e)]
  BY RunIs
<1> QED
  BY <1>1, <1>2 DEF IsRunOf

\* Over two sequences, one after the other.
LEMMA FoldedConcat ==
  ASSUME NEW X, NEW Y, NEW G, DOMAIN G = X, Takes(G, X, Y), NEW h \in X,
         NEW s \in Seq(Y), NEW t \in Seq(Y)
  PROVE  Folded(G, h, s \o t) = Folded(G, Folded(G, h, s), t)
<1>1. PICK m \in Nat, n \in Nat, y \in Seq(Y) :
        /\ m = Len(s) /\ n = Len(t) /\ y = s \o t /\ Len(y) = m + n
        /\ \A i \in 1 .. m + n : y[i] = IF i <= m THEN s[i] ELSE t[i - m]
  <2>1. Len(s) \in Nat /\ Len(t) \in Nat /\ s \o t \in Seq(Y)
    BY LenProperties, ConcatProperties
  <2>2. /\ Len(s \o t) = Len(s) + Len(t)
        /\ \A i \in 1 .. Len(s) + Len(t) :
             (s \o t)[i] = IF i <= Len(s) THEN s[i] ELSE t[i - Len(s)]
    BY ConcatProperties
  <2> QED
    BY <2>1, <2>2
<1>2. PICK f : /\ IsRunOf(f, G, h, s) /\ Folded(G, h, s) = f[m] /\ f[m] \in X
  <2>1. PICK f : /\ IsRunOf(f, G, h, s) /\ \A i \in 0 .. Len(s) : f[i] \in X
                 /\ Folded(G, h, s) = f[Len(s)]
    BY RunIs
  <2>2. Len(s) \in 0 .. Len(s)
    BY <1>1
  <2> QED
    BY <1>1, <2>1, <2>2
<1>12. PICK v \in X : v = f[m]
  BY <1>2
<1>9. Takes(G, X, Y) /\ DOMAIN G = X
  OBVIOUS
<1>10. PICK g : /\ IsRunOf(g, G, v, t) /\ Folded(G, v, t) = g[Len(t)]
  BY <1>9, RunIs
<1>3. IsRunOf(g, G, f[m], t) /\ Folded(G, f[m], t) = g[n]
  BY <1>1, <1>12, <1>10
<1> DEFINE r == [i \in 0 .. m + n |-> IF i <= m THEN f[i] ELSE g[i - m]]
<1>4. r[0] = h
  <2>1. 0 \in 0 .. m + n /\ 0 <= m
    BY <1>1
  <2> QED
    BY <2>1, <1>2 DEF IsRunOf
<1>5. ASSUME NEW i \in 1 .. m + n PROVE r[i] = G[r[i - 1]][y[i]]
  <2>1. i \in 0 .. m + n /\ i - 1 \in 0 .. m + n
    OBVIOUS
  <2>2. CASE i <= m
    <3>1. i \in 1 .. m /\ i - 1 <= m
      BY <2>2
    <3>2. r[i] = f[i] /\ r[i - 1] = f[i - 1]
      BY <2>1, <2>2, <3>1
    <3>3. f[i] = G[f[i - 1]][s[i]]
      BY <1>1, <1>2, <3>1 DEF IsRunOf
    <3>4. y[i] = s[i]
      BY <1>1, <2>2
    <3> QED
      BY <3>2, <3>3, <3>4
  <2>3. CASE i = m + 1
    <3>1. ~(i <= m) /\ i - 1 = m /\ i - 1 <= m /\ i - m = 1 /\ 1 \in 1 .. n /\ 1 - 1 = 0
      BY <2>3
    <3>2. r[i] = g[1] /\ r[i - 1] = f[m]
      BY <2>1, <3>1
    <3>3. g[1] = G[g[0]][t[1]] /\ g[0] = f[m]
      BY <1>1, <1>3, <3>1 DEF IsRunOf
    <3>4. y[i] = t[1]
      BY <1>1, <3>1
    <3> QED
      BY <3>2, <3>3, <3>4
  <2>4. CASE i > m + 1
    <3>1. /\ ~(i <= m) /\ ~(i - 1 <= m) /\ i - m \in 1 .. n /\ (i - 1) - m = (i - m) - 1
      BY <2>4
    <3>2. r[i] = g[i - m] /\ r[i - 1] = g[(i - m) - 1]
      BY <2>1, <3>1
    <3>3. g[i - m] = G[g[(i - m) - 1]][t[i - m]]
      BY <1>1, <1>3, <3>1 DEF IsRunOf
    <3>4. y[i] = t[i - m]
      BY <1>1, <3>1
    <3> QED
      BY <3>2, <3>3, <3>4
  <2> QED
    BY <2>2, <2>3, <2>4
<1>6. IsRunOf(r, G, h, y)
  <2> HIDE DEF r
  <2> QED
    BY <1>1, <1>4, <1>5 DEF IsRunOf
<1>7. r[m + n] = g[n]
  <2>1. m + n \in 0 .. m + n /\ (m + n) - m = n
    OBVIOUS
  <2>2. CASE n = 0
    <3>1. r[m + n] = f[m]
      BY <2>1, <2>2
    <3>2. g[0] = f[m]
      BY <1>3 DEF IsRunOf
    <3> QED
      BY <2>2, <3>1, <3>2
  <2>3. CASE n > 0
    <3>1. ~(m + n <= m)
      BY <2>3
    <3> QED
      BY <2>1, <3>1
  <2> QED
    BY <2>2, <2>3
<1> HIDE DEF r
<1>8. Folded(G, h, y) = r[Len(y)]
  BY <1>6, FoldedIs
<1> QED
  BY <1>1, <1>2, <1>3, <1>7, <1>8

\* One element more.
LEMMA FoldedAppend ==
  ASSUME NEW X, NEW Y, NEW G, DOMAIN G = X, Takes(G, X, Y), NEW h \in X,
         NEW s \in Seq(Y), NEW y \in Y
  PROVE  Folded(G, h, Append(s, y)) = G[Folded(G, h, s)][y]
<1>1. PICK one \in Seq(Y) : one = <<y>> /\ Len(one) = 1 /\ one[1] = y
  <2>1. <<y>> \in Seq(Y) /\ Len(<<y>>) = 1 /\ <<y>>[1] = y
    OBVIOUS
  <2> QED
    BY <2>1
<1>2. Append(s, y) = s \o one
  BY <1>1, AppendIsConcat
<1>3. PICK v \in X : v = Folded(G, h, s)
  BY FoldedType
<1>4. Folded(G, h, s \o one) = Folded(G, v, one)
  BY <1>3, FoldedConcat
<1>5. PICK g : IsRunOf(g, G, v, one) /\ Folded(G, v, one) = g[Len(one)]
  BY RunIs
<1>6. g[1] = G[g[0]][one[1]] /\ g[0] = v
  <2>1. 1 \in 1 .. Len(one) /\ 1 - 1 = 0
    BY <1>1
  <2> QED
    BY <1>5, <2>1 DEF IsRunOf
<1> QED
  BY <1>1, <1>2, <1>3, <1>4, <1>5, <1>6

-----------------------------------------------------------------------------
(* Bytes and halves of words.                                              *)

\* A digit of x ^ y, at its place.
XorDigit(x, y, n) == 2 ^ (n - 1) * ((x \div 2 ^ (n - 1) + y \div 2 ^ (n - 1)) % 2)

LEMMA XorDigitType ==
  ASSUME NEW x \in Byte, NEW y \in Byte
  PROVE  /\ XorDigit(x, y, 1) \in 0 .. 1 /\ XorDigit(x, y, 2) \in 0 .. 2
         /\ XorDigit(x, y, 3) \in 0 .. 4 /\ XorDigit(x, y, 4) \in 0 .. 8
         /\ XorDigit(x, y, 5) \in 0 .. 16 /\ XorDigit(x, y, 6) \in 0 .. 32
         /\ XorDigit(x, y, 7) \in 0 .. 64 /\ XorDigit(x, y, 8) \in 0 .. 128
<1>0. x \in Nat /\ y \in Nat
  BY DEF Byte
<1>1. XorDigit(x, y, 1) \in 0 .. 1
  BY <1>0 DEF XorDigit
<1>2. XorDigit(x, y, 2) \in 0 .. 2
  BY <1>0 DEF XorDigit
<1>3. XorDigit(x, y, 3) \in 0 .. 4
  BY <1>0 DEF XorDigit
<1>4. XorDigit(x, y, 4) \in 0 .. 8
  BY <1>0 DEF XorDigit
<1>5. XorDigit(x, y, 5) \in 0 .. 16
  BY <1>0 DEF XorDigit
<1>6. XorDigit(x, y, 6) \in 0 .. 32
  BY <1>0 DEF XorDigit
<1>7. XorDigit(x, y, 7) \in 0 .. 64
  BY <1>0 DEF XorDigit
<1>8. XorDigit(x, y, 8) \in 0 .. 128
  BY <1>0 DEF XorDigit
<1> QED
  BY <1>1, <1>2, <1>3, <1>4, <1>5, <1>6, <1>7, <1>8

\* x ^ y of two bytes, as the sum of its digits.
LEMMA XorByteSum ==
  ASSUME NEW x \in Byte, NEW y \in Byte
  PROVE  XorByte[x][y] = XorDigit(x, y, 1) + XorDigit(x, y, 2) + XorDigit(x, y, 3)
                         + XorDigit(x, y, 4) + XorDigit(x, y, 5) + XorDigit(x, y, 6)
                         + XorDigit(x, y, 7) + XorDigit(x, y, 8)
<1> DEFINE D(n) == XorDigit(x, y, n)
           P(g) == g = [n \in 0 .. 8 |-> IF n = 0 THEN 0 ELSE g[n - 1] + D(n)]
           F == [n \in 1 .. 8 |-> [v \in Int |-> v + D(n)]]
           low == CHOOSE g : P(g)
<1>1. XorByte[x][y] = low[8]
  BY DEF XorByte, XorDigit
<1>2. /\ D(1) \in 0 .. 1 /\ D(2) \in 0 .. 2 /\ D(3) \in 0 .. 4 /\ D(4) \in 0 .. 8
      /\ D(5) \in 0 .. 16 /\ D(6) \in 0 .. 32 /\ D(7) \in 0 .. 64 /\ D(8) \in 0 .. 128
  BY XorDigitType
<1> HIDE DEF D
<1>3. \A n \in 1 .. 8 : D(n) \in Int
  BY <1>2
<1>4. \A n \in 1 .. 8 : \A v \in Int : F[n][v] \in Int /\ F[n][v] = v + D(n)
  <2> SUFFICES ASSUME NEW n \in 1 .. 8, NEW v \in Int
               PROVE  F[n][v] \in Int /\ F[n][v] = v + D(n)
    OBVIOUS
  <2>1. F[n][v] = v + D(n)
    OBVIOUS
  <2>2. PICK d \in Int : d = D(n)
    BY <1>3
  <2>3. v + d \in Int
    OBVIOUS
  <2> QED
    BY <2>1, <2>2, <2>3
<1> HIDE DEF F
<1>16. IsSteps(F, Int, 8)
  BY <1>4 DEF IsSteps
<1>5. PICK g : DefinedBy(g, F, 0, 8)
  BY IterationExists
<1>6. Iterates(g, F, 0, 8)
  BY <1>5, DefinedIterates
<1>7. \A n \in 0 .. 8 : g[n] \in Int
  BY <1>16, <1>6, IterationType
<1>8. ASSUME NEW n \in 1 .. 8 PROVE F[n][g[n - 1]] = g[n - 1] + D(n)
  BY <1>4, <1>7
<1>9. P(g)
  BY <1>5, <1>8 DEF DefinedBy
<1>10. P(low)
  BY <1>9
<1> HIDE DEF low
<1>11. /\ low[0] = 0 /\ low[1] = low[0] + D(1) /\ low[2] = low[1] + D(2)
       /\ low[3] = low[2] + D(3) /\ low[4] = low[3] + D(4) /\ low[5] = low[4] + D(5)
       /\ low[6] = low[5] + D(6) /\ low[7] = low[6] + D(7) /\ low[8] = low[7] + D(8)
  BY <1>10
<1>12. low[8] = D(1) + D(2) + D(3) + D(4) + D(5) + D(6) + D(7) + D(8)
  BY <1>2, <1>11
<1> QED
  BY <1>1, <1>12 DEF D

LEMMA XorByteType ==
  ASSUME NEW x \in Byte, NEW y \in Byte
  PROVE  XorByte[x][y] \in Byte
<1>1. /\ XorDigit(x, y, 1) \in 0 .. 1 /\ XorDigit(x, y, 2) \in 0 .. 2
      /\ XorDigit(x, y, 3) \in 0 .. 4 /\ XorDigit(x, y, 4) \in 0 .. 8
      /\ XorDigit(x, y, 5) \in 0 .. 16 /\ XorDigit(x, y, 6) \in 0 .. 32
      /\ XorDigit(x, y, 7) \in 0 .. 64 /\ XorDigit(x, y, 8) \in 0 .. 128
  BY XorDigitType
<1>2. PICK a \in 0 .. 1 : a = XorDigit(x, y, 1)
  BY ONLY <1>1
<1>3. PICK b \in 0 .. 2 : b = XorDigit(x, y, 2)
  BY ONLY <1>1
<1>4. PICK c \in 0 .. 4 : c = XorDigit(x, y, 3)
  BY ONLY <1>1
<1>5. PICK d \in 0 .. 8 : d = XorDigit(x, y, 4)
  BY ONLY <1>1
<1>6. PICK e \in 0 .. 16 : e = XorDigit(x, y, 5)
  BY ONLY <1>1
<1>7. PICK f \in 0 .. 32 : f = XorDigit(x, y, 6)
  BY ONLY <1>1
<1>8. PICK p \in 0 .. 64 : p = XorDigit(x, y, 7)
  BY ONLY <1>1
<1>9. PICK q \in 0 .. 128 : q = XorDigit(x, y, 8)
  BY ONLY <1>1
<1>10. a + b + c + d + e + f + p + q \in Byte
  BY DEF Byte
<1>11. XorByte[x][y] = a + b + c + d + e + f + p + q
  BY <1>2, <1>3, <1>4, <1>5, <1>6, <1>7, <1>8, <1>9, XorByteSum
<1> QED
  BY ONLY <1>10, <1>11

LEMMA HalfParts ==
  ASSUME NEW x \in Half
  PROVE  x \div 256 \in Byte /\ x % 256 \in Byte
BY DEF Half, Byte

LEMMA Xor16Type ==
  ASSUME NEW x \in Half, NEW y \in Half
  PROVE  Xor16(x, y) \in Half
<1>1. PICK u \in Byte, v \in Byte : /\ u = XorByte[x \div 256][y \div 256]
                                    /\ v = XorByte[x % 256][y % 256]
  BY HalfParts, XorByteType
<1>2. Xor16(x, y) = 256 * u + v
  BY <1>1 DEF Xor16
<1>3. 256 * u + v \in Half
  BY DEF Byte, Half
<1> QED
  BY <1>2, <1>3

-----------------------------------------------------------------------------
(* CRC-16/MCRF4XX, bit by bit.                                             *)

LEMMA ShiftStepType ==
  ASSUME NEW crc \in Half, NEW bit \in Nat
  PROVE  ShiftStep(crc, bit) \in Half
<1>1. crc \div 2 \in Half /\ 33800 \in Half
  BY DEF Half
<1>2. Xor16(crc \div 2, 33800) \in Half
  BY <1>1, Xor16Type
<1> QED
  BY <1>1, <1>2 DEF ShiftStep

LEMMA UpdateType ==
  ASSUME NEW c \in Half, NEW byte \in Byte
  PROVE  crc16_mcrf4xx_update(c, byte) \in Half
<1> DEFINE bit(i) == byte \div 2 ^ (i - 1)
           P(g) == g = [i \in 0 .. 8 |-> IF i = 0 THEN c ELSE ShiftStep(g[i - 1], bit(i))]
           F == [i \in 1 .. 8 |-> [v \in Half |-> ShiftStep(v, bit(i))]]
           after == CHOOSE g : P(g)
<1>1. crc16_mcrf4xx_update(c, byte) = after[8]
  BY DEF crc16_mcrf4xx_update
<1>2. /\ bit(1) \in Nat /\ bit(2) \in Nat /\ bit(3) \in Nat /\ bit(4) \in Nat
      /\ bit(5) \in Nat /\ bit(6) \in Nat /\ bit(7) \in Nat /\ bit(8) \in Nat
  BY DEF Byte
<1> HIDE DEF bit
<1>3. \A i \in 1 .. 8 : bit(i) \in Nat
  BY <1>2
<1>4. \A i \in 1 .. 8 : \A v \in Half : F[i][v] \in Half /\ F[i][v] = ShiftStep(v, bit(i))
  BY <1>3, ShiftStepType
<1> HIDE DEF F
<1>16. IsSteps(F, Half, 8)
  BY <1>4 DEF IsSteps
<1>5. PICK g : DefinedBy(g, F, c, 8)
  BY IterationExists
<1>6. Iterates(g, F, c, 8)
  BY <1>5, DefinedIterates
<1>7. \A i \in 0 .. 8 : g[i] \in Half
  BY <1>16, <1>6, IterationType
<1>8. \A i \in 1 .. 8 : F[i][g[i - 1]] = ShiftStep(g[i - 1], bit(i))
  BY <1>4, <1>7
<1>9. P(g)
  BY <1>5, <1>8 DEF DefinedBy
<1>10. P(after)
  BY <1>9
<1> HIDE DEF after
<1>11. /\ after[0] = c
       /\ after[1] = ShiftStep(after[0], bit(1)) /\ after[2] = ShiftStep(after[1], bit(2))
       /\ after[3] = ShiftStep(after[2], bit(3)) /\ after[4] = ShiftStep(after[3], bit(4))
       /\ after[5] = ShiftStep(after[4], bit(5)) /\ after[6] = ShiftStep(after[5], bit(6))
       /\ after[7] = ShiftStep(after[6], bit(7)) /\ after[8] = ShiftStep(after[7], bit(8))
  BY <1>10
<1>12. after[8] \in Half
  <2>1. after[1] \in Half
    BY <1>2, <1>11, ShiftStepType
  <2>2. after[2] \in Half
    BY <1>2, <1>11, <2>1, ShiftStepType
  <2>3. after[3] \in Half
    BY <1>2, <1>11, <2>2, ShiftStepType
  <2>4. after[4] \in Half
    BY <1>2, <1>11, <2>3, ShiftStepType
  <2>5. after[5] \in Half
    BY <1>2, <1>11, <2>4, ShiftStepType
  <2>6. after[6] \in Half
    BY <1>2, <1>11, <2>5, ShiftStepType
  <2>7. after[7] \in Half
    BY <1>2, <1>11, <2>6, ShiftStepType
  <2> QED
    BY <1>2, <1>11, <2>7, ShiftStepType
<1> QED
  BY <1>1, <1>12

-----------------------------------------------------------------------------
(* The checksums as folds.                                                 *)

BitwiseStep == [c \in Half |-> [byte \in Byte |-> crc16_mcrf4xx_update(c, byte)]]

LEMMA BitwiseTakes == DOMAIN BitwiseStep = Half /\ Takes(BitwiseStep, Half, Byte) /\ 65535 \in Half
<1>1. ASSUME NEW c \in Half, NEW byte \in Byte PROVE BitwiseStep[c][byte] \in Half
  BY UpdateType DEF BitwiseStep
<1> QED
  BY <1>1 DEF BitwiseStep, Takes, Half

LEMMA BitwiseIsFold ==
  ASSUME NEW data \in Seq(Byte)
  PROVE  crc16_mcrf4xx(data) = Folded(BitwiseStep, 65535, data)
<1> DEFINE start == 65535
           P(g) == g = [n \in 0 .. Len(data) |->
                          IF n = 0 THEN start ELSE crc16_mcrf4xx_update(g[n - 1], data[n])]
           f == CHOOSE g : P(g)
           G == BitwiseStep
<1>0. Len(data) \in Nat /\ \A i \in 1 .. Len(data) : data[i] \in Byte
  BY LenProperties, ElementOfSeq
<1>1. \A c \in Half : \A byte \in Byte : G[c][byte] = crc16_mcrf4xx_update(c, byte)
  BY DEF BitwiseStep
<1> HIDE DEF G, start
<1>2. DOMAIN G = Half /\ Takes(G, Half, Byte) /\ start \in Half
  BY BitwiseTakes DEF G, start
<1>3. PICK g : g = [n \in 0 .. Len(data) |-> IF n = 0 THEN start ELSE G[g[n - 1]][data[n]]]
  BY <1>2, RunExists
<1>4. IsRunOf(g, G, start, data)
  <2>1. 0 \in 0 .. Len(data) /\ \A i \in 1 .. Len(data) : i \in 0 .. Len(data) /\ i # 0
    BY <1>0
  <2>2. g[0] = start
    BY ONLY <1>3, <2>1
  <2>3. \A i \in 1 .. Len(data) : g[i] = G[g[i - 1]][data[i]]
    BY ONLY <1>3, <2>1
  <2> QED
    BY <2>2, <2>3 DEF IsRunOf
<1>5. \A i \in 0 .. Len(data) : g[i] \in Half
  BY <1>2, <1>4, RunType
<1>6. \A n \in 1 .. Len(data) : G[g[n - 1]][data[n]] = crc16_mcrf4xx_update(g[n - 1], data[n])
  BY <1>0, <1>1, <1>5
<1>7. P(g)
  <2>1. \A n \in 0 .. Len(data) : n = 0 \/ n \in 1 .. Len(data)
    BY <1>0
  <2>2. \A n \in 0 .. Len(data) : (IF n = 0 THEN start ELSE G[g[n - 1]][data[n]])
          = (IF n = 0 THEN start ELSE crc16_mcrf4xx_update(g[n - 1], data[n]))
    BY <2>1, <1>6
  <2> QED
    BY <2>2, <1>3
<1> HIDE DEF P
<1>8. P(f)
  BY <1>7
<1> USE DEF P
<1>9. crc16_mcrf4xx(data) = f[Len(data)]
  BY DEF crc16_mcrf4xx, start
<1> HIDE DEF f
<1>10. /\ f[0] = start
       /\ \A n \in 1 .. Len(data) : f[n] = crc16_mcrf4xx_update(f[n - 1], data[n])
  BY <1>0, <1>8
<1>11. IsRunOf(f, G, start, data)
  <2> DEFINE T == {i \in Nat : i <= Len(data) => f[i] = g[i]}
  <2>1. 0 \in T
    BY <1>4, <1>10 DEF IsRunOf
  <2>2. ASSUME NEW i \in Nat, i \in T PROVE i + 1 \in T
    <3> SUFFICES ASSUME i + 1 <= Len(data) PROVE f[i + 1] = g[i + 1]
      OBVIOUS
    <3>1. f[i] = g[i] /\ i + 1 \in 1 .. Len(data) /\ (i + 1) - 1 = i
      BY <1>0, <2>2
    <3>2. f[i + 1] = crc16_mcrf4xx_update(g[i], data[i + 1])
      BY <3>1, <1>10
    <3>3. g[i + 1] = G[g[i]][data[i + 1]]
      BY <3>1, <1>4 DEF IsRunOf
    <3> QED
      BY <3>1, <3>2, <3>3, <1>6
  <2> HIDE DEF T
  <2>3. Nat \subseteq T
    BY <2>1, <2>2, Induct
  <2>4. \A i \in 0 .. Len(data) : f[i] = g[i]
    BY <1>0, <2>3 DEF T
  <2>5. \A i \in 1 .. Len(data) : i \in 0 .. Len(data) /\ i - 1 \in 0 .. Len(data)
    BY <1>0
  <2> QED
    BY <1>0, <1>4, <2>4, <2>5, <1>10 DEF IsRunOf
<1> QED
  BY <1>2, <1>9, <1>11, FoldedIs DEF G, start

-----------------------------------------------------------------------------
(* The tables.                                                             *)

LEMMA Table16Type == \A i \in 1 .. 256 : crc16_table[i] \in Half
<1> SUFFICES ASSUME NEW i \in 1 .. 256 PROVE crc16_table[i] \in Half
  OBVIOUS
<1>1. crc16_table \in Seq(Half) /\ Len(crc16_table) = 256
  BY DEF crc16_table, Half
<1>2. PICK s \in Seq(Half) : s = crc16_table
  BY <1>1
<1>4. i \in 1 .. Len(s)
  BY <1>1, <1>2
<1>3. s[i] \in Half
  BY <1>4, ElementOfSeq
<1> QED
  BY <1>2, <1>3

LEMMA Table32Type ==
  \A i \in 1 .. 256 : CRC_table[1][i] \in Half /\ CRC_table[2][i] \in Half
<1> SUFFICES ASSUME NEW i \in 1 .. 256
             PROVE  CRC_table[1][i] \in Half /\ CRC_table[2][i] \in Half
  OBVIOUS
<1>1. CRC_table[1] \in Seq(Half) /\ Len(CRC_table[1]) = 256
  BY DEF CRC_table, Half
<1>2. CRC_table[2] \in Seq(Half) /\ Len(CRC_table[2]) = 256
  BY DEF CRC_table, Half
<1>3. PICK s \in Seq(Half), t \in Seq(Half) : s = CRC_table[1] /\ t = CRC_table[2]
  BY <1>1, <1>2
<1>5. i \in 1 .. Len(s) /\ i \in 1 .. Len(t)
  BY <1>1, <1>2, <1>3
<1>4. s[i] \in Half /\ t[i] \in Half
  BY <1>5, ElementOfSeq
<1> QED
  BY <1>3, <1>4

LEMMA ByteCalType ==
  ASSUME NEW c \in Half, NEW byte \in Byte
  PROVE  crc16_byte_cal(c, byte) \in Half
<1>1. PICK x \in Byte : x = XorByte[c % 256][byte]
  BY HalfParts, XorByteType
<1>2. 1 + x \in 1 .. 256
  BY DEF Byte
<1>3. PICK t \in Half : t = crc16_table[1 + x]
  BY <1>2, Table16Type
<1>4. c \div 256 \in Half
  BY DEF Half
<1> QED
  BY <1>1, <1>3, <1>4, Xor16Type DEF crc16_byte_cal

Table16Step == [c \in Half |-> [byte \in Byte |-> crc16_byte_cal(c, byte)]]

LEMMA Table16Takes == DOMAIN Table16Step = Half /\ Takes(Table16Step, Half, Byte)
<1>1. ASSUME NEW c \in Half, NEW byte \in Byte PROVE Table16Step[c][byte] \in Half
  BY ByteCalType DEF Table16Step
<1> QED
  BY <1>1 DEF Table16Step, Takes

LEMMA Table16IsFold ==
  ASSUME NEW start \in Half, NEW data \in Seq(Byte)
  PROVE  crc16_frag_cal(start, data) = Folded(Table16Step, start, data)
<1> DEFINE P(g) == g = [n \in 0 .. Len(data) |->
                          IF n = 0 THEN start ELSE crc16_byte_cal(g[n - 1], data[n])]
           f == CHOOSE g : P(g)
           G == Table16Step
<1>0. Len(data) \in Nat /\ \A i \in 1 .. Len(data) : data[i] \in Byte
  BY LenProperties, ElementOfSeq
<1>1. \A c \in Half : \A byte \in Byte : G[c][byte] = crc16_byte_cal(c, byte)
  BY DEF Table16Step
<1> HIDE DEF G
<1>2. DOMAIN G = Half /\ Takes(G, Half, Byte)
  BY Table16Takes DEF G
<1>3. PICK g : g = [n \in 0 .. Len(data) |-> IF n = 0 THEN start ELSE G[g[n - 1]][data[n]]]
  BY <1>2, RunExists
<1>4. IsRunOf(g, G, start, data)
  <2>1. 0 \in 0 .. Len(data) /\ \A i \in 1 .. Len(data) : i \in 0 .. Len(data) /\ i # 0
    BY <1>0
  <2>2. g[0] = start
    BY ONLY <1>3, <2>1
  <2>3. \A i \in 1 .. Len(data) : g[i] = G[g[i - 1]][data[i]]
    BY ONLY <1>3, <2>1
  <2> QED
    BY <2>2, <2>3 DEF IsRunOf
<1>5. \A i \in 0 .. Len(data) : g[i] \in Half
  BY <1>2, <1>4, RunType
<1>6. \A n \in 1 .. Len(data) : G[g[n - 1]][data[n]] = crc16_byte_cal(g[n - 1], data[n])
  BY <1>0, <1>1, <1>5
<1>7. P(g)
  <2>1. \A n \in 0 .. Len(data) : n = 0 \/ n \in 1 .. Len(data)
    BY <1>0
  <2>2. \A n \in 0 .. Len(data) : (IF n = 0 THEN start ELSE G[g[n - 1]][data[n]])
          = (IF n = 0 THEN start ELSE crc16_byte_cal(g[n - 1], data[n]))
    BY <2>1, <1>6
  <2> QED
    BY <2>2, <1>3
<1> HIDE DEF P
<1>8. P(f)
  BY <1>7
<1> USE DEF P
<1>9. crc16_frag_cal(start, data) = f[Len(data)]
  BY DEF crc16_frag_cal
<1> HIDE DEF f
<1>10. /\ f[0] = start
       /\ \A n \in 1 .. Len(data) : f[n] = crc16_byte_cal(f[n - 1], data[n])
  BY <1>0, <1>8
<1>11. IsRunOf(f, G, start, data)
  <2> DEFINE T == {i \in Nat : i <= Len(data) => f[i] = g[i]}
  <2>1. 0 \in T
    BY <1>4, <1>10 DEF IsRunOf
  <2>2. ASSUME NEW i \in Nat, i \in T PROVE i + 1 \in T
    <3> SUFFICES ASSUME i + 1 <= Len(data) PROVE f[i + 1] = g[i + 1]
      OBVIOUS
    <3>1. f[i] = g[i] /\ i + 1 \in 1 .. Len(data) /\ (i + 1) - 1 = i
      BY <1>0, <2>2
    <3>2. f[i + 1] = crc16_byte_cal(g[i], data[i + 1])
      BY <3>1, <1>10
    <3>3. g[i + 1] = G[g[i]][data[i + 1]]
      BY <3>1, <1>4 DEF IsRunOf
    <3> QED
      BY <3>1, <3>2, <3>3, <1>6
  <2> HIDE DEF T
  <2>3. Nat \subseteq T
    BY <2>1, <2>2, Induct
  <2>4. \A i \in 0 .. Len(data) : f[i] = g[i]
    BY <1>0, <2>3 DEF T
  <2>5. \A i \in 1 .. Len(data) : i \in 0 .. Len(data) /\ i - 1 \in 0 .. Len(data)
    BY <1>0
  <2> QED
    BY <1>0, <1>4, <2>4, <2>5, <1>10 DEF IsRunOf
<1> QED
  BY <1>2, <1>9, <1>11, FoldedIs DEF G

\* A word is a pair of halves; the name stays closed in the proofs that follow.
Word == Half \X Half

LEMMA WordHalves ==
  ASSUME NEW x \in Word
  PROVE  x[1] \in Half /\ x[2] \in Half /\ x = <<x[1], x[2]>>
BY DEF Word

LEMMA WordOf ==
  ASSUME NEW a \in Half, NEW b \in Half
  PROVE  <<a, b>> \in Word
BY DEF Word

LEMMA XorWordType ==
  ASSUME NEW x \in Word, NEW y \in Word
  PROVE  XorWord(x, y) \in Word
<1>1. x[1] \in Half /\ x[2] \in Half /\ y[1] \in Half /\ y[2] \in Half
  BY WordHalves
<1>2. Xor16(x[1], y[1]) \in Half /\ Xor16(x[2], y[2]) \in Half
  BY <1>1, Xor16Type
<1> QED
  BY <1>2, WordOf DEF XorWord

LEMMA ByteCal32Type ==
  ASSUME NEW c \in Word, NEW byte \in Byte
  PROVE  crc32_byte_cal(c, byte) \in Word
<1>0. c[1] \in Half /\ c[2] \in Half
  BY WordHalves
<1>1. PICK x \in Byte : x = XorByte[c[1] \div 256][byte]
  BY <1>0, HalfParts, XorByteType
<1>2. 1 + x \in 1 .. 256
  BY DEF Byte
<1>3. PICK t \in Half, u \in Half : t = CRC_table[1][1 + x] /\ u = CRC_table[2][1 + x]
  BY <1>2, Table32Type
<1>4. PICK v \in Half, w \in Half : /\ v = 256 * (c[1] % 256) + c[2] \div 256
                                    /\ w = 256 * (c[2] % 256)
  <2>1. PICK a \in Half, b \in Half : a = c[1] /\ b = c[2]
    BY <1>0
  <2>2. 256 * (a % 256) + b \div 256 \in Half /\ 256 * (b % 256) \in Half
    BY DEF Half
  <2> QED
    BY <2>1, <2>2
<1>5. <<v, w>> \in Word /\ <<t, u>> \in Word
  BY WordOf
<1>6. PICK p \in Word, q \in Word : p = <<v, w>> /\ q = <<t, u>>
  BY <1>5
<1>7. XorWord(p, q) \in Word
  BY XorWordType
<1> QED
  BY <1>1, <1>3, <1>4, <1>6, <1>7 DEF crc32_byte_cal

Table32Step == [c \in Word |-> [byte \in Byte |-> crc32_byte_cal(c, byte)]]

LEMMA Table32Takes ==
  DOMAIN Table32Step = Word /\ Takes(Table32Step, Word, Byte)
<1>1. ASSUME NEW c \in Word, NEW byte \in Byte
      PROVE  Table32Step[c][byte] \in Word
  BY ByteCal32Type DEF Table32Step
<1> QED
  BY <1>1 DEF Table32Step, Takes

LEMMA Table32IsFold ==
  ASSUME NEW start \in Word, NEW data \in Seq(Byte)
  PROVE  crc32_frag_cal(start, data) = Folded(Table32Step, start, data)
<1> DEFINE P(g) == g = [n \in 0 .. Len(data) |->
                          IF n = 0 THEN start ELSE crc32_byte_cal(g[n - 1], data[n])]
           f == CHOOSE g : P(g)
           G == Table32Step
<1>0. Len(data) \in Nat /\ \A i \in 1 .. Len(data) : data[i] \in Byte
  BY LenProperties, ElementOfSeq
<1>1. \A c \in Word : \A byte \in Byte : G[c][byte] = crc32_byte_cal(c, byte)
  BY DEF Table32Step
<1> HIDE DEF G
<1>2. DOMAIN G = Word /\ Takes(G, Word, Byte)
  BY Table32Takes DEF G
<1>3. PICK g : g = [n \in 0 .. Len(data) |-> IF n = 0 THEN start ELSE G[g[n - 1]][data[n]]]
  BY <1>2, RunExists
<1>4. IsRunOf(g, G, start, data)
  <2>1. 0 \in 0 .. Len(data) /\ \A i \in 1 .. Len(data) : i \in 0 .. Len(data) /\ i # 0
    BY <1>0
  <2>2. g[0] = start
    BY ONLY <1>3, <2>1
  <2>3. \A i \in 1 .. Len(data) : g[i] = G[g[i - 1]][data[i]]
    BY ONLY <1>3, <2>1
  <2> QED
    BY <2>2, <2>3 DEF IsRunOf
<1>5. \A i \in 0 .. Len(data) : g[i] \in Word
  BY <1>2, <1>4, RunType
<1>6. \A n \in 1 .. Len(data) : G[g[n - 1]][data[n]] = crc32_byte_cal(g[n - 1], data[n])
  BY <1>0, <1>1, <1>5
<1>7. P(g)
  <2>1. \A n \in 0 .. Len(data) : n = 0 \/ n \in 1 .. Len(data)
    BY <1>0
  <2>2. \A n \in 0 .. Len(data) : (IF n = 0 THEN start ELSE G[g[n - 1]][data[n]])
          = (IF n = 0 THEN start ELSE crc32_byte_cal(g[n - 1], data[n]))
    BY <2>1, <1>6
  <2> QED
    BY <2>2, <1>3
<1> HIDE DEF P
<1>8. P(f)
  BY <1>7
<1> USE DEF P
<1>9. crc32_frag_cal(start, data) = f[Len(data)]
  BY DEF crc32_frag_cal
<1> HIDE DEF f
<1>10. /\ f[0] = start
       /\ \A n \in 1 .. Len(data) : f[n] = crc32_byte_cal(f[n - 1], data[n])
  BY <1>0, <1>8
<1>11. IsRunOf(f, G, start, data)
  <2> DEFINE T == {i \in Nat : i <= Len(data) => f[i] = g[i]}
  <2>1. 0 \in T
    BY <1>4, <1>10 DEF IsRunOf
  <2>2. ASSUME NEW i \in Nat, i \in T PROVE i + 1 \in T
    <3> SUFFICES ASSUME i + 1 <= Len(data) PROVE f[i + 1] = g[i + 1]
      OBVIOUS
    <3>1. f[i] = g[i] /\ i + 1 \in 1 .. Len(data) /\ (i + 1) - 1 = i
      BY <1>0, <2>2
    <3>2. f[i + 1] = crc32_byte_cal(g[i], data[i + 1])
      BY <3>1, <1>10
    <3>3. g[i + 1] = G[g[i]][data[i + 1]]
      BY <3>1, <1>4 DEF IsRunOf
    <3> QED
      BY <3>1, <3>2, <3>3, <1>6
  <2> HIDE DEF T
  <2>3. Nat \subseteq T
    BY <2>1, <2>2, Induct
  <2>4. \A i \in 0 .. Len(data) : f[i] = g[i]
    BY <1>0, <2>3 DEF T
  <2>5. \A i \in 1 .. Len(data) : i \in 0 .. Len(data) /\ i - 1 \in 0 .. Len(data)
    BY <1>0
  <2> QED
    BY <1>0, <1>4, <2>4, <2>5, <1>10 DEF IsRunOf
<1> QED
  BY <1>2, <1>9, <1>11, FoldedIs DEF G

-----------------------------------------------------------------------------
(* The checksums, byte by byte.                                            *)

\* What the incremental functions have reached after any message is the
\* checksum of the whole of it, for the loop over bits and for both tables.
THEOREM ChecksumsIncremental == CrcSpec => []CrcIncremental
<1>1. CrcInit => CrcIncremental
  <2> SUFFICES ASSUME CrcInit PROVE CrcIncremental
    OBVIOUS
  <2>1. PICK e \in Seq(Byte) : e = << >>
    <3>1. << >> \in Seq(Byte)
      OBVIOUS
    <3> QED
      BY <3>1
  <2>2. PICK h \in Half, w \in Word : h = 65535 /\ w = <<65535, 65535>>
    <3>1. 65535 \in Half
      BY DEF Half
    <3>2. <<65535, 65535>> \in Word
      BY <3>1, WordOf
    <3> QED
      BY <3>1, <3>2
  <2>3. crc16_mcrf4xx(e) = Folded(BitwiseStep, h, e) /\ Folded(BitwiseStep, h, e) = h
    <3>1. PICK s \in Seq(Byte) : s = << >> /\ s = e
      BY <2>1
    <3>2. crc16_mcrf4xx(s) = Folded(BitwiseStep, 65535, s)
      BY BitwiseIsFold
    <3>3. Folded(BitwiseStep, h, << >>) = h
      BY BitwiseTakes, FoldedEmpty
    <3> QED
      BY <2>2, <3>1, <3>2, <3>3
  <2>4. crc16_frag_cal(h, e) = h
    <3>1. crc16_frag_cal(h, e) = Folded(Table16Step, h, e)
      BY Table16IsFold
    <3>2. Folded(Table16Step, h, << >>) = h
      BY Table16Takes, FoldedEmpty
    <3> QED
      BY <2>1, <3>1, <3>2
  <2>5. crc32_frag_cal(w, e) = w
    <3>1. crc32_frag_cal(w, e) = Folded(Table32Step, w, e)
      BY Table32IsFold
    <3>2. Folded(Table32Step, w, << >>) = w
      BY Table32Takes, FoldedEmpty
    <3> QED
      BY <2>1, <3>1, <3>2
  <2> QED
    BY <2>1, <2>2, <2>3, <2>4, <2>5
       DEF CrcInit, CrcIncremental, crc16_init, crc32_init, crc16_cal, handle_crc16_cal, crc32_cal
<1>2. ASSUME CrcIncremental, [CrcNext]_crcVars PROVE CrcIncremental'
  <2>1. CASE UNCHANGED crcVars
    BY <1>2, <2>1 DEF crcVars, CrcIncremental
  <2>2. ASSUME NEW byte \in Byte, CrcByte(byte) PROVE CrcIncremental'
    <3>1. PICK s \in Seq(Byte) : s = message
      BY <1>2 DEF CrcIncremental
    <3>2. PICK t \in Seq(Byte) : t = Append(s, byte)
      <4>1. Append(s, byte) \in Seq(Byte)
        BY AppendProperties
      <4> QED
        BY <4>1
    <3>3. PICK h \in Half, w \in Word : h = 65535 /\ w = <<65535, 65535>>
      <4>1. 65535 \in Half
        BY DEF Half
      <4>2. <<65535, 65535>> \in Word
        BY <4>1, WordOf
      <4> QED
        BY <4>1, <4>2
    <3>4. crc16_mcrf4xx(t) = crc16_mcrf4xx_update(crc16_mcrf4xx(s), byte)
      <4>1. /\ crc16_mcrf4xx(s) = Folded(BitwiseStep, h, s)
            /\ crc16_mcrf4xx(t) = Folded(BitwiseStep, h, t)
        BY <3>3, BitwiseIsFold
      <4>2. Folded(BitwiseStep, h, Append(s, byte))
              = BitwiseStep[Folded(BitwiseStep, h, s)][byte]
        BY BitwiseTakes, FoldedAppend
      <4>3. Folded(BitwiseStep, h, s) \in Half
        BY BitwiseTakes, FoldedType
      <4> QED
        BY <3>2, <4>1, <4>2, <4>3 DEF BitwiseStep
    <3>5. crc16_frag_cal(h, t) = crc16_byte_cal(crc16_frag_cal(h, s), byte)
      <4>1. /\ crc16_frag_cal(h, s) = Folded(Table16Step, h, s)
            /\ crc16_frag_cal(h, t) = Folded(Table16Step, h, t)
        BY Table16IsFold
      <4>2. Folded(Table16Step, h, Append(s, byte))
              = Table16Step[Folded(Table16Step, h, s)][byte]
        BY Table16Takes, FoldedAppend
      <4>3. Folded(Table16Step, h, s) \in Half
        BY Table16Takes, FoldedType
      <4> QED
        BY <3>2, <4>1, <4>2, <4>3 DEF Table16Step
    <3>6. crc32_frag_cal(w, t) = crc32_byte_cal(crc32_frag_cal(w, s), byte)
      <4>1. /\ crc32_frag_cal(w, s) = Folded(Table32Step, w, s)
            /\ crc32_frag_cal(w, t) = Folded(Table32Step, w, t)
        BY Table32IsFold
      <4>2. Folded(Table32Step, w, Append(s, byte))
              = Table32Step[Folded(Table32Step, w, s)][byte]
        BY Table32Takes, FoldedAppend
      <4>3. Folded(Table32Step, w, s) \in Word
        BY Table32Takes, FoldedType
      <4> QED
        BY <3>2, <4>1, <4>2, <4>3 DEF Table32Step
    <3>7. message' = t
      BY <2>2, <3>1, <3>2 DEF CrcByte
    <3> QED
      BY <1>2, <2>2, <3>1, <3>3, <3>4, <3>5, <3>6, <3>7
         DEF CrcByte, CrcIncremental, crc16_cal, handle_crc16_cal, crc32_cal
  <2> QED
    BY <1>2, <2>1, <2>2 DEF CrcNext
<1> QED
  BY <1>1, <1>2, PTL DEF CrcSpec

\* A message in two fragments, the second taken up where the first ended.
THEOREM FragmentsCompose ==
  /\ \A c \in Half : \A s, t \in Seq(Byte) :
       crc16_frag_cal(c, s \o t) = crc16_frag_cal(crc16_frag_cal(c, s), t)
  /\ \A c \in Word : \A s, t \in Seq(Byte) :
       crc32_frag_cal(c, s \o t) = crc32_frag_cal(crc32_frag_cal(c, s), t)
<1>1. ASSUME NEW c \in Half, NEW s \in Seq(Byte), NEW t \in Seq(Byte)
      PROVE  crc16_frag_cal(c, s \o t) = crc16_frag_cal(crc16_frag_cal(c, s), t)
  <2>1. PICK st \in Seq(Byte) : st = s \o t
    BY ConcatProperties
  <2>2. PICK d \in Half : d = Folded(Table16Step, c, s)
    BY Table16Takes, FoldedType
  <2>3. Folded(Table16Step, c, s \o t) = Folded(Table16Step, Folded(Table16Step, c, s), t)
    BY Table16Takes, FoldedConcat
  <2>4. /\ crc16_frag_cal(c, st) = Folded(Table16Step, c, st)
        /\ crc16_frag_cal(c, s) = Folded(Table16Step, c, s)
        /\ crc16_frag_cal(d, t) = Folded(Table16Step, d, t)
    BY Table16IsFold
  <2> QED
    BY <2>1, <2>2, <2>3, <2>4
<1>2. ASSUME NEW c \in Word, NEW s \in Seq(Byte), NEW t \in Seq(Byte)
      PROVE  crc32_frag_cal(c, s \o t) = crc32_frag_cal(crc32_frag_cal(c, s), t)
  <2>1. PICK st \in Seq(Byte) : st = s \o t
    BY ConcatProperties
  <2>2. PICK d \in Word : d = Folded(Table32Step, c, s)
    BY Table32Takes, FoldedType
  <2>3. Folded(Table32Step, c, s \o t) = Folded(Table32Step, Folded(Table32Step, c, s), t)
    BY Table32Takes, FoldedConcat
  <2>4. /\ crc32_frag_cal(c, st) = Folded(Table32Step, c, st)
        /\ crc32_frag_cal(c, s) = Folded(Table32Step, c, s)
        /\ crc32_frag_cal(d, t) = Folded(Table32Step, d, t)
    BY Table32IsFold
  <2> QED
    BY <2>1, <2>2, <2>3, <2>4
<1> QED
  BY <1>1, <1>2

-----------------------------------------------------------------------------
(* A register of W bits, and one bit fed to it.                            *)

Bit == {0, 1}
Plus(a, b) == IF a = b THEN 0 ELSE 1
Register(W) == [1 .. W -> Bit]

\* The shift register of the polynomial x^W + p, p's highest power first.
Fed(W, p, r, b) ==
  [j \in 1 .. W |-> LET s == IF j < W THEN r[j + 1] ELSE 0
                    IN  IF r[1] = b THEN s ELSE Plus(s, p[j])]

Mix(W, r, t) == [j \in 1 .. W |-> Plus(r[j], t[j])]

\* The first n bits gone.
MovedBy(W, r, n) == [j \in 1 .. W |-> IF j + n <= W THEN r[j + n] ELSE 0]

LEMMA PlusType == \A a, b \in Bit : Plus(a, b) \in Bit
BY DEF Plus, Bit

LEMMA FedType ==
  ASSUME NEW W \in Nat, W >= 1, NEW p \in Register(W), NEW r \in Register(W), NEW b \in Bit
  PROVE  Fed(W, p, r, b) \in Register(W)
<1>1. ASSUME NEW j \in 1 .. W
      PROVE  (LET s == IF j < W THEN r[j + 1] ELSE 0
              IN  IF r[1] = b THEN s ELSE Plus(s, p[j])) \in Bit
  <2>1. (IF j < W THEN r[j + 1] ELSE 0) \in Bit /\ p[j] \in Bit
    BY DEF Register, Bit
  <2> QED
    BY <2>1, PlusType
<1> QED
  BY <1>1 DEF Fed, Register

LEMMA SumType ==
  ASSUME NEW W \in Nat, NEW r \in Register(W), NEW t \in Register(W)
  PROVE  Mix(W, r, t) \in Register(W)
BY PlusType DEF Mix, Register

\* Exclusive or goes through.
LEMMA FedSum ==
  ASSUME NEW W \in Nat, W >= 1, NEW p \in Register(W), NEW r \in Register(W),
         NEW t \in Register(W), NEW b \in Bit, NEW c \in Bit
  PROVE  Fed(W, p, Mix(W, r, t), Plus(b, c)) = Mix(W, Fed(W, p, r, b), Fed(W, p, t, c))
<1>0. 1 \in 1 .. W
  OBVIOUS
<1>1. ASSUME NEW j \in 1 .. W
      PROVE  Fed(W, p, Mix(W, r, t), Plus(b, c))[j]
               = Plus(Fed(W, p, r, b)[j], Fed(W, p, t, c)[j])
  <2>1. PICK u \in Bit, v \in Bit : u = r[1] /\ v = t[1]
    BY <1>0 DEF Register
  <2>2. PICK x \in Bit, y \in Bit : /\ x = IF j < W THEN r[j + 1] ELSE 0
                                    /\ y = IF j < W THEN t[j + 1] ELSE 0
    BY DEF Register, Bit
  <2>3. PICK q \in Bit : q = p[j]
    BY DEF Register
  <2>4. Mix(W, r, t)[1] = Plus(u, v)
    BY <1>0, <2>1 DEF Mix
  <2>5. (IF j < W THEN Mix(W, r, t)[j + 1] ELSE 0) = Plus(x, y)
    <3>1. CASE j < W
      <4>1. j + 1 \in 1 .. W
        BY <3>1
      <4> QED
        BY <2>2, <3>1, <4>1 DEF Mix
    <3>2. CASE ~(j < W)
      BY <2>2, <3>2 DEF Plus
    <3> QED
      BY <3>1, <3>2
  <2>6. Fed(W, p, Mix(W, r, t), Plus(b, c))[j]
          = IF Plus(u, v) = Plus(b, c) THEN Plus(x, y) ELSE Plus(Plus(x, y), q)
    BY <2>3, <2>4, <2>5 DEF Fed
  <2>7. Fed(W, p, r, b)[j] = IF u = b THEN x ELSE Plus(x, q)
    BY <2>1, <2>2, <2>3 DEF Fed
  <2>8. Fed(W, p, t, c)[j] = IF v = c THEN y ELSE Plus(y, q)
    BY <2>1, <2>2, <2>3 DEF Fed
  <2>9. (IF Plus(u, v) = Plus(b, c) THEN Plus(x, y) ELSE Plus(Plus(x, y), q))
          = Plus(IF u = b THEN x ELSE Plus(x, q), IF v = c THEN y ELSE Plus(y, q))
    BY ONLY u \in Bit, v \in Bit, x \in Bit, y \in Bit, q \in Bit, b \in Bit, c \in Bit
       DEF Plus, Bit
  <2> QED
    BY <2>6, <2>7, <2>8, <2>9
<1>2. Fed(W, p, Mix(W, r, t), Plus(b, c))
        = [j \in 1 .. W |-> Fed(W, p, Mix(W, r, t), Plus(b, c))[j]]
  BY DEF Fed
<1> QED
  BY <1>1, <1>2 DEF Mix

\* A register that begins with the bit fed only moves.
LEMMA FedEqual ==
  ASSUME NEW W \in Nat, NEW p, NEW r \in Register(W), NEW n \in Nat, n + 1 <= W
  PROVE  Fed(W, p, MovedBy(W, r, n), r[n + 1]) = MovedBy(W, r, n + 1)
<1>1. 1 \in 1 .. W /\ MovedBy(W, r, n)[1] = r[n + 1]
  BY DEF MovedBy
<1>2. ASSUME NEW j \in 1 .. W
      PROVE  (IF j < W THEN MovedBy(W, r, n)[j + 1] ELSE 0)
               = IF j + (n + 1) <= W THEN r[j + (n + 1)] ELSE 0
  <2>1. CASE j < W
    <3>1. j + 1 \in 1 .. W /\ (j + 1) + n = j + (n + 1)
      BY <2>1
    <3> QED
      BY <2>1, <3>1 DEF MovedBy
  <2>2. CASE ~(j < W)
    BY <2>2
  <2> QED
    BY <2>1, <2>2
<1> QED
  BY <1>1, <1>2 DEF Fed, MovedBy

-----------------------------------------------------------------------------
(* Eight bits fed, the bits of a byte.                                     *)

Octet == [1 .. 8 -> Bit]
NoBits == [i \in 1 .. 8 |-> 0]
SumBits(b, c) == [i \in 1 .. 8 |-> Plus(b[i], c[i])]

Eight(W, p, r, b) ==
  Fed(W, p, Fed(W, p, Fed(W, p, Fed(W, p, Fed(W, p, Fed(W, p, Fed(W, p, Fed(W, p,
    r, b[1]), b[2]), b[3]), b[4]), b[5]), b[6]), b[7]), b[8])

LEMMA OctetBits ==
  ASSUME NEW b \in Octet
  PROVE  /\ b[1] \in Bit /\ b[2] \in Bit /\ b[3] \in Bit /\ b[4] \in Bit
         /\ b[5] \in Bit /\ b[6] \in Bit /\ b[7] \in Bit /\ b[8] \in Bit
BY DEF Octet

LEMMA EightType ==
  ASSUME NEW W \in Nat, W >= 1, NEW p \in Register(W), NEW r \in Register(W), NEW b \in Octet
  PROVE  Eight(W, p, r, b) \in Register(W)
<1>0. /\ b[1] \in Bit /\ b[2] \in Bit /\ b[3] \in Bit /\ b[4] \in Bit
      /\ b[5] \in Bit /\ b[6] \in Bit /\ b[7] \in Bit /\ b[8] \in Bit
  BY OctetBits
<1> QED
  BY <1>0, FedType DEF Eight

LEMMA SumBitsType ==
  ASSUME NEW b \in Octet, NEW c \in Octet
  PROVE  SumBits(b, c) \in Octet /\ NoBits \in Octet /\ SumBits(NoBits, b) = b
<1>1. ASSUME NEW i \in 1 .. 8 PROVE Plus(b[i], c[i]) \in Bit /\ Plus(0, b[i]) = b[i]
  BY DEF Octet, Plus, Bit
<1>2. NoBits \in Octet /\ SumBits(b, c) \in Octet
  BY <1>1 DEF SumBits, Octet, NoBits, Bit
<1>3. SumBits(NoBits, b) = [i \in 1 .. 8 |-> b[i]]
  BY <1>1 DEF SumBits, NoBits
<1> QED
  BY <1>2, <1>3 DEF Octet

LEMMA EightSum ==
  ASSUME NEW W \in Nat, W >= 1, NEW p \in Register(W), NEW r \in Register(W),
         NEW t \in Register(W), NEW b \in Octet, NEW c \in Octet
  PROVE  Eight(W, p, Mix(W, r, t), SumBits(b, c)) = Mix(W, Eight(W, p, r, b), Eight(W, p, t, c))
<1>0. /\ b[1] \in Bit /\ b[2] \in Bit /\ b[3] \in Bit /\ b[4] \in Bit
      /\ b[5] \in Bit /\ b[6] \in Bit /\ b[7] \in Bit /\ b[8] \in Bit
      /\ c[1] \in Bit /\ c[2] \in Bit /\ c[3] \in Bit /\ c[4] \in Bit
      /\ c[5] \in Bit /\ c[6] \in Bit /\ c[7] \in Bit /\ c[8] \in Bit
  BY OctetBits
<1>2. PICK r1 \in Register(W), t1 \in Register(W) :
        /\ r1 = Fed(W, p, r, b[1]) /\ t1 = Fed(W, p, t, c[1])
        /\ Fed(W, p, Mix(W, r, t), Plus(b[1], c[1])) = Mix(W, r1, t1)
  <2>1. Fed(W, p, r, b[1]) \in Register(W) /\ Fed(W, p, t, c[1]) \in Register(W)
    BY <1>0, FedType
  <2>2. Fed(W, p, Mix(W, r, t), Plus(b[1], c[1]))
          = Mix(W, Fed(W, p, r, b[1]), Fed(W, p, t, c[1]))
    <3>1. b[1] \in Bit /\ c[1] \in Bit
      BY ONLY <1>0
    <3> QED
      BY ONLY W \in Nat, W >= 1, p \in Register(W), r \in Register(W),
              t \in Register(W), <3>1, FedSum
  <2> QED
    BY ONLY <2>1, <2>2
<1>3. PICK r2 \in Register(W), t2 \in Register(W) :
        /\ r2 = Fed(W, p, r1, b[2]) /\ t2 = Fed(W, p, t1, c[2])
        /\ Fed(W, p, Mix(W, r1, t1), Plus(b[2], c[2])) = Mix(W, r2, t2)
  <2>1. Fed(W, p, r1, b[2]) \in Register(W) /\ Fed(W, p, t1, c[2]) \in Register(W)
    BY <1>0, FedType
  <2>2. Fed(W, p, Mix(W, r1, t1), Plus(b[2], c[2]))
          = Mix(W, Fed(W, p, r1, b[2]), Fed(W, p, t1, c[2]))
    <3>1. b[2] \in Bit /\ c[2] \in Bit
      BY ONLY <1>0
    <3> QED
      BY ONLY W \in Nat, W >= 1, p \in Register(W), r1 \in Register(W),
              t1 \in Register(W), <3>1, FedSum
  <2> QED
    BY ONLY <2>1, <2>2
<1>4. PICK r3 \in Register(W), t3 \in Register(W) :
        /\ r3 = Fed(W, p, r2, b[3]) /\ t3 = Fed(W, p, t2, c[3])
        /\ Fed(W, p, Mix(W, r2, t2), Plus(b[3], c[3])) = Mix(W, r3, t3)
  <2>1. Fed(W, p, r2, b[3]) \in Register(W) /\ Fed(W, p, t2, c[3]) \in Register(W)
    BY <1>0, FedType
  <2>2. Fed(W, p, Mix(W, r2, t2), Plus(b[3], c[3]))
          = Mix(W, Fed(W, p, r2, b[3]), Fed(W, p, t2, c[3]))
    <3>1. b[3] \in Bit /\ c[3] \in Bit
      BY ONLY <1>0
    <3> QED
      BY ONLY W \in Nat, W >= 1, p \in Register(W), r2 \in Register(W),
              t2 \in Register(W), <3>1, FedSum
  <2> QED
    BY ONLY <2>1, <2>2
<1>5. PICK r4 \in Register(W), t4 \in Register(W) :
        /\ r4 = Fed(W, p, r3, b[4]) /\ t4 = Fed(W, p, t3, c[4])
        /\ Fed(W, p, Mix(W, r3, t3), Plus(b[4], c[4])) = Mix(W, r4, t4)
  <2>1. Fed(W, p, r3, b[4]) \in Register(W) /\ Fed(W, p, t3, c[4]) \in Register(W)
    BY <1>0, FedType
  <2>2. Fed(W, p, Mix(W, r3, t3), Plus(b[4], c[4]))
          = Mix(W, Fed(W, p, r3, b[4]), Fed(W, p, t3, c[4]))
    <3>1. b[4] \in Bit /\ c[4] \in Bit
      BY ONLY <1>0
    <3> QED
      BY ONLY W \in Nat, W >= 1, p \in Register(W), r3 \in Register(W),
              t3 \in Register(W), <3>1, FedSum
  <2> QED
    BY ONLY <2>1, <2>2
<1>6. PICK r5 \in Register(W), t5 \in Register(W) :
        /\ r5 = Fed(W, p, r4, b[5]) /\ t5 = Fed(W, p, t4, c[5])
        /\ Fed(W, p, Mix(W, r4, t4), Plus(b[5], c[5])) = Mix(W, r5, t5)
  <2>1. Fed(W, p, r4, b[5]) \in Register(W) /\ Fed(W, p, t4, c[5]) \in Register(W)
    BY <1>0, FedType
  <2>2. Fed(W, p, Mix(W, r4, t4), Plus(b[5], c[5]))
          = Mix(W, Fed(W, p, r4, b[5]), Fed(W, p, t4, c[5]))
    <3>1. b[5] \in Bit /\ c[5] \in Bit
      BY ONLY <1>0
    <3> QED
      BY ONLY W \in Nat, W >= 1, p \in Register(W), r4 \in Register(W),
              t4 \in Register(W), <3>1, FedSum
  <2> QED
    BY ONLY <2>1, <2>2
<1>7. PICK r6 \in Register(W), t6 \in Register(W) :
        /\ r6 = Fed(W, p, r5, b[6]) /\ t6 = Fed(W, p, t5, c[6])
        /\ Fed(W, p, Mix(W, r5, t5), Plus(b[6], c[6])) = Mix(W, r6, t6)
  <2>1. Fed(W, p, r5, b[6]) \in Register(W) /\ Fed(W, p, t5, c[6]) \in Register(W)
    BY <1>0, FedType
  <2>2. Fed(W, p, Mix(W, r5, t5), Plus(b[6], c[6]))
          = Mix(W, Fed(W, p, r5, b[6]), Fed(W, p, t5, c[6]))
    <3>1. b[6] \in Bit /\ c[6] \in Bit
      BY ONLY <1>0
    <3> QED
      BY ONLY W \in Nat, W >= 1, p \in Register(W), r5 \in Register(W),
              t5 \in Register(W), <3>1, FedSum
  <2> QED
    BY ONLY <2>1, <2>2
<1>8. PICK r7 \in Register(W), t7 \in Register(W) :
        /\ r7 = Fed(W, p, r6, b[7]) /\ t7 = Fed(W, p, t6, c[7])
        /\ Fed(W, p, Mix(W, r6, t6), Plus(b[7], c[7])) = Mix(W, r7, t7)
  <2>1. Fed(W, p, r6, b[7]) \in Register(W) /\ Fed(W, p, t6, c[7]) \in Register(W)
    BY <1>0, FedType
  <2>2. Fed(W, p, Mix(W, r6, t6), Plus(b[7], c[7]))
          = Mix(W, Fed(W, p, r6, b[7]), Fed(W, p, t6, c[7]))
    <3>1. b[7] \in Bit /\ c[7] \in Bit
      BY ONLY <1>0
    <3> QED
      BY ONLY W \in Nat, W >= 1, p \in Register(W), r6 \in Register(W),
              t6 \in Register(W), <3>1, FedSum
  <2> QED
    BY ONLY <2>1, <2>2
<1>9. PICK r8 \in Register(W), t8 \in Register(W) :
        /\ r8 = Fed(W, p, r7, b[8]) /\ t8 = Fed(W, p, t7, c[8])
        /\ Fed(W, p, Mix(W, r7, t7), Plus(b[8], c[8])) = Mix(W, r8, t8)
  <2>1. Fed(W, p, r7, b[8]) \in Register(W) /\ Fed(W, p, t7, c[8]) \in Register(W)
    BY <1>0, FedType
  <2>2. Fed(W, p, Mix(W, r7, t7), Plus(b[8], c[8]))
          = Mix(W, Fed(W, p, r7, b[8]), Fed(W, p, t7, c[8]))
    <3>1. b[8] \in Bit /\ c[8] \in Bit
      BY ONLY <1>0
    <3> QED
      BY ONLY W \in Nat, W >= 1, p \in Register(W), r7 \in Register(W),
              t7 \in Register(W), <3>1, FedSum
  <2> QED
    BY ONLY <2>1, <2>2
<1>10. Eight(W, p, r, b) = r8 /\ Eight(W, p, t, c) = t8
  BY ONLY <1>2, <1>3, <1>4, <1>5, <1>6, <1>7, <1>8, <1>9 DEF Eight
<1>11. /\ SumBits(b, c)[1] = Plus(b[1], c[1]) /\ SumBits(b, c)[2] = Plus(b[2], c[2])
       /\ SumBits(b, c)[3] = Plus(b[3], c[3]) /\ SumBits(b, c)[4] = Plus(b[4], c[4])
       /\ SumBits(b, c)[5] = Plus(b[5], c[5]) /\ SumBits(b, c)[6] = Plus(b[6], c[6])
       /\ SumBits(b, c)[7] = Plus(b[7], c[7]) /\ SumBits(b, c)[8] = Plus(b[8], c[8])
  BY DEF SumBits
<1>12. Eight(W, p, Mix(W, r, t), SumBits(b, c)) = Mix(W, r8, t8)
  BY ONLY <1>2, <1>3, <1>4, <1>5, <1>6, <1>7, <1>8, <1>9, <1>11 DEF Eight
<1> QED
  BY <1>10, <1>12

\* Fed the bits it begins with, a register moves by eight.
LEMMA EightEqual ==
  ASSUME NEW W \in Nat, W >= 8, NEW p \in Register(W), NEW r \in Register(W),
         NEW b \in Octet, \A i \in 1 .. 8 : b[i] = r[i]
  PROVE  Eight(W, p, r, b) = MovedBy(W, r, 8)
<1>0. r = MovedBy(W, r, 0)
  <2>1. MovedBy(W, r, 0) = [j \in 1 .. W |-> r[j]]
    BY DEF MovedBy
  <2> QED
    BY <2>1 DEF Register
<1>1. /\ b[1] = r[0 + 1] /\ b[2] = r[1 + 1] /\ b[3] = r[2 + 1] /\ b[4] = r[3 + 1]
      /\ b[5] = r[4 + 1] /\ b[6] = r[5 + 1] /\ b[7] = r[6 + 1] /\ b[8] = r[7 + 1]
  OBVIOUS
<1>2. ASSUME NEW n \in 0 .. 7
      PROVE  Fed(W, p, MovedBy(W, r, n), r[n + 1]) = MovedBy(W, r, n + 1)
  <2>1. n \in Nat /\ n + 1 <= W
    OBVIOUS
  <2> QED
    BY <2>1, FedEqual
<1>3. /\ Fed(W, p, MovedBy(W, r, 0), b[1]) = MovedBy(W, r, 1)
      /\ Fed(W, p, MovedBy(W, r, 1), b[2]) = MovedBy(W, r, 2)
      /\ Fed(W, p, MovedBy(W, r, 2), b[3]) = MovedBy(W, r, 3)
      /\ Fed(W, p, MovedBy(W, r, 3), b[4]) = MovedBy(W, r, 4)
      /\ Fed(W, p, MovedBy(W, r, 4), b[5]) = MovedBy(W, r, 5)
      /\ Fed(W, p, MovedBy(W, r, 5), b[6]) = MovedBy(W, r, 6)
      /\ Fed(W, p, MovedBy(W, r, 6), b[7]) = MovedBy(W, r, 7)
      /\ Fed(W, p, MovedBy(W, r, 7), b[8]) = MovedBy(W, r, 8)
  BY <1>1, <1>2
<1>4. Eight(W, p, MovedBy(W, r, 0), b) = MovedBy(W, r, 8)
  BY ONLY <1>3 DEF Eight
<1> QED
  BY <1>0, <1>4

\* The eight bits and then zeros.
AtFront(W, c) == [j \in 1 .. W |-> IF j <= 8 THEN c[j] ELSE 0]
First(r) == [i \in 1 .. 8 |-> r[i]]

\* What eight zero bits make of a register of eight bits.
Entry(W, p, c) == Eight(W, p, AtFront(W, c), NoBits)

LEMMA FrontType ==
  ASSUME NEW W \in Nat, W >= 8, NEW c \in Octet, NEW r \in Register(W)
  PROVE  AtFront(W, c) \in Register(W) /\ First(r) \in Octet
<1>1. \A i \in 1 .. 8 : i \in 1 .. W
  OBVIOUS
<1>2. First(r) \in Octet
  BY <1>1 DEF First, Octet, Register
<1>3. ASSUME NEW j \in 1 .. W PROVE (IF j <= 8 THEN c[j] ELSE 0) \in Bit
  <2>1. j <= 8 => j \in 1 .. 8
    OBVIOUS
  <2> QED
    BY <2>1 DEF Octet, Bit
<1> QED
  BY <1>2, <1>3 DEF AtFront, Register

\* The step by bytes that a table makes possible.
LEMMA EightSplits ==
  ASSUME NEW W \in Nat, W >= 8, NEW p \in Register(W), NEW r \in Register(W), NEW b \in Octet
  PROVE  Eight(W, p, r, b)
           = Mix(W, Entry(W, p, SumBits(First(r), b)), MovedBy(W, r, 8))
<1>1. PICK c \in Octet : c = SumBits(First(r), b)
  BY FrontType, SumBitsType
<1>2. PICK x \in Register(W) : x = AtFront(W, c)
  BY FrontType
<1>3. PICK y \in Register(W) : y = [j \in 1 .. W |-> IF j <= 8 THEN b[j] ELSE r[j]]
  <2>1. ASSUME NEW j \in 1 .. W PROVE (IF j <= 8 THEN b[j] ELSE r[j]) \in Bit
    <3>1. j <= 8 => j \in 1 .. 8
      OBVIOUS
    <3> QED
      BY <3>1 DEF Octet, Register
  <2> QED
    BY <2>1 DEF Register
<1>4. r = Mix(W, x, y)
  <2>1. ASSUME NEW j \in 1 .. W PROVE Plus(x[j], y[j]) = r[j]
    <3>1. CASE j <= 8
      <4>1. j \in 1 .. 8
        BY <3>1
      <4>2. x[j] = Plus(r[j], b[j]) /\ y[j] = b[j]
        BY <1>1, <1>2, <1>3, <3>1, <4>1 DEF AtFront, SumBits, First
      <4>3. r[j] \in Bit /\ b[j] \in Bit
        BY <4>1 DEF Register, Octet
      <4> QED
        BY <4>2, <4>3 DEF Plus, Bit
    <3>2. CASE ~(j <= 8)
      <4>1. x[j] = 0 /\ y[j] = r[j] /\ r[j] \in Bit
        BY <1>2, <1>3, <3>2 DEF AtFront, Register
      <4> QED
        BY <4>1 DEF Plus, Bit
    <3> QED
      BY <3>1, <3>2
  <2>2. Mix(W, x, y) = [j \in 1 .. W |-> r[j]]
    BY <2>1 DEF Mix
  <2> QED
    BY <2>2 DEF Register
<1>5. b = SumBits(NoBits, b) /\ NoBits \in Octet
  BY SumBitsType
<1>6. Eight(W, p, Mix(W, x, y), SumBits(NoBits, b))
        = Mix(W, Eight(W, p, x, NoBits), Eight(W, p, y, b))
  BY <1>5, EightSum
<1>7. Eight(W, p, y, b) = MovedBy(W, y, 8)
  <2>1. \A i \in 1 .. 8 : b[i] = y[i]
    BY <1>3
  <2> QED
    BY <2>1, EightEqual
<1>8. MovedBy(W, y, 8) = MovedBy(W, r, 8)
  <2>1. ASSUME NEW j \in 1 .. W
        PROVE (IF j + 8 <= W THEN y[j + 8] ELSE 0) = IF j + 8 <= W THEN r[j + 8] ELSE 0
    <3>1. j + 8 <= W => j + 8 \in 1 .. W /\ ~(j + 8 <= 8)
      OBVIOUS
    <3> QED
      BY <1>3, <3>1
  <2> QED
    BY <2>1 DEF MovedBy
<1> QED
  BY <1>1, <1>2, <1>4, <1>5, <1>6, <1>7, <1>8 DEF Entry

\* The bits fed may as well be added to the register before.
LEMMA EightAhead ==
  ASSUME NEW W \in Nat, W >= 8, NEW p \in Register(W), NEW r \in Register(W), NEW b \in Octet
  PROVE  Eight(W, p, r, b) = Eight(W, p, Mix(W, r, AtFront(W, b)), NoBits)
<1>1. PICK f \in Register(W) : f = AtFront(W, b)
  BY FrontType
<1>2. PICK t \in Register(W) : t = Mix(W, r, f)
  BY SumType
<1>3. r = Mix(W, t, f)
  <2>1. ASSUME NEW j \in 1 .. W PROVE Plus(t[j], f[j]) = r[j]
    <3>1. t[j] = Plus(r[j], f[j]) /\ r[j] \in Bit /\ f[j] \in Bit
      BY <1>2 DEF Mix, Register
    <3> QED
      BY <3>1 DEF Plus, Bit
  <2>2. Mix(W, t, f) = [j \in 1 .. W |-> r[j]]
    BY <2>1 DEF Mix
  <2> QED
    BY <2>2 DEF Register
<1>4. b = SumBits(NoBits, b) /\ NoBits \in Octet
  BY SumBitsType
<1>5. Eight(W, p, Mix(W, t, f), SumBits(NoBits, b))
        = Mix(W, Eight(W, p, t, NoBits), Eight(W, p, f, b))
  BY <1>4, EightSum
<1>6. Eight(W, p, f, b) = MovedBy(W, f, 8)
  <2>1. \A i \in 1 .. 8 : b[i] = f[i]
    BY <1>1 DEF AtFront
  <2> QED
    BY <2>1, EightEqual
<1>7. PICK e \in Register(W) : e = Eight(W, p, t, NoBits)
  BY <1>4, EightType
<1>8. Mix(W, e, MovedBy(W, f, 8)) = e
  <2>1. ASSUME NEW j \in 1 .. W PROVE Plus(e[j], MovedBy(W, f, 8)[j]) = e[j]
    <3>1. MovedBy(W, f, 8)[j] = 0
      <4>1. j + 8 <= W => j + 8 \in 1 .. W /\ ~(j + 8 <= 8)
        OBVIOUS
      <4> QED
        BY <1>1, <4>1 DEF AtFront, MovedBy
    <3>2. e[j] \in Bit
      BY DEF Register
    <3> QED
      BY <3>1, <3>2 DEF Plus, Bit
  <2>2. Mix(W, e, MovedBy(W, f, 8)) = [j \in 1 .. W |-> e[j]]
    BY <2>1 DEF Mix
  <2> QED
    BY <2>2 DEF Register
<1> QED
  BY <1>1, <1>2, <1>3, <1>4, <1>5, <1>6, <1>7, <1>8

-----------------------------------------------------------------------------
(* The remainder of a division, as what a shift register comes to.         *)

Feed(W, p) == [r \in Register(W) |-> [b \in Bit |-> Fed(W, p, r, b)]]

LEMMA FeedTakes ==
  ASSUME NEW W \in Nat, W >= 1, NEW p \in Register(W)
  PROVE  DOMAIN Feed(W, p) = Register(W) /\ Takes(Feed(W, p), Register(W), Bit)
<1>1. ASSUME NEW r \in Register(W), NEW b \in Bit PROVE Feed(W, p)[r][b] \in Register(W)
  BY FedType DEF Feed
<1> QED
  BY <1>1 DEF Feed, Takes

LEMMA EightIsFold ==
  ASSUME NEW W \in Nat, W >= 1, NEW p \in Register(W), NEW r \in Register(W), NEW b \in Octet
  PROVE  b \in Seq(Bit) /\ Folded(Feed(W, p), r, b) = Eight(W, p, r, b)
<1>1. b \in Seq(Bit) /\ Len(b) = 8
  <2>1. PICK c \in Seq(Bit) : c = [i \in 1 .. 8 |-> b[i]] /\ Len(c) = 8
    <3>1. [i \in 1 .. 8 |-> b[i]] \in Seq(Bit) /\ Len([i \in 1 .. 8 |-> b[i]]) = 8
      BY DEF Octet
    <3> QED
      BY <3>1
  <2>2. b = [i \in 1 .. 8 |-> b[i]]
    BY DEF Octet
  <2> QED
    BY <2>1, <2>2
<1> DEFINE G == Feed(W, p)
<1>2. DOMAIN G = Register(W) /\ Takes(G, Register(W), Bit)
  BY FeedTakes
<1>3. \A x \in Register(W) : \A c \in Bit : G[x][c] = Fed(W, p, x, c)
  BY DEF Feed
<1> HIDE DEF G
<1>4. PICK f : /\ IsRunOf(f, G, r, b) /\ \A i \in 0 .. Len(b) : f[i] \in Register(W)
               /\ Folded(G, r, b) = f[Len(b)]
  <2>1. b \in Seq(Bit)
    BY <1>1
  <2>2. \E f : /\ IsRunOf(f, G, r, b) /\ \A i \in 0 .. Len(b) : f[i] \in Register(W)
               /\ Folded(G, r, b) = f[Len(b)]
    BY ONLY r \in Register(W), <2>1, <1>2, RunIs
  <2> QED
    BY <2>2
<1>5. f[0] = r /\ Folded(G, r, b) = f[8]
  BY <1>1, <1>4 DEF IsRunOf
<1>6. ASSUME NEW i \in 1 .. 8 PROVE f[i] = Fed(W, p, f[i - 1], b[i])
  <2>1. f[i] = G[f[i - 1]][b[i]]
    BY <1>1, <1>4 DEF IsRunOf
  <2>2. f[i - 1] \in Register(W)
    BY <1>1, <1>4
  <2>3. b[i] \in Bit
    BY DEF Octet
  <2> QED
    BY <1>3, <2>1, <2>2, <2>3
<1>7. /\ f[1] = Fed(W, p, f[0], b[1]) /\ f[2] = Fed(W, p, f[1], b[2])
      /\ f[3] = Fed(W, p, f[2], b[3]) /\ f[4] = Fed(W, p, f[3], b[4])
      /\ f[5] = Fed(W, p, f[4], b[5]) /\ f[6] = Fed(W, p, f[5], b[6])
      /\ f[7] = Fed(W, p, f[6], b[7]) /\ f[8] = Fed(W, p, f[7], b[8])
  <2>1. /\ f[1] = Fed(W, p, f[1 - 1], b[1]) /\ f[2] = Fed(W, p, f[2 - 1], b[2])
        /\ f[3] = Fed(W, p, f[3 - 1], b[3]) /\ f[4] = Fed(W, p, f[4 - 1], b[4])
        /\ f[5] = Fed(W, p, f[5 - 1], b[5]) /\ f[6] = Fed(W, p, f[6 - 1], b[6])
        /\ f[7] = Fed(W, p, f[7 - 1], b[7]) /\ f[8] = Fed(W, p, f[8 - 1], b[8])
    BY <1>6
  <2> QED
    BY ONLY <2>1
<1> QED
  BY <1>1, <1>5, <1>7 DEF Eight, G

\* One step of Remainder.
Divided(g, w) ==
  IF w[1] = 0 THEN w
  ELSE [j \in DOMAIN w |-> IF j <= Len(g) THEN (w[j] + g[j]) % 2 ELSE w[j]]

\* What is left after t bits: the register over the bits it has not seen.
LeftOver(W, n, r, q, t) ==
  [j \in 1 .. n + W - t |-> IF j <= W THEN Plus(r[j], q[t + j]) ELSE q[t + j]]

LEMMA LeftOverType ==
  ASSUME NEW W \in Nat, W >= 1, NEW n \in Nat, NEW r \in Register(W), NEW q \in Seq(Bit),
         Len(q) = n + W, NEW t \in 0 .. n
  PROVE  LeftOver(W, n, r, q, t) \in Seq(Bit) /\ Len(LeftOver(W, n, r, q, t)) = n + W - t
<1>1. ASSUME NEW j \in 1 .. n + W - t
      PROVE  (IF j <= W THEN Plus(r[j], q[t + j]) ELSE q[t + j]) \in Bit
  <2>1. t + j \in 1 .. Len(q)
    OBVIOUS
  <2>2. q[t + j] \in Bit
    BY <2>1, ElementOfSeq
  <2>3. j <= W => r[j] \in Bit
    BY DEF Register
  <2> QED
    BY <2>2, <2>3, PlusType
<1>2. PICK m \in Nat : m = n + W - t
  OBVIOUS
<1>3. LeftOver(W, n, r, q, t) \in [1 .. m -> Bit]
  BY <1>1, <1>2 DEF LeftOver
<1> QED
  BY <1>2, <1>3, IsASeq

LEMMA DividedIs ==
  ASSUME NEW g \in Seq(Bit), NEW w \in Seq(Bit), Len(g) <= Len(w), Len(g) >= 1
  PROVE  /\ Divided(g, w) \in Seq(Bit) /\ Len(Divided(g, w)) = Len(w)
         /\ \A j \in 1 .. Len(w) : Divided(g, w)[j] =
              IF w[1] = 0 \/ j > Len(g) THEN w[j] ELSE Plus(w[j], g[j])
<1>0. Len(w) \in Nat /\ Len(g) \in Nat /\ DOMAIN w = 1 .. Len(w)
  BY LenProperties
<1>1. CASE w[1] = 0
  BY <1>0, <1>1 DEF Divided
<1>2. CASE w[1] # 0
  <2>1. ASSUME NEW j \in 1 .. Len(w)
        PROVE  /\ (IF j <= Len(g) THEN (w[j] + g[j]) % 2 ELSE w[j]) \in Bit
               /\ (IF j <= Len(g) THEN (w[j] + g[j]) % 2 ELSE w[j])
                    = IF j > Len(g) THEN w[j] ELSE Plus(w[j], g[j])
    <3>1. w[j] \in Bit
      BY ElementOfSeq
    <3>2. CASE j <= Len(g)
      <4>1. j \in 1 .. Len(g)
        BY <1>0, <3>2
      <4>2. g[j] \in Bit
        BY <4>1, ElementOfSeq
      <4>3. (w[j] + g[j]) % 2 = Plus(w[j], g[j]) /\ Plus(w[j], g[j]) \in Bit
        BY <3>1, <4>2 DEF Bit, Plus
      <4> QED
        BY <1>0, <3>2, <4>3
    <3>3. CASE ~(j <= Len(g))
      BY <1>0, <3>1, <3>3
    <3> QED
      BY <3>2, <3>3
  <2>2. Divided(g, w) = [j \in 1 .. Len(w) |-> IF j > Len(g) THEN w[j] ELSE Plus(w[j], g[j])]
    BY <1>0, <1>2, <2>1 DEF Divided
  <2>3. Divided(g, w) \in [1 .. Len(w) -> Bit]
    BY <2>1, <2>2
  <2>4. Divided(g, w) \in Seq(Bit) /\ Len(Divided(g, w)) = Len(w)
    BY <1>0, <2>3, IsASeq
  <2> QED
    BY <1>2, <2>2, <2>4
<1> QED
  BY <1>1, <1>2

\* x^W + p, as bits.
IsGenerator(g, W, p) ==
  g \in Seq(Bit) /\ Len(g) = W + 1 /\ g[1] = 1 /\ \A j \in 1 .. W : g[j + 1] = p[j]

MovesOn(W, p, g, n, r, q, t) ==
  LeftOver(W, n, Fed(W, p, r, q[t]), q, t) = Tail(Divided(g, LeftOver(W, n, r, q, t - 1)))

LEMMA LeftOverMoves ==
  ASSUME NEW W \in Nat, W >= 1, NEW p \in Register(W), NEW g, IsGenerator(g, W, p),
         NEW n \in Nat, NEW r \in Register(W), NEW q \in Seq(Bit),
         Len(q) = n + W, NEW t \in 1 .. n
  PROVE  MovesOn(W, p, g, n, r, q, t)
<1> SUFFICES LeftOver(W, n, Fed(W, p, r, q[t]), q, t)
               = Tail(Divided(g, LeftOver(W, n, r, q, t - 1)))
  BY DEF MovesOn
<1>g. g \in Seq(Bit) /\ Len(g) = W + 1 /\ g[1] = 1 /\ \A j \in 1 .. W : g[j + 1] = p[j]
  BY DEF IsGenerator
<1> USE <1>g
<1>0. t - 1 \in 0 .. n /\ t \in 0 .. n /\ 1 \in 1 .. W /\ 1 + (t - 1) = t /\ t - 1 + 1 = t
  OBVIOUS
<1>1. PICK m \in Nat : m = n + W - t /\ m >= W
  OBVIOUS
<1>2. PICK w \in Seq(Bit) : w = LeftOver(W, n, r, q, t - 1) /\ Len(w) = m + 1
  <2>1. n + W - (t - 1) = m + 1
    BY <1>1
  <2> QED
    BY <1>0, <2>1, LeftOverType
<1>3. \A j \in 1 .. m + 1 : w[j] = IF j <= W THEN Plus(r[j], q[t - 1 + j]) ELSE q[t - 1 + j]
  BY <1>1, <1>2 DEF LeftOver
<1>4. w[1] = Plus(r[1], q[t])
  <2>1. 1 \in 1 .. m + 1 /\ 1 <= W
    BY <1>1
  <2>2. w[1] = Plus(r[1], q[t - 1 + 1])
    BY <1>3, <2>1
  <2> QED
    BY <1>0, <2>2
<1>5. PICK v \in Seq(Bit) : /\ v = Divided(g, w) /\ Len(v) = m + 1
        /\ \A j \in 1 .. m + 1 : v[j] = IF w[1] = 0 \/ j > W + 1 THEN w[j] ELSE Plus(w[j], g[j])
  <2>1. Len(g) <= Len(w) /\ Len(g) >= 1
    BY <1>1, <1>2
  <2>2. /\ Divided(g, w) \in Seq(Bit) /\ Len(Divided(g, w)) = Len(w)
        /\ \A j \in 1 .. Len(w) : Divided(g, w)[j] =
             IF w[1] = 0 \/ j > Len(g) THEN w[j] ELSE Plus(w[j], g[j])
    BY ONLY g \in Seq(Bit), w \in Seq(Bit), <2>1, DividedIs
  <2> QED
    BY <1>2, <2>2
<1>6. Tail(v) \in Seq(Bit) /\ Len(Tail(v)) = m /\ \A j \in 1 .. m : Tail(v)[j] = v[j + 1]
  <2>1. v # << >>
    BY <1>1, <1>5
  <2> QED
    BY <1>1, <1>5, <2>1, HeadTailProperties
<1>7. PICK f \in Register(W) : f = Fed(W, p, r, q[t])
  <2>1. q[t] \in Bit
    <3>1. t \in 1 .. Len(q)
      OBVIOUS
    <3> QED
      BY <3>1, ElementOfSeq
  <2> QED
    BY <2>1, FedType
<1>8. \A j \in 1 .. W : f[j] = LET s == IF j < W THEN r[j + 1] ELSE 0
                               IN  IF r[1] = q[t] THEN s ELSE Plus(s, p[j])
  BY <1>7 DEF Fed
<1>9. ASSUME NEW j \in 1 .. m
      PROVE  (IF j <= W THEN Plus(f[j], q[t + j]) ELSE q[t + j]) = v[j + 1]
  <2>1. j + 1 \in 1 .. m + 1 /\ t - 1 + (j + 1) = t + j /\ t + j \in 1 .. Len(q)
    BY <1>1
  <2>2. w[j + 1] = IF j + 1 <= W THEN Plus(r[j + 1], q[t + j]) ELSE q[t + j]
    BY <1>3, <2>1
  <2>3. v[j + 1] = IF w[1] = 0 \/ j + 1 > W + 1 THEN w[j + 1] ELSE Plus(w[j + 1], g[j + 1])
    BY <1>5, <2>1
  <2>4. PICK x \in Bit : x = q[t + j]
    BY <2>1, ElementOfSeq
  <2>5. r[1] \in Bit /\ q[t] \in Bit
    <3>1. t \in 1 .. Len(q)
      OBVIOUS
    <3> QED
      BY <1>0, <3>1, ElementOfSeq DEF Register
  <2>6. w[1] = 0 <=> r[1] = q[t]
    BY <1>4, <2>5 DEF Plus, Bit
  <2>7. CASE j < W
    <3>1. j \in 1 .. W /\ j + 1 \in 1 .. W /\ j + 1 <= W /\ ~(j + 1 > W + 1)
      BY <2>7
    <3>2. PICK y \in Bit, z \in Bit : y = r[j + 1] /\ z = p[j] /\ z = g[j + 1]
      BY <3>1 DEF Register
    <3>3. f[j] = IF r[1] = q[t] THEN y ELSE Plus(y, z)
      BY <1>8, <2>7, <3>1, <3>2
    <3>4. v[j + 1] = IF r[1] = q[t] THEN Plus(y, x) ELSE Plus(Plus(y, x), z)
      BY <2>2, <2>3, <2>4, <2>6, <3>1, <3>2
    <3>5. Plus(Plus(y, z), x) = Plus(Plus(y, x), z)
      BY DEF Plus, Bit
    <3> QED
      BY <2>4, <3>1, <3>3, <3>4, <3>5
  <2>8. CASE j = W
    <3>1. j \in 1 .. W /\ ~(j + 1 <= W) /\ ~(j + 1 > W + 1) /\ ~(j < W)
      BY <2>8
    <3>2. PICK z \in Bit : z = p[j] /\ z = g[j + 1]
      BY <3>1 DEF Register
    <3>3. f[j] = IF r[1] = q[t] THEN 0 ELSE Plus(0, z)
      BY <1>8, <3>1, <3>2
    <3>4. v[j + 1] = IF r[1] = q[t] THEN x ELSE Plus(x, z)
      BY <2>2, <2>3, <2>4, <2>6, <3>1, <3>2
    <3>5. Plus(Plus(0, z), x) = Plus(x, z) /\ Plus(0, x) = x
      BY DEF Plus, Bit
    <3> QED
      BY <2>4, <3>1, <3>3, <3>4, <3>5
  <2>9. CASE j > W
    BY <2>2, <2>3, <2>9
  <2> QED
    BY <2>7, <2>8, <2>9
<1>10. LeftOver(W, n, f, q, t) = [j \in 1 .. m |-> v[j + 1]]
  BY <1>1, <1>9 DEF LeftOver
<1>11. Tail(v) = [j \in 1 .. m |-> v[j + 1]]
  <2>1. DOMAIN Tail(v) = 1 .. m /\ Tail(v) = [j \in DOMAIN Tail(v) |-> Tail(v)[j]]
    BY <1>6, LenProperties
  <2> QED
    BY <1>6, <2>1
<1> QED
  BY <1>2, <1>5, <1>7, <1>10, <1>11

\* The register while the first n bits of q are fed to it.
IsFeeding(reg, W, p, n, q) ==
  /\ \A t \in 0 .. n : reg[t] \in Register(W)
  /\ \A t \in 1 .. n : reg[t] = Fed(W, p, reg[t - 1], q[t])

\* With q as the dividend, the remainder of what LeftOver begins with.
LEMMA RemainderIs ==
  ASSUME NEW W \in Nat, W >= 1, NEW p \in Register(W), NEW g, IsGenerator(g, W, p),
         NEW n \in Nat, NEW q \in Seq(Bit), Len(q) = n + W,
         NEW reg, IsFeeding(reg, W, p, n, q),
         NEW s \in Seq(Bit), s = LeftOver(W, n, reg[0], q, 0)
  PROVE  Remainder(s, g) = LeftOver(W, n, reg[n], q, n)
<1>g. /\ g \in Seq(Bit) /\ Len(g) = W + 1
      /\ \A t \in 0 .. n : reg[t] \in Register(W)
      /\ \A t \in 1 .. n : reg[t] = Fed(W, p, reg[t - 1], q[t])
  BY DEF IsGenerator, IsFeeding
<1> USE <1>g
<1> DEFINE P(f) == f = [k \in 0 .. Len(s) - Len(g) + 1 |->
                          IF k = 0 THEN s ELSE Tail(Divided(g, f[k - 1]))]
           left == CHOOSE f : P(f)
           E == [t \in 0 .. n |-> LeftOver(W, n, reg[t], q, t)]
<1>0. Len(s) - Len(g) + 1 = n
  <2>1. Len(s) = n + W
    <3>1. 0 \in 0 .. n /\ n + W - 0 = n + W
      OBVIOUS
    <3>2. reg[0] \in Register(W)
      BY <3>1
    <3>3. Len(LeftOver(W, n, reg[0], q, 0)) = n + W - 0
      BY <3>1, <3>2, LeftOverType
    <3> QED
      BY <3>1, <3>3
  <2> QED
    BY <2>1
<1>1. Remainder(s, g) = left[n]
  <2>1. Remainder(s, g) = left[Len(s) - Len(g) + 1]
    BY DEF Remainder, Divided
  <2> QED
    BY <1>0, <2>1
<1>2. ASSUME NEW t \in 1 .. n PROVE E[t] = Tail(Divided(g, E[t - 1]))
  <2>1. t \in 0 .. n /\ t - 1 \in 0 .. n
    OBVIOUS
  <2>2. PICK r \in Register(W) : r = reg[t - 1]
    BY <2>1
  <2>3. LeftOver(W, n, Fed(W, p, r, q[t]), q, t)
          = Tail(Divided(g, LeftOver(W, n, r, q, t - 1)))
    <3>1. MovesOn(W, p, g, n, r, q, t)
      BY ONLY W \in Nat, W >= 1, p \in Register(W), IsGenerator(g, W, p), n \in Nat,
              r \in Register(W), q \in Seq(Bit), Len(q) = n + W, t \in 1 .. n, LeftOverMoves
    <3> QED
      BY <3>1 DEF MovesOn
  <2>4. reg[t] = Fed(W, p, r, q[t])
    BY <2>2
  <2> QED
    BY <2>1, <2>2, <2>3, <2>4
<1>3. E[0] = s
  OBVIOUS
<1>4. E = [t \in 0 .. n |-> E[t]]
  OBVIOUS
<1> HIDE DEF E
<1>5. [t \in 0 .. n |-> E[t]] = [k \in 0 .. n |-> IF k = 0 THEN s ELSE Tail(Divided(g, E[k - 1]))]
  <2>1. ASSUME NEW t \in 0 .. n
        PROVE  E[t] = IF t = 0 THEN s ELSE Tail(Divided(g, E[t - 1]))
    <3>1. t = 0 \/ t \in 1 .. n
      OBVIOUS
    <3> QED
      BY <1>2, <1>3, <3>1
  <2> QED
    BY <2>1
<1>6. P(E)
  BY <1>0, <1>4, <1>5
<1>7. P(left)
  <2> HIDE DEF P
  <2> QED
    BY <1>6
<1> HIDE DEF left
<1>8. left[0] = s /\ \A k \in 1 .. n : left[k] = Tail(Divided(g, left[k - 1]))
  <2>1. \A k \in 0 .. n : left[k] = IF k = 0 THEN s ELSE Tail(Divided(g, left[k - 1]))
    BY <1>0, <1>7
  <2>2. 0 \in 0 .. n /\ \A k \in 1 .. n : k \in 0 .. n /\ k # 0
    OBVIOUS
  <2> QED
    BY <2>1, <2>2
<1> HIDE DEF P
<1> DEFINE T == {k \in Nat : k <= n => left[k] = E[k]}
<1>9. 0 \in T
  BY <1>3, <1>8
<1>10. ASSUME NEW k \in Nat, k \in T PROVE k + 1 \in T
  <2> SUFFICES ASSUME k + 1 <= n PROVE left[k + 1] = E[k + 1]
    OBVIOUS
  <2>1. left[k] = E[k] /\ k + 1 \in 1 .. n /\ (k + 1) - 1 = k
    BY <1>10
  <2>2. left[k + 1] = Tail(Divided(g, left[(k + 1) - 1]))
    BY <1>8, <2>1
  <2>3. E[k + 1] = Tail(Divided(g, E[(k + 1) - 1]))
    BY <1>2, <2>1
  <2> QED
    BY <2>1, <2>2, <2>3
<1> HIDE DEF T
<1>11. Nat \subseteq T
  BY <1>9, <1>10, Induct
<1>12. left[n] = E[n]
  BY <1>11 DEF T
<1> QED
  BY <1>1, <1>12 DEF E

Ones(W) == [j \in 1 .. W |-> 1]

\* The CRC of some bits, by division, is what the register of ones comes to.
LEMMA DivisionIsRegister ==
  ASSUME NEW W \in Nat, W >= 1, NEW p \in Register(W), NEW g, IsGenerator(g, W, p),
         NEW s \in Seq(Bit)
  PROVE  DivisionCrc(s, g) = Folded(Feed(W, p), Ones(W), s)
<1>1. PICK n \in Nat : n = Len(s)
  BY LenProperties
<1>2. PICK z \in Seq(Bit) : z = Zeros(W) /\ Len(z) = W /\ \A i \in 1 .. W : z[i] = 0
  <2>1. Zeros(W) \in Seq(Bit) /\ Len(Zeros(W)) = W /\ \A i \in 1 .. W : Zeros(W)[i] = 0
    BY IsASeq DEF Zeros, Bit
  <2> QED
    BY <2>1
<1>3. PICK q \in Seq(Bit) :
        /\ q = s \o z /\ Len(q) = n + W
        /\ \A i \in 1 .. n : q[i] = s[i]
        /\ \A k \in n + 1 .. n + W : q[k] = 0
  <2>1. s \o z \in Seq(Bit) /\ Len(s \o z) = Len(s) + Len(z)
        /\ \A i \in 1 .. Len(s) + Len(z) : (s \o z)[i] = IF i <= Len(s) THEN s[i] ELSE z[i - Len(s)]
    BY ConcatProperties
  <2>2. PICK q \in Seq(Bit) : /\ q = s \o z /\ Len(q) = n + W
          /\ \A i \in 1 .. n + W : q[i] = IF i <= n THEN s[i] ELSE z[i - n]
    BY <2>1, <1>1, <1>2
  <2>3. ASSUME NEW k \in n + 1 .. n + W PROVE q[k] = 0
    <3>1. PICK i \in 1 .. W : k - n = i /\ ~(k <= n) /\ k \in 1 .. n + W
      OBVIOUS
    <3>2. q[k] = z[k - n]
      BY <2>2, <3>1
    <3>3. z[i] = 0
      BY <1>2
    <3> QED
      BY ONLY <3>1, <3>2, <3>3
  <2>4. ASSUME NEW i \in 1 .. n PROVE q[i] = s[i]
    <3>1. i \in 1 .. n + W /\ i <= n
      OBVIOUS
    <3> QED
      BY <2>2, <3>1
  <2> QED
    BY <2>2, <2>3, <2>4
<1>4. Ones(W) \in Register(W)
  BY DEF Ones, Register, Bit
<1> DEFINE G == Feed(W, p)
<1>5. DOMAIN G = Register(W) /\ Takes(G, Register(W), Bit)
  BY FeedTakes
<1>6. \A x \in Register(W) : \A c \in Bit : G[x][c] = Fed(W, p, x, c)
  BY DEF Feed
<1> HIDE DEF G
<1>7. PICK reg : /\ IsRunOf(reg, G, Ones(W), s) /\ \A t \in 0 .. Len(s) : reg[t] \in Register(W)
                 /\ Folded(G, Ones(W), s) = reg[Len(s)]
  BY ONLY s \in Seq(Bit), <1>4, <1>5, RunIs
<1>8. /\ reg[0] = Ones(W) /\ \A t \in 0 .. n : reg[t] \in Register(W)
      /\ Folded(G, Ones(W), s) = reg[n]
  BY <1>1, <1>7 DEF IsRunOf
<1>9. ASSUME NEW t \in 1 .. n PROVE reg[t] = Fed(W, p, reg[t - 1], q[t])
  <2>1. reg[t] = G[reg[t - 1]][s[t]]
    BY <1>1, <1>7 DEF IsRunOf
  <2>2. reg[t - 1] \in Register(W) /\ s[t] \in Bit /\ q[t] = s[t]
    <3>1. t - 1 \in 0 .. n /\ t \in 1 .. Len(s)
      BY <1>1
    <3> QED
      BY <1>3, <1>8, <3>1, ElementOfSeq
  <2> QED
    BY <1>6, <2>1, <2>2
<1> DEFINE S == [i \in DOMAIN q |-> IF i <= W THEN 1 - q[i] ELSE q[i]]
<1>10. DivisionCrc(s, g) = Remainder(S, g)
  <2>1. Len(g) - 1 = W
    BY DEF IsGenerator
  <2>2. DivisionCrc(s, g) = LET m == Len(g) - 1
                                padded == s \o Zeros(m)
                            IN  Remainder([i \in DOMAIN padded |->
                                  IF i <= m THEN 1 - padded[i] ELSE padded[i]], g)
    BY DEF DivisionCrc
  <2> QED
    BY <1>2, <1>3, <2>1, <2>2
<1>11. S = LeftOver(W, n, reg[0], q, 0)
  <2>1. DOMAIN q = 1 .. n + W - 0
    BY <1>3, LenProperties
  <2>2. ASSUME NEW i \in 1 .. n + W - 0
        PROVE  (IF i <= W THEN 1 - q[i] ELSE q[i])
                 = IF i <= W THEN Plus(reg[0][i], q[0 + i]) ELSE q[0 + i]
    <3>1. q[i] \in Bit /\ 0 + i = i
      <4>1. i \in 1 .. Len(q)
        BY <1>3
      <4> QED
        BY <4>1, ElementOfSeq
    <3>2. i <= W => reg[0][i] = 1
      BY <1>8 DEF Ones
    <3> QED
      BY <3>1, <3>2 DEF Plus, Bit
  <2> QED
    BY <2>1, <2>2 DEF LeftOver
<1> HIDE DEF S
<1>12. S \in Seq(Bit)
  <2>1. 0 \in 0 .. n /\ reg[0] \in Register(W)
    BY <1>8
  <2> QED
    BY <1>3, <1>11, <2>1, LeftOverType
<1>15. IsFeeding(reg, W, p, n, q)
  BY <1>8, <1>9 DEF IsFeeding
<1>13. Remainder(S, g) = LeftOver(W, n, reg[n], q, n)
  <2>1. Len(q) = n + W
    BY <1>3
  <2> QED
    BY ONLY W \in Nat, W >= 1, p \in Register(W), IsGenerator(g, W, p), n \in Nat,
            q \in Seq(Bit), <2>1, <1>15, <1>11, <1>12, RemainderIs
<1>14. LeftOver(W, n, reg[n], q, n) = reg[n]
  <2>1. PICK r \in Register(W) : r = reg[n]
    BY <1>8
  <2>5. \A i \in n + 1 .. n + W : q[i] = 0
    BY <1>3
  <2>2. ASSUME NEW j \in 1 .. W
        PROVE  (IF j <= W THEN Plus(r[j], q[n + j]) ELSE q[n + j]) = r[j]
    <3>1. r[j] \in Bit
      BY DEF Register
    <3>2. q[n + j] = 0
      <4>1. PICK k \in n + 1 .. n + W : k = n + j
        OBVIOUS
      <4>2. q[k] = 0
        BY ONLY <4>1, <2>5
      <4> QED
        BY ONLY <4>1, <4>2
    <3> QED
      BY <3>1, <3>2 DEF Plus, Bit
  <2>3. n + W - n = W
    OBVIOUS
  <2>4. LeftOver(W, n, r, q, n) = [j \in 1 .. W |-> r[j]]
    BY <2>2, <2>3 DEF LeftOver
  <2> QED
    BY <2>1, <2>4 DEF Register
<1> QED
  BY <1>8, <1>10, <1>13, <1>14 DEF G

-----------------------------------------------------------------------------
(* Numbers and their bits.                                                 *)

\* The byte of eight bits, the least significant first.
ByteOf(b) ==
  b[1] + 2 * b[2] + 4 * b[3] + 8 * b[4] + 16 * b[5] + 32 * b[6] + 64 * b[7] + 128 * b[8]

\* What is left of it after the n - 1 lowest bits.
Above(b, n) ==
  CASE n = 1 -> ByteOf(b)
    [] n = 2 -> b[2] + 2 * b[3] + 4 * b[4] + 8 * b[5] + 16 * b[6] + 32 * b[7] + 64 * b[8]
    [] n = 3 -> b[3] + 2 * b[4] + 4 * b[5] + 8 * b[6] + 16 * b[7] + 32 * b[8]
    [] n = 4 -> b[4] + 2 * b[5] + 4 * b[6] + 8 * b[7] + 16 * b[8]
    [] n = 5 -> b[5] + 2 * b[6] + 4 * b[7] + 8 * b[8]
    [] n = 6 -> b[6] + 2 * b[7] + 4 * b[8]
    [] n = 7 -> b[7] + 2 * b[8]
    [] n = 8 -> b[8]

LEMMA ByteOfType ==
  ASSUME NEW b \in Octet
  PROVE  ByteOf(b) \in Byte
<1>1. /\ b[1] \in 0 .. 1 /\ b[2] \in 0 .. 1 /\ b[3] \in 0 .. 1 /\ b[4] \in 0 .. 1
      /\ b[5] \in 0 .. 1 /\ b[6] \in 0 .. 1 /\ b[7] \in 0 .. 1 /\ b[8] \in 0 .. 1
  BY OctetBits DEF Bit
<1> QED
  BY <1>1 DEF ByteOf, Byte

LEMMA AboveIs ==
  ASSUME NEW b \in Octet
  PROVE  /\ ByteOf(b) \div 2 ^ (1 - 1) = Above(b, 1) /\ ByteOf(b) \div 2 ^ (2 - 1) = Above(b, 2)
         /\ ByteOf(b) \div 2 ^ (3 - 1) = Above(b, 3) /\ ByteOf(b) \div 2 ^ (4 - 1) = Above(b, 4)
         /\ ByteOf(b) \div 2 ^ (5 - 1) = Above(b, 5) /\ ByteOf(b) \div 2 ^ (6 - 1) = Above(b, 6)
         /\ ByteOf(b) \div 2 ^ (7 - 1) = Above(b, 7) /\ ByteOf(b) \div 2 ^ (8 - 1) = Above(b, 8)
<1>1. /\ b[1] \in 0 .. 1 /\ b[2] \in 0 .. 1 /\ b[3] \in 0 .. 1 /\ b[4] \in 0 .. 1
      /\ b[5] \in 0 .. 1 /\ b[6] \in 0 .. 1 /\ b[7] \in 0 .. 1 /\ b[8] \in 0 .. 1
  BY OctetBits DEF Bit
<1>2. ByteOf(b) \div 2 ^ (1 - 1) = Above(b, 1)
  BY <1>1 DEF ByteOf, Above
<1>3. ByteOf(b) \div 2 ^ (2 - 1) = Above(b, 2)
  BY <1>1 DEF ByteOf, Above
<1>4. ByteOf(b) \div 2 ^ (3 - 1) = Above(b, 3)
  BY <1>1 DEF ByteOf, Above
<1>5. ByteOf(b) \div 2 ^ (4 - 1) = Above(b, 4)
  BY <1>1 DEF ByteOf, Above
<1>6. ByteOf(b) \div 2 ^ (5 - 1) = Above(b, 5)
  BY <1>1 DEF ByteOf, Above
<1>7. ByteOf(b) \div 2 ^ (6 - 1) = Above(b, 6)
  BY <1>1 DEF ByteOf, Above
<1>8. ByteOf(b) \div 2 ^ (7 - 1) = Above(b, 7)
  BY <1>1 DEF ByteOf, Above
<1>9. ByteOf(b) \div 2 ^ (8 - 1) = Above(b, 8)
  BY <1>1 DEF ByteOf, Above
<1> QED
  BY <1>2, <1>3, <1>4, <1>5, <1>6, <1>7, <1>8, <1>9

LEMMA AboveType ==
  ASSUME NEW b \in Octet
  PROVE  \A n \in 1 .. 8 : /\ Above(b, n) \in Nat /\ b[n] \in Bit
                           /\ \E m \in Nat : Above(b, n) = b[n] + 2 * m
<1>1. PICK b1 \in 0 .. 1, b2 \in 0 .. 1, b3 \in 0 .. 1, b4 \in 0 .. 1 :
        b1 = b[1] /\ b2 = b[2] /\ b3 = b[3] /\ b4 = b[4]
  BY OctetBits DEF Bit
<1>0. PICK b5 \in 0 .. 1, b6 \in 0 .. 1, b7 \in 0 .. 1, b8 \in 0 .. 1 :
        b5 = b[5] /\ b6 = b[6] /\ b7 = b[7] /\ b8 = b[8]
  BY OctetBits DEF Bit
<1> DEFINE Q(n) == Above(b, n) \in Nat /\ \E m \in Nat : Above(b, n) = b[n] + 2 * m
<1>2. Q(1)
  <2>1. Above(b, 1) = b1 + 2 * b2 + 4 * b3 + 8 * b4 + 16 * b5 + 32 * b6 + 64 * b7 + 128 * b8
    BY <1>0, <1>1 DEF Above, ByteOf
  <2>2. /\ b1 + 2 * b2 + 4 * b3 + 8 * b4 + 16 * b5 + 32 * b6 + 64 * b7 + 128 * b8
             = b1 + 2 * (b2 + 2 * b3 + 4 * b4 + 8 * b5 + 16 * b6 + 32 * b7 + 64 * b8)
        /\ b1 + 2 * b2 + 4 * b3 + 8 * b4 + 16 * b5 + 32 * b6 + 64 * b7 + 128 * b8 \in Nat
        /\ b2 + 2 * b3 + 4 * b4 + 8 * b5 + 16 * b6 + 32 * b7 + 64 * b8 \in Nat
    OBVIOUS
  <2> QED
    BY <1>0, <1>1, <2>1, <2>2
<1>3. Q(2)
  <2>1. Above(b, 2) = b2 + 2 * b3 + 4 * b4 + 8 * b5 + 16 * b6 + 32 * b7 + 64 * b8
    BY <1>0, <1>1 DEF Above, ByteOf
  <2>2. /\ b2 + 2 * b3 + 4 * b4 + 8 * b5 + 16 * b6 + 32 * b7 + 64 * b8
             = b2 + 2 * (b3 + 2 * b4 + 4 * b5 + 8 * b6 + 16 * b7 + 32 * b8)
        /\ b2 + 2 * b3 + 4 * b4 + 8 * b5 + 16 * b6 + 32 * b7 + 64 * b8 \in Nat
        /\ b3 + 2 * b4 + 4 * b5 + 8 * b6 + 16 * b7 + 32 * b8 \in Nat
    OBVIOUS
  <2> QED
    BY <1>0, <1>1, <2>1, <2>2
<1>4. Q(3)
  <2>1. Above(b, 3) = b3 + 2 * b4 + 4 * b5 + 8 * b6 + 16 * b7 + 32 * b8
    BY <1>0, <1>1 DEF Above, ByteOf
  <2>2. /\ b3 + 2 * b4 + 4 * b5 + 8 * b6 + 16 * b7 + 32 * b8
             = b3 + 2 * (b4 + 2 * b5 + 4 * b6 + 8 * b7 + 16 * b8)
        /\ b3 + 2 * b4 + 4 * b5 + 8 * b6 + 16 * b7 + 32 * b8 \in Nat
        /\ b4 + 2 * b5 + 4 * b6 + 8 * b7 + 16 * b8 \in Nat
    OBVIOUS
  <2> QED
    BY <1>0, <1>1, <2>1, <2>2
<1>5. Q(4)
  <2>1. Above(b, 4) = b4 + 2 * b5 + 4 * b6 + 8 * b7 + 16 * b8
    BY <1>0, <1>1 DEF Above, ByteOf
  <2>2. /\ b4 + 2 * b5 + 4 * b6 + 8 * b7 + 16 * b8 = b4 + 2 * (b5 + 2 * b6 + 4 * b7 + 8 * b8)
        /\ b4 + 2 * b5 + 4 * b6 + 8 * b7 + 16 * b8 \in Nat
        /\ b5 + 2 * b6 + 4 * b7 + 8 * b8 \in Nat
    OBVIOUS
  <2> QED
    BY <1>0, <1>1, <2>1, <2>2
<1>6. Q(5)
  <2>1. Above(b, 5) = b5 + 2 * b6 + 4 * b7 + 8 * b8
    BY <1>0, <1>1 DEF Above, ByteOf
  <2>2. /\ b5 + 2 * b6 + 4 * b7 + 8 * b8 = b5 + 2 * (b6 + 2 * b7 + 4 * b8)
        /\ b5 + 2 * b6 + 4 * b7 + 8 * b8 \in Nat
        /\ b6 + 2 * b7 + 4 * b8 \in Nat
    OBVIOUS
  <2> QED
    BY <1>0, <1>1, <2>1, <2>2
<1>7. Q(6)
  <2>1. Above(b, 6) = b6 + 2 * b7 + 4 * b8
    BY <1>0, <1>1 DEF Above, ByteOf
  <2>2. /\ b6 + 2 * b7 + 4 * b8 = b6 + 2 * (b7 + 2 * b8)
        /\ b6 + 2 * b7 + 4 * b8 \in Nat
        /\ b7 + 2 * b8 \in Nat
    OBVIOUS
  <2> QED
    BY <1>0, <1>1, <2>1, <2>2
<1>8. Q(7)
  <2>1. Above(b, 7) = b7 + 2 * b8
    BY <1>0, <1>1 DEF Above, ByteOf
  <2>2. b7 + 2 * b8 = b7 + 2 * (b8) /\ b7 + 2 * b8 \in Nat /\ b8 \in Nat
    OBVIOUS
  <2> QED
    BY <1>0, <1>1, <2>1, <2>2
<1>9. Q(8)
  <2>1. Above(b, 8) = b8
    BY <1>0, <1>1 DEF Above, ByteOf
  <2>2. b8 = b8 + 2 * (0) /\ b8 \in Nat /\ 0 \in Nat
    OBVIOUS
  <2> QED
    BY <1>0, <1>1, <2>1, <2>2
<1> HIDE DEF Q
<1>10. \A n \in 1 .. 8 : Q(n)
  BY <1>2, <1>3, <1>4, <1>5, <1>6, <1>7, <1>8, <1>9
<1>11. \A n \in 1 .. 8 : b[n] \in Bit
  BY DEF Octet
<1> QED
  BY <1>10, <1>11 DEF Q

LEMMA ParityIs ==
  ASSUME NEW a \in Octet, NEW c \in Octet, NEW n \in 1 .. 8
  PROVE  (Above(a, n) + Above(c, n)) % 2 = Plus(a[n], c[n]) /\ Above(a, n) % 2 = a[n]
<1>1. PICK x \in Bit, m \in Nat : x = a[n] /\ Above(a, n) = x + 2 * m
  BY AboveType
<1>2. PICK y \in Bit, k \in Nat : y = c[n] /\ Above(c, n) = y + 2 * k
  BY AboveType
<1>3. ((x + 2 * m) + (y + 2 * k)) % 2 = Plus(x, y) /\ (x + 2 * m) % 2 = x
  BY ONLY x \in Bit, y \in Bit, m \in Nat, k \in Nat DEF Bit, Plus
<1> QED
  BY <1>1, <1>2, <1>3

\* x ^ y is bit by bit.
LEMMA XorOfBytes ==
  ASSUME NEW a \in Octet, NEW c \in Octet
  PROVE  XorByte[ByteOf(a)][ByteOf(c)] = ByteOf(SumBits(a, c))
<1>1. PICK x \in Byte, y \in Byte : x = ByteOf(a) /\ y = ByteOf(c)
  BY ByteOfType
<1> DEFINE d(n) == Plus(a[n], c[n])
<1>2. XorDigit(x, y, 1) = d(1)
  <2>1. x \div 2 ^ (1 - 1) = Above(a, 1) /\ y \div 2 ^ (1 - 1) = Above(c, 1)
    BY <1>1, AboveIs
  <2>2. (Above(a, 1) + Above(c, 1)) % 2 = d(1)
    BY ParityIs
  <2>3. XorDigit(x, y, 1) = 2 ^ (1 - 1) * d(1)
    BY <2>1, <2>2 DEF XorDigit
  <2>4. d(1) \in Bit
    BY OctetBits, PlusType
  <2> HIDE DEF d
  <2> QED
    BY <2>3, <2>4 DEF Bit
<1>3. XorDigit(x, y, 2) = 2 * d(2)
  <2>1. x \div 2 ^ (2 - 1) = Above(a, 2) /\ y \div 2 ^ (2 - 1) = Above(c, 2)
    BY <1>1, AboveIs
  <2>2. (Above(a, 2) + Above(c, 2)) % 2 = d(2)
    BY ParityIs
  <2>3. XorDigit(x, y, 2) = 2 ^ (2 - 1) * d(2)
    BY <2>1, <2>2 DEF XorDigit
  <2>4. d(2) \in Bit
    BY OctetBits, PlusType
  <2> HIDE DEF d
  <2> QED
    BY <2>3, <2>4 DEF Bit
<1>4. XorDigit(x, y, 3) = 4 * d(3)
  <2>1. x \div 2 ^ (3 - 1) = Above(a, 3) /\ y \div 2 ^ (3 - 1) = Above(c, 3)
    BY <1>1, AboveIs
  <2>2. (Above(a, 3) + Above(c, 3)) % 2 = d(3)
    BY ParityIs
  <2>3. XorDigit(x, y, 3) = 2 ^ (3 - 1) * d(3)
    BY <2>1, <2>2 DEF XorDigit
  <2>4. d(3) \in Bit
    BY OctetBits, PlusType
  <2> HIDE DEF d
  <2> QED
    BY <2>3, <2>4 DEF Bit
<1>5. XorDigit(x, y, 4) = 8 * d(4)
  <2>1. x \div 2 ^ (4 - 1) = Above(a, 4) /\ y \div 2 ^ (4 - 1) = Above(c, 4)
    BY <1>1, AboveIs
  <2>2. (Above(a, 4) + Above(c, 4)) % 2 = d(4)
    BY ParityIs
  <2>3. XorDigit(x, y, 4) = 2 ^ (4 - 1) * d(4)
    BY <2>1, <2>2 DEF XorDigit
  <2>4. d(4) \in Bit
    BY OctetBits, PlusType
  <2> HIDE DEF d
  <2> QED
    BY <2>3, <2>4 DEF Bit
<1>6. XorDigit(x, y, 5) = 16 * d(5)
  <2>1. x \div 2 ^ (5 - 1) = Above(a, 5) /\ y \div 2 ^ (5 - 1) = Above(c, 5)
    BY <1>1, AboveIs
  <2>2. (Above(a, 5) + Above(c, 5)) % 2 = d(5)
    BY ParityIs
  <2>3. XorDigit(x, y, 5) = 2 ^ (5 - 1) * d(5)
    BY <2>1, <2>2 DEF XorDigit
  <2>4. d(5) \in Bit
    BY OctetBits, PlusType
  <2> HIDE DEF d
  <2> QED
    BY <2>3, <2>4 DEF Bit
<1>7. XorDigit(x, y, 6) = 32 * d(6)
  <2>1. x \div 2 ^ (6 - 1) = Above(a, 6) /\ y \div 2 ^ (6 - 1) = Above(c, 6)
    BY <1>1, AboveIs
  <2>2. (Above(a, 6) + Above(c, 6)) % 2 = d(6)
    BY ParityIs
  <2>3. XorDigit(x, y, 6) = 2 ^ (6 - 1) * d(6)
    BY <2>1, <2>2 DEF XorDigit
  <2>4. d(6) \in Bit
    BY OctetBits, PlusType
  <2> HIDE DEF d
  <2> QED
    BY <2>3, <2>4 DEF Bit
<1>8. XorDigit(x, y, 7) = 64 * d(7)
  <2>1. x \div 2 ^ (7 - 1) = Above(a, 7) /\ y \div 2 ^ (7 - 1) = Above(c, 7)
    BY <1>1, AboveIs
  <2>2. (Above(a, 7) + Above(c, 7)) % 2 = d(7)
    BY ParityIs
  <2>3. XorDigit(x, y, 7) = 2 ^ (7 - 1) * d(7)
    BY <2>1, <2>2 DEF XorDigit
  <2>4. d(7) \in Bit
    BY OctetBits, PlusType
  <2> HIDE DEF d
  <2> QED
    BY <2>3, <2>4 DEF Bit
<1>9. XorDigit(x, y, 8) = 128 * d(8)
  <2>1. x \div 2 ^ (8 - 1) = Above(a, 8) /\ y \div 2 ^ (8 - 1) = Above(c, 8)
    BY <1>1, AboveIs
  <2>2. (Above(a, 8) + Above(c, 8)) % 2 = d(8)
    BY ParityIs
  <2>3. XorDigit(x, y, 8) = 2 ^ (8 - 1) * d(8)
    BY <2>1, <2>2 DEF XorDigit
  <2>4. d(8) \in Bit
    BY OctetBits, PlusType
  <2> HIDE DEF d
  <2> QED
    BY <2>3, <2>4 DEF Bit
<1>10. /\ SumBits(a, c)[1] = d(1) /\ SumBits(a, c)[2] = d(2)
       /\ SumBits(a, c)[3] = d(3) /\ SumBits(a, c)[4] = d(4)
       /\ SumBits(a, c)[5] = d(5) /\ SumBits(a, c)[6] = d(6)
       /\ SumBits(a, c)[7] = d(7) /\ SumBits(a, c)[8] = d(8)
  BY DEF SumBits
<1> HIDE DEF d
<1>11. ByteOf(SumBits(a, c)) = d(1) + 2 * d(2) + 4 * d(3) + 8 * d(4) + 16 * d(5) + 32 * d(6)
                                 + 64 * d(7) + 128 * d(8)
  BY <1>10 DEF ByteOf
<1>12. XorByte[x][y] = XorDigit(x, y, 1) + XorDigit(x, y, 2) + XorDigit(x, y, 3)
                         + XorDigit(x, y, 4) + XorDigit(x, y, 5) + XorDigit(x, y, 6)
                         + XorDigit(x, y, 7) + XorDigit(x, y, 8)
  BY XorByteSum
<1> QED
  BY <1>1, <1>2, <1>3, <1>4, <1>5, <1>6, <1>7, <1>8, <1>9, <1>11, <1>12

\* Every byte has its bits.
BitsIn(x) == [i \in 1 .. 8 |-> (x \div 2 ^ (i - 1)) % 2]

LEMMA BitsInType ==
  ASSUME NEW x \in Byte
  PROVE  BitsIn(x) \in Octet /\ ByteOf(BitsIn(x)) = x
<1> DEFINE b == BitsIn(x)
<1>1. /\ b[1] = x % 2 /\ b[2] = (x \div 2) % 2 /\ b[3] = (x \div 4) % 2
      /\ b[4] = (x \div 8) % 2 /\ b[5] = (x \div 16) % 2 /\ b[6] = (x \div 32) % 2
      /\ b[7] = (x \div 64) % 2 /\ b[8] = (x \div 128) % 2
  BY DEF BitsIn, Byte
<1>2. b = [i \in 1 .. 8 |-> b[i]]
  BY DEF BitsIn
<1> HIDE DEF b
<1>3. /\ b[1] \in Bit /\ b[2] \in Bit /\ b[3] \in Bit /\ b[4] \in Bit
      /\ b[5] \in Bit /\ b[6] \in Bit /\ b[7] \in Bit /\ b[8] \in Bit
  BY <1>1 DEF Byte, Bit
<1>4. \A i \in 1 .. 8 : b[i] \in Bit
  BY <1>3
<1>5. b \in Octet
  BY <1>2, <1>4 DEF Octet
<1>6. ByteOf(b) = x
  BY <1>1 DEF ByteOf, Byte
<1> QED
  BY <1>5, <1>6 DEF b

\* And the bits are those of the byte.
LEMMA BitsInOf ==
  ASSUME NEW b \in Octet
  PROVE  BitsIn(ByteOf(b)) = b
<1>1. PICK x \in Byte : x = ByteOf(b)
  BY ByteOfType
<1>2. ASSUME NEW n \in 1 .. 8, x \div 2 ^ (n - 1) = Above(b, n)
      PROVE  (x \div 2 ^ (n - 1)) % 2 = b[n]
  BY <1>2, ParityIs
<1>3. /\ (x \div 2 ^ (1 - 1)) % 2 = b[1] /\ (x \div 2 ^ (2 - 1)) % 2 = b[2]
      /\ (x \div 2 ^ (3 - 1)) % 2 = b[3] /\ (x \div 2 ^ (4 - 1)) % 2 = b[4]
      /\ (x \div 2 ^ (5 - 1)) % 2 = b[5] /\ (x \div 2 ^ (6 - 1)) % 2 = b[6]
      /\ (x \div 2 ^ (7 - 1)) % 2 = b[7] /\ (x \div 2 ^ (8 - 1)) % 2 = b[8]
  <2>1. /\ x \div 2 ^ (1 - 1) = Above(b, 1) /\ x \div 2 ^ (2 - 1) = Above(b, 2)
        /\ x \div 2 ^ (3 - 1) = Above(b, 3) /\ x \div 2 ^ (4 - 1) = Above(b, 4)
        /\ x \div 2 ^ (5 - 1) = Above(b, 5) /\ x \div 2 ^ (6 - 1) = Above(b, 6)
        /\ x \div 2 ^ (7 - 1) = Above(b, 7) /\ x \div 2 ^ (8 - 1) = Above(b, 8)
    BY <1>1, AboveIs
  <2> QED
    BY <1>2, <2>1
<1>4. \A n \in 1 .. 8 : BitsIn(x)[n] = b[n]
  <2>1. /\ BitsIn(x)[1] = (x \div 2 ^ (1 - 1)) % 2 /\ BitsIn(x)[2] = (x \div 2 ^ (2 - 1)) % 2
        /\ BitsIn(x)[3] = (x \div 2 ^ (3 - 1)) % 2 /\ BitsIn(x)[4] = (x \div 2 ^ (4 - 1)) % 2
        /\ BitsIn(x)[5] = (x \div 2 ^ (5 - 1)) % 2 /\ BitsIn(x)[6] = (x \div 2 ^ (6 - 1)) % 2
        /\ BitsIn(x)[7] = (x \div 2 ^ (7 - 1)) % 2 /\ BitsIn(x)[8] = (x \div 2 ^ (8 - 1)) % 2
    BY DEF BitsIn
  <2>2. /\ BitsIn(x)[1] = b[1] /\ BitsIn(x)[2] = b[2] /\ BitsIn(x)[3] = b[3]
        /\ BitsIn(x)[4] = b[4] /\ BitsIn(x)[5] = b[5] /\ BitsIn(x)[6] = b[6]
        /\ BitsIn(x)[7] = b[7] /\ BitsIn(x)[8] = b[8]
    BY ONLY <1>3, <2>1
  <2> QED
    BY ONLY <2>2
<1>5. BitsIn(x) = [n \in 1 .. 8 |-> b[n]]
  <2>1. BitsIn(x) = [n \in 1 .. 8 |-> BitsIn(x)[n]]
    BY DEF BitsIn
  <2> QED
    BY <1>4, <2>1
<1> QED
  BY <1>1, <1>5 DEF Octet

-----------------------------------------------------------------------------
(* Halves of words, and registers of bits.                                 *)

HalfOf(high, low) == 256 * ByteOf(high) + ByteOf(low)

LEMMA HalfOfParts ==
  ASSUME NEW a \in Octet, NEW b \in Octet
  PROVE  /\ HalfOf(a, b) \in Half
         /\ HalfOf(a, b) \div 256 = ByteOf(a) /\ HalfOf(a, b) % 256 = ByteOf(b)
<1>1. PICK x \in Byte, y \in Byte : x = ByteOf(a) /\ y = ByteOf(b)
  BY ByteOfType
<1>2. 256 * x + y \in Half /\ (256 * x + y) \div 256 = x /\ (256 * x + y) % 256 = y
  BY ONLY x \in Byte, y \in Byte DEF Byte, Half
<1> QED
  BY <1>1, <1>2 DEF HalfOf

LEMMA XorOfHalves ==
  ASSUME NEW a \in Octet, NEW b \in Octet, NEW c \in Octet, NEW d \in Octet
  PROVE  Xor16(HalfOf(a, b), HalfOf(c, d)) = HalfOf(SumBits(a, c), SumBits(b, d))
<1>1. /\ HalfOf(a, b) \div 256 = ByteOf(a) /\ HalfOf(a, b) % 256 = ByteOf(b)
      /\ HalfOf(c, d) \div 256 = ByteOf(c) /\ HalfOf(c, d) % 256 = ByteOf(d)
  BY HalfOfParts
<1>2. /\ XorByte[ByteOf(a)][ByteOf(c)] = ByteOf(SumBits(a, c))
      /\ XorByte[ByteOf(b)][ByteOf(d)] = ByteOf(SumBits(b, d))
  BY XorOfBytes
<1> QED
  BY <1>1, <1>2 DEF Xor16, HalfOf

\* Every half has its bits.
LEMMA HalfHasBits ==
  ASSUME NEW x \in Half
  PROVE  \E a, b \in Octet : x = HalfOf(a, b)
<1>1. PICK u \in Byte, v \in Byte : u = x \div 256 /\ v = x % 256
  BY HalfParts
<1>2. PICK a \in Octet, b \in Octet : ByteOf(a) = u /\ ByteOf(b) = v
  BY BitsInType
<1>3. x = 256 * u + v
  BY <1>1 DEF Half
<1>4. x = HalfOf(a, b)
  BY <1>2, <1>3 DEF HalfOf
<1> QED
  BY <1>4

\* Eight bits of a register; bits in the other order.
Part(r, n) == [i \in 1 .. 8 |-> r[n + i]]
Mirrored(b) == [i \in 1 .. 8 |-> b[9 - i]]

LEMMA PartType ==
  ASSUME NEW W \in Nat, NEW r \in Register(W), NEW n \in Nat, n + 8 <= W
  PROVE  Part(r, n) \in Octet
<1>1. ASSUME NEW i \in 1 .. 8 PROVE r[n + i] \in Bit
  <2>1. PICK k \in 1 .. W : k = n + i
    OBVIOUS
  <2> QED
    BY <2>1 DEF Register
<1> QED
  BY <1>1 DEF Part, Octet

LEMMA MirroredType ==
  ASSUME NEW b \in Octet
  PROVE  Mirrored(b) \in Octet /\ Mirrored(Mirrored(b)) = b
<1>1. ASSUME NEW i \in 1 .. 8 PROVE b[9 - i] \in Bit /\ 9 - i \in 1 .. 8 /\ 9 - (9 - i) = i
  BY DEF Octet
<1>2. Mirrored(b) \in Octet
  BY <1>1 DEF Mirrored, Octet
<1>3. Mirrored(Mirrored(b)) = [i \in 1 .. 8 |-> b[i]]
  BY <1>1 DEF Mirrored
<1> QED
  BY <1>2, <1>3 DEF Octet

LEMMA MirroredSum ==
  ASSUME NEW b \in Octet, NEW c \in Octet
  PROVE  Mirrored(SumBits(b, c)) = SumBits(Mirrored(b), Mirrored(c))
<1>1. \A i \in 1 .. 8 : 9 - i \in 1 .. 8
  OBVIOUS
<1> QED
  BY <1>1 DEF Mirrored, SumBits

LEMMA MirroredNone == Mirrored(NoBits) = NoBits /\ ByteOf(NoBits) = 0
<1>1. \A i \in 1 .. 8 : 9 - i \in 1 .. 8
  OBVIOUS
<1>2. Mirrored(NoBits) = NoBits
  BY <1>1 DEF Mirrored, NoBits
<1>3. ByteOf(NoBits) = 0
  BY DEF ByteOf, NoBits
<1> QED
  BY <1>2, <1>3

LEMMA PartMix ==
  ASSUME NEW W \in Nat, NEW r \in Register(W), NEW t \in Register(W), NEW n \in Nat, n + 8 <= W
  PROVE  Part(Mix(W, r, t), n) = SumBits(Part(r, n), Part(t, n))
<1>1. ASSUME NEW i \in 1 .. 8
      PROVE  Mix(W, r, t)[n + i] = Plus(Part(r, n)[i], Part(t, n)[i])
  <2>1. PICK k \in 1 .. W : k = n + i
    OBVIOUS
  <2>2. Mix(W, r, t)[k] = Plus(r[k], t[k])
    BY DEF Mix
  <2>3. Part(r, n)[i] = r[k] /\ Part(t, n)[i] = t[k]
    BY <2>1 DEF Part
  <2> QED
    BY <2>1, <2>2, <2>3
<1> QED
  BY <1>1 DEF Part, SumBits

\* MovedBy by eight, a register loses its first part.
LEMMA PartMoved ==
  ASSUME NEW W \in Nat, NEW r \in Register(W), NEW n \in Nat, n + 8 <= W
  PROVE  /\ n + 16 <= W => Part(MovedBy(W, r, 8), n) = Part(r, n + 8)
         /\ n + 8 = W => Part(MovedBy(W, r, 8), n) = NoBits
<1>1. ASSUME NEW i \in 1 .. 8
      PROVE  MovedBy(W, r, 8)[n + i] = IF n + 16 <= W \/ n + i + 8 <= W THEN r[n + 8 + i] ELSE 0
  <2>1. PICK k \in 1 .. W : k = n + i
    OBVIOUS
  <2>2. MovedBy(W, r, 8)[k] = IF k + 8 <= W THEN r[k + 8] ELSE 0
    BY DEF MovedBy
  <2>3. k + 8 = n + 8 + i /\ (n + 16 <= W => k + 8 <= W)
    BY <2>1
  <2> QED
    BY <2>1, <2>2, <2>3
<1>2. ASSUME n + 16 <= W PROVE Part(MovedBy(W, r, 8), n) = Part(r, n + 8)
  BY <1>1, <1>2 DEF Part
<1>3. ASSUME n + 8 = W PROVE Part(MovedBy(W, r, 8), n) = NoBits
  BY <1>1, <1>3 DEF Part, NoBits
<1> QED
  BY <1>2, <1>3

LEMMA MixCommutes ==
  ASSUME NEW W, NEW r, NEW t
  PROVE  Mix(W, r, t) = Mix(W, t, r)
BY DEF Mix, Plus

LEMMA MovedType ==
  ASSUME NEW W \in Nat, NEW r \in Register(W), NEW n \in Nat
  PROVE  MovedBy(W, r, n) \in Register(W)
<1>1. ASSUME NEW j \in 1 .. W PROVE (IF j + n <= W THEN r[j + n] ELSE 0) \in Bit
  BY DEF Register, Bit
<1> QED
  BY <1>1 DEF MovedBy, Register

\* One bit fed: the register moves, and the polynomial is added or not.
LEMMA FedIs ==
  ASSUME NEW W \in Nat, NEW p \in Register(W), NEW r \in Register(W), NEW b
  PROVE  Fed(W, p, r, b) = IF r[1] = b THEN MovedBy(W, r, 1) ELSE Mix(W, MovedBy(W, r, 1), p)
<1>1. \A j \in 1 .. W : (j < W) <=> (j + 1 <= W)
  OBVIOUS
<1>2. ASSUME r[1] = b PROVE Fed(W, p, r, b) = MovedBy(W, r, 1)
  BY <1>1, <1>2 DEF Fed, MovedBy
<1>3. ASSUME r[1] # b PROVE Fed(W, p, r, b) = Mix(W, MovedBy(W, r, 1), p)
  BY <1>1, <1>3 DEF Fed, MovedBy, Mix
<1> QED
  BY <1>2, <1>3

-----------------------------------------------------------------------------
(* CRC-16/MCRF4XX: the register of crc.c begins with its lowest bit, that  *)
(* of Serial.py with its highest.                                          *)

Low16(r) == HalfOf(Part(r, 8), Part(r, 0))
High16(r) == HalfOf(Mirrored(Part(r, 0)), Mirrored(Part(r, 8)))

Poly16 == [j \in 1 .. 16 |-> IF j \in {4, 11, 16} THEN 1 ELSE 0]

LEMMA Poly16Is == Poly16 \in Register(16) /\ Low16(Poly16) = 33800 /\ High16(Poly16) = 4129
<1>1. Poly16 \in Register(16)
  BY DEF Poly16, Register, Bit
<1>2. Low16(Poly16) = 33800
  BY DEF Poly16, Low16, HalfOf, ByteOf, Part
<1>3. High16(Poly16) = 4129
  BY DEF Poly16, High16, HalfOf, ByteOf, Part, Mirrored
<1> QED
  BY <1>1, <1>2, <1>3

LEMMA Parts16 ==
  ASSUME NEW r \in Register(16)
  PROVE  /\ Part(r, 0) \in Octet /\ Part(r, 8) \in Octet
         /\ Mirrored(Part(r, 0)) \in Octet /\ Mirrored(Part(r, 8)) \in Octet
<1>1. 16 \in Nat /\ 0 \in Nat /\ 8 \in Nat /\ 0 + 8 <= 16 /\ 8 + 8 <= 16
  OBVIOUS
<1>2. Part(r, 0) \in Octet /\ Part(r, 8) \in Octet
  BY ONLY <1>1, r \in Register(16), PartType
<1> QED
  BY ONLY <1>2, MirroredType

LEMMA LowHighType ==
  ASSUME NEW r \in Register(16)
  PROVE  Low16(r) \in Half /\ High16(r) \in Half
BY Parts16, HalfOfParts DEF Low16, High16

LEMMA LowHighMix ==
  ASSUME NEW r \in Register(16), NEW t \in Register(16)
  PROVE  /\ Xor16(Low16(r), Low16(t)) = Low16(Mix(16, r, t))
         /\ Xor16(High16(r), High16(t)) = High16(Mix(16, r, t))
<1>1. 16 \in Nat /\ 0 \in Nat /\ 8 \in Nat /\ 0 + 8 <= 16 /\ 8 + 8 <= 16
  OBVIOUS
<1>2. /\ Part(Mix(16, r, t), 0) = SumBits(Part(r, 0), Part(t, 0))
      /\ Part(Mix(16, r, t), 8) = SumBits(Part(r, 8), Part(t, 8))
  BY ONLY <1>1, r \in Register(16), t \in Register(16), PartMix
<1>3. PICK a \in Octet, b \in Octet, c \in Octet, d \in Octet :
        a = Part(r, 0) /\ b = Part(r, 8) /\ c = Part(t, 0) /\ d = Part(t, 8)
  BY Parts16
<1>4. /\ Mirrored(a) \in Octet /\ Mirrored(b) \in Octet /\ Mirrored(c) \in Octet /\ Mirrored(d) \in Octet
      /\ Mirrored(SumBits(a, c)) = SumBits(Mirrored(a), Mirrored(c))
      /\ Mirrored(SumBits(b, d)) = SumBits(Mirrored(b), Mirrored(d))
  BY MirroredType, MirroredSum
<1>5. Xor16(HalfOf(b, a), HalfOf(d, c)) = HalfOf(SumBits(b, d), SumBits(a, c))
  BY XorOfHalves
<1>6. Xor16(HalfOf(Mirrored(a), Mirrored(b)), HalfOf(Mirrored(c), Mirrored(d)))
        = HalfOf(SumBits(Mirrored(a), Mirrored(c)), SumBits(Mirrored(b), Mirrored(d)))
  BY <1>4, XorOfHalves
<1> QED
  BY <1>2, <1>3, <1>4, <1>5, <1>6 DEF Low16, High16

Doubles(h, u, v) ==
  (h >= 32768 <=> u = 1) /\ (2 * h) % 65536 = 2 * v /\ (u = 0 => 2 * h = 2 * v)

LEMMA DoubledHalf ==
  ASSUME NEW u \in 0 .. 1, NEW v \in Nat, v <= 32767, NEW h, h = 32768 * u + v
  PROVE  Doubles(h, u, v)
<1> USE DEF Doubles
<1>1. CASE u = 0
  <2>1. 2 * v < 65536 /\ 2 * v \in Nat
    OBVIOUS
  <2>2. (2 * v) % 65536 = 2 * v
    BY <2>1
  <2>3. 32768 * u + v = v
    BY <1>1
  <2> QED
    BY <1>1, <2>2, <2>3
<1>2. CASE u = 1
  <2>1. 2 * v < 65536 /\ 2 * v \in Nat
    OBVIOUS
  <2>2. (65536 + 2 * v) % 65536 = 2 * v
    BY <2>1
  <2>3. 32768 * u + v = 32768 + v /\ 2 * (32768 + v) = 65536 + 2 * v
    BY <1>2
  <2> QED
    BY <1>2, <2>2, <2>3
<1> QED
  BY <1>1, <1>2

\* One place down, the lowest bit lost.
LEMMA LowMoved ==
  ASSUME NEW r \in Register(16)
  PROVE  Low16(r) % 2 = r[1] /\ Low16(r) \div 2 = Low16(MovedBy(16, r, 1))
<1>1. PICK r1 \in 0 .. 1, r2 \in 0 .. 1, r3 \in 0 .. 1, r4 \in 0 .. 1 :
        r1 = r[1] /\ r2 = r[2] /\ r3 = r[3] /\ r4 = r[4]
  BY DEF Register, Bit
<1>2. PICK r5 \in 0 .. 1, r6 \in 0 .. 1, r7 \in 0 .. 1, r8 \in 0 .. 1 :
        r5 = r[5] /\ r6 = r[6] /\ r7 = r[7] /\ r8 = r[8]
  BY DEF Register, Bit
<1>3. PICK r9 \in 0 .. 1, r10 \in 0 .. 1, r11 \in 0 .. 1, r12 \in 0 .. 1 :
        r9 = r[9] /\ r10 = r[10] /\ r11 = r[11] /\ r12 = r[12]
  BY DEF Register, Bit
<1>4. PICK r13 \in 0 .. 1, r14 \in 0 .. 1, r15 \in 0 .. 1, r16 \in 0 .. 1 :
        r13 = r[13] /\ r14 = r[14] /\ r15 = r[15] /\ r16 = r[16]
  BY DEF Register, Bit
<1>0. PICK z \in 0 .. 1 : z = 0
  OBVIOUS
<1> DEFINE x == r2 + 2 * r3 + 4 * r4 + 8 * r5 + 16 * r6 + 32 * r7 + 64 * r8 + 128 * r9 + 256 * r10
          + 512 * r11 + 1024 * r12 + 2048 * r13 + 4096 * r14 + 8192 * r15 + 16384 * r16
<1>5. Low16(r) = r1 + 2 * x
  <2>1. Low16(r)
          = 256 * (r9 + 2 * r10 + 4 * r11 + 8 * r12 + 16 * r13 + 32 * r14 + 64 * r15 + 128 * r16)
          + (r1 + 2 * r2 + 4 * r3 + 8 * r4 + 16 * r5 + 32 * r6 + 64 * r7 + 128 * r8)
    BY ONLY <1>1, <1>2, <1>3, <1>4 DEF Low16, HalfOf, ByteOf, Part
  <2>2. 256 * (r9 + 2 * r10 + 4 * r11 + 8 * r12 + 16 * r13 + 32 * r14 + 64 * r15 + 128 * r16)
          + (r1 + 2 * r2 + 4 * r3 + 8 * r4 + 16 * r5 + 32 * r6 + 64 * r7 + 128 * r8)
          = r1 + 2 * x
    BY ONLY r1 \in 0 .. 1, r2 \in 0 .. 1, r3 \in 0 .. 1, r4 \in 0 .. 1,
          r5 \in 0 .. 1, r6 \in 0 .. 1, r7 \in 0 .. 1, r8 \in 0 .. 1,
          r9 \in 0 .. 1, r10 \in 0 .. 1, r11 \in 0 .. 1, r12 \in 0 .. 1,
          r13 \in 0 .. 1, r14 \in 0 .. 1, r15 \in 0 .. 1, r16 \in 0 .. 1
  <2> QED
    BY ONLY <2>1, <2>2
<1>6. Low16(MovedBy(16, r, 1)) = x
  <2>0. PICK m : m = MovedBy(16, r, 1)
    OBVIOUS
  <2>1. /\ z = m[16]
        /\ r2 = m[1]
        /\ r3 = m[2]
        /\ r4 = m[3]
        /\ r5 = m[4]
        /\ r6 = m[5]
        /\ r7 = m[6]
        /\ r8 = m[7]
        /\ r9 = m[8]
        /\ r10 = m[9]
        /\ r11 = m[10]
        /\ r12 = m[11]
        /\ r13 = m[12]
        /\ r14 = m[13]
        /\ r15 = m[14]
        /\ r16 = m[15]
    BY <2>0, <1>0, <1>1, <1>2, <1>3, <1>4 DEF MovedBy
  <2>2. Low16(m)
          = 256 * (r10 + 2 * r11 + 4 * r12 + 8 * r13 + 16 * r14 + 32 * r15 + 64 * r16
          + 128 * z) + (r2 + 2 * r3 + 4 * r4 + 8 * r5 + 16 * r6 + 32 * r7 + 64 * r8
          + 128 * r9)
    BY ONLY <2>1 DEF Low16, HalfOf, ByteOf, Part
  <2>3. 256 * (r10 + 2 * r11 + 4 * r12 + 8 * r13 + 16 * r14 + 32 * r15 + 64 * r16
          + 128 * z) + (r2 + 2 * r3 + 4 * r4 + 8 * r5 + 16 * r6 + 32 * r7 + 64 * r8
          + 128 * r9)
          = x
    BY ONLY r1 \in 0 .. 1, r2 \in 0 .. 1, r3 \in 0 .. 1, r4 \in 0 .. 1,
          r5 \in 0 .. 1, r6 \in 0 .. 1, r7 \in 0 .. 1, r8 \in 0 .. 1,
          r9 \in 0 .. 1, r10 \in 0 .. 1, r11 \in 0 .. 1, r12 \in 0 .. 1,
          r13 \in 0 .. 1, r14 \in 0 .. 1, r15 \in 0 .. 1, r16 \in 0 .. 1, <1>0
  <2> QED
    BY ONLY <2>0, <2>2, <2>3
<1>7. x \in Nat /\ x <= 32767
  BY ONLY r1 \in 0 .. 1, r2 \in 0 .. 1, r3 \in 0 .. 1, r4 \in 0 .. 1,
          r5 \in 0 .. 1, r6 \in 0 .. 1, r7 \in 0 .. 1, r8 \in 0 .. 1,
          r9 \in 0 .. 1, r10 \in 0 .. 1, r11 \in 0 .. 1, r12 \in 0 .. 1,
          r13 \in 0 .. 1, r14 \in 0 .. 1, r15 \in 0 .. 1, r16 \in 0 .. 1
<1> HIDE DEF x
<1> QED
  BY <1>1, <1>5, <1>6, <1>7

\* One place up, the highest bit lost.
LEMMA HighMoved ==
  ASSUME NEW r \in Register(16)
  PROVE  /\ High16(r) >= 32768 <=> r[1] = 1
         /\ (2 * High16(r)) % 65536 = High16(MovedBy(16, r, 1))
         /\ r[1] = 0 => 2 * High16(r) = High16(MovedBy(16, r, 1))
<1>1. PICK r1 \in 0 .. 1, r2 \in 0 .. 1, r3 \in 0 .. 1, r4 \in 0 .. 1 :
        r1 = r[1] /\ r2 = r[2] /\ r3 = r[3] /\ r4 = r[4]
  BY DEF Register, Bit
<1>2. PICK r5 \in 0 .. 1, r6 \in 0 .. 1, r7 \in 0 .. 1, r8 \in 0 .. 1 :
        r5 = r[5] /\ r6 = r[6] /\ r7 = r[7] /\ r8 = r[8]
  BY DEF Register, Bit
<1>3. PICK r9 \in 0 .. 1, r10 \in 0 .. 1, r11 \in 0 .. 1, r12 \in 0 .. 1 :
        r9 = r[9] /\ r10 = r[10] /\ r11 = r[11] /\ r12 = r[12]
  BY DEF Register, Bit
<1>4. PICK r13 \in 0 .. 1, r14 \in 0 .. 1, r15 \in 0 .. 1, r16 \in 0 .. 1 :
        r13 = r[13] /\ r14 = r[14] /\ r15 = r[15] /\ r16 = r[16]
  BY DEF Register, Bit
<1>0. PICK z \in 0 .. 1 : z = 0
  OBVIOUS
<1> DEFINE x == r16 + 2 * r15 + 4 * r14 + 8 * r13 + 16 * r12 + 32 * r11 + 64 * r10 + 128 * r9
          + 256 * r8 + 512 * r7 + 1024 * r6 + 2048 * r5 + 4096 * r4 + 8192 * r3 + 16384 * r2
<1>5. High16(r) = 32768 * r1 + x
  <2>1. High16(r)
          = 256 * (r8 + 2 * r7 + 4 * r6 + 8 * r5 + 16 * r4 + 32 * r3 + 64 * r2 + 128 * r1)
          + (r16 + 2 * r15 + 4 * r14 + 8 * r13 + 16 * r12 + 32 * r11 + 64 * r10 + 128 * r9)
    BY ONLY <1>1, <1>2, <1>3, <1>4 DEF High16, HalfOf, ByteOf, Part, Mirrored
  <2>2. 256 * (r8 + 2 * r7 + 4 * r6 + 8 * r5 + 16 * r4 + 32 * r3 + 64 * r2 + 128 * r1)
          + (r16 + 2 * r15 + 4 * r14 + 8 * r13 + 16 * r12 + 32 * r11 + 64 * r10 + 128 * r9)
          = 32768 * r1 + x
    BY ONLY r1 \in 0 .. 1, r2 \in 0 .. 1, r3 \in 0 .. 1, r4 \in 0 .. 1,
          r5 \in 0 .. 1, r6 \in 0 .. 1, r7 \in 0 .. 1, r8 \in 0 .. 1,
          r9 \in 0 .. 1, r10 \in 0 .. 1, r11 \in 0 .. 1, r12 \in 0 .. 1,
          r13 \in 0 .. 1, r14 \in 0 .. 1, r15 \in 0 .. 1, r16 \in 0 .. 1
  <2> QED
    BY ONLY <2>1, <2>2
<1>6. High16(MovedBy(16, r, 1)) = 2 * x
  <2>0. PICK m : m = MovedBy(16, r, 1)
    OBVIOUS
  <2>1. /\ z = m[16]
        /\ r2 = m[1]
        /\ r3 = m[2]
        /\ r4 = m[3]
        /\ r5 = m[4]
        /\ r6 = m[5]
        /\ r7 = m[6]
        /\ r8 = m[7]
        /\ r9 = m[8]
        /\ r10 = m[9]
        /\ r11 = m[10]
        /\ r12 = m[11]
        /\ r13 = m[12]
        /\ r14 = m[13]
        /\ r15 = m[14]
        /\ r16 = m[15]
    BY <2>0, <1>0, <1>1, <1>2, <1>3, <1>4 DEF MovedBy
  <2>2. High16(m)
          = 256 * (r9 + 2 * r8 + 4 * r7 + 8 * r6 + 16 * r5 + 32 * r4 + 64 * r3 + 128 * r2)
          + (z + 2 * r16 + 4 * r15 + 8 * r14 + 16 * r13 + 32 * r12 + 64 * r11 + 128 * r10)
    BY ONLY <2>1 DEF High16, HalfOf, ByteOf, Part, Mirrored
  <2>3. 256 * (r9 + 2 * r8 + 4 * r7 + 8 * r6 + 16 * r5 + 32 * r4 + 64 * r3 + 128 * r2)
          + (z + 2 * r16 + 4 * r15 + 8 * r14 + 16 * r13 + 32 * r12 + 64 * r11 + 128 * r10)
          = 2 * x
    BY ONLY r1 \in 0 .. 1, r2 \in 0 .. 1, r3 \in 0 .. 1, r4 \in 0 .. 1,
          r5 \in 0 .. 1, r6 \in 0 .. 1, r7 \in 0 .. 1, r8 \in 0 .. 1,
          r9 \in 0 .. 1, r10 \in 0 .. 1, r11 \in 0 .. 1, r12 \in 0 .. 1,
          r13 \in 0 .. 1, r14 \in 0 .. 1, r15 \in 0 .. 1, r16 \in 0 .. 1, <1>0
  <2> QED
    BY ONLY <2>0, <2>2, <2>3
<1>7. x \in Nat /\ x <= 32767
  BY ONLY r1 \in 0 .. 1, r2 \in 0 .. 1, r3 \in 0 .. 1, r4 \in 0 .. 1,
          r5 \in 0 .. 1, r6 \in 0 .. 1, r7 \in 0 .. 1, r8 \in 0 .. 1,
          r9 \in 0 .. 1, r10 \in 0 .. 1, r11 \in 0 .. 1, r12 \in 0 .. 1,
          r13 \in 0 .. 1, r14 \in 0 .. 1, r15 \in 0 .. 1, r16 \in 0 .. 1
<1> HIDE DEF x
<1> QED
  <2>1. PICK u \in 0 .. 1, v \in Nat, h \in Half :
          /\ u = r[1] /\ v = x /\ v <= 32767 /\ h = High16(r) /\ h = 32768 * u + v
          /\ High16(MovedBy(16, r, 1)) = 2 * v
    BY <1>1, <1>5, <1>6, <1>7, LowHighType
  <2>2. Doubles(h, u, v)
    BY ONLY u \in 0 .. 1, v \in Nat, <2>1, DoubledHalf
  <2> QED
    BY ONLY <2>1, <2>2 DEF Doubles

-----------------------------------------------------------------------------
(* The bits of a half.                                                     *)

\* A bit of x, counted from the lowest.
Digit(x, i) == (x \div 2 ^ (i - 1)) % 2

LEMMA DigitOfByte ==
  ASSUME NEW b \in Octet
  PROVE  \A i \in 1 .. 8 : Digit(ByteOf(b), i) = b[i]
<1>1. BitsIn(ByteOf(b)) = b
  BY BitsInOf
<1>2. \A i \in 1 .. 8 : BitsIn(ByteOf(b))[i] = (ByteOf(b) \div 2 ^ (i - 1)) % 2
  BY DEF BitsIn
<1> QED
  BY <1>1, <1>2 DEF Digit

LEMMA DigitOfParts ==
  ASSUME NEW x \in Byte, NEW y \in Byte
  PROVE  /\ \A i \in 1 .. 8 : Digit(256 * x + y, i) = Digit(y, i)
         /\ \A i \in 9 .. 16 : Digit(256 * x + y, i) = Digit(x, i - 8)
<1> DEFINE P(i, j, z) == Digit(256 * x + y, i) = Digit(z, j)
<1>1. P(1, 1, y)
  BY DEF Digit, Byte
<1>2. P(2, 2, y)
  BY DEF Digit, Byte
<1>3. P(3, 3, y)
  BY DEF Digit, Byte
<1>4. P(4, 4, y)
  BY DEF Digit, Byte
<1>5. P(5, 5, y)
  BY DEF Digit, Byte
<1>6. P(6, 6, y)
  BY DEF Digit, Byte
<1>7. P(7, 7, y)
  BY DEF Digit, Byte
<1>8. P(8, 8, y)
  BY DEF Digit, Byte
<1>9. P(9, 1, x)
  BY DEF Digit, Byte
<1>10. P(10, 2, x)
  BY DEF Digit, Byte
<1>11. P(11, 3, x)
  BY DEF Digit, Byte
<1>12. P(12, 4, x)
  BY DEF Digit, Byte
<1>13. P(13, 5, x)
  BY DEF Digit, Byte
<1>14. P(14, 6, x)
  BY DEF Digit, Byte
<1>15. P(15, 7, x)
  BY DEF Digit, Byte
<1>16. P(16, 8, x)
  BY DEF Digit, Byte
<1> HIDE DEF P
<1>17. \A i \in 1 .. 8 : P(i, i, y)
  BY <1>1, <1>2, <1>3, <1>4, <1>5, <1>6, <1>7, <1>8
<1>18. \A i \in 9 .. 16 : P(i, i - 8, x)
  <2>1. /\ 9 - 8 = 1 /\ 10 - 8 = 2 /\ 11 - 8 = 3 /\ 12 - 8 = 4
        /\ 13 - 8 = 5 /\ 14 - 8 = 6 /\ 15 - 8 = 7 /\ 16 - 8 = 8
    OBVIOUS
  <2> QED
    BY <2>1, <1>9, <1>10, <1>11, <1>12, <1>13, <1>14, <1>15, <1>16
<1> QED
  BY <1>17, <1>18 DEF P

LEMMA DigitOfHalf ==
  ASSUME NEW a \in Octet, NEW b \in Octet
  PROVE  \A i \in 1 .. 16 : Digit(HalfOf(a, b), i) = IF i <= 8 THEN b[i] ELSE a[i - 8]
<1>1. PICK x \in Byte, y \in Byte : x = ByteOf(a) /\ y = ByteOf(b)
  BY ByteOfType
<1>2. ASSUME NEW i \in 1 .. 8 PROVE Digit(HalfOf(a, b), i) = b[i]
  <2>1. Digit(256 * x + y, i) = Digit(y, i)
    BY DigitOfParts
  <2> QED
    BY <1>1, <2>1, DigitOfByte DEF HalfOf
<1>3. ASSUME NEW i \in 9 .. 16 PROVE Digit(HalfOf(a, b), i) = a[i - 8]
  <2>1. Digit(256 * x + y, i) = Digit(x, i - 8)
    BY DigitOfParts
  <2>2. PICK j \in 1 .. 8 : j = i - 8
    OBVIOUS
  <2>3. Digit(ByteOf(a), j) = a[j]
    BY DigitOfByte
  <2> QED
    BY <1>1, <2>1, <2>2, <2>3 DEF HalfOf
<1> QED
  BY <1>2, <1>3

LEMMA BitsOfDigits ==
  ASSUME NEW x, NEW n \in Nat
  PROVE  /\ BitsOf(x, n) = [i \in 1 .. n |-> Digit(x, n + 1 - i)]
         /\ Reverse(BitsOf(x, n)) = [i \in 1 .. n |-> Digit(x, i)]
<1>1. \A i \in 1 .. n : n + 1 - i - 1 = n - i
  OBVIOUS
<1>2. BitsOf(x, n) = [i \in 1 .. n |-> Digit(x, n + 1 - i)]
  BY <1>1 DEF BitsOf, Digit
<1>3. Len(BitsOf(x, n)) = n
  BY <1>2
<1>4. ASSUME NEW i \in 1 .. n PROVE BitsOf(x, n)[(n - i) + 1] = Digit(x, i)
  <2>1. PICK k \in 1 .. n : k = (n - i) + 1 /\ n + 1 - k = i
    OBVIOUS
  <2>2. BitsOf(x, n)[k] = Digit(x, n + 1 - k)
    BY <1>2
  <2> QED
    BY <2>1, <2>2
<1>5. Reverse(BitsOf(x, n)) = [i \in 1 .. n |-> BitsOf(x, n)[(n - i) + 1]]
  BY <1>3 DEF Reverse
<1> QED
  BY <1>2, <1>4, <1>5

\* The bits of a byte, as sequences.
LEMMA BitsOfByte ==
  ASSUME NEW b \in Octet
  PROVE  BitsOf(ByteOf(b), 8) = Mirrored(b) /\ Reverse(BitsOf(ByteOf(b), 8)) = b
<1>1. PICK n \in Nat : n = 8
  OBVIOUS
<1>2. /\ BitsOf(ByteOf(b), n) = [i \in 1 .. n |-> Digit(ByteOf(b), n + 1 - i)]
      /\ Reverse(BitsOf(ByteOf(b), n)) = [i \in 1 .. n |-> Digit(ByteOf(b), i)]
  BY BitsOfDigits
<1>3. ASSUME NEW i \in 1 .. 8
      PROVE  Digit(ByteOf(b), 8 + 1 - i) = b[9 - i] /\ Digit(ByteOf(b), i) = b[i]
  <2>1. PICK k \in 1 .. 8 : k = 9 - i /\ k = 8 + 1 - i
    OBVIOUS
  <2>2. Digit(ByteOf(b), k) = b[k] /\ Digit(ByteOf(b), i) = b[i]
    BY DigitOfByte
  <2> QED
    BY ONLY <2>1, <2>2
<1>4. BitsOf(ByteOf(b), 8) = Mirrored(b)
  BY <1>1, <1>2, <1>3 DEF Mirrored
<1>5. Reverse(BitsOf(ByteOf(b), 8)) = [i \in 1 .. 8 |-> b[i]]
  BY <1>1, <1>2, <1>3
<1> QED
  BY <1>4, <1>5 DEF Octet

\* The bits of a half, the highest first.
LEMMA BitsOfHalf ==
  ASSUME NEW a \in Octet, NEW b \in Octet
  PROVE  BitsOf(HalfOf(a, b), 16) = [i \in 1 .. 16 |-> IF i <= 8 THEN a[9 - i] ELSE b[17 - i]]
<1>1. PICK n \in Nat : n = 16
  OBVIOUS
<1>2. BitsOf(HalfOf(a, b), n) = [i \in 1 .. n |-> Digit(HalfOf(a, b), n + 1 - i)]
  BY BitsOfDigits
<1>3. ASSUME NEW i \in 1 .. 16
      PROVE  Digit(HalfOf(a, b), 16 + 1 - i) = IF i <= 8 THEN a[9 - i] ELSE b[17 - i]
  <2>1. PICK k \in 1 .. 16 : k = 17 - i
    OBVIOUS
  <2>2. Digit(HalfOf(a, b), k) = IF k <= 8 THEN b[k] ELSE a[k - 8]
    BY DigitOfHalf
  <2>3. 16 + 1 - i = k /\ (k <= 8 <=> ~(i <= 8)) /\ k - 8 = 9 - i /\ 17 - i = k
    BY <2>1
  <2> QED
    BY ONLY <2>2, <2>3
<1> QED
  BY <1>1, <1>2, <1>3

-----------------------------------------------------------------------------
(* The loops over bits.                                                    *)

\* Eight rounds of crc.c.
ShiftedEight(c, byte) ==
  LET bit(i) == byte \div 2 ^ (i - 1)
  IN  ShiftStep(ShiftStep(ShiftStep(ShiftStep(ShiftStep(ShiftStep(ShiftStep(ShiftStep(
        c, bit(1)), bit(2)), bit(3)), bit(4)), bit(5)), bit(6)), bit(7)), bit(8))

LEMMA BitwiseUpdateIs ==
  ASSUME NEW c \in Half, NEW byte \in Byte
  PROVE  crc16_mcrf4xx_update(c, byte) = ShiftedEight(c, byte)
<1> DEFINE bit(i) == byte \div 2 ^ (i - 1)
           P(g) == g = [i \in 0 .. 8 |-> IF i = 0 THEN c ELSE ShiftStep(g[i - 1], bit(i))]
           F == [i \in 1 .. 8 |-> [v \in Half |-> ShiftStep(v, bit(i))]]
           after == CHOOSE g : P(g)
<1>1. crc16_mcrf4xx_update(c, byte) = after[8]
  BY DEF crc16_mcrf4xx_update
<1>2. /\ bit(1) \in Nat /\ bit(2) \in Nat /\ bit(3) \in Nat /\ bit(4) \in Nat
      /\ bit(5) \in Nat /\ bit(6) \in Nat /\ bit(7) \in Nat /\ bit(8) \in Nat
  BY DEF Byte
<1>13. ShiftedEight(c, byte) =
         ShiftStep(ShiftStep(ShiftStep(ShiftStep(ShiftStep(ShiftStep(ShiftStep(ShiftStep(
           c, bit(1)), bit(2)), bit(3)), bit(4)), bit(5)), bit(6)), bit(7)), bit(8))
  BY DEF ShiftedEight
<1> HIDE DEF bit
<1>3. \A i \in 1 .. 8 : bit(i) \in Nat
  BY <1>2
<1>4. \A i \in 1 .. 8 : \A v \in Half : F[i][v] \in Half /\ F[i][v] = ShiftStep(v, bit(i))
  BY <1>3, ShiftStepType
<1> HIDE DEF F
<1>16. IsSteps(F, Half, 8)
  BY <1>4 DEF IsSteps
<1>5. PICK g : DefinedBy(g, F, c, 8)
  BY IterationExists
<1>6. Iterates(g, F, c, 8)
  BY <1>5, DefinedIterates
<1>7. \A i \in 0 .. 8 : g[i] \in Half
  BY <1>16, <1>6, IterationType
<1>8. \A i \in 1 .. 8 : F[i][g[i - 1]] = ShiftStep(g[i - 1], bit(i))
  BY <1>4, <1>7
<1>9. P(g)
  BY <1>5, <1>8 DEF DefinedBy
<1>10. P(after)
  BY <1>9
<1> HIDE DEF after
<1>11. /\ after[0] = c
       /\ after[1] = ShiftStep(after[0], bit(1)) /\ after[2] = ShiftStep(after[1], bit(2))
       /\ after[3] = ShiftStep(after[2], bit(3)) /\ after[4] = ShiftStep(after[3], bit(4))
       /\ after[5] = ShiftStep(after[4], bit(5)) /\ after[6] = ShiftStep(after[5], bit(6))
       /\ after[7] = ShiftStep(after[6], bit(7)) /\ after[8] = ShiftStep(after[7], bit(8))
  BY <1>10
<1> QED
  BY ONLY <1>1, <1>11, <1>13

LEMMA ShiftStepIsFed ==
  ASSUME NEW r \in Register(16), NEW b \in Bit, NEW v \in Nat, v % 2 = b
  PROVE  ShiftStep(Low16(r), v) = Low16(Fed(16, Poly16, r, b))
<1>1. PICK n \in Nat : n = Low16(r) /\ n % 2 = r[1] /\ n \div 2 = Low16(MovedBy(16, r, 1))
  BY LowHighType, LowMoved DEF Half
<1>2. (n + v) % 2 = 1 <=> r[1] # b
  <2>1. PICK u \in Bit : u = r[1]
    BY DEF Register
  <2>2. n % 2 = u
    BY <1>1, <2>1
  <2>3. (n + v) % 2 = 1 <=> u # b
    BY ONLY n \in Nat, v \in Nat, u \in Bit, b \in Bit, <2>2, v % 2 = b DEF Bit
  <2> QED
    BY <2>1, <2>3
<1>3. 16 \in Nat /\ 1 \in Nat /\ Poly16 \in Register(16) /\ Low16(Poly16) = 33800
  BY Poly16Is
<1>4. PICK m \in Register(16) : m = MovedBy(16, r, 1)
  BY <1>3, MovedType
<1>5. Xor16(Low16(m), Low16(Poly16)) = Low16(Mix(16, m, Poly16))
  BY ONLY <1>3, m \in Register(16), LowHighMix
<1>6. Fed(16, Poly16, r, b) = IF r[1] = b THEN m ELSE Mix(16, m, Poly16)
  BY <1>3, <1>4, FedIs
<1>7. ShiftStep(n, v) = IF r[1] # b THEN Xor16(Low16(m), 33800) ELSE Low16(m)
  BY <1>1, <1>2, <1>4 DEF ShiftStep
<1> QED
  BY ONLY <1>1, <1>3, <1>5, <1>6, <1>7

\* A byte taken by crc.c is its eight bits fed, the lowest first.
LEMMA UpdateIsEight ==
  ASSUME NEW r \in Register(16), NEW b \in Octet
  PROVE  crc16_mcrf4xx_update(Low16(r), ByteOf(b)) = Low16(Eight(16, Poly16, r, b))
<1>1. PICK byte \in Byte : byte = ByteOf(b)
  BY ByteOfType
<1> DEFINE bit(i) == byte \div 2 ^ (i - 1)
<1>2. /\ bit(1) \in Nat /\ bit(2) \in Nat /\ bit(3) \in Nat /\ bit(4) \in Nat
      /\ bit(5) \in Nat /\ bit(6) \in Nat /\ bit(7) \in Nat /\ bit(8) \in Nat
  BY DEF Byte
<1>3. ASSUME NEW i \in 1 .. 8 PROVE bit(i) % 2 = b[i] /\ b[i] \in Bit
  <2>1. Digit(ByteOf(b), i) = b[i]
    BY DigitOfByte
  <2> QED
    BY <1>1, <2>1 DEF Digit, Octet
<1>4. crc16_mcrf4xx_update(Low16(r), byte) =
         ShiftStep(ShiftStep(ShiftStep(ShiftStep(ShiftStep(ShiftStep(ShiftStep(ShiftStep(
           Low16(r), bit(1)), bit(2)), bit(3)), bit(4)), bit(5)), bit(6)), bit(7)), bit(8))
  BY BitwiseUpdateIs, LowHighType DEF ShiftedEight
<1> HIDE DEF bit
<1>p. Poly16 \in Register(16) /\ 16 \in Nat /\ 16 >= 1
  BY Poly16Is
<1>5. PICK r1 \in Register(16) :
        r1 = Fed(16, Poly16, r, b[1]) /\ ShiftStep(Low16(r), bit(1)) = Low16(r1)
  <2>1. bit(1) \in Nat /\ bit(1) % 2 = b[1] /\ b[1] \in Bit
    BY <1>2, <1>3
  <2>2. Fed(16, Poly16, r, b[1]) \in Register(16)
    BY ONLY <1>p, <2>1, r \in Register(16), FedType
  <2>3. ShiftStep(Low16(r), bit(1)) = Low16(Fed(16, Poly16, r, b[1]))
    BY ONLY <2>1, r \in Register(16), ShiftStepIsFed
  <2> QED
    BY ONLY <2>2, <2>3
<1>6. PICK r2 \in Register(16) :
        r2 = Fed(16, Poly16, r1, b[2]) /\ ShiftStep(Low16(r1), bit(2)) = Low16(r2)
  <2>1. bit(2) \in Nat /\ bit(2) % 2 = b[2] /\ b[2] \in Bit
    BY <1>2, <1>3
  <2>2. Fed(16, Poly16, r1, b[2]) \in Register(16)
    BY ONLY <1>p, <2>1, r1 \in Register(16), FedType
  <2>3. ShiftStep(Low16(r1), bit(2)) = Low16(Fed(16, Poly16, r1, b[2]))
    BY ONLY <2>1, r1 \in Register(16), ShiftStepIsFed
  <2> QED
    BY ONLY <2>2, <2>3
<1>7. PICK r3 \in Register(16) :
        r3 = Fed(16, Poly16, r2, b[3]) /\ ShiftStep(Low16(r2), bit(3)) = Low16(r3)
  <2>1. bit(3) \in Nat /\ bit(3) % 2 = b[3] /\ b[3] \in Bit
    BY <1>2, <1>3
  <2>2. Fed(16, Poly16, r2, b[3]) \in Register(16)
    BY ONLY <1>p, <2>1, r2 \in Register(16), FedType
  <2>3. ShiftStep(Low16(r2), bit(3)) = Low16(Fed(16, Poly16, r2, b[3]))
    BY ONLY <2>1, r2 \in Register(16), ShiftStepIsFed
  <2> QED
    BY ONLY <2>2, <2>3
<1>8. PICK r4 \in Register(16) :
        r4 = Fed(16, Poly16, r3, b[4]) /\ ShiftStep(Low16(r3), bit(4)) = Low16(r4)
  <2>1. bit(4) \in Nat /\ bit(4) % 2 = b[4] /\ b[4] \in Bit
    BY <1>2, <1>3
  <2>2. Fed(16, Poly16, r3, b[4]) \in Register(16)
    BY ONLY <1>p, <2>1, r3 \in Register(16), FedType
  <2>3. ShiftStep(Low16(r3), bit(4)) = Low16(Fed(16, Poly16, r3, b[4]))
    BY ONLY <2>1, r3 \in Register(16), ShiftStepIsFed
  <2> QED
    BY ONLY <2>2, <2>3
<1>9. PICK r5 \in Register(16) :
        r5 = Fed(16, Poly16, r4, b[5]) /\ ShiftStep(Low16(r4), bit(5)) = Low16(r5)
  <2>1. bit(5) \in Nat /\ bit(5) % 2 = b[5] /\ b[5] \in Bit
    BY <1>2, <1>3
  <2>2. Fed(16, Poly16, r4, b[5]) \in Register(16)
    BY ONLY <1>p, <2>1, r4 \in Register(16), FedType
  <2>3. ShiftStep(Low16(r4), bit(5)) = Low16(Fed(16, Poly16, r4, b[5]))
    BY ONLY <2>1, r4 \in Register(16), ShiftStepIsFed
  <2> QED
    BY ONLY <2>2, <2>3
<1>10. PICK r6 \in Register(16) :
        r6 = Fed(16, Poly16, r5, b[6]) /\ ShiftStep(Low16(r5), bit(6)) = Low16(r6)
  <2>1. bit(6) \in Nat /\ bit(6) % 2 = b[6] /\ b[6] \in Bit
    BY <1>2, <1>3
  <2>2. Fed(16, Poly16, r5, b[6]) \in Register(16)
    BY ONLY <1>p, <2>1, r5 \in Register(16), FedType
  <2>3. ShiftStep(Low16(r5), bit(6)) = Low16(Fed(16, Poly16, r5, b[6]))
    BY ONLY <2>1, r5 \in Register(16), ShiftStepIsFed
  <2> QED
    BY ONLY <2>2, <2>3
<1>11. PICK r7 \in Register(16) :
        r7 = Fed(16, Poly16, r6, b[7]) /\ ShiftStep(Low16(r6), bit(7)) = Low16(r7)
  <2>1. bit(7) \in Nat /\ bit(7) % 2 = b[7] /\ b[7] \in Bit
    BY <1>2, <1>3
  <2>2. Fed(16, Poly16, r6, b[7]) \in Register(16)
    BY ONLY <1>p, <2>1, r6 \in Register(16), FedType
  <2>3. ShiftStep(Low16(r6), bit(7)) = Low16(Fed(16, Poly16, r6, b[7]))
    BY ONLY <2>1, r6 \in Register(16), ShiftStepIsFed
  <2> QED
    BY ONLY <2>2, <2>3
<1>12. PICK r8 \in Register(16) :
        r8 = Fed(16, Poly16, r7, b[8]) /\ ShiftStep(Low16(r7), bit(8)) = Low16(r8)
  <2>1. bit(8) \in Nat /\ bit(8) % 2 = b[8] /\ b[8] \in Bit
    BY <1>2, <1>3
  <2>2. Fed(16, Poly16, r7, b[8]) \in Register(16)
    BY ONLY <1>p, <2>1, r7 \in Register(16), FedType
  <2>3. ShiftStep(Low16(r7), bit(8)) = Low16(Fed(16, Poly16, r7, b[8]))
    BY ONLY <2>1, r7 \in Register(16), ShiftStepIsFed
  <2> QED
    BY ONLY <2>2, <2>3
<1> QED
  BY ONLY <1>1, <1>4, <1>5, <1>6, <1>7, <1>8, <1>9, <1>10, <1>11, <1>12 DEF Eight

-----------------------------------------------------------------------------
(* The test tool.                                                          *)

\* The bits of x gathered in the other order.
IsGathering(g, x, n) ==
  /\ g[0] = 0 /\ \A i \in 0 .. n : g[i] \in Nat
  /\ \A i \in 1 .. n : g[i] = 2 * g[i - 1] + Digit(x, i)

LEMMA ReflectedIs ==
  ASSUME NEW x \in Nat, NEW n \in Nat, \A i \in 1 .. n : Digit(x, i) \in Bit
  PROVE  \E g : IsGathering(g, x, n) /\ Reflected(x, n) = g[n]
<1> DEFINE bits == Reverse(BitsOf(x, n))
           P(g) == g = [i \in 0 .. n |-> IF i = 0 THEN 0 ELSE 2 * g[i - 1] + bits[i]]
           F == [i \in 1 .. n |-> [v \in Nat |-> 2 * v + Digit(x, i)]]
           value == CHOOSE g : P(g)
<1>1. Reflected(x, n) = value[n]
  BY DEF Reflected
<1>2. \A i \in 1 .. n : bits[i] = Digit(x, i)
  BY BitsOfDigits
<1> HIDE DEF bits
<1>4. ASSUME NEW i \in 1 .. n, NEW v \in Nat
      PROVE  F[i][v] \in Nat /\ F[i][v] = 2 * v + Digit(x, i)
  <2>1. PICK d \in 0 .. 1 : d = Digit(x, i)
    BY DEF Bit
  <2>2. F[i][v] = 2 * v + Digit(x, i)
    OBVIOUS
  <2>3. 2 * v + d \in Nat
    OBVIOUS
  <2> QED
    BY ONLY <2>1, <2>2, <2>3
<1> HIDE DEF F
<1>3. IsSteps(F, Nat, n)
  BY <1>4 DEF IsSteps
<1>5. PICK g : DefinedBy(g, F, 0, n)
  BY IterationExists
<1>6. Iterates(g, F, 0, n)
  BY <1>5, DefinedIterates
<1>7. \A i \in 0 .. n : g[i] \in Nat
  BY <1>3, <1>6, IterationType
<1>8. ASSUME NEW i \in 1 .. n PROVE F[i][g[i - 1]] = 2 * g[i - 1] + bits[i]
  <2>1. g[i - 1] \in Nat
    BY <1>7
  <2> QED
    BY <1>2, <1>4, <2>1
<1>9. P(g)
  <2>1. g = [i \in 0 .. n |-> IF i = 0 THEN 0 ELSE F[i][g[i - 1]]]
    BY <1>5 DEF DefinedBy
  <2>2. \A i \in 0 .. n : i = 0 \/ i \in 1 .. n
    OBVIOUS
  <2> QED
    BY <2>1, <2>2, <1>8
<1>10. P(value)
  BY <1>9
<1> HIDE DEF value
<1>11. value[0] = 0 /\ \A i \in 1 .. n : value[i] = 2 * value[i - 1] + Digit(x, i)
  BY <1>2, <1>10
<1>12. ASSUME NEW i \in 1 .. n PROVE g[i] = 2 * g[i - 1] + Digit(x, i)
  <2>1. g[i] = F[i][g[i - 1]] /\ g[i - 1] \in Nat
    BY <1>6, <1>7 DEF Iterates
  <2> QED
    BY <1>4, <2>1
<1>13. \A i \in 0 .. n : value[i] = g[i]
  <2> DEFINE T == {i \in Nat : i <= n => value[i] = g[i]}
  <2>1. 0 \in T
    BY <1>6, <1>11 DEF Iterates
  <2>2. ASSUME NEW i \in Nat, i \in T PROVE i + 1 \in T
    <3> SUFFICES ASSUME i + 1 <= n PROVE value[i + 1] = g[i + 1]
      OBVIOUS
    <3>1. value[i] = g[i] /\ i + 1 \in 1 .. n /\ (i + 1) - 1 = i
      BY <2>2
    <3> QED
      BY <3>1, <1>11, <1>12
  <2> HIDE DEF T
  <2>3. Nat \subseteq T
    BY <2>1, <2>2, Induct
  <2> QED
    BY <2>3 DEF T
<1>14. IsGathering(g, x, n) /\ value[n] = g[n]
  BY <1>6, <1>7, <1>12, <1>13 DEF IsGathering, Iterates
<1> QED
  BY <1>1, <1>14

LEMMA GatheringEnds ==
  ASSUME NEW x, NEW n \in {8, 16}, NEW g, IsGathering(g, x, n), NEW b \in Octet,
         \A i \in 1 .. 8 : Digit(x, i) = b[i]
  PROVE  g[8] = ByteOf(Mirrored(b))
<1>1. /\ g[1] = 2 * g[0] + b[1] /\ g[2] = 2 * g[1] + b[2] /\ g[3] = 2 * g[2] + b[3]
      /\ g[4] = 2 * g[3] + b[4] /\ g[5] = 2 * g[4] + b[5] /\ g[6] = 2 * g[5] + b[6]
      /\ g[7] = 2 * g[6] + b[7] /\ g[8] = 2 * g[7] + b[8] /\ g[0] = 0
  <2>1. ASSUME NEW i \in 1 .. 8 PROVE g[i] = 2 * g[i - 1] + b[i]
    <3>1. i \in 1 .. n
      OBVIOUS
    <3> QED
      BY <3>1 DEF IsGathering
  <2>2. g[0] = 0
    BY DEF IsGathering
  <2>3. /\ g[1] = 2 * g[1 - 1] + b[1] /\ g[2] = 2 * g[2 - 1] + b[2]
        /\ g[3] = 2 * g[3 - 1] + b[3] /\ g[4] = 2 * g[4 - 1] + b[4]
        /\ g[5] = 2 * g[5 - 1] + b[5] /\ g[6] = 2 * g[6 - 1] + b[6]
        /\ g[7] = 2 * g[7 - 1] + b[7] /\ g[8] = 2 * g[8 - 1] + b[8]
    BY <2>1
  <2> QED
    BY ONLY <2>2, <2>3
<1>2. PICK b1 \in 0 .. 1, b2 \in 0 .. 1, b3 \in 0 .. 1, b4 \in 0 .. 1 :
        b1 = b[1] /\ b2 = b[2] /\ b3 = b[3] /\ b4 = b[4]
  BY OctetBits DEF Bit
<1>3. PICK b5 \in 0 .. 1, b6 \in 0 .. 1, b7 \in 0 .. 1, b8 \in 0 .. 1 :
        b5 = b[5] /\ b6 = b[6] /\ b7 = b[7] /\ b8 = b[8]
  BY OctetBits DEF Bit
<1>4. g[8]
        = 2 * (2 * (2 * (2 * (2 * (2 * (2 * (2 * 0 + b1) + b2) + b3) + b4) + b5) + b6) + b7) + b8
  BY ONLY <1>1, <1>2, <1>3
<1>5. ByteOf(Mirrored(b))
        = b8 + 2 * b7 + 4 * b6 + 8 * b5 + 16 * b4 + 32 * b3 + 64 * b2 + 128 * b1
  <2>1. /\ Mirrored(b)[1] = b8 /\ Mirrored(b)[2] = b7 /\ Mirrored(b)[3] = b6 /\ Mirrored(b)[4] = b5
        /\ Mirrored(b)[5] = b4 /\ Mirrored(b)[6] = b3 /\ Mirrored(b)[7] = b2 /\ Mirrored(b)[8] = b1
    BY <1>2, <1>3 DEF Mirrored
  <2> QED
    BY ONLY <2>1 DEF ByteOf
<1>6. 2 * (2 * (2 * (2 * (2 * (2 * (2 * (2 * 0 + b1) + b2) + b3) + b4) + b5) + b6) + b7) + b8
        = b8 + 2 * b7 + 4 * b6 + 8 * b5 + 16 * b4 + 32 * b3 + 64 * b2 + 128 * b1
  BY ONLY b1 \in 0 .. 1, b2 \in 0 .. 1, b3 \in 0 .. 1, b4 \in 0 .. 1,
          b5 \in 0 .. 1, b6 \in 0 .. 1, b7 \in 0 .. 1, b8 \in 0 .. 1
<1> QED
  BY ONLY <1>4, <1>5, <1>6

LEMMA GatheringGoesOn ==
  ASSUME NEW x, NEW n, n = 16, NEW g, IsGathering(g, x, n), NEW b \in Octet,
         \A i \in 1 .. 8 : Digit(x, 8 + i) = b[i]
  PROVE  g[16] = 256 * g[8] + ByteOf(Mirrored(b))
<1>1. /\ g[9] = 2 * g[8] + b[1] /\ g[10] = 2 * g[9] + b[2] /\ g[11] = 2 * g[10] + b[3]
      /\ g[12] = 2 * g[11] + b[4] /\ g[13] = 2 * g[12] + b[5] /\ g[14] = 2 * g[13] + b[6]
      /\ g[15] = 2 * g[14] + b[7] /\ g[16] = 2 * g[15] + b[8] /\ g[8] \in Nat
  <2>1. ASSUME NEW i \in 1 .. 8 PROVE g[8 + i] = 2 * g[(8 + i) - 1] + b[i]
    <3>1. PICK k \in 1 .. n : k = 8 + i
      OBVIOUS
    <3>2. g[k] = 2 * g[k - 1] + Digit(x, k)
      BY DEF IsGathering
    <3>3. Digit(x, 8 + i) = b[i]
      OBVIOUS
    <3> QED
      BY ONLY <3>1, <3>2, <3>3
  <2>2. g[8] \in Nat
    BY DEF IsGathering
  <2>3. /\ g[8 + 1] = 2 * g[(8 + 1) - 1] + b[1] /\ g[8 + 2] = 2 * g[(8 + 2) - 1] + b[2]
        /\ g[8 + 3] = 2 * g[(8 + 3) - 1] + b[3] /\ g[8 + 4] = 2 * g[(8 + 4) - 1] + b[4]
        /\ g[8 + 5] = 2 * g[(8 + 5) - 1] + b[5] /\ g[8 + 6] = 2 * g[(8 + 6) - 1] + b[6]
        /\ g[8 + 7] = 2 * g[(8 + 7) - 1] + b[7] /\ g[8 + 8] = 2 * g[(8 + 8) - 1] + b[8]
    BY <2>1
  <2> QED
    BY ONLY <2>2, <2>3
<1>2. PICK b1 \in 0 .. 1, b2 \in 0 .. 1, b3 \in 0 .. 1, b4 \in 0 .. 1 :
        b1 = b[1] /\ b2 = b[2] /\ b3 = b[3] /\ b4 = b[4]
  BY OctetBits DEF Bit
<1>3. PICK b5 \in 0 .. 1, b6 \in 0 .. 1, b7 \in 0 .. 1, b8 \in 0 .. 1 :
        b5 = b[5] /\ b6 = b[6] /\ b7 = b[7] /\ b8 = b[8]
  BY OctetBits DEF Bit
<1>7. PICK v \in Nat : v = g[8]
  BY <1>1
<1>4. g[16]
        = 2 * (2 * (2 * (2 * (2 * (2 * (2 * (2 * v + b1) + b2) + b3) + b4) + b5) + b6) + b7) + b8
  BY ONLY <1>1, <1>2, <1>3, <1>7
<1>5. ByteOf(Mirrored(b))
        = b8 + 2 * b7 + 4 * b6 + 8 * b5 + 16 * b4 + 32 * b3 + 64 * b2 + 128 * b1
  <2>1. /\ Mirrored(b)[1] = b8 /\ Mirrored(b)[2] = b7 /\ Mirrored(b)[3] = b6 /\ Mirrored(b)[4] = b5
        /\ Mirrored(b)[5] = b4 /\ Mirrored(b)[6] = b3 /\ Mirrored(b)[7] = b2 /\ Mirrored(b)[8] = b1
    BY <1>2, <1>3 DEF Mirrored
  <2> QED
    BY ONLY <2>1 DEF ByteOf
<1>6. 2 * (2 * (2 * (2 * (2 * (2 * (2 * (2 * v + b1) + b2) + b3) + b4) + b5) + b6) + b7) + b8
        = 256 * v + (b8 + 2 * b7 + 4 * b6 + 8 * b5 + 16 * b4 + 32 * b3 + 64 * b2 + 128 * b1)
  BY ONLY b1 \in 0 .. 1, b2 \in 0 .. 1, b3 \in 0 .. 1, b4 \in 0 .. 1, v \in Nat,
          b5 \in 0 .. 1, b6 \in 0 .. 1, b7 \in 0 .. 1, b8 \in 0 .. 1
<1> QED
  BY ONLY <1>4, <1>5, <1>6, <1>7

LEMMA ReflectedByte ==
  ASSUME NEW b \in Octet
  PROVE  Reflected(ByteOf(b), 8) = ByteOf(Mirrored(b))
<1>1. PICK x \in Nat, n \in Nat : x = ByteOf(b) /\ n = 8
  BY ByteOfType DEF Byte
<1>2. \A i \in 1 .. n : Digit(x, i) = b[i] /\ b[i] \in Bit
  BY <1>1, DigitOfByte DEF Octet
<1>3. PICK g : IsGathering(g, x, n) /\ Reflected(x, n) = g[n]
  BY <1>2, ReflectedIs
<1>4. g[8] = ByteOf(Mirrored(b))
  <2>1. n \in {8, 16} /\ \A i \in 1 .. 8 : Digit(x, i) = b[i]
    BY <1>1, <1>2
  <2> QED
    BY <2>1, <1>3, GatheringEnds
<1> QED
  BY ONLY <1>1, <1>3, <1>4

LEMMA ReflectedHalf ==
  ASSUME NEW a \in Octet, NEW b \in Octet
  PROVE  Reflected(HalfOf(a, b), 16) = HalfOf(Mirrored(b), Mirrored(a))
<1>1. PICK x \in Nat, n \in Nat : x = HalfOf(a, b) /\ n = 16
  BY HalfOfParts DEF Half
<1>2. /\ \A i \in 1 .. 8 : Digit(x, i) = b[i] /\ b[i] \in Bit
      /\ \A i \in 1 .. 8 : Digit(x, 8 + i) = a[i] /\ a[i] \in Bit
  <2>1. \A i \in 1 .. 16 : Digit(x, i) = IF i <= 8 THEN b[i] ELSE a[i - 8]
    BY <1>1, DigitOfHalf
  <2>2. ASSUME NEW i \in 1 .. 8 PROVE Digit(x, i) = b[i] /\ b[i] \in Bit
    BY <2>1 DEF Octet
  <2>3. ASSUME NEW i \in 1 .. 8 PROVE Digit(x, 8 + i) = a[i] /\ a[i] \in Bit
    <3>1. PICK k \in 1 .. 16 : k = 8 + i /\ ~(k <= 8) /\ k - 8 = i
      OBVIOUS
    <3>2. Digit(x, k) = IF k <= 8 THEN b[k] ELSE a[k - 8]
      BY <2>1
    <3>3. a[i] \in Bit
      BY DEF Octet
    <3> QED
      BY ONLY <3>1, <3>2, <3>3
  <2> QED
    BY <2>2, <2>3
<1>5. \A i \in 1 .. n : Digit(x, i) \in Bit
  <2> SUFFICES ASSUME NEW i \in 1 .. n PROVE Digit(x, i) \in Bit
    OBVIOUS
  <2>1. CASE i <= 8
    BY <1>2, <2>1
  <2>2. CASE i > 8
    <3>1. PICK k \in 1 .. 8 : i = 8 + k
      <4>1. i - 8 \in 1 .. 8 /\ i = 8 + (i - 8)
        BY <1>1, <2>2
      <4> QED
        BY <4>1
    <3> QED
      BY <1>2, <3>1
  <2> QED
    BY <2>1, <2>2
<1>3. PICK g : IsGathering(g, x, n) /\ Reflected(x, n) = g[n]
  BY <1>5, ReflectedIs
<1>4. g[8] = ByteOf(Mirrored(b))
  <2>1. n \in {8, 16} /\ \A i \in 1 .. 8 : Digit(x, i) = b[i]
    BY <1>1, <1>2
  <2> QED
    BY <2>1, <1>3, GatheringEnds
<1>6. g[16] = 256 * g[8] + ByteOf(Mirrored(a))
  BY <1>1, <1>2, <1>3, GatheringGoesOn
<1> QED
  BY ONLY <1>1, <1>3, <1>4, <1>6 DEF HalfOf

-----------------------------------------------------------------------------
(* Registers fed byte by byte.                                             *)

\* f takes what one step gives to what the other gives.
IsImage(f, H, Z, G, Y) == \A z \in Z : \A y \in Y : f[H[z][y]] = G[f[z]][y]

StepsOver(G, X, Y) == DOMAIN G = X /\ Takes(G, X, Y)
MapsFolds(f, H, G, z, s) == Folded(G, f[z], s) = f[Folded(H, z, s)]

LEMMA FoldedMaps ==
  ASSUME NEW X, NEW Y, NEW Z, NEW G, StepsOver(G, X, Y),
         NEW H, StepsOver(H, Z, Y), NEW f, f \in [Z -> X], IsImage(f, H, Z, G, Y),
         NEW z, z \in Z, NEW s, s \in Seq(Y)
  PROVE  MapsFolds(f, H, G, z, s)
<1> USE DEF StepsOver, MapsFolds
<1>0. PICK n \in Nat : n = Len(s) /\ \A i \in 1 .. n : s[i] \in Y
  BY LenProperties, ElementOfSeq
<1>1. PICK g : /\ IsRunOf(g, H, z, s) /\ \A i \in 0 .. Len(s) : g[i] \in Z
               /\ Folded(H, z, s) = g[Len(s)]
  BY RunIs
<1>2. PICK x \in X : x = f[z]
  OBVIOUS
<1>3. PICK e : IsRunOf(e, G, x, s) /\ Folded(G, x, s) = e[Len(s)]
  BY RunIs
<1>4. g[0] = z /\ \A i \in 1 .. n : g[i] = H[g[i - 1]][s[i]]
  BY <1>0, <1>1 DEF IsRunOf
<1>5. e[0] = x /\ \A i \in 1 .. n : e[i] = G[e[i - 1]][s[i]]
  BY <1>0, <1>3 DEF IsRunOf
<1>6. \A i \in 0 .. n : g[i] \in Z
  <2>1. \A i \in 0 .. Len(s) : g[i] \in Z
    BY <1>0, <1>1, <1>4, RunType
  <2> QED
    BY <1>0, <2>1
<1> DEFINE T == {i \in Nat : i <= n => e[i] = f[g[i]]}
<1>7. 0 \in T
  BY <1>2, <1>4, <1>5
<1>8. ASSUME NEW i \in Nat, i \in T PROVE i + 1 \in T
  <2> SUFFICES ASSUME i + 1 <= n PROVE e[i + 1] = f[g[i + 1]]
    OBVIOUS
  <2>1. e[i] = f[g[i]] /\ i + 1 \in 1 .. n /\ i \in 0 .. n /\ (i + 1) - 1 = i
    BY <1>8
  <2>2. e[i + 1] = G[e[i]][s[i + 1]] /\ g[i + 1] = H[g[i]][s[i + 1]]
    BY <1>4, <1>5, <2>1
  <2>3. PICK u \in Z, y \in Y : u = g[i] /\ y = s[i + 1]
    BY <1>0, <1>6, <2>1
  <2>4. f[H[u][y]] = G[f[u]][y]
    BY DEF IsImage
  <2> QED
    BY ONLY <2>1, <2>2, <2>3, <2>4
<1> HIDE DEF T
<1>9. Nat \subseteq T
  BY <1>7, <1>8, Induct
<1>10. e[n] = f[g[n]]
  BY <1>9 DEF T
<1> QED
  BY <1>0, <1>1, <1>2, <1>3, <1>10

\* A register of W bits that takes the bytes as the bits f gives.
ByByte(W, p, f) == [r \in Register(W) |-> [m \in Byte |-> Eight(W, p, r, f[m])]]

LEMMA ByByteTakes ==
  ASSUME NEW W \in Nat, W >= 1, NEW p \in Register(W), NEW f \in [Byte -> Octet]
  PROVE  /\ DOMAIN ByByte(W, p, f) = Register(W) /\ Takes(ByByte(W, p, f), Register(W), Byte)
         /\ Ones(W) \in Register(W)
<1>1. ASSUME NEW r \in Register(W), NEW m \in Byte PROVE ByByte(W, p, f)[r][m] \in Register(W)
  BY EightType DEF ByByte
<1>2. Ones(W) \in Register(W)
  BY DEF Ones, Register, Bit
<1> QED
  BY <1>1, <1>2 DEF ByByte, Takes

BitByBit(W, p, f, r, s) == Folded(Feed(W, p), r, Joined(f, s)) = Folded(ByByte(W, p, f), r, s)

\* Whether the bits of a message are fed one by one or by bytes.
LEMMA BytesAreBits ==
  ASSUME NEW W \in Nat, W >= 1, NEW p \in Register(W), NEW f \in [Byte -> Octet],
         NEW r \in Register(W), NEW s \in Seq(Byte)
  PROVE  Joined(f, s) \in Seq(Bit) /\ BitByBit(W, p, f, r, s)
<1>1. IsMap(f, Byte, Bit)
  <2>1. \A b \in Octet : b \in Seq(Bit)
    <3> SUFFICES ASSUME NEW b \in Octet PROVE b \in Seq(Bit)
      OBVIOUS
    <3> QED
      BY EightIsFold
  <2> QED
    BY <2>1 DEF IsMap
<1>2. \A t \in Seq(Byte) : Joined(f, t) \in Seq(Bit)
  BY <1>1, JoinedType
<1> DEFINE T == {n \in Nat : \A t \in Seq(Byte) : Len(t) = n => BitByBit(W, p, f, r, t)}
<1>3. 0 \in T
  <2> SUFFICES ASSUME NEW t \in Seq(Byte), Len(t) = 0 PROVE BitByBit(W, p, f, r, t)
    OBVIOUS
  <2>1. t = << >>
    BY EmptySeq
  <2>2. Joined(f, << >>) = << >>
    BY JoinedEmpty
  <2>3. Folded(Feed(W, p), r, << >>) = r
    BY FeedTakes, FoldedEmpty
  <2>4. Folded(ByByte(W, p, f), r, << >>) = r
    BY ByByteTakes, FoldedEmpty
  <2> QED
    BY <2>1, <2>2, <2>3, <2>4 DEF BitByBit
<1>4. ASSUME NEW n \in Nat, n \in T PROVE n + 1 \in T
  <2> SUFFICES ASSUME NEW t \in Seq(Byte), Len(t) = n + 1 PROVE BitByBit(W, p, f, r, t)
    OBVIOUS
  <2>1. PICK u \in Seq(Byte), m \in Byte : t = Append(u, m) /\ Len(u) = n
    <3>1. /\ t = Append(SubSeq(t, 1, n), t[n + 1])
          /\ SubSeq(t, 1, n) \in Seq(Byte) /\ Len(SubSeq(t, 1, n)) = n
          /\ t[n + 1] \in Byte
      BY LenProperties, ElementOfSeq
    <3> QED
      BY <3>1
  <2>2. Joined(f, t) = Joined(f, u) \o f[m]
    BY <1>1, <2>1, JoinedAppend
  <2>3. PICK b \in Octet, ub \in Seq(Bit) : b = f[m] /\ ub = Joined(f, u)
    BY <1>2
  <2>4. b \in Seq(Bit)
    BY EightIsFold
  <2>5. PICK x \in Register(W) : x = Folded(Feed(W, p), r, ub)
    BY FeedTakes, FoldedType
  <2>6. Folded(Feed(W, p), r, ub \o b) = Folded(Feed(W, p), x, b)
    BY <2>4, <2>5, FeedTakes, FoldedConcat
  <2>7. Folded(Feed(W, p), x, b) = Eight(W, p, x, b)
    BY EightIsFold
  <2>8. BitByBit(W, p, f, r, u)
    BY <1>4, <2>1
  <2>9. Folded(ByByte(W, p, f), r, u) = x
    BY <2>3, <2>5, <2>8 DEF BitByBit
  <2>10. Folded(ByByte(W, p, f), r, Append(u, m))
           = ByByte(W, p, f)[Folded(ByByte(W, p, f), r, u)][m]
    <3>1. PICK G : /\ G = ByByte(W, p, f)
                   /\ DOMAIN G = Register(W) /\ Takes(G, Register(W), Byte)
      BY ByByteTakes
    <3>2. DOMAIN G = Register(W) /\ Takes(G, Register(W), Byte)
      BY <3>1
    <3>3. Folded(G, r, Append(u, m)) = G[Folded(G, r, u)][m]
      BY ONLY <3>2, r \in Register(W), u \in Seq(Byte), m \in Byte, FoldedAppend
    <3> QED
      BY ONLY <3>1, <3>3
  <2>11. ByByte(W, p, f)[x][m] = Eight(W, p, x, f[m])
    BY DEF ByByte
  <2> QED
    BY <2>1, <2>2, <2>3, <2>6, <2>7, <2>9, <2>10, <2>11 DEF BitByBit
<1> HIDE DEF T
<1>5. Nat \subseteq T
  BY <1>3, <1>4, Induct
<1>6. Len(s) \in Nat
  BY LenProperties
<1> QED
  BY <1>2, <1>5, <1>6 DEF T

-----------------------------------------------------------------------------
(* crc.c and Serial.py are the register of CRC-16/MCRF4XX.                 *)

Highs == {High16(r) : r \in Register(16)}

LEMMA SerialShiftIsFed ==
  ASSUME NEW r \in Register(16)
  PROVE  /\ SerialShift(High16(r)) = High16(Fed(16, Poly16, r, 0))
         /\ Fed(16, Poly16, r, 0) \in Register(16)
<1>1. 16 \in Nat /\ 16 >= 1 /\ 1 \in Nat /\ 0 \in Bit
      /\ Poly16 \in Register(16) /\ High16(Poly16) = 4129
  BY Poly16Is DEF Bit
<1>2. PICK m \in Register(16) : m = MovedBy(16, r, 1)
  BY <1>1, MovedType
<1>3. Xor16(High16(m), High16(Poly16)) = High16(Mix(16, m, Poly16))
  BY ONLY <1>1, m \in Register(16), LowHighMix
<1>4. Fed(16, Poly16, r, 0) = IF r[1] = 0 THEN m ELSE Mix(16, m, Poly16)
  BY <1>1, <1>2, FedIs
<1>5. /\ High16(r) >= 32768 <=> r[1] = 1
      /\ (2 * High16(r)) % 65536 = High16(m)
      /\ r[1] = 0 => 2 * High16(r) = High16(m)
  BY <1>2, HighMoved
<1>6. r[1] = 0 \/ r[1] = 1
  BY DEF Register, Bit
<1>7. Fed(16, Poly16, r, 0) \in Register(16)
  BY <1>1, FedType
<1>8. SerialShift(High16(r)) = IF r[1] = 0 THEN High16(m) ELSE Xor16(High16(m), 4129)
  BY ONLY <1>5, <1>6 DEF SerialShift
<1> QED
  BY ONLY <1>1, <1>3, <1>4, <1>6, <1>7, <1>8

\* The byte, its bits in the other order, at the high end of the register.
LEMMA FrontIsHigh ==
  ASSUME NEW b \in Octet
  PROVE  High16(AtFront(16, b)) = 256 * Reflected(ByteOf(b), 8)
<1>1. ASSUME NEW i \in 1 .. 8
      PROVE  AtFront(16, b)[0 + i] = b[i] /\ AtFront(16, b)[8 + i] = 0
  <2>1. PICK k \in 1 .. 16 : k = 8 + i /\ ~(k <= 8)
    OBVIOUS
  <2>2. AtFront(16, b)[k] = 0
    BY <2>1 DEF AtFront
  <2>3. AtFront(16, b)[i] = b[i] /\ 0 + i = i
    BY DEF AtFront
  <2> QED
    BY ONLY <2>1, <2>2, <2>3
<1>2. Part(AtFront(16, b), 0) = [i \in 1 .. 8 |-> b[i]]
  BY <1>1 DEF Part
<1>3. Part(AtFront(16, b), 8) = NoBits
  BY <1>1 DEF Part, NoBits
<1>4. Part(AtFront(16, b), 0) = b
  BY <1>2 DEF Octet
<1>5. High16(AtFront(16, b)) = 256 * ByteOf(Mirrored(b)) + 0
  BY ONLY <1>3, <1>4, MirroredNone DEF High16, HalfOf
<1>6. PICK v \in Byte : v = ByteOf(Mirrored(b))
  BY MirroredType, ByteOfType
<1>7. 256 * v + 0 = 256 * v
  BY ONLY v \in Byte DEF Byte
<1> QED
  BY <1>5, <1>6, <1>7, ReflectedByte

LEMMA SerialByteIsEight ==
  ASSUME NEW r \in Register(16), NEW b \in Octet
  PROVE  SerialByte(High16(r), ByteOf(b)) = High16(Eight(16, Poly16, r, b))
<1>p. Poly16 \in Register(16) /\ 16 \in Nat /\ 16 >= 8 /\ 16 >= 1
  BY Poly16Is
<1>1. PICK t \in Register(16) : t = Mix(16, r, AtFront(16, b))
  BY <1>p, FrontType, SumType
<1>2. Xor16(High16(r), 256 * Reflected(ByteOf(b), 8)) = High16(t)
  <2>1. AtFront(16, b) \in Register(16)
    BY <1>p, FrontType
  <2> QED
    BY <1>1, <2>1, FrontIsHigh, LowHighMix
<1> DEFINE h == Xor16(High16(r), 256 * Reflected(ByteOf(b), 8))
           P(g) == g = [i \in 0 .. 8 |-> IF i = 0 THEN h ELSE SerialShift(g[i - 1])]
           F == [i \in 1 .. 8 |-> [v \in Highs |-> SerialShift(v)]]
           after == CHOOSE g : P(g)
<1>3. SerialByte(High16(r), ByteOf(b)) = after[8]
  BY DEF SerialByte
<1>4. h \in Highs /\ h = High16(t)
  BY <1>2 DEF Highs
<1> HIDE DEF h
<1>5. \A v \in Highs : SerialShift(v) \in Highs
  BY SerialShiftIsFed DEF Highs
<1>6. \A i \in 1 .. 8 : \A v \in Highs : F[i][v] \in Highs /\ F[i][v] = SerialShift(v)
  BY <1>5
<1> HIDE DEF F
<1>7. IsSteps(F, Highs, 8)
  BY <1>6 DEF IsSteps
<1>8. PICK g : DefinedBy(g, F, h, 8)
  BY IterationExists
<1>9. Iterates(g, F, h, 8)
  BY <1>8, DefinedIterates
<1>10. \A i \in 0 .. 8 : g[i] \in Highs
  BY <1>4, <1>7, <1>9, IterationType
<1>11. \A i \in 1 .. 8 : F[i][g[i - 1]] = SerialShift(g[i - 1])
  BY <1>6, <1>10
<1>12. P(g)
  BY <1>8, <1>11 DEF DefinedBy
<1>13. P(after)
  BY <1>12
<1> HIDE DEF after
<1>14. /\ after[0] = h
       /\ after[1] = SerialShift(after[0]) /\ after[2] = SerialShift(after[1])
       /\ after[3] = SerialShift(after[2]) /\ after[4] = SerialShift(after[3])
       /\ after[5] = SerialShift(after[4]) /\ after[6] = SerialShift(after[5])
       /\ after[7] = SerialShift(after[6]) /\ after[8] = SerialShift(after[7])
  BY <1>13
<1>15. PICK r1 \in Register(16) :
         r1 = Fed(16, Poly16, t, 0) /\ SerialShift(High16(t)) = High16(r1)
  BY ONLY t \in Register(16), SerialShiftIsFed
<1>16. PICK r2 \in Register(16) :
         r2 = Fed(16, Poly16, r1, 0) /\ SerialShift(High16(r1)) = High16(r2)
  BY ONLY r1 \in Register(16), SerialShiftIsFed
<1>17. PICK r3 \in Register(16) :
         r3 = Fed(16, Poly16, r2, 0) /\ SerialShift(High16(r2)) = High16(r3)
  BY ONLY r2 \in Register(16), SerialShiftIsFed
<1>18. PICK r4 \in Register(16) :
         r4 = Fed(16, Poly16, r3, 0) /\ SerialShift(High16(r3)) = High16(r4)
  BY ONLY r3 \in Register(16), SerialShiftIsFed
<1>19. PICK r5 \in Register(16) :
         r5 = Fed(16, Poly16, r4, 0) /\ SerialShift(High16(r4)) = High16(r5)
  BY ONLY r4 \in Register(16), SerialShiftIsFed
<1>20. PICK r6 \in Register(16) :
         r6 = Fed(16, Poly16, r5, 0) /\ SerialShift(High16(r5)) = High16(r6)
  BY ONLY r5 \in Register(16), SerialShiftIsFed
<1>21. PICK r7 \in Register(16) :
         r7 = Fed(16, Poly16, r6, 0) /\ SerialShift(High16(r6)) = High16(r7)
  BY ONLY r6 \in Register(16), SerialShiftIsFed
<1>22. PICK r8 \in Register(16) :
         r8 = Fed(16, Poly16, r7, 0) /\ SerialShift(High16(r7)) = High16(r8)
  BY ONLY r7 \in Register(16), SerialShiftIsFed
<1>23. Eight(16, Poly16, t, NoBits) = r8
  <2>1. /\ NoBits[1] = 0 /\ NoBits[2] = 0 /\ NoBits[3] = 0 /\ NoBits[4] = 0
        /\ NoBits[5] = 0 /\ NoBits[6] = 0 /\ NoBits[7] = 0 /\ NoBits[8] = 0
    BY DEF NoBits
  <2> QED
    BY ONLY <1>15, <1>16, <1>17, <1>18, <1>19, <1>20, <1>21, <1>22, <2>1 DEF Eight
<1>24. Eight(16, Poly16, r, b) = Eight(16, Poly16, Mix(16, r, AtFront(16, b)), NoBits)
  BY <1>p, EightAhead
<1> QED
  BY ONLY <1>1, <1>3, <1>4, <1>14, <1>15, <1>16, <1>17, <1>18, <1>19, <1>20, <1>21, <1>22,
          <1>23, <1>24

-----------------------------------------------------------------------------
(* The bits of each byte, the lowest first and the highest first.          *)

LowBits == [m \in Byte |-> BitsIn(m)]
HighBits == [m \in Byte |-> Mirrored(BitsIn(m))]

\* The register after a message.
Register16(s) == Folded(ByByte(16, Poly16, LowBits), Ones(16), s)

LEMMA BitsOfBytes ==
  /\ LowBits \in [Byte -> Octet] /\ HighBits \in [Byte -> Octet]
  /\ \A m \in Byte : ByteOf(LowBits[m]) = m /\ ByteOf(Mirrored(HighBits[m])) = m
<1> SUFFICES ASSUME NEW m \in Byte
             PROVE  /\ BitsIn(m) \in Octet /\ Mirrored(BitsIn(m)) \in Octet
                    /\ ByteOf(BitsIn(m)) = m /\ ByteOf(Mirrored(Mirrored(BitsIn(m)))) = m
  BY DEF LowBits, HighBits
<1>1. BitsIn(m) \in Octet /\ ByteOf(BitsIn(m)) = m
  BY BitsInType
<1> QED
  BY <1>1, MirroredType

LEMMA OnesAre == Low16(Ones(16)) = 65535 /\ High16(Ones(16)) = 65535
<1>1. Low16(Ones(16)) = 65535
  BY DEF Low16, HalfOf, ByteOf, Part, Ones
<1>2. High16(Ones(16)) = 65535
  BY DEF High16, HalfOf, ByteOf, Part, Mirrored, Ones
<1> QED
  BY <1>1, <1>2

LEMMA Register16Takes ==
  /\ DOMAIN ByByte(16, Poly16, LowBits) = Register(16)
  /\ Takes(ByByte(16, Poly16, LowBits), Register(16), Byte)
  /\ Ones(16) \in Register(16)
  /\ \A s \in Seq(Byte) : Register16(s) \in Register(16)
<1>1. 16 \in Nat /\ 16 >= 1 /\ Poly16 \in Register(16) /\ LowBits \in [Byte -> Octet]
  BY Poly16Is, BitsOfBytes
<1>2. /\ DOMAIN ByByte(16, Poly16, LowBits) = Register(16)
      /\ Takes(ByByte(16, Poly16, LowBits), Register(16), Byte)
      /\ Ones(16) \in Register(16)
  BY ONLY <1>1, ByByteTakes
<1>3. ASSUME NEW s \in Seq(Byte) PROVE Register16(s) \in Register(16)
  BY ONLY <1>2, s \in Seq(Byte), FoldedType DEF Register16
<1> QED
  BY <1>2, <1>3

\* What a step on numbers comes to, when it is a step of the register.
IsStepOf(G, f, W, p, bits) ==
  \A r \in Register(W) : \A m \in Byte : f[Eight(W, p, r, bits[m])] = G[f[r]][m]

ImageAfter(G, f, W, p, bits, s) ==
  Folded(G, f[Ones(W)], s) = f[Folded(ByByte(W, p, bits), Ones(W), s)]

LEMMA RegisterIsImage ==
  ASSUME NEW W \in Nat, W >= 1, NEW p \in Register(W), NEW bits \in [Byte -> Octet],
         NEW X, NEW G, StepsOver(G, X, Byte), NEW f \in [Register(W) -> X],
         IsStepOf(G, f, W, p, bits), NEW s \in Seq(Byte)
  PROVE  ImageAfter(G, f, W, p, bits, s)
<1>1. PICK H : /\ H = ByByte(W, p, bits) /\ DOMAIN H = Register(W)
               /\ Takes(H, Register(W), Byte)
  BY ByByteTakes
<1>2. PICK z \in Register(W) : z = Ones(W)
  BY ByByteTakes
<1>3. \A r \in Register(W) : \A m \in Byte : H[r][m] = Eight(W, p, r, bits[m])
  BY <1>1 DEF ByByte
<1>4. IsImage(f, H, Register(W), G, Byte)
  BY <1>3 DEF IsImage, IsStepOf
<1>5. StepsOver(H, Register(W), Byte)
  BY <1>1 DEF StepsOver
<1>6. MapsFolds(f, H, G, z, s)
  BY ONLY <1>4, <1>5, StepsOver(G, X, Byte), z \in Register(W), s \in Seq(Byte),
          f \in [Register(W) -> X], FoldedMaps
<1> QED
  BY ONLY <1>1, <1>2, <1>6 DEF MapsFolds, ImageAfter

LEMMA BitwiseIsRegister ==
  ASSUME NEW s \in Seq(Byte)
  PROVE  crc16_mcrf4xx(s) = Low16(Register16(s))
<1> DEFINE f == [r \in Register(16) |-> Low16(r)]
<1>1. f \in [Register(16) -> Half]
  BY LowHighType
<1>2. ASSUME NEW r \in Register(16), NEW m \in Byte
      PROVE  f[Eight(16, Poly16, r, LowBits[m])] = BitwiseStep[f[r]][m]
  <2>1. PICK b \in Octet : b = LowBits[m] /\ ByteOf(b) = m
    BY BitsOfBytes
  <2>2. Eight(16, Poly16, r, b) \in Register(16)
    BY Poly16Is, EightType
  <2>3. crc16_mcrf4xx_update(Low16(r), m) = Low16(Eight(16, Poly16, r, b))
    BY <2>1, UpdateIsEight
  <2>4. BitwiseStep[Low16(r)][m] = crc16_mcrf4xx_update(Low16(r), m)
    BY LowHighType DEF BitwiseStep
  <2> QED
    BY <2>1, <2>2, <2>3, <2>4
<1>3. f[Ones(16)] = 65535 /\ f[Register16(s)] = Low16(Register16(s))
  BY OnesAre, Register16Takes
<1> HIDE DEF f
<1>4. /\ 16 \in Nat /\ 16 >= 1 /\ Poly16 \in Register(16) /\ LowBits \in [Byte -> Octet]
      /\ StepsOver(BitwiseStep, Half, Byte) /\ IsStepOf(BitwiseStep, f, 16, Poly16, LowBits)
  BY <1>2, Poly16Is, BitsOfBytes, BitwiseTakes DEF StepsOver, IsStepOf
<1>5. ImageAfter(BitwiseStep, f, 16, Poly16, LowBits, s)
  BY ONLY <1>1, <1>4, s \in Seq(Byte), RegisterIsImage
<1> QED
  BY <1>3, <1>5, BitwiseIsFold DEF ImageAfter, Register16

-----------------------------------------------------------------------------
(* The test tool, byte by byte.                                            *)

SerialStep == [c \in Highs |-> [byte \in Byte |-> SerialByte(c, byte)]]

LEMMA SerialTakes ==
  /\ DOMAIN SerialStep = Highs /\ Takes(SerialStep, Highs, Byte) /\ 65535 \in Highs
  /\ \A r \in Register(16) : \A m \in Byte :
       High16(Eight(16, Poly16, r, LowBits[m])) = SerialByte(High16(r), m)
<1>1. ASSUME NEW r \in Register(16), NEW m \in Byte
      PROVE  /\ High16(Eight(16, Poly16, r, LowBits[m])) = SerialByte(High16(r), m)
             /\ SerialByte(High16(r), m) \in Highs
  <2>1. PICK b \in Octet : b = LowBits[m] /\ ByteOf(b) = m
    BY BitsOfBytes
  <2>2. Eight(16, Poly16, r, b) \in Register(16)
    BY Poly16Is, EightType
  <2>3. SerialByte(High16(r), m) = High16(Eight(16, Poly16, r, b))
    BY <2>1, SerialByteIsEight
  <2> QED
    BY <2>1, <2>2, <2>3 DEF Highs
<1>2. ASSUME NEW c \in Highs, NEW m \in Byte PROVE SerialStep[c][m] \in Highs
  <2>1. PICK r \in Register(16) : c = High16(r)
    BY DEF Highs
  <2> QED
    BY <1>1, <2>1 DEF SerialStep
<1>3. 65535 \in Highs
  BY OnesAre, Register16Takes DEF Highs
<1> QED
  BY <1>1, <1>2, <1>3 DEF SerialStep, Takes

LEMMA SerialIsFold ==
  ASSUME NEW data \in Seq(Byte)
  PROVE  serial_crc16_mcrf4xx(data) = Reflected(Folded(SerialStep, 65535, data), 16)
<1> DEFINE P(g) == g = [n \in 0 .. Len(data) |->
                          IF n = 0 THEN 65535 ELSE SerialByte(g[n - 1], data[n])]
           f == CHOOSE g : P(g)
           G == SerialStep
<1>0. Len(data) \in Nat /\ \A i \in 1 .. Len(data) : data[i] \in Byte
  BY LenProperties, ElementOfSeq
<1>1. \A c \in Highs : \A byte \in Byte : G[c][byte] = SerialByte(c, byte)
  BY DEF SerialStep
<1> HIDE DEF G
<1>2. DOMAIN G = Highs /\ Takes(G, Highs, Byte) /\ 65535 \in Highs
  BY SerialTakes DEF G
<1>3. PICK g : g = [n \in 0 .. Len(data) |-> IF n = 0 THEN 65535 ELSE G[g[n - 1]][data[n]]]
  BY <1>2, RunExists
<1>4. IsRunOf(g, G, 65535, data)
  <2>1. 0 \in 0 .. Len(data) /\ \A i \in 1 .. Len(data) : i \in 0 .. Len(data) /\ i # 0
    BY <1>0
  <2>2. g[0] = 65535
    BY ONLY <1>3, <2>1
  <2>3. \A i \in 1 .. Len(data) : g[i] = G[g[i - 1]][data[i]]
    BY ONLY <1>3, <2>1
  <2> QED
    BY <2>2, <2>3 DEF IsRunOf
<1>5. \A i \in 0 .. Len(data) : g[i] \in Highs
  BY <1>2, <1>4, RunType
<1>6. \A n \in 1 .. Len(data) : G[g[n - 1]][data[n]] = SerialByte(g[n - 1], data[n])
  BY <1>0, <1>1, <1>5
<1>7. P(g)
  <2>1. \A n \in 0 .. Len(data) : n = 0 \/ n \in 1 .. Len(data)
    BY <1>0
  <2>2. \A n \in 0 .. Len(data) : (IF n = 0 THEN 65535 ELSE G[g[n - 1]][data[n]])
          = (IF n = 0 THEN 65535 ELSE SerialByte(g[n - 1], data[n]))
    BY <2>1, <1>6
  <2> QED
    BY <2>2, <1>3, SMTT(30)
<1> HIDE DEF P
<1>8. P(f)
  BY <1>7
<1> USE DEF P
<1>9. serial_crc16_mcrf4xx(data) = Reflected(f[Len(data)], 16)
  BY DEF serial_crc16_mcrf4xx
<1> HIDE DEF f
<1>10. /\ f[0] = 65535
       /\ \A n \in 1 .. Len(data) : f[n] = SerialByte(f[n - 1], data[n])
  BY <1>0, <1>8
<1>11. IsRunOf(f, G, 65535, data)
  <2> DEFINE T == {i \in Nat : i <= Len(data) => f[i] = g[i]}
  <2>1. 0 \in T
    BY <1>4, <1>10 DEF IsRunOf
  <2>2. ASSUME NEW i \in Nat, i \in T PROVE i + 1 \in T
    <3> SUFFICES ASSUME i + 1 <= Len(data) PROVE f[i + 1] = g[i + 1]
      OBVIOUS
    <3>1. f[i] = g[i] /\ i + 1 \in 1 .. Len(data) /\ (i + 1) - 1 = i
      BY <1>0, <2>2
    <3>2. f[i + 1] = SerialByte(g[i], data[i + 1])
      BY <3>1, <1>10
    <3>3. g[i + 1] = G[g[i]][data[i + 1]]
      BY <3>1, <1>4 DEF IsRunOf
    <3> QED
      BY <3>1, <3>2, <3>3, <1>6
  <2> HIDE DEF T
  <2>3. Nat \subseteq T
    BY <2>1, <2>2, Induct
  <2>4. \A i \in 0 .. Len(data) : f[i] = g[i]
    BY <1>0, <2>3 DEF T
  <2>5. \A i \in 1 .. Len(data) : i \in 0 .. Len(data) /\ i - 1 \in 0 .. Len(data)
    BY <1>0
  <2> QED
    BY <1>0, <1>4, <2>4, <2>5, <1>10 DEF IsRunOf
<1> QED
  BY <1>2, <1>9, <1>11, FoldedIs DEF G

LEMMA SerialIsRegister ==
  ASSUME NEW s \in Seq(Byte)
  PROVE  serial_crc16_mcrf4xx(s) = Low16(Register16(s))
<1> DEFINE f == [r \in Register(16) |-> High16(r)]
<1>1. f \in [Register(16) -> Highs]
  BY DEF Highs
<1>2. ASSUME NEW r \in Register(16), NEW m \in Byte
      PROVE  f[Eight(16, Poly16, r, LowBits[m])] = SerialStep[f[r]][m]
  <2>1. Eight(16, Poly16, r, LowBits[m]) \in Register(16)
    BY BitsOfBytes, Poly16Is, EightType
  <2>2. SerialStep[High16(r)][m] = SerialByte(High16(r), m)
    BY DEF SerialStep, Highs
  <2> QED
    BY <2>1, <2>2, SerialTakes
<1>3. PICK t \in Register(16) : t = Register16(s)
  BY Register16Takes
<1>4. f[Ones(16)] = 65535 /\ f[t] = High16(t)
  BY OnesAre, Register16Takes
<1> HIDE DEF f
<1>10. /\ 16 \in Nat /\ 16 >= 1 /\ Poly16 \in Register(16) /\ LowBits \in [Byte -> Octet]
       /\ StepsOver(SerialStep, Highs, Byte) /\ IsStepOf(SerialStep, f, 16, Poly16, LowBits)
  BY <1>2, Poly16Is, BitsOfBytes, SerialTakes DEF StepsOver, IsStepOf
<1>11. ImageAfter(SerialStep, f, 16, Poly16, LowBits, s)
  BY ONLY <1>1, <1>10, s \in Seq(Byte), RegisterIsImage
<1>5. Folded(SerialStep, f[Ones(16)], s) = f[Register16(s)]
  BY ONLY <1>11 DEF ImageAfter, Register16
<1>6. serial_crc16_mcrf4xx(s) = Reflected(High16(t), 16)
  BY <1>3, <1>4, <1>5, SerialIsFold
<1>7. PICK a \in Octet, b \in Octet : a = Part(t, 0) /\ b = Part(t, 8)
  BY Parts16
<1>8. Reflected(HalfOf(Mirrored(a), Mirrored(b)), 16)
        = HalfOf(Mirrored(Mirrored(b)), Mirrored(Mirrored(a)))
  BY MirroredType, ReflectedHalf
<1>9. Mirrored(Mirrored(b)) = b /\ Mirrored(Mirrored(a)) = a
  BY MirroredType
<1> QED
  BY ONLY <1>3, <1>6, <1>7, <1>8, <1>9 DEF High16, Low16

-----------------------------------------------------------------------------
(* How the entries of a table follow from one another.                     *)

\* One place on, for bits of which the last is 0; and its last bit set.
Down(c) == [i \in 1 .. 8 |-> IF i = 1 THEN 0 ELSE c[i - 1]]
WithLast(c) == [i \in 1 .. 8 |-> IF i = 8 THEN 1 ELSE c[i]]

\* All bits are reached from none by these two steps.
LEMMA OctetsReached ==
  ASSUME NEW G, NoBits \in G,
         \A c \in Octet : c[8] = 0 /\ Down(c) \in G => c \in G,
         \A c \in Octet : c[8] = 0 /\ c \in G => WithLast(c) \in G
  PROVE  \A c \in Octet : c \in G
<1> DEFINE Begins(c, n) == \A i \in 1 .. n : c[i] = 0
           T == {k \in Nat : k <= 8 => \A c \in Octet : Begins(c, 8 - k) => c \in G}
<1>1. 0 \in T
  <2> SUFFICES ASSUME NEW c \in Octet, Begins(c, 8 - 0) PROVE c \in G
    OBVIOUS
  <2>1. c = [i \in 1 .. 8 |-> 0]
    BY DEF Octet
  <2> QED
    BY <2>1 DEF NoBits
<1>2. ASSUME NEW k \in Nat, k \in T PROVE k + 1 \in T
  <2> SUFFICES ASSUME k + 1 <= 8, NEW c \in Octet, Begins(c, 8 - (k + 1)) PROVE c \in G
    OBVIOUS
  <2>1. PICK n \in 0 .. 7 : n = 8 - (k + 1) /\ n + 1 = 8 - k
    OBVIOUS
  <2>2. \A d \in Octet : Begins(d, n + 1) => d \in G
    BY <1>2, <2>1
  <2>3. \A i \in 1 .. n : c[i] = 0
    BY <2>1
  <2>4. PICK d \in Octet : d = [i \in 1 .. 8 |-> IF i = 8 THEN 0 ELSE c[i]]
    <3>1. [i \in 1 .. 8 |-> IF i = 8 THEN 0 ELSE c[i]] \in Octet
      BY DEF Octet, Bit
    <3> QED
      BY <3>1
  <2>5. Down(d) \in Octet
    <3>1. ASSUME NEW i \in 1 .. 8 PROVE (IF i = 1 THEN 0 ELSE d[i - 1]) \in Bit
      <4>1. i # 1 => i - 1 \in 1 .. 8
        OBVIOUS
      <4> QED
        BY <4>1 DEF Octet, Bit
    <3> QED
      BY <3>1 DEF Down, Octet
  <2>6. Begins(Down(d), n + 1)
    <3> SUFFICES ASSUME NEW i \in 1 .. n + 1 PROVE Down(d)[i] = 0
      OBVIOUS
    <3>1. CASE i = 1
      BY <3>1 DEF Down
    <3>2. CASE i # 1
      <4>1. PICK j \in 1 .. n : j = i - 1 /\ j \in 1 .. 8 /\ i \in 1 .. 8
        BY <3>2
      <4>2. Down(d)[i] = d[j]
        BY <3>2, <4>1 DEF Down
      <4>3. d[j] = IF j = 8 THEN 0 ELSE c[j]
        BY <2>4, <4>1
      <4> QED
        BY <2>3, <4>2, <4>3
    <3> QED
      BY <3>1, <3>2
  <2>7. d[8] = 0 /\ d \in G
    <3>1. d[8] = 0 /\ Down(d) \in G
      BY <2>2, <2>4, <2>5, <2>6
    <3> QED
      BY <3>1
  <2>8. CASE c[8] = 0
    <3>1. d = [i \in 1 .. 8 |-> c[i]]
      BY <2>4, <2>8
    <3>2. d = c
      BY <3>1 DEF Octet
    <3> QED
      BY <2>7, <3>2
  <2>9. CASE c[8] = 1
    <3>1. WithLast(d) = [i \in 1 .. 8 |-> c[i]]
      BY <2>4, <2>9 DEF WithLast
    <3>2. WithLast(d) = c
      BY <3>1 DEF Octet
    <3> QED
      BY <2>7, <3>2
  <2> QED
    BY <2>8, <2>9 DEF Octet, Bit
<1> HIDE DEF T
<1>3. Nat \subseteq T
  BY <1>1, <1>2, Induct
<1>4. 8 \in T
  BY <1>3
<1>5. \A c \in Octet : Begins(c, 8 - 8) => c \in G
  BY <1>4 DEF T
<1> QED
  BY <1>5

LEMMA EntryIs ==
  ASSUME NEW W, NEW p, NEW c
  PROVE  Entry(W, p, c) = Fed(W, p, Fed(W, p, Fed(W, p, Fed(W, p,
           Fed(W, p, Fed(W, p, Fed(W, p, Fed(W, p, AtFront(W, c), 0), 0), 0), 0), 0), 0), 0), 0)
<1>1. /\ NoBits[1] = 0 /\ NoBits[2] = 0 /\ NoBits[3] = 0 /\ NoBits[4] = 0
      /\ NoBits[5] = 0 /\ NoBits[6] = 0 /\ NoBits[7] = 0 /\ NoBits[8] = 0
  BY DEF NoBits
<1> QED
  BY ONLY <1>1 DEF Entry, Eight

LEMMA EntryType ==
  ASSUME NEW W \in Nat, W >= 8, NEW p \in Register(W), NEW c \in Octet
  PROVE  Entry(W, p, c) \in Register(W)
<1>1. AtFront(W, c) \in Register(W)
  BY FrontType
<1>2. NoBits \in Octet
  BY DEF NoBits, Octet, Bit
<1> QED
  BY <1>1, <1>2, EightType DEF Entry

\* Down the entries: one step of the register.
LEMMA EntryDown ==
  ASSUME NEW W \in Nat, W >= 8, NEW p \in Register(W), NEW c \in Octet, c[8] = 0
  PROVE  Fed(W, p, Entry(W, p, Down(c)), 0) = Entry(W, p, c)
<1>1. Down(c) \in Octet
  <2>1. ASSUME NEW i \in 1 .. 8 PROVE (IF i = 1 THEN 0 ELSE c[i - 1]) \in Bit
    <3>1. i # 1 => i - 1 \in 1 .. 8
      OBVIOUS
    <3> QED
      BY <3>1 DEF Octet, Bit
  <2> QED
    BY <2>1 DEF Down, Octet
<1>2. PICK x \in Register(W) : x = AtFront(W, Down(c))
  BY <1>1, FrontType
<1>3. x[1] = 0
  BY <1>2 DEF AtFront, Down
<1>4. Fed(W, p, x, 0) = MovedBy(W, x, 1)
  BY <1>3, FedIs
<1>5. MovedBy(W, x, 1) = AtFront(W, c)
  <2>1. ASSUME NEW j \in 1 .. W
        PROVE  (IF j + 1 <= W THEN x[j + 1] ELSE 0) = IF j <= 8 THEN c[j] ELSE 0
    <3>1. CASE j <= 7
      <4>1. PICK k \in 1 .. W : k = j + 1 /\ k - 1 = j /\ k # 1 /\ k <= 8 /\ k \in 1 .. 8
        BY <3>1
      <4>2. x[k] = c[k - 1]
        BY <1>2, <4>1 DEF AtFront, Down
      <4> QED
        BY <3>1, <4>1, <4>2
    <3>2. CASE j > 7
      <4>1. j + 1 <= W => x[j + 1] = 0
        <5> SUFFICES ASSUME j + 1 <= W PROVE x[j + 1] = 0
          OBVIOUS
        <5>1. PICK k \in 1 .. W : k = j + 1 /\ ~(k <= 8)
          BY <3>2
        <5>2. x[k] = 0
          BY <1>2, <5>1 DEF AtFront
        <5> QED
          BY <5>1, <5>2
      <4>2. j <= 8 => j = 8
        BY <3>2
      <4> QED
        BY <4>1, <4>2
    <3> QED
      BY <3>1, <3>2
  <2> QED
    BY <2>1 DEF MovedBy, AtFront
<1>6. Entry(W, p, Down(c)) = Fed(W, p, Fed(W, p, Fed(W, p, Fed(W, p,
           Fed(W, p, Fed(W, p, Fed(W, p, Fed(W, p, AtFront(W, Down(c)), 0), 0), 0), 0), 0), 0), 0), 0)
  BY EntryIs
<1>7. Entry(W, p, c) = Fed(W, p, Fed(W, p, Fed(W, p, Fed(W, p,
           Fed(W, p, Fed(W, p, Fed(W, p, Fed(W, p, AtFront(W, c), 0), 0), 0), 0), 0), 0), 0), 0)
  BY EntryIs
<1> QED
  BY ONLY <1>2, <1>4, <1>5, <1>6, <1>7

OnlyLast == WithLast(NoBits)

\* The entry of the last bit alone is the polynomial.
LEMMA EntryOfLast ==
  ASSUME NEW W \in Nat, W >= 8, NEW p \in Register(W)
  PROVE  OnlyLast \in Octet /\ Entry(W, p, OnlyLast) = p
<1>1. OnlyLast \in Octet
  BY DEF OnlyLast, WithLast, NoBits, Octet, Bit
<1>2. PICK r \in Register(W) : r = AtFront(W, OnlyLast)
  BY <1>1, FrontType
<1>3. \A j \in 1 .. W : r[j] = IF j = 8 THEN 1 ELSE 0
  BY <1>2 DEF AtFront, OnlyLast, WithLast, NoBits
<1>4. r = MovedBy(W, r, 0)
  <2>1. MovedBy(W, r, 0) = [j \in 1 .. W |-> r[j]]
    BY DEF MovedBy
  <2> QED
    BY <2>1 DEF Register
<1>5. ASSUME NEW n \in 0 .. 6
      PROVE  Fed(W, p, MovedBy(W, r, n), 0) = MovedBy(W, r, n + 1)
  <2>1. n \in Nat /\ n + 1 <= W /\ n + 1 \in 1 .. W /\ n + 1 # 8
    OBVIOUS
  <2>2. r[n + 1] = 0
    BY <1>3, <2>1
  <2>3. Fed(W, p, MovedBy(W, r, n), r[n + 1]) = MovedBy(W, r, n + 1)
    BY <2>1, FedEqual
  <2> QED
    BY <2>2, <2>3
<1>6. /\ Fed(W, p, MovedBy(W, r, 0), 0) = MovedBy(W, r, 1)
      /\ Fed(W, p, MovedBy(W, r, 1), 0) = MovedBy(W, r, 2)
      /\ Fed(W, p, MovedBy(W, r, 2), 0) = MovedBy(W, r, 3)
      /\ Fed(W, p, MovedBy(W, r, 3), 0) = MovedBy(W, r, 4)
      /\ Fed(W, p, MovedBy(W, r, 4), 0) = MovedBy(W, r, 5)
      /\ Fed(W, p, MovedBy(W, r, 5), 0) = MovedBy(W, r, 6)
      /\ Fed(W, p, MovedBy(W, r, 6), 0) = MovedBy(W, r, 7)
  BY <1>5
<1>7. PICK t \in Register(W) : t = MovedBy(W, r, 7)
  BY MovedType
<1>8. t[1] = 1
  <2>1. 1 \in 1 .. W /\ 1 + 7 <= W /\ 1 + 7 = 8 /\ 8 \in 1 .. W
    OBVIOUS
  <2>2. r[8] = 1
    BY <1>3, <2>1
  <2> QED
    BY <1>7, <2>1, <2>2 DEF MovedBy
<1>9. Fed(W, p, t, 0) = Mix(W, MovedBy(W, t, 1), p)
  BY <1>8, FedIs
<1>10. Mix(W, MovedBy(W, t, 1), p) = p
  <2>1. ASSUME NEW j \in 1 .. W PROVE Plus(MovedBy(W, t, 1)[j], p[j]) = p[j]
    <3>1. MovedBy(W, t, 1)[j] = 0
      <4>1. MovedBy(W, t, 1)[j] = IF j + 1 <= W THEN t[j + 1] ELSE 0
        BY DEF MovedBy
      <4>2. ASSUME j + 1 <= W PROVE t[j + 1] = 0
        <5>1. PICK k \in 1 .. W : k = j + 1
          BY <4>2
        <5>2. t[k] = IF k + 7 <= W THEN r[k + 7] ELSE 0
          BY <1>7 DEF MovedBy
        <5>3. ASSUME k + 7 <= W PROVE r[k + 7] = 0
          <6>1. PICK m \in 1 .. W : m = k + 7 /\ m # 8
            BY <5>1, <5>3
          <6>2. r[m] = 0
            BY <1>3, <6>1
          <6> QED
            BY <6>1, <6>2
        <5> QED
          BY <5>1, <5>2, <5>3
      <4> QED
        BY <4>1, <4>2
    <3>2. p[j] \in Bit
      BY DEF Register
    <3> QED
      BY <3>1, <3>2 DEF Plus, Bit
  <2>2. Mix(W, MovedBy(W, t, 1), p) = [j \in 1 .. W |-> p[j]]
    BY <2>1 DEF Mix
  <2> QED
    BY <2>2 DEF Register
<1>11. Entry(W, p, OnlyLast) = Fed(W, p, Fed(W, p, Fed(W, p, Fed(W, p,
           Fed(W, p, Fed(W, p, Fed(W, p, Fed(W, p, AtFront(W, OnlyLast), 0), 0), 0), 0), 0), 0), 0), 0)
  BY EntryIs
<1> QED
  BY ONLY <1>1, <1>2, <1>4, <1>6, <1>7, <1>9, <1>10, <1>11

\* Across the entries: the polynomial added.
LEMMA EntryWithLast ==
  ASSUME NEW W \in Nat, W >= 8, NEW p \in Register(W), NEW c \in Octet, c[8] = 0
  PROVE  Entry(W, p, WithLast(c)) = Mix(W, Entry(W, p, c), p)
<1>1. PICK x \in Register(W), y \in Register(W) : x = AtFront(W, c) /\ y = AtFront(W, OnlyLast)
  BY EntryOfLast, FrontType
<1>2. Mix(W, x, y) = AtFront(W, WithLast(c))
  <2>1. ASSUME NEW j \in 1 .. W
        PROVE  Plus(x[j], y[j]) = IF j <= 8 THEN WithLast(c)[j] ELSE 0
    <3>1. CASE j > 8
      BY <1>1, <3>1 DEF AtFront, Plus
    <3>2. CASE j = 8
      BY <1>1, <3>2 DEF AtFront, Plus, OnlyLast, WithLast, NoBits
    <3>3. CASE j < 8
      <4>1. j \in 1 .. 8 /\ c[j] \in Bit
        BY <3>3 DEF Octet
      <4>2. x[j] = c[j] /\ y[j] = 0 /\ WithLast(c)[j] = c[j]
        BY <1>1, <3>3, <4>1 DEF AtFront, OnlyLast, WithLast, NoBits
      <4> QED
        BY <3>3, <4>1, <4>2 DEF Plus, Bit
    <3> QED
      BY <3>1, <3>2, <3>3
  <2> QED
    BY <2>1 DEF Mix, AtFront
<1>3. SumBits(NoBits, NoBits) = NoBits /\ NoBits \in Octet
  BY DEF SumBits, NoBits, Plus, Octet, Bit
<1>4. Eight(W, p, Mix(W, x, y), SumBits(NoBits, NoBits))
        = Mix(W, Eight(W, p, x, NoBits), Eight(W, p, y, NoBits))
  BY <1>3, EightSum
<1>5. Entry(W, p, OnlyLast) = p
  BY EntryOfLast
<1> QED
  BY ONLY <1>1, <1>2, <1>3, <1>4, <1>5 DEF Entry

LEMMA EntryOfNone ==
  ASSUME NEW W \in Nat, W >= 8, NEW p \in Register(W)
  PROVE  Entry(W, p, NoBits) = [j \in 1 .. W |-> 0]
<1>1. PICK z \in Register(W) : z = [j \in 1 .. W |-> 0]
  <2>1. [j \in 1 .. W |-> 0] \in Register(W)
    BY DEF Register, Bit
  <2> QED
    BY <2>1
<1>2. AtFront(W, NoBits) = z
  BY <1>1 DEF AtFront, NoBits
<1>3. Fed(W, p, z, 0) = z
  <2>1. z[1] = 0
    BY <1>1
  <2>2. Fed(W, p, z, 0) = MovedBy(W, z, 1)
    BY <2>1, FedIs
  <2>3. \A j \in 1 .. W : j + 1 <= W => z[j + 1] = 0
    BY <1>1
  <2>4. MovedBy(W, z, 1) = z
    BY <1>1, <2>3 DEF MovedBy
  <2> QED
    BY <2>2, <2>4
<1>4. Entry(W, p, NoBits) = Fed(W, p, Fed(W, p, Fed(W, p, Fed(W, p,
           Fed(W, p, Fed(W, p, Fed(W, p, Fed(W, p, AtFront(W, NoBits), 0), 0), 0), 0), 0), 0), 0), 0)
  BY EntryIs
<1> QED
  BY ONLY <1>1, <1>2, <1>3, <1>4

-----------------------------------------------------------------------------
(* Exclusive or as arithmetic, to compare the entries of a table.          *)

\* What x ^ m adds to x at the bit of weight w.
Change(x, m, w) ==
  IF (m \div w) % 2 = 0 THEN 0 ELSE IF (x \div w) % 2 = 0 THEN w ELSE -w

Flipped(x, m) ==
  x + Change(x, m, 1) + Change(x, m, 2) + Change(x, m, 4) + Change(x, m, 8) + Change(x, m, 16)
    + Change(x, m, 32) + Change(x, m, 64) + Change(x, m, 128) + Change(x, m, 256)
    + Change(x, m, 512) + Change(x, m, 1024) + Change(x, m, 2048) + Change(x, m, 4096)
    + Change(x, m, 8192) + Change(x, m, 16384) + Change(x, m, 32768)

\* The number of sixteen digits.
HalfOfDigits(x) ==
  256 * (Digit(x, 9) + 2 * Digit(x, 10) + 4 * Digit(x, 11) + 8 * Digit(x, 12)
    + 16 * Digit(x, 13) + 32 * Digit(x, 14) + 64 * Digit(x, 15) + 128 * Digit(x, 16))
    + (Digit(x, 1) + 2 * Digit(x, 2) + 4 * Digit(x, 3) + 8 * Digit(x, 4)
    + 16 * Digit(x, 5) + 32 * Digit(x, 6) + 64 * Digit(x, 7) + 128 * Digit(x, 8))

LEMMA HalfIsDigits ==
  ASSUME NEW x \in Half
  PROVE  x = HalfOfDigits(x) /\ \A i \in 1 .. 16 : Digit(x, i) \in Bit
<1>1. PICK a \in Octet, b \in Octet : x = HalfOf(a, b)
  BY HalfHasBits
<1>2. \A i \in 1 .. 16 : Digit(x, i) = IF i <= 8 THEN b[i] ELSE a[i - 8]
  BY <1>1, DigitOfHalf
<1>3. /\ Digit(x, 1) = b[1] /\ Digit(x, 2) = b[2] /\ Digit(x, 3) = b[3]
      /\ Digit(x, 4) = b[4] /\ Digit(x, 5) = b[5] /\ Digit(x, 6) = b[6]
      /\ Digit(x, 7) = b[7] /\ Digit(x, 8) = b[8]
  BY <1>2
<1>4. /\ Digit(x, 9) = a[1] /\ Digit(x, 10) = a[2] /\ Digit(x, 11) = a[3]
      /\ Digit(x, 12) = a[4] /\ Digit(x, 13) = a[5] /\ Digit(x, 14) = a[6]
      /\ Digit(x, 15) = a[7] /\ Digit(x, 16) = a[8]
  BY <1>2
<1>5. x = HalfOfDigits(x)
  BY ONLY <1>1, <1>3, <1>4 DEF HalfOf, ByteOf, HalfOfDigits
<1>6. ASSUME NEW i \in 1 .. 16 PROVE Digit(x, i) \in Bit
  <2>1. i <= 8 => i \in 1 .. 8
    OBVIOUS
  <2>2. ~(i <= 8) => i - 8 \in 1 .. 8
    OBVIOUS
  <2> QED
    BY <1>2, <2>1, <2>2 DEF Octet
<1> QED
  BY <1>5, <1>6

LEMMA DigitOfXor ==
  ASSUME NEW x \in Half, NEW m \in Half, NEW i \in 1 .. 16
  PROVE  Digit(Xor16(x, m), i) = Plus(Digit(x, i), Digit(m, i))
<1>1. PICK a \in Octet, b \in Octet : x = HalfOf(a, b)
  BY HalfHasBits
<1>2. PICK c \in Octet, d \in Octet : m = HalfOf(c, d)
  BY HalfHasBits
<1>3. PICK p \in Octet, q \in Octet : p = SumBits(a, c) /\ q = SumBits(b, d)
  BY SumBitsType
<1>4. Xor16(x, m) = HalfOf(p, q)
  BY <1>1, <1>2, <1>3, XorOfHalves
<1>5. CASE i <= 8
  <2>1. i \in 1 .. 8
    BY <1>5
  <2>2. Digit(HalfOf(p, q), i) = q[i] /\ Digit(x, i) = b[i] /\ Digit(m, i) = d[i]
    BY <1>1, <1>2, <1>5, DigitOfHalf
  <2> QED
    BY <1>3, <1>4, <2>1, <2>2 DEF SumBits
<1>6. CASE ~(i <= 8)
  <2>1. PICK k \in 1 .. 8 : k = i - 8
    BY <1>6
  <2>2. Digit(HalfOf(p, q), i) = p[k] /\ Digit(x, i) = a[k] /\ Digit(m, i) = c[k]
    BY <1>1, <1>2, <1>6, <2>1, DigitOfHalf
  <2> QED
    BY <1>3, <1>4, <2>2 DEF SumBits
<1> QED
  BY <1>5, <1>6

IsChange(x, m, i, w) == Change(x, m, w) = w * Digit(Xor16(x, m), i) - w * Digit(x, i)

LEMMA ChangeIs ==
  ASSUME NEW x \in Half, NEW m \in Half, NEW i \in 1 .. 16, NEW w \in Nat, w = 2 ^ (i - 1)
  PROVE  IsChange(x, m, i, w)
<1>2. PICK u \in Bit, v \in Bit : u = Digit(x, i) /\ v = Digit(m, i)
  BY HalfIsDigits
<1>3. Digit(Xor16(x, m), i) = Plus(u, v)
  BY <1>2, DigitOfXor
<1>4. Change(x, m, w) = IF v = 0 THEN 0 ELSE IF u = 0 THEN w ELSE -w
  BY <1>2 DEF Change, Digit
<1>5. (IF v = 0 THEN 0 ELSE IF u = 0 THEN w ELSE -w) = w * Plus(u, v) - w * u
  <2>1. w * 0 = 0 /\ w * 1 = w /\ w - w = 0 /\ 0 - w = -w /\ w - 0 = w /\ 0 - 0 = 0
    OBVIOUS
  <2> QED
    BY ONLY <2>1, u \in Bit, v \in Bit DEF Plus, Bit
<1> QED
  BY <1>2, <1>3, <1>4, <1>5 DEF IsChange

LEMMA XorIsFlipped ==
  ASSUME NEW x \in Half, NEW m \in Half
  PROVE  Xor16(x, m) = Flipped(x, m)
<1>1. PICK y \in Half : y = Xor16(x, m)
  BY Xor16Type
<1>2. \A i \in 1 .. 16 : \A w \in Nat : w = 2 ^ (i - 1) => IsChange(x, m, i, w)
  BY ChangeIs
<1>3. /\ 2 ^ (1 - 1) = 1 /\ 2 ^ (2 - 1) = 2 /\ 2 ^ (3 - 1) = 4 /\ 2 ^ (4 - 1) = 8
      /\ 2 ^ (5 - 1) = 16 /\ 2 ^ (6 - 1) = 32 /\ 2 ^ (7 - 1) = 64 /\ 2 ^ (8 - 1) = 128
      /\ 2 ^ (9 - 1) = 256 /\ 2 ^ (10 - 1) = 512 /\ 2 ^ (11 - 1) = 1024
      /\ 2 ^ (12 - 1) = 2048 /\ 2 ^ (13 - 1) = 4096 /\ 2 ^ (14 - 1) = 8192
      /\ 2 ^ (15 - 1) = 16384 /\ 2 ^ (16 - 1) = 32768
  OBVIOUS
<1>4. /\ IsChange(x, m, 1, 1) /\ IsChange(x, m, 2, 2) /\ IsChange(x, m, 3, 4)
      /\ IsChange(x, m, 4, 8) /\ IsChange(x, m, 5, 16) /\ IsChange(x, m, 6, 32)
      /\ IsChange(x, m, 7, 64) /\ IsChange(x, m, 8, 128) /\ IsChange(x, m, 9, 256)
      /\ IsChange(x, m, 10, 512) /\ IsChange(x, m, 11, 1024) /\ IsChange(x, m, 12, 2048)
      /\ IsChange(x, m, 13, 4096) /\ IsChange(x, m, 14, 8192) /\ IsChange(x, m, 15, 16384)
      /\ IsChange(x, m, 16, 32768)
  BY <1>2, <1>3
<1>5. PICK x1 \in Int, x2 \in Int, x3 \in Int, x4 \in Int, x5 \in Int, x6 \in Int,
           x7 \in Int, x8 \in Int, x9 \in Int, x10 \in Int, x11 \in Int, x12 \in Int,
           x13 \in Int, x14 \in Int, x15 \in Int, x16 \in Int :
        /\ x1 = Digit(x, 1) /\ x2 = Digit(x, 2) /\ x3 = Digit(x, 3) /\ x4 = Digit(x, 4)
        /\ x5 = Digit(x, 5) /\ x6 = Digit(x, 6) /\ x7 = Digit(x, 7) /\ x8 = Digit(x, 8)
        /\ x9 = Digit(x, 9) /\ x10 = Digit(x, 10) /\ x11 = Digit(x, 11)
        /\ x12 = Digit(x, 12) /\ x13 = Digit(x, 13) /\ x14 = Digit(x, 14)
        /\ x15 = Digit(x, 15) /\ x16 = Digit(x, 16)
  <2>1. \A i \in 1 .. 16 : Digit(x, i) \in Int
    BY HalfIsDigits DEF Bit
  <2>2. /\ Digit(x, 1) \in Int /\ Digit(x, 2) \in Int /\ Digit(x, 3) \in Int
        /\ Digit(x, 4) \in Int /\ Digit(x, 5) \in Int /\ Digit(x, 6) \in Int
        /\ Digit(x, 7) \in Int /\ Digit(x, 8) \in Int /\ Digit(x, 9) \in Int
        /\ Digit(x, 10) \in Int /\ Digit(x, 11) \in Int /\ Digit(x, 12) \in Int
        /\ Digit(x, 13) \in Int /\ Digit(x, 14) \in Int /\ Digit(x, 15) \in Int
        /\ Digit(x, 16) \in Int
    BY <2>1
  <2> QED
    BY ONLY <2>2
<1>6. PICK y1 \in Int, y2 \in Int, y3 \in Int, y4 \in Int, y5 \in Int, y6 \in Int,
           y7 \in Int, y8 \in Int, y9 \in Int, y10 \in Int, y11 \in Int, y12 \in Int,
           y13 \in Int, y14 \in Int, y15 \in Int, y16 \in Int :
        /\ y1 = Digit(y, 1) /\ y2 = Digit(y, 2) /\ y3 = Digit(y, 3) /\ y4 = Digit(y, 4)
        /\ y5 = Digit(y, 5) /\ y6 = Digit(y, 6) /\ y7 = Digit(y, 7) /\ y8 = Digit(y, 8)
        /\ y9 = Digit(y, 9) /\ y10 = Digit(y, 10) /\ y11 = Digit(y, 11)
        /\ y12 = Digit(y, 12) /\ y13 = Digit(y, 13) /\ y14 = Digit(y, 14)
        /\ y15 = Digit(y, 15) /\ y16 = Digit(y, 16)
  <2>1. \A i \in 1 .. 16 : Digit(y, i) \in Int
    BY HalfIsDigits DEF Bit
  <2>2. /\ Digit(y, 1) \in Int /\ Digit(y, 2) \in Int /\ Digit(y, 3) \in Int
        /\ Digit(y, 4) \in Int /\ Digit(y, 5) \in Int /\ Digit(y, 6) \in Int
        /\ Digit(y, 7) \in Int /\ Digit(y, 8) \in Int /\ Digit(y, 9) \in Int
        /\ Digit(y, 10) \in Int /\ Digit(y, 11) \in Int /\ Digit(y, 12) \in Int
        /\ Digit(y, 13) \in Int /\ Digit(y, 14) \in Int /\ Digit(y, 15) \in Int
        /\ Digit(y, 16) \in Int
    BY <2>1
  <2> QED
    BY ONLY <2>2
<1>7. x = 256 * (x9 + 2 * x10 + 4 * x11 + 8 * x12 + 16 * x13 + 32 * x14 + 64 * x15
          + 128 * x16) + (x1 + 2 * x2 + 4 * x3 + 8 * x4 + 16 * x5 + 32 * x6 + 64 * x7
          + 128 * x8)
  BY ONLY <1>5, x \in Half, HalfIsDigits DEF HalfOfDigits
<1>8. y = 256 * (y9 + 2 * y10 + 4 * y11 + 8 * y12 + 16 * y13 + 32 * y14 + 64 * y15
          + 128 * y16) + (y1 + 2 * y2 + 4 * y3 + 8 * y4 + 16 * y5 + 32 * y6 + 64 * y7
          + 128 * y8)
  BY ONLY <1>6, y \in Half, HalfIsDigits DEF HalfOfDigits
<1>9. Flipped(x, m) = x + (1 * y1 - 1 * x1) + (2 * y2 - 2 * x2) + (4 * y3 - 4 * x3)
        + (8 * y4 - 8 * x4) + (16 * y5 - 16 * x5) + (32 * y6 - 32 * x6)
        + (64 * y7 - 64 * x7) + (128 * y8 - 128 * x8) + (256 * y9 - 256 * x9)
        + (512 * y10 - 512 * x10) + (1024 * y11 - 1024 * x11)
        + (2048 * y12 - 2048 * x12) + (4096 * y13 - 4096 * x13)
        + (8192 * y14 - 8192 * x14) + (16384 * y15 - 16384 * x15)
        + (32768 * y16 - 32768 * x16)
  BY ONLY <1>1, <1>4, <1>5, <1>6 DEF Flipped, IsChange
<1>10. 256 * (y9 + 2 * y10 + 4 * y11 + 8 * y12 + 16 * y13 + 32 * y14 + 64 * y15
         + 128 * y16) + (y1 + 2 * y2 + 4 * y3 + 8 * y4 + 16 * y5 + 32 * y6 + 64 * y7
         + 128 * y8)
     = 256 * (x9 + 2 * x10 + 4 * x11 + 8 * x12 + 16 * x13 + 32 * x14 + 64 * x15
         + 128 * x16) + (x1 + 2 * x2 + 4 * x3 + 8 * x4 + 16 * x5 + 32 * x6 + 64 * x7
         + 128 * x8)
       + (1 * y1 - 1 * x1) + (2 * y2 - 2 * x2) + (4 * y3 - 4 * x3) + (8 * y4 - 8 * x4)
         + (16 * y5 - 16 * x5) + (32 * y6 - 32 * x6) + (64 * y7 - 64 * x7)
         + (128 * y8 - 128 * x8) + (256 * y9 - 256 * x9) + (512 * y10 - 512 * x10)
         + (1024 * y11 - 1024 * x11) + (2048 * y12 - 2048 * x12)
         + (4096 * y13 - 4096 * x13) + (8192 * y14 - 8192 * x14)
         + (16384 * y15 - 16384 * x15) + (32768 * y16 - 32768 * x16)
  BY ONLY x1 \in Int, y1 \in Int, x2 \in Int, y2 \in Int, x3 \in Int, y3 \in Int,
          x4 \in Int, y4 \in Int, x5 \in Int, y5 \in Int, x6 \in Int, y6 \in Int,
          x7 \in Int, y7 \in Int, x8 \in Int, y8 \in Int, x9 \in Int, y9 \in Int,
          x10 \in Int, y10 \in Int, x11 \in Int, y11 \in Int, x12 \in Int, y12 \in Int,
          x13 \in Int, y13 \in Int, x14 \in Int, y14 \in Int, x15 \in Int, y15 \in Int,
          x16 \in Int, y16 \in Int
<1> QED
  BY ONLY <1>1, <1>7, <1>8, <1>9, <1>10

\* The three generators: only the bits that change.
Flip(x, w) == IF (x \div w) % 2 = 0 THEN w ELSE -w

With33800(x) ==
  x + Flip(x, 8) + Flip(x, 1024) + Flip(x, 32768)
With1217(x) ==
  x + Flip(x, 1) + Flip(x, 64) + Flip(x, 128) + Flip(x, 1024)
With7607(x) ==
  x + Flip(x, 1) + Flip(x, 2) + Flip(x, 4) + Flip(x, 16) + Flip(x, 32) + Flip(x, 128)
    + Flip(x, 256) + Flip(x, 1024) + Flip(x, 2048) + Flip(x, 4096)

LEMMA With33800Is ==
  ASSUME NEW x \in Half
  PROVE  Xor16(x, 33800) = With33800(x)
<1>1. 33800 \in Half /\ x \in Int
  BY DEF Half
<1>2. Xor16(x, 33800) = Flipped(x, 33800)
  BY <1>1, XorIsFlipped
<1>3. /\ Change(x, 33800, 8) = Flip(x, 8) /\ Change(x, 33800, 1024) = Flip(x, 1024)
      /\ Change(x, 33800, 32768) = Flip(x, 32768)
  BY DEF Change, Flip
<1>4. /\ Change(x, 33800, 1) = 0 /\ Change(x, 33800, 2) = 0 /\ Change(x, 33800, 4) = 0
      /\ Change(x, 33800, 16) = 0 /\ Change(x, 33800, 32) = 0 /\ Change(x, 33800, 64) = 0
      /\ Change(x, 33800, 128) = 0 /\ Change(x, 33800, 256) = 0 /\ Change(x, 33800, 512) = 0
      /\ Change(x, 33800, 2048) = 0 /\ Change(x, 33800, 4096) = 0
      /\ Change(x, 33800, 8192) = 0 /\ Change(x, 33800, 16384) = 0
  BY DEF Change
<1>5. PICK t8 \in Int, t1024 \in Int, t32768 \in Int :
        t8 = Flip(x, 8) /\ t1024 = Flip(x, 1024) /\ t32768 = Flip(x, 32768)
  BY DEF Flip
<1>7. Flipped(x, 33800)
        = x + 0 + 0 + 0 + t8 + 0 + 0 + 0 + 0 + 0 + 0 + t1024 + 0 + 0 + 0 + 0 + t32768
  BY ONLY <1>3, <1>4, <1>5 DEF Flipped
<1>8. x + 0 + 0 + 0 + t8 + 0 + 0 + 0 + 0 + 0 + 0 + t1024 + 0 + 0 + 0 + 0 + t32768
        = x + t8 + t1024 + t32768
  BY ONLY <1>1, t8 \in Int, t1024 \in Int, t32768 \in Int
<1> QED
  BY ONLY <1>2, <1>5, <1>7, <1>8 DEF With33800

LEMMA With1217Is ==
  ASSUME NEW x \in Half
  PROVE  Xor16(x, 1217) = With1217(x)
<1>1. 1217 \in Half /\ x \in Int
  BY DEF Half
<1>2. Xor16(x, 1217) = Flipped(x, 1217)
  BY <1>1, XorIsFlipped
<1>3. /\ Change(x, 1217, 1) = Flip(x, 1) /\ Change(x, 1217, 64) = Flip(x, 64)
      /\ Change(x, 1217, 128) = Flip(x, 128) /\ Change(x, 1217, 1024) = Flip(x, 1024)
  BY DEF Change, Flip
<1>4. /\ Change(x, 1217, 2) = 0 /\ Change(x, 1217, 4) = 0 /\ Change(x, 1217, 8) = 0
      /\ Change(x, 1217, 16) = 0 /\ Change(x, 1217, 32) = 0 /\ Change(x, 1217, 256) = 0
      /\ Change(x, 1217, 512) = 0 /\ Change(x, 1217, 2048) = 0 /\ Change(x, 1217, 4096) = 0
      /\ Change(x, 1217, 8192) = 0 /\ Change(x, 1217, 16384) = 0 /\ Change(x, 1217, 32768) = 0
  BY DEF Change
<1>5. PICK t1 \in Int, t64 \in Int, t128 \in Int, t1024 \in Int :
        t1 = Flip(x, 1) /\ t64 = Flip(x, 64) /\ t128 = Flip(x, 128) /\ t1024 = Flip(x, 1024)
  BY DEF Flip
<1>7. Flipped(x, 1217)
        = x + t1 + 0 + 0 + 0 + 0 + 0 + t64 + t128 + 0 + 0 + t1024 + 0 + 0 + 0 + 0 + 0
  BY ONLY <1>3, <1>4, <1>5 DEF Flipped
<1>8. x + t1 + 0 + 0 + 0 + 0 + 0 + t64 + t128 + 0 + 0 + t1024 + 0 + 0 + 0 + 0 + 0
        = x + t1 + t64 + t128 + t1024
  BY ONLY <1>1, t1 \in Int, t64 \in Int, t128 \in Int, t1024 \in Int
<1> QED
  BY ONLY <1>2, <1>5, <1>7, <1>8 DEF With1217

LEMMA With7607Is ==
  ASSUME NEW x \in Half
  PROVE  Xor16(x, 7607) = With7607(x)
<1>1. 7607 \in Half /\ x \in Int
  BY DEF Half
<1>2. Xor16(x, 7607) = Flipped(x, 7607)
  BY <1>1, XorIsFlipped
<1>3. /\ Change(x, 7607, 1) = Flip(x, 1) /\ Change(x, 7607, 2) = Flip(x, 2)
      /\ Change(x, 7607, 4) = Flip(x, 4) /\ Change(x, 7607, 16) = Flip(x, 16)
      /\ Change(x, 7607, 32) = Flip(x, 32) /\ Change(x, 7607, 128) = Flip(x, 128)
      /\ Change(x, 7607, 256) = Flip(x, 256) /\ Change(x, 7607, 1024) = Flip(x, 1024)
      /\ Change(x, 7607, 2048) = Flip(x, 2048) /\ Change(x, 7607, 4096) = Flip(x, 4096)
  BY DEF Change, Flip
<1>4. /\ Change(x, 7607, 8) = 0 /\ Change(x, 7607, 64) = 0 /\ Change(x, 7607, 512) = 0
      /\ Change(x, 7607, 8192) = 0 /\ Change(x, 7607, 16384) = 0 /\ Change(x, 7607, 32768) = 0
  BY DEF Change
<1>5. PICK t1 \in Int, t2 \in Int, t4 \in Int, t16 \in Int, t32 \in Int :
        t1 = Flip(x, 1) /\ t2 = Flip(x, 2) /\ t4 = Flip(x, 4) /\ t16 = Flip(x, 16) /\ t32 = Flip(x, 32)
  BY DEF Flip
<1>6. PICK t128 \in Int, t256 \in Int, t1024 \in Int, t2048 \in Int, t4096 \in Int :
        t128 = Flip(x, 128) /\ t256 = Flip(x, 256) /\ t1024 = Flip(x, 1024) /\ t2048 = Flip(x, 2048) /\ t4096 = Flip(x, 4096)
  BY DEF Flip
<1>7. Flipped(x, 7607)
        = x + t1 + t2 + t4 + 0 + t16 + t32 + 0 + t128 + t256 + 0 + t1024 + t2048 + t4096
        + 0 + 0 + 0
  BY ONLY <1>3, <1>4, <1>5, <1>6 DEF Flipped
<1>8. x + t1 + t2 + t4 + 0 + t16 + t32 + 0 + t128 + t256 + 0 + t1024 + t2048 + t4096
        + 0 + 0 + 0
        = x + t1 + t2 + t4 + t16 + t32 + t128 + t256 + t1024 + t2048 + t4096
  BY ONLY <1>1, t1 \in Int, t2 \in Int, t4 \in Int, t16 \in Int, t32 \in Int, t128 \in Int,
          t256 \in Int, t1024 \in Int, t2048 \in Int, t4096 \in Int
<1> QED
  BY ONLY <1>2, <1>5, <1>6, <1>7, <1>8 DEF With7607

\* A step of the loop over bits.
Shift16(x) == IF x % 2 = 0 THEN x \div 2 ELSE With33800(x \div 2)

LEMMA ShiftIs ==
  ASSUME NEW x \in Half
  PROVE  ShiftStep(x, 0) = Shift16(x)
<1>1. x + 0 = x /\ (x % 2 = 1 <=> ~(x % 2 = 0)) /\ x \div 2 \in Half
  BY DEF Half
<1>2. Xor16(x \div 2, 33800) = With33800(x \div 2)
  BY <1>1, With33800Is
<1> QED
  BY <1>1, <1>2 DEF ShiftStep, Shift16

\* How the entries of crc16.c follow from one another.
LEMMA Table16Down == \A j \in 0 .. 127 : Shift16(crc16_table[1 + 2 * j]) = crc16_table[1 + j]
BY SMTT(60) DEF crc16_table, Shift16, With33800, Flip

LEMMA Table16Across == \A j \in 0 .. 127 : crc16_table[129 + j] = With33800(crc16_table[1 + j])
BY SMTT(60) DEF crc16_table, With33800, Flip

LEMMA Table16First == crc16_table[1] = 0
BY SMTT(60) DEF crc16_table

LEMMA StepType ==
  ASSUME NEW c \in Octet
  PROVE  Down(c) \in Octet /\ WithLast(c) \in Octet
<1>1. ASSUME NEW i \in 1 .. 8 PROVE (IF i = 1 THEN 0 ELSE c[i - 1]) \in Bit
  <2>1. i # 1 => i - 1 \in 1 .. 8
    OBVIOUS
  <2> QED
    BY <2>1 DEF Octet, Bit
<1>2. Down(c) \in Octet
  BY <1>1 DEF Down, Octet
<1>3. WithLast(c) \in Octet
  BY DEF WithLast, Octet, Bit
<1> QED
  BY <1>2, <1>3

\* The bytes of bits of which the last is 0, of the step down and of the step
\* across, with the last bit the highest and with the last bit the lowest.
IsStep(x, c, down, across) == c = x /\ down = 2 * x /\ across = 128 + x
IsChangedStep(y, c, down, across) == c = 2 * y /\ down = y /\ across = 2 * y + 1

LEMMA StepBytes ==
  ASSUME NEW c \in Octet, c[8] = 0
  PROVE  /\ \E x \in 0 .. 127 : IsStep(x, ByteOf(c), ByteOf(Down(c)), ByteOf(WithLast(c)))
         /\ \E y \in 0 .. 127 : IsChangedStep(y, ByteOf(Mirrored(c)), ByteOf(Mirrored(Down(c))),
                                             ByteOf(Mirrored(WithLast(c))))
<1>1. PICK b1 \in 0 .. 1, b2 \in 0 .. 1, b3 \in 0 .. 1, b4 \in 0 .. 1 :
        b1 = c[1] /\ b2 = c[2] /\ b3 = c[3] /\ b4 = c[4]
  BY OctetBits DEF Bit
<1>2. PICK b5 \in 0 .. 1, b6 \in 0 .. 1, b7 \in 0 .. 1 :
        b5 = c[5] /\ b6 = c[6] /\ b7 = c[7]
  BY OctetBits DEF Bit
<1>3. \E x \in 0 .. 127 : IsStep(x, ByteOf(c), ByteOf(Down(c)), ByteOf(WithLast(c)))
  <2> DEFINE z == b1 + 2 * b2 + 4 * b3 + 8 * b4 + 16 * b5 + 32 * b6 + 64 * b7
  <2>1. z \in 0 .. 127
    BY ONLY b1 \in 0 .. 1, b2 \in 0 .. 1, b3 \in 0 .. 1, b4 \in 0 .. 1, b5 \in 0 .. 1,
            b6 \in 0 .. 1, b7 \in 0 .. 1
  <2>2. ByteOf(c) = z
    <3>1. PICK m : m = c
      OBVIOUS
    <3>2. /\ m[1] = b1 /\ m[2] = b2 /\ m[3] = b3 /\ m[4] = b4
          /\ m[5] = b5 /\ m[6] = b6 /\ m[7] = b7 /\ m[8] = 0
      BY <1>1, <1>2, <3>1 DEF Down, WithLast, Mirrored
    <3>3. ByteOf(m) = b1 + 2 * b2 + 4 * b3 + 8 * b4 + 16 * b5 + 32 * b6 + 64 * b7
                        + 128 * 0
      BY ONLY <3>2 DEF ByteOf
    <3>4. b1 + 2 * b2 + 4 * b3 + 8 * b4 + 16 * b5 + 32 * b6 + 64 * b7 + 128 * 0
            = z
      BY ONLY b1 \in 0 .. 1, b2 \in 0 .. 1, b3 \in 0 .. 1, b4 \in 0 .. 1, b5 \in 0 .. 1,
              b6 \in 0 .. 1, b7 \in 0 .. 1
    <3> QED
      BY ONLY <3>1, <3>3, <3>4
  <2>3. ByteOf(Down(c)) = 2 * z
    <3>1. PICK m : m = Down(c)
      OBVIOUS
    <3>2. /\ m[1] = 0 /\ m[2] = b1 /\ m[3] = b2 /\ m[4] = b3
          /\ m[5] = b4 /\ m[6] = b5 /\ m[7] = b6 /\ m[8] = b7
      BY <1>1, <1>2, <3>1 DEF Down, WithLast, Mirrored
    <3>3. ByteOf(m) = 0 + 2 * b1 + 4 * b2 + 8 * b3 + 16 * b4 + 32 * b5 + 64 * b6
                        + 128 * b7
      BY ONLY <3>2 DEF ByteOf
    <3>4. 0 + 2 * b1 + 4 * b2 + 8 * b3 + 16 * b4 + 32 * b5 + 64 * b6 + 128 * b7
            = 2 * z
      BY ONLY b1 \in 0 .. 1, b2 \in 0 .. 1, b3 \in 0 .. 1, b4 \in 0 .. 1, b5 \in 0 .. 1,
              b6 \in 0 .. 1, b7 \in 0 .. 1
    <3> QED
      BY ONLY <3>1, <3>3, <3>4
  <2>4. ByteOf(WithLast(c)) = 128 + z
    <3>1. PICK m : m = WithLast(c)
      OBVIOUS
    <3>2. /\ m[1] = b1 /\ m[2] = b2 /\ m[3] = b3 /\ m[4] = b4
          /\ m[5] = b5 /\ m[6] = b6 /\ m[7] = b7 /\ m[8] = 1
      BY <1>1, <1>2, <3>1 DEF Down, WithLast, Mirrored
    <3>3. ByteOf(m) = b1 + 2 * b2 + 4 * b3 + 8 * b4 + 16 * b5 + 32 * b6 + 64 * b7
                        + 128 * 1
      BY ONLY <3>2 DEF ByteOf
    <3>4. b1 + 2 * b2 + 4 * b3 + 8 * b4 + 16 * b5 + 32 * b6 + 64 * b7 + 128 * 1
            = 128 + z
      BY ONLY b1 \in 0 .. 1, b2 \in 0 .. 1, b3 \in 0 .. 1, b4 \in 0 .. 1, b5 \in 0 .. 1,
              b6 \in 0 .. 1, b7 \in 0 .. 1
    <3> QED
      BY ONLY <3>1, <3>3, <3>4
  <2> HIDE DEF z
  <2> QED
    BY ONLY <2>1, <2>2, <2>3, <2>4 DEF IsStep
<1>4. \E y \in 0 .. 127 : IsChangedStep(y, ByteOf(Mirrored(c)), ByteOf(Mirrored(Down(c))),
                                  ByteOf(Mirrored(WithLast(c))))
  <2> DEFINE z == b7 + 2 * b6 + 4 * b5 + 8 * b4 + 16 * b3 + 32 * b2 + 64 * b1
  <2>1. z \in 0 .. 127
    BY ONLY b1 \in 0 .. 1, b2 \in 0 .. 1, b3 \in 0 .. 1, b4 \in 0 .. 1, b5 \in 0 .. 1,
            b6 \in 0 .. 1, b7 \in 0 .. 1
  <2>2. ByteOf(Mirrored(c)) = 2 * z
    <3>1. PICK m : m = Mirrored(c)
      OBVIOUS
    <3>2. /\ m[1] = 0 /\ m[2] = b7 /\ m[3] = b6 /\ m[4] = b5
          /\ m[5] = b4 /\ m[6] = b3 /\ m[7] = b2 /\ m[8] = b1
      BY <1>1, <1>2, <3>1 DEF Down, WithLast, Mirrored
    <3>3. ByteOf(m) = 0 + 2 * b7 + 4 * b6 + 8 * b5 + 16 * b4 + 32 * b3 + 64 * b2
                        + 128 * b1
      BY ONLY <3>2 DEF ByteOf
    <3>4. 0 + 2 * b7 + 4 * b6 + 8 * b5 + 16 * b4 + 32 * b3 + 64 * b2 + 128 * b1
            = 2 * z
      BY ONLY b1 \in 0 .. 1, b2 \in 0 .. 1, b3 \in 0 .. 1, b4 \in 0 .. 1, b5 \in 0 .. 1,
              b6 \in 0 .. 1, b7 \in 0 .. 1
    <3> QED
      BY ONLY <3>1, <3>3, <3>4
  <2>3. ByteOf(Mirrored(Down(c))) = z
    <3>1. PICK m : m = Mirrored(Down(c))
      OBVIOUS
    <3>2. /\ m[1] = b7 /\ m[2] = b6 /\ m[3] = b5 /\ m[4] = b4
          /\ m[5] = b3 /\ m[6] = b2 /\ m[7] = b1 /\ m[8] = 0
      BY <1>1, <1>2, <3>1 DEF Down, WithLast, Mirrored
    <3>3. ByteOf(m) = b7 + 2 * b6 + 4 * b5 + 8 * b4 + 16 * b3 + 32 * b2 + 64 * b1
                        + 128 * 0
      BY ONLY <3>2 DEF ByteOf
    <3>4. b7 + 2 * b6 + 4 * b5 + 8 * b4 + 16 * b3 + 32 * b2 + 64 * b1 + 128 * 0
            = z
      BY ONLY b1 \in 0 .. 1, b2 \in 0 .. 1, b3 \in 0 .. 1, b4 \in 0 .. 1, b5 \in 0 .. 1,
              b6 \in 0 .. 1, b7 \in 0 .. 1
    <3> QED
      BY ONLY <3>1, <3>3, <3>4
  <2>4. ByteOf(Mirrored(WithLast(c))) = 2 * z + 1
    <3>1. PICK m : m = Mirrored(WithLast(c))
      OBVIOUS
    <3>2. /\ m[1] = 1 /\ m[2] = b7 /\ m[3] = b6 /\ m[4] = b5
          /\ m[5] = b4 /\ m[6] = b3 /\ m[7] = b2 /\ m[8] = b1
      BY <1>1, <1>2, <3>1 DEF Down, WithLast, Mirrored
    <3>3. ByteOf(m) = 1 + 2 * b7 + 4 * b6 + 8 * b5 + 16 * b4 + 32 * b3 + 64 * b2
                        + 128 * b1
      BY ONLY <3>2 DEF ByteOf
    <3>4. 1 + 2 * b7 + 4 * b6 + 8 * b5 + 16 * b4 + 32 * b3 + 64 * b2 + 128 * b1
            = 2 * z + 1
      BY ONLY b1 \in 0 .. 1, b2 \in 0 .. 1, b3 \in 0 .. 1, b4 \in 0 .. 1, b5 \in 0 .. 1,
              b6 \in 0 .. 1, b7 \in 0 .. 1
    <3> QED
      BY ONLY <3>1, <3>3, <3>4
  <2> HIDE DEF z
  <2> QED
    BY ONLY <2>1, <2>2, <2>3, <2>4 DEF IsChangedStep
<1> QED
  BY <1>3, <1>4

\* An entry of crc16.c is the register after the bits of its index.
Indexed16 == {c \in Octet : crc16_table[1 + ByteOf(c)] = Low16(Entry(16, Poly16, c))}

LEMMA Table16IsEntry ==
  \A c \in Octet : crc16_table[1 + ByteOf(c)] = Low16(Entry(16, Poly16, c))
<1>p. Poly16 \in Register(16) /\ Low16(Poly16) = 33800 /\ 16 \in Nat /\ 16 >= 8 /\ 16 >= 1
      /\ 0 \in Bit
  BY Poly16Is DEF Bit
<1>1. NoBits \in Indexed16
  <2>1. PICK z \in Register(16) : z = [j \in 1 .. 16 |-> 0]
    <3>1. [j \in 1 .. 16 |-> 0] \in Register(16)
      BY DEF Register, Bit
    <3> QED
      BY <3>1
  <2>2. Entry(16, Poly16, NoBits) = z
    <3>1. PICK W \in Nat : W = 16 /\ W >= 8 /\ Poly16 \in Register(W)
      BY <1>p
    <3>2. Entry(W, Poly16, NoBits) = [j \in 1 .. W |-> 0]
      BY ONLY W \in Nat, <3>1, EntryOfNone
    <3> QED
      BY ONLY <2>1, <3>1, <3>2
  <2>3. Part(z, 0) = NoBits /\ Part(z, 8) = NoBits
    BY <2>1 DEF Part, NoBits
  <2>4. Low16(z) = 0
    BY <2>3, MirroredNone DEF Low16, HalfOf
  <2>5. ByteOf(NoBits) = 0 /\ 1 + 0 = 1
    BY MirroredNone
  <2>6. NoBits \in Octet
    BY DEF NoBits, Octet, Bit
  <2> QED
    BY <2>2, <2>4, <2>5, <2>6, Table16First DEF Indexed16
<1>2. ASSUME NEW c \in Octet, c[8] = 0, Down(c) \in Indexed16
      PROVE  c \in Indexed16
  <2>1. PICK x \in 0 .. 127 : IsStep(x, ByteOf(c), ByteOf(Down(c)), ByteOf(WithLast(c)))
    BY <1>2, StepBytes
  <2>2. PICK r \in Register(16) : r = Entry(16, Poly16, Down(c))
    BY <1>p, StepType, EntryType
  <2>3. crc16_table[1 + 2 * x] = Low16(r)
    BY <1>2, <2>1, <2>2 DEF Indexed16, IsStep
  <2>4. PICK v \in Nat : v = 0 /\ v % 2 = 0
    OBVIOUS
  <2>5. ShiftStep(Low16(r), v) = Low16(Fed(16, Poly16, r, 0))
    BY <1>p, <2>4, ShiftStepIsFed
  <2>6. Low16(r) \in Half
    BY LowHighType
  <2>7. Shift16(Low16(r)) = Low16(Fed(16, Poly16, r, 0))
    BY <2>4, <2>5, <2>6, ShiftIs
  <2>8. Fed(16, Poly16, r, 0) = Entry(16, Poly16, c)
    BY <1>p, <1>2, <2>2, EntryDown
  <2>9. crc16_table[1 + x] = Shift16(crc16_table[1 + 2 * x])
    BY Table16Down
  <2> QED
    BY <2>1, <2>3, <2>7, <2>8, <2>9 DEF Indexed16, IsStep
<1>3. ASSUME NEW c \in Octet, c[8] = 0, c \in Indexed16
      PROVE  WithLast(c) \in Indexed16
  <2>1. PICK x \in 0 .. 127 : IsStep(x, ByteOf(c), ByteOf(Down(c)), ByteOf(WithLast(c)))
    BY <1>3, StepBytes
  <2>2. PICK r \in Register(16) : r = Entry(16, Poly16, c)
    BY <1>p, EntryType
  <2>3. crc16_table[1 + x] = Low16(r)
    BY <1>3, <2>1, <2>2 DEF Indexed16, IsStep
  <2>4. Low16(r) \in Half
    BY LowHighType
  <2>5. Xor16(Low16(r), 33800) = Low16(Mix(16, r, Poly16))
    BY ONLY <1>p, r \in Register(16), LowHighMix
  <2>6. Entry(16, Poly16, WithLast(c)) = Mix(16, r, Poly16)
    BY <1>p, <1>3, <2>2, EntryWithLast
  <2>7. crc16_table[129 + x] = With33800(crc16_table[1 + x])
    BY Table16Across
  <2>8. With33800(Low16(r)) = Xor16(Low16(r), 33800)
    BY <2>4, With33800Is
  <2>9. 1 + (128 + x) = 129 + x
    OBVIOUS
  <2>10. WithLast(c) \in Octet
    BY StepType
  <2>11. crc16_table[1 + ByteOf(WithLast(c))] = Low16(Entry(16, Poly16, WithLast(c)))
    <3>1. ByteOf(WithLast(c)) = 128 + x
      BY ONLY <2>1 DEF IsStep
    <3> QED
      BY ONLY <2>3, <2>5, <2>6, <2>7, <2>8, <2>9, <3>1
  <2> QED
    BY <2>10, <2>11 DEF Indexed16
<1>4. \A c \in Octet : c \in Indexed16
  BY <1>1, <1>2, <1>3, OctetsReached
<1> QED
  BY <1>4 DEF Indexed16

LEMMA Table16ByteIsEight ==
  ASSUME NEW r \in Register(16), NEW b \in Octet
  PROVE  crc16_byte_cal(Low16(r), ByteOf(b)) = Low16(Eight(16, Poly16, r, b))
<1>p. Poly16 \in Register(16) /\ 16 \in Nat /\ 16 >= 8 /\ 0 \in Nat /\ 8 \in Nat
      /\ 0 + 8 <= 16 /\ 0 + 16 <= 16 /\ 8 + 8 = 16 /\ 8 + 8 <= 16
  BY Poly16Is
<1>1. PICK a \in Octet, d \in Octet : a = Part(r, 0) /\ d = Part(r, 8)
  BY Parts16
<1>2. Low16(r) \div 256 = ByteOf(d) /\ Low16(r) % 256 = ByteOf(a)
  BY <1>1, HalfOfParts DEF Low16
<1>3. PICK c \in Octet : c = SumBits(a, b)
  BY SumBitsType
<1>4. XorByte[ByteOf(a)][ByteOf(b)] = ByteOf(c)
  BY <1>3, XorOfBytes
<1>5. crc16_byte_cal(Low16(r), ByteOf(b)) = Xor16(ByteOf(d), Low16(Entry(16, Poly16, c)))
  BY <1>2, <1>4, Table16IsEntry DEF crc16_byte_cal
<1>6. PICK m \in Register(16) : m = MovedBy(16, r, 8)
  BY <1>p, MovedType
<1>7. Low16(m) = ByteOf(d)
  <2>1. Part(m, 0) = d /\ Part(m, 8) = NoBits
    <3>1. 0 + 8 = 8
      OBVIOUS
    <3> QED
      BY <1>p, <1>1, <1>6, <3>1, PartMoved
  <2>2. Low16(m) = 256 * 0 + ByteOf(d)
    BY <2>1, MirroredNone DEF Low16, HalfOf
  <2>3. ByteOf(d) \in Byte
    BY ByteOfType
  <2> QED
    BY <2>2, <2>3 DEF Byte
<1>8. PICK e \in Register(16) : e = Entry(16, Poly16, c)
  BY <1>p, EntryType
<1>9. Xor16(Low16(m), Low16(e)) = Low16(Mix(16, m, e))
  BY LowHighMix
<1>10. First(r) = a
  <2>1. \A i \in 1 .. 8 : 0 + i = i
    OBVIOUS
  <2> QED
    BY <1>1, <2>1 DEF First, Part
<1>11. Eight(16, Poly16, r, b)
         = Mix(16, Entry(16, Poly16, SumBits(First(r), b)), MovedBy(16, r, 8))
  BY <1>p, EightSplits
<1> QED
  BY <1>3, <1>5, <1>6, <1>7, <1>8, <1>9, <1>10, <1>11, MixCommutes

LEMMA Table16IsRegister ==
  ASSUME NEW s \in Seq(Byte)
  PROVE  crc16_cal(s) = Low16(Register16(s))
<1> DEFINE f == [r \in Register(16) |-> Low16(r)]
<1>1. f \in [Register(16) -> Half]
  BY LowHighType
<1>2. ASSUME NEW r \in Register(16), NEW m \in Byte
      PROVE  f[Eight(16, Poly16, r, LowBits[m])] = Table16Step[f[r]][m]
  <2>1. PICK b \in Octet : b = LowBits[m] /\ ByteOf(b) = m
    BY BitsOfBytes
  <2>2. Eight(16, Poly16, r, b) \in Register(16)
    BY Poly16Is, EightType
  <2>3. crc16_byte_cal(Low16(r), m) = Low16(Eight(16, Poly16, r, b))
    BY <2>1, Table16ByteIsEight
  <2>4. Table16Step[Low16(r)][m] = crc16_byte_cal(Low16(r), m)
    BY LowHighType DEF Table16Step
  <2> QED
    BY <2>1, <2>2, <2>3, <2>4
<1>3. f[Ones(16)] = 65535 /\ f[Register16(s)] = Low16(Register16(s))
  BY OnesAre, Register16Takes
<1> HIDE DEF f
<1>4. /\ 16 \in Nat /\ 16 >= 1 /\ Poly16 \in Register(16) /\ LowBits \in [Byte -> Octet]
      /\ StepsOver(Table16Step, Half, Byte) /\ IsStepOf(Table16Step, f, 16, Poly16, LowBits)
  BY <1>2, Poly16Is, BitsOfBytes, Table16Takes DEF StepsOver, IsStepOf
<1>5. ImageAfter(Table16Step, f, 16, Poly16, LowBits, s)
  BY ONLY <1>1, <1>4, s \in Seq(Byte), RegisterIsImage
<1>6. 65535 \in Half
  BY DEF Half
<1> QED
  BY <1>3, <1>5, <1>6, Table16IsFold DEF ImageAfter, Register16, crc16_cal

-----------------------------------------------------------------------------
(* CRC-32: the register begins with its highest bit.                       *)

\* Sixteen bits of a register, and the two halves of its word.
Halved(r, n) == [j \in 1 .. 16 |-> r[n + j]]
Upper32(r) == High16(Halved(r, 0))
Lower32(r) == High16(Halved(r, 16))
Word32(r) == <<Upper32(r), Lower32(r)>>

Poly32 == [j \in 1 .. 32 |->
  IF j \in {6, 9, 10, 16, 20, 21, 22, 24, 25, 27, 28, 30, 31, 32} THEN 1 ELSE 0]

LEMMA Poly32Is == Poly32 \in Register(32) /\ Upper32(Poly32) = 1217 /\ Lower32(Poly32) = 7607
<1>1. Poly32 \in Register(32)
  BY DEF Poly32, Register, Bit
<1>2. Upper32(Poly32) = 1217
  BY DEF Poly32, Upper32, Halved, High16, HalfOf, ByteOf, Part, Mirrored
<1>3. Lower32(Poly32) = 7607
  BY DEF Poly32, Lower32, Halved, High16, HalfOf, ByteOf, Part, Mirrored
<1> QED
  BY <1>1, <1>2, <1>3

LEMMA HalvedType ==
  ASSUME NEW r \in Register(32), NEW n \in {0, 16}
  PROVE  Halved(r, n) \in Register(16)
<1>1. ASSUME NEW j \in 1 .. 16 PROVE r[n + j] \in Bit
  <2>1. PICK k \in 1 .. 32 : k = n + j
    OBVIOUS
  <2> QED
    BY <2>1 DEF Register
<1> QED
  BY <1>1 DEF Halved, Register

LEMMA HalvedMix ==
  ASSUME NEW r \in Register(32), NEW t \in Register(32), NEW n \in {0, 16}
  PROVE  Halved(Mix(32, r, t), n) = Mix(16, Halved(r, n), Halved(t, n))
<1>1. ASSUME NEW j \in 1 .. 16
      PROVE  Mix(32, r, t)[n + j] = Plus(Halved(r, n)[j], Halved(t, n)[j])
  <2>1. PICK k \in 1 .. 32 : k = n + j
    OBVIOUS
  <2>2. Mix(32, r, t)[k] = Plus(r[k], t[k])
    BY DEF Mix
  <2>3. Halved(r, n)[j] = r[k] /\ Halved(t, n)[j] = t[k]
    BY <2>1 DEF Halved
  <2> QED
    BY <2>1, <2>2, <2>3
<1> QED
  BY <1>1 DEF Halved, Mix

LEMMA Halves32 ==
  ASSUME NEW r \in Register(32), NEW t \in Register(32)
  PROVE  /\ Upper32(r) \in Half /\ Lower32(r) \in Half /\ Word32(r) \in Word
         /\ Xor16(Upper32(r), Upper32(t)) = Upper32(Mix(32, r, t))
         /\ Xor16(Lower32(r), Lower32(t)) = Lower32(Mix(32, r, t))
<1>1. /\ Halved(r, 0) \in Register(16) /\ Halved(r, 16) \in Register(16)
      /\ Halved(t, 0) \in Register(16) /\ Halved(t, 16) \in Register(16)
  BY HalvedType
<1>2. /\ Halved(Mix(32, r, t), 0) = Mix(16, Halved(r, 0), Halved(t, 0))
      /\ Halved(Mix(32, r, t), 16) = Mix(16, Halved(r, 16), Halved(t, 16))
  BY HalvedMix
<1>3. Upper32(r) \in Half /\ Lower32(r) \in Half
  BY <1>1, LowHighType DEF Upper32, Lower32
<1>4. Word32(r) \in Word
  BY <1>3, WordOf DEF Word32
<1>5. /\ Xor16(High16(Halved(r, 0)), High16(Halved(t, 0)))
           = High16(Mix(16, Halved(r, 0), Halved(t, 0)))
      /\ Xor16(High16(Halved(r, 16)), High16(Halved(t, 16)))
           = High16(Mix(16, Halved(r, 16), Halved(t, 16)))
  BY <1>1, LowHighMix
<1> QED
  BY ONLY <1>2, <1>3, <1>4, <1>5 DEF Upper32, Lower32

\* Another last bit.
Ends(w, b) == [j \in 1 .. 16 |-> IF j = 16 THEN b ELSE w[j]]

LEMMA HighEnds ==
  ASSUME NEW w \in Register(16), w[16] = 0, NEW b \in 0 .. 1
  PROVE  High16(Ends(w, b)) = High16(w) + b
<1>1. PICK w1 \in 0 .. 1, w2 \in 0 .. 1, w3 \in 0 .. 1, w4 \in 0 .. 1 :
        w1 = w[1] /\ w2 = w[2] /\ w3 = w[3] /\ w4 = w[4]
  BY DEF Register, Bit
<1>2. PICK w5 \in 0 .. 1, w6 \in 0 .. 1, w7 \in 0 .. 1, w8 \in 0 .. 1 :
        w5 = w[5] /\ w6 = w[6] /\ w7 = w[7] /\ w8 = w[8]
  BY DEF Register, Bit
<1>3. PICK w9 \in 0 .. 1, w10 \in 0 .. 1, w11 \in 0 .. 1, w12 \in 0 .. 1 :
        w9 = w[9] /\ w10 = w[10] /\ w11 = w[11] /\ w12 = w[12]
  BY DEF Register, Bit
<1>4. PICK w13 \in 0 .. 1, w14 \in 0 .. 1, w15 \in 0 .. 1, z \in 0 .. 1 :
        w13 = w[13] /\ w14 = w[14] /\ w15 = w[15] /\ z = w[16]
  BY DEF Register, Bit
<1>0. z = 0
  BY <1>4
<1>5. PICK e : e = Ends(w, b)
  OBVIOUS
<1>6. /\ w1 = e[1] /\ w2 = e[2] /\ w3 = e[3] /\ w4 = e[4] /\ w5 = e[5] /\ w6 = e[6]
      /\ w7 = e[7] /\ w8 = e[8] /\ w9 = e[9] /\ w10 = e[10] /\ w11 = e[11]
      /\ w12 = e[12] /\ w13 = e[13] /\ w14 = e[14] /\ w15 = e[15] /\ b = e[16]
  BY <1>1, <1>2, <1>3, <1>4, <1>5 DEF Ends
<1>7. High16(e)
        = 256 * (w8 + 2 * w7 + 4 * w6 + 8 * w5 + 16 * w4 + 32 * w3 + 64 * w2 + 128 * w1)
          + (b + 2 * w15 + 4 * w14 + 8 * w13 + 16 * w12 + 32 * w11 + 64 * w10
          + 128 * w9)
  BY ONLY <1>6 DEF High16, HalfOf, ByteOf, Part, Mirrored
<1>8. High16(w)
        = 256 * (w8 + 2 * w7 + 4 * w6 + 8 * w5 + 16 * w4 + 32 * w3 + 64 * w2 + 128 * w1)
          + (z + 2 * w15 + 4 * w14 + 8 * w13 + 16 * w12 + 32 * w11 + 64 * w10
          + 128 * w9)
  BY ONLY <1>1, <1>2, <1>3, <1>4 DEF High16, HalfOf, ByteOf, Part, Mirrored
<1>9. 256 * (w8 + 2 * w7 + 4 * w6 + 8 * w5 + 16 * w4 + 32 * w3 + 64 * w2 + 128 * w1)
        + (b + 2 * w15 + 4 * w14 + 8 * w13 + 16 * w12 + 32 * w11 + 64 * w10 + 128 * w9)
    = (256 * (w8 + 2 * w7 + 4 * w6 + 8 * w5 + 16 * w4 + 32 * w3 + 64 * w2 + 128 * w1)
        + (z + 2 * w15 + 4 * w14 + 8 * w13 + 16 * w12 + 32 * w11 + 64 * w10 + 128 * w9)) + b
  BY ONLY w1 \in 0 .. 1, w2 \in 0 .. 1, w3 \in 0 .. 1, w4 \in 0 .. 1, w5 \in 0 .. 1,
          w6 \in 0 .. 1, w7 \in 0 .. 1, w8 \in 0 .. 1, w9 \in 0 .. 1, w10 \in 0 .. 1,
          w11 \in 0 .. 1, w12 \in 0 .. 1, w13 \in 0 .. 1, w14 \in 0 .. 1,
          w15 \in 0 .. 1, b \in 0 .. 1, z \in 0 .. 1, <1>0
<1> QED
  BY ONLY <1>5, <1>7, <1>8, <1>9

\* One place up, the highest bit lost.
LEMMA WordMoved ==
  ASSUME NEW r \in Register(32)
  PROVE  /\ Upper32(r) >= 32768 <=> r[1] = 1
         /\ Upper32(MovedBy(32, r, 1)) = ((2 * Upper32(r)) % 65536) + Lower32(r) \div 32768
         /\ r[1] = 0 => (2 * Upper32(r)) % 65536 = 2 * Upper32(r)
         /\ Lower32(MovedBy(32, r, 1)) = (2 * Lower32(r)) % 65536
<1>1. PICK u \in Register(16), v \in Register(16) : u = Halved(r, 0) /\ v = Halved(r, 16)
  BY HalvedType
<1>2. u[1] = r[1] /\ v[1] = r[17]
  BY <1>1 DEF Halved
<1>3. PICK m \in Register(16) : m = MovedBy(16, u, 1)
  BY MovedType
<1>4. m[16] = 0
  BY <1>3 DEF MovedBy
<1>5. PICK b \in 0 .. 1 : b = v[1]
  BY DEF Register, Bit
<1>6. Halved(MovedBy(32, r, 1), 16) = MovedBy(16, v, 1)
  <2>1. ASSUME NEW j \in 1 .. 16
        PROVE  MovedBy(32, r, 1)[16 + j] = IF j + 1 <= 16 THEN v[j + 1] ELSE 0
    <3>1. PICK k \in 1 .. 32 : k = 16 + j
      OBVIOUS
    <3>2. MovedBy(32, r, 1)[k] = IF k + 1 <= 32 THEN r[k + 1] ELSE 0
      BY DEF MovedBy
    <3>3. k + 1 <= 32 <=> j + 1 <= 16
      BY <3>1
    <3>4. ASSUME j + 1 <= 16 PROVE r[k + 1] = v[j + 1]
      <4>1. PICK i \in 1 .. 16 : i = j + 1 /\ 16 + i = k + 1
        BY <3>1, <3>4
      <4>2. v[i] = r[16 + i]
        BY <1>1 DEF Halved
      <4> QED
        BY ONLY <4>1, <4>2
    <3> QED
      BY ONLY <3>1, <3>2, <3>3, <3>4
  <2> QED
    BY <2>1 DEF Halved, MovedBy
<1>7. Halved(MovedBy(32, r, 1), 0) = Ends(m, b)
  <2>1. ASSUME NEW j \in 1 .. 16
        PROVE  MovedBy(32, r, 1)[0 + j] = IF j = 16 THEN b ELSE m[j]
    <3>1. j \in 1 .. 32 /\ 0 + j = j /\ j + 1 <= 32
      OBVIOUS
    <3>2. MovedBy(32, r, 1)[j] = r[j + 1]
      BY <3>1 DEF MovedBy
    <3>3. CASE j = 16
      <4>1. j + 1 = 17
        BY <3>3
      <4> QED
        BY ONLY <3>1, <3>2, <3>3, <4>1, <1>2, <1>5
    <3>4. CASE j # 16
      <4>1. PICK i \in 1 .. 16 : i = j + 1 /\ 0 + i = i
        BY <3>4
      <4>2. u[i] = r[0 + i]
        BY <1>1 DEF Halved
      <4>3. m[j] = u[j + 1]
        BY <1>3, <4>1 DEF MovedBy
      <4> QED
        BY ONLY <3>1, <3>2, <3>4, <4>1, <4>2, <4>3
    <3> QED
      BY <3>3, <3>4
  <2> QED
    BY <2>1 DEF Halved, Ends
<1>8. High16(Ends(m, b)) = High16(m) + b
  BY <1>4, HighEnds
<1>9. /\ High16(u) >= 32768 <=> u[1] = 1
      /\ (2 * High16(u)) % 65536 = High16(m)
      /\ u[1] = 0 => 2 * High16(u) = High16(m)
  BY <1>3, HighMoved
<1>10. /\ High16(v) >= 32768 <=> v[1] = 1
       /\ (2 * High16(v)) % 65536 = High16(MovedBy(16, v, 1))
  BY HighMoved
<1>11. High16(v) \div 32768 = b
  <2>1. PICK h \in Half : h = High16(v)
    BY LowHighType
  <2>2. h \div 32768 = IF h >= 32768 THEN 1 ELSE 0
    BY DEF Half
  <2> QED
    BY <1>5, <1>10, <2>1, <2>2
<1> QED
  BY ONLY <1>1, <1>2, <1>6, <1>7, <1>8, <1>9, <1>10, <1>11 DEF Upper32, Lower32

LEMMA Halves32Are ==
  ASSUME NEW r \in Register(32)
  PROVE  /\ Upper32(r) = HalfOf(Mirrored(Part(r, 0)), Mirrored(Part(r, 8)))
         /\ Lower32(r) = HalfOf(Mirrored(Part(r, 16)), Mirrored(Part(r, 24)))
         /\ \A n \in {0, 8, 16, 24} : Part(r, n) \in Octet /\ Mirrored(Part(r, n)) \in Octet
<1>1. ASSUME NEW n \in {0, 16}, NEW k \in {0, 8}
      PROVE  Part(Halved(r, n), k) = Part(r, n + k)
  <2>1. ASSUME NEW i \in 1 .. 8 PROVE Halved(r, n)[k + i] = r[(n + k) + i]
    <3>1. PICK j \in 1 .. 16 : j = k + i /\ n + j = (n + k) + i
      OBVIOUS
    <3> QED
      BY <3>1 DEF Halved
  <2> QED
    BY <2>1 DEF Part
<1>2. 0 + 0 = 0 /\ 0 + 8 = 8 /\ 16 + 0 = 16 /\ 16 + 8 = 24
  OBVIOUS
<1>3. /\ Part(Halved(r, 0), 0) = Part(r, 0) /\ Part(Halved(r, 0), 8) = Part(r, 8)
      /\ Part(Halved(r, 16), 0) = Part(r, 16) /\ Part(Halved(r, 16), 8) = Part(r, 24)
  BY <1>1, <1>2
<1>4. ASSUME NEW n \in {0, 8, 16, 24} PROVE Part(r, n) \in Octet /\ Mirrored(Part(r, n)) \in Octet
  <2>1. 32 \in Nat /\ n \in Nat /\ n + 8 <= 32
    OBVIOUS
  <2>2. Part(r, n) \in Octet
    BY ONLY <2>1, r \in Register(32), PartType
  <2> QED
    BY <2>2, MirroredType
<1> QED
  BY <1>3, <1>4 DEF Upper32, Lower32, High16

\* How the entries of crc32.c follow from one another.
LEMMA Table32Down ==
  \A j \in 0 .. 127 : CRC_table[1][1 + j] < 32768 =>
    /\ CRC_table[1][1 + 2 * j] = ((2 * CRC_table[1][1 + j]) % 65536) + CRC_table[2][1 + j] \div 32768
    /\ CRC_table[2][1 + 2 * j] = (2 * CRC_table[2][1 + j]) % 65536
BY SMTT(60) DEF CRC_table

LEMMA Table32DownUpper ==
  \A j \in 0 .. 127 : CRC_table[1][1 + j] >= 32768 =>
    CRC_table[1][1 + 2 * j]
      = With1217(((2 * CRC_table[1][1 + j]) % 65536) + CRC_table[2][1 + j] \div 32768)
BY SMTT(60) DEF CRC_table, With1217, Flip

LEMMA Table32DownLower ==
  \A j \in 0 .. 127 : CRC_table[1][1 + j] >= 32768 =>
    CRC_table[2][1 + 2 * j] = With7607((2 * CRC_table[2][1 + j]) % 65536)
BY SMTT(60) DEF CRC_table, With7607, Flip

LEMMA Table32AcrossUpper ==
  \A j \in 0 .. 127 : CRC_table[1][2 + 2 * j] = With1217(CRC_table[1][1 + 2 * j])
BY SMTT(60) DEF CRC_table, With1217, Flip

LEMMA Table32AcrossLower ==
  \A j \in 0 .. 127 : CRC_table[2][2 + 2 * j] = With7607(CRC_table[2][1 + 2 * j])
BY SMTT(60) DEF CRC_table, With7607, Flip

LEMMA Table32First == CRC_table[1][1] = 0 /\ CRC_table[2][1] = 0
BY SMTT(60) DEF CRC_table

\* The entry of crc32.c at index i is the register r.
IsAt32(i, r) == CRC_table[1][i] = Upper32(r) /\ CRC_table[2][i] = Lower32(r)

LEMMA At32Fed ==
  ASSUME NEW r \in Register(32), NEW j \in 0 .. 127, IsAt32(1 + j, r)
  PROVE  IsAt32(1 + 2 * j, Fed(32, Poly32, r, 0))
<1>1. 32 \in Nat /\ 1 \in Nat
  OBVIOUS
<1>2. Poly32 \in Register(32) /\ Upper32(Poly32) = 1217 /\ Lower32(Poly32) = 7607
  BY Poly32Is
<1>3. PICK m \in Register(32) : m = MovedBy(32, r, 1)
  BY <1>1, MovedType
<1>4. Fed(32, Poly32, r, 0) = IF r[1] = 0 THEN m ELSE Mix(32, m, Poly32)
  BY <1>1, <1>2, <1>3, FedIs
<1>5. /\ CRC_table[1][1 + j] >= 32768 <=> r[1] = 1
      /\ Upper32(m) = ((2 * CRC_table[1][1 + j]) % 65536) + CRC_table[2][1 + j] \div 32768
      /\ Lower32(m) = (2 * CRC_table[2][1 + j]) % 65536
  BY <1>3, WordMoved, SMTT(30) DEF IsAt32
<1>6. CASE r[1] = 0
  <2>1. PICK h \in Half : h = CRC_table[1][1 + j]
    BY Halves32 DEF IsAt32
  <2>2. ~(CRC_table[1][1 + j] >= 32768)
    <3>1. (CRC_table[1][1 + j] >= 32768) <=> r[1] = 1
      BY ONLY <1>5
    <3> QED
      BY ONLY <1>6, <3>1
  <2>5. CRC_table[1][1 + j] < 32768
    <3>1. h < 32768
      BY ONLY <2>1, <2>2, h \in Half DEF Half
    <3> QED
      BY ONLY <2>1, <3>1
  <2>3. Fed(32, Poly32, r, 0) = m
    BY ONLY <1>4, <1>6
  <2>4. CRC_table[1][1 + 2 * j] = Upper32(m) /\ CRC_table[2][1 + 2 * j] = Lower32(m)
    <3>1. /\ CRC_table[1][1 + 2 * j]
               = ((2 * CRC_table[1][1 + j]) % 65536) + CRC_table[2][1 + j] \div 32768
          /\ CRC_table[2][1 + 2 * j] = (2 * CRC_table[2][1 + j]) % 65536
      BY ONLY <2>5, j \in 0 .. 127, Table32Down
    <3> QED
      BY ONLY <1>5, <3>1
  <2> QED
    BY ONLY <2>3, <2>4 DEF IsAt32
<1>7. CASE r[1] = 1
  <2>1. CRC_table[1][1 + j] >= 32768
    BY <1>5, <1>7
  <2>2. CRC_table[1][1 + 2 * j] = With1217(Upper32(m))
    BY ONLY <1>5, <2>1, j \in 0 .. 127, Table32DownUpper, SMTT(30)
  <2>3. CRC_table[2][1 + 2 * j] = With7607(Lower32(m))
    BY ONLY <1>5, <2>1, j \in 0 .. 127, Table32DownLower, SMTT(30)
  <2>4. /\ Upper32(m) \in Half /\ Lower32(m) \in Half
        /\ Xor16(Upper32(m), 1217) = Upper32(Mix(32, m, Poly32))
        /\ Xor16(Lower32(m), 7607) = Lower32(Mix(32, m, Poly32))
    BY <1>2, Halves32
  <2>5. Fed(32, Poly32, r, 0) = Mix(32, m, Poly32)
    BY <1>4, <1>7
  <2> QED
    BY <1>1, <2>2, <2>3, <2>4, <2>5, With1217Is, With7607Is DEF IsAt32
<1> QED
  BY <1>6, <1>7 DEF Register, Bit

LEMMA At32Mixed ==
  ASSUME NEW r \in Register(32), NEW j \in 0 .. 127, IsAt32(1 + 2 * j, r)
  PROVE  IsAt32(2 + 2 * j, Mix(32, r, Poly32))
<1>1. 1217 \in Half /\ 7607 \in Half
  BY DEF Half
<1>2. Poly32 \in Register(32) /\ Upper32(Poly32) = 1217 /\ Lower32(Poly32) = 7607
  BY Poly32Is
<1>3. /\ CRC_table[1][2 + 2 * j] = With1217(Upper32(r))
      /\ CRC_table[2][2 + 2 * j] = With7607(Lower32(r))
  BY Table32AcrossUpper, Table32AcrossLower DEF IsAt32
<1>4. /\ Upper32(r) \in Half /\ Lower32(r) \in Half
      /\ Xor16(Upper32(r), 1217) = Upper32(Mix(32, r, Poly32))
      /\ Xor16(Lower32(r), 7607) = Lower32(Mix(32, r, Poly32))
  BY <1>2, Halves32
<1> QED
  BY <1>1, <1>3, <1>4, With1217Is, With7607Is DEF IsAt32

Indexed32 == {c \in Octet : IsAt32(1 + ByteOf(Mirrored(c)), Entry(32, Poly32, c))}

LEMMA Table32IsEntry ==
  \A c \in Octet : IsAt32(1 + ByteOf(Mirrored(c)), Entry(32, Poly32, c))
<1>p. Poly32 \in Register(32) /\ 32 \in Nat /\ 32 >= 8 /\ 32 >= 1
  BY Poly32Is
<1>1. NoBits \in Indexed32
  <2>1. PICK z \in Register(32) : z = [j \in 1 .. 32 |-> 0]
    <3>1. [j \in 1 .. 32 |-> 0] \in Register(32)
      BY DEF Register, Bit
    <3> QED
      BY <3>1
  <2>2. Entry(32, Poly32, NoBits) = z
    BY <1>p, <2>1, EntryOfNone
  <2>3. /\ Part(z, 0) = NoBits
        /\ Part(z, 8) = NoBits
        /\ Part(z, 16) = NoBits
        /\ Part(z, 24) = NoBits
    BY <2>1 DEF Part, NoBits
  <2>4. HalfOf(NoBits, NoBits) = 0
    BY MirroredNone DEF HalfOf
  <2>5. Upper32(z) = 0 /\ Lower32(z) = 0
    BY <2>3, <2>4, MirroredNone, Halves32Are
  <2>6. ByteOf(Mirrored(NoBits)) = 0 /\ 1 + 0 = 1
    BY MirroredNone
  <2>7. NoBits \in Octet
    BY DEF NoBits, Octet, Bit
  <2> QED
    BY <2>2, <2>5, <2>6, <2>7, Table32First DEF Indexed32, IsAt32
<1>2. ASSUME NEW c \in Octet, c[8] = 0, Down(c) \in Indexed32
      PROVE  c \in Indexed32
  <2>1. PICK y \in 0 .. 127 : IsChangedStep(y, ByteOf(Mirrored(c)), ByteOf(Mirrored(Down(c))),
                                           ByteOf(Mirrored(WithLast(c))))
    BY <1>2, StepBytes
  <2>2. PICK r \in Register(32) : r = Entry(32, Poly32, Down(c))
    BY <1>p, StepType, EntryType
  <2>3. IsAt32(1 + y, r)
    BY <1>2, <2>1, <2>2 DEF Indexed32, IsChangedStep
  <2>4. IsAt32(1 + 2 * y, Fed(32, Poly32, r, 0))
    BY <2>3, At32Fed
  <2>5. Fed(32, Poly32, r, 0) = Entry(32, Poly32, c)
    BY <1>p, <1>2, <2>2, EntryDown
  <2> QED
    BY <2>1, <2>4, <2>5 DEF Indexed32, IsChangedStep
<1>3. ASSUME NEW c \in Octet, c[8] = 0, c \in Indexed32
      PROVE  WithLast(c) \in Indexed32
  <2>1. PICK y \in 0 .. 127 : IsChangedStep(y, ByteOf(Mirrored(c)), ByteOf(Mirrored(Down(c))),
                                           ByteOf(Mirrored(WithLast(c))))
    BY <1>3, StepBytes
  <2>2. PICK r \in Register(32) : r = Entry(32, Poly32, c)
    BY <1>p, EntryType
  <2>3. IsAt32(1 + 2 * y, r)
    BY <1>3, <2>1, <2>2 DEF Indexed32, IsChangedStep
  <2>4. IsAt32(2 + 2 * y, Mix(32, r, Poly32))
    BY <2>3, At32Mixed
  <2>5. Entry(32, Poly32, WithLast(c)) = Mix(32, r, Poly32)
    BY <1>p, <1>3, <2>2, EntryWithLast
  <2>6. 1 + (2 * y + 1) = 2 + 2 * y
    OBVIOUS
  <2>7. 1 + ByteOf(Mirrored(WithLast(c))) = 2 + 2 * y
    BY <2>1, <2>6 DEF IsChangedStep
  <2>8. WithLast(c) \in Octet
    BY StepType
  <2> QED
    BY <2>4, <2>5, <2>7, <2>8 DEF Indexed32
<1>4. \A c \in Octet : c \in Indexed32
  BY <1>1, <1>2, <1>3, OctetsReached
<1> QED
  BY <1>4 DEF Indexed32

LEMMA Table32ByteIsEight ==
  ASSUME NEW r \in Register(32), NEW b \in Octet
  PROVE  crc32_byte_cal(Word32(r), ByteOf(Mirrored(b))) = Word32(Eight(32, Poly32, r, b))
<1>p. Poly32 \in Register(32) /\ 32 \in Nat /\ 32 >= 8 /\ 8 \in Nat
  BY Poly32Is
<1>1. PICK x0 \in Octet, x1 \in Octet, x2 \in Octet, x3 \in Octet :
        x0 = Part(r, 0) /\ x1 = Part(r, 8) /\ x2 = Part(r, 16) /\ x3 = Part(r, 24)
  BY Halves32Are
<1>2. PICK y0 \in Octet, y1 \in Octet, y2 \in Octet, y3 \in Octet :
        y0 = Mirrored(x0) /\ y1 = Mirrored(x1) /\ y2 = Mirrored(x2) /\ y3 = Mirrored(x3)
  BY MirroredType
<1>3. Upper32(r) = HalfOf(y0, y1) /\ Lower32(r) = HalfOf(y2, y3)
  BY <1>1, <1>2, Halves32Are
<1>4. /\ Upper32(r) \div 256 = ByteOf(y0) /\ Upper32(r) % 256 = ByteOf(y1)
      /\ Lower32(r) \div 256 = ByteOf(y2) /\ Lower32(r) % 256 = ByteOf(y3)
  BY <1>3, HalfOfParts
<1>5. PICK c \in Octet : c = SumBits(First(r), b)
  BY FrontType, SumBitsType, <1>p
<1>6. First(r) = x0
  <2>1. \A i \in 1 .. 8 : 0 + i = i
    OBVIOUS
  <2> QED
    BY <1>1, <2>1 DEF First, Part
<1>7. XorByte[Upper32(r) \div 256][ByteOf(Mirrored(b))] = ByteOf(Mirrored(c))
  <2>1. Mirrored(b) \in Octet /\ Mirrored(c) = SumBits(y0, Mirrored(b))
    BY <1>2, <1>5, <1>6, MirroredType, MirroredSum
  <2> QED
    BY <1>4, <2>1, XorOfBytes
<1>8. PICK m \in Register(32) : m = MovedBy(32, r, 8)
  BY <1>p, MovedType
<1>9. Part(m, 0) = x1 /\ Part(m, 8) = x2 /\ Part(m, 16) = x3 /\ Part(m, 24) = NoBits
  <2>1. ASSUME NEW n \in {0, 8, 16} PROVE Part(m, n) = Part(r, n + 8)
    <3>1. n \in Nat /\ n + 8 <= 32 /\ n + 16 <= 32
      OBVIOUS
    <3> QED
      BY ONLY <1>p, <1>8, <3>1, r \in Register(32), PartMoved
  <2>2. Part(m, 24) = NoBits
    <3>1. 24 \in Nat /\ 24 + 8 <= 32 /\ 24 + 8 = 32
      OBVIOUS
    <3> QED
      BY ONLY <1>p, <1>8, <3>1, r \in Register(32), PartMoved
  <2>3. 0 + 8 = 8 /\ 8 + 8 = 16 /\ 16 + 8 = 24
    OBVIOUS
  <2> QED
    BY <1>1, <2>1, <2>2, <2>3
<1>10. /\ Upper32(m) = 256 * (Upper32(r) % 256) + Lower32(r) \div 256
       /\ Lower32(m) = 256 * (Lower32(r) % 256)
  <2>1. Upper32(m) = HalfOf(y1, y2) /\ Lower32(m) = HalfOf(y3, NoBits)
    BY <1>2, <1>9, MirroredNone, Halves32Are
  <2>2. PICK z \in Byte : z = ByteOf(y3)
    BY ByteOfType
  <2>3. 256 * z + 0 = 256 * z
    BY DEF Byte
  <2> QED
    BY <1>4, <2>1, <2>2, <2>3, MirroredNone DEF HalfOf
<1>11. PICK e \in Register(32) : e = Entry(32, Poly32, c)
  BY <1>p, EntryType
<1>12. PICK i : i = 1 + ByteOf(Mirrored(c)) /\ CRC_table[1][i] = Upper32(e) /\ CRC_table[2][i] = Lower32(e)
  BY <1>11, Table32IsEntry DEF IsAt32
<1>13. crc32_byte_cal(Word32(r), ByteOf(Mirrored(b)))
         = XorWord(<<Upper32(m), Lower32(m)>>, <<Upper32(e), Lower32(e)>>)
  <2>1. Word32(r)[1] = Upper32(r) /\ Word32(r)[2] = Lower32(r)
    BY DEF Word32
  <2> QED
    BY ONLY <1>7, <1>10, <1>12, <2>1 DEF crc32_byte_cal
<1>14. PICK q \in Register(32) : q = Mix(32, m, e)
  BY SumType, <1>p
<1>15. Xor16(Upper32(m), Upper32(e)) = Upper32(q) /\ Xor16(Lower32(m), Lower32(e)) = Lower32(q)
  BY <1>14, Halves32
<1>16. XorWord(<<Upper32(m), Lower32(m)>>, <<Upper32(e), Lower32(e)>>) = Word32(q)
  BY ONLY <1>15 DEF XorWord, Word32
<1>17. Eight(32, Poly32, r, b) = q
  <2>1. Eight(32, Poly32, r, b)
          = Mix(32, Entry(32, Poly32, SumBits(First(r), b)), MovedBy(32, r, 8))
    BY <1>p, EightSplits
  <2> QED
    BY <1>5, <1>8, <1>11, <1>14, <2>1, MixCommutes
<1> QED
  BY ONLY <1>13, <1>16, <1>17

\* The register of CRC-32 after a message.
Register32(s) == Folded(ByByte(32, Poly32, HighBits), Ones(32), s)

LEMMA Register32Type ==
  /\ Ones(32) \in Register(32) /\ Word32(Ones(32)) = <<65535, 65535>>
  /\ \A s \in Seq(Byte) : Register32(s) \in Register(32)
<1>1. 32 \in Nat /\ 32 >= 1 /\ Poly32 \in Register(32) /\ HighBits \in [Byte -> Octet]
  BY Poly32Is, BitsOfBytes
<1>2. /\ DOMAIN ByByte(32, Poly32, HighBits) = Register(32)
      /\ Takes(ByByte(32, Poly32, HighBits), Register(32), Byte)
      /\ Ones(32) \in Register(32)
  BY ONLY <1>1, ByByteTakes
<1>3. ASSUME NEW s \in Seq(Byte) PROVE Register32(s) \in Register(32)
  BY ONLY <1>2, s \in Seq(Byte), FoldedType DEF Register32
<1>4. Upper32(Ones(32)) = 65535
  BY DEF Ones, Upper32, Halved, High16, HalfOf, ByteOf, Part, Mirrored
<1>5. Lower32(Ones(32)) = 65535
  BY DEF Ones, Lower32, Halved, High16, HalfOf, ByteOf, Part, Mirrored
<1> QED
  BY <1>2, <1>3, <1>4, <1>5 DEF Word32

LEMMA Table32IsRegister ==
  ASSUME NEW s \in Seq(Byte)
  PROVE  crc32_cal(s) = Word32(Register32(s))
<1> DEFINE f == [r \in Register(32) |-> Word32(r)]
<1>1. f \in [Register(32) -> Word]
  BY Halves32
<1>2. ASSUME NEW r \in Register(32), NEW m \in Byte
      PROVE  f[Eight(32, Poly32, r, HighBits[m])] = Table32Step[f[r]][m]
  <2>1. PICK b \in Octet : b = HighBits[m] /\ ByteOf(Mirrored(b)) = m
    BY BitsOfBytes
  <2>2. Eight(32, Poly32, r, b) \in Register(32)
    BY Poly32Is, EightType
  <2>3. crc32_byte_cal(Word32(r), m) = Word32(Eight(32, Poly32, r, b))
    BY <2>1, Table32ByteIsEight
  <2>4. Table32Step[Word32(r)][m] = crc32_byte_cal(Word32(r), m)
    BY Halves32 DEF Table32Step
  <2> QED
    BY <2>1, <2>2, <2>3, <2>4
<1>3. f[Ones(32)] = <<65535, 65535>> /\ f[Register32(s)] = Word32(Register32(s))
  BY Register32Type
<1> HIDE DEF f
<1>4. /\ 32 \in Nat /\ 32 >= 1 /\ Poly32 \in Register(32) /\ HighBits \in [Byte -> Octet]
      /\ StepsOver(Table32Step, Word, Byte) /\ IsStepOf(Table32Step, f, 32, Poly32, HighBits)
  BY <1>2, Poly32Is, BitsOfBytes, Table32Takes DEF StepsOver, IsStepOf
<1>5. ImageAfter(Table32Step, f, 32, Poly32, HighBits, s)
  BY ONLY <1>1, <1>4, s \in Seq(Byte), RegisterIsImage
<1>6. PICK w \in Word : w = <<65535, 65535>>
  <2>1. 65535 \in Half
    BY DEF Half
  <2>2. <<65535, 65535>> \in Word
    BY <2>1, WordOf
  <2> QED
    BY <2>2
<1>7. crc32_frag_cal(w, s) = Folded(Table32Step, w, s)
  BY Table32IsFold
<1> QED
  BY ONLY <1>3, <1>5, <1>6, <1>7 DEF ImageAfter, Register32, crc32_cal

-----------------------------------------------------------------------------
(* The registers as the sequences of bits that the division gives.         *)

IsBits(g, n) == g \in Seq(Bit) /\ Len(g) = n

LEMMA RegisterIsBits ==
  ASSUME NEW W \in Nat, NEW r \in Register(W)
  PROVE  IsBits(r, W) /\ Reverse(r) = [i \in 1 .. W |-> r[(W - i) + 1]]
<1>1. r = [i \in 1 .. W |-> r[i]] /\ \A i \in 1 .. W : r[i] \in Bit
  BY DEF Register
<1>2. r \in Seq(Bit) /\ Len(r) = W
  BY <1>1, IsASeq
<1> QED
  BY <1>2 DEF IsBits, Reverse

LEMMA BitsOfHigh ==
  ASSUME NEW r \in Register(16)
  PROVE  BitsOf(High16(r), 16) = r
<1> DEFINE a == Mirrored(Part(r, 0))
           b == Mirrored(Part(r, 8))
<1>1. BitsOf(HalfOf(a, b), 16) = [i \in 1 .. 16 |-> IF i <= 8 THEN a[9 - i] ELSE b[17 - i]]
  BY Parts16, BitsOfHalf
<1>2. ASSUME NEW i \in 1 .. 16 PROVE (IF i <= 8 THEN a[9 - i] ELSE b[17 - i]) = r[i]
  <2>1. CASE i <= 8
    <3>1. PICK k \in 1 .. 8 : k = 9 - i /\ 9 - k = i /\ 0 + i = i /\ i \in 1 .. 8
      BY <2>1
    <3>2. a[k] = Part(r, 0)[9 - k] /\ Part(r, 0)[i] = r[0 + i]
      BY <3>1 DEF Mirrored, Part
    <3> QED
      BY ONLY <2>1, <3>1, <3>2
  <2>2. CASE ~(i <= 8)
    <3>1. PICK k \in 1 .. 8, m \in 1 .. 8 : k = 17 - i /\ 9 - k = m /\ 8 + m = i
      BY <2>2
    <3>2. b[k] = Part(r, 8)[9 - k] /\ Part(r, 8)[m] = r[8 + m]
      BY <3>1 DEF Mirrored, Part
    <3> QED
      BY ONLY <2>2, <3>1, <3>2
  <2> QED
    BY <2>1, <2>2
<1>3. r = [i \in 1 .. 16 |-> r[i]]
  BY DEF Register
<1> QED
  BY <1>1, <1>2, <1>3 DEF High16

LEMMA BitsOfLow ==
  ASSUME NEW r \in Register(16)
  PROVE  BitsOf(Low16(r), 16) = Reverse(r)
<1> DEFINE a == Part(r, 8)
           b == Part(r, 0)
<1>1. BitsOf(HalfOf(a, b), 16) = [i \in 1 .. 16 |-> IF i <= 8 THEN a[9 - i] ELSE b[17 - i]]
  BY Parts16, BitsOfHalf
<1>2. ASSUME NEW i \in 1 .. 16
      PROVE  (IF i <= 8 THEN a[9 - i] ELSE b[17 - i]) = r[(16 - i) + 1]
  <2>1. CASE i <= 8
    <3>1. PICK k \in 1 .. 8 : k = 9 - i /\ 8 + k = (16 - i) + 1
      BY <2>1
    <3>2. a[k] = r[8 + k]
      BY <3>1 DEF Part
    <3> QED
      BY ONLY <2>1, <3>1, <3>2
  <2>2. CASE ~(i <= 8)
    <3>1. PICK k \in 1 .. 8 : k = 17 - i /\ 0 + k = (16 - i) + 1
      BY <2>2
    <3>2. b[k] = r[0 + k]
      BY <3>1 DEF Part
    <3> QED
      BY ONLY <2>2, <3>1, <3>2
  <2> QED
    BY <2>1, <2>2
<1>3. PICK n \in Nat : n = 16
  OBVIOUS
<1>4. Reverse(r) = [i \in 1 .. n |-> r[(n - i) + 1]]
  BY <1>3, RegisterIsBits
<1> QED
  BY <1>1, <1>2, <1>3, <1>4 DEF Low16

LEMMA BitsOfWord ==
  ASSUME NEW r \in Register(32)
  PROVE  BitsOf(Upper32(r), 16) \o BitsOf(Lower32(r), 16) = r
<1>1. PICK n \in Nat, W \in Nat : n = 16 /\ W = 32
  OBVIOUS
<1>2. PICK s \in Seq(Bit), t \in Seq(Bit) :
        /\ s = Halved(r, 0) /\ t = Halved(r, 16) /\ Len(s) = n /\ Len(t) = n
  <2>1. Halved(r, 0) \in Register(n) /\ Halved(r, 16) \in Register(n)
    BY <1>1, HalvedType
  <2>2. IsBits(Halved(r, 0), n) /\ IsBits(Halved(r, 16), n)
    BY <2>1, RegisterIsBits
  <2> QED
    BY <2>2 DEF IsBits
<1>3. BitsOf(Upper32(r), 16) = s /\ BitsOf(Lower32(r), 16) = t
  BY <1>2, HalvedType, BitsOfHigh DEF Upper32, Lower32
<1>4. PICK y \in Seq(Bit) :
        /\ y = s \o t /\ Len(y) = W
        /\ \A i \in 1 .. W : y[i] = IF i <= n THEN s[i] ELSE t[i - n]
  <2>1. s \o t \in Seq(Bit) /\ Len(s \o t) = Len(s) + Len(t)
        /\ \A i \in 1 .. Len(s) + Len(t) : (s \o t)[i] = IF i <= Len(s) THEN s[i] ELSE t[i - Len(s)]
    BY ConcatProperties
  <2>2. n + n = W
    BY <1>1
  <2>3. /\ s \o t \in Seq(Bit) /\ Len(s \o t) = n + n
        /\ \A i \in 1 .. n + n : (s \o t)[i] = IF i <= n THEN s[i] ELSE t[i - n]
    BY ONLY <2>1, <1>2
  <2> QED
    BY ONLY <2>2, <2>3
<1>5. r \in Seq(Bit) /\ Len(r) = W
  BY <1>1, RegisterIsBits DEF IsBits
<1>6. ASSUME NEW i \in 1 .. 32 PROVE y[i] = r[i]
  <2>1. CASE i <= 16
    <3>1. i \in 1 .. 16 /\ i \in 1 .. W /\ 0 + i = i /\ i <= n
      BY <1>1, <2>1
    <3>2. s[i] = r[0 + i]
      BY <3>1, <1>2 DEF Halved
    <3>3. y[i] = s[i]
      BY ONLY <3>1, <1>4
    <3> QED
      BY ONLY <3>1, <3>2, <3>3
  <2>2. CASE ~(i <= 16)
    <3>1. PICK k \in 1 .. 16 : k = i - 16 /\ 16 + k = i
      BY <2>2
    <3>2. t[k] = r[16 + k]
      BY <3>1, <1>2 DEF Halved
    <3>4. i \in 1 .. W /\ ~(i <= n)
      BY <1>1, <2>2
    <3>3. y[i] = t[i - n]
      BY ONLY <3>4, <1>4
    <3> QED
      BY ONLY <3>1, <3>2, <3>3, <1>1
  <2> QED
    BY <2>1, <2>2
<1>7. y = r
  <2>1. PICK x \in Seq(Bit) : x = r
    BY <1>5
  <2>2. Len(y) = Len(x) /\ \A i \in 1 .. Len(y) : y[i] = x[i]
    BY <1>1, <1>4, <1>5, <1>6, <2>1
  <2>3. y = x
    BY ONLY y \in Seq(Bit), x \in Seq(Bit), <2>2, SeqEqual
  <2> QED
    BY <2>1, <2>3
<1> QED
  BY <1>3, <1>4, <1>7

\* x^W and a polynomial, as the specification writes their bits.
LEMMA GeneratorIs ==
  ASSUME NEW W \in Nat, NEW p \in Register(W)
  PROVE  IsGenerator(<<1>> \o p, W, p)
<1>1. PICK one \in Seq(Bit) : one = <<1>> /\ Len(one) = 1 /\ one[1] = 1
  <2>1. <<1>> \in Seq(Bit)
    BY DEF Bit
  <2> QED
    BY <2>1
<1>2. p \in Seq(Bit) /\ Len(p) = W
  BY RegisterIsBits DEF IsBits
<1>3. /\ one \o p \in Seq(Bit) /\ Len(one \o p) = Len(one) + Len(p)
      /\ \A i \in 1 .. Len(one) + Len(p) : (one \o p)[i] = IF i <= Len(one) THEN one[i] ELSE p[i - Len(one)]
  BY <1>2, ConcatProperties
<1>4. PICK g \in Seq(Bit) : /\ g = one \o p /\ Len(g) = 1 + W
        /\ \A i \in 1 .. 1 + W : g[i] = IF i <= 1 THEN one[i] ELSE p[i - 1]
  BY <1>1, <1>2, <1>3
<1>5. 1 + W = W + 1 /\ 1 \in 1 .. 1 + W
  OBVIOUS
<1>6. ASSUME NEW j \in 1 .. W PROVE g[j + 1] = p[j]
  <2>1. PICK i \in 1 .. 1 + W : i = j + 1 /\ ~(i <= 1) /\ i - 1 = j
    OBVIOUS
  <2>2. g[i] = p[i - 1]
    BY <1>4, <2>1
  <2> QED
    BY ONLY <2>1, <2>2
<1>7. g[1] = 1
  BY <1>1, <1>4, <1>5
<1> QED
  BY <1>1, <1>4, <1>5, <1>6, <1>7 DEF IsGenerator

LEMMA GeneratorsAre ==
  /\ IsGenerator(<<1>> \o BitsOf(4129, 16), 16, Poly16)
  /\ IsGenerator(<<1>> \o BitsOf(1217, 16) \o BitsOf(7607, 16), 32, Poly32)
<1>1. PICK m \in Nat, n \in Nat : m = 16 /\ n = 32
  OBVIOUS
<1>2. IsGenerator(<<1>> \o Poly16, m, Poly16) /\ IsGenerator(<<1>> \o Poly32, n, Poly32)
  BY <1>1, Poly16Is, Poly32Is, GeneratorIs, SMTT(30)
<1>3. BitsOf(4129, 16) = Poly16
  BY Poly16Is, BitsOfHigh
<1>4. BitsOf(1217, 16) \o BitsOf(7607, 16) = Poly32
  BY Poly32Is, BitsOfWord
<1>5. PICK one \in Seq(Bit) : one = <<1>>
  <2>1. <<1>> \in Seq(Bit)
    BY DEF Bit
  <2> QED
    BY <2>1
<1>8. PICK s \in Seq(Bit), t \in Seq(Bit) : s = BitsOf(1217, 16) /\ t = BitsOf(7607, 16)
  <2>2. Halved(Poly32, 0) \in Register(m) /\ Halved(Poly32, 16) \in Register(m)
    BY <1>1, Poly32Is, HalvedType
  <2>3. IsBits(Halved(Poly32, 0), m) /\ IsBits(Halved(Poly32, 16), m)
    BY <2>2, RegisterIsBits
  <2>4. BitsOf(1217, 16) = Halved(Poly32, 0) /\ BitsOf(7607, 16) = Halved(Poly32, 16)
    BY <1>1, <2>2, Poly32Is, BitsOfHigh DEF Upper32, Lower32
  <2> QED
    BY <2>3, <2>4 DEF IsBits
<1>6. (one \o s) \o t = one \o (s \o t)
  BY JoinAssociates DEF Associates
<1>7. s \o t = Poly32
  BY ONLY <1>4, <1>8
<1>9. IsGenerator(<<1>> \o BitsOf(4129, 16), 16, Poly16)
  BY ONLY <1>1, <1>2, <1>3
<1>10. IsGenerator((<<1>> \o BitsOf(1217, 16)) \o BitsOf(7607, 16), 32, Poly32)
  <2>1. (one \o s) \o t = one \o Poly32
    BY ONLY <1>6, <1>7
  <2>2. IsGenerator(one \o Poly32, n, Poly32)
    BY ONLY <1>2, <1>5
  <2>3. IsGenerator((one \o s) \o t, n, Poly32)
    BY ONLY <2>1, <2>2
  <2>4. n = 32
    BY <1>1
  <2> QED
    BY ONLY <2>3, <2>4, <1>5, <1>8
<1> QED
  BY ONLY <1>9, <1>10

\* The bits of a message, in the two orders.
LEMMA MessageJoined ==
  ASSUME message \in Seq(Byte)
  PROVE  ReflectedBits = Joined(LowBits, message) /\ MessageBits = Joined(HighBits, message)
<1>1. DOMAIN message = 1 .. Len(message) /\ \A i \in 1 .. Len(message) : message[i] \in Byte
  BY LenProperties, ElementOfSeq
<1>2. ASSUME NEW m \in Byte
      PROVE  Reverse(BitsOf(m, 8)) = LowBits[m] /\ BitsOf(m, 8) = HighBits[m]
  <2>1. PICK b \in Octet : b = BitsIn(m) /\ ByteOf(b) = m
    BY BitsInType
  <2>2. BitsOf(m, 8) = Mirrored(b) /\ Reverse(BitsOf(m, 8)) = b
    BY <2>1, BitsOfByte
  <2> QED
    BY <2>1, <2>2 DEF LowBits, HighBits
<1>3. /\ [i \in DOMAIN message |-> Reverse(BitsOf(message[i], 8))] = MapSeq(LowBits, message)
      /\ [i \in DOMAIN message |-> BitsOf(message[i], 8)] = MapSeq(HighBits, message)
  BY <1>1, <1>2 DEF MapSeq
<1> QED
  BY <1>3 DEF ReflectedBits, MessageBits, Joined

LEMMA DivisionsAre ==
  ASSUME message \in Seq(Byte)
  PROVE  /\ DivisionCrc(ReflectedBits, <<1>> \o BitsOf(4129, 16)) = Register16(message)
         /\ DivisionCrc(MessageBits, <<1>> \o BitsOf(1217, 16) \o BitsOf(7607, 16))
              = Register32(message)
<1> DEFINE g == <<1>> \o BitsOf(4129, 16)
           h == <<1>> \o BitsOf(1217, 16) \o BitsOf(7607, 16)
<1>1. IsGenerator(g, 16, Poly16)
  BY GeneratorsAre
<1>2. IsGenerator(h, 32, Poly32)
  BY GeneratorsAre
<1> HIDE DEF g, h
<1>3. /\ 16 \in Nat /\ 16 >= 1 /\ Poly16 \in Register(16) /\ LowBits \in [Byte -> Octet]
      /\ Ones(16) \in Register(16)
  BY Poly16Is, BitsOfBytes, Register16Takes
<1>4. /\ 32 \in Nat /\ 32 >= 1 /\ Poly32 \in Register(32) /\ HighBits \in [Byte -> Octet]
      /\ Ones(32) \in Register(32)
  BY Poly32Is, BitsOfBytes, Register32Type
<1>5. Joined(LowBits, message) \in Seq(Bit) /\ BitByBit(16, Poly16, LowBits, Ones(16), message)
  BY ONLY <1>3, message \in Seq(Byte), BytesAreBits
<1>6. /\ Joined(HighBits, message) \in Seq(Bit)
      /\ BitByBit(32, Poly32, HighBits, Ones(32), message)
  BY ONLY <1>4, message \in Seq(Byte), BytesAreBits
<1>7. DivisionCrc(Joined(LowBits, message), g)
        = Folded(Feed(16, Poly16), Ones(16), Joined(LowBits, message))
  BY ONLY <1>1, <1>3, <1>5, DivisionIsRegister
<1>8. DivisionCrc(Joined(HighBits, message), h)
        = Folded(Feed(32, Poly32), Ones(32), Joined(HighBits, message))
  BY ONLY <1>2, <1>4, <1>6, DivisionIsRegister
<1>9. DivisionCrc(Joined(LowBits, message), g) = Register16(message)
  BY ONLY <1>5, <1>7 DEF BitByBit, Register16
<1>10. DivisionCrc(Joined(HighBits, message), h) = Register32(message)
  BY ONLY <1>6, <1>8 DEF BitByBit, Register32
<1> QED
  BY ONLY <1>9, <1>10, message \in Seq(Byte), MessageJoined DEF g, h

LEMMA IncrementalAgrees ==
  ASSUME CrcIncremental
  PROVE  CrcAgrees
<1>1. PICK s \in Seq(Byte) : /\ s = message /\ bitwise = crc16_mcrf4xx(s)
                             /\ table16 = crc16_cal(s) /\ table32 = crc32_cal(s)
  BY DEF CrcIncremental
<1>2. PICK r \in Register(16), w \in Register(32) : r = Register16(s) /\ w = Register32(s)
  BY Register16Takes, Register32Type
<1>3. bitwise = Low16(r) /\ table16 = Low16(r) /\ serial_crc16_mcrf4xx(s) = Low16(r)
  BY <1>1, <1>2, BitwiseIsRegister, Table16IsRegister, SerialIsRegister
<1>4. table32 = Word32(w)
  BY <1>1, <1>2, Table32IsRegister
<1>5. BitsOf(bitwise, 16) = Reverse(r)
  BY <1>3, BitsOfLow
<1>6. BitsOf(table32[1], 16) \o BitsOf(table32[2], 16) = w
  <2>1. table32[1] = Upper32(w) /\ table32[2] = Lower32(w)
    BY <1>4 DEF Word32
  <2> QED
    BY <2>1, BitsOfWord
<1>7. /\ DivisionCrc(ReflectedBits, <<1>> \o BitsOf(4129, 16)) = r
      /\ DivisionCrc(MessageBits, <<1>> \o BitsOf(1217, 16) \o BitsOf(7607, 16)) = w
  BY <1>1, <1>2, DivisionsAre
<1> QED
  BY ONLY CrcIncremental, <1>1, <1>3, <1>5, <1>6, <1>7 DEF CrcAgrees

\* The two stacks, the two tables and the test tool agree on the CRC of every
\* message, which is the remainder of a division by the generator polynomial.
THEOREM ChecksumsAgree == CrcSpec => []CrcAgrees
<1>1. CrcIncremental => CrcAgrees
  BY IncrementalAgrees
<1> QED
  BY <1>1, ChecksumsIncremental, PTL
=============================================================================
