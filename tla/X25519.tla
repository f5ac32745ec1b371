------------------------------- MODULE X25519 -------------------------------
(***************************************************************************)
(* x25519.c over a field small enough to check: the prime 2^PrimeBits - 19 *)
(* in FieldLimbs limbs of FieldBits bits, where the code has 2^255 - 19 in *)
(* sixteen limbs of 16 bits.  As there, the limbs hold one bit more than   *)
(* the prime, a limb may be negative or too large until it is carried, and *)
(* 2^(PrimeBits + 1) is 38.  A key is a number; a field element (fe) is    *)
(* the sequence of its limbs, the lowest first.                            *)
(*                                                                         *)
(* A test that is never true, on the first limb of a number or the length  *)
(* of a sequence, makes TLC evaluate an argument before it recurs.         *)
(***************************************************************************)
EXTENDS Integers, Sequences

CONSTANTS FieldBits, FieldLimbs,
          Low121665,            \* 0xdb41: the lowest limb of (A - 2) / 4
          Privates, Peers       \* what the generator and a peer may send

PrimeBits == FieldBits * FieldLimbs - 1
FieldBase == 2 ^ FieldBits
Prime == 2 ^ PrimeBits - 19

ASSUME FieldAssumption == FieldLimbs >= 2 /\ FieldBase > 19 /\ Low121665 \in 0 .. FieldBase - 1

VARIABLES pairs,        \* the key pairs made: [private_key, public_key]
          shared        \* what x25519_shared_key returned, or << >>

x25519Vars == <<pairs, shared>>

Index == 1 .. FieldLimbs
x25519_basepoint == 9
FeOf(n) == [i \in Index |-> (n \div FieldBase ^ (i - 1)) % FieldBase] \o << >>
One == FeOf(1)
-----------------------------------------------------------------------------
\* Limb i passes its carry on; the last one's comes back times 38.
Carried(o, i) ==
  LET c == o[i] \div FieldBase
      to == (i % FieldLimbs) + 1
      more == IF i = FieldLimbs THEN 38 * c ELSE c
  IN  [[o EXCEPT ![i] = @ - c * FieldBase] EXCEPT ![to] = @ + more]

RECURSIVE CarriedFrom(_, _)
CarriedFrom(o, i) ==
  IF Len(o) = 0 \/ i > FieldLimbs THEN o ELSE CarriedFrom(Carried(o, i), i + 1)

car25519(o) == CarriedFrom(o, 1)

sel25519(p, q, b) == IF b = 1 THEN <<q, p>> ELSE <<p, q>>

\* t - Prime, limb by limb, and the borrow of the last one.
Subtracted(t) ==
  LET least(i) == IF i = 1 THEN FieldBase - 19
                  ELSE IF i = FieldLimbs THEN (FieldBase \div 2) - 1 ELSE FieldBase - 1
      raw[i \in Index] ==
        t[i] - least(i) - (IF i = 1 THEN 0 ELSE (raw[i - 1] \div FieldBase) % 2)
  IN  [m |-> [i \in Index |-> IF i = FieldLimbs THEN raw[i] ELSE raw[i] % FieldBase] \o << >>,
       b |-> (raw[FieldLimbs] \div FieldBase) % 2]

\* Faulty variant (validates X25519IsStandard): kept if it was too much.
Reduced25519_borrowed(t) == LET s == Subtracted(t) IN sel25519(t, s.m, s.b)[1]

Reduced25519(t) == LET s == Subtracted(t) IN sel25519(t, s.m, 1 - s.b)[1]

pack25519(n) ==
  LET t == Reduced25519(Reduced25519(car25519(car25519(car25519(n)))))
      byte == t[FieldLimbs] % FieldBase
  IN  [t EXCEPT ![FieldLimbs] = byte]

unpack25519(n) == [FeOf(n) EXCEPT ![FieldLimbs] = @ % (FieldBase \div 2)]

fe_add(a, b) == [i \in Index |-> a[i] + b[i]] \o << >>
fe_sub(a, b) == [i \in Index |-> a[i] - b[i]] \o << >>

\* The products of each weight, those past the last limb folded back times 38.
Wrapped(t) ==
  car25519(car25519([i \in Index |->
    t[i] + (IF i < FieldLimbs THEN 38 * t[i + FieldLimbs] ELSE 0)] \o << >>))

\* f[1] + ... + f[n]
RECURSIVE SumTo(_, _)
SumTo(f, n) == IF n = 0 THEN 0 ELSE f[n] + SumTo(f, n - 1)

fe_mul(a, b) ==
  LET product(w, i) == IF w + 1 - i \in Index THEN a[i] * b[w + 1 - i] ELSE 0
  IN  Wrapped([w \in 1 .. 2 * FieldLimbs - 1 |->
        SumTo([i \in Index |-> product(w, i)], FieldLimbs)] \o << >>)

fe_square(a) ==
  LET product(w, i) == LET j == w + 1 - i IN
                         CASE j \notin i .. FieldLimbs -> 0
                           [] j = i -> a[i] * a[i]
                           [] OTHER -> 2 * a[i] * a[j]
  IN  Wrapped([w \in 1 .. 2 * FieldLimbs - 1 |->
        SumTo([i \in Index |-> product(w, i)], FieldLimbs)] \o << >>)

fe_mul121665(a) ==
  car25519(car25519([i \in Index |->
    a[i] * Low121665 + (IF i = 1 THEN 38 * a[FieldLimbs] ELSE a[i - 1])] \o << >>))

\* To the power Prime - 2, whose bits 2 and 4 are the only ones that are 0:
\* the turns a, ..., 0 of the loop.
RECURSIVE Inverted(_, _, _)
Inverted(c, i, a) ==
  LET square == fe_square(c)
      next == IF a \in {2, 4} THEN square ELSE fe_mul(square, i)
  IN  IF Len(c) = 0 \/ a < 0 THEN c ELSE Inverted(next, i, a - 1)

inv25519(i) == Inverted(i, i, PrimeBits - 2)
-----------------------------------------------------------------------------
\* z[0] &= 248, and of the highest byte &= 127, |= 64.
Clamped(k) == ((k % 2 ^ (PrimeBits - 1)) \div 8) * 8 + 2 ^ (PrimeBits - 1)

\* One turn of the ladder: the swap is the bit's difference to the last one.
LadderStep(s, r, x) ==
  LET ab == sel25519(s.a, s.b, (s.swap + r) % 2)
      cd == sel25519(s.c, s.d, (s.swap + r) % 2)
      e == fe_add(ab[1], cd[1])
      d == fe_square(e)
      f == fe_square(fe_sub(ab[1], cd[1]))
      a == fe_mul(fe_add(ab[2], cd[2]), fe_sub(ab[1], cd[1]))
      c == fe_mul(fe_sub(ab[2], cd[2]), e)
      df == fe_sub(d, f)
  IN  [swap |-> r,
       a |-> fe_mul(d, f),
       b |-> fe_square(fe_add(a, c)),
       c |-> fe_mul(df, fe_add(fe_mul121665(df), d)),
       d |-> fe_mul(fe_square(fe_sub(a, c)), x)]

RECURSIVE Ladder(_, _, _, _)
Ladder(s, z, x, i) ==   \* the turns i, ..., 0
  IF s.swap > 1 \/ i < 0 THEN s
  ELSE Ladder(LadderStep(s, (z \div 2 ^ i) % 2, x), z, x, i - 1)

\* a / c, after the swap that is still to be done.
Quotient(s) ==
  pack25519(fe_mul(sel25519(s.a, s.b, s.swap)[1], inv25519(sel25519(s.c, s.d, s.swap)[1])))

x25519_raw(k, u) ==
  LET x == unpack25519(u)
  IN  Quotient(Ladder([a |-> One, b |-> x, c |-> FeOf(0), d |-> One, swap |-> 0],
                      Clamped(k), x, PrimeBits - 1))

is_all_zero(in) == \A i \in Index : in[i] = 0

\* The generator gives a number, or fails: << >>.
x25519_generate_keypair(random) ==
  IF random = << >> THEN [ret |-> -1, pair |-> << >>]
  ELSE [ret |-> 0, pair |-> [private_key |-> random[1],
                             public_key |-> x25519_raw(random[1], x25519_basepoint)]]

x25519_shared_key(private_key, peer) ==
  LET returned(key) == [ret |-> IF is_all_zero(key) THEN -2 ELSE 0, key |-> key]
  IN  returned(x25519_raw(private_key, peer))
-----------------------------------------------------------------------------
X25519Init == pairs = << >> /\ shared = << >>

\* Only a pair whose making has returned 0 is used.
GeneratePair(random) ==
  /\ Len(pairs) < 2 /\ shared = << >>
  /\ LET made == x25519_generate_keypair(random)
     IN  pairs' = IF made.ret = 0 THEN Append(pairs, made.pair) ELSE pairs
  /\ UNCHANGED shared

Number(a) == SumTo([i \in Index |-> a[i] * FieldBase ^ (i - 1)], FieldLimbs)

\* Both parties, each with the public key of the other.
Exchange ==
  /\ Len(pairs) = 2 /\ shared = << >>
  /\ shared' = [i \in 1 .. 2 |-> x25519_shared_key(pairs[i].private_key,
                                                  Number(pairs[3 - i].public_key))] \o << >>
  /\ UNCHANGED pairs

\* A public key that nobody made.
Foreign(peer) ==
  /\ Len(pairs) = 1 /\ shared = << >>
  /\ shared' = <<x25519_shared_key(pairs[1].private_key, peer), peer>>
  /\ UNCHANGED pairs

X25519Next ==
  \/ \E random \in {<< >>} \cup {<<k>> : k \in Privates} : GeneratePair(random)
  \/ Exchange
  \/ \E peer \in Peers : Foreign(peer)
-----------------------------------------------------------------------------
(* The x coordinates of the multiples of a point of y^2 = x^3 + A x^2 + x, *)
(* with integers modulo Prime and one division per addition.               *)
AFactor == 4 * (Low121665 + FieldBase) + 2
Times(a, b) == (((((a * (b \div 1024)) % Prime) * 1024) % Prime) + a * (b % 1024)) % Prime

RECURSIVE Power(_, _)
Power(a, n) ==
  LET half == Power(a, n \div 2)
      square == Times(half, half)
  IN  IF n = 0 THEN 1 ELSE IF n % 2 = 1 THEN Times(square, a) ELSE square

Reciprocal(a) == Power(a, Prime - 2)

Nowhere == -1           \* the x of the point at infinity

Doubled(x) ==
  LET xx == Times(x, x)
      y2 == Times(x, (xx + Times(AFactor, x) + 1) % Prime)
      t == (xx - 1) % Prime
  IN  IF x = Nowhere \/ y2 = 0 THEN Nowhere
      ELSE Times(Times(t, t), Reciprocal((4 * y2) % Prime))

\* The sum of two points whose difference has x coordinate u, not 0.
Summed(x, y, u) ==
  LET t == (Times(x, y) - 1) % Prime
      s == (x - y) % Prime
  IN  CASE x = Nowhere -> y
        [] y = Nowhere -> x
        [] x = y -> Nowhere
        [] OTHER -> Times(Times(t, t), Reciprocal(Times(Times(s, s), u)))

RECURSIVE Multiples(_, _)
Multiples(m, u) ==      \* m times the point and m + 1 times
  LET p == Multiples(m \div 2, u)
      sum == Summed(p[1], p[2], u)
  IN  IF m = 0 THEN <<Nowhere, u>>
      ELSE IF m % 2 = 1 THEN <<sum, Doubled(p[2])>> ELSE <<Doubled(p[1]), sum>>

Standard(k, peer) ==
  LET u == (peer % 2 ^ PrimeBits) % Prime
      x == Multiples(Clamped(k), u)[1]
  IN  IF u = 0 \/ x = Nowhere THEN 0 ELSE x

\* A public key is the standard's multiple of the base point, reduced below
\* the prime; two parties derive the same secret; a secret from any bytes
\* (a value at or past the prime, or of a point of small order) is the
\* standard's, and -2 is returned for exactly those whose secret is zero.
X25519IsStandard ==
  /\ shared = << >> => \A i \in DOMAIN pairs :
       Number(pairs[i].public_key) = Standard(pairs[i].private_key, x25519_basepoint)
  /\ Len(pairs) = 2 /\ shared # << >> => shared[1] = shared[2] /\ shared[1].ret = 0
  /\ Len(pairs) = 1 /\ shared # << >> =>
       LET secret == Standard(pairs[1].private_key, shared[2])
       IN  /\ Number(shared[1].key) = secret
           /\ shared[1].ret = (IF secret = 0 THEN -2 ELSE 0)
=============================================================================
