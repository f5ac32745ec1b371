----------------------------- MODULE EcdsaP256 -----------------------------
(***************************************************************************)
(* ecdsa_p256.c on a curve small enough to check: the same limbs,          *)
(* Montgomery products, Jacobian points and loops, with the width of a     *)
(* limb, their number and the curve y^2 = x^3 - 3x + B as parameters.      *)
(* Numbers of several limbs are sequences, the lowest limb first.          *)
(*                                                                         *)
(* A test that is never true, on the first limb of a number or the length  *)
(* of a sequence, makes TLC evaluate an argument before it recurs.         *)
(***************************************************************************)
EXTENDS Integers, Sequences

CONSTANTS LimbBits, NLIMBS,
          P, N, B,              \* the prime, the order, the curve
          Gx, Gy,
          Tries,                \* 64 in the code
          Streams,              \* what the random number generator may return
          Digests, Offsets      \* digests signed; what is added to verify others

ASSUME CurveAssumption ==
  /\ (LimbBits * NLIMBS) % 4 = 0 /\ LimbBits % 4 = 0
  /\ P < 2 ^ (LimbBits * NLIMBS) /\ N < P /\ P < 2 * N

VARIABLES key,          \* [d, x, y] of ecdsa_p256_generate_keypair, or NoKey
          signature,    \* [z, r, s] of ecdsa_p256_sign_digest, or Unsigned
          request,      \* what the signature was asked for
          verdict       \* of ecdsa_p256_verify_digest, and what it was about

ecdsaVars == <<key, signature, request, verdict>>
NoKey == [d |-> 0]
Fail == [failed |-> TRUE]
NotYet == [failed |-> FALSE]

Base == 2 ^ LimbBits
NBITS == LimbBits * NLIMBS
Limb == 1 .. NLIMBS
Limbs(n) == [i \in Limb |-> (n \div Base ^ (i - 1)) % Base] \o << >>
Value(a) ==
  LET sum[i \in 0 .. NLIMBS] == IF i = 0 THEN 0 ELSE sum[i - 1] + a[i] * Base ^ (i - 1)
  IN  sum[NLIMBS]
R == 2 ^ NBITS
Mont(n, m) == Limbs((n * R) % m)
-----------------------------------------------------------------------------
P256_P == Limbs(P)
P256_N == Limbs(N)
P256_P_R2 == Mont(R % P, P)
P256_N_R2 == Mont(R % N, N)
P256_P_ONE == Mont(1, P)
P256_N_ONE == Mont(1, N)
P256_P_THREE == Mont(3, P)
P256_B_MONT == Mont(B, P)
P256_G_MONT == [x |-> Mont(Gx, P), y |-> Mont(Gy, P)]
n0inv(m) == CHOOSE q \in 0 .. Base - 1 : (q * m[1] + 1) % Base = 0
Zero == Limbs(0)

u256_is_zero(a) == \A i \in Limb : a[i] = 0

\* u256_cmp(a, b) < 0
u256_less(a, b) ==
  \E i \in Limb : a[i] < b[i] /\ \A j \in i + 1 .. NLIMBS : a[j] = b[j]

\* The sums of the limbs and their carries, -1 for a borrow, into a number.
Carried256(sum) ==
  [r |-> [i \in Limb |-> sum[i] % Base] \o << >>, carry |-> sum[NLIMBS] \div Base]

u256_sub_raw(a, b) ==
  LET sum[i \in 0 .. NLIMBS] == IF i = 0 THEN 0 ELSE a[i] - b[i] + (sum[i - 1] \div Base)
  IN  Carried256(sum)

u256_add_raw(a, b) ==
  LET sum[i \in 0 .. NLIMBS] == IF i = 0 THEN 0 ELSE a[i] + b[i] + (sum[i - 1] \div Base)
  IN  Carried256(sum)

\* The sum t less m, if it is too large; the difference t and m, if it is negative.
LessM(t, m) == IF t.carry # 0 \/ ~u256_less(t.r, m) THEN u256_sub_raw(t.r, m).r ELSE t.r
PlusM(t, m) == IF t.carry # 0 THEN u256_add_raw(t.r, m).r ELSE t.r
mod_add(a, b, m) == LessM(u256_add_raw(a, b), m)
mod_sub(a, b, m) == PlusM(u256_sub_raw(a, b), m)

\* From and to the bytes of a key or a signature: a number here.
u256_from_be(n) == Limbs(n)
u256_to_be(a) == Value(a)
u256_bit(a, bit) == (a[bit \div LimbBits + 1] \div 2 ^ (bit % LimbBits)) % 2

\* t += x * w, from limb i on, and the carry as far as it goes.
RECURSIVE Accumulate(_, _, _, _, _, _)
Accumulate(t, i, x, w, j, carry) ==
  IF j >= NLIMBS /\ carry = 0 THEN t
  ELSE LET uv == (IF j < NLIMBS THEN x * w[j + 1] ELSE 0) + t[i + j + 1] + carry
       IN  Accumulate([t EXCEPT ![i + j + 1] = uv % Base], i, x, w, j + 1, uv \div Base)

\* Makes limb i of t zero by adding a multiple of m.
Cleared(t, i, m) == Accumulate(t, i - 1, (t[i] * n0inv(m)) % Base, m, 0, 0)

\* The limbs above those that were cleared, and their carry.
Upper(t) == [r |-> SubSeq(t, NLIMBS + 1, 2 * NLIMBS), carry |-> t[2 * NLIMBS + 1]]

mont_mul(a, b, m) ==
  LET t[i \in 0 .. NLIMBS] ==
        IF i = 0 THEN [k \in 1 .. 2 * NLIMBS + 1 |-> 0] \o << >>
        ELSE Cleared(Accumulate(t[i - 1], i - 1, b[i], a, 0, 0), i, m)
  IN  LessM(Upper(t[NLIMBS]), m)

mont_from(a, m, r2) == mont_mul(a, r2, m)
mont_to(a, m) == mont_mul(a, Limbs(1), m)

field_mul(a, b) == mont_mul(a, b, P256_P)
field_sqr(a) == field_mul(a, a)
field_add(a, b) == mod_add(a, b, P256_P)
field_sub(a, b) == mod_sub(a, b, P256_P)
scalar_mul(a, b) == mont_mul(a, b, P256_N)
scalar_add(a, b) == mod_add(a, b, P256_N)

\* The bits of e from bit n - 1 down, after those that gave result.
RECURSIVE Powers(_, _, _, _, _)
Powers(result, a, e, m, n) ==
  LET square == mont_mul(result, result, m)
      next == IF u256_bit(e, n - 1) = 1 THEN mont_mul(square, a, m) ELSE square
  IN  IF n = 0 \/ next[1] < 0 THEN result ELSE Powers(next, a, e, m, n - 1)

mont_pow(a, e, m, one) == Powers(one, a, e, m, NBITS)

\* The caller has made sure that a is not zero, or turns away what is.
field_inv(a) == mont_pow(a, Limbs(P - 2), P256_P, P256_P_ONE)
scalar_inv(a) == mont_pow(a, Limbs(N - 2), P256_N, P256_N_ONE)
-----------------------------------------------------------------------------
Infinity == [x |-> Zero, y |-> Zero, z |-> Zero, infinity |-> TRUE]
Point(x, y, z) == [x |-> x, y |-> y, z |-> z, infinity |-> FALSE]

Twice(a) == field_add(a, a)

DoubleOf(p, delta, gamma) ==
  LET beta4 == Twice(Twice(field_mul(p.x, gamma)))
      product == field_mul(field_sub(p.x, delta), field_add(p.x, delta))
      alpha == field_add(Twice(product), product)
      x3 == field_sub(field_sqr(alpha), Twice(beta4))
      z3 == field_sub(field_sub(field_sqr(field_add(p.y, p.z)), gamma), delta)
      gamma8 == Twice(Twice(Twice(field_sqr(gamma))))
  IN  Point(x3, field_sub(field_mul(alpha, field_sub(beta4, x3)), gamma8), z3)

point_double(p) ==
  IF p.infinity \/ u256_is_zero(p.y) THEN Infinity
  ELSE DoubleOf(p, field_sqr(p.z), field_sqr(p.y))

AddOf(p, z1z1, h, rr) ==
  LET i == field_sqr(Twice(h))
      j == field_mul(h, i)
      v == field_mul(p.x, i)
      x3 == field_sub(field_sub(field_sub(field_sqr(Twice(rr)), j), v), v)
      y3 == field_sub(field_mul(Twice(rr), field_sub(v, x3)), Twice(field_mul(p.y, j)))
      z3 == field_sub(field_sub(field_sqr(field_add(p.z, h)), z1z1), field_sqr(h))
  IN  IF ~u256_is_zero(h) THEN Point(x3, y3, z3)
      ELSE IF u256_is_zero(rr) THEN point_double(p) ELSE Infinity

point_add_mixed(p, q) ==
  LET z1z1 == field_sqr(p.z)
      u2 == field_mul(q.x, z1z1)
      s2 == field_mul(field_mul(p.z, z1z1), q.y)
  IN  IF p.infinity THEN Point(q.x, q.y, P256_P_ONE)
      ELSE AddOf(p, z1z1, field_sub(u2, p.x), field_sub(s2, p.y))

point_to_affine(p) ==
  LET zinv == field_inv(p.z)
      z2 == field_sqr(zinv)
  IN  IF p.infinity \/ u256_is_zero(p.z) THEN Fail
      ELSE [failed |-> FALSE, x |-> field_mul(p.x, z2),
            y |-> field_mul(p.y, field_mul(z2, zinv))]
-----------------------------------------------------------------------------
(* Curve arithmetic as in a textbook, with plain integers modulo P.        *)
PInverse == [a \in 0 .. P - 1 |-> IF a = 0 THEN 0 ELSE CHOOSE b \in 1 .. P - 1 : (a * b) % P = 1]
NInverse == [a \in 0 .. N - 1 |-> IF a = 0 THEN 0 ELSE CHOOSE b \in 1 .. N - 1 : (a * b) % N = 1]

AffineAdd(a, b) ==      \* << >> is the point at infinity
  LET slope == IF a = b THEN (3 * a[1] * a[1] - 3) * PInverse[(2 * a[2]) % P]
               ELSE (b[2] - a[2]) * PInverse[(b[1] - a[1]) % P]
      m == slope % P
      x == (m * m - a[1] - b[1]) % P
  IN  IF a = << >> THEN b
      ELSE IF b = << >> THEN a
      ELSE IF a[1] = b[1] /\ (a[2] + b[2]) % P = 0 THEN << >>
      ELSE <<x, (m * (a[1] - x) - a[2]) % P>>

\* The multiples 1 * G to n * G, by adding G to the last.
RECURSIVE Extended(_, _)
Extended(s, n) ==
  IF n = 0 \/ Len(s) = 0 THEN s
  ELSE IF n = 1 THEN Append(s, AffineAdd(s[Len(s)], <<Gx, Gy>>))
  ELSE Extended(Extended(s, n \div 2), n - n \div 2)

Multiple == Extended(<< <<Gx, Gy>> >>, N - 1)
TimesG(n) == Multiple[IF n % N = 0 THEN N ELSE n % N]
-----------------------------------------------------------------------------
P256_G_TABLE_MONT ==
  [n \in 1 .. 15 |-> [x |-> Mont(Multiple[n][1], P), y |-> Mont(Multiple[n][2], P)]]

\* The four-bit windows of k below bit n, after those that gave acc.
AddWindow(p, nibble) ==
  IF nibble = 0 THEN p ELSE point_add_mixed(p, P256_G_TABLE_MONT[nibble])

RECURSIVE Windows(_, _, _)
Windows(acc, k, n) ==
  IF n = 0 \/ acc.x[1] < 0 THEN acc
  ELSE Windows(AddWindow(point_double(point_double(point_double(point_double(acc)))),
                         u256_bit(k, n - 4) + 2 * u256_bit(k, n - 3)
                         + 4 * u256_bit(k, n - 2) + 8 * u256_bit(k, n - 1)), k, n - 4)

point_mul_base(k) ==
  IF u256_is_zero(k) THEN Fail ELSE point_to_affine(Windows(Infinity, k, NBITS))

point_add_affine(a, b) == point_to_affine(point_add_mixed(Point(a.x, a.y, P256_P_ONE), b))

\* The bits of u1 and u2 below bit n, with G, q and their sum at hand.
AddChosen(p, bits, q, g_plus_q) ==
  CASE bits = <<0, 0>> -> p
    [] bits = <<1, 0>> -> point_add_mixed(p, P256_G_MONT)
    [] bits = <<0, 1>> -> point_add_mixed(p, q)
    [] bits = <<1, 1>> /\ ~g_plus_q.failed -> point_add_mixed(p, g_plus_q)
    [] OTHER -> point_add_mixed(point_add_mixed(p, P256_G_MONT), q)

RECURSIVE TwoBits(_, _, _, _, _, _)
TwoBits(acc, u1, q, u2, g_plus_q, n) ==
  IF n = 0 \/ acc.x[1] < 0 THEN acc
  ELSE TwoBits(AddChosen(point_double(acc), <<u256_bit(u1, n - 1), u256_bit(u2, n - 1)>>,
                         q, g_plus_q), u1, q, u2, g_plus_q, n - 1)

point_double_mul(u1, q, u2) ==
  point_to_affine(TwoBits(Infinity, u1, q, u2, point_add_affine(P256_G_MONT, q), NBITS))

point_is_on_curve(p) ==
  LET x3 == field_mul(field_sqr(p.x), p.x)
  IN  field_sqr(p.y) = field_add(field_sub(x3, field_mul(P256_P_THREE, p.x)), P256_B_MONT)

InRange(a) == ~u256_is_zero(a) /\ u256_less(a, P256_N)
parse_private(d) == InRange(u256_from_be(d))

\* The first usable number of what is left of the generator's stream, within
\* Tries of them; the generator fails at the end of the stream.
random_scalar(stream) ==
  LET usable == {i \in 1 .. Len(stream) : i <= Tries /\ InRange(u256_from_be(stream[i]))}
      first == CHOOSE i \in usable : \A j \in usable : i <= j
  IN  IF usable = {} THEN Fail
      ELSE [failed |-> FALSE, k |-> u256_from_be(stream[first]),
            rest |-> SubSeq(stream, first + 1, Len(stream))]

KeyOf(random, q) ==
  IF random.failed \/ q.failed THEN NoKey
  ELSE [d |-> u256_to_be(random.k), x |-> u256_to_be(mont_to(q.x, P256_P)),
        y |-> u256_to_be(mont_to(q.y, P256_P))]

generate_keypair(stream) ==
  LET random == random_scalar(stream) IN KeyOf(random, point_mul_base(random.k))

Reduced(a) == IF u256_less(a, P256_N) THEN a ELSE u256_sub_raw(a, P256_N).r

\* The loop of ecdsa_p256_sign_digest: what is left of its tries, and one of
\* them once r is known.
RECURSIVE SignTry(_, _, _, _), SignWith(_, _, _, _, _)
SignTry(d_m, z_m, stream, tries) ==
  LET random == random_scalar(stream)
  IN  IF tries = 0 \/ random.failed THEN Fail
      ELSE SignWith(d_m, z_m, random,
                    Reduced(mont_to(point_mul_base(random.k).x, P256_P)), tries)

SignWith(d_m, z_m, random, r, tries) ==
  LET kinv_m == scalar_inv(mont_from(random.k, P256_N, P256_N_R2))
      r_m == mont_from(r, P256_N, P256_N_R2)
      s == mont_to(scalar_mul(kinv_m, scalar_add(scalar_mul(r_m, d_m), z_m)), P256_N)
  IN  IF u256_is_zero(r) \/ u256_is_zero(s)
      THEN SignTry(d_m, z_m, random.rest, tries - 1)
      ELSE [failed |-> FALSE, r |-> u256_to_be(r), s |-> u256_to_be(s)]

sign_digest(d, digest, stream) ==
  IF ~parse_private(d) THEN Fail
  ELSE SignTry(mont_from(u256_from_be(d), P256_N, P256_N_R2),
               mont_from(Reduced(u256_from_be(digest)), P256_N, P256_N_R2), stream, Tries)

\* Faulty variant (validates EcdsaIsStandard): x may be past the order.
IsX_unreduced(sum, r) == ~sum.failed /\ mont_to(sum.x, P256_P) = r

IsX(sum, r) == ~sum.failed /\ Reduced(mont_to(sum.x, P256_P)) = r

verify_digest(qx, qy, digest, r, s) ==
  LET x == u256_from_be(qx)
      y == u256_from_be(qy)
      q == [x |-> mont_from(x, P256_P, P256_P_R2), y |-> mont_from(y, P256_P, P256_P_R2)]
      w_m == scalar_inv(mont_from(u256_from_be(s), P256_N, P256_N_R2))
      z_m == mont_from(Reduced(u256_from_be(digest)), P256_N, P256_N_R2)
      r_m == mont_from(u256_from_be(r), P256_N, P256_N_R2)
      sum == point_double_mul(mont_to(scalar_mul(z_m, w_m), P256_N), q,
                              mont_to(scalar_mul(r_m, w_m), P256_N))
  IN  /\ u256_less(x, P256_P) /\ u256_less(y, P256_P)
      /\ point_is_on_curve(q)
      /\ InRange(u256_from_be(r)) /\ InRange(u256_from_be(s))
      /\ IsX(sum, u256_from_be(r))
-----------------------------------------------------------------------------
EcdsaInit ==
  key = NoKey /\ signature = NotYet /\ request = << >> /\ verdict = NotYet

GenerateKeypair(stream) ==
  /\ key = NoKey /\ request = << >>
  /\ key' = generate_keypair(stream)
  /\ request' = stream
  /\ UNCHANGED <<signature, verdict>>

Sign(digest, stream) ==
  /\ key # NoKey /\ signature = NotYet
  /\ signature' = sign_digest(key.d, digest, stream)
  /\ request' = <<digest, stream>>
  /\ UNCHANGED <<key, verdict>>

\* The key, the digest, r and s as they were made, or something near them.
Verify(o) ==
  /\ signature # NotYet /\ ~signature.failed /\ verdict = NotYet
  /\ LET asked == [y |-> (key.y + o[1]) % R, z |-> (request[1] + o[2]) % R,
                   r |-> (signature.r + o[3]) % R, s |-> (signature.s + o[4]) % R]
     IN  verdict' = [asked |-> asked, offsets |-> o, accepted |->
                       verify_digest(key.x, asked.y, asked.z, asked.r, asked.s)]
  /\ UNCHANGED <<key, signature, request>>

EcdsaNext ==
  \/ \E stream \in Streams : GenerateKeypair(stream)
  \/ \E digest \in Digests, stream \in Streams : Sign(digest, stream)
  \/ \E o \in Offsets : Verify(o)
-----------------------------------------------------------------------------
(* ECDSA as in the standard, over the table of multiples of G.             *)
Usable(stream) == {i \in DOMAIN stream : i <= Tries /\ stream[i] \in 1 .. N - 1}

StandardSignature(d, z, k) ==
  LET r == TimesG(k)[1] % N IN [r |-> r, s |-> (NInverse[k] * ((z + r * d) % N)) % N]

StandardVerdict(d, z, r, s) ==
  /\ r \in 1 .. N - 1 /\ s \in 1 .. N - 1
  /\ LET w == NInverse[s]
         sum == TimesG((((z % N) * w) % N) + ((((r * w) % N) * d) % N))
     IN  sum # << >> /\ sum[1] % N = r

\* Keys, signatures and verdicts are those of the standard, whatever the
\* carries of the limbs and the special cases of the point additions (the sum
\* of a point and itself, or its opposite): a key pair is d and d * G, a
\* signature is made with the first number that gives no zero, it verifies,
\* and anything else is accepted only if the equation holds.
EcdsaIsStandard ==
  /\ key # NoKey /\ request # << >> /\ signature = NotYet =>
       LET first == CHOOSE i \in Usable(request) : \A j \in Usable(request) : i <= j
       IN  key.d = request[first] /\ <<key.x, key.y>> = TimesG(key.d)
  /\ key = NoKey /\ request # << >> => Usable(request) = {}
  /\ signature # NotYet /\ verdict = NotYet =>
       LET good == {i \in Usable(request[2]) :
                      LET s == StandardSignature(key.d, request[1], request[2][i])
                      IN  s.r # 0 /\ s.s # 0}
           first == CHOOSE i \in good : \A j \in good : i <= j
       IN  IF good = {} THEN signature.failed
           ELSE /\ ~signature.failed
                /\ [r |-> signature.r, s |-> signature.s]
                     = StandardSignature(key.d, request[1], request[2][first])
  /\ verdict # NotYet =>
       LET a == verdict.asked IN
         /\ verdict.accepted <=>
              /\ <<key.x, a.y>> \in {Multiple[i] : i \in 1 .. N - 1}
              /\ LET d == CHOOSE i \in 1 .. N - 1 : Multiple[i] = <<key.x, a.y>>
                 IN  StandardVerdict(d, a.z, a.r, a.s)
         /\ verdict.offsets = <<0, 0, 0, 0>> => verdict.accepted
=============================================================================
