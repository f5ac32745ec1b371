------------------------------- MODULE Sha256 -------------------------------
(***************************************************************************)
(* sha256.c: a digest of a message that comes in pieces.  Words have 32    *)
(* bits, as in the code; the state is the context of one computation and   *)
(* the message so far.                                                     *)
(***************************************************************************)
EXTENDS Words, SequencesExt

CONSTANTS Pieces,       \* what update may be called with, as bytes
          MaxUpdates

ASSUME ShaAssumption == Pieces \subseteq Seq(Byte) /\ MaxUpdates \in Nat

VARIABLES context,      \* sha256_context_t
          hashed,       \* the message update has been given
          updates,      \* calls of update, for the bound
          digest        \* of sha256_final, << >> before

shaVars == <<context, hashed, updates, digest>>
BLOCK_SIZE == 64
-----------------------------------------------------------------------------
\* x >> n and ROR(x, n), for the n < 16, and those beyond with halves swapped.
Shr(x, n) == <<x[1] \div 2^n, (x[1] % 2^n) * 2^(16 - n) + x[2] \div 2^n>>
Swapped(n, x) == IF n < 16 THEN <<x[1], x[2]>> ELSE <<x[2], x[1]>>
ROR(x, n) ==
  LET y == Swapped(n, x)
      m == n % 16
  IN  <<(y[2] % 2^m) * 2^(16 - m) + y[1] \div 2^m,
        (y[1] % 2^m) * 2^(16 - m) + y[2] \div 2^m>>

Xor3(x, y, z) == XorWord(x, XorWord(y, z))
CH(x, y, z) == XorWord(AndWord(x, y), AndWord(NotWord(x), z))
MAJ(x, y, z) == Xor3(AndWord(x, y), AndWord(x, z), AndWord(y, z))
S0(x) == Xor3(ROR(x, 2), ROR(x, 13), ROR(x, 22))
S1(x) == Xor3(ROR(x, 6), ROR(x, 11), ROR(x, 25))
G0(x) == Xor3(ROR(x, 7), ROR(x, 18), Shr(x, 3))
G1(x) == Xor3(ROR(x, 17), ROR(x, 19), Shr(x, 10))
Add3(x, y, z) == AddWord(x, AddWord(y, z))

\* The upper and the lower halves of the round constants.
k_upper == <<
     17034, 28983, 46528, 59829, 14678, 23025, 37439, 43804, 55303, 4739, 9265, 21772, 29374,
     32990, 39900, 49563, 58523, 61374, 4033, 9228, 11753, 19060, 23728, 30457, 38974, 43057,
     45059, 48985, 50912, 54695, 1738, 5161, 10167, 11803, 19756, 21304, 25866, 30314, 33218,
     37490, 41663, 43034, 49739, 51052, 53650, 54937, 62478, 4202, 6564, 7735, 10056, 13488, 14620,
     20184, 23452, 26670, 29839, 30885, 33992, 36039, 37054, 42064, 48889, 50801 >>
k_lower == <<
     12184, 17553, 64463, 56229, 49755, 4593, 33444, 24277, 43672, 23297, 34238, 32195, 23924,
     45566, 1703, 61812, 27073, 18310, 40390, 41420, 11375, 33962, 43484, 35034, 20818, 50797,
     10184, 32711, 3059, 37191, 25425, 10599, 2693, 8504, 28156, 3347, 29524, 2747, 51502, 11397,
     59553, 26187, 35696, 20899, 59417, 1572, 13701, 41072, 49430, 27656, 30540, 48309, 3251,
     43594, 51791, 28659, 33518, 25455, 30740, 520, 65530, 27883, 41975, 30962 >>
k == [i \in 0 .. 63 |-> <<k_upper[i + 1], k_lower[i + 1]>>]

load32(p, at) == <<256 * p[at + 1] + p[at + 2], 256 * p[at + 3] + p[at + 4]>>
store32(x) == <<x[1] \div 256, x[1] % 256, x[2] \div 256, x[2] % 256>>

\* The low 64 bits of n, the most significant byte first.
store64(n) ==
  LET shifted[i \in 0 .. 7] == IF i = 0 THEN n ELSE shifted[i - 1] \div 256
  IN  [i \in 1 .. 8 |-> shifted[8 - i] % 256]

Turned(i, s, word, t1, t2) ==
  [v |-> [s.v EXCEPT ![(3 - i) % 8] = AddWord(@, t1), ![(7 - i) % 8] = AddWord(t1, t2)],
   w |-> [s.w EXCEPT ![i % 16] = word]]

\* ROUND number i: the registers stay, and the names a to h turn by one.  From
\* round 16 on SCHED replaces the word of 16 rounds ago in its place.
ROUND(i, s) ==
  LET r(n) == s.v[(n - i) % 8]
      w(n) == s.w[(i + n) % 16]
      word == IF i < 16 THEN w(0)
              ELSE AddWord(w(0), Add3(G1(w(14)), w(9), G0(w(1))))
      t1 == Add3(Add3(r(7), S1(r(4)), CH(r(4), r(5), r(6))), k[i], word)
      t2 == AddWord(S0(r(0)), MAJ(r(0), r(1), r(2)))
  IN  Turned(i, s, word, t1, t2)

\* The registers after the 64 rounds over the words w of a block.
Rounds(state, w) ==
  LET s[i \in 0 .. 64] ==
        IF i = 0 THEN [v |-> state, w |-> w] ELSE ROUND(i - 1, s[i - 1])
  IN  s[64].v

BlockWords(p, at) == [i \in 0 .. 15 |-> load32(p, at + 4 * i)]

\* The state after the block at p[at].
transform(state, p, at) ==
  LET done == Rounds(state, BlockWords(p, at))
  IN  [i \in 0 .. 7 |-> AddWord(state[i], done[i])]

\* The state after the first n blocks of p.
WholeBlocks(state, p, n) ==
  LET s[i \in 0 .. n] == IF i = 0 THEN state ELSE transform(s[i - 1], p, 64 * (i - 1))
  IN  s[n]

initial ==
  LET words == << <<27145, 58983>>, <<47975, 44677>>, <<15470, 62322>>, <<42319, 62778>>,
                  <<20750, 21119>>, <<39685, 26764>>, <<8067, 55723>>, <<23520, 52505>> >>
  IN  [i \in 0 .. 7 |-> words[i + 1]]

sha256_init ==
  [state |-> initial, total_size |-> 0, buffer_size |-> 0, buffer |-> Zeros(64)]

\* memcpy(buffer + from, p, n)
Copied(buffer, from, p) ==
  [i \in 1 .. 64 |-> IF i > from /\ i <= from + Len(p) THEN p[i - from] ELSE buffer[i]]

\* Into what free room is left of a block that has begun.
Filled(c, p, n) ==
  LET size == c.buffer_size + n
      full == Copied(c.buffer, c.buffer_size, SubSeq(p, 1, n))
  IN  [c EXCEPT !.buffer = full,
                !.buffer_size = IF size = BLOCK_SIZE THEN 0 ELSE size,
                !.state = IF size = BLOCK_SIZE THEN transform(@, full, 0) ELSE @]

\* The whole blocks straight from p, what is left of it to the buffer.
Absorbed(c, p) ==
  LET blocks == Len(p) \div BLOCK_SIZE
      rest == SubSeq(p, 64 * blocks + 1, Len(p))
      c1 == [c EXCEPT !.state = WholeBlocks(@, p, blocks)]
  IN  IF rest = << >> THEN c1
      ELSE [c1 EXCEPT !.buffer = Copied(@, 0, rest), !.buffer_size = Len(rest)]

sha256_update(c, p) ==
  LET size == Len(p)
      free == BLOCK_SIZE - c.buffer_size
      n == IF c.buffer_size = 0 THEN 0 ELSE IF free > size THEN size ELSE free
      counted == [c EXCEPT !.total_size = @ + size]
  IN  Absorbed(Filled(counted, p, n), SubSeq(p, n + 1, size))

\* Faulty variant (validates DigestIsStandard): one byte too many.
crowded_late(size) == size > 57

\* The words one after the other.
DigestOf(h) == [j \in 1 .. 32 |-> store32(h[(j - 1) \div 4])[1 + ((j - 1) % 4)]]

\* No room for the length in this block.
crowded(size) == size > 56

sha256_final(c) ==
  LET marked == Copied(c.buffer, c.buffer_size, <<128>>)
      size == c.buffer_size + 1
      state == IF crowded(size)
               THEN transform(c.state, Copied(marked, size, Zeros(64 - size)), 0)
               ELSE c.state
      from == IF crowded(size) THEN 0 ELSE size
      last == Copied(Copied(marked, from, Zeros(56 - from)), 56, store64(8 * c.total_size))
      out == transform(state, last, 0)
  IN  DigestOf(out)

sha256_compute(p) == sha256_final(sha256_update(sha256_init, p))
-----------------------------------------------------------------------------
ShaInit == context = sha256_init /\ hashed = << >> /\ updates = 0 /\ digest = << >>

Update(piece) ==
  /\ digest = << >> /\ updates < MaxUpdates
  /\ context' = sha256_update(context, piece)
  /\ hashed' = hashed \o piece
  /\ updates' = updates + 1
  /\ UNCHANGED digest

\* crypto_secure_zero wipes the context, so it cannot go on from here.
Final ==
  /\ digest = << >>
  /\ digest' = sha256_final(context)
  /\ context' = [state |-> [i \in 0 .. 7 |-> <<0, 0>>], total_size |-> 0,
                 buffer_size |-> 0, buffer |-> Zeros(64)]
  /\ UNCHANGED <<hashed, updates>>

ShaNext == (\E piece \in Pieces : Update(piece)) \/ Final

ShaSpec == ShaInit /\ [][ShaNext]_shaVars
-----------------------------------------------------------------------------
(***************************************************************************)
(* FIPS 180-4: the message is padded to whole blocks, each block expanded  *)
(* to 64 words, and the registers shift.                                   *)
(***************************************************************************)
Padded(m) == m \o <<128>> \o Zeros((55 - Len(m)) % 64) \o store64(8 * Len(m))

Schedule(first) ==
  LET w[n \in 0 .. 48] ==
        IF n = 0 THEN first
        ELSE LET u == w[n - 1]
                 t == 15 + n
             IN  Append(u, AddWord(Add3(G1(u[t - 1]), u[t - 6], G0(u[t - 14])), u[t - 15]))
  IN  w[48]

Shifted(r, kt, wt) ==
  LET t1 == Add3(Add3(r[8], S1(r[5]), CH(r[5], r[6], r[7])), kt, wt)
      t2 == AddWord(S0(r[1]), MAJ(r[1], r[2], r[3]))
  IN  [<<r[8], r[1], r[2], r[3], r[4], r[5], r[6], r[7]>>
        EXCEPT ![1] = AddWord(t1, t2), ![5] = AddWord(@, t1)]

Compressed(h, w) ==
  LET r[t \in 0 .. 64] == IF t = 0 THEN h ELSE Shifted(r[t - 1], k[t - 1], w[t])
  IN  r[64]

HashBlock(h, m, at) ==
  LET first == [t \in 1 .. 16 |-> load32(m, at + 4 * t - 4)]
      r == Compressed([i \in 1 .. 8 |-> h[i - 1]], Schedule(Tuple(first)))
  IN  [i \in 0 .. 7 |-> AddWord(h[i], r[i + 1])]

Reference(input) ==
  LET m == Padded(input)
      h[n \in 0 .. Len(m) \div 64] ==
        IF n = 0 THEN initial ELSE HashBlock(h[n - 1], m, 64 * (n - 1))
  IN  DigestOf(h[Len(m) \div 64])

\* The digests of no bytes at all and of "abc", as the standard gives them.
ASSUME StandardExamples ==
  /\ sha256_compute(<< >>) =
       <<227, 176, 196, 66, 152, 252, 28, 20, 154, 251, 244, 200, 153, 111, 185, 36,
         39, 174, 65, 228, 100, 155, 147, 76, 164, 149, 153, 27, 120, 82, 184, 85>>
  /\ sha256_compute(<<97, 98, 99>>) =
       <<186, 120, 22, 191, 143, 1, 207, 234, 65, 65, 64, 222, 93, 174, 34, 35,
         176, 3, 97, 163, 150, 23, 122, 156, 180, 16, 255, 97, 242, 0, 21, 173>>

\* However a message is cut into pieces, its digest is that of the standard:
\* the buffer of a part of a block, the padding that may need a block of its
\* own (lengths 55, 56, 63 and 64), and the schedule kept in 16 words.
DigestIsStandard ==
  digest # << >> =>
    /\ digest = Reference(hashed)
    /\ updates = 1 => digest = sha256_compute(hashed)
=============================================================================
