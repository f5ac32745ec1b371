----------------------------- MODULE Aes128Gcm -----------------------------
(***************************************************************************)
(* aes128_gcm.c: a message is sealed, may be damaged on its way, and is    *)
(* opened.  Bytes and block size are those of the code; a byte string is a *)
(* sequence, so index i of C is i + 1 here.                                *)
(***************************************************************************)
EXTENDS Words, SequencesExt

CONSTANTS Key,
          Ivs, AadLengths, TextLengths

VARIABLES sealed,       \* arguments and results of my_aes128_gcm_encrypt
          opened        \* of my_aes128_gcm_decrypt

gcmVars == <<sealed, opened>>
Nothing == [result |-> "none"]
-----------------------------------------------------------------------------
sbox ==
  <<
     99, 124, 119, 123, 242, 107, 111, 197, 48, 1, 103, 43, 254, 215, 171, 118, 202, 130, 201, 125,
     250, 89, 71, 240, 173, 212, 162, 175, 156, 164, 114, 192, 183, 253, 147, 38, 54, 63, 247, 204,
     52, 165, 229, 241, 113, 216, 49, 21, 4, 199, 35, 195, 24, 150, 5, 154, 7, 18, 128, 226, 235,
     39, 178, 117, 9, 131, 44, 26, 27, 110, 90, 160, 82, 59, 214, 179, 41, 227, 47, 132, 83, 209,
     0, 237, 32, 252, 177, 91, 106, 203, 190, 57, 74, 76, 88, 207, 208, 239, 170, 251, 67, 77, 51,
     133, 69, 249, 2, 127, 80, 60, 159, 168, 81, 163, 64, 143, 146, 157, 56, 245, 188, 182, 218,
     33, 16, 255, 243, 210, 205, 12, 19, 236, 95, 151, 68, 23, 196, 167, 126, 61, 100, 93, 25, 115,
     96, 129, 79, 220, 34, 42, 144, 136, 70, 238, 184, 20, 222, 94, 11, 219, 224, 50, 58, 10, 73,
     6, 36, 92, 194, 211, 172, 98, 145, 149, 228, 121, 231, 200, 55, 109, 141, 213, 78, 169, 108,
     86, 244, 234, 101, 122, 174, 8, 186, 120, 37, 46, 28, 166, 180, 198, 232, 221, 116, 31, 75,
     189, 139, 138, 112, 62, 181, 102, 72, 3, 246, 14, 97, 53, 87, 185, 134, 193, 29, 158, 225,
     248, 152, 17, 105, 217, 142, 148, 155, 30, 135, 233, 206, 85, 40, 223, 140, 161, 137, 13, 191,
     230, 66, 104, 65, 153, 45, 15, 176, 84, 187, 22 >>
rcon == <<1, 2, 4, 8, 16, 32, 64, 128, 27, 54>>

xtime(x) == XorByte[(2 * x) % 256][27 * (x \div 128)]

\* Four words of the key schedule make a round key.
key_expand(key) ==
  LET word(k, i) == SubSeq(k, 4 * i + 1, 4 * i + 4)
      turned(t, r) == <<XorByte[sbox[t[2] + 1]][rcon[r]], sbox[t[3] + 1], sbox[t[4] + 1],
                        sbox[t[1] + 1]>>
      next(k, r) == LET a == XorBytes(word(k, 0), turned(word(k, 3), r))
                        b == XorBytes(word(k, 1), a)
                        c == XorBytes(word(k, 2), b)
                    IN  a \o b \o c \o XorBytes(word(k, 3), c)
      round_key[r \in 0 .. 10] == IF r = 0 THEN key ELSE next(round_key[r - 1], r)
      round_keys == Tuple([r \in 1 .. 11 |-> round_key[r - 1]])
  IN  Tuple([j \in 1 .. 176 |-> round_keys[(j - 1) \div 16 + 1][((j - 1) % 16) + 1]])

add_round_key(s, round_key, round) ==
  XorBytes(s, SubSeq(round_key, 16 * round + 1, 16 * round + 16))
sub_bytes(s) == Tuple([i \in 1 .. 16 |-> sbox[s[i] + 1]])
shift_rows(s) == <<s[1], s[6], s[11], s[16], s[5], s[10], s[15], s[4],
                   s[9], s[14], s[3], s[8], s[13], s[2], s[7], s[12]>>
mix_columns(s) ==
  LET x == [c \in 0 .. 3 |-> XorByte[XorByte[s[4 * c + 1]][s[4 * c + 2]]]
                                     [XorByte[s[4 * c + 3]][s[4 * c + 4]]]]
      next(i) == s[IF i % 4 = 0 THEN i - 3 ELSE i + 1]
  IN  Tuple([i \in 1 .. 16 |-> XorByte[s[i]][XorByte[x[(i - 1) \div 4]]
                                                    [xtime(XorByte[s[i]][next(i)])]]])

\* A round of the loop, and n of them.
NextRound(round_key, st) ==
  [s |-> add_round_key(mix_columns(shift_rows(sub_bytes(st.s))), round_key, st.round),
   round |-> st.round + 1]

RECURSIVE NextRounds(_, _, _)
NextRounds(round_key, st, n) ==
  IF st.round = 10 \/ n = 0 THEN st
  ELSE IF n = 1 THEN NextRound(round_key, st)
  ELSE NextRounds(round_key, NextRounds(round_key, st, n \div 2), n - n \div 2)

aes128_encrypt_block(round_key, in) ==
  LET st == NextRounds(round_key, [s |-> add_round_key(in, round_key, 0), round |-> 1], 9)
  IN  add_round_key(shift_rows(sub_bytes(st.s)), round_key, 10)

\* Faulty variant (validates GcmIsStandard): only the last byte counts.
inc32_short(ctr) == [ctr EXCEPT ![16] = (@ + 1) % 256]

\* n++ of a uint32_t
inc32(ctr) ==
  LET n == AddWord(<<256 * ctr[13] + ctr[14], 256 * ctr[15] + ctr[16]>>, <<0, 1>>)
  IN  SubSeq(ctr, 1, 12) \o <<n[1] \div 256, n[1] % 256, n[2] \div 256, n[2] % 256>>

xor_block(dst, src) == XorBytes(dst, src)

\* One bit of x: z takes v, and v is shifted.
MulBit(s) ==
  LET bit == (s.x[s.i \div 8 + 1] \div 2 ^ (7 - (s.i % 8))) % 2
      shifted == Tuple([j \in 1 .. 16 |->
                    s.v[j] \div 2 + IF j > 1 THEN 128 * (s.v[j - 1] % 2) ELSE 0])
  IN  [x |-> s.x, i |-> s.i + 1,
       z |-> IF bit = 1 THEN xor_block(s.z, s.v) ELSE s.z,
       v |-> IF s.v[16] % 2 = 1 THEN [shifted EXCEPT ![1] = XorByte[@][225]] ELSE shifted]

RECURSIVE MulBits(_, _)
MulBits(s, n) ==
  IF s.i = 128 THEN s
  ELSE IF n = 1 THEN MulBit(s) ELSE MulBits(MulBits(s, n \div 2), n - n \div 2)

ghash_mul(x, h) == MulBits([x |-> x, i |-> 0, z |-> Zeros(16), v |-> h], 128).z

RECURSIVE ghash_update(_, _, _)
ghash_update(y, h, data) ==
  IF data = << >> THEN y
  ELSE LET n == Len(data)
           block == IF n >= 16 THEN SubSeq(data, 1, 16) ELSE data \o Zeros(16 - n)
       IN  ghash_update(ghash_mul(xor_block(y, block), h), h, SubSeq(data, 17, n))

store64_be(v) == Zeros(6) \o <<v \div 256, v % 256>>

ghash_finish(y, h, aad_len, text_len) ==
  ghash_mul(xor_block(y, store64_be(aad_len * 8) \o store64_be(text_len * 8)), h)

make_j0(h, iv) ==
  IF Len(iv) = 12 THEN iv \o <<0, 0, 0, 1>>
  ELSE ghash_finish(ghash_update(Zeros(16), h, iv), h, 0, Len(iv))

RECURSIVE CtrBlocks(_, _, _)
CtrBlocks(round_key, ctr, in) ==
  IF in = << >> THEN << >>
  ELSE LET n == IF Len(in) < 16 THEN Len(in) ELSE 16
           stream == aes128_encrypt_block(round_key, ctr)
       IN  XorBytes(SubSeq(in, 1, n), SubSeq(stream, 1, n))
           \o CtrBlocks(round_key, inc32(ctr), SubSeq(in, n + 1, Len(in)))

ctr_crypt(round_key, j0, in) == CtrBlocks(round_key, inc32(j0), in)

args_ok(iv) == iv # << >>      \* no pointer is NULL in the model

calc_tag(round_key, h, j0, aad, ciphertext) ==
  LET y == ghash_update(ghash_update(Zeros(16), h, aad), h, ciphertext)
      e_j0 == aes128_encrypt_block(round_key, j0)
  IN  xor_block(ghash_finish(y, h, Len(aad), Len(ciphertext)), e_j0)

\* The key schedule and the hash key of both calls: in the model the key is a
\* constant.
ExpandedKey == key_expand(Key)
HashKey == aes128_encrypt_block(ExpandedKey, Zeros(16))

aes128_gcm_encrypt(iv, aad, plaintext) ==
  IF ~args_ok(iv) THEN [result |-> "BAD_ARG"]
  ELSE LET j0 == make_j0(HashKey, iv)
           ciphertext == ctr_crypt(ExpandedKey, j0, plaintext)
       IN  [result |-> "OK", ciphertext |-> ciphertext,
            tag |-> calc_tag(ExpandedKey, HashKey, j0, aad, ciphertext)]

aes128_gcm_decrypt(iv, aad, ciphertext, tag) ==
  IF ~args_ok(iv) THEN [result |-> "BAD_ARG"]
  ELSE LET j0 == make_j0(HashKey, iv)
       IN  IF calc_tag(ExpandedKey, HashKey, j0, aad, ciphertext) # tag
           THEN [result |-> "AUTH_FAIL", plaintext |-> Zeros(Len(ciphertext))]
           ELSE [result |-> "OK", plaintext |-> ctr_crypt(ExpandedKey, j0, ciphertext)]
-----------------------------------------------------------------------------
GcmInit == sealed = Nothing /\ opened = Nothing

Encrypt(iv, n, m) ==
  LET aad == [i \in 1 .. n |-> (17 * i) % 256]
      plaintext == [i \in 1 .. m |-> (255 - 5 * i) % 256]
  IN  /\ sealed = Nothing
      /\ sealed' = aes128_gcm_encrypt(iv, aad, plaintext)
                     @@ [iv |-> iv, aad |-> aad, plaintext |-> plaintext]
      /\ UNCHANGED opened

\* A bit of the last byte of one part is flipped, or the part is cut by it.
Damaged(s, part) ==
  IF part = "none" THEN s
  ELSE IF part = "cut" THEN [s EXCEPT !.ciphertext = Front(@)]
  ELSE [s EXCEPT ![part] = [@ EXCEPT ![Len(@)] = XorByte[@][1]]]

Decrypt(part) ==
  /\ sealed # Nothing /\ sealed.result = "OK" /\ opened = Nothing
  /\ part \in {"iv", "aad", "ciphertext", "tag"} => sealed[part] # << >>
  /\ part = "cut" => sealed.ciphertext # << >>
  /\ LET s == Damaged(sealed, part) IN
       opened' = aes128_gcm_decrypt(s.iv, s.aad, s.ciphertext, s.tag)
                   @@ [damage |-> part]
  /\ UNCHANGED sealed

GcmNext ==
  \/ \E iv \in Ivs, n \in AadLengths, m \in TextLengths : Encrypt(iv, n, m)
  \/ \E part \in {"none", "iv", "aad", "ciphertext", "tag", "cut"} : Decrypt(part)
-----------------------------------------------------------------------------
(***************************************************************************)
(* NIST SP 800-38D over the block cipher: GHASH as polynomials over GF(2), *)
(* and the counter blocks by their number.                                 *)
(***************************************************************************)
Bits(bytes) == FlattenSeq([i \in DOMAIN bytes |-> BitsOf(bytes[i], 8)])
Bytes(bits) ==
  LET octet(i) == SubSeq(bits, 8 * i - 7, 8 * i)
      value(b) == 128 * b[1] + 64 * b[2] + 32 * b[3] + 16 * b[4] + 8 * b[5] + 4 * b[6]
                  + 2 * b[7] + b[8]
  IN  Tuple([i \in 1 .. Len(bits) \div 8 |-> value(octet(i))])

\* Modulo x^128 + x^7 + x^2 + x + 1; c[j] is the coefficient of x^(j - 1).
Folded(c, n) ==
  LET high(j) == IF j > 128 /\ j <= Len(c) THEN c[j] ELSE 0
      low(j) == IF j <= 128 THEN c[j] ELSE 0
  IN  Tuple([j \in 1 .. n |->
        (low(j) + high(j + 128) + high(j + 127) + high(j + 126) + high(j + 121)) % 2])

Product(x, y) ==
  LET a == Bits(x)
      b == Bits(y)
      ones == {i \in 1 .. 128 : a[i] = 1}
      c == Tuple([j \in 1 .. 255 |->
             Cardinality({i \in ones : i <= j /\ j - i < 128 /\ b[j - i + 1] = 1}) % 2])
  IN  Bytes(Folded(Folded(c, 134), 128))

RECURSIVE Ghash(_, _)
Ghash(h, data) ==
  IF data = << >> THEN Zeros(16)
  ELSE LET n == Len(data) - 16
       IN  Product(XorBytes(Ghash(h, SubSeq(data, 1, n)), SubSeq(data, n + 1, n + 16)), h)

Pad(data) == data \o Zeros((16 - (Len(data) % 16)) % 16)
Lengths(n, m) ==
  Zeros(6) \o <<n \div 32, (8 * n) % 256>> \o Zeros(6) \o <<m \div 32, (8 * m) % 256>>

Counter(j0, n) ==   \* the n-th block: the last four bytes plus n
  LET low == 256 * j0[15] + j0[16] + n
      high == 256 * j0[13] + j0[14] + low \div 65536
  IN  SubSeq(j0, 1, 12) \o <<(high \div 256) % 256, high % 256, (low \div 256) % 256, low % 256>>

SealedAsStandard(s) ==
  LET E(block) == aes128_encrypt_block(ExpandedKey, block)
      h == E(Zeros(16))
      j0 == IF Len(s.iv) = 12 THEN s.iv \o <<0, 0, 0, 1>>
            ELSE Ghash(h, Pad(s.iv) \o Lengths(0, Len(s.iv)))
      stream == FlattenSeq([n \in 1 .. (Len(s.plaintext) + 15) \div 16 |-> E(Counter(j0, n))])
  IN  /\ s.ciphertext = XorBytes(s.plaintext, stream)
      /\ s.tag = XorBytes(E(j0), Ghash(h, Pad(s.aad) \o Pad(s.ciphertext)
                                          \o Lengths(Len(s.aad), Len(s.ciphertext))))

\* The example of FIPS 197, appendix C.1.
BlockCipherIsAes ==
  aes128_encrypt_block(key_expand([i \in 1 .. 16 |-> i - 1]), [i \in 1 .. 16 |-> 17 * (i - 1)])
    = <<105, 196, 224, 216, 106, 123, 4, 48, 216, 205, 183, 128, 112, 180, 197, 90>>

\* What is sealed is what the standard says, for texts and associated data
\* that end inside a block or at its end, for every length of the IV, and when
\* the counter's 32 bits wrap around; it opens to the plaintext if nothing was
\* damaged, and to nothing but zeros and AUTH_FAIL if anything was.
GcmIsStandard ==
  /\ sealed = Nothing => BlockCipherIsAes
  /\ sealed # Nothing =>
       IF sealed.iv = << >> THEN sealed.result = "BAD_ARG"
       ELSE sealed.result = "OK" /\ (opened = Nothing => SealedAsStandard(sealed))
  /\ opened # Nothing =>
       IF opened.damage = "none"
       THEN opened.result = "OK" /\ opened.plaintext = sealed.plaintext
       ELSE /\ opened.result = "AUTH_FAIL"
            /\ \A i \in DOMAIN opened.plaintext : opened.plaintext[i] = 0
=============================================================================
