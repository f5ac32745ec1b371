-------------------------------- MODULE Crc --------------------------------
(***************************************************************************)
(* The checksums: CRC-16/MCRF4XX by bits (tranfer_module's utils/crc.c),   *)
(* by a table (crc/crc16.c and its copy in comm_handle), and as the test   *)
(* tool Serial.py computes it; CRC-32 by a table (crc/crc32.c).            *)
(*                                                                         *)
(* The state is a message that arrives byte by byte and the values the     *)
(* incremental functions have reached.                                     *)
(***************************************************************************)
EXTENDS Words, SequencesExt

CONSTANTS Corners,      \* the bytes that may follow the first
          MaxMessage

VARIABLES message,      \* the bytes so far
          bitwise,      \* crc16_mcrf4xx_update over them
          table16,      \* crc16_frag_cal, crc16_byte_cal
          table32       \* crc32_frag_cal, crc32_byte_cal

crcVars == <<message, bitwise, table16, table32>>
-----------------------------------------------------------------------------
\* The loop body of crc16_mcrf4xx_update, reflected polynomial 0x8408.
ShiftStep(crc, bit) ==
  IF (crc + bit) % 2 = 1 THEN Xor16(crc \div 2, 33800) ELSE crc \div 2

crc16_mcrf4xx_update(crc, byte) ==
  LET after[i \in 0 .. 8] ==
        IF i = 0 THEN crc ELSE ShiftStep(after[i - 1], byte \div 2 ^ (i - 1))
  IN  after[8]

crc16_mcrf4xx(data) ==
  LET crc[n \in 0 .. Len(data)] ==
        IF n = 0 THEN 65535 ELSE crc16_mcrf4xx_update(crc[n - 1], data[n])
  IN  crc[Len(data)]

crc16_table ==
  <<      0, 4489, 8978, 12955, 17956, 22445, 25910, 29887, 35912, 40385, 44890,
     48851, 51820, 56293, 59774, 63735, 4225, 264, 13203, 8730, 22181, 18220,
     30135, 25662, 40137, 36160, 49115, 44626, 56045, 52068, 63999, 59510,
     8450, 12427, 528, 5017, 26406, 30383, 17460, 21949, 44362, 48323, 36440,
     40913, 60270, 64231, 51324, 55797, 12675, 8202, 4753, 792, 30631, 26158,
     21685, 17724, 48587, 44098, 40665, 36688, 64495, 60006, 55549, 51572,
     16900, 21389, 24854, 28831, 1056, 5545, 10034, 14011, 52812, 57285,
     60766, 64727, 34920, 39393, 43898, 47859, 21125, 17164, 29079, 24606,
     5281, 1320, 14259, 9786, 57037, 53060, 64991, 60502, 39145, 35168,
     48123, 43634, 25350, 29327, 16404, 20893, 9506, 13483, 1584, 6073,
     61262, 65223, 52316, 56789, 43370, 47331, 35448, 39921, 29575, 25102,
     20629, 16668, 13731, 9258, 5809, 1848, 65487, 60998, 56541, 52564,
     47595, 43106, 39673, 35696, 33800, 38273, 42778, 46739, 49708, 54181,
     57662, 61623, 2112, 6601, 11090, 15067, 20068, 24557, 28022, 31999,
     38025, 34048, 47003, 42514, 53933, 49956, 61887, 57398, 6337, 2376,
     15315, 10842, 24293, 20332, 32247, 27774, 42250, 46211, 34328, 38801,
     58158, 62119, 49212, 53685, 10562, 14539, 2640, 7129, 28518, 32495,
     19572, 24061, 46475, 41986, 38553, 34576, 62383, 57894, 53437, 49460,
     14787, 10314, 6865, 2904, 32743, 28270, 23797, 19836, 50700, 55173,
     58654, 62615, 32808, 37281, 41786, 45747, 19012, 23501, 26966, 30943,
     3168, 7657, 12146, 16123, 54925, 50948, 62879, 58390, 37033, 33056,
     46011, 41522, 23237, 19276, 31191, 26718, 7393, 3432, 16371, 11898,
     59150, 63111, 50204, 54677, 41258, 45219, 33336, 37809, 27462, 31439,
     18516, 23005, 11618, 15595, 3696, 8185, 63375, 58886, 54429, 50452,
     45483, 40994, 37561, 33584, 31687, 27214, 22741, 18780, 15843, 11370,
     7921, 3960 >>

\* Faulty variant (validates CrcAgrees): the halves are swapped.
crc16_byte_cal_swapped(crc, byte) ==
  Xor16(crc % 256, crc16_table[1 + XorByte[crc \div 256][byte]])

crc16_byte_cal(crc, byte) ==
  Xor16(crc \div 256, crc16_table[1 + XorByte[crc % 256][byte]])

crc16_frag_cal(crc, buff) ==
  LET value[n \in 0 .. Len(buff)] ==
        IF n = 0 THEN crc ELSE crc16_byte_cal(value[n - 1], buff[n])
  IN  value[Len(buff)]

crc16_init == 65535
crc16_cal(buff) == crc16_frag_cal(65535, buff)

\* comm_handle's copy of the file has the same table and the same text.
handle_crc16_cal(buff) == crc16_frag_cal(65535, buff)
-----------------------------------------------------------------------------
\* The same code with the bits in the other order, in Serial.py.
Reflected(x, n) ==
  LET bits == Reverse(BitsOf(x, n))
      value[i \in 0 .. n] == IF i = 0 THEN 0 ELSE 2 * value[i - 1] + bits[i]
  IN  value[n]

SerialShift(crc) ==
  IF crc >= 32768 THEN Xor16((2 * crc) % 65536, 4129) ELSE 2 * crc

SerialByte(crc, byte) ==
  LET after[i \in 0 .. 8] ==
        IF i = 0 THEN Xor16(crc, 256 * Reflected(byte, 8)) ELSE SerialShift(after[i - 1])
  IN  after[8]

serial_crc16_mcrf4xx(data) ==
  LET crc[n \in 0 .. Len(data)] ==
        IF n = 0 THEN 65535 ELSE SerialByte(crc[n - 1], data[n])
  IN  Reflected(crc[Len(data)], 16)
-----------------------------------------------------------------------------
\* CRC_table of crc32.c: the upper and the lower halves of the entries.
CRC_table ==
  << <<
     0, 1217, 2434, 3395, 4868, 6085, 6790, 7751, 9736, 8905, 12170, 11083,
     13580, 12749, 15502, 14415, 19473, 18640, 17811, 16722, 24341, 23508,
     22167, 21078, 27161, 28376, 25499, 26458, 31005, 32220, 28831, 29790,
     38947, 40162, 37281, 38240, 35623, 36838, 33445, 34404, 48683, 47850,
     47017, 45928, 44335, 43502, 42157, 41068, 54322, 53491, 56752, 55665,
     50998, 50167, 52916, 51829, 62010, 63227, 64440, 65401, 57662, 58879,
     59580, 60541, 13446, 12359, 15620, 14789, 10114, 9027, 11776, 10945,
     4750, 5711, 6924, 8141, 394, 1355, 2056, 3273, 30871, 31830, 28949,
     30164, 27539, 28498, 25105, 26320, 24223, 23134, 22301, 21468, 19867,
     18778, 17433, 16600, 44197, 43108, 42279, 41446, 49057, 47968, 46627,
     45794, 35501, 36460, 33583, 34798, 39337, 40296, 36907, 38122, 57524,
     58485, 59702, 60919, 62384, 63345, 64050, 65267, 50876, 49789, 53054,
     52223, 54712, 53625, 56378, 55547, 26892, 28109, 24718, 25679, 31240,
     32457, 29578, 30539, 20228, 19397, 18054, 16967, 23552, 22721, 21890,
     20803, 9501, 8668, 11423, 10334, 13849, 13016, 16283, 15194, 789, 2004,
     2711, 3670, 4113, 5328, 6547, 7506, 61743, 62958, 63661, 64620, 57899,
     59114, 60329, 61288, 55079, 54246, 56997, 55908, 50211, 49378, 52641,
     51552, 48446, 47615, 46268, 45181, 44602, 43771, 42936, 41849, 39734,
     40951, 37556, 38517, 34866, 36083, 33200, 34161, 23946, 22859, 21512,
     20681, 20110, 19023, 18188, 17357, 31618, 32579, 29184, 30401, 26758,
     27719, 24836, 26053, 4507, 5466, 6169, 7384, 671, 1630, 2845, 4060,
     14227, 13138, 15889, 15056, 9367, 8278, 11541, 10708, 50601, 49512,
     52267, 51434, 54957, 53868, 57135, 56302, 58273, 59232, 59939, 61154,
     61605, 62564, 63783, 64998, 35256, 36217, 32826, 34043, 39612, 40573,
     37694, 38911, 44976, 43889, 42546, 41715, 48308, 47221, 46390, 45559
     >>, <<
     0, 7607, 15214, 9945, 30428, 27499, 19890, 20485, 60856, 61455, 54998,
     52065, 39780, 34515, 40970, 48573, 56176, 50887, 57374, 64937, 44460,
     45083, 38594, 35701, 14024, 11135, 3494, 4113, 16404, 23971, 31610,
     26317, 46816, 43863, 36238, 36921, 49212, 56715, 64338, 59109, 23384,
     18159, 24630, 32129, 11652, 12339, 5866, 2909, 28048, 28711, 22270,
     19273, 6988, 1787, 8226, 15765, 32808, 40351, 47942, 42737, 63220,
     60227, 52634, 53293, 28791, 28096, 19225, 22190, 1707, 6940, 15813,
     8306, 40399, 32888, 42657, 47894, 60179, 63140, 53373, 52682, 43783,
     46768, 36969, 36318, 56795, 49260, 59061, 64258, 18111, 23304, 32209,
     24678, 12387, 11732, 2829, 5818, 50839, 56096, 65017, 57422, 45131,
     44540, 35621, 38546, 11055, 13976, 4161, 3574, 24051, 16452, 26269,
     31530, 7655, 80, 9865, 15166, 27451, 30348, 20565, 19938, 61535, 60904,
     52017, 54918, 34435, 39732, 48621, 41050, 57582, 64857, 56192, 50743,
     38450, 35717, 44380, 45291, 3414, 4321, 13880, 11151, 31626, 26173,
     16612, 23891, 15262, 9769, 240, 7495, 19778, 20725, 30252, 27547, 54822,
     52113, 60744, 61695, 41210, 48461, 39828, 34339, 22030, 19385, 28000,
     28887, 8402, 15717, 7100, 1547, 48054, 42497, 32984, 40303, 52586,
     53469, 62980, 60339, 36222, 37065, 46608, 43943, 64418, 58901, 49356,
     56699, 24774, 32113, 23464, 17951, 5658, 2989, 11636, 12483, 37017,
     36142, 44023, 46656, 58949, 64498, 56619, 49308, 32033, 24726, 17999,
     23544, 3069, 5706, 12435, 11556, 19433, 22110, 28807, 27952, 15669,
     8322, 1627, 7148, 42577, 48102, 40255, 32904, 53389, 52538, 60387,
     63060, 9849, 15310, 7447, 160, 20645, 19730, 27595, 30332, 52161, 54902,
     61615, 60696, 48413, 41130, 34419, 39876, 64777, 57534, 50791, 56272,
     35797, 38498, 45243, 44300, 4273, 3334, 11231, 13928, 26221, 31706,
     23811, 16564
     >> >>

crc32_byte_cal(crc, byte) ==
  LET index == 1 + XorByte[crc[1] \div 256][byte]
      shifted == <<256 * (crc[1] % 256) + crc[2] \div 256, 256 * (crc[2] % 256)>>
  IN  XorWord(shifted, <<CRC_table[1][index], CRC_table[2][index]>>)

crc32_frag_cal(crc, buff) ==
  LET value[n \in 0 .. Len(buff)] ==
        IF n = 0 THEN crc ELSE crc32_byte_cal(value[n - 1], buff[n])
  IN  value[Len(buff)]

crc32_init == <<65535, 65535>>
crc32_cal(input) == crc32_frag_cal(<<65535, 65535>>, input)
-----------------------------------------------------------------------------
CrcInit ==
  /\ message = << >>
  /\ bitwise = 65535
  /\ table16 = crc16_init
  /\ table32 = crc32_init

\* One byte more: any byte first, so that every table entry is used.
CrcByte(byte) ==
  /\ message = << >> \/ (byte \in Corners /\ Len(message) < MaxMessage)
  /\ message' = Append(message, byte)
  /\ bitwise' = crc16_mcrf4xx_update(bitwise, byte)
  /\ table16' = crc16_byte_cal(table16, byte)
  /\ table32' = crc32_byte_cal(table32, byte)

CrcNext == \E byte \in Byte : CrcByte(byte)

CrcSpec == CrcInit /\ [][CrcNext]_crcVars
-----------------------------------------------------------------------------
(***************************************************************************)
(* What a CRC is: the remainder of the message, its first bits inverted    *)
(* and followed by as many zeros as the CRC has bits, divided by the       *)
(* generator polynomial over GF(2).                                        *)
(***************************************************************************)
Remainder(bits, generator) ==
  LET n == Len(bits)
      m == Len(generator)
      step(w) == IF w[1] = 0 THEN w ELSE [j \in DOMAIN w |->
                   IF j <= m THEN (w[j] + generator[j]) % 2 ELSE w[j]]
      left[k \in 0 .. n - m + 1] ==
        IF k = 0 THEN bits ELSE Tail(step(left[k - 1]))
  IN  left[n - m + 1]

DivisionCrc(bits, generator) ==
  LET m == Len(generator) - 1
      padded == bits \o Zeros(m)
  IN  Remainder([i \in DOMAIN padded |->
                   IF i <= m THEN 1 - padded[i] ELSE padded[i]], generator)

MessageBits == FlattenSeq([i \in DOMAIN message |-> BitsOf(message[i], 8)])
ReflectedBits ==
  FlattenSeq([i \in DOMAIN message |-> Reverse(BitsOf(message[i], 8))])

\* What an incremental function reaches byte by byte is what the function on
\* the whole buffer gives.
CrcIncremental ==
  /\ message \in Seq(Byte)
  /\ bitwise = crc16_mcrf4xx(message)
  /\ table16 = crc16_cal(message)
  /\ table16 = handle_crc16_cal(message)
  /\ table32 = crc32_cal(message)

\* The two stacks, the two tables and the test tool must agree on the CRC
\* of a message, computed at once or as the bytes come, and it must be the
\* remainder modulo the polynomial that crc.c and crc32.c name; a wrong entry
\* of a table goes unnoticed until a message selects it.
CrcAgrees ==
  LET crc16 == Reverse(DivisionCrc(ReflectedBits, <<1>> \o BitsOf(4129, 16)))
      crc32 == DivisionCrc(MessageBits, <<1>> \o BitsOf(1217, 16) \o BitsOf(7607, 16))
  IN  /\ CrcIncremental
      /\ table16 = bitwise
      /\ serial_crc16_mcrf4xx(message) = bitwise
      /\ BitsOf(bitwise, 16) = crc16
      /\ BitsOf(table32[1], 16) \o BitsOf(table32[2], 16) = crc32
=============================================================================
