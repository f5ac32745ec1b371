------------------------------ MODULE MyPacker ------------------------------
(***************************************************************************)
(* The frame format of comm_handle/my_packer.c, its encoder and its two    *)
(* decoders, the one that is fed a byte at a time and the one that is      *)
(* handed a whole buffer:                                                  *)
(*                                                                         *)
(*   START | LENGTH high, low | PAYLOAD | CRC high, low | END              *)
(*                                                                         *)
(* with the CRC over LENGTH and PAYLOAD and a payload of at least a byte.  *)
(* A byte takes B values (256 in the code), a 16-bit word B * B.  The CRC  *)
(* is a parameter, as a table of bytes and as a table of whole buffers.    *)
(***************************************************************************)
EXTENDS Integers, Sequences

CONSTANTS
  B,                     \* values of a uint8_t
  PACKER_START_BYTE,
  PACKER_END_BYTE,
  COM_MAX_PAYLOAD_SIZE,
  size_out,              \* capacity of the buffer payloads are decoded into
  CrcLength,             \* longest LENGTH and PAYLOAD whose CRC is tabulated
  crc16_byte_cal,        \* crc16.c: one byte more
  crc16_cal              \* crc16.c: a whole buffer

Byte == 0 .. B - 1
Word == 0 .. B * B - 1

PACKER_MIN_PAYLOAD_SIZE == 1
PACKER_FRAME_OVERHEAD == 6

\* The byte strings of at most the given length.
BytesUpTo(n) == UNION {[1 .. k -> Byte] : k \in 0 .. n}

ASSUME ByteAssumption ==
  /\ B \in Nat /\ B > 1
  /\ PACKER_START_BYTE \in Byte /\ PACKER_END_BYTE \in Byte

ASSUME SizeAssumption ==
  /\ COM_MAX_PAYLOAD_SIZE \in Nat \ {0}
  /\ COM_MAX_PAYLOAD_SIZE + PACKER_FRAME_OVERHEAD < B * B
  /\ size_out \in Word \ {0}
  /\ CrcLength \in Nat /\ CrcLength >= COM_MAX_PAYLOAD_SIZE + 2

\* crc16_cal is crc16_byte_cal for byte after byte, from the 0xFFFF of crc16_init.
ASSUME CrcAssumption ==
  /\ crc16_byte_cal \in [Word \X Byte -> Word]
  /\ crc16_cal \in [BytesUpTo(CrcLength) -> Word]
  /\ crc16_cal[<< >>] = B * B - 1
  /\ \A s \in BytesUpTo(CrcLength - 1), b \in Byte :
       crc16_cal[Append(s, b)] = crc16_byte_cal[<<crc16_cal[s], b>>]

VARIABLES
  unpack_state, unpack_crc, unpack_offset, unpack_length,   \* Packer_t
  buffer_out,  \* comm_rx_buffer, where the payload is decoded
  result,      \* what the last call of unpack returned
  candidate    \* history: the bytes since the START the decoder locked on

packer_vars == <<unpack_state, unpack_crc, unpack_offset, unpack_length,
                 buffer_out, result, candidate>>

-----------------------------------------------------------------------------
(* Encoding.                                                               *)

low(word)  == word % B
high(word) == word \div B

\* What the CRC covers.
covered(data) == <<high(Len(data)), low(Len(data))>> \o data

\* The bytes my_pack_data writes.
frame(data) ==
  LET crc == crc16_cal[covered(data)]
  IN  <<PACKER_START_BYTE>> \o covered(data) \o <<high(crc), low(crc), PACKER_END_BYTE>>

\* my_pack_data's tests; the sum is taken in 32 bits.
packable(length, capacity) ==
  /\ length >= PACKER_MIN_PAYLOAD_SIZE /\ length <= COM_MAX_PAYLOAD_SIZE
  /\ length + PACKER_FRAME_OVERHEAD <= capacity

-----------------------------------------------------------------------------
(* Decoding byte by byte: my_unpack_data_state.                            *)

\* Faulty variant (validates WritesInBounds): the state is left as it was.
unit_packer_init_keeps_state ==
  /\ UNCHANGED unpack_state
  /\ unpack_crc' = 0 /\ unpack_offset' = 0 /\ unpack_length' = 0

unit_packer_init_no_func ==
  /\ unpack_state' = "WAIT_START"
  /\ unpack_crc' = 0 /\ unpack_offset' = 0 /\ unpack_length' = 0

\* Back to WAIT_START with an error.
Fail(error) ==
  /\ unpack_state' = "WAIT_START"
  /\ result' = error

GoOn(next) ==
  /\ unpack_state' = next
  /\ result' = "RUNNING"

\* Faulty variant (validates DeliversFrames): the CRC is not initialised.
WaitStartStaleCrc(byte) ==
  /\ unpack_state = "WAIT_START"
  /\ unpack_offset' = 0 /\ unpack_length' = 0
  /\ \/ /\ byte = PACKER_START_BYTE
        /\ GoOn("READ_LENGTH_HIGH")
        /\ candidate' = <<byte>>
     \/ /\ byte # PACKER_START_BYTE
        /\ GoOn("WAIT_START")
        /\ candidate' = << >>
  /\ UNCHANGED <<unpack_crc, buffer_out>>

WaitStart(byte) ==
  /\ unpack_state = "WAIT_START"
  /\ unpack_offset' = 0 /\ unpack_length' = 0
  /\ \/ /\ byte = PACKER_START_BYTE
        /\ GoOn("READ_LENGTH_HIGH")
        /\ unpack_crc' = B * B - 1
        /\ candidate' = <<byte>>
     \/ /\ byte # PACKER_START_BYTE
        /\ GoOn("WAIT_START")
        /\ candidate' = << >>
        /\ UNCHANGED unpack_crc
  /\ UNCHANGED buffer_out

ReadLengthHigh(byte) ==
  /\ unpack_state = "READ_LENGTH_HIGH"
  /\ unpack_length' = B * byte
  /\ unpack_crc' = crc16_byte_cal[<<unpack_crc, byte>>]
  /\ GoOn("READ_LENGTH_LOW")
  /\ UNCHANGED <<unpack_offset, buffer_out>>

\* A length that a decoder goes on with.
decodable(length) ==
  /\ length >= PACKER_MIN_PAYLOAD_SIZE /\ length <= COM_MAX_PAYLOAD_SIZE
  /\ length <= size_out

\* Faulty variant (validates AcceptsFrames): a payload that fills the buffer is refused.
ReadLengthLowStrict(byte) ==
  /\ unpack_state = "READ_LENGTH_LOW"
  /\ unpack_length' = unpack_length + byte
  /\ unpack_crc' = crc16_byte_cal[<<unpack_crc, byte>>]
  /\ unpack_offset' = 0
  /\ IF decodable(unpack_length' + 1)
       THEN GoOn("READ_PAYLOAD") ELSE Fail("LENGTH_OUT_OF_BOUNDS")
  /\ UNCHANGED buffer_out

ReadLengthLow(byte) ==
  /\ unpack_state = "READ_LENGTH_LOW"
  /\ unpack_length' = unpack_length + byte
  /\ unpack_crc' = crc16_byte_cal[<<unpack_crc, byte>>]
  /\ unpack_offset' = 0
  /\ IF decodable(unpack_length')
       THEN GoOn("READ_PAYLOAD") ELSE Fail("LENGTH_OUT_OF_BOUNDS")
  /\ UNCHANGED buffer_out

ReadPayload(byte) ==
  /\ unpack_state = "READ_PAYLOAD"
  /\ buffer_out' = [buffer_out EXCEPT ![unpack_offset] = byte]
  /\ unpack_offset' = unpack_offset + 1
  /\ unpack_crc' = crc16_byte_cal[<<unpack_crc, byte>>]
  /\ GoOn(IF unpack_offset' >= unpack_length THEN "READ_CRC_HIGH" ELSE "READ_PAYLOAD")
  /\ UNCHANGED unpack_length

\* A byte of the trailer: as expected, or the frame is given up.
Check(byte, expected, error, next) ==
  /\ IF byte = expected THEN GoOn(next) ELSE Fail(error)
  /\ UNCHANGED <<unpack_crc, unpack_offset, unpack_length, buffer_out>>

ReadCrcHigh(byte) ==
  /\ unpack_state = "READ_CRC_HIGH"
  /\ Check(byte, high(unpack_crc), "CRC_MISMATCH", "READ_CRC_LOW")

\* Faulty variant (validates StreamMatchesBatch): the low byte is not compared.
ReadCrcLowUnchecked(byte) ==
  /\ unpack_state = "READ_CRC_LOW"
  /\ Check(byte, byte, "CRC_MISMATCH", "WAIT_END")

ReadCrcLow(byte) ==
  /\ unpack_state = "READ_CRC_LOW"
  /\ Check(byte, low(unpack_crc), "CRC_MISMATCH", "WAIT_END")

WaitEnd(byte) ==
  /\ unpack_state = "WAIT_END"
  /\ unpack_state' = "WAIT_START"
  /\ result' = IF byte = PACKER_END_BYTE THEN "SUCCESS" ELSE "INVALID_END_BYTE"
  /\ UNCHANGED <<unpack_crc, unpack_offset, unpack_length, buffer_out>>

my_unpack_data_state(byte) ==
  \/ WaitStart(byte)
  \/ /\ \/ ReadLengthHigh(byte) \/ ReadLengthLow(byte) \/ ReadPayload(byte)
        \/ ReadCrcHigh(byte) \/ ReadCrcLow(byte) \/ WaitEnd(byte)
     /\ candidate' = Append(candidate, byte)

\* The payload of a SUCCESS.
payload == [i \in 1 .. unpack_length |-> buffer_out[i - 1]]

-----------------------------------------------------------------------------
(* Decoding a whole buffer: what my_unpack_data returns.                   *)

received_length(buffer) == B * buffer[2] + buffer[3]

my_unpack_data(buffer) ==
  LET length == received_length(buffer)
      crc    == B * buffer[4 + length] + buffer[5 + length]
  IN  IF Len(buffer) < PACKER_FRAME_OVERHEAD + PACKER_MIN_PAYLOAD_SIZE
        THEN "LENGTH_OUT_OF_BOUNDS"
      ELSE IF buffer[1] # PACKER_START_BYTE
        THEN "INVALID_START_BYTE"
      ELSE IF ~decodable(length) \/ length + PACKER_FRAME_OVERHEAD > Len(buffer)
        THEN "LENGTH_OUT_OF_BOUNDS"
      ELSE IF crc # crc16_cal[SubSeq(buffer, 2, 3 + length)]
        THEN "CRC_MISMATCH"
      ELSE IF buffer[6 + length] # PACKER_END_BYTE
        THEN "INVALID_END_BYTE"
        ELSE "SUCCESS"

-----------------------------------------------------------------------------
\* unit_packer_init, and the zeros of calloc.
PackerInit ==
  /\ unpack_state = "WAIT_START"
  /\ unpack_crc = 0 /\ unpack_offset = 0 /\ unpack_length = 0
  /\ buffer_out = [i \in 0 .. size_out - 1 |-> 0]
  /\ result = "RUNNING"
  /\ candidate = << >>

\* comm_control starts over after a loss, at any byte of a frame.
Reset ==
  /\ unit_packer_init_no_func
  /\ candidate' = << >> /\ result' = "RUNNING"
  /\ UNCHANGED buffer_out

PackerNext == Reset \/ \E byte \in Byte : my_unpack_data_state(byte)

PackerSpec == PackerInit /\ [][PackerNext]_packer_vars

-----------------------------------------------------------------------------
PackerTypeOK ==
  /\ unpack_state \in {"WAIT_START", "READ_LENGTH_HIGH", "READ_LENGTH_LOW", "READ_PAYLOAD",
                       "READ_CRC_HIGH", "READ_CRC_LOW", "WAIT_END"}
  /\ unpack_crc \in Word /\ unpack_offset \in Word /\ unpack_length \in Word
  /\ buffer_out \in [0 .. size_out - 1 -> Byte]
  /\ result \in {"RUNNING", "SUCCESS", "LENGTH_OUT_OF_BOUNDS", "CRC_MISMATCH", "INVALID_END_BYTE"}
  /\ candidate \in Seq(Byte)

(* Every payload byte is stored inside the caller's buffer, whatever       *)
(* length was received and whenever the decoder was reset.                 *)
WritesInBounds ==
  /\ PackerTypeOK
  /\ unpack_state = "READ_PAYLOAD" => unpack_offset < unpack_length /\ unpack_offset < size_out

(* SUCCESS is returned only when the bytes since START are exactly the     *)
(* frame that my_pack_data makes of the payload in the buffer.             *)
DeliversFrames ==
  result = "SUCCESS" =>
    /\ packable(unpack_length, COM_MAX_PAYLOAD_SIZE + PACKER_FRAME_OVERHEAD)
    /\ candidate = frame(payload)

(* Locked on the START of a packed frame that fits the buffer, the decoder *)
(* stays locked until the frame's end, and then decodes its payload.       *)
AcceptsFrames ==
  candidate # << >> =>
    \A p \in BytesUpTo(size_out) :
      LET f == frame(p)
          n == Len(candidate)
      IN  ( /\ decodable(Len(p))
            /\ n \in 1 .. Len(f)
            /\ candidate = SubSeq(f, 1, n) )
          => IF n < Len(f) THEN unpack_state # "WAIT_START"
                           ELSE result = "SUCCESS" /\ payload = p

(* The two decoders agree: what ends a candidate frame in the streaming    *)
(* decoder is what my_unpack_data returns for a buffer that begins with    *)
(* those bytes, whichever bytes follow.                                    *)
StreamMatchesBatch ==
  result # "RUNNING" =>
    \A b \in Byte :
      LET rest == [i \in 1 .. COM_MAX_PAYLOAD_SIZE + PACKER_FRAME_OVERHEAD |-> b]
      IN  my_unpack_data(candidate \o rest) = result

(* The inductive invariant: what the fields of Packer_t say about the      *)
(* candidate bytes in each state of the decoder.                           *)
LengthRead ==
  /\ unpack_length = received_length(candidate)
  /\ decodable(unpack_length)

PayloadRead(n) == \A i \in 1 .. n : candidate[3 + i] = buffer_out[i - 1]

CrcUpTo(n) == unpack_crc = crc16_cal[SubSeq(candidate, 2, n)]

FrameRead == LengthRead /\ PayloadRead(unpack_length) /\ CrcUpTo(3 + unpack_length)

HighRead == candidate[4 + unpack_length] = high(unpack_crc)

TrailerRead == FrameRead /\ HighRead /\ candidate[5 + unpack_length] = low(unpack_crc)

LockInv ==
  /\ result # "RUNNING" => unpack_state = "WAIT_START"
  /\ IF unpack_state = "WAIT_START" /\ result = "RUNNING"
       THEN candidate = << >>
       ELSE candidate # << >> /\ candidate[1] = PACKER_START_BYTE
  /\ unpack_state = "READ_LENGTH_HIGH" => Len(candidate) = 1 /\ CrcUpTo(1)
  /\ unpack_state = "READ_LENGTH_LOW" =>
       Len(candidate) = 2 /\ CrcUpTo(2) /\ unpack_length = B * candidate[2]
  /\ unpack_state = "READ_PAYLOAD" =>
       /\ unpack_offset < unpack_length /\ Len(candidate) = 3 + unpack_offset
       /\ LengthRead /\ PayloadRead(unpack_offset) /\ CrcUpTo(Len(candidate))
  /\ unpack_state = "READ_CRC_HIGH" => FrameRead /\ Len(candidate) = 3 + unpack_length
  /\ unpack_state = "READ_CRC_LOW" => FrameRead /\ HighRead /\ Len(candidate) = 4 + unpack_length
  /\ unpack_state = "WAIT_END" => TrailerRead /\ Len(candidate) = 5 + unpack_length
  /\ result = "SUCCESS" =>
       /\ TrailerRead /\ Len(candidate) = 6 + unpack_length
       /\ candidate[6 + unpack_length] = PACKER_END_BYTE

\* What each error says about the candidate it ends.
FailureIsReal ==
  /\ result = "LENGTH_OUT_OF_BOUNDS" =>
       /\ Len(candidate) = 3
       /\ ~decodable(received_length(candidate))
  /\ result = "CRC_MISMATCH" =>
       /\ FrameRead
       /\ \/ Len(candidate) = 4 + unpack_length /\ ~HighRead
          \/ /\ Len(candidate) = 5 + unpack_length
             /\ candidate[5 + unpack_length] # low(unpack_crc)
  /\ result = "INVALID_END_BYTE" =>
       /\ TrailerRead /\ Len(candidate) = 6 + unpack_length
       /\ candidate[6 + unpack_length] # PACKER_END_BYTE
=============================================================================
