------------------------------ MODULE Protocol ------------------------------
(***************************************************************************)
(* The frame format and the byte-at-a-time parser of                       *)
(* communication/protocol/protocol.c:                                      *)
(*                                                                         *)
(*   START | LENGTH low, high | PAYLOAD | CRC low, high | STOP             *)
(*                                                                         *)
(* with the CRC over LENGTH and PAYLOAD.  A byte takes B values (256 in    *)
(* the code), a 16-bit word B * B.  The parser is fed any byte at any      *)
(* time: noise, truncated frames and frames that follow noise included.    *)
(* The CRC is a parameter: bulk (pack) and incremental (feed) forms, tied  *)
(* together by CrcAssumption only.                                         *)
(***************************************************************************)
EXTENDS Integers, Sequences

CONSTANTS
  B,                      \* values of a uint8_t
  PROTOCOL_START_BYTE,
  PROTOCOL_STOP_BYTE,
  PROTOCOL_MAX_PAYLOAD,
  OutputSize,             \* output_size, the caller's receive buffer
  CrcLength,              \* longest LENGTH and PAYLOAD whose CRC is tabulated
  crc16_mcrf4xx_update,   \* utils/crc.c: one byte more
  crc16_mcrf4xx           \* utils/crc.c: a whole buffer

Byte == 0 .. B - 1
Word == 0 .. B * B - 1

PROTOCOL_FRAME_OVERHEAD == 6

\* The byte strings of at most the given length.
BytesUpTo(n) == UNION {[1 .. k -> Byte] : k \in 0 .. n}

ASSUME ByteAssumption ==
  /\ B \in Nat /\ B > 1
  /\ PROTOCOL_START_BYTE \in Byte /\ PROTOCOL_STOP_BYTE \in Byte

\* 512 + 6 < 65536: no sum of lengths wraps a uint16_t.
ASSUME SizeAssumption ==
  /\ PROTOCOL_MAX_PAYLOAD \in Nat
  /\ PROTOCOL_MAX_PAYLOAD + PROTOCOL_FRAME_OVERHEAD < B * B
  /\ OutputSize \in Word /\ OutputSize >= PROTOCOL_FRAME_OVERHEAD
  /\ CrcLength \in Nat /\ CrcLength >= OutputSize - 4

\* The bulk CRC is the incremental one, byte after byte, from 0xFFFF.
ASSUME CrcAssumption ==
  /\ crc16_mcrf4xx_update \in [Word \X Byte -> Word]
  /\ crc16_mcrf4xx \in [BytesUpTo(CrcLength) -> Word]
  /\ crc16_mcrf4xx[<< >>] = B * B - 1
  /\ \A s \in BytesUpTo(CrcLength - 1), b \in Byte :
       crc16_mcrf4xx[Append(s, b)] = crc16_mcrf4xx_update[<<crc16_mcrf4xx[s], b>>]

VARIABLES
  state, unpack_crc, unpack_offset, unpack_length,   \* comm_protocol_t
  output,      \* the caller's buffer
  outcome,     \* what the last feed called back: "pending" when nothing
  candidate    \* history: the bytes since the START the parser locked on

parser_vars == <<state, unpack_crc, unpack_offset, unpack_length, output, outcome, candidate>>

-----------------------------------------------------------------------------
(* Packing.                                                                *)

low(word)  == word % B
high(word) == word \div B

\* What the CRC covers.
covered(input) == <<low(Len(input)), high(Len(input))>> \o input

trailer(crc) == <<low(crc), high(crc), PROTOCOL_STOP_BYTE>>

\* The bytes protocol_pack writes.
frame(input) ==
  <<PROTOCOL_START_BYTE>> \o covered(input) \o trailer(crc16_mcrf4xx[covered(input)])

\* Faulty variant (validates WritesInBounds): the overhead is forgotten.
packable_alone(len, output_size) ==
  /\ len <= PROTOCOL_MAX_PAYLOAD
  /\ len <= output_size

\* protocol_pack's two length tests against an output of the given size.
packable(len, output_size) ==
  /\ len <= PROTOCOL_MAX_PAYLOAD
  /\ (len + PROTOCOL_FRAME_OVERHEAD) % (B * B) <= output_size

-----------------------------------------------------------------------------
(* Feeding.                                                                *)

protocol_reset ==
  /\ state = "WAIT_START"
  /\ unpack_crc = B * B - 1
  /\ unpack_offset = 0
  /\ unpack_length = 0

\* The callback of this feed; any but "pending" ends the candidate frame.
Report(result) == outcome' = result

\* Back to WAIT_START with an error callback.
Fail(event) ==
  /\ state' = "WAIT_START"
  /\ Report(event)

\* Faulty variant (validates DeliversFrames, HandedIsDelivered): the running
\* CRC of the frame before is not reset.
WaitStartStaleCrc(byte) ==
  /\ state = "WAIT_START"
  /\ Report("pending")
  /\ \/ /\ byte = PROTOCOL_START_BYTE
        /\ unpack_offset' = 0 /\ unpack_length' = 0
        /\ state' = "READ_LENGTH"
        /\ candidate' = <<byte>>
        /\ UNCHANGED unpack_crc
     \/ /\ byte # PROTOCOL_START_BYTE
        /\ candidate' = << >>
        /\ UNCHANGED <<state, unpack_crc, unpack_offset, unpack_length>>
  /\ UNCHANGED output

WaitStart(byte) ==
  /\ state = "WAIT_START"
  /\ Report("pending")
  /\ \/ /\ byte = PROTOCOL_START_BYTE
        /\ unpack_offset' = 0 /\ unpack_length' = 0 /\ unpack_crc' = B * B - 1
        /\ state' = "READ_LENGTH"
        /\ candidate' = <<byte>>
     \/ /\ byte # PROTOCOL_START_BYTE
        /\ candidate' = << >>
        /\ UNCHANGED <<state, unpack_crc, unpack_offset, unpack_length>>
  /\ UNCHANGED output

ReadLengthLow(byte) ==
  /\ state = "READ_LENGTH" /\ unpack_offset = 0
  /\ unpack_crc' = crc16_mcrf4xx_update[<<unpack_crc, byte>>]
  /\ unpack_length' = byte
  /\ unpack_offset' = 1
  /\ Report("pending")
  /\ UNCHANGED <<state, output>>

\* Faulty variants: any length is let through (validates BoundedLock) ...
ReadLengthHighUnbounded(byte) ==
  /\ state = "READ_LENGTH" /\ unpack_offset # 0
  /\ unpack_crc' = crc16_mcrf4xx_update[<<unpack_crc, byte>>]
  /\ unpack_length' = unpack_length + B * byte
  /\ unpack_offset' = 0
  /\ state' = IF unpack_length' = 0 THEN "READ_CRC" ELSE "READ_PAYLOAD"
  /\ Report("pending")
  /\ UNCHANGED output

\* ... an empty payload is read all the same (validates AcceptsFrames).
ReadLengthHighNoEmpty(byte) ==
  /\ state = "READ_LENGTH" /\ unpack_offset # 0
  /\ unpack_crc' = crc16_mcrf4xx_update[<<unpack_crc, byte>>]
  /\ unpack_length' = unpack_length + B * byte
  /\ unpack_offset' = 0
  /\ \/ /\ ~packable(unpack_length', OutputSize)
        /\ Fail("OVERFLOW")
     \/ /\ packable(unpack_length', OutputSize)
        /\ state' = "READ_PAYLOAD"
        /\ Report("pending")
  /\ UNCHANGED output

\* The length is known: refuse it, or read as many bytes.
ReadLengthHigh(byte) ==
  /\ state = "READ_LENGTH" /\ unpack_offset # 0
  /\ unpack_crc' = crc16_mcrf4xx_update[<<unpack_crc, byte>>]
  /\ unpack_length' = unpack_length + B * byte
  /\ unpack_offset' = 0
  /\ \/ /\ ~packable(unpack_length', OutputSize)
        /\ Fail("OVERFLOW")
     \/ /\ packable(unpack_length', OutputSize)
        /\ state' = IF unpack_length' = 0 THEN "READ_CRC" ELSE "READ_PAYLOAD"
        /\ Report("pending")
  /\ UNCHANGED output

ReadPayload(byte) ==
  /\ state = "READ_PAYLOAD"
  /\ output' = [output EXCEPT ![unpack_offset] = byte]
  /\ unpack_crc' = crc16_mcrf4xx_update[<<unpack_crc, byte>>]
  /\ \/ /\ unpack_offset + 1 >= unpack_length
        /\ unpack_offset' = 0
        /\ state' = "READ_CRC"
     \/ /\ unpack_offset + 1 < unpack_length
        /\ unpack_offset' = unpack_offset + 1
        /\ UNCHANGED state
  /\ Report("pending")
  /\ UNCHANGED unpack_length

\* The low byte of the received CRC is parked behind the payload.
ReadCrcLow(byte) ==
  /\ state = "READ_CRC" /\ unpack_offset = 0
  /\ output' = [output EXCEPT ![unpack_length] = byte]
  /\ unpack_offset' = 1
  /\ Report("pending")
  /\ UNCHANGED <<state, unpack_crc, unpack_length>>

ReadCrcHigh(byte) ==
  /\ state = "READ_CRC" /\ unpack_offset # 0
  /\ unpack_offset' = 0
  /\ LET received_crc == output[unpack_length] + B * byte
     IN  \/ /\ received_crc # unpack_crc
            /\ Fail("CRC_ERROR")
         \/ /\ received_crc = unpack_crc
            /\ state' = "READ_STOP"
            /\ Report("pending")
  /\ UNCHANGED <<unpack_crc, unpack_length, output>>

ReadStop(byte) ==
  /\ state = "READ_STOP"
  /\ \/ /\ byte # PROTOCOL_STOP_BYTE
        /\ Fail("FORMAT_ERROR")
     \/ /\ byte = PROTOCOL_STOP_BYTE
        /\ state' = "WAIT_START"
        /\ Report("done")
  /\ UNCHANGED <<unpack_crc, unpack_offset, unpack_length, output>>

\* protocol_feed
feed(byte) ==
  \/ WaitStart(byte)
  \/ /\ \/ ReadLengthLow(byte) \/ ReadLengthHigh(byte) \/ ReadPayload(byte)
        \/ ReadCrcLow(byte) \/ ReadCrcHigh(byte) \/ ReadStop(byte)
     /\ candidate' = Append(candidate, byte)

\* What on_parser_done hands over.
payload == [i \in 1 .. unpack_length |-> output[i - 1]]

-----------------------------------------------------------------------------
ParserInit ==
  /\ protocol_reset
  /\ output = [i \in 0 .. OutputSize - 1 |-> 0]
  /\ outcome = "pending"
  /\ candidate = << >>

ParserNext == \E byte \in Byte : feed(byte)

ParserSpec == ParserInit /\ [][ParserNext]_parser_vars

-----------------------------------------------------------------------------
ParserTypeOK ==
  /\ state \in {"WAIT_START", "READ_LENGTH", "READ_PAYLOAD", "READ_CRC", "READ_STOP"}
  /\ unpack_crc \in Word /\ unpack_offset \in Word /\ unpack_length \in Word
  /\ output \in [0 .. OutputSize - 1 -> Byte]
  /\ outcome \in {"pending", "done", "OVERFLOW", "CRC_ERROR", "FORMAT_ERROR"}
  /\ candidate \in Seq(Byte)

(* Every write to the caller's buffer is inside it, the byte that parks    *)
(* the received CRC behind the payload included (protocol.c:89, 102).      *)
WritesInBounds ==
  /\ state = "READ_PAYLOAD" => unpack_offset < unpack_length /\ unpack_offset < OutputSize
  /\ state = "READ_CRC" => unpack_length < OutputSize

(* Soundness: on_parser_done is called only when the bytes since START are *)
(* exactly the frame that protocol_pack makes of the payload handed over,  *)
(* whatever came before them and whatever stale bytes the buffer held.     *)
DeliversFrames ==
  outcome = "done" =>
    /\ packable(unpack_length, OutputSize)
    /\ candidate = frame(payload)

(* Completeness: once the parser has locked on the START of a packed frame *)
(* that fits the buffer, it neither reports an error nor falls back before *)
(* the frame ends, and then it delivers it.                                *)
AcceptsFrames ==
  candidate # << >> =>
    \A p \in BytesUpTo(OutputSize - PROTOCOL_FRAME_OVERHEAD) :
      LET f == frame(p)
          n == Len(candidate)
      IN  ( /\ packable(Len(p), OutputSize)
            /\ n \in 1 .. Len(f)
            /\ candidate = SubSeq(f, 1, n) )
          => IF n < Len(f) THEN state # "WAIT_START"
                           ELSE outcome = "done" /\ payload = p

(* The inductive invariant: what the fields of comm_protocol_t say about   *)
(* the candidate bytes in each state of the parser.                        *)
LengthRead ==
  /\ unpack_length = candidate[2] + B * candidate[3]
  /\ packable(unpack_length, OutputSize)

PayloadRead(n) == \A i \in 1 .. n : candidate[3 + i] = output[i - 1]

CrcUpTo(n) == unpack_crc = crc16_mcrf4xx[SubSeq(candidate, 2, n)]

TrailerRead ==
  /\ LengthRead /\ PayloadRead(unpack_length) /\ CrcUpTo(3 + unpack_length)
  /\ candidate[4 + unpack_length] + B * candidate[5 + unpack_length] = unpack_crc

LockInv ==
  /\ outcome # "pending" => state = "WAIT_START"
  /\ state # "WAIT_START" \/ outcome = "done" => candidate # << >> /\ candidate[1] = PROTOCOL_START_BYTE
  /\ state = "WAIT_START" /\ outcome = "pending" => candidate = << >>
  /\ state = "READ_LENGTH" =>
       /\ unpack_offset \in {0, 1} /\ Len(candidate) = 1 + unpack_offset
       /\ unpack_offset = 1 => unpack_length = candidate[2]
       /\ CrcUpTo(Len(candidate))
  /\ state = "READ_PAYLOAD" =>
       /\ unpack_offset < unpack_length /\ Len(candidate) = 3 + unpack_offset
       /\ LengthRead /\ PayloadRead(unpack_offset) /\ CrcUpTo(Len(candidate))
  /\ state = "READ_CRC" =>
       /\ unpack_offset \in {0, 1} /\ Len(candidate) = 3 + unpack_length + unpack_offset
       /\ LengthRead /\ PayloadRead(unpack_length) /\ CrcUpTo(3 + unpack_length)
       /\ unpack_offset = 1 => output[unpack_length] = candidate[4 + unpack_length]
  /\ state = "READ_STOP" => TrailerRead /\ Len(candidate) = 5 + unpack_length
  /\ outcome = "done" =>
       /\ TrailerRead /\ Len(candidate) = 6 + unpack_length
       /\ candidate[6 + unpack_length] = PROTOCOL_STOP_BYTE
  /\ Len(candidate) <= OutputSize

\* What each error callback says about the candidate it ends.
FailureIsReal ==
  /\ outcome = "OVERFLOW" =>
       /\ Len(candidate) = 3
       /\ ~packable(candidate[2] + B * candidate[3], OutputSize)
  /\ outcome = "CRC_ERROR" =>
       /\ Len(candidate) = 5 + unpack_length
       /\ LengthRead /\ CrcUpTo(3 + unpack_length)
       /\ candidate[4 + unpack_length] + B * candidate[5 + unpack_length] # unpack_crc
  /\ outcome = "FORMAT_ERROR" =>
       /\ Len(candidate) = 6 + unpack_length
       /\ LengthRead
       /\ candidate[6 + unpack_length] # PROTOCOL_STOP_BYTE

(* A parser that has locked on a START byte that is no frame's start (line *)
(* noise, a byte lost) is back in WAIT_START before it has eaten more      *)
(* bytes than the receive buffer holds, whatever length it has read.       *)
BoundedLock ==
  /\ state # "WAIT_START" => Len(candidate) < OutputSize
  /\ Len(candidate) <= OutputSize
=============================================================================
