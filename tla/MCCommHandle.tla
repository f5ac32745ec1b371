---------------------------- MODULE MCCommHandle ----------------------------
(* Small instances of CommHandle: bytes and CRC of MCHandleLayers,        *)
(* payloads with START, END and plain bytes, frames of seven and eight     *)
(* bytes and a transmit buffer of nine, which cuts the second frame of a   *)
(* chunk.                                                                  *)
EXTENDS CommHandle, ToyCrc

MCByteCal == ToyUpdate
MCCal == ToyCrcUpTo(CrcLength)

MCMessages == { <<1>>, <<2, 3>> }
MCOneMessage == { <<1>> }
MCNoMessages == { }
=============================================================================
