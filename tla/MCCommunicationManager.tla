----------------------- MODULE MCCommunicationManager -----------------------
(* Small instances of CommunicationManager: bytes and CRC of MCRings,      *)
(* payloads of one to three bytes that contain START, STOP and plain       *)
(* bytes, one empty and one too long for pack_buf.                         *)
EXTENDS CommunicationManager, ToyCrc

MCUpdate == ToyUpdate
MCCrc == ToyCrcUpTo(CrcLength)

\* Two payloads that are accepted while there is room.
MCMessages == { <<1>>, <<2, 3>> }

\* The same, none, and one too long for pack_buf.
MCAllMessages == MCMessages \cup { << >>, [i \in 1 .. PROTOCOL_MAX_PAYLOAD + 1 |-> 0] }

\* A payload that pack accepts, longer than rx_buf leaves room for.
MCLongMessages == { <<1, 2, 3>> }
=============================================================================
