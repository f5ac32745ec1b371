--------------------------- MODULE MCHandleLayers ---------------------------
(***************************************************************************)
(* Small instances of the two modules below comm_manager.c; a behaviour is *)
(* about one of them.  The ring has three slots, so that two bytes fill it *)
(* and five pushed bytes wrap both indices; chunks of up to three bytes,   *)
(* so that one push can stop halfway; batches smaller and larger than what *)
(* it holds.  The decoder has bytes of two bits, so 4-bit words and CRC,   *)
(* payloads of one to three bytes, and received lengths of up to 15.       *)
(***************************************************************************)
EXTENDS MyQueue, MyPacker, ToyCrc

VARIABLE part           \* "queue" or "packer"

MCByteCal == ToyUpdate
MCCal == ToyCrcUpTo(CrcLength)
MCChunks == UNION {[1 .. n -> uint8_t] : n \in 0 .. 3}

layersVars == <<part, vars, packer_vars>>

LayersInit == part \in {"queue", "packer"} /\ Init /\ PackerInit

UseQueue == part = "queue" /\ Next /\ UNCHANGED <<part, packer_vars>>
UsePacker == part = "packer" /\ PackerNext /\ UNCHANGED <<part, vars>>
LayersNext == UseQueue \/ UsePacker

LayersSpec == LayersInit /\ [][LayersNext]_layersVars
=============================================================================
