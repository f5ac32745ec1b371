------------------------------- MODULE MCRings ------------------------------
(***************************************************************************)
(* The rings that are shared without a lock, or with one too few, and the  *)
(* parser that is fed from one: comm_queue.c and protocol.c, on which      *)
(* communication_manager.c stands, and SEGGER_RTT.c.  A behaviour is about *)
(* one of them.  What an RTT ring does with its data depends on its slot   *)
(* of the control block only through its flags, which the ring keeps       *)
(* itself.  The ring of comm_queue.c has three slots, so that two bytes    *)
(* fill it and five pushed bytes wrap both indices; chunks of up to three  *)
(* bytes, so that one push can overflow halfway.  The parser has bytes of  *)
(* two bits, so 4-bit words and CRC, and as rx_buf does its buffer holds   *)
(* as many bytes as the longest payload.                                   *)
(***************************************************************************)
EXTENDS SeggerRtt, RttControl, CommQueue, Protocol, ToyCrc

VARIABLE part           \* "queue", "parser", "ring" or "control"

MCChunks == UNION {[1 .. n -> uint8_t] : n \in 0 .. 3}
MCUpdate == ToyUpdate
MCCrc == ToyCrcUpTo(CrcLength)

ringsVars == <<part, vars, parser_vars, rttVars, controlVars>>

RingsInit ==
  /\ part \in {"queue", "parser", "ring", "control"}
  /\ Init /\ ParserInit /\ RttInit /\ ControlInit
  /\ part # "queue" => \A n \in DOMAIN buffer : buffer[n] = 1
  /\ part # "ring" => use = "up" /\ Flags = 0

UseQueue == part = "queue" /\ Next /\ UNCHANGED <<part, parser_vars, rttVars, controlVars>>
UseParser == part = "parser" /\ ParserNext /\ UNCHANGED <<part, vars, rttVars, controlVars>>
UseRing == part = "ring" /\ RttNext /\ UNCHANGED <<part, vars, parser_vars, controlVars>>
UseControl == part = "control" /\ ControlNext /\ UNCHANGED <<part, vars, parser_vars, rttVars>>
RingsNext == UseQueue \/ UseParser \/ UseRing \/ UseControl

RingsSpec == RingsInit /\ [][RingsNext]_ringsVars /\ RttFairness
=============================================================================
