-------------------------------- MODULE Ring --------------------------------
(***************************************************************************)
(* The layout that comm_queue.c, my_queue.c and SEGGER_RTT.c share: a ring *)
(* of size slots between an index w where the producer writes next and an  *)
(* index r where the consumer reads next, with one slot always free.       *)
(* comm_queue.c calls them head and tail, my_queue.c _tail and _head,      *)
(* SEGGER_RTT.c WrOff and RdOff.                                           *)
(***************************************************************************)
EXTENDS Integers, Sequences

Slot(size) == 0 .. size - 1

\* What the buffer of such a ring can hold.
Storage(size, byte) == [Slot(size) -> byte]

\* (index + 1) % size, computed in int or unsigned int: the sum does not wrap.
successor(index, size) == (index + 1) % size

\* How many slots hold a byte.
count(w, r, size) == (w - r + size) % size

\* The bytes that a buffer b holds from r to w, oldest first.
Bytes(b, w, r, size) == [k \in 1 .. count(w, r, size) |-> b[(r + k - 1) % size]]
=============================================================================
