-------------------------------- MODULE Fifo --------------------------------
(***************************************************************************)
(* What a byte queue promises, whatever its layout: a bounded first-in     *)
(* first-out queue of bytes.  A byte that finds no room is refused and the *)
(* refusal is remembered.  The ring of comm_queue.c (module CommQueue) and *)
(* the one of my_queue.c (module MyQueue) are shown to implement it, and   *)
(* the managers are modelled on top of it.                                 *)
(***************************************************************************)
EXTENDS Integers, Sequences

CONSTANTS
  Byte,      \* the values a slot can hold
  Capacity   \* how many of them the queue can hold

VARIABLES
  queue,     \* the bytes held, oldest first
  taken,     \* every byte handed out so far, oldest first
  refused    \* whether some byte has found the queue full

Init ==
  /\ queue = << >>
  /\ taken = << >>
  /\ refused = FALSE

Put ==
  /\ Len(queue) < Capacity
  /\ \E b \in Byte : queue' = Append(queue, b)
  /\ UNCHANGED <<taken, refused>>

Refuse ==
  /\ Len(queue) = Capacity
  /\ refused' = TRUE
  /\ UNCHANGED <<queue, taken>>

Get ==
  /\ queue # << >>
  /\ queue' = Tail(queue)
  /\ taken' = Append(taken, Head(queue))
  /\ UNCHANGED refused

\* Several bytes at once.
GetMany ==
  /\ \E n \in 2 .. Len(queue) :
       /\ queue' = SubSeq(queue, n + 1, Len(queue))
       /\ taken' = taken \o SubSeq(queue, 1, n)
  /\ UNCHANGED refused

Next == Put \/ Refuse \/ Get \/ GetMany

Spec == Init /\ [][Next]_<<queue, taken, refused>>
=============================================================================
