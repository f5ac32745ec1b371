----------------------------- MODULE CommQueue ------------------------------
(***************************************************************************)
(* The ring buffer of communication/queue/comm_queue.c shared by one       *)
(* producer and one consumer without a lock: the receive interrupt pushes  *)
(* chunks while the main loop pops single bytes.  Each step below is one   *)
(* access to the shared record, so that the two run interleaved as an      *)
(* interrupt (or a second core) can interleave them.                       *)
(***************************************************************************)
EXTENDS Ring

CONSTANTS
  uint8_t,    \* the values of a byte
  QueueSize,  \* slots of the ring, one of which always stays free
  Chunks,     \* the chunks the producer may hand to one push
  MaxPushed   \* bound on the bytes offered to push in a behaviour

\* comm_init refuses a queue of size 0.
ASSUME QueueAssumption == QueueSize \in Nat \ {0}
ASSUME ChunksAssumption == Chunks \subseteq Seq(uint8_t)
ASSUME MaxPushedAssumption == MaxPushed \in Nat

VARIABLES
  buffer, head, tail, overflow,   \* comm_queue_t
  push_pc, data, written, next,   \* the producer, inside comm_queue_push
  pop_pc, byte_out,               \* the consumer, inside comm_queue_pop
  offered,    \* how many bytes push has been called with
  accepted,   \* history: the bytes published, oldest first
  received    \* history: the bytes pop has returned, oldest first

queue_vars == <<buffer, head, tail, overflow>>
push_vars  == <<push_pc, data, written, next>>
pop_vars   == <<pop_pc, byte_out>>
vars == <<queue_vars, push_vars, pop_vars, offered, accepted, received>>

-----------------------------------------------------------------------------
\* comm_queue_init.  The caller's storage is not cleared: any contents.
Init ==
  /\ buffer \in Storage(QueueSize, uint8_t)
  /\ head = 0 /\ tail = 0
  /\ overflow = FALSE
  /\ push_pc = "idle" /\ data = << >> /\ written = 0 /\ next = 0
  /\ pop_pc = "idle" /\ byte_out \in uint8_t
  /\ offered = 0
  /\ accepted = << >> /\ received = << >>

\* The bytes held, oldest first.
Contents == Bytes(buffer, head, tail, QueueSize)

-----------------------------------------------------------------------------
(* The producer: comm_queue_push(q, data, len).                            *)

Push(chunk) ==
  /\ push_pc = "idle"
  /\ offered + Len(chunk) <= MaxPushed
  /\ push_pc' = "check" /\ data' = chunk /\ written' = 0
  /\ offered' = offered + Len(chunk)
  /\ UNCHANGED <<queue_vars, next, pop_vars, accepted, received>>

\* The loop is over: return written.
PushReturn ==
  /\ push_pc = "check"
  /\ written = Len(data)
  /\ push_pc' = "idle"
  /\ UNCHANGED <<queue_vars, data, written, next, pop_vars, offered, accepted, received>>

\* Faulty variant (validates ImplementsFifo): full one slot too early.
PushOverflowEarly ==
  /\ push_pc = "check"
  /\ written < Len(data)
  /\ successor(successor(head, QueueSize), QueueSize) = tail
  /\ next' = successor(head, QueueSize)
  /\ overflow' = TRUE
  /\ push_pc' = "idle"
  /\ UNCHANGED <<buffer, head, tail, data, written, pop_vars, offered, accepted, received>>

\* next == tail: the rest of the chunk is given up.
PushOverflow ==
  /\ push_pc = "check"
  /\ written < Len(data)
  /\ successor(head, QueueSize) = tail
  /\ next' = successor(head, QueueSize)
  /\ overflow' = TRUE
  /\ push_pc' = "idle"
  /\ UNCHANGED <<buffer, head, tail, data, written, pop_vars, offered, accepted, received>>

\* Faulty variant (validates InOrder): room is taken for granted.
PushRoomUnchecked ==
  /\ push_pc = "check"
  /\ written < Len(data)
  /\ next' = successor(head, QueueSize)
  /\ push_pc' = "store"
  /\ UNCHANGED <<queue_vars, data, written, pop_vars, offered, accepted, received>>

PushRoom ==
  /\ push_pc = "check"
  /\ written < Len(data)
  /\ successor(head, QueueSize) # tail
  /\ next' = successor(head, QueueSize)
  /\ push_pc' = "store"
  /\ UNCHANGED <<queue_vars, data, written, pop_vars, offered, accepted, received>>

PushStore ==
  /\ push_pc = "store"
  /\ buffer' = [buffer EXCEPT ![head] = data[written + 1]]
  /\ push_pc' = "publish"
  /\ UNCHANGED <<head, tail, overflow, data, written, next, pop_vars, offered, accepted, received>>

\* q->head = next makes the byte visible to the consumer.
PushPublish ==
  /\ push_pc = "publish"
  /\ head' = next
  /\ written' = written + 1
  /\ accepted' = Append(accepted, data[written + 1])
  /\ push_pc' = "check"
  /\ UNCHANGED <<buffer, tail, overflow, data, next, pop_vars, offered, received>>

-----------------------------------------------------------------------------
(* The consumer: comm_queue_pop(q, byte_out).  A pop that finds the queue  *)
(* empty returns false and changes nothing.                                *)

PopNonEmpty ==
  /\ pop_pc = "idle"
  /\ head # tail
  /\ pop_pc' = "load"
  /\ UNCHANGED <<queue_vars, push_vars, byte_out, offered, accepted, received>>

PopLoad ==
  /\ pop_pc = "load"
  /\ byte_out' = buffer[tail]
  /\ pop_pc' = "advance"
  /\ UNCHANGED <<queue_vars, push_vars, offered, accepted, received>>

\* q->tail moves: the slot is the producer's again, and pop returns true.
PopAdvance ==
  /\ pop_pc = "advance"
  /\ tail' = successor(tail, QueueSize)
  /\ received' = Append(received, byte_out)
  /\ pop_pc' = "idle"
  /\ UNCHANGED <<buffer, head, overflow, push_vars, byte_out, offered, accepted>>

-----------------------------------------------------------------------------
Producer ==
  \/ \E chunk \in Chunks : Push(chunk)
  \/ PushReturn \/ PushOverflow \/ PushRoom \/ PushStore \/ PushPublish

Consumer == PopNonEmpty \/ PopLoad \/ PopAdvance

Next == Producer \/ Consumer

Spec == Init /\ [][Next]_vars

-----------------------------------------------------------------------------
TypeOK ==
  /\ buffer \in Storage(QueueSize, uint8_t)
  /\ head \in Slot(QueueSize) /\ tail \in Slot(QueueSize) /\ next \in Slot(QueueSize)
  /\ overflow \in BOOLEAN
  /\ push_pc \in {"idle", "check", "store", "publish"}
  /\ data \in Seq(uint8_t)
  /\ written \in 0 .. Len(data)
  /\ pop_pc \in {"idle", "load", "advance"}
  /\ byte_out \in uint8_t
  /\ offered \in Nat
  /\ accepted \in Seq(uint8_t) /\ received \in Seq(uint8_t)

(* Nothing is lost, duplicated, reordered or altered between push and pop: *)
(* what pop has returned followed by what the ring holds is exactly what   *)
(* push has published, at every point of an interleaved push and pop.      *)
InOrder == received \o Contents = accepted

(* A slot is never written while the consumer is between its emptiness     *)
(* test and the advance of tail: the byte it reads is not torn.            *)
NoSlotRace ==
  (push_pc \in {"store", "publish"} /\ pop_pc \in {"load", "advance"}) => head # tail

(* The test of next against tail is stale as soon as it is made, and yet   *)
(* the slot about to be published is still free and next is still head's   *)
(* successor: only the consumer has moved, and it only makes room.         *)
RoomStillThere ==
  push_pc \in {"store", "publish"} => next = successor(head, QueueSize) /\ next # tail

(* The inductive invariant behind the three above: what each side knows    *)
(* while it is inside its loop body.                                       *)
Inv ==
  /\ TypeOK
  /\ RoomStillThere
  /\ push_pc \in {"store", "publish"} => written < Len(data)
  /\ push_pc = "publish" => buffer[head] = data[written + 1]
  /\ pop_pc # "idle" => head # tail
  /\ pop_pc = "advance" => byte_out = buffer[tail]
  /\ InOrder

(* The ring implements the bounded FIFO queue of capacity size - 1, also   *)
(* in what it reports: overflow is set only when the ring really is full.  *)
Queue == INSTANCE Fifo WITH
  Byte     <- uint8_t,
  Capacity <- QueueSize - 1,
  queue    <- Contents,
  taken    <- received,
  refused  <- overflow

ImplementsFifo == Queue!Spec
=============================================================================
