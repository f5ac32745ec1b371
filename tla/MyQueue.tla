------------------------------ MODULE MyQueue ------------------------------
(***************************************************************************)
(* The ring of comm_handle/my_queue.c between one producer and one         *)
(* consumer: the receive interrupt pushes chunks, the main loop pops       *)
(* batches, or peeks at a batch and discards it once the transport has     *)
(* accepted it.  Each step is one access to an index or a byte that the    *)
(* two sides share.  _tail is the write index here, _head the read index.  *)
(***************************************************************************)
EXTENDS Ring

CONSTANTS
  uint8_t,    \* the values of a byte
  Size,       \* slots of the ring, one of which always stays free
  Chunks,     \* the chunks the producer may hand to one push
  MaxBatch,   \* the most bytes the consumer asks for in one call
  MaxPushed   \* bound on the bytes offered to push in a behaviour

\* queue_init refuses a size of 0, and of 1 too.
ASSUME QueueAssumption == Size \in Nat \ {0}
ASSUME ChunksAssumption == Chunks \subseteq Seq(uint8_t)
ASSUME BoundsAssumption == MaxBatch \in Nat \ {0} /\ MaxPushed \in Nat

VARIABLES
  _buffer, _head, _tail, _overwrite,   \* queue
  push_pc, data, i,                    \* the producer, inside queue_push
  pop_pc, wanted, out,                 \* the consumer, inside pop, peek_data or discard
  granted,    \* history: queue_get_space when the push in progress began
  offered,    \* how many bytes push has been called with
  refused,    \* history: some byte has found the ring full
  accepted,   \* history: the bytes published, oldest first
  received    \* history: the bytes popped, or peeked at and then discarded

queue_vars == <<_buffer, _head, _tail, _overwrite>>
push_vars  == <<push_pc, data, i, granted, offered, refused, accepted>>
pop_vars   == <<pop_pc, wanted, out, received>>
vars == <<queue_vars, push_vars, pop_vars>>

-----------------------------------------------------------------------------
\* queue_init: the storage comes from calloc, which leaves one value everywhere.
Init ==
  /\ \E b \in uint8_t : _buffer = [s \in Slot(Size) |-> b]
  /\ _head = 0 /\ _tail = 0 /\ _overwrite = 0
  /\ push_pc = "idle" /\ data = << >> /\ i = 0
  /\ pop_pc = "idle" /\ wanted = 0 /\ out = << >>
  /\ granted = 0 /\ offered = 0 /\ refused = FALSE
  /\ accepted = << >> /\ received = << >>

queue_get_data_length == count(_tail, _head, Size)

\* Faulty variant (validates SpaceIsKept): the slot that stays free is counted.
queue_get_space_all == Size - count(_tail, _head, Size)

queue_get_space == Size - 1 - count(_tail, _head, Size)

\* Faulty variant (validates ImplementsFifo): full one slot too early.
queue_is_full_early == successor(successor(_tail, Size), Size) = _head

queue_is_full == successor(_tail, Size) = _head

\* The bytes held, oldest first.
Contents == Bytes(_buffer, _tail, _head, Size)

-----------------------------------------------------------------------------
(* The producer: queue_push(mQueue, buff, length), byte by byte through    *)
(* queue_push_byte.                                                        *)

Push(chunk) ==
  /\ push_pc = "idle"
  /\ offered + Len(chunk) <= MaxPushed
  /\ push_pc' = "check" /\ data' = chunk /\ i' = 0
  /\ granted' = queue_get_space
  /\ offered' = offered + Len(chunk)
  /\ UNCHANGED <<queue_vars, pop_vars, refused, accepted>>

\* The whole chunk is in.
PushReturn ==
  /\ push_pc = "check" /\ i = Len(data)
  /\ push_pc' = "idle"
  /\ UNCHANGED <<queue_vars, pop_vars, data, i, granted, offered, refused, accepted>>

\* QUEUE_FULL: the rest of the chunk is given up.
PushFull ==
  /\ push_pc = "check" /\ i < Len(data)
  /\ queue_is_full
  /\ _overwrite' = 1 /\ refused' = TRUE
  /\ push_pc' = "idle"
  /\ UNCHANGED <<_buffer, _head, _tail, pop_vars, data, i, granted, offered, accepted>>

PushRoom ==
  /\ push_pc = "check" /\ i < Len(data)
  /\ ~queue_is_full
  /\ push_pc' = "store"
  /\ UNCHANGED <<queue_vars, pop_vars, data, i, granted, offered, refused, accepted>>

PushStore ==
  /\ push_pc = "store"
  /\ _buffer' = [_buffer EXCEPT ![_tail] = data[i + 1]]
  /\ push_pc' = "publish"
  /\ UNCHANGED <<_head, _tail, _overwrite, pop_vars, data, i, granted, offered, refused, accepted>>

\* _tail moves: the byte is visible to the consumer.
PushPublish ==
  /\ push_pc = "publish"
  /\ _tail' = successor(_tail, Size)
  /\ i' = i + 1
  /\ accepted' = Append(accepted, data[i + 1])
  /\ push_pc' = "check"
  /\ UNCHANGED <<_buffer, _head, _overwrite, pop_vars, data, granted, offered, refused>>

-----------------------------------------------------------------------------
(* The consumer.                                                           *)

\* How many bytes a call with this length takes, from one reading of _tail.
batch(length) ==
  IF queue_get_data_length < length THEN queue_get_data_length ELSE length

Start(pc, n) ==
  /\ pop_pc = "idle"
  /\ pop_pc' = pc
  /\ wanted' = n /\ out' = << >>
  /\ UNCHANGED <<queue_vars, push_vars, received>>

\* queue_pop(mQueue, buffer, length); an empty queue is a batch of none.
Pop(length) == Start("pop", batch(length))

\* queue_pop_byte: QUEUE_EMPTY changes nothing.
PopByte == _head # _tail /\ Start("pop", 1)

PopLoad ==
  /\ pop_pc = "pop" /\ Len(out) < wanted
  /\ out' = Append(out, _buffer[_head])
  /\ pop_pc' = "advance"
  /\ UNCHANGED <<queue_vars, push_vars, wanted, received>>

\* _head moves: the slot is the producer's again.
PopAdvance ==
  /\ pop_pc = "advance"
  /\ _head' = successor(_head, Size)
  /\ received' = Append(received, out[Len(out)])
  /\ pop_pc' = "pop"
  /\ UNCHANGED <<_buffer, _tail, _overwrite, push_vars, wanted, out>>

\* The producer may be setting _overwrite at the same time; nothing reads it.
PopReturn ==
  /\ pop_pc = "pop" /\ Len(out) = wanted
  /\ _overwrite' = 0
  /\ pop_pc' = "idle"
  /\ UNCHANGED <<_buffer, _head, _tail, push_vars, wanted, out, received>>

\* queue_peek_data(mQueue, buffer, length): copies from _head, which stays.
PeekData(length) == Start("peek", batch(length))

PeekLoad ==
  /\ pop_pc = "peek" /\ Len(out) < wanted
  /\ out' = Append(out, _buffer[(_head + Len(out)) % Size])
  /\ UNCHANGED <<queue_vars, push_vars, pop_pc, wanted, received>>

\* What was peeked at is not wanted yet: it is left in the queue.
PeekKeep ==
  /\ pop_pc = "peek" /\ Len(out) = wanted
  /\ pop_pc' = "idle"
  /\ UNCHANGED <<queue_vars, push_vars, wanted, out, received>>

\* queue_discard(mQueue, Len(out)): how many are there to discard ...
Discard ==
  /\ pop_pc = "peek" /\ Len(out) = wanted
  /\ wanted' = batch(Len(out))
  /\ pop_pc' = "discard"
  /\ UNCHANGED <<queue_vars, push_vars, out, received>>

\* ... and _head moves over all of them.
DiscardAdvance ==
  /\ pop_pc = "discard"
  /\ _head' = (_head + wanted) % Size
  /\ received' = received \o out
  /\ pop_pc' = "idle"
  /\ UNCHANGED <<_buffer, _tail, _overwrite, push_vars, wanted, out>>

-----------------------------------------------------------------------------
Producer ==
  \/ \E chunk \in Chunks : Push(chunk)
  \/ PushReturn \/ PushFull \/ PushRoom \/ PushStore \/ PushPublish

Consumer ==
  \/ \E length \in 1 .. MaxBatch : Pop(length) \/ PeekData(length)
  \/ PopByte \/ PopLoad \/ PopAdvance \/ PopReturn
  \/ PeekLoad \/ PeekKeep \/ Discard \/ DiscardAdvance

Next == Producer \/ Consumer

Spec == Init /\ [][Next]_vars

-----------------------------------------------------------------------------
TypeOK ==
  /\ _buffer \in Storage(Size, uint8_t)
  /\ _head \in Slot(Size) /\ _tail \in Slot(Size) /\ _overwrite \in {0, 1}
  /\ push_pc \in {"idle", "check", "store", "publish"}
  /\ data \in Seq(uint8_t) /\ i \in 0 .. Len(data)
  /\ pop_pc \in {"idle", "pop", "advance", "peek", "discard"}
  /\ wanted \in 0 .. Size - 1 /\ out \in Seq(uint8_t) /\ Len(out) <= wanted
  /\ granted \in 0 .. Size - 1 /\ offered \in Nat /\ refused \in BOOLEAN
  /\ accepted \in Seq(uint8_t) /\ received \in Seq(uint8_t)

(* What the consumer has popped, or peeked at and then discarded, followed *)
(* by what the ring holds, is exactly what the producer has published:     *)
(* bytes pushed between peek and discard are not thrown away with the      *)
(* peeked ones, and a batch survives pushes in its midst.                  *)
InOrder == received \o Contents = accepted

(* A slot the consumer is about to read or release, in a pop or anywhere   *)
(* in the batch it peeks at, is not the one the producer is writing.       *)
NoSlotRace ==
  push_pc \in {"store", "publish"} =>
    /\ pop_pc = "advance" \/ (pop_pc = "pop" /\ Len(out) < wanted) => _head # _tail
    /\ pop_pc = "peek" => \A k \in Len(out) .. wanted - 1 : (_head + k) % Size # _tail

(* Room that queue_get_space has reported stays: a push of no more than it *)
(* is never cut short, so that a caller that asks first, as onReceiveData  *)
(* and comm_manager_send_data do, queues all of its chunk or nothing.      *)
SpaceIsKept ==
  push_pc = "check" /\ i < Len(data) /\ queue_is_full => i >= granted

(* What was peeked at is the front of the queue until it is discarded,     *)
(* whatever is pushed meanwhile.                                           *)
PeekedIsFront ==
  pop_pc \in {"peek", "discard"} =>
    /\ Len(out) <= queue_get_data_length
    /\ \A k \in 1 .. Len(out) : out[k] = Contents[k]

(* The inductive invariant behind the above: what each side knows while it *)
(* is inside a call, and how much room the producer still can count on.    *)
Inv ==
  /\ TypeOK
  /\ InOrder
  /\ push_pc # "idle" => granted - i <= queue_get_space
  /\ push_pc \in {"store", "publish"} => i < Len(data) /\ ~queue_is_full
  /\ push_pc = "publish" => _buffer[_tail] = data[i + 1]
  /\ pop_pc = "pop" => wanted - Len(out) <= queue_get_data_length
  /\ pop_pc = "advance" =>
       /\ Len(out) >= 1 /\ wanted - Len(out) + 1 <= queue_get_data_length
       /\ out[Len(out)] = _buffer[_head]
  /\ pop_pc = "peek" => wanted <= queue_get_data_length
  /\ pop_pc = "discard" => wanted = Len(out)
  /\ PeekedIsFront

(* The ring implements the bounded FIFO queue of capacity _size - 1.       *)
Queue == INSTANCE Fifo WITH
  Byte     <- uint8_t,
  Capacity <- Size - 1,
  queue    <- Contents,
  taken    <- received

ImplementsFifo == Queue!Spec
=============================================================================
