-------------------------- MODULE CommQueue_proofs --------------------------
(***************************************************************************)
(* Proofs about CommQueue, for every ring size, byte set and chunk set:    *)
(* the inductive invariant, order and integrity of the bytes, and that the *)
(* ring implements the bounded FIFO queue.                                 *)
(***************************************************************************)
EXTENDS CommQueue, SequenceLemmas

-----------------------------------------------------------------------------
(* The inductive invariant.                                                *)

LEMMA InitInv == Init => Inv
<1> SUFFICES ASSUME Init PROVE Inv
  OBVIOUS
<1>1. 0 \in Slot(QueueSize)
  BY QueueAssumption DEF Slot
<1>2. TypeOK
  BY <1>1 DEF Init, TypeOK, Storage
<1>3. Contents = << >>
  BY <1>1, <1>2, RingType, CountIs, QueueAssumption DEF Init, TypeOK, Contents
<1>4. InOrder
  BY <1>3, ConcatEmptySeq DEF Init, InOrder
<1> QED
  BY <1>2, <1>4 DEF Init, Inv, RoomStillThere

\* Every step of either side preserves Inv.
LEMMA NextInv == Inv /\ [Next]_vars => Inv'
<1> SUFFICES ASSUME Inv, [Next]_vars PROVE Inv'
  OBVIOUS
<1> USE DEF queue_vars, push_vars, pop_vars
<1>0. /\ TypeOK /\ InOrder
      /\ received \in Seq(uint8_t) /\ accepted \in Seq(uint8_t) /\ Contents \in Seq(uint8_t)
  BY RingType, QueueAssumption DEF Inv, TypeOK, Contents
<1>1. ASSUME NEW chunk \in Chunks, Push(chunk)
      PROVE  Inv'
  <2>1. chunk \in Seq(uint8_t) /\ Len(chunk) \in Nat
    BY ChunksAssumption
  <2> QED
    BY <1>1, <2>1 DEF Inv, TypeOK, Push, RoomStillThere, InOrder, Contents
<1>2. CASE PushReturn
  BY <1>2 DEF Inv, TypeOK, PushReturn, RoomStillThere, InOrder, Contents
<1>3. CASE PushOverflow
  BY <1>3, SuccessorSlot, QueueAssumption DEF Inv, TypeOK, PushOverflow, RoomStillThere, InOrder, Contents
<1>4. CASE PushRoom
  BY <1>4, SuccessorSlot, QueueAssumption DEF Inv, TypeOK, PushRoom, RoomStillThere, InOrder, Contents
<1>5. CASE PushStore
  <2>1. /\ push_pc = "store" /\ written < Len(data)
        /\ buffer \in Storage(QueueSize, uint8_t) /\ head \in Slot(QueueSize) /\ tail \in Slot(QueueSize)
        /\ written \in 0 .. Len(data) /\ data \in Seq(uint8_t)
    BY <1>5 DEF Inv, TypeOK, PushStore
  <2>2. data[written + 1] \in uint8_t
    <3>1. written + 1 \in 1 .. Len(data)
      BY <2>1
    <3> QED
      BY <2>1, <3>1, ElementOfSeq
  <2>3. buffer' = [buffer EXCEPT ![head] = data[written + 1]] /\ head' = head /\ tail' = tail
    BY <1>5 DEF PushStore
  <2>4. TypeOK'
    BY <1>5, <2>1, <2>2 DEF Inv, TypeOK, PushStore, Storage
  <2>5. Contents' = Contents
    <3>1. StoredAt(buffer', buffer, head, data[written + 1])
      BY <2>3 DEF StoredAt
    <3> QED
      BY <2>1, <2>3, <3>1, RingStore, QueueAssumption DEF Contents
  <2>6. pop_pc' = "advance" => byte_out' = buffer'[tail']
    BY <1>5, <2>1, <2>3 DEF Inv, PushStore
  <2>7. buffer'[head'] = data'[written' + 1]
    BY <1>5, <2>1, <2>3 DEF PushStore, Storage
  <2>8. InOrder'
    BY <1>5, <2>5 DEF Inv, InOrder, PushStore
  <2> QED
    BY <1>5, <2>1, <2>4, <2>6, <2>7, <2>8 DEF Inv, PushStore, RoomStillThere
<1>6. CASE PushPublish
  <2>1. /\ push_pc = "publish" /\ written < Len(data) /\ buffer[head] = data[written + 1]
        /\ next = successor(head, QueueSize) /\ successor(head, QueueSize) # tail
        /\ buffer \in Storage(QueueSize, uint8_t) /\ head \in Slot(QueueSize) /\ tail \in Slot(QueueSize)
        /\ written \in 0 .. Len(data) /\ data \in Seq(uint8_t)
    BY <1>6 DEF Inv, TypeOK, PushPublish, RoomStillThere
  <2>2. data[written + 1] \in uint8_t
    BY <2>1
  <2>3. head' = successor(head, QueueSize) /\ tail' = tail /\ buffer' = buffer
    BY <1>6, <2>1 DEF PushPublish
  <2>4. TypeOK'
    BY <1>6, <2>1, <2>2, SuccessorSlot, QueueAssumption DEF Inv, TypeOK, PushPublish
  <2>5. Contents' = Append(Contents, data[written + 1])
    BY <2>1, <2>3, RingPublish, QueueAssumption DEF Contents
  <2>6. received \o Append(Contents, data[written + 1]) = Append(received \o Contents, data[written + 1])
    BY <1>0, <2>2, AppendIsConcat, ConcatAssociative, ConcatProperties
  <2>7. InOrder'
    BY <1>6, <1>0, <2>5, <2>6 DEF InOrder, PushPublish
  <2>8. pop_pc' # "idle" => head' # tail'
    BY <2>1, <2>3
  <2> QED
    BY <1>6, <2>3, <2>4, <2>7, <2>8 DEF Inv, PushPublish, RoomStillThere
<1>7. CASE PopNonEmpty
  BY <1>7 DEF Inv, TypeOK, PopNonEmpty, RoomStillThere, InOrder, Contents
<1>8. CASE PopLoad
  BY <1>8 DEF Inv, TypeOK, PopLoad, RoomStillThere, InOrder, Contents, Storage
<1>9. CASE PopAdvance
  <2>1. /\ pop_pc = "advance" /\ head # tail /\ byte_out = buffer[tail]
        /\ buffer \in Storage(QueueSize, uint8_t) /\ head \in Slot(QueueSize) /\ tail \in Slot(QueueSize) /\ byte_out \in uint8_t
    BY <1>9 DEF Inv, TypeOK, PopAdvance
  <2>2. head' = head /\ tail' = successor(tail, QueueSize) /\ buffer' = buffer
    BY <1>9 DEF PopAdvance
  <2>3. TypeOK'
    BY <1>9, <2>1, SuccessorSlot, QueueAssumption DEF Inv, TypeOK, PopAdvance
  <2>4. Contents # << >> /\ Head(Contents) = byte_out /\ Contents' = Tail(Contents)
    BY <2>1, <2>2, RingAdvance, QueueAssumption DEF Contents
  <2>5. <<byte_out>> \o Tail(Contents) = Contents
    BY <1>0, <2>4
  <2>6. Append(received, byte_out) \o Tail(Contents) = received \o Contents
    <3>1. Tail(Contents) \in Seq(uint8_t) /\ <<byte_out>> \in Seq(uint8_t)
      BY <1>0, <2>1, <2>4, HeadTailProperties
    <3>2. Append(received, byte_out) = received \o <<byte_out>>
      BY <1>0, <2>1, AppendIsConcat
    <3> QED
      BY <1>0, <2>5, <3>1, <3>2, ConcatAssociative
  <2>7. InOrder'
    BY <1>9, <1>0, <2>4, <2>6 DEF InOrder, PopAdvance
  <2>8. RoomStillThere'
    BY <1>9, <2>1, SuccessorInjective, QueueAssumption DEF Inv, PopAdvance, RoomStillThere
  <2> QED
    BY <1>9, <2>1, <2>3, <2>7, <2>8 DEF Inv, PopAdvance
<1>10. CASE UNCHANGED vars
  BY <1>10 DEF Inv, TypeOK, RoomStillThere, InOrder, Contents, vars
<1> QED
  BY <1>1, <1>2, <1>3, <1>4, <1>5, <1>6, <1>7, <1>8, <1>9, <1>10 DEF Next, Producer, Consumer

-----------------------------------------------------------------------------
(* The theorems.                                                           *)

\* Type correctness of comm_queue_t and of the locals of push and pop: the
\* indices never leave the ring, whatever is interleaved.
THEOREM TypeCorrect == Spec => []TypeOK
<1>1. Inv => TypeOK
  BY DEF Inv
<1> QED
  BY InitInv, NextInv, <1>1, PTL DEF Spec

\* comm_queue_push and comm_queue_pop, interleaved step by step without a
\* lock, deliver exactly the published bytes in the published order.
THEOREM OrderPreserved == Spec => []InOrder
<1>1. Inv => InOrder
  BY DEF Inv
<1> QED
  BY InitInv, NextInv, <1>1, PTL DEF Spec

\* The producer never stores into the slot the consumer is reading.
THEOREM SlotRaceFree == Spec => []NoSlotRace
<1>1. Inv => NoSlotRace
  BY DEF Inv, NoSlotRace
<1> QED
  BY InitInv, NextInv, <1>1, PTL DEF Spec

\* The room comm_queue_push has tested for is still there when it stores and
\* publishes.
THEOREM RoomPersists == Spec => []RoomStillThere
<1>1. Inv => RoomStillThere
  BY DEF Inv
<1> QED
  BY InitInv, NextInv, <1>1, PTL DEF Spec

\* The queue is full, as the abstract queue understands it, exactly when the
\* successor of head is tail.
LEMMA FullIff ==
  ASSUME NEW h \in Slot(QueueSize), NEW t \in Slot(QueueSize)
  PROVE  successor(h, QueueSize) = t <=> count(h, t, QueueSize) = QueueSize - 1
<1>1. h \in 0 .. QueueSize - 1 /\ t \in 0 .. QueueSize - 1 /\ QueueSize \in Nat
  BY QueueAssumption DEF Slot
<1>2. successor(h, QueueSize) = IF h + 1 < QueueSize THEN h + 1 ELSE 0
  BY SuccessorSlot, QueueAssumption
<1>3. count(h, t, QueueSize) = IF h >= t THEN h - t ELSE h - t + QueueSize
  BY CountIs, QueueAssumption
<1> QED
  BY <1>1, <1>2, <1>3

\* The lock-free ring of comm_queue.c implements the bounded FIFO queue of
\* capacity size - 1: publishing head is the abstract Put, advancing tail the
\* abstract Get, finding next == tail the abstract Refuse.
THEOREM RingImplementsFifo == Spec => ImplementsFifo
<1>1. Init => Queue!Init
  <2> SUFFICES ASSUME Init PROVE Queue!Init
    OBVIOUS
  <2>1. 0 \in Slot(QueueSize)
    BY QueueAssumption DEF Slot
  <2>2. Contents = << >>
    BY <2>1, RingType, CountIs, QueueAssumption DEF Init, Contents
  <2> QED
    BY <2>2 DEF Init, Queue!Init
<1>2. Inv /\ [Next]_vars => [Queue!Next]_<<Contents, received, overflow>>
  <2> SUFFICES ASSUME Inv, [Next]_vars
               PROVE  [Queue!Next]_<<Contents, received, overflow>>
    OBVIOUS
  <2> USE DEF queue_vars, push_vars, pop_vars
  <2>0. /\ buffer \in Storage(QueueSize, uint8_t) /\ head \in Slot(QueueSize) /\ tail \in Slot(QueueSize)
        /\ Len(Contents) = count(head, tail, QueueSize)
    BY RingType, QueueAssumption DEF Inv, TypeOK, Contents
  <2>1. CASE PushStore
    <3>1. written + 1 \in 1 .. Len(data) /\ data \in Seq(uint8_t)
      BY <2>1 DEF Inv, TypeOK, PushStore
    <3>2. data[written + 1] \in uint8_t
      BY <3>1, ElementOfSeq
    <3>3. StoredAt(buffer', buffer, head, data[written + 1]) /\ head' = head /\ tail' = tail
      BY <2>1 DEF PushStore, StoredAt
    <3>4. Contents' = Contents
      BY <2>0, <3>3, RingStore, QueueAssumption DEF Contents
    <3> QED
      BY <2>1, <3>4 DEF PushStore
  <2>2. CASE PushPublish
    <3>1. /\ next = successor(head, QueueSize) /\ successor(head, QueueSize) # tail
          /\ buffer[head] \in uint8_t
      BY <2>0, <2>2 DEF Inv, RoomStillThere, PushPublish, Storage
    <3>2. Contents' = Append(Contents, buffer[head])
      BY <2>0, <2>2, <3>1, RingPublish, QueueAssumption DEF PushPublish, Contents
    <3>3. Len(Contents) < QueueSize - 1
      BY <2>0, <3>1, FullIff, CountIs, QueueAssumption
    <3>4. Queue!Put
      BY <2>2, <3>1, <3>2, <3>3 DEF PushPublish, Queue!Put
    <3> QED
      BY <3>4 DEF Queue!Next
  <2>3. CASE PushOverflow
    <3>1. Len(Contents) = QueueSize - 1
      BY <2>0, <2>3, FullIff DEF PushOverflow
    <3>2. Queue!Refuse
      BY <2>3, <3>1 DEF PushOverflow, Queue!Refuse, Contents
    <3> QED
      BY <3>2 DEF Queue!Next
  <2>4. CASE PopAdvance
    <3>1. head # tail /\ byte_out = buffer[tail]
      BY <2>4 DEF Inv, PopAdvance
    <3>2. Contents # << >> /\ Head(Contents) = byte_out /\ Contents' = Tail(Contents)
      BY <2>0, <2>4, <3>1, RingAdvance, QueueAssumption DEF PopAdvance, Contents
    <3>3. Queue!Get
      BY <2>4, <3>2 DEF PopAdvance, Queue!Get
    <3> QED
      BY <3>3 DEF Queue!Next
  <2>5. ASSUME NEW chunk \in Chunks, Push(chunk)
        PROVE  UNCHANGED <<Contents, received, overflow>>
    BY <2>5 DEF Push, Contents
  <2>6. CASE PushReturn \/ PushRoom \/ PopNonEmpty \/ PopLoad \/ UNCHANGED vars
    BY <2>6 DEF PushReturn, PushRoom, PopNonEmpty, PopLoad, vars, Contents
  <2> QED
    BY <2>1, <2>2, <2>3, <2>4, <2>5, <2>6 DEF Next, Producer, Consumer
<1> QED
  BY InitInv, NextInv, <1>1, <1>2, PTL DEF Spec, ImplementsFifo, Queue!Spec
=============================================================================
