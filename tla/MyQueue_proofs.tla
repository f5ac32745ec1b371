--------------------------- MODULE MyQueue_proofs ---------------------------
(***************************************************************************)
(* Proofs about MyQueue, for every ring size, batch size and chunk set:    *)
(* the inductive invariant, order and integrity of the bytes through pop   *)
(* and through peek and discard, and that the ring implements the bounded  *)
(* FIFO queue.                                                             *)
(***************************************************************************)
EXTENDS MyQueue, SequenceLemmas

-----------------------------------------------------------------------------
(* Sequences.                                                              *)

\* The front of a sequence and what follows it make the sequence.
LEMMA FrontAndRest ==
  ASSUME NEW s \in Seq(uint8_t), NEW o \in Seq(uint8_t), Len(o) <= Len(s),
         \A k \in 1 .. Len(o) : o[k] = s[k]
  PROVE  /\ SubSeq(s, Len(o) + 1, Len(s)) \in Seq(uint8_t)
         /\ o = SubSeq(s, 1, Len(o))
         /\ o \o SubSeq(s, Len(o) + 1, Len(s)) = s
<1> DEFINE n == Len(o)
           m == Len(s)
           rest == SubSeq(s, n + 1, m)
           both == o \o rest
<1>1. n \in Nat /\ m \in Nat /\ n <= m
  OBVIOUS
<1>2. \A k \in 1 .. m : s[k] \in uint8_t
  BY ElementOfSeq
<1>3. /\ rest \in Seq(uint8_t) /\ Len(rest) = m - n
      /\ \A k \in 1 .. m - n : rest[k] = s[n + k]
  <2> HIDE DEF n, m
  <2>1. \A k \in n + 1 .. m : s[k] \in uint8_t
    BY <1>1, <1>2
  <2>2. /\ SubSeq(s, n + 1, m) \in Seq(uint8_t)
        /\ Len(SubSeq(s, n + 1, m)) = IF n + 1 <= m THEN m - (n + 1) + 1 ELSE 0
        /\ \A k \in 1 .. m - (n + 1) + 1 : SubSeq(s, n + 1, m)[k] = s[(n + 1) + k - 1]
    BY <1>1, <2>1, SubSeqProperties
  <2>3. m - (n + 1) + 1 = m - n /\ Len(SubSeq(s, n + 1, m)) = m - n
    BY <1>1, <2>2
  <2>4. ASSUME NEW k \in 1 .. m - n
        PROVE  SubSeq(s, n + 1, m)[k] = s[n + k]
    <3>1. (n + 1) + k - 1 = n + k
      BY <1>1
    <3> QED
      BY <2>2, <2>3, <3>1
  <2> QED
    BY <2>2, <2>3, <2>4 DEF rest
<1>4. o = SubSeq(s, 1, n)
  <2> HIDE DEF n, m
  <2>1. \A k \in 1 .. n : s[k] \in uint8_t
    BY <1>1, <1>2
  <2>2. /\ SubSeq(s, 1, n) \in Seq(uint8_t)
        /\ Len(SubSeq(s, 1, n)) = IF 1 <= n THEN n - 1 + 1 ELSE 0
        /\ \A k \in 1 .. n - 1 + 1 : SubSeq(s, 1, n)[k] = s[1 + k - 1]
    BY <1>1, <2>1, SubSeqProperties
  <2>3. n - 1 + 1 = n /\ Len(SubSeq(s, 1, n)) = n
    BY <1>1, <2>2
  <2>4. \A k \in 1 .. n : SubSeq(s, 1, n)[k] = s[k]
    BY <1>1, <2>2, <2>3
  <2>5. \A k \in 1 .. n : o[k] = s[k]
    BY DEF n
  <2>6. n = Len(o)
    BY DEF n
  <2> QED
    BY <2>2, <2>3, <2>4, <2>5, <2>6, SeqEqual
<1> HIDE DEF rest
<1>5. /\ both \in Seq(uint8_t) /\ Len(both) = n + (m - n)
      /\ \A k \in 1 .. n : both[k] = o[k]
      /\ \A k \in n + 1 .. n + (m - n) : both[k] = rest[k - n]
  BY <1>1, <1>3, ConcatProperties
<1> HIDE DEF both, n, m
<1>6. Len(both) = m
  BY <1>1, <1>5
<1>7. ASSUME NEW k \in 1 .. m
      PROVE  both[k] = s[k]
  <2>1. CASE k <= n
    BY <1>1, <1>5, <2>1 DEF n
  <2>2. CASE ~(k <= n)
    <3>1. k - n \in 1 .. m - n /\ k \in n + 1 .. n + (m - n) /\ n + (k - n) = k
      BY <1>1, <2>2
    <3> QED
      BY <1>3, <1>5, <3>1
  <2> QED
    BY <2>1, <2>2
<1>8. both = s
  BY <1>5, <1>6, <1>7, SeqEqual DEF m
<1> QED
  BY <1>3, <1>4, <1>8 DEF both, rest, n, m

\* A sequence of one element.
LEMMA Singleton ==
  ASSUME NEW s \in Seq(uint8_t), Len(s) = 1
  PROVE  s = <<s[1]>>
<1>1. s[1] \in uint8_t
  OBVIOUS
<1>2. ASSUME NEW e \in uint8_t, s[1] = e
      PROVE  s = <<e>>
  <2>1. <<e>> \in Seq(uint8_t) /\ Len(<<e>>) = 1
    OBVIOUS
  <2>2. <<e>>[1] = e
    OBVIOUS
  <2>3. \A k \in 1 .. Len(s) : s[k] = <<e>>[k]
    BY <1>2, <2>2
  <2> QED
    BY <2>1, <2>3, SeqEqual
<1> QED
  BY <1>1, <1>2

-----------------------------------------------------------------------------
(* The inductive invariant.                                                *)

LEMMA InitInv == Init => Inv
<1> SUFFICES ASSUME Init PROVE Inv
  OBVIOUS
<1>1. 0 \in Slot(Size) /\ 0 \in 0 .. Size - 1
  BY QueueAssumption DEF Slot
<1>2. TypeOK
  BY <1>1 DEF Init, TypeOK
<1>3. Contents = << >>
  BY <1>1, <1>2, RingType, CountIs, QueueAssumption DEF Init, TypeOK, Contents
<1>4. InOrder
  BY <1>3, ConcatEmptySeq DEF Init, InOrder
<1> QED
  BY <1>2, <1>4 DEF Init, Inv, PeekedIsFront

\* What the invariant says of the ring.
LEMMA RingFacts ==
  ASSUME Inv
  PROVE  /\ TypeOK /\ InOrder
         /\ queue_get_data_length \in 0 .. Size - 1
         /\ queue_get_space = Size - 1 - queue_get_data_length
         /\ queue_is_full <=> queue_get_data_length = Size - 1
         /\ _head = _tail <=> queue_get_data_length = 0
         /\ Contents \in Seq(uint8_t) /\ Len(Contents) = queue_get_data_length
         /\ \A k \in 1 .. queue_get_data_length : Contents[k] = _buffer[(_head + k - 1) % Size]
         /\ received \in Seq(uint8_t) /\ accepted \in Seq(uint8_t)
<1>1. TypeOK /\ InOrder
  BY DEF Inv
<1>2. _buffer \in Storage(Size, uint8_t) /\ _head \in Slot(Size) /\ _tail \in Slot(Size)
  BY <1>1 DEF TypeOK
<1>3. queue_get_data_length \in 0 .. Size - 1
  BY <1>2, CountIs, QueueAssumption DEF queue_get_data_length
<1>4. queue_get_space = Size - 1 - queue_get_data_length
  BY DEF queue_get_space, queue_get_data_length
<1>5. queue_is_full <=> queue_get_data_length = Size - 1
  BY <1>2, CountPublish, QueueAssumption DEF queue_is_full, queue_get_data_length
<1>6. _head = _tail <=> queue_get_data_length = 0
  BY <1>2, CountAdvance, QueueAssumption DEF queue_get_data_length
<1>7. /\ Contents \in Seq(uint8_t) /\ Len(Contents) = queue_get_data_length
      /\ \A k \in 1 .. queue_get_data_length : Contents[k] = _buffer[(_head + k - 1) % Size]
  BY <1>2, RingType, QueueAssumption DEF Contents, queue_get_data_length
<1> QED
  BY <1>1, <1>3, <1>4, <1>5, <1>6, <1>7 DEF TypeOK

\* A step that leaves the ring and the histories alone leaves these alone.
LEMMA RingKept ==
  ASSUME UNCHANGED queue_vars
  PROVE  /\ queue_get_data_length' = queue_get_data_length
         /\ queue_get_space' = queue_get_space
         /\ queue_is_full' = queue_is_full
         /\ Contents' = Contents
BY DEF queue_vars, queue_get_data_length, queue_get_space, queue_is_full, Contents

-----------------------------------------------------------------------------
(* The producer's steps.                                                   *)

LEMMA PushInv ==
  ASSUME Inv, NEW chunk \in Chunks, Push(chunk)
  PROVE  Inv'
<1>1. chunk \in Seq(uint8_t) /\ Len(chunk) \in Nat
  BY ChunksAssumption
<1>2. UNCHANGED queue_vars
  BY DEF Push
<1>3. queue_get_space \in 0 .. Size - 1
  BY RingFacts, QueueAssumption
<1>4. TypeOK'
  BY <1>1, <1>3, RingFacts DEF Push, TypeOK, queue_vars, pop_vars
<1> QED
  BY <1>1, <1>2, <1>3, <1>4, RingKept, RingFacts
     DEF Push, Inv, InOrder, PeekedIsFront, queue_vars, pop_vars

LEMMA PushKeepsInv ==
  ASSUME Inv, PushReturn \/ PushFull \/ PushRoom
  PROVE  Inv'
<1>1. CASE PushReturn
  <2>1. UNCHANGED queue_vars
    BY <1>1 DEF PushReturn
  <2> QED
    BY <1>1, <2>1, RingKept DEF PushReturn, Inv, TypeOK, InOrder, PeekedIsFront, queue_vars, pop_vars
<1>2. CASE PushFull
  <2>1. /\ Contents' = Contents /\ queue_get_data_length' = queue_get_data_length
        /\ queue_get_space' = queue_get_space /\ queue_is_full' = queue_is_full
    BY <1>2 DEF PushFull, Contents, queue_get_data_length, queue_get_space, queue_is_full
  <2> QED
    BY <1>2, <2>1 DEF PushFull, Inv, TypeOK, InOrder, PeekedIsFront, pop_vars
<1>3. CASE PushRoom
  <2>1. UNCHANGED queue_vars
    BY <1>3 DEF PushRoom
  <2>2. i < Len(data)
    BY <1>3 DEF PushRoom
  <2>3. ~queue_is_full
    BY <1>3 DEF PushRoom
  <2> QED
    BY <1>3, <2>1, <2>2, <2>3, RingKept
       DEF PushRoom, Inv, TypeOK, InOrder, PeekedIsFront, queue_vars, pop_vars
<1> QED
  BY <1>1, <1>2, <1>3

LEMMA PushStoreInv ==
  ASSUME Inv, PushStore
  PROVE  Inv'
<1>1. /\ push_pc = "store" /\ i < Len(data) /\ ~queue_is_full
      /\ _buffer \in Storage(Size, uint8_t) /\ _head \in Slot(Size) /\ _tail \in Slot(Size)
      /\ i \in 0 .. Len(data) /\ data \in Seq(uint8_t) /\ out \in Seq(uint8_t)
  BY DEF PushStore, Inv, TypeOK
<1>2. data[i + 1] \in uint8_t
  <2>1. i + 1 \in 1 .. Len(data)
    BY <1>1
  <2> QED
    BY <1>1, <2>1, ElementOfSeq
<1>3. /\ _buffer' = [_buffer EXCEPT ![_tail] = data[i + 1]]
      /\ UNCHANGED <<_head, _tail, _overwrite, data, i, granted, offered, refused, accepted>>
      /\ UNCHANGED <<pop_pc, wanted, out, received>>
      /\ push_pc' = "publish"
  BY DEF PushStore, pop_vars
<1>4. TypeOK'
  BY <1>1, <1>2, <1>3 DEF Inv, TypeOK, Storage
<1>5. Contents' = Contents
  <2>1. StoredAt(_buffer', _buffer, _tail, data[i + 1])
    BY <1>3 DEF StoredAt
  <2> QED
    BY <1>1, <1>3, <2>1, RingStore, QueueAssumption DEF Contents
<1>6. /\ queue_get_data_length' = queue_get_data_length
      /\ queue_get_space' = queue_get_space /\ queue_is_full' = queue_is_full
  BY <1>3 DEF queue_get_data_length, queue_get_space, queue_is_full
<1>7. ASSUME pop_pc = "advance"
      PROVE  out[Len(out)] = _buffer'[_head]
  <2>1. Len(out) \in Nat /\ wanted \in 0 .. Size - 1 /\ Len(out) <= wanted
    BY DEF Inv, TypeOK
  <2>2. wanted - Len(out) + 1 <= queue_get_data_length /\ out[Len(out)] = _buffer[_head]
    BY <1>7 DEF Inv
  <2>3. _head # _tail
    BY <2>1, <2>2, RingFacts, QueueAssumption
  <2> QED
    BY <1>1, <1>3, <2>2, <2>3
<1>8. _buffer'[_tail'] = data'[i' + 1]
  BY <1>1, <1>3 DEF Storage
<1>9. PeekedIsFront'
  BY <1>3, <1>5, <1>6 DEF Inv, PeekedIsFront
<1>10. InOrder'
  BY <1>3, <1>5 DEF Inv, InOrder
<1>11. push_pc' # "idle" => granted' - i' <= queue_get_space'
  BY <1>1, <1>3, <1>6 DEF Inv
<1>12. /\ pop_pc' = "pop" => wanted' - Len(out') <= queue_get_data_length'
       /\ pop_pc' = "advance" => Len(out') >= 1 /\ wanted' - Len(out') + 1 <= queue_get_data_length'
       /\ pop_pc' = "peek" => wanted' <= queue_get_data_length'
       /\ pop_pc' = "discard" => wanted' = Len(out')
  BY <1>3, <1>6 DEF Inv
<1>13. i' < Len(data') /\ ~queue_is_full'
  BY <1>1, <1>3, <1>6
<1> QED
  BY <1>3, <1>4, <1>7, <1>8, <1>9, <1>10, <1>11, <1>12, <1>13 DEF Inv

LEMMA PushPublishInv ==
  ASSUME Inv, PushPublish
  PROVE  Inv'
<1>1. /\ push_pc = "publish" /\ i < Len(data) /\ _buffer[_tail] = data[i + 1]
      /\ successor(_tail, Size) # _head
      /\ _buffer \in Storage(Size, uint8_t) /\ _head \in Slot(Size) /\ _tail \in Slot(Size)
      /\ i \in 0 .. Len(data) /\ data \in Seq(uint8_t) /\ out \in Seq(uint8_t)
  BY DEF PushPublish, Inv, TypeOK, queue_is_full
<1>2. data[i + 1] \in uint8_t
  BY <1>1
<1>3. /\ _tail' = successor(_tail, Size) /\ i' = i + 1
      /\ accepted' = Append(accepted, data[i + 1]) /\ push_pc' = "check"
      /\ UNCHANGED <<_buffer, _head, _overwrite, data, granted, offered, refused>>
      /\ UNCHANGED <<pop_pc, wanted, out, received>>
  BY DEF PushPublish, pop_vars
<1>4. TypeOK'
  <2>1. _tail' \in Slot(Size)
    BY <1>1, <1>3, SuccessorSlot, QueueAssumption
  <2>2. i' \in 0 .. Len(data')
    BY <1>1, <1>3
  <2> QED
    BY <1>2, <1>3, <2>1, <2>2 DEF Inv, TypeOK
<1>5. Contents' = Append(Contents, data[i + 1])
  BY <1>1, <1>3, RingPublish, QueueAssumption DEF Contents
<1>6. queue_get_data_length' = queue_get_data_length + 1
  BY <1>1, <1>3, CountPublish, QueueAssumption DEF queue_get_data_length
<1>7. queue_get_space' = queue_get_space - 1
  BY <1>6, RingFacts, QueueAssumption DEF queue_get_space, queue_get_data_length
<1>8. granted' - i' <= queue_get_space'
  <2>1. granted - i <= queue_get_space /\ granted \in 0 .. Size - 1
    BY <1>1 DEF Inv, TypeOK
  <2> QED
    BY <1>1, <1>3, <1>7, <2>1, RingFacts, QueueAssumption
<1>9. InOrder'
  <2>1. received \o Append(Contents, data[i + 1]) = Append(received \o Contents, data[i + 1])
    BY <1>2, RingFacts, AppendIsConcat, ConcatAssociative, ConcatProperties
  <2> QED
    BY <1>3, <1>5, <2>1, RingFacts DEF InOrder
<1>10. PeekedIsFront'
  <2> SUFFICES ASSUME pop_pc \in {"peek", "discard"}
               PROVE  /\ Len(out) <= queue_get_data_length'
                      /\ \A k \in 1 .. Len(out) : out[k] = Contents'[k]
    BY <1>3 DEF PeekedIsFront
  <2>1. Len(out) <= queue_get_data_length /\ \A k \in 1 .. Len(out) : out[k] = Contents[k]
    BY DEF Inv, PeekedIsFront
  <2>2. Len(out) <= queue_get_data_length'
    BY <1>1, <1>6, <2>1, RingFacts, QueueAssumption
  <2>3. ASSUME NEW k \in 1 .. Len(out)
        PROVE  Contents'[k] = Contents[k]
    <3>1. k \in 1 .. Len(Contents)
      BY <1>1, <2>1, RingFacts, QueueAssumption
    <3> QED
      BY <1>2, <1>5, <3>1, RingFacts, AppendProperties
  <2> QED
    BY <2>1, <2>2, <2>3
<1>11. /\ pop_pc' = "pop" => wanted' - Len(out') <= queue_get_data_length'
       /\ pop_pc' = "advance" =>
            /\ Len(out') >= 1 /\ wanted' - Len(out') + 1 <= queue_get_data_length'
            /\ out'[Len(out')] = _buffer'[_head']
       /\ pop_pc' = "peek" => wanted' <= queue_get_data_length'
       /\ pop_pc' = "discard" => wanted' = Len(out')
  <2>1. wanted \in 0 .. Size - 1 /\ Len(out) \in Nat /\ queue_get_data_length \in 0 .. Size - 1
    BY <1>1, RingFacts DEF Inv, TypeOK
  <2> QED
    BY <1>3, <1>6, <2>1, QueueAssumption DEF Inv
<1> QED
  BY <1>3, <1>4, <1>8, <1>9, <1>10, <1>11 DEF Inv

-----------------------------------------------------------------------------
(* The consumer's steps.                                                   *)

\* A call takes no more than the ring holds.
LEMMA BatchFits ==
  ASSUME Inv, NEW length \in Nat
  PROVE  batch(length) \in 0 .. Size - 1 /\ batch(length) <= queue_get_data_length
BY RingFacts, QueueAssumption DEF batch

\* The start of a pop or of a peek.
LEMMA StartInv ==
  ASSUME Inv, NEW pc \in {"pop", "peek"}, NEW n \in 0 .. Size - 1,
         n <= queue_get_data_length, Start(pc, n)
  PROVE  Inv'
<1>1. /\ pop_pc' = pc /\ wanted' = n /\ out' = << >>
      /\ UNCHANGED queue_vars /\ UNCHANGED push_vars /\ received' = received
  BY DEF Start
<1>2. Len(out') = 0
  BY <1>1
<1>3. TypeOK'
  BY <1>1, QueueAssumption DEF Inv, TypeOK, queue_vars, push_vars
<1>4. /\ queue_get_data_length' = queue_get_data_length /\ Contents' = Contents
      /\ queue_get_space' = queue_get_space /\ queue_is_full' = queue_is_full
  BY <1>1, RingKept
<1>5. PeekedIsFront'
  BY <1>2, <1>4, RingFacts DEF PeekedIsFront
<1>6. InOrder'
  BY <1>1, <1>4 DEF Inv, InOrder, push_vars
<1>7. n - 0 <= queue_get_data_length
  OBVIOUS
<1> QED
  BY <1>1, <1>2, <1>3, <1>4, <1>5, <1>6, <1>7 DEF Inv, queue_vars, push_vars

LEMMA StartsInv ==
  ASSUME Inv,
         \/ \E length \in 1 .. MaxBatch : Pop(length) \/ PeekData(length)
         \/ PopByte
  PROVE  Inv'
<1>1. CASE PopByte
  <2>1. queue_get_data_length \in 0 .. Size - 1 /\ queue_get_data_length # 0
    BY <1>1, RingFacts DEF PopByte
  <2>2. 1 \in 0 .. Size - 1 /\ 1 <= queue_get_data_length
    BY <2>1, QueueAssumption
  <2> QED
    BY <1>1, <2>2, StartInv DEF PopByte
<1>2. CASE \E length \in 1 .. MaxBatch : Pop(length) \/ PeekData(length)
  <2>1. PICK length \in 1 .. MaxBatch : Pop(length) \/ PeekData(length)
    BY <1>2
  <2>2. length \in Nat
    BY BoundsAssumption
  <2>3. batch(length) \in 0 .. Size - 1 /\ batch(length) <= queue_get_data_length
    BY <2>2, BatchFits
  <2> QED
    BY <2>1, <2>3, StartInv DEF Pop, PeekData
<1> QED
  BY <1>1, <1>2

LEMMA PopLoadInv ==
  ASSUME Inv, PopLoad
  PROVE  Inv'
<1>1. /\ pop_pc = "pop" /\ Len(out) < wanted /\ out \in Seq(uint8_t)
      /\ wanted \in 0 .. Size - 1 /\ Len(out) \in Nat
      /\ wanted - Len(out) <= queue_get_data_length
      /\ _buffer[_head] \in uint8_t
  BY DEF PopLoad, Inv, TypeOK, Storage
<1>2. /\ out' = Append(out, _buffer[_head]) /\ pop_pc' = "advance"
      /\ UNCHANGED queue_vars /\ UNCHANGED push_vars
      /\ wanted' = wanted /\ received' = received
  BY DEF PopLoad
<1>3. /\ out' \in Seq(uint8_t) /\ Len(out') = Len(out) + 1
      /\ out'[Len(out')] = _buffer[_head]
  BY <1>1, <1>2, AppendProperties
<1>4. /\ Len(out') >= 1 /\ Len(out') <= wanted'
      /\ wanted' - Len(out') + 1 <= queue_get_data_length
  BY <1>1, <1>2, <1>3, RingFacts, QueueAssumption
<1>5. /\ queue_get_data_length' = queue_get_data_length /\ Contents' = Contents
      /\ queue_get_space' = queue_get_space /\ queue_is_full' = queue_is_full
  BY <1>2, RingKept
<1>6. TypeOK'
  BY <1>2, <1>3, <1>4 DEF Inv, TypeOK, queue_vars, push_vars
<1>7. InOrder'
  BY <1>2, <1>5 DEF Inv, InOrder, push_vars
<1> QED
  BY <1>2, <1>3, <1>4, <1>5, <1>6, <1>7 DEF Inv, PeekedIsFront, queue_vars, push_vars

\* Taking the front byte of the ring.
LEMMA PopAdvanceFacts ==
  ASSUME Inv, PopAdvance
  PROVE  /\ Contents # << >>
         /\ Contents' = Tail(Contents)
         /\ received' = Append(received, Head(Contents))
         /\ Head(Contents) \in uint8_t
         /\ received \o Contents = received' \o Contents'
         /\ _head' \in Slot(Size)
         /\ queue_get_data_length \in 1 .. Size - 1
         /\ queue_get_data_length' = queue_get_data_length - 1
<1>1. /\ pop_pc = "advance" /\ Len(out) \in Nat /\ Len(out) >= 1
      /\ wanted \in 0 .. Size - 1 /\ Len(out) <= wanted
      /\ wanted - Len(out) + 1 <= queue_get_data_length
      /\ out[Len(out)] = _buffer[_head]
      /\ _buffer \in Storage(Size, uint8_t) /\ _head \in Slot(Size) /\ _tail \in Slot(Size)
  BY DEF PopAdvance, Inv, TypeOK
<1>2. queue_get_data_length \in 1 .. Size - 1 /\ _head # _tail
  <2>1. queue_get_data_length >= 1
    BY <1>1, RingFacts, QueueAssumption
  <2> QED
    BY <2>1, RingFacts, QueueAssumption
<1>3. /\ _head' = successor(_head, Size) /\ _tail' = _tail /\ _buffer' = _buffer
      /\ received' = Append(received, out[Len(out)])
  BY DEF PopAdvance
<1>4. /\ Contents # << >> /\ Head(Contents) = _buffer[_head]
      /\ Contents' = Tail(Contents)
  BY <1>1, <1>2, <1>3, RingAdvance, QueueAssumption DEF Contents
<1>5. Contents \in Seq(uint8_t) /\ received \in Seq(uint8_t)
  BY RingFacts
<1>6. Head(Contents) \in uint8_t /\ Tail(Contents) \in Seq(uint8_t)
  BY <1>4, <1>5, HeadTailProperties
<1>7. received' = Append(received, Head(Contents))
  BY <1>1, <1>3, <1>4
<1>8. queue_get_data_length' = queue_get_data_length - 1
  BY <1>1, <1>2, <1>3, CountAdvance, QueueAssumption DEF queue_get_data_length
<1>9. _head' \in Slot(Size)
  BY <1>1, <1>3, SuccessorSlot, QueueAssumption
<1>10. received \o Contents = Append(received, Head(Contents)) \o Tail(Contents)
  <2> DEFINE h == Head(Contents)
             t == Tail(Contents)
  <2>1. Contents = <<h>> \o t
    BY <1>4, <1>5, <1>6
  <2> HIDE DEF h, t
  <2>2. h \in uint8_t /\ t \in Seq(uint8_t) /\ <<h>> \in Seq(uint8_t)
    BY <1>6 DEF h, t
  <2>3. Append(received, h) = received \o <<h>>
    BY <1>5, <2>2, AppendIsConcat
  <2>4. received \o (<<h>> \o t) = (received \o <<h>>) \o t
    BY <1>5, <2>2, ConcatAssociative
  <2>5. received \o Contents = Append(received, h) \o t
    BY <2>1, <2>3, <2>4
  <2> QED
    BY <2>5 DEF h, t
<1> QED
  BY <1>2, <1>4, <1>6, <1>7, <1>8, <1>9, <1>10

LEMMA PopAdvanceInv ==
  ASSUME Inv, PopAdvance
  PROVE  Inv'
<1>1. /\ pop_pc = "advance" /\ Len(out) \in Nat /\ Len(out) <= wanted
      /\ wanted \in 0 .. Size - 1
      /\ wanted - Len(out) + 1 <= queue_get_data_length
  BY DEF PopAdvance, Inv, TypeOK
<1>2. /\ pop_pc' = "pop" /\ _head' = successor(_head, Size)
      /\ _buffer' = _buffer /\ _tail' = _tail /\ _overwrite' = _overwrite
      /\ wanted' = wanted /\ out' = out /\ UNCHANGED push_vars
  BY DEF PopAdvance
<1>3. /\ received' = Append(received, Head(Contents)) /\ Head(Contents) \in uint8_t
      /\ received \o Contents = received' \o Contents' /\ _head' \in Slot(Size)
      /\ queue_get_data_length \in 1 .. Size - 1
      /\ queue_get_data_length' = queue_get_data_length - 1
  BY PopAdvanceFacts
<1>4. received' \in Seq(uint8_t)
  BY <1>3, RingFacts, AppendProperties
<1>5. TypeOK'
  BY <1>2, <1>3, <1>4 DEF Inv, TypeOK, push_vars
<1>6. InOrder'
  BY <1>2, <1>3 DEF Inv, InOrder, push_vars
<1>7. queue_get_space' = queue_get_space + 1
  BY <1>3, RingFacts, QueueAssumption DEF queue_get_space, queue_get_data_length
<1>8. push_pc' # "idle" => granted' - i' <= queue_get_space'
  <2>1. granted \in 0 .. Size - 1 /\ i \in Int
    BY DEF Inv, TypeOK
  <2>2. queue_get_space \in Int
    BY RingFacts, QueueAssumption
  <2> QED
    BY <1>2, <1>7, <2>1, <2>2, QueueAssumption DEF Inv, push_vars
<1>9. push_pc' \in {"store", "publish"} => i' < Len(data') /\ ~queue_is_full'
  <2>1. queue_get_data_length' # Size - 1
    BY <1>3, QueueAssumption
  <2>2. queue_is_full' <=> queue_get_data_length' = Size - 1
    <3>1. _tail' \in Slot(Size)
      BY <1>2 DEF Inv, TypeOK
    <3> QED
      BY <1>3, <3>1, CountPublish, QueueAssumption DEF queue_is_full, queue_get_data_length
  <2> QED
    BY <1>2, <2>1, <2>2 DEF Inv, push_vars
<1>10. wanted' - Len(out') <= queue_get_data_length'
  BY <1>1, <1>2, <1>3, QueueAssumption
<1>11. push_pc' = "publish" => _buffer'[_tail'] = data'[i' + 1]
  BY <1>2 DEF Inv, push_vars
<1>12. PeekedIsFront'
  BY <1>2 DEF PeekedIsFront
<1> QED
  BY <1>2, <1>5, <1>6, <1>8, <1>9, <1>10, <1>11, <1>12 DEF Inv

LEMMA PopReturnInv ==
  ASSUME Inv, PopReturn
  PROVE  Inv'
<1>1. /\ Contents' = Contents /\ queue_get_data_length' = queue_get_data_length
      /\ queue_get_space' = queue_get_space /\ queue_is_full' = queue_is_full
  BY DEF PopReturn, Contents, queue_get_data_length, queue_get_space, queue_is_full
<1> QED
  BY <1>1 DEF PopReturn, Inv, TypeOK, InOrder, PeekedIsFront, push_vars

LEMMA PeekLoadInv ==
  ASSUME Inv, PeekLoad
  PROVE  Inv'
<1>1. /\ pop_pc = "peek" /\ Len(out) < wanted /\ out \in Seq(uint8_t)
      /\ Len(out) \in Nat /\ wanted \in 0 .. Size - 1
      /\ wanted <= queue_get_data_length
      /\ _buffer \in Storage(Size, uint8_t) /\ _head \in Slot(Size)
  BY DEF PeekLoad, Inv, TypeOK
<1>2. /\ out' = Append(out, _buffer[(_head + Len(out)) % Size])
      /\ UNCHANGED queue_vars /\ UNCHANGED push_vars
      /\ pop_pc' = pop_pc /\ wanted' = wanted /\ received' = received
  BY DEF PeekLoad
<1> DEFINE l == Len(out)
           v == _buffer[(_head + Len(out)) % Size]
<1>3. /\ l + 1 \in 1 .. Size /\ l + 1 \in 1 .. queue_get_data_length
      /\ _head + (l + 1) - 1 = _head + l
  BY <1>1, RingFacts, QueueAssumption DEF Slot
<1>4. (_head + l) % Size \in Slot(Size)
  <2>1. (_head + (l + 1) - 1) % Size \in Slot(Size)
    BY <1>1, <1>3, PositionIs, QueueAssumption
  <2> QED
    BY <1>3, <2>1
<1>5. v \in uint8_t
  BY <1>1, <1>4 DEF Storage
<1>6. v = Contents[l + 1]
  <2>1. Contents[l + 1] = _buffer[(_head + (l + 1) - 1) % Size]
    BY <1>3, RingFacts
  <2> QED
    BY <1>3, <2>1
<1>7. /\ out' \in Seq(uint8_t) /\ Len(out') = l + 1
      /\ \A k \in 1 .. l : out'[k] = out[k]
      /\ out'[l + 1] = v
  BY <1>1, <1>2, <1>5, AppendProperties
<1>8. /\ queue_get_data_length' = queue_get_data_length /\ Contents' = Contents
      /\ queue_get_space' = queue_get_space /\ queue_is_full' = queue_is_full
  BY <1>2, RingKept
<1>9. PeekedIsFront'
  <2>1. \A k \in 1 .. l : out[k] = Contents[k]
    BY <1>1 DEF Inv, PeekedIsFront
  <2> HIDE DEF l, v
  <2>2. l \in Nat /\ l + 1 \in 1 .. queue_get_data_length
    BY <1>1, <1>3 DEF l
  <2>3. ASSUME NEW k \in 1 .. l + 1
        PROVE  out'[k] = Contents'[k]
    <3>1. CASE k = l + 1
      BY <1>6, <1>7, <1>8, <3>1
    <3>2. CASE k # l + 1
      <4>1. k \in 1 .. l
        BY <2>2, <3>2
      <4> QED
        BY <1>7, <1>8, <2>1, <4>1
    <3> QED
      BY <3>1, <3>2
  <2>4. Len(out') <= queue_get_data_length'
    BY <1>7, <1>8, <2>2
  <2>5. 1 .. Len(out') = 1 .. l + 1
    BY <1>7
  <2> QED
    BY <2>3, <2>4, <2>5 DEF PeekedIsFront
<1>10. Len(out') <= wanted'
  BY <1>1, <1>2, <1>7
<1>11. TypeOK'
  BY <1>2, <1>7, <1>10 DEF Inv, TypeOK, queue_vars, push_vars
<1>12. InOrder'
  BY <1>2, <1>8 DEF Inv, InOrder, push_vars
<1> QED
  BY <1>1, <1>2, <1>8, <1>9, <1>11, <1>12 DEF Inv, queue_vars, push_vars

LEMMA PeekEndInv ==
  ASSUME Inv, PeekKeep \/ Discard
  PROVE  Inv'
<1>1. /\ pop_pc = "peek" /\ Len(out) = wanted /\ wanted <= queue_get_data_length
      /\ wanted \in 0 .. Size - 1
      /\ UNCHANGED queue_vars /\ UNCHANGED push_vars
      /\ out' = out /\ received' = received
  BY DEF PeekKeep, Discard, Inv, TypeOK
<1>2. /\ queue_get_data_length' = queue_get_data_length /\ Contents' = Contents
      /\ queue_get_space' = queue_get_space /\ queue_is_full' = queue_is_full
  BY <1>1, RingKept
<1>3. wanted' = wanted /\ pop_pc' \in {"idle", "discard"}
  <2>1. CASE PeekKeep
    BY <2>1 DEF PeekKeep
  <2>2. CASE Discard
    <3>1. ~(queue_get_data_length < Len(out))
      BY <1>1, RingFacts, QueueAssumption
    <3> QED
      BY <1>1, <2>2, <3>1 DEF Discard, batch
  <2> QED
    BY <2>1, <2>2
<1>4. TypeOK'
  BY <1>1, <1>3 DEF Inv, TypeOK, queue_vars, push_vars
<1>5. PeekedIsFront'
  BY <1>1, <1>2 DEF Inv, PeekedIsFront
<1>6. InOrder'
  BY <1>1, <1>2 DEF Inv, InOrder, push_vars
<1> QED
  BY <1>1, <1>2, <1>3, <1>4, <1>5, <1>6 DEF Inv, queue_vars, push_vars

\* Moving over what was peeked at.
LEMMA DiscardFacts ==
  ASSUME Inv, DiscardAdvance
  PROVE  /\ wanted = Len(out) /\ wanted \in 0 .. queue_get_data_length
         /\ out \in Seq(uint8_t) /\ out = SubSeq(Contents, 1, wanted)
         /\ Contents' = SubSeq(Contents, wanted + 1, Len(Contents))
         /\ Contents' \in Seq(uint8_t)
         /\ received' = received \o out /\ received' \in Seq(uint8_t)
         /\ received \o Contents = received' \o Contents'
         /\ _head' \in Slot(Size)
         /\ queue_get_data_length' = queue_get_data_length - wanted
<1>1. /\ wanted = Len(out) /\ out \in Seq(uint8_t) /\ wanted \in 0 .. Size - 1
      /\ Len(out) <= queue_get_data_length
      /\ \A k \in 1 .. Len(out) : out[k] = Contents[k]
      /\ _buffer \in Storage(Size, uint8_t) /\ _head \in Slot(Size) /\ _tail \in Slot(Size)
  BY DEF DiscardAdvance, Inv, TypeOK, PeekedIsFront
<1>2. /\ Contents \in Seq(uint8_t) /\ Len(Contents) = queue_get_data_length
      /\ queue_get_data_length \in 0 .. Size - 1 /\ received \in Seq(uint8_t)
  BY RingFacts
<1>3. wanted \in 0 .. queue_get_data_length
  BY <1>1, <1>2, QueueAssumption
<1>4. /\ _head' = (_head + wanted) % Size /\ _tail' = _tail /\ _buffer' = _buffer
      /\ received' = received \o out
  BY DEF DiscardAdvance
<1>5. /\ (_head + wanted) % Size \in Slot(Size)
      /\ count(_tail, (_head + wanted) % Size, Size) = count(_tail, _head, Size) - wanted
      /\ Bytes(_buffer, _tail, (_head + wanted) % Size, Size)
           = SubSeq(Bytes(_buffer, _tail, _head, Size), wanted + 1, count(_tail, _head, Size))
  BY <1>1, <1>3, RingDiscard, QueueAssumption DEF queue_get_data_length
<1>6. Contents' = SubSeq(Contents, wanted + 1, Len(Contents))
  BY <1>2, <1>4, <1>5 DEF Contents, queue_get_data_length
<1>7. queue_get_data_length' = queue_get_data_length - wanted
  BY <1>4, <1>5 DEF queue_get_data_length
<1>8. /\ SubSeq(Contents, Len(out) + 1, Len(Contents)) \in Seq(uint8_t)
      /\ out = SubSeq(Contents, 1, Len(out))
      /\ out \o SubSeq(Contents, Len(out) + 1, Len(Contents)) = Contents
  BY <1>1, <1>2, FrontAndRest
<1>9. received \o Contents = (received \o out) \o Contents'
  <2> DEFINE rest == Contents'
  <2>1. rest \in Seq(uint8_t) /\ Contents = out \o rest
    BY <1>1, <1>6, <1>8
  <2>2. received \in Seq(uint8_t) /\ out \in Seq(uint8_t)
    BY <1>1, <1>2
  <2> HIDE DEF rest
  <2>3. (received \o out) \o rest = received \o (out \o rest)
    BY <2>1, <2>2, ConcatAssociative
  <2>4. received \o Contents = (received \o out) \o rest
    BY <2>1, <2>3
  <2> QED
    BY <2>4 DEF rest
<1>10. received' \in Seq(uint8_t)
  BY <1>1, <1>2, <1>4, ConcatProperties
<1>11. Contents' \in Seq(uint8_t)
  BY <1>1, <1>6, <1>8
<1>12. out = SubSeq(Contents, 1, wanted)
  BY <1>1, <1>8
<1> QED
  BY <1>1, <1>3, <1>4, <1>5, <1>6, <1>7, <1>9, <1>10, <1>11, <1>12

LEMMA DiscardAdvanceInv ==
  ASSUME Inv, DiscardAdvance
  PROVE  Inv'
<1>1. /\ pop_pc' = "idle" /\ _buffer' = _buffer /\ _tail' = _tail
      /\ _overwrite' = _overwrite
      /\ wanted' = wanted /\ out' = out /\ UNCHANGED push_vars
  BY DEF DiscardAdvance
<1>2. /\ wanted \in 0 .. queue_get_data_length /\ received' \in Seq(uint8_t)
      /\ received \o Contents = received' \o Contents' /\ _head' \in Slot(Size)
      /\ queue_get_data_length' = queue_get_data_length - wanted
      /\ queue_get_data_length \in 0 .. Size - 1
  BY DiscardFacts, RingFacts
<1>3. TypeOK'
  BY <1>1, <1>2 DEF Inv, TypeOK, push_vars
<1>4. InOrder'
  BY <1>1, <1>2 DEF Inv, InOrder, push_vars
<1>5. queue_get_space' = queue_get_space + wanted
  BY <1>2, RingFacts, QueueAssumption DEF queue_get_space, queue_get_data_length
<1>6. push_pc' # "idle" => granted' - i' <= queue_get_space'
  <2>1. granted \in 0 .. Size - 1 /\ i \in Int
    BY DEF Inv, TypeOK
  <2>2. queue_get_space \in Int
    BY RingFacts, QueueAssumption
  <2> QED
    BY <1>1, <1>2, <1>5, <2>1, <2>2, QueueAssumption DEF Inv, push_vars
<1>7. push_pc' \in {"store", "publish"} => i' < Len(data') /\ ~queue_is_full'
  <2> SUFFICES ASSUME push_pc \in {"store", "publish"}
               PROVE  i' < Len(data') /\ ~queue_is_full'
    BY <1>1 DEF push_vars
  <2>1. i < Len(data) /\ queue_get_data_length # Size - 1
    BY RingFacts DEF Inv
  <2>2. queue_get_data_length' # Size - 1
    BY <1>2, <2>1, QueueAssumption
  <2>3. queue_is_full' <=> queue_get_data_length' = Size - 1
    <3>1. _tail' \in Slot(Size)
      BY <1>1 DEF Inv, TypeOK
    <3> QED
      BY <1>2, <3>1, CountPublish, QueueAssumption DEF queue_is_full, queue_get_data_length
  <2> QED
    BY <1>1, <2>1, <2>2, <2>3 DEF push_vars
<1>8. push_pc' = "publish" => _buffer'[_tail'] = data'[i' + 1]
  BY <1>1 DEF Inv, push_vars
<1>9. PeekedIsFront'
  BY <1>1 DEF PeekedIsFront
<1> QED
  BY <1>1, <1>3, <1>4, <1>6, <1>7, <1>8, <1>9 DEF Inv

-----------------------------------------------------------------------------
\* Every step preserves the invariant.
LEMMA NextInv == Inv /\ [Next]_vars => Inv'
<1> SUFFICES ASSUME Inv, [Next]_vars PROVE Inv'
  OBVIOUS
<1>1. CASE Producer
  BY <1>1, PushInv, PushKeepsInv, PushStoreInv, PushPublishInv DEF Producer
<1>2. CASE Consumer
  BY <1>2, StartsInv, PopLoadInv, PopAdvanceInv, PopReturnInv, PeekLoadInv,
     PeekEndInv, DiscardAdvanceInv DEF Consumer
<1>3. CASE UNCHANGED vars
  <2>1. UNCHANGED queue_vars /\ UNCHANGED push_vars /\ UNCHANGED pop_vars
    BY <1>3 DEF vars
  <2> QED
    BY <2>1, RingKept
       DEF Inv, TypeOK, InOrder, PeekedIsFront, queue_vars, push_vars, pop_vars
<1> QED
  BY <1>1, <1>2, <1>3 DEF Next

-----------------------------------------------------------------------------
(* The theorems.                                                           *)

\* Type correctness of the queue and of the locals of its calls: _head and
\* _tail never leave the ring, and no copy exceeds the length asked for.
THEOREM TypeCorrect == Spec => []TypeOK
<1>1. Inv => TypeOK
  BY DEF Inv
<1> QED
  BY InitInv, NextInv, <1>1, PTL DEF Spec

\* queue_push in the receive interrupt and queue_pop, or queue_peek_data then
\* queue_discard, in the main loop, interleaved step by step without a lock,
\* deliver exactly the published bytes in the published order.
THEOREM OrderPreserved == Spec => []InOrder
<1>1. Inv => InOrder
  BY DEF Inv
<1> QED
  BY InitInv, NextInv, <1>1, PTL DEF Spec

\* No slot is read by the consumer while the producer writes it.
THEOREM SlotRaceFree == Spec => []NoSlotRace
<1>1. ASSUME Inv PROVE NoSlotRace
  <2> SUFFICES ASSUME push_pc \in {"store", "publish"} PROVE NoSlotRace
    BY DEF NoSlotRace
  <2>1. /\ wanted \in 0 .. Size - 1 /\ Len(out) \in Nat /\ Len(out) <= wanted
        /\ _head \in Slot(Size) /\ _tail \in Slot(Size)
    BY <1>1 DEF Inv, TypeOK
  <2>2. queue_get_data_length \in 0 .. Size - 1
    BY <1>1, RingFacts
  <2>3. ASSUME pop_pc = "advance" \/ (pop_pc = "pop" /\ Len(out) < wanted)
        PROVE  _head # _tail
    <3>1. queue_get_data_length # 0
      BY <1>1, <2>1, <2>2, <2>3, QueueAssumption DEF Inv
    <3> QED
      BY <1>1, <3>1, RingFacts
  <2>4. ASSUME pop_pc = "peek", NEW k \in Len(out) .. wanted - 1
        PROVE  (_head + k) % Size # _tail
    <3>1. k + 1 \in 1 .. queue_get_data_length /\ k + 1 \in 1 .. Size
      BY <1>1, <2>1, <2>2, <2>4, QueueAssumption DEF Inv
    <3>2. _head + (k + 1) - 1 = _head + k /\ k \in Nat
      BY <2>1 DEF Slot
    <3>3. (_head + (k + 1) - 1) % Size
            = IF _head + (k + 1) - 1 < Size THEN _head + (k + 1) - 1
                                            ELSE _head + (k + 1) - 1 - Size
      BY <2>1, <3>1, PositionIs, QueueAssumption
    <3>4. queue_get_data_length
            = IF _tail >= _head THEN _tail - _head ELSE _tail - _head + Size
      BY <2>1, CountIs, QueueAssumption DEF queue_get_data_length
    <3>5. _head \in 0 .. Size - 1 /\ _tail \in 0 .. Size - 1 /\ Size \in Nat
      BY <2>1, QueueAssumption DEF Slot
    <3>6. (_head + k) % Size = IF _head + k < Size THEN _head + k ELSE _head + k - Size
      BY <3>2, <3>3
    <3>7. k < queue_get_data_length
      BY <2>2, <3>1, <3>2
    <3> QED
      BY <3>2, <3>4, <3>5, <3>6, <3>7
  <2> QED
    BY <2>3, <2>4 DEF NoSlotRace
<1> QED
  BY InitInv, NextInv, <1>1, PTL DEF Spec

\* The room that queue_get_space reports before a push is there during it.
THEOREM SpaceKept == Spec => []SpaceIsKept
<1>1. ASSUME Inv PROVE SpaceIsKept
  <2> SUFFICES ASSUME push_pc = "check", i < Len(data), queue_is_full
               PROVE  i >= granted
    BY DEF SpaceIsKept
  <2>1. granted \in 0 .. Size - 1 /\ i \in Int
    BY <1>1 DEF Inv, TypeOK
  <2>2. queue_get_space = 0
    BY <1>1, RingFacts, QueueAssumption
  <2>3. granted - i <= 0
    BY <1>1, <2>2 DEF Inv
  <2> QED
    BY <2>1, <2>3, QueueAssumption
<1> QED
  BY InitInv, NextInv, <1>1, PTL DEF Spec

\* What was peeked at stays the front of the queue until it is discarded.
THEOREM PeekedFront == Spec => []PeekedIsFront
<1>1. Inv => PeekedIsFront
  BY DEF Inv
<1> QED
  BY InitInv, NextInv, <1>1, PTL DEF Spec

\* The ring of my_queue.c is a bounded FIFO queue of capacity _size - 1: a
\* byte enters when _tail moves, bytes leave when _head does, and a push is
\* refused only when the queue holds its capacity.
THEOREM RingImplementsFifo == Spec => ImplementsFifo
<1>1. Init => Queue!Init
  <2> SUFFICES ASSUME Init PROVE Queue!Init
    OBVIOUS
  <2>1. Contents = << >>
    <3>1. 0 \in Slot(Size)
      BY QueueAssumption DEF Slot
    <3>2. _buffer \in Storage(Size, uint8_t)
      BY DEF Init, Storage
    <3>3. Contents \in Seq(uint8_t) /\ Len(Contents) = count(0, 0, Size)
      BY <3>1, <3>2, RingType, QueueAssumption DEF Init, Contents
    <3>4. count(0, 0, Size) = 0
      BY <3>1, CountIs, QueueAssumption
    <3> QED
      BY <3>3, <3>4
  <2> QED
    BY <2>1 DEF Init, Queue!Init
<1>2. Inv /\ [Next]_vars => [Queue!Next]_<<Contents, received, refused>>
  <2> SUFFICES ASSUME Inv, [Next]_vars
               PROVE  Queue!Next \/ UNCHANGED <<Contents, received, refused>>
    OBVIOUS
  <2>1. CASE PushPublish
    <3>1. /\ _buffer \in Storage(Size, uint8_t) /\ _head \in Slot(Size) /\ _tail \in Slot(Size)
          /\ ~queue_is_full /\ _buffer' = _buffer /\ _head' = _head
          /\ _tail' = successor(_tail, Size)
      BY <2>1 DEF Inv, TypeOK, PushPublish
    <3>2. Contents' = Append(Contents, _buffer[_tail]) /\ _buffer[_tail] \in uint8_t
      BY <3>1, RingPublish, QueueAssumption DEF Contents, queue_is_full, Storage
    <3>3. Len(Contents) < Size - 1
      BY <3>1, RingFacts, QueueAssumption
    <3>4. Queue!Put
      BY <2>1, <3>2, <3>3 DEF Queue!Put, PushPublish, pop_vars
    <3> QED
      BY <3>4 DEF Queue!Next
  <2>2. CASE PushFull
    <3>1. Len(Contents) = Size - 1
      BY <2>2, RingFacts DEF PushFull
    <3>2. Contents' = Contents
      BY <2>2 DEF PushFull, Contents
    <3>3. Queue!Refuse
      BY <2>2, <3>1, <3>2 DEF Queue!Refuse, PushFull, pop_vars
    <3> QED
      BY <3>3 DEF Queue!Next
  <2>3. CASE PopAdvance
    <3>1. Queue!Get
      BY <2>3, PopAdvanceFacts DEF Queue!Get, PopAdvance, push_vars
    <3> QED
      BY <3>1 DEF Queue!Next
  <2>4. CASE DiscardAdvance
    <3>1. /\ wanted \in 0 .. queue_get_data_length
          /\ out \in Seq(uint8_t) /\ Len(out) = wanted /\ out = SubSeq(Contents, 1, wanted)
          /\ Contents' = SubSeq(Contents, wanted + 1, Len(Contents))
          /\ received' = received \o out
          /\ Contents \in Seq(uint8_t) /\ Len(Contents) = queue_get_data_length
          /\ queue_get_data_length \in 0 .. Size - 1 /\ received \in Seq(uint8_t)
      BY <2>4, DiscardFacts, RingFacts
    <3>2. refused' = refused
      BY <2>4 DEF DiscardAdvance, push_vars
    <3>3. CASE wanted = 0
      <4>1. out = << >>
        BY <3>1, <3>3, EmptySeq
      <4>2. received' = received
        BY <3>1, <4>1, ConcatEmptySeq
      <4>3. Contents' = Contents
        BY <3>1, <3>3, SubSeqFull
      <4> QED
        BY <3>2, <4>2, <4>3
    <3>4. CASE wanted = 1
      <4>1. Contents # << >> /\ 1 \in 1 .. Len(Contents)
        BY <3>1, <3>4
      <4>2. Contents' = Tail(Contents)
        BY <3>1, <3>4, <4>1, TailIsSubSeq
      <4>3. out = <<Head(Contents)>> /\ Head(Contents) \in uint8_t
        <5>1. Head(Contents) = Contents[1]
          BY <3>1, <4>1
        <5>2. Len(out) = 1 /\ out[1] = Contents[1]
          BY <2>4, <3>1, <3>4 DEF DiscardAdvance, Inv, PeekedIsFront
        <5>3. out = <<Head(Contents)>>
          BY <3>1, <5>1, <5>2, Singleton
        <5> QED
          BY <3>1, <4>1, <5>1, <5>2, <5>3, HeadTailProperties
      <4>4. received' = Append(received, Head(Contents))
        BY <3>1, <4>3, AppendIsConcat
      <4>5. Queue!Get
        BY <3>2, <4>1, <4>2, <4>4 DEF Queue!Get
      <4> QED
        BY <4>5 DEF Queue!Next
    <3>5. CASE wanted >= 2
      <4>1. wanted \in 2 .. Len(Contents)
        BY <3>1, <3>5
      <4>2. Queue!GetMany
        BY <3>1, <3>2, <4>1 DEF Queue!GetMany
      <4> QED
        BY <4>2 DEF Queue!Next
    <3> QED
      BY <3>1, <3>3, <3>4, <3>5, QueueAssumption
  <2>5. CASE \E chunk \in Chunks : Push(chunk)
    BY <2>5 DEF Push, queue_vars, pop_vars, Contents
  <2>6. CASE PushReturn \/ PushRoom \/ PushStore
    <3>1. CASE PushStore
      <4>1. /\ _buffer \in Storage(Size, uint8_t) /\ _head \in Slot(Size) /\ _tail \in Slot(Size)
            /\ StoredAt(_buffer', _buffer, _tail, data[i + 1]) /\ _head' = _head /\ _tail' = _tail
        BY <3>1 DEF PushStore, Inv, TypeOK, StoredAt
      <4>2. Contents' = Contents
        BY <4>1, RingStore, QueueAssumption DEF Contents
      <4> QED
        BY <3>1, <4>2 DEF PushStore, pop_vars
    <3> QED
      BY <2>6, <3>1 DEF PushReturn, PushRoom, queue_vars, pop_vars, Contents
  <2>7. CASE \/ \E length \in 1 .. MaxBatch : Pop(length) \/ PeekData(length)
             \/ PopByte
    BY <2>7 DEF Pop, PeekData, PopByte, Start, queue_vars, push_vars, Contents
  <2>8. CASE PopLoad \/ PopReturn \/ PeekLoad \/ PeekKeep \/ Discard
    BY <2>8 DEF PopLoad, PopReturn, PeekLoad, PeekKeep, Discard, queue_vars, push_vars, Contents
  <2>9. CASE UNCHANGED vars
    BY <2>9 DEF vars, queue_vars, push_vars, pop_vars, Contents
  <2> QED
    BY <2>1, <2>2, <2>3, <2>4, <2>5, <2>6, <2>7, <2>8, <2>9 DEF Next, Producer, Consumer
<1> QED
  BY InitInv, NextInv, <1>1, <1>2, PTL DEF Spec, ImplementsFifo, Queue!Spec
=============================================================================
