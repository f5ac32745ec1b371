----------------------------- MODULE CommHandle -----------------------------
(***************************************************************************)
(* comm_handle/comm_manager.c: the application and comm_control run in one *)
(* main loop, onReceiveData and onSendDone in interrupts that can come     *)
(* between any two of its steps.  Module MyPacker is the decoder; the two  *)
(* byte queues are FIFOs of capacity size - 1, which MyQueue shows the     *)
(* ring of my_queue.c to be.  The transport and the peer are external: a   *)
(* transport transmits from the buffer it is handed (DMA), a peer sends    *)
(* frames that arrive in chunks cut anywhere.                              *)
(***************************************************************************)
EXTENDS MyPacker, SequencesExt

CONSTANTS
  UART_TX_QUEUE_SIZE, UART_RX_QUEUE_SIZE,
  RxBatch,        \* sizeof(comm_rx): 64
  DropLimit,      \* values of comm_rx_drop_count: 2^32
  Messages,       \* what the application may pass to comm_manager_send_data
  PeerMessages,   \* what the peer may send
  ChunkSizes,     \* lengths of the chunks receive interrupts bring, 1 among them
  MaxSends,       \* bound on the messages queued
  MaxPeerSends    \* bound on the peer's messages

ASSUME HandleAssumption ==
  /\ UART_TX_QUEUE_SIZE \in Nat \ {0, 1} /\ UART_RX_QUEUE_SIZE \in Nat \ {0, 1}
  /\ RxBatch \in Nat \ {0} /\ DropLimit \in Nat \ {0, 1}
  /\ Messages \subseteq Seq(Byte) /\ PeerMessages \subseteq Seq(Byte)
  /\ ChunkSizes \subseteq Nat \ {0} /\ 1 \in ChunkSizes /\ MaxSends \in Nat /\ MaxPeerSends \in Nat

\* comm_control decodes into comm_rx_buffer.
ASSUME RxBufferAssumption == size_out = COM_MAX_PAYLOAD_SIZE

COM_MAX_FRAME_SIZE == COM_MAX_PAYLOAD_SIZE + PACKER_FRAME_OVERHEAD

\* The peer sends frames that my_pack_data makes.
ASSUME PeerAssumption == \A m \in PeerMessages : packable(Len(m), COM_MAX_FRAME_SIZE)

VARIABLES
  comm_tx_active_buffer, comm_tx_in_progress, comm_tx_queue,        \* CommManager_t
  comm_rx_queue, comm_rx_drop_count, comm_rx_drop_reported,
  main_pc,     \* where the main loop is: in the application or in a call
  len,         \* comm_control: bytes still to be popped
  comm_rx,     \* comm_control: bytes popped, not yet decoded
  to_send,     \* comm_control: bytes peeked at
  callback,    \* the callback that is running in the main loop
  transfer_len, shifted,   \* transport: the transfer in flight
  wire,        \* history: the bytes the transport has shifted out
  line,        \* bytes from the peer that have not arrived yet
  sent,        \* history: messages comm_manager_send_data has returned true for
  handed,      \* history: the bytes start_send has accepted
  idle,        \* history: tx_idle has returned true, and nothing was sent since
  peer_sent,   \* history: the peer's messages
  kept,        \* history: the chunks that were not counted as dropped
  fed,         \* history: the bytes decoded
  delivered,   \* history: the payloads of on_receive_success
  drops,       \* history: how many chunks were dropped
  told         \* history: how many of them a failure callback covers

tx_vars   == <<comm_tx_active_buffer, comm_tx_in_progress, comm_tx_queue, to_send,
               transfer_len, shifted, wire, sent, handed, idle>>
rx_vars   == <<packer_vars, comm_rx_queue, len, comm_rx, fed, kept, delivered, line, peer_sent>>
drop_vars == <<comm_rx_drop_count, comm_rx_drop_reported, drops, told>>
vars == <<tx_vars, rx_vars, drop_vars, main_pc, callback>>

-----------------------------------------------------------------------------
\* comm_manager_init, a transport at rest and a silent line.
Init ==
  /\ PackerInit
  /\ comm_tx_active_buffer = [k \in 0 .. COM_MAX_FRAME_SIZE - 1 |-> 0]
  /\ comm_tx_in_progress = FALSE
  /\ comm_tx_queue = << >> /\ comm_rx_queue = << >>
  /\ comm_rx_drop_count = 0 /\ comm_rx_drop_reported = 0
  /\ main_pc = "app" /\ len = 0 /\ comm_rx = << >> /\ to_send = 0 /\ callback = "none"
  /\ transfer_len = 0 /\ shifted = 0 /\ wire = << >> /\ line = << >>
  /\ sent = << >> /\ handed = << >> /\ idle = FALSE
  /\ peer_sent = << >> /\ kept = << >> /\ fed = << >> /\ delivered = << >>
  /\ drops = 0 /\ told = 0

queue_get_space(queue, size) == size - 1 - Len(queue)

\* No transfer in flight: transfer_len is 0, no chunk is.
InFlight == transfer_len > 0

-----------------------------------------------------------------------------
(* comm_manager_send_data, by the application or from a callback.  A call  *)
(* that returns false changes nothing but comm_tx_pack_buffer, which is    *)
(* only read by the call that has written it.                              *)

Queue(message) ==
  /\ sent' = Append(sent, message)
  /\ idle' = FALSE
  /\ UNCHANGED <<comm_tx_active_buffer, comm_tx_in_progress, to_send, transfer_len, shifted,
                 wire, handed, rx_vars, drop_vars, main_pc, callback>>

MaySend(message) ==
  /\ main_pc = "app" \/ callback # "none"
  /\ Len(sent) < MaxSends
  /\ packable(Len(message), COM_MAX_FRAME_SIZE)

\* Faulty variant (validates QueuedOnce): what fits of the frame is queued.
comm_manager_send_data_partial(message) ==
  /\ MaySend(message)
  /\ LET n == Min({Len(frame(message)), queue_get_space(comm_tx_queue, UART_TX_QUEUE_SIZE)})
     IN  comm_tx_queue' = comm_tx_queue \o SubSeq(frame(message), 1, n)
  /\ Queue(message)

comm_manager_send_data(message) ==
  /\ MaySend(message)
  /\ Len(frame(message)) <= queue_get_space(comm_tx_queue, UART_TX_QUEUE_SIZE)
  /\ comm_tx_queue' = comm_tx_queue \o frame(message)
  /\ Queue(message)

-----------------------------------------------------------------------------
(* comm_manager_tx_idle, by the application: the flag, then the queue.     *)

TxIdleUnchanged == UNCHANGED
  <<comm_tx_active_buffer, comm_tx_in_progress, comm_tx_queue, to_send, transfer_len,
    shifted, wire, sent, handed, rx_vars, drop_vars, callback>>

\* Faulty variant (validates IdleIsTrue): the flag is not looked at.
TxIdleFlagIgnored ==
  /\ main_pc = "app"
  /\ main_pc' = "idle"
  /\ UNCHANGED idle
  /\ TxIdleUnchanged

\* A transfer in progress: false, whatever the queue holds.
TxIdleFlag ==
  /\ main_pc = "app"
  /\ ~comm_tx_in_progress
  /\ main_pc' = "idle"
  /\ UNCHANGED idle
  /\ TxIdleUnchanged

TxIdleQueue ==
  /\ main_pc = "idle"
  /\ main_pc' = "app"
  /\ idle' = (comm_tx_queue = << >>)
  /\ TxIdleUnchanged

-----------------------------------------------------------------------------
(* comm_control                                                            *)

\* Faulty variant (validates DropIsReported): the counter is taken to grow.
CheckDropsOrdered ==
  /\ main_pc = "app"
  /\ main_pc' = IF comm_rx_drop_reported < comm_rx_drop_count THEN "report" ELSE "pop"
  /\ callback' = "none"
  /\ UNCHANGED <<tx_vars, rx_vars, drop_vars>>

\* The call begins: have chunks been dropped?
CheckDrops ==
  /\ main_pc = "app"
  /\ main_pc' = IF comm_rx_drop_reported # comm_rx_drop_count THEN "report" ELSE "pop"
  /\ callback' = "none"
  /\ UNCHANGED <<tx_vars, rx_vars, drop_vars>>

\* The counter is read again, the decoder starts over, on_receive_fail runs.
ReportDrops ==
  /\ main_pc = "report"
  /\ comm_rx_drop_reported' = comm_rx_drop_count
  /\ Reset
  /\ told' = drops
  /\ main_pc' = "pop" /\ callback' = "fail"
  /\ UNCHANGED <<tx_vars, comm_rx_queue, len, comm_rx, fed, kept, delivered, line, peer_sent,
                 comm_rx_drop_count, drops>>

\* Faulty variant (validates PeerDelivered): a full batch is one byte short.
StartPopShort ==
  /\ main_pc = "pop"
  /\ len' = Min({RxBatch, Len(comm_rx_queue)}) - (IF comm_rx_queue = << >> THEN 0 ELSE 1)
  /\ main_pc' = "rx" /\ callback' = "none"
  /\ UNCHANGED <<tx_vars, packer_vars, comm_rx_queue, comm_rx, fed, kept, delivered, line,
                 peer_sent, drop_vars>>

\* queue_pop(&comm_rx_queue, comm_rx, sizeof(comm_rx)): how many ...
StartPop ==
  /\ main_pc = "pop"
  /\ len' = Min({RxBatch, Len(comm_rx_queue)})
  /\ main_pc' = "rx" /\ callback' = "none"
  /\ UNCHANGED <<tx_vars, packer_vars, comm_rx_queue, comm_rx, fed, kept, delivered, line,
                 peer_sent, drop_vars>>

\* ... and each of them.
PopByte ==
  /\ main_pc = "rx" /\ len > 0
  /\ comm_rx' = Append(comm_rx, Head(comm_rx_queue))
  /\ comm_rx_queue' = Tail(comm_rx_queue)
  /\ len' = len - 1
  /\ UNCHANGED <<tx_vars, packer_vars, fed, kept, delivered, line, peer_sent, drop_vars,
                 main_pc, callback>>

Decoded(byte) ==
  /\ my_unpack_data_state(byte)
  /\ \/ result' = "RUNNING" /\ callback' = "none" /\ UNCHANGED delivered
     \/ result' = "SUCCESS" /\ callback' = "success" /\ delivered' = Append(delivered, payload')
     \/ result' \notin {"RUNNING", "SUCCESS"} /\ callback' = "fail" /\ UNCHANGED delivered

\* One round of the decoding loop, its callback included.
DecodeByte ==
  /\ main_pc = "rx" /\ len = 0
  /\ comm_rx # << >>
  /\ Decoded(Head(comm_rx))
  /\ comm_rx' = Tail(comm_rx)
  /\ fed' = Append(fed, Head(comm_rx))
  /\ UNCHANGED <<tx_vars, comm_rx_queue, len, kept, line, peer_sent, drop_vars, main_pc>>

\* Faulty variant (validates PeerInOrder): the decoder starts over in each call.
DecodeEndResets ==
  /\ main_pc = "rx" /\ len = 0
  /\ comm_rx = << >>
  /\ Reset
  /\ main_pc' = "tx" /\ callback' = "none"
  /\ UNCHANGED <<tx_vars, comm_rx_queue, len, comm_rx, fed, kept, delivered, line, peer_sent,
                 drop_vars>>

DecodeEnd ==
  /\ main_pc = "rx" /\ len = 0
  /\ comm_rx = << >>
  /\ main_pc' = "tx" /\ callback' = "none"
  /\ UNCHANGED <<tx_vars, rx_vars, drop_vars>>

\* A transfer in progress or nothing queued: the call is over.
NothingToStart ==
  /\ main_pc = "tx"
  /\ comm_tx_in_progress \/ comm_tx_queue = << >>
  /\ main_pc' = "app"
  /\ UNCHANGED <<tx_vars, rx_vars, drop_vars, callback>>

\* Copy what a buffer holds of the queue, which keeps it, and set the flag.
Peek ==
  /\ to_send' = Min({COM_MAX_FRAME_SIZE, Len(comm_tx_queue)})
  /\ comm_tx_active_buffer' = [k \in DOMAIN comm_tx_active_buffer |->
       IF k < to_send' THEN comm_tx_queue[k + 1] ELSE comm_tx_active_buffer[k]]
  /\ comm_tx_in_progress' = TRUE
  /\ main_pc' = "start"
  /\ UNCHANGED <<comm_tx_queue, transfer_len, shifted, wire, sent, handed, idle,
                 rx_vars, drop_vars, callback>>

\* Faulty variant (validates WireIsHanded): the flag is not looked at.
PeekChunkUngated ==
  /\ main_pc = "tx"
  /\ comm_tx_queue # << >>
  /\ Peek

\* No interrupt touches the queue's read end or, without a transfer, the buffer.
PeekChunk ==
  /\ main_pc = "tx"
  /\ ~comm_tx_in_progress /\ comm_tx_queue # << >>
  /\ Peek

\* start_send accepts the chunk ...
StartAccepted ==
  /\ main_pc = "start"
  /\ transfer_len' = to_send /\ shifted' = 0
  /\ handed' = handed \o [k \in 1 .. to_send |-> comm_tx_active_buffer[k - 1]]
  /\ main_pc' = "discard"
  /\ UNCHANGED <<comm_tx_active_buffer, comm_tx_in_progress, comm_tx_queue, to_send, wire,
                 sent, idle, rx_vars, drop_vars, callback>>

\* ... or returns false.
StartRefused ==
  /\ main_pc = "start"
  /\ main_pc' = "refused"
  /\ UNCHANGED <<tx_vars, rx_vars, drop_vars, callback>>

Unqueue ==
  /\ comm_tx_queue' = SubSeq(comm_tx_queue, to_send + 1, Len(comm_tx_queue))
  /\ main_pc' = "app"
  /\ UNCHANGED <<comm_tx_active_buffer, to_send, transfer_len, shifted, wire, sent, handed,
                 idle, rx_vars, drop_vars, callback>>

\* Faulty variant (validates BusyTracksTransfer): the flag is set once more.
DiscardSetsBusy ==
  /\ main_pc = "discard"
  /\ comm_tx_in_progress' = TRUE
  /\ Unqueue

\* The transfer it belongs to may be complete by now.
DiscardChunk ==
  /\ main_pc = "discard"
  /\ UNCHANGED comm_tx_in_progress
  /\ Unqueue

\* Faulty variant (validates EverythingSent): the flag is left set.
StartFailedBusy ==
  /\ main_pc = "refused"
  /\ main_pc' = "app"
  /\ UNCHANGED <<tx_vars, rx_vars, drop_vars, callback>>

\* The chunk stays queued; a later call tries again.
StartFailed ==
  /\ main_pc = "refused"
  /\ comm_tx_in_progress' = FALSE
  /\ main_pc' = "app"
  /\ UNCHANGED <<comm_tx_active_buffer, comm_tx_queue, to_send, transfer_len, shifted, wire,
                 sent, handed, idle, rx_vars, drop_vars, callback>>

comm_control ==
  \/ CheckDrops \/ ReportDrops \/ StartPop \/ PopByte \/ DecodeByte \/ DecodeEnd
  \/ NothingToStart \/ PeekChunk \/ DiscardChunk \/ StartFailed

-----------------------------------------------------------------------------
(* The interrupts, the transport and the peer.                             *)

TransmitByte ==
  /\ InFlight /\ shifted < transfer_len
  /\ wire' = Append(wire, comm_tx_active_buffer[shifted])
  /\ shifted' = shifted + 1
  /\ UNCHANGED <<comm_tx_active_buffer, comm_tx_in_progress, comm_tx_queue, to_send,
                 transfer_len, sent, handed, idle, rx_vars, drop_vars, main_pc, callback>>

\* One interrupt for each transfer, once its last byte is out.
onSendDone ==
  /\ InFlight /\ shifted = transfer_len
  /\ comm_tx_in_progress' = FALSE
  /\ transfer_len' = 0 /\ shifted' = 0
  /\ UNCHANGED <<comm_tx_active_buffer, comm_tx_queue, to_send, wire, sent, handed, idle,
                 rx_vars, drop_vars, main_pc, callback>>

Arrived(n) ==
  /\ line' = SubSeq(line, n + 1, Len(line))
  /\ UNCHANGED <<tx_vars, packer_vars, len, comm_rx, fed, delivered, peer_sent,
                 comm_rx_drop_reported, told, main_pc, callback>>

Dropped ==
  /\ comm_rx_drop_count' = (comm_rx_drop_count + 1) % DropLimit
  /\ drops' = drops + 1
  /\ UNCHANGED kept

Kept(chunk) ==
  /\ comm_rx_queue' = comm_rx_queue \o chunk
  /\ kept' = kept \o chunk
  /\ UNCHANGED <<comm_rx_drop_count, drops>>

\* Faulty variant (validates WholeChunks): the beginning of a chunk that is
\* too long is queued.
onReceiveData_partial(n) ==
  LET chunk == SubSeq(line, 1, n)
      space == queue_get_space(comm_rx_queue, UART_RX_QUEUE_SIZE)
  IN  /\ n <= Len(line)
      /\ \/ space < n /\ comm_rx_queue' = comm_rx_queue \o SubSeq(chunk, 1, space) /\ Dropped
         \/ space >= n /\ Kept(chunk)
      /\ Arrived(n)

\* A chunk that does not fit is dropped whole.
onReceiveData(n) ==
  LET chunk == SubSeq(line, 1, n)
      space == queue_get_space(comm_rx_queue, UART_RX_QUEUE_SIZE)
  IN  /\ n <= Len(line)
      /\ \/ space < n /\ UNCHANGED comm_rx_queue /\ Dropped
         \/ space >= n /\ Kept(chunk)
      /\ Arrived(n)

Receive == \E n \in ChunkSizes : onReceiveData(n)

PeerSend(message) ==
  /\ Len(peer_sent) < MaxPeerSends
  /\ peer_sent' = Append(peer_sent, message)
  /\ line' = line \o frame(message)
  /\ UNCHANGED <<tx_vars, packer_vars, comm_rx_queue, len, comm_rx, fed, kept, delivered,
                 drop_vars, main_pc, callback>>

-----------------------------------------------------------------------------
Next ==
  \/ \E m \in Messages : comm_manager_send_data(m)
  \/ TxIdleFlag \/ TxIdleQueue
  \/ comm_control \/ StartAccepted \/ StartRefused
  \/ TransmitByte \/ onSendDone \/ Receive
  \/ \E m \in PeerMessages : PeerSend(m)

Spec == Init /\ [][Next]_vars

\* The main loop calls comm_control periodically, however often it asks
\* tx_idle in between, and all of these calls return; a transport
\* that is asked again and again accepts at last; transfers complete; what is
\* on the line arrives.
FairSpec ==
  /\ Spec
  /\ SF_vars(comm_control) /\ WF_vars(TxIdleQueue)
  /\ WF_vars(StartAccepted \/ StartRefused) /\ SF_vars(StartAccepted)
  /\ WF_vars(TransmitByte \/ onSendDone)
  /\ WF_vars(Receive)

-----------------------------------------------------------------------------
TxTypeOK ==
  /\ comm_tx_active_buffer \in [0 .. COM_MAX_FRAME_SIZE - 1 -> Byte]
  /\ comm_tx_in_progress \in BOOLEAN
  /\ comm_tx_queue \in Seq(Byte) /\ Len(comm_tx_queue) < UART_TX_QUEUE_SIZE
  /\ main_pc \in {"app", "idle", "report", "pop", "rx", "tx", "start", "discard", "refused"}
  /\ to_send \in 0 .. COM_MAX_FRAME_SIZE
  /\ transfer_len \in 0 .. COM_MAX_FRAME_SIZE /\ shifted \in 0 .. transfer_len
  /\ wire \in Seq(Byte) /\ handed \in Seq(Byte)
  /\ sent \in Seq(Messages) /\ idle \in BOOLEAN

RxTypeOK ==
  /\ PackerTypeOK
  /\ comm_rx_queue \in Seq(Byte) /\ Len(comm_rx_queue) < UART_RX_QUEUE_SIZE
  /\ comm_rx_drop_count \in 0 .. DropLimit - 1 /\ comm_rx_drop_reported \in 0 .. DropLimit - 1
  /\ len \in 0 .. Len(comm_rx_queue) /\ comm_rx \in Seq(Byte) /\ len + Len(comm_rx) <= RxBatch
  /\ callback \in {"none", "success", "fail"}
  /\ line \in Seq(Byte) /\ peer_sent \in Seq(PeerMessages)
  /\ kept \in Seq(Byte) /\ fed \in Seq(Byte) /\ delivered \in Seq(Seq(Byte))
  /\ drops \in Nat /\ told \in 0 .. drops

HandleTypeOK == TxTypeOK /\ RxTypeOK

\* The messages that my_pack_data makes frames of.
Packable == {m \in Seq(Byte) : packable(Len(m), COM_MAX_FRAME_SIZE)}

\* The bytes of the messages, frame after frame.
Frames(messages) == FlattenSeq([k \in DOMAIN messages |-> frame(messages[k])])

(* The inductive invariant, beyond the properties below: between the calls *)
(* of queue_peek_without_pop, start_send and queue_discard the chunk stays *)
(* at the head of the queue; only an accepted chunk is in flight; once     *)
(* tx_idle has returned true, nothing is queued and nothing can be.        *)
ChunkHeld ==
  /\ main_pc \in {"start", "discard", "refused"} => to_send \in 1 .. Len(comm_tx_queue)
  /\ main_pc = "start" =>
       \A k \in 0 .. to_send - 1 : comm_tx_active_buffer[k] = comm_tx_queue[k + 1]

RestBetweenSteps ==
  /\ main_pc \in {"idle", "start", "refused"} => ~InFlight
  /\ idle => ~InFlight /\ comm_tx_queue = << >>

\* Every call of comm_control decodes what it has popped.
BatchDecoded == main_pc # "rx" => len = 0 /\ comm_rx = << >>

\* The bytes of a frame that the decoder is in the middle of, and of those to come.
locked == IF unpack_state = "WAIT_START" THEN << >> ELSE candidate

\* The bytes on their way to the end of the decoder's work, and the messages
\* that have not come out of it.
ToCome == locked \o (comm_rx \o (comm_rx_queue \o line))
Undelivered == SubSeq(peer_sent, Len(delivered) + 1, Len(peer_sent))

(* While no chunk has been dropped, the decoder has never been reset, and  *)
(* the bytes on their way, from the START it is locked on to the end of    *)
(* the line, are the frames of the messages not yet delivered.             *)
NothingMissed ==
  drops = 0 =>
    /\ comm_rx_drop_count = 0 /\ comm_rx_drop_reported = 0 /\ main_pc # "report"
    /\ Len(delivered) <= Len(peer_sent)
    /\ delivered = SubSeq(peer_sent, 1, Len(delivered))
    /\ ToCome = Frames(Undelivered)
    /\ locked # << >> => /\ Len(delivered) < Len(peer_sent)
                        /\ Len(locked) < Len(frame(peer_sent[Len(delivered) + 1]))

\* The bytes queued behind those that are about to be discarded.
Remaining ==
  LET skip == IF main_pc = "discard" THEN to_send ELSE 0
  IN  SubSeq(comm_tx_queue, skip + 1, Len(comm_tx_queue))

\* What the transfer in flight has left of the active buffer.
Unshifted == [k \in 1 .. transfer_len - shifted |-> comm_tx_active_buffer[shifted + k - 1]]

(* Of the frames queued, exactly those bytes that are not in the queue     *)
(* behind what is about to be discarded have been handed to the transport, *)
(* in order and once each: a start_send that fails loses nothing and       *)
(* repeats nothing, chunks cut frames anywhere, and a frame is queued      *)
(* whole or not at all.                                                    *)
QueuedOnce == HandleTypeOK /\ handed \o Remaining = Frames(sent)

(* The bytes on the wire, followed by what the transfer in flight has left *)
(* of the active buffer, are the bytes handed over: nothing is written to  *)
(* the buffer while the transport transmits from it.                       *)
WireIsHanded == wire \o Unshifted = handed

(* comm_tx_in_progress is set exactly while a chunk is being handed over   *)
(* or is in flight, whichever of onSendDone and the return of start_send   *)
(* comes first.                                                            *)
BusyTracksTransfer == comm_tx_in_progress <=> InFlight \/ main_pc \in {"start", "refused"}

(* When comm_manager_tx_idle has returned true, every byte of every        *)
(* message queued before is on the wire, although it reads the flag and    *)
(* the queue one after the other.                                          *)
IdleIsTrue == idle => ~InFlight /\ wire = Frames(sent)

(* Bytes arrive at the decoder in order and in whole chunks: none is lost  *)
(* but in a chunk that is counted as dropped, and nothing of those gets    *)
(* through.                                                                *)
WholeChunks == fed \o comm_rx \o comm_rx_queue = kept

(* As long as no chunk is dropped, the peer's payloads are delivered in    *)
(* order, wherever chunks and batches cut the frames, and all of them once *)
(* everything that was sent has been decoded.                              *)
PeerInOrder ==
  drops = 0 =>
    /\ IsPrefix(delivered, peer_sent)
    /\ line \o comm_rx_queue \o comm_rx = << >> => delivered = peer_sent

\* The inductive invariant, of either direction.
TxInv ==
  /\ TxTypeOK /\ sent \in Seq(Packable)
  /\ ChunkHeld /\ RestBetweenSteps /\ BusyTracksTransfer
  /\ handed \o Remaining = Frames(sent)
  /\ WireIsHanded

RxInv ==
  /\ RxTypeOK /\ LockInv /\ FailureIsReal
  /\ BatchDecoded /\ WholeChunks /\ NothingMissed

(* A dropped chunk is eventually covered by a call of on_receive_fail,     *)
(* unless so many are dropped together that the counter comes round.       *)
DropIsReported ==
  (drops > told) ~> (drops = told \/ drops - told >= DropLimit)

(* Every byte of every message queued eventually is on the wire.           *)
EverythingSent ==
  \A n \in 1 .. MaxSends :
    (Len(sent) >= n) ~> (Len(sent) >= n /\ Len(wire) >= Len(Frames(SubSeq(sent, 1, n))))

(* Every message of the peer is eventually delivered, unless one is lost.  *)
PeerDelivered ==
  \A n \in 1 .. MaxPeerSends : (Len(peer_sent) >= n) ~> (Len(delivered) >= n \/ drops > 0)
=============================================================================
