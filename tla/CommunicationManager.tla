------------------------ MODULE CommunicationManager ------------------------
(***************************************************************************)
(* communication_manager.c: the application and comm_process run in one    *)
(* main loop, comm_on_receive and comm_send_done_handler in interrupts     *)
(* that can come between any two of its steps.  Module Protocol is the     *)
(* parser; the two byte queues are FIFOs of capacity size - 1, which       *)
(* CommQueue shows the ring of comm_queue.c to be.  The transport is       *)
(* external, and its line echoes every byte back, as the loopback of       *)
(* example/example_loopback.c does.                                        *)
(***************************************************************************)
EXTENDS Protocol, SequencesExt

CONSTANTS
  TxSize, RxSize,   \* sizes of the two queues' storage
  Messages,         \* what the application may pass to comm_send
  Copies,           \* whether the transport copies the frame it is handed
  MaxChunk,         \* longest chunk of one receive interrupt
  MaxNesting,       \* calls of comm_send under way when event_cb calls it; 0: it never does
  MaxSends          \* bound on the calls of comm_send

ASSUME ManagerAssumption ==
  /\ TxSize \in Nat \ {0} /\ RxSize \in Nat \ {0}
  /\ Messages \subseteq Seq(Byte)
  /\ Copies \in BOOLEAN
  /\ MaxChunk \in Nat /\ MaxNesting \in Nat /\ MaxSends \in Nat

\* sizeof rx_buf, the buffer comm_process gives to feed.
ASSUME RxBufAssumption == OutputSize = PROTOCOL_MAX_PAYLOAD

\* The CRC of what the application sends is tabulated.
ASSUME PackCrcAssumption ==
  \A m \in Messages : Len(m) <= PROTOCOL_MAX_PAYLOAD => Len(m) + 2 <= CrcLength

VARIABLES
  tx_queue, rx_queue, tx_busy, _pack_status, pack_buf,  \* communication_manager_t
  main_pc,       \* where the main loop is: in the application or in comm_process
  frame_len,     \* local of comm_process
  calls,         \* stack of the comm_send calls whose event_cb is running
  event,         \* the event that event_cb is handling in the main loop
  transfer_len, shifted, copied,   \* transport: the transfer in flight
  line,          \* bytes on the line that have not arrived yet
  results,       \* history: what the calls of comm_send returned, and whether
                 \* anything was put on the TX queue meanwhile
  accepted,      \* history: messages put on the TX queue
  popped,        \* history: how many of them comm_process has taken off
  handed,        \* history: messages the transport has accepted
  delivered,     \* history: payloads of RX_DONE
  overflowed     \* history: QUEUE_OVERFLOW has been reported

app_vars       == <<calls, event, _pack_status, results, accepted>>
transport_vars == <<transfer_len, shifted, copied, line>>
vars == <<parser_vars, tx_queue, rx_queue, tx_busy, pack_buf, main_pc, frame_len,
          app_vars, transport_vars, popped, handed, delivered, overflowed>>

-----------------------------------------------------------------------------
PackSize == PROTOCOL_MAX_PAYLOAD + PROTOCOL_FRAME_OVERHEAD

\* A queue's free space, as comm_on_pack_done and comm_queue_push see it.
free_space(queue, size) == size - 1 - Len(queue)

\* A frame as it lies in the TX queue, behind its little-endian length.
record(message) ==
  LET f == frame(message) IN <<low(Len(f)), high(Len(f))>> \o f

\* buf with bytes written over its beginning.
overwritten(buf, bytes) ==
  [i \in DOMAIN buf |-> IF i < Len(bytes) THEN bytes[i + 1] ELSE buf[i]]

\* No transfer in flight: transfer_len is 0, no frame is.
InFlight == transfer_len > 0

\* comm_init, and a transport at rest.
Init ==
  /\ ParserInit
  /\ tx_queue = << >> /\ rx_queue = << >>
  /\ tx_busy = FALSE /\ _pack_status = "COMM_OK"
  /\ pack_buf = [i \in 0 .. PackSize - 1 |-> 0]
  /\ main_pc = "app" /\ frame_len = 0
  /\ calls = << >> /\ event = "none"
  /\ transfer_len = 0 /\ shifted = 0 /\ copied = pack_buf
  /\ line = << >>
  /\ results = << >> /\ accepted = << >> /\ popped = 0 /\ handed = << >>
  /\ delivered = << >> /\ overflowed = FALSE

-----------------------------------------------------------------------------
(* comm_send, by the application: between two calls of comm_process, or    *)
(* from event_cb, while that of a comm_send is running, too.  A call that  *)
(* fails is on calls while its event_cb runs: its message, the event its   *)
(* caller is handling, and how many messages were accepted before it.      *)

MaySend ==
  /\ Len(results) + Len(calls) < MaxSends
  /\ \/ main_pc = "app" /\ calls = << >>
     \/ event # "none" /\ Len(calls) < MaxNesting

returned(message, status, queued) ==
  Append(results, [message |-> message, status |-> status, queued |-> queued])

send_unchanged == <<parser_vars, rx_queue, tx_busy, main_pc, frame_len,
                    transport_vars, popped, handed, delivered, overflowed>>

\* The call fails and event_cb is told, until SendReturn.
NotQueued(message, status, told) ==
  /\ _pack_status' = status
  /\ event' = told
  /\ calls' = <<[message |-> message, within |-> event, before |-> Len(accepted)]>> \o calls
  /\ UNCHANGED <<send_unchanged, tx_queue, results, accepted>>

\* len == 0
SendEmpty ==
  /\ MaySend
  /\ << >> \in Messages
  /\ NotQueued(<< >>, "COMM_ERR_INVALID_ARG", "TX_FAIL")
  /\ UNCHANGED pack_buf

\* comm_on_pack_fail
SendRefused(message) ==
  /\ MaySend
  /\ message # << >> /\ ~packable(Len(message), PackSize)
  /\ NotQueued(message, "COMM_ERR_INVALID_ARG", "TX_FAIL")
  /\ UNCHANGED pack_buf

\* protocol_pack writes its frame to pack_buf, whatever becomes of it.
Pack(message) ==
  /\ MaySend
  /\ message # << >> /\ packable(Len(message), PackSize)
  /\ pack_buf' = overwritten(pack_buf, frame(message))

\* Faulty variant (validates OkMeansQueued): the dropped frame leaves the
\* COMM_OK that comm_send has set.
SendFullSilent(message) ==
  /\ Pack(message)
  /\ free_space(tx_queue, TxSize) < Len(record(message))
  /\ NotQueued(message, "COMM_OK", "QUEUE_FULL")

\* comm_on_pack_done without room
SendFull(message) ==
  /\ Pack(message)
  /\ free_space(tx_queue, TxSize) < Len(record(message))
  /\ NotQueued(message, "COMM_ERR_QUEUE_FULL", "QUEUE_FULL")

\* comm_queue_push drops what does not fit.
Enqueue(message) ==
  /\ LET room == free_space(tx_queue, TxSize)
     IN  tx_queue' = tx_queue \o SubSeq(record(message), 1, Min({room, Len(record(message))}))
  /\ _pack_status' = "COMM_OK"
  /\ results' = returned(message, "COMM_OK", TRUE)
  /\ accepted' = Append(accepted, message)
  /\ UNCHANGED <<send_unchanged, calls, event>>

\* Faulty variant (validates TxQueueFramed): room for the frame alone will do.
SendQueuedUncounted(message) ==
  /\ Pack(message)
  /\ free_space(tx_queue, TxSize) >= Len(frame(message))
  /\ Enqueue(message)

\* comm_on_pack_done with room
SendQueued(message) ==
  /\ Pack(message)
  /\ free_space(tx_queue, TxSize) >= Len(record(message))
  /\ Enqueue(message)

comm_send ==
  SendEmpty \/ \E m \in Messages : SendRefused(m) \/ SendFull(m) \/ SendQueued(m)

\* event_cb is back: return comm->_pack_status, or of no bytes the error itself,
\* to the application or to the event_cb that made the call.
SendReturn ==
  /\ calls # << >>
  /\ LET call == Head(calls)
         status == IF call.message = << >> THEN "COMM_ERR_INVALID_ARG" ELSE _pack_status
     IN  /\ results' = returned(call.message, status, Len(accepted) > call.before)
         /\ event' = call.within
  /\ calls' = Tail(calls)
  /\ UNCHANGED <<send_unchanged, tx_queue, pack_buf, _pack_status, accepted>>

-----------------------------------------------------------------------------
(* comm_process                                                            *)

\* Busy, or nothing to send: straight to the RX loop.
ProcessNoTx ==
  /\ main_pc = "app" /\ calls = << >>
  /\ tx_busy \/ tx_queue = << >>
  /\ main_pc' = "rx"
  /\ event' = "none"
  /\ UNCHANGED <<parser_vars, tx_queue, rx_queue, tx_busy, pack_buf, frame_len, calls,
                 _pack_status, results, accepted, transport_vars, popped, handed,
                 delivered, overflowed>>

\* Pop length bytes into pack_buf, as long as there are any.
PopFrame(length) ==
  LET last == Min({2 + length, Len(tx_queue)})
  IN  /\ frame_len' = length
      /\ pack_buf' = overwritten(pack_buf, SubSeq(tx_queue, 3, last))
      /\ tx_queue' = SubSeq(tx_queue, last + 1, Len(tx_queue))
      /\ tx_busy' = TRUE
      /\ popped' = popped + 1
      /\ main_pc' = "send" /\ event' = "none"
      /\ UNCHANGED <<parser_vars, rx_queue, calls, _pack_status, results, accepted,
                     transport_vars, handed, delivered, overflowed>>

\* Faulty variants: the length is read high byte first (validates InFlightIntact) ...
ProcessPopFrameSwapped ==
  /\ main_pc = "app" /\ calls = << >>
  /\ ~tx_busy /\ Len(tx_queue) >= 2
  /\ PopFrame(tx_queue[2] + B * tx_queue[1])

\* ... and tx_busy is not looked at (validates ImplementsLink).
ProcessPopFrameUngated ==
  /\ main_pc = "app" /\ calls = << >>
  /\ Len(tx_queue) >= 2
  /\ PopFrame(tx_queue[1] + B * tx_queue[2])

\* Idle, and a frame to send: pop its length and its bytes, and set tx_busy.
ProcessPopFrame ==
  /\ main_pc = "app" /\ calls = << >>
  /\ ~tx_busy /\ Len(tx_queue) >= 2
  /\ PopFrame(tx_queue[1] + B * tx_queue[2])

process_unchanged == <<tx_queue, pack_buf, frame_len, calls, _pack_status, results,
                       accepted, popped, overflowed>>

\* transport->send starts the transfer ...
TransportStart ==
  /\ main_pc = "send"
  /\ transfer_len' = frame_len /\ shifted' = 0
  /\ copied' = IF Copies THEN pack_buf ELSE copied
  /\ handed' = Append(handed, accepted[popped])
  /\ main_pc' = "sent"
  /\ UNCHANGED <<process_unchanged, parser_vars, rx_queue, tx_busy, event, line, delivered>>

\* ... or returns an error.
TransportRefuse ==
  /\ main_pc = "send"
  /\ main_pc' = "failed"
  /\ UNCHANGED <<process_unchanged, parser_vars, rx_queue, tx_busy, event,
                 transport_vars, handed, delivered>>

\* Faulty variant (validates BusyTracksTransfer): tx_busy is set after send.
ProcessSendOkSetsBusy ==
  /\ main_pc = "sent"
  /\ tx_busy' = TRUE
  /\ main_pc' = "rx"
  /\ UNCHANGED <<process_unchanged, parser_vars, rx_queue, event, transport_vars,
                 handed, delivered>>

\* send has returned; its transfer may be complete by now.
ProcessSendOk ==
  /\ main_pc = "sent"
  /\ main_pc' = "rx"
  /\ UNCHANGED <<process_unchanged, parser_vars, rx_queue, tx_busy, event,
                 transport_vars, handed, delivered>>

\* Faulty variant (validates AcceptedIsTaken): a failed send leaves tx_busy set.
ProcessSendFailedBusy ==
  /\ main_pc = "failed"
  /\ event' = "TX_FAIL"
  /\ main_pc' = "rx"
  /\ UNCHANGED <<process_unchanged, parser_vars, rx_queue, tx_busy, transport_vars,
                 handed, delivered>>

ProcessSendFailed ==
  /\ main_pc = "failed"
  /\ tx_busy' = FALSE
  /\ event' = "TX_FAIL"
  /\ main_pc' = "rx"
  /\ UNCHANGED <<process_unchanged, parser_vars, rx_queue, transport_vars, handed, delivered>>

\* One round of the RX loop, the parser's callbacks included.
ProcessByte ==
  /\ main_pc = "rx" /\ calls = << >>
  /\ rx_queue # << >>
  /\ feed(Head(rx_queue))
  /\ rx_queue' = Tail(rx_queue)
  /\ \/ outcome' = "pending" /\ event' = "none" /\ UNCHANGED delivered
     \/ outcome' = "done" /\ event' = "RX_DONE" /\ delivered' = Append(delivered, payload')
     \/ outcome' \notin {"pending", "done"} /\ event' = "PROTOCOL_ERROR" /\ UNCHANGED delivered
  /\ UNCHANGED <<process_unchanged, tx_busy, main_pc, transport_vars, handed>>

\* The RX queue is empty: comm_process returns.
ProcessReturn ==
  /\ main_pc = "rx" /\ calls = << >>
  /\ rx_queue = << >>
  /\ main_pc' = "app"
  /\ event' = "none"
  /\ UNCHANGED <<process_unchanged, parser_vars, rx_queue, tx_busy, transport_vars,
                 handed, delivered>>

comm_process ==
  \/ ProcessNoTx \/ ProcessPopFrame \/ ProcessSendOk \/ ProcessSendFailed
  \/ ProcessByte \/ ProcessReturn

-----------------------------------------------------------------------------
(* The transport and its interrupts.                                       *)

main_unchanged == <<parser_vars, tx_queue, pack_buf, main_pc, frame_len, app_vars,
                    popped, handed, delivered>>

\* The hardware shifts one more byte out, from its copy or from pack_buf itself.
TransmitByte ==
  /\ InFlight /\ shifted < transfer_len
  /\ line' = Append(line, IF Copies THEN copied[shifted] ELSE pack_buf[shifted])
  /\ shifted' = shifted + 1
  /\ UNCHANGED <<main_unchanged, rx_queue, tx_busy, transfer_len, copied, overflowed>>

\* The transfer is complete: the interrupt calls the handler once.
comm_send_done_handler ==
  /\ InFlight /\ shifted = transfer_len
  /\ transfer_len' = 0 /\ shifted' = 0
  /\ tx_busy' = FALSE
  /\ UNCHANGED <<main_unchanged, rx_queue, copied, line, overflowed>>

Arrive(n, written) ==
  /\ rx_queue' = rx_queue \o SubSeq(line, 1, written)
  /\ line' = SubSeq(line, n + 1, Len(line))
  /\ UNCHANGED <<main_unchanged, tx_busy, transfer_len, shifted, copied>>

\* Faulty variant (validates EchoInOrder): only a chunk of which nothing fits
\* is reported.
comm_on_receive_partial(n) ==
  LET written == Min({n, free_space(rx_queue, RxSize)})
  IN  /\ n <= Len(line)
      /\ Arrive(n, written)
      /\ overflowed' = (overflowed \/ written = 0)

\* comm_on_receive(data, n) through comm_push_rx: what does not fit is dropped
\* and reported.
comm_on_receive(n) ==
  LET written == Min({n, free_space(rx_queue, RxSize)})
  IN  /\ n <= Len(line)
      /\ Arrive(n, written)
      /\ overflowed' = (overflowed \/ written < n)

Receive == \E n \in 1 .. MaxChunk : comm_on_receive(n)

-----------------------------------------------------------------------------
Next ==
  \/ comm_send \/ SendReturn
  \/ comm_process
  \/ TransportStart \/ TransportRefuse \/ TransmitByte
  \/ comm_send_done_handler \/ Receive

Spec == Init /\ [][Next]_vars

\* The main loop calls comm_process again and again and event_cb returns; the
\* transport's send returns, its transfers complete and its bytes arrive.
FairSpec ==
  /\ Spec
  /\ WF_vars(comm_process \/ SendReturn \/ TransportStart \/ TransportRefuse)
  /\ WF_vars(TransmitByte \/ comm_send_done_handler)
  /\ WF_vars(Receive)

-----------------------------------------------------------------------------
Events == {"none", "TX_FAIL", "QUEUE_FULL", "RX_DONE", "PROTOCOL_ERROR"}
Call == [message : Messages, within : Events, before : Nat]

TxTypeOK ==
  /\ tx_queue \in Seq(Byte) /\ Len(tx_queue) < TxSize
  /\ tx_busy \in BOOLEAN
  /\ _pack_status \in {"COMM_OK", "COMM_ERR_QUEUE_FULL", "COMM_ERR_INVALID_ARG"}
  /\ pack_buf \in [0 .. PackSize - 1 -> Byte] /\ copied \in [0 .. PackSize - 1 -> Byte]
  /\ main_pc \in {"app", "send", "sent", "failed", "rx"}
  /\ frame_len \in 0 .. PackSize /\ transfer_len \in 0 .. PackSize /\ shifted \in 0 .. transfer_len
  /\ calls \in Seq(Call)
  /\ event \in Events
  /\ accepted \in Seq(Messages) /\ popped \in 0 .. Len(accepted) /\ handed \in Seq(Messages)

RxTypeOK ==
  /\ ParserTypeOK
  /\ rx_queue \in Seq(Byte) /\ Len(rx_queue) < RxSize
  /\ line \in Seq(Byte)
  /\ delivered \in Seq(Seq(Byte)) /\ overflowed \in BOOLEAN

ManagerTypeOK == TxTypeOK /\ RxTypeOK

\* The messages that protocol_pack makes frames of.
Packable == {m \in Messages : m # << >> /\ packable(Len(m), PackSize)}

\* The frames of the messages, one after the other, and their records.
Frames(messages)  == FlattenSeq([k \in DOMAIN messages |-> frame(messages[k])])
Records(messages) == FlattenSeq([k \in DOMAIN messages |-> record(messages[k])])

\* Accepted and not yet popped; handed over and not yet delivered.
Queued      == SubSeq(accepted, popped + 1, Len(accepted))
Undelivered == SubSeq(handed, Len(delivered) + 1, Len(handed))

\* buf begins with the frame of the message.
Holds(buf, len, message) ==
  /\ len = Len(frame(message))
  /\ \A i \in 0 .. len - 1 : buf[i] = frame(message)[i + 1]

(* The TX queue has no framing but the length in front of each frame: it   *)
(* always holds whole records of the messages accepted and not yet popped, *)
(* in order.  In particular never a single byte, so the early return of    *)
(* comm_process between the two halves of the length is never taken, and   *)
(* never a length that is not its frame's, which would overrun pack_buf.   *)
TxQueueFramed == ManagerTypeOK /\ tx_queue = Records(Queued)

(* What the transport is shifting out is the frame of the message it was   *)
(* last handed, from the first byte to the last: no later comm_send or     *)
(* comm_process writes over it.                                            *)
InFlightIntact ==
  InFlight =>
    LET f == frame(Last(handed))
    IN  /\ transfer_len = Len(f)
        /\ \A i \in shifted .. transfer_len - 1 :
             (IF Copies THEN copied[i] ELSE pack_buf[i]) = f[i + 1]

(* tx_busy is set exactly while a frame is being handed over or is in      *)
(* flight, whichever of the completion interrupt and the return of send    *)
(* comes first: a transfer is never started over another, and a transport  *)
(* that is idle again is never taken for busy.                             *)
BusyTracksTransfer == tx_busy <=> InFlight \/ main_pc \in {"send", "failed"}

\* The transmit side's inductive invariant, beyond these: nothing can call
\* comm_send between the pop and the return of transport->send, so that the
\* frame popped is still in pack_buf, and a copy is not written over.
NoSendWithinSend ==
  /\ main_pc \in {"send", "sent", "failed"} => calls = << >> /\ event = "none"
  /\ main_pc \in {"send", "failed"} => ~InFlight

FrameInHand ==
  main_pc = "send" => popped > 0 /\ Holds(pack_buf, frame_len, accepted[popped])

CopyInFlight ==
  InFlight =>
    /\ handed # << >> /\ transfer_len = Len(frame(Last(handed)))
    /\ Copies => Holds(copied, transfer_len, Last(handed))

TxInv ==
  /\ TxTypeOK /\ accepted \in Seq(Packable) /\ handed \in Seq(Packable)
  /\ tx_queue = Records(Queued)
  /\ BusyTracksTransfer /\ NoSendWithinSend /\ FrameInHand /\ CopyInFlight

(* A comm_send that returns COMM_OK has put a message on the TX queue while *)
(* it was under way: its own, unless it failed and its event_cb has called  *)
(* comm_send.  So a call whose event_cb sends nothing is told the truth.   *)
OkMeansQueued ==
  \A i \in DOMAIN results : results[i].status = "COMM_OK" => results[i].queued

\* Inductive with it: COMM_OK in _pack_status is that of a message queued since
\* the failed calls began whose event_cb are running.
StatusIsSince ==
  \A k \in DOMAIN calls :
    /\ calls[k].before <= Len(accepted)
    /\ _pack_status = "COMM_OK" => calls[k].before < Len(accepted)

\* The results that say the message was queued, and the times it was.
OkFor(m)       == {i \in DOMAIN results : results[i].message = m /\ results[i].status = "COMM_OK"}
AcceptedFor(m) == {i \in DOMAIN accepted : accepted[i] = m}

(* comm_send returns COMM_OK exactly when it has put its own message on the *)
(* TX queue, and COMM_ERR_QUEUE_FULL of one that found no room, as its     *)
(* header has it: an application that counts the COMM_OKs of a message     *)
(* counts the frames that will be sent of it.                              *)
StatusIsHonest ==
  \A m \in Messages : Cardinality(OkFor(m)) = Cardinality(AcceptedFor(m))

(* Frames echoed back arrive as RX_DONE with the payloads the transport    *)
(* was handed, in order, as long as no QUEUE_OVERFLOW has been reported,   *)
(* and all of them are there when line and RX queue are drained: bytes are *)
(* never dropped in silence.                                               *)
EchoInOrder ==
  ~overflowed =>
    /\ IsPrefix(delivered, handed)
    /\ ~InFlight /\ line = << >> /\ rx_queue = << >> => delivered = handed

(* On such a line no PROTOCOL_ERROR is reported either.                    *)
EveryFrameParses == ~overflowed => event # "PROTOCOL_ERROR"

\* What comm_send accepts, the parser of the other end accepts: not so of every
\* message, for rx_buf has no room for the overhead that pack_buf has room for.
MessagesFit == \A m \in Packable : packable(Len(m), OutputSize)

\* The bytes of a frame that the parser is in the middle of, what the transfer
\* in flight has still to shift out, and all bytes on their way to the parser's end.
locked    == IF state = "WAIT_START" THEN << >> ELSE candidate
Unshifted == [k \in 1 .. transfer_len - shifted |-> copied[shifted + k - 1]]
ToCome    == locked \o (rx_queue \o (line \o Unshifted))

(* The receive side's inductive invariant: while nothing has overflowed,   *)
(* the bytes on their way, from the START the parser is locked on to the   *)
(* end of the copy in flight, are the frames of what is not yet delivered. *)
NothingMissed ==
  Copies /\ MessagesFit /\ ~overflowed =>
    /\ Len(delivered) <= Len(handed)
    /\ delivered = SubSeq(handed, 1, Len(delivered))
    /\ ToCome = Frames(Undelivered)
    /\ locked # << >> => /\ Len(delivered) < Len(handed)
                        /\ Len(locked) < Len(frame(handed[Len(delivered) + 1]))
    /\ EveryFrameParses

RxInv == RxTypeOK /\ LockInv /\ FailureIsReal /\ NothingMissed

\* Inductive with it: nor is a comm_send under way whose caller handles an error.
NoErrorBehind ==
  Copies /\ MessagesFit /\ ~overflowed =>
    \A k \in DOMAIN calls : calls[k].within # "PROTOCOL_ERROR"

(* Every accepted message is eventually taken off the TX queue: a missed   *)
(* completion, a failed send or a flood of echoes does not leave the       *)
(* manager busy for ever.                                                  *)
AcceptedIsTaken ==
  \A n \in 1 .. MaxSends : (Len(accepted) >= n) ~> (popped >= n)

(* Every message handed to the transport is eventually delivered, unless   *)
(* an overflow is reported.                                                *)
HandedIsDelivered ==
  \A n \in 1 .. MaxSends : (Len(handed) >= n) ~> (Len(delivered) >= n \/ overflowed)

\* How many messages send has taken or refused, and those it has yet to see.
Taken  == IF main_pc = "send" THEN popped - 1 ELSE popped
ToHand == SubSeq(accepted, Taken + 1, Len(accepted))

(* While nothing overflows, the manager and its echo are a reliable link.  *)
EchoLink == INSTANCE Link WITH
  Message <- Messages,
  pending <- Undelivered \o ToHand

ImplementsLink == EchoLink!Spec
=============================================================================
