# TLA+ specifications of API_Util

API_Util is a collection of C components for small microcontrollers: two
communication stacks, cryptographic primitives, CRCs and debug output. The
specifications in this directory are about its concurrent, stateful core (the
byte queues shared with interrupts, the framing protocols, the two managers
that join them to a transport, and the rings of the debug channel) and about
its algorithms (checksums, ciphers, signatures, message layouts).

Contents

1. [The system](#1-the-system)
2. [The modules and the code](#2-the-modules-and-the-code)
3. [What TLC checks](#3-what-tlc-checks)
4. [Fairness](#4-fairness)
5. [What is proved](#5-what-is-proved)
6. [Findings](#6-findings)
7. [Abstractions, and what is not modelled](#7-abstractions-and-what-is-not-modelled)
8. [Plan](#8-plan)

To run: `tlc -config X.cfg M` for a row of the table in section 3, `tlapm
M_proofs.tla` for the proofs.

## 1. The system

Everything runs on a single core. There is one main loop, and there are
interrupts that can come between any two of its steps and run to their end.

### The transfer module (`src/tranfer_module/communication`)

| Component | State | Operations |
| --- | --- | --- |
| `comm_queue` | storage, `head`, `tail`, `overflow` | `push` of a chunk, `pop` of a byte, `count` |
| `protocol` | `state`, `unpack_crc`, `unpack_offset`, `unpack_length` | `pack`, `feed` of a byte, `reset` |
| `communication_manager` | TX and RX queue, `pack_buf`, `rx_buf`, `tx_busy`, `_pack_status` | `comm_send`, `comm_process`, `comm_on_receive`, `comm_send_done_handler` |
| transport | the transfer in flight | `send`, and the two interrupts |
| `utils/crc` | none | CRC-16/MCRF4XX |

`comm_send` packs a message into `pack_buf` and pushes a length and the frame
onto the TX queue. `comm_process`, called by the main loop, pops a frame into
`pack_buf`, sets `tx_busy`, hands the frame to the transport, and then feeds
the parser all bytes of the RX queue. The receive interrupt fills the RX queue;
the completion interrupt clears `tx_busy`. Events reach the application
through the callback `event_cb`, from which it may call `comm_send` again.

What is hard: the ring is shared without a lock; `pack_buf` belongs to
`comm_send` and to the transfer at once; a completion may come before `send`
returns; `_pack_status` is shared by nested calls; the TX queue has no framing
but a length in front of each frame; the parser has to recover from noise and
loss. What makes it correct: bytes in order, once each; exactly the frames that
`pack` makes are delivered; no write outside the buffers; the frame in flight
is left alone; `tx_busy` is set exactly during a transfer; what is accepted is
sent or reported, and what is sent is delivered or reported.

### comm_handle (`src/comm_handle`)

| Component | State | Operations |
| --- | --- | --- |
| `my_queue` | storage, `_head`, `_tail`, `_overwrite` | `push`, `pop`, `pop_byte`, `peek_data`, `discard`, space and length |
| `packer`, `my_packer` | `unpack_state`, `unpack_crc`, `unpack_offset`, `unpack_length` | encode, decode a buffer, decode a byte, reset |
| `comm_manager` | two queues, three buffers, `comm_tx_in_progress`, two drop counters | `send_data`, `tx_idle`, `comm_control`, `onReceiveData`, `onSendDone` |
| `boot_uart_protocol` | none | command encoders and decoders on top of a payload |

The older manager does the same work in another way. Its TX queue is a stream
of bytes: `comm_control` *peeks* at up to a buffer's length into an active
buffer of its own, hands that to the transport, and *discards* those bytes only
when the transport has accepted them, so that a refused chunk is tried again.
On the receive side a chunk that does not fit is dropped whole and counted by
the interrupt; the main loop notices the count, resets the decoder and reports
the loss.

What is hard: peek, start and discard are three steps with two interrupts
between them; `tx_idle` reads two variables one after the other; the drop
counter is read twice while an interrupt increments it, and it wraps; chunks,
batches of 64 and frames are cut independently of each other; there are two
decoders that must agree. What makes it correct: every message queued is on
the wire once, in order; `tx_idle` never lies; the flag tracks the transfer;
whole chunks or nothing; payloads in order; every drop reported.

### The debug channel (`src/debug`)

| Component | State | Operations |
| --- | --- | --- |
| `SEGGER_RTT`, a ring | `pBuffer`, `WrOff`, `RdOff`, `Flags`, `_ActiveTerminal` | `Write...`, `PutChar...`, `SetTerminal`, `TerminalOut`, `Read...`, `GetKey`, `WaitKey`, the calls that only ask |
| `SEGGER_RTT`, the control block | `acID`, `aUp`, `aDown` | `Init`, and for either table `Alloc...`, `Config...`, `SetName...`, `SetFlags...` |
| `log`, `debug_print` | none | wrappers of `SEGGER_RTT_WriteString` and of a UART |

A ring lies in memory that a debug probe reads and writes while the program
runs: of an up buffer the target owns `WrOff` and the probe `RdOff`, of a down
buffer the other way round. Calls on the target exclude each other by masking
interrupts. RTT is third-party code, but it is the one place of the repository
where three parties share memory.

What is hard: the offset of the other side moves while a call computes with it;
five functions have tests for room of their own; a call in blocking mode spins
with the interrupts masked; a text for another terminal needs a switch before
and after it, all or nothing; the control block is initialised without the
lock, and searched and changed under it. What makes it correct: bytes in order,
once each; a text on its terminal; only a call that may wait does; what was
allocated stays so.

### The algorithms

| Component | Operations |
| --- | --- |
| `utils/crc.c`, `crc/crc16.c`, `crc/crc32.c`, `comm_handle/crc16.c`, `Serial.py` | CRC-16/MCRF4XX bit by bit and by tables, CRC-32 by a table |
| `boot_uart_protocol` | decoders of three commands, encoders of two reports |
| `sha256.c` | `init`, `update`, `final` over a buffered context |
| `aes128_gcm.c` | seal and open, on a block cipher, a counter mode and GHASH |
| `ecdsa_p256.c` | key pairs, signatures and their verification, on Montgomery multiplication and Jacobian points |
| `x25519.c` | key pairs and shared keys, on 16 limbs of 16 bits |
| `crypto_manager` | applies them to firmware images |

They have no state between two calls, except the context of SHA-256. What is
hard is what happens rarely: a carry that runs on, a reduction that is just
needed, a block that is just full, a point added to itself, one bad table entry
of 256. What makes them correct is that they compute what their standards say.

## 2. The modules and the code

```
 Fifo  <----- implements ----- CommQueue ---- EXTENDS --- Ring
   ^                                                       |
   +--------- implements ----- MyQueue ------ EXTENDS -----+

 Link  <----- implements ----- CommunicationManager ---- EXTENDS --- Protocol
                               CommHandle -------------- EXTENDS --- MyPacker

 MCRings        ---- EXTENDS --- SeggerRtt (over Ring), RttControl, CommQueue, Protocol
 MCHandleLayers ---- EXTENDS --- MyQueue, MyPacker
 MCPrimitives   ---- EXTENDS --- Crc, BootProtocol, Sha256, Aes128Gcm, EcdsaP256, X25519
                                 (over Words)
```

| Module | Models | State and actions |
| --- | --- | --- |
| `Ring` | index arithmetic of the three rings | operators only: `successor`, `count`, the bytes between two indices |
| `Fifo` | what a byte queue promises | abstract: `Put`, `Refuse`, `Get`, `GetMany` |
| `CommQueue` | `comm_queue.c` | one action per access: the producer checks, stores, publishes `head`; the consumer checks, loads, advances `tail` |
| `MyQueue` | `my_queue.c` | the same for batches: `PopLoad`/`PopAdvance` per byte, `PeekLoad` per byte, `Discard` reads how many there are, `DiscardAdvance` moves over them |
| `Protocol` | `protocol.c` | `frame` and `packable` are `protocol_pack`; `feed(byte)` is the disjunction of one action per `case` |
| `MyPacker` | `my_packer.c`, `packer.c` | `frame`, `packable`; `my_unpack_data_state(byte)`, one action per `case`; `my_unpack_data(buffer)`, an operator; `Reset` |
| `Link` | what a manager promises an application whose line echoes | abstract: `Accept`, `Refuse`, `Deliver` |
| `CommunicationManager` | `communication_manager.c` | section by section: `comm_send` and its outcomes, `comm_process` in steps cut where an interrupt matters, the two interrupts, the transport |
| `CommHandle` | `comm_manager.c` | likewise: `comm_manager_send_data`, `comm_manager_tx_idle` in two steps, `comm_control` in ten, `onReceiveData`, `onSendDone`, transport and peer |
| `SeggerRtt` | the rings of `SEGGER_RTT.c` | `use` says which buffer: an up buffer with a probe, one the target reads itself, a down buffer. A call chooses its pieces (a text, terminal switches); each piece is stored (`Store`) and then published (`Publish`), in chunks if it blocks; a reader samples the offsets (`Sample`), then copies and releases (`CopyAndRelease`) |
| `RttControl` | the control block of `SEGGER_RTT.c` | calls of main and of an interrupt that preempts it: `INIT` tests, `_DoInit`, then `Scan` and `Fill`, or `Change` |
| `Words` | 16- and 32-bit arithmetic | operators: exclusive or by a table of bytes, a 32-bit word as a pair of halves |
| `Crc` | all CRCs | a message that grows by a byte, and the incremental functions' values |
| `BootProtocol` | `boot_uart_protocol.c` | one call: a command decoded, or a report encoded |
| `Sha256` | `sha256.c` | the context; `Update` with a piece, `Final` |
| `Aes128Gcm` | `aes128_gcm.c` | `Encrypt`, then `Decrypt` of the result or of one damaged |
| `EcdsaP256` | `ecdsa_p256.c` | `GenerateKeypair`, `Sign`, `Verify` of what was signed or something near it |
| `X25519` | `x25519.c` | `GeneratePair` twice, then `Exchange`, or `Foreign` keys |
| `ToyCrc` | for the small instances | the loop of `utils/crc.c` with 4 bits instead of 16 |
| `MC...` | constants for TLC | |
| `..._proofs` | theorems | one module per component; `CommunicationManager_proofs` is also about `Protocol`, `CommHandle_proofs` about `MyPacker`, `Rtt_proofs` about `SeggerRtt` and `RttControl`, `Primitives_proofs` about `Sha256` and `BootProtocol` |
| `SequenceLemmas` | what the proofs share | sequences, their concatenations, and rings, on top of `Ring` |

Variables and constants have the names of the C code. Variables the code does
not have are marked in each module: program counters (`push_pc`, `main_pc`),
locals that live across a step, external parties (`line`, `transfer_len`), and
history variables, which no guard reads except to bound a run.

An operator introduced by *Faulty variant* is not part of any specification:
it is the definition below it with one plausible mistake in it (a forgotten
reset, a missing test, an off-by-one). Putting it in place of the correct one
makes the property it names fail, which shows that the property is able to
fail in that run.

**Steps.** In the queues and the RTT rings a step is one access to shared
memory, and producer and consumer interleave freely; an interrupt that runs to
its end is a special case, so what holds there holds for the interrupt and for a
second core. In the managers the queues are sequences, with one atomic push and
pop: the queue modules show that the rings implement that (`ImplementsFifo`). An
interrupt handler of a manager is one step. The main loop is cut wherever an
interrupt can make a difference, in particular before and after
`send`/`start_send`, so that a completion can come before the call returns.

**Events and callbacks.** A callback of a manager is the interval between the
step that calls it (`event` or `callback` says which one) and the next step of
the main loop. Sends in that interval are the calls the application makes from
inside the callback. In `CommunicationManager` such calls may nest, because
`comm_send` itself calls `event_cb` when it fails; `calls` is the stack of the
failed calls whose `event_cb` is running, and when one of them returns, `event`
is again the event its caller was handling. Callbacks made in an
interrupt (`QUEUE_OVERFLOW`, `TX_DONE`) are taken not to call `comm_send`,
which would run two packers over one `pack_buf` and is no use the documents
describe.

**Transports.** A transport accepts or refuses a frame, shifts its bytes out
one at a time, and calls the completion handler once. In
`CommunicationManager` the constant `Copies` says whether it copies the frame
or transmits from the buffer it was given; in `CommHandle` it always transmits
from the buffer, the harder case. The line of `CommunicationManager` brings
every byte back, as the loopback example does; the peer of `CommHandle` sends
frames of its own.

## 3. What TLC checks

| Run | Configuration | Result | Asks |
| --- | --- | --- | --- |
| `rings` | `MCRings.cfg` | holds | does the ring of `comm_queue.c` lose, duplicate or reorder anything? does the parser of `protocol.c` deliver exactly the frames of `pack`, on any input? do the debug rings keep order, terminals and promises not to wait, and does their control block keep its buffers? |
| `handle_layers` | `MCHandleLayers.cfg` | holds | the same of the ring of `my_queue.c`, with peek and discard, and of `my_packer.c`, with resets; do its two decoders agree? |
| `manager` | `MCCommunicationManager.cfg` | holds | is the new manager sound with queues that overflow, refused sends and sends from callbacks? |
| `link` | `MCCommunicationManager_link.cfg` | holds | without overflow, is it a reliable link, and does everything get through? |
| `handle_tx` | `MCCommHandle_tx.cfg` | holds | is every message of the older manager on the wire once, in order, those sent from its receive callbacks included? |
| `handle_rx` | `MCCommHandle_rx.cfg` | holds | is everything that was not dropped decoded in order, and every drop reported? |
| `primitives` | `MCPrimitives.cfg` | holds | do the algorithms compute what their standards say? |
| `dma`, `long_payload`, `nested` | `MCCommunicationManager_*.cfg` | violated | see section 6 |
| `used`, `early` | `MCRings_*.cfg` | violated | see section 6 |

`rings`, `handle_layers` and `primitives` each check several modules that do not
interact: a variable of their MC module (`part`, `unit`) says which one a
behaviour is about, and the others stay in their initial state. Each property
names the variables of one module only, so it is checked on exactly the
behaviours of that module's own specification.

### The queues

`InOrder` (of `CommQueue`): what was taken out followed by what is inside is
what was put in, at every point of an interleaved push and pop. `SpaceIsKept`
(of `MyQueue`): a test for room that is stale when it is used is stale in the
harmless direction. `ImplementsFifo`: refinement of `Fifo` with capacity
`size - 1`. That no slot is written while the consumer reads it, and that what
was peeked at is what discard removes, is proved (section 5) and follows from
the refinement in the runs.

*Bounds.* Three slots, so that two bytes fill the ring; two byte values; chunks
of none to three bytes, so that a push overflows in the middle; five bytes
offered, so that both indices go round; batches smaller and larger than the
ring. The proofs of section 5 remove all of these bounds.

### The frame formats

`WritesInBounds`: no write outside the caller's buffer, the CRC byte that
`protocol.c` parks behind the payload included (in `MyPacker` with the decoder's
types). `DeliversFrames`: only what
`pack` makes is delivered. `AcceptsFrames`: once locked on the START of a
packed frame that fits, the parser delivers it, START and STOP in its payload included.
`BoundedLock` (of `Protocol`): a false START costs at most a buffer of bytes.
`StreamMatchesBatch`: `my_unpack_data` returns for a buffer what the streaming
decoder returns at the end of the same bytes.

*Bounds.* A byte has four values (two of them START and STOP or END), so that a
length runs to 15 and most lengths received are illegal, and the CRC has four
bits, so that wrong frames with a right CRC do occur. The input is unbounded:
any byte at any time. Every payload that fits is tried, up to two bytes in
`Protocol` (a buffer of eight, less the overhead of six) and three in `MyPacker`.

### The new manager

`TxQueueFramed` (with the manager's types): the TX queue is always a sequence of
whole records; so the early return of `comm_process` between the two bytes of a
length is never taken, and no length is ever read that is not its frame's.
`InFlightIntact`: the bytes still to be sent are those of the frame handed over.
`BusyTracksTransfer`: `tx_busy` exactly while a frame is being handed over or is
in flight. `OkMeansQueued`: a `comm_send` that returns `COMM_OK` has had a message
put on the TX queue while it was under way, so a call whose `event_cb` sends
nothing is told the truth; that it should be the call's own message in every case
(`StatusIsHonest`) is what run `nested` refutes.
`EchoInOrder`: payloads come back in order, and all of them unless an overflow
was reported. `ImplementsLink`: refinement of `Link`. `AcceptedIsTaken`,
`HandedIsDelivered`: nothing waits for ever.

*Bounds.* Four messages: of one byte, of two (START and STOP as payload), of none
and one too long, so that every way for `comm_send` to fail occurs. `manager` has
three sends, a TX queue that holds two records of the short message but not of the
long one, and an RX queue that holds two frames less a byte, so that both overflow;
chunks of up to eight bytes cut frames anywhere. Its calls of `comm_send` nest as
deep as there are sends: `MaxNesting` is `MaxSends`. `link` has two sends, nested
or not, chunks of up to four bytes and an RX queue of two frames: it cannot
overflow, which is what `Link` presupposes.

### The older manager

`QueuedOnce` (with the manager's types): what was handed to the transport
followed by what is queued is the frames of all messages queued. `WireIsHanded`:
what is on the wire, with what the transfer has left, is what was handed over.
`BusyTracksTransfer` as above. `IdleIsTrue`: after `tx_idle` has returned true
everything is on the wire. `WholeChunks`: the decoder gets the chunks that were
not dropped, whole and in order. `PeerInOrder`: without drops the peer's
payloads come in order and all of them. `DropIsReported`: a drop is followed by
`on_receive_fail`, unless as many drops come together as the counter has values.
`EverythingSent`, `PeerDelivered`: nothing waits for ever.

*Bounds.* The active buffer has nine bytes and frames seven or eight, so that a
chunk ends inside the second frame; the TX queue holds two of the short frames
and not one of each; two sends, at any point of the main loop outside the
manager and in its callbacks. There a frame of the peer arrives whole or byte by
byte. In `handle_rx` the peer sends two frames; the RX queue holds five bytes,
less than a frame, chunks are of one or four bytes and batches of three, so that
no cut coincides with another and drops happen at every position; the drop
counter has three values and wraps.

### The debug rings

`RingIsFifo`: what lies between the offsets is what was published and not read,
in order; what a reader is about to copy is the oldest of it, whatever was
written since it sampled the offsets; and the functions that only ask tell the
truth, `SEGGER_RTT_GetBytesInBuffer` as long as the bytes do not wrap around
(`BytesInBufferAreUsed` asks it of every ring, and run `used` refutes it). `TextOnItsTerminal`: if the host read
all that is there, every text would show on the terminal it was meant for, and
no byte of a switch would show. `NonBlockingNeverWaits`: a call whose mode is
not to block has room for all it still has to write, at each of its steps, so
that the loops of `_WriteBlocking` it runs never turn without progress.
`EveryCallReturns`: a blocking call returns when a probe reads, and
`SEGGER_RTT_WaitKey` when there is a key. `SlotsStayAllocated`: a buffer that
`Alloc...` has handed out is not handed out again and its slot still has it,
until it is configured again or `SEGGER_RTT_Init` makes every slot fresh. In run
`rings` interrupts call RTT once main's first call has returned, in run `early` at
any time.

*Bounds.* Six bytes, of which five can be used: a terminal switch (two bytes)
and a text of three just fit, a framed text of one byte just fits and one of
three has to be skipped, trimmed to one byte or to none, or blocked for; both
offsets go round. Three symbols tell the bytes of neighbouring texts apart.
Terminal 10 has a letter for its name, 16 does not exist. Three calls that write
or set the mode, in every mode at the start and two to change to; reads are
unbounded in number, of three bytes or one. For the control block: three up
buffers, one of them the terminal's, so that main and an interrupt compete for
two; one down buffer, so that there is none to allocate; two contexts, three
calls.

### The algorithms

Each property compares what the code computes with a definition that does not
follow the code: `CrcAgrees` with the remainder of a division of polynomials
over bits; `DigestIsStandard` with FIPS 180-4 on the padded message (and
`StandardExamples` with the digests that the standard prints); `GcmIsStandard` with SP 800-38D, its
product of polynomials by convolution and reduction (and the cipher with the
example of FIPS 197); `EcdsaIsStandard` with multiples of G found by adding
affine points; `X25519IsStandard` with the x coordinates of multiples of a point
modulo the prime; `BootExchange` with a host that lays out the same message.

*Bounds.* CRC: messages of up to three bytes, the first one any, so that every
table entry is reached, the others from the corners. Boot messages: right
lengths, one more and one less, fields with every byte in use. SHA-256: two
updates of lengths around a block and the 55/56 byte limit, a whole block in the
middle included. GCM: one key, IVs of 12, 0, 1, 17 and 16 bytes, the last one
with a counter about to carry, texts and additional data of none, part of a
block, a block and more than a block or two. ECDSA: the curve y^2 = x^3 - 3x +
58 modulo 251, which has the prime order 229, so that P > N as in P-256 and
scalars and coordinates fill two limbs of four bits, small enough for every rare
case to be an input: r = 0, s = 0, an x past the order, a random number of zero
or too large, a generator that gives up, digests past the order, and Q = -G.
X25519: the prime 2^19 - 19 in four limbs of five bits, the curve coefficient in
the same two-limb form; scalars and points at every end of their ranges, the
small-order and non-canonical ones included.

## 4. Fairness

Fairness matters to the liveness properties only. The queues, the formats and
the algorithms have none; the others' need:

- *`CommunicationManager`*: weak fairness of the main loop's steps together
  (`comm_process` is called in a loop, `event_cb` and `send` return), of the
  transport (`TransmitByte` or completion: a transfer that was accepted
  finishes) and of `Receive` (bytes on the line arrive). The transport may
  refuse every frame: `AcceptedIsTaken` says taken, not sent.
- *`CommHandle`*: the same, with strong fairness in two places. `comm_control`
  is called periodically, but the application may also call `tx_idle` again and
  again, each call of which leaves the place where `comm_control` could begin;
  only strong fairness says that the main loop gets round to it. And as a chunk
  that is refused is tried again, `EverythingSent` needs a transport that does
  not refuse for ever: strong fairness of `StartAccepted`, an assumption on the
  transport.
- *`SeggerRtt`*: weak fairness of a call that is under way, on either side, and
  of the probe's reads of an up buffer (a debugger that is attached polls; with
  none attached, blocking mode blocks, as its documentation says).

No fairness is assumed of the application's sends or the peer's.

## 5. What is proved

All theorems hold for every value of the constants that satisfies the named
assumptions.

| Module | Theorem | States |
| --- | --- | --- |
| `CommQueue_proofs` | `TypeCorrect`, `OrderPreserved`, `SlotRaceFree`, `RoomPersists` | `[]TypeOK`, `[]InOrder`, `[]NoSlotRace`, `[]RoomStillThere` |
| | `RingImplementsFifo` | `Spec => ImplementsFifo` |
| `MyQueue_proofs` | `TypeCorrect`, `OrderPreserved`, `SlotRaceFree`, `SpaceKept`, `PeekedFront` | `[]TypeOK`, `[]InOrder`, `[]NoSlotRace`, `[]SpaceIsKept`, `[]PeekedIsFront` |
| | `RingImplementsFifo` | `Spec => ImplementsFifo` |
| `CommunicationManager_proofs` | `ParserTypeCorrect`, `ParserWritesInBounds`, `ParserSound`, `ParserComplete`, `ParserResynchronises` | `[]ParserTypeOK`, `[]WritesInBounds`, `[]DeliversFrames`, `[]AcceptsFrames`, `[]BoundedLock` |
| | `ManagerInv` | the inductive invariant of both directions |
| | `ManagerTxQueueFramed`, `ManagerBusyTracksTransfer` | `[]TxQueueFramed`, `[]BusyTracksTransfer` |
| | `ManagerInFlightIntact` | `[]InFlightIntact`, if the transport copies |
| | `ManagerOkMeansQueued` | `[]OkMeansQueued`, however deep calls of `comm_send` nest |
| | `ManagerEchoInOrder`, `ManagerEveryFrameParses` | `[]EchoInOrder`, `[]EveryFrameParses`, if it copies and messages fit |
| | `ManagerImplementsLink` | `Spec /\ []~overflowed => ImplementsLink`, under the same conditions |
| `CommHandle_proofs` | `PackerLock` | the decoder's inductive invariant |
| | `PackerWritesInBounds`, `PackerSound`, `PackerComplete` | `[]WritesInBounds`, `[]DeliversFrames`, `[]AcceptsFrames` |
| | `DecodersAgree` | `[]StreamMatchesBatch` |
| | `HandleInv` | the inductive invariant of both directions |
| | `HandleQueuedOnce`, `HandleWireIsHanded`, `HandleBusyTracksTransfer`, `HandleIdleIsTrue` | `[]QueuedOnce`, `[]WireIsHanded`, `[]BusyTracksTransfer`, `[]IdleIsTrue` |
| | `HandleWholeChunks`, `HandlePeerInOrder` | `[]WholeChunks`, `[]PeerInOrder` |
| `Rtt_proofs` | `RttSlotsStayAllocated` | `ControlSpec => []SlotsStayAllocated`, if no interrupt calls before main's first call has returned |
| | `RttRingIsFifo`, `RttTextOnItsTerminal`, `RttNonBlockingNeverWaits` | `RttSpec =>` `[]RingIsFifo`, `[]TextOnItsTerminal`, `[]NonBlockingNeverWaits` |
| `Crc_proofs` | `ChecksumsAgree` | `CrcSpec => []CrcAgrees` |
| | `ChecksumsIncremental`, `FragmentsCompose` | `CrcSpec => []CrcIncremental`; a checksum of two fragments in turn is that of both joined |
| `Primitives_proofs` | `DigestsAreStandard` | `ShaSpec => []DigestIsStandard` |
| | `LayoutsAgree` | `BootSpec => []BootExchange` |

With them every safety property of the queues, the formats, the managers and
the debug channel that a passing run checks is a theorem.

*Shared lemmas.* `SequenceLemmas` has what several modules need: cutting a
sequence in two and joining it again, associativity of concatenation (`\o` has
none of its own in the provers), `FlattenSeq` of a sequence of sequences, and
what moving an index of a ring, by one slot or by several, does to the bytes
between the two; arithmetic modulo a size hardly appears anywhere else. The standard induction theorems take a predicate as a
parameter, which the provers cannot instantiate. Where a proof needs induction
over the length of a sequence (a decoder's run over a buffer, a window's run
over the bytes it hears, a concatenation of frames), it names the *set* of the
numbers for which the claim holds, and `Induct`, which is proved from the
well-foundedness of the naturals, says that it is all of them.

*The queues.* Assumed: a size of at least one (`comm_queue`) and sequences of
bytes for chunks; nothing about the bytes. `InOrder` is not inductive: a step
that publishes a byte needs to know that the slot really holds it and that the
ring is not full, a step that advances needs to know that the byte it took is
still the one in the slot. `Inv` in each module collects what producer and
consumer know at each of their steps (the stored byte, the room left, the part
of the batch already copied). The induction goes action by action. For
`MyQueue`, `Inv` also has that the room reported when a push began, less what
it has stored, is still there. The refinement maps `PushPublish` to `Put`, the
step that finds the ring full to `Refuse`, `PopAdvance` to `Get`,
`DiscardAdvance` to `Get`, `GetMany` or (of no bytes) a stutter, and everything
else to a stutter.

*The parsers.* Assumed: bytes of at least two values, no 16-bit sum of lengths
that wraps (512 + 6 < 65536), and of the CRC only that the bulk form is the
incremental form byte after byte. `LockInv` says in each state how many bytes
of the candidate frame have been read and what of them `unpack_length`,
`unpack_offset`, `unpack_crc` and the buffer hold; it implies soundness,
bounds and resynchronisation. Completeness also needs that a parser that gives
up has a reason: `FailureIsReal` says of each error what is wrong with the
candidate, and no prefix of a frame that fits is wrong in that way. What is
invariant is the conjunction of the two with the type, for `Protocol` and
`MyPacker` alike. That `my_unpack_data` agrees follows from the same facts: each
of its tests is compared with what the invariant says of a candidate that was
complete, or of the error the streaming decoder reported.

*The new manager.* Assumed besides the parser's: `rx_buf` is as long as the
longest payload, and the table of CRC values is long enough for what is sent.
`TxInv` says that the TX queue is the records of the messages accepted and not
popped, that the frame popped is in `pack_buf` until `send` has returned
(nothing can call `comm_send` in between), and what a copy in flight holds.
`OkMeansQueued` needs in addition that of every call on the stack a message has
been accepted since it began if `_pack_status` is `COMM_OK` (`StatusIsSince`): a
failed call has set something else, and only a message accepted sets it back. For
the receive side `NothingMissed` follows the bytes on their way: from the START
the parser is locked on, through the RX queue and the line, to the end of the
copy in flight, they are the frames of the messages not yet delivered. It makes
`EchoInOrder`, `EveryFrameParses` and the refinement of `Link` consequences of
the parser's completeness, which is used for the frame that ends. As `event` may
become that of a caller again, `NoErrorBehind` goes with it: no caller of a
`comm_send` under way is handling an error. The conditions are constants of the
model, and each of them is necessary: runs `dma` and `long_payload` violate the
properties without them.

*The older manager.* Assumed besides the decoder's: queues of at least two
slots, a drop counter of at least two values, a receive buffer as long as the
longest payload, and a peer whose frames `my_pack_data` makes.
`TxInv` says that between `queue_peek_without_pop`, `start_send` and
`queue_discard` the chunk stays at the head of the queue and is what the active
buffer holds, that a chunk is in flight only after it was accepted, and that
after `tx_idle` has returned true nothing is queued. `RxInv` is built like the new
manager's, with chunks and batches in place of single bytes; as long as nothing
was dropped the decoder was not reset.

*The debug channel.* Assumed: rings of at least two bytes, and of the bytes of a
text only that none is the escape byte of a terminal switch. `RttInv` adds to the
properties: a chunk that is stored and not yet published lies in free slots, in
one piece if the call blocks (`ChunkIsStored`); a sample of the offsets is behind
the writer and not behind the reader (`SampleIsOld`); a call that does not test for
room again found enough for all it has to write (`RoomWasFound`); and what is
published and unread, followed by everything that calls under way will still
write, is heard by the probe's window as it is meant, and leaves it on the active
terminal (`StreamIsHeard`). The last one is why a text may be cut anywhere, and a
reader may stop between the two bytes of a switch. `ControlInv` adds that nothing
is allocated before the block has its identifier, that an interrupt (with
`EarlyInterrupts = FALSE`, which the theorem assumes) runs only when main
is not between finding a slot and filling it, and that the slot found is free.

`TypeOK`, `NoSlotRace`, `PeekedIsFront`, `ParserTypeOK` and the `InOrder` of
`MyQueue` are theorems without a run of their own: TLC gets them from the
refinements and from the other invariants. `TxInv`, `RxInv`, `ControlInv` and
`RttInv` were checked as invariants of the runs before they were proved.

*The algorithms.* `DigestsAreStandard` assumes that pieces are sequences of bytes.
`ShaInv` says that after any updates the state is that of the standard after the
whole blocks of the message so far, and that the buffer begins with what is left
of it (`Holds`). Three simulations carry it. `RoundsAreStandard`: after `i` rounds
the register that has the name `a` to `h` in round `i` holds what the standard's
shift has put there, and slot `t % 16` of the schedule holds word `t` of the
standard's 64; `TransformIsStandard` is the same for a block, wherever it lies;
`BlocksJoin` and `UpdateAfter` cut a message at a block although the pieces are cut
elsewhere. `FinalIs` then compares the one or two last blocks with the padding, by
the number of bytes left over (`crowded`). The round constants and the functions on
words are the standard's literally, and the same definitions serve both sides:
that they are the right ones is tested by `StandardExamples`, not proved.
`LayoutsAgree` assumes the widths of the C types for what is sent and nothing of
the lengths of chunks, the room for a report or the bytes missing. Each layout is a
concatenation of parts; `Holds` says where each part begins, `FieldReads` that a
field written is the field read.
`ChecksumsIncremental` and `FragmentsCompose` are by induction over the message.

*The checksums.* `ChecksumsAgree` has no assumption. All five computations are
compared with one: a register of `W` bits that takes a bit, moves on by a place and
adds the polynomial if the bit that left and the bit that came differ (`Fed`).

- Division. `Remainder` adds the generator at every leading 1 of what is left
  (`Divided`). What is left after `t` bits is the register's contents added to the
  message's next `W` bits, with the bits after these as they were (`LeftOver`);
  `LeftOverMoves` is one step, `DivisionIsRegister` the induction.
- The loops. `Low16` and `High16` read the 16 bits as a number from either end.
  A shift and a conditional exclusive or of numbers is then a bit fed:
  `ShiftStepIsFed` for `crc.c`, `SerialShiftIsFed` for `Serial.py`, which turns
  the message and the result over. `XorOfBytes` and `XorOfHalves` say that the
  exclusive or of numbers adds their bits.
- The tables. Eight bits fed depend on the register's first eight bits and on the
  byte only through their sum (`EightSplits`), so the result is an entry of the
  table for that sum, added to the rest of the register. What an entry must be is
  linear in its index: every index is reached from 0 by moving its bits on a place
  and by setting the last one (`OctetsReached`), and how the entry changes is
  known (`EntryDown`, `EntryWithLast`). That the numbers in `crc16.c` and `crc32.c`
  change in the same way from entry to entry is arithmetic on them, which the
  prover does (`Table16Down`, `Table32Across...`).
- `BytesAreBits` and `RegisterIsImage` lift both from a byte to a message.

Only model-checked: all liveness; and of the algorithms `GcmIsStandard`,
`EcdsaIsStandard` and `X25519IsStandard`, whose modules have recursive operators,
which TLC evaluates faster than recursive functions and the provers cannot unfold,
and whose standards differ from the code by theorems of algebra (Montgomery form,
projective coordinates, polynomials modulo a prime) that no library states here. The
sequence "CRC over a buffer" is a hypothesis of
the parsers' theorems (`ChecksumsIncremental` proves it of the CRC the code uses)
and tested for the 4-bit instance in `ToyCrc`, which TLC
evaluates against `CrcAssumption`.

## 6. Findings

Five runs exhibit a disagreement between the code and what its documents and
comments say.

- **`dma`** (`InFlightIntact`). `comm_send` packs into `pack_buf` while the
  transport may still be sending from it (`communication_manager.c:156`, `:195`).
  The module's README recommends a DMA transmit, which does not copy. With a
  copying transport the property holds (`manager`); `comm_handle`, which has an
  active buffer of its own, satisfies it without a copy (`WireIsHanded`).
- **`long_payload`** (`EveryFrameParses`). A payload of up to 512 bytes may be
  sent, but the parser wants room for payload *and* overhead in `rx_buf`, which
  has 512: payloads of 507 to 512 bytes end in `PROTOCOL_ERROR`
  (`communication_manager.c:210`, `protocol.c:75`). In the instance the limit is
  8 and a payload of three bytes is enough.
- **`nested`** (`StatusIsHonest`). The status of a `comm_send` is kept in the shared
  `_pack_status` until `event_cb` is back (`communication_manager.c:160`). In the
  trace one message is queued, a second finds no room, and the `event_cb` that is
  told `QUEUE_FULL` sends something shorter, which fits and leaves `COMM_OK` there:
  the outer call returns `COMM_OK` for the message that was dropped. The header
  (`communication_manager.h:89`) promises `COMM_ERR_QUEUE_FULL`.
- **`used`** (`BytesInBufferAreUsed`). `SEGGER_RTT_GetBytesInBuffer`
  (`SEGGER_RTT.c:2094`) subtracts a negative difference when the bytes wrap around
  the end of the buffer and returns more than are there; its comment (`:2077`)
  says "Number of bytes that are used in the buffer".
- **`early`** (`SlotsStayAllocated`). `INIT` tests and initialises outside the lock
  (`SEGGER_RTT.c:309`). In the trace an interrupt comes between main's test and
  main's `_DoInit`, initialises the block and is given a buffer, which main's
  `_DoInit` then takes away. By its comment (`:302`) `_DoInit` is called by `INIT`
  only "to avoid overriding settings".

Observed, without a run:

- The design document asks the application to encode the bytes `0xAC` and `0xBB` of a
  payload (`Communication_manager_design.md:237`). The parser goes by the length
  and needs no such thing: a payload with those bytes is delivered as it is
  (`AcceptsFrames`). It is a precondition for the caller that the code does not
  depend on; what it would spare is false STARTs while the parser resynchronises.
- The design document has `comm_send` return `COMM_ERR_BUSY` during a transfer
  (`Communication_manager_design.md:416`); the code queues the message.
- `SEGGER_RTT_WriteWithOverwriteNoLock` of as many bytes as the buffer has, or
  more, may leave `WrOff = RdOff`, an empty ring; the model has `n < Size`.
- `SEGGER_RTT_HasData` returns an unsigned difference of the offsets, of which
  only zero has a meaning.
- `parse_update_chunk` does not enforce `BOOT_UART_MAX_CHUNK_SIZE`
  (`boot_uart_protocol.h:51`).
- `RX_DONE` hands out a pointer into `rx_buf` (`communication_manager.c:55`), which
  the next byte parsed overwrites.

`COMM_MANAGER_ERROR_RECEIVE` and the decoder's
`PARSER_ERROR_CRC_MISMATCH` are both 3, so `on_receive_fail` cannot tell a drop
from a bad CRC. When `comm_control` notices a drop it resets the decoder before
it has decoded the bytes queued ahead of the gap, so a frame all of whose bytes
arrived may be lost with it. Neither parser has a timeout between bytes: a frame
cut short waits for the bytes of the next one.

## 7. Abstractions, and what is not modelled

- *Memory order.* The indices of `my_queue` are volatile, those of `comm_queue`
  are not, although its design document calls them so. The model takes the
  accesses in program order. On one core the hardware keeps that order; the
  compiler may not move a store through the `uint8_t *` storage, which may
  alias the record, over an access to an index.
- *Data.* A byte has `B` values, a word `B * B`. The CRC is a parameter.
- *Widths.* Lengths do not wrap (`SizeAssumption`); the drop counter does.
- *The algorithms' fields.* ECDSA and X25519 are modelled word for word, but over
  a smaller field; every constant that depends on it (moduli, Montgomery
  constants, the table of multiples of G, exponents) is computed from its
  definition. The 256-bit literals of the source are therefore not checked. SHA-256,
  AES-GCM and the CRCs have their full width and the tables as written. A
  number of the interface stands for its bytes. The random generator is a
  given stream of numbers, and may fail.
- *RTT.* The bytes of a text are below `'0'`, so that none is taken for an
  escape (a text with a byte 0xFF would switch terminals: the code does not
  escape it). The steps of one call that touch only its own side are joined. The
  slots of the control block and a ring's data are in separate modules: what a
  ring does depends on its slot only through its flags. Interrupts that
  call RTT before main's first call has returned are in run `early` only:
  `EarlyInterrupts` is the constant. `SEGGER_RTT_Init` may come at any time from
  either side; it makes every slot fresh by intention (`SEGGER_RTT.c:303`), and is
  one step.
- *Left out.* NULL arguments and NULL callbacks, zero-sized storage (refused by
  `comm_init`), failed allocations, logging, and `deinit`, which the caller must
  not use while a transfer or an interrupt is active.
- *`comm_tx_pack_buffer`* of `CommHandle` is local to a call of `send_data` and
  not a variable. Peeking is one step there: no interrupt touches the queue's
  read end, nor the active buffer without a transfer.
- *RX loop.* `comm_process` parses until the RX queue is empty. The line of
  the model carries finitely many bytes; a source that never pauses could keep
  the loop from returning.
- *Transports.* One completion per transfer. A duplicated completion would
  clear the flag under the next transfer; nothing in the managers can tell.

Not modelled: `crypto_manager` (its headers, with the layout of a manifest and
the provisioned keys, are not in the repository; what it calls is modelled),
`crypto_constant_time_equal` (its result is equality, its point the time it
takes), the number formatting of `log` and the UART print of `debug_print`
(pure output), `SEGGER_RTT_printf` (declared, not in the repository), the test
tool in `Serial.py` but for its CRC, `comm_manager_deinit`.

## 8. Plan

Done, in the order of importance: the rings, with refinement and proofs; the
parsers, with proofs; the new manager, composed of both, with its refinement of
`Link` and proofs; the older manager, with proofs; the debug channel, with
proofs; the algorithms.

Next theorem: that a ring of `SeggerRtt` implements a FIFO like `Fifo`, whose `Put`
would have to take several bytes at once.

A model of `comm_process` against an endless source of bytes, which needs an
environment without histories, would state when its receive loop ends.
