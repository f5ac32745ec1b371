------------------------------ MODULE SeggerRtt ------------------------------
(***************************************************************************)
(* One ring of SEGGER_RTT.c: a writer that fills it and moves WrOff, and a *)
(* reader that drains it and moves RdOff.  Of an up buffer the target is   *)
(* the writer and the debug probe the reader, of a down buffer the other   *)
(* way round; they share nothing but the control block in memory, so each  *)
(* access to the other side's offset is a step of its own.  On the target  *)
(* SEGGER_RTT_LOCK makes a call exclude the other calls, so there is one   *)
(* call at a time on either side.                                          *)
(***************************************************************************)
EXTENDS Ring, SequencesExt

CONSTANTS Size,         \* SizeOfBuffer
          Symbols,      \* how many different bytes texts are made of
          Lengths,      \* of texts and of reads
          OutLengths,   \* of texts for another terminal
          Terminals, NewModes,
          MaxCalls      \* bound on the calls that write or set a mode

ASSUME RttAssumption ==
  /\ Size \in Nat /\ Size > 1 /\ Symbols \in 1 .. 48
  /\ Lengths \subseteq Nat /\ OutLengths \subseteq Nat /\ Terminals \subseteq Nat
  /\ NewModes \subseteq 0 .. 3

VARIABLES use,          \* which calls are made: "up", "drain" or "down"
          buf, WrOff, RdOff, Flags,
          _ActiveTerminal,
          w,            \* the call that writes: its pieces still to write
          r,            \* the call that reads
          fifo,         \* bytes published and not read: <<byte, terminal meant>>
          host,         \* of the probe's terminal window: the terminal, escaped
          texts,        \* bytes of text so far, modulo Symbols
          calls         \* counted for the bound

rttVars == <<use, buf, WrOff, RdOff, Flags, _ActiveTerminal, w, r, fifo, host, texts, calls>>

SEGGER_RTT_MODE_NO_BLOCK_SKIP == 0
SEGGER_RTT_MODE_NO_BLOCK_TRIM == 1
SEGGER_RTT_MODE_BLOCK_IF_FIFO_FULL == 2
SEGGER_RTT_MODE_MASK == 3
Modes == 0 .. SEGGER_RTT_MODE_MASK

\* 0xFF starts a terminal switch; '0' is 48 and 'A' is 65.
ESC == 255
NumTerminals == 16
_aTerminalId(t) == IF t < 10 THEN 48 + t ELSE 55 + t

Least(m, n) == IF m < n THEN m ELSE n
Raw(items) == [i \in DOMAIN items |-> items[i][1]]
-----------------------------------------------------------------------------
_GetAvailWriteSpace ==
  IF RdOff <= WrOff THEN Size - 1 - WrOff + RdOff ELSE RdOff - WrOff - 1

\* The memcpys from offset at on, the second one from the start of the buffer.
Put(at, bytes) ==
  [i \in Slot(Size) |-> LET k == count(i, at, Size)
                        IN  IF k < Len(bytes) THEN bytes[k + 1] ELSE buf[i]]

\* A call writes its pieces in order: a single one by _WriteNoCheck, at once,
\* or each by _WriteBlocking, in the chunks there is room for.
NoCheck(items) == [pieces |-> <<items>>, blocking |-> FALSE]
Blocking(items) == [pieces |-> <<items>>, blocking |-> TRUE]
Nothing == [pieces |-> << >>, blocking |-> FALSE]
Idle == [pieces |-> << >>, blocking |-> FALSE, stored |-> -1, mayWait |-> FALSE]

Begin(writes) ==
  /\ w = Idle /\ calls < MaxCalls
  /\ calls' = calls + 1
  /\ w' = IF writes.pieces = << >> THEN Idle
          ELSE [pieces |-> writes.pieces, blocking |-> writes.blocking, stored |-> -1,
                mayWait |-> Flags = SEGGER_RTT_MODE_BLOCK_IF_FIFO_FULL]
  /\ UNCHANGED <<use, buf, WrOff, RdOff, Flags, r, fifo, host>>

\* Copies the next chunk.  _WriteBlocking reads RdOff again for each of them,
\* stops at the end of the buffer, and loops as long as there is no room.
Store ==
  /\ w.pieces # << >> /\ w.stored = -1
  /\ LET p == Head(w.pieces)
         n == IF w.blocking
              THEN Least(Least(_GetAvailWriteSpace, Size - WrOff), Len(p))
              ELSE Len(p)
     IN  /\ n > 0 \/ p = << >>
         /\ buf' = Put(WrOff, Raw(SubSeq(p, 1, n)))
         /\ w' = [w EXCEPT !.stored = n]
  /\ UNCHANGED <<use, WrOff, RdOff, Flags, _ActiveTerminal, r, fifo, host, texts, calls>>

\* Faulty variant (validates EveryCallReturns): WrOff stays at the end.
_WriteBlockingEnd_unwrapped(n) == WrOff + n

_WriteBlockingEnd(n) == IF WrOff + n = Size THEN 0 ELSE WrOff + n
_WriteNoCheckEnd(n) == IF Size - WrOff > n THEN WrOff + n ELSE n - (Size - WrOff)

\* Only now does the reader see the chunk.
Publish ==
  /\ w.stored # -1
  /\ LET p == Head(w.pieces)
         left == SubSeq(p, w.stored + 1, Len(p))
         more == IF left = << >> THEN Tail(w.pieces) ELSE <<left>> \o Tail(w.pieces)
     IN  /\ WrOff' = IF w.blocking THEN _WriteBlockingEnd(w.stored)
                     ELSE _WriteNoCheckEnd(w.stored)
         /\ fifo' = fifo \o SubSeq(p, 1, w.stored)
         /\ w' = IF more = << >> THEN Idle ELSE [w EXCEPT !.pieces = more, !.stored = -1]
  /\ UNCHANGED <<use, buf, RdOff, Flags, _ActiveTerminal, r, host, texts, calls>>
-----------------------------------------------------------------------------
(* The calls that write.  A text is meant for a terminal.                  *)
Text(n, t) == [i \in 1 .. n |-> <<(texts + i) % Symbols, t>>] \o << >>
Say(n, writes) ==
  /\ Begin(writes)
  /\ texts' = (texts + n) % Symbols
  /\ UNCHANGED _ActiveTerminal

SEGGER_RTT_WriteNoLock(data) ==
  CASE Flags = SEGGER_RTT_MODE_NO_BLOCK_SKIP ->
         IF _GetAvailWriteSpace < Len(data) THEN Nothing ELSE NoCheck(data)
    [] Flags = SEGGER_RTT_MODE_NO_BLOCK_TRIM ->
         NoCheck(SubSeq(data, 1, Least(_GetAvailWriteSpace, Len(data))))
    [] Flags = SEGGER_RTT_MODE_BLOCK_IF_FIFO_FULL -> Blocking(data)
    [] OTHER -> Nothing

\* The same, on the ring of a down buffer and on behalf of the probe.
SEGGER_RTT_WriteDownBufferNoLock(data) == SEGGER_RTT_WriteNoLock(data)

SEGGER_RTT_Write(n) == Say(n, SEGGER_RTT_WriteNoLock(Text(n, _ActiveTerminal)))
SEGGER_RTT_WriteString(n) == SEGGER_RTT_Write(n)
SEGGER_RTT_WriteDownBuffer(n) ==
  Say(n, SEGGER_RTT_WriteDownBufferNoLock(Text(n, _ActiveTerminal)))

\* Faulty variant (validates RingIsFifo): the slot that stays free is counted.
SEGGER_RTT_WriteSkipNoLock_full(n) ==
  LET Avail == IF RdOff <= WrOff THEN Size - WrOff ELSE RdOff - WrOff - 1
      fits == Avail >= n \/ (RdOff <= WrOff /\ Avail + RdOff >= n)
  IN  Say(n, IF fits THEN NoCheck(Text(n, _ActiveTerminal)) ELSE Nothing)

\* Its own tests for room: up to the end of the buffer, then around it.
SEGGER_RTT_WriteSkipNoLock(n) ==
  LET Avail == IF RdOff <= WrOff THEN Size - WrOff - 1 ELSE RdOff - WrOff - 1
      fits == Avail >= n \/ (RdOff <= WrOff /\ Avail + RdOff >= n)
  IN  Say(n, IF fits THEN NoCheck(Text(n, _ActiveTerminal)) ELSE Nothing)

NextOff == IF WrOff + 1 = Size THEN 0 ELSE WrOff + 1
SEGGER_RTT_PutCharSkipNoLock ==
  Say(1, IF NextOff # RdOff THEN NoCheck(Text(1, _ActiveTerminal)) ELSE Nothing)
SEGGER_RTT_PutCharSkip == SEGGER_RTT_PutCharSkipNoLock

\* Spins until the byte fits, with the lock held, if the mode is to block.
SEGGER_RTT_PutChar ==
  Say(1, IF Flags = SEGGER_RTT_MODE_BLOCK_IF_FIFO_FULL
         THEN Blocking(Text(1, _ActiveTerminal))
         ELSE IF NextOff # RdOff THEN NoCheck(Text(1, _ActiveTerminal)) ELSE Nothing)

Switch(t) == <<<<ESC, -1>>, <<_aTerminalId(t), -1>>>>
_PostTerminalSwitch(t) == <<Switch(t)>>

\* Faulty variant (validates TextOnItsTerminal): the switch is taken for sent.
SEGGER_RTT_SetTerminal_unsent(t) ==
  /\ Begin(IF _GetAvailWriteSpace >= 2 THEN NoCheck(Switch(t)) ELSE Nothing)
  /\ _ActiveTerminal' = t
  /\ UNCHANGED texts

SEGGER_RTT_SetTerminal(t) ==
  LET blocks == Flags = SEGGER_RTT_MODE_BLOCK_IF_FIFO_FULL
      done == t < NumTerminals /\ (blocks \/ _GetAvailWriteSpace >= 2)
  IN  /\ Begin(IF ~done THEN Nothing
               ELSE IF blocks THEN Blocking(Switch(t)) ELSE NoCheck(Switch(t)))
      /\ _ActiveTerminal' = IF done THEN t ELSE _ActiveTerminal
      /\ UNCHANGED texts

\* To the terminal, and back again.
Framed(t, text) ==
  [pieces |-> _PostTerminalSwitch(t) \o <<text>> \o _PostTerminalSwitch(_ActiveTerminal),
   blocking |-> TRUE]

\* Faulty variant (validates NonBlockingNeverWaits): room for one switch.
SEGGER_RTT_TerminalOut_oneSwitch(t, n) ==
  Say(n, IF t >= NumTerminals \/ _GetAvailWriteSpace < n + 2 THEN Nothing
         ELSE Framed(t, Text(n, t)))

\* The whole text, or as much of it as the mode allows.
TerminalText(Avail, t, n) ==
  CASE Flags = SEGGER_RTT_MODE_NO_BLOCK_SKIP ->
         IF Avail < n + 4 THEN Nothing ELSE Framed(t, Text(n, t))
    [] Flags = SEGGER_RTT_MODE_NO_BLOCK_TRIM ->
         IF Avail < 4 THEN Nothing ELSE Framed(t, Text(Least(n, Avail - 4), t))
    [] Flags = SEGGER_RTT_MODE_BLOCK_IF_FIFO_FULL -> Framed(t, Text(n, t))
    [] OTHER -> Nothing

SEGGER_RTT_TerminalOut(t, n) ==
  Say(n, IF t < NumTerminals THEN TerminalText(_GetAvailWriteSpace, t, n) ELSE Nothing)

\* Takes from the reader what it needs.  Not to be called while the probe may
\* read.  At most Size - 1 bytes, so that the loop wraps once at most.
SEGGER_RTT_WriteWithOverwriteNoLock(n) ==
  LET Avail == IF WrOff = RdOff THEN Size - 1
               ELSE IF WrOff < RdOff THEN RdOff - WrOff - 1 ELSE RdOff - WrOff - 1 + Size
      lost == IF n > Avail THEN n - Avail ELSE 0
      data == Text(n, _ActiveTerminal)
  IN  /\ w = Idle /\ n < Size /\ calls < MaxCalls
      /\ calls' = calls + 1
      /\ RdOff' = (RdOff + lost) % Size
      /\ buf' = Put(WrOff, Raw(data))
      /\ WrOff' = IF Size - WrOff > n THEN WrOff + n ELSE n - (Size - WrOff)
      /\ fifo' = SubSeq(fifo, lost + 1, Len(fifo)) \o data
      /\ texts' = (texts + n) % Symbols
      /\ UNCHANGED <<use, Flags, _ActiveTerminal, w, r, host>>
-----------------------------------------------------------------------------
(* The calls that read: a sample of both offsets, then the copies.         *)
Still == [pc |-> "idle"]

Sample(n, waits) ==
  /\ r' = [pc |-> "sampled", rd |-> RdOff, wr |-> WrOff, n |-> n, waits |-> waits]
  /\ UNCHANGED <<use, buf, WrOff, RdOff, Flags, _ActiveTerminal, w, fifo, host, texts, calls>>

\* How many bytes up to the end of the buffer, and then how many from there.
\* If the first stop short of the end there is no room for more.
Taken(rd, wr, n) ==
  LET first == IF rd > wr THEN Least(Size - rd, n) ELSE 0
      from == IF rd > wr /\ rd + first = Size THEN 0 ELSE rd + first
      rest == IF n = first THEN 0 ELSE Least(wr - from, n - first)
  IN  [n |-> first + rest, RdOff |-> from + rest]

SEGGER_RTT_ReadUpBufferNoLock ==
  LET t == Taken(r.rd, r.wr, r.n) IN
    [RdOff |-> t.RdOff, data |-> [i \in 1 .. t.n |-> buf[(r.rd + i - 1) % Size]] \o << >>]

\* The same on the ring of a down buffer.
SEGGER_RTT_ReadNoLock ==
  LET t == Taken(r.rd, r.wr, r.n) IN
    [RdOff |-> t.RdOff, data |-> [i \in 1 .. t.n |-> buf[(r.rd + i - 1) % Size]] \o << >>]

ReadResult == IF use = "down" THEN SEGGER_RTT_ReadNoLock ELSE SEGGER_RTT_ReadUpBufferNoLock

\* The probe's window: a byte that is not part of a switch is shown.
Shows(h, byte) == ~h.escaped /\ byte # ESC
Hear(h, byte) ==
  CASE h.escaped -> [escaped |-> FALSE,
                     terminal |-> IF byte < 58 THEN byte - 48 ELSE byte - 55]
    [] ~h.escaped /\ byte = ESC -> [escaped |-> TRUE, terminal |-> h.terminal]
    [] OTHER -> h

\* A window h after each of the bytes.
Hearing(h, bytes) ==
  LET after[i \in 0 .. Len(bytes)] ==
        IF i = 0 THEN h ELSE Hear(after[i - 1], bytes[i])
  IN  after

\* Only now may the writer use the slots again.  SEGGER_RTT_WaitKey tries
\* again if there was nothing to read.
CopyAndRelease ==
  /\ r.pc = "sampled"
  /\ LET got == ReadResult
     IN  /\ RdOff' = IF got.data = << >> THEN RdOff ELSE got.RdOff
         /\ r' = IF r.waits /\ got.data = << >> THEN [pc |-> "again"] ELSE Still
         /\ fifo' = SubSeq(fifo, Len(got.data) + 1, Len(fifo))
         /\ host' = Hearing(host, got.data)[Len(got.data)]
  /\ UNCHANGED <<use, buf, WrOff, Flags, _ActiveTerminal, w, texts, calls>>

SEGGER_RTT_Read(n) == r = Still /\ Sample(n, FALSE)
SEGGER_RTT_ReadUpBuffer(n) == r = Still /\ Sample(n, FALSE)
SEGGER_RTT_GetKey == r = Still /\ Sample(1, FALSE)
SEGGER_RTT_WaitKey == r = Still /\ Sample(1, TRUE)
Again == r.pc = "again" /\ Sample(1, TRUE)

SEGGER_RTT_HasKey == IF RdOff # WrOff THEN 1 ELSE 0
SEGGER_RTT_HasData == WrOff - RdOff     \* modulo 2^32: only 0 has a meaning
SEGGER_RTT_HasDataUp == WrOff - RdOff
SEGGER_RTT_GetAvailWriteSpace == _GetAvailWriteSpace
SEGGER_RTT_GetBytesInBuffer ==
  IF RdOff <= WrOff THEN WrOff - RdOff ELSE Size - (WrOff - RdOff)

\* SEGGER_RTT_SetFlagsUpBuffer and SEGGER_RTT_SetFlagsDownBuffer
SetFlags(f) ==
  /\ w = Idle /\ calls < MaxCalls
  /\ Flags' = f
  /\ calls' = calls + 1
  /\ UNCHANGED <<use, buf, WrOff, RdOff, _ActiveTerminal, w, r, fifo, host, texts>>
-----------------------------------------------------------------------------
RttInit ==
  /\ use \in {"up", "drain", "down"}
  /\ buf = [i \in Slot(Size) |-> 0] /\ WrOff = 0 /\ RdOff = 0
  /\ Flags \in Modes         \* SEGGER_RTT_MODE_DEFAULT, for the project to set
  /\ _ActiveTerminal = 0
  /\ w = Idle /\ r = Still
  /\ fifo = << >>
  /\ host = [terminal |-> 0, escaped |-> FALSE]
  /\ texts = 0 /\ calls = 0

\* The target writes and the probe reads, as ReadUpBufferNoLock does.
UpCall ==
  \/ \E n \in Lengths : SEGGER_RTT_WriteString(n)
  \/ SEGGER_RTT_PutChar
  \/ SEGGER_RTT_PutCharSkip
  \/ \E t \in Terminals : SEGGER_RTT_SetTerminal(t)
  \/ \E t \in Terminals, n \in OutLengths : SEGGER_RTT_TerminalOut(t, n)
  \/ \E f \in NewModes : SetFlags(f)
ProbeReads == \E n \in Lengths \ {0} : SEGGER_RTT_ReadUpBuffer(n)

\* No probe: the target reads its own up buffer, under the lock.
DrainCall ==
  /\ w = Idle /\ r = Still
  /\ \/ \E n \in Lengths : SEGGER_RTT_WriteSkipNoLock(n)
     \/ \E n \in Lengths : SEGGER_RTT_WriteWithOverwriteNoLock(n)
     \/ SEGGER_RTT_PutCharSkipNoLock
     \/ \E n \in Lengths : SEGGER_RTT_ReadUpBuffer(n)

\* The probe writes and the target reads.
DownCall ==
  \/ \E n \in Lengths : SEGGER_RTT_WriteDownBuffer(n)
  \/ \E n \in Lengths : SEGGER_RTT_Read(n)
  \/ SEGGER_RTT_GetKey
  \/ SEGGER_RTT_WaitKey
  \/ \E f \in NewModes : SetFlags(f)

Writer == Store \/ Publish
Reader == CopyAndRelease \/ Again

RttNext ==
  \/ use = "up" /\ (UpCall \/ ProbeReads)
  \/ use = "drain" /\ DrainCall
  \/ use = "down" /\ DownCall
  \/ Writer
  \/ Reader

RttSpec == RttInit /\ [][RttNext]_rttVars

\* What is called runs on, and an attached probe polls the up buffer.
RttFairness ==
  /\ WF_rttVars(Writer)
  /\ WF_rttVars(Reader)
  /\ WF_rttVars(use = "up" /\ ProbeReads)
-----------------------------------------------------------------------------
Unread == Bytes(buf, WrOff, RdOff, Size)

\* The ring holds the bytes published and not read, in order, however the two
\* sides interleave; a reader copies the oldest of them, whatever is written
\* between its sample of the offsets and the copy; and what the calls that
\* only ask tell is true of them, of GetBytesInBuffer as long as the bytes do
\* not wrap around.
RingIsFifo ==
  /\ Unread = Raw(fifo)
  /\ r.pc = "sampled" =>
       LET data == ReadResult.data IN data = Raw(SubSeq(fifo, 1, Len(data)))
  /\ SEGGER_RTT_GetAvailWriteSpace = Size - 1 - Len(fifo)
  /\ (SEGGER_RTT_HasKey = 1) = (fifo # << >>)
  /\ (SEGGER_RTT_HasData # 0) = (fifo # << >>) /\ (SEGGER_RTT_HasDataUp # 0) = (fifo # << >>)
  /\ RdOff <= WrOff => SEGGER_RTT_GetBytesInBuffer = Len(fifo)

\* "Number of bytes that are used in the buffer", as the comment of
\* SEGGER_RTT_GetBytesInBuffer has it, where they wrap around, too.
BytesInBufferAreUsed == SEGGER_RTT_GetBytesInBuffer = Len(fifo)

\* Every byte of a text comes out on the terminal it was meant for, and no
\* byte of a switch comes out: a trimmed or a skipped call writes whole
\* switches, and SEGGER_RTT_TerminalOut goes back to the active terminal.
Meant(h, item) ==
  /\ Shows(h, item[1]) = (item[2] # -1)
  /\ item[2] # -1 => item[2] = h.terminal

TextOnItsTerminal ==
  LET after == Hearing(host, Unread)
  IN  \A i \in 1 .. Len(fifo) : Meant(after[i - 1], fifo[i])

\* A call that must not block never finds the ring without room for what it
\* still has to write, though it may have asked long before it writes.
NonBlockingNeverWaits ==
  ~w.mayWait => Len(FlattenSeq(w.pieces)) <= _GetAvailWriteSpace

\* A call that blocks while the ring is full returns, however long its text,
\* because the probe goes on reading; SEGGER_RTT_WaitKey returns once there is
\* a key, even if it comes just after the offsets were sampled.
EveryCallReturns ==
  /\ (use = "up" /\ w # Idle) ~> w = Idle
  /\ (r # Still /\ fifo # << >>) ~> r = Still
-----------------------------------------------------------------------------
(* The inductive invariant behind the first three.                         *)
Item == (0 .. 255) \X Int
HostWindow == [terminal : Int, escaped : BOOLEAN]
Sampled == [pc : {"sampled"}, rd : Slot(Size), wr : Slot(Size), n : Nat, waits : BOOLEAN]

RttTypeOK ==
  /\ use \in {"up", "drain", "down"}
  /\ buf \in Storage(Size, 0 .. 255) /\ WrOff \in Slot(Size) /\ RdOff \in Slot(Size)
  /\ Flags \in Modes /\ _ActiveTerminal \in 0 .. NumTerminals - 1
  /\ w \in [pieces : Seq(Seq(Item)), blocking : BOOLEAN, stored : Nat \cup {-1},
             mayWait : BOOLEAN]
  /\ r \in {Still, [pc |-> "again"]} \cup Sampled
  /\ fifo \in Seq(Item) /\ host \in HostWindow
  /\ texts \in 0 .. Symbols - 1 /\ calls \in Nat

\* A chunk lies in free slots, complete or up to the end of the buffer.
ChunkIsStored ==
  w.stored # -1 =>
    /\ w.pieces # << >> /\ w.stored <= Len(Head(w.pieces))
    /\ Len(fifo) + w.stored < Size
    /\ \A k \in 1 .. w.stored : buf[(WrOff + k - 1) % Size] = Head(w.pieces)[k][1]
    /\ IF w.blocking THEN WrOff + w.stored <= Size ELSE w.stored = Len(Head(w.pieces))

\* The writer may have gone on since the sample, the reader has not.
SampleIsOld == r.pc = "sampled" => r.rd = RdOff /\ count(r.wr, r.rd, Size) <= Len(fifo)

\* From h on, each item is heard as it is meant, and then t is the terminal.
IsHeard(h, items, t) ==
  LET after == Hearing(h, Raw(items))
  IN  /\ \A i \in 1 .. Len(items) : Meant(after[i - 1], items[i])
      /\ after[Len(items)] = [terminal |-> t, escaped |-> FALSE]

\* What the window still has to hear of the calls made.
Coming == fifo \o FlattenSeq(w.pieces)

\* Room was found for what is written without a further test for it.
RoomWasFound ==
  /\ ~w.blocking => Len(w.pieces) <= 1
  /\ ~w.mayWait \/ ~w.blocking => Len(Coming) < Size

\* Nothing switches terminals where bytes are overwritten.
Plain(items, t) == \A i \in 1 .. Len(items) : items[i][1] # ESC /\ items[i][2] = t
StreamIsHeard ==
  /\ IsHeard(host, Coming, _ActiveTerminal)
  /\ use = "drain" => host = [terminal |-> _ActiveTerminal, escaped |-> FALSE]
                      /\ Plain(Coming, _ActiveTerminal)

RttInv ==
  /\ RttTypeOK /\ Unread = Raw(fifo)
  /\ ChunkIsStored /\ SampleIsOld /\ RoomWasFound /\ StreamIsHeard
=============================================================================
