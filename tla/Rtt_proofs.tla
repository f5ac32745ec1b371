----------------------------- MODULE Rtt_proofs -----------------------------
(***************************************************************************)
(* Proofs about RttControl and SeggerRtt, for every number of buffers,     *)
(* every size of a ring and every set of calls.                            *)
(***************************************************************************)
EXTENDS SeggerRtt, RttControl, SequenceLemmas

-----------------------------------------------------------------------------
(* The control block.                                                      *)

\* Either table has a slot for the terminal.
LEMMA TableFacts ==
  ASSUME NEW t \in Tables
  PROVE  MaxNum[t] \in Nat \ {0} /\ 0 \in Indices(t)
<1>1. \/ t = "up" /\ MaxNum[t] = SEGGER_RTT_MAX_NUM_UP_BUFFERS
      \/ t = "down" /\ MaxNum[t] = SEGGER_RTT_MAX_NUM_DOWN_BUFFERS
  BY DEF Tables, MaxNum
<1>2. MaxNum[t] \in Nat \ {0}
  BY <1>1, ControlAssumption
<1> QED
  BY <1>2 DEF Indices

LEMMA ControlInitInv == ControlInit => ControlInv
<1> SUFFICES ASSUME ControlInit PROVE ControlInv
  OBVIOUS
<1>1. /\ acID = FALSE /\ ready = FALSE /\ slots = Empty /\ configs = 0
      /\ call = [c \in Contexts |-> None]
      /\ allotted = [t \in Tables |-> [i \in Indices(t) |-> << >>]]
  BY DEF ControlInit, Unallotted
<1>2. Unset \in SlotRecord
  BY DEF Unset, SlotRecord
<1>3. ASSUME NEW t \in Tables
      PROVE  /\ slots[t] \in [Indices(t) -> SlotRecord]
             /\ allotted[t] \in [Indices(t) -> Seq(Buffers)]
             /\ \A i \in Indices(t) : allotted[t][i] = << >>
  BY <1>1, <1>2 DEF Empty
<1>4. DOMAIN slots = Tables /\ DOMAIN allotted = Tables
  BY <1>1 DEF Empty
<1>5. \A c \in Contexts : call[c] = None /\ call[c].pc = "none"
  BY <1>1 DEF None
<1>6. ControlTypeOK
  BY <1>1, <1>3, <1>4 DEF ControlTypeOK
<1>7. Initialised /\ Locked /\ Offered /\ SlotsStayAllocated
  BY <1>1, <1>3, <1>5 DEF Initialised, Locked, Offered, SlotsStayAllocated, Contexts
<1> QED
  BY <1>6, <1>7 DEF ControlInv

\* A call begins: it touches nothing but the context it runs in.
LEMMA BeginCallInv ==
  ASSUME ~EarlyInterrupts, ControlInv, NEW c \in Contexts, NEW op, BeginCall(c, op),
         [op EXCEPT !.pc = "check"] \in
           [pc : {"check"}, do : {"alloc", "config", "name", "flags"},
            table : Tables, index : Nat, given : SlotRecord],
         op.do = "alloc" => op.given.pBuffer \in Buffers
  PROVE  ControlInv'
<1> DEFINE new == [op EXCEPT !.pc = "check"]
<1>1. /\ call[c] = None /\ Runs(c) /\ (c = "interrupt" => ready /\ ~SEGGER_RTT_LOCK)
      /\ configs' = configs + 1 /\ call' = [call EXCEPT ![c] = new]
      /\ acID' = acID /\ slots' = slots /\ ready' = ready /\ allotted' = allotted
  BY DEF BeginCall, Enters
<1>2. new.pc = "check" /\ new.do = op.do /\ new.given = op.given
  OBVIOUS
<1>3. new \in [pc : {"check", "init", "locking", "scan"},
               do : {"alloc", "config", "name", "flags"},
               table : Tables, index : Nat, given : SlotRecord]
  OBVIOUS
<1> HIDE DEF new
<1>4. ControlTypeOK'
  BY <1>1, <1>3 DEF ControlInv, ControlTypeOK
<1>5. call'[c] = new /\ \A d \in Contexts : d # c => call'[d] = call[d]
  BY <1>1 DEF ControlInv, ControlTypeOK
<1>6. Initialised'
  BY <1>1, <1>2, <1>5 DEF ControlInv, Initialised
<1>7. Locked'
  <2>1. call'["interrupt"] # None => ready' /\ call'["main"].pc # "scan"
    BY <1>1, <1>2, <1>5 DEF ControlInv, Locked, SEGGER_RTT_LOCK, Contexts
  <2> QED
    BY <1>1, <1>2, <1>5, <2>1 DEF ControlInv, Locked
<1>8. Offered'
  BY <1>1, <1>2, <1>5 DEF ControlInv, Offered
<1> QED
  BY <1>1, <1>4, <1>6, <1>7, <1>8 DEF ControlInv, SlotsStayAllocated

LEMMA CallsInv ==
  ASSUME ~EarlyInterrupts, ControlInv, NEW c \in Contexts, Calls(c)
  PROVE  ControlInv'
<1> DEFINE OK(op) == /\ [op EXCEPT !.pc = "check"] \in
                          [pc : {"check"}, do : {"alloc", "config", "name", "flags"},
                           table : Tables, index : Nat, given : SlotRecord]
                     /\ op.do = "alloc" => op.given.pBuffer \in Buffers
<1>1. ASSUME NEW b \in Buffers PROVE Given(b) \in SlotRecord /\ Given(b).pBuffer = b
  BY DEF Given, SlotRecord
<1>2. ASSUME NEW f \in NewFlags PROVE [Unset EXCEPT !.Flags = f] \in SlotRecord
  BY DEF Unset, SlotRecord
<1>3. ASSUME NEW do \in {"config", "name", "flags"}, NEW t \in Tables, NEW i \in Nat,
             NEW g \in SlotRecord
      PROVE  OK(Op(do, t, i, g))
  BY DEF Op
<1>4. ASSUME NEW t \in Tables, NEW b \in Buffers
      PROVE  OK(Op("alloc", t, 0, Given(b)))
  BY <1>1 DEF Op
<1>5. /\ "up" \in Tables /\ "down" \in Tables
      /\ 0 .. SEGGER_RTT_MAX_NUM_UP_BUFFERS \subseteq Nat
      /\ 0 .. SEGGER_RTT_MAX_NUM_DOWN_BUFFERS \subseteq Nat
  BY DEF Tables
<1>6. PICK op : BeginCall(c, op) /\ OK(op)
  <2> HIDE DEF OK
  <2>1. ASSUME NEW b \in Buffers,
               SEGGER_RTT_AllocUpBuffer(c, b) \/ SEGGER_RTT_AllocDownBuffer(c, b)
        PROVE  \E op : BeginCall(c, op) /\ OK(op)
    BY <1>4, <1>5, <2>1 DEF SEGGER_RTT_AllocUpBuffer, SEGGER_RTT_AllocDownBuffer
  <2>2. ASSUME NEW b \in Buffers, NEW i \in Nat,
               \/ SEGGER_RTT_ConfigUpBuffer(c, i, b) \/ SEGGER_RTT_SetNameUpBuffer(c, i, b)
               \/ SEGGER_RTT_ConfigDownBuffer(c, i, b) \/ SEGGER_RTT_SetNameDownBuffer(c, i, b)
        PROVE  \E op : BeginCall(c, op) /\ OK(op)
    BY <1>1, <1>3, <1>5, <2>2
       DEF SEGGER_RTT_ConfigUpBuffer, SEGGER_RTT_SetNameUpBuffer,
           SEGGER_RTT_ConfigDownBuffer, SEGGER_RTT_SetNameDownBuffer
  <2>3. ASSUME NEW f \in NewFlags, NEW i \in Nat,
               SEGGER_RTT_SetFlagsUpBuffer(c, i, f) \/ SEGGER_RTT_SetFlagsDownBuffer(c, i, f)
        PROVE  \E op : BeginCall(c, op) /\ OK(op)
    BY <1>2, <1>3, <1>5, <2>3 DEF SEGGER_RTT_SetFlagsUpBuffer, SEGGER_RTT_SetFlagsDownBuffer
  <2> QED
    BY <1>5, <2>1, <2>2, <2>3 DEF Calls
<1> QED
  BY <1>6, BeginCallInv

\* INIT finds the block initialised, or not.
LEMMA CheckInv ==
  ASSUME ControlInv, NEW c \in Contexts, INIT(c)
  PROVE  ControlInv'
<1>1. /\ call[c].pc = "check" /\ Runs(c)
      /\ call' = [call EXCEPT ![c].pc = IF acID THEN "locking" ELSE "init"]
      /\ acID' = acID /\ slots' = slots /\ ready' = ready /\ allotted' = allotted /\ configs' = configs
  BY DEF INIT, At, Goto
<1>2. call[c] # None
  BY <1>1 DEF None
<1>3. PICK new : /\ new = [call[c] EXCEPT !.pc = IF acID THEN "locking" ELSE "init"]
                 /\ call' = [call EXCEPT ![c] = new]
  BY <1>1
<1>4. /\ new \in [pc : {"check", "init", "locking", "scan"},
                  do : {"alloc", "config", "name", "flags"},
                  table : Tables, index : Nat, given : SlotRecord]
      /\ new.pc = (IF acID THEN "locking" ELSE "init")
      /\ new.do = call[c].do /\ new.given = call[c].given
  BY <1>2, <1>3 DEF ControlInv, ControlTypeOK
<1>5. ControlTypeOK'
  BY <1>1, <1>3, <1>4 DEF ControlInv, ControlTypeOK
<1>6. call'[c] = new /\ \A d \in Contexts : d # c => call'[d] = call[d]
  BY <1>3 DEF ControlInv, ControlTypeOK
<1>7. Initialised'
  BY <1>1, <1>4, <1>6 DEF ControlInv, Initialised
<1>8. Locked'
  <2>1. new.pc # "scan"
    BY <1>4
  <2>2. call["interrupt"] # None => ready /\ call["main"].pc # "scan"
    BY DEF ControlInv, Locked
  <2>3. call'["interrupt"] # None => ready' /\ call'["main"].pc # "scan"
    <3>1. CASE c = "main"
      BY <1>1, <1>6, <2>1, <2>2, <3>1 DEF Contexts
    <3>2. CASE c = "interrupt"
      BY <1>1, <1>2, <1>6, <2>2, <3>2 DEF Contexts
    <3> QED
      BY <3>1, <3>2 DEF Contexts
  <2>4. ASSUME NEW d \in Contexts, call'[d].pc = "scan"
        PROVE  d # c /\ call'[d] = call[d]
    BY <1>6, <2>1, <2>4
  <2> QED
    BY <1>1, <2>3, <2>4 DEF ControlInv, Locked
<1>9. Offered'
  BY <1>1, <1>2, <1>4, <1>6 DEF ControlInv, Offered
<1> QED
  BY <1>1, <1>5, <1>7, <1>8, <1>9 DEF ControlInv, SlotsStayAllocated

\* The fresh tables: the terminal's slots, and free ones.
LEMMA FreshIs ==
  /\ DOMAIN Fresh = Tables
  /\ \A t \in Tables : /\ Fresh[t] \in [Indices(t) -> SlotRecord]
                       /\ Fresh[t][0].pBuffer = "Terminal"
<1>1. Unset \in SlotRecord /\ Terminal \in SlotRecord /\ Terminal.pBuffer = "Terminal"
  BY DEF Unset, Terminal, SlotRecord
<1>2. ASSUME NEW t \in Tables
      PROVE  Fresh[t] \in [Indices(t) -> SlotRecord] /\ Fresh[t][0].pBuffer = "Terminal"
  BY <1>1, TableFacts DEF Fresh
<1> QED
  BY <1>2 DEF Fresh

LEMMA DoInitInv ==
  ASSUME ControlInv, NEW c \in Contexts, _DoInit(c)
  PROVE  ControlInv'
<1>1. /\ call[c].pc = "init" /\ Runs(c)
      /\ call' = [call EXCEPT ![c].pc = "locking"]
      /\ slots' = Fresh /\ acID' = TRUE
      /\ ready' = ready /\ allotted' = allotted /\ configs' = configs
  BY DEF _DoInit, At, Goto
<1>2. call[c] # None
  BY <1>1 DEF None
<1>3. PICK new : new = [call[c] EXCEPT !.pc = "locking"] /\ call' = [call EXCEPT ![c] = new]
  BY <1>1
<1>4. /\ new \in [pc : {"check", "init", "locking", "scan"},
                  do : {"alloc", "config", "name", "flags"},
                  table : Tables, index : Nat, given : SlotRecord]
      /\ new.pc = "locking" /\ new.do = call[c].do /\ new.given = call[c].given
  BY <1>2, <1>3 DEF ControlInv, ControlTypeOK
<1>5. ControlTypeOK'
  BY <1>1, <1>3, <1>4, FreshIs DEF ControlInv, ControlTypeOK
<1>6. call'[c] = new /\ \A d \in Contexts : d # c => call'[d] = call[d]
  BY <1>3 DEF ControlInv, ControlTypeOK
\* The interrupt does not call RTT before the block is initialised.
<1>7. ~acID /\ ~ready /\ call["interrupt"] = None /\ c = "main"
  BY <1>1, <1>2 DEF ControlInv, Initialised, Locked, Contexts
<1>8. call'["interrupt"] = None /\ call'["main"].pc = "locking"
      /\ call'["interrupt"].pc = "none"
  BY <1>4, <1>6, <1>7 DEF Contexts, None
<1>9. Initialised'
  BY <1>1, <1>7, <1>8 DEF Initialised, Contexts
<1>10. Locked'
  BY <1>8 DEF Locked, Contexts
<1>11. Offered'
  BY <1>1, <1>2, <1>4, <1>6 DEF ControlInv, Offered
<1>12. SlotsStayAllocated'
  BY <1>1, <1>7, FreshIs DEF ControlInv, Initialised, SlotsStayAllocated
<1> QED
  BY <1>5, <1>9, <1>10, <1>11, <1>12 DEF ControlInv

\* SEGGER_RTT_Init frees all slots: no call is at "init" or "scan" then.
LEMMA InitialiseInv ==
  ASSUME ~EarlyInterrupts, ControlInv, NEW c \in Contexts, SEGGER_RTT_Init(c)
  PROVE  ControlInv'
<1>1. /\ call[c] = None /\ Runs(c) /\ (c = "interrupt" => ready /\ ~SEGGER_RTT_LOCK)
      /\ acID' = TRUE /\ ready' = (ready \/ c = "main") /\ slots' = Fresh
      /\ call' = call /\ allotted' = Unallotted /\ configs' = configs
  BY DEF SEGGER_RTT_Init, Enters
<1>2. /\ DOMAIN allotted' = Tables
      /\ \A t \in Tables : /\ allotted'[t] \in [Indices(t) -> Seq(Buffers)]
                           /\ \A i \in Indices(t) : allotted'[t][i] = << >>
  BY <1>1 DEF Unallotted
<1>3. ControlTypeOK'
  BY <1>1, <1>2, FreshIs DEF ControlInv, ControlTypeOK
<1>4. None.pc = "none"
  BY DEF None
<1>5. \A d \in Contexts : call[d].pc # "init" /\ call[d].pc # "scan"
  BY <1>1, <1>4 DEF Contexts, Runs, SEGGER_RTT_LOCK, ControlInv, Initialised
<1>6. Initialised'
  BY <1>1, <1>2, <1>5 DEF Initialised
<1>7. Locked'
  BY <1>1, <1>5 DEF ControlInv, Locked
<1>8. Offered'
  BY <1>1 DEF ControlInv, Offered
<1>9. SlotsStayAllocated'
  BY <1>1, <1>2, FreshIs DEF SlotsStayAllocated
<1> QED
  BY <1>3, <1>6, <1>7, <1>8, <1>9 DEF ControlInv

\* The slot found has no buffer, and from here on the lock is held.
LEMMA ScanInv ==
  ASSUME ControlInv, NEW c \in Contexts, Scan(c)
  PROVE  ControlInv'
<1> DEFINE t == call[c].table
           free == {i \in DOMAIN slots[t] : slots[t][i].pBuffer = ""}
           BufferIndex == IF free = {} THEN MaxNum[t]
                          ELSE CHOOSE i \in free : \A j \in free : i <= j
<1>1. /\ call[c].pc = "locking" /\ Runs(c) /\ call[c].do = "alloc"
      /\ call' = [call EXCEPT ![c] = [@ EXCEPT !.pc = "scan", !.index = BufferIndex]]
      /\ acID' = acID /\ slots' = slots /\ ready' = ready /\ allotted' = allotted
      /\ configs' = configs
  BY DEF Scan, At
<1>2. call[c] # None
  BY <1>1 DEF None
<1>3. /\ call[c] \in [pc : {"check", "init", "locking", "scan"},
                      do : {"alloc", "config", "name", "flags"},
                      table : Tables, index : Nat, given : SlotRecord]
      /\ t \in Tables /\ DOMAIN slots[t] = Indices(t)
  <2>1. call[c] \in [pc : {"check", "init", "locking", "scan"},
                     do : {"alloc", "config", "name", "flags"},
                     table : Tables, index : Nat, given : SlotRecord]
    BY <1>2 DEF ControlInv, ControlTypeOK
  <2>2. t \in Tables
    BY <2>1
  <2> QED
    BY <2>1, <2>2 DEF ControlInv, ControlTypeOK
<1>4. BufferIndex \in Nat /\ (BufferIndex \in Indices(t) => slots[t][BufferIndex].pBuffer = "")
  <2>1. MaxNum[t] \in Nat /\ ~(MaxNum[t] \in Indices(t))
    BY <1>3, TableFacts DEF Indices
  <2>2. free \subseteq Nat
    <3>1. free \subseteq Indices(t)
      BY <1>3
    <3>2. Indices(t) \subseteq Nat
      BY <2>1 DEF Indices
    <3> QED
      BY <3>1, <3>2
  <2>3. CASE free = {}
    BY <2>1, <2>3
  <2>4. CASE free # {}
    <3>1. \E i \in free : \A j \in free : i <= j
      <4> HIDE DEF free
      <4> QED
        BY <2>2, <2>4, LeastNat
    <3>2. BufferIndex \in free
      BY <2>4, <3>1
    <3> QED
      BY <2>2, <3>2
  <2> QED
    BY <2>3, <2>4
<1> HIDE DEF BufferIndex
<1>5. PICK new : /\ new = [call[c] EXCEPT !.pc = "scan", !.index = BufferIndex]
                 /\ call' = [call EXCEPT ![c] = new]
  BY <1>1
<1>6. /\ new \in [pc : {"check", "init", "locking", "scan"},
                  do : {"alloc", "config", "name", "flags"},
                  table : Tables, index : Nat, given : SlotRecord]
      /\ new.pc = "scan" /\ new.do = "alloc" /\ new.given = call[c].given
      /\ new.table = t /\ new.index = BufferIndex
  BY <1>1, <1>3, <1>4, <1>5
<1>7. ControlTypeOK'
  BY <1>1, <1>5, <1>6 DEF ControlInv, ControlTypeOK
<1>8. call'[c] = new /\ \A d \in Contexts : d # c => call'[d] = call[d]
  BY <1>5 DEF ControlInv, ControlTypeOK
<1>9. Initialised'
  BY <1>1, <1>6, <1>8 DEF ControlInv, Initialised
<1>10. Locked'
  <2>1. call["interrupt"] # None => ready /\ call["main"].pc # "scan"
    BY DEF ControlInv, Locked
  <2>2. call'["interrupt"] # None => ready' /\ call'["main"].pc # "scan"
    <3>1. CASE c = "main"
      BY <1>1, <1>8, <3>1 DEF Contexts, Runs
    <3>2. CASE c = "interrupt"
      BY <1>1, <1>2, <1>8, <2>1, <3>2 DEF Contexts
    <3> QED
      BY <3>1, <3>2 DEF Contexts
  <2>3. ASSUME NEW d \in Contexts, call'[d].pc = "scan"
        PROVE  /\ call'[d].do = "alloc"
               /\ call'[d].index \in Indices(call'[d].table) =>
                    slots'[call'[d].table][call'[d].index].pBuffer = ""
    <3>1. CASE d = c
      BY <1>1, <1>4, <1>6, <1>8, <3>1
    <3>2. CASE d # c
      <4>1. call'[d] = call[d]
        BY <1>8, <3>2
      <4> QED
        BY <1>1, <2>3, <4>1 DEF ControlInv, Locked
    <3> QED
      BY <3>1, <3>2
  <2> QED
    BY <2>2, <2>3 DEF Locked
<1>11. Offered'
  BY <1>1, <1>2, <1>6, <1>8 DEF ControlInv, Offered
<1> QED
  BY <1>1, <1>7, <1>9, <1>10, <1>11 DEF ControlInv, SlotsStayAllocated

\* When a context returns, nobody is left at "scan".
LEMMA ReturnLocked ==
  ASSUME ControlInv, NEW c \in Contexts, Runs(c), call[c] # None, Return(c), acID' = acID,
         acID
  PROVE  /\ Initialised' /\ Locked' /\ Offered'
         /\ call' \in [Contexts -> {None} \cup
                  [pc : {"check", "init", "locking", "scan"},
                   do : {"alloc", "config", "name", "flags"},
                   table : Tables, index : Nat, given : SlotRecord]]
<1>1. call' = [call EXCEPT ![c] = None] /\ ready' = TRUE
  BY DEF Return, ControlInv, ControlTypeOK, Locked, Contexts
<1>2. call'[c] = None /\ \A d \in Contexts : d # c => call'[d] = call[d]
  BY <1>1 DEF ControlInv, ControlTypeOK
<1>3. None.pc = "none"
  BY DEF None
<1>4. Initialised'
  <2>1. \A d \in Contexts : d # c => ~(call[d].pc = "init")
    BY DEF ControlInv, Initialised
  <2> QED
    BY <1>1, <1>2, <1>3, <2>1 DEF ControlInv, Initialised
<1>5. \A d \in Contexts : call'[d].pc # "scan"
  BY <1>2, <1>3 DEF ControlInv, Locked, Runs, Contexts
<1>6. Locked'
  BY <1>1, <1>5 DEF Locked, Contexts
<1>7. Offered'
  BY <1>2 DEF ControlInv, Offered
<1>8. call' \in [Contexts -> {None} \cup
                  [pc : {"check", "init", "locking", "scan"},
                   do : {"alloc", "config", "name", "flags"},
                   table : Tables, index : Nat, given : SlotRecord]]
  BY <1>1 DEF ControlInv, ControlTypeOK
<1> QED
  BY <1>4, <1>6, <1>7, <1>8

\* Fill and Change write one slot, if there is such a slot.
LEMMA WriteSlot ==
  ASSUME ControlInv, NEW t \in Tables, NEW i \in Indices(t), NEW s \in SlotRecord,
         slots' = [slots EXCEPT ![t] = [@ EXCEPT ![i] = s]]
  PROVE  /\ DOMAIN slots' = Tables
         /\ \A u \in Tables : slots'[u] \in [Indices(u) -> SlotRecord]
         /\ \A u \in Tables : \A j \in Indices(u) :
              slots'[u][j] = IF u = t /\ j = i THEN s ELSE slots[u][j]
<1>1. DOMAIN slots = Tables /\ \A u \in Tables : slots[u] \in [Indices(u) -> SlotRecord]
  BY DEF ControlInv, ControlTypeOK
<1>2. DOMAIN slots' = Tables /\ slots'[t] = [slots[t] EXCEPT ![i] = s]
      /\ \A u \in Tables : u # t => slots'[u] = slots[u]
  BY <1>1
<1> QED
  BY <1>1, <1>2

LEMMA WriteAllotted ==
  ASSUME ControlInv, NEW t \in Tables, NEW i \in Indices(t), NEW s \in Seq(Buffers),
         allotted' = [allotted EXCEPT ![t] = [@ EXCEPT ![i] = s]]
  PROVE  /\ DOMAIN allotted' = Tables
         /\ \A u \in Tables : allotted'[u] \in [Indices(u) -> Seq(Buffers)]
         /\ \A u \in Tables : \A j \in Indices(u) :
              allotted'[u][j] = IF u = t /\ j = i THEN s ELSE allotted[u][j]
<1>1. DOMAIN allotted = Tables /\ \A u \in Tables : allotted[u] \in [Indices(u) -> Seq(Buffers)]
  BY DEF ControlInv, ControlTypeOK
<1>2. DOMAIN allotted' = Tables /\ allotted'[t] = [allotted[t] EXCEPT ![i] = s]
      /\ \A u \in Tables : u # t => allotted'[u] = allotted[u]
  BY <1>1
<1> QED
  BY <1>1, <1>2

LEMMA SingleIn ==
  ASSUME NEW S, NEW b, <<b>> \in Seq(S)
  PROVE  b \in S
<1>1. 1 \in 1 .. Len(<<b>>) /\ <<b>>[1] = b
  OBVIOUS
<1> QED
  BY <1>1, ElementOfSeq

\* Fill enters the buffer in a slot that nobody else was given.
LEMMA FillInv ==
  ASSUME ControlInv, NEW c \in Contexts, Fill(c)
  PROVE  ControlInv'
<1> DEFINE t == call[c].table
           i == call[c].index
           given == call[c].given
<1>1. call[c].pc = "scan" /\ Runs(c) /\ Return(c) /\ acID' = acID /\ configs' = configs
  BY DEF Fill, At
<1>2. call[c] # None
  BY <1>1 DEF None
<1>3. t \in Tables /\ i \in Nat /\ given \in SlotRecord /\ call[c].do = "alloc"
  <2>1. call[c] \in [pc : {"check", "init", "locking", "scan"},
                     do : {"alloc", "config", "name", "flags"},
                     table : Tables, index : Nat, given : SlotRecord]
    BY <1>2 DEF ControlInv, ControlTypeOK
  <2> QED
    BY <1>1, <2>1 DEF ControlInv, Locked
<1>4. given.pBuffer \in Buffers
  BY <1>2, <1>3 DEF ControlInv, Offered
<1>5. acID
  BY <1>1 DEF ControlInv, Initialised
<1>6. /\ Initialised' /\ Locked' /\ Offered'
      /\ call' \in [Contexts -> {None} \cup
                  [pc : {"check", "init", "locking", "scan"},
                   do : {"alloc", "config", "name", "flags"},
                   table : Tables, index : Nat, given : SlotRecord]]
  BY <1>1, <1>2, <1>5, ReturnLocked
<1>7. CASE i < MaxNum[t]
  <2>1. i \in Indices(t)
    BY <1>3, <1>7, TableFacts DEF Indices
  <2>2. slots[t][i].pBuffer = "" /\ i # 0
    <3>1. slots[t][i].pBuffer = ""
      BY <1>1, <2>1 DEF ControlInv, Locked
    <3>2. slots[t][0].pBuffer = "Terminal"
      BY <1>3, <1>5 DEF ControlInv, SlotsStayAllocated
    <3> QED
      BY <3>1, <3>2
  \* Its previous allocation, if any, was configured away since.
  <2>3. allotted[t][i] = << >>
    <3>1. allotted[t][i] = << >> \/ allotted[t][i] = <<slots[t][i].pBuffer>>
      BY <1>3, <2>1 DEF ControlInv, SlotsStayAllocated
    <3>2. allotted[t][i] \in Seq(Buffers)
      BY <1>3, <2>1 DEF ControlInv, ControlTypeOK
    <3>3. "" \notin Buffers
      BY ControlAssumption
    <3>4. <<slots[t][i].pBuffer>> \notin Seq(Buffers)
      BY <2>2, <3>3, SingleIn
    <3> QED
      BY <3>1, <3>2, <3>4
  <2>4. slots' = [slots EXCEPT ![t] = [@ EXCEPT ![i] = given]]
    BY <1>7 DEF Fill
  <2>5. Append(allotted[t][i], given.pBuffer) = <<given.pBuffer>>
    BY <2>3
  <2>6. allotted' = [allotted EXCEPT ![t] = [@ EXCEPT ![i] = <<given.pBuffer>>]]
    <3>1. allotted' = [allotted EXCEPT ![t][i] = Append(@, given.pBuffer)]
      BY <1>7 DEF Fill
    <3>2. allotted' = [allotted EXCEPT ![t] =
                        [@ EXCEPT ![i] = Append(allotted[t][i], given.pBuffer)]]
      BY <3>1
    <3> QED
      BY <2>5, <3>2
  <2>7. <<given.pBuffer>> \in Seq(Buffers)
    BY <1>4
  <2>8. /\ DOMAIN slots' = Tables
        /\ \A u \in Tables : slots'[u] \in [Indices(u) -> SlotRecord]
        /\ \A u \in Tables : \A j \in Indices(u) :
             slots'[u][j] = IF u = t /\ j = i THEN given ELSE slots[u][j]
    BY <1>3, <2>1, <2>4, WriteSlot
  <2>9. /\ DOMAIN allotted' = Tables
        /\ \A u \in Tables : allotted'[u] \in [Indices(u) -> Seq(Buffers)]
        /\ \A u \in Tables : \A j \in Indices(u) :
             allotted'[u][j] = IF u = t /\ j = i THEN <<given.pBuffer>> ELSE allotted[u][j]
    BY <1>3, <2>1, <2>6, <2>7, WriteAllotted
  <2>10. ControlTypeOK'
    BY <1>1, <1>6, <2>8, <2>9 DEF ControlInv, ControlTypeOK, Return
  <2>11. SlotsStayAllocated'
    <3>1. ASSUME NEW u \in Tables, NEW j \in Indices(u)
          PROVE  allotted'[u][j] = << >> \/ allotted'[u][j] = <<slots'[u][j].pBuffer>>
      <4>1. CASE u = t /\ j = i
        BY <2>8, <2>9, <4>1
      <4>2. CASE ~(u = t /\ j = i)
        <5>1. allotted'[u][j] = allotted[u][j] /\ slots'[u][j] = slots[u][j]
          BY <2>8, <2>9, <4>2
        <5> QED
          BY <5>1 DEF ControlInv, SlotsStayAllocated
      <4> QED
        BY <4>1, <4>2
    <3>2. ASSUME NEW u \in Tables PROVE slots'[u][0].pBuffer = "Terminal"
      BY <1>5, <2>2, <2>8, TableFacts DEF ControlInv, SlotsStayAllocated
    <3> QED
      BY <3>1, <3>2 DEF SlotsStayAllocated
  <2> QED
    BY <1>6, <2>10, <2>11 DEF ControlInv
<1>8. CASE ~(i < MaxNum[t])
  <2>1. slots' = slots /\ allotted' = allotted
    BY <1>8 DEF Fill
  <2>2. ControlTypeOK'
    BY <1>1, <1>6, <2>1 DEF ControlInv, ControlTypeOK, Return
  <2>3. SlotsStayAllocated'
    BY <1>1, <2>1 DEF ControlInv, SlotsStayAllocated
  <2> QED
    BY <1>6, <2>2, <2>3 DEF ControlInv
<1> QED
  BY <1>7, <1>8

\* What a slot becomes is a slot, and only "config" changes its buffer, never
\* that of slot 0.
LEMMA ChangedIs ==
  ASSUME NEW slot \in SlotRecord, NEW op, op.given \in SlotRecord,
         op.do \in {"config", "name", "flags"}
  PROVE  /\ Changed(slot, op) \in SlotRecord
         /\ op.do # "config" \/ op.index = 0 => Changed(slot, op).pBuffer = slot.pBuffer
<1>1. CASE op.do = "config" /\ op.index # 0
  BY <1>1 DEF Changed
<1>2. CASE op.do = "config" /\ op.index = 0
  BY <1>2 DEF Changed, SlotRecord
<1>3. CASE op.do = "name"
  BY <1>3 DEF Changed, SlotRecord
<1>4. CASE op.do = "flags"
  BY <1>4 DEF Changed, SlotRecord
<1> QED
  BY <1>1, <1>2, <1>3, <1>4

LEMMA ChangeInv ==
  ASSUME ControlInv, NEW c \in Contexts, Change(c)
  PROVE  ControlInv'
<1> DEFINE op == call[c]
           t == op.table
           i == op.index
<1>1. /\ call[c].pc = "locking" /\ Runs(c) /\ Return(c) /\ acID' = acID /\ configs' = configs
      /\ op.do # "alloc"
  BY DEF Change, At
<1>2. call[c] # None
  BY <1>1 DEF None
<1>3. t \in Tables /\ i \in Nat /\ op.given \in SlotRecord /\ op.do \in {"config", "name", "flags"}
  <2>1. call[c] \in [pc : {"check", "init", "locking", "scan"},
                     do : {"alloc", "config", "name", "flags"},
                     table : Tables, index : Nat, given : SlotRecord]
    BY <1>2 DEF ControlInv, ControlTypeOK
  <2> QED
    BY <1>1, <2>1
<1>4. acID
  BY <1>1 DEF ControlInv, Initialised
<1>5. /\ Initialised' /\ Locked' /\ Offered'
      /\ call' \in [Contexts -> {None} \cup
                  [pc : {"check", "init", "locking", "scan"},
                   do : {"alloc", "config", "name", "flags"},
                   table : Tables, index : Nat, given : SlotRecord]]
  BY <1>1, <1>2, <1>4, ReturnLocked
<1>6. CASE i < MaxNum[t]
  <2>1. i \in Indices(t)
    BY <1>3, <1>6, TableFacts DEF Indices
  <2> DEFINE new == Changed(slots[t][i], op)
  <2>2. slots[t][i] \in SlotRecord
    BY <1>3, <2>1 DEF ControlInv, ControlTypeOK
  <2>3. new \in SlotRecord /\ (op.do # "config" \/ i = 0 => new.pBuffer = slots[t][i].pBuffer)
    BY <1>3, <2>2, ChangedIs
  <2>4. slots' = [slots EXCEPT ![t] = [@ EXCEPT ![i] = new]]
    BY <1>6 DEF Change
  <2> HIDE DEF new
  <2> new \in SlotRecord
    BY <2>3
  <2>5. /\ DOMAIN slots' = Tables
        /\ \A u \in Tables : slots'[u] \in [Indices(u) -> SlotRecord]
        /\ \A u \in Tables : \A j \in Indices(u) :
             slots'[u][j] = IF u = t /\ j = i THEN new ELSE slots[u][j]
    BY <1>3, <2>1, <2>4, WriteSlot
  <2>6. /\ DOMAIN allotted' = Tables
        /\ \A u \in Tables : allotted'[u] \in [Indices(u) -> Seq(Buffers)]
        /\ \A u \in Tables : \A j \in Indices(u) :
             allotted'[u][j] = IF u = t /\ j = i /\ op.do = "config" THEN << >>
                               ELSE allotted[u][j]
    <3>1. CASE op.do = "config"
      <4>1. allotted' = [allotted EXCEPT ![t] = [@ EXCEPT ![i] = << >>]]
        BY <1>6, <3>1 DEF Change
      <4>2. << >> \in Seq(Buffers)
        OBVIOUS
      <4> QED
        BY <1>3, <2>1, <3>1, <4>1, <4>2, WriteAllotted
    <3>2. CASE op.do # "config"
      <4>1. allotted' = allotted
        BY <1>6, <3>2 DEF Change
      <4> QED
        BY <3>2, <4>1 DEF ControlInv, ControlTypeOK
    <3> QED
      BY <3>1, <3>2
  <2>7. ControlTypeOK'
    BY <1>1, <1>5, <2>5, <2>6 DEF ControlInv, ControlTypeOK, Return
  <2>8. SlotsStayAllocated'
    <3>1. ASSUME NEW u \in Tables, NEW j \in Indices(u)
          PROVE  allotted'[u][j] = << >> \/ allotted'[u][j] = <<slots'[u][j].pBuffer>>
      <4>1. CASE u = t /\ j = i /\ op.do = "config"
        BY <2>6, <4>1
      <4>2. CASE ~(u = t /\ j = i /\ op.do = "config")
        <5>1. allotted'[u][j] = allotted[u][j] /\ slots'[u][j].pBuffer = slots[u][j].pBuffer
          BY <2>3, <2>5, <2>6, <4>2
        <5> QED
          BY <5>1 DEF ControlInv, SlotsStayAllocated
      <4> QED
        BY <4>1, <4>2
    <3>2. ASSUME NEW u \in Tables PROVE slots'[u][0].pBuffer = "Terminal"
      BY <1>4, <2>3, <2>5, TableFacts DEF ControlInv, SlotsStayAllocated
    <3> QED
      BY <3>1, <3>2 DEF SlotsStayAllocated
  <2> QED
    BY <1>5, <2>7, <2>8 DEF ControlInv
<1>7. CASE ~(i < MaxNum[t])
  <2>1. slots' = slots /\ allotted' = allotted
    BY <1>7 DEF Change
  <2>2. ControlTypeOK'
    BY <1>1, <1>5, <2>1 DEF ControlInv, ControlTypeOK, Return
  <2>3. SlotsStayAllocated'
    BY <1>1, <2>1 DEF ControlInv, SlotsStayAllocated
  <2> QED
    BY <1>5, <2>2, <2>3 DEF ControlInv
<1> QED
  BY <1>6, <1>7

LEMMA ControlStepInv ==
  ASSUME ~EarlyInterrupts
  PROVE  ControlInv /\ [ControlNext]_controlVars => ControlInv'
<1> SUFFICES ASSUME ControlInv, [ControlNext]_controlVars PROVE ControlInv'
  OBVIOUS
<1>1. ASSUME NEW c \in Contexts,
             Calls(c) \/ SEGGER_RTT_Init(c) \/ INIT(c) \/ _DoInit(c)
      PROVE  ControlInv'
  BY <1>1, CallsInv, InitialiseInv, CheckInv, DoInitInv
<1>2. ASSUME NEW c \in Contexts, Scan(c) \/ Fill(c) \/ Change(c)
      PROVE  ControlInv'
  BY <1>2, ScanInv, FillInv, ChangeInv
<1>3. CASE UNCHANGED controlVars
  <2>1. /\ acID' = acID /\ slots' = slots /\ call' = call /\ ready' = ready
        /\ allotted' = allotted /\ configs' = configs
    BY <1>3 DEF controlVars
  <2> QED
    BY <2>1 DEF ControlInv, ControlTypeOK, Initialised, Locked, Offered, SlotsStayAllocated
<1> QED
  BY <1>1, <1>2, <1>3 DEF ControlNext

\* Once main's first call has returned, the control block keeps its promises
\* wherever an interrupt preempts main: two allocations never get one slot, only
\* SEGGER_RTT_Init takes back a slot that was given, and slot 0 of either table
\* stays the terminal's.  With earlier interrupts (MCRings_early.cfg) INIT
\* takes slots back.
THEOREM RttSlotsStayAllocated ==
  ASSUME ~EarlyInterrupts
  PROVE  ControlSpec => []SlotsStayAllocated
<1>1. ControlInv => SlotsStayAllocated
  BY DEF ControlInv
<1> QED
  BY <1>1, ControlInitInv, ControlStepInv, PTL DEF ControlSpec

-----------------------------------------------------------------------------
(* The ring.  First its items and their bytes.                             *)
Byte == 0 .. 255

LEMMA RawIs ==
  ASSUME NEW items \in Seq(Item)
  PROVE  /\ Len(items) \in Nat /\ Raw(items) \in Seq(Byte) /\ Len(Raw(items)) = Len(items)
         /\ \A i \in 1 .. Len(items) : items[i] \in Item /\ Raw(items)[i] = items[i][1]
<1>1. /\ Len(items) \in Nat /\ DOMAIN items = 1 .. Len(items)
      /\ \A i \in 1 .. Len(items) : items[i] \in Item
  BY LenProperties, ElementOfSeq
<1>2. \A i \in 1 .. Len(items) : items[i][1] \in Byte
  BY <1>1 DEF Item, Byte
<1>3. PICK n \in Nat : n = Len(items)
  BY <1>1
<1>4. Raw(items) = [i \in 1 .. n |-> items[i][1]]
  BY <1>1, <1>3 DEF Raw
<1>5. Raw(items) \in [1 .. n -> Byte]
  BY <1>2, <1>3, <1>4
<1>6. Raw(items) \in Seq(Byte) /\ Len(Raw(items)) = n
  BY <1>3, <1>5
<1> QED
  BY <1>1, <1>3, <1>4, <1>6

LEMMA RawConcat ==
  ASSUME NEW s \in Seq(Item), NEW t \in Seq(Item)
  PROVE  Raw(s \o t) = Raw(s) \o Raw(t)
<1>1. PICK u \in Seq(Item) : /\ u = s \o t /\ Len(u) = Len(s) + Len(t)
                             /\ \A i \in 1 .. Len(s) + Len(t) :
                                  u[i] = IF i <= Len(s) THEN s[i] ELSE t[i - Len(s)]
  <2>1. /\ s \o t \in Seq(Item) /\ Len(s \o t) = Len(s) + Len(t)
        /\ \A i \in 1 .. Len(s) + Len(t) :
             (s \o t)[i] = IF i <= Len(s) THEN s[i] ELSE t[i - Len(s)]
    BY ConcatProperties
  <2> QED
    BY <2>1
<1>2. PICK x \in Seq(Byte) : /\ x = Raw(s) /\ Len(s) \in Nat /\ Len(x) = Len(s)
                             /\ \A i \in 1 .. Len(s) : x[i] = s[i][1]
  BY RawIs
<1>3. PICK y \in Seq(Byte) : /\ y = Raw(t) /\ Len(t) \in Nat /\ Len(y) = Len(t)
                             /\ \A i \in 1 .. Len(t) : y[i] = t[i][1]
  BY RawIs
<1>4. /\ Raw(u) \in Seq(Byte) /\ Len(Raw(u)) = Len(u)
      /\ \A i \in 1 .. Len(u) : Raw(u)[i] = u[i][1]
  BY RawIs
<1>5. PICK v \in Seq(Byte) : /\ v = x \o y /\ Len(v) = Len(x) + Len(y)
                             /\ \A i \in 1 .. Len(x) + Len(y) :
                                  v[i] = IF i <= Len(x) THEN x[i] ELSE y[i - Len(x)]
  <2>1. /\ x \o y \in Seq(Byte) /\ Len(x \o y) = Len(x) + Len(y)
        /\ \A i \in 1 .. Len(x) + Len(y) :
             (x \o y)[i] = IF i <= Len(x) THEN x[i] ELSE y[i - Len(x)]
    BY ConcatProperties
  <2> QED
    BY <2>1
<1>6. ASSUME NEW i \in 1 .. Len(u) PROVE Raw(u)[i] = v[i]
  <2>1. i \in 1 .. Len(s) + Len(t)
    BY <1>1
  <2>2. CASE i <= Len(s)
    <3>1. i \in 1 .. Len(s)
      BY <1>2, <2>1, <2>2
    <3> QED
      <4>1. u[i] = s[i] /\ Raw(u)[i] = u[i][1]
        BY <1>1, <1>4, <2>1, <2>2
      <4>2. v[i] = x[i] /\ x[i] = s[i][1]
        BY <1>2, <1>3, <1>5, <2>1, <2>2, <3>1
      <4> QED
        BY <4>1, <4>2
  <2>3. CASE ~(i <= Len(s))
    <3>1. i - Len(s) \in 1 .. Len(t)
      BY <1>2, <1>3, <2>1, <2>3
    <3> QED
      <4>1. u[i] = t[i - Len(s)] /\ Raw(u)[i] = u[i][1]
        BY <1>1, <1>4, <2>1, <2>3
      <4>2. v[i] = y[i - Len(s)] /\ y[i - Len(s)] = t[i - Len(s)][1]
        BY <1>2, <1>3, <1>5, <2>1, <2>3, <3>1
      <4> QED
        BY <4>1, <4>2
  <2> QED
    BY <2>2, <2>3
<1>7. Raw(u) = v
  BY <1>1, <1>2, <1>3, <1>4, <1>5, <1>6, SeqEqual
<1> QED
  BY <1>1, <1>2, <1>3, <1>5, <1>7

\* What is taken from the front, and what stays.
LEMMA RawSplit ==
  ASSUME NEW s \in Seq(Item), NEW n \in 0 .. Len(s)
  PROVE  /\ Raw(SubSeq(s, 1, n)) = SubSeq(Raw(s), 1, n)
         /\ Raw(SubSeq(s, n + 1, Len(s))) = SubSeq(Raw(s), n + 1, Len(s))
<1>1. PICK f \in Seq(Item), u \in Seq(Item) :
        /\ f = SubSeq(s, 1, n) /\ u = SubSeq(s, n + 1, Len(s)) /\ Len(f) = n /\ f \o u = s
  <2>1. /\ SubSeq(s, 1, n) \in Seq(Item) /\ SubSeq(s, n + 1, Len(s)) \in Seq(Item)
        /\ Len(SubSeq(s, 1, n)) = n /\ SubSeq(s, 1, n) \o SubSeq(s, n + 1, Len(s)) = s
    BY Behind
  <2> QED
    BY <2>1
<1>2. Raw(s) = Raw(f) \o Raw(u)
  BY <1>1, RawConcat
<1>3. PICK x \in Seq(Byte), y \in Seq(Byte) : x = Raw(f) /\ y = Raw(u) /\ Len(x) = n
  BY <1>1, RawIs
<1>4. SubSeq(x \o y, 1, Len(x)) = x /\ SubSeq(x \o y, Len(x) + 1, Len(x \o y)) = y
  BY BehindIs
<1>5. Len(x \o y) = Len(s)
  BY <1>2, <1>3, RawIs
<1> QED
  BY <1>1, <1>2, <1>3, <1>4, <1>5

-----------------------------------------------------------------------------
(* The probe's window.                                                     *)

\* g is the window h after each of the bytes.
After(g, h, bytes, n) == g = [i \in 0 .. n |-> IF i = 0 THEN h ELSE Hear(g[i - 1], bytes[i])]
IsRun(g, h, bytes) == g[0] = h /\ \A i \in 1 .. Len(bytes) : g[i] = Hear(g[i - 1], bytes[i])

LEMMA AfterExists ==
  ASSUME NEW h, NEW bytes, NEW n \in Nat
  PROVE  \E g : After(g, h, bytes, n)
<1> DEFINE T == {k \in Nat : \E g : After(g, h, bytes, k)}
<1>1. 0 \in T
  <2> DEFINE e == [i \in 0 .. 0 |-> h]
  <2>1. e = [i \in 0 .. 0 |-> IF i = 0 THEN h ELSE Hear(e[i - 1], bytes[i])]
    OBVIOUS
  <2>2. After(e, h, bytes, 0)
    BY <2>1 DEF After
  <2> QED
    BY <2>2
<1>2. ASSUME NEW k \in Nat, k \in T PROVE k + 1 \in T
  <2>1. PICK g : After(g, h, bytes, k)
    BY <1>2
  <2> DEFINE last == Hear(g[k], bytes[k + 1])
             f == [i \in 0 .. k + 1 |-> IF i = k + 1 THEN last ELSE g[i]]
  <2>2. \A i \in 0 .. k : g[i] = IF i = 0 THEN h ELSE Hear(g[i - 1], bytes[i])
    BY <2>1 DEF After
  <2>3. ASSUME NEW i \in 0 .. k + 1
        PROVE  f[i] = IF i = 0 THEN h ELSE Hear(f[i - 1], bytes[i])
    <3>1. CASE i = k + 1
      <4>1. f[i] = last /\ f[i - 1] = g[k] /\ i # 0
        BY <3>1
      <4> QED
        BY <3>1, <4>1
    <3>2. CASE i = 0
      BY <2>2, <3>2
    <3>3. CASE i \in 1 .. k
      <4>1. i \in 0 .. k /\ i - 1 \in 0 .. k /\ i # 0 /\ i # k + 1 /\ i - 1 # k + 1
        BY <3>3
      <4>2. f[i] = g[i] /\ f[i - 1] = g[i - 1]
        BY <4>1
      <4> QED
        BY <2>2, <4>1, <4>2
    <3> QED
      BY <3>1, <3>2, <3>3
  <2>4. After(f, h, bytes, k + 1)
    BY <2>3 DEF After
  <2> QED
    BY <2>4
<1> HIDE DEF T
<1>3. Nat \subseteq T
  BY <1>1, <1>2, Induct
<1> QED
  BY <1>3 DEF T

LEMMA HearingIs ==
  ASSUME NEW h, NEW bytes, Len(bytes) \in Nat
  PROVE  IsRun(Hearing(h, bytes), h, bytes)
<1> DEFINE n == Len(bytes)
           f == CHOOSE g : After(g, h, bytes, n)
<1>1. After(f, h, bytes, n)
  BY AfterExists
<1>2. Hearing(h, bytes) = f
  BY DEF Hearing, After
<1> HIDE DEF f, n
<1>3. \A i \in 0 .. n : f[i] = IF i = 0 THEN h ELSE Hear(f[i - 1], bytes[i])
  BY <1>1 DEF After
<1>4. n \in Nat
  BY DEF n
<1>5. f[0] = h
  BY <1>3, <1>4
<1>6. ASSUME NEW i \in 1 .. n PROVE f[i] = Hear(f[i - 1], bytes[i])
  BY <1>3, <1>4
<1> QED
  BY <1>2, <1>5, <1>6 DEF IsRun, n

LEMMA RunUnique ==
  ASSUME NEW h, NEW bytes, Len(bytes) \in Nat, NEW f, NEW g,
         IsRun(f, h, bytes), IsRun(g, h, bytes)
  PROVE  \A i \in 0 .. Len(bytes) : f[i] = g[i]
<1> DEFINE T == {i \in Nat : i <= Len(bytes) => f[i] = g[i]}
<1>1. 0 \in T
  BY DEF IsRun
<1>2. ASSUME NEW k \in Nat, k \in T PROVE k + 1 \in T
  <2>1. SUFFICES ASSUME k + 1 <= Len(bytes) PROVE f[k + 1] = g[k + 1]
    OBVIOUS
  <2>2. f[k] = g[k]
    BY <1>2, <2>1
  <2>3. PICK i \in 1 .. Len(bytes) : i = k + 1 /\ i - 1 = k
    BY <2>1
  <2>4. f[i] = Hear(f[i - 1], bytes[i]) /\ g[i] = Hear(g[i - 1], bytes[i])
    BY DEF IsRun
  <2> QED
    BY <2>2, <2>3, <2>4
<1> HIDE DEF T
<1>3. Nat \subseteq T
  BY <1>1, <1>2, Induct
<1> QED
  BY <1>3 DEF T

\* Whatever it hears, it stays a window.
LEMMA HeardFrom ==
  ASSUME NEW h \in HostWindow, NEW bytes \in Seq(Byte), NEW g, IsRun(g, h, bytes)
  PROVE  g[Len(bytes)] \in HostWindow
<1> DEFINE T == {i \in Nat : i <= Len(bytes) => g[i] \in HostWindow}
<1>0. Len(bytes) \in Nat /\ \A i \in 1 .. Len(bytes) : bytes[i] \in Int
  <2>1. Len(bytes) \in Nat
    BY LenProperties
  <2>2. ASSUME NEW i \in 1 .. Len(bytes) PROVE bytes[i] \in Int
    <3>1. bytes[i] \in Byte
      BY ElementOfSeq
    <3>2. Byte \subseteq Int
      BY DEF Byte
    <3> QED
      BY <3>1, <3>2
  <2> QED
    BY <2>1, <2>2
<1>1. 0 \in T
  BY DEF IsRun
<1>2. ASSUME NEW k \in Nat, k \in T PROVE k + 1 \in T
  <2> SUFFICES ASSUME k + 1 <= Len(bytes) PROVE g[k + 1] \in HostWindow
    OBVIOUS
  <2>1. g[k] \in HostWindow
    BY <1>0, <1>2
  <2>2. PICK i \in 1 .. Len(bytes) : i = k + 1 /\ i - 1 = k
    BY <1>0
  <2>3. g[i] = Hear(g[k], bytes[i]) /\ bytes[i] \in Int
    BY <1>0, <2>2 DEF IsRun
  <2>4. ASSUME NEW v \in HostWindow, NEW b \in Int PROVE Hear(v, b) \in HostWindow
    BY DEF Hear, HostWindow, ESC
  <2> QED
    BY <2>1, <2>2, <2>3, <2>4
<1> HIDE DEF T
<1>3. Nat \subseteq T
  BY <1>1, <1>2, Induct
<1> QED
  BY <1>0, <1>3 DEF T

\* IsHeard, of any run.
Hears(g, h, items, t) ==
  /\ IsRun(g, h, Raw(items))
  /\ \A i \in 1 .. Len(items) : Meant(g[i - 1], items[i])
  /\ g[Len(items)] = [terminal |-> t, escaped |-> FALSE]

LEMMA HeardBy ==
  ASSUME NEW items \in Seq(Item), NEW h, NEW t, NEW g, Hears(g, h, items, t)
  PROVE  IsHeard(h, items, t)
<1> DEFINE f == Hearing(h, Raw(items))
<1>1. Len(Raw(items)) = Len(items) /\ Len(items) \in Nat
  BY RawIs
<1>2. IsRun(f, h, Raw(items)) /\ IsRun(g, h, Raw(items))
  BY <1>1, HearingIs DEF Hears
<1> HIDE DEF f
<1>3. \A i \in 0 .. Len(items) : f[i] = g[i]
  BY <1>1, <1>2, RunUnique
<1>4. ASSUME NEW i \in 1 .. Len(items) PROVE Meant(f[i - 1], items[i])
  <2>1. Meant(g[i - 1], items[i]) /\ i - 1 \in 0 .. Len(items)
    BY <1>1 DEF Hears
  <2> QED
    BY <1>3, <2>1
<1>5. f[Len(items)] = [terminal |-> t, escaped |-> FALSE]
  BY <1>1, <1>3 DEF Hears
<1> QED
  BY <1>4, <1>5 DEF IsHeard, f

LEMMA HeardHas ==
  ASSUME NEW items \in Seq(Item), NEW h, NEW t, IsHeard(h, items, t)
  PROVE  Hears(Hearing(h, Raw(items)), h, items, t)
<1>1. Len(Raw(items)) \in Nat
  BY RawIs
<1> QED
  BY <1>1, HearingIs DEF Hears, IsHeard

\* A window that shows terminal t.
On(t) == [terminal |-> t, escaped |-> FALSE]

LEMMA HeardConcat ==
  ASSUME NEW s \in Seq(Item), NEW u \in Seq(Item), NEW h, NEW t, NEW t2,
         IsHeard(h, s, t), IsHeard(On(t), u, t2)
  PROVE  IsHeard(h, s \o u, t2)
<1> DEFINE f == Hearing(h, Raw(s))
           g == Hearing(On(t), Raw(u))
           m == Len(s)
           n == Len(u)
<1>1. PICK v \in Seq(Item) : /\ v = s \o u /\ Len(v) = m + n
                             /\ \A i \in 1 .. m + n : v[i] = IF i <= m THEN s[i] ELSE u[i - m]
  <2>1. /\ s \o u \in Seq(Item) /\ Len(s \o u) = m + n
        /\ \A i \in 1 .. m + n : (s \o u)[i] = IF i <= m THEN s[i] ELSE u[i - m]
    BY ConcatProperties
  <2> QED
    BY <2>1
<1>2. Hears(f, h, s, t) /\ Hears(g, On(t), u, t2)
  BY HeardHas
<1>3. /\ m \in Nat /\ n \in Nat /\ Len(Raw(s)) = m /\ Len(Raw(u)) = n /\ Len(Raw(v)) = m + n
      /\ \A i \in 1 .. m : Raw(s)[i] = s[i][1]
      /\ \A i \in 1 .. n : Raw(u)[i] = u[i][1]
      /\ \A i \in 1 .. m + n : Raw(v)[i] = v[i][1]
  BY <1>1, RawIs
<1> DEFINE k == [i \in 0 .. m + n |-> IF i <= m THEN f[i] ELSE g[i - m]]
<1> HIDE DEF f, g, m, n
<1>4. /\ f[0] = h /\ f[m] = On(t) /\ g[0] = On(t) /\ g[n] = On(t2)
      /\ \A i \in 1 .. m : f[i] = Hear(f[i - 1], s[i][1]) /\ Meant(f[i - 1], s[i])
      /\ \A i \in 1 .. n : g[i] = Hear(g[i - 1], u[i][1]) /\ Meant(g[i - 1], u[i])
  BY <1>2, <1>3 DEF Hears, IsRun, On, m, n
<1>5. ASSUME NEW i \in 1 .. m + n
      PROVE  k[i] = Hear(k[i - 1], v[i][1]) /\ Meant(k[i - 1], v[i])
  <2>1. CASE i <= m
    <3>1. i \in 1 .. m /\ i - 1 \in 0 .. m + n /\ i \in 0 .. m + n /\ i - 1 <= m
      BY <1>3, <2>1
    <3>2. k[i] = f[i] /\ k[i - 1] = f[i - 1] /\ v[i] = s[i]
      BY <1>1, <2>1, <3>1
    <3> QED
      BY <1>4, <3>1, <3>2
  <2>2. CASE ~(i <= m)
    <3>1. PICK j \in 1 .. n : j = i - m
      BY <1>3, <2>2
    <3>2. i \in 0 .. m + n /\ i - 1 \in 0 .. m + n /\ ~(i <= m)
      BY <1>3, <2>2
    <3>3. k[i] = g[j] /\ v[i] = u[j]
      BY <1>1, <2>2, <3>1, <3>2
    <3>4. k[i - 1] = g[j - 1]
      <4>1. CASE j = 1
        <5>1. i - 1 = m
          BY <1>3, <3>1, <4>1
        <5>2. k[i - 1] = f[m]
          BY <1>3, <3>2, <5>1
        <5> QED
          BY <1>4, <4>1, <5>2
      <4>2. CASE j # 1
        <5>1. ~(i - 1 <= m) /\ (i - 1) - m = j - 1
          BY <1>3, <3>1, <4>2
        <5> QED
          BY <3>2, <5>1
      <4> QED
        BY <4>1, <4>2
    <3> QED
      BY <1>4, <3>3, <3>4
  <2> QED
    BY <2>1, <2>2
<1>6. k[0] = h
  BY <1>3, <1>4
<1>7. k[m + n] = On(t2)
  <2>1. CASE n = 0
    BY <1>3, <1>4, <2>1 DEF On
  <2>2. CASE n # 0
    <3>1. ~(m + n <= m) /\ m + n \in 0 .. m + n /\ (m + n) - m = n
      BY <1>3, <2>2
    <3> QED
      BY <1>4, <3>1
  <2> QED
    BY <2>1, <2>2
<1> HIDE DEF k
<1>8. IsRun(k, h, Raw(v))
  BY <1>3, <1>5, <1>6 DEF IsRun
<1>9. Hears(k, h, v, t2)
  BY <1>1, <1>5, <1>7, <1>8 DEF Hears, On
<1>10. IsHeard(h, v, t2)
  BY <1>9, HeardBy
<1> QED
  BY <1>1, <1>10

\* What is read leaves the window from which the rest is heard.
LEMMA HeardSplit ==
  ASSUME NEW s \in Seq(Item), NEW u \in Seq(Item), NEW h, NEW t, IsHeard(h, s \o u, t)
  PROVE  /\ IsHeard(Hearing(h, Raw(s))[Len(s)], u, t)
         /\ \A i \in 1 .. Len(s) : Meant(Hearing(h, Raw(s))[i - 1], s[i])
<1> DEFINE m == Len(s)
           n == Len(u)
           f == Hearing(h, Raw(s))
<1>1. PICK v \in Seq(Item) : /\ v = s \o u /\ Len(v) = m + n
                             /\ \A i \in 1 .. m + n : v[i] = IF i <= m THEN s[i] ELSE u[i - m]
  <2>1. /\ s \o u \in Seq(Item) /\ Len(s \o u) = m + n
        /\ \A i \in 1 .. m + n : (s \o u)[i] = IF i <= m THEN s[i] ELSE u[i - m]
    BY ConcatProperties
  <2> QED
    BY <2>1
<1>2. PICK g : Hears(g, h, v, t)
  BY <1>1, HeardHas
<1>3. /\ m \in Nat /\ n \in Nat /\ Len(Raw(s)) = m /\ Len(Raw(u)) = n /\ Len(Raw(v)) = m + n
      /\ \A i \in 1 .. m : Raw(s)[i] = s[i][1]
      /\ \A i \in 1 .. n : Raw(u)[i] = u[i][1]
      /\ \A i \in 1 .. m + n : Raw(v)[i] = v[i][1]
  BY <1>1, RawIs
<1>4. IsRun(f, h, Raw(s))
  BY <1>3, HearingIs
<1> HIDE DEF f, m, n
<1>5. /\ g[0] = h /\ g[m + n] = On(t)
      /\ \A i \in 1 .. m + n : g[i] = Hear(g[i - 1], v[i][1]) /\ Meant(g[i - 1], v[i])
  <2>1. IsRun(g, h, Raw(v)) /\ g[m + n] = On(t) /\ \A i \in 1 .. m + n : Meant(g[i - 1], v[i])
    BY <1>1, <1>2 DEF Hears, On
  <2>2. g[0] = h /\ \A i \in 1 .. m + n : g[i] = Hear(g[i - 1], Raw(v)[i])
    BY <1>3, <2>1 DEF IsRun
  <2> QED
    BY <1>3, <2>1, <2>2
<1>6. ASSUME NEW i \in 1 .. m
      PROVE  g[i] = Hear(g[i - 1], s[i][1]) /\ Meant(g[i - 1], s[i])
  <2>1. i \in 1 .. m + n /\ i <= m
    BY <1>3
  <2>2. v[i] = s[i]
    BY <1>1, <2>1
  <2> QED
    BY <1>5, <2>1, <2>2
<1>7. IsRun(g, h, Raw(s))
  BY <1>3, <1>5, <1>6 DEF IsRun
<1>8. \A i \in 0 .. m : f[i] = g[i]
  <2>1. PICK x : x = Raw(s) /\ Len(x) = m
    BY <1>3
  <2>2. Len(x) \in Nat /\ IsRun(f, h, x) /\ IsRun(g, h, x)
    BY <1>3, <1>4, <1>7, <2>1
  <2>3. \A i \in 0 .. Len(x) : f[i] = g[i]
    BY <2>2, RunUnique
  <2> QED
    BY <2>1, <2>3
<1>9. \A i \in 1 .. m : Meant(f[i - 1], s[i])
  BY <1>3, <1>6, <1>8
<1> DEFINE k == [i \in 0 .. n |-> g[m + i]]
<1>10. ASSUME NEW i \in 1 .. n
       PROVE  k[i] = Hear(k[i - 1], u[i][1]) /\ Meant(k[i - 1], u[i])
  <2>1. PICK j \in 1 .. m + n : j = m + i /\ ~(j <= m) /\ j - m = i /\ j - 1 = m + (i - 1)
    BY <1>3
  <2>2. v[j] = u[i]
    BY <1>1, <2>1
  <2>3. k[i] = g[j] /\ k[i - 1] = g[j - 1]
    BY <1>3, <2>1
  <2> QED
    BY <1>5, <2>2, <2>3
<1>11. k[0] = f[m] /\ k[n] = On(t)
  <2>1. k[0] = g[m] /\ k[n] = g[m + n] /\ m \in 0 .. m
    BY <1>3
  <2> QED
    BY <1>5, <1>8, <2>1
<1> HIDE DEF k
<1>12. IsRun(k, f[m], Raw(u))
  BY <1>3, <1>10, <1>11 DEF IsRun
<1>13. Hears(k, f[m], u, t)
  BY <1>10, <1>11, <1>12 DEF Hears, On, n
<1>14. IsHeard(f[m], u, t)
  BY <1>13, HeardBy
<1> QED
  BY <1>9, <1>14 DEF f, m

\* Text for the terminal that the window is on leaves it there.
LEMMA HeardPlain ==
  ASSUME NEW s \in Seq(Item), NEW t \in Nat, Plain(s, t)
  PROVE  IsHeard(On(t), s, t) /\ Hearing(On(t), Raw(s))[Len(s)] = On(t)
<1> DEFINE g == [i \in 0 .. Len(s) |-> On(t)]
<1>1. /\ Len(s) \in Nat /\ Len(Raw(s)) = Len(s)
      /\ \A i \in 1 .. Len(s) : Raw(s)[i] = s[i][1] /\ s[i][1] # ESC /\ s[i][2] = t
  BY RawIs DEF Plain
<1>2. On(t).escaped = FALSE /\ On(t).terminal = t /\ t # -1
  BY DEF On
<1>3. ASSUME NEW i \in 1 .. Len(s)
      PROVE  Hear(On(t), s[i][1]) = On(t) /\ Meant(On(t), s[i])
  <2>1. s[i][1] # ESC /\ s[i][2] = t
    BY <1>1
  <2>2. Hear(On(t), s[i][1]) = On(t)
    BY <1>2, <2>1 DEF Hear
  <2> QED
    BY <1>2, <2>1, <2>2 DEF Meant, Shows
<1>4. /\ g[0] = On(t) /\ g[Len(s)] = On(t)
      /\ \A i \in 1 .. Len(s) : g[i] = On(t) /\ g[i - 1] = On(t)
  BY <1>1
<1> HIDE DEF g
<1>5. IsRun(g, On(t), Raw(s))
  BY <1>1, <1>3, <1>4 DEF IsRun
<1>6. Hears(g, On(t), s, t)
  BY <1>3, <1>4, <1>5 DEF Hears, On
<1>7. IsHeard(On(t), s, t)
  BY <1>6, HeardBy
<1>8. Hearing(On(t), Raw(s))[Len(s)] = On(t)
  BY <1>7 DEF IsHeard, On
<1> QED
  BY <1>7, <1>8

\* Nobody hears nothing.
LEMMA HeardNothing ==
  ASSUME NEW t \in Nat
  PROVE  IsHeard(On(t), << >>, t)
<1>1. << >> \in Seq(Item) /\ Plain(<< >>, t)
  BY EmptySeq DEF Plain
<1> QED
  BY <1>1, HeardPlain

\* Two bytes move the window to one of the 16 terminals.
LEMMA HeardSwitch ==
  ASSUME NEW t0 \in Nat, NEW t \in 0 .. NumTerminals - 1
  PROVE  Switch(t) \in Seq(Item) /\ Len(Switch(t)) = 2 /\ IsHeard(On(t0), Switch(t), t)
<1> DEFINE id == _aTerminalId(t)
           mid == [terminal |-> t0, escaped |-> TRUE]
           g == [i \in 0 .. 2 |-> IF i = 0 THEN On(t0) ELSE IF i = 1 THEN mid ELSE On(t)]
<1>1. t \in 0 .. 15
  BY DEF NumTerminals
<1>2. id \in Byte /\ (IF id < 58 THEN id - 48 ELSE id - 55) = t
  BY <1>1 DEF _aTerminalId, Byte
<1> HIDE DEF id
<1>3. PICK s : s = Switch(t)
  OBVIOUS
<1>4. /\ s \in Seq(Item) /\ Len(s) = 2 /\ s[1] = <<ESC, -1>> /\ s[2] = <<id, -1>>
  <2>1. <<ESC, -1>> \in Item /\ <<id, -1>> \in Item
    BY <1>2 DEF Item, ESC, Byte
  <2>2. s = <<<<ESC, -1>>, <<id, -1>>>>
    BY <1>3 DEF Switch, id
  <2> QED
    BY <2>1, <2>2
<1>5. Raw(s)[1] = ESC /\ Raw(s)[2] = id /\ Len(Raw(s)) = 2
  BY <1>4, RawIs
<1>6. g[0] = On(t0) /\ g[1] = mid /\ g[2] = On(t)
  OBVIOUS
<1>7. Hear(On(t0), ESC) = mid
  BY DEF Hear, On
<1>8. Hear(mid, id) = On(t)
  BY <1>2 DEF Hear, On
<1>9. Meant(On(t0), s[1]) /\ Meant(mid, s[2])
  BY <1>4 DEF Meant, Shows, On
<1> HIDE DEF g, mid
<1>10. IsRun(g, On(t0), Raw(s))
  <2>1. ASSUME NEW i \in 1 .. 2 PROVE g[i] = Hear(g[i - 1], Raw(s)[i])
    <3>1. i = 1 \/ i = 2
      OBVIOUS
    <3>2. CASE i = 1
      BY <1>5, <1>6, <1>7, <3>2
    <3>3. CASE i = 2
      BY <1>5, <1>6, <1>8, <3>3
    <3> QED
      BY <3>1, <3>2, <3>3
  <2> QED
    BY <1>5, <1>6, <2>1 DEF IsRun
<1>11. ASSUME NEW i \in 1 .. 2 PROVE Meant(g[i - 1], s[i])
  <2>1. i = 1 \/ i = 2
    OBVIOUS
  <2>2. CASE i = 1
    BY <1>6, <1>9, <2>2
  <2>3. CASE i = 2
    BY <1>6, <1>9, <2>3
  <2> QED
    BY <2>1, <2>2, <2>3
<1>12. Hears(g, On(t0), s, t)
  BY <1>4, <1>6, <1>10, <1>11 DEF Hears, On
<1> QED
  BY <1>3, <1>4, <1>12, HeardBy

-----------------------------------------------------------------------------
(* The offsets, the copies and the texts.                                  *)

LEMMA SizeIs == Size \in Nat \ {0}
BY RttAssumption

LEMMA SpaceIs ==
  ASSUME WrOff \in Slot(Size), RdOff \in Slot(Size)
  PROVE  _GetAvailWriteSpace = Size - 1 - count(WrOff, RdOff, Size)
<1>1. count(WrOff, RdOff, Size) = IF WrOff >= RdOff THEN WrOff - RdOff ELSE WrOff - RdOff + Size
  BY SizeIs, CountIs
<1> QED
  BY <1>1, SizeIs DEF Slot, _GetAvailWriteSpace

\* The memcpys write the bytes and nothing else.
LEMMA PutIs ==
  ASSUME buf \in Storage(Size, Byte), NEW at \in Slot(Size), NEW bytes \in Seq(Byte),
         Len(bytes) < Size
  PROVE  /\ Put(at, bytes) \in Storage(Size, Byte)
         /\ KeptBut(Put(at, bytes), buf, at, Len(bytes), Size)
         /\ LiesAt(bytes, Put(at, bytes), at, Size)
<1> DEFINE new == Put(at, bytes)
           n == Len(bytes)
<1>1. n \in Nat /\ Size \in Nat \ {0} /\ \A k \in 1 .. n : bytes[k] \in Byte
  BY SizeIs, LenProperties, ElementOfSeq
<1>2. ASSUME NEW i \in Slot(Size)
      PROVE  /\ count(i, at, Size) \in Nat
             /\ new[i] = IF count(i, at, Size) < n THEN bytes[count(i, at, Size) + 1] ELSE buf[i]
  BY <1>1, CountIs DEF Put
<1>3. ASSUME NEW i \in Slot(Size) PROVE new[i] \in Byte
  <2>1. CASE count(i, at, Size) < n
    <3>1. count(i, at, Size) + 1 \in 1 .. n
      BY <1>1, <1>2, <2>1
    <3> QED
      BY <1>1, <1>2, <2>1, <3>1
  <2>2. CASE ~(count(i, at, Size) < n)
    BY <1>2, <2>2 DEF Storage
  <2> QED
    BY <2>1, <2>2
<1>4. new \in Storage(Size, Byte)
  <2>1. new = [i \in Slot(Size) |-> new[i]]
    BY DEF Put
  <2> HIDE DEF new
  <2> QED
    BY <1>3, <2>1 DEF Storage
<1>5. KeptBut(new, buf, at, n, Size)
  <2> HIDE DEF new, n
  <2> QED
    BY <1>1, <1>2 DEF KeptBut
<1>6. LiesAt(bytes, new, at, Size)
  <2> SUFFICES ASSUME NEW k \in 1 .. n PROVE new[(at + k - 1) % Size] = bytes[k]
    BY DEF LiesAt
  <2>1. k \in 1 .. Size
    BY <1>1
  <2>2. PICK i : i = (at + k - 1) % Size
    OBVIOUS
  <2>3. i \in Slot(Size) /\ count(i, at, Size) = k - 1
    BY <1>1, <2>1, <2>2, PositionIs, CountFrom
  <2>4. new[i] = bytes[k]
    BY <1>1, <1>2, <2>3
  <2> QED
    BY <2>2, <2>4
<1> QED
  BY <1>4, <1>5, <1>6

\* The two ways in which WrOff moves come to the same.
LEMMA EndIs ==
  ASSUME WrOff \in Slot(Size), NEW n \in Nat, n < Size
  PROVE  /\ _WriteNoCheckEnd(n) = Ahead(WrOff, n, Size)
         /\ WrOff + n <= Size => _WriteBlockingEnd(n) = Ahead(WrOff, n, Size)
BY SizeIs DEF Slot, _WriteNoCheckEnd, _WriteBlockingEnd, Ahead

\* A read takes what there was at its sample, or as much of it as it may.
LEMMA TakenIs ==
  ASSUME NEW rd \in Slot(Size), NEW wr \in Slot(Size), NEW n \in Nat
  PROVE  /\ Taken(rd, wr, n).n \in 0 .. count(wr, rd, Size)
         /\ Taken(rd, wr, n).RdOff = (rd + Taken(rd, wr, n).n) % Size
<1>1. Size \in Nat \ {0} /\ rd \in 0 .. Size - 1 /\ wr \in 0 .. Size - 1
  BY SizeIs DEF Slot
<1>2. count(wr, rd, Size) = IF wr >= rd THEN wr - rd ELSE wr - rd + Size
  BY <1>1, CountIs
<1>3. PICK first : first = IF rd > wr THEN Least(Size - rd, n) ELSE 0
  OBVIOUS
<1>4. PICK from : from = IF rd > wr /\ rd + first = Size THEN 0 ELSE rd + first
  OBVIOUS
<1>5. PICK rest : rest = IF n = first THEN 0 ELSE Least(wr - from, n - first)
  OBVIOUS
<1>6. Taken(rd, wr, n) = [n |-> first + rest, RdOff |-> from + rest]
  BY <1>3, <1>4, <1>5 DEF Taken
<1>7. /\ first = IF rd > wr THEN (IF Size - rd < n THEN Size - rd ELSE n) ELSE 0
      /\ rest = IF n = first THEN 0 ELSE IF wr - from < n - first THEN wr - from ELSE n - first
  BY <1>3, <1>5 DEF Least
<1>8. first \in Nat /\ from \in Nat /\ rest \in Nat
  BY <1>1, <1>4, <1>7
<1>9. first + rest \in 0 .. count(wr, rd, Size)
  BY <1>1, <1>2, <1>4, <1>7, <1>8
<1>10. PICK k \in 1 .. Size : k = first + rest + 1
  BY <1>1, <1>2, <1>8, <1>9
<1>11. (rd + k - 1) % Size = IF rd + k - 1 < Size THEN rd + k - 1 ELSE rd + k - 1 - Size
  BY <1>1, PositionIs
<1>12. from + rest = IF rd + k - 1 < Size THEN rd + k - 1 ELSE rd + k - 1 - Size
  BY <1>1, <1>4, <1>7, <1>8, <1>10
<1>13. rd + k - 1 = rd + (first + rest)
  BY <1>1, <1>8, <1>10
<1> QED
  BY <1>6, <1>9, <1>11, <1>12, <1>13

\* The text of a call, for its terminal.
LEMMA TextIs ==
  ASSUME texts \in 0 .. Symbols - 1, NEW n \in Nat, NEW t \in Nat
  PROVE  Text(n, t) \in Seq(Item) /\ Len(Text(n, t)) = n /\ Plain(Text(n, t), t)
<1> DEFINE f == [i \in 1 .. n |-> <<(texts + i) % Symbols, t>>]
<1>1. Symbols \in 1 .. 48
  BY RttAssumption
<1>2. ASSUME NEW i \in 1 .. n
      PROVE  /\ f[i] = <<(texts + i) % Symbols, t>> /\ f[i] \in Item
             /\ f[i][1] # ESC /\ f[i][2] = t
  <2>1. (texts + i) % Symbols \in 0 .. Symbols - 1
    BY <1>1
  <2>2. (texts + i) % Symbols \in 0 .. 255 /\ (texts + i) % Symbols # 255
    BY <1>1, <2>1
  <2> QED
    BY <2>2 DEF Item, ESC
<1>3. f \in [1 .. n -> Item]
  BY <1>2
<1>d. f = [i \in 1 .. n |-> <<(texts + i) % Symbols, t>>]
  OBVIOUS
<1> HIDE DEF f
<1>4. f \in Seq(Item) /\ Len(f) = n
  BY <1>3
<1>5. f \o << >> = f
  BY <1>4, ConcatEmptySeq
<1>6. Text(n, t) = f
  BY <1>5, <1>d DEF Text
<1>7. Plain(f, t)
  BY <1>2, <1>4 DEF Plain
<1> QED
  BY <1>4, <1>6, <1>7

\* Pieces, one after the other.
LEMMA FlattenOne ==
  ASSUME NEW S, NEW s \in Seq(S)
  PROVE  <<s>> \in Seq(Seq(S)) /\ Len(<<s>>) = 1 /\ FlattenSeq(<<s>>) = s
<1>0. << >> \in Seq(Seq(S))
  OBVIOUS
<1>1. PICK e \in Seq(Seq(S)) : e = << >>
  BY <1>0
<1>2. FlattenSeq(<<s>> \o e) = s \o FlattenSeq(e)
  BY FlattenCons
<1>3. <<s>> \in Seq(Seq(S)) /\ Len(<<s>>) = 1
  OBVIOUS
<1>4. <<s>> \o e = <<s>>
  BY <1>1, <1>3, ConcatEmptySeq
<1>5. s \o FlattenSeq(e) = s
  BY <1>1, FlattenEmpty, ConcatEmptySeq
<1> QED
  BY <1>2, <1>3, <1>4, <1>5

LEMMA FlattenFirst ==
  ASSUME NEW S, NEW ss \in Seq(Seq(S)), ss # << >>
  PROVE  /\ Head(ss) \in Seq(S) /\ Tail(ss) \in Seq(Seq(S)) /\ Len(Tail(ss)) = Len(ss) - 1
         /\ FlattenSeq(ss) = Head(ss) \o FlattenSeq(Tail(ss))
<1>1. /\ Head(ss) \in Seq(S) /\ Tail(ss) \in Seq(Seq(S)) /\ Len(Tail(ss)) = Len(ss) - 1
      /\ <<Head(ss)>> \o Tail(ss) = ss
  BY HeadAndTail
<1>2. FlattenSeq(<<Head(ss)>> \o Tail(ss)) = Head(ss) \o FlattenSeq(Tail(ss))
  BY <1>1, FlattenCons
<1> QED
  BY <1>1, <1>2

Flattens(ps, S, s) == ps \in Seq(Seq(S)) /\ FlattenSeq(ps) = s
ThreePieces(a, b, c) == (<<a>> \o <<b>>) \o <<c>>

LEMMA FlattenThree ==
  ASSUME NEW S, NEW a \in Seq(S), NEW b \in Seq(S), NEW c \in Seq(S)
  PROVE  Flattens(ThreePieces(a, b, c), S, a \o (b \o c))
<1>1. PICK one \in Seq(Seq(S)) : one = <<a>> /\ FlattenSeq(one) = a
  BY FlattenOne
<1>2. PICK two \in Seq(Seq(S)) : two = one \o <<b>> /\ FlattenSeq(two) = a \o b
  <2>1. Append(one, b) = one \o <<b>> /\ Append(one, b) \in Seq(Seq(S))
    BY AppendIsConcat, AppendProperties
  <2>2. FlattenSeq(Append(one, b)) = FlattenSeq(one) \o b
    BY FlattenAppend
  <2> QED
    BY <1>1, <2>1, <2>2
<1>3. Append(two, c) = two \o <<c>> /\ Append(two, c) \in Seq(Seq(S))
  BY AppendIsConcat, AppendProperties
<1>4. FlattenSeq(Append(two, c)) = FlattenSeq(two) \o c
  BY FlattenAppend
<1>5. (a \o b) \o c = a \o (b \o c)
  <2>1. Associates(a, b, c)
    BY JoinAssociates
  <2> QED
    BY <2>1 DEF Associates
<1>6. ThreePieces(a, b, c) = Append(two, c)
  BY <1>1, <1>2, <1>3 DEF ThreePieces
<1> QED
  BY <1>2, <1>3, <1>4, <1>5, <1>6 DEF Flattens

-----------------------------------------------------------------------------
(* The invariant of the ring.                                              *)

LEMMA RingFacts ==
  ASSUME RttInv
  PROVE  /\ Len(fifo) \in Nat /\ Len(fifo) = count(WrOff, RdOff, Size) /\ Len(fifo) < Size
         /\ _GetAvailWriteSpace = Size - 1 - Len(fifo)
         /\ Raw(fifo) \in Seq(Byte) /\ Len(Raw(fifo)) = Len(fifo)
         /\ FlattenSeq(w.pieces) \in Seq(Item) /\ Len(FlattenSeq(w.pieces)) \in Nat
         /\ Coming \in Seq(Item) /\ Len(Coming) = Len(fifo) + Len(FlattenSeq(w.pieces))
<1>1. /\ fifo \in Seq(Item) /\ w.pieces \in Seq(Seq(Item)) /\ buf \in Storage(Size, Byte)
      /\ WrOff \in Slot(Size) /\ RdOff \in Slot(Size) /\ Unread = Raw(fifo)
  BY DEF RttInv, RttTypeOK, Byte
<1>2. /\ Len(fifo) \in Nat /\ Raw(fifo) \in Seq(Byte) /\ Len(Raw(fifo)) = Len(fifo)
  BY <1>1, RawIs
<1>3. Len(Unread) = count(WrOff, RdOff, Size) /\ count(WrOff, RdOff, Size) < Size
  BY <1>1, SizeIs, RingType, CountIs DEF Unread
<1>4. FlattenSeq(w.pieces) \in Seq(Item)
  BY <1>1, FlattenType
<1>5. Len(FlattenSeq(w.pieces)) \in Nat
  BY <1>4, LenProperties
<1>6. Coming \in Seq(Item) /\ Len(Coming) = Len(fifo) + Len(FlattenSeq(w.pieces))
  BY <1>1, <1>4, ConcatProperties DEF Coming
<1> QED
  BY <1>1, <1>2, <1>3, <1>4, <1>5, <1>6, SpaceIs

LEMMA IdleIs ==
  /\ Idle \in [pieces : Seq(Seq(Item)), blocking : BOOLEAN, stored : Nat \cup {-1}, mayWait : BOOLEAN]
  /\ Idle.pieces = << >> /\ Idle.stored = -1 /\ Idle.blocking = FALSE /\ Idle.mayWait = FALSE
  /\ FlattenSeq(Idle.pieces) = << >>
<1>1. << >> \in Seq(Seq(Item))
  OBVIOUS
<1>2. /\ Idle \in [pieces : Seq(Seq(Item)), blocking : BOOLEAN, stored : Nat \cup {-1},
                   mayWait : BOOLEAN]
      /\ Idle.pieces = << >> /\ Idle.stored = -1 /\ Idle.blocking = FALSE /\ Idle.mayWait = FALSE
  BY <1>1 DEF Idle
<1> QED
  BY <1>2, FlattenEmpty

LEMMA RingInitInv == RttInit => RttInv
<1> SUFFICES ASSUME RttInit PROVE RttInv
  OBVIOUS
<1>1. /\ use \in {"up", "drain", "down"} /\ buf = [i \in Slot(Size) |-> 0] /\ WrOff = 0 /\ RdOff = 0
      /\ Flags \in Modes /\ _ActiveTerminal = 0 /\ w = Idle /\ r = Still /\ fifo = << >>
      /\ host = [terminal |-> 0, escaped |-> FALSE] /\ texts = 0 /\ calls = 0
  BY DEF RttInit
<1>2. 0 \in Slot(Size) /\ Symbols \in 1 .. 48
  BY RttAssumption DEF Slot
<1>3. buf \in Storage(Size, 0 .. 255)
  BY <1>1 DEF Storage
<1>4. fifo \in Seq(Item) /\ Len(fifo) = 0
  BY <1>1, EmptySeq
<1>5. RttTypeOK
  <2>1. texts \in 0 .. Symbols - 1 /\ calls \in Nat /\ _ActiveTerminal \in 0 .. NumTerminals - 1
    BY <1>1, <1>2 DEF NumTerminals
  <2>2. host \in HostWindow
    <3>1. On(0) \in HostWindow
      BY DEF HostWindow, On
    <3>2. host = On(0)
      BY <1>1 DEF On
    <3> QED
      BY <3>1, <3>2
  <2>3. w \in [pieces : Seq(Seq(Item)), blocking : BOOLEAN, stored : Nat \cup {-1},
              mayWait : BOOLEAN]
    BY <1>1, IdleIs
  <2> QED
    BY <1>1, <1>2, <1>3, <1>4, <2>1, <2>2, <2>3 DEF RttTypeOK
<1>6. Unread = Raw(fifo)
  <2>1. count(WrOff, RdOff, Size) = 0
    BY <1>1, <1>2, SizeIs, CountIs
  <2>2. Unread \in Seq(Byte) /\ Len(Unread) = 0
    BY <1>1, <1>2, <1>3, <2>1, SizeIs, RingType DEF Unread, Byte
  <2>3. Raw(fifo) \in Seq(Byte) /\ Len(Raw(fifo)) = 0
    BY <1>4, RawIs
  <2> QED
    BY <2>2, <2>3, EmptySeq
<1>7. Coming = << >>
  BY <1>1, IdleIs DEF Coming
<1>8. IsHeard(host, Coming, _ActiveTerminal)
  BY <1>1, <1>7, HeardNothing DEF On
<1>9. Len(Coming) = 0
  BY <1>7
<1>10. ChunkIsStored /\ SampleIsOld /\ RoomWasFound
  BY <1>1, <1>9, IdleIs, SizeIs DEF ChunkIsStored, SampleIsOld, RoomWasFound, Still
<1>11. StreamIsHeard
  BY <1>1, <1>8, <1>9 DEF StreamIsHeard, Plain
<1> QED
  BY <1>5, <1>6, <1>10, <1>11 DEF RttInv

\* What a call may begin to write, if a is the active terminal after it.
WritesOK(writes, a) ==
  /\ writes.pieces \in Seq(Seq(Item)) /\ writes.blocking \in BOOLEAN
  /\ ~writes.blocking => Len(writes.pieces) <= 1
  /\ Flags # SEGGER_RTT_MODE_BLOCK_IF_FIFO_FULL \/ ~writes.blocking =>
       Len(fifo) + Len(FlattenSeq(writes.pieces)) < Size
  /\ IsHeard(On(_ActiveTerminal), FlattenSeq(writes.pieces), a)
  /\ use = "drain" => a = _ActiveTerminal /\ Plain(FlattenSeq(writes.pieces), a)

LEMMA PlainConcat ==
  ASSUME NEW s \in Seq(Item), NEW u \in Seq(Item), NEW t
  PROVE  Plain(s \o u, t) <=> Plain(s, t) /\ Plain(u, t)
<1>1. PICK v \in Seq(Item) : /\ v = s \o u /\ Len(v) = Len(s) + Len(u)
                             /\ \A i \in 1 .. Len(s) + Len(u) :
                                  v[i] = IF i <= Len(s) THEN s[i] ELSE u[i - Len(s)]
  <2>1. /\ s \o u \in Seq(Item) /\ Len(s \o u) = Len(s) + Len(u)
        /\ \A i \in 1 .. Len(s) + Len(u) :
             (s \o u)[i] = IF i <= Len(s) THEN s[i] ELSE u[i - Len(s)]
    BY ConcatProperties
  <2> QED
    BY <2>1
<1>2. Len(s) \in Nat /\ Len(u) \in Nat
  BY LenProperties
<1>3. ASSUME Plain(v, t) PROVE Plain(s, t)
  <2>1. ASSUME NEW i \in 1 .. Len(s) PROVE s[i][1] # ESC /\ s[i][2] = t
    <3>1. i \in 1 .. Len(v) /\ v[i] = s[i]
      BY <1>1, <1>2
    <3> QED
      BY <1>3, <3>1 DEF Plain
  <2> QED
    BY <2>1 DEF Plain
<1>4. ASSUME Plain(v, t) PROVE Plain(u, t)
  <2>1. ASSUME NEW i \in 1 .. Len(u) PROVE u[i][1] # ESC /\ u[i][2] = t
    <3>1. PICK j \in 1 .. Len(v) : j = Len(s) + i /\ ~(j <= Len(s)) /\ j - Len(s) = i
      BY <1>1, <1>2
    <3>2. v[j] = u[i]
      BY <1>1, <3>1
    <3> QED
      BY <1>4, <3>2 DEF Plain
  <2> QED
    BY <2>1 DEF Plain
<1>5. ASSUME Plain(s, t), Plain(u, t) PROVE Plain(v, t)
  <2>1. ASSUME NEW i \in 1 .. Len(v) PROVE v[i][1] # ESC /\ v[i][2] = t
    <3>1. CASE i <= Len(s)
      <4>1. i \in 1 .. Len(s) /\ v[i] = s[i]
        BY <1>1, <1>2, <3>1
      <4> QED
        BY <1>5, <4>1 DEF Plain
    <3>2. CASE ~(i <= Len(s))
      <4>1. PICK j \in 1 .. Len(u) : j = i - Len(s)
        BY <1>1, <1>2, <3>2
      <4>2. v[i] = u[j]
        BY <1>1, <3>2, <4>1
      <4> QED
        BY <1>5, <4>2 DEF Plain
    <3> QED
      BY <3>1, <3>2
  <2> QED
    BY <2>1 DEF Plain
<1> QED
  BY <1>1, <1>3, <1>4, <1>5

\* A call begins, or returns at once.
LEMMA BeginInv ==
  ASSUME RttInv, NEW writes, Begin(writes), WritesOK(writes, _ActiveTerminal'),
         texts' \in 0 .. Symbols - 1, _ActiveTerminal' \in 0 .. NumTerminals - 1
  PROVE  RttInv'
<1>1. /\ w = Idle /\ calls' = calls + 1
      /\ w' = IF writes.pieces = << >> THEN Idle
              ELSE [pieces |-> writes.pieces, blocking |-> writes.blocking, stored |-> -1,
                    mayWait |-> Flags = SEGGER_RTT_MODE_BLOCK_IF_FIFO_FULL]
      /\ use' = use /\ buf' = buf /\ WrOff' = WrOff /\ RdOff' = RdOff /\ Flags' = Flags
      /\ r' = r /\ fifo' = fifo /\ host' = host
  BY DEF Begin
<1>2. /\ w'.pieces = writes.pieces /\ w'.stored = -1
      /\ w' \in [pieces : Seq(Seq(Item)), blocking : BOOLEAN, stored : Nat \cup {-1},
                 mayWait : BOOLEAN]
      /\ writes.pieces # << >> =>
           /\ w'.blocking = writes.blocking
           /\ w'.mayWait = (Flags = SEGGER_RTT_MODE_BLOCK_IF_FIFO_FULL)
  <2>1. CASE writes.pieces = << >>
    BY <1>1, <2>1, IdleIs
  <2>2. CASE writes.pieces # << >>
    BY <1>1, <2>2 DEF WritesOK
  <2> QED
    BY <2>1, <2>2
<1>3. RttTypeOK'
  BY <1>1, <1>2 DEF RttInv, RttTypeOK
<1>4. Unread' = Raw(fifo')
  BY <1>1 DEF RttInv, Unread
<1>5. ChunkIsStored' /\ SampleIsOld'
  BY <1>1, <1>2 DEF RttInv, ChunkIsStored, SampleIsOld
<1> DEFINE news == FlattenSeq(writes.pieces)
<1>6. news \in Seq(Item) /\ Len(news) \in Nat
  BY FlattenType, LenProperties DEF WritesOK
<1>7. Coming' = fifo \o news /\ Len(Coming') = Len(fifo) + Len(news) /\ fifo \in Seq(Item)
  <2>1. fifo \in Seq(Item)
    BY DEF RttInv, RttTypeOK
  <2> QED
    BY <1>1, <1>2, <1>6, <2>1, ConcatProperties DEF Coming
<1>8. RoomWasFound'
  <2>1. CASE writes.pieces = << >>
    <3>1. Len(news) = 0
      BY <2>1, FlattenEmpty
    <3> QED
      BY <1>1, <1>2, <1>7, <2>1, <3>1, RingFacts DEF RoomWasFound
  <2>2. CASE writes.pieces # << >>
    BY <1>2, <1>7, <2>2 DEF RoomWasFound, WritesOK
  <2> QED
    BY <2>1, <2>2
<1>9. Coming = fifo
  BY <1>1, <1>7, IdleIs, ConcatEmptySeq DEF Coming
<1>10. IsHeard(host, fifo, _ActiveTerminal)
       /\ (use = "drain" => host = On(_ActiveTerminal) /\ Plain(fifo, _ActiveTerminal))
  BY <1>9 DEF RttInv, StreamIsHeard, On
<1>11. IsHeard(host, fifo \o news, _ActiveTerminal')
  BY <1>6, <1>7, <1>10, HeardConcat DEF WritesOK
<1>12. use = "drain" => _ActiveTerminal' = _ActiveTerminal /\ Plain(fifo \o news, _ActiveTerminal)
  BY <1>6, <1>7, <1>10, PlainConcat DEF WritesOK
<1>13. StreamIsHeard'
  BY <1>1, <1>7, <1>10, <1>11, <1>12 DEF StreamIsHeard, On
<1> QED
  BY <1>3, <1>4, <1>5, <1>8, <1>13 DEF RttInv

-----------------------------------------------------------------------------
(* The calls that write.                                                   *)

LEMMA NothingOK ==
  ASSUME RttInv
  PROVE  WritesOK(Nothing, _ActiveTerminal)
<1>1. << >> \in Seq(Seq(Item)) /\ Nothing.pieces = << >> /\ Nothing.blocking = FALSE
  BY DEF Nothing
<1>2. _ActiveTerminal \in Nat
  BY DEF RttInv, RttTypeOK, NumTerminals
<1>3. FlattenSeq(Nothing.pieces) = << >>
  BY <1>1, FlattenEmpty
<1>4. IsHeard(On(_ActiveTerminal), FlattenSeq(Nothing.pieces), _ActiveTerminal)
  BY <1>2, <1>3, HeardNothing
<1>5. Plain(FlattenSeq(Nothing.pieces), _ActiveTerminal)
  BY <1>3 DEF Plain
<1>6. Len(fifo) + Len(FlattenSeq(Nothing.pieces)) < Size
  BY <1>3, RingFacts
<1>7. Len(Nothing.pieces) <= 1 /\ Nothing.pieces \in Seq(Seq(Item))
  BY <1>1
<1> QED
  BY <1>1, <1>4, <1>5, <1>6, <1>7 DEF WritesOK

\* One piece: room for it was found, or the mode is to wait for room.
LEMMA NoCheckOK ==
  ASSUME RttInv, NEW data \in Seq(Item), NEW a,
         Len(fifo) + Len(data) < Size, IsHeard(On(_ActiveTerminal), data, a),
         use = "drain" => a = _ActiveTerminal /\ Plain(data, a)
  PROVE  WritesOK(NoCheck(data), a)
<1>1. PICK ps \in Seq(Seq(Item)) : ps = <<data>> /\ Len(ps) = 1 /\ FlattenSeq(ps) = data
  BY FlattenOne
<1>2. PICK writes : writes = NoCheck(data)
  OBVIOUS
<1>3. writes.pieces = ps /\ writes.blocking = FALSE
  BY <1>1, <1>2 DEF NoCheck
<1>4. /\ writes.pieces \in Seq(Seq(Item)) /\ writes.blocking \in BOOLEAN
      /\ Len(writes.pieces) <= 1 /\ FlattenSeq(writes.pieces) = data
  <2>1. writes.pieces \in Seq(Seq(Item)) /\ writes.blocking \in BOOLEAN
    BY <1>3
  <2>2. Len(ps) <= 1 /\ FlattenSeq(ps) = data
    BY <1>1
  <2> QED
    BY <1>3, <2>1, <2>2
<1>5. WritesOK(writes, a)
  BY <1>4 DEF WritesOK
<1> QED
  BY <1>2, <1>5

LEMMA BlockingOK ==
  ASSUME RttInv, NEW data \in Seq(Item), NEW a,
         Flags = SEGGER_RTT_MODE_BLOCK_IF_FIFO_FULL, IsHeard(On(_ActiveTerminal), data, a),
         use = "drain" => a = _ActiveTerminal /\ Plain(data, a)
  PROVE  WritesOK(Blocking(data), a)
<1>1. <<data>> \in Seq(Seq(Item)) /\ FlattenSeq(<<data>>) = data
  BY FlattenOne
<1>2. Blocking(data).pieces = <<data>> /\ Blocking(data).blocking = TRUE
  BY DEF Blocking
<1> QED
  BY <1>1, <1>2 DEF WritesOK

\* To terminal t and back: two switches of two bytes around the text.
LEMMA FramedOK ==
  ASSUME RttInv, NEW t \in 0 .. NumTerminals - 1, NEW text \in Seq(Item), Plain(text, t),
         use # "drain",
         \/ Flags = SEGGER_RTT_MODE_BLOCK_IF_FIFO_FULL
         \/ Len(fifo) + Len(text) + 4 < Size
  PROVE  WritesOK(Framed(t, text), _ActiveTerminal)
<1> DEFINE a == _ActiveTerminal
           to == Switch(t)
           back == Switch(a)
           ps == ThreePieces(to, text, back)
<1>1. a \in 0 .. NumTerminals - 1 /\ a \in Nat /\ t \in Nat
  BY DEF RttInv, RttTypeOK, NumTerminals
<1>2. /\ to \in Seq(Item) /\ Len(to) = 2 /\ IsHeard(On(a), to, t)
      /\ back \in Seq(Item) /\ Len(back) = 2 /\ IsHeard(On(t), back, a)
  BY <1>1, HeardSwitch
<1>3. IsHeard(On(t), text, t)
  BY <1>1, HeardPlain
<1>p. Framed(t, text).pieces = ps /\ Framed(t, text).blocking = TRUE
  BY DEF Framed, _PostTerminalSwitch, ThreePieces
<1> HIDE DEF to, back
<1>4. ps \in Seq(Seq(Item)) /\ text \o back \in Seq(Item) /\ FlattenSeq(ps) = to \o (text \o back)
  <2>1. PICK x \in Seq(Item), y \in Seq(Item) : x = to /\ y = back
    BY <1>2
  <2>2. Flattens(ThreePieces(x, text, y), Item, x \o (text \o y))
    BY FlattenThree
  <2>3. text \o y \in Seq(Item)
    BY ConcatProperties
  <2> QED
    BY <2>1, <2>2, <2>3 DEF Flattens
<1> HIDE DEF ps
<1>5. IsHeard(On(t), text \o back, a)
  BY <1>2, <1>3, HeardConcat
<1>6. IsHeard(On(a), to \o (text \o back), a)
  BY <1>2, <1>4, <1>5, HeardConcat
<1>7. Len(to \o (text \o back)) = Len(text) + 4
  <2>1. Len(text \o back) = Len(text) + 2 /\ Len(text) \in Nat
    <3>1. Len(text \o back) = Len(text) + Len(back)
      BY <1>2, ConcatProperties
    <3> QED
      BY <1>2, <3>1, LenProperties
  <2>2. Len(to \o (text \o back)) = Len(to) + Len(text \o back)
    BY <1>2, <1>4, ConcatProperties
  <2> QED
    BY <1>2, <2>1, <2>2
<1>8. \/ Flags = SEGGER_RTT_MODE_BLOCK_IF_FIFO_FULL
      \/ Len(fifo) + Len(FlattenSeq(ps)) < Size
  <2>1. Len(text) \in Nat /\ Len(fifo) \in Nat
    BY RingFacts, LenProperties
  <2> QED
    BY <1>4, <1>7, <2>1
<1> QED
  BY <1>p, <1>4, <1>6, <1>8 DEF WritesOK

\* A text for the active terminal is one that may be written.
LEMMA SayInv ==
  ASSUME RttInv, NEW n \in Nat, NEW writes, Say(n, writes), WritesOK(writes, _ActiveTerminal)
  PROVE  RttInv'
<1>1. Begin(writes) /\ texts' = (texts + n) % Symbols /\ _ActiveTerminal' = _ActiveTerminal
  BY DEF Say
<1>2. texts \in 0 .. Symbols - 1 /\ Symbols \in 1 .. 48 /\ _ActiveTerminal \in 0 .. NumTerminals - 1
  BY RttAssumption DEF RttInv, RttTypeOK
<1>3. texts' \in 0 .. Symbols - 1
  BY <1>1, <1>2
<1> QED
  BY <1>1, <1>2, <1>3, BeginInv

LEMMA ActiveText ==
  ASSUME RttInv, NEW n \in Nat
  PROVE  /\ Text(n, _ActiveTerminal) \in Seq(Item) /\ Len(Text(n, _ActiveTerminal)) = n
         /\ Plain(Text(n, _ActiveTerminal), _ActiveTerminal)
         /\ IsHeard(On(_ActiveTerminal), Text(n, _ActiveTerminal), _ActiveTerminal)
<1>1. _ActiveTerminal \in Nat /\ texts \in 0 .. Symbols - 1
  BY DEF RttInv, RttTypeOK, NumTerminals
<1> QED
  BY <1>1, TextIs, HeardPlain

\* As much of a text as there is room for.
LEMMA TrimmedText ==
  ASSUME RttInv, NEW s \in Seq(Item), NEW t \in Nat, Plain(s, t), NEW n \in Nat
  PROVE  /\ SubSeq(s, 1, Least(n, Len(s))) \in Seq(Item)
         /\ Len(SubSeq(s, 1, Least(n, Len(s)))) <= n
         /\ Plain(SubSeq(s, 1, Least(n, Len(s))), t)
<1>1. PICK k \in 0 .. Len(s) : k = Least(n, Len(s)) /\ k <= n
  BY LenProperties DEF Least
<1>2. /\ SubSeq(s, 1, k) \in Seq(Item) /\ Len(SubSeq(s, 1, k)) = k
      /\ \A i \in 1 .. k : SubSeq(s, 1, k)[i] = s[i]
  BY Behind
<1>3. \A i \in 1 .. k : i \in 1 .. Len(s)
  BY LenProperties
<1>4. Plain(SubSeq(s, 1, k), t)
  BY <1>2, <1>3 DEF Plain
<1> QED
  BY <1>1, <1>2, <1>4

\* SEGGER_RTT_WriteNoLock and SEGGER_RTT_WriteDownBufferNoLock, in any mode.
LEMMA WriteOK ==
  ASSUME RttInv, NEW n \in Nat
  PROVE  WritesOK(SEGGER_RTT_WriteNoLock(Text(n, _ActiveTerminal)), _ActiveTerminal)
<1> DEFINE a == _ActiveTerminal
           data == Text(n, a)
           part == SubSeq(data, 1, Least(_GetAvailWriteSpace, Len(data)))
<1>1. /\ data \in Seq(Item) /\ Len(data) = n /\ Plain(data, a) /\ IsHeard(On(a), data, a)
  BY ActiveText
<1>2. /\ _GetAvailWriteSpace \in Nat /\ Len(fifo) \in Nat /\ Size \in Nat
      /\ _GetAvailWriteSpace = Size - 1 - Len(fifo)
  BY RingFacts, SizeIs
<1>3. a \in Nat
  BY DEF RttInv, RttTypeOK, NumTerminals
<1> HIDE DEF data
<1>4. CASE Flags = SEGGER_RTT_MODE_NO_BLOCK_SKIP /\ ~(_GetAvailWriteSpace < Len(data))
  <2>1. Len(fifo) + Len(data) < Size
    BY <1>1, <1>2, <1>4
  <2>2. SEGGER_RTT_WriteNoLock(data) = NoCheck(data)
    BY <1>4 DEF SEGGER_RTT_WriteNoLock, SEGGER_RTT_MODE_NO_BLOCK_SKIP,
                SEGGER_RTT_MODE_NO_BLOCK_TRIM, SEGGER_RTT_MODE_BLOCK_IF_FIFO_FULL
  <2> QED
    BY <1>1, <2>1, <2>2, NoCheckOK DEF data
<1>5. CASE Flags = SEGGER_RTT_MODE_NO_BLOCK_SKIP /\ _GetAvailWriteSpace < Len(data)
  <2>1. SEGGER_RTT_WriteNoLock(data) = Nothing
    BY <1>5 DEF SEGGER_RTT_WriteNoLock, SEGGER_RTT_MODE_NO_BLOCK_SKIP,
                SEGGER_RTT_MODE_NO_BLOCK_TRIM, SEGGER_RTT_MODE_BLOCK_IF_FIFO_FULL
  <2> QED
    BY <2>1, NothingOK DEF data
<1>6. CASE Flags = SEGGER_RTT_MODE_NO_BLOCK_TRIM
  <2>1. part \in Seq(Item) /\ Len(part) <= _GetAvailWriteSpace /\ Plain(part, a)
    BY <1>1, <1>2, <1>3, TrimmedText
  <2>2. SEGGER_RTT_WriteNoLock(data) = NoCheck(part)
    BY <1>6 DEF SEGGER_RTT_WriteNoLock, SEGGER_RTT_MODE_NO_BLOCK_SKIP,
                SEGGER_RTT_MODE_NO_BLOCK_TRIM, SEGGER_RTT_MODE_BLOCK_IF_FIFO_FULL
  <2> HIDE DEF part
  <2>3. Len(fifo) + Len(part) < Size
    BY <1>2, <2>1, LenProperties
  <2>4. IsHeard(On(a), part, a)
    BY <1>3, <2>1, HeardPlain
  <2> QED
    BY <2>1, <2>2, <2>3, <2>4, NoCheckOK DEF data
<1>7. CASE Flags = SEGGER_RTT_MODE_BLOCK_IF_FIFO_FULL
  <2>1. SEGGER_RTT_WriteNoLock(data) = Blocking(data)
    BY <1>7 DEF SEGGER_RTT_WriteNoLock, SEGGER_RTT_MODE_NO_BLOCK_SKIP,
                SEGGER_RTT_MODE_NO_BLOCK_TRIM, SEGGER_RTT_MODE_BLOCK_IF_FIFO_FULL
  <2> QED
    BY <1>1, <1>7, <2>1, BlockingOK DEF data
<1>8. CASE Flags \notin {SEGGER_RTT_MODE_NO_BLOCK_SKIP, SEGGER_RTT_MODE_NO_BLOCK_TRIM,
                         SEGGER_RTT_MODE_BLOCK_IF_FIFO_FULL}
  <2>1. SEGGER_RTT_WriteNoLock(data) = Nothing
    BY <1>8 DEF SEGGER_RTT_WriteNoLock
  <2> QED
    BY <2>1, NothingOK DEF data
<1> QED
  BY <1>4, <1>5, <1>6, <1>7, <1>8

\* The other calls' own tests for room.
LEMMA SkipOK ==
  ASSUME RttInv, NEW n \in Nat, SEGGER_RTT_WriteSkipNoLock(n)
  PROVE  RttInv'
<1> DEFINE a == _ActiveTerminal
           data == Text(n, a)
           Avail == IF RdOff <= WrOff THEN Size - WrOff - 1 ELSE RdOff - WrOff - 1
           fits == Avail >= n \/ (RdOff <= WrOff /\ Avail + RdOff >= n)
<1>1. data \in Seq(Item) /\ Len(data) = n /\ Plain(data, a) /\ IsHeard(On(a), data, a)
  BY ActiveText
<1>2. Say(n, IF fits THEN NoCheck(data) ELSE Nothing)
  BY DEF SEGGER_RTT_WriteSkipNoLock
<1>3. /\ WrOff \in 0 .. Size - 1 /\ RdOff \in 0 .. Size - 1 /\ Size \in Nat
      /\ Len(fifo) = IF WrOff >= RdOff THEN WrOff - RdOff ELSE WrOff - RdOff + Size
  <2>1. WrOff \in Slot(Size) /\ RdOff \in Slot(Size)
    BY DEF RttInv, RttTypeOK
  <2> QED
    BY <2>1, SizeIs, CountIs, RingFacts DEF Slot
<1>4. fits => Len(fifo) + n < Size
  BY <1>3
<1> HIDE DEF data, fits
<1>5. fits => WritesOK(NoCheck(data), a)
  BY <1>1, <1>4, NoCheckOK
<1> QED
  BY <1>2, <1>5, NothingOK, SayInv

LEMMA NextOffIs ==
  ASSUME RttInv, NextOff # RdOff
  PROVE  Len(fifo) + 1 < Size
<1>1. WrOff \in Slot(Size) /\ RdOff \in Slot(Size)
  BY DEF RttInv, RttTypeOK
<1>2. Len(fifo) = IF WrOff >= RdOff THEN WrOff - RdOff ELSE WrOff - RdOff + Size
  BY <1>1, SizeIs, CountIs, RingFacts
<1> QED
  BY <1>1, <1>2, SizeIs DEF Slot, NextOff

LEMMA PutCharOK ==
  ASSUME RttInv, SEGGER_RTT_PutChar \/ SEGGER_RTT_PutCharSkip \/ SEGGER_RTT_PutCharSkipNoLock
  PROVE  RttInv'
<1> DEFINE a == _ActiveTerminal
           data == Text(1, a)
<1>1. data \in Seq(Item) /\ Len(data) = 1 /\ Plain(data, a) /\ IsHeard(On(a), data, a)
  BY ActiveText
<1>2. PICK writes : /\ Say(1, writes)
                    /\ \/ writes = Nothing
                       \/ writes = NoCheck(data) /\ NextOff # RdOff
                       \/ writes = Blocking(data) /\ Flags = SEGGER_RTT_MODE_BLOCK_IF_FIFO_FULL
  BY DEF SEGGER_RTT_PutChar, SEGGER_RTT_PutCharSkip, SEGGER_RTT_PutCharSkipNoLock
<1> HIDE DEF data
<1>3. WritesOK(writes, a)
  <2>1. CASE writes = Nothing
    BY <2>1, NothingOK
  <2>2. CASE writes = NoCheck(data) /\ NextOff # RdOff
    <3>1. Len(fifo) + Len(data) < Size
      BY <1>1, <2>2, NextOffIs
    <3> QED
      BY <1>1, <2>2, <3>1, NoCheckOK
  <2>3. CASE writes = Blocking(data) /\ Flags = SEGGER_RTT_MODE_BLOCK_IF_FIFO_FULL
    BY <1>1, <2>3, BlockingOK
  <2> QED
    BY <1>2, <2>1, <2>2, <2>3
<1> QED
  BY <1>2, <1>3, SayInv

LEMMA SetTerminalOK ==
  ASSUME RttInv, use # "drain", NEW t \in Nat, SEGGER_RTT_SetTerminal(t)
  PROVE  RttInv'
<1> DEFINE blocks == Flags = SEGGER_RTT_MODE_BLOCK_IF_FIFO_FULL
           done == t < NumTerminals /\ (blocks \/ _GetAvailWriteSpace >= 2)
<1>1. /\ Begin(IF ~done THEN Nothing
               ELSE IF blocks THEN Blocking(Switch(t)) ELSE NoCheck(Switch(t)))
      /\ _ActiveTerminal' = IF done THEN t ELSE _ActiveTerminal
      /\ texts' = texts
  BY DEF SEGGER_RTT_SetTerminal
<1>2. _ActiveTerminal \in 0 .. NumTerminals - 1 /\ texts \in 0 .. Symbols - 1 /\ _ActiveTerminal \in Nat
  BY DEF RttInv, RttTypeOK, NumTerminals
<1>3. /\ Len(fifo) \in Nat /\ Size \in Nat /\ _GetAvailWriteSpace = Size - 1 - Len(fifo)
  BY RingFacts, SizeIs
<1>4. CASE done
  <2>1. t \in 0 .. NumTerminals - 1
    BY <1>4 DEF NumTerminals
  <2>2. PICK s \in Seq(Item) : s = Switch(t) /\ Len(s) = 2 /\ IsHeard(On(_ActiveTerminal), s, t)
    BY <1>2, <2>1, HeardSwitch
  <2>3. blocks => WritesOK(Blocking(s), t)
    BY <2>2, BlockingOK
  <2>4. ~blocks => WritesOK(NoCheck(s), t)
    <3>1. ~blocks => Len(fifo) + Len(s) < Size
      BY <1>3, <1>4, <2>2
    <3> QED
      BY <2>2, <3>1, NoCheckOK
  <2>5. _ActiveTerminal' = t
    BY <1>1, <1>4
  <2>6. Begin(IF blocks THEN Blocking(s) ELSE NoCheck(s))
    BY <1>1, <1>4, <2>2
  <2>7. WritesOK(IF blocks THEN Blocking(s) ELSE NoCheck(s), _ActiveTerminal')
    BY <2>3, <2>4, <2>5
  <2> HIDE DEF blocks
  <2> QED
    BY <1>1, <1>2, <2>1, <2>5, <2>6, <2>7, BeginInv
<1>5. CASE ~done
  <2>1. Begin(Nothing) /\ _ActiveTerminal' = _ActiveTerminal
    BY <1>1, <1>5
  <2> QED
    BY <1>1, <1>2, <2>1, NothingOK, BeginInv
<1> QED
  BY <1>4, <1>5

LEMMA TerminalOutOK ==
  ASSUME RttInv, use # "drain", NEW t \in Nat, NEW n \in Nat, SEGGER_RTT_TerminalOut(t, n)
  PROVE  RttInv'
<1> DEFINE Avail == _GetAvailWriteSpace
<1>1. /\ Len(fifo) \in Nat /\ Size \in Nat /\ Avail = Size - 1 - Len(fifo) /\ Avail \in Nat
  BY RingFacts, SizeIs
<1>2. texts \in 0 .. Symbols - 1
  BY DEF RttInv, RttTypeOK
<1> HIDE DEF Avail
<1>3. PICK writes : /\ Say(n, writes)
                    /\ \/ writes = Nothing
                       \/ /\ t < NumTerminals
                          /\ \E k \in Nat :
                               /\ writes = Framed(t, Text(k, t))
                               /\ \/ Flags = SEGGER_RTT_MODE_BLOCK_IF_FIFO_FULL
                                  \/ k + 4 <= Avail
  <2>1. Say(n, IF t < NumTerminals THEN TerminalText(Avail, t, n) ELSE Nothing)
    BY DEF SEGGER_RTT_TerminalOut, Avail
  <2>2. \/ TerminalText(Avail, t, n) = Nothing
        \/ \E k \in Nat : /\ TerminalText(Avail, t, n) = Framed(t, Text(k, t))
                          /\ \/ Flags = SEGGER_RTT_MODE_BLOCK_IF_FIFO_FULL
                             \/ k + 4 <= Avail
    <3>1. CASE Flags = SEGGER_RTT_MODE_NO_BLOCK_SKIP
      <4>1. TerminalText(Avail, t, n) = IF Avail < n + 4 THEN Nothing ELSE Framed(t, Text(n, t))
        BY <3>1 DEF TerminalText, SEGGER_RTT_MODE_NO_BLOCK_SKIP, SEGGER_RTT_MODE_NO_BLOCK_TRIM,
                    SEGGER_RTT_MODE_BLOCK_IF_FIFO_FULL
      <4>2. ~(Avail < n + 4) => n + 4 <= Avail
        BY <1>1
      <4> QED
        BY <4>1, <4>2
    <3>2. CASE Flags = SEGGER_RTT_MODE_NO_BLOCK_TRIM
      <4>1. TerminalText(Avail, t, n) = IF Avail < 4 THEN Nothing
                                        ELSE Framed(t, Text(Least(n, Avail - 4), t))
        BY <3>2 DEF TerminalText, SEGGER_RTT_MODE_NO_BLOCK_SKIP, SEGGER_RTT_MODE_NO_BLOCK_TRIM,
                    SEGGER_RTT_MODE_BLOCK_IF_FIFO_FULL
      <4>2. ~(Avail < 4) => Least(n, Avail - 4) \in Nat /\ Least(n, Avail - 4) + 4 <= Avail
        BY <1>1 DEF Least
      <4> QED
        BY <4>1, <4>2
    <3>3. CASE Flags = SEGGER_RTT_MODE_BLOCK_IF_FIFO_FULL
      BY <3>3 DEF TerminalText, SEGGER_RTT_MODE_NO_BLOCK_SKIP, SEGGER_RTT_MODE_NO_BLOCK_TRIM,
                  SEGGER_RTT_MODE_BLOCK_IF_FIFO_FULL
    <3>4. CASE Flags \notin {SEGGER_RTT_MODE_NO_BLOCK_SKIP, SEGGER_RTT_MODE_NO_BLOCK_TRIM,
                             SEGGER_RTT_MODE_BLOCK_IF_FIFO_FULL}
      BY <3>4 DEF TerminalText
    <3> QED
      BY <3>1, <3>2, <3>3, <3>4
  <2> QED
    BY <2>1, <2>2
<1>4. WritesOK(writes, _ActiveTerminal)
  <2>1. CASE writes = Nothing
    BY <2>1, NothingOK
  <2>2. ASSUME NEW k \in Nat, t < NumTerminals, writes = Framed(t, Text(k, t)),
               \/ Flags = SEGGER_RTT_MODE_BLOCK_IF_FIFO_FULL
               \/ k + 4 <= Avail
        PROVE  WritesOK(writes, _ActiveTerminal)
    <3>1. t \in 0 .. NumTerminals - 1
      BY <2>2 DEF NumTerminals
    <3>2. PICK s \in Seq(Item) : s = Text(k, t) /\ Len(s) = k /\ Plain(s, t)
      BY <1>2, TextIs
    <3>3. \/ Flags = SEGGER_RTT_MODE_BLOCK_IF_FIFO_FULL
          \/ Len(fifo) + Len(s) + 4 < Size
      BY <1>1, <2>2, <3>2
    <3> QED
      BY <2>2, <3>1, <3>2, <3>3, FramedOK
  <2> QED
    BY <1>3, <2>1, <2>2
<1> QED
  BY <1>3, <1>4, SayInv

-----------------------------------------------------------------------------
(* The writer's steps.                                                     *)

LEMMA StoreInv ==
  ASSUME RttInv, Store
  PROVE  RttInv'
<1> DEFINE p == Head(w.pieces)
           Room == Least(Least(_GetAvailWriteSpace, Size - WrOff), Len(p))
           n == IF w.blocking THEN Room ELSE Len(p)
           chunk == SubSeq(p, 1, n)
<1>1. /\ w.pieces # << >> /\ w.stored = -1
      /\ buf' = Put(WrOff, Raw(chunk)) /\ w' = [w EXCEPT !.stored = n]
      /\ use' = use /\ WrOff' = WrOff /\ RdOff' = RdOff /\ Flags' = Flags
      /\ _ActiveTerminal' = _ActiveTerminal /\ r' = r /\ fifo' = fifo /\ host' = host
      /\ texts' = texts /\ calls' = calls
  BY DEF Store
<1>2. /\ fifo \in Seq(Item) /\ w.pieces \in Seq(Seq(Item)) /\ buf \in Storage(Size, Byte)
      /\ WrOff \in Slot(Size) /\ RdOff \in Slot(Size) /\ w.blocking \in BOOLEAN
  BY DEF RttInv, RttTypeOK, Byte
<1>3. /\ Len(fifo) \in Nat /\ Len(fifo) = count(WrOff, RdOff, Size) /\ Len(fifo) < Size
      /\ _GetAvailWriteSpace = Size - 1 - Len(fifo) /\ Size \in Nat \ {0}
      /\ Len(Coming) = Len(fifo) + Len(FlattenSeq(w.pieces))
  BY RingFacts, SizeIs
<1>4. p \in Seq(Item) /\ Len(p) \in Nat
  BY <1>1, <1>2, HeadAndTail, LenProperties
<1>5. n \in 0 .. Len(p) /\ Len(fifo) + n < Size /\ (w.blocking => WrOff + n <= Size)
      /\ (~w.blocking => n = Len(p))
  <2>1. CASE w.blocking
    <3>1. WrOff \in Nat /\ Size - WrOff \in Nat
      BY <1>2, <1>3 DEF Slot
    <3>2. PICK k \in 0 .. Len(p) :
            k = Room /\ k <= Size - 1 - Len(fifo) /\ k <= Size - WrOff
      <4>1. /\ Room \in 0 .. Len(p)
            /\ Room <= Size - 1 - Len(fifo) /\ Room <= Size - WrOff
        BY <1>3, <1>4, <3>1 DEF Least
      <4> HIDE DEF Room
      <4> QED
        BY <4>1
    <3> HIDE DEF Room
    <3>3. n = k
      BY <2>1, <3>2
    <3> QED
      BY <1>3, <2>1, <3>1, <3>2, <3>3
  <2>2. CASE ~w.blocking
    <3>1. Len(w.pieces) <= 1 /\ Len(Coming) < Size
      BY <2>2 DEF RttInv, RoomWasFound
    <3>2. /\ FlattenSeq(w.pieces) = p \o FlattenSeq(Tail(w.pieces))
          /\ Tail(w.pieces) \in Seq(Seq(Item)) /\ Len(Tail(w.pieces)) = Len(w.pieces) - 1
      BY <1>1, <1>2, FlattenFirst
    <3>3. Len(FlattenSeq(w.pieces)) >= Len(p)
      <4>1. FlattenSeq(Tail(w.pieces)) \in Seq(Item)
        BY <3>2, FlattenType
      <4>2. Len(p \o FlattenSeq(Tail(w.pieces))) = Len(p) + Len(FlattenSeq(Tail(w.pieces)))
            /\ Len(FlattenSeq(Tail(w.pieces))) \in Nat
        BY <1>4, <4>1, ConcatProperties, LenProperties
      <4>3. Len(FlattenSeq(w.pieces)) = Len(p) + Len(FlattenSeq(Tail(w.pieces)))
        BY <3>2, <4>2
      <4> HIDE DEF p
      <4> QED
        BY <1>4, <4>2, <4>3
    <3>4. n = Len(p)
      BY <2>2
    <3>5. Len(FlattenSeq(w.pieces)) \in Nat
      BY RingFacts
    <3> HIDE DEF p, n
    <3> QED
      BY <1>3, <1>4, <2>2, <3>1, <3>3, <3>4, <3>5
  <2> QED
    BY <2>1, <2>2, <1>2
<1> HIDE DEF n, p
<1>6. /\ chunk \in Seq(Item) /\ Len(chunk) = n /\ n \in Nat /\ n < Size
      /\ \A k \in 1 .. n : chunk[k] = p[k]
  BY <1>3, <1>4, <1>5, Behind
<1> HIDE DEF chunk
<1>7. PICK bytes \in Seq(Byte) : /\ bytes = Raw(chunk) /\ Len(bytes) = n
                                 /\ \A k \in 1 .. n : bytes[k] = p[k][1]
  BY <1>6, RawIs
<1>8. /\ buf' \in Storage(Size, Byte) /\ KeptBut(buf', buf, WrOff, n, Size)
      /\ LiesAt(bytes, buf', WrOff, Size)
  BY <1>1, <1>2, <1>6, <1>7, PutIs
<1>9. Bytes(buf', WrOff, RdOff, Size) = Bytes(buf, WrOff, RdOff, Size)
  BY <1>2, <1>3, <1>5, <1>6, <1>8, RingStores
<1>10. w'.pieces = w.pieces /\ w'.blocking = w.blocking /\ w'.mayWait = w.mayWait /\ w'.stored = n
       /\ w' \in [pieces : Seq(Seq(Item)), blocking : BOOLEAN, stored : Nat \cup {-1},
                  mayWait : BOOLEAN]
  <2>1. w \in [pieces : Seq(Seq(Item)), blocking : BOOLEAN, stored : Nat \cup {-1},
               mayWait : BOOLEAN]
    BY DEF RttInv, RttTypeOK
  <2> QED
    BY <1>1, <1>6, <2>1
<1>11. RttTypeOK'
  BY <1>1, <1>8, <1>10 DEF RttInv, RttTypeOK, Byte
<1>12. Unread' = Raw(fifo')
  BY <1>1, <1>9 DEF RttInv, Unread
<1>13. ChunkIsStored'
  <2>1. \A k \in 1 .. n : buf'[(WrOff + k - 1) % Size] = p[k][1]
    BY <1>7, <1>8 DEF LiesAt
  <2> QED
    BY <1>1, <1>5, <1>10, <2>1 DEF ChunkIsStored, p
<1>14. Coming' = Coming
  BY <1>1, <1>10 DEF Coming
<1>15. SampleIsOld' /\ RoomWasFound' /\ StreamIsHeard'
  BY <1>1, <1>10, <1>14 DEF RttInv, SampleIsOld, RoomWasFound, StreamIsHeard
<1> QED
  BY <1>11, <1>12, <1>13, <1>15 DEF RttInv

\* What is published leaves what is coming as it is.
LEMMA PublishInv ==
  ASSUME RttInv, Publish
  PROVE  RttInv'
<1> DEFINE p == Head(w.pieces)
           n == w.stored
           chunk == SubSeq(p, 1, n)
           left == SubSeq(p, n + 1, Len(p))
           rest == Tail(w.pieces)
           more == IF left = << >> THEN rest ELSE <<left>> \o rest
<1>1. /\ n # -1
      /\ WrOff' = IF w.blocking THEN _WriteBlockingEnd(n) ELSE _WriteNoCheckEnd(n)
      /\ fifo' = fifo \o chunk
      /\ w' = IF more = << >> THEN Idle ELSE [w EXCEPT !.pieces = more, !.stored = -1]
      /\ use' = use /\ buf' = buf /\ RdOff' = RdOff /\ Flags' = Flags
      /\ _ActiveTerminal' = _ActiveTerminal /\ r' = r /\ host' = host
      /\ texts' = texts /\ calls' = calls
  BY DEF Publish
<1>2. /\ fifo \in Seq(Item) /\ w.pieces \in Seq(Seq(Item)) /\ buf \in Storage(Size, Byte)
      /\ WrOff \in Slot(Size) /\ RdOff \in Slot(Size) /\ w.blocking \in BOOLEAN
      /\ w \in [pieces : Seq(Seq(Item)), blocking : BOOLEAN, stored : Nat \cup {-1},
                mayWait : BOOLEAN]
  BY DEF RttInv, RttTypeOK, Byte
<1>3. /\ w.pieces # << >> /\ n <= Len(p) /\ Len(fifo) + n < Size
      /\ \A k \in 1 .. n : buf[(WrOff + k - 1) % Size] = p[k][1]
      /\ IF w.blocking THEN WrOff + n <= Size ELSE n = Len(p)
  BY <1>1 DEF RttInv, ChunkIsStored
<1>4. /\ Len(fifo) \in Nat /\ Len(fifo) = count(WrOff, RdOff, Size) /\ Size \in Nat \ {0}
  BY RingFacts, SizeIs
<1>5. /\ p \in Seq(Item) /\ rest \in Seq(Seq(Item)) /\ Len(rest) = Len(w.pieces) - 1
      /\ FlattenSeq(w.pieces) = p \o FlattenSeq(rest)
  BY <1>2, <1>3, FlattenFirst
<1>6. n \in 0 .. Len(p) /\ n \in Nat /\ n < Size
  <2>1. n \in Nat
    BY <1>1, <1>2
  <2> HIDE DEF n, p
  <2> QED
    BY <1>3, <1>4, <1>5, <2>1, LenProperties
<1> HIDE DEF n, p, rest
<1>7. /\ chunk \in Seq(Item) /\ Len(chunk) = n /\ left \in Seq(Item) /\ chunk \o left = p
      /\ Len(left) = Len(p) - n
      /\ \A k \in 1 .. n : chunk[k] = p[k]
  <2>1. chunk \in Seq(Item) /\ Len(chunk) = n /\ \A k \in 1 .. n : chunk[k] = p[k]
    BY <1>5, <1>6, Behind
  <2>2. left \in Seq(Item) /\ Len(left) = Len(p) - n
    BY <1>5, <1>6, Behind
  <2>3. chunk \o left = p
    BY <1>5, <1>6, Behind
  <2> QED
    BY <2>1, <2>2, <2>3
<1> HIDE DEF chunk, left
<1>8. WrOff' = Ahead(WrOff, n, Size)
  BY <1>1, <1>2, <1>3, <1>6, EndIs
<1>9. PICK bytes \in Seq(Byte) : /\ bytes = Raw(chunk) /\ Len(bytes) = n
                                 /\ \A k \in 1 .. n : bytes[k] = p[k][1]
  BY <1>7, RawIs
<1>10. LiesAt(bytes, buf, WrOff, Size)
  BY <1>3, <1>9 DEF LiesAt
<1>11. Bytes(buf, WrOff', RdOff, Size) = Bytes(buf, WrOff, RdOff, Size) \o bytes
  <2>1. count(WrOff, RdOff, Size) + Len(bytes) < Size
    BY <1>3, <1>4, <1>9
  <2>2. Bytes(buf, Ahead(WrOff, Len(bytes), Size), RdOff, Size)
          = Bytes(buf, WrOff, RdOff, Size) \o bytes
    BY <1>2, <1>4, <1>10, <2>1, RingPublishes
  <2> QED
    BY <1>8, <1>9, <2>2
<1>12. WrOff' \in Slot(Size) /\ count(WrOff', RdOff, Size) = Len(fifo) + n
  BY <1>2, <1>3, <1>4, <1>6, <1>8, CountGrows
<1>13. fifo' \in Seq(Item) /\ Len(fifo') = Len(fifo) + n
  BY <1>1, <1>2, <1>7, ConcatProperties
<1>14. Unread' = Raw(fifo')
  <2>1. Unread' = Unread \o bytes
    BY <1>1, <1>11 DEF Unread
  <2>2. Raw(fifo') = Raw(fifo) \o Raw(chunk)
    BY <1>1, <1>2, <1>7, RawConcat
  <2> QED
    BY <1>9, <2>1, <2>2 DEF RttInv
<1>15. more \in Seq(Seq(Item)) /\ FlattenSeq(more) = left \o FlattenSeq(rest)
       /\ (~w.blocking => more = << >>)
  <2>1. FlattenSeq(rest) \in Seq(Item)
    BY <1>5, FlattenType
  <2>2. CASE left = << >>
    <3>1. left \o FlattenSeq(rest) = FlattenSeq(rest)
      BY <2>1, <2>2, ConcatEmptySeq
    <3>2. ~w.blocking => rest = << >>
      <4>1. SUFFICES ASSUME ~w.blocking PROVE rest = << >>
        OBVIOUS
      <4>2. Len(w.pieces) <= 1 /\ Len(rest) \in Nat
        BY <1>5, <4>1, LenProperties DEF RttInv, RoomWasFound
      <4>3. Len(w.pieces) \in Nat
        BY <1>2, LenProperties
      <4>4. Len(rest) = Len(w.pieces) - 1
        BY <1>5
      <4>5. Len(rest) = 0
        <5>1. PICK k \in Nat, m \in Nat : k = Len(rest) /\ m = Len(w.pieces)
          BY <4>2, <4>3
        <5>2. m <= 1 /\ k = m - 1
          BY <4>2, <4>4, <5>1
        <5>3. k = 0
          BY <5>2
        <5> QED
          BY <5>1, <5>3
      <4> QED
        BY <1>5, <4>5, EmptySeq
    <3> QED
      BY <1>5, <2>2, <3>1, <3>2
  <2>3. CASE left # << >>
    <3>1. PICK one \in Seq(Seq(Item)) : one = <<left>>
      BY <1>7, FlattenOne
    <3>2. one \o rest \in Seq(Seq(Item))
      BY <1>5, ConcatProperties
    <3>3. FlattenSeq(<<left>> \o rest) = left \o FlattenSeq(rest)
      BY <1>5, <1>7, FlattenCons
    <3>4. w.blocking
      <4>1. SUFFICES ASSUME ~w.blocking PROVE FALSE
        OBVIOUS
      <4>2. Len(left) = 0
        BY <1>3, <1>6, <1>7, <4>1
      <4> QED
        BY <1>7, <2>3, <4>2, EmptySeq
    <3> QED
      BY <2>3, <3>1, <3>2, <3>3, <3>4
  <2> QED
    BY <2>2, <2>3
<1> HIDE DEF more
<1>16. /\ w'.pieces = more /\ w'.stored = -1
       /\ w' \in [pieces : Seq(Seq(Item)), blocking : BOOLEAN, stored : Nat \cup {-1},
                  mayWait : BOOLEAN]
       /\ more # << >> => w'.blocking = w.blocking /\ w'.mayWait = w.mayWait
  <2>1. CASE more = << >>
    BY <1>1, <2>1, IdleIs
  <2>2. CASE more # << >>
    BY <1>1, <1>2, <1>15, <2>2
  <2> QED
    BY <2>1, <2>2
<1>17. Coming' = Coming
  <2>1. PICK z \in Seq(Item) : z = FlattenSeq(rest)
    BY <1>5, FlattenType
  <2>2. Associates(fifo, chunk, left \o z) /\ Associates(chunk, left, z)
    <3>1. left \o z \in Seq(Item)
      BY <1>7, ConcatProperties
    <3> QED
      BY <1>2, <1>7, <3>1, JoinAssociates
  <2>3. (fifo \o chunk) \o (left \o z) = fifo \o (chunk \o (left \o z))
        /\ (chunk \o left) \o z = chunk \o (left \o z)
    BY <2>2 DEF Associates
  <2>4. Coming' = (fifo \o chunk) \o (left \o z)
    BY <1>1, <1>15, <1>16, <2>1 DEF Coming
  <2>5. Coming = fifo \o (p \o z)
    BY <1>5, <2>1 DEF Coming
  <2> QED
    BY <1>7, <2>3, <2>4, <2>5
<1>18. RttTypeOK'
  BY <1>1, <1>12, <1>13, <1>16 DEF RttInv, RttTypeOK
<1>19. ChunkIsStored' /\ StreamIsHeard'
  BY <1>1, <1>16, <1>17 DEF RttInv, ChunkIsStored, StreamIsHeard
<1>20. SampleIsOld'
  <2> SUFFICES ASSUME r.pc = "sampled"
               PROVE  r.rd = RdOff /\ count(r.wr, r.rd, Size) <= Len(fifo')
    BY <1>1 DEF SampleIsOld
  <2>1. r.rd = RdOff /\ count(r.wr, r.rd, Size) <= Len(fifo)
    BY DEF RttInv, SampleIsOld
  <2>2. r.wr \in Slot(Size)
    BY DEF RttInv, RttTypeOK, Sampled, Still
  <2>3. count(r.wr, r.rd, Size) \in Nat
    BY <1>2, <1>4, <2>1, <2>2, CountIs
  <2> QED
    BY <1>4, <1>6, <1>13, <2>1, <2>3
<1>21. RoomWasFound'
  <2>1. CASE more = << >>
    <3>1. Len(Coming') = Len(fifo')
      BY <1>13, <1>16, <2>1, FlattenEmpty, ConcatEmptySeq DEF Coming
    <3>2. w'.blocking = FALSE /\ Len(w'.pieces) = 0
      BY <1>1, <1>16, <2>1, IdleIs
    <3>3. Len(Coming') < Size
      BY <1>3, <1>13, <3>1
    <3> QED
      BY <3>2, <3>3 DEF RoomWasFound
  <2>2. CASE more # << >>
    BY <1>15, <1>16, <1>17, <2>2 DEF RttInv, RoomWasFound
  <2> QED
    BY <2>1, <2>2
<1> QED
  BY <1>14, <1>18, <1>19, <1>20, <1>21 DEF RttInv

-----------------------------------------------------------------------------
(* The reader's steps, and the calls that do both at once.                 *)

LEMMA SampleInv ==
  ASSUME RttInv, NEW n \in Nat, NEW waits \in BOOLEAN, Sample(n, waits)
  PROVE  RttInv'
<1> DEFINE new == [pc |-> "sampled", rd |-> RdOff, wr |-> WrOff, n |-> n, waits |-> waits]
<1>1. /\ r' = new
      /\ use' = use /\ buf' = buf /\ WrOff' = WrOff /\ RdOff' = RdOff /\ Flags' = Flags
      /\ _ActiveTerminal' = _ActiveTerminal /\ w' = w /\ fifo' = fifo /\ host' = host
      /\ texts' = texts /\ calls' = calls
  BY DEF Sample
<1>2. WrOff \in Slot(Size) /\ RdOff \in Slot(Size)
  BY DEF RttInv, RttTypeOK
<1>3. new \in Sampled
  BY <1>2 DEF Sampled
<1>4. new.rd = RdOff /\ new.wr = WrOff
  OBVIOUS
<1> HIDE DEF new
<1>5. RttTypeOK'
  BY <1>1, <1>3 DEF RttInv, RttTypeOK
<1>6. SampleIsOld'
  BY <1>1, <1>4, RingFacts DEF SampleIsOld
<1>7. Unread' = Raw(fifo') /\ ChunkIsStored' /\ RoomWasFound' /\ StreamIsHeard'
  BY <1>1 DEF RttInv, Unread, ChunkIsStored, RoomWasFound, StreamIsHeard, Coming
<1> QED
  BY <1>5, <1>6, <1>7 DEF RttInv

\* What is read is the oldest of what is in the ring.
LEMMA ReadIs ==
  ASSUME RttInv, r.pc = "sampled"
  PROVE  \E n \in 0 .. Len(fifo) : /\ ReadResult.RdOff = (RdOff + n) % Size
                                   /\ ReadResult.data = Raw(SubSeq(fifo, 1, n))
                                   /\ Len(ReadResult.data) = n
<1> DEFINE t == Taken(r.rd, r.wr, r.n)
           n == t.n
           f == [i \in 1 .. n |-> buf[(r.rd + i - 1) % Size]]
<1>1. /\ fifo \in Seq(Item) /\ buf \in Storage(Size, Byte)
      /\ WrOff \in Slot(Size) /\ RdOff \in Slot(Size) /\ r \in Sampled
  BY DEF RttInv, RttTypeOK, Byte, Still
<1>2. r.rd = RdOff /\ count(r.wr, r.rd, Size) <= Len(fifo)
  BY DEF RttInv, SampleIsOld
<1>3. r.rd \in Slot(Size) /\ r.wr \in Slot(Size) /\ r.n \in Nat
  BY <1>1 DEF Sampled
<1>4. n \in 0 .. count(r.wr, r.rd, Size) /\ t.RdOff = (r.rd + n) % Size
  BY <1>3, TakenIs
<1>5. /\ Len(fifo) \in Nat /\ Len(fifo) = count(WrOff, RdOff, Size) /\ Len(fifo) < Size
      /\ Raw(fifo) \in Seq(Byte) /\ Len(Raw(fifo)) = Len(fifo)
  BY RingFacts
<1>6. count(r.wr, r.rd, Size) \in Nat
  BY <1>3, SizeIs, CountIs
<1>7. ReadResult.RdOff = t.RdOff /\ ReadResult.data = f \o << >>
  BY DEF ReadResult, SEGGER_RTT_ReadNoLock, SEGGER_RTT_ReadUpBufferNoLock
<1>d. f = [i \in 1 .. n |-> buf[(r.rd + i - 1) % Size]]
  OBVIOUS
<1> HIDE DEF n, t, f
<1>8. n \in 0 .. Len(fifo)
  BY <1>2, <1>4, <1>5, <1>6
<1>9. ASSUME NEW i \in 1 .. n
      PROVE  f[i] = Raw(fifo)[i] /\ Raw(fifo)[i] \in Byte
  <2>1. i \in 1 .. count(WrOff, RdOff, Size)
    BY <1>5, <1>8
  <2>2. Unread[i] = buf[(RdOff + i - 1) % Size]
    BY <1>1, <2>1, SizeIs, RingType DEF Unread
  <2>3. Unread = Raw(fifo)
    BY DEF RttInv
  <2>4. Raw(fifo)[i] \in Byte
    <3>1. i \in 1 .. Len(Raw(fifo))
      BY <1>5, <2>1
    <3> QED
      BY <1>5, <3>1, ElementOfSeq
  <2> QED
    BY <1>2, <1>d, <2>2, <2>3, <2>4
<1>10. f \in [1 .. n -> Byte]
  BY <1>9, <1>d
<1>11. f \in Seq(Byte) /\ Len(f) = n
  <2>1. n \in Nat
    BY <1>8
  <2> QED
    BY <1>10, <2>1
<1>12. f \o << >> = f
  BY <1>11, ConcatEmptySeq
<1>13. /\ SubSeq(Raw(fifo), 1, n) \in Seq(Byte) /\ Len(SubSeq(Raw(fifo), 1, n)) = n
       /\ \A i \in 1 .. n : SubSeq(Raw(fifo), 1, n)[i] = Raw(fifo)[i]
  <2>1. PICK x \in Seq(Byte) : x = Raw(fifo) /\ Len(x) = Len(fifo)
    BY <1>5
  <2>2. n \in 0 .. Len(x)
    BY <1>8, <2>1
  <2>3. /\ SubSeq(x, 1, n) \in Seq(Byte) /\ Len(SubSeq(x, 1, n)) = n
        /\ \A i \in 1 .. n : SubSeq(x, 1, n)[i] = x[i]
    BY <2>2, Behind
  <2> QED
    BY <2>1, <2>3
<1>14. f = SubSeq(Raw(fifo), 1, n)
  BY <1>9, <1>11, <1>13, SeqEqual
<1>15. f = Raw(SubSeq(fifo, 1, n))
  BY <1>1, <1>8, <1>14, RawSplit
<1>16. ReadResult.RdOff = (RdOff + n) % Size
  BY <1>2, <1>4, <1>7
<1> QED
  BY <1>7, <1>8, <1>11, <1>12, <1>15, <1>16

\* Taking the n oldest items out of the ring and, perhaps, to the window.
LEMMA DiscardIs ==
  ASSUME RttInv, NEW n \in 0 .. Len(fifo)
  PROVE  /\ (RdOff + n) % Size \in Slot(Size)
         /\ SubSeq(fifo, n + 1, Len(fifo)) \in Seq(Item)
         /\ Len(SubSeq(fifo, n + 1, Len(fifo))) = Len(fifo) - n
         /\ count(WrOff, (RdOff + n) % Size, Size) = Len(fifo) - n
         /\ Bytes(buf, WrOff, (RdOff + n) % Size, Size) = Raw(SubSeq(fifo, n + 1, Len(fifo)))
<1>1. /\ fifo \in Seq(Item) /\ buf \in Storage(Size, Byte)
      /\ WrOff \in Slot(Size) /\ RdOff \in Slot(Size) /\ Unread = Raw(fifo)
  BY DEF RttInv, RttTypeOK, Byte
<1>2. Len(fifo) = count(WrOff, RdOff, Size)
  BY RingFacts
<1>3. n \in 0 .. count(WrOff, RdOff, Size)
  BY <1>2
<1>4. /\ (RdOff + n) % Size \in Slot(Size)
      /\ count(WrOff, (RdOff + n) % Size, Size) = Len(fifo) - n
      /\ Bytes(buf, WrOff, (RdOff + n) % Size, Size)
           = SubSeq(Bytes(buf, WrOff, RdOff, Size), n + 1, count(WrOff, RdOff, Size))
  BY <1>1, <1>2, <1>3, SizeIs, RingDiscard
<1>5. Bytes(buf, WrOff, (RdOff + n) % Size, Size) = SubSeq(Raw(fifo), n + 1, Len(fifo))
  BY <1>1, <1>2, <1>4 DEF Unread
<1>6. Raw(SubSeq(fifo, n + 1, Len(fifo))) = SubSeq(Raw(fifo), n + 1, Len(fifo))
  BY <1>1, RawSplit
<1>7. /\ SubSeq(fifo, n + 1, Len(fifo)) \in Seq(Item)
      /\ Len(SubSeq(fifo, n + 1, Len(fifo))) = Len(fifo) - n
  BY <1>1, Behind
<1> QED
  BY <1>4, <1>5, <1>6, <1>7

LEMMA ReleaseInv ==
  ASSUME RttInv, CopyAndRelease
  PROVE  RttInv'
<1> DEFINE got == ReadResult
<1>1. /\ r.pc = "sampled"
      /\ RdOff' = IF got.data = << >> THEN RdOff ELSE got.RdOff
      /\ r' = IF r.waits /\ got.data = << >> THEN [pc |-> "again"] ELSE Still
      /\ fifo' = SubSeq(fifo, Len(got.data) + 1, Len(fifo))
      /\ host' = Hearing(host, got.data)[Len(got.data)]
      /\ use' = use /\ buf' = buf /\ WrOff' = WrOff /\ Flags' = Flags
      /\ _ActiveTerminal' = _ActiveTerminal /\ w' = w /\ texts' = texts /\ calls' = calls
  BY DEF CopyAndRelease
<1>2. PICK n \in 0 .. Len(fifo) : /\ got.RdOff = (RdOff + n) % Size
                                  /\ got.data = Raw(SubSeq(fifo, 1, n)) /\ Len(got.data) = n
  BY <1>1, ReadIs
<1> HIDE DEF got
<1>3. /\ fifo \in Seq(Item) /\ RdOff \in Slot(Size) /\ WrOff \in Slot(Size)
      /\ Len(fifo) \in Nat /\ Len(fifo) < Size /\ Size \in Nat \ {0}
      /\ FlattenSeq(w.pieces) \in Seq(Item) /\ Coming \in Seq(Item)
      /\ Len(Coming) = Len(fifo) + Len(FlattenSeq(w.pieces)) /\ Len(FlattenSeq(w.pieces)) \in Nat
  BY RingFacts, SizeIs DEF RttInv, RttTypeOK
<1>4. RdOff' = (RdOff + n) % Size
  <2>1. CASE got.data = << >>
    <3>1. n = 0
      BY <1>2, <2>1
    <3>2. RdOff \in 0 .. Size - 1
      BY <1>3 DEF Slot
    <3>3. RdOff % Size = RdOff
      BY <1>3, <3>2, ModBelow
    <3>4. RdOff + n = RdOff
      BY <3>1, <3>2
    <3> QED
      BY <1>1, <2>1, <3>3, <3>4
  <2>2. CASE got.data # << >>
    BY <1>1, <1>2, <2>2
  <2> QED
    BY <2>1, <2>2
<1>5. fifo' = SubSeq(fifo, n + 1, Len(fifo))
  BY <1>1, <1>2
<1>6. /\ RdOff' \in Slot(Size) /\ fifo' \in Seq(Item) /\ Len(fifo') = Len(fifo) - n
      /\ Bytes(buf, WrOff, RdOff', Size) = Raw(fifo')
  BY <1>4, <1>5, DiscardIs
<1>7. r' \in {Still, [pc |-> "again"]} /\ r'.pc # "sampled"
  BY <1>1 DEF Still
<1> DEFINE front == SubSeq(fifo, 1, n)
           back == fifo' \o FlattenSeq(w.pieces)
<1>8. front \in Seq(Item) /\ Len(front) = n /\ front \o fifo' = fifo
  BY <1>3, <1>5, Behind
<1> HIDE DEF front
<1>9. Coming' = back /\ back \in Seq(Item) /\ Len(back) = Len(fifo') + Len(FlattenSeq(w.pieces))
  BY <1>1, <1>3, <1>6, ConcatProperties DEF Coming
<1>10. Coming = front \o back
  <2>1. Associates(front, fifo', FlattenSeq(w.pieces))
    BY <1>3, <1>6, <1>8, JoinAssociates
  <2> QED
    BY <1>8, <2>1 DEF Associates, Coming
<1> HIDE DEF back
<1>11. host' = Hearing(host, Raw(front))[Len(front)]
  BY <1>1, <1>2, <1>8 DEF front
<1>12. IsHeard(host', back, _ActiveTerminal)
  <2>1. IsHeard(host, front \o back, _ActiveTerminal)
    BY <1>10 DEF RttInv, StreamIsHeard
  <2> QED
    BY <1>8, <1>9, <1>11, <2>1, HeardSplit
<1>13. use = "drain" => host' = On(_ActiveTerminal) /\ Plain(back, _ActiveTerminal)
  <2> SUFFICES ASSUME use = "drain"
               PROVE  host' = On(_ActiveTerminal) /\ Plain(back, _ActiveTerminal)
    OBVIOUS
  <2>1. host = On(_ActiveTerminal) /\ Plain(front \o back, _ActiveTerminal)
    BY <1>10 DEF RttInv, StreamIsHeard, On
  <2>2. Plain(front, _ActiveTerminal) /\ Plain(back, _ActiveTerminal)
    BY <1>8, <1>9, <2>1, PlainConcat
  <2>3. _ActiveTerminal \in Nat
    BY DEF RttInv, RttTypeOK, NumTerminals
  <2> QED
    BY <1>8, <1>11, <2>1, <2>2, <2>3, HeardPlain
<1>14. host' \in HostWindow
  <2>1. PICK x \in Seq(Byte) : x = Raw(front) /\ Len(x) = Len(front)
    BY <1>8, RawIs
  <2>2. IsRun(Hearing(host, x), host, x)
    BY HearingIs, LenProperties
  <2>3. host \in HostWindow
    BY DEF RttInv, RttTypeOK
  <2>4. Hearing(host, x)[Len(x)] \in HostWindow
    BY <2>2, <2>3, HeardFrom
  <2> QED
    BY <1>11, <2>1, <2>4
<1>15. RttTypeOK'
  BY <1>1, <1>6, <1>7, <1>14 DEF RttInv, RttTypeOK
<1>16. Unread' = Raw(fifo')
  BY <1>1, <1>6 DEF Unread
<1>17. ChunkIsStored'
  <2> SUFFICES ASSUME w.stored # -1
               PROVE  /\ w.pieces # << >> /\ w.stored <= Len(Head(w.pieces))
                      /\ Len(fifo') + w.stored < Size
                      /\ \A k \in 1 .. w.stored :
                           buf[(WrOff + k - 1) % Size] = Head(w.pieces)[k][1]
                      /\ IF w.blocking THEN WrOff + w.stored <= Size
                         ELSE w.stored = Len(Head(w.pieces))
    BY <1>1 DEF ChunkIsStored
  <2>1. Len(fifo) + w.stored < Size
    BY DEF RttInv, ChunkIsStored
  <2>2. w.stored \in Nat
    BY DEF RttInv, RttTypeOK
  <2>3. Len(fifo') + w.stored < Size
    BY <1>3, <1>6, <2>1, <2>2
  <2> QED
    BY <2>3 DEF RttInv, ChunkIsStored
<1>18. SampleIsOld'
  BY <1>7 DEF SampleIsOld
<1>19. RoomWasFound'
  <2>1. Len(Coming') <= Len(Coming)
    BY <1>3, <1>6, <1>9
  <2>2. Len(Coming') \in Nat /\ Len(Coming) \in Nat
    BY <1>3, <1>9, LenProperties
  <2>3. Len(Coming) < Size => Len(Coming') < Size
    BY <1>3, <2>1, <2>2
  <2> QED
    BY <1>1, <2>3 DEF RttInv, RoomWasFound
<1>20. StreamIsHeard'
  BY <1>1, <1>9, <1>12, <1>13 DEF StreamIsHeard, On
<1> QED
  BY <1>15, <1>16, <1>17, <1>18, <1>19, <1>20 DEF RttInv

LEMMA SetFlagsInv ==
  ASSUME RttInv, NEW f \in NewModes, SetFlags(f)
  PROVE  RttInv'
<1>1. /\ Flags' = f /\ calls' = calls + 1
      /\ use' = use /\ buf' = buf /\ WrOff' = WrOff /\ RdOff' = RdOff
      /\ _ActiveTerminal' = _ActiveTerminal /\ w' = w /\ r' = r /\ fifo' = fifo
      /\ host' = host /\ texts' = texts
  BY DEF SetFlags
<1>2. f \in Modes
  BY RttAssumption DEF Modes, SEGGER_RTT_MODE_MASK
<1>3. RttTypeOK'
  BY <1>1, <1>2 DEF RttInv, RttTypeOK
<1>4. /\ Unread' = Raw(fifo') /\ ChunkIsStored' /\ SampleIsOld' /\ RoomWasFound'
      /\ StreamIsHeard'
  BY <1>1 DEF RttInv, Unread, ChunkIsStored, SampleIsOld, RoomWasFound, StreamIsHeard, Coming
<1> QED
  BY <1>3, <1>4 DEF RttInv

\* The one call that moves both offsets: as many of the oldest bytes go as the
\* text needs, so that what is left and the text fit.
LEMMA OverwriteInv ==
  ASSUME RttInv, w = Idle, r = Still, use = "drain", NEW n \in Nat,
         SEGGER_RTT_WriteWithOverwriteNoLock(n)
  PROVE  RttInv'
<1> DEFINE a == _ActiveTerminal
           data == Text(n, a)
           Avail == IF WrOff = RdOff THEN Size - 1
                    ELSE IF WrOff < RdOff THEN RdOff - WrOff - 1 ELSE RdOff - WrOff - 1 + Size
           lost == IF n > Avail THEN n - Avail ELSE 0
           rest == SubSeq(fifo, lost + 1, Len(fifo))
<1>1. /\ n < Size /\ calls' = calls + 1
      /\ RdOff' = (RdOff + lost) % Size /\ buf' = Put(WrOff, Raw(data))
      /\ WrOff' = _WriteNoCheckEnd(n)
      /\ fifo' = rest \o data /\ texts' = (texts + n) % Symbols
      /\ use' = use /\ Flags' = Flags /\ _ActiveTerminal' = a /\ w' = w /\ r' = r /\ host' = host
  BY DEF SEGGER_RTT_WriteWithOverwriteNoLock, _WriteNoCheckEnd
<1>2. /\ fifo \in Seq(Item) /\ buf \in Storage(Size, Byte)
      /\ WrOff \in Slot(Size) /\ RdOff \in Slot(Size) /\ a \in Nat
  BY DEF RttInv, RttTypeOK, Byte, NumTerminals
<1>3. /\ Len(fifo) \in Nat /\ Len(fifo) < Size /\ Size \in Nat
      /\ Len(fifo) = IF WrOff >= RdOff THEN WrOff - RdOff ELSE WrOff - RdOff + Size
  BY <1>2, SizeIs, CountIs, RingFacts
<1>4. lost \in 0 .. Len(fifo) /\ Len(fifo) - lost + n < Size
  <2>1. WrOff \in 0 .. Size - 1 /\ RdOff \in 0 .. Size - 1
    BY <1>2 DEF Slot
  <2>2. Avail = Size - 1 - Len(fifo)
    BY <1>3, <2>1
  <2>3. n < Size
    BY <1>1
  <2>4. PICK k : k = Avail
    OBVIOUS
  <2>5. lost = IF n > k THEN n - k ELSE 0
    BY <2>4
  <2>6. k = Size - 1 - Len(fifo)
    BY <2>2, <2>4
  <2> HIDE DEF Avail, lost
  <2>7. PICK len \in Nat : len = Len(fifo) /\ len < Size
    BY <1>3
  <2>8. lost \in 0 .. len /\ len - lost + n < Size
    BY <1>3, <2>3, <2>5, <2>6, <2>7
  <2> QED
    BY <2>7, <2>8
<1>5. data \in Seq(Item) /\ Len(data) = n /\ Plain(data, a)
  BY ActiveText
<1> HIDE DEF data, lost, Avail
<1>6. /\ RdOff' \in Slot(Size) /\ rest \in Seq(Item) /\ Len(rest) = Len(fifo) - lost
      /\ count(WrOff, RdOff', Size) = Len(fifo) - lost
      /\ Bytes(buf, WrOff, RdOff', Size) = Raw(rest)
  BY <1>1, <1>4, DiscardIs
<1>7. SubSeq(fifo, 1, lost) \in Seq(Item) /\ SubSeq(fifo, 1, lost) \o rest = fifo
  BY <1>2, <1>4, Behind
<1> HIDE DEF rest
<1>8. PICK bytes \in Seq(Byte) : bytes = Raw(data) /\ Len(bytes) = n
  BY <1>5, RawIs
<1>9. /\ buf' \in Storage(Size, Byte) /\ KeptBut(buf', buf, WrOff, n, Size)
      /\ LiesAt(bytes, buf', WrOff, Size)
  BY <1>1, <1>2, <1>8, PutIs
<1>10. count(WrOff, RdOff', Size) + n < Size /\ count(WrOff, RdOff', Size) + Len(bytes) < Size
  BY <1>4, <1>6, <1>8
<1>11. Bytes(buf', WrOff, RdOff', Size) = Raw(rest)
  BY <1>2, <1>6, <1>9, <1>10, SizeIs, RingStores
<1>12. WrOff' = Ahead(WrOff, n, Size)
  BY <1>1, <1>2, EndIs
<1>13. WrOff' \in Slot(Size)
  BY <1>2, <1>6, <1>10, <1>12, SizeIs, CountGrows
<1>14. Unread' = Raw(rest) \o bytes
  <2>1. Bytes(buf', Ahead(WrOff, Len(bytes), Size), RdOff', Size)
          = Bytes(buf', WrOff, RdOff', Size) \o bytes
    BY <1>2, <1>6, <1>9, <1>10, SizeIs, RingPublishes
  <2>2. Bytes(buf', WrOff', RdOff', Size) = Raw(rest) \o bytes
    BY <1>8, <1>11, <1>12, <2>1
  <2> QED
    BY <2>2 DEF Unread
<1>15. Unread' = Raw(fifo')
  BY <1>1, <1>5, <1>6, <1>8, <1>14, RawConcat
<1>16. fifo' \in Seq(Item) /\ Len(fifo') < Size
  <2>1. fifo' \in Seq(Item) /\ Len(fifo') = Len(rest) + Len(data)
    BY <1>1, <1>5, <1>6, ConcatProperties
  <2> QED
    BY <1>4, <1>5, <1>6, <2>1
<1>17. Coming = fifo /\ Coming' = fifo'
  BY <1>1, <1>2, <1>16, IdleIs, ConcatEmptySeq DEF Coming
<1>18. Plain(fifo', a) /\ host = On(a)
  <2>1. Plain(fifo, a) /\ host = On(a)
    BY <1>17 DEF RttInv, StreamIsHeard, On
  <2>2. Plain(rest, a)
    BY <1>6, <1>7, <2>1, PlainConcat
  <2> QED
    BY <1>1, <1>5, <1>6, <2>1, <2>2, PlainConcat
<1>19. IsHeard(On(a), fifo', a)
  BY <1>2, <1>16, <1>18, HeardPlain
<1>20. StreamIsHeard'
  BY <1>1, <1>17, <1>18, <1>19 DEF StreamIsHeard, On
<1>21. RttTypeOK'
  <2>1. texts \in 0 .. Symbols - 1 /\ Symbols \in 1 .. 48
    BY RttAssumption DEF RttInv, RttTypeOK
  <2>2. texts' \in 0 .. Symbols - 1
    BY <1>1, <2>1
  <2> QED
    BY <1>1, <1>6, <1>9, <1>13, <1>16, <2>2 DEF RttInv, RttTypeOK, Byte
<1>22. ChunkIsStored' /\ SampleIsOld'
  BY <1>1, IdleIs DEF ChunkIsStored, SampleIsOld, Still
<1>23. RoomWasFound'
  <2>1. Len(w'.pieces) = 0
    BY <1>1, IdleIs
  <2>2. Len(Coming') < Size
    BY <1>16, <1>17
  <2> QED
    BY <2>1, <2>2 DEF RoomWasFound
<1> QED
  BY <1>15, <1>20, <1>21, <1>22, <1>23 DEF RttInv

-----------------------------------------------------------------------------
(* Every step.                                                             *)

LEMMA RttStepInv == RttInv /\ [RttNext]_rttVars => RttInv'
<1> SUFFICES ASSUME RttInv, [RttNext]_rttVars
             PROVE  RttInv'
  OBVIOUS
<1>0. Lengths \subseteq Nat /\ OutLengths \subseteq Nat /\ Terminals \subseteq Nat /\ 1 \in Nat
      /\ TRUE \in BOOLEAN /\ FALSE \in BOOLEAN
  BY RttAssumption
<1>1. ASSUME NEW n \in Lengths,
             \/ SEGGER_RTT_WriteString(n)
             \/ SEGGER_RTT_WriteDownBuffer(n)
      PROVE  RttInv'
  <2>1. Say(n, SEGGER_RTT_WriteNoLock(Text(n, _ActiveTerminal))) /\ n \in Nat
    BY <1>0, <1>1 DEF SEGGER_RTT_WriteString, SEGGER_RTT_Write, SEGGER_RTT_WriteDownBuffer,
                      SEGGER_RTT_WriteDownBufferNoLock
  <2> QED
    BY <2>1, WriteOK, SayInv
<1>2. ASSUME NEW n \in Nat, NEW waits \in BOOLEAN, Sample(n, waits)
      PROVE  RttInv'
  BY <1>2, SampleInv
<1>3. CASE use = "up" /\ UpCall
  <2>1. use # "drain"
    BY <1>3
  <2>2. ASSUME NEW t \in Terminals, SEGGER_RTT_SetTerminal(t) PROVE RttInv'
    BY <1>0, <2>1, <2>2, SetTerminalOK
  <2>3. ASSUME NEW t \in Terminals, NEW n \in OutLengths, SEGGER_RTT_TerminalOut(t, n)
        PROVE  RttInv'
    BY <1>0, <2>1, <2>3, TerminalOutOK
  <2>4. ASSUME NEW f \in NewModes, SetFlags(f) PROVE RttInv'
    BY <2>4, SetFlagsInv
  <2> QED
    BY <1>1, <1>3, <2>2, <2>3, <2>4, PutCharOK DEF UpCall
<1>4. CASE use = "up" /\ ProbeReads
  BY <1>0, <1>2, <1>4 DEF ProbeReads, SEGGER_RTT_ReadUpBuffer
<1>5. CASE use = "drain" /\ DrainCall
  <2>1. w = Idle /\ r = Still /\ use = "drain"
    BY <1>5 DEF DrainCall
  <2>2. ASSUME NEW n \in Lengths, SEGGER_RTT_WriteSkipNoLock(n) PROVE RttInv'
    BY <1>0, <2>2, SkipOK
  <2>3. ASSUME NEW n \in Lengths, SEGGER_RTT_WriteWithOverwriteNoLock(n) PROVE RttInv'
    BY <1>0, <2>1, <2>3, OverwriteInv
  <2>4. ASSUME NEW n \in Lengths, SEGGER_RTT_ReadUpBuffer(n) PROVE RttInv'
    BY <1>0, <1>2, <2>4 DEF SEGGER_RTT_ReadUpBuffer
  <2> QED
    BY <1>5, <2>2, <2>3, <2>4, PutCharOK DEF DrainCall
<1>6. CASE use = "down" /\ DownCall
  <2>1. ASSUME NEW n \in Lengths, SEGGER_RTT_Read(n) PROVE RttInv'
    BY <1>0, <1>2, <2>1 DEF SEGGER_RTT_Read
  <2>2. ASSUME SEGGER_RTT_GetKey \/ SEGGER_RTT_WaitKey PROVE RttInv'
    BY <1>0, <1>2, <2>2 DEF SEGGER_RTT_GetKey, SEGGER_RTT_WaitKey
  <2>3. ASSUME NEW f \in NewModes, SetFlags(f) PROVE RttInv'
    BY <2>3, SetFlagsInv
  <2> QED
    BY <1>1, <1>6, <2>1, <2>2, <2>3 DEF DownCall
<1>7. CASE Writer
  BY <1>7, StoreInv, PublishInv DEF Writer
<1>8. CASE Reader
  <2>1. CASE CopyAndRelease
    BY <2>1, ReleaseInv
  <2>2. CASE Again
    BY <1>0, <1>2, <2>2 DEF Again
  <2> QED
    BY <1>8, <2>1, <2>2 DEF Reader
<1>9. CASE UNCHANGED rttVars
  BY <1>9 DEF rttVars, RttInv, RttTypeOK, Unread, ChunkIsStored, SampleIsOld, RoomWasFound,
              StreamIsHeard, Coming
<1> QED
  BY <1>3, <1>4, <1>5, <1>6, <1>7, <1>8, <1>9 DEF RttNext

LEMMA RttAlwaysInv == RttSpec => []RttInv
<1> QED
  BY RingInitInv, RttStepInv, PTL DEF RttSpec

-----------------------------------------------------------------------------
(* The theorems.                                                           *)

LEMMA FifoOfInv == RttInv => RingIsFifo
<1> SUFFICES ASSUME RttInv
             PROVE  RingIsFifo
  OBVIOUS
<1>1. Unread = Raw(fifo)
  BY DEF RttInv
<1>2. /\ fifo \in Seq(Item) /\ WrOff \in Slot(Size) /\ RdOff \in Slot(Size)
  BY DEF RttInv, RttTypeOK
<1>3. r.pc = "sampled" =>
        LET data == ReadResult.data IN data = Raw(SubSeq(fifo, 1, Len(data)))
  <2>1. SUFFICES ASSUME r.pc = "sampled"
                 PROVE  ReadResult.data = Raw(SubSeq(fifo, 1, Len(ReadResult.data)))
    OBVIOUS
  <2>2. PICK n \in 0 .. Len(fifo) : /\ ReadResult.data = Raw(SubSeq(fifo, 1, n))
                                    /\ Len(ReadResult.data) = n
    BY <2>1, ReadIs
  <2> QED
    BY <2>2
<1>4. /\ Len(fifo) \in Nat /\ Size \in Nat /\ _GetAvailWriteSpace = Size - 1 - Len(fifo)
      /\ Len(fifo) = IF WrOff >= RdOff THEN WrOff - RdOff ELSE WrOff - RdOff + Size
  BY <1>2, SizeIs, CountIs, RingFacts
<1>5. fifo = << >> <=> Len(fifo) = 0
  BY <1>2, EmptySeq
<1>6. WrOff \in 0 .. Size - 1 /\ RdOff \in 0 .. Size - 1
  BY <1>2 DEF Slot
<1>7. Len(fifo) = 0 <=> WrOff = RdOff
  BY <1>4, <1>6
<1>8. (SEGGER_RTT_HasKey = 1) = (fifo # << >>)
  BY <1>5, <1>7 DEF SEGGER_RTT_HasKey
<1>9. WrOff - RdOff # 0 <=> WrOff # RdOff
  BY <1>6
<1>10. /\ (SEGGER_RTT_HasData # 0) = (fifo # << >>)
       /\ (SEGGER_RTT_HasDataUp # 0) = (fifo # << >>)
  BY <1>5, <1>7, <1>9 DEF SEGGER_RTT_HasData, SEGGER_RTT_HasDataUp
<1>11. RdOff <= WrOff => SEGGER_RTT_GetBytesInBuffer = Len(fifo)
  BY <1>4, <1>6 DEF SEGGER_RTT_GetBytesInBuffer
<1> QED
  BY <1>1, <1>3, <1>4, <1>8, <1>10, <1>11 DEF RingIsFifo, SEGGER_RTT_GetAvailWriteSpace

\* The ring of SEGGER_RTT.c is a FIFO of the bytes published, of every size and
\* however writer and reader interleave: what lies between RdOff and WrOff is
\* what was published and not read, and a read that sampled the offsets before
\* the writer went on still copies the oldest of it, also with the calls that
\* overwrite what the reader has not fetched.
THEOREM RttRingIsFifo == RttSpec => []RingIsFifo
<1> QED
  BY RttAlwaysInv, FifoOfInv, PTL

LEMMA RoomOfInv == RttInv => NonBlockingNeverWaits
<1> SUFFICES ASSUME RttInv, ~w.mayWait
             PROVE  Len(FlattenSeq(w.pieces)) <= _GetAvailWriteSpace
  BY DEF NonBlockingNeverWaits
<1>1. Len(Coming) < Size
  BY DEF RttInv, RoomWasFound
<1>2. /\ Len(fifo) \in Nat /\ Len(FlattenSeq(w.pieces)) \in Nat /\ Size \in Nat
      /\ Len(Coming) = Len(fifo) + Len(FlattenSeq(w.pieces))
      /\ _GetAvailWriteSpace = Size - 1 - Len(fifo)
  BY RingFacts, SizeIs
<1> QED
  BY <1>1, <1>2

\* A call in a mode that must not block has the room it asked for until its
\* last byte is published: for one piece, for the two switches around the text
\* of SEGGER_RTT_TerminalOut, and in whatever chunks _WriteBlocking stores them.
THEOREM RttNonBlockingNeverWaits == RttSpec => []NonBlockingNeverWaits
<1> QED
  BY RttAlwaysInv, RoomOfInv, PTL

LEMMA HeardOfInv == RttInv => TextOnItsTerminal
<1> SUFFICES ASSUME RttInv
             PROVE  TextOnItsTerminal
  OBVIOUS
<1>1. fifo \in Seq(Item) /\ FlattenSeq(w.pieces) \in Seq(Item) /\ Unread = Raw(fifo)
  BY RingFacts DEF RttInv, RttTypeOK
<1>2. IsHeard(host, fifo \o FlattenSeq(w.pieces), _ActiveTerminal)
  BY DEF RttInv, StreamIsHeard, Coming
<1>3. \A i \in 1 .. Len(fifo) : Meant(Hearing(host, Raw(fifo))[i - 1], fifo[i])
  BY <1>1, <1>2, HeardSplit
<1> QED
  BY <1>1, <1>3 DEF TextOnItsTerminal

\* Whatever the modes, the room found and the interleaving, the probe shows
\* each byte of a text on the terminal it was written for, and shows no byte of
\* a terminal switch.
THEOREM RttTextOnItsTerminal == RttSpec => []TextOnItsTerminal
<1> QED
  BY RttAlwaysInv, HeardOfInv, PTL

=============================================================================
