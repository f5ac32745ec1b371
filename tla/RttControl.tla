----------------------------- MODULE RttControl -----------------------------
(***************************************************************************)
(* The control block of SEGGER_RTT.c: its tables of up and down buffers,   *)
(* configured by the main program and by an interrupt that may preempt it  *)
(* wherever SEGGER_RTT_LOCK has not masked it.  Every call initialises the *)
(* block if it finds no "SEGGER RTT" in it, before it takes the lock.      *)
(***************************************************************************)
EXTENDS Integers, Sequences

CONSTANTS SEGGER_RTT_MAX_NUM_UP_BUFFERS, SEGGER_RTT_MAX_NUM_DOWN_BUFFERS,
          Buffers,      \* what callers pass: a name, a buffer and its size
          NewFlags,
          EarlyInterrupts,   \* whether an interrupt may call before main's first call is over
          MaxConfigs    \* bound on the calls

\* The tables have a slot for the terminal, and no caller passes NULL.
ASSUME ControlAssumption ==
  /\ SEGGER_RTT_MAX_NUM_UP_BUFFERS \in Nat \ {0}
  /\ SEGGER_RTT_MAX_NUM_DOWN_BUFFERS \in Nat \ {0}
  /\ "" \notin Buffers /\ EarlyInterrupts \in BOOLEAN /\ MaxConfigs \in Nat

VARIABLES acID,         \* whether the block says "SEGGER RTT"
          slots,        \* aUp and aDown
          call,         \* what main and the interrupt are in the middle of
          ready,        \* whether a call of main has returned
          allotted,     \* ghost: the allocations of each slot since it was configured
          configs

controlVars == <<acID, slots, call, ready, allotted, configs>>

MaxNum == [up |-> SEGGER_RTT_MAX_NUM_UP_BUFFERS, down |-> SEGGER_RTT_MAX_NUM_DOWN_BUFFERS]
Tables == {"up", "down"}
Indices(t) == 0 .. MaxNum[t] - 1
Contexts == {"main", "interrupt"}
Unset == [sName |-> "", pBuffer |-> "", Flags |-> 0]
Terminal == [sName |-> "Terminal", pBuffer |-> "Terminal", Flags |-> 0]
None == [pc |-> "none"]
Empty == [t \in Tables |-> [i \in Indices(t) |-> Unset]]
Unallotted == [t \in Tables |-> [i \in Indices(t) |-> << >>]]
-----------------------------------------------------------------------------
\* Faulty variant (validates SlotsStayAllocated): the lock does nothing.
SEGGER_RTT_LOCK_nothing == FALSE

\* The lock masks the interrupt.
SEGGER_RTT_LOCK == call["main"].pc \in {"scan", "fill"}

Runs(c) == c = "main" => call["interrupt"] = None

\* An interrupt comes when it is not masked; unless EarlyInterrupts, those that
\* log are enabled when main's first call, in which INIT and _DoInit are not
\* locked, has returned.
Enters(c) ==
  /\ call[c] = None /\ Runs(c)
  /\ c = "interrupt" => (ready \/ EarlyInterrupts) /\ ~SEGGER_RTT_LOCK

BeginCall(c, op) ==
  /\ Enters(c)
  /\ configs < MaxConfigs
  /\ configs' = configs + 1
  /\ call' = [call EXCEPT ![c] = [op EXCEPT !.pc = "check"]]
  /\ UNCHANGED <<acID, slots, ready, allotted>>

Op(do, t, i, given) == [pc |-> "", do |-> do, table |-> t, index |-> i, given |-> given]
Given(b) == [sName |-> b, pBuffer |-> b, Flags |-> 0]

SEGGER_RTT_AllocUpBuffer(c, b) == BeginCall(c, Op("alloc", "up", 0, Given(b)))
SEGGER_RTT_AllocDownBuffer(c, b) == BeginCall(c, Op("alloc", "down", 0, Given(b)))
SEGGER_RTT_ConfigUpBuffer(c, i, b) == BeginCall(c, Op("config", "up", i, Given(b)))
SEGGER_RTT_ConfigDownBuffer(c, i, b) == BeginCall(c, Op("config", "down", i, Given(b)))
SEGGER_RTT_SetNameUpBuffer(c, i, b) == BeginCall(c, Op("name", "up", i, Given(b)))
SEGGER_RTT_SetNameDownBuffer(c, i, b) == BeginCall(c, Op("name", "down", i, Given(b)))
SEGGER_RTT_SetFlagsUpBuffer(c, i, f) ==
  BeginCall(c, Op("flags", "up", i, [Unset EXCEPT !.Flags = f]))
SEGGER_RTT_SetFlagsDownBuffer(c, i, f) ==
  BeginCall(c, Op("flags", "down", i, [Unset EXCEPT !.Flags = f]))

At(c, pc) == call[c].pc = pc /\ Runs(c)
Goto(c, pc) == call' = [call EXCEPT ![c].pc = pc]
Return(c) == call' = [call EXCEPT ![c] = None] /\ ready' = (ready \/ c = "main")

INIT(c) ==
  /\ At(c, "check")
  /\ Goto(c, IF acID THEN "locking" ELSE "init")
  /\ UNCHANGED <<acID, slots, ready, allotted, configs>>

\* Slot 0 of each table is the terminal's; the id is written last.
Fresh == [t \in Tables |-> [i \in Indices(t) |-> IF i = 0 THEN Terminal ELSE Unset]]
_DoInit(c) ==
  /\ At(c, "init")
  /\ Goto(c, "locking")
  /\ slots' = Fresh
  /\ acID' = TRUE
  /\ UNCHANGED <<ready, allotted, configs>>

\* The first slot without a buffer, or none: the lock is held from here on.
Scan(c) ==
  /\ At(c, "locking") /\ call[c].do = "alloc"
  /\ LET t == call[c].table
         free == {i \in DOMAIN slots[t] : slots[t][i].pBuffer = ""}
         BufferIndex == IF free = {} THEN MaxNum[t] ELSE CHOOSE i \in free : \A j \in free : i <= j
     IN  call' = [call EXCEPT ![c] = [@ EXCEPT !.pc = "scan", !.index = BufferIndex]]
  /\ UNCHANGED <<acID, slots, ready, allotted, configs>>

Fill(c) ==
  LET t == call[c].table
      i == call[c].index
      found == i < MaxNum[t]
  IN  /\ At(c, "scan")
      /\ slots' = IF found THEN [slots EXCEPT ![t][i] = call[c].given] ELSE slots
      /\ allotted' = IF found
                     THEN [allotted EXCEPT ![t][i] = Append(@, call[c].given.pBuffer)]
                     ELSE allotted
      /\ Return(c)
      /\ UNCHANGED <<acID, configs>>

\* What ConfigUpBuffer, SetNameUpBuffer and SetFlagsUpBuffer, and those of the
\* down buffers, make of a slot: the buffer of slot 0 stays.
Changed(slot, op) ==
  CASE op.do = "config" /\ op.index # 0 -> op.given
    [] op.do = "config" /\ op.index = 0 -> [slot EXCEPT !.Flags = op.given.Flags]
    [] op.do = "name" -> [slot EXCEPT !.sName = op.given.sName]
    [] op.do = "flags" -> [slot EXCEPT !.Flags = op.given.Flags]

Change(c) ==
  LET op == call[c]
      found == op.index < MaxNum[op.table]
      change(table) == [table EXCEPT ![op.table][op.index] = Changed(@, op)]
  IN  /\ At(c, "locking") /\ op.do # "alloc"
      /\ slots' = IF found THEN change(slots) ELSE slots
      /\ allotted' = IF op.do = "config" /\ found
                     THEN [allotted EXCEPT ![op.table][op.index] = << >>]
                     ELSE allotted
      /\ Return(c)
      /\ UNCHANGED <<acID, configs>>

\* An intentional override, whatever is in the block: as by log_init, which
\* calls it at the start.
SEGGER_RTT_Init(c) ==
  /\ Enters(c)
  /\ acID' = TRUE /\ ready' = (ready \/ c = "main")
  /\ slots' = Fresh
  /\ allotted' = Unallotted
  /\ UNCHANGED <<call, configs>>
-----------------------------------------------------------------------------
ControlInit ==
  /\ acID = FALSE /\ ready = FALSE
  /\ slots = Empty
  /\ call = [c \in Contexts |-> None]
  /\ allotted = Unallotted /\ configs = 0

Calls(c) ==
  \/ \E b \in Buffers : SEGGER_RTT_AllocUpBuffer(c, b) \/ SEGGER_RTT_AllocDownBuffer(c, b)
  \/ \E b \in Buffers, i \in 0 .. SEGGER_RTT_MAX_NUM_UP_BUFFERS :
       SEGGER_RTT_ConfigUpBuffer(c, i, b) \/ SEGGER_RTT_SetNameUpBuffer(c, i, b)
  \/ \E b \in Buffers, i \in 0 .. SEGGER_RTT_MAX_NUM_DOWN_BUFFERS :
       SEGGER_RTT_ConfigDownBuffer(c, i, b) \/ SEGGER_RTT_SetNameDownBuffer(c, i, b)
  \/ \E f \in NewFlags, i \in 0 .. SEGGER_RTT_MAX_NUM_UP_BUFFERS :
       SEGGER_RTT_SetFlagsUpBuffer(c, i, f)
  \/ \E f \in NewFlags, i \in 0 .. SEGGER_RTT_MAX_NUM_DOWN_BUFFERS :
       SEGGER_RTT_SetFlagsDownBuffer(c, i, f)

ControlNext ==
  \E c \in Contexts : \/ Calls(c) \/ SEGGER_RTT_Init(c)
                      \/ INIT(c) \/ _DoInit(c) \/ Scan(c) \/ Fill(c) \/ Change(c)

ControlSpec == ControlInit /\ [][ControlNext]_controlVars
-----------------------------------------------------------------------------
\* Whoever was given a slot keeps it until someone configures it anew or calls
\* SEGGER_RTT_Init: no two allocations get one slot and INIT takes none away,
\* wherever an interrupt preempts main; slot 0 is the terminal's.  It takes that
\* interrupts call once main's first call has returned (~EarlyInterrupts): of
\* two calls that meet in INIT the second wipes what the first configured.
SlotsStayAllocated ==
  /\ \A t \in Tables : \A i \in Indices(t) :
       allotted[t][i] = << >> \/ allotted[t][i] = <<slots[t][i].pBuffer>>
  /\ acID => \A t \in Tables : slots[t][0].pBuffer = "Terminal"

(* The inductive invariant behind it.                                      *)
SlotRecord == [sName : Buffers \cup {"", "Terminal"}, pBuffer : Buffers \cup {"", "Terminal"},
               Flags : NewFlags \cup {0}]

ControlTypeOK ==
  /\ acID \in BOOLEAN /\ ready \in BOOLEAN /\ configs \in Nat
  /\ DOMAIN slots = Tables /\ DOMAIN allotted = Tables
  /\ \A t \in Tables : /\ slots[t] \in [Indices(t) -> SlotRecord]
                        /\ allotted[t] \in [Indices(t) -> Seq(Buffers)]
  /\ call \in [Contexts -> {None} \cup
                  [pc : {"check", "init", "locking", "scan"},
                   do : {"alloc", "config", "name", "flags"},
                   table : Tables, index : Nat, given : SlotRecord]]

\* Before the block says "SEGGER RTT" only main is in a call and nothing is
\* allotted; from "locking" on it does.
Initialised ==
  /\ ready => acID
  /\ \A c \in Contexts : /\ call[c].pc = "init" => ~acID
                         /\ call[c].pc \in {"locking", "scan"} => acID
  /\ ~acID => \A t \in Tables : \A i \in Indices(t) : allotted[t][i] = << >>

\* The lock keeps the interrupt out, so that the slot found stays free.
Locked ==
  /\ call["interrupt"] # None => ready /\ call["main"].pc # "scan"
  /\ \A c \in Contexts : call[c].pc = "scan" =>
       /\ call[c].do = "alloc"
       /\ call[c].index \in Indices(call[c].table) =>
            slots[call[c].table][call[c].index].pBuffer = ""

\* What an allocation will enter is a buffer.
Offered == \A c \in Contexts :
             call[c] # None /\ call[c].do = "alloc" => call[c].given.pBuffer \in Buffers

ControlInv == ControlTypeOK /\ Initialised /\ Locked /\ Offered /\ SlotsStayAllocated
=============================================================================
