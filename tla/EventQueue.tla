----------------------------- MODULE EventQueue -----------------------------
(***************************************************************************)
(* The event queue between the driver and the user space daemons           *)
(* (8192cd_security.c, DOT11_QUEUE): a ring of MaxItem slots.  DOT11_EnQueue *)
(* is called by the interrupt routine (frames that were received), by      *)
(* softirqs (frames of the bridge) and by system calls (ioctl);            *)
(* DOT11_DeQueue and, when a daemon starts, DOT11_InitQueue by system      *)
(* calls; DOT11_InitQueue also by the watchdog, in a timer softirq with    *)
(* interrupts off.                                                         *)
(*                                                                         *)
(* Concurrency.  One processor: the interrupt routine may interrupt a      *)
(* softirq and either may interrupt a system call, wherever interrupts are *)
(* enabled; a system call is not preempted by another.  EnQueue and DeQueue *)
(* disable interrupts only after they have tested for full and for empty,  *)
(* InitQueue not at all, so in a softirq or a system call they are not one *)
(* action but several.  Some of these interruptions harm the ring: harmed  *)
(* records them until the ring is reset.                                   *)
(***************************************************************************)
EXTENDS Integers, Sequences

CONSTANTS
  Events,        \* the events
  NoEvent,       \* what an empty queue delivers
  MaxItem        \* MAXQUEUESIZE

ASSUME EventsAssumption == NoEvent \notin Events
ASSUME SizeAssumption   == MaxItem \in Nat \ {0}

VARIABLES
  Head_, Tail_, NumItem, ItemArray,  \* DOT11_QUEUE (Head and Tail are the
                                     \* names of operators in Sequences)
  call,   \* what each interrupted context is about to do
  ret,    \* the answer of the last DOT11_EnQueue
  got,    \* what the last DOT11_DeQueue delivered
  harmed  \* history: since the ring was last reset an insertion found it full,
          \* a removal found it empty or an initialization was interrupted

ring == <<Head_, Tail_, NumItem, ItemArray>>
vars == <<Head_, Tail_, NumItem, ItemArray, call, ret, got, harmed>>

Contexts == {"syscall", "softirq"}
Slots    == 0 .. MaxItem - 1
Idle     == [op |-> "none", event |-> NoEvent]
Calls    == [op : {"none", "insert", "remove", "init Tail", "init NumItem"},
             event : Events \union {NoEvent}]

TypeOK ==
  /\ Head_ \in Slots /\ Tail_ \in Slots
  /\ NumItem \in Int /\ harmed \in BOOLEAN
  /\ ~harmed => NumItem \in 0 .. MaxItem
  /\ ItemArray \in [Slots -> Events \union {NoEvent}]
  /\ call \in [Contexts -> Calls]
  /\ ret \in {"ok", "full"}
  /\ got \in Events \union {NoEvent}

Init ==
  /\ Head_ = 0 /\ Tail_ = 0 /\ NumItem = 0
  /\ ItemArray = [i \in Slots |-> NoEvent]
  /\ call = [c \in Contexts |-> Idle]
  /\ ret = "ok" /\ got = NoEvent /\ harmed = FALSE

-----------------------------------------------------------------------------
(* Contexts.                                                               *)

\* Context c has the processor: no softirq is under way that it would have
\* been interrupted by, and what it does next is op.
Runs(c, op) == /\ call[c].op = op
               /\ c = "syscall" => call["softirq"].op = "none"

Initializing == call["syscall"].op \in {"init Tail", "init NumItem"}

Goes(c, op, e) == call' = [call EXCEPT ![c] = [op |-> op, event |-> e]]
Ends(c)        == call' = [call EXCEPT ![c] = Idle]

-----------------------------------------------------------------------------
(* DOT11_EnQueue.                                                          *)

\* Mutant: tested against one slot more.
FullLate == NumItem = MaxItem + 1

IsFull == NumItem = MaxItem

\* Mutant: an index that wraps one slot late skips the first one.
AfterSkipping(i) == IF i + 1 >= MaxItem THEN (i + 2) - MaxItem ELSE i + 1

After(i) == IF i + 1 = MaxItem THEN 0 ELSE i + 1

\* The part with interrupts off.
Insert(e) ==
  /\ ItemArray' = [ItemArray EXCEPT ![Tail_] = e]
  /\ NumItem' = NumItem + 1
  /\ Tail_' = After(Tail_)
  /\ ret' = "ok"
  /\ harmed' = (harmed \/ IsFull \/ Initializing)
  /\ UNCHANGED <<Head_, got>>

\* The ring is full, or what InitQueue has not yet reset says so.
Refused ==
  /\ IsFull
  /\ ret' = "full"
  /\ harmed' = (harmed \/ Initializing)

\* In the interrupt routine all of it is one step.
InterruptEnQueue(e) ==
  /\ ~IsFull
  /\ Insert(e)
  /\ UNCHANGED call

InterruptRefused ==
  /\ Refused
  /\ UNCHANGED <<ring, call, got>>

EnQueueTest(c, e) ==
  /\ Runs(c, "none")
  /\ \/ Refused /\ UNCHANGED call
     \/ ~IsFull /\ Goes(c, "insert", e) /\ UNCHANGED <<ret, harmed>>
  /\ UNCHANGED <<ring, got>>

EnQueueInsert(c) ==
  /\ Runs(c, "insert")
  /\ Insert(call[c].event)
  /\ Ends(c)

-----------------------------------------------------------------------------
(* DOT11_DeQueue, called by DOT11_EVENT_REQUEST.                           *)

DeQueueTest ==
  /\ Runs("syscall", "none")
  /\ IF NumItem = 0 THEN got' = NoEvent /\ UNCHANGED call
                    ELSE Goes("syscall", "remove", NoEvent) /\ UNCHANGED got
  /\ UNCHANGED <<ring, ret, harmed>>

DeQueueRemove ==
  /\ Runs("syscall", "remove")
  /\ got' = ItemArray[Head_]
  /\ NumItem' = NumItem - 1
  /\ Head_' = After(Head_)
  /\ harmed' = (harmed \/ NumItem = 0)
  /\ Ends("syscall")
  /\ UNCHANGED <<Tail_, ItemArray, ret>>

-----------------------------------------------------------------------------
(* DOT11_InitQueue.                                                        *)

InitQueueHead ==
  /\ Runs("syscall", "none")
  /\ Head_' = 0
  /\ Goes("syscall", "init Tail", NoEvent)
  /\ UNCHANGED <<Tail_, NumItem, ItemArray, ret, got, harmed>>

InitQueueTail ==
  /\ Runs("syscall", "init Tail")
  /\ Tail_' = 0
  /\ Goes("syscall", "init NumItem", NoEvent)
  /\ UNCHANGED <<Head_, NumItem, ItemArray, ret, got, harmed>>

InitQueueNumItem ==
  /\ Runs("syscall", "init NumItem")
  /\ NumItem' = 0
  /\ harmed' = (Head_ # 0 \/ Tail_ # 0)
  /\ Ends("syscall")
  /\ UNCHANGED <<Head_, Tail_, ItemArray, ret, got>>

\* The watchdog closes and opens the interface again: a softirq, with
\* interrupts off, at any point of a system call.
WatchdogReset ==
  /\ Runs("softirq", "none")
  /\ Head_' = 0 /\ Tail_' = 0 /\ NumItem' = 0 /\ harmed' = FALSE
  /\ UNCHANGED <<ItemArray, call, ret, got>>

-----------------------------------------------------------------------------

Next ==
  \/ \E e \in Events : InterruptEnQueue(e) \/ \E c \in Contexts : EnQueueTest(c, e)
  \/ InterruptRefused
  \/ \E c \in Contexts : EnQueueInsert(c)
  \/ DeQueueTest \/ DeQueueRemove
  \/ InitQueueHead \/ InitQueueTail \/ InitQueueNumItem
  \/ WatchdogReset

Spec == Init /\ [][Next]_vars

-----------------------------------------------------------------------------
(* Properties.                                                             *)

Slot(i) == IF Head_ + i >= MaxItem THEN Head_ + i - MaxItem ELSE Head_ + i

queue == IF Initializing THEN <<>>
         ELSE [i \in 1 .. NumItem |-> ItemArray[Slot(i - 1)]]

Fifo == INSTANCE BoundedFifo WITH queue <- queue

\* Wherever softirqs, the interrupt routine and the watchdog interrupt the
\* operations, events are delivered once each and in order, also across the end
\* of the ring, and are refused only when the queue is full: until an insertion
\* finds the ring full, a removal finds it empty or a DOT11_EnQueue comes in the
\* middle of DOT11_InitQueue, and again as soon as the ring is reset.
FifoImplemented ==
  Fifo!Init /\ [][harmed \/ harmed' \/ Fifo!Next]_<<queue, ret, got>>

\* Lines 45-48 of 8192cd_security.c, "Fail: return E_DOT11_QFULL if queue is
\* full": DOT11_EnQueue succeeds only if the queue is not full.
SucceedsOnlyIfNotFull ==
  [][\A c \in Contexts : EnQueueInsert(c) => ~IsFull]_vars
=============================================================================
