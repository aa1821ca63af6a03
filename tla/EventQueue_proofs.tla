--------------------------- MODULE EventQueue_proofs ---------------------------
(***************************************************************************)
(* Theorems about EventQueue, for every size of the ring and every set of  *)
(* events, and with every interruption of the operations: until one of the *)
(* harmful ones (harmed) the indices are right and the ring is a FIFO, and *)
(* again from the next reset on.                                           *)
(***************************************************************************)
EXTENDS EventQueue, SequenceTheorems, TLAPS

-----------------------------------------------------------------------------
(* The inductive invariant.                                                *)

\* The used slots run from Head to Tail.
RingInv == ~harmed /\ ~Initializing => Tail_ = Slot(NumItem)

\* An interrupted insertion has an event to insert.
CallInv == \A c \in Contexts : call[c].op = "insert" => call[c].event \in Events

IInv == TypeOK /\ RingInv /\ CallInv

-----------------------------------------------------------------------------
(* Indices.                                                                *)

LEMMA SlotInRing ==
  ASSUME Head_ \in Slots, NEW i \in 0 .. MaxItem
  PROVE  Slot(i) \in Slots
BY SizeAssumption DEF Slots, Slot

LEMMA AfterInRing ==
  ASSUME NEW i \in Slots
  PROVE  After(i) \in Slots
BY SizeAssumption DEF Slots, After

LEMMA AfterSlot ==
  ASSUME Head_ \in Slots, NEW i \in 0 .. MaxItem - 1
  PROVE  After(Slot(i)) = Slot(i + 1)
BY SizeAssumption DEF Slots, Slot, After

LEMMA SlotsDiffer ==
  ASSUME Head_ \in Slots, NEW i \in 0 .. MaxItem - 1, NEW j \in 0 .. MaxItem - 1, i # j
  PROVE  Slot(i) # Slot(j)
BY SizeAssumption DEF Slots, Slot

-----------------------------------------------------------------------------
(* The invariant is inductive.                                             *)

LEMMA IInvInit == Init => IInv
<1> SUFFICES ASSUME Init PROVE IInv
  OBVIOUS
<1> USE SizeAssumption DEF Init
<1>1. call \in [Contexts -> Calls]
  BY DEF Idle, Calls
<1>2. ItemArray \in [Slots -> Events \union {NoEvent}]
  OBVIOUS
<1>3. Head_ \in Slots /\ Tail_ \in Slots /\ NumItem \in Int /\ NumItem \in 0 .. MaxItem
  BY DEF Slots
<1>4. harmed \in BOOLEAN
  OBVIOUS
<1>5. TypeOK
  BY <1>1, <1>2, <1>3, <1>4 DEF TypeOK
<1>6. RingInv
  BY DEF RingInv, Slot
<1>7. CallInv
  BY DEF CallInv, Contexts, Idle
<1> QED BY <1>5, <1>6, <1>7 DEF IInv

\* An insertion, in whichever context and whatever it overtakes, keeps the
\* invariant's part about the ring.
LEMMA InsertKeeps ==
  ASSUME TypeOK, RingInv, NEW e \in Events, Insert(e)
  PROVE  /\ Head_' \in Slots /\ Tail_' \in Slots /\ NumItem' \in Int
         /\ ~harmed' => NumItem' \in 0 .. MaxItem /\ Tail_' = Slot(NumItem)'
         /\ ItemArray' \in [Slots -> Events \union {NoEvent}]
         /\ ret' \in {"ok", "full"} /\ got' \in Events \union {NoEvent}
         /\ harmed' \in BOOLEAN
<1>1. /\ NumItem' = NumItem + 1 /\ Head_' = Head_ /\ Tail_' = After(Tail_)
      /\ ItemArray' = [ItemArray EXCEPT ![Tail_] = e]
      /\ ret' = "ok" /\ got' = got /\ harmed' = (harmed \/ IsFull \/ Initializing)
  BY DEF Insert
<1>2. Tail_' \in Slots
  BY <1>1, AfterInRing DEF TypeOK
<1>3. ASSUME ~harmed'  PROVE NumItem' \in 0 .. MaxItem /\ Tail_' = Slot(NumItem)'
  <2>1. ~harmed /\ ~IsFull /\ ~Initializing
    BY <1>1, <1>3
  <2>2. NumItem \in 0 .. MaxItem - 1 /\ Tail_ = Slot(NumItem) /\ Head_ \in Slots
    BY <2>1, SizeAssumption DEF TypeOK, RingInv, IsFull
  <2>3. Tail_' = Slot(NumItem + 1)
    BY <1>1, <2>2, AfterSlot
  <2>4. Slot(NumItem)' = Slot(NumItem + 1)
    BY <1>1 DEF Slot
  <2> QED BY <1>1, <2>2, <2>3, <2>4, SizeAssumption
<1> QED BY <1>1, <1>2, <1>3 DEF TypeOK

LEMMA IInvStep ==
  ASSUME IInv, [Next]_vars
  PROVE  IInv'
<1> USE DEF IInv
<1>a. MaxItem \in Nat \ {0} /\ 0 \in Slots
  BY SizeAssumption DEF Slots
<1>b. ASSUME NEW c \in Contexts, NEW op \in {"insert", "remove", "init Tail", "init NumItem"},
             NEW e \in Events \union {NoEvent}, op = "insert" => e \in Events, Goes(c, op, e)
      PROVE  call' \in [Contexts -> Calls] /\ CallInv'
  <2>1. call' \in [Contexts -> Calls]
    BY <1>b DEF TypeOK, Goes, Calls
  <2>2. \A d \in Contexts : call'[d] = IF d = c THEN [op |-> op, event |-> e] ELSE call[d]
    BY <1>b DEF TypeOK, Goes
  <2>3. ASSUME NEW d \in Contexts, call'[d].op = "insert"  PROVE call'[d].event \in Events
    <3>1. CASE d = c
      <4>1. call'[d] = [op |-> op, event |-> e]
        BY <2>2, <3>1
      <4> QED BY <4>1, <2>3, <1>b
    <3>2. CASE d # c
      BY <2>2, <2>3, <3>2 DEF CallInv
    <3> QED BY <3>1, <3>2
  <2> QED BY <2>1, <2>3 DEF CallInv
<1>c. ASSUME NEW c \in Contexts, Ends(c)
      PROVE  call' \in [Contexts -> Calls] /\ CallInv'
  <2>1. call' \in [Contexts -> Calls]
    BY <1>c DEF TypeOK, Ends, Idle, Calls
  <2>2. \A d \in Contexts : call'[d] = IF d = c THEN Idle ELSE call[d]
    BY <1>c DEF TypeOK, Ends
  <2>3. Idle.op # "insert"
    BY DEF Idle
  <2> QED BY <2>1, <2>2, <2>3 DEF CallInv
<1>d. ASSUME UNCHANGED <<Head_, Tail_, NumItem>>, ~harmed' => ~harmed, ~Initializing
      PROVE  RingInv'
  BY <1>d DEF RingInv, Slot
<1>1. ASSUME NEW e \in Events, InterruptEnQueue(e)  PROVE  IInv'
  <2>1. Insert(e) /\ call' = call
    BY <1>1 DEF InterruptEnQueue
  <2> QED BY <2>1, InsertKeeps DEF TypeOK, RingInv, CallInv
<1>2. ASSUME Refused, UNCHANGED <<ring, call, got>>  PROVE  IInv'
  BY <1>2 DEF Refused, ring, TypeOK, RingInv, CallInv, Slot, Initializing
<1>3. ASSUME NEW c \in Contexts, NEW e \in Events, EnQueueTest(c, e)  PROVE  IInv'
  <2>1. CASE Refused /\ UNCHANGED call
    BY <1>3, <2>1, <1>2 DEF EnQueueTest
  <2>2. CASE Goes(c, "insert", e) /\ UNCHANGED <<ret, harmed>>
    <3>1. UNCHANGED <<Head_, Tail_, NumItem, ItemArray, got, ret, harmed>> /\ Runs(c, "none")
      BY <1>3, <2>2 DEF EnQueueTest, ring
    <3>2. call' \in [Contexts -> Calls] /\ CallInv'
      BY <2>2, <1>b
    <3>3. Initializing' <=> Initializing
      BY <2>2, <3>1 DEF Goes, Runs, Initializing, TypeOK, Contexts
    <3>4. RingInv'
      BY <3>1, <3>3 DEF RingInv, Slot
    <3> QED BY <3>1, <3>2, <3>4 DEF TypeOK
  <2> QED BY <1>3, <2>1, <2>2 DEF EnQueueTest
<1>4. ASSUME NEW c \in Contexts, EnQueueInsert(c)  PROVE  IInv'
  <2>1. call[c].op = "insert" /\ call[c].event \in Events /\ Insert(call[c].event) /\ Ends(c)
    BY <1>4 DEF EnQueueInsert, Runs, CallInv
  <2>2. /\ Head_' \in Slots /\ Tail_' \in Slots /\ NumItem' \in Int
        /\ ~harmed' => NumItem' \in 0 .. MaxItem /\ Tail_' = Slot(NumItem)'
        /\ ItemArray' \in [Slots -> Events \union {NoEvent}]
        /\ ret' \in {"ok", "full"} /\ got' \in Events \union {NoEvent}
        /\ harmed' \in BOOLEAN
    BY <2>1, InsertKeeps
  <2>3. call' \in [Contexts -> Calls] /\ CallInv'
    BY <2>1, <1>c
  <2> QED BY <2>2, <2>3 DEF TypeOK, RingInv
<1>5. ASSUME DeQueueTest  PROVE  IInv'
  <2>1. Runs("syscall", "none") /\ UNCHANGED <<Head_, Tail_, NumItem, ItemArray, ret, harmed>>
    BY <1>5 DEF DeQueueTest, ring
  <2>2. ~Initializing
    BY <2>1 DEF Runs, Initializing
  <2>3. RingInv'
    BY <2>1, <2>2, <1>d
  <2>4. CASE NumItem = 0
    <3>1. call' = call /\ got' = NoEvent
      BY <1>5, <2>4 DEF DeQueueTest
    <3> QED BY <3>1, <2>1, <2>3 DEF TypeOK, CallInv
  <2>5. CASE NumItem # 0
    <3>1. Goes("syscall", "remove", NoEvent) /\ got' = got
      BY <1>5, <2>5 DEF DeQueueTest
    <3>2. call' \in [Contexts -> Calls] /\ CallInv'
      BY <3>1, <1>b DEF Contexts
    <3> QED BY <3>1, <3>2, <2>1, <2>3 DEF TypeOK
  <2> QED BY <2>4, <2>5
<1>6. ASSUME DeQueueRemove  PROVE  IInv'
  <2>1. /\ call["syscall"].op = "remove" /\ Ends("syscall")
        /\ got' = ItemArray[Head_] /\ NumItem' = NumItem - 1 /\ Head_' = After(Head_)
        /\ UNCHANGED <<Tail_, ItemArray, ret>> /\ harmed' = (harmed \/ NumItem = 0)
    BY <1>6 DEF DeQueueRemove, Runs
  <2>2. call' \in [Contexts -> Calls] /\ CallInv'
    BY <2>1, <1>c DEF Contexts
  <2>3. Head_' \in Slots
    BY <2>1, AfterInRing DEF TypeOK
  <2>4. ~Initializing
    BY <2>1 DEF Initializing
  <2>5. ASSUME ~harmed'  PROVE NumItem' \in 0 .. MaxItem /\ Tail_' = Slot(NumItem)'
    <3>1. ~harmed /\ NumItem # 0
      BY <2>1, <2>5
    <3>2. NumItem \in 1 .. MaxItem /\ Tail_ = Slot(NumItem)
      BY <3>1, <2>4, <1>a DEF TypeOK, RingInv
    <3>3. Slot(NumItem)' = Slot(NumItem)
      BY <2>1, <3>2, <1>a DEF TypeOK, Slots, Slot, After
    <3> QED BY <2>1, <3>2, <3>3, <1>a
  <2>6. got' \in Events \union {NoEvent} /\ NumItem' \in Int
    BY <2>1 DEF TypeOK
  <2> QED BY <2>1, <2>2, <2>3, <2>5, <2>6 DEF TypeOK, RingInv
<1>7. ASSUME InitQueueHead  PROVE  IInv'
  <2>1. /\ UNCHANGED <<Tail_, NumItem, ItemArray, got, ret, harmed>> /\ Head_' = 0
        /\ Goes("syscall", "init Tail", NoEvent)
    BY <1>7 DEF InitQueueHead
  <2>2. call' \in [Contexts -> Calls] /\ CallInv'
    BY <2>1, <1>b DEF Contexts
  <2>3. RingInv'
    BY <2>1 DEF RingInv, Initializing, Goes, TypeOK, Contexts
  <2> QED BY <2>1, <2>2, <2>3, <1>a DEF TypeOK
<1>8. ASSUME InitQueueTail  PROVE  IInv'
  <2>1. /\ UNCHANGED <<Head_, NumItem, ItemArray, got, ret, harmed>> /\ Tail_' = 0
        /\ Goes("syscall", "init NumItem", NoEvent)
    BY <1>8 DEF InitQueueTail
  <2>2. call' \in [Contexts -> Calls] /\ CallInv'
    BY <2>1, <1>b DEF Contexts
  <2>3. RingInv'
    BY <2>1 DEF RingInv, Initializing, Goes, TypeOK, Contexts
  <2> QED BY <2>1, <2>2, <2>3, <1>a DEF TypeOK
<1>9. ASSUME Head_' = 0, Tail_' = 0, NumItem' = 0  PROVE  Tail_' = Slot(NumItem)'
  BY <1>9, <1>a DEF Slot
<1>10. ASSUME InitQueueNumItem  PROVE  IInv'
  <2>1. /\ UNCHANGED <<Head_, Tail_, ItemArray, got, ret>> /\ NumItem' = 0
        /\ Ends("syscall") /\ harmed' = (Head_ # 0 \/ Tail_ # 0)
    BY <1>10 DEF InitQueueNumItem
  <2>2. call' \in [Contexts -> Calls] /\ CallInv'
    BY <2>1, <1>c DEF Contexts
  <2>3. ASSUME ~harmed'  PROVE Tail_' = Slot(NumItem)'
    BY <2>1, <2>3, <1>9
  <2> QED BY <2>1, <2>2, <2>3, <1>a DEF TypeOK, RingInv
<1>11. ASSUME WatchdogReset  PROVE  IInv'
  <2>1. /\ Head_' = 0 /\ Tail_' = 0 /\ NumItem' = 0 /\ harmed' = FALSE
        /\ UNCHANGED <<ItemArray, call, ret, got>>
    BY <1>11 DEF WatchdogReset
  <2>2. Tail_' = Slot(NumItem)'
    BY <2>1, <1>9
  <2>3. TypeOK'
    <3>1. NumItem' \in 0 .. MaxItem /\ NumItem' \in Int
      BY <2>1, <1>a
    <3>2. harmed' \in BOOLEAN
      BY <2>1
    <3> QED BY <2>1, <3>1, <3>2, <1>a DEF TypeOK
  <2> QED BY <2>1, <2>2, <2>3 DEF RingInv, CallInv
<1>12. ASSUME UNCHANGED vars  PROVE  IInv'
  BY <1>12 DEF vars, TypeOK, RingInv, CallInv, Slot, Initializing
<1>13. CASE InterruptRefused
  BY <1>13, <1>2 DEF InterruptRefused
<1> HIDE DEF IInv
<1> QED
  BY <1>1, <1>3, <1>4, <1>5, <1>6, <1>7, <1>8, <1>10, <1>11, <1>12, <1>13 DEF Next

\* The indices stay within the ring whatever interrupts what, and so does the
\* number of items until an insertion has found the ring full, a removal has
\* found it empty or DOT11_InitQueue was interrupted by an insertion.
THEOREM TypeCorrect == Spec => []TypeOK
<1>1. Init => IInv
  BY IInvInit
<1>2. IInv /\ [Next]_vars => IInv'
  BY IInvStep
<1>3. IInv => TypeOK
  BY DEF IInv
<1> QED BY <1>1, <1>2, <1>3, PTL DEF Spec

-----------------------------------------------------------------------------
(* The ring implements the FIFO.                                           *)

QueueInRing ==
  /\ queue \in Seq(Events \union {NoEvent}) /\ Len(queue) = NumItem
  /\ \A i \in 1 .. NumItem : queue[i] = ItemArray[Slot(i - 1)]

\* Outside an initialization the sequence is what the used slots hold.
LEMMA QueueContents == TypeOK /\ ~harmed /\ ~Initializing => QueueInRing
<1> SUFFICES ASSUME TypeOK, ~harmed, ~Initializing  PROVE QueueInRing
  OBVIOUS
<1>1. NumItem \in Nat /\ NumItem <= MaxItem /\ MaxItem \in Nat
  BY SizeAssumption DEF TypeOK
<1>2. queue = [i \in 1 .. NumItem |-> ItemArray[Slot(i - 1)]]
  BY DEF queue
<1>3. \A i \in 1 .. NumItem : ItemArray[Slot(i - 1)] \in Events \union {NoEvent}
  <2>1. \A i \in 1 .. NumItem : Slot(i - 1) \in Slots
    BY <1>1, SlotInRing DEF TypeOK
  <2> QED BY <2>1 DEF TypeOK
<1> QED BY <1>1, <1>2, <1>3 DEF QueueInRing

\* An insertion appends.
LEMMA InsertAppends ==
  ASSUME TypeOK, TypeOK', RingInv, ~harmed, ~harmed', ~Initializing', NEW e \in Events, Insert(e)
  PROVE  Fifo!Accept(e)
<1>1. NumItem \in 0 .. MaxItem - 1 /\ Tail_ = Slot(NumItem) /\ MaxItem \in Nat \ {0}
  <2>1. ~IsFull /\ ~Initializing
    BY DEF Insert
  <2> QED BY <2>1, SizeAssumption DEF TypeOK, RingInv, IsFull
<1>a. ~Initializing
  BY DEF Insert
<1>2. /\ queue \in Seq(Events \union {NoEvent}) /\ Len(queue) = NumItem
      /\ \A i \in 1 .. NumItem : queue[i] = ItemArray[Slot(i - 1)]
  BY <1>a, QueueContents DEF QueueInRing
<1>3. /\ queue' \in Seq(Events \union {NoEvent}) /\ Len(queue') = NumItem + 1
      /\ \A i \in 1 .. NumItem + 1 : queue'[i] = ItemArray'[Slot(i - 1)]
  <2>1. /\ queue' \in Seq(Events \union {NoEvent}) /\ Len(queue') = NumItem'
        /\ \A i \in 1 .. NumItem' : queue'[i] = ItemArray'[Slot(i - 1)']
    <3>1. QueueInRing'
      BY QueueContents, PTL
    <3> QED BY <3>1 DEF QueueInRing
  <2>2. NumItem' = NumItem + 1 /\ \A i \in 1 .. NumItem + 1 : Slot(i - 1)' = Slot(i - 1)
    BY DEF Insert, Slot
  <2> QED BY <2>1, <2>2
<1>4. \A i \in 1 .. NumItem : ItemArray'[Slot(i - 1)] = ItemArray[Slot(i - 1)]
  <2> TAKE i \in 1 .. NumItem
  <2>1. Slot(i - 1) # Tail_ /\ Slot(i - 1) \in Slots
    BY <1>1, SlotsDiffer, SlotInRing DEF TypeOK
  <2> QED BY <2>1 DEF Insert, TypeOK
<1>5. ItemArray'[Slot(NumItem)] = e
  BY <1>1 DEF Insert, TypeOK
<1>6. queue' = Append(queue, e)
  <2>1. /\ Append(queue, e) \in Seq(Events \union {NoEvent})
        /\ Len(Append(queue, e)) = NumItem + 1
        /\ \A i \in 1 .. NumItem + 1 :
              Append(queue, e)[i] = IF i = NumItem + 1 THEN e ELSE queue[i]
    BY <1>1, <1>2
  <2>2. \A i \in 1 .. NumItem + 1 : queue'[i] = Append(queue, e)[i]
    <3> TAKE i \in 1 .. NumItem + 1
    <3>1. CASE i = NumItem + 1
      BY <3>1, <2>1, <1>1, <1>3, <1>5
    <3>2. CASE i # NumItem + 1
      <4>1. i \in 1 .. NumItem
        BY <3>2, <1>1
      <4> QED BY <4>1, <3>2, <2>1, <1>2, <1>3, <1>4
    <3> QED BY <3>1, <3>2
  <2> QED BY <2>1, <2>2, <1>3
<1>7. Len(queue) < MaxItem /\ ret' = "ok" /\ got' = got
  BY <1>1, <1>2 DEF Insert
<1> QED BY <1>6, <1>7 DEF Fifo!Accept

\* A removal takes the first event.
LEMMA RemoveDelivers ==
  ASSUME TypeOK, TypeOK', ~harmed, ~harmed', ~Initializing, ~Initializing', DeQueueRemove
  PROVE  Fifo!Deliver
<1>1. NumItem \in 1 .. MaxItem /\ MaxItem \in Nat \ {0}
  BY SizeAssumption DEF TypeOK, DeQueueRemove
<1>2. /\ queue \in Seq(Events \union {NoEvent}) /\ Len(queue) = NumItem
      /\ \A i \in 1 .. NumItem : queue[i] = ItemArray[Slot(i - 1)]
  BY QueueContents DEF QueueInRing
<1>3. /\ queue' \in Seq(Events \union {NoEvent}) /\ Len(queue') = NumItem - 1
      /\ \A i \in 1 .. NumItem - 1 : queue'[i] = ItemArray[Slot(i)]
  <2>1. /\ queue' \in Seq(Events \union {NoEvent}) /\ Len(queue') = NumItem'
        /\ \A i \in 1 .. NumItem' : queue'[i] = ItemArray'[Slot(i - 1)']
    <3>1. QueueInRing'
      BY QueueContents, PTL
    <3> QED BY <3>1 DEF QueueInRing
  <2>2. NumItem' = NumItem - 1 /\ ItemArray' = ItemArray /\ Head_' = After(Head_)
    BY DEF DeQueueRemove
  <2>3. \A i \in 1 .. NumItem - 1 : Slot(i - 1)' = Slot(i)
    BY <2>2, <1>1 DEF Slot, After, TypeOK, Slots
  <2> QED BY <2>1, <2>2, <2>3
<1>4. queue # <<>> /\ Head(queue) = ItemArray[Head_]
  <2>1. Slot(0) = Head_
    BY <1>1 DEF Slot, TypeOK, Slots
  <2> QED BY <2>1, <1>1, <1>2
<1>5. queue' = Tail(queue)
  <2>1. /\ Tail(queue) \in Seq(Events \union {NoEvent})
        /\ Len(Tail(queue)) = NumItem - 1
        /\ \A i \in 1 .. NumItem - 1 : Tail(queue)[i] = queue[i + 1]
    BY <1>1, <1>2, <1>4
  <2>2. \A i \in 1 .. NumItem - 1 : queue'[i] = Tail(queue)[i]
    BY <2>1, <1>1, <1>2, <1>3
  <2> QED BY <2>1, <2>2, <1>3
<1> QED BY <1>4, <1>5 DEF DeQueueRemove, Fifo!Deliver

\* Every action is one of the FIFO or none, or harms, or repairs.
LEMMA FifoStep ==
  ASSUME IInv, IInv', [Next]_vars, ~harmed, ~harmed'
  PROVE  [Fifo!Next]_<<queue, ret, got>>
<1>a. TypeOK /\ TypeOK' /\ RingInv /\ CallInv
  BY DEF IInv
<1>1. ASSUME NEW e \in Events, Insert(e), ~Initializing'  PROVE  Fifo!Accept(e)
  BY <1>1, <1>a, InsertAppends
<1>2. ASSUME NEW e \in Events, InterruptEnQueue(e)  PROVE  Fifo!Accept(e)
  <2>1. Insert(e) /\ ~Initializing /\ call' = call
    BY <1>2 DEF InterruptEnQueue, Insert
  <2> QED BY <2>1, <1>1 DEF Initializing
<1>3. ASSUME NEW c \in Contexts, EnQueueInsert(c)
      PROVE  call[c].event \in Events /\ Fifo!Accept(call[c].event)
  <2>1. call[c].event \in Events /\ Insert(call[c].event) /\ Ends(c) /\ ~Initializing
    BY <1>3, <1>a DEF EnQueueInsert, Runs, CallInv, Insert
  <2>2. ~Initializing'
    BY <2>1, <1>a DEF Ends, Idle, Initializing, Contexts, TypeOK
  <2> QED BY <2>1, <2>2, <1>1
<1>4. ASSUME UNCHANGED <<ring, call>>  PROVE  queue' = queue
  BY <1>4 DEF queue, Initializing, Slot, ring
<1>5. ASSUME ~Initializing  PROVE  Len(queue) = NumItem
  BY <1>5, <1>a, QueueContents DEF QueueInRing
<1>6. ASSUME Refused, UNCHANGED <<ring, call, got>>  PROVE  Fifo!Refuse
  <2>1. IsFull /\ ~Initializing /\ ret' = "full"
    BY <1>6 DEF Refused
  <2> QED BY <2>1, <1>4, <1>5, <1>6 DEF IsFull, Fifo!Refuse
<1>7. ASSUME NEW c \in Contexts, NEW op \in {"insert", "remove"}, NEW e,
             Runs(c, "none"), Goes(c, op, e), UNCHANGED <<ring, ret, got>>
      PROVE  UNCHANGED <<queue, ret, got>>
  <2>1. Initializing' <=> Initializing
    BY <1>7, <1>a DEF Initializing, Goes, Runs, TypeOK, Contexts
  <2> QED BY <2>1, <1>7 DEF queue, Slot, ring
<1>8. ASSUME NEW c \in Contexts, NEW e \in Events, EnQueueTest(c, e)
      PROVE  Fifo!Refuse \/ UNCHANGED <<queue, ret, got>>
  <2>1. CASE Refused /\ UNCHANGED call
    BY <1>8, <2>1, <1>6 DEF EnQueueTest
  <2>2. CASE Goes(c, "insert", e) /\ UNCHANGED <<ret, harmed>>
    BY <1>8, <2>2, <1>7 DEF EnQueueTest
  <2> QED BY <1>8, <2>1, <2>2 DEF EnQueueTest
<1>9. ASSUME DeQueueTest  PROVE  Fifo!Nothing \/ UNCHANGED <<queue, ret, got>>
  <2>1. Runs("syscall", "none") /\ ~Initializing
    BY <1>9 DEF DeQueueTest, Runs, Initializing
  <2>2. CASE NumItem = 0
    <3>1. UNCHANGED <<ring, call, ret>> /\ got' = NoEvent
      BY <1>9, <2>2 DEF DeQueueTest
    <3>2. queue = <<>>
      BY <2>1, <2>2, <1>a, QueueContents DEF QueueInRing
    <3> QED BY <3>1, <3>2, <1>4 DEF Fifo!Nothing
  <2>3. CASE NumItem # 0
    <3>1. UNCHANGED <<ring, ret, got>> /\ Goes("syscall", "remove", NoEvent)
      BY <1>9, <2>3 DEF DeQueueTest
    <3> QED BY <3>1, <2>1, <1>7 DEF Contexts
  <2> QED BY <2>2, <2>3
<1>10. ASSUME DeQueueRemove  PROVE  Fifo!Deliver
  <2>1. call["syscall"].op = "remove" /\ Ends("syscall")
    BY <1>10 DEF DeQueueRemove, Runs
  <2>2. ~Initializing /\ ~Initializing'
    BY <2>1, <1>a DEF Ends, Idle, Initializing, TypeOK, Contexts
  <2> QED BY <2>2, <1>10, <1>a, RemoveDelivers
<1>11. ASSUME InitQueueHead  PROVE  Fifo!Clear
  <2>1. call'["syscall"].op = "init Tail" /\ UNCHANGED <<ret, got>>
    BY <1>11, <1>a DEF InitQueueHead, Goes, TypeOK, Contexts
  <2>2. queue' = <<>>
    BY <2>1 DEF queue, Initializing
  <2> QED BY <2>1, <2>2 DEF Fifo!Clear
<1>12. ASSUME InitQueueTail  PROVE  UNCHANGED <<queue, ret, got>>
  <2>1. /\ call["syscall"].op = "init Tail" /\ call'["syscall"].op = "init NumItem"
        /\ UNCHANGED <<ret, got>>
    BY <1>12, <1>a DEF InitQueueTail, Runs, Goes, TypeOK, Contexts
  <2> QED BY <2>1 DEF queue, Initializing
<1>13. ASSUME NumItem' = 0  PROVE  queue' = <<>>
  <2>1. CASE Initializing'
    BY <2>1 DEF queue
  <2>2. CASE ~Initializing'
    <3>1. QueueInRing'
      BY <2>2, <1>a, QueueContents, PTL
    <3> QED BY <1>13, <3>1 DEF QueueInRing
  <2> QED BY <2>1, <2>2
<1>14. ASSUME InitQueueNumItem \/ WatchdogReset  PROVE  Fifo!Clear
  <2>1. NumItem' = 0 /\ UNCHANGED <<ret, got>>
    BY <1>14 DEF InitQueueNumItem, WatchdogReset
  <2> QED BY <2>1, <1>13 DEF Fifo!Clear
<1>15. CASE \E e \in Events : InterruptEnQueue(e) \/ \E c \in Contexts : EnQueueTest(c, e)
  BY <1>15, <1>2, <1>8 DEF Fifo!Next
<1>16. CASE InterruptRefused
  BY <1>16, <1>6 DEF InterruptRefused, Fifo!Next
<1>17. CASE \E c \in Contexts : EnQueueInsert(c)
  BY <1>17, <1>3 DEF Fifo!Next
<1>18. CASE UNCHANGED vars
  BY <1>18, <1>4 DEF vars, ring
<1> QED
  BY <1>9, <1>10, <1>11, <1>12, <1>14, <1>15, <1>16, <1>17, <1>18
  DEF Next, Fifo!Next

\* Events are delivered once each, in the order they were accepted in, and
\* refused only when the ring is full, for any size of the ring and wherever the
\* operations are interrupted: until an insertion finds the ring full, a removal
\* finds it empty or DOT11_InitQueue is interrupted by an insertion, and again
\* from the next reset on.
THEOREM RingIsFifo == Spec => FifoImplemented
<1>1. Init => IInv
  BY IInvInit
<1>2. IInv /\ [Next]_vars => IInv'
  BY IInvStep
<1>3. Init => Fifo!Init
  <2> SUFFICES ASSUME Init  PROVE Fifo!Init
    OBVIOUS
  <2>1. ~Initializing /\ ~harmed /\ NumItem = 0 /\ TypeOK
    BY IInvInit DEF Init, IInv, Initializing, Idle, Contexts
  <2>2. queue = <<>>
    BY <2>1, QueueContents DEF QueueInRing
  <2> QED BY <2>2 DEF Init, Fifo!Init
<1>4. IInv /\ IInv' /\ [Next]_vars
        => [harmed \/ harmed' \/ Fifo!Next]_<<queue, ret, got>>
  BY FifoStep
<1> QED BY <1>1, <1>2, <1>3, <1>4, PTL DEF Spec, FifoImplemented
=============================================================================
