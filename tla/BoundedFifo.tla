---------------------------- MODULE BoundedFifo ----------------------------
(***************************************************************************)
(* What the event queue of the driver promises its users: events come out  *)
(* once each and in the order they were accepted in, an event is refused   *)
(* only when the queue is full, and nothing is there only when the queue   *)
(* is empty.                                                               *)
(***************************************************************************)
EXTENDS Naturals, Sequences

CONSTANTS Events, NoEvent, MaxItem

VARIABLES queue,   \* the events accepted and not yet delivered
          ret,     \* what the last enqueue operation answered
          got      \* what the last dequeue operation delivered

Init == queue = <<>> /\ ret = "ok" /\ got = NoEvent

Accept(e) == /\ Len(queue) < MaxItem
             /\ queue' = Append(queue, e) /\ ret' = "ok"
             /\ UNCHANGED got

Refuse == /\ Len(queue) = MaxItem
          /\ ret' = "full"
          /\ UNCHANGED <<queue, got>>

Deliver == /\ queue # <<>>
           /\ got' = Head(queue) /\ queue' = Tail(queue)
           /\ UNCHANGED ret

Nothing == /\ queue = <<>>
           /\ got' = NoEvent
           /\ UNCHANGED <<queue, ret>>

Clear == queue' = <<>> /\ UNCHANGED <<ret, got>>

Next == (\E e \in Events : Accept(e)) \/ Refuse \/ Deliver \/ Nothing \/ Clear

Spec == Init /\ [][Next]_<<queue, ret, got>>
=============================================================================
