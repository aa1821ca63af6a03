---------------------------- MODULE ReorderBuffer ----------------------------
(***************************************************************************)
(* The buffer that puts the frames of an aggregating station back into    *)
(* the order of their sequence numbers, and the ring of timeouts all      *)
(* buffers share (8192cd_rx.c, reorder_ctrl_* ).                          *)
(*                                                                         *)
(* A flow is a station with a traffic identifier.  A frame is the number   *)
(* it would have if numbers were not cut to 12 bits: n % SnSpace is the     *)
(* sequence number the code sees.  Reception, timeout and release run     *)
(* with interrupts off, so every handler is one action.                   *)
(***************************************************************************)
EXTENDS Integers, Sequences, FiniteSetsExt

CONSTANTS
  Flows,
  NoFlow,      \* a NULL pstat
  SnSpace,      \* 4096: sequence numbers have 12 bits
  WinSz,       \* ReorderCtrlWinSz, a power of two
  RingSize,    \* RC_TIMER_NUM, a power of two
  Timeout,     \* ReorderCtrlTimeout in ticks
  Frames,      \* bound: the numbers stations send, an interval
  Reach,       \* bound: how far a frame lies from the newest of its flow
  Repeated     \* the frames of which copies get past the tuple cache

ASSUME ReorderAssumption ==
  /\ WinSz \in Nat \ {0} /\ SnSpace \in Nat /\ SnSpace % WinSz = 0
  /\ RingSize \in Nat \ {0, 1} /\ Timeout \in Nat \ {0}
  /\ Reach \in Nat \ {0} /\ 2 * (Reach + WinSz) <= SnSpace
  /\ Frames \subseteq Nat /\ NoFlow \notin Flows /\ Repeated \subseteq Frames

NoFrame == -1
Off == -1

VARIABLES
  entry,    \* struct reorder_ctrl_entry of each flow
  ring,     \* rc_timer, rc_timer_head, rc_timer_tail; sys: rc_sys_timer
  up,       \* the frames of each flow its latest step passed up
  arrived   \* the frames of each flow received and still within reach

vars == <<entry, ring, up, arrived>>

Entries ==
  [packet_q : [0 .. WinSz - 1 -> Frames \cup {NoFrame}], start_rcv : BOOLEAN,
   rc_timer_id : 0 .. RingSize, win_start : 0 .. SnSpace - 1, last_seq : 0 .. SnSpace - 1]

Rings ==
  [slot : [0 .. RingSize - 1 -> [flow : Flows \cup {NoFlow}, left : -1 .. Timeout]],
   head : 0 .. RingSize - 1, tail : 0 .. RingSize - 1, sys : Off .. Timeout]

TypeOK ==
  /\ entry \in [Flows -> Entries]
  /\ ring \in Rings
  /\ up \in [Flows -> Seq(Frames)]
  /\ arrived \in [Flows -> SUBSET Frames]

-----------------------------------------------------------------------------
(* Sequence numbers *)

SN_NEXTUncut(n) == n + 1   \* mutant: without & 0xfff
SN_NEXT(n) == (n + 1) % SnSpace
SN_DIFF(a, b) == (a - b) % SnSpace
SN_LESSPlain(a, b) == a < b   \* mutant: numbers do not wrap
SN_LESS(a, b) == SN_DIFF(a, b) >= SnSpace \div 2

\* The frame in the slot of sequence number n.
At(e, n) == e.packet_q[n % WinSz]

\* The frames from n up to the first empty slot.
RunLength(e, n) == Min({k \in 0 .. WinSz : k = WinSz \/ At(e, n + k) = NoFrame})

\* What the slots of k numbers from n hold, in their order; each slot is
\* emptied when it is first visited.
Queued(e, n, k) ==
  LET upTo[i \in 0 .. WinSz] ==
        IF i = 0 THEN <<>>
        ELSE IF At(e, n + i - 1) = NoFrame THEN upTo[i - 1]
             ELSE Append(upTo[i - 1], At(e, n + i - 1))
  IN  upTo[IF k < WinSz THEN k ELSE WinSz]

Emptied(e, n, k) ==
  [e EXCEPT !.packet_q =
     [i \in 0 .. WinSz - 1 |-> IF (i - n) % WinSz < k THEN NoFrame ELSE @[i]]]

-----------------------------------------------------------------------------
(* The ring of timeouts.  "left" counts the ticks to a timeout and stays  *)
(* at -1 once it has passed.                                               *)

CIRC_CNT(head, tail) == (head - tail) % RingSize
CIRC_SPACE(head, tail) == (tail - head - 1) % RingSize

\* rc_timer_tail beyond the slots whose flow no longer waits
TailSkipped(r) ==
  LET n == CIRC_CNT(r.head, r.tail)
      Waits(i) == r.slot[(r.tail + i) % RingSize].flow # NoFlow
  IN  (r.tail + Min({i \in 0 .. n : i = n \/ Waits(i)})) % RingSize

AtLeast1(n) == IF n < 1 THEN 1 ELSE n

\* The system timer after a timeout is added behind the given tail.
SysTimer(r, tail, from_timeout) ==
  LET next == r.slot[tail].left
  IN  CASE tail = r.head /\ from_timeout -> Off
        [] tail = r.head /\ ~from_timeout -> Timeout
        [] tail # r.head /\ (from_timeout \/ tail = r.tail) -> r.sys
        [] OTHER -> IF next < 0 THEN Timeout ELSE AtLeast1(next)

Full(r) == CIRC_SPACE(r.head, TailSkipped(r)) = 0

reorder_ctrl_timer_add(r, f, from_timeout) ==
  LET tail == TailSkipped(r)
  IN  [slot |-> [r.slot EXCEPT ![r.head] = [flow |-> f, left |-> Timeout]],
       head |-> (r.head + 1) % RingSize,
       tail |-> tail,
       sys |-> SysTimer(r, tail, from_timeout)]

\* mutant: the slot still names the flow
ForgottenNot(r, id) == r

Forgotten(r, id) ==
  IF id = 0 THEN r
  ELSE [r EXCEPT !.slot = [r.slot EXCEPT
                   ![id - 1] = [flow |-> NoFlow, left |-> r.slot[id - 1].left]]]

-----------------------------------------------------------------------------
(* Steps of a flow.  s is a record of entry, ring and up.                 *)

Put(s, f, e, r, out) ==
  [entry |-> [s.entry EXCEPT ![f] = e], ring |-> r, up |-> [s.up EXCEPT ![f] = out]]

\* Everything up to last_seq goes up and the flow starts anew.
reorder_ctrl_consumeQ(s, f, e, r, out) ==
  LET k == SN_DIFF(e.last_seq, e.win_start) + 1
  IN  Put(s, f,
          [Emptied(e, e.win_start, k) EXCEPT !.start_rcv = FALSE, !.rc_timer_id = 0],
          r, out \o Queued(e, e.win_start, k))

\* The flow waits for what is missing at win_start, or, when the ring is
\* full, waits no more.
Await(s, f, e, r, out, from_timeout) ==
  IF Full(r)
  THEN reorder_ctrl_consumeQ(s, f, e, r, out)
  ELSE Put(s, f, [e EXCEPT !.rc_timer_id = r.head + 1],
           reorder_ctrl_timer_add(r, f, from_timeout), out)

Complete(e) == SN_LESS(e.last_seq, e.win_start)

\* e with the k numbers from n passed up and the window moved behind them
Advanced(e, n, k) == [Emptied(e, n, k) EXCEPT !.win_start = (n + k) % SnSpace]

Later(a, b) == IF SN_LESS(a, b) THEN b ELSE a

State == [entry |-> entry, ring |-> ring, up |-> up]

Becomes(s) == entry' = s.entry /\ ring' = s.ring /\ up' = s.up

-----------------------------------------------------------------------------
(* Reception *)

Newest(f) == CHOOSE n \in arrived[f] \cup {0} : \A m \in arrived[f] : m <= n

\* The next frame of a flow: not too far from the newest one, and not seen
\* before unless the tuple cache was emptied in between.
Arrives(f, n) ==
  LET top == IF n > Newest(f) THEN n ELSE Newest(f)
  IN  /\ n - Newest(f) <= Reach /\ Newest(f) - n <= Reach
      /\ n \in Repeated \/ n \notin arrived[f]
      /\ arrived' = [arrived EXCEPT ![f] = {m \in @ \cup {n} : top - m <= Reach}]

check_win_seqment(e, seq) ==
  IF SN_LESS(seq, e.win_start) THEN 1
  ELSE IF seq = e.win_start THEN 2
  ELSE IF /\ SN_LESS(e.win_start, seq)
          /\ SN_LESS(seq, (e.win_start + WinSz) % SnSpace) THEN 3
  ELSE 4

\* A flow without a window: only an aggregated frame opens one.
ReceivePlain(f, n) ==
  /\ ~entry[f].start_rcv
  /\ Arrives(f, n)
  /\ up' = [up EXCEPT ![f] = <<n>>]
  /\ UNCHANGED <<entry, ring>>

ReceiveFirst(f, n) ==
  /\ ~entry[f].start_rcv
  /\ Arrives(f, n)
  /\ Becomes(Put(State, f,
       [entry[f] EXCEPT !.start_rcv = TRUE, !.win_start = SN_NEXT(n % SnSpace),
                        !.last_seq = n % SnSpace], ring, <<n>>))

InSegment(f, n, segment) ==
  /\ entry[f].start_rcv
  /\ check_win_seqment(entry[f], n % SnSpace) = segment
  /\ Arrives(f, n)

\* Behind the window: passed up all the same.
ReceiveBehind(f, n) ==
  /\ InSegment(f, n, 1)
  /\ up' = [up EXCEPT ![f] = <<n>>]
  /\ UNCHANGED <<entry, ring>>

\* The frame the window waits for, and what follows up to the next hole.
NextReceived(e, n) ==
  LET seq == n % SnSpace
  IN  [Advanced(e, e.win_start + 1, RunLength(e, e.win_start + 1)) EXCEPT
         !.last_seq = Later(@, seq)]

ReceiveNext(f, n) ==
  LET old == entry[f]
      e == NextReceived(old, n)
      r == Forgotten(ring, old.rc_timer_id)
      out == <<n>> \o Queued(old, old.win_start + 1, RunLength(old, old.win_start + 1))
  IN  /\ InSegment(f, n, 2)
      /\ Becomes(IF Complete(e)
                 THEN Put(State, f, [e EXCEPT !.rc_timer_id = 0], r, out)
                 ELSE Await(State, f, e, r, out, FALSE))

Stored(e, n) == [e EXCEPT !.packet_q[n % WinSz] = n]

ReceiveWithin(f, n) ==
  LET e == [Stored(entry[f], n) EXCEPT !.last_seq = Later(@, n % SnSpace)]
  IN  /\ InSegment(f, n, 3)
      /\ At(entry[f], n) = NoFrame
      /\ Becomes(IF e.rc_timer_id # 0
                 THEN Put(State, f, e, ring, <<>>)
                 ELSE Await(State, f, e, ring, <<>>, FALSE))

\* "skb already in rc queue": the frame is dropped.
ReceiveAgain(f, n) ==
  /\ InSegment(f, n, 3)
  /\ At(entry[f], n) # NoFrame
  /\ Arrives(f, n)
  /\ up' = [up EXCEPT ![f] = <<>>]
  /\ UNCHANGED <<entry, ring>>

\* How far the window moves until seq lies in it and a hole begins it.
Shift(e, seq) ==
  LET Stop(k) == /\ SN_DIFF(seq, (e.win_start + k) % SnSpace) < WinSz
                 /\ k >= WinSz \/ At(e, e.win_start + k) = NoFrame
  IN  Min({k \in 0 .. SnSpace - 1 : Stop(k)})

ReceiveBeyond(f, n) ==
  LET old == entry[f]
      seq == n % SnSpace
      k == Shift(old, seq)
      e == [Stored(Advanced(old, old.win_start, k), n) EXCEPT !.last_seq = seq]
  IN  /\ InSegment(f, n, 4)
      /\ Becomes(Await(State, f, e, Forgotten(ring, old.rc_timer_id),
                       Queued(old, old.win_start, k), FALSE))

Receive ==
  \E f \in Flows, n \in Frames :
    \/ ReceivePlain(f, n) \/ ReceiveFirst(f, n) \/ ReceiveBehind(f, n)
    \/ ReceiveNext(f, n) \/ ReceiveWithin(f, n) \/ ReceiveAgain(f, n)
    \/ ReceiveBeyond(f, n)

-----------------------------------------------------------------------------
(* Timeouts *)

\* mutant: no timeout for the frames still missing
GiveUpOnce(s, f, r) ==
  LET e == s.entry[f]
      k == RunLength(e, e.win_start + 1)
  IN  Put(s, f, [Advanced(e, e.win_start + 1, k) EXCEPT !.rc_timer_id = 0], r,
          Queued(e, e.win_start + 1, k))

\* One missing frame is given up and what follows it is passed up.
GiveUp(s, f, r) ==
  LET old == s.entry[f]
      first == IF At(old, old.win_start) = NoFrame THEN old.win_start + 1
               ELSE old.win_start
      k == RunLength(old, first)
      e == Advanced(old, first, k)
      out == Queued(old, first, k)
  IN  IF Complete(e)
      THEN Put(s, f, [e EXCEPT !.start_rcv = FALSE, !.rc_timer_id = 0], r, out)
      ELSE Await(s, f, e, r, out, TRUE)

\* r once the slot at the tail has been dealt with
Passed(r) == [Forgotten(r, r.tail + 1) EXCEPT !.tail = (r.tail + 1) % RingSize]

\* One slot of the ring; s.stop is set at the first that is not due.
ExpireSlot(s, head) ==
  LET slot == s.ring.slot[s.ring.tail]
      Walk(t, r, stop) == [entry |-> t.entry, ring |-> r, up |-> t.up, stop |-> stop]
      after == GiveUp(s, slot.flow, Passed(s.ring))
  IN  IF s.stop \/ s.ring.tail = head THEN s
      ELSE IF slot.flow = NoFlow THEN Walk(s, Passed(s.ring), FALSE)
      ELSE IF slot.left > 0 THEN Walk(s, [s.ring EXCEPT !.sys = slot.left], TRUE)
      ELSE Walk(after, after.ring, FALSE)

\* s after every slot up to the head the ring had in the beginning
Walked(s, head) ==
  LET pass[i \in 0 .. RingSize] ==
        IF i = 0 THEN s ELSE ExpireSlot(pass[i - 1], head)
  IN  pass[RingSize]

\* mutant: the timer is not armed for the timeouts that are left
RearmedNot(s) == s.ring

\* A timeout that has passed would be an unsigned number of ticks beyond
\* any other: Timeout + 1 stands for it.
Rearmed(s) ==
  LET next == s.ring.slot[s.ring.tail].left
  IN  IF s.stop \/ s.ring.head = s.ring.tail THEN s.ring
      ELSE [s.ring EXCEPT !.sys = IF next < 0 THEN Timeout + 1 ELSE AtLeast1(next)]

reorder_ctrl_timeout ==
  LET begin == [entry |-> entry, ring |-> [ring EXCEPT !.sys = Off], up |-> up,
                stop |-> FALSE]
      end == Walked(begin, ring.head)
  IN  /\ ring.sys = 0
      /\ entry' = end.entry /\ up' = end.up /\ ring' = Rearmed(end)
      /\ UNCHANGED arrived

\* A tick of jiffies.  A timer that is due may be late.
Tick ==
  /\ ring' = [ring EXCEPT
       !.slot = [i \in DOMAIN @ |->
                   [flow |-> @[i].flow,
                    left |-> IF @[i].left < 0 THEN @[i].left ELSE @[i].left - 1]],
       !.sys = IF @ > 0 THEN @ - 1 ELSE @]
  /\ UNCHANGED <<entry, up, arrived>>

-----------------------------------------------------------------------------
(* Release *)

NewEntry ==
  [packet_q |-> [i \in 0 .. WinSz - 1 |-> NoFrame], start_rcv |-> FALSE,
   rc_timer_id |-> 0, win_start |-> 0, last_seq |-> 0]

\* release_stainfo and init_stainfo of the station of these flows
Released(F) ==
  /\ entry' = [f \in Flows |-> IF f \in F THEN NewEntry ELSE entry[f]]
  /\ up' = [f \in Flows |-> IF f \in F THEN <<>> ELSE up[f]]
  /\ UNCHANGED arrived

SlotsFreed(F) ==
  [i \in 0 .. RingSize - 1 |->
     IF ring.slot[i].flow \in F THEN [ring.slot[i] EXCEPT !.flow = NoFlow] ELSE ring.slot[i]]

Release(f) ==
  /\ Released({f})
  /\ ring' = [ring EXCEPT !.slot = SlotsFreed({f})]

\* rtl8192cd_close and rtl8192cd_open: every station is released and the
\* system timer deleted; the indices of the ring stay where they are.
Restart ==
  /\ Released(Flows)
  /\ ring' = [ring EXCEPT !.slot = SlotsFreed(Flows), !.sys = Off]

\* assoc_expire calls free_sta_skb for a station that is idle for 5 s: its
\* windows close, but a timeout under way and its slot in the ring stay, and
\* may pass when the flow has no window or has already begun another.
IdleFlush(f) ==
  /\ entry[f].start_rcv
  /\ entry' = [entry EXCEPT ![f].start_rcv = FALSE,
                            ![f].packet_q = [i \in 0 .. WinSz - 1 |-> NoFrame]]
  /\ up' = [up EXCEPT ![f] = <<>>]
  /\ UNCHANGED <<ring, arrived>>

-----------------------------------------------------------------------------
Init ==
  /\ entry = [f \in Flows |-> NewEntry]
  /\ ring = [slot |-> [i \in 0 .. RingSize - 1 |-> [flow |-> NoFlow, left |-> -1]],
             head |-> 0, tail |-> 0, sys |-> Off]
  /\ up = [f \in Flows |-> <<>>]
  /\ arrived = [f \in Flows |-> {}]

Next ==
  \/ Receive
  \/ reorder_ctrl_timeout
  \/ Tick
  \/ \E f \in Flows : Release(f) \/ IdleFlush(f)
  \/ Restart

Spec == Init /\ [][Next]_vars

\* Jiffies advance and a timer softirq that is due runs: neither do the ticks
\* stop while the timer is set, nor does it stay due.
FairSpec ==
  Spec /\ WF_<<ring.sys, ring.slot>>(Tick) /\ []<>(ring.sys # 0)

-----------------------------------------------------------------------------
(* Properties *)

Held(f) == {entry[f].packet_q[i] : i \in 0 .. WinSz - 1} \ {NoFrame}

InRing(i) == CIRC_CNT(i, ring.tail) < CIRC_CNT(ring.head, ring.tail)

\* rc_timer_id names a slot in use that names the flow, and no other slot
\* names it, whatever slots other flows take and give back in between
\* (rc_timer_id - 1 is used as an index without a test).
TimersMatch ==
  /\ \A f \in Flows : entry[f].rc_timer_id # 0 =>
       LET i == entry[f].rc_timer_id - 1
       IN  ring.slot[i].flow = f /\ InRing(i)
  /\ \A i \in DOMAIN ring.slot : ring.slot[i].flow # NoFlow =>
       entry[ring.slot[i].flow].rc_timer_id = i + 1

\* A flow that holds frames has a timeout in the ring, at the slot that
\* rc_timer_id names and nowhere else (reorder_ctrl_check and
\* reorder_ctrl_timeout keep it, reorder_ctrl_consumeQ gives both up), as
\* long as no copy of a frame that lay beyond the window gets past the tuple
\* cache: such a frame may be stored at win_start itself, where its copy
\* strands it.
TimeoutHeld ==
  /\ \A f \in Flows : Held(f) # {} => entry[f].rc_timer_id # 0
  /\ TimersMatch

\* As long as some flow waits, the one system timer all flows share is armed,
\* and within the timeout: adding and forgetting timeouts never leaves it off
\* or set to a time that has long passed (the unsigned difference at 1056).
SharedTimerArmed ==
  /\ ring.sys <= Timeout
  /\ (\E i \in DOMAIN ring.slot : ring.slot[i].flow # NoFlow) => ring.sys # Off
=============================================================================
