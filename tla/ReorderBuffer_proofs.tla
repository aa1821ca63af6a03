------------------------- MODULE ReorderBuffer_proofs -------------------------
(***************************************************************************)
(* Proofs about ReorderBuffer: types, the timeouts flows and ring share,   *)
(* and the one system timer.  First arithmetic modulo the ring and the     *)
(* sequence numbers, then what each operator on an entry or on the ring    *)
(* returns, then one lemma per handler.  The walk of the timeout handler   *)
(* goes over the ring while it is appended to; SetInduction carries an     *)
(* invariant of its own (WalkInv) through it.                              *)
(*                                                                         *)
(* The second half adds what a flow holds (WindowInv): the numbers         *)
(* win_start and last_seq stand for, before they were cut to 12 bits, and  *)
(* that every held frame lies between them in the slot of its number.      *)
(*                                                                         *)
(* The third part is the refinement of InOrderDelivery: what a handler     *)
(* passes up of the frames a flow holds and what it leaves (Splits), and   *)
(* that the timeout handler gives up at most one frame of a flow           *)
(* (AtMostOnce).                                                           *)
(***************************************************************************)
EXTENDS MCReorder, FiniteSetTheorems, TLAPS

LEMMA ModSmall ==
  ASSUME NEW m \in Nat \ {0}, NEW a \in Int
  PROVE  /\ a % m \in 0 .. m - 1
         /\ a \in 0 .. m - 1 => a % m = a
         /\ a \in m .. 2 * m - 1 => a % m = a - m
         /\ a \in -m .. -1 => a % m = a + m
<1>1. a % m \in 0 .. m - 1
  OBVIOUS
<1>2. a \in 0 .. m - 1 => a % m = a
  OBVIOUS
<1>3. a \in m .. 2 * m - 1 => a % m = a - m
  OBVIOUS
<1>4. a \in -m .. -1 => a % m = a + m
  OBVIOUS
<1> QED BY <1>1, <1>2, <1>3, <1>4

LEMMA ModUnique ==
  ASSUME NEW m \in Nat \ {0}, NEW q \in Int, NEW r \in 0 .. m - 1
  PROVE  (q * m + r) % m = r
OBVIOUS

LEMMA DivMod ==
  ASSUME NEW m \in Nat \ {0}, NEW a \in Int
  PROVE  \E q \in Int : a = q * m + (a % m)
<1>1. a \div m \in Int /\ a = (a \div m) * m + (a % m)
  OBVIOUS
<1> QED BY <1>1

LEMMA ModAdd ==
  ASSUME NEW m \in Nat \ {0}, NEW a \in Int, NEW b \in Int
  PROVE  ((a % m) + b) % m = (a + b) % m
<1> DEFINE r == (a % m) + b
<1>1. r \in Int /\ a % m \in Int
  BY ModSmall
<1>2. PICK q \in Int : a = q * m + (a % m)
  BY DivMod
<1>3. PICK p \in Int : r = p * m + (r % m)
  BY <1>1, DivMod
<1>4. r % m \in 0 .. m - 1
  BY <1>1, ModSmall
<1>5. a + b = (p + q) * m + (r % m)
  <2>1. a + b = q * m + r
    BY <1>1, <1>2
  <2>2. (p + q) * m = p * m + q * m
    OBVIOUS
  <2> HIDE DEF r
  <2> QED BY <1>1, <1>3, <1>4, <2>1, <2>2
<1>6. p + q \in Int
  OBVIOUS
<1> HIDE DEF r
<1>7. (a + b) % m = r % m
  BY <1>4, <1>5, <1>6, ModUnique
<1> QED BY <1>7 DEF r

LEMMA ModCong ==
  ASSUME NEW m \in Nat \ {0}, NEW a \in Int, NEW b \in Int, a % m = b % m,
         a - b < m, b - a < m
  PROVE  a = b
<1>1. PICK q \in Int : a = q * m + (a % m)
  BY DivMod
<1>2. PICK p \in Int : b = p * m + (b % m)
  BY DivMod
<1>3. a % m \in Int
  BY ModSmall
<1>4. a - b = (q - p) * m
  BY <1>1, <1>2, <1>3
<1>5. \A d \in Int : d >= 1 => d * m >= m
  OBVIOUS
<1>6. \A d \in Int : d <= -1 => d * m <= -m
  OBVIOUS
<1>7. q - p = 0
  <2>1. q - p \in Int
    OBVIOUS
  <2>2. ~ (q - p >= 1)
    BY <1>4, <1>5, <2>1
  <2>3. ~ (q - p <= -1)
    BY <1>4, <1>6, <2>1
  <2> QED BY <2>1, <2>2, <2>3
<1> QED BY <1>4, <1>7

LEMMA LeastExists ==
  ASSUME NEW S \in SUBSET Nat, S # {}
  PROVE  \E m \in S : \A n \in S : m <= n
<1> DEFINE R == StrictSubsetOrdering(Nat)
           T == {0 .. n : n \in S}
<1>1. IsWellFoundedOn(R, FiniteSubsetsOf(Nat))
  BY FS_StrictSubsetOrderingWellFounded
<1>2. T \subseteq FiniteSubsetsOf(Nat)
  <2> SUFFICES ASSUME NEW n \in S PROVE 0 .. n \in FiniteSubsetsOf(Nat)
    OBVIOUS
  <2>1. IsFiniteSet(0 .. n)
    BY FS_Interval
  <2> QED BY <2>1 DEF FiniteSubsetsOf
<1>3. T # {}
  OBVIOUS
<1>4. PICK x \in T : \A y \in T : ~ (<<y, x>> \in R)
  <2> HIDE DEF R, T
  <2> QED BY <1>1, <1>2, <1>3, WFMin
<1>5. PICK m \in S : x = 0 .. m
  OBVIOUS
<1>6. ASSUME NEW n \in S, n < m PROVE FALSE
  <2>1. 0 .. n \in T
    OBVIOUS
  <2>2. 0 .. n \in SUBSET Nat /\ 0 .. m \in SUBSET Nat
    OBVIOUS
  <2>3. 0 .. n \subseteq 0 .. m /\ 0 .. n # 0 .. m
    <3>1. m \in 0 .. m /\ m \notin 0 .. n
      BY <1>6
    <3>2. \A k \in 0 .. n : k \in 0 .. m
      BY <1>6
    <3> QED BY <3>1, <3>2
  <2>4. <<0 .. n, x>> \in R
    BY <2>2, <2>3, <1>5 DEF StrictSubsetOrdering
  <2> QED BY <1>4, <2>1, <2>4
<1> QED BY <1>6

LEMMA MinIs ==
  ASSUME NEW S \in SUBSET Nat, S # {}
  PROVE  Min(S) \in S /\ \A n \in S : Min(S) <= n
BY LeastExists DEF Min

\* Induction, over a set instead of a predicate.
LEMMA SetInduction ==
  ASSUME NEW S, 0 \in S, \A n \in Nat : n \in S => n + 1 \in S
  PROVE  \A n \in Nat : n \in S
<1> DEFINE Bad == Nat \ S
<1>1. SUFFICES ASSUME Bad # {} PROVE FALSE
  OBVIOUS
<1>2. PICK m \in Bad : \A n \in Bad : m <= n
  <2> Bad \in SUBSET Nat
    OBVIOUS
  <2> HIDE DEF Bad
  <2> QED BY <1>1, LeastExists
<1>3. m - 1 \in Nat /\ m - 1 \notin Bad /\ (m - 1) + 1 = m
  BY <1>2
<1> QED BY <1>2, <1>3

-----------------------------------------------------------------------------
(* Recursive functions of the model.                                       *)

LEMMA WalkIs ==
  ASSUME NEW s, NEW head
  PROVE  \E p : /\ p[0] = s
                /\ \A i \in 1 .. RingSize : p[i] = ExpireSlot(p[i - 1], head)
                /\ Walked(s, head) = p[RingSize]
<1> DEFINE Def(n, p) == p = [i \in 0 .. n |-> IF i = 0 THEN s ELSE ExpireSlot(p[i - 1], head)]
           Good == {n \in Nat : \E p : Def(n, p)}
<1>1. 0 \in Good
  <2>1. Def(0, [i \in 0 .. 0 |-> s])
    OBVIOUS
  <2> QED BY <2>1
<1>2. ASSUME NEW m \in Nat, m \in Good PROVE m + 1 \in Good
  <2>1. PICK q : Def(m, q)
    BY <1>2
  <2> DEFINE p == [i \in 0 .. m + 1 |-> IF i = m + 1 THEN ExpireSlot(q[m], head) ELSE q[i]]
  <2>2. ASSUME NEW i \in 0 .. m + 1
        PROVE  p[i] = IF i = 0 THEN s ELSE ExpireSlot(p[i - 1], head)
    <3>1. CASE i = m + 1
      <4>1. p[i] = ExpireSlot(q[m], head) /\ p[i - 1] = q[m]
        BY <3>1
      <4> QED BY <4>1, <3>1
    <3>2. CASE i # m + 1
      <4>1. i \in 0 .. m /\ p[i] = q[i] /\ (i # 0 => p[i - 1] = q[i - 1])
        BY <3>2
      <4>2. q[i] = IF i = 0 THEN s ELSE ExpireSlot(q[i - 1], head)
        BY <4>1, <2>1
      <4> QED BY <4>1, <4>2
    <3> QED BY <3>1, <3>2
  <2>3. Def(m + 1, p)
    BY <2>2
  <2>4. \E x : Def(m + 1, x)
    <3> HIDE DEF p, Def
    <3> QED BY <2>3
  <2> HIDE DEF p, Def
  <2> QED BY <2>4
<1>3. \A n \in Nat : n \in Good
  <2> HIDE DEF Good
  <2> QED BY <1>1, <1>2, SetInduction
<1>4. PICK p : Def(RingSize, p)
  <2>1. RingSize \in Nat
    BY ReorderAssumption
  <2> QED BY <1>3, <2>1
<1> DEFINE q == CHOOSE x : Def(RingSize, x)
<1>5. Def(RingSize, q)
  BY <1>4
<1>6. Walked(s, head) = q[RingSize]
  BY DEF Walked
<1>7. q[0] = s /\ \A i \in 1 .. RingSize : q[i] = ExpireSlot(q[i - 1], head)
  <2> HIDE DEF q
  <2> QED BY <1>5, ReorderAssumption
<1> QED BY <1>6, <1>7

-----------------------------------------------------------------------------
(* The ring of timeouts.                                                   *)

Slots == 0 .. RingSize - 1

LEMMA RingMod ==
  \A a \in -RingSize .. 2 * RingSize - 1 :
    a % RingSize = IF a < 0 THEN a + RingSize ELSE IF a < RingSize THEN a ELSE a - RingSize
<1> SUFFICES ASSUME NEW a \in -RingSize .. 2 * RingSize - 1
             PROVE  a % RingSize = IF a < 0 THEN a + RingSize
                                   ELSE IF a < RingSize THEN a ELSE a - RingSize
  OBVIOUS
<1>1. RingSize \in Nat \ {0} /\ a \in Int
  BY ReorderAssumption
<1>2. a \in 0 .. RingSize - 1 => a % RingSize = a
  BY <1>1
<1>3. a \in RingSize .. 2 * RingSize - 1 => a % RingSize = a - RingSize
  BY <1>1
<1>4. a \in -RingSize .. -1 => a % RingSize = a + RingSize
  BY <1>1
<1> QED BY <1>1, <1>2, <1>3, <1>4

LEMMA RingArith ==
  /\ \A i, t \in Slots : CIRC_CNT(i, t) = IF i >= t THEN i - t ELSE i - t + RingSize
  /\ \A h, t \in Slots : CIRC_SPACE(h, t) = IF t > h THEN t - h - 1 ELSE t - h - 1 + RingSize
  /\ \A t \in Slots, k \in 0 .. RingSize :
       (t + k) % RingSize = IF t + k < RingSize THEN t + k ELSE t + k - RingSize
<1>1. RingSize \in Nat \ {0}
  BY ReorderAssumption
<1>2. ASSUME NEW i \in Slots, NEW t \in Slots
      PROVE  CIRC_CNT(i, t) = IF i >= t THEN i - t ELSE i - t + RingSize
  <2>1. i - t \in -RingSize .. 2 * RingSize - 1
    BY <1>1 DEF Slots
  <2>2. i \in Int /\ t \in Int /\ i - t < RingSize
    BY <1>1 DEF Slots
  <2> QED BY <1>1, <2>1, <2>2, RingMod DEF CIRC_CNT
<1>3. ASSUME NEW h \in Slots, NEW t \in Slots
      PROVE  CIRC_SPACE(h, t) = IF t > h THEN t - h - 1 ELSE t - h - 1 + RingSize
  <2>1. t - h - 1 \in -RingSize .. 2 * RingSize - 1
    BY <1>1 DEF Slots
  <2>2. h \in Int /\ t \in Int /\ t - h - 1 < RingSize
    BY <1>1 DEF Slots
  <2> QED BY <1>1, <2>1, <2>2, RingMod DEF CIRC_SPACE
<1>4. ASSUME NEW t \in Slots, NEW k \in 0 .. RingSize
      PROVE  (t + k) % RingSize = IF t + k < RingSize THEN t + k ELSE t + k - RingSize
  <2>1. t + k \in -RingSize .. 2 * RingSize - 1
    BY <1>1 DEF Slots
  <2>2. t \in Int /\ k \in Int /\ t + k >= 0
    BY <1>1 DEF Slots
  <2> QED BY <1>1, <2>1, <2>2, RingMod
<1> QED BY <1>2, <1>3, <1>4

\* The tail moves over slots that name no flow, and stops at one that does.
SkipsTo(r, k) ==
  /\ TailSkipped(r) = (r.tail + k) % RingSize
  /\ \A i \in 0 .. k - 1 : r.slot[(r.tail + i) % RingSize].flow = NoFlow
  /\ k = CIRC_CNT(r.head, r.tail) \/ r.slot[(r.tail + k) % RingSize].flow # NoFlow

LEMMA TailSkips ==
  ASSUME NEW r, r.head \in Slots, r.tail \in Slots
  PROVE  \E k \in 0 .. CIRC_CNT(r.head, r.tail) : SkipsTo(r, k)
<1> DEFINE n == CIRC_CNT(r.head, r.tail)
           Waits(i) == r.slot[(r.tail + i) % RingSize].flow # NoFlow
           S == {i \in 0 .. n : i = n \/ Waits(i)}
<1>1. n \in Nat
  <2>1. r.head - r.tail \in Int /\ RingSize \in Nat \ {0}
    BY ReorderAssumption DEF Slots
  <2> QED BY <2>1, ModSmall DEF CIRC_CNT
<1>2. S \in SUBSET Nat /\ n \in S
  <2> HIDE DEF n
  <2> QED BY <1>1
<1>3. TailSkipped(r) = (r.tail + Min(S)) % RingSize
  BY DEF TailSkipped
<1>4. Min(S) \in S /\ \A i \in S : Min(S) <= i
  <2> HIDE DEF S
  <2> QED BY <1>2, MinIs
<1>5. ASSUME NEW i \in 0 .. Min(S) - 1 PROVE ~Waits(i)
  <2>1. Min(S) \in 0 .. n
    BY <1>4
  <2>2. i \in 0 .. n /\ ~ (Min(S) <= i)
    <3> HIDE DEF S, n
    <3> QED BY <1>1, <2>1
  <2>3. i \notin S
    BY <1>4, <2>2
  <2> QED BY <2>2, <2>3
<1> QED BY <1>3, <1>4, <1>5 DEF SkipsTo

-----------------------------------------------------------------------------
(* The window.                                                             *)

LEMMA ModIn == \A m \in Nat \ {0}, a \in Int : a % m \in 0 .. m - 1
BY ModSmall

LEMMA DiffIn == \A a, b \in Int : SN_DIFF(a, b) \in 0 .. SnSpace - 1
<1>1. SnSpace \in Nat \ {0}
  BY ReorderAssumption
<1>2. \A a, b \in Int : a - b \in Int
  OBVIOUS
<1> QED BY <1>1, <1>2, ModIn DEF SN_DIFF

LEMMA AtType ==
  ASSUME NEW e \in Entries, NEW n \in Int
  PROVE  At(e, n) \in Frames \cup {NoFrame}
BY ModIn, ReorderAssumption DEF At, Entries

\* RunLength counts the frames up to the first empty slot.
LEMMA RunLengthIs ==
  ASSUME NEW e, NEW n \in Int
  PROVE  /\ RunLength(e, n) \in 0 .. WinSz
         /\ RunLength(e, n) = WinSz \/ At(e, n + RunLength(e, n)) = NoFrame
         /\ \A i \in 0 .. RunLength(e, n) - 1 : At(e, n + i) # NoFrame
<1> DEFINE S == {k \in 0 .. WinSz : k = WinSz \/ At(e, n + k) = NoFrame}
<1>1. RunLength(e, n) = Min(S)
  BY DEF RunLength
<1>2. WinSz \in Nat
  BY ReorderAssumption
<1>3. S \in SUBSET Nat /\ WinSz \in S
  BY <1>2
<1>4. Min(S) \in S /\ \A i \in S : Min(S) <= i
  <2> HIDE DEF S
  <2> QED BY <1>3, MinIs
<1>5. ASSUME NEW i \in 0 .. Min(S) - 1 PROVE At(e, n + i) # NoFrame
  <2>1. Min(S) \in 0 .. WinSz
    BY <1>4
  <2>2. i \in 0 .. WinSz /\ ~ (Min(S) <= i)
    <3> HIDE DEF S
    <3> QED BY <1>2, <2>1
  <2>3. i \notin S
    BY <1>4, <2>2
  <2> QED BY <2>2, <2>3
<1> QED BY <1>1, <1>4, <1>5

LEMMA QueuedIs ==
  ASSUME NEW e, NEW n, NEW k
  PROVE  \E p : /\ p[0] = <<>>
                /\ \A i \in 1 .. WinSz :
                     p[i] = IF At(e, n + i - 1) = NoFrame THEN p[i - 1]
                            ELSE Append(p[i - 1], At(e, n + i - 1))
                /\ Queued(e, n, k) = p[IF k < WinSz THEN k ELSE WinSz]
<1> DEFINE Step(p, i) == IF At(e, n + i - 1) = NoFrame THEN p[i - 1]
                         ELSE Append(p[i - 1], At(e, n + i - 1))
           Def(m, p) == p = [i \in 0 .. m |-> IF i = 0 THEN <<>>
                              ELSE IF At(e, n + i - 1) = NoFrame THEN p[i - 1]
                              ELSE Append(p[i - 1], At(e, n + i - 1))]
           Good == {m \in Nat : \E p : Def(m, p)}
<1>1. 0 \in Good
  <2>1. Def(0, [i \in 0 .. 0 |-> <<>>])
    OBVIOUS
  <2> QED BY <2>1
<1>2. ASSUME NEW m \in Nat, m \in Good PROVE m + 1 \in Good
  <2>1. PICK q : Def(m, q)
    BY <1>2
  <2> DEFINE p == [i \in 0 .. m + 1 |-> IF i = m + 1 THEN Step(q, m + 1) ELSE q[i]]
  <2>2. ASSUME NEW i \in 0 .. m + 1
        PROVE  p[i] = IF i = 0 THEN <<>> ELSE Step(p, i)
    <3>1. CASE i = m + 1
      <4>1. p[i] = Step(q, m + 1) /\ p[i - 1] = q[m] /\ i - 1 = m
        BY <3>1
      <4>2. Step(p, i) = Step(q, m + 1)
        BY <4>1, <3>1
      <4> QED BY <4>1, <4>2, <3>1
    <3>2. CASE i # m + 1
      <4>1. i \in 0 .. m /\ p[i] = q[i] /\ (i # 0 => p[i - 1] = q[i - 1])
        BY <3>2
      <4>2. q[i] = IF i = 0 THEN <<>> ELSE Step(q, i)
        BY <4>1, <2>1
      <4>3. i # 0 => Step(p, i) = Step(q, i)
        BY <4>1
      <4> QED BY <4>1, <4>2, <4>3
    <3> QED BY <3>1, <3>2
  <2>3. Def(m + 1, p)
    BY <2>2
  <2>4. \E x : Def(m + 1, x)
    <3> HIDE DEF p, Def
    <3> QED BY <2>3
  <2> HIDE DEF p, Def
  <2> QED BY <2>4
<1>3. \A m \in Nat : m \in Good
  <2> HIDE DEF Good
  <2> QED BY <1>1, <1>2, SetInduction
<1>4. WinSz \in Nat /\ \E p : Def(WinSz, p)
  BY <1>3, ReorderAssumption
<1> DEFINE q == CHOOSE p : Def(WinSz, p)
<1>5. Def(WinSz, q)
  BY <1>4
<1>6. Queued(e, n, k) = q[IF k < WinSz THEN k ELSE WinSz]
  BY DEF Queued
<1>7. q[0] = <<>> /\ \A i \in 1 .. WinSz : q[i] = Step(q, i)
  <2> HIDE DEF q
  <2>1. \A i \in 0 .. WinSz : q[i] = IF i = 0 THEN <<>> ELSE Step(q, i)
    BY <1>5
  <2> HIDE DEF Step
  <2> QED BY <1>4, <2>1
<1> QED BY <1>6, <1>7

LEMMA QueuedType ==
  ASSUME NEW e \in Entries, NEW n \in Int, NEW k \in Nat
  PROVE  Queued(e, n, k) \in Seq(Frames)
<1>1. PICK p : /\ p[0] = <<>>
               /\ \A i \in 1 .. WinSz :
                    p[i] = IF At(e, n + i - 1) = NoFrame THEN p[i - 1]
                           ELSE Append(p[i - 1], At(e, n + i - 1))
               /\ Queued(e, n, k) = p[IF k < WinSz THEN k ELSE WinSz]
  BY QueuedIs
<1> DEFINE S == {i \in Nat : i <= WinSz => p[i] \in Seq(Frames)}
<1>2. WinSz \in Nat
  BY ReorderAssumption
<1>3. 0 \in S
  <2>1. <<>> \in Seq(Frames) /\ p[0] = <<>>
    BY <1>1
  <2> QED BY <2>1
<1>4. ASSUME NEW i \in Nat, i \in S PROVE i + 1 \in S
  <2>1. SUFFICES ASSUME i + 1 <= WinSz PROVE p[i + 1] \in Seq(Frames)
    OBVIOUS
  <2>2. i + 1 \in 1 .. WinSz /\ (i + 1) - 1 = i /\ n + (i + 1) - 1 \in Int
    BY <2>1, <1>2
  <2>3. p[i] \in Seq(Frames)
    BY <1>2, <1>4, <2>1
  <2>4. At(e, n + (i + 1) - 1) \in Frames \cup {NoFrame}
    BY <2>2, AtType
  <2>5. p[i + 1] = IF At(e, n + (i + 1) - 1) = NoFrame THEN p[i]
                   ELSE Append(p[i], At(e, n + (i + 1) - 1))
    BY <1>1, <2>2
  <2> QED BY <2>3, <2>4, <2>5
<1>5. \A i \in Nat : i \in S
  <2> HIDE DEF S
  <2> QED BY <1>3, <1>4, SetInduction
<1>6. (IF k < WinSz THEN k ELSE WinSz) \in Nat /\ (IF k < WinSz THEN k ELSE WinSz) <= WinSz
  BY <1>2
<1> QED BY <1>1, <1>5, <1>6

LEMMA EmptiedType ==
  ASSUME NEW e \in Entries, NEW n, NEW k
  PROVE  Emptied(e, n, k) \in Entries
BY DEF Emptied, Entries

LEMMA AdvancedType ==
  ASSUME NEW e \in Entries, NEW n \in Int, NEW k \in Int
  PROVE  Advanced(e, n, k) \in Entries
<1>1. (n + k) % SnSpace \in 0 .. SnSpace - 1
  BY ModIn, ReorderAssumption
<1> QED BY <1>1, EmptiedType DEF Advanced, Entries

-----------------------------------------------------------------------------
(* Timeouts are added behind the tail.                                     *)

Used(r, i) == CIRC_CNT(i, r.tail) < CIRC_CNT(r.head, r.tail)

\* The timeout of f, given all entries, is in the ring.
HasSlot(en, r, f) ==
  en[f].rc_timer_id # 0 =>
    r.slot[en[f].rc_timer_id - 1].flow = f /\ Used(r, en[f].rc_timer_id - 1)

NamesOwner(en, r, i) ==
  r.slot[i].flow # NoFlow => en[r.slot[i].flow].rc_timer_id = i + 1

Matches(en, r) ==
  /\ \A f \in Flows : HasSlot(en, r, f)
  /\ \A i \in Slots : NamesOwner(en, r, i)

\* No slot names f, whose entry is about to be replaced.
MatchesBut(en, r, f) ==
  /\ \A g \in Flows \ {f} : HasSlot(en, r, g)
  /\ \A i \in Slots : NamesOwner(en, r, i) /\ r.slot[i].flow # f

Armed(r) == (\E i \in Slots : r.slot[i].flow # NoFlow) => r.sys # Off

LEMMA SlotAt ==
  ASSUME NEW i \in Slots, NEW t \in Slots
  PROVE  CIRC_CNT(i, t) \in Slots /\ (t + CIRC_CNT(i, t)) % RingSize = i
<1>1. RingSize \in Nat \ {0}
  BY ReorderAssumption
<1>2. CIRC_CNT(i, t) = IF i >= t THEN i - t ELSE i - t + RingSize
  BY RingArith
<1>3. CIRC_CNT(i, t) \in 0 .. RingSize - 1
  BY <1>1, <1>2 DEF Slots
<1>4. (t + CIRC_CNT(i, t)) % RingSize
        = IF t + CIRC_CNT(i, t) < RingSize THEN t + CIRC_CNT(i, t)
          ELSE t + CIRC_CNT(i, t) - RingSize
  <2>1. CIRC_CNT(i, t) \in 0 .. RingSize
    BY <1>1, <1>3
  <2> QED BY <2>1, RingArith
<1> QED BY <1>1, <1>2, <1>3, <1>4 DEF Slots

\* Distances after the tail has moved by k.
LEMMA TailMoves ==
  ASSUME NEW h \in Slots, NEW t \in Slots, NEW k \in 0 .. CIRC_CNT(h, t)
  PROVE  /\ (t + k) % RingSize \in Slots
         /\ \A i \in Slots : CIRC_CNT(i, t) >= k =>
              CIRC_CNT(i, (t + k) % RingSize) = CIRC_CNT(i, t) - k
<1> DEFINE u == (t + k) % RingSize
<1>1. RingSize \in Nat \ {0} /\ CIRC_CNT(h, t) \in Slots
  BY ReorderAssumption, SlotAt
<1>2. k \in 0 .. RingSize
  BY <1>1 DEF Slots
<1>3. u = IF t + k < RingSize THEN t + k ELSE t + k - RingSize
  BY <1>2, RingArith
<1>4. u \in Slots
  BY <1>1, <1>2, <1>3 DEF Slots
<1> HIDE DEF u
<1>5. ASSUME NEW i \in Slots, CIRC_CNT(i, t) >= k
      PROVE  CIRC_CNT(i, u) = CIRC_CNT(i, t) - k
  <2>1. CIRC_CNT(i, t) = IF i >= t THEN i - t ELSE i - t + RingSize
    BY RingArith
  <2>2. CIRC_CNT(i, u) = IF i >= u THEN i - u ELSE i - u + RingSize
    BY <1>4, RingArith
  <2> QED BY <1>1, <1>2, <1>3, <1>5, <2>1, <2>2 DEF Slots
<1> QED BY <1>4, <1>5 DEF u

\* Distances after the head has moved by one, unless the ring was full.
LEMMA HeadMoves ==
  ASSUME NEW h \in Slots, NEW t \in Slots, CIRC_SPACE(h, t) # 0
  PROVE  /\ (h + 1) % RingSize \in Slots
         /\ CIRC_CNT((h + 1) % RingSize, t) = CIRC_CNT(h, t) + 1
<1> DEFINE u == (h + 1) % RingSize
<1>1. RingSize \in Nat \ {0}
  BY ReorderAssumption
<1>2. u = IF h + 1 < RingSize THEN h + 1 ELSE h + 1 - RingSize
  <2>1. 1 \in 0 .. RingSize
    BY <1>1
  <2> QED BY <2>1, RingArith
<1>3. u \in Slots
  BY <1>1, <1>2 DEF Slots
<1>4. CIRC_CNT(h, t) = IF h >= t THEN h - t ELSE h - t + RingSize
  BY RingArith
<1> HIDE DEF u
<1>5. CIRC_CNT(u, t) = IF u >= t THEN u - t ELSE u - t + RingSize
  BY <1>3, RingArith
<1>6. CIRC_SPACE(h, t) = IF t > h THEN t - h - 1 ELSE t - h - 1 + RingSize
  BY RingArith
<1>7. CIRC_CNT(u, t) = CIRC_CNT(h, t) + 1
  BY <1>1, <1>2, <1>4, <1>5, <1>6 DEF Slots
<1> QED BY <1>3, <1>7 DEF u

LEMMA RingType ==
  ASSUME NEW r \in Rings
  PROVE  /\ r.head \in Slots /\ r.tail \in Slots /\ r.sys \in Off .. Timeout
         /\ r.slot \in [Slots -> [flow : Flows \cup {NoFlow}, left : -1 .. Timeout]]
BY DEF Rings, Slots

LEMMA TailType ==
  ASSUME NEW r \in Rings
  PROVE  TailSkipped(r) \in Slots
<1>1. r.head \in Slots /\ r.tail \in Slots
  BY RingType
<1>2. PICK k \in 0 .. CIRC_CNT(r.head, r.tail) : SkipsTo(r, k)
  BY <1>1, TailSkips
<1>3. (r.tail + k) % RingSize \in Slots
  BY <1>1, TailMoves
<1> QED BY <1>2, <1>3 DEF SkipsTo

LEMMA SysTimerType ==
  ASSUME NEW r \in Rings, NEW tail \in Slots, NEW from \in BOOLEAN
  PROVE  SysTimer(r, tail, from) \in Off .. Timeout
<1>1. Timeout \in Nat \ {0}
  BY ReorderAssumption
<1>2. r.sys \in Off .. Timeout /\ r.slot[tail].left \in -1 .. Timeout
  BY RingType
<1>3. AtLeast1(r.slot[tail].left) \in Off .. Timeout
  BY <1>1, <1>2 DEF AtLeast1, Off
<1>4. Off \in Off .. Timeout /\ Timeout \in Off .. Timeout
  BY <1>1 DEF Off
<1> QED BY <1>2, <1>3, <1>4 DEF SysTimer

LEMMA AddedType ==
  ASSUME NEW r \in Rings, NEW f \in Flows, NEW from \in BOOLEAN
  PROVE  reorder_ctrl_timer_add(r, f, from) \in Rings
<1>1. r.head \in Slots /\ TailSkipped(r) \in Slots
  BY RingType, TailType
<1>2. SysTimer(r, TailSkipped(r), from) \in Off .. Timeout
  BY <1>1, SysTimerType
<1>3. (r.head + 1) % RingSize \in Slots
  <2>1. RingSize \in Nat \ {0} /\ r.head + 1 \in Int
    BY <1>1, ReorderAssumption DEF Slots
  <2> QED BY <2>1, ModIn DEF Slots
<1>4. [flow |-> f, left |-> Timeout] \in [flow : Flows \cup {NoFlow}, left : -1 .. Timeout]
  BY ReorderAssumption
<1>5. [r.slot EXCEPT ![r.head] = [flow |-> f, left |-> Timeout]]
        \in [Slots -> [flow : Flows \cup {NoFlow}, left : -1 .. Timeout]]
  BY <1>4, RingType
<1> QED BY <1>1, <1>2, <1>3, <1>5 DEF reorder_ctrl_timer_add, Rings, Slots

LEMMA AddedArmed ==
  ASSUME NEW r \in Rings, NEW f \in Flows, Armed(r)
  PROVE  reorder_ctrl_timer_add(r, f, FALSE).sys # Off
<1> DEFINE tail == TailSkipped(r)
<1>1. r.head \in Slots /\ r.tail \in Slots /\ tail \in Slots /\ r.sys \in Off .. Timeout
  BY RingType, TailType
<1>2. Timeout \in Nat \ {0}
  BY ReorderAssumption
<1>3. r.slot[tail].left \in -1 .. Timeout
  BY <1>1, RingType
<1>4. PICK k \in 0 .. CIRC_CNT(r.head, r.tail) : SkipsTo(r, k)
  BY <1>1, TailSkips
<1>5. tail # r.head => r.sys # Off
  <2>1. SUFFICES ASSUME tail # r.head PROVE r.slot[tail].flow # NoFlow
    BY <1>1 DEF Armed
  <2>2. k # CIRC_CNT(r.head, r.tail)
    BY <1>1, <1>4, <2>1, SlotAt DEF SkipsTo
  <2> QED BY <1>4, <2>2 DEF SkipsTo
<1>6. reorder_ctrl_timer_add(r, f, FALSE).sys = SysTimer(r, tail, FALSE)
  BY DEF reorder_ctrl_timer_add
<1> HIDE DEF tail
<1>7. AtLeast1(r.slot[tail].left) # Off
  BY <1>3 DEF AtLeast1, Off
<1>8. Timeout # Off
  BY <1>2 DEF Off
<1> QED BY <1>5, <1>6, <1>7, <1>8 DEF SysTimer

\* The slots in use stay in use, and the one at the head joins them.
LEMMA AddedUsed ==
  ASSUME NEW r \in Rings, NEW f \in Flows, NEW from \in BOOLEAN, ~Full(r)
  PROVE  LET q == reorder_ctrl_timer_add(r, f, from)
         IN  /\ ~Used(r, r.head) /\ Used(q, r.head)
             /\ q.slot = [r.slot EXCEPT ![r.head] = [flow |-> f, left |-> Timeout]]
             /\ \A i \in Slots : Used(r, i) /\ r.slot[i].flow # NoFlow => Used(q, i)
<1> DEFINE q == reorder_ctrl_timer_add(r, f, from)
           h == r.head
           t == r.tail
           u == TailSkipped(r)
<1>1. h \in Slots /\ t \in Slots /\ u \in Slots
  BY RingType, TailType
<1>2. q.head = (h + 1) % RingSize /\ q.tail = u
      /\ q.slot = [r.slot EXCEPT ![h] = [flow |-> f, left |-> Timeout]]
  BY DEF reorder_ctrl_timer_add
<1>3. PICK k \in 0 .. CIRC_CNT(h, t) : SkipsTo(r, k)
  BY <1>1, TailSkips
<1>4. u = (t + k) % RingSize
  BY <1>3 DEF SkipsTo
<1>5. CIRC_SPACE(h, u) # 0
  BY DEF Full
<1>6. \A i \in Slots : CIRC_CNT(i, t) >= k => CIRC_CNT(i, u) = CIRC_CNT(i, t) - k
  BY <1>1, <1>4, TailMoves
<1>7. CIRC_CNT(q.head, u) = CIRC_CNT(h, u) + 1
  BY <1>1, <1>2, <1>5, HeadMoves
<1>8. CIRC_CNT(h, t) \in Nat /\ k \in Nat /\ k <= CIRC_CNT(h, t)
  <2>1. CIRC_CNT(h, t) \in Slots
    BY <1>1, SlotAt
  <2> HIDE DEF h, t
  <2> QED BY <2>1 DEF Slots
<1>9. CIRC_CNT(h, u) = CIRC_CNT(h, t) - k
  BY <1>1, <1>6, <1>8
<1>10. ASSUME NEW i \in Slots, Used(r, i), r.slot[i].flow # NoFlow
       PROVE  Used(q, i)
  <2>1. CIRC_CNT(i, t) \in Nat /\ (t + CIRC_CNT(i, t)) % RingSize = i
        /\ CIRC_CNT(i, t) < CIRC_CNT(h, t)
    <3>1. CIRC_CNT(i, t) \in Slots /\ (t + CIRC_CNT(i, t)) % RingSize = i
      BY <1>1, SlotAt
    <3> QED BY <1>10, <3>1 DEF Used, Slots
  <2>2. CIRC_CNT(i, t) >= k
    <3>1. SUFFICES ASSUME CIRC_CNT(i, t) < k PROVE FALSE
      BY <1>8, <2>1
    <3>2. CIRC_CNT(i, t) \in 0 .. k - 1
      BY <1>8, <2>1, <3>1
    <3> QED BY <1>3, <1>10, <2>1, <3>2 DEF SkipsTo
  <2>3. CIRC_CNT(i, u) = CIRC_CNT(i, t) - k
    BY <1>6, <2>2
  <2> HIDE DEF h, t, u, q
  <2>4. CIRC_CNT(i, u) < CIRC_CNT(q.head, u)
    BY <1>7, <1>8, <1>9, <2>1, <2>3
  <2> QED BY <1>2, <2>4 DEF Used
<1>11. ~Used(r, h)
  BY <1>8 DEF Used
<1>12. Used(q, h)
  <2>1. CIRC_CNT(h, u) < CIRC_CNT(q.head, u)
    <3> HIDE DEF h, t, u, q
    <3> QED BY <1>7, <1>8, <1>9
  <2> QED BY <1>2, <2>1 DEF Used
<1> QED BY <1>2, <1>10, <1>11, <1>12

LEMMA AddedMatches ==
  ASSUME NEW en \in [Flows -> Entries], NEW r \in Rings, NEW f \in Flows,
         NEW e \in Entries, NEW from \in BOOLEAN, MatchesBut(en, r, f), ~Full(r)
  PROVE  Matches([en EXCEPT ![f] = [e EXCEPT !.rc_timer_id = r.head + 1]],
                 reorder_ctrl_timer_add(r, f, from))
<1> DEFINE q == reorder_ctrl_timer_add(r, f, from)
           n == [en EXCEPT ![f] = [e EXCEPT !.rc_timer_id = r.head + 1]]
<1>1. /\ ~Used(r, r.head) /\ Used(q, r.head)
      /\ q.slot = [r.slot EXCEPT ![r.head] = [flow |-> f, left |-> Timeout]]
      /\ \A i \in Slots : Used(r, i) /\ r.slot[i].flow # NoFlow => Used(q, i)
  BY AddedUsed
<1>2. r.head \in Slots /\ r.slot \in [Slots -> [flow : Flows \cup {NoFlow}, left : -1 .. Timeout]]
  BY RingType
<1>3. n[f].rc_timer_id = r.head + 1 /\ \A g \in Flows \ {f} : n[g] = en[g]
  BY DEF Entries
<1>4. q.slot[r.head].flow = f /\ \A i \in Slots \ {r.head} : q.slot[i] = r.slot[i]
  BY <1>1, <1>2
<1> HIDE DEF q, n
<1>5. HasSlot(n, q, f)
  <2>1. (r.head + 1) - 1 = r.head
    BY <1>2 DEF Slots
  <2> QED BY <1>1, <1>3, <1>4, <2>1 DEF HasSlot
<1>6. ASSUME NEW g \in Flows \ {f} PROVE HasSlot(n, q, g)
  <2> DEFINE i == en[g].rc_timer_id - 1
  <2>1. SUFFICES ASSUME n[g].rc_timer_id # 0 PROVE q.slot[i].flow = g /\ Used(q, i)
    BY <1>3 DEF HasSlot
  <2>2. r.slot[i].flow = g /\ Used(r, i)
    BY <1>3, <2>1 DEF MatchesBut, HasSlot
  <2>3. i \in Slots
    <3>1. en[g].rc_timer_id \in 0 .. RingSize /\ en[g].rc_timer_id # 0
      BY <1>3, <2>1 DEF Entries
    <3> QED BY <3>1, ReorderAssumption DEF Slots
  <2>4. g # NoFlow
    BY ReorderAssumption
  <2>5. i # r.head
    BY <1>1, <2>2
  <2> QED BY <1>1, <1>4, <2>2, <2>3, <2>4, <2>5
<1>7. ASSUME NEW i \in Slots PROVE NamesOwner(n, q, i)
  <2>1. CASE i = r.head
    BY <1>3, <1>4, <2>1 DEF NamesOwner
  <2>2. CASE i # r.head
    <3>1. NamesOwner(en, r, i) /\ r.slot[i].flow # f
      BY DEF MatchesBut
    <3>2. q.slot[i] = r.slot[i] /\ r.slot[i].flow \in Flows \cup {NoFlow}
      BY <1>2, <1>4, <2>2
    <3> QED BY <1>3, <3>1, <3>2 DEF NamesOwner
  <2> QED BY <2>1, <2>2
<1>8. Matches(n, q)
  BY <1>5, <1>6, <1>7 DEF Matches
<1> QED BY <1>8 DEF n, q

LEMMA UnnamedMatches ==
  ASSUME NEW en \in [Flows -> Entries], NEW r \in Rings, NEW f \in Flows,
         NEW e \in Entries, e.rc_timer_id = 0, MatchesBut(en, r, f)
  PROVE  Matches([en EXCEPT ![f] = e], r)
<1> DEFINE n == [en EXCEPT ![f] = e]
<1>1. n[f] = e /\ \A g \in Flows \ {f} : n[g] = en[g]
  OBVIOUS
<1> HIDE DEF n
<1>2. ASSUME NEW g \in Flows PROVE HasSlot(n, r, g)
  <2>1. CASE g = f
    BY <1>1, <2>1 DEF HasSlot
  <2>2. CASE g # f
    <3>1. HasSlot(en, r, g)
      BY <2>2 DEF MatchesBut
    <3> QED BY <1>1, <2>2, <3>1 DEF HasSlot
  <2> QED BY <2>1, <2>2
<1>3. ASSUME NEW i \in Slots PROVE NamesOwner(n, r, i)
  <2>1. NamesOwner(en, r, i) /\ r.slot[i].flow # f
    BY DEF MatchesBut
  <2>2. r.slot[i].flow \in Flows \cup {NoFlow}
    BY RingType
  <2> QED BY <1>1, <2>1, <2>2 DEF NamesOwner
<1>4. Matches(n, r)
  BY <1>2, <1>3 DEF Matches
<1> QED BY <1>4 DEF n

LEMMA ForgottenType ==
  ASSUME NEW r \in Rings, NEW id \in 0 .. RingSize
  PROVE  /\ Forgotten(r, id) \in Rings
         /\ Forgotten(r, id).head = r.head /\ Forgotten(r, id).tail = r.tail
         /\ Forgotten(r, id).sys = r.sys
         /\ \A i \in Slots : i # id - 1 => Forgotten(r, id).slot[i] = r.slot[i]
         /\ id # 0 => Forgotten(r, id).slot[id - 1].flow = NoFlow
         /\ \A i \in Slots : Forgotten(r, id).slot[i].left = r.slot[i].left
<1>1. CASE id = 0
  BY <1>1 DEF Forgotten
<1>2. CASE id # 0
  <2> DEFINE n == [r.slot EXCEPT ![id - 1] = [flow |-> NoFlow, left |-> r.slot[id - 1].left]]
  <2>1. Forgotten(r, id) = [r EXCEPT !.slot = n]
    BY <1>2 DEF Forgotten
  <2>2. id - 1 \in Slots
    BY <1>2, ReorderAssumption DEF Slots
  <2>3. r.slot \in [Slots -> [flow : Flows \cup {NoFlow}, left : -1 .. Timeout]]
    BY RingType
  <2>4. n \in [Slots -> [flow : Flows \cup {NoFlow}, left : -1 .. Timeout]]
    BY <2>2, <2>3
  <2>5. n[id - 1].flow = NoFlow /\ n[id - 1].left = r.slot[id - 1].left
        /\ \A i \in Slots \ {id - 1} : n[i] = r.slot[i]
    BY <2>2, <2>3
  <2> HIDE DEF n
  <2>6. [r EXCEPT !.slot = n] \in Rings
    BY <2>4 DEF Rings, Slots
  <2>7. [r EXCEPT !.slot = n].slot = n /\ [r EXCEPT !.slot = n].head = r.head
        /\ [r EXCEPT !.slot = n].tail = r.tail /\ [r EXCEPT !.slot = n].sys = r.sys
    BY DEF Rings
  <2> QED BY <2>1, <2>2, <2>5, <2>6, <2>7
<1> QED BY <1>1, <1>2

\* Once its timeout is forgotten no slot names the flow.
LEMMA ForgottenMatches ==
  ASSUME NEW en \in [Flows -> Entries], NEW r \in Rings, NEW f \in Flows, Matches(en, r)
  PROVE  /\ MatchesBut(en, Forgotten(r, en[f].rc_timer_id), f)
         /\ Armed(r) => Armed(Forgotten(r, en[f].rc_timer_id))
<1> DEFINE id == en[f].rc_timer_id
           q == Forgotten(r, id)
<1>1. id \in 0 .. RingSize
  BY DEF Entries
<1>2. /\ q.head = r.head /\ q.tail = r.tail /\ q.sys = r.sys
      /\ \A i \in Slots : i # id - 1 => q.slot[i] = r.slot[i]
      /\ id # 0 => q.slot[id - 1].flow = NoFlow
  BY <1>1, ForgottenType
<1>3. NoFlow # f /\ RingSize \in Nat
  BY ReorderAssumption
<1> HIDE DEF q
<1>4. ASSUME NEW i \in Slots PROVE NamesOwner(en, q, i) /\ q.slot[i].flow # f
  <2>1. NamesOwner(en, r, i)
    BY DEF Matches
  <2>2. CASE i = id - 1
    BY <1>1, <1>2, <1>3, <2>2 DEF NamesOwner, Slots
  <2>3. CASE i # id - 1
    <3>1. q.slot[i] = r.slot[i]
      BY <1>2, <2>3
    <3>2. q.slot[i].flow # f
      <4>1. SUFFICES ASSUME r.slot[i].flow = f PROVE FALSE
        BY <3>1
      <4>2. id = i + 1
        BY <1>3, <2>1, <4>1 DEF NamesOwner
      <4> QED BY <2>3, <4>2 DEF Slots
    <3> QED BY <2>1, <3>1, <3>2 DEF NamesOwner
  <2> QED BY <2>2, <2>3
<1>5. ASSUME NEW g \in Flows \ {f} PROVE HasSlot(en, q, g)
  <2> DEFINE i == en[g].rc_timer_id - 1
  <2>1. SUFFICES ASSUME en[g].rc_timer_id # 0 PROVE q.slot[i].flow = g /\ Used(q, i)
    BY DEF HasSlot
  <2>2. r.slot[i].flow = g /\ Used(r, i)
    BY <2>1 DEF Matches, HasSlot
  <2>3. i \in Slots
    <3>1. en[g].rc_timer_id \in 0 .. RingSize
      BY DEF Entries
    <3> QED BY <2>1, <3>1, ReorderAssumption DEF Slots
  <2>4. i # id - 1
    <3>1. SUFFICES ASSUME i = id - 1 PROVE FALSE
      OBVIOUS
    <3>2. id # 0
      BY <2>3, <3>1, <1>1 DEF Slots
    <3>3. r.slot[id - 1].flow = f
      BY <3>2 DEF Matches, HasSlot
    <3> QED BY <2>2, <3>1, <3>3
  <2>5. Used(q, i)
    BY <1>2, <2>2 DEF Used
  <2> QED BY <1>2, <2>2, <2>3, <2>4, <2>5
<1>6. MatchesBut(en, q, f)
  BY <1>4, <1>5 DEF MatchesBut
<1>7. Armed(r) => Armed(q)
  <2>1. \A i \in Slots : q.slot[i].flow # NoFlow => r.slot[i].flow # NoFlow
    BY <1>1, <1>2 DEF Slots
  <2> QED BY <1>2, <2>1 DEF Armed
<1> QED BY <1>6, <1>7 DEF q

-----------------------------------------------------------------------------
(* A step of one flow.                                                     *)

CoreType(s) ==
  /\ s.entry \in [Flows -> Entries]
  /\ s.ring \in Rings
  /\ s.up \in [Flows -> Seq(Frames)]

SameBut(s, t, f) ==
  \A g \in Flows \ {f} : t.entry[g] = s.entry[g] /\ t.up[g] = s.up[g]

PutResult(s, t, f, e, r, out) ==
  /\ CoreType(t) /\ SameBut(s, t, f)
  /\ t.entry = [s.entry EXCEPT ![f] = e] /\ t.ring = r
  /\ t.entry[f] = e /\ t.up[f] = out

LEMMA PutIs ==
  ASSUME NEW s, s.entry \in [Flows -> Entries], s.up \in [Flows -> Seq(Frames)],
         NEW f \in Flows, NEW e \in Entries, NEW r \in Rings, NEW out \in Seq(Frames)
  PROVE  PutResult(s, Put(s, f, e, r, out), f, e, r, out)
<1>1. Put(s, f, e, r, out).entry = [s.entry EXCEPT ![f] = e]
      /\ Put(s, f, e, r, out).ring = r /\ Put(s, f, e, r, out).up = [s.up EXCEPT ![f] = out]
  BY DEF Put
<1> QED BY <1>1 DEF PutResult, CoreType, SameBut

\* The entry reorder_ctrl_consumeQ leaves.
Consumed(e) ==
  [Emptied(e, e.win_start, SN_DIFF(e.last_seq, e.win_start) + 1)
     EXCEPT !.start_rcv = FALSE, !.rc_timer_id = 0]

ConsumedOut(e, out) ==
  out \o Queued(e, e.win_start, SN_DIFF(e.last_seq, e.win_start) + 1)

LEMMA ConsumedType ==
  ASSUME NEW e \in Entries, NEW out \in Seq(Frames)
  PROVE  /\ Consumed(e) \in Entries /\ Consumed(e).rc_timer_id = 0
         /\ ConsumedOut(e, out) \in Seq(Frames)
<1>1. e.win_start \in Int /\ e.last_seq \in Int
  BY ReorderAssumption DEF Entries
<1>2. SN_DIFF(e.last_seq, e.win_start) + 1 \in Nat
  <2>1. SN_DIFF(e.last_seq, e.win_start) \in 0 .. SnSpace - 1
    BY <1>1, DiffIn
  <2> QED BY <2>1, ReorderAssumption
<1>3. Queued(e, e.win_start, SN_DIFF(e.last_seq, e.win_start) + 1) \in Seq(Frames)
  BY <1>1, <1>2, QueuedType
<1>4. Emptied(e, e.win_start, SN_DIFF(e.last_seq, e.win_start) + 1) \in Entries
  BY EmptiedType
<1>5. Consumed(e) \in Entries /\ Consumed(e).rc_timer_id = 0
  <2> DEFINE m == Emptied(e, e.win_start, SN_DIFF(e.last_seq, e.win_start) + 1)
  <2>1. m \in Entries /\ Consumed(e) = [m EXCEPT !.start_rcv = FALSE, !.rc_timer_id = 0]
    BY <1>4 DEF Consumed
  <2> HIDE DEF m
  <2>2. Consumed(e) = [packet_q |-> m.packet_q, start_rcv |-> FALSE, rc_timer_id |-> 0,
                       win_start |-> m.win_start, last_seq |-> m.last_seq]
    BY <2>1 DEF Entries
  <2>3. 0 \in 0 .. RingSize
    BY ReorderAssumption
  <2>4. m.packet_q \in [0 .. WinSz - 1 -> Frames \cup {NoFrame}]
        /\ m.win_start \in 0 .. SnSpace - 1 /\ m.last_seq \in 0 .. SnSpace - 1
    BY <2>1 DEF Entries
  <2> QED BY <2>2, <2>3, <2>4 DEF Entries
<1> QED BY <1>3, <1>5 DEF ConsumedOut

AwaitResult(s, t, f, r, from) ==
  /\ CoreType(t) /\ SameBut(s, t, f) /\ Matches(t.entry, t.ring)
  /\ ~from /\ Armed(r) => Armed(t.ring)
  /\ t.ring = r \/ (~Full(r) /\ t.ring = reorder_ctrl_timer_add(r, f, from))

LEMMA AwaitKeeps ==
  ASSUME NEW s, s.entry \in [Flows -> Entries], s.up \in [Flows -> Seq(Frames)],
         NEW f \in Flows, NEW e \in Entries, NEW r \in Rings, NEW out \in Seq(Frames),
         NEW from \in BOOLEAN, MatchesBut(s.entry, r, f)
  PROVE  AwaitResult(s, Await(s, f, e, r, out, from), f, r, from)
<1>1. CASE Full(r)
  <2> DEFINE t == Put(s, f, Consumed(e), r, ConsumedOut(e, out))
  <2>1. Await(s, f, e, r, out, from) = t
    BY <1>1 DEF Await, reorder_ctrl_consumeQ, Consumed, ConsumedOut
  <2>2. Consumed(e) \in Entries /\ Consumed(e).rc_timer_id = 0
        /\ ConsumedOut(e, out) \in Seq(Frames)
    BY ConsumedType
  <2>3. PutResult(s, t, f, Consumed(e), r, ConsumedOut(e, out))
    BY <2>2, PutIs
  <2>4. Matches([s.entry EXCEPT ![f] = Consumed(e)], r)
    BY <2>2, UnnamedMatches
  <2> HIDE DEF t
  <2> QED BY <2>1, <2>3, <2>4 DEF PutResult, AwaitResult
<1>2. CASE ~Full(r)
  <2> DEFINE q == reorder_ctrl_timer_add(r, f, from)
             n == [e EXCEPT !.rc_timer_id = r.head + 1]
             t == Put(s, f, n, q, out)
  <2>1. Await(s, f, e, r, out, from) = t
    BY <1>2 DEF Await
  <2>2. q \in Rings
    BY AddedType
  <2>3. n \in Entries
    <3>1. r.head + 1 \in 0 .. RingSize
      BY RingType, ReorderAssumption DEF Slots
    <3> QED BY <3>1 DEF Entries
  <2>4. Matches([s.entry EXCEPT ![f] = n], q)
    BY <1>2, AddedMatches
  <2>5. ~from /\ Armed(r) => Armed(q)
    BY AddedArmed DEF Armed
  <2>6. PutResult(s, t, f, n, q, out)
    <3> HIDE DEF q, n
    <3> QED BY <2>2, <2>3, PutIs
  <2>7. q = reorder_ctrl_timer_add(r, f, from)
    OBVIOUS
  <2> HIDE DEF t, q, n
  <2> QED BY <1>2, <2>1, <2>4, <2>5, <2>6, <2>7 DEF PutResult, AwaitResult
<1> QED BY <1>1, <1>2

-----------------------------------------------------------------------------
(* The inductive invariant, and reception.                                 *)

IInv == TypeOK /\ Matches(entry, ring) /\ Armed(ring)

CoreInv(t) == CoreType(t) /\ Matches(t.entry, t.ring) /\ Armed(t.ring)

LEMMA BecomesKeeps ==
  ASSUME NEW t, Becomes(t), CoreInv(t), arrived' \in [Flows -> SUBSET Frames]
  PROVE  IInv'
<1>1. entry' = t.entry /\ ring' = t.ring /\ up' = t.up
  BY DEF Becomes
<1>2. TypeOK'
  BY <1>1 DEF CoreInv, CoreType, TypeOK
<1>3. Matches(entry, ring)'
  BY <1>1 DEF CoreInv, Matches, HasSlot, NamesOwner, Used
<1>4. Armed(ring)'
  BY <1>1 DEF CoreInv, Armed
<1> QED BY <1>2, <1>3, <1>4 DEF IInv

LEMMA ArrivesType ==
  ASSUME TypeOK, NEW f \in Flows, NEW n \in Frames, Arrives(f, n)
  PROVE  arrived' \in [Flows -> SUBSET Frames]
<1>1. PICK top : arrived' = [arrived EXCEPT ![f] = {m \in arrived[f] \cup {n} : top - m <= Reach}]
  BY DEF Arrives
<1>2. {m \in arrived[f] \cup {n} : top - m <= Reach} \in SUBSET Frames
  BY DEF TypeOK
<1> QED BY <1>1, <1>2 DEF TypeOK

\* An entry that keeps its timeout.
LEMMA TimerKept ==
  ASSUME NEW en \in [Flows -> Entries], NEW r, NEW f \in Flows, Matches(en, r),
         NEW e, e.rc_timer_id = en[f].rc_timer_id
  PROVE  Matches([en EXCEPT ![f] = e], r)
<1> DEFINE n == [en EXCEPT ![f] = e]
<1>1. \A g \in Flows : n[g].rc_timer_id = en[g].rc_timer_id
  OBVIOUS
<1>2. \A g : g \notin Flows => n[g] = en[g]
  OBVIOUS
<1> HIDE DEF n
<1>3. \A g \in Flows : HasSlot(n, r, g)
  BY <1>1 DEF Matches, HasSlot
<1>4. \A i \in Slots : NamesOwner(n, r, i)
  BY <1>1, <1>2 DEF Matches, NamesOwner
<1>5. Matches(n, r)
  BY <1>3, <1>4 DEF Matches
<1> QED BY <1>5 DEF n

LEMMA StateIs ==
  State.entry = entry /\ State.ring = ring /\ State.up = up
BY DEF State

LEMMA FrameFacts ==
  ASSUME NEW n \in Frames
  PROVE  n \in Nat /\ n % SnSpace \in 0 .. SnSpace - 1 /\ n % WinSz \in 0 .. WinSz - 1
         /\ <<n>> \in Seq(Frames)
<1>1. n \in Nat /\ SnSpace \in Nat \ {0} /\ WinSz \in Nat \ {0}
  BY ReorderAssumption
<1>2. n % SnSpace \in 0 .. SnSpace - 1 /\ n % WinSz \in 0 .. WinSz - 1
  BY <1>1, ModIn
<1> QED BY <1>1, <1>2

Opened(e, b, w, l) == [e EXCEPT !.start_rcv = b, !.win_start = w, !.last_seq = l]

LEMMA OpenedType ==
  ASSUME NEW e \in Entries, NEW b \in BOOLEAN, NEW w \in 0 .. SnSpace - 1,
         NEW l \in 0 .. SnSpace - 1
  PROVE  Opened(e, b, w, l) \in Entries /\ Opened(e, b, w, l).rc_timer_id = e.rc_timer_id
<1> DEFINE a == [e EXCEPT !.start_rcv = b]
           c == [a EXCEPT !.win_start = w]
<1>a. a = [packet_q |-> e.packet_q, start_rcv |-> b, rc_timer_id |-> e.rc_timer_id,
           win_start |-> e.win_start, last_seq |-> e.last_seq]
  BY DEF Entries
<1>b. c = [packet_q |-> e.packet_q, start_rcv |-> b, rc_timer_id |-> e.rc_timer_id,
           win_start |-> w, last_seq |-> e.last_seq]
  <2> HIDE DEF a
  <2> QED BY <1>a
<1>c. Opened(e, b, w, l) = [c EXCEPT !.last_seq = l]
  BY DEF Opened
<1>1. Opened(e, b, w, l)
        = [packet_q |-> e.packet_q, start_rcv |-> b, rc_timer_id |-> e.rc_timer_id,
           win_start |-> w, last_seq |-> l]
  <2> HIDE DEF c
  <2> QED BY <1>b, <1>c
<1>2. e.packet_q \in [0 .. WinSz - 1 -> Frames \cup {NoFrame}]
      /\ e.rc_timer_id \in 0 .. RingSize
  BY DEF Entries
<1> QED BY <1>1, <1>2 DEF Entries

LEMMA FirstKeeps ==
  ASSUME IInv, NEW f \in Flows, NEW n \in Frames, ReceiveFirst(f, n)
  PROVE  IInv'
<1> DEFINE e == [entry[f] EXCEPT !.start_rcv = TRUE, !.win_start = SN_NEXT(n % SnSpace),
                                 !.last_seq = n % SnSpace]
           t == Put(State, f, e, ring, <<n>>)
<1>1. entry \in [Flows -> Entries] /\ ring \in Rings /\ up \in [Flows -> Seq(Frames)]
  BY DEF IInv, TypeOK
<1>2. n % SnSpace \in 0 .. SnSpace - 1 /\ <<n>> \in Seq(Frames)
  BY FrameFacts
<1>3. SN_NEXT(n % SnSpace) \in 0 .. SnSpace - 1
  <2>1. (n % SnSpace) + 1 \in Int /\ SnSpace \in Nat \ {0}
    BY <1>2, ReorderAssumption
  <2> QED BY <2>1, ModIn DEF SN_NEXT
<1>4. e \in Entries /\ e.rc_timer_id = entry[f].rc_timer_id
  <2> DEFINE w == SN_NEXT(n % SnSpace)
             l == n % SnSpace
  <2>1. entry[f] \in Entries
    BY <1>1
  <2>2. w \in 0 .. SnSpace - 1 /\ l \in 0 .. SnSpace - 1
    BY <1>2, <1>3
  <2> HIDE DEF w, l
  <2>3. TRUE \in BOOLEAN
    OBVIOUS
  <2>4. e = Opened(entry[f], TRUE, w, l)
    BY DEF Opened, w, l
  <2> HIDE DEF e
  <2> QED BY <2>1, <2>2, <2>3, <2>4, OpenedType
<1>5. PutResult(State, t, f, e, ring, <<n>>)
  <2> HIDE DEF e
  <2> QED BY <1>1, <1>2, <1>4, StateIs, PutIs
<1>6. Matches([entry EXCEPT ![f] = e], ring)
  <2> HIDE DEF e
  <2> QED BY <1>1, <1>4, TimerKept DEF IInv
<1>7. Becomes(t) /\ Arrives(f, n)
  BY DEF ReceiveFirst
<1> HIDE DEF t, e
<1>8. CoreInv(t)
  BY <1>5, <1>6, StateIs DEF PutResult, CoreInv, IInv
<1> QED BY <1>7, <1>8, ArrivesType, BecomesKeeps DEF IInv

LEMMA UpKeeps ==
  ASSUME IInv, NEW f \in Flows, NEW out \in Seq(Frames), up' = [up EXCEPT ![f] = out],
         UNCHANGED <<entry, ring>>, arrived' \in [Flows -> SUBSET Frames]
  PROVE  IInv'
<1>1. TypeOK'
  BY DEF IInv, TypeOK
<1>2. Matches(entry, ring)' /\ Armed(ring)'
  BY DEF IInv, Matches, HasSlot, NamesOwner, Used, Armed
<1> QED BY <1>1, <1>2 DEF IInv

LEMMA SeqSet ==
  ASSUME NEW e \in Entries, NEW l \in 0 .. SnSpace - 1
  PROVE  [e EXCEPT !.last_seq = l] \in Entries
         /\ [e EXCEPT !.last_seq = l].rc_timer_id = e.rc_timer_id
BY DEF Entries

LEMMA TimerCleared ==
  ASSUME NEW e \in Entries
  PROVE  [e EXCEPT !.rc_timer_id = 0] \in Entries /\ [e EXCEPT !.rc_timer_id = 0].rc_timer_id = 0
<1>1. 0 \in 0 .. RingSize
  BY ReorderAssumption
<1> QED BY <1>1 DEF Entries

LEMMA LaterType ==
  ASSUME NEW S, NEW a \in S, NEW b \in S
  PROVE  Later(a, b) \in S
BY DEF Later

\* An entry that waits, or is complete, once its timeout is forgotten.
LEMMA ForgetAndAwait ==
  ASSUME IInv, NEW f \in Flows, NEW e \in Entries, NEW out \in Seq(Frames)
  PROVE  LET r == Forgotten(ring, entry[f].rc_timer_id)
         IN  /\ CoreInv(Await(State, f, e, r, out, FALSE))
             /\ CoreInv(Put(State, f, [e EXCEPT !.rc_timer_id = 0], r, out))
<1> DEFINE r == Forgotten(ring, entry[f].rc_timer_id)
           z == [e EXCEPT !.rc_timer_id = 0]
<1>1. entry \in [Flows -> Entries] /\ ring \in Rings /\ up \in [Flows -> Seq(Frames)]
      /\ Matches(entry, ring) /\ Armed(ring)
  BY DEF IInv, TypeOK
<1>2. entry[f].rc_timer_id \in 0 .. RingSize
  BY <1>1 DEF Entries
<1>3. r \in Rings
  BY <1>1, <1>2, ForgottenType
<1>4. MatchesBut(entry, r, f) /\ Armed(r)
  BY <1>1, ForgottenMatches
<1>5. z \in Entries /\ z.rc_timer_id = 0
  BY TimerCleared
<1> HIDE DEF r, z
<1>6. AwaitResult(State, Await(State, f, e, r, out, FALSE), f, r, FALSE)
  <2>1. FALSE \in BOOLEAN
    OBVIOUS
  <2> QED BY <1>1, <1>3, <1>4, <2>1, StateIs, AwaitKeeps
<1>7. CoreInv(Await(State, f, e, r, out, FALSE))
  BY <1>4, <1>6 DEF AwaitResult, CoreInv
<1>8. PutResult(State, Put(State, f, z, r, out), f, z, r, out)
  BY <1>1, <1>3, <1>5, StateIs, PutIs
<1>9. Matches([entry EXCEPT ![f] = z], r)
  BY <1>1, <1>3, <1>4, <1>5, UnnamedMatches
<1>10. CoreInv(Put(State, f, z, r, out))
  BY <1>4, <1>8, <1>9, StateIs DEF PutResult, CoreInv
<1> QED BY <1>7, <1>10 DEF r, z

LEMMA NextType ==
  ASSUME NEW e \in Entries, NEW n \in Frames
  PROVE  /\ NextReceived(e, n) \in Entries
         /\ <<n>> \o Queued(e, e.win_start + 1, RunLength(e, e.win_start + 1)) \in Seq(Frames)
<1> DEFINE w == e.win_start + 1
           k == RunLength(e, w)
           a == Advanced(e, w, k)
<1>1. w \in Int
  BY ReorderAssumption DEF Entries
<1> HIDE DEF w
<1>2. k \in Nat
  BY <1>1, RunLengthIs, ReorderAssumption
<1> HIDE DEF k
<1>3. a \in Entries
  BY <1>1, <1>2, AdvancedType
<1>4. Queued(e, w, k) \in Seq(Frames)
  BY <1>1, <1>2, QueuedType
<1>5. Later(a.last_seq, n % SnSpace) \in 0 .. SnSpace - 1
  <2>1. a.last_seq \in 0 .. SnSpace - 1
    BY <1>3 DEF Entries
  <2> QED BY <2>1, FrameFacts, LaterType
<1>6. NextReceived(e, n) = [a EXCEPT !.last_seq = Later(a.last_seq, n % SnSpace)]
  BY DEF NextReceived, w, k
<1>7. <<n>> \in Seq(Frames)
  BY FrameFacts
<1> HIDE DEF a
<1>8. NextReceived(e, n) \in Entries
  BY <1>3, <1>5, <1>6, SeqSet
<1>9. <<n>> \o Queued(e, w, k) \in Seq(Frames)
  BY <1>4, <1>7
<1> QED BY <1>8, <1>9 DEF w, k

LEMMA NextKeeps ==
  ASSUME IInv, NEW f \in Flows, NEW n \in Frames, ReceiveNext(f, n)
  PROVE  IInv'
<1> DEFINE old == entry[f]
           e == NextReceived(old, n)
           r == Forgotten(ring, old.rc_timer_id)
           out == <<n>> \o Queued(old, old.win_start + 1, RunLength(old, old.win_start + 1))
           t == IF Complete(e) THEN Put(State, f, [e EXCEPT !.rc_timer_id = 0], r, out)
                ELSE Await(State, f, e, r, out, FALSE)
<1>1. old \in Entries
  BY DEF IInv, TypeOK
<1>2. Becomes(t) /\ Arrives(f, n)
  BY DEF ReceiveNext, InSegment
<1>3. e \in Entries /\ out \in Seq(Frames)
  BY <1>1, NextType
<1>4. CoreInv(t)
  <2> HIDE DEF e, out
  <2>1. /\ CoreInv(Await(State, f, e, r, out, FALSE))
        /\ CoreInv(Put(State, f, [e EXCEPT !.rc_timer_id = 0], r, out))
    BY <1>3, ForgetAndAwait
  <2> HIDE DEF r
  <2> QED BY <2>1
<1> HIDE DEF t
<1> QED BY <1>2, <1>4, ArrivesType, BecomesKeeps DEF IInv

LEMMA StoredType ==
  ASSUME NEW e \in Entries, NEW n \in Frames
  PROVE  Stored(e, n) \in Entries /\ Stored(e, n).rc_timer_id = e.rc_timer_id
<1> DEFINE q == [e.packet_q EXCEPT ![n % WinSz] = n]
<1>1. q \in [0 .. WinSz - 1 -> Frames \cup {NoFrame}]
  BY DEF Entries
<1>2. Stored(e, n) = [e EXCEPT !.packet_q = q]
  BY DEF Stored
<1> HIDE DEF q
<1> QED BY <1>1, <1>2 DEF Entries

LEMMA WithinKeeps ==
  ASSUME IInv, NEW f \in Flows, NEW n \in Frames, ReceiveWithin(f, n)
  PROVE  IInv'
<1> DEFINE s == Stored(entry[f], n)
           e == [s EXCEPT !.last_seq = Later(s.last_seq, n % SnSpace)]
           t == IF e.rc_timer_id # 0 THEN Put(State, f, e, ring, <<>>)
                ELSE Await(State, f, e, ring, <<>>, FALSE)
<1>1. entry \in [Flows -> Entries] /\ ring \in Rings /\ up \in [Flows -> Seq(Frames)]
      /\ Matches(entry, ring) /\ Armed(ring)
  BY DEF IInv, TypeOK
<1>2. Becomes(t) /\ Arrives(f, n)
  BY DEF ReceiveWithin, InSegment
<1>3. s \in Entries /\ s.rc_timer_id = entry[f].rc_timer_id
  BY <1>1, StoredType
<1>4. e \in Entries /\ e.rc_timer_id = entry[f].rc_timer_id
  <2> HIDE DEF s
  <2>1. s.last_seq \in 0 .. SnSpace - 1
    BY <1>3 DEF Entries
  <2>2. Later(s.last_seq, n % SnSpace) \in 0 .. SnSpace - 1
    BY <2>1, FrameFacts, LaterType
  <2> QED BY <1>3, <2>2, SeqSet
<1> HIDE DEF e
<1>5. <<>> \in Seq(Frames)
  OBVIOUS
<1>6. CASE e.rc_timer_id # 0
  <2>1. PutResult(State, t, f, e, ring, <<>>)
    <3>1. t = Put(State, f, e, ring, <<>>)
      BY <1>6
    <3> HIDE DEF t
    <3> QED BY <1>1, <1>4, <1>5, <3>1, StateIs, PutIs
  <2>2. Matches([entry EXCEPT ![f] = e], ring)
    BY <1>1, <1>4, TimerKept
  <2> HIDE DEF t
  <2>3. CoreInv(t)
    BY <1>1, <2>1, <2>2, StateIs DEF PutResult, CoreInv
  <2> QED BY <1>2, <2>3, ArrivesType, BecomesKeeps DEF IInv
<1>7. CASE e.rc_timer_id = 0
  <2>1. t = Await(State, f, e, ring, <<>>, FALSE)
    BY <1>7
  <2>2. Forgotten(ring, entry[f].rc_timer_id) = ring
    BY <1>4, <1>7 DEF Forgotten
  <2> HIDE DEF t
  <2>3. CoreInv(Await(State, f, e, Forgotten(ring, entry[f].rc_timer_id), <<>>, FALSE))
    BY <1>4, <1>5, ForgetAndAwait
  <2>4. CoreInv(t)
    BY <2>1, <2>2, <2>3
  <2> QED BY <1>2, <2>4, ArrivesType, BecomesKeeps DEF IInv
<1> QED BY <1>6, <1>7

-----------------------------------------------------------------------------
(* Sequence numbers, and a frame beyond the window.                        *)

Numbers == 0 .. SnSpace - 1

LEMMA SnMod ==
  \A a \in -SnSpace .. 2 * SnSpace - 1 :
    a % SnSpace = IF a < 0 THEN a + SnSpace ELSE IF a < SnSpace THEN a ELSE a - SnSpace
<1> SUFFICES ASSUME NEW a \in -SnSpace .. 2 * SnSpace - 1
             PROVE  a % SnSpace = IF a < 0 THEN a + SnSpace
                                  ELSE IF a < SnSpace THEN a ELSE a - SnSpace
  OBVIOUS
<1>1. SnSpace \in Nat \ {0} /\ a \in Int
  BY ReorderAssumption
<1>2. a \in 0 .. SnSpace - 1 => a % SnSpace = a
  BY <1>1
<1>3. a \in SnSpace .. 2 * SnSpace - 1 => a % SnSpace = a - SnSpace
  BY <1>1
<1>4. a \in -SnSpace .. -1 => a % SnSpace = a + SnSpace
  BY <1>1
<1> QED BY <1>1, <1>2, <1>3, <1>4

LEMMA SnArith ==
  /\ \A a, b \in Numbers : SN_DIFF(a, b) = IF a >= b THEN a - b ELSE a - b + SnSpace
  /\ \A a \in Numbers, k \in 0 .. SnSpace :
       (a + k) % SnSpace = IF a + k < SnSpace THEN a + k ELSE a + k - SnSpace
<1>1. SnSpace \in Nat \ {0}
  BY ReorderAssumption
<1>2. ASSUME NEW a \in Numbers, NEW b \in Numbers
      PROVE  SN_DIFF(a, b) = IF a >= b THEN a - b ELSE a - b + SnSpace
  <2>1. a - b \in -SnSpace .. 2 * SnSpace - 1
    BY <1>1 DEF Numbers
  <2>2. a \in Int /\ b \in Int /\ a - b < SnSpace
    BY <1>1 DEF Numbers
  <2> QED BY <1>1, <2>1, <2>2, SnMod DEF SN_DIFF
<1>3. ASSUME NEW a \in Numbers, NEW k \in 0 .. SnSpace
      PROVE  (a + k) % SnSpace = IF a + k < SnSpace THEN a + k ELSE a + k - SnSpace
  <2>1. a + k \in -SnSpace .. 2 * SnSpace - 1
    BY <1>1 DEF Numbers
  <2>2. a \in Int /\ k \in Int /\ a + k >= 0
    BY <1>1 DEF Numbers
  <2> QED BY <1>1, <2>1, <2>2, SnMod
<1> QED BY <1>2, <1>3

Half == SnSpace \div 2

LEMMA HalfIs == Half \in Nat /\ 2 * Half <= SnSpace /\ SnSpace <= 2 * Half + 1
                /\ WinSz \in Nat \ {0} /\ WinSz <= Half /\ WinSz + Reach <= Half
<1>1. SnSpace \in Nat \ {0} /\ WinSz \in Nat \ {0} /\ Reach \in Nat
      /\ 2 * (Reach + WinSz) <= SnSpace
  BY ReorderAssumption
<1>2. Half \in Nat /\ 2 * Half <= SnSpace /\ SnSpace <= 2 * Half + 1
  BY <1>1 DEF Half
<1> QED BY <1>1, <1>2

\* What the segments say of the distance of a frame from win_start.
LEMMA Segments ==
  ASSUME NEW e, e.win_start \in Numbers, NEW seq \in Numbers
  PROVE  LET d == SN_DIFF(seq, e.win_start)
             c == check_win_seqment(e, seq)
         IN  /\ c = 1 <=> d >= Half
             /\ c = 2 <=> d = 0
             /\ c = 3 <=> d \in 1 .. WinSz - 1
             /\ c = 4 <=> d \in WinSz .. Half - 1
<1> DEFINE w == e.win_start
           d == SN_DIFF(seq, w)
           v == (w + WinSz) % SnSpace
           g == SN_DIFF(seq, v)
           c == check_win_seqment(e, seq)
<1>1. SnSpace \in Nat \ {0}
  BY ReorderAssumption
<1>2. d = IF seq >= w THEN seq - w ELSE seq - w + SnSpace
  BY SnArith
<1>3. SN_DIFF(w, seq) = IF w >= seq THEN w - seq ELSE w - seq + SnSpace
  BY SnArith
<1>4. v = IF w + WinSz < SnSpace THEN w + WinSz ELSE w + WinSz - SnSpace
  <2>1. WinSz \in 0 .. SnSpace
    BY <1>1, HalfIs
  <2> QED BY <2>1, SnArith
<1>5. v \in Numbers
  BY <1>1, <1>4, HalfIs DEF Numbers
<1>6. g = IF seq >= v THEN seq - v ELSE seq - v + SnSpace
  <2> HIDE DEF v
  <2> QED BY <1>5, SnArith
<1>7. /\ SN_LESS(seq, w) <=> d >= Half
      /\ SN_LESS(w, seq) <=> SN_DIFF(w, seq) >= Half
      /\ SN_LESS(seq, v) <=> g >= Half
  BY DEF SN_LESS, Half
<1>8. c = IF SN_LESS(seq, w) THEN 1 ELSE IF seq = w THEN 2
          ELSE IF SN_LESS(w, seq) /\ SN_LESS(seq, v) THEN 3 ELSE 4
  BY DEF check_win_seqment
<1>9. d \in Nat /\ d < SnSpace /\ (seq = w <=> d = 0)
  BY <1>1, <1>2 DEF Numbers
<1>10. d < Half /\ d # 0 => SN_LESS(w, seq)
  BY <1>1, <1>2, <1>3, <1>7, HalfIs DEF Numbers
<1>11. d < Half => (SN_LESS(seq, v) <=> d < WinSz)
  BY <1>1, <1>2, <1>4, <1>6, <1>7, HalfIs DEF Numbers
<1> HIDE DEF d, w, v, g, c
<1>12. /\ c = 1 <=> d >= Half
       /\ c = 2 <=> d = 0
       /\ c = 3 <=> d \in 1 .. WinSz - 1
       /\ c = 4 <=> d \in WinSz .. Half - 1
  BY <1>7, <1>8, <1>9, <1>10, <1>11, HalfIs
<1> QED BY <1>12 DEF d, w, v, g, c

\* The window stops where seq lies in it, at a hole unless it has left all
\* its slots behind.
Stops(e, seq, k) ==
  /\ SN_DIFF(seq, (e.win_start + k) % SnSpace) < WinSz
  /\ k >= WinSz \/ At(e, e.win_start + k) = NoFrame

LEMMA ShiftIs ==
  ASSUME NEW e, e.win_start \in Numbers, NEW seq \in Numbers,
         SN_DIFF(seq, e.win_start) >= WinSz
  PROVE  /\ Shift(e, seq) \in 0 .. SN_DIFF(seq, e.win_start)
         /\ Stops(e, seq, Shift(e, seq))
         /\ \A i \in 0 .. Shift(e, seq) - 1 : ~Stops(e, seq, i)
<1> DEFINE S == {k \in 0 .. SnSpace - 1 : Stops(e, seq, k)}
           d == SN_DIFF(seq, e.win_start)
<1>1. SnSpace \in Nat \ {0} /\ WinSz \in Nat \ {0}
  BY ReorderAssumption
<1>2. Shift(e, seq) = Min(S)
  BY DEF Shift, Stops
<1>3. d = IF seq >= e.win_start THEN seq - e.win_start ELSE seq - e.win_start + SnSpace
  BY SnArith
<1>4. d \in 0 .. SnSpace - 1
  BY <1>1, <1>3 DEF Numbers
<1>5. (e.win_start + d) % SnSpace = seq
  <2>1. d \in 0 .. SnSpace
    BY <1>1, <1>4
  <2>2. (e.win_start + d) % SnSpace = IF e.win_start + d < SnSpace THEN e.win_start + d
                                      ELSE e.win_start + d - SnSpace
    <3> HIDE DEF d
    <3> QED BY <2>1, SnArith
  <2> QED BY <1>1, <1>3, <2>2 DEF Numbers
<1>6. SN_DIFF(seq, seq) = 0
  BY SnArith, <1>1 DEF Numbers
<1>7. d \in S
  BY <1>1, <1>4, <1>5, <1>6 DEF Stops
<1>8. S \in SUBSET Nat
  OBVIOUS
<1>9. Min(S) \in S /\ \A i \in S : Min(S) <= i
  <2> HIDE DEF S, d
  <2> QED BY <1>7, <1>8, MinIs
<1>10. Min(S) \in 0 .. SnSpace - 1 /\ Min(S) <= d
  <2>1. Min(S) <= d
    BY <1>7, <1>9
  <2> QED BY <1>9, <2>1
<1>11. ASSUME NEW i \in 0 .. Min(S) - 1 PROVE ~Stops(e, seq, i)
  <2>1. i \in 0 .. SnSpace - 1 /\ ~ (Min(S) <= i)
    <3> HIDE DEF S
    <3> QED BY <1>1, <1>10
  <2>2. i \notin S
    BY <1>9, <2>1
  <2> QED BY <2>1, <2>2
<1>12. Min(S) \in 0 .. d
  <2> HIDE DEF S, d
  <2> QED BY <1>4, <1>10
<1>13. Stops(e, seq, Min(S))
  BY <1>9
<1> QED BY <1>2, <1>11, <1>12, <1>13

LEMMA BeyondKeeps ==
  ASSUME IInv, NEW f \in Flows, NEW n \in Frames, ReceiveBeyond(f, n)
  PROVE  IInv'
<1> DEFINE old == entry[f]
           seq == n % SnSpace
           k == Shift(old, seq)
           a == Advanced(old, old.win_start, k)
           e == [Stored(a, n) EXCEPT !.last_seq = seq]
           t == Await(State, f, e, Forgotten(ring, old.rc_timer_id),
                      Queued(old, old.win_start, k), FALSE)
<1>1. old \in Entries
  BY DEF IInv, TypeOK
<1>2. Becomes(t) /\ Arrives(f, n) /\ check_win_seqment(old, seq) = 4
  BY DEF ReceiveBeyond, InSegment
<1>3. old.win_start \in Numbers /\ seq \in Numbers
  BY <1>1, FrameFacts DEF Entries, Numbers
<1>4. SN_DIFF(seq, old.win_start) \in WinSz .. Half - 1
  <2> HIDE DEF old, seq
  <2> QED BY <1>2, <1>3, Segments
<1>5. k \in Nat /\ old.win_start \in Int
  <2>1. SN_DIFF(seq, old.win_start) >= WinSz /\ SN_DIFF(seq, old.win_start) \in Nat
    BY <1>4, HalfIs
  <2> HIDE DEF old, seq
  <2>2. k \in 0 .. SN_DIFF(seq, old.win_start)
    BY <1>3, <2>1, ShiftIs
  <2> HIDE DEF k
  <2> QED BY <1>3, <2>1, <2>2, HalfIs, ReorderAssumption DEF Numbers
<1> HIDE DEF k
<1>6. a \in Entries
  BY <1>1, <1>5, AdvancedType
<1> HIDE DEF a
<1>7. e \in Entries
  <2>1. Stored(a, n) \in Entries
    BY <1>6, StoredType
  <2> HIDE DEF seq
  <2> QED BY <1>3, <2>1, SeqSet DEF Numbers
<1>8. Queued(old, old.win_start, k) \in Seq(Frames)
  BY <1>1, <1>5, QueuedType
<1>9. CoreInv(t)
  <2> HIDE DEF e
  <2>1. CoreInv(Await(State, f, e, Forgotten(ring, entry[f].rc_timer_id),
                      Queued(old, old.win_start, k), FALSE))
    BY <1>7, <1>8, ForgetAndAwait
  <2> QED BY <2>1
<1> HIDE DEF t
<1> QED BY <1>2, <1>9, ArrivesType, BecomesKeeps DEF IInv

-----------------------------------------------------------------------------
(* The timeout walks from the tail to the head the ring had before.        *)

\* h lies between tail and head, and the slots from h on have been added
\* during the walk.
Walking(r, h) ==
  /\ CIRC_CNT(h, r.tail) + CIRC_CNT(r.head, h) = CIRC_CNT(r.head, r.tail)
  /\ \A j \in Slots : CIRC_CNT(j, h) < CIRC_CNT(r.head, h) =>
       r.slot[j].flow # NoFlow /\ r.slot[j].left = Timeout

LEMMA CountIs ==
  ASSUME NEW i \in Slots, NEW t \in Slots
  PROVE  /\ CIRC_CNT(i, t) \in Nat /\ CIRC_CNT(i, t) < RingSize /\ RingSize \in Nat
         /\ CIRC_CNT(i, t) = IF i >= t THEN i - t ELSE i - t + RingSize
         /\ i \in Nat /\ t \in Nat /\ i < RingSize /\ t < RingSize
<1>1. RingSize \in Nat /\ i \in Nat /\ t \in Nat /\ i < RingSize /\ t < RingSize
  BY ReorderAssumption DEF Slots
<1>2. CIRC_CNT(i, t) = IF i >= t THEN i - t ELSE i - t + RingSize
  BY RingArith
<1>3. CIRC_CNT(i, t) \in Nat /\ CIRC_CNT(i, t) < RingSize
  BY <1>1, <1>2
<1> QED BY <1>1, <1>2, <1>3

LEMMA PassedIs ==
  ASSUME NEW r \in Rings
  PROVE  /\ Passed(r) \in Rings
         /\ Passed(r).head = r.head /\ Passed(r).tail = (r.tail + 1) % RingSize
         /\ Passed(r).sys = r.sys
         /\ \A i \in Slots : i # r.tail => Passed(r).slot[i] = r.slot[i]
         /\ Passed(r).slot[r.tail].flow = NoFlow
<1> DEFINE q == Forgotten(r, r.tail + 1)
           u == (r.tail + 1) % RingSize
<1>1. r.tail \in Slots /\ RingSize \in Nat \ {0}
  BY RingType, ReorderAssumption
<1>2. r.tail + 1 \in 0 .. RingSize /\ r.tail + 1 # 0 /\ (r.tail + 1) - 1 = r.tail
  BY <1>1 DEF Slots
<1>3. /\ q \in Rings /\ q.head = r.head /\ q.sys = r.sys
      /\ \A i \in Slots : i # r.tail => q.slot[i] = r.slot[i]
      /\ q.slot[r.tail].flow = NoFlow
  BY <1>2, ForgottenType
<1>4. u \in 0 .. RingSize - 1
  BY <1>1, <1>2, ModIn
<1>5. Passed(r) = [q EXCEPT !.tail = u]
  BY DEF Passed
<1> HIDE DEF q, u
<1>6. [q EXCEPT !.tail = u] \in Rings
  BY <1>3, <1>4 DEF Rings
<1>7. [q EXCEPT !.tail = u].head = q.head /\ [q EXCEPT !.tail = u].tail = u
      /\ [q EXCEPT !.tail = u].sys = q.sys /\ [q EXCEPT !.tail = u].slot = q.slot
  BY <1>3 DEF Rings
<1> QED BY <1>3, <1>5, <1>6, <1>7 DEF u

\* What is in use stays in use when the tail passes another slot.
LEMMA PassedUsed ==
  ASSUME NEW r \in Rings, r.tail # r.head, NEW i \in Slots, i # r.tail, Used(r, i)
  PROVE  Used(Passed(r), i)
<1> DEFINE t == r.tail
           u == (t + 1) % RingSize
<1>1. t \in Slots /\ r.head \in Slots
  BY RingType
<1>2. CIRC_CNT(r.head, t) \in Nat /\ CIRC_CNT(r.head, t) >= 1
      /\ CIRC_CNT(i, t) \in Nat /\ CIRC_CNT(i, t) >= 1
  BY <1>1, CountIs
<1>3. 1 \in 0 .. CIRC_CNT(r.head, t)
  BY <1>2
<1>4. \A j \in Slots : CIRC_CNT(j, t) >= 1 => CIRC_CNT(j, u) = CIRC_CNT(j, t) - 1
  <2> HIDE DEF t
  <2> QED BY <1>1, <1>3, TailMoves
<1>5. CIRC_CNT(i, u) < CIRC_CNT(r.head, u)
  <2>1. CIRC_CNT(i, t) < CIRC_CNT(r.head, t)
    BY DEF Used
  <2> HIDE DEF t, u
  <2> QED BY <1>1, <1>2, <1>4, <2>1
<1> QED BY <1>5, PassedIs DEF Used

LEMMA PassedWalking ==
  ASSUME NEW r \in Rings, NEW h \in Slots, r.tail # h, Walking(r, h)
  PROVE  /\ Walking(Passed(r), h)
         /\ CIRC_CNT(h, Passed(r).tail) < CIRC_CNT(h, r.tail)
<1> DEFINE t == r.tail
           q == Passed(r)
           u == q.tail
<1>1. t \in Slots /\ r.head \in Slots
  BY RingType
<1>2. q.head = r.head /\ u = (t + 1) % RingSize
      /\ \A i \in Slots : i # t => q.slot[i] = r.slot[i]
  BY PassedIs
<1>3. CIRC_CNT(h, t) + CIRC_CNT(r.head, h) = CIRC_CNT(r.head, t)
  BY DEF Walking
<1> HIDE DEF t, q, u
<1>4. t # h
  BY DEF t
<1>5. CIRC_CNT(h, t) \in Nat /\ CIRC_CNT(h, t) >= 1
      /\ CIRC_CNT(r.head, t) \in Nat /\ CIRC_CNT(r.head, h) \in Nat
  BY <1>1, <1>4, CountIs
<1>6. CIRC_CNT(r.head, t) >= 1
  BY <1>3, <1>5
<1>7. 1 \in 0 .. CIRC_CNT(r.head, t)
  BY <1>5, <1>6
<1>8. \A j \in Slots : CIRC_CNT(j, t) >= 1 => CIRC_CNT(j, u) = CIRC_CNT(j, t) - 1
  BY <1>1, <1>2, <1>7, TailMoves
<1>9. CIRC_CNT(h, u) = CIRC_CNT(h, t) - 1 /\ CIRC_CNT(r.head, u) = CIRC_CNT(r.head, t) - 1
  BY <1>1, <1>5, <1>6, <1>8
<1>10. ~ (CIRC_CNT(t, h) < CIRC_CNT(r.head, h))
  <2>1. CIRC_CNT(t, h) + CIRC_CNT(h, t) = RingSize
    <3>1. CIRC_CNT(t, h) = IF t >= h THEN t - h ELSE t - h + RingSize
      BY <1>1, CountIs
    <3>2. CIRC_CNT(h, t) = IF h >= t THEN h - t ELSE h - t + RingSize
      BY <1>1, CountIs
    <3>3. h \in Nat /\ t \in Nat /\ RingSize \in Nat
      BY <1>1, CountIs
    <3> QED BY <1>4, <3>1, <3>2, <3>3
  <2>2. CIRC_CNT(r.head, t) < RingSize /\ RingSize \in Nat /\ CIRC_CNT(t, h) \in Nat
    BY <1>1, CountIs
  <2> QED BY <1>3, <1>5, <2>1, <2>2
<1>11. ASSUME NEW j \in Slots, CIRC_CNT(j, h) < CIRC_CNT(q.head, h)
       PROVE  q.slot[j].flow # NoFlow /\ q.slot[j].left = Timeout
  <2>1. j # t
    BY <1>2, <1>10, <1>11
  <2>2. r.slot[j].flow # NoFlow /\ r.slot[j].left = Timeout
    BY <1>2, <1>11 DEF Walking
  <2> QED BY <1>2, <2>1, <2>2
<1>12. CIRC_CNT(h, u) + CIRC_CNT(q.head, h) = CIRC_CNT(q.head, u)
  BY <1>2, <1>3, <1>5, <1>9
<1>13. Walking(q, h)
  BY <1>11, <1>12 DEF Walking, u
<1>14. CIRC_CNT(h, u) < CIRC_CNT(h, t)
  BY <1>5, <1>9
<1> QED BY <1>13, <1>14 DEF q, u, t

LEMMA AddedWalking ==
  ASSUME NEW r \in Rings, NEW h \in Slots, NEW f \in Flows, NEW from \in BOOLEAN,
         Walking(r, h), ~Full(r)
  PROVE  LET q == reorder_ctrl_timer_add(r, f, from)
         IN  Walking(q, h) /\ CIRC_CNT(h, q.tail) <= CIRC_CNT(h, r.tail)
<1> DEFINE q == reorder_ctrl_timer_add(r, f, from)
           b == r.head
           t == r.tail
           u == TailSkipped(r)
<1>1. b \in Slots /\ t \in Slots /\ u \in Slots
  BY RingType, TailType
<1>2. q.head = (b + 1) % RingSize /\ q.tail = u
      /\ q.slot = [r.slot EXCEPT ![b] = [flow |-> f, left |-> Timeout]]
  BY DEF reorder_ctrl_timer_add
<1>3. PICK k \in 0 .. CIRC_CNT(b, t) : SkipsTo(r, k)
  BY <1>1, TailSkips
<1>4. u = (t + k) % RingSize /\ \A i \in 0 .. k - 1 : r.slot[(t + i) % RingSize].flow = NoFlow
  BY <1>3 DEF SkipsTo
<1>5. CIRC_SPACE(b, u) # 0
  BY DEF Full
<1>6. CIRC_CNT(h, t) + CIRC_CNT(b, h) = CIRC_CNT(b, t)
  BY DEF Walking
<1>7. r.slot \in [Slots -> [flow : Flows \cup {NoFlow}, left : -1 .. Timeout]]
  BY RingType
<1>8. q.slot[b] = [flow |-> f, left |-> Timeout] /\ \A j \in Slots \ {b} : q.slot[j] = r.slot[j]
  BY <1>1, <1>2, <1>7
<1> HIDE DEF q, b, t, u
<1>9. CIRC_CNT(h, t) \in Nat /\ CIRC_CNT(b, h) \in Nat /\ CIRC_CNT(b, t) \in Nat /\ k \in Nat
      /\ k <= CIRC_CNT(b, t)
  <2>1. CIRC_CNT(h, t) \in Nat /\ CIRC_CNT(b, h) \in Nat /\ CIRC_CNT(b, t) \in Nat
    BY <1>1, CountIs
  <2> QED BY <2>1
<1>10. k <= CIRC_CNT(h, t)
  <2>1. SUFFICES ASSUME CIRC_CNT(h, t) < k PROVE FALSE
    BY <1>9
  <2>2. CIRC_CNT(h, t) \in 0 .. k - 1 /\ CIRC_CNT(b, h) > 0
    BY <1>6, <1>9, <2>1
  <2>3. r.slot[h].flow = NoFlow
    BY <1>1, <1>4, <2>2, SlotAt
  <2>4. CIRC_CNT(h, h) = 0
    BY CountIs
  <2>5. CIRC_CNT(h, h) < CIRC_CNT(r.head, h)
    BY <2>2, <2>4 DEF b
  <2> QED BY <2>3, <2>5 DEF Walking
<1>11. CIRC_CNT(h, u) = CIRC_CNT(h, t) - k /\ CIRC_CNT(b, u) = CIRC_CNT(b, t) - k
  <2>1. \A i \in Slots : CIRC_CNT(i, t) >= k => CIRC_CNT(i, u) = CIRC_CNT(i, t) - k
    BY <1>1, <1>4, TailMoves
  <2> QED BY <1>1, <1>9, <1>10, <2>1
<1>12. CIRC_CNT(q.head, u) = CIRC_CNT(b, u) + 1
  BY <1>1, <1>2, <1>5, HeadMoves
<1>13. CIRC_SPACE(b, h) # 0
  <2>1. \A x, y \in Slots : CIRC_SPACE(x, y) = 0 <=> CIRC_CNT(x, y) = RingSize - 1
    <3> SUFFICES ASSUME NEW x \in Slots, NEW y \in Slots
                 PROVE  CIRC_SPACE(x, y) = 0 <=> CIRC_CNT(x, y) = RingSize - 1
      OBVIOUS
    <3>1. CIRC_CNT(x, y) = IF x >= y THEN x - y ELSE x - y + RingSize
      BY CountIs
    <3>2. CIRC_SPACE(x, y) = IF y > x THEN y - x - 1 ELSE y - x - 1 + RingSize
      BY RingArith
    <3>3. x \in Nat /\ y \in Nat /\ RingSize \in Nat /\ x < RingSize /\ y < RingSize
      BY CountIs
    <3> QED BY <3>1, <3>2, <3>3
  <2>2. CIRC_CNT(b, u) # RingSize - 1 /\ CIRC_CNT(b, u) < RingSize
    BY <1>1, <1>5, <2>1, CountIs
  <2>3. CIRC_CNT(b, u) = CIRC_CNT(h, u) + CIRC_CNT(b, h)
    BY <1>6, <1>9, <1>11
  <2>4. CIRC_CNT(h, u) \in Nat /\ CIRC_CNT(b, u) \in Nat /\ RingSize \in Nat
    BY <1>1, CountIs
  <2>5. CIRC_CNT(b, h) # RingSize - 1
    BY <1>9, <2>2, <2>3, <2>4
  <2> QED BY <1>1, <2>1, <2>5
<1>14. CIRC_CNT(q.head, h) = CIRC_CNT(b, h) + 1
  BY <1>1, <1>2, <1>13, HeadMoves
<1>15. CIRC_CNT(h, u) + CIRC_CNT(q.head, h) = CIRC_CNT(q.head, u)
  BY <1>6, <1>9, <1>11, <1>12, <1>14
<1>16. ASSUME NEW j \in Slots, CIRC_CNT(j, h) < CIRC_CNT(q.head, h)
       PROVE  q.slot[j].flow # NoFlow /\ q.slot[j].left = Timeout
  <2>1. CASE j = b
    BY <1>8, <2>1, ReorderAssumption
  <2>2. CASE j # b
    <3>1. CIRC_CNT(j, h) \in Nat /\ CIRC_CNT(j, h) # CIRC_CNT(b, h)
      BY <1>1, <2>2, SlotAt, CountIs
    <3>2. CIRC_CNT(j, h) < CIRC_CNT(b, h)
      BY <1>9, <1>14, <1>16, <3>1
    <3>3. r.slot[j].flow # NoFlow /\ r.slot[j].left = Timeout
      BY <3>2 DEF Walking, b
    <3> QED BY <1>8, <2>2, <3>3
  <2> QED BY <2>1, <2>2
<1>17. Walking(q, h)
  BY <1>2, <1>15, <1>16 DEF Walking
<1>18. CIRC_CNT(h, u) <= CIRC_CNT(h, t)
  BY <1>9, <1>11
<1> QED BY <1>2, <1>17, <1>18 DEF q, t

LEMMA PassedMatches ==
  ASSUME NEW en \in [Flows -> Entries], NEW r \in Rings, Matches(en, r), r.tail # r.head
  PROVE  IF r.slot[r.tail].flow = NoFlow THEN Matches(en, Passed(r))
         ELSE MatchesBut(en, Passed(r), r.slot[r.tail].flow)
<1> DEFINE t == r.tail
           q == Passed(r)
           f == r.slot[t].flow
<1>1. t \in Slots /\ q.slot[t].flow = NoFlow
      /\ \A i \in Slots : i # t => q.slot[i] = r.slot[i]
  BY RingType, PassedIs
<1>2. \A i \in Slots : i # t /\ Used(r, i) => Used(q, i)
  BY PassedUsed
<1>3. f \in Flows \cup {NoFlow} /\ NoFlow \notin Flows
  BY <1>1, RingType, ReorderAssumption
<1> HIDE DEF t, q
<1>4. ASSUME NEW g \in Flows, g # f PROVE HasSlot(en, q, g)
  <2> DEFINE i == en[g].rc_timer_id - 1
  <2>1. SUFFICES ASSUME en[g].rc_timer_id # 0 PROVE q.slot[i].flow = g /\ Used(q, i)
    BY DEF HasSlot
  <2>2. r.slot[i].flow = g /\ Used(r, i)
    BY <2>1 DEF Matches, HasSlot
  <2>3. i \in Slots
    <3>1. en[g].rc_timer_id \in 0 .. RingSize
      BY DEF Entries
    <3> QED BY <2>1, <3>1, ReorderAssumption DEF Slots
  <2>4. i # t
    BY <1>4, <2>2
  <2> QED BY <1>1, <1>2, <2>2, <2>3, <2>4
<1>5. ASSUME NEW i \in Slots PROVE NamesOwner(en, q, i)
  <2>1. NamesOwner(en, r, i)
    BY DEF Matches
  <2> QED BY <1>1, <2>1 DEF NamesOwner
<1>6. ASSUME NEW i \in Slots, f # NoFlow PROVE q.slot[i].flow # f
  <2>1. CASE i = t
    BY <1>1, <1>6, <2>1
  <2>2. CASE i # t
    <3>1. SUFFICES ASSUME r.slot[i].flow = f PROVE FALSE
      BY <1>1, <2>2
    <3>2. en[f].rc_timer_id = i + 1
      BY <1>6, <3>1 DEF Matches, NamesOwner
    <3>3. en[f].rc_timer_id = t + 1
      BY <1>1, <1>6 DEF Matches, NamesOwner
    <3> QED BY <1>1, <2>2, <3>2, <3>3, ReorderAssumption DEF Slots
  <2> QED BY <2>1, <2>2
<1> HIDE DEF f
<1>7. f = NoFlow => Matches(en, q)
  BY <1>3, <1>4, <1>5 DEF Matches
<1>8. f # NoFlow => MatchesBut(en, q, f)
  BY <1>4, <1>5, <1>6 DEF MatchesBut
<1> QED BY <1>7, <1>8 DEF f, q, t

\* The entry of a flow that waits for nothing more after a timeout.
Closed(e, b) == [e EXCEPT !.start_rcv = b, !.rc_timer_id = 0]

LEMMA ClosedType ==
  ASSUME NEW e \in Entries, NEW b \in BOOLEAN
  PROVE  Closed(e, b) \in Entries /\ Closed(e, b).rc_timer_id = 0
<1> DEFINE a == [e EXCEPT !.start_rcv = b]
<1>1. a = [packet_q |-> e.packet_q, start_rcv |-> b, rc_timer_id |-> e.rc_timer_id,
           win_start |-> e.win_start, last_seq |-> e.last_seq]
  BY DEF Entries
<1>2. Closed(e, b) = [a EXCEPT !.rc_timer_id = 0]
  BY DEF Closed
<1> HIDE DEF a
<1>3. Closed(e, b) = [packet_q |-> e.packet_q, start_rcv |-> b, rc_timer_id |-> 0,
                      win_start |-> e.win_start, last_seq |-> e.last_seq]
  BY <1>1, <1>2
<1>4. 0 \in 0 .. RingSize
  BY ReorderAssumption
<1>5. e.packet_q \in [0 .. WinSz - 1 -> Frames \cup {NoFrame}]
      /\ e.win_start \in 0 .. SnSpace - 1 /\ e.last_seq \in 0 .. SnSpace - 1
  BY DEF Entries
<1> QED BY <1>3, <1>4, <1>5 DEF Entries

Ended(e) == Closed(e, FALSE)

LEMMA EndedType ==
  ASSUME NEW e \in Entries
  PROVE  Ended(e) \in Entries /\ Ended(e).rc_timer_id = 0
<1>1. FALSE \in BOOLEAN
  OBVIOUS
<1> QED BY <1>1, ClosedType DEF Ended

GiveUpResult(s, t, f, r) ==
  /\ CoreType(t) /\ SameBut(s, t, f) /\ Matches(t.entry, t.ring)
  /\ t.ring = r \/ (~Full(r) /\ t.ring = reorder_ctrl_timer_add(r, f, TRUE))

LEMMA GiveUpKeeps ==
  ASSUME NEW s, s.entry \in [Flows -> Entries], s.up \in [Flows -> Seq(Frames)],
         NEW f \in Flows, NEW r \in Rings, MatchesBut(s.entry, r, f)
  PROVE  GiveUpResult(s, GiveUp(s, f, r), f, r)
<1> DEFINE old == s.entry[f]
           first == IF At(old, old.win_start) = NoFrame THEN old.win_start + 1
                    ELSE old.win_start
           k == RunLength(old, first)
           e == Advanced(old, first, k)
           out == Queued(old, first, k)
           t == IF Complete(e) THEN Put(s, f, Ended(e), r, out)
                ELSE Await(s, f, e, r, out, TRUE)
<1>1. GiveUp(s, f, r) = t
  BY DEF GiveUp, Ended, Closed
<1>2. old \in Entries /\ first \in Int
  BY ReorderAssumption DEF Entries
<1> HIDE DEF old, first
<1>3. k \in Nat
  BY <1>2, RunLengthIs, ReorderAssumption
<1> HIDE DEF k
<1>4. e \in Entries /\ out \in Seq(Frames)
  BY <1>2, <1>3, AdvancedType, QueuedType
<1> HIDE DEF e, out
<1>5. CASE Complete(e)
  <2>1. Ended(e) \in Entries /\ Ended(e).rc_timer_id = 0
    BY <1>4, EndedType
  <2> HIDE DEF t
  <2>2. t = Put(s, f, Ended(e), r, out)
    BY <1>5 DEF t
  <2>3. PutResult(s, Put(s, f, Ended(e), r, out), f, Ended(e), r, out)
    BY <1>4, <2>1, PutIs
  <2>4. Matches([s.entry EXCEPT ![f] = Ended(e)], r)
    BY <2>1, UnnamedMatches
  <2> QED BY <1>1, <2>2, <2>3, <2>4 DEF PutResult, GiveUpResult
<1>6. CASE ~Complete(e)
  <2> HIDE DEF t
  <2>1. t = Await(s, f, e, r, out, TRUE)
    BY <1>6 DEF t
  <2>2. TRUE \in BOOLEAN
    OBVIOUS
  <2>3. AwaitResult(s, Await(s, f, e, r, out, TRUE), f, r, TRUE)
    BY <1>4, <2>2, AwaitKeeps
  <2> QED BY <1>1, <2>1, <2>3 DEF AwaitResult, GiveUpResult
<1> QED BY <1>5, <1>6

WalkInv(s, h) ==
  /\ CoreType(s) /\ s.stop \in BOOLEAN /\ Matches(s.entry, s.ring)
  /\ ~s.stop => Walking(s.ring, h)
  /\ s.stop => s.ring.sys > 0

LEMMA SysSet ==
  ASSUME NEW r \in Rings, NEW x \in Off .. Timeout
  PROVE  LET q == [r EXCEPT !.sys = x]
         IN  /\ q \in Rings /\ q.slot = r.slot /\ q.head = r.head /\ q.tail = r.tail
             /\ q.sys = x
             /\ \A en : Matches(en, r) => Matches(en, q)
             /\ \A h : Walking(r, h) => Walking(q, h)
<1> DEFINE q == [r EXCEPT !.sys = x]
<1>1. q \in Rings /\ q.slot = r.slot /\ q.head = r.head /\ q.tail = r.tail /\ q.sys = x
  BY DEF Rings
<1> HIDE DEF q
<1>2. \A en : Matches(en, r) => Matches(en, q)
  BY <1>1 DEF Matches, HasSlot, NamesOwner, Used
<1>3. \A h : Walking(r, h) => Walking(q, h)
  BY <1>1 DEF Walking
<1> QED BY <1>1, <1>2, <1>3 DEF q

\* What a step of the walk leaves between the tail and h.
Nearer(s, t, h) ==
  ~t.stop => ~s.stop /\ (CIRC_CNT(h, t.ring.tail) < CIRC_CNT(h, s.ring.tail)
                         \/ CIRC_CNT(h, t.ring.tail) = 0)

LEMMA ExpireKeeps ==
  ASSUME NEW s, NEW h \in Slots, WalkInv(s, h)
  PROVE  WalkInv(ExpireSlot(s, h), h) /\ Nearer(s, ExpireSlot(s, h), h)
<1> DEFINE r == s.ring
           f == r.slot[r.tail].flow
           left == r.slot[r.tail].left
           t == ExpireSlot(s, h)
<1>1. s.entry \in [Flows -> Entries] /\ r \in Rings /\ s.up \in [Flows -> Seq(Frames)]
      /\ Matches(s.entry, r)
  BY DEF WalkInv, CoreType
<1>2. r.tail \in Slots /\ r.head \in Slots /\ f \in Flows \cup {NoFlow} /\ left \in -1 .. Timeout
  BY <1>1, RingType
<1>3. CASE s.stop \/ r.tail = h
  <2>1. t = s
    BY <1>3 DEF ExpireSlot
  <2>2. r.tail = h => CIRC_CNT(h, r.tail) = 0
    BY CountIs
  <2>3. Nearer(s, s, h)
    BY <1>3, <2>2 DEF Nearer
  <2> HIDE DEF t
  <2> QED BY <2>1, <2>3 DEF t
<1>4. ASSUME ~s.stop, r.tail # h PROVE Walking(r, h) /\ r.tail # r.head
  <2>1. Walking(r, h)
    BY <1>4 DEF WalkInv
  <2>2. CIRC_CNT(h, r.tail) + CIRC_CNT(r.head, h) = CIRC_CNT(r.head, r.tail)
    BY <2>1 DEF Walking
  <2> HIDE DEF r
  <2>3. CIRC_CNT(h, r.tail) \in Nat /\ CIRC_CNT(h, r.tail) # 0
    BY <1>2, <1>4, CountIs
  <2>4. CIRC_CNT(r.head, h) \in Nat
    BY <1>2, CountIs
  <2>5. r.tail = r.head => CIRC_CNT(r.head, r.tail) = 0
    BY <1>2, CountIs
  <2> QED BY <2>1, <2>2, <2>3, <2>4, <2>5
<1>5. CASE ~s.stop /\ r.tail # h /\ f = NoFlow
  <2>1. t = [entry |-> s.entry, ring |-> Passed(r), up |-> s.up, stop |-> FALSE]
    BY <1>5 DEF ExpireSlot
  <2> HIDE DEF t, r
  <2>2. Passed(r) \in Rings
    BY <1>1, PassedIs
  <2>3. Matches(s.entry, Passed(r))
    BY <1>1, <1>4, <1>5, PassedMatches
  <2>4. Walking(Passed(r), h) /\ CIRC_CNT(h, Passed(r).tail) < CIRC_CNT(h, r.tail)
    BY <1>1, <1>4, <1>5, PassedWalking
  <2>5. CoreType(t)
    BY <1>1, <2>1, <2>2 DEF CoreType
  <2>6. WalkInv(t, h)
    BY <2>1, <2>3, <2>4, <2>5 DEF WalkInv
  <2>7. Nearer(s, t, h)
    BY <1>5, <2>1, <2>4 DEF Nearer, r
  <2> QED BY <2>6, <2>7 DEF t
<1>6. CASE ~s.stop /\ r.tail # h /\ f # NoFlow /\ left > 0
  <2> DEFINE q == [r EXCEPT !.sys = left]
  <2>1. t = [entry |-> s.entry, ring |-> q, up |-> s.up, stop |-> TRUE]
    BY <1>6 DEF ExpireSlot
  <2>2. left \in Off .. Timeout
    BY <1>2 DEF Off
  <2> HIDE DEF t, r, left
  <2>3. q \in Rings /\ q.sys = left /\ Matches(s.entry, q)
    BY <1>1, <2>2, SysSet
  <2> HIDE DEF q
  <2>4. CoreType(t)
    BY <1>1, <2>1, <2>3 DEF CoreType
  <2>5. WalkInv(t, h)
    BY <1>6, <2>1, <2>3, <2>4 DEF WalkInv
  <2>6. Nearer(s, t, h)
    BY <2>1 DEF Nearer
  <2> QED BY <2>5, <2>6 DEF t
<1>7. CASE ~s.stop /\ r.tail # h /\ f # NoFlow /\ ~ (left > 0)
  <2> DEFINE p == Passed(r)
             a == GiveUp(s, f, p)
  <2>1. t = [entry |-> a.entry, ring |-> a.ring, up |-> a.up, stop |-> FALSE]
    BY <1>7 DEF ExpireSlot
  <2> HIDE DEF t, r
  <2>2. p \in Rings
    BY <1>1, PassedIs
  <2>3. MatchesBut(s.entry, p, f)
    BY <1>1, <1>4, <1>7, PassedMatches
  <2>4. Walking(p, h) /\ CIRC_CNT(h, p.tail) < CIRC_CNT(h, r.tail)
    BY <1>1, <1>4, <1>7, PassedWalking
  <2> HIDE DEF p, f
  <2>5. f \in Flows
    BY <1>2, <1>7
  <2>6. GiveUpResult(s, a, f, p)
    BY <1>1, <2>2, <2>3, <2>5, GiveUpKeeps
  <2> HIDE DEF a
  <2>7. CoreType(t) /\ Matches(t.entry, t.ring) /\ t.stop = FALSE
    BY <2>1, <2>6 DEF GiveUpResult, CoreType
  <2>8. a.ring \in Rings
    BY <2>6 DEF GiveUpResult, CoreType
  <2>9. Walking(a.ring, h) /\ CIRC_CNT(h, a.ring.tail) <= CIRC_CNT(h, p.tail)
    <3>1. CASE a.ring = p
      <4>1. CIRC_CNT(h, p.tail) \in Nat
        BY <2>2, RingType, CountIs
      <4> QED BY <2>4, <3>1, <4>1
    <3>2. CASE ~Full(p) /\ a.ring = reorder_ctrl_timer_add(p, f, TRUE)
      <4>1. TRUE \in BOOLEAN
        OBVIOUS
      <4> QED BY <2>2, <2>4, <2>5, <3>2, <4>1, AddedWalking
    <3> QED BY <2>6, <3>1, <3>2 DEF GiveUpResult
  <2>10. CIRC_CNT(h, a.ring.tail) < CIRC_CNT(h, r.tail)
    <3>1. CIRC_CNT(h, a.ring.tail) \in Nat /\ CIRC_CNT(h, p.tail) \in Nat
          /\ CIRC_CNT(h, r.tail) \in Nat
      BY <1>2, <2>2, <2>8, RingType, CountIs
    <3> QED BY <2>4, <2>9, <3>1
  <2>11. WalkInv(t, h)
    BY <2>1, <2>7, <2>9 DEF WalkInv
  <2>12. Nearer(s, t, h)
    BY <1>7, <2>1, <2>10 DEF Nearer, r
  <2> QED BY <2>11, <2>12 DEF t
<1> QED BY <1>3, <1>5, <1>6, <1>7

LEMMA WalkEnds ==
  ASSUME NEW s, NEW h \in Slots, WalkInv(s, h)
  PROVE  /\ WalkInv(Walked(s, h), h)
         /\ ~Walked(s, h).stop => Walked(s, h).ring.tail = h
<1>1. PICK p : /\ p[0] = s
               /\ \A i \in 1 .. RingSize : p[i] = ExpireSlot(p[i - 1], h)
               /\ Walked(s, h) = p[RingSize]
  BY WalkIs
<1> DEFINE Left(i) == CIRC_CNT(h, p[i].ring.tail)
           Good == {i \in Nat : i <= RingSize =>
                      WalkInv(p[i], h) /\ (~p[i].stop => Left(i) = 0 \/ Left(i) + i < RingSize)}
<1>2. RingSize \in Nat \ {0}
  BY ReorderAssumption
<1>3. \A i \in Nat : WalkInv(p[i], h) => Left(i) \in Nat /\ Left(i) < RingSize
  <2> SUFFICES ASSUME NEW i \in Nat, WalkInv(p[i], h)
               PROVE  Left(i) \in Nat /\ Left(i) < RingSize
    OBVIOUS
  <2>1. p[i].ring \in Rings
    BY DEF WalkInv, CoreType
  <2>2. p[i].ring.tail \in Slots
    BY <2>1, RingType
  <2> QED BY <2>2, CountIs
<1>4. 0 \in Good
  <2>1. WalkInv(p[0], h) /\ Left(0) \in Nat /\ Left(0) < RingSize
    BY <1>1, <1>3
  <2> HIDE DEF Left
  <2> QED BY <2>1
<1>5. ASSUME NEW i \in Nat, i \in Good PROVE i + 1 \in Good
  <2>1. SUFFICES ASSUME i + 1 <= RingSize
                 PROVE  WalkInv(p[i + 1], h)
                        /\ (~p[i + 1].stop => Left(i + 1) = 0 \/ Left(i + 1) + (i + 1) < RingSize)
    OBVIOUS
  <2>2. i + 1 \in 1 .. RingSize /\ (i + 1) - 1 = i /\ i <= RingSize
    BY <1>2, <2>1
  <2>3. p[i + 1] = ExpireSlot(p[i], h)
    BY <1>1, <2>2
  <2>4. WalkInv(p[i], h) /\ (~p[i].stop => Left(i) = 0 \/ Left(i) + i < RingSize)
    BY <1>5, <2>2
  <2>5. WalkInv(p[i + 1], h) /\ Nearer(p[i], p[i + 1], h)
    BY <2>3, <2>4, ExpireKeeps
  <2>6. Left(i) \in Nat /\ Left(i) < RingSize /\ Left(i + 1) \in Nat /\ Left(i + 1) < RingSize
    BY <1>3, <2>4, <2>5
  <2>7. ~p[i + 1].stop => ~p[i].stop /\ (Left(i + 1) < Left(i) \/ Left(i + 1) = 0)
    BY <2>5 DEF Nearer
  <2> HIDE DEF Left
  <2> QED BY <1>2, <2>4, <2>5, <2>6, <2>7
<1>6. \A i \in Nat : i \in Good
  <2> HIDE DEF Good
  <2> QED BY <1>4, <1>5, SetInduction
<1>7. WalkInv(p[RingSize], h) /\ (~p[RingSize].stop => Left(RingSize) = 0)
  <2>1. WalkInv(p[RingSize], h)
        /\ (~p[RingSize].stop => Left(RingSize) = 0 \/ Left(RingSize) + RingSize < RingSize)
    BY <1>2, <1>6
  <2>2. Left(RingSize) \in Nat
    BY <1>2, <1>3, <2>1
  <2> HIDE DEF Left
  <2> QED BY <1>2, <2>1, <2>2
<1>8. Left(RingSize) = 0 => p[RingSize].ring.tail = h
  <2>1. p[RingSize].ring \in Rings
    BY <1>7 DEF WalkInv, CoreType
  <2>2. p[RingSize].ring.tail \in Slots
    BY <2>1, RingType
  <2> QED BY <2>2, CountIs
<1> QED BY <1>1, <1>7, <1>8

LEMMA NoneUsed ==
  ASSUME NEW en \in [Flows -> Entries], NEW r \in Rings, Matches(en, r), r.head = r.tail
  PROVE  \A i \in Slots : r.slot[i].flow = NoFlow
<1> SUFFICES ASSUME NEW i \in Slots, r.slot[i].flow # NoFlow PROVE FALSE
  OBVIOUS
<1> DEFINE f == r.slot[i].flow
<1>1. f \in Flows /\ r.head \in Slots
  BY RingType
<1>2. en[f].rc_timer_id = i + 1 /\ i \in Nat
  BY ReorderAssumption DEF Matches, NamesOwner, Slots
<1>3. HasSlot(en, r, f)
  BY <1>1 DEF Matches
<1> HIDE DEF f
<1>4. Used(r, i)
  BY <1>2, <1>3 DEF HasSlot
<1>5. CIRC_CNT(r.head, r.tail) = 0 /\ CIRC_CNT(i, r.tail) \in Nat
  BY <1>1, CountIs
<1> QED BY <1>4, <1>5 DEF Used

LEMMA TimeoutKeeps ==
  ASSUME IInv, reorder_ctrl_timeout
  PROVE  IInv'
<1> DEFINE off == [ring EXCEPT !.sys = Off]
           begin == [entry |-> entry, ring |-> off, up |-> up, stop |-> FALSE]
           h == ring.head
           end == Walked(begin, h)
           r == end.ring
<1>1. entry \in [Flows -> Entries] /\ ring \in Rings /\ up \in [Flows -> Seq(Frames)]
      /\ Matches(entry, ring) /\ arrived \in [Flows -> SUBSET Frames]
  BY DEF IInv, TypeOK
<1>2. entry' = end.entry /\ up' = end.up /\ ring' = Rearmed(end) /\ arrived' = arrived
  BY DEF reorder_ctrl_timeout
<1>3. h \in Slots /\ ring.tail \in Slots
  BY <1>1, RingType
<1>4. Walking(ring, h)
  <2>1. CIRC_CNT(h, h) = 0 /\ CIRC_CNT(h, ring.tail) \in Nat
    BY <1>3, CountIs
  <2>2. \A j \in Slots : CIRC_CNT(j, h) \in Nat
    BY <1>3, CountIs
  <2> QED BY <2>1, <2>2 DEF Walking
<1>5. off \in Rings /\ Matches(entry, off) /\ Walking(off, h)
  <2>1. Off \in Off .. Timeout
    BY ReorderAssumption DEF Off
  <2> HIDE DEF h
  <2> QED BY <1>1, <1>4, <2>1, SysSet
<1>6. WalkInv(begin, h)
  <2> HIDE DEF off, h
  <2> QED BY <1>1, <1>5 DEF WalkInv, CoreType
<1> HIDE DEF begin, off, h
<1>7. WalkInv(end, h) /\ (~end.stop => r.tail = h)
  BY <1>3, <1>6, WalkEnds
<1> HIDE DEF end
<1>8. CoreType(end) /\ Matches(end.entry, r) /\ r \in Rings
  BY <1>7 DEF WalkInv, CoreType
<1>9. CASE end.stop
  <2>1. ring' = r
    BY <1>2, <1>9 DEF Rearmed
  <2>2. r.sys > 0
    BY <1>7, <1>9 DEF WalkInv
  <2>3. CoreInv(end) 
    BY <1>8, <2>2 DEF CoreInv, Armed, Off
  <2>4. Becomes(end)
    BY <1>2, <2>1 DEF Becomes
  <2> QED BY <1>1, <1>2, <2>3, <2>4, BecomesKeeps
<1>10. CASE ~end.stop /\ r.head = r.tail
  <2>1. ring' = r
    BY <1>2, <1>10 DEF Rearmed
  <2>2. \A i \in Slots : r.slot[i].flow = NoFlow
    BY <1>8, <1>10, NoneUsed DEF CoreType
  <2>3. CoreInv(end)
    BY <1>8, <2>2 DEF CoreInv, Armed
  <2>4. Becomes(end)
    BY <1>2, <2>1 DEF Becomes
  <2> QED BY <1>1, <1>2, <2>3, <2>4, BecomesKeeps
<1>11. CASE ~end.stop /\ r.head # r.tail
  <2> DEFINE q == [r EXCEPT !.sys = Timeout]
             t == [entry |-> end.entry, ring |-> q, up |-> end.up]
  <2>1. r.slot[r.tail].left = Timeout
    <3>1. r.tail = h /\ Walking(r, h)
      BY <1>7, <1>11 DEF WalkInv
    <3>2. CIRC_CNT(h, h) = 0 /\ CIRC_CNT(r.head, h) \in Nat /\ CIRC_CNT(r.head, h) # 0
      BY <1>3, <1>8, <1>11, <3>1, RingType, CountIs
    <3> QED BY <1>3, <3>1, <3>2 DEF Walking
  <2>2. Timeout \in Nat \ {0} /\ Timeout \in Off .. Timeout
    BY ReorderAssumption DEF Off
  <2>3. ring' = q
    BY <1>2, <1>11, <2>1, <2>2 DEF Rearmed, AtLeast1
  <2>4. q \in Rings /\ q.sys = Timeout /\ Matches(end.entry, q)
    BY <1>8, <2>2, SysSet
  <2> HIDE DEF q
  <2>5. CoreInv(t)
    BY <1>8, <2>2, <2>4 DEF CoreInv, CoreType, Armed, Off
  <2>6. Becomes(t)
    BY <1>2, <2>3 DEF Becomes
  <2> HIDE DEF t
  <2> QED BY <1>1, <1>2, <2>5, <2>6, BecomesKeeps
<1> QED BY <1>9, <1>10, <1>11

-----------------------------------------------------------------------------
(* The clock, release, and the theorems.                                   *)

LEMMA TickKeeps == IInv /\ Tick => IInv'
<1> SUFFICES ASSUME IInv, Tick PROVE IInv'
  OBVIOUS
<1> DEFINE Older(x) == IF x < 0 THEN x ELSE x - 1
           slot == [i \in Slots |-> [flow |-> ring.slot[i].flow,
                                     left |-> Older(ring.slot[i].left)]]
           sys == IF ring.sys > 0 THEN ring.sys - 1 ELSE ring.sys
<1>1. /\ ring \in Rings /\ entry \in [Flows -> Entries] /\ up \in [Flows -> Seq(Frames)]
      /\ arrived \in [Flows -> SUBSET Frames] /\ Matches(entry, ring) /\ Armed(ring)
  BY DEF IInv, TypeOK
<1>2. /\ ring.slot \in [Slots -> [flow : Flows \cup {NoFlow}, left : -1 .. Timeout]]
      /\ ring.sys \in Off .. Timeout /\ Timeout \in Nat
  BY <1>1, RingType, ReorderAssumption
<1>3. \A i \in Slots : Older(ring.slot[i].left) \in -1 .. Timeout
                       /\ ring.slot[i].flow \in Flows \cup {NoFlow}
  BY <1>2
<1>4. sys \in Off .. Timeout /\ (ring.sys # Off => sys # Off)
  BY <1>2 DEF Off
<1>5. ring' = [ring EXCEPT !.slot = slot, !.sys = sys]
  BY <1>2 DEF Tick
<1>6. entry' = entry /\ up' = up /\ arrived' = arrived
  BY DEF Tick
<1> HIDE DEF Older
<1>7. slot \in [Slots -> [flow : Flows \cup {NoFlow}, left : -1 .. Timeout]]
      /\ \A i \in Slots : slot[i].flow = ring.slot[i].flow
  BY <1>3
<1> HIDE DEF slot, sys
<1> DEFINE t == [entry |-> entry, ring |-> ring', up |-> up]
<1>8. ring' \in Rings /\ ring'.slot = slot /\ ring'.sys = sys
      /\ ring'.head = ring.head /\ ring'.tail = ring.tail
  <2> DEFINE a == [ring EXCEPT !.slot = slot]
  <2>1. a \in Rings /\ a.slot = slot /\ a.sys = ring.sys /\ a.head = ring.head
        /\ a.tail = ring.tail
    BY <1>1, <1>7 DEF Rings, Slots
  <2>2. ring' = [a EXCEPT !.sys = sys]
    BY <1>5
  <2> HIDE DEF a
  <2>3. [a EXCEPT !.sys = sys] \in Rings /\ [a EXCEPT !.sys = sys].slot = a.slot
        /\ [a EXCEPT !.sys = sys].sys = sys /\ [a EXCEPT !.sys = sys].head = a.head
        /\ [a EXCEPT !.sys = sys].tail = a.tail
    BY <1>4, <2>1, SysSet
  <2> QED BY <2>1, <2>2, <2>3
<1>9. Matches(entry, ring')
  <2>1. ASSUME NEW f \in Flows PROVE HasSlot(entry, ring', f)
    <3> DEFINE i == entry[f].rc_timer_id - 1
    <3>1. SUFFICES ASSUME entry[f].rc_timer_id # 0
                   PROVE  slot[i].flow = f /\ Used(ring', i)
      BY <1>8 DEF HasSlot
    <3>2. ring.slot[i].flow = f /\ Used(ring, i)
      BY <1>1, <3>1 DEF Matches, HasSlot
    <3>3. i \in Slots
      <4>1. entry[f].rc_timer_id \in 0 .. RingSize
        BY <1>1 DEF Entries
      <4> QED BY <3>1, <4>1, ReorderAssumption DEF Slots
    <3> QED BY <1>7, <1>8, <3>2, <3>3 DEF Used
  <2>2. ASSUME NEW i \in Slots PROVE NamesOwner(entry, ring', i)
    BY <1>1, <1>7, <1>8 DEF Matches, NamesOwner
  <2> QED BY <2>1, <2>2 DEF Matches
<1>10. Armed(ring')
  BY <1>1, <1>4, <1>7, <1>8 DEF Armed
<1>11. CoreInv(t)
  BY <1>1, <1>8, <1>9, <1>10 DEF CoreInv, CoreType
<1>12. Becomes(t)
  BY <1>6 DEF Becomes
<1> HIDE DEF t
<1> QED BY <1>1, <1>6, <1>11, <1>12, BecomesKeeps

LEMMA NewEntryType == NewEntry \in Entries /\ NewEntry.rc_timer_id = 0
<1>1. 0 \in 0 .. RingSize /\ 0 \in 0 .. SnSpace - 1
  BY ReorderAssumption
<1> QED BY <1>1 DEF NewEntry, Entries

LEMMA FreedIs ==
  ASSUME ring \in Rings, NEW F \in SUBSET Flows
  PROVE  /\ SlotsFreed(F) \in [Slots -> [flow : Flows \cup {NoFlow}, left : -1 .. Timeout]]
         /\ \A i \in Slots :
              SlotsFreed(F)[i].flow = IF ring.slot[i].flow \in F THEN NoFlow
                                      ELSE ring.slot[i].flow
<1>1. ring.slot \in [Slots -> [flow : Flows \cup {NoFlow}, left : -1 .. Timeout]]
  BY RingType
<1> DEFINE New(i) == IF ring.slot[i].flow \in F THEN [ring.slot[i] EXCEPT !.flow = NoFlow]
                     ELSE ring.slot[i]
<1>2. \A i \in Slots : New(i) \in [flow : Flows \cup {NoFlow}, left : -1 .. Timeout]
        /\ New(i).flow = IF ring.slot[i].flow \in F THEN NoFlow ELSE ring.slot[i].flow
  BY <1>1
<1>3. SlotsFreed(F) = [i \in Slots |-> New(i)]
  BY DEF SlotsFreed, Slots
<1> HIDE DEF New
<1> QED BY <1>2, <1>3

LEMMA ReleasedKeeps ==
  ASSUME IInv, NEW F \in SUBSET Flows, Released(F), NEW r \in Rings, ring' = r,
         r.slot = SlotsFreed(F), r.head = ring.head, r.tail = ring.tail,
         r.sys = ring.sys \/ F = Flows
  PROVE  IInv'
<1> DEFINE en == [f \in Flows |-> IF f \in F THEN NewEntry ELSE entry[f]]
           out == [f \in Flows |-> IF f \in F THEN <<>> ELSE up[f]]
           t == [entry |-> en, ring |-> r, up |-> out]
<1>1. /\ ring \in Rings /\ entry \in [Flows -> Entries] /\ up \in [Flows -> Seq(Frames)]
      /\ arrived \in [Flows -> SUBSET Frames] /\ Matches(entry, ring) /\ Armed(ring)
  BY DEF IInv, TypeOK
<1>2. NewEntry \in Entries /\ NewEntry.rc_timer_id = 0
  BY NewEntryType
<1>3. \A i \in Slots : r.slot[i].flow = IF ring.slot[i].flow \in F THEN NoFlow
                                        ELSE ring.slot[i].flow
  BY <1>1, FreedIs
<1>4. en \in [Flows -> Entries] /\ out \in [Flows -> Seq(Frames)]
      /\ \A f \in Flows : en[f] = IF f \in F THEN NewEntry ELSE entry[f]
  <2>1. <<>> \in Seq(Frames)
    OBVIOUS
  <2> QED BY <1>1, <1>2, <2>1
<1>5. entry' = en /\ up' = out /\ arrived' = arrived
  BY DEF Released
<1> HIDE DEF en, out
<1>6. \A f \in Flows : HasSlot(en, r, f)
  <2> SUFFICES ASSUME NEW f \in Flows, en[f].rc_timer_id # 0
               PROVE  r.slot[en[f].rc_timer_id - 1].flow = f
                      /\ Used(r, en[f].rc_timer_id - 1)
    BY DEF HasSlot
  <2>1. f \notin F /\ en[f] = entry[f]
    BY <1>2, <1>4
  <2>2. ring.slot[en[f].rc_timer_id - 1].flow = f /\ Used(ring, en[f].rc_timer_id - 1)
    BY <1>1, <2>1 DEF Matches, HasSlot
  <2>3. en[f].rc_timer_id - 1 \in Slots
    <3>1. en[f].rc_timer_id \in 0 .. RingSize
      BY <1>4 DEF Entries
    <3> QED BY <3>1, ReorderAssumption DEF Slots
  <2> QED BY <1>3, <2>1, <2>2, <2>3 DEF Used
<1>7. \A i \in Slots : NamesOwner(en, r, i)
  <2> SUFFICES ASSUME NEW i \in Slots, r.slot[i].flow # NoFlow
               PROVE  en[r.slot[i].flow].rc_timer_id = i + 1
    BY DEF NamesOwner
  <2>1. r.slot[i].flow = ring.slot[i].flow /\ ring.slot[i].flow \notin F
    BY <1>3
  <2>2. ring.slot[i].flow \in Flows
    BY <1>1, <2>1, RingType
  <2>3. entry[ring.slot[i].flow].rc_timer_id = i + 1
    BY <1>1, <2>1 DEF Matches, NamesOwner
  <2> QED BY <1>4, <2>1, <2>2, <2>3
<1>8. Armed(r)
  <2>1. CASE F = Flows
    <3>1. \A i \in Slots : r.slot[i].flow = NoFlow
      BY <1>1, <1>3, <2>1, RingType
    <3> QED BY <3>1 DEF Armed
  <2>2. CASE r.sys = ring.sys
    <3>1. \A i \in Slots : r.slot[i].flow # NoFlow => ring.slot[i].flow # NoFlow
      BY <1>3
    <3> QED BY <1>1, <2>2, <3>1 DEF Armed
  <2> QED BY <2>1, <2>2
<1>9. CoreInv(t)
  <2>1. Matches(en, r)
    BY <1>6, <1>7 DEF Matches
  <2> QED BY <1>4, <1>8, <2>1 DEF CoreInv, CoreType
<1>10. Becomes(t)
  BY <1>5 DEF Becomes
<1> HIDE DEF t
<1> QED BY <1>1, <1>5, <1>9, <1>10, BecomesKeeps

LEMMA ReleaseKeeps ==
  ASSUME IInv, NEW f \in Flows, Release(f)
  PROVE  IInv'
<1> DEFINE r == [ring EXCEPT !.slot = SlotsFreed({f})]
<1>1. ring \in Rings
  BY DEF IInv, TypeOK
<1>2. {f} \in SUBSET Flows
  OBVIOUS
<1>3. SlotsFreed({f}) \in [Slots -> [flow : Flows \cup {NoFlow}, left : -1 .. Timeout]]
  BY <1>1, <1>2, FreedIs
<1>4. r \in Rings /\ r.slot = SlotsFreed({f}) /\ r.head = ring.head /\ r.tail = ring.tail
      /\ r.sys = ring.sys
  BY <1>1, <1>3 DEF Rings, Slots
<1>5. Released({f}) /\ ring' = r
  BY DEF Release
<1> HIDE DEF r
<1> QED BY <1>2, <1>4, <1>5, ReleasedKeeps

LEMMA RestartKeeps == IInv /\ Restart => IInv'
<1> SUFFICES ASSUME IInv, Restart PROVE IInv'
  OBVIOUS
<1> DEFINE a == [ring EXCEPT !.slot = SlotsFreed(Flows)]
           r == [a EXCEPT !.sys = Off]
<1>1. ring \in Rings
  BY DEF IInv, TypeOK
<1>2. SlotsFreed(Flows) \in [Slots -> [flow : Flows \cup {NoFlow}, left : -1 .. Timeout]]
  BY <1>1, FreedIs
<1>3. a \in Rings /\ a.slot = SlotsFreed(Flows) /\ a.head = ring.head /\ a.tail = ring.tail
  BY <1>1, <1>2 DEF Rings, Slots
<1>4. Released(Flows) /\ ring' = r
  BY DEF Restart
<1>5. Off \in Off .. Timeout
  BY ReorderAssumption DEF Off
<1> HIDE DEF a
<1>6. r \in Rings /\ r.slot = a.slot /\ r.head = a.head /\ r.tail = a.tail
  BY <1>3, <1>5, SysSet
<1> HIDE DEF r
<1>7. Flows \in SUBSET Flows
  OBVIOUS
<1> QED BY <1>3, <1>4, <1>6, <1>7, ReleasedKeeps

LEMMA FlushKeeps ==
  ASSUME IInv, NEW f \in Flows, IdleFlush(f)
  PROVE  IInv'
<1> DEFINE none == [i \in 0 .. WinSz - 1 |-> NoFrame]
           a == [entry[f] EXCEPT !.start_rcv = FALSE]
           e == [a EXCEPT !.packet_q = none]
           t == [entry |-> [entry EXCEPT ![f] = e], ring |-> ring, up |-> [up EXCEPT ![f] = <<>>]]
<1>1. /\ ring \in Rings /\ entry \in [Flows -> Entries] /\ up \in [Flows -> Seq(Frames)]
      /\ arrived \in [Flows -> SUBSET Frames] /\ Matches(entry, ring) /\ Armed(ring)
  BY DEF IInv, TypeOK
<1>2. entry' = [entry EXCEPT ![f] = e] /\ up' = [up EXCEPT ![f] = <<>>]
      /\ ring' = ring /\ arrived' = arrived
  BY <1>1 DEF IdleFlush
<1>3. none \in [0 .. WinSz - 1 -> Frames \cup {NoFrame}]
  OBVIOUS
<1>4. a \in Entries /\ a.rc_timer_id = entry[f].rc_timer_id
  BY <1>1 DEF Entries
<1> HIDE DEF a, none
<1>5. e \in Entries /\ e.rc_timer_id = entry[f].rc_timer_id
  BY <1>3, <1>4 DEF Entries
<1> HIDE DEF e
<1>6. Matches([entry EXCEPT ![f] = e], ring)
  BY <1>1, <1>5, TimerKept
<1>7. <<>> \in Seq(Frames)
  OBVIOUS
<1>8. CoreInv(t)
  BY <1>1, <1>5, <1>6, <1>7 DEF CoreInv, CoreType
<1>9. Becomes(t)
  BY <1>2 DEF Becomes
<1> HIDE DEF t
<1> QED BY <1>1, <1>2, <1>8, <1>9, BecomesKeeps

LEMMA IInvInit == Init => IInv
<1> SUFFICES ASSUME Init PROVE IInv
  OBVIOUS
<1>1. NewEntry \in Entries /\ NewEntry.rc_timer_id = 0
  BY NewEntryType
<1>2. entry = [f \in Flows |-> NewEntry] /\ up = [f \in Flows |-> <<>>]
      /\ arrived = [f \in Flows |-> {}]
  BY DEF Init
<1>3. /\ ring.slot = [i \in Slots |-> [flow |-> NoFlow, left |-> -1]]
      /\ ring = [slot |-> ring.slot, head |-> 0, tail |-> 0, sys |-> Off]
  BY DEF Init, Slots
<1>4. ring.slot \in [Slots -> [flow : Flows \cup {NoFlow}, left : -1 .. Timeout]]
      /\ \A i \in Slots : ring.slot[i].flow = NoFlow
  BY <1>3, ReorderAssumption
<1>5. 0 \in 0 .. RingSize - 1 /\ Off \in Off .. Timeout
  BY ReorderAssumption DEF Off
<1>6. ring \in Rings
  BY <1>3, <1>4, <1>5 DEF Rings, Slots
<1>7. TypeOK
  BY <1>1, <1>2, <1>6 DEF TypeOK
<1>8. Matches(entry, ring)
  BY <1>1, <1>2, <1>4 DEF Matches, HasSlot, NamesOwner
<1>9. Armed(ring)
  BY <1>4 DEF Armed
<1> QED BY <1>7, <1>8, <1>9 DEF IInv

LEMMA IInvStep == IInv /\ [Next]_vars => IInv'
<1> SUFFICES ASSUME IInv, [Next]_vars PROVE IInv'
  OBVIOUS
<1>1. ASSUME Receive PROVE IInv'
  <2>1. PICK f \in Flows, n \in Frames :
          \/ ReceivePlain(f, n) \/ ReceiveFirst(f, n) \/ ReceiveBehind(f, n)
          \/ ReceiveNext(f, n) \/ ReceiveWithin(f, n) \/ ReceiveAgain(f, n)
          \/ ReceiveBeyond(f, n)
    BY <1>1 DEF Receive
  <2>2. <<n>> \in Seq(Frames) /\ <<>> \in Seq(Frames)
    OBVIOUS
  <2>3. TypeOK
    BY DEF IInv
  <2>4. CASE ReceivePlain(f, n)
    BY <2>2, <2>3, <2>4, ArrivesType, UpKeeps DEF ReceivePlain
  <2>5. CASE ReceiveBehind(f, n)
    BY <2>2, <2>3, <2>5, ArrivesType, UpKeeps DEF ReceiveBehind, InSegment
  <2>6. CASE ReceiveAgain(f, n)
    BY <2>2, <2>3, <2>6, ArrivesType, UpKeeps DEF ReceiveAgain
  <2> QED BY <2>1, <2>4, <2>5, <2>6, FirstKeeps, NextKeeps, WithinKeeps, BeyondKeeps
<1>2. CASE UNCHANGED vars
  <2>1. TypeOK'
    BY <1>2 DEF IInv, TypeOK, vars
  <2>2. Matches(entry, ring)' /\ Armed(ring)'
    BY <1>2 DEF IInv, Matches, HasSlot, NamesOwner, Used, Armed, vars
  <2> QED BY <2>1, <2>2 DEF IInv
<1>3. ASSUME NEW f \in Flows, Release(f) \/ IdleFlush(f) PROVE IInv'
  BY <1>3, ReleaseKeeps, FlushKeeps
<1> QED BY <1>1, <1>2, <1>3, TimeoutKeeps, TickKeeps, RestartKeeps DEF Next

LEMMA IInvAlways == Spec => []IInv
<1> QED BY IInvInit, IInvStep, PTL DEF Spec

\* The state of the buffer keeps its type: indices of the ring, sequence
\* numbers and the system timer stay within their bounds, for any number of
\* flows, any ring and any window (reorder_ctrl_check, reorder_ctrl_timeout).
THEOREM TypeCorrect == Spec => []TypeOK
<1>1. IInv => TypeOK
  BY DEF IInv
<1> QED BY <1>1, IInvAlways, PTL

\* A flow and the slot of the ring with its timeout name each other, whatever
\* other flows add, forget and let pass in between.
THEOREM TimersAlwaysMatch == Spec => []TimersMatch
<1>1. IInv => TimersMatch
  <2> SUFFICES ASSUME IInv PROVE TimersMatch
    OBVIOUS
  <2>1. DOMAIN ring.slot = Slots
    BY RingType DEF IInv, TypeOK
  <2>2. Matches(entry, ring)
    BY DEF IInv
  <2> QED BY <2>1, <2>2 DEF TimersMatch, Matches, HasSlot, NamesOwner, Used, InRing
<1> QED BY <1>1, IInvAlways, PTL

\* The system timer that all flows share is armed whenever one of them waits,
\* and never for longer than the timeout.
THEOREM SharedTimerAlwaysArmed == Spec => []SharedTimerArmed
<1>1. IInv => SharedTimerArmed
  <2> SUFFICES ASSUME IInv PROVE SharedTimerArmed
    OBVIOUS
  <2>1. DOMAIN ring.slot = Slots /\ ring.sys \in Off .. Timeout
    BY RingType DEF IInv, TypeOK
  <2>2. ring.sys <= Timeout
    BY <2>1, ReorderAssumption DEF Off
  <2> QED BY <2>1, <2>2 DEF SharedTimerArmed, IInv, Armed
<1> QED BY <1>1, IInvAlways, PTL


-----------------------------------------------------------------------------
(* The window in numbers that do not wrap.  b is the number win_start      *)
(* stands for and l that of last_seq, N the newest frame that arrived and  *)
(* A those that arrived within reach of it.                                *)

IsNewest(A, N) ==
  /\ \A m \in A : m <= N
  /\ N \in A \/ (A = {} /\ N = 0)

Numbered(e, b, l, N) ==
  /\ b % SnSpace = e.win_start /\ l % SnSpace = e.last_seq
  /\ b - 1 <= l /\ l <= N
  /\ N + 1 - b <= WinSz \/ N + 1 - b <= Reach

Fits(p, i, b, l, A, N) ==
  /\ p % WinSz = i /\ b <= p /\ p < b + WinSz /\ p <= l
  /\ p \in A \/ N - p > Reach

InWindow(e, b, l, A, N) ==
  \A i \in 0 .. WinSz - 1 : e.packet_q[i] # NoFrame => Fits(e.packet_q[i], i, b, l, A, N)

HoldsNone(e) == \A i \in 0 .. WinSz - 1 : e.packet_q[i] = NoFrame

\* A flow that holds frames waits, and does so with a window.
Window(e, A, N) ==
  IF e.start_rcv
  THEN \E b, l \in Int :
         /\ Numbered(e, b, l, N) /\ InWindow(e, b, l, A, N)
         /\ HoldsNone(e) \/ e.rc_timer_id # 0
  ELSE HoldsNone(e)

\* Frames are near each other in the space of sequence numbers.
Near == 4 * Reach <= SnSpace

LEMMA NearIs ==
  ASSUME Near
  PROVE  /\ Half \in Nat /\ 2 * Half <= SnSpace /\ SnSpace \in Nat \ {0}
         /\ WinSz \in Nat \ {0} /\ Reach \in Nat
         /\ WinSz + Reach <= Half /\ 2 * Reach <= Half /\ 2 <= Half
<1>1. Half \in Nat /\ 2 * Half <= SnSpace /\ SnSpace <= 2 * Half + 1
      /\ WinSz + Reach <= Half
  BY HalfIs
<1>2. SnSpace \in Nat \ {0} /\ WinSz \in Nat \ {0} /\ Reach \in Nat /\ 1 <= Reach
  BY ReorderAssumption
<1> QED BY <1>1, <1>2 DEF Near

LEMMA ModMultiple ==
  ASSUME NEW m \in Nat \ {0}, NEW a \in Int, NEW q \in Int
  PROVE  (a + q * m) % m = a % m
<1>1. PICK p \in Int : a = p * m + (a % m)
  BY DivMod
<1>2. a % m \in 0 .. m - 1
  BY ModIn
<1> DEFINE r == a % m
<1>3. p + q \in Int /\ (p + q) * m = p * m + q * m
  OBVIOUS
<1>4. a + q * m = (p + q) * m + r
  <2> HIDE DEF r
  <2>1. a = p * m + r /\ r \in Int
    BY <1>1, <1>2 DEF r
  <2> QED BY <1>3, <2>1
<1> HIDE DEF r
<1>5. ((p + q) * m + r) % m = r
  BY <1>2, <1>3, ModUnique DEF r
<1> QED BY <1>4, <1>5 DEF r

\* The size of the window divides the number of sequence numbers.
LEMMA SlotNumber ==
  /\ \A x, y \in Int : (x + (y % SnSpace)) % WinSz = (x + y) % WinSz
  /\ \A x, y \in Int : (x - (y % SnSpace)) % WinSz = (x - y) % WinSz
<1>1. SnSpace \in Nat \ {0} /\ WinSz \in Nat \ {0} /\ SnSpace % WinSz = 0
  BY ReorderAssumption
<1>2. PICK c \in Int : SnSpace = c * WinSz
  <2>1. SnSpace \in Int
    BY <1>1
  <2>2. \E c \in Int : SnSpace = c * WinSz + (SnSpace % WinSz)
    BY ONLY <1>1, <2>1, DivMod
  <2>3. PICK c \in Int : SnSpace = c * WinSz + 0
    BY <1>1, <2>2
  <2>4. c * WinSz \in Int
    BY <1>1
  <2> QED BY <2>3, <2>4
<1>3. ASSUME NEW x \in Int, NEW y \in Int
      PROVE  /\ (x + (y % SnSpace)) % WinSz = (x + y) % WinSz
             /\ (x - (y % SnSpace)) % WinSz = (x - y) % WinSz
  <2> DEFINE z == y % SnSpace
  <2>1. PICK q \in Int : y = q * SnSpace + z
    BY <1>1, DivMod
  <2>2. z \in Int
    BY <1>1, ModIn
  <2> HIDE DEF z
  <2>3. q * SnSpace = (q * c) * WinSz /\ q * c \in Int /\ -(q * c) \in Int
    BY <1>1, <1>2
  <2>4. x + y = (x + z) + (q * c) * WinSz
    <3> DEFINE a == (q * c) * WinSz
    <3>1. y = a + z /\ a \in Int
      BY <1>1, <2>1, <2>3
    <3> HIDE DEF a
    <3>2. x + y = (x + z) + a
      BY <2>2, <3>1
    <3> QED BY <3>2 DEF a
  <2>5. x - y = (x - z) + (-(q * c)) * WinSz
    <3> DEFINE a == (q * c) * WinSz
    <3>1. y = a + z /\ a \in Int /\ (-(q * c)) * WinSz = -a
      BY <1>1, <2>1, <2>3
    <3> HIDE DEF a
    <3>2. x - y = (x - z) + (-a)
      BY <2>2, <3>1
    <3> QED BY <3>1, <3>2
  <2> DEFINE d == q * c
             g == x + z
             h == x - z
  <2>8. d \in Int /\ -d \in Int /\ g \in Int /\ h \in Int
    BY <2>2
  <2> HIDE DEF d, g, h
  <2>6. (g + d * WinSz) % WinSz = g % WinSz
    BY <1>1, <2>8, ModMultiple
  <2>7. (h + (-d) * WinSz) % WinSz = h % WinSz
    BY <1>1, <2>8, ModMultiple
  <2> USE DEF d, g, h
  <2> QED BY <2>4, <2>5, <2>6, <2>7 DEF z
<1> QED BY <1>3

LEMMA SnNumber ==
  /\ \A x, y \in Int : SN_DIFF(x % SnSpace, y % SnSpace) = (x - y) % SnSpace
  /\ \A x, y \in Int : ((x % SnSpace) + y) % SnSpace = (x + y) % SnSpace
<1>1. SnSpace \in Nat \ {0}
  BY ReorderAssumption
<1>2. \A x, y \in Int : ((x % SnSpace) + y) % SnSpace = (x + y) % SnSpace
  BY <1>1, ModAdd
<1>3. ASSUME NEW x \in Int, NEW y \in Int
      PROVE  SN_DIFF(x % SnSpace, y % SnSpace) = (x - y) % SnSpace
  <2> DEFINE u == x % SnSpace
             z == y % SnSpace
  <2>1. PICK q \in Int : y = q * SnSpace + z
    BY <1>1, DivMod
  <2>2. z \in Int /\ u \in Int
    BY <1>1, ModIn
  <2>3. (u + (-z)) % SnSpace = (x + (-z)) % SnSpace
    <3>1. -z \in Int
      BY <2>2
    <3> HIDE DEF z
    <3> QED BY <1>2, <3>1
  <2> HIDE DEF u, z
  <2>4. x + (-z) = (x - y) + q * SnSpace
    <3> DEFINE a == q * SnSpace
    <3>1. y = a + z /\ a \in Int
      BY <1>1, <2>1
    <3> HIDE DEF a
    <3>2. x + (-z) = (x - y) + a
      BY <2>2, <3>1
    <3> QED BY <3>2 DEF a
  <2>5. x - y \in Int
    OBVIOUS
  <2>6. ((x - y) + q * SnSpace) % SnSpace = (x - y) % SnSpace
    BY <1>1, <2>5, ModMultiple
  <2>7. u - z = u + (-z)
    BY <2>2
  <2> QED BY <2>3, <2>4, <2>6, <2>7 DEF SN_DIFF, u, z
<1> QED BY <1>2, <1>3

\* Numbers that are near compare as their sequence numbers do.
LEMMA LessIs ==
  \A x, y \in Int : x - y \in -Half .. Half - 1 =>
    /\ SN_LESS(x % SnSpace, y % SnSpace) <=> x < y
    /\ SN_DIFF(x % SnSpace, y % SnSpace) = IF x >= y THEN x - y ELSE x - y + SnSpace
<1> SUFFICES ASSUME NEW x \in Int, NEW y \in Int, x - y \in -Half .. Half - 1
             PROVE  /\ SN_LESS(x % SnSpace, y % SnSpace) <=> x < y
                    /\ SN_DIFF(x % SnSpace, y % SnSpace)
                         = IF x >= y THEN x - y ELSE x - y + SnSpace
  OBVIOUS
<1>1. SnSpace \in Nat \ {0} /\ Half \in Nat /\ 2 * Half <= SnSpace
  BY ReorderAssumption, HalfIs
<1>2. SN_DIFF(x % SnSpace, y % SnSpace) = (x - y) % SnSpace
  BY SnNumber
<1>3. x - y \in -SnSpace .. 2 * SnSpace - 1
  BY <1>1
<1>4. (x - y) % SnSpace = IF x - y < 0 THEN (x - y) + SnSpace
                          ELSE IF x - y < SnSpace THEN x - y ELSE (x - y) - SnSpace
  BY <1>3, SnMod
<1>5. SN_DIFF(x % SnSpace, y % SnSpace) = IF x >= y THEN x - y ELSE x - y + SnSpace
  BY <1>1, <1>2, <1>4
<1>6. SN_LESS(x % SnSpace, y % SnSpace) <=> SN_DIFF(x % SnSpace, y % SnSpace) >= Half
  BY DEF SN_LESS, Half
<1> QED BY <1>1, <1>5, <1>6


LEMMA HeldInt ==
  ASSUME NEW e \in Entries, NEW i \in 0 .. WinSz - 1
  PROVE  e.packet_q[i] \in Int
<1>1. e.packet_q[i] \in Frames \cup {NoFrame}
  BY DEF Entries
<1>2. Frames \subseteq Int
  BY ReorderAssumption
<1>3. NoFrame \in Int
  BY DEF NoFrame
<1> QED BY <1>1, <1>2, <1>3

\* In a window, the frame in the slot of x is x itself.
LEMMA SlotIs ==
  ASSUME NEW e \in Entries, NEW b \in Int, NEW l, NEW A, NEW N, InWindow(e, b, l, A, N),
         NEW x \in b .. b + WinSz - 1, At(e, x) # NoFrame
  PROVE  At(e, x) = x /\ x <= l /\ (x \in A \/ N - x > Reach)
<1> DEFINE i == x % WinSz
           p == e.packet_q[i]
<1>1. WinSz \in Nat \ {0} /\ x \in Int
  BY ReorderAssumption
<1>2. i \in 0 .. WinSz - 1
  BY <1>1, ModIn
<1>3. p # NoFrame /\ At(e, x) = p
  BY DEF At
<1>4. Fits(p, i, b, l, A, N)
  <2> HIDE DEF i
  <2> QED BY <1>2, <1>3 DEF InWindow
<1>5. p \in Int
  <2> HIDE DEF i
  <2> QED BY <1>2, HeldInt
<1> HIDE DEF p
<1>6. p % WinSz = x % WinSz /\ b <= p /\ p < b + WinSz
  BY <1>4 DEF Fits
<1>7. p - x < WinSz /\ x - p < WinSz
  BY <1>1, <1>5, <1>6
<1>8. p = x
  BY <1>1, <1>5, <1>6, <1>7, ModCong
<1> QED BY <1>3, <1>4, <1>8 DEF Fits

\* The code finds the slot of a number by win_start.
LEMMA AtNumber ==
  \A e, b : b \in Int => \A j \in Int : At(e, (b % SnSpace) + j) = At(e, b + j)
<1> SUFFICES ASSUME NEW e, NEW b \in Int, NEW j \in Int
             PROVE  At(e, (b % SnSpace) + j) = At(e, b + j)
  OBVIOUS
<1>1. b % SnSpace \in Int
  BY ModIn, ReorderAssumption
<1>2. (j + (b % SnSpace)) % WinSz = (j + b) % WinSz
  BY SlotNumber
<1>3. (b % SnSpace) + j = j + (b % SnSpace) /\ b + j = j + b
  BY <1>1
<1> QED BY <1>2, <1>3 DEF At

\* The run of frames that goes up ends within the window, at last_seq at most.
LEMMA RunFits ==
  ASSUME NEW e \in Entries, NEW b \in Int, NEW l \in Int, NEW A, NEW N,
         InWindow(e, b, l, A, N), e.win_start = b % SnSpace, NEW c \in {0, 1},
         c = 1 => At(e, b) = NoFrame
  PROVE  LET k == RunLength(e, e.win_start + c)
         IN  k \in Nat /\ c + k <= WinSz /\ (k = 0 \/ b + c + k - 1 <= l)
<1> DEFINE w == e.win_start
           k == RunLength(e, w + c)
<1>1. WinSz \in Nat \ {0} /\ w \in Int /\ c \in Int
  BY ReorderAssumption DEF Entries
<1>2. k \in 0 .. WinSz /\ \A i \in 0 .. k - 1 : At(e, (w + c) + i) # NoFrame
  <2>1. w + c \in Int
    BY <1>1
  <2> QED BY <2>1, RunLengthIs
<1> HIDE DEF k
<1>3. \A j \in Int : At(e, w + j) = At(e, b + j)
  BY AtNumber
<1> HIDE DEF w
<1>4. \A i \in 0 .. k - 1 : At(e, b + (c + i)) # NoFrame
  <2> SUFFICES ASSUME NEW i \in 0 .. k - 1 PROVE At(e, b + (c + i)) # NoFrame
    OBVIOUS
  <2>1. (w + c) + i = w + (c + i) /\ c + i \in Int
    BY <1>1, <1>2
  <2> QED BY <1>2, <1>3, <2>1
<1>5. c + k <= WinSz
  <2>1. SUFFICES ASSUME c = 1, k = WinSz PROVE FALSE
    BY <1>1, <1>2
  <2>2. At(e, b + (1 + (WinSz - 1))) # NoFrame
    <3>1. WinSz - 1 \in 0 .. k - 1
      BY <1>1, <2>1
    <3> QED BY <1>4, <2>1, <3>1
  <2>3. b + (1 + (WinSz - 1)) = b + 1 * WinSz
    BY <1>1
  <2>4. (b + 1 * WinSz) % WinSz = b % WinSz
    <3>1. 1 \in Int
      OBVIOUS
    <3> DEFINE q == 1
    <3> HIDE DEF q
    <3>2. (b + q * WinSz) % WinSz = b % WinSz
      BY ONLY <1>1, <3>1, b \in Int, ModMultiple DEF q
    <3> QED BY <3>2 DEF q
  <2> QED BY <2>1, <2>2, <2>3, <2>4 DEF At
<1>6. k = 0 \/ b + c + k - 1 <= l
  <2>1. SUFFICES ASSUME k # 0 PROVE b + c + k - 1 <= l
    OBVIOUS
  <2> DEFINE x == b + (c + (k - 1))
  <2>2. k - 1 \in 0 .. k - 1
    BY <1>1, <1>2, <2>1
  <2>3. At(e, x) # NoFrame
    BY <1>4, <2>2
  <2>4. x \in b .. b + WinSz - 1 /\ x = b + c + k - 1
    BY <1>1, <1>2, <1>5, <2>2
  <2> HIDE DEF x
  <2>5. x <= l
    BY <2>3, <2>4, SlotIs
  <2> QED BY <2>4, <2>5
<1>7. k \in Nat
  BY <1>1, <1>2
<1> QED BY <1>5, <1>6, <1>7 DEF k, w

\* Slots from win_start + c are emptied, those before it hold nothing.
LEMMA EmptiedWindow ==
  ASSUME NEW e \in Entries, NEW b \in Int, NEW l \in Int, NEW A, NEW N,
         InWindow(e, b, l, A, N), e.win_start = b % SnSpace, NEW c \in {0, 1},
         c = 1 => At(e, b) = NoFrame, NEW k \in Nat
  PROVE  InWindow(Emptied(e, e.win_start + c, k), b + c + k, l, A, N)
<1> DEFINE w == e.win_start
           m == Emptied(e, w + c, k)
<1>1. WinSz \in Nat \ {0} /\ w \in Int /\ c \in Int
  BY ReorderAssumption DEF Entries
<1>2. \A i \in 0 .. WinSz - 1 :
        m.packet_q[i] = IF (i - (w + c)) % WinSz < k THEN NoFrame ELSE e.packet_q[i]
  BY DEF Emptied, Entries
<1> HIDE DEF m
<1> SUFFICES ASSUME NEW i \in 0 .. WinSz - 1, m.packet_q[i] # NoFrame
             PROVE  Fits(m.packet_q[i], i, b + c + k, l, A, N)
  BY DEF InWindow, m
<1> DEFINE p == e.packet_q[i]
<1>3. m.packet_q[i] = p /\ p # NoFrame /\ ~((i - (w + c)) % WinSz < k)
  BY <1>2
<1>4. Fits(p, i, b, l, A, N)
  BY <1>3 DEF InWindow
<1>5. p \in Int
  BY HeldInt
<1> HIDE DEF p
<1>6. p % WinSz = i /\ b <= p /\ p < b + WinSz
  BY <1>4 DEF Fits
<1>7. p >= b + c
  <2>1. SUFFICES ASSUME c = 1, p = b PROVE FALSE
    BY <1>1, <1>5, <1>6
  <2> QED BY <1>3, <1>6, <2>1 DEF At, p
<1>8. (i - (w + c)) % WinSz = p - (b + c)
  <2> DEFINE j == i - c
  <2>1. i \in Int /\ j \in Int /\ i - (w + c) = j - w
    BY <1>1
  <2> HIDE DEF j
  <2>2. (j - w) % WinSz = (j - b) % WinSz
    BY <2>1, SlotNumber DEF w
  <2>3. ((p % WinSz) + (-(b + c))) % WinSz = (p + (-(b + c))) % WinSz
    <3> DEFINE d == -(b + c)
    <3>1. d \in Int
      BY <1>1
    <3> HIDE DEF d
    <3>2. ((p % WinSz) + d) % WinSz = (p + d) % WinSz
      BY <1>1, <1>5, <3>1, ModAdd
    <3> QED BY <3>2 DEF d
  <2>4. j - b = (p % WinSz) + (-(b + c)) /\ p + (-(b + c)) = p - (b + c)
    <3> DEFINE d == p % WinSz
    <3>1. d = i
      BY <1>6
    <3> HIDE DEF d
    <3>2. j - b = d + (-(b + c)) /\ p + (-(b + c)) = p - (b + c)
      BY <1>1, <1>5, <2>1, <3>1 DEF j
    <3> QED BY <3>2 DEF d
  <2>5. p - (b + c) \in 0 .. WinSz - 1
    BY <1>1, <1>5, <1>6, <1>7
  <2>6. (p - (b + c)) % WinSz = p - (b + c)
    <3> DEFINE d == p - (b + c)
    <3> HIDE DEF d
    <3>1. \A z \in 0 .. WinSz - 1 : z % WinSz = z
      BY <1>1
    <3>2. d % WinSz = d
      BY <2>5, <3>1 DEF d
    <3> QED BY <3>2 DEF d
  <2> QED BY <2>1, <2>2, <2>3, <2>4, <2>6
<1>9. b + c + k <= p /\ p < b + c + k + WinSz
  BY <1>1, <1>3, <1>5, <1>6, <1>7, <1>8
<1>10. Fits(p, i, b + c + k, l, A, N)
  BY <1>4, <1>9 DEF Fits
<1> QED BY <1>3, <1>10

\* An interval without numbers has no room for a frame.
LEMMA NothingLeft ==
  ASSUME NEW e \in Entries, NEW b \in Int, NEW l \in Int, NEW A, NEW N,
         InWindow(e, b, l, A, N), l < b
  PROVE  HoldsNone(e)
<1> SUFFICES ASSUME NEW i \in 0 .. WinSz - 1, e.packet_q[i] # NoFrame PROVE FALSE
  BY DEF HoldsNone
<1>1. b <= e.packet_q[i] /\ e.packet_q[i] <= l
  BY DEF InWindow, Fits
<1>2. e.packet_q[i] \in Int
  BY HeldInt
<1> QED BY <1>1, <1>2

\* An open window as a whole.
Spans(e, b, l, A, N) == e.start_rcv /\ Numbered(e, b, l, N) /\ InWindow(e, b, l, A, N)

LEMMA SpanIs ==
  ASSUME Near, NEW e, NEW b \in Int, NEW l \in Int, NEW N \in Nat, Numbered(e, b, l, N)
  PROVE  /\ l - b \in -Half .. Half - 1
         /\ b - 1 <= l /\ l <= N
         /\ e.win_start = b % SnSpace /\ e.last_seq = l % SnSpace
<1>1. l - b \in -Half .. Half - 1
  BY NearIs DEF Numbered
<1> QED BY <1>1 DEF Numbered

LEMMA CompleteIs ==
  ASSUME Near, NEW e, NEW b \in Int, NEW l \in Int, NEW N \in Nat, Numbered(e, b, l, N)
  PROVE  Complete(e) <=> l < b
<1>1. l - b \in -Half .. Half - 1 /\ e.win_start = b % SnSpace /\ e.last_seq = l % SnSpace
  BY SpanIs
<1>2. SN_LESS(l % SnSpace, b % SnSpace) <=> l < b
  BY <1>1, LessIs
<1> QED BY <1>1, <1>2 DEF Complete

LEMMA ConsumedFields ==
  ASSUME NEW e \in Entries
  PROVE  /\ Consumed(e).start_rcv = FALSE /\ Consumed(e).rc_timer_id = 0
         /\ Consumed(e).packet_q
              = Emptied(e, e.win_start, SN_DIFF(e.last_seq, e.win_start) + 1).packet_q
<1> DEFINE m == Emptied(e, e.win_start, SN_DIFF(e.last_seq, e.win_start) + 1)
<1>1. m \in Entries
  BY EmptiedType
<1>2. Consumed(e) = [m EXCEPT !.start_rcv = FALSE, !.rc_timer_id = 0]
  BY DEF Consumed
<1> HIDE DEF m
<1>3. Consumed(e) = [packet_q |-> m.packet_q, start_rcv |-> FALSE, rc_timer_id |-> 0,
                     win_start |-> m.win_start, last_seq |-> m.last_seq]
  BY <1>1, <1>2 DEF Entries
<1>4. Consumed(e).start_rcv = FALSE /\ Consumed(e).rc_timer_id = 0
      /\ Consumed(e).packet_q = m.packet_q
  BY <1>3
<1> QED BY <1>4 DEF m

\* reorder_ctrl_consumeQ leaves nothing behind.
LEMMA ConsumedWindow ==
  ASSUME Near, NEW e \in Entries, NEW b \in Int, NEW l \in Int, NEW A, NEW N \in Nat,
         Spans(e, b, l, A, N), b <= l
  PROVE  \A B, M : Window(Consumed(e), B, M)
<1> DEFINE k == SN_DIFF(e.last_seq, e.win_start) + 1
           m == Emptied(e, e.win_start, k)
<1>1. l - b \in -Half .. Half - 1 /\ e.win_start = b % SnSpace /\ e.last_seq = l % SnSpace
  BY SpanIs DEF Spans
<1>2. SN_DIFF(l % SnSpace, b % SnSpace) = l - b
  BY <1>1, LessIs
<1>3. k = l - b + 1 /\ k \in Nat
  BY <1>1, <1>2
<1>4. m \in Entries
  BY EmptiedType
<1>5. InWindow(m, l + 1, l, A, N)
  <2> HIDE DEF m, k
  <2> DEFINE c == 0
  <2>1. c \in {0, 1} /\ c # 1
    OBVIOUS
  <2>2. e.win_start \in Int
    BY ReorderAssumption DEF Entries
  <2>3. e.win_start + c = e.win_start /\ b + c + k = l + 1
    BY <1>3, <2>2
  <2> HIDE DEF c
  <2>4. InWindow(Emptied(e, e.win_start + c, k), b + c + k, l, A, N)
    BY <1>1, <1>3, <2>1, EmptiedWindow DEF Spans
  <2> QED BY <2>3, <2>4 DEF m
<1>6. Consumed(e).start_rcv = FALSE /\ Consumed(e).rc_timer_id = 0
      /\ Consumed(e).packet_q = m.packet_q
  BY ConsumedFields
<1> HIDE DEF m
<1>7. HoldsNone(m)
  <2>1. l + 1 \in Int /\ l < l + 1
    OBVIOUS
  <2> DEFINE d == l + 1
  <2>2. InWindow(m, d, l, A, N) /\ d \in Int /\ l < d
    BY <1>5, <2>1
  <2> HIDE DEF d
  <2> QED BY <1>4, <2>2, NothingLeft
<1>8. HoldsNone(Consumed(e))
  BY <1>6, <1>7 DEF HoldsNone
<1> QED BY <1>6, <1>8 DEF Window

LEMMA NamedFields ==
  ASSUME NEW e \in Entries, NEW id
  PROVE  LET y == [e EXCEPT !.rc_timer_id = id]
         IN  /\ y.start_rcv = e.start_rcv /\ y.packet_q = e.packet_q /\ y.rc_timer_id = id
             /\ y.win_start = e.win_start /\ y.last_seq = e.last_seq
BY DEF Entries

\* What Await makes of an entry.
Awaited(e, y) ==
  \/ y = Consumed(e)
  \/ \E id \in 1 .. RingSize : y = [e EXCEPT !.rc_timer_id = id]

LEMMA AwaitEntry ==
  ASSUME NEW s, NEW f \in Flows, NEW e \in Entries, NEW r \in Rings, NEW out, NEW from
  PROVE  \E y : Awaited(e, y) /\ Await(s, f, e, r, out, from).entry = [s.entry EXCEPT ![f] = y]
<1>1. CASE Full(r)
  <2>1. Await(s, f, e, r, out, from).entry = [s.entry EXCEPT ![f] = Consumed(e)]
    BY <1>1 DEF Await, reorder_ctrl_consumeQ, Consumed, Put
  <2> QED BY <2>1 DEF Awaited
<1>2. CASE ~Full(r)
  <2>1. Await(s, f, e, r, out, from).entry
          = [s.entry EXCEPT ![f] = [e EXCEPT !.rc_timer_id = r.head + 1]]
    BY <1>2 DEF Await, Put
  <2>2. r.head + 1 \in 1 .. RingSize
    BY RingType, ReorderAssumption DEF Slots
  <2> QED BY <2>1, <2>2 DEF Awaited
<1> QED BY <1>1, <1>2

\* en with e for the flow f
Puts(g, en, f, e) == g = [en EXCEPT ![f] = e]

LEMMA AwaitReceived ==
  ASSUME NEW s, NEW f \in Flows, NEW e \in Entries, NEW r \in Rings, NEW out, NEW t,
         t = Await(s, f, e, r, out, FALSE)
  PROVE  \E y : Awaited(e, y) /\ Puts(t.entry, s.entry, f, y)
<1> DEFINE from == FALSE
<1>1. t = Await(s, f, e, r, out, from)
  OBVIOUS
<1> HIDE DEF from
<1>2. \E y : Awaited(e, y) /\ Await(s, f, e, r, out, from).entry = [s.entry EXCEPT ![f] = y]
  BY AwaitEntry
<1> QED BY <1>1, <1>2 DEF Puts

LEMMA AwaitExpired ==
  ASSUME NEW s, NEW f \in Flows, NEW e \in Entries, NEW r \in Rings, NEW out, NEW t,
         t = Await(s, f, e, r, out, TRUE)
  PROVE  \E y : Awaited(e, y) /\ Puts(t.entry, s.entry, f, y)
<1> DEFINE from == TRUE
<1>1. t = Await(s, f, e, r, out, from)
  OBVIOUS
<1> HIDE DEF from
<1>2. \E y : Awaited(e, y) /\ Await(s, f, e, r, out, from).entry = [s.entry EXCEPT ![f] = y]
  BY AwaitEntry
<1> QED BY <1>1, <1>2 DEF Puts

LEMMA AwaitWindow ==
  ASSUME Near, NEW e \in Entries, NEW b \in Int, NEW l \in Int, NEW A, NEW N \in Nat,
         Spans(e, b, l, A, N), b <= l, NEW y, Awaited(e, y)
  PROVE  Window(y, A, N)
<1>1. CASE y = Consumed(e)
  BY <1>1, ConsumedWindow
<1>2. ASSUME NEW id \in 1 .. RingSize, y = [e EXCEPT !.rc_timer_id = id]
      PROVE  Window(y, A, N)
  <2>1. /\ y.start_rcv = e.start_rcv /\ y.packet_q = e.packet_q /\ y.rc_timer_id = id
        /\ y.win_start = e.win_start /\ y.last_seq = e.last_seq
    BY <1>2, NamedFields
  <2>2. id # 0
    BY ReorderAssumption
  <2>3. Numbered(y, b, l, N) /\ InWindow(y, b, l, A, N) /\ y.start_rcv
    BY <2>1 DEF Spans, Numbered, InWindow
  <2> QED BY <2>1, <2>2, <2>3 DEF Window
<1> QED BY <1>1, <1>2 DEF Awaited

\* The three ways on from an open window.
LEMMA WindowFollows ==
  ASSUME Near, NEW e \in Entries, NEW b \in Int, NEW l \in Int, NEW A, NEW N \in Nat,
         Spans(e, b, l, A, N)
  PROVE  /\ Complete(e) => Window([e EXCEPT !.rc_timer_id = 0], A, N) /\ Window(Ended(e), A, N)
         /\ ~Complete(e) => \A y : Awaited(e, y) => Window(y, A, N)
<1>1. Complete(e) <=> l < b
  BY CompleteIs DEF Spans
<1>2. ASSUME Complete(e) PROVE Window([e EXCEPT !.rc_timer_id = 0], A, N) /\ Window(Ended(e), A, N)
  <2> DEFINE y == [e EXCEPT !.rc_timer_id = 0]
             z == Ended(e)
  <2>1. HoldsNone(e)
    BY <1>1, <1>2, NothingLeft DEF Spans
  <2>2. /\ y.start_rcv = e.start_rcv /\ y.packet_q = e.packet_q /\ y.rc_timer_id = 0
        /\ y.win_start = e.win_start /\ y.last_seq = e.last_seq
    BY NamedFields
  <2>3. z.start_rcv = FALSE /\ z.rc_timer_id = 0 /\ z.packet_q = e.packet_q
    BY DEF Ended, Closed, Entries
  <2> HIDE DEF y, z
  <2>4. HoldsNone(y) /\ HoldsNone(z)
    BY <2>1, <2>2, <2>3 DEF HoldsNone
  <2>5. Numbered(y, b, l, N) /\ InWindow(y, b, l, A, N) /\ y.start_rcv
    BY <2>2 DEF Spans, Numbered, InWindow
  <2>6. Window(y, A, N)
    BY <2>2, <2>4, <2>5 DEF Window
  <2>7. Window(z, A, N)
    BY <2>3, <2>4 DEF Window
  <2> QED BY <2>6, <2>7 DEF y, z
<1>3. ASSUME ~Complete(e), NEW y, Awaited(e, y) PROVE Window(y, A, N)
  <2>1. b <= l
    BY <1>1, <1>3
  <2> QED BY <1>3, <2>1, AwaitWindow
<1> QED BY <1>2, <1>3

\* n arrives, a frame that is not a copy; B and M are then what A and N were.
Came(A, N, n, B, M) ==
  /\ n \notin A /\ N - n <= Reach /\ n - N <= Reach
  /\ N <= M /\ n <= M /\ (M = N \/ M = n)
  /\ IsNewest(B, M) /\ n \in B
  /\ \A p \in A : p \in B \/ M - p > Reach

LEMMA WindowAges ==
  ASSUME NEW e \in Entries, NEW b \in Int, NEW l \in Int, NEW A, NEW N \in Nat,
         InWindow(e, b, l, A, N), NEW n \in Nat, NEW B, NEW M \in Nat, Came(A, N, n, B, M),
         NEW x, x.packet_q = e.packet_q, NEW j \in Int, l <= j \/ b + WinSz - 1 <= j
  PROVE  InWindow(x, b, j, B, M)
<1> SUFFICES ASSUME NEW i \in 0 .. WinSz - 1, x.packet_q[i] # NoFrame
             PROVE  Fits(x.packet_q[i], i, b, j, B, M)
  BY DEF InWindow
<1> DEFINE p == e.packet_q[i]
<1>1. x.packet_q[i] = p /\ Fits(p, i, b, l, A, N)
  BY DEF InWindow
<1>2. p \in Int
  BY HeldInt
<1>3. WinSz \in Nat /\ Reach \in Nat
  BY ReorderAssumption
<1> HIDE DEF p
<1>4. p <= j
  BY <1>1, <1>2, <1>3 DEF Fits
<1>5. p \in B \/ M - p > Reach
  BY <1>1, <1>2, <1>3 DEF Fits, Came
<1> QED BY <1>1, <1>4, <1>5 DEF Fits

\* A frame that arrives is not held already.
LEMMA NotHeld ==
  ASSUME NEW e \in Entries, NEW b \in Int, NEW l \in Int, NEW A, NEW N \in Nat,
         InWindow(e, b, l, A, N), NEW n \in b .. b + WinSz - 1, NEW B, NEW M,
         Came(A, N, n, B, M)
  PROVE  At(e, n) = NoFrame
<1> SUFFICES ASSUME At(e, n) # NoFrame PROVE FALSE
  OBVIOUS
<1>1. n \in A \/ N - n > Reach
  BY SlotIs
<1>2. N - n \in Int /\ Reach \in Int
  BY ReorderAssumption
<1> QED BY <1>1, <1>2 DEF Came

\* What the code tells of a frame from its sequence number.
LEMMA FrameNumber ==
  ASSUME Near, NEW e \in Entries, NEW b \in Int, NEW l \in Int, NEW N \in Nat,
         Numbered(e, b, l, N), NEW n \in Nat, N - n <= Reach, n - N <= Reach
  PROVE  /\ check_win_seqment(e, n % SnSpace) = 1 <=> n < b
         /\ check_win_seqment(e, n % SnSpace) = 2 <=> n = b
         /\ check_win_seqment(e, n % SnSpace) = 3 <=> (b < n /\ n < b + WinSz)
         /\ check_win_seqment(e, n % SnSpace) = 4 <=> b + WinSz <= n
         /\ n >= b => SN_DIFF(n % SnSpace, e.win_start) = n - b
         /\ n - b \in -Half .. Half - 1
         /\ Later(e.last_seq, n % SnSpace) = (IF l < n THEN n ELSE l) % SnSpace
<1> DEFINE d == SN_DIFF(n % SnSpace, e.win_start)
           c == check_win_seqment(e, n % SnSpace)
<1>1. e.win_start = b % SnSpace /\ e.last_seq = l % SnSpace
  BY SpanIs
<1>2. n - b \in -Half .. Half - 1 /\ l - n \in -Half .. Half - 1
  BY NearIs DEF Numbered
<1>3. d = IF n >= b THEN n - b ELSE n - b + SnSpace
  BY <1>1, <1>2, LessIs
<1>4. SN_LESS(l % SnSpace, n % SnSpace) <=> l < n
  BY <1>2, LessIs
<1>5. e.win_start \in Numbers /\ n % SnSpace \in Numbers
  <2>1. SnSpace \in Nat \ {0} /\ n \in Int
    BY NearIs
  <2>2. n % SnSpace \in 0 .. SnSpace - 1
    BY <2>1, ModIn
  <2>3. e.win_start \in 0 .. SnSpace - 1
    BY DEF Entries
  <2> QED BY <2>2, <2>3 DEF Numbers
<1>6. /\ c = 1 <=> d >= Half
      /\ c = 2 <=> d = 0
      /\ c = 3 <=> d \in 1 .. WinSz - 1
      /\ c = 4 <=> d \in WinSz .. Half - 1
  <2> HIDE DEF d, c
  <2> DEFINE seq == n % SnSpace
  <2>1. seq \in Numbers
    BY <1>5
  <2> HIDE DEF seq
  <2>2. LET g == SN_DIFF(seq, e.win_start)
            h == check_win_seqment(e, seq)
        IN  /\ h = 1 <=> g >= Half
            /\ h = 2 <=> g = 0
            /\ h = 3 <=> g \in 1 .. WinSz - 1
            /\ h = 4 <=> g \in WinSz .. Half - 1
    BY <1>5, <2>1, Segments
  <2> QED BY <2>2 DEF d, c, seq
<1> HIDE DEF d, c
<1>7. /\ c = 1 <=> n < b
      /\ c = 2 <=> n = b
      /\ c = 3 <=> (b < n /\ n < b + WinSz)
      /\ c = 4 <=> b + WinSz <= n
      /\ n >= b => d = n - b
  BY <1>2, <1>3, <1>6, NearIs
<1>8. Later(e.last_seq, n % SnSpace) = (IF l < n THEN n ELSE l) % SnSpace
  BY <1>1, <1>4 DEF Later
<1> QED BY <1>2, <1>7, <1>8 DEF c, d

LEMMA AdvancedFields ==
  ASSUME NEW e \in Entries, NEW n, NEW k
  PROVE  LET a == Advanced(e, n, k)
         IN  /\ a.packet_q = Emptied(e, n, k).packet_q /\ a.start_rcv = e.start_rcv
             /\ a.rc_timer_id = e.rc_timer_id /\ a.last_seq = e.last_seq
             /\ a.win_start = (n + k) % SnSpace
<1> DEFINE m == Emptied(e, n, k)
           a == Advanced(e, n, k)
<1>1. m \in Entries /\ m.start_rcv = e.start_rcv /\ m.rc_timer_id = e.rc_timer_id
      /\ m.last_seq = e.last_seq
  BY EmptiedType DEF Emptied, Entries
<1>2. a = [m EXCEPT !.win_start = (n + k) % SnSpace]
  BY DEF Advanced
<1> HIDE DEF m
<1>3. /\ a.packet_q = m.packet_q /\ a.start_rcv = m.start_rcv
      /\ a.rc_timer_id = m.rc_timer_id /\ a.last_seq = m.last_seq
      /\ a.win_start = (n + k) % SnSpace
  <2> HIDE DEF a
  <2> QED BY <1>1, <1>2 DEF Entries
<1> HIDE DEF a
<1> QED BY <1>1, <1>3 DEF m, a

LEMMA SeqFields ==
  ASSUME NEW e \in Entries, NEW v
  PROVE  LET y == [e EXCEPT !.last_seq = v]
         IN  /\ y.start_rcv = e.start_rcv /\ y.packet_q = e.packet_q
             /\ y.rc_timer_id = e.rc_timer_id /\ y.win_start = e.win_start /\ y.last_seq = v
BY DEF Entries

\* e moved to k is a.
Moved(e, b, l, A, N, c, k, a) ==
  /\ k \in Nat /\ (k = 0 \/ b + c + k - 1 <= l)
  /\ a \in Entries /\ a.start_rcv = e.start_rcv /\ a.last_seq = e.last_seq
  /\ a.win_start = (b + c + k) % SnSpace
  /\ InWindow(a, b + c + k, l, A, N)

\* The window moves over c slots and the run behind them.
LEMMA AdvancedSpan ==
  ASSUME Near, NEW e \in Entries, NEW b \in Int, NEW l \in Int, NEW A, NEW N \in Nat,
         InWindow(e, b, l, A, N), e.win_start = b % SnSpace, NEW c \in {0, 1},
         c = 1 => At(e, b) = NoFrame
  PROVE  Moved(e, b, l, A, N, c, RunLength(e, e.win_start + c),
               Advanced(e, e.win_start + c, RunLength(e, e.win_start + c)))
<1> DEFINE w == e.win_start
           k == RunLength(e, w + c)
           a == Advanced(e, w + c, k)
<1>1. k \in Nat /\ (k = 0 \/ b + c + k - 1 <= l)
  BY RunFits
<1> HIDE DEF k
<1>2. InWindow(Emptied(e, w + c, k), b + c + k, l, A, N)
  BY <1>1, EmptiedWindow
<1>3. w \in Int /\ w + c \in Int /\ c \in Int
  BY ReorderAssumption DEF Entries
<1>4. a \in Entries
  BY <1>1, <1>3, AdvancedType
<1>5. /\ a.packet_q = Emptied(e, w + c, k).packet_q /\ a.start_rcv = e.start_rcv
      /\ a.last_seq = e.last_seq /\ a.win_start = ((w + c) + k) % SnSpace
  BY AdvancedFields
<1>6. ((w + c) + k) % SnSpace = (b + c + k) % SnSpace
  <2> DEFINE j == c + k
  <2>1. j \in Int /\ (w + c) + k = w + j /\ b + c + k = b + j
    BY <1>1, <1>3
  <2> HIDE DEF j
  <2>2. ((b % SnSpace) + j) % SnSpace = (b + j) % SnSpace
    BY <2>1, SnNumber
  <2> QED BY <2>1, <2>2
<1> HIDE DEF a
<1>7. InWindow(a, b + c + k, l, A, N)
  BY <1>2, <1>5 DEF InWindow
<1>8. Moved(e, b, l, A, N, c, k, a)
  BY <1>1, <1>4, <1>5, <1>6, <1>7 DEF Moved
<1> QED BY <1>8 DEF w, k, a

\* Reception, one lemma for each segment.

LEMMA FirstWindow ==
  ASSUME Near, NEW e \in Entries, NEW A, NEW N \in Nat, Window(e, A, N), ~e.start_rcv,
         NEW n \in Nat, NEW B, NEW M \in Nat, Came(A, N, n, B, M),
         NEW x, x.start_rcv, x.packet_q = e.packet_q, x.rc_timer_id = e.rc_timer_id,
         x.win_start = SN_NEXT(n % SnSpace), x.last_seq = n % SnSpace
  PROVE  Window(x, B, M)
<1>1. HoldsNone(e)
  BY DEF Window
<1>2. HoldsNone(x)
  BY <1>1 DEF HoldsNone
<1> DEFINE b == n + 1
<1>3. b \in Int /\ n \in Int
  OBVIOUS
<1>4. b % SnSpace = x.win_start
  <2>1. 1 \in Int
    OBVIOUS
  <2>2. ((n % SnSpace) + 1) % SnSpace = (n + 1) % SnSpace
    BY <1>3, <2>1, SnNumber
  <2> QED BY <2>2 DEF SN_NEXT
<1>5. b - 1 <= n /\ n <= M /\ M + 1 - b <= Reach
  BY NearIs DEF Came
<1> HIDE DEF b
<1>6. Numbered(x, b, n, M)
  BY <1>4, <1>5 DEF Numbered
<1>7. InWindow(x, b, n, B, M)
  BY <1>2 DEF InWindow, HoldsNone
<1> QED BY <1>2, <1>3, <1>6, <1>7 DEF Window

\* A frame that is no news leaves a window as it is.
LEMMA SameWindow ==
  ASSUME Near, NEW e \in Entries, NEW A, NEW N \in Nat, Window(e, A, N),
         NEW n \in Frames, NEW B, NEW M \in Nat, Came(A, N, n, B, M),
         \/ ~e.start_rcv
         \/ check_win_seqment(e, n % SnSpace) = 1
         \/ check_win_seqment(e, n % SnSpace) = 3 /\ At(e, n) # NoFrame
  PROVE  Window(e, B, M)
<1>1. CASE ~e.start_rcv
  BY <1>1 DEF Window
<1>2. CASE e.start_rcv
  <2>1. n \in Nat
    BY FrameFacts
  <2>2. PICK b \in Int, l \in Int :
          /\ Numbered(e, b, l, N) /\ InWindow(e, b, l, A, N)
          /\ HoldsNone(e) \/ e.rc_timer_id # 0
    BY <1>2 DEF Window
  <2>3. N - n <= Reach /\ n - N <= Reach
    BY DEF Came
  <2>4. /\ check_win_seqment(e, n % SnSpace) = 1 <=> n < b
        /\ check_win_seqment(e, n % SnSpace) = 3 <=> (b < n /\ n < b + WinSz)
    BY <2>1, <2>2, <2>3, FrameNumber
  <2>5. ~(check_win_seqment(e, n % SnSpace) = 3 /\ At(e, n) # NoFrame)
    <3> SUFFICES ASSUME check_win_seqment(e, n % SnSpace) = 3, At(e, n) # NoFrame PROVE FALSE
      OBVIOUS
    <3>1. n \in b .. b + WinSz - 1
      BY <2>1, <2>4, NearIs
    <3> QED BY <2>2, <3>1, NotHeld
  <2>6. n < b
    BY <1>2, <2>4, <2>5
  <2>7. M = N
    BY <2>1, <2>2, <2>6 DEF Came, Numbered
  <2>8. InWindow(e, b, l, B, M)
    <3>1. l <= l
      BY <2>2
    <3> QED BY <2>1, <2>2, <3>1, WindowAges
  <2> QED BY <1>2, <2>2, <2>7, <2>8 DEF Window
<1> QED BY <1>1, <1>2

\* An open window and what a step makes of it.
Shifts(e, A, N, x, B, M, b, l, d, j) ==
  Spans(e, b, l, A, N) /\ Spans(x, d, j, B, M) /\ b <= d

LEMMA NextShifts ==
  ASSUME Near, NEW e \in Entries, NEW A, NEW N \in Nat, Window(e, A, N), e.start_rcv,
         NEW n \in Frames, NEW B, NEW M \in Nat, Came(A, N, n, B, M),
         check_win_seqment(e, n % SnSpace) = 2
  PROVE  \E b, l, d, j \in Int :
           /\ Shifts(e, A, N, NextReceived(e, n), B, M, b, l, d, j)
           /\ n = b /\ At(e, b) = NoFrame /\ d = b + 1 + RunLength(e, e.win_start + 1)
<1>1. n \in Nat
  BY FrameFacts
<1>2. PICK b \in Int, l \in Int : Numbered(e, b, l, N) /\ InWindow(e, b, l, A, N)
  BY DEF Window
<1>3. N - n <= Reach /\ n - N <= Reach
  BY DEF Came
<1>4. /\ check_win_seqment(e, n % SnSpace) = 2 <=> n = b
      /\ Later(e.last_seq, n % SnSpace) = (IF l < n THEN n ELSE l) % SnSpace
  BY <1>1, <1>2, <1>3, FrameNumber
<1>5. n = b /\ WinSz \in Nat \ {0} /\ Reach \in Nat
  BY <1>4, NearIs
<1>6. At(e, b) = NoFrame
  <2>1. n \in b .. b + WinSz - 1
    BY <1>1, <1>5
  <2> QED BY <1>2, <1>5, <2>1, NotHeld
<1>7. e.win_start = b % SnSpace /\ b - 1 <= l /\ l <= N
      /\ (N + 1 - b <= WinSz \/ N + 1 - b <= Reach)
  BY <1>2 DEF Numbered
<1> DEFINE c == 1
           k == RunLength(e, e.win_start + c)
           a == Advanced(e, e.win_start + c, k)
           x == [a EXCEPT !.last_seq = Later(a.last_seq, n % SnSpace)]
           d == b + c + k
           j == IF l < n THEN n ELSE l
<1>8. c \in {0, 1} /\ c = 1
  OBVIOUS
<1>9. NextReceived(e, n) = x
  BY DEF NextReceived
<1> HIDE DEF c
<1> HIDE DEF x, d, j
<1>10. Moved(e, b, l, A, N, c, k, a)
  <2>1. c = 1 => At(e, b) = NoFrame
    BY <1>6
  <2> QED BY <1>2, <1>7, <1>8, <2>1, AdvancedSpan
<1> HIDE DEF a, k
<1>11. d = b + c + k
  BY DEF d
<1>12. /\ k \in Nat /\ (k = 0 \/ d - 1 <= l)
       /\ a \in Entries /\ a.start_rcv = e.start_rcv /\ a.last_seq = e.last_seq
       /\ a.win_start = d % SnSpace
       /\ InWindow(a, d, l, A, N)
  BY <1>8, <1>10, <1>11 DEF Moved
<1> USE DEF x, d, j
<1>13. /\ x.start_rcv = a.start_rcv /\ x.packet_q = a.packet_q
       /\ x.win_start = a.win_start /\ x.last_seq = Later(a.last_seq, n % SnSpace)
  BY <1>12, SeqFields
<1>14. d \in Int /\ j \in Int /\ l <= j /\ n <= j
  BY <1>1, <1>5, <1>8, <1>12
<1>15. d - 1 <= j /\ j <= M /\ (M + 1 - d <= WinSz \/ M + 1 - d <= Reach)
  BY <1>1, <1>5, <1>7, <1>8, <1>12, <1>14 DEF Came
<1>16. x.last_seq = j % SnSpace
  BY <1>4, <1>12, <1>13
<1> HIDE DEF x, d, j
<1>17. Numbered(x, d, j, M)
  BY <1>12, <1>13, <1>15, <1>16 DEF Numbered
<1>18. InWindow(x, d, j, B, M)
  BY <1>1, <1>12, <1>13, <1>14, WindowAges
<1>19. Spans(x, d, j, B, M) /\ Spans(e, b, l, A, N)
  BY <1>2, <1>12, <1>13, <1>14, <1>17, <1>18 DEF Spans
<1>20. b <= d /\ d = b + 1 + RunLength(e, e.win_start + 1)
  <2>1. d = b + 1 + k
    BY <1>8, <1>11
  <2>2. b <= d
    BY <1>12, <2>1
  <2> QED BY <1>8, <2>1, <2>2 DEF k
<1> QED BY <1>5, <1>6, <1>9, <1>14, <1>19, <1>20 DEF Shifts

LEMMA NextWindow ==
  ASSUME Near, NEW e \in Entries, NEW A, NEW N \in Nat, Window(e, A, N), e.start_rcv,
         NEW n \in Frames, NEW B, NEW M \in Nat, Came(A, N, n, B, M),
         check_win_seqment(e, n % SnSpace) = 2
  PROVE  \E b, l \in Int : Spans(NextReceived(e, n), b, l, B, M)
BY NextShifts DEF Shifts

LEMMA StoredFields ==
  ASSUME NEW e \in Entries, NEW n \in Frames
  PROVE  /\ Stored(e, n).start_rcv = e.start_rcv /\ Stored(e, n).rc_timer_id = e.rc_timer_id
         /\ Stored(e, n).win_start = e.win_start /\ Stored(e, n).last_seq = e.last_seq
         /\ Stored(e, n).packet_q = [e.packet_q EXCEPT ![n % WinSz] = n]
<1> DEFINE q == [e.packet_q EXCEPT ![n % WinSz] = n]
<1>1. Stored(e, n) = [e EXCEPT !.packet_q = q]
  BY DEF Stored
<1> HIDE DEF q
<1>2. /\ Stored(e, n).start_rcv = e.start_rcv /\ Stored(e, n).rc_timer_id = e.rc_timer_id
      /\ Stored(e, n).win_start = e.win_start /\ Stored(e, n).last_seq = e.last_seq
      /\ Stored(e, n).packet_q = q
  BY <1>1 DEF Entries
<1> QED BY <1>2 DEF q

LEMMA StoredWindow ==
  ASSUME NEW e \in Entries, NEW b \in Int, NEW l \in Int, NEW B, NEW M,
         InWindow(e, b, l, B, M), NEW n \in Frames, n \in B, b <= n, n < b + WinSz, n <= l,
         NEW x, x.packet_q = Stored(e, n).packet_q
  PROVE  InWindow(x, b, l, B, M)
<1> SUFFICES ASSUME NEW i \in 0 .. WinSz - 1, x.packet_q[i] # NoFrame
             PROVE  Fits(x.packet_q[i], i, b, l, B, M)
  BY DEF InWindow
<1>1. e.packet_q \in [0 .. WinSz - 1 -> Frames \cup {NoFrame}]
  BY DEF Entries
<1>2. x.packet_q[i] = IF i = n % WinSz THEN n ELSE e.packet_q[i]
  <2> DEFINE s == n % WinSz
             q == e.packet_q
  <2>1. x.packet_q = [q EXCEPT ![s] = n]
    BY StoredFields
  <2> HIDE DEF s, q
  <2>2. x.packet_q[i] = IF i = s THEN n ELSE q[i]
    BY <1>1, <2>1 DEF q
  <2> QED BY <2>2 DEF s, q
<1>3. CASE i = n % WinSz
  BY <1>2, <1>3 DEF Fits
<1>4. CASE i # n % WinSz
  <2>1. x.packet_q[i] = e.packet_q[i]
    BY <1>2, <1>4
  <2> QED BY <2>1 DEF InWindow
<1> QED BY <1>3, <1>4

\* The entry after a frame was stored in its window.
StoredIn(x, e, n, v) ==
  /\ x.start_rcv = e.start_rcv /\ x.rc_timer_id = e.rc_timer_id /\ x.win_start = e.win_start
  /\ x.packet_q = Stored(e, n).packet_q /\ x.last_seq = v

LEMMA StoredInIs ==
  ASSUME NEW e \in Entries, NEW n \in Frames, NEW v
  PROVE  StoredIn([Stored(e, n) EXCEPT !.last_seq = v], e, n, v)
<1> DEFINE s == Stored(e, n)
           x == [s EXCEPT !.last_seq = v]
<1>1. s \in Entries
  BY StoredType
<1>2. /\ s.start_rcv = e.start_rcv /\ s.rc_timer_id = e.rc_timer_id
      /\ s.win_start = e.win_start
  BY StoredFields
<1> HIDE DEF s
<1>3. /\ x.start_rcv = s.start_rcv /\ x.packet_q = s.packet_q
      /\ x.rc_timer_id = s.rc_timer_id /\ x.win_start = s.win_start /\ x.last_seq = v
  BY <1>1, SeqFields
<1> HIDE DEF x
<1>4. StoredIn(x, e, n, v)
  BY <1>2, <1>3 DEF StoredIn, s
<1> QED BY <1>4 DEF x, s

LEMMA WithinShifts ==
  ASSUME Near, NEW e \in Entries, NEW A, NEW N \in Nat, Window(e, A, N), e.start_rcv,
         NEW n \in Frames, NEW B, NEW M \in Nat, Came(A, N, n, B, M),
         check_win_seqment(e, n % SnSpace) = 3,
         NEW x, StoredIn(x, e, n, Later(e.last_seq, n % SnSpace))
  PROVE  \E b, l, j \in Int : /\ Shifts(e, A, N, x, B, M, b, l, b, j) /\ b <= j
                             /\ b < n /\ n < b + WinSz
<1>1. n \in Nat
  BY FrameFacts
<1>2. PICK b \in Int, l \in Int : Numbered(e, b, l, N) /\ InWindow(e, b, l, A, N)
  BY DEF Window
<1>3. N - n <= Reach /\ n - N <= Reach
  BY DEF Came
<1>4. /\ check_win_seqment(e, n % SnSpace) = 3 <=> (b < n /\ n < b + WinSz)
      /\ Later(e.last_seq, n % SnSpace) = (IF l < n THEN n ELSE l) % SnSpace
  BY <1>1, <1>2, <1>3, FrameNumber
<1>5. b < n /\ n < b + WinSz /\ WinSz \in Nat \ {0} /\ Reach \in Nat
  BY <1>4, NearIs
<1>6. e.win_start = b % SnSpace /\ b - 1 <= l /\ l <= N
      /\ (N + 1 - b <= WinSz \/ N + 1 - b <= Reach)
  BY <1>2 DEF Numbered
<1> DEFINE j == IF l < n THEN n ELSE l
<1>7. j \in Int /\ l <= j /\ n <= j /\ b <= j
  BY <1>1, <1>5
<1>8. b - 1 <= j /\ j <= M /\ (M + 1 - b <= WinSz \/ M + 1 - b <= Reach)
  BY <1>1, <1>5, <1>6, <1>7 DEF Came
<1>9. x.last_seq = j % SnSpace /\ x.win_start = b % SnSpace
  BY <1>4, <1>6 DEF StoredIn
<1> HIDE DEF j
<1>10. Numbered(x, b, j, M)
  BY <1>8, <1>9 DEF Numbered
<1>11. InWindow(e, b, j, B, M)
  <2>1. e.packet_q = e.packet_q
    OBVIOUS
  <2> QED BY <1>1, <1>2, <1>7, <2>1, WindowAges
<1>12. InWindow(x, b, j, B, M)
  <2>1. n \in B /\ b <= n
    BY <1>1, <1>5 DEF Came
  <2>2. x.packet_q = Stored(e, n).packet_q
    BY DEF StoredIn
  <2> QED BY <1>5, <1>7, <1>11, <2>1, <2>2, StoredWindow
<1>13. x.start_rcv
  BY DEF StoredIn
<1>14. Spans(x, b, j, B, M) /\ Spans(e, b, l, A, N)
  BY <1>2, <1>10, <1>12, <1>13 DEF Spans
<1> QED BY <1>5, <1>7, <1>14 DEF Shifts

LEMMA WithinWindow ==
  ASSUME Near, NEW e \in Entries, NEW A, NEW N \in Nat, Window(e, A, N), e.start_rcv,
         NEW n \in Frames, NEW B, NEW M \in Nat, Came(A, N, n, B, M),
         check_win_seqment(e, n % SnSpace) = 3,
         NEW x, StoredIn(x, e, n, Later(e.last_seq, n % SnSpace))
  PROVE  \E b, l \in Int : b <= l /\ Spans(x, b, l, B, M)
BY WithinShifts DEF Shifts

\* A frame beyond the window.
LEMMA BeyondShifts ==
  ASSUME Near, NEW e \in Entries, NEW A, NEW N \in Nat, Window(e, A, N), e.start_rcv,
         NEW n \in Frames, NEW B, NEW M \in Nat, Came(A, N, n, B, M),
         check_win_seqment(e, n % SnSpace) = 4,
         NEW x, StoredIn(x, Advanced(e, e.win_start, Shift(e, n % SnSpace)), n, n % SnSpace)
  PROVE  \E b, l, d, j \in Int :
           /\ Shifts(e, A, N, x, B, M, b, l, d, j) /\ d <= j
           /\ d = b + Shift(e, n % SnSpace) /\ d <= n /\ n < d + WinSz /\ b + WinSz <= n
<1> DEFINE seq == n % SnSpace
           k == Shift(e, seq)
           a == Advanced(e, e.win_start, k)
<1>1. n \in Nat
  BY FrameFacts
<1>2. PICK b \in Int, l \in Int : Numbered(e, b, l, N) /\ InWindow(e, b, l, A, N)
  BY DEF Window
<1>3. N - n <= Reach /\ n - N <= Reach
  BY DEF Came
<1>4. /\ check_win_seqment(e, n % SnSpace) = 4 <=> b + WinSz <= n
      /\ n >= b => SN_DIFF(n % SnSpace, e.win_start) = n - b
      /\ n - b \in -Half .. Half - 1
  BY <1>1, <1>2, <1>3, FrameNumber
<1>5. b + WinSz <= n /\ WinSz \in Nat \ {0} /\ Reach \in Nat /\ Half \in Nat
  BY <1>4, NearIs
<1>6. e.win_start = b % SnSpace /\ b - 1 <= l /\ l <= N
      /\ (N + 1 - b <= WinSz \/ N + 1 - b <= Reach)
  BY <1>2 DEF Numbered
<1>7. e.win_start \in Numbers /\ seq \in Numbers /\ e.win_start \in Int
  <2>1. seq \in 0 .. SnSpace - 1
    BY FrameFacts
  <2>2. e.win_start \in 0 .. SnSpace - 1
    BY DEF Entries
  <2> QED BY <2>1, <2>2, ReorderAssumption DEF Numbers
<1>8. SN_DIFF(seq, e.win_start) = n - b /\ n - b >= WinSz
  BY <1>1, <1>4, <1>5
<1> HIDE DEF k
<1>9. k \in 0 .. n - b /\ SN_DIFF(seq, (e.win_start + k) % SnSpace) < WinSz
  <2> HIDE DEF seq
  <2>1. SN_DIFF(seq, e.win_start) >= WinSz
    BY <1>8
  <2>2. Shift(e, seq) \in 0 .. SN_DIFF(seq, e.win_start) /\ Stops(e, seq, Shift(e, seq))
    BY <1>7, <2>1, ShiftIs
  <2> QED BY <1>8, <2>2 DEF Stops, k
<1> DEFINE d == b + k
<1>10. k \in Nat /\ k \in Int /\ d \in Int /\ b <= d /\ d <= n
  BY <1>1, <1>9
<1>11. (e.win_start + k) % SnSpace = d % SnSpace
  BY <1>6, <1>10, SnNumber
<1>12. n - d < WinSz
  <2>1. n - d \in -Half .. Half - 1 /\ n >= d
    BY <1>1, <1>4, <1>5, <1>10
  <2> HIDE DEF d
  <2>2. SN_DIFF(n % SnSpace, d % SnSpace) = n - d
    BY <1>1, <1>10, <2>1, LessIs
  <2> QED BY <1>9, <1>11, <2>2
<1>13. a \in Entries
  BY <1>7, <1>10, AdvancedType
<1>14. /\ a.packet_q = Emptied(e, e.win_start, k).packet_q /\ a.start_rcv = e.start_rcv
       /\ a.win_start = d % SnSpace
  <2> HIDE DEF d
  <2> QED BY <1>11, AdvancedFields
<1> HIDE DEF a
<1>15. InWindow(e, b, n, B, M)
  <2>1. e.packet_q = e.packet_q /\ b + WinSz - 1 <= n
    BY <1>1, <1>5
  <2> QED BY <1>1, <1>2, <2>1, WindowAges
<1>16. InWindow(a, d, n, B, M)
  <2> DEFINE c == 0
  <2>1. c \in {0, 1} /\ c # 1 /\ e.win_start + c = e.win_start /\ b + c + k = d
    BY <1>7, <1>10
  <2> HIDE DEF c, d
  <2>2. InWindow(Emptied(e, e.win_start + c, k), b + c + k, n, B, M)
    <3>1. n \in Int
      BY <1>1
    <3> QED BY <1>6, <1>10, <1>15, <2>1, <3>1, EmptiedWindow
  <2>3. InWindow(Emptied(e, e.win_start, k), d, n, B, M)
    BY <2>1, <2>2
  <2> QED BY <1>14, <2>3 DEF InWindow
<1>17. StoredIn(x, a, n, n % SnSpace)
  BY DEF a, k
<1>18. d - 1 <= n /\ n <= M /\ (M + 1 - d <= WinSz \/ M + 1 - d <= Reach)
  BY <1>1, <1>5, <1>6, <1>10, <1>12 DEF Came
<1> HIDE DEF d
<1>19. Numbered(x, d, n, M)
  BY <1>14, <1>17, <1>18 DEF Numbered, StoredIn
<1>20. InWindow(x, d, n, B, M)
  <2>1. n \in B /\ n < d + WinSz /\ n <= n /\ n \in Int
    BY <1>1, <1>5, <1>10, <1>12 DEF Came
  <2>2. x.packet_q = Stored(a, n).packet_q
    BY <1>17 DEF StoredIn
  <2> QED BY <1>10, <1>13, <1>16, <2>1, <2>2, StoredWindow
<1>21. x.start_rcv
  BY <1>14, <1>17 DEF StoredIn
<1>22. n \in Int
  BY <1>1
<1>23. Spans(x, d, n, B, M) /\ Spans(e, b, l, A, N)
  BY <1>2, <1>19, <1>20, <1>21 DEF Spans
<1>24. d = b + Shift(e, n % SnSpace) /\ n < d + WinSz
  BY <1>5, <1>10, <1>12, <1>22 DEF d, k
<1> QED BY <1>5, <1>10, <1>22, <1>23, <1>24 DEF Shifts

LEMMA BeyondWindow ==
  ASSUME Near, NEW e \in Entries, NEW A, NEW N \in Nat, Window(e, A, N), e.start_rcv,
         NEW n \in Frames, NEW B, NEW M \in Nat, Came(A, N, n, B, M),
         check_win_seqment(e, n % SnSpace) = 4,
         NEW x, StoredIn(x, Advanced(e, e.win_start, Shift(e, n % SnSpace)), n, n % SnSpace)
  PROVE  \E b, l \in Int : b <= l /\ Spans(x, b, l, B, M)
BY BeyondShifts DEF Shifts

\* One missing frame is given up.
FirstGivenUp(e) == IF At(e, e.win_start) = NoFrame THEN e.win_start + 1 ELSE e.win_start

GivenUp(e) == Advanced(e, FirstGivenUp(e), RunLength(e, FirstGivenUp(e)))

\* A window with something to wait for.
Waits(e, A, N) == \E b, l \in Int : Spans(e, b, l, A, N) /\ b <= l

LEMMA GiveUpShifts ==
  ASSUME Near, NEW e \in Entries, NEW A, NEW N \in Nat, Waits(e, A, N)
  PROVE  \E b, l, d \in Int, c \in {0, 1} :
           /\ GivenUp(e) \in Entries /\ Shifts(e, A, N, GivenUp(e), A, N, b, l, d, l)
           /\ c = 1 => At(e, b) = NoFrame
           /\ FirstGivenUp(e) = e.win_start + c
           /\ d = b + c + RunLength(e, e.win_start + c)
<1>2. PICK b \in Int, l \in Int : Numbered(e, b, l, N) /\ InWindow(e, b, l, A, N) /\ b <= l
  BY DEF Waits, Spans
<1>1. e.start_rcv
  BY DEF Waits, Spans
<1>3. e.win_start = b % SnSpace /\ l % SnSpace = e.last_seq /\ l <= N
      /\ (N + 1 - b <= WinSz \/ N + 1 - b <= Reach)
  BY <1>2 DEF Numbered
<1>4. WinSz \in Nat \ {0} /\ Reach \in Nat /\ e.win_start \in Int
  BY ReorderAssumption DEF Entries
<1>5. At(e, e.win_start) = At(e, b)
  <2>1. 0 \in Int /\ e.win_start + 0 = e.win_start /\ b + 0 = b
    BY <1>4
  <2>2. At(e, (b % SnSpace) + 0) = At(e, b + 0)
    BY <2>1, AtNumber
  <2> QED BY <1>3, <2>1, <2>2
<1> DEFINE c == IF At(e, b) = NoFrame THEN 1 ELSE 0
           k == RunLength(e, e.win_start + c)
           a == Advanced(e, e.win_start + c, k)
           d == b + c + k
<1>6. c \in {0, 1} /\ (c = 1 => At(e, b) = NoFrame)
  OBVIOUS
<1>7. FirstGivenUp(e) = e.win_start + c
  BY <1>4, <1>5 DEF FirstGivenUp
<1>16. a = GivenUp(e)
  BY <1>7 DEF GivenUp
<1> HIDE DEF c, d
<1>8. Moved(e, b, l, A, N, c, k, a)
  BY <1>2, <1>3, <1>6, AdvancedSpan
<1> HIDE DEF k, a
<1>9. d = b + c + k
  BY DEF d
<1>10. /\ k \in Nat /\ (k = 0 \/ d - 1 <= l)
       /\ a \in Entries /\ a.start_rcv = e.start_rcv /\ a.last_seq = e.last_seq
       /\ a.win_start = d % SnSpace
       /\ InWindow(a, d, l, A, N)
  BY <1>6, <1>8, <1>9 DEF Moved
<1>11. d \in Int /\ d - 1 <= l /\ (N + 1 - d <= WinSz \/ N + 1 - d <= Reach)
  BY <1>2, <1>3, <1>4, <1>6, <1>9, <1>10
<1>12. Numbered(a, d, l, N)
  BY <1>3, <1>10, <1>11 DEF Numbered
<1>13. a.start_rcv
  BY <1>1, <1>10
<1>14. Spans(a, d, l, A, N) /\ Spans(e, b, l, A, N)
  BY <1>1, <1>2, <1>10, <1>12, <1>13 DEF Spans
<1>15. b <= d /\ d = b + c + RunLength(e, e.win_start + c)
  <2>1. b <= d
    BY <1>6, <1>9, <1>10
  <2> QED BY <1>9, <2>1 DEF k
<1> QED BY <1>6, <1>7, <1>16, <1>10, <1>11, <1>14, <1>15 DEF Shifts

LEMMA GiveUpWindow ==
  ASSUME Near, NEW e \in Entries, NEW A, NEW N \in Nat, Waits(e, A, N)
  PROVE  \E b, l \in Int : GivenUp(e) \in Entries /\ Spans(GivenUp(e), b, l, A, N)
BY GiveUpShifts DEF Shifts

\* A flow that waits for nothing: free_sta_skb has closed its window and it
\* may have another, but a timeout is left.

LEMMA IdleWindow ==
  ASSUME NEW e \in Entries, NEW A, NEW N, Window(e, A, N), ~Waits(e, A, N)
  PROVE  HoldsNone(e)
<1>1. CASE ~e.start_rcv
  BY <1>1 DEF Window
<1>2. CASE e.start_rcv
  <2>1. PICK b \in Int, l \in Int : Numbered(e, b, l, N) /\ InWindow(e, b, l, A, N)
    BY <1>2 DEF Window
  <2>2. ~(b <= l)
    BY <1>2, <2>1 DEF Waits, Spans
  <2>3. l < b
    BY <2>2
  <2> QED BY <2>1, <2>3, NothingLeft
<1> QED BY <1>1, <1>2

LEMMA IdleEmptied ==
  ASSUME NEW e \in Entries, HoldsNone(e), NEW n, NEW k
  PROVE  HoldsNone(Emptied(e, n, k))
<1> DEFINE q == [i \in 0 .. WinSz - 1 |-> IF (i - n) % WinSz < k THEN NoFrame ELSE e.packet_q[i]]
<1>1. Emptied(e, n, k).packet_q = q
  BY DEF Emptied, Entries
<1>2. \A i \in 0 .. WinSz - 1 : q[i] = NoFrame
  BY DEF HoldsNone
<1> QED BY <1>1, <1>2 DEF HoldsNone

LEMMA IdleSlots ==
  ASSUME NEW e, HoldsNone(e), NEW n \in Int
  PROVE  At(e, n) = NoFrame /\ RunLength(e, n) = 0
<1>1. \A m \in Int : At(e, m) = NoFrame
  BY ModIn, ReorderAssumption DEF At, HoldsNone
<1>2. RunLength(e, n) \in 0 .. WinSz
      /\ \A i \in 0 .. RunLength(e, n) - 1 : At(e, n + i) # NoFrame
  BY RunLengthIs
<1>3. RunLength(e, n) = 0
  <2> DEFINE k == RunLength(e, n)
  <2> HIDE DEF k
  <2>1. WinSz \in Nat /\ k \in 0 .. WinSz /\ \A i \in 0 .. k - 1 : At(e, n + i) # NoFrame
    BY <1>2, ReorderAssumption DEF k
  <2>2. SUFFICES ASSUME k # 0 PROVE FALSE
    BY DEF k
  <2>3. 0 \in 0 .. k - 1 /\ n + 0 \in Int
    BY <2>1, <2>2
  <2> QED BY <1>1, <2>1, <2>3
<1> QED BY <1>1, <1>3

LEMMA IdleGivenUp ==
  ASSUME NEW e \in Entries, HoldsNone(e)
  PROVE  /\ GivenUp(e) \in Entries /\ HoldsNone(GivenUp(e))
         /\ GivenUp(e).start_rcv = e.start_rcv /\ GivenUp(e).last_seq = e.last_seq
         /\ GivenUp(e).win_start = (e.win_start + 1) % SnSpace
         /\ FirstGivenUp(e) \in Int /\ RunLength(e, FirstGivenUp(e)) = 0
<1> DEFINE w == e.win_start + 1
           x == Advanced(e, w, 0)
<1>1. e.win_start \in Int
  BY ReorderAssumption DEF Entries
<1>2. w \in Int /\ w + 0 = w
  BY <1>1
<1>3. FirstGivenUp(e) = w
  BY <1>1, IdleSlots DEF FirstGivenUp
<1> HIDE DEF w
<1>4. RunLength(e, w) = 0
  BY <1>2, IdleSlots
<1>5. GivenUp(e) = x
  BY <1>3, <1>4 DEF GivenUp
<1>6. x \in Entries
  <2>1. 0 \in Int
    OBVIOUS
  <2> QED BY <1>2, <2>1, AdvancedType
<1>7. /\ x.packet_q = Emptied(e, w, 0).packet_q /\ x.start_rcv = e.start_rcv
      /\ x.last_seq = e.last_seq /\ x.win_start = (w + 0) % SnSpace
  BY AdvancedFields
<1> HIDE DEF x
<1>8. HoldsNone(x)
  <2>1. HoldsNone(Emptied(e, w, 0))
    BY IdleEmptied
  <2> QED BY <1>7, <2>1 DEF HoldsNone
<1>9. x.win_start = (e.win_start + 1) % SnSpace
  BY <1>2, <1>7 DEF w
<1> QED BY <1>2, <1>3, <1>4, <1>5, <1>6, <1>7, <1>8, <1>9

LEMMA IdleCompletes ==
  ASSUME Near, NEW e \in Entries, NEW A, NEW N \in Nat, Window(e, A, N), e.start_rcv,
         ~Waits(e, A, N)
  PROVE  Complete(GivenUp(e))
<1>1. PICK b \in Int, l \in Int : Numbered(e, b, l, N) /\ InWindow(e, b, l, A, N)
  BY DEF Window
<1>2. ~(b <= l)
  BY <1>1 DEF Waits, Spans
<1>3. b = l + 1 /\ e.win_start = b % SnSpace /\ e.last_seq = l % SnSpace
  BY <1>1, <1>2 DEF Numbered
<1>4. HoldsNone(e)
  BY IdleWindow
<1> DEFINE x == GivenUp(e)
           d == b + 1
<1>5. x.win_start = (e.win_start + 1) % SnSpace /\ x.last_seq = e.last_seq
  BY <1>4, IdleGivenUp
<1> HIDE DEF x
<1>6. x.win_start = d % SnSpace
  <2>1. 1 \in Int
    OBVIOUS
  <2>2. ((b % SnSpace) + 1) % SnSpace = (b + 1) % SnSpace
    BY <2>1, SnNumber
  <2> QED BY <1>3, <1>5, <2>2
<1>7. d \in Int /\ l < d /\ l - d \in -Half .. Half - 1
  BY <1>3, NearIs
<1> HIDE DEF d
<1>8. SN_LESS(l % SnSpace, d % SnSpace)
  BY <1>7, LessIs
<1>9. Complete(x)
  BY <1>3, <1>5, <1>6, <1>8 DEF Complete
<1> QED BY <1>9 DEF x

\* The entry y of a flow without a window.
Shut(y) == ~y.start_rcv /\ HoldsNone(y)

LEMMA ShutStays ==
  ASSUME NEW e \in Entries, HoldsNone(e)
  PROVE  /\ Shut(Ended(e))
         /\ ~e.start_rcv => \A y : Awaited(e, y) => Shut(y)
<1>1. Shut(Ended(e))
  <2> DEFINE z == Ended(e)
  <2>1. z.start_rcv = FALSE /\ z.packet_q = e.packet_q
    BY DEF Ended, Closed, Entries
  <2> HIDE DEF z
  <2>2. Shut(z)
    BY <2>1 DEF Shut, HoldsNone
  <2> QED BY <2>2 DEF z
<1>2. ASSUME ~e.start_rcv, NEW y, y = Consumed(e) PROVE Shut(y)
  <2> DEFINE m == Emptied(e, e.win_start, SN_DIFF(e.last_seq, e.win_start) + 1)
  <2>1. y.start_rcv = FALSE /\ y.packet_q = m.packet_q
    BY <1>2, ConsumedFields
  <2>2. HoldsNone(m)
    BY IdleEmptied
  <2> HIDE DEF m
  <2> QED BY <2>1, <2>2 DEF Shut, HoldsNone
<1>3. ASSUME ~e.start_rcv, NEW id, NEW y, y = [e EXCEPT !.rc_timer_id = id] PROVE Shut(y)
  <2>1. y.start_rcv = e.start_rcv /\ y.packet_q = e.packet_q
    BY <1>3, NamedFields
  <2> QED BY <1>3, <2>1 DEF Shut, HoldsNone
<1> QED BY <1>1, <1>2, <1>3 DEF Awaited

\* What becomes of it when the timeout passes.
LEMMA IdleShuts ==
  ASSUME Near, NEW e \in Entries, NEW A, NEW N \in Nat, Window(e, A, N), ~Waits(e, A, N),
         NEW y, IF Complete(GivenUp(e)) THEN y = Ended(GivenUp(e)) ELSE Awaited(GivenUp(e), y)
  PROVE  Shut(y)
<1> DEFINE x == GivenUp(e)
<1>1. HoldsNone(e)
  BY IdleWindow
<1>2. x \in Entries /\ HoldsNone(x) /\ x.start_rcv = e.start_rcv
  BY <1>1, IdleGivenUp
<1>3. e.start_rcv => Complete(x)
  BY IdleCompletes
<1> HIDE DEF x
<1>4. IF Complete(x) THEN y = Ended(x) ELSE Awaited(x, y)
  BY DEF x
<1> QED BY <1>2, <1>3, <1>4, ShutStays

-----------------------------------------------------------------------------
(* The windows of all flows.                                               *)

WindowOf(e, A) == \E N \in Nat : IsNewest(A, N) /\ Window(e, A, N)

WindowInv(en, arr) == \A f \in Flows : WindowOf(en[f], arr[f])

\* No copy of a frame gets past the tuple cache.
NoCopies == Repeated = {}

LEMMA NewestIs ==
  ASSUME NEW f \in Flows, arrived[f] \subseteq Nat, NEW N \in Nat, IsNewest(arrived[f], N)
  PROVE  Newest(f) = N
<1> DEFINE A == arrived[f]
           P(n) == n \in A \cup {0} /\ \A m \in A : m <= n
<1>1. Newest(f) = CHOOSE n : P(n)
  <2>1. Newest(f) = CHOOSE n \in A \cup {0} : \A m \in A : m <= n
    BY DEF Newest
  <2> QED BY <2>1
<1>2. P(N)
  BY DEF IsNewest
<1>3. ASSUME NEW n, P(n) PROVE n = N
  <2>1. n \in Nat
    BY <1>3
  <2>2. CASE N \in A
    <3>1. N <= n
      BY <1>3, <2>2
    <3>2. n <= N
      <4>1. n \in A \/ n = 0
        BY <1>3
      <4>2. n \in A => n <= N
        BY DEF IsNewest
      <4> QED BY <2>1, <4>1, <4>2
    <3> QED BY <2>1, <3>1, <3>2
  <2>3. CASE A = {} /\ N = 0
    BY <1>3, <2>3
  <2> QED BY <2>2, <2>3 DEF IsNewest
<1>4. P(CHOOSE n : P(n))
  <2> HIDE DEF P
  <2> QED BY <1>2
<1> QED BY <1>1, <1>3, <1>4

LEMMA Arrival ==
  ASSUME TypeOK, NoCopies, NEW f \in Flows, NEW n \in Frames, Arrives(f, n),
         NEW N \in Nat, IsNewest(arrived[f], N)
  PROVE  /\ \E M \in Nat : Came(arrived[f], N, n, arrived'[f], M)
         /\ \A g \in Flows \ {f} : arrived'[g] = arrived[g]
<1> DEFINE A == arrived[f]
           M == IF n > N THEN n ELSE N
           B == {m \in A \cup {n} : M - m <= Reach}
<1>1. n \in Nat /\ Reach \in Nat /\ arrived \in [Flows -> SUBSET Frames] /\ A \subseteq Nat
  BY FrameFacts, ReorderAssumption DEF TypeOK
<1>2. Newest(f) = N
  BY <1>1, NewestIs
<1>3. /\ n - N <= Reach /\ N - n <= Reach /\ n \notin A
      /\ arrived' = [arrived EXCEPT ![f] = B]
  BY <1>2 DEF Arrives, NoCopies
<1>4. arrived'[f] = B /\ \A g \in Flows \ {f} : arrived'[g] = arrived[g]
  <2> HIDE DEF B
  <2> QED BY <1>1, <1>3
<1>5. M \in Nat /\ N <= M /\ n <= M /\ (M = N \/ M = n)
  BY <1>1
<1>6. M - n <= Reach /\ n \in B
  BY <1>1, <1>3
<1>7. \A m \in B : m <= M
  <2> SUFFICES ASSUME NEW m \in B PROVE m <= M
    OBVIOUS
  <2>1. m \in A \/ m = n
    OBVIOUS
  <2>2. m \in A => m <= N /\ m \in Nat
    BY <1>1 DEF IsNewest
  <2> HIDE DEF M, B, A
  <2> QED BY <1>1, <1>5, <2>1, <2>2
<1>8. M \in B
  <2>1. CASE M = n
    BY <1>6, <2>1
  <2>2. CASE M = N /\ N \in A
    <3>1. M - M <= Reach
      BY <1>1, <1>5
    <3> QED BY <2>2, <3>1
  <2>3. CASE A = {} /\ N = 0
    <3>1. M = n
      BY <1>1, <2>3
    <3> QED BY <1>6, <3>1
  <2> QED BY <1>5, <2>1, <2>2, <2>3 DEF IsNewest
<1>9. \A p \in A : p \in B \/ M - p > Reach
  <2> SUFFICES ASSUME NEW p \in A, ~(M - p <= Reach) PROVE M - p > Reach
    OBVIOUS
  <2>1. p \in Nat
    BY <1>1
  <2> HIDE DEF M
  <2> QED BY <1>1, <1>5, <2>1
<1> HIDE DEF M, B
<1>10. Came(A, N, n, B, M)
  BY <1>3, <1>5, <1>6, <1>7, <1>8, <1>9 DEF Came, IsNewest
<1> QED BY <1>4, <1>5, <1>10

\* Only the window of one flow changes.
LEMMA OneWindow ==
  ASSUME NEW en \in [Flows -> Entries], NEW arr, NEW arx, WindowInv(en, arr), NEW f \in Flows,
         \A g \in Flows \ {f} : arx[g] = arr[g],
         NEW x, NEW N \in Nat, IsNewest(arx[f], N), Window(x, arx[f], N)
  PROVE  WindowInv([en EXCEPT ![f] = x], arx)
<1> DEFINE m == [en EXCEPT ![f] = x]
<1>1. m[f] = x /\ \A g \in Flows \ {f} : m[g] = en[g]
  OBVIOUS
<1> HIDE DEF m
<1>2. ASSUME NEW g \in Flows PROVE WindowOf(m[g], arx[g])
  <2>1. CASE g = f
    BY <1>1, <2>1 DEF WindowOf
  <2>2. CASE g # f
    <3>1. m[g] = en[g] /\ arx[g] = arr[g]
      BY <1>1, <2>2
    <3> QED BY <3>1 DEF WindowInv
  <2> QED BY <2>1, <2>2
<1> QED BY <1>2 DEF WindowInv, m

\* A received frame, and what it makes of the entry of its flow.
LEMMA ReceiveWindow ==
  ASSUME TypeOK, NoCopies, WindowInv(entry, arrived), NEW f \in Flows, NEW n \in Frames,
         Arrives(f, n), NEW x, entry' = [entry EXCEPT ![f] = x],
         \A N, M \in Nat : /\ IsNewest(arrived[f], N) /\ Window(entry[f], arrived[f], N)
                           /\ Came(arrived[f], N, n, arrived'[f], M)
                           => Window(x, arrived'[f], M)
  PROVE  WindowInv(entry', arrived')
<1>1. PICK N \in Nat : IsNewest(arrived[f], N) /\ Window(entry[f], arrived[f], N)
  BY DEF WindowInv, WindowOf
<1>2. PICK M \in Nat : Came(arrived[f], N, n, arrived'[f], M)
  BY <1>1, Arrival
<1>3. \A g \in Flows \ {f} : arrived'[g] = arrived[g]
  BY <1>1, Arrival
<1>4. Window(x, arrived'[f], M) /\ IsNewest(arrived'[f], M)
  BY <1>1, <1>2 DEF Came
<1>5. entry \in [Flows -> Entries]
  BY DEF TypeOK
<1>6. WindowInv([entry EXCEPT ![f] = x], arrived')
  BY <1>3, <1>4, <1>5, OneWindow
<1> QED BY <1>6

\* An entry that keeps its window whether frames are no news or copies.
LEMMA UnchangedWindow ==
  ASSUME Near, TypeOK, NoCopies, WindowInv(entry, arrived), NEW f \in Flows, NEW n \in Frames,
         Arrives(f, n), entry' = entry,
         \/ ~entry[f].start_rcv
         \/ check_win_seqment(entry[f], n % SnSpace) = 1
         \/ check_win_seqment(entry[f], n % SnSpace) = 3 /\ At(entry[f], n) # NoFrame
  PROVE  WindowInv(entry', arrived')
<1> DEFINE x == entry[f]
<1>1. entry \in [Flows -> Entries] /\ x \in Entries
  BY DEF TypeOK
<1>2. entry' = [entry EXCEPT ![f] = x]
  BY <1>1
<1>3. \A N, M \in Nat : /\ IsNewest(arrived[f], N) /\ Window(entry[f], arrived[f], N)
                        /\ Came(arrived[f], N, n, arrived'[f], M)
                        => Window(x, arrived'[f], M)
  BY <1>1, SameWindow
<1> HIDE DEF x
<1> QED BY <1>2, <1>3, ReceiveWindow

LEMMA FirstKeepsWindow ==
  ASSUME Near, TypeOK, NoCopies, WindowInv(entry, arrived), NEW f \in Flows, NEW n \in Frames,
         ReceiveFirst(f, n)
  PROVE  WindowInv(entry', arrived')
<1> DEFINE e == entry[f]
           w == SN_NEXT(n % SnSpace)
           l == n % SnSpace
           x == [e EXCEPT !.start_rcv = TRUE, !.win_start = w, !.last_seq = l]
<1>1. entry \in [Flows -> Entries] /\ e \in Entries /\ n \in Nat
  BY FrameFacts DEF TypeOK
<1>2. entry' = [entry EXCEPT ![f] = x] /\ Arrives(f, n) /\ ~e.start_rcv
  BY DEF ReceiveFirst, Becomes, Put, State
<1> HIDE DEF e, w, l
<1>3. /\ x.start_rcv /\ x.packet_q = e.packet_q /\ x.rc_timer_id = e.rc_timer_id
      /\ x.win_start = w /\ x.last_seq = l
  <2> DEFINE a == [e EXCEPT !.start_rcv = TRUE]
             c == [a EXCEPT !.win_start = w]
  <2>1. /\ DOMAIN a = DOMAIN e /\ a.start_rcv /\ a.packet_q = e.packet_q
        /\ a.rc_timer_id = e.rc_timer_id
    BY <1>1 DEF Entries
  <2>2. DOMAIN e = {"packet_q", "start_rcv", "rc_timer_id", "win_start", "last_seq"}
    BY <1>1 DEF Entries
  <2>3. x = [c EXCEPT !.last_seq = l]
    OBVIOUS
  <2> HIDE DEF a, x
  <2>4. /\ DOMAIN c = DOMAIN e /\ c.start_rcv = a.start_rcv /\ c.packet_q = a.packet_q
        /\ c.rc_timer_id = a.rc_timer_id /\ c.win_start = w
    BY <2>1, <2>2
  <2> HIDE DEF c
  <2>5. /\ x.start_rcv = c.start_rcv /\ x.packet_q = c.packet_q
        /\ x.rc_timer_id = c.rc_timer_id /\ x.win_start = c.win_start /\ x.last_seq = l
    BY <2>2, <2>3, <2>4
  <2> QED BY <2>1, <2>4, <2>5
<1> HIDE DEF x
<1>4. \A N, M \in Nat : /\ IsNewest(arrived[f], N) /\ Window(e, arrived[f], N)
                        /\ Came(arrived[f], N, n, arrived'[f], M)
                        => Window(x, arrived'[f], M)
  BY <1>1, <1>2, <1>3, FirstWindow DEF w, l
<1>5. \A N, M \in Nat : /\ IsNewest(arrived[f], N) /\ Window(entry[f], arrived[f], N)
                        /\ Came(arrived[f], N, n, arrived'[f], M)
                        => Window(x, arrived'[f], M)
  BY <1>4 DEF e
<1> QED BY <1>2, <1>5, ReceiveWindow

LEMMA NextKeepsWindow ==
  ASSUME IInv, Near, NoCopies, WindowInv(entry, arrived), NEW f \in Flows, NEW n \in Frames,
         ReceiveNext(f, n)
  PROVE  WindowInv(entry', arrived')
<1> DEFINE old == entry[f]
           e == NextReceived(old, n)
           r == Forgotten(ring, old.rc_timer_id)
           out == <<n>> \o Queued(old, old.win_start + 1, RunLength(old, old.win_start + 1))
           z == [e EXCEPT !.rc_timer_id = 0]
           s == Await(State, f, e, r, out, FALSE)
           t == IF Complete(e) THEN Put(State, f, z, r, out) ELSE s
<1>1. TypeOK /\ old \in Entries /\ ring \in Rings /\ old.rc_timer_id \in 0 .. RingSize
  BY DEF IInv, TypeOK, Entries
<1>2. /\ Becomes(t) /\ Arrives(f, n) /\ old.start_rcv
      /\ check_win_seqment(old, n % SnSpace) = 2
  BY DEF ReceiveNext, InSegment
<1>3. e \in Entries
  BY <1>1, NextType
<1>4. r \in Rings
  BY <1>1, ForgottenType
<1> HIDE DEF out, r
<1>5. \A N, M \in Nat : /\ IsNewest(arrived[f], N) /\ Window(old, arrived[f], N)
                        /\ Came(arrived[f], N, n, arrived'[f], M)
        => \E b, l \in Int : Spans(e, b, l, arrived'[f], M)
  BY <1>1, <1>2, NextWindow
<1> HIDE DEF e
<1>6. \A N, M \in Nat : /\ IsNewest(arrived[f], N) /\ Window(entry[f], arrived[f], N)
                        /\ Came(arrived[f], N, n, arrived'[f], M)
        => /\ Complete(e) => Window(z, arrived'[f], M)
           /\ ~Complete(e) => \A y : Awaited(e, y) => Window(y, arrived'[f], M)
  BY <1>3, <1>5, WindowFollows
<1> HIDE DEF z, s
<1>7. CASE Complete(e)
  <2>1. entry' = [entry EXCEPT ![f] = z]
    BY <1>2, <1>7 DEF Becomes, Put, State
  <2>2. \A N, M \in Nat : /\ IsNewest(arrived[f], N) /\ Window(entry[f], arrived[f], N)
                          /\ Came(arrived[f], N, n, arrived'[f], M)
                          => Window(z, arrived'[f], M)
    BY <1>6, <1>7
  <2> QED BY <1>1, <1>2, <2>1, <2>2, ReceiveWindow
<1>8. CASE ~Complete(e)
  <2>1. PICK y : Awaited(e, y) /\ Puts(s.entry, State.entry, f, y)
    <3>1. s = Await(State, f, e, r, out, FALSE)
      BY DEF s
    <3> QED BY <1>3, <1>4, <3>1, AwaitReceived
  <2>2. entry' = [entry EXCEPT ![f] = y]
    BY <1>2, <1>8, <2>1, StateIs DEF Becomes, Puts
  <2>3. \A N, M \in Nat : /\ IsNewest(arrived[f], N) /\ Window(entry[f], arrived[f], N)
                          /\ Came(arrived[f], N, n, arrived'[f], M)
                          => Window(y, arrived'[f], M)
    BY <1>6, <1>8, <2>1
  <2> QED BY <1>1, <1>2, <2>2, <2>3, ReceiveWindow
<1> QED BY <1>7, <1>8

LEMMA WithinKeepsWindow ==
  ASSUME IInv, Near, NoCopies, WindowInv(entry, arrived), NEW f \in Flows, NEW n \in Frames,
         ReceiveWithin(f, n)
  PROVE  WindowInv(entry', arrived')
<1> DEFINE old == entry[f]
           q == Stored(old, n)
           e == [q EXCEPT !.last_seq = Later(q.last_seq, n % SnSpace)]
           s == Await(State, f, e, ring, <<>>, FALSE)
           t == IF e.rc_timer_id # 0 THEN Put(State, f, e, ring, <<>>) ELSE s
<1>1. TypeOK /\ old \in Entries /\ ring \in Rings
  BY DEF IInv, TypeOK
<1>2. /\ Becomes(t) /\ Arrives(f, n) /\ old.start_rcv
      /\ check_win_seqment(old, n % SnSpace) = 3
  BY DEF ReceiveWithin, InSegment
<1>3. q \in Entries /\ q.last_seq = old.last_seq
  BY <1>1, StoredType, StoredFields
<1>4. StoredIn(e, old, n, Later(old.last_seq, n % SnSpace))
  <2> DEFINE v == Later(q.last_seq, n % SnSpace)
  <2>1. StoredIn([Stored(old, n) EXCEPT !.last_seq = v], old, n, v)
    <3> HIDE DEF v
    <3> QED BY <1>1, StoredInIs
  <2> QED BY <1>3, <2>1
<1>5. e \in Entries
  <2> HIDE DEF q
  <2>1. q.last_seq \in 0 .. SnSpace - 1
    BY <1>3 DEF Entries
  <2>2. Later(q.last_seq, n % SnSpace) \in 0 .. SnSpace - 1
    BY <2>1, FrameFacts, LaterType
  <2> QED BY <1>3, <2>2, SeqSet
<1> HIDE DEF e, q
<1>6. \A N, M \in Nat : /\ IsNewest(arrived[f], N) /\ Window(old, arrived[f], N)
                        /\ Came(arrived[f], N, n, arrived'[f], M)
        => \E b, l \in Int : b <= l /\ Spans(e, b, l, arrived'[f], M)
  BY <1>1, <1>2, <1>4, WithinWindow
<1> HIDE DEF s
<1>7. CASE e.rc_timer_id # 0
  <2>1. entry' = [entry EXCEPT ![f] = e]
    BY <1>2, <1>7 DEF Becomes, Put, State
  <2>2. ASSUME NEW N \in Nat, NEW M \in Nat, IsNewest(arrived[f], N),
               Window(entry[f], arrived[f], N), Came(arrived[f], N, n, arrived'[f], M)
        PROVE  Window(e, arrived'[f], M)
    <3>1. PICK b \in Int, l \in Int : b <= l /\ Spans(e, b, l, arrived'[f], M)
      BY <1>6, <2>2
    <3> QED BY <1>7, <3>1 DEF Window, Spans
  <2> QED BY <1>1, <1>2, <2>1, <2>2, ReceiveWindow
<1>8. CASE e.rc_timer_id = 0
  <2>1. PICK y : Awaited(e, y) /\ Puts(s.entry, State.entry, f, y)
    <3>1. s = Await(State, f, e, ring, <<>>, FALSE)
      BY DEF s
    <3> QED BY <1>1, <1>5, <3>1, AwaitReceived
  <2>2. entry' = [entry EXCEPT ![f] = y]
    BY <1>2, <1>8, <2>1, StateIs DEF Becomes, Puts
  <2>3. \A N, M \in Nat : /\ IsNewest(arrived[f], N) /\ Window(entry[f], arrived[f], N)
                          /\ Came(arrived[f], N, n, arrived'[f], M)
                          => Window(y, arrived'[f], M)
    BY <1>5, <1>6, <2>1, AwaitWindow
  <2> QED BY <1>1, <1>2, <2>2, <2>3, ReceiveWindow
<1> QED BY <1>7, <1>8

LEMMA BeyondKeepsWindow ==
  ASSUME IInv, Near, NoCopies, WindowInv(entry, arrived), NEW f \in Flows, NEW n \in Frames,
         ReceiveBeyond(f, n)
  PROVE  WindowInv(entry', arrived')
<1> DEFINE old == entry[f]
           seq == n % SnSpace
           k == Shift(old, seq)
           a == Advanced(old, old.win_start, k)
           e == [Stored(a, n) EXCEPT !.last_seq = seq]
           r == Forgotten(ring, old.rc_timer_id)
           out == Queued(old, old.win_start, k)
           s == Await(State, f, e, r, out, FALSE)
<1>1. TypeOK /\ old \in Entries /\ ring \in Rings /\ old.rc_timer_id \in 0 .. RingSize
  BY DEF IInv, TypeOK, Entries
<1>2. /\ Becomes(s) /\ Arrives(f, n) /\ old.start_rcv
      /\ check_win_seqment(old, n % SnSpace) = 4
  BY DEF ReceiveBeyond, InSegment
<1>3. r \in Rings
  BY <1>1, ForgottenType
<1> HIDE DEF r, out
<1>4. old.win_start \in Numbers /\ seq \in Numbers
  BY <1>1, FrameFacts DEF Entries, Numbers
<1>5. k \in Int /\ old.win_start \in Int
  <2>1. SN_DIFF(seq, old.win_start) \in WinSz .. Half - 1
    <3> HIDE DEF old
    <3>1. check_win_seqment(old, seq) = 4
      BY <1>2
    <3> HIDE DEF seq
    <3> QED BY <1>4, <3>1, Segments
  <2>2. SN_DIFF(seq, old.win_start) >= WinSz /\ SN_DIFF(seq, old.win_start) \in Nat
    BY <2>1, HalfIs
  <2> HIDE DEF old, seq
  <2>3. k \in 0 .. SN_DIFF(seq, old.win_start)
    BY <1>4, <2>2, ShiftIs
  <2> HIDE DEF k
  <2> QED BY <1>4, <2>2, <2>3, ReorderAssumption DEF Numbers
<1>6. a \in Entries
  <2> HIDE DEF k
  <2> QED BY <1>1, <1>5, AdvancedType
<1>7. StoredIn(e, a, n, seq)
  <2> HIDE DEF a, seq
  <2> QED BY <1>6, StoredInIs
<1>8. e \in Entries
  <2> HIDE DEF a
  <2>1. Stored(a, n) \in Entries
    BY <1>6, StoredType
  <2> HIDE DEF seq
  <2> QED BY <1>4, <2>1, SeqSet DEF Numbers
<1> HIDE DEF e
<1>9. \A N, M \in Nat : /\ IsNewest(arrived[f], N) /\ Window(old, arrived[f], N)
                        /\ Came(arrived[f], N, n, arrived'[f], M)
        => \E b, l \in Int : b <= l /\ Spans(e, b, l, arrived'[f], M)
  BY <1>1, <1>2, <1>7, BeyondWindow
<1> HIDE DEF s
<1>10. PICK y : Awaited(e, y) /\ Puts(s.entry, State.entry, f, y)
  <2> DEFINE z == State
  <2>1. s = Await(z, f, e, r, out, FALSE)
    BY DEF s
  <2> HIDE DEF z
  <2>2. \E y : Awaited(e, y) /\ Puts(s.entry, z.entry, f, y)
    BY <1>3, <1>8, <2>1, AwaitReceived
  <2> QED BY <2>2 DEF z
<1>11. entry' = [entry EXCEPT ![f] = y]
  BY <1>2, <1>10, StateIs DEF Becomes, Puts
<1>12. \A N, M \in Nat : /\ IsNewest(arrived[f], N) /\ Window(entry[f], arrived[f], N)
                         /\ Came(arrived[f], N, n, arrived'[f], M)
                         => Window(y, arrived'[f], M)
  BY <1>8, <1>9, <1>10, AwaitWindow
<1> QED BY <1>1, <1>2, <1>11, <1>12, ReceiveWindow


\* What giving up one missing frame leaves.
LEMMA GiveUpEntry ==
  ASSUME NEW s, NEW f \in Flows, NEW r \in Rings, NEW x, x = GivenUp(s.entry[f]), x \in Entries,
         NEW t, t = GiveUp(s, f, r)
  PROVE  \E y : /\ IF Complete(x) THEN y = Ended(x) ELSE Awaited(x, y)
                /\ Puts(t.entry, s.entry, f, y)
<1> DEFINE old == s.entry[f]
           first == FirstGivenUp(old)
           out == Queued(old, first, RunLength(old, first))
           z == Await(s, f, x, r, out, TRUE)
           w == IF Complete(x) THEN Put(s, f, Ended(x), r, out) ELSE z
<1>1. t = w
  BY DEF GiveUp, GivenUp, FirstGivenUp, Ended, Closed
<1> HIDE DEF out
<1>2. CASE Complete(x)
  <2> DEFINE y == Ended(x)
  <2>1. t = Put(s, f, y, r, out)
    BY <1>1, <1>2
  <2> HIDE DEF y
  <2>2. Puts(t.entry, s.entry, f, y)
    BY <2>1 DEF Put, Puts
  <2> QED BY <1>2, <2>2 DEF y
<1>3. CASE ~Complete(x)
  <2>1. t = Await(s, f, x, r, out, TRUE)
    BY <1>1, <1>3
  <2>2. \E y : Awaited(x, y) /\ Puts(t.entry, s.entry, f, y)
    BY <2>1, AwaitExpired
  <2> QED BY <1>3, <2>2
<1> QED BY <1>2, <1>3

LEMMA GiveUpKeepsWindow ==
  ASSUME Near, NEW s, s.entry \in [Flows -> Entries], NEW arr, WindowInv(s.entry, arr),
         NEW f \in Flows, NEW r \in Rings, NEW t, t = GiveUp(s, f, r)
  PROVE  WindowInv(t.entry, arr)
<1> DEFINE e == s.entry[f]
           x == GivenUp(e)
           A == arr[f]
<1>1. e \in Entries
  OBVIOUS
<1>2. PICK N \in Nat : IsNewest(A, N) /\ Window(e, A, N)
  BY DEF WindowInv, WindowOf
<1> HIDE DEF A
<1>3. x \in Entries /\ (Waits(e, A, N) => \E b, l \in Int : Spans(x, b, l, A, N))
  <2> HIDE DEF e
  <2>1. CASE Waits(e, A, N)
    BY <1>1, <2>1, GiveUpWindow
  <2>2. CASE ~Waits(e, A, N)
    BY <1>1, <1>2, <2>2, IdleWindow, IdleGivenUp
  <2> QED BY <2>1, <2>2
<1>4. PICK y : /\ IF Complete(x) THEN y = Ended(x) ELSE Awaited(x, y)
               /\ Puts(t.entry, s.entry, f, y)
  <2>1. x = GivenUp(s.entry[f])
    OBVIOUS
  <2> HIDE DEF x
  <2> QED BY <1>3, <2>1, GiveUpEntry
<1>5. Window(y, A, N)
  <2>1. CASE Waits(e, A, N)
    <3> HIDE DEF x, e
    <3>1. PICK b \in Int, l \in Int : Spans(x, b, l, A, N)
      BY <1>3, <2>1
    <3> QED BY <1>3, <1>4, <3>1, WindowFollows
  <2>2. CASE ~Waits(e, A, N)
    <3> HIDE DEF e
    <3>1. Shut(y)
      BY <1>1, <1>2, <1>4, <2>2, IdleShuts
    <3> QED BY <3>1 DEF Shut, Window
  <2> QED BY <2>1, <2>2
<1> HIDE DEF x
<1>6. t.entry = [s.entry EXCEPT ![f] = y]
  BY <1>4 DEF Puts
<1>7. IsNewest(arr[f], N) /\ Window(y, arr[f], N)
  BY <1>2, <1>5 DEF A
<1>8. WindowInv([s.entry EXCEPT ![f] = y], arr)
  BY <1>7, OneWindow
<1> QED BY <1>6, <1>8

LEMMA ExpireKeepsWindow ==
  ASSUME Near, NEW s, NEW h \in Slots, WalkInv(s, h), NEW arr, WindowInv(s.entry, arr)
  PROVE  WindowInv(ExpireSlot(s, h).entry, arr)
<1> DEFINE r == s.ring
           f == r.slot[r.tail].flow
           left == r.slot[r.tail].left
           p == Passed(r)
           a == GiveUp(s, f, p)
           t == ExpireSlot(s, h)
<1>1. s.entry \in [Flows -> Entries] /\ r \in Rings /\ Matches(s.entry, r)
  BY DEF WalkInv, CoreType
<1>2. r.tail \in Slots /\ f \in Flows \cup {NoFlow}
  BY <1>1, RingType
<1>3. CASE s.stop \/ r.tail = h \/ f = NoFlow \/ left > 0
  <2>1. t.entry = s.entry
    BY <1>3 DEF ExpireSlot
  <2> QED BY <2>1
<1>4. CASE ~s.stop /\ r.tail # h /\ f # NoFlow /\ ~(left > 0)
  <2>1. t.entry = a.entry
    BY <1>4 DEF ExpireSlot
  <2>2. p \in Rings
    <3> HIDE DEF r
    <3> QED BY <1>1, PassedIs
  <2>3. f \in Flows
    BY <1>2, <1>4
  <2> HIDE DEF f, p
  <2>5. a = GiveUp(s, f, p)
    OBVIOUS
  <2> HIDE DEF a
  <2>6. WindowInv(a.entry, arr)
    BY <1>1, <2>2, <2>3, <2>5, GiveUpKeepsWindow
  <2> QED BY <2>1, <2>6
<1> QED BY <1>3, <1>4

LEMMA WalkKeepsWindow ==
  ASSUME Near, NEW s, NEW h \in Slots, WalkInv(s, h), NEW arr, WindowInv(s.entry, arr)
  PROVE  WindowInv(Walked(s, h).entry, arr)
<1>1. PICK p : /\ p[0] = s
               /\ \A i \in 1 .. RingSize : p[i] = ExpireSlot(p[i - 1], h)
               /\ Walked(s, h) = p[RingSize]
  BY WalkIs
<1> DEFINE Good == {i \in Nat : i <= RingSize => WalkInv(p[i], h) /\ WindowInv(p[i].entry, arr)}
<1>2. RingSize \in Nat \ {0}
  BY ReorderAssumption
<1>3. 0 \in Good
  BY <1>1
<1>4. ASSUME NEW i \in Nat, i \in Good PROVE i + 1 \in Good
  <2>1. SUFFICES ASSUME i + 1 <= RingSize
                 PROVE  WalkInv(p[i + 1], h) /\ WindowInv(p[i + 1].entry, arr)
    OBVIOUS
  <2>2. i + 1 \in 1 .. RingSize /\ (i + 1) - 1 = i /\ i <= RingSize
    BY <1>2, <2>1
  <2>3. p[i + 1] = ExpireSlot(p[i], h)
    BY <1>1, <2>2
  <2>4. WalkInv(p[i], h) /\ WindowInv(p[i].entry, arr)
    BY <1>4, <2>2
  <2> QED BY <2>3, <2>4, ExpireKeeps, ExpireKeepsWindow
<1>5. \A i \in Nat : i \in Good
  <2> HIDE DEF Good
  <2> QED BY <1>3, <1>4, SetInduction
<1>6. WindowInv(p[RingSize].entry, arr)
  BY <1>2, <1>5
<1> QED BY <1>1, <1>6

LEMMA TimeoutKeepsWindow ==
  ASSUME IInv, Near, WindowInv(entry, arrived), reorder_ctrl_timeout
  PROVE  WindowInv(entry', arrived')
<1> DEFINE off == [ring EXCEPT !.sys = Off]
           begin == [entry |-> entry, ring |-> off, up |-> up, stop |-> FALSE]
           h == ring.head
           end == Walked(begin, h)
<1>1. entry \in [Flows -> Entries] /\ ring \in Rings /\ up \in [Flows -> Seq(Frames)]
      /\ Matches(entry, ring)
  BY DEF IInv, TypeOK
<1>2. entry' = end.entry /\ arrived' = arrived
  BY DEF reorder_ctrl_timeout
<1>3. h \in Slots /\ ring.tail \in Slots
  BY <1>1, RingType
<1>4. off \in Rings /\ Matches(entry, off) /\ Walking(off, h)
  <2>1. Off \in Off .. Timeout
    BY ReorderAssumption DEF Off
  <2>2. CIRC_CNT(h, h) = 0 /\ CIRC_CNT(h, ring.tail) \in Nat
    BY <1>3, CountIs
  <2>3. \A j \in Slots : CIRC_CNT(j, h) \in Nat
    BY <1>3, CountIs
  <2>4. Walking(ring, h)
    BY <2>2, <2>3 DEF Walking
  <2> HIDE DEF h
  <2> QED BY <1>1, <2>1, <2>4, SysSet
<1>5. WalkInv(begin, h) /\ begin.entry = entry
  <2> HIDE DEF off, h
  <2> QED BY <1>1, <1>4 DEF WalkInv, CoreType
<1> HIDE DEF begin, off, h
<1>6. WindowInv(begin.entry, arrived)
  BY <1>5
<1>7. WindowInv(end.entry, arrived)
  BY <1>3, <1>5, <1>6, WalkKeepsWindow
<1> QED BY <1>2, <1>7


LEMMA ReleasedKeepsWindow ==
  ASSUME WindowInv(entry, arrived), NEW F \in SUBSET Flows, Released(F)
  PROVE  WindowInv(entry', arrived')
<1>1. arrived' = arrived /\ \A f \in Flows : entry'[f] = IF f \in F THEN NewEntry ELSE entry[f]
  BY DEF Released
<1>2. HoldsNone(NewEntry) /\ NewEntry.start_rcv = FALSE /\ NewEntry.rc_timer_id = 0
  BY DEF NewEntry, HoldsNone
<1>3. \A A, N : Window(NewEntry, A, N)
  BY <1>2 DEF Window
<1>4. ASSUME NEW f \in Flows PROVE WindowOf(entry'[f], arrived'[f])
  <2>1. PICK N \in Nat : IsNewest(arrived[f], N) /\ Window(entry[f], arrived[f], N)
    BY DEF WindowInv, WindowOf
  <2>2. IsNewest(arrived'[f], N) /\ Window(entry'[f], arrived'[f], N)
    BY <1>1, <1>3, <2>1
  <2> QED BY <2>2 DEF WindowOf
<1> QED BY <1>4 DEF WindowInv

LEMMA FlushKeepsWindow ==
  ASSUME TypeOK, WindowInv(entry, arrived), NEW f \in Flows, IdleFlush(f)
  PROVE  WindowInv(entry', arrived')
<1> DEFINE none == [i \in 0 .. WinSz - 1 |-> NoFrame]
           off == FALSE
           a == [entry[f] EXCEPT !.start_rcv = off]
           e == [a EXCEPT !.packet_q = none]
<1>1. entry \in [Flows -> Entries] /\ arrived' = arrived
  BY DEF TypeOK, IdleFlush
<1>2. entry' = [entry EXCEPT ![f] = e]
  BY <1>1 DEF IdleFlush
<1>3. /\ off = FALSE
      /\ \A i \in 0 .. WinSz - 1 : none[i] = NoFrame
  OBVIOUS
<1>4. e.packet_q = none /\ e.start_rcv = off
  <2> HIDE DEF none, off
  <2>1. a.start_rcv = off
        /\ DOMAIN a = {"packet_q", "start_rcv", "rc_timer_id", "win_start", "last_seq"}
    BY <1>1 DEF Entries
  <2> HIDE DEF a
  <2> QED BY <2>1
<1> HIDE DEF none, off, a, e
<1>5. HoldsNone(e)
  BY <1>3, <1>4 DEF HoldsNone
<1>6. PICK N \in Nat : IsNewest(arrived[f], N)
  BY DEF WindowInv, WindowOf
<1>7. Window(e, arrived[f], N)
  BY <1>3, <1>4, <1>5 DEF Window
<1>8. WindowInv([entry EXCEPT ![f] = e], arrived)
  BY <1>1, <1>6, <1>7, OneWindow
<1> QED BY <1>1, <1>2, <1>8

\* The inductive invariant: timers match, and what a flow holds lies in its
\* window.
WInv == IInv /\ WindowInv(entry, arrived)

LEMMA WInvInit == Init => WInv
<1> SUFFICES ASSUME Init PROVE WindowInv(entry, arrived)
  BY IInvInit DEF WInv
<1> SUFFICES ASSUME NEW f \in Flows PROVE WindowOf(entry[f], arrived[f])
  BY DEF WindowInv
<1>1. entry[f] = NewEntry /\ arrived[f] = {}
  BY DEF Init
<1>2. HoldsNone(NewEntry) /\ NewEntry.start_rcv = FALSE /\ NewEntry.rc_timer_id = 0
  BY DEF NewEntry, HoldsNone
<1>3. Window(entry[f], arrived[f], 0)
  BY <1>1, <1>2 DEF Window
<1>4. IsNewest(arrived[f], 0)
  BY <1>1 DEF IsNewest
<1> QED BY <1>3, <1>4 DEF WindowOf

LEMMA WInvStep ==
  ASSUME Near, NoCopies, WInv, [Next]_vars
  PROVE  WInv'
<1>1. IInv /\ TypeOK /\ WindowInv(entry, arrived)
  BY DEF WInv, IInv
<1>2. IInv'
  BY <1>1, IInvStep
<1>3. CASE entry' = entry /\ arrived' = arrived
  BY <1>1, <1>2, <1>3 DEF WInv, WindowInv
<1>4. ASSUME Receive PROVE WindowInv(entry', arrived')
  <2>1. PICK f \in Flows, n \in Frames :
          \/ ReceivePlain(f, n) \/ ReceiveFirst(f, n) \/ ReceiveBehind(f, n)
          \/ ReceiveNext(f, n) \/ ReceiveWithin(f, n) \/ ReceiveAgain(f, n)
          \/ ReceiveBeyond(f, n)
    BY <1>4 DEF Receive
  <2>2. CASE ReceivePlain(f, n)
    BY <1>1, <2>2, UnchangedWindow DEF ReceivePlain
  <2>3. CASE ReceiveBehind(f, n)
    BY <1>1, <2>3, UnchangedWindow DEF ReceiveBehind, InSegment
  <2>4. CASE ReceiveAgain(f, n)
    BY <1>1, <2>4, UnchangedWindow DEF ReceiveAgain, InSegment
  <2>5. CASE ReceiveFirst(f, n)
    BY <1>1, <2>5, FirstKeepsWindow
  <2>6. CASE ReceiveNext(f, n)
    BY <1>1, <2>6, NextKeepsWindow
  <2>7. CASE ReceiveWithin(f, n)
    BY <1>1, <2>7, WithinKeepsWindow
  <2>8. CASE ReceiveBeyond(f, n)
    BY <1>1, <2>8, BeyondKeepsWindow
  <2> QED BY <2>1, <2>2, <2>3, <2>4, <2>5, <2>6, <2>7, <2>8
<1>5. ASSUME reorder_ctrl_timeout PROVE WindowInv(entry', arrived')
  BY <1>1, <1>5, TimeoutKeepsWindow
<1>6. ASSUME NEW f \in Flows, Release(f) \/ IdleFlush(f) PROVE WindowInv(entry', arrived')
  <2>1. {f} \in SUBSET Flows
    OBVIOUS
  <2>2. CASE Release(f)
    BY <1>1, <2>1, <2>2, ReleasedKeepsWindow DEF Release
  <2>3. CASE IdleFlush(f)
    BY <1>1, <2>3, FlushKeepsWindow
  <2> QED BY <1>6, <2>2, <2>3
<1>7. ASSUME Restart PROVE WindowInv(entry', arrived')
  <2>1. Flows \in SUBSET Flows
    OBVIOUS
  <2> QED BY <1>1, <1>7, <2>1, ReleasedKeepsWindow DEF Restart
<1>8. CASE Tick \/ UNCHANGED vars
  BY <1>3, <1>8 DEF Tick, vars
<1> QED BY <1>2, <1>4, <1>5, <1>6, <1>7, <1>8 DEF Next, WInv

\* A flow that holds frames always has a timeout under way, at the slot of
\* the ring it names, so that no held frame is forgotten (reorder_ctrl_check,
\* reorder_ctrl_timeout).  Of the constants: no copy of a frame gets past the
\* tuple cache, or a flow can hold a frame and not wait; and frames stay
\* within a quarter of the sequence numbers of the newest one (1024, where a
\* block ack window is 64), or WindowInv does not hold.
THEOREM HoldersAlwaysWait ==
  ASSUME Near, NoCopies
  PROVE  Spec => []TimeoutHeld
<1>1. WInv => TimeoutHeld
  <2> SUFFICES ASSUME WInv PROVE TimeoutHeld
    OBVIOUS
  <2>1. IInv /\ WindowInv(entry, arrived) /\ Matches(entry, ring) /\ DOMAIN ring.slot = Slots
    BY RingType DEF WInv, IInv, TypeOK
  <2>2. TimersMatch
    BY <2>1 DEF TimersMatch, Matches, HasSlot, NamesOwner, Used, InRing
  <2>3. ASSUME NEW f \in Flows, Held(f) # {} PROVE entry[f].rc_timer_id # 0
    <3>1. PICK N \in Nat : Window(entry[f], arrived[f], N)
      BY <2>1 DEF WindowInv, WindowOf
    <3>2. ~HoldsNone(entry[f])
      BY <2>3 DEF Held, HoldsNone
    <3> QED BY <3>1, <3>2 DEF Window
  <2> QED BY <2>2, <2>3 DEF TimeoutHeld
<1>2. WInv /\ [Next]_vars => WInv'
  BY WInvStep
<1> QED BY <1>1, <1>2, WInvInit, PTL DEF Spec

-----------------------------------------------------------------------------
(* The refinement of InOrderDelivery.  What goes up, as a set and in order.*)

Elements(out) == Abstract!Elements(out)

\* out is the set S in order.
Goes(out, S) ==
  out \in Seq(Nat) /\ Abstract!Increasing(out) /\ Elements(out) = S

LEMMA GoesNothing == Goes(<<>>, {})
BY DEF Goes, Elements, Abstract!Increasing, Abstract!Elements

LEMMA GoesOne ==
  ASSUME NEW n \in Nat
  PROVE  Goes(<<n>>, {n})
<1>1. <<n>> \in Seq(Nat) /\ Len(<<n>>) = 1 /\ DOMAIN <<n>> = {1} /\ <<n>>[1] = n
  OBVIOUS
<1>2. Abstract!Increasing(<<n>>)
  BY <1>1 DEF Abstract!Increasing
<1>3. Elements(<<n>>) = {n}
  BY <1>1 DEF Elements, Abstract!Elements
<1> QED BY <1>1, <1>2, <1>3 DEF Goes

LEMMA GoesConcat ==
  ASSUME NEW u, NEW v, NEW S, NEW T, Goes(u, S), Goes(v, T), \A p \in S, q \in T : p < q
  PROVE  Goes(u \o v, S \cup T)
<1> DEFINE w == u \o v
           m == Len(u)
           k == Len(v)
<1>1. /\ u \in Seq(Nat) /\ v \in Seq(Nat) /\ m \in Nat /\ k \in Nat
      /\ DOMAIN u = 1 .. m /\ DOMAIN v = 1 .. k
      /\ \A i \in 1 .. m - 1 : u[i] < u[i + 1]
      /\ \A i \in 1 .. k - 1 : v[i] < v[i + 1]
  BY DEF Goes, Abstract!Increasing
<1>2. /\ w \in Seq(Nat) /\ Len(w) = m + k /\ DOMAIN w = 1 .. m + k
      /\ \A i \in 1 .. m : w[i] = u[i]
      /\ \A i \in 1 .. k : w[i + m] = v[i]
  BY <1>1
<1> HIDE DEF w, m, k
<1>3. \A i \in 1 .. m : u[i] \in S
  BY <1>1 DEF Goes, Elements, Abstract!Elements
<1>4. \A i \in 1 .. k : v[i] \in T
  BY <1>1 DEF Goes, Elements, Abstract!Elements
<1>5. ASSUME NEW i \in 1 .. Len(w) - 1 PROVE w[i] < w[i + 1]
  <2>1. CASE i < m
    BY <1>1, <1>2, <2>1
  <2>2. CASE i = m
    <3>1. m \in 1 .. m /\ 1 \in 1 .. k
      BY <1>1, <1>2, <2>2
    <3>2. w[m] = u[m] /\ w[1 + m] = v[1] /\ 1 + m = m + 1
      BY <1>1, <1>2, <3>1
    <3> QED BY <1>3, <1>4, <2>2, <3>1, <3>2
  <2>3. CASE i > m
    <3> DEFINE j == i - m
    <3>1. j \in 1 .. k - 1 /\ j + m = i /\ (j + 1) + m = i + 1 /\ j \in 1 .. k /\ j + 1 \in 1 .. k
      BY <1>1, <1>2, <2>3
    <3> HIDE DEF j
    <3>2. w[j + m] = v[j] /\ w[(j + 1) + m] = v[j + 1] /\ v[j] < v[j + 1]
      BY <1>1, <1>2, <3>1
    <3> QED BY <3>1, <3>2
  <2> QED BY <1>1, <1>2, <2>1, <2>2, <2>3
<1>6. Abstract!Increasing(w)
  BY <1>5 DEF Abstract!Increasing
<1>7. Elements(w) = S \cup T
  <2>1. S = {u[i] : i \in 1 .. m} /\ T = {v[i] : i \in 1 .. k}
    BY <1>1 DEF Goes, Elements, Abstract!Elements
  <2>2. Elements(w) = {w[i] : i \in 1 .. m + k}
    BY <1>2 DEF Elements, Abstract!Elements
  <2>3. \A x \in Elements(w) : x \in S \cup T
    <3> SUFFICES ASSUME NEW i \in 1 .. m + k PROVE w[i] \in S \cup T
      BY <2>2
    <3>1. CASE i <= m
      BY <1>1, <1>2, <1>3, <3>1
    <3>2. CASE i > m
      <4> DEFINE j == i - m
      <4>1. j \in 1 .. k /\ j + m = i
        BY <1>1, <3>2
      <4> HIDE DEF j
      <4> QED BY <1>2, <1>4, <4>1
    <3> QED BY <1>1, <3>1, <3>2
  <2>4. \A x \in S : x \in Elements(w)
    <3> SUFFICES ASSUME NEW i \in 1 .. m PROVE u[i] \in Elements(w)
      BY <2>1
    <3>1. i \in 1 .. m + k /\ w[i] = u[i]
      BY <1>1, <1>2
    <3> QED BY <2>2, <3>1
  <2>5. \A x \in T : x \in Elements(w)
    <3> SUFFICES ASSUME NEW i \in 1 .. k PROVE v[i] \in Elements(w)
      BY <2>1
    <3>1. i + m \in 1 .. m + k /\ w[i + m] = v[i]
      BY <1>1, <1>2
    <3> QED BY <2>2, <3>1
  <2> QED BY <2>3, <2>4, <2>5
<1> QED BY <1>2, <1>6, <1>7 DEF Goes, w

LEMMA GoesAppend ==
  ASSUME NEW u, NEW S, Goes(u, S), NEW n \in Nat, \A p \in S : p < n
  PROVE  Goes(Append(u, n), S \cup {n})
<1>1. Goes(<<n>>, {n})
  BY GoesOne
<1>2. Goes(u \o <<n>>, S \cup {n})
  BY <1>1, GoesConcat
<1>3. Append(u, n) = u \o <<n>>
  BY DEF Goes
<1> QED BY <1>2, <1>3

\* How far the slot of a number lies from the one of win_start.
LEMMA SlotDistance ==
  ASSUME NEW b \in Int, NEW w \in Int, w = b % SnSpace, NEW p \in Int, b <= p, p < b + WinSz,
         NEW i \in Int, i = p % WinSz, NEW c \in {0, 1}, c = 1 => p # b
  PROVE  (i - (w + c)) % WinSz = p - (b + c)
<1>1. WinSz \in Nat \ {0} /\ SnSpace \in Nat \ {0} /\ c \in Int
  BY ReorderAssumption
<1>2. w \in Int /\ i \in Int
  BY <1>1, ModIn
<1> DEFINE j == i - c
           u == -(b + c)
           d == p - (b + c)
<1>3. j \in Int /\ i - (w + c) = j - w /\ u \in Int
  BY <1>1, <1>2
<1>4. j - b = i + u /\ p + u = d
  BY <1>1, <1>2
<1>5. d \in 0 .. WinSz - 1
  BY <1>1
<1> HIDE DEF j, u, d
<1>6. (j - w) % WinSz = (j - b) % WinSz
  BY <1>3, SlotNumber
<1>7. (i + u) % WinSz = (p + u) % WinSz
  BY <1>1, <1>3, ModAdd
<1>8. d % WinSz = d
  <2> \A z \in 0 .. WinSz - 1 : z % WinSz = z
    BY <1>1
  <2> QED BY <1>5
<1>9. (j - w) % WinSz = d
  BY <1>4, <1>6, <1>7, <1>8
<1> QED BY <1>3, <1>9 DEF d

\* The frames an entry holds.
HeldBy(e) == {e.packet_q[i] : i \in 0 .. WinSz - 1} \ {NoFrame}

LEMMA HeldByIs ==
  ASSUME NEW e \in Entries, NEW b \in Int, NEW l \in Int, NEW A, NEW N, InWindow(e, b, l, A, N)
  PROVE  /\ \A p \in HeldBy(e) : p \in Nat /\ b <= p /\ p < b + WinSz /\ p <= l
                                 /\ At(e, p) # NoFrame
         /\ \A p \in b .. b + WinSz - 1 : At(e, p) # NoFrame => At(e, p) = p /\ p \in HeldBy(e)
<1>1. WinSz \in Nat \ {0}
  BY ReorderAssumption
<1>2. ASSUME NEW p \in HeldBy(e)
      PROVE  p \in Nat /\ b <= p /\ p < b + WinSz /\ p <= l /\ At(e, p) # NoFrame
  <2>1. PICK i \in 0 .. WinSz - 1 : p = e.packet_q[i] /\ p # NoFrame
    BY DEF HeldBy
  <2>2. Fits(p, i, b, l, A, N)
    BY <2>1 DEF InWindow
  <2>3. p \in Nat
    BY <2>1, ReorderAssumption DEF Entries
  <2>4. At(e, p) = p
    BY <2>1, <2>2 DEF Fits, At
  <2> QED BY <2>1, <2>2, <2>3, <2>4 DEF Fits
<1>3. ASSUME NEW p \in b .. b + WinSz - 1, At(e, p) # NoFrame
      PROVE  At(e, p) = p /\ p \in HeldBy(e)
  <2>1. At(e, p) = p
    BY <1>3, SlotIs
  <2>2. p % WinSz \in 0 .. WinSz - 1
    BY <1>1, ModIn
  <2>3. At(e, p) = e.packet_q[p % WinSz]
    BY DEF At
  <2> DEFINE i == p % WinSz
  <2> HIDE DEF i
  <2>4. i \in 0 .. WinSz - 1 /\ e.packet_q[i] = p /\ p # NoFrame
    BY <1>3, <2>1, <2>2, <2>3 DEF i
  <2> QED BY <2>1, <2>4 DEF HeldBy
<1> QED BY <1>2, <1>3

\* What Queued returns.
LEMMA QueuedGoes ==
  ASSUME NEW e \in Entries, NEW b \in Int, NEW l \in Int, NEW A, NEW N,
         InWindow(e, b, l, A, N), e.win_start = b % SnSpace, NEW c \in {0, 1},
         c = 1 => At(e, b) = NoFrame, NEW k \in Nat
  PROVE  Goes(Queued(e, e.win_start + c, k), {q \in HeldBy(e) : q < b + c + k})
<1> DEFINE w == e.win_start
           n == w + c
           H == HeldBy(e)
           Upto(i) == {q \in H : q < b + c + i}
<1>1. PICK p : /\ p[0] = <<>>
               /\ \A i \in 1 .. WinSz :
                    p[i] = IF At(e, n + i - 1) = NoFrame THEN p[i - 1]
                           ELSE Append(p[i - 1], At(e, n + i - 1))
               /\ Queued(e, n, k) = p[IF k < WinSz THEN k ELSE WinSz]
  BY QueuedIs
<1>2. WinSz \in Nat \ {0} /\ w \in Int /\ c \in Int /\ c <= 1
  BY ReorderAssumption DEF Entries
<1>3. \A j \in Int : At(e, w + j) = At(e, b + j)
  BY AtNumber
<1>4. /\ \A q \in H : q \in Nat /\ b <= q /\ q < b + WinSz /\ At(e, q) # NoFrame
      /\ \A q \in b .. b + WinSz - 1 : At(e, q) # NoFrame => At(e, q) = q /\ q \in H
  BY HeldByIs
<1> HIDE DEF H
<1>5. ASSUME NEW i \in 0 .. WinSz - 1
      PROVE  /\ At(e, n + (i + 1) - 1) = NoFrame => Upto(i + 1) = Upto(i)
             /\ At(e, n + (i + 1) - 1) # NoFrame
                  => LET x == At(e, n + (i + 1) - 1)
                     IN  x \in Nat /\ Upto(i + 1) = Upto(i) \cup {x} /\ \A q \in Upto(i) : q < x
  <2> DEFINE x == b + (c + i)
  <2>1. n + (i + 1) - 1 = w + (c + i) /\ c + i \in Int /\ x \in Int
    BY <1>2
  <2>2. At(e, n + (i + 1) - 1) = At(e, x)
    BY <1>3, <2>1
  <2>3. x = b + c + i /\ b <= x /\ x <= b + WinSz /\ b + c + (i + 1) = x + 1
    BY <1>2
  <2> HIDE DEF x
  <2>4. CASE At(e, x) = NoFrame
    <3>1. \A q \in H : q # x
      BY <1>4, <2>4
    <3>2. \A q \in H : q < x + 1 <=> q < x
      BY <1>4, <2>1, <3>1
    <3> QED BY <2>2, <2>3, <2>4, <3>2
  <2>5. CASE At(e, x) # NoFrame
    <3>1. x # b + WinSz
      <4> SUFFICES ASSUME x = b + WinSz PROVE FALSE
        OBVIOUS
      <4>1. c = 1
        BY <1>2, <2>3
      <4>2. (b + WinSz) % WinSz = b % WinSz
        <5> DEFINE q == 1
        <5>1. q \in Int /\ q * WinSz = WinSz
          BY <1>2
        <5> HIDE DEF q
        <5>2. (b + q * WinSz) % WinSz = b % WinSz
          BY <1>2, <5>1, ModMultiple
        <5> QED BY <5>1, <5>2
      <4>3. At(e, x) = At(e, b)
        BY <4>2 DEF At
      <4> QED BY <2>5, <4>1, <4>3
    <3>2. x \in b .. b + WinSz - 1
      BY <1>2, <2>1, <2>3, <3>1
    <3>3. At(e, x) = x /\ x \in H /\ x \in Nat
      BY <1>4, <2>5, <3>2
    <3>4. \A q \in H : q < x + 1 <=> q < x \/ q = x
      BY <1>4, <2>1
    <3>5. Upto(i + 1) = Upto(i) \cup {x} /\ \A q \in Upto(i) : q < x
      BY <2>3, <3>3, <3>4
    <3> QED BY <2>2, <2>5, <3>3, <3>5
  <2> QED BY <2>4, <2>5
<1>6. Upto(0) = {}
  <2> SUFFICES ASSUME NEW q \in H, q < b + c + 0 PROVE FALSE
    OBVIOUS
  <2>1. c = 1 /\ q = b
    BY <1>2, <1>4
  <2> QED BY <1>4, <2>1
<1> DEFINE S == {i \in Nat : i <= WinSz => Goes(p[i], Upto(i))}
<1>7. 0 \in S
  BY <1>1, <1>6, GoesNothing
<1>8. ASSUME NEW i \in Nat, i \in S PROVE i + 1 \in S
  <2>1. SUFFICES ASSUME i + 1 <= WinSz PROVE Goes(p[i + 1], Upto(i + 1))
    OBVIOUS
  <2>2. i + 1 \in 1 .. WinSz /\ (i + 1) - 1 = i /\ i \in 0 .. WinSz - 1 /\ i <= WinSz
    BY <2>1, <1>2
  <2>3. Goes(p[i], Upto(i))
    BY <1>8, <2>2
  <2> DEFINE x == At(e, n + (i + 1) - 1)
  <2>4. p[i + 1] = IF x = NoFrame THEN p[i] ELSE Append(p[i], x)
    BY <1>1, <2>2
  <2>5. /\ x = NoFrame => Upto(i + 1) = Upto(i)
        /\ x # NoFrame => x \in Nat /\ Upto(i + 1) = Upto(i) \cup {x} /\ \A q \in Upto(i) : q < x
    BY <1>5, <2>2
  <2> HIDE DEF x, Upto
  <2>6. CASE x = NoFrame
    BY <2>3, <2>4, <2>5, <2>6
  <2>7. CASE x # NoFrame
    BY <2>3, <2>4, <2>5, <2>7, GoesAppend
  <2> QED BY <2>6, <2>7
<1>9. \A i \in Nat : i \in S
  <2> HIDE DEF S
  <2> QED BY <1>7, <1>8, SetInduction
<1> DEFINE j == IF k < WinSz THEN k ELSE WinSz
<1>10. j \in Nat /\ j <= WinSz /\ Upto(j) = Upto(k)
  <2>1. j \in Nat /\ j <= WinSz
    BY <1>2
  <2>2. \A q \in H : q < b + c + j <=> q < b + c + k
    BY <1>2, <1>4
  <2> QED BY <2>1, <2>2
<1>11. Goes(p[j], Upto(j))
  <2> HIDE DEF j, Upto
  <2> QED BY <1>9, <1>10
<1>12. Goes(Queued(e, n, k), Upto(k))
  <2> HIDE DEF Upto
  <2> QED BY <1>1, <1>10, <1>11
<1> QED BY <1>12 DEF H

\* What is left in the slots: of S what does not lie below d.
Keeps(x, S, d) == HeldBy(x) = {q \in S : q >= d}

LEMMA EmptiedHeld ==
  ASSUME NEW e \in Entries, NEW b \in Int, NEW l \in Int, NEW A, NEW N,
         InWindow(e, b, l, A, N), e.win_start = b % SnSpace, NEW c \in {0, 1},
         c = 1 => At(e, b) = NoFrame, NEW k \in Nat,
         NEW x, x.packet_q = Emptied(e, e.win_start + c, k).packet_q
  PROVE  Keeps(x, HeldBy(e), b + c + k)
<1> DEFINE w == e.win_start
           m == Emptied(e, w + c, k)
<1>1. WinSz \in Nat \ {0} /\ w \in Int /\ c \in Int
  BY ReorderAssumption DEF Entries
<1>2. \A i \in 0 .. WinSz - 1 :
        m.packet_q[i] = IF (i - (w + c)) % WinSz < k THEN NoFrame ELSE e.packet_q[i]
  BY DEF Emptied, Entries
<1>3. x.packet_q = m.packet_q
  OBVIOUS
<1> HIDE DEF m
<1>4. ASSUME NEW i \in 0 .. WinSz - 1, e.packet_q[i] # NoFrame
      PROVE  /\ e.packet_q[i] \in Int
             /\ (i - (w + c)) % WinSz = e.packet_q[i] - (b + c)
  <2>1. Fits(e.packet_q[i], i, b, l, A, N) /\ e.packet_q[i] \in Int
    BY <1>4, HeldInt DEF InWindow
  <2> DEFINE p == e.packet_q[i]
  <2> HIDE DEF p
  <2>2. p \in Int /\ p % WinSz = i /\ b <= p /\ p < b + WinSz
    BY <2>1 DEF Fits, p
  <2>3. c = 1 => p # b
    BY <1>4, <2>2 DEF At, p
  <2>4. w = b % SnSpace /\ i = p % WinSz /\ w \in Int /\ i \in Int
    BY <1>1, <2>2
  <2> HIDE DEF w
  <2>5. (i - (w + c)) % WinSz = p - (b + c)
    BY <2>2, <2>3, <2>4, SlotDistance
  <2> QED BY <2>2, <2>5 DEF p
<1>5. \A i \in 0 .. WinSz - 1 : e.packet_q[i] # NoFrame =>
        x.packet_q[i] = IF e.packet_q[i] >= b + c + k THEN e.packet_q[i] ELSE NoFrame
  <2> SUFFICES ASSUME NEW i \in 0 .. WinSz - 1, e.packet_q[i] # NoFrame
               PROVE  x.packet_q[i] = IF e.packet_q[i] >= b + c + k THEN e.packet_q[i] ELSE NoFrame
    OBVIOUS
  <2> DEFINE p == e.packet_q[i]
  <2>1. x.packet_q[i] = IF (i - (w + c)) % WinSz < k THEN NoFrame ELSE p
    BY <1>2, <1>3
  <2>2. p \in Int /\ (i - (w + c)) % WinSz = p - (b + c)
    BY <1>4
  <2> HIDE DEF p, w
  <2>3. x.packet_q[i] = IF p - (b + c) < k THEN NoFrame ELSE p
    BY <2>1, <2>2
  <2>4. p - (b + c) < k <=> ~(p >= b + c + k)
    BY <1>1, <2>2
  <2> QED BY <2>3, <2>4 DEF p
<1>6. \A i \in 0 .. WinSz - 1 : e.packet_q[i] = NoFrame => x.packet_q[i] = NoFrame
  BY <1>2, <1>3
<1> HIDE DEF w
<1>7. HeldBy(x) = {q \in HeldBy(e) : q >= b + c + k}
  BY <1>5, <1>6 DEF HeldBy
<1> QED BY <1>7 DEF Keeps

\* The number win_start stands for, given the frames of the flow that arrived.
NewestAt(A) == CHOOSE n \in A \cup {0} : \A m \in A : m <= n

BaseFrom(N, w) == N + 1 - SN_DIFF((N + 1) % SnSpace, w)

BaseOf(e, A) == IF ~e.start_rcv THEN 0 ELSE BaseFrom(NewestAt(A), e.win_start)

LEMMA NewestAtIs ==
  ASSUME NEW A, A \subseteq Nat, NEW N \in Nat, IsNewest(A, N)
  PROVE  NewestAt(A) = N
<1> DEFINE P(n) == n \in A \cup {0} /\ \A m \in A : m <= n
<1>1. NewestAt(A) = CHOOSE n : P(n)
  <2>1. NewestAt(A) = CHOOSE n \in A \cup {0} : \A m \in A : m <= n
    BY DEF NewestAt
  <2> QED BY <2>1
<1>2. P(N)
  BY DEF IsNewest
<1>3. P(CHOOSE n : P(n))
  <2> HIDE DEF P
  <2> QED BY <1>2
<1>4. \A n : P(n) => n = N
  BY DEF IsNewest
<1> QED BY <1>1, <1>3, <1>4

LEMMA BaseIs ==
  ASSUME Near, NEW A, A \subseteq Nat, NEW N \in Nat, IsNewest(A, N),
         NEW e, NEW b \in Int, NEW l \in Int, NEW B, Spans(e, b, l, B, N)
  PROVE  BaseOf(e, A) = b
<1> DEFINE j == N + 1
           d == j - b
<1>1. e.start_rcv /\ e.win_start = b % SnSpace
      /\ b - 1 <= l /\ l <= N /\ (j - b <= WinSz \/ j - b <= Reach)
  BY DEF Spans, Numbered
<1>2. j \in Int /\ d \in 0 .. SnSpace - 1 /\ SnSpace \in Nat \ {0}
  BY <1>1, NearIs
<1>3. BaseOf(e, A) = j - SN_DIFF(j % SnSpace, e.win_start)
  <2>1. NewestAt(A) = N
    BY NewestAtIs
  <2>2. BaseOf(e, A) = BaseFrom(N, e.win_start)
    BY <1>1, <2>1 DEF BaseOf
  <2> DEFINE v == SN_DIFF((N + 1) % SnSpace, e.win_start)
  <2>3. v \in Int
    <3>1. \A a, c \in Int : SN_DIFF(a, c) \in Int
      BY DiffIn
    <3>2. j % SnSpace \in Int /\ b % SnSpace \in Int
      BY <1>2, ModIn
    <3> QED BY <1>1, <3>1, <3>2
  <2>4. BaseFrom(N, e.win_start) = N + 1 - v
    BY DEF BaseFrom
  <2> HIDE DEF v
  <2>5. N + 1 - v = j - v
    BY <2>3
  <2>6. BaseFrom(N, e.win_start) = j - v
    BY <2>4, <2>5
  <2> QED BY <2>2, <2>6 DEF v
<1> HIDE DEF j
<1>4. SN_DIFF(j % SnSpace, b % SnSpace) = d % SnSpace
  BY <1>2, SnNumber
<1> HIDE DEF d
<1>5. d % SnSpace = d
  <2> \A z \in 0 .. SnSpace - 1 : z % SnSpace = z
    BY <1>2
  <2> QED BY <1>2
<1>6. BaseOf(e, A) = j - d
  BY <1>1, <1>3, <1>4, <1>5
<1>7. j - d = b
  BY <1>2 DEF d
<1> QED BY <1>6, <1>7

\* Of the frames S the flow has, out goes up, and x is the entry thereafter.
Delivers(b, x, A, S, out) ==
  /\ Abstract!Increasing(out)
  /\ Elements(out) \subseteq S
  /\ HeldBy(x) = S \ Elements(out)
  /\ \/ /\ x.start_rcv /\ b <= BaseOf(x, A)
        /\ \A n \in Elements(out) : n < BaseOf(x, A)
        /\ \A n \in HeldBy(x) : n >= BaseOf(x, A)
     \/ ~x.start_rcv /\ HeldBy(x) = {}

\* What goes up lies below d, what stays not.
Parted(S, d, x, out) ==
  Goes(out, {q \in S : q < d}) /\ HeldBy(x) = {q \in S : q >= d}

LEMMA OpenDelivers ==
  ASSUME Near, NEW A, A \subseteq Nat, NEW N \in Nat, IsNewest(A, N),
         NEW x, NEW d \in Int, NEW j \in Int, NEW B, Spans(x, d, j, B, N),
         NEW S, S \subseteq Nat, NEW out, Parted(S, d, x, out), NEW b \in Int, b <= d
  PROVE  Delivers(b, x, A, S, out)
<1>1. BaseOf(x, A) = d
  BY BaseIs
<1>2. x.start_rcv
  BY DEF Spans
<1>3. Abstract!Increasing(out) /\ Elements(out) = {q \in S : q < d}
      /\ HeldBy(x) = {q \in S : q >= d}
  BY DEF Parted, Goes
<1>4. HeldBy(x) = S \ Elements(out)
  <2>1. \A q \in S : q >= d <=> ~(q < d)
    <3> SUFFICES ASSUME NEW q \in S PROVE q >= d <=> ~(q < d)
      OBVIOUS
    <3> q \in Nat
      OBVIOUS
    <3> QED OBVIOUS
  <2> QED BY <1>3, <2>1
<1> QED BY <1>1, <1>2, <1>3, <1>4 DEF Delivers

LEMMA ShutDelivers ==
  ASSUME NEW A, NEW x, ~x.start_rcv, HeldBy(x) = {}, NEW S, NEW out, Goes(out, S), NEW b
  PROVE  Delivers(b, x, A, S, out)
BY DEF Delivers, Goes

Apart(e, b, l) ==
  l - b \in -Half .. Half - 1 /\ e.win_start = b % SnSpace /\ e.last_seq = l % SnSpace

LEMMA AwaitDelivers ==
  ASSUME Near, NEW A, A \subseteq Nat, NEW N \in Nat, IsNewest(A, N),
         NEW e \in Entries, NEW d \in Int, NEW j \in Int, Spans(e, d, j, A, N), d <= j,
         NEW S, S \subseteq Nat, NEW out, Parted(S, d, e, out), NEW b \in Int, b <= d,
         NEW s, NEW f \in Flows, s.entry \in [Flows -> Entries], s.up \in [Flows -> Seq(Frames)],
         NEW r, NEW from, NEW t, t = Await(s, f, e, r, out, from)
  PROVE  Delivers(b, t.entry[f], A, S, t.up[f])
<1>1. CASE ~Full(r)
  <2> DEFINE y == [e EXCEPT !.rc_timer_id = r.head + 1]
  <2>1. t.entry = [s.entry EXCEPT ![f] = y] /\ t.up = [s.up EXCEPT ![f] = out]
    BY <1>1 DEF Await, Put
  <2>2. /\ y.start_rcv = e.start_rcv /\ y.packet_q = e.packet_q
        /\ y.win_start = e.win_start /\ y.last_seq = e.last_seq
    BY NamedFields
  <2> HIDE DEF y
  <2>3. t.entry[f] = y /\ t.up[f] = out
    BY <2>1
  <2>4. Spans(y, d, j, A, N)
    BY <2>2 DEF Spans, Numbered, InWindow
  <2>5. Parted(S, d, y, out)
    BY <2>2 DEF Parted, HeldBy
  <2>6. Delivers(b, y, A, S, out)
    BY <2>4, <2>5, OpenDelivers
  <2> QED BY <2>3, <2>6
<1>2. CASE Full(r)
  <2> DEFINE k == SN_DIFF(e.last_seq, e.win_start) + 1
             v == Queued(e, e.win_start, k)
             y == Consumed(e)
  <2>1. t.entry = [s.entry EXCEPT ![f] = y] /\ t.up = [s.up EXCEPT ![f] = out \o v]
    BY <1>2 DEF Await, reorder_ctrl_consumeQ, Put, Consumed
  <2>2. t.entry[f] = y /\ t.up[f] = out \o v
    <3> HIDE DEF y, v
    <3> QED BY <2>1
  <2>3. Apart(e, d, j) /\ InWindow(e, d, j, A, N)
    BY SpanIs DEF Spans, Apart
  <2>4. k = j - d + 1 /\ k \in Nat
    <3>1. SN_DIFF(j % SnSpace, d % SnSpace) = j - d
      BY <2>3, LessIs DEF Apart
    <3> QED BY <2>3, <3>1 DEF Apart
  <2> DEFINE c == 0
  <2>5. c \in {0, 1} /\ c # 1 /\ d + c + k = j + 1 /\ e.win_start + c = e.win_start
    <3>1. e.win_start \in Int
      BY ReorderAssumption DEF Entries
    <3> HIDE DEF k
    <3> QED BY <2>4, <3>1
  <2>6. y.packet_q = Emptied(e, e.win_start + c, k).packet_q /\ y.start_rcv = FALSE
    <3>1. y.packet_q = Emptied(e, e.win_start, k).packet_q /\ y.start_rcv = FALSE
      BY ConsumedFields
    <3> HIDE DEF y, k, c
    <3> QED BY <2>5, <3>1
  <2> HIDE DEF c, k, y
  <2>7. Goes(Queued(e, e.win_start + c, k), {q \in HeldBy(e) : q < d + c + k})
    BY <2>3, <2>4, <2>5, QueuedGoes DEF Apart
  <2>8. HeldBy(y) = {q \in HeldBy(e) : q >= d + c + k}
    <3>1. Keeps(y, HeldBy(e), d + c + k)
      BY <2>3, <2>4, <2>5, <2>6, EmptiedHeld DEF Apart
    <3> QED BY <3>1 DEF Keeps
  <2>9. \A q \in HeldBy(e) : q \in Nat /\ q <= j
    BY <2>3, HeldByIs
  <2>10. {q \in HeldBy(e) : q < d + c + k} = HeldBy(e) /\ HeldBy(y) = {}
    BY <2>5, <2>8, <2>9
  <2>11. Goes(v, HeldBy(e))
    BY <2>5, <2>7, <2>10
  <2> HIDE DEF v
  <2>12. /\ Goes(out, {q \in S : q < d}) /\ HeldBy(e) = {q \in S : q >= d}
    BY DEF Parted
  <2>13. Goes(out \o v, {q \in S : q < d} \cup HeldBy(e))
    <3>1. \A p, q \in S : p < d /\ q >= d => p < q
      <4> SUFFICES ASSUME NEW p \in S, NEW q \in S, p < d, q >= d PROVE p < q
        OBVIOUS
      <4> p \in Nat /\ q \in Nat
        OBVIOUS
      <4> QED OBVIOUS
    <3>2. \A p \in {q \in S : q < d}, q \in HeldBy(e) : p < q
      BY <2>12, <3>1
    <3> HIDE DEF y
    <3> QED BY <2>11, <2>12, <3>2, GoesConcat
  <2>14. {q \in S : q < d} \cup HeldBy(e) = S
    <3>1. \A q \in S : q < d \/ q >= d
      <4> SUFFICES ASSUME NEW q \in S PROVE q < d \/ q >= d
        OBVIOUS
      <4> q \in Nat
        OBVIOUS
      <4> QED OBVIOUS
    <3>2. \A q : q \in HeldBy(e) <=> q \in S /\ q >= d
      BY <2>12, Zenon
    <3> QED BY <3>1, <3>2, Zenon
  <2>15. Goes(out \o v, S)
    BY <2>13, <2>14
  <2>16. Delivers(b, y, A, S, out \o v)
    BY <2>6, <2>10, <2>15, ShutDelivers
  <2> QED BY <2>2, <2>16
<1> QED BY <1>1, <1>2

-----------------------------------------------------------------------------
(* What a handler takes off a flow and what it leaves.                     *)

LEMMA StoredHeld ==
  ASSUME NEW e \in Entries, NEW n \in Frames, At(e, n) = NoFrame,
         NEW x, x.packet_q = Stored(e, n).packet_q
  PROVE  HeldBy(x) = HeldBy(e) \cup {n}
<1> DEFINE i == n % WinSz
           q == e.packet_q
<1>1. i \in 0 .. WinSz - 1 /\ n # NoFrame
  BY FrameFacts, ModIn, ReorderAssumption DEF NoFrame
<1>2. q \in [0 .. WinSz - 1 -> Frames \cup {NoFrame}] /\ q[i] = NoFrame
  BY DEF Entries, At
<1>3. x.packet_q = [q EXCEPT ![i] = n]
  BY StoredFields
<1> HIDE DEF i
<1>4. \A m \in 0 .. WinSz - 1 : x.packet_q[m] = IF m = i THEN n ELSE q[m]
  BY <1>2, <1>3
<1>5. HeldBy(e) = {q[m] : m \in 0 .. WinSz - 1} \ {NoFrame}
  BY DEF HeldBy
<1> HIDE DEF q
<1>6. \A y : y \in HeldBy(x) <=> \E m \in 0 .. WinSz - 1 : y = x.packet_q[m] /\ y # NoFrame
  BY DEF HeldBy
<1>7. \A y : y \in HeldBy(e) <=> \E m \in 0 .. WinSz - 1 : y = q[m] /\ y # NoFrame
  BY <1>5
<1>8. \A y : y \in HeldBy(x) => y \in HeldBy(e) \cup {n}
  BY <1>4, <1>6, <1>7
<1>9. n \in HeldBy(x)
  BY <1>1, <1>4, <1>6
<1>10. \A y \in HeldBy(e) : y \in HeldBy(x)
  <2> SUFFICES ASSUME NEW y \in HeldBy(e) PROVE y \in HeldBy(x)
    OBVIOUS
  <2>1. PICK m \in 0 .. WinSz - 1 : y = q[m] /\ y # NoFrame
    BY <1>7
  <2>2. x.packet_q[m] = y
    BY <1>2, <1>4, <2>1
  <2> QED BY <1>6, <2>1, <2>2
<1> QED BY <1>8, <1>9, <1>10

\* Of S all below d goes up; d is the base of what is left.
Splits(e, A, x, B, M, S, out, b, d, j) ==
  /\ BaseOf(e, A) = b /\ b <= d /\ Spans(x, d, j, B, M)
  /\ S \subseteq Nat /\ Parted(S, d, x, out)

LEMMA NextSplits ==
  ASSUME Near, NEW e \in Entries, NEW A, A \subseteq Nat, NEW N \in Nat, IsNewest(A, N),
         Window(e, A, N), e.start_rcv, NEW n \in Frames, NEW B, NEW M \in Nat,
         Came(A, N, n, B, M), check_win_seqment(e, n % SnSpace) = 2,
         NEW x, x = NextReceived(e, n),
         NEW out, out = <<n>> \o Queued(e, e.win_start + 1, RunLength(e, e.win_start + 1))
  PROVE  \E b, d, j \in Int : Splits(e, A, x, B, M, HeldBy(e) \cup {n}, out, b, d, j) /\ b <= n
<1> DEFINE H == HeldBy(e)
           w == e.win_start
<1>1. PICK b \in Int, l \in Int, d \in Int, j \in Int :
        /\ Shifts(e, A, N, x, B, M, b, l, d, j)
        /\ n = b /\ At(e, b) = NoFrame /\ d = b + 1 + RunLength(e, e.win_start + 1)
  BY NextShifts
<1>2. Spans(e, b, l, A, N) /\ Spans(x, d, j, B, M) /\ b <= d
  BY <1>1 DEF Shifts
<1>3. InWindow(e, b, l, A, N) /\ w = b % SnSpace /\ w \in Int /\ n \in Nat
  BY <1>2, FrameFacts, ReorderAssumption DEF Spans, Numbered, Entries
<1> DEFINE c == 1
           k == RunLength(e, w + c)
           v == Queued(e, w + c, k)
<1>4. c \in {0, 1} /\ c \in Int /\ (c = 1 => At(e, b) = NoFrame)
  BY <1>1
<1>5. d = b + c + k /\ out = <<n>> \o v
  BY <1>1
<1>6. x.packet_q = Emptied(e, w + c, k).packet_q
  <2> DEFINE a == Advanced(e, w + c, k)
  <2>1. x = [a EXCEPT !.last_seq = Later(a.last_seq, n % SnSpace)]
    BY DEF NextReceived
  <2>2. a.packet_q = Emptied(e, w + c, k).packet_q
    <3> HIDE DEF w, c, k
    <3> QED BY AdvancedFields
  <2>3. a \in Entries
    <3>1. w + c \in Int
      BY <1>3, <1>4
    <3>2. k \in Nat
      <4> HIDE DEF c, w
      <4>1. RunLength(e, w + c) \in 0 .. WinSz
        BY <3>1, RunLengthIs
      <4> QED BY <4>1, ReorderAssumption
    <3> HIDE DEF c, w, k
    <3> QED BY <3>1, <3>2, AdvancedType
  <2> HIDE DEF a
  <2>4. x.packet_q = a.packet_q
    BY <2>1, <2>3, SeqFields
  <2> QED BY <2>2, <2>4
<1>7. k \in Nat
  <2>1. w + c \in Int
    BY <1>3, <1>4
  <2> HIDE DEF c, w
  <2>2. RunLength(e, w + c) \in 0 .. WinSz
    BY <2>1, RunLengthIs
  <2> QED BY <2>2, ReorderAssumption
<1> HIDE DEF c, k
<1>8. Goes(v, {q \in H : q < b + c + k})
  BY <1>3, <1>4, <1>7, QueuedGoes
<1>9. HeldBy(x) = {q \in H : q >= b + c + k}
  <2>1. x.packet_q = Emptied(e, e.win_start + c, k).packet_q /\ e.win_start = b % SnSpace
    BY <1>3, <1>6
  <2> HIDE DEF w
  <2>2. Keeps(x, HeldBy(e), b + c + k)
    BY <1>3, <1>4, <1>7, <2>1, EmptiedHeld
  <2> QED BY <2>2 DEF Keeps
<1>10. \A q \in H : q \in Nat /\ n < q
  <2>1. \A q \in H : q \in Nat /\ b <= q /\ At(e, q) # NoFrame
    BY <1>3, HeldByIs
  <2> HIDE DEF H
  <2> QED BY <1>1, <2>1
<1> HIDE DEF H, v, w
<1>11. n < d
  BY <1>1, <1>4, <1>5, <1>7 DEF c
<1>12. Goes(<<n>>, {n})
  BY <1>3, GoesOne
<1>13. Goes(out, {n} \cup {q \in H : q < d})
  <2>1. \A p \in {n}, q \in {q \in H : q < d} : p < q
    BY <1>10
  <2>2. Goes(v, {q \in H : q < d})
    BY <1>5, <1>8
  <2>3. Goes(<<n>> \o v, {n} \cup {q \in H : q < d})
    BY <1>12, <2>1, <2>2, GoesConcat
  <2> QED BY <1>5, <2>3
<1>14. {n} \cup {q \in H : q < d} = {q \in H \cup {n} : q < d}
  BY <1>11
<1>15. HeldBy(x) = {q \in H \cup {n} : q >= d}
  <2>1. ~(n >= d)
    BY <1>1, <1>3, <1>11
  <2> QED BY <1>5, <1>9, <2>1
<1>16. H \cup {n} \subseteq Nat /\ Parted(H \cup {n}, d, x, out)
  BY <1>3, <1>10, <1>13, <1>14, <1>15 DEF Parted
<1>17. BaseOf(e, A) = b
  BY <1>2, BaseIs
<1>18. Splits(e, A, x, B, M, H \cup {n}, out, b, d, j)
  BY <1>2, <1>16, <1>17 DEF Splits
<1> QED BY <1>1, <1>18 DEF H

LEMMA WithinSplits ==
  ASSUME Near, NEW e \in Entries, NEW A, A \subseteq Nat, NEW N \in Nat, IsNewest(A, N),
         Window(e, A, N), e.start_rcv, NEW n \in Frames, NEW B, NEW M \in Nat,
         Came(A, N, n, B, M), check_win_seqment(e, n % SnSpace) = 3,
         NEW x, StoredIn(x, e, n, Later(e.last_seq, n % SnSpace))
  PROVE  \E b, d, j \in Int :
           Splits(e, A, x, B, M, HeldBy(e) \cup {n}, <<>>, b, d, j) /\ b <= n /\ d <= j
<1> DEFINE H == HeldBy(e)
<1>1. PICK b \in Int, l \in Int, j \in Int :
        Shifts(e, A, N, x, B, M, b, l, b, j) /\ b <= j /\ b < n /\ n < b + WinSz
  BY WithinShifts
<1>2. Spans(e, b, l, A, N) /\ Spans(x, b, j, B, M) /\ b <= b
  BY <1>1 DEF Shifts
<1>3. InWindow(e, b, l, A, N) /\ n \in Nat /\ WinSz \in Nat
  BY <1>2, FrameFacts, ReorderAssumption DEF Spans
<1>4. At(e, n) = NoFrame
  <2>1. n \in b .. b + WinSz - 1
    BY <1>1, <1>3
  <2> QED BY <1>3, <2>1, NotHeld
<1>5. HeldBy(x) = H \cup {n}
  <2>1. x.packet_q = Stored(e, n).packet_q
    BY DEF StoredIn
  <2> QED BY <1>4, <2>1, StoredHeld
<1>6. \A q \in H \cup {n} : q \in Nat /\ b <= q
  <2>1. \A q \in H : q \in Nat /\ b <= q
    BY <1>3, HeldByIs
  <2> HIDE DEF H
  <2> QED BY <1>1, <1>3, <2>1
<1> HIDE DEF H
<1>7. {q \in H \cup {n} : q < b} = {} /\ {q \in H \cup {n} : q >= b} = H \cup {n}
  BY <1>6
<1>8. H \cup {n} \subseteq Nat /\ Parted(H \cup {n}, b, x, <<>>)
  BY <1>5, <1>6, <1>7, GoesNothing DEF Parted
<1>9. BaseOf(e, A) = b
  BY <1>2, BaseIs
<1>10. Splits(e, A, x, B, M, H \cup {n}, <<>>, b, b, j)
  BY <1>2, <1>8, <1>9 DEF Splits
<1>11. b <= n
  BY <1>1, <1>3
<1> QED BY <1>1, <1>10, <1>11 DEF H

LEMMA BeyondSplits ==
  ASSUME Near, NEW e \in Entries, NEW A, A \subseteq Nat, NEW N \in Nat, IsNewest(A, N),
         Window(e, A, N), e.start_rcv, NEW n \in Frames, NEW B, NEW M \in Nat,
         Came(A, N, n, B, M), check_win_seqment(e, n % SnSpace) = 4,
         NEW k, k = Shift(e, n % SnSpace),
         NEW x, StoredIn(x, Advanced(e, e.win_start, k), n, n % SnSpace)
  PROVE  \E b, d, j \in Int :
           /\ Splits(e, A, x, B, M, HeldBy(e) \cup {n}, Queued(e, e.win_start, k), b, d, j)
           /\ b <= n /\ d <= j
<1> DEFINE H == HeldBy(e)
           a == Advanced(e, e.win_start, k)
           c == 0
           out == Queued(e, e.win_start, k)
<1>1. PICK b \in Int, l \in Int, d \in Int, j \in Int :
        /\ Shifts(e, A, N, x, B, M, b, l, d, j) /\ d <= j
        /\ d = b + k /\ d <= n /\ n < d + WinSz /\ b + WinSz <= n
  <2>1. StoredIn(x, Advanced(e, e.win_start, Shift(e, n % SnSpace)), n, n % SnSpace)
    OBVIOUS
  <2>2. \E b, l, d, j \in Int :
           /\ Shifts(e, A, N, x, B, M, b, l, d, j) /\ d <= j
           /\ d = b + Shift(e, n % SnSpace) /\ d <= n /\ n < d + WinSz /\ b + WinSz <= n
    BY <2>1, BeyondShifts
  <2> QED BY <2>2
<1>2. Spans(e, b, l, A, N) /\ Spans(x, d, j, B, M) /\ b <= d
  BY <1>1 DEF Shifts
<1>3. /\ InWindow(e, b, l, A, N) /\ n \in Nat /\ WinSz \in Nat
      /\ e.win_start = b % SnSpace /\ e.win_start \in Int
  BY <1>2, FrameFacts, ReorderAssumption DEF Spans, Numbered, Entries
<1>4. k \in Nat
  <2> DEFINE seq == n % SnSpace
  <2>1. e.win_start \in Numbers /\ seq \in Numbers
    BY FrameFacts DEF Entries, Numbers
  <2>2. check_win_seqment(e, seq) = 4
    OBVIOUS
  <2>3. k = Shift(e, seq)
    OBVIOUS
  <2> HIDE DEF seq
  <2>4. SN_DIFF(seq, e.win_start) \in WinSz .. Half - 1
    BY <2>1, <2>2, Segments
  <2>5. SN_DIFF(seq, e.win_start) >= WinSz /\ SN_DIFF(seq, e.win_start) \in Nat
    BY <2>4, HalfIs
  <2>6. k \in 0 .. SN_DIFF(seq, e.win_start)
    BY <2>1, <2>3, <2>5, ShiftIs
  <2> QED BY <2>5, <2>6
<1>5. /\ c \in {0, 1} /\ c # 1 /\ c \in Int
      /\ b + c + k = d /\ e.win_start + c = e.win_start
  BY <1>1, <1>3, <1>4
<1>6. a \in Entries
  BY <1>3, <1>4, AdvancedType
<1>7. a.packet_q = Emptied(e, e.win_start + c, k).packet_q
  <2>1. a.packet_q = Emptied(e, e.win_start, k).packet_q
    BY AdvancedFields
  <2> HIDE DEF c, a
  <2> QED BY <1>5, <2>1
<1>8. x.packet_q = Stored(a, n).packet_q
  BY DEF StoredIn
<1> HIDE DEF c, a
<1>9. Goes(out, {q \in H : q < d})
  <2>1. Goes(Queued(e, e.win_start + c, k), {q \in HeldBy(e) : q < b + c + k})
    BY <1>3, <1>4, <1>5, QueuedGoes
  <2> QED BY <1>5, <2>1
<1>10. HeldBy(a) = {q \in H : q >= d}
  <2>1. Keeps(a, HeldBy(e), b + c + k)
    BY <1>3, <1>4, <1>5, <1>7, EmptiedHeld
  <2> QED BY <1>5, <2>1 DEF Keeps
<1>11. InWindow(a, d, l, A, N)
  <2>1. InWindow(Emptied(e, e.win_start + c, k), b + c + k, l, A, N)
    BY <1>3, <1>4, <1>5, EmptiedWindow
  <2> QED BY <1>5, <1>7, <2>1 DEF InWindow
<1>12. \A q \in H : q \in Nat /\ q < b + WinSz
  BY <1>3, HeldByIs
<1>13. At(a, n) = NoFrame
  <2> SUFFICES ASSUME At(a, n) # NoFrame PROVE FALSE
    OBVIOUS
  <2>1. n \in d .. d + WinSz - 1
    BY <1>1, <1>3
  <2>2. n \in HeldBy(a)
    BY <1>6, <1>11, <2>1, HeldByIs
  <2> HIDE DEF H
  <2>3. n \in H
    BY <1>10, <2>2
  <2> QED BY <1>1, <1>3, <1>12, <2>3
<1>14. HeldBy(x) = HeldBy(a) \cup {n}
  BY <1>6, <1>8, <1>13, StoredHeld
<1> HIDE DEF H, out
<1>15. {q \in H \cup {n} : q < d} = {q \in H : q < d}
  BY <1>1, <1>3
<1>16. {q \in H \cup {n} : q >= d} = {q \in H : q >= d} \cup {n}
  BY <1>1, <1>3
<1>17. H \cup {n} \subseteq Nat /\ Parted(H \cup {n}, d, x, out)
  BY <1>3, <1>9, <1>10, <1>12, <1>14, <1>15, <1>16 DEF Parted
<1>18. BaseOf(e, A) = b
  BY <1>2, BaseIs
<1>19. Splits(e, A, x, B, M, H \cup {n}, out, b, d, j)
  BY <1>2, <1>17, <1>18 DEF Splits
<1>20. b <= n
  BY <1>1, <1>2, <1>3
<1> QED BY <1>1, <1>19, <1>20 DEF H, out

LEMMA GiveUpSplits ==
  ASSUME Near, NEW e \in Entries, NEW A, A \subseteq Nat, NEW N \in Nat, IsNewest(A, N),
         Waits(e, A, N),
         NEW out, out = Queued(e, FirstGivenUp(e), RunLength(e, FirstGivenUp(e)))
  PROVE  \E b, d, j \in Int :
           GivenUp(e) \in Entries /\ Splits(e, A, GivenUp(e), A, N, HeldBy(e), out, b, d, j)
<1> DEFINE H == HeldBy(e)
           x == GivenUp(e)
<1>1. PICK b \in Int, l \in Int, d \in Int, c \in {0, 1} :
        /\ x \in Entries /\ Shifts(e, A, N, x, A, N, b, l, d, l)
        /\ c = 1 => At(e, b) = NoFrame
        /\ FirstGivenUp(e) = e.win_start + c
        /\ d = b + c + RunLength(e, e.win_start + c)
  BY GiveUpShifts
<1>2. Spans(e, b, l, A, N) /\ Spans(x, d, l, A, N) /\ b <= d
  BY <1>1 DEF Shifts
<1>3. InWindow(e, b, l, A, N) /\ e.win_start = b % SnSpace /\ e.win_start + c \in Int
  BY <1>2, ReorderAssumption DEF Spans, Numbered, Entries
<1> DEFINE k == RunLength(e, e.win_start + c)
<1>4. k \in Nat
  BY <1>3, RunLengthIs, ReorderAssumption
<1>5. out = Queued(e, e.win_start + c, k) /\ d = b + c + k
  BY <1>1
<1>6. x.packet_q = Emptied(e, e.win_start + c, k).packet_q
  <2>1. x = Advanced(e, e.win_start + c, k)
    BY <1>1 DEF GivenUp
  <2> HIDE DEF x, k
  <2> QED BY <2>1, AdvancedFields
<1> HIDE DEF x, k
<1>7. Goes(out, {q \in H : q < d})
  <2>1. Goes(Queued(e, e.win_start + c, k), {q \in HeldBy(e) : q < b + c + k})
    BY <1>1, <1>3, <1>4, QueuedGoes
  <2> QED BY <1>5, <2>1
<1>8. HeldBy(x) = {q \in H : q >= d}
  <2>1. Keeps(x, HeldBy(e), b + c + k)
    BY <1>1, <1>3, <1>4, <1>6, EmptiedHeld
  <2> QED BY <1>5, <2>1 DEF Keeps
<1>9. H \subseteq Nat
  BY <1>3, HeldByIs
<1> HIDE DEF H
<1>10. Parted(H, d, x, out)
  BY <1>7, <1>8 DEF Parted
<1>11. BaseOf(e, A) = b
  BY <1>2, BaseIs
<1>12. Splits(e, A, x, A, N, H, out, b, d, l)
  BY <1>2, <1>9, <1>10, <1>11 DEF Splits
<1> QED BY <1>1, <1>12 DEF H, x

\* The three ends of a handler.

LEMMA SplitOpen ==
  ASSUME Near, NEW e, NEW A, NEW B, B \subseteq Nat, NEW M \in Nat, IsNewest(B, M), NEW x,
         NEW S, NEW out, NEW b \in Int, NEW d \in Int, NEW j \in Int,
         Splits(e, A, x, B, M, S, out, b, d, j),
         NEW y, y.start_rcv = x.start_rcv, y.packet_q = x.packet_q,
         y.win_start = x.win_start, y.last_seq = x.last_seq
  PROVE  Delivers(BaseOf(e, A), y, B, S, out)
<1>1. /\ BaseOf(e, A) = b /\ b <= d /\ Spans(x, d, j, B, M)
      /\ S \subseteq Nat /\ Parted(S, d, x, out)
  BY DEF Splits
<1>2. Spans(y, d, j, B, M)
  BY <1>1 DEF Spans, Numbered, InWindow
<1>3. Parted(S, d, y, out)
  BY <1>1 DEF Parted, HeldBy
<1>4. Delivers(b, y, B, S, out)
  BY <1>1, <1>2, <1>3, OpenDelivers
<1> QED BY <1>1, <1>4

LEMMA SplitShut ==
  ASSUME Near, NEW e, NEW A, NEW B, NEW M \in Nat, NEW x \in Entries,
         NEW S, NEW out, NEW b \in Int, NEW d \in Int, NEW j \in Int,
         Splits(e, A, x, B, M, S, out, b, d, j), Complete(x),
         NEW y, ~y.start_rcv, y.packet_q = x.packet_q
  PROVE  Delivers(BaseOf(e, A), y, B, S, out)
<1>1. Spans(x, d, j, B, M) /\ S \subseteq Nat /\ Parted(S, d, x, out)
  BY DEF Splits
<1>2. j < d
  BY <1>1, CompleteIs DEF Spans
<1>3. HoldsNone(x)
  BY <1>1, <1>2, NothingLeft DEF Spans
<1>4. HeldBy(x) = {} /\ HeldBy(y) = {}
  BY <1>3 DEF HoldsNone, HeldBy
<1>5. {q \in S : q < d} = S
  <2>1. {q \in S : q >= d} = {}
    BY <1>1, <1>4 DEF Parted
  <2>2. \A q \in S : q \in Nat
    BY <1>1
  <2> QED BY <2>1, <2>2
<1>6. Goes(out, S)
  BY <1>1, <1>5 DEF Parted
<1> QED BY <1>4, <1>6, ShutDelivers

LEMMA SplitAwait ==
  ASSUME Near, NEW e, NEW A, NEW B, B \subseteq Nat, NEW M \in Nat, IsNewest(B, M),
         NEW x \in Entries, NEW S, NEW out, NEW b \in Int, NEW d \in Int, NEW j \in Int,
         Splits(e, A, x, B, M, S, out, b, d, j), d <= j \/ ~Complete(x),
         NEW s, NEW f \in Flows, s.entry \in [Flows -> Entries], s.up \in [Flows -> Seq(Frames)],
         NEW r, NEW from, NEW t, t = Await(s, f, x, r, out, from)
  PROVE  Delivers(BaseOf(e, A), t.entry[f], B, S, t.up[f])
<1>1. /\ BaseOf(e, A) = b /\ b <= d /\ Spans(x, d, j, B, M)
      /\ S \subseteq Nat /\ Parted(S, d, x, out)
  BY DEF Splits
<1>2. d <= j
  <2>1. Complete(x) <=> j < d
    BY <1>1, CompleteIs DEF Spans
  <2> QED BY <2>1
<1>3. Delivers(b, t.entry[f], B, S, t.up[f])
  BY <1>1, <1>2, AwaitDelivers
<1> QED BY <1>1, <1>3

LEMMA PutOthers ==
  ASSUME NEW s, s.entry \in [Flows -> Entries], s.up \in [Flows -> Seq(Frames)],
         NEW f \in Flows, NEW e, NEW r, NEW out, NEW t, t = Put(s, f, e, r, out)
  PROVE  SameBut(s, t, f) /\ t.entry[f] = e /\ t.up[f] = out
<1>1. t.entry = [s.entry EXCEPT ![f] = e] /\ t.up = [s.up EXCEPT ![f] = out]
  BY DEF Put
<1> QED BY <1>1 DEF SameBut

LEMMA AwaitOthers ==
  ASSUME NEW s, s.entry \in [Flows -> Entries], s.up \in [Flows -> Seq(Frames)],
         NEW f \in Flows, NEW e, NEW r, NEW out, NEW from,
         NEW t, t = Await(s, f, e, r, out, from)
  PROVE  SameBut(s, t, f)
<1>1. \E y, q, v : t = Put(s, f, y, q, v)
  BY DEF Await, reorder_ctrl_consumeQ
<1> QED BY <1>1, PutOthers

-----------------------------------------------------------------------------
(* Steps of the system.                                                    *)

OthersStay(f) ==
  \A g \in Flows \ {f} : entry'[g] = entry[g] /\ up'[g] = up[g] /\ arrived'[g] = arrived[g]

Accepted(f, n) ==
  /\ entry[f].start_rcv /\ BaseOf(entry[f], arrived[f]) <= n
  /\ Delivers(BaseOf(entry[f], arrived[f]), entry'[f], arrived'[f],
              HeldBy(entry[f]) \cup {n}, up'[f])

LEMMA Received ==
  ASSUME TypeOK, NoCopies, WindowInv(entry, arrived), NEW f \in Flows, NEW n \in Frames,
         Arrives(f, n)
  PROVE  /\ \E N, M \in Nat : /\ IsNewest(arrived[f], N) /\ Window(entry[f], arrived[f], N)
                              /\ Came(arrived[f], N, n, arrived'[f], M)
                              /\ IsNewest(arrived'[f], M)
         /\ arrived[f] \subseteq Nat /\ arrived'[f] \subseteq Nat
         /\ \A t : Becomes(t) /\ SameBut(State, t, f) => OthersStay(f)
<1>1. PICK N \in Nat : IsNewest(arrived[f], N) /\ Window(entry[f], arrived[f], N)
  BY DEF WindowInv, WindowOf
<1>2. PICK M \in Nat : Came(arrived[f], N, n, arrived'[f], M)
  BY <1>1, Arrival
<1>3. \A g \in Flows \ {f} : arrived'[g] = arrived[g]
  BY <1>1, Arrival
<1>4. arrived' \in [Flows -> SUBSET Frames] /\ arrived \in [Flows -> SUBSET Frames]
  BY ArrivesType DEF TypeOK
<1>5. arrived[f] \subseteq Nat /\ arrived'[f] \subseteq Nat
  BY <1>4, ReorderAssumption
<1>6. \A t : Becomes(t) /\ SameBut(State, t, f) => OthersStay(f)
  BY <1>3, StateIs DEF Becomes, SameBut, OthersStay
<1>7. IsNewest(arrived'[f], M)
  BY <1>2 DEF Came
<1> QED BY <1>1, <1>2, <1>5, <1>6, <1>7

LEMMA NextAccepts ==
  ASSUME IInv, Near, NoCopies, WindowInv(entry, arrived), NEW f \in Flows, NEW n \in Frames,
         ReceiveNext(f, n)
  PROVE  Accepted(f, n) /\ OthersStay(f)
<1> DEFINE old == entry[f]
           A == arrived[f]
           e == NextReceived(old, n)
           r == Forgotten(ring, old.rc_timer_id)
           out == <<n>> \o Queued(old, old.win_start + 1, RunLength(old, old.win_start + 1))
           z == [e EXCEPT !.rc_timer_id = 0]
           s == State
           t == IF Complete(e) THEN Put(s, f, z, r, out) ELSE Await(s, f, e, r, out, FALSE)
           S == HeldBy(old) \cup {n}
<1>1. TypeOK /\ old \in Entries
      /\ s.entry \in [Flows -> Entries] /\ s.up \in [Flows -> Seq(Frames)]
  BY StateIs DEF IInv, TypeOK
<1>2. /\ Becomes(t) /\ Arrives(f, n) /\ old.start_rcv
      /\ check_win_seqment(old, n % SnSpace) = 2
  BY DEF ReceiveNext, InSegment
<1>3. e \in Entries
  BY <1>1, NextType
<1>4. PICK N \in Nat, M \in Nat :
        /\ IsNewest(A, N) /\ Window(old, A, N)
        /\ Came(A, N, n, arrived'[f], M) /\ IsNewest(arrived'[f], M)
  BY <1>1, <1>2, Received
<1>5. A \subseteq Nat /\ arrived'[f] \subseteq Nat
      /\ \A u : Becomes(u) /\ SameBut(s, u, f) => OthersStay(f)
  BY <1>1, <1>2, Received
<1> DEFINE B == arrived'[f]
<1> HIDE DEF A, B
<1>6. PICK b \in Int, d \in Int, j \in Int : Splits(old, A, e, B, M, S, out, b, d, j) /\ b <= n
  <2>1. Came(A, N, n, B, M) /\ A \subseteq Nat
    BY <1>4, <1>5 DEF B
  <2> HIDE DEF old
  <2> QED BY <1>1, <1>2, <1>4, <2>1, NextSplits
<1> HIDE DEF e, r, out, s, S
<1>7. BaseOf(old, A) <= n
  BY <1>6 DEF Splits
<1>8. /\ IsNewest(B, M) /\ B \subseteq Nat
  BY <1>4, <1>5 DEF B
<1>9. Delivers(BaseOf(old, A), t.entry[f], B, S, t.up[f]) /\ SameBut(s, t, f)
  <2>1. CASE Complete(e)
    <3>1. /\ z.start_rcv = e.start_rcv /\ z.packet_q = e.packet_q
          /\ z.win_start = e.win_start /\ z.last_seq = e.last_seq
      BY <1>3, NamedFields
    <3> HIDE DEF z, old
    <3>2. Delivers(BaseOf(old, A), z, B, S, out)
      BY <1>6, <1>8, <3>1, SplitOpen
    <3>3. t = Put(s, f, z, r, out)
      BY <2>1
    <3> HIDE DEF t
    <3>4. SameBut(s, t, f) /\ t.entry[f] = z /\ t.up[f] = out
      BY <1>1, <3>3, PutOthers
    <3> QED BY <3>2, <3>4
  <2>2. CASE ~Complete(e)
    <3> DEFINE from == FALSE
    <3>1. t = Await(s, f, e, r, out, from)
      BY <2>2
    <3> HIDE DEF from, t, old, z
    <3>2. SameBut(s, t, f)
      BY <1>1, <3>1, AwaitOthers
    <3>3. Delivers(BaseOf(old, A), t.entry[f], B, S, t.up[f])
      BY <1>1, <1>3, <1>6, <1>8, <2>2, <3>1, SplitAwait
    <3> QED BY <3>2, <3>3
  <2> QED BY <2>1, <2>2
<1> HIDE DEF t
<1>10. entry'[f] = t.entry[f] /\ up'[f] = t.up[f]
  BY <1>2 DEF Becomes
<1>11. OthersStay(f)
  BY <1>2, <1>5, <1>9
<1>12. Delivers(BaseOf(old, A), entry'[f], arrived'[f], HeldBy(old) \cup {n}, up'[f])
  BY <1>9, <1>10 DEF B, S
<1> QED BY <1>2, <1>7, <1>11, <1>12 DEF Accepted, A

LEMMA WithinAccepts ==
  ASSUME IInv, Near, NoCopies, WindowInv(entry, arrived), NEW f \in Flows, NEW n \in Frames,
         ReceiveWithin(f, n)
  PROVE  Accepted(f, n) /\ OthersStay(f)
<1> DEFINE old == entry[f]
           A == arrived[f]
           q == Stored(old, n)
           e == [q EXCEPT !.last_seq = Later(q.last_seq, n % SnSpace)]
           s == State
           out == <<>>
           t == IF e.rc_timer_id # 0 THEN Put(s, f, e, ring, out)
                ELSE Await(s, f, e, ring, out, FALSE)
           S == HeldBy(old) \cup {n}
<1>1. TypeOK /\ old \in Entries
      /\ s.entry \in [Flows -> Entries] /\ s.up \in [Flows -> Seq(Frames)]
  BY StateIs DEF IInv, TypeOK
<1>2. /\ Becomes(t) /\ Arrives(f, n) /\ old.start_rcv
      /\ check_win_seqment(old, n % SnSpace) = 3
  BY DEF ReceiveWithin, InSegment
<1>3. q \in Entries /\ q.last_seq = old.last_seq
  BY <1>1, StoredType, StoredFields
<1>4. StoredIn(e, old, n, Later(old.last_seq, n % SnSpace))
  <2> DEFINE v == Later(q.last_seq, n % SnSpace)
  <2>1. StoredIn([Stored(old, n) EXCEPT !.last_seq = v], old, n, v)
    <3> HIDE DEF v
    <3> QED BY <1>1, StoredInIs
  <2> QED BY <1>3, <2>1
<1>5. e \in Entries
  <2> HIDE DEF q
  <2>1. q.last_seq \in 0 .. SnSpace - 1
    BY <1>3 DEF Entries
  <2>2. Later(q.last_seq, n % SnSpace) \in 0 .. SnSpace - 1
    BY <2>1, FrameFacts, LaterType
  <2> QED BY <1>3, <2>2, SeqSet
<1> HIDE DEF e, q
<1>6. PICK N \in Nat, M \in Nat :
        /\ IsNewest(A, N) /\ Window(old, A, N)
        /\ Came(A, N, n, arrived'[f], M) /\ IsNewest(arrived'[f], M)
  BY <1>1, <1>2, Received
<1>7. A \subseteq Nat /\ arrived'[f] \subseteq Nat
      /\ \A u : Becomes(u) /\ SameBut(s, u, f) => OthersStay(f)
  BY <1>1, <1>2, Received
<1> DEFINE B == arrived'[f]
<1> HIDE DEF A, B
<1>8. PICK b \in Int, d \in Int, j \in Int :
        Splits(old, A, e, B, M, S, out, b, d, j) /\ b <= n /\ d <= j
  <2>1. Came(A, N, n, B, M) /\ A \subseteq Nat
    BY <1>6, <1>7 DEF B
  <2> HIDE DEF old
  <2> QED BY <1>1, <1>2, <1>4, <1>6, <2>1, WithinSplits
<1> HIDE DEF s, S, out
<1>9. BaseOf(old, A) <= n
  BY <1>8 DEF Splits
<1>10. IsNewest(B, M) /\ B \subseteq Nat
  BY <1>6, <1>7 DEF B
<1>11. Delivers(BaseOf(old, A), t.entry[f], B, S, t.up[f]) /\ SameBut(s, t, f)
  <2>1. CASE e.rc_timer_id # 0
    <3>1. /\ e.start_rcv = e.start_rcv /\ e.packet_q = e.packet_q
          /\ e.win_start = e.win_start /\ e.last_seq = e.last_seq
      OBVIOUS
    <3> HIDE DEF old
    <3>2. Delivers(BaseOf(old, A), e, B, S, out)
      BY <1>8, <1>10, <3>1, SplitOpen
    <3>3. t = Put(s, f, e, ring, out)
      BY <2>1
    <3> HIDE DEF t
    <3>4. SameBut(s, t, f) /\ t.entry[f] = e /\ t.up[f] = out
      BY <1>1, <3>3, PutOthers
    <3> QED BY <3>2, <3>4
  <2>2. CASE e.rc_timer_id = 0
    <3> DEFINE from == FALSE
    <3>1. t = Await(s, f, e, ring, out, from)
      BY <2>2
    <3> HIDE DEF from, t, old
    <3>2. SameBut(s, t, f)
      BY <1>1, <3>1, AwaitOthers
    <3>3. Delivers(BaseOf(old, A), t.entry[f], B, S, t.up[f])
      BY <1>1, <1>5, <1>8, <1>10, <3>1, SplitAwait
    <3> QED BY <3>2, <3>3
  <2> QED BY <2>1, <2>2
<1> HIDE DEF t
<1>12. entry'[f] = t.entry[f] /\ up'[f] = t.up[f]
  BY <1>2 DEF Becomes
<1>13. OthersStay(f)
  BY <1>2, <1>7, <1>11
<1>14. Delivers(BaseOf(old, A), entry'[f], arrived'[f], HeldBy(old) \cup {n}, up'[f])
  BY <1>11, <1>12 DEF B, S
<1> QED BY <1>2, <1>9, <1>13, <1>14 DEF Accepted, A

LEMMA BeyondAccepts ==
  ASSUME IInv, Near, NoCopies, WindowInv(entry, arrived), NEW f \in Flows, NEW n \in Frames,
         ReceiveBeyond(f, n)
  PROVE  Accepted(f, n) /\ OthersStay(f)
<1> DEFINE old == entry[f]
           A == arrived[f]
           seq == n % SnSpace
           k == Shift(old, seq)
           a == Advanced(old, old.win_start, k)
           e == [Stored(a, n) EXCEPT !.last_seq = seq]
           r == Forgotten(ring, old.rc_timer_id)
           out == Queued(old, old.win_start, k)
           s == State
           from == FALSE
           t == Await(s, f, e, r, out, from)
           S == HeldBy(old) \cup {n}
<1>1. TypeOK /\ old \in Entries
      /\ s.entry \in [Flows -> Entries] /\ s.up \in [Flows -> Seq(Frames)]
  BY StateIs DEF IInv, TypeOK
<1>2. /\ Becomes(t) /\ Arrives(f, n) /\ old.start_rcv
      /\ check_win_seqment(old, n % SnSpace) = 4
  BY DEF ReceiveBeyond, InSegment
<1> HIDE DEF r, from
<1>3. old.win_start \in Numbers /\ seq \in Numbers
  BY <1>1, FrameFacts DEF Entries, Numbers
<1>4. k \in Int /\ old.win_start \in Int
  <2>1. SN_DIFF(seq, old.win_start) \in WinSz .. Half - 1
    <3> HIDE DEF old
    <3>1. check_win_seqment(old, seq) = 4
      BY <1>2
    <3> HIDE DEF seq
    <3> QED BY <1>3, <3>1, Segments
  <2>2. SN_DIFF(seq, old.win_start) >= WinSz /\ SN_DIFF(seq, old.win_start) \in Nat
    BY <2>1, HalfIs
  <2> HIDE DEF old, seq
  <2>3. k \in 0 .. SN_DIFF(seq, old.win_start)
    BY <1>3, <2>2, ShiftIs
  <2> HIDE DEF k
  <2> QED BY <1>3, <2>2, <2>3, ReorderAssumption DEF Numbers
<1>5. a \in Entries
  <2> HIDE DEF k
  <2> QED BY <1>1, <1>4, AdvancedType
<1>6. StoredIn(e, a, n, seq)
  <2> HIDE DEF a, seq
  <2> QED BY <1>5, StoredInIs
<1>7. e \in Entries
  <2> HIDE DEF a
  <2>1. Stored(a, n) \in Entries
    BY <1>5, StoredType
  <2> HIDE DEF seq
  <2> QED BY <1>3, <2>1, SeqSet DEF Numbers
<1> HIDE DEF e
<1>8. PICK N \in Nat, M \in Nat :
        /\ IsNewest(A, N) /\ Window(old, A, N)
        /\ Came(A, N, n, arrived'[f], M) /\ IsNewest(arrived'[f], M)
  BY <1>1, <1>2, Received
<1>9. A \subseteq Nat /\ arrived'[f] \subseteq Nat
      /\ \A u : Becomes(u) /\ SameBut(s, u, f) => OthersStay(f)
  BY <1>1, <1>2, Received
<1> DEFINE B == arrived'[f]
<1> HIDE DEF A, B
<1>10. PICK b \in Int, d \in Int, j \in Int :
        Splits(old, A, e, B, M, S, out, b, d, j) /\ b <= n /\ d <= j
  <2>1. Came(A, N, n, B, M) /\ A \subseteq Nat
    BY <1>8, <1>9 DEF B
  <2>2. StoredIn(e, Advanced(old, old.win_start, k), n, n % SnSpace)
    BY <1>6
  <2>3. k = Shift(old, n % SnSpace)
    OBVIOUS
  <2> HIDE DEF old, k
  <2>4. \E b, d, j \in Int :
          /\ Splits(old, A, e, B, M, HeldBy(old) \cup {n}, Queued(old, old.win_start, k), b, d, j)
          /\ b <= n /\ d <= j
    BY <1>1, <1>2, <1>8, <2>1, <2>2, <2>3, BeyondSplits
  <2> QED BY <2>4
<1> HIDE DEF s, S, out
<1>11. BaseOf(old, A) <= n
  BY <1>10 DEF Splits
<1>12. IsNewest(B, M) /\ B \subseteq Nat
  BY <1>8, <1>9 DEF B
<1>13. t = Await(s, f, e, r, out, from)
  OBVIOUS
<1> HIDE DEF t
<1>14. Delivers(BaseOf(old, A), t.entry[f], B, S, t.up[f])
  <2> HIDE DEF old
  <2> QED BY <1>1, <1>7, <1>10, <1>12, <1>13, SplitAwait
<1>15. SameBut(s, t, f)
  BY <1>1, <1>13, AwaitOthers
<1>16. entry'[f] = t.entry[f] /\ up'[f] = t.up[f]
  BY <1>2 DEF Becomes
<1>17. OthersStay(f)
  BY <1>2, <1>9, <1>15
<1>18. Delivers(BaseOf(old, A), entry'[f], arrived'[f], HeldBy(old) \cup {n}, up'[f])
  BY <1>14, <1>16 DEF B, S
<1> QED BY <1>2, <1>11, <1>17, <1>18 DEF Accepted, A

\* A frame that opens a window: the number after it is the base.
Begun(f, n) ==
  /\ ~entry[f].start_rcv /\ entry'[f].start_rcv /\ up'[f] = <<n>>
  /\ BaseOf(entry'[f], arrived'[f]) = n + 1 /\ HeldBy(entry'[f]) = {}

LEMMA FirstBegins ==
  ASSUME IInv, Near, NoCopies, WindowInv(entry, arrived), NEW f \in Flows, NEW n \in Frames,
         ReceiveFirst(f, n)
  PROVE  Begun(f, n) /\ OthersStay(f)
<1> DEFINE e == entry[f]
           w == SN_NEXT(n % SnSpace)
           l == n % SnSpace
           x == [e EXCEPT !.start_rcv = TRUE, !.win_start = w, !.last_seq = l]
           s == State
           t == Put(s, f, x, ring, <<n>>)
           B == arrived'[f]
<1>1. TypeOK /\ e \in Entries /\ n \in Nat
      /\ s.entry \in [Flows -> Entries] /\ s.up \in [Flows -> Seq(Frames)]
  BY FrameFacts, StateIs DEF IInv, TypeOK
<1>2. Becomes(t) /\ Arrives(f, n) /\ ~e.start_rcv
  BY DEF ReceiveFirst
<1>3. x.start_rcv /\ x.packet_q = e.packet_q /\ x.win_start = w /\ x.last_seq = l
  <2> HIDE DEF e, w, l
  <2> DEFINE a == [e EXCEPT !.start_rcv = TRUE]
             c == [a EXCEPT !.win_start = w]
  <2>1. DOMAIN a = DOMAIN e /\ a.start_rcv /\ a.packet_q = e.packet_q
    BY <1>1 DEF Entries
  <2>2. DOMAIN e = {"packet_q", "start_rcv", "rc_timer_id", "win_start", "last_seq"}
    BY <1>1 DEF Entries
  <2>3. x = [c EXCEPT !.last_seq = l]
    OBVIOUS
  <2> HIDE DEF a, x
  <2>4. /\ DOMAIN c = DOMAIN e /\ c.start_rcv = a.start_rcv /\ c.packet_q = a.packet_q
        /\ c.win_start = w
    BY <2>1, <2>2
  <2> HIDE DEF c
  <2>5. /\ x.start_rcv = c.start_rcv /\ x.packet_q = c.packet_q
        /\ x.win_start = c.win_start /\ x.last_seq = l
    BY <2>2, <2>3, <2>4
  <2> QED BY <2>1, <2>4, <2>5
<1> HIDE DEF x, s
<1>4. SameBut(s, t, f) /\ t.entry[f] = x /\ t.up[f] = <<n>>
  <2> DEFINE out == <<n>>
  <2>1. t = Put(s, f, x, ring, out)
    OBVIOUS
  <2> HIDE DEF t, out
  <2>2. SameBut(s, t, f) /\ t.entry[f] = x /\ t.up[f] = out
    BY <1>1, <2>1, PutOthers
  <2> QED BY <2>2 DEF out
<1> HIDE DEF t
<1>5. entry'[f] = x /\ up'[f] = <<n>>
  BY <1>2, <1>4 DEF Becomes
<1>6. PICK N \in Nat, M \in Nat :
        /\ IsNewest(arrived[f], N) /\ Window(e, arrived[f], N)
        /\ Came(arrived[f], N, n, B, M) /\ IsNewest(B, M)
  BY <1>1, <1>2, Received
<1>7. B \subseteq Nat /\ \A u : Becomes(u) /\ SameBut(State, u, f) => OthersStay(f)
  BY <1>1, <1>2, Received
<1>8. OthersStay(f)
  BY <1>2, <1>4, <1>7 DEF s
<1> DEFINE b == n + 1
<1>9. HoldsNone(e)
  BY <1>2, <1>6 DEF Window
<1>10. HoldsNone(x) /\ HeldBy(x) = {}
  BY <1>3, <1>9 DEF HoldsNone, HeldBy
<1>11. b \in Int /\ n \in Int
  BY <1>1
<1>12. b % SnSpace = x.win_start /\ n % SnSpace = x.last_seq
  <2>1. 1 \in Int
    OBVIOUS
  <2>2. ((n % SnSpace) + 1) % SnSpace = (n + 1) % SnSpace
    BY <1>11, <2>1, SnNumber
  <2> QED BY <1>3, <2>2 DEF SN_NEXT
<1> HIDE DEF e, B
<1>13. b - 1 <= n /\ n <= M /\ M + 1 - b <= Reach
  <2>1. N - n <= Reach /\ n <= M /\ (M = N \/ M = n)
    BY <1>6 DEF Came
  <2> QED BY <1>1, <2>1, NearIs
<1> HIDE DEF b
<1>14. Numbered(x, b, n, M) /\ InWindow(x, b, n, B, M)
  BY <1>10, <1>12, <1>13 DEF Numbered, InWindow, HoldsNone
<1>15. Spans(x, b, n, B, M)
  BY <1>3, <1>14 DEF Spans
<1>16. BaseOf(x, B) = b
  BY <1>6, <1>7, <1>11, <1>15, BaseIs
<1> QED BY <1>2, <1>3, <1>5, <1>8, <1>10, <1>16 DEF Begun, B, b, e

\* A frame behind the window, and one that is already held.

LEMMA BehindIsLate ==
  ASSUME IInv, Near, NoCopies, WindowInv(entry, arrived), NEW f \in Flows, NEW n \in Frames,
         InSegment(f, n, 1)
  PROVE  /\ n < BaseOf(entry[f], arrived[f])
         /\ BaseOf(entry[f], arrived'[f]) = BaseOf(entry[f], arrived[f])
<1> DEFINE e == entry[f]
           A == arrived[f]
           B == arrived'[f]
<1>1. TypeOK /\ e \in Entries /\ n \in Nat
  BY FrameFacts DEF IInv, TypeOK
<1>2. Arrives(f, n) /\ e.start_rcv /\ check_win_seqment(e, n % SnSpace) = 1
  BY DEF InSegment
<1>3. PICK N \in Nat, M \in Nat :
        IsNewest(A, N) /\ Window(e, A, N) /\ Came(A, N, n, B, M) /\ IsNewest(B, M)
  BY <1>1, <1>2, Received
<1>4. A \subseteq Nat /\ B \subseteq Nat
  BY <1>1, <1>2, Received
<1> HIDE DEF A, B, e
<1>5. PICK b \in Int, l \in Int : Numbered(e, b, l, N) /\ InWindow(e, b, l, A, N)
  BY <1>2, <1>3 DEF Window
<1>6. N - n <= Reach /\ n - N <= Reach
  BY <1>3 DEF Came
<1>7. n < b
  <2>1. check_win_seqment(e, n % SnSpace) = 1 <=> n < b
    BY <1>1, <1>5, <1>6, FrameNumber
  <2> QED BY <1>2, <2>1
<1>8. M = N
  BY <1>1, <1>3, <1>5, <1>7 DEF Came, Numbered
<1>9. InWindow(e, b, l, B, M)
  <2>1. l <= l /\ e.packet_q = e.packet_q
    BY <1>5
  <2> QED BY <1>1, <1>3, <1>5, <2>1, WindowAges
<1>10. Spans(e, b, l, A, N) /\ Spans(e, b, l, B, M)
  BY <1>2, <1>5, <1>8, <1>9 DEF Spans
<1>11. BaseOf(e, A) = b
  BY <1>3, <1>4, <1>10, BaseIs
<1>12. BaseOf(e, B) = b
  BY <1>3, <1>4, <1>10, BaseIs
<1> QED BY <1>7, <1>11, <1>12 DEF e, A, B

LEMMA NotAgain ==
  ASSUME IInv, Near, NoCopies, WindowInv(entry, arrived), NEW f \in Flows, NEW n \in Frames,
         ReceiveAgain(f, n)
  PROVE  FALSE
<1> DEFINE e == entry[f]
           A == arrived[f]
           B == arrived'[f]
<1>1. TypeOK /\ e \in Entries /\ n \in Nat
  BY FrameFacts DEF IInv, TypeOK
<1>2. Arrives(f, n) /\ e.start_rcv /\ check_win_seqment(e, n % SnSpace) = 3
      /\ At(e, n) # NoFrame
  BY DEF ReceiveAgain, InSegment
<1>3. PICK N \in Nat, M \in Nat :
        IsNewest(A, N) /\ Window(e, A, N) /\ Came(A, N, n, B, M) /\ IsNewest(B, M)
  BY <1>1, <1>2, Received
<1> HIDE DEF A, B, e
<1>4. PICK b \in Int, l \in Int : Numbered(e, b, l, N) /\ InWindow(e, b, l, A, N)
  BY <1>2, <1>3 DEF Window
<1>5. N - n <= Reach /\ n - N <= Reach
  BY <1>3 DEF Came
<1>6. n \in b .. b + WinSz - 1
  <2>1. check_win_seqment(e, n % SnSpace) = 3 <=> (b < n /\ n < b + WinSz)
    BY <1>1, <1>4, <1>5, FrameNumber
  <2> QED BY <1>1, <1>2, <2>1, NearIs
<1> QED BY <1>1, <1>2, <1>3, <1>4, <1>6, NotHeld

-----------------------------------------------------------------------------
(* Timeouts.                                                               *)

\* What a timeout does to a flow: what it waited for is given up; a flow
\* without a window stays without one.
GivesUp(e, A, y, out) ==
  \/ e.start_rcv /\ Delivers(BaseOf(e, A), y, A, HeldBy(e), out)
  \/ ~e.start_rcv /\ ~y.start_rcv /\ HeldBy(y) = {} /\ out = <<>>

LEMMA WaitDelivers ==
  ASSUME Near, NEW s, s.entry \in [Flows -> Entries], s.up \in [Flows -> Seq(Frames)],
         NEW f \in Flows, NEW A, A \subseteq Nat, NEW N \in Nat, IsNewest(A, N),
         NEW e, e = s.entry[f], Waits(e, A, N), NEW r, NEW t, t = GiveUp(s, f, r)
  PROVE  Delivers(BaseOf(e, A), t.entry[f], A, HeldBy(e), t.up[f])
<1> DEFINE x == GivenUp(e)
           S == HeldBy(e)
           out == Queued(e, FirstGivenUp(e), RunLength(e, FirstGivenUp(e)))
           from == TRUE
           w == IF Complete(x) THEN Put(s, f, Ended(x), r, out)
                ELSE Await(s, f, x, r, out, from)
<1>1. t = w
  BY DEF GiveUp, GivenUp, FirstGivenUp, Ended, Closed
<1>2. e \in Entries
  OBVIOUS
<1>4. PICK b \in Int, d \in Int, j \in Int :
        x \in Entries /\ Splits(e, A, x, A, N, S, out, b, d, j)
  <2>1. out = Queued(e, FirstGivenUp(e), RunLength(e, FirstGivenUp(e)))
    OBVIOUS
  <2> HIDE DEF out
  <2> QED BY <1>2, <2>1, GiveUpSplits
<1> HIDE DEF x, S, out, from
<1>5. Delivers(BaseOf(e, A), t.entry[f], A, S, t.up[f])
  <2>1. CASE Complete(x)
    <3> DEFINE y == Ended(x)
    <3>1. ~y.start_rcv /\ y.packet_q = x.packet_q
      BY <1>4 DEF Ended, Closed, Entries
    <3>2. t = Put(s, f, y, r, out)
      BY <1>1, <2>1
    <3> HIDE DEF y
    <3>3. Delivers(BaseOf(e, A), y, A, S, out)
      BY <1>4, <2>1, <3>1, SplitShut
    <3>4. t.entry[f] = y /\ t.up[f] = out
      BY <3>2, PutOthers
    <3> QED BY <3>3, <3>4
  <2>2. CASE ~Complete(x)
    <3>1. t = Await(s, f, x, r, out, from)
      BY <1>1, <2>2
    <3> HIDE DEF w
    <3> QED BY <1>4, <2>2, <3>1, SplitAwait
  <2> QED BY <2>1, <2>2
<1> QED BY <1>5 DEF S

\* Nothing is passed up from slots that hold nothing.
LEMMA IdleQueued ==
  ASSUME NEW e, HoldsNone(e), NEW n \in Int, NEW k \in Nat
  PROVE  Queued(e, n, k) = <<>>
<1>1. PICK p : /\ p[0] = <<>>
               /\ \A i \in 1 .. WinSz :
                    p[i] = IF At(e, n + i - 1) = NoFrame THEN p[i - 1]
                           ELSE Append(p[i - 1], At(e, n + i - 1))
               /\ Queued(e, n, k) = p[IF k < WinSz THEN k ELSE WinSz]
  BY QueuedIs
<1> DEFINE S == {i \in Nat : i <= WinSz => p[i] = <<>>}
<1>2. WinSz \in Nat
  BY ReorderAssumption
<1>3. 0 \in S
  BY <1>1
<1>4. ASSUME NEW i \in Nat, i \in S PROVE i + 1 \in S
  <2>1. SUFFICES ASSUME i + 1 <= WinSz PROVE p[i + 1] = <<>>
    OBVIOUS
  <2>2. i + 1 \in 1 .. WinSz /\ (i + 1) - 1 = i /\ n + (i + 1) - 1 \in Int
    BY <2>1, <1>2
  <2>3. p[i] = <<>>
    BY <1>2, <1>4, <2>1
  <2>4. At(e, n + (i + 1) - 1) = NoFrame
    BY <2>2, IdleSlots
  <2>5. p[i + 1] = IF At(e, n + (i + 1) - 1) = NoFrame THEN p[i]
                   ELSE Append(p[i], At(e, n + (i + 1) - 1))
    BY <1>1, <2>2
  <2> QED BY <2>3, <2>4, <2>5
<1>5. \A i \in Nat : i \in S
  <2> HIDE DEF S
  <2> QED BY <1>3, <1>4, SetInduction
<1>6. (IF k < WinSz THEN k ELSE WinSz) \in Nat /\ (IF k < WinSz THEN k ELSE WinSz) <= WinSz
  BY <1>2
<1> QED BY <1>1, <1>5, <1>6

LEMMA IdleDelivers ==
  ASSUME Near, NEW s, s.entry \in [Flows -> Entries], s.up \in [Flows -> Seq(Frames)],
         NEW f \in Flows, NEW A, NEW N \in Nat, NEW e, e = s.entry[f], Window(e, A, N),
         ~Waits(e, A, N), NEW r \in Rings, NEW t, t = GiveUp(s, f, r)
  PROVE  HeldBy(e) = {} /\ Shut(t.entry[f]) /\ t.up[f] = <<>>
<1> DEFINE x == GivenUp(e)
           k == RunLength(e, FirstGivenUp(e))
           out == Queued(e, FirstGivenUp(e), k)
           z == Await(s, f, x, r, out, TRUE)
           w == IF Complete(x) THEN Put(s, f, Ended(x), r, out) ELSE z
<1>1. e \in Entries /\ HoldsNone(e)
  BY IdleWindow
<1>2. HeldBy(e) = {}
  BY <1>1 DEF HeldBy, HoldsNone
<1>3. /\ x \in Entries /\ HoldsNone(x)
      /\ FirstGivenUp(e) \in Int /\ k = 0
  BY <1>1, IdleGivenUp
<1>4. out = <<>>
  <2>1. 0 \in Nat
    OBVIOUS
  <2> QED BY <1>1, <1>3, <2>1, IdleQueued
<1>5. PICK y : /\ IF Complete(x) THEN y = Ended(x) ELSE Awaited(x, y)
               /\ Puts(t.entry, s.entry, f, y)
  <2>1. x = GivenUp(s.entry[f])
    OBVIOUS
  <2> HIDE DEF x
  <2> QED BY <1>3, <2>1, GiveUpEntry
<1>6. Shut(y)
  BY <1>1, <1>5, IdleShuts
<1>7. t.entry[f] = y
  <2>1. t.entry = [s.entry EXCEPT ![f] = y]
    BY <1>5 DEF Puts
  <2> QED BY <2>1
<1>8. t = w
  BY DEF GiveUp, GivenUp, FirstGivenUp, Ended, Closed
<1>9. t.up[f] = <<>>
  <2> HIDE DEF out, x
  <2>1. CASE Complete(x)
    <3>1. t.up = [s.up EXCEPT ![f] = out]
      BY <1>8, <2>1 DEF Put
    <3> QED BY <1>4, <3>1
  <2>2. CASE ~Complete(x) /\ ~Full(r)
    <3>1. t.up = [s.up EXCEPT ![f] = out]
      BY <1>8, <2>2 DEF Put, Await
    <3> QED BY <1>4, <3>1
  <2>3. CASE ~Complete(x) /\ Full(r)
    <3> DEFINE j == SN_DIFF(x.last_seq, x.win_start) + 1
               v == Queued(x, x.win_start, j)
    <3>1. t.up = [s.up EXCEPT ![f] = out \o v]
      BY <1>8, <2>3 DEF Put, Await, reorder_ctrl_consumeQ
    <3>2. x.win_start \in Int /\ j \in Nat
      <4>1. x.win_start \in Int /\ x.last_seq \in Int /\ SnSpace \in Nat
        BY <1>3, ReorderAssumption DEF Entries
      <4>2. SN_DIFF(x.last_seq, x.win_start) \in 0 .. SnSpace - 1
        BY <4>1, DiffIn
      <4> QED BY <4>1, <4>2
    <3> HIDE DEF j
    <3>3. v = <<>>
      BY <1>3, <3>2, IdleQueued
    <3> HIDE DEF v
    <3>4. out \o v = <<>>
      <4>1. <<>> \o <<>> = <<>>
        OBVIOUS
      <4> QED BY <1>4, <3>3, <4>1
    <3> QED BY <3>1, <3>4
  <2> QED BY <2>1, <2>2, <2>3
<1> QED BY <1>2, <1>6, <1>7, <1>9

LEMMA GiveUpDelivers ==
  ASSUME Near, NEW s, s.entry \in [Flows -> Entries], s.up \in [Flows -> Seq(Frames)],
         NEW arr, WindowInv(s.entry, arr), NEW f \in Flows, arr[f] \subseteq Nat,
         NEW r \in Rings, NEW t, t = GiveUp(s, f, r)
  PROVE  GivesUp(s.entry[f], arr[f], t.entry[f], t.up[f])
<1> DEFINE e == s.entry[f]
           A == arr[f]
<1>1. e = s.entry[f] /\ A \subseteq Nat
  OBVIOUS
<1>2. PICK N \in Nat : IsNewest(A, N) /\ Window(e, A, N)
  BY DEF WindowInv, WindowOf
<1> HIDE DEF e, A
<1>3. CASE Waits(e, A, N)
  <2>1. e.start_rcv
    BY <1>3 DEF Waits, Spans
  <2>2. Delivers(BaseOf(e, A), t.entry[f], A, HeldBy(e), t.up[f])
    BY <1>1, <1>2, <1>3, WaitDelivers
  <2> QED BY <2>1, <2>2 DEF GivesUp, e, A
<1>4. CASE ~Waits(e, A, N)
  <2>1. HeldBy(e) = {} /\ Shut(t.entry[f]) /\ t.up[f] = <<>>
    BY <1>1, <1>2, <1>4, IdleDelivers
  <2>2. ~t.entry[f].start_rcv /\ HeldBy(t.entry[f]) = {}
    BY <2>1 DEF Shut, HoldsNone, HeldBy
  <2>3. Delivers(BaseOf(e, A), t.entry[f], A, HeldBy(e), t.up[f])
    BY <2>1, <2>2, GoesNothing, ShutDelivers
  <2> QED BY <2>1, <2>2, <2>3 DEF GivesUp, e, A
<1> QED BY <1>3, <1>4

\* The timeout of f, if it has one, was added during the walk.
Renewed(s, f) ==
  s.entry[f].rc_timer_id # 0 => s.ring.slot[s.entry[f].rc_timer_id - 1].left = Timeout

\* In the walk from c to s, f has been left alone or has had its one timeout.
Untouched(c, s, f) == s.entry[f] = c.entry[f] /\ s.up[f] = c.up[f]

GaveUp(c, s, f, arr) == GivesUp(c.entry[f], arr[f], s.entry[f], s.up[f])

AtMostOnce(c, s, f, arr) == Untouched(c, s, f) \/ (GaveUp(c, s, f, arr) /\ Renewed(s, f))

\* Adding a timeout touches no slot but the one at the head.
LEMMA AddedSlots ==
  ASSUME NEW r \in Rings, NEW f, NEW from, NEW q, q = reorder_ctrl_timer_add(r, f, from)
  PROVE  \A i \in Slots : q.slot[i] = IF i = r.head THEN [flow |-> f, left |-> Timeout]
                                      ELSE r.slot[i]
<1>1. q.slot = [r.slot EXCEPT ![r.head] = [flow |-> f, left |-> Timeout]]
  BY DEF reorder_ctrl_timer_add
<1>2. DOMAIN r.slot = Slots /\ r.head \in Slots
  BY RingType
<1> DEFINE v == [flow |-> f, left |-> Timeout]
<1> HIDE DEF v
<1>3. q.slot = [r.slot EXCEPT ![r.head] = v]
  BY <1>1 DEF v
<1>4. \A i \in Slots : q.slot[i] = IF i = r.head THEN v ELSE r.slot[i]
  BY <1>2, <1>3
<1> QED BY <1>4 DEF v

\* The slot a flow's timeout is in.
LEMMA SlotOf ==
  ASSUME NEW en \in [Flows -> Entries], NEW r, Matches(en, r), NEW g \in Flows,
         en[g].rc_timer_id # 0
  PROVE  en[g].rc_timer_id - 1 \in Slots /\ r.slot[en[g].rc_timer_id - 1].flow = g
<1>1. en[g].rc_timer_id \in 0 .. RingSize
  BY DEF Entries
<1>2. en[g].rc_timer_id - 1 \in Slots
  BY <1>1, ReorderAssumption DEF Slots
<1>3. HasSlot(en, r, g)
  BY DEF Matches
<1> QED BY <1>2, <1>3 DEF HasSlot

LEMMA StillRenewed ==
  ASSUME NEW s, NEW t, NEW g \in Flows, t.entry[g] = s.entry[g],
         s.entry \in [Flows -> Entries], Matches(s.entry, s.ring), Renewed(s, g),
         \A i \in Slots : s.ring.slot[i].flow = g =>
           t.ring.slot[i].left = s.ring.slot[i].left \/ t.ring.slot[i].left = Timeout
  PROVE  Renewed(t, g)
<1> SUFFICES ASSUME s.entry[g].rc_timer_id # 0
             PROVE  t.ring.slot[s.entry[g].rc_timer_id - 1].left = Timeout
  BY DEF Renewed
<1> DEFINE i == s.entry[g].rc_timer_id - 1
<1>1. i \in Slots /\ s.ring.slot[i].flow = g
  BY SlotOf
<1>2. s.ring.slot[i].left = Timeout
  BY DEF Renewed
<1> HIDE DEF i
<1>3. t.ring.slot[i].left = Timeout
  BY <1>1, <1>2
<1> QED BY <1>3 DEF i

LEMMA ExpireOnce ==
  ASSUME Near, NEW s, NEW h \in Slots, WalkInv(s, h), NEW arr, WindowInv(s.entry, arr),
         \A g \in Flows : arr[g] \subseteq Nat,
         NEW c, \A g \in Flows : AtMostOnce(c, s, g, arr)
  PROVE  \A g \in Flows : AtMostOnce(c, ExpireSlot(s, h), g, arr)
<1> DEFINE r == s.ring
           f == r.slot[r.tail].flow
           left == r.slot[r.tail].left
           p == Passed(r)
           t == ExpireSlot(s, h)
<1>1. s.entry \in [Flows -> Entries] /\ r \in Rings /\ s.up \in [Flows -> Seq(Frames)]
      /\ Matches(s.entry, r)
  BY DEF WalkInv, CoreType
<1>2. r.tail \in Slots /\ r.head \in Slots /\ f \in Flows \cup {NoFlow} /\ left \in -1 .. Timeout
  BY <1>1, RingType
<1>3. ASSUME t.entry = s.entry, t.up = s.up,
             \A g \in Flows, i \in Slots : r.slot[i].flow = g =>
               t.ring.slot[i].left = r.slot[i].left
      PROVE  \A g \in Flows : AtMostOnce(c, t, g, arr)
  <2> HIDE DEF t
  <2> SUFFICES ASSUME NEW g \in Flows PROVE AtMostOnce(c, t, g, arr)
    OBVIOUS
  <2>1. CASE Untouched(c, s, g)
    BY <1>3, <2>1 DEF AtMostOnce, Untouched
  <2>2. CASE GaveUp(c, s, g, arr) /\ Renewed(s, g)
    <3>1. GaveUp(c, t, g, arr)
      BY <1>3, <2>2 DEF GaveUp
    <3>2. Renewed(t, g)
      BY <1>1, <1>3, <2>2, StillRenewed
    <3> QED BY <3>1, <3>2 DEF AtMostOnce
  <2> QED BY <2>1, <2>2 DEF AtMostOnce
<1>4. CASE s.stop \/ r.tail = h
  <2>1. t = s
    BY <1>4 DEF ExpireSlot
  <2> HIDE DEF t
  <2>2. \A g \in Flows : AtMostOnce(c, t, g, arr)
    BY <2>1
  <2> QED BY <2>2 DEF t
<1>5. /\ p \in Rings /\ \A i \in Slots : i # r.tail => p.slot[i] = r.slot[i]
  <2> HIDE DEF r
  <2> QED BY <1>1, PassedIs
<1>6. CASE ~s.stop /\ r.tail # h /\ f = NoFlow
  <2>1. t = [entry |-> s.entry, ring |-> p, up |-> s.up, stop |-> FALSE]
    BY <1>6 DEF ExpireSlot
  <2> HIDE DEF t, p, r
  <2>2. t.entry = s.entry /\ t.up = s.up /\ t.ring = p
    BY <2>1
  <2>3. \A g \in Flows, i \in Slots : r.slot[i].flow = g => t.ring.slot[i].left = r.slot[i].left
    BY <1>5, <1>6, <2>2, ReorderAssumption
  <2> QED BY <1>3, <2>2, <2>3 DEF t
<1>7. CASE ~s.stop /\ r.tail # h /\ f # NoFlow /\ left > 0
  <2> DEFINE q == [r EXCEPT !.sys = left]
  <2>1. t = [entry |-> s.entry, ring |-> q, up |-> s.up, stop |-> TRUE]
    BY <1>7 DEF ExpireSlot
  <2>2. left \in Off .. Timeout
    BY <1>2 DEF Off
  <2> HIDE DEF t, r, left
  <2>3. q.slot = r.slot
    BY <1>1, <2>2, SysSet
  <2> HIDE DEF q
  <2>4. t.entry = s.entry /\ t.up = s.up /\ t.ring = q
    BY <2>1
  <2>5. \A g \in Flows, i \in Slots : r.slot[i].flow = g => t.ring.slot[i].left = r.slot[i].left
    BY <2>3, <2>4
  <2> QED BY <1>3, <2>4, <2>5 DEF t
<1>8. CASE ~s.stop /\ r.tail # h /\ f # NoFlow /\ ~ (left > 0)
  <2> DEFINE a == GiveUp(s, f, p)
  <2>1. t = [entry |-> a.entry, ring |-> a.ring, up |-> a.up, stop |-> FALSE]
    BY <1>8 DEF ExpireSlot
  <2>2. r.tail # r.head
    <3>1. CIRC_CNT(h, r.tail) + CIRC_CNT(r.head, h) = CIRC_CNT(r.head, r.tail)
      BY <1>8 DEF WalkInv, Walking
    <3> HIDE DEF r
    <3>2. CIRC_CNT(h, r.tail) \in Nat /\ CIRC_CNT(h, r.tail) # 0
      BY <1>2, <1>8, CountIs
    <3>3. CIRC_CNT(r.head, h) \in Nat
      BY <1>2, CountIs
    <3>4. r.tail = r.head => CIRC_CNT(r.head, r.tail) = 0
      BY <1>2, CountIs
    <3> QED BY <3>1, <3>2, <3>3, <3>4
  <2> HIDE DEF t, r
  <2>3. MatchesBut(s.entry, p, f)
    BY <1>1, <1>8, <2>2, PassedMatches
  <2>4. f \in Flows /\ s.entry[f].rc_timer_id = r.tail + 1
    BY <1>1, <1>2, <1>8 DEF Matches, NamesOwner
  <2>5. s.entry[f].rc_timer_id # 0 /\ s.entry[f].rc_timer_id - 1 = r.tail
    BY <1>2, <2>4, ReorderAssumption DEF Slots
  <2>6. left # Timeout
    BY <1>2, <1>8, ReorderAssumption
  <2>7. Untouched(c, s, f)
    <3>1. s.ring.slot[s.entry[f].rc_timer_id - 1].left = left
      BY <2>5 DEF r
    <3>2. ~Renewed(s, f)
      BY <2>5, <2>6, <3>1 DEF Renewed
    <3> QED BY <2>4, <3>2 DEF AtMostOnce
  <2> HIDE DEF p, f, left
  <2>8. GiveUpResult(s, a, f, p)
    BY <1>1, <1>5, <2>3, <2>4, GiveUpKeeps
  <2>9. GivesUp(s.entry[f], arr[f], a.entry[f], a.up[f])
    <3>1. a = GiveUp(s, f, p)
      OBVIOUS
    <3> HIDE DEF a
    <3> QED BY <1>1, <1>5, <2>4, <3>1, GiveUpDelivers
  <2> HIDE DEF a
  <2>11. t.entry = a.entry /\ t.up = a.up /\ t.ring = a.ring
    BY <2>1
  <2>12. \A i \in Slots : a.ring.slot[i] = p.slot[i] \/ a.ring.slot[i].left = Timeout
    <3>1. CASE a.ring = p
      BY <3>1
    <3>2. CASE a.ring = reorder_ctrl_timer_add(p, f, TRUE)
      <4> DEFINE from == TRUE
                 q == a.ring
      <4>1. q = reorder_ctrl_timer_add(p, f, from)
        BY <3>2
      <4> HIDE DEF from, q
      <4>2. \A i \in Slots : q.slot[i] = IF i = p.head THEN [flow |-> f, left |-> Timeout]
                                         ELSE p.slot[i]
        BY <1>5, <4>1, AddedSlots
      <4> QED BY <4>2 DEF q
    <3> QED BY <2>8, <3>1, <3>2 DEF GiveUpResult
  <2>13. GaveUp(c, t, f, arr)
    BY <2>7, <2>9, <2>11 DEF GaveUp, Untouched
  <2>14. Renewed(t, f)
    <3> SUFFICES ASSUME a.entry[f].rc_timer_id # 0
                 PROVE  a.ring.slot[a.entry[f].rc_timer_id - 1].left = Timeout
      BY <2>11 DEF Renewed
    <3> DEFINE i == a.entry[f].rc_timer_id - 1
    <3>1. i \in Slots /\ a.ring.slot[i].flow = f
      BY <2>4, <2>8, SlotOf DEF GiveUpResult, CoreType
    <3> HIDE DEF i
    <3>2. p.slot[i].flow # f
      BY <2>3, <3>1 DEF MatchesBut
    <3>3. a.ring.slot[i].left = Timeout
      BY <2>12, <3>1, <3>2
    <3> QED BY <3>3 DEF i
  <2>15. ASSUME NEW g \in Flows, g # f PROVE AtMostOnce(c, t, g, arr)
    <3>1. t.entry[g] = s.entry[g] /\ t.up[g] = s.up[g]
      BY <2>8, <2>11, <2>15 DEF GiveUpResult, SameBut
    <3>2. CASE Untouched(c, s, g)
      BY <3>1, <3>2 DEF AtMostOnce, Untouched
    <3>3. CASE GaveUp(c, s, g, arr) /\ Renewed(s, g)
      <4>1. GaveUp(c, t, g, arr)
        BY <3>1, <3>3 DEF GaveUp
      <4>2. \A i \in Slots : r.slot[i].flow = g =>
              t.ring.slot[i].left = r.slot[i].left \/ t.ring.slot[i].left = Timeout
        <5> SUFFICES ASSUME NEW i \in Slots, r.slot[i].flow = g
                     PROVE  t.ring.slot[i].left = r.slot[i].left \/ t.ring.slot[i].left = Timeout
          OBVIOUS
        <5>1. i # r.tail
          BY <2>15 DEF f
        <5>2. p.slot[i] = r.slot[i]
          BY <1>5, <5>1
        <5> QED BY <2>11, <2>12, <5>2
      <4>3. Renewed(t, g)
        BY <1>1, <3>1, <3>3, <4>2, StillRenewed DEF r
      <4> QED BY <4>1, <4>3 DEF AtMostOnce
    <3> QED BY <3>2, <3>3 DEF AtMostOnce
  <2>16. AtMostOnce(c, t, f, arr)
    BY <2>13, <2>14 DEF AtMostOnce
  <2>17. \A g \in Flows : AtMostOnce(c, t, g, arr)
    BY <2>15, <2>16
  <2> QED BY <2>17 DEF t
<1> QED BY <1>4, <1>6, <1>7, <1>8

LEMMA WalkOnce ==
  ASSUME Near, NEW s, NEW h \in Slots, WalkInv(s, h), NEW arr, WindowInv(s.entry, arr),
         \A g \in Flows : arr[g] \subseteq Nat
  PROVE  \A g \in Flows : AtMostOnce(s, Walked(s, h), g, arr)
<1>1. PICK p : /\ p[0] = s
               /\ \A i \in 1 .. RingSize : p[i] = ExpireSlot(p[i - 1], h)
               /\ Walked(s, h) = p[RingSize]
  BY WalkIs
<1> DEFINE Once(t) == \A g \in Flows : AtMostOnce(s, t, g, arr)
           Good == {i \in Nat : i <= RingSize =>
                      WalkInv(p[i], h) /\ WindowInv(p[i].entry, arr) /\ Once(p[i])}
<1>2. RingSize \in Nat \ {0}
  BY ReorderAssumption
<1>3. 0 \in Good
  BY <1>1 DEF AtMostOnce, Untouched
<1>4. ASSUME NEW i \in Nat, i \in Good PROVE i + 1 \in Good
  <2>1. SUFFICES ASSUME i + 1 <= RingSize
                 PROVE  WalkInv(p[i + 1], h) /\ WindowInv(p[i + 1].entry, arr) /\ Once(p[i + 1])
    OBVIOUS
  <2>2. i + 1 \in 1 .. RingSize /\ (i + 1) - 1 = i /\ i <= RingSize
    BY <1>2, <2>1
  <2>3. p[i + 1] = ExpireSlot(p[i], h)
    BY <1>1, <2>2
  <2>4. WalkInv(p[i], h) /\ WindowInv(p[i].entry, arr) /\ Once(p[i])
    BY <1>4, <2>2
  <2>5. WalkInv(p[i + 1], h) /\ WindowInv(p[i + 1].entry, arr)
    BY <2>3, <2>4, ExpireKeeps, ExpireKeepsWindow
  <2>6. Once(p[i + 1])
    BY <2>3, <2>4, ExpireOnce
  <2> QED BY <2>5, <2>6
<1>5. \A i \in Nat : i \in Good
  <2> HIDE DEF Good
  <2> QED BY <1>3, <1>4, SetInduction
<1>6. Once(p[RingSize])
  BY <1>2, <1>5
<1> QED BY <1>1, <1>6

\* A timeout as each flow sees it.
TimedOut(f) ==
  /\ arrived'[f] = arrived[f]
  /\ \/ entry'[f] = entry[f] /\ up'[f] = up[f]
     \/ GivesUp(entry[f], arrived[f], entry'[f], up'[f])

LEMMA TimeoutDelivers ==
  ASSUME IInv, Near, WindowInv(entry, arrived), reorder_ctrl_timeout
  PROVE  \A f \in Flows : TimedOut(f)
<1> DEFINE off == [ring EXCEPT !.sys = Off]
           begin == [entry |-> entry, ring |-> off, up |-> up, stop |-> FALSE]
           h == ring.head
           end == Walked(begin, h)
<1>1. entry \in [Flows -> Entries] /\ ring \in Rings /\ up \in [Flows -> Seq(Frames)]
      /\ Matches(entry, ring) /\ arrived \in [Flows -> SUBSET Frames]
  BY DEF IInv, TypeOK
<1>2. entry' = end.entry /\ up' = end.up /\ arrived' = arrived
  BY DEF reorder_ctrl_timeout
<1>3. h \in Slots /\ ring.tail \in Slots
  BY <1>1, RingType
<1>4. off \in Rings /\ Matches(entry, off) /\ Walking(off, h)
  <2>1. Off \in Off .. Timeout
    BY ReorderAssumption DEF Off
  <2>2. CIRC_CNT(h, h) = 0 /\ CIRC_CNT(h, ring.tail) \in Nat
    BY <1>3, CountIs
  <2>3. \A j \in Slots : CIRC_CNT(j, h) \in Nat
    BY <1>3, CountIs
  <2>4. Walking(ring, h)
    BY <2>2, <2>3 DEF Walking
  <2> HIDE DEF h
  <2> QED BY <1>1, <2>1, <2>4, SysSet
<1>5. WalkInv(begin, h) /\ begin.entry = entry /\ begin.up = up
  <2> HIDE DEF off, h
  <2> QED BY <1>1, <1>4 DEF WalkInv, CoreType
<1> HIDE DEF begin, off, h
<1>6. WindowInv(begin.entry, arrived) /\ \A g \in Flows : arrived[g] \subseteq Nat
  BY <1>1, <1>5, ReorderAssumption
<1>7. \A g \in Flows : AtMostOnce(begin, end, g, arrived)
  BY <1>3, <1>5, <1>6, WalkOnce
<1> HIDE DEF end
<1> SUFFICES ASSUME NEW f \in Flows PROVE TimedOut(f)
  OBVIOUS
<1>8. CASE Untouched(begin, end, f)
  BY <1>2, <1>5, <1>8 DEF Untouched, TimedOut
<1>9. CASE GaveUp(begin, end, f, arrived)
  BY <1>2, <1>5, <1>9 DEF GaveUp, TimedOut
<1> QED BY <1>7, <1>8, <1>9 DEF AtMostOnce

-----------------------------------------------------------------------------
(* The refinement.                                                         *)

LEMMA AbstractIs ==
  ASSUME TypeOK, NEW f \in Flows
  PROVE  /\ f \in {g \in Flows : entry[g].start_rcv} <=> entry[f].start_rcv
         /\ Base(f) = BaseOf(entry[f], arrived[f])
         /\ Held(f) = HeldBy(entry[f])
BY DEF Base, BaseOf, BaseFrom, NewestAt, Newest, Held, HeldBy

\* What the step of one flow comes to.
StayStep(f) == entry'[f] = entry[f] /\ up'[f] = up[f] /\ arrived'[f] = arrived[f]

ThroughStep(f, n) == ~entry[f].start_rcv /\ entry'[f] = entry[f] /\ up'[f] = <<n>>

LateStep(f, n) ==
  /\ entry[f].start_rcv /\ entry'[f] = entry[f] /\ up'[f] = <<n>>
  /\ n < BaseOf(entry[f], arrived[f])
  /\ BaseOf(entry[f], arrived'[f]) = BaseOf(entry[f], arrived[f])

ForgetStep(f) == ~entry'[f].start_rcv /\ HeldBy(entry'[f]) = {} /\ up'[f] = <<>>

FlowStep(f) ==
  \/ \E n \in Frames : Accepted(f, n) \/ Begun(f, n) \/ ThroughStep(f, n) \/ LateStep(f, n)
  \/ TimedOut(f) \/ ForgetStep(f) \/ StayStep(f)

LEMMA NextSteps ==
  ASSUME WInv, Near, NoCopies, [Next]_vars
  PROVE  \A g \in Flows : FlowStep(g)
<1>1. IInv /\ TypeOK /\ WindowInv(entry, arrived)
  BY DEF WInv, IInv
<1>2. ASSUME NEW f \in Flows, FlowStep(f), OthersStay(f)
      PROVE  \A g \in Flows : FlowStep(g)
  <2> SUFFICES ASSUME NEW g \in Flows, g # f PROVE FlowStep(g)
    BY <1>2
  <2>1. StayStep(g)
    BY <1>2 DEF OthersStay, StayStep
  <2> QED BY <2>1 DEF FlowStep
<1>3. ASSUME Receive PROVE \A g \in Flows : FlowStep(g)
  <2>1. PICK f \in Flows, n \in Frames :
          \/ ReceivePlain(f, n) \/ ReceiveFirst(f, n) \/ ReceiveBehind(f, n)
          \/ ReceiveNext(f, n) \/ ReceiveWithin(f, n) \/ ReceiveAgain(f, n)
          \/ ReceiveBeyond(f, n)
    BY <1>3 DEF Receive
  <2>2. ASSUME Arrives(f, n), entry' = entry, up' = [up EXCEPT ![f] = <<n>>]
        PROVE  OthersStay(f) /\ entry'[f] = entry[f] /\ up'[f] = <<n>>
    <3>1. PICK N \in Nat : IsNewest(arrived[f], N)
      BY <1>1 DEF WindowInv, WindowOf
    <3>2. \A g \in Flows \ {f} : arrived'[g] = arrived[g]
      BY <1>1, <2>2, <3>1, Arrival
    <3>3. up \in [Flows -> Seq(Frames)]
      BY <1>1 DEF TypeOK
    <3> QED BY <2>2, <3>2, <3>3 DEF OthersStay
  <2>3. CASE ReceivePlain(f, n)
    <3>1. ThroughStep(f, n) /\ OthersStay(f)
      BY <2>2, <2>3 DEF ReceivePlain, ThroughStep
    <3> QED BY <1>2, <3>1 DEF FlowStep
  <2>4. CASE ReceiveBehind(f, n)
    <3>1. entry[f].start_rcv /\ entry'[f] = entry[f] /\ up'[f] = <<n>> /\ OthersStay(f)
      BY <2>2, <2>4 DEF ReceiveBehind, InSegment
    <3>2. InSegment(f, n, 1)
      BY <2>4 DEF ReceiveBehind
    <3>3. LateStep(f, n)
      BY <1>1, <3>1, <3>2, BehindIsLate DEF LateStep
    <3> QED BY <1>2, <3>1, <3>3 DEF FlowStep
  <2>5. CASE ReceiveAgain(f, n)
    BY <1>1, <2>5, NotAgain
  <2>6. CASE ReceiveFirst(f, n)
    <3>1. Begun(f, n) /\ OthersStay(f)
      BY <1>1, <2>6, FirstBegins
    <3> QED BY <1>2, <3>1 DEF FlowStep
  <2>7. CASE ReceiveNext(f, n)
    <3>1. Accepted(f, n) /\ OthersStay(f)
      BY <1>1, <2>7, NextAccepts
    <3> QED BY <1>2, <3>1 DEF FlowStep
  <2>8. CASE ReceiveWithin(f, n)
    <3>1. Accepted(f, n) /\ OthersStay(f)
      BY <1>1, <2>8, WithinAccepts
    <3> QED BY <1>2, <3>1 DEF FlowStep
  <2>9. CASE ReceiveBeyond(f, n)
    <3>1. Accepted(f, n) /\ OthersStay(f)
      BY <1>1, <2>9, BeyondAccepts
    <3> QED BY <1>2, <3>1 DEF FlowStep
  <2> QED BY <2>1, <2>3, <2>4, <2>5, <2>6, <2>7, <2>8, <2>9
<1>4. ASSUME reorder_ctrl_timeout PROVE \A g \in Flows : FlowStep(g)
  BY <1>1, <1>4, TimeoutDelivers DEF FlowStep
<1>5. ASSUME NEW F \in SUBSET Flows, Released(F) PROVE \A g \in Flows : FlowStep(g)
  <2> SUFFICES ASSUME NEW g \in Flows PROVE FlowStep(g)
    OBVIOUS
  <2>1. arrived' = arrived
        /\ entry'[g] = (IF g \in F THEN NewEntry ELSE entry[g])
        /\ up'[g] = (IF g \in F THEN <<>> ELSE up[g])
    BY <1>5 DEF Released
  <2>2. ~NewEntry.start_rcv /\ HeldBy(NewEntry) = {}
    BY DEF NewEntry, HeldBy
  <2>3. CASE g \in F
    BY <2>1, <2>2, <2>3 DEF FlowStep, ForgetStep
  <2>4. CASE g \notin F
    BY <2>1, <2>4 DEF FlowStep, StayStep
  <2> QED BY <2>3, <2>4
<1>6. ASSUME NEW f \in Flows, Release(f) \/ IdleFlush(f) PROVE \A g \in Flows : FlowStep(g)
  <2>1. {f} \in SUBSET Flows
    OBVIOUS
  <2>2. CASE Release(f)
    BY <1>5, <2>1, <2>2 DEF Release
  <2>3. CASE IdleFlush(f)
    <3> DEFINE none == [i \in 0 .. WinSz - 1 |-> NoFrame]
               no == FALSE
               a == [entry[f] EXCEPT !.start_rcv = no]
               e == [a EXCEPT !.packet_q = none]
    <3>1. entry \in [Flows -> Entries] /\ up \in [Flows -> Seq(Frames)]
      BY <1>1 DEF TypeOK
    <3>2. entry' = [entry EXCEPT ![f] = e] /\ up' = [up EXCEPT ![f] = <<>>] /\ arrived' = arrived
      BY <2>3, <3>1 DEF IdleFlush
    <3>3. no = FALSE /\ \A i \in 0 .. WinSz - 1 : none[i] = NoFrame
      OBVIOUS
    <3>4. e.packet_q = none /\ e.start_rcv = no
      <4> HIDE DEF none, no
      <4>1. a.start_rcv = no
            /\ DOMAIN a = {"packet_q", "start_rcv", "rc_timer_id", "win_start", "last_seq"}
        BY <3>1 DEF Entries
      <4> HIDE DEF a
      <4> QED BY <4>1
    <3> HIDE DEF none, no, a, e
    <3>5. HeldBy(e) = {}
      BY <3>3, <3>4 DEF HeldBy
    <3>6. entry'[f] = e /\ up'[f] = <<>> /\ OthersStay(f)
      BY <3>1, <3>2 DEF OthersStay
    <3>7. ForgetStep(f)
      BY <3>3, <3>4, <3>5, <3>6 DEF ForgetStep
    <3> QED BY <1>2, <3>6, <3>7 DEF FlowStep
  <2> QED BY <1>6, <2>2, <2>3
<1>7. ASSUME Restart PROVE \A g \in Flows : FlowStep(g)
  <2>1. Flows \in SUBSET Flows
    OBVIOUS
  <2> QED BY <1>5, <1>7, <2>1 DEF Restart
<1>8. CASE Tick \/ UNCHANGED vars
  BY <1>8 DEF Tick, vars, FlowStep, StayStep
<1> QED BY <1>3, <1>4, <1>6, <1>7, <1>8 DEF Next

LEMMA StepsRefine ==
  ASSUME TypeOK, TypeOK', NEW f \in Flows, FlowStep(f)
  PROVE  Abstract!Step(f)
<1> DEFINE b == BaseOf(entry[f], arrived[f])
           c == BaseOf(entry[f], arrived[f])'
           open == {g \in Flows : entry[g].start_rcv}
           base == [g \in Flows |-> Base(g)]
           held == [g \in Flows |-> Held(g)]
           Rel(S) ==
             /\ Abstract!Increasing(up'[f])
             /\ Abstract!Elements(up'[f]) \subseteq S
             /\ held'[f] = S \ Abstract!Elements(up'[f])
             /\ \/ /\ f \in open' /\ base'[f] >= base[f]
                   /\ \A n \in Abstract!Elements(up'[f]) : n < base'[f]
                   /\ \A n \in held'[f] : n >= base'[f]
                \/ f \notin open' /\ held'[f] = {}
<1>1. /\ f \in open <=> entry[f].start_rcv
      /\ base[f] = b /\ held[f] = HeldBy(entry[f])
  BY AbstractIs
<1>2. /\ f \in open' <=> entry'[f].start_rcv
      /\ base'[f] = c /\ held'[f] = HeldBy(entry'[f])
      /\ c = BaseOf(entry'[f], arrived'[f])
  <2>1. (f \in open <=> entry[f].start_rcv)'
    OBVIOUS
  <2>2. Base(f)' = BaseOf(entry[f], arrived[f])'
    BY DEF Base, BaseOf, BaseFrom, NewestAt, Newest
  <2>3. Held(f)' = HeldBy(entry'[f])
    BY DEF Held, HeldBy
  <2>4. c = BaseOf(entry'[f], arrived'[f])
    BY DEF BaseOf, BaseFrom, NewestAt
  <2>5. base'[f] = Base(f)' /\ held'[f] = Held(f)'
    OBVIOUS
  <2> QED BY <2>1, <2>2, <2>3, <2>4, <2>5
<1>3. ASSUME NEW S, Delivers(b, entry'[f], arrived'[f], S, up'[f])
      PROVE  Rel(S)
  <2> HIDE DEF open, base, held, b, c
  <2> QED BY <1>1, <1>2, <1>3 DEF Delivers, Elements, b
<1>4. ASSUME NEW n \in Frames, Accepted(f, n) PROVE Abstract!Accept(f, n)
  <2>1. f \in open /\ n >= base[f] /\ Rel(held[f] \cup {n})
    <3> HIDE DEF open, base, held
    <3> QED BY <1>1, <1>3, <1>4 DEF Accepted
  <2> QED BY <2>1 DEF Abstract!Accept, Abstract!Released
<1>5. ASSUME NEW n \in Frames, Begun(f, n) PROVE Abstract!Begin(f, n)
  <2>1. f \notin open /\ f \in open' /\ up'[f] = <<n>> /\ base'[f] = n + 1 /\ held'[f] = {}
    <3> HIDE DEF open, base, held
    <3> QED BY <1>1, <1>2, <1>5 DEF Begun
  <2> QED BY <2>1 DEF Abstract!Begin
<1>6. ASSUME NEW n \in Frames, ThroughStep(f, n) PROVE Abstract!Through(f, n)
  <2>1. f \notin open /\ f \notin open' /\ up'[f] = <<n>> /\ held'[f] = held[f]
    <3> HIDE DEF open, base, held
    <3> QED BY <1>1, <1>2, <1>6 DEF ThroughStep
  <2> QED BY <2>1 DEF Abstract!Through
<1>7. ASSUME NEW n \in Frames, LateStep(f, n) PROVE Abstract!Late(f, n)
  <2>1. /\ f \in open /\ f \in open' /\ n < base[f] /\ up'[f] = <<n>>
        /\ base'[f] = base[f] /\ held'[f] = held[f]
    <3> HIDE DEF open, base, held
    <3> QED BY <1>1, <1>2, <1>7 DEF LateStep
  <2> QED BY <2>1 DEF Abstract!Late
<1>8. ASSUME entry'[f] = entry[f], up'[f] = up[f], arrived'[f] = arrived[f]
      PROVE  Abstract!Unmoved(f)
  <2>1. /\ f \in open <=> f \in open'
        /\ base'[f] = base[f] /\ held'[f] = held[f] /\ up'[f] = up[f]
    <3> HIDE DEF open, base, held
    <3> QED BY <1>1, <1>2, <1>8
  <2> QED BY <2>1 DEF Abstract!Unmoved
<1>10. ASSUME ForgetStep(f) PROVE Abstract!Forget(f)
  <2>1. f \notin open' /\ held'[f] = {} /\ up'[f] = <<>>
    <3> HIDE DEF open, base, held
    <3> QED BY <1>2, <1>10 DEF ForgetStep
  <2> QED BY <2>1 DEF Abstract!Forget
<1>9. ASSUME TimedOut(f)
      PROVE  Abstract!GiveUp(f) \/ Abstract!Forget(f) \/ Abstract!Unmoved(f)
  <2>1. CASE entry'[f] = entry[f] /\ up'[f] = up[f]
    BY <1>8, <1>9, <2>1 DEF TimedOut
  <2>2. CASE /\ entry[f].start_rcv
             /\ Delivers(b, entry'[f], arrived'[f], HeldBy(entry[f]), up'[f])
    <3>1. f \in open /\ Rel(held[f])
      <4> HIDE DEF open, base, held
      <4> QED BY <1>1, <1>3, <2>2
    <3> QED BY <3>1 DEF Abstract!GiveUp, Abstract!Released
  <2>3. CASE ForgetStep(f)
    BY <1>10, <2>3
  <2> QED BY <1>9, <2>1, <2>2, <2>3 DEF TimedOut, GivesUp, ForgetStep
<1>11. ASSUME StayStep(f) PROVE Abstract!Unmoved(f)
  BY <1>8, <1>11 DEF StayStep
<1> HIDE DEF open, base, held, b, c
<1> QED BY <1>4, <1>5, <1>6, <1>7, <1>9, <1>10, <1>11 DEF FlowStep, Abstract!Step

\* While a window is open, the frames of a flow go up in order, none that is
\* held is lost or overtaken, and the window only moves forward, although the
\* code sees numbers modulo 4096 and keeps frames in slots modulo the window
\* size (reorder_ctrl_check, reorder_ctrl_timeout, reorder_ctrl_consumeQ):
\* each of its steps is one that InOrderDelivery allows.  The constants are
\* those of HoldersAlwaysWait.
THEOREM DeliveredInOrder ==
  ASSUME Near, NoCopies
  PROVE  Spec => DeliversInOrder
<1>1. Init => Abstract!Init
  <2> SUFFICES ASSUME Init PROVE Abstract!Init
    OBVIOUS
  <2>1. \A f \in Flows : entry[f] = NewEntry
    BY DEF Init
  <2>2. ~NewEntry.start_rcv /\ {NewEntry.packet_q[i] : i \in 0 .. WinSz - 1} \ {NoFrame} = {}
    BY DEF NewEntry
  <2>3. \A f \in Flows : ~entry[f].start_rcv /\ Base(f) = 0 /\ Held(f) = {}
    BY <2>1, <2>2 DEF Base, Held
  <2>4. up = [f \in Flows |-> <<>>]
    BY DEF Init
  <2> QED BY <2>3, <2>4 DEF Abstract!Init
<1>2. WInv /\ WInv' /\ [Next]_vars => [\A f \in Flows : Abstract!Step(f)]_(Abstract!vars)
  <2> SUFFICES ASSUME WInv, WInv', [Next]_vars PROVE \A f \in Flows : Abstract!Step(f)
    OBVIOUS
  <2>1. \A f \in Flows : FlowStep(f)
    BY NextSteps
  <2>2. TypeOK /\ TypeOK'
    BY DEF WInv, IInv
  <2> QED BY <2>1, <2>2, StepsRefine
<1>3. WInv /\ [Next]_vars => WInv'
  BY WInvStep
<1> QED BY <1>1, <1>2, <1>3, WInvInit, PTL DEF Spec, DeliversInOrder, Abstract!Spec

=============================================================================
