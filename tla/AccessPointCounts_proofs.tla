------------------------ MODULE AccessPointCounts_proofs ------------------------
(***************************************************************************)
(* AssocCounted: assoc_num is the number of associated stations that are   *)
(* not expired.  Every handler is about one station: it changes the count  *)
(* as that station becomes active or ceases to be, which is Tallies.       *)
(***************************************************************************)
EXTENDS AccessPoint_proofs

\* u differs from t in at most the station i, and the count follows it.
Tallies(t, u, i) ==
  /\ \A j \in Slots \ {i} : j \in Active(u) <=> j \in Active(t)
  /\ (i \in Active(t) <=> i \in Active(u)) => u.assoc_num = t.assoc_num
  /\ i \in Active(t) /\ i \notin Active(u) /\ t.assoc_num > 0 =>
       u.assoc_num = t.assoc_num - 1
  /\ i \notin Active(t) /\ i \in Active(u) /\ t.assoc_num <= NUM_STAT =>
       u.assoc_num = t.assoc_num + 1

\* The count of t is right, the stations in X left aside.
CountedBut(t, X) == t.assoc_num = Cardinality(Active(t) \ X)

LEMMA ActiveFinite ==
  ASSUME NEW t \in Tables, NEW X
  PROVE  /\ Active(t) \subseteq Slots /\ IsFiniteSet(Active(t) \ X)
         /\ Cardinality(Active(t) \ X) \in 0 .. NUM_STAT
<1>1. Active(t) \subseteq Slots
  BY DEF Active, Tables
<1>2. Active(t) \ X \subseteq Slots
  BY <1>1
<1>3. IsFiniteSet(Active(t) \ X) /\ Cardinality(Active(t) \ X) <= NUM_STAT
  BY <1>2, FS_Subset, TableAssumption DEF NUM_STAT
<1>4. Cardinality(Active(t) \ X) \in Nat
  BY <1>3, FS_CardinalityType
<1>5. QED
  BY <1>1, <1>3, <1>4, SlotsCounted

LEMMA CountFollows ==
  ASSUME NEW t \in Tables, NEW u \in Tables, NEW i \in Slots, Tallies(t, u, i),
         NEW X, CountedBut(t, X),
         i \in X => (i \in Active(t) <=> i \in Active(u))
  PROVE  CountedBut(u, X)
<1> DEFINE A == Active(t) \ X
           B == Active(u) \ X
<1>1. /\ Active(t) \subseteq Slots /\ Active(u) \subseteq Slots
      /\ IsFiniteSet(A) /\ Cardinality(A) \in 0 .. NUM_STAT
  BY ActiveFinite
<1>2. t.assoc_num = Cardinality(A)
  BY DEF CountedBut
<1>3. CASE i \in Active(t) <=> i \in Active(u)
  <2>1. A = B
    BY <1>1, <1>3 DEF Tallies
  <2>2. QED
    BY <1>2, <1>3, <2>1 DEF Tallies, CountedBut
<1>4. CASE i \in Active(t) /\ i \notin Active(u)
  <2>1. i \in A /\ B = A \ {i}
    BY <1>1, <1>4 DEF Tallies
  <2> HIDE DEF A, B
  <2>2. IsFiniteSet(B) /\ Cardinality(B) = Cardinality(A) - 1
    BY <1>1, <2>1, FS_RemoveElement
  <2>3. Cardinality(B) \in Nat
    BY <2>2, FS_CardinalityType
  <2>4. u.assoc_num = t.assoc_num - 1
    BY <1>1, <1>2, <1>4, <2>2, <2>3, SlotsCounted DEF Tallies
  <2>5. QED
    BY <1>2, <2>2, <2>4 DEF CountedBut, B
<1>5. CASE i \notin Active(t) /\ i \in Active(u)
  <2>1. i \notin A /\ B = A \cup {i}
    BY <1>1, <1>5 DEF Tallies
  <2> HIDE DEF A, B
  <2>2. Cardinality(B) = Cardinality(A) + 1
    BY <1>1, <2>1, FS_AddElement
  <2>3. u.assoc_num = t.assoc_num + 1
    BY <1>1, <1>2, <1>5, SlotsCounted DEF Tallies
  <2>4. QED
    BY <1>2, <2>2, <2>3 DEF CountedBut, B
<1>6. QED
  BY <1>3, <1>4, <1>5

-----------------------------------------------------------------------------
(* Operations *)

\* u rewrites the station i and counts nothing.
Quiet(t, u, i) ==
  Elsewhere(t, u, i) /\ u.asoc \ {i} = t.asoc \ {i} /\ u.assoc_num = t.assoc_num

LEMMA QuietTrans ==
  ASSUME NEW t, NEW u, NEW w, NEW i \in Slots, Quiet(t, u, i), Quiet(u, w, i)
  PROVE  Quiet(t, w, i)
BY DEF Quiet, Elsewhere

LEMMA QuietTallies ==
  ASSUME NEW t \in Tables, NEW u \in Tables, NEW i \in Slots, Quiet(t, u, i),
         i \in Active(t) <=> i \in Active(u)
  PROVE  Tallies(t, u, i)
BY DEF Quiet, Elsewhere, Tallies, Active

LEMMA TalliesOnwards ==
  ASSUME NEW t \in Tables, NEW u \in Tables, NEW w \in Tables, NEW i \in Slots,
         Tallies(t, u, i), Quiet(u, w, i), i \notin u.asoc, i \notin w.asoc
  PROVE  Tallies(t, w, i)
<1>1. \A j \in Slots \ {i} : j \in Active(w) <=> j \in Active(u)
  BY DEF Quiet, Elsewhere, Active
<1>2. i \notin Active(u) /\ i \notin Active(w)
  BY DEF Active
<1>3. QED
  BY <1>1, <1>2 DEF Tallies, Quiet

LEMMA LeaveAsocTallies ==
  ASSUME NEW t \in Tables, NEW i \in Slots, NEW u, u = LeaveAsoc(t, i)
  PROVE  u \in Tables /\ Tallies(t, u, i) /\ i \notin u.asoc /\ u.sta = t.sta
<1> DEFINE v == [t EXCEPT !.asoc = t.asoc \ {i}]
<1>1. v \in Tables
  BY DEF Tables
<1>2. /\ v.sta = t.sta /\ v.asoc = t.asoc \ {i} /\ v.assoc_num = t.assoc_num
      /\ i \notin v.asoc
  BY DEF Tables
<1>3. /\ i \notin t.asoc => u = t
      /\ i \in t.asoc /\ t.sta[i].expire_to > 0 => u = Decrease(v, i)
      /\ i \in t.asoc /\ ~(t.sta[i].expire_to > 0) => u = v
  BY DEF LeaveAsoc, Tables
<1> HIDE DEF v
<1>4. \A j \in Slots \ {i} : j \in Active(v) <=> j \in Active(t)
  BY <1>2 DEF Active
<1>5. CASE i \notin t.asoc
  BY <1>3, <1>5 DEF Tallies
<1>6. CASE i \in t.asoc /\ t.sta[i].expire_to > 0
  <2>1. /\ u \in Tables /\ u.sta = v.sta /\ SameLists(v, u)
        /\ v.assoc_num > 0 => u.assoc_num = v.assoc_num - 1
    BY <1>1, <1>3, <1>6, DecreaseIs
  <2>2. Active(u) = Active(v) /\ i \notin Active(u) /\ i \in Active(t)
    BY <1>2, <1>6, <2>1 DEF Active, SameLists
  <2>3. Tallies(t, u, i)
    BY <1>2, <1>4, <2>1, <2>2 DEF Tallies
  <2>4. QED
    BY <1>2, <2>1, <2>3 DEF SameLists
<1>7. CASE i \in t.asoc /\ ~(t.sta[i].expire_to > 0)
  <2>1. i \notin Active(v) /\ i \notin Active(t)
    BY <1>2, <1>7 DEF Active
  <2>2. QED
    BY <1>1, <1>2, <1>3, <1>4, <1>7, <2>1 DEF Tallies
<1>8. QED
  BY <1>5, <1>6, <1>7

LEMMA ReleaseQuiet ==
  ASSUME NEW t \in Tables, NEW i \in Slots, NEW u, u = release_stainfo(t, i)
  PROVE  u \in Tables /\ Quiet(t, u, i) /\ i \notin u.asoc
<1>1. u \in Tables /\ Elsewhere(t, u, i) /\ u.asoc = t.asoc \ {i}
      /\ u.assoc_num = t.assoc_num
  BY ReleaseIs
<1>2. QED
  BY <1>1 DEF Quiet

LEMMA InitQuiet ==
  ASSUME NEW t \in Tables, NEW i \in Slots, NEW u, u = init_stainfo(t, i)
  PROVE  u \in Tables /\ Quiet(t, u, i) /\ u.asoc = t.asoc
BY InitIs DEF Quiet, SameLists

LEMMA PutQuiet ==
  ASSUME NEW t \in Tables, NEW i \in Slots, NEW s \in Stations, NEW u, u = Put(t, i, s)
  PROVE  u \in Tables /\ Quiet(t, u, i) /\ u.asoc = t.asoc /\ u.sta[i] = s
BY PutIs DEF Quiet, SameLists

LEMMA FreeQuiet ==
  ASSUME NEW t \in Tables, NEW i \in Slots, NEW u, u = free_stainfo(t, i),
         i \notin t.asoc
  PROVE  u \in Tables /\ Quiet(t, u, i) /\ i \notin u.asoc
<1>1. CASE i \in Used(t)
  BY <1>1, FreeIs DEF Quiet
<1>2. CASE i \notin Used(t)
  BY <1>2 DEF free_stainfo, Used, Quiet, Elsewhere
<1>3. QED
  BY <1>1, <1>2

-----------------------------------------------------------------------------
(* Handlers *)

LEMMA FoundSame ==
  ASSUME NEW t, NEW a \in Addrs, Good(t), NEW f, f = Found(t, a)
  PROVE  /\ f \in Tables /\ Good(f) /\ Used(f) = Used(t) /\ f.sta = t.sta
         /\ f.asoc = t.asoc /\ f.assoc_num = t.assoc_num
         /\ Lookup(t, a) # NoSlot => Lookup(t, a) \in Slots /\ Lookup(t, a) \in Used(t)
<1>1. /\ f.asoc = t.asoc /\ f.assoc_num = t.assoc_num
  BY LookupIs DEF Good, Consistent
<1>2. /\ Good(f) /\ Used(f) = Used(t) /\ f.sta = t.sta
      /\ Lookup(t, a) \in Used(t) \cup {NoSlot}
  BY FoundGood DEF Step
<1>3. QED
  BY <1>1, <1>2 DEF Good, Used

\* A lookup changes nothing that counts.
LEMMA TalliesBefore ==
  ASSUME NEW t, NEW f, NEW u, NEW i, f.sta = t.sta, f.asoc = t.asoc,
         f.assoc_num = t.assoc_num, Tallies(f, u, i)
  PROVE  Tallies(t, u, i)
<1>1. Active(f) = Active(t)
  BY DEF Active
<1>2. QED
  BY <1>1 DEF Tallies

LEMMA AuthenticateQuiet ==
  ASSUME NEW t \in Tables, NEW i \in Slots, i \notin t.asoc, NEW seq \in AuthSeqs,
         NEW algorithm, NEW w \in Authenticate(t, i, seq, algorithm)
  PROVE  w \in Tables /\ Quiet(t, w, i) /\ w.asoc = t.asoc
<1> DEFINE n == IF t.sta[i].auth_seq = 0 THEN AuthTo ELSE t.sta[i].expire_to
           s == [t.sta[i] EXCEPT !.expire_to = n]
           v == [t EXCEPT !.auth = t.auth \cup {i}]
           u == [t EXCEPT !.auth = @ \cup {i},
                          !.sta[i] = [@ EXCEPT !.expire_to =
                                        IF t.sta[i].auth_seq = 0 THEN AuthTo
                                        ELSE t.sta[i].expire_to]]
           c == [u.sta[i] EXCEPT !.state = "state1", !.auth_seq = 2]
           d == [u.sta[i] EXCEPT !.state = "success", !.expire_to = AssocTo, !.auth_seq = 0]
           f == [u.sta[i] EXCEPT !.auth_seq = seq + 1]
           challenged == [u EXCEPT !.sta[i] = [@ EXCEPT !.state = "state1", !.auth_seq = 2]]
<1>1. n \in 0 .. Forever
  BY LifeTimes, StationsOf DEF Stations
<1>2. s \in Stations
  BY <1>1, StationsOf DEF Stations
<1>3. v \in Tables /\ Quiet(t, v, i) /\ v.asoc = t.asoc /\ v.sta = t.sta
  BY DEF Tables, Quiet, Elsewhere
<1>4. u = Put(v, i, s)
  BY DEF Put, Tables, Stations
<1>5. /\ challenged = Put(u, i, c) /\ Authenticated(u, i) = Put(u, i, d)
      /\ AuthFailed(u, i, seq) = Put(u, i, f)
  BY DEF Put, Authenticated, AuthFailed
<1>6. w \in {AuthFailed(u, i, seq), Authenticated(u, i), challenged}
  BY TableAssumption DEF Authenticate
<1> HIDE DEF n, s, v, u
<1>7. u \in Tables /\ Quiet(v, u, i) /\ u.asoc = v.asoc
  BY <1>2, <1>3, <1>4, PutQuiet
<1>8. seq + 1 \in {0, 2, 4}
  BY TableAssumption
<1>9. c \in Stations /\ d \in Stations /\ f \in Stations
  <2>1. u.sta[i] \in Stations
    BY <1>7, StationsOf
  <2>2. QED
    BY <2>1, <1>8, LifeTimes DEF Stations
<1> HIDE DEF c, d, f
<1>10. w \in Tables /\ Quiet(u, w, i) /\ w.asoc = u.asoc
  BY <1>5, <1>6, <1>7, <1>9, PutQuiet
<1>11. QED
  BY <1>3, <1>7, <1>10, QuietTrans

LEMMA AuthAnewTallies ==
  ASSUME NEW t \in Tables, NEW i \in Slots, NEW seq, NEW w, w = AuthAnew(t, i, seq)
  PROVE  w \in Tables /\ Tallies(t, w, i) /\ i \notin w.asoc
<1> DEFINE u == LeaveAsoc(t, i)
           r == release_stainfo(u, i)
           z == init_stainfo(r, i)
<1>1. u \in Tables /\ Tallies(t, u, i) /\ i \notin u.asoc
  BY LeaveAsocTallies
<1>2. w \in {u, z}
  BY DEF AuthAnew
<1> HIDE DEF u
<1>3. r \in Tables /\ Quiet(u, r, i) /\ i \notin r.asoc
  BY <1>1, ReleaseQuiet
<1> HIDE DEF r
<1>4. z \in Tables /\ Quiet(r, z, i) /\ z.asoc = r.asoc
  BY <1>3, InitQuiet
<1> HIDE DEF z
<1>5. Tallies(t, z, i)
  BY <1>1, <1>3, <1>4, QuietTrans, TalliesOnwards
<1>6. QED
  BY <1>1, <1>2, <1>3, <1>4, <1>5

\* Only an entry no active station has is taken for another one.
LEMMA TakenTallies ==
  ASSUME NEW t, NEW i \in Slots, NEW a \in Addrs, Good(t), i \in Allocatable(t),
         NEW w, w = Taken(t, i, a)
  PROVE  w \in Tables /\ Tallies(t, w, i) /\ i \notin w.asoc
<1> DEFINE r == IF t.sta[i].used THEN release_stainfo(t, i) ELSE t
           s == [r.sta[i] EXCEPT !.used = TRUE, !.hwaddr = a]
           p == Put(r, i, s)
<1>0. t \in Tables
  BY DEF Good
<1>1. w = init_stainfo(p, i)
  BY DEF Taken, Put
<1>2. i \notin Active(t)
  <2>1. i \in Unused(t) \/ i \in Expired(t)
    BY TableAssumption DEF Allocatable, NeverUsed
  <2>2. i \in Unused(t) => i \notin t.asoc
    BY DEF Unused, Good, Consistent
  <2>3. i \in Expired(t) => t.sta[i].expire_to = 0
    BY DEF Expired
  <2>4. QED
    BY <2>1, <2>2, <2>3 DEF Active
<1>3. r \in Tables /\ Quiet(t, r, i) /\ i \notin r.asoc
  <2>1. CASE t.sta[i].used
    BY <1>0, <2>1, ReleaseQuiet
  <2>2. CASE ~t.sta[i].used
    BY <2>2, <1>0 DEF Good, Consistent, Used, Quiet, Elsewhere
  <2>3. QED
    BY <2>1, <2>2
<1> HIDE DEF r
<1>4. s \in Stations
  <2>1. r.sta[i] \in Stations
    BY <1>3, StationsOf
  <2>2. QED
    BY <2>1 DEF Stations
<1> HIDE DEF s
<1>5. p \in Tables /\ Quiet(r, p, i) /\ p.asoc = r.asoc
  BY <1>3, <1>4, PutQuiet
<1> HIDE DEF p
<1>6. w \in Tables /\ Quiet(p, w, i) /\ w.asoc = p.asoc
  BY <1>1, <1>5, InitQuiet
<1>7. Quiet(t, w, i) /\ i \notin w.asoc
  BY <1>3, <1>5, <1>6, QuietTrans
<1>8. Tallies(t, w, i)
  BY <1>0, <1>2, <1>6, <1>7, QuietTallies DEF Active
<1>9. QED
  BY <1>6, <1>7, <1>8

\* A step is about one station at most.
Follows(t, u) ==
  \/ u.assoc_num = t.assoc_num /\ Active(u) = Active(t)
  \/ \E i \in Slots : Tallies(t, u, i)

LEMMA OnAuthFollows ==
  ASSUME Good(table), NEW a \in Addrs, NEW seq \in AuthSeqs, NEW algorithm,
         OnAuth(a, seq, algorithm)
  PROVE  Follows(table, table')
<1> DEFINE p == Lookup(table, a)
           t == Found(table, a)
<1>1. /\ t \in Tables /\ Good(t) /\ t.sta = table.sta
      /\ t.asoc = table.asoc /\ t.assoc_num = table.assoc_num
      /\ p # NoSlot => p \in Slots
  BY FoundSame
<1>2. CASE p # NoSlot
  <2> DEFINE u == AuthAnew(t, p, seq)
  <2>1. p \in Slots
    BY <1>1, <1>2
  <2>2. table' \in Authenticate(u, p, seq, algorithm)
    BY <1>2 DEF OnAuth
  <2> HIDE DEF p, t
  <2>3. u \in Tables /\ Tallies(t, u, p) /\ p \notin u.asoc
    BY <1>1, <2>1, AuthAnewTallies
  <2> HIDE DEF u
  <2>4. table' \in Tables /\ Quiet(u, table', p) /\ table'.asoc = u.asoc
    BY <2>1, <2>2, <2>3, AuthenticateQuiet
  <2>5. Tallies(t, table', p)
    BY <1>1, <2>1, <2>3, <2>4, TalliesOnwards
  <2>6. Tallies(table, table', p)
    BY <1>1, <2>5, TalliesBefore
  <2>7. QED
    BY <2>1, <2>6 DEF Follows
<1>3. CASE p = NoSlot
  <2>1. PICK i \in Allocatable(t) :
          IF i = NoSlot THEN table' = t
          ELSE table' \in Authenticate(Taken(t, i, a), i, seq, algorithm)
    BY <1>3 DEF OnAuth
  <2>2. i \in Slots \cup {NoSlot}
    BY <1>1 DEF Allocatable, Unused, NeverUsed, Expired, Good, Tables
  <2>3. CASE i = NoSlot
    BY <1>1, <2>1, <2>3 DEF Active, Follows
  <2>4. CASE i # NoSlot
    <3> DEFINE u == Taken(t, i, a)
    <3>1. i \in Slots /\ table' \in Authenticate(u, i, seq, algorithm)
      BY <2>1, <2>2, <2>4
    <3> HIDE DEF t
    <3>2. u \in Tables /\ Tallies(t, u, i) /\ i \notin u.asoc
      BY <1>1, <2>1, <3>1, TakenTallies
    <3> HIDE DEF u
    <3>3. table' \in Tables /\ Quiet(u, table', i) /\ table'.asoc = u.asoc
      BY <3>1, <3>2, AuthenticateQuiet
    <3>4. Tallies(t, table', i)
      BY <1>1, <3>1, <3>2, <3>3, TalliesOnwards
    <3>5. Tallies(table, table', i)
      BY <1>1, <3>4, TalliesBefore
    <3>6. QED
      BY <3>1, <3>5 DEF Follows
  <2>5. QED
    BY <2>3, <2>4
<1>4. QED
  BY <1>2, <1>3

LEMMA PutTallies ==
  ASSUME NEW t \in Tables, NEW i \in Slots, NEW s \in Stations,
         s.expire_to > 0 <=> t.sta[i].expire_to > 0, NEW u, u = Put(t, i, s)
  PROVE  u \in Tables /\ Tallies(t, u, i)
<1>1. u \in Tables /\ Quiet(t, u, i) /\ u.asoc = t.asoc /\ u.sta[i] = s
  BY PutQuiet
<1>2. i \in Active(t) <=> i \in Active(u)
  BY <1>1 DEF Active
<1>3. QED
  BY <1>1, <1>2, QuietTallies

LEMMA TalliesLater ==
  ASSUME NEW t \in Tables, NEW u \in Tables, NEW w, NEW i \in Slots,
         Quiet(t, u, i), i \in Active(t) <=> i \in Active(u), Tallies(u, w, i)
  PROVE  Tallies(t, w, i)
<1>1. Active(t) \subseteq Slots /\ Active(u) \subseteq Slots
  BY DEF Active, Tables
<1>2. \A j \in Slots : j \in Active(u) <=> j \in Active(t)
  BY DEF Quiet, Elsewhere, Active
<1>3. u.assoc_num = t.assoc_num
  BY DEF Quiet
<1>4. QED
  BY <1>1, <1>2, <1>3 DEF Tallies

LEMMA AuthRefusedFollows ==
  ASSUME Good(table), NEW a \in Addrs, NEW seq \in AuthSeqs, AuthRefused(a, seq)
  PROVE  Follows(table, table')
<1> DEFINE p == Lookup(table, a)
           t == Found(table, a)
           s == [t.sta[p] EXCEPT !.auth_seq = seq + 1]
<1>1. /\ t \in Tables /\ t.sta = table.sta
      /\ t.asoc = table.asoc /\ t.assoc_num = table.assoc_num
      /\ p # NoSlot => p \in Slots
  BY FoundSame
<1>2. table' = IF p = NoSlot THEN t ELSE Put(t, p, s)
  BY DEF AuthRefused, AuthFailed, Put
<1>3. CASE p = NoSlot
  BY <1>1, <1>2, <1>3 DEF Active, Follows
<1>4. CASE p # NoSlot
  <2>1. p \in Slots /\ t.sta[p] \in Stations
    BY <1>1, <1>4, StationsOf
  <2>2. seq + 1 \in {0, 2, 4}
    BY TableAssumption
  <2>3. s \in Stations /\ s.expire_to = t.sta[p].expire_to
    BY <2>1, <2>2 DEF Stations
  <2> HIDE DEF s, p, t
  <2>4. Tallies(t, table', p)
    BY <1>1, <1>2, <1>4, <2>1, <2>3, PutTallies
  <2>5. QED
    BY <1>1, <2>1, <2>4, TalliesBefore DEF Follows
<1>5. QED
  BY <1>3, <1>4

LEMMA AssociatedTallies ==
  ASSUME NEW t \in Tables, NEW i \in Slots, NEW w, w = Associated(t, i)
  PROVE  Tallies(t, w, i)
<1> DEFINE s == [t.sta[i] EXCEPT !.expire_to = ExpireTo]
           v == [t EXCEPT !.auth = t.auth \ {i}]
           x == [v EXCEPT !.asoc = v.asoc \cup {i}]
           y == Put(x, i, s)
<1>1. /\ v \in Tables /\ v.sta = t.sta /\ v.asoc = t.asoc
      /\ v.assoc_num = t.assoc_num
  BY DEF Tables
<1>2. CASE i \in t.asoc
  <2>1. w = v
    BY <1>2 DEF Associated
  <2> HIDE DEF v
  <2>2. QED
    BY <1>1, <2>1 DEF Tallies, Active
<1>3. CASE i \notin t.asoc
  <2>1. w = Increase(y, i)
    BY <1>3 DEF Associated, Put, Tables
  <2> HIDE DEF v
  <2>2. /\ x \in Tables /\ x.sta = t.sta /\ x.asoc = t.asoc \cup {i}
        /\ x.assoc_num = t.assoc_num
    BY <1>1 DEF Tables
  <2>3. s \in Stations /\ s.expire_to > 0
    BY StationsOf, LifeTimes DEF Stations
  <2> HIDE DEF x, s
  <2>4. y \in Tables /\ Quiet(x, y, i) /\ y.asoc = x.asoc /\ y.sta[i] = s
    BY <2>2, <2>3, PutQuiet
  <2> HIDE DEF y
  <2>5. /\ w.sta = y.sta /\ w.asoc = y.asoc
        /\ y.assoc_num <= NUM_STAT => w.assoc_num = y.assoc_num + 1
    BY <2>1, <2>4, IncreaseIs DEF SameLists
  <2>6. \A j \in Slots \ {i} : j \in Active(w) <=> j \in Active(t)
    BY <2>2, <2>4, <2>5 DEF Quiet, Elsewhere, Active
  <2>7. i \in Active(w) /\ i \notin Active(t)
    BY <1>3, <2>2, <2>3, <2>4, <2>5 DEF Active
  <2>8. y.assoc_num = t.assoc_num
    BY <2>2, <2>4 DEF Quiet
  <2>9. QED
    BY <2>5, <2>6, <2>7, <2>8 DEF Tallies
<1>4. QED
  BY <1>2, <1>3

LEMMA OnAssocReqFollows ==
  ASSUME Good(table), NEW a \in Addrs, NEW ht \in BOOLEAN, NEW acceptable,
         OnAssocReq(a, ht, acceptable)
  PROVE  Follows(table, table')
<1> DEFINE p == Lookup(table, a)
           t == Found(table, a)
           b == t.sta[p].ht \/ ht
           s == [t.sta[p] EXCEPT !.ht = b]
           u == Put(t, p, s)
<1>1. /\ t \in Tables /\ t.sta = table.sta
      /\ t.asoc = table.asoc /\ t.assoc_num = table.assoc_num
      /\ p # NoSlot => p \in Slots
  BY FoundSame
<1>2. p # NoSlot /\ table' = IF acceptable THEN Associated(u, p) ELSE u
  BY DEF OnAssocReq, Put
<1>3. p \in Slots /\ t.sta[p] \in Stations
  BY <1>1, <1>2, StationsOf
<1>4. b \in BOOLEAN
  BY <1>3 DEF Stations
<1> HIDE DEF b
<1>5. s \in Stations /\ s.expire_to = t.sta[p].expire_to
  BY <1>3, <1>4 DEF Stations
<1> HIDE DEF p, t, s
<1>6. /\ u \in Tables /\ Quiet(t, u, p) /\ u.asoc = t.asoc /\ u.sta[p] = s
      /\ Tallies(t, u, p)
  BY <1>1, <1>3, <1>5, PutQuiet, PutTallies
<1> HIDE DEF u
<1>7. p \in Active(t) <=> p \in Active(u)
  BY <1>5, <1>6 DEF Active
<1>8. Tallies(u, Associated(u, p), p)
  BY <1>3, <1>6, AssociatedTallies
<1>9. Tallies(t, table', p)
  BY <1>1, <1>2, <1>3, <1>6, <1>7, <1>8, TalliesLater
<1>10. QED
  BY <1>1, <1>3, <1>9, TalliesBefore DEF Follows

LEMMA OnDisassocFollows ==
  ASSUME Good(table), NEW a \in Addrs, OnDisassoc(a), table' \in Tables
  PROVE  Follows(table, table')
<1> DEFINE i == Lookup(table, a)
           t == Found(table, a)
           l == LeaveAsoc(t, i)
           r == release_stainfo(l, i)
           z == init_stainfo(r, i)
           s == [z.sta[i] EXCEPT !.state = "success", !.expire_to = AssocTo]
           y == Put(z, i, s)
<1>1. /\ t \in Tables /\ t.sta = table.sta
      /\ t.asoc = table.asoc /\ t.assoc_num = table.assoc_num
      /\ i # NoSlot => i \in Slots
  BY FoundSame
<1>2. i \in Slots /\ table' = Disassociated(t, i)
  BY <1>1 DEF OnDisassoc
<1> HIDE DEF i, t
<1>3. l \in Tables /\ Tallies(t, l, i) /\ i \notin l.asoc
  BY <1>1, <1>2, LeaveAsocTallies
<1>4. table' = [z EXCEPT !.sta[i] = s, !.auth = @ \cup {i}]
  BY <1>2 DEF Disassociated
<1> HIDE DEF l
<1>5. r \in Tables /\ Quiet(l, r, i) /\ i \notin r.asoc
  BY <1>2, <1>3, ReleaseQuiet
<1> HIDE DEF r
<1>6. z \in Tables /\ Quiet(r, z, i) /\ z.asoc = r.asoc
  BY <1>2, <1>5, InitQuiet
<1> HIDE DEF z
<1>7. s \in Stations
  <2>1. z.sta[i] \in Stations
    BY <1>2, <1>6, StationsOf
  <2>2. QED
    BY <2>1, LifeTimes DEF Stations
<1>8. table' = [y EXCEPT !.auth = y.auth \cup {i}]
  BY <1>2, <1>4, <1>6 DEF Tables, Put
<1> HIDE DEF s
<1>9. y \in Tables /\ Quiet(z, y, i) /\ y.asoc = z.asoc
  BY <1>2, <1>6, <1>7, PutQuiet
<1> HIDE DEF y
<1>10. /\ table'.sta = y.sta /\ table'.asoc = y.asoc
       /\ table'.assoc_num = y.assoc_num
  BY <1>8, <1>9 DEF Tables
<1>11. Quiet(y, table', i)
  BY <1>10 DEF Quiet, Elsewhere
<1>12. Quiet(l, table', i) /\ i \notin table'.asoc
  BY <1>2, <1>5, <1>6, <1>9, <1>10, <1>11, QuietTrans
<1>13. Tallies(t, table', i)
  BY <1>1, <1>2, <1>3, <1>12, TalliesOnwards
<1>14. QED
  BY <1>1, <1>2, <1>13, TalliesBefore DEF Follows

LEMMA DisconnectedTallies ==
  ASSUME NEW t \in Tables, NEW i \in Slots, NEW u, u = Disconnected(t, i)
  PROVE  Tallies(t, u, i)
<1> DEFINE l == LeaveAsoc(t, i)
<1>1. l \in Tables /\ Tallies(t, l, i) /\ i \notin l.asoc
  BY LeaveAsocTallies
<1>2. u = free_stainfo(l, i)
  BY DEF Disconnected
<1> HIDE DEF l
<1>3. u \in Tables /\ Quiet(l, u, i) /\ i \notin u.asoc
  BY <1>1, <1>2, FreeQuiet
<1>4. QED
  BY <1>1, <1>3, TalliesOnwards

LEMMA OnDeAuthFollows ==
  ASSUME Good(table), NEW a \in Addrs, OnDeAuth(a)
  PROVE  Follows(table, table')
<1> DEFINE i == Lookup(table, a)
           t == Found(table, a)
<1>1. /\ t \in Tables /\ t.sta = table.sta
      /\ t.asoc = table.asoc /\ t.assoc_num = table.assoc_num
      /\ i # NoSlot => i \in Slots
  BY FoundSame
<1>2. i \in Slots /\ table' = Disconnected(t, i)
  BY <1>1 DEF OnDeAuth
<1> HIDE DEF i, t
<1>3. Tallies(t, table', i)
  BY <1>1, <1>2, DisconnectedTallies
<1>4. QED
  BY <1>1, <1>2, <1>3, TalliesBefore DEF Follows

\* What the keys of a station do to the lists and the count: nothing.
LEMMA KeyQuiet ==
  ASSUME NEW t \in Tables, NEW i \in Slots,
         NEW u \in {CamDelete(t, i), CamAdd(t, i), KeyReleased(t, i)}
  PROVE  /\ u \in Tables /\ Quiet(t, u, i) /\ u.asoc = t.asoc
         /\ u.sta[i].expire_to = t.sta[i].expire_to
BY CamDeleteIs, CamAddIs, KeyReleasedIs DEF Quiet, SameLists, SameTime

LEMMA KeyFollows ==
  ASSUME Good(table), NEW a \in Addrs, SetKey(a) \/ DeleteKey(a)
  PROVE  Follows(table, table')
<1> DEFINE i == Lookup(table, a)
           t == Found(table, a)
           d == CamDelete(t, i)
<1>1. /\ t \in Tables /\ t.sta = table.sta
      /\ t.asoc = table.asoc /\ t.assoc_num = table.assoc_num
      /\ i # NoSlot => i \in Slots
  BY FoundSame
<1>2. i \in Slots /\ table' \in {CamAdd(d, i), KeyReleased(t, i)}
  BY <1>1 DEF SetKey, DeleteKey
<1> HIDE DEF i, t
<1>3. /\ d \in Tables /\ Quiet(t, d, i) /\ d.asoc = t.asoc
      /\ d.sta[i].expire_to = t.sta[i].expire_to
  BY <1>1, <1>2, KeyQuiet
<1> HIDE DEF d
<1>4. CASE table' = CamAdd(d, i)
  <2>1. /\ table' \in Tables /\ Quiet(d, table', i) /\ table'.asoc = d.asoc
        /\ table'.sta[i].expire_to = d.sta[i].expire_to
    BY <1>2, <1>3, <1>4, KeyQuiet
  <2>2. Quiet(t, table', i)
    BY <1>2, <1>3, <2>1, QuietTrans
  <2>3. i \in Active(t) <=> i \in Active(table')
    BY <1>3, <2>1 DEF Active
  <2>4. QED
    BY <1>1, <1>2, <2>1, <2>2, <2>3, QuietTallies, TalliesBefore DEF Follows
<1>5. CASE table' = KeyReleased(t, i)
  <2>1. /\ table' \in Tables /\ Quiet(t, table', i) /\ table'.asoc = t.asoc
        /\ table'.sta[i].expire_to = t.sta[i].expire_to
    BY <1>1, <1>2, <1>5, KeyQuiet
  <2>2. i \in Active(t) <=> i \in Active(table')
    BY <2>1 DEF Active
  <2>3. QED
    BY <1>1, <1>2, <2>1, <2>2, QuietTallies, TalliesBefore DEF Follows
<1>6. QED
  BY <1>2, <1>4, <1>5

LEMMA FrameFollows ==
  ASSUME Good(table), NEW a \in Addrs, Frame(a)
  PROVE  Follows(table, table')
<1>1. table' \in Tables
  BY FrameStep DEF Step, Good
<1>2. ASSUME OnData(a) PROVE Follows(table, table')
  <2>1. table'.asoc = table.asoc /\ table'.assoc_num = table.assoc_num
        /\ table'.sta = table.sta
    BY <1>2, FoundSame DEF OnData
  <2>2. QED
    BY <2>1 DEF Follows, Active
<1>3. QED
  BY <1>1, <1>2, OnAuthFollows, AuthRefusedFollows, OnDisassocFollows, OnDeAuthFollows,
     KeyFollows DEF Frame

-----------------------------------------------------------------------------
(* Timers *)

LEMMA AuthExpiredTallies ==
  ASSUME NEW t, NEW i \in t.auth, Good(t), NEW w, w = AuthExpired(t, i)
  PROVE  Tallies(t, w, i)
<1> DEFINE n == t.sta[i].expire_to
           left == IF n \in {0, Forever} THEN Forever ELSE n - 1
           s == [t.sta[i] EXCEPT !.expire_to = left]
           u == Put(t, i, s)
           v == [u EXCEPT !.auth = u.auth \ {i}]
<1>1. t \in Tables /\ i \in Slots /\ t.sta[i] \in Stations /\ i \notin t.asoc
  BY StationsOf DEF Good, Tables, Consistent
<1>2. w = IF left = 0 THEN free_stainfo(v, i) ELSE u
  BY DEF AuthExpired, Put
<1>3. left \in 0 .. Forever
  <2>1. n \in 0 .. Forever
    BY <1>1 DEF Stations
  <2> HIDE DEF n
  <2>2. QED
    BY <2>1, LifeTimes
<1> HIDE DEF left
<1>4. s \in Stations
  BY <1>1, <1>3 DEF Stations
<1> HIDE DEF s
<1>5. u \in Tables /\ Quiet(t, u, i) /\ u.asoc = t.asoc
  BY <1>1, <1>4, PutQuiet
<1> HIDE DEF u
<1>6. /\ v \in Tables /\ v.sta = u.sta /\ v.asoc = u.asoc
      /\ v.assoc_num = u.assoc_num
  BY <1>5 DEF Tables
<1> HIDE DEF v
<1>7. Quiet(t, v, i) /\ i \notin v.asoc
  BY <1>1, <1>5, <1>6 DEF Quiet, Elsewhere
<1>8. left = 0 => w \in Tables /\ Quiet(t, w, i) /\ i \notin w.asoc
  <2>1. ASSUME left = 0 PROVE w \in Tables /\ Quiet(v, w, i) /\ i \notin w.asoc
    BY <1>1, <1>2, <1>6, <1>7, <2>1, FreeQuiet
  <2>2. QED
    BY <1>1, <1>7, <2>1, QuietTrans
<1>9. w \in Tables /\ Quiet(t, w, i) /\ i \notin w.asoc
  BY <1>1, <1>2, <1>5, <1>8
<1>10. QED
  BY <1>1, <1>9, QuietTallies DEF Active

LEMMA WasIdleTallies ==
  ASSUME NEW t \in Tables, NEW i \in t.asoc, NEW w, w = WasIdle(t, i)
  PROVE  Tallies(t, w, i)
<1> DEFINE n == t.sta[i].expire_to
           d == Decrease(t, i)
           k == KeyReleased(d, i)
           r == [k.sta[i] EXCEPT !.tmp_rmv_key = TRUE]
           u == IF n = 1 THEN Parked(t, i) ELSE t
           s == [u.sta[i] EXCEPT !.expire_to = n - 1]
<1>0. i \in Slots
  BY DEF Tables
<1>1. w = IF n = 0 THEN t ELSE Put(u, i, s)
  BY DEF WasIdle, Put
<1>2. Parked(t, i) \in {k, Put(k, i, r)}
  BY DEF Parked, Put
<1>3. n \in 0 .. Forever
  BY <1>0, StationsOf DEF Stations
<1>3a. n > 0 <=> t.sta[i].expire_to > 0
  OBVIOUS
<1> HIDE DEF n
<1>4. /\ d \in Tables /\ d.sta = t.sta /\ d.asoc = t.asoc
      /\ t.assoc_num > 0 => d.assoc_num = t.assoc_num - 1
  BY <1>0, DecreaseIs DEF SameLists
<1> HIDE DEF d
<1>5. k \in Tables /\ Quiet(d, k, i) /\ k.asoc = d.asoc
  BY <1>0, <1>4, KeyQuiet
<1> HIDE DEF k
<1>6. r \in Stations
  <2>1. k.sta[i] \in Stations
    BY <1>0, <1>5, StationsOf
  <2>2. QED
    BY <2>1 DEF Stations
<1> HIDE DEF r
<1>7. Put(k, i, r) \in Tables /\ Quiet(k, Put(k, i, r), i) /\ Put(k, i, r).asoc = k.asoc
  BY <1>0, <1>5, <1>6, PutQuiet
<1>8. n = 1 => u \in Tables /\ Quiet(d, u, i) /\ u.asoc = t.asoc
  BY <1>0, <1>2, <1>4, <1>5, <1>7, QuietTrans
<1>9. n # 1 => u = t
  OBVIOUS
<1> HIDE DEF u
<1>10. n # 0 => s \in Stations /\ s.expire_to = n - 1
  <2>1. u.sta[i] \in Stations
    BY <1>0, <1>8, <1>9, StationsOf
  <2>2. n # 0 => n - 1 \in 0 .. Forever
    BY <1>3, LifeTimes
  <2>3. QED
    BY <2>1, <2>2 DEF Stations
<1> HIDE DEF s
<1>11. ASSUME n = 0 PROVE Tallies(t, w, i)
  BY <1>1, <1>11 DEF Tallies
<1>12. ASSUME n = 1 PROVE Tallies(t, w, i)
  <2>1. w = Put(u, i, s) /\ s \in Stations /\ s.expire_to = 0
    BY <1>1, <1>10, <1>12
  <2>2. Quiet(u, w, i) /\ w.asoc = u.asoc /\ w.sta[i] = s
    BY <1>0, <1>8, <1>12, <2>1, PutQuiet
  <2>3. Quiet(d, w, i)
    BY <1>0, <1>8, <1>12, <2>2, QuietTrans
  <2>4. \A j \in Slots \ {i} : j \in Active(w) <=> j \in Active(t)
    BY <1>4, <1>8, <1>12, <2>2, <2>3 DEF Quiet, Elsewhere, Active
  <2>5. i \in Active(t) /\ i \notin Active(w)
    BY <1>3a, <1>12, <2>1, <2>2 DEF Active
  <2>6. w.assoc_num = d.assoc_num
    BY <2>3 DEF Quiet
  <2>7. QED
    BY <1>4, <2>4, <2>5, <2>6 DEF Tallies
<1>13. ASSUME n \notin {0, 1} PROVE Tallies(t, w, i)
  <2>1. w = Put(t, i, s) /\ s \in Stations /\ s.expire_to > 0 /\ t.sta[i].expire_to > 0
    BY <1>1, <1>3, <1>3a, <1>9, <1>10, <1>13
  <2>2. QED
    BY <1>0, <2>1, PutTallies
<1>14. QED
  BY <1>11, <1>12, <1>13

LEMMA WasActiveTallies ==
  ASSUME NEW t \in Tables, NEW i \in t.asoc, NEW w, w = WasActive(t, i)
  PROVE  Tallies(t, w, i)
<1> DEFINE c == Increase(t, i)
           v == CamAdd(c, i)
           r == [v.sta[i] EXCEPT !.tmp_rmv_key = FALSE]
           u == IF t.sta[i].expire_to = 0 THEN Resumed(t, i) ELSE t
           s == [u.sta[i] EXCEPT !.expire_to = ExpireTo]
<1>0. i \in Slots
  BY DEF Tables
<1>1. w = Put(u, i, s)
  BY DEF WasActive, Put
<1>2. Resumed(t, i) \in {c, Put(v, i, r)}
  BY DEF Resumed, Put
<1>3. /\ c \in Tables /\ c.sta = t.sta /\ c.asoc = t.asoc
      /\ t.assoc_num <= NUM_STAT => c.assoc_num = t.assoc_num + 1
  BY <1>0, IncreaseIs DEF SameLists
<1> HIDE DEF c
<1>4. v \in Tables /\ Quiet(c, v, i) /\ v.asoc = c.asoc
  BY <1>0, <1>3, KeyQuiet
<1> HIDE DEF v
<1>5. r \in Stations
  <2>1. v.sta[i] \in Stations
    BY <1>0, <1>4, StationsOf
  <2>2. QED
    BY <2>1 DEF Stations
<1> HIDE DEF r
<1>6. Put(v, i, r) \in Tables /\ Quiet(v, Put(v, i, r), i) /\ Put(v, i, r).asoc = v.asoc
  BY <1>0, <1>4, <1>5, PutQuiet
<1>6a. Quiet(c, c, i)
  BY DEF Quiet, Elsewhere
<1>7. t.sta[i].expire_to = 0 => u \in Tables /\ Quiet(c, u, i) /\ u.asoc = t.asoc
  BY <1>0, <1>2, <1>3, <1>4, <1>6, <1>6a, QuietTrans
<1>8. t.sta[i].expire_to # 0 => u = t
  OBVIOUS
<1> HIDE DEF u
<1>9. s \in Stations /\ s.expire_to > 0
  <2>1. u.sta[i] \in Stations
    BY <1>0, <1>7, <1>8, StationsOf
  <2>2. QED
    BY <2>1, LifeTimes DEF Stations
<1> HIDE DEF s
<1>10. ASSUME t.sta[i].expire_to = 0 PROVE Tallies(t, w, i)
  <2>1. Quiet(u, w, i) /\ w.asoc = u.asoc /\ w.sta[i] = s
    BY <1>0, <1>1, <1>7, <1>9, <1>10, PutQuiet
  <2>2. Quiet(c, w, i)
    BY <1>0, <1>7, <1>10, <2>1, QuietTrans
  <2>3. \A j \in Slots \ {i} : j \in Active(w) <=> j \in Active(t)
    BY <1>3, <1>7, <1>10, <2>1, <2>2 DEF Quiet, Elsewhere, Active
  <2>4. i \notin Active(t) /\ i \in Active(w)
    BY <1>7, <1>9, <1>10, <2>1 DEF Active
  <2>5. w.assoc_num = c.assoc_num
    BY <2>2 DEF Quiet
  <2>6. QED
    BY <1>3, <2>3, <2>4, <2>5 DEF Tallies
<1>11. ASSUME t.sta[i].expire_to # 0 PROVE Tallies(t, w, i)
  <2>1. t.sta[i].expire_to > 0
    BY <1>0, <1>11, StationsOf, LifeTimes DEF Stations
  <2>2. QED
    BY <1>0, <1>1, <1>8, <1>9, <1>11, <2>1, PutTallies
<1>12. QED
  BY <1>10, <1>11

LEMMA ExpireTimerFollows ==
  ASSUME Good(table), ticking \subseteq Slots, ExpireTimer
  PROVE  Follows(table, table')
<1>1. CASE Tick
  BY <1>1 DEF Tick, Follows
<1>2. ASSUME NEW i \in ticking, AuthExpire(i) PROVE Follows(table, table')
  BY <1>2, AuthExpiredTallies DEF AuthExpire, Follows
<1>3. ASSUME NEW i \in ticking, AssocExpire(i) PROVE Follows(table, table')
  <2>1. table \in Tables /\ i \in table.asoc
        /\ table' \in {WasIdle(table, i), WasActive(table, i)}
    BY <1>3 DEF AssocExpire, Good
  <2>2. Tallies(table, table', i)
    BY <2>1, WasIdleTallies, WasActiveTallies
  <2>3. QED
    BY <2>2 DEF Follows
<1>4. QED
  BY <1>1, <1>2, <1>3 DEF ExpireTimer

-----------------------------------------------------------------------------
(* The invariant.  del_sta takes its station off the count before it frees *)
(* it; countermeasures take every station and then set the count to 0.     *)

Spared == {i \in Slots : pc = [op |-> "free", slot |-> i]}

CInv ==
  /\ ~stale /\ freeing # {} => table.asoc \subseteq freeing
  /\ ~raced /\ ~stale /\ pc.op = "del_sta" => pc.slot \in table.asoc
  /\ ~raced /\ ~stale /\ freeing = {} => CountedBut(table, Spared)

LEMMA SparedOf ==
  ASSUME TypeOK
  PROVE  /\ pc.op # "free" => Spared = {}
         /\ pc.op = "free" => pc.slot \in Slots /\ Spared = {pc.slot}
<1>1. pc.op # "free" => Spared = {}
  BY DEF Spared
<1>2. pc.op = "free" => pc.slot \in Slots /\ pc = [op |-> "free", slot |-> pc.slot]
  BY CommandOf DEF TypeOK, TableTypeOK
<1>3. ASSUME pc.op = "free" PROVE Spared = {pc.slot}
  BY <1>2, <1>3 DEF Spared
<1>4. QED
  BY <1>1, <1>2, <1>3

\* A step of another party: the station a command is about is left alone or
\* the command is overtaken.
LEMMA OthersKeep ==
  ASSUME TypeOK, CInv, ~stale, table' \in Tables, Follows(table, table'), pc' = pc,
         freeing' = freeing, freeing = {} \/ table'.asoc \subseteq table.asoc, Races
  PROVE  CInv'
<1>1. table \in Tables
  BY DEF TypeOK, TableTypeOK
<1>2. freeing' # {} => table'.asoc \subseteq freeing'
  BY DEF CInv
<1>3. ~raced' => ~raced
  BY DEF Races
<1>4. ASSUME ~raced', pc.op \in {"del_sta", "free"}
      PROVE  /\ table'.sta[pc.slot] = table.sta[pc.slot]
             /\ pc.slot \in table'.asoc <=> pc.slot \in table.asoc
  BY <1>4 DEF Races
<1>5. ~raced' /\ pc'.op = "del_sta" => pc'.slot \in table'.asoc
  BY <1>3, <1>4 DEF CInv
<1>6. ASSUME ~raced', freeing' = {} PROVE CountedBut(table', Spared)
  <2>1. CountedBut(table, Spared)
    BY <1>3, <1>6 DEF CInv
  <2>2. CASE table'.assoc_num = table.assoc_num /\ Active(table') = Active(table)
    BY <2>1, <2>2 DEF CountedBut
  <2>3. ASSUME NEW i \in Slots, Tallies(table, table', i)
        PROVE  CountedBut(table', Spared)
    <3>1. i \in Spared => pc.op = "free" /\ pc.slot = i
      BY DEF Spared
    <3>2. i \in Spared => (i \in Active(table) <=> i \in Active(table'))
      BY <1>4, <1>6, <3>1 DEF Active
    <3>3. QED
      BY <1>1, <2>1, <2>3, <3>2, CountFollows
  <2>4. QED
    BY <2>2, <2>3 DEF Follows
<1>7. Spared' = Spared
  BY DEF Spared
<1>8. QED
  BY <1>2, <1>5, <1>6, <1>7 DEF CInv

LEMMA NoneActive ==
  ASSUME NEW t, t.asoc = {}, t.assoc_num = 0, NEW X
  PROVE  CountedBut(t, X)
<1>1. Active(t) \ X = {}
  BY DEF Active
<1>2. QED
  BY <1>1, FS_EmptySet DEF CountedBut

LEMMA MicFailureAgainCounts ==
  ASSUME CInv, ~stale, Good(table), MicFailureAgain, Races
  PROVE  CInv'
<1>1. /\ table \in Tables /\ table.asoc \subseteq Used(table)
  BY DEF Good, Consistent
<1>2. freeing' = Used(table) /\ pc' = pc /\ freeing = {}
  BY DEF MicFailureAgain
<1>3. ~raced' => ~raced
  BY DEF Races
<1>4. CASE Used(table) = {}
  <2>1. table' = [table EXCEPT !.assoc_num = 0]
    BY <1>4 DEF MicFailureAgain
  <2>2. table'.asoc = {} /\ table'.assoc_num = 0 /\ table.asoc = {}
    BY <1>1, <1>4, <2>1 DEF Tables
  <2>3. CountedBut(table', Spared')
    BY <2>2, NoneActive
  <2>4. QED
    BY <1>2, <1>3, <1>4, <2>2, <2>3 DEF CInv
<1>5. CASE Used(table) # {}
  <2>1. table' = table
    BY <1>5 DEF MicFailureAgain
  <2>2. QED
    BY <1>1, <1>2, <1>3, <1>5, <2>1 DEF CInv
<1>6. QED
  BY <1>4, <1>5

LEMMA FreedCounts ==
  ASSUME TypeOK, CInv, ~stale, Good(table), NEW i \in Slots, Freed(i), Races
  PROVE  CInv'
<1>1. Good(table) /\ freeing \subseteq Slots /\ i \in freeing
  BY DEF TypeOK, Freed
<1>2. table'.asoc \subseteq table.asoc \ {i}
  BY <1>1, FreedStep
<1>3. freeing' = freeing \ {i} /\ pc' = pc
  BY DEF Freed
<1>4. table.asoc \subseteq freeing
  BY <1>1 DEF CInv
<1>5. ~raced' /\ pc'.op = "del_sta" => pc'.slot \in table'.asoc
  BY <1>3 DEF CInv, Races
<1>6. freeing' = {} => CountedBut(table', Spared')
  <2>1. ASSUME freeing' = {} PROVE table'.asoc = {} /\ table'.assoc_num = 0
    <3> DEFINE u == free_stainfo(table, i)
    <3>1. freeing = {i}
      BY <1>1, <1>3, <2>1
    <3>2. table' = [u EXCEPT !.assoc_num = 0]
      BY <3>1 DEF Freed
    <3>3. u \in Tables
      BY <1>1, FreedGood DEF Good, Step
    <3> HIDE DEF u
    <3>4. table'.assoc_num = 0
      BY <3>2, <3>3 DEF Tables
    <3>5. QED
      BY <1>2, <1>4, <3>1, <3>4
  <2>2. QED
    BY <2>1, NoneActive
<1>7. QED
  BY <1>2, <1>3, <1>4, <1>5, <1>6 DEF CInv

\* del_sta takes a station off the count only if it is on the list.
LEMMA BeginCounts ==
  ASSUME TypeOK, CInv, ~stale, pc.op # "free", freeing = {}, freeing' = {}, ~raced' => ~raced,
         table'.sta = table.sta, table'.asoc = table.asoc,
         table'.assoc_num = table.assoc_num, pc'.op # "free", pc'.op # "del_sta"
  PROVE  CInv'
<1>1. Spared = {} /\ Spared' = {}
  BY SparedOf DEF Spared
<1>2. Active(table') = Active(table)
  BY DEF Active
<1>3. ~raced => CountedBut(table', Spared')
  BY <1>1, <1>2 DEF CInv, CountedBut
<1>4. QED
  BY <1>3 DEF CInv

LEMMA CommandCounts ==
  ASSUME TypeOK, CInv, ~stale, Good(table), Command, Races
  PROVE  CInv'
<1>1. Good(table) /\ table \in Tables /\ TypeOK /\ pc \in Commands \cup {Idle}
  BY DEF TypeOK, TableTypeOK
<1>2. freeing = {} /\ freeing' = {}
  BY DEF Command, Softirq
<1>3. ~raced' => ~raced
  BY DEF Races
<1>4. Spared' = {i \in Slots : pc' = [op |-> "free", slot |-> i]}
  BY DEF Spared
<1>5. ASSUME NEW a \in Addrs, NEW then \in {"tell", "disconnect"}, Begin(a, then)
      PROVE  CInv'
  <2>1. table' = table /\ pc = Idle /\ pc'.op \in {then, "search"}
    BY <1>5 DEF Begin
  <2>2. pc.op # "free" /\ pc'.op # "free" /\ pc'.op # "del_sta"
    BY <2>1 DEF Idle
  <2>3. QED
    BY <1>1, <1>2, <1>3, <2>1, <2>2, BeginCounts
<1>10. CASE Searched
  <2>1. table' = table /\ pc.op = "search" /\ pc'.op \in {"store", "idle"}
    BY <1>10 DEF Searched, Idle
  <2>2. QED
    BY <1>1, <1>2, <1>3, <2>1, BeginCounts
<1>11. CASE Stored
  <2>1. /\ table' = [table EXCEPT !.pstat_cache = pc.slot] /\ pc.op = "store"
        /\ pc'.op \in {"tell", "disconnect"}
    BY <1>1, <1>11, CommandOf DEF Stored
  <2>2. /\ table'.sta = table.sta /\ table'.asoc = table.asoc
        /\ table'.assoc_num = table.assoc_num
    BY <1>1, <2>1 DEF Tables
  <2>3. QED
    BY <1>1, <1>2, <1>3, <2>1, <2>2, BeginCounts
<1>12. CASE DelStaTells
  <2> DEFINE p == pc.slot
             o == IF p \in table.asoc THEN "del_sta" ELSE "free"
  <2>1. pc = [op |-> "tell", slot |-> p] /\ p \in Slots /\ table' = table
    BY <1>1, <1>12, CommandOf DEF DelStaTells
  <2>2. pc' = [op |-> o, slot |-> p]
    BY <1>12, <2>1 DEF DelStaTells
  <2>3. Spared = {} /\ \A i \in Spared' : i \notin Active(table)
    <3>1. pc.op # "free"
      BY <2>1
    <3>2. \A i \in Spared' : i = p /\ p \notin table.asoc
      BY <1>4, <2>2
    <3>3. QED
      BY <1>1, <3>1, <3>2, SparedOf DEF Active
  <2>4. Active(table') \ Spared' = Active(table) \ Spared
    BY <2>1, <2>3
  <2>5. ~raced => CountedBut(table', Spared')
    BY <1>2, <2>1, <2>4 DEF CInv, CountedBut
  <2>6. pc'.op = "del_sta" => pc'.slot \in table'.asoc
    BY <2>1, <2>2
  <2>7. QED
    BY <1>2, <1>3, <2>5, <2>6 DEF CInv
<1>6. CASE DelStaCounted
  <2> DEFINE p == pc.slot
  <2>1. pc.op = "del_sta"
    BY <1>6 DEF DelStaCounted
  <2>2. p \in Slots /\ pc = [op |-> "del_sta", slot |-> p] /\ Spared = {}
    BY <1>1, <2>1, CommandOf, SparedOf
  <2>3. pc' = [op |-> "free", slot |-> p]
    BY <1>6, <2>2 DEF DelStaCounted
  <2>4. Spared' = {p} /\ pc'.op # "del_sta"
    BY <1>4, <2>2, <2>3
  <2>5. table' = IF table.sta[p].expire_to > 0 THEN Decrease(table, p) ELSE table
    BY <1>6 DEF DelStaCounted
  <2>6. ASSUME ~raced PROVE CountedBut(table', {p})
    <3>1. p \in table.asoc /\ CountedBut(table, {})
      BY <1>2, <2>1, <2>2, <2>6 DEF CInv
    <3>2. CASE table.sta[p].expire_to > 0
      <4> DEFINE A == Active(table) \ {}
                 B == Active(table) \ {p}
      <4>1. /\ table'.sta = table.sta /\ table'.asoc = table.asoc
            /\ table.assoc_num > 0 => table'.assoc_num = table.assoc_num - 1
        BY <1>1, <2>2, <2>5, <3>2, DecreaseIs DEF SameLists
      <4>2. Active(table') = Active(table)
        BY <4>1 DEF Active
      <4>3. p \in A /\ B = A \ {p}
        BY <3>1, <3>2 DEF Active
      <4>4. IsFiniteSet(A) /\ Cardinality(A) \in 0 .. NUM_STAT
        BY <1>1, ActiveFinite
      <4>5. table.assoc_num = Cardinality(A)
        BY <3>1 DEF CountedBut
      <4> HIDE DEF A, B
      <4>6. IsFiniteSet(B) /\ Cardinality(B) = Cardinality(A) - 1
        BY <4>3, <4>4, FS_RemoveElement
      <4>7. Cardinality(B) \in Nat
        BY <4>6, FS_CardinalityType
      <4>8. table'.assoc_num = Cardinality(B)
        BY <4>1, <4>4, <4>5, <4>6, <4>7, SlotsCounted
      <4>9. QED
        BY <4>2, <4>8 DEF CountedBut, B
    <3>3. CASE ~(table.sta[p].expire_to > 0)
      <4>1. p \notin Active(table) /\ table' = table
        BY <2>5, <3>3 DEF Active
      <4>2. Active(table) \ {p} = Active(table) \ {}
        BY <4>1
      <4>3. QED
        BY <3>1, <4>1, <4>2 DEF CountedBut
    <3>4. QED
      BY <3>2, <3>3
  <2>7. QED
    BY <1>2, <1>3, <2>4, <2>6 DEF CInv
<1>7. CASE DelStaFreed
  <2> DEFINE p == pc.slot
  <2>1. pc.op = "free" /\ pc' = Idle /\ table' = free_stainfo(table, p)
    BY <1>7 DEF DelStaFreed
  <2>2. p \in Slots /\ Spared = {p}
    BY <1>1, <2>1, SparedOf
  <2>3. Spared' = {} /\ pc'.op # "del_sta"
    BY <1>4, <2>1 DEF Idle
  <2>4. /\ Elsewhere(table, table', p) /\ table'.asoc = table.asoc \ {p}
        /\ table'.assoc_num = table.assoc_num
    <3>1. CASE p \in Used(table)
      BY <1>1, <2>1, <2>2, <3>1, FreeIs
    <3>2. CASE p \notin Used(table)
      BY <2>1, <2>2, <3>2, <1>1 DEF free_stainfo, Used, Elsewhere, Good, Consistent
    <3>3. QED
      BY <3>1, <3>2
  <2>5. Active(table') \ {} = Active(table) \ {p}
    <3>1. table.asoc \subseteq Slots
      BY <1>1 DEF Tables
    <3>2. QED
      BY <2>4, <3>1 DEF Active, Elsewhere
  <2>6. ~raced => CountedBut(table', {})
    BY <1>2, <2>2, <2>4, <2>5 DEF CInv, CountedBut
  <2>7. QED
    BY <1>2, <1>3, <2>3, <2>6 DEF CInv
<1>8. CASE DisconnectReqFreed
  <2> DEFINE p == pc.slot
  <2>1. pc.op = "disconnect" /\ pc' = Idle /\ table' = Disconnected(table, p)
    BY <1>8 DEF DisconnectReqFreed
  <2>2. p \in Slots /\ Spared = {}
    BY <1>1, <2>1, CommandOf, SparedOf
  <2>3. Spared' = {} /\ pc'.op # "del_sta"
    BY <1>4, <2>1 DEF Idle
  <2>4. Tallies(table, table', p)
    BY <1>1, <2>1, <2>2, DisconnectedTallies
  <2>5. table' \in Tables
    BY <1>1, <2>1, <2>2, DisconnectedGood DEF Step, Good
  <2>6. ~raced => CountedBut(table', {})
    BY <1>1, <1>2, <2>2, <2>4, <2>5, CountFollows DEF CInv
  <2>7. QED
    BY <1>2, <1>3, <2>3, <2>6 DEF CInv
<1>9. QED
  BY <1>5, <1>10, <1>11, <1>12, <1>6, <1>7, <1>8 DEF Command, DelSta, DisconnectReq

LEMMA RestartCounts ==
  ASSUME TypeOK, Restart
  PROVE  CInv'
<1>1. table \in Tables /\ pc \in Commands \cup {Idle}
  BY DEF TypeOK, TableTypeOK
<1>2. freeing' = {} /\ raced' = (pc # Idle)
  BY DEF Restart, Reopened, Softirq
<1>3. table'.asoc = {} /\ table'.assoc_num = 0
  <2> DEFINE c == Closed(table)
  <2>1. c \in Tables /\ c.asoc = {} /\ c.assoc_num = 0
    BY <1>1, ClosedIs
  <2>2. table' = c \/ \E i \in Slots, s \in Stations : table' = Put(c, i, s)
    BY <1>1, RestartIs
  <2> HIDE DEF c
  <2>3. QED
    BY <2>1, <2>2, PutQuiet DEF Quiet
<1>4. ~raced' => pc'.op # "del_sta"
  <2>1. ~raced' => pc = Idle
    BY <1>2
  <2>2. pc = Idle => pc' = Idle
    BY <1>1, RestartIs
  <2>3. QED
    BY <2>1, <2>2 DEF Idle
<1>5. CountedBut(table', Spared')
  BY <1>3, NoneActive
<1>6. QED
  BY <1>2, <1>4, <1>5 DEF CInv

LEMMA CountsInitially == Init => CInv
<1> SUFFICES ASSUME Init PROVE CInv
  OBVIOUS
<1>1. table = EmptyTable /\ pc = Idle /\ freeing = {}
  BY DEF Init, TableInit
<1>2. table.asoc = {} /\ table.assoc_num = 0 /\ pc.op # "del_sta"
  BY <1>1 DEF EmptyTable, Idle
<1>3. CountedBut(table, Spared)
  BY <1>2, NoneActive
<1>4. QED
  BY <1>1, <1>2, <1>3 DEF CInv

LEMMA CountsInductive == IInv /\ CInv /\ [Next]_vars => CInv'
<1> SUFFICES ASSUME IInv, CInv, [Next]_vars PROVE CInv'
  OBVIOUS
<1>1. TypeOK
  BY DEF IInv
<1>2. CASE UNCHANGED vars
  BY <1>2 DEF vars, CInv, CountedBut, Active, Spared
<1>3. CASE Restart
  BY <1>1, <1>3, RestartCounts
<1>4. CASE stale'
  BY <1>4 DEF CInv
<1>5. ASSUME Races, ~stale' PROVE ~stale /\ Good(table)
  BY <1>5, SoundBefore DEF Sound
<1>6. ASSUME NEW a \in Addrs, Frame(a), Races, ~stale' PROVE CInv'
  <2>1. pc' = pc /\ freeing' = freeing
    BY <1>6 DEF Frame, OnAuth, AuthRefused, OnDisassoc, OnDeAuth, SetKey, DeleteKey, OnData
  <2>2. Step(table, table') /\ Follows(table, table') /\ freeing = {}
    BY <1>5, <1>6, FrameStep, FrameFollows DEF Frame
  <2>3. QED
    BY <1>1, <1>5, <1>6, <2>1, <2>2, OthersKeep DEF Step, Good
<1>7. ASSUME NEW a \in Addrs, AssocReq(a), Races, ~stale' PROVE CInv'
  <2>1. PICK ht \in BOOLEAN, acceptable \in BOOLEAN : OnAssocReq(a, ht, acceptable)
    BY <1>7 DEF AssocReq
  <2>2. pc' = pc /\ freeing' = freeing /\ freeing = {}
    BY <1>7, <2>1 DEF AssocReq, OnAssocReq
  <2>3. Follows(table, table') /\ Good(table')
    BY <1>5, <1>7, <2>1, OnAssocReqFollows, OnAssocReqStep
  <2>4. QED
    BY <1>1, <1>5, <1>7, <2>2, <2>3, OthersKeep DEF Good
<1>8. ASSUME MicFailure \/ MicTimer, Races, ~stale' PROVE CInv'
  <2>1. UNCHANGED <<tableVars, freeing>>
    BY <1>8 DEF MicFailure, MicTimer
  <2>2. Follows(table, table')
    BY <2>1 DEF Follows, tableVars
  <2>3. QED
    BY <1>1, <1>5, <1>8, <2>1, <2>2, OthersKeep DEF tableVars, Good
<1>9. ASSUME ExpireTimer, Races, ~stale' PROVE CInv'
  <2>1. ticking \subseteq Slots
    BY <1>1 DEF TypeOK, TableTypeOK
  <2>2. Step(table, table') /\ pc' = pc /\ Follows(table, table')
    BY <1>5, <1>9, <2>1, ExpireTimerStep, ExpireTimerFollows
  <2>3. freeing' = freeing
    BY <1>9 DEF ExpireTimer
  <2>4. QED
    BY <1>1, <1>5, <1>9, <2>2, <2>3, OthersKeep DEF Step, Good
<1>10. ASSUME Races, ~stale',
              MicFailureAgain \/ (\E i \in Slots : Freed(i)) \/ Command
       PROVE  CInv'
  BY <1>1, <1>5, <1>10, MicFailureAgainCounts, FreedCounts, CommandCounts
<1>11. QED
  BY <1>2, <1>3, <1>4, <1>6, <1>7, <1>8, <1>9, <1>10 DEF Next

\* Unless del_sta was overtaken after it tested that its station is associated,
\* or the cache left on a freed entry, assoc_num is the number of stations that
\* are associated and not expired, whatever joins, leaves, expires, resumes or
\* is thrown out, and however many entries there are.
THEOREM StationsCounted == Spec => []AssocCounted
<1>1. CInv => AssocCounted
  BY DEF CInv, AssocCounted, CountedBut, Spared
<1>2. Spec => []CInv
  BY CountsInitially, CountsInductive, Invariance, PTL DEF Spec
<1>3. QED
  BY <1>1, <1>2, PTL
=============================================================================
