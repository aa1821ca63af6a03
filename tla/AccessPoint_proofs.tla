-------------------------- MODULE AccessPoint_proofs --------------------------
(***************************************************************************)
(* Proofs about AccessPoint.  Every operation on a table gets a lemma that *)
(* says what it returns as far as the invariants need it; an action is a   *)
(* composition of operations and its lemma combines theirs.                *)
(***************************************************************************)
EXTENDS AccessPoint, FiniteSetTheorems, TLAPS

\* The operation that made u of t touched no other station than i.
Elsewhere(t, u, i) == \A j \in Slots \ {i} : u.sta[j] = t.sta[j]

\* What a station is to the lists and the count.
SameUse(r, s) == s.used = r.used /\ s.hwaddr = r.hwaddr
SameTime(r, s) == s.expire_to = r.expire_to

SameLists(t, u) ==
  u.asoc = t.asoc /\ u.auth = t.auth /\ u.pstat_cache = t.pstat_cache

LEMMA SlotsCounted == NUM_STAT \in Nat
BY TableAssumption, FS_CardinalityType DEF NUM_STAT

LEMMA LifeTimes ==
  /\ ExpireTo \in 0 .. Forever /\ AuthTo \in 0 .. Forever /\ AssocTo \in 0 .. Forever
  /\ 0 \in 0 .. Forever /\ Forever \in 0 .. Forever
  /\ Forever \in Nat \ {0}
  /\ ExpireTo \in Nat \ {0} /\ AuthTo \in Nat \ {0} /\ AssocTo \in Nat \ {0}
BY TableAssumption DEF Forever

LEMMA StationsOf ==
  ASSUME NEW t \in Tables, NEW i \in Slots
  PROVE  t.sta[i] \in Stations
BY DEF Tables

-----------------------------------------------------------------------------
(* The operations *)

LEMMA CamDeleteIs ==
  ASSUME NEW t \in Tables, NEW i \in Slots, NEW u, u = CamDelete(t, i)
  PROVE  /\ u \in Tables /\ Elsewhere(t, u, i) /\ SameLists(t, u)
         /\ SameUse(t.sta[i], u.sta[i]) /\ SameTime(t.sta[i], u.sta[i])
         /\ u.assoc_num = t.assoc_num
<1> DEFINE s == [t.sta[i] EXCEPT !.keyInCam = FALSE]
<1>1. s \in Stations /\ SameUse(t.sta[i], s) /\ SameTime(t.sta[i], s)
  BY StationsOf DEF Stations, SameUse, SameTime
<1>2. CASE KeyOf(t, i) = {}
  BY <1>2, StationsOf DEF CamDelete, Elsewhere, SameLists, SameUse, SameTime
<1>3. CASE KeyOf(t, i) # {}
  <2> DEFINE e == CHOOSE e \in KeyOf(t, i) : TRUE
  <2>1. u = [t EXCEPT !.cam[e] = NoAddr, !.sta[i] = s, !.CamEntryOccupied = @ - 1]
    BY <1>3 DEF CamDelete
  <2> HIDE DEF s, e
  <2>2. u = [t EXCEPT !.cam = [t.cam EXCEPT ![e] = NoAddr], !.sta = [t.sta EXCEPT ![i] = s],
                      !.CamEntryOccupied = t.CamEntryOccupied - 1]
    BY <2>1 DEF Tables
  <2>3. [t.cam EXCEPT ![e] = NoAddr] \in [CamEntries -> Addrs \cup {NoAddr}]
    BY DEF Tables
  <2>4. [t.sta EXCEPT ![i] = s] \in [Slots -> Stations] /\ t.CamEntryOccupied - 1 \in Int
    BY <1>1 DEF Tables
  <2>t. u \in Tables
    BY <2>2, <2>3, <2>4 DEF Tables
  <2>5. u.sta = [t.sta EXCEPT ![i] = s] /\ t.sta \in [Slots -> Stations]
        /\ SameLists(t, u) /\ u.assoc_num = t.assoc_num
    BY <2>2 DEF Tables, SameLists
  <2>6. QED
    BY <2>t, <2>5, <1>1 DEF Elsewhere
<1>4. QED
  BY <1>2, <1>3

LEMMA CamAddIs ==
  ASSUME NEW t \in Tables, NEW i \in Slots, NEW u, u = CamAdd(t, i)
  PROVE  /\ u \in Tables /\ Elsewhere(t, u, i) /\ SameLists(t, u)
         /\ SameUse(t.sta[i], u.sta[i]) /\ SameTime(t.sta[i], u.sta[i])
         /\ u.assoc_num = t.assoc_num
<1> DEFINE s == [t.sta[i] EXCEPT !.keyInCam = TRUE]
<1>1. /\ s \in Stations /\ SameUse(t.sta[i], s) /\ SameTime(t.sta[i], s)
      /\ t.sta[i].hwaddr \in Addrs \cup {NoAddr}
  BY StationsOf DEF Stations, SameUse, SameTime
<1>2. CASE CamFree(t) = {}
  BY <1>2, StationsOf DEF CamAdd, Elsewhere, SameLists, SameUse, SameTime
<1>3. CASE CamFree(t) # {}
  <2> DEFINE e == CHOOSE e \in CamFree(t) : TRUE
             h == t.sta[i].hwaddr
  <2>1. u = [t EXCEPT !.cam[e] = h, !.sta[i] = s, !.CamEntryOccupied = @ + 1]
    BY <1>3 DEF CamAdd
  <2> HIDE DEF s, e, h
  <2>2. u = [t EXCEPT !.cam = [t.cam EXCEPT ![e] = h], !.sta = [t.sta EXCEPT ![i] = s],
                      !.CamEntryOccupied = t.CamEntryOccupied + 1]
    BY <2>1 DEF Tables
  <2>3. [t.cam EXCEPT ![e] = h] \in [CamEntries -> Addrs \cup {NoAddr}]
    <3>1. h \in Addrs \cup {NoAddr}
      BY <1>1 DEF h
    <3>2. QED
      BY <3>1 DEF Tables
  <2>4. [t.sta EXCEPT ![i] = s] \in [Slots -> Stations] /\ t.CamEntryOccupied + 1 \in Int
    BY <1>1 DEF Tables
  <2>t. u \in Tables
    BY <2>2, <2>3, <2>4 DEF Tables
  <2>5. u.sta = [t.sta EXCEPT ![i] = s] /\ t.sta \in [Slots -> Stations]
        /\ SameLists(t, u) /\ u.assoc_num = t.assoc_num
    BY <2>2 DEF Tables, SameLists
  <2>6. QED
    BY <2>t, <2>5, <1>1 DEF Elsewhere
<1>4. QED
  BY <1>2, <1>3

LEMMA KeyReleasedIs ==
  ASSUME NEW t \in Tables, NEW i \in Slots, NEW u, u = KeyReleased(t, i)
  PROVE  /\ u \in Tables /\ Elsewhere(t, u, i) /\ SameLists(t, u)
         /\ SameUse(t.sta[i], u.sta[i]) /\ SameTime(t.sta[i], u.sta[i])
         /\ u.assoc_num = t.assoc_num
BY CamDeleteIs DEF KeyReleased, Elsewhere, SameLists, SameUse, SameTime

LEMMA ReleaseIs ==
  ASSUME NEW t \in Tables, NEW i \in Slots, NEW u, u = release_stainfo(t, i)
  PROVE  /\ u \in Tables /\ Elsewhere(t, u, i)
         /\ u.asoc = t.asoc \ {i} /\ u.auth = t.auth \ {i}
         /\ u.pstat_cache = IF t.pstat_cache = i THEN NoSlot ELSE t.pstat_cache
         /\ SameUse(t.sta[i], u.sta[i]) /\ SameTime(t.sta[i], u.sta[i])
         /\ u.assoc_num = t.assoc_num
<1> DEFINE k == KeyReleased(t, i)
           s == [k.sta[i] EXCEPT !.state = "none"]
<1>1. /\ k \in Tables /\ Elsewhere(t, k, i) /\ SameLists(t, k)
      /\ SameUse(t.sta[i], k.sta[i]) /\ SameTime(t.sta[i], k.sta[i])
      /\ k.assoc_num = t.assoc_num
  BY KeyReleasedIs
<1>2. u = [k EXCEPT !.pstat_cache = IF @ = i THEN NoSlot ELSE @,
                    !.asoc = @ \ {i}, !.auth = @ \ {i}, !.sta[i] = s]
  BY DEF release_stainfo
<1> HIDE DEF k
<1>3. s \in Stations /\ SameUse(k.sta[i], s) /\ SameTime(k.sta[i], s)
  BY <1>1, StationsOf DEF Stations, SameUse, SameTime
<1> HIDE DEF s
<1>4. /\ u = [k EXCEPT !.pstat_cache = IF k.pstat_cache = i THEN NoSlot ELSE k.pstat_cache,
                       !.asoc = k.asoc \ {i}, !.auth = k.auth \ {i},
                       !.sta = [k.sta EXCEPT ![i] = s]]
      /\ [k.sta EXCEPT ![i] = s] \in [Slots -> Stations]
  BY <1>1, <1>2, <1>3 DEF Tables
<1>t. /\ k.asoc \ {i} \in SUBSET Slots /\ k.auth \ {i} \in SUBSET Slots
      /\ (IF k.pstat_cache = i THEN NoSlot ELSE k.pstat_cache) \in Slots \cup {NoSlot}
  BY <1>1 DEF Tables
<1>5. u \in Tables
  BY <1>1, <1>4, <1>t DEF Tables
<1>6. /\ u.sta = [k.sta EXCEPT ![i] = s] /\ k.sta \in [Slots -> Stations]
      /\ u.asoc = k.asoc \ {i} /\ u.auth = k.auth \ {i} /\ u.assoc_num = k.assoc_num
      /\ u.pstat_cache = IF k.pstat_cache = i THEN NoSlot ELSE k.pstat_cache
  BY <1>1, <1>4 DEF Tables
<1>7. QED
  BY <1>1, <1>3, <1>5, <1>6 DEF Elsewhere, SameLists, SameUse, SameTime

\* An operation that does nothing but rewrite a station.
Put(t, i, s) == [t EXCEPT !.sta[i] = s]

LEMMA PutIs ==
  ASSUME NEW t \in Tables, NEW i \in Slots, NEW s \in Stations,
         NEW u, u = Put(t, i, s)
  PROVE  /\ u \in Tables /\ Elsewhere(t, u, i) /\ SameLists(t, u)
         /\ u.sta[i] = s /\ u.assoc_num = t.assoc_num
<1>1. /\ u = [t EXCEPT !.sta = [t.sta EXCEPT ![i] = s]]
      /\ [t.sta EXCEPT ![i] = s] \in [Slots -> Stations]
  BY DEF Tables, Put
<1>2. u \in Tables
  BY <1>1 DEF Tables
<1>3. u.sta = [t.sta EXCEPT ![i] = s] /\ t.sta \in [Slots -> Stations]
      /\ SameLists(t, u) /\ u.assoc_num = t.assoc_num
  BY <1>1 DEF Tables, SameLists
<1>4. QED
  BY <1>2, <1>3 DEF Elsewhere

LEMMA StationInit ==
  ASSUME NEW r \in Stations
  PROVE  LET s == [r EXCEPT !.state = "none", !.auth_seq = 0,
                            !.expire_to = ExpireTo, !.keyInCam = FALSE,
                            !.tmp_rmv_key = FALSE, !.ht = FALSE]
         IN  s \in Stations /\ SameUse(r, s)
BY LifeTimes DEF Stations, SameUse

LEMMA InitIs ==
  ASSUME NEW t \in Tables, NEW i \in Slots, NEW u, u = init_stainfo(t, i)
  PROVE  /\ u \in Tables /\ Elsewhere(t, u, i) /\ SameLists(t, u)
         /\ SameUse(t.sta[i], u.sta[i]) /\ u.assoc_num = t.assoc_num
<1> DEFINE s == [t.sta[i] EXCEPT !.state = "none", !.auth_seq = 0,
                                 !.expire_to = ExpireTo, !.keyInCam = FALSE,
                                 !.tmp_rmv_key = FALSE, !.ht = FALSE]
<1>1. s \in Stations /\ SameUse(t.sta[i], s)
  BY StationsOf, StationInit
<1>2. u = Put(t, i, s)
  BY DEF init_stainfo, Put
<1> HIDE DEF s
<1>3. QED
  BY <1>1, <1>2, PutIs

LEMMA FreeIs ==
  ASSUME NEW t \in Tables, NEW i \in Slots, NEW u, u = free_stainfo(t, i),
         i \in Used(t)
  PROVE  /\ u \in Tables /\ Elsewhere(t, u, i)
         /\ u.asoc = t.asoc \ {i} /\ u.auth = t.auth \ {i}
         /\ u.pstat_cache = IF t.pstat_cache = i THEN NoSlot ELSE t.pstat_cache
         /\ i \notin Used(u) /\ u.assoc_num = t.assoc_num
<1> DEFINE r == release_stainfo(t, i)
           s == [r.sta[i] EXCEPT !.used = FALSE]
<1>1. /\ r \in Tables /\ Elsewhere(t, r, i)
      /\ r.asoc = t.asoc \ {i} /\ r.auth = t.auth \ {i}
      /\ r.pstat_cache = IF t.pstat_cache = i THEN NoSlot ELSE t.pstat_cache
      /\ r.assoc_num = t.assoc_num
  BY ReleaseIs
<1>2. u = Put(r, i, s)
  BY DEF free_stainfo, Put, Used
<1> HIDE DEF r
<1>3. r.sta[i] \in Stations
  BY <1>1, StationsOf
<1>3a. s \in Stations /\ s.used = FALSE
  BY <1>3 DEF Stations
<1> HIDE DEF s
<1>4. /\ u \in Tables /\ Elsewhere(r, u, i) /\ SameLists(r, u)
      /\ u.sta[i] = s /\ u.assoc_num = r.assoc_num
  BY <1>1, <1>2, <1>3a, PutIs
<1>5. i \notin Used(u)
  BY <1>3a, <1>4 DEF Used
<1>6. QED
  BY <1>1, <1>4, <1>5 DEF Elsewhere, SameLists

LEMMA IncreaseIs ==
  ASSUME NEW t \in Tables, NEW i \in Slots, NEW u, u = Increase(t, i)
  PROVE  /\ u \in Tables /\ u.sta = t.sta /\ SameLists(t, u)
         /\ t.assoc_num <= NUM_STAT => u.assoc_num = t.assoc_num + 1
<1> DEFINE n == t.assoc_num + 1
           h == IF t.sta[i].ht THEN (t.ht_sta_num + 1) % HTModulus ELSE t.ht_sta_num
<1>1. t.assoc_num \in 0 .. NUM_STAT + 1 /\ t.ht_sta_num \in 0 .. HTModulus - 1
  BY DEF Tables
<1>2. CASE t.assoc_num > NUM_STAT
  BY <1>1, <1>2, SlotsCounted DEF Increase, SameLists
<1>3. CASE ~(t.assoc_num > NUM_STAT)
  <2>1. n \in 0 .. NUM_STAT + 1 /\ h \in 0 .. HTModulus - 1
    BY <1>1, <1>3, SlotsCounted, TableAssumption
  <2>2. u = [t EXCEPT !.assoc_num = n, !.ht_sta_num = h]
    BY <1>3 DEF Increase, Tables
  <2> HIDE DEF n, h
  <2>3. u \in Tables
    BY <2>1, <2>2 DEF Tables
  <2>4. u.sta = t.sta /\ SameLists(t, u) /\ u.assoc_num = n
    BY <2>2 DEF Tables, SameLists
  <2>5. QED
    BY <2>3, <2>4 DEF n
<1>4. QED
  BY <1>2, <1>3

LEMMA DecreaseIs ==
  ASSUME NEW t \in Tables, NEW i \in Slots, NEW u, u = Decrease(t, i)
  PROVE  /\ u \in Tables /\ u.sta = t.sta /\ SameLists(t, u)
         /\ t.assoc_num > 0 => u.assoc_num = t.assoc_num - 1
<1> DEFINE n == t.assoc_num - 1
           h == IF t.sta[i].ht THEN (t.ht_sta_num - 1) % HTModulus ELSE t.ht_sta_num
<1>1. t.assoc_num \in 0 .. NUM_STAT + 1 /\ t.ht_sta_num \in 0 .. HTModulus - 1
  BY DEF Tables
<1>2. CASE t.assoc_num = 0
  BY <1>1, <1>2, SlotsCounted DEF Decrease, SameLists
<1>3. CASE t.assoc_num # 0
  <2>1. n \in 0 .. NUM_STAT + 1 /\ h \in 0 .. HTModulus - 1
    BY <1>1, <1>3, SlotsCounted, TableAssumption
  <2>2. u = [t EXCEPT !.assoc_num = n, !.ht_sta_num = h]
    BY <1>3 DEF Decrease, Tables
  <2> HIDE DEF n, h
  <2>3. u \in Tables
    BY <2>1, <2>2 DEF Tables
  <2>4. u.sta = t.sta /\ SameLists(t, u) /\ u.assoc_num = n
    BY <2>2 DEF Tables, SameLists
  <2>5. QED
    BY <2>3, <2>4 DEF n
<1>4. QED
  BY <1>2, <1>3

LEMMA LookupIs ==
  ASSUME NEW t \in Tables, NEW a \in Addrs, t.pstat_cache \in Used(t) \cup {NoSlot}
  PROVE  /\ Found(t, a) \in Tables
         /\ Found(t, a).sta = t.sta /\ Found(t, a).asoc = t.asoc
         /\ Found(t, a).auth = t.auth /\ Found(t, a).assoc_num = t.assoc_num
         /\ Lookup(t, a) = NoSlot =>
              /\ Found(t, a) = t
              /\ \A i \in Used(t) : t.sta[i].hwaddr # a
         /\ Lookup(t, a) # NoSlot =>
              /\ Lookup(t, a) \in Used(t)
              /\ t.sta[Lookup(t, a)].hwaddr = a
              /\ Found(t, a).pstat_cache = Lookup(t, a)
<1> DEFINE p == Lookup(t, a)
<1>1. p = NoSlot => \A i \in Used(t) : t.sta[i].hwaddr # a
  BY TableAssumption DEF Lookup, Cached, Used
<1>2. p # NoSlot => p \in Used(t) /\ t.sta[p].hwaddr = a
  BY DEF Lookup, Cached
<1>3. p \in Slots \cup {NoSlot}
  BY <1>2 DEF Used
<1> HIDE DEF p
<1>4. CASE p = NoSlot
  BY <1>1, <1>4 DEF Found, p
<1>5. CASE p # NoSlot
  <2>1. Found(t, a) = [t EXCEPT !.pstat_cache = p]
    BY <1>5 DEF Found, p
  <2>2. Found(t, a) \in Tables
    BY <1>3, <2>1 DEF Tables
  <2>3. /\ Found(t, a).sta = t.sta /\ Found(t, a).asoc = t.asoc
        /\ Found(t, a).auth = t.auth /\ Found(t, a).assoc_num = t.assoc_num
        /\ Found(t, a).pstat_cache = p
    BY <2>1 DEF Tables
  <2>4. QED
    BY <2>2, <2>3, <1>2, <1>5 DEF p
<1>6. QED
  BY <1>4, <1>5

-----------------------------------------------------------------------------
(* TableConsistent.  While a handler is at work the station it is about may *)
(* be on no list or still on that of authenticated stations: it is loose.   *)

Consistent(t) ==
  /\ t.asoc \cap t.auth = {}
  /\ t.asoc \cup t.auth = Used(t)
  /\ \A i, j \in Used(t) : t.sta[i].hwaddr = t.sta[j].hwaddr => i = j
  /\ t.pstat_cache \in Used(t) \cup {NoSlot}

Loose(t, i) ==
  /\ i \in Used(t) /\ i \notin t.asoc
  /\ t.asoc \cap t.auth = {}
  /\ t.asoc \cup t.auth \cup {i} = Used(t)
  /\ \A j, k \in Used(t) : t.sta[j].hwaddr = t.sta[k].hwaddr => j = k
  /\ t.pstat_cache \in Used(t) \cup {NoSlot}

LEMMA UsedKept ==
  ASSUME NEW t, NEW u, NEW i \in Slots, Elsewhere(t, u, i), SameUse(t.sta[i], u.sta[i])
  PROVE  /\ Used(u) = Used(t)
         /\ \A j \in Slots : u.sta[j].hwaddr = t.sta[j].hwaddr
BY DEF Elsewhere, SameUse, Used

LEMMA LooseKept ==
  ASSUME NEW t, NEW u, NEW i \in Slots, Loose(t, i), Elsewhere(t, u, i),
         SameUse(t.sta[i], u.sta[i]),
         u.asoc \in {t.asoc, t.asoc \ {i}}, u.auth \in {t.auth, t.auth \ {i}},
         u.pstat_cache \in {t.pstat_cache, NoSlot}
  PROVE  Loose(u, i)
<1>1. Used(u) = Used(t) /\ \A j \in Slots : u.sta[j].hwaddr = t.sta[j].hwaddr
  BY UsedKept
<1>2. \A j, k \in Used(u) : u.sta[j].hwaddr = u.sta[k].hwaddr => j = k
  BY <1>1 DEF Loose, Used
<1>3. QED
  BY <1>1, <1>2 DEF Loose

Good(t) == t \in Tables /\ Consistent(t)

\* A step of the table that associates no station.
Step(t, u) == Good(u) /\ u.asoc \subseteq t.asoc

LEMMA GoodKept ==
  ASSUME NEW t, NEW u \in Tables, NEW i \in Slots, Good(t), Elsewhere(t, u, i),
         SameUse(t.sta[i], u.sta[i]), SameLists(t, u)
  PROVE  Step(t, u)
<1>1. Used(u) = Used(t) /\ \A j \in Slots : u.sta[j].hwaddr = t.sta[j].hwaddr
  BY UsedKept
<1>2. \A j, k \in Used(u) : u.sta[j].hwaddr = u.sta[k].hwaddr => j = k
  BY <1>1 DEF Good, Consistent, Used
<1>3. QED
  BY <1>1, <1>2 DEF Good, Consistent, SameLists, Step

LEMMA PutGood ==
  ASSUME NEW t, NEW i \in Slots, Good(t), NEW s \in Stations, SameUse(t.sta[i], s)
  PROVE  Step(t, Put(t, i, s))
<1> DEFINE u == Put(t, i, s)
<1>1. u \in Tables /\ Elsewhere(t, u, i) /\ SameLists(t, u) /\ u.sta[i] = s
  BY PutIs DEF Good
<1> HIDE DEF u
<1>2. Step(t, u)
  BY <1>1, GoodKept
<1>3. QED
  BY <1>2 DEF u

LEMMA ReleasedLoose ==
  ASSUME NEW t \in Tables, NEW i \in Slots, Loose(t, i), NEW u, u = release_stainfo(t, i)
  PROVE  u \in Tables /\ Loose(u, i) /\ u.asoc \subseteq t.asoc
<1>1. /\ u \in Tables /\ Elsewhere(t, u, i)
      /\ u.asoc = t.asoc \ {i} /\ u.auth = t.auth \ {i}
      /\ u.pstat_cache = IF t.pstat_cache = i THEN NoSlot ELSE t.pstat_cache
      /\ SameUse(t.sta[i], u.sta[i])
  BY ReleaseIs
<1>2. Loose(u, i)
  BY <1>1, LooseKept
<1>3. QED
  BY <1>1, <1>2

LEMMA InitLoose ==
  ASSUME NEW t \in Tables, NEW i \in Slots, Loose(t, i), NEW u, u = init_stainfo(t, i)
  PROVE  u \in Tables /\ Loose(u, i) /\ u.asoc \subseteq t.asoc
<1>1. /\ u \in Tables /\ Elsewhere(t, u, i) /\ SameLists(t, u)
      /\ SameUse(t.sta[i], u.sta[i])
  BY InitIs
<1>2. Loose(u, i)
  BY <1>1, LooseKept DEF SameLists
<1>3. QED
  BY <1>1, <1>2 DEF SameLists

LEMMA LeaveAsocIs ==
  ASSUME NEW t, NEW i \in Used(t), Good(t), NEW u, u = LeaveAsoc(t, i)
  PROVE  u \in Tables /\ Loose(u, i) /\ u.asoc \subseteq t.asoc
<1> DEFINE v == [t EXCEPT !.asoc = t.asoc \ {i}]
<1>1. t \in Tables /\ i \in Slots
  BY DEF Good, Used
<1>2. CASE i \notin t.asoc
  BY <1>1, <1>2 DEF LeaveAsoc, Good, Consistent, Loose
<1>3. CASE i \in t.asoc
  <2>1. v \in Tables
    BY <1>1 DEF Tables
  <2>2. /\ v.sta = t.sta /\ v.asoc = t.asoc \ {i} /\ v.auth = t.auth
        /\ v.pstat_cache = t.pstat_cache
    BY <1>1 DEF Tables
  <2>3. u = v \/ u = Decrease(v, i)
    BY <1>1, <1>3 DEF LeaveAsoc, Tables
  <2> HIDE DEF v
  <2>4. u \in Tables /\ u.sta = v.sta /\ SameLists(v, u)
    BY <1>1, <2>1, <2>3, DecreaseIs DEF SameLists
  <2>5. Used(u) = Used(t) /\ u.sta = t.sta /\ u.asoc = t.asoc \ {i} /\ u.auth = t.auth
        /\ u.pstat_cache = t.pstat_cache
    BY <2>2, <2>4 DEF SameLists, Used
  <2>6. QED
    BY <1>3, <2>4, <2>5 DEF Good, Consistent, Loose
<1>4. QED
  BY <1>2, <1>3

\* Freeing a station of a consistent table or the loose one.
LEMMA FreedGood ==
  ASSUME NEW t \in Tables, NEW i \in Slots, Loose(t, i) \/ Consistent(t),
         NEW u, u = free_stainfo(t, i)
  PROVE  Step(t, u)
<1>1. CASE i \notin Used(t)
  BY <1>1 DEF free_stainfo, Loose, Used, Step, Good
<1>2. CASE i \in Used(t)
  <2>1. /\ u \in Tables /\ Elsewhere(t, u, i)
        /\ u.asoc = t.asoc \ {i} /\ u.auth = t.auth \ {i}
        /\ u.pstat_cache = IF t.pstat_cache = i THEN NoSlot ELSE t.pstat_cache
        /\ i \notin Used(u)
    BY <1>2, FreeIs
  <2>2. Used(u) = Used(t) \ {i}
    <3>1. \A j \in Slots \ {i} : u.sta[j].used = t.sta[j].used
      BY <2>1 DEF Elsewhere
    <3>2. QED
      BY <2>1, <3>1 DEF Used
  <2>2a. \A j \in Slots \ {i} : u.sta[j].hwaddr = t.sta[j].hwaddr
    BY <2>1 DEF Elsewhere
  <2>3. \A j, k \in Used(u) : u.sta[j].hwaddr = u.sta[k].hwaddr => j = k
    BY <2>2, <2>2a DEF Loose, Consistent, Used
  <2>4. /\ u.asoc \cap u.auth = {} /\ u.asoc \cup u.auth = Used(u)
        /\ u.pstat_cache \in Used(u) \cup {NoSlot}
    BY <2>1, <2>2 DEF Loose, Consistent
  <2>5. QED
    BY <2>1, <2>3, <2>4 DEF Step, Good, Consistent
<1>3. QED
  BY <1>1, <1>2

\* The loose station gets onto the list of authenticated stations.
LEMMA ListedGood ==
  ASSUME NEW t \in Tables, NEW i \in Slots, Loose(t, i),
         NEW u, u = [t EXCEPT !.auth = t.auth \cup {i}]
  PROVE  Step(t, u)
<1>1. u \in Tables
  BY DEF Tables
<1>2. /\ u.sta = t.sta /\ u.asoc = t.asoc /\ u.auth = t.auth \cup {i}
      /\ u.pstat_cache = t.pstat_cache
  BY DEF Tables
<1>3. Used(u) = Used(t)
  BY <1>2 DEF Used
<1>4. /\ u.asoc \cap u.auth = {} /\ u.asoc \cup u.auth = Used(u)
      /\ u.pstat_cache \in Used(u) \cup {NoSlot}
  BY <1>2, <1>3 DEF Loose
<1>5. \A j, k \in Used(u) : u.sta[j].hwaddr = u.sta[k].hwaddr => j = k
  BY <1>2, <1>3 DEF Loose
<1>6. QED
  BY <1>1, <1>2, <1>4, <1>5 DEF Step, Good, Consistent

-----------------------------------------------------------------------------
(* Authentication *)

LEMMA AuthenticatedGood ==
  ASSUME NEW t, NEW i \in Slots, Good(t)
  PROVE  Step(t, Authenticated(t, i))
<1> DEFINE s == [t.sta[i] EXCEPT !.state = "success", !.expire_to = AssocTo, !.auth_seq = 0]
<1>1. s \in Stations /\ SameUse(t.sta[i], s)
  <2>1. t.sta[i] \in Stations
    BY StationsOf DEF Good
  <2>2. QED
    BY <2>1, LifeTimes DEF Stations, SameUse
<1>2. Authenticated(t, i) = Put(t, i, s)
  BY DEF Authenticated, Put
<1> HIDE DEF s
<1>3. QED
  BY <1>1, <1>2, PutGood

LEMMA AuthFailedGood ==
  ASSUME NEW t, NEW i \in Slots, Good(t), NEW seq \in AuthSeqs
  PROVE  Step(t, AuthFailed(t, i, seq))
<1> DEFINE s == [t.sta[i] EXCEPT !.auth_seq = seq + 1]
<1>1. seq + 1 \in {0, 2, 4}
  BY TableAssumption
<1>2. s \in Stations /\ SameUse(t.sta[i], s)
  BY <1>1, StationsOf DEF Good, Stations, SameUse
<1>3. AuthFailed(t, i, seq) = Put(t, i, s)
  BY DEF AuthFailed, Put
<1> HIDE DEF s
<1>4. QED
  BY <1>2, <1>3, PutGood

LEMMA AuthenticateGood ==
  ASSUME NEW t \in Tables, NEW i \in Slots, Loose(t, i), NEW seq \in AuthSeqs,
         NEW algorithm, NEW w \in Authenticate(t, i, seq, algorithm)
  PROVE  Step(t, w)
<1> DEFINE n == IF t.sta[i].auth_seq = 0 THEN AuthTo ELSE t.sta[i].expire_to
           s == [t.sta[i] EXCEPT !.expire_to = n]
           v == [t EXCEPT !.auth = t.auth \cup {i}]
           u == [t EXCEPT !.auth = @ \cup {i},
                          !.sta[i] = [@ EXCEPT !.expire_to =
                                        IF t.sta[i].auth_seq = 0 THEN AuthTo
                                        ELSE t.sta[i].expire_to]]
           c == [u.sta[i] EXCEPT !.state = "state1", !.auth_seq = 2]
           challenged == [u EXCEPT !.sta[i] = [@ EXCEPT !.state = "state1", !.auth_seq = 2]]
<1>1. n \in 0 .. Forever
  BY LifeTimes, StationsOf DEF Stations
<1>2. s \in Stations /\ SameUse(t.sta[i], s)
  BY <1>1, StationsOf DEF Stations, SameUse
<1>3. Step(t, v)
  BY ListedGood
<1>4. u = [t EXCEPT !.auth = t.auth \cup {i}, !.sta = [t.sta EXCEPT ![i] = s]]
  BY DEF Tables, Stations
<1>5. u = Put(v, i, s)
  BY <1>4 DEF Put, Tables
<1>6. v.sta = t.sta
  BY DEF Tables
<1>7. challenged = Put(u, i, c)
  BY DEF Put
<1>8. w \in {AuthFailed(u, i, seq), Authenticated(u, i), challenged}
  BY TableAssumption DEF Authenticate
<1> HIDE DEF n, s, v, u
<1>9. Step(v, u)
  BY <1>2, <1>3, <1>5, <1>6, PutGood DEF Step
<1>10. Good(u) /\ u.asoc \subseteq t.asoc
  BY <1>3, <1>9 DEF Step
<1>11. c \in Stations /\ SameUse(u.sta[i], c)
  <2>1. u.sta[i] \in Stations
    BY <1>10, StationsOf DEF Good
  <2>2. QED
    BY <2>1 DEF Stations, SameUse
<1> HIDE DEF c, challenged
<1>12. Step(u, challenged)
  BY <1>7, <1>10, <1>11, PutGood
<1>13. Step(u, AuthFailed(u, i, seq)) /\ Step(u, Authenticated(u, i))
  BY <1>10, AuthFailedGood, AuthenticatedGood
<1>14. QED
  BY <1>8, <1>10, <1>12, <1>13 DEF Step

LEMMA AuthAnewLoose ==
  ASSUME NEW t, NEW i \in Used(t), Good(t), NEW seq
  PROVE  /\ AuthAnew(t, i, seq) \in Tables /\ Loose(AuthAnew(t, i, seq), i)
         /\ AuthAnew(t, i, seq).asoc \subseteq t.asoc
<1> DEFINE u == LeaveAsoc(t, i)
           r == release_stainfo(u, i)
           z == init_stainfo(r, i)
<1>0. i \in Slots
  BY DEF Used
<1>1. u \in Tables /\ Loose(u, i) /\ u.asoc \subseteq t.asoc
  BY LeaveAsocIs
<1>2. AuthAnew(t, i, seq) \in {u, z}
  BY DEF AuthAnew
<1> HIDE DEF u
<1>3. r \in Tables /\ Loose(r, i) /\ r.asoc \subseteq u.asoc
  BY <1>0, <1>1, ReleasedLoose
<1> HIDE DEF r
<1>4. z \in Tables /\ Loose(z, i) /\ z.asoc \subseteq r.asoc
  BY <1>0, <1>3, InitLoose
<1> HIDE DEF z
<1>5. QED
  BY <1>1, <1>2, <1>3, <1>4

LEMMA TakenLoose ==
  ASSUME NEW t, NEW i \in Slots, NEW a \in Addrs, Good(t),
         \A j \in Used(t) : t.sta[j].hwaddr # a
  PROVE  /\ Taken(t, i, a) \in Tables /\ Loose(Taken(t, i, a), i)
         /\ Taken(t, i, a).asoc \subseteq t.asoc
<1> DEFINE r == IF t.sta[i].used THEN release_stainfo(t, i) ELSE t
           s == [r.sta[i] EXCEPT !.used = TRUE, !.hwaddr = a]
           p == Put(r, i, s)
           z == init_stainfo(p, i)
<1>1. Taken(t, i, a) = z
  BY DEF Taken, Put
<1>2. /\ r \in Tables /\ Elsewhere(t, r, i)
      /\ r.asoc = t.asoc \ {i} /\ r.auth = t.auth \ {i}
      /\ r.pstat_cache \in (Used(t) \ {i}) \cup {NoSlot}
  <2>1. CASE t.sta[i].used
    BY <2>1, ReleaseIs, TableAssumption DEF Good, Consistent
  <2>2. CASE ~t.sta[i].used
    BY <2>2 DEF Good, Consistent, Used, Elsewhere
  <2>3. QED
    BY <2>1, <2>2
<1> HIDE DEF r
<1>3. s \in Stations /\ s.used = TRUE /\ s.hwaddr = a
  <2>1. r.sta[i] \in Stations
    BY <1>2, StationsOf
  <2>2. QED
    BY <2>1 DEF Stations
<1> HIDE DEF s
<1>4. /\ p \in Tables /\ Elsewhere(r, p, i) /\ SameLists(r, p) /\ p.sta[i] = s
  BY <1>2, <1>3, PutIs
<1> HIDE DEF p
<1>5. \A j \in Slots \ {i} : p.sta[j] = t.sta[j]
  BY <1>2, <1>4 DEF Elsewhere
<1>6. Used(p) = Used(t) \cup {i}
  BY <1>3, <1>4, <1>5 DEF Used
<1>7. \A j, k \in Used(p) : p.sta[j].hwaddr = p.sta[k].hwaddr => j = k
  BY <1>3, <1>4, <1>5, <1>6 DEF Good, Consistent, Used
<1>8. Loose(p, i) /\ p.asoc \subseteq t.asoc
  BY <1>2, <1>4, <1>6, <1>7 DEF Good, Consistent, SameLists, Loose
<1>9. z \in Tables /\ Loose(z, i) /\ z.asoc \subseteq p.asoc
  BY <1>4, <1>8, InitLoose
<1> HIDE DEF z
<1>10. QED
  BY <1>1, <1>8, <1>9

LEMMA FoundGood ==
  ASSUME NEW t, NEW a \in Addrs, Good(t), NEW f, f = Found(t, a)
  PROVE  /\ Step(t, f) /\ Used(f) = Used(t) /\ f.sta = t.sta
         /\ Lookup(t, a) \in Used(t) \cup {NoSlot}
         /\ Lookup(t, a) = NoSlot => \A j \in Used(t) : t.sta[j].hwaddr # a
<1> DEFINE p == Lookup(t, a)
<1>1. /\ f \in Tables /\ f.sta = t.sta /\ f.asoc = t.asoc /\ f.auth = t.auth
      /\ p = NoSlot => f = t /\ \A j \in Used(t) : t.sta[j].hwaddr # a
      /\ p # NoSlot => p \in Used(t) /\ f.pstat_cache = p
  BY LookupIs DEF Good, Consistent
<1> HIDE DEF p
<1>2. Used(f) = Used(t) /\ f.pstat_cache \in Used(t) \cup {NoSlot}
  BY <1>1 DEF Used, Good, Consistent
<1>3. Step(t, f)
  BY <1>1, <1>2 DEF Step, Good, Consistent
<1>4. p \in Used(t) \cup {NoSlot}
  BY <1>1
<1>5. QED
  BY <1>1, <1>2, <1>3, <1>4 DEF p

LEMMA StepTrans ==
  ASSUME NEW t, NEW u, NEW w, Step(t, u), Step(u, w)
  PROVE  Step(t, w)
BY DEF Step

LEMMA OnAuthStep ==
  ASSUME Good(table), NEW a \in Addrs, NEW seq \in AuthSeqs, NEW algorithm,
         OnAuth(a, seq, algorithm)
  PROVE  Step(table, table')
<1> DEFINE p == Lookup(table, a)
           t == Found(table, a)
<1>1. /\ Step(table, t) /\ Used(t) = Used(table) /\ t.sta = table.sta
      /\ p \in Used(table) \cup {NoSlot}
      /\ p = NoSlot => \A j \in Used(table) : table.sta[j].hwaddr # a
  BY FoundGood
<1>2. Good(t) /\ t.asoc \subseteq table.asoc
  BY <1>1 DEF Step
<1>3. CASE p # NoSlot
  <2> DEFINE u == AuthAnew(t, p, seq)
  <2>1. p \in Used(t) /\ p \in Slots
    BY <1>1, <1>3 DEF Used
  <2>2. table' \in Authenticate(u, p, seq, algorithm)
    BY <1>3 DEF OnAuth
  <2> HIDE DEF p, t
  <2>3. u \in Tables /\ Loose(u, p) /\ u.asoc \subseteq t.asoc
    BY <1>2, <2>1, AuthAnewLoose
  <2> HIDE DEF u
  <2>4. Step(u, table')
    BY <2>1, <2>2, <2>3, AuthenticateGood
  <2>5. QED
    BY <1>2, <2>3, <2>4 DEF Step
<1>4. CASE p = NoSlot
  <2>1. PICK i \in Allocatable(t) :
          IF i = NoSlot THEN table' = t
          ELSE table' \in Authenticate(Taken(t, i, a), i, seq, algorithm)
    BY <1>4 DEF OnAuth
  <2>2. \A j \in Used(t) : t.sta[j].hwaddr # a
    BY <1>1, <1>4
  <2>3. i \in Slots \cup {NoSlot}
    BY <1>2 DEF Allocatable, Unused, NeverUsed, Expired, Good, Tables
  <2>4. CASE i = NoSlot
    BY <1>1, <2>1, <2>4
  <2>5. CASE i # NoSlot
    <3> DEFINE u == Taken(t, i, a)
    <3>1. i \in Slots /\ table' \in Authenticate(u, i, seq, algorithm)
      BY <2>1, <2>3, <2>5
    <3> HIDE DEF t
    <3>2. u \in Tables /\ Loose(u, i) /\ u.asoc \subseteq t.asoc
      BY <1>2, <2>2, <3>1, TakenLoose
    <3> HIDE DEF u
    <3>3. Step(u, table')
      BY <3>1, <3>2, AuthenticateGood
    <3>4. QED
      BY <1>2, <3>2, <3>3 DEF Step
  <2>6. QED
    BY <2>4, <2>5
<1>5. QED
  BY <1>3, <1>4

LEMMA AuthRefusedStep ==
  ASSUME Good(table), NEW a \in Addrs, NEW seq \in AuthSeqs, AuthRefused(a, seq)
  PROVE  Step(table, table')
<1> DEFINE p == Lookup(table, a)
           t == Found(table, a)
<1>1. Step(table, t) /\ p \in Used(table) \cup {NoSlot}
  BY FoundGood
<1>2. table' = IF p = NoSlot THEN t ELSE AuthFailed(t, p, seq)
  BY DEF AuthRefused
<1>3. Good(t)
  BY <1>1 DEF Step
<1> HIDE DEF t
<1>4. p # NoSlot => p \in Slots
  BY <1>1 DEF Used
<1> HIDE DEF p
<1>5. p # NoSlot => Step(t, AuthFailed(t, p, seq))
  BY <1>3, <1>4, AuthFailedGood
<1>6. QED
  BY <1>1, <1>2, <1>5, StepTrans

-----------------------------------------------------------------------------
(* Association, disassociation and keys *)

LEMMA AssociatedGood ==
  ASSUME NEW t, NEW i \in Used(t), Good(t), NEW u, u = Associated(t, i)
  PROVE  Good(u)
<1> DEFINE s == [t.sta[i] EXCEPT !.expire_to = ExpireTo]
           v == [t EXCEPT !.auth = t.auth \ {i}]
           x == [v EXCEPT !.asoc = v.asoc \cup {i}]
           y == Put(x, i, s)
<1>0. i \in Slots /\ t \in Tables
  BY DEF Used, Good
<1>1. /\ v \in Tables /\ v.sta = t.sta /\ v.asoc = t.asoc /\ v.auth = t.auth \ {i}
      /\ v.pstat_cache = t.pstat_cache
  BY <1>0 DEF Tables
<1>2. CASE i \in t.asoc
  <2>1. u = v
    BY <1>2 DEF Associated
  <2> HIDE DEF v
  <2>2. Used(v) = Used(t)
    BY <1>1 DEF Used
  <2>3. v.asoc \cap v.auth = {} /\ v.asoc \cup v.auth = Used(v)
    BY <1>1, <1>2, <2>2 DEF Good, Consistent
  <2>4. \A j, k \in Used(v) : v.sta[j].hwaddr = v.sta[k].hwaddr => j = k
    BY <1>1, <2>2 DEF Good, Consistent
  <2>5. QED
    BY <1>1, <2>1, <2>2, <2>3, <2>4 DEF Good, Consistent
<1>3. CASE i \notin t.asoc
  <2> HIDE DEF v
  <2>1. /\ x \in Tables /\ x.sta = t.sta /\ x.asoc = t.asoc \cup {i}
        /\ x.auth = t.auth \ {i} /\ x.pstat_cache = t.pstat_cache
    BY <1>0, <1>1 DEF Tables
  <2>2. s \in Stations /\ SameUse(t.sta[i], s)
    <3>1. t.sta[i] \in Stations
      BY <1>0, StationsOf
    <3>2. QED
      BY <3>1, LifeTimes DEF Stations, SameUse
  <2>3. u = Increase([v EXCEPT !.asoc = @ \cup {i},
                               !.sta[i] = [@ EXCEPT !.expire_to = ExpireTo]], i)
    BY <1>3 DEF Associated, v
  <2>4. [v EXCEPT !.asoc = @ \cup {i}, !.sta[i] = [@ EXCEPT !.expire_to = ExpireTo]]
          = [v EXCEPT !.asoc = v.asoc \cup {i}, !.sta = [t.sta EXCEPT ![i] = s]]
    BY <1>1 DEF Tables
  <2>5. y = [v EXCEPT !.asoc = v.asoc \cup {i}, !.sta = [t.sta EXCEPT ![i] = s]]
    BY <1>0, <1>1 DEF Tables, Put
  <2>6. u = Increase(y, i)
    BY <2>3, <2>4, <2>5
  <2> HIDE DEF s, x
  <2>7. /\ y \in Tables /\ Elsewhere(x, y, i) /\ SameLists(x, y) /\ y.sta[i] = s
    BY <1>0, <2>1, <2>2, PutIs
  <2> HIDE DEF y
  <2>8. u \in Tables /\ u.sta = y.sta /\ SameLists(y, u)
    BY <1>0, <2>6, <2>7, IncreaseIs
  <2>9. Elsewhere(t, u, i) /\ SameUse(t.sta[i], u.sta[i])
    BY <2>1, <2>2, <2>7, <2>8 DEF Elsewhere
  <2>10. Used(u) = Used(t) /\ \A j \in Slots : u.sta[j].hwaddr = t.sta[j].hwaddr
    BY <1>0, <2>9, UsedKept
  <2>11. u.asoc = t.asoc \cup {i} /\ u.auth = t.auth \ {i} /\ u.pstat_cache = t.pstat_cache
    BY <2>1, <2>7, <2>8 DEF SameLists
  <2>12. u.asoc \cap u.auth = {} /\ u.asoc \cup u.auth = Used(u)
    BY <2>10, <2>11 DEF Good, Consistent
  <2>13. \A j, k \in Used(u) : u.sta[j].hwaddr = u.sta[k].hwaddr => j = k
    BY <2>10 DEF Good, Consistent, Used
  <2>14. QED
    BY <2>8, <2>10, <2>11, <2>12, <2>13 DEF Good, Consistent
<1>4. QED
  BY <1>2, <1>3

LEMMA OnAssocReqStep ==
  ASSUME Good(table), NEW a \in Addrs, NEW ht \in BOOLEAN, NEW acceptable,
         OnAssocReq(a, ht, acceptable)
  PROVE  Good(table')
<1> DEFINE p == Lookup(table, a)
           t == Found(table, a)
           b == t.sta[p].ht \/ ht
           s == [t.sta[p] EXCEPT !.ht = b]
           u == Put(t, p, s)
<1>1. Step(table, t) /\ p \in Used(table) \cup {NoSlot} /\ Used(t) = Used(table)
  BY FoundGood
<1>2. p # NoSlot /\ table' = IF acceptable THEN Associated(u, p) ELSE u
  BY DEF OnAssocReq, Put
<1>3. Good(t) /\ p \in Used(t) /\ p \in Slots
  BY <1>1, <1>2 DEF Step, Used
<1> HIDE DEF p, t
<1>4. s \in Stations /\ SameUse(t.sta[p], s)
  <2>1. t.sta[p] \in Stations
    BY <1>3, StationsOf DEF Good
  <2>2. b \in BOOLEAN
    OBVIOUS
  <2> HIDE DEF b
  <2>3. QED
    BY <2>1, <2>2 DEF Stations, SameUse
<1> HIDE DEF s
<1>5. Good(u)
  BY <1>3, <1>4, PutGood DEF Step
<1>6. p \in Used(u)
  <2>1. u.sta[p] = s
    BY <1>3, <1>4, PutIs DEF Good
  <2>2. QED
    BY <1>3, <1>4, <2>1 DEF SameUse, Used
<1> HIDE DEF u
<1>7. Good(Associated(u, p))
  BY <1>5, <1>6, AssociatedGood
<1>8. QED
  BY <1>2, <1>5, <1>7

LEMMA OnDisassocStep ==
  ASSUME Good(table), NEW a \in Addrs, OnDisassoc(a)
  PROVE  Step(table, table')
<1> DEFINE i == Lookup(table, a)
           t == Found(table, a)
           l == LeaveAsoc(t, i)
           r == release_stainfo(l, i)
           z == init_stainfo(r, i)
           s == [z.sta[i] EXCEPT !.state = "success", !.expire_to = AssocTo]
           y == Put(z, i, s)
<1>1. Step(table, t) /\ i \in Used(table) \cup {NoSlot} /\ Used(t) = Used(table)
  BY FoundGood
<1>2. i # NoSlot /\ table' = Disassociated(t, i)
  BY DEF OnDisassoc
<1>3. Good(t) /\ i \in Used(t) /\ i \in Slots
  BY <1>1, <1>2 DEF Step, Used
<1> HIDE DEF i, t
<1>4. l \in Tables /\ Loose(l, i) /\ l.asoc \subseteq t.asoc
  BY <1>3, LeaveAsocIs
<1>5. table' = [z EXCEPT !.sta[i] = s, !.auth = @ \cup {i}]
  BY <1>2 DEF Disassociated
<1> HIDE DEF l
<1>6. r \in Tables /\ Loose(r, i) /\ r.asoc \subseteq l.asoc
  BY <1>3, <1>4, ReleasedLoose
<1> HIDE DEF r
<1>7. z \in Tables /\ Loose(z, i) /\ z.asoc \subseteq r.asoc
  BY <1>3, <1>6, InitLoose
<1> HIDE DEF z
<1>8. s \in Stations /\ SameUse(z.sta[i], s)
  <2>1. z.sta[i] \in Stations
    BY <1>3, <1>7, StationsOf
  <2>2. QED
    BY <2>1, LifeTimes DEF Stations, SameUse
<1>9. table' = [y EXCEPT !.auth = y.auth \cup {i}]
  BY <1>3, <1>5, <1>7 DEF Tables, Put
<1> HIDE DEF s
<1>10. y \in Tables /\ Elsewhere(z, y, i) /\ SameLists(z, y) /\ y.sta[i] = s
  BY <1>3, <1>7, <1>8, PutIs
<1> HIDE DEF y
<1>11. Loose(y, i) /\ y.asoc = z.asoc
  BY <1>3, <1>7, <1>8, <1>10, LooseKept DEF SameLists
<1>12. Step(y, table')
  BY <1>3, <1>9, <1>10, <1>11, ListedGood
<1>13. QED
  BY <1>1, <1>4, <1>6, <1>7, <1>11, <1>12 DEF Step

LEMMA DisconnectedGood ==
  ASSUME NEW t, NEW i \in Slots, Good(t)
  PROVE  Step(t, Disconnected(t, i))
<1> DEFINE l == LeaveAsoc(t, i)
           u == Disconnected(t, i)
<1>1. u = free_stainfo(l, i)
  BY DEF Disconnected
<1>2. CASE i \in Used(t)
  <2>1. l \in Tables /\ Loose(l, i) /\ l.asoc \subseteq t.asoc
    BY <1>2, LeaveAsocIs
  <2> HIDE DEF l, u
  <2>2. Step(l, u)
    BY <1>1, <2>1, FreedGood
  <2>3. QED
    BY <2>1, <2>2 DEF Step, u
<1>3. CASE i \notin Used(t)
  <2>1. l = t
    BY <1>3 DEF LeaveAsoc, Good, Consistent
  <2>2. u = free_stainfo(t, i)
    BY <1>1, <2>1
  <2> HIDE DEF l, u
  <2>3. Step(t, u)
    BY <2>2, FreedGood DEF Good
  <2>4. QED
    BY <2>3 DEF u
<1>4. QED
  BY <1>2, <1>3

LEMMA OnDeAuthStep ==
  ASSUME Good(table), NEW a \in Addrs, OnDeAuth(a)
  PROVE  Step(table, table')
<1> DEFINE i == Lookup(table, a)
           t == Found(table, a)
<1>1. Step(table, t) /\ i \in Used(table) \cup {NoSlot}
  BY FoundGood
<1>2. i # NoSlot /\ table' = Disconnected(t, i)
  BY DEF OnDeAuth
<1>3. Good(t) /\ i \in Slots
  BY <1>1, <1>2 DEF Step, Used
<1> HIDE DEF i, t
<1>4. Step(t, table')
  BY <1>2, <1>3, DisconnectedGood
<1>5. QED
  BY <1>1, <1>4, StepTrans

LEMMA CamDeleteGood ==
  ASSUME NEW t, NEW i \in Slots, Good(t)
  PROVE  Step(t, CamDelete(t, i))
<1> DEFINE u == CamDelete(t, i)
<1>1. /\ u \in Tables /\ Elsewhere(t, u, i) /\ SameLists(t, u)
      /\ SameUse(t.sta[i], u.sta[i])
  BY CamDeleteIs DEF Good
<1> HIDE DEF u
<1>2. Step(t, u)
  BY <1>1, GoodKept
<1>3. QED
  BY <1>2 DEF u

LEMMA CamAddGood ==
  ASSUME NEW t, NEW i \in Slots, Good(t)
  PROVE  Step(t, CamAdd(t, i))
<1> DEFINE u == CamAdd(t, i)
<1>1. /\ u \in Tables /\ Elsewhere(t, u, i) /\ SameLists(t, u)
      /\ SameUse(t.sta[i], u.sta[i])
  BY CamAddIs DEF Good
<1> HIDE DEF u
<1>2. Step(t, u)
  BY <1>1, GoodKept
<1>3. QED
  BY <1>2 DEF u

LEMMA KeyReleasedGood ==
  ASSUME NEW t, NEW i \in Slots, Good(t)
  PROVE  Step(t, KeyReleased(t, i))
BY CamDeleteGood DEF KeyReleased, Step

LEMMA KeyStep ==
  ASSUME Good(table), NEW a \in Addrs, SetKey(a) \/ DeleteKey(a)
  PROVE  Step(table, table')
<1> DEFINE i == Lookup(table, a)
           t == Found(table, a)
<1>1. Step(table, t) /\ i \in Used(table) \cup {NoSlot}
  BY FoundGood
<1>2. i # NoSlot /\ table' \in {CamAdd(CamDelete(t, i), i), KeyReleased(t, i)}
  BY DEF SetKey, DeleteKey
<1>3. Good(t) /\ i \in Slots
  BY <1>1, <1>2 DEF Step, Used
<1> HIDE DEF i, t
<1>4. Step(t, KeyReleased(t, i)) /\ Step(t, CamDelete(t, i))
  BY <1>3, KeyReleasedGood, CamDeleteGood
<1>5. Step(t, CamAdd(CamDelete(t, i), i))
  <2>1. Good(CamDelete(t, i))
    BY <1>4 DEF Step
  <2>2. Step(CamDelete(t, i), CamAdd(CamDelete(t, i), i))
    BY <1>3, <2>1, CamAddGood
  <2>3. QED
    BY <1>4, <2>2, StepTrans
<1>6. QED
  BY <1>1, <1>2, <1>4, <1>5, StepTrans

LEMMA FrameStep ==
  ASSUME Good(table), NEW a \in Addrs, Frame(a)
  PROVE  Step(table, table')
BY OnAuthStep, AuthRefusedStep, OnDisassocStep, OnDeAuthStep, KeyStep, FoundGood
   DEF Frame, OnData

-----------------------------------------------------------------------------
(* Timers *)

LEMMA AuthExpiredGood ==
  ASSUME NEW t, NEW i \in t.auth, Good(t), NEW w, w = AuthExpired(t, i)
  PROVE  Step(t, w)
<1> DEFINE n == t.sta[i].expire_to
           left == IF n \in {0, Forever} THEN Forever ELSE n - 1
           s == [t.sta[i] EXCEPT !.expire_to = left]
           u == Put(t, i, s)
           v == [u EXCEPT !.auth = u.auth \ {i}]
<1>1. i \in Slots /\ t.sta[i] \in Stations
  BY StationsOf DEF Good, Tables
<1>2. w = IF left = 0 THEN free_stainfo(v, i) ELSE u
  BY DEF AuthExpired, Put
<1>3. left \in 0 .. Forever
  <2>1. n \in 0 .. Forever
    BY <1>1 DEF Stations
  <2> HIDE DEF n
  <2>2. QED
    BY <2>1, LifeTimes
<1> HIDE DEF left
<1>4. s \in Stations /\ SameUse(t.sta[i], s)
  BY <1>1, <1>3 DEF Stations, SameUse
<1> HIDE DEF s
<1>5. Step(t, u) /\ i \in u.auth /\ u.sta[i] = s
  <2>1. SameLists(t, u) /\ u.sta[i] = s
    BY <1>1, <1>4, PutIs DEF Good
  <2>2. Step(t, u)
    BY <1>1, <1>4, PutGood
  <2>3. QED
    BY <2>1, <2>2 DEF SameLists
<1>6. Good(u) /\ u.asoc \subseteq t.asoc
  BY <1>5 DEF Step
<1> HIDE DEF u
<1>7. v \in Tables /\ v.sta = u.sta /\ v.asoc = u.asoc /\ v.auth = u.auth \ {i}
      /\ v.pstat_cache = u.pstat_cache
  BY <1>6 DEF Good, Tables
<1> HIDE DEF v
<1>8. Loose(v, i)
  <2>1. Used(v) = Used(u)
    BY <1>7 DEF Used
  <2>2. QED
    BY <1>5, <1>6, <1>7, <2>1 DEF Good, Consistent, Loose
<1>9. left = 0 => Step(v, w)
  BY <1>1, <1>2, <1>7, <1>8, FreedGood
<1>10. QED
  BY <1>2, <1>5, <1>6, <1>7, <1>9 DEF Step

LEMMA DecreaseGood ==
  ASSUME NEW t, NEW i \in Slots, Good(t), NEW u, u \in {Decrease(t, i), Increase(t, i)}
  PROVE  Step(t, u) /\ u.asoc = t.asoc
<1>1. u \in Tables /\ u.sta = t.sta /\ SameLists(t, u)
  BY DecreaseIs, IncreaseIs DEF Good
<1>2. Elsewhere(t, u, i) /\ SameUse(t.sta[i], u.sta[i])
  BY <1>1 DEF Elsewhere, SameUse
<1>3. QED
  BY <1>1, <1>2, GoodKept DEF SameLists

LEMMA WasIdleGood ==
  ASSUME NEW t, NEW i \in Slots, Good(t), NEW w, w = WasIdle(t, i)
  PROVE  Step(t, w)
<1> DEFINE n == t.sta[i].expire_to
           d == Decrease(t, i)
           k == KeyReleased(d, i)
           r == [k.sta[i] EXCEPT !.tmp_rmv_key = TRUE]
           u == IF n = 1 THEN Parked(t, i) ELSE t
           s == [u.sta[i] EXCEPT !.expire_to = n - 1]
<1>1. w = IF n = 0 THEN t ELSE Put(u, i, s)
  BY DEF WasIdle, Put
<1>2. Parked(t, i) \in {k, Put(k, i, r)}
  BY DEF Parked, Put
<1>3. n \in 0 .. Forever
  BY StationsOf DEF Good, Stations
<1> HIDE DEF n
<1>4. Step(t, d)
  BY DecreaseGood
<1> HIDE DEF d
<1>5. Step(d, k)
  BY <1>4, KeyReleasedGood DEF Step
<1> HIDE DEF k
<1>6. Good(k) /\ k.asoc \subseteq t.asoc
  BY <1>4, <1>5 DEF Step
<1>7. r \in Stations /\ SameUse(k.sta[i], r)
  <2>1. k.sta[i] \in Stations
    BY <1>6, StationsOf DEF Good
  <2>2. QED
    BY <2>1 DEF Stations, SameUse
<1> HIDE DEF r
<1>8. Step(k, Put(k, i, r))
  BY <1>6, <1>7, PutGood
<1>9. Step(t, u)
  BY <1>2, <1>6, <1>8 DEF Step
<1> HIDE DEF u
<1>10. n # 0 => s \in Stations /\ SameUse(u.sta[i], s)
  <2>1. u.sta[i] \in Stations
    BY <1>9, StationsOf DEF Good, Step
  <2>2. n # 0 => n - 1 \in 0 .. Forever
    BY <1>3, LifeTimes
  <2>3. QED
    BY <2>1, <2>2 DEF Stations, SameUse
<1> HIDE DEF s
<1>11. n # 0 => Step(u, w)
  BY <1>1, <1>9, <1>10, PutGood DEF Step
<1>12. QED
  BY <1>1, <1>9, <1>11 DEF Step

LEMMA WasActiveGood ==
  ASSUME NEW t, NEW i \in Slots, Good(t), NEW w, w = WasActive(t, i)
  PROVE  Step(t, w)
<1> DEFINE c == Increase(t, i)
           v == CamAdd(c, i)
           r == [v.sta[i] EXCEPT !.tmp_rmv_key = FALSE]
           u == IF t.sta[i].expire_to = 0 THEN Resumed(t, i) ELSE t
           s == [u.sta[i] EXCEPT !.expire_to = ExpireTo]
<1>1. w = Put(u, i, s)
  BY DEF WasActive, Put
<1>2. Resumed(t, i) \in {c, Put(v, i, r)}
  BY DEF Resumed, Put
<1>3. Step(t, c)
  BY DecreaseGood
<1> HIDE DEF c
<1>4. Step(c, v)
  BY <1>3, CamAddGood DEF Step
<1> HIDE DEF v
<1>5. Good(v)
  BY <1>4 DEF Step
<1>6. r \in Stations /\ SameUse(v.sta[i], r)
  <2>1. v.sta[i] \in Stations
    BY <1>5, StationsOf DEF Good
  <2>2. QED
    BY <2>1 DEF Stations, SameUse
<1> HIDE DEF r
<1>7. Step(v, Put(v, i, r))
  BY <1>5, <1>6, PutGood
<1>8. Step(t, u)
  BY <1>2, <1>3, <1>4, <1>7 DEF Step
<1> HIDE DEF u
<1>9. s \in Stations /\ SameUse(u.sta[i], s)
  <2>1. u.sta[i] \in Stations
    BY <1>8, StationsOf DEF Good, Step
  <2>2. QED
    BY <2>1, LifeTimes DEF Stations, SameUse
<1> HIDE DEF s
<1>10. Step(u, w)
  BY <1>1, <1>8, <1>9, PutGood DEF Step
<1>11. QED
  BY <1>8, <1>10, StepTrans

LEMMA ExpireTimerStep ==
  ASSUME Good(table), ticking \subseteq Slots, ExpireTimer
  PROVE  Step(table, table') /\ ticking' \subseteq Slots /\ pc' = pc
<1>1. CASE Tick
  BY <1>1 DEF Tick, Step, Good, Tables
<1>2. ASSUME NEW i \in ticking, AuthExpire(i)
      PROVE  Step(table, table') /\ ticking' \subseteq Slots /\ pc' = pc
  BY <1>2, AuthExpiredGood DEF AuthExpire
<1>3. ASSUME NEW i \in ticking, AssocExpire(i)
      PROVE  Step(table, table') /\ ticking' \subseteq Slots /\ pc' = pc
  <2>1. i \in Slots
    OBVIOUS
  <2>2. Step(table, WasIdle(table, i)) /\ Step(table, WasActive(table, i))
    BY <2>1, WasIdleGood, WasActiveGood
  <2>3. QED
    BY <1>3, <2>2 DEF AssocExpire
<1>4. QED
  BY <1>1, <1>2, <1>3 DEF ExpireTimer

-----------------------------------------------------------------------------
(* Commands of user space and countermeasures *)

\* What the step a command is at says of it.
LEMMA CommandOf ==
  ASSUME pc \in Commands \cup {Idle}
  PROVE  /\ pc.op = "search" => pc.addr \in Addrs /\ pc.then \in {"tell", "disconnect"}
         /\ pc.op = "store" => pc.slot \in Slots /\ pc.then \in {"tell", "disconnect"}
         /\ pc.op \in {"tell", "del_sta", "free", "disconnect"} =>
              pc.slot \in Slots /\ pc = [op |-> pc.op, slot |-> pc.slot]
         /\ pc = Idle => pc.op = "idle"
BY DEF Commands, Idle

\* A command that stores an entry in use keeps the table consistent.
LEMMA CommandStep ==
  ASSUME Good(table), pc \in Commands \cup {Idle}, Command,
         Stored => pc.slot \in Used(table)
  PROVE  Step(table, table')
<1>1. ASSUME NEW a \in Addrs, NEW then, Begin(a, then) PROVE Step(table, table')
  BY <1>1 DEF Begin, Step
<1>2. CASE Searched \/ DelStaTells
  BY <1>2 DEF Searched, DelStaTells, Step
<1>3. CASE Stored
  <2>1. table' = [table EXCEPT !.pstat_cache = pc.slot] /\ pc.slot \in Used(table)
    BY <1>3 DEF Stored
  <2>2. /\ table' \in Tables /\ table'.sta = table.sta /\ table'.asoc = table.asoc
        /\ table'.auth = table.auth /\ table'.pstat_cache = pc.slot
    BY <2>1 DEF Good, Tables, Used
  <2>3. Used(table') = Used(table)
    BY <2>2 DEF Used
  <2>4. QED
    BY <2>1, <2>2, <2>3 DEF Good, Consistent, Step
<1>4. CASE DelStaCounted
  <2>1. pc.slot \in Slots
    BY <1>4, CommandOf DEF DelStaCounted
  <2>2. table' = table \/ table' = Decrease(table, pc.slot)
    BY <1>4 DEF DelStaCounted
  <2>3. QED
    BY <2>1, <2>2, DecreaseGood DEF Step
<1>5. CASE DelStaFreed
  BY <1>5, CommandOf, FreedGood DEF DelStaFreed, Good
<1>6. CASE DisconnectReqFreed
  BY <1>6, CommandOf, DisconnectedGood DEF DisconnectReqFreed
<1>7. QED
  BY <1>1, <1>2, <1>3, <1>4, <1>5, <1>6 DEF Command, DelSta, DisconnectReq

LEMMA CountCleared ==
  ASSUME NEW t, Good(t), NEW n \in 0 .. NUM_STAT + 1, NEW u, u = [t EXCEPT !.assoc_num = n]
  PROVE  Step(t, u) /\ u.asoc = t.asoc /\ Used(u) = Used(t)
<1>1. u \in Tables /\ u.sta = t.sta /\ u.asoc = t.asoc /\ u.auth = t.auth
      /\ u.pstat_cache = t.pstat_cache
  BY DEF Good, Tables
<1>2. Used(u) = Used(t)
  BY <1>1 DEF Used
<1>3. QED
  BY <1>1, <1>2 DEF Good, Consistent, Step

LEMMA FreedStep ==
  ASSUME Good(table), freeing \subseteq Slots, NEW i \in freeing, Freed(i)
  PROVE  Step(table, table') /\ table'.asoc \subseteq table.asoc \ {i}
<1> DEFINE u == free_stainfo(table, i)
           n == IF freeing = {i} THEN 0 ELSE u.assoc_num
<1>1. i \in Slots /\ table \in Tables
  BY DEF Good
<1>2. Step(table, u)
  BY <1>1, FreedGood DEF Good
<1>3. u.asoc \subseteq table.asoc \ {i}
  <2>1. CASE i \in Used(table)
    BY <1>1, <2>1, FreeIs
  <2>2. CASE i \notin Used(table)
    BY <2>2 DEF free_stainfo, Used, Good, Consistent
  <2>3. QED
    BY <2>1, <2>2
<1>4. table' = [u EXCEPT !.assoc_num = n]
  BY DEF Freed
<1> HIDE DEF u
<1>5. n \in 0 .. NUM_STAT + 1
  BY <1>2, SlotsCounted DEF Step, Good, Tables
<1> HIDE DEF n
<1>6. Step(u, table') /\ table'.asoc = u.asoc
  BY <1>2, <1>4, <1>5, CountCleared DEF Step
<1>7. QED
  BY <1>2, <1>3, <1>6, StepTrans

LEMMA EmptyGood == Good(EmptyTable) /\ EmptyTable.asoc = {}
<1>1. NoStation \in Stations /\ NoStation.used = FALSE
  BY LifeTimes DEF NoStation, Stations
<1>2. EmptyTable \in Tables
  <2>1. 0 \in 0 .. NUM_STAT + 1 /\ 0 \in 0 .. HTModulus - 1
    BY SlotsCounted, TableAssumption
  <2>2. QED
    BY <1>1, <2>1 DEF EmptyTable, Tables
<1>3. Used(EmptyTable) = {}
  BY <1>1 DEF Used, EmptyTable
<1>4. /\ EmptyTable.asoc = {} /\ EmptyTable.auth = {} /\ EmptyTable.pstat_cache = NoSlot
  BY DEF EmptyTable
<1>5. QED
  BY <1>2, <1>3, <1>4 DEF Good, Consistent

-----------------------------------------------------------------------------
(* Types.  They are kept whatever the lists and the lookup cache hold, so   *)
(* also once the cache was left on a freed entry.                           *)

LEMMA PutTyped ==
  ASSUME NEW t \in Tables, NEW i \in Slots, NEW s \in Stations
  PROVE  Put(t, i, s) \in Tables
BY PutIs

LEMMA AuthPutTyped ==
  ASSUME NEW t \in Tables, NEW A \in SUBSET Slots
  PROVE  [t EXCEPT !.auth = A] \in Tables
BY DEF Tables

LEMMA LookupTyped ==
  ASSUME NEW t \in Tables, NEW a \in Addrs
  PROVE  Lookup(t, a) \in Slots \cup {NoSlot} /\ Found(t, a) \in Tables
<1> DEFINE p == Lookup(t, a)
<1>1. p \in Slots \cup {NoSlot}
  BY DEF Lookup, Cached, Used, Tables
<1>2. Found(t, a) = t \/ Found(t, a) = [t EXCEPT !.pstat_cache = p]
  BY DEF Found
<1> HIDE DEF p
<1>3. [t EXCEPT !.pstat_cache = p] \in Tables
  BY <1>1 DEF Tables
<1>4. QED
  BY <1>1, <1>2, <1>3 DEF p

LEMMA FreeTyped ==
  ASSUME NEW t \in Tables, NEW i \in Slots
  PROVE  free_stainfo(t, i) \in Tables
<1>1. i \in Used(t) => free_stainfo(t, i) \in Tables
  BY FreeIs
<1>2. i \notin Used(t) => free_stainfo(t, i) = t
  BY DEF free_stainfo, Used
<1>3. QED
  BY <1>1, <1>2

LEMMA LeaveAsocTyped ==
  ASSUME NEW t \in Tables, NEW i \in Slots
  PROVE  LeaveAsoc(t, i) \in Tables
<1> DEFINE v == [t EXCEPT !.asoc = t.asoc \ {i}]
<1>1. v \in Tables
  BY DEF Tables
<1>2. LeaveAsoc(t, i) \in {t, v, Decrease(v, i)}
  BY DEF LeaveAsoc, Tables
<1> HIDE DEF v
<1>3. Decrease(v, i) \in Tables
  BY <1>1, DecreaseIs
<1>4. QED
  BY <1>1, <1>2, <1>3

LEMMA AuthenticateTyped ==
  ASSUME NEW t \in Tables, NEW i \in Slots, NEW seq \in AuthSeqs, NEW algorithm,
         NEW w \in Authenticate(t, i, seq, algorithm)
  PROVE  w \in Tables
<1> DEFINE n == IF t.sta[i].auth_seq = 0 THEN AuthTo ELSE t.sta[i].expire_to
           s == [t.sta[i] EXCEPT !.expire_to = n]
           v == [t EXCEPT !.auth = t.auth \cup {i}]
           u == [t EXCEPT !.auth = @ \cup {i},
                          !.sta[i] = [@ EXCEPT !.expire_to =
                                        IF t.sta[i].auth_seq = 0 THEN AuthTo
                                        ELSE t.sta[i].expire_to]]
           c == [u.sta[i] EXCEPT !.state = "state1", !.auth_seq = 2]
           d == [u.sta[i] EXCEPT !.state = "success", !.expire_to = AssocTo, !.auth_seq = 0]
           f == [u.sta[i] EXCEPT !.auth_seq = seq + 1]
           challenged == [u EXCEPT !.sta[i] = [@ EXCEPT !.state = "state1", !.auth_seq = 2]]
<1>1. n \in 0 .. Forever
  BY LifeTimes, StationsOf DEF Stations
<1>2. s \in Stations
  BY <1>1, StationsOf DEF Stations
<1>3. v \in Tables /\ v.sta = t.sta
  BY DEF Tables
<1>4. u = Put(v, i, s)
  BY DEF Tables, Stations, Put
<1>5. /\ challenged = Put(u, i, c) /\ Authenticated(u, i) = Put(u, i, d)
      /\ AuthFailed(u, i, seq) = Put(u, i, f)
  BY DEF Put, Authenticated, AuthFailed
<1>6. w \in {AuthFailed(u, i, seq), Authenticated(u, i), challenged}
  BY TableAssumption DEF Authenticate
<1> HIDE DEF n, s, v, u
<1>7. u \in Tables
  BY <1>2, <1>3, <1>4, PutTyped
<1>8. u.sta[i] \in Stations
  BY <1>7, StationsOf
<1>9. seq + 1 \in {0, 2, 4}
  BY TableAssumption
<1>10. c \in Stations /\ d \in Stations /\ f \in Stations
  BY <1>8, <1>9, LifeTimes DEF Stations
<1> HIDE DEF c, d, f, challenged
<1>11. QED
  BY <1>5, <1>6, <1>7, <1>10, PutTyped

LEMMA AuthAnewTyped ==
  ASSUME NEW t \in Tables, NEW i \in Slots, NEW seq
  PROVE  AuthAnew(t, i, seq) \in Tables
<1> DEFINE u == LeaveAsoc(t, i)
           r == release_stainfo(u, i)
           z == init_stainfo(r, i)
<1>1. u \in Tables
  BY LeaveAsocTyped
<1>2. AuthAnew(t, i, seq) \in {u, z}
  BY DEF AuthAnew
<1> HIDE DEF u
<1>3. r \in Tables
  BY <1>1, ReleaseIs
<1> HIDE DEF r
<1>4. z \in Tables
  BY <1>3, InitIs
<1>5. QED
  BY <1>1, <1>2, <1>4

LEMMA TakenTyped ==
  ASSUME NEW t \in Tables, NEW i \in Slots, NEW a \in Addrs
  PROVE  Taken(t, i, a) \in Tables
<1> DEFINE r == IF t.sta[i].used THEN release_stainfo(t, i) ELSE t
           s == [r.sta[i] EXCEPT !.used = TRUE, !.hwaddr = a]
           p == Put(r, i, s)
<1>1. Taken(t, i, a) = init_stainfo(p, i)
  BY DEF Taken, Put
<1>2. r \in Tables
  BY ReleaseIs
<1> HIDE DEF r
<1>3. s \in Stations
  <2>1. r.sta[i] \in Stations
    BY <1>2, StationsOf
  <2>2. QED
    BY <2>1 DEF Stations
<1> HIDE DEF s
<1>4. p \in Tables
  BY <1>2, <1>3, PutTyped
<1> HIDE DEF p
<1>5. QED
  BY <1>1, <1>4, InitIs

LEMMA AssociatedTyped ==
  ASSUME NEW t \in Tables, NEW i \in Slots
  PROVE  Associated(t, i) \in Tables
<1> DEFINE s == [t.sta[i] EXCEPT !.expire_to = ExpireTo]
           v == [t EXCEPT !.auth = t.auth \ {i}]
           x == [v EXCEPT !.asoc = v.asoc \cup {i}]
           y == Put(x, i, s)
<1>1. v \in Tables /\ v.sta = t.sta
  BY DEF Tables
<1>2. x \in Tables /\ x.sta = t.sta
  BY DEF Tables
<1>3. s \in Stations
  BY StationsOf, LifeTimes DEF Stations
<1>4. Associated(t, i) \in {v, Increase(y, i)}
  <2>1. [v EXCEPT !.asoc = @ \cup {i}, !.sta[i] = [@ EXCEPT !.expire_to = ExpireTo]] = y
    BY <1>1 DEF Tables, Put
  <2>2. QED
    BY <2>1 DEF Associated
<1> HIDE DEF s, v, x
<1>5. y \in Tables
  BY <1>2, <1>3, PutTyped
<1> HIDE DEF y
<1>6. QED
  BY <1>1, <1>4, <1>5, IncreaseIs

LEMMA DisassociatedTyped ==
  ASSUME NEW t \in Tables, NEW i \in Slots
  PROVE  Disassociated(t, i) \in Tables
<1> DEFINE l == LeaveAsoc(t, i)
           r == release_stainfo(l, i)
           z == init_stainfo(r, i)
           s == [z.sta[i] EXCEPT !.state = "success", !.expire_to = AssocTo]
           y == Put(z, i, s)
<1>1. Disassociated(t, i) = [z EXCEPT !.sta[i] = s, !.auth = @ \cup {i}]
  BY DEF Disassociated
<1>2. l \in Tables
  BY LeaveAsocTyped
<1> HIDE DEF l
<1>3. r \in Tables
  BY <1>2, ReleaseIs
<1> HIDE DEF r
<1>4. z \in Tables
  BY <1>3, InitIs
<1> HIDE DEF z
<1>5. s \in Stations
  <2>1. z.sta[i] \in Stations
    BY <1>4, StationsOf
  <2>2. QED
    BY <2>1, LifeTimes DEF Stations
<1> HIDE DEF s
<1>6. Disassociated(t, i) = [y EXCEPT !.auth = z.auth \cup {i}]
  BY <1>1, <1>4 DEF Tables, Put
<1>7. z.auth \cup {i} \in SUBSET Slots
  BY <1>4 DEF Tables
<1>8. y \in Tables
  BY <1>4, <1>5, PutTyped
<1> HIDE DEF y
<1>9. QED
  BY <1>6, <1>7, <1>8, AuthPutTyped

LEMMA DisconnectedTyped ==
  ASSUME NEW t \in Tables, NEW i \in Slots
  PROVE  Disconnected(t, i) \in Tables
BY LeaveAsocTyped, FreeTyped DEF Disconnected

LEMMA FrameTyped ==
  ASSUME table \in Tables, NEW a \in Addrs, Frame(a)
  PROVE  table' \in Tables
<1> DEFINE p == Lookup(table, a)
           t == Found(table, a)
<1>1. t \in Tables /\ p \in Slots \cup {NoSlot}
  BY LookupTyped
<1>2. ASSUME NEW seq \in AuthSeqs, NEW algorithm, OnAuth(a, seq, algorithm)
      PROVE  table' \in Tables
  <2>1. CASE p # NoSlot
    <3>1. table' \in Authenticate(AuthAnew(t, p, seq), p, seq, algorithm)
      BY <1>2, <2>1 DEF OnAuth
    <3> HIDE DEF t, p
    <3>2. QED
      BY <1>1, <2>1, <3>1, AuthAnewTyped, AuthenticateTyped
  <2>2. CASE p = NoSlot
    <3>1. PICK i \in Allocatable(t) :
            IF i = NoSlot THEN table' = t
            ELSE table' \in Authenticate(Taken(t, i, a), i, seq, algorithm)
      BY <1>2, <2>2 DEF OnAuth
    <3> HIDE DEF t
    <3>2. i \in Slots \cup {NoSlot}
      BY <1>1 DEF Allocatable, Unused, NeverUsed, Expired, Tables
    <3>3. QED
      BY <1>1, <3>1, <3>2, TakenTyped, AuthenticateTyped
  <2>3. QED
    BY <2>1, <2>2
<1>3. ASSUME NEW seq \in AuthSeqs, AuthRefused(a, seq) PROVE table' \in Tables
  <2> DEFINE f == [t.sta[p] EXCEPT !.auth_seq = seq + 1]
  <2>1. table' = t \/ (p \in Slots /\ table' = Put(t, p, f))
    BY <1>1, <1>3 DEF AuthRefused, AuthFailed, Put
  <2> HIDE DEF t, p
  <2>2. seq + 1 \in {0, 2, 4}
    BY TableAssumption
  <2>3. p \in Slots => f \in Stations
    BY <1>1, <2>2, StationsOf DEF Stations
  <2> HIDE DEF f
  <2>4. QED
    BY <1>1, <2>1, <2>3, PutTyped
<1>4. CASE OnDisassoc(a)
  BY <1>1, <1>4, DisassociatedTyped DEF OnDisassoc
<1>5. CASE OnDeAuth(a)
  BY <1>1, <1>5, DisconnectedTyped DEF OnDeAuth
<1>6. CASE SetKey(a) \/ DeleteKey(a)
  <2>1. p \in Slots /\ table' \in {CamAdd(CamDelete(t, p), p), KeyReleased(t, p)}
    BY <1>1, <1>6 DEF SetKey, DeleteKey
  <2> HIDE DEF t, p
  <2>2. CamDelete(t, p) \in Tables /\ KeyReleased(t, p) \in Tables
    BY <1>1, <2>1, CamDeleteIs, KeyReleasedIs
  <2>3. QED
    BY <2>1, <2>2, CamAddIs
<1>7. CASE OnData(a)
  BY <1>1, <1>7 DEF OnData
<1>8. QED
  BY <1>2, <1>3, <1>4, <1>5, <1>6, <1>7 DEF Frame

LEMMA AssocReqTyped ==
  ASSUME table \in Tables, NEW a \in Addrs, AssocReq(a)
  PROVE  table' \in Tables
<1> DEFINE p == Lookup(table, a)
           t == Found(table, a)
<1>1. PICK ht \in BOOLEAN, acceptable \in BOOLEAN : OnAssocReq(a, ht, acceptable)
  BY DEF AssocReq
<1> DEFINE b == t.sta[p].ht \/ ht
           s == [t.sta[p] EXCEPT !.ht = b]
           u == Put(t, p, s)
<1>2. t \in Tables /\ p \in Slots \cup {NoSlot}
  BY LookupTyped
<1>3. p \in Slots /\ table' = IF acceptable THEN Associated(u, p) ELSE u
  BY <1>1, <1>2 DEF OnAssocReq, Put
<1> HIDE DEF t, p
<1>4. b \in BOOLEAN
  OBVIOUS
<1> HIDE DEF b
<1>5. s \in Stations
  BY <1>2, <1>3, <1>4, StationsOf DEF Stations
<1> HIDE DEF s
<1>6. u \in Tables
  BY <1>2, <1>3, <1>5, PutTyped
<1> HIDE DEF u
<1>7. QED
  BY <1>3, <1>6, AssociatedTyped

LEMMA AuthExpiredTyped ==
  ASSUME NEW t \in Tables, NEW i \in Slots
  PROVE  AuthExpired(t, i) \in Tables
<1> DEFINE n == t.sta[i].expire_to
           left == IF n \in {0, Forever} THEN Forever ELSE n - 1
           s == [t.sta[i] EXCEPT !.expire_to = left]
           u == Put(t, i, s)
           v == [u EXCEPT !.auth = u.auth \ {i}]
<1>1. AuthExpired(t, i) = IF left = 0 THEN free_stainfo(v, i) ELSE u
  BY DEF AuthExpired, Put
<1>2. n \in 0 .. Forever
  BY StationsOf DEF Stations
<1> HIDE DEF n
<1>3. left \in 0 .. Forever
  BY <1>2, LifeTimes
<1> HIDE DEF left
<1>4. s \in Stations
  BY <1>3, StationsOf DEF Stations
<1> HIDE DEF s
<1>5. u \in Tables
  BY <1>4, PutTyped
<1> HIDE DEF u
<1>6. v \in Tables
  BY <1>5 DEF Tables
<1> HIDE DEF v
<1>7. QED
  BY <1>1, <1>5, <1>6, FreeTyped

LEMMA WasIdleTyped ==
  ASSUME NEW t \in Tables, NEW i \in Slots
  PROVE  WasIdle(t, i) \in Tables
<1> DEFINE n == t.sta[i].expire_to
           d == Decrease(t, i)
           k == KeyReleased(d, i)
           r == [k.sta[i] EXCEPT !.tmp_rmv_key = TRUE]
           u == IF n = 1 THEN Parked(t, i) ELSE t
           s == [u.sta[i] EXCEPT !.expire_to = n - 1]
<1>1. WasIdle(t, i) = IF n = 0 THEN t ELSE Put(u, i, s)
  BY DEF WasIdle, Put
<1>2. Parked(t, i) \in {k, Put(k, i, r)}
  BY DEF Parked, Put
<1>3. n \in 0 .. Forever
  BY StationsOf DEF Stations
<1> HIDE DEF n
<1>4. d \in Tables
  BY DecreaseIs
<1> HIDE DEF d
<1>5. k \in Tables
  BY <1>4, KeyReleasedIs
<1> HIDE DEF k
<1>6. r \in Stations
  <2>1. k.sta[i] \in Stations
    BY <1>5, StationsOf
  <2>2. QED
    BY <2>1 DEF Stations
<1> HIDE DEF r
<1>7. u \in Tables
  BY <1>2, <1>5, <1>6, PutTyped
<1> HIDE DEF u
<1>8. n # 0 => s \in Stations
  <2>1. n # 0 => n - 1 \in 0 .. Forever
    BY <1>3, LifeTimes
  <2>2. QED
    BY <1>7, <2>1, StationsOf DEF Stations
<1> HIDE DEF s
<1>9. QED
  BY <1>1, <1>7, <1>8, PutTyped

LEMMA WasActiveTyped ==
  ASSUME NEW t \in Tables, NEW i \in Slots
  PROVE  WasActive(t, i) \in Tables
<1> DEFINE c == Increase(t, i)
           v == CamAdd(c, i)
           r == [v.sta[i] EXCEPT !.tmp_rmv_key = FALSE]
           u == IF t.sta[i].expire_to = 0 THEN Resumed(t, i) ELSE t
           s == [u.sta[i] EXCEPT !.expire_to = ExpireTo]
<1>1. WasActive(t, i) = Put(u, i, s)
  BY DEF WasActive, Put
<1>2. Resumed(t, i) \in {c, Put(v, i, r)}
  BY DEF Resumed, Put
<1>3. c \in Tables
  BY IncreaseIs
<1> HIDE DEF c
<1>4. v \in Tables
  BY <1>3, CamAddIs
<1> HIDE DEF v
<1>5. r \in Stations
  <2>1. v.sta[i] \in Stations
    BY <1>4, StationsOf
  <2>2. QED
    BY <2>1 DEF Stations
<1> HIDE DEF r
<1>6. u \in Tables
  BY <1>2, <1>3, <1>4, <1>5, PutTyped
<1> HIDE DEF u
<1>7. s \in Stations
  BY <1>6, LifeTimes, StationsOf DEF Stations
<1> HIDE DEF s
<1>8. QED
  BY <1>1, <1>6, <1>7, PutTyped

LEMMA ExpireTimerTyped ==
  ASSUME table \in Tables, ticking \subseteq Slots, ExpireTimer
  PROVE  table' \in Tables /\ ticking' \subseteq Slots /\ pc' = pc
<1>1. CASE Tick
  BY <1>1 DEF Tick, Tables
<1>2. ASSUME NEW i \in ticking, AuthExpire(i)
      PROVE  table' \in Tables /\ ticking' \subseteq Slots /\ pc' = pc
  BY <1>2, AuthExpiredTyped DEF AuthExpire
<1>3. ASSUME NEW i \in ticking, AssocExpire(i)
      PROVE  table' \in Tables /\ ticking' \subseteq Slots /\ pc' = pc
  BY <1>3, WasIdleTyped, WasActiveTyped DEF AssocExpire
<1>4. QED
  BY <1>1, <1>2, <1>3 DEF ExpireTimer

LEMMA CommandTyped ==
  ASSUME table \in Tables, pc \in Commands \cup {Idle}, Command
  PROVE  table' \in Tables /\ ticking' = ticking /\ pc' \in Commands \cup {Idle}
<1>1. ASSUME NEW a \in Addrs, NEW then \in {"tell", "disconnect"}, Begin(a, then)
      PROVE  table' = table /\ ticking' = ticking /\ pc' \in Commands
  BY <1>1 DEF Begin, Cached, Commands, Tables
<1>2. CASE Searched
  BY <1>2, CommandOf DEF Searched, Commands, Used
<1>3. CASE Stored
  <2>1. pc.slot \in Slots /\ pc.then \in {"tell", "disconnect"}
    BY <1>3, CommandOf DEF Stored
  <2>2. table' \in Tables
    BY <1>3, <2>1 DEF Stored, Tables
  <2>3. QED
    BY <1>3, <2>1, <2>2 DEF Stored, Commands
<1>4. CASE DelStaTells
  <2>1. pc.slot \in Slots /\ pc = [op |-> "tell", slot |-> pc.slot]
    BY <1>4, CommandOf DEF DelStaTells
  <2>2. pc' \in {[op |-> "del_sta", slot |-> pc.slot], [op |-> "free", slot |-> pc.slot]}
    BY <1>4, <2>1 DEF DelStaTells
  <2>3. QED
    BY <1>4, <2>1, <2>2 DEF DelStaTells, Commands
<1>5. CASE DelStaCounted
  <2>1. pc.slot \in Slots /\ pc = [op |-> "del_sta", slot |-> pc.slot]
    BY <1>5, CommandOf DEF DelStaCounted
  <2>2. table' \in Tables
    BY <1>5, <2>1, DecreaseIs DEF DelStaCounted
  <2>3. pc' = [op |-> "free", slot |-> pc.slot]
    BY <1>5, <2>1 DEF DelStaCounted
  <2>4. QED
    BY <1>5, <2>1, <2>2, <2>3 DEF DelStaCounted, Commands
<1>6. CASE DelStaFreed
  BY <1>6, CommandOf, FreeTyped DEF DelStaFreed
<1>7. CASE DisconnectReqFreed
  BY <1>7, CommandOf, DisconnectedTyped DEF DisconnectReqFreed
<1>8. QED
  BY <1>1, <1>2, <1>3, <1>4, <1>5, <1>6, <1>7 DEF Command, DelSta, DisconnectReq

LEMMA FreedTyped ==
  ASSUME table \in Tables, NEW i \in Slots, Freed(i)
  PROVE  table' \in Tables
<1> DEFINE u == free_stainfo(table, i)
           n == IF freeing = {i} THEN 0 ELSE u.assoc_num
<1>1. u \in Tables
  BY FreeTyped
<1>2. table' = [u EXCEPT !.assoc_num = n]
  BY DEF Freed
<1> HIDE DEF u
<1>3. n \in 0 .. NUM_STAT + 1
  BY <1>1, SlotsCounted DEF Tables
<1> HIDE DEF n
<1>4. QED
  BY <1>1, <1>2, <1>3 DEF Tables

LEMMA ClosedIs ==
  ASSUME NEW t \in Tables
  PROVE  /\ Closed(t) \in Tables /\ Closed(t).sta = EmptyTable.sta
         /\ Closed(t).asoc = {} /\ Closed(t).auth = {} /\ Closed(t).assoc_num = 0
         /\ Closed(t).cam = EmptyTable.cam /\ Closed(t).CamEntryOccupied = 0
         /\ t.pstat_cache \in Used(t) \cup {NoSlot} => Closed(t).pstat_cache = NoSlot
<1> DEFINE c == IF t.pstat_cache \in Used(t) THEN NoSlot ELSE t.pstat_cache
<1>1. EmptyTable \in Tables
  BY EmptyGood DEF Good
<1>2. Closed(t) = [EmptyTable EXCEPT !.pstat_cache = c]
  BY DEF Closed
<1>3. c \in Slots \cup {NoSlot}
  BY DEF Tables
<1>4. t.pstat_cache \in Used(t) \cup {NoSlot} => c = NoSlot
  OBVIOUS
<1> HIDE DEF c
<1>5. Closed(t) \in Tables
  BY <1>1, <1>2, <1>3 DEF Tables
<1>6. /\ EmptyTable.asoc = {} /\ EmptyTable.auth = {} /\ EmptyTable.assoc_num = 0
      /\ EmptyTable.CamEntryOccupied = 0
  BY DEF EmptyTable
<1>7. /\ Closed(t).sta = EmptyTable.sta /\ Closed(t).asoc = EmptyTable.asoc
      /\ Closed(t).auth = EmptyTable.auth /\ Closed(t).assoc_num = EmptyTable.assoc_num
      /\ Closed(t).cam = EmptyTable.cam
      /\ Closed(t).CamEntryOccupied = EmptyTable.CamEntryOccupied
      /\ Closed(t).pstat_cache = c
  BY <1>1, <1>2 DEF Tables
<1>8. QED
  BY <1>4, <1>5, <1>6, <1>7

\* Closing leaves the empty table but for one station that is not in use.
LEMMA RestartIs ==
  ASSUME table \in Tables, pc \in Commands \cup {Idle}, Restart
  PROVE  /\ table' = Closed(table)
              \/ \E i \in Slots, s \in Stations :
                   /\ table' = Put(Closed(table), i, s)
                   /\ ~s.used /\ ~s.keyInCam /\ s.hwaddr = NoAddr
         /\ pc' \in Commands \cup {Idle} /\ (pc = Idle => pc' = Idle)
<1> DEFINE i == pc.slot
           s == [NoStation EXCEPT !.expire_to = ExpireTo]
<1>1. CASE table' = Closed(table) /\ pc' = pc
  BY <1>1
<1>2. CASE /\ pc.op \in {"tell", "del_sta", "disconnect"}
           /\ table' = [Closed(table) EXCEPT
                          !.sta[pc.slot] = [@ EXCEPT !.expire_to = ExpireTo]]
           /\ pc' = [pc EXCEPT !.op = "del_sta"]
  <2>1. i \in Slots /\ pc = [op |-> pc.op, slot |-> i] /\ pc # Idle
    BY <1>2, CommandOf
  <2>2. pc' = [op |-> "del_sta", slot |-> i]
    BY <1>2, <2>1
  <2>3. pc' \in Commands
    BY <2>1, <2>2 DEF Commands
  <2>4. Closed(table).sta[i] = NoStation
    BY <2>1, ClosedIs DEF EmptyTable
  <2>5. table' = Put(Closed(table), i, s)
    <3>1. table' = Put(Closed(table), i, [Closed(table).sta[i] EXCEPT !.expire_to = ExpireTo])
      BY <1>2 DEF Put
    <3>2. QED
      BY <2>4, <3>1
  <2>6. s \in Stations /\ ~s.used /\ ~s.keyInCam /\ s.hwaddr = NoAddr
    BY LifeTimes DEF NoStation, Stations
  <2> HIDE DEF i, s
  <2>7. QED
    BY <2>1, <2>3, <2>5, <2>6
<1>3. QED
  BY <1>1, <1>2 DEF Restart, Reopened, ClosedUnderCommand

LEMMA RestartTyped ==
  ASSUME table \in Tables, pc \in Commands \cup {Idle}, Restart
  PROVE  table' \in Tables /\ pc' \in Commands \cup {Idle}
BY RestartIs, ClosedIs, PutTyped

-----------------------------------------------------------------------------
(* The inductive invariant *)

\* Timers and flags; a handler that is not late has no new timer behind it.
FlagsFollowTimers ==
  /\ ~late => /\ mic.assoc_reject_timer => mic.assoc_reject_on
              /\ mic.MIC_check_timer => mic.MIC_timer_on
              /\ handler = "assoc_reject" => ~mic.assoc_reject_timer
              /\ handler = "MIC_check" => ~mic.MIC_check_timer
  /\ mic.assoc_reject_on => mic.assoc_reject_timer \/ handler = "assoc_reject"
  /\ mic.MIC_timer_on => mic.MIC_check_timer \/ handler = "MIC_check"

\* Stations still associated while associations are refused are to be freed.
Refused == mic.assoc_reject_on => table.asoc \subseteq freeing

IInv == TypeOK /\ FlagsFollowTimers /\ (~stale => Consistent(table) /\ Refused)

LEMMA MicFields ==
  ASSUME MicTypeOK
  PROVE  /\ mic.MIC_check_timer \in BOOLEAN /\ mic.MIC_timer_on \in BOOLEAN
         /\ mic.assoc_reject_timer \in BOOLEAN /\ mic.assoc_reject_on \in BOOLEAN
BY DEF MicTypeOK

LEMMA Initially == Init => IInv
<1> SUFFICES ASSUME Init PROVE IInv
  OBVIOUS
<1>1. table \in Tables /\ Consistent(table) /\ table.asoc = {}
  BY EmptyGood DEF Init, TableInit, Good
<1>2. MicTypeOK /\ FlagsFollowTimers
  BY DEF Init, MicInit, MicTypeOK, NoTimers, FlagsFollowTimers
<1>3. TypeOK
  BY <1>1, <1>2 DEF Init, TableInit, TypeOK, TableTypeOK
<1>4. Refused
  BY <1>1 DEF Refused
<1>5. QED
  BY <1>1, <1>2, <1>3, <1>4 DEF IInv

\* What a step does to the types and the timers in any case,
TypesStep ==
  /\ table' \in Tables /\ ticking' \in SUBSET Slots /\ pc' \in Commands \cup {Idle}
  /\ freeing' \in SUBSET Slots /\ MicTypeOK' /\ late' \in BOOLEAN
  /\ FlagsFollowTimers'

\* and to the table as long as the cache is sound.
TableStep == Consistent(table') /\ Refused'

\* The cache is sound, and stays so when a command stores.
Sound == Good(table) /\ Refused /\ (Stored => pc.slot \in Used(table))

LEMMA MicUnchanged ==
  ASSUME IInv, UNCHANGED <<micVars, late>>
  PROVE  MicTypeOK' /\ late' \in BOOLEAN /\ FlagsFollowTimers'
BY DEF IInv, TypeOK, MicTypeOK, FlagsFollowTimers, micVars

LEMMA FrameKeeps ==
  ASSUME IInv, NEW a \in Addrs, Frame(a)
  PROVE  TypesStep /\ (Sound => TableStep)
<1>1. table' \in Tables
  BY FrameTyped DEF IInv, TypeOK, TableTypeOK
<1>2. UNCHANGED <<ticking, pc>>
  BY DEF Frame, OnAuth, AuthRefused, OnDisassoc, OnDeAuth, SetKey, DeleteKey, OnData
<1>3. UNCHANGED <<micVars, freeing, late>>
  BY DEF Frame
<1>4. TypesStep
  BY <1>1, <1>2, <1>3, MicUnchanged DEF IInv, TypeOK, TableTypeOK, TypesStep
<1>5. ASSUME Sound PROVE TableStep
  <2>1. Step(table, table')
    BY <1>5, FrameStep DEF Sound
  <2>2. QED
    BY <1>3, <1>5, <2>1 DEF Sound, Refused, Step, Good, micVars, TableStep
<1>6. QED
  BY <1>4, <1>5

LEMMA AssocReqKeeps ==
  ASSUME IInv, NEW a \in Addrs, AssocReq(a)
  PROVE  TypesStep /\ (Sound => TableStep)
<1>1. PICK ht \in BOOLEAN, acceptable \in BOOLEAN : OnAssocReq(a, ht, acceptable)
  BY DEF AssocReq
<1>2. table' \in Tables
  BY AssocReqTyped DEF IInv, TypeOK, TableTypeOK
<1>3. UNCHANGED <<ticking, pc>>
  BY <1>1 DEF OnAssocReq
<1>4. UNCHANGED <<micVars, freeing, late>> /\ ~mic.assoc_reject_on
  BY DEF AssocReq
<1>5. TypesStep
  BY <1>2, <1>3, <1>4, MicUnchanged DEF IInv, TypeOK, TableTypeOK, TypesStep
<1>6. ASSUME Sound PROVE TableStep
  <2>1. Good(table')
    BY <1>1, <1>6, OnAssocReqStep DEF Sound
  <2>2. Refused'
    BY <1>4 DEF Refused, micVars
  <2>3. QED
    BY <2>1, <2>2 DEF Good, TableStep
<1>7. QED
  BY <1>5, <1>6

LEMMA MicFailureKeeps ==
  ASSUME IInv, MicFailure
  PROVE  TypesStep /\ (Sound => TableStep)
<1> USE DEF IInv, TypeOK
<1>1. /\ mic'.MIC_check_timer = TRUE /\ mic'.MIC_timer_on = TRUE
      /\ mic'.assoc_reject_timer = mic.assoc_reject_timer
      /\ mic'.assoc_reject_on = mic.assoc_reject_on
      /\ MicTypeOK'
  BY DEF MicFailure, FirstFailure, MicTypeOK
<1>2. /\ late' = (late \/ handler = "MIC_check") /\ handler' = handler
      /\ table' = table /\ freeing' = freeing /\ ticking' = ticking /\ pc' = pc
  BY DEF MicFailure, FirstFailure, tableVars
<1>3. FlagsFollowTimers'
  BY <1>1, <1>2 DEF FlagsFollowTimers
<1>4. late' \in BOOLEAN
  BY <1>2
<1>5. TypesStep
  BY <1>1, <1>2, <1>3, <1>4 DEF TableTypeOK, TypesStep
<1>6. ASSUME Sound PROVE TableStep
  BY <1>1, <1>2, <1>6 DEF Sound, Good, Refused, TableStep
<1>7. QED
  BY <1>5, <1>6

LEMMA MicFailureAgainKeeps ==
  ASSUME IInv, MicFailureAgain
  PROVE  TypesStep /\ (Sound => TableStep)
<1>1. table \in Tables
  BY DEF IInv, TypeOK, TableTypeOK
<1>2. table' = table \/ table' = [table EXCEPT !.assoc_num = 0]
  BY DEF MicFailureAgain
<1>3. 0 \in 0 .. NUM_STAT + 1
  BY SlotsCounted
<1>4. table' \in Tables
  BY <1>1, <1>2, <1>3 DEF Tables
<1>5. freeing' = Used(table) /\ ticking' = ticking /\ pc' = pc
  BY DEF MicFailureAgain
<1>6. /\ mic'.MIC_check_timer = FALSE /\ mic'.MIC_timer_on = FALSE
      /\ mic'.assoc_reject_timer = TRUE /\ mic'.assoc_reject_on = TRUE
      /\ MicTypeOK'
  BY DEF MicFailureAgain, SecondFailure, Countermeasures, MicTypeOK, IInv, TypeOK
<1>7. late' = (late \/ handler = "assoc_reject") /\ handler' = handler
  BY DEF MicFailureAgain, SecondFailure
<1>8. FlagsFollowTimers' /\ late' \in BOOLEAN
  BY <1>6, <1>7 DEF FlagsFollowTimers
<1>9. TypesStep
  BY <1>4, <1>5, <1>6, <1>8 DEF IInv, TypeOK, TableTypeOK, TypesStep, Used
<1>10. ASSUME Sound PROVE TableStep
  <2>1. Good(table') /\ table'.asoc = table.asoc
    BY <1>2, <1>3, <1>10, CountCleared DEF Sound, Step
  <2>2. table'.asoc \subseteq freeing'
    BY <1>5, <1>10, <2>1 DEF Sound, Good, Consistent
  <2>3. QED
    BY <2>1, <2>2 DEF Refused, Good, TableStep
<1>11. QED
  BY <1>9, <1>10

LEMMA FreedKeeps ==
  ASSUME IInv, NEW i \in Slots, Freed(i)
  PROVE  TypesStep /\ (Sound => TableStep)
<1>1. table' \in Tables /\ freeing \subseteq Slots /\ i \in freeing
  BY FreedTyped DEF IInv, TypeOK, TableTypeOK, Freed
<1>2. freeing' = freeing \ {i} /\ UNCHANGED <<ticking, pc, micVars, late>>
  BY DEF Freed
<1>3. TypesStep
  BY <1>1, <1>2, MicUnchanged DEF IInv, TypeOK, TableTypeOK, TypesStep
<1>4. ASSUME Sound PROVE TableStep
  <2>1. Step(table, table') /\ table'.asoc \subseteq table.asoc \ {i}
    BY <1>1, <1>4, FreedStep DEF Sound
  <2>2. Refused'
    BY <1>2, <1>4, <2>1 DEF Sound, Refused, micVars
  <2>3. QED
    BY <2>1, <2>2 DEF Step, Good, TableStep
<1>5. QED
  BY <1>3, <1>4

LEMMA ExpireTimerKeeps ==
  ASSUME IInv, ExpireTimer
  PROVE  TypesStep /\ (Sound => TableStep)
<1>1. table' \in Tables /\ ticking' \subseteq Slots /\ pc' = pc
  BY ExpireTimerTyped DEF IInv, TypeOK, TableTypeOK
<1>2. UNCHANGED <<micVars, freeing, late>>
  BY DEF ExpireTimer
<1>3. TypesStep
  BY <1>1, <1>2, MicUnchanged DEF IInv, TypeOK, TableTypeOK, TypesStep
<1>4. ASSUME Sound PROVE TableStep
  <2>1. Step(table, table')
    BY <1>4, ExpireTimerStep DEF Sound, IInv, TypeOK, TableTypeOK
  <2>2. QED
    BY <1>2, <1>4, <2>1 DEF Sound, Refused, Step, Good, micVars, TableStep
<1>5. QED
  BY <1>3, <1>4

LEMMA MicTimerKeeps ==
  ASSUME IInv, MicTimer
  PROVE  TypesStep /\ (Sound => TableStep)
<1>0. UNCHANGED <<tableVars, freeing, late>>
  BY DEF MicTimer
<1>2. MicTypeOK'
  BY DEF IInv, TypeOK, MicTimer, MicTimerUp, RejectTimerUp, HandlerDone, MicTypeOK
<1>3. ASSUME MicTimerUp PROVE FlagsFollowTimers' /\ (Refused => Refused')
  <2>1. /\ handler = "none" /\ handler' = "MIC_check"
        /\ mic'.MIC_check_timer = FALSE
        /\ mic'.MIC_timer_on = mic.MIC_timer_on
        /\ mic'.assoc_reject_timer = mic.assoc_reject_timer
        /\ mic'.assoc_reject_on = mic.assoc_reject_on
    BY <1>3 DEF MicTimerUp, MicTypeOK, IInv, TypeOK
  <2>2. FlagsFollowTimers'
    BY <1>0, <2>1 DEF FlagsFollowTimers, IInv
  <2>3. QED
    BY <1>0, <2>1, <2>2 DEF IInv, Refused, tableVars
<1>4. ASSUME RejectTimerUp PROVE FlagsFollowTimers' /\ (Refused => Refused')
  <2>1. /\ handler = "none" /\ handler' = "assoc_reject"
        /\ mic'.assoc_reject_timer = FALSE
        /\ mic'.MIC_timer_on = mic.MIC_timer_on
        /\ mic'.MIC_check_timer = mic.MIC_check_timer
        /\ mic'.assoc_reject_on = mic.assoc_reject_on
    BY <1>4 DEF RejectTimerUp, MicTypeOK, IInv, TypeOK
  <2>2. FlagsFollowTimers'
    BY <1>0, <2>1 DEF FlagsFollowTimers, IInv
  <2>3. QED
    BY <1>0, <2>1, <2>2 DEF IInv, Refused, tableVars
<1>5. ASSUME HandlerDone PROVE FlagsFollowTimers' /\ (Refused => Refused')
  <2>1. /\ handler' = "none"
        /\ mic'.assoc_reject_timer = mic.assoc_reject_timer
        /\ mic'.MIC_check_timer = mic.MIC_check_timer
    BY <1>5 DEF HandlerDone, MicTypeOK, IInv, TypeOK
  <2>2. CASE handler = "MIC_check"
    <3>1. mic'.MIC_timer_on = FALSE /\ mic'.assoc_reject_on = mic.assoc_reject_on
      BY <1>5, <2>2 DEF HandlerDone, MicTypeOK, IInv, TypeOK
    <3>2. FlagsFollowTimers'
      BY <1>0, <2>1, <2>2, <3>1 DEF FlagsFollowTimers, IInv
    <3>3. QED
      BY <1>0, <3>1, <3>2 DEF IInv, Refused, tableVars
  <2>3. CASE handler # "MIC_check"
    <3>1. mic'.assoc_reject_on = FALSE /\ mic'.MIC_timer_on = mic.MIC_timer_on
      BY <1>5, <2>3 DEF HandlerDone, MicTypeOK, IInv, TypeOK
    <3>2. handler = "assoc_reject"
      BY <1>5, <2>3 DEF HandlerDone, MicTypeOK, IInv, TypeOK
    <3>3. FlagsFollowTimers'
      BY <1>0, <2>1, <3>1, <3>2 DEF FlagsFollowTimers, IInv
    <3>4. QED
      BY <3>1, <3>3 DEF Refused
  <2>4. QED
    BY <2>2, <2>3
<1>6. FlagsFollowTimers' /\ (Refused => Refused')
  BY <1>3, <1>4, <1>5 DEF MicTimer
<1>7. TypesStep
  BY <1>0, <1>2, <1>6 DEF IInv, TypeOK, TableTypeOK, tableVars, TypesStep
<1>8. ASSUME Sound PROVE TableStep
  BY <1>0, <1>6, <1>8 DEF Sound, Good, tableVars, TableStep
<1>9. QED
  BY <1>7, <1>8

LEMMA CommandKeeps ==
  ASSUME IInv, Command
  PROVE  TypesStep /\ (Sound => TableStep)
<1>1. table' \in Tables /\ ticking' = ticking /\ pc' \in Commands \cup {Idle}
  BY CommandTyped DEF IInv, TypeOK, TableTypeOK
<1>2. UNCHANGED <<micVars, freeing, late>>
  BY DEF Command
<1>3. TypesStep
  BY <1>1, <1>2, MicUnchanged DEF IInv, TypeOK, TableTypeOK, TypesStep
<1>4. ASSUME Sound PROVE TableStep
  <2>1. Step(table, table')
    BY <1>4, CommandStep DEF Sound, IInv, TypeOK, TableTypeOK
  <2>2. QED
    BY <1>2, <1>4, <2>1 DEF Sound, Refused, Step, Good, micVars, TableStep
<1>5. QED
  BY <1>3, <1>4

LEMMA RestartKeeps ==
  ASSUME IInv, Restart
  PROVE  TypesStep /\ stale' \in BOOLEAN /\ raced' \in BOOLEAN /\ (~stale' => TableStep)
<1>1. table \in Tables /\ pc \in Commands \cup {Idle}
  BY DEF IInv, TypeOK, TableTypeOK
<1>2. MicTypeOK' /\ FlagsFollowTimers' /\ late' \in BOOLEAN
  BY DEF Restart, Reopened, NoTimers, MicTypeOK, FlagsFollowTimers, IInv, TypeOK
<1>3. UNCHANGED <<ticking, freeing>> /\ stale' \in BOOLEAN /\ raced' \in BOOLEAN
  BY DEF Restart, Reopened
<1>4. TypesStep
  BY <1>1, <1>2, <1>3, RestartTyped DEF IInv, TypeOK, TableTypeOK, TypesStep
<1>5. ASSUME ~stale' PROVE TableStep
  <2> DEFINE c == Closed(table)
  <2>1. table.pstat_cache \in Used(table) \cup {NoSlot}
    BY <1>5 DEF Restart, Reopened
  <2>2. /\ c \in Tables /\ c.sta = EmptyTable.sta /\ c.asoc = {} /\ c.auth = {}
        /\ c.pstat_cache = NoSlot
    BY <1>1, <2>1, ClosedIs
  <2>3. \A i \in Slots : ~c.sta[i].used
    BY <2>2 DEF EmptyTable, NoStation
  <2>4. \/ table' = c
        \/ \E i \in Slots, s \in Stations : table' = Put(c, i, s) /\ ~s.used
    BY <1>1, RestartIs
  <2> HIDE DEF c
  <2>5. ASSUME NEW i \in Slots, NEW s \in Stations, table' = Put(c, i, s), ~s.used
        PROVE  Used(table') = {} /\ SameLists(c, table')
    <3>1. Elsewhere(c, table', i) /\ SameLists(c, table') /\ table'.sta[i] = s
      BY <2>2, <2>5, PutIs
    <3>2. QED
      BY <2>3, <2>5, <3>1 DEF Elsewhere, Used
  <2>6. Used(c) = {} /\ SameLists(c, c)
    BY <2>3 DEF Used, SameLists
  <2>7. Used(table') = {} /\ SameLists(c, table')
    BY <2>4, <2>5, <2>6
  <2>8. Consistent(table') /\ table'.asoc = {}
    BY <2>2, <2>7 DEF Consistent, SameLists
  <2>9. QED
    BY <2>8 DEF TableStep, Refused
<1>6. QED
  BY <1>3, <1>4, <1>5

\* A step after which the cache is sound found it so.
LEMMA SoundBefore ==
  ASSUME IInv, Races, ~stale'
  PROVE  ~stale /\ Sound
<1>1. ~stale /\ ~(pc.op = "store" /\ pc' # pc /\ pc.slot \notin Used(table))
  BY DEF Races
<1>2. Good(table) /\ Refused
  BY <1>1 DEF IInv, TypeOK, TableTypeOK, Good
<1>3. ASSUME Stored PROVE pc.slot \in Used(table)
  <2>1. pc.op = "store" /\ pc'.op = pc.then /\ pc.then \in {"tell", "disconnect"}
    BY <1>3, CommandOf DEF Stored, IInv, TypeOK, TableTypeOK
  <2>2. pc' # pc
    BY <2>1
  <2>3. QED
    BY <1>1, <2>1, <2>2
<1>4. QED
  BY <1>1, <1>2, <1>3 DEF Sound

LEMMA Inductive == IInv /\ [Next]_vars => IInv'
<1> SUFFICES ASSUME IInv, [Next]_vars PROVE IInv'
  OBVIOUS
<1>1. CASE UNCHANGED vars
  BY <1>1 DEF vars, IInv, TypeOK, TableTypeOK, MicTypeOK, Consistent,
              FlagsFollowTimers, Refused, Used, tableVars, micVars
<1>2. CASE Restart
  BY <1>2, RestartKeeps DEF TypesStep, TableStep, IInv, TypeOK, TableTypeOK
<1>3. ASSUME Races, TypesStep, Sound => TableStep PROVE IInv'
  <2>1. raced' \in BOOLEAN /\ stale' \in BOOLEAN
    BY <1>3 DEF Races, IInv, TypeOK
  <2>2. TypeOK'
    BY <1>3, <2>1 DEF TypesStep, TypeOK, TableTypeOK
  <2>3. ~stale' => TableStep
    BY <1>3, SoundBefore
  <2>4. QED
    BY <1>3, <2>2, <2>3 DEF TypesStep, TableStep, IInv
<1>4. QED
  BY <1>1, <1>2, <1>3, FrameKeeps, AssocReqKeeps, MicFailureKeeps, MicFailureAgainKeeps,
     FreedKeeps, ExpireTimerKeeps, MicTimerKeeps, CommandKeeps DEF Next

LEMMA Invariance == Spec => []IInv
BY Initially, Inductive, PTL DEF Spec

\* Whatever the number of entries, addresses and CAM entries, every variable
\* keeps its type: in particular assoc_num never leaves 0 .. NUM_STAT + 1.
\* This holds even after the lookup cache was left on a freed entry.
THEOREM TypesKept == Spec => []TypeOK
<1>1. IInv => TypeOK
  BY DEF IInv
<1>2. QED
  BY <1>1, Invariance, PTL

\* As long as no command stores an entry that was freed since its search,
\* and whatever else frames, timers and commands do to each other, every
\* entry in use is on exactly one list, an address has at most one entry and
\* the lookup cache is empty or on an entry in use.
THEOREM TableStaysConsistent == Spec => []TableConsistent
<1>1. IInv => TableConsistent
  BY DEF IInv, Consistent, TableConsistent
<1>2. QED
  BY <1>1, Invariance, PTL

\* Countermeasures end with no station associated, and associations are
\* refused as long as the timer of countermeasures is pending.
THEOREM RefusalPeriodEnforced == Spec => []PeriodEnforced
<1>1. IInv => PeriodEnforced
  BY DEF IInv, FlagsFollowTimers, Refused, PeriodEnforced
<1>2. QED
  BY <1>1, Invariance, PTL
=============================================================================
