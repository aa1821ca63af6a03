----------------------- MODULE AccessPointEntries_proofs -----------------------
(***************************************************************************)
(* CamCounted and AuthListTimed: the count of CAM entries and the marks of *)
(* the stations agree with the CAM, and no station on the list of those    *)
(* that authenticated has lost its timeout.  Both are kept by every single *)
(* operation on the table, so each gets one lemma, and a handler follows.  *)
(***************************************************************************)
EXTENDS AccessPoint_proofs

InCam(t) == {e \in CamEntries : t.cam[e] # NoAddr}
KeyIn(t) == {i \in Slots : t.sta[i].keyInCam}

\* What AuthListTimed says of a station.
Timed(s) == s.auth_seq = 0 => s.expire_to \in 1 .. Forever - 1

\* A key in the CAM is that of a station in use: no other has its address,
\* so that deleting the key of one takes none from another.
Right(t) ==
  /\ t \in Tables
  /\ t.CamEntryOccupied = Cardinality(InCam(t))
  /\ KeyIn(t) \subseteq Used(t)
  /\ \A i \in KeyIn(t) : KeyOf(t, i) # {}
  /\ \A i \in Used(t) : t.sta[i].hwaddr # NoAddr
  /\ \A i, j \in Used(t) : t.sta[i].hwaddr = t.sta[j].hwaddr => i = j
  /\ \A i \in t.auth : Timed(t.sta[i])

SameCam(t, u) == u.cam = t.cam /\ u.CamEntryOccupied = t.CamEntryOccupied

LEMMA InCamFinite ==
  ASSUME NEW t
  PROVE  IsFiniteSet(InCam(t)) /\ Cardinality(InCam(t)) \in Nat
<1>1. InCam(t) \subseteq CamEntries
  BY DEF InCam
<1>2. QED
  BY <1>1, FS_Subset, FS_CardinalityType, TableAssumption

\* An operation that leaves the CAM alone and rewrites at most the station i.
LEMMA RightKept ==
  ASSUME NEW t, Right(t), NEW u \in Tables, NEW i \in Slots,
         Elsewhere(t, u, i), SameUse(t.sta[i], u.sta[i]), SameCam(t, u),
         i \in KeyIn(u) => i \in KeyIn(t),
         u.auth \ {i} \subseteq t.auth,
         i \in u.auth => Timed(u.sta[i])
  PROVE  Right(u)
<1>1. Used(u) = Used(t) /\ \A j \in Slots : u.sta[j].hwaddr = t.sta[j].hwaddr
  BY UsedKept
<1>2. \A j \in Slots \ {i} : j \in KeyIn(u) <=> j \in KeyIn(t)
  BY DEF Elsewhere, KeyIn
<1>3. KeyIn(u) \subseteq KeyIn(t)
  BY <1>2 DEF KeyIn
<1>4. \A j \in Slots : KeyOf(u, j) = KeyOf(t, j)
  BY <1>1 DEF KeyOf, SameCam
<1>5. InCam(u) = InCam(t)
  BY DEF InCam, SameCam
<1>6. \A j \in u.auth : Timed(u.sta[j])
  <2>1. u.auth \subseteq Slots
    BY DEF Tables
  <2>2. QED
    BY <2>1 DEF Elsewhere, Right
<1>7. /\ KeyIn(u) \subseteq Used(u)
      /\ \A j \in KeyIn(u) : KeyOf(u, j) # {}
  <2>1. KeyIn(u) \subseteq Slots
    BY DEF KeyIn
  <2>2. QED
    BY <1>1, <1>3, <1>4, <2>1 DEF Right
<1>8. /\ \A j \in Used(u) : u.sta[j].hwaddr # NoAddr
      /\ \A j, k \in Used(u) : u.sta[j].hwaddr = u.sta[k].hwaddr => j = k
  BY <1>1 DEF Right, Used
<1>9. u.CamEntryOccupied = Cardinality(InCam(u))
  BY <1>5 DEF SameCam, Right
<1>10. QED
  BY <1>6, <1>7, <1>8, <1>9 DEF Right

\* An operation that leaves the stations and the CAM alone.
LEMMA RightLists ==
  ASSUME NEW t, Right(t), NEW u \in Tables, u.sta = t.sta, SameCam(t, u),
         \A j \in u.auth : j \in t.auth \/ Timed(t.sta[j])
  PROVE  Right(u) /\ Used(u) = Used(t) /\ KeyIn(u) = KeyIn(t)
<1>1. /\ Used(u) = Used(t) /\ KeyIn(u) = KeyIn(t) /\ InCam(u) = InCam(t)
      /\ \A j \in Slots : KeyOf(u, j) = KeyOf(t, j)
  BY DEF Used, KeyIn, InCam, KeyOf, SameCam
<1>2. KeyIn(t) \subseteq Slots
  BY DEF KeyIn
<1>3. QED
  BY <1>1, <1>2 DEF Right, SameCam

LEMMA PutCam ==
  ASSUME NEW t \in Tables, NEW i \in Slots, NEW s \in Stations, NEW u, u = Put(t, i, s)
  PROVE  SameCam(t, u)
<1>1. u = [t EXCEPT !.sta = [t.sta EXCEPT ![i] = s]]
  BY DEF Tables, Put
<1>2. QED
  BY <1>1 DEF Tables, SameCam

LEMMA PutRight ==
  ASSUME NEW t, Right(t), NEW i \in Slots, NEW s \in Stations,
         SameUse(t.sta[i], s), s.keyInCam => i \in KeyIn(t),
         i \in t.auth => Timed(s), NEW u, u = Put(t, i, s)
  PROVE  Right(u) /\ Used(u) = Used(t) /\ SameLists(t, u) /\ u.sta[i] = s
<1>1. t \in Tables
  BY DEF Right
<1>2. /\ u \in Tables /\ Elsewhere(t, u, i) /\ SameLists(t, u) /\ u.sta[i] = s
      /\ SameCam(t, u)
  BY <1>1, PutIs, PutCam
<1>3. i \in KeyIn(u) => i \in KeyIn(t)
  BY <1>2 DEF KeyIn
<1>4. Right(u)
  BY <1>2, <1>3, RightKept DEF SameLists
<1>5. Used(u) = Used(t)
  BY <1>2, UsedKept
<1>6. QED
  BY <1>2, <1>4, <1>5

-----------------------------------------------------------------------------
(* The CAM *)

LEMMA CamDeleteRight ==
  ASSUME NEW t, Right(t), NEW i \in Used(t), NEW u, u = CamDelete(t, i)
  PROVE  /\ Right(u) /\ Used(u) = Used(t) /\ SameLists(t, u)
         /\ i \in KeyIn(t) => i \notin KeyIn(u)
<1>0. t \in Tables /\ i \in Slots
  BY DEF Right, Used
<1>1. /\ u \in Tables /\ Elsewhere(t, u, i) /\ SameLists(t, u)
      /\ SameUse(t.sta[i], u.sta[i])
  BY <1>0, CamDeleteIs
<1>2. Used(u) = Used(t) /\ \A j \in Slots : u.sta[j].hwaddr = t.sta[j].hwaddr
  BY <1>0, <1>1, UsedKept
<1>3. CASE KeyOf(t, i) = {}
  BY <1>1, <1>3 DEF CamDelete, Right
<1>4. CASE KeyOf(t, i) # {}
  <2> DEFINE e == CHOOSE e \in KeyOf(t, i) : TRUE
             s == [t.sta[i] EXCEPT !.keyInCam = FALSE]
             A == InCam(t)
             B == InCam(u)
  <2>1. u = [t EXCEPT !.cam[e] = NoAddr, !.sta[i] = s, !.CamEntryOccupied = @ - 1]
    BY <1>4 DEF CamDelete
  <2>2. e \in KeyOf(t, i)
    BY <1>4
  <2>3. t.sta[i] \in Stations
    BY <1>0, StationsOf
  <2>4. s.keyInCam = FALSE /\ s.auth_seq = t.sta[i].auth_seq
        /\ s.expire_to = t.sta[i].expire_to
    BY <2>3 DEF Stations
  <2> HIDE DEF e, s
  <2>5. e \in CamEntries /\ t.cam[e] = t.sta[i].hwaddr /\ t.cam[e] # NoAddr
    BY <2>2 DEF KeyOf, Right
  <2>6. /\ u.cam = [t.cam EXCEPT ![e] = NoAddr]
        /\ u.CamEntryOccupied = t.CamEntryOccupied - 1
        /\ u.sta[i] = s
    BY <1>0, <2>1 DEF Tables
  <2>7. /\ u.cam[e] = NoAddr
        /\ \A d \in CamEntries \ {e} : u.cam[d] = t.cam[d]
    BY <1>0, <2>5, <2>6 DEF Tables
  <2>8. e \in A /\ B = A \ {e}
    BY <2>5, <2>7 DEF InCam
  <2>9. u.CamEntryOccupied = Cardinality(B)
    <3>1. IsFiniteSet(A) /\ Cardinality(A) \in Nat
      BY InCamFinite
    <3>2. t.CamEntryOccupied = Cardinality(A)
      BY DEF Right
    <3> HIDE DEF A, B
    <3>3. Cardinality(B) = Cardinality(A) - 1
      BY <2>8, <3>1, FS_RemoveElement
    <3>4. QED
      BY <2>6, <3>2, <3>3
  <2>10. i \notin KeyIn(u) /\ \A j \in Slots \ {i} : j \in KeyIn(u) <=> j \in KeyIn(t)
    BY <1>1, <2>4, <2>6 DEF KeyIn, Elsewhere
  <2>11. \A j \in KeyIn(u) : j \in Used(u) /\ KeyOf(u, j) # {}
    <3> SUFFICES ASSUME NEW j \in KeyIn(u) PROVE j \in Used(u) /\ KeyOf(u, j) # {}
      OBVIOUS
    <3>1. j \in Slots /\ j # i /\ j \in KeyIn(t)
      BY <2>10 DEF KeyIn
    <3>2. j \in Used(t) /\ KeyOf(t, j) # {} /\ t.sta[j].hwaddr # t.sta[i].hwaddr
      BY <3>1 DEF Right
    <3>3. PICK d \in KeyOf(t, j) : TRUE
      BY <3>2
    <3>4. d \in CamEntries /\ t.cam[d] = t.sta[j].hwaddr /\ d # e
      BY <2>5, <3>2, <3>3 DEF KeyOf
    <3>5. d \in KeyOf(u, j)
      BY <1>2, <2>7, <3>1, <3>4 DEF KeyOf
    <3>6. QED
      BY <1>2, <3>2, <3>5
  <2>12. \A j \in u.auth : Timed(u.sta[j])
    <3>1. u.auth = t.auth /\ t.auth \subseteq Slots
      BY <1>0, <1>1 DEF SameLists, Tables
    <3>2. Timed(t.sta[i]) => Timed(u.sta[i])
      BY <2>4, <2>6 DEF Timed
    <3>3. QED
      BY <1>1, <3>1, <3>2 DEF Right, Elsewhere
  <2>13. /\ \A j \in Used(u) : u.sta[j].hwaddr # NoAddr
         /\ \A j, k \in Used(u) : u.sta[j].hwaddr = u.sta[k].hwaddr => j = k
    BY <1>2 DEF Right, Used
  <2>14. Right(u)
    BY <1>1, <2>9, <2>11, <2>12, <2>13 DEF Right
  <2>15. QED
    BY <1>1, <1>2, <2>10, <2>14
<1>5. QED
  BY <1>3, <1>4

LEMMA CamAddRight ==
  ASSUME NEW t, Right(t), NEW i \in Used(t), NEW u, u = CamAdd(t, i)
  PROVE  Right(u) /\ Used(u) = Used(t) /\ SameLists(t, u)
<1>0. t \in Tables /\ i \in Slots
  BY DEF Right, Used
<1>1. /\ u \in Tables /\ Elsewhere(t, u, i) /\ SameLists(t, u)
      /\ SameUse(t.sta[i], u.sta[i])
  BY <1>0, CamAddIs
<1>2. Used(u) = Used(t) /\ \A j \in Slots : u.sta[j].hwaddr = t.sta[j].hwaddr
  BY <1>0, <1>1, UsedKept
<1>3. CASE CamFree(t) = {}
  BY <1>1, <1>3 DEF CamAdd
<1>4. CASE CamFree(t) # {}
  <2> DEFINE e == CHOOSE e \in CamFree(t) : TRUE
             h == t.sta[i].hwaddr
             s == [t.sta[i] EXCEPT !.keyInCam = TRUE]
             A == InCam(t)
             B == InCam(u)
  <2>1. u = [t EXCEPT !.cam[e] = h, !.sta[i] = s, !.CamEntryOccupied = @ + 1]
    BY <1>4 DEF CamAdd
  <2>2. e \in CamFree(t)
    BY <1>4
  <2>3. t.sta[i] \in Stations
    BY <1>0, StationsOf
  <2>4. s.auth_seq = t.sta[i].auth_seq /\ s.expire_to = t.sta[i].expire_to
    BY <2>3 DEF Stations
  <2>4a. h # NoAddr
    BY DEF Right
  <2>4b. u.sta[i].hwaddr = h
    BY <1>0, <1>2
  <2> HIDE DEF e, s, h
  <2>5. e \in CamEntries /\ t.cam[e] = NoAddr
    BY <2>2 DEF CamFree
  <2>6. /\ u.cam = [t.cam EXCEPT ![e] = h]
        /\ u.CamEntryOccupied = t.CamEntryOccupied + 1
        /\ u.sta[i] = s
    BY <1>0, <2>1 DEF Tables
  <2>7. /\ u.cam[e] = h
        /\ \A d \in CamEntries \ {e} : u.cam[d] = t.cam[d]
    BY <1>0, <2>5, <2>6 DEF Tables
  <2>8. e \notin A /\ B = A \cup {e}
    BY <2>4a, <2>5, <2>7 DEF InCam
  <2>9. u.CamEntryOccupied = Cardinality(B)
    <3>1. IsFiniteSet(A) /\ Cardinality(A) \in Nat
      BY InCamFinite
    <3>2. t.CamEntryOccupied = Cardinality(A)
      BY DEF Right
    <3> HIDE DEF A, B
    <3>3. Cardinality(B) = Cardinality(A) + 1
      BY <2>8, <3>1, FS_AddElement
    <3>4. QED
      BY <2>6, <3>2, <3>3
  <2>10. \A j \in Slots \ {i} : j \in KeyIn(u) <=> j \in KeyIn(t)
    BY <1>1 DEF KeyIn, Elsewhere
  <2>11. e \in KeyOf(u, i)
    BY <2>4b, <2>5, <2>7 DEF KeyOf
  <2>12. \A j \in KeyIn(u) : j \in Used(u) /\ KeyOf(u, j) # {}
    <3> SUFFICES ASSUME NEW j \in KeyIn(u), j # i PROVE j \in Used(u) /\ KeyOf(u, j) # {}
      BY <1>2, <2>11
    <3>1. j \in Slots /\ j \in KeyIn(t)
      BY <2>10 DEF KeyIn
    <3>2. j \in Used(t) /\ KeyOf(t, j) # {} /\ t.sta[j].hwaddr # NoAddr
      BY <3>1 DEF Right
    <3>3. PICK d \in KeyOf(t, j) : TRUE
      BY <3>2
    <3>4. d \in CamEntries /\ t.cam[d] = t.sta[j].hwaddr /\ d # e
      BY <2>5, <3>2, <3>3 DEF KeyOf
    <3>5. d \in KeyOf(u, j)
      BY <1>2, <2>7, <3>1, <3>4 DEF KeyOf
    <3>6. QED
      BY <1>2, <3>2, <3>5
  <2>13. \A j \in u.auth : Timed(u.sta[j])
    <3>1. u.auth = t.auth /\ t.auth \subseteq Slots
      BY <1>0, <1>1 DEF SameLists, Tables
    <3>2. Timed(t.sta[i]) => Timed(u.sta[i])
      BY <2>4, <2>6 DEF Timed
    <3>3. QED
      BY <1>1, <3>1, <3>2 DEF Right, Elsewhere
  <2>14. /\ \A j \in Used(u) : u.sta[j].hwaddr # NoAddr
         /\ \A j, k \in Used(u) : u.sta[j].hwaddr = u.sta[k].hwaddr => j = k
    BY <1>2 DEF Right, Used
  <2>15. Right(u)
    BY <1>1, <2>9, <2>12, <2>13, <2>14 DEF Right
  <2>16. QED
    BY <1>1, <1>2, <2>15
<1>5. QED
  BY <1>3, <1>4

LEMMA KeyReleasedRight ==
  ASSUME NEW t, Right(t), NEW i \in Slots, NEW u, u = KeyReleased(t, i)
  PROVE  Right(u) /\ Used(u) = Used(t) /\ SameLists(t, u) /\ i \notin KeyIn(u)
<1>1. CASE i \in KeyIn(t)
  <2>1. i \in Used(t) /\ u = CamDelete(t, i)
    BY <1>1 DEF Right, KeyReleased, KeyIn
  <2>2. QED
    BY <1>1, <2>1, CamDeleteRight
<1>2. CASE i \notin KeyIn(t)
  BY <1>2 DEF KeyReleased, KeyIn, SameLists
<1>3. QED
  BY <1>1, <1>2

-----------------------------------------------------------------------------
(* Stations *)

LEMMA ReleaseRight ==
  ASSUME NEW t, Right(t), NEW i \in Slots, NEW u, u = release_stainfo(t, i)
  PROVE  Right(u) /\ Used(u) = Used(t) /\ i \notin KeyIn(u) /\ u.auth = t.auth \ {i}
<1> DEFINE k == KeyReleased(t, i)
           c == IF k.pstat_cache = i THEN NoSlot ELSE k.pstat_cache
           v == [k EXCEPT !.pstat_cache = c, !.asoc = k.asoc \ {i}, !.auth = k.auth \ {i}]
           s == [v.sta[i] EXCEPT !.state = "none"]
<1>1. Right(k) /\ Used(k) = Used(t) /\ SameLists(t, k) /\ i \notin KeyIn(k)
  BY KeyReleasedRight
<1>2. u = Put(v, i, s)
  BY <1>1 DEF release_stainfo, Put, Right, Tables
<1> HIDE DEF k
<1>3. k \in Tables
  BY <1>1 DEF Right
<1>4. c \in Slots \cup {NoSlot} /\ k.asoc \ {i} \in SUBSET Slots /\ k.auth \ {i} \in SUBSET Slots
  BY <1>3 DEF Tables
<1> HIDE DEF c
<1>5. /\ v \in Tables /\ v.sta = k.sta /\ SameCam(k, v)
      /\ v.auth = k.auth \ {i}
  BY <1>3, <1>4 DEF Tables, SameCam
<1> HIDE DEF v
<1>6. Right(v) /\ Used(v) = Used(k) /\ KeyIn(v) = KeyIn(k)
  BY <1>1, <1>5, RightLists
<1>7. s \in Stations /\ SameUse(v.sta[i], s) /\ s.keyInCam = v.sta[i].keyInCam
  <2>1. v.sta[i] \in Stations
    BY <1>5, StationsOf
  <2>2. QED
    BY <2>1 DEF Stations, SameUse
<1> HIDE DEF s
<1>8. s.keyInCam => i \in KeyIn(v)
  BY <1>7 DEF KeyIn
<1>9. Right(u) /\ Used(u) = Used(v) /\ SameLists(v, u) /\ u.sta[i] = s
  BY <1>2, <1>5, <1>6, <1>7, <1>8, PutRight
<1>10. i \notin KeyIn(u)
  BY <1>1, <1>6, <1>8, <1>9 DEF KeyIn
<1>11. QED
  BY <1>1, <1>5, <1>6, <1>9, <1>10 DEF SameLists

LEMMA InitRight ==
  ASSUME NEW t, Right(t), NEW i \in Slots, NEW u, u = init_stainfo(t, i)
  PROVE  Right(u) /\ Used(u) = Used(t)
<1> DEFINE s == [t.sta[i] EXCEPT !.state = "none", !.auth_seq = 0,
                                 !.expire_to = ExpireTo, !.keyInCam = FALSE,
                                 !.tmp_rmv_key = FALSE, !.ht = FALSE]
<1>1. t.sta[i] \in Stations
  BY StationsOf DEF Right
<1>2. s \in Stations /\ SameUse(t.sta[i], s)
  BY <1>1, StationInit
<1>3. s.keyInCam = FALSE /\ s.expire_to = ExpireTo
  BY <1>1 DEF Stations
<1>4. u = Put(t, i, s)
  BY DEF init_stainfo, Put
<1> HIDE DEF s
<1>5. Timed(s)
  BY <1>3, TableAssumption DEF Timed, Forever
<1>6. QED
  BY <1>2, <1>3, <1>4, <1>5, PutRight

LEMMA FreeRight ==
  ASSUME NEW t, Right(t), NEW i \in Slots, NEW u, u = free_stainfo(t, i)
  PROVE  Right(u)
<1>1. CASE i \notin Used(t)
  BY <1>1 DEF free_stainfo, Used
<1>2. CASE i \in Used(t)
  <2> DEFINE r == release_stainfo(t, i)
             s == [r.sta[i] EXCEPT !.used = FALSE]
  <2>1. /\ Right(r) /\ Used(r) = Used(t) /\ i \notin KeyIn(r)
        /\ r.auth = t.auth \ {i}
    BY ReleaseRight
  <2>2. u = Put(r, i, s)
    BY <1>2 DEF free_stainfo, Put, Used
  <2> HIDE DEF r
  <2>3. r.sta[i] \in Stations /\ r \in Tables
    BY <2>1, StationsOf DEF Right
  <2>4. /\ s \in Stations /\ s.used = FALSE /\ s.hwaddr = r.sta[i].hwaddr
        /\ s.keyInCam = r.sta[i].keyInCam
    BY <2>3 DEF Stations
  <2> HIDE DEF s
  <2>5. /\ u \in Tables /\ Elsewhere(r, u, i) /\ SameLists(r, u) /\ u.sta[i] = s
        /\ SameCam(r, u)
    BY <2>2, <2>3, <2>4, PutIs, PutCam
  <2>6. i \notin Used(u) /\ \A j \in Slots \ {i} : j \in Used(u) <=> j \in Used(r)
    BY <2>4, <2>5 DEF Used, Elsewhere
  <2>7. i \notin KeyIn(u) /\ \A j \in Slots \ {i} : j \in KeyIn(u) <=> j \in KeyIn(r)
    BY <2>1, <2>4, <2>5 DEF KeyIn, Elsewhere
  <2>8. \A j \in Slots : KeyOf(u, j) = KeyOf(r, j) /\ u.sta[j].hwaddr = r.sta[j].hwaddr
    BY <2>4, <2>5 DEF KeyOf, SameCam, Elsewhere
  <2>9. Used(u) \subseteq Used(r) /\ KeyIn(u) \subseteq KeyIn(r) \ {i} /\ KeyIn(r) \subseteq Slots
    BY <2>6, <2>7 DEF Used, KeyIn
  <2>10. KeyIn(u) \subseteq Used(u) /\ \A j \in KeyIn(u) : KeyOf(u, j) # {}
    BY <2>1, <2>6, <2>8, <2>9 DEF Right
  <2>11. /\ \A j \in Used(u) : u.sta[j].hwaddr # NoAddr
         /\ \A j, k \in Used(u) : u.sta[j].hwaddr = u.sta[k].hwaddr => j = k
    BY <2>1, <2>8, <2>9 DEF Right, Used
  <2>12. \A j \in u.auth : Timed(u.sta[j])
    <3>1. u.auth = r.auth /\ r.auth \subseteq Slots /\ i \notin r.auth
      BY <2>1, <2>3, <2>5 DEF SameLists, Tables
    <3>2. QED
      BY <2>1, <2>5, <3>1 DEF Right, Elsewhere
  <2>13. u.CamEntryOccupied = Cardinality(InCam(u))
    BY <2>1, <2>5 DEF Right, SameCam, InCam
  <2>14. QED
    BY <2>5, <2>10, <2>11, <2>12, <2>13 DEF Right
<1>3. QED
  BY <1>1, <1>2

LEMMA CountRight ==
  ASSUME NEW t, Right(t), NEW i \in Slots, NEW u, u \in {Increase(t, i), Decrease(t, i)}
  PROVE  Right(u) /\ Used(u) = Used(t) /\ SameLists(t, u)
<1>1. t \in Tables
  BY DEF Right
<1>2. u \in Tables /\ u.sta = t.sta /\ SameLists(t, u)
  BY <1>1, IncreaseIs, DecreaseIs
<1>3. SameCam(t, u)
  BY <1>1 DEF Increase, Decrease, Tables, SameCam
<1>4. QED
  BY <1>2, <1>3, RightLists DEF SameLists

LEMMA LeaveAsocRight ==
  ASSUME NEW t, Right(t), NEW i \in Slots, NEW u, u = LeaveAsoc(t, i)
  PROVE  Right(u) /\ Used(u) = Used(t)
<1> DEFINE v == [t EXCEPT !.asoc = t.asoc \ {i}]
<1>1. t \in Tables
  BY DEF Right
<1>2. v \in Tables /\ v.sta = t.sta /\ v.auth = t.auth /\ SameCam(t, v)
  BY <1>1 DEF Tables, SameCam
<1>3. u \in {t, v, Decrease(v, i)}
  BY <1>1 DEF LeaveAsoc, Tables
<1> HIDE DEF v
<1>4. Right(v) /\ Used(v) = Used(t)
  BY <1>2, RightLists
<1>5. QED
  BY <1>3, <1>4, CountRight

LEMMA TakenRight ==
  ASSUME NEW t, Right(t), NEW i \in Slots, NEW a \in Addrs,
         \A j \in Used(t) : t.sta[j].hwaddr # a, NEW w, w = Taken(t, i, a)
  PROVE  Right(w)
<1> DEFINE r == IF t.sta[i].used THEN release_stainfo(t, i) ELSE t
           s == [r.sta[i] EXCEPT !.used = TRUE, !.hwaddr = a]
           p == Put(r, i, s)
<1>1. w = init_stainfo(p, i)
  BY DEF Taken, Put
<1>2. Right(r) /\ Used(r) = Used(t) /\ i \notin KeyIn(r) /\ (i \in Used(t) => i \notin r.auth)
  <2>1. CASE i \in Used(t)
    BY <2>1, ReleaseRight DEF Used
  <2>2. CASE i \notin Used(t)
    BY <2>2 DEF Used, Right
  <2>3. QED
    BY <2>1, <2>2
<1>3. \A j \in Used(r) \ {i} : r.sta[j].hwaddr # a
  <2>1. CASE i \in Used(t)
    <3>1. Elsewhere(t, r, i)
      BY <2>1, ReleaseIs DEF Used, Right
    <3>2. QED
      BY <1>2, <3>1 DEF Elsewhere, Used
  <2>2. CASE i \notin Used(t)
    BY <2>2 DEF Used
  <2>3. QED
    BY <2>1, <2>2
<1> HIDE DEF r
<1>4. r \in Tables /\ r.sta[i] \in Stations
  BY <1>2, StationsOf DEF Right
<1>5. s \in Stations /\ s.used = TRUE /\ s.hwaddr = a
  BY <1>4 DEF Stations
<1> HIDE DEF s
<1>6. /\ p \in Tables /\ Elsewhere(r, p, i) /\ SameLists(r, p) /\ p.sta[i] = s
      /\ SameCam(r, p)
  BY <1>4, <1>5, PutIs, PutCam
<1> HIDE DEF p
<1>7. /\ w \in Tables /\ Elsewhere(p, w, i) /\ SameLists(p, w)
      /\ SameUse(p.sta[i], w.sta[i])
  BY <1>1, <1>6, InitIs
<1>8. SameCam(p, w) /\ Timed(w.sta[i]) /\ i \notin KeyIn(w)
  <2> DEFINE z == [p.sta[i] EXCEPT !.state = "none", !.auth_seq = 0,
                                   !.expire_to = ExpireTo, !.keyInCam = FALSE,
                                   !.tmp_rmv_key = FALSE, !.ht = FALSE]
  <2>1. w = Put(p, i, z)
    BY <1>1 DEF init_stainfo, Put
  <2>2. p.sta[i] \in Stations
    BY <1>6, StationsOf
  <2>3. z \in Stations /\ z.keyInCam = FALSE /\ z.expire_to = ExpireTo
    BY <2>2, LifeTimes DEF Stations
  <2> HIDE DEF z
  <2>4. SameCam(p, w) /\ w.sta[i] = z
    BY <1>6, <2>1, <2>3, PutCam, PutIs
  <2>5. QED
    BY <2>3, <2>4, TableAssumption DEF Timed, Forever, KeyIn
<1>9. Elsewhere(r, w, i) /\ SameLists(r, w) /\ SameCam(r, w)
  BY <1>6, <1>7, <1>8 DEF Elsewhere, SameLists, SameCam
<1>10. w.sta[i].used = TRUE /\ w.sta[i].hwaddr = a
  BY <1>5, <1>6, <1>7 DEF SameUse
<1>11. /\ \A j \in Slots \ {i} : /\ j \in Used(w) <=> j \in Used(r)
                                 /\ j \in KeyIn(w) <=> j \in KeyIn(r)
                                 /\ w.sta[j].hwaddr = r.sta[j].hwaddr
                                 /\ KeyOf(w, j) = KeyOf(r, j)
       /\ Used(w) \subseteq Slots /\ KeyIn(w) \subseteq Slots
  BY <1>9 DEF Elsewhere, Used, KeyIn, KeyOf, SameCam
<1>12. KeyIn(w) \subseteq Used(w) /\ \A j \in KeyIn(w) : KeyOf(w, j) # {}
  BY <1>2, <1>8, <1>11 DEF Right
<1>13. \A j \in Used(w) : w.sta[j].hwaddr # NoAddr
  BY <1>2, <1>10, <1>11, TableAssumption DEF Right
<1>14. \A j, k \in Used(w) : w.sta[j].hwaddr = w.sta[k].hwaddr => j = k
  <2>1. \A j \in Used(w) \ {i} : w.sta[j].hwaddr # a
    BY <1>3, <1>11
  <2>2. QED
    BY <1>2, <1>10, <1>11, <2>1 DEF Right
<1>15. \A j \in w.auth : Timed(w.sta[j])
  <2>1. w.auth = r.auth /\ r.auth \subseteq Slots
    BY <1>4, <1>9 DEF SameLists, Tables
  <2>2. QED
    BY <1>2, <1>8, <1>9, <2>1 DEF Right, Elsewhere
<1>16. w.CamEntryOccupied = Cardinality(InCam(w))
  BY <1>2, <1>9 DEF Right, SameCam, InCam
<1>17. QED
  BY <1>7, <1>12, <1>13, <1>14, <1>15, <1>16 DEF Right

LEMMA FoundRight ==
  ASSUME NEW t, Right(t), Good(t), NEW a \in Addrs, NEW f, f = Found(t, a)
  PROVE  /\ Right(f) /\ Used(f) = Used(t) /\ f.sta = t.sta
         /\ f.asoc = t.asoc /\ f.auth = t.auth
         /\ Lookup(t, a) # NoSlot => Lookup(t, a) \in Used(f) /\ Lookup(t, a) \in Slots
         /\ Lookup(t, a) = NoSlot => \A j \in Used(f) : f.sta[j].hwaddr # a
<1>1. /\ f \in Tables /\ f.sta = t.sta /\ f.asoc = t.asoc /\ f.auth = t.auth
      /\ Lookup(t, a) = NoSlot => \A j \in Used(t) : t.sta[j].hwaddr # a
      /\ Lookup(t, a) # NoSlot => Lookup(t, a) \in Used(t)
  BY LookupIs DEF Good, Consistent
<1>2. SameCam(t, f)
  BY DEF Found, Good, Tables, SameCam
<1>3. Right(f) /\ Used(f) = Used(t)
  BY <1>1, <1>2, RightLists
<1>4. QED
  BY <1>1, <1>3 DEF Used

-----------------------------------------------------------------------------
(* Frames *)

\* A handler that writes nothing but the state and the timeout of a station.
LEMMA RewrittenRight ==
  ASSUME NEW t, Right(t), NEW i \in Slots, NEW s \in Stations,
         SameUse(t.sta[i], s), s.keyInCam = t.sta[i].keyInCam,
         i \in t.auth => Timed(s), NEW u, u = Put(t, i, s)
  PROVE  /\ Right(u) /\ Used(u) = Used(t) /\ SameLists(t, u)
         /\ u.sta[i] = s
<1>1. s.keyInCam => i \in KeyIn(t)
  BY DEF KeyIn
<1>2. QED
  BY <1>1, PutRight

LEMMA AuthenticateRight ==
  ASSUME NEW t, Right(t), NEW i \in Slots, NEW seq \in AuthSeqs,
         NEW algorithm, NEW w \in Authenticate(t, i, seq, algorithm)
  PROVE  Right(w)
<1> DEFINE n == IF t.sta[i].auth_seq = 0 THEN AuthTo ELSE t.sta[i].expire_to
           s == [t.sta[i] EXCEPT !.expire_to = n]
           v == Put(t, i, s)
           u == [t EXCEPT !.auth = @ \cup {i},
                          !.sta[i] = [@ EXCEPT !.expire_to =
                                        IF t.sta[i].auth_seq = 0 THEN AuthTo
                                        ELSE t.sta[i].expire_to]]
           c == [u.sta[i] EXCEPT !.state = "state1", !.auth_seq = 2]
           d == [u.sta[i] EXCEPT !.state = "success", !.expire_to = AssocTo, !.auth_seq = 0]
           f == [u.sta[i] EXCEPT !.auth_seq = seq + 1]
           challenged == [u EXCEPT !.sta[i] = [@ EXCEPT !.state = "state1", !.auth_seq = 2]]
<1>0. t \in Tables /\ t.sta[i] \in Stations
  BY StationsOf DEF Right
<1>1. n \in 0 .. Forever /\ (t.sta[i].auth_seq = 0 => n = AuthTo)
  BY <1>0, LifeTimes DEF Stations
<1>2. u = [v EXCEPT !.auth = v.auth \cup {i}]
  BY <1>0 DEF Put, Tables, Stations
<1>3. /\ challenged = Put(u, i, c) /\ Authenticated(u, i) = Put(u, i, d)
      /\ AuthFailed(u, i, seq) = Put(u, i, f)
  BY DEF Put, Authenticated, AuthFailed
<1>4. w \in {AuthFailed(u, i, seq), Authenticated(u, i), challenged}
  BY TableAssumption DEF Authenticate
<1> HIDE DEF n
<1>5. /\ s \in Stations /\ SameUse(t.sta[i], s) /\ s.keyInCam = t.sta[i].keyInCam
      /\ s.expire_to = n /\ s.auth_seq = t.sta[i].auth_seq
  BY <1>0, <1>1 DEF Stations, SameUse
<1> HIDE DEF s, u
<1>6. Timed(s)
  BY <1>1, <1>5, TableAssumption DEF Timed, Forever
<1>7. Right(v) /\ SameLists(t, v) /\ v.sta[i] = s
  BY <1>5, <1>6, RewrittenRight
<1> HIDE DEF v
<1>8. /\ u \in Tables /\ u.sta = v.sta /\ u.auth = v.auth \cup {i} /\ SameCam(v, u)
  BY <1>2, <1>7 DEF Right, Tables, SameCam
<1>9. Right(u)
  BY <1>6, <1>7, <1>8, RightLists
<1>10. u.sta[i] \in Stations
  BY <1>8, StationsOf
<1>11. seq + 1 \in {2, 4}
  BY TableAssumption
<1>12. /\ c \in Stations /\ SameUse(u.sta[i], c) /\ c.keyInCam = u.sta[i].keyInCam
       /\ c.auth_seq = 2
  BY <1>10 DEF Stations, SameUse
<1>13. /\ d \in Stations /\ SameUse(u.sta[i], d) /\ d.keyInCam = u.sta[i].keyInCam
       /\ d.expire_to = AssocTo
  BY <1>10, LifeTimes DEF Stations, SameUse
<1>14. /\ f \in Stations /\ SameUse(u.sta[i], f) /\ f.keyInCam = u.sta[i].keyInCam
       /\ f.auth_seq # 0
  BY <1>10, <1>11 DEF Stations, SameUse
<1> HIDE DEF c, d, f
<1>15. Timed(c) /\ Timed(d) /\ Timed(f)
  BY <1>12, <1>13, <1>14, TableAssumption DEF Timed, Forever
<1>16. QED
  BY <1>3, <1>4, <1>9, <1>12, <1>13, <1>14, <1>15, RewrittenRight

LEMMA OnAuthRight ==
  ASSUME Good(table), Right(table), NEW a \in Addrs, NEW seq \in AuthSeqs, NEW algorithm,
         OnAuth(a, seq, algorithm)
  PROVE  Right(table')
<1> DEFINE p == Lookup(table, a)
           t == Found(table, a)
<1>1. /\ Right(t)
      /\ p # NoSlot => p \in Slots
      /\ p = NoSlot => \A j \in Used(t) : t.sta[j].hwaddr # a
  BY FoundRight
<1>2. CASE p # NoSlot
  <2> DEFINE u == AuthAnew(t, p, seq)
             l == LeaveAsoc(t, p)
             r == release_stainfo(l, p)
             z == init_stainfo(r, p)
  <2>1. p \in Slots /\ table' \in Authenticate(u, p, seq, algorithm)
    BY <1>1, <1>2 DEF OnAuth
  <2>2. u \in {l, z}
    BY DEF AuthAnew
  <2> HIDE DEF p, t, u
  <2>3. Right(l)
    BY <1>1, <2>1, LeaveAsocRight
  <2> HIDE DEF l
  <2>4. Right(r)
    BY <2>1, <2>3, ReleaseRight
  <2> HIDE DEF r
  <2>5. Right(z)
    BY <2>1, <2>4, InitRight
  <2>6. QED
    BY <2>1, <2>2, <2>3, <2>5, AuthenticateRight
<1>3. CASE p = NoSlot
  <2>1. PICK i \in Allocatable(t) :
          IF i = NoSlot THEN table' = t
          ELSE table' \in Authenticate(Taken(t, i, a), i, seq, algorithm)
    BY <1>3 DEF OnAuth
  <2>2. i \in Slots \cup {NoSlot}
    BY <1>1 DEF Allocatable, Unused, NeverUsed, Expired, Right, Tables
  <2>3. CASE i = NoSlot
    BY <1>1, <2>1, <2>3
  <2>4. CASE i # NoSlot
    <3>1. Right(Taken(t, i, a))
      BY <1>1, <1>3, <2>2, <2>4, TakenRight
    <3>2. QED
      BY <2>1, <2>2, <2>4, <3>1, AuthenticateRight
  <2>5. QED
    BY <2>3, <2>4
<1>4. QED
  BY <1>2, <1>3

LEMMA AuthRefusedRight ==
  ASSUME Good(table), Right(table), NEW a \in Addrs, NEW seq \in AuthSeqs,
         AuthRefused(a, seq)
  PROVE  Right(table')
<1> DEFINE p == Lookup(table, a)
           t == Found(table, a)
           s == [t.sta[p] EXCEPT !.auth_seq = seq + 1]
<1>1. Right(t) /\ (p # NoSlot => p \in Slots)
  BY FoundRight
<1>2. table' = IF p = NoSlot THEN t ELSE Put(t, p, s)
  BY DEF AuthRefused, AuthFailed, Put
<1>3. ASSUME p # NoSlot PROVE Right(table')
  <2>1. p \in Slots /\ t.sta[p] \in Stations
    BY <1>1, <1>3, StationsOf DEF Right
  <2>2. seq + 1 \in {2, 4}
    BY TableAssumption
  <2>3. /\ s \in Stations /\ SameUse(t.sta[p], s) /\ s.keyInCam = t.sta[p].keyInCam
        /\ s.auth_seq # 0
    BY <2>1, <2>2 DEF Stations, SameUse
  <2> HIDE DEF s, p, t
  <2>4. QED
    BY <1>1, <1>2, <1>3, <2>1, <2>3, RewrittenRight DEF Timed
<1>4. QED
  BY <1>1, <1>2, <1>3

LEMMA AssociatedRight ==
  ASSUME NEW t, Right(t), NEW i \in Slots, NEW w, w = Associated(t, i)
  PROVE  Right(w)
<1> DEFINE s == [t.sta[i] EXCEPT !.expire_to = ExpireTo]
           v == [t EXCEPT !.auth = t.auth \ {i}]
           x == [v EXCEPT !.asoc = v.asoc \cup {i}]
           y == Put(x, i, s)
<1>0. t \in Tables /\ t.sta[i] \in Stations
  BY StationsOf DEF Right
<1>1. v \in Tables /\ v.sta = t.sta /\ v.auth = t.auth \ {i} /\ SameCam(t, v)
  BY <1>0 DEF Tables, SameCam
<1>2. i \in t.asoc => w = v
  BY DEF Associated
<1>3. i \notin t.asoc => w = Increase(y, i)
  BY <1>0 DEF Associated, Put, Tables
<1> HIDE DEF v
<1>4. Right(v)
  BY <1>1, RightLists
<1>5. x \in Tables /\ x.sta = v.sta /\ x.auth = v.auth /\ SameCam(v, x)
  BY <1>1 DEF Tables, SameCam
<1> HIDE DEF x
<1>6. Right(x)
  BY <1>4, <1>5, RightLists
<1>7. /\ s \in Stations /\ SameUse(x.sta[i], s) /\ s.keyInCam = x.sta[i].keyInCam
  BY <1>0, <1>1, <1>5, LifeTimes DEF Stations, SameUse
<1> HIDE DEF s
<1>8. Right(y)
  BY <1>1, <1>5, <1>6, <1>7, RewrittenRight
<1> HIDE DEF y
<1>9. Right(Increase(y, i))
  BY <1>8, CountRight
<1>10. QED
  BY <1>2, <1>3, <1>4, <1>9

LEMMA OnAssocReqRight ==
  ASSUME Good(table), Right(table), NEW a \in Addrs, NEW ht \in BOOLEAN, NEW acceptable,
         OnAssocReq(a, ht, acceptable)
  PROVE  Right(table')
<1> DEFINE p == Lookup(table, a)
           t == Found(table, a)
           b == t.sta[p].ht \/ ht
           s == [t.sta[p] EXCEPT !.ht = b]
           u == Put(t, p, s)
<1>1. Right(t) /\ (p # NoSlot => p \in Slots)
  BY FoundRight
<1>2. p # NoSlot /\ table' = IF acceptable THEN Associated(u, p) ELSE u
  BY DEF OnAssocReq, Put
<1>3. p \in Slots /\ t.sta[p] \in Stations
  BY <1>1, <1>2, StationsOf DEF Right
<1>4. b \in BOOLEAN
  BY <1>3 DEF Stations
<1> HIDE DEF b
<1>5. /\ s \in Stations /\ SameUse(t.sta[p], s) /\ s.keyInCam = t.sta[p].keyInCam
      /\ s.expire_to = t.sta[p].expire_to /\ s.auth_seq = t.sta[p].auth_seq
  BY <1>3, <1>4 DEF Stations, SameUse
<1> HIDE DEF p, t, s
<1>6. p \in t.auth => Timed(s)
  BY <1>1, <1>5 DEF Timed, Right
<1>7. Right(u)
  BY <1>1, <1>3, <1>5, <1>6, RewrittenRight
<1> HIDE DEF u
<1>8. Right(Associated(u, p))
  BY <1>3, <1>7, AssociatedRight
<1>9. QED
  BY <1>2, <1>7, <1>8

LEMMA OnDisassocRight ==
  ASSUME Good(table), Right(table), NEW a \in Addrs, OnDisassoc(a)
  PROVE  Right(table')
<1> DEFINE i == Lookup(table, a)
           t == Found(table, a)
           l == LeaveAsoc(t, i)
           r == release_stainfo(l, i)
           z == init_stainfo(r, i)
           s == [z.sta[i] EXCEPT !.state = "success", !.expire_to = AssocTo]
           y == Put(z, i, s)
<1>1. Right(t) /\ (i # NoSlot => i \in Slots)
  BY FoundRight
<1>2. i \in Slots /\ table' = Disassociated(t, i)
  BY <1>1 DEF OnDisassoc
<1> HIDE DEF i, t
<1>3. Right(l)
  BY <1>1, <1>2, LeaveAsocRight
<1>4. table' = [z EXCEPT !.sta[i] = s, !.auth = @ \cup {i}]
  BY <1>2 DEF Disassociated
<1> HIDE DEF l
<1>5. Right(r)
  BY <1>2, <1>3, ReleaseRight
<1> HIDE DEF r
<1>6. Right(z)
  BY <1>2, <1>5, InitRight
<1> HIDE DEF z
<1>7. z \in Tables /\ z.sta[i] \in Stations
  BY <1>2, <1>6, StationsOf DEF Right
<1>8. table' = [y EXCEPT !.auth = y.auth \cup {i}]
  BY <1>2, <1>4, <1>7 DEF Tables, Put
<1>9. /\ s \in Stations /\ SameUse(z.sta[i], s) /\ s.keyInCam = z.sta[i].keyInCam
      /\ s.expire_to = AssocTo
  BY <1>7, LifeTimes DEF Stations, SameUse
<1> HIDE DEF s
<1>10. Timed(s)
  BY <1>9, TableAssumption DEF Timed, Forever
<1>11. Right(y) /\ y.sta[i] = s
  BY <1>2, <1>6, <1>9, <1>10, RewrittenRight
<1> HIDE DEF y
<1>12. /\ table' \in Tables /\ table'.sta = y.sta /\ table'.auth = y.auth \cup {i}
       /\ SameCam(y, table')
  BY <1>2, <1>8, <1>11 DEF Right, Tables, SameCam
<1>13. QED
  BY <1>10, <1>11, <1>12, RightLists

LEMMA DisconnectedRight ==
  ASSUME NEW t, Right(t), NEW i \in Slots, NEW u, u = Disconnected(t, i)
  PROVE  Right(u)
<1> DEFINE l == LeaveAsoc(t, i)
<1>1. u = free_stainfo(l, i)
  BY DEF Disconnected
<1>2. Right(l)
  BY LeaveAsocRight
<1> HIDE DEF l
<1>3. QED
  BY <1>1, <1>2, FreeRight

LEMMA OnDeAuthRight ==
  ASSUME Good(table), Right(table), NEW a \in Addrs, OnDeAuth(a)
  PROVE  Right(table')
BY FoundRight, DisconnectedRight DEF OnDeAuth

LEMMA KeyRight ==
  ASSUME Good(table), Right(table), NEW a \in Addrs, SetKey(a) \/ DeleteKey(a)
  PROVE  Right(table')
<1> DEFINE i == Lookup(table, a)
           t == Found(table, a)
           d == CamDelete(t, i)
<1>1. i # NoSlot /\ table' \in {CamAdd(d, i), KeyReleased(t, i)}
  BY DEF SetKey, DeleteKey
<1>2. Right(t) /\ i \in Used(t) /\ i \in Slots
  BY <1>1, FoundRight
<1> HIDE DEF i, t
<1>3. Right(d) /\ Used(d) = Used(t)
  BY <1>2, CamDeleteRight
<1> HIDE DEF d
<1>4. Right(CamAdd(d, i)) /\ Right(KeyReleased(t, i))
  BY <1>2, <1>3, CamAddRight, KeyReleasedRight
<1>5. QED
  BY <1>1, <1>4

LEMMA FrameRight ==
  ASSUME Good(table), Right(table), NEW a \in Addrs, Frame(a)
  PROVE  Right(table')
BY OnAuthRight, AuthRefusedRight, OnDisassocRight, OnDeAuthRight, KeyRight, FoundRight
   DEF Frame, OnData

-----------------------------------------------------------------------------
(* Timers *)

LEMMA AuthExpiredRight ==
  ASSUME NEW t, Right(t), NEW i \in t.auth, NEW w, w = AuthExpired(t, i)
  PROVE  Right(w)
<1> DEFINE n == t.sta[i].expire_to
           left == IF n \in {0, Forever} THEN Forever ELSE n - 1
           s == [t.sta[i] EXCEPT !.expire_to = left]
           x == [t EXCEPT !.auth = t.auth \ {i}]
           u == Put(t, i, s)
           v == Put(x, i, s)
<1>1. t \in Tables /\ i \in Slots /\ t.sta[i] \in Stations
  BY StationsOf DEF Right, Tables
<1>2. w = IF left = 0 THEN free_stainfo(v, i) ELSE u
  BY <1>1 DEF AuthExpired, Put, Tables
<1>3. /\ n \in 0 .. Forever /\ left \in 0 .. Forever
      /\ left # 0 /\ n \in 1 .. Forever - 1 => left \in 1 .. Forever - 1
  <2>1. n \in 0 .. Forever
    BY <1>1 DEF Stations
  <2> HIDE DEF n
  <2>2. QED
    BY <2>1, LifeTimes
<1>3a. t.sta[i].auth_seq = 0 => n \in 1 .. Forever - 1
  BY DEF Right, Timed
<1> HIDE DEF n, left
<1>4. /\ s \in Stations /\ SameUse(t.sta[i], s) /\ s.keyInCam = t.sta[i].keyInCam
      /\ s.expire_to = left /\ s.auth_seq = t.sta[i].auth_seq
  BY <1>1, <1>3 DEF Stations, SameUse
<1> HIDE DEF s
<1>5. left # 0 => Timed(s)
  BY <1>3, <1>3a, <1>4 DEF Timed
<1>6. left # 0 => Right(u)
  BY <1>1, <1>4, <1>5, RewrittenRight
<1>7. /\ x \in Tables /\ x.sta = t.sta /\ x.auth = t.auth \ {i} /\ SameCam(t, x)
  BY <1>1 DEF Tables, SameCam
<1> HIDE DEF x, u
<1>8. Right(x)
  BY <1>7, RightLists
<1>9. Right(v)
  BY <1>1, <1>4, <1>7, <1>8, RewrittenRight
<1> HIDE DEF v
<1>10. left = 0 => Right(w)
  BY <1>1, <1>2, <1>9, FreeRight
<1>11. QED
  BY <1>2, <1>6, <1>10

LEMMA WasIdleRight ==
  ASSUME NEW t, Right(t), NEW i \in Slots, i \notin t.auth, NEW w, w = WasIdle(t, i)
  PROVE  Right(w)
<1> DEFINE n == t.sta[i].expire_to
           d == Decrease(t, i)
           k == KeyReleased(d, i)
           r == [k.sta[i] EXCEPT !.tmp_rmv_key = TRUE]
           u == IF n = 1 THEN Parked(t, i) ELSE t
           s == [u.sta[i] EXCEPT !.expire_to = n - 1]
<1>0. n \in 0 .. Forever
  BY StationsOf DEF Right, Stations
<1>1. w = IF n = 0 THEN t ELSE Put(u, i, s)
  BY DEF WasIdle, Put
<1>2. Parked(t, i) \in {k, Put(k, i, r)}
  BY DEF Parked, Put
<1> HIDE DEF n
<1>3. Right(d) /\ i \notin d.auth
  BY CountRight DEF SameLists
<1> HIDE DEF d
<1>4. Right(k) /\ i \notin k.auth
  BY <1>3, KeyReleasedRight DEF SameLists
<1> HIDE DEF k
<1>5. r \in Stations /\ SameUse(k.sta[i], r) /\ r.keyInCam = k.sta[i].keyInCam
  <2>1. k.sta[i] \in Stations
    BY <1>4, StationsOf DEF Right
  <2>2. QED
    BY <2>1 DEF Stations, SameUse
<1> HIDE DEF r
<1>6. Right(Put(k, i, r)) /\ i \notin Put(k, i, r).auth
  BY <1>4, <1>5, RewrittenRight DEF SameLists
<1>7. Right(u) /\ i \notin u.auth
  BY <1>2, <1>4, <1>6
<1> HIDE DEF u
<1>8. n # 0 => s \in Stations /\ SameUse(u.sta[i], s) /\ s.keyInCam = u.sta[i].keyInCam
  <2>1. u.sta[i] \in Stations
    BY <1>7, StationsOf DEF Right
  <2>2. n # 0 => n - 1 \in 0 .. Forever
    BY <1>0, LifeTimes
  <2>3. QED
    BY <2>1, <2>2 DEF Stations, SameUse
<1> HIDE DEF s
<1>9. n # 0 => Right(w)
  BY <1>1, <1>7, <1>8, RewrittenRight
<1>10. QED
  BY <1>1, <1>9

LEMMA WasActiveRight ==
  ASSUME NEW t, Right(t), NEW i \in Used(t), i \notin t.auth, NEW w, w = WasActive(t, i)
  PROVE  Right(w)
<1> DEFINE c == Increase(t, i)
           v == CamAdd(c, i)
           r == [v.sta[i] EXCEPT !.tmp_rmv_key = FALSE]
           u == IF t.sta[i].expire_to = 0 THEN Resumed(t, i) ELSE t
           s == [u.sta[i] EXCEPT !.expire_to = ExpireTo]
<1>0. i \in Slots
  BY DEF Used
<1>1. w = Put(u, i, s)
  BY DEF WasActive, Put
<1>2. Resumed(t, i) \in {c, Put(v, i, r)}
  BY DEF Resumed, Put
<1>3. Right(c) /\ i \notin c.auth /\ Used(c) = Used(t)
  BY <1>0, CountRight DEF SameLists
<1> HIDE DEF c
<1>4. Right(v) /\ i \notin v.auth
  BY <1>3, CamAddRight DEF SameLists
<1> HIDE DEF v
<1>5. r \in Stations /\ SameUse(v.sta[i], r) /\ r.keyInCam = v.sta[i].keyInCam
  <2>1. v.sta[i] \in Stations
    BY <1>0, <1>4, StationsOf DEF Right
  <2>2. QED
    BY <2>1 DEF Stations, SameUse
<1> HIDE DEF r
<1>6. Right(Put(v, i, r)) /\ i \notin Put(v, i, r).auth
  BY <1>0, <1>4, <1>5, RewrittenRight DEF SameLists
<1>7. Right(u) /\ i \notin u.auth
  BY <1>2, <1>3, <1>6
<1> HIDE DEF u
<1>8. s \in Stations /\ SameUse(u.sta[i], s) /\ s.keyInCam = u.sta[i].keyInCam
  <2>1. u.sta[i] \in Stations
    BY <1>0, <1>7, StationsOf DEF Right
  <2>2. QED
    BY <2>1, LifeTimes DEF Stations, SameUse
<1> HIDE DEF s
<1>9. QED
  BY <1>0, <1>1, <1>7, <1>8, RewrittenRight

LEMMA ExpireTimerRight ==
  ASSUME Good(table), Right(table), ExpireTimer
  PROVE  Right(table')
<1>1. CASE Tick
  BY <1>1 DEF Tick
<1>2. ASSUME NEW i \in ticking, AuthExpire(i) PROVE Right(table')
  BY <1>2, AuthExpiredRight DEF AuthExpire
<1>3. ASSUME NEW i \in ticking, AssocExpire(i) PROVE Right(table')
  <2>1. i \in table.asoc /\ table' \in {WasIdle(table, i), WasActive(table, i)}
    BY <1>3 DEF AssocExpire
  <2>2. i \in Used(table) /\ i \notin table.auth /\ i \in Slots
    BY <2>1 DEF Good, Consistent, Used
  <2>3. QED
    BY <2>1, <2>2, WasIdleRight, WasActiveRight
<1>4. QED
  BY <1>1, <1>2, <1>3 DEF ExpireTimer

-----------------------------------------------------------------------------
(* Commands and countermeasures *)

LEMMA CommandRight ==
  ASSUME Right(table), pc \in Commands \cup {Idle}, Command
  PROVE  Right(table')
<1>1. ASSUME NEW a \in Addrs, NEW then, Begin(a, then) PROVE Right(table')
  BY <1>1 DEF Begin
<1>2. CASE Searched \/ DelStaTells
  BY <1>2 DEF Searched, DelStaTells
<1>3. CASE Stored
  <2>1. table' = [table EXCEPT !.pstat_cache = pc.slot] /\ pc.slot \in Slots
    BY <1>3, CommandOf DEF Stored
  <2>2. /\ table' \in Tables /\ table'.sta = table.sta /\ table'.auth = table.auth
        /\ SameCam(table, table')
    BY <2>1 DEF Right, Tables, SameCam
  <2>3. QED
    BY <2>2, RightLists
<1>4. CASE DelStaCounted
  <2>1. table' \in {Decrease(table, pc.slot), table} /\ pc.slot \in Slots
    BY <1>4, CommandOf DEF DelStaCounted
  <2>2. QED
    BY <2>1, CountRight
<1>5. CASE DelStaFreed
  BY <1>5, CommandOf, FreeRight DEF DelStaFreed
<1>6. CASE DisconnectReqFreed
  BY <1>6, CommandOf, DisconnectedRight DEF DisconnectReqFreed
<1>7. QED
  BY <1>1, <1>2, <1>3, <1>4, <1>5, <1>6 DEF Command, DelSta, DisconnectReq

LEMMA ClearedRight ==
  ASSUME NEW t, Right(t), NEW u, u = [t EXCEPT !.assoc_num = 0]
  PROVE  Right(u)
<1>1. t \in Tables /\ 0 \in 0 .. NUM_STAT + 1
  BY SlotsCounted DEF Right
<1>2. u \in Tables /\ u.sta = t.sta /\ u.auth = t.auth /\ SameCam(t, u)
  BY <1>1 DEF Tables, SameCam
<1>3. QED
  BY <1>2, RightLists

LEMMA FreedRight ==
  ASSUME Right(table), NEW i \in Slots, Freed(i)
  PROVE  Right(table')
<1> DEFINE u == free_stainfo(table, i)
<1>1. Right(u)
  BY FreeRight
<1>2. table' = [u EXCEPT !.assoc_num = IF freeing = {i} THEN 0 ELSE u.assoc_num]
  BY DEF Freed
<1> HIDE DEF u
<1>3. CASE freeing = {i}
  BY <1>1, <1>2, <1>3, ClearedRight
<1>4. CASE freeing # {i}
  <2>1. table' = u
    BY <1>1, <1>2, <1>4 DEF Right, Tables
  <2>2. QED
    BY <1>1, <2>1
<1>5. QED
  BY <1>3, <1>4

LEMMA EmptyRight == Right(EmptyTable)
<1>1. EmptyTable \in Tables
  BY EmptyGood DEF Good
<1>2. Used(EmptyTable) = {} /\ KeyIn(EmptyTable) = {} /\ InCam(EmptyTable) = {}
  BY DEF Used, KeyIn, InCam, EmptyTable, NoStation
<1>3. EmptyTable.auth = {} /\ EmptyTable.CamEntryOccupied = 0
  BY DEF EmptyTable
<1>4. EmptyTable.CamEntryOccupied = Cardinality(InCam(EmptyTable))
  BY <1>2, <1>3, FS_EmptySet
<1>5. QED
  BY <1>1, <1>2, <1>3, <1>4 DEF Right

LEMMA RestartRight ==
  ASSUME table \in Tables, pc \in Commands \cup {Idle}, Restart
  PROVE  Right(table')
<1> DEFINE c == Closed(table)
<1>1. c \in Tables /\ c.sta = EmptyTable.sta /\ c.auth = {} /\ SameCam(EmptyTable, c)
  BY ClosedIs DEF SameCam, EmptyTable
<1>2. \/ table' = c
      \/ \E i \in Slots, s \in Stations :
           table' = Put(c, i, s) /\ ~s.used /\ ~s.keyInCam /\ s.hwaddr = NoAddr
  BY RestartIs
<1> HIDE DEF c
<1>3. Right(c)
  BY <1>1, EmptyRight, RightLists
<1>4. ASSUME NEW i \in Slots, NEW s \in Stations, table' = Put(c, i, s),
             ~s.used, ~s.keyInCam, s.hwaddr = NoAddr
      PROVE  Right(table')
  <2>1. ~c.sta[i].used /\ c.sta[i].hwaddr = NoAddr
    BY <1>1 DEF EmptyTable, NoStation
  <2>2. SameUse(c.sta[i], s)
    BY <1>4, <2>1, <1>1, StationsOf DEF SameUse, Stations
  <2>3. QED
    BY <1>1, <1>3, <1>4, <2>2, PutRight
<1>5. QED
  BY <1>2, <1>3, <1>4

LEMMA RightInitially == Init => Right(table)
BY EmptyRight DEF Init, TableInit

\* As long as the lookup cache was not left on a freed entry.
RInv == ~stale => Right(table)

LEMMA RightInductive == IInv /\ RInv /\ [Next]_vars => RInv'
<1> SUFFICES ASSUME IInv, RInv, [Next]_vars PROVE RInv'
  OBVIOUS
<1>1. table \in Tables /\ pc \in Commands \cup {Idle}
  BY DEF IInv, TypeOK, TableTypeOK
<1>2. CASE UNCHANGED vars
  BY <1>2 DEF vars, RInv
<1>3. CASE Restart
  BY <1>1, <1>3, RestartRight DEF RInv
<1>4. CASE stale'
  BY <1>4 DEF RInv
<1>5. ASSUME Races, ~stale' PROVE Good(table) /\ Right(table)
  BY <1>5, SoundBefore DEF Sound, RInv
<1>6. ASSUME NEW a \in Addrs, AssocReq(a), Races, ~stale' PROVE Right(table')
  <2>1. PICK ht \in BOOLEAN, acceptable \in BOOLEAN : OnAssocReq(a, ht, acceptable)
    BY <1>6 DEF AssocReq
  <2>2. QED
    BY <1>5, <1>6, <2>1, OnAssocReqRight
<1>7. ASSUME MicFailure \/ MicTimer, Races, ~stale' PROVE Right(table')
  <2>1. table' = table
    BY <1>7 DEF MicFailure, MicTimer, tableVars
  <2>2. QED
    BY <1>5, <1>7, <2>1
<1>8. ASSUME MicFailureAgain, Races, ~stale' PROVE Right(table')
  <2>1. table' = table \/ table' = [table EXCEPT !.assoc_num = 0]
    BY <1>8 DEF MicFailureAgain
  <2>2. QED
    BY <1>5, <1>8, <2>1, ClearedRight
<1>9. ASSUME Races, ~stale',
             \/ \E a \in Addrs : Frame(a)
             \/ \E i \in Slots : Freed(i)
             \/ ExpireTimer
             \/ Command
      PROVE  Right(table')
  BY <1>1, <1>5, <1>9, FrameRight, FreedRight, ExpireTimerRight, CommandRight
<1>10. QED
  BY <1>2, <1>3, <1>4, <1>6, <1>7, <1>8, <1>9 DEF Next, RInv

LEMMA RightAlways == Spec => []RInv
<1>1. Init => RInv
  BY RightInitially DEF RInv
<1>2. QED
  BY <1>1, RightInductive, Invariance, PTL DEF Spec

\* Whatever keys are set, deleted, parked with an idle station and restored,
\* the driver's count of CAM entries is right and a station marked as having
\* its key in the CAM has it there, as long as the lookup cache was not left on
\* a freed entry.
THEOREM CamStaysCounted == Spec => []CamCounted
<1>1. RInv => CamCounted
  <2> SUFFICES ASSUME RInv, ~stale PROVE CamCounted
    BY DEF CamCounted
  <2>1. table.CamEntryOccupied = Cardinality({e \in CamEntries : table.cam[e] # NoAddr})
    BY DEF RInv, Right, InCam
  <2>2. \A i \in Slots : table.sta[i].keyInCam => KeyOf(table, i) # {}
    BY DEF RInv, Right, KeyIn
  <2>3. QED
    BY <2>1, <2>2 DEF CamCounted
<1>2. QED
  BY <1>1, RightAlways, PTL

\* No sequence of authentication frames leaves a station that may stay on the
\* list of those that authenticated for 2^32 seconds, unless it is in the
\* middle of authentication or the lookup cache was left on a freed entry.
THEOREM AuthListStaysTimed == Spec => []AuthListTimed
<1>1. RInv => AuthListTimed
  BY DEF RInv, Right, Timed, AuthListTimed
<1>2. QED
  BY <1>1, RightAlways, PTL
=============================================================================
