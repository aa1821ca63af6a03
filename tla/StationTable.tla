---------------------------- MODULE StationTable ----------------------------
(***************************************************************************)
(* The table of stations of the access point: aidarray with the list of    *)
(* associated stations, the list of those that only authenticated, the     *)
(* cache of the last lookup, the counts of stations and the keys in the    *)
(* CAM of the hardware (8192cd_util.c, 8192cd_sme.c, 8192cd_hw.c).         *)
(*                                                                         *)
(* Frames are handled in the interrupt routine.  The timer of one second   *)
(* runs with interrupts off and takes the stations one after the other:    *)
(* ticking holds those it has still to visit and nothing else happens      *)
(* meanwhile.  The commands of user space run with interrupts on: pc is    *)
(* where such a command is, and what it does with interrupts off is one    *)
(* action.                                                                 *)
(***************************************************************************)
EXTENDS Integers, FiniteSets

CONSTANTS
  Slots,        \* the entries of aidarray
  NoSlot,       \* a NULL pstat
  Addrs,        \* the addresses of stations
  NoAddr,       \* the address of memory that was never used
  CamEntries,   \* the CAM entries for pairwise keys, 4 .. 31
  ExpireTo,     \* priv->expire_to: seconds an idle station counts
  AuthTo,       \* priv->auth_to: seconds to authenticate
  AssocTo,      \* priv->assoc_to: seconds to associate
  Algorithms,   \* "open", "shared": the algorithms dot11AuthAlgrthm allows
  AuthSeqs,     \* the sequence numbers of authentication frames, 1 and 3
  HTAddrs,      \* the stations whose requests may have the HT element
  Dot118021x,   \* dot118021xAlgrthm: keys come from an authenticator
  HTModulus     \* 2^32: ht_sta_num is an unsigned int

ASSUME TableAssumption ==
  /\ IsFiniteSet(Slots) /\ NoSlot \notin Slots
  /\ IsFiniteSet(Addrs) /\ NoAddr \notin Addrs
  /\ IsFiniteSet(CamEntries)
  /\ {ExpireTo, AuthTo, AssocTo} \subseteq Nat \ {0}
  /\ Algorithms \subseteq {"open", "shared"} /\ AuthSeqs \subseteq {1, 3}
  /\ HTAddrs \subseteq Addrs /\ Dot118021x \in BOOLEAN
  /\ HTModulus \in Nat \ {0}

NUM_STAT == Cardinality(Slots)

\* what expire_to, an unsigned int, becomes when 0 is decremented: it then
\* takes 2^32 seconds to expire
Forever == ExpireTo + AuthTo + AssocTo

VARIABLES
  table,     \* the table, a record
  ticking,   \* the stations the expire timer has still to visit
  pc         \* the command of user space under way

tableVars == <<table, ticking, pc>>

Stations ==
  [used : BOOLEAN, hwaddr : Addrs \cup {NoAddr},
   state : {"none", "state1", "success"}, auth_seq : {0, 2, 4},
   expire_to : 0 .. Forever, keyInCam : BOOLEAN, tmp_rmv_key : BOOLEAN,
   ht : BOOLEAN]

Tables ==
  [sta : [Slots -> Stations], asoc : SUBSET Slots, auth : SUBSET Slots,
   pstat_cache : Slots \cup {NoSlot}, assoc_num : 0 .. NUM_STAT + 1,
   ht_sta_num : 0 .. HTModulus - 1,
   cam : [CamEntries -> Addrs \cup {NoAddr}], CamEntryOccupied : Int]

\* A command looks its station up, which may take a search and a store, and
\* then holds on to the entry; del_sta goes on with "tell".
Commands ==
  [op : {"search"}, addr : Addrs, then : {"tell", "disconnect"}]
    \cup [op : {"store"}, slot : Slots, then : {"tell", "disconnect"}]
    \cup [op : {"tell", "del_sta", "free", "disconnect"}, slot : Slots]
Idle == [op |-> "idle", slot |-> NoSlot]

TableTypeOK ==
  /\ table \in Tables
  /\ ticking \in SUBSET Slots
  /\ pc \in Commands \cup {Idle}

NoStation ==
  [used |-> FALSE, hwaddr |-> NoAddr, state |-> "none", auth_seq |-> 0,
   expire_to |-> 0, keyInCam |-> FALSE, tmp_rmv_key |-> FALSE, ht |-> FALSE]

EmptyTable ==
  [sta |-> [i \in Slots |-> NoStation], asoc |-> {}, auth |-> {},
   pstat_cache |-> NoSlot, assoc_num |-> 0, ht_sta_num |-> 0,
   cam |-> [e \in CamEntries |-> NoAddr], CamEntryOccupied |-> 0]

TableInit == table = EmptyTable /\ ticking = {} /\ pc = Idle

-----------------------------------------------------------------------------
(* Operations on a table t; i is a slot and a is an address.               *)

Used(t) == {i \in Slots : t.sta[i].used}
Active(t) == {i \in t.asoc : t.sta[i].expire_to > 0}

Cached(t, a) == t.pstat_cache # NoSlot /\ t.sta[t.pstat_cache].hwaddr = a

\* get_stainfo with interrupts off, as frames and timers call it
Lookup(t, a) ==
  IF Cached(t, a) THEN t.pstat_cache
  ELSE IF \E i \in Used(t) : t.sta[i].hwaddr = a
       THEN CHOOSE i \in Used(t) : t.sta[i].hwaddr = a
       ELSE NoSlot

\* ... and the table after it
Found(t, a) ==
  IF Lookup(t, a) = NoSlot THEN t ELSE [t EXCEPT !.pstat_cache = Lookup(t, a)]

\* CamDeleteOneEntry with what all its callers do on success
KeyOf(t, i) == {e \in CamEntries : t.cam[e] = t.sta[i].hwaddr}
\* mutant: CamEntryOccupied is left
CamDeleteUncounted(t, i) ==
  IF KeyOf(t, i) = {} THEN t
  ELSE [t EXCEPT !.cam[CHOOSE e \in KeyOf(t, i) : TRUE] = NoAddr,
                 !.sta[i] = [@ EXCEPT !.keyInCam = FALSE]]

CamDelete(t, i) ==
  IF KeyOf(t, i) = {} THEN t
  ELSE [t EXCEPT !.cam[CHOOSE e \in KeyOf(t, i) : TRUE] = NoAddr,
                 !.sta[i] = [@ EXCEPT !.keyInCam = FALSE],
                 !.CamEntryOccupied = @ - 1]

\* CamAddOneEntry: a station whose key finds no room goes without
CamFree(t) == {e \in CamEntries : t.cam[e] = NoAddr}
CamAdd(t, i) ==
  IF CamFree(t) = {} THEN t
  ELSE [t EXCEPT !.cam[CHOOSE e \in CamFree(t) : TRUE] = t.sta[i].hwaddr,
                 !.sta[i] = [@ EXCEPT !.keyInCam = TRUE],
                 !.CamEntryOccupied = @ + 1]

KeyReleased(t, i) == IF t.sta[i].keyInCam THEN CamDelete(t, i) ELSE t

release_stainfo(t, i) ==
  [KeyReleased(t, i) EXCEPT
     !.pstat_cache = IF @ = i THEN NoSlot ELSE @,
     !.asoc = @ \ {i}, !.auth = @ \ {i},
     !.sta[i] = [@ EXCEPT !.state = "none"]]

init_stainfo(t, i) ==
  [t EXCEPT !.sta[i] = [@ EXCEPT !.state = "none", !.auth_seq = 0,
                                 !.expire_to = ExpireTo, !.keyInCam = FALSE,
                                 !.tmp_rmv_key = FALSE, !.ht = FALSE]]

free_stainfo(t, i) ==
  IF ~t.sta[i].used THEN t
  ELSE [release_stainfo(t, i) EXCEPT !.sta[i] = [@ EXCEPT !.used = FALSE]]

\* cnt_assoc_num
Increase(t, i) ==
  IF t.assoc_num > NUM_STAT THEN t
  ELSE [t EXCEPT !.assoc_num = @ + 1,
                 !.ht_sta_num = IF t.sta[i].ht THEN (@ + 1) % HTModulus ELSE @]

\* mutant: assoc_num > 0 is not tested
DecreaseUnguarded(t, i) ==
  [t EXCEPT !.assoc_num = @ - 1,
            !.ht_sta_num = IF t.sta[i].ht THEN (@ - 1) % HTModulus ELSE @]

Decrease(t, i) ==
  IF t.assoc_num = 0 THEN t
  ELSE [t EXCEPT !.assoc_num = @ - 1,
                 !.ht_sta_num = IF t.sta[i].ht THEN (@ - 1) % HTModulus ELSE @]

\* a station leaves the list of associated stations
\* mutant: an expired station is taken off the count a second time
LeaveAsocAnyway(t, i) ==
  IF i \notin t.asoc THEN t ELSE Decrease([t EXCEPT !.asoc = @ \ {i}], i)
LeaveAsoc(t, i) ==
  IF i \notin t.asoc THEN t
  ELSE LET u == [t EXCEPT !.asoc = @ \ {i}]
       IN  IF t.sta[i].expire_to > 0 THEN Decrease(u, i) ELSE u

-----------------------------------------------------------------------------
(* alloc_stainfo *)

Unused(t) == Slots \ Used(t)
NeverUsed(t) == {i \in Unused(t) : t.sta[i].hwaddr = NoAddr}
Expired(t) == {i \in t.asoc : t.sta[i].expire_to = 0}

\* The slots it may take: one that was freed, else new memory, which may be
\* lacking, else one of a station that is associated and expired.
Allocatable(t) ==
  IF Unused(t) \ NeverUsed(t) # {} THEN Unused(t) \ NeverUsed(t)
  ELSE IF NeverUsed(t) # {} THEN NeverUsed(t) \cup {NoSlot}
  ELSE IF Expired(t) # {} THEN Expired(t) ELSE {NoSlot}

\* mutant: an entry taken from a station keeps its place on the lists
TakenAsIs(t, i, a) ==
  init_stainfo([t EXCEPT !.sta[i] = [@ EXCEPT !.used = TRUE, !.hwaddr = a]], i)

Taken(t, i, a) ==
  init_stainfo([(IF t.sta[i].used THEN release_stainfo(t, i) ELSE t) EXCEPT
                  !.sta[i] = [@ EXCEPT !.used = TRUE, !.hwaddr = a]], i)

-----------------------------------------------------------------------------
(* Frames.  p is the station an address is looked up as, t the table with  *)
(* the result in the cache.                                                *)

Interruptible == ticking = {}

\* A data frame from or to a station is only looked up.
OnData(a) ==
  /\ Interruptible
  /\ table' = Found(table, a)
  /\ UNCHANGED <<ticking, pc>>

\* The station proves itself: what is left is to associate.
Authenticated(t, i) ==
  [t EXCEPT !.sta[i] = [@ EXCEPT !.state = "success", !.expire_to = AssocTo,
                                 !.auth_seq = 0]]

AuthFailed(t, i, seq) == [t EXCEPT !.sta[i] = [@ EXCEPT !.auth_seq = seq + 1]]

\* OnAuth from the point where the station has an entry: the tables it may
\* leave.  Whether the answer to the challenge is right is left open.
Authenticate(t, i, seq, algorithm) ==
  LET u == [t EXCEPT !.auth = @ \cup {i},
                     !.sta[i] = [@ EXCEPT !.expire_to =
                                   IF t.sta[i].auth_seq = 0 THEN AuthTo
                                   ELSE t.sta[i].expire_to]]
      challenged == [u EXCEPT !.sta[i] = [@ EXCEPT !.state = "state1", !.auth_seq = 2]]
  IN  IF t.sta[i].auth_seq + 1 # seq THEN {AuthFailed(u, i, seq)}
      ELSE CASE algorithm = "open" /\ seq = 1 -> {Authenticated(u, i)}
             [] algorithm = "open" /\ seq # 1 -> {AuthFailed(u, i, seq)}
             [] algorithm = "shared" /\ seq = 1 -> {challenged}
             [] OTHER -> {Authenticated(u, i), AuthFailed(u, i, seq)}

\* An existing connection is closed.
AuthAnew(t, i, seq) ==
  LET u == LeaveAsoc(t, i)
  IN  IF seq = 1 THEN init_stainfo(release_stainfo(u, i), i) ELSE u

\* OnAuth
OnAuth(a, seq, algorithm) ==
  /\ Interruptible
  /\ algorithm \in Algorithms
  /\ LET p == Lookup(table, a)
         t == Found(table, a)
     IN  IF p # NoSlot
         THEN table' \in Authenticate(AuthAnew(t, p, seq), p, seq, algorithm)
         ELSE \E i \in Allocatable(t) :
                IF i = NoSlot THEN table' = t
                ELSE table' \in Authenticate(Taken(t, i, a), i, seq, algorithm)
  /\ UNCHANGED <<ticking, pc>>

\* OnAuth refuses: algorithm not allowed, frame not decrypted, or as many
\* stations associated as supportedStaNum allows
AuthRefused(a, seq) ==
  /\ Interruptible
  /\ LET p == Lookup(table, a)
         t == Found(table, a)
     IN  table' = IF p = NoSlot THEN t ELSE AuthFailed(t, p, seq)
  /\ UNCHANGED <<ticking, pc>>

Associated(t, i) ==
  LET u == [t EXCEPT !.auth = @ \ {i}]
  IN  IF i \in t.asoc THEN u
      ELSE Increase([u EXCEPT !.asoc = @ \cup {i},
                              !.sta[i] = [@ EXCEPT !.expire_to = ExpireTo]], i)

\* OnAssocReq; ht_cap_len is set when the request has the element and never
\* cleared, and it is set before other fields are found acceptable.
OnAssocReq(a, ht, acceptable) ==
  /\ Interruptible
  /\ LET p == Lookup(table, a)
         t == Found(table, a)
         u == [t EXCEPT !.sta[p] = [@ EXCEPT !.ht = t.sta[p].ht \/ ht]]
     IN  /\ p # NoSlot /\ t.sta[p].state = "success"
         /\ table' = IF acceptable THEN Associated(u, p) ELSE u
  /\ UNCHANGED <<ticking, pc>>

Disassociated(t, i) ==
  [init_stainfo(release_stainfo(LeaveAsoc(t, i), i), i) EXCEPT
     !.sta[i] = [@ EXCEPT !.state = "success", !.expire_to = AssocTo],
     !.auth = @ \cup {i}]

OnDisassoc(a) ==
  /\ Interruptible
  /\ Lookup(table, a) # NoSlot
  /\ table' = Disassociated(Found(table, a), Lookup(table, a))
  /\ UNCHANGED <<ticking, pc>>

Disconnected(t, i) == free_stainfo(LeaveAsoc(t, i), i)

OnDeAuth(a) ==
  /\ Interruptible
  /\ Lookup(table, a) # NoSlot
  /\ table' = Disconnected(Found(table, a), Lookup(table, a))
  /\ UNCHANGED <<ticking, pc>>

\* Set_Key: a pairwise key, from the authenticator
SetKey(a) ==
  /\ Interruptible
  /\ Lookup(table, a) # NoSlot
  /\ LET p == Lookup(table, a)
     IN  table' = CamAdd(CamDelete(Found(table, a), p), p)
  /\ UNCHANGED <<ticking, pc>>

\* Delete_Key
DeleteKey(a) ==
  /\ Interruptible
  /\ Lookup(table, a) # NoSlot
  /\ table' = KeyReleased(Found(table, a), Lookup(table, a))
  /\ UNCHANGED <<ticking, pc>>

-----------------------------------------------------------------------------
(* rtl8192cd_expire_timer: auth_expire, then assoc_expire.  The order of    *)
(* the lists is left open.                                                  *)

Tick ==
  /\ Interruptible
  /\ table.auth \cup table.asoc # {}
  /\ ticking' = table.auth \cup table.asoc
  /\ UNCHANGED <<table, pc>>

\* mutant: tested before it is decremented
AuthExpiredLate(t, i) ==
  LET n == t.sta[i].expire_to
  IN  IF n = 0 THEN free_stainfo([t EXCEPT !.auth = @ \ {i}], i)
      ELSE [t EXCEPT !.sta[i] = [@ EXCEPT !.expire_to = n - 1]]

\* auth_expire, one station
AuthExpired(t, i) ==
  LET n == t.sta[i].expire_to
      left == IF n \in {0, Forever} THEN Forever ELSE n - 1
      u == [t EXCEPT !.sta[i] = [@ EXCEPT !.expire_to = left]]
  IN  IF left = 0 THEN free_stainfo([u EXCEPT !.auth = @ \ {i}], i) ELSE u

AuthExpire(i) ==
  /\ i \in ticking \cap table.auth
  /\ table' = AuthExpired(table, i)
  /\ ticking' = ticking \ {i}
  /\ UNCHANGED pc

\* assoc_expire: the station was idle; when it expires it is not counted any
\* more and makes room in the CAM
Parked(t, i) ==
  LET u == KeyReleased(Decrease(t, i), i)
  IN  IF u.sta[i].keyInCam = t.sta[i].keyInCam THEN u
      ELSE [u EXCEPT !.sta[i] = [@ EXCEPT !.tmp_rmv_key = TRUE]]

WasIdle(t, i) ==
  LET n == t.sta[i].expire_to
      u == IF n = 1 THEN Parked(t, i) ELSE t
  IN  IF n = 0 THEN t ELSE [u EXCEPT !.sta[i] = [@ EXCEPT !.expire_to = n - 1]]

\* assoc_expire: the station was active; an expired one is resumed
Resumed(t, i) ==
  LET u == Increase(t, i)
      v == CamAdd(u, i)
  IN  IF ~(Dot118021x \/ t.sta[i].tmp_rmv_key) \/ CamFree(u) = {} THEN u
      ELSE [v EXCEPT !.sta[i] = [@ EXCEPT !.tmp_rmv_key = FALSE]]

WasActive(t, i) ==
  [(IF t.sta[i].expire_to = 0 THEN Resumed(t, i) ELSE t) EXCEPT
     !.sta[i] = [@ EXCEPT !.expire_to = ExpireTo]]

AssocExpire(i) ==
  /\ ticking \cap table.auth = {}
  /\ i \in ticking \cap table.asoc
  /\ table' \in {WasIdle(table, i), WasActive(table, i)}
  /\ ticking' = ticking \ {i}
  /\ UNCHANGED pc

-----------------------------------------------------------------------------
(* Commands of user space, which frames and timers interrupt.              *)

\* get_stainfo with interrupts on: the cache is tested
Begin(a, then) ==
  /\ Interruptible
  /\ pc = Idle
  /\ pc' = IF Cached(table, a) THEN [op |-> then, slot |-> table.pstat_cache]
           ELSE [op |-> "search", addr |-> a, then |-> then]
  /\ UNCHANGED <<table, ticking>>

\* The walk along the hash list finds the station or none.  It ends early
\* when the entry it stands on is freed, which is then its own successor.
Searched ==
  /\ Interruptible
  /\ pc.op = "search"
  /\ \/ \E i \in Used(table) :
          /\ table.sta[i].hwaddr = pc.addr
          /\ pc' = [op |-> "store", slot |-> i, then |-> pc.then]
     \/ pc' = Idle
  /\ UNCHANGED <<table, ticking>>

\* What was found goes into the cache, even if it was freed meanwhile.
Stored ==
  /\ Interruptible
  /\ pc.op = "store"
  /\ table' = [table EXCEPT !.pstat_cache = pc.slot]
  /\ pc' = [op |-> pc.then, slot |-> pc.slot]
  /\ UNCHANGED ticking

DelSta(a) == Begin(a, "tell")

\* del_sta: an associated station is told, with issue_disassoc
DelStaTells ==
  /\ Interruptible
  /\ pc.op = "tell"
  /\ pc' = [pc EXCEPT !.op = IF pc.slot \in table.asoc THEN "del_sta" ELSE "free"]
  /\ UNCHANGED <<table, ticking>>

DelStaCounted ==
  /\ Interruptible
  /\ pc.op = "del_sta"
  /\ table' = IF table.sta[pc.slot].expire_to > 0 THEN Decrease(table, pc.slot) ELSE table
  /\ pc' = [pc EXCEPT !.op = "free"]
  /\ UNCHANGED ticking

DelStaFreed ==
  /\ Interruptible
  /\ pc.op = "free"
  /\ table' = free_stainfo(table, pc.slot)
  /\ pc' = Idle
  /\ UNCHANGED ticking

\* Disconnect_Req, and Association_Rsp with a Status other than 0
DisconnectReq(a) == Begin(a, "disconnect")

DisconnectReqFreed ==
  /\ Interruptible
  /\ pc.op = "disconnect"
  /\ table' = Disconnected(table, pc.slot)
  /\ pc' = Idle
  /\ UNCHANGED ticking
=============================================================================
