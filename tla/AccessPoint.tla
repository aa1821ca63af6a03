----------------------------- MODULE AccessPoint -----------------------------
(***************************************************************************)
(* The station table together with the TKIP countermeasures: a second MIC  *)
(* failure frees every station, and while associations are refused no     *)
(* station gets into the table of associated ones.                          *)
(***************************************************************************)
EXTENDS StationTable, MicCountermeasures

VARIABLES
  freeing,   \* the stations countermeasures have still to free
  raced,     \* del_sta found its station changed since it was told, or the
             \* interface was opened under a command
  stale,     \* a command stored an entry in the lookup cache that had been
             \* freed since its search
  late       \* a failure restarted a timer whose handler was under way;
             \* all three are history

vars == <<table, ticking, pc, mic, handler, freeing, raced, stale, late>>

TypeOK ==
  /\ TableTypeOK
  /\ MicTypeOK
  /\ freeing \in SUBSET Slots
  /\ raced \in BOOLEAN /\ stale \in BOOLEAN /\ late \in BOOLEAN

Init ==
  /\ TableInit
  /\ MicInit
  /\ freeing = {} /\ raced = FALSE /\ stale = FALSE /\ late = FALSE

-----------------------------------------------------------------------------
(* Frames, in the interrupt routine *)

Frame(a) ==
  /\ freeing = {}
  /\ \/ \E seq \in AuthSeqs, algorithm \in Algorithms : OnAuth(a, seq, algorithm)
     \/ \E seq \in AuthSeqs : AuthRefused(a, seq)
     \/ OnDisassoc(a)
     \/ OnDeAuth(a)
     \/ SetKey(a)
     \/ DeleteKey(a)
     \/ OnData(a)
  /\ UNCHANGED <<micVars, freeing, late>>

AssocReq(a) ==
  /\ freeing = {}
  /\ ~mic.assoc_reject_on
  /\ \E ht, acceptable \in BOOLEAN :
       (ht => a \in HTAddrs) /\ OnAssocReq(a, ht, acceptable)
  /\ UNCHANGED <<micVars, freeing, late>>

-----------------------------------------------------------------------------
(* MIC failures.  The report of the daemon does the same; that frames      *)
(* interrupt it is left out.                                               *)

MicFailure ==
  /\ Interruptible /\ freeing = {}
  /\ FirstFailure
  /\ late' = (late \/ handler = "MIC_check")
  /\ UNCHANGED <<tableVars, freeing>>

MicFailureAgain ==
  /\ Interruptible /\ freeing = {}
  /\ SecondFailure
  /\ late' = (late \/ handler = "assoc_reject")
  /\ freeing' = Used(table)
  /\ table' = IF Used(table) = {} THEN [table EXCEPT !.assoc_num = 0] ELSE table
  /\ UNCHANGED <<ticking, pc>>

\* one round of the loop over the table and, after the last, assoc_num = 0
Freed(i) ==
  /\ i \in freeing
  /\ freeing' = freeing \ {i}
  /\ table' = [free_stainfo(table, i) EXCEPT
                 !.assoc_num = IF freeing = {i} THEN 0 ELSE @]
  /\ UNCHANGED <<ticking, pc, micVars, late>>

-----------------------------------------------------------------------------
(* Timers, one at a time *)

Softirq == Interruptible /\ freeing = {} /\ handler = "none"

ExpireTimer ==
  /\ \/ Softirq /\ Tick
     \/ \E i \in ticking : AuthExpire(i)
     \/ \E i \in ticking : AssocExpire(i)
  /\ UNCHANGED <<micVars, freeing, late>>

MicTimer ==
  /\ \/ Softirq /\ MicTimerUp
     \/ Softirq /\ RejectTimerUp
     \/ Interruptible /\ freeing = {} /\ HandlerDone
  /\ UNCHANGED <<tableVars, freeing, late>>

-----------------------------------------------------------------------------
(* User space *)

Command ==
  /\ Softirq
  /\ \/ \E a \in Addrs : DelSta(a) \/ DisconnectReq(a)
     \/ Searched
     \/ Stored
     \/ DelStaTells
     \/ DelStaCounted
     \/ DelStaFreed
     \/ DisconnectReqFreed
  /\ UNCHANGED <<micVars, freeing, late>>

\* A step of another party changes the station del_sta is at work on, or a
\* command stores an entry that another party freed.
Races ==
  /\ raced' = (raced \/ (/\ pc.op \in {"del_sta", "free"} /\ pc' = pc
                         /\ \/ table'.sta[pc.slot] # table.sta[pc.slot]
                            \/ (pc.slot \in table'.asoc) # (pc.slot \in table.asoc)))
  /\ stale' = (stale \/ (pc.op = "store" /\ pc' # pc /\ pc.slot \notin Used(table)))

-----------------------------------------------------------------------------
(* The interface is closed and opened: stations are freed, timers deleted, *)
(* and what open initialises starts anew.  The watchdog does so from a      *)
(* timer, which may interrupt a command.                                    *)

\* close frees the stations in use, and the cache with them
Closed(t) ==
  [EmptyTable EXCEPT !.pstat_cache = IF t.pstat_cache \in Used(t) THEN NoSlot
                                     ELSE t.pstat_cache]

\* A command reads anything in the memory of the station it held.
ClosedUnderCommand ==
  \/ /\ table' = Closed(table)
     /\ pc' = pc
  \/ /\ pc.op \in {"tell", "del_sta", "disconnect"}
     /\ table' = [Closed(table) EXCEPT
                    !.sta[pc.slot] = [@ EXCEPT !.expire_to = ExpireTo]]
     /\ pc' = [pc EXCEPT !.op = "del_sta"]

Reopened(timers) ==
  /\ Softirq
  /\ ClosedUnderCommand
  /\ mic' = timers
  /\ raced' = (pc # Idle)
  /\ stale' = (table.pstat_cache \notin Used(table) \cup {NoSlot})
  /\ late' = FALSE
  /\ UNCHANGED <<ticking, handler, freeing>>

\* mutant: closing leaves a pending timer's flag
RestartKeepsFlags ==
  Reopened([mic EXCEPT !.MIC_check_timer = FALSE, !.assoc_reject_timer = FALSE])

Restart == Reopened(NoTimers)

Next ==
  \/ /\ \/ \E a \in Addrs : Frame(a)
        \/ \E a \in Addrs : AssocReq(a)
        \/ MicFailure
        \/ MicFailureAgain
        \/ \E i \in Slots : Freed(i)
        \/ ExpireTimer
        \/ MicTimer
        \/ Command
     /\ Races
  \/ Restart

Spec == Init /\ [][Next]_vars

-----------------------------------------------------------------------------
(* Properties.  freeing = {} excludes the middle of countermeasures, and   *)
(* ~stale what follows once the lookup cache was left on a freed entry.    *)

\* Every entry in use is on exactly one list, so that a timer will free it,
\* and an address has at most one entry, which is what the cache gives, as
\* long as no command stored an entry that was freed since its search.
TableConsistent ==
  ~stale =>
    /\ table.asoc \cap table.auth = {}
    /\ table.asoc \cup table.auth = Used(table)
    /\ \A i, j \in Used(table) : table.sta[i].hwaddr = table.sta[j].hwaddr => i = j
    /\ table.pstat_cache \in Used(table) \cup {NoSlot}

\* assoc_num, by which stations are refused, is the number of associated
\* stations that are not expired, but for the one del_sta is about to free,
\* unless del_sta was overtaken or the cache left on a freed entry.
AssocCounted ==
  ~raced /\ ~stale /\ freeing = {} =>
    table.assoc_num =
      Cardinality(Active(table) \ {i \in Slots : pc = [op |-> "free", slot |-> i]})

\* A station that completed or did not begin authentication has time left.
AuthListTimed ==
  ~stale => \A i \in table.auth :
    table.sta[i].auth_seq = 0 => table.sta[i].expire_to \in 1 .. Forever - 1

\* The driver knows how many CAM entries are taken, and a station whose key
\* is said to be in the CAM has an entry.
CamCounted ==
  ~stale =>
    /\ table.CamEntryOccupied = Cardinality({e \in CamEntries : table.cam[e] # NoAddr})
    /\ \A i \in Slots : table.sta[i].keyInCam => KeyOf(table, i) # {}

\* While the reject timer is pending associations are refused, unless a
\* handler came late; they are refused no longer than a timer or its handler
\* will end; and while they are refused no station is associated.
PeriodEnforced ==
  /\ ~late => /\ mic.assoc_reject_timer => mic.assoc_reject_on
              /\ mic.MIC_check_timer => mic.MIC_timer_on
  /\ mic.assoc_reject_on => mic.assoc_reject_timer \/ handler = "assoc_reject"
  /\ mic.MIC_timer_on => mic.MIC_check_timer \/ handler = "MIC_check"
  /\ mic.assoc_reject_on /\ ~stale /\ freeing = {} => table.asoc = {}

\* "this should not happen": the count of HT stations is decremented at 0.
HtNeverUnderflows ==
  [][table.ht_sta_num = 0 => table'.ht_sta_num # HTModulus - 1]_vars
=============================================================================
