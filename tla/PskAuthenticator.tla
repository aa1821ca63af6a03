-------------------------- MODULE PskAuthenticator --------------------------
(***************************************************************************)
(* The WPA/WPA2-PSK authenticator of the rtl8192cd access point driver     *)
(* (linux-2.4.18/drivers/net/rtl8192cd/8192cd_psk.c): the 4-way handshake, *)
(* the group key handshake, the resend timer of each station and the group *)
(* rekey timer, with the part of the driver they command (keys, port,      *)
(* disconnection) and, as environment, one supplicant per station and two  *)
(* lossy first-in first-out channels.                                      *)
(*                                                                         *)
(* Concurrency.  The build is uniprocessor and not preemptive: received    *)
(* frames are handled in the interrupt routine (RTL8190_ISR_RX), timers in *)
(* a softirq.  A handler of a frame is atomic.  GKRekeyTimeout runs with   *)
(* interrupts off.  ResendTimeout does not, so frames may be handled       *)
(* between its test of resendCnt and what it does about it: it is two      *)
(* actions here, ResendTimerFires and then ResendFrame or ResendGiveUp.    *)
(*                                                                         *)
(* Data.  A nonce is the number of the fresh 4-1 frame that carries it     *)
(* within the association; a PTK is a passphrase and a nonce; a GTK is its *)
(* generation, 0 before the first.  A frame carries the key its MIC is     *)
(* computed with.                                                          *)
(***************************************************************************)
EXTENDS Naturals, Sequences, FiniteSets

CONSTANTS
  Stations,      \* the slots of the station table, one station each
  Passphrase,    \* what each station's user typed: "main", "guest" or "wrong"
  Security,      \* what each station associates with: "WPA" or "WPA2"
  GuestPSK,      \* dot11PassPhraseGuest is configured
  GKRekeyTime,   \* dot11GKRekeyTime is not 0
  MaxResendNum,  \* MAX_RESEND_NUM
  SkbMayFail,    \* rtl_dev_alloc_skb may return NULL
  Budget         \* how often each event of the environment may happen

Kinds == {"assoc", "leave", "timeout", "rekey", "request", "duplicate",
          "overtake", "loss"}

ASSUME StationsAssumption   == IsFiniteSet(Stations)
ASSUME PassphraseAssumption == Passphrase \in [Stations -> {"main", "guest", "wrong"}]
ASSUME SecurityAssumption   == Security \in [Stations -> {"WPA", "WPA2"}]
ASSUME ConfigAssumption     == /\ GuestPSK \in BOOLEAN
                               /\ GKRekeyTime \in BOOLEAN
                               /\ SkbMayFail \in BOOLEAN
ASSUME ResendAssumption     == MaxResendNum \in Nat
ASSUME BudgetAssumption     == Budget \in [Kinds -> Nat]

VARIABLES
  wpa,        \* wpa_sta_info of each slot
  gbl,        \* wpa_global_info
  RC_toggle,  \* the static of AuthenticationRequest, modulo 2
  late,       \* ResendTimeout interrupted after its test of resendCnt
  drv,        \* what the driver holds for each station: asoc, port, keys
  drvGTK,     \* the group key the driver encrypts broadcasts with
  down, up,   \* frames in flight to and from each station
  sup,        \* the supplicants
  budget      \* what is left of Budget

apVars == <<wpa, gbl, RC_toggle, late, drv, drvGTK>>
vars   == <<wpa, gbl, RC_toggle, late, drv, drvGTK, down, up, sup, budget>>

-----------------------------------------------------------------------------
(* Types.                                                                  *)

Keys  == [psk : {"none", "main", "guest", "wrong"}, n : Nat]
NoKey == [psk |-> "none", n |-> 0]

Steps   == {"4-1", "4-2", "4-3", "4-4", "2-1", "2-2", "pairwise-request", "group-request"}
Frames  == [step : Steps, rc : Nat, key : Keys, gtk : Nat]
NoFrame == [step |-> "4-1", rc |-> 0, key |-> NoKey, gtk |-> 0]

Pairwise(m) == m.step \in {"4-2", "4-4", "pairwise-request"}
Request(m)  == m.step \in {"pairwise-request", "group-request"}

StaInfo == [state : {"IDLE", "PTKSTART", "PTKINITNEGOTIATING", "PTKINITDONE"},
            gstate : {"REKEYNEGOTIATING", "REKEYESTABLISHED"},
            resendCnt : Nat, rc : Nat, started : Nat,  \* rc: CurrentReplayCounter
            ANonce : Nat, PTK : Keys,                  \* started: ReplayCounterStarted
            wpa2 : BOOLEAN,                            \* RSNEnabled & PSK_WPA2
            isGuest : BOOLEAN, PInitAKeys : BOOLEAN,
            resendTimer : BOOLEAN,                     \* pending
            msg : Frames]                              \* EAPOLMsgSend

GlobalInfo == [GInitAKeys : BOOLEAN, GkeyReady : BOOLEAN, GKeyDoneStations : Nat,
               GTK : Nat, GKRekeyTimer : BOOLEAN]

DriverInfo == [asoc : BOOLEAN, port : {"Unauthorized", "Authorized", "Guest"},
               ptk : Keys, sets : Nat]                 \* sets: calls of ToDrv_SetPTK

SupInfo == [tptk : Keys, keys : SUBSET Keys, ptk : Keys, rc : Nat, gtk : Nat,
            last : Frames]

TypeOK ==
  /\ wpa \in [Stations -> StaInfo]
  /\ gbl \in GlobalInfo
  /\ RC_toggle \in {0, 1}
  /\ late \in [Stations -> {"no", "resend", "give-up"}]
  /\ drv \in [Stations -> DriverInfo]
  /\ drvGTK \in Nat
  /\ down \in [Stations -> Seq(Frames)]
  /\ up \in [Stations -> Seq(Frames)]
  /\ sup \in [Stations -> SupInfo]
  /\ budget \in [Kinds -> Nat]

-----------------------------------------------------------------------------
(* Initial state: psk_init, an empty station table.                        *)

ResetSta == [state |-> "IDLE", gstate |-> "REKEYNEGOTIATING", resendCnt |-> 0,
             rc |-> 0, started |-> 0, ANonce |-> 0, PTK |-> NoKey, wpa2 |-> FALSE,
             isGuest |-> FALSE, PInitAKeys |-> FALSE, resendTimer |-> FALSE,
             msg |-> NoFrame]

Absent == [asoc |-> FALSE, port |-> "Unauthorized", ptk |-> NoKey, sets |-> 0]

NewSup == [tptk |-> NoKey, keys |-> {}, ptk |-> NoKey, rc |-> 0, gtk |-> 0,
           last |-> NoFrame]

Init ==
  /\ wpa = [s \in Stations |-> ResetSta]
  /\ gbl = [GInitAKeys |-> TRUE, GkeyReady |-> FALSE, GKeyDoneStations |-> 0,
            GTK |-> 0, GKRekeyTimer |-> FALSE]
  /\ RC_toggle = 0
  /\ late = [s \in Stations |-> "no"]
  /\ drv = [s \in Stations |-> Absent]
  /\ drvGTK = 0
  /\ down = [s \in Stations |-> <<>>]
  /\ up = [s \in Stations |-> <<>>]
  /\ sup = [s \in Stations |-> NewSup]
  /\ budget = Budget

Spend(k) == budget[k] > 0 /\ budget' = [budget EXCEPT ![k] = @ - 1]

-----------------------------------------------------------------------------
(* SendEAPOL(resend = 0).  The state of the station decides which frame is *)
(* built: 4-1 in PTKSTART, 4-3 in PTKINITNEGOTIATING, 2-1 in PTKINITDONE.  *)
(* The resend timer is armed only when a buffer could be allocated.        *)

AllocFailures == IF SkbMayFail THEN SUBSET Stations ELSE {{}}

\* Only a 4-1 takes a fresh ANonce and records the counter it starts with.
Prepared(x) ==
  IF x.state = "PTKSTART" THEN [x EXCEPT !.ANonce = @ + 1, !.started = x.rc] ELSE x

\* The EAPOL-Key frame built in the state of x; gtk is GTK[GN].
Frame(x, gtk) ==
  CASE x.state = "PTKSTART" ->
         [step |-> "4-1", rc |-> x.rc, key |-> [psk |-> "none", n |-> x.ANonce], gtk |-> 0]
    [] x.state = "PTKINITNEGOTIATING" ->
         [step |-> "4-3", rc |-> x.rc, key |-> x.PTK, gtk |-> IF x.wpa2 THEN gtk ELSE 0]
    [] OTHER ->
         [step |-> "2-1", rc |-> x.rc, key |-> x.PTK, gtk |-> gtk]

Sent(x, gtk, allocated) ==
  LET y == Prepared(x) IN
    [y EXCEPT !.rc = @ + (IF x.state = "PTKINITDONE" THEN 2 ELSE 1),
              !.msg = Frame(y, gtk),
              !.resendTimer = @ \/ allocated]

\* SendEAPOL to every station of `to`, over the table w and the channels q;
\* no buffer for those of F.
Transmit(w, q, to, gtk, F) ==
  /\ wpa' = [t \in Stations |-> IF t \in to THEN Sent(w[t], gtk, t \notin F) ELSE w[t]]
  /\ down' = [t \in Stations |->
                IF t \in to \ F THEN Append(q[t], Frame(Prepared(w[t]), gtk)) ELSE q[t]]

-----------------------------------------------------------------------------
(* UpdateGK.  GTKRekey (here the argument rekey) and GUpdateStationKeys    *)
(* (here fresh) are set and cleared within one call.                       *)

Associated == {t \in Stations : drv[t].asoc}

\* Mutant: GkeyReady is not reset.
NewGTKStillReady(w, g) ==
  [g EXCEPT !.GInitAKeys = FALSE, !.GTK = @ + 1, !.GKRekeyTimer = FALSE,
            !.GKeyDoneStations =
              Cardinality({t \in Associated : w[t].state = "PTKINITDONE"})]

NewGTK(w, g) ==
  [g EXCEPT !.GInitAKeys = FALSE, !.GkeyReady = FALSE, !.GTK = @ + 1,
            !.GKRekeyTimer = FALSE,
            !.GKeyDoneStations =
              Cardinality({t \in Associated : w[t].state = "PTKINITDONE"})]

\* The stations UpdateGK starts a group key handshake with.
DueForGroupKey(w, g, fresh) ==
  {t \in Associated :
     /\ w[t].state = "PTKINITDONE"
     /\ \/ g.GkeyReady /\ w[t].PInitAKeys
        \/ fresh
        \/ w[t].gstate = "REKEYNEGOTIATING"}

StartGroupHandshake(x) ==
  [x EXCEPT !.PInitAKeys = FALSE, !.gstate = "REKEYNEGOTIATING", !.resendCnt = 0]

\* UpdateGK over the table w and the global information g0, in a handler that
\* also sends to `also`.
UpdateGK(g0, rekey, w, also, F) ==
  LET fresh == rekey \/ g0.GInitAKeys
      g     == IF fresh THEN NewGTK(w, g0) ELSE g0
      due   == DueForGroupKey(w, g, fresh)
      w1    == [t \in Stations |-> IF t \in due THEN StartGroupHandshake(w[t]) ELSE w[t]]
  IN  /\ gbl' = g
      /\ Transmit(w1, down, due \cup also, g.GTK, F)

\* Mutants: no guard on the decrement; the test before the decrement.
GroupCountUnguarded == gbl.GKeyDoneStations - 1
GroupDoneBefore     == gbl.GKeyDoneStations = 0 /\ ~gbl.GkeyReady

\* One station fewer to wait for; the last one makes the driver use the GTK
\* and starts the rekey timer.
GroupCount == IF gbl.GKeyDoneStations > 0 THEN gbl.GKeyDoneStations - 1 ELSE 0
GroupDone  == GroupCount = 0 /\ ~gbl.GkeyReady
CountedOff ==
  [gbl EXCEPT !.GKeyDoneStations = GroupCount, !.GkeyReady = @ \/ GroupDone,
              !.GKRekeyTimer = @ \/ (GroupDone /\ GKRekeyTime)]
SetGTKWhenDone == drvGTK' = IF GroupDone THEN gbl.GTK ELSE drvGTK
CountGroupDone == gbl' = CountedOff /\ SetGTKWhenDone

-----------------------------------------------------------------------------
(* Association and its end.                                                *)

StopTimer(x) == [x EXCEPT !.resendTimer = FALSE]

\* The table entry of s is released: nothing reaches the station any more,
\* and its supplicant starts over.  x is what stays in wpa_sta_info.
Release(s, x) ==
  /\ wpa' = [wpa EXCEPT ![s] = x]
  /\ drv' = [drv EXCEPT ![s] = Absent]
  /\ down' = [down EXCEPT ![s] = <<>>]
  /\ up' = [up EXCEPT ![s] = <<>>]
  /\ sup' = [sup EXCEPT ![s] = NewSup]

\* DOT11_EVENT_ASSOCIATION_IND and _REASSOCIATION_IND with an acceptable RSN
\* information element: reset_sta_info, then AuthenticationRequest.
Associate(s) ==
  /\ Spend(IF drv[s].asoc THEN "leave" ELSE "assoc")  \* it may re-associate
  /\ RC_toggle' = 1 - RC_toggle
  /\ \E F \in AllocFailures :
       Transmit([wpa EXCEPT ![s] = [ResetSta EXCEPT !.state = "PTKSTART",
                                                    !.rc = RC_toggle',
                                                    !.wpa2 = Security[s] = "WPA2"]],
                [down EXCEPT ![s] = <<>>], {s}, gbl.GTK, F)
  /\ sup' = [sup EXCEPT ![s] = NewSup]
  /\ drv' = [drv EXCEPT ![s] = [Absent EXCEPT !.asoc = TRUE]]
  /\ up' = [up EXCEPT ![s] = <<>>]
  /\ UNCHANGED <<gbl, late, drvGTK>>

\* OnDisassoc, del_sta, and an association whose information element is
\* refused: the entry is reset and the station is no longer associated.
Disassociate(s) ==
  /\ drv[s].asoc /\ Spend("leave")
  /\ Release(s, ResetSta)
  /\ UNCHANGED <<gbl, RC_toggle, late, drvGTK>>

\* OnDeAuth frees the entry first, so psk_indicate_evt no longer finds it
\* and reset_sta_info does not run: only the timer is deleted.
Deauthenticate(s) ==
  /\ drv[s].asoc /\ Spend("leave")
  /\ Release(s, StopTimer(wpa[s]))
  /\ UNCHANGED <<gbl, RC_toggle, late, drvGTK>>

-----------------------------------------------------------------------------
(* EAPOLKeyRecvd: one action per branch.  An associated station is never   *)
(* in PSK_STATE_IDLE, and frames of other stations do not get here.        *)

Receives(s) == drv[s].asoc /\ up[s] # <<>>

Consumed(s) == up' = [up EXCEPT ![s] = Tail(@)]

\* ToDrv_DisconnectSTA(RSN_MIC_failure); state = PSK_STATE_IDLE.
MicFailure(s) ==
  /\ Release(s, [StopTimer(wpa[s]) EXCEPT !.state = "IDLE"])
  /\ UNCHANGED <<gbl, RC_toggle, late, drvGTK, budget>>

\* Mutant: a message 2 is expected in PTKSTART only.
IsMsg2Once(x, m) == x.state = "PTKSTART" /\ m.rc + 1 = x.rc

\* A pairwise frame that is taken for message 2: in PTKSTART when its replay
\* counter is the last one sent, in PTKINITNEGOTIATING when it is the one the
\* handshake started with (a duplicate).
IsMsg2(x, m) ==
  \/ x.state = "PTKSTART" /\ m.rc + 1 = x.rc
  \/ x.state = "PTKINITNEGOTIATING" /\ m.rc = x.started

\* Mutant: the MIC of message 2 is not verified.
ProvesNonce(x, m) == m.step = "4-2" /\ m.key.n = x.ANonce

\* The PTK derived from either passphrase and the nonces verifies the MIC:
\* only a message 2 carries the nonce its key was derived with.
ProvesPSK(x, m) ==
  /\ m.step = "4-2" /\ m.key.n = x.ANonce
  /\ m.key.psk = "main" \/ (GuestPSK /\ m.key.psk = "guest")

Proved(x, m) ==
  [StopTimer(x) EXCEPT !.PTK = m.key, !.isGuest = @ \/ m.key.psk = "guest",
                       !.resendCnt = 0, !.state = "PTKINITNEGOTIATING"]

\* Mutant: the GTK of message 3 is taken as it is, without UpdateGK.
RecvMsg2NoUpdate(s) == LET m == Head(up[s]) IN
  /\ Receives(s) /\ Pairwise(m)
  /\ IsMsg2(wpa[s], m)
  /\ ProvesPSK(wpa[s], m)
  /\ \E F \in AllocFailures :
       Transmit([wpa EXCEPT ![s] = Proved(@, m)], down, {s}, gbl.GTK, F)
  /\ Consumed(s)
  /\ UNCHANGED <<gbl, RC_toggle, late, drv, drvGTK, sup, budget>>

RecvMsg2(s) == LET m == Head(up[s]) IN
  /\ Receives(s) /\ Pairwise(m)
  /\ IsMsg2(wpa[s], m)
  /\ ProvesPSK(wpa[s], m)
  /\ \E F \in AllocFailures :
       LET w == [wpa EXCEPT ![s] = Proved(@, m)]
       IN  IF wpa[s].wpa2
           THEN UpdateGK(gbl, FALSE, w, {s}, F)  \* a WPA2 4-3 carries the GTK
           ELSE Transmit(w, down, {s}, gbl.GTK, F) /\ UNCHANGED gbl
  /\ Consumed(s)
  /\ UNCHANGED <<RC_toggle, late, drv, drvGTK, sup, budget>>

\* Neither passphrase verifies message 2: the station is disconnected.
RecvBadMsg2(s) == LET m == Head(up[s]) IN
  /\ Receives(s) /\ Pairwise(m)
  /\ IsMsg2(wpa[s], m)
  /\ ~ProvesPSK(wpa[s], m)
  /\ MicFailure(s)

\* Mutant: the timer is deleted before the replay counter is compared.
IgnoreMsg2Unsupervised(s) == LET m == Head(up[s]) IN
  /\ Receives(s) /\ Pairwise(m)
  /\ wpa[s].state = "PTKSTART" /\ ~IsMsg2(wpa[s], m)
  /\ wpa' = [wpa EXCEPT ![s] = StopTimer(@)]
  /\ Consumed(s)
  /\ UNCHANGED <<gbl, RC_toggle, late, drv, drvGTK, down, sup, budget>>

\* ERROR_NONEEQUL_REPLAYCOUNTER: dropped, the timer runs on.
IgnoreMsg2(s) == LET m == Head(up[s]) IN
  /\ Receives(s) /\ Pairwise(m)
  /\ wpa[s].state = "PTKSTART" /\ ~IsMsg2(wpa[s], m)
  /\ Consumed(s)
  /\ UNCHANGED <<wpa, gbl, RC_toggle, late, drv, drvGTK, down, sup, budget>>

\* Mutant: message 4 is also taken in PTKINITDONE.
IsMsg4Again(x, m) == x.state # "PTKSTART" /\ ~IsMsg2(x, m)

\* In PTKINITNEGOTIATING every other pairwise frame is taken for message 4.
IsMsg4(x, m) == x.state = "PTKINITNEGOTIATING" /\ ~IsMsg2(x, m)

\* A WPA2 station has had the GTK in message 3; a WPA station is due for it.
Confirmed(x) ==
  [StopTimer(x) EXCEPT
     !.rc = @ + 2, !.state = "PTKINITDONE", !.PInitAKeys = @ \/ ~x.wpa2,
     !.gstate = IF x.wpa2 THEN "REKEYESTABLISHED" ELSE "REKEYNEGOTIATING"]

\* ToDrv_SetPTK and ToDrv_SetPort.
Opened(x, d) ==
  [d EXCEPT !.ptk = x.PTK, !.sets = @ + 1,
            !.port = IF x.isGuest THEN "Guest" ELSE "Authorized"]

\* The Secure bit, which only message 4 of a WPA2 station has set.
Secure(m) == m.step = "4-4"

\* Message 4 of a WPA2 station: counted off, and no UpdateGK if it is secure.
RecvMsg4WPA2(s) == LET m == Head(up[s])  w == [wpa EXCEPT ![s] = Confirmed(@)] IN
  /\ Receives(s) /\ Pairwise(m)
  /\ IsMsg4(wpa[s], m) /\ m.key = wpa[s].PTK /\ wpa[s].wpa2
  /\ drv' = [drv EXCEPT ![s] = Opened(wpa[s], @)]
  /\ SetGTKWhenDone
  /\ IF Secure(m)
     THEN gbl' = CountedOff /\ wpa' = w /\ UNCHANGED down
     ELSE \E F \in AllocFailures : UpdateGK(CountedOff, FALSE, w, {}, F)
  /\ Consumed(s)
  /\ UNCHANGED <<RC_toggle, late, sup, budget>>

\* Message 4 of a WPA station: UpdateGK starts its group key handshake.
RecvMsg4WPA(s) == LET m == Head(up[s]) IN
  /\ Receives(s) /\ Pairwise(m)
  /\ IsMsg4(wpa[s], m) /\ m.key = wpa[s].PTK /\ ~wpa[s].wpa2
  /\ drv' = [drv EXCEPT ![s] = Opened(wpa[s], @)]
  /\ \E F \in AllocFailures : UpdateGK(gbl, FALSE, [wpa EXCEPT ![s] = Confirmed(@)], {}, F)
  /\ Consumed(s)
  /\ UNCHANGED <<RC_toggle, late, drvGTK, sup, budget>>

RecvBadMsg4(s) == LET m == Head(up[s]) IN
  /\ Receives(s) /\ Pairwise(m)
  /\ IsMsg4(wpa[s], m) /\ m.key # wpa[s].PTK
  /\ MicFailure(s)

\* A pairwise frame in PTKINITDONE deletes the resend timer, whatever it is.
RecvPairwiseDone(s) == LET m == Head(up[s]) IN
  /\ Receives(s) /\ Pairwise(m) /\ ~Request(m)
  /\ wpa[s].state = "PTKINITDONE"
  /\ wpa' = [wpa EXCEPT ![s] = StopTimer(@)]
  /\ Consumed(s)
  /\ UNCHANGED <<gbl, RC_toggle, late, drv, drvGTK, down, sup, budget>>

\* The station asks for a new 4-way handshake: port and PTK stay in use.
Restarted(x) == [StopTimer(x) EXCEPT !.state = "PTKSTART", !.resendCnt = 0]

RecvPairwiseRequest(s) == LET m == Head(up[s]) IN
  /\ Receives(s) /\ Pairwise(m) /\ Request(m)
  /\ wpa[s].state = "PTKINITDONE"
  /\ \E F \in AllocFailures : UpdateGK(gbl, FALSE, [wpa EXCEPT ![s] = Restarted(@)], {s}, F)
  /\ Consumed(s)
  /\ UNCHANGED <<RC_toggle, late, drv, drvGTK, sup, budget>>

\* Message 2 of the group key handshake (its MIC is verified and its replay
\* counter not beyond ours), or a group request (nothing is verified).
AcceptsGroup(x, m) == Request(m) \/ (m.rc <= x.rc /\ m.key = x.PTK)

RecvGroup(s) == LET m == Head(up[s]) IN
  /\ Receives(s) /\ ~Pairwise(m)
  /\ AcceptsGroup(wpa[s], m)
  /\ wpa' = [wpa EXCEPT ![s] = [StopTimer(@) EXCEPT !.gstate = "REKEYESTABLISHED"]]
  /\ CountGroupDone
  /\ Consumed(s)
  /\ UNCHANGED <<RC_toggle, late, drv, down, sup, budget>>

\* ERROR_LARGER_REPLAYCOUNTER returns with the timer deleted; a wrong MIC
\* disconnects the station.
RecvBadGroup(s) == LET m == Head(up[s]) IN
  /\ Receives(s) /\ ~Pairwise(m)
  /\ ~AcceptsGroup(wpa[s], m)
  /\ IF m.rc > wpa[s].rc
     THEN /\ wpa' = [wpa EXCEPT ![s] = StopTimer(@)]
          /\ Consumed(s)
          /\ UNCHANGED <<gbl, RC_toggle, late, drv, drvGTK, down, sup, budget>>
     ELSE MicFailure(s)

-----------------------------------------------------------------------------
(* Timers.                                                                 *)

Softirq == \E t \in Stations : late[t] # "no"  \* softirqs do not nest

Expired(x) == [StopTimer(x) EXCEPT !.resendCnt = @ + 1]

\* ResendTimeout up to the test ++resendCnt > MAX_RESEND_NUM.
ResendTimerFires(s) ==
  /\ wpa[s].resendTimer /\ ~Softirq
  /\ Spend("timeout")
  /\ wpa' = [wpa EXCEPT ![s] = Expired(@)]
  /\ late' = [late EXCEPT ![s] =
                IF wpa[s].resendCnt + 1 > MaxResendNum THEN "give-up" ELSE "resend"]
  /\ UNCHANGED <<gbl, RC_toggle, drv, drvGTK, down, up, sup>>

\* Mutant: the last frame again as it was.
ResentUnchanged(x) == [x.msg EXCEPT !.key = IF x.msg.step = "4-1" THEN @ ELSE x.PTK]

\* SendEAPOL(resend = 1): the last frame again, with the next replay counter
\* and a MIC under the present PTK; nothing in PSK_STATE_IDLE.
ResentFrame(x) ==
  [x.msg EXCEPT !.rc = x.rc, !.key = IF x.msg.step = "4-1" THEN @ ELSE x.PTK]

\* Mutant: resendCnt starts over with every frame sent.
ResentForEver(x, allocated) ==
  [x EXCEPT !.rc = @ + 1, !.resendTimer = @ \/ allocated, !.msg = ResentFrame(x),
            !.resendCnt = 0]

Resent(x, allocated) ==
  [x EXCEPT !.rc = @ + 1, !.resendTimer = @ \/ allocated, !.msg = ResentFrame(x)]

ResendFrame(s) ==
  /\ late[s] = "resend"
  /\ late' = [late EXCEPT ![s] = "no"]
  /\ IF wpa[s].state = "IDLE"
     THEN UNCHANGED <<wpa, down>>
     ELSE \E allocated \in (IF SkbMayFail THEN BOOLEAN ELSE {TRUE}) :
            /\ wpa' = [wpa EXCEPT ![s] = Resent(@, allocated)]
            /\ down' = IF allocated /\ drv[s].asoc
                       THEN [down EXCEPT ![s] = Append(@, ResentFrame(wpa[s]))]
                       ELSE down
  /\ UNCHANGED <<gbl, RC_toggle, drv, drvGTK, up, sup, budget>>

\* A station that does not answer the group key handshake counts as done;
\* then it is disconnected, unless it is the only one and was the last to
\* wait for.
GroupTimeout(s) == wpa[s].state = "PTKINITDONE" /\ wpa[s].gstate = "REKEYNEGOTIATING"

KeptAlone(s) == GroupTimeout(s) /\ GroupDone /\ Cardinality(Associated) = 1

ResendGiveUp(s) ==
  /\ late[s] = "give-up"
  /\ late' = [late EXCEPT ![s] = "no"]
  /\ IF GroupTimeout(s) THEN CountGroupDone ELSE UNCHANGED <<gbl, drvGTK>>
  /\ IF drv[s].asoc /\ ~KeptAlone(s)
     THEN Release(s, StopTimer(wpa[s]))
     ELSE UNCHANGED <<wpa, drv, down, up, sup>>
  /\ UNCHANGED <<RC_toggle, budget>>

\* GKRekeyTimeout: GTKRekey = TRUE, UpdateGK.
GKRekeyTimeout ==
  /\ gbl.GKRekeyTimer /\ ~Softirq
  /\ Spend("rekey")
  /\ \E F \in AllocFailures : UpdateGK(gbl, TRUE, wpa, {}, F)
  /\ UNCHANGED <<RC_toggle, late, drv, drvGTK, up, sup>>

-----------------------------------------------------------------------------
(* Environment: supplicants that follow IEEE 802.11i, and channels that    *)
(* lose, repeat and reorder frames.                                        *)

Reply(s, step, m, key, gtk) == [step |-> step, rc |-> m.rc, key |-> key, gtk |-> gtk]

\* The supplicant handles the next frame; r is its answer, x its new state.
SupAnswers(s, x, r) ==
  /\ sup' = [sup EXCEPT ![s] = [x EXCEPT !.last = r]]
  /\ down' = [down EXCEPT ![s] = Tail(@)]
  /\ up' = [up EXCEPT ![s] = Append(@, r)]
  /\ UNCHANGED <<apVars, budget>>

\* A frame is acceptable if its replay counter exceeds the last verified one
\* and, except for a 4-1, its MIC is right.
Fresh(s, m, step) == down[s] # <<>> /\ m.step = step /\ m.rc >= sup[s].rc

SupMsg1(s) == LET m == Head(down[s])
                  k == [psk |-> Passphrase[s], n |-> m.key.n] IN
  /\ Fresh(s, m, "4-1")
  /\ SupAnswers(s, [sup[s] EXCEPT !.tptk = k], Reply(s, "4-2", m, k, 0))

SupMsg3(s) == LET m == Head(down[s]) IN
  /\ Fresh(s, m, "4-3")
  /\ m.key = sup[s].tptk
  /\ SupAnswers(s, [sup[s] EXCEPT !.ptk = m.key, !.keys = @ \union {m.key},
                                  !.rc = m.rc + 1,
                                  !.gtk = IF Security[s] = "WPA2" THEN m.gtk ELSE @],
                Reply(s, "4-4", m, m.key, IF Security[s] = "WPA2" THEN m.gtk ELSE 0))

SupGroup(s) == LET m == Head(down[s]) IN
  /\ Fresh(s, m, "2-1")
  /\ m.key = sup[s].ptk
  /\ SupAnswers(s, [sup[s] EXCEPT !.gtk = m.gtk, !.rc = m.rc + 1],
                Reply(s, "2-2", m, m.key, m.gtk))

Acceptable(s, m) == /\ m.rc >= sup[s].rc
                    /\ CASE m.step = "4-1" -> TRUE
                         [] m.step = "4-3" -> m.key = sup[s].tptk
                         [] OTHER -> m.key = sup[s].ptk

\* A frame is not acceptable to the supplicant, or is lost on the way.
SupDiscard(s) == LET m == Head(down[s]) IN
  /\ down[s] # <<>>
  /\ ~Acceptable(s, m)
  /\ down' = [down EXCEPT ![s] = Tail(@)]
  /\ UNCHANGED <<apVars, up, sup, budget>>

LoseDown(s) ==
  /\ down[s] # <<>> /\ Spend("loss")
  /\ down' = [down EXCEPT ![s] = Tail(@)]
  /\ UNCHANGED <<apVars, up, sup>>

LoseUp(s) ==
  /\ up[s] # <<>> /\ Spend("loss")
  /\ up' = [up EXCEPT ![s] = Tail(@)]
  /\ UNCHANGED <<apVars, down, sup>>

\* The supplicant sends its last frame again, in a new 802.11 frame.
SupDuplicate(s) ==
  /\ sup[s].last # NoFrame /\ Spend("duplicate")
  /\ up' = [up EXCEPT ![s] = Append(@, sup[s].last)]
  /\ UNCHANGED <<apVars, down, sup>>

\* A frame is received before the one sent before it.
Overtake(s) ==
  /\ Len(up[s]) > 1 /\ Spend("overtake")
  /\ up' = [up EXCEPT ![s] = <<@[2], @[1]>> \o SubSeq(@, 3, Len(@))]
  /\ UNCHANGED <<apVars, down, sup>>

\* Once it has keys the supplicant may ask for new ones.
SupRequest(s) ==
  /\ sup[s].ptk # NoKey /\ Spend("request")
  /\ \E step \in {"pairwise-request", "group-request"} :
       up' = [up EXCEPT ![s] = Append(@, [step |-> step, rc |-> 0,
                                          key |-> sup[s].ptk, gtk |-> 0])]
  /\ UNCHANGED <<apVars, down, sup>>

-----------------------------------------------------------------------------

Membership(s) == Associate(s) \/ Disassociate(s) \/ Deauthenticate(s)

RecvPairwise(s) ==
  \/ RecvMsg2(s) \/ RecvBadMsg2(s) \/ IgnoreMsg2(s)
  \/ RecvMsg4WPA2(s) \/ RecvMsg4WPA(s) \/ RecvBadMsg4(s)
  \/ RecvPairwiseDone(s) \/ RecvPairwiseRequest(s)

Timer(s) == ResendTimerFires(s) \/ ResendFrame(s) \/ ResendGiveUp(s)

Supplicant(s) ==
  \/ SupMsg1(s) \/ SupMsg3(s) \/ SupGroup(s) \/ SupDiscard(s)
  \/ SupDuplicate(s) \/ SupRequest(s)

Channel(s) == LoseDown(s) \/ LoseUp(s) \/ Overtake(s)

Next ==
  \/ GKRekeyTimeout
  \/ \E s \in Stations :
       \/ Membership(s) \/ RecvPairwise(s) \/ RecvGroup(s) \/ RecvBadGroup(s)
       \/ Timer(s) \/ Supplicant(s) \/ Channel(s)

Spec == Init /\ [][Next]_vars

\* The kernel runs expired timers and finishes the softirq it interrupted.
FairSpec == Spec /\ \A s \in Stations : WF_vars(Timer(s))

\* Moreover received frames are handled and the stations answer.
Receive(s) == RecvPairwise(s) \/ RecvGroup(s) \/ RecvBadGroup(s)
Answer(s)  == SupMsg1(s) \/ SupMsg3(s) \/ SupGroup(s) \/ SupDiscard(s)
LiveSpec == FairSpec /\ \A s \in Stations : WF_vars(Receive(s)) /\ WF_vars(Answer(s))

-----------------------------------------------------------------------------
(* Properties that hold.                                                   *)

Handshaking(s) == drv[s].asoc /\ wpa[s].state \in {"PTKSTART", "PTKINITNEGOTIATING"}

\* Whose port is open has shown that it knows the passphrase that port is
\* for, whatever frames were lost, repeated or overtaken by a timer
\* (EAPOLKeyRecvd: the two CheckMIC of message 2, isGuest, ToDrv_SetPort).
PortImpliesProof ==
  \A s \in Stations : drv[s].asoc /\ drv[s].port # "Unauthorized" =>
    /\ Passphrase[s] = IF drv[s].port = "Guest" THEN "guest" ELSE "main"
    /\ drv[s].port = "Guest" => GuestPSK
    /\ drv[s].ptk.psk = Passphrase[s]

\* The access point encrypts to a station with no key the station has not
\* installed: whatever is taken for message 4 answers a message 3
\* (EAPOLKeyRecvd, PTKINITNEGOTIATING).  Only while no frame is resent or the
\* frames of the stations come neither twice nor out of order (KeysConfirmed in
\* PskFrames_proofs); see DuplicateIsNotMsg4 for what happens otherwise.
KeyConfirmed ==
  \A s \in Stations : drv[s].ptk # NoKey => drv[s].ptk \in sup[s].keys

\* However handshakes, resends and rekeyings interleave, a station is sent
\* frames with growing replay counters, none of which it has to refuse
\* (SendEAPOL: what is sent first, what is resent, 2-1 counting by two).
ReplayCountersAccepted ==
  \A s \in Stations :
    /\ \A i \in DOMAIN down[s] :
         /\ sup[s].rc <= down[s][i].rc /\ down[s][i].rc < wpa[s].rc
         /\ \A j \in DOMAIN down[s] : i < j => down[s][i].rc < down[s][j].rc

\* GkeyReady tells whether the driver encrypts broadcasts with the newest
\* group key or still with an older one, and the next rekeying is scheduled
\* only in the first case: no path through UpdateGK, EAPOLKeyRecvd and
\* ResendTimeout lets them differ.
GTKReady ==
  /\ drvGTK <= gbl.GTK
  /\ gbl.GkeyReady => drvGTK = gbl.GTK
  /\ ~gbl.GkeyReady /\ gbl.GTK > 0 => drvGTK < gbl.GTK
  /\ gbl.GKRekeyTimer => gbl.GkeyReady

\* Until the first rekeying every station taken for REKEYESTABLISHED has the
\* group key, and never the zero one: a WPA2 station, also the first, had it
\* in message 3 (UpdateGK within SendEAPOL, "FIX GROUPKEY ALL ZERO"), a WPA
\* station answered its own 2-1.  After a rekeying between message 3 and
\* message 4 it does not hold for a WPA2 station, and not when KeyConfirmed
\* does not or a group request is taken for a 2-2 (GroupKeysHeld).
GroupKeyHeld ==
  \A s \in Stations :
    /\ drv[s].asoc
    /\ wpa[s].state = "PTKINITDONE" /\ wpa[s].gstate = "REKEYESTABLISHED"
    /\ gbl.GTK <= 1
    => sup[s].gtk = 1

\* A handshake under way always has its resend timer pending or running: no
\* frame, timely or not, leaves a station waiting for nothing, provided that
\* SendEAPOL finds a buffer and no station sends a request, which deletes the
\* timer in any state (HandshakesSupervised).
HandshakeSupervised ==
  \A s \in Stations : Handshaking(s) => wpa[s].resendTimer \/ late[s] # "no"

\* A handshake ends, in keys or in a disconnection, even when the station
\* falls silent at any point (ResendTimeout, MAX_RESEND_NUM).
HandshakeEnds == \A s \in Stations : Handshaking(s) ~> ~Handshaking(s)

\* When the stations answer and none leaves, a rekeying ends: every station
\* it waits for is counted off and the driver gets the new group key.
RekeyCompletes == gbl.GKeyDoneStations > 0 /\ ~gbl.GkeyReady ~> gbl.GkeyReady

-----------------------------------------------------------------------------
(* The access point keeps the promises of KeyAgreement.                    *)

Phase(s) == IF ~drv[s].asoc THEN "out"
            ELSE IF drv[s].port # "Unauthorized" THEN "secured"
            ELSE IF wpa[s].state = "PTKINITNEGOTIATING" THEN "proved"
            ELSE "unproven"

KnowsPassphrase(s) == Passphrase[s] = "main" \/ (GuestPSK /\ Passphrase[s] = "guest")

KA == INSTANCE KeyAgreement WITH
        Knows <- {s \in Stations : KnowsPassphrase(s)},
        phase <- [s \in Stations |-> Phase(s)],
        key   <- [s \in Stations |-> drv[s].ptk.n],
        installs <- [s \in Stations |-> drv[s].sets],
        gen   <- gbl.GTK,
        used  <- drvGTK

\* The handshakes, timers and group counts implement the abstract key
\* agreement: proof before keys, only newer keys, only the newest group key.
\* In particular a late or repeated frame never makes ToDrv_SetPTK set the
\* key that is in use again, which would restart its packet numbers.
Agreement == KA!Spec

-----------------------------------------------------------------------------
(* What a comment of 8192cd_psk.c says and the code does not do.           *)

\* Line 2649, "check replay counter to determine if msg 2 or 4 received":
\* what is taken for message 4 is not a message 2.
DuplicateIsNotMsg4 ==
  [][\A s \in Stations :
       RecvMsg4WPA2(s) \/ RecvMsg4WPA(s) => Head(up[s]).step # "4-2"]_vars
=============================================================================
