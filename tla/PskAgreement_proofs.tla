------------------------- MODULE PskAgreement_proofs -------------------------
(***************************************************************************)
(* Group key, passphrases and the refinement of KeyAgreement: what the      *)
(* runs check on small instances, for all values of the constants.         *)
(***************************************************************************)
EXTENDS PskAuthenticator_proofs, SequenceTheorems

-----------------------------------------------------------------------------
(* The group key.  A step generates one, counts a station off, does both   *)
(* (an insecure message 4) or neither.                                     *)

Generates == drvGTK' = drvGTK /\ \E w : gbl' = NewGTK(w, gbl)
CountsAndGenerates ==
  /\ SetGTKWhenDone /\ \E w : gbl' = NewGTK(w, CountedOff)
  /\ CountedOff.GInitAKeys
  /\ \E s \in Stations : wpa[s].wpa2 /\ wpa[s].state = "PTKINITNEGOTIATING"

LEMMA UpdateGKGroup ==
  ASSUME NEW g0, NEW rekey, NEW w, NEW also, NEW F, UpdateGK(g0, rekey, w, also, F)
  PROVE  gbl' = g0 \/ ((rekey \/ g0.GInitAKeys) /\ gbl' = NewGTK(w, g0))
BY DEF UpdateGK

LEMMA GroupStep ==
  ASSUME Next
  PROVE  UNCHANGED <<gbl, drvGTK>> \/ Generates \/ CountGroupDone \/ CountsAndGenerates
<1>1. CASE GKRekeyTimeout
  <2>1. PICK F : UpdateGK(gbl, TRUE, wpa, {}, F)
    BY <1>1 DEF GKRekeyTimeout
  <2> QED BY <1>1, <2>1, UpdateGKGroup DEF GKRekeyTimeout, Generates
<1>2. ASSUME NEW s \in Stations, Membership(s)
      PROVE  UNCHANGED <<gbl, drvGTK>>
  BY <1>2 DEF Membership, Associate, Disassociate, Deauthenticate
<1>3. ASSUME NEW s \in Stations, RecvPairwise(s)
      PROVE  UNCHANGED <<gbl, drvGTK>> \/ Generates \/ CountGroupDone
               \/ CountsAndGenerates
  <2>1. CASE RecvMsg2(s)
    <3> DEFINE w == [wpa EXCEPT ![s] = Proved(wpa[s], Head(up[s]))]
    <3>1. PICK F : IF wpa[s].wpa2 THEN UpdateGK(gbl, FALSE, w, {s}, F) ELSE UNCHANGED gbl
      BY <2>1 DEF RecvMsg2
    <3> QED BY <2>1, <3>1, UpdateGKGroup DEF RecvMsg2, Generates
  <2>2. CASE RecvMsg4WPA(s)
    <3> DEFINE w == [wpa EXCEPT ![s] = Confirmed(wpa[s])]
    <3>1. PICK F : UpdateGK(gbl, FALSE, w, {}, F)
      BY <2>2 DEF RecvMsg4WPA
    <3> QED BY <2>2, <3>1, UpdateGKGroup DEF RecvMsg4WPA, Generates
  <2>3. CASE RecvPairwiseRequest(s)
    <3> DEFINE w == [wpa EXCEPT ![s] = Restarted(wpa[s])]
    <3>1. PICK F : UpdateGK(gbl, FALSE, w, {s}, F)
      BY <2>3 DEF RecvPairwiseRequest
    <3> QED BY <2>3, <3>1, UpdateGKGroup DEF RecvPairwiseRequest, Generates
  <2>4. CASE RecvMsg4WPA2(s)
    <3> DEFINE w == [wpa EXCEPT ![s] = Confirmed(wpa[s])]
    <3>1. SetGTKWhenDone /\ wpa[s].wpa2 /\ wpa[s].state = "PTKINITNEGOTIATING"
      BY <2>4 DEF RecvMsg4WPA2, IsMsg4
    <3>2. gbl' = CountedOff \/ \E F : UpdateGK(CountedOff, FALSE, w, {}, F)
      BY <2>4 DEF RecvMsg4WPA2
    <3> HIDE DEF w
    <3>3. \/ gbl' = CountedOff
          \/ CountedOff.GInitAKeys /\ gbl' = NewGTK(w, CountedOff)
      BY <3>2, UpdateGKGroup
    <3> QED BY <3>1, <3>3 DEF CountGroupDone, CountsAndGenerates
  <2> QED BY <1>3, <2>1, <2>2, <2>3, <2>4
          DEF RecvPairwise, RecvBadMsg2, IgnoreMsg2, RecvBadMsg4,
              RecvPairwiseDone, MicFailure
<1>4. ASSUME NEW s \in Stations, RecvGroup(s) \/ RecvBadGroup(s) \/ Timer(s)
      PROVE  UNCHANGED <<gbl, drvGTK>> \/ CountGroupDone
  BY <1>4 DEF RecvGroup, RecvBadGroup, MicFailure, Timer, ResendTimerFires, ResendFrame,
              ResendGiveUp
<1>5. ASSUME NEW s \in Stations, Supplicant(s) \/ Channel(s)
      PROVE  UNCHANGED <<gbl, drvGTK>>
  BY <1>5 DEF Supplicant, Channel, SupMsg1, SupMsg3, SupGroup, SupAnswers, SupDiscard,
              SupDuplicate, SupRequest, LoseDown, LoseUp, Overtake, apVars
<1> QED BY <1>1, <1>2, <1>3, <1>4, <1>5 DEF Next

LEMMA GTKReadyStep ==
  ASSUME TypeOK, GTKReady, [Next]_vars
  PROVE  GTKReady'
<1>1. gbl \in GlobalInfo /\ drvGTK \in Nat
  BY DEF TypeOK
<1>2. CASE UNCHANGED <<gbl, drvGTK>>
  BY <1>2 DEF GTKReady
<1>3. CASE Generates
  <2>1. PICK w : gbl' = NewGTK(w, gbl)
    BY <1>3 DEF Generates
  <2>2. gbl'.GTK = gbl.GTK + 1 /\ ~gbl'.GkeyReady /\ ~gbl'.GKRekeyTimer
    BY <1>1, <2>1 DEF NewGTK, GlobalInfo
  <2> QED BY <1>1, <1>3, <2>2 DEF Generates, GTKReady, GlobalInfo
<1>4. CASE CountGroupDone
  <2>1. /\ gbl'.GTK = gbl.GTK
        /\ gbl'.GkeyReady = (gbl.GkeyReady \/ GroupDone)
        /\ gbl'.GKRekeyTimer = (gbl.GKRekeyTimer \/ (GroupDone /\ GKRekeyTime))
        /\ drvGTK' = IF GroupDone THEN gbl.GTK ELSE drvGTK
    BY <1>1, <1>4 DEF CountGroupDone, CountedOff, SetGTKWhenDone, GlobalInfo
  <2>2. CASE GroupDone
    <3>1. gbl'.GkeyReady
      BY <2>1, <2>2
    <3>2. drvGTK' = gbl'.GTK /\ gbl.GTK \in Nat
      BY <1>1, <2>1, <2>2 DEF GlobalInfo
    <3> QED BY <2>1, <3>1, <3>2 DEF GTKReady
  <2>3. CASE ~GroupDone
    BY <1>1, <2>1, <2>3 DEF GTKReady, GlobalInfo
  <2> QED BY <2>2, <2>3
<1>5. CASE CountsAndGenerates
  <2>1. PICK w : gbl' = NewGTK(w, CountedOff)
    BY <1>5 DEF CountsAndGenerates
  <2>2. CountedOff \in GlobalInfo /\ CountedOff.GTK = gbl.GTK
    BY <1>1, CountType DEF CountedOff, GlobalInfo
  <2>3. gbl'.GTK = gbl.GTK + 1 /\ ~gbl'.GkeyReady /\ ~gbl'.GKRekeyTimer
    BY <2>1, <2>2 DEF NewGTK, GlobalInfo
  <2>4. drvGTK' \in Nat /\ drvGTK' <= gbl.GTK
    BY <1>1, <1>5 DEF CountsAndGenerates, SetGTKWhenDone, GTKReady, GlobalInfo
  <2> QED BY <1>1, <2>3, <2>4 DEF GTKReady, GlobalInfo
<1>6. CASE UNCHANGED vars
  BY <1>2, <1>6 DEF vars
<1> QED BY <1>2, <1>3, <1>4, <1>5, <1>6, GroupStep

\* GkeyReady, the group key the driver uses and the rekey timer agree after
\* any interleaving of handshakes, timeouts, rekeyings and departures.
THEOREM GTKReadyAlways == Spec => []GTKReady
<1>1. Init => GTKReady
  BY DEF Init, GTKReady
<1> QED BY <1>1, TypeCorrect, GTKReadyStep, PTL DEF Spec

-----------------------------------------------------------------------------
(* Passphrases.  A PTK a handshake is about to open the port with, or has  *)
(* opened it with, is made of the passphrase of its station; only a        *)
(* message 2 may bring such a key, and those in flight carry theirs.       *)

Honest(s, m) == m.step = "4-2" => m.key.psk = Passphrase[s]

PairwiseInv(s) ==
  /\ wpa[s].isGuest => Passphrase[s] = "guest"
  /\ wpa[s].state \in {"PTKINITNEGOTIATING", "PTKINITDONE"} =>
       /\ KnowsPassphrase(s)
       /\ wpa[s].PTK.psk = Passphrase[s]
       /\ Passphrase[s] = "guest" => wpa[s].isGuest

PortInv(s) ==
  drv[s].port # "Unauthorized" =>
    /\ KnowsPassphrase(s)
    /\ drv[s].ptk.psk = Passphrase[s]
    /\ drv[s].port = "Guest" <=> Passphrase[s] = "guest"

FlightInv(s) ==
  /\ Honest(s, sup[s].last)
  /\ \A i \in 1 .. Len(up[s]) : Honest(s, up[s][i])

\* The nonces.  The key in use is older than the ANonce of a handshake under
\* way, whose PTK carries that ANonce.
NonceInv(s) ==
  drv[s].asoc =>
    /\ drv[s].ptk.n <= wpa[s].ANonce
    /\ wpa[s].state \in {"PTKSTART", "PTKINITNEGOTIATING"} => drv[s].ptk.n < wpa[s].ANonce
    /\ wpa[s].state = "PTKINITNEGOTIATING" => wpa[s].PTK.n = wpa[s].ANonce

\* The first group key is generated before a WPA2 station is sent message 3.
InitKeyInv(s) ==
  wpa[s].wpa2 /\ wpa[s].state = "PTKINITNEGOTIATING" => ~gbl.GInitAKeys

SlotInv(s) == PairwiseInv(s) /\ PortInv(s) /\ NonceInv(s) /\ InitKeyInv(s)

IInv == TypeOK /\ \A s \in Stations : SlotInv(s) /\ FlightInv(s)

\* Channels: what is received, added or overtaken stays honest.
HonestUp(s, q) == \A i \in 1 .. Len(q) : Honest(s, q[i])

LEMMA HonestTail ==
  ASSUME NEW s \in Stations, NEW q \in Seq(Frames), q # <<>>, HonestUp(s, q)
  PROVE  HonestUp(s, Tail(q))
<1>1. \A i \in 1 .. Len(Tail(q)) : i + 1 \in 1 .. Len(q) /\ Tail(q)[i] = q[i + 1]
  OBVIOUS
<1> QED BY <1>1 DEF HonestUp

LEMMA HonestAppend ==
  ASSUME NEW s \in Stations, NEW q \in Seq(Frames), NEW r \in Frames,
         HonestUp(s, q), Honest(s, r)
  PROVE  HonestUp(s, Append(q, r))
<1>1. \A i \in 1 .. Len(Append(q, r)) :
        (i \in 1 .. Len(q) /\ Append(q, r)[i] = q[i]) \/ Append(q, r)[i] = r
  OBVIOUS
<1> QED BY <1>1 DEF HonestUp

LEMMA HonestOvertaken ==
  ASSUME NEW s \in Stations, NEW q \in Seq(Frames), Len(q) > 1, HonestUp(s, q)
  PROVE  HonestUp(s, <<q[2], q[1]>> \o SubSeq(q, 3, Len(q)))
<1> DEFINE p == <<q[2], q[1]>> \o SubSeq(q, 3, Len(q))
<1>1. q[1] \in Frames /\ q[2] \in Frames /\ Len(q) \in Nat
  OBVIOUS
<1> DEFINE r == SubSeq(q, 3, Len(q))
<1>2. \A i \in 3 .. Len(q) : q[i] \in Frames
  BY <1>1
<1>3. /\ r \in Seq(Frames) /\ Len(r) = Len(q) - 2
      /\ \A i \in 1 .. Len(q) - 2 : r[i] = q[i + 2]
  <2>1. 3 \in Int /\ Len(q) \in Int
    BY <1>1
  <2>2. /\ r \in Seq(Frames) /\ Len(r) = (IF 3 <= Len(q) THEN Len(q) - 3 + 1 ELSE 0)
        /\ \A i \in 1 .. Len(q) - 3 + 1 : r[i] = q[3 + i - 1]
    BY <2>1, <1>2, SubSeqProperties
  <2> HIDE DEF r
  <2>3. Len(r) = Len(q) - 2
    <3>1. Len(r) = IF 3 <= Len(q) THEN Len(q) - 3 + 1 ELSE 0
      BY <2>2
    <3>2. (IF 3 <= Len(q) THEN Len(q) - 3 + 1 ELSE 0) = Len(q) - 2
      <4> DEFINE n == Len(q)
      <4>1. n \in Nat /\ n > 1
        BY <1>1
      <4> HIDE DEF n
      <4>2. (IF 3 <= n THEN n - 3 + 1 ELSE 0) = n - 2
        BY <4>1
      <4> QED BY <4>2 DEF n
    <3> QED BY <3>1, <3>2
  <2>4. ASSUME NEW i \in 1 .. Len(q) - 2
        PROVE  r[i] = q[i + 2]
    <3>1. i \in 1 .. Len(q) - 3 + 1 /\ 3 + i - 1 = i + 2
      BY <1>1
    <3>2. r[i] = q[3 + i - 1]
      BY <2>2, <3>1
    <3> QED BY <3>1, <3>2
  <2> QED BY <2>2, <2>3, <2>4
<1> HIDE DEF r
<1>4. p = <<q[2], q[1]>> \o r
  BY DEF r
<1> HIDE DEF p
<1>5. Len(p) = Len(q) /\ p[1] = q[2] /\ p[2] = q[1]
  BY <1>1, <1>3, <1>4
<1>6. \A i \in 3 .. Len(q) : p[i] = q[i]
  BY <1>1, <1>3, <1>4
<1> HIDE DEF p
<1>7. HonestUp(s, p)
  <2> SUFFICES ASSUME NEW i \in 1 .. Len(p) PROVE Honest(s, p[i])
    BY DEF HonestUp
  <2>1. i = 1 \/ i = 2 \/ i \in 3 .. Len(q)
    BY <1>1, <1>5
  <2>2. Honest(s, q[1]) /\ Honest(s, q[2])
    BY <1>1 DEF HonestUp
  <2>3. i \in 3 .. Len(q) => Honest(s, q[i])
    BY <1>1, <1>5 DEF HonestUp
  <2> QED BY <1>5, <1>6, <2>1, <2>2, <2>3
<1> QED BY <1>7 DEF p

\* An action of the access point consumes a frame or releases the station.
LEMMA FlightConsumed ==
  ASSUME TypeOK, NEW s \in Stations, FlightInv(s), Receives(s),
         up'[s] = Tail(up[s]), sup' = sup
  PROVE  FlightInv(s)'
<1>1. HonestUp(s, up[s]) /\ up[s] \in Seq(Frames) /\ up[s] # <<>>
  BY DEF FlightInv, HonestUp, TypeOK, Receives
<1> QED BY <1>1, HonestTail DEF FlightInv, HonestUp, Honest

LEMMA FlightReleased ==
  ASSUME NEW s \in Stations, up'[s] = <<>>, sup'[s] = NewSup
  PROVE  FlightInv(s)'
BY DEF FlightInv, NewSup, NoFrame, Honest

\* What an answer must satisfy.
LEMMA FlightAnswered ==
  ASSUME TypeOK, NEW s \in Stations, FlightInv(s), NEW x \in SupInfo, NEW r \in Frames,
         SupAnswers(s, x, r), Honest(s, r)
  PROVE  FlightInv(s)'
<1>1. HonestUp(s, up[s]) /\ up[s] \in Seq(Frames)
  BY DEF FlightInv, HonestUp, TypeOK
<1>2. up'[s] = Append(up[s], r) /\ sup'[s].last = r
  BY DEF SupAnswers, TypeOK, SupInfo
<1> QED BY <1>1, <1>2, HonestAppend DEF FlightInv, HonestUp, Honest

-----------------------------------------------------------------------------
(* Slots.  Most of what happens to a slot leaves its state and its keys    *)
(* alone; only a 4-1 that is sent takes a new ANonce.                      *)

Quiet(x, y) ==
  /\ y.state = x.state /\ y.PTK = x.PTK /\ y.isGuest = x.isGuest /\ y.wpa2 = x.wpa2
  /\ IF x.state = "PTKSTART" THEN y.ANonce \in {x.ANonce, x.ANonce + 1}
                             ELSE y.ANonce = x.ANonce

\* What Quiet means for the invariant and for the phase of a station.
LEMMA QuietSlot ==
  ASSUME TypeOK, NEW s \in Stations, SlotInv(s), Quiet(wpa[s], wpa'[s]), drv'[s] = drv[s],
         gbl'.GInitAKeys => gbl.GInitAKeys
  PROVE  SlotInv(s)' /\ Phase(s)' = Phase(s)
<1>1. wpa[s].ANonce \in Nat /\ drv[s].ptk.n \in Nat
  BY DEF TypeOK, StaInfo, DriverInfo, Keys
<1>2. PairwiseInv(s)'
  BY DEF SlotInv, PairwiseInv, Quiet, KnowsPassphrase
<1>3. PortInv(s)' /\ InitKeyInv(s)'
  BY DEF SlotInv, PortInv, InitKeyInv, Quiet, KnowsPassphrase
<1>4. NonceInv(s)'
  BY <1>1 DEF SlotInv, NonceInv, Quiet
<1>5. Phase(s)' = Phase(s)
  BY DEF Phase, Quiet
<1> QED BY <1>2, <1>3, <1>4, <1>5 DEF SlotInv

LEMMA QuietOperators ==
  ASSUME NEW x \in StaInfo
  PROVE  /\ Quiet(x, x) /\ Quiet(x, StopTimer(x)) /\ Quiet(x, Expired(x))
         /\ Quiet(x, [StopTimer(x) EXCEPT !.gstate = "REKEYESTABLISHED"])
         /\ Quiet(x, StartGroupHandshake(x))
         /\ \A b \in BOOLEAN : Quiet(x, Resent(x, b))
BY DEF Quiet, StopTimer, Expired, StartGroupHandshake, Resent, StaInfo

\* SendEAPOL is quiet, and a 4-1 takes a new ANonce.
LEMMA SentQuiet ==
  ASSUME NEW x \in StaInfo, NEW gtk, NEW b
  PROVE  /\ Quiet(x, Sent(x, gtk, b))
         /\ x.state = "PTKSTART" => Sent(x, gtk, b).ANonce = x.ANonce + 1
BY DEF Quiet, Sent, Prepared, StaInfo

LEMMA TransmitQuiet ==
  ASSUME NEW w \in [Stations -> StaInfo], NEW q, NEW to, NEW gtk, NEW F,
         Transmit(w, q, to, gtk, F)
  PROVE  \A t \in Stations :
           /\ Quiet(w[t], wpa'[t])
           /\ t \in to /\ w[t].state = "PTKSTART" => wpa'[t].ANonce = w[t].ANonce + 1
<1> SUFFICES ASSUME NEW t \in Stations
             PROVE  /\ Quiet(w[t], wpa'[t])
                    /\ t \in to /\ w[t].state = "PTKSTART" => wpa'[t].ANonce = w[t].ANonce + 1
  OBVIOUS
<1>1. wpa'[t] = IF t \in to THEN Sent(w[t], gtk, t \notin F) ELSE w[t]
  BY DEF Transmit
<1>2. w[t] \in StaInfo
  OBVIOUS
<1>3. CASE t \in to
  BY <1>1, <1>2, <1>3, SentQuiet
<1>4. CASE t \notin to
  BY <1>1, <1>2, <1>4, QuietOperators
<1> QED BY <1>3, <1>4

LEMMA UpdateGKQuiet ==
  ASSUME NEW g0 \in GlobalInfo, NEW rekey, NEW w \in [Stations -> StaInfo], NEW also, NEW F,
         UpdateGK(g0, rekey, w, also, F)
  PROVE  /\ \A t \in Stations :
              /\ Quiet(w[t], wpa'[t])
              /\ t \in also /\ w[t].state = "PTKSTART" => wpa'[t].ANonce = w[t].ANonce + 1
         /\ ~gbl'.GInitAKeys
<1> DEFINE fresh == rekey \/ g0.GInitAKeys
           g == IF fresh THEN NewGTK(w, g0) ELSE g0
           due == DueForGroupKey(w, g, fresh)
           w1 == [t \in Stations |-> IF t \in due THEN StartGroupHandshake(w[t]) ELSE w[t]]
<1>1. w1 \in [Stations -> StaInfo]
  BY StartGroupType
<1>2. gbl' = g /\ Transmit(w1, down, due \cup also, g.GTK, F)
  BY DEF UpdateGK
<1>3. ~g.GInitAKeys
  BY DEF NewGTK, GlobalInfo
<1>4. \A t \in Stations : t \in due => w[t].state = "PTKINITDONE"
  BY DEF DueForGroupKey
<1>5. \A t \in Stations : w1[t] = IF t \in due THEN StartGroupHandshake(w[t]) ELSE w[t]
  OBVIOUS
<1> HIDE DEF g, due, w1
<1>6. ASSUME NEW t \in Stations
      PROVE  /\ Quiet(w[t], wpa'[t])
             /\ t \in also /\ w[t].state = "PTKSTART" => wpa'[t].ANonce = w[t].ANonce + 1
  <2>1. /\ Quiet(w1[t], wpa'[t])
        /\ t \in also /\ w1[t].state = "PTKSTART" => wpa'[t].ANonce = w1[t].ANonce + 1
    BY <1>1, <1>2, TransmitQuiet
  <2>2. CASE t \in due
    <3>1. Quiet(w[t], w1[t]) /\ w[t].state = "PTKINITDONE"
      BY <1>4, <1>5, <2>2, QuietOperators
    <3> QED BY <2>1, <3>1 DEF Quiet
  <2>3. CASE t \notin due
    BY <1>5, <2>1, <2>3
  <2> QED BY <2>2, <2>3
<1> QED BY <1>2, <1>3, <1>6

-----------------------------------------------------------------------------
(* What a step does to the slots, in the terms of KeyAgreement: one slot   *)
(* may move, all others stand still.                                       *)

Still(s)   == Phase(s)' = Phase(s) /\ drv'[s] = drv[s]
Joins(s)   == Phase(s)' = "unproven" /\ drv'[s].ptk.n = 0 /\ drv'[s].sets = 0
Leaves(s)  == /\ Phase(s) # "out" /\ Phase(s)' = "out"
              /\ drv'[s].ptk.n = 0 /\ drv'[s].sets = 0
Proves(s)  == /\ Phase(s) = "unproven" /\ Phase(s)' = "proved"
              /\ KnowsPassphrase(s) /\ drv'[s] = drv[s]
Secures(s) == /\ Phase(s) \in {"proved", "secured"} /\ Phase(s)' = "secured"
              /\ KnowsPassphrase(s)
              /\ drv'[s].ptk.n > drv[s].ptk.n /\ drv'[s].sets = drv[s].sets + 1

MovesOnly(s) == /\ \A t \in Stations : SlotInv(t)' /\ (t # s => Still(t))
                /\ Still(s) \/ Joins(s) \/ Leaves(s) \/ Proves(s) \/ Secures(s)
NobodyMoves  == \A t \in Stations : SlotInv(t)' /\ Still(t)

\* GInitAKeys is set by psk_init only.
LEMMA InitKeysOnce ==
  ASSUME TypeOK, Next
  PROVE  gbl'.GInitAKeys => gbl.GInitAKeys
<1>1. gbl \in GlobalInfo
  BY DEF TypeOK
<1>2. CountedOff \in GlobalInfo /\ CountedOff.GInitAKeys = gbl.GInitAKeys
  BY <1>1, CountType DEF CountedOff, GlobalInfo
<1>3. \A w, g : g \in GlobalInfo => ~NewGTK(w, g).GInitAKeys
  BY DEF NewGTK, GlobalInfo
<1> QED BY <1>1, <1>2, <1>3, GroupStep DEF Generates, CountsAndGenerates, CountGroupDone

LEMMA QuietStep ==
  ASSUME IInv, Next, drv' = drv, \A t \in Stations : Quiet(wpa[t], wpa'[t])
  PROVE  NobodyMoves
BY QuietSlot, InitKeysOnce DEF IInv, NobodyMoves, Still

\* All slots but s are quiet: what remains is s.
LEMMA OtherSlots ==
  ASSUME IInv, Next, NEW s \in Stations, NEW w \in [Stations -> StaInfo],
         \A t \in Stations : t # s => w[t] = wpa[t] /\ drv'[t] = drv[t],
         \A t \in Stations : Quiet(w[t], wpa'[t]),
         SlotInv(s)',
         Still(s) \/ Joins(s) \/ Leaves(s) \/ Proves(s) \/ Secures(s)
  PROVE  MovesOnly(s)
<1>1. ASSUME NEW t \in Stations, t # s
      PROVE  SlotInv(t)' /\ Still(t)
  BY <1>1, QuietSlot, InitKeysOnce DEF IInv, Still
<1> QED BY <1>1 DEF MovesOnly

LEMMA ReleaseMoves ==
  ASSUME IInv, Next, NEW s \in Stations, NEW x \in StaInfo, Release(s, x), drv[s].asoc,
         x.isGuest => wpa[s].isGuest,
         x.state = "IDLE" \/ (x.state = wpa[s].state /\ x.PTK = wpa[s].PTK /\
                              x.isGuest = wpa[s].isGuest /\ x.wpa2 = wpa[s].wpa2)
  PROVE  MovesOnly(s)
<1>1. /\ wpa \in [Stations -> StaInfo] /\ drv \in [Stations -> DriverInfo]
      /\ wpa' = [wpa EXCEPT ![s] = x] /\ drv' = [drv EXCEPT ![s] = Absent]
  BY DEF IInv, TypeOK, Release
<1>2. wpa' \in [Stations -> StaInfo] /\ wpa'[s] = x /\ drv'[s] = Absent
  BY <1>1
<1>3. \A t \in Stations : t # s => wpa'[t] = wpa[t] /\ drv'[t] = drv[t]
  BY <1>1
<1>4. \A t \in Stations : Quiet(wpa'[t], wpa'[t])
  BY <1>2, QuietOperators
<1>5. PairwiseInv(s)'
  BY <1>2 DEF IInv, SlotInv, PairwiseInv, KnowsPassphrase
<1>6. InitKeyInv(s)'
  BY <1>2, InitKeysOnce DEF IInv, SlotInv, InitKeyInv
<1>7. PortInv(s)' /\ NonceInv(s)' /\ Leaves(s)
  BY <1>2 DEF PortInv, NonceInv, Leaves, Absent, NoKey, Phase
<1>8. SlotInv(s)'
  BY <1>5, <1>6, <1>7 DEF SlotInv
<1>9. ASSUME NEW t \in Stations, t # s
      PROVE  SlotInv(t)' /\ Still(t)
  <2>1. Quiet(wpa[t], wpa'[t]) /\ drv'[t] = drv[t]
    BY <1>3, <1>4, <1>9
  <2> QED BY <2>1, QuietSlot, InitKeysOnce DEF IInv, Still
<1> QED BY <1>7, <1>8, <1>9 DEF MovesOnly

-----------------------------------------------------------------------------
(* Association and its end.                                                *)

LEMMA MovesMembership ==
  ASSUME IInv, Next, NEW s \in Stations, Membership(s)
  PROVE  MovesOnly(s)
<1>1. wpa \in [Stations -> StaInfo] /\ drv \in [Stations -> DriverInfo]
  BY DEF IInv, TypeOK
<1>2. CASE Associate(s)
  <2> DEFINE x == [ResetSta EXCEPT !.state = "PTKSTART", !.rc = RC_toggle',
                                   !.wpa2 = Security[s] = "WPA2"]
             w == [wpa EXCEPT ![s] = x]
             q == [down EXCEPT ![s] = <<>>]
  <2>1. PICK F : Transmit(w, q, {s}, gbl.GTK, F)
    BY <1>2 DEF Associate
  <2>2. RC_toggle' \in Nat
    BY <1>2 DEF Associate, IInv, TypeOK
  <2>3. x \in StaInfo
    BY <2>2, ResetTypes DEF StaInfo
  <2>4. x.state = "PTKSTART" /\ x.ANonce = 0 /\ x.isGuest = FALSE
    BY DEF ResetSta
  <2> HIDE DEF x
  <2>5. w \in [Stations -> StaInfo] /\ w[s] = x /\ \A t \in Stations : t # s => w[t] = wpa[t]
    BY <1>1, <2>3
  <2> HIDE DEF w, q
  <2>6. /\ \A t \in Stations : Quiet(w[t], wpa'[t])
        /\ wpa'[s].ANonce = 1
    BY <2>1, <2>4, <2>5, TransmitQuiet
  <2>7. /\ drv'[s] = [Absent EXCEPT !.asoc = TRUE]
        /\ \A t \in Stations : t # s => drv'[t] = drv[t]
    BY <1>1, <1>2 DEF Associate
  <2>8. wpa'[s].state = "PTKSTART" /\ wpa'[s].isGuest = FALSE
    BY <2>4, <2>5, <2>6 DEF Quiet
  <2>9. SlotInv(s)' /\ Joins(s)
    BY <2>6, <2>7, <2>8
       DEF SlotInv, PairwiseInv, PortInv, NonceInv, InitKeyInv, Joins, Absent, NoKey, Phase
  <2> QED BY <2>5, <2>6, <2>7, <2>9, OtherSlots
<1>3. CASE Disassociate(s)
  <2>1. ResetSta \in StaInfo /\ ResetSta.state = "IDLE" /\ ResetSta.isGuest = FALSE
    BY ResetTypes DEF ResetSta
  <2> QED BY <1>3, <2>1, ReleaseMoves DEF Disassociate
<1>4. CASE Deauthenticate(s)
  <2> DEFINE x == StopTimer(wpa[s])
  <2>1. x \in StaInfo
    BY <1>1, StopTimerType
  <2>2. Quiet(wpa[s], x)
    BY <1>1, QuietOperators
  <2> HIDE DEF x
  <2>3. Release(s, x) /\ drv[s].asoc
    BY <1>4 DEF Deauthenticate, x
  <2> QED BY <2>1, <2>2, <2>3, ReleaseMoves DEF Quiet
<1> QED BY <1>2, <1>3, <1>4 DEF Membership

LEMMA MovesMicFailure ==
  ASSUME IInv, Next, NEW s \in Stations, Receives(s), MicFailure(s)
  PROVE  MovesOnly(s)
<1> DEFINE x == [StopTimer(wpa[s]) EXCEPT !.state = "IDLE"]
<1>1. wpa[s] \in StaInfo
  BY DEF IInv, TypeOK
<1>2. x \in StaInfo /\ x.state = "IDLE" /\ x.isGuest = wpa[s].isGuest
  BY <1>1 DEF StopTimer, StaInfo
<1>3. Release(s, x) /\ drv[s].asoc
  BY DEF MicFailure, Receives
<1> HIDE DEF x
<1> QED BY <1>2, <1>3, ReleaseMoves

-----------------------------------------------------------------------------
(* Pairwise frames.                                                        *)

LEMMA MovesMsg2 ==
  ASSUME IInv, Next, NEW s \in Stations, RecvMsg2(s)
  PROVE  MovesOnly(s)
<1> DEFINE m == Head(up[s])
           x == Proved(wpa[s], m)
           w == [wpa EXCEPT ![s] = x]
<1>1. /\ wpa \in [Stations -> StaInfo] /\ gbl \in GlobalInfo /\ drv' = drv
      /\ up[s] \in Seq(Frames) /\ up[s] # <<>> /\ drv[s].asoc
  BY DEF IInv, TypeOK, RecvMsg2, Receives
<1>2. m \in Frames /\ Honest(s, m)
  <2>1. 1 \in 1 .. Len(up[s]) /\ m = up[s][1]
    BY <1>1
  <2> QED BY <1>1, <2>1 DEF IInv, FlightInv
<1>3. ProvesPSK(wpa[s], m) /\ IsMsg2(wpa[s], m)
  BY DEF RecvMsg2
<1>4. KnowsPassphrase(s) /\ m.key.psk = Passphrase[s] /\ m.key.n = wpa[s].ANonce
  BY <1>2, <1>3 DEF ProvesPSK, Honest, KnowsPassphrase
<1> HIDE DEF m
<1>5. x \in StaInfo
  BY <1>1, <1>2, ProvedType
<1>6. /\ x.state = "PTKINITNEGOTIATING" /\ x.PTK = m.key /\ x.ANonce = wpa[s].ANonce
      /\ x.isGuest = (wpa[s].isGuest \/ m.key.psk = "guest") /\ x.wpa2 = wpa[s].wpa2
  BY <1>1 DEF Proved, StopTimer, StaInfo
<1> HIDE DEF x
<1>7. w \in [Stations -> StaInfo] /\ w[s] = x /\ \A t \in Stations : t # s => w[t] = wpa[t]
  BY <1>1, <1>5
<1>8. PICK F : IF wpa[s].wpa2 THEN UpdateGK(gbl, FALSE, w, {s}, F)
               ELSE Transmit(w, down, {s}, gbl.GTK, F) /\ UNCHANGED gbl
  BY DEF RecvMsg2, x, m
<1> HIDE DEF w
<1>9. /\ \A t \in Stations : Quiet(w[t], wpa'[t])
      /\ wpa[s].wpa2 => ~gbl'.GInitAKeys
  BY <1>1, <1>7, <1>8, TransmitQuiet, UpdateGKQuiet
<1>10. /\ wpa'[s].state = "PTKINITNEGOTIATING" /\ wpa'[s].PTK = m.key
       /\ wpa'[s].ANonce = wpa[s].ANonce /\ wpa'[s].wpa2 = wpa[s].wpa2
       /\ wpa'[s].isGuest = (wpa[s].isGuest \/ m.key.psk = "guest")
  BY <1>6, <1>7, <1>9 DEF Quiet
<1>11. /\ PairwiseInv(s) /\ PortInv(s) /\ NonceInv(s)
       /\ wpa[s].state \in {"PTKSTART", "PTKINITNEGOTIATING"}
  BY <1>3 DEF IInv, SlotInv, IsMsg2
<1>12. PairwiseInv(s)' /\ InitKeyInv(s)'
  BY <1>4, <1>9, <1>10, <1>11 DEF PairwiseInv, InitKeyInv, KnowsPassphrase
<1>13. PortInv(s)' /\ NonceInv(s)'
  BY <1>1, <1>4, <1>10, <1>11 DEF PortInv, NonceInv, KnowsPassphrase, IInv, TypeOK, StaInfo,
                                 DriverInfo, Keys
<1>14. Still(s) \/ Proves(s)
  BY <1>1, <1>4, <1>10, <1>11 DEF Still, Proves, Phase
<1> QED BY <1>1, <1>7, <1>9, <1>12, <1>13, <1>14, OtherSlots DEF SlotInv

LEMMA MovesMsg4 ==
  ASSUME IInv, Next, NEW s \in Stations, RecvMsg4WPA2(s) \/ RecvMsg4WPA(s)
  PROVE  MovesOnly(s)
<1> DEFINE x == Confirmed(wpa[s])
           w == [wpa EXCEPT ![s] = x]
           d == Opened(wpa[s], drv[s])
<1>1. /\ wpa \in [Stations -> StaInfo] /\ gbl \in GlobalInfo
      /\ drv \in [Stations -> DriverInfo]
      /\ drv' = [drv EXCEPT ![s] = d]
      /\ wpa[s].state = "PTKINITNEGOTIATING" /\ drv[s].asoc
  BY DEF IInv, TypeOK, RecvMsg4WPA2, RecvMsg4WPA, Receives, IsMsg4
<1>2. x \in StaInfo
  BY <1>1, ConfirmedType
<1>3. /\ x.state = "PTKINITDONE" /\ x.PTK = wpa[s].PTK /\ x.ANonce = wpa[s].ANonce
      /\ x.isGuest = wpa[s].isGuest /\ x.wpa2 = wpa[s].wpa2
  BY <1>1 DEF Confirmed, StopTimer, StaInfo
<1>4. /\ d.asoc = drv[s].asoc /\ d.ptk = wpa[s].PTK /\ d.sets = drv[s].sets + 1
      /\ d.port = IF wpa[s].isGuest THEN "Guest" ELSE "Authorized"
  BY <1>1 DEF Opened, DriverInfo
<1>5. w \in [Stations -> StaInfo] /\ w[s] = x /\ \A t \in Stations : t # s => w[t] = wpa[t]
  BY <1>1, <1>2
<1>6. drv'[s] = d /\ \A t \in Stations : t # s => drv'[t] = drv[t]
  BY <1>1
<1>7. /\ CountedOff \in GlobalInfo
      /\ wpa' = w \/ \E g \in {gbl, CountedOff} : \E F : UpdateGK(g, FALSE, w, {}, F)
  BY <1>1, CountType DEF RecvMsg4WPA2, RecvMsg4WPA, IInv
<1> HIDE DEF x, w, d
<1>8. \A t \in Stations : Quiet(w[t], wpa'[t])
  <2>1. CASE wpa' = w
    BY <1>5, <2>1, QuietOperators
  <2>2. ASSUME NEW g \in {gbl, CountedOff}, NEW F, UpdateGK(g, FALSE, w, {}, F)
        PROVE  \A t \in Stations : Quiet(w[t], wpa'[t])
    BY <1>1, <1>5, <1>7, <2>2, UpdateGKQuiet
  <2> QED BY <1>7, <2>1, <2>2
<1>9. /\ wpa'[s].state = "PTKINITDONE" /\ wpa'[s].PTK = wpa[s].PTK
      /\ wpa'[s].ANonce = wpa[s].ANonce /\ wpa'[s].isGuest = wpa[s].isGuest
  BY <1>3, <1>5, <1>8 DEF Quiet
<1>10. PairwiseInv(s) /\ PortInv(s) /\ NonceInv(s)
  BY DEF IInv, SlotInv
<1>11. PairwiseInv(s)' /\ InitKeyInv(s)'
  BY <1>1, <1>9, <1>10 DEF PairwiseInv, InitKeyInv, KnowsPassphrase
<1>12. wpa[s].ANonce \in Nat /\ drv[s].ptk.n \in Nat /\ wpa[s].isGuest \in BOOLEAN
  BY <1>1 DEF StaInfo, DriverInfo, Keys
<1>13. PortInv(s)' /\ NonceInv(s)'
  BY <1>1, <1>4, <1>6, <1>9, <1>10, <1>12 DEF PortInv, NonceInv, PairwiseInv, KnowsPassphrase
<1>14. Secures(s)
  BY <1>1, <1>4, <1>6, <1>9, <1>10, <1>12 DEF Secures, Phase, PairwiseInv, NonceInv
<1> QED BY <1>5, <1>6, <1>8, <1>11, <1>13, <1>14, OtherSlots DEF SlotInv

LEMMA MovesRequest ==
  ASSUME IInv, Next, NEW s \in Stations, RecvPairwiseRequest(s)
  PROVE  MovesOnly(s)
<1> DEFINE x == Restarted(wpa[s])
           w == [wpa EXCEPT ![s] = x]
<1>1. /\ wpa \in [Stations -> StaInfo] /\ gbl \in GlobalInfo
      /\ drv \in [Stations -> DriverInfo] /\ drv' = drv
      /\ wpa[s].state = "PTKINITDONE" /\ drv[s].asoc
  BY DEF IInv, TypeOK, RecvPairwiseRequest, Receives
<1>2. x \in StaInfo
  BY <1>1, RestartedType
<1>3. /\ x.state = "PTKSTART" /\ x.PTK = wpa[s].PTK /\ x.ANonce = wpa[s].ANonce
      /\ x.isGuest = wpa[s].isGuest /\ x.wpa2 = wpa[s].wpa2
  BY <1>1 DEF Restarted, StopTimer, StaInfo
<1>4. w \in [Stations -> StaInfo] /\ w[s] = x /\ \A t \in Stations : t # s => w[t] = wpa[t]
  BY <1>1, <1>2
<1>5. PICK F : UpdateGK(gbl, FALSE, w, {s}, F)
  BY DEF RecvPairwiseRequest
<1> HIDE DEF x, w
<1>6. /\ \A t \in Stations : Quiet(w[t], wpa'[t])
      /\ wpa'[s].ANonce = wpa[s].ANonce + 1
  BY <1>1, <1>3, <1>4, <1>5, UpdateGKQuiet
<1>7. wpa'[s].state = "PTKSTART" /\ wpa'[s].isGuest = wpa[s].isGuest
  BY <1>3, <1>4, <1>6 DEF Quiet
<1>8. wpa[s].ANonce \in Nat /\ drv[s].ptk.n \in Nat
  BY <1>1 DEF StaInfo, DriverInfo, Keys
<1>9. SlotInv(s)'
  BY <1>1, <1>6, <1>7, <1>8
     DEF IInv, SlotInv, PairwiseInv, PortInv, NonceInv, InitKeyInv, KnowsPassphrase
<1>10. Still(s)
  BY <1>1, <1>7 DEF Still, Phase
<1> QED BY <1>1, <1>4, <1>6, <1>9, <1>10, OtherSlots

LEMMA MovesPairwise ==
  ASSUME IInv, Next, NEW s \in Stations, RecvPairwise(s)
  PROVE  MovesOnly(s) \/ NobodyMoves
<1>1. wpa \in [Stations -> StaInfo]
  BY DEF IInv, TypeOK
<1>2. CASE RecvBadMsg2(s) \/ RecvBadMsg4(s)
  BY <1>2, MovesMicFailure DEF RecvBadMsg2, RecvBadMsg4
<1>3. CASE IgnoreMsg2(s) \/ RecvPairwiseDone(s)
  <2>1. drv' = drv /\ \A t \in Stations : wpa'[t] = wpa[t] \/ wpa'[t] = StopTimer(wpa[t])
    BY <1>1, <1>3 DEF IgnoreMsg2, RecvPairwiseDone
  <2>2. \A t \in Stations : Quiet(wpa[t], wpa'[t])
    BY <1>1, <2>1, QuietOperators
  <2> QED BY <2>1, <2>2, QuietStep
<1> QED BY <1>2, <1>3, MovesMsg2, MovesMsg4, MovesRequest DEF RecvPairwise

-----------------------------------------------------------------------------
(* Group frames, timers and the environment.                               *)

LEMMA MovesGroup ==
  ASSUME IInv, Next, NEW s \in Stations, RecvGroup(s) \/ RecvBadGroup(s)
  PROVE  MovesOnly(s) \/ NobodyMoves
<1>1. wpa \in [Stations -> StaInfo]
  BY DEF IInv, TypeOK
<1>2. CASE Receives(s) /\ MicFailure(s)
  BY <1>2, MovesMicFailure
<1>3. CASE ~(Receives(s) /\ MicFailure(s))
  <2>1. /\ drv' = drv
        /\ \A t \in Stations :
             \/ wpa'[t] = wpa[t] \/ wpa'[t] = StopTimer(wpa[t])
             \/ wpa'[t] = [StopTimer(wpa[t]) EXCEPT !.gstate = "REKEYESTABLISHED"]
    BY <1>1, <1>3 DEF RecvGroup, RecvBadGroup
  <2>2. \A t \in Stations : Quiet(wpa[t], wpa'[t])
    BY <1>1, <2>1, QuietOperators
  <2> QED BY <2>1, <2>2, QuietStep
<1> QED BY <1>2, <1>3

LEMMA MovesTimer ==
  ASSUME IInv, Next, NEW s \in Stations, Timer(s)
  PROVE  MovesOnly(s) \/ NobodyMoves
<1>1. wpa \in [Stations -> StaInfo]
  BY DEF IInv, TypeOK
<1>2. CASE ResendTimerFires(s)
  <2>1. drv' = drv /\ \A t \in Stations : wpa'[t] = wpa[t] \/ wpa'[t] = Expired(wpa[t])
    BY <1>1, <1>2 DEF ResendTimerFires
  <2>2. \A t \in Stations : Quiet(wpa[t], wpa'[t])
    BY <1>1, <2>1, QuietOperators
  <2> QED BY <2>1, <2>2, QuietStep
<1>3. CASE ResendFrame(s)
  <2>1. /\ drv' = drv
        /\ \A t \in Stations :
             wpa'[t] = wpa[t] \/ \E b \in BOOLEAN : wpa'[t] = Resent(wpa[t], b)
    BY <1>1, <1>3 DEF ResendFrame
  <2>2. \A t \in Stations : Quiet(wpa[t], wpa'[t])
    BY <1>1, <2>1, QuietOperators
  <2> QED BY <2>1, <2>2, QuietStep
<1>4. CASE ResendGiveUp(s)
  <2> DEFINE x == StopTimer(wpa[s])
  <2>1. x \in StaInfo /\ Quiet(wpa[s], x)
    BY <1>1, StopTimerType, QuietOperators
  <2>2. (Release(s, x) /\ drv[s].asoc) \/ (wpa' = wpa /\ drv' = drv)
    BY <1>4 DEF ResendGiveUp
  <2> HIDE DEF x
  <2>3. CASE Release(s, x) /\ drv[s].asoc
    BY <2>1, <2>3, ReleaseMoves DEF Quiet
  <2>4. CASE wpa' = wpa /\ drv' = drv
    BY <1>1, <2>4, QuietStep, QuietOperators
  <2> QED BY <2>2, <2>3, <2>4
<1> QED BY <1>2, <1>3, <1>4 DEF Timer

LEMMA MovesRekey ==
  ASSUME IInv, Next, GKRekeyTimeout
  PROVE  NobodyMoves
<1>1. PICK F : UpdateGK(gbl, TRUE, wpa, {}, F)
  BY DEF GKRekeyTimeout
<1>2. wpa \in [Stations -> StaInfo] /\ gbl \in GlobalInfo /\ drv' = drv
  BY DEF IInv, TypeOK, GKRekeyTimeout
<1> QED BY <1>1, <1>2, UpdateGKQuiet, QuietStep

LEMMA MovesEnvironment ==
  ASSUME IInv, Next, NEW s \in Stations, Supplicant(s) \/ Channel(s)
  PROVE  NobodyMoves
<1>1. wpa' = wpa /\ drv' = drv
  BY DEF Supplicant, Channel, SupMsg1, SupMsg3, SupGroup, SupAnswers, SupDiscard,
         SupDuplicate, SupRequest, LoseDown, LoseUp, Overtake, apVars
<1>2. wpa \in [Stations -> StaInfo]
  BY DEF IInv, TypeOK
<1> QED BY <1>1, <1>2, QuietStep, QuietOperators

LEMMA MovesStep ==
  ASSUME IInv, Next
  PROVE  NobodyMoves \/ \E s \in Stations : MovesOnly(s)
BY MovesRekey, MovesMembership, MovesPairwise, MovesGroup, MovesTimer, MovesEnvironment
   DEF Next

-----------------------------------------------------------------------------
(* Frames in flight.                                                       *)

LEMMA FlightSame ==
  ASSUME NEW s \in Stations, FlightInv(s), up'[s] = up[s], sup'[s] = sup[s]
  PROVE  FlightInv(s)'
BY DEF FlightInv, Honest

\* What the access point does with the channels.
LEMMA FlightAccessPoint ==
  ASSUME IInv, NEW s \in Stations,
         Membership(s) \/ RecvPairwise(s) \/ RecvGroup(s) \/ RecvBadGroup(s) \/ Timer(s)
  PROVE  \A t \in Stations : FlightInv(t)'
<1>1. up \in [Stations -> Seq(Frames)] /\ sup \in [Stations -> SupInfo]
  BY DEF IInv, TypeOK
<1>2. \/ Receives(s) /\ Consumed(s) /\ sup' = sup
      \/ up' = [up EXCEPT ![s] = <<>>] /\ sup' = [sup EXCEPT ![s] = NewSup]
      \/ up' = up /\ sup' = sup
  <2>1. CASE Membership(s)
    BY <2>1 DEF Membership, Associate, Disassociate, Deauthenticate, Release
  <2>2. CASE RecvPairwise(s)
    BY <2>2 DEF RecvPairwise, RecvMsg2, RecvBadMsg2, IgnoreMsg2, RecvMsg4WPA2, RecvMsg4WPA,
                RecvBadMsg4, RecvPairwiseDone, RecvPairwiseRequest, MicFailure, Release
  <2>3. CASE RecvGroup(s) \/ RecvBadGroup(s)
    BY <2>3 DEF RecvGroup, RecvBadGroup, MicFailure, Release
  <2>4. CASE Timer(s)
    BY <2>4 DEF Timer, ResendTimerFires, ResendFrame, ResendGiveUp, Release
  <2> QED BY <2>1, <2>2, <2>3, <2>4
<1>3. ASSUME NEW t \in Stations, t # s
      PROVE  FlightInv(t)'
  <2>1. up'[t] = up[t] /\ sup'[t] = sup[t]
    BY <1>1, <1>2, <1>3 DEF Consumed
  <2> QED BY <2>1, FlightSame DEF IInv
<1>4. FlightInv(s)'
  <2>1. CASE Receives(s) /\ Consumed(s) /\ sup' = sup
    BY <1>1, <2>1, FlightConsumed DEF Consumed, IInv
  <2>2. CASE up' = [up EXCEPT ![s] = <<>>] /\ sup' = [sup EXCEPT ![s] = NewSup]
    BY <1>1, <2>2, FlightReleased
  <2>3. CASE up' = up /\ sup' = sup
    BY <2>3, FlightSame DEF IInv
  <2> QED BY <1>2, <2>1, <2>2, <2>3
<1> QED BY <1>3, <1>4

\* What the stations and the air do with them.
LEMMA FlightEnvironment ==
  ASSUME IInv, NEW s \in Stations, Supplicant(s) \/ Channel(s)
  PROVE  \A t \in Stations : FlightInv(t)'
<1>1. up \in [Stations -> Seq(Frames)] /\ sup \in [Stations -> SupInfo]
  BY DEF IInv, TypeOK
<1>2. \A t \in Stations : t # s => up'[t] = up[t] /\ sup'[t] = sup[t]
  BY <1>1 DEF Supplicant, Channel, SupMsg1, SupMsg3, SupGroup, SupAnswers, SupDiscard,
              SupDuplicate, SupRequest, LoseDown, LoseUp, Overtake
<1>3. FlightInv(s) /\ HonestUp(s, up[s])
  BY DEF IInv, FlightInv, HonestUp
<1>4. ASSUME sup'[s] = sup[s], HonestUp(s, up'[s])
      PROVE  FlightInv(s)'
  BY <1>3, <1>4 DEF FlightInv, HonestUp, Honest
<1>5. FlightInv(s)'
  <2>1. CASE SupMsg1(s) \/ SupMsg3(s) \/ SupGroup(s)
    BY <1>3, <2>1, AnswerFrames, FlightAnswered DEF Honest, IInv
  <2>2. CASE SupDiscard(s) \/ LoseDown(s)
    <3>1. up' = up /\ sup' = sup
      BY <2>2 DEF SupDiscard, LoseDown
    <3> QED BY <1>3, <3>1, FlightSame
  <2>3. CASE SupDuplicate(s)
    <3>1. sup[s].last \in Frames /\ Honest(s, sup[s].last)
      BY <1>1, <1>3 DEF SupInfo, FlightInv
    <3>2. up'[s] = Append(up[s], sup[s].last) /\ sup' = sup
      BY <1>1, <2>3 DEF SupDuplicate
    <3> QED BY <1>1, <1>3, <1>4, <3>1, <3>2, HonestAppend
  <2>4. CASE SupRequest(s)
    <3>1. PICK step \in {"pairwise-request", "group-request"} :
            up' = [up EXCEPT ![s] = Append(@, [step |-> step, rc |-> 0,
                                               key |-> sup[s].ptk, gtk |-> 0])]
      BY <2>4 DEF SupRequest
    <3> DEFINE r == [step |-> step, rc |-> 0, key |-> sup[s].ptk, gtk |-> 0]
    <3>2. r \in Frames /\ Honest(s, r)
      BY <1>1 DEF SupInfo, Frames, Steps, Honest
    <3>3. up'[s] = Append(up[s], r) /\ sup' = sup
      BY <1>1, <2>4, <3>1 DEF SupRequest
    <3> HIDE DEF r
    <3> QED BY <1>1, <1>3, <1>4, <3>2, <3>3, HonestAppend
  <2>5. CASE LoseUp(s)
    <3>1. up'[s] = Tail(up[s]) /\ up[s] # <<>> /\ sup' = sup
      BY <1>1, <2>5 DEF LoseUp
    <3> QED BY <1>1, <1>3, <1>4, <3>1, HonestTail
  <2>6. CASE Overtake(s)
    <3>1. /\ up'[s] = <<up[s][2], up[s][1]>> \o SubSeq(up[s], 3, Len(up[s]))
          /\ Len(up[s]) > 1 /\ sup' = sup
      BY <1>1, <2>6 DEF Overtake
    <3> QED BY <1>1, <1>3, <1>4, <3>1, HonestOvertaken
  <2> QED BY <2>1, <2>2, <2>3, <2>4, <2>5, <2>6 DEF Supplicant, Channel
<1>6. ASSUME NEW t \in Stations, t # s
      PROVE  FlightInv(t)'
  BY <1>2, <1>6, FlightSame DEF IInv
<1> QED BY <1>5, <1>6

LEMMA FlightStep ==
  ASSUME IInv, Next
  PROVE  \A t \in Stations : FlightInv(t)'
<1>1. CASE GKRekeyTimeout
  <2>1. up' = up /\ sup' = sup
    BY <1>1 DEF GKRekeyTimeout
  <2> QED BY <2>1, FlightSame DEF IInv
<1> QED BY <1>1, FlightAccessPoint, FlightEnvironment DEF Next

-----------------------------------------------------------------------------
(* The inductive invariant, and what follows from it.                      *)

LEMMA IInvInit == Init => IInv
<1> SUFFICES ASSUME Init PROVE IInv
  OBVIOUS
<1>1. TypeOK
  BY TypeInit
<1>2. ASSUME NEW s \in Stations
      PROVE  SlotInv(s) /\ FlightInv(s)
  <2>1. wpa[s] = ResetSta /\ drv[s] = Absent /\ sup[s] = NewSup /\ up[s] = <<>>
    BY DEF Init
  <2>2. SlotInv(s)
    BY <2>1 DEF SlotInv, PairwiseInv, PortInv, NonceInv, InitKeyInv, ResetSta, Absent
  <2>3. FlightInv(s)
    BY <2>1 DEF FlightInv, NewSup, NoFrame, Honest
  <2> QED BY <2>2, <2>3
<1> QED BY <1>1, <1>2 DEF IInv

LEMMA IInvStep == IInv /\ [Next]_vars => IInv'
<1> SUFFICES ASSUME IInv, [Next]_vars PROVE IInv'
  OBVIOUS
<1>1. TypeOK'
  BY TypeStep DEF IInv
<1>2. CASE Next
  <2>1. \A t \in Stations : SlotInv(t)'
    BY <1>2, MovesStep DEF NobodyMoves, MovesOnly
  <2>2. \A t \in Stations : FlightInv(t)'
    BY <1>2, FlightStep
  <2> QED BY <1>1, <2>1, <2>2 DEF IInv
<1>3. CASE UNCHANGED vars
  <2>1. \A t \in Stations : SlotInv(t)'
    BY <1>3 DEF vars, IInv, SlotInv, PairwiseInv, PortInv, NonceInv, InitKeyInv,
                KnowsPassphrase
  <2>2. \A t \in Stations : FlightInv(t)'
    BY <1>3, FlightSame DEF vars, IInv
  <2> QED BY <1>1, <2>1, <2>2 DEF IInv
<1> QED BY <1>2, <1>3

\* What is inductive about passphrases, nonces and frames in flight.
THEOREM IInvAlways == Spec => []IInv
<1> QED BY IInvInit, IInvStep, PTL DEF Spec

LEMMA PortFromInvariant == IInv => PortImpliesProof
<1> SUFFICES ASSUME IInv, NEW s \in Stations, drv[s].port # "Unauthorized"
             PROVE  /\ Passphrase[s] = IF drv[s].port = "Guest" THEN "guest" ELSE "main"
                    /\ drv[s].port = "Guest" => GuestPSK
                    /\ drv[s].ptk.psk = Passphrase[s]
  BY DEF PortImpliesProof
<1> QED BY DEF IInv, SlotInv, PortInv, KnowsPassphrase

\* However frames are lost, repeated, overtaken or answered too late, a port
\* is open only for a station that has proved the passphrase it is open for
\* (EAPOLKeyRecvd: the two CheckMIC of message 2, isGuest, ToDrv_SetPort).
THEOREM PortSound == Spec => []PortImpliesProof
<1> QED BY IInvAlways, PortFromInvariant, PTL

-----------------------------------------------------------------------------
(* The refinement.  Stations: MovesStep in the variables of KeyAgreement.  *)

LEMMA StationsImplement ==
  ASSUME IInv, Next
  PROVE  KA!StationStep \/ UNCHANGED KA!station
<1> DEFINE p == [t \in Stations |-> Phase(t)]
           n == [t \in Stations |-> drv[t].ptk.n]
           i == [t \in Stations |-> drv[t].sets]
<1>1. CASE NobodyMoves
  <2>1. \A t \in Stations : Phase(t)' = Phase(t) /\ drv'[t] = drv[t]
    BY <1>1 DEF NobodyMoves, Still
  <2> QED BY <2>1 DEF KA!station
<1>2. ASSUME NEW s \in Stations, MovesOnly(s)
      PROVE  KA!StationStep \/ UNCHANGED KA!station
  <2>1. \A t \in Stations : t # s => Phase(t)' = Phase(t) /\ drv'[t] = drv[t]
    BY <1>2 DEF MovesOnly, Still
  <2>2. /\ p' = [p EXCEPT ![s] = Phase(s)']
        /\ n' = [n EXCEPT ![s] = drv'[s].ptk.n]
        /\ i' = [i EXCEPT ![s] = drv'[s].sets]
    BY <2>1
  <2>3. /\ p[s] = Phase(s) /\ n[s] = drv[s].ptk.n /\ i[s] = drv[s].sets
        /\ p'[s] = Phase(s)' /\ n'[s] = drv'[s].ptk.n
    OBVIOUS
  <2>4. CASE Still(s)
    <3>1. \A t \in Stations : Phase(t)' = Phase(t) /\ drv'[t] = drv[t]
      BY <2>1, <2>4 DEF Still
    <3> QED BY <3>1 DEF KA!station
  <2>5. CASE Joins(s)
    <3>1. KA!Join(s)
      BY <2>2, <2>5 DEF KA!Join, KA!Move, Joins
    <3> QED BY <3>1 DEF KA!StationStep
  <2>6. CASE Leaves(s)
    <3>1. KA!Leave(s)
      BY <2>2, <2>3, <2>6 DEF KA!Leave, KA!Move, Leaves
    <3> QED BY <3>1 DEF KA!StationStep
  <2>7. CASE Proves(s)
    <3>1. KA!Prove(s)
      BY <2>2, <2>3, <2>7 DEF KA!Prove, KA!Move, Proves
    <3> QED BY <3>1 DEF KA!StationStep
  <2>8. CASE Secures(s)
    <3>1. KA!Secure(s)
      BY <2>2, <2>3, <2>8 DEF KA!Secure, KA!Move, Secures
    <3> QED BY <3>1 DEF KA!StationStep
  <2> QED BY <1>2, <2>4, <2>5, <2>6, <2>7, <2>8 DEF MovesOnly
<1> QED BY <1>1, <1>2, MovesStep

\* The first group key exists when a WPA2 station is counted off, so that an
\* insecure message 4 never generates one.
LEMMA NeverBoth ==
  ASSUME IInv
  PROVE  ~CountsAndGenerates
<1>1. gbl \in GlobalInfo
  BY DEF IInv, TypeOK
<1>2. CountedOff.GInitAKeys = gbl.GInitAKeys
  BY <1>1 DEF CountedOff, GlobalInfo
<1> QED BY <1>2 DEF CountsAndGenerates, IInv, SlotInv, InitKeyInv

LEMMA GroupImplements ==
  ASSUME IInv, Next
  PROVE  KA!Generate \/ KA!Use \/ UNCHANGED KA!group
<1>1. gbl \in GlobalInfo
  BY DEF IInv, TypeOK
<1>2. CASE UNCHANGED <<gbl, drvGTK>>
  BY <1>2 DEF KA!group
<1>3. CASE Generates
  <2>1. PICK w : gbl' = NewGTK(w, gbl)
    BY <1>3 DEF Generates
  <2>2. gbl'.GTK = gbl.GTK + 1
    BY <1>1, <2>1 DEF NewGTK, GlobalInfo
  <2> QED BY <1>3, <2>2 DEF Generates, KA!Generate
<1>4. CASE CountGroupDone
  <2>1. gbl'.GTK = gbl.GTK
    BY <1>1, <1>4 DEF CountGroupDone, CountedOff, GlobalInfo
  <2> QED BY <1>4, <2>1 DEF CountGroupDone, SetGTKWhenDone, KA!Use, KA!group
<1> QED BY <1>2, <1>3, <1>4, GroupStep, NeverBoth

LEMMA AgreementInit == Init => KA!Init
<1> SUFFICES ASSUME Init PROVE KA!Init
  OBVIOUS
<1>1. \A s \in Stations : drv[s] = Absent
  BY DEF Init
<1>2. \A s \in Stations : Phase(s) = "out" /\ drv[s].ptk.n = 0 /\ drv[s].sets = 0
  BY <1>1 DEF Phase, Absent, NoKey
<1>3. gbl.GTK = 0 /\ drvGTK = 0
  BY DEF Init
<1> QED BY <1>2, <1>3 DEF KA!Init

LEMMA AgreementStep ==
  IInv /\ [Next]_vars =>
    [KA!Next]_<<[s \in Stations |-> Phase(s)], [s \in Stations |-> drv[s].ptk.n],
               [s \in Stations |-> drv[s].sets], gbl.GTK, drvGTK>>
<1> SUFFICES ASSUME IInv, [Next]_vars
             PROVE  KA!Next \/ UNCHANGED <<[s \in Stations |-> Phase(s)],
                                          [s \in Stations |-> drv[s].ptk.n],
                                          [s \in Stations |-> drv[s].sets],
                                          gbl.GTK, drvGTK>>
  OBVIOUS
<1>1. CASE Next
  BY <1>1, StationsImplement, GroupImplements DEF KA!Next
<1>2. CASE UNCHANGED vars
  BY <1>2 DEF vars, Phase
<1> QED BY <1>1, <1>2

\* The authenticator implements KeyAgreement: proof before keys, only newer
\* keys, the newest group key or none newer, and never a key that is in use
\* set again (EAPOLKeyRecvd, UpdateGK, ResendTimeout and what they command).
THEOREM Refinement == Spec => Agreement
<1> QED BY AgreementInit, AgreementStep, IInvAlways, PTL DEF Spec, Agreement, KA!Spec
=============================================================================
