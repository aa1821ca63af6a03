----------------------- MODULE PskAuthenticator_proofs -----------------------
(***************************************************************************)
(* Theorems about PskAuthenticator, for all values of its constants.       *)
(***************************************************************************)
EXTENDS PskAuthenticator, FiniteSetTheorems, TLAPS

-----------------------------------------------------------------------------
(* The helpers keep to the types.                                          *)

LEMMA StopTimerType ==
  ASSUME NEW x \in StaInfo
  PROVE  StopTimer(x) \in StaInfo
BY DEF StopTimer, StaInfo

LEMMA ProvedType ==
  ASSUME NEW x \in StaInfo, NEW m \in Frames
  PROVE  Proved(x, m) \in StaInfo
<1> DEFINE y == StopTimer(x)
           b == y.isGuest \/ m.key.psk = "guest"
           k == m.key
           z == Proved(x, m)
<1>1. y \in StaInfo /\ b \in BOOLEAN /\ k \in Keys
  BY StopTimerType DEF Frames
<1>2. z = [y EXCEPT !.PTK = k, !.isGuest = b, !.resendCnt = 0,
                     !.state = "PTKINITNEGOTIATING"]
  BY DEF Proved
<1> HIDE DEF y, b, k, z
<1>3. z \in StaInfo
  BY <1>1, <1>2 DEF StaInfo
<1> QED BY <1>3 DEF z

LEMMA ConfirmedType ==
  ASSUME NEW x \in StaInfo
  PROVE  Confirmed(x) \in StaInfo
<1> DEFINE y == StopTimer(x)
           r == y.rc + 2
           b == y.PInitAKeys \/ ~x.wpa2
           g == IF x.wpa2 THEN "REKEYESTABLISHED" ELSE "REKEYNEGOTIATING"
<1>1. /\ y \in StaInfo /\ b \in BOOLEAN
      /\ g \in {"REKEYNEGOTIATING", "REKEYESTABLISHED"}
  BY StopTimerType
<1>2. r \in Nat
  BY <1>1 DEF StaInfo
<1>3. Confirmed(x) = [y EXCEPT !.rc = r, !.state = "PTKINITDONE", !.PInitAKeys = b,
                               !.gstate = g]
  BY DEF Confirmed
<1> HIDE DEF y, r, b, g
<1> QED BY <1>1, <1>2, <1>3 DEF StaInfo

LEMMA RestartedType ==
  ASSUME NEW x \in StaInfo
  PROVE  Restarted(x) \in StaInfo
<1>1. StopTimer(x) \in StaInfo
  BY StopTimerType
<1> QED BY <1>1 DEF Restarted, StaInfo

LEMMA ResetTypes ==
  /\ NoKey \in Keys /\ NoFrame \in Frames
  /\ ResetSta \in StaInfo /\ Absent \in DriverInfo /\ NewSup \in SupInfo
<1>1. NoKey \in Keys
  BY DEF NoKey, Keys
<1>2. NoFrame \in Frames
  BY <1>1 DEF NoFrame, Frames, Steps
<1> QED BY <1>1, <1>2 DEF ResetSta, Absent, NewSup, StaInfo, DriverInfo, SupInfo

LEMMA PreparedType ==
  ASSUME NEW x \in StaInfo
  PROVE  Prepared(x) \in StaInfo
<1>1. CASE x.state = "PTKSTART"
  <2>1. x.ANonce + 1 \in Nat /\ x.rc \in Nat
    BY DEF StaInfo
  <2>2. Prepared(x) = [x EXCEPT !.ANonce = x.ANonce + 1, !.started = x.rc]
    BY <1>1 DEF Prepared
  <2> QED BY <2>1, <2>2 DEF StaInfo
<1>2. CASE x.state # "PTKSTART"
  BY <1>2 DEF Prepared
<1> QED BY <1>1, <1>2

LEMMA FrameType ==
  ASSUME NEW x \in StaInfo, NEW gtk \in Nat
  PROVE  Frame(x, gtk) \in Frames
<1> USE DEF Frames, Steps, StaInfo
<1>1. CASE x.state = "PTKSTART"
  <2>1. [psk |-> "none", n |-> x.ANonce] \in Keys
    BY DEF Keys
  <2> QED BY <1>1, <2>1 DEF Frame
<1>2. CASE x.state = "PTKINITNEGOTIATING"
  BY <1>2 DEF Frame
<1>3. CASE x.state \notin {"PTKSTART", "PTKINITNEGOTIATING"}
  BY <1>3 DEF Frame
<1> QED BY <1>1, <1>2, <1>3

LEMMA SentType ==
  ASSUME NEW x \in StaInfo, NEW gtk \in Nat, NEW allocated \in BOOLEAN
  PROVE  Sent(x, gtk, allocated) \in StaInfo
<1> DEFINE y == Prepared(x)
<1>1. y \in StaInfo
  BY PreparedType
<1>2. Frame(y, gtk) \in Frames
  BY <1>1, FrameType
<1> DEFINE r == y.rc + (IF x.state = "PTKINITDONE" THEN 2 ELSE 1)
           b == y.resendTimer \/ allocated
<1>3. r \in Nat /\ b \in BOOLEAN
  BY <1>1 DEF StaInfo
<1>4. Sent(x, gtk, allocated) = [y EXCEPT !.rc = r, !.msg = Frame(y, gtk), !.resendTimer = b]
  BY DEF Sent
<1> HIDE DEF y, r, b
<1> QED BY <1>1, <1>2, <1>3, <1>4 DEF StaInfo

\* SendEAPOL keeps the tables and the channels well typed.
LEMMA TransmitType ==
  ASSUME NEW w \in [Stations -> StaInfo], NEW q \in [Stations -> Seq(Frames)],
         NEW to, NEW gtk \in Nat, NEW F, Transmit(w, q, to, gtk, F)
  PROVE  wpa' \in [Stations -> StaInfo] /\ down' \in [Stations -> Seq(Frames)]
<1>1. \A t \in Stations : Sent(w[t], gtk, t \notin F) \in StaInfo
  BY SentType
<1>2. \A t \in Stations : Frame(Prepared(w[t]), gtk) \in Frames
  BY FrameType, PreparedType
<1>3. \A t \in Stations : Append(q[t], Frame(Prepared(w[t]), gtk)) \in Seq(Frames)
  BY <1>2
<1> QED BY <1>1, <1>3 DEF Transmit

LEMMA NewGTKType ==
  ASSUME NEW w, NEW g \in GlobalInfo
  PROVE  NewGTK(w, g) \in GlobalInfo
<1> DEFINE D == {t \in Associated : w[t].state = "PTKINITDONE"}
           n == NewGTK(w, g)
<1>1. D \in SUBSET Stations
  BY DEF Associated
<1>2. Cardinality(D) \in Nat
  BY <1>1, StationsAssumption, FS_Subset, FS_CardinalityType
<1>3. g.GTK + 1 \in Nat
  BY DEF GlobalInfo
<1>4. n = [g EXCEPT !.GInitAKeys = FALSE, !.GkeyReady = FALSE, !.GTK = g.GTK + 1,
                     !.GKRekeyTimer = FALSE, !.GKeyDoneStations = Cardinality(D)]
  BY DEF NewGTK
<1> HIDE DEF D, n
<1>5. n \in GlobalInfo
  BY <1>2, <1>3, <1>4 DEF GlobalInfo
<1> QED BY <1>5 DEF n

LEMMA StartGroupType ==
  ASSUME NEW x \in StaInfo
  PROVE  StartGroupHandshake(x) \in StaInfo
BY DEF StartGroupHandshake, StaInfo

LEMMA UpdateGKType ==
  ASSUME TypeOK, NEW g0 \in GlobalInfo, NEW rekey, NEW w \in [Stations -> StaInfo],
         NEW also, NEW F, UpdateGK(g0, rekey, w, also, F)
  PROVE  /\ wpa' \in [Stations -> StaInfo] /\ gbl' \in GlobalInfo
         /\ down' \in [Stations -> Seq(Frames)]
<1> DEFINE fresh == rekey \/ g0.GInitAKeys
           g == IF fresh THEN NewGTK(w, g0) ELSE g0
           due == DueForGroupKey(w, g, fresh)
           w1 == [t \in Stations |-> IF t \in due THEN StartGroupHandshake(w[t]) ELSE w[t]]
<1>1. g \in GlobalInfo
  BY NewGTKType DEF TypeOK
<1>2. w1 \in [Stations -> StaInfo]
  BY StartGroupType
<1>3. g.GTK \in Nat /\ down \in [Stations -> Seq(Frames)]
  BY <1>1 DEF GlobalInfo, TypeOK
<1>4. gbl' = g /\ Transmit(w1, down, due \cup also, g.GTK, F)
  BY DEF UpdateGK
<1> HIDE DEF g, w1, due
<1> QED BY <1>1, <1>2, <1>3, <1>4, TransmitType

LEMMA CountType ==
  ASSUME TypeOK
  PROVE  CountedOff \in GlobalInfo /\ (SetGTKWhenDone => drvGTK' \in Nat)
<1>1. gbl \in GlobalInfo /\ gbl.GTK \in Nat /\ drvGTK \in Nat
  BY DEF TypeOK, GlobalInfo
<1>2. GroupCount \in Nat /\ GroupDone \in BOOLEAN
  BY <1>1 DEF GroupCount, GroupDone, GlobalInfo
<1>3. /\ (gbl.GkeyReady \/ GroupDone) \in BOOLEAN
      /\ (gbl.GKRekeyTimer \/ (GroupDone /\ GKRekeyTime)) \in BOOLEAN
  OBVIOUS
<1>4. SetGTKWhenDone => drvGTK' \in Nat
  BY <1>1 DEF SetGTKWhenDone
<1>5. CountedOff \in GlobalInfo
  BY <1>1, <1>2, <1>3 DEF CountedOff, GlobalInfo
<1> QED BY <1>4, <1>5

LEMMA ReleaseType ==
  ASSUME TypeOK, NEW s \in Stations, NEW x \in StaInfo, Release(s, x)
  PROVE  /\ wpa' \in [Stations -> StaInfo] /\ drv' \in [Stations -> DriverInfo]
         /\ down' \in [Stations -> Seq(Frames)] /\ up' \in [Stations -> Seq(Frames)]
         /\ sup' \in [Stations -> SupInfo]
BY ResetTypes DEF TypeOK, Release

LEMMA SpendType ==
  ASSUME TypeOK, NEW k \in Kinds, Spend(k)
  PROVE  budget' \in [Kinds -> Nat]
BY DEF TypeOK, Spend

LEMMA ConsumedType ==
  ASSUME TypeOK, NEW s \in Stations, Receives(s), Consumed(s)
  PROVE  up' \in [Stations -> Seq(Frames)]
BY DEF TypeOK, Receives, Consumed

LEMMA HeadType ==
  ASSUME TypeOK, NEW s \in Stations
  PROVE  /\ Receives(s) => Head(up[s]) \in Frames
         /\ down[s] # <<>> => Head(down[s]) \in Frames
BY DEF TypeOK, Receives

\* A frame a supplicant answers with, and the key it derives, are well typed.
LEMMA ReplyType ==
  ASSUME NEW s \in Stations, NEW step \in Steps, NEW m \in Frames,
         NEW key \in Keys, NEW gtk \in Nat
  PROVE  Reply(s, step, m, key, gtk) \in Frames
BY DEF Reply, Frames

LEMMA AnswerType ==
  ASSUME TypeOK, NEW s \in Stations, NEW x \in SupInfo, NEW r \in Frames,
         down[s] # <<>>, SupAnswers(s, x, r)
  PROVE  TypeOK'
<1>1. [x EXCEPT !.last = r] \in SupInfo
  BY DEF SupInfo
<1>2. /\ sup' \in [Stations -> SupInfo]
      /\ down' \in [Stations -> Seq(Frames)]
      /\ up' \in [Stations -> Seq(Frames)]
  BY <1>1 DEF SupAnswers, TypeOK
<1> QED BY <1>2 DEF SupAnswers, TypeOK, apVars

-----------------------------------------------------------------------------
(* Type correctness.                                                       *)

LEMMA TypeInit == Init => TypeOK
<1> SUFFICES ASSUME Init PROVE TypeOK
  OBVIOUS
<1>1. gbl \in GlobalInfo
  BY DEF Init, GlobalInfo
<1> QED BY <1>1, ResetTypes, BudgetAssumption DEF Init, TypeOK

LEMMA TypeMembership ==
  ASSUME TypeOK, NEW s \in Stations, Membership(s)
  PROVE  TypeOK'
<1>1. CASE Associate(s)
  <2>0. RC_toggle' \in {0, 1}
    BY <1>1 DEF Associate, TypeOK
  <2>1. budget' \in [Kinds -> Nat]
    BY <1>1, SpendType DEF Associate, Kinds
  <2> DEFINE wpa2 == Security[s] = "WPA2"
             x == [ResetSta EXCEPT !.state = "PTKSTART", !.rc = RC_toggle', !.wpa2 = wpa2]
             w == [wpa EXCEPT ![s] = x]
             q == [down EXCEPT ![s] = <<>>]
  <2>2. x \in StaInfo
    <3>1. wpa2 \in BOOLEAN /\ RC_toggle' \in Nat
      BY <2>0
    <3> HIDE DEF wpa2
    <3> QED BY <3>1, ResetTypes DEF StaInfo
  <2>3. w \in [Stations -> StaInfo] /\ q \in [Stations -> Seq(Frames)] /\ gbl.GTK \in Nat
    BY <2>2 DEF TypeOK, GlobalInfo
  <2>4. PICK F : Transmit(w, q, {s}, gbl.GTK, F)
    BY <1>1 DEF Associate
  <2> HIDE DEF w, q
  <2>5. wpa' \in [Stations -> StaInfo] /\ down' \in [Stations -> Seq(Frames)]
    BY <2>3, <2>4, TransmitType
  <2>6. [Absent EXCEPT !.asoc = TRUE] \in DriverInfo
    BY ResetTypes DEF DriverInfo
  <2>7. /\ sup' \in [Stations -> SupInfo] /\ drv' \in [Stations -> DriverInfo]
        /\ up' \in [Stations -> Seq(Frames)]
    BY <1>1, <2>6, ResetTypes DEF Associate, TypeOK
  <2> QED BY <1>1, <2>0, <2>1, <2>5, <2>7 DEF Associate, TypeOK
<1>2. CASE Disassociate(s)
  BY <1>2, ReleaseType, SpendType, ResetTypes DEF Disassociate, TypeOK, Kinds
<1>3. CASE Deauthenticate(s)
  <2>1. StopTimer(wpa[s]) \in StaInfo
    BY StopTimerType DEF TypeOK
  <2> QED BY <1>3, <2>1, ReleaseType, SpendType DEF Deauthenticate, TypeOK, Kinds
<1> QED BY <1>1, <1>2, <1>3 DEF Membership

LEMMA MicFailureType ==
  ASSUME TypeOK, NEW s \in Stations, MicFailure(s)
  PROVE  TypeOK'
<1>1. [StopTimer(wpa[s]) EXCEPT !.state = "IDLE"] \in StaInfo
  <2>1. StopTimer(wpa[s]) \in StaInfo
    BY StopTimerType DEF TypeOK
  <2> QED BY <2>1 DEF StaInfo
<1> QED BY <1>1, ReleaseType DEF MicFailure, TypeOK

LEMMA TypeRecvPairwise ==
  ASSUME TypeOK, NEW s \in Stations, RecvPairwise(s)
  PROVE  TypeOK'
<1> DEFINE m == Head(up[s])
<1>1. m \in Frames /\ up' \in [Stations -> Seq(Frames)] /\ wpa[s] \in StaInfo
      /\ StopTimer(wpa[s]) \in StaInfo /\ gbl.GTK \in Nat
  <2>1. Receives(s) /\ (Consumed(s) \/ MicFailure(s))
    BY DEF RecvPairwise, RecvMsg2, RecvBadMsg2, IgnoreMsg2, RecvMsg4WPA2, RecvMsg4WPA,
           RecvBadMsg4, RecvPairwiseDone, RecvPairwiseRequest
  <2>2. up' \in [Stations -> Seq(Frames)]
    BY <2>1, ConsumedType, MicFailureType DEF TypeOK
  <2> QED BY <2>1, <2>2, HeadType, StopTimerType DEF TypeOK, GlobalInfo
<1>2. Opened(wpa[s], drv[s]) \in DriverInfo
  <2>1. wpa[s].PTK \in Keys /\ drv[s] \in DriverInfo /\ drv[s].sets + 1 \in Nat
    BY <1>1 DEF TypeOK, DriverInfo, StaInfo
  <2> QED BY <2>1 DEF Opened, DriverInfo
<1>3. CASE RecvMsg2(s)
  <2> DEFINE w == [wpa EXCEPT ![s] = Proved(wpa[s], m)]
  <2>2. w \in [Stations -> StaInfo]
    BY <1>1, ProvedType DEF TypeOK
  <2>3. PICK F : IF wpa[s].wpa2 THEN UpdateGK(gbl, FALSE, w, {s}, F)
                 ELSE Transmit(w, down, {s}, gbl.GTK, F) /\ UNCHANGED gbl
    BY <1>3 DEF RecvMsg2
  <2> HIDE DEF w
  <2>4. /\ wpa' \in [Stations -> StaInfo] /\ gbl' \in GlobalInfo
        /\ down' \in [Stations -> Seq(Frames)]
    BY <1>1, <2>2, <2>3, UpdateGKType, TransmitType DEF TypeOK
  <2> QED BY <1>1, <1>3, <2>4 DEF RecvMsg2, TypeOK
<1>4. CASE RecvBadMsg2(s) \/ RecvBadMsg4(s)
  BY <1>4, MicFailureType DEF RecvBadMsg2, RecvBadMsg4
<1>5. CASE IgnoreMsg2(s)
  BY <1>1, <1>5 DEF IgnoreMsg2, TypeOK
<1>6. CASE RecvMsg4WPA2(s)
  <2> DEFINE w == [wpa EXCEPT ![s] = Confirmed(wpa[s])]
  <2>1. w \in [Stations -> StaInfo] /\ gbl \in GlobalInfo
    BY <1>1, ConfirmedType DEF TypeOK
  <2>2. CountedOff \in GlobalInfo /\ drvGTK' \in Nat
    BY <1>6, CountType DEF RecvMsg4WPA2
  <2>3. \/ gbl' = CountedOff /\ wpa' = w /\ down' = down
        \/ \E F : UpdateGK(CountedOff, FALSE, w, {}, F)
    BY <1>6 DEF RecvMsg4WPA2
  <2> HIDE DEF w
  <2>4. /\ wpa' \in [Stations -> StaInfo] /\ gbl' \in GlobalInfo
        /\ down' \in [Stations -> Seq(Frames)]
    BY <2>1, <2>2, <2>3, UpdateGKType DEF TypeOK
  <2> QED BY <1>1, <1>2, <1>6, <2>2, <2>4 DEF RecvMsg4WPA2, TypeOK
<1>7. CASE RecvMsg4WPA(s)
  <2> DEFINE w == [wpa EXCEPT ![s] = Confirmed(wpa[s])]
  <2>1. w \in [Stations -> StaInfo]
    BY <1>1, ConfirmedType DEF TypeOK
  <2>2. PICK F : UpdateGK(gbl, FALSE, w, {}, F)
    BY <1>7 DEF RecvMsg4WPA
  <2> HIDE DEF w
  <2>3. gbl \in GlobalInfo
    BY DEF TypeOK
  <2>4. /\ wpa' \in [Stations -> StaInfo] /\ gbl' \in GlobalInfo
        /\ down' \in [Stations -> Seq(Frames)]
    BY <2>1, <2>2, <2>3, UpdateGKType
  <2> QED BY <1>1, <1>2, <1>7, <2>4 DEF RecvMsg4WPA, TypeOK
<1>8. CASE RecvPairwiseDone(s)
  BY <1>1, <1>8 DEF RecvPairwiseDone, TypeOK
<1>9. CASE RecvPairwiseRequest(s)
  <2> DEFINE w == [wpa EXCEPT ![s] = Restarted(wpa[s])]
  <2>1. w \in [Stations -> StaInfo]
    BY <1>1, RestartedType DEF TypeOK
  <2>2. PICK F : UpdateGK(gbl, FALSE, w, {s}, F)
    BY <1>9 DEF RecvPairwiseRequest
  <2> HIDE DEF w
  <2>3. gbl \in GlobalInfo
    BY DEF TypeOK
  <2>4. /\ wpa' \in [Stations -> StaInfo] /\ gbl' \in GlobalInfo
        /\ down' \in [Stations -> Seq(Frames)]
    BY <2>1, <2>2, <2>3, UpdateGKType
  <2> QED BY <1>1, <1>9, <2>4 DEF RecvPairwiseRequest, TypeOK
<1> QED BY <1>3, <1>4, <1>5, <1>6, <1>7, <1>8, <1>9 DEF RecvPairwise

LEMMA TypeRecvGroup ==
  ASSUME TypeOK, NEW s \in Stations, RecvGroup(s) \/ RecvBadGroup(s)
  PROVE  TypeOK'
<1>1. StopTimer(wpa[s]) \in StaInfo
  BY StopTimerType DEF TypeOK
<1>2. CASE RecvGroup(s)
  <2>1. [StopTimer(wpa[s]) EXCEPT !.gstate = "REKEYESTABLISHED"] \in StaInfo
    BY <1>1 DEF StaInfo
  <2>2. wpa' \in [Stations -> StaInfo]
    BY <1>2, <2>1 DEF RecvGroup, TypeOK
  <2> QED BY <1>2, <2>2, ConsumedType, CountType DEF RecvGroup, CountGroupDone, TypeOK
<1>3. CASE RecvBadGroup(s)
  <2>1. CASE Head(up[s]).rc > wpa[s].rc
    BY <1>1, <1>3, <2>1, ConsumedType DEF RecvBadGroup, TypeOK
  <2>2. CASE ~(Head(up[s]).rc > wpa[s].rc)
    BY <1>3, <2>2, MicFailureType DEF RecvBadGroup
  <2> QED BY <2>1, <2>2
<1> QED BY <1>2, <1>3

LEMMA ResentType ==
  ASSUME NEW x \in StaInfo, NEW allocated \in BOOLEAN
  PROVE  ResentFrame(x) \in Frames /\ Resent(x, allocated) \in StaInfo
<1> DEFINE k == IF x.msg.step = "4-1" THEN x.msg.key ELSE x.PTK
           b == x.resendTimer \/ allocated
           f == ResentFrame(x)
           r == x.rc + 1
           z == Resent(x, allocated)
<1>1. k \in Keys /\ x.rc \in Nat /\ r \in Nat /\ x.msg \in Frames /\ b \in BOOLEAN
  BY DEF StaInfo, Frames
<1>2. f = [x.msg EXCEPT !.rc = x.rc, !.key = k]
  BY DEF ResentFrame
<1> HIDE DEF k, f
<1>3. f \in Frames
  BY <1>1, <1>2 DEF Frames
<1>4. z = [x EXCEPT !.rc = r, !.resendTimer = b, !.msg = f]
  BY DEF Resent, f
<1> HIDE DEF b, r, z
<1>5. z \in StaInfo
  BY <1>1, <1>3, <1>4 DEF StaInfo
<1> QED BY <1>3, <1>5 DEF f, z

LEMMA TypeTimer ==
  ASSUME TypeOK, NEW s \in Stations, Timer(s)
  PROVE  TypeOK'
<1>1. StopTimer(wpa[s]) \in StaInfo /\ wpa[s] \in StaInfo
  BY StopTimerType DEF TypeOK
<1>2. CASE ResendTimerFires(s)
  <2>1. Expired(wpa[s]) \in StaInfo
    <3>1. StopTimer(wpa[s]).resendCnt + 1 \in Nat
      BY <1>1 DEF StaInfo
    <3> QED BY <1>1, <3>1 DEF Expired, StaInfo
  <2>3. wpa' \in [Stations -> StaInfo]
    BY <1>2, <2>1 DEF ResendTimerFires, TypeOK
  <2>5. late' \in [Stations -> {"no", "resend", "give-up"}]
    BY <1>2 DEF ResendTimerFires, TypeOK
  <2>4. budget' \in [Kinds -> Nat]
    BY <1>2, SpendType DEF ResendTimerFires, Kinds
  <2> QED BY <1>2, <2>3, <2>4, <2>5 DEF ResendTimerFires, TypeOK
<1>3. CASE ResendFrame(s)
  <2>1. late' \in [Stations -> {"no", "resend", "give-up"}]
    BY <1>3 DEF ResendFrame, TypeOK
  <2>2. CASE wpa[s].state = "IDLE"
    BY <1>3, <2>1, <2>2 DEF ResendFrame, TypeOK
  <2>3. CASE wpa[s].state # "IDLE"
    <3>1. PICK allocated \in BOOLEAN :
            /\ wpa' = [wpa EXCEPT ![s] = Resent(@, allocated)]
            /\ down' = IF allocated /\ drv[s].asoc
                       THEN [down EXCEPT ![s] = Append(@, ResentFrame(wpa[s]))]
                       ELSE down
      BY <1>3, <2>3 DEF ResendFrame
    <3>2. wpa' \in [Stations -> StaInfo] /\ down' \in [Stations -> Seq(Frames)]
      BY <1>1, <3>1, ResentType DEF TypeOK
    <3> QED BY <1>3, <2>1, <3>2 DEF ResendFrame, TypeOK
  <2> QED BY <2>2, <2>3
<1>4. CASE ResendGiveUp(s)
  <2>1. late' \in [Stations -> {"no", "resend", "give-up"}]
    BY <1>4 DEF ResendGiveUp, TypeOK
  <2>2. gbl' \in GlobalInfo /\ drvGTK' \in Nat
    BY <1>4, CountType DEF ResendGiveUp, CountGroupDone, TypeOK
  <2>3. /\ wpa' \in [Stations -> StaInfo] /\ drv' \in [Stations -> DriverInfo]
        /\ down' \in [Stations -> Seq(Frames)] /\ up' \in [Stations -> Seq(Frames)]
        /\ sup' \in [Stations -> SupInfo]
    BY <1>1, <1>4, ReleaseType DEF ResendGiveUp, TypeOK
  <2> QED BY <1>4, <2>1, <2>2, <2>3 DEF ResendGiveUp, TypeOK
<1> QED BY <1>2, <1>3, <1>4 DEF Timer

LEMMA TypeRekey ==
  ASSUME TypeOK, GKRekeyTimeout
  PROVE  TypeOK'
<1>1. PICK F : UpdateGK(gbl, TRUE, wpa, {}, F)
  BY DEF GKRekeyTimeout
<1>2. wpa \in [Stations -> StaInfo] /\ gbl \in GlobalInfo
  BY DEF TypeOK
<1>3. /\ wpa' \in [Stations -> StaInfo] /\ gbl' \in GlobalInfo
      /\ down' \in [Stations -> Seq(Frames)]
  BY <1>1, <1>2, UpdateGKType
<1>4. budget' \in [Kinds -> Nat]
  BY SpendType DEF GKRekeyTimeout, Kinds
<1> QED BY <1>3, <1>4 DEF GKRekeyTimeout, TypeOK

\* An answer is well typed, and a message 2 is computed with the passphrase of
\* its station.
LEMMA AnswerFrames ==
  ASSUME TypeOK, NEW s \in Stations, SupMsg1(s) \/ SupMsg3(s) \/ SupGroup(s)
  PROVE  /\ down[s] # <<>>
         /\ \E x \in SupInfo, r \in Frames :
              /\ SupAnswers(s, x, r)
              /\ r.step = "4-2" => r.key.psk = Passphrase[s]
<1> DEFINE m == Head(down[s])
<1>1. sup[s] \in SupInfo /\ down[s] # <<>> /\ m \in Frames
  BY HeadType DEF TypeOK, SupMsg1, SupMsg3, SupGroup, Fresh
<1>2. CASE SupMsg1(s)
  <2> DEFINE k == [psk |-> Passphrase[s], n |-> m.key.n]
             r == Reply(s, "4-2", m, k, 0)
             x == [sup[s] EXCEPT !.tptk = k]
  <2>1. k \in Keys /\ k.psk = Passphrase[s]
    BY <1>1, PassphraseAssumption DEF Keys, Frames
  <2>2. SupAnswers(s, x, r)
    BY <1>2 DEF SupMsg1
  <2> HIDE DEF k, m
  <2>3. x \in SupInfo
    BY <1>1, <2>1 DEF SupInfo
  <2>4. r \in Frames /\ r.key = k
    BY <1>1, <2>1, ReplyType DEF Steps, Reply
  <2> HIDE DEF x, r
  <2> QED BY <1>1, <2>1, <2>2, <2>3, <2>4
<1>3. CASE SupMsg3(s)
  <2> DEFINE x == [sup[s] EXCEPT !.ptk = m.key, !.keys = @ \union {m.key},
                                 !.rc = m.rc + 1,
                                 !.gtk = IF Security[s] = "WPA2" THEN m.gtk ELSE @]
             g == IF Security[s] = "WPA2" THEN m.gtk ELSE 0
             r == Reply(s, "4-4", m, m.key, g)
  <2>1. m.key \in Keys /\ m.rc + 1 \in Nat /\ m.gtk \in Nat /\ g \in Nat
    BY <1>1 DEF Frames
  <2>2. SupAnswers(s, x, r)
    BY <1>3 DEF SupMsg3
  <2> HIDE DEF g, m
  <2>3. x \in SupInfo
    BY <1>1, <2>1 DEF SupInfo
  <2>4. r \in Frames /\ r.step = "4-4"
    BY <1>1, <2>1, ReplyType DEF Steps, Reply
  <2> HIDE DEF x, r
  <2> QED BY <1>1, <2>2, <2>3, <2>4
<1>4. CASE SupGroup(s)
  <2> DEFINE x == [sup[s] EXCEPT !.gtk = m.gtk, !.rc = m.rc + 1]
             r == Reply(s, "2-2", m, m.key, m.gtk)
  <2>1. m.key \in Keys /\ m.rc + 1 \in Nat /\ m.gtk \in Nat
    BY <1>1 DEF Frames
  <2>2. SupAnswers(s, x, r)
    BY <1>4 DEF SupGroup
  <2> HIDE DEF m
  <2>3. x \in SupInfo
    BY <1>1, <2>1 DEF SupInfo
  <2>4. r \in Frames /\ r.step = "2-2"
    BY <1>1, <2>1, ReplyType DEF Steps, Reply
  <2> HIDE DEF x, r
  <2> QED BY <1>1, <2>2, <2>3, <2>4
<1> QED BY <1>2, <1>3, <1>4

LEMMA TypeSupplicant ==
  ASSUME TypeOK, NEW s \in Stations, Supplicant(s)
  PROVE  TypeOK'
<1>1. sup[s] \in SupInfo
  BY DEF TypeOK
<1>2. CASE SupMsg1(s) \/ SupMsg3(s) \/ SupGroup(s)
  BY <1>2, AnswerFrames, AnswerType
<1>3. CASE SupDiscard(s)
  BY <1>3 DEF SupDiscard, TypeOK, apVars
<1>4. CASE SupDuplicate(s)
  <2>1. up' \in [Stations -> Seq(Frames)]
    BY <1>1, <1>4 DEF SupDuplicate, TypeOK, SupInfo
  <2>2. budget' \in [Kinds -> Nat]
    BY <1>4, SpendType DEF SupDuplicate, Kinds
  <2> QED BY <1>4, <2>1, <2>2 DEF SupDuplicate, TypeOK, apVars
<1>5. CASE SupRequest(s)
  <2>1. PICK step \in {"pairwise-request", "group-request"} :
          up' = [up EXCEPT ![s] = Append(@, [step |-> step, rc |-> 0,
                                             key |-> sup[s].ptk, gtk |-> 0])]
    BY <1>5 DEF SupRequest
  <2>2. [step |-> step, rc |-> 0, key |-> sup[s].ptk, gtk |-> 0] \in Frames
    BY <1>1 DEF SupInfo, Frames, Steps
  <2>3. up' \in [Stations -> Seq(Frames)]
    BY <2>1, <2>2 DEF TypeOK
  <2>4. budget' \in [Kinds -> Nat]
    BY <1>5, SpendType DEF SupRequest, Kinds
  <2> QED BY <1>5, <2>3, <2>4 DEF SupRequest, TypeOK, apVars
<1> QED BY <1>2, <1>3, <1>4, <1>5 DEF Supplicant

LEMMA TypeChannel ==
  ASSUME TypeOK, NEW s \in Stations, Channel(s)
  PROVE  TypeOK'
<1> USE DEF Kinds
<1>1. CASE LoseDown(s)
  <2>1. down' \in [Stations -> Seq(Frames)]
    BY <1>1 DEF LoseDown, TypeOK
  <2>2. budget' \in [Kinds -> Nat]
    BY <1>1, SpendType DEF LoseDown
  <2> QED BY <1>1, <2>1, <2>2 DEF LoseDown, TypeOK, apVars
<1>2. CASE LoseUp(s)
  <2>1. up' \in [Stations -> Seq(Frames)]
    BY <1>2 DEF LoseUp, TypeOK
  <2>2. budget' \in [Kinds -> Nat]
    BY <1>2, SpendType DEF LoseUp
  <2> QED BY <1>2, <2>1, <2>2 DEF LoseUp, TypeOK, apVars
<1>3. CASE Overtake(s)
  <2> DEFINE q == up[s]
  <2>1. q \in Seq(Frames) /\ Len(q) > 1
    BY <1>3 DEF Overtake, TypeOK
  <2>2. q[1] \in Frames /\ q[2] \in Frames
    BY <2>1
  <2>3. SubSeq(q, 3, Len(q)) \in Seq(Frames)
    BY <2>1
  <2>4. <<q[2], q[1]>> \o SubSeq(q, 3, Len(q)) \in Seq(Frames)
    BY <2>2, <2>3
  <2>5. up' \in [Stations -> Seq(Frames)]
    BY <1>3, <2>4 DEF Overtake, TypeOK
  <2> QED BY <1>3, <2>5, SpendType DEF Overtake, TypeOK, apVars, Kinds
<1> QED BY <1>1, <1>2, <1>3 DEF Channel

LEMMA TypeStep == TypeOK /\ [Next]_vars => TypeOK'
<1> SUFFICES ASSUME TypeOK, [Next]_vars PROVE TypeOK'
  OBVIOUS
<1>1. CASE UNCHANGED vars
  BY <1>1 DEF vars, TypeOK
<1>2. CASE Next
  BY <1>2, TypeRekey, TypeMembership, TypeRecvPairwise, TypeRecvGroup, TypeTimer,
     TypeSupplicant, TypeChannel DEF Next
<1> QED BY <1>1, <1>2

\* Every variable keeps its type, whatever the stations, passphrases and
\* budgets: replay counters, key counts and generations are natural numbers
\* and a channel holds EAPOL-Key frames only.
THEOREM TypeCorrect == Spec => []TypeOK
<1> QED BY TypeInit, TypeStep, PTL DEF Spec
=============================================================================
