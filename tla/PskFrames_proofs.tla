-------------------------- MODULE PskFrames_proofs --------------------------
(***************************************************************************)
(* The frames in flight: replay counters, resend timers, what answers what *)
(* and which group key a station has, for all values of the constants.     *)
(***************************************************************************)
EXTENDS PskAgreement_proofs

-----------------------------------------------------------------------------
(* What the operators make of an entry of the station table, field by      *)
(* field.                                                                  *)

LEMMA StopTimerFields ==
  ASSUME NEW x \in StaInfo
  PROVE  LET y == StopTimer(x) IN
         /\ y.state = x.state /\ y.gstate = x.gstate /\ y.rc = x.rc /\ y.started = x.started
         /\ y.ANonce = x.ANonce /\ y.PTK = x.PTK /\ y.wpa2 = x.wpa2 /\ y.msg = x.msg
         /\ y.resendTimer = FALSE
BY DEF StopTimer, StaInfo

LEMMA ProvedFields ==
  ASSUME NEW x \in StaInfo, NEW m \in Frames
  PROVE  LET y == Proved(x, m) IN
         /\ y.state = "PTKINITNEGOTIATING" /\ y.PTK = m.key
         /\ y.gstate = x.gstate /\ y.rc = x.rc /\ y.started = x.started
         /\ y.ANonce = x.ANonce /\ y.wpa2 = x.wpa2
BY StopTimerType DEF Proved, StopTimer, StaInfo

LEMMA ConfirmedFields ==
  ASSUME NEW x \in StaInfo
  PROVE  LET y == Confirmed(x) IN
         /\ y.state = "PTKINITDONE" /\ y.rc = x.rc + 2 /\ y.started = x.started
         /\ y.gstate = IF x.wpa2 THEN "REKEYESTABLISHED" ELSE "REKEYNEGOTIATING"
         /\ y.ANonce = x.ANonce /\ y.PTK = x.PTK /\ y.wpa2 = x.wpa2 /\ y.msg = x.msg
BY StopTimerType DEF Confirmed, StopTimer, StaInfo

LEMMA RestartedFields ==
  ASSUME NEW x \in StaInfo
  PROVE  LET y == Restarted(x) IN
         /\ y.state = "PTKSTART" /\ y.gstate = x.gstate /\ y.rc = x.rc /\ y.started = x.started
         /\ y.ANonce = x.ANonce /\ y.PTK = x.PTK /\ y.wpa2 = x.wpa2
BY StopTimerType DEF Restarted, StopTimer, StaInfo

LEMMA StartGroupFields ==
  ASSUME NEW x \in StaInfo
  PROVE  LET y == StartGroupHandshake(x) IN
         /\ y.state = x.state /\ y.gstate = "REKEYNEGOTIATING" /\ y.rc = x.rc
         /\ y.started = x.started /\ y.ANonce = x.ANonce /\ y.PTK = x.PTK /\ y.wpa2 = x.wpa2
BY DEF StartGroupHandshake, StaInfo

LEMMA ExpiredFields ==
  ASSUME NEW x \in StaInfo
  PROVE  LET y == Expired(x) IN
         /\ y.state = x.state /\ y.gstate = x.gstate /\ y.rc = x.rc /\ y.started = x.started
         /\ y.ANonce = x.ANonce /\ y.PTK = x.PTK /\ y.wpa2 = x.wpa2 /\ y.msg = x.msg
BY StopTimerType DEF Expired, StopTimer, StaInfo

LEMMA EstablishedFields ==
  ASSUME NEW x \in StaInfo
  PROVE  LET y == [StopTimer(x) EXCEPT !.gstate = "REKEYESTABLISHED"] IN
         /\ y.state = x.state /\ y.rc = x.rc /\ y.started = x.started
         /\ y.ANonce = x.ANonce /\ y.PTK = x.PTK /\ y.wpa2 = x.wpa2 /\ y.msg = x.msg
BY StopTimerType DEF StopTimer, StaInfo

\* SendEAPOL(resend = 1) keeps the frame but for its counter and its key.
LEMMA ResentFields ==
  ASSUME NEW x \in StaInfo, NEW b \in BOOLEAN
  PROVE  LET y == Resent(x, b)  f == ResentFrame(x) IN
         /\ y.state = x.state /\ y.gstate = x.gstate /\ y.rc = x.rc + 1
         /\ y.started = x.started /\ y.ANonce = x.ANonce /\ y.PTK = x.PTK /\ y.wpa2 = x.wpa2
         /\ y.resendTimer = (x.resendTimer \/ b) /\ y.msg = f
         /\ f.step = x.msg.step /\ f.rc = x.rc /\ f.gtk = x.msg.gtk
         /\ f.step = "4-1" => f.key = x.msg.key
<1> DEFINE k == IF x.msg.step = "4-1" THEN x.msg.key ELSE x.PTK
           f == ResentFrame(x)
           y == Resent(x, b)
<1>1. x.msg \in Frames /\ f = [x.msg EXCEPT !.rc = x.rc, !.key = k]
  BY DEF StaInfo, ResentFrame
<1>2. /\ f.step = x.msg.step /\ f.rc = x.rc /\ f.gtk = x.msg.gtk
      /\ f.step = "4-1" => f.key = x.msg.key
  <2> HIDE DEF f
  <2> QED BY <1>1 DEF Frames
<1>3. y = [x EXCEPT !.rc = x.rc + 1, !.resendTimer = x.resendTimer \/ b, !.msg = f]
  BY DEF Resent
<1> HIDE DEF f
<1>4. /\ y.state = x.state /\ y.gstate = x.gstate /\ y.rc = x.rc + 1
      /\ y.started = x.started /\ y.ANonce = x.ANonce /\ y.PTK = x.PTK /\ y.wpa2 = x.wpa2
      /\ y.resendTimer = (x.resendTimer \/ b) /\ y.msg = f
  BY <1>3 DEF StaInfo
<1> QED BY <1>2, <1>4 DEF f

\* SendEAPOL(resend = 0).
LEMMA SentFields ==
  ASSUME NEW x \in StaInfo, NEW gtk \in Nat, NEW b \in BOOLEAN
  PROVE  LET y == Sent(x, gtk, b)  f == Frame(Prepared(x), gtk) IN
         /\ y.state = x.state /\ y.gstate = x.gstate /\ y.PTK = x.PTK /\ y.wpa2 = x.wpa2
         /\ y.rc > x.rc /\ f.rc = x.rc /\ y.msg = f
         /\ y.resendTimer = (x.resendTimer \/ b)
         /\ x.state = "PTKSTART" =>
              /\ y.ANonce = x.ANonce + 1 /\ y.started = x.rc
              /\ f.step = "4-1" /\ f.key.n = y.ANonce /\ f.gtk = 0
         /\ x.state # "PTKSTART" => y.ANonce = x.ANonce /\ y.started = x.started
         /\ x.state = "PTKINITNEGOTIATING" =>
              f.step = "4-3" /\ f.gtk = IF x.wpa2 THEN gtk ELSE 0
         /\ x.state \notin {"PTKSTART", "PTKINITNEGOTIATING"} =>
              f.step = "2-1" /\ f.gtk = gtk
<1> DEFINE p == Prepared(x)
           f == Frame(p, gtk)
           y == Sent(x, gtk, b)
<1>1. /\ p \in StaInfo /\ p.state = x.state /\ p.gstate = x.gstate /\ p.PTK = x.PTK
      /\ p.wpa2 = x.wpa2 /\ p.rc = x.rc /\ p.resendTimer = x.resendTimer
      /\ x.state = "PTKSTART" => p.ANonce = x.ANonce + 1 /\ p.started = x.rc
      /\ x.state # "PTKSTART" => p.ANonce = x.ANonce /\ p.started = x.started
  BY PreparedType DEF Prepared, StaInfo
<1>2. x.rc \in Nat
  BY DEF StaInfo
<1> HIDE DEF p
<1>3. /\ f.rc = x.rc
      /\ x.state = "PTKSTART" => f.step = "4-1" /\ f.key.n = p.ANonce /\ f.gtk = 0
      /\ x.state = "PTKINITNEGOTIATING" =>
           f.step = "4-3" /\ f.gtk = IF x.wpa2 THEN gtk ELSE 0
      /\ x.state \notin {"PTKSTART", "PTKINITNEGOTIATING"} => f.step = "2-1" /\ f.gtk = gtk
  BY <1>1 DEF Frame
<1>4. y = [p EXCEPT !.rc = p.rc + (IF x.state = "PTKINITDONE" THEN 2 ELSE 1),
                    !.msg = f, !.resendTimer = p.resendTimer \/ b]
  BY DEF Sent, p
<1> HIDE DEF f
<1>5. /\ y.state = p.state /\ y.gstate = p.gstate /\ y.PTK = p.PTK /\ y.wpa2 = p.wpa2
      /\ y.rc = p.rc + (IF x.state = "PTKINITDONE" THEN 2 ELSE 1) /\ y.msg = f
      /\ y.resendTimer = (p.resendTimer \/ b) /\ y.ANonce = p.ANonce /\ y.started = p.started
  BY <1>1, <1>4 DEF StaInfo
<1> HIDE DEF y
<1>6. y.rc > x.rc
  BY <1>1, <1>2, <1>5
<1> QED BY <1>1, <1>3, <1>5, <1>6 DEF f, p, y

-----------------------------------------------------------------------------
(* A channel as the set of its frames.                                     *)

Elems(q) == {q[i] : i \in 1 .. Len(q)}

Downward(s) == Elems(down[s])
Upward(s)   == Elems(up[s]) \cup ({sup[s].last} \ {NoFrame})

LEMMA ElemsTail ==
  ASSUME NEW q \in Seq(Frames), q # <<>>
  PROVE  Elems(Tail(q)) \subseteq Elems(q) /\ Head(q) \in Elems(q)
<1>1. \A i \in 1 .. Len(Tail(q)) : i + 1 \in 1 .. Len(q) /\ Tail(q)[i] = q[i + 1]
  OBVIOUS
<1>2. 1 \in 1 .. Len(q) /\ Head(q) = q[1]
  OBVIOUS
<1> QED BY <1>1, <1>2 DEF Elems

LEMMA ElemsAppend ==
  ASSUME NEW q \in Seq(Frames), NEW f \in Frames
  PROVE  Elems(Append(q, f)) = Elems(q) \cup {f}
<1>1. /\ Len(Append(q, f)) = Len(q) + 1 /\ Append(q, f)[Len(q) + 1] = f
      /\ \A i \in 1 .. Len(q) : Append(q, f)[i] = q[i]
  OBVIOUS
<1>2. Len(q) \in Nat
  OBVIOUS
<1> QED BY <1>1, <1>2 DEF Elems

LEMMA ElemsOvertaken ==
  ASSUME NEW q \in Seq(Frames), Len(q) > 1
  PROVE  Elems(<<q[2], q[1]>> \o SubSeq(q, 3, Len(q))) \subseteq Elems(q)
<1> DEFINE r == SubSeq(q, 3, Len(q))
           p == <<q[2], q[1]>> \o r
<1>1. Len(q) \in Nat /\ q[1] \in Frames /\ q[2] \in Frames
  OBVIOUS
<1>2. r \in Seq(Frames) /\ \A i \in 1 .. Len(r) : i + 2 \in 1 .. Len(q) /\ r[i] = q[i + 2]
  <2>1. \A i \in 3 .. Len(q) : q[i] \in Frames
    BY <1>1
  <2>2. /\ r \in Seq(Frames) /\ Len(r) = (IF 3 <= Len(q) THEN Len(q) - 3 + 1 ELSE 0)
        /\ \A i \in 1 .. Len(q) - 3 + 1 : r[i] = q[3 + i - 1]
    BY <1>1, <2>1, SubSeqProperties
  <2> HIDE DEF r
  <2>3. ASSUME NEW i \in 1 .. Len(r)
        PROVE  i \in 1 .. Len(q) - 3 + 1 /\ i + 2 \in 1 .. Len(q) /\ 3 + i - 1 = i + 2
    BY <1>1, <2>2
  <2> QED BY <2>2, <2>3
<1> HIDE DEF r
<1>3. \A i \in 1 .. Len(p) : p[i] = q[2] \/ p[i] = q[1] \/ \E j \in 1 .. Len(r) : p[i] = r[j]
  BY <1>1, <1>2
<1> HIDE DEF p
<1>4. 1 \in 1 .. Len(q) /\ 2 \in 1 .. Len(q)
  BY <1>1
<1>5. \A i \in 1 .. Len(p) : p[i] \in Elems(q)
  BY <1>2, <1>3, <1>4 DEF Elems
<1>6. Elems(p) \subseteq Elems(q)
  BY <1>5 DEF Elems
<1> QED BY <1>6 DEF p, r

-----------------------------------------------------------------------------
(* What may happen to a slot in a step, seen from the slot: SendEAPOL and  *)
(* UpdateGK write several slots, so most steps are about two at least.     *)

\* A frame is sent to t, whose entry is z before, over the channel q.
Sends(t, z, q) ==
  \E b \in BOOLEAN :
    /\ b \/ SkbMayFail
    /\ wpa'[t] = Sent(z, gbl'.GTK, b)
    /\ down'[t] = IF b THEN Append(q, Frame(Prepared(z), gbl'.GTK)) ELSE q

ChannelsKept(t) == up'[t] = up[t] /\ sup'[t] = sup[t]

NothingHappens(t) ==
  /\ wpa'[t] = wpa[t] /\ drv'[t] = drv[t] /\ late'[t] = late[t]
  /\ down'[t] = down[t] /\ ChannelsKept(t)

Rekeyed(t) ==
  /\ drv[t].asoc /\ wpa[t].state = "PTKINITDONE" /\ ~gbl'.GInitAKeys
  /\ Sends(t, StartGroupHandshake(wpa[t]), down[t])
  /\ drv'[t] = drv[t] /\ late'[t] = late[t] /\ ChannelsKept(t)

Gone(t) ==
  /\ drv'[t] = Absent /\ down'[t] = <<>> /\ up'[t] = <<>> /\ sup'[t] = NewSup
  /\ wpa'[t] \in {ResetSta, StopTimer(wpa[t]), [StopTimer(wpa[t]) EXCEPT !.state = "IDLE"]}

Fresher(t, r) == [ResetSta EXCEPT !.state = "PTKSTART", !.rc = r, !.wpa2 = Security[t] = "WPA2"]

Joined(t) ==
  /\ \E r \in {0, 1} : Sends(t, Fresher(t, r), <<>>)
  /\ up'[t] = <<>> /\ sup'[t] = NewSup /\ drv'[t] = [Absent EXCEPT !.asoc = TRUE]
  /\ late'[t] = late[t]

Received(t) ==
  /\ Receives(t) /\ up'[t] = Tail(up[t]) /\ sup'[t] = sup[t] /\ late'[t] = late[t]

Negotiates(t) == LET m == Head(up[t]) IN
  /\ Received(t) /\ Pairwise(m) /\ IsMsg2(wpa[t], m) /\ ProvesPSK(wpa[t], m)
  /\ drv'[t] = drv[t] /\ (wpa[t].wpa2 => ~gbl'.GInitAKeys)
  /\ Sends(t, Proved(wpa[t], m), down[t])

Confirms(t) == LET m == Head(up[t]) IN
  /\ Received(t) /\ Pairwise(m) /\ IsMsg4(wpa[t], m) /\ m.key = wpa[t].PTK
  /\ drv'[t] = Opened(wpa[t], drv[t])
  /\ \/ wpa'[t] = Confirmed(wpa[t]) /\ down'[t] = down[t]
     \/ Sends(t, StartGroupHandshake(Confirmed(wpa[t])), down[t]) /\ ~gbl'.GInitAKeys

Restarts(t) == LET m == Head(up[t]) IN
  /\ Received(t) /\ Request(m) /\ wpa[t].state = "PTKINITDONE"
  /\ drv'[t] = drv[t]
  /\ Sends(t, Restarted(wpa[t]), down[t])

Ignores(t) == LET m == Head(up[t]) IN
  /\ Received(t) /\ drv'[t] = drv[t] /\ down'[t] = down[t]
  /\ \/ wpa'[t] = wpa[t]
     \/ wpa'[t] = StopTimer(wpa[t]) /\ (wpa[t].state = "PTKINITDONE" \/ ~Pairwise(m))

Establishes(t) == LET m == Head(up[t]) IN
  /\ Received(t) /\ ~Pairwise(m) /\ AcceptsGroup(wpa[t], m)
  /\ drv'[t] = drv[t] /\ down'[t] = down[t]
  /\ wpa'[t] = [StopTimer(wpa[t]) EXCEPT !.gstate = "REKEYESTABLISHED"]

TimesOut(t) ==
  /\ wpa'[t] = Expired(wpa[t]) /\ late'[t] # "no" /\ budget["timeout"] > 0
  /\ drv'[t] = drv[t] /\ down'[t] = down[t] /\ ChannelsKept(t)

Repeats(t) ==
  /\ late[t] = "resend" /\ drv'[t] = drv[t] /\ ChannelsKept(t)
  /\ \/ wpa[t].state = "IDLE" /\ wpa'[t] = wpa[t] /\ down'[t] = down[t]
     \/ \E b \in BOOLEAN :
          /\ b \/ SkbMayFail
          /\ wpa'[t] = Resent(wpa[t], b)
          /\ down'[t] = IF b /\ drv[t].asoc THEN Append(down[t], ResentFrame(wpa[t]))
                                            ELSE down[t]

Remains(t) ==
  /\ wpa'[t] = wpa[t] /\ drv'[t] = drv[t] /\ down'[t] = down[t] /\ ChannelsKept(t)
  /\ ~drv[t].asoc \/ wpa[t].state = "PTKINITDONE"

ServerHappens(t) ==
  \/ NothingHappens(t) \/ Rekeyed(t) \/ Gone(t) \/ Joined(t) \/ Negotiates(t) \/ Confirms(t)
  \/ Restarts(t) \/ Ignores(t) \/ Establishes(t) \/ TimesOut(t) \/ Repeats(t) \/ Remains(t)

StationHappens(t) ==
  /\ wpa'[t] = wpa[t] /\ drv'[t] = drv[t] /\ late'[t] = late[t] /\ gbl' = gbl
  /\ Supplicant(t) \/ Channel(t)

LEMMA FresherFields ==
  ASSUME NEW t \in Stations, NEW r \in {0, 1}
  PROVE  LET x == Fresher(t, r) IN
         /\ x \in StaInfo /\ x.state = "PTKSTART" /\ x.gstate = "REKEYNEGOTIATING"
         /\ x.wpa2 = (Security[t] = "WPA2")
<1> DEFINE b == Security[t] = "WPA2"
           y == [ResetSta EXCEPT !.rc = r]
           z == [y EXCEPT !.state = "PTKSTART"]
           x == Fresher(t, r)
<1>1. y \in StaInfo /\ y.gstate = "REKEYNEGOTIATING"
  <2>1. ResetSta \in StaInfo /\ ResetSta.gstate = "REKEYNEGOTIATING" /\ r \in Nat
    BY ResetTypes DEF ResetSta
  <2> QED BY <2>1 DEF StaInfo
<1> HIDE DEF y
<1>2. z \in StaInfo /\ z.state = "PTKSTART" /\ z.gstate = "REKEYNEGOTIATING"
  BY <1>1 DEF StaInfo
<1>3. x = [z EXCEPT !.wpa2 = b] /\ b \in BOOLEAN
  BY DEF Fresher, y, ResetSta
<1> HIDE DEF x, z, b
<1>4. x \in StaInfo /\ x.state = "PTKSTART" /\ x.gstate = "REKEYNEGOTIATING" /\ x.wpa2 = b
  BY <1>2, <1>3 DEF StaInfo
<1> QED BY <1>4 DEF x, b

LEMMA FailureOfNone ==
  ASSUME NEW F \in AllocFailures, NEW t \in Stations
  PROVE  t \notin F \/ SkbMayFail
BY DEF AllocFailures

LEMMA TransmitSlot ==
  ASSUME NEW w \in [Stations -> StaInfo], NEW q, NEW to, NEW F \in AllocFailures,
         Transmit(w, q, to, gbl'.GTK, F), NEW t \in Stations
  PROVE  IF t \in to THEN Sends(t, w[t], q[t]) ELSE wpa'[t] = w[t] /\ down'[t] = q[t]
<1>1. CASE t \in to
  <2> DEFINE b == t \notin F
  <2>1. /\ b \in BOOLEAN /\ (b \/ SkbMayFail)
        /\ wpa'[t] = Sent(w[t], gbl'.GTK, b)
        /\ down'[t] = IF b THEN Append(q[t], Frame(Prepared(w[t]), gbl'.GTK)) ELSE q[t]
    BY <1>1, FailureOfNone DEF Transmit
  <2> HIDE DEF b
  <2> QED BY <1>1, <2>1 DEF Sends
<1>2. CASE t \notin to
  BY <1>2 DEF Transmit
<1> QED BY <1>1, <1>2

\* UpdateGK starts the group key handshake with t.
Starts(t, x) ==
  drv[t].asoc /\ x.state = "PTKINITDONE" /\ Sends(t, StartGroupHandshake(x), down[t])

\* w1 is w with the group key handshake started with the stations of due.
DueSlots(w, w1, due) ==
  /\ \A t \in due : drv[t].asoc /\ w[t].state = "PTKINITDONE"
  /\ \A t \in Stations : w1[t] = IF t \in due THEN StartGroupHandshake(w[t]) ELSE w[t]

\* What UpdateGK does to the slot t, x before, in a handler that sends to also.
Slot(t, x, also) ==
  \/ Starts(t, x)
  \/ t \in also /\ Sends(t, x, down[t])
  \/ t \notin also /\ wpa'[t] = x /\ down'[t] = down[t]

LEMMA DueSlot ==
  ASSUME NEW w \in [Stations -> StaInfo], NEW w1 \in [Stations -> StaInfo], NEW due, NEW also,
         NEW F \in AllocFailures, DueSlots(w, w1, due),
         Transmit(w1, down, due \cup also, gbl'.GTK, F)
  PROVE  \A t \in Stations : Slot(t, w[t], also)
<1>1. \A t \in Stations :
        IF t \in due \cup also THEN Sends(t, w1[t], down[t])
                             ELSE wpa'[t] = w1[t] /\ down'[t] = down[t]
  BY TransmitSlot
<1> QED BY <1>1 DEF Starts, Slot, DueSlots

LEMMA UpdateGKSlot ==
  ASSUME NEW g0 \in GlobalInfo, NEW w \in [Stations -> StaInfo], NEW also,
         NEW F \in AllocFailures, UpdateGK(g0, FALSE, w, also, F)
  PROVE  \A t \in Stations : Slot(t, w[t], also)
<1> DEFINE g == IF FALSE \/ g0.GInitAKeys THEN NewGTK(w, g0) ELSE g0
           due == DueForGroupKey(w, g, FALSE \/ g0.GInitAKeys)
           w1 == [t \in Stations |-> IF t \in due THEN StartGroupHandshake(w[t]) ELSE w[t]]
<1>1. Transmit(w1, down, due \cup also, gbl'.GTK, F)
  BY DEF UpdateGK
<1>2. DueSlots(w, w1, due)
  BY DEF DueForGroupKey, Associated, DueSlots
<1>3. w1 \in [Stations -> StaInfo]
  BY StartGroupType
<1> QED BY <1>1, <1>2, <1>3, DueSlot

LEMMA RekeySlot ==
  ASSUME NEW w \in [Stations -> StaInfo], NEW F \in AllocFailures, UpdateGK(gbl, TRUE, w, {}, F)
  PROVE  \A t \in Stations : Slot(t, w[t], {})
<1> DEFINE g == IF TRUE \/ gbl.GInitAKeys THEN NewGTK(w, gbl) ELSE gbl
           due == DueForGroupKey(w, g, TRUE \/ gbl.GInitAKeys)
           w1 == [t \in Stations |-> IF t \in due THEN StartGroupHandshake(w[t]) ELSE w[t]]
<1>1. Transmit(w1, down, due \cup {}, gbl'.GTK, F)
  BY DEF UpdateGK
<1>2. DueSlots(w, w1, due)
  BY DEF DueForGroupKey, Associated, DueSlots
<1>3. w1 \in [Stations -> StaInfo]
  BY StartGroupType
<1> QED BY <1>1, <1>2, <1>3, DueSlot

\* UpdateGK in a handler about s that leaves the other slots to it.
LEMMA UpdateGKOthers ==
  ASSUME TypeOK, NEW s \in Stations, NEW x \in StaInfo, NEW g0 \in GlobalInfo, NEW also,
         also \subseteq {s}, NEW F \in AllocFailures,
         UpdateGK(g0, FALSE, [wpa EXCEPT ![s] = x], also, F),
         drv' = drv \/ \E d : drv' = [drv EXCEPT ![s] = d],
         \A t \in Stations : t # s => ChannelsKept(t), late' = late,
         NEW t \in Stations, t # s
  PROVE  ServerHappens(t)
<1> DEFINE w == [wpa EXCEPT ![s] = x]
<1>1. w \in [Stations -> StaInfo] /\ w[t] = wpa[t]
  BY DEF TypeOK
<1> HIDE DEF w
<1>2. ~gbl'.GInitAKeys
  BY <1>1, UpdateGKQuiet DEF w
<1>3. Slot(t, w[t], also) /\ t \notin also
  <2>1. UpdateGK(g0, FALSE, w, also, F) /\ t \notin also
    BY DEF w
  <2> QED BY <1>1, <2>1, UpdateGKSlot
<1>4. drv'[t] = drv[t] /\ late'[t] = late[t] /\ ChannelsKept(t)
  BY DEF TypeOK
<1> HIDE DEF w
<1>5. CASE Starts(t, w[t])
  BY <1>1, <1>2, <1>4, <1>5 DEF ServerHappens, Rekeyed, Starts
<1>6. CASE wpa'[t] = w[t] /\ down'[t] = down[t]
  BY <1>1, <1>4, <1>6 DEF ServerHappens, NothingHappens
<1> QED BY <1>3, <1>5, <1>6 DEF Slot

\* A handler about s that writes no other slot.
LEMMA OthersIdle ==
  ASSUME NEW s \in Stations, NEW t \in Stations, t # s,
         wpa'[t] = wpa[t], drv'[t] = drv[t], late'[t] = late[t],
         down'[t] = down[t], up'[t] = up[t], sup'[t] = sup[t]
  PROVE  ServerHappens(t)
BY DEF ServerHappens, NothingHappens, ChannelsKept

LEMMA ReleaseHappens ==
  ASSUME TypeOK, NEW s \in Stations, NEW x, Release(s, x),
         x \in {ResetSta, StopTimer(wpa[s]), [StopTimer(wpa[s]) EXCEPT !.state = "IDLE"]},
         \A t \in Stations : t # s => late'[t] = late[t]
  PROVE  \A t \in Stations : ServerHappens(t)
<1>1. \A t \in Stations :
        IF t = s
        THEN wpa'[t] = x /\ drv'[t] = Absent /\ down'[t] = <<>> /\ up'[t] = <<>> /\ sup'[t] = NewSup
        ELSE wpa'[t] = wpa[t] /\ drv'[t] = drv[t] /\ down'[t] = down[t] /\ up'[t] = up[t]
             /\ sup'[t] = sup[t]
  BY DEF TypeOK, Release
<1>2. Gone(s)
  BY <1>1 DEF Gone
<1> QED BY <1>1, <1>2, OthersIdle DEF ServerHappens

LEMMA MembershipHappens ==
  ASSUME TypeOK, NEW s \in Stations, Membership(s)
  PROVE  \A t \in Stations : ServerHappens(t)
<1>1. CASE Disassociate(s)
  BY <1>1, ReleaseHappens DEF Disassociate
<1>2. CASE Deauthenticate(s)
  BY <1>2, ReleaseHappens DEF Deauthenticate
<1>3. CASE Associate(s)
  <2> DEFINE r == RC_toggle'
             x == Fresher(s, r)
             w == [wpa EXCEPT ![s] = x]
             q == [down EXCEPT ![s] = <<>>]
  <2>1. r \in {0, 1} /\ gbl' = gbl
    BY <1>3 DEF Associate, TypeOK
  <2>2. x \in StaInfo
    BY <2>1, FresherFields
  <2>3. w \in [Stations -> StaInfo] /\ w[s] = x /\ q[s] = <<>>
        /\ \A t \in Stations : t # s => w[t] = wpa[t] /\ q[t] = down[t]
    BY <2>2 DEF TypeOK
  <2>4. PICK F \in AllocFailures : Transmit(w, q, {s}, gbl'.GTK, F)
    BY <1>3, <2>1 DEF Associate, Fresher
  <2>5. \A t \in Stations :
          IF t = s
          THEN up'[t] = <<>> /\ sup'[t] = NewSup /\ drv'[t] = [Absent EXCEPT !.asoc = TRUE]
               /\ late'[t] = late[t]
          ELSE up'[t] = up[t] /\ sup'[t] = sup[t] /\ drv'[t] = drv[t] /\ late'[t] = late[t]
    BY <1>3 DEF Associate, TypeOK
  <2> HIDE DEF w, q
  <2>6. \A t \in Stations :
          IF t = s THEN Sends(t, w[t], q[t]) ELSE wpa'[t] = w[t] /\ down'[t] = q[t]
    BY <2>3, <2>4, TransmitSlot
  <2>7. Joined(s)
    <3>1. Sends(s, Fresher(s, r), <<>>)
      BY <2>3, <2>6
    <3> QED BY <2>1, <2>5, <3>1 DEF Joined
  <2> QED BY <2>3, <2>5, <2>6, <2>7, OthersIdle DEF ServerHappens
<1> QED BY <1>1, <1>2, <1>3 DEF Membership

LEMMA MicFailureHappens ==
  ASSUME TypeOK, NEW s \in Stations, MicFailure(s)
  PROVE  \A t \in Stations : ServerHappens(t)
BY ReleaseHappens DEF MicFailure

\* A handler of a frame of s consumes it and leaves the rest of the channels alone.
LEMMA ConsumedSlots ==
  ASSUME TypeOK, NEW s \in Stations, Consumed(s), sup' = sup, late' = late
  PROVE  /\ up'[s] = Tail(up[s]) /\ sup'[s] = sup[s] /\ late'[s] = late[s]
         /\ \A t \in Stations : t # s => ChannelsKept(t)
BY DEF TypeOK, Consumed, ChannelsKept

LEMMA Msg2Happens ==
  ASSUME TypeOK, NEW s \in Stations, RecvMsg2(s)
  PROVE  \A t \in Stations : ServerHappens(t)
<1> DEFINE m == Head(up[s])
           x == Proved(wpa[s], m)
           w == [wpa EXCEPT ![s] = x]
<1>1. /\ Receives(s) /\ Pairwise(m) /\ IsMsg2(wpa[s], m) /\ ProvesPSK(wpa[s], m)
      /\ Consumed(s) /\ sup' = sup /\ late' = late /\ drv' = drv
  BY DEF RecvMsg2
<1>2. x \in StaInfo /\ x.state = "PTKINITNEGOTIATING"
  BY <1>1, HeadType, ProvedType, ProvedFields DEF TypeOK
<1>3. w \in [Stations -> StaInfo] /\ w[s] = x /\ \A t \in Stations : t # s => w[t] = wpa[t]
  BY <1>2 DEF TypeOK
<1>4. gbl \in GlobalInfo
  BY DEF TypeOK
<1>5. PICK F \in AllocFailures :
        IF wpa[s].wpa2 THEN UpdateGK(gbl, FALSE, w, {s}, F)
        ELSE Transmit(w, down, {s}, gbl'.GTK, F)
  BY DEF RecvMsg2
<1>6. /\ up'[s] = Tail(up[s]) /\ sup'[s] = sup[s] /\ late'[s] = late[s]
      /\ \A t \in Stations : t # s => ChannelsKept(t)
  BY <1>1, ConsumedSlots
<1> HIDE DEF x
<1>7. Sends(s, x, down[s]) /\ (wpa[s].wpa2 => ~gbl'.GInitAKeys)
  <2>1. CASE wpa[s].wpa2
    <3>1. UpdateGK(gbl, FALSE, w, {s}, F)
      BY <1>5, <2>1
    <3> HIDE DEF w
    <3>2. ~gbl'.GInitAKeys
      BY <1>3, <1>4, <3>1, UpdateGKQuiet
    <3>3. Slot(s, w[s], {s})
      BY <1>3, <1>4, <3>1, UpdateGKSlot
    <3> QED BY <1>2, <1>3, <3>2, <3>3 DEF Slot, Starts
  <2>2. CASE ~wpa[s].wpa2
    <3> HIDE DEF w
    <3> QED BY <1>3, <1>5, <2>2, TransmitSlot
  <2> QED BY <2>1, <2>2
<1>8. ServerHappens(s)
  BY <1>1, <1>6, <1>7 DEF ServerHappens, Negotiates, Received, x
<1>9. ASSUME NEW t \in Stations, t # s
      PROVE  ServerHappens(t)
  <2>1. CASE wpa[s].wpa2
    <3>1. UpdateGK(gbl, FALSE, [wpa EXCEPT ![s] = x], {s}, F)
      BY <1>5, <2>1
    <3> HIDE DEF w
    <3> QED BY <1>1, <1>2, <1>4, <1>6, <1>9, <3>1, UpdateGKOthers
  <2>2. CASE ~wpa[s].wpa2
    <3> HIDE DEF w
    <3>1. wpa'[t] = w[t] /\ down'[t] = down[t]
      BY <1>3, <1>5, <1>9, <2>2, TransmitSlot
    <3> QED BY <1>1, <1>3, <1>6, <1>9, <3>1, OthersIdle DEF ChannelsKept
  <2> QED BY <2>1, <2>2
<1> QED BY <1>8, <1>9

LEMMA RequestHappens ==
  ASSUME TypeOK, NEW s \in Stations, RecvPairwiseRequest(s)
  PROVE  \A t \in Stations : ServerHappens(t)
<1> DEFINE m == Head(up[s])
           x == Restarted(wpa[s])
           w == [wpa EXCEPT ![s] = x]
<1>1. /\ Receives(s) /\ Request(m) /\ wpa[s].state = "PTKINITDONE"
      /\ Consumed(s) /\ sup' = sup /\ late' = late /\ drv' = drv
  BY DEF RecvPairwiseRequest
<1>2. x \in StaInfo /\ x.state = "PTKSTART"
  BY RestartedType, RestartedFields DEF TypeOK
<1>3. w \in [Stations -> StaInfo] /\ w[s] = x /\ gbl \in GlobalInfo
  BY <1>2 DEF TypeOK
<1>4. PICK F \in AllocFailures : UpdateGK(gbl, FALSE, [wpa EXCEPT ![s] = x], {s}, F)
  BY DEF RecvPairwiseRequest
<1>5. /\ up'[s] = Tail(up[s]) /\ sup'[s] = sup[s] /\ late'[s] = late[s]
      /\ \A t \in Stations : t # s => ChannelsKept(t)
  BY <1>1, ConsumedSlots
<1> HIDE DEF x
<1>6. Sends(s, x, down[s])
  <2>1. UpdateGK(gbl, FALSE, w, {s}, F)
    BY <1>4
  <2> HIDE DEF w
  <2>2. Slot(s, w[s], {s})
    BY <1>3, <2>1, UpdateGKSlot
  <2> QED BY <1>2, <1>3, <2>2 DEF Slot, Starts
<1>7. ServerHappens(s)
  BY <1>1, <1>5, <1>6 DEF ServerHappens, Restarts, Received, x
<1>8. \A t \in Stations : t # s => ServerHappens(t)
  BY <1>1, <1>2, <1>3, <1>4, <1>5, UpdateGKOthers
<1> QED BY <1>7, <1>8

LEMMA Msg4Happens ==
  ASSUME TypeOK, NEW s \in Stations, RecvMsg4WPA2(s) \/ RecvMsg4WPA(s)
  PROVE  \A t \in Stations : ServerHappens(t)
<1> DEFINE m == Head(up[s])
           x == Confirmed(wpa[s])
           d == Opened(wpa[s], drv[s])
           w == [wpa EXCEPT ![s] = x]
<1>1. /\ Receives(s) /\ Pairwise(m) /\ IsMsg4(wpa[s], m) /\ m.key = wpa[s].PTK
      /\ Consumed(s) /\ sup' = sup /\ late' = late /\ drv' = [drv EXCEPT ![s] = d]
  BY DEF RecvMsg4WPA2, RecvMsg4WPA
<1>2. x \in StaInfo /\ drv'[s] = d
  BY <1>1, ConfirmedType DEF TypeOK
<1>3. /\ w \in [Stations -> StaInfo] /\ w[s] = x
      /\ \A t \in Stations : t # s => w[t] = wpa[t] /\ drv'[t] = drv[t]
      /\ gbl \in GlobalInfo /\ CountedOff \in GlobalInfo
  BY <1>1, <1>2, CountType DEF TypeOK
<1>4. /\ up'[s] = Tail(up[s]) /\ sup'[s] = sup[s] /\ late'[s] = late[s]
      /\ \A t \in Stations : t # s => ChannelsKept(t)
  BY <1>1, ConsumedSlots
<1>5. \/ wpa' = w /\ down' = down
      \/ \E g0 \in GlobalInfo, F \in AllocFailures : UpdateGK(g0, FALSE, w, {}, F)
  BY <1>3 DEF RecvMsg4WPA2, RecvMsg4WPA
<1> HIDE DEF x, d
<1>6. CASE wpa' = w /\ down' = down
  <2>1. ServerHappens(s)
    <3> HIDE DEF w
    <3> QED BY <1>1, <1>2, <1>3, <1>4, <1>6 DEF ServerHappens, Confirms, Received, x, d
  <2> HIDE DEF w
  <2>2. \A t \in Stations : t # s => ServerHappens(t)
    BY <1>1, <1>3, <1>4, <1>6, OthersIdle DEF ChannelsKept
  <2> QED BY <2>1, <2>2
<1>7. ASSUME NEW g0 \in GlobalInfo, NEW F \in AllocFailures, UpdateGK(g0, FALSE, w, {}, F)
      PROVE  \A t \in Stations : ServerHappens(t)
  <2>1. ~gbl'.GInitAKeys
    BY <1>3, <1>7, UpdateGKQuiet
  <2>2. \/ Sends(s, StartGroupHandshake(x), down[s])
        \/ wpa'[s] = x /\ down'[s] = down[s]
    <3> HIDE DEF w
    <3>1. Slot(s, w[s], {})
      BY <1>3, <1>7, UpdateGKSlot
    <3> QED BY <1>3, <3>1 DEF Slot, Starts
  <2>3. ServerHappens(s)
    <3> HIDE DEF w
    <3> QED BY <1>1, <1>2, <1>4, <2>1, <2>2 DEF ServerHappens, Confirms, Received, x, d
  <2>4. \A t \in Stations : t # s => ServerHappens(t)
    BY <1>1, <1>2, <1>4, <1>7, UpdateGKOthers
  <2> QED BY <2>3, <2>4
<1> QED BY <1>5, <1>6, <1>7

LEMMA PairwiseHappens ==
  ASSUME TypeOK, NEW s \in Stations, RecvPairwise(s)
  PROVE  \A t \in Stations : ServerHappens(t)
<1>1. CASE RecvMsg2(s) \/ RecvPairwiseRequest(s) \/ RecvMsg4WPA2(s) \/ RecvMsg4WPA(s)
  BY <1>1, Msg2Happens, RequestHappens, Msg4Happens
<1>2. CASE RecvBadMsg2(s) \/ RecvBadMsg4(s)
  BY <1>2, MicFailureHappens DEF RecvBadMsg2, RecvBadMsg4
<1>3. CASE IgnoreMsg2(s) \/ RecvPairwiseDone(s)
  <2>1. /\ Receives(s) /\ Consumed(s) /\ sup' = sup /\ late' = late /\ drv' = drv /\ down' = down
        /\ \/ wpa' = wpa
           \/ wpa' = [wpa EXCEPT ![s] = StopTimer(wpa[s])] /\ wpa[s].state = "PTKINITDONE"
    BY <1>3 DEF IgnoreMsg2, RecvPairwiseDone
  <2>2. /\ up'[s] = Tail(up[s]) /\ sup'[s] = sup[s] /\ late'[s] = late[s]
        /\ \A t \in Stations : t # s => ChannelsKept(t)
    BY <2>1, ConsumedSlots
  <2>3. /\ \A t \in Stations : t # s => wpa'[t] = wpa[t]
        /\ wpa'[s] = wpa[s] \/ (wpa'[s] = StopTimer(wpa[s]) /\ wpa[s].state = "PTKINITDONE")
    BY <2>1 DEF TypeOK
  <2>4. Ignores(s)
    BY <2>1, <2>2, <2>3 DEF Ignores, Received
  <2> QED BY <2>1, <2>2, <2>3, <2>4, OthersIdle DEF ServerHappens, ChannelsKept
<1> QED BY <1>1, <1>2, <1>3 DEF RecvPairwise

LEMMA GroupHappens ==
  ASSUME TypeOK, NEW s \in Stations, RecvGroup(s) \/ RecvBadGroup(s)
  PROVE  \A t \in Stations : ServerHappens(t)
<1> DEFINE m == Head(up[s])
           x == [StopTimer(wpa[s]) EXCEPT !.gstate = "REKEYESTABLISHED"]
<1>1. CASE RecvBadGroup(s) /\ MicFailure(s)
  BY <1>1, MicFailureHappens
<1>2. CASE RecvGroup(s) \/ (RecvBadGroup(s) /\ ~MicFailure(s))
  <2>1. /\ Receives(s) /\ Consumed(s) /\ sup' = sup /\ late' = late /\ drv' = drv /\ down' = down
        /\ ~Pairwise(m)
        /\ \/ wpa' = [wpa EXCEPT ![s] = StopTimer(wpa[s])]
           \/ wpa' = [wpa EXCEPT ![s] = x] /\ AcceptsGroup(wpa[s], m)
    BY <1>2 DEF RecvGroup, RecvBadGroup
  <2>2. /\ up'[s] = Tail(up[s]) /\ sup'[s] = sup[s] /\ late'[s] = late[s]
        /\ \A t \in Stations : t # s => ChannelsKept(t)
    BY <2>1, ConsumedSlots
  <2>3. /\ \A t \in Stations : t # s => wpa'[t] = wpa[t]
        /\ wpa'[s] = StopTimer(wpa[s]) \/ (wpa'[s] = x /\ AcceptsGroup(wpa[s], m))
    BY <2>1 DEF TypeOK
  <2>4. Ignores(s) \/ Establishes(s)
    BY <2>1, <2>2, <2>3 DEF Ignores, Establishes, Received
  <2> QED BY <2>1, <2>2, <2>3, <2>4, OthersIdle DEF ServerHappens, ChannelsKept
<1> QED BY <1>1, <1>2

LEMMA TimerHappens ==
  ASSUME TypeOK, NEW s \in Stations, Timer(s)
  PROVE  \A t \in Stations : ServerHappens(t)
<1>1. CASE ResendTimerFires(s)
  <2>1. /\ wpa' = [wpa EXCEPT ![s] = Expired(wpa[s])] /\ budget["timeout"] > 0
        /\ drv' = drv /\ down' = down /\ up' = up /\ sup' = sup
        /\ \E l \in {"give-up", "resend"} : late' = [late EXCEPT ![s] = l]
    BY <1>1 DEF ResendTimerFires, Spend
  <2>2. /\ wpa'[s] = Expired(wpa[s]) /\ late'[s] # "no"
        /\ \A t \in Stations : t # s => wpa'[t] = wpa[t] /\ late'[t] = late[t]
    BY <2>1 DEF TypeOK
  <2>3. TimesOut(s)
    BY <2>1, <2>2 DEF TimesOut, ChannelsKept
  <2> QED BY <2>1, <2>2, <2>3, OthersIdle DEF ServerHappens
<1>2. CASE ResendFrame(s)
  <2>1. /\ late[s] = "resend" /\ late' = [late EXCEPT ![s] = "no"]
        /\ drv' = drv /\ up' = up /\ sup' = sup
    BY <1>2 DEF ResendFrame
  <2>2. \A t \in Stations : t # s => late'[t] = late[t]
    BY <2>1 DEF TypeOK
  <2>3. CASE wpa[s].state = "IDLE"
    <3>1. wpa' = wpa /\ down' = down
      BY <1>2, <2>3 DEF ResendFrame
    <3>2. Repeats(s)
      BY <2>1, <2>3, <3>1 DEF Repeats, ChannelsKept
    <3> QED BY <2>1, <2>2, <3>1, <3>2, OthersIdle DEF ServerHappens
  <2>4. CASE wpa[s].state # "IDLE"
    <3>1. PICK b \in (IF SkbMayFail THEN BOOLEAN ELSE {TRUE}) :
            /\ wpa' = [wpa EXCEPT ![s] = Resent(wpa[s], b)]
            /\ down' = IF b /\ drv[s].asoc
                       THEN [down EXCEPT ![s] = Append(down[s], ResentFrame(wpa[s]))]
                       ELSE down
      BY <1>2, <2>4 DEF ResendFrame
    <3>2. b \in BOOLEAN /\ (b \/ SkbMayFail)
      BY <3>1
    <3>3. /\ wpa'[s] = Resent(wpa[s], b)
          /\ down'[s] = IF b /\ drv[s].asoc THEN Append(down[s], ResentFrame(wpa[s])) ELSE down[s]
          /\ \A t \in Stations : t # s => wpa'[t] = wpa[t] /\ down'[t] = down[t]
      BY <3>1 DEF TypeOK
    <3>4. Repeats(s)
      BY <2>1, <3>2, <3>3 DEF Repeats, ChannelsKept
    <3> QED BY <2>1, <2>2, <3>3, <3>4, OthersIdle DEF ServerHappens
  <2> QED BY <2>3, <2>4
<1>3. CASE ResendGiveUp(s)
  <2>1. /\ late' = [late EXCEPT ![s] = "no"]
        /\ \/ Release(s, StopTimer(wpa[s]))
           \/ /\ wpa' = wpa /\ drv' = drv /\ down' = down /\ up' = up /\ sup' = sup
              /\ ~drv[s].asoc \/ wpa[s].state = "PTKINITDONE"
    BY <1>3 DEF ResendGiveUp, KeptAlone, GroupTimeout
  <2>2. \A t \in Stations : t # s => late'[t] = late[t]
    BY <2>1 DEF TypeOK
  <2>3. CASE Release(s, StopTimer(wpa[s]))
    BY <2>2, <2>3, ReleaseHappens
  <2>4. CASE ~Release(s, StopTimer(wpa[s]))
    <3>1. Remains(s)
      BY <2>1, <2>4 DEF Remains, ChannelsKept
    <3> QED BY <2>1, <2>2, <2>4, <3>1, OthersIdle DEF ServerHappens
  <2> QED BY <2>3, <2>4
<1> QED BY <1>1, <1>2, <1>3 DEF Timer

LEMMA RekeyHappens ==
  ASSUME TypeOK, GKRekeyTimeout
  PROVE  \A t \in Stations : ServerHappens(t)
<1>1. PICK F \in AllocFailures : UpdateGK(gbl, TRUE, wpa, {}, F)
  BY DEF GKRekeyTimeout
<1>2. drv' = drv /\ late' = late /\ up' = up /\ sup' = sup
  BY DEF GKRekeyTimeout
<1>3. wpa \in [Stations -> StaInfo] /\ gbl \in GlobalInfo
  BY DEF TypeOK
<1>4. ~gbl'.GInitAKeys
  BY <1>1, <1>3, UpdateGKQuiet
<1>5. \A t \in Stations : Slot(t, wpa[t], {})
  BY <1>1, <1>3, RekeySlot
<1>6. ASSUME NEW t \in Stations, Starts(t, wpa[t])
      PROVE  ServerHappens(t)
  BY <1>2, <1>4, <1>6 DEF ServerHappens, Rekeyed, Starts, ChannelsKept
<1>7. ASSUME NEW t \in Stations, wpa'[t] = wpa[t], down'[t] = down[t]
      PROVE  ServerHappens(t)
  BY <1>2, <1>7 DEF ServerHappens, NothingHappens, ChannelsKept
<1> QED BY <1>5, <1>6, <1>7 DEF Slot

LEMMA EnvironmentHappens ==
  ASSUME TypeOK, NEW s \in Stations, Supplicant(s) \/ Channel(s)
  PROVE  \A t \in Stations : ServerHappens(t) \/ StationHappens(t)
<1>1. /\ UNCHANGED apVars
      /\ \A t \in Stations : t # s => down'[t] = down[t] /\ up'[t] = up[t] /\ sup'[t] = sup[t]
  BY DEF Supplicant, Channel, SupMsg1, SupMsg3, SupGroup, SupAnswers, SupDiscard,
         SupDuplicate, SupRequest, LoseDown, LoseUp, Overtake, TypeOK
<1>2. StationHappens(s)
  BY <1>1 DEF StationHappens, apVars
<1> QED BY <1>1, <1>2, OthersIdle DEF apVars

LEMMA StepHappens ==
  ASSUME TypeOK, Next
  PROVE  \A t \in Stations : ServerHappens(t) \/ StationHappens(t)
BY MembershipHappens, PairwiseHappens, GroupHappens, TimerHappens, RekeyHappens,
   EnvironmentHappens DEF Next

-----------------------------------------------------------------------------
(* The same steps by what they do to the fields of the entry and to the    *)
(* frames in flight.                                                       *)

\* The frame f is sent to t, whose entry is z before, over the channel q.
Sending(t, z, q, f) == LET y == wpa'[t] IN
  /\ down'[t] = q \/ down'[t] = Append(q, f)
  /\ f.rc = z.rc /\ y.rc > z.rc /\ y.msg = f /\ (SkbMayFail \/ y.resendTimer)
  /\ y.state = z.state /\ y.gstate = z.gstate /\ y.PTK = z.PTK /\ y.wpa2 = z.wpa2
  /\ z.state = "PTKSTART" =>
       /\ y.ANonce = z.ANonce + 1 /\ y.started = z.rc
       /\ f.step = "4-1" /\ f.key.n = y.ANonce /\ f.gtk = 0
  /\ z.state # "PTKSTART" => y.ANonce = z.ANonce /\ y.started = z.started
  /\ z.state = "PTKINITNEGOTIATING" =>
       f.step = "4-3" /\ f.gtk = IF z.wpa2 THEN gbl'.GTK ELSE 0
  /\ z.state \notin {"PTKSTART", "PTKINITNEGOTIATING"} => f.step = "2-1" /\ f.gtk = gbl'.GTK

LEMMA SendsFields ==
  ASSUME gbl' \in GlobalInfo, NEW t \in Stations, NEW z \in StaInfo, NEW q, Sends(t, z, q)
  PROVE  \E f \in Frames : Sending(t, z, q, f)
<1> DEFINE g == gbl'.GTK
           f == Frame(Prepared(z), g)
<1>1. PICK b \in BOOLEAN :
        /\ b \/ SkbMayFail
        /\ wpa'[t] = Sent(z, g, b)
        /\ down'[t] = IF b THEN Append(q, f) ELSE q
  BY DEF Sends
<1>2. g \in Nat /\ f \in Frames
  BY PreparedType, FrameType DEF GlobalInfo
<1>3. LET y == Sent(z, g, b) IN
      /\ y.state = z.state /\ y.gstate = z.gstate /\ y.PTK = z.PTK /\ y.wpa2 = z.wpa2
      /\ y.rc > z.rc /\ f.rc = z.rc /\ y.msg = f
      /\ y.resendTimer = (z.resendTimer \/ b)
      /\ z.state = "PTKSTART" =>
           /\ y.ANonce = z.ANonce + 1 /\ y.started = z.rc
           /\ f.step = "4-1" /\ f.key.n = y.ANonce /\ f.gtk = 0
      /\ z.state # "PTKSTART" => y.ANonce = z.ANonce /\ y.started = z.started
      /\ z.state = "PTKINITNEGOTIATING" =>
           f.step = "4-3" /\ f.gtk = IF z.wpa2 THEN g ELSE 0
      /\ z.state \notin {"PTKSTART", "PTKINITNEGOTIATING"} => f.step = "2-1" /\ f.gtk = g
  BY <1>2, SentFields
<1> HIDE DEF f
<1>4. Sending(t, z, q, f)
  BY <1>1, <1>3 DEF Sending, g
<1> QED BY <1>2, <1>4

Takes(t) == up[t] # <<>> /\ up'[t] = Tail(up[t]) /\ drv[t].asoc

\* Neither the channel to t nor what the handshake knows is touched.
Stays(t) == LET x == wpa[t]  y == wpa'[t] IN
  /\ y.state = x.state /\ y.rc = x.rc /\ y.started = x.started /\ y.ANonce = x.ANonce
  /\ y.PTK = x.PTK /\ y.wpa2 = x.wpa2 /\ y.msg = x.msg
  /\ down'[t] = down[t] /\ sup'[t] = sup[t] /\ drv'[t] = drv[t]
  /\ up'[t] = up[t] \/ Takes(t)
  /\ y.gstate = x.gstate \/ (Takes(t) /\ ~Pairwise(Head(up[t])))
  /\ \/ y.resendTimer = x.resendTimer /\ late'[t] = late[t]
     \/ late'[t] # "no"
     \/ ~drv[t].asoc \/ x.state \in {"IDLE", "PTKINITDONE"}
     \/ Takes(t) /\ ~Pairwise(Head(up[t]))

Enters(t) == LET y == wpa'[t] IN
  /\ up'[t] = <<>> /\ sup'[t] = NewSup /\ drv'[t] = [Absent EXCEPT !.asoc = TRUE]
  /\ y.state = "PTKSTART" /\ y.gstate = "REKEYNEGOTIATING"
  /\ y.wpa2 = (Security[t] = "WPA2") /\ (SkbMayFail \/ y.resendTimer)
  /\ \E f \in Frames :
       /\ down'[t] = <<>> \/ down'[t] = Append(<<>>, f)
       /\ f.rc < y.rc /\ y.msg = f /\ y.started = f.rc
       /\ f.step = "4-1" /\ f.key.n = y.ANonce /\ f.gtk = 0

\* The frame f is sent to a station that is in.
Emits(t, f) == LET x == wpa[t]  y == wpa'[t] IN
  /\ sup'[t] = sup[t] /\ drv'[t].asoc = drv[t].asoc
  /\ down'[t] = down[t] \/ (drv[t].asoc /\ down'[t] = Append(down[t], f))
  /\ x.rc <= f.rc /\ f.rc < y.rc /\ y.msg = f /\ (SkbMayFail \/ y.resendTimer)
  /\ y.wpa2 = x.wpa2

\* After a request of t: message 1.
Offers(t) == LET x == wpa[t]  y == wpa'[t] IN
  /\ Takes(t) /\ Request(Head(up[t])) /\ drv'[t] = drv[t]
  /\ x.state = "PTKINITDONE" /\ y.state = "PTKSTART" /\ y.ANonce = x.ANonce + 1
  /\ y.gstate = x.gstate
  /\ \E f \in Frames :
       /\ Emits(t, f) /\ y.started = f.rc
       /\ f.step = "4-1" /\ f.key.n = y.ANonce /\ f.gtk = 0

\* After a good message 2: message 3.
Accepts(t) == LET x == wpa[t]  y == wpa'[t]  m == Head(up[t]) IN
  /\ Takes(t) /\ IsMsg2(x, m) /\ m.step = "4-2" /\ m.key.n = x.ANonce /\ drv'[t] = drv[t]
  /\ y.state = "PTKINITNEGOTIATING" /\ y.ANonce = x.ANonce /\ y.started = x.started
  /\ y.gstate = x.gstate
  /\ \E f \in Frames :
       /\ Emits(t, f) /\ f.step = "4-3"
       /\ IF x.wpa2 THEN f.gtk = gbl'.GTK /\ ~gbl'.GInitAKeys ELSE f.gtk = 0

\* Message 1 of the group key handshake.
Offers21(t) == \E f \in Frames :
  Emits(t, f) /\ f.step = "2-1" /\ f.gtk = gbl'.GTK /\ ~gbl'.GInitAKeys

\* After what is taken for message 4.
Completes(t) == LET x == wpa[t]  y == wpa'[t]  m == Head(up[t]) IN
  /\ Takes(t) /\ Pairwise(m) /\ IsMsg4(x, m) /\ m.key = x.PTK
  /\ drv'[t].ptk = x.PTK /\ drv'[t].asoc
  /\ y.state = "PTKINITDONE" /\ y.ANonce = x.ANonce /\ y.started = x.started
  /\ y.gstate = "REKEYESTABLISHED" => x.wpa2
  /\ \/ /\ sup'[t] = sup[t] /\ down'[t] = down[t]
        /\ y.rc >= x.rc /\ y.msg = x.msg /\ y.wpa2 = x.wpa2
     \/ Offers21(t)

Updates(t) == LET x == wpa[t]  y == wpa'[t] IN
  /\ drv[t].asoc /\ up'[t] = up[t] /\ drv'[t] = drv[t]
  /\ x.state = "PTKINITDONE" /\ y.state = "PTKINITDONE"
  /\ y.ANonce = x.ANonce /\ y.started = x.started
  /\ y.gstate = "REKEYNEGOTIATING"
  /\ Offers21(t)

\* The resend timer: the last frame again.
Again(t) == LET x == wpa[t]  y == wpa'[t] IN
  /\ late[t] = "resend" /\ up'[t] = up[t] /\ drv'[t] = drv[t]
  /\ y.state = x.state /\ y.ANonce = x.ANonce /\ y.started = x.started /\ y.gstate = x.gstate
  /\ \E f \in Frames :
       /\ Emits(t, f) /\ f.step = x.msg.step /\ f.gtk = x.msg.gtk
       /\ f.step = "4-1" => f.key = x.msg.key

ServerCase(t) == Stays(t) \/ Gone(t) \/ Enters(t) \/ Offers(t) \/ Accepts(t) \/ Completes(t)
                   \/ Updates(t) \/ Again(t)

LEMMA EmitsWhenSending ==
  ASSUME TypeOK, NEW t \in Stations, NEW z \in StaInfo, NEW f \in Frames,
         Sending(t, z, down[t], f), z.rc >= wpa[t].rc, z.wpa2 = wpa[t].wpa2,
         sup'[t] = sup[t], drv'[t].asoc = drv[t].asoc, drv[t].asoc
  PROVE  Emits(t, f)
<1>1. z.rc \in Nat /\ wpa[t].rc \in Nat
  BY DEF TypeOK, StaInfo
<1>2. /\ down'[t] = down[t] \/ down'[t] = Append(down[t], f)
      /\ f.rc = z.rc /\ wpa'[t].rc > z.rc /\ wpa'[t].msg = f
      /\ SkbMayFail \/ wpa'[t].resendTimer
      /\ wpa'[t].wpa2 = z.wpa2
  BY DEF Sending
<1>3. wpa[t].rc <= f.rc /\ f.rc < wpa'[t].rc
  BY <1>1, <1>2
<1>4. wpa'[t].wpa2 = wpa[t].wpa2
  BY <1>2
<1> QED BY <1>2, <1>3, <1>4 DEF Emits

LEMMA SomeStay ==
  ASSUME TypeOK, NEW t \in Stations,
         NothingHappens(t) \/ Ignores(t) \/ Establishes(t) \/ TimesOut(t) \/ Remains(t)
  PROVE  Stays(t)
<1>1. wpa[t] \in StaInfo
  BY DEF TypeOK
<1>2. CASE NothingHappens(t)
  BY <1>2 DEF NothingHappens, ChannelsKept, Stays
<1>3. CASE Ignores(t)
  BY <1>1, <1>3, StopTimerFields DEF Ignores, Received, Receives, Stays, Takes
<1>4. CASE Establishes(t)
  BY <1>1, <1>4, EstablishedFields DEF Establishes, Received, Receives, Stays, Takes
<1>5. CASE TimesOut(t)
  BY <1>1, <1>5, ExpiredFields DEF TimesOut, ChannelsKept, Stays
<1>6. CASE Remains(t)
  BY <1>6 DEF Remains, ChannelsKept, Stays
<1> QED BY <1>2, <1>3, <1>4, <1>5, <1>6

LEMMA ServerCases ==
  ASSUME TypeOK, TypeOK', NEW t \in Stations, ServerHappens(t)
  PROVE  ServerCase(t)
<1> DEFINE x == wpa[t]
<1>1. x \in StaInfo /\ x.rc \in Nat /\ gbl' \in GlobalInfo /\ drv[t] \in DriverInfo
  BY DEF TypeOK, StaInfo
<1>2. Receives(t) => Head(up[t]) \in Frames
  BY HeadType
<1>3. CASE Joined(t)
  <2>1. PICK r \in {0, 1} : Sends(t, Fresher(t, r), <<>>)
    BY <1>3 DEF Joined
  <2>2. LET z == Fresher(t, r) IN
        /\ z \in StaInfo /\ z.state = "PTKSTART" /\ z.gstate = "REKEYNEGOTIATING"
        /\ z.wpa2 = (Security[t] = "WPA2")
    BY FresherFields
  <2>3. PICK f \in Frames : Sending(t, Fresher(t, r), <<>>, f)
    BY <1>1, <2>1, <2>2, SendsFields
  <2>4. Enters(t)
    BY <1>3, <2>2, <2>3 DEF Joined, Sending, Enters
  <2> QED BY <2>4 DEF ServerCase
<1>4. CASE Rekeyed(t)
  <2>1. PICK f \in Frames : Sending(t, StartGroupHandshake(x), down[t], f)
    BY <1>1, <1>4, StartGroupType, SendsFields DEF Rekeyed
  <2> DEFINE u == StartGroupHandshake(x)
  <2>2. /\ u \in StaInfo /\ u.state = x.state /\ u.gstate = "REKEYNEGOTIATING" /\ u.rc = x.rc
        /\ u.started = x.started /\ u.ANonce = x.ANonce /\ u.wpa2 = x.wpa2
    BY <1>1, StartGroupFields, StartGroupType
  <2>3. /\ drv[t].asoc /\ x.state = "PTKINITDONE" /\ ~gbl'.GInitAKeys
        /\ drv'[t] = drv[t] /\ up'[t] = up[t] /\ sup'[t] = sup[t]
    BY <1>4 DEF Rekeyed, ChannelsKept
  <2> HIDE DEF u
  <2>4. Sending(t, u, down[t], f)
    BY <2>1 DEF u
  <2>5. Emits(t, f)
    BY <1>1, <2>2, <2>3, <2>4, EmitsWhenSending
  <2>6. Updates(t)
    BY <2>2, <2>3, <2>4, <2>5 DEF Sending, Updates, Offers21
  <2> QED BY <2>6 DEF ServerCase
<1>5. CASE Negotiates(t)
  <2> DEFINE m == Head(up[t])
             z == Proved(x, m)
  <2>1. /\ m \in Frames /\ IsMsg2(x, m) /\ ProvesPSK(x, m) /\ drv'[t] = drv[t]
        /\ Takes(t) /\ sup'[t] = sup[t] /\ (x.wpa2 => ~gbl'.GInitAKeys)
    BY <1>2, <1>5 DEF Negotiates, Received, Receives, Takes
  <2>2. PICK f \in Frames : Sending(t, z, down[t], f)
    BY <1>1, <1>5, <2>1, ProvedType, SendsFields DEF Negotiates
  <2>3. /\ z.state = "PTKINITNEGOTIATING" /\ z.gstate = x.gstate /\ z.rc = x.rc
        /\ z.started = x.started /\ z.ANonce = x.ANonce /\ z.wpa2 = x.wpa2
    BY <1>1, <2>1, ProvedFields
  <2> HIDE DEF z
  <2>4. Emits(t, f) /\ f.step = "4-3" /\ f.gtk = IF x.wpa2 THEN gbl'.GTK ELSE 0
    <3>1. Emits(t, f)
      BY <1>1, <2>1, <2>2, <2>3, ProvedType, EmitsWhenSending DEF Takes, z
    <3> QED BY <2>2, <2>3, <3>1 DEF Sending
  <2>5. Accepts(t)
    BY <2>1, <2>2, <2>3, <2>4 DEF Accepts, Sending, ProvesPSK
  <2> QED BY <2>5 DEF ServerCase
<1>6. CASE Confirms(t)
  <2> DEFINE m == Head(up[t])
             z == Confirmed(x)
             u == StartGroupHandshake(z)
  <2>1. /\ Takes(t) /\ sup'[t] = sup[t] /\ Pairwise(m) /\ IsMsg4(x, m) /\ m.key = x.PTK
        /\ drv'[t] = Opened(x, drv[t])
    BY <1>6 DEF Confirms, Received, Receives, Takes
  <2>2. drv'[t].ptk = x.PTK /\ drv'[t].asoc = drv[t].asoc /\ drv[t].asoc
    BY <1>1, <2>1 DEF Opened, DriverInfo, Takes
  <2>3. /\ z \in StaInfo /\ z.state = "PTKINITDONE" /\ z.rc = x.rc + 2 /\ z.started = x.started
        /\ z.gstate = (IF x.wpa2 THEN "REKEYESTABLISHED" ELSE "REKEYNEGOTIATING")
        /\ z.ANonce = x.ANonce /\ z.wpa2 = x.wpa2 /\ z.msg = x.msg
    BY <1>1, ConfirmedFields, ConfirmedType
  <2>4. CASE wpa'[t] = z /\ down'[t] = down[t]
    <3> HIDE DEF z
    <3>1. Completes(t)
      BY <1>1, <2>1, <2>2, <2>3, <2>4 DEF Completes
    <3> QED BY <3>1 DEF ServerCase
  <2>5. CASE Sends(t, u, down[t]) /\ ~gbl'.GInitAKeys
    <3> HIDE DEF z
    <3>1. /\ u \in StaInfo /\ u.state = z.state /\ u.gstate = "REKEYNEGOTIATING" /\ u.rc = z.rc
          /\ u.started = z.started /\ u.ANonce = z.ANonce /\ u.wpa2 = z.wpa2
      BY <2>3, StartGroupFields, StartGroupType
    <3> HIDE DEF u
    <3>2. PICK f \in Frames : Sending(t, u, down[t], f)
      BY <1>1, <2>5, <3>1, SendsFields
    <3>3. Emits(t, f) /\ f.step = "2-1" /\ f.gtk = gbl'.GTK
      <4>1. u.rc >= x.rc /\ u.wpa2 = x.wpa2
        BY <1>1, <2>3, <3>1
      <4>2. drv'[t].asoc = drv[t].asoc /\ drv[t].asoc /\ sup'[t] = sup[t]
        BY <2>1, <2>2
      <4>3. Emits(t, f)
        BY <3>1, <3>2, <4>1, <4>2, EmitsWhenSending
      <4> QED BY <2>3, <3>1, <3>2, <4>3 DEF Sending
    <3>4. Completes(t)
      BY <2>1, <2>2, <2>3, <2>5, <3>1, <3>2, <3>3 DEF Completes, Sending, Offers21
    <3> QED BY <3>4 DEF ServerCase
  <2> QED BY <1>6, <2>4, <2>5 DEF Confirms
<1>7. CASE Restarts(t)
  <2> DEFINE m == Head(up[t])
             z == Restarted(x)
  <2>1. /\ Takes(t) /\ sup'[t] = sup[t] /\ Request(m) /\ x.state = "PTKINITDONE"
        /\ drv'[t] = drv[t]
    BY <1>7 DEF Restarts, Received, Receives, Takes
  <2>2. /\ z \in StaInfo /\ z.state = "PTKSTART" /\ z.rc = x.rc /\ z.gstate = x.gstate
        /\ z.ANonce = x.ANonce /\ z.wpa2 = x.wpa2
    BY <1>1, RestartedFields, RestartedType
  <2>3. Sends(t, z, down[t])
    BY <1>7 DEF Restarts
  <2> HIDE DEF z
  <2>4. PICK f \in Frames : Sending(t, z, down[t], f)
    BY <1>1, <2>2, <2>3, SendsFields
  <2>5. Emits(t, f) /\ f.step = "4-1"
    <3>1. Emits(t, f)
      BY <1>1, <2>1, <2>2, <2>4, EmitsWhenSending DEF Takes
    <3> QED BY <2>2, <2>4, <3>1 DEF Sending
  <2>6. Offers(t)
    BY <2>1, <2>2, <2>4, <2>5 DEF Offers, Sending
  <2> QED BY <2>6 DEF ServerCase
<1>8. CASE Repeats(t)
  <2>1. CASE x.state = "IDLE" /\ wpa'[t] = x /\ down'[t] = down[t]
    <3>1. Stays(t)
      BY <1>8, <2>1 DEF Repeats, ChannelsKept, Stays
    <3> QED BY <3>1 DEF ServerCase
  <2>2. CASE \E b \in BOOLEAN :
               /\ b \/ SkbMayFail
               /\ wpa'[t] = Resent(x, b)
               /\ down'[t] = IF b /\ drv[t].asoc THEN Append(down[t], ResentFrame(x)) ELSE down[t]
    <3> DEFINE f == ResentFrame(x)
    <3>1. PICK b \in BOOLEAN :
               /\ b \/ SkbMayFail
               /\ wpa'[t] = Resent(x, b)
               /\ down'[t] = IF b /\ drv[t].asoc THEN Append(down[t], f) ELSE down[t]
      BY <2>2
    <3>2. LET y == Resent(x, b) IN
          /\ y.state = x.state /\ y.gstate = x.gstate /\ y.rc = x.rc + 1
          /\ y.started = x.started /\ y.ANonce = x.ANonce /\ y.wpa2 = x.wpa2
          /\ y.resendTimer = (x.resendTimer \/ b) /\ y.msg = f
          /\ f.step = x.msg.step /\ f.rc = x.rc /\ f.gtk = x.msg.gtk
          /\ f.step = "4-1" => f.key = x.msg.key
      BY <1>1, ResentFields
    <3>3. f \in Frames
      BY <1>1, ResentType
    <3> HIDE DEF f
    <3>4. Emits(t, f)
      BY <1>1, <1>8, <3>1, <3>2 DEF Repeats, ChannelsKept, Emits
    <3>5. Again(t)
      BY <1>8, <3>1, <3>2, <3>3, <3>4 DEF Repeats, ChannelsKept, Again
    <3> QED BY <3>5 DEF ServerCase
  <2> QED BY <1>8, <2>1, <2>2 DEF Repeats
<1> QED BY <1>3, <1>4, <1>5, <1>6, <1>7, <1>8, SomeStay DEF ServerHappens, ServerCase

-----------------------------------------------------------------------------
(* What the station and the channels do.                                   *)

\* The station answers the next frame with r.
Answers(t, r) == LET m == Head(down[t]) IN
  /\ down[t] # <<>> /\ m \in Frames /\ m.rc >= sup[t].rc
  /\ down'[t] = Tail(down[t]) /\ up'[t] = Append(up[t], r) /\ sup'[t].last = r
  /\ r \in Frames /\ r.rc = m.rc

Answers1(t) == LET m == Head(down[t]) IN \E r :
  /\ Answers(t, r) /\ m.step = "4-1" /\ r.step = "4-2" /\ r.key.n = m.key.n
  /\ sup'[t].keys = sup[t].keys /\ sup'[t].ptk = sup[t].ptk
  /\ sup'[t].rc = sup[t].rc /\ sup'[t].gtk = sup[t].gtk

Answers3(t) == LET m == Head(down[t]) IN \E r :
  /\ Answers(t, r) /\ m.step = "4-3" /\ r.step = "4-4" /\ r.key = m.key
  /\ sup'[t].keys = sup[t].keys \cup {m.key} /\ sup'[t].ptk = m.key
  /\ sup'[t].rc = m.rc + 1
  /\ sup'[t].gtk = IF Security[t] = "WPA2" THEN m.gtk ELSE sup[t].gtk

AnswersGroup(t) == LET m == Head(down[t]) IN \E r :
  /\ Answers(t, r) /\ m.step = "2-1" /\ r.step = "2-2" /\ r.key = m.key /\ m.key = sup[t].ptk
  /\ sup'[t].keys = sup[t].keys /\ sup'[t].ptk = sup[t].ptk
  /\ sup'[t].rc = m.rc + 1 /\ sup'[t].gtk = m.gtk

\* A frame is refused, lost, sent again, overtaken, or asks for new keys.
Drops(t)  == down[t] # <<>> /\ down'[t] = Tail(down[t]) /\ ChannelsKept(t)
Misses(t) == /\ up[t] # <<>> /\ up'[t] = Tail(up[t])
             /\ down'[t] = down[t] /\ sup'[t] = sup[t]
Doubles(t) == /\ budget["duplicate"] > 0 /\ sup[t].last # NoFrame
              /\ up'[t] = Append(up[t], sup[t].last)
              /\ down'[t] = down[t] /\ sup'[t] = sup[t]
Swaps(t) == /\ budget["overtake"] > 0 /\ Len(up[t]) > 1
            /\ up'[t] = <<up[t][2], up[t][1]>> \o SubSeq(up[t], 3, Len(up[t]))
            /\ down'[t] = down[t] /\ sup'[t] = sup[t]
Asks(t) == /\ budget["request"] > 0 /\ sup[t].ptk # NoKey
           /\ \E r \in Frames : /\ up'[t] = Append(up[t], r)
                               /\ Request(r) /\ r.key = sup[t].ptk
           /\ down'[t] = down[t] /\ sup'[t] = sup[t]

StationCase(t) ==
  \/ Answers1(t) \/ Answers3(t) \/ AnswersGroup(t)
  \/ Drops(t) \/ Misses(t) \/ Doubles(t) \/ Swaps(t) \/ Asks(t)

LEMMA AnswerFields ==
  ASSUME TypeOK, NEW t \in Stations, down[t] # <<>>, NEW x \in SupInfo, NEW r \in Frames,
         SupAnswers(t, x, r), r.rc = Head(down[t]).rc, Head(down[t]).rc >= sup[t].rc
  PROVE  /\ Answers(t, r)
         /\ sup'[t].keys = x.keys /\ sup'[t].ptk = x.ptk /\ sup'[t].rc = x.rc /\ sup'[t].gtk = x.gtk
<1>1. sup'[t] = [x EXCEPT !.last = r] /\ down'[t] = Tail(down[t]) /\ up'[t] = Append(up[t], r)
  BY DEF SupAnswers, TypeOK
<1>2. Head(down[t]) \in Frames
  BY HeadType
<1> QED BY <1>1, <1>2 DEF Answers, SupInfo

LEMMA StationCases ==
  ASSUME TypeOK, NEW t \in Stations, StationHappens(t)
  PROVE  StationCase(t)
<1> DEFINE m == Head(down[t])
<1>1. down[t] # <<>> => m \in Frames /\ m.key \in Keys /\ m.rc \in Nat /\ m.gtk \in Nat
  BY HeadType DEF Frames
<1>2. sup[t] \in SupInfo /\ Passphrase[t] \in {"main", "guest", "wrong"}
  BY PassphraseAssumption DEF TypeOK
<1> HIDE DEF m
<1>3. CASE SupMsg1(t)
  <2> DEFINE k == [psk |-> Passphrase[t], n |-> m.key.n]
             x == [sup[t] EXCEPT !.tptk = k]
             r == Reply(t, "4-2", m, k, 0)
  <2>1. down[t] # <<>> /\ m.step = "4-1" /\ m.rc >= sup[t].rc /\ SupAnswers(t, x, r)
    BY <1>3 DEF SupMsg1, Fresh, m
  <2>2. k \in Keys
    BY <1>1, <1>2, <2>1 DEF Keys
  <2>3. r \in Frames
    BY <1>1, <2>1, <2>2, ReplyType DEF Steps
  <2>4. r.step = "4-2" /\ r.rc = m.rc /\ r.key.n = m.key.n
    BY DEF Reply
  <2> HIDE DEF k, r
  <2>5. /\ x \in SupInfo /\ x.keys = sup[t].keys /\ x.ptk = sup[t].ptk
        /\ x.rc = sup[t].rc /\ x.gtk = sup[t].gtk
    BY <1>2, <2>2 DEF SupInfo
  <2> HIDE DEF x
  <2>6. /\ Answers(t, r)
        /\ sup'[t].keys = x.keys /\ sup'[t].ptk = x.ptk /\ sup'[t].rc = x.rc /\ sup'[t].gtk = x.gtk
    BY <2>1, <2>3, <2>4, <2>5, AnswerFields DEF m
  <2>7. Answers1(t)
    BY <2>1, <2>4, <2>5, <2>6 DEF Answers1, m
  <2> QED BY <2>7 DEF StationCase
<1>4. CASE SupMsg3(t)
  <2> DEFINE g == IF Security[t] = "WPA2" THEN m.gtk ELSE sup[t].gtk
             h == IF Security[t] = "WPA2" THEN m.gtk ELSE 0
             ks == sup[t].keys \cup {m.key}
             c == m.rc + 1
             x == [sup[t] EXCEPT !.ptk = m.key, !.keys = ks, !.rc = c, !.gtk = g]
             r == Reply(t, "4-4", m, m.key, h)
  <2>1. down[t] # <<>> /\ m.step = "4-3" /\ m.rc >= sup[t].rc /\ SupAnswers(t, x, r)
    BY <1>4 DEF SupMsg3, Fresh, m
  <2>2. g \in Nat /\ h \in Nat /\ ks \in SUBSET Keys /\ c \in Nat
    BY <1>1, <1>2, <2>1 DEF SupInfo
  <2>3. r \in Frames
    BY <1>1, <2>1, <2>2, ReplyType DEF Steps
  <2>4. r.step = "4-4" /\ r.rc = m.rc /\ r.key = m.key
    BY DEF Reply
  <2> HIDE DEF r, ks, c
  <2>5. /\ x \in SupInfo /\ x.keys = ks /\ x.ptk = m.key /\ x.rc = c /\ x.gtk = g
    <3> HIDE DEF g
    <3> QED BY <1>1, <1>2, <2>1, <2>2 DEF SupInfo
  <2> HIDE DEF x
  <2>6. /\ Answers(t, r)
        /\ sup'[t].keys = x.keys /\ sup'[t].ptk = x.ptk /\ sup'[t].rc = x.rc /\ sup'[t].gtk = x.gtk
    BY <2>1, <2>3, <2>4, <2>5, AnswerFields DEF m
  <2>7. Answers3(t)
    BY <2>1, <2>4, <2>5, <2>6 DEF Answers3, m, ks, c
  <2> QED BY <2>7 DEF StationCase
<1>5. CASE SupGroup(t)
  <2> DEFINE c == m.rc + 1
             x == [sup[t] EXCEPT !.gtk = m.gtk, !.rc = c]
             r == Reply(t, "2-2", m, m.key, m.gtk)
  <2>1. /\ down[t] # <<>> /\ m.step = "2-1" /\ m.rc >= sup[t].rc /\ SupAnswers(t, x, r)
        /\ m.key = sup[t].ptk
    BY <1>5 DEF SupGroup, Fresh, m
  <2>2. r \in Frames /\ c \in Nat
    BY <1>1, <2>1, ReplyType DEF Steps
  <2>3. r.step = "2-2" /\ r.rc = m.rc /\ r.key = m.key
    BY DEF Reply
  <2> HIDE DEF r, c
  <2>4. /\ x \in SupInfo /\ x.keys = sup[t].keys /\ x.ptk = sup[t].ptk /\ x.rc = c /\ x.gtk = m.gtk
    BY <1>1, <1>2, <2>1, <2>2 DEF SupInfo
  <2> HIDE DEF x
  <2>5. /\ Answers(t, r)
        /\ sup'[t].keys = x.keys /\ sup'[t].ptk = x.ptk /\ sup'[t].rc = x.rc /\ sup'[t].gtk = x.gtk
    BY <2>1, <2>2, <2>3, <2>4, AnswerFields DEF m
  <2>6. AnswersGroup(t)
    BY <2>1, <2>3, <2>4, <2>5 DEF AnswersGroup, m, c
  <2> QED BY <2>6 DEF StationCase
<1>6. CASE SupDiscard(t) \/ LoseDown(t)
  <2>1. Drops(t)
    BY <1>6 DEF SupDiscard, LoseDown, Drops, ChannelsKept, TypeOK
  <2> QED BY <2>1 DEF StationCase
<1>7. CASE LoseUp(t)
  <2>1. Misses(t)
    BY <1>7 DEF LoseUp, Misses, TypeOK
  <2> QED BY <2>1 DEF StationCase
<1>8. CASE SupDuplicate(t)
  <2>1. Doubles(t)
    BY <1>8 DEF SupDuplicate, Spend, Doubles, TypeOK
  <2> QED BY <2>1 DEF StationCase
<1>9. CASE Overtake(t)
  <2>1. Swaps(t)
    BY <1>9 DEF Overtake, Spend, Swaps, TypeOK
  <2> QED BY <2>1 DEF StationCase
<1>10. CASE SupRequest(t)
  <2>1. PICK step \in {"pairwise-request", "group-request"} :
          up' = [up EXCEPT ![t] = Append(up[t], [step |-> step, rc |-> 0, key |-> sup[t].ptk, gtk |-> 0])]
    BY <1>10 DEF SupRequest
  <2> DEFINE r == [step |-> step, rc |-> 0, key |-> sup[t].ptk, gtk |-> 0]
  <2>2. r \in Frames /\ Request(r) /\ r.key = sup[t].ptk
    BY <1>2 DEF Frames, Steps, SupInfo, Request
  <2> HIDE DEF r
  <2>3. up'[t] = Append(up[t], r)
    BY <2>1 DEF TypeOK, r
  <2>4. Asks(t)
    BY <1>10, <2>2, <2>3 DEF SupRequest, Spend, Asks
  <2> QED BY <2>4 DEF StationCase
<1> QED BY <1>3, <1>4, <1>5, <1>6, <1>7, <1>8, <1>9, <1>10
   DEF StationHappens, Supplicant, Channel

\* The access point has no part in a step of the station or of the channels.
ServerIdle(t) == wpa'[t] = wpa[t] /\ drv'[t] = drv[t] /\ late'[t] = late[t] /\ gbl' = gbl

SlotStep(t) == ServerCase(t) \/ (StationCase(t) /\ ServerIdle(t))

LEMMA SlotSteps ==
  ASSUME TypeOK, TypeOK', Next
  PROVE  \A t \in Stations : SlotStep(t)
<1>1. ASSUME NEW t \in Stations, ServerHappens(t)
      PROVE  SlotStep(t)
  BY <1>1, ServerCases DEF SlotStep
<1>2. ASSUME NEW t \in Stations, StationHappens(t)
      PROVE  SlotStep(t)
  BY <1>2, StationCases DEF SlotStep, StationHappens, ServerIdle
<1> QED BY <1>1, <1>2, StepHappens

\* An entry that is left or taken.
LEMMA FreshFlow ==
  ASSUME NEW t \in Stations
  PROVE  /\ Gone(t) => Upward(t)' = {} /\ Downward(t)' = {} /\ sup'[t] = NewSup /\ ~drv'[t].asoc
         /\ Enters(t) => Upward(t)' = {} /\ Downward(t)' \subseteq {wpa'[t].msg}
                        /\ sup'[t] = NewSup /\ drv'[t].asoc
<1>1. Elems(<<>>) = {}
  BY DEF Elems
<1>2. CASE Gone(t)
  BY <1>1, <1>2 DEF Gone, Enters, Upward, Downward, NewSup, Absent
<1>3. CASE Enters(t)
  <2>1. PICK f \in Frames : wpa'[t].msg = f /\ (down'[t] = <<>> \/ down'[t] = Append(<<>>, f))
    BY <1>3 DEF Enters
  <2>2. <<>> \in Seq(Frames)
    OBVIOUS
  <2>3. Elems(down'[t]) \subseteq {wpa'[t].msg}
    BY <1>1, <2>1, <2>2, ElemsAppend
  <2>4. up'[t] = <<>> /\ sup'[t] = NewSup /\ drv'[t] = [Absent EXCEPT !.asoc = TRUE]
    BY <1>3 DEF Enters
  <2> QED BY <1>1, <1>3, <2>3, <2>4 DEF Upward, Downward, NewSup, Absent, Gone
<1> QED BY <1>2, <1>3

\* The frames in flight as sets: what leaves, and the one that is added.
LEMMA ServerFlow ==
  ASSUME TypeOK, NEW t \in Stations, ServerCase(t)
  PROVE  /\ Upward(t)' \subseteq Upward(t)
         /\ sup'[t] = sup[t] \/ (sup'[t] = NewSup /\ Upward(t)' = {})
         /\ \/ Downward(t)' \subseteq Downward(t)
            \/ /\ Downward(t)' \subseteq Downward(t) \cup {wpa'[t].msg}
               /\ drv'[t].asoc
<1>1. up[t] \in Seq(Frames) /\ down[t] \in Seq(Frames)
  BY DEF TypeOK
<1>2. Takes(t) => Elems(up'[t]) \subseteq Elems(up[t])
  BY <1>1, ElemsTail DEF Takes
<1>3. Elems(<<>>) = {}
  BY DEF Elems
<1>4. CASE Stays(t)
  BY <1>2, <1>4 DEF Stays, Upward, Downward
<1>5. CASE Gone(t)
  BY <1>3, <1>5 DEF Gone, Upward, Downward, NewSup
<1>6. CASE Enters(t)
  BY <1>6, FreshFlow
<1>7. ASSUME NEW f \in Frames, Emits(t, f), up'[t] = up[t] \/ Takes(t)
      PROVE  /\ Upward(t)' \subseteq Upward(t) /\ sup'[t] = sup[t]
             /\ \/ Downward(t)' \subseteq Downward(t)
                \/ Downward(t)' \subseteq Downward(t) \cup {wpa'[t].msg} /\ drv'[t].asoc
  <2>1. sup'[t] = sup[t] /\ wpa'[t].msg = f /\ drv'[t].asoc = drv[t].asoc
        /\ (down'[t] = down[t] \/ (drv[t].asoc /\ down'[t] = Append(down[t], f)))
    BY <1>7 DEF Emits
  <2>2. Elems(down'[t]) \subseteq Elems(down[t])
          \/ (drv'[t].asoc /\ Elems(down'[t]) \subseteq Elems(down[t]) \cup {f})
    BY <1>1, <2>1, ElemsAppend
  <2> QED BY <1>2, <1>7, <2>1, <2>2 DEF Upward, Downward
<1>8. CASE Completes(t) /\ sup'[t] = sup[t] /\ down'[t] = down[t]
  BY <1>2, <1>8 DEF Completes, Upward, Downward
<1>9. CASE Offers(t) \/ Accepts(t) \/ Updates(t) \/ Again(t)
             \/ (Completes(t) /\ ~(sup'[t] = sup[t] /\ down'[t] = down[t]))
  <2>1. \E f \in Frames : Emits(t, f) /\ (up'[t] = up[t] \/ Takes(t))
    BY <1>9 DEF Offers, Accepts, Updates, Again, Completes, Offers21
  <2> QED BY <1>7, <2>1
<1> QED BY <1>4, <1>5, <1>6, <1>8, <1>9 DEF ServerCase

LEMMA AnswerFlow ==
  ASSUME TypeOK, NEW t \in Stations, NEW r, Answers(t, r)
  PROVE  /\ Head(down[t]) \in Downward(t) /\ Downward(t)' \subseteq Downward(t)
         /\ Upward(t)' \subseteq Upward(t) \cup {r}
<1>1. up[t] \in Seq(Frames) /\ down[t] \in Seq(Frames)
  BY DEF TypeOK
<1>2. /\ down[t] # <<>> /\ down'[t] = Tail(down[t]) /\ up'[t] = Append(up[t], r)
      /\ sup'[t].last = r /\ r \in Frames
  BY DEF Answers
<1>3. Elems(up'[t]) = Elems(up[t]) \cup {r}
  BY <1>1, <1>2, ElemsAppend
<1>4. Head(down[t]) \in Elems(down[t]) /\ Elems(down'[t]) \subseteq Elems(down[t])
  BY <1>1, <1>2, ElemsTail
<1> QED BY <1>2, <1>3, <1>4 DEF Upward, Downward

LEMMA ChannelFlow ==
  ASSUME TypeOK, NEW t \in Stations, Drops(t) \/ Misses(t) \/ Doubles(t) \/ Swaps(t)
  PROVE  /\ Downward(t)' \subseteq Downward(t) /\ Upward(t)' \subseteq Upward(t)
         /\ sup'[t] = sup[t]
<1>1. up[t] \in Seq(Frames) /\ down[t] \in Seq(Frames) /\ sup[t].last \in Frames
  BY DEF TypeOK, SupInfo
<1>2. CASE Drops(t)
  <2>1. Elems(down'[t]) \subseteq Elems(down[t])
    BY <1>1, <1>2, ElemsTail DEF Drops
  <2> QED BY <1>2, <2>1 DEF Drops, ChannelsKept, Upward, Downward
<1>3. CASE Misses(t)
  <2>1. Elems(up'[t]) \subseteq Elems(up[t])
    BY <1>1, <1>3, ElemsTail DEF Misses
  <2> QED BY <1>3, <2>1 DEF Misses, Upward, Downward
<1>4. CASE Doubles(t)
  <2>1. Elems(up'[t]) = Elems(up[t]) \cup {sup[t].last}
    BY <1>1, <1>4, ElemsAppend DEF Doubles
  <2> QED BY <1>4, <2>1 DEF Doubles, Upward, Downward
<1>5. CASE Swaps(t)
  <2>1. Elems(up'[t]) \subseteq Elems(up[t])
    BY <1>1, <1>5, ElemsOvertaken DEF Swaps
  <2> QED BY <1>5, <2>1 DEF Swaps, Upward, Downward
<1> QED BY <1>2, <1>3, <1>4, <1>5

LEMMA AskFlow ==
  ASSUME TypeOK, NEW t \in Stations, Asks(t)
  PROVE  /\ Downward(t)' \subseteq Downward(t) /\ sup'[t] = sup[t] /\ budget["request"] > 0
         /\ sup[t].ptk # NoKey
         /\ \E r \in Frames : /\ Upward(t)' \subseteq Upward(t) \cup {r}
                             /\ Request(r) /\ r.key = sup[t].ptk
<1>1. PICK r \in Frames : up'[t] = Append(up[t], r) /\ Request(r) /\ r.key = sup[t].ptk
  BY DEF Asks
<1>2. Elems(up'[t]) = Elems(up[t]) \cup {r}
  BY <1>1, ElemsAppend DEF TypeOK
<1> QED BY <1>1, <1>2 DEF Asks, Upward, Downward

-----------------------------------------------------------------------------
(* The invariant.                                                          *)

\* No station asks for new keys; no frame is resent; the frames of a station
\* are neither repeated nor overtaken.
NoRequests == Budget["request"] = 0
NoResends  == Budget["timeout"] = 0
InOrder    == Budget["duplicate"] = 0 /\ Budget["overtake"] = 0

GlobalInv ==
  /\ \A k \in Kinds : budget[k] <= Budget[k]
  /\ ~gbl.GInitAKeys => gbl.GTK >= 1
  /\ NoResends => \A t \in Stations : late[t] = "no"

\* Nothing is in flight to or from a station that is not in.
EntryInv(t) ==
  /\ ~drv[t].asoc => down[t] = <<>> /\ up[t] = <<>> /\ sup[t] = NewSup
  /\ drv[t].asoc => wpa[t].state # "IDLE" /\ (wpa[t].wpa2 <=> Security[t] = "WPA2")

\* The counters of q grow, from lo on and below hi.
Ordered(q, lo, hi) ==
  \A i \in 1 .. Len(q) : /\ lo <= q[i].rc /\ q[i].rc < hi
                        /\ \A j \in 1 .. Len(q) : i < j => q[i].rc < q[j].rc

CounterInv(t) == sup[t].rc <= wpa[t].rc /\ Ordered(down[t], sup[t].rc, wpa[t].rc)

\* What the station sends, and the keys it sends it with.
UpwardInv(t) ==
  /\ sup[t].ptk \in sup[t].keys \cup {NoKey}
  /\ \A m \in Upward(t) :
       /\ m.step \in {"4-2", "4-4", "2-2"} \/ (Request(m) /\ Budget["request"] > 0)
       /\ m.step # "4-2" => m.key \in sup[t].keys \cup {NoKey}

\* No nonce is ahead of the one of the handshake.
NonceFlight(t) ==
  /\ wpa[t].msg.step = "4-1" => wpa[t].msg.key.n <= wpa[t].ANonce
  /\ wpa[t].state = "PTKINITNEGOTIATING" => wpa[t].msg.step = "4-3"
  /\ \A m \in Downward(t) : m.step = "4-1" => m.key.n <= wpa[t].ANonce
  /\ \A m \in Upward(t) : m.step = "4-2" => m.key.n <= wpa[t].ANonce

\* A frame to t that may carry a group key carries one.
CarriesGTK(t, m, g) ==
  /\ m.gtk <= g
  /\ m.step = "2-1" \/ (m.step = "4-3" /\ Security[t] = "WPA2") => m.gtk >= 1

GTKInv(t) ==
  /\ sup[t].gtk <= gbl.GTK
  /\ Security[t] = "WPA2" /\ sup[t].keys # {} => sup[t].gtk >= 1
  /\ \A m \in Upward(t) : m.step = "2-2" => sup[t].gtk >= 1
  /\ \A m \in Downward(t) : CarriesGTK(t, m, gbl.GTK)
  /\ drv[t].asoc => CarriesGTK(t, wpa[t].msg, gbl.GTK)

\* Without requests the group key handshake begins when the pairwise one has
\* ended.
GroupPhaseInv(t) ==
  NoRequests /\ drv[t].asoc /\ wpa[t].state # "PTKINITDONE" =>
    /\ wpa[t].msg.step # "2-1"
    /\ \A m \in Downward(t) : m.step # "2-1"
    /\ \A m \in Upward(t) : m.step # "2-2"

SupervisedInv(t) ==
  NoRequests /\ ~SkbMayFail /\ Handshaking(t) => wpa[t].resendTimer \/ late[t] # "no"

\* Without resends message 1 of this handshake, and its answer, have the
\* counter the handshake started with.
StartedInv(t) ==
  NoResends =>
    /\ \A m \in Downward(t) : m.step = "4-1" /\ m.key.n = wpa[t].ANonce => m.rc = wpa[t].started
    /\ \A m \in Upward(t) : m.step = "4-2" /\ m.key.n = wpa[t].ANonce => m.rc = wpa[t].started

\* In order, messages 2 arrive with growing counters, behind which the
\* messages still on their way to the station are.
Msgs2Ordered(q, d, hi) ==
  \A i \in 1 .. Len(q) : q[i].step = "4-2" =>
    /\ q[i].rc < hi
    /\ \A j \in 1 .. Len(q) : i < j /\ q[j].step = "4-2" => q[i].rc < q[j].rc
    /\ \A j \in 1 .. Len(d) : q[i].rc < d[j].rc

\* ... and once a message 2 is accepted there is no other of its handshake.
OnlyMsg2(t) ==
  wpa[t].state = "PTKINITNEGOTIATING" =>
    /\ \A m \in Downward(t) : m.step = "4-1" => m.key.n # wpa[t].ANonce
    /\ \A m \in Elems(up[t]) : m.step = "4-2" => m.key.n # wpa[t].ANonce

OrderInv(t) == InOrder => Msgs2Ordered(up[t], down[t], wpa[t].rc) /\ OnlyMsg2(t)

ConfirmedInv(t) ==
  NoResends \/ InOrder => (drv[t].ptk # NoKey => drv[t].ptk \in sup[t].keys)

EstablishedInv(t) ==
  /\ NoResends \/ InOrder
  /\ NoRequests /\ drv[t].asoc /\ wpa[t].gstate = "REKEYESTABLISHED"
  => sup[t].gtk >= 1

-----------------------------------------------------------------------------
(* Replay counters.                                                        *)

LEMMA FrameCounters ==
  ASSUME NEW q \in Seq(Frames)
  PROVE  /\ Len(q) \in Nat
         /\ \A i \in 1 .. Len(q) : q[i] \in Frames /\ q[i].rc \in Nat
<1>1. Len(q) \in Nat /\ \A i \in 1 .. Len(q) : q[i] \in Frames
  OBVIOUS
<1>2. \A m \in Frames : m.rc \in Nat
  BY DEF Frames
<1> QED BY <1>1, <1>2

LEMMA OrderedWider ==
  ASSUME NEW q \in Seq(Frames), NEW lo \in Nat, NEW hi \in Nat, NEW hi2 \in Nat, hi <= hi2,
         Ordered(q, lo, hi)
  PROVE  Ordered(q, lo, hi2)
BY FrameCounters DEF Ordered

LEMMA OrderedTail ==
  ASSUME NEW q \in Seq(Frames), q # <<>>, NEW lo \in Nat, NEW hi \in Nat, Ordered(q, lo, hi)
  PROVE  /\ Head(q).rc \in Nat /\ lo <= Head(q).rc /\ Head(q).rc + 1 <= hi
         /\ Ordered(Tail(q), lo, hi) /\ Ordered(Tail(q), Head(q).rc + 1, hi)
<1>1. 1 \in 1 .. Len(q) /\ Head(q) = q[1] /\ Len(q) \in Nat
  OBVIOUS
<1>2. \A i \in 1 .. Len(Tail(q)) : i \in Nat /\ i + 1 \in 1 .. Len(q) /\ Tail(q)[i] = q[i + 1]
  OBVIOUS
<1>3. q[1].rc \in Nat /\ \A i \in 1 .. Len(q) : q[i].rc \in Nat
  BY <1>1, FrameCounters
<1>4. /\ lo <= q[1].rc /\ q[1].rc < hi
      /\ \A i \in 1 .. Len(q) : /\ lo <= q[i].rc /\ q[i].rc < hi
                              /\ \A j \in 1 .. Len(q) : i < j => q[i].rc < q[j].rc
  BY <1>1 DEF Ordered
<1>5. ASSUME NEW i \in 1 .. Len(Tail(q))
      PROVE  /\ lo <= Tail(q)[i].rc /\ q[1].rc + 1 <= Tail(q)[i].rc /\ Tail(q)[i].rc < hi
             /\ \A j \in 1 .. Len(Tail(q)) : i < j => Tail(q)[i].rc < Tail(q)[j].rc
  <2>1. i \in Nat /\ i + 1 \in 1 .. Len(q) /\ Tail(q)[i] = q[i + 1] /\ 1 < i + 1
    BY <1>2, <1>5
  <2>2. q[1].rc < q[i + 1].rc
    BY <1>1, <1>4, <2>1
  <2>3. ASSUME NEW j \in 1 .. Len(Tail(q)), i < j
        PROVE  Tail(q)[i].rc < Tail(q)[j].rc
    <3>1. j + 1 \in 1 .. Len(q) /\ Tail(q)[j] = q[j + 1] /\ i + 1 < j + 1
      BY <1>2, <2>1, <2>3
    <3> QED BY <1>4, <2>1, <3>1
  <2> QED BY <1>3, <1>4, <2>1, <2>2, <2>3
<1>6. Ordered(Tail(q), lo, hi) /\ Ordered(Tail(q), q[1].rc + 1, hi)
  BY <1>5 DEF Ordered
<1> QED BY <1>1, <1>3, <1>4, <1>6

LEMMA OrderedAppend ==
  ASSUME NEW q \in Seq(Frames), NEW f \in Frames, NEW lo \in Nat, NEW hi \in Nat, NEW hi2 \in Nat,
         Ordered(q, lo, hi), lo <= hi, hi <= f.rc, f.rc < hi2
  PROVE  Ordered(Append(q, f), lo, hi2)
<1> DEFINE p == Append(q, f)
           n == Len(q)
<1>1. /\ n \in Nat /\ Len(p) = n + 1 /\ p[n + 1] = f
      /\ \A i \in 1 .. n : p[i] = q[i]
  OBVIOUS
<1>2. f.rc \in Nat /\ \A i \in 1 .. n : q[i].rc \in Nat
  BY FrameCounters DEF Frames
<1>3. \A i \in 1 .. n : /\ lo <= q[i].rc /\ q[i].rc < hi
                       /\ \A j \in 1 .. n : i < j => q[i].rc < q[j].rc
  BY DEF Ordered
<1> HIDE DEF p, n
<1>4. \A i \in 1 .. Len(p) : i \in 1 .. n \/ i = n + 1
  BY <1>1
<1>5. \A i \in 1 .. Len(p) : lo <= p[i].rc /\ p[i].rc < hi2
  BY <1>1, <1>2, <1>3, <1>4
<1>6. ASSUME NEW i \in 1 .. Len(p), NEW j \in 1 .. Len(p), i < j
      PROVE  p[i].rc < p[j].rc
  <2>1. i \in 1 .. n
    BY <1>1, <1>6
  <2>2. CASE j \in 1 .. n
    BY <1>1, <1>3, <1>6, <2>1, <2>2
  <2>3. CASE j = n + 1
    BY <1>1, <1>2, <1>3, <2>1, <2>3
  <2> QED BY <1>4, <2>2, <2>3
<1> QED BY <1>5, <1>6 DEF Ordered, p

LEMMA CounterStep ==
  ASSUME TypeOK, TypeOK', NEW t \in Stations, CounterInv(t), SlotStep(t)
  PROVE  CounterInv(t)'
<1> DEFINE x == wpa[t]
           y == wpa'[t]
           q == down[t]
           lo == sup[t].rc
<1>1. /\ x.rc \in Nat /\ y.rc \in Nat /\ lo \in Nat
      /\ q \in Seq(Frames)
  BY DEF TypeOK, StaInfo, SupInfo
<1>2. lo <= x.rc /\ Ordered(q, lo, x.rc)
  BY DEF CounterInv
<1>3. ASSUME y.rc >= x.rc, sup'[t] = sup[t], down'[t] = q
      PROVE  CounterInv(t)'
  BY <1>1, <1>2, <1>3, OrderedWider DEF CounterInv
<1>4. ASSUME NEW f \in Frames, Emits(t, f)
      PROVE  CounterInv(t)'
  <2>1. /\ sup'[t] = sup[t] /\ (down'[t] = q \/ down'[t] = Append(q, f))
        /\ x.rc <= f.rc /\ f.rc < y.rc
    BY <1>4 DEF Emits
  <2>2. f.rc \in Nat
    BY DEF Frames
  <2>3. y.rc >= x.rc /\ lo <= y.rc
    BY <1>1, <1>2, <2>1, <2>2
  <2>4. CASE down'[t] = Append(q, f)
    <3>1. Ordered(Append(q, f), lo, y.rc)
      BY <1>1, <1>2, <2>1, OrderedAppend
    <3> QED BY <2>1, <2>3, <2>4, <3>1 DEF CounterInv
  <2> QED BY <1>3, <2>1, <2>3, <2>4
<1>5. CASE Gone(t)
  <2>1. down'[t] = <<>> /\ sup'[t].rc = 0
    BY <1>5 DEF Gone, NewSup
  <2> QED BY <1>1, <2>1 DEF CounterInv, Ordered
<1>6. CASE Enters(t)
  <2>1. PICK f \in Frames : (down'[t] = <<>> \/ down'[t] = Append(<<>>, f)) /\ f.rc < y.rc
    BY <1>6 DEF Enters
  <2>2. sup'[t].rc = 0 /\ f.rc \in Nat /\ 0 \in Nat
    BY <1>6 DEF Enters, NewSup, Frames
  <2>3. <<>> \in Seq(Frames) /\ Ordered(<<>>, 0, 0) /\ Ordered(<<>>, 0, y.rc)
    BY DEF Ordered
  <2>4. Ordered(Append(<<>>, f), 0, y.rc)
    <3> DEFINE e == <<>>
    <3>1. e \in Seq(Frames) /\ Ordered(e, 0, 0) /\ 0 \in Nat /\ y.rc \in Nat /\ 0 <= f.rc /\ f.rc < y.rc
      BY <1>1, <2>1, <2>2, <2>3
    <3> HIDE DEF e, x, y
    <3>2. Ordered(Append(e, f), 0, y.rc)
      BY <3>1, OrderedAppend
    <3> QED BY <3>2 DEF e
  <2> QED BY <1>1, <2>1, <2>2, <2>3, <2>4 DEF CounterInv
<1>7. CASE ServerCase(t)
  <2>1. CASE Stays(t) \/ (Completes(t) /\ y.rc >= x.rc /\ sup'[t] = sup[t] /\ down'[t] = q)
    BY <1>1, <1>3, <2>1 DEF Stays
  <2>2. CASE Offers(t) \/ Accepts(t) \/ Updates(t) \/ Again(t)
             \/ (Completes(t) /\ ~(y.rc >= x.rc /\ sup'[t] = sup[t] /\ down'[t] = q))
    <3>1. \E f \in Frames : Emits(t, f)
      BY <2>2 DEF Offers, Accepts, Updates, Again, Completes, Offers21
    <3> QED BY <1>4, <3>1
  <2> QED BY <1>5, <1>6, <1>7, <2>1, <2>2 DEF ServerCase
<1>8. CASE StationCase(t) /\ ServerIdle(t)
  <2>1. y.rc = x.rc
    BY <1>8 DEF ServerIdle
  <2>2. CASE q # <<>> /\ down'[t] = Tail(q) /\ (sup'[t].rc = lo \/ sup'[t].rc = Head(q).rc + 1)
    <3>1. /\ Head(q).rc \in Nat /\ Head(q).rc + 1 <= x.rc
          /\ Ordered(Tail(q), lo, x.rc) /\ Ordered(Tail(q), Head(q).rc + 1, x.rc)
      BY <1>1, <1>2, <2>2, OrderedTail
    <3> QED BY <1>1, <1>2, <2>1, <2>2, <3>1 DEF CounterInv
  <2>3. CASE down'[t] = q /\ sup'[t] = sup[t]
    BY <1>1, <1>3, <2>1, <2>3
  <2> QED BY <1>8, <2>2, <2>3
          DEF StationCase, Answers1, Answers3, AnswersGroup, Answers, Drops, ChannelsKept,
              Misses, Doubles, Swaps, Asks
<1> QED BY <1>7, <1>8 DEF SlotStep

LEMMA EntryStep ==
  ASSUME TypeOK, TypeOK', NEW t \in Stations, EntryInv(t), SlotStep(t)
  PROVE  EntryInv(t)'
<1> DEFINE x == wpa[t]
           y == wpa'[t]
<1>1. /\ x.state \in {"IDLE", "PTKSTART", "PTKINITNEGOTIATING", "PTKINITDONE"}
      /\ x.wpa2 \in BOOLEAN /\ y.wpa2 \in BOOLEAN /\ drv[t] \in DriverInfo
      /\ up[t] \in Seq(Frames)
  BY DEF TypeOK, StaInfo
<1>2. Absent.asoc = FALSE /\ [Absent EXCEPT !.asoc = TRUE].asoc = TRUE
  BY DEF Absent
<1>3. ASSUME y.wpa2 = x.wpa2, drv'[t].asoc = drv[t].asoc, drv[t].asoc,
             y.state = x.state \/ y.state # "IDLE"
      PROVE  EntryInv(t)'
  BY <1>3 DEF EntryInv
<1>4. CASE ServerCase(t)
  <2>1. CASE Stays(t)
    BY <1>1, <2>1 DEF Stays, EntryInv, Takes
  <2>2. CASE Gone(t)
    BY <1>2, <2>2 DEF Gone, EntryInv
  <2>3. CASE Enters(t)
    BY <1>2, <2>3 DEF Enters, EntryInv
  <2>4. CASE Offers(t)
    <3>1. \E f \in Frames : Emits(t, f)
      BY <2>4 DEF Offers
    <3> QED BY <1>3, <2>4, <3>1 DEF Offers, Takes, Emits
  <2>5. CASE Accepts(t)
    <3>1. \E f \in Frames : Emits(t, f)
      BY <2>5 DEF Accepts
    <3> QED BY <1>3, <2>5, <3>1 DEF Accepts, Takes, Emits
  <2>6. CASE Completes(t)
    <3>1. y.wpa2 = x.wpa2
      BY <2>6 DEF Completes, Offers21, Emits
    <3> QED BY <1>3, <2>6, <3>1 DEF Completes, Takes
  <2>7. CASE Updates(t)
    <3>1. \E f \in Frames : Emits(t, f)
      BY <2>7 DEF Updates, Offers21
    <3> QED BY <1>3, <2>7, <3>1 DEF Updates, Emits
  <2>8. CASE Again(t)
    <3>1. PICK f \in Frames : Emits(t, f)
      BY <2>8 DEF Again
    <3>2. /\ sup'[t] = sup[t] /\ up'[t] = up[t] /\ drv'[t] = drv[t] /\ y.state = x.state
          /\ y.wpa2 = x.wpa2 /\ (~drv[t].asoc => down'[t] = down[t])
      BY <2>8, <3>1 DEF Again, Emits
    <3> QED BY <1>3, <3>2 DEF EntryInv
  <2> QED BY <1>4, <2>1, <2>2, <2>3, <2>4, <2>5, <2>6, <2>7, <2>8 DEF ServerCase
<1>5. CASE StationCase(t) /\ ServerIdle(t)
  <2>1. y = x /\ drv'[t] = drv[t]
    BY <1>5 DEF ServerIdle
  <2>2. CASE drv[t].asoc
    BY <2>1, <2>2 DEF EntryInv
  <2>3. CASE ~drv[t].asoc
    <3>1. down[t] = <<>> /\ up[t] = <<>> /\ sup[t].ptk = NoKey /\ sup[t].last = NoFrame
      BY <2>3 DEF EntryInv, NewSup
    <3>2. ~(Len(<<>>) > 1)
      OBVIOUS
    <3> QED BY <1>5, <3>1, <3>2
            DEF StationCase, Answers1, Answers3, AnswersGroup, Answers, Drops,
                Misses, Doubles, Swaps, Asks
  <2> QED BY <2>2, <2>3
<1> QED BY <1>4, <1>5 DEF SlotStep

LEMMA UpwardStep ==
  ASSUME TypeOK, TypeOK', GlobalInv, NEW t \in Stations, UpwardInv(t), SlotStep(t)
  PROVE  UpwardInv(t)'
<1>1. CASE ServerCase(t)
  <2>1. CASE sup'[t] = sup[t] /\ Upward(t)' \subseteq Upward(t)
    BY <2>1 DEF UpwardInv
  <2>2. CASE sup'[t] = NewSup /\ Upward(t)' = {}
    BY <2>2 DEF UpwardInv, NewSup
  <2> QED BY <1>1, <2>1, <2>2, ServerFlow
<1>2. CASE StationCase(t)
  <2>1. ASSUME NEW r \in Frames, Upward(t)' \subseteq Upward(t) \cup {r},
               sup[t].keys \subseteq sup'[t].keys,
               sup'[t].ptk \in sup'[t].keys \cup {NoKey},
               r.step \in {"4-2", "4-4", "2-2"} \/ (Request(r) /\ Budget["request"] > 0),
               r.step # "4-2" => r.key \in sup'[t].keys \cup {NoKey}
        PROVE  UpwardInv(t)'
    BY <2>1 DEF UpwardInv
  <2>2. CASE Answers1(t)
    <3>1. PICK r : /\ Answers(t, r) /\ r.step = "4-2"
                   /\ sup'[t].keys = sup[t].keys /\ sup'[t].ptk = sup[t].ptk
      BY <2>2 DEF Answers1
    <3>2. r \in Frames /\ Upward(t)' \subseteq Upward(t) \cup {r}
      BY <3>1, AnswerFlow DEF Answers
    <3> QED BY <2>1, <3>1, <3>2 DEF UpwardInv
  <2>3. CASE Answers3(t)
    <3>1. PICK r : /\ Answers(t, r) /\ r.step = "4-4" /\ r.key = Head(down[t]).key
                   /\ sup'[t].keys = sup[t].keys \cup {Head(down[t]).key}
                   /\ sup'[t].ptk = Head(down[t]).key
      BY <2>3 DEF Answers3
    <3>2. r \in Frames /\ Upward(t)' \subseteq Upward(t) \cup {r}
      BY <3>1, AnswerFlow DEF Answers
    <3> QED BY <2>1, <3>1, <3>2 DEF UpwardInv
  <2>4. CASE AnswersGroup(t)
    <3>1. PICK r : /\ Answers(t, r) /\ r.step = "2-2" /\ r.key = sup[t].ptk
                   /\ sup'[t].keys = sup[t].keys /\ sup'[t].ptk = sup[t].ptk
      BY <2>4 DEF AnswersGroup
    <3>2. r \in Frames /\ Upward(t)' \subseteq Upward(t) \cup {r}
      BY <3>1, AnswerFlow DEF Answers
    <3> QED BY <2>1, <3>1, <3>2 DEF UpwardInv
  <2>5. CASE Drops(t) \/ Misses(t) \/ Doubles(t) \/ Swaps(t)
    BY <2>5, ChannelFlow DEF UpwardInv
  <2>6. CASE Asks(t)
    <3>1. PICK r \in Frames : /\ Upward(t)' \subseteq Upward(t) \cup {r}
                             /\ Request(r) /\ r.key = sup[t].ptk
      BY <2>6, AskFlow
    <3>2. sup'[t] = sup[t] /\ Budget["request"] > 0
      <4>1. sup'[t] = sup[t] /\ budget["request"] > 0
        BY <2>6, AskFlow
      <4>2. /\ "request" \in Kinds /\ budget["request"] <= Budget["request"]
            /\ budget["request"] \in Nat /\ Budget["request"] \in Nat
        BY BudgetAssumption DEF GlobalInv, Kinds, TypeOK
      <4> QED BY <4>1, <4>2
    <3> QED BY <2>1, <3>1, <3>2 DEF UpwardInv
  <2> QED BY <1>2, <2>2, <2>3, <2>4, <2>5, <2>6 DEF StationCase
<1> QED BY <1>1, <1>2 DEF SlotStep

-----------------------------------------------------------------------------
(* Nonces and group keys in flight.                                        *)

LEMMA NonceStep ==
  ASSUME TypeOK, TypeOK', NEW t \in Stations, NonceFlight(t), SlotStep(t)
  PROVE  NonceFlight(t)'
<1> DEFINE x == wpa[t]
           y == wpa'[t]
<1>1. /\ x \in StaInfo /\ x.ANonce \in Nat /\ y.ANonce \in Nat
      /\ y.msg.key.n \in Nat
      /\ \A m \in Downward(t) \cup Upward(t) : m.key.n \in Nat
  <2>1. \A m \in Frames : m.key.n \in Nat
    BY DEF Frames, Keys
  <2>2. Downward(t) \subseteq Frames /\ Upward(t) \subseteq Frames
    BY DEF TypeOK, SupInfo, Downward, Upward, Elems
  <2> QED BY <2>1, <2>2 DEF TypeOK, StaInfo
<1>2. CASE ServerCase(t) /\ ~Gone(t) /\ ~Enters(t)
  <2>1. ASSUME y.ANonce >= x.ANonce,
               y.msg.step = "4-1" => y.msg.key.n <= y.ANonce,
               y.state = "PTKINITNEGOTIATING" => y.msg.step = "4-3"
        PROVE  NonceFlight(t)'
    <3>1. Upward(t)' \subseteq Upward(t) /\ Downward(t)' \subseteq Downward(t) \cup {y.msg}
      BY <1>2, ServerFlow
    <3>2. \A m \in Upward(t) : m.step = "4-2" => m.key.n <= y.ANonce
      BY <1>1, <2>1 DEF NonceFlight
    <3>3. \A m \in Downward(t) : m.step = "4-1" => m.key.n <= y.ANonce
      BY <1>1, <2>1 DEF NonceFlight
    <3> QED BY <2>1, <3>1, <3>2, <3>3 DEF NonceFlight
  <2>2. CASE Stays(t)
    BY <1>1, <2>1, <2>2 DEF Stays, NonceFlight
  <2>3. CASE Offers(t)
    <3>1. y.ANonce = x.ANonce + 1 /\ y.state = "PTKSTART" /\ y.msg.key.n = y.ANonce
      BY <2>3 DEF Offers, Emits
    <3> QED BY <1>1, <2>1, <3>1
  <2>4. CASE Accepts(t)
    <3>1. y.ANonce = x.ANonce /\ y.msg.step = "4-3"
      BY <2>4 DEF Accepts, Emits
    <3> QED BY <1>1, <2>1, <3>1
  <2>5. CASE Completes(t)
    <3>1. y.ANonce = x.ANonce /\ y.state = "PTKINITDONE" /\ (y.msg = x.msg \/ y.msg.step = "2-1")
      BY <2>5 DEF Completes, Offers21, Emits
    <3> QED BY <1>1, <2>1, <3>1 DEF NonceFlight
  <2>6. CASE Updates(t)
    <3>1. y.ANonce = x.ANonce /\ y.state = "PTKINITDONE" /\ y.msg.step = "2-1"
      BY <2>6 DEF Updates, Offers21, Emits
    <3> QED BY <1>1, <2>1, <3>1
  <2>7. CASE Again(t)
    <3>1. /\ y.ANonce = x.ANonce /\ y.state = x.state /\ y.msg.step = x.msg.step
          /\ y.msg.step = "4-1" => y.msg.key = x.msg.key
      BY <2>7 DEF Again, Emits
    <3> QED BY <1>1, <2>1, <3>1 DEF NonceFlight
  <2> QED BY <1>2, <2>2, <2>3, <2>4, <2>5, <2>6, <2>7 DEF ServerCase
<1>3. CASE Gone(t)
  <2>1. Upward(t)' = {} /\ Downward(t)' = {}
    BY <1>3, FreshFlow
  <2>2. CASE y = ResetSta
    BY <2>1, <2>2 DEF NonceFlight, ResetSta, NoFrame, NoKey
  <2>3. CASE y = StopTimer(x) \/ y = [StopTimer(x) EXCEPT !.state = "IDLE"]
    <3>1. /\ y.msg = x.msg /\ y.ANonce = x.ANonce /\ (y.state = x.state \/ y.state = "IDLE")
      BY <1>1, <2>3, StopTimerFields, StopTimerType DEF StaInfo
    <3> QED BY <2>1, <3>1 DEF NonceFlight
  <2> QED BY <1>3, <2>2, <2>3 DEF Gone
<1>4. CASE Enters(t)
  <2>1. Upward(t)' = {} /\ Downward(t)' \subseteq {y.msg}
    BY <1>4, FreshFlow
  <2>2. y.msg.key.n = y.ANonce /\ y.state = "PTKSTART"
    BY <1>4 DEF Enters
  <2> QED BY <1>1, <2>1, <2>2 DEF NonceFlight
<1>5. CASE StationCase(t) /\ ServerIdle(t)
  <2>1. y = x
    BY <1>5 DEF ServerIdle
  <2>2. ASSUME NEW r, Downward(t)' \subseteq Downward(t), Upward(t)' \subseteq Upward(t) \cup {r},
               r.step = "4-2" => r.key.n <= x.ANonce
        PROVE  NonceFlight(t)'
    BY <2>1, <2>2 DEF NonceFlight
  <2>3. ASSUME Downward(t)' \subseteq Downward(t), Upward(t)' \subseteq Upward(t)
        PROVE  NonceFlight(t)'
    BY <2>1, <2>3 DEF NonceFlight
  <2>4. CASE Answers1(t)
    <3>1. PICK r : Answers(t, r) /\ Head(down[t]).step = "4-1" /\ r.key.n = Head(down[t]).key.n
      BY <2>4 DEF Answers1
    <3>2. r.key.n <= x.ANonce
      BY <3>1, AnswerFlow DEF NonceFlight
    <3> QED BY <2>2, <3>1, <3>2, AnswerFlow
  <2>5. CASE Answers3(t) \/ AnswersGroup(t)
    <3>1. PICK r : Answers(t, r) /\ r.step # "4-2"
      BY <2>5 DEF Answers3, AnswersGroup
    <3> QED BY <2>2, <3>1, AnswerFlow
  <2>6. CASE Drops(t) \/ Misses(t) \/ Doubles(t) \/ Swaps(t)
    BY <2>3, <2>6, ChannelFlow
  <2>7. CASE Asks(t)
    <3>1. PICK r \in Frames : Upward(t)' \subseteq Upward(t) \cup {r} /\ Request(r)
      BY <2>7, AskFlow
    <3> QED BY <2>2, <2>7, <3>1, AskFlow DEF Request
  <2> QED BY <1>5, <2>4, <2>5, <2>6, <2>7 DEF StationCase
<1> QED BY <1>2, <1>3, <1>4, <1>5 DEF SlotStep

LEMMA GroupGrows ==
  ASSUME IInv, GlobalInv, Next
  PROVE  /\ gbl'.GTK >= gbl.GTK
         /\ ~gbl'.GInitAKeys => gbl'.GTK >= 1
<1>1. gbl \in GlobalInfo /\ gbl.GTK \in Nat
  BY DEF IInv, TypeOK, GlobalInfo
<1>2. ~CountsAndGenerates
  BY NeverBoth
<1>3. CountedOff.GTK = gbl.GTK /\ CountedOff.GInitAKeys = gbl.GInitAKeys
  BY <1>1 DEF CountedOff, GlobalInfo
<1>4. \A w : NewGTK(w, gbl).GTK = gbl.GTK + 1
  BY <1>1 DEF NewGTK, GlobalInfo
<1> QED BY <1>1, <1>2, <1>3, <1>4, GroupStep DEF Generates, CountGroupDone, GlobalInv



LEMMA GTKStep ==
  ASSUME TypeOK, TypeOK', gbl'.GTK >= gbl.GTK, ~gbl'.GInitAKeys => gbl'.GTK >= 1,
         NEW t \in Stations, EntryInv(t), GTKInv(t), SlotStep(t)
  PROVE  GTKInv(t)'
<1> DEFINE x == wpa[t]
           y == wpa'[t]
<1>1. /\ gbl.GTK \in Nat /\ gbl'.GTK \in Nat /\ gbl.GTK <= gbl'.GTK /\ sup[t].gtk \in Nat /\ sup'[t].gtk \in Nat
      /\ x.msg.gtk \in Nat
      /\ \A m \in Downward(t) : m.gtk \in Nat
  <2>1. \A m \in Frames : m.gtk \in Nat
    BY DEF Frames
  <2>2. Downward(t) \subseteq Frames
    BY DEF TypeOK, Downward, Elems
  <2> QED BY <2>1, <2>2 DEF TypeOK, StaInfo, GlobalInfo, SupInfo
<1>2. /\ \A m \in Downward(t) : CarriesGTK(t, m, gbl'.GTK)
      /\ drv[t].asoc => CarriesGTK(t, x.msg, gbl'.GTK) /\ x.msg.gtk <= gbl'.GTK
  BY <1>1 DEF GTKInv, CarriesGTK
<1>3. /\ sup[t].gtk <= gbl'.GTK
      /\ Security[t] = "WPA2" /\ sup[t].keys # {} => sup[t].gtk >= 1
      /\ \A m \in Upward(t) : m.step = "2-2" => sup[t].gtk >= 1
  BY <1>1 DEF GTKInv
<1>4. CASE ServerCase(t) /\ ~Gone(t) /\ ~Enters(t)
  <2>1. ASSUME drv'[t].asoc => CarriesGTK(t, y.msg, gbl'.GTK)
        PROVE  GTKInv(t)'
    <3>1. /\ Upward(t)' \subseteq Upward(t)
          /\ sup'[t] = sup[t] \/ (sup'[t] = NewSup /\ Upward(t)' = {})
          /\ \/ Downward(t)' \subseteq Downward(t)
             \/ Downward(t)' \subseteq Downward(t) \cup {y.msg} /\ drv'[t].asoc
      BY <1>4, ServerFlow
    <3>2. \A m \in Downward(t)' : CarriesGTK(t, m, gbl'.GTK)
      BY <1>2, <2>1, <3>1
    <3>3. CASE sup'[t] = sup[t]
      BY <1>3, <2>1, <3>1, <3>2, <3>3 DEF GTKInv
    <3>4. CASE sup'[t] = NewSup /\ Upward(t)' = {}
      BY <1>1, <2>1, <3>2, <3>4 DEF GTKInv, NewSup
    <3> QED BY <3>1, <3>3, <3>4
  <2>2. CASE Stays(t)
    <3>1. y.msg = x.msg /\ drv'[t] = drv[t]
      BY <2>2 DEF Stays
    <3> QED BY <1>1, <1>2, <2>1, <3>1 DEF CarriesGTK
  <2>3. CASE Offers(t)
    <3>1. y.msg.step = "4-1" /\ y.msg.gtk = 0
      BY <2>3 DEF Offers, Emits
    <3> QED BY <1>1, <2>1, <3>1 DEF CarriesGTK
  <2>4. CASE Accepts(t)
    <3>1. /\ y.msg.step = "4-3"
          /\ IF x.wpa2 THEN y.msg.gtk = gbl'.GTK /\ ~gbl'.GInitAKeys ELSE y.msg.gtk = 0
          /\ drv[t].asoc
      BY <2>4 DEF Accepts, Emits, Takes
    <3>2. x.wpa2 <=> Security[t] = "WPA2"
      BY <3>1 DEF EntryInv
    <3> QED BY <1>1, <2>1, <3>1, <3>2 DEF CarriesGTK
  <2>5. CASE Completes(t) \/ Updates(t)
    <3>1. /\ drv[t].asoc
          /\ y.msg = x.msg \/ (y.msg.step = "2-1" /\ y.msg.gtk = gbl'.GTK /\ ~gbl'.GInitAKeys)
      BY <2>5 DEF Completes, Updates, Offers21, Emits, Takes
    <3> QED BY <1>1, <1>2, <2>1, <3>1 DEF CarriesGTK
  <2>6. CASE Again(t)
    <3>1. y.msg.step = x.msg.step /\ y.msg.gtk = x.msg.gtk /\ drv'[t] = drv[t]
      BY <2>6 DEF Again, Emits
    <3> QED BY <1>1, <1>2, <2>1, <3>1 DEF CarriesGTK
  <2> QED BY <1>4, <2>2, <2>3, <2>4, <2>5, <2>6 DEF ServerCase
<1>5. CASE Gone(t)
  <2>1. Upward(t)' = {} /\ Downward(t)' = {} /\ sup'[t] = NewSup /\ ~drv'[t].asoc
    BY <1>5, FreshFlow
  <2> QED BY <1>1, <2>1 DEF GTKInv, NewSup
<1>6. CASE Enters(t)
  <2>1. Upward(t)' = {} /\ Downward(t)' \subseteq {y.msg} /\ sup'[t] = NewSup
    BY <1>6, FreshFlow
  <2>2. y.msg.step = "4-1" /\ y.msg.gtk = 0
    BY <1>6 DEF Enters
  <2>3. CarriesGTK(t, y.msg, gbl'.GTK)
    BY <1>1, <2>2 DEF CarriesGTK
  <2> QED BY <1>1, <2>1, <2>3 DEF GTKInv, NewSup
<1>7. CASE StationCase(t) /\ ServerIdle(t)
  <2>1. y = x /\ drv'[t] = drv[t] /\ gbl' = gbl
    BY <1>7 DEF ServerIdle
  <2>2. drv'[t].asoc => CarriesGTK(t, y.msg, gbl'.GTK)
    BY <1>1, <1>2, <2>1 DEF CarriesGTK
  <2>3. ASSUME Downward(t)' \subseteq Downward(t), Upward(t)' \subseteq Upward(t), sup'[t] = sup[t]
        PROVE  GTKInv(t)'
    BY <1>2, <1>3, <2>2, <2>3 DEF GTKInv
  <2>4. ASSUME NEW r, Downward(t)' \subseteq Downward(t), Upward(t)' \subseteq Upward(t) \cup {r},
               \/ sup'[t].gtk >= 1 /\ sup'[t].gtk <= gbl'.GTK
               \/ /\ sup'[t].gtk = sup[t].gtk /\ r.step # "2-2"
                  /\ sup'[t].keys = sup[t].keys \/ Security[t] # "WPA2"
        PROVE  GTKInv(t)'
    BY <1>1, <1>2, <1>3, <2>2, <2>4 DEF GTKInv
  <2>5. CASE Answers1(t)
    <3>1. PICK r : /\ Answers(t, r) /\ r.step = "4-2"
                   /\ sup'[t].keys = sup[t].keys /\ sup'[t].gtk = sup[t].gtk
      BY <2>5 DEF Answers1
    <3> QED BY <2>4, <3>1, AnswerFlow
  <2>6. CASE Answers3(t)
    <3> DEFINE m == Head(down[t])
    <3>1. PICK r : /\ Answers(t, r) /\ m.step = "4-3" /\ r.step = "4-4"
                   /\ sup'[t].gtk = IF Security[t] = "WPA2" THEN m.gtk ELSE sup[t].gtk
      BY <2>6 DEF Answers3
    <3>2. m \in Downward(t)
      BY <3>1, AnswerFlow
    <3>3. m.gtk <= gbl'.GTK /\ (Security[t] = "WPA2" => m.gtk >= 1)
      BY <1>2, <3>1, <3>2 DEF CarriesGTK
    <3> QED BY <2>4, <3>1, <3>3, AnswerFlow
  <2>7. CASE AnswersGroup(t)
    <3> DEFINE m == Head(down[t])
    <3>1. PICK r : Answers(t, r) /\ m.step = "2-1" /\ sup'[t].gtk = m.gtk
      BY <2>7 DEF AnswersGroup
    <3>2. m \in Downward(t)
      BY <3>1, AnswerFlow
    <3>3. m.gtk <= gbl'.GTK /\ m.gtk >= 1
      BY <1>2, <3>1, <3>2 DEF CarriesGTK
    <3> QED BY <2>4, <3>1, <3>3, AnswerFlow
  <2>8. CASE Drops(t) \/ Misses(t) \/ Doubles(t) \/ Swaps(t)
    BY <2>3, <2>8, ChannelFlow
  <2>9. CASE Asks(t)
    <3>1. PICK r \in Frames : Upward(t)' \subseteq Upward(t) \cup {r} /\ Request(r)
      BY <2>9, AskFlow
    <3> QED BY <2>4, <2>9, <3>1, AskFlow DEF Request
  <2> QED BY <1>7, <2>5, <2>6, <2>7, <2>8, <2>9 DEF StationCase
<1> QED BY <1>4, <1>5, <1>6, <1>7 DEF SlotStep

-----------------------------------------------------------------------------
(* The group key handshake waits for the pairwise one.                     *)

\* Without requests a station only sends answers.
LEMMA OnlyAnswers ==
  ASSUME TypeOK, NoRequests, NEW t \in Stations, UpwardInv(t)
  PROVE  /\ \A m \in Upward(t) : m.step \in {"4-2", "4-4", "2-2"} /\ ~Request(m)
         /\ Takes(t) => Head(up[t]) \in Upward(t)
<1>1. \A m \in Upward(t) : m.step \in {"4-2", "4-4", "2-2"}
  BY DEF UpwardInv, NoRequests
<1>2. Takes(t) => Head(up[t]) \in Elems(up[t])
  BY ElemsTail DEF Takes, TypeOK
<1> QED BY <1>1, <1>2 DEF Upward, Request

LEMMA GroupPhaseStep ==
  ASSUME TypeOK, TypeOK', NEW t \in Stations, UpwardInv(t), GroupPhaseInv(t), SlotStep(t)
  PROVE  GroupPhaseInv(t)'
<1> DEFINE x == wpa[t]
           y == wpa'[t]
<1>1. SUFFICES ASSUME NoRequests, drv'[t].asoc, y.state # "PTKINITDONE"
               PROVE  GroupPhaseInv(t)'
  BY DEF GroupPhaseInv
<1>2. ASSUME drv[t].asoc, x.state # "PTKINITDONE"
      PROVE  /\ x.msg.step # "2-1"
             /\ \A m \in Downward(t) : m.step # "2-1"
             /\ \A m \in Upward(t) : m.step # "2-2"
  BY <1>1, <1>2 DEF GroupPhaseInv
<1>3. CASE ServerCase(t) /\ ~Gone(t) /\ ~Enters(t)
  <2>1. ASSUME drv[t].asoc, x.state # "PTKINITDONE", y.msg.step # "2-1"
        PROVE  GroupPhaseInv(t)'
    <3>1. Upward(t)' \subseteq Upward(t) /\ Downward(t)' \subseteq Downward(t) \cup {y.msg}
      BY <1>3, ServerFlow
    <3> QED BY <1>2, <2>1, <3>1 DEF GroupPhaseInv
  <2>2. CASE Stays(t)
    BY <1>1, <1>2, <2>1, <2>2 DEF Stays
  <2>3. CASE Offers(t)
    BY <1>1, <2>3, OnlyAnswers DEF Offers
  <2>4. CASE Accepts(t)
    <3>1. drv[t].asoc /\ x.state # "PTKINITDONE" /\ y.msg.step = "4-3"
      BY <2>4 DEF Accepts, Emits, Takes, IsMsg2
    <3> QED BY <2>1, <3>1
  <2>5. CASE Completes(t) \/ Updates(t)
    BY <1>1, <2>5 DEF Completes, Updates
  <2>6. CASE Again(t)
    <3>1. drv[t].asoc /\ x.state # "PTKINITDONE" /\ y.msg.step = x.msg.step
      BY <1>1, <2>6 DEF Again, Emits
    <3> QED BY <1>2, <2>1, <3>1
  <2> QED BY <1>3, <2>2, <2>3, <2>4, <2>5, <2>6 DEF ServerCase
<1>4. CASE Gone(t)
  BY <1>1, <1>4, FreshFlow
<1>5. CASE Enters(t)
  <2>1. Upward(t)' = {} /\ Downward(t)' \subseteq {y.msg} /\ y.msg.step = "4-1"
    BY <1>5, FreshFlow DEF Enters
  <2> QED BY <2>1 DEF GroupPhaseInv
<1>6. CASE StationCase(t) /\ ServerIdle(t)
  <2>1. y = x /\ drv[t].asoc /\ x.state # "PTKINITDONE"
    BY <1>1, <1>6 DEF ServerIdle
  <2>2. ASSUME NEW r, Downward(t)' \subseteq Downward(t), Upward(t)' \subseteq Upward(t) \cup {r},
               r.step # "2-2"
        PROVE  GroupPhaseInv(t)'
    BY <1>2, <2>1, <2>2 DEF GroupPhaseInv
  <2>3. CASE Answers1(t) \/ Answers3(t)
    <3>1. PICK r : Answers(t, r) /\ r.step # "2-2"
      BY <2>3 DEF Answers1, Answers3
    <3> QED BY <2>2, <3>1, AnswerFlow
  <2>4. CASE AnswersGroup(t)
    <3>1. PICK r : Answers(t, r) /\ Head(down[t]).step = "2-1"
      BY <2>4 DEF AnswersGroup
    <3> QED BY <1>2, <2>1, <3>1, AnswerFlow
  <2>5. CASE Drops(t) \/ Misses(t) \/ Doubles(t) \/ Swaps(t)
    <3>1. Downward(t)' \subseteq Downward(t) /\ Upward(t)' \subseteq Upward(t)
      BY <2>5, ChannelFlow
    <3> QED BY <1>2, <2>1, <3>1 DEF GroupPhaseInv
  <2>6. CASE Asks(t)
    <3>1. PICK r \in Frames : Upward(t)' \subseteq Upward(t) \cup {r} /\ Request(r)
      BY <2>6, AskFlow
    <3> QED BY <2>2, <2>6, <3>1, AskFlow DEF Request
  <2> QED BY <1>6, <2>3, <2>4, <2>5, <2>6 DEF StationCase
<1> QED BY <1>3, <1>4, <1>5, <1>6 DEF SlotStep

-----------------------------------------------------------------------------
(* A handshake under way is supervised.                                    *)

LEMMA SupervisedStep ==
  ASSUME TypeOK, TypeOK', NEW t \in Stations, UpwardInv(t), GroupPhaseInv(t),
         SupervisedInv(t), SlotStep(t)
  PROVE  SupervisedInv(t)'
<1> DEFINE x == wpa[t]
           y == wpa'[t]
<1>1. SUFFICES ASSUME NoRequests, ~SkbMayFail, Handshaking(t)'
               PROVE  y.resendTimer \/ late'[t] # "no"
  BY DEF SupervisedInv
<1>2. drv'[t].asoc /\ y.state \in {"PTKSTART", "PTKINITNEGOTIATING"}
  BY <1>1 DEF Handshaking
<1>3. CASE ServerCase(t)
  <2>1. CASE Stays(t)
    <3>1. Handshaking(t) /\ x.state # "PTKINITDONE"
      BY <1>2, <2>1 DEF Stays, Handshaking
    <3>2. x.resendTimer \/ late[t] # "no"
      BY <1>1, <3>1 DEF SupervisedInv
    <3>3. ~(Takes(t) /\ ~Pairwise(Head(up[t])))
      <4>1. SUFFICES ASSUME Takes(t) PROVE Pairwise(Head(up[t]))
        OBVIOUS
      <4>2. /\ Head(up[t]) \in Upward(t) /\ Head(up[t]).step \in {"4-2", "4-4", "2-2"}
        BY <1>1, <4>1, OnlyAnswers
      <4>3. Head(up[t]).step # "2-2"
        BY <1>1, <3>1, <4>2 DEF GroupPhaseInv, Handshaking
      <4> QED BY <4>2, <4>3 DEF Pairwise
    <3>4. drv[t].asoc /\ x.state \notin {"IDLE", "PTKINITDONE"}
      BY <3>1 DEF Handshaking
    <3> QED BY <2>1, <3>2, <3>3, <3>4 DEF Stays
  <2>2. CASE Gone(t)
    BY <1>2, <2>2, FreshFlow
  <2>3. CASE Enters(t)
    BY <1>1, <2>3 DEF Enters
  <2>4. CASE Offers(t) \/ Accepts(t) \/ Again(t)
    <3>1. \E f \in Frames : Emits(t, f)
      BY <2>4 DEF Offers, Accepts, Again
    <3> QED BY <1>1, <3>1 DEF Emits
  <2>5. CASE Completes(t) \/ Updates(t)
    BY <1>2, <2>5 DEF Completes, Updates
  <2> QED BY <1>3, <2>1, <2>2, <2>3, <2>4, <2>5 DEF ServerCase
<1>4. CASE ServerIdle(t)
  BY <1>1, <1>4 DEF ServerIdle, SupervisedInv, Handshaking
<1> QED BY <1>3, <1>4 DEF SlotStep

-----------------------------------------------------------------------------
(* Without resends, one counter per handshake.                             *)

LEMMA StartedStep ==
  ASSUME TypeOK, TypeOK', GlobalInv, NEW t \in Stations, NonceFlight(t), StartedInv(t), SlotStep(t)
  PROVE  StartedInv(t)'
<1> DEFINE x == wpa[t]
           y == wpa'[t]
           Down(m, s) == m.step = "4-1" /\ m.key.n = s.ANonce => m.rc = s.started
           Up(m, s) == m.step = "4-2" /\ m.key.n = s.ANonce => m.rc = s.started
<1>1. SUFFICES ASSUME NoResends
               PROVE  (\A m \in Downward(t)' : Down(m, y)) /\ (\A m \in Upward(t)' : Up(m, y))
  BY DEF StartedInv
<1>2. (\A m \in Downward(t) : Down(m, x)) /\ (\A m \in Upward(t) : Up(m, x))
  BY <1>1 DEF StartedInv
<1>3. CASE ServerCase(t) /\ ~Gone(t) /\ ~Enters(t)
  <2>1. /\ Upward(t)' \subseteq Upward(t)
        /\ Downward(t)' \subseteq Downward(t) \cup {y.msg}
    BY <1>3, ServerFlow
  <2>2. ASSUME y.ANonce = x.ANonce, y.started = x.started, y.msg.step # "4-1"
        PROVE  (\A m \in Downward(t)' : Down(m, y)) /\ (\A m \in Upward(t)' : Up(m, y))
    BY <1>2, <2>1, <2>2
  <2>3. CASE Stays(t)
    <3>1. Downward(t)' = Downward(t) /\ y.ANonce = x.ANonce /\ y.started = x.started
      BY <2>3 DEF Stays, Downward
    <3> QED BY <1>2, <2>1, <3>1
  <2>4. CASE Offers(t)
    <3>1. y.ANonce = x.ANonce + 1 /\ y.started = y.msg.rc /\ x.ANonce \in Nat
      BY <2>4 DEF Offers, Emits, TypeOK, StaInfo
    <3>2. \A m \in Downward(t) \cup Upward(t) : m.key.n \in Nat
      <4>1. \A m \in Frames : m.key.n \in Nat
        BY DEF Frames, Keys
      <4> QED BY <4>1 DEF TypeOK, SupInfo, Downward, Upward, Elems
    <3>3. /\ \A m \in Downward(t) : m.step = "4-1" => m.key.n # y.ANonce
          /\ \A m \in Upward(t) : m.step = "4-2" => m.key.n # y.ANonce
      BY <3>1, <3>2 DEF NonceFlight
    <3> QED BY <2>1, <3>1, <3>3
  <2>5. CASE Accepts(t) \/ Completes(t) \/ Updates(t)
    <3>1. /\ y.ANonce = x.ANonce /\ y.started = x.started
          /\ y.msg.step \in {"4-3", "2-1"} \/ (y.msg = x.msg /\ x.state = "PTKINITNEGOTIATING")
      BY <2>5 DEF Accepts, Completes, Updates, Offers21, Emits, IsMsg4
    <3> QED BY <2>2, <3>1 DEF NonceFlight
  <2>6. CASE Again(t)
    BY <1>1, <2>6 DEF Again, GlobalInv
  <2> QED BY <1>3, <2>3, <2>4, <2>5, <2>6 DEF ServerCase
<1>4. CASE Gone(t)
  BY <1>4, FreshFlow
<1>5. CASE Enters(t)
  <2>1. Upward(t)' = {} /\ Downward(t)' \subseteq {y.msg} /\ y.msg.rc = y.started
    BY <1>5, FreshFlow DEF Enters
  <2> QED BY <2>1
<1>6. CASE StationCase(t) /\ ServerIdle(t)
  <2>1. y = x
    BY <1>6 DEF ServerIdle
  <2>2. ASSUME NEW r, Downward(t)' \subseteq Downward(t), Upward(t)' \subseteq Upward(t) \cup {r},
               Up(r, x)
        PROVE  (\A m \in Downward(t)' : Down(m, y)) /\ (\A m \in Upward(t)' : Up(m, y))
    BY <1>2, <2>1, <2>2
  <2>3. CASE Answers1(t)
    <3>1. PICK r : /\ Answers(t, r) /\ Head(down[t]).step = "4-1" /\ r.key.n = Head(down[t]).key.n
      BY <2>3 DEF Answers1
    <3>2. r.rc = Head(down[t]).rc /\ Head(down[t]) \in Downward(t)
      BY <3>1, AnswerFlow DEF Answers
    <3>3. Up(r, x)
      BY <1>2, <3>1, <3>2
    <3> QED BY <2>2, <3>1, <3>3, AnswerFlow
  <2>4. CASE Answers3(t) \/ AnswersGroup(t)
    <3>1. PICK r : Answers(t, r) /\ r.step # "4-2"
      BY <2>4 DEF Answers3, AnswersGroup
    <3> QED BY <2>2, <3>1, AnswerFlow
  <2>5. CASE Drops(t) \/ Misses(t) \/ Doubles(t) \/ Swaps(t)
    <3>1. Downward(t)' \subseteq Downward(t) /\ Upward(t)' \subseteq Upward(t)
      BY <2>5, ChannelFlow
    <3> QED BY <1>2, <2>1, <3>1
  <2>6. CASE Asks(t)
    <3>1. PICK r \in Frames : Upward(t)' \subseteq Upward(t) \cup {r} /\ Request(r)
      BY <2>6, AskFlow
    <3> QED BY <2>2, <2>6, <3>1, AskFlow DEF Request
  <2> QED BY <1>6, <2>3, <2>4, <2>5, <2>6 DEF StationCase
<1> QED BY <1>3, <1>4, <1>5, <1>6 DEF SlotStep

-----------------------------------------------------------------------------
(* In order, messages 2 come with growing counters.                        *)

LEMMA Msgs2Tail ==
  ASSUME NEW q \in Seq(Frames), q # <<>>, NEW d \in Seq(Frames), NEW hi \in Nat,
         Msgs2Ordered(q, d, hi)
  PROVE  Msgs2Ordered(Tail(q), d, hi)
<1>1. \A i \in 1 .. Len(Tail(q)) : i + 1 \in 1 .. Len(q) /\ Tail(q)[i] = q[i + 1]
  OBVIOUS
<1>2. \A i, j \in 1 .. Len(Tail(q)) : i < j => i + 1 < j + 1
  OBVIOUS
<1> DEFINE p == Tail(q)
<1> HIDE DEF p
<1>3. Msgs2Ordered(p, d, hi)
  BY <1>1, <1>2 DEF Msgs2Ordered, p
<1> QED BY <1>3 DEF p

LEMMA Msgs2Down ==
  ASSUME NEW q \in Seq(Frames), NEW d \in Seq(Frames), d # <<>>, NEW hi \in Nat,
         Msgs2Ordered(q, d, hi)
  PROVE  Msgs2Ordered(q, Tail(d), hi)
<1>1. \A i \in 1 .. Len(Tail(d)) : i + 1 \in 1 .. Len(d) /\ Tail(d)[i] = d[i + 1]
  OBVIOUS
<1> QED BY <1>1 DEF Msgs2Ordered

\* A frame is sent: its counter is that of the access point, which grows.
LEMMA Msgs2Sent ==
  ASSUME NEW q \in Seq(Frames), NEW d \in Seq(Frames), NEW f \in Frames, NEW hi \in Nat,
         NEW hi2 \in Nat, hi <= f.rc, hi <= hi2, Msgs2Ordered(q, d, hi)
  PROVE  Msgs2Ordered(q, d, hi2) /\ Msgs2Ordered(q, Append(d, f), hi2)
<1>1. f.rc \in Nat /\ \A i \in 1 .. Len(q) : q[i].rc \in Nat
  <2>1. \A m \in Frames : m.rc \in Nat
    BY DEF Frames
  <2> QED BY <2>1, FrameCounters
<1>2. \A i \in 1 .. Len(q) : q[i].step = "4-2" => q[i].rc < hi2 /\ q[i].rc < f.rc
  BY <1>1 DEF Msgs2Ordered
<1>3. \A j \in 1 .. Len(Append(d, f)) : Append(d, f)[j] = f \/ (j \in 1 .. Len(d) /\ Append(d, f)[j] = d[j])
  OBVIOUS
<1>4. Msgs2Ordered(q, d, hi2)
  BY <1>2 DEF Msgs2Ordered
<1> DEFINE e == Append(d, f)
<1> HIDE DEF e
<1>5. \A j \in 1 .. Len(e) : e[j] = f \/ (j \in 1 .. Len(d) /\ e[j] = d[j])
  BY <1>3 DEF e
<1>6. Msgs2Ordered(q, e, hi2)
  BY <1>2, <1>5 DEF Msgs2Ordered
<1> QED BY <1>4, <1>6 DEF e

LEMMA Msgs2Other ==
  ASSUME NEW q \in Seq(Frames), NEW d \in Seq(Frames), NEW r \in Frames, NEW hi \in Nat,
         r.step # "4-2", Msgs2Ordered(q, d, hi)
  PROVE  Msgs2Ordered(Append(q, r), d, hi)
<1> DEFINE e == Append(q, r)
<1>1. \A j \in 1 .. Len(e) : e[j] = r \/ (j \in 1 .. Len(q) /\ e[j] = q[j])
  OBVIOUS
<1> HIDE DEF e
<1>2. Msgs2Ordered(e, d, hi)
  BY <1>1 DEF Msgs2Ordered
<1> QED BY <1>2 DEF e

\* A message 1 is answered.
LEMMA Msgs2Answer ==
  ASSUME NEW q \in Seq(Frames), NEW d \in Seq(Frames), d # <<>>, NEW r \in Frames,
         NEW lo \in Nat, NEW hi \in Nat,
         r.rc = Head(d).rc, Ordered(d, lo, hi), Msgs2Ordered(q, d, hi)
  PROVE  Msgs2Ordered(Append(q, r), Tail(d), hi)
<1> DEFINE e == Append(q, r)
           p == Tail(d)
<1>1. /\ \A j \in 1 .. Len(e) :
           (e[j] = r /\ j = Len(q) + 1) \/ (j \in 1 .. Len(q) /\ e[j] = q[j])
      /\ Len(q) \in Nat /\ Len(e) = Len(q) + 1
  OBVIOUS
<1>2. \A j \in 1 .. Len(p) : j + 1 \in 1 .. Len(d) /\ p[j] = d[j + 1] /\ 1 < j + 1
  OBVIOUS
<1>3. Head(d) = d[1] /\ 1 \in 1 .. Len(d)
  OBVIOUS
<1>4. r.rc < hi /\ \A j \in 1 .. Len(p) : r.rc < p[j].rc
  BY <1>2, <1>3 DEF Ordered
<1>5. \A i \in 1 .. Len(q) : q[i].step = "4-2" =>
        /\ q[i].rc < hi /\ q[i].rc < r.rc
        /\ \A j \in 1 .. Len(q) : i < j /\ q[j].step = "4-2" => q[i].rc < q[j].rc
        /\ \A j \in 1 .. Len(p) : q[i].rc < p[j].rc
  BY <1>2, <1>3 DEF Msgs2Ordered
<1> HIDE DEF e, p
<1>6. ASSUME NEW i \in 1 .. Len(e), e[i].step = "4-2"
      PROVE  /\ e[i].rc < hi
             /\ \A j \in 1 .. Len(e) : i < j /\ e[j].step = "4-2" => e[i].rc < e[j].rc
             /\ \A j \in 1 .. Len(p) : e[i].rc < p[j].rc
  <2>1. CASE e[i] = r /\ i = Len(q) + 1
    <3>1. \A j \in 1 .. Len(e) : ~(i < j)
      BY <1>1, <2>1
    <3> QED BY <1>4, <2>1, <3>1
  <2>2. CASE i \in 1 .. Len(q) /\ e[i] = q[i]
    BY <1>1, <1>5, <1>6, <2>2
  <2> QED BY <1>1, <2>1, <2>2
<1>7. Msgs2Ordered(e, p, hi)
  BY <1>6 DEF Msgs2Ordered
<1> QED BY <1>7 DEF e, p

LEMMA InOrderBudgets ==
  ASSUME TypeOK, GlobalInv, InOrder, NEW t \in Stations
  PROVE  ~Doubles(t) /\ ~Swaps(t)
<1>1. /\ "duplicate" \in Kinds /\ "overtake" \in Kinds
      /\ \A k \in Kinds : budget[k] \in Nat /\ budget[k] <= Budget[k]
  BY DEF TypeOK, GlobalInv, Kinds
<1>2. budget["duplicate"] = 0 /\ budget["overtake"] = 0
  BY <1>1 DEF InOrder
<1> QED BY <1>2 DEF Doubles, Swaps

LEMMA Msgs2Step ==
  ASSUME TypeOK, TypeOK', GlobalInv, InOrder, NEW t \in Stations, CounterInv(t),
         Msgs2Ordered(up[t], down[t], wpa[t].rc), SlotStep(t)
  PROVE  Msgs2Ordered(up'[t], down'[t], wpa'[t].rc)
<1> DEFINE q == up[t]
           d == down[t]
           c == wpa[t].rc
           c2 == wpa'[t].rc
<1>1. /\ q \in Seq(Frames) /\ d \in Seq(Frames) /\ c \in Nat /\ c2 \in Nat /\ sup[t].rc \in Nat
      /\ Msgs2Ordered(q, d, c) /\ Ordered(d, sup[t].rc, c)
  BY DEF TypeOK, StaInfo, SupInfo, CounterInv
<1>2. Msgs2Ordered(<<>>, down'[t], c2)
  BY DEF Msgs2Ordered
<1>3. Takes(t) \/ Misses(t) => /\ q # <<>> /\ up'[t] = Tail(q)
                               /\ Tail(q) \in Seq(Frames) /\ Msgs2Ordered(Tail(q), d, c)
  BY <1>1, Msgs2Tail DEF Takes, Misses
<1>4. ASSUME NEW f \in Frames, Emits(t, f), up'[t] = up[t] \/ Takes(t)
      PROVE  Msgs2Ordered(up'[t], down'[t], c2)
  <2>1. c <= f.rc /\ f.rc < c2 /\ (down'[t] = d \/ down'[t] = Append(d, f))
    BY <1>4 DEF Emits
  <2>2. c <= c2
    <3>1. f.rc \in Nat
      BY DEF Frames
    <3> HIDE DEF c, c2
    <3> QED BY <1>1, <2>1, <3>1
  <2>3. up'[t] \in Seq(Frames) /\ Msgs2Ordered(up'[t], d, c)
    BY <1>1, <1>3, <1>4
  <2> HIDE DEF c, c2, d
  <2>4. Msgs2Ordered(up'[t], d, c2) /\ Msgs2Ordered(up'[t], Append(d, f), c2)
    BY <1>1, <2>1, <2>2, <2>3, Msgs2Sent
  <2> QED BY <2>1, <2>4
<1>5. CASE ServerCase(t)
  <2>1. CASE Stays(t)
    <3>1. c2 = c /\ down'[t] = d /\ (up'[t] = q \/ Takes(t))
      BY <2>1 DEF Stays
    <3> QED BY <1>1, <1>3, <3>1
  <2>2. CASE Gone(t) \/ Enters(t)
    BY <1>2, <2>2 DEF Gone, Enters
  <2>3. CASE Completes(t) /\ down'[t] = d /\ c2 >= c
    <3>1. Takes(t)
      BY <2>3 DEF Completes
    <3>2. \A i \in 1 .. Len(Tail(q)) : Tail(q)[i].rc \in Nat
      BY <1>1, <1>3, <3>1, FrameCounters
    <3> DEFINE p == Tail(q)
    <3> HIDE DEF p, c, c2, d
    <3>3. Msgs2Ordered(p, d, c2)
      BY <1>1, <1>3, <2>3, <3>1, <3>2 DEF Msgs2Ordered, p
    <3> QED BY <1>3, <2>3, <3>1, <3>3 DEF p, c2, d
  <2>4. CASE Offers(t) \/ Accepts(t) \/ Updates(t) \/ Again(t)
               \/ (Completes(t) /\ ~(down'[t] = d /\ c2 >= c))
    <3>1. \E f \in Frames : Emits(t, f) /\ (up'[t] = up[t] \/ Takes(t))
      BY <2>4 DEF Offers, Accepts, Updates, Again, Completes, Offers21
    <3> QED BY <1>4, <3>1
  <2> QED BY <1>5, <2>1, <2>2, <2>3, <2>4 DEF ServerCase
<1>6. CASE StationCase(t) /\ ServerIdle(t)
  <2>1. c2 = c
    BY <1>6 DEF ServerIdle
  <2>2. CASE Answers1(t)
    <3>1. PICK r : Answers(t, r)
      BY <2>2 DEF Answers1
    <3>2. /\ r \in Frames /\ d # <<>> /\ r.rc = Head(d).rc
          /\ up'[t] = Append(q, r) /\ down'[t] = Tail(d)
      BY <3>1 DEF Answers
    <3>3. Msgs2Ordered(Append(q, r), Tail(d), c)
      BY <1>1, <3>2, Msgs2Answer
    <3> QED BY <2>1, <3>2, <3>3
  <2>3. CASE Answers3(t) \/ AnswersGroup(t)
    <3>1. PICK r : Answers(t, r) /\ r.step # "4-2"
      BY <2>3 DEF Answers3, AnswersGroup
    <3>2. r \in Frames /\ d # <<>> /\ up'[t] = Append(q, r) /\ down'[t] = Tail(d)
      BY <3>1 DEF Answers
    <3>3. Tail(d) \in Seq(Frames) /\ Msgs2Ordered(q, Tail(d), c)
      BY <1>1, <3>2, Msgs2Down
    <3>4. Msgs2Ordered(Append(q, r), Tail(d), c)
      <4> DEFINE p == Tail(d)
      <4> HIDE DEF p, q, c
      <4>1. Msgs2Ordered(Append(q, r), p, c)
        BY <1>1, <3>1, <3>2, <3>3, Msgs2Other DEF p
      <4> QED BY <4>1 DEF p
    <3> QED BY <2>1, <3>2, <3>4
  <2>4. CASE Drops(t)
    <3>1. d # <<>> /\ down'[t] = Tail(d) /\ up'[t] = q
      BY <2>4 DEF Drops, ChannelsKept
    <3>2. Msgs2Ordered(q, Tail(d), c)
      BY <1>1, <3>1, Msgs2Down
    <3> QED BY <2>1, <3>1, <3>2
  <2>5. CASE Misses(t)
    BY <1>3, <2>1, <2>5 DEF Misses
  <2>6. CASE Asks(t)
    <3>1. PICK r \in Frames : up'[t] = Append(q, r) /\ down'[t] = d /\ r.step # "4-2"
      BY <2>6 DEF Asks, Request
    <3>2. Msgs2Ordered(Append(q, r), d, c)
      BY <1>1, <3>1, Msgs2Other
    <3> QED BY <2>1, <3>1, <3>2
  <2> QED BY <1>6, <2>2, <2>3, <2>4, <2>5, <2>6, InOrderBudgets DEF StationCase
<1> QED BY <1>5, <1>6 DEF SlotStep

LEMMA OnlyMsg2Step ==
  ASSUME TypeOK, TypeOK', GlobalInv, InOrder, NEW t \in Stations, CounterInv(t), NonceFlight(t),
         Msgs2Ordered(up[t], down[t], wpa[t].rc), OnlyMsg2(t), SlotStep(t)
  PROVE  OnlyMsg2(t)'
<1> DEFINE x == wpa[t]
           y == wpa'[t]
           q == up[t]
           d == down[t]
<1>1. SUFFICES ASSUME y.state = "PTKINITNEGOTIATING"
               PROVE  /\ \A m \in Elems(down'[t]) : m.step = "4-1" => m.key.n # y.ANonce
                      /\ \A m \in Elems(up'[t]) : m.step = "4-2" => m.key.n # y.ANonce
  BY DEF OnlyMsg2, Downward
<1>2. ASSUME x.state = "PTKINITNEGOTIATING"
      PROVE  /\ \A m \in Elems(d) : m.step = "4-1" => m.key.n # x.ANonce
             /\ \A m \in Elems(q) : m.step = "4-2" => m.key.n # x.ANonce
  BY <1>2 DEF OnlyMsg2, Downward
<1>3. /\ q \in Seq(Frames) /\ d \in Seq(Frames) /\ Elems(<<>>) = {}
      /\ q # <<>> => Head(q) \in Elems(q) /\ Elems(Tail(q)) \subseteq Elems(q)
      /\ d # <<>> => Head(d) \in Elems(d) /\ Elems(Tail(d)) \subseteq Elems(d)
      /\ \A f \in Frames : Elems(Append(d, f)) = Elems(d) \cup {f}
      /\ \A f \in Frames : Elems(Append(q, f)) = Elems(q) \cup {f}
  <2>1. q \in Seq(Frames) /\ d \in Seq(Frames)
    BY DEF TypeOK
  <2>2. Elems(<<>>) = {}
    BY DEF Elems
  <2> QED BY <2>1, <2>2, ElemsTail, ElemsAppend
<1>4. CASE Stays(t)
  BY <1>1, <1>2, <1>3, <1>4 DEF Stays, Takes
<1>5. CASE Again(t)
  <2>1. PICK f \in Frames : Emits(t, f) /\ f.step = x.msg.step
    BY <1>5 DEF Again
  <2>2. /\ up'[t] = q /\ y.ANonce = x.ANonce /\ x.state = "PTKINITNEGOTIATING"
        /\ x.msg.step = "4-3" /\ (down'[t] = d \/ down'[t] = Append(d, f))
    BY <1>1, <1>5, <2>1 DEF Again, Emits, NonceFlight
  <2> QED BY <1>2, <1>3, <2>1, <2>2
<1>6. CASE Accepts(t)
  <2> DEFINE m == Head(q)
  <2>1. PICK f \in Frames : Emits(t, f) /\ f.step = "4-3"
    BY <1>6 DEF Accepts
  <2>2. /\ q # <<>> /\ up'[t] = Tail(q) /\ (down'[t] = d \/ down'[t] = Append(d, f))
        /\ IsMsg2(x, m) /\ m.step = "4-2" /\ m.key.n = x.ANonce
    BY <1>6, <2>1 DEF Accepts, Takes, Emits
  <2>3. m \in Elems(q) /\ x.state # "PTKINITNEGOTIATING"
    BY <1>2, <1>3, <2>2
  <2>4. m.rc + 1 = x.rc
    BY <2>2, <2>3 DEF IsMsg2
  <2>5. m = q[1] /\ 1 \in 1 .. Len(q) /\ m.rc \in Nat /\ x.rc \in Nat
        /\ \A i \in 1 .. Len(q) : q[i].rc \in Nat
        /\ \A j \in 1 .. Len(d) : d[j].rc \in Nat
    <3>1. m = q[1] /\ 1 \in 1 .. Len(q)
      BY <1>3, <2>2
    <3> QED BY <1>3, <3>1, FrameCounters DEF TypeOK, StaInfo
  <2>6. Len(d) \in Nat /\ \A i \in 1 .. Len(d) : FALSE
    <3>1. SUFFICES ASSUME NEW i \in 1 .. Len(d) PROVE FALSE
      BY <1>3
    <3>2. m.rc < d[i].rc
      BY <2>2, <2>5 DEF Msgs2Ordered
    <3>3. d[i].rc < x.rc
      BY DEF CounterInv, Ordered
    <3> HIDE DEF m, x, d
    <3> QED BY <2>4, <2>5, <3>2, <3>3
  <2>7. ASSUME NEW i \in 1 .. Len(Tail(q)) PROVE Tail(q)[i].step # "4-2"
    <3>1. i + 1 \in 1 .. Len(q) /\ Tail(q)[i] = q[i + 1] /\ 1 < i + 1
      BY <1>3, <2>2
    <3>2. SUFFICES ASSUME q[i + 1].step = "4-2" PROVE FALSE
      BY <3>1
    <3>3. m.rc < q[i + 1].rc /\ q[i + 1].rc < x.rc
      BY <2>2, <2>5, <3>1, <3>2 DEF Msgs2Ordered
    <3>4. q[i + 1].rc \in Nat
      BY <2>5, <3>1
    <3> HIDE DEF m, x
    <3> QED BY <2>4, <2>5, <3>3, <3>4
  <2>8. Elems(d) = {} /\ \A n \in Elems(Tail(q)) : n.step # "4-2"
    BY <2>6, <2>7 DEF Elems
  <2> QED BY <1>3, <2>1, <2>2, <2>8
<1>7. CASE Gone(t)
  BY <1>3, <1>7 DEF Gone
<1>8. CASE Enters(t) \/ Offers(t) \/ Completes(t) \/ Updates(t)
  BY <1>1, <1>8 DEF Enters, Offers, Completes, Updates
<1>9. CASE StationCase(t) /\ ServerIdle(t)
  <2>1. y = x /\ x.state = "PTKINITNEGOTIATING"
    BY <1>1, <1>9 DEF ServerIdle
  <2>2. CASE Answers1(t)
    <3>1. PICK r : Answers(t, r) /\ Head(d).step = "4-1" /\ r.key.n = Head(d).key.n
      BY <2>2 DEF Answers1
    <3>2. r \in Frames /\ d # <<>> /\ up'[t] = Append(q, r) /\ down'[t] = Tail(d)
      BY <3>1 DEF Answers
    <3> QED BY <1>2, <1>3, <2>1, <3>1, <3>2
  <2>3. CASE Answers3(t) \/ AnswersGroup(t)
    <3>1. PICK r : Answers(t, r) /\ r.step # "4-2"
      BY <2>3 DEF Answers3, AnswersGroup
    <3>2. r \in Frames /\ d # <<>> /\ up'[t] = Append(q, r) /\ down'[t] = Tail(d)
      BY <3>1 DEF Answers
    <3> QED BY <1>2, <1>3, <2>1, <3>1, <3>2
  <2>4. CASE Drops(t) \/ Misses(t)
    BY <1>2, <1>3, <2>1, <2>4 DEF Drops, Misses, ChannelsKept
  <2>5. CASE Asks(t)
    <3>1. PICK r \in Frames : up'[t] = Append(q, r) /\ down'[t] = d /\ r.step # "4-2"
      BY <2>5 DEF Asks, Request
    <3> QED BY <1>2, <1>3, <2>1, <3>1
  <2> QED BY <1>9, <2>2, <2>3, <2>4, <2>5, InOrderBudgets DEF StationCase
<1> QED BY <1>4, <1>5, <1>6, <1>7, <1>8, <1>9 DEF SlotStep, ServerCase

LEMMA OrderStep ==
  ASSUME TypeOK, TypeOK', GlobalInv, NEW t \in Stations, CounterInv(t), NonceFlight(t),
         OrderInv(t), SlotStep(t)
  PROVE  OrderInv(t)'
<1>1. SUFFICES ASSUME InOrder
               PROVE  Msgs2Ordered(up'[t], down'[t], wpa'[t].rc) /\ OnlyMsg2(t)'
  BY DEF OrderInv
<1>2. Msgs2Ordered(up[t], down[t], wpa[t].rc) /\ OnlyMsg2(t)
  BY <1>1 DEF OrderInv
<1> QED BY <1>1, <1>2, Msgs2Step, OnlyMsg2Step

-----------------------------------------------------------------------------
(* Keys.                                                                   *)

\* What is taken for message 4 is not the repeated message 2: its counter
\* would be the one the handshake started with, which is taken for a message 2,
\* or there is no second message 2 of this handshake.
LEMMA NeverMsg2 ==
  ASSUME IInv, NoResends \/ InOrder, NEW t \in Stations, OrderInv(t), StartedInv(t),
         Receives(t), IsMsg4(wpa[t], Head(up[t])), Head(up[t]).key = wpa[t].PTK
  PROVE  Head(up[t]).step # "4-2"
<1> DEFINE x == wpa[t]
           m == Head(up[t])
<1>1. SUFFICES ASSUME m.step = "4-2" PROVE FALSE
  OBVIOUS
<1>2. x.state = "PTKINITNEGOTIATING" /\ ~IsMsg2(x, m)
  BY DEF IsMsg4
<1>3. m.key.n = x.ANonce
  BY <1>2 DEF IInv, SlotInv, NonceInv, Receives
<1>4. m \in Elems(up[t]) /\ m \in Upward(t)
  <2>1. up[t] \in Seq(Frames) /\ up[t] # <<>>
    BY DEF IInv, TypeOK, Receives
  <2>2. m \in Elems(up[t])
    BY <2>1, ElemsTail
  <2> QED BY <2>2 DEF Upward
<1>5. CASE InOrder
  BY <1>1, <1>2, <1>3, <1>4, <1>5 DEF OrderInv, OnlyMsg2
<1>6. CASE NoResends
  <2>1. m.rc = x.started
    BY <1>1, <1>3, <1>4, <1>6 DEF StartedInv
  <2> QED BY <1>2, <2>1 DEF IsMsg2
<1> QED BY <1>5, <1>6

\* Hence its key is one the station has installed.
LEMMA CompletesKnown ==
  ASSUME IInv, NoResends \/ InOrder, NEW t \in Stations, OrderInv(t), StartedInv(t),
         UpwardInv(t), Completes(t)
  PROVE  wpa[t].PTK \in sup[t].keys
<1> DEFINE x == wpa[t]
           m == Head(up[t])
<1>1. Takes(t) /\ Receives(t) /\ IsMsg4(x, m) /\ m.key = x.PTK /\ x.state = "PTKINITNEGOTIATING"
  BY DEF Completes, Takes, Receives, IsMsg4
<1>2. m \in Upward(t)
  <2>1. up[t] \in Seq(Frames) /\ up[t] # <<>>
    BY <1>1 DEF IInv, TypeOK, Takes
  <2>2. m \in Elems(up[t])
    BY <2>1, ElemsTail
  <2> QED BY <2>2 DEF Upward
<1>3. m.step # "4-2"
  BY <1>1, NeverMsg2
<1>4. x.PTK \in sup[t].keys \cup {NoKey}
  BY <1>1, <1>2, <1>3 DEF UpwardInv
<1>5. x.PTK # NoKey
  <2>1. x.PTK.psk = Passphrase[t] /\ KnowsPassphrase(t)
    BY <1>1 DEF IInv, SlotInv, PairwiseInv
  <2> QED BY <2>1 DEF KnowsPassphrase, NoKey
<1> QED BY <1>4, <1>5

LEMMA ConfirmedStep ==
  ASSUME IInv, NEW t \in Stations, OrderInv(t), StartedInv(t), UpwardInv(t), ConfirmedInv(t),
         SlotStep(t)
  PROVE  ConfirmedInv(t)'
<1>1. SUFFICES ASSUME NoResends \/ InOrder, drv'[t].ptk # NoKey
               PROVE  drv'[t].ptk \in sup'[t].keys
  BY DEF ConfirmedInv
<1>2. drv[t].ptk # NoKey => drv[t].ptk \in sup[t].keys
  BY <1>1 DEF ConfirmedInv
<1>3. CASE ServerCase(t)
  <2>1. CASE Stays(t)
    BY <1>1, <1>2, <2>1 DEF Stays
  <2>2. CASE Gone(t) \/ Enters(t)
    BY <1>1, <2>2 DEF Gone, Enters, Absent
  <2>3. CASE Offers(t) \/ Accepts(t) \/ Updates(t) \/ Again(t)
    <3>1. \E f \in Frames : Emits(t, f)
      BY <2>3 DEF Offers, Accepts, Updates, Again, Offers21
    <3>2. drv'[t] = drv[t] /\ sup'[t] = sup[t]
      BY <2>3, <3>1 DEF Offers, Accepts, Updates, Again, Emits
    <3> QED BY <1>1, <1>2, <3>2
  <2>4. CASE Completes(t)
    <3>1. drv'[t].ptk = wpa[t].PTK /\ sup'[t] = sup[t]
      BY <2>4 DEF Completes, Offers21, Emits
    <3> QED BY <1>1, <2>4, <3>1, CompletesKnown
  <2> QED BY <1>3, <2>1, <2>2, <2>3, <2>4 DEF ServerCase
<1>4. CASE StationCase(t) /\ ServerIdle(t)
  <2>1. sup[t].keys \subseteq sup'[t].keys
    BY <1>4 DEF StationCase, Answers1, Answers3, AnswersGroup, Drops, ChannelsKept, Misses,
                Doubles, Swaps, Asks
  <2> QED BY <1>1, <1>2, <1>4, <2>1 DEF ServerIdle
<1> QED BY <1>3, <1>4 DEF SlotStep

LEMMA EstablishedStep ==
  ASSUME IInv, TypeOK', NEW t \in Stations, EntryInv(t), OrderInv(t), StartedInv(t), UpwardInv(t),
         GTKInv(t), EstablishedInv(t), SlotStep(t)
  PROVE  EstablishedInv(t)'
<1> DEFINE x == wpa[t]
           y == wpa'[t]
<1>1. SUFFICES ASSUME NoResends \/ InOrder, NoRequests, drv'[t].asoc,
                      y.gstate = "REKEYESTABLISHED"
               PROVE  sup'[t].gtk >= 1
  BY DEF EstablishedInv
<1>2. drv[t].asoc /\ x.gstate = "REKEYESTABLISHED" => sup[t].gtk >= 1
  BY <1>1 DEF EstablishedInv
<1>3. TypeOK /\ sup[t].gtk \in Nat
  BY DEF IInv, TypeOK, SupInfo
<1>4. CASE ServerCase(t)
  <2>1. CASE Stays(t)
    <3>1. sup'[t] = sup[t] /\ drv'[t] = drv[t]
          /\ (y.gstate = x.gstate \/ (Takes(t) /\ ~Pairwise(Head(up[t]))))
      BY <2>1 DEF Stays
    <3>2. CASE Takes(t) /\ ~Pairwise(Head(up[t]))
      <4>1. Head(up[t]) \in Upward(t) /\ Head(up[t]).step = "2-2"
        BY <1>1, <1>3, <3>2, OnlyAnswers DEF Pairwise
      <4> QED BY <3>1, <4>1 DEF GTKInv
    <3> QED BY <1>1, <1>2, <3>1, <3>2
  <2>2. CASE Gone(t)
    BY <1>1, <2>2, FreshFlow
  <2>3. CASE Enters(t) \/ Updates(t)
    BY <1>1, <2>3 DEF Enters, Updates
  <2>4. CASE Offers(t) \/ Accepts(t) \/ Again(t)
    <3>1. \E f \in Frames : Emits(t, f)
      BY <2>4 DEF Offers, Accepts, Again
    <3>2. y.gstate = x.gstate /\ drv'[t] = drv[t] /\ sup'[t] = sup[t]
      BY <2>4, <3>1 DEF Offers, Accepts, Again, Emits
    <3> QED BY <1>1, <1>2, <3>2
  <2>5. CASE Completes(t)
    <3>1. x.wpa2 /\ drv[t].asoc /\ sup'[t] = sup[t]
      BY <1>1, <2>5 DEF Completes, Offers21, Emits, Takes
    <3>2. Security[t] = "WPA2"
      BY <3>1 DEF EntryInv
    <3>3. sup[t].keys # {}
      BY <1>1, <2>5, CompletesKnown
    <3> QED BY <3>1, <3>2, <3>3 DEF GTKInv
  <2> QED BY <1>4, <2>1, <2>2, <2>3, <2>4, <2>5 DEF ServerCase
<1>5. CASE StationCase(t) /\ ServerIdle(t)
  <2>1. sup[t].gtk >= 1
    BY <1>1, <1>2, <1>5 DEF ServerIdle
  <2>2. CASE Answers3(t)
    <3>1. PICK r : Answers(t, r) /\ Head(down[t]).step = "4-3"
                   /\ sup'[t].gtk = IF Security[t] = "WPA2" THEN Head(down[t]).gtk ELSE sup[t].gtk
      BY <2>2 DEF Answers3
    <3>2. Head(down[t]) \in Downward(t)
      BY <1>3, <3>1, AnswerFlow
    <3> QED BY <2>1, <3>1, <3>2 DEF GTKInv, CarriesGTK
  <2>3. CASE AnswersGroup(t)
    <3>1. PICK r : Answers(t, r) /\ Head(down[t]).step = "2-1" /\ sup'[t].gtk = Head(down[t]).gtk
      BY <2>3 DEF AnswersGroup
    <3>2. Head(down[t]) \in Downward(t)
      BY <1>3, <3>1, AnswerFlow
    <3> QED BY <3>1, <3>2 DEF GTKInv, CarriesGTK
  <2>4. CASE ~Answers3(t) /\ ~AnswersGroup(t)
    <3>1. sup'[t].gtk = sup[t].gtk
      BY <1>5, <2>4 DEF StationCase, Answers1, Drops, ChannelsKept, Misses, Doubles, Swaps, Asks
    <3> QED BY <2>1, <3>1
  <2> QED BY <2>2, <2>3, <2>4
<1> QED BY <1>4, <1>5 DEF SlotStep

-----------------------------------------------------------------------------
(* The budgets, and the invariant as a whole.                              *)

LEMMA BudgetStep ==
  ASSUME Next
  PROVE  /\ budget' = budget \/ \E k \in Kinds : Spend(k)
         /\ late' = late \/ (\E s \in Stations : late' = [late EXCEPT ![s] = "no"])
                         \/ budget["timeout"] > 0
<1>1. CASE GKRekeyTimeout
  BY <1>1 DEF GKRekeyTimeout, Kinds
<1>2. ASSUME NEW s \in Stations, Membership(s)
      PROVE  late' = late /\ \E k \in Kinds : Spend(k)
  BY <1>2 DEF Membership, Associate, Disassociate, Deauthenticate, Kinds
<1>3. ASSUME NEW s \in Stations, RecvPairwise(s) \/ RecvGroup(s) \/ RecvBadGroup(s)
      PROVE  late' = late /\ budget' = budget
  BY <1>3 DEF RecvPairwise, RecvMsg2, RecvBadMsg2, IgnoreMsg2, RecvMsg4WPA2,
              RecvMsg4WPA, RecvBadMsg4, RecvPairwiseDone, RecvPairwiseRequest, RecvGroup,
              RecvBadGroup, MicFailure, CountGroupDone
<1>4. ASSUME NEW s \in Stations, Timer(s)
      PROVE  /\ budget' = budget \/ \E k \in Kinds : Spend(k)
             /\ late' = [late EXCEPT ![s] = "no"] \/ budget["timeout"] > 0
  BY <1>4 DEF Timer, ResendTimerFires, ResendFrame, ResendGiveUp, Spend, Kinds
<1>5. ASSUME NEW s \in Stations, Supplicant(s) \/ Channel(s)
      PROVE  /\ budget' = budget \/ \E k \in Kinds : Spend(k)
             /\ late' = late
  BY <1>5 DEF Supplicant, SupMsg1, SupMsg3, SupGroup, SupAnswers, SupDiscard, SupDuplicate,
              SupRequest, Channel, LoseDown, LoseUp, Overtake, apVars, Kinds
<1> QED BY <1>1, <1>2, <1>3, <1>4, <1>5 DEF Next, GKRekeyTimeout

LEMMA GlobalStep ==
  ASSUME IInv, GlobalInv, Next
  PROVE  GlobalInv'
<1>1. budget \in [Kinds -> Nat] /\ Budget \in [Kinds -> Nat] /\ late \in [Stations -> {"no", "resend", "give-up"}]
  BY BudgetAssumption DEF IInv, TypeOK
<1>2. \A k \in Kinds : budget'[k] <= Budget[k]
  <2>1. \A k \in Kinds : budget[k] <= Budget[k]
    BY DEF GlobalInv
  <2>2. CASE budget' = budget
    BY <2>1, <2>2
  <2>3. ASSUME NEW k \in Kinds, Spend(k)
        PROVE  \A l \in Kinds : budget'[l] <= Budget[l]
    <3>1. budget' = [budget EXCEPT ![k] = budget[k] - 1]
      BY <2>3 DEF Spend
    <3>2. \A l \in Kinds : budget'[l] = budget[l] \/ budget'[l] = budget[l] - 1
      BY <1>1, <3>1
    <3>3. \A l \in Kinds : budget[l] \in Nat /\ Budget[l] \in Nat
      BY <1>1
    <3> QED BY <2>1, <3>2, <3>3
  <2> QED BY <2>2, <2>3, BudgetStep
<1>3. ~gbl'.GInitAKeys => gbl'.GTK >= 1
  BY GroupGrows
<1>4. NoResends => \A t \in Stations : late'[t] = "no"
  <2>1. SUFFICES ASSUME NoResends PROVE \A t \in Stations : late'[t] = "no"
    OBVIOUS
  <2>2. "timeout" \in Kinds /\ ~(budget["timeout"] > 0)
    <3>1. "timeout" \in Kinds
      BY DEF Kinds
    <3>2. budget["timeout"] <= Budget["timeout"] /\ budget["timeout"] \in Nat
      BY <1>1, <3>1 DEF GlobalInv
    <3> QED BY <2>1, <3>1, <3>2 DEF NoResends
  <2>3. \A t \in Stations : late[t] = "no"
    BY <2>1 DEF GlobalInv
  <2> QED BY <1>1, <2>2, <2>3, BudgetStep
<1> QED BY <1>2, <1>3, <1>4 DEF GlobalInv

FramesInv(t) ==
  /\ EntryInv(t) /\ CounterInv(t) /\ UpwardInv(t) /\ NonceFlight(t) /\ GTKInv(t)
  /\ GroupPhaseInv(t) /\ SupervisedInv(t) /\ StartedInv(t) /\ OrderInv(t)
  /\ ConfirmedInv(t) /\ EstablishedInv(t)

FInv == GlobalInv /\ \A t \in Stations : FramesInv(t)

LEMMA FInvInit == Init => FInv
<1> SUFFICES ASSUME Init PROVE FInv
  OBVIOUS
<1>1. GlobalInv
  BY BudgetAssumption DEF Init, GlobalInv
<1>2. ASSUME NEW t \in Stations
      PROVE  FramesInv(t)
  <2>1. /\ wpa[t] = ResetSta /\ drv[t] = Absent /\ down[t] = <<>> /\ up[t] = <<>>
        /\ sup[t] = NewSup /\ gbl.GTK = 0
    BY DEF Init
  <2>2. Downward(t) = {} /\ Upward(t) = {} /\ Elems(up[t]) = {}
    BY <2>1 DEF Downward, Upward, Elems, NewSup
  <2>3. ~drv[t].asoc /\ drv[t].ptk = NoKey
    BY <2>1 DEF Absent
  <2>4. sup[t].rc = 0 /\ sup[t].ptk = NoKey /\ sup[t].keys = {} /\ sup[t].gtk = 0
    BY <2>1 DEF NewSup
  <2>5. /\ wpa[t].rc = 0 /\ wpa[t].state = "IDLE" /\ wpa[t].msg = NoFrame /\ wpa[t].ANonce = 0
    BY <2>1 DEF ResetSta
  <2>6. EntryInv(t)
    BY <2>1, <2>3 DEF EntryInv
  <2>7. CounterInv(t)
    BY <2>1, <2>4, <2>5 DEF CounterInv, Ordered
  <2>8. UpwardInv(t) /\ NonceFlight(t)
    BY <2>2, <2>4, <2>5 DEF UpwardInv, NonceFlight, NoFrame, NoKey
  <2>9. GTKInv(t)
    BY <2>1, <2>2, <2>3, <2>4 DEF GTKInv
  <2>10. GroupPhaseInv(t) /\ SupervisedInv(t) /\ StartedInv(t) /\ ConfirmedInv(t)
         /\ EstablishedInv(t)
    BY <2>2, <2>3 DEF GroupPhaseInv, SupervisedInv, StartedInv, ConfirmedInv, EstablishedInv,
                      Handshaking
  <2>11. OrderInv(t)
    BY <2>1, <2>5 DEF OrderInv, Msgs2Ordered, OnlyMsg2
  <2> QED BY <2>6, <2>7, <2>8, <2>9, <2>10, <2>11 DEF FramesInv
<1> QED BY <1>1, <1>2 DEF FInv

LEMMA FInvStep == IInv /\ IInv' /\ FInv /\ [Next]_vars => FInv'
<1> SUFFICES ASSUME IInv, IInv', FInv, [Next]_vars PROVE FInv'
  OBVIOUS
<1>1. TypeOK /\ TypeOK' /\ GlobalInv
  BY DEF IInv, FInv
<1>2. CASE Next
  <2>1. GlobalInv'
    BY <1>1, <1>2, GlobalStep
  <2>2. gbl'.GTK >= gbl.GTK /\ (~gbl'.GInitAKeys => gbl'.GTK >= 1)
    BY <1>1, <1>2, GroupGrows
  <2>3. ASSUME NEW t \in Stations
        PROVE  FramesInv(t)'
    <3>1. SlotStep(t)
      BY <1>1, <1>2, SlotSteps
    <3>2. FramesInv(t)
      BY DEF FInv
    <3>3. EntryInv(t)' /\ CounterInv(t)' /\ UpwardInv(t)' /\ NonceFlight(t)' /\ GTKInv(t)'
      BY <1>1, <2>2, <3>1, <3>2, EntryStep, CounterStep, UpwardStep, NonceStep, GTKStep DEF FramesInv
    <3>4. GroupPhaseInv(t)' /\ SupervisedInv(t)' /\ StartedInv(t)' /\ OrderInv(t)'
      BY <1>1, <3>1, <3>2, GroupPhaseStep, SupervisedStep, StartedStep, OrderStep DEF FramesInv
    <3>5. ConfirmedInv(t)' /\ EstablishedInv(t)'
      BY <1>1, <3>1, <3>2, ConfirmedStep, EstablishedStep DEF FramesInv
    <3> QED BY <3>3, <3>4, <3>5 DEF FramesInv
  <2> QED BY <2>1, <2>3 DEF FInv
<1>3. CASE UNCHANGED vars
  BY <1>3 DEF vars, FInv, GlobalInv, FramesInv, EntryInv, CounterInv, UpwardInv, NonceFlight,
              GTKInv, GroupPhaseInv, SupervisedInv, StartedInv, OrderInv, OnlyMsg2, ConfirmedInv,
              EstablishedInv, Upward, Downward, Handshaking
<1> QED BY <1>2, <1>3

LEMMA FInvAlways == Spec => []FInv
<1> QED BY FInvInit, FInvStep, IInvAlways, PTL DEF Spec

-----------------------------------------------------------------------------
(* What the invariant says of the promises of PskAuthenticator.            *)

LEMMA CountersFromInvariant == IInv /\ FInv => ReplayCountersAccepted
<1> SUFFICES ASSUME IInv, FInv, NEW s \in Stations
             PROVE  \A i \in DOMAIN down[s] :
                      /\ sup[s].rc <= down[s][i].rc /\ down[s][i].rc < wpa[s].rc
                      /\ \A j \in DOMAIN down[s] : i < j => down[s][i].rc < down[s][j].rc
  BY DEF ReplayCountersAccepted
<1>1. DOMAIN down[s] = 1 .. Len(down[s])
  BY DEF IInv, TypeOK
<1>2. Ordered(down[s], sup[s].rc, wpa[s].rc)
  BY DEF FInv, FramesInv, CounterInv
<1> QED BY <1>1, <1>2 DEF Ordered

\* A station is sent frames with growing replay counters and refuses none for
\* its counter, for every interleaving of handshakes, resends, rekeyings and
\* losses, with or without failing allocations (SendEAPOL).
THEOREM ReplayCountersSound == Spec => []ReplayCountersAccepted
<1> QED BY IInvAlways, FInvAlways, CountersFromInvariant, PTL

\* When no frame is resent, or the frames of the stations come neither twice
\* nor in another order, the access point encrypts to a station only with a
\* key that station has installed (EAPOLKeyRecvd: what is taken for message 4
\* is an answer to message 3).
THEOREM KeysConfirmed ==
  ASSUME NoResends \/ InOrder
  PROVE  Spec => []KeyConfirmed
<1>1. FInv => KeyConfirmed
  BY DEF FInv, FramesInv, ConfirmedInv, KeyConfirmed
<1> QED BY <1>1, FInvAlways, PTL

\* Under the same condition a message 2 is never taken for message 4: the
\* comment of EAPOLKeyRecvd on the duplicated message 2 then tells the truth.
THEOREM DuplicatesTold ==
  ASSUME NoResends \/ InOrder
  PROVE  Spec => DuplicateIsNotMsg4
<1>1. ASSUME IInv, FInv, NEW s \in Stations, RecvMsg4WPA2(s) \/ RecvMsg4WPA(s)
      PROVE  Head(up[s]).step # "4-2"
  <2>1. Receives(s) /\ IsMsg4(wpa[s], Head(up[s])) /\ Head(up[s]).key = wpa[s].PTK
    BY <1>1 DEF RecvMsg4WPA2, RecvMsg4WPA
  <2>2. OrderInv(s) /\ StartedInv(s)
    BY <1>1 DEF FInv, FramesInv
  <2> QED BY <1>1, <2>1, <2>2, NeverMsg2
<1>2. IInv /\ FInv => [\A s \in Stations :
         RecvMsg4WPA2(s) \/ RecvMsg4WPA(s) => Head(up[s]).step # "4-2"]_vars
  BY <1>1
<1> QED BY <1>2, IInvAlways, FInvAlways, PTL DEF DuplicateIsNotMsg4

\* While SendEAPOL finds buffers and no station asks for new keys, a handshake
\* under way has its resend timer pending or running, whatever is lost,
\* repeated, overtaken or late (EAPOLKeyRecvd, ResendTimeout).
THEOREM HandshakesSupervised ==
  ASSUME ~SkbMayFail, NoRequests
  PROVE  Spec => []HandshakeSupervised
<1>1. FInv => HandshakeSupervised
  BY DEF FInv, FramesInv, SupervisedInv, HandshakeSupervised
<1> QED BY <1>1, FInvAlways, PTL

\* Whoever is held for established under the first group key has it, when no
\* station asks for new keys and no message 2 is taken for message 4
\* (UpdateGK, EAPOLKeyRecvd: gstate).
THEOREM GroupKeysHeld ==
  ASSUME NoResends \/ InOrder, NoRequests
  PROVE  Spec => []GroupKeyHeld
<1>1. ASSUME IInv, FInv, NEW s \in Stations, drv[s].asoc, wpa[s].gstate = "REKEYESTABLISHED",
             gbl.GTK <= 1
      PROVE  sup[s].gtk = 1
  <2>1. FramesInv(s)
    BY <1>1 DEF FInv
  <2>2. sup[s].gtk >= 1 /\ sup[s].gtk <= gbl.GTK
    BY <1>1, <2>1 DEF FramesInv, EstablishedInv, GTKInv
  <2>3. sup[s].gtk \in Nat /\ gbl.GTK \in Nat
    BY <1>1 DEF IInv, TypeOK, SupInfo, GlobalInfo
  <2> QED BY <1>1, <2>2, <2>3
<1>2. IInv /\ FInv => GroupKeyHeld
  BY <1>1 DEF GroupKeyHeld
<1> QED BY <1>2, IInvAlways, FInvAlways, PTL
=============================================================================
