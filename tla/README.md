# Verification of the rtl8192cd WLAN driver

The repository is the Realtek RTL8196C access point SDK (`src/rtl819x-sdk-v1.2`):
a boot loader, a Linux 2.4.18 kernel with Realtek's WLAN and Ethernet drivers, and
user space daemons. This directory holds TLA+ models of its core logic, the TLC
configurations that check them and proofs checked by TLAPS.

Contents: 1 inventory, 2 plan, 3 the modelled components, 4 the runs,
5 disagreements between comments and code, 6 the proofs, 7 what is not modelled.

## 1. Inventory

Third-party code (the rest of the kernel, busybox, iptables, iproute2, ppp, pptp,
l2tpd, bridge-utils, dnrd, routed, squashfs-tools, updatedd, wireless tools) is left
aside. `wsc`, `miniigd` and `mini_upnp` come without sources. `WLAN/` below is
`linux-2.4.18/drivers/net/rtl8192cd/`. The shipped configuration defines
`INCLUDE_WPA_PSK`, `RTL_WPA2`, `MBSSID`, `WDS`, WMM and APSD; `CLIENT_MODE`,
`UNIVERSAL_REPEATER`, `WIFI_HAPD` and `RX_TASKLET` are off; one processor, no preemption.

| Component | State | Operations | Hard behaviour | Correct when |
|---|---|---|---|---|
| PSK authenticator, `WLAN/8192cd_psk.c` | `wpa_sta_info` per station, `wpa_global_info` per interface | `psk_indicate_evt`, `EAPOLKeyRecvd`, `SendEAPOL`, `UpdateGK`, `ResendTimeout`, `GKRekeyTimeout` | lost, repeated, late frames; resend timer interrupted by frames; handshakes of several stations sharing one group key and one count | port opens only after proof of the passphrase; no key is installed twice; every handshake and rekeying ends; driver and authenticator agree on the group key |
| Event queue to the daemons, `WLAN/8192cd_security.c` | ring of 4 events | `DOT11_EnQueue`, `DOT11_DeQueue`, `DOT11_InitQueue` | called in three contexts, tests made with interrupts on; queue full | events are delivered once, in order, and refused only when the queue is full |
| Keys, ports, MIC countermeasures, `WLAN/8192cd_security.c` | key tables, port status, CAM, two timers with flags | `Set_Key`, `Set_Port`, `Disconnect_Req`, `Indicate_MIC_Failure` | timer handlers against failures; restart of the interface | two failures in the period block associations for the reject period, and nobody stays associated meanwhile |
| Station management, `WLAN/8192cd_sme.c`, `8192cd_util.c` | `aidarray`, `asoc_list`, `auth_list`, `sleep_list`, `assoc_num`, expire counters | authentication, association, deauthentication, aging, power save | entry freed and reused while commands and the lookup cache refer to it; counters against lists | every entry is on one list; counts agree with lists; the cache names no free entry |
| Receive path, `WLAN/8192cd_rx.c` | A-MPDU reorder window per TID, defragmentation queues | reorder, window move, timeout | window wrap at 4096, one ring and one timer for all flows, ring full | frames go up in order; no held frame waits for ever |
| Transmit path, `WLAN/8192cd_tx.c` | descriptor rings, aggregation queues | `start_xmit`, completion interrupt | ring full, interrupt between test and update | no descriptor reused before completion |
| NAT2.5, `WLAN/8192cd_br_ext.c` | hash table with timeouts | insert, lookup, expire | expiry against use | translation is symmetric |
| WAPI, `WLAN/wapi_wai.c` | as the authenticator | WAI handshake | as the authenticator | as the authenticator |
| Hardware access and ciphers | registers; none | calibration; AES, TKIP, SHA-1 | - | - |
| Ethernet driver, `linux-2.4.18/drivers/net/rtl865x` | NIC rings, mbuf pool, ASIC tables | send, receive, multicast snooping | ring and pool exhaustion | conservation of buffers |
| 802.1X daemon, `AP/auth/src` | state machines per supplicant | RADIUS, EAPOL, key machine | timeouts and retries | as the authenticator |
| udhcp, `AP/udhcp-0.9.9-pre` | lease table | discover, request, decline, release | expiry, offer without request | no address leased twice |
| IAPP, IGMP proxy, UDP server, ntpclient | small tables with timers | announcements, membership | timers | - |
| Web server and configuration, `AP/goahead-2.1.1` | configuration in flash | read, write, set | power loss between two writes | checksum valid after restart |
| Boot loader, `rtl8196c-bootcode-1.1c` | TFTP server, ring, flash | receive image, burn | block repeated, transfer restarted | image burnt is image sent |

How they interact: the receive path hands an EAPOL frame of an associated station to
`psk_indicate_evt` (an event queue carries the same events to user space for 802.1X);
station management reports associations and departures to it; the authenticator calls
`rtl8192cd_ioctl_priv_daemonreq` (through `ToDrv_*`) to set keys and ports or to
disconnect; its frames leave through `rtl8192cd_start_xmit`. `Set_Port` writes
`ieee8021x_ctrlport`, which `auth_filter` (receive) and the transmit path consult for
every data frame. Release of a table entry (`release_stainfo`) deletes the timer the
authenticator keeps in it.

The hazards, each at its line and with the properties that guard it, are listed in
`PROJECT.json`.

## 2. Plan

Done:

1. `PskAuthenticator` with `KeyAgreement` as its abstract specification (every branch of
   `EAPOLKeyRecvd`, `SendEAPOL`, `UpdateGK` and the timers), with theorems.
2. `EventQueue` with `BoundedFifo`, with theorems.
3. `ReorderBuffer` with `InOrderDelivery` (the A-MPDU reorder buffer of 8192cd_rx.c), with
   theorems about its timeouts and the refinement.
4. `StationTable` and `MicCountermeasures`, composed in `AccessPoint`, with theorems for
   all invariants.

Left, in this order:

1. The composition of the authenticator with `AccessPoint` through the release of table entries.
2. `Leases` (udhcp), `BootTftp` (eth_tftpd.c).

Each module is written with CONSTANTS and named assumptions, without RECURSIVE operators,
so that it can be proved about.

## 3. The modelled components

### The authenticator

`PskAuthenticator.tla` models `8192cd_psk.c` in access point mode with what it commands
in the driver. `KeyAgreement.tla` is the abstract specification. `MCPsk.tla` gives the
constants their values.

| Variable | Code |
|---|---|
| `wpa[s]` | `wpa_sta_info`: `state`, `gstate`, `resendCnt`, `CurrentReplayCounter` (`rc`), `ReplayCounterStarted` (`started`), `ANonce`, `PTK`, the WPA2 bit of `RSNEnabled`, `isGuest`, `PInitAKeys`, `resendTimer` (pending or not), `EAPOLMsgSend` (`msg`) |
| `gbl` | `wpa_global_info`: `GInitAKeys`, `GkeyReady`, `GKeyDoneStations`, `GTK[GN]`, `GKRekeyTimer` |
| `RC_toggle` | the static of `AuthenticationRequest` that alternates the first replay counter |
| `late[s]` | `ResendTimeout` was interrupted after its test of `resendCnt` |
| `drv[s]` | `WIFI_ASOC_STATE`, `ieee8021x_ctrlport`, the pairwise key in the key table, and (auxiliary) how often `ToDrv_SetPTK` was called |
| `drvGTK` | the group key in the driver's key table |
| `down`, `up`, `sup` | environment: the frames in the air and the supplicants |
| `budget` | bound: how many events of each kind are left |

| Action | Code |
|---|---|
| `Associate` | `psk_indicate_evt`, association and re-association with an acceptable RSN IE: `reset_sta_info`, `AuthenticationRequest`, `SendEAPOL` of 4-1 |
| `Disassociate` | `OnDisassoc`, `del_sta`, an association that is refused: entry reset and released |
| `Deauthenticate` | `OnDeAuth`: the entry is freed first, so the authenticator is not told; only the timer goes |
| `RecvMsg2`, `RecvBadMsg2`, `IgnoreMsg2` | `EAPOLKeyRecvd`, message 2 in `PTKSTART` and its duplicate in `PTKINITNEGOTIATING` (`check_msg2`); the 4-3 of a WPA2 station calls `UpdateGK` from within `SendEAPOL` |
| `RecvMsg4WPA2`, `RecvMsg4WPA`, `RecvBadMsg4` | everything else in `PTKINITNEGOTIATING` |
| `RecvPairwiseDone`, `RecvPairwiseRequest` | pairwise frames in `PTKINITDONE` |
| `RecvGroup`, `RecvBadGroup` | group frames, in whatever state |
| `ResendTimerFires`, then `ResendFrame` or `ResendGiveUp` | `ResendTimeout` up to its test, and after it |
| `GKRekeyTimeout` | the same |
| `SupMsg1`, `SupMsg3`, `SupGroup`, `SupDiscard`, `SupDuplicate`, `SupRequest`, `LoseDown`, `LoseUp`, `Overtake` | environment |

**Concurrency.** Received frames are handled in the interrupt routine
(`RTL8190_ISR_RX`), timers in a softirq that does not nest. A frame handler is one
action. `GKRekeyTimeout` and `reset_sta_info` disable interrupts. `ResendTimeout` does
not: between its test and its consequence any frame may be handled and any station may
come or go, which is why it is two actions. What it does after the test is taken as one
step; an interrupt within `SendEAPOL` or within the few assignments of the give-up
branch is not modelled.

**Abstractions.** A nonce is its number within the association: `ANonce` is taken from
a counter that never repeats, and the station's nonce adds nothing to what a MIC tells
apart. A PTK is a passphrase and a nonce. A MIC is valid if the frame carries the key
the receiver computes. A GTK is its generation. Replay counters are natural numbers
(they start with an upper word of 0, and the lower one does not run out within an
association). A 4-1 that is resent carries a MIC no station looks at. The supplicant
follows IEEE 802.11i: it takes a frame whose counter is larger than the last verified
one, answers with the counter of the frame, and adopts the key of message 3. It sends
the Secure bit in message 4 of WPA2 only. Left out: requests with the Error bit
(`IntegrityFailure`, which only counts), PMKID, descriptor versions, key data formats,
key lengths, the wireless distribution system.

`KeyAgreement` knows no messages: a station is out, unproven, proved or secured; it is
secured only after it was proved and only if it knows a passphrase; each key it is given
is newer than the one before; the group key in use is the newest, or an older one until
the newest is taken into use. The refinement mapping `KA` takes the phase of a station
from its port and `state`, the number of its key from the nonce of the PTK the driver
holds, and counts calls of `ToDrv_SetPTK`: setting the same key again is a step
`KeyAgreement` does not have.

### The event queue

`EventQueue.tla` models `DOT11_QUEUE` of `8192cd_security.c`, the ring through which the
driver tells the 802.1X and other daemons of associations, EAPOL frames, MIC failures and
departures. `BoundedFifo.tla` is its abstract specification, `MCQueue.tla` the instance.

| TLA+ | Code |
|---|---|
| `Head_`, `Tail_`, `NumItem`, `ItemArray` | the fields of `DOT11_QUEUE` |
| `call[c]` | how far an interrupted system call or softirq is in its operation, and the event it inserts |
| `harmed` | history, see below |
| `ret`, `got` | what the last `DOT11_EnQueue` answered and the last `DOT11_DeQueue` delivered |
| `InterruptEnQueue`, `InterruptRefused` | `DOT11_EnQueue` in the interrupt routine: one step |
| `EnQueueTest`, `EnQueueInsert` | `DOT11_EnQueue` elsewhere: the test with interrupts on, the rest with interrupts off |
| `DeQueueTest`, `DeQueueRemove` | `DOT11_DeQueue`, on `DOT11_EVENT_REQUEST` of a daemon |
| `InitQueueHead`, `InitQueueTail`, `InitQueueNumItem` | `DOT11_InitQueue`, on `DOT11_EVENT_INIT_QUEUE`: three assignments with interrupts on |
| `WatchdogReset` | `DOT11_InitQueue` when the watchdog reopens the interface from its timer, interrupts off |

A softirq interrupts a system call and the interrupt routine either, wherever interrupts
are on; there is one processor and system calls do not preempt each other. All of these
interruptions are in the specification: between the test and the insertion of
`DOT11_EnQueue`, between the test and the removal of `DOT11_DeQueue`, within
`DOT11_InitQueue`, and the watchdog in any of them. Three of them can harm the ring: an
insertion that finds it full (events came after its test), a removal that finds it empty
(the watchdog reset it after the test), and an event that is inserted or refused in the
middle of `DOT11_InitQueue`. The history variable `harmed` records that one of these
happened since the ring was last reset; the ring is claimed to be a FIFO until then, and
again as soon as it is reset. The other interruptions, of which there may be any number,
are covered by the claim: events that arrive between a test and an insertion which still
finds room, events that arrive or are refused between the test and the removal, a reset
under a pending insertion. An event is a model value.
Daemons poll (`event_indicate` only wakes them), so an event is delivered once.

### The reorder buffer

`ReorderBuffer.tla` models `reorder_ctrl_check`, `reorder_ctrl_timeout` and the ring of
timeouts of `8192cd_rx.c`. `InOrderDelivery.tla` is the abstract specification: numbers do
not wrap, a flow has a set of held frames and a base that only moves forward, and what
leaves the set goes up in increasing order. `MCReorder.tla` has the refinement mapping and
the liveness property.

| TLA+ | Code |
|---|---|
| `entry[f]` | `rc_entry[tid]` of a station: `packet_q`, `start_rcv`, `rc_timer_id`, `win_start`, `last_seq` |
| `ring` | `rc_timer` (`slot`: its flow and the ticks left), `rc_timer_head`, `rc_timer_tail`, and `rc_sys_timer` (`sys`) |
| `up[f]`, `arrived[f]` | what the last step passed up; the recent frames that came (auxiliary) |
| `ReceivePlain`, `ReceiveFirst` | `reorder_ctrl_check` without a window |
| `ReceiveBehind`, `ReceiveNext`, `ReceiveWithin`, `ReceiveAgain`, `ReceiveBeyond` | segments 1 to 4; 3 with an empty and an occupied slot |
| `reorder_ctrl_timeout` | the handler, all its rounds: it runs with interrupts off |
| `Release`, `Restart`, `IdleFlush` | `release_stainfo` of the station; closing the interface; `free_sta_skb` of `assoc_expire` |
| `Tick` | jiffies |

A flow is a station and a TID; the code treats the TIDs of a station independently but
releases them together. A frame is its number without wrap; the code's number is that
modulo `SnSpace`. Frames come at most `Reach` behind or before the newest, as the sender's
window guarantees. `Repeated` are the frames of which a copy gets past the tuple cache.

Copies are the one thing the buffer does not stand: a frame beyond the window may move it up to
itself and is then stored in the slot of `win_start` although it is next. A copy of it is taken for
the frame the window waits for and passed up, the window moves behind the stored one, and that
stays in its slot without a timeout. With such a copy `TimeoutHeld`, `HeldFramesLeave` and
`DeliversInOrder` are violated, in the code and in the model (`Repeated = {6}` in `reorder`), so
all three are claimed only where no frame that ever lay beyond the window is copied.

`IdleFlush` leaves `rc_timer_id` and the slot of the ring as the code does: the timeout then passes
for a flow without a window, or one that has begun anew and waits for nothing.

### The station table and the countermeasures

`StationTable.tla` models the table of stations (`8192cd_util.c`, `8192cd_sme.c`),
`MicCountermeasures.tla` the two TKIP timers of `8192cd_security.c`, and `AccessPoint.tla`
composes them: a second MIC failure frees every station, and while `assoc_reject_on` is
set no association request is taken. Properties are stated in `AccessPoint`.

| Variable | Code |
|---|---|
| `table.sta[i]` | `aidarray[i]`: `used`, `hwaddr`, `WIFI_AUTH_STATE1/SUCCESS` (`state`), `auth_seq`, `expire_to`, `keyInCam`, `tmp_rmv_key`, whether `ht_cap_len` is set (`ht`) |
| `table.asoc`, `table.auth` | `asoc_list`, `auth_list`, as sets |
| `table.pstat_cache`, `assoc_num`, `ht_sta_num`, `cam`, `CamEntryOccupied` | the same |
| `ticking` | the stations `rtl8192cd_expire_timer` has still to visit; interrupts are off |
| `pc` | where a command of user space is: in its lookup (the address it searches, the entry it found and has still to store), or between its sections with interrupts off, with the `pstat` it holds |
| `mic`, `handler` | the two timers with their flags; the handler between its test and its assignment |
| `freeing` | the stations the loop of countermeasures has still to free |
| `raced`, `stale`, `late` | history: `del_sta` was overtaken after its test of the list, or the interface reopened under a command; a command stored an entry in the lookup cache that had been freed since its search; a timer was restarted while its handler ran |

| Action | Code |
|---|---|
| `Frame` | `OnAuth` (both algorithms, all refusals), `OnDisassoc`, `OnDeAuth`; `Set_Key` and `Delete_Key` of a pairwise key, called while a frame is handled; `OnData`, the lookup of a data frame |
| `AssocReq` | `OnAssocReq`, accepted or refused |
| `MicFailure`, `MicFailureAgain`, `Freed` | `DOT11_Indicate_MIC_Failure`: first failure; second; a round of its loop |
| `ExpireTimer` | `auth_expire` and `assoc_expire`, a station at a time; whether a station was active is left open |
| `MicTimer` | the handlers of the two timers, interrupted after their test |
| `Command` | `get_stainfo` with interrupts on in three steps (cache, walk, store); then `del_sta` in three, `Disconnect_Req` and `Association_Rsp` in one |
| `Restart` | `rtl8192cd_close` and `rtl8192cd_open`, by the watchdog in its timer, also while a command is interrupted |

Abstractions: the order of the lists is left open, so is which of several entries
`alloc_stainfo` and the CAM take; memory for a new entry may lack. `expire_to` is unsigned in the code:
`Forever` stands for what 0 becomes when it is decremented, and takes 2^32 seconds to end.
The time of the MIC timers is abstracted: one that is pending may run out. The test of
`expire_to` in `del_sta` and the decrement after it are one step. A MIC failure reported by
the daemon (`MICReport`) does the same as one found on reception; that frames interrupt
its loop is left out. What the code does when no memory is left for the refusal frame, and
stations of WDS and mesh, are left out.

A command that is interrupted between its search and its store leaves `pstat_cache` on an entry
that is free (8192cd_util.c line 1297), and the next frame from that address is then handled on it.
The specification has this step and goes on after it, and `TypeOK` is claimed there too; all
other properties are claimed until then (`~stale`), and again after the interface was closed, unless
the cache was on a free entry even then. What is not modelled of it: `init_stainfo` of a
free entry that is used so resets list heads that are linked, and a walk that stands on an entry when it is freed and taken
for another address goes on in the list of that address. The queries among
the commands look stations up the same way but change nothing else; `Set_Key` and `Delete_Key` by a daemon,
with interrupts on, are left out.

Closing frees the memory of the stations while a command may hold one (`ClosedUnderCommand`): the command then
reads what is left in it. That the memory has already another use by then is left out.

Bounds of the run `ap`, none of them in the specification (`MCAccessPoint`): `Explored` leaves out
what follows once `stale` is set; after `raced` it keeps only the rest of a command that is to change its entry
next, and after `late` only what happens without commands. `Undisturbed` explores commands and MIC failures
apart, and lets the first failure come in the middle of no race of a MIC handler. The theorems are about the
specification without these bounds.

## 4. The runs

The runs of the authenticator use two stations or one, `MaxResendNum` 1 or 2 (5 in the code: the number only
matters as a bound), and a budget per kind of event; without budgets retransmission makes
the state space infinite, and since they run out the system stops: that is why deadlock
is not checked. The budgets are chosen so that every branch is taken in some run.

| Run | Instance | Shows |
|---|---|---|
| `proof` | a guest (WPA) and a wrong passphrase (WPA2); a resend, 2 requests, a repeated and an overtaken frame, failing allocations | `TypeOK`; `PortImpliesProof`: whose port is open has proved the passphrase the port is for |
| `duplicates` | main (WPA2) and guest (WPA); 2 repeated frames, a request, a rekeying | `KeyConfirmed`: the key in use is one the station has installed; `Agreement`: `KeyAgreement` is implemented |
| `group` | WPA2 and WPA; 2 timeouts, a rekeying, a departure, a loss | `GTKReady`: flag, driver and timer agree on the group key; `ReplayCountersAccepted`: all frames to a station have growing counters it accepts; `GroupKeyHeld`: who is done holds the first group key; `HandshakeSupervised`: a handshake has its timer |
| `ends` | one station, 12 timeouts, losses, repetitions, a departure | `HandshakeEnds` under `FairSpec` |
| `rekey_live` | WPA2 and WPA, 2 timeouts, a rekeying | `RekeyCompletes` under `LiveSpec` |
| `queue` | the ring of 4 as in the code, two events, every interruption | `TypeOK`; `FifoImplemented`: the ring is a bounded FIFO unless it is `harmed`, and again after a reset |
| `reorder` | one flow, window 4, numbers modulo 16, 17 frames, a ring of 2 slots, copies of frames 3 and 4 | `TypeOK`; `TimeoutHeld`; `DeliversInOrder`: `InOrderDelivery` is implemented |
| `rc_live` | two flows, a ring of 2 slots, which holds one timeout, frames with holes, some beyond the window, no copies | `TimeoutHeld`: who holds frames has a slot of its own; `SharedTimerArmed`: the one system timer is armed while a flow waits; `HeldFramesLeave` under `FairSpec` |
| `ap` | 2 entries, 3 addresses, one CAM entry, shared key authentication, timeouts of one second, all until the lookup cache is left on a freed entry | `TypeOK`; `TableConsistent`: each entry in use is on one list, no address has two, the cache is on an entry in use; `AssocCounted`: `assoc_num` is the number of stations associated and not expired; `AuthListTimed`: nobody waits for ever; `CamCounted`: keys in the CAM are counted; `PeriodEnforced`: flags and timers of the countermeasures agree and nobody is associated while they refuse |

Bounds. Two stations are enough for the interactions of the code: it treats one station
against the group (`GKeyDoneStations`, `UpdateGK`), and with two there is a last one and
one before it. Twelve timeouts exceed what one handshake with `MaxResendNum` 2 can use
(three per phase), so a budget never ends `HandshakeEnds` artificially: in `ends` a
station can exhaust its resends in each phase and again after a restart.
`KeyConfirmed` is checked without timeouts, `GroupKeyHeld` and `HandshakeSupervised` without
requests and failing allocations; section 6 has the exact conditions and why they are needed.

`ReorderBuffer` needs no bound but its finite sets: 17 frames of a window of 4 pass the
wrap at 16, and `Reach` 3 lets a frame be behind the window, in it and beyond it. Frames 3 and
4, which are copied, are too early to lie beyond a window, so their copies are dropped or behind it.
The frames 1, 4, 5 and 7 of `rc_live` have holes of two and one; 7 lies beyond the window of 4 when 2 and 3 are
lost. A ring of 2 slots holds one timeout, so the second flow that waits finds it full.
In `ap` three stations compete for two entries, so entries are recycled, and for one CAM
entry, so keys find no room; timeouts of a second reach every test of a counter; entries
and addresses are interchangeable, which the symmetry set uses. `AccessPoint`, `ReorderBuffer` and
`EventQueue` never stop: deadlock is checked in `ap`, `reorder`, `rc_live` and `queue`. Only
shared key authentication is in `ap`, since with open authentication the same states are
reached by fewer frames; `f_ht` uses open authentication.

In `EventQueue` 4 is the `MAXQUEUESIZE` of the code, and two events suffice to tell orders
apart. Only once the ring is harmed may `NumItem` go beyond the ring, without end; the
constraint `Bounded` explores it up to one below 0 and one above `MaxItem`, where nothing is
claimed but that a reset repairs it. It never stops, so deadlock is checked.

Fairness. `FairSpec` assumes that a pending timer is run and that an interrupted softirq
is resumed, which `run_timer_list` and the return from interrupt guarantee; the station
and the channel owe nothing. `LiveSpec` adds that frames that arrive are handled and that
stations answer, for the one property that cannot hold without: the end of a rekeying.
`rekey_live` has no departure; section 5 says what departures do.
`FairSpec` of `ReorderBuffer` assumes that jiffies advance and that the timer softirq runs when it is due;
frames owe nothing.

## 5. Comments that the code does not bear out

Each run finds a behaviour of the code in which what a comment says is not so.

- `f_msg4`, 8192cd_psk.c line 2649: message 2 and 4 are told apart by the replay counter of the first
  4-1. A resend takes a new counter that is not recorded, so the repeated 4-2 that answers
  it is taken for message 4, and the driver is given a key the station does not have yet.
- `f_queue`, 8192cd_security.c lines 46-48, "Fail: return E_DOT11_QFULL if queue is full":
  the test for full is made before interrupts are disabled. A frame handled in between may
  fill the ring; the insertion then overwrites the oldest event, succeeds, and leaves
  `NumItem` one above `MaxItem`, where the test for full, an equality, fails.
- `f_ht`, 8192cd_util.c line 3113, "this should not happen": a station is counted as HT station
  when it joins the list and taken off the count by what it is when it leaves, and a second
  association request may change that in between. The count goes below 0, and since it is
  unsigned the test for it never notices.

The models have four more such behaviours, which follow from a reading of the code and
have no run:

- 8192cd_psk.c line 2878: a 2-2 should match a counter used in the group key handshake; any
  counter that is not larger is accepted, also that of the previous handshake (`AcceptsGroup`).
- 8192cd_psk.c line 2763: a WPA2 station whose message 3 was built before a rekeying and
  whose message 4 arrives after it is not sent the new group key (`RecvMsg4WPA2`).
- 8192cd_psk.c line 1665: a station that leaves while it is counted stays counted, and then the
  timeout of the last station does not give the driver the new group key (`GroupTimeout`).
- 8192cd_rx.c line 1076: the diagram of segments has frames behind the window dropped; the code
  passes them up (`ReceiveBehind`).

## 6. The proofs

All theorems are about every value of the constants. For `PskAuthenticator` these are:
finitely many stations with any passphrases and protocols, any `MaxResendNum` and any
budget of environment events, with or without guest passphrase, rekeying and failing
allocations. For `EventQueue`: any size of the ring and any events.
For `AccessPoint` see below.
The assumptions are the named ASSUMEs of the modules and nothing else.

`PskAuthenticator_proofs`: `TypeCorrect`, Spec => []TypeOK. One lemma per operator (what
`Proved`, `Confirmed`, `UpdateGK`, ... return) and one per group of actions. The part
that is not a matter of types is `GKeyDoneStations`: `GroupCount` never takes it below 0.

`PskAgreement_proofs`:

- `GTKReadyAlways`: Spec => []GTKReady. Inductive with `TypeOK`, because `GroupStep` shows
  that every step leaves group state and driver alone, generates a key, counts a station
  off, or both.
- `PortSound`: Spec => []PortImpliesProof. The property is not inductive: what opens a port
  is message 4, which only shows that the station has the PTK of message 2. The invariant
  `IInv` adds, for each station, `PairwiseInv` (a handshake past message 2 has a PTK made
  of the station's passphrase, and `isGuest` fits it), `PortInv` (so has an open port,
  also while the next handshake of the station is under way), `FlightInv` (a 4-2 in
  flight, or kept for repetition, carries the key of the station that sent it),
  `NonceInv` and `InitKeyInv` (below). The induction rests on one observation: a step
  moves the state machine of at most one station (`MovesStep`). What it does to all others
  (`SendEAPOL` and `UpdateGK` write the entries of several stations) is `Quiet`:
  counters, timers, messages and `gstate` only, which none of the invariants reads.
- `Refinement`: Spec => Agreement. `NonceInv` (the key in use is older than the `ANonce` of a
  handshake under way, whose PTK has that `ANonce`) gives that each key set is newer than
  the one before, so that no repeated frame sets a key twice (`StationsImplement`);
  `InitKeyInv` (the first group key exists before a WPA2 station is in
  `PTKINITNEGOTIATING`) excludes the one step that would generate a group key and take one
  into use at once (`NeverBoth`), so that group steps are those of `KeyAgreement`
  (`GroupImplements`).

`PskFrames_proofs` is about the frames in flight. `SlotSteps` says once, for one station, what
a step of the system may be: `ServerCase` (one of eight things the access point does to its
entry, whichever handler does it) or `StationCase` (one of eight things the station and the
channels do). Every invariant below is then kept case by case, station by station.

- `ReplayCountersSound`: Spec => []ReplayCountersAccepted, without any condition. `CounterInv`:
  the frames on their way to a station have growing counters between what the station
  accepts and the counter of its entry.
- `KeysConfirmed` and `DuplicatesTold`: if no frame is resent (`NoResends`), or the frames of a
  station come neither twice nor in another order (`InOrder`), then `KeyConfirmed` holds and no
  message 2 is taken for message 4, as the comment of `f_msg4` has it. The two conditions
  have different reasons. Without resends every message 2 of a handshake has the counter it
  started with (`StartedInv`), by which a repeated one is recognised. In order, with
  resends, messages 2 have growing counters, behind which all messages 1 on their way are
  (`Msgs2Ordered`); the one that is accepted has the counter sent last, so none of its
  handshake is left (`OnlyMsg2`). `NeverMsg2` joins the two, and `UpwardInv` (a station answers
  only with keys it has) gives the rest. With one resend and one repeated frame, or two
  resends and one overtaken frame, TLC finds `KeyConfirmed` violated.
- `HandshakesSupervised`: [] HandshakeSupervised if no allocation fails and no station sends a
  request. Group frames delete the timer in every state (8192cd_psk.c line 2872), so the proof is
  that none is in flight before the pairwise handshake has ended (`GroupPhaseInv`). Without
  either condition TLC finds it violated: after a failed `SendEAPOL` no timer is armed, and a
  group request that is handled during a 4-way handshake deletes it.
- `GroupKeysHeld`: [] GroupKeyHeld under the condition of `KeysConfirmed` and without
  requests. `GTKInv` (a station with a pairwise key under WPA2, or whose 2-2 is in flight, has a
  group key, and frames that are to carry one do) and `EstablishedInv`. Both conditions are
  needed: a station taken for done by its message 2 has no group key yet, and a group request
  makes a WPA station established without one.

`EventQueue_proofs`: `TypeCorrect` and `RingIsFifo`, Spec => FifoImplemented. The invariant
says that `Tail` is `NumItem` slots after `Head` unless the ring is harmed or being
initialized; nothing an interrupted context has tested is part of it, since nothing of
that survives an interruption. What the theorem rests on is that a step that sees neither
a full ring at an insertion, nor an empty one at a removal, nor an initialization under
way keeps this, and that a reset establishes it: at its end `DOT11_InitQueue` has repaired
the ring unless `Head` or `Tail` was moved in between. `f_queue` shows that the first
exception is needed. `SlotsDiffer` (used slots are distinct) and `AfterSlot` carry the
sequence argument.

`AccessPoint_proofs`: for any number of entries, addresses and CAM entries, any timeouts,
algorithms and HT stations.

- `TypesKept`: Spec => []TypeOK, also after the lookup cache was left on a freed entry; the part that is
  more than types is that `assoc_num` stays within 0 and `NUM_STAT` + 1.
- `TableStaysConsistent`: Spec => []TableConsistent. Inductive together with `TypeOK` over the
  steps, but not over the operations a step is composed of: a station taken off one list is on
  none for a moment. `Good` is the invariant of a table between handlers, `Loose` what holds
  within a handler, of all stations but the one it is about; each operation (`LeaveAsoc`,
  `release_stainfo`, `init_stainfo`, `free_stainfo`, `CamAdd`, ...) has a lemma that says
  which it keeps, and each handler's lemma composes them, as the code does. The property has
  the condition `~stale`: `SoundBefore` says that a step which does not set `stale` finds the table `Good` and,
  if it is the store of a command, stores an entry in use. Without the condition TLC finds it
  violated in five steps: a station authenticates, a command searches it, it leaves, the command stores it.
- `RefusalPeriodEnforced`: Spec => []PeriodEnforced. `FlagsFollowTimers` relates flags, timers
  and the handler under way (a handler runs only when its timer is not pending, but for a
  late one); `Refused` says that while associations are refused only stations
  countermeasures have still to free are associated, for which `Step` carries that no handler
  but `OnAssocReq` puts a station on the list.

`AccessPointCounts_proofs`: `StationsCounted`, Spec => []AssocCounted. Every handler is about one
station and changes `assoc_num` as that station becomes active (associated and not expired) or
ceases to be, which is `Tallies`; the operations that count nothing are `Quiet`. `CountFollows`
turns that into cardinalities, with the bounds that let `cnt_assoc_num` ignore neither an
increase nor a decrease. The invariant `CInv` adds what the two handlers that are several
steps need: between its two steps `del_sta` has its station still on the list, and
countermeasures have still to free every station on it; all of it as long as `stale` is not set. `OthersKeep` is where `raced` is
needed: a step of another party leaves the station of a command alone, or the claim ends.

`AccessPointEntries_proofs`: `CamStaysCounted` and `AuthListStaysTimed`, Spec => []CamCounted and
Spec => []AuthListTimed. `Right` adds to them that keys in the CAM are those of
stations in use, which have distinct addresses: `CamDelete` finds an entry by address, and
only so is it the station's own; it holds under `~stale`, since a frame handled on a free entry could set a key for it. Unlike the lists, it is kept by every single operation.
With these all invariants of `ap` are theorems.

`ReorderBuffer_proofs`: for any number of flows, any window, ring and timeout, and any frames,
repeated or not except where said. The invariant `IInv` is `TypeOK`, `Matches` (a flow that waits and its slot of
the ring name each other) and `Armed` (the system timer is on while a slot names a flow).

- `TypeCorrect`: Spec => []TypeOK. What is more than types is arithmetic: indices modulo the ring
  and sequence numbers modulo `SnSpace` (`RingArith`, `SnArith`), and that the loops end: the one
  that moves the window to a frame beyond it finds a place to stop (`ShiftIs`, from the bound on
  `Reach`), and runs of held frames are no longer than the window (`RunLengthIs`).
- `TimersAlwaysMatch`: Spec => []TimersMatch, the part of `TimeoutHeld` about the ring: a new
  timeout takes a slot nobody uses (`AddedMatches`, from the test for a full ring), what is
  forgotten is the slot of the flow itself (`ForgottenMatches`).
- `SharedTimerAlwaysArmed`: Spec => []SharedTimerArmed. The timeout handler arms the timer only at
  its end, and the timeouts it adds meanwhile do not (`from_timeout`). `WalkInv` is what holds at
  every round of its loop: the slots still to be visited lie between the tail and the head the
  ring had in the beginning, those added since have the whole timeout left, and no slot
  left behind names a flow. `Nearer` says that the loop comes to the head within `RingSize` rounds.
- `HoldersAlwaysWait`: under `Near` (frames lie within a quarter of the sequence numbers of the
  newest one of their flow) and `NoCopies` (the tuple cache lets no copy through),
  Spec => []TimeoutHeld. The invariant `WInv` adds to `IInv` what a flow holds. `Numbered` names
  the uncut numbers b and l of `win_start` and `last_seq` and bounds their distance to the
  newest frame, so that every comparison modulo `SnSpace` decides as the numbers themselves
  would (`LessIs`, `FrameNumber`). `InWindow` says that a held frame is in the slot of its number,
  not below b and not above l, and still among those remembered as arrived: so the
  loops that move the window miss none (`EmptiedWindow`, `NothingLeft`), and a flow that waits no
  more holds nothing. One lemma per handler (`...KeepsWindow`) and an induction over the walk of the
  ring. A timeout may be left over from before a flush (`IdleFlush`): the flow it then passes for
  holds nothing, and `IdleShuts` says that it is left without a window. `NoCopies` is needed: with copies of every frame TLC finds the stranded frame of the
  hazard at 8192cd_rx.c line 1189 (SnSpace 8, WinSz 2, Reach 2). `Near` is needed for the
  invariant, which TLC finds violated with Reach 4 in a space of 12 numbers; it found no such
  instance for `TimeoutHeld` itself.
- `DeliveredInOrder`: under the same two hypotheses, Spec => DeliversInOrder, the refinement of
  `InOrderDelivery`. `Splits` says of a handler what it makes of the frames a flow holds and the
  one received: those before the new base go up in order, the others are still
  held; it leaves the window open, shut or waiting (`SplitOpen`, `SplitShut`, `SplitAwait`). It
  rests on `QueuedGoes` and `EmptiedHeld`, which say it of the loop over the slots, by induction
  over the slots. `BaseOf` gives the uncut base of the abstract flow from `win_start` and the
  newest frame (`BaseIs`, from `Numbered`). One timeout that runs out is one
  `GiveUp`, but the timeout handler walks the whole ring in one step: `AtMostOnce` says that of
  each flow at most one timeout is handled in a walk, because the one added for the
  next hole has the whole `Timeout` left. With `StepsRefine`, every step is an abstract
  step or a stutter of each flow.

Only model-checked: of `ReorderBuffer`, `DeliversInOrder` and `TimeoutHeld` with the copies of
`reorder`; and the liveness properties, which the proof system does
not reach.

## 7. Not modelled

Every component of the inventory without a module; `PROJECT.json` says why for each. Of
those with one:

- `8192cd_psk.c`: the client (`CLIENT_MODE`), WDS keys, parsing of the
  information elements beyond accepted or refused, PMK and PTK arithmetic, the Error bit
  of requests. The consequences of a frame that could not be allocated are modelled
  (`SkbMayFail`) but only `proof` runs with it: no timer is armed then, so a handshake may
  wait for ever. Power save buffering and the transmit queues are part of the channel.
- `8192cd_rx.c`: defragmentation, A-MSDU, decryption, header conversion, the descriptor ring.
- `8192cd_sme.c`, `8192cd_util.c`: power save queues, scanning, beacons, DIG, contents of
  information elements, WDS, mesh; `supportedStaNum` (a refusal is always possible).
- `8192cd_security.c`: WEP and group keys in the CAM, queries of the daemons.
- `8192cd_ioctl.c`: everything but `del_sta`; of the requests of daemons, those of section 3.

`PskAuthenticator` and `AccessPoint` are not composed: the authenticator has its own
`Associate`, `Disassociate` and `Deauthenticate`, with every order of them that the table
allows and more.

