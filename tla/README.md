# A TLA+ model of the LE Audio player

This directory specifies the control logic of the LE Audio Player (LEPL): links,
coordinated sets and bonds, the GATT client, the audio modes and the stream
control that carries them out on headsets and earbuds, the isochronous streams
underneath, the synchronisation of a set's volume, presets of hearing aids, and
the broadcast source. The modules are translated from the C source of the
repository; `PROJECT.json` maps each definition to the lines it models.

## 1. The system and its parts

The player is one application thread. The host (over RPC), the Bluetooth stack
(GATT notifications and writes, ISO events, link events) and timers post events
to it; each handler runs to completion. So there are no data races: what makes
the program hard is that a *transition* (stop a stream, start another) takes
many events of several parties, and that any other event may come in between.

| Part | Files | State | Operations | Interacts with |
| --- | --- | --- | --- | --- |
| CAP | `lepl_cap.c` | `audio_state`: current, paused and final mode, stream configurations, list of ASEs, `is_releasing` | start, stop and resume streams; mode transitions; ASE state changes; set reconnection; error response | called by all below; calls ASCS, MCS, TBS, CIS |
| MCS server | `lepl_mcs.c` | `media_state` | play and pause, from host or peer | CAP |
| TBS server | `lepl_tbs.c` | `ccs_state`, one call slot | incoming, originate, accept, terminate, hold, retrieve, join | CAP |
| ASCS client | `lepl_ascs.c`, `ga_lib_ascs.c` | per ASE: state, QoS, CIS number | control point writes; state notifications | CAP, CIS |
| CIS | `lepl_cis.c`, `lepl_isoc_offload.c` | CIS handles, data paths, retry slot and timer | CIG and CIS creation, data paths, teardown | ASCS, GATT |
| RPC | `lepl_rpc.c`, `app_rpc.c`, `le_audio_rpc.c` | none | the host's commands | all |
| GATT connections | `lepl_gatt.c` | two control blocks | connect, discover, disconnect | CSIS, CAP, NVRAM |
| CSIS | `lepl_csis.c` | one coordinated set of two members, scan timer, lock | membership, member discovery, lock | GATT, CAP |
| VCS, MICS, AICS, HAS clients | `lepl_vcs.c`, `lepl_micp.c`, `lepl_has.c` | volume, mute, gain, presets; `waiting_for_*` flags | set, and synchronise the members of a set | CAP |
| BIS | `lepl_bis.c`, `le_audio_bap_broadcast.c` | BIG state | configure, start, release a broadcast | CAP |
| NVRAM | `lepl_nvram.c` | bonded devices, CCCDs, keys | save, read, delete, clear | GATT, BT management |
| GATT client | `gatt_interface.c` | discovery context, operation queue | discovery, reads, CCCD writes | GATT |
| BT management | `lepl_btmgr.c`, `lepl_main.c` | scan, advertising and connection activity | start-up, pairing, scan | NVRAM, CSIS |

What is hard, and the property that says it does not go wrong, is in the hazard
list of `PROJECT.json`. In short: notifications that a later command overtakes;
commands in the middle of a transition; transitions that no event will end; the
members of a set that answer in any order; a write that is refused half-way; a
link that is lost, and the member that comes back; counters and slots at their
limit. What makes each part correct:

* CAP: the mode tells what the peers do; transitions end; a mode yields to
  higher ones only; an interrupted mode comes back; no pointer outlives its
  control block.
* MCS, TBS: what the servers report is what happens.
* CIS: every streaming ASE gets its data path, a session leaves no CIS behind,
  a disconnect command ends in a disconnection.
* GATT client: cached handles are complete; nothing is read before the player has
  subscribed; a device becomes ready.
* GATT connections, CSIS: the activity the player believes in is real; a set has
  its members on record; no link is closed that is not there. (The code miscounts
  a set in two cases, which section 4 gives and the property names.)
* NVRAM: a bond survives a restart.
* VCS, MICS, AICS: the members of a set come to rest; their volumes then agree,
  unless a write was refused; nobody is waited for in vain. (For gains and mute
  states of inputs the code promises less, see sections 2.5 and 4.)
* HAS: the list of presets is sorted, has nothing that the hearing aid does not
  have, and has what a reading has told until an update comes.
* BIS: what is on air is what is announced, a stop leaves nothing behind, and
  what carries audio can be stopped.

## 2. Modules

| Module | What it is |
| --- | --- |
| `LeplTypes` | The enumerations of `lepl.h`, `ga_lib_ascs.h` and `ga_lib_tbs.h`; the constants that describe the devices |
| `LeplCap` | The handlers of `lepl_cap.c`, `lepl_mcs.c`, `lepl_tbs.c`, `lepl_ascs.c`, `lepl_rpc.c`, `lepl_cis.c` and `lepl_gatt.c` that touch the audio state, as operators from state to state |
| `LeplUnicast` | The composition of these: host, peers, ASCS servers, ordered bearers, faults; the actions, the fairness, the properties |
| `LeplCis` | The isochronous streams under a unicast session: CIG, CISs, data paths, retry timer, audio engine, disconnect command, link loss |
| `LeplLinks` | Control blocks, the BLE activity, coordinated sets and the search for a member, bonds and their copy at the host, restarts |
| `GattClient` | From connection to ready: discovery state machine, chain of services, CCCD writes, reads, congestion, handle cache |
| `AudioModes` | Abstract: what the player promises about the current, the next and the interrupted mode; implemented by `LeplUnicast` |
| `SharedControl` | Abstract: what the synchronisation of a set promises |
| `LeplSetSync` | Volume, microphone mute and gain of a set; implements `SharedControl` for the volume |
| `HasPresets` | The hearing aid client's list of presets |
| `LeplBis` | The broadcast source: announcements, BIG, data paths, audio engine |
| `MCHeadset`, `MCEarbuds`, `MCCis`, `MCLinks`, `MCGatt`, `MCSetSync`, `MCBis` | Instances for TLC (`HasPresets` needs none) |
| `LeplCapProofs`, `LeplUnicastProofs`, `LeplCisProofs`, `LeplLinksProofs`, `LeplSetSyncProofs`, `HasPresetsProofs`, `LeplBisProofs`, `GattClientProofs` | Proofs, see section 5 |

The components interact through few values, and each module keeps those of its
neighbours that it needs: `LeplUnicast` decides which mode runs; `LeplCis` takes a
mode and its ASEs as a *session* and follows it down to the ISO stack; `LeplLinks`
follows a link until it is `READY`, `GattClient` shows what happens on the way;
`LeplSetSync` and `LeplUnicast` (for a set) start from a complete set.

### 2.1 Unicast: `LeplCap`, `LeplUnicast`

**State.** The application is one record `app` (its fields are listed at the
head of `LeplCap`): the fields of `lepl_audio_state_info_t`, the media and call
state, per ASE its state and CIS number as the client knows them, the control
point writes under way, and of the ISO stack the CISs of the CIG and those that
are connected. Around it `srv` is the ASE state at the servers and `nq` the
notifications under way. Writes and notifications are queues per connection:
ATT keeps their order on a bearer, and two bearers are independent.

**Actions.** A handler runs to completion, so an action is a whole handler, with
the calls it makes. `Play`, `Pause`, `StartMic`, `StopMic`, `StartBidir`,
`StopBidir`, `Ring`, `EndCall`, `StopToDisconnect`, `BroadcastStart` and
`BroadcastStop` are the RPC commands, with their guards; `PeerPlay`,
`PeerPause`, `PeerAccept`, `PeerTerminate`, `PeerOriginate`, `PeerHold`,
`PeerRetrieve` and `PeerJoin` are the writes to the media and call control
points, `RemoteHold` and `RemoteRetrieve` the host's simulation of the other
party; `Deliver` is
`lepl_ascs_handle_received_characteristics_value`, for a state or for an error
response; `CigCompleteEvt` is the completion of the CIG, which creates the
CISs; `LinkLoss` and `Reconnect` are the connection events. `ServerWrite`,
`ServerStream`, `ServerReleased`, `ServerReject` and `ServerDisable` are the
ASCS servers of the peers, modelled from how the client uses them and from the
states of `ga_lib_ascs.h`; a server may keep the codec configuration of a
released ASE (`Caching`) or not. `PathFails` is a notification whose handler ends
early because the data path was refused (`lepl_ascs.c:362`, 382).

*Accepting a call whose ringtone is streamed* (`Inband`, only with
`INBAND_RINGTONE_ENABLED`, `lepl_tbs.c:844`, which no build file of the repository
defines). `PeerAccept` removes the data paths of the streaming ASEs and sets them up
again (`lepl_tbs.c:211`, `lepl_isoc_offload.c:554`), but the event of a removed path
disconnects the CIS (`lepl_cis.c:243`). `dropping` holds the CISs that go because of
it (`AcceptDrops`); `CisDisconnectedEvt` is the event: the CIG goes with its last CIS
(`lepl_cis.c:142`), the server's ASEs fall back to QOS_CONFIGURED, which it notifies,
and the player enables them again (`lepl_cap.c:856`). With the CIG gone nothing
creates their CIS, so the call may be left with ASEs that stay ENABLING.

**Abstractions.**

* The removal of the data path of the ringtone and of its CIS is one event.
* A configuration is its context, its number of CISs and whether a device alone
  gets one stream per channel; codec, QoS and PAC values are left out.
* The ISO stack is `cig`, `cigEvt` and `iso`. The teardown that a RELEASING
  notification starts (data path, CIS, CIG) is one step, and CISs do not fail:
  that is the subject of `LeplCis`. So `StopToDisconnect` is the disconnect
  command up to the release of the streams. The disconnect command without a
  stream is `LinkLoss`.
* A device is connected with its discovery complete. The order of the members of
  a set is the order of the control blocks.
* There is one call slot, as configured (`LEPL_TBS_BEARER_MAX_CALL_COUNT`), so a join
  names the same call twice. `transit_info.initial_mode` is never read and is left
  out, as are the events for the host.

**Abstract.** `AudioModes` is the state diagram of `src/README.md` 590-605 with the
priorities and the interrupted mode: `Begin`, `End`, `Complete`, `Return` (to what
was interrupted), `HangUp`, `OnAir`, `Abandon`. `LeplUnicast` implements it with
`mode`, `next` and `paused` as `current_mode`, `transit_info.final_mode` and
`paused_mode` (`ImplementsModes`); the diagram has no arrow for what `HangUp` does
in a mode that is not CALL, the code does.

### 2.2 Isochronous streams: `LeplCis`

A session is started and stopped (`Start`, `Stop`, `DisconnectDevice`); the ASE
notifications `NotifyEnabling`, `NotifyStreaming`, `NotifyReleasing`, `NotifyIdle`
come in the order of each ASE and in any order between ASEs. The ISO stack is
external: `iso` holds whether the CIG is configured, each CIS and each data path, with
the event that the stack still owes (a CIS that is `SYNCED` has its established event
on the way, one that is `DROPPED` its disconnected event, a path that is `SETTING` its
set-up event). Every device has one CIS, with a number like its link's. A session in
the mode `RING` is CALL while the ringtone is streamed, with the engine of media
(`lepl_isoc_offload.c:250`); what an accept makes of it is `LeplUnicast`'s. An
ENABLING that comes after a stop finds its configuration cleared, and asks for the CIG
of no CIS, which does nothing. Faults (one budget): a CIS that fails to synchronise
(0x3E, the code's retry) or is refused otherwise, a CIS or a link that is dropped, a
refused data path, a disconnect command. The audio engine is its role,
`audio_started`, `wiced_le_audio_enable` and the stream of the audio manager.

### 2.3 Links, sets and bonds: `LeplLinks`

`radio` is the activity variable of `g_lepl_gatt_cb` beside what the stack really
does. `sets[2]` and `nvram[NvSlots + 1]` are the memory after the arrays, because
the code's loops reach it; a link goes through the phases `UP`, `SEC`, `ENC`,
`FOUND`, `SIRK`, `READY`. The host keeps a copy of every slot it was sent and
restores it after a restart (`Restart`, `Restore`). Whether a scan result belongs
to a set (the RSI) is decided by `Sirk`. The lock of a set is a no-op in the code.
`amiss` is a history variable: the members that the count of a set goes wrong with,
`missed` (counted when found, but never connected) and `dropped` (connected while
their set was cleared); it marks the two failures of `lepl_csis.c` that
`MembersOnRecord` excepts. A pairing that completes after its bond has gone sends the
host keys under an id of no slot (`lepl_btmgr.c:533`) and is a step without effect
here; whether the player or the device starts the encryption (`lepl_gatt.c:1874`)
makes no difference to the events that follow, so `Secure` has no guard for it.

### 2.4 GATT client: `GattClient`

The stack serves one request after the other per link and may refuse one (no
buffer), answer with an error, or tell of congestion at any time. The
characteristics are numbered within their service, so a handle is a small number;
the database of each device is a constant. The lists of CCCDs to write and of values
to read are sets of places (service in the order of the code, slot), served from the
first place on: the code fills its array in this order and goes through it once. The
timer that follows a failed discovery closes the connection whose id it finds in an
event buffer that is no longer valid: any link or none (`DiscoveryTimeout`).

### 2.5 Set synchronisation: `SharedControl`, `LeplSetSync`

One behaviour is about one of the three services (`kind`). A request is decided on the
copy of the member's state that the control block holds, carries the copy's change
counter, and is refused by a member whose counter moved on. The stack may refuse any
of the writes of one step (`Send`, `failed`): then nothing is sent, the flag is not
set and nobody tries again (`lepl_vcs.c:81`, `lepl_micp.c:48`). Users change a
member's setting at any time, of an audio input one value at a time. `modes` is
whether the members have a mute that can be disabled and, for AICS, an automatic gain:
such a member refuses a mute or a gain (`ga_lib_aics.h:49-87`), and the client reads
both values but asks for neither. `SharedControl` is the promise: outside an exchange
no setting moves except by its user, and an exchange ends only when the members that
are there agree, unless it is `loose`: one has come back and nothing was exchanged
since (reading a member's state synchronises nothing), or a write of the exchange was
refused. The next notification makes a loose set whole again.

### 2.6 Presets: `HasPresets`

The hearing aid holds a set of presets and its active one, and indicates changes; its
user adds, removes, toggles and chooses presets. It answers a reading with one
indication after the other (`Respond`), each for the next preset that it has by then,
`MaxRecords` at most, so that any change may be indicated between two of them. A name
is the old one or the new one. `upto` is a history variable: the index up to which the
last reading has told the presets, 0 after an update. The copy of overlapping memory
in a deletion (`lepl_has.c:58`) is taken for the move that it is meant to be.

### 2.7 Broadcast: `LeplBis`

`Start` and `Stop` are the two halves of the RPC handler; the events of the BIG and
of its data paths are queued in `evq` in the order of the calls that cause them,
and each handler is applied to whatever the state is by then. A failure of the
heap, of the controller or of the stack may hit any call. `disturbed` is a history
variable: a command was given while events were owed, or a path could not be
removed. A stop of a broadcast in which every BIS streams resets it.

## 3. Runs

`CHECK_DEADLOCK FALSE` in every configuration: when the commands and faults are
used up the system may rest.

| Run | Bounds | What it shows |
| --- | --- | --- |
| `headset_eager` | one headset with two sinks and a microphone, every command, 2 commands at any moment, 1 fault of any kind (a refused write, a disabled stream, a refused data path, a lost link) | `TypeOK`, `ModeTracksFinal`, `MediaModePlays`, `PriorityRespected`, `ImplementsModes` |
| `headset_polite` | the same headset, 9 commands, a host that waits until everything has settled and starts nothing twice, calls held only after they were answered, no faults, fair | `SettledConsistent`, `TransitEnds`, `MediaResumes` |
| `earbuds_polite` | a coordinated set of two earbuds, in-band ringtone, caching servers, 5 commands, the same host | `SettledConsistent`, `TransitEnds` with the interleavings of two servers |
| `earbuds_links` | the set, play and pause, 4 commands, one link lost at any moment and back | `ListedConnected`, `ListedStream` |
| `cis_streams` | two earbuds, one with a microphone; 2 sessions of MEDIA, MIC, CALL or RING, 1 fault | `PathTracked`, `TornDown`, `Carried`, `EngineMatchesRole` |
| `links` | two earbuds of a set and a headset; 2 connect commands, and 2 of: a scan, stop or advertise command, lost links, an unbond, a restart | `ActivityBacked`, `MembersOnRecord`, `NoStaleClose`, `BondsSafe` |
| `gatt_client` | two devices, one with fewer and one with more sink ASEs than the player has slots for, MICS with an AICS; 2 faults of different kinds | `HandlesComplete`, `SubscribedBeforeRead`, `ReadyAfterReads`, `StallsKnown` |
| `set_sync` | two members, volumes and gains at and near both ends, counters about to wrap (the counter is 0..4: five values are more than the writes that can be under way), 3 changes, 1 fault (a lost link, or a step whose writes are refused), with and without disabled mutes and automatic gains, fair | `WaitingAnswered`, `Settles`, `ImplementsPromise` |
| `presets` | 4 presets for a list of 3, 3 commands, 2 changes by the user | `Sorted`, `NoGhosts`, `ReadCompletes` |
| `broadcast` | 1 and 2 BISs, mono and stereo, encrypted and not, a request without an id; 6 commands, 2 failures, fair | `StopsClean`, `Truthful`, `Stoppable`, `Streams` |
| `media_race`, `disconnect_hangs` | see section 4 | a statement of the repository's README that the code does not keep |

Each of the new modules also has its `TypeOK` checked. Symmetry is used in `links`
(the two earbuds), which checks invariants only.

*Why these bounds.* Unicast: two commands are enough for one to hit every point of the
transition that the other started; to interrupt, be interrupted and return takes five
(`headset_polite` has nine: media, a call that is answered, held and retrieved on both
sides, and back). For the safety properties of `headset_eager` and for
`ListedConnected` the bounds do not matter: they are proved. CIS: two sessions are
needed for one to be started on what the other has left. Links: a member has to be
lost, found again and lost again, and a restart has to fall between a pairing and its
copy. GATT: two faults, so that a failure meets another event, and two devices,
because the congestion handler treats them differently. Presets: one more preset than
the list holds, so that a reading does not tell all, and two changes, so that one may
fall between two responses and another after it. Sets: a change by each of two users
and one of the host cross each other; one fault is enough to leave a member behind,
and the next change shows that it is caught up. Broadcast: four commands to start,
stop too early, and start again on what was left; six to see the repair.

**Fairness.** `LeplUnicast`: weak fairness on what the servers, the bearers and the
event thread do: a server answers a write, enables an ASE whose CIS is up and
completes a release; a queued notification or stack event is dispatched (the
thread blocks on nothing but its queue). `LeplSetSync`: writes and notifications
are delivered while the link is there. `LeplBis`: the stack delivers the events it
owes. There is none on commands, users, faults or reconnections anywhere.

**Manners of the host.** `SettledConsistent` and `TransitEnds` hold for a host that
waits, does not start a mode twice and holds no call before it is answered. They
do not hold without these manners, nor with a lost link in a transition: section 4
shows what happens then. `StopsClean`, `Truthful` and `Streams` speak of a
broadcast host that lets the events come in (`disturbed`); `Stoppable` speaks of
every host.

**Weakened statements.** Some invariants exclude a case because the code does not
keep it, and say so: `TornDown` and `Carried` a CIS that failed to synchronise (the
retry timer is never stopped), `StallsKnown` three ways in which a device never
gets ready, `WaitingAnswered` the microphone mute and the inputs that refuse a write
because of their mute or gain mode (`Silent`), `ImplementsPromise` everything but the
volume, and agreement after a refused write until the next notification,
`MembersOnRecord` the two miscounts of section 4 (`amiss`), `ReadCompletes` the
presets once an update was handled, or went out in the middle of a reading, and
`SettledConsistent` the ASEs of a call whose ringtone was streamed, which may be left
enabled without a CIS.

## 4. Where the code departs from its documentation

Two are runs, in which TLC finds the README's statement violated.

| Run | Statement in `src/README.md` | What happens |
| --- | --- | --- |
| `media_race` | 614: MEDIA is "Media streaming to sink" | play, pause, play before the first stream is up: a late ENABLING ends the pause's transition with `is_releasing` still set; the next play is taken for a release, and MEDIA is on with nothing streaming |
| `disconnect_hangs` | 233: "Press **Disconnect** to terminate ACL connection." | the command comes while no CIS is up: it waits for the CIS-disconnected event, which never comes; the session ends and the link stays |

The following are stated in the modules and can be reproduced by a configuration
that differs from a listed one as given.

| Property | Configuration | Statement and what happens |
| --- | --- | --- |
| `IncomingAnnounced` (`LeplUnicast`) | `MCMediaRace.cfg`, `Cmds = {"play", "ring"}`, `MaxCmds = 2` | README 375 "Otherwise, sink is notified of incoming call." A call during the transition to MEDIA: `paused_mode` is NONE, so the end of the release (`lepl_cap.c:1051`) takes CALL as the mode without announcing the call |
| `MicStops` | the same, `FairSpec`, `Cmds = {"mic", "micStop"}`, `Manners = {"wait"}`, `MaxCmds = 3` | README 606 "MIC --> NONE: Stop Mic". A second start records MIC as the paused mode (`lepl_cap.c:947`); stop resumes it |
| `TerminateReturns` | the same, `FairSpec`, `Cmds = {"originate", "terminate"}`, `Manners = {"wait"}`, `MaxCmds = 2` | README 384 "Return to idle or previous state." Terminating a call that was only originated (`lepl_tbs.c:762`) opens a transition that no release ends |
| `SettledConsistent` | `MCHeadsetPolite.cfg` without `"answered"` | a call held before it is answered: retrieving it makes it ACTIVE with no conversational stream, and accept refuses it |
| `SettledConsistent` | `MCEarbudsPolite.cfg`, `Caching = {1}` | README 599 "IN_TRANSIT --> MEDIA: Transition Complete" (and those of the other modes). One earbud keeps its codec configuration after a release, the other goes to IDLE: the end of the release asks for all ASEs in one state (`lepl_cap.c:816-834`), so the transition never completes |
| `HandlesComplete` (`GattClient`) | `MCGatt.cfg`, `Refusable = {"DISCOVER"}`, `MaxFaults = 1` | `gatt_interface.h:183` "Final GATT status": a discovery command that the stack refuses (`gatt_interface.c:98`) ends the discovery as a success, and incomplete handles are cached |
| `TimerMeansSearch` (`LeplLinks`) | `MCLinks.cfg`, `Devices = {earL, earR}` | README 260 "Application scans for second earbud automatically." A scan stopped by the host leaves the timer of the search running, which blocks the next search (`lepl_csis.c:176`) |
| `SetsInArray` | the same, `Sirk <- MCTwoSets`, no symmetry | two devices of different sets: the loops over `csis_set[1]` run to 2 (`lepl_csis.c:193`) |
| `KeysInArray` | `MCLinks.cfg`, `Devices = {earL, earR}`, `NvSlots = 1` | no slot is ever freed for a new bond (`lepl_nvram.c:100`) |
| `PairIsMate` | `MCLinks.cfg` | an unbond clears the link keys only (`lepl_nvram.c:197`): the slot's next owner has the old one's pair |
| `MembersAgree` (`LeplSetSync`) | `MCSetSync.cfg`, `Spec`, `Kinds = {"AICS"}`, `MaxFaults = 0` | the gain of a member is synchronised with an increment that ignores the other's gain (`lepl_cap.c:226`, `lepl_micp.c:70`) |

Others that the modules show in their reachable states:

* MICS: a mute write that changes nothing sets `waiting_for_mics_notif` for good
  (`lepl_micp.c:23`), and the member is skipped from then on (README 418 "mute all
  microphones on sink").
* AICS: a write that an input refuses because its mute is disabled or its gain is
  automatic is answered without a notification, and `waiting_for_aics_notif`
  (`lepl_micp.c:54`, 99), which only a notification clears (`lepl_cap.c:235`), leaves
  the member out of the synchronisation from then on. A member whose mute is disabled
  (2) also makes the set mute the others (`lepl_cap.c:220`, `lepl_micp.c:48`), one that
  is muted already included.
* A volume or mute write for one member that the stack refuses (`lepl_vcs.c:81`, 110) is
  not repeated: the members differ until the next change.
* Presets: an update is placed by the previous index it carries, not by its own
  (`lepl_has.c:271`), so updating a listed preset replaces its predecessor's
  record. In the middle of a reading this takes out a preset that was told already:
  of 1, 3, 4, 5, with an update of 3 between the responses for 3 and 4, the reading
  ends without 1. The list stays sorted and the next reading repairs it.
* A set counts a member when the scan finds it (`lepl_csis.c:131-135`); if its
  connection is refused or fails, the count stays at the set's size and the search is
  not taken up again. A member lost after its SIRK was read and before it joined
  takes the count down too (`lepl_csis.c:277`), to 0 if there is one other member, and
  the set is cleared under that member.
* Accepting a call with an in-band ringtone drops the CISs of the ringtone (section
  2.1); the ASEs are enabled again but may stay without a CIS, and no stream carries
  the call that README 380 gives "Bidirectional audio streaming." It takes a build
  with `INBAND_RINGTONE_ENABLED`.
* Broadcast: a stop between BIG-created and data-path-set-up leaves the BASE in
  STREAMING and `audio_started` set; the next start neither configures nor
  advertises (README 492-493), and the one after that is silent. A start that fails
  in its configuration sets the mode to BROADCAST all the same (`lepl_rpc.c:408`)
  and the stop command then does nothing, against README 608 "BROADCAST --> NONE".
  The comment at `lepl_cis.c:416` says that the release should wait. `bis_count`
  comes from the host unchecked and indexes `bis_config` (`lepl_bis.c:187`).
* Held calls: `ga_lib_tbs.h:127` says of a held call "no audio communicated in
  either direction"; hold and retrieve leave the streams alone. A remote hold of a
  call held by both forgets the local hold (`lepl_tbs.c:512`).
* A third connection overwrites the handle of the last block (`lepl_gatt.c:1021`);
  the member search times out after 100 s where README 261 says 10.
* In a transition with nothing to release: a bidirectional stream to a device with
  neither the GAME nor the CONVERSATIONAL context stays IN_TRANSIT; a link lost in
  a transition leaves the other member's transition open.

## 5. Proofs

`LeplUnicastProofs` proves, for any devices and ASEs that satisfy
`DeviceAssumption`, any bounds and any manner of the host:

| Theorem | Statement |
| --- | --- |
| `Invariance` | `Spec => []IInv` |
| `TypeCorrect` | `Spec => []TypeOK` |
| `FinalTracked` | `Spec => []ModeTracksFinal` |
| `MediaPlays` | `Spec => []MediaModePlays` |
| `PausedCanResume` | `Spec => []PausedResumable` |
| `NoStaleAse` | `Spec => []ListedConnected` |
| `Priorities` | `Spec => PriorityRespected` |
| `ModesImplementPromise` | `Spec => ImplementsModes`: the refinement of `AudioModes` |
| `SettledIsConsistent` | `Spec => []SettledConsistent`, for `Suited`, `Polite` and `Alike` |

*Assumptions.* `DeviceAssumption`: an ASE has one owner, devices that are
connected have a sink ASE, and `Snk[c]`, `Src[c]` hold ASEs of `c`.
`EnvAssumption`: the bounds are numbers and the other parameters have their
types.

*Argument.* None of the properties is inductive alone. The mode properties
depend on each other: an interrupted mode is recorded from the current mode, so
`PausedResumable` needs to know that a stop is only granted in a mode of which
`ModeTracksFinal` says that it is the final one; `MediaModePlays` needs
`PausedResumable` because MEDIA also returns by a resume. The types need the
environment: a handler indexes `out` and `list` by the device of an ASE, so a
notification has to come on the connection of the ASE's owner, and a device that
is gone may have nothing under way. `IInv` is therefore `AppInv(app)` (types,
listed ASEs and writes belong to connected devices, the three mode properties)
with `EnvInv` (bearers and servers). `LeplCapProofs` shows for each handler that
it keeps `AppInv` and the priorities (`Kept`), from lemmas about the operators
that handlers share; `LeplUnicastProofs` lifts them to the actions. For the
refinement every handler is shown to make one of the steps of `AudioModes` on the
modes of the state it gets (`Begins`, `Ends`, `Completes`, `Returns`, `HangsUp`,
`Abandons`, or none); that what begins is at least of the priority of what it
interrupts needs `ModeTracksFinal`, because the code compares with the mode that is
left (`LeftMode`) and records the current one.

*Settled streams.* `SettledConsistent` speaks of the states in which nothing is under
way; what makes them consistent is the course of every transition. Its inductive
invariant is `IInv /\ Phases`. `Phases` says that the player is in one of six phases
and gives the stage of every ASE in it:

| Phase | Audio state | ASEs that are listed (the others are `Resting`) |
| --- | --- | --- |
| `Rest` | NONE or BROADCAST, nothing listed, nothing paused | none |
| `Rings` | a call that is announced by its ring only waits for an answer | none |
| `Starting` | IN_TRANSIT to a unicast mode, no CIG yet | `Configuring` or `Ready`, one at least `Configuring` |
| `Awaiting` | the mode is on, the CIG is on its way | `Ready` |
| `Running` | the mode is on, the CISs are those of the listed ASEs (`RanksIn`) | `Ready` or `Flowing` |
| `Leaving` | IN_TRANSIT and releasing, each CIS belongs to an ASE that still streams | `Going` or `Gone`, one at least `Going` |

A stage is what the server, the client's copy and the two queues hold for one ASE:
nothing or one message, and in `Going` at most the two notifications RELEASING and
the one that ends the release. A command comes in `Rest`, `Rings` or a `Running` in
which every ASE streams, because the host waits (`wait`). A write or a notification
moves one ASE one stage on and leaves the others (`StageKept`); the last of the
listed ASEs to be `Ready`, or to be `Gone`, ends the phase, because the handler asks
whether all listed ASEs are in one state. `Control` adds the facts about call, media
and configuration that decide which phase follows: the listed ASEs are those which
the configuration calls for (`Suits`), so that each has a CIS within the CIG. That
the numbers of CISs fit needs the counting of sinks per device in
`LeplCapProofs` (`Rank`). From the phases, `PhasesConsistent` is immediate: settled
states are `Rest`, `Rings`, or `Running` with every listed ASE `Flowing`. TLC finds
`Phases` and the three hypotheses true on the constants of `headset_polite`, and on
those of `earbuds_polite` without `"accept"`. With an accept of an in-band call a CIS
goes while its mode is `Running`, and the phases do not hold; that case, with its
exception in the property, is TLC's (`earbuds_polite`).

The other components have a proof module each, for every value of the constants
that the module's assumption allows:

| Module | Theorem | Statement |
| --- | --- | --- |
| `LeplCisProofs` | `TypeCorrect` | `Spec => []TypeOK` |
| | `EngineFitsRole` | `Spec => []EngineMatchesRole` |
| | `PathsTracked` | `Spec => []PathTracked` |
| | `SessionsTornDown` | `Spec => []TornDown` |
| | `StreamsCarried` | `Spec => []Carried` |
| `LeplLinksProofs` | `TypeCorrect` | `Spec => []TypeOK` |
| | `ActivityIsBacked` | `Spec => []ActivityBacked` |
| | `MembersAreOnRecord` | `Spec => []MembersOnRecord`, for `OneSet` and `MaxLinks <= 2` |
| | `ClosesLiveLinks` | `Spec => []NoStaleClose`, for `MaxLinks <= 2` |
| | `BondsAreSafe` | `Spec => []BondsSafe` |
| `GattClientProofs` | `TypeCorrect` | `Spec => []TypeOK` |
| | `HandlesAreComplete` | `Spec => []HandlesComplete`, no discovery command refused |
| | `SubscribesFirst` | `Spec => []SubscribedBeforeRead`, no discovery command refused |
| | `ReadyWhenRead` | `Spec => []ReadyAfterReads`, neither discovery command nor read refused |
| | `StallsAreKnown` | `Spec => []StallsKnown`, neither discovery command nor read refused |
| `LeplSetSyncProofs` | `TypeCorrect` | `Spec => []TypeOK` |
| | `WaitingIsAnswered` | `Spec => []WaitingAnswered` |
| | `SetImplementsPromise` | `Spec => ImplementsPromise`: the refinement of `SharedControl` |
| | `VolumesAgree` | `Spec => [](kind = "VCS" => MembersAgree)` |
| `HasPresetsProofs` | `TypeCorrect` | `Spec => []TypeOK` |
| | `StaysSorted` | `Spec => []Sorted` |
| | `NoGhostsStay` | `Spec => []NoGhosts` |
| | `ReadingCompletes` | `Spec => []ReadCompletes` |
| `LeplBisProofs` | `TypeCorrect` | `Spec => []TypeOK` |
| | `AudioStoppable` | `Spec => []Stoppable` |
| | `StopLeavesNothing` | `Spec => []StopsClean` |
| | `AirIsTruthful` | `Spec => []Truthful` |

*Hypotheses beyond the assumptions of the modules.* `ClosesLiveLinks` needs
`MaxLinks <= 2`, the number of control blocks (`LEPL_MAX_CONNECTIONS`): a third
link takes over the last block (`lepl_gatt.c:1021`), and with `MaxLinks = 3` TLC
finds a set that keeps the connection id of the block's former owner.
`MembersAreOnRecord` needs it too, and `OneSet`: the devices with a SIRK are two
members of one set, as `LEPL_MAX_COORDINATED_SET` provides (with a second set the
loops over `csis_set[1]` run past its end, section 4). The theorems
of the GATT client exclude refusals by the stack that the code does not survive
(section 4): a discovery command that is refused ends the discovery of its service
as a success, and a read that is refused is taken off a count to which it was never
added.
Refused CCCD writes, failed requests, congestion and lost links are included.
`SettledIsConsistent` is about a host with the manners of section 3 that neither
originates calls nor disconnects, without faults and, with an in-band ringtone, without
an accept (`Polite`); about devices which
have distinct ASEs, a source among them, and support the contexts the host can ask
for, alone or as a set (`Suited`); and about servers that all keep the codec
configuration of a released ASE or all drop it (`Alike`). Section 4 shows what
happens to a host without these manners and in a set in which only one member
caches. The number of devices, ASEs and commands, and the commands themselves but
for the two, are arbitrary.

* *Streams.* That an ASE records the data path that the stack has is not inductive:
  the record is written by the handler of an event and the path is changed by the
  stack. `PathInv` adds that an ASE has its CIS's handle from the request on, that
  a path needs a CIS that is connected, dropped or closing, and that a handle or a
  path implies a CIS number. `EngineInv` is about the audio engine alone: every
  operation of it that can start a source stream first gives the buffers the
  source's role. `StackInv` carries the other two. Between sessions no CIS is left
  because a CIS that is neither gone nor going has an ASE that is still in use and
  whose release will remove it (`Calm`), and because an ASE is released only when
  there is no session (`Settled`). A streaming ASE is carried because a connected
  CIS has given its handle to every ASE in use, and the second of the two events
  STREAMING and CIS-established sets up the path (`Carrying`). Both lose their
  ground when a CIS was retried, which the properties say.
* *Links.* `LinkInv`: each change of the activity comes with the request to the
  stack, or with the event that ends it; a device has one block; a set counts the
  entries that are in use. `RecordInv`, for `MembersOnRecord`, adds that a set has
  entries for devices of its SIRK only, that a block knows no SIRK but that of its
  device, that every device that is counted has a block, is being connected or is
  `missed` (`Backing`), and that a member whose reads are done is in its set or
  `dropped` (`OnRecord`). A member that joins finds a place because two entries are
  enough for two members. `CloseInv` adds that every connection id in a set is
  that of a block that is ready and holds the SIRK of this set, so the loss of this
  link finds the entry and clears it. `BondInv` adds that slots of the NVRAM and of
  the host agree on their device, that no device has two slots, that a slot the
  host does not know belongs to a pairing that is about to be reported, and that
  nothing can be paired before the restart is over.
* *GATT client.* `ClientInv` is a conjunction over the control blocks (`Good`) with
  the stored handles. `Asking`: one discovery command is under way at most, it is
  that of the context, and its results so far have filled the slots of the
  characteristics up to there and of no other (`Progress`: the n-th characteristic
  of a type is in the n-th slot of the type, by counting; a descriptor goes to the
  last characteristic before it). `Chained`: the services before the one under
  discovery are complete, so all of them are at the end of the chain. `Phased`:
  encryption, discovery, CCCDs and reads do not overlap. `Listed`, `Subscribed` and
  `Counted`: what a list still has to do, what was asked for and what was answered
  add up to what the handles call for, and the reads under way are the count of
  operations; the count of CCCD writes needs no such statement, because it may be
  changed by other writes. The types hold without any of this: the counts are
  bytes whatever is counted. `LiveInv`, for `StallsKnown`, says of every block what
  will take it on (`Live`): an encrypted link without a discovery has a list or is
  ready (`Driven`), no list is complete without having been left (`Open`), and a
  list of CCCD writes that is not at its end has an answer to come, or a write that
  the stack refused and nobody resumes (`Pushed`). `Writes` makes the third cause a
  bound: the count of operations is, modulo 256, that of the CCCD writes under way
  less the answers to other writes that were counted for them, of which there are
  no more than other writes.
* *Sets.* `SyncInv` says for every member with a link that the last notification under
  way, or the copy in the control block when there is none, is the state of the
  member; and that a waiting flag without a notification under way has a last write
  that the member will accept and that will change it, unless the member is `Silent`.
  A refused write sets no flag. The second holds when the write is sent because the
  client refuses requests that change nothing (`lepl_check_volume_state_validity`),
  which needs a volume step above 0. The types also need that increments and
  decrements are written to VCS only. The refinement needs `InStep`: unless the set is
  loose, the copies of two members agree or one of the two is waited for or has a
  notification under way. The handler of a notification establishes it for the member
  that notified; a member that it leaves alone is one that agrees or is waited for
  already.
* *Presets.* An index in use has only lower indices in use before it; this is kept
  by a deletion of a range, by an insertion at the place that the loop of
  `lepl_has.c` finds and by an update. `GhostInv` says of every record that is
  listed or under way that the indications behind it turn it into the record of
  the hearing aid or delete it (`Faithful`), and of the active preset that the last
  report under way is right. `ReadInv` follows a reading while it is
  under way: the presets up to the one it told last are listed, or answered by a
  response under way (`Underway`, `Telling`), as long as no update has gone out since
  it began; what arrives is listed and stays so until it is deleted (`Complete`). That
  the list never overflows during a reading is a counting argument: the presets told
  and the responses left are no more than the list holds, and sorted indices below an
  index that is missing leave a place (`Room`).
* *Broadcast.* While a BIS carries audio, either the BASE is STREAMING, so that the
  stop command ends the BIG, or the terminated event is in the stack's queue; the
  events that other handlers append or take do not touch it. For a host that lets
  the events come in, `PhaseInv` gives the shape of the queue: nothing is left and
  the queue is empty, or paths are removed and then the BIG (`Closing`), or the
  BIG's creation is all that is under way (`Opening`), or its paths come up one by
  one (`Running`); in the last two the channels and the encryption under way are
  those that were announced.

*Only model-checked.* Liveness under fairness (`TransitEnds`, `MediaResumes`,
`ListedStream`, `Settles`, `Streams`) is out of the prover's reach. Every other property
of the runs that pass is stated by a theorem; `SettledConsistent` not for an accept of
an in-band call.

## 6. Not modelled, and what is left

* Parsers and encoders without state (`ga_lib_*.c` but for the operations that the
  modules use, `lepl_pacs.c`, `lepl_gmap.c`, the BASE and announcement layout of
  `ga_lib_bap.c`), the dispatch of RPC opcodes and the events for the host, the
  host transports, the audio driver and the transcoding build. BASS, IAS and VOCS
  are not called by the player.
* Reads of the media and call control servers: they change no state.
* A composition of `LeplUnicast` with `LeplCis` in one state space: its
  interleavings are beyond TLC on the smallest interesting instance; `LeplCis`
  takes the modes as sessions instead.
* Left: `SettledConsistent` with faults. After a lost link or an error response the
  phases above no longer hold, and section 4 shows states in which the player stays
  inconsistent; which commands repair them is not stated.
