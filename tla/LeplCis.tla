------------------------------ MODULE LeplCis ------------------------------
(* The connected isochronous streams of a unicast session (lepl_cis.c, the  *)
(* CIS half of lepl_isoc_offload.c, and what lepl_ascs.c and lepl_cap.c ask *)
(* of them): the handle and the data path that every ASE records, the retry *)
(* of a stream that failed to synchronise, the audio engine, and the        *)
(* disconnect command that waits for the streams to go.  The ISO stack      *)
(* underneath (CIG, CISs, data paths and their events) is external: it is   *)
(* modelled by how this code uses it.  Which mode runs when, and the ASE    *)
(* handshake in full, are LeplUnicast's; here a session is a mode and the   *)
(* ASEs it uses.  Every device has one CIS, numbered like its link.         *)
EXTENDS Integers, FiniteSets

CONSTANTS
    Cises,        \* cis_id of the CIG, one for each device
    Ases,         \* the ASEs: pairs of a CIS and "SNK" or "SRC"
    Uses,         \* Uses[m]: the ASEs that a session of mode m streams on
    MaxSessions,  \* bound: sessions started
    MaxFaults     \* bound: CISs that fail to synchronise, are refused or
                  \*   dropped, refused data paths, lost links and disconnect
                  \*   commands, together

\* "RING" is CALL while the ringtone is streamed (INBAND_RINGTONE); what an
\* accept makes of its streams is LeplUnicast's.
Modes == DOMAIN Uses

ASSUME CisAssumption ==
    /\ Cises \subseteq Nat \ {0}
    /\ Ases \subseteq Cises \X {"SNK", "SRC"}
    /\ Modes \subseteq {"MEDIA", "MIC", "CALL", "RING"}
    /\ \A m \in Modes : Uses[m] \subseteq Ases
    /\ {MaxSessions, MaxFaults} \subseteq Nat

\* ga_lib_ascs_state_t, in its order: the code compares states with <.
IDLE      == 0
CODEC     == 1
QOS       == 2
ENABLING  == 3
STREAMING == 4
RELEASING == 6
AseStates == {IDLE, CODEC, QOS, ENABLING, STREAMING, RELEASING}

\* A CIS of the stack.  SYNCED: the controllers are in step and the event is
\* on its way.  CANCELLED, CUT: disconnect_cis while CONNECTING or SYNCED.
\* DROPPED: the peer or the link took it away, the event is on its way.
CisStates == {"NONE", "CONNECTING", "SYNCED", "CONNECTED", "CANCELLED", "CUT",
              "CLOSING", "DROPPED"}
PathStates == {"NONE", "SETTING", "UP", "REMOVING"}

VARIABLES
    mode,     \* the final audio mode of the session, "NONE" without one
    transit,  \* current_mode is LEPL_AUDIO_MODE_IN_TRANSIT
    ase,      \* ase[a]: state, cis_conn_handle # 0, data_path_established,
              \*   cis_id assigned, receiver_start_ready written
    au,       \* lepl_audio_buf_config.role, audio_started, le_audio_enable,
              \*   the stream of the audio manager
    retry,    \* cis_fail_to_estb: the CIS to try again, whether its ACL handle
              \*   is still that of the link, and the timer
    link,     \* link[i]: "UP", "CLOSING", "LOST", "DOWN"
    dis,      \* links whose control block has disconnecting = 1
    iso,      \* the stack: CIG configured, its event pending, CISs, data paths
    used      \* what has been used of the bounds

vars == <<mode, transit, ase, au, retry, link, dis, iso, used>>

Ase     == [st : AseStates, hdl : BOOLEAN, dp : BOOLEAN, cid : BOOLEAN,
            rsr : BOOLEAN]
ZeroAse == [st |-> IDLE, hdl |-> FALSE, dp |-> FALSE, cid |-> FALSE,
            rsr |-> FALSE]
Audio   == [role : {"SOURCE", "HF"}, started : BOOLEAN, enabled : BOOLEAN,
            am : {"CLOSED", "OPEN", "STARTED"}]
Iso     == [cig : BOOLEAN, evt : BOOLEAN, cis : [Cises -> CisStates],
            path : [Ases -> PathStates]]

Init ==
    /\ mode = "NONE" /\ transit = FALSE
    /\ ase = [a \in Ases |-> ZeroAse]
    /\ au = [role |-> "SOURCE", started |-> FALSE, enabled |-> FALSE,
             am |-> "CLOSED"]
    /\ retry = [cis |-> 0, acl |-> FALSE, timer |-> FALSE]
    /\ link = [i \in Cises |-> "UP"]
    /\ dis = {}
    /\ iso = [cig |-> FALSE, evt |-> FALSE, cis |-> [i \in Cises |-> "NONE"],
              path |-> [a \in Ases |-> "NONE"]]
    /\ used = [session |-> 0, sync |-> 0, fault |-> 0, refused |-> 0,
               disc |-> 0]

(***************************************************************************)
(* The audio engine (lepl_isoc_offload.c)                                  *)
(***************************************************************************)

\* lepl_isoc_dhm_stop_stream, lepl_isoc_dhm_disable_audio
StopStream(e) == IF e.role = "HF" THEN [e EXCEPT !.am = "CLOSED"]
                 ELSE [e EXCEPT !.started = FALSE]
DisableAudio(e) == [e EXCEPT !.enabled = FALSE]

\* Two forms that a bug could give to the next definition.
ReinitBothRoles(e, role) == [e EXCEPT !.role = "SOURCE and HF"]
ReinitSilent(e, role) == [e EXCEPT !.role = role, !.am = "CLOSED"]

\* lepl_isoc_dhm_reinit
Reinit(e, role) ==
    IF e.role = role THEN e
    ELSE IF role = "SOURCE" THEN [e EXCEPT !.role = role, !.am = "CLOSED"]
    ELSE [DisableAudio(StopStream(e)) EXCEPT !.role = role]

\* The audio half of lepl_isoc_dhm_setup_cis_datapath.
PrepareAudio(e) ==
    IF mode \in {"MEDIA", "RING"} THEN [Reinit(e, "SOURCE") EXCEPT !.enabled = TRUE]
    ELSE [Reinit(e, "HF") EXCEPT !.am = IF @ = "STARTED" THEN @ ELSE "OPEN"]

\* lepl_isoc_dhm_start_cis_stream
StartStream(e) == IF e.role = "HF" THEN [e EXCEPT !.am = "STARTED"]
                  ELSE [e EXCEPT !.started = TRUE]

(***************************************************************************)
(* What the code asks of the stack                                         *)
(***************************************************************************)

\* wiced_ble_isoc_is_cis_connected_with_conn_hdl
IsConnected(o, i) == o.cis[i] \in {"CONNECTED", "DROPPED"}

\* wiced_ble_isoc_central_set_cig_param: refused while a CIS is in use.
SetCig(o) == IF \A i \in Cises : o.cis[i] = "NONE"
             THEN [o EXCEPT !.cig = TRUE, !.evt = TRUE] ELSE o

\* wiced_ble_isoc_central_create_cis
CreateCis(o, I) ==
    [o EXCEPT !.cis = [i \in Cises |->
        IF i \in I /\ o.cig /\ o.cis[i] = "NONE" /\ link[i] = "UP"
          THEN "CONNECTING" ELSE o.cis[i]]]

\* wiced_ble_isoc_setup_data_path: a second request for a path, or one for a
\* CIS that is not connected, fails.
CanSetup(o, a) == IsConnected(o, a[1]) /\ o.path[a] = "NONE"
SetupPath(o, A) ==
    [o EXCEPT !.path = [a \in Ases |->
        IF a \in A /\ CanSetup(o, a) THEN "SETTING" ELSE o.path[a]]]

\* wiced_ble_isoc_remove_data_path through lepl_isoc_dhm_remove_cis_datapath
CanRemove(o, a) == ase[a].hdl /\ o.path[a] = "UP"
RemovePath(o, A) ==
    [o EXCEPT !.path = [a \in Ases |->
        IF a \in A /\ CanRemove(o, a) THEN "REMOVING" ELSE o.path[a]]]

\* wiced_ble_isoc_disconnect_cis
Closes == [CONNECTING |-> "CANCELLED", SYNCED |-> "CUT",
           CONNECTED |-> "CLOSING", DROPPED |-> "DROPPED"]
CanDisconnect(o, i) == o.cis[i] \in DOMAIN Closes
DisconnectCis(o, i) == [o EXCEPT !.cis[i] = Closes[@]]

\* wiced_ble_isoc_central_remove_cig: WICED_BT_ILLEGAL_ACTION while a CIS is
\* in use; otherwise the data paths go with the CIG, but for the events of
\* removals already under way.
Illegal(o) == \E i \in Cises : o.cis[i] # "NONE"
RemoveCig(o) ==
    IF Illegal(o) THEN o
    ELSE [o EXCEPT !.cig = FALSE, !.evt = FALSE,
                   !.path = [a \in Ases |-> IF o.path[a] = "REMOVING"
                                              THEN "REMOVING" ELSE "NONE"]]

\* A CIS that is gone takes its data paths along, but for those that the
\* code removes: their event comes.
CisGone(o, i) ==
    [o EXCEPT !.cis[i] = "NONE",
              !.path = [a \in Ases |-> IF a[1] = i /\ o.path[a] # "REMOVING"
                                         THEN "NONE" ELSE o.path[a]]]

(***************************************************************************)
(* Helpers of lepl_cis.c                                                   *)
(***************************************************************************)

\* lepl_find_ase_with_cis_id, for both directions.
AsesOf(i) == {a \in Ases : a[1] = i /\ ase[a].cid}

\* The ASEs whose handle lepl_cis_handle_disconnection clears; the handle of
\* the others is needed to remove their data path.
UnboundAll(i) == AsesOf(i)
Unbound(i) == {a \in AsesOf(i) : ~ase[a].dp}

\* lepl_cis_handle_connection sets up the data path: of a sink once the peer
\* streams, of a source as soon as the peer enables it.
NeedsPathSource(a) == a[2] = "SRC" /\ ase[a].st >= ENABLING
NeedsPath(a) == ase[a].st >= IF a[2] = "SNK" THEN STREAMING ELSE ENABLING

\* lepl_isoc_dhm_setup_cis_datapath for the ASEs in A, of which those in H
\* have a handle: the audio is prepared before the stack can refuse.
SetupDatapath(o, A, H) ==
    /\ iso' = SetupPath(o, A \cap H)
    /\ au' = IF A = {} THEN au ELSE PrepareAudio(au)

\* lepl_gatt_handle_disconnecting_state
CloseDisconnecting == [i \in Cises |-> IF i \in dis /\ link[i] = "UP"
                                         THEN "CLOSING" ELSE link[i]]

\* The CIG is removed and, unless a CIS is still in use, the audio stops.
StopAudio(o, e) == IF Illegal(o) THEN e ELSE DisableAudio(StopStream(e))

\* What RELEASING lets go of: the data path first, the CIS after it; without a
\* data path the CIS at once, or the CIG.
ReleasePathOnly(o, a) == IF CanRemove(o, a) THEN RemovePath(o, {a}) ELSE RemoveCig(o)
Release(o, a) ==
    CASE CanRemove(o, a)        -> RemovePath(o, {a})
      [] ~CanRemove(o, a) /\ CanDisconnect(o, a[1]) -> DisconnectCis(o, a[1])
      [] OTHER                  -> RemoveCig(o)

Active == {a \in Ases : ase[a].st # IDLE}
Fault(k) == /\ used.sync + used.fault + used.refused + used.disc < MaxFaults
            /\ used' = [used EXCEPT ![k] = @ + 1]

(***************************************************************************)
(* The session: commands, and what the peers notify                        *)
(***************************************************************************)

\* A session of mode m: its ASEs get as far as QOS_CONFIGURED.
Start(m) ==
    /\ mode = "NONE" /\ ~transit /\ dis = {} /\ Active = {}
    /\ LET A == {a \in Uses[m] : link[a[1]] = "UP"}
       IN  /\ A # {}
           /\ ase' = [a \in Ases |-> IF a \in A
                 THEN [ase[a] EXCEPT !.st = QOS, !.cid = TRUE, !.rsr = FALSE]
                 ELSE ase[a]]
    /\ mode' = m /\ transit' = TRUE
    /\ used.session < MaxSessions
    /\ used' = [used EXCEPT !.session = @ + 1]
    /\ UNCHANGED <<au, retry, link, dis, iso>>

\* lepl_rpc_stop_streaming with next mode NONE: every ASE is released.
Stop ==
    /\ mode # "NONE"
    /\ mode' = "NONE" /\ transit' = (Active # {})
    /\ UNCHANGED <<ase, au, retry, link, dis, iso, used>>

\* lepl_disconnect_device: the links are flagged; with a stream only the
\* stream is stopped, the links close when it is gone.
DisconnectDevice ==
    /\ \E i \in Cises : link[i] = "UP"
    /\ Fault("disc")
    /\ dis' = {i \in Cises : link[i] # "DOWN"}
    /\ IF mode # "NONE" \/ transit
       THEN /\ mode' = "NONE" /\ transit' = (Active # {})
            /\ UNCHANGED link
       ELSE /\ link' = [i \in Cises |-> IF link[i] = "UP" THEN "CLOSING"
                                        ELSE link[i]]
            /\ UNCHANGED <<mode, transit>>
    /\ UNCHANGED <<ase, au, retry, iso>>

\* The ENABLING notification.  A source whose CIS is there gets its data path,
\* and if that is refused the handler ends; the last ASE of a session
\* configures the CIG, and an ASE that comes later gets its CIS from
\* lepl_cap_create_cis.  After a stop the configuration is cleared: the CIG
\* would be one of no CIS.
NotifyEnabling(a) ==
    LET i    == a[1]
        A    == {b \in {a} : b[2] = "SRC" /\ ~ase[b].dp /\ ase[b].hdl}
        last == (\A b \in Active \ {a} : ase[b].st = ENABLING)
                    /\ \A b \in A : CanSetup(iso, b)
        late == ~transit /\ mode # "NONE" /\ \A b \in A : CanSetup(iso, b)
        o    == IF late THEN CreateCis(iso, {i})
                ELSE IF transit /\ mode # "NONE" /\ last THEN SetCig(iso) ELSE iso
    IN  /\ ase[a].st = QOS /\ link[i] = "UP"
        /\ ase' = [ase EXCEPT ![a].st = ENABLING,
                       ![a].hdl = @ \/ (late /\ IsConnected(iso, i))]
        /\ transit' = (transit /\ ~last)
        /\ SetupDatapath(o, A, A)
        /\ UNCHANGED <<mode, retry, link, dis, used>>

\* The STREAMING notification: the peer has the CIS, and of a source the
\* peer has receiver_start_ready.  (What a refusal of the data path cuts off
\* is lepl_cap_ascs_state_update, which has no part in STREAMING here.)
NotifyStreaming(a) ==
    /\ ase[a].st = ENABLING /\ link[a[1]] = "UP"
    /\ iso.cis[a[1]] \in {"SYNCED", "CONNECTED", "CUT"}
    /\ a[2] = "SRC" => ase[a].rsr
    /\ ase' = [ase EXCEPT ![a].st = STREAMING]
    /\ IF ase[a].dp THEN au' = StartStream(au) /\ UNCHANGED iso
       ELSE SetupDatapath(iso, {a}, {b \in {a} : ase[b].hdl})
    /\ UNCHANGED <<mode, transit, retry, link, dis, used>>

\* The RELEASING notification.
NotifyReleasing(a) ==
    /\ ase[a].st \in {QOS, ENABLING, STREAMING} /\ mode = "NONE"
    /\ link[a[1]] = "UP"
    /\ ase' = [ase EXCEPT ![a].st = RELEASING]
    /\ iso' = Release(iso, a)
    /\ UNCHANGED <<mode, transit, au, retry, link, dis, used>>

\* The peer is done with the ASE; it need not wait for the CIS to go.
NotifyIdle(a) ==
    /\ ase[a].st = RELEASING /\ link[a[1]] = "UP"
    /\ ase' = [ase EXCEPT ![a].st = IDLE]
    /\ transit' = (transit /\ Active # {a})
    /\ UNCHANGED <<mode, au, retry, link, dis, iso, used>>

(***************************************************************************)
(* lepl_isoc_event_handler                                                 *)
(***************************************************************************)

\* WICED_BLE_ISOC_SET_CIG_CMD_COMPLETE_EVT: lepl_create_cis
SetCigComplete ==
    LET dir == IF mode = "MIC" THEN "SRC" ELSE "SNK"
        I   == {i \in Cises : \E a \in AsesOf(i) :
                                  a[2] = dir /\ ase[a].st >= QOS}
    IN  /\ iso.evt
        /\ iso' = CreateCis([iso EXCEPT !.evt = FALSE], I)
        /\ UNCHANGED <<mode, transit, ase, au, retry, link, dis, used>>

Synchronise(i) ==
    /\ iso.cis[i] = "CONNECTING"
    /\ iso' = [iso EXCEPT !.cis[i] = "SYNCED"]
    /\ UNCHANGED <<mode, transit, ase, au, retry, link, dis, used>>

\* lepl_cis_handle_connection for the source and the sink ASE of CIS i; s is
\* the state that the event leaves the CIS in.
HandleConnection(i, s) ==
    LET A == {a \in AsesOf(i) : NeedsPath(a)}
    IN  /\ ase' = [a \in Ases |-> IF a \in AsesOf(i)
                     THEN [ase[a] EXCEPT !.hdl = TRUE] ELSE ase[a]]
        /\ SetupDatapath([iso EXCEPT !.cis[i] = s], A, A)

\* WICED_BLE_ISOC_CIS_ESTABLISHED_EVT
Established(i) ==
    /\ iso.cis[i] \in {"SYNCED", "CUT"}
    /\ HandleConnection(i, IF iso.cis[i] = "CUT" THEN "CLOSING" ELSE "CONNECTED")
    /\ UNCHANGED <<mode, transit, retry, link, dis, used>>

\* ... with status 0x3E: the stream is tried again after a second.
FailedToSynchronise(i) ==
    /\ iso.cis[i] = "CONNECTING"
    /\ Fault("sync")
    /\ iso' = [iso EXCEPT !.cis[i] = "NONE"]
    /\ retry' = [cis |-> i, acl |-> TRUE, timer |-> TRUE]
    /\ UNCHANGED <<mode, transit, ase, au, link, dis>>

\* lepl_handle_cis_failed_to_established
RetryTimer ==
    /\ retry.timer
    /\ retry' = [retry EXCEPT !.timer = FALSE]
    /\ iso' = IF retry.acl THEN CreateCis(iso, {retry.cis}) ELSE iso
    /\ UNCHANGED <<mode, transit, ase, au, link, dis, used>>

\* ... with any other status (the peer or the controller refused, or the CIS
\* was disconnected while it connected): handled like a success.
NotEstablished(i) ==
    /\ \/ iso.cis[i] = "CANCELLED" /\ UNCHANGED used
       \/ iso.cis[i] = "CONNECTING" /\ Fault("fault")
    /\ HandleConnection(i, "NONE")
    /\ UNCHANGED <<mode, transit, retry, link, dis>>

\* WICED_BLE_ISOC_CIS_DISCONNECTED_EVT: lepl_cis_handle_disconnection
CisDisconnected(i) ==
    LET A == {a \in AsesOf(i) : ase[a].dp}
        o == CisGone(RemovePath(iso, A), i)
    IN  /\ iso.cis[i] \in {"CLOSING", "DROPPED"}
        /\ ase' = [a \in Ases |-> IF a \in Unbound(i)
                     THEN [ase[a] EXCEPT !.hdl = FALSE] ELSE ase[a]]
        /\ IF A = {}
           THEN /\ iso' = RemoveCig(o) /\ au' = StopAudio(o, au)
                /\ link' = IF Illegal(o) THEN link ELSE CloseDisconnecting
           ELSE iso' = o /\ UNCHANGED <<au, link>>
        /\ UNCHANGED <<mode, transit, retry, dis, used>>

\* WICED_BLE_ISOC_DATA_PATH_SETUP_EVT: lepl_cis_handle_data_path_setup
DataPathSetup(a) ==
    /\ iso.path[a] = "SETTING"
    /\ iso' = [iso EXCEPT !.path[a] = "UP"]
    /\ IF IsConnected(iso, a[1])
       THEN /\ ase' = [ase EXCEPT ![a].dp = TRUE,
                 ![a].rsr = @ \/ (a[2] = "SRC" /\ ase[a].st = ENABLING)]
            /\ au' = IF ase[a].st = STREAMING THEN StartStream(au) ELSE au
       ELSE UNCHANGED <<ase, au>>
    /\ UNCHANGED <<mode, transit, retry, link, dis, used>>

\* ... with an error status: only traced.
DataPathRefused(a) ==
    /\ iso.path[a] = "SETTING"
    /\ Fault("refused")
    /\ iso' = [iso EXCEPT !.path[a] = "NONE"]
    /\ UNCHANGED <<mode, transit, ase, au, retry, link, dis>>

\* WICED_BLE_ISOC_DATA_PATH_REMOVED_EVT: lepl_cis_handle_data_path_remove.
\* The context of the event is the ASE, whose block may be free by now.
DataPathRemoved(a) ==
    LET i     == a[1]
        o     == [iso EXCEPT !.path[a] = "NONE"]
        other == \E b \in AsesOf(i) \ {a} : ase[b].hdl /\ ase[b].dp
        ends  == ~other /\ ase[a].st > CODEC
    IN  /\ iso.path[a] = "REMOVING"
        /\ ase' = [ase EXCEPT ![a].dp = FALSE,
                              ![a].hdl = @ /\ IsConnected(iso, i)]
        /\ IF IsConnected(iso, i)
           THEN iso' = DisconnectCis(o, i) /\ UNCHANGED au
           ELSE /\ iso' = IF ends THEN RemoveCig(o) ELSE o
                /\ au' = IF ends THEN StopAudio(o, au) ELSE au
        /\ UNCHANGED <<mode, transit, retry, link, dis, used>>

(***************************************************************************)
(* Faults and links                                                        *)
(***************************************************************************)

\* The peer, or the loss of its signal, takes the CIS away.
Drop(i) ==
    /\ iso.cis[i] = "CONNECTED"
    /\ Fault("fault")
    /\ iso' = [iso EXCEPT !.cis[i] = "DROPPED"]
    /\ UNCHANGED <<mode, transit, ase, au, retry, link, dis>>

\* The link is lost: the CIS goes first, its event before that of the link.
Gone == [NONE |-> "NONE", CONNECTING |-> "CANCELLED", SYNCED |-> "CUT",
         CONNECTED |-> "DROPPED", CANCELLED |-> "CANCELLED", CUT |-> "CUT",
         CLOSING |-> "CLOSING", DROPPED |-> "DROPPED"]

LinkLost(i) ==
    /\ link[i] \in {"UP", "CLOSING"}
    /\ \/ link[i] = "UP" /\ Fault("fault")
       \/ link[i] = "CLOSING" /\ UNCHANGED used
    /\ link' = [link EXCEPT ![i] = "LOST"]
    /\ iso' = [iso EXCEPT !.cis[i] = Gone[@]]
    /\ UNCHANGED <<mode, transit, ase, au, retry, dis>>

\* The tail of lepl_gatt_handle_disconnection: the last member of a set
\* resets the audio state; lepl_cap_cleanup_ases_for_acl_handle removes the
\* data paths of the device; the block is freed.
LinkDown(i) ==
    LET mine == {a \in Ases : a[1] = i}
        left == \E j \in Cises \ {i} : link[j] # "DOWN"
    IN  /\ link[i] = "LOST" /\ iso.cis[i] = "NONE"
        /\ link' = [link EXCEPT ![i] = "DOWN"]
        /\ dis' = dis \ {i}
        /\ mode' = IF left THEN mode ELSE "NONE"
        /\ transit' = (left /\ transit /\ ~(Active \subseteq mine))
        /\ iso' = RemovePath(iso, {a \in mine : ase[a].dp})
        /\ ase' = [a \in Ases |-> IF a \in mine THEN ZeroAse ELSE ase[a]]
        /\ retry' = [retry EXCEPT !.acl = @ /\ retry.cis # i]
        /\ UNCHANGED <<au, used>>

\* The device is back; lepl_cap_handle_set_member_reconnection configures its
\* sink, or in mode MIC its source, for the session that runs.  The stack has
\* answered its commands long before.
LinkBack(i) ==
    LET dir == IF mode = "MIC" THEN "SRC" ELSE "SNK"
        A   == IF mode = "NONE" \/ transit THEN {}
               ELSE {a \in Ases : a[1] = i /\ a[2] = dir}
    IN  /\ link[i] = "DOWN" /\ ~iso.evt
        /\ \A a \in Ases : a[1] = i => iso.path[a] = "NONE"
        /\ link' = [link EXCEPT ![i] = "UP"]
        /\ ase' = [a \in Ases |-> IF a \in A
              THEN [ase[a] EXCEPT !.st = QOS, !.cid = TRUE] ELSE ase[a]]
        /\ UNCHANGED <<mode, transit, au, retry, dis, iso, used>>

Next ==
    \/ \E m \in Modes : Start(m)
    \/ Stop \/ DisconnectDevice \/ SetCigComplete \/ RetryTimer
    \/ \E a \in Ases : \/ NotifyEnabling(a) \/ NotifyStreaming(a)
                       \/ NotifyReleasing(a) \/ NotifyIdle(a)
                       \/ DataPathSetup(a) \/ DataPathRefused(a)
                       \/ DataPathRemoved(a)
    \/ \E i \in Cises : \/ Synchronise(i) \/ Established(i)
                        \/ FailedToSynchronise(i) \/ NotEstablished(i)
                        \/ CisDisconnected(i) \/ Drop(i)
                        \/ LinkLost(i) \/ LinkDown(i) \/ LinkBack(i)

Spec == Init /\ [][Next]_vars

(***************************************************************************)
(* Properties                                                              *)
(***************************************************************************)

\* Types of all variables.
TypeOK ==
    /\ mode \in Modes \cup {"NONE"} /\ transit \in BOOLEAN
    /\ ase \in [Ases -> Ase]
    /\ au \in Audio
    /\ retry \in [cis : Cises \cup {0}, acl : BOOLEAN, timer : BOOLEAN]
    /\ link \in [Cises -> {"UP", "CLOSING", "LOST", "DOWN"}]
    /\ dis \subseteq Cises
    /\ iso \in Iso
    /\ used \in [session : 0..MaxSessions, sync : 0..MaxFaults,
                 fault : 0..MaxFaults, refused : 0..MaxFaults, disc : 0..MaxFaults]

\* An ASE that records a data path has the handle of its CIS, and the stack
\* has the path or is removing it: data_path_established (lepl_cis.c 192, 229)
\* outlives neither, so every removal finds what it asks for.
PathTracked ==
    \A a \in Ases : ase[a].dp => /\ ase[a].hdl
                                 /\ iso.path[a] \in {"UP", "REMOVING"}

\* Nothing of the stack or of the peers is under way.
Quiet ==
    /\ ~iso.evt /\ ~retry.timer /\ ~transit
    /\ \A i \in Cises : /\ iso.cis[i] \in {"NONE", "CONNECTED"}
                        /\ link[i] \in {"UP", "DOWN"}
    /\ \A a \in Ases : /\ iso.path[a] \in {"NONE", "UP"}
                       /\ ase[a].st \in {IDLE, STREAMING}

\* No session and nothing left of one.
Idle == Quiet /\ mode = "NONE" /\ Active = {}

\* Between sessions no CIS is left, however early its peer was done with the
\* ASE and whichever of data path, CIS and link went first.  The exception is
\* a CIS that failed to synchronise: nothing stops the retry timer (lepl_cis.c
\* 265) when the stream is given up.
TornDown == Idle /\ used.sync = 0 => \A i \in Cises : iso.cis[i] = "NONE"

\* Whatever the order of the ASE notifications and of the ISO events, a
\* STREAMING ASE with a CIS ends up with its data path (lepl_ascs.c 372,
\* lepl_cis.c 68), unless the controller refused it.  (Nothing is said of a
\* session after one with a retried CIS: that CIS may be left, see TornDown,
\* and the CIG of the next session is then refused.)
Carried ==
    Quiet /\ used.refused = 0 /\ (used.sync = 0 \/ used.session = 1) =>
        \A a \in Ases : ase[a].st = STREAMING /\ iso.cis[a[1]] = "CONNECTED"
                            => ase[a].dp

\* The engine for media is off whenever the buffers have the role of a
\* hands-free call: lepl_isoc_dhm_reinit stops it on the way.
EngineMatchesRole == au.started \/ au.enabled => au.role = "SOURCE"

\* Refuted.  README: "Press Disconnect to terminate ACL connection."  Once a
\* disconnect command and everything it started is over, no link that it
\* flagged is up.
DisconnectCompletes == Idle => dis = {}
=============================================================================
