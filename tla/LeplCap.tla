------------------------------ MODULE LeplCap ------------------------------
(* The Common Audio Profile layer of the player (lepl_cap.c) with the       *)
(* handlers that drive it: media control (lepl_mcs.c), call control         *)
(* (lepl_tbs.c), the host's commands (lepl_rpc.c) and the ASE notifications *)
(* (lepl_ascs.c).  The program runs every handler to completion on one      *)
(* thread, so each one is an operator from the state of the application to  *)
(* its state after the handler, calls included; LeplUnicast makes them      *)
(* actions.  A state s is a record:                                         *)
(*   mode, final, paused   current_mode, transit_info.final_mode,           *)
(*                         paused_mode (initial_mode is never read)         *)
(*   cfg, pcfg             current_strm_config, paused_strm_config          *)
(*   releasing, list       is_releasing, p_lepl_ase_list                    *)
(*   media, ccs, call      gmcs.media_state, gtbs.ccs_state, the call slot  *)
(*   ast, cid              per ASE: ase_state, qos_configured.cis_id        *)
(*   up                    control blocks in use, their ASEs discovered     *)
(*   out                   per connection: control point writes under way   *)
(*   cig, cigEvt, iso      the ISO stack: CISs in the CIG (0: no CIG), its  *)
(*                         completion event pending, CISs connected         *)
(*   big                   p_big->base.state is not IDLE                    *)
EXTENDS LeplTypes

CpMsg == [op : CpOps, ase : Ase]

AseLists == [Slots -> Ase \cup {NULL}]
AseState == [Ase -> AseStates]
CisIds   == [Ase -> CisNums]
Writes   == [Conn -> Seq(CpMsg)]

App ==
    [ mode : Modes, final : FinalModes, paused : Modes,
      cfg : Cfg, pcfg : Cfg, releasing : BOOLEAN, list : AseLists,
      media : MediaStates, ccs : CcsStates, call : CallStates,
      ast : AseState, cid : CisIds, up : SUBSET Devices, out : Writes,
      cig : CisNums, cigEvt : BOOLEAN, iso : SUBSET Cises, big : BOOLEAN ]

EmptyList == [i \in Slots |-> NULL]

InitApp ==
    [ mode |-> NONE, final |-> NONE, paused |-> NONE,
      cfg |-> ZeroCfg, pcfg |-> ZeroCfg, releasing |-> FALSE,
      list |-> EmptyList,
      media |-> "INACTIVE", ccs |-> "IDLE", call |-> "FREE",
      ast |-> [a \in Ase |-> IDLE], cid |-> [a \in Ase |-> 0],
      up |-> Devices, out |-> [c \in Conn |-> << >>],
      cig |-> 0, cigEvt |-> FALSE, iso |-> {}, big |-> FALSE ]

-----------------------------------------------------------------------------
(* Coordinated sets                                                          *)

\* The connected members of the set of device c: its coordinated set, or a
\* temporary set of c alone.
Members(s, c) == IF c \notin s.up THEN {} ELSE IF Csis THEN s.up ELSE {c}

\* p_set->num_devices
NumDevices(s, c) == IF Csis /\ s.up = Conn THEN 2 ELSE 1

-----------------------------------------------------------------------------
(* Writing the ASE control point                                             *)

WriteCp(s, c, op, a) ==
    [s EXCEPT !.out[c] = Append(@, [op |-> op, ase |-> a])]

ConfigMsgs(ases) ==
    [i \in DOMAIN ases |-> [op |-> "CONFIG_CODEC", ase |-> ases[i]]]

-----------------------------------------------------------------------------
(* Starting streams                                                          *)

\* The loop over the members stops at a member that lacks a source ASE the
\* context needs.
LacksAse(c, ctx) ==
    /\ Src[c] = << >>
    /\ \/ ctx = "VOICE_ASSISTANTS"
       \/ ctx \in {"RINGTONE", "CONVERSATIONAL", "GAME"} /\ c \in Left

\* The ASEs configured on device c for a configuration.
MediaAses(c, cfg) ==
    IF ~Csis /\ cfg.two /\ Len(Snk[c]) > 1
      THEN <<Snk[c][1], Snk[c][2]>>
      ELSE <<Snk[c][1]>>

ConvAses(c) ==
    IF c \in Left THEN <<Src[c][1], Snk[c][1]>> ELSE <<Snk[c][1]>>

AsesOf(c, cfg) ==
    CASE LacksAse(c, cfg.ctx)               -> << >>
      [] cfg.ctx = "MEDIA"                  -> MediaAses(c, cfg)
      [] cfg.ctx \in {"RINGTONE", "CONVERSATIONAL", "GAME"} /\
         ~LacksAse(c, cfg.ctx)              -> ConvAses(c)
      [] cfg.ctx = "VOICE_ASSISTANTS" /\
         ~LacksAse(c, cfg.ctx)              -> <<Src[c][1]>>
      [] OTHER                              -> << >>

\* The ASEs that starting cfg on the set of c configures on member d.
StartAses(s, c, cfg, d) ==
    IF /\ d \in Members(s, c)
       /\ d = 1 \/ 1 \notin Members(s, c) \/ ~LacksAse(1, cfg.ctx)
      THEN AsesOf(d, cfg) ELSE << >>

\* An index taken after the count of the ASEs was raised.
CisIdAfterCount(a, cfg) == IF IsSrc(a) \/ a = Snk[Owner[a]][1] THEN 2 ELSE 3

\* The CIS an ASE is given: its rank in the set; else the number of its
\* channel; else 1.  (A RINGTONE sink takes the count of ASEs so far.)
CisId(a, cfg) ==
    LET c == Owner[a] IN
    IF Csis THEN c
    ELSE IF IsSrc(a) \/ ~cfg.two THEN 1
    ELSE IF cfg.ctx = "MEDIA" THEN (IF a = Snk[c][1] THEN 1 ELSE 2)
    ELSE IF cfg.ctx = "RINGTONE" /\ c \notin Left THEN 0
    ELSE 1

\* num_cis as the start functions leave it in the configuration.
Counted(s, c, cfg) ==
    CASE cfg.ctx = "MEDIA" /\ c \in s.up ->
             [cfg EXCEPT !.cis = IF Csis THEN 2 ELSE Len(MediaAses(c, cfg))]
      [] cfg.ctx \in {"RINGTONE", "CONVERSATIONAL", "GAME",
                      "VOICE_ASSISTANTS"} ->
             [cfg EXCEPT !.cis = NumDevices(s, c)]
      [] OTHER -> cfg

\* assign_ase_to_be_configured: the first empty slot; an ASE that finds none
\* is not listed.
AssignAse(list, a) ==
    LET first == {i \in Slots : /\ list[i] = NULL
                               /\ \A j \in Slots : j < i => list[j] # NULL}
    IN  [i \in Slots |-> IF i \in first THEN a ELSE list[i]]

\* For the ASEs of one device, of which there are at most two.
AssignAses(list, ases) ==
    CASE Len(ases) = 0 -> list
      [] Len(ases) = 1 -> AssignAse(list, ases[1])
      [] OTHER         -> AssignAse(AssignAse(list, ases[1]), ases[2])

\* configure_and_enable_ase for a sequence of ASEs on each device.
Configure(s, cfg, ases) ==
    LET Has(a) == \E i \in DOMAIN ases[Owner[a]] : ases[Owner[a]][i] = a
    IN  [s EXCEPT
          !.cid  = [a \in Ase |-> IF Has(a) THEN CisId(a, cfg) ELSE s.cid[a]],
          !.out  = [c \in Conn |-> s.out[c] \o ConfigMsgs(ases[c])],
          !.list = AssignAses(AssignAses(s.list, ases[1]), ases[2])]

StartStreaming(s, c, cfg) ==
    Configure(s, cfg, [d \in Conn |-> StartAses(s, c, cfg, d)])

-----------------------------------------------------------------------------
(* Stopping streams                                                          *)

\* Slot i of the list holds an ASE of device c.
SlotOf(s, i, c) == s.list[i] # NULL /\ Owner[s.list[i]] = c

ReleaseSlot(s, i, c) ==
    IF SlotOf(s, i, c) THEN <<[op |-> "RELEASE", ase |-> s.list[i]]>> ELSE << >>

ReleaseMsgs(s, c) ==
    ReleaseSlot(s, 1, c) \o ReleaseSlot(s, 2, c) \o
    ReleaseSlot(s, 3, c) \o ReleaseSlot(s, 4, c)

\* A release that does not record that it is under way.
ReleaseUnrecorded(s, devs) ==
    [s EXCEPT
      !.out = [c \in Conn |-> IF c \in devs THEN s.out[c] \o ReleaseMsgs(s, c)
                             ELSE s.out[c]]]

\* release_configured_ases for the devices of a set.
ReleaseConfigured(s, devs) ==
    [s EXCEPT
      !.out = [c \in Conn |-> IF c \in devs THEN s.out[c] \o ReleaseMsgs(s, c)
                             ELSE s.out[c]],
      !.releasing = @ \/ \E i \in Slots, c \in devs : SlotOf(s, i, c)]

\* lepl_cap_stop_streaming: by the context of the current configuration.
StopStreaming(s, c) ==
    IF s.cfg.ctx \in {"MEDIA", "RINGTONE", "CONVERSATIONAL", "GAME",
                      "VOICE_ASSISTANTS"}
      THEN ReleaseConfigured(s, Members(s, c))
      ELSE s

-----------------------------------------------------------------------------
(* The audio mode                                                            *)

\* A missing reset: transit_info survives.
ResetKeepsFinal(s) ==
    [s EXCEPT !.mode = NONE, !.paused = NONE, !.cfg = ZeroCfg,
              !.pcfg = ZeroCfg, !.releasing = FALSE, !.list = EmptyList]

ResetAudioState(s) ==
    [s EXCEPT !.mode = NONE, !.final = NONE, !.paused = NONE,
              !.cfg = ZeroCfg, !.pcfg = ZeroCfg,
              !.releasing = FALSE, !.list = EmptyList]

SetNextAudioMode(s, mode, cfg) ==
    LET stable == s.mode \notin {NONE, IN_TRANSIT}
        pauses == mode # NONE /\ stable
        keeps  == mode = NONE /\ s.mode = MEDIA
    IN  [s EXCEPT
          !.media  = IF pauses /\ s.paused = MEDIA /\ mode # MEDIA
                       THEN "INACTIVE" ELSE @,
          !.paused = IF pauses THEN s.mode ELSE @,
          !.pcfg   = IF pauses \/ keeps THEN s.cfg ELSE @,
          !.cfg    = cfg,
          !.final  = mode,
          !.mode   = IN_TRANSIT]

-----------------------------------------------------------------------------
(* Media control                                                             *)

\* The configuration as lepl_handle_streaming_operation(PLAY) leaves it.
PlayCfg(s, c, cfg) ==
    IF s.media = "PLAYING" THEN cfg
    ELSE Counted(s, c, [cfg EXCEPT !.ctx = "MEDIA"])

\* A play that leaves the media state as it was.
McsPlaySilent(s, c, cfg) ==
    IF s.media = "PLAYING" THEN s ELSE StartStreaming(s, c, PlayCfg(s, c, cfg))

\* lepl_handle_streaming_operation: media is streamed only if the state says
\* that it is not playing yet.
McsPlay(s, c, cfg) ==
    IF s.media = "PLAYING" THEN s
    ELSE [StartStreaming(s, c, PlayCfg(s, c, cfg)) EXCEPT !.media = "PLAYING"]

McsPause(s, c) ==
    IF s.media = "PAUSED" THEN s
    ELSE [StopStreaming(s, c) EXCEPT !.media = "PAUSED"]

-----------------------------------------------------------------------------
(* Calls, voice capture and the bidirectional microphone                     *)

RingtoneSupported(c) == Inband /\ c \in RingCtx

\* lepl_rpc_ccs_set_incoming_remote_call: ring, with a stream if the peer
\* can play one.
IncomingCfg(s, c, cfg) ==
    IF RingtoneSupported(c)
      THEN Counted(s, c, [cfg EXCEPT !.ctx = "RINGTONE"]) ELSE cfg

IncomingCall(s, c, cfg) ==
    LET t == [s EXCEPT !.ccs = "INBAND_RINGTONE"]
    IN  IF RingtoneSupported(c)
          THEN StartStreaming(t, c, IncomingCfg(s, c, cfg)) ELSE t

\* lepl_tbs_set_incoming_remote_call: only if the slot is free.
RegisterCall(s) == IF s.call = "FREE" THEN [s EXCEPT !.call = "INCOMING"] ELSE s

MicCfg(s, c, cfg) == Counted(s, c, [cfg EXCEPT !.ctx = "VOICE_ASSISTANTS"])

BidirCfg(s, c, cfg) ==
    LET ctx == IF c \in GameCtx THEN "GAME"
               ELSE IF c \in ConvCtx THEN "CONVERSATIONAL"
               ELSE "UNSPECIFIED"
    IN  Counted(s, c, [cfg EXCEPT !.ctx = ctx])

-----------------------------------------------------------------------------
(* Resuming and completing a transition                                      *)

\* lepl_cap_resume_streaming: the configuration it leaves behind, and the
\* state.
ResumeCfg(s, c, mode, cfg) ==
    CASE mode = MEDIA    -> PlayCfg(s, c, cfg)
      [] mode = CALL     -> IncomingCfg(s, c, cfg)
      [] mode = MIC      -> MicCfg(s, c, cfg)
      [] mode = BIDIRMIC -> BidirCfg(s, c, cfg)
      [] OTHER           -> cfg

ResumeStreaming(s, c, mode, cfg) ==
    CASE mode = MEDIA    -> McsPlay(s, c, cfg)
      [] mode = CALL     -> IncomingCall(s, c, cfg)
      [] mode = MIC      -> StartStreaming(s, c, MicCfg(s, c, cfg))
      [] mode = BIDIRMIC -> StartStreaming(s, c, BidirCfg(s, c, cfg))
      [] OTHER           -> s

\* Return to the mode that was interrupted.
ResumePaused(s, c) ==
    LET cfg == ResumeCfg(s, c, s.paused, s.pcfg)
        t   == [ResumeStreaming(s, c, s.paused, s.pcfg) EXCEPT !.pcfg = cfg]
    IN  [SetNextAudioMode(t, s.paused, cfg) EXCEPT !.paused = NONE]

\* wiced_ble_isoc_central_set_cig_param: refused while a CIS of the CIG is
\* connected or if it holds no CIS.
SetCigParam(s) ==
    IF s.iso = {} /\ s.cfg.cis > 0
      THEN [s EXCEPT !.cig = s.cfg.cis, !.cigEvt = TRUE] ELSE s

\* A release that forgets the mode it interrupted.
ReleasedForgets(s, c) ==
    [s EXCEPT !.list = EmptyList, !.releasing = FALSE, !.mode = s.final]

\* A release that leaves the ASEs in the list.
ReleasedKeepsList(s, c) ==
    IF s.paused = NONE THEN [s EXCEPT !.releasing = FALSE, !.mode = s.final]
    ELSE ResumePaused([s EXCEPT !.releasing = FALSE], c)

\* The end of a release: start what the transition is for, else return to
\* what it interrupted, else take the final mode.
Released(s, c) ==
    LET t == [s EXCEPT !.list = EmptyList, !.releasing = FALSE]
    IN  IF t.paused = NONE THEN [t EXCEPT !.mode = t.final]
        ELSE IF t.final # NONE
               THEN [ResumeStreaming(t, c, t.final, t.cfg) EXCEPT
                       !.cfg = ResumeCfg(t, c, t.final, t.cfg)]
               ELSE ResumePaused(t, c)

UpdateAudioMode(s, c, st) ==
    IF s.mode # IN_TRANSIT THEN s
    ELSE CASE st \in {IDLE, CODEC_CONFIGURED} ->
                  IF s.releasing THEN Released(s, c) ELSE s
           [] st = ENABLING ->
                  [SetCigParam(s) EXCEPT !.mode = s.final]
           [] st = STREAMING ->
                  [s EXCEPT !.list = EmptyList,
                            !.mode = IF s.ccs = "INBAND_RINGTONE"
                                       THEN @ ELSE s.final]
           [] OTHER -> s

-----------------------------------------------------------------------------
(* ASE notifications                                                         *)

\* The first ASE that reaches a state speaks for all.
AnyInState(s, st) ==
    \E i \in Slots : s.list[i] # NULL /\ s.ast[s.list[i]] = st

\* cap_if_ase_state_changed
AllInState(s, st) ==
    \A i \in Slots : s.list[i] # NULL => s.ast[s.list[i]] = st

\* An ASE that is enabled outside a transition and left without its CIS.
CreateNoCis(s, a) == s

\* lepl_cap_create_cis: the CIS exists only if the CIG has it.
CreateCis(s, a) ==
    IF s.cid[a] \in 1..s.cig THEN [s EXCEPT !.iso = @ \cup {s.cid[a]}] ELSE s

AscsStateUpdate(s, c, a) ==
    LET st == s.ast[a]
        t  == CASE ~s.releasing /\ st = CODEC_CONFIGURED ->
                       WriteCp(s, c, "CONFIG_QOS", a)
                [] ~s.releasing /\ st = QOS_CONFIGURED ->
                       WriteCp(s, c, "ENABLE", a)
                [] ~s.releasing /\ st = ENABLING /\ s.mode # IN_TRANSIT ->
                       CreateCis(s, a)
                [] OTHER -> s
    IN  IF AllInState(t, st) THEN UpdateAudioMode(t, c, st) ELSE t

\* lepl_cis_handle_disconnection: the CIG goes once it has no CIS left.
DropCis(s, i) ==
    LET left == s.iso \ {i}
    IN  [s EXCEPT !.iso = left, !.cig = IF left = {} THEN 0 ELSE @]

\* The teardown that a RELEASING notification starts in lepl_cis.c: the data
\* path and the CIS of the ASE.
TearDown(s, a) == DropCis(s, s.cid[a])

\* A notification after which the data path of the ASE is set up; if that
\* fails, its handler ends there.
SetsPath(s, a, st) ==
    st = STREAMING \/ (st = ENABLING /\ IsSrc(a) /\ s.cid[a] \in s.iso)

PathFailed(s, a, st) == [s EXCEPT !.ast[a] = st]

AseNotification(s, c, a, st) ==
    LET t == [s EXCEPT !.ast[a] = st]
        u == CASE st = IDLE      -> [t EXCEPT !.cid[a] = 0]
               [] st = DISABLING -> WriteCp(t, c, "RECEIVER_STOP_READY", a)
               [] st = RELEASING -> TearDown(t, a)
               [] OTHER          -> t
    IN  AscsStateUpdate(u, c, a)

\* lepl_cap_handle_ascs_error_response
AscsErrorResponse(s, c) ==
    ResetAudioState(
        CASE s.final = MEDIA                 -> McsPause(s, c)
          [] s.final \in {CALL, BIDIRMIC, MIC} -> StopStreaming(s, c)
          [] OTHER                           -> s)

\* lepl_find_ase_with_cis_id over the control blocks in use, in order.
FindAse(s, i, ases) ==
    LET hits == {j \in DOMAIN ases :
                   s.cid[ases[j]] = i /\ Owner[ases[j]] \in s.up}
    IN  {ases[j] : j \in {k \in hits : \A n \in hits : k <= n}}

\* lepl_create_cis, on the completion of the CIG: one CIS per ASE that is
\* found with its number and has its QoS.
CigComplete(s) ==
    LET ases == IF s.final = MIC THEN Src[1] \o Src[2] ELSE Snk[1] \o Snk[2]
        made == {i \in 1..s.cig :
                   \E a \in FindAse(s, i, ases) : s.ast[a] >= QOS_CONFIGURED}
    IN  [s EXCEPT !.cigEvt = FALSE, !.iso = @ \cup made]

-----------------------------------------------------------------------------
(* The host's commands                                                       *)

\* lepl_rpc_stop_streaming, for the mode that is being left (the final one in
\* a transition); StopRefused is its WICED_ABORTED.
LeftMode(s) == IF s.mode = IN_TRANSIT THEN s.final ELSE s.mode

\* Without the priority check.
StopRefusedNoPriority(s, next) ==
    LeftMode(s) \notin {MEDIA, MIC, BIDIRMIC, CALL}

\* Without the default case: any mode can be stopped.
StopRefusedPriorityOnly(s, next) == next # NONE /\ LeftMode(s) > next

StopRefused(s, next) ==
    \/ next # NONE /\ LeftMode(s) > next
    \/ LeftMode(s) \notin {MEDIA, MIC, BIDIRMIC, CALL}

StopForNext(s, c) ==
    IF LeftMode(s) = MEDIA THEN McsPause(s, c) ELSE StopStreaming(s, c)

RpcStopStreaming(s, c) == SetNextAudioMode(StopForNext(s, c), NONE, ZeroCfg)

RpcPlay(s, c, cfg) ==
    SetNextAudioMode(McsPlay(s, c, cfg), MEDIA, PlayCfg(s, c, cfg))

RpcPause(s, c) == SetNextAudioMode(McsPause(s, c), NONE, ZeroCfg)

\* Start a mode from NONE, or stop the mode that runs and start it when the
\* release completes.
StartVoiceCapture(s, c, cfg) ==
    IF s.mode = NONE
      THEN SetNextAudioMode(StartStreaming(s, c, MicCfg(s, c, cfg)), MIC,
                            MicCfg(s, c, cfg))
      ELSE SetNextAudioMode(StopForNext(s, c), MIC, cfg)

StopVoiceCapture(s, c) == SetNextAudioMode(StopStreaming(s, c), NONE, ZeroCfg)

\* The configuration that waits carries the GAME context already.
StartBidirMic(s, c, cfg) ==
    IF s.mode = NONE
      THEN SetNextAudioMode(StartStreaming(s, c, BidirCfg(s, c, cfg)),
                            BIDIRMIC, BidirCfg(s, c, cfg))
      ELSE SetNextAudioMode(StopForNext(s, c), BIDIRMIC,
                            [cfg EXCEPT !.ctx = "GAME"])

StopBidirMic(s, c) == SetNextAudioMode(StopStreaming(s, c), NONE, ZeroCfg)

GenerateCall(s, c, cfg) ==
    IF s.mode = NONE
      THEN SetNextAudioMode(IncomingCall(RegisterCall(s), c, cfg), CALL,
                            IncomingCfg(s, c, cfg))
      ELSE SetNextAudioMode(RegisterCall(StopForNext(s, c)), CALL, cfg)

\* lepl_tbs_terminate_call: a call that rings without a stream has nothing to
\* release and ends at once.
TerminateCall(s, c) ==
    LET t == SetNextAudioMode([StopStreaming(s, c) EXCEPT !.call = "FREE"],
                              NONE, ZeroCfg)
        u == IF s.ccs # "INBAND_RINGTONE" \/ RingtoneSupported(c) THEN t
             ELSE IF t.paused = NONE THEN [t EXCEPT !.mode = NONE]
             ELSE ResumePaused([t EXCEPT !.mode = NONE], c)
    IN  [u EXCEPT !.ccs = "IDLE"]

StartBroadcast(s) ==
    [SetNextAudioMode(s, BROADCAST, ZeroCfg) EXCEPT
       !.mode = BROADCAST, !.big = TRUE]

StopBroadcast(s) ==
    [SetNextAudioMode(s, NONE, ZeroCfg) EXCEPT !.mode = NONE, !.big = FALSE]

-----------------------------------------------------------------------------
(* The peer's writes to the media and call control points                    *)

GmcsPlay(s, c) ==
    LET cfg == PlayCfg(s, c, s.pcfg)
    IN  SetNextAudioMode([McsPlay(s, c, s.pcfg) EXCEPT !.pcfg = cfg],
                         MEDIA, cfg)

\* lepl_tbs_accept_call: the ringtone stream is to carry the call, or a
\* conversational stream is started with the current configuration.
AcceptCall(s, c) ==
    LET t   == [s EXCEPT !.call = "ACTIVE"]
        cfg == Counted(s, c, [s.cfg EXCEPT !.ctx = "CONVERSATIONAL"])
    IN  IF Inband /\ s.ccs = "INBAND_RINGTONE"
          THEN [t EXCEPT !.ccs = "INBAND_RINGTONE_CONVO"]
          ELSE StartStreaming([t EXCEPT !.ccs = "CONVO", !.cfg = cfg], c, cfg)

\* lepl_tbs_stop_inband_ringtone: an accept removes the data paths of the
\* ringtone and sets them up again, but lepl_cis_handle_data_path_remove
\* disconnects a CIS whose data path is gone.
AcceptDrops(s) ==
    IF Inband /\ s.ccs = "INBAND_RINGTONE"
      THEN s.iso \cap {s.cid[a] : a \in {b \in Ase :
             s.ast[b] = STREAMING /\ \E i \in Slots : s.list[i] = b}}
      ELSE {}

PlaceCall(s) == [s EXCEPT !.call = "DIALING"]

\* lepl_tbs_hold_call and lepl_tbs_retrieve_call, by the peer.  With one call
\* slot there are no other calls to hold, and a join (of one call, named
\* twice) retrieves it.  None of them touches the streams.
HoldCall(s) ==
    [s EXCEPT !.call = IF @ = "REMOTELY_HELD" THEN "BOTH_HELD" ELSE "LOCALLY_HELD"]

RetrieveCall(s) ==
    [s EXCEPT !.call = CASE @ = "LOCALLY_HELD" -> "ACTIVE"
                         [] @ = "BOTH_HELD"    -> "REMOTELY_HELD"
                         [] OTHER              -> @]

JoinCall(s) == RetrieveCall(s)

\* lepl_tbs_remotely_hold_call and lepl_tbs_retrieve_remotely_hold_call, for
\* the other party of the call, by the host.
RemotelyHoldCall(s) ==
    [s EXCEPT !.call = IF @ = "LOCALLY_HELD" THEN "BOTH_HELD" ELSE "REMOTELY_HELD"]

RetrieveRemotelyHoldCall(s) ==
    [s EXCEPT !.call = CASE @ = "REMOTELY_HELD" -> "ACTIVE"
                         [] @ = "BOTH_HELD"     -> "LOCALLY_HELD"
                         [] OTHER               -> @]

-----------------------------------------------------------------------------
(* Connections                                                               *)

\* A disconnection that leaves the ASEs of the device in the list.
CleanupNothing(s, c) == s.list

\* cleanup_ases
CleanupAses(s, c) == [i \in Slots |-> IF SlotOf(s, i, c) THEN NULL ELSE s.list[i]]

\* lepl_gatt_handle_disconnection: the audio state goes with the last member
\* of a set, or with any device that is in none; then the ASEs of the device.
HandleDisconnection(s, c) ==
    LET t == IF Csis /\ s.up # {c} THEN s
             ELSE ResetAudioState([s EXCEPT !.media = "PAUSED"])
        held == {s.cid[a] : a \in {b \in Ase : Owner[b] = c}}
        left == IF Csis THEN s.iso \ {c} ELSE s.iso \ held
    IN  [t EXCEPT
          !.list = CleanupAses(t, c),
          !.ast  = [a \in Ase |-> IF Owner[a] = c THEN IDLE ELSE s.ast[a]],
          !.cid  = [a \in Ase |-> IF Owner[a] = c THEN 0 ELSE s.cid[a]],
          !.out[c] = << >>,
          !.up   = @ \ {c},
          !.iso  = left,
          !.cig  = IF left = {} /\ s.iso # {} THEN 0 ELSE @]

\* A member that comes back while its set is streaming: sink ASE for MEDIA,
\* BIDIRMIC and CALL, source ASE for MIC only.
MemberReconnection(s, c) ==
    LET t == [s EXCEPT !.up = @ \cup {c}]
        a == CASE ~Csis                                -> << >>
               [] Csis /\ s.mode \in {MEDIA, BIDIRMIC, CALL} -> <<Snk[c][1]>>
               [] Csis /\ s.mode = MIC /\ Src[c] # << >> -> <<Src[c][1]>>
               [] OTHER                                -> << >>
    IN  Configure(t, s.cfg, [d \in Conn |-> IF d = c THEN a ELSE << >>])
=============================================================================
