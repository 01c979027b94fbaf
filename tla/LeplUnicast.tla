---------------------------- MODULE LeplUnicast ----------------------------
(* The unicast player with its environment: the host that sends commands    *)
(* over RPC, the peers that write the media and call control points, and    *)
(* the ASCS servers of the connected devices, reached over ordered GATT     *)
(* bearers (control point writes one way, notifications the other).         *)
EXTENDS LeplCap

CONSTANTS
    Cmds,       \* the commands the host and the peers give
    MaxCmds,    \* bound: how many of them
    MaxFaults,  \* bound: how many faults,
    FaultKinds, \* and which: "reject" (a write), "disable" (by the server),
                \* "path" (a data path is not set up), "loss" (of a link)
    Manners,    \* how the commands are given: "wait" until the streams have
                \* settled, start a mode or a call only "once", hold only
                \* a call that was "answered"
    Stereo,     \* the choices of one stream per channel in a command
    Caching     \* devices whose released ASEs keep their codec configuration

ASSUME EnvAssumption ==
    /\ MaxCmds \in Nat /\ MaxFaults \in Nat
    /\ Manners \subseteq {"wait", "once", "answered"}
    /\ Stereo \subseteq BOOLEAN
    /\ Caching \subseteq Conn

VARIABLES
    app,     \* the application (see LeplCap)
    srv,     \* the ASE states at the servers
    nq,      \* per connection: notifications under way
    dropping, \* the CISs that the stack was asked to disconnect
    cmds,    \* commands given so far
    faults   \* faults so far

vars == <<app, srv, nq, dropping, cmds, faults>>

Notification == [k : {"state", "error"}, ase : Ase, st : AseStates]

StateOf(a, st) == [k |-> "state", ase |-> a, st |-> st]
ErrorOn(a)     == [k |-> "error", ase |-> a, st |-> IDLE]

Init ==
    /\ app = InitApp
    /\ srv = [a \in Ase |-> IDLE]
    /\ nq = [c \in Conn |-> << >>]
    /\ dropping = {}
    /\ cmds = 0
    /\ faults = 0

\* Nothing is under way between the player and the servers.
Settled ==
    /\ \A c \in Conn : app.out[c] = << >> /\ nq[c] = << >>
    /\ ~app.cigEvt
    /\ dropping = {}
    /\ \A a \in Ase :
         /\ srv[a] # RELEASING
         /\ ~(srv[a] = ENABLING /\ app.cid[a] \in app.iso)

-----------------------------------------------------------------------------
(* Commands.  Each names a connection in use.                                *)

Given(name, next) ==
    /\ name \in Cmds
    /\ cmds < MaxCmds
    /\ "wait" \in Manners => Settled
    /\ app' = next
    /\ cmds' = cmds + 1
    /\ UNCHANGED <<srv, nq, faults>>

Command(name, next) == Given(name, next) /\ UNCHANGED dropping

HostCfg(two) == [ZeroCfg EXCEPT !.two = two]

\* lepl_rpc_handle_play, lepl_rpc_handle_pause
Play(c, two) ==
    /\ app.mode = NONE
    /\ Command("play", RpcPlay(app, c, HostCfg(two)))

Pause(c) ==
    /\ MEDIA \in {app.mode, app.final}
    /\ Command("pause", RpcPause(app, c))

\* lepl_rpc_handle_start_stop_capture_voice: only out_cfg is given.
StartMic(c) ==
    /\ app.mode = NONE \/ ~StopRefused(app, MIC)
    /\ "once" \in Manners => app.final # MIC
    /\ Command("mic", StartVoiceCapture(app, c, ZeroCfg))

StopMic(c) ==
    /\ MIC \in {app.mode, app.final}
    /\ Command("micStop", StopVoiceCapture(app, c))

\* lepl_rpc_handle_start_stop_conv_streaming
StartBidir(c, two) ==
    /\ app.mode = NONE \/ ~StopRefused(app, BIDIRMIC)
    /\ "once" \in Manners => app.final # BIDIRMIC
    /\ Command("bidir", StartBidirMic(app, c, HostCfg(two)))

StopBidir(c) ==
    /\ BIDIRMIC \in {app.mode, app.final}
    /\ Command("bidirStop", StopBidirMic(app, c))

\* lepl_rpc_ccs_handle_generate_call_uri, lepl_rpc_ccs_handle_terminate_call
Ring(c, two) ==
    /\ app.mode = NONE \/ ~StopRefused(app, CALL)
    /\ "once" \in Manners => app.call = "FREE"
    /\ Command("ring", GenerateCall(app, c, HostCfg(two)))

EndCall(c) ==
    /\ CALL \in {app.mode, app.final}
    /\ app.call # "FREE"
    /\ Command("endCall", TerminateCall(app, c))

\* lepl_disconnect_device: the stream is stopped first.
StopToDisconnect(c) ==
    /\ app.mode > BROADCAST
    /\ ~StopRefused(app, NONE)
    /\ Command("disconnect", RpcStopStreaming(app, c))

\* lepl_rpc_broadcast_src_handle_start_streaming
BroadcastStart ==
    /\ app.mode = NONE
    /\ Command("broadcast", StartBroadcast(app))

BroadcastStop ==
    /\ app.big
    /\ Command("broadcastStop", StopBroadcast(app))

\* A peer writes the media control point.
PeerPlay(c) ==
    /\ app.media # "INACTIVE" /\ app.mode = NONE
    /\ Command("peerPlay", GmcsPlay(app, c))

PeerPause(c) ==
    /\ app.media # "INACTIVE" /\ LeftMode(app) = MEDIA
    /\ Command("peerPause", RpcPause(app, c))

\* A peer writes the call control point; a call is terminated in any mode.
PeerAccept(c) ==
    /\ app.call \in {"INCOMING", "DIALING"}
    /\ Given("accept", AcceptCall(app, c))
    /\ dropping' = dropping \cup AcceptDrops(app)

PeerTerminate(c) ==
    /\ app.call # "FREE"
    /\ Command("terminate", TerminateCall(app, c))

PeerOriginate ==
    /\ app.call = "FREE"
    /\ Command("originate", PlaceCall(app))

PeerHold ==
    /\ app.call \in {"INCOMING", "ACTIVE", "REMOTELY_HELD"}
    /\ "answered" \in Manners => app.call # "INCOMING"
    /\ Command("hold", HoldCall(app))

PeerRetrieve ==
    /\ app.call # "FREE"
    /\ Command("retrieve", RetrieveCall(app))

PeerJoin ==
    /\ app.call \notin {"FREE", "INCOMING"}
    /\ Command("join", JoinCall(app))

\* lepl_rpc_ccs_simulate_remote_hold_retrieve_call
RemoteHold ==
    /\ app.mode = CALL /\ app.call \notin {"FREE", "DIALING"}
    /\ "answered" \in Manners => app.call # "INCOMING"
    /\ Command("remoteHold", RemotelyHoldCall(app))

RemoteRetrieve ==
    /\ app.mode = CALL /\ app.call # "FREE"
    /\ Command("remoteRetrieve", RetrieveRemotelyHoldCall(app))

-----------------------------------------------------------------------------
(* The ASCS servers                                                          *)

\* The state an operation leads to, from the states that allow it.
Allowed(op, st) ==
    CASE op = "CONFIG_CODEC" -> st \in {IDLE, CODEC_CONFIGURED, QOS_CONFIGURED}
      [] op = "CONFIG_QOS"   -> st \in {CODEC_CONFIGURED, QOS_CONFIGURED}
      [] op = "ENABLE"       -> st = QOS_CONFIGURED
      [] op = "RELEASE"      -> st \notin {IDLE, RELEASING}
      [] op = "RECEIVER_STOP_READY" -> st = DISABLING

Target(op) ==
    CASE op = "CONFIG_CODEC" -> CODEC_CONFIGURED
      [] op = "CONFIG_QOS"   -> QOS_CONFIGURED
      [] op = "ENABLE"       -> ENABLING
      [] op = "RELEASE"      -> RELEASING
      [] op = "RECEIVER_STOP_READY" -> QOS_CONFIGURED

\* The server moves ASE a to st and notifies its client.
Notify(a, st) ==
    /\ srv' = [srv EXCEPT ![a] = st]
    /\ nq' = [nq EXCEPT ![Owner[a]] = Append(@, StateOf(a, st))]

ServerWrite(c) ==
    /\ app.out[c] # << >>
    /\ LET m == Head(app.out[c])
       IN  IF Allowed(m.op, srv[m.ase]) THEN Notify(m.ase, Target(m.op))
           ELSE /\ nq' = [nq EXCEPT ![c] = Append(@, ErrorOn(m.ase))]
                /\ UNCHANGED srv
    /\ app' = [app EXCEPT !.out[c] = Tail(@)]
    /\ UNCHANGED <<dropping, cmds, faults>>

\* The CIS of an enabled ASE is there (and its data path, for a source).
ServerStream(a) ==
    /\ srv[a] = ENABLING /\ app.cid[a] \in app.iso
    /\ Notify(a, STREAMING)
    /\ UNCHANGED <<app, dropping, cmds, faults>>

ServerReleased(a) ==
    /\ srv[a] = RELEASING
    /\ Notify(a, IF Owner[a] \in Caching THEN CODEC_CONFIGURED ELSE IDLE)
    /\ UNCHANGED <<app, dropping, cmds, faults>>

-----------------------------------------------------------------------------
(* Events that the player handles                                            *)

\* lepl_ascs_handle_received_characteristics_value
Deliver(c) ==
    /\ nq[c] # << >>
    /\ LET n == Head(nq[c])
       IN  app' = IF n.k = "error" THEN AscsErrorResponse(app, c)
                  ELSE AseNotification(app, c, n.ase, n.st)
    /\ nq' = [nq EXCEPT ![c] = Tail(@)]
    /\ dropping' = dropping \cap app'.iso
    /\ UNCHANGED <<srv, cmds, faults>>

\* WICED_BLE_ISOC_SET_CIG_CMD_COMPLETE_EVT
CigCompleteEvt ==
    /\ app.cigEvt
    /\ app' = CigComplete(app)
    /\ UNCHANGED <<srv, nq, dropping, cmds, faults>>

\* The CIS is gone for its server too, which notifies what that does to the
\* ASEs: they have their QoS and wait to be enabled.
Carried(a, i) == app.cid[a] = i /\ srv[a] \in {ENABLING, STREAMING}

LossOf(ases, k, i) ==
    IF k \in DOMAIN ases /\ Carried(ases[k], i)
      THEN <<StateOf(ases[k], QOS_CONFIGURED)>> ELSE << >>

LossNotes(c, i) == LossOf(Snk[c], 1, i) \o LossOf(Snk[c], 2, i) \o LossOf(Src[c], 1, i)

\* WICED_BLE_ISOC_CIS_DISCONNECTED_EVT
CisDisconnectedEvt(i) ==
    /\ i \in dropping
    /\ app' = DropCis(app, i)
    /\ srv' = [a \in Ase |-> IF Carried(a, i) THEN QOS_CONFIGURED ELSE srv[a]]
    /\ nq' = [c \in Conn |-> nq[c] \o LossNotes(c, i)]
    /\ dropping' = dropping \ {i}
    /\ UNCHANGED <<cmds, faults>>

-----------------------------------------------------------------------------
(* Faults and links                                                          *)

Fault(kind) ==
    /\ kind \in FaultKinds
    /\ faults < MaxFaults
    /\ faults' = faults + 1
    /\ UNCHANGED cmds

\* A write that the server refuses although its state allows it.
ServerReject(c) ==
    /\ Fault("reject")
    /\ app.out[c] # << >>
    /\ nq' = [nq EXCEPT ![c] = Append(@, ErrorOn(Head(app.out[c]).ase))]
    /\ app' = [app EXCEPT !.out[c] = Tail(@)]
    /\ UNCHANGED <<srv, dropping>>

\* The server disables a stream on its own.
ServerDisable(a) ==
    /\ Fault("disable")
    /\ srv[a] \in {ENABLING, STREAMING}
    /\ Notify(a, IF IsSrc(a) THEN DISABLING ELSE QOS_CONFIGURED)
    /\ UNCHANGED <<app, dropping>>

\* The stack refuses the data path that a notification asks for.
PathFails(c) ==
    /\ Fault("path")
    /\ nq[c] # << >>
    /\ LET n == Head(nq[c])
       IN  /\ n.k = "state" /\ SetsPath(app, n.ase, n.st)
           /\ app' = PathFailed(app, n.ase, n.st)
    /\ nq' = [nq EXCEPT ![c] = Tail(@)]
    /\ UNCHANGED <<srv, dropping>>

\* GATT_CONNECTION_STATUS_EVT, disconnected: what was under way is lost.
LinkLoss(c) ==
    /\ Fault("loss")
    /\ c \in app.up
    /\ app' = HandleDisconnection(app, c)
    /\ srv' = [a \in Ase |-> IF Owner[a] = c THEN IDLE ELSE srv[a]]
    /\ nq' = [nq EXCEPT ![c] = << >>]
    /\ dropping' = dropping \cap app'.iso

Reconnect(c) ==
    /\ c \in Devices \ app.up
    /\ app' = MemberReconnection(app, c)
    /\ UNCHANGED <<srv, nq, dropping, cmds, faults>>

-----------------------------------------------------------------------------
Commands ==
    \/ \E c \in app.up :
         \/ \E two \in Stereo : Play(c, two) \/ StartBidir(c, two) \/ Ring(c, two)
         \/ Pause(c) \/ StartMic(c) \/ StopMic(c) \/ StopBidir(c)
         \/ EndCall(c) \/ StopToDisconnect(c)
         \/ PeerPlay(c) \/ PeerPause(c) \/ PeerAccept(c) \/ PeerTerminate(c)
    \/ PeerOriginate \/ PeerHold \/ PeerRetrieve \/ PeerJoin
    \/ RemoteHold \/ RemoteRetrieve
    \/ BroadcastStart \/ BroadcastStop

Progress ==
    \/ \E c \in Conn : ServerWrite(c) \/ Deliver(c)
    \/ \E a \in Ase : ServerStream(a) \/ ServerReleased(a)
    \/ \E i \in Cises : CisDisconnectedEvt(i)
    \/ CigCompleteEvt

Faults ==
    \/ \E c \in Conn : \/ ServerReject(c) \/ PathFails(c)
                       \/ LinkLoss(c) \/ Reconnect(c)
    \/ \E a \in Ase : ServerDisable(a)

Next == Commands \/ Progress \/ Faults

\* The servers answer, the bearers deliver and the thread dispatches its
\* events.  Nobody has to give a command, lose a link or reconnect.
Fairness ==
    /\ \A c \in Conn : WF_vars(ServerWrite(c)) /\ WF_vars(Deliver(c))
    /\ \A a \in Ase : WF_vars(ServerStream(a)) /\ WF_vars(ServerReleased(a))
    /\ \A i \in Cises : WF_vars(CisDisconnectedEvt(i))
    /\ WF_vars(CigCompleteEvt)

Spec == Init /\ [][Next]_vars

FairSpec == Spec /\ Fairness

-----------------------------------------------------------------------------
(* Properties                                                                *)

\* The variables keep their types (lepl_gatt_cb, the servers, the bearers).
TypeOK ==
    /\ app \in App
    /\ srv \in [Ase -> AseStates]
    /\ nq \in [Conn -> Seq(Notification)]
    /\ dropping \subseteq Cises
    /\ cmds \in 0..MaxCmds
    /\ faults \in 0..MaxFaults

\* transit_info.final_mode tells what current_mode becomes: outside a
\* transition they agree, so that lepl_rpc_stop_streaming and
\* lepl_create_cis, which read final_mode, act on the mode that is on.
ModeTracksFinal == app.mode \in {IN_TRANSIT, app.final}

\* Every path into MEDIA goes through lepl_handle_streaming_operation(PLAY),
\* and no other mode's handlers undo it: as long as the audio mode is or
\* becomes MEDIA, GMCS reports PLAYING to the peers.
MediaModePlays == app.final = MEDIA => app.media = "PLAYING"

\* paused_mode holds a mode that lepl_cap_resume_streaming can resume: never
\* BROADCAST, never IN_TRANSIT, so no resume ends in "Not a valid mode".
PausedResumable == app.paused \in {NONE, MEDIA, MIC, BIDIRMIC, CALL}

UnicastModes == {MEDIA, MIC, BIDIRMIC, CALL}

\* The modes keep the promise of AudioModes: whatever the host, the peers and
\* the servers do, current_mode, transit_info.final_mode and paused_mode
\* change only by its steps, so every interrupted mode was on, gave way to one
\* of its priority or above, and is resumed at most once.
Promise == INSTANCE AudioModes WITH
    mode <- app.mode, next <- app.final, paused <- app.paused,
    calling <- app.call # "FREE"

ImplementsModes == Promise!Spec

\* A mode only gives way to one of the same or a higher priority, or to NONE;
\* the exception is the end of a call, which resumes what the call paused.
PriorityRespected ==
    [][ app'.final < app.final =>
          \/ app'.final = NONE
          \/ app.call # "FREE" /\ app'.call = "FREE" ]_vars

\* The ASE list and the writes under way only refer to control blocks in
\* use: lepl_gatt_free_cb clears a block whose ASEs no list points to.
ListedConnected ==
    /\ \A i \in Slots : app.list[i] # NULL => Owner[app.list[i]] \in app.up
    /\ \A c \in Conn \ app.up : app.out[c] = << >>

\* A member that is configured while MEDIA is on, the one that comes back
\* after a link loss included, ends up streaming for as long as MEDIA lasts.
ListedStream ==
    \A a \in Ase :
      LET listed == \E i \in Slots : app.list[i] = a
      IN  app.mode = MEDIA /\ listed
            ~> srv[a] = STREAMING \/ app.mode # MEDIA \/ ~listed

-----------------------------------------------------------------------------
(* Properties of a host that waits, on links without faults                  *)

\* An incoming call without a ringtone stream waits to be accepted.
Ringing ==
    app.mode = IN_TRANSIT /\ app.final = CALL /\ app.call = "INCOMING"

HeldStates == {"LOCALLY_HELD", "REMOTELY_HELD", "BOTH_HELD"}

\* When everything has settled, the audio mode tells what the servers do:
\* NONE and BROADCAST mean that no ASE is beyond its codec configuration and
\* no release is pending, a unicast mode that its ASEs stream, a transition
\* is over unless a call rings, and there is a call exactly in CALL, with a
\* conversation once it was answered, held or not.  The exception is a call
\* whose ringtone was streamed: the accept drops its CISs (AcceptDrops), and
\* the ASEs are enabled again but stay without them if the CIG went too.
SettledConsistent ==
    Settled =>
      /\ app.mode = IN_TRANSIT => Ringing
      /\ app.mode \notin UnicastModes =>
           /\ app.list = EmptyList /\ ~app.releasing
           /\ \A a \in Ase : srv[a] <= CODEC_CONFIGURED
      /\ app.mode \in UnicastModes =>
           /\ app.list # EmptyList
           /\ \A i \in Slots :
                app.list[i] # NULL =>
                  \/ srv[app.list[i]] = STREAMING
                  \/ /\ app.ccs = "INBAND_RINGTONE_CONVO"
                     /\ srv[app.list[i]] = ENABLING
      /\ app.call # "FREE" <=> app.final = CALL
      /\ app.call \in {"ACTIVE"} \cup HeldStates =>
           app.ccs \in {"CONVO", "INBAND_RINGTONE_CONVO"}

\* Every transition ends: the releases complete, what comes next is
\* configured and enabled, and current_mode takes the final mode.
TransitEnds ==
    app.mode = IN_TRANSIT ~> app.mode # IN_TRANSIT \/ Ringing

\* Media that a call, a voice capture or a bidirectional stream interrupted
\* is played again once that is stopped.
MediaResumes ==
    app.paused = MEDIA /\ app.final = NONE ~> app.mode = MEDIA

-----------------------------------------------------------------------------
(* What the README says of the modes and the code does not keep              *)

Streams == \E a \in Ase : srv[a] = STREAMING

\* "MEDIA: Media streaming to sink": broken by a pause that lepl_rpc.c
\* accepts before the configuration of the stream is complete.
MediaMeansStreaming == Settled /\ app.mode = MEDIA => Streams

\* "Otherwise, sink is notified of incoming call": the notifications go out
\* where ccs_state leaves IDLE; a call that interrupts media before the
\* stream is up gets its mode without them.
IncomingAnnounced ==
    app.mode = CALL /\ app.call = "INCOMING" => app.ccs # "IDLE"

\* "MIC --> NONE: Stop Mic": broken by a second start of the voice capture.
MicStops ==
    app.mode = IN_TRANSIT /\ app.final = NONE ~> app.mode = NONE

\* "Terminate Call: Return to idle or previous state": broken by the
\* termination of an outgoing call, which has no stream to release.
TerminateReturns ==
    app.mode = IN_TRANSIT /\ app.call = "FREE" ~> app.mode # IN_TRANSIT
=============================================================================
