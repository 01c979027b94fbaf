---------------------------- MODULE LeplSetSync ----------------------------
(* Volume (VCS), microphone mute (MICS) and microphone gain (AICS) of the   *)
(* members of a coordinated set: the commands of the host, the writes to    *)
(* the members, their notifications, and the synchronisation that           *)
(* lepl_cap.c derives from a notification.  The three services share one    *)
(* scheme; a behaviour is about one of them, "kind".  The members' servers  *)
(* are external; ga_lib_vcs.c holds the server half of VCS.                 *)
EXTENDS Integers, Sequences

CONSTANTS
    Members,       \* members of the set (LEPL_MAX_CONNECTIONS of them)
    Kinds,         \* services that a behaviour may be about
    Volumes,       \* volumes that the host and the users pick
    Gains,         \* gains that the host and the users pick
    Step,          \* volume step of the members
    Unit,          \* gain_setting_units of the members
    MinGain, MaxGain,   \* their gain properties
    MaxCounter,    \* last value of the change counter (0xFF in the code)
    FirstCounter,  \* change counter of the members at the start
    MaxChanges,    \* bound: commands of the host and changes by the users
    MaxFaults      \* bound: links lost and steps in which the stack refuses
                   \* writes

MIN_VOLUME == 0      \* GA_LIB_VCS_MINIMUM_VOLUME
MAX_VOLUME == 255    \* GA_LIB_VCS_MAXIMUM_VOLUME

ASSUME SetSyncAssumption ==
    /\ Kinds \subseteq {"VCS", "MICS", "AICS"}
    /\ Volumes \subseteq MIN_VOLUME .. MAX_VOLUME
    /\ Gains \subseteq MinGain .. MaxGain
    /\ {MinGain, MaxGain} \subseteq -128 .. 127
    /\ {Unit, MaxCounter} \subseteq 0 .. 255
    /\ Step \in 1 .. 255
    /\ FirstCounter \in 0 .. MaxCounter
    /\ {MaxChanges, MaxFaults} \subseteq Nat

VARIABLES
    kind,      \* the service
    modes,     \* the members have a mute that can be disabled, and an
               \* automatic gain (MICS and AICS)
    srv,       \* srv[m]: level, mute, gain mode and change counter in the member
    copy,      \* copy[m]: what the control block of m holds of them
    waiting,   \* waiting[m]: waiting_for_vcs_notif, _mics_notif, _aics_notif
    out,       \* out[m]: writes on their way to the member, oldest first
    notes,     \* notes[m]: notifications on their way back, oldest first
    up,        \* members with a link
    loose,     \* history: since the last notification a member came back, or
               \* the stack refused a write that was to bring one in step
    used       \* what has been used of the bounds

vars == <<kind, modes, srv, copy, waiting, out, notes, up, loose, used>>

Levels  == -128 .. 255
Mutes   == {"NOT_MUTED", "MUTED", "DISABLED"}   \* VCS knows the first two
State   == [level : Levels, mute : Mutes, auto : BOOLEAN, cnt : 0 .. MaxCounter]
Opcodes == {"DOWN", "UP", "UNMUTE_DOWN", "UNMUTE_UP", "SET", "UNMUTE", "MUTE", "DISABLE"}
Write   == [op : Opcodes, level : Levels, cnt : 0 .. MaxCounter]

Setting(s) == [level |-> s.level, mute |-> s.mute]

Lower(x, y)  == IF x < y THEN x ELSE y
Higher(x, y) == IF x > y THEN x ELSE y

\* The variables keep their types.
TypeOK ==
    /\ kind \in Kinds /\ modes \in BOOLEAN
    /\ srv \in [Members -> State]
    /\ copy \in [Members -> State]
    /\ waiting \in [Members -> BOOLEAN]
    /\ \A m \in Members : /\ out[m] \in Seq(Write) /\ notes[m] \in Seq(State)
                          /\ m \notin up => out[m] = <<>> /\ notes[m] = <<>>
    /\ up \subseteq Members
    /\ loose \in BOOLEAN
    /\ used \in [changes : 0 .. MaxChanges, losses : 0 .. MaxFaults, refused : 0 .. MaxFaults]

Init ==
    /\ kind \in Kinds
    /\ modes \in BOOLEAN /\ (modes => kind # "VCS")
    /\ srv = [m \in Members |->
                [level |-> 0, mute |-> "NOT_MUTED", auto |-> FALSE, cnt |-> FirstCounter]]
    /\ copy = srv
    /\ waiting = [m \in Members |-> FALSE]
    /\ out = [m \in Members |-> <<>>]
    /\ notes = [m \in Members |-> <<>>]
    /\ up = Members
    /\ loose = FALSE
    /\ used = [changes |-> 0, losses |-> 0, refused |-> 0]

----------------------------------------------------------------------------
(* The client's requests.  Each is decided on the copy c of the control     *)
(* block: a write with the copy's change counter that is handed to the      *)
(* stack, or none.  Send says what becomes of it.                           *)
NoWrite == [op |-> "NONE"]

\* Any mute state but 0 is a MUTE, 2 (mute disabled) as well.
MuteOp(mute) == IF mute = "NOT_MUTED" THEN "UNMUTE" ELSE "MUTE"

\* Mutant: the check of an absolute volume is missing.
PointlessButSet(c, op, v) ==
    \/ op = "DOWN"        /\ c.level = MIN_VOLUME
    \/ op = "UP"          /\ c.level = MAX_VOLUME
    \/ op = "UNMUTE_DOWN" /\ c.level = MIN_VOLUME /\ c.mute = "NOT_MUTED"
    \/ op = "UNMUTE_UP"   /\ c.level = MAX_VOLUME /\ c.mute = "NOT_MUTED"
    \/ op = "MUTE"        /\ c.mute = "MUTED"
    \/ op = "UNMUTE"      /\ c.mute = "NOT_MUTED"

\* lepl_check_volume_state_validity: the opcodes that would change nothing.
Pointless(c, op, v) ==
    \/ op = "DOWN"        /\ c.level = MIN_VOLUME
    \/ op = "UP"          /\ c.level = MAX_VOLUME
    \/ op = "UNMUTE_DOWN" /\ c.level = MIN_VOLUME /\ c.mute = "NOT_MUTED"
    \/ op = "UNMUTE_UP"   /\ c.level = MAX_VOLUME /\ c.mute = "NOT_MUTED"
    \/ op = "SET"         /\ c.level = v
    \/ op = "MUTE"        /\ c.mute = "MUTED"
    \/ op = "UNMUTE"      /\ c.mute = "NOT_MUTED"

\* ga_lib_vcs_write_control_point: opcode, change counter, and the volume of
\* SET_ABSOLUTE_VOLUME.
VcsWrite(c, op, v) == [op |-> op, level |-> IF op = "SET" THEN v ELSE 0, cnt |-> c.cnt]

\* lepl_vcs_set_volume.
SetVolume(c, op, v) == IF Pointless(c, op, v) THEN NoWrite ELSE VcsWrite(c, op, v)

\* lepl_vcs_set_mute_state.
SetMuteState(c, mute) ==
    IF Pointless(c, MuteOp(mute), 0) THEN NoWrite ELSE VcsWrite(c, MuteOp(mute), 0)

\* ga_lib_mics_write_mute_state: the mute state is written as it is, 2 (mute
\* disabled) as well; MICS has no change counter.
MicsWrite(mute) ==
    [op |-> IF mute = "DISABLED" THEN "DISABLE" ELSE MuteOp(mute), level |-> 0, cnt |-> 0]

\* lepl_mics_set_mute: written whatever the copy says.
MicsSetMute(c, mute) == MicsWrite(mute)

\* ga_lib_aics_write_cp.
AicsWrite(c, op, g) == [op |-> op, level |-> IF op = "SET" THEN g ELSE 0, cnt |-> c.cnt]

\* lepl_mics_aics_set_mute.
AicsSetMute(c, mute) == IF c.mute = mute THEN NoWrite ELSE AicsWrite(c, MuteOp(mute), 0)

\* lepl_mics_aics_set_gain: the gain to write for "UP" (increment), "DOWN"
\* (decrement) and "SET"; the int8_t is clamped.
NewGain(c, op, v) ==
    IF op = "UP" THEN Lower(c.level + Unit, 127)
    ELSE IF op = "DOWN" THEN Higher(c.level - Unit, -128)
    ELSE v

\* Mutant: above the maximum the gain starts again at the minimum.
AicsSetGainWrapped(c, op, v) ==
    LET g == NewGain(c, op, v)
        h == IF op = "UP" /\ c.level = MaxGain THEN MinGain ELSE g
    IN  IF MinGain <= h /\ c.level # h THEN AicsWrite(c, "SET", h) ELSE NoWrite

\* lepl_mics_aics_set_gain.
AicsSetGain(c, op, v) ==
    LET g == NewGain(c, op, v)
    IN  IF MinGain <= g /\ g <= MaxGain /\ c.level # g THEN AicsWrite(c, "SET", g) ELSE NoWrite

\* Mutant: only the mute state is brought in step.
SyncMuteOnly(c, wait, s) ==
    IF wait THEN NoWrite
    ELSE IF c.mute # s.mute THEN SetMuteState(c, s.mute)
    ELSE NoWrite

\* sync_volume_state: what the state s, just notified by another member, asks
\* of a member with copy c; one of mute state and volume at a time.
SyncVolumeState(c, wait, s) ==
    IF wait THEN NoWrite
    ELSE IF c.mute # s.mute THEN SetMuteState(c, s.mute)
    ELSE IF c.level # s.level THEN SetVolume(c, "SET", s.level)
    ELSE NoWrite

\* sync_mics_mute_state.
SyncMicsMuteState(c, wait, s) ==
    IF ~wait /\ c.mute # s.mute THEN MicsSetMute(c, s.mute) ELSE NoWrite

\* sync_aics_input_state: the gain is not set to that of s; the opcode is
\* HCI_CONTROL_LEA_MICS_AICS_GAIN_INCREMENT, for which the value is ignored.
SyncAicsInputState(c, wait, s) ==
    IF wait THEN NoWrite
    ELSE IF c.mute # s.mute THEN AicsSetMute(c, s.mute)
    ELSE IF c.level # s.level THEN AicsSetGain(c, "UP", s.level)
    ELSE NoWrite

\* The requests req, one for a member at most, reach the stack, which refuses
\* those for the members in "failed" (no buffer, or a busy link): nothing is
\* sent, the flag is not set, and nobody tries again.  A write that was sent
\* sets the waiting flag; wait holds the flags before.
Send(req, failed, wait) ==
    /\ failed \subseteq {m \in Members : req[m] # NoWrite}
    /\ out' = [m \in Members |-> IF req[m] = NoWrite \/ m \in failed THEN out[m]
                                ELSE Append(out[m], req[m])]
    /\ waiting' = [m \in Members |-> wait[m] \/ (req[m] # NoWrite /\ m \notin failed)]

MayFail == used.losses + used.refused < MaxFaults

\* The bounds allow this many changes more, and the refusal of "failed".
Spend(changes, failed) ==
    /\ used.changes + changes <= MaxChanges
    /\ failed # {} => MayFail
    /\ used' = [used EXCEPT !.changes = @ + changes,
                            !.refused = IF failed = {} THEN @ ELSE @ + 1]

----------------------------------------------------------------------------
(* The host.  Every command goes to each member of the set that has a link, *)
(* whether or not the member is being waited for.                           *)
ForEachDevice(req) ==
    /\ \E failed \in SUBSET up :
        /\ Spend(1, failed)
        /\ Send([m \in Members |-> IF m \in up THEN req[m] ELSE NoWrite], failed, waiting)
    /\ UNCHANGED <<kind, modes, srv, copy, notes, up, loose>>

\* lepl_rpc_vcs_set_vol, lepl_cap_vcp_set_volume.
VolumeOps == {"DOWN", "UP", "UNMUTE_DOWN", "UNMUTE_UP", "SET"}
VcsSetVol(op, v) ==
    /\ kind = "VCS"
    /\ op # "SET" => v = 0
    /\ ForEachDevice([m \in Members |-> SetVolume(copy[m], op, v)])

\* lepl_rpc_handle_set_mute_state, lepl_cap_vcp_set_mute_state.
HostMutes == {"NOT_MUTED", "MUTED"}
VcsSetMute(mute) ==
    /\ kind = "VCS"
    /\ ForEachDevice([m \in Members |-> SetMuteState(copy[m], mute)])

\* lepl_rpc_mics_mute, lepl_cap_micp_mute.
MicsMute(mute) ==
    /\ kind = "MICS"
    /\ ForEachDevice([m \in Members |-> MicsSetMute(copy[m], mute)])

\* lepl_rpc_mics_aics_mute, lepl_cap_micp_aics_mute.
MicsAicsMute(mute) ==
    /\ kind = "AICS"
    /\ ForEachDevice([m \in Members |-> AicsSetMute(copy[m], mute)])

\* lepl_rpc_mics_aics_set_gain, lepl_cap_micp_aics_set_gain.
GainOps == {"DOWN", "UP", "SET"}
MicsAicsSetGain(op, v) ==
    /\ kind = "AICS"
    /\ op # "SET" => v = 0
    /\ ForEachDevice([m \in Members |-> AicsSetGain(copy[m], op, v)])

----------------------------------------------------------------------------
(* The members.                                                             *)

\* ga_lib_vcs_check_volume_state_validity: the state a write asks for.
Asked(s, w) ==
    [s EXCEPT
       !.level = IF w.op \in {"DOWN", "UNMUTE_DOWN"} THEN Higher(@ - Step, 0)
                 ELSE IF w.op \in {"UP", "UNMUTE_UP"} THEN Lower(@ + Step, MAX_VOLUME)
                 ELSE IF w.op = "SET" THEN w.level ELSE @,
       !.mute = IF w.op \in {"UNMUTE_DOWN", "UNMUTE_UP", "UNMUTE"} THEN "NOT_MUTED"
                ELSE IF w.op = "MUTE" THEN "MUTED" ELSE @]

\* Mutant: the counter does not wrap.
CountedOn(s) == [s EXCEPT !.cnt = @ + 1]

\* ga_lib_vcs_notify_volume_state, ga_lib_aics_notify_input_state: the
\* change counter goes on, from 0xFF to 0.
Counted(s) == [s EXCEPT !.cnt = IF @ = MaxCounter THEN 0 ELSE @ + 1]

\* A write with an old change counter is refused; MICS has none.  An input
\* whose mute is disabled refuses to be muted or unmuted, and to have its mute
\* disabled from here; one in an automatic gain mode takes no gain, nor one
\* out of its range.
Accepts(s, w) ==
    /\ kind # "MICS" => w.cnt = s.cnt
    /\ kind # "VCS" /\ w.op # "SET" => s.mute # "DISABLED" /\ w.op # "DISABLE"
    /\ kind = "AICS" /\ w.op = "SET" => ~s.auto /\ w.level \in MinGain .. MaxGain

Serve(m) ==
    /\ out[m] # <<>>
    /\ out' = [out EXCEPT ![m] = Tail(@)]
    /\ LET s == srv[m]
           t == Asked(s, Head(out[m]))
       IN  IF Accepts(s, Head(out[m])) /\ t # s
           THEN /\ srv' = [srv EXCEPT ![m] = Counted(t)]
                /\ notes' = [notes EXCEPT ![m] = Append(@, Counted(t))]
           ELSE UNCHANGED <<srv, notes>>
    /\ UNCHANGED <<kind, modes, copy, waiting, up, loose, used>>

\* The user of a member changes its level and its mute state; of an audio
\* input one at a time of level, mute state and gain mode.
UserLevels == IF kind = "VCS" THEN Volumes ELSE IF kind = "AICS" THEN Gains ELSE {0}
UserMutes  == IF modes THEN Mutes ELSE HostMutes
UserModes  == IF modes /\ kind = "AICS" THEN BOOLEAN ELSE {FALSE}

UserChange(m, v, mute, auto) ==
    /\ Spend(1, {})
    /\ \/ /\ srv[m].auto = auto /\ Setting(srv[m]) # [level |-> v, mute |-> mute]
          /\ kind = "AICS" => srv[m].level = v \/ srv[m].mute = mute
       \/ srv[m].auto # auto /\ Setting(srv[m]) = [level |-> v, mute |-> mute]
    /\ LET t == Counted([srv[m] EXCEPT !.level = v, !.mute = mute, !.auto = auto])
       IN  /\ srv' = [srv EXCEPT ![m] = t]
           /\ notes' = IF m \in up THEN [notes EXCEPT ![m] = Append(@, t)] ELSE notes
    /\ UNCHANGED <<kind, modes, copy, waiting, out, up, loose>>

----------------------------------------------------------------------------
(* A notification.  It is copied into the control block of the member, its  *)
(* waiting flag is cleared, and the other members are synchronised.         *)
Handled(m, req) ==
    /\ notes[m] # <<>>
    /\ copy' = [copy EXCEPT ![m] = Head(notes[m])]
    /\ \E failed \in SUBSET up :
        /\ Spend(0, failed)
        /\ Send([o \in Members |-> IF o \in up \ {m} THEN req[o] ELSE NoWrite], failed,
                [waiting EXCEPT ![m] = FALSE])
        /\ loose' = (failed # {})
    /\ notes' = [notes EXCEPT ![m] = Tail(@)]
    /\ UNCHANGED <<kind, modes, srv, up>>

\* lepl_vcs_handle_received_characteristics_value and
\* lepl_cap_handle_vcs_notification.
VcsNotified(m) ==
    /\ kind = "VCS"
    /\ Handled(m, [o \in Members |-> SyncVolumeState(copy[o], waiting[o], Head(notes[m]))])

\* lepl_mics_handle_received_characteristics_value and
\* lepl_cap_handle_mics_notification.
MicsNotified(m) ==
    /\ kind = "MICS"
    /\ Handled(m, [o \in Members |-> SyncMicsMuteState(copy[o], waiting[o], Head(notes[m]))])

\* aics_read_rsp_notification_handler and
\* lepl_cap_handle_mics_aics_notification.
AicsNotified(m) ==
    /\ kind = "AICS"
    /\ Handled(m, [o \in Members |-> SyncAicsInputState(copy[o], waiting[o], Head(notes[m]))])

Notified(m) == VcsNotified(m) \/ MicsNotified(m) \/ AicsNotified(m)

\* The link of a member is lost; its control block is freed.
Lost(m) ==
    /\ m \in up
    /\ MayFail
    /\ used' = [used EXCEPT !.losses = @ + 1]
    /\ up' = up \ {m}
    /\ waiting' = [waiting EXCEPT ![m] = FALSE]
    /\ out' = [out EXCEPT ![m] = <<>>]
    /\ notes' = [notes EXCEPT ![m] = <<>>]
    /\ UNCHANGED <<kind, modes, srv, copy, loose>>

\* It comes back: its values are read into a new control block.  A read is
\* no notification, so nothing is synchronised.
Back(m) ==
    /\ m \notin up
    /\ up' = up \union {m}
    /\ copy' = [copy EXCEPT ![m] = srv[m]]
    /\ loose' = TRUE
    /\ UNCHANGED <<kind, modes, srv, waiting, out, notes, used>>

Next ==
    \/ \E op \in VolumeOps, v \in Volumes \union {0} : VcsSetVol(op, v)
    \/ \E op \in GainOps, v \in Gains \union {0} : MicsAicsSetGain(op, v)
    \/ \E mute \in HostMutes : VcsSetMute(mute) \/ MicsMute(mute) \/ MicsAicsMute(mute)
    \/ \E m \in Members :
        \/ Serve(m)
        \/ \E v \in UserLevels, mute \in UserMutes, auto \in UserModes :
              UserChange(m, v, mute, auto)
        \/ Notified(m)
        \/ Lost(m)
        \/ Back(m)

\* Writes and notifications on a link are delivered as long as it is there.
Fairness == \A m \in Members : WF_vars(Serve(m)) /\ WF_vars(Notified(m))

Spec     == Init /\ [][Next]_vars
FairSpec == Spec /\ Fairness

----------------------------------------------------------------------------
Quiet == \A m \in up : out[m] = <<>> /\ notes[m] = <<>>

\* A member that may answer a write without a notification: a microphone, an
\* input whose gain is automatic or whose mute is disabled, and a muted input
\* beside one whose mute can be disabled.
Silent(m) ==
    \/ kind = "MICS"
    \/ kind = "AICS" /\ modes /\ (srv[m].auto \/ srv[m].mute # "NOT_MUTED")

(* A member that the synchronisation waits for will answer: while its       *)
(* waiting flag is set, a write or a notification of it is under way, so no *)
(* member is left out of the synchronisation for good (the flag is cleared  *)
(* by a notification only, lepl_cap.c:117, 235).  The members for which the *)
(* code does leave the flag set are excepted: a microphone, as a write of   *)
(* the value it has is not notified; an audio input that refuses the write  *)
(* because of its mute or gain mode, at which lepl_micp.c:54 and 99 do not  *)
(* look; and a muted input next to one whose mute is disabled (2), which    *)
(* lepl_cap.c:220 takes for another state and lepl_micp.c:48 for a mute.    *)
WaitingAnswered ==
    \A m \in Members : waiting[m] /\ ~Silent(m) => out[m] # <<>> \/ notes[m] # <<>>

(* The members of a set that exchange nothing have the same setting, unless *)
(* since the last notification one of them has come back or could not be    *)
(* written to.                                                              *)
MembersAgree ==
    Quiet /\ ~loose => \A m, n \in up : Setting(srv[m]) = Setting(srv[n])

(* The synchronisation comes to rest: members do not answer each other's    *)
(* changes for ever once the host and the users leave the set alone.        *)
Settles == <>[]Quiet

(* The synchronisation of the volume implements the abstract promise: a     *)
(* member's setting moves only through its user or within an exchange, and  *)
(* an exchange ends only in agreement, unless a write that belongs to it    *)
(* was refused by the stack, which the next one makes good.  (MICS and AICS *)
(* do not implement it.  A set with them is always "loose".)                *)
Promise == INSTANCE SharedControl WITH
    Settings <- [level : Levels, mute : Mutes],
    setting  <- [m \in Members |-> Setting(srv[m])],
    present  <- up,
    busy     <- ~Quiet,
    loose    <- loose \/ kind # "VCS",
    failures <- used.refused

ImplementsPromise == Promise!Spec
=============================================================================
