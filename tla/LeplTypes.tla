----------------------------- MODULE LeplTypes -----------------------------
(* The vocabulary of the player: the enumerations of lepl.h and             *)
(* ga_lib_ascs.h, the connected devices with their audio stream endpoints   *)
(* (ASEs), and the parts of a stream configuration that the control flow    *)
(* depends on.                                                              *)
EXTENDS Integers, Sequences

\* LEPL_MAX_CONNECTIONS control blocks, named by their index.
Conn == 1..2

\* lepl_audio_mode_t: its numeric order is the priority of the modes.
NONE       == 0
BROADCAST  == 1
MEDIA      == 2
MIC        == 3
BIDIRMIC   == 4
CALL       == 5
IN_TRANSIT == 6
Modes      == 0..6
FinalModes == Modes \ {IN_TRANSIT}

\* ga_lib_ascs_state_t: lepl_create_cis compares these as numbers.
IDLE             == 0
CODEC_CONFIGURED == 1
QOS_CONFIGURED   == 2
ENABLING         == 3
STREAMING        == 4
DISABLING        == 5
RELEASING        == 6
AseStates        == 0..6

\* The ASE control point operations that the player writes.
CpOps == {"CONFIG_CODEC", "CONFIG_QOS", "ENABLE", "RELEASE",
          "RECEIVER_STOP_READY"}

\* The BAP context types a stream configuration may carry; "ZERO" is the
\* context of a configuration that was never given one.
Contexts == {"ZERO", "MEDIA", "RINGTONE", "CONVERSATIONAL", "GAME",
             "VOICE_ASSISTANTS", "UNSPECIFIED"}

MediaStates == {"INACTIVE", "PLAYING", "PAUSED"}

\* lepl_ccs_states_t
CcsStates == {"IDLE", "INBAND_RINGTONE", "INBAND_RINGTONE_CONVO", "CONVO"}

\* The one call slot (LEPL_TBS_BEARER_MAX_CALL_COUNT is 1); "FREE" is a slot
\* that is not in use, "BOTH_HELD" a call held locally and remotely.  Nothing
\* sets ALERTING.
CallStates == {"FREE", "INCOMING", "DIALING", "ACTIVE", "LOCALLY_HELD",
               "REMOTELY_HELD", "BOTH_HELD"}

\* lepl_unicast_stream_config_t: the context, whether a device that plays
\* alone gets one stream per channel ((channel_count & 3) != 2), and num_cis.
Cises   == 1..2
CisNums == {0} \cup Cises
Cfg     == [ctx : Contexts, two : BOOLEAN, cis : CisNums]

\* A zeroed configuration (channel_count 0 asks for two streams).
ZeroCfg == [ctx |-> "ZERO", two |-> TRUE, cis |-> 0]

\* p_lepl_ase_list has MAX_CIS_CONN * 2 slots.
Slots == 1..4

CONSTANTS
    NULL,       \* an empty slot of the list
    Devices,    \* the control blocks that are connected at the start
    Ase,        \* the ASEs of the devices
    Owner,      \* Owner[a]: the connection of the device that has ASE a
    Snk, Src,   \* Snk[c], Src[c]: its sink and source ASEs, in index order
    Left,       \* devices whose sink location includes FRONT_LEFT
    GameCtx,    \* devices with the GAME context available in both directions
    ConvCtx,    \* the same for CONVERSATIONAL
    RingCtx,    \* devices with the RINGTONE context available
    Csis,       \* TRUE: the devices are one coordinated set of size 2
    Inband      \* TRUE: built with INBAND_RINGTONE_ENABLED

\* Every device is a sink; a sink without a microphone has no source ASE.
ASSUME DeviceAssumption ==
    /\ NULL \notin Ase
    /\ Devices \subseteq Conn
    /\ Owner \in [Ase -> Conn]
    /\ Snk \in [Conn -> Seq(Ase)]
    /\ Src \in [Conn -> Seq(Ase)]
    /\ \A c \in Devices : Len(Snk[c]) > 0
    /\ \A c \in Conn : /\ \A i \in DOMAIN Snk[c] : Owner[Snk[c][i]] = c
                       /\ \A i \in DOMAIN Src[c] : Owner[Src[c][i]] = c
    /\ Left \subseteq Conn /\ GameCtx \subseteq Conn
    /\ ConvCtx \subseteq Conn /\ RingCtx \subseteq Conn
    /\ Csis \in BOOLEAN /\ Inband \in BOOLEAN

\* ase_type == GA_LIB_ASCS_CHARACTERISTIC_SRC_ASE
IsSrc(a) == \E i \in DOMAIN Src[Owner[a]] : Src[Owner[a]][i] = a
=============================================================================
