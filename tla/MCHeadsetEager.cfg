SPECIFICATION Spec
CONSTANTS
    NULL = NULL
    snkL = snkL
    snkR = snkR
    mic = mic
    Devices = {1}
    Ase = {snkL, snkR, mic}
    Owner <- HeadsetOwner
    Snk <- HeadsetSnk
    Src <- HeadsetSrc
    Left = {1}
    GameCtx = {1}
    ConvCtx = {1}
    RingCtx = {}
    Csis = FALSE
    Inband = FALSE
    Cmds = {"play", "pause", "mic", "micStop", "bidir", "bidirStop", "ring",
            "endCall", "disconnect", "broadcast", "broadcastStop", "peerPlay",
            "peerPause", "accept", "terminate", "originate", "hold",
            "retrieve", "join", "remoteHold", "remoteRetrieve"}
    MaxCmds = 2
    MaxFaults = 1
    FaultKinds = {"reject", "disable", "path", "loss"}
    Manners = {}
    Stereo = {TRUE, FALSE}
    Caching = {1}
INVARIANTS
    TypeOK
    ModeTracksFinal
    MediaModePlays
PROPERTIES
    PriorityRespected
    ImplementsModes
CHECK_DEADLOCK FALSE
