SPECIFICATION FairSpec
CONSTANTS
    NULL = NULL
    snkL = snkL
    snkR = snkR
    mic = mic
    Devices = {1}
    Ase = {snkL, snkR, mic}
    Owner <- HeadsetOwner
    Snk <- HeadsetSnk
    Src <- HeadsetSrc
    Left = {1}
    GameCtx = {1}
    ConvCtx = {1}
    RingCtx = {}
    Csis = FALSE
    Inband = FALSE
    Cmds = {"play", "pause", "mic", "micStop", "bidir", "bidirStop", "ring",
            "endCall", "broadcast", "broadcastStop", "peerPlay", "peerPause",
            "accept", "terminate", "hold", "retrieve", "join",
            "remoteHold", "remoteRetrieve"}
    MaxCmds = 9
    MaxFaults = 0
    FaultKinds = {}
    Manners = {"wait", "once", "answered"}
    Stereo = {TRUE}
    Caching = {}
INVARIANTS
    SettledConsistent
PROPERTIES
    TransitEnds
    MediaResumes
CHECK_DEADLOCK FALSE
