SPECIFICATION FairSpec
CONSTANTS
    NULL = NULL
    snk1 = snk1
    src1 = src1
    snk2 = snk2
    src2 = src2
    Devices = {1, 2}
    Ase = {snk1, src1, snk2, src2}
    Owner <- EarbudOwner
    Snk <- EarbudSnk
    Src <- EarbudSrc
    Left = {1}
    GameCtx = {1, 2}
    ConvCtx = {1, 2}
    RingCtx = {1, 2}
    Csis = TRUE
    Inband = TRUE
    Cmds = {"play", "pause", "mic", "micStop", "bidir", "bidirStop", "ring",
            "endCall", "broadcast", "broadcastStop", "peerPlay", "peerPause",
            "accept", "terminate", "hold", "retrieve", "join",
            "remoteHold", "remoteRetrieve"}
    MaxCmds = 5
    MaxFaults = 0
    FaultKinds = {}
    Manners = {"wait", "once", "answered"}
    Stereo = {FALSE}
    Caching = {1, 2}
INVARIANTS
    SettledConsistent
PROPERTIES
    TransitEnds
CHECK_DEADLOCK FALSE
