SPECIFICATION FairSpec
CONSTANTS
    NULL = NULL
    snk1 = snk1
    src1 = src1
    snk2 = snk2
    src2 = src2
    Devices = {1, 2}
    Ase = {snk1, src1, snk2, src2}
    Owner <- EarbudOwner
    Snk <- EarbudSnk
    Src <- EarbudSrc
    Left = {1}
    GameCtx = {1, 2}
    ConvCtx = {1, 2}
    RingCtx = {}
    Csis = TRUE
    Inband = FALSE
    Cmds = {"play", "pause"}
    MaxCmds = 4
    MaxFaults = 1
    FaultKinds = {"loss"}
    Manners = {"wait", "once", "answered"}
    Stereo = {FALSE}
    Caching = {1, 2}
INVARIANTS
    ListedConnected
PROPERTIES
    ListedStream
CHECK_DEADLOCK FALSE
