SPECIFICATION Spec
CONSTANTS
    NULL = NULL
    snkL = snkL
    snkR = snkR
    mic = mic
    Devices = {1}
    Ase = {snkL, snkR, mic}
    Owner <- HeadsetOwner
    Snk <- HeadsetSnk
    Src <- HeadsetSrc
    Left = {1}
    GameCtx = {1}
    ConvCtx = {1}
    RingCtx = {}
    Csis = FALSE
    Inband = FALSE
    Cmds = {"play", "pause"}
    MaxCmds = 3
    MaxFaults = 0
    FaultKinds = {}
    Manners = {}
    Stereo = {FALSE}
    Caching = {1}
INVARIANTS
    MediaMeansStreaming
CHECK_DEADLOCK FALSE
