SPECIFICATION Spec
CONSTANTS
    earL = earL
    earR = earR
    headset = headset
    Devices = {earL, earR, headset}
    NoDev = NoDev
    Sirk <- MCSirk
    NvSlots = 3
    MaxLinks = 2
    MaxCmd = 1
    MaxConnect = 2
    MaxLoss = 2
    MaxUnbond = 1
    MaxRestart = 1
    MaxFaults = 2
SYMMETRY Earbuds
CHECK_DEADLOCK FALSE
INVARIANTS
    TypeOK
    ActivityBacked
    MembersOnRecord
    NoStaleClose
    BondsSafe
