CONSTANTS
    Conns = {1, 2}
    Slots <- MCSlots
    Db <- MCDb
    NotifyTypes <- MCNotify
    ReadTypes <- MCRead
    Refusable = {"CCCD"}
    MaxRefused = 1
    MaxErrors = 1
    MaxOther = 1
    MaxCongestion = 1
    MaxLoss = 1
    MaxFaults = 2
SPECIFICATION Spec
INVARIANTS TypeOK HandlesComplete SubscribedBeforeRead ReadyAfterReads StallsKnown
CHECK_DEADLOCK FALSE
