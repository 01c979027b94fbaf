SPECIFICATION FairSpec
CONSTANTS
    earL = earL
    earR = earR
    Members = {earL, earR}
    Kinds = {"VCS", "MICS", "AICS"}
    Volumes = {0, 200}
    Gains <- MCGains
    Step = 128
    Unit = 127
    MinGain <- MCMinGain
    MaxGain = 127
    MaxCounter = 4
    FirstCounter = 3
    MaxChanges = 3
    MaxFaults = 1
INVARIANTS TypeOK WaitingAnswered
PROPERTIES Settles ImplementsPromise
CHECK_DEADLOCK FALSE
