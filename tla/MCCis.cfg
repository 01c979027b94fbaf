SPECIFICATION Spec
CONSTANTS
    Cises = {1, 2}
    Ases <- MCAses
    Uses <- MCUses
    MaxSessions = 2
    MaxFaults = 1
INVARIANTS
    TypeOK
    PathTracked
    TornDown
    Carried
    EngineMatchesRole
CHECK_DEADLOCK FALSE
