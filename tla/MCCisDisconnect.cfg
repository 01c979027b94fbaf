SPECIFICATION Spec
CONSTANTS
    Cises = {1, 2}
    Ases <- MCAses
    Uses <- MCUses
    MaxSessions = 1
    MaxFaults = 1
INVARIANTS
    DisconnectCompletes
CHECK_DEADLOCK FALSE
