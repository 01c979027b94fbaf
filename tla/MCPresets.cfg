SPECIFICATION Spec
CONSTANTS
    MaxRecords = 3
    MaxIndex = 4
    MaxRequests = 3
    MaxChanges = 2
INVARIANTS TypeOK Sorted NoGhosts ReadCompletes
CHECK_DEADLOCK FALSE
