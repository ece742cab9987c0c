SPECIFICATION Spec
CONSTANTS
    MaxStarts = 5
    StopsRunning = TRUE
INVARIANTS
    TypeOK
    FreesOnce
    StopLeavesNothing
CHECK_DEADLOCK FALSE
