SPECIFICATION Spec
CONSTANTS
    MaxStarts = 1
    StopsRunning = TRUE
INVARIANT StopIsSafe
CHECK_DEADLOCK FALSE
