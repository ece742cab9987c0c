SPECIFICATION Spec
CONSTANTS
    MaxStarts = 2
    StopsRunning = FALSE
INVARIANT StopReleasesPort
CHECK_DEADLOCK FALSE
