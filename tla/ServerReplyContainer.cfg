SPECIFICATION Spec
CONSTANTS
    Requests = {r1}
    MaxChunks = 1
INVARIANT CompletionTargetAlive
CHECK_DEADLOCK FALSE
