SPECIFICATION Spec
CONSTANTS
    r1 = r1
    r2 = r2
    r3 = r3
    NoRequest = NoRequest
    Requests <- TwoRequests
    Chunked <- OneChunked
    Careful = TRUE
    ServerCloses = FALSE
INVARIANT SendDelivers
CHECK_DEADLOCK FALSE
