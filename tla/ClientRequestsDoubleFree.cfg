SPECIFICATION Spec
CONSTANTS
    r1 = r1
    r2 = r2
    r3 = r3
    NoRequest = NoRequest
    Requests <- TwoRequests
    Chunked <- OneChunked
    Careful = TRUE
    ServerCloses = TRUE
INVARIANT NoDoubleFree
CHECK_DEADLOCK FALSE
