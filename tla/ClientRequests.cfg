SPECIFICATION FairSpec
CONSTANTS
    r1 = r1
    r2 = r2
    r3 = r3
    NoRequest = NoRequest
    Requests <- ThreeRequests
    Chunked <- OneChunked
    Careful = TRUE
    ServerCloses = FALSE
INVARIANTS
    TypeOK
    SenderIsServed
    SendLeavesNothing
    NoFault
PROPERTY SendEnds
CHECK_DEADLOCK FALSE
