SPECIFICATION Spec
CONSTANTS
    r1 = r1
    r2 = r2
    r3 = r3
    NoRequest = NoRequest
    Requests <- ThreeRequests
    Chunked <- OneChunked
    Careful = FALSE
    ServerCloses = TRUE
INVARIANTS
    Ownership
    ExitMeansComplete
PROPERTIES
    UndeliveredHasCause
    StuckForGood
    ContractSpec
CHECK_DEADLOCK FALSE
