SPECIFICATION FairSpec
CONSTANTS
    Requests = {r1, r2}
    MaxChunks = 3
INVARIANTS
    TypeOK
    TimerGuardsReply
    StreamFaithful
    EndMeansWhole
PROPERTIES
    ReplyEndsOnce
    ContractSpec
    EveryRequestReleased
CHECK_DEADLOCK FALSE
