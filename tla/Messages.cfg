SPECIFICATION Spec
CONSTANTS
    KeyOrder <- Keys
    IntMax = 21
    OwnQueries <- Own_
    ForeignQueries <- Foreign
    ParamLists <- Lists
    HeaderLists <- Names
    BadName = "bad"
    Lower <- Lowered
    UrlMax = 12
    MaxCalls = 4
INVARIANTS
    TypeOK
    ParamsArrive
    FormsParsed
    IntsRead
    HeadersArrive
    DefaultsLast
    FullUrlIsSent
    LongUrlsAreRefused
CHECK_DEADLOCK FALSE
