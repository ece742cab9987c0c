SPECIFICATION Spec
CONSTANTS
    KeyOrder <- Keys
    IntMax = 21
    OwnQueries <- Own_
    ForeignQueries <- NoneForeign
    ParamLists <- Lists
    HeaderLists <- Names
    BadName = "bad"
    Lower <- Lowered
    UrlMax = 12
    MaxCalls = 2
INVARIANT PushedParamsArrive
CHECK_DEADLOCK FALSE
