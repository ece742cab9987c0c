SPECIFICATION Spec
CONSTANTS
    home = home
    user = user
    get = get
    post = post
    c1 = c1
    c2 = c2
    Server = Server
    Controllers = {c1, c2}
    Paths = {home, user}
    Methods = {get, post}
    Patterns <- LiteralAndAny
    BadPattern = BadPattern
    NoRequest = NoRequest
    MaxObjects = 3
    MaxCalls = 3
SYMMETRY Symmetry
INVARIANTS
    TypeOK
    HandlerBehindChain
    Onion
    FirstMatch
    NotFoundMeansNone
CHECK_DEADLOCK FALSE
