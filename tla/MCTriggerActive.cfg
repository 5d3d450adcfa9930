SPECIFICATION NodeFairSpec
CONSTANTS
    r1 = r1
    r2 = r2
    r3 = r3
    e1 = e1
    u1 = u1
    u2 = u2
    NoUrl = NoUrl
    EmptyUrl = EmptyUrl
    Requests = {r1, r2, r3}
    Existing = {}
    Urls = {u1, EmptyUrl}
    Nodes = {u1}
    Wanted <- MCWanted
    PoolSize = 1
    MaxFaults = 1
CHECK_DEADLOCK FALSE
INVARIANTS
    TypeOK
    PoolExact
    ActiveIsRegistered
    AnswersTrue
PROPERTY Answered
