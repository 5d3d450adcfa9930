SPECIFICATION NodeSpec
CONSTANTS
    r1 = r1
    r2 = r2
    r3 = r3
    e1 = e1
    u1 = u1
    u2 = u2
    NoUrl = NoUrl
    EmptyUrl = EmptyUrl
    Requests = {r1, r2, r3}
    Existing = {e1}
    Urls = {u1, u2, EmptyUrl}
    Nodes = {u1}
    Wanted <- MCWanted
    PoolSize = 2
    MaxFaults = 1
SYMMETRY MCSymmetry
CHECK_DEADLOCK FALSE
INVARIANT CleanedUp
