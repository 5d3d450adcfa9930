SPECIFICATION ApiFairSpec
CONSTANTS
    r1 = r1
    a1 = a1
    MaxReconnects = 2
    Requests = {r1}
    Logouts = {r1, a1}
    MaxPairings = 2
    MaxInitFailures = 1
CHECK_DEADLOCK FALSE
INVARIANTS
    TypeOK
    OneLiveClient
    ReconnectBudget
    ConnectedIsPaired
    PairedIsConnected
    NoCodeWhenPaired
    ChecksAgree
PROPERTIES
    Reconnects
    StaleCodeReplaced
    StopsWithRequests
