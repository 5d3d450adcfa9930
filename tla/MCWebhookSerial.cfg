SPECIFICATION Spec
CONSTANTS
    h1 = h1
    h2 = h2
    m1 = m1
    w1 = w1
    w2 = w2
    Webhooks = {h1, h2}
    Messages = {m1}
    Workers = {w1}
    MaxRetries = 2
    RetryDelays <- MCDelays
    Horizon = 2
    MaxFaults = 1
    MaxCrashes = 1
CHECK_DEADLOCK FALSE
SYMMETRY MCSymmetry
INVARIANTS
    TypeOK
    SuccessWasReceived
    PostBudget
PROPERTY KeepsPromise
