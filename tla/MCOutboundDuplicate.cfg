SPECIFICATION Spec
CONSTANTS
    m1 = m1
    m2 = m2
    w1 = w1
    w2 = w2
    Msgs = {m1}
    Cancellable = {}
    Workers = {w1, w2}
    MaxAttempts = 2
    Backoff <- MCBackoff
    Horizon = 1
    MaxFaults = 0
    MaxCrashes = 0
INVARIANT
    NoDuplicateProcessing
