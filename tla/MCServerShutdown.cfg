SPECIFICATION ServerSpec
CONSTANTS
    m1 = m1
    w1 = w1
    term = term
    int = int
    Msgs = {m1}
    Cancellable = {}
    Workers = {w1}
    Signals = {term, int}
    Killable = FALSE
    MaxAttempts = 2
    Backoff <- MCBackoff
    Horizon = 1
    MaxFaults = 0
    MaxCrashes = 1
INVARIANT
    NoneLostByShutdown
