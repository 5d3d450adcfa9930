SPECIFICATION ServerFairSpec
CONSTANTS
    m1 = m1
    w1 = w1
    term = term
    int = int
    Msgs = {m1}
    Cancellable = {m1}
    Workers = {w1}
    Signals = {term, int}
    Killable = TRUE
    MaxAttempts = 2
    Backoff <- MCBackoff
    Horizon = 1
    MaxFaults = 1
    MaxCrashes = 2
INVARIANTS
    HandlersHaveResources
    ExitBudget
PROPERTIES
    Stops
    SurvivesRestart
