SPECIFICATION FairSpec
CONSTANTS
    m1 = m1
    m2 = m2
    w1 = w1
    w2 = w2
    Msgs = {m1, m2}
    Cancellable = {m1}
    Workers = {w1}
    MaxAttempts = 2
    Backoff <- MCBackoff
    Horizon = 1
    MaxFaults = 1
    MaxCrashes = 1
INVARIANTS
    TypeOK
    SentWasAccepted
    SendBudget
    AuditTrail
PROPERTIES
    QueueDrains
    SentIsFinal
    KeepsPromise
