SPECIFICATION FairSpec
CONSTANTS
    l1 = l1
    l2 = l2
    MaxReconnects = 2
    Logouts = {l1}
    MaxPairings = 1
    MaxInitFailures = 0
CHECK_DEADLOCK FALSE
PROPERTY
    QRAfterLogout
