SPECIFICATION FairSpec
CONSTANTS
    n1 = n1
    n2 = n2
    j1 = j1
    j2 = j2
    Node = {n1, n2}
    Job = {j1, j2}
    MaxSlot = 1
    MaxConns = 2
    MaxWire = 2
    Environments = {{"link", "late"}, {"redis"}, {"crash", "restart"}}
INVARIANTS TypeOK LiveIsRegistered CacheNeverAhead
PROPERTIES KeepsTheChannel CacheConverges
CHECK_DEADLOCK FALSE
