SPECIFICATION GroupFairSpec
CONSTANTS
    n1 = n1
    n2 = n2
    n3 = n3
    e1 = e1
    e2 = e2
    None = None
    Node = {n1, n2}
    Entry = {e1}
    Count = 2
    Page = 1
    MaxStarts = 2
    GroupEnvironments = {{"crash"}, {"grace", "redis"}, {"pause"}}
INVARIANTS GroupTypeOK NothingLost
PROPERTIES ReadersStay GoneIsRemoved
CHECK_DEADLOCK FALSE
