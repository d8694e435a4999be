CONSTANTS
    j1 = j1
    j2 = j2
    j3 = j3
    Job = {j1, j2, j3}
    PerPage = 1
    TTL = 2
    MaxRows <- RowsByPage
    MaxMoves <- MovesByPage
    MaxLoads <- LoadsByPage
    MaxDay = 1
    MaxClock = 4
    Environments = {{"db"}, {"expire"}, {"twice"}, {"reorder", "redis", "slow"}, {"expire", "week", "sender"}}
SPECIFICATION Spec
CHECK_DEADLOCK FALSE
SYMMETRY Symmetry
INVARIANTS TypeOK NothingMissed ShowsWhatIsAsked OfflineIsSilent
