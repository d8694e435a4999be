CONSTANTS
    r1 = r1
    r2 = r2
    s1 = s1
    s2 = s2
    p1 = p1
    p2 = p2
    Request = {r1}
    Stream = {s1, s2}
    Printer = {p1}
    MaxBack = 30
    Attempts = {0, 3, 6, 9, 12, 15, 18, 21, 24, 27, 30, 33, 36, 39, 42, 45, 48, 51, 54, 57, 60, 63}
    MaxDial = 2
    MaxFail = 2
    Environments = {{"redial"}, {"outage"}, {"deadline", "wedge", "redial"}, {"deadline", "wedge", "kill"}}
SPECIFICATION FairSpec
CHECK_DEADLOCK FALSE
INVARIANTS TypeOK NothingCut BackoffHolds
PROPERTIES Stops PrintersRehome
