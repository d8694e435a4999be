SPECIFICATION FairSpec
CONSTANTS
    w1 = w1
    w2 = w2
    w3 = w3
    j1 = j1
    j2 = j2
    Worker = {w1, w2, w3}
    Job = {j1, j2}
    Openable = {j1}
    DevMode = FALSE
    MaxConn = 2
    Copies = 3
    Environments = {{"break", "stall", "hang"}, {"boot", "plain"}, {"boot", "stop"},
                    {"break", "fetch", "open", "short", "lp", "unlink"}}
INVARIANTS TypeOK NoResidue DeliveredIsWiped
PROPERTY EndIsReported
CHECK_DEADLOCK FALSE
