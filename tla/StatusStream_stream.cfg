SPECIFICATION FairSpec
CONSTANTS
    v1 = v1
    v2 = v2
    Viewer = {v1, v2}
    Credential <- OneStranger
    Guest = FALSE
    Environments = {{"lost", "gone", "redis", "db"}, {"drain", "gone", "lost", "twice"}}
    MaxReopen = 2
    MaxFrames = 4
INVARIANTS TypeOK NoGap
PROPERTIES NeverBack ToldIfUndisturbed
CHECK_DEADLOCK FALSE
