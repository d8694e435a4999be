SPECIFICATION FairSpec
CONSTANTS
    v1 = v1
    v2 = v2
    Viewer = {v1, v2}
    Credential <- BothOwner
    Guest = FALSE
    Environments = {{"drain"}}
    MaxReopen = 1
    MaxFrames = 2
PROPERTY ToldOfTheEnd
CHECK_DEADLOCK FALSE
