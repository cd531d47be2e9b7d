SPECIFICATION Spec
CONSTANTS
    Prompt = {2}
    Others = {1}
    Group <- MCGroup
    Target = 1
    ClaimMax = 2
    StageMax = 1
    ClaimAttempts = 1
    Budget = 1
    ConfirmAudits = 2
    PullPeers = 1
    FlapLimit = 1
    MaxTrouble = 1
CHECK_DEADLOCK FALSE
 
PROPERTIES CatchesUp RecoveryEnds
