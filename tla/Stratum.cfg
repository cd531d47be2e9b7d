SPECIFICATION Spec
CONSTANTS
    Nonce = {1, 2}
    Low = {1}
    Solves = {2}
    JobSlots = 2
    DedupMax = 2
    QueueCap = 1
    ResultDepth = 4
    MaxTip = 2
    MaxPush = 1
    MaxSeq = 2
    MaxLife = 1
    Conn = {"c", "d"}
    Ip = {"x", "y"}
    Slices = 2
    TableCap = 1
    MaxConns = 2
    MaxPerIp = 1
    PerMin = 1
    Burst = 1
    Threshold = 2
    SoftCap = 1
    Base = 1
    Ladder = 2
    MaxBan = 2
    MaxPoints = 2
    Throttle = 1
    Minute = 2
    Points <- MCPoints
    MaxTime = 3
    Session = {"p", "q"}
    MaxDiff = 2
    MinDiff = 1
    StartDiff = 1
    CfgMax = 0
    MaxStep = 2
    GateShares = 1
    MinShares = 2
    StormPerMin = 1
    StormWindow = 1
    Ttl = 1
    MaxMinutes = 2
CHECK_DEADLOCK FALSE
INVARIANTS AdmissionSound CreditedOnce GateSound CacheEarned
PROPERTIES NewTipReachesMiner BanOutlivesChurn
