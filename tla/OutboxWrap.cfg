SPECIFICATION ConnSpec
CONSTANTS
    TxPeer = {1, 2}
    Tx = {"a", "b"}
    SeenMax = 1
    KnownMax = 1
    InflightMax = 1
    InflightPerPeer = 1
    QueueMax = 2
    PerInv = 1
    Addr = {1, 2, 3}
    AddrGroup <- MCAddrGroup
    Source = {1}
    NewMax = 1
    TriedMax = 1
    PerSource = 1
    DemoteAfter = 1
    DemoteAfterDeaths = 1
    PerGroup = 1
    MaxSample = 8
    Link = {1, 2}
    LinkIp <- MCLinkIp
    IpGroup <- MCIpGroup
    MaxInbound = 1
    MaxOutbound = 1
    InPerIp = 1
    InPerGroup = 2
    OutPerGroup = 2
    FdPeer = 2
    FdShake = 1
    FdDial = 2
    OutboxBytes = 4
    OutboxSoft = 3
    OutboxPool = 4
    OutboxItems = 1
    CtlBytes = 1
    BulkBytes = 2
    Wrap = 16
INVARIANTS PeersLockSound
CHECK_DEADLOCK FALSE
