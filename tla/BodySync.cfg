SPECIFICATION FairSpec
CONSTANTS
    Block <- MCBlock
    Genesis = "g"
    prev <- MCPrev
    height <- MCHeight
    work <- MCWork
    hashKey <- MCHashKey
    Anc <- MCAnc
    BadBody = {}
    Peer = {"f", "r"}
    NoPeer = "none"
    PeerOrder <- MCOrder
    Claim <- MCClaim
    Serves <- MCServes
    Stored = {"g", "a1"}
    Heads = {"b2"}
    Reliable = {"r"}
    Window = 2
    PerPeer = 1
    ReadyAhead = 2
    WantedMax = 2
    CatchUpMax = 1
    Attempts = 2
    HolParallel = 2
    ForkMax = 2
    ForkInflight = 1
    ForkAttempts = 2
    MissLimit = 2
    MaxSuppliers = 2
    SinkCap = 2
    MaxUpsets = 1
INVARIANT WindowSound
PROPERTIES QuietOnlyWhenSynced Converges
