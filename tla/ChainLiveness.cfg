SPECIFICATION FairSpec
CONSTANTS
    Block <- MCBlock
    Genesis = "g"
    prev <- MCPrev
    height <- MCHeight
    work <- MCWork
    hashKey <- MCHashKey
    Anc <- MCAnc
    NoAnchor = "none"
    BadBody = {"b2"}
    MaxReorgDepth = 1
    StoreReorgCap = 1
    UndoRing = 2
    WantedCap = 1
    MaxSide = 6
    SideRowsCap = 6
    Signed = {}
    Garbled = {}
    Faults = {}
    MaxRestarts = 1
CHECK_DEADLOCK FALSE
INVARIANT ValidNeverPoisoned
PROPERTIES AdvanceReturns Converges
