SPECIFICATION Spec
CONSTANTS
    Block <- MCBlock
    Genesis = "g"
    prev <- MCPrev
    height <- MCHeight
    work <- MCWork
    hashKey <- MCHashKey
    Anc <- MCAnc
    BadBody = {}
    size <- MCSize
    None = "none"
    StoreReorgCap = 2
    UndoRing = 2
    TailLoss = FALSE
    MaxCrashes = 1
CHECK_DEADLOCK FALSE
INVARIANT BodiesMatch
