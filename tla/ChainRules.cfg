SPECIFICATION Spec
CONSTANTS
    Block <- MCBlock
    Genesis = "g"
    prev <- MCPrev
    height <- MCHeight
    work <- MCWork
    hashKey <- MCHashKey
    Anc <- MCAnc
    NoAnchor = "none"
    BadBody = {"b2"}
    MaxReorgDepth = 2
    StoreReorgCap = 1
    UndoRing = 1
    WantedCap = 1
    MaxSide = 3
    SideRowsCap = 2
    Signed = {"a1"}
    Garbled = {"a1"}
    Faults = {"commit", "invalid", "side"}
    MaxRestarts = 1
CHECK_DEADLOCK FALSE
INVARIANTS CheckpointsKept StoreAgrees AdoptedAreValid InvalidInherited
PROPERTIES TipOnlyImproves UsesStore
