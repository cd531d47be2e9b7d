SPECIFICATION NodeSpec
CONSTANTS
    Block <- MCBlock
    Genesis = "g"
    prev <- MCPrev
    height <- MCHeight
    work <- MCWork
    hashKey <- MCHashKey
    Anc <- MCAnc
    BadBody = {}
    Announces = {"a1", "b2", "b3"}
    size <- MCSize
    None = "none"
    StoreReorgCap = 2
    UndoRing = 2
    TailLoss = TRUE
    MaxCrashes = 2
    SinkReorgCap = 1
    MaxRestarts = 2
    TxId = {1, 2, 3, 4, 5}
    TxBody <- MCTxBody
    Sender = {1, 2}
    Funds <- MCFunds
    RelayFloor = 4
    PoolTxs = 3
    PoolBytes = 9
    SenderTxs = 3
    NonceGap = 2
    PoolTtl = 1
    ReinjectCap = 2
    TemplateTxs = 2
    TemplateBytes = 9
    MinedBlocks <- MCMinedBlocks
    Reward = 3
    Maturity = 2
    ReorgCap = 1
    ChainMax = 3
    BranchLead = 1
    PoolClock = 2
    Hdr = {"g", "a1", "a2", "b1", "b2", "x2"}
    head <- MCHdr
    PathTo <- MCPath
    Origin = {1, 2}
    StartTip = "a1"
    AnchorSpacing = 4
    IngestReorgMax = 2
    SignedAnchor = "none"
    NoSigned = "none"
    PinnedHeaders = {}
    StagedCap = 2
    SideCap = 3
    NegativeCap = 1
    ChildFailures = 1
    BatchDups = 1
    Batches <- MCBatches
    WallMax = 1
    Client = {1, 2, 3}
    RowCap = 2
    CallCost = 2
    OwnRule <- MCOwn
    SharedRule <- MCShared
    ReserveRule <- MCReserve
    CallsMax = 1
    Patience = 4
    MonoMax = 4
    SegLen = 3
    UndoKept = 3
    Retain = 2
    RollbackMax = 2
    Window = 3
    BlocksMax = 10
    ReorgsMax = 1
    OpensMax = 2
    FaultsMax = 1
    Downgrades = TRUE
CHECK_DEADLOCK FALSE
INVARIANTS BodiesSound HeadersMatch StateMatchesTip OpensAgain
INVARIANTS ReadsSound PoolSound IngestSound PatientServed ClassBound CareSound
PROPERTIES Implements PoolSteps SweepCovers
