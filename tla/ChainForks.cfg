SPECIFICATION Spec
CONSTANTS
    NoBlock <- None
    Blocks <- ForkBlocks
    Id <- IdTable
    Prev <- ForkPrev
    BurnFee <- ForkFee
    HasTicket <- ForkBlocks
    Invalid <- ForkInvalid
    Keys <- ForkKeys
    Ins <- ForkIns
    Outs <- ForkOuts
    CheckpointKeys <- NoKeys
    GenesisPeriod = 4
    PruneAfter = 2
    StakerDepth = 2
    LoadingCompleted = TRUE
    TicketsNumerator = 2
    TicketsDenominator = 6
    FirstBlocks <- Root
    LateRoots = {}
INVARIANTS
    RingMatchesFlags
    LongestChainLinked
    LastBlockIsLatest
PROPERTIES
    ImplementsForkChoice
