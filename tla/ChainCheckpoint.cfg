SPECIFICATION FairSpec
CONSTANTS
    NoBlock <- None
    Blocks <- CheckpointBlocks
    Id <- IdTable
    Prev <- ForkPrev
    BurnFee <- FeeOne
    HasTicket <- CheckpointBlocks
    Invalid <- CheckpointInvalid
    Keys <- ForkKeys
    Ins <- ForkIns
    Outs <- ForkOuts
    CheckpointKeys <- CheckpointFiles
    GenesisPeriod = 4
    PruneAfter = 2
    StakerDepth = 2
    LoadingCompleted = FALSE
    TicketsNumerator = 2
    TicketsDenominator = 6
    FirstBlocks <- CheckpointBlocks
    LateRoots = {}
PROPERTIES
    
    ReturnsUnlessLaterInvalid
CHECK_DEADLOCK FALSE
