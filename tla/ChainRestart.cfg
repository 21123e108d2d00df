SPECIFICATION SpecRestart
CONSTANTS
    NoBlock <- None
    Blocks <- LongBlocks
    Id <- IdTable
    Prev <- LongPrev
    BurnFee <- LongFee
    HasTicket <- LongTickets
    Invalid <- LongInvalid
    Keys <- LongKeys
    Ins <- LongIns
    Outs <- LongOuts
    CheckpointKeys <- NoKeys
    GenesisPeriod = 2
    PruneAfter = 1
    StakerDepth = 2
    LoadingCompleted = FALSE
    TicketsNumerator = 2
    TicketsDenominator = 6
    FirstBlocks <- Root
    LateRoots = {}
    FileName <- LongNames
    MaxCrashes = 2
INVARIANTS
    UtxosetMatchesChain
    BlocksReadable
    WindowKept
PROPERTIES
    RestartKeepsChain
CHECK_DEADLOCK FALSE
