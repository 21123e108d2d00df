SPECIFICATION FairSpec
CONSTANTS
    Verifiers = 2
    ChannelSize = 1
    VerifySize = 1
    SafeBuffer = 0
    Near = 3
    Refused = {3}
    MaxBlock = 3
    MaxTx = 1
    MaxRefetch = 1
INVARIANTS
    MinerOnTip
PROPERTIES
    StuckForever
    BlocksJoin
CHECK_DEADLOCK FALSE
