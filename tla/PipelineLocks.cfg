SPECIFICATION Spec
CONSTANTS
    Verifiers = 2
    ChannelSize = 3
    VerifySize = 3
    SafeBuffer = 1
    Near = 3
    Refused = {}
    MaxBlock = 1
    MaxTx = 4
    MaxRefetch = 0
INVARIANTS
    LocksNeverStuck
CHECK_DEADLOCK FALSE
