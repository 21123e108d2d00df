SPECIFICATION Spec
CONSTANTS
    Txs = {"t1", "t2"}
    Keys = {"k1", "k2"}
    Amount <- MCAmount
    Ins <- MCIns
    Work <- MCWork
    Expiry <- MCExpiry
    WorkNeeded = {0, 2}
    MaxBlocks = 3
    MaxTickets = 1
INVARIANTS
    MempoolSpendable
    NoKeySpentTwice
CHECK_DEADLOCK FALSE
