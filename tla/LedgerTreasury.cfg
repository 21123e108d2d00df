SPECIFICATION Spec
CONSTANTS
    GenesisPeriod = 2
    Heartbeat = 2
    DefaultBurnFee = 4
    NeverWork = 1000
    TxSize = 1
    Issuance <- NoHoard
    Payments <- MCPayments
    Tickets <- MCTickets
    Elapsed = {2, 4}
    Misreports = {}
    MaxId = 6
INVARIANT
    OwnBlockValid
CHECK_DEADLOCK FALSE
