SPECIFICATION Spec
CONSTANTS
    GenesisPeriod = 2
    Heartbeat = 2
    DefaultBurnFee = 4
    NeverWork = 1000
    TxSize = 1
    Issuance <- Hoard
    Payments <- MCPayments
    Tickets <- MCTickets
    Elapsed = {2, 4}
    Misreports = {"treasury", "graveyard", "previous_block_unpaid", "ATR", "Fee", "avg_total_fees", "avg_payout_mining"}
    MaxId = 6
INVARIANTS
    SupplyConserved
    OwnBlockValid
    FeesPaidOnce
    TipValidAgain

    
CHECK_DEADLOCK FALSE
