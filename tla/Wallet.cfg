SPECIFICATION Spec
CONSTANTS
    GenesisPeriod = 2
    StakeRequirement = 2
    StakePeriod = 2
    Issued <- MCIssued
    Payments <- MCPayments
    Deposits <- MCDeposits
    Receipts <- MCReceipts
    MaxMade = 2
    MaxUnwound = 1
    MaxId = 5
INVARIANTS
    BalanceIsUnspent
    WalletTracksChain
    StakeAccepted
    PaymentAccepted
    PaymentOutlivesRebroadcast
    NoSlipPromisedTwice
    StakeLeavesPayments
CHECK_DEADLOCK FALSE
