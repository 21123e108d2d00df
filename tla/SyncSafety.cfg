SPECIFICATION Spec
CONSTANTS
    Peers = {1}
    Hashes <- MCHashes
    Headers <- MixedHeaders
    IdOf <- MCIdOf
    Parent <- MCParent
    Genesis = 0
    BadBlocks = {2}
    NoUrl = {}
    OldVersion = {}
    BatchSize = 2
    MaxRetries = 1
    InvalidLimit = 1
    LowestAcceptable = 1
    MaxAnnounce = 3
    MaxRepeat = 1
    MaxFail = 2
    MaxRemove = 1
INVARIANTS
    TypeOK
    QuotaRespected
    KnownBlockLeaves
PROPERTIES
    FetchedInOrder
    GivenUpStaysGivenUp
