SPECIFICATION FairSpec
CONSTANTS
    Peers = {1, 2}
    Hashes <- MCHashes
    Headers <- TrueHeaders
    IdOf <- MCIdOf
    Parent <- MCParent
    Genesis = 0
    BadBlocks = {}
    NoUrl = {}
    OldVersion = {}
    BatchSize = 1
    MaxRetries = 2
    InvalidLimit = 1
    LowestAcceptable = 1
    MaxAnnounce = 2
    MaxRepeat = 0
    MaxFail = 1
    MaxRemove = 0
PROPERTY
    AnnouncedJoins
