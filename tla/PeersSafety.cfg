SPECIFICATION Spec
CONSTANTS
    ha = ha
    hb = hb
    hc = hc
    ka = ka
    Keys = {ha, hb, hc, ka}
    Holder <- KeyHolders
    NoHost = NoHost
    Hosts = {ha, hb, hc}
    PeerConfigs <- ConfiguredA
    Incompatible = {hc}
    StunKeys = {ha}
    MaxIndex = 2
    MaxConns = 3
    MaxRequests = 1
    MaxChallenge = 8
INVARIANTS AddressResolves OneEntryPerConfig IndexKeepsHost DeathNoticed NothingLeaks
PROPERTIES LiveStays MutualHandshake
