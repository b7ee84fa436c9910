SPECIFICATION FairSpec
CONSTANTS
    X = X
    Y = Y
    None = None
    Peers <- TwoPeers
    PeerSets <- OneOrTwo
    Allowed = 1
    MaxCount = 2
    SeqIds = 2
    Window = 2
INVARIANTS
    CapableIsEarned
    OneExchange
PROPERTIES
    SilenceEndsCapability
