SPECIFICATION FairSpec
CONSTANTS
    s1 = s1
    s2 = s2
    m1 = m1
    m2 = m2
    Sources <- TwoSources
    Window = 4
    ReceiptTimeout = 3
    MaxEvents = 2
    Nobody = Nobody
    Masters <- TwoMasters
    Distance <- NearAndFar
    Setups <- ClientSetups
    FilterLength = 2
    SequenceIds = 3
    StaleAfter = 2
    Update = 2
    Subscription = 4
    AllowedLost = 1
    MaxRequests = 3
    MaxTrouble = 2
    NoStamp = NoStamp
INVARIANTS
    
    PathDelayRight
    
PROPERTIES
    Settles
CHECK_DEADLOCK FALSE
