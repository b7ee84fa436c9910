SPECIFICATION FairSpec
CONSTANTS
    Configs <- LifeConfigs
    MaxReady = 2
INVARIANTS
    TimersFollowState
    DownOwnsNothing
    DownLinkIsFaulty
    NoSpin
PROPERTIES
    Recovers
