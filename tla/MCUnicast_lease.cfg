SPECIFICATION FairSpec
CONSTANTS
    Mechanisms = {"E2E", "P2P"}
    Duration = 2
    Me = me
    Others = {other}
    Intervals = {1, 2}
    AnnounceInterval = 2
    MaxLag = 1
    MaxChannel = 2
    MaxTrouble = 1
    None = None
INVARIANTS
    ServesAsAgreed
PROPERTIES
    KeepsPromises
    ServiceResumes
