SPECIFICATION Spec
CONSTANTS
    NDomains = 1
    Confs <- MCConfs
    Interval = 1
    UPDATES_PER_SUBSCRIPTION = 2
    MaxChanges = 2
    MaxInbox = 3
    None = None
INVARIANTS
    
    SourcesSound
    OffsetIsFresh
