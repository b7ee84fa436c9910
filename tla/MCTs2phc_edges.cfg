SPECIFICATION Spec
CONSTANTS
    Confs <- MCConfs
    MAX_RMC_AGE = 5
    PollTimeout = 5
    HoldoverLength = 1
    Leap = 2
    MaxTime = 13
    MaxFaults = 2
    None = None
INVARIANTS
    SteersRightly

    
CHECK_DEADLOCK FALSE
