SPECIFICATION FairSpec
CONSTANTS
    Confs <- MCConfs
    Day = 9
    SixHours = 3
    Late = 1
    MinPoints = 2
    MaxPoints = 3
    MaxAge = 3
    MaxErr = 1
    MaxFaults = 2
INVARIANTS
    LeapHarmless
    VerdictsFounded

    
