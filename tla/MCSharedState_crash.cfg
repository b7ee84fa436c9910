SPECIFICATION ShmFairSpec
CONSTANTS
    A = A
    B = B
    NoDomain = NoDomain
    Procs <- TwoProcs
    Domains = {0, 1}
    Flags = {0, 1}
    MaxPolls = 1
INVARIANTS
    Mutex
    InitializedOnce
    ReadsWhatWasWritten
PROPERTIES
    NobodyStuck
