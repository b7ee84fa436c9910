SPECIFICATION Spec
CONSTANTS
    Configs <- AsapServer
    MaxReady = 2
INVARIANTS
    NeverSilent
