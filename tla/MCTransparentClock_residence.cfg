SPECIFICATION TcSpec
CONSTANTS
    NPorts = 3
    Ingress = {1, 2}
    Confs <- MCConfs
    IdMod = 2
    SharedIdentity = FALSE
    MaxTime = 2
    MaxMessages = 3
    MaxEvents = 1
INVARIANTS
    ResidenceBelongs
    ListsInOrder
CHECK_DEADLOCK FALSE
