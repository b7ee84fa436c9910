SPECIFICATION FairSpec
CONSTANTS
    Scripts <- MCScripts
    MaxDeaths = 2
    PortNames = {"eth0", "eth1"}
    Settings <- MCSettings
    TableLines <- MCTableLines
    MaxArgs = 1
    MaxLines = 4
INVARIANTS
    
    ChildrenInOrder
    AsConfigured
PROPERTIES
    KeepsWatch
    AddressesBelong
CHECK_DEADLOCK FALSE
