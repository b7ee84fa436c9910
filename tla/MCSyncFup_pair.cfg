SPECIFICATION FairSpec
CONSTANTS
    A = A
    B = B
    b1 = b1
    b2 = b2
    b3 = b3
    two = two
    one = one
    deaf = deaf
    Masters <- TwoMasters
    OneStep <- OneStepB
    IgnoreSourceId = FALSE
    Buffers <- ThreeBuffers
    SeqMod = 4
    Window = 2
    MaxGap = 2
    MaxSent = 5
    Nodes <- ThreeNodes
    OneStepNodes <- OneStepNode
    DeafNodes <- DeafNode
    IdMod = 3
    Late = 2
    MaxRequests = 4
    MaxSends = 4
    Parents <- TwoParents
    RecordsPerMessage = 3
    MaxRecords = 7
INVARIANTS
    
    PairsMatch
    MeasuresOneExchange
    ReportsInOrder
PROPERTIES
    
    BatchEnds
CHECK_DEADLOCK FALSE
