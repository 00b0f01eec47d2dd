SPECIFICATION SnapshotSpec
CONSTANTS
    HeadNode = HeadNode
    TailNode = TailNode
    N1 = N1
    N2 = N2
    NULL = NULL
    Wild = Wild
    Fault = Fault
    Node <- MCNode
    NdPtr <- MCNdPtr
    L <- MCList
    MaxWrites = 2
INVARIANTS
    CheckIsSound
    CheckIsComplete
    FullCheckIsComplete
CHECK_DEADLOCK FALSE
