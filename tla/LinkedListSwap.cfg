SPECIFICATION Spec
CONSTANTS
    HeadA = HeadA
    TailA = TailA
    N1 = N1
    N2 = N2
    HeadB = HeadB
    TailB = TailB
    M1 = M1
    M2 = M2
    Extra = Extra
    NULL = NULL
    Wild = Wild
    Fault = Fault
    Node <- MCNode
    NdPtr <- MCNdPtr
    A <- MCListA
    B <- MCListB
    MaxFaults = 1
CHECK_DEADLOCK FALSE
INVARIANT SwapIsNoticed
