---------------------- MODULE MCLinkedListUnitProofs ----------------------
EXTENDS LinkedListUnitProofs

CONSTANTS HeadA, TailA, N1, N2, HeadB, TailB, M1, M2

MCNode == {HeadA, TailA, N1, N2, HeadB, TailB, M1, M2, Extra}
MCNdPtr == {NULL, Wild, N1, Extra}
MCListA == [head |-> HeadA, tail |-> TailA, first |-> N1, second |-> N2]
MCListB == [head |-> HeadB, tail |-> TailB, first |-> M1, second |-> M2]

=============================================================================
