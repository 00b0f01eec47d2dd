----------------------- MODULE MCLinkedListSnapshot -----------------------
EXTENDS LinkedListSnapshot

CONSTANTS HeadNode, TailNode, N1, N2

MCNode == {HeadNode, TailNode, N1, N2}
MCNdPtr == MCNode \cup {NULL, Wild}
MCList == [head |-> HeadNode, tail |-> TailNode, first |-> N1, second |-> N2]

=============================================================================
