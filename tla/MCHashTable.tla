---------------------------- MODULE MCHashTable ----------------------------
EXTENDS HashTable

CONSTANTS k1, k2, k3, k4

MCRoundUp(n) ==
    LET powers == {2 ^ e : e \in 0 .. n}
    IN  CHOOSE p \in powers : p >= n /\ \A q \in powers : q >= n => q >= p

=============================================================================
