------------------------------- MODULE KeySet -------------------------------
(***************************************************************************)
(* What a hash table promises about its keys: adding a key adds that key    *)
(* and loses none, or fails and leaves the keys as they were.  When and     *)
(* where entries move inside of the table is nobody's business.            *)
(***************************************************************************)
CONSTANT Key

VARIABLE keys

Init == keys = {}

Add(k) == keys' = keys \cup {k}

Next == \E k \in Key : Add(k)

Spec == Init /\ [][Next]_keys
=============================================================================
