------------------------- MODULE PriorityQueueStubs -------------------------
(***************************************************************************)
(* What SeaHorn's stubs in aws-c-common-stubs leave of a priority queue: a  *)
(* pair of lengths.  s_sift_up and s_sift_either do nothing, s_remove_node  *)
(* takes one off both lengths, and all assert that the queue is valid.     *)
(* A unit proof calls one operation on a queue and passes.                 *)
(***************************************************************************)
EXTENDS Integers

CONSTANTS
    MaxQueueItems,
    SizeMax           \* the largest size_t, and index

ConstantsAreNat == MaxQueueItems \in Nat /\ SizeMax \in Nat

VARIABLES
    pc,
    op,               \* the operation that is called
    index,            \* the item it is about
    length,           \* of the container
    backs,            \* the list of back pointers: "zero", or an "array"
    back_length,      \* of that array
    ret

vars == <<pc, op, index, length, backs, back_length, ret>>

Removals == {"pop", "remove", "s_remove_node"}
Pushes == {"push", "push_ref"}
Sifts == {"s_sift_up", "s_sift_down", "s_sift_either", "s_swap"}
Readers == {"capacity", "size", "top"}
Resets == {"init_dynamic", "init_static", "clean_up"}
Operations == Removals \cup Pushes \cup Sifts \cup Readers \cup Resets

QueueIsValid == IF backs = "array" THEN back_length = length ELSE back_length = 0

Init ==
    /\ pc = "setup" /\ op = "none" /\ index = 0
    /\ length = 0 /\ backs = "zero" /\ back_length = 0
    /\ ret = "none"

(* A queue that is valid, whatever it has held so far. *)
Setup ==
    /\ pc = "setup" /\ pc' = "call"
    /\ op' \in Operations
    /\ index' \in 0 .. SizeMax
    /\ length' \in 0 .. MaxQueueItems
    /\ backs' \in {"zero", "array"}
    /\ back_length' = IF backs' = "array" THEN length' ELSE 0
    /\ op' \in Sifts => index' < length'
    /\ ret' = ret

Answer(r) == pc = "call" /\ pc' = "check" /\ ret' = r /\ UNCHANGED <<op, index>>

Refuse == Answer("error") /\ UNCHANGED <<length, backs, back_length>>

(* The stub of s_remove_node: index is in range, or the call is refused.    *)
RemoveNode ==
    /\ index < length
    /\ length' = length - 1
    /\ back_length' = IF backs = "array" THEN back_length - 1 ELSE back_length
    /\ backs' = backs

Remove == op \in Removals /\ Answer("success") /\ RemoveNode

(* The callers of s_remove_node have refused before, too. *)
RefuseRemove ==
    /\ op \in Removals
    /\ op = "pop" => length = 0
    /\ op = "remove" => index >= length \/ backs = "zero"
    /\ op = "s_remove_node" => index >= length
    /\ Refuse

Push ==
    /\ op \in Pushes /\ Answer("success")
    /\ length' = length + 1
    /\ back_length' = IF backs = "array" THEN back_length + 1 ELSE back_length
    /\ backs' = backs

RefusePush == op \in Pushes /\ Refuse

(* The stubs of s_sift_up and s_sift_either, after their assertions. *)
Sift ==
    /\ op \in Sifts /\ QueueIsValid /\ index < length
    /\ Answer("success") /\ UNCHANGED <<length, backs, back_length>>

Read ==
    /\ op \in Readers /\ \E r \in {"none", "success", "error"} : Answer(r)
    /\ UNCHANGED <<length, backs, back_length>>

Reset ==
    /\ op \in Resets /\ \E r \in {"none", "success", "error"} : Answer(r)
    /\ length' = 0 /\ backs' = "zero" /\ back_length' = 0

Pass ==
    /\ pc = "check" /\ QueueIsValid /\ pc' = "passed"
    /\ UNCHANGED <<op, index, length, backs, back_length, ret>>

Next ==
    \/ Setup \/ Remove \/ RefuseRemove \/ Push \/ RefusePush
    \/ Sift \/ Read \/ Reset \/ Pass

Spec == Init /\ [][Next]_vars

-----------------------------------------------------------------------------

TypeOK ==
    /\ pc \in {"setup", "call", "check", "passed"}
    /\ op \in Operations \cup {"none"}
    /\ index \in 0 .. SizeMax
    /\ length \in 0 .. MaxQueueItems + 1
    /\ backs \in {"zero", "array"}
    /\ back_length \in 0 .. MaxQueueItems + 1
    /\ ret \in {"none", "success", "error"}

(* The assertions in the stubs, and the one that every unit proof ends with, *)
(* hold for every queue that is valid to begin with.                       *)
AssertionsHold ==
    /\ pc = "call" /\ op \in Sifts => QueueIsValid /\ index < length
    /\ pc = "check" => QueueIsValid
=============================================================================
