--------------------------- MODULE HashIterStubs ---------------------------
(***************************************************************************)
(* aws_hash_iter_overrides.c: begin, done, next and delete of a hash table  *)
(* iterator without their loops, in the loop of aws_hash_table_foreach with *)
(* a callback that answers anything.  An iterator jumps to any slot that is *)
(* left, whether it holds an entry or not.                                 *)
(***************************************************************************)
EXTENDS Integers

CONSTANTS
    Sizes,            \* the sizes a table may have
    SizeMax,          \* the largest size_t
    Deletes           \* whether the callback asks for deletions

ASSUME SizeMaxIsNat == SizeMax \in Nat
ASSUME SizesAreNat == Sizes \subseteq 1 .. SizeMax
ASSUME DeletesIsBoolean == Deletes \in BOOLEAN

VARIABLES
    pc,               \* "begin", "done", "callback", "next", "returned"
    size,             \* of the table
    entry_count,
    slot,             \* of the iterator, and its
    limit,
    status            \* "none" before begin

vars == <<pc, size, entry_count, slot, limit, status>>

StatusAt(s, l) == IF s = l THEN "DONE" ELSE "READY_FOR_USE"

(* The table is valid but for its entry_count, which is arbitrary. *)
Init ==
    /\ pc = "begin"
    /\ size \in Sizes /\ entry_count \in 0 .. SizeMax
    /\ slot = 0 /\ limit = 0 /\ status = "none"

Begin ==
    /\ pc = "begin" /\ pc' = "done"
    /\ limit' = size
    /\ slot' \in 0 .. size
    /\ status' = StatusAt(slot', limit')
    /\ UNCHANGED <<size, entry_count>>

Done ==
    /\ pc = "done"
    /\ pc' = IF slot = limit THEN "returned" ELSE "callback"
    /\ UNCHANGED <<size, entry_count, slot, limit, status>>

(* The callback has the loop go on, or end, or fail. *)
Callback ==
    /\ pc = "callback" /\ pc' \in {"next", "returned"}
    /\ UNCHANGED <<size, entry_count, slot, limit, status>>

(* It has the element deleted first.  entry_count is of 64 bits.            *)
Delete ==
    /\ Deletes /\ pc = "callback" /\ pc' \in {"next", "returned"}
    /\ slot' = slot
    /\ limit' = limit - 1
    /\ status' = "DELETE_CALLED"
    /\ entry_count' = (entry_count - 1) % (SizeMax + 1)
    /\ UNCHANGED size

Next_MayStay ==
    /\ pc = "next" /\ pc' = "done"
    /\ IF slot = limit THEN status' = "DONE" /\ UNCHANGED slot
       ELSE /\ slot' \in slot .. limit
            /\ status' = StatusAt(slot', limit)
    /\ UNCHANGED <<size, entry_count, limit>>

NextSlot ==
    /\ pc = "next" /\ pc' = "done"
    /\ IF slot = limit THEN status' = "DONE" /\ UNCHANGED slot
       ELSE /\ slot' \in slot + 1 .. limit
            /\ status' = StatusAt(slot', limit)
    /\ UNCHANGED <<size, entry_count, limit>>

Next == Begin \/ Done \/ Callback \/ Delete \/ NextSlot

Spec == Init /\ [][Next]_vars

(* The loop runs until it returns. *)
FairSpec == Spec /\ WF_vars(Next)

-----------------------------------------------------------------------------

TypeOK ==
    /\ pc \in {"begin", "done", "callback", "next", "returned"}
    /\ size \in Sizes
    /\ entry_count \in 0 .. SizeMax
    /\ slot \in 0 .. size /\ limit \in 0 .. size
    /\ status \in {"none", "DONE", "READY_FOR_USE", "DELETE_CALLED"}

(* The assertion in done: its answer agrees with the status, also after a    *)
(* deletion that left nothing behind the slot.                             *)
DoneAgreesWithStatus == pc = "done" => (slot = limit <=> status = "DONE")

(* delete is only called on a slot before the limit, so that the limit never *)
(* falls below the slot it has to stay above.                              *)
SlotIsWithinLimit == slot <= limit /\ (pc = "callback" => slot < limit)

(* The loop ends: whatever is deleted, every round leaves fewer slots.      *)
ForeachReturns == <>(pc = "returned")
=============================================================================
