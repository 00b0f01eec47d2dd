--------------------------- MODULE HashTableStubs ---------------------------
(***************************************************************************)
(* The hash table as SeaHorn sees it: the __SEAHORN__ branches of           *)
(* s_emplace_item, s_expand_table, s_update_template_size and s_hash_for.   *)
(* The loops are gone, an entry goes into any vacant slot, an expansion     *)
(* leaves any content, hash codes are arbitrary.  The table is the set of  *)
(* its entries: where they are does not matter to the search, which is      *)
(* nondeterministic as well.                                               *)
(***************************************************************************)
EXTENDS Integers, FiniteSets

CONSTANTS
    Key,
    NullKey,
    MaxSize,      \* above this size the allocation fails or overflows
    RoundUp(_)    \* aws_round_up_to_power_of_two of the library

VARIABLES
    size,
    max_load,
    entry_count,
    entries       \* the entries of the slots that are not vacant

vars == <<size, max_load, entry_count, entries>>

Init ==
    /\ size >= 2 /\ RoundUp(size) = size
    /\ max_load \in 1 .. size - 1
    /\ entry_count = 0
    /\ entries = {}

HasAnEmptySlot == Cardinality(entries) < size

(* What s_hash_for may return for k. *)
IsHashFor(hash_code, k) == IF k = NullKey THEN hash_code = 42 ELSE hash_code > 0

(* s_emplace_item: an entry for k takes a vacant slot of a table that holds *)
(* the entries before.                                                     *)
EmplaceItem(before, k) ==
    /\ \E e \in entries' : /\ e.key = k /\ IsHashFor(e.hash_code, k)
                           /\ entries' = before \cup {e} /\ e \notin before
    /\ entry_count' = entry_count + 1

(* s_update_template_size: max_load is any number that leaves room. *)
UpdateTemplateSize(expected_elements) ==
    /\ size' = RoundUp(IF expected_elements < 2 THEN 2 ELSE expected_elements)
    /\ entry_count < max_load' /\ max_load' < size'

(* s_expand_table assumes an empty slot of the table it is given (and that  *)
(* it has an entry); the entries of the new one are what memory held.      *)
ExpandTable ==
    /\ 2 * size <= MaxSize
    /\ HasAnEmptySlot /\ entry_count > 0
    /\ UpdateTemplateSize(2 * size)

Create(k) ==
    /\ entry_count + 1 <= max_load
    /\ HasAnEmptySlot
    /\ EmplaceItem(entries, k)
    /\ UNCHANGED <<size, max_load>>

CreateExpands(k) ==
    /\ entry_count + 1 > max_load
    /\ ExpandTable
    /\ \E before \in SUBSET entries' :
           Cardinality(before) < size' /\ EmplaceItem(before, k)

Next == \E k \in Key : Create(k) \/ CreateExpands(k)

Spec == Init /\ [][Next]_vars
=============================================================================
