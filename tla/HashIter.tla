------------------------------ MODULE HashIter ------------------------------
(***************************************************************************)
(* What the stubs of HashIterStubs stand for: the iterator of the library   *)
(* over a table of Robin Hood hashing, in the same loop.  delete removes    *)
(* the entry of its slot, which moves the entries behind it back by one,   *)
(* over the end of the table if need be, and goes back one slot so that    *)
(* next looks at this one again.                                           *)
(***************************************************************************)
EXTENDS Integers, FiniteSets

CONSTANTS
    Size,             \* of the table
    SizeMax,
    Deletes

VARIABLES
    pc,
    slots,            \* slot -> the entry in it, or Vacant
    entry_count,
    slot,
    limit,
    status,
    visits            \* key -> how often the callback was given it: 0, 1, more

vars == <<pc, slots, entry_count, slot, limit, status, visits>>

Place == 0 .. Size - 1
Key == 0 .. Size - 2
Vacant == [key |-> -1, home |-> 0]
Entry == [key : Key, home : Place]

Occupied == {s \in Place : slots[s] # Vacant}
ProbeIdx(s, e) == (s - e.home) % Size

(* Every key is where its probe sequence finds it: whoever stands before an *)
(* entry that is away from home is no closer to its own.                   *)
IsRobinHood(t) ==
    /\ \A s, u \in Place : s # u /\ t[s] # Vacant => t[s].key # t[u].key
    /\ \E s \in Place : t[s] = Vacant
    /\ \A s \in Place : t[s] # Vacant /\ ProbeIdx(s, t[s]) > 0 =>
           LET before == (s - 1) % Size
           IN  t[before] # Vacant /\ ProbeIdx(before, t[before]) >= ProbeIdx(s, t[s]) - 1

Init ==
    /\ pc = "begin"
    /\ slots \in {t \in [Place -> Entry \cup {Vacant}] : IsRobinHood(t)}
    /\ entry_count = Cardinality(Occupied)
    /\ slot = 0 /\ limit = 0 /\ status = "none"
    /\ visits = [k \in Key |-> 0]

(* s_get_next_element: the first entry from slot start on. *)
GetNextElement(start, l) ==
    LET found == {s \in Occupied : start <= s /\ s < l}
    IN  IF found = {} THEN slot' = l /\ status' = "DONE"
        ELSE /\ slot' = CHOOSE s \in found : \A u \in found : s <= u
             /\ status' = "READY_FOR_USE"

Begin ==
    /\ pc = "begin" /\ pc' = "done"
    /\ limit' = Size
    /\ GetNextElement(0, Size)
    /\ UNCHANGED <<slots, entry_count, visits>>

Done ==
    /\ pc = "done"
    /\ pc' = IF slot = limit THEN "returned" ELSE "callback"
    /\ UNCHANGED <<slots, entry_count, slot, limit, status, visits>>

Visit == visits' = [visits EXCEPT ![slots[slot].key] = IF @ = 0 THEN 1 ELSE 2]

Callback ==
    /\ pc = "callback" /\ pc' \in {"next", "returned"}
    /\ Visit
    /\ UNCHANGED <<slots, entry_count, slot, limit, status>>

(* s_remove_entry: the entries behind s move back up to one that is vacant, *)
(* or at home; the last place that was left is vacant now.                 *)
Stops_Vacant(s) == slots[s] = Vacant

Stops(s) == slots[s] = Vacant \/ ProbeIdx(s, slots[s]) = 0

LastMoved(s) ==
    LET n == CHOOSE k \in 0 .. Size - 1 :
                 Stops((s + k + 1) % Size) /\ \A j \in 1 .. k : ~Stops((s + j) % Size)
    IN  (s + n) % Size

RemoveEntry(s, last) ==
    /\ slots' = [u \in Place |->
                    IF u = last THEN Vacant
                    ELSE IF (u - s) % Size < (last - s) % Size THEN slots[(u + 1) % Size]
                    ELSE slots[u]]
    /\ entry_count' = entry_count - 1

Delete_KeepsLimit ==
    /\ Deletes /\ pc = "callback" /\ pc' \in {"next", "returned"}
    /\ Visit
    /\ RemoveEntry(slot, LastMoved(slot))
    /\ limit' = limit
    /\ slot' = (slot - 1) % (SizeMax + 1)
    /\ status' = "DELETE_CALLED"

Delete_SignedSlot ==
    LET last == LastMoved(slot)
    IN  /\ Deletes /\ pc = "callback" /\ pc' \in {"next", "returned"}
        /\ Visit
        /\ RemoveEntry(slot, last)
        /\ limit' = IF last < slot \/ last >= limit THEN limit - 1 ELSE limit
        /\ slot' = slot - 1
        /\ status' = "DELETE_CALLED"

Delete_KeepsSlot ==
    LET last == LastMoved(slot)
    IN  /\ Deletes /\ pc = "callback" /\ pc' \in {"next", "returned"}
        /\ Visit
        /\ RemoveEntry(slot, last)
        /\ limit' = IF last < slot \/ last >= limit THEN limit - 1 ELSE limit
        /\ slot' = slot
        /\ status' = "DELETE_CALLED"

(* An entry that came over the end of the table was visited before: the      *)
(* limit keeps it out.  The slot before 0 is the largest size_t.           *)
Delete ==
    LET last == LastMoved(slot)
    IN  /\ Deletes /\ pc = "callback" /\ pc' \in {"next", "returned"}
        /\ Visit
        /\ RemoveEntry(slot, last)
        /\ limit' = IF last < slot \/ last >= limit THEN limit - 1 ELSE limit
        /\ slot' = (slot - 1) % (SizeMax + 1)
        /\ status' = "DELETE_CALLED"

Next_LooksAgain ==
    /\ pc = "next" /\ pc' = "done"
    /\ GetNextElement(IF status = "DELETE_CALLED" THEN (slot + 1) % (SizeMax + 1) ELSE slot, limit)
    /\ UNCHANGED <<slots, entry_count, limit, visits>>

NextSlot ==
    /\ pc = "next" /\ pc' = "done"
    /\ GetNextElement((slot + 1) % (SizeMax + 1), limit)
    /\ UNCHANGED <<slots, entry_count, limit, visits>>

Next == Begin \/ Done \/ Callback \/ Delete \/ NextSlot

Spec == Init /\ [][Next]_vars
FairSpec == Spec /\ WF_vars(Next)

-----------------------------------------------------------------------------

TypeOK ==
    /\ pc \in {"begin", "done", "callback", "next", "returned"}
    /\ slots \in [Place -> Entry \cup {Vacant}]
    /\ slot \in 0 .. Size \cup {SizeMax} /\ limit \in 0 .. Size
    /\ visits \in [Key -> 0 .. 2]

(* Deletions keep the table one in which every key is found, and its count. *)
TableStaysValid == IsRobinHood(slots) /\ entry_count = Cardinality(Occupied)

(* No element is given to the callback twice, although a deletion moves     *)
(* entries over slots that were, or will be, looked at.                    *)
VisitedOnce == \A k \in Key : visits[k] <= 1

(* When the iterator is done, every entry that is left has been visited.    *)
NoneIsMissed ==
    pc = "done" /\ status = "DONE" => \A s \in Occupied : visits[slots[s].key] = 1

ForeachReturns == <>(pc = "returned")

(* The stubs may do what the library does to an iterator, but to one that    *)
(* was just used to delete: theirs stays at its slot and always gives up one *)
(* of its limit, so that the entry that moved into the slot is not visited.  *)
Stubs == INSTANCE HashIterStubs WITH Sizes <- {Size}, size <- Size
CoveredByStubs ==
    [][status # "DELETE_CALLED" /\ status' # "DELETE_CALLED" => Stubs!Next]_vars
=============================================================================
