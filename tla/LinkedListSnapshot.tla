------------------------- MODULE LinkedListSnapshot -------------------------
(***************************************************************************)
(* The promise of the snapshot helpers: a unit proof builds a list, saves a *)
(* part of it, lets the operation under verification loose on the heap, and *)
(* asks the helper whether the saved part is as it was.                    *)
(*                                                                         *)
(* Whatever the operation does is a sequence of writes of one field of one  *)
(* node, so Write is any program; MaxWrites bounds it for TLC.             *)
(***************************************************************************)
EXTENDS LinkedListHelper

CONSTANTS
    L,            \* the list: [head, tail, first, second]
    MaxWrites

ASSUME ListNodes ==
    /\ L \in [head : Node, tail : Node, first : Node, second : Node]
    /\ L.head \notin {L.tail, L.first, L.second}
    /\ L.tail \notin {L.first, L.second}
    /\ L.first # L.second

ASSUME MaxWritesType == MaxWrites \in Nat

VARIABLES
    kind,         \* which pair of initialiser and snapshot is used
    size,         \* the length the initialiser reported
    current,      \* the heap
    old,          \* the heap when the snapshot was taken
    saved,        \* the snapshot, None before it is taken
    writes        \* how many writes were made since

snapshot_vars == <<kind, size, current, old, saved, writes>>

None == [saved_size |-> 0, nodes |-> <<>>]
Direction == IF kind = "to_tail" THEN "next" ELSE "prev"

SnapshotInit ==
    /\ kind \in {"to_tail", "to_head", "full"}
    /\ size \in Lengths
    /\ current \in IF kind = "to_tail" THEN InitFromHead(L, size)
                   ELSE IF kind = "to_head" THEN InitFromTail(L, size)
                   ELSE InitBoth(L, size)
    /\ old = current
    /\ saved = None
    /\ writes = 0

(* The unit proofs start a snapshot at the sentinel, at its neighbour or at *)
(* the neighbour's neighbour, which in a short list may be the other        *)
(* sentinel.                                                               *)
SaveOneWay(start) ==
    /\ kind # "full"
    /\ saved = None
    /\ start \in {Walk(current, Origin(L, Direction), Direction, k) : k \in 1 .. 3}
    /\ start \in DOMAIN current
    /\ saved' = SaveTowards(current, L, size, start, Direction)
    /\ UNCHANGED <<kind, size, current, old, writes>>

(* The swap unit proof saves all that lies between the sentinels. *)
SaveBothWays ==
    /\ kind = "full"
    /\ saved = None
    /\ saved' = SaveFull(current, L, size, current[L.head].next, current[L.tail].prev)
    /\ UNCHANGED <<kind, size, current, old, writes>>

Write(n, f, p) ==
    /\ saved # None
    /\ writes < MaxWrites
    /\ current' = [current EXCEPT ![n][f] = p]
    /\ writes' = writes + 1
    /\ UNCHANGED <<kind, size, old, saved>>

SnapshotNext ==
    \/ \E start \in Node : SaveOneWay(start)
    \/ SaveBothWays
    \/ \E n \in DOMAIN current, f \in {"next", "prev"}, p \in Ptr : Write(n, f, p)

SnapshotSpec == SnapshotInit /\ [][SnapshotNext]_snapshot_vars

-----------------------------------------------------------------------------

TypeOK ==
    /\ kind \in {"to_tail", "to_head", "full"}
    /\ size \in Lengths
    /\ DOMAIN current \subseteq Node
    /\ current \in [DOMAIN current -> Links]
    /\ old \in [DOMAIN current -> Links]
    /\ writes \in 0 .. MaxWrites
    /\ saved.saved_size \in 0 .. 4
    /\ kind # "full" => saved.saved_size \in 0 .. 3

Other(f) == IF f = "next" THEN "prev" ELSE "next"

(* The fields of the saved segment: from the start node on, every link that *)
(* joins two nodes of it, and both links of the sentinel it ends at.  The   *)
(* link of the start node that leaves the segment is not part of it.        *)
SegmentSame ==
    LET f == Direction
        e == End(L, f)
        k == saved.saved_size
        node(i) == Walk(old, saved.save_point, f, i)
    IN  /\ Hop(current, e, f) = Hop(old, e, f)
        /\ k > 0 => /\ At(current, e) = At(old, e)
                    /\ Hop(current, node(1), f) = Hop(old, node(1), f)
        /\ \A i \in 2 .. k : At(current, node(i)) = At(old, node(i))

OneWayTaken == saved # None /\ kind # "full"

(* is_aws_list_unchanged_to_tail and _to_head never say "unchanged" of a   *)
(* list some link of whose saved segment differs from what it was when the *)
(* snapshot was taken, whatever was written to whichever nodes since.      *)
CheckIsSound ==
    OneWayTaken /\ UnchangedTowards(current, L, saved, Direction) => SegmentSame

(* ... and they raise no false alarm: writes outside of the saved segment,  *)
(* or that put back what was there, leave the answer at "unchanged".       *)
CheckIsComplete ==
    OneWayTaken /\ SegmentSame => UnchangedTowards(current, L, saved, Direction)

(* What lies between the sentinels of the list is what it was. *)
ContentSame ==
    LET first == old[L.head].next
        last == old[L.tail].prev
    IN  /\ current[L.head].next = first
        /\ current[L.tail].prev = last
        /\ current[first].next = old[first].next \/ first = last \/ first = L.tail
        /\ current[last].prev = old[last].prev \/ first = last \/ last = L.head

(* is_aws_list_unchanged_full raises no false alarm on a list whose content *)
(* is as it was saved.                                                     *)
FullCheckIsComplete ==
    kind = "full" /\ saved # None /\ ContentSame => UnchangedFull(current, L, saved)
=============================================================================
