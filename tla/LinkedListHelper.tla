-------------------------- MODULE LinkedListHelper --------------------------
(***************************************************************************)
(* seahorn/lib/linked_list_helper.c: how the unit proofs build a list of    *)
(* any length out of at most four nodes, take a snapshot of it, and compare *)
(* the list with the snapshot afterwards.                                   *)
(*                                                                         *)
(* The intrusive doubly linked list of aws-c-common itself is not part of   *)
(* the repository: its operations are modelled from what the linked_list_* *)
(* unit proofs call and assert.                                            *)
(*                                                                         *)
(* A heap maps the nodes that exist to their two pointers.  A pointer is a *)
(* node, NULL, or Wild: a non-NULL address that must not be followed, which *)
(* is what nd_linked_list_node() returns under SeaHorn.  A list is a       *)
(* record with its two sentinels, head and tail; one under construction    *)
(* also has first and second, the nodes malloc() may return for it.        *)
(***************************************************************************)
EXTENDS Naturals, Sequences

CONSTANTS
    Node, NULL, Wild, Fault,
    NdPtr         \* the pointers nd_linked_list_node() may return

ASSUME PointersDistinct ==
    /\ NULL \notin Node /\ Wild \notin Node /\ Fault \notin Node
    /\ NULL # Wild /\ NULL # Fault /\ Wild # Fault

Ptr == Node \cup {NULL, Wild}
Links == [next : Ptr, prev : Ptr]

-----------------------------------------------------------------------------
(* The library (external). *)

(* What a read through p yields.  Reading through a pointer that is not a  *)
(* node of the heap is an error: it yields Fault, equal to no pointer.     *)
At(h, p) == IF p \in DOMAIN h THEN h[p] ELSE [next |-> Fault, prev |-> Fault]
Hop(h, p, f) == At(h, p)[f]

ListInit(h, l) ==
    [h EXCEPT ![l.head] = [next |-> l.tail, prev |-> NULL],
              ![l.tail] = [next |-> NULL, prev |-> l.head]]

Empty(h, l) == h[l.head].next = l.tail

InsertAfter(h, after, n) ==
    LET nx == h[after].next
    IN  [h EXCEPT ![n] = [next |-> nx, prev |-> after],
                  ![nx].prev = n,
                  ![after].next = n]

InsertBefore(h, before, n) ==
    LET pv == h[before].prev
    IN  [h EXCEPT ![n] = [next |-> before, prev |-> pv],
                  ![pv].next = n,
                  ![before].prev = n]

NodeReset(h, n) == [h EXCEPT ![n] = [next |-> NULL, prev |-> NULL]]

Remove(h, n) ==
    LET pv == h[n].prev
        nx == h[n].next
    IN  NodeReset([h EXCEPT ![pv].next = nx, ![nx].prev = pv], n)

PushFront(h, l, n) == InsertBefore(h, h[l.head].next, n)
PushBack(h, l, n) == InsertBefore(h, l.tail, n)

(* List l takes over the nodes that were between first and last; none when *)
(* the list they come from was empty.                                      *)
TakeOver(h, l, wasEmpty, first, last) ==
    IF wasEmpty THEN ListInit(h, l)
    ELSE [h EXCEPT ![l.head].next = first, ![first].prev = l.head,
                   ![l.tail].prev = last, ![last].next = l.tail]

SwapContents(h, a, b) ==
    TakeOver(TakeOver(h, a, Empty(h, b), h[b.head].next, h[b.tail].prev),
             b, Empty(h, a), h[a.head].next, h[a.tail].prev)

NextIsValid(h, n) == Hop(h, Hop(h, n, "next"), "prev") = n
PrevIsValid(h, n) == Hop(h, Hop(h, n, "prev"), "next") = n

(* The shallow check: only the sentinels are looked at. *)
ListIsValid(h, l) ==
    /\ h[l.head].next # NULL /\ h[l.head].prev = NULL
    /\ h[l.tail].prev # NULL /\ h[l.tail].next = NULL

-----------------------------------------------------------------------------
(* The helper. *)

ASSUME NdPtrIsPtr == NdPtr \subseteq Ptr

AttachIndirectly(h, a, b, p, q) == [h EXCEPT ![a].next = p, ![b].prev = q]
AttachDirectly(h, a, b) == AttachIndirectly(h, a, b, b, a)

(* aws_linked_list_attach_after(after, to_attach, directly_attached): the  *)
(* heaps it may leave.  Not directly attached, the two nodes point at      *)
(* unknown non-NULL addresses instead of at each other.                    *)
AttachAfter(h, after, to_attach, directly) ==
    IF directly THEN {AttachDirectly(h, after, to_attach)}
    ELSE {AttachIndirectly(h, after, to_attach, p, q) :
              p \in NdPtr \ {NULL}, q \in NdPtr \ {NULL}}

(* The nodes in use, every pointer NULL: head.prev and tail.next keep it,  *)
(* the attachments set the others.                                         *)
Blank(nodes) == [n \in nodes |-> [next |-> NULL, prev |-> NULL]]

InitShort(l, length) ==
    LET h0 == Blank({l.head, l.tail})
        h1 == Blank({l.head, l.tail, l.first})
        h2 == Blank({l.head, l.tail, l.first, l.second})
    IN  IF length = 0 THEN AttachDirectly(h0, l.head, l.tail)
        ELSE IF length = 1
        THEN AttachDirectly(AttachDirectly(h1, l.head, l.first), l.first, l.tail)
        ELSE AttachDirectly(AttachDirectly(AttachDirectly(h2,
                 l.head, l.first), l.first, l.second), l.second, l.tail)

(* The three nondeterministic initialisers for more than two nodes: one    *)
(* link of head, first, second, tail is indirect and hides the other nodes. *)
InitLong(l, hidden) ==
    LET h == Blank({l.head, l.tail, l.first, l.second})
    IN  UNION {UNION {AttachAfter(h2, l.second, l.tail, hidden # "last") :
                      h2 \in AttachAfter(h1, l.first, l.second, hidden # "middle")} :
               h1 \in AttachAfter(h, l.head, l.first, hidden # "first")}

(* A length above 2 acts as 3: the code only tells 0, 1, 2 and more apart.  *)
Lengths == 0 .. 3

InitFromHead(l, length) ==
    IF length <= 2 THEN {InitShort(l, length)} ELSE InitLong(l, "last")
InitFromTail(l, length) ==
    IF length <= 2 THEN {InitShort(l, length)} ELSE InitLong(l, "first")
InitBoth(l, length) ==
    IF length <= 2 THEN {InitShort(l, length)} ELSE InitLong(l, "middle")

(* A snapshot of one node, as sea_save_aws_node_to_sea_node takes it. *)
SaveNode(h, n) == [node |-> n, next |-> Hop(h, n, "next"), prev |-> Hop(h, n, "prev")]

NodesNextEqual(h, n, s) == n = s.node /\ Hop(h, n, "next") = s.next
NodesPrevEqual(h, n, s) == n = s.node /\ Hop(h, n, "prev") = s.prev
NodesEqual(h, n, s) == NodesPrevEqual(h, n, s) /\ NodesNextEqual(h, n, s)
NodesFieldEqual_Both(h, n, s, f) == NodesEqual(h, n, s)
NodesFieldEqual(h, n, s, f) ==
    IF f = "next" THEN NodesNextEqual(h, n, s) ELSE NodesPrevEqual(h, n, s)

(* The k-th node (k is 1, 2 or 3) met when walking from n along f. *)
Walk(h, n, f, k) ==
    IF k = 1 THEN n ELSE IF k = 2 THEN Hop(h, n, f) ELSE Hop(h, Hop(h, n, f), f)

(* Where a walk along f begins and where it ends. *)
Origin(l, f) == IF f = "next" THEN l.head ELSE l.tail
End(l, f) == IF f = "next" THEN l.tail ELSE l.head

(* How many nodes a snapshot holds, from start towards the end of f: start *)
(* may be the sentinel the walk begins at or one of the next two nodes, as *)
(* far as the list has them; any other start saves none.                   *)
SavedSize(h, l, size, start, f) ==
    LET reach == IF size > 1 THEN 3 ELSE size + 1
        o == Origin(l, f)
    IN  IF start = o THEN reach
        ELSE IF reach > 1 /\ start = Hop(h, o, f) THEN reach - 1
        ELSE IF reach > 2 /\ start = Walk(h, o, f, 3) THEN 1
        ELSE 0

SaveTowards(h, l, size, start, f) ==
    LET k == SavedSize(h, l, size, start, f)
    IN  [saved_size |-> k, save_point |-> start, save_point_end |-> NULL,
         head |-> SaveNode(h, l.head), tail |-> SaveNode(h, l.tail),
         nodes |-> [i \in 1 .. k |-> SaveNode(h, Walk(h, start, f, i))]]

SaveToTail(h, l, size, start) == SaveTowards(h, l, size, start, "next")
SaveToHead(h, l, size, start) == SaveTowards(h, l, size, start, "prev")

UnchangedTowards_NoSentinel(h, l, saved, f) ==
    saved.saved_size = 0
    \/ /\ NodesFieldEqual(h, saved.save_point, saved.nodes[1], f)
       /\ \A i \in 2 .. saved.saved_size :
              NodesEqual(h, Walk(h, saved.save_point, f, i), saved.nodes[i])

UnchangedTowards(h, l, saved, f) ==
    LET sentinel == IF f = "next" THEN saved.tail ELSE saved.head
    IN  IF saved.saved_size = 0 THEN NodesFieldEqual(h, End(l, f), sentinel, f)
        ELSE /\ NodesFieldEqual(h, saved.save_point, saved.nodes[1], f)
             /\ \A i \in 2 .. saved.saved_size :
                    NodesEqual(h, Walk(h, saved.save_point, f, i), saved.nodes[i])
             /\ NodesEqual(h, End(l, f), sentinel)

UnchangedToTail(h, l, saved) == UnchangedTowards(h, l, saved, "next")
UnchangedToHead(h, l, saved) == UnchangedTowards(h, l, saved, "prev")

(* aws_linked_list_save_full: the nodes saved from the front of the list    *)
(* followed by those saved from its back.                                  *)
SaveFull(h, l, size, start, end) ==
    LET headNext == h[l.head].next
        tailPrev == h[l.tail].prev
        front == IF start = l.head THEN <<l.head, headNext>>
                 ELSE IF start = headNext /\ size > 0 THEN <<headNext>>
                 ELSE <<>>
        back == IF size = 0 THEN <<>>
                ELSE IF end = l.tail
                THEN IF size = 1 THEN <<l.tail>> ELSE <<tailPrev, l.tail>>
                ELSE IF end = tailPrev /\ size > 1 THEN <<tailPrev>>
                ELSE <<>>
        kept == IF start = end THEN <<start>> ELSE front \o back
    IN  [saved_size |-> Len(kept), save_point |-> start, save_point_end |-> end,
         head |-> SaveNode(h, l.head), tail |-> SaveNode(h, l.tail),
         nodes |-> [i \in 1 .. Len(kept) |-> SaveNode(h, kept[i])]]

UnchangedFull_BothLinks(h, l, saved) ==
    \A i \in 1 .. saved.saved_size :
        NodesEqual(h, saved.nodes[i].node, saved.nodes[i])

(* is_aws_list_unchanged_full.  The list it is given plays no part in it.  *)
UnchangedFull(h, l, saved) ==
    LET k == saved.saved_size
        p == saved.save_point
        q == saved.save_point_end
        n == saved.nodes
    IN  \/ /\ k = 0
           /\ saved.head.next = saved.tail.node
           /\ saved.tail.prev = saved.head.node
        \/ k = 1 /\ p = q /\ p = n[1].node
        \/ k = 2 /\ NodesNextEqual(h, p, n[1]) /\ NodesPrevEqual(h, q, n[2])
        \/ /\ k = 3
           /\ NodesNextEqual(h, p, n[1]) /\ NodesPrevEqual(h, q, n[3])
           /\ IF n[2].node = Hop(h, p, "next")
              THEN NodesEqual(h, Hop(h, p, "next"), n[2])
              ELSE /\ n[2].node = Hop(h, q, "prev")
                   /\ NodesEqual(h, Hop(h, q, "prev"), n[2])
        \/ /\ k = 4
           /\ NodesNextEqual(h, p, n[1])
           /\ NodesEqual(h, Hop(h, p, "next"), n[2])
           /\ NodesEqual(h, Hop(h, q, "prev"), n[3])
           /\ NodesPrevEqual(h, q, n[4])

IsAttachedAfter(h, after, n) == Hop(h, after, "next") = n /\ Hop(h, n, "prev") = after
=============================================================================
