------------------------ MODULE PriorityQueueHelper ------------------------
(***************************************************************************)
(* priority_queue_helper.c in its SeaHorn, KLEE and libFuzzer versions: the *)
(* priority queues that the unit proofs start with.  A queue is two array   *)
(* lists, of items and of pointers to the nodes that know where their item *)
(* is.  One place of a block holds one item, one pointer or one index,      *)
(* whatever its size in bytes.                                             *)
(***************************************************************************)
EXTENDS UnitProof

CONSTANTS
    MaxQueueItems,    \* MAX_PRIORITY_QUEUE_ITEMS; for the others a bound of the model
    MaxItemSize,      \* MAX_ITEM_SIZE
    PtrSize,          \* sizeof(struct aws_priority_queue_node *)
    WildNodes         \* whether a back pointer that was never set points anywhere, or is null

(* Pointers to nodes: null, the node allocated for position i, the one that *)
(* is passed to the call, and one that points to no node.                  *)
NoNode == 0
NodeOf(i) == i + 1
GivenNode == MaxQueueItems + 1
WildNode == MaxQueueItems + 2

Nodes == 1 .. MaxQueueItems + 1
Unset == IF WildNodes THEN WildNode ELSE NoNode

ItemList(name, capacity, length, item_size, alloc) ==
    [data |-> IF capacity = 0 THEN Null ELSE StartOf(name), capacity |-> capacity,
     length |-> length, item_size |-> item_size, alloc |-> alloc]

NoList == ItemList("none", 0, 0, 0, "none")

(* aws_priority_queue_is_valid. *)
QueueIsValid(container, backs) ==
    /\ container.length <= container.capacity
    /\ container.capacity = 0 <=> container.data = Null
    /\ container.item_size > 0
    /\ \/ /\ backs.data # Null
          /\ backs.length <= backs.capacity
          /\ backs.item_size = PtrSize
          /\ backs.length = container.length
       \/ backs.data = Null /\ backs.capacity = 0 /\ backs.length = 0

ListsOf(name, lengths, sizes, room) ==
    {ItemList(name, length + more, length, size, "sea") : length \in lengths, size \in sizes, more \in room}

Pairs(lengths, container_sizes, back_sizes, room) ==
    ListsOf("container", lengths, container_sizes, room) \X ListsOf("backpointers", lengths, back_sizes, room)

(* aws_priority_queue_is_bounded. *)
IsBounded(queue, max_items) ==
    /\ \A i \in {1, 2} : queue[i].length <= max_items
    /\ queue[1].item_size <= MaxItemSize /\ queue[2].item_size <= PtrSize

(* The lists of SeaHorn have any length and size; KLEE's have items of at    *)
(* most MAX_ITEM_SIZE, the pointers too; libFuzzer's have no room.         *)
SeaQueues == Pairs(0 .. MaxQueueItems, 0 .. PtrSize, 0 .. PtrSize, {0, 1})
KleeQueues == Pairs(0 .. MaxQueueItems, 0 .. MaxItemSize, 0 .. MaxItemSize, {0, 1})
FuzzQueues == Pairs(0 .. MaxQueueItems, 1 .. PtrSize, 1 .. PtrSize, {0})

InitializePriorityQueue ==
    CASE tool = "sea" -> SeaQueues
      [] tool = "klee" -> KleeQueues
      [] tool = "fuzz" -> FuzzQueues

(* With KLEE a unit proof returns when the pointers have the wrong size.    *)
Qualified(queue) == tool = "klee" => queue[2].item_size = PtrSize

ValidQueues ==
    {queue \in InitializePriorityQueue :
        Qualified(queue) /\ IsBounded(queue, MaxQueueItems) /\ QueueIsValid(queue[1], queue[2])}

Lists(queue) == [container |-> queue[1], backpointers |-> queue[2]]

(* Item i of a queue is i, its back pointers are not set, and node x says   *)
(* that its item is at 0.                                                  *)
Contents(queue) ==
    [b \in {"nodes", "item"} \cup {n \in {"container", "backpointers"} : Lists(queue)[n].data # Null} |->
        CASE b = "nodes" -> [x \in Nodes |-> 0]
          [] b = "item" -> [i \in {0} |-> 0]
          [] b = "container" -> [i \in 0 .. queue[1].capacity - 1 |-> i]
          [] b = "backpointers" -> [i \in 0 .. queue[2].capacity - 1 |-> Unset]]

(* malloc may fail. *)
CanFail(node) == {NoNode, node}

(* The pointers at the places of set are allocated. *)
WithNodes(m, set) ==
    IF "backpointers" \notin DOMAIN m THEN {m}
    ELSE {[m EXCEPT !["backpointers"] = [i \in DOMAIN @ |-> IF i \in set THEN nodes[i] ELSE @[i]]] :
              nodes \in {f \in [set -> Nodes \cup {NoNode}] : \A i \in set : f[i] \in CanFail(NodeOf(i))}}
=============================================================================
