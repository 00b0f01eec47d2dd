---------------------- MODULE PriorityQueueUnitProofs ----------------------
(***************************************************************************)
(* The priority_queue_* unit proofs of seahorn/jobs.  With SeaHorn the      *)
(* functions that move items are replaced by the stubs of                  *)
(* aws-c-common-stubs; the other tools run the library's.                  *)
(***************************************************************************)
EXTENDS PriorityQueueHelper, Sequences

CONSTANTS UseStubs    \* whether SeaHorn's stubs are linked

Seqs == INSTANCE SequencesExt

Stubbed == tool = "sea" /\ UseStubs

(* An operation works on the state r = [obj, mem, ret].                    *)
Now == Does(obj, mem, "success")
Fails(r) == [r EXCEPT !.ret = "error"]
Same(answer) == Does(obj, mem, answer)
HasBacks(r) == r.obj.backpointers.data # Null

-----------------------------------------------------------------------------
(* The library. *)

(* Room for one item more. *)
MakeRoom(r, x) ==
    LET list == r.obj[x]
        capacity == IF 2 * list.capacity > list.length + 1 THEN 2 * list.capacity ELSE list.length + 1
    IN  IF list.length < list.capacity THEN {r}
        ELSE {Fails(r)}
             \cup {Does([r.obj EXCEPT ![x].capacity = capacity, ![x].data = StartOf(x)],
                        [b \in DOMAIN r.mem \cup {x} |->
                            IF b # x THEN r.mem[b]
                            ELSE [i \in 0 .. capacity - 1 |-> IF i < list.length THEN r.mem[b][i] ELSE 0]],
                        r.ret)}

PushBack_CountsTwo(r, x, v) ==
    {IF s.ret = "error" THEN s ELSE [s EXCEPT !.obj[x].length = @ + 2] : s \in MakeRoom(r, x)}

PushBack(r, x, v) ==
    {IF s.ret = "error" THEN s
     ELSE [s EXCEPT !.mem = [@ EXCEPT ![x] = [@ EXCEPT ![s.obj[x].length] = v]], !.obj[x].length = @ + 1] :
         s \in MakeRoom(r, x)}

PopBack(r, x) ==
    [r EXCEPT !.obj[x].length = @ - 1, !.mem = [@ EXCEPT ![x] = [@ EXCEPT ![r.obj[x].length - 1] = 0]]]

(* A node is told the place of its item.                                   *)
Tell(r, node, place) ==
    CASE node = NoNode -> r
      [] node = WildNode -> [r EXCEPT !.ret = "crash"]
      [] OTHER -> [r EXCEPT !.mem = [@ EXCEPT !["nodes"] = [@ EXCEPT ![node] = place]]]

(* The items and the back pointers along a path change places, one pair     *)
(* after the other: the first goes to the end, each other one a place back. *)
Along(path, list) ==
    LET Next_(i) == LET j == CHOOSE j \in DOMAIN path : path[j] = i
                    IN  IF j = Len(path) THEN path[1] ELSE path[j + 1]
    IN  [i \in DOMAIN list |-> IF i \in Seqs!Range(path) THEN list[Next_(i)] ELSE list[i]]

Told(path, backs, nodes) ==
    [x \in DOMAIN nodes |->
        IF \E i \in Seqs!Range(path) : backs[i] = x THEN CHOOSE i \in Seqs!Range(path) : backs[i] = x ELSE nodes[x]]

(* All that lies behind a pointer to no node is the crash. *)
Moved(r, path) ==
    LET items == Along(path, r.mem["container"])
        backs == Along(path, r.mem["backpointers"])
    IN  CASE Len(path) = 1 -> r
          [] Len(path) # 1 /\ ~HasBacks(r) -> [r EXCEPT !.mem = [@ EXCEPT !["container"] = items]]
          [] Len(path) # 1 /\ HasBacks(r) ->
                 IF \E i \in Seqs!Range(path) : backs[i] = WildNode THEN [r EXCEPT !.ret = "crash"]
                 ELSE [r EXCEPT !.mem = [@ EXCEPT !["container"] = items, !["backpointers"] = backs,
                                                  !["nodes"] = Told(path, backs, @)]]

Swap(r, a, b) == Moved(r, <<a, b>>)

(* The paths from a place of the heap towards its root. *)
PathsUp[i \in Nat] ==
    {<<i>>} \cup IF i = 0 THEN {} ELSE {<<i>> \o path : path \in PathsUp[(i - 1) \div 2]}

Places(r) == 0 .. r.obj.container.length - 1

PathsDown(r, i) ==
    {Seqs!Reverse(path) : path \in {p \in UNION {PathsUp[j] : j \in Places(r)} : Seqs!Last(p) = i}}

(* The comparison answers anything: an item moves up, or down, any number   *)
(* of times.                                                               *)
Sift(r, paths) == {Moved(r, path) : path \in paths \cap Seq(Places(r))}
SiftUp(r, i) == Sift(r, PathsUp[i])
SiftDown(r, i) == Sift(r, PathsDown(r, i))

SiftEither(r, i) == SiftUp(r, i) \cup SiftDown(r, i)

(* The stubs. *)
StubSift(r, i) ==
    {IF QueueIsValid(r.obj.container, r.obj.backpointers) /\ i < r.obj.container.length
     THEN r ELSE [r EXCEPT !.ret = "sassert"]}

Sifted(r, i, Real(_, _)) == IF Stubbed THEN StubSift(r, i) ELSE Real(r, i)

Taken(r, i) == [r EXCEPT !.mem = [@ EXCEPT !["item"] = [@ EXCEPT ![0] = r.mem["container"][i]]]]

StubRemoveNode_KeepsBacks(r, i) ==
    IF i >= r.obj.container.length THEN {Fails(r)}
    ELSE {[Taken(r, i) EXCEPT !.obj.container.length = @ - 1]}

StubRemoveNode(r, i) ==
    IF i >= r.obj.container.length THEN {Fails(r)}
    ELSE {[Taken(r, i) EXCEPT !.obj.container.length = @ - 1,
                              !.obj.backpointers.length = IF HasBacks(r) THEN @ - 1 ELSE @]}

(* The item at i goes to the end and off both lists, its node is told that  *)
(* it is gone, and the item that took its place finds its own.             *)
RemoveNode_KeepsBacks(r, i) ==
    LET last == r.obj.container.length - 1
        swapped == IF i = last THEN Taken(r, i) ELSE Swap(Taken(r, i), i, last)
    IN  IF i > last THEN {Fails(r)} ELSE {PopBack(swapped, "container")}

RemoveNode(r, i) ==
    LET last == r.obj.container.length - 1
        swapped == IF i = last THEN Taken(r, i) ELSE Swap(Taken(r, i), i, last)
        shorter == PopBack(swapped, "container")
        node == shorter.mem["backpointers"][last]
        gone == IF HasBacks(r) THEN PopBack(Tell(shorter, node, SizeMax), "backpointers") ELSE shorter
    IN  IF i > last THEN {Fails(r)}
        ELSE IF swapped.ret = "crash" THEN {swapped}
        ELSE IF i = last \/ gone.ret = "crash" THEN {gone}
        ELSE Sifted(gone, i, SiftEither)

Removed(i) == IF Stubbed THEN StubRemoveNode(Now, i) ELSE RemoveNode(Now, i)

Pop == IF obj.container.length = 0 THEN {Same("error")} ELSE Removed(0)

Remove ==
    LET i == mem["nodes"][GivenNode]
    IN  IF i >= obj.container.length \/ ~HasBacks(Now) THEN {Same("error")} ELSE Removed(i)

(* The queues of the helpers have an allocator for their back pointers, so  *)
(* the library does not try to create them.                                *)
PushRef(node) ==
    UNION {IF s.ret = "error" THEN {s}
           ELSE UNION {IF t.ret = "error" THEN {PopBack(t, "container")}
                       ELSE Sifted(Tell(t, node, obj.container.length), obj.container.length, SiftUp) :
                           t \in IF HasBacks(s) THEN PushBack(s, "backpointers", node) ELSE {s}} :
               s \in PushBack(Now, "container", mem["item"][0])}

InitWith(list) == Does([container |-> list, backpointers |-> NoList], mem, "success")

InitDynamic(n, item_size) ==
    LET block == [b \in DOMAIN mem \cup {"container"} |-> IF b = "container" THEN [i \in 0 .. n - 1 |-> 0] ELSE mem[b]]
    IN  IF n = 0 THEN {InitWith(ItemList("none", 0, 0, item_size, "sea"))}
        ELSE {Fails(InitWith(NoList))}
             \cup {[InitWith(ItemList("container", n, 0, item_size, "sea")) EXCEPT !.mem = block]}

-----------------------------------------------------------------------------
(* The unit proofs. *)

QueueOk == QueueIsValid(obj.container, obj.backpointers)

ListSame(x) ==
    /\ \A f \in {"alloc", "capacity", "length", "item_size"} : obj[x][f] = old.obj[x][f]
    /\ obj[x].capacity > 0 =>
           AllMatch(mem, obj[x].data, SaveByteFromArray(old.mem, old.obj[x].data, old.obj[x].capacity))

OneQueue(p) == \E queue \in ValidQueues : Reach(p, Lists(queue), Contents(queue), [index |-> 0])

SameQueue == QueueOk /\ ListSame("container") /\ ListSame("backpointers")

AwsPriorityQueueCapacitySetup ==
    \E queue \in ValidQueues :
        Reach("capacity", [container |-> queue[1], backpointers |-> queue[2], result |-> [value |-> 0]],
              Contents(queue), [index |-> 0])

AwsPriorityQueueCapacityAsserts == SameQueue /\ obj.result.value = obj.container.capacity

AwsPriorityQueueSizeSetup == OneQueue("size")
AwsPriorityQueueSizeAsserts == SameQueue

AwsPriorityQueueTopSetup == OneQueue("top")
AwsPriorityQueueTopAsserts == SameQueue

AwsPriorityQueueCleanUpSetup == OneQueue("clean_up")

AwsPriorityQueueCleanUpAsserts ==
    \A x \in {"container", "backpointers"} : AssertAllZeroes(mem, obj[x].data, obj[x].length)

(* What the structs hold before they are initialized does not matter. *)
NewQueue(p, first) ==
    \E n \in first .. MaxQueueItems, item_size \in 1 .. MaxItemSize :
        Reach(p, [container |-> NoList, backpointers |-> NoList], [raw_array |-> [i \in 0 .. n - 1 |-> i]],
              [index |-> 0, n |-> n, item_size |-> item_size])

AwsPriorityQueueInitDynamicSetup == NewQueue("init_dynamic", 0)

AwsPriorityQueueInitDynamicAsserts ==
    IF ret = "success"
    THEN /\ QueueOk
         /\ obj.container.alloc = "sea"
         /\ obj.container.item_size = arg.item_size
         /\ obj.container.length = 0
         /\ obj.container.capacity = IF obj.container.data = Null THEN 0 ELSE arg.n
    ELSE obj.container = NoList /\ obj.backpointers = NoList

AwsPriorityQueueInitStaticSetup == NewQueue("init_static", 1)

AwsPriorityQueueInitStaticAsserts ==
    /\ QueueOk
    /\ obj.container = ItemList("raw_array", arg.n, 0, arg.item_size, "none")
    /\ AssertBytesMatch(mem, obj.container.data, StartOf("raw_array"), arg.n)

AtMostOneLess ==
    ret = "success" =>
        /\ old.obj.container.length = 1 + obj.container.length
        /\ HasBacks([obj |-> obj]) => old.obj.backpointers.length = 1 + obj.backpointers.length

(* Only the pointers 0 and len - 1 are allocated. *)
AwsPriorityQueuePopSetup ==
    \E queue \in ValidQueues :
        LET len == queue[2].length
        IN  \E m \in WithNodes(Contents(queue), {0, len - 1} \cap Nat) :
                Reach("pop", Lists(queue), m, [index |-> 0])

AwsPriorityQueuePopAsserts == AtMostOneLess /\ QueueOk

AwsPriorityQueuePushSetup == OneQueue("push")
AwsPriorityQueuePushAsserts == QueueOk

AwsPriorityQueuePushRefSetup ==
    \E queue \in ValidQueues, node \in CanFail(GivenNode) :
        Reach("push_ref", Lists(queue), Contents(queue), [index |-> 0, node |-> node])

AwsPriorityQueuePushRefAsserts == QueueOk

AwsPriorityQueueRemoveSetup ==
    \E queue \in ValidQueues, i \in 0 .. SizeMax :
        LET len == queue[2].length
            m == [Contents(queue) EXCEPT !["nodes"] = [@ EXCEPT ![GivenNode] = i]]
        IN  \E with \in WithNodes(m, IF i < len THEN {i, len - 1} ELSE {}) :
                Reach("remove", Lists(queue), with, [index |-> i])

AwsPriorityQueueRemoveAsserts == AtMostOneLess /\ QueueOk

(* The node of the item is passed on, but its pointer may fail to be set.   *)
AwsPriorityQueueSRemoveNodeSetup ==
    \E queue \in ValidQueues :
        \E i \in 0 .. queue[1].length - 1 :
            LET len == queue[1].length
            IN  \E with \in WithNodes(Contents(queue), {i, len - 1}) :
                    Reach("s_remove_node", Lists(queue), with, [index |-> i])

NodeOfRemoved ==
    IF "backpointers" \in DOMAIN old.mem THEN old.mem["backpointers"][arg.index] ELSE NoNode

AwsPriorityQueueSRemoveNodeAsserts ==
    /\ AtMostOneLess
    /\ ret = "success" /\ NodeOfRemoved # NoNode => mem["nodes"][NodeOfRemoved] = SizeMax
    /\ QueueOk

(* All back pointers are allocated. *)
OneRoot(p) ==
    \E queue \in ValidQueues :
        \E m \in WithNodes(Contents(queue), 0 .. queue[1].length - 1), root \in 0 .. queue[1].length - 1 :
            Reach(p, Lists(queue), m, [index |-> root])

AwsPriorityQueueSSiftDownSetup == OneRoot("s_sift_down")
AwsPriorityQueueSSiftDownAsserts == QueueOk

AwsPriorityQueueSSiftEitherSetup == OneRoot("s_sift_either")
AwsPriorityQueueSSiftEitherAsserts == QueueOk

AwsPriorityQueueSSiftUpSetup == OneRoot("s_sift_up")
AwsPriorityQueueSSiftUpAsserts == QueueOk

AwsPriorityQueueSSwapSetup ==
    \E queue \in ValidQueues :
        \E a, b \in 0 .. queue[1].length - 1 :
            \E m \in WithNodes(Contents(queue), {a, b}) :
                Reach("s_swap", Lists(queue), m, [index |-> a, other |-> b])

AwsPriorityQueueSSwapAsserts_OneWay ==
    QueueOk /\ HasByte(mem, Plus(obj.container.data, arg.index), ByteAt(old.mem, Plus(obj.container.data, arg.other)))

AwsPriorityQueueSSwapAsserts ==
    LET a == arg.index
        b == arg.other
        Item(m, i) == ByteAt(m, Plus(obj.container.data, i))
        others == {s \in SaveByteFromArray(old.mem, old.obj.container.data, old.obj.container.capacity) :
                       s.index \notin {a, b}}
    IN  /\ QueueOk
        /\ others # {} =>
               /\ \A f \in {"alloc", "capacity", "length", "item_size"} :
                      obj.container[f] = old.obj.container[f]
               /\ AllMatch(mem, obj.container.data, others)
        /\ obj.container.data = StartOf("container")
        /\ Item(mem, a) = Item(old.mem, b) /\ Item(mem, b) = Item(old.mem, a)

-----------------------------------------------------------------------------

Outcomes ==
    CASE proof = "capacity" ->
             {Does([obj EXCEPT !.result.value = obj.container.capacity], mem, "none")}
      [] proof = "size" -> {Same("none")}
      [] proof = "top" -> {Same(IF obj.container.length = 0 THEN "error" ELSE "success")}
      [] proof = "clean_up" -> {Does([x \in DOMAIN obj |-> NoList], [nodes |-> mem["nodes"]], "none")}
      [] proof = "init_dynamic" -> InitDynamic(arg.n, arg.item_size)
      [] proof = "init_static" -> {InitWith(ItemList("raw_array", arg.n, 0, arg.item_size, "none"))}
      [] proof = "pop" -> Pop
      [] proof = "push" -> PushRef(NoNode)
      [] proof = "push_ref" -> PushRef(arg.node)
      [] proof = "remove" -> Remove
      [] proof = "s_remove_node" -> RemoveNode(Now, arg.index)
      [] proof = "s_sift_down" -> SiftDown(Now, arg.index)
      [] proof = "s_sift_either" -> SiftEither(Now, arg.index)
      [] proof = "s_sift_up" -> SiftUp(Now, arg.index)
      [] proof = "s_swap" -> {Swap(Now, arg.index, arg.other)}

Asserts ==
    CASE proof = "capacity" -> AwsPriorityQueueCapacityAsserts
      [] proof = "size" -> AwsPriorityQueueSizeAsserts
      [] proof = "top" -> AwsPriorityQueueTopAsserts
      [] proof = "clean_up" -> AwsPriorityQueueCleanUpAsserts
      [] proof = "init_dynamic" -> AwsPriorityQueueInitDynamicAsserts
      [] proof = "init_static" -> AwsPriorityQueueInitStaticAsserts
      [] proof = "pop" -> AwsPriorityQueuePopAsserts
      [] proof = "push" -> AwsPriorityQueuePushAsserts
      [] proof = "push_ref" -> AwsPriorityQueuePushRefAsserts
      [] proof = "remove" -> AwsPriorityQueueRemoveAsserts
      [] proof = "s_remove_node" -> AwsPriorityQueueSRemoveNodeAsserts
      [] proof = "s_sift_down" -> AwsPriorityQueueSSiftDownAsserts
      [] proof = "s_sift_either" -> AwsPriorityQueueSSiftEitherAsserts
      [] proof = "s_sift_up" -> AwsPriorityQueueSSiftUpAsserts
      [] proof = "s_swap" -> AwsPriorityQueueSSwapAsserts

(* The unit proofs of the static functions are not built for libFuzzer. *)
Setup ==
    /\ pc = "setup"
    /\ \/ AwsPriorityQueueCapacitySetup
       \/ AwsPriorityQueueSizeSetup
       \/ AwsPriorityQueueTopSetup
       \/ AwsPriorityQueueCleanUpSetup
       \/ AwsPriorityQueueInitDynamicSetup
       \/ AwsPriorityQueueInitStaticSetup
       \/ AwsPriorityQueuePopSetup
       \/ AwsPriorityQueuePushSetup
       \/ AwsPriorityQueuePushRefSetup
       \/ AwsPriorityQueueRemoveSetup
       \/ /\ tool # "fuzz"
          /\ \/ AwsPriorityQueueSRemoveNodeSetup
             \/ AwsPriorityQueueSSiftDownSetup
             \/ AwsPriorityQueueSSiftEitherSetup
             \/ AwsPriorityQueueSSiftUpSetup
             \/ AwsPriorityQueueSSwapSetup

Next ==
    \/ Setup
    \/ Call(Outcomes)
    \/ SkippedCall(Outcomes)
    \/ Fault
    \/ Check(ret \notin {"crash", "sassert"} /\ Asserts)

Spec == Init /\ [][Next]_vars

-----------------------------------------------------------------------------

TypeOK ==
    /\ tool \in Tools
    /\ pc \in {"setup", "call", "check", "passed", "failed"}
    /\ \A x \in DOMAIN obj \cap {"container", "backpointers"} : obj[x].length \in 0 .. MaxQueueItems + 1
    /\ \A b \in DOMAIN mem : \A i \in DOMAIN mem[b] : mem[b][i] \in Byte
    /\ faults \in 0 .. MaxFaults

(* No unit proof fails for a library that is correct, with the stubs where  *)
(* they are linked; but with libFuzzer a call may read a node through a      *)
(* pointer that was never set: "in order for it to work, we have to have     *)
(* initialized all backpointers of the priority queue correctly".           *)
NoFalseAlarm == pc = "failed" /\ ~(tool = "fuzz" /\ ret = "crash") => Differences # {}

(* Without the stubs, and with back pointers that are set, the library does *)
(* to the lengths what the stubs do, whatever it makes of the items.       *)
Stubs == INSTANCE PriorityQueueStubs WITH
    op <- IF pc = "setup" THEN "none" ELSE proof,
    index <- IF pc = "setup" THEN 0 ELSE arg.index,
    length <- IF pc = "setup" THEN 0 ELSE obj.container.length,
    backs <- IF pc # "setup" /\ HasBacks(Now) THEN "array" ELSE "zero",
    back_length <- IF pc = "setup" THEN 0 ELSE obj.backpointers.length

StepAsWithStubs == [Stubs!Next]_(Stubs!vars)

(* What a unit proof looks at after its call.                               *)
Shape(x) == Field(x, {"capacity", "length", "item_size", "alloc"})
Whole(x) == ByteOf(x, 0 .. old.obj[x].capacity - 1)
TwoLists == {"container", "backpointers"}
If(condition, places) == IF condition THEN places ELSE {}

Watched ==
    CASE proof \in {"capacity", "size", "top"} ->
             (UNION {Shape(x) \cup Whole(x) : x \in TwoLists}) \cup Field("result", {"value"})
      [] proof \in {"pop", "remove", "s_remove_node"} ->
             If(ret = "success", Field("container", {"length"}))
             \cup If(ret = "success" /\ HasBacks(Now), Field("backpointers", {"length"}))
             \cup If(proof = "s_remove_node" /\ NodeOfRemoved # NoNode, ByteOf("nodes", {NodeOfRemoved}))
      [] proof = "s_swap" -> If({arg.index, arg.other} # 0 .. old.obj.container.capacity - 1, Shape("container"))
                             \cup Whole("container")
      [] proof = "init_static" -> Shape("container")
      [] proof = "init_dynamic" -> Field("container", {"length", "item_size", "alloc"})
      [] OTHER -> {}

(* A unit proof that passes has seen that what it looks at is right: a queue *)
(* with one item less on both lists, a node told that its item is gone, two *)
(* items that changed places among others that did not.                    *)
PassedMeansCorrect == pc = "passed" => Differences \cap Watched = {}
=============================================================================
