------------------------ MODULE ArrayListUnitProofs ------------------------
(***************************************************************************)
(* The array_list_* unit proofs of seahorn/jobs.  Each has a Setup, up to   *)
(* its call, and Asserts, what it asserts after it; what the library's      *)
(* function does is an operator without either suffix.                     *)
(***************************************************************************)
EXTENDS ArrayListHelper

ListOk(x) == ListIsValid(obj[x])
SavedList(x) == SaveByteFromArray(old.mem, old.obj[x].data, old.obj[x].current_size)
ListSame(x) == AssertArrayListEquivalence(mem, obj[x], old.obj[x], SavedList(x))

(* If the operation failed, the list must not change. *)
OnlyIf(success) == IF ret = "success" THEN success ELSE ListSame("list")

-----------------------------------------------------------------------------
(* The library. *)

Item(m, list, i) == BytesAt(m, Plus(list.data, i * list.item_size), list.item_size)

PutItem(m, list, i, bytes) ==
    Store(m, Plus(list.data, i * list.item_size), bytes, list.item_size)

Used(m, list) == BytesAt(m, list.data, list.length * list.item_size)

(* The list's memory is replaced by n bytes, the first of which are given. *)
Renewed(x, n, bytes, k) ==
    [obj |-> [obj EXCEPT ![x].data = StartOf("new"), ![x].current_size = n],
     mem |-> [b \in (DOMAIN mem \ {obj[x].data.block}) \cup {"new"} |->
                 IF b = "new" THEN [i \in 0 .. n - 1 |-> IF i < k THEN bytes[i] ELSE 0] ELSE mem[b]]]

Refused == {Same("error")}
Unchanged(answer) == [obj |-> obj, mem |-> mem, ret |-> answer]
Success(r) == Does(r.obj, r.mem, "success")

(* Room for the item at index. *)
EnsureCapacity_Unchecked(index) ==
    LET list == obj.list
        needed == (index + 1) * list.item_size
    IN  IF needed <= list.current_size THEN {Same("success")}
        ELSE {Success(Renewed("list", needed, BytesAt(mem, list.data, list.current_size), list.current_size))}

EnsureCapacity(index) ==
    LET list == obj.list
        needed == (index + 1) * list.item_size
        bigger == IF 2 * list.current_size > needed THEN 2 * list.current_size ELSE needed
    IN  IF index + 1 > SizeMax \/ needed > SizeMax THEN {Same("error")}
        ELSE IF needed <= list.current_size THEN {Same("success")}
        ELSE IF bigger > SizeMax THEN {Same("error")}
        ELSE Refused \cup
             {Success(Renewed("list", bigger,
                  BytesAt(mem, list.data, list.current_size), list.current_size))}

SetAt(index) ==
    {IF r.ret = "error" THEN r
     ELSE [r EXCEPT !.mem = PutItem(@, r.obj.list, index, mem["val"]),
                    !.obj.list.length = IF index >= @ THEN index + 1 ELSE @] :
         r \in EnsureCapacity(index)}

(* The items from index on make room for a new one, or close up over n.     *)
Shifted(m, list, first, n, by) ==
    LET bytes == BytesAt(m, Plus(list.data, first * list.item_size), n * list.item_size)
    IN  Store(m, Plus(list.data, (first + by) * list.item_size), bytes, n * list.item_size)

PushFront ==
    IF obj.list.length = 0 THEN SetAt(0)
    ELSE {IF r.ret = "error" THEN r
          ELSE [r EXCEPT !.mem = PutItem(Shifted(@, r.obj.list, 0, r.obj.list.length, 1), r.obj.list, 0, mem["val"]),
                         !.obj.list.length = @ + 1] :
              r \in EnsureCapacity(obj.list.length)}

Without(first, n) ==
    Does([obj EXCEPT !.list.length = @ - n],
         Shifted(mem, obj.list, first + n, obj.list.length - first - n, 0 - n), "success")

PopFrontN(n) ==
    IF n >= obj.list.length THEN Does([obj EXCEPT !.list.length = 0], mem, "success") ELSE Without(0, n)

PopBack ==
    IF obj.list.length = 0 THEN Same("error")
    ELSE Does([obj EXCEPT !.list.length = @ - 1],
              PutItem(mem, obj.list, obj.list.length - 1, [i \in 0 .. MaxItemSize + MaxItemSizeFuzz |-> 0]), "success")

Erase(index) ==
    IF index >= obj.list.length THEN Same("error")
    ELSE IF index = obj.list.length - 1 THEN PopBack
    ELSE Without(index, 1)

GetAt(index) ==
    IF index >= obj.list.length THEN Same("error")
    ELSE Does(obj, [mem EXCEPT !["val"] = Item(mem, obj.list, index)], "success")

GetAtPtr(index) ==
    IF index >= obj.list.length THEN Same("error")
    ELSE Does([obj EXCEPT !.val.ptr = Plus(obj.list.data, index * obj.list.item_size)], mem, "success")

ShrinkToFit ==
    LET ideal == obj.list.length * obj.list.item_size
    IN  IF ideal >= obj.list.current_size THEN {Same("success")}
        ELSE IF ideal > 0 THEN Refused \cup {Success(Renewed("list", ideal, Used(mem, obj.list), ideal))}
        ELSE {Does([obj EXCEPT !.list.data = Null, !.list.current_size = 0],
                   [b \in DOMAIN mem \ {"list"} |-> mem[b]], "success")}

Copy ==
    LET from == obj.from
        n == from.length * from.item_size
        Long(r) == [r EXCEPT !.obj.to.length = from.length]
    IN  IF obj.to.current_size >= n
        THEN {Long(Does(obj, Store(mem, obj.to.data, Used(mem, from), n), "success"))}
        ELSE Refused \cup {Long(Success(Renewed("to", n, Used(mem, from), n)))}

InitDynamic(n, item_size) ==
    IF n * item_size > SizeMax THEN {Does([list |-> ZeroList], mem, "error")}
    ELSE IF n = 0 THEN {Does([list |-> List(Null, 0, 0, item_size, "sea")], mem, "success")}
    ELSE {Does([list |-> ZeroList], mem, "error")}
         \cup {Does([list |-> List(StartOf("new"), n * item_size, 0, item_size, "sea")],
                    [b \in DOMAIN mem \cup {"new"} |->
                        IF b = "new" THEN [i \in 0 .. n * item_size - 1 |-> 0] ELSE mem[b]], "success")}

Swap(a, b) ==
    Does(obj, PutItem(PutItem(mem, obj.list, a, Item(mem, obj.list, b)), obj.list, b, Item(mem, obj.list, a)), "none")

(* SeaHorn has no body for qsort, KLEE's comparison lets it change nothing; *)
(* libFuzzer runs the real one, with a comparison that answers anything.    *)
Sort ==
    {Same("none")} \cup
    (IF tool # "fuzz" THEN {}
     ELSE {Swap(a, b) : a \in 0 .. obj.list.length - 1, b \in 0 .. obj.list.length - 1})

CompareStrings ==
    LET equal == CASE arg.a /\ arg.b -> SameBytes(arg.str_a.bytes, arg.str_a.len, arg.str_b.bytes, arg.str_b.len)
                   [] OTHER -> arg.a = arg.b
    IN  {Same(IF equal THEN "zero" ELSE "nonzero")}

-----------------------------------------------------------------------------
(* The unit proofs. *)

OneList(p, a) == \E list \in ValidLists("list") : Reach(p, [list |-> list.s], [list |-> list.m], a)

(* A list, an item at val, and an index. *)
ListAndVal(p, indices, needs_data) ==
    \E list \in ValidLists("list") :
        /\ needs_data => list.s.data # Null
        /\ \E val \in BoundedMallocHavoc("val", list.s.item_size), index \in indices :
               val.s # Null /\ Reach(p, [list |-> list.s], [list |-> list.m, val |-> val.m], [index |-> index])

AnyIndex == 0 .. SizeMax
SmallIndex == IF tool = "sea" THEN AnyIndex ELSE 0 .. MaxMemory

ArrayListBackSetup == ListAndVal("back", {0}, FALSE)

ArrayListBackAsserts ==
    /\ ret = "success" => obj.list.data # Null /\ obj.list.length # 0
    /\ ListOk("list") /\ ListSame("list")

ArrayListCapacitySetup ==
    \E list \in ValidLists("list") :
        Reach("capacity", [list |-> list.s, result |-> [value |-> 0]], [list |-> list.m], <<>>)

ArrayListCapacityAsserts ==
    /\ ListOk("list") /\ ListSame("list")
    /\ obj.result.value = obj.list.current_size \div obj.list.item_size

ArrayListCleanUpSetup == OneList("clean_up", <<>>)
ArrayListCleanUpAsserts == obj.list = ZeroList

ArrayListClearSetup == OneList("clear", <<>>)

ArrayListClearAsserts ==
    ListOk("list") /\ obj.list.length = 0 /\ SameFields("list", {"alloc", "current_size", "item_size", "data"})

(* The arguments may be NULL, and the strings the same. *)
ArrayListComparatorStringSetup ==
    \E a \in BOOLEAN, b \in BOOLEAN, str_a \in EnsureStringBoundedLength("str_a", MaxBufferSize) :
        \/ Reach("comparator_string", <<>>, [str_a |-> str_a.m],
                 [a |-> a, b |-> b, str_a |-> str_a.s, str_b |-> str_a.s])
        \/ \E str_b \in EnsureStringBoundedLength("str_b", MaxBufferSize) :
               Reach("comparator_string", <<>>, [str_a |-> str_a.m, str_b |-> str_b.m],
                     [a |-> a, b |-> b, str_a |-> str_a.s, str_b |-> str_b.s])

ArrayListComparatorStringAsserts ==
    ret = "zero" /\ arg.a /\ arg.b => BytesMatch(arg.str_a.bytes, arg.str_b.bytes, arg.str_a.len)

FromAndTo(p) ==
    \E from \in ValidLists("from"), to \in ValidLists("to") :
        /\ from.s.item_size = to.s.item_size
        /\ p = "copy" => from.s.data # Null
        /\ Reach(p, [from |-> from.s, to |-> to.s], [from |-> from.m, to |-> to.m], <<>>)

ArrayListCopySetup == FromAndTo("copy")

ArrayListCopyAsserts ==
    /\ ret = "success" => /\ obj.to.length = obj.from.length
                          /\ obj.to.current_size >= obj.from.length * obj.from.item_size
    /\ ListOk("from") /\ ListOk("to")
    /\ obj.from.item_size = obj.to.item_size

ArrayListEnsureCapacitySetup == \E index \in SmallIndex : OneList("ensure_capacity", [index |-> index])

ArrayListEnsureCapacityAsserts ==
    OnlyIf(/\ ListOk("list") /\ SameFields("list", {"item_size", "alloc", "length"})
           /\ obj.list.current_size >= old.obj.list.current_size)

ArrayListEraseSetup == \E index \in AnyIndex : OneList("erase", [index |-> index])

ArrayListEraseAsserts ==
    /\ OnlyIf(/\ obj.list.length = old.obj.list.length - 1
              /\ SameFields("list", {"item_size", "alloc", "current_size"})
              /\ arg.index < old.obj.list.length)
    /\ ListOk("list")

ArrayListFrontSetup == ListAndVal("front", {0}, FALSE)

ArrayListFrontAsserts ==
    /\ ret = "success" => /\ BytesMatch(StartOf("val"), obj.list.data, obj.list.item_size)
                          /\ obj.list.data # Null /\ obj.list.length # 0
    /\ ListOk("list") /\ ListSame("list")

ArrayListGetAtSetup == ListAndVal("get_at", AnyIndex, FALSE)

ArrayListGetAtAsserts ==
    /\ ret = "success" => obj.list.data # Null /\ obj.list.length > arg.index
    /\ ListOk("list") /\ ListSame("list")

ArrayListGetAtPtrSetup ==
    \E list \in ValidLists("list"), index \in AnyIndex :
        Reach("get_at_ptr", [list |-> list.s, val |-> [ptr |-> Null]], [list |-> list.m], [index |-> index])

ArrayListGetAtPtrAsserts ==
    /\ ret = "success" => obj.list.data # Null /\ obj.list.length > arg.index
    /\ ListOk("list") /\ ListSame("list")

(* KLEE and libFuzzer only try products that fit.                           *)
ItemsToInit ==
    {wanted \in (0 .. MaxItems) \X (1 .. MaxItemSize) : tool = "sea" \/ wanted[1] * wanted[2] <= MaxMemory}

ArrayListInitDynamicSetup ==
    \E list \in InitializeBoundedArrayList("list"), wanted \in ItemsToInit :
        Reach("init_dynamic", [list |-> list.s], [list |-> list.m], [n |-> wanted[1], item |-> wanted[2]])

ArrayListInitDynamicAsserts ==
    IF ret = "success"
    THEN /\ ListOk("list")
         /\ obj.list = List(obj.list.data, arg.item * arg.n, 0, arg.item, "sea")
    ELSE obj.list = ZeroList

ArrayListInitStaticSetup ==
    \E list \in InitializeBoundedArrayList("list"), wanted \in ItemsToInit :
        /\ wanted[1] > 0 /\ wanted[1] * wanted[2] <= SizeMax
        /\ \E raw_array \in BoundedMallocHavoc("raw_array", wanted[1] * wanted[2]) :
               Reach("init_static", [list |-> list.s], [raw_array |-> raw_array.m],
                     [n |-> wanted[1], item |-> wanted[2], raw_array |-> raw_array.s])

ArrayListInitStaticAsserts ==
    LET len == arg.n * arg.item
    IN  /\ ListOk("list")
        /\ obj.list = List(obj.list.data, len, 0, arg.item, "none")
        /\ BytesMatch(obj.list.data, arg.raw_array, len)
        /\ AllMatch(mem, arg.raw_array, SaveByteFromArray(old.mem, arg.raw_array, len))

(* The answer is not used. *)
ArrayListLengthSetup == OneList("length", <<>>)
ArrayListLengthAsserts == ListOk("list") /\ ListSame("list")

OneLess ==
    /\ OnlyIf(/\ obj.list.length = old.obj.list.length - 1 /\ obj.list.data # Null
              /\ SameFields("list", {"alloc", "current_size", "item_size"}))
    /\ ListOk("list")

ArrayListPopBackSetup == OneList("pop_back", <<>>)
ArrayListPopBackAsserts == OneLess

ArrayListPopFrontSetup == OneList("pop_front", <<>>)
ArrayListPopFrontAsserts == OneLess

ArrayListPopFrontNSetup == \E n \in AnyIndex : OneList("pop_front_n", [n |-> n])

ArrayListPopFrontNAsserts ==
    /\ ListOk("list")
    /\ IF arg.n = 0 THEN ListSame("list")
       ELSE /\ SameFields("list", {"alloc", "current_size", "item_size"})
            /\ obj.list.length = IF arg.n >= old.obj.list.length THEN 0 ELSE old.obj.list.length - arg.n

OneMore == OnlyIf(obj.list.length = old.obj.list.length + 1) /\ ListOk("list")

ArrayListPushBackSetup == ListAndVal("push_back", {0}, TRUE)
ArrayListPushBackAsserts == OneMore

ArrayListPushFrontSetup == ListAndVal("push_front", {0}, TRUE)
ArrayListPushFrontAsserts == OneMore

ArrayListSetAtSetup == ListAndVal("set_at", SmallIndex, TRUE)

ArrayListSetAtAsserts_Always ==
    /\ OnlyIf(obj.list.length = arg.index + 1)
    /\ ListOk("list")

ArrayListSetAtAsserts ==
    /\ OnlyIf(arg.index > old.obj.list.length => obj.list.length = arg.index + 1)
    /\ ListOk("list")

(* Some items are removed first. *)
ArrayListShrinkToFitSetup ==
    \E list \in ValidLists("list"), n \in AnyIndex :
        LET length == IF n >= list.s.length THEN 0 ELSE list.s.length - n
            moved == BytesAt([list |-> list.m], Plus(list.s.data, n * list.s.item_size), length * list.s.item_size)
            m == IF length = 0 THEN [list |-> list.m]
                 ELSE Store([list |-> list.m], list.s.data, moved, length * list.s.item_size)
        IN  Reach("shrink_to_fit", [list |-> [list.s EXCEPT !.length = length]], m, <<>>)

ArrayListShrinkToFitAsserts ==
    /\ OnlyIf(IF obj.list.data = Null THEN obj.list.current_size = 0
              ELSE obj.list.current_size = obj.list.length * obj.list.item_size)
    /\ ListOk("list")

ArrayListSortSetup == OneList("sort", <<>>)
ArrayListSortAsserts == ListOk("list") /\ ListSame("list")

(* The first byte of each of two items is saved. *)
ArrayListSwapSetup ==
    \E a \in 0 .. MaxMemory, b \in 0 .. MaxMemory, list \in ValidLists("list") :
        /\ a < list.s.length /\ b < list.s.length
        /\ Reach("swap", [list |-> list.s], [list |-> list.m], [a |-> a, b |-> b])

ArrayListSwapAsserts ==
    LET First(i) == Plus(old.obj.list.data, i * old.obj.list.item_size)
        Moved(i, j) == HasByte(mem, Plus(obj.list.data, i * old.obj.list.item_size), ByteAt(old.mem, First(j)))
    IN  /\ ListOk("list") /\ SameFields("list", {"alloc", "current_size", "length", "item_size"})
        /\ Moved(arg.a, arg.b) /\ Moved(arg.b, arg.a)

ArrayListSwapContentsSetup == FromAndTo("swap_contents")

ArrayListSwapContentsAsserts ==
    /\ ListOk("from") /\ ListOk("to")
    /\ AssertArrayListEquivalence(mem, obj.from, old.obj.to, SavedList("to"))
    /\ AssertArrayListEquivalence(mem, obj.to, old.obj.from, SavedList("from"))

-----------------------------------------------------------------------------

Setup ==
    /\ pc = "setup"
    /\ \/ ArrayListBackSetup \/ ArrayListCapacitySetup \/ ArrayListCleanUpSetup
       \/ ArrayListClearSetup \/ ArrayListComparatorStringSetup \/ ArrayListCopySetup
       \/ ArrayListEnsureCapacitySetup \/ ArrayListEraseSetup \/ ArrayListFrontSetup
       \/ ArrayListGetAtSetup \/ ArrayListGetAtPtrSetup \/ ArrayListInitDynamicSetup
       \/ ArrayListInitStaticSetup \/ ArrayListLengthSetup \/ ArrayListPopBackSetup
       \/ ArrayListPopFrontSetup \/ ArrayListPopFrontNSetup \/ ArrayListPushBackSetup
       \/ ArrayListPushFrontSetup \/ ArrayListSetAtSetup \/ ArrayListShrinkToFitSetup
       \/ ArrayListSortSetup \/ ArrayListSwapSetup \/ ArrayListSwapContentsSetup

Outcomes ==
    CASE proof = "back" -> {IF obj.list.length = 0 THEN Same("error") ELSE GetAt(obj.list.length - 1)}
      [] proof = "capacity" ->
           {Does([obj EXCEPT !.result.value = obj.list.current_size \div obj.list.item_size], mem, "none")}
      [] proof = "clean_up" -> {Does([list |-> ZeroList], <<>>, "none")}
      [] proof = "clear" -> {Does([obj EXCEPT !.list.length = 0], mem, "none")}
      [] proof = "comparator_string" -> CompareStrings
      [] proof = "copy" -> Copy
      [] proof = "ensure_capacity" -> EnsureCapacity(arg.index)
      [] proof = "erase" -> {Erase(arg.index)}
      [] proof \in {"front", "get_at"} -> {GetAt(arg.index)}
      [] proof = "get_at_ptr" -> {GetAtPtr(arg.index)}
      [] proof = "init_dynamic" -> InitDynamic(arg.n, arg.item)
      [] proof = "init_static" ->
           {IF arg.raw_array = Null THEN Same("crash")
            ELSE Does([list |-> List(arg.raw_array, arg.n * arg.item, 0, arg.item, "none")], mem, "none")}
      [] proof = "length" -> {Same("none")}
      [] proof = "pop_back" -> {PopBack}
      [] proof = "pop_front" -> {IF obj.list.length = 0 THEN Same("error") ELSE PopFrontN(1)}
      [] proof = "pop_front_n" -> {[PopFrontN(arg.n) EXCEPT !.ret = "none"]}
      [] proof = "push_back" -> SetAt(obj.list.length)
      [] proof = "push_front" -> PushFront
      [] proof = "set_at" -> SetAt(arg.index)
      [] proof = "shrink_to_fit" -> ShrinkToFit
      [] proof = "sort" -> Sort
      [] proof = "swap" -> {Swap(arg.a, arg.b)}
      [] proof = "swap_contents" -> {Does([from |-> obj.to, to |-> obj.from], mem, "none")}

Asserts ==
    CASE proof = "back" -> ArrayListBackAsserts
      [] proof = "capacity" -> ArrayListCapacityAsserts
      [] proof = "clean_up" -> ArrayListCleanUpAsserts
      [] proof = "clear" -> ArrayListClearAsserts
      [] proof = "comparator_string" -> ArrayListComparatorStringAsserts
      [] proof = "copy" -> ArrayListCopyAsserts
      [] proof = "ensure_capacity" -> ArrayListEnsureCapacityAsserts
      [] proof = "erase" -> ArrayListEraseAsserts
      [] proof = "front" -> ArrayListFrontAsserts
      [] proof = "get_at" -> ArrayListGetAtAsserts
      [] proof = "get_at_ptr" -> ArrayListGetAtPtrAsserts
      [] proof = "init_dynamic" -> ArrayListInitDynamicAsserts
      [] proof = "init_static" -> ArrayListInitStaticAsserts
      [] proof = "length" -> ArrayListLengthAsserts
      [] proof = "pop_back" -> ArrayListPopBackAsserts
      [] proof = "pop_front" -> ArrayListPopFrontAsserts
      [] proof = "pop_front_n" -> ArrayListPopFrontNAsserts
      [] proof = "push_back" -> ArrayListPushBackAsserts
      [] proof = "push_front" -> ArrayListPushFrontAsserts
      [] proof = "set_at" -> ArrayListSetAtAsserts
      [] proof = "shrink_to_fit" -> ArrayListShrinkToFitAsserts
      [] proof = "sort" -> ArrayListSortAsserts
      [] proof = "swap" -> ArrayListSwapAsserts
      [] proof = "swap_contents" -> ArrayListSwapContentsAsserts

Next ==
    \/ Setup
    \/ Call(Outcomes) \/ SkippedCall(Outcomes)
    \/ Fault
    \/ Check(ret # "crash" /\ Asserts)

Spec == Init /\ [][Next]_vars

-----------------------------------------------------------------------------
(* The second generation (seahorn/jobs2): the same inputs and the same calls *)
(* with other assertions, which ask SeaHorn whether an object was written to *)
(* where the first generation compares a byte it saved.                    *)

Untouched(x) == ~Modified(x) /\ ~BytesModified(obj[x].data)

(* If the operation failed, the list must not have been written to.         *)
OnlyIfUntouched_StructOnly(success) == IF ret = "success" THEN success ELSE ~Modified("list")
OnlyIfUntouched(success) == IF ret = "success" THEN success ELSE Untouched("list")

ArrayListBack2Asserts ==
    /\ ret = "success" => obj.list.data # Null /\ obj.list.length # 0
    /\ ListOk("list") /\ Untouched("list")

ArrayListCapacity2Asserts ==
    /\ ListOk("list") /\ Untouched("list")
    /\ obj.result.value = obj.list.current_size \div obj.list.item_size

ArrayListClear2Asserts_StructOnly ==
    /\ ListOk("list") /\ obj.list.length = 0
    /\ SameFields("list", {"current_size", "item_size"})

ArrayListClear2Asserts ==
    /\ ListOk("list") /\ obj.list.length = 0
    /\ SameFields("list", {"current_size", "item_size"})
    /\ ~BytesModified(obj.list.data)

ArrayListEnsureCapacity2Asserts ==
    OnlyIfUntouched(/\ ListOk("list") /\ SameFields("list", {"item_size", "length"})
                    /\ obj.list.current_size >= old.obj.list.current_size)

ArrayListErase2Asserts ==
    /\ OnlyIfUntouched(/\ obj.list.length = old.obj.list.length - 1
                       /\ SameFields("list", {"item_size", "current_size"})
                       /\ arg.index < old.obj.list.length)
    /\ ListOk("list")

ArrayListFront2Asserts ==
    /\ ret = "success" => /\ BytesMatch(StartOf("val"), obj.list.data, obj.list.item_size)
                          /\ obj.list.data # Null /\ obj.list.length # 0
    /\ ListOk("list") /\ Untouched("list")

WithinOrError ==
    /\ ret = "success" => obj.list.data # Null /\ obj.list.length > arg.index
    /\ ListOk("list") /\ Untouched("list")

ArrayListGetAt2Asserts == WithinOrError
ArrayListGetAtPtr2Asserts == WithinOrError

ArrayListInitStatic2Asserts ==
    LET len == arg.n * arg.item
    IN  /\ ListOk("list")
        /\ obj.list = List(obj.list.data, len, 0, arg.item, "none")
        /\ BytesMatch(obj.list.data, arg.raw_array, len)
        /\ ~BytesModified(arg.raw_array)

ArrayListLength2Asserts == ListOk("list") /\ Untouched("list")

OneLessOrUntouched ==
    /\ OnlyIfUntouched(/\ obj.list.length = old.obj.list.length - 1 /\ obj.list.data # Null
                       /\ SameFields("list", {"current_size", "item_size"}))
    /\ ListOk("list")

ArrayListPopBack2Asserts == OneLessOrUntouched
ArrayListPopFront2Asserts == OneLessOrUntouched

ArrayListPopFrontN2Asserts_Or ==
    /\ ListOk("list")
    /\ IF arg.n = 0 \/ obj.list.length > 0 THEN Untouched("list")
       ELSE SameFields("list", {"current_size", "item_size"}) /\ obj.list.length = 0

ArrayListPopFrontN2Asserts ==
    /\ ListOk("list")
    /\ IF arg.n = 0 /\ obj.list.length > 0 THEN Untouched("list")
       ELSE /\ SameFields("list", {"current_size", "item_size"})
            /\ obj.list.length = IF arg.n >= old.obj.list.length THEN 0 ELSE old.obj.list.length - arg.n

ArrayListPushBack2Asserts ==
    OnlyIfUntouched(obj.list.length = old.obj.list.length + 1) /\ ListOk("list")

ArrayListSetAt2Asserts ==
    /\ OnlyIfUntouched(arg.index > old.obj.list.length => obj.list.length = arg.index + 1)
    /\ ListOk("list")

ArrayListShrinkToFit2Asserts ==
    /\ OnlyIfUntouched(IF obj.list.data = Null THEN obj.list.current_size = 0
                       ELSE obj.list.current_size = obj.list.length * obj.list.item_size)
    /\ ListOk("list")

ArrayListSort2Asserts == ListOk("list") /\ Untouched("list")

SecondGeneration ==
    {"back", "capacity", "clear", "ensure_capacity", "erase", "front",
     "get_at", "get_at_ptr", "init_static", "length", "pop_back",
     "pop_front", "pop_front_n", "push_back", "set_at", "shrink_to_fit",
     "sort"}

(* Its verdict where the first generation has given one. *)
SecondRuns == Judged /\ tool = "sea" /\ proof \in SecondGeneration

Asserts2 ==
    CASE proof = "back" -> ArrayListBack2Asserts
      [] proof = "capacity" -> ArrayListCapacity2Asserts
      [] proof = "clear" -> ArrayListClear2Asserts
      [] proof = "ensure_capacity" -> ArrayListEnsureCapacity2Asserts
      [] proof = "erase" -> ArrayListErase2Asserts
      [] proof = "front" -> ArrayListFront2Asserts
      [] proof = "get_at" -> ArrayListGetAt2Asserts
      [] proof = "get_at_ptr" -> ArrayListGetAtPtr2Asserts
      [] proof = "init_static" -> ArrayListInitStatic2Asserts
      [] proof = "length" -> ArrayListLength2Asserts
      [] proof = "pop_back" -> ArrayListPopBack2Asserts
      [] proof = "pop_front" -> ArrayListPopFront2Asserts
      [] proof = "pop_front_n" -> ArrayListPopFrontN2Asserts
      [] proof = "push_back" -> ArrayListPushBack2Asserts
      [] proof = "set_at" -> ArrayListSetAt2Asserts
      [] proof = "shrink_to_fit" -> ArrayListShrinkToFit2Asserts
      [] proof = "sort" -> ArrayListSort2Asserts

-----------------------------------------------------------------------------

TypeOK ==
    /\ tool \in Tools
    /\ pc \in {"setup", "call", "check", "passed", "failed"}
    /\ \A x \in DOMAIN obj \cap {"list", "from", "to"} :
           {obj[x].current_size, obj[x].length, obj[x].item_size} \subseteq 0 .. SizeMax
    /\ \A b \in DOMAIN mem : \E n \in 0 .. 2 * SizeMax : mem[b] \in Contents(n)
    /\ faults \in 0 .. MaxFaults

(* No unit proof fails for a library that is correct, whatever lists the     *)
(* helpers of the three tools build; but for two with libFuzzer: sort, which *)
(* runs the library's qsort and asserts that no byte changes, "Because CBMC  *)
(* expects qsort always not modifying data", and init_static of an array    *)
(* that malloc refused.                                                    *)
NoFalseAlarm ==
    pc = "failed" =>
        \/ Differences # {}
        \/ tool = "fuzz" /\ proof = "sort"
        \/ proof = "init_static" /\ Missing(arg.raw_array, arg.n * arg.item)

(* What a unit proof looks at after its call.                               *)
Shape(x) == Field(x, {"current_size", "length", "item_size", "alloc"})
Whole(x) == ByteOf(x, 0 .. old.obj[x].current_size - 1)
If(condition, places) == IF condition THEN places ELSE {}
IfFailed(x) == If(ret = "error", Shape(x) \cup Whole(x))

Watched ==
    CASE proof \in {"back", "get_at", "get_at_ptr", "length", "sort"} -> Shape("list") \cup Whole("list")
      [] proof = "front" ->
           Shape("list") \cup Whole("list") \cup If(ret = "success", ByteOf("val", DOMAIN mem["val"]))
      [] proof = "capacity" -> Shape("list") \cup Whole("list") \cup Field("result", {"value"})
      [] proof = "clean_up" -> Shape("list") \cup Field("list", {"data"})
      [] proof = "clear" -> Shape("list") \cup Field("list", {"data"})
      [] proof = "copy" -> If(ret = "success", Field("to", {"length"}))
      [] proof = "ensure_capacity" -> Field("list", {"item_size", "alloc", "length"}) \cup IfFailed("list")
      [] proof \in {"erase", "pop_back", "pop_front"} ->
           Shape("list") \cup {<<"ret", "success">>} \cup IfFailed("list")
      [] proof \in {"push_back", "push_front"} ->
           Field("list", {"length"}) \cup {<<"ret", "success">>} \cup IfFailed("list")
      [] proof = "pop_front_n" -> Shape("list") \cup If(arg.n = 0, Whole("list"))
      [] proof = "init_dynamic" -> Shape("list")
      [] proof = "init_static" -> Shape("list") \cup ByteOf("raw_array", DOMAIN mem["raw_array"])
      [] proof = "set_at" -> If(arg.index > old.obj.list.length, Field("list", {"length"})) \cup IfFailed("list")
      [] proof = "shrink_to_fit" -> If(ret = "success", Field("list", {"current_size"})) \cup IfFailed("list")
      [] proof = "swap" ->
           Shape("list") \cup ByteOf("list", {i * obj.list.item_size : i \in {arg.a, arg.b}})
      [] proof = "swap_contents" -> Shape("from") \cup Shape("to") \cup Whole("from") \cup Whole("to")
      [] OTHER -> {}

(* A unit proof that passes has seen that the fields it looks at, the bytes *)
(* whose comparison it leaves to an arbitrary choice, and its answer are    *)
(* right: a library that gets one of them wrong is noticed.                 *)
PassedMeansCorrect == pc = "passed" => Differences \cap Watched = {}

SameShape(list, other) ==
    \A f \in {"current_size", "length", "item_size"} : list[f] = other[f]

(* A list that a call of a correct library leaves is one that the helpers   *)
(* build, up to its bytes, so that the unit proofs have tried what is       *)
(* called next; all but those over an array of the caller's, those that     *)
(* have grown beyond the maxima, and with libFuzzer those with room.        *)
NextCallIsTried ==
    pc = "passed" /\ faults = 0 =>
        \A x \in DOMAIN obj \cap {"list", "from", "to"} :
            LET list == obj[x]
            IN  \/ list.alloc = "none"
                \/ list.current_size > MaxMemory \/ list.length > MaxItems
                \/ tool = "fuzz" /\ \/ list.current_size > list.length * list.item_size
                                    \/ list.length >= MaxItemsFuzz
                \/ \E built \in ValidLists("list") :
                       SameShape(list, built.s)

(* No unit proof of the second generation fails for a library that is       *)
(* correct: what it says is not modified, a correct function leaves alone. *)
NoFalseAlarm2 == SecondRuns /\ ~Asserts2 => Differences # {}

(* What the second generation passes the first one passes too; all but an   *)
(* allocator that changed, which sea_is_modified(list.alloc) does not look  *)
(* at, a pointer that clear or init_static moved within its block, and what *)
(* pop_front_n does to an empty list when it removes nothing: there the     *)
(* second asks about the length alone.                                     *)
Missed ==
    Field("list", {"alloc"})
    \cup If(proof \in {"clear", "init_static"}, Field("list", {"data"}))
    \cup If(proof = "pop_front_n" /\ arg.n = 0 /\ old.obj.list.length = 0,
            Field("list", {"data"}) \cup Whole("list"))

FirstPassesToo == SecondRuns /\ Asserts2 /\ ~Asserts => Differences \subseteq Missed

(* Clearing a list leaves its memory to it: that no byte of it is written    *)
(* only the second generation asks.                                        *)
SecondNoticesMore ==
    /\ SecondRuns /\ proof = "clear"
    /\ Differences # {} /\ Differences \subseteq ByteOf("list", DOMAIN old.mem["list"])
    => Asserts /\ ~Asserts2
=============================================================================
