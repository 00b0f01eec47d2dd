-------------------------- MODULE ArrayListHelper --------------------------
(***************************************************************************)
(* array_list_helper.c in its SeaHorn, KLEE and libFuzzer versions: the     *)
(* array lists that the unit proofs start with, as records [s, m] of a     *)
(* struct and the content of the block it points to, if any.               *)
(***************************************************************************)
EXTENDS ByteBufHelper

CONSTANTS
    MaxMemory,        \* KLEE_MAX_SIZE; for the others a bound of the model
    MaxItemSize,      \* MAX_ITEM_SIZE
    MaxItems,         \* MAX_INITIAL_ITEM_ALLOCATION
    MaxItemSizeFuzz,  \* MAX_ITEM_SIZE_FUZZ
    MaxItemsFuzz      \* MAX_INITIAL_ITEM_ALLOCATION_FUZZ

List(data, current_size, length, item_size, alloc) ==
    [data |-> data, current_size |-> current_size, length |-> length,
     item_size |-> item_size, alloc |-> alloc]

ZeroList == List(Null, 0, 0, 0, "none")

IsBoundedList_Strict(list, max_initial_item_allocation, max_item_size) ==
    /\ list.item_size < max_item_size
    /\ list.length < max_initial_item_allocation

IsBoundedList(list, max_initial_item_allocation, max_item_size) ==
    /\ list.item_size <= max_item_size
    /\ list.length <= max_initial_item_allocation

(* The KLEE version assumes that the items fit before it looks.             *)
KleeIsBoundedList(list, max_initial_item_allocation, max_item_size) ==
    /\ list.length * list.item_size <= SizeMax
    /\ list.length * list.item_size <= list.current_size
    /\ IsBoundedList(list, max_initial_item_allocation, max_item_size)

Lists(block, sizes, lengths, items) ==
    {Built(List(block.s, size, length, item, "sea"), block.m) :
         size \in sizes, length \in lengths, item \in items}

SeaLists(b) ==
    UNION {UNION {{l \in Lists(r, {size}, 0 .. SizeMax, 0 .. SizeMax) :
                       IsBoundedList(l.s, MaxItems, MaxItemSize)} :
                      r \in SeaCanFailMallocHavoc(b, size)} : size \in 0 .. MaxMemory}

KleeLists(b) ==
    UNION {UNION {{l \in IF r.s = Null THEN Lists(r, {0}, {0}, 0 .. SizeMax)
                         ELSE Lists(r, {size}, 0 .. SizeMax, 0 .. SizeMax) :
                       KleeIsBoundedList(l.s, MaxItems, MaxItemSize)} :
                      r \in KleeCanFailMallocHavoc(b, size)} : size \in 0 .. MaxMemory}

FuzzItemSizes == {IF n % MaxItemSizeFuzz = 0 THEN 1 ELSE n % MaxItemSizeFuzz : n \in 0 .. SizeMax}

(* A list is as large as its items. *)
FuzzLists(b) ==
    UNION {UNION {Lists(r, {item * length}, {length}, {item}) :
                      r \in IF item * length = 0 THEN Nothing ELSE FuzzMallocHavoc(b, item * length)} :
               item \in FuzzItemSizes, length \in {n % MaxItemsFuzz : n \in 0 .. SizeMax}}

InitializeBoundedArrayList(b) == ForTool(SeaLists(b), KleeLists(b), FuzzLists(b))

(* aws_array_list_is_valid. *)
ListIsValid(list) ==
    /\ list.length * list.item_size <= SizeMax
    /\ list.current_size >= list.length * list.item_size
    /\ list.current_size = 0 <=> list.data = Null
    /\ list.item_size # 0

ValidLists(b) == {l \in InitializeBoundedArrayList(b) : ListIsValid(l.s)}
=============================================================================
