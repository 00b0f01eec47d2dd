--------------------------- MODULE HashTableHelper ---------------------------
(***************************************************************************)
(* hash_table_helper.c in its SeaHorn, KLEE and libFuzzer versions: the     *)
(* tables and the iterators that the unit proofs start with, and what they  *)
(* assert of them.  Of an entry only its hash code is kept, and of that     *)
(* whether it is 0, which makes its slot vacant.                           *)
(***************************************************************************)
EXTENDS UnitProof, FiniteSets

CONSTANTS
    MaxTableSize,     \* MAX_TABLE_SIZE
    MaxPairSize       \* that of a table in a unit proof with two

Sizes == {2^k : k \in 0 .. 4}
IsPowerOfTwo(n) == n \in Sizes
RoundUpToPowerOfTwo(n) == CHOOSE p \in Sizes : p >= n /\ \A q \in Sizes : q >= n => p <= q

(* The fields of a hash_table_state that a caller does not choose once.     *)
State(size, max_load, entry_count) ==
    [size |-> size, mask |-> size - 1, max_load |-> max_load, entry_count |-> entry_count]

Vacant == 0
Taken(codes) == {i \in DOMAIN codes : codes[i] # Vacant}
Codes(size) == [0 .. size - 1 -> Byte]

(* hash_table_state_is_valid.  The stub that ignores entry_count only does   *)
(* so for SeaHorn.  Nothing counts the slots that are taken.               *)
StateIsValid(state) ==
    /\ state.size >= 2 /\ IsPowerOfTwo(state.size)
    /\ state.entry_count <= state.max_load
    /\ state.max_load < state.size
    /\ state.mask = state.size - 1

StateIsValidIgnoringCount(state) ==
    StateIsValid(IF tool = "sea" THEN [state EXCEPT !.entry_count = 0] ELSE state)

(* initialize_bounded_aws_hash_table: entry_count, max_load and the slots    *)
(* are what memory holds, but for what KLEE's assumes of them.             *)
StatesOf(sizes) ==
    {State(size, max_load, entry_count) : size \in sizes, max_load \in 0 .. SizeMax, entry_count \in 0 .. SizeMax}

SeaStates_Below(max) == StatesOf({n \in 0 .. max - 1 : IsPowerOfTwo(n)})
SeaStates(max) == StatesOf({n \in 0 .. max : IsPowerOfTwo(n)})

KleeStates(max) ==
    {state \in StatesOf({n \in 2 .. max : IsPowerOfTwo(n)}) :
        state.entry_count <= state.max_load /\ state.max_load < state.size}

(* Without memory the helper's first write ends the run.                   *)
FuzzStates(max) == StatesOf({RoundUpToPowerOfTwo(n % max) : n \in 0 .. SizeMax})

States(max) ==
    CASE tool = "sea" -> SeaStates(max) [] tool = "klee" -> KleeStates(max) [] tool = "fuzz" -> FuzzStates(max)

Tables(states) == UNION {{[state |-> state, codes |-> codes] : codes \in Codes(state.size)} : state \in states}

ValidTablesUpTo(max) == Tables({state \in States(max) : StateIsValid(state)})
ValidTables == ValidTablesUpTo(MaxTableSize)

(* has_an_empty_slot: the slot is chosen, or with libFuzzer searched for,    *)
(* and never found in a table without entries.                             *)
Vacancy(table) == Taken(table.codes) # DOMAIN table.codes
ChosenSlotIsEmpty_AnyCount(table) == Vacancy(table)
ChosenSlotIsEmpty_MoreThanOne(table) == table.state.entry_count > 1 /\ Vacancy(table)
ChosenSlotIsEmpty(table) == table.state.entry_count > 0 /\ Vacancy(table)
SomeSlotIsEmpty(table) == table.state.entry_count # 0 /\ Vacancy(table)
HasAnEmptySlot(table) == IF tool = "fuzz" THEN SomeSlotIsEmpty(table) ELSE ChosenSlotIsEmpty(table)

(* entry_count_is_valid and deep_is_empty. *)
EntryCountIsValid(table) == table.state.entry_count = Cardinality(Taken(table.codes))
DeepIsEmpty(table) == Taken(table.codes) = {}

-----------------------------------------------------------------------------
(* Iterators. *)

DONE == 0
DELETE_CALLED == 1
READY_FOR_USE == 2

Iter(slot, limit, status) == [slot |-> slot, limit |-> limit, status |-> status]

(* aws_hash_iter_is_valid, and KLEE's copy of it, of a valid table. *)
IterIsValid(iter, table) ==
    /\ iter.limit <= table.state.size
    /\ CASE iter.status = DONE -> iter.slot = iter.limit
         [] iter.status = DELETE_CALLED -> iter.slot <= iter.limit \/ iter.slot = SizeMax
         [] iter.status = READY_FOR_USE -> iter.slot < iter.limit /\ iter.slot \in Taken(table.codes)
         [] OTHER -> FALSE

(* initialize_aws_hash_iter, with an arbitrary status. *)
SeaIters(table) ==
    {[iter |-> Iter(slot, limit, status), table |-> table] :
        slot \in 0 .. SizeMax, limit \in 0 .. SizeMax, status \in DONE .. READY_FOR_USE}

KleeIters(table) ==
    {r \in SeaIters(table) :
        /\ r.iter.limit <= table.state.size
        /\ r.iter.status = READY_FOR_USE => r.iter.slot < r.iter.limit /\ r.iter.slot \in Taken(table.codes)}

(* nd_hash_iter_status of libFuzzer. *)
FuzzStatuses == {any % READY_FOR_USE : any \in 0 .. SizeMax}

(* The slot of a ready iterator is filled. *)
FuzzIters(table) ==
    LET size == table.state.size
        Limit(any) == IF any % size = 0 THEN size ELSE any % size
        Filled(slot) == [table EXCEPT !.codes = [@ EXCEPT ![slot] = 1]]
    IN  {LET iter == Iter(any % limit, limit, status)
         IN  [iter |-> iter, table |-> IF status = READY_FOR_USE THEN Filled(iter.slot) ELSE table] :
            any \in 0 .. SizeMax, limit \in {Limit(n) : n \in 0 .. SizeMax}, status \in FuzzStatuses}

InitializeHashIter(table) ==
    CASE tool = "sea" -> SeaIters(table) [] tool = "klee" -> KleeIters(table) [] tool = "fuzz" -> FuzzIters(table)

MkValidHashIter(table) == {r \in InitializeHashIter(table) : IterIsValid(r.iter, r.table)}

-----------------------------------------------------------------------------
(* What the unit proofs see of the table that variable map points to.       *)

HasState(map) == \E s \in {"state", "state_b", "new"} \cap DOMAIN obj : obj[map].p_impl = StartOf(s)
StateOf(map) == obj[obj[map].p_impl.block]
CodesOf(map) == mem[obj[map].p_impl.block]
TableOf(map) == [state |-> StateOf(map), codes |-> CodesOf(map)]

TableIsValid(map) == HasState(map) /\ StateIsValid(StateOf(map))

(* assert_hash_table_unchanged: a byte of the state and the slots that       *)
(* table s had is where map points now.                                    *)
TableUnchanged_HeaderOnly(map, s) ==
    obj[map].p_impl # Null => HasState(map) /\ StateOf(map) = old.obj[s]

TableUnchanged(map, s) ==
    obj[map].p_impl # Null =>
        /\ HasState(map)
        /\ StateOf(map) = old.obj[s]
        /\ AllMatch(mem, obj[map].p_impl, SaveByteFromArray(old.mem, StartOf(s), old.obj[s].size))
=============================================================================
