------------------------- MODULE HashTableUnitProofs -------------------------
(***************************************************************************)
(* The hash_table_* and hash_iter_* unit proofs of seahorn/jobs.  Each has  *)
(* a Setup, up to its call, and Asserts, what it asserts after it; what the *)
(* library's function does is an operator without either suffix.  Hash     *)
(* functions and comparisons answer anything, so a key may be found in any *)
(* slot that is taken.                                                     *)
(***************************************************************************)
EXTENDS HashTableHelper

-----------------------------------------------------------------------------
(* The library. *)

Same(r) == Does(obj, mem, r)
Iterated(iter, r) == [Same(r) EXCEPT !.obj.iter = iter]

(* An entry goes: those behind it move up, and the last slot of a run that   *)
(* is taken becomes vacant.                                                *)
RunFrom(codes, size, s) ==
    {(s + k) % size : k \in {n \in 0 .. size - 1 : \A j \in 0 .. n : codes[(s + j) % size] # Vacant}}

WithoutEntry(last) ==
    Does([obj EXCEPT !.state.entry_count = (@ - 1) % (SizeMax + 1)],
         [mem EXCEPT !["state"] = [@ EXCEPT ![last] = Vacant]], "success")

Find ==
    {[Same("success") EXCEPT !.obj.elem.ptr = IF found = {} THEN Null ELSE [block |-> "state", at |-> CHOOSE s \in found : TRUE]] :
        found \in {{}} \cup {{s} : s \in Taken(mem["state"])}}

Remove ==
    {[Same("success") EXCEPT !.obj.was.present = 0]} \cup
    {[WithoutEntry(last) EXCEPT !.obj.was.present = 1] : last \in Taken(mem["state"])}

(* Another entry, in any slot that is vacant. *)
Emplaced ==
    {[Same("success") EXCEPT !.obj.state.entry_count = @ + 1,
                             !.mem = [@ EXCEPT !["state"] = [@ EXCEPT ![s] = 1]],
                             !.obj.was.created = 1] :
        s \in DOMAIN mem["state"] \ Taken(mem["state"])}

(* Twice the slots.  SeaHorn's stub leaves any max_load with room and any    *)
(* content.                                                                *)
NewLoads(size, count) == IF tool = "sea" THEN count + 1 .. size - 1 ELSE {size - 1}

Moved(codes, size) == IF tool = "sea" THEN {[i \in 0 .. size - 1 |-> c] : c \in Byte}
                      ELSE {[i \in 0 .. size - 1 |-> IF i \in DOMAIN codes THEN codes[i] ELSE Vacant]}

Expanded ==
    LET size == 2 * obj.state.size
        Rest(f, name, v) == [x \in {name} \cup (DOMAIN f \ {"state"}) |-> IF x = name THEN v ELSE f[x]]
    IN  {Does([Rest(obj, "new", State(size, max_load, obj.state.entry_count + 1))
                   EXCEPT !.map.p_impl = StartOf("new"), !.was.created = 1],
              Rest(mem, "new", [codes EXCEPT ![s] = 1]), "success") :
             max_load \in NewLoads(size, obj.state.entry_count),
             codes \in Moved(mem["state"], size), s \in size \div 2 .. size - 1}

Refused == {Same("error")}

Create ==
    (IF Taken(mem["state"]) = {} THEN {} ELSE {[Same("success") EXCEPT !.obj.was.created = 0]})
    \cup IF obj.state.entry_count + 1 > obj.state.max_load THEN Refused \cup Expanded ELSE Emplaced

Cleared == Does([obj EXCEPT !.state.entry_count = 0],
                [mem EXCEPT !["state"] = [i \in DOMAIN @ |-> Vacant]], "none")

(* The slots are cleared before they are released. *)
CleanUp == [Cleared EXCEPT !.obj.map.p_impl = Null]

InitTable(n) ==
    LET size == RoundUpToPowerOfTwo(IF n < 2 THEN 2 ELSE n)
    IN  Refused \cup
        {Does([map |-> [p_impl |-> StartOf("state")], state |-> State(size, max_load, 0)],
              [state |-> [i \in 0 .. size - 1 |-> Vacant]], "success") : max_load \in NewLoads(size, 0)}

(* s_get_next_element *)
NextElement(start, limit) ==
    LET found == {s \in Taken(mem["state"]) : start <= s /\ s < limit}
    IN  IF found = {} THEN Iter(limit, limit, DONE)
        ELSE Iter(CHOOSE s \in found : \A u \in found : s <= u, limit, READY_FOR_USE)

IterBegin == Iterated(NextElement(0, obj.state.size), "none")
IterNext == Iterated(NextElement((obj.iter.slot + 1) % (SizeMax + 1), obj.iter.limit), "none")

IterDelete_Signed ==
    LET iter == obj.iter
    IN  {[WithoutEntry(last) EXCEPT
             !.ret = "none",
             !.obj.iter = Iter(iter.slot - 1,
                               IF last < iter.slot \/ last >= iter.limit THEN iter.limit - 1 ELSE iter.limit,
                               DELETE_CALLED)] :
            last \in RunFrom(mem["state"], obj.state.size, iter.slot)}

IterDelete ==
    LET iter == obj.iter
    IN  {[WithoutEntry(last) EXCEPT
             !.ret = "none",
             !.obj.iter = Iter((iter.slot - 1) % (SizeMax + 1),
                               IF last < iter.slot \/ last >= iter.limit THEN iter.limit - 1 ELSE iter.limit,
                               DELETE_CALLED)] :
            last \in RunFrom(mem["state"], obj.state.size, iter.slot)}

(* The entries that the callback deletes.  SeaHorn's stubs delete up to as   *)
(* many as there are slots, and touch none.                                *)
Foreach ==
    {LET n == Cardinality(gone)
     IN  Does([obj EXCEPT !.state.entry_count = (@ - n) % (SizeMax + 1)],
              IF tool = "sea" /\ proof = "foreach" THEN mem
              ELSE [mem EXCEPT !["state"] = [i \in DOMAIN @ |-> IF i \in gone THEN Vacant ELSE @[i]]], "none") :
         gone \in SUBSET IF tool = "sea" /\ proof = "foreach" THEN DOMAIN mem["state"] ELSE Taken(mem["state"])}

-----------------------------------------------------------------------------
(* The unit proofs.  elem and was are what the call may write results to.   *)

Map(table, more) ==
    [x \in {"map", "state"} \cup DOMAIN more |->
        CASE x = "map" -> [p_impl |-> StartOf("state")] [] x = "state" -> table.state [] OTHER -> more[x]]

OneTable(p, table, more) == Reach(p, Map(table, more), [state |-> table.codes], <<>>)

HashIterBeginSetup == \E table \in ValidTables : OneTable("iter_begin", table, [iter |-> Iter(0, 0, DONE)])

BeganWell ==
    /\ TableIsValid("map")
    /\ IterIsValid(obj.iter, TableOf("map"))
    /\ obj.iter.status \in {DONE, READY_FOR_USE}
    /\ TableUnchanged("map", "state")

HashIterBeginAsserts == BeganWell

(* done is called on the iterator of a table without entries. *)
HashIterBeginDoneSetup ==
    \E table \in ValidTables :
        /\ table.state.entry_count = 0 <=> DeepIsEmpty(table)
        /\ OneTable("iter_begin_done", table, [iter |-> Iter(0, 0, DONE)])

HashIterBeginDoneAsserts ==
    BeganWell /\ (obj.state.entry_count = 0 => obj.iter.slot = obj.iter.limit)

HashIterDeleteSetup ==
    \E table \in {t \in ValidTables : HasAnEmptySlot(t)} : \E r \in MkValidHashIter(table) :
        /\ r.iter.status = READY_FOR_USE
        /\ OneTable("iter_delete", r.table, [iter |-> r.iter])

HashIterDeleteAsserts ==
    TableIsValid("map") /\ IterIsValid(obj.iter, TableOf("map")) /\ obj.iter.status = DELETE_CALLED

HashIterDoneSetup ==
    \E table \in ValidTables : \E r \in MkValidHashIter(table) :
        /\ r.iter.status \in {DONE, READY_FOR_USE}
        /\ OneTable("iter_done", r.table, [iter |-> r.iter])

HashIterDoneAsserts ==
    /\ TableIsValid("map") /\ IterIsValid(obj.iter, TableOf("map"))
    /\ ret = "true" <=> obj.iter.status = DONE
    /\ obj.iter.status = old.obj.iter.status
    /\ TableUnchanged("map", "state")

HashIterNextSetup ==
    \E table \in ValidTables : \E r \in MkValidHashIter(table) : OneTable("iter_next", r.table, [iter |-> r.iter])

(* A status that is neither is not a failure: the path is assumed away.     *)
HashIterNextAsserts ==
    /\ TableIsValid("map") /\ IterIsValid(obj.iter, TableOf("map"))
    /\ obj.iter.status \in {DONE, READY_FOR_USE} =>
           /\ old.obj.iter.status = DONE => obj.iter.status = DONE
           /\ TableUnchanged("map", "state")

HashTableCleanUpSetup == \E table \in ValidTables : HasAnEmptySlot(table) /\ OneTable("clean_up", table, <<>>)

(* Only SeaHorn and SMACK read the slots, which have been released.         *)
HashTableCleanUpAsserts ==
    /\ obj.map.p_impl = Null
    /\ tool = "sea" => AssertAllZeroes(mem, StartOf("state"), obj.state.size)

HashTableClearSetup == \E table \in ValidTables : HasAnEmptySlot(table) /\ OneTable("clear", table, <<>>)

HashTableClearAsserts ==
    /\ TableIsValid("map") /\ StateOf("map").entry_count = 0
    /\ AssertAllZeroes(mem, obj.map.p_impl, StateOf("map").size)

HashTableCreateSetup ==
    \E table \in ValidTables, track \in BOOLEAN :
        /\ HasAnEmptySlot(table)
        /\ Reach("create", Map(table, [was |-> [created |-> 0]]), [state |-> table.codes], [track |-> track])

OneMore ==
    LET count == StateOf("map").entry_count
        before == old.obj.state.entry_count
    IN  IF ret # "success" THEN count = before
        ELSE IF arg.track THEN count = before + obj.was.created
        ELSE count \in {before, before + 1}

HashTableCreateAsserts == TableIsValid("map") /\ OneMore

HashTablePutSetup ==
    \E table \in ValidTables, track \in BOOLEAN :
        /\ HasAnEmptySlot(table)
        /\ Reach("put", Map(table, [was |-> [created |-> 0]]), [state |-> table.codes], [track |-> track])

HashTablePutAsserts == HasState("map") /\ OneMore

HashTableRemoveSetup ==
    \E table \in ValidTables, track \in BOOLEAN :
        /\ HasAnEmptySlot(table)
        /\ Reach("remove", Map(table, [was |-> [present |-> 0]]), [state |-> table.codes], [track |-> track])

HashTableRemoveAsserts ==
    LET count == StateOf("map").entry_count
        before == old.obj.state.entry_count
    IN  /\ TableIsValid("map")
        /\ IF ret # "success" THEN count = before
           ELSE IF arg.track THEN count = before - obj.was.present
           ELSE count \in {before, before - 1}

HashTableFindSetup ==
    \E table \in ValidTables : HasAnEmptySlot(table) /\ OneTable("find", table, [elem |-> [ptr |-> StartOf("elem")]])

HashTableFindAsserts ==
    /\ ret = "success"
    /\ obj.elem.ptr # Null => Readable(mem, obj.elem.ptr, 1)
    /\ TableIsValid("map") /\ TableUnchanged("map", "state")

(* No two tables of a pair share anything. *)
Pairs == ValidTablesUpTo(MaxPairSize) \X ValidTablesUpTo(MaxPairSize)

TwoTables(p) ==
    \E pair \in Pairs :
        Reach(p, Map(pair[1], [map_b |-> [p_impl |-> StartOf("state_b")], state_b |-> pair[2].state]),
              [state |-> pair[1].codes, state_b |-> pair[2].codes], <<>>)

HashTableEqSetup == TwoTables("eq")

HashTableEqAsserts ==
    /\ TableIsValid("map") /\ TableIsValid("map_b")
    /\ TableUnchanged("map", "state") /\ TableUnchanged("map_b", "state_b")

HashTableSwapSetup == TwoTables("swap")

HashTableSwapAsserts ==
    /\ TableIsValid("map_b") /\ TableUnchanged("map_b", "state")
    /\ TableIsValid("map") /\ TableUnchanged("map", "state_b")

HashTableMoveSetup == \E table \in ValidTables : OneTable("move", table, [to |-> [p_impl |-> StartOf("wild")]])
HashTableMoveAsserts == TableIsValid("to") /\ TableUnchanged("to", "state")

(* Only libFuzzer's build has the count of entries be right. *)
HashTableForeachSetup ==
    \E table \in Tables({state \in States(MaxTableSize) : StateIsValidIgnoringCount(state)}) :
        /\ tool = "fuzz" => EntryCountIsValid(table)
        /\ OneTable("foreach", table, <<>>)

HashTableForeachAsserts == HasState("map") /\ StateIsValidIgnoringCount(StateOf("map"))

HashTableForeachDeepLooseSetup ==
    \E table \in Tables({state \in States(MaxPairSize) : StateIsValidIgnoringCount(state)}) :
        OneTable("foreach_deep_loose", table, <<>>)

HashTableForeachDeepLooseAsserts == HasState("map") /\ StateIsValidIgnoringCount(StateOf("map"))

HashTableForeachDeepPreciseSetup ==
    \E table \in ValidTablesUpTo(MaxPairSize) :
        EntryCountIsValid(table) /\ OneTable("foreach_deep_precise", table, <<>>)

HashTableForeachDeepPreciseAsserts == TableIsValid("map")

HashTableGetEntryCountSetup ==
    \E table \in ValidTables : OneTable("get_entry_count", table, [result |-> [value |-> 0]])

HashTableGetEntryCountAsserts ==
    /\ obj.result.value = old.obj.state.entry_count
    /\ TableIsValid("map") /\ TableUnchanged("map", "state")

NoTable(p, n) == Reach(p, [map |-> [p_impl |-> StartOf("wild")]], <<>>, [size |-> n])

HashTableInitBoundedSetup ==
    \E n \in IF tool = "fuzz" THEN {any % MaxTableSize : any \in 0 .. SizeMax} ELSE 0 .. MaxTableSize :
        NoTable("init_bounded", n)

HashTableInitBoundedAsserts ==
    ret = "success" => TableIsValid("map") /\ AssertAllZeroes(mem, obj.map.p_impl, StateOf("map").size)

HashTableInitUnboundedSetup == \E n \in 0 .. SizeMax : NoTable("init_unbounded", n)
HashTableInitUnboundedAsserts == ret = "success" => TableIsValid("map")

-----------------------------------------------------------------------------

(* Not every unit proof is built for every tool. *)
Setup ==
    /\ pc = "setup"
    /\ \/ HashIterBeginSetup \/ HashIterBeginDoneSetup \/ HashIterDoneSetup \/ HashIterNextSetup
       \/ HashTableCleanUpSetup \/ HashTableClearSetup \/ HashTableFindSetup
       \/ HashTableEqSetup \/ HashTableSwapSetup \/ HashTableMoveSetup
       \/ HashTableGetEntryCountSetup \/ HashTableInitBoundedSetup
       \/ tool # "klee" /\ \/ HashIterDeleteSetup
                           \/ HashTableCreateSetup \/ HashTablePutSetup \/ HashTableRemoveSetup
                           \/ HashTableForeachSetup
       \/ tool # "fuzz" /\ HashTableInitUnboundedSetup
       \/ tool = "sea" /\ (HashTableForeachDeepLooseSetup \/ HashTableForeachDeepPreciseSetup)

Outcomes ==
    CASE proof \in {"iter_begin", "iter_begin_done"} -> {IterBegin}
      [] proof = "iter_delete" -> IterDelete
      [] proof = "iter_done" -> {Same(IF obj.iter.slot = obj.iter.limit THEN "true" ELSE "false")}
      [] proof = "iter_next" -> {IterNext}
      [] proof = "clean_up" -> {CleanUp}
      [] proof = "clear" -> {Cleared}
      [] proof \in {"create", "put"} -> Create
      [] proof = "remove" -> Remove
      [] proof = "find" -> Find
      [] proof = "eq" -> {Same("true"), Same("false")}
      [] proof = "swap" -> {Does([obj EXCEPT !.map = obj.map_b, !.map_b = obj.map], mem, "none")}
      [] proof = "move" -> {Does([obj EXCEPT !.to = obj.map, !.map.p_impl = Null], mem, "none")}
      [] proof \in {"foreach", "foreach_deep_loose", "foreach_deep_precise"} -> Foreach
      [] proof = "get_entry_count" -> {[Same("none") EXCEPT !.obj.result.value = obj.state.entry_count]}
      [] proof \in {"init_bounded", "init_unbounded"} -> InitTable(arg.size)

Asserts ==
    CASE proof = "iter_begin" -> HashIterBeginAsserts
      [] proof = "iter_begin_done" -> HashIterBeginDoneAsserts
      [] proof = "iter_delete" -> HashIterDeleteAsserts
      [] proof = "iter_done" -> HashIterDoneAsserts
      [] proof = "iter_next" -> HashIterNextAsserts
      [] proof = "clean_up" -> HashTableCleanUpAsserts
      [] proof = "clear" -> HashTableClearAsserts
      [] proof = "create" -> HashTableCreateAsserts
      [] proof = "put" -> HashTablePutAsserts
      [] proof = "remove" -> HashTableRemoveAsserts
      [] proof = "find" -> HashTableFindAsserts
      [] proof = "eq" -> HashTableEqAsserts
      [] proof = "swap" -> HashTableSwapAsserts
      [] proof = "move" -> HashTableMoveAsserts
      [] proof = "foreach" -> HashTableForeachAsserts
      [] proof = "foreach_deep_loose" -> HashTableForeachDeepLooseAsserts
      [] proof = "foreach_deep_precise" -> HashTableForeachDeepPreciseAsserts
      [] proof = "get_entry_count" -> HashTableGetEntryCountAsserts
      [] proof = "init_bounded" -> HashTableInitBoundedAsserts
      [] proof = "init_unbounded" -> HashTableInitUnboundedAsserts

Next ==
    \/ Setup
    \/ Call(Outcomes) \/ SkippedCall(Outcomes)
    \/ Fault
    \/ Check(Asserts)

Spec == Init /\ [][Next]_vars

-----------------------------------------------------------------------------
(* The second generation (seahorn/jobs2): the same inputs and the same calls *)
(* with other assertions, which ask SeaHorn whether an object was written to *)
(* where the first generation compares a byte it saved.                    *)

(* The state and its slots are one object, found through the map as it is    *)
(* after the call.                                                         *)
TableModified(p) == Modified(p.block) \/ BytesModified(p)

MapUntouched_SlotsOnly == ~Modified("map") /\ ~BytesModified(obj.map.p_impl)
MapUntouched == ~Modified("map") /\ ~TableModified(obj.map.p_impl)

HashIterBegin2Asserts ==
    /\ TableIsValid("map")
    /\ IterIsValid(obj.iter, TableOf("map"))
    /\ obj.iter.status \in {DONE, READY_FOR_USE}
    /\ MapUntouched

HashIterBeginDone2Asserts ==
    HashIterBegin2Asserts /\ (obj.state.entry_count = 0 => obj.iter.slot = obj.iter.limit)

HashIterDone2Asserts ==
    /\ TableIsValid("map") /\ IterIsValid(obj.iter, TableOf("map"))
    /\ ret = "true" <=> obj.iter.status = DONE
    /\ obj.iter.status = old.obj.iter.status
    /\ MapUntouched

HashIterNext2Asserts_Ready ==
    /\ TableIsValid("map") /\ IterIsValid(obj.iter, TableOf("map"))
    /\ obj.iter.status \in {DONE, READY_FOR_USE} =>
           (old.obj.iter.status = DONE <=> obj.iter.status = DONE) /\ MapUntouched

HashIterNext2Asserts ==
    /\ TableIsValid("map") /\ IterIsValid(obj.iter, TableOf("map"))
    /\ obj.iter.status \in {DONE, READY_FOR_USE} =>
           /\ old.obj.iter.status = DONE => obj.iter.status = DONE
           /\ MapUntouched

HashTableFind2Asserts ==
    /\ ret = "success"
    /\ obj.elem.ptr # Null => Readable(mem, obj.elem.ptr, 1)
    /\ TableIsValid("map") /\ MapUntouched

HashTableGetEntryCount2Asserts ==
    /\ obj.result.value = old.obj.state.entry_count
    /\ TableIsValid("map") /\ MapUntouched

SecondGeneration ==
    {"iter_begin", "iter_begin_done", "iter_done", "iter_next", "find",
     "get_entry_count"}

(* Its verdict where the first generation has given one. *)
SecondRuns == Judged /\ tool = "sea" /\ proof \in SecondGeneration

Asserts2 ==
    CASE proof = "iter_begin" -> HashIterBegin2Asserts
      [] proof = "iter_begin_done" -> HashIterBeginDone2Asserts
      [] proof = "iter_done" -> HashIterDone2Asserts
      [] proof = "iter_next" -> HashIterNext2Asserts
      [] proof = "find" -> HashTableFind2Asserts
      [] proof = "get_entry_count" -> HashTableGetEntryCount2Asserts

-----------------------------------------------------------------------------

TypeOK ==
    /\ tool \in Tools
    /\ pc \in {"setup", "call", "check", "passed", "failed"}
    /\ \A s \in DOMAIN obj \cap {"state", "state_b", "new"} :
           /\ obj[s].max_load \in 0 .. SizeMax /\ obj[s].entry_count \in 0 .. SizeMax
           /\ faults = 0 => mem[s] \in Codes(obj[s].size)
    /\ "iter" \in DOMAIN obj => obj.iter.slot \in 0 .. SizeMax /\ obj.iter.limit \in 0 .. SizeMax
    /\ faults \in 0 .. MaxFaults

(* No unit proof fails for a library that is correct, although the count of *)
(* entries of the tables that the helpers build need not be right: where it *)
(* would wrap, the table is assumed to have an entry, or the count ignored. *)
NoFalseAlarm == pc = "failed" => Differences # {}

(* What a unit proof looks at after its call. *)
Header(s) == Field(s, {"size", "mask", "max_load", "entry_count"})
WholeTable(s) == Header(s) \cup ByteOf(s, 0 .. old.obj[s].size - 1)
Count == {p \in Field("state", {"entry_count"}) \cup Field("new", {"entry_count"}) : p[1] \in DOMAIN obj}

(* Two tables of the same content may stay where they are; and when nothing  *)
(* was done, the count and the answer agree as well.                       *)
Alike == old.obj.state = old.obj.state_b /\ old.mem.state = old.mem.state_b

Tracked(answer) ==
    IF ret = "error" THEN Count
    ELSE IF arg.track /\ obj # old.obj THEN Count \cup Field("was", {answer}) ELSE {}

Watched ==
    CASE proof \in {"iter_begin", "iter_begin_done"} -> WholeTable("state") \cup Field("map", {"p_impl"})
      [] proof = "iter_delete" -> Field("iter", {"status"})
      [] proof = "iter_done" -> WholeTable("state") \cup {<<"ret", "true">>, <<"ret", "false">>} \cup Field("iter", {"status"})
      [] proof = "iter_next" -> IF obj.iter.status = DELETE_CALLED THEN {} ELSE WholeTable("state")
      [] proof = "clean_up" -> Field("map", {"p_impl"}) \cup (IF tool = "sea" THEN ByteOf("state", 0 .. old.obj.state.size - 1) ELSE {})
      [] proof = "clear" -> Field("state", {"size", "mask", "entry_count"}) \cup ByteOf("state", 0 .. old.obj.state.size - 1)
      [] proof \in {"create", "put"} -> Tracked("created")
      [] proof = "remove" -> Tracked("present")
      [] proof = "find" -> WholeTable("state") \cup Field("map", {"p_impl"}) \cup {<<"ret", "error">>}
      [] proof \in {"eq", "swap"} ->
           WholeTable("state") \cup WholeTable("state_b")
           \cup (IF proof = "swap" /\ Alike THEN {} ELSE Field("map", {"p_impl"}) \cup Field("map_b", {"p_impl"}))
      [] proof = "move" -> WholeTable("state") \cup Field("to", {"p_impl"})
      [] proof = "get_entry_count" -> WholeTable("state") \cup Field("result", {"value"})
      [] proof = "init_bounded" -> IF ret = "success" THEN ByteOf("state", 0 .. obj.state.size - 1) \cup Field("map", {"p_impl"}) ELSE {}
      [] OTHER -> {}

(* A unit proof that passes has seen that the table it looks at is, or is   *)
(* not, the one it was, in the byte it leaves to an arbitrary choice, and   *)
(* that counts and answers agree.                                          *)
PassedMeansCorrect == pc = "passed" => Differences \cap Watched = {}

(* has_an_empty_slot also assumes that there is an entry, in seven unit      *)
(* proofs: these never start with the empty table that init, clear or the   *)
(* last removal leaves, only the others do.  And it assumes a vacant slot,  *)
(* which a table keeps whose entries were counted right, but for the slots  *)
(* that SeaHorn's stub of the expansion makes up.                           *)
WasCounted ==
    \A s \in DOMAIN old.obj \cap {"state", "state_b"} :
        EntryCountIsValid([state |-> old.obj[s], codes |-> old.mem[s]])

TriedWhereItNeedsAVacancy(x) ==
    StateOf(x).entry_count # 0 /\ WasCounted =>
        HasAnEmptySlot(TableOf(x)) \/ (tool = "sea" /\ "new" \in DOMAIN obj)

(* A table or iterator that a call of a correct library leaves is one that  *)
(* the helpers build, so that the unit proofs have tried the calls that     *)
(* follow, put, create, find and remove as well unless the table is empty;   *)
(* but for tables that have grown beyond the maximum, and, with libFuzzer,   *)
(* iterators that are ready or done.  After foreach the count has to be      *)
(* ignored again.                                                          *)
NextCallIsTried ==
    pc = "passed" /\ faults = 0 =>
        /\ \A x \in DOMAIN obj \cap {"map", "map_b", "to"} :
               HasState(x) /\ proof \notin {"foreach", "foreach_deep_loose"} =>
                   \/ StateOf(x).size > MaxTableSize
                   \/ /\ StateOf(x) \in States(MaxTableSize) /\ StateIsValid(StateOf(x))
                      /\ TriedWhereItNeedsAVacancy(x)
        /\ "iter" \in DOMAIN obj /\ tool # "fuzz" =>
               obj.iter \in {r.iter : r \in MkValidHashIter(TableOf("map"))}

(* No unit proof of the second generation fails for a library that is       *)
(* correct: what it says is not modified, a correct function leaves alone. *)
NoFalseAlarm2 == SecondRuns /\ ~Asserts2 => Differences # {}

(* What the second generation passes the first one passes too: it looks at  *)
(* the struct, the state and the slots, as the first does with one byte     *)
(* of each.                                                                *)
FirstPassesToo == SecondRuns /\ Asserts2 => Asserts
=============================================================================
