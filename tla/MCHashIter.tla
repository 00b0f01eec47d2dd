----------------------------- MODULE MCHashIter -----------------------------
(***************************************************************************)
(* The loop of aws_hash_table_foreach for TLC: with the iterator stubs, or  *)
(* with the library's iterator, which is checked against the stubs.  The    *)
(* one that is not chosen has returned from the start.                     *)
(***************************************************************************)
EXTENDS HashIterStubs

CONSTANT TableSize    \* of the table the library's iterator runs over

ASSUME TableSizeIsASize == TableSize \in 1 .. SizeMax

VARIABLES lib_pc, slots, lib_entry_count, lib_slot, lib_limit, lib_status, visits

Lib == INSTANCE HashIter WITH
    Size <- TableSize, pc <- lib_pc, entry_count <- lib_entry_count,
    slot <- lib_slot, limit <- lib_limit, status <- lib_status

StubsIdle ==
    /\ pc = "returned" /\ size = 2 /\ entry_count = 0
    /\ slot = 0 /\ limit = 0 /\ status = "none"

LibraryIdle ==
    /\ lib_pc = "returned" /\ slots = [s \in Lib!Place |-> Lib!Vacant] /\ lib_entry_count = 0
    /\ lib_slot = 0 /\ lib_limit = 0 /\ lib_status = "none"
    /\ visits = [k \in Lib!Key |-> 0]

LoopInit == (Init /\ LibraryIdle) \/ (Lib!Init /\ StubsIdle)

lib_vars == <<lib_pc, slots, lib_entry_count, lib_slot, lib_limit, lib_status, visits>>

LoopNext ==
    \/ Next /\ UNCHANGED lib_vars
    \/ Lib!Next /\ UNCHANGED vars

LoopSpec == LoopInit /\ [][LoopNext]_<<vars, lib_vars>> /\ WF_<<vars, lib_vars>>(LoopNext)

-----------------------------------------------------------------------------

(* aws_hash_iter_delete keeps the table one in which every key is found, and *)
(* entry_count the number of entries; the iterator's slot stays in the      *)
(* table, but for the largest size_t that stands for the one before slot 0. *)
TableStaysValid == Lib!TypeOK /\ Lib!TableStaysValid

(* aws_hash_table_foreach gives no element to the callback twice, although a *)
(* deletion moves entries over slots that were, or will be, looked at, and   *)
(* when it is done it has given it all that are left.                       *)
EachIsVisitedOnce == Lib!VisitedOnce /\ Lib!NoneIsMissed

(* The stubs of begin, done and next may do what the library's functions do  *)
(* but for the steps next to a deletion.                                   *)
CoveredByStubs == Lib!CoveredByStubs

(* With the stubs and without them the loop ends, whatever the callback      *)
(* answers and deletes: every round leaves fewer slots to look at.          *)
EveryLoopReturns == ForeachReturns /\ Lib!ForeachReturns
=============================================================================
