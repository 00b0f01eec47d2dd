------------------------------ MODULE MCMemory ------------------------------
(***************************************************************************)
(* The functions that a build puts in place of others and that read and     *)
(* write memory, for TLC: those of bcmp.c that compare, those of bcmp.c     *)
(* that write, or the nd functions and allocators of the libFuzzer build.   *)
(* One group runs; the other two have returned, or idle, from the start.    *)
(***************************************************************************)
EXTENDS MemCompare, FuzzDriver

CONSTANTS WordSize, MaxStart, MaxDistance, MaxMoveLength

VARIABLES
    group,            \* "compare", "move" or "fuzz"
    move_function, to, from, len, move_mem, move_pc, move_n,
    rem, chunks, tmp_to, tmp_from, touched

Move == INSTANCE MemMove WITH
    MaxLength <- MaxMoveLength,
    function <- move_function, mem <- move_mem, pc <- move_pc, n <- move_n

ASSUME MoveAssumption == Move!ConstantsMakeSense
ASSUME IdleAssumption == 0 \in Byte

move_vars ==
    <<move_function, to, from, len, move_mem, move_pc, move_n,
      rem, chunks, tmp_to, tmp_from, touched>>

CompareIsIdle ==
    /\ function = "bcmp" /\ mem = [a \in Address |-> 0]
    /\ p1 = NULL /\ p2 = NULL /\ n = 0
    /\ pc = "returned" /\ i = 0 /\ result = 0 /\ read = {}

MoveIsIdle ==
    /\ move_function = "memcpy" /\ to = 4 /\ from = 4 /\ len = 0
    /\ move_mem = [a \in Move!Address |-> a]
    /\ move_pc = "returned" /\ move_n = 0
    /\ rem = 0 /\ chunks = 0 /\ tmp_to = 4 /\ tmp_from = 4
    /\ touched = {}

CallInit ==
    \/ group = "compare" /\ Init /\ MoveIsIdle /\ FuzzInit
    \/ group = "move" /\ CompareIsIdle /\ Move!Init /\ FuzzInit
    \/ group = "fuzz" /\ CompareIsIdle /\ MoveIsIdle /\ FuzzInit

CallNext ==
    \/ group = "compare" /\ Next /\ UNCHANGED <<group, move_vars, fuzz_vars>>
    \/ group = "move" /\ Move!Next /\ UNCHANGED <<group, vars, fuzz_vars>>
    \/ group = "fuzz" /\ FuzzNext /\ UNCHANGED <<group, vars, move_vars>>

call_vars == <<group, vars, move_vars, fuzz_vars>>

CallSpec == CallInit /\ [][CallNext]_call_vars /\ WF_call_vars(CallNext)

-----------------------------------------------------------------------------

(* When memcpy, memmove or memset returns, the destination holds what the    *)
(* source held at the call, however the two overlap, and no other byte has  *)
(* changed; on the way no counter wraps, and no more than len bytes at      *)
(* either pointer are used.  A memmove to a higher address with words of    *)
(* eight bytes may use, and change, four bytes more behind each; and if the *)
(* addresses are less than four bytes apart, its bytes may be wrong.        *)
BytesAreMoved == Move!TypeOK /\ Move!BytesAreMoved /\ Move!AccessesStayNear

(* "sassert(sea_is_dereferenceable(dst, len))" and the same of src (bcmp.c,  *)
(* lines 142-143): what memmove asserts of its arguments in the other       *)
(* builds, len bytes at either pointer, is all it needs.  The one built for *)
(* Symbiotic uses more, where an unsigned long has eight bytes.             *)
AccessesStayInside == Move!AccessesStayInside

(* Every call returns: no loop counts past its end.                         *)
EveryCallReturns == Returns /\ Move!Returns
=============================================================================
