----------------------------- MODULE FuzzDriver -----------------------------
(***************************************************************************)
(* The libFuzzer build of the unit proofs: nd_fuzz.c, which turns the bytes *)
(* of one input into the results of the nd functions, and the allocators of *)
(* fuzz_allocators.c, which fill what they return from the same bytes.      *)
(*                                                                         *)
(* libFuzzer calls LLVMFuzzerTestOneInput again and again; a unit proof is  *)
(* any program over the functions of these files.  A failed assumption and *)
(* an input that is used up jump back into LLVMFuzzerTestOneInput.         *)
(***************************************************************************)
EXTENDS Integers

CONSTANTS
    Word,         \* size_t counts modulo Word
    Alignment,    \* sizeof(intmax_t)
    MaxInput,     \* the longest input
    MaxAlloc,     \* malloc fails above this size
    Request,      \* the sizes unit proofs ask for
    TypeSize,     \* the sizes of the types of the nd functions
    NDebug        \* the build defines NDEBUG, as CMake's release types do

ASSUME WordIsLarge == Word \in Nat /\ MaxInput + MaxAlloc + Alignment < Word
ASSUME BoundsAreNat == {MaxInput, MaxAlloc} \subseteq Nat /\ Alignment \in Nat \ {0}
ASSUME RequestIsASize == Request \subseteq 0 .. Word - 1
ASSUME TypeSizesArePositive == TypeSize \subseteq 1 .. MaxAlloc
ASSUME NDebugOrNot == NDebug \in BOOLEAN

VARIABLES
    target,           \* "idle", "running" or "crashed"
    data_size,    \* g_fuzz_data_size
    iterator,     \* g_fuzz_data_iterator - g_fuzz_data
    copied,       \* the last memcpy: bytes [from, to) into a block of size room
    violated      \* an assertion of the unit proof was false in this run

fuzz_vars == <<target, data_size, iterator, copied, violated>>

NoCopy == [from |-> 0, to |-> 0, room |-> 0]

FuzzInit ==
    /\ target = "idle" /\ data_size = 0 /\ iterator = 0
    /\ copied = NoCopy /\ violated = FALSE

(* LLVMFuzzerTestOneInput: the cursor starts afresh. *)
TestOneInput(size) ==
    /\ target = "idle"
    /\ target' = "running" /\ data_size' = size /\ iterator' = 0
    /\ copied' = NoCopy /\ violated' = FALSE

(* The unit proof returns, or longjmp ends it early. *)
EndOfRun == target' = "idle" /\ UNCHANGED <<data_size, iterator, copied, violated>>

UnitProofReturns == target = "running" /\ EndOfRun

(* The test before n bytes are taken.  It also turns down an input of which *)
(* exactly n bytes are left.                                               *)
UsedUp(n) == (iterator + n) % Word >= data_size

(* memhavoc(ptr, n) on a block of room bytes, and with room = n every nd    *)
(* function.                                                               *)
Take_NotAdvancing(n, room) ==
    IF UsedUp(n) THEN EndOfRun
    ELSE /\ copied' = [from |-> iterator, to |-> iterator + n, room |-> room]
         /\ UNCHANGED <<target, data_size, iterator, violated>>

Take(n, room) ==
    IF UsedUp(n) THEN EndOfRun
    ELSE /\ copied' = [from |-> iterator, to |-> iterator + n, room |-> room]
         /\ iterator' = iterator + n
         /\ UNCHANGED <<target, data_size, violated>>

Nd(n) == target = "running" /\ Take(n, n)

(* malloc: NULL, or a block of that size. *)
Fails(size) == TRUE
Succeeds(size) == size <= MaxAlloc

(* bounded_malloc_havoc and can_fail_malloc_havoc are the same function. *)
MallocHavoc(size) ==
    /\ target = "running"
    /\ \/ Fails(size) /\ UNCHANGED fuzz_vars
       \/ Succeeds(size) /\ Take(size, size)

SeaMallocSafe(size) ==
    /\ target = "running"
    /\ \/ Fails(size) /\ EndOfRun
       \/ Succeeds(size) /\ UNCHANGED fuzz_vars

AlignRoundUp_Down(size) == (size \div Alignment) * Alignment
AlignRoundUp(size) == (((size + Alignment - 1) \div Alignment) * Alignment) % Word

(* Bound: no unit proof asks for a size that the rounding wraps to 0. *)
SeaMallocAlignedHavoc(size) ==
    /\ target = "running" /\ size + Alignment <= Word
    /\ \/ Fails(size) /\ UNCHANGED fuzz_vars
       \/ Succeeds(AlignRoundUp(size)) /\ Take(size, AlignRoundUp(size))

Assume(v) == target = "running" /\ ~v /\ EndOfRun

(* __VERIFIER_assert(FALSE) and __VERIFIER_error end in assert(0), which    *)
(* NDEBUG makes nothing.                                                   *)
AssertionFails ==
    /\ target = "running"
    /\ violated' = TRUE
    /\ target' = IF NDebug THEN target ELSE "crashed"
    /\ UNCHANGED <<data_size, iterator, copied>>

FuzzNext ==
    \/ \E size \in 0 .. MaxInput : TestOneInput(size)
    \/ \E n \in TypeSize : Nd(n)
    \/ \E size \in Request :
           MallocHavoc(size) \/ SeaMallocSafe(size) \/ SeaMallocAlignedHavoc(size)
    \/ Assume(FALSE)
    \/ AssertionFails
    \/ UnitProofReturns

FuzzSpec == FuzzInit /\ [][FuzzNext]_fuzz_vars

-----------------------------------------------------------------------------

FuzzTypeOK ==
    /\ target \in {"idle", "running", "crashed"}
    /\ data_size \in 0 .. MaxInput /\ iterator \in 0 .. data_size
    /\ copied \in [from : Nat, to : Nat, room : Nat]
    /\ violated \in BOOLEAN

(* No nd function and no allocator reads bytes behind the input or writes   *)
(* behind the block: the sum that is compared with the size wraps, but no   *)
(* malloc succeeds for a size that would make it wrap.                     *)
CopiesStayInside ==
    /\ copied.to <= data_size
    /\ copied.to - copied.from <= copied.room

(* Within a run the choices are independent: no two of them are made from   *)
(* the same bytes.                                                         *)
NoByteIsUsedTwice ==
    [][target' = "running" /\ target = "running" /\ copied' # copied => copied'.from >= copied.to]_fuzz_vars

(* A unit proof whose assertion is false crashes the target: that is how a  *)
(* fuzzing job fails.                                                      *)
FalseAssertionCrashes == violated => target = "crashed"
=============================================================================
