----------------------------- MODULE ProofHeap -----------------------------
(***************************************************************************)
(* The aws_mem_* functions as the proofs see them.  Most builds link        *)
(* allocator_override.c on top of the can_fail_malloc_havoc of SeaHorn      *)
(* ("override"), KLEE or SMACK; the mem_realloc_unsafe job has the library's *)
(* functions call the allocators of proof_allocators.c, one of which has a  *)
(* mem_realloc ("library").                                                *)
(*                                                                         *)
(* The heap has blocks; callers have pointers and the sizes they believe   *)
(* their memory has: a block is larger than its owner believes after a     *)
(* shrinking aws_mem_realloc, and where its size was rounded up to the      *)
(* alignment.  Memory errors of C (a copy that leaves a block, a free of     *)
(* what is not allocated) set memory_error.                                *)
(***************************************************************************)
EXTENDS Integers, FiniteSets, TLC

CONSTANTS
    Client,
    Addr,             \* the addresses malloc may return
    Null,
    Byte,
    SizeMax,          \* the largest size_t
    AllocatorCanFail, \* the build option SEA_ALLOCATOR_CAN_FAIL
    Alignment,        \* sizeof(intmax_t)
    PageSize          \* the last size klee_switch.c has a case for, 4096

ASSUME ZeroIsAByte == 0 \in Byte
ASSUME SizeMaxIsNat == SizeMax \in Nat
ASSUME NullIsNoAddress == Null \notin Addr
ASSUME AlignmentIsPositive == Alignment \in Nat \ {0}
ASSUME PageIsASize == PageSize \in 0 .. SizeMax

VARIABLES
    build,
    heap,             \* the blocks: offset -> byte; NoBlock where none is
    ptr,              \* each caller's pointer
    size,             \* the size the caller will pass as oldsize
    answer,           \* of the last call
    memory_error

vars == <<build, heap, ptr, size, answer, memory_error>>

-----------------------------------------------------------------------------

NoBlock == [o \in {} |-> 0]
Bytes(n) == [0 .. n - 1 -> Byte]
Allocated(h) == {a \in Addr : h[a] # NoBlock}

(* The heap and the pointer a call leaves. *)
Result(h, a) == [heap |-> h, mem |-> a]

(* The results of sea_malloc_havoc(n) in heap h: the content is any. *)
Mallocs(h, n) ==
    UNION {{Result([h EXCEPT ![a] = m], a) : a \in Addr \ Allocated(h)} : m \in Bytes(n)}

CanFailMallocHavoc(h, n) ==
    {Result(h, Null)} \cup (IF n = 0 THEN {} ELSE Mallocs(h, n))

BoundedMallocHavoc(h, n) ==
    IF n = 0 THEN {Result(h, Null)} ELSE Mallocs(h, n)

(* s_malloc_allocator *)
SMallocAllocator(h, n) ==
    IF AllocatorCanFail THEN CanFailMallocHavoc(h, n) ELSE BoundedMallocHavoc(h, n)

(* KLEE's switch has a case for each size up to a page; its default gives a   *)
(* larger size as it is.                                                   *)
AllocSize_Page(n) == IF n \in 1 .. PageSize THEN n ELSE PageSize
AllocSize(n) == IF n \in 1 .. PageSize THEN n ELSE IF n <= PageSize THEN PageSize ELSE n

KleeBoundedMallocHavoc(h, n) ==
    {Result(h, Null)} \cup (IF n = 0 THEN {} ELSE Mallocs(h, AllocSize(n)))

KleeCanFailMallocHavoc(h, n) == {Result(h, Null)} \cup KleeBoundedMallocHavoc(h, n)

(* SMACK's malloc does not fail. *)
SmackCanFailMallocHavoc(h, n) == IF n = 0 THEN {Result(h, Null)} ELSE Mallocs(h, n)

MemAcquire(h, n) ==
    CASE build = "override" -> CanFailMallocHavoc(h, n)
      [] build = "klee" -> KleeCanFailMallocHavoc(h, n)
      [] build = "smack" -> SmackCanFailMallocHavoc(h, n)
      [] build = "library" -> SMallocAllocator(h, n)

(* sea_malloc_aligned_havoc; KLEE fills the whole block. *)
AlignRoundUp(n) == ((n + Alignment - 1) \div Alignment) * Alignment
SeaMallocAlignedHavoc(h, n) == {Result(h, Null)} \cup Mallocs(h, AlignRoundUp(n))

(* free and memcpy, and when a call of them is an error. *)
Freed(h, a) == IF a = Null THEN h ELSE [h EXCEPT ![a] = NoBlock]
FreeIsAnError(h, a) == a # Null /\ h[a] = NoBlock

CopyIsAnError(h, to, from, n) ==
    n > 0 /\ \E a \in {to, from} : a = Null \/ ~(0 .. n - 1 \subseteq DOMAIN h[a])

Returns(c, h, a, n) ==
    /\ heap' = h
    /\ ptr' = [ptr EXCEPT ![c] = a]
    /\ size' = [size EXCEPT ![c] = n]
    /\ answer' = "ok"

Fails == answer' = "error" /\ UNCHANGED <<heap, ptr, size, memory_error>>

-----------------------------------------------------------------------------

Init ==
    /\ build \in {"override", "klee", "smack", "library"}
    /\ heap = [a \in Addr |-> NoBlock]
    /\ ptr = [c \in Client |-> Null]
    /\ size = [c \in Client |-> 0]
    /\ answer = "ok"
    /\ memory_error = FALSE

(* aws_mem_acquire: it asserts that n is not 0. *)
Acquire(c, n) ==
    /\ ptr[c] = Null /\ n > 0
    /\ \E r \in MemAcquire(heap, n) :
           IF r.mem = Null THEN Fails
           ELSE Returns(c, r.heap, r.mem, n) /\ UNCHANGED memory_error

(* The helpers call it themselves.  Bound: no size is rounded up to one      *)
(* beyond SizeMax.                                                         *)
AcquireAligned(c, n) ==
    /\ ptr[c] = Null /\ n > 0 /\ AlignRoundUp(n) <= SizeMax
    /\ \E r \in SeaMallocAlignedHavoc(heap, n) :
           IF r.mem = Null THEN Fails
           ELSE Returns(c, r.heap, r.mem, n) /\ UNCHANGED memory_error

(* What memset leaves of the first n bytes of a block. *)
Zeroed(m, n) == [o \in DOMAIN m |-> IF o < n THEN 0 ELSE m[o]]

(* aws_mem_calloc: the product of the sizes may not fit into a size_t. *)
MulSizeOverflows(num, each) == num * each > SizeMax

Calloc(c, num, each) ==
    LET n == (num * each) % (SizeMax + 1)
    IN  /\ ptr[c] = Null /\ num * each > 0
        /\ IF MulSizeOverflows(num, each) THEN Fails
           ELSE \E r \in MemAcquire(heap, n) :
                    IF r.mem = Null THEN Fails
                    ELSE /\ Returns(c, [r.heap EXCEPT ![r.mem] = Zeroed(@, n)], r.mem, num * each)
                         /\ UNCHANGED memory_error

(* aws_mem_release; the caller forgets its pointer. *)
Release(c) ==
    /\ Returns(c, Freed(heap, ptr[c]), Null, 0)
    /\ memory_error' = (memory_error \/ FreeIsAnError(heap, ptr[c]))

(* What memcpy and memset leave at address to: the old bytes, then zeroes. *)
Grown_OffByOne(h, to, from, old, n) ==
    [h EXCEPT ![to] = [o \in DOMAIN @ |-> IF o < old - 1 THEN h[from][o] ELSE Zeroed(@, n)[o]]]

Grown(h, to, from, old, n) ==
    [h EXCEPT ![to] = [o \in DOMAIN @ |-> IF o < old THEN h[from][o] ELSE Zeroed(@, n)[o]]]

(* aws_mem_realloc emulated: the new block comes first, so that a failure   *)
(* leaves the caller with what it had.                                     *)
GrowInto_Leaks(c, n) ==
    \E r \in MemAcquire(heap, n) :
        IF r.mem = Null THEN Fails
        ELSE /\ Returns(c, Grown(r.heap, r.mem, ptr[c], size[c], n), r.mem, n)
             /\ UNCHANGED memory_error

GrowInto_FreesFirst(c, n) ==
    \E r \in MemAcquire(heap, n) :
        IF r.mem = Null THEN Fails
        ELSE /\ Returns(c, Freed(Grown(r.heap, r.mem, ptr[c], size[c], n), ptr[c]), r.mem, n)
             /\ memory_error' = (\/ memory_error
                                 \/ CopyIsAnError(Freed(r.heap, ptr[c]), r.mem, ptr[c], size[c]))

GrowInto(c, n) ==
    \E r \in MemAcquire(heap, n) :
        IF r.mem = Null THEN Fails
        ELSE /\ Returns(c, Freed(Grown(r.heap, r.mem, ptr[c], size[c], n), ptr[c]), r.mem, n)
             /\ memory_error' = (\/ memory_error
                                 \/ CopyIsAnError(r.heap, r.mem, ptr[c], size[c])
                                 \/ FreeIsAnError(r.heap, ptr[c]))

(* A shrunk block stays where and as long as it is. *)
Realloc(c, n) ==
    IF n = 0 THEN Release(c)
    ELSE IF size[c] >= n
         THEN /\ size' = [size EXCEPT ![c] = n] /\ answer' = "ok"
              /\ UNCHANGED <<heap, ptr, memory_error>>
         ELSE GrowInto(c, n)

(* s_realloc_allocator of sea_allocator_with_realloc: the library calls it  *)
(* for sizes other than 0.  It does not look at what s_malloc_allocator     *)
(* returned before it copies and frees.                                    *)
SReallocGrows(c, n) ==
    \E r \in SMallocAllocator(heap, n) :
        LET kept == [o \in 0 .. n - 1 |-> IF o < size[c] THEN heap[ptr[c]][o]
                                          ELSE r.heap[r.mem][o]]
            copied == IF r.mem = Null \/ ptr[c] = Null THEN r.heap
                      ELSE [r.heap EXCEPT ![r.mem] = kept]
        IN  /\ heap' = Freed(copied, ptr[c])
            /\ memory_error' = (\/ memory_error
                                \/ ptr[c] # Null /\ CopyIsAnError(r.heap, r.mem, ptr[c], size[c])
                                \/ FreeIsAnError(r.heap, ptr[c]))
            /\ answer' = IF r.mem = Null THEN "error" ELSE "ok"
            /\ ptr' = IF r.mem = Null THEN ptr ELSE [ptr EXCEPT ![c] = r.mem]
            /\ size' = IF r.mem = Null THEN size ELSE [size EXCEPT ![c] = n]

SReallocAllocator(c, n) ==
    /\ build = "library" /\ n > size[c]
    /\ SReallocGrows(c, n)

(* The caller uses its memory. *)
Write(c, o, b) ==
    /\ o < size[c]
    /\ memory_error' = (memory_error \/ ptr[c] = Null \/ o \notin DOMAIN heap[ptr[c]])
    /\ heap' = [heap EXCEPT ![ptr[c]] = [@ EXCEPT ![o] = b]]
    /\ answer' = "ok"
    /\ UNCHANGED <<ptr, size>>

Next ==
    /\ \E c \in Client :
           \/ Release(c)
           \/ \E n \in 0 .. SizeMax : \/ Acquire(c, n) \/ AcquireAligned(c, n)
                                   \/ Realloc(c, n) \/ SReallocAllocator(c, n)
           \/ \E num, each \in 0 .. SizeMax : Calloc(c, num, each)
           \/ \E o \in 0 .. SizeMax, b \in Byte : Write(c, o, b)
    /\ UNCHANGED build

Spec == Init /\ [][Next]_vars

(* No address is different from another. *)
Symmetric == Permutations(Addr)

-----------------------------------------------------------------------------

Blocks == UNION {Bytes(n) : n \in 0 .. SizeMax}

TypeOK ==
    /\ build \in {"override", "klee", "smack", "library"}
    /\ heap \in [Addr -> Blocks]
    /\ ptr \in [Client -> Addr \cup {Null}]
    /\ size \in [Client -> 0 .. SizeMax]
    /\ answer \in {"ok", "error"}
    /\ memory_error \in BOOLEAN

(* No sequence of calls, whichever of them fail, leaks a block, leaves a   *)
(* caller with a pointer to freed memory or gives one block to two callers. *)
OwnedOnce ==
    /\ Allocated(heap) = {ptr[c] : c \in Client} \ {Null}
    /\ \A c, d \in Client : c # d /\ ptr[c] = ptr[d] => ptr[c] = Null

(* The copies of the emulated realloc stay inside of both blocks, also      *)
(* when the block is longer than its owner knows, and nothing is freed      *)
(* twice.                                                                  *)
NoMemoryError ==
    /\ ~memory_error
    /\ \A c \in Client : size[c] > 0 => /\ ptr[c] # Null
                                        /\ 0 .. size[c] - 1 \subseteq DOMAIN heap[ptr[c]]

(* To their callers these functions are those of Allocation: memory that    *)
(* keeps its bytes through every reallocation, and through every failed one.*)
memOf ==
    [c \in Client |-> [o \in 0 .. size[c] - 1 |-> heap[ptr[c]][o]]]

Promise == INSTANCE Allocation WITH mem <- memOf
ImplementsAllocation == Promise!Spec
=============================================================================
