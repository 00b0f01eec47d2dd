-------------------------- MODULE ProofHeap_proofs --------------------------
(***************************************************************************)
(* Proofs about ProofHeap, for any number of callers, addresses and bytes.  *)
(* Its three invariants are inductive together.  Every operation that       *)
(* touches the heap either gives a caller a block at an address that was    *)
(* free, releasing the one it had, or releases it, or writes in it.  The    *)
(* second half shows what each does to the memory its callers see.          *)
(***************************************************************************)
EXTENDS ProofHeap, TLAPS

Shaped ==
    /\ heap \in [Addr -> Blocks]
    /\ ptr \in [Client -> Addr \cup {Null}]
    /\ size \in [Client -> 0 .. SizeMax]

Sized ==
    \A c \in Client : size[c] > 0 => /\ ptr[c] # Null
                                     /\ 0 .. size[c] - 1 \subseteq DOMAIN heap[ptr[c]]

Sound == Shaped /\ OwnedOnce /\ Sized

Build == {"override", "klee", "smack", "library"}
Answer == {"ok", "error"}

IInv == Sound /\ build \in Build /\ answer \in Answer /\ memory_error = FALSE

-----------------------------------------------------------------------------
(* Blocks. *)

(* A block has bytes exactly if it is not the empty one. *)
LEMMA BlockHasBytes ==
    ASSUME NEW n \in 1 .. SizeMax, NEW b \in Bytes(n)
    PROVE  b # NoBlock /\ b \in Blocks
<1>1. SizeMax \in Nat  BY SizeMaxIsNat
<1>2. 0 \in DOMAIN b  BY <1>1 DEF Bytes
<1>3. DOMAIN NoBlock = {}  BY DEF NoBlock
<1>4. b # NoBlock  BY <1>2, <1>3
<1>5. n \in 0 .. SizeMax  BY <1>1
<1>6. b \in Blocks  BY <1>5 DEF Blocks
<1> QED  BY <1>4, <1>6

LEMMA NoBlockIsABlock == NoBlock \in Blocks
<1>1. SizeMax \in Nat /\ 0 \in 0 .. SizeMax  BY SizeMaxIsNat
<1>2. 0 .. 0 - 1 = {}  OBVIOUS
<1>3. NoBlock \in Bytes(0)  BY <1>2 DEF NoBlock, Bytes
<1> QED  BY <1>1, <1>3 DEF Blocks

(* A block has the bytes of its domain, which begins at 0. *)
LEMMA BytesOfBlock ==
    ASSUME NEW b \in Blocks
    PROVE  \E n \in 0 .. SizeMax : b \in [0 .. n - 1 -> Byte]
BY DEF Blocks, Bytes

(* What malloc returns: a free address, with a block of that many bytes. *)
LEMMA MallocsDef ==
    ASSUME NEW n \in Int, NEW r \in Mallocs(heap, n)
    PROVE  \E a \in Addr \ Allocated(heap), b \in Bytes(n) :
               r.heap = [heap EXCEPT ![a] = b] /\ r.mem = a
BY DEF Mallocs, Result

(* r is a result with a new block of at least n bytes. *)
HasNewBlock(r, n) ==
    \E a \in Addr \ Allocated(heap), m \in n .. SizeMax : \E b \in Bytes(m) :
        r.heap = [heap EXCEPT ![a] = b] /\ r.mem = a

LEMMA AllocSizeIsEnough ==
    ASSUME NEW n \in 1 .. SizeMax
    PROVE  AllocSize(n) \in n .. SizeMax
BY SizeMaxIsNat, PageIsASize DEF AllocSize

LEMMA MallocsHasNewBlock ==
    ASSUME NEW n \in 1 .. SizeMax, NEW m \in n .. SizeMax, NEW r \in Mallocs(heap, m)
    PROVE  HasNewBlock(r, n)
<1>1. n \in Int /\ m \in Int  BY SizeMaxIsNat
<1> QED  BY <1>1, MallocsDef DEF HasNewBlock

(* aws_mem_acquire in each build: NULL and the heap as it was, or a block.  *)
LEMMA AcquireGives ==
    ASSUME build \in Build, NEW n \in 1 .. SizeMax, NEW r \in MemAcquire(heap, n), r.mem # Null
    PROVE  HasNewBlock(r, n)
<1>1. n # 0 /\ n \in n .. SizeMax  BY SizeMaxIsNat
<1>2. Result(heap, Null).mem = Null  BY DEF Result
<1>3. CASE build = "override"
  <2>1. r \in CanFailMallocHavoc(heap, n)  BY <1>3 DEF MemAcquire
  <2>2. r \in Mallocs(heap, n)  BY <2>1, <1>1, <1>2 DEF CanFailMallocHavoc
  <2> QED  BY <2>2, <1>1, MallocsHasNewBlock
<1>4. CASE build = "klee"
  <2>1. r \in KleeCanFailMallocHavoc(heap, n)  BY <1>4 DEF MemAcquire
  <2>2. r \in Mallocs(heap, AllocSize(n))
    BY <2>1, <1>1, <1>2 DEF KleeCanFailMallocHavoc, KleeBoundedMallocHavoc
  <2> QED  BY <2>2, AllocSizeIsEnough, MallocsHasNewBlock
<1>5. CASE build = "smack"
  <2>1. r \in SmackCanFailMallocHavoc(heap, n)  BY <1>5 DEF MemAcquire
  <2>2. r \in Mallocs(heap, n)  BY <2>1, <1>1 DEF SmackCanFailMallocHavoc
  <2> QED  BY <2>2, <1>1, MallocsHasNewBlock
<1>6. CASE build = "library"
  <2>1. r \in SMallocAllocator(heap, n)  BY <1>6 DEF MemAcquire
  <2>2. r \in Mallocs(heap, n)
    BY <2>1, <1>1, <1>2 DEF SMallocAllocator, CanFailMallocHavoc, BoundedMallocHavoc
  <2> QED  BY <2>2, <1>1, MallocsHasNewBlock
<1> QED  BY <1>3, <1>4, <1>5, <1>6 DEF Build

LEMMA AllocatedNext ==
    \A x : x \in Allocated(heap)' <=> x \in Addr /\ heap'[x] # NoBlock
BY DEF Allocated

-----------------------------------------------------------------------------
(* The three things an operation does to the heap. *)

(* Caller c gets a new block b, of at least the n bytes it asked for, and    *)
(* what it had is freed.                                                   *)
LEMMA NewBlockKeepsSound ==
    ASSUME Sound, NEW c \in Client, NEW n \in 1 .. SizeMax,
           NEW a \in Addr \ Allocated(heap), NEW m \in n .. SizeMax, NEW b \in Bytes(m),
           heap' = Freed([heap EXCEPT ![a] = b], ptr[c]),
           ptr' = [ptr EXCEPT ![c] = a], size' = [size EXCEPT ![c] = n]
    PROVE  Sound'
<1> USE SizeMaxIsNat, NullIsNoAddress
<1>1. m \in 1 .. SizeMax /\ n \in 0 .. SizeMax  OBVIOUS
<1>2. b # NoBlock /\ b \in Blocks  BY <1>1, BlockHasBytes
<1>3. DOMAIN b = 0 .. m - 1  BY DEF Bytes
<1>4. a \in Addr /\ heap[a] = NoBlock  BY DEF Allocated
<1>5. \A d \in Client : ptr[d] # Null => ptr[d] \in Addr /\ heap[ptr[d]] # NoBlock
  BY DEF Sound, OwnedOnce, Allocated
<1>6. \A d \in Client : ptr[d] # a
  BY <1>4, <1>5
<1>7. heap' \in [Addr -> Blocks] /\ heap'[a] = b
  BY <1>2, <1>4, <1>6, NoBlockIsABlock DEF Sound, Shaped, Freed
<1>8. \A x \in Addr \ {a} : heap'[x] = IF x = ptr[c] THEN NoBlock ELSE heap[x]
  BY <1>4, <1>6 DEF Sound, Shaped, Freed
<1>9. /\ ptr' \in [Client -> Addr \cup {Null}] /\ ptr'[c] = a
      /\ \A d \in Client \ {c} : ptr'[d] = ptr[d]
  BY <1>4 DEF Sound, Shaped
<1>10. /\ size' \in [Client -> 0 .. SizeMax] /\ size'[c] = n
       /\ \A d \in Client \ {c} : size'[d] = size[d]
  BY <1>1 DEF Sound, Shaped
<1>11. Shaped'  BY <1>7, <1>9, <1>10 DEF Shaped
<1>12. \A d, e \in Client : d # e /\ ptr'[d] = ptr'[e] => ptr'[d] = Null
  BY <1>6, <1>9 DEF Sound, OwnedOnce
<1>13. \A d \in Client \ {c} : ptr[d] # Null => ptr[d] # ptr[c]
  BY DEF Sound, OwnedOnce
<1>14. Allocated(heap)' = {ptr'[d] : d \in Client} \ {Null}
  <2>1. ASSUME NEW x \in Addr, heap'[x] # NoBlock
        PROVE  x # Null /\ \E d \in Client : x = ptr'[d]
    <3>1. CASE x = a  BY <3>1, <1>9
    <3>2. CASE x # a
      <4>1. x # ptr[c] /\ x \in Allocated(heap)  BY <2>1, <3>2, <1>8 DEF Allocated
      <4>2. PICK d \in Client : x = ptr[d]  BY <4>1 DEF Sound, OwnedOnce
      <4>3. d # c  BY <4>1, <4>2
      <4> QED  BY <4>2, <4>3, <1>9
    <3> QED  BY <3>1, <3>2
  <2>2. ASSUME NEW d \in Client, ptr'[d] # Null
        PROVE  ptr'[d] \in Addr /\ heap'[ptr'[d]] # NoBlock
    <3>1. CASE d = c  BY <3>1, <1>9, <1>7, <1>2, <1>4
    <3>2. CASE d # c
      <4>1. ptr'[d] = ptr[d] /\ ptr[d] # Null  BY <2>2, <3>2, <1>9
      <4>2. ptr[d] \in Addr \ {a} /\ ptr[d] # ptr[c] /\ heap[ptr[d]] # NoBlock
        BY <4>1, <3>2, <1>5, <1>6, <1>13
      <4> QED  BY <4>1, <4>2, <1>8
    <3> QED  BY <3>1, <3>2
  <2>3. \A x : x \in Allocated(heap)' <=> x \in Addr /\ heap'[x] # NoBlock  BY AllocatedNext
  <2>4. \A x \in Allocated(heap)' : x \in {ptr'[d] : d \in Client} \ {Null}
    <3> SUFFICES ASSUME NEW x \in Allocated(heap)'
                 PROVE  x \in {ptr'[d] : d \in Client} \ {Null}
      OBVIOUS
    <3>1. x # Null /\ \E d \in Client : x = ptr'[d]  BY <2>1, <2>3
    <3> QED  BY <3>1, Zenon
  <2>5. \A x \in {ptr'[d] : d \in Client} \ {Null} : x \in Allocated(heap)'  BY <2>2, <2>3
  <2> QED  BY <2>4, <2>5
<1>15. Sized'
  <2> SUFFICES ASSUME NEW d \in Client, size'[d] > 0
               PROVE  ptr'[d] # Null /\ 0 .. size'[d] - 1 \subseteq DOMAIN heap'[ptr'[d]]
    BY DEF Sized
  <2>1. CASE d = c
    <3>1. 0 .. n - 1 \subseteq 0 .. m - 1  OBVIOUS
    <3> QED  BY <2>1, <3>1, <1>3, <1>4, <1>7, <1>9, <1>10
  <2>2. CASE d # c
    <3>1. ptr'[d] = ptr[d] /\ size'[d] = size[d]  BY <2>2, <1>9, <1>10
    <3>2. ptr[d] # Null /\ 0 .. size[d] - 1 \subseteq DOMAIN heap[ptr[d]]
      BY <3>1 DEF Sound, Sized
    <3>3. heap'[ptr[d]] = heap[ptr[d]]  BY <3>2, <2>2, <1>5, <1>6, <1>8, <1>13
    <3> QED  BY <3>1, <3>2, <3>3
  <2> QED  BY <2>1, <2>2
<1> QED  BY <1>11, <1>12, <1>14, <1>15 DEF Sound, OwnedOnce

(* Caller c releases its block, or has none. *)
LEMMA ReleaseKeepsSound ==
    ASSUME Sound, NEW c \in Client,
           heap' = Freed(heap, ptr[c]), ptr' = [ptr EXCEPT ![c] = Null], size' = [size EXCEPT ![c] = 0]
    PROVE  Sound'
<1> USE SizeMaxIsNat, NullIsNoAddress
<1>1. \A d \in Client : ptr[d] # Null => ptr[d] \in Addr /\ heap[ptr[d]] # NoBlock
  BY DEF Sound, OwnedOnce, Allocated
<1>2. /\ heap' \in [Addr -> Blocks]
      /\ \A x \in Addr : heap'[x] = IF x = ptr[c] THEN NoBlock ELSE heap[x]
  BY NoBlockIsABlock DEF Sound, Shaped, Freed
<1>3. /\ ptr' \in [Client -> Addr \cup {Null}] /\ ptr'[c] = Null
      /\ \A d \in Client \ {c} : ptr'[d] = ptr[d]
  BY DEF Sound, Shaped
<1>4. /\ size' \in [Client -> 0 .. SizeMax] /\ size'[c] = 0
      /\ \A d \in Client \ {c} : size'[d] = size[d]
  BY DEF Sound, Shaped
<1>5. \A d, e \in Client : d # e /\ ptr'[d] = ptr'[e] => ptr'[d] = Null
  BY <1>3 DEF Sound, OwnedOnce
<1>6. \A d \in Client \ {c} : ptr[d] # Null => ptr[d] # ptr[c]
  BY DEF Sound, OwnedOnce
<1>7. Allocated(heap)' = {ptr'[d] : d \in Client} \ {Null}
  <2>1. ASSUME NEW x \in Addr, heap'[x] # NoBlock
        PROVE  x # Null /\ \E d \in Client : x = ptr'[d]
    <3>1. x # ptr[c] /\ x \in Allocated(heap)  BY <2>1, <1>2 DEF Allocated
    <3>2. PICK d \in Client : x = ptr[d]  BY <3>1 DEF Sound, OwnedOnce
    <3>3. d # c  BY <3>1, <3>2
    <3> QED  BY <3>2, <3>3, <1>3
  <2>2. ASSUME NEW d \in Client, ptr'[d] # Null
        PROVE  ptr'[d] \in Addr /\ heap'[ptr'[d]] # NoBlock
    <3>1. d # c /\ ptr'[d] = ptr[d]  BY <2>2, <1>3
    <3> QED  BY <3>1, <2>2, <1>1, <1>2, <1>6
  <2>3. \A x : x \in Allocated(heap)' <=> x \in Addr /\ heap'[x] # NoBlock  BY AllocatedNext
  <2>4. \A x \in Allocated(heap)' : x \in {ptr'[d] : d \in Client} \ {Null}
    <3> SUFFICES ASSUME NEW x \in Allocated(heap)'
                 PROVE  x \in {ptr'[d] : d \in Client} \ {Null}
      OBVIOUS
    <3>1. x # Null /\ \E d \in Client : x = ptr'[d]  BY <2>1, <2>3
    <3> QED  BY <3>1, Zenon
  <2>5. \A x \in {ptr'[d] : d \in Client} \ {Null} : x \in Allocated(heap)'  BY <2>2, <2>3
  <2> QED  BY <2>4, <2>5
<1>8. Sized'
  <2> SUFFICES ASSUME NEW d \in Client, size'[d] > 0
               PROVE  ptr'[d] # Null /\ 0 .. size'[d] - 1 \subseteq DOMAIN heap'[ptr'[d]]
    BY DEF Sized
  <2>1. d # c /\ ptr'[d] = ptr[d] /\ size'[d] = size[d]  BY <1>3, <1>4
  <2>2. ptr[d] # Null /\ 0 .. size[d] - 1 \subseteq DOMAIN heap[ptr[d]]
    BY <2>1 DEF Sound, Sized
  <2>3. heap'[ptr[d]] = heap[ptr[d]]  BY <2>1, <2>2, <1>1, <1>2, <1>6
  <2> QED  BY <2>1, <2>2, <2>3
<1> QED  BY <1>2, <1>3, <1>4, <1>5, <1>7, <1>8 DEF Sound, Shaped, OwnedOnce

(* Caller c writes byte o of its block. *)
LEMMA WriteKeepsSound ==
    ASSUME Sound, NEW c \in Client, NEW o \in 0 .. size[c] - 1, NEW v \in Byte,
           heap' = [heap EXCEPT ![ptr[c]] = [@ EXCEPT ![o] = v]], UNCHANGED <<ptr, size>>
    PROVE  Sound'
<1> USE SizeMaxIsNat, NullIsNoAddress
<1>1. size[c] \in Nat /\ size[c] > 0 /\ o \in Int  BY DEF Sound, Shaped
<1>2. ptr[c] # Null /\ 0 .. size[c] - 1 \subseteq DOMAIN heap[ptr[c]]
  BY <1>1 DEF Sound, Sized
<1>3. ptr[c] \in Addr /\ heap[ptr[c]] \in Blocks  BY <1>2 DEF Sound, Shaped
<1>4. PICK k \in 0 .. SizeMax : heap[ptr[c]] \in [0 .. k - 1 -> Byte]  BY <1>3, BytesOfBlock
<1> DEFINE b == [heap[ptr[c]] EXCEPT ![o] = v]
<1>5. b \in [0 .. k - 1 -> Byte] /\ DOMAIN b = DOMAIN heap[ptr[c]]  BY <1>4
<1>6. b \in Blocks  BY <1>5 DEF Blocks, Bytes
<1>7. o \in DOMAIN b  BY <1>2, <1>5
<1>8. b # NoBlock  BY <1>7 DEF NoBlock
<1>9. heap[ptr[c]] # NoBlock  BY <1>2, <1>5, <1>7 DEF NoBlock
<1>10. heap' = [heap EXCEPT ![ptr[c]] = b]  OBVIOUS
<1> HIDE DEF b
<1>11. heap' \in [Addr -> Blocks]  BY <1>3, <1>6, <1>10 DEF Sound, Shaped
<1>12. \A x \in Addr : /\ DOMAIN heap'[x] = DOMAIN heap[x]
                       /\ heap'[x] = NoBlock <=> heap[x] = NoBlock
  BY <1>3, <1>5, <1>8, <1>9, <1>10 DEF Sound, Shaped
<1>13. Shaped'  BY <1>11 DEF Sound, Shaped
<1>14. Allocated(heap)' = Allocated(heap)  BY <1>12 DEF Allocated
<1>15. OwnedOnce'  BY <1>14 DEF Sound, OwnedOnce
<1>16. Sized'
  <2> SUFFICES ASSUME NEW d \in Client, size[d] > 0
               PROVE  ptr[d] # Null /\ 0 .. size[d] - 1 \subseteq DOMAIN heap'[ptr[d]]
    BY DEF Sized
  <2>1. ptr[d] # Null /\ 0 .. size[d] - 1 \subseteq DOMAIN heap[ptr[d]]  BY DEF Sound, Sized
  <2>2. ptr[d] \in Addr  BY <2>1 DEF Sound, Shaped
  <2> QED  BY <2>1, <2>2, <1>12
<1> QED  BY <1>13, <1>15, <1>16 DEF Sound

-----------------------------------------------------------------------------
(* The copies. *)

(* What a caller has is where a new block is not. *)
LEMMA OldBlock ==
    ASSUME Sound, NEW c \in Client, ptr[c] # Null, NEW a \in Addr \ Allocated(heap)
    PROVE  ptr[c] \in Addr /\ ptr[c] # a /\ heap[ptr[c]] # NoBlock
BY DEF Sound, Shaped, OwnedOnce, Allocated

(* The bytes that are copied are those of the caller's block. *)
LEMMA CopiedBytes ==
    ASSUME Sound, NEW c \in Client, NEW o \in Nat, o < size[c]
    PROVE  ptr[c] # Null /\ heap[ptr[c]][o] \in Byte
<1>1. size[c] \in Nat /\ size[c] > 0  BY SizeMaxIsNat DEF Sound, Shaped
<1>2. ptr[c] # Null /\ 0 .. size[c] - 1 \subseteq DOMAIN heap[ptr[c]]
  BY <1>1 DEF Sound, Sized
<1>3. o \in DOMAIN heap[ptr[c]]  BY <1>1, <1>2
<1>4. ptr[c] \in Addr /\ heap[ptr[c]] \in Blocks  BY <1>2 DEF Sound, Shaped
<1>5. PICK k \in 0 .. SizeMax : heap[ptr[c]] \in [0 .. k - 1 -> Byte]  BY <1>4, BytesOfBlock
<1> QED  BY <1>2, <1>3, <1>5

(* The memory that the emulated realloc fills is a block of the same length. *)
LEMMA GrownBlock ==
    ASSUME Sound, NEW c \in Client, NEW a \in Addr \ Allocated(heap),
           NEW m \in 1 .. SizeMax, NEW b \in Bytes(m), NEW n \in Nat
    PROVE  \E g \in Bytes(m) :
               Grown([heap EXCEPT ![a] = b], a, ptr[c], size[c], n) = [heap EXCEPT ![a] = g]
<1> DEFINE h == [heap EXCEPT ![a] = b]
           g == [o \in 0 .. m - 1 |-> IF o < size[c] THEN h[ptr[c]][o] ELSE Zeroed(b, n)[o]]
<1>1. DOMAIN b = 0 .. m - 1 /\ b \in [0 .. m - 1 -> Byte]  BY DEF Bytes
<1>2. \A o \in 0 .. m - 1 : Zeroed(b, n)[o] \in Byte  BY <1>1, ZeroIsAByte DEF Zeroed
<1>3. \A o \in 0 .. m - 1 : g[o] \in Byte
  <2> SUFFICES ASSUME NEW o \in 0 .. m - 1, o < size[c]
               PROVE  h[ptr[c]][o] \in Byte
    BY <1>2
  <2>1. o \in Nat  BY SizeMaxIsNat
  <2>2. ptr[c] # Null /\ heap[ptr[c]][o] \in Byte  BY <2>1, CopiedBytes
  <2>3. ptr[c] \in Addr /\ ptr[c] # a  BY <2>2, OldBlock
  <2>4. h[ptr[c]] = heap[ptr[c]]  BY <2>3 DEF Sound, Shaped
  <2> QED  BY <2>2, <2>4
<1>4. g \in Bytes(m)  BY <1>3 DEF Bytes
<1>5. a \in Addr /\ heap \in [Addr -> Blocks]  BY DEF Sound, Shaped
<1>6. h[a] = b  BY <1>5
<1>7. Grown(h, a, ptr[c], size[c], n) = [h EXCEPT ![a] = g]
  <2> HIDE DEF h
  <2>1. [o \in DOMAIN h[a] |-> IF o < size[c] THEN h[ptr[c]][o] ELSE Zeroed(h[a], n)[o]] = g
    BY <1>1, <1>6
  <2> HIDE DEF g
  <2> QED  BY <2>1 DEF Grown
<1>8. [h EXCEPT ![a] = g] = [heap EXCEPT ![a] = g]  BY <1>5
<1> QED  BY <1>4, <1>7, <1>8

(* The memcpy into a new block of at least n bytes stays inside both, and    *)
(* the free after it is of a block.                                        *)
LEMMA CopyIsFine ==
    ASSUME Sound, NEW c \in Client, NEW a \in Addr \ Allocated(heap), NEW n \in 1 .. SizeMax,
           NEW m \in n .. SizeMax, NEW b \in Bytes(m), size[c] <= n
    PROVE  LET h == [heap EXCEPT ![a] = b]
           IN  ~CopyIsAnError(h, a, ptr[c], size[c]) /\ ~FreeIsAnError(h, ptr[c])
<1> DEFINE h == [heap EXCEPT ![a] = b]
<1>1. a \in Addr /\ heap \in [Addr -> Blocks] /\ size[c] \in Nat
  BY SizeMaxIsNat DEF Sound, Shaped
<1>2. h[a] = b /\ DOMAIN b = 0 .. m - 1  BY <1>1 DEF Bytes
<1>3. a # Null  BY <1>1, NullIsNoAddress
<1>4. ptr[c] # Null => h[ptr[c]] = heap[ptr[c]] /\ heap[ptr[c]] # NoBlock
  BY <1>1, OldBlock
<1>5. size[c] > 0 => ptr[c] # Null /\ 0 .. size[c] - 1 \subseteq DOMAIN heap[ptr[c]]
  BY DEF Sound, Sized
<1>6. 0 .. size[c] - 1 \subseteq DOMAIN h[a]  BY <1>1, <1>2, SizeMaxIsNat
<1>7. ~CopyIsAnError(h, a, ptr[c], size[c])
  <2> HIDE DEF h
  <2>1. SUFFICES ASSUME size[c] > 0, NEW x \in {a, ptr[c]}
                 PROVE  x # Null /\ 0 .. size[c] - 1 \subseteq DOMAIN h[x]
    BY DEF CopyIsAnError
  <2> QED  BY <2>1, <1>3, <1>4, <1>5, <1>6
<1>8. ~FreeIsAnError(h, ptr[c])
  <2> HIDE DEF h
  <2> QED  BY <1>4 DEF FreeIsAnError
<1> QED  BY <1>7, <1>8

-----------------------------------------------------------------------------
(* The operations. *)

LEMMA InitInv == Init => IInv
<1> SUFFICES ASSUME Init PROVE IInv  OBVIOUS
<1> USE SizeMaxIsNat DEF Init
<1>1. Shaped
  <2>1. \A c \in Client : 0 \in 0 .. SizeMax  OBVIOUS
  <2> QED  BY <2>1, NoBlockIsABlock DEF Shaped
<1>2. \A c \in Client : ptr[c] = Null  OBVIOUS
<1>3. Allocated(heap) = {}  BY DEF Allocated
<1>4. OwnedOnce  BY <1>2, <1>3 DEF OwnedOnce
<1>5. Sized  BY DEF Sized
<1> QED  BY <1>1, <1>4, <1>5 DEF IInv, Sound, Build, Answer

(* A call that gives c a block it did not have. *)
LEMMA GetsBlock ==
    ASSUME IInv, NEW c \in Client, ptr[c] = Null, NEW n \in 1 .. SizeMax,
           NEW a \in Addr \ Allocated(heap), NEW m \in n .. SizeMax, NEW b \in Bytes(m),
           Returns(c, [heap EXCEPT ![a] = b], a, n), UNCHANGED <<memory_error, build>>
    PROVE  IInv'
<1>1. /\ heap' = [heap EXCEPT ![a] = b] /\ ptr' = [ptr EXCEPT ![c] = a]
      /\ size' = [size EXCEPT ![c] = n] /\ answer' = "ok"
  BY DEF Returns
<1>2. heap' = Freed([heap EXCEPT ![a] = b], ptr[c])  BY <1>1 DEF Freed
<1>3. Sound'  BY <1>1, <1>2, NewBlockKeepsSound DEF IInv
<1> QED  BY <1>1, <1>3 DEF IInv, Answer

LEMMA FailsInv ==
    ASSUME IInv, Fails, UNCHANGED build
    PROVE  IInv'
<1>1. UNCHANGED <<heap, ptr, size, memory_error, build>> /\ answer' = "error"  BY DEF Fails
<1>2. Sound'  BY <1>1 DEF IInv, Sound, Shaped, OwnedOnce, Sized, Allocated
<1> QED  BY <1>1, <1>2 DEF IInv, Answer

LEMMA AcquireInv ==
    ASSUME IInv, NEW c \in Client, NEW n \in 0 .. SizeMax, UNCHANGED build,
           Acquire(c, n)
    PROVE  IInv'
<1>1. ptr[c] = Null /\ n \in 1 .. SizeMax  BY SizeMaxIsNat DEF Acquire
<1>2. PICK r \in MemAcquire(heap, n) :
          IF r.mem = Null THEN Fails ELSE Returns(c, r.heap, r.mem, n) /\ UNCHANGED memory_error
  BY DEF Acquire
<1>3. CASE r.mem = Null  BY <1>2, <1>3, FailsInv
<1>4. CASE r.mem # Null
  <2>1. HasNewBlock(r, n)  BY <1>1, <1>4, AcquireGives DEF IInv
  <2>2. PICK a \in Addr \ Allocated(heap), m \in n .. SizeMax : \E b \in Bytes(m) :
            r.heap = [heap EXCEPT ![a] = b] /\ r.mem = a
    BY <2>1 DEF HasNewBlock
  <2> QED  BY <1>1, <1>2, <1>4, <2>2, GetsBlock
<1> QED  BY <1>3, <1>4

(* Rounding up to the alignment. *)
LEMMA AlignedIsEnough ==
    ASSUME NEW n \in 1 .. SizeMax
    PROVE  AlignRoundUp(n) \in Int /\ n <= AlignRoundUp(n)
<1>1. \A x \in Int : x = Alignment * (x \div Alignment) + (x % Alignment) /\ x \div Alignment \in Int
                      /\ x % Alignment \in 0 .. Alignment - 1
  BY AlignmentIsPositive
<1>2. n + Alignment - 1 \in Int /\ n \in Int /\ Alignment \in Int
  BY AlignmentIsPositive, SizeMaxIsNat
<1> DEFINE q == (n + Alignment - 1) \div Alignment
<1>3. q \in Int /\ Alignment * q >= n  BY <1>1, <1>2
<1>4. AlignRoundUp(n) = q * Alignment /\ q * Alignment = Alignment * q
  BY <1>2, <1>3 DEF AlignRoundUp
<1> HIDE DEF q
<1> QED  BY <1>2, <1>3, <1>4

LEMMA AcquireAlignedInv ==
    ASSUME IInv, NEW c \in Client, NEW n \in 0 .. SizeMax, UNCHANGED build,
           AcquireAligned(c, n)
    PROVE  IInv'
<1>1. ptr[c] = Null /\ n \in 1 .. SizeMax /\ AlignRoundUp(n) <= SizeMax
  BY SizeMaxIsNat DEF AcquireAligned
<1>2. PICK r \in SeaMallocAlignedHavoc(heap, n) :
          IF r.mem = Null THEN Fails ELSE Returns(c, r.heap, r.mem, n) /\ UNCHANGED memory_error
  BY DEF AcquireAligned
<1>3. CASE r.mem = Null  BY <1>2, <1>3, FailsInv
<1>4. CASE r.mem # Null
  <2>1. r \in Mallocs(heap, AlignRoundUp(n))
    BY <1>4 DEF SeaMallocAlignedHavoc, Result
  <2>2. HasNewBlock(r, n)  BY <1>1, <2>1, AlignedIsEnough, SizeMaxIsNat, MallocsHasNewBlock
  <2>3. PICK a \in Addr \ Allocated(heap), m \in n .. SizeMax : \E b \in Bytes(m) :
            r.heap = [heap EXCEPT ![a] = b] /\ r.mem = a
    BY <2>2 DEF HasNewBlock
  <2> QED  BY <1>1, <1>2, <1>4, <2>3, GetsBlock
<1> QED  BY <1>3, <1>4

LEMMA CallocInv ==
    ASSUME IInv, NEW c \in Client, NEW num \in 0 .. SizeMax, NEW each \in 0 .. SizeMax,
           UNCHANGED build, Calloc(c, num, each)
    PROVE  IInv'
<1> DEFINE n == (num * each) % (SizeMax + 1)
<1>1. ptr[c] = Null /\ num * each > 0  BY DEF Calloc
<1>2. CASE MulSizeOverflows(num, each)  BY <1>2, FailsInv DEF Calloc
<1>3. CASE ~MulSizeOverflows(num, each)
  <2>1. num * each \in 1 .. SizeMax
    <3>1. num * each \in Int  BY SizeMaxIsNat
    <3> QED  BY <3>1, <1>1, <1>3, SizeMaxIsNat DEF MulSizeOverflows
  <2>2. n = num * each
    <3>1. \A x \in 1 .. SizeMax : x % (SizeMax + 1) = x  BY SizeMaxIsNat
    <3> QED  BY <2>1, <3>1
  <2>3. PICK r \in MemAcquire(heap, n) :
            IF r.mem = Null THEN Fails
            ELSE /\ Returns(c, [r.heap EXCEPT ![r.mem] = Zeroed(@, n)], r.mem, num * each)
                 /\ UNCHANGED memory_error
    BY <1>3 DEF Calloc
  <2> HIDE DEF n
  <2>4. CASE r.mem = Null  BY <2>3, <2>4, FailsInv
  <2>5. CASE r.mem # Null
    <3>1. n \in 1 .. SizeMax  BY <2>1, <2>2
    <3>2. HasNewBlock(r, n)  BY <3>1, <2>5, AcquireGives DEF IInv
    <3>3. PICK a \in Addr \ Allocated(heap), m \in n .. SizeMax : \E b \in Bytes(m) :
              r.heap = [heap EXCEPT ![a] = b] /\ r.mem = a
      BY <3>2 DEF HasNewBlock
    <3>4. PICK b \in Bytes(m) : r.heap = [heap EXCEPT ![a] = b]  BY <3>3
    <3>5. a \in Addr /\ heap \in [Addr -> Blocks]  BY DEF IInv, Sound, Shaped
    <3>6. r.heap[a] = b  BY <3>4, <3>5
    <3>7. Zeroed(b, n) \in Bytes(m)
      BY ZeroIsAByte DEF Zeroed, Bytes
    <3>8. [r.heap EXCEPT ![r.mem] = Zeroed(@, n)] = [heap EXCEPT ![a] = Zeroed(b, n)]
      BY <3>3, <3>4, <3>5, <3>6
    <3> QED  BY <1>1, <2>2, <2>3, <2>5, <3>1, <3>3, <3>7, <3>8, GetsBlock
  <2> QED  BY <2>4, <2>5
<1> QED  BY <1>2, <1>3

LEMMA ReleaseInv ==
    ASSUME IInv, NEW c \in Client, UNCHANGED build, Release(c)
    PROVE  IInv'
<1>1. /\ heap' = Freed(heap, ptr[c]) /\ ptr' = [ptr EXCEPT ![c] = Null]
      /\ size' = [size EXCEPT ![c] = 0] /\ answer' = "ok"
      /\ memory_error' = (memory_error \/ FreeIsAnError(heap, ptr[c]))
  BY DEF Release, Returns
<1>2. ~FreeIsAnError(heap, ptr[c])  BY DEF IInv, Sound, OwnedOnce, Allocated, FreeIsAnError
<1>3. memory_error' = FALSE  BY <1>1, <1>2 DEF IInv
<1>4. Sound'  BY <1>1, ReleaseKeepsSound DEF IInv
<1> QED  BY <1>1, <1>3, <1>4 DEF IInv, Answer

LEMMA GrowIntoInv ==
    ASSUME IInv, NEW c \in Client, NEW n \in 1 .. SizeMax, size[c] < n, UNCHANGED build,
           GrowInto(c, n)
    PROVE  IInv'
<1>1. PICK r \in MemAcquire(heap, n) :
          IF r.mem = Null THEN Fails
          ELSE /\ Returns(c, Freed(Grown(r.heap, r.mem, ptr[c], size[c], n), ptr[c]), r.mem, n)
               /\ memory_error' = (\/ memory_error
                                   \/ CopyIsAnError(r.heap, r.mem, ptr[c], size[c])
                                   \/ FreeIsAnError(r.heap, ptr[c]))
  BY DEF GrowInto
<1>2. CASE r.mem = Null  BY <1>1, <1>2, FailsInv
<1>3. CASE r.mem # Null
  <2>1. HasNewBlock(r, n)  BY <1>3, AcquireGives DEF IInv
  <2>2. PICK a \in Addr \ Allocated(heap), m \in n .. SizeMax : \E b \in Bytes(m) :
            r.heap = [heap EXCEPT ![a] = b] /\ r.mem = a
    BY <2>1 DEF HasNewBlock
  <2>3. PICK b \in Bytes(m) : r.heap = [heap EXCEPT ![a] = b]  BY <2>2
  <2>4. m \in 1 .. SizeMax /\ n \in Nat /\ size[c] <= n
    BY SizeMaxIsNat DEF IInv, Sound, Shaped
  <2>5. ~CopyIsAnError(r.heap, r.mem, ptr[c], size[c]) /\ ~FreeIsAnError(r.heap, ptr[c])
    BY <2>2, <2>3, <2>4, CopyIsFine DEF IInv
  <2>6. memory_error' = FALSE  BY <1>1, <1>3, <2>5 DEF IInv
  <2>7. PICK g \in Bytes(m) :
            Grown([heap EXCEPT ![a] = b], a, ptr[c], size[c], n) = [heap EXCEPT ![a] = g]
    <3>1. Sound  BY DEF IInv
    <3> HIDE DEF IInv
    <3>2. m \in 1 .. SizeMax /\ n \in Nat  BY <2>4
    <3> QED  BY <3>1, <3>2, GrownBlock
  <2>8. Returns(c, Freed([heap EXCEPT ![a] = g], ptr[c]), a, n)
    BY <1>1, <1>3, <2>2, <2>3, <2>7
  <2>9. /\ heap' = Freed([heap EXCEPT ![a] = g], ptr[c]) /\ ptr' = [ptr EXCEPT ![c] = a]
        /\ size' = [size EXCEPT ![c] = n] /\ answer' = "ok"
    BY <2>8 DEF Returns
  <2>10. Sound'  BY <2>9, NewBlockKeepsSound DEF IInv
  <2> QED  BY <2>6, <2>9, <2>10 DEF IInv, Answer
<1> QED  BY <1>2, <1>3

LEMMA ReallocInv ==
    ASSUME IInv, NEW c \in Client, NEW n \in 0 .. SizeMax, UNCHANGED build, Realloc(c, n)
    PROVE  IInv'
<1>1. CASE n = 0  BY <1>1, ReleaseInv DEF Realloc
<1>2. CASE n # 0 /\ size[c] >= n
  <2>1. size' = [size EXCEPT ![c] = n] /\ answer' = "ok" /\ UNCHANGED <<heap, ptr, memory_error>>
    BY <1>2 DEF Realloc
  <2>2. /\ size' \in [Client -> 0 .. SizeMax]
        /\ \A d \in Client : size'[d] \in Nat /\ size[d] \in Nat /\ size'[d] <= size[d]
    BY <1>2, <2>1, SizeMaxIsNat DEF IInv, Sound, Shaped
  <2>3. Shaped'  BY <2>1, <2>2 DEF IInv, Sound, Shaped
  <2>4. OwnedOnce'  BY <2>1 DEF IInv, Sound, OwnedOnce, Allocated
  <2>5. Sized'
    <3> SUFFICES ASSUME NEW d \in Client, size'[d] > 0
                 PROVE  ptr[d] # Null /\ 0 .. size'[d] - 1 \subseteq DOMAIN heap[ptr[d]]
      BY <2>1 DEF Sized
    <3>1. size[d] > 0 /\ 0 .. size'[d] - 1 \subseteq 0 .. size[d] - 1  BY <2>2
    <3> QED  BY <3>1 DEF IInv, Sound, Sized
  <2> QED  BY <2>1, <2>3, <2>4, <2>5 DEF IInv, Sound, Answer
<1>3. CASE n # 0 /\ ~(size[c] >= n)
  <2>1. n \in 1 .. SizeMax /\ size[c] < n  BY <1>3, SizeMaxIsNat DEF IInv, Sound, Shaped
  <2> QED  BY <1>3, <2>1, GrowIntoInv DEF Realloc
<1> QED  BY <1>1, <1>2, <1>3

(* The mem_realloc of proof_allocators.c, where an allocation cannot fail.  *)
LEMMA SReallocInv ==
    ASSUME ~AllocatorCanFail, IInv, NEW c \in Client, NEW n \in 0 .. SizeMax, UNCHANGED build,
           SReallocAllocator(c, n)
    PROVE  IInv'
<1>1. n \in 1 .. SizeMax /\ size[c] \in Nat /\ size[c] <= n
  BY SizeMaxIsNat DEF SReallocAllocator, IInv, Sound, Shaped
<1> DEFINE Kept(r) == [o \in 0 .. n - 1 |-> IF o < size[c] THEN heap[ptr[c]][o] ELSE r.heap[r.mem][o]]
           Copied(r) == IF r.mem = Null \/ ptr[c] = Null THEN r.heap
                        ELSE [r.heap EXCEPT ![r.mem] = Kept(r)]
<1>2. PICK r \in SMallocAllocator(heap, n) :
          /\ heap' = Freed(Copied(r), ptr[c])
          /\ memory_error' = (\/ memory_error
                              \/ ptr[c] # Null /\ CopyIsAnError(r.heap, r.mem, ptr[c], size[c])
                              \/ FreeIsAnError(r.heap, ptr[c]))
          /\ answer' = IF r.mem = Null THEN "error" ELSE "ok"
          /\ ptr' = IF r.mem = Null THEN ptr ELSE [ptr EXCEPT ![c] = r.mem]
          /\ size' = IF r.mem = Null THEN size ELSE [size EXCEPT ![c] = n]
  BY DEF SReallocAllocator, SReallocGrows
<1>3. r \in Mallocs(heap, n)
  BY <1>1, SizeMaxIsNat DEF SMallocAllocator, BoundedMallocHavoc
<1>4. PICK a \in Addr \ Allocated(heap), b \in Bytes(n) :
          r.heap = [heap EXCEPT ![a] = b] /\ r.mem = a
  <2>1. n \in Int  BY <1>1, SizeMaxIsNat
  <2> HIDE DEF Copied, Kept
  <2> QED  BY <2>1, <1>3, MallocsDef
<1>5. a \in Addr /\ a # Null /\ heap \in [Addr -> Blocks] /\ n \in n .. SizeMax
  BY <1>1, NullIsNoAddress, SizeMaxIsNat DEF IInv, Sound, Shaped
<1>6. ~CopyIsAnError(r.heap, r.mem, ptr[c], size[c]) /\ ~FreeIsAnError(r.heap, ptr[c])
  <2>1. Sound  BY DEF IInv
  <2>2. LET h == [heap EXCEPT ![a] = b]
        IN  ~CopyIsAnError(h, a, ptr[c], size[c]) /\ ~FreeIsAnError(h, ptr[c])
    BY <2>1, <1>1, <1>5, CopyIsFine, Zenon
  <2> QED  BY <2>2, <1>4
<1>7. memory_error' = FALSE  BY <1>2, <1>6 DEF IInv
<1>8. \E g \in Bytes(n) : Copied(r) = [heap EXCEPT ![a] = g]
  <2>1. CASE ptr[c] = Null  BY <2>1, <1>4
  <2>2. CASE ptr[c] # Null
    <3>1. b \in [0 .. n - 1 -> Byte] /\ r.heap[a] = b  BY <1>4, <1>5 DEF Bytes
    <3>2. \A o \in 0 .. n - 1 : o < size[c] => heap[ptr[c]][o] \in Byte
      BY <1>1, CopiedBytes, SizeMaxIsNat DEF IInv
    <3>3. Kept(r) \in Bytes(n)  BY <3>1, <3>2, <1>4 DEF Bytes
    <3> HIDE DEF Kept
    <3>4. Copied(r) = [r.heap EXCEPT ![a] = Kept(r)]  BY <2>2, <1>4, <1>5
    <3>5. [r.heap EXCEPT ![a] = Kept(r)] = [heap EXCEPT ![a] = Kept(r)]  BY <1>4, <1>5
    <3> QED  BY <3>3, <3>4, <3>5
  <2> QED  BY <2>1, <2>2
<1> HIDE DEF Copied, Kept
<1>9. PICK g \in Bytes(n) : Copied(r) = [heap EXCEPT ![a] = g]  BY <1>8
<1>10. /\ heap' = Freed([heap EXCEPT ![a] = g], ptr[c]) /\ ptr' = [ptr EXCEPT ![c] = a]
       /\ size' = [size EXCEPT ![c] = n] /\ answer' = "ok"
  BY <1>2, <1>4, <1>5, <1>9
<1>11. Sound'  BY <1>1, <1>5, <1>10, NewBlockKeepsSound DEF IInv
<1> QED  BY <1>7, <1>10, <1>11 DEF IInv, Answer

LEMMA WriteInv ==
    ASSUME IInv, NEW c \in Client, NEW o \in 0 .. SizeMax, NEW b \in Byte, UNCHANGED build,
           Write(c, o, b)
    PROVE  IInv'
<1>1. /\ o \in 0 .. size[c] - 1 /\ size[c] > 0
  BY SizeMaxIsNat DEF Write, IInv, Sound, Shaped
<1>2. ptr[c] # Null /\ o \in DOMAIN heap[ptr[c]]  BY <1>1 DEF IInv, Sound, Sized
<1>3. /\ memory_error' = (memory_error \/ ptr[c] = Null \/ o \notin DOMAIN heap[ptr[c]])
      /\ heap' = [heap EXCEPT ![ptr[c]] = [@ EXCEPT ![o] = b]]
      /\ answer' = "ok" /\ UNCHANGED <<ptr, size>>
  BY DEF Write
<1>4. memory_error' = FALSE  BY <1>2, <1>3 DEF IInv
<1>5. Sound'  BY <1>1, <1>3, WriteKeepsSound DEF IInv
<1> QED  BY <1>3, <1>4, <1>5 DEF IInv, Answer

LEMMA NextInv ==
    ASSUME ~AllocatorCanFail, IInv, [Next]_vars
    PROVE  IInv'
<1>1. CASE Next
  <2>1. UNCHANGED build  BY <1>1 DEF Next
  <2>2. PICK c \in Client :
            \/ Release(c)
            \/ \E n \in 0 .. SizeMax : Acquire(c, n) \/ AcquireAligned(c, n) \/ Realloc(c, n) \/ SReallocAllocator(c, n)
            \/ \E num, each \in 0 .. SizeMax : Calloc(c, num, each)
            \/ \E o \in 0 .. SizeMax, b \in Byte : Write(c, o, b)
    BY <1>1 DEF Next
  <2> QED  BY <2>1, <2>2, AcquireInv, AcquireAlignedInv, CallocInv, ReleaseInv, ReallocInv, SReallocInv, WriteInv
<1>2. CASE UNCHANGED vars
  BY <1>2 DEF vars, IInv, Sound, Shaped, OwnedOnce, Sized, Allocated
<1> QED  BY <1>1, <1>2

LEMMA InvImplies == IInv => TypeOK /\ OwnedOnce /\ NoMemoryError
BY DEF IInv, Sound, Shaped, Sized, TypeOK, NoMemoryError, Build, Answer

LEMMA AlwaysIInv == ~AllocatorCanFail => (Spec => []IInv)
<1> SUFFICES ASSUME ~AllocatorCanFail PROVE Spec => []IInv  OBVIOUS
<1>1. IInv /\ [Next]_vars => IInv'  BY NextInv
<1> QED  BY <1>1, InitInv, PTL DEF Spec

-----------------------------------------------------------------------------

(* The heap, the pointers and the sizes have their types: no product of      *)
(* sizes and no rounded size leaves size_t.                                *)
THEOREM TypeCorrect == ~AllocatorCanFail => (Spec => []TypeOK)
<1>1. IInv => TypeOK  BY InvImplies
<1> QED  BY <1>1, AlwaysIInv, PTL

(* Whatever the callers call and whichever allocation fails, every block     *)
(* has exactly one owner: none leaks, none is shared.                       *)
THEOREM BlocksAreOwnedOnce == ~AllocatorCanFail => (Spec => []OwnedOnce)
<1>1. IInv => OwnedOnce  BY InvImplies
<1> QED  BY <1>1, AlwaysIInv, PTL

(* No copy, no fill and no free of the memory functions leaves the blocks    *)
(* that are allocated, and every byte an owner believes it has is there.    *)
THEOREM MemoryIsSafe == ~AllocatorCanFail => (Spec => []NoMemoryError)
<1>1. IInv => NoMemoryError  BY InvImplies
<1> QED  BY <1>1, AlwaysIInv, PTL


-----------------------------------------------------------------------------
(* What the callers see. *)

(* The memory of caller c. *)
MemAt(c) == [o \in 0 .. size[c] - 1 |-> heap[ptr[c]][o]]

LEMMA MemOfIs == memOf = [c \in Client |-> MemAt(c)]
BY DEF memOf, MemAt

(* Without a pointer there is no memory. *)
LEMMA NullHasNothing ==
    ASSUME Sound, NEW c \in Client, ptr[c] = Null
    PROVE  size[c] = 0 /\ memOf[c] = Promise!Nothing
<1>1. size[c] = 0  BY SizeMaxIsNat DEF Sound, Shaped, Sized
<1>2. 0 .. size[c] - 1 = {}  BY <1>1
<1>3. MemAt(c) = Promise!Nothing  BY <1>2 DEF MemAt, Promise!Nothing
<1> QED  BY <1>1, <1>3, MemOfIs

(* An operation of c leaves the memory of the others alone. *)
LEMMA OthersKeepMem ==
    ASSUME Sound, NEW c \in Client, NEW m,
           \A d \in Client \ {c} : /\ ptr'[d] = ptr[d] /\ size'[d] = size[d]
                                   /\ ptr[d] # Null => heap'[ptr[d]] = heap[ptr[d]],
           MemAt(c)' = m
    PROVE  memOf' = [memOf EXCEPT ![c] = m]
<1>1. ASSUME NEW d \in Client \ {c} PROVE MemAt(d)' = MemAt(d)
  <2>1. CASE ptr[d] # Null  BY <2>1 DEF MemAt
  <2>2. CASE ptr[d] = Null
    <3>1. size[d] = 0 /\ size'[d] = 0  BY <2>2, NullHasNothing
    <3>2. 0 .. size[d] - 1 = {} /\ 0 .. size'[d] - 1 = {}  BY <3>1
    <3> QED  BY <3>2 DEF MemAt
  <2> QED  BY <2>1, <2>2
<1>2. memOf' = [d \in Client |-> MemAt(d)']  BY DEF memOf, MemAt
<1>3. memOf' = [d \in Client |-> IF d = c THEN m ELSE MemAt(d)]  BY <1>1, <1>2
<1> QED  BY <1>3, MemOfIs

(* A new block of c's is what c gets. *)
LEMMA NewBlockMem ==
    ASSUME Sound, NEW c \in Client, NEW n \in 1 .. SizeMax,
           NEW a \in Addr \ Allocated(heap), NEW b,
           heap' = Freed([heap EXCEPT ![a] = b], ptr[c]),
           ptr' = [ptr EXCEPT ![c] = a], size' = [size EXCEPT ![c] = n]
    PROVE  memOf' = [memOf EXCEPT ![c] = [o \in 0 .. n - 1 |-> b[o]]]
<1>1. a \in Addr /\ heap \in [Addr -> Blocks] /\ ptr \in [Client -> Addr \cup {Null}]
      /\ size \in [Client -> 0 .. SizeMax]
  BY DEF Sound, Shaped
<1>2. \A d \in Client : ptr[d] # Null => ptr[d] \in Addr /\ ptr[d] # a
  BY OldBlock
<1>3. a # ptr[c]  BY <1>1, <1>2, NullIsNoAddress
<1>4. heap'[a] = b
  BY <1>1, <1>3 DEF Freed
<1>5. ASSUME NEW d \in Client \ {c}
      PROVE  /\ ptr'[d] = ptr[d] /\ size'[d] = size[d]
             /\ ptr[d] # Null => heap'[ptr[d]] = heap[ptr[d]]
  <2>1. ptr[d] # Null => ptr[d] # ptr[c]  BY DEF Sound, OwnedOnce
  <2> QED  BY <1>1, <1>2, <2>1 DEF Freed
<1>6. MemAt(c)' = [o \in 0 .. n - 1 |-> b[o]]
  <2>1. ptr'[c] = a /\ size'[c] = n  BY <1>1
  <2> QED  BY <1>4, <2>1 DEF MemAt
<1> QED  BY <1>5, <1>6, OthersKeepMem

Keeps == [Promise!Next]_(Promise!vars)

LEMMA PromiseInit == Init => Promise!Init
<1> SUFFICES ASSUME Init PROVE Promise!Init  OBVIOUS
<1>1. ASSUME NEW c \in Client PROVE MemAt(c) = Promise!Nothing
  <2>1. size[c] = 0  BY DEF Init
  <2>2. 0 .. size[c] - 1 = {}  BY <2>1
  <2> QED  BY <2>2 DEF MemAt, Promise!Nothing
<1>2. memOf = [c \in Client |-> Promise!Nothing]  BY <1>1, MemOfIs
<1> QED  BY <1>2 DEF Init, Promise!Init

LEMMA FailsKeeps ==
    ASSUME Fails
    PROVE  Promise!Next
<1>1. UNCHANGED <<heap, ptr, size>> /\ answer' = "error"  BY DEF Fails
<1>2. memOf' = memOf  BY <1>1 DEF memOf
<1> QED  BY <1>1, <1>2 DEF Promise!Next, Promise!Fails

(* The first n bytes of a block, for a caller that had nothing. *)
LEMMA GetsBlockKeeps ==
    ASSUME Sound, NEW c \in Client, ptr[c] = Null, NEW n \in 1 .. SizeMax,
           NEW a \in Addr \ Allocated(heap), NEW b,
           Returns(c, [heap EXCEPT ![a] = b], a, n)
    PROVE  /\ memOf[c] = Promise!Nothing
           /\ Promise!Gets(c, [o \in 0 .. n - 1 |-> b[o]])
<1>1. /\ heap' = [heap EXCEPT ![a] = b] /\ ptr' = [ptr EXCEPT ![c] = a]
      /\ size' = [size EXCEPT ![c] = n] /\ answer' = "ok"
  BY DEF Returns
<1>2. heap' = Freed([heap EXCEPT ![a] = b], ptr[c])  BY <1>1 DEF Freed
<1>3. memOf' = [memOf EXCEPT ![c] = [o \in 0 .. n - 1 |-> b[o]]]
  BY <1>1, <1>2, NewBlockMem
<1> QED  BY <1>1, <1>3, NullHasNothing DEF Promise!Gets

LEMMA AcquiresKeeps ==
    ASSUME Sound, NEW c \in Client, ptr[c] = Null, NEW n \in 1 .. SizeMax,
           NEW r, HasNewBlock(r, n), Returns(c, r.heap, r.mem, n)
    PROVE  Promise!Next
<1>1. PICK a \in Addr \ Allocated(heap), m \in n .. SizeMax : \E b \in Bytes(m) :
          r.heap = [heap EXCEPT ![a] = b] /\ r.mem = a
  BY DEF HasNewBlock
<1>2. PICK b \in Bytes(m) : r.heap = [heap EXCEPT ![a] = b]  BY <1>1
<1>3. memOf[c] = Promise!Nothing /\ Promise!Gets(c, [o \in 0 .. n - 1 |-> b[o]])
  BY <1>1, <1>2, GetsBlockKeeps
<1>4. [o \in 0 .. n - 1 |-> b[o]] \in Promise!Bytes(n)
  BY SizeMaxIsNat DEF Bytes, Promise!Bytes
<1>5. Promise!Acquire(c, n)  BY <1>3, <1>4 DEF Promise!Acquire
<1> QED  BY <1>5, SizeMaxIsNat DEF Promise!Next

LEMMA AcquireKeeps ==
    ASSUME IInv, NEW c \in Client, NEW n \in 0 .. SizeMax, Acquire(c, n)
    PROVE  Promise!Next
<1>1. ptr[c] = Null /\ n \in 1 .. SizeMax  BY SizeMaxIsNat DEF Acquire
<1>2. PICK r \in MemAcquire(heap, n) :
          IF r.mem = Null THEN Fails ELSE Returns(c, r.heap, r.mem, n) /\ UNCHANGED memory_error
  BY DEF Acquire
<1>3. CASE r.mem = Null  BY <1>2, <1>3, FailsKeeps
<1>4. CASE r.mem # Null
  <2>1. HasNewBlock(r, n)  BY <1>1, <1>4, AcquireGives DEF IInv
  <2> QED  BY <1>1, <1>2, <1>4, <2>1, AcquiresKeeps DEF IInv
<1> QED  BY <1>3, <1>4

LEMMA AcquireAlignedKeeps ==
    ASSUME IInv, NEW c \in Client, NEW n \in 0 .. SizeMax, AcquireAligned(c, n)
    PROVE  Promise!Next
<1>1. ptr[c] = Null /\ n \in 1 .. SizeMax /\ AlignRoundUp(n) <= SizeMax
  BY SizeMaxIsNat DEF AcquireAligned
<1>2. PICK r \in SeaMallocAlignedHavoc(heap, n) :
          IF r.mem = Null THEN Fails ELSE Returns(c, r.heap, r.mem, n) /\ UNCHANGED memory_error
  BY DEF AcquireAligned
<1>3. CASE r.mem = Null  BY <1>2, <1>3, FailsKeeps
<1>4. CASE r.mem # Null
  <2>1. r \in Mallocs(heap, AlignRoundUp(n))
    BY <1>4 DEF SeaMallocAlignedHavoc, Result
  <2>2. HasNewBlock(r, n)  BY <1>1, <2>1, AlignedIsEnough, SizeMaxIsNat, MallocsHasNewBlock
  <2> QED  BY <1>1, <1>2, <1>4, <2>2, AcquiresKeeps DEF IInv
<1> QED  BY <1>3, <1>4

LEMMA CallocKeeps ==
    ASSUME IInv, NEW c \in Client, NEW num \in 0 .. SizeMax, NEW each \in 0 .. SizeMax,
           Calloc(c, num, each)
    PROVE  Promise!Next
<1> DEFINE n == (num * each) % (SizeMax + 1)
<1>1. ptr[c] = Null /\ num * each > 0  BY DEF Calloc
<1>2. CASE MulSizeOverflows(num, each)  BY <1>2, FailsKeeps DEF Calloc
<1>3. CASE ~MulSizeOverflows(num, each)
  <2>1. num * each \in 1 .. SizeMax
    <3>1. num * each \in Int  BY SizeMaxIsNat
    <3> QED  BY <3>1, <1>1, <1>3, SizeMaxIsNat DEF MulSizeOverflows
  <2>2. n = num * each
    <3>1. \A x \in 1 .. SizeMax : x % (SizeMax + 1) = x  BY SizeMaxIsNat
    <3> QED  BY <2>1, <3>1
  <2>3. PICK r \in MemAcquire(heap, n) :
            IF r.mem = Null THEN Fails
            ELSE /\ Returns(c, [r.heap EXCEPT ![r.mem] = Zeroed(@, n)], r.mem, num * each)
                 /\ UNCHANGED memory_error
    BY <1>3 DEF Calloc
  <2> HIDE DEF n
  <2>4. CASE r.mem = Null  BY <2>3, <2>4, FailsKeeps
  <2>5. CASE r.mem # Null
    <3>1. n \in 1 .. SizeMax  BY <2>1, <2>2
    <3>2. HasNewBlock(r, n)  BY <3>1, <2>5, AcquireGives DEF IInv
    <3>3. PICK a \in Addr \ Allocated(heap), m \in n .. SizeMax : \E b \in Bytes(m) :
              r.heap = [heap EXCEPT ![a] = b] /\ r.mem = a
      BY <3>2 DEF HasNewBlock
    <3>4. PICK b \in Bytes(m) : r.heap = [heap EXCEPT ![a] = b]  BY <3>3
    <3>5. a \in Addr /\ heap \in [Addr -> Blocks]  BY DEF IInv, Sound, Shaped
    <3>6. r.heap[a] = b  BY <3>4, <3>5
    <3>7. [r.heap EXCEPT ![r.mem] = Zeroed(@, n)] = [heap EXCEPT ![a] = Zeroed(b, n)]
      BY <3>3, <3>4, <3>5, <3>6
    <3>8. /\ memOf[c] = Promise!Nothing
          /\ Promise!Gets(c, [o \in 0 .. n - 1 |-> Zeroed(b, n)[o]])
      <4>1. Returns(c, [heap EXCEPT ![a] = Zeroed(b, n)], a, n)
        BY <2>2, <2>3, <2>5, <3>3, <3>7
      <4> QED  BY <1>1, <3>1, <4>1, GetsBlockKeeps DEF IInv
    <3>9. [o \in 0 .. n - 1 |-> Zeroed(b, n)[o]] = Promise!Zeroes(n)
      BY <3>1, <3>3, SizeMaxIsNat DEF Zeroed, Bytes, Promise!Zeroes
    <3>10. Promise!Calloc(c, n)  BY <3>8, <3>9 DEF Promise!Calloc
    <3> QED  BY <3>1, <3>10, SizeMaxIsNat DEF Promise!Next
  <2> QED  BY <2>4, <2>5
<1> QED  BY <1>2, <1>3

LEMMA ReleaseKeeps ==
    ASSUME IInv, NEW c \in Client, Release(c)
    PROVE  Promise!Next
<1>1. /\ heap' = Freed(heap, ptr[c]) /\ ptr' = [ptr EXCEPT ![c] = Null]
      /\ size' = [size EXCEPT ![c] = 0] /\ answer' = "ok"
  BY DEF Release, Returns
<1>2. Sound  BY DEF IInv
<1>3. heap \in [Addr -> Blocks] /\ ptr \in [Client -> Addr \cup {Null}]
      /\ size \in [Client -> 0 .. SizeMax]
  BY <1>2 DEF Sound, Shaped
<1>4. ASSUME NEW d \in Client \ {c}
      PROVE  /\ ptr'[d] = ptr[d] /\ size'[d] = size[d]
             /\ ptr[d] # Null => heap'[ptr[d]] = heap[ptr[d]]
  <2>1. ptr[d] # Null => ptr[d] # ptr[c] /\ ptr[d] \in Addr  BY <1>2, <1>3 DEF Sound, OwnedOnce
  <2> QED  BY <1>1, <1>3, <2>1 DEF Freed
<1>5. MemAt(c)' = Promise!Nothing
  <2>1. size'[c] = 0  BY <1>1, <1>3
  <2>2. 0 .. size'[c] - 1 = {}  BY <2>1
  <2> QED  BY <2>2 DEF MemAt, Promise!Nothing
<1>6. memOf' = [memOf EXCEPT ![c] = Promise!Nothing]  BY <1>2, <1>4, <1>5, OthersKeepMem
<1>7. Promise!Release(c)  BY <1>1, <1>6 DEF Promise!Release, Promise!Gets
<1> QED  BY <1>7 DEF Promise!Next

(* A caller that gets a longer block, with its old bytes in it, and from its  *)
(* old size on those of m.                                                 *)
LEMMA ResizeKeeps ==
    ASSUME Sound, NEW c \in Client, NEW n \in 1 .. SizeMax, NEW a \in Addr \ Allocated(heap),
           NEW g, NEW m,
           \A o \in 0 .. n - 1 : g[o] = IF o < size[c] THEN heap[ptr[c]][o] ELSE m[o],
           heap' = Freed([heap EXCEPT ![a] = g], ptr[c]),
           ptr' = [ptr EXCEPT ![c] = a], size' = [size EXCEPT ![c] = n], answer' = "ok"
    PROVE  Promise!Resize(c, n, m)
<1>1. memOf' = [memOf EXCEPT ![c] = [o \in 0 .. n - 1 |-> g[o]]]  BY NewBlockMem
<1>2. memOf[c] = MemAt(c) /\ size[c] \in Nat  BY MemOfIs, SizeMaxIsNat DEF Sound, Shaped
<1>3. [o \in 0 .. n - 1 |-> g[o]] =
          [o \in 0 .. n - 1 |-> IF o \in DOMAIN memOf[c] THEN memOf[c][o] ELSE m[o]]
  <2> SUFFICES ASSUME NEW o \in 0 .. n - 1
               PROVE  g[o] = IF o \in DOMAIN memOf[c] THEN memOf[c][o] ELSE m[o]
    OBVIOUS
  <2>1. o \in DOMAIN memOf[c] <=> o < size[c]  BY <1>2, SizeMaxIsNat DEF MemAt
  <2>2. o < size[c] => memOf[c][o] = heap[ptr[c]][o]  BY <1>2, <2>1 DEF MemAt
  <2> QED  BY <2>1, <2>2
<1> QED  BY <1>1, <1>3 DEF Promise!Resize, Promise!Gets

LEMMA GrowIntoKeeps ==
    ASSUME IInv, NEW c \in Client, NEW n \in 1 .. SizeMax, size[c] < n, GrowInto(c, n)
    PROVE  Promise!Next
<1>1. PICK r \in MemAcquire(heap, n) :
          IF r.mem = Null THEN Fails
          ELSE Returns(c, Freed(Grown(r.heap, r.mem, ptr[c], size[c], n), ptr[c]), r.mem, n)
  BY DEF GrowInto
<1>2. CASE r.mem = Null  BY <1>1, <1>2, FailsKeeps
<1>3. CASE r.mem # Null
  <2>1. HasNewBlock(r, n)  BY <1>3, AcquireGives DEF IInv
  <2>2. PICK a \in Addr \ Allocated(heap), m \in n .. SizeMax : \E b \in Bytes(m) :
            r.heap = [heap EXCEPT ![a] = b] /\ r.mem = a
    BY <2>1 DEF HasNewBlock
  <2>3. PICK b \in Bytes(m) : r.heap = [heap EXCEPT ![a] = b]  BY <2>2
  <2> DEFINE h == [heap EXCEPT ![a] = b]
             g == [o \in DOMAIN b |-> IF o < size[c] THEN heap[ptr[c]][o] ELSE Zeroed(b, n)[o]]
  <2>4. Sound /\ a \in Addr /\ heap \in [Addr -> Blocks] /\ size[c] \in Nat
    BY SizeMaxIsNat DEF IInv, Sound, Shaped
  <2>5. DOMAIN b = 0 .. m - 1  BY DEF Bytes
  <2>6. h[a] = b  BY <2>4
  <2>7. \A o \in DOMAIN b : o < size[c] => h[ptr[c]][o] = heap[ptr[c]][o]
    <3> SUFFICES ASSUME NEW o \in DOMAIN b, o < size[c] PROVE h[ptr[c]] = heap[ptr[c]]
      OBVIOUS
    <3>1. o \in Nat  BY <2>5, SizeMaxIsNat
    <3>2. ptr[c] # Null  BY <2>4, <3>1, CopiedBytes
    <3>3. ptr[c] \in Addr /\ ptr[c] # a  BY <2>4, <3>2, OldBlock
    <3> QED  BY <2>4, <3>3
  <2>8. Grown(h, a, ptr[c], size[c], n) = [heap EXCEPT ![a] = g]
    <3>1. [o \in DOMAIN h[a] |-> IF o < size[c] THEN h[ptr[c]][o] ELSE Zeroed(h[a], n)[o]] = g
      <4> HIDE DEF h
      <4> QED  BY <2>6, <2>7
    <3>2. Grown(h, a, ptr[c], size[c], n) = [h EXCEPT ![a] = g]
      <4> HIDE DEF h, g
      <4> QED  BY <3>1 DEF Grown
    <3>3. [h EXCEPT ![a] = g] = [heap EXCEPT ![a] = g]
      <4> HIDE DEF g
      <4> QED  BY <2>4
    <3> QED  BY <3>2, <3>3
  <2>9. /\ heap' = Freed([heap EXCEPT ![a] = g], ptr[c]) /\ ptr' = [ptr EXCEPT ![c] = a]
        /\ size' = [size EXCEPT ![c] = n] /\ answer' = "ok"
    <3> HIDE DEF g
    <3> QED  BY <1>1, <1>3, <2>2, <2>3, <2>8 DEF Returns
  <2>10. \A o \in 0 .. n - 1 :
             g[o] = IF o < size[c] THEN heap[ptr[c]][o] ELSE Promise!Zeroes(n)[o]
    <3> SUFFICES ASSUME NEW o \in 0 .. n - 1
                 PROVE  g[o] = IF o < size[c] THEN heap[ptr[c]][o] ELSE Promise!Zeroes(n)[o]
      OBVIOUS
    <3>1. o \in DOMAIN b  BY <2>5, SizeMaxIsNat
    <3>2. Zeroed(b, n)[o] = 0 /\ Promise!Zeroes(n)[o] = 0
      BY <3>1, SizeMaxIsNat DEF Zeroed, Promise!Zeroes
    <3> QED  BY <3>1, <3>2
  <2> HIDE DEF g
  <2>11. Promise!Resize(c, n, Promise!Zeroes(n))  BY <2>4, <2>9, <2>10, ResizeKeeps
  <2> QED  BY <2>11, SizeMaxIsNat DEF Promise!Realloc, Promise!Next
<1> QED  BY <1>2, <1>3

LEMMA ReallocKeeps ==
    ASSUME IInv, NEW c \in Client, NEW n \in 0 .. SizeMax, Realloc(c, n)
    PROVE  Promise!Next
<1>1. CASE n = 0  BY <1>1, ReleaseKeeps DEF Realloc
<1>2. CASE n # 0 /\ size[c] >= n
  <2>1. size' = [size EXCEPT ![c] = n] /\ answer' = "ok" /\ UNCHANGED <<heap, ptr>>
    BY <1>2 DEF Realloc
  <2>2. Sound /\ size \in [Client -> 0 .. SizeMax] /\ size[c] \in Nat
    BY SizeMaxIsNat DEF IInv, Sound, Shaped
  <2> DEFINE new == [o \in 0 .. n - 1 |->
                        IF o \in DOMAIN memOf[c] THEN memOf[c][o] ELSE Promise!Zeroes(n)[o]]
  <2>3. MemAt(c)' = new
    <3>1. MemAt(c)' = [o \in 0 .. n - 1 |-> heap[ptr[c]][o]]  BY <2>1, <2>2 DEF MemAt
    <3>2. memOf[c] = MemAt(c)  BY MemOfIs
    <3>3. \A o \in 0 .. n - 1 : o \in 0 .. size[c] - 1  BY <1>2, <2>2, SizeMaxIsNat
    <3>4. \A o \in 0 .. n - 1 : o \in DOMAIN memOf[c] /\ memOf[c][o] = heap[ptr[c]][o]
      BY <3>2, <3>3 DEF MemAt
    <3> QED  BY <3>1, <3>4
  <2>4. \A d \in Client \ {c} : /\ ptr'[d] = ptr[d] /\ size'[d] = size[d]
                                /\ ptr[d] # Null => heap'[ptr[d]] = heap[ptr[d]]
    BY <2>1, <2>2
  <2> HIDE DEF new
  <2>5. memOf' = [memOf EXCEPT ![c] = new]  BY <2>2, <2>3, <2>4, OthersKeepMem
  <2>6. Promise!Realloc(c, n)
    BY <2>1, <2>5 DEF new, Promise!Realloc, Promise!Resize, Promise!Gets
  <2> QED  BY <2>6 DEF Promise!Next
<1>3. CASE n # 0 /\ ~(size[c] >= n)
  <2>1. n \in 1 .. SizeMax /\ size[c] < n  BY <1>3, SizeMaxIsNat DEF IInv, Sound, Shaped
  <2> QED  BY <1>3, <2>1, GrowIntoKeeps DEF Realloc
<1> QED  BY <1>1, <1>2, <1>3

LEMMA SReallocKeeps ==
    ASSUME ~AllocatorCanFail, IInv, NEW c \in Client, NEW n \in 0 .. SizeMax,
           SReallocAllocator(c, n)
    PROVE  Promise!Next
<1>1. n \in 1 .. SizeMax /\ size[c] \in Nat /\ size[c] <= n /\ Sound
  BY SizeMaxIsNat DEF SReallocAllocator, IInv, Sound, Shaped
<1> DEFINE Kept(r) == [o \in 0 .. n - 1 |-> IF o < size[c] THEN heap[ptr[c]][o] ELSE r.heap[r.mem][o]]
           Copied(r) == IF r.mem = Null \/ ptr[c] = Null THEN r.heap
                        ELSE [r.heap EXCEPT ![r.mem] = Kept(r)]
<1>2. PICK r \in SMallocAllocator(heap, n) :
          /\ heap' = Freed(Copied(r), ptr[c])
          /\ answer' = IF r.mem = Null THEN "error" ELSE "ok"
          /\ ptr' = IF r.mem = Null THEN ptr ELSE [ptr EXCEPT ![c] = r.mem]
          /\ size' = IF r.mem = Null THEN size ELSE [size EXCEPT ![c] = n]
  BY DEF SReallocAllocator, SReallocGrows
<1>3. r \in Mallocs(heap, n)
  BY <1>1, SizeMaxIsNat DEF SMallocAllocator, BoundedMallocHavoc
<1>4. PICK a \in Addr \ Allocated(heap), b \in Bytes(n) :
          r.heap = [heap EXCEPT ![a] = b] /\ r.mem = a
  <2>1. n \in Int  BY <1>1, SizeMaxIsNat
  <2> HIDE DEF Copied, Kept
  <2> QED  BY <2>1, <1>3, MallocsDef
<1>5. a \in Addr /\ a # Null /\ heap \in [Addr -> Blocks] /\ r.heap[a] = b
  BY <1>1, <1>4, NullIsNoAddress DEF Sound, Shaped
(* With a memory of its own, c keeps its bytes; without one it has none. *)
<1>6. \E g : /\ Copied(r) = [heap EXCEPT ![a] = g]
             /\ \A o \in 0 .. n - 1 : g[o] = IF o < size[c] THEN heap[ptr[c]][o] ELSE b[o]
  <2>1. CASE ptr[c] = Null
    <3>1. size[c] = 0  BY <1>1, <2>1, NullHasNothing
    <3>2. \A o \in 0 .. n - 1 : ~(o < size[c])  BY <1>1, <3>1, SizeMaxIsNat
    <3>3. Copied(r) = [heap EXCEPT ![a] = b]  BY <2>1, <1>4
    <3> QED  BY <3>2, <3>3
  <2>2. CASE ptr[c] # Null
    <3>1. \A o \in 0 .. n - 1 : Kept(r)[o] = IF o < size[c] THEN heap[ptr[c]][o] ELSE b[o]
      BY <1>4, <1>5
    <3> HIDE DEF Kept
    <3>2. Copied(r) = [r.heap EXCEPT ![a] = Kept(r)]  BY <2>2, <1>4, <1>5
    <3>3. [r.heap EXCEPT ![a] = Kept(r)] = [heap EXCEPT ![a] = Kept(r)]  BY <1>4, <1>5
    <3> QED  BY <3>1, <3>2, <3>3
  <2> QED  BY <2>1, <2>2
<1> HIDE DEF Copied, Kept
<1>7. PICK g : /\ Copied(r) = [heap EXCEPT ![a] = g]
               /\ \A o \in 0 .. n - 1 : g[o] = IF o < size[c] THEN heap[ptr[c]][o] ELSE b[o]
  BY <1>6
<1>8. /\ heap' = Freed([heap EXCEPT ![a] = g], ptr[c]) /\ ptr' = [ptr EXCEPT ![c] = a]
      /\ size' = [size EXCEPT ![c] = n] /\ answer' = "ok"
  BY <1>2, <1>4, <1>5, <1>7
<1>9. Promise!Resize(c, n, b)  BY <1>1, <1>7, <1>8, ResizeKeeps
<1>10. b \in Promise!Bytes(n)  BY <1>4 DEF Bytes, Promise!Bytes
<1>11. Promise!Extend(c, n)  BY <1>9, <1>10 DEF Promise!Extend
<1> QED  BY <1>11 DEF Promise!Next

LEMMA WriteKeeps ==
    ASSUME IInv, NEW c \in Client, NEW o \in 0 .. SizeMax, NEW b \in Byte, Write(c, o, b)
    PROVE  Promise!Next
<1>1. o \in 0 .. size[c] - 1 /\ size[c] > 0 /\ Sound
  BY SizeMaxIsNat DEF Write, IInv, Sound, Shaped
<1>2. ptr[c] # Null /\ 0 .. size[c] - 1 \subseteq DOMAIN heap[ptr[c]]  BY <1>1 DEF Sound, Sized
<1>3. /\ heap' = [heap EXCEPT ![ptr[c]] = [@ EXCEPT ![o] = b]]
      /\ answer' = "ok" /\ UNCHANGED <<ptr, size>>
  BY DEF Write
<1>4. ptr[c] \in Addr /\ heap \in [Addr -> Blocks]  BY <1>1, <1>2 DEF Sound, Shaped
<1>5. \A d \in Client \ {c} : /\ ptr'[d] = ptr[d] /\ size'[d] = size[d]
                              /\ ptr[d] # Null => heap'[ptr[d]] = heap[ptr[d]]
  <2>1. \A d \in Client \ {c} : ptr[d] # Null => ptr[d] # ptr[c] /\ ptr[d] \in Addr
    BY <1>1 DEF Sound, Shaped, OwnedOnce
  <2> QED  BY <1>3, <1>4, <2>1
<1>6. memOf[c] = MemAt(c) /\ DOMAIN memOf[c] = 0 .. size[c] - 1  BY MemOfIs DEF MemAt
<1>7. MemAt(c)' = [memOf[c] EXCEPT ![o] = b]
  <2>1. heap'[ptr[c]] = [heap[ptr[c]] EXCEPT ![o] = b]  BY <1>3, <1>4
  <2>2. MemAt(c)' = [p \in 0 .. size[c] - 1 |-> heap'[ptr[c]][p]]  BY <1>3 DEF MemAt
  <2>3. \A p \in 0 .. size[c] - 1 : heap'[ptr[c]][p] = IF p = o THEN b ELSE heap[ptr[c]][p]
    BY <1>1, <1>2, <2>1
  <2>4. \A p \in 0 .. size[c] - 1 : memOf[c][p] = heap[ptr[c]][p]  BY <1>6 DEF MemAt
  <2>5. [memOf[c] EXCEPT ![o] = b] = [p \in 0 .. size[c] - 1 |-> IF p = o THEN b ELSE heap[ptr[c]][p]]
    BY <1>6, <2>4
  <2> QED  BY <2>2, <2>3, <2>5
<1>8. memOf' = [memOf EXCEPT ![c] = [memOf[c] EXCEPT ![o] = b]]
  BY <1>1, <1>5, <1>7, OthersKeepMem
<1>9. Promise!Write(c, o, b)
  BY <1>1, <1>3, <1>6, <1>8 DEF Promise!Write, Promise!Gets
<1> QED  BY <1>9 DEF Promise!Next

LEMMA NextKeeps ==
    ASSUME ~AllocatorCanFail, IInv, [Next]_vars
    PROVE  Keeps
<1>1. CASE Next
  <2>1. PICK c \in Client :
            \/ Release(c)
            \/ \E n \in 0 .. SizeMax : Acquire(c, n) \/ AcquireAligned(c, n) \/ Realloc(c, n) \/ SReallocAllocator(c, n)
            \/ \E num, each \in 0 .. SizeMax : Calloc(c, num, each)
            \/ \E o \in 0 .. SizeMax, b \in Byte : Write(c, o, b)
    BY <1>1 DEF Next
  <2>2. Promise!Next
    BY <2>1, AcquireKeeps, AcquireAlignedKeeps, CallocKeeps, ReleaseKeeps, ReallocKeeps,
       SReallocKeeps, WriteKeeps
  <2> QED  BY <2>2 DEF Keeps
<1>2. CASE UNCHANGED vars
  <2>1. memOf' = memOf /\ answer' = answer  BY <1>2 DEF vars, memOf
  <2> QED  BY <2>1 DEF Keeps, Promise!vars
<1> QED  BY <1>1, <1>2

(* Whatever blocks, copies and zeroes are behind them, to their callers the   *)
(* memory functions of all the builds are those of Allocation: memory keeps  *)
(* its bytes through every reallocation, through every failed one, and       *)
(* through whatever the other callers do.                                  *)
THEOREM AllocationIsImplemented == ~AllocatorCanFail => (Spec => ImplementsAllocation)
<1> SUFFICES ASSUME ~AllocatorCanFail PROVE Spec => ImplementsAllocation  OBVIOUS
<1>1. IInv /\ [Next]_vars => IInv' /\ [Promise!Next]_(Promise!vars)
  BY NextInv, NextKeeps DEF Keeps
<1> QED  BY <1>1, InitInv, PromiseInit, PTL DEF Spec, ImplementsAllocation, Promise!Spec
=============================================================================
