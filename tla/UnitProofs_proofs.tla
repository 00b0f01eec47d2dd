-------------------------- MODULE UnitProofs_proofs --------------------------
(***************************************************************************)
(* Proofs about the ring buffer's unit proofs, for every maximum size of    *)
(* buffers and every number of faults, and about the stubs that SeaHorn's   *)
(* build of the priority queue's unit proofs calls, for queues of any       *)
(* length; and about the one byte that the unit proofs of buffers, strings  *)
(* and lists watch, for blocks of any length.                              *)
(*                                                                         *)
(* Of the ring buffer: what the helpers of the three builds hand over       *)
(* (Given), what a correct operation leaves of it (OutcomesOf), and from    *)
(* these two, for each unit proof, that the assertions hold of what a       *)
(* correct operation leaves and of nothing with a single fault.  What the    *)
(* second generation asks, whether a struct was written to, takes an         *)
(* invariant of its own (WriteInv): what was not written to holds what it    *)
(* held before the call.                                                   *)
(***************************************************************************)
EXTENDS RingBufferUnitProofs, TLAPS

CONSTANTS MaxQueueItems, SizeMax, Byte

VARIABLES queue_pc, op, index, length, backs, back_length, queue_ret

Queue == INSTANCE PriorityQueueStubs WITH pc <- queue_pc, ret <- queue_ret

Watched == INSTANCE WatchedBytes

-----------------------------------------------------------------------------
(* The ring buffer: its sizes, and the rings of the three helpers. *)

RingRecord ==
    [allocator : {"none", "sea"}, allocation : Ptr, head : Ptr, tail : Ptr, end : Ptr]
BufRecord ==
    [allocator : {"none", "sea"}, buffer : Ptr, len : Nat, capacity : Nat]

(* The rings of every build's helper; IsValid is what KLEE's adds to them.   *)
RingOf(r) ==
    /\ r \in RingRecord
    /\ r.allocator = "sea" /\ r.allocation = 0 /\ r.end \in 1 .. MaxSize
    /\ r.head \in 0 .. r.end - 1 /\ r.tail \in 0 .. r.end - 1

GoodRing(r) == RingOf(r) /\ (r.head = 0 => r.tail = 0)

(* The addresses, as numbers. *)
LEMMA SizesAre ==
    /\ MaxSize \in Nat /\ MaxSize > 0
    /\ NULL = -1 /\ Outside = MaxSize + 1
    /\ \A p : p \in Ptr <=> p \in Int /\ -1 <= p /\ p <= MaxSize + 1
BY MaxSizeIsPositive DEF NULL, Outside, Ptr

(* What libFuzzer's helpers reduce their inputs by. *)
LEMMA RemainderIsSmaller ==
    ASSUME NEW a \in Nat, NEW n \in Nat \ {0}
    PROVE  a % n \in 0 .. n - 1
OBVIOUS

(* initialize_ring_buffer of a given size. *)
LEMMA RingsOfSizeAre ==
    ASSUME NEW size \in 0 .. MaxSize, NEW r
    PROVE  r \in RingsOfSize(size) <=> RingOf(r) /\ r.end = size
<1>1. ASSUME r \in RingsOfSize(size) PROVE RingOf(r) /\ r.end = size
  <2>1. /\ r.allocator = "sea" /\ r.allocation = 0 /\ r.end = size
        /\ r.head \in 0 .. size - 1 /\ r.tail \in 0 .. size - 1
        /\ r = [allocator |-> r.allocator, allocation |-> r.allocation, head |-> r.head,
                tail |-> r.tail, end |-> r.end]
    BY <1>1 DEF RingsOfSize, Positions
  <2>2. r.end \in Ptr /\ r.head \in Ptr /\ r.tail \in Ptr /\ r.allocation \in Ptr
    BY <2>1, SizesAre
  <2>3. r \in RingRecord  BY <2>1, <2>2 DEF RingRecord
  <2> QED  BY <2>1, <2>3, SizesAre DEF RingOf
<1>2. ASSUME RingOf(r), r.end = size PROVE r \in RingsOfSize(size)
  BY <1>2 DEF RingOf, RingRecord, RingsOfSize, Positions
<1> QED  BY <1>1, <1>2

(* Every build hands over rings of a size within the maximum; a valid ring *)
(* of a size that it does hand over is one of them.                        *)
LEMMA RingsAre ==
    ASSUME tool \in {"sea", "klee", "fuzz"}, NEW r
    PROVE  /\ r \in Rings => RingOf(r)
           /\ r \in Rings /\ IsValid(r) => GoodRing(r)
           /\ \A s \in Rings : GoodRing(r) /\ r.end = s.end => r \in Rings
<1>1. r \in SeaRings <=> RingOf(r)
  <2>1. r \in SeaRings <=> \E size \in 1 .. MaxSize : r \in RingsOfSize(size)
    BY DEF SeaRings
  <2>2. \A size \in 1 .. MaxSize : r \in RingsOfSize(size) <=> RingOf(r) /\ r.end = size
    BY RingsOfSizeAre, SizesAre
  <2>3. RingOf(r) => r.end \in 1 .. MaxSize  BY DEF RingOf
  <2> QED  BY <2>1, <2>2, <2>3
<1>2. ASSUME NEW s PROVE s \in FuzzRings <=> \E n \in 1 .. 2 * MaxSize : RingOf(s) /\ s.end = n % MaxSize
  <2>1. s \in FuzzRings <=> \E n \in 1 .. 2 * MaxSize : s \in RingsOfSize(n % MaxSize)
    BY DEF FuzzRings
  <2>2. ASSUME NEW n \in 1 .. 2 * MaxSize
        PROVE  s \in RingsOfSize(n % MaxSize) <=> RingOf(s) /\ s.end = n % MaxSize
    <3>1. n % MaxSize \in 0 .. MaxSize  BY SizesAre, RemainderIsSmaller
    <3> QED  BY <3>1, RingsOfSizeAre
  <2> QED  BY <2>1, <2>2
<1>3. IsValid(r) /\ RingOf(r) => GoodRing(r)
  BY DEF IsValid, GoodRing, RingOf
<1>4. r \in KleeRings <=> RingOf(r) /\ (r.head = r.allocation => r.tail = r.allocation)
  BY <1>1 DEF KleeRings
<1>5. CASE tool = "sea"
  BY <1>1, <1>3, <1>5 DEF Rings, GoodRing
<1>6. CASE tool = "klee"
  <2>1. Rings = KleeRings  BY <1>6 DEF Rings
  <2> QED  BY <1>3, <1>4, <2>1 DEF GoodRing, RingOf
<1>7. CASE tool = "fuzz"
  <2>1. Rings = FuzzRings  BY <1>7 DEF Rings
  <2> QED  BY <1>2, <1>3, <2>1 DEF GoodRing
<1> QED  BY <1>5, <1>6, <1>7

(* A ring as the library sees it: what holds of every valid one that the    *)
(* helpers build.                                                          *)
LEMMA GoodRingIs ==
    ASSUME NEW r, GoodRing(r)
    PROVE  /\ r = [allocator |-> r.allocator, allocation |-> r.allocation, head |-> r.head,
                   tail |-> r.tail, end |-> r.end]
           /\ r \in RingRecord /\ r.allocator = "sea" /\ r.allocation = 0
           /\ r.end \in 1 .. MaxSize /\ r.end \in Int /\ r.head \in Int /\ r.tail \in Int
           /\ 0 <= r.head /\ r.head < r.end /\ 0 <= r.tail /\ r.tail < r.end
           /\ r.head = 0 => r.tail = 0
BY SizesAre DEF GoodRing, RingOf, RingRecord

-----------------------------------------------------------------------------
(* The two ways to acquire. *)

(* Where the library may take size bytes of a ring. *)
Fits(r, at, size) ==
    /\ size > 0
    /\ \/ r.head = r.tail /\ at = 0 /\ size <= r.end
       \/ r.tail > r.head /\ at = r.head /\ r.head + size < r.tail
       \/ r.tail < r.head /\ at = r.head /\ r.head + size <= r.end
       \/ r.tail < r.head /\ at = 0 /\ size < r.tail

Vend(r, at, size) ==
    Vended(IF IsEmpty(r) THEN [r EXCEPT !.tail = r.allocation] ELSE r, at, size)

(* acquire refuses, or vends where the bytes fit. *)
LEMMA AcquireIs ==
    ASSUME NEW r, GoodRing(r), NEW b, NEW n \in Nat
    PROVE  \/ Acquire(r, b, n) = Refused(r, b)
           \/ \E at \in 0 .. MaxSize : Fits(r, at, n) /\ Acquire(r, b, n) = Vend(r, at, n)
<1> USE GoodRingIs, SizesAre
<1>1. CASE n = 0
  BY <1>1 DEF Acquire
<1>2. CASE n # 0 /\ r.head = r.tail
  <2>1. CASE n <= r.end - r.allocation
    <3>1. Acquire(r, b, n) = Vended([r EXCEPT !.tail = r.allocation], r.allocation, n)
      BY <1>2, <2>1 DEF Acquire
    <3> QED  BY <1>2, <2>1, <3>1 DEF Fits, Vend, IsEmpty
  <2>2. CASE ~(n <= r.end - r.allocation)
    BY <1>2, <2>2 DEF Acquire
  <2> QED  BY <2>1, <2>2
<1>3. CASE n # 0 /\ r.tail > r.head
  <2>1. Acquire(r, b, n) = IF n < r.tail - r.head THEN Vended(r, r.head, n) ELSE Refused(r, b)
    BY <1>3 DEF Acquire
  <2>2. n < r.tail - r.head => Fits(r, r.head, n) /\ Vend(r, r.head, n) = Vended(r, r.head, n)
    BY <1>3 DEF Fits, Vend, IsEmpty
  <2>3. r.head \in 0 .. MaxSize  OBVIOUS
  <2> QED  BY <2>1, <2>2, <2>3
<1>4. CASE n # 0 /\ r.tail < r.head
  <2>1. Acquire(r, b, n) =
            IF n <= r.end - r.head THEN Vended(r, r.head, n)
            ELSE IF n < r.tail - r.allocation THEN Vended(r, r.allocation, n)
            ELSE Refused(r, b)
    BY <1>4 DEF Acquire
  <2>2. n <= r.end - r.head => Fits(r, r.head, n) /\ Vend(r, r.head, n) = Vended(r, r.head, n)
    BY <1>4 DEF Fits, Vend, IsEmpty
  <2>3. n < r.tail - r.allocation =>
            Fits(r, r.allocation, n) /\ Vend(r, r.allocation, n) = Vended(r, r.allocation, n)
    BY <1>4 DEF Fits, Vend, IsEmpty
  <2>4. r.head \in 0 .. MaxSize /\ r.allocation \in 0 .. MaxSize  OBVIOUS
  <2> QED  BY <2>1, <2>2, <2>3, <2>4
<1> QED  BY <1>1, <1>2, <1>3, <1>4

(* acquire_up_to refuses, or vends some size between its two bounds where  *)
(* that many bytes fit.                                                    *)
LEMMA AcquireUpToIs ==
    ASSUME NEW r, GoodRing(r), NEW b, NEW n \in Nat, NEW m \in 0 .. n
    PROVE  \/ AcquireUpTo(r, b, m, n) = Refused(r, b)
           \/ \E at \in 0 .. MaxSize, size \in m .. n :
                  Fits(r, at, size) /\ AcquireUpTo(r, b, m, n) = Vend(r, at, size)
<1> USE GoodRingIs, SizesAre
<1> DEFINE Vends == \E at \in 0 .. MaxSize, size \in m .. n :
                        Fits(r, at, size) /\ AcquireUpTo(r, b, m, n) = Vend(r, at, size)
<1>1. CASE m = 0
  BY <1>1 DEF AcquireUpTo
<1>2. CASE m # 0 /\ r.head = r.tail
  <2> DEFINE all == AtMost(n, r.end - r.allocation)
  <2>1. all \in Int /\ all <= n /\ all <= r.end  BY DEF AtMost
  <2>2. AcquireUpTo(r, b, m, n) =
            IF all >= m THEN Vended([r EXCEPT !.tail = r.allocation], r.allocation, all)
            ELSE Refused(r, b)
    BY <1>2 DEF AcquireUpTo
  <2> HIDE DEF all
  <2>3. ASSUME all >= m PROVE Vends
    <3>1. Fits(r, 0, all) /\ all \in m .. n  BY <1>2, <2>1, <2>3 DEF Fits
    <3>2. AcquireUpTo(r, b, m, n) = Vend(r, 0, all)  BY <1>2, <2>2, <2>3 DEF Vend, IsEmpty
    <3> QED  BY <3>1, <3>2
  <2> QED  BY <2>2, <2>3
<1>3. CASE m # 0 /\ r.tail > r.head
  <2> DEFINE gap == AtMost(n, r.tail - r.head - 1)
  <2>1. gap \in Int /\ gap <= n /\ r.head + gap < r.tail  BY DEF AtMost
  <2>2. AcquireUpTo(r, b, m, n) = IF gap >= m THEN Vended(r, r.head, gap) ELSE Refused(r, b)
    BY <1>3 DEF AcquireUpTo
  <2> HIDE DEF gap
  <2>3. ASSUME gap >= m PROVE Vends
    <3>1. Fits(r, r.head, gap) /\ gap \in m .. n /\ r.head \in 0 .. MaxSize
      BY <1>3, <2>1, <2>3 DEF Fits
    <3>2. AcquireUpTo(r, b, m, n) = Vend(r, r.head, gap)  BY <1>3, <2>2, <2>3 DEF Vend, IsEmpty
    <3> QED  BY <3>1, <3>2
  <2> QED  BY <2>2, <2>3
<1>4. CASE m # 0 /\ r.tail < r.head
  <2> DEFINE space == r.end - r.head
             before == r.tail - r.allocation
  <2>1. AcquireUpTo(r, b, m, n) =
            IF space >= n THEN Vended(r, r.head, n)
            ELSE IF before > n THEN Vended(r, r.allocation, n)
            ELSE IF space >= m /\ space >= before THEN Vended(r, r.head, space)
            ELSE IF before - 1 >= m THEN Vended(r, r.allocation, before - 1)
            ELSE Refused(r, b)
    BY <1>4 DEF AcquireUpTo
  <2>2. space \in Int /\ before \in Int /\ space = r.end - r.head /\ before = r.tail
    OBVIOUS
  <2> HIDE DEF space, before
  <2>3. ASSUME NEW at \in {r.head, r.allocation}, NEW size
        PROVE  Vended(r, at, size) = Vend(r, at, size) /\ at \in 0 .. MaxSize
    BY <1>4 DEF Vend, IsEmpty
  <2>4. /\ space >= n => Fits(r, r.head, n) /\ n \in m .. n
        /\ before > n => Fits(r, r.allocation, n) /\ n \in m .. n
        /\ ~(space >= n) /\ space >= m => Fits(r, r.head, space) /\ space \in m .. n
        /\ ~(before > n) /\ before - 1 >= m =>
               Fits(r, r.allocation, before - 1) /\ before - 1 \in m .. n
    BY <1>4, <2>2 DEF Fits
  <2>5. CASE space >= n
    <3>1. AcquireUpTo(r, b, m, n) = Vend(r, r.head, n)  BY <2>1, <2>3, <2>5
    <3> QED  BY <2>3, <2>4, <2>5, <3>1
  <2>6. CASE ~(space >= n) /\ before > n
    <3>1. AcquireUpTo(r, b, m, n) = Vend(r, r.allocation, n)  BY <2>1, <2>3, <2>6
    <3> QED  BY <2>3, <2>4, <2>6, <3>1
  <2>7. CASE ~(space >= n) /\ ~(before > n) /\ space >= m /\ space >= before
    <3>1. AcquireUpTo(r, b, m, n) = Vend(r, r.head, space)  BY <2>1, <2>3, <2>7
    <3> QED  BY <2>3, <2>4, <2>7, <3>1
  <2>8. CASE ~(space >= n) /\ ~(before > n) /\ ~(space >= m /\ space >= before)
    <3>1. CASE before - 1 >= m
      <4>1. AcquireUpTo(r, b, m, n) = Vend(r, r.allocation, before - 1)
        BY <2>1, <2>3, <2>8, <3>1
      <4> QED  BY <2>3, <2>4, <2>8, <3>1, <4>1
    <3>2. CASE ~(before - 1 >= m)
      BY <2>1, <2>8, <3>2
    <3> QED  BY <3>1, <3>2
  <2> QED  BY <2>5, <2>6, <2>7, <2>8
<1> QED  BY <1>1, <1>2, <1>3, <1>4

(* What is vended is a buffer of the ring, and leaves a valid ring in a      *)
(* state that acquire may leave; never the ring as it was.                  *)
LEMMA VendIs ==
    ASSUME NEW r, GoodRing(r), NEW at \in 0 .. MaxSize, NEW size \in Nat, Fits(r, at, size),
           NEW o, o = Vend(r, at, size)
    PROVE  /\ o = [ring |-> o.ring, buf |-> o.buf, ret |-> "success"] /\ o.ret = "success"
           /\ o.ring \in RingRecord /\ o.ring.allocator = "sea"
           /\ o.ring.allocation = 0 /\ o.ring.end = r.end
           /\ o.ring.head = at + size /\ o.ring.head \in 0 .. r.end
           /\ o.ring.tail = (IF IsEmpty(r) THEN 0 ELSE r.tail) /\ o.ring.tail \in 0 .. r.end
           /\ IsEmpty(r) => at = 0
           /\ at = 0 \/ at = r.head
           /\ IsValid(o.ring) /\ AbstractStates(r, o.ring) /\ o.ring # r
           /\ o.buf \in BufRecord /\ o.buf.allocator = "none" /\ o.buf.buffer = at
           /\ o.buf.len = 0 /\ o.buf.capacity = size
           /\ BufIsValid(o.buf) /\ BelongsToPool(o.ring, o.buf)
<1> USE GoodRingIs, SizesAre
<1>1. /\ at \in Int /\ 0 <= at /\ size \in Int /\ size > 0 /\ at + size <= r.end
      /\ IsEmpty(r) => at = 0
      /\ at = 0 \/ at = r.head
      /\ r.tail > r.head => at = r.head /\ at + size < r.tail
      /\ r.tail < r.head /\ at # r.head => at = 0 /\ size < r.tail
  BY DEF Fits, IsEmpty
<1>2. /\ o.ret = "success" /\ o = [ring |-> o.ring, buf |-> o.buf, ret |-> "success"]
      /\ o.buf = EmptyArray(at, size)
      /\ o.ring = [(IF IsEmpty(r) THEN [r EXCEPT !.tail = r.allocation] ELSE r)
                       EXCEPT !.head = at + size]
  BY DEF Vend, Vended
<1>3. /\ o.ring \in RingRecord /\ o.ring.allocator = "sea"
      /\ o.ring.allocation = 0 /\ o.ring.end = r.end
      /\ o.ring.head = at + size
      /\ o.ring.tail = IF IsEmpty(r) THEN 0 ELSE r.tail
  <2>1. at + size \in Ptr /\ 0 \in Ptr  BY <1>1
  <2> QED  BY <1>2, <2>1 DEF RingRecord
<1>4. /\ o.buf \in BufRecord /\ o.buf.allocator = "none" /\ o.buf.buffer = at
      /\ o.buf.len = 0 /\ o.buf.capacity = size
  <2>1. o.buf = [allocator |-> "none", buffer |-> at, len |-> 0, capacity |-> size]
    BY <1>1, <1>2 DEF EmptyArray
  <2>2. at \in Ptr  BY <1>1
  <2> QED  BY <2>1, <2>2 DEF BufRecord
<1>5. IsValid(o.ring)
  BY <1>1, <1>3 DEF IsValid, IsEmpty
<1>6. AbstractStates(r, o.ring)
  BY <1>1, <1>3 DEF AbstractStates, IsEmpty, IsFrontValid, IsMiddleValid, IsEndsValid
<1>7. o.ring # r
  <2>1. o.ring.head # r.head \/ o.ring.tail # r.tail
    BY <1>1, <1>3 DEF IsEmpty
  <2> QED  BY <2>1
<1>8. BufIsValid(o.buf) /\ BelongsToPool(o.ring, o.buf)
  BY <1>1, <1>3, <1>4 DEF BufIsValid, BelongsToPool
<1>9. o.ring.head \in 0 .. r.end /\ o.ring.tail \in 0 .. r.end
  BY <1>1, <1>3
<1> QED  BY <1>1, <1>2, <1>3, <1>4, <1>5, <1>6, <1>7, <1>8, <1>9

-----------------------------------------------------------------------------
(* What the helpers hand to the unit proofs. *)

Builds == {"sea", "klee", "fuzz"}

(* The valid buffers: none with bytes that are not outside of the ring.     *)
LEMMA ValidBufsAre ==
    ASSUME tool \in Builds, NEW b \in ValidBufs
    PROVE  /\ b \in BufRecord /\ b.allocator = "sea" /\ BufIsValid(b)
           /\ b.capacity \in 0 .. MaxSize /\ b.len \in 0 .. b.capacity
           /\ b.buffer \in {NULL, Outside}
<1>1. b \in ByteBufs /\ BufIsValid(b)
  BY DEF ValidBufs
<1> DEFINE Has(p, l, c) ==
        b = [allocator |-> "sea", buffer |-> p, len |-> l, capacity |-> c]
<1>2. \E p \in {NULL, Outside}, c \in 0 .. MaxSize : \E l \in 0 .. c : Has(p, l, c)
  <2>1. CASE tool = "sea"
    BY <1>1, <2>1, SizesAre DEF ByteBufs, SeaByteBufs, Bufs
  <2>2. CASE tool = "klee"
    <3>1. b \in KleeByteBufs  BY <1>1, <2>2 DEF ByteBufs
    <3>2. CASE b \in Bufs({NULL}, {0}, 0)
      <4>1. Has(NULL, 0, 0)  BY <3>2 DEF Bufs
      <4>2. 0 \in 0 .. MaxSize /\ 0 \in 0 .. 0  BY SizesAre
      <4> QED  BY <4>1, <4>2
    <3>3. CASE \E c \in 1 .. MaxSize : b \in Bufs({Outside}, 0 .. c, c)
      <4>1. PICK c \in 1 .. MaxSize : b \in Bufs({Outside}, 0 .. c, c)  BY <3>3
      <4>2. \E l \in 0 .. c : Has(Outside, l, c)  BY <4>1 DEF Bufs
      <4>3. c \in 0 .. MaxSize  BY <4>1
      <4> QED  BY <4>2, <4>3
    <3>4. b \in Bufs({NULL}, {0}, 0) \/ \E c \in 1 .. MaxSize : b \in Bufs({Outside}, 0 .. c, c)
      BY <3>1 DEF KleeByteBufs
    <3> QED  BY <3>2, <3>3, <3>4
  <2>3. CASE tool = "fuzz"
    <3>1. b \in FuzzByteBufs  BY <1>1, <2>3 DEF ByteBufs
    <3>2. PICK n \in 0 .. 2 * MaxSize :
              b \in Bufs({NULL, Outside}, IF Modulo(n) = 0 THEN {0} ELSE 0 .. Modulo(n) - 1, Modulo(n))
      BY <3>1 DEF FuzzByteBufs
    <3>3. Modulo(n) \in 0 .. MaxSize - 1
      <4>1. n \in Nat /\ MaxSize \in Nat \ {0}  BY SizesAre
      <4> QED  BY <4>1, RemainderIsSmaller DEF Modulo
    <3>4. \E p \in {NULL, Outside} : \E l \in 0 .. Modulo(n) : Has(p, l, Modulo(n))
      BY <3>2, <3>3 DEF Bufs
    <3>5. Modulo(n) \in 0 .. MaxSize  BY <3>3, SizesAre
    <3> QED  BY <3>4, <3>5
  <2> QED  BY <2>1, <2>2, <2>3 DEF Builds
<1>3. PICK p \in {NULL, Outside}, c \in 0 .. MaxSize : \E l \in 0 .. c : Has(p, l, c)
  BY <1>2
<1>4. PICK l \in 0 .. c : Has(p, l, c)
  BY <1>3
<1>5. p \in Ptr /\ c \in Nat /\ l \in Nat
  BY <1>4, SizesAre
<1> QED  BY <1>1, <1>4, <1>5 DEF BufRecord

(* A buffer in the part <<lo, hi>> of a ring. *)
Inside(b, lo, hi) ==
    /\ b \in BufRecord /\ b.capacity <= MaxSize /\ b.len <= MaxSize
    /\ lo <= b.buffer /\ b.buffer + b.capacity <= hi

(* A buffer that a helper puts in a part of the ring is inside of it. *)
LEMMA BufsInAre ==
    ASSUME tool \in Builds, NEW lo \in Nat, NEW hi \in 0 .. MaxSize, NEW b \in BufsIn(<<lo, hi>>)
    PROVE  /\ Inside(b, lo, hi)
           /\ tool # "fuzz" => BufIsValid(b) /\ b.capacity > 0
<1>1. PICK c \in ValidBufs : \E a \in AnyAllocator(c) : b \in InRange(a, lo, hi)
  BY DEF BufsIn
<1>2. PICK a \in AnyAllocator(c) : b \in InRange(a, lo, hi)
  BY <1>1
<1>3. /\ c \in BufRecord /\ c.capacity \in 0 .. MaxSize /\ c.len \in 0 .. c.capacity
  BY ValidBufsAre
<1>4. /\ a \in BufRecord /\ a.capacity \in 0 .. MaxSize /\ a.len \in 0 .. a.capacity
      /\ a.capacity \in Nat /\ a.len \in Nat /\ a.len <= MaxSize
  BY <1>2, <1>3, SizesAre DEF AnyAllocator, BufRecord
<1>5. ASSUME NEW p \in lo .. hi - 1
      PROVE  p \in Ptr /\ p # NULL /\ p \in Int /\ hi - p \in Nat /\ hi - p > 0 /\ lo <= p
  BY SizesAre
<1>6. CASE tool = "sea"
  <2>1. PICK p \in lo .. hi - 1 : 0 < a.capacity /\ a.capacity <= hi - p /\ b = At(a, p)
    BY <1>2, <1>6 DEF InRange, SeaInRange
  <2>2. /\ b \in BufRecord /\ b.buffer = p /\ b.len = a.len /\ b.capacity = a.capacity
        /\ p # NULL
    BY <1>4, <1>5, <2>1 DEF At, BufRecord
  <2> QED  BY <1>4, <1>5, <2>1, <2>2, SizesAre DEF Inside, BufIsValid
<1>7. CASE tool = "klee"
  <2>1. PICK p \in lo .. hi - 1 : b \in {[At(a, p) EXCEPT !.capacity = hi - p, !.len = l] : l \in 0 .. hi - p}
    BY <1>2, <1>7 DEF InRange, KleeInRange
  <2>2. PICK l \in 0 .. hi - p : b = [At(a, p) EXCEPT !.capacity = hi - p, !.len = l]
    BY <2>1
  <2> DEFINE n == hi - p
  <2>3. n \in Nat /\ l \in Nat /\ n > 0 /\ p # NULL /\ l <= n /\ p + n = hi /\ n <= MaxSize
    BY <1>5, <2>2, SizesAre
  <2>4. b \in BufRecord /\ b.buffer = p /\ b.len = l /\ b.capacity = n
    <3> HIDE DEF n
    <3>1. b = [At(a, p) EXCEPT !.capacity = n, !.len = l]  BY <2>2 DEF n
    <3> QED  BY <1>4, <1>5, <2>3, <3>1 DEF At, BufRecord
  <2> HIDE DEF n
  <2> QED  BY <1>5, <2>3, <2>4, SizesAre DEF Inside, BufIsValid
<1>8. CASE tool = "fuzz"
  <2>1. PICK p \in lo .. hi - 1 : b = [At(a, p) EXCEPT !.capacity = @ % (hi - p + 1)]
    BY <1>2, <1>8 DEF InRange, FuzzInRange
  <2> DEFINE d == hi - p + 1
             n == a.capacity % d
  <2>2. b = [At(a, p) EXCEPT !.capacity = n]
    BY <1>4, <1>5, <2>1 DEF At, BufRecord
  <2>3. n \in Nat /\ n < d /\ d = hi - p + 1
    <3>1. d \in Nat \ {0}  BY <1>5
    <3> HIDE DEF d
    <3>2. n \in 0 .. d - 1  BY <1>4, <3>1, RemainderIsSmaller
    <3> QED  BY <3>1, <3>2 DEF d
  <2> HIDE DEF n, d
  <2>4. b \in BufRecord /\ b.buffer = p /\ b.len = a.len /\ b.capacity = n
    BY <1>4, <1>5, <2>2, <2>3 DEF At, BufRecord
  <2>5. p + n <= hi /\ n <= MaxSize  BY <1>5, <2>3, SizesAre
  <2> QED  BY <1>4, <1>5, <1>8, <2>4, <2>5, SizesAre DEF Inside
<1> QED  BY <1>6, <1>7, <1>8 DEF Builds

(* The parts of a ring that are in use are within it, and not empty.        *)
LEMMA InUseIs ==
    ASSUME NEW r, RingOf(r), ~IsEmpty(r), NEW range \in InUse(r)
    PROVE  /\ range = <<range[1], range[2]>>
           /\ range[1] \in Nat /\ range[2] \in 0 .. MaxSize /\ range[1] < range[2]
           /\ range[2] <= r.end
           /\ \/ r.tail < r.head /\ range[1] = r.tail /\ range[2] = r.head
              \/ r.head < r.tail /\ range[1] = r.tail /\ range[2] = r.end
              \/ r.head < r.tail /\ range[1] = 0 /\ range[2] = r.head
<1>1. /\ r.allocation = 0 /\ r.end \in 1 .. MaxSize
      /\ r.head \in 0 .. r.end - 1 /\ r.tail \in 0 .. r.end - 1 /\ r.head # r.tail
  BY DEF RingOf, IsEmpty
<1>2. CASE r.head < r.tail
  <2>1. range = <<r.tail, r.end>> \/ (range = <<0, r.head>> /\ 0 < r.head)
    BY <1>1, <1>2 DEF InUse
  <2> QED  BY <1>1, <1>2, <2>1, SizesAre
<1>3. CASE ~(r.head < r.tail)
  <2>1. range = <<r.tail, r.head>>  BY <1>3 DEF InUse
  <2> QED  BY <1>1, <1>3, <2>1, SizesAre
<1> QED  BY <1>2, <1>3

-----------------------------------------------------------------------------
(* The invariant. *)

Jobs == {"acquire", "acquire_up_to", "belongs", "release", "clean_up", "init"}

InSomeUse(r, b) == ~IsEmpty(r) /\ \E range \in InUse(r) : Inside(b, range[1], range[2])

(* What the unit proof p calls its operation with, built for tool t: ring r, *)
(* buffer b and inputs a.                                                  *)
Given(t, p, r, b, a) ==
    /\ p \in Jobs
    /\ p # "init" => RingOf(r) /\ GoodRing(r)
    /\ p \in {"acquire", "acquire_up_to"} =>
           /\ b \in BufRecord /\ b.capacity <= MaxSize /\ b.len <= MaxSize
           /\ BufIsValid(b) /\ b.buffer \in {NULL, Outside}
           /\ a.requested \in 0 .. MaxSize + 1
    /\ p = "acquire_up_to" => a.minimum \in 0 .. a.requested
    /\ p = "belongs" =>
           /\ b \in BufRecord /\ b.capacity <= MaxSize /\ b.len <= MaxSize /\ BufIsValid(b)
           /\ \/ a.is_member = TRUE /\ InSomeUse(r, b)
              \/ a.is_member = FALSE /\ b.buffer \in {NULL, Outside}
    /\ p = "release" =>
           /\ InSomeUse(r, b)
           /\ t # "fuzz" => BufIsValid(b) /\ b.capacity > 0
    /\ p \in {"clean_up", "init"} => b = ZeroBuf
    /\ p = "init" => r = ZeroRing /\ a.requested \in 1 .. MaxSize

Reached ==
    /\ Given(tool, proof, old.ring, old.buf, arg)
    /\ proof # "init" => old.ring \in Rings

(* What a correct operation may leave of that. *)
OutcomesOf(t, p, r, b, a) ==
    CASE p = "acquire"       -> {Acquire(r, b, a.requested)}
      [] p = "acquire_up_to" -> {AcquireUpTo(r, b, a.minimum, a.requested)}
      [] p = "belongs"       -> {[ring |-> r, buf |-> b,
                                  ret |-> IF BelongsToPool(r, b) THEN "true" ELSE "false"]}
      [] p = "release"       -> {Release(r, b)}
      [] p = "clean_up"      -> {[ring |-> ZeroRing, buf |-> b, ret |-> "success"]}
      [] p = "init"          -> {[ring |-> NewRing(a.requested), buf |-> b, ret |-> "success"]}
                                    \cup IF t = "sea" THEN {} ELSE {Refused(r, b)}

Wanted == want \in OutcomesOf(tool, proof, old.ring, old.buf, arg)

Returned == pc \in {"check", "passed", "failed"}
Answers == {"none", "success", "error", "true", "false"}

UnitInv ==
    /\ tool \in Tools /\ faults \in 0 .. MaxFaults
    /\ ring \in RingRecord /\ buf \in BufRecord /\ ret \in Answers
    /\ pc \in {"setup", "call"} \/ Returned
    /\ pc = "setup" => old = Nothing /\ faults = 0
    /\ pc # "setup" => Reached
    /\ pc = "call" => ring = old.ring /\ buf = old.buf /\ faults = 0
    /\ Returned => Wanted /\ ret \in {"success", "error", "true", "false"}
    /\ pc = "passed" => Asserts
    /\ pc = "failed" => ~Asserts

(* What one fault makes of a correct operation. *)
Skipped == ring = old.ring /\ buf = old.buf /\ ret = want.ret

WrongRing ==
    /\ \/ \E f \in {"allocation", "head", "tail", "end"}, p \in Ptr : ring = [want.ring EXCEPT ![f] = p]
       \/ \E a \in {"none", "sea"} : ring = [want.ring EXCEPT !.allocator = a]
    /\ buf = want.buf /\ ret = want.ret

WrongBuf ==
    /\ proof \notin {"clean_up", "init"}
    /\ ring = want.ring /\ ret = want.ret

WrongAnswer ==
    /\ proof \notin {"release", "clean_up"}
    /\ ring = want.ring /\ buf = want.buf /\ ret = Opposite[want.ret]

OneWrong == Skipped \/ WrongRing \/ WrongBuf \/ WrongAnswer

FaultInv ==
    Returned =>
        /\ faults = 0 => ring = want.ring /\ buf = want.buf /\ ret = want.ret
        /\ faults = 1 => OneWrong

(* What was not written to holds what it held; a correct operation writes   *)
(* to nothing when it refuses or only asks.                                *)
WriteInv ==
    Returned =>
        /\ "ring" \in written \/ ring = old.ring
        /\ "buf" \in written \/ buf = old.buf
        /\ faults = 0 => written = WritesTo(want.ret)

-----------------------------------------------------------------------------
(* What a unit proof reaches its call with. *)

(* The builds there are. *)
LEMMA ToolIsKnown == tool \in Tools => tool \in Builds
BY ToolsAreKnown DEF Builds

(* Every unit proof reaches its call with what Given says of it. *)
LEMMA SetupReaches ==
    ASSUME tool \in Builds, Setup
    PROVE  \E p, r, b, a :
               /\ Given(tool, p, r, b, a) /\ (p # "init" => r \in Rings)
               /\ Reach(p, r, b, a)
<1> DEFINE Ready(p, r, b, a) ==
        Given(tool, p, r, b, a) /\ (p # "init" => r \in Rings) /\ Reach(p, r, b, a)
<1>1. ASSUME NEW r \in ValidRings PROVE r \in Rings /\ RingOf(r) /\ GoodRing(r)
  <2>1. r \in Rings /\ IsValid(r)  BY DEF ValidRings
  <2>2. GoodRing(r)  BY <2>1, RingsAre DEF Builds
  <2> QED  BY <2>1, <2>2 DEF GoodRing
<1>2. ASSUME NEW b \in ValidBufs
      PROVE  /\ b \in BufRecord /\ b.capacity <= MaxSize /\ b.len <= MaxSize
             /\ BufIsValid(b) /\ b.buffer \in {NULL, Outside}
  <2>1. b.capacity \in 0 .. MaxSize /\ b.len \in 0 .. b.capacity /\ b \in BufRecord
    BY ValidBufsAre
  <2>2. b.len <= MaxSize  BY <2>1, SizesAre
  <2> QED  BY <2>1, <2>2, ValidBufsAre
<1>3. ASSUME AcquireSetup PROVE \E p, r, b, a : Ready(p, r, b, a)
  <2>1. PICK r \in ValidRings, b \in ValidBufs, requested \in 0 .. MaxSize + 1 :
            Reach("acquire", r, b, [NoArg EXCEPT !.requested = requested])
    BY <1>3 DEF AcquireSetup
  <2> DEFINE a == [NoArg EXCEPT !.requested = requested]
  <2>2. a.requested = requested  BY DEF NoArg
  <2>3. Given(tool, "acquire", r, b, a)
    <3> HIDE DEF a
    <3> QED  BY <1>1, <1>2, <2>2 DEF Given, Jobs
  <2>4. Ready("acquire", r, b, a) /\ "acquire" \in Jobs  BY <1>1, <2>1, <2>3 DEF Jobs
  <2> QED  BY <2>4
<1>4. ASSUME AcquireUpToSetup PROVE \E p, r, b, a : Ready(p, r, b, a)
  <2>1. PICK r \in ValidRings, b \in ValidBufs, requested \in 0 .. MaxSize + 1 :
            \E minimum \in 0 .. requested :
                Reach("acquire_up_to", r, b, [NoArg EXCEPT !.requested = requested, !.minimum = minimum])
    BY <1>4 DEF AcquireUpToSetup
  <2>5. PICK minimum \in 0 .. requested :
            Reach("acquire_up_to", r, b, [NoArg EXCEPT !.requested = requested, !.minimum = minimum])
    BY <2>1
  <2> DEFINE a == [NoArg EXCEPT !.requested = requested, !.minimum = minimum]
  <2>2. a.requested = requested /\ a.minimum = minimum  BY DEF NoArg
  <2>3. Given(tool, "acquire_up_to", r, b, a)
    <3> HIDE DEF a
    <3> QED  BY <1>1, <1>2, <2>2 DEF Given, Jobs
  <2>4. Ready("acquire_up_to", r, b, a) /\ "acquire_up_to" \in Jobs
    BY <1>1, <2>3, <2>5 DEF Jobs
  <2> QED  BY <2>4
(* A buffer inside of the ring: there is always a part to choose.           *)
<1>5. ASSUME NEW p \in {"belongs", "release"}, NEW r \in Rings, ~IsEmpty(r), NEW range \in InUse(r),
             NEW inputs, p = "belongs" => inputs.is_member = TRUE, ReachInside(p, r, range, inputs)
      PROVE  \E b : Ready(p, r, b, inputs)
  <2>1. RingOf(r)  BY RingsAre DEF Builds
  <2>2. /\ range = <<range[1], range[2]>> /\ range[1] \in Nat /\ range[2] \in 0 .. MaxSize
        /\ range[1] < range[2]
    BY <1>5, <2>1, InUseIs
  <2>3. PICK b \in BufsIn(range) :
            IsValid(r) /\ (p = "belongs" => BufIsValid(b)) /\ Reach(p, r, b, inputs)
    BY <1>5, <2>2 DEF ReachInside
  <2>4. Inside(b, range[1], range[2]) /\ (tool # "fuzz" => BufIsValid(b) /\ b.capacity > 0)
    <3>1. b \in BufsIn(<<range[1], range[2]>>)  BY <2>2, <2>3, Zenon
    <3> QED  BY <2>2, <3>1, BufsInAre
  <2>5. GoodRing(r)  BY <2>3, RingsAre DEF Builds
  <2>6. InSomeUse(r, b)  BY <1>5, <2>4 DEF InSomeUse
  <2>7. Given(tool, p, r, b, inputs)
    BY <1>5, <2>1, <2>3, <2>4, <2>5, <2>6 DEF Given, Jobs, Inside
  <2> QED  BY <1>5, <2>3, <2>7
<1>6. ASSUME BufBelongsToPoolSetup PROVE \E p, r, b, a : Ready(p, r, b, a)
  <2>1. PICK r \in Rings :
           \/ ~IsEmpty(r) /\ \E range \in InUse(r) :
                  ReachInside("belongs", r, range, [NoArg EXCEPT !.is_member = TRUE])
           \/ \E c \in ValidBufs : \E b \in Allocated(c) :
                  IsValid(r) /\ BufIsValid(b) /\ Reach("belongs", r, b, NoArg)
    BY <1>6 DEF BufBelongsToPoolSetup
  <2>2. CASE ~IsEmpty(r) /\ \E range \in InUse(r) :
                  ReachInside("belongs", r, range, [NoArg EXCEPT !.is_member = TRUE])
    <3>1. [NoArg EXCEPT !.is_member = TRUE].is_member = TRUE  BY DEF NoArg
    <3>2. \E b : Ready("belongs", r, b, [NoArg EXCEPT !.is_member = TRUE])
      <4> HIDE DEF Ready
      <4> QED  BY <1>5, <2>2, <3>1
    <3> QED  BY <3>2 DEF Jobs
  <2>3. CASE \E c \in ValidBufs : \E b \in Allocated(c) :
                  IsValid(r) /\ BufIsValid(b) /\ Reach("belongs", r, b, NoArg)
    <3>1. PICK c \in ValidBufs : \E b \in Allocated(c) :
                  IsValid(r) /\ BufIsValid(b) /\ Reach("belongs", r, b, NoArg)
      BY <2>3
    <3>2. PICK b \in Allocated(c) : IsValid(r) /\ BufIsValid(b) /\ Reach("belongs", r, b, NoArg)
      BY <3>1
    <3>3. /\ b \in BufRecord /\ b.capacity <= MaxSize /\ b.len <= MaxSize
          /\ b.buffer \in {NULL, Outside}
      <4>1. /\ c \in BufRecord /\ c.capacity \in 0 .. MaxSize /\ c.len \in 0 .. c.capacity
            /\ c.capacity \in Nat /\ c.len \in Nat /\ c.len <= MaxSize
        BY ValidBufsAre, SizesAre
      <4>2. Outside \in Ptr /\ NULL \in Ptr  BY SizesAre
      <4>3. CASE tool = "klee"
        <5> DEFINE at == IF c.capacity = 0 THEN NULL ELSE Outside
        <5>1. PICK len \in 0 .. c.capacity : b = [c EXCEPT !.buffer = at, !.len = len]
          BY <3>2, <4>3 DEF Allocated, KleeAllocated
        <5>2. len \in Nat /\ len <= MaxSize /\ at \in {NULL, Outside} /\ at \in Ptr
          BY <4>1, <4>2, <5>1, SizesAre
        <5> HIDE DEF at
        <5>3. b \in BufRecord /\ b.buffer = at /\ b.len = len /\ b.capacity = c.capacity
          BY <4>1, <5>1, <5>2 DEF BufRecord
        <5> QED  BY <4>1, <5>2, <5>3
      <4>4. CASE tool # "klee"
        <5>1. b = [c EXCEPT !.buffer = Outside]  BY <3>2, <4>4 DEF Allocated, SeaAllocated
        <5> QED  BY <4>1, <4>2, <5>1 DEF BufRecord
      <4> QED  BY <4>3, <4>4
    <3>4. GoodRing(r) /\ RingOf(r)  BY <3>2, RingsAre DEF Builds, GoodRing
    <3>5. NoArg.is_member = FALSE  BY DEF NoArg
    <3>6. Given(tool, "belongs", r, b, NoArg)
      BY <3>2, <3>3, <3>4, <3>5 DEF Given, Jobs
    <3> QED  BY <3>2, <3>6 DEF Jobs
  <2> QED  BY <2>1, <2>2, <2>3
<1>7. ASSUME ReleaseSetup PROVE \E p, r, b, a : Ready(p, r, b, a)
  <2>1. PICK r \in ValidRings :
            ~IsEmpty(r) /\ \E range \in InUse(r) : ReachInside("release", r, range, NoArg)
    BY <1>7 DEF ReleaseSetup
  <2>2. \E b : Ready("release", r, b, NoArg)
    <3> HIDE DEF Ready
    <3> QED  BY <1>1, <1>5, <2>1
  <2> QED  BY <2>2 DEF Jobs
<1>8. ASSUME CleanUpSetup PROVE \E p, r, b, a : Ready(p, r, b, a)
  <2>1. PICK r \in ValidRings : Reach("clean_up", r, ZeroBuf, NoArg)
    BY <1>8 DEF CleanUpSetup
  <2>2. Given(tool, "clean_up", r, ZeroBuf, NoArg)  BY <1>1 DEF Given, Jobs
  <2> QED  BY <1>1, <2>1, <2>2 DEF Jobs
<1>9. ASSUME InitSetup PROVE \E p, r, b, a : Ready(p, r, b, a)
  <2>1. PICK size \in 1 .. MaxSize : Reach("init", ZeroRing, ZeroBuf, [NoArg EXCEPT !.requested = size])
    BY <1>9 DEF InitSetup
  <2>2. [NoArg EXCEPT !.requested = size].requested = size  BY DEF NoArg
  <2>3. Given(tool, "init", ZeroRing, ZeroBuf, [NoArg EXCEPT !.requested = size])
    BY <2>2 DEF Given, Jobs
  <2> QED  BY <2>1, <2>3 DEF Jobs
<1> QED  BY <1>3, <1>4, <1>6, <1>7, <1>8, <1>9 DEF Setup

(* A zeroed struct is one. *)
LEMMA ZeroIs == ZeroRing \in RingRecord /\ ZeroBuf \in BufRecord
BY SizesAre DEF ZeroRing, ZeroBuf, RingRecord, BufRecord

(* ... which are structs of the types there are. *)
LEMMA GivenIs ==
    ASSUME NEW t, NEW p, NEW r, NEW b, NEW a, Given(t, p, r, b, a)
    PROVE  r \in RingRecord /\ b \in BufRecord /\ b.capacity <= MaxSize /\ b.len <= MaxSize
<1>1. r \in RingRecord
  BY ZeroIs DEF Given, Jobs, RingOf
<1>2. CASE p \in {"acquire", "acquire_up_to", "belongs"}
  BY <1>1, <1>2 DEF Given
<1>3. CASE p = "release"
  BY <1>1, <1>3 DEF Given, InSomeUse, Inside
<1>4. CASE p \in {"clean_up", "init"}
  <2>1. b = ZeroBuf  BY <1>4 DEF Given
  <2>2. ZeroBuf.capacity = 0 /\ ZeroBuf.len = 0  BY DEF ZeroBuf
  <2> QED  BY <1>1, <2>1, <2>2, ZeroIs, SizesAre
<1> QED  BY <1>2, <1>3, <1>4 DEF Given, Jobs

(* What an operation may leave, for each of the unit proofs. *)
LEMMA OutcomesAre ==
    ASSUME NEW t, NEW p, NEW r, NEW b, NEW a, Given(t, p, r, b, a), NEW w \in OutcomesOf(t, p, r, b, a)
    PROVE  /\ p = "acquire" =>
                  \/ w = Refused(r, b)
                  \/ \E at \in 0 .. MaxSize :
                         Fits(r, at, a.requested) /\ w = Vend(r, at, a.requested)
           /\ p = "acquire_up_to" =>
                  \/ w = Refused(r, b)
                  \/ \E at \in 0 .. MaxSize, size \in a.minimum .. a.requested :
                         Fits(r, at, size) /\ w = Vend(r, at, size)
           /\ p = "belongs" =>
                  w = [ring |-> r, buf |-> b, ret |-> IF BelongsToPool(r, b) THEN "true" ELSE "false"]
           /\ p = "release" => w = Release(r, b)
           /\ p = "clean_up" => w = [ring |-> ZeroRing, buf |-> b, ret |-> "success"]
           /\ p = "init" =>
                  \/ w = [ring |-> NewRing(a.requested), buf |-> b, ret |-> "success"]
                  \/ w = Refused(r, b)
<1>1. ASSUME p = "acquire"
      PROVE  \/ w = Refused(r, b)
             \/ \E at \in 0 .. MaxSize : Fits(r, at, a.requested) /\ w = Vend(r, at, a.requested)
  <2>1. w = Acquire(r, b, a.requested)  BY <1>1 DEF OutcomesOf
  <2>2. GoodRing(r) /\ a.requested \in Nat  BY <1>1, SizesAre DEF Given
  <2> QED  BY <2>1, <2>2, AcquireIs
<1>2. ASSUME p = "acquire_up_to"
      PROVE  \/ w = Refused(r, b)
             \/ \E at \in 0 .. MaxSize, size \in a.minimum .. a.requested :
                    Fits(r, at, size) /\ w = Vend(r, at, size)
  <2>1. w = AcquireUpTo(r, b, a.minimum, a.requested)  BY <1>2 DEF OutcomesOf
  <2>2. GoodRing(r) /\ a.requested \in Nat /\ a.minimum \in 0 .. a.requested
    BY <1>2, SizesAre DEF Given
  <2> QED  BY <2>1, <2>2, AcquireUpToIs
<1>3. p = "belongs" =>
          w = [ring |-> r, buf |-> b, ret |-> IF BelongsToPool(r, b) THEN "true" ELSE "false"]
  BY DEF OutcomesOf
<1>4. p = "release" => w = Release(r, b)
  BY DEF OutcomesOf
<1>5. p = "clean_up" => w = [ring |-> ZeroRing, buf |-> b, ret |-> "success"]
  BY DEF OutcomesOf
<1>6. ASSUME p = "init"
      PROVE  \/ w = [ring |-> NewRing(a.requested), buf |-> b, ret |-> "success"]
             \/ w = Refused(r, b)
  <2>1. OutcomesOf(t, p, r, b, a) =
            {[ring |-> NewRing(a.requested), buf |-> b, ret |-> "success"]}
                \cup IF t = "sea" THEN {} ELSE {Refused(r, b)}
    BY <1>6 DEF OutcomesOf
  <2> QED  BY <2>1
<1> QED  BY <1>1, <1>2, <1>3, <1>4, <1>5, <1>6

(* release takes the tail to the end of a buffer in use, and leaves a valid *)
(* ring.                                                                   *)
LEMMA ReleaseIs ==
    ASSUME NEW r, GoodRing(r), NEW b, InSomeUse(r, b), NEW w, w = Release(r, b)
    PROVE  /\ w.buf = ZeroBuf /\ w.ret = "success"
           /\ w.ring \in RingRecord /\ w.ring.allocator = "sea" /\ w.ring.allocation = 0
           /\ w.ring.end = r.end /\ w.ring.head = r.head
           /\ w.ring.tail = b.buffer + b.capacity /\ w.ring.tail \in 0 .. r.end
           /\ IsValid(w.ring)
           /\ b.buffer \in Nat /\ b.capacity \in Nat
           /\ \/ r.tail < r.head /\ r.tail <= b.buffer /\ b.buffer + b.capacity <= r.head
              \/ r.head < r.tail /\ r.tail <= b.buffer /\ b.buffer + b.capacity <= r.end
              \/ r.head < r.tail /\ b.buffer + b.capacity <= r.head
<1> USE GoodRingIs, SizesAre
<1>1. PICK range \in InUse(r) : Inside(b, range[1], range[2])
  BY DEF InSomeUse
<1>2. /\ range[1] \in Nat /\ range[2] \in 0 .. MaxSize /\ range[2] <= r.end
      /\ \/ r.tail < r.head /\ range[1] = r.tail /\ range[2] = r.head
         \/ r.head < r.tail /\ range[1] = r.tail /\ range[2] = r.end
         \/ r.head < r.tail /\ range[1] = 0 /\ range[2] = r.head
  <2>1. RingOf(r) /\ ~IsEmpty(r)  BY DEF GoodRing, InSomeUse
  <2> QED  BY <2>1, InUseIs
<1>3. /\ b.buffer \in Int /\ b.capacity \in Nat
      /\ range[1] <= b.buffer /\ b.buffer + b.capacity <= range[2]
  BY <1>1 DEF Inside, BufRecord
<1>4. /\ b.buffer \in Nat /\ b.buffer + b.capacity \in 0 .. r.end
      /\ b.buffer + b.capacity \in Ptr
      /\ \/ r.tail < r.head /\ r.tail <= b.buffer /\ b.buffer + b.capacity <= r.head
         \/ r.head < r.tail /\ r.tail <= b.buffer /\ b.buffer + b.capacity <= r.end
         \/ r.head < r.tail /\ b.buffer + b.capacity <= r.head
  BY <1>2, <1>3
<1>5. /\ w.buf = ZeroBuf /\ w.ret = "success"
      /\ w.ring = [r EXCEPT !.tail = b.buffer + b.capacity]
  BY DEF Release
<1>6. /\ w.ring \in RingRecord /\ w.ring.allocator = "sea" /\ w.ring.allocation = 0
      /\ w.ring.end = r.end /\ w.ring.head = r.head
      /\ w.ring.tail = b.buffer + b.capacity
  BY <1>4, <1>5 DEF RingRecord
<1>7. IsValid(w.ring)
  BY <1>4, <1>6 DEF IsValid
<1> QED  BY <1>3, <1>4, <1>5, <1>6, <1>7

(* A new ring is valid and all of it free. *)
LEMMA NewRingIs ==
    ASSUME NEW size \in 1 .. MaxSize
    PROVE  /\ NewRing(size) \in RingRecord /\ IsValid(NewRing(size))
           /\ NewRing(size).allocator = "sea" /\ NewRing(size).allocation = 0
           /\ NewRing(size).end = size
BY SizesAre DEF NewRing, RingRecord, IsValid

(* What a correct operation leaves is of the types there are. *)
LEMMA WantIs ==
    ASSUME NEW t, NEW p, NEW r, NEW b, NEW a, Given(t, p, r, b, a), NEW w \in OutcomesOf(t, p, r, b, a)
    PROVE  /\ w.ring \in RingRecord /\ w.buf \in BufRecord
           /\ w.ret \in {"success", "error", "true", "false"}
<1> DEFINE Fine(v) == /\ v.ring \in RingRecord /\ v.buf \in BufRecord
                      /\ v.ret \in {"success", "error", "true", "false"}
<1>1. r \in RingRecord /\ b \in BufRecord
  BY GivenIs
<1>2. Fine(Refused(r, b))
  BY <1>1 DEF Refused
<1>3. ASSUME NEW at \in 0 .. MaxSize, NEW size \in Nat, GoodRing(r), Fits(r, at, size)
      PROVE  Fine(Vend(r, at, size))
  <2> DEFINE v == Vend(r, at, size)
  <2> HIDE DEF v
  <2>1. v.ring \in RingRecord /\ v.buf \in BufRecord /\ v.ret = "success"
    BY <1>3, VendIs DEF v
  <2> QED  BY <2>1 DEF v
<1>4. CASE p = "acquire"
  <2>1. GoodRing(r) /\ a.requested \in Nat  BY <1>4, SizesAre DEF Given
  <2> QED  BY <1>2, <1>3, <1>4, <2>1, OutcomesAre
<1>5. CASE p = "acquire_up_to"
  <2>1. GoodRing(r) /\ a.requested \in Nat /\ a.minimum \in 0 .. a.requested
    BY <1>5, SizesAre DEF Given
  <2>2. \/ w = Refused(r, b)
        \/ \E at \in 0 .. MaxSize, size \in a.minimum .. a.requested :
               Fits(r, at, size) /\ w = Vend(r, at, size)
    BY <1>5, OutcomesAre
  <2>3. CASE \E at \in 0 .. MaxSize, size \in a.minimum .. a.requested :
               Fits(r, at, size) /\ w = Vend(r, at, size)
    <3>1. PICK at \in 0 .. MaxSize, size \in a.minimum .. a.requested :
               Fits(r, at, size) /\ w = Vend(r, at, size)
      BY <2>3
    <3>2. size \in Nat  BY <2>1
    <3> QED  BY <1>3, <2>1, <3>1, <3>2
  <2> QED  BY <1>2, <2>2, <2>3
<1>6. CASE p = "belongs"
  <2>1. w = [ring |-> r, buf |-> b, ret |-> IF BelongsToPool(r, b) THEN "true" ELSE "false"]
    BY <1>6, OutcomesAre
  <2> QED  BY <1>1, <2>1
<1>7. CASE p = "release"
  <2>1. w = Release(r, b)  BY <1>7, OutcomesAre
  <2>2. GoodRing(r) /\ InSomeUse(r, b)  BY <1>7 DEF Given
  <2> QED  BY <2>1, <2>2, ReleaseIs, ZeroIs
<1>8. CASE p = "clean_up"
  <2>1. w = [ring |-> ZeroRing, buf |-> b, ret |-> "success"]  BY <1>8, OutcomesAre
  <2> QED  BY <1>1, <2>1, ZeroIs
<1>9. CASE p = "init"
  <2>1. a.requested \in 1 .. MaxSize  BY <1>9 DEF Given
  <2>2. \/ w = [ring |-> NewRing(a.requested), buf |-> b, ret |-> "success"]
        \/ w = Refused(r, b)
    BY <1>9, OutcomesAre
  <2> QED  BY <1>1, <1>2, <2>1, <2>2, NewRingIs
<1> QED  BY <1>4, <1>5, <1>6, <1>7, <1>8, <1>9 DEF Given, Jobs

(* Where a correct operation does not write, it leaves what it was given. *)
LEMMA UnwrittenIsKept ==
    ASSUME NEW r, NEW b, NEW a, Given(tool, proof, r, b, a),
           NEW w \in OutcomesOf(tool, proof, r, b, a)
    PROVE  /\ "ring" \in WritesTo(w.ret) \/ w.ring = r
           /\ "buf" \in WritesTo(w.ret) \/ w.buf = b
<1>1. proof \in Jobs
  BY DEF Given
<1>2. CASE proof \in {"acquire", "acquire_up_to"}
  <2>1. w = Refused(r, b) \/ \E at, size : w = Vend(r, at, size)
    BY <1>2, OutcomesAre
  <2>2. CASE w = Refused(r, b)
    BY <2>2 DEF Refused
  <2>3. CASE \E at, size : w = Vend(r, at, size)
    <3>1. w.ret = "success"  BY <2>3 DEF Vend, Vended
    <3> QED  BY <1>2, <3>1 DEF WritesTo
  <2> QED  BY <2>1, <2>2, <2>3
<1>3. CASE proof = "belongs"
  <2>1. w = [ring |-> r, buf |-> b, ret |-> IF BelongsToPool(r, b) THEN "true" ELSE "false"]
    BY <1>3, OutcomesAre
  <2> QED  BY <2>1
<1>4. CASE proof = "release"
  <2>1. w = Release(r, b)  BY <1>4, OutcomesAre
  <2>2. w.ret = "success"  BY <2>1 DEF Release
  <2> QED  BY <1>4, <2>2 DEF WritesTo
<1>5. CASE proof = "clean_up"
  <2>1. w = [ring |-> ZeroRing, buf |-> b, ret |-> "success"]  BY <1>5, OutcomesAre
  <2> QED  BY <1>5, <2>1 DEF WritesTo
<1>6. CASE proof = "init"
  <2>1. \/ w = [ring |-> NewRing(a.requested), buf |-> b, ret |-> "success"]
        \/ w = Refused(r, b)
    BY <1>6, OutcomesAre
  <2>2. w.buf = b /\ (w.ret = "success" \/ w.ring = r)
    BY <2>1 DEF Refused
  <2> QED  BY <1>6, <2>2 DEF WritesTo
<1> QED  BY <1>1, <1>2, <1>3, <1>4, <1>5, <1>6 DEF Jobs

-----------------------------------------------------------------------------
(* The invariant holds. *)

(* Before a unit proof is chosen. *)
LEMMA AtFirst ==
    ASSUME Init PROVE UnitInv /\ FaultInv
<1>1. ring \in RingRecord /\ buf \in BufRecord
  BY ZeroIs DEF Init
<1>2. /\ tool \in Tools /\ faults = 0 /\ pc = "setup" /\ ret = "none" /\ old = Nothing
  BY DEF Init
<1>3. UnitInv
  BY <1>1, <1>2, MaxFaultsIsNat DEF UnitInv, Answers, Returned
<1>4. FaultInv
  BY <1>2 DEF FaultInv, Returned
<1> QED  BY <1>3, <1>4

(* A unit proof reaches its call. *)
LEMMA SetupKeeps ==
    ASSUME UnitInv, FaultInv, Setup PROVE UnitInv' /\ FaultInv'
<1>1. pc = "setup" /\ faults = 0
  BY DEF Setup, UnitInv
<1>2. PICK p, r, b, a :
          Given(tool, p, r, b, a) /\ (p # "init" => r \in Rings) /\ Reach(p, r, b, a)
  BY SetupReaches, ToolIsKnown DEF UnitInv
<1>3. /\ pc' = "call" /\ ring' = r /\ buf' = b /\ proof' = p /\ arg' = a
      /\ old'.ring = r /\ old'.buf = b
      /\ tool' = tool /\ ret' = ret /\ faults' = faults
  BY <1>2 DEF Reach, Nothing
<1>4. r \in RingRecord /\ b \in BufRecord
  BY <1>2, GivenIs
<1>5. Reached'
  BY <1>2, <1>3 DEF Reached, Rings
<1>6. UnitInv'
  BY <1>1, <1>3, <1>4, <1>5 DEF UnitInv, Returned
<1>7. FaultInv'
  BY <1>3 DEF FaultInv, Returned
<1> QED  BY <1>6, <1>7

(* The two ways to answer a call. *)
LEMMA CallKeeps ==
    ASSUME UnitInv, FaultInv, Call \/ SkippedCall PROVE UnitInv' /\ FaultInv'
<1>1. pc = "call" /\ Reached /\ ring = old.ring /\ buf = old.buf /\ faults = 0
  BY DEF Call, SkippedCall, UnitInv
<1>2. /\ pc' = "check" /\ want' \in Outcomes /\ ret' = want'.ret
      /\ tool' = tool /\ proof' = proof /\ arg' = arg /\ old' = old
  BY DEF Call, SkippedCall
<1>3. want' \in OutcomesOf(tool, proof, old.ring, old.buf, arg)
  BY <1>1, <1>2 DEF Outcomes, OutcomesOf
<1>4. Wanted' /\ Reached'
  BY <1>1, <1>2, <1>3 DEF Wanted, Reached, Rings
<1>5. /\ want'.ring \in RingRecord /\ want'.buf \in BufRecord
      /\ want'.ret \in {"success", "error", "true", "false"}
  BY <1>1, <1>3, WantIs DEF Reached
<1>6. /\ ring' \in RingRecord /\ buf' \in BufRecord
      /\ faults' \in 0 .. MaxFaults
      /\ faults' = 0 => ring' = want'.ring /\ buf' = want'.buf
      /\ faults' = 1 => ring' = old'.ring /\ buf' = old'.buf
  <2>1. CASE Call
    BY <1>1, <1>5, <2>1 DEF Call, UnitInv
  <2>2. CASE SkippedCall
    BY <1>1, <2>2, MaxFaultsIsNat DEF SkippedCall, UnitInv
  <2> QED  BY <2>1, <2>2
<1>7. UnitInv'
  BY <1>2, <1>4, <1>5, <1>6 DEF UnitInv, Returned, Answers
<1>8. FaultInv'
  BY <1>2, <1>6 DEF FaultInv, OneWrong, Skipped
<1> QED  BY <1>7, <1>8

(* A wrong field or answer. *)
LEMMA FaultKeeps ==
    ASSUME UnitInv, FaultInv, pc = "check", faults < MaxFaults, faults' = faults + 1,
           UNCHANGED <<tool, proof, pc, arg, old, want>>,
           ring' \in RingRecord, buf' \in BufRecord, ret' \in {"success", "error", "true", "false"},
           faults = 0 => OneWrong'
    PROVE  UnitInv' /\ FaultInv'
<1>1. Reached' /\ Wanted'
  BY DEF UnitInv, Returned, Reached, Wanted, Rings
<1>2. faults' \in 0 .. MaxFaults /\ faults' # 0 /\ (faults' = 1 => faults = 0)
  BY MaxFaultsIsNat DEF UnitInv
<1>3. UnitInv'
  BY <1>1, <1>2 DEF UnitInv, Returned, Answers
<1>4. FaultInv'
  BY <1>2 DEF FaultInv
<1> QED  BY <1>3, <1>4

(* A stray write to a field of the ring. *)
LEMMA StrayRingKeeps ==
    ASSUME UnitInv, FaultInv, NEW f, NEW p, StrayRingWrite(f, p),
           (f \in {"allocation", "head", "tail", "end"} /\ p \in Ptr)
               \/ (f = "allocator" /\ p \in {"none", "sea"})
    PROVE  UnitInv' /\ FaultInv'
<1>1. /\ pc = "check" /\ faults < MaxFaults /\ faults' = faults + 1
      /\ UNCHANGED <<tool, proof, pc, arg, old, want>>
      /\ ring' = [ring EXCEPT ![f] = p] /\ buf' = buf /\ ret' = ret
  BY DEF StrayRingWrite
<1>2. ring \in RingRecord /\ buf \in BufRecord /\ ret \in {"success", "error", "true", "false"}
  BY <1>1 DEF UnitInv, Returned
<1>3. ring' \in RingRecord
  <2>1. CASE f \in {"allocation", "head", "tail", "end"} /\ p \in Ptr
    BY <1>1, <1>2, <2>1 DEF RingRecord
  <2>2. CASE f = "allocator" /\ p \in {"none", "sea"}
    BY <1>1, <1>2, <2>2 DEF RingRecord
  <2> QED  BY <2>1, <2>2
<1>4. ASSUME faults = 0 PROVE WrongRing'
  <2>1. ring' = [want'.ring EXCEPT ![f] = p] /\ buf' = want'.buf /\ ret' = want'.ret
    BY <1>1, <1>4 DEF FaultInv, Returned
  <2> QED  BY <2>1 DEF WrongRing
<1> QED  BY <1>1, <1>2, <1>3, <1>4, FaultKeeps DEF OneWrong

(* A stray write to a field of the buffer. *)
LEMMA StrayBufKeeps ==
    ASSUME UnitInv, FaultInv, NEW f, NEW n, StrayBufWrite(f, n),
           \/ f = "buffer" /\ n \in Ptr
           \/ f \in {"len", "capacity"} /\ n \in 0 .. Outside
           \/ f = "allocator" /\ n \in {"none", "sea"}
    PROVE  UnitInv' /\ FaultInv'
<1>1. /\ pc = "check" /\ faults < MaxFaults /\ faults' = faults + 1
      /\ UNCHANGED <<tool, proof, pc, arg, old, want>>
      /\ proof \notin {"clean_up", "init"}
      /\ buf' = [buf EXCEPT ![f] = n] /\ ring' = ring /\ ret' = ret
  BY DEF StrayBufWrite
<1>2. ring \in RingRecord /\ buf \in BufRecord /\ ret \in {"success", "error", "true", "false"}
  BY <1>1 DEF UnitInv, Returned
<1>3. buf' \in BufRecord
  <2>1. CASE f = "buffer" /\ n \in Ptr
    BY <1>1, <1>2, <2>1 DEF BufRecord
  <2>2. CASE f \in {"len", "capacity"} /\ n \in 0 .. Outside
    <3>1. n \in Nat  BY <2>2, SizesAre
    <3> QED  BY <1>1, <1>2, <2>2, <3>1 DEF BufRecord
  <2>3. CASE f = "allocator" /\ n \in {"none", "sea"}
    BY <1>1, <1>2, <2>3 DEF BufRecord
  <2> QED  BY <2>1, <2>2, <2>3
<1>4. faults = 0 => WrongBuf'
  BY <1>1 DEF FaultInv, Returned, WrongBuf
<1> QED  BY <1>1, <1>2, <1>3, <1>4, FaultKeeps DEF OneWrong

(* The opposite answer. *)
LEMMA WrongReturnKeeps ==
    ASSUME UnitInv, FaultInv, WrongReturn PROVE UnitInv' /\ FaultInv'
<1>1. /\ pc = "check" /\ faults < MaxFaults /\ faults' = faults + 1
      /\ UNCHANGED <<tool, proof, pc, arg, old, want>>
      /\ proof \notin {"release", "clean_up"}
      /\ ret' = Opposite[ret] /\ ring' = ring /\ buf' = buf
  BY DEF WrongReturn
<1>2. ring \in RingRecord /\ buf \in BufRecord /\ ret \in {"success", "error", "true", "false"}
  BY <1>1 DEF UnitInv, Returned
<1>3. ret' \in {"success", "error", "true", "false"}
  BY <1>1, <1>2 DEF Opposite
<1>4. faults = 0 => WrongAnswer'
  BY <1>1 DEF FaultInv, Returned, WrongAnswer
<1> QED  BY <1>1, <1>2, <1>3, <1>4, FaultKeeps DEF OneWrong

(* A verdict changes nothing else. *)
LEMMA Stays ==
    ASSUME UnitInv, FaultInv, UNCHANGED <<tool, proof, ring, buf, arg, old, ret, want, faults>>,
           pc' = pc \/ (pc = "check" /\ pc' = IF Asserts THEN "passed" ELSE "failed")
    PROVE  UnitInv' /\ FaultInv'
<1>1. Asserts' <=> Asserts
  BY DEF Asserts, AcquireAsserts, AcquireUpToAsserts, BufBelongsToPoolAsserts, ReleaseAsserts,
         CleanUpAsserts, InitAsserts, SameAllocation
<1>2. (Reached' <=> Reached) /\ (Wanted' <=> Wanted)
  BY DEF Reached, Wanted, Rings
<1>3. OneWrong' <=> OneWrong
  BY DEF OneWrong, Skipped, WrongRing, WrongBuf, WrongAnswer
<1>4. /\ Returned' => Returned
      /\ pc' # "setup" => pc # "setup"
      /\ pc' = "setup" => pc = "setup"
      /\ pc' = "call" => pc = "call"
      /\ pc' \in {"setup", "call"} \/ Returned'
  BY DEF Returned, UnitInv
<1>5. (pc' = "passed" => Asserts) /\ (pc' = "failed" => ~Asserts)
  BY DEF UnitInv
<1>6. UnitInv'
  BY <1>1, <1>2, <1>4, <1>5 DEF UnitInv
<1>7. FaultInv'
  BY <1>3, <1>4 DEF FaultInv
<1> QED  BY <1>6, <1>7

(* Whatever changes a struct after the call writes to it. *)
LEMMA WritesAreKept ==
    ASSUME UnitInv, WriteInv, [Next]_vars PROVE WriteInv'
<1>1. CASE Setup
  <2>1. pc' \in {"call", "failed"} /\ ~Returned'
    <3>1. PICK p, r, b, a : Reach(p, r, b, a)
      BY <1>1, SetupReaches, ToolIsKnown DEF UnitInv
    <3> QED  BY <3>1 DEF Reach, Returned
  <2> QED  BY <2>1 DEF WriteInv
<1>2. CASE Call
  <2>1. /\ Reached /\ ring = old.ring /\ buf = old.buf
        /\ want' \in Outcomes /\ ring' = want'.ring /\ buf' = want'.buf
        /\ written' = WritesTo(want'.ret) /\ UNCHANGED <<proof, old>>
    BY <1>2 DEF Call, UnitInv
  <2>2. want' \in OutcomesOf(tool, proof, old.ring, old.buf, arg)
    BY <2>1 DEF Outcomes, OutcomesOf
  <2>3. /\ "ring" \in WritesTo(want'.ret) \/ want'.ring = old.ring
        /\ "buf" \in WritesTo(want'.ret) \/ want'.buf = old.buf
    BY <2>1, <2>2, UnwrittenIsKept DEF Reached
  <2>4. WritesTo(want'.ret) = WritesTo(want.ret)'
    BY <2>1 DEF WritesTo
  <2> QED  BY <2>1, <2>3, <2>4 DEF WriteInv
<1>3. CASE SkippedCall
  <2>1. ring' = old'.ring /\ buf' = old'.buf /\ faults' # 0
    BY <1>3, MaxFaultsIsNat DEF SkippedCall, UnitInv
  <2> QED  BY <2>1 DEF WriteInv
<1>4. ASSUME NEW f, NEW p, StrayRingWrite(f, p) PROVE WriteInv'
  <2>1. /\ "ring" \in written' /\ written \subseteq written' /\ faults' # 0
        /\ Returned /\ buf' = buf /\ old' = old
    BY <1>4, MaxFaultsIsNat DEF StrayRingWrite, UnitInv, Returned
  <2> QED  BY <2>1 DEF WriteInv
<1>5. ASSUME NEW f, NEW n, StrayBufWrite(f, n) PROVE WriteInv'
  <2>1. /\ "buf" \in written' /\ written \subseteq written' /\ faults' # 0
        /\ Returned /\ ring' = ring /\ old' = old
    BY <1>5, MaxFaultsIsNat DEF StrayBufWrite, UnitInv, Returned
  <2> QED  BY <2>1 DEF WriteInv
<1>6. CASE WrongReturn
  <2>1. faults' # 0 /\ Returned /\ UNCHANGED <<ring, buf, old, written>>
    BY <1>6, MaxFaultsIsNat DEF WrongReturn, UnitInv, Returned
  <2> QED  BY <2>1 DEF WriteInv
<1>7. CASE Check \/ UNCHANGED vars
  <2>1. /\ UNCHANGED <<ring, buf, old, written, faults, proof, want>>
        /\ Returned' => Returned
    BY <1>7 DEF Check, vars, Returned
  <2> QED  BY <2>1 DEF WriteInv, WritesTo
<1> QED  BY <1>1, <1>2, <1>3, <1>4, <1>5, <1>6, <1>7 DEF Next

(* Every step keeps the invariant. *)
LEMMA InvariantHolds == Spec => [](UnitInv /\ FaultInv /\ WriteInv)
<1>1. ASSUME UnitInv, FaultInv, [Next]_vars PROVE UnitInv' /\ FaultInv'
  <2>1. CASE Setup  BY <1>1, <2>1, SetupKeeps
  <2>2. CASE Call \/ SkippedCall  BY <1>1, <2>2, CallKeeps
  <2>3. CASE \E f \in {"allocation", "head", "tail", "end"}, p \in Ptr : StrayRingWrite(f, p)
    BY <1>1, <2>3, StrayRingKeeps
  <2>4. CASE \/ \E p \in Ptr : StrayBufWrite("buffer", p)
             \/ \E f \in {"len", "capacity"}, n \in 0 .. Outside : StrayBufWrite(f, n)
    BY <1>1, <2>4, StrayBufKeeps
  <2>8. CASE \E a \in {"none", "sea"} : StrayRingWrite("allocator", a) \/ StrayBufWrite("allocator", a)
    BY <1>1, <2>8, StrayRingKeeps, StrayBufKeeps
  <2>5. CASE WrongReturn  BY <1>1, <2>5, WrongReturnKeeps
  <2>6. CASE Check  BY <1>1, <2>6, Stays DEF Check
  <2>7. CASE UNCHANGED vars  BY <1>1, <2>7, Stays DEF vars
  <2> QED  BY <1>1, <2>1, <2>2, <2>3, <2>4, <2>5, <2>6, <2>7, <2>8 DEF Next
<1>2. UnitInv /\ FaultInv /\ WriteInv /\ [Next]_vars => UnitInv' /\ FaultInv' /\ WriteInv'
  BY <1>1, WritesAreKept
<1>3. Init => WriteInv
  BY DEF Init, WriteInv, Returned
<1> QED  BY <1>2, <1>3, AtFirst, PTL DEF Spec

-----------------------------------------------------------------------------
(* A correct operation passes. *)

Right == ring = want.ring /\ buf = want.buf /\ ret = want.ret

(* The rings that are handed over are valid ones. *)
LEMMA GoodIsValid == ASSUME NEW r, GoodRing(r) PROVE IsValid(r)
BY GoodRingIs, SizesAre DEF IsValid

(* What was wanted of the two ways to acquire. *)
Vends(size) ==
    \E at \in 0 .. MaxSize : Fits(old.ring, at, size) /\ want = Vend(old.ring, at, size)

LEMMA AcquireWanted ==
    ASSUME Reached, Wanted, proof \in {"acquire", "acquire_up_to"}
    PROVE  /\ GoodRing(old.ring) /\ IsValid(old.ring)
           /\ old.buf \in BufRecord /\ old.buf.buffer \in {NULL, Outside}
           /\ \/ want = Refused(old.ring, old.buf)
              \/ \E size \in Nat :
                     /\ proof = "acquire" => size = arg.requested
                     /\ proof = "acquire_up_to" => size \in arg.minimum .. arg.requested
                     /\ Vends(size)
<1>1. Given(tool, proof, old.ring, old.buf, arg)
  BY DEF Reached
<1>2. /\ GoodRing(old.ring) /\ old.buf \in BufRecord /\ old.buf.buffer \in {NULL, Outside}
      /\ arg.requested \in 0 .. MaxSize + 1
      /\ proof = "acquire_up_to" => arg.minimum \in 0 .. arg.requested
  BY <1>1 DEF Given
<1>3. IsValid(old.ring)
  BY <1>2, GoodIsValid
<1>4. CASE proof = "acquire"
  <2>1. arg.requested \in Nat  BY <1>2, SizesAre
  <2>2. \/ want = Refused(old.ring, old.buf)
        \/ Vends(arg.requested)
    BY <1>1, <1>4, OutcomesAre DEF Wanted, Vends
  <2> QED  BY <1>2, <1>3, <1>4, <2>1, <2>2
<1>5. CASE proof = "acquire_up_to"
  <2>1. \/ want = Refused(old.ring, old.buf)
        \/ \E at \in 0 .. MaxSize, size \in arg.minimum .. arg.requested :
               Fits(old.ring, at, size) /\ want = Vend(old.ring, at, size)
    BY <1>1, <1>5, OutcomesAre DEF Wanted
  <2>2. \A size \in arg.minimum .. arg.requested : size \in Nat
    BY <1>2, <1>5, SizesAre
  <2> QED  BY <1>2, <1>3, <1>5, <2>1, <2>2 DEF Vends
<1> QED  BY <1>4, <1>5

(* What the assertions ask of a vended buffer holds of a correct one. *)
LEMMA VendedIs ==
    ASSUME GoodRing(old.ring), NEW size \in Nat, Vends(size)
    PROVE  /\ want.ret = "success" /\ want.ring # old.ring
           /\ want.ring \in RingRecord /\ want.ring.allocator = "sea"
           /\ want.ring.allocation = 0 /\ want.ring.end = old.ring.end
           /\ want.ring.head \in 0 .. want.ring.end /\ want.ring.tail \in 0 .. want.ring.end
           /\ IsEmpty(old.ring) => want.ring.head = size /\ want.ring.tail = 0
           /\ ~IsEmpty(old.ring) =>
                  /\ want.ring.head = size \/ want.ring.head = old.ring.head + size
                  /\ want.ring.tail = old.ring.tail
           /\ IsValid(want.ring) /\ AbstractStates(old.ring, want.ring)
           /\ want.buf \in BufRecord /\ want.buf.allocator = "none"
           /\ want.buf.len = 0 /\ want.buf.capacity = size
           /\ BufIsValid(want.buf) /\ BelongsToPool(want.ring, want.buf)
<1>1. PICK at \in 0 .. MaxSize : Fits(old.ring, at, size) /\ want = Vend(old.ring, at, size)
  BY DEF Vends
<1>2. old.ring.head \in Int
  BY GoodRingIs
<1>3. /\ want.ret = "success" /\ want.ring # old.ring
      /\ want.ring \in RingRecord /\ want.ring.allocator = "sea"
      /\ want.ring.allocation = 0 /\ want.ring.end = old.ring.end
      /\ want.ring.head \in 0 .. want.ring.end /\ want.ring.tail \in 0 .. want.ring.end
      /\ want.ring.head = at + size
      /\ want.ring.tail = (IF IsEmpty(old.ring) THEN 0 ELSE old.ring.tail)
      /\ IsEmpty(old.ring) => at = 0
      /\ at = 0 \/ at = old.ring.head
      /\ IsValid(want.ring) /\ AbstractStates(old.ring, want.ring)
      /\ want.buf \in BufRecord /\ want.buf.allocator = "none"
      /\ want.buf.len = 0 /\ want.buf.capacity = size
      /\ BufIsValid(want.buf) /\ BelongsToPool(want.ring, want.buf)
  BY <1>1, VendIs
<1> QED  BY <1>2, <1>3

(* A refusal leaves everything as it was. *)
LEMMA RefusedIs ==
    ASSUME want = Refused(old.ring, old.buf)
    PROVE  want.ret = "error" /\ want.ring = old.ring /\ want.buf = old.buf
BY DEF Refused

(* The assertions of the unit proof of acquire hold of both. *)
LEMMA AcquirePasses ==
    ASSUME Reached, Wanted, Right, proof = "acquire" PROVE AcquireAsserts
<1>1. CASE want = Refused(old.ring, old.buf)
  <2>1. ret = "error" /\ ring = old.ring /\ IsValid(ring)
    BY <1>1, RefusedIs, AcquireWanted DEF Right
  <2> QED  BY <2>1 DEF AcquireAsserts, RingsAreEqual, SameAllocation
<1>2. CASE \E size \in Nat : size = arg.requested /\ Vends(size)
  <2>1. arg.requested \in Nat /\ Vends(arg.requested) /\ GoodRing(old.ring)
    BY <1>2, AcquireWanted
  <2>2. old.ring.allocation = 0 /\ old.ring.allocator = "sea"
    BY <2>1, GoodRingIs
  <2>3. /\ ret = "success" /\ IsValid(ring) /\ SameAllocation
        /\ BufIsValid(buf) /\ buf.capacity = arg.requested /\ buf.len = 0
        /\ BelongsToPool(ring, buf) /\ AbstractStates(old.ring, ring)
    BY <2>1, <2>2, VendedIs DEF Right, SameAllocation
  <2>4. /\ IsEmpty(old.ring) => ring.head = arg.requested /\ ring.tail = 0
        /\ ~IsEmpty(old.ring) =>
               /\ ring.head = arg.requested \/ ring.head = old.ring.head + arg.requested
               /\ ring.tail = old.ring.tail
    BY <2>1, VendedIs DEF Right
  <2>5. old.ring.allocation + arg.requested = arg.requested  BY <2>1, <2>2
  <2> QED  BY <2>2, <2>3, <2>4, <2>5 DEF AcquireAsserts
<1> QED  BY <1>1, <1>2, AcquireWanted

(* So do those of acquire_up_to. *)
LEMMA AcquireUpToPasses ==
    ASSUME Reached, Wanted, Right, proof = "acquire_up_to" PROVE AcquireUpToAsserts
<1>1. CASE want = Refused(old.ring, old.buf)
  <2>1. ret = "error" /\ ring = old.ring /\ IsValid(ring)
    BY <1>1, RefusedIs, AcquireWanted DEF Right
  <2> QED  BY <2>1 DEF AcquireUpToAsserts, RingsAreEqual, SameAllocation
<1>2. CASE \E size \in Nat : size \in arg.minimum .. arg.requested /\ Vends(size)
  <2>1. PICK size \in Nat : size \in arg.minimum .. arg.requested /\ Vends(size)
    BY <1>2
  <2>2. GoodRing(old.ring) /\ old.ring.allocation = 0 /\ old.ring.allocator = "sea"
    BY AcquireWanted, GoodRingIs
  <2>3. /\ ret = "success" /\ IsValid(ring) /\ SameAllocation
        /\ BufIsValid(buf) /\ buf.capacity = size /\ buf.len = 0
        /\ BelongsToPool(ring, buf) /\ AbstractStates(old.ring, ring)
    BY <2>1, <2>2, VendedIs DEF Right, SameAllocation
  <2> QED  BY <2>1, <2>3 DEF AcquireUpToAsserts
<1> QED  BY <1>1, <1>2, AcquireWanted

(* The unit proof of belongs knows the answer: a part in use is within the  *)
(* ring, the block of its own is not.                                      *)
LEMMA BelongsWanted ==
    ASSUME Reached, Wanted, proof = "belongs"
    PROVE  /\ want.ring = old.ring /\ want.buf = old.buf /\ want.ret \in {"true", "false"}
           /\ arg.is_member = (want.ret = "true")
           /\ IsValid(old.ring) /\ BufIsValid(old.buf)
<1>1. Given(tool, "belongs", old.ring, old.buf, arg)
  BY DEF Reached
<1>2. /\ RingOf(old.ring) /\ GoodRing(old.ring) /\ BufIsValid(old.buf) /\ old.buf \in BufRecord
      /\ \/ arg.is_member = TRUE /\ InSomeUse(old.ring, old.buf)
         \/ arg.is_member = FALSE /\ old.buf.buffer \in {NULL, Outside}
  BY <1>1 DEF Given
<1>3. want = [ring |-> old.ring, buf |-> old.buf,
              ret |-> IF BelongsToPool(old.ring, old.buf) THEN "true" ELSE "false"]
  BY <1>1, OutcomesAre DEF Wanted
<1>4. /\ old.ring.allocation = 0 /\ old.ring.end \in 1 .. MaxSize
      /\ old.buf.capacity \in Nat /\ old.buf.buffer \in Int
  BY <1>2, GoodRingIs, SizesAre DEF BufRecord
<1>5. ASSUME InSomeUse(old.ring, old.buf) PROVE BelongsToPool(old.ring, old.buf)
  <2>1. PICK range \in InUse(old.ring) : Inside(old.buf, range[1], range[2])
    BY <1>5 DEF InSomeUse
  <2>2. ~IsEmpty(old.ring)  BY <1>5 DEF InSomeUse
  <2>3. range[1] \in Nat /\ range[2] \in 0 .. MaxSize /\ range[2] <= old.ring.end
    BY <1>2, <2>2, InUseIs
  <2>4. range[1] <= old.buf.buffer /\ old.buf.buffer + old.buf.capacity <= range[2]
    BY <2>1 DEF Inside
  <2> QED  BY <1>4, <2>3, <2>4, SizesAre DEF BelongsToPool
<1>6. old.buf.buffer \in {NULL, Outside} => ~BelongsToPool(old.ring, old.buf)
  BY <1>4, SizesAre DEF BelongsToPool
<1>7. arg.is_member = BelongsToPool(old.ring, old.buf)
  BY <1>2, <1>5, <1>6 DEF BelongsToPool
<1>8. /\ want.ring = old.ring /\ want.buf = old.buf /\ want.ret \in {"true", "false"}
      /\ (want.ret = "true") = BelongsToPool(old.ring, old.buf)
  BY <1>3 DEF BelongsToPool
<1> QED  BY <1>2, <1>7, <1>8, GoodIsValid

(* The assertions of belongs hold of the right answer. *)
LEMMA BelongsPasses ==
    ASSUME Reached, Wanted, Right, proof = "belongs" PROVE BufBelongsToPoolAsserts
BY BelongsWanted DEF Right, BufBelongsToPoolAsserts, RingsAreEqual

(* release is given a part that is in use, with bytes in all builds but one. *)
LEMMA ReleaseWanted ==
    ASSUME Reached, Wanted, proof = "release"
    PROVE  /\ GoodRing(old.ring) /\ want = Release(old.ring, old.buf)
           /\ InSomeUse(old.ring, old.buf)
           /\ tool # "fuzz" => old.buf.capacity > 0
<1>1. Given(tool, proof, old.ring, old.buf, arg)
  BY DEF Reached
<1>2. want = Release(old.ring, old.buf)
  BY <1>1, OutcomesAre DEF Wanted
<1> QED  BY <1>1, <1>2 DEF Given

(* The abstract states that release may lead to, from each it starts in. *)
LEMMA ReleasePasses ==
    ASSUME Reached, Wanted, Right, proof = "release", ~FuzzReleasesNothing PROVE ReleaseAsserts
<1>1. /\ old.ring.end \in Int /\ old.ring.head \in Int /\ old.ring.tail \in Int
      /\ 0 <= old.ring.head /\ old.ring.head < old.ring.end
      /\ 0 <= old.ring.tail /\ old.ring.tail < old.ring.end
      /\ old.ring.allocator = "sea" /\ old.ring.allocation = 0
  BY ReleaseWanted, GoodRingIs
<1>2. /\ buf = ZeroBuf /\ IsValid(ring)
      /\ ring.allocator = "sea" /\ ring.allocation = 0
      /\ ring.end = old.ring.end /\ ring.head = old.ring.head
      /\ ring.tail = old.buf.buffer + old.buf.capacity
      /\ old.buf.buffer \in Nat /\ old.buf.capacity \in Nat
      /\ \/ /\ old.ring.tail < old.ring.head
            /\ old.ring.tail <= old.buf.buffer
            /\ old.buf.buffer + old.buf.capacity <= old.ring.head
         \/ /\ old.ring.head < old.ring.tail
            /\ old.ring.tail <= old.buf.buffer
            /\ old.buf.buffer + old.buf.capacity <= old.ring.end
         \/ /\ old.ring.head < old.ring.tail
            /\ old.buf.buffer + old.buf.capacity <= old.ring.head
  BY ReleaseWanted, ReleaseIs DEF Right
<1>3. old.buf.capacity > 0
  BY <1>2, ReleaseWanted DEF FuzzReleasesNothing
<1>4. /\ IsFrontValid(old.ring) => IsEmpty(ring) \/ IsMiddleValid(ring)
      /\ IsMiddleValid(old.ring) => IsEmpty(ring) \/ IsMiddleValid(ring) \/ IsEndsValid(ring)
      /\ IsEndsValid(old.ring) => IsEmpty(ring) \/ IsMiddleValid(ring) \/ IsEndsValid(ring)
  BY <1>1, <1>2, <1>3 DEF IsFrontValid, IsMiddleValid, IsEndsValid, IsEmpty
<1> QED  BY <1>1, <1>2, <1>4 DEF ReleaseAsserts, SameAllocation

(* clean_up zeroes the ring. *)
LEMMA CleanUpWanted ==
    ASSUME Reached, Wanted, proof = "clean_up"
    PROVE  want.ring = ZeroRing /\ want.buf = old.buf
BY OutcomesAre DEF Reached, Wanted

(* init makes a ring of the size asked for, or refuses. *)
LEMMA InitWanted ==
    ASSUME Reached, Wanted, proof = "init"
    PROVE  /\ old.ring = ZeroRing /\ arg.requested \in 1 .. MaxSize /\ want.buf = old.buf
           /\ \/ want.ret = "success" /\ want.ring = NewRing(arg.requested)
              \/ want.ret = "error" /\ want.ring = ZeroRing
<1>1. old.ring = ZeroRing /\ arg.requested \in 1 .. MaxSize
  BY DEF Reached, Given
<1>2. \/ want = [ring |-> NewRing(arg.requested), buf |-> old.buf, ret |-> "success"]
      \/ want = Refused(old.ring, old.buf)
  BY OutcomesAre DEF Reached, Wanted
<1> QED  BY <1>1, <1>2 DEF Refused

(* The assertions of init hold of both. *)
LEMMA InitPasses ==
    ASSUME Reached, Wanted, Right, proof = "init" PROVE InitAsserts
<1>1. CASE want.ret = "success" /\ want.ring = NewRing(arg.requested)
  <2>1. arg.requested \in 1 .. MaxSize  BY InitWanted
  <2>2. /\ IsValid(ring) /\ ring.allocator = "sea" /\ ring.allocation = 0
        /\ ring.end = arg.requested
    BY <1>1, <2>1, NewRingIs DEF Right
  <2> QED  BY <2>1, <2>2 DEF InitAsserts
<1>2. CASE want.ret = "error"
  BY <1>2 DEF Right, InitAsserts
<1> QED  BY <1>1, <1>2, InitWanted

(* No unit proof fails on a correct operation. *)
LEMMA CorrectPasses ==
    ASSUME Reached, Wanted, Right, ~FuzzReleasesNothing PROVE Asserts
<1>1. proof \in Jobs
  BY DEF Reached, Given
<1>2. proof = "clean_up" => CleanUpAsserts
  BY CleanUpWanted DEF Right, CleanUpAsserts
<1> QED  BY <1>1, <1>2, AcquirePasses, AcquireUpToPasses, BelongsPasses, ReleasePasses, InitPasses
         DEF Jobs, Asserts

-----------------------------------------------------------------------------
(* One wrong field or answer is noticed. *)

RingFields == {"allocator", "allocation", "head", "tail", "end"}
BufFields == {"allocator", "buffer", "len", "capacity"}

RightWhereWatched ==
    /\ ret = want.ret \/ AnswerIsOpen
    /\ \A f \in RingFields : ring[f] = want.ring[f] \/ f \in UnwatchedRing
    /\ \A f \in BufFields : buf[f] = want.buf[f] \/ f \in UnwatchedBuf

(* The fields of the structs that are there now. *)
StructsAre == DOMAIN ring = RingFields /\ DOMAIN buf = BufFields

(* The ways to acquire: the buffer that was handed in is not of the ring,   *)
(* and the ring that was handed in is not what success leaves.              *)
LEMMA AcquireIsWatched ==
    ASSUME Reached, Wanted, OneWrong, proof \in {"acquire", "acquire_up_to"},
           ret = "success" => BelongsToPool(ring, buf),
           ret # "success" => ring = old.ring,
           ring.end = old.ring.end
    PROVE  /\ ret = want.ret /\ ret \in {"success", "error"}
           /\ ret = "error" => ring = want.ring
           /\ ret = "success" =>
                  /\ \E size \in Nat :
                         /\ proof = "acquire" => size = arg.requested
                         /\ proof = "acquire_up_to" => size \in arg.minimum .. arg.requested
                         /\ Vends(size)
                  /\ GoodRing(old.ring)
<1>1. /\ GoodRing(old.ring) /\ old.buf \in BufRecord /\ old.buf.buffer \in {NULL, Outside}
      /\ \/ want = Refused(old.ring, old.buf)
         \/ \E size \in Nat :
                /\ proof = "acquire" => size = arg.requested
                /\ proof = "acquire_up_to" => size \in arg.minimum .. arg.requested
                /\ Vends(size)
  BY AcquireWanted
<1>2. ASSUME ring.end = old.ring.end PROVE ~BelongsToPool(ring, old.buf)
  <2>1. old.ring.end \in 1 .. MaxSize /\ old.buf.capacity \in Nat
    BY <1>1, GoodRingIs DEF BufRecord
  <2> QED  BY <1>1, <1>2, <2>1, SizesAre DEF BelongsToPool
<1>3. CASE want = Refused(old.ring, old.buf)
  <2>1. want.ret = "error" /\ want.ring = old.ring /\ want.buf = old.buf
    BY <1>3, RefusedIs
  <2>2. ~WrongAnswer
    <3>1. WrongAnswer => ret = "success" /\ buf = old.buf
      BY <2>1 DEF WrongAnswer, Opposite
    <3> QED  BY <1>2, <3>1
  <2>3. ret = "error" /\ ring = want.ring
    BY <2>1, <2>2 DEF OneWrong, Skipped, WrongRing, WrongBuf
  <2> QED  BY <2>1, <2>3
<1>4. CASE \E size \in Nat :
                /\ proof = "acquire" => size = arg.requested
                /\ proof = "acquire_up_to" => size \in arg.minimum .. arg.requested
                /\ Vends(size)
  <2>1. want.ret = "success" /\ want.ring # old.ring
    BY <1>1, <1>4, VendedIs
  <2>2. ~WrongAnswer
    BY <2>1 DEF WrongAnswer, Opposite
  <2>3. ~Skipped
    BY <1>2, <2>1 DEF Skipped
  <2>4. ret = "success"
    BY <2>1, <2>2, <2>3 DEF OneWrong, WrongRing, WrongBuf
  <2> QED  BY <1>1, <1>4, <2>1, <2>4
<1> QED  BY <1>1, <1>3, <1>4

(* acquire: what is left open are the head of a ring in use, the buffer and *)
(* whose it is.                                                            *)
LEMMA AcquireWatched ==
    ASSUME Reached, Wanted, OneWrong, proof = "acquire", AcquireAsserts, StructsAre
    PROVE  RightWhereWatched
<1>1. /\ ret = "success" => BelongsToPool(ring, buf)
      /\ ret # "success" => ring = old.ring
      /\ ring.end = old.ring.end /\ ring.allocation = old.ring.allocation
      /\ ring.allocator = old.ring.allocator
      /\ ret = "success" =>
             /\ buf.len = 0 /\ buf.capacity = arg.requested
             /\ ring.tail = IF IsEmpty(old.ring) THEN old.ring.allocation ELSE old.ring.tail
             /\ IsEmpty(old.ring) => ring.head = old.ring.allocation + arg.requested
  BY DEF AcquireAsserts, SameAllocation, RingsAreEqual
<1>2. /\ ret = want.ret /\ ret \in {"success", "error"}
      /\ ret = "error" => ring = want.ring
      /\ ret = "success" => arg.requested \in Nat /\ Vends(arg.requested) /\ GoodRing(old.ring)
  BY <1>1, AcquireIsWatched
<1>3. CASE ret = "error"
  <2>1. UnwatchedBuf = BufFields  BY <1>3 DEF UnwatchedBuf, StructsAre
  <2> QED  BY <1>2, <1>3, <2>1 DEF RightWhereWatched
<1>4. CASE ret = "success"
  <2>1. /\ {"allocator", "buffer"} \subseteq UnwatchedBuf
        /\ ~IsEmpty(old.ring) => "head" \in UnwatchedRing
    BY <1>4 DEF UnwatchedBuf, UnwatchedRing
  <2>2. /\ want.ring.allocation = 0 /\ want.ring.end = old.ring.end /\ want.ring.allocator = "sea"
        /\ IsEmpty(old.ring) => want.ring.head = arg.requested /\ want.ring.tail = 0
        /\ ~IsEmpty(old.ring) => want.ring.tail = old.ring.tail
        /\ want.buf.len = 0 /\ want.buf.capacity = arg.requested
    BY <1>2, <1>4, VendedIs
  <2>3. old.ring.allocation = 0 /\ 0 + arg.requested = arg.requested /\ old.ring.allocator = "sea"
    BY <1>2, <1>4, GoodRingIs
  <2>4. /\ ring.allocator = want.ring.allocator /\ ring.allocation = want.ring.allocation
        /\ ring.end = want.ring.end /\ ring.tail = want.ring.tail
        /\ ring.head = want.ring.head \/ "head" \in UnwatchedRing
    BY <1>1, <1>2, <1>4, <2>1, <2>2, <2>3
  <2>5. buf.len = want.buf.len /\ buf.capacity = want.buf.capacity
    BY <1>1, <1>2, <1>4, <2>2
  <2> QED  BY <1>2, <2>1, <2>4, <2>5 DEF RightWhereWatched, RingFields, BufFields
<1> QED  BY <1>2, <1>3, <1>4

(* acquire_up_to: what is left open are the head, the tail and the size, the *)
(* buffer and whose it is.                                                 *)
LEMMA AcquireUpToWatched ==
    ASSUME Reached, Wanted, OneWrong, proof = "acquire_up_to", AcquireUpToAsserts, StructsAre
    PROVE  RightWhereWatched
<1>1. /\ ret = "success" => BelongsToPool(ring, buf) /\ buf.len = 0
      /\ ret # "success" => ring = old.ring
      /\ ring.end = old.ring.end /\ ring.allocation = old.ring.allocation
      /\ ring.allocator = old.ring.allocator
  BY DEF AcquireUpToAsserts, SameAllocation, RingsAreEqual
<1>2. /\ ret = want.ret /\ ret \in {"success", "error"}
      /\ ret = "error" => ring = want.ring
      /\ ret = "success" => (\E size \in Nat : Vends(size)) /\ GoodRing(old.ring)
  BY <1>1, AcquireIsWatched
<1>3. CASE ret = "error"
  <2>1. UnwatchedBuf = BufFields  BY <1>3 DEF UnwatchedBuf, StructsAre
  <2> QED  BY <1>2, <1>3, <2>1 DEF RightWhereWatched
<1>4. CASE ret = "success"
  <2>1. /\ UnwatchedBuf = {"allocator", "buffer", "capacity"}
        /\ UnwatchedRing = {"head", "tail"}
    BY <1>4 DEF UnwatchedBuf, UnwatchedRing
  <2>2. /\ want.ring.allocation = 0 /\ want.ring.end = old.ring.end /\ want.ring.allocator = "sea"
        /\ want.buf.len = 0
    BY <1>2, <1>4, VendedIs
  <2>3. old.ring.allocation = 0 /\ old.ring.allocator = "sea"
    BY <1>2, <1>4, GoodRingIs
  <2> QED  BY <1>1, <1>2, <1>4, <2>1, <2>2, <2>3 DEF RightWhereWatched, RingFields, BufFields
<1> QED  BY <1>2, <1>3, <1>4

(* belongs: nothing is left open. *)
LEMMA BelongsWatched ==
    ASSUME Reached, Wanted, OneWrong, proof = "belongs", BufBelongsToPoolAsserts
    PROVE  RightWhereWatched
<1>1. ring = want.ring /\ buf = want.buf /\ (ret = "true") = (want.ret = "true")
  BY BelongsWanted DEF BufBelongsToPoolAsserts, RingsAreEqual
<1>2. want.ret \in {"true", "false"}
  BY BelongsWanted
<1>3. ret \in {"true", "false"}
  BY <1>2 DEF OneWrong, Skipped, WrongRing, WrongBuf, WrongAnswer, Opposite
<1> QED  BY <1>1, <1>2, <1>3 DEF RightWhereWatched

(* release: nothing is left open, it has no answer. *)
LEMMA ReleaseWatched ==
    ASSUME Reached, Wanted, OneWrong, proof = "release", ReleaseAsserts
    PROVE  RightWhereWatched
<1>1. /\ buf = ZeroBuf /\ ring.allocator = old.ring.allocator
      /\ ring.allocation = old.ring.allocation /\ ring.end = old.ring.end
      /\ ring.head = old.ring.head /\ ring.tail = old.buf.buffer + old.buf.capacity
  BY DEF ReleaseAsserts, SameAllocation
<1>2. /\ want.buf = ZeroBuf /\ want.ring.allocator = old.ring.allocator
      /\ want.ring.allocation = old.ring.allocation /\ want.ring.end = old.ring.end
      /\ want.ring.head = old.ring.head /\ want.ring.tail = old.buf.buffer + old.buf.capacity
  <2>1. old.ring.allocator = "sea" /\ old.ring.allocation = 0
    BY ReleaseWanted, GoodRingIs
  <2> QED  BY <2>1, ReleaseWanted, ReleaseIs
<1>3. ret = want.ret
  BY DEF OneWrong, Skipped, WrongRing, WrongBuf, WrongAnswer
<1> QED  BY <1>1, <1>2, <1>3 DEF RightWhereWatched, RingFields

(* clean_up: nothing is left open, the buffer plays no part. *)
LEMMA CleanUpWatched ==
    ASSUME Reached, Wanted, OneWrong, proof = "clean_up", CleanUpAsserts
    PROVE  RightWhereWatched
<1>1. ring = want.ring
  BY CleanUpWanted DEF CleanUpAsserts
<1>2. buf = want.buf /\ ret = want.ret
  BY CleanUpWanted DEF OneWrong, Skipped, WrongRing, WrongBuf, WrongAnswer
<1> QED  BY <1>1, <1>2 DEF RightWhereWatched

(* init: of a success the head and the tail are left open, of an error all. *)
LEMMA InitWatched ==
    ASSUME Reached, Wanted, OneWrong, proof = "init", InitAsserts, StructsAre
    PROVE  RightWhereWatched
<1>1. buf = want.buf
  BY InitWanted DEF OneWrong, Skipped, WrongRing, WrongBuf, WrongAnswer
<1>2. want.ret \in {"success", "error"}
  BY InitWanted
<1>3. ret \in {"success", "error"}
  BY <1>2 DEF OneWrong, Skipped, WrongRing, WrongBuf, WrongAnswer, Opposite
<1>4. CASE ret = "error"
  <2>1. AnswerIsOpen /\ UnwatchedRing = RingFields
    BY <1>4 DEF AnswerIsOpen, UnwatchedRing, StructsAre
  <2> QED  BY <1>1, <2>1 DEF RightWhereWatched
<1>5. CASE ret = "success"
  <2>1. ring.allocator = "sea" /\ ring.end - ring.allocation = arg.requested
    BY <1>5 DEF InitAsserts
  <2>2. ring # ZeroRing
    BY <2>1 DEF ZeroRing
  <2>3. want.ret = "success" /\ want.ring = NewRing(arg.requested)
    <3>1. CASE WrongAnswer
      BY <2>2, <3>1, InitWanted DEF WrongAnswer
    <3>2. CASE ~WrongAnswer
      BY <1>5, <3>2, InitWanted DEF OneWrong, Skipped, WrongRing, WrongBuf
    <3> QED  BY <3>1, <3>2
  <2> DEFINE size == arg.requested
  <2>4. /\ want.ring = [allocator |-> "sea", allocation |-> 0, head |-> 0, tail |-> 0, end |-> size]
        /\ size \in Int
    BY <2>3, InitWanted DEF NewRing
  <2>5. ~Skipped /\ ~WrongAnswer
    BY <1>5, <2>2, <2>3, InitWanted DEF Skipped, WrongAnswer, Opposite
  <2>6. "head" \in UnwatchedRing /\ "tail" \in UnwatchedRing
    BY <1>5 DEF UnwatchedRing
  <2>7. CASE WrongRing
    <3>3. ring.allocator = want.ring.allocator
      BY <2>1, <2>4
    <3>4. ring.allocation = want.ring.allocation /\ ring.end = want.ring.end
      <4> HIDE DEF size
      <4>1. ring.end - ring.allocation = size  BY <2>1 DEF size
      <4>2. CASE \E a \in {"none", "sea"} : ring = [want.ring EXCEPT !.allocator = a]
        BY <2>4, <4>2
      <4>3. ASSUME NEW f \in {"allocation", "head", "tail", "end"}, NEW p \in Ptr,
                   ring = [want.ring EXCEPT ![f] = p]
            PROVE  ring.allocation = want.ring.allocation /\ ring.end = want.ring.end
        <5>1. p \in Int  BY SizesAre
        <5>2. CASE f = "allocation"
          BY <2>4, <4>1, <4>3, <5>1, <5>2
        <5>3. CASE f = "end"
          BY <2>4, <4>1, <4>3, <5>1, <5>3
        <5>4. CASE f \in {"head", "tail"}
          BY <2>4, <4>3, <5>4
        <5> QED  BY <5>2, <5>3, <5>4
      <4> QED  BY <2>7, <4>2, <4>3 DEF WrongRing
    <3> QED  BY <1>1, <1>5, <2>3, <2>6, <3>3, <3>4 DEF RightWhereWatched, RingFields
  <2>8. CASE ~WrongRing
    <3>1. ring = want.ring  BY <2>5, <2>8 DEF OneWrong, WrongBuf
    <3> QED  BY <1>1, <1>5, <2>3, <3>1 DEF RightWhereWatched
  <2> QED  BY <2>7, <2>8
<1> QED  BY <1>3, <1>4, <1>5

(* The six together. *)
LEMMA WrongIsNoticed ==
    ASSUME Reached, Wanted, OneWrong, Asserts, StructsAre PROVE RightWhereWatched
<1>1. Given(tool, proof, old.ring, old.buf, arg) /\ proof \in Jobs
  BY DEF Reached, Given
<1>3. CASE proof = "acquire"  BY <1>3, AcquireWatched DEF Asserts
<1>4. CASE proof = "acquire_up_to"  BY <1>4, AcquireUpToWatched DEF Asserts
<1>5. CASE proof = "belongs"  BY <1>5, BelongsWatched DEF Asserts
<1>6. CASE proof = "release"  BY <1>6, ReleaseWatched DEF Asserts
<1>7. CASE proof = "clean_up"  BY <1>7, CleanUpWatched DEF Asserts
<1>8. CASE proof = "init"  BY <1>8, InitWatched DEF Asserts
<1> QED  BY <1>1, <1>3, <1>4, <1>5, <1>6, <1>7, <1>8 DEF Jobs

-----------------------------------------------------------------------------
(* A correct operation makes no unit proof of the ring buffer fail, whatever *)
(* tool it is built for, but libFuzzer's release of a buffer without bytes. *)
THEOREM RingNoFalseAlarm == Spec => []NoFalseAlarm
<1>1. UnitInv => NoFalseAlarm
  <2>1. ASSUME UnitInv, pc = "failed", Result = want PROVE FuzzReleasesNothing
    <3>1. Reached /\ Wanted /\ ~Asserts  BY <2>1 DEF UnitInv, Returned
    <3>2. Right  BY <2>1 DEF Right, Result
    <3> QED  BY <3>1, <3>2, CorrectPasses
  <2> QED  BY <2>1 DEF NoFalseAlarm
<1> QED  BY <1>1, InvariantHolds, PTL

(* An operation that gets one field or its answer wrong, or does nothing,   *)
(* passes no unit proof, but for what PassedMeansCorrect says they leave    *)
(* open.  (Of two wrong fields one may hide the other.)                     *)
THEOREM OneFaultIsNoticed == Spec => [](faults <= 1 => PassedMeansCorrect)
<1>2. UnitInv => StructsAre
  BY DEF UnitInv, RingRecord, BufRecord, RingFields, BufFields, StructsAre
<1>1. ASSUME UnitInv, FaultInv, faults <= 1, pc = "passed" PROVE RightWhereWatched
  <2>1. Reached /\ Wanted /\ Asserts  BY <1>1 DEF UnitInv, Returned
  <2>2. faults = 0 \/ faults = 1  BY <1>1, MaxFaultsIsNat DEF UnitInv
  <2>3. CASE faults = 0
    <3>1. ring = want.ring /\ buf = want.buf /\ ret = want.ret
      BY <1>1, <2>3 DEF FaultInv, Returned
    <3> QED  BY <3>1 DEF RightWhereWatched
  <2>4. CASE faults = 1
    <3>1. OneWrong  BY <1>1, <2>4 DEF FaultInv, Returned
    <3> QED  BY <1>1, <1>2, <2>1, <3>1, WrongIsNoticed
  <2> QED  BY <2>2, <2>3, <2>4
<1>3. UnitInv /\ FaultInv => (faults <= 1 => PassedMeansCorrect)
  BY <1>1, <1>2 DEF PassedMeansCorrect, RightWhereWatched, StructsAre
<1> QED  BY <1>3, InvariantHolds, PTL

(* The helpers never hand over an invalid ring or buffer, nor release one   *)
(* that lies outside of what is in use.                                    *)
THEOREM RingPreconditionsHold == Spec => []PreconditionsHold
<1>1. ASSUME UnitInv PROVE TypeOK
  <2>1. old.ring \in RingRecord /\ old.buf \in BufRecord /\ old.buf.capacity <= MaxSize /\ old.buf.len <= MaxSize
    <3>1. CASE pc = "setup"
      <4>1. old.ring = ZeroRing /\ old.buf = ZeroBuf  BY <1>1, <3>1 DEF UnitInv, Nothing
      <4>2. ZeroBuf.capacity = 0 /\ ZeroBuf.len = 0  BY DEF ZeroBuf
      <4> QED  BY <4>1, <4>2, ZeroIs, SizesAre
    <3>2. CASE pc # "setup"
      <4>1. Given(tool, proof, old.ring, old.buf, arg)  BY <1>1, <3>2 DEF UnitInv, Reached
      <4> QED  BY <4>1, GivenIs
    <3> QED  BY <3>1, <3>2
  <2> QED  BY <1>1, <2>1 DEF UnitInv, TypeOK, RingRecord, BufRecord, Returned
<1>2. ASSUME UnitInv, pc = "call", proof # "init"
      PROVE  /\ IsValid(ring)
             /\ BufIsValid(buf) \/ (tool = "fuzz" /\ proof = "release")
             /\ proof = "release" =>
                    \E range \in InUse(ring) : range[1] <= buf.buffer /\ buf.buffer + buf.capacity <= range[2]
  <2>1. Given(tool, proof, ring, buf, arg)
    BY <1>2 DEF UnitInv, Reached
  <2>2. IsValid(ring)
    BY <1>2, <2>1, GoodIsValid DEF Given
  <2>3. BufIsValid(buf) \/ (tool = "fuzz" /\ proof = "release")
    <3>1. BufIsValid(ZeroBuf)  BY DEF BufIsValid, ZeroBuf
    <3> QED  BY <1>2, <2>1, <3>1 DEF Given, Jobs
  <2>4. proof = "release" => InSomeUse(ring, buf)
    BY <2>1 DEF Given
  <2> QED  BY <2>2, <2>3, <2>4 DEF InSomeUse, Inside
<1>3. UnitInv => PreconditionsHold
  BY <1>1, <1>2 DEF PreconditionsHold
<1> QED  BY <1>3, InvariantHolds, PTL

(* A ring that a correct operation leaves is one that the helper builds for  *)
(* the next call, but where the head or the tail is at its very end.        *)
THEOREM RingNextCallIsTried == Spec => []NextCallIsTried
<1>1. ASSUME UnitInv, FaultInv, pc = "passed", faults = 0, ret = "success", ~AtTheEnd,
             proof \in {"acquire", "acquire_up_to", "release"}
      PROVE  ring \in Rings
  <2>1. Reached /\ Wanted /\ tool \in Builds /\ Right
    BY <1>1, ToolIsKnown DEF UnitInv, FaultInv, Returned, Right
  <2>2. old.ring \in Rings
    BY <1>1, <2>1 DEF Reached
  <2>3. /\ GoodRing(old.ring)
        /\ ring \in RingRecord /\ ring.allocator = "sea" /\ ring.allocation = 0
        /\ ring.end = old.ring.end /\ IsValid(ring)
        /\ ring.head \in 0 .. ring.end /\ ring.tail \in 0 .. ring.end
    <3>1. CASE proof \in {"acquire", "acquire_up_to"}
      <4>1. want # Refused(old.ring, old.buf)  BY <1>1, <2>1 DEF Right, Refused
      <4>2. GoodRing(old.ring) /\ \E size \in Nat : Vends(size)
        BY <2>1, <3>1, <4>1, AcquireWanted
      <4> QED  BY <2>1, <4>2, VendedIs DEF Right
    <3>2. CASE proof = "release"
      <4>1. GoodRing(old.ring) /\ want = Release(old.ring, old.buf) /\ InSomeUse(old.ring, old.buf)
        BY <2>1, <3>2, ReleaseWanted
      <4>2. /\ want.ring \in RingRecord /\ want.ring.allocator = "sea" /\ want.ring.allocation = 0
            /\ want.ring.end = old.ring.end /\ want.ring.head = old.ring.head
            /\ want.ring.tail \in 0 .. old.ring.end /\ IsValid(want.ring)
        BY <4>1, ReleaseIs
      <4>3. old.ring.head \in 0 .. old.ring.end  BY <4>1, GoodRingIs
      <4> QED  BY <2>1, <4>1, <4>2, <4>3 DEF Right
    <3> QED  BY <1>1, <3>1, <3>2
  <2>4. old.ring.end \in 1 .. MaxSize  BY <2>3, GoodRingIs
  <2>5. GoodRing(ring)
    BY <1>1, <2>3, <2>4, SizesAre DEF GoodRing, RingOf, AtTheEnd, IsValid
  <2> QED  BY <2>1, <2>2, <2>3, <2>5, RingsAre DEF Builds
<1>2. UnitInv /\ FaultInv => NextCallIsTried
  BY <1>1 DEF NextCallIsTried
<1> QED  BY <1>2, InvariantHolds, PTL

(* The second generation, which asks whether a struct was written to, passes *)
(* nothing that the first refuses, and refuses only an operation that       *)
(* writes to a struct it must leave alone what the struct held already.     *)
THEOREM RingWritesTellApart == Spec => []WritesTellApart
<1>1. ASSUME UnitInv, FaultInv, WriteInv, SecondRuns
      PROVE  /\ Asserts2 => Asserts
             /\ Asserts /\ ~Asserts2 => faults > 0 /\ HeldIt
  <2>1. /\ Returned /\ Reached /\ Wanted
        /\ proof \in {"acquire", "acquire_up_to", "belongs", "release"}
        /\ faults \in Nat
        /\ "ring" \in written \/ ring = old.ring
        /\ "buf" \in written \/ buf = old.buf
        /\ faults = 0 => ret = want.ret /\ written = WritesTo(want.ret)
    BY <1>1 DEF SecondRuns, SecondGeneration, UnitInv, FaultInv, WriteInv, Returned
  <2>2. ASSUME proof = "acquire"
        PROVE  /\ Acquire2Asserts => AcquireAsserts
               /\ AcquireAsserts /\ ~Acquire2Asserts => ret # "success" /\ RingModified /\ ring = old.ring
    BY <2>1 DEF Acquire2Asserts, AcquireAsserts, RingsAreEqual, RingModified
  <2>3. ASSUME proof = "acquire_up_to"
        PROVE  /\ AcquireUpTo2Asserts => AcquireUpToAsserts
               /\ AcquireUpToAsserts /\ ~AcquireUpTo2Asserts =>
                      ret # "success" /\ RingModified /\ ring = old.ring
    BY <2>1 DEF AcquireUpTo2Asserts, AcquireUpToAsserts, RingsAreEqual, RingModified
  <2>4. ASSUME proof = "belongs"
        PROVE  /\ BufBelongsToPool2Asserts => BufBelongsToPoolAsserts
               /\ BufBelongsToPoolAsserts /\ ~BufBelongsToPool2Asserts =>
                      (RingModified \/ BufModified) /\ ring = old.ring /\ buf = old.buf
    BY <2>1 DEF BufBelongsToPool2Asserts, BufBelongsToPoolAsserts, RingsAreEqual,
                RingModified, BufModified
  <2>5. Release2Asserts <=> ReleaseAsserts
    BY DEF Release2Asserts, ReleaseAsserts
  <2>6. ASSUME faults = 0, proof # "release", proof # "belongs" => ret # "success"
        PROVE  ~RingModified /\ ~BufModified
    <3>1. CASE proof = "belongs"
      BY <2>1, <2>6, <3>1 DEF WritesTo, RingModified, BufModified
    <3>2. CASE proof \in {"acquire", "acquire_up_to"}
      <4>1. want.ret \in {"success", "error"}
        BY <2>1, <3>2, AcquireWanted, RefusedIs, VendedIs
      <4>2. want.ret = "error"  BY <2>1, <2>6, <3>2, <4>1
      <4> QED  BY <2>1, <2>6, <4>2 DEF WritesTo, RingModified, BufModified
    <3> QED  BY <2>1, <2>6, <3>1, <3>2
  <2>7. CASE proof = "acquire"
    BY <2>1, <2>2, <2>6, <2>7 DEF Asserts, Asserts2, HeldIt, RingModified
  <2>8. CASE proof = "acquire_up_to"
    BY <2>1, <2>3, <2>6, <2>8 DEF Asserts, Asserts2, HeldIt, RingModified
  <2>9. CASE proof = "belongs"
    BY <2>1, <2>4, <2>6, <2>9 DEF Asserts, Asserts2, HeldIt, RingModified, BufModified
  <2>10. CASE proof = "release"
    BY <2>5, <2>10 DEF Asserts, Asserts2
  <2> QED  BY <2>1, <2>7, <2>8, <2>9, <2>10
<1>2. UnitInv /\ FaultInv /\ WriteInv => WritesTellApart
  BY <1>1 DEF WritesTellApart
<1> QED  BY <1>2, InvariantHolds, PTL

-----------------------------------------------------------------------------
(* The stubs of the priority queue. *)

(* The queue is valid between the operations, and a length that is to grow  *)
(* has room to; the index of an item that moves is in range.               *)
QueueInv ==
    /\ Queue!TypeOK
    /\ Queue!QueueIsValid
    /\ queue_pc \in {"setup", "call"} => length <= MaxQueueItems
    /\ queue_pc = "call" /\ op \in Queue!Sifts => index < length

(* Nothing is called before the queue is there. *)
LEMMA QueueInvAtFirst == Queue!ConstantsAreNat /\ Queue!Init => QueueInv
<1> SUFFICES ASSUME Queue!ConstantsAreNat, Queue!Init PROVE QueueInv
  OBVIOUS
<1> USE DEF Queue!ConstantsAreNat, Queue!Init
<1>1. index \in 0 .. SizeMax /\ length \in 0 .. MaxQueueItems + 1 /\ back_length \in 0 .. MaxQueueItems + 1
  OBVIOUS
<1>2. queue_pc \in {"setup", "call", "check", "passed"} /\ backs \in {"zero", "array"} /\ queue_ret \in {"none", "success", "error"}
  OBVIOUS
<1>3. op \in Queue!Operations \cup {"none"}
  OBVIOUS
<1>4. Queue!TypeOK
  BY <1>1, <1>2, <1>3 DEF Queue!TypeOK
<1>5. Queue!QueueIsValid
  BY DEF Queue!QueueIsValid
<1> QED
  BY <1>4, <1>5 DEF QueueInv

(* Every operation leaves a valid queue. *)
LEMMA QueueInvIsKept == Queue!ConstantsAreNat /\ QueueInv /\ [Queue!Next]_(Queue!vars) => QueueInv'
<1> SUFFICES ASSUME Queue!ConstantsAreNat, QueueInv, [Queue!Next]_(Queue!vars) PROVE QueueInv'
  OBVIOUS
<1> USE DEF Queue!ConstantsAreNat, QueueInv, Queue!TypeOK, Queue!QueueIsValid
<1>1. CASE Queue!Setup
  BY <1>1 DEF Queue!Setup
<1>2. CASE Queue!Remove
  BY <1>2 DEF Queue!Remove, Queue!RemoveNode, Queue!Answer
<1>3. CASE Queue!RefuseRemove
  BY <1>3 DEF Queue!RefuseRemove, Queue!Refuse, Queue!Answer
<1>4. CASE Queue!Push
  BY <1>4 DEF Queue!Push, Queue!Answer
<1>5. CASE Queue!RefusePush
  BY <1>5 DEF Queue!RefusePush, Queue!Refuse, Queue!Answer
<1>6. CASE Queue!Sift
  BY <1>6 DEF Queue!Sift, Queue!Answer
<1>7. CASE Queue!Read
  BY <1>7 DEF Queue!Read, Queue!Answer
<1>8. CASE Queue!Reset
  BY <1>8 DEF Queue!Reset, Queue!Answer
<1>9. CASE Queue!Pass
  BY <1>9 DEF Queue!Pass
<1>10. CASE UNCHANGED Queue!vars
  BY <1>10 DEF Queue!vars
<1> QED
  BY <1>1, <1>2, <1>3, <1>4, <1>5, <1>6, <1>7, <1>8, <1>9, <1>10 DEF Queue!Next

(* The lengths stay in range: remove_node never takes one from 0. *)
THEOREM QueueTypeCorrect ==
    ASSUME Queue!ConstantsAreNat
    PROVE  Queue!Spec => []Queue!TypeOK
<1>1. Queue!Init => QueueInv
  BY QueueInvAtFirst
<1>2. QueueInv /\ [Queue!Next]_(Queue!vars) => QueueInv'
  BY QueueInvIsKept
<1>3. QueueInv => Queue!TypeOK
  BY DEF QueueInv
<1> QED
  BY <1>1, <1>2, <1>3, PTL DEF Queue!Spec

(* No assertion of the stubs of s_sift_either and s_sift_up fails, nor the   *)
(* one on the queue after the call, for a queue of any length.             *)
THEOREM QueueAssertionsHold ==
    ASSUME Queue!ConstantsAreNat
    PROVE  Queue!Spec => []Queue!AssertionsHold
<1>1. Queue!Init => QueueInv
  BY QueueInvAtFirst
<1>2. QueueInv /\ [Queue!Next]_(Queue!vars) => QueueInv'
  BY QueueInvIsKept
<1>3. QueueInv => Queue!AssertionsHold
  BY DEF QueueInv, Queue!AssertionsHold
<1> QED
  BY <1>1, <1>2, <1>3, PTL DEF Queue!Spec

-----------------------------------------------------------------------------
(* The watched byte (utils.c).  A pointer here is any place in any block.   *)

Places(blocks) == [block : blocks, at : Nat]

LEMMA PlusIsAPlace ==
    ASSUME NEW blocks, NEW p \in Places(blocks), NEW i \in Nat
    PROVE  /\ Watched!Plus(p, i) \in Places(blocks)
           /\ Watched!Plus(p, i).block = p.block /\ Watched!Plus(p, i).at = p.at + i
  BY DEF Places, Watched!Plus

(* An array that may be read may be read at each of its indices. *)
LEMMA EachIsReadable ==
    ASSUME NEW blocks, NEW p \in Places(blocks), NEW m, NEW n \in Nat,
           Watched!Readable(m, p, n), NEW i \in 0 .. n - 1
    PROVE  Watched!Readable(m, Watched!Plus(p, i), 1)
<1>1. p.block \in DOMAIN m /\ p.at .. p.at + n - 1 \subseteq DOMAIN m[p.block]
  BY DEF Watched!Readable
<1>2. p.at \in Nat /\ p.at + i \in p.at .. p.at + n - 1
  BY DEF Places
<1>3. p.at + i .. p.at + i + 1 - 1 \subseteq DOMAIN m[p.block]
  BY <1>1, <1>2
<1> QED  BY <1>1, <1>3, PlusIsAPlace DEF Watched!Readable

(* A byte chosen before the call and looked at after it stands for the whole *)
(* array: save_byte_from_array and assert_byte_from_buffer_matches together *)
(* hold for every choice exactly if no byte of the array has changed.       *)
THEOREM OneByteStandsForAll ==
    ASSUME NEW blocks, NEW p \in Places(blocks), p # Watched!Null,
           NEW before, NEW after, NEW n \in Nat \ {0}, Watched!Readable(after, p, n)
    PROVE  Watched!AllMatch(after, p, Watched!SaveByteFromArray(before, p, n))
           <=> Watched!BytesAt(after, p, n) = Watched!BytesAt(before, p, n)
<1> DEFINE was(i) == Watched!ByteAt(before, Watched!Plus(p, i))
           is(i) == Watched!ByteAt(after, Watched!Plus(p, i))
<1>1. Watched!SaveByteFromArray(before, p, n) = {[index |-> i, byte |-> was(i)] : i \in 0 .. n - 1}
  BY DEF Watched!SaveByteFromArray
<1>2. ASSUME NEW i \in 0 .. n - 1
      PROVE  Watched!AssertByteFromBufferMatches(after, p, [index |-> i, byte |-> was(i)])
             <=> is(i) = was(i)
  BY EachIsReadable DEF Watched!AssertByteFromBufferMatches, Watched!HasByte
<1>3. Watched!AllMatch(after, p, Watched!SaveByteFromArray(before, p, n))
      <=> \A i \in 0 .. n - 1 : is(i) = was(i)
  <2>1. Watched!AllMatch(after, p, Watched!SaveByteFromArray(before, p, n))
        <=> \A i \in 0 .. n - 1 :
               Watched!AssertByteFromBufferMatches(after, p, [index |-> i, byte |-> was(i)])
    BY <1>1 DEF Watched!AllMatch
  <2> QED  BY <2>1, <1>2
<1>4. Watched!BytesAt(after, p, n) = [i \in 0 .. n - 1 |-> is(i)]
      /\ Watched!BytesAt(before, p, n) = [i \in 0 .. n - 1 |-> was(i)]
  BY DEF Watched!BytesAt
<1> HIDE DEF was, is
<1>5. [i \in 0 .. n - 1 |-> is(i)] = [i \in 0 .. n - 1 |-> was(i)]
      <=> \A i \in 0 .. n - 1 : is(i) = was(i)
  <2>1. ASSUME [i \in 0 .. n - 1 |-> is(i)] = [i \in 0 .. n - 1 |-> was(i)],
               NEW j \in 0 .. n - 1
        PROVE  is(j) = was(j)
    <3>1. [i \in 0 .. n - 1 |-> is(i)][j] = [i \in 0 .. n - 1 |-> was(i)][j]
      BY <2>1
    <3> QED  BY <3>1
  <2>2. ASSUME \A i \in 0 .. n - 1 : is(i) = was(i)
        PROVE  [i \in 0 .. n - 1 |-> is(i)] = [i \in 0 .. n - 1 |-> was(i)]
    BY <2>2
  <2> QED  BY <2>1, <2>2
<1> QED  BY <1>3, <1>4, <1>5

(* assert_bytes_match, whose index is chosen after the call: it passes for   *)
(* every choice exactly if two readable arrays hold the same bytes.         *)
THEOREM MatchMeansTheSameBytes ==
    ASSUME NEW blocks, NEW p \in Places(blocks), NEW q \in Places(blocks),
           p # Watched!Null, q # Watched!Null, NEW m, NEW n \in Nat \ {0},
           Watched!Readable(m, p, n), Watched!Readable(m, q, n)
    PROVE  Watched!AssertBytesMatch(m, p, q, n)
           <=> Watched!BytesAt(m, p, n) = Watched!BytesAt(m, q, n)
<1> DEFINE left(i) == Watched!ByteAt(m, Watched!Plus(p, i))
           right(i) == Watched!ByteAt(m, Watched!Plus(q, i))
<1>1. \A i \in 0 .. n - 1 : /\ Watched!Readable(m, Watched!Plus(p, i), 1)
                             /\ Watched!Readable(m, Watched!Plus(q, i), 1)
  BY EachIsReadable
<1>2. Watched!AssertBytesMatch(m, p, q, n) <=> \A i \in 0 .. n - 1 : left(i) = right(i)
  BY <1>1 DEF Watched!AssertBytesMatch, Watched!HasByte
<1>3. Watched!BytesAt(m, p, n) = [i \in 0 .. n - 1 |-> left(i)]
      /\ Watched!BytesAt(m, q, n) = [i \in 0 .. n - 1 |-> right(i)]
  BY DEF Watched!BytesAt
<1> HIDE DEF left, right
<1>4. ASSUME [i \in 0 .. n - 1 |-> left(i)] = [i \in 0 .. n - 1 |-> right(i)],
             NEW j \in 0 .. n - 1
      PROVE  left(j) = right(j)
  <2>1. [i \in 0 .. n - 1 |-> left(i)][j] = [i \in 0 .. n - 1 |-> right(i)][j]
    BY <1>4
  <2> QED  BY <2>1
<1>5. ASSUME \A i \in 0 .. n - 1 : left(i) = right(i)
      PROVE  [i \in 0 .. n - 1 |-> left(i)] = [i \in 0 .. n - 1 |-> right(i)]
  BY <1>5
<1> QED  BY <1>2, <1>3, <1>4, <1>5
=============================================================================
