-------------------------- MODULE RingBufferHelper --------------------------
(***************************************************************************)
(* ring_buffer_helper.c in its three builds (SeaHorn, KLEE, libFuzzer), the *)
(* byte buffers it works on, the abstract states of ring_buffer_abstract_   *)
(* states.h, and, external, the library's ring buffer.                     *)
(*                                                                         *)
(* An address is an integer: the ring's allocation starts at 0, NULL lies   *)
(* below it and the one block outside of it above.                         *)
(***************************************************************************)
EXTENDS Integers

CONSTANT MaxSize     \* MAX_BUFFER_SIZE, and the bound of every other size

ASSUME MaxSizeIsPositive == MaxSize \in Nat \ {0}

NULL == -1
Outside == MaxSize + 1
Ptr == NULL .. Outside

-----------------------------------------------------------------------------
(* The library (external). *)

IsValid(r) ==
    /\ r.allocation <= r.head /\ r.head <= r.end
    /\ r.allocation <= r.tail /\ r.tail <= r.end
    /\ r.head = r.allocation => r.tail = r.allocation
    /\ r.allocation # NULL \/ r.end = r.allocation
    /\ r.allocator # "none"

BufIsValid(b) ==
    \/ b.capacity = 0 /\ b.len = 0 /\ b.buffer = NULL
    \/ b.capacity > 0 /\ b.len <= b.capacity /\ b.buffer # NULL

BelongsToPool(r, b) ==
    /\ b.buffer # NULL /\ r.allocation # NULL /\ r.end # NULL
    /\ b.buffer >= r.allocation
    /\ b.buffer + b.capacity <= r.end

ZeroBuf == [allocator |-> "none", buffer |-> NULL, len |-> 0, capacity |-> 0]
ZeroRing == [allocator |-> "none", allocation |-> NULL, head |-> NULL, tail |-> NULL, end |-> NULL]

EmptyArray(at, capacity) ==
    [allocator |-> "none", buffer |-> IF capacity = 0 THEN NULL ELSE at,
     len |-> 0, capacity |-> capacity]

Refused(r, b) == [ring |-> r, buf |-> b, ret |-> "error"]
Vended(r, at, size) ==
    [ring |-> [r EXCEPT !.head = at + size], buf |-> EmptyArray(at, size), ret |-> "success"]

Acquire(r, b, requested) ==
    LET head_space == r.end - r.head
        tail_space == r.tail - r.allocation
    IN  CASE requested = 0 -> Refused(r, b)
          [] r.head = r.tail /\ requested > 0 ->
                 IF requested <= r.end - r.allocation
                 THEN Vended([r EXCEPT !.tail = r.allocation], r.allocation, requested)
                 ELSE Refused(r, b)
          [] r.tail > r.head /\ requested > 0 ->
                 IF requested < r.tail - r.head THEN Vended(r, r.head, requested)
                 ELSE Refused(r, b)
          [] r.tail < r.head /\ requested > 0 ->
                 IF requested <= head_space THEN Vended(r, r.head, requested)
                 ELSE IF requested < tail_space THEN Vended(r, r.allocation, requested)
                 ELSE Refused(r, b)

AtMost(n, limit) == IF n > limit THEN limit ELSE n

AcquireUpTo(r, b, minimum, requested) ==
    LET head_space == r.end - r.head
        tail_space == r.tail - r.allocation
        all == AtMost(requested, r.end - r.allocation)
        gap == AtMost(requested, r.tail - r.head - 1)
        here(at, size) == IF size >= minimum THEN Vended(r, at, size) ELSE Refused(r, b)
    IN  CASE requested = 0 \/ minimum = 0 -> Refused(r, b)
          [] minimum > 0 /\ r.head = r.tail ->
                 IF all >= minimum THEN Vended([r EXCEPT !.tail = r.allocation], r.allocation, all)
                 ELSE Refused(r, b)
          [] minimum > 0 /\ r.tail > r.head -> here(r.head, gap)
          [] minimum > 0 /\ r.tail < r.head ->
                 IF head_space >= requested THEN Vended(r, r.head, requested)
                 ELSE IF tail_space > requested THEN Vended(r, r.allocation, requested)
                 ELSE IF head_space >= minimum /\ head_space >= tail_space
                      THEN Vended(r, r.head, head_space)
                 ELSE here(r.allocation, tail_space - 1)

Release(r, b) ==
    [ring |-> [r EXCEPT !.tail = b.buffer + b.capacity], buf |-> ZeroBuf, ret |-> "success"]

NewRing(size) ==
    [allocator |-> "sea", allocation |-> 0, head |-> 0, tail |-> 0, end |-> size]

-----------------------------------------------------------------------------
(* The abstract states of a ring. *)

IsEmpty(r) == r.tail = r.head
IsFrontValid(r) == r.allocation = r.tail /\ r.tail < r.head
IsMiddleValid(r) == r.allocation < r.tail /\ r.tail < r.head
IsEndsValid(r) == r.tail > r.head

-----------------------------------------------------------------------------
(* The proof helper, for each of its builds: SeaHorn, KLEE, libFuzzer. *)

Positions_NotFirst(size) == 1 .. size - 1
Positions(size) == 0 .. size - 1

(* initialize_ring_buffer. *)
RingsOfSize(size) ==
    [allocator : {"sea"}, allocation : {0},
     head : Positions(size), tail : Positions(size), end : {size}]

SeaRings == UNION {RingsOfSize(size) : size \in 1 .. MaxSize}
KleeRings == {r \in SeaRings : r.head = r.allocation => r.tail = r.allocation}
FuzzRings == UNION {RingsOfSize(size % MaxSize) : size \in 1 .. 2 * MaxSize}

(* initialize_byte_buf: each build may fail to allocate, and libFuzzer's may *)
(* also get a block of no bytes.  (That its block for a ring is refused      *)
(* makes no valid ring.)                                                   *)
Bufs(buffer, len, capacity) ==
    [allocator : {"sea"}, buffer : buffer, len : len, capacity : {capacity}]

SeaByteBufs ==
    UNION {Bufs(IF cap = 0 THEN {NULL} ELSE {NULL, Outside}, 0 .. cap, cap) : cap \in 0 .. MaxSize}

KleeByteBufs ==
    Bufs({NULL}, {0}, 0) \cup UNION {Bufs({Outside}, 0 .. cap, cap) : cap \in 1 .. MaxSize}

Modulo(n) == n % MaxSize
FuzzByteBufs ==
    UNION {LET cap == Modulo(n)
           IN  Bufs({NULL, Outside}, IF cap = 0 THEN {0} ELSE 0 .. cap - 1, cap) : n \in 0 .. 2 * MaxSize}

(* ensure_byte_buf_has_allocated_buffer_member: a block of its own.  (No    *)
(* job that libFuzzer runs on a ring needs one.)                           *)
SeaAllocated(b) == {[b EXCEPT !.buffer = Outside]}
KleeAllocated(b) ==
    {[b EXCEPT !.buffer = IF b.capacity = 0 THEN NULL ELSE Outside, !.len = len] : len \in 0 .. b.capacity}

(* ensure_byte_buf_has_allocated_buffer_member_in_range(b, lo, hi). *)
At(b, place) == [b EXCEPT !.buffer = place]

SeaInRange_AnyCapacity(b, lo, hi) == {At(b, p) : p \in {q \in lo .. hi - 1 : 0 < b.capacity}}

SeaInRange(b, lo, hi) ==
    {At(b, p) : p \in {q \in lo .. hi - 1 : 0 < b.capacity /\ b.capacity <= hi - q}}

KleeInRange(b, lo, hi) ==
    UNION {{[At(b, p) EXCEPT !.capacity = hi - p, !.len = len] : len \in 0 .. hi - p} :
               p \in lo .. hi - 1}

FuzzInRange(b, lo, hi) ==
    {[At(b, p) EXCEPT !.capacity = @ % (hi - p + 1)] : p \in {q \in lo .. hi - 1 : 0 < b.capacity}}

(* ensure_byte_buf_has_allocated_buffer_member_in_ring_buf chooses one of   *)
(* the parts of the ring that are in use, <<lo, hi>>, and forgets whose the *)
(* buffer is.                                                              *)
InUse_Swapped(r) == {<<r.head, r.tail>>}
InUse(r) ==
    IF r.head < r.tail
    THEN (IF r.tail < r.end THEN {<<r.tail, r.end>>} ELSE {})
         \cup (IF r.allocation < r.head THEN {<<r.allocation, r.head>>} ELSE {})
    ELSE {<<r.tail, r.head>>}

AnyAllocator(b) == {[b EXCEPT !.allocator = a] : a \in {"none", "sea"}}

RingsAreEqual(r1, r2) == r1 = r2
=============================================================================
