------------------------ MODULE RingBufferUnitProofs ------------------------
(***************************************************************************)
(* The six ring_buffer_* unit proofs of seahorn/jobs, for the tool they     *)
(* are built for.  As in LinkedListUnitProofs the operation does what it    *)
(* should, or it does nothing, or it gets one field or its result wrong, or *)
(* writes to a field what it holds.                                        *)
(***************************************************************************)
EXTENDS RingBufferHelper

CONSTANTS
    Tools,        \* the builds of the unit proofs, of "sea", "klee", "fuzz"
    MaxFaults

ASSUME ToolsAreKnown == Tools \subseteq {"sea", "klee", "fuzz"}
ASSUME MaxFaultsIsNat == MaxFaults \in Nat

VARIABLES
    tool,
    proof,        \* the unit proof that runs, "" before one is chosen
    pc,           \* "setup", "call", "check", "passed" or "failed"
    ring, buf,    \* ring_buf and buf of the unit proof
    arg,          \* its other inputs
    old,          \* ring_buf_old and buf_old
    ret,
    want,         \* what a correct operation leaves: [ring, buf, ret]
    written,      \* those of "ring" and "buf" that were written to since the call
    faults

vars == <<tool, proof, pc, ring, buf, arg, old, ret, want, written, faults>>

NoArg == [minimum |-> 0, requested |-> 0, is_member |-> FALSE]
Nothing == [ring |-> ZeroRing, buf |-> ZeroBuf, ret |-> "none"]

Init ==
    /\ tool \in Tools
    /\ proof = "" /\ pc = "setup"
    /\ ring = ZeroRing /\ buf = ZeroBuf /\ arg = NoArg
    /\ old = Nothing /\ want = Nothing /\ ret = "none"
    /\ written = {} /\ faults = 0

Rings == CASE tool = "sea" -> SeaRings [] tool = "klee" -> KleeRings [] tool = "fuzz" -> FuzzRings

ByteBufs ==
    CASE tool = "sea"  -> SeaByteBufs
      [] tool = "klee" -> KleeByteBufs
      [] tool = "fuzz" -> FuzzByteBufs

Allocated(b) == IF tool = "klee" THEN KleeAllocated(b) ELSE SeaAllocated(b)

InRange(b, lo, hi) ==
    CASE tool = "sea"  -> SeaInRange(b, lo, hi)
      [] tool = "klee" -> KleeInRange(b, lo, hi)
      [] tool = "fuzz" -> FuzzInRange(b, lo, hi)

ValidRings == {r \in Rings : IsValid(r)}
ValidBufs == {b \in ByteBufs : BufIsValid(b)}
BufsIn(range) ==
    UNION {InRange(b, range[1], range[2]) : b \in UNION {AnyAllocator(c) : c \in ValidBufs}}

(* The unit proof p reaches its call with ring r, buffer b and inputs a. *)
Reach(p, r, b, a) ==
    /\ proof' = p /\ pc' = "call"
    /\ ring' = r /\ buf' = b /\ arg' = a
    /\ old' = [Nothing EXCEPT !.ring = r, !.buf = b]
    /\ UNCHANGED <<tool, ret, want, written, faults>>

(* An assertion fails before the call. *)
Broken(p) ==
    /\ proof' = p /\ pc' = "failed"
    /\ UNCHANGED <<tool, ring, buf, arg, old, ret, want, written, faults>>

-----------------------------------------------------------------------------

AbstractStates(r, s) ==
    /\ IsEmpty(r) => IsFrontValid(s)
    /\ IsFrontValid(r) => IsFrontValid(s)
    /\ IsMiddleValid(r) => IsMiddleValid(s) \/ IsEndsValid(s)
    /\ IsEndsValid(r) => IsEndsValid(s)
    /\ ~(IsFrontValid(r) /\ IsMiddleValid(s))

SameAllocation ==
    /\ ring.allocator = old.ring.allocator
    /\ ring.allocation = old.ring.allocation
    /\ ring.end = old.ring.end

AcquireSetup ==
    \E r \in ValidRings, b \in ValidBufs, requested \in 0 .. MaxSize + 1 :
        Reach("acquire", r, b, [NoArg EXCEPT !.requested = requested])

AcquireAsserts_AnyHead ==
    /\ IF ret = "success"
       THEN /\ BufIsValid(buf) /\ buf.capacity = arg.requested /\ buf.len = 0
            /\ BelongsToPool(ring, buf)
            /\ AbstractStates(old.ring, ring)
       ELSE RingsAreEqual(ring, old.ring)
    /\ IsValid(ring) /\ SameAllocation

AcquireAsserts ==
    /\ IF ret = "success"
       THEN /\ BufIsValid(buf) /\ buf.capacity = arg.requested /\ buf.len = 0
            /\ BelongsToPool(ring, buf)
            /\ IF IsEmpty(old.ring)
               THEN /\ ring.head = old.ring.allocation + arg.requested
                    /\ ring.tail = old.ring.allocation
               ELSE /\ \/ ring.head = old.ring.allocation + arg.requested
                       \/ ring.head = old.ring.head + arg.requested
                    /\ ring.tail = old.ring.tail
            /\ AbstractStates(old.ring, ring)
       ELSE RingsAreEqual(ring, old.ring)
    /\ IsValid(ring) /\ SameAllocation

AcquireUpToSetup ==
    \E r \in ValidRings, b \in ValidBufs, requested \in 0 .. MaxSize + 1 :
        \E minimum \in 0 .. requested :
            Reach("acquire_up_to", r, b,
                  [NoArg EXCEPT !.requested = requested, !.minimum = minimum])

AcquireUpToAsserts ==
    /\ IsValid(ring)
    /\ IF ret = "success"
       THEN /\ BufIsValid(buf) /\ buf.capacity \in arg.minimum .. arg.requested /\ buf.len = 0
            /\ BelongsToPool(ring, buf)
            /\ AbstractStates(old.ring, ring)
       ELSE RingsAreEqual(ring, old.ring)
    /\ SameAllocation

(* A buffer somewhere in the part range of ring r; the helper asserts that   *)
(* there is such a part.                                                   *)
ReachInside(p, r, range, inputs) ==
    IF range[1] < range[2]
    THEN \E b \in BufsIn(range) :
             IsValid(r) /\ (p = "belongs" => BufIsValid(b)) /\ Reach(p, r, b, inputs)
    ELSE Broken(p)

(* The job is not built for libFuzzer. *)
BufBelongsToPoolSetup ==
    /\ tool # "fuzz"
    /\ \E r \in Rings :
           \/ ~IsEmpty(r) /\ \E range \in InUse(r) :
                  ReachInside("belongs", r, range, [NoArg EXCEPT !.is_member = TRUE])
           \/ \E c \in ValidBufs : \E b \in Allocated(c) :
                  IsValid(r) /\ BufIsValid(b) /\ Reach("belongs", r, b, NoArg)

BufBelongsToPoolAsserts ==
    /\ arg.is_member = (ret = "true")
    /\ IsValid(ring) /\ BufIsValid(buf)
    /\ RingsAreEqual(ring, old.ring) /\ buf = old.buf

ReleaseSetup ==
    \E r \in ValidRings :
        ~IsEmpty(r) /\ \E range \in InUse(r) : ReachInside("release", r, range, NoArg)

ReleaseAsserts ==
    /\ IsValid(ring) /\ SameAllocation
    /\ ring.head = old.ring.head
    /\ ring.tail = old.buf.buffer + old.buf.capacity
    /\ buf = ZeroBuf
    /\ IsFrontValid(old.ring) => IsEmpty(ring) \/ IsMiddleValid(ring)
    /\ IsMiddleValid(old.ring) => IsEmpty(ring) \/ IsMiddleValid(ring) \/ IsEndsValid(ring)
    /\ IsEndsValid(old.ring) => IsEmpty(ring) \/ IsMiddleValid(ring) \/ IsEndsValid(ring)

CleanUpSetup == \E r \in ValidRings : Reach("clean_up", r, ZeroBuf, NoArg)

CleanUpAsserts == ring = ZeroRing

(* The ring of the init unit proof is not initialised; size is requested. *)
InitSetup ==
    \E size \in 1 .. MaxSize :
        Reach("init", ZeroRing, ZeroBuf, [NoArg EXCEPT !.requested = size])

InitAsserts ==
    ret = "success" =>
        /\ IsValid(ring) /\ ring.allocator = "sea"
        /\ ring.end - ring.allocation = arg.requested

-----------------------------------------------------------------------------

Setup ==
    /\ pc = "setup"
    /\ \/ AcquireSetup \/ AcquireUpToSetup \/ BufBelongsToPoolSetup
       \/ ReleaseSetup \/ CleanUpSetup \/ InitSetup

(* What the library's operation may leave and return. *)
Outcomes ==
    CASE proof = "acquire"       -> {Acquire(ring, buf, arg.requested)}
      [] proof = "acquire_up_to" -> {AcquireUpTo(ring, buf, arg.minimum, arg.requested)}
      [] proof = "belongs"       -> {[ring |-> ring, buf |-> buf,
                                      ret |-> IF BelongsToPool(ring, buf) THEN "true" ELSE "false"]}
      [] proof = "release"       -> {Release(ring, buf)}
      [] proof = "clean_up"      -> {[ring |-> ZeroRing, buf |-> buf, ret |-> "success"]}
      [] proof = "init"          -> {[ring |-> NewRing(arg.requested), buf |-> buf,
                                      ret |-> "success"]}
                                    \cup IF tool = "sea" THEN {} ELSE {Refused(ring, buf)}

(* What it writes to: nothing when it only asks, or refuses. *)
WritesTo(r) ==
    CASE proof = "belongs" \/ r = "error"   -> {}
      [] proof \in {"init", "clean_up"} /\ r = "success" -> {"ring"}
      [] OTHER -> {"ring", "buf"}

Call ==
    /\ pc = "call"
    /\ pc' = "check"
    /\ want' \in Outcomes
    /\ ring' = want'.ring /\ buf' = want'.buf /\ ret' = want'.ret
    /\ written' = WritesTo(want'.ret)
    /\ UNCHANGED <<tool, proof, arg, old, faults>>

(* An operation that returns what it should and does nothing. *)
SkippedCall ==
    /\ pc = "call" /\ faults < MaxFaults
    /\ pc' = "check"
    /\ want' \in Outcomes
    /\ ret' = want'.ret
    /\ faults' = faults + 1
    /\ UNCHANGED <<tool, proof, ring, buf, arg, old, written>>

StrayRingWrite(f, p) ==
    /\ pc = "check" /\ faults < MaxFaults
    /\ ring' = [ring EXCEPT ![f] = p]
    /\ written' = written \cup {"ring"}
    /\ faults' = faults + 1
    /\ UNCHANGED <<tool, proof, pc, buf, arg, old, ret, want>>

StrayBufWrite(f, n) ==
    /\ pc = "check" /\ faults < MaxFaults
    /\ proof \notin {"clean_up", "init"}
    /\ buf' = [buf EXCEPT ![f] = n]
    /\ written' = written \cup {"buf"}
    /\ faults' = faults + 1
    /\ UNCHANGED <<tool, proof, pc, ring, arg, old, ret, want>>

Opposite == [success |-> "error", error |-> "success", true |-> "false", false |-> "true"]

WrongReturn ==
    /\ pc = "check" /\ faults < MaxFaults
    /\ proof \notin {"release", "clean_up"}
    /\ ret' = Opposite[ret]
    /\ faults' = faults + 1
    /\ UNCHANGED <<tool, proof, pc, ring, buf, arg, old, want, written>>

Asserts ==
    CASE proof = "acquire"       -> AcquireAsserts
      [] proof = "acquire_up_to" -> AcquireUpToAsserts
      [] proof = "belongs"       -> BufBelongsToPoolAsserts
      [] proof = "release"       -> ReleaseAsserts
      [] proof = "clean_up"      -> CleanUpAsserts
      [] proof = "init"          -> InitAsserts

Check ==
    /\ pc = "check"
    /\ pc' = IF Asserts THEN "passed" ELSE "failed"
    /\ UNCHANGED <<tool, proof, ring, buf, arg, old, ret, want, written, faults>>

Next ==
    \/ Setup
    \/ Call
    \/ SkippedCall
    \/ \E f \in {"allocation", "head", "tail", "end"}, p \in Ptr : StrayRingWrite(f, p)
    \/ \E p \in Ptr : StrayBufWrite("buffer", p)
    \/ \E f \in {"len", "capacity"}, n \in 0 .. Outside : StrayBufWrite(f, n)
    \/ \E a \in {"none", "sea"} : StrayRingWrite("allocator", a) \/ StrayBufWrite("allocator", a)
    \/ WrongReturn
    \/ Check

Spec == Init /\ [][Next]_vars

-----------------------------------------------------------------------------
(* The second generation (seahorn/jobs2): the same inputs and the same calls *)
(* with other assertions, which ask SeaHorn whether an object was written to *)
(* where the first generation compares a byte it saved.                    *)

(* sea_is_modified of the two structs, which are tracked from the call on.   *)
RingModified == "ring" \in written
BufModified == "buf" \in written

(* One that asks only of the fields that acquire may not change.             *)
AcquireUpTo2Asserts_NotAsked ==
    /\ IsValid(ring) /\ SameAllocation
    /\ ret = "success" =>
           /\ BufIsValid(buf) /\ buf.capacity \in arg.minimum .. arg.requested /\ buf.len = 0
           /\ BelongsToPool(ring, buf)
           /\ AbstractStates(old.ring, ring)

Acquire2Asserts ==
    /\ IF ret = "success"
       THEN /\ BufIsValid(buf) /\ buf.capacity = arg.requested /\ buf.len = 0
            /\ BelongsToPool(ring, buf)
            /\ IF IsEmpty(old.ring)
               THEN ring.head = old.ring.allocation + arg.requested /\ ring.tail = old.ring.allocation
               ELSE /\ ring.head \in {old.ring.allocation + arg.requested, old.ring.head + arg.requested}
                    /\ ring.tail = old.ring.tail
            /\ AbstractStates(old.ring, ring)
       ELSE ~RingModified
    /\ IsValid(ring) /\ SameAllocation

AcquireUpTo2Asserts ==
    /\ IsValid(ring)
    /\ IF ret = "success"
       THEN /\ BufIsValid(buf) /\ buf.capacity \in arg.minimum .. arg.requested /\ buf.len = 0
            /\ BelongsToPool(ring, buf)
            /\ AbstractStates(old.ring, ring)
       ELSE ~RingModified
    /\ SameAllocation

BufBelongsToPool2Asserts ==
    /\ arg.is_member = (ret = "true")
    /\ IsValid(ring) /\ BufIsValid(buf)
    /\ ~RingModified /\ ~BufModified

(* It has the ring tracked and does not ask. *)
Release2Asserts ==
    /\ IsValid(ring) /\ SameAllocation
    /\ ring.head = old.ring.head
    /\ ring.tail = old.buf.buffer + old.buf.capacity
    /\ buf = ZeroBuf
    /\ IsFrontValid(old.ring) => IsEmpty(ring) \/ IsMiddleValid(ring)
    /\ IsMiddleValid(old.ring) \/ IsEndsValid(old.ring) =>
           IsEmpty(ring) \/ IsMiddleValid(ring) \/ IsEndsValid(ring)

SecondGeneration ==
    {"acquire", "acquire_up_to", "belongs", "release"}

(* Its verdict where the first generation has given one. *)
SecondRuns == pc \in {"passed", "failed"} /\ tool = "sea" /\ proof \in SecondGeneration

Asserts2 ==
    CASE proof = "acquire"       -> Acquire2Asserts
      [] proof = "acquire_up_to" -> AcquireUpTo2Asserts
      [] proof = "belongs"       -> BufBelongsToPool2Asserts
      [] proof = "release"       -> Release2Asserts

-----------------------------------------------------------------------------

TypeOK ==
    /\ tool \in Tools
    /\ pc \in {"setup", "call", "check", "passed", "failed"}
    /\ {ring, old.ring} \subseteq
           [allocator : {"none", "sea"}, allocation : Ptr, head : Ptr, tail : Ptr, end : Ptr]
    /\ {buf, old.buf} \subseteq
           [allocator : {"none", "sea"}, buffer : Ptr, len : Nat, capacity : Nat]
    /\ old.buf.capacity <= MaxSize /\ old.buf.len <= MaxSize
    /\ faults \in 0 .. MaxFaults

Result == [ring |-> ring, buf |-> buf, ret |-> ret]

(* libFuzzer's helper takes the capacity modulo the space plus one, and the *)
(* release unit proof may be handed a buffer of no bytes.                  *)
FuzzReleasesNothing == tool = "fuzz" /\ proof = "release" /\ old.buf.capacity = 0

(* No unit proof fails on an operation that did what it should, or before   *)
(* it is called, in any build; but for that one: the release unit proof      *)
(* asserts that a ring used from its front on is empty or used in the       *)
(* middle afterwards, which holds when a buffer with bytes is released.     *)
NoFalseAlarm == pc = "failed" => Result # want \/ FuzzReleasesNothing

(* What the assertions of a unit proof leave open.  acquire accepts two     *)
(* places for the head and any for the buffer; acquire_up_to any that make  *)
(* a valid ring of the right kind; neither looks at the allocator of the    *)
(* buffer they made; after an error nobody looks at the buffer, and the     *)
(* init unit proof at nothing.                                             *)
AnswerIsOpen == ret = "error" /\ proof = "init"

UnwatchedRing ==
    CASE ret = "error" /\ proof = "init"     -> DOMAIN ring
      [] ret = "success" /\ proof = "init"   -> {"head", "tail"}
      [] ret = "success" /\ proof = "acquire" -> IF IsEmpty(old.ring) THEN {} ELSE {"head"}
      [] ret = "success" /\ proof = "acquire_up_to" -> {"head", "tail"}
      [] OTHER -> {}

UnwatchedBuf ==
    CASE ret = "error" -> DOMAIN buf
      [] ret = "success" /\ proof = "acquire" -> {"allocator", "buffer"}
      [] ret = "success" /\ proof = "acquire_up_to" -> {"allocator", "buffer", "capacity"}
      [] OTHER -> {}

(* A unit proof that passes has seen a correct operation, up to what it     *)
(* leaves open: whatever single field or result the operation gets wrong,  *)
(* the assertions notice, and so they do if it does nothing at all.        *)
PassedMeansCorrect ==
    pc = "passed" =>
        /\ ret = want.ret \/ AnswerIsOpen
        /\ \A f \in DOMAIN ring : ring[f] = want.ring[f] \/ f \in UnwatchedRing
        /\ \A f \in DOMAIN buf : buf[f] = want.buf[f] \/ f \in UnwatchedBuf

(* The operations are called with a valid ring and a valid buffer, and      *)
(* release with one that lies in the part of the ring that is in use.      *)
(* (libFuzzer's buffer for release may be shorter than what it holds.)      *)
PreconditionsHold ==
    /\ TypeOK
    /\ pc = "call" /\ proof # "init" =>
        /\ IsValid(ring)
        /\ BufIsValid(buf) \/ (tool = "fuzz" /\ proof = "release")
        /\ proof = "release" =>
               \E range \in InUse(ring) : range[1] <= buf.buffer /\ buf.buffer + buf.capacity <= range[2]

(* The unit proofs try the ring an operation leaves as the ring of the next *)
(* call, which is what makes them say something of sequences of calls.     *)
(* What they do not try is a head or a tail at the end of the allocation.  *)
AtTheEnd == ring.end \in {ring.head, ring.tail}

NextCallIsTried ==
    pc = "passed" /\ faults = 0 /\ proof \in {"acquire", "acquire_up_to", "release"}
        /\ ret = "success" => ring \in Rings \/ AtTheEnd

(* The second generation passes nothing that the first refuses: a struct     *)
(* that nobody wrote to holds what it held.  It refuses no correct          *)
(* operation, and of the others only what the first passes for a reason:   *)
(* an operation that wrote to a struct it must leave alone, but what that   *)
(* held already.                                                           *)
HeldIt == ("ring" \in written /\ ring = old.ring) \/ ("buf" \in written /\ buf = old.buf)

WritesTellApart ==
    SecondRuns => /\ Asserts2 => Asserts
                  /\ Asserts /\ ~Asserts2 => faults > 0 /\ HeldIt
=============================================================================
