---------------------------- MODULE WatchedBytes ----------------------------
(***************************************************************************)
(* utils.c: how the unit proofs compare arrays of bytes without a loop.    *)
(* save_byte_from_array keeps one byte at an arbitrary place before the     *)
(* call, and the assert_* functions look at that byte, or at an arbitrary   *)
(* one, after it.  A unit proof has to pass for every choice, so an         *)
(* assertion is a condition on all of them; reading outside of a block is a *)
(* failure too.                                                            *)
(*                                                                         *)
(* A memory m is a function from the names of blocks to their bytes,       *)
(* counted from 0.  A pointer is a place in a block.                       *)
(***************************************************************************)
EXTENDS Integers

CONSTANTS
    Byte,
    SizeMax           \* the largest size_t

SizeMaxIsNat == SizeMax \in Nat
BitsAreBytes == {0, 1} \subseteq Byte

Null == [block |-> "null", at |-> 0]
StartOf(b) == [block |-> b, at |-> 0]
Plus(p, n) == [p EXCEPT !.at = @ + n]

Readable(m, p, n) ==
    n = 0 \/ (p.block \in DOMAIN m /\ p.at .. p.at + n - 1 \subseteq DOMAIN m[p.block])

ByteAt(m, p) == m[p.block][p.at]

BytesAt(m, p, n) == [i \in 0 .. n - 1 |-> ByteAt(m, Plus(p, i))]

HasByte(m, p, c) == Readable(m, p, 1) /\ ByteAt(m, p) = c

-----------------------------------------------------------------------------

AssertBytesMatch(m, p, q, n) ==
    /\ n = 0 \/ (p = Null <=> q = Null)
    /\ n > 0 /\ p # Null /\ q # Null =>
           \A i \in 0 .. n - 1 :
               Readable(m, Plus(q, i), 1) /\ HasByte(m, Plus(p, i), ByteAt(m, Plus(q, i)))

AssertAllBytesAre(m, p, c, n) ==
    n > 0 /\ p # Null => \A i \in 0 .. n - 1 : HasByte(m, Plus(p, i), c)

AssertAllZeroes(m, p, n) == AssertAllBytesAre(m, p, 0, n)

(* What may be in the storage afterwards: of an array without bytes any     *)
(* index and any byte.                                                     *)
SaveByteFromArray_OneTooMany(m, p, n) ==
    IF n > 0 /\ p # Null
    THEN {[index |-> i, byte |-> IF i < n THEN ByteAt(m, Plus(p, i)) ELSE 0] : i \in 0 .. n}
    ELSE [index : 0 .. SizeMax, byte : Byte]

SaveByteFromArray_First(m, p, n) ==
    IF n > 0 /\ p # Null THEN {[index |-> 0, byte |-> ByteAt(m, p)]}
    ELSE [index : 0 .. SizeMax, byte : Byte]

SaveByteFromArray(m, p, n) ==
    IF n > 0 /\ p # Null
    THEN {[index |-> i, byte |-> ByteAt(m, Plus(p, i))] : i \in 0 .. n - 1}
    ELSE [index : 0 .. SizeMax, byte : Byte]

(* The index is not compared with the length of the array. *)
AssertByteFromBufferMatches(m, p, storage) ==
    p # Null => HasByte(m, Plus(p, storage.index), storage.byte)

AllMatch(m, p, saved) == \A storage \in saved : AssertByteFromBufferMatches(m, p, storage)

AssertByteBufEquivalence(m, lhs, rhs, saved) ==
    /\ lhs.len = rhs.len
    /\ lhs.capacity = rhs.capacity
    /\ lhs.allocator = rhs.allocator
    /\ lhs.len > 0 => AllMatch(m, lhs.buffer, saved)

AssertByteCursorEquivalence(m, lhs, rhs, saved) ==
    /\ lhs.len = rhs.len
    /\ lhs.len > 0 => AllMatch(m, lhs.ptr, saved)

AssertArrayListEquivalence_NoLength(m, lhs, rhs, saved) ==
    /\ lhs.alloc = rhs.alloc
    /\ lhs.current_size = rhs.current_size
    /\ lhs.item_size = rhs.item_size
    /\ lhs.current_size > 0 => AllMatch(m, lhs.data, saved)

AssertArrayListEquivalence(m, lhs, rhs, saved) ==
    /\ lhs.alloc = rhs.alloc
    /\ lhs.current_size = rhs.current_size
    /\ lhs.length = rhs.length
    /\ lhs.item_size = rhs.item_size
    /\ lhs.current_size > 0 => AllMatch(m, lhs.data, saved)
=============================================================================
