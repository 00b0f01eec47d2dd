----------------------------- MODULE MemCompare -----------------------------
(***************************************************************************)
(* bcmp and memcmp of bcmp.c, which the proofs are linked with in place of *)
(* the C library's.  Both compare byte by byte, first in a loop of a fixed *)
(* length, for the tool to unroll, which looks at byte i only if i < n,    *)
(* then in a loop for the bytes that are left.                             *)
(***************************************************************************)
EXTENDS Integers

CONSTANTS
    Top,              \* the last address of the memory
    Byte,
    MaxBufferSize,    \* sea_max_buffer_size()
    MaxLength         \* bound: n

ASSUME MemCompareAssumption ==
    /\ Top \in Nat /\ Byte \subseteq Nat
    /\ MaxBufferSize \in Nat /\ MaxLength \in Nat

VARIABLES
    function,         \* "bcmp" or "memcmp"
    mem, p1, p2, n,
    pc, i,
    result,
    read              \* history: the addresses read

vars == <<function, mem, p1, p2, n, pc, i, result, read>>
arguments == <<function, mem, p1, p2, n>>

Address == 0 .. Top
NULL == -1
Length == 0 .. MaxLength

(* A caller has n bytes at its pointers; to no bytes NULL may point. *)
Block(p, k) == (p = NULL /\ k = 0) \/ (p # NULL /\ p + k <= Top)

Init ==
    /\ function \in {"bcmp", "memcmp"}
    /\ mem \in [Address -> Byte]
    /\ n \in Length
    /\ p1 \in {p \in Address \cup {NULL} : Block(p, n)}
    /\ p2 \in {p \in Address \cup {NULL} : Block(p, n)}
    /\ pc = "start" /\ i = 0 /\ result = 0 /\ read = {}

Return(r) == pc' = "returned" /\ result' = r

Start ==
    /\ pc = "start"
    /\ IF p1 = p2 THEN Return(0)
       ELSE IF function = "bcmp" /\ NULL \in {p1, p2} THEN Return(1)
       ELSE pc' = "pre-unrolled" /\ UNCHANGED result
    /\ UNCHANGED <<arguments, i, read>>

Differ(a, b) ==
    IF function = "bcmp" THEN 1 ELSE IF a < b THEN -1 ELSE 1

Compare_Again ==
    /\ read' = read \cup {p1 + i, p2 + i}
    /\ IF mem[p1 + i] # mem[p2 + i]
       THEN Return(Differ(mem[p1 + i], mem[p2 + i])) /\ UNCHANGED i
       ELSE UNCHANGED <<i, pc, result>>

(* The body of both loops: compare byte i. *)
Compare ==
    /\ read' = read \cup {p1 + i, p2 + i}
    /\ IF mem[p1 + i] # mem[p2 + i]
       THEN Return(Differ(mem[p1 + i], mem[p2 + i])) /\ UNCHANGED i
       ELSE i' = i + 1 /\ UNCHANGED <<pc, result>>

PreUnrolled ==
    /\ pc = "pre-unrolled" /\ i < MaxBufferSize
    /\ IF i < n THEN Compare ELSE i' = i + 1 /\ UNCHANGED <<pc, result, read>>
    /\ UNCHANGED arguments

PreUnrolledEnds_Returns ==
    /\ pc = "pre-unrolled" /\ i = MaxBufferSize
    /\ Return(0) /\ UNCHANGED <<arguments, i, read>>

PreUnrolledEnds ==
    /\ pc = "pre-unrolled" /\ i = MaxBufferSize
    /\ pc' = "rest" /\ UNCHANGED <<arguments, i, result, read>>

Rest ==
    /\ pc = "rest" /\ i < n
    /\ Compare /\ UNCHANGED arguments

RestEnds ==
    /\ pc = "rest" /\ i >= n
    /\ Return(0) /\ UNCHANGED <<arguments, i, read>>

Next == Start \/ PreUnrolled \/ PreUnrolledEnds \/ Rest \/ RestEnds

Spec == Init /\ [][Next]_vars /\ WF_vars(Next)
-----------------------------------------------------------------------------
TypeOK ==
    /\ function \in {"bcmp", "memcmp"} /\ mem \in [Address -> Byte]
    /\ p1 \in Address \cup {NULL} /\ p2 \in Address \cup {NULL} /\ n \in Length
    /\ pc \in {"start", "pre-unrolled", "rest", "returned"}
    /\ i \in 0 .. (MaxBufferSize + MaxLength) /\ result \in {-1, 0, 1}
    /\ read \subseteq Address

(* The order of two blocks is that of the first byte in which they differ. *)
Differences == {k \in 0 .. n - 1 : mem[p1 + k] # mem[p2 + k]}
First == CHOOSE k \in Differences : \A l \in Differences : k <= l

(* Splitting the comparison into a loop to unroll and a rest makes no       *)
(* difference, however n and the length of the first loop compare: the      *)
(* result is the first difference's (bcmp: that there is one).             *)
ResultIsFirstDifference ==
    pc = "returned" /\ NULL \notin {p1, p2} =>
        /\ result = 0 <=> Differences = {}
        /\ function = "memcmp" /\ Differences # {} =>
               (result < 0 <=> mem[p1 + First] < mem[p2 + First])

(* No byte beyond the n of a block is read, and none of a NULL block. *)
ReadsStayInside == read \subseteq (p1 .. p1 + n - 1) \cup (p2 .. p2 + n - 1)

Returns == <>(pc = "returned")
=============================================================================
