------------------------------- MODULE MemMove -------------------------------
(***************************************************************************)
(* memcpy, memmove and memset of bcmp.c as they are built for Symbiotic.   *)
(* memmove to a higher address copies from the end: up to three single     *)
(* bytes when the end of the destination is no multiple of four, then      *)
(* chunks of eight bytes, each as two words, then what is left.  A word is *)
(* an unsigned long: of four bytes or, on a 64-bit machine, of eight.      *)
(*                                                                         *)
(* The memory starts with its addresses in it, so that every byte can be   *)
(* told from every other.  pc is the label, or the loop, the code is at.   *)
(***************************************************************************)
EXTENDS Integers

CONSTANTS
    WordSize,         \* sizeof(unsigned long)
    MaxStart,         \* bound: the lower of the two addresses
    MaxDistance,      \* bound: how far they are apart
    MaxLength         \* bound: n

ConstantsMakeSense ==
    /\ WordSize \in {4, 8}
    /\ MaxStart \in Nat /\ MaxDistance \in Nat /\ MaxLength \in Nat

VARIABLES
    function,
    to, from, len,    \* the arguments
    mem,
    pc,
    n, rem, chunks, tmp_to, tmp_from,
    touched           \* history: the addresses read or written

arguments == <<function, to, from, len>>
vars == <<arguments, mem, pc, n, rem, chunks, tmp_to, tmp_from, touched>>

Address == 0 .. MaxStart + MaxDistance + MaxLength + 8
Value == -1           \* what memset fills with

Init ==
    /\ function \in {"memcpy", "memmove", "memset"}
    /\ to \in 4 .. MaxStart + MaxDistance /\ from \in 4 .. MaxStart + MaxDistance
    /\ to <= MaxStart \/ from <= MaxStart
    /\ len \in 0 .. MaxLength
    /\ function = "memcpy" => to + len <= from \/ from + len <= to
    /\ function = "memset" => from = to
    /\ mem = [a \in Address |-> a]
    /\ pc = function /\ n = len
    /\ rem = 0 /\ chunks = 0 /\ tmp_to = to /\ tmp_from = from
    /\ touched = {}

Cells(a, k) == a .. a + k - 1

(* m after the k bytes old has at s are stored at d. *)
Stored(m, d, old, s, k) ==
    [a \in Address |-> IF a \in Cells(d, k) THEN old[s + (a - d)] ELSE m[a]]

Touch(d, s, k) == touched' = touched \cup Cells(d, k) \cup Cells(s, k)

Goto(label) == pc' = label

(* One round of memcpy: *idest++ = *ifrom++. *)
Memcpy ==
    /\ pc = "memcpy" /\ n > 0
    /\ mem' = [mem EXCEPT ![tmp_to] = mem[tmp_from]]
    /\ Touch(tmp_to, tmp_from, 1)
    /\ tmp_to' = tmp_to + 1 /\ tmp_from' = tmp_from + 1 /\ n' = n - 1
    /\ UNCHANGED <<arguments, pc, rem, chunks>>

Memset ==
    /\ pc = "memset" /\ n > 0
    /\ mem' = [mem EXCEPT ![tmp_to] = Value]
    /\ touched' = touched \cup {tmp_to}
    /\ tmp_to' = tmp_to + 1 /\ n' = n - 1
    /\ UNCHANGED <<arguments, pc, rem, chunks, tmp_from>>

(* A test n >= 0 of an unsigned number never fails. *)
ForwardEnds_Unsigned ==
    /\ pc \in {"memcpy", "memset"} /\ n < 0
    /\ Goto("returned")
    /\ UNCHANGED <<arguments, mem, n, rem, chunks, tmp_to, tmp_from, touched>>

ForwardEnds ==
    /\ pc \in {"memcpy", "memset"} /\ n = 0
    /\ Goto("returned")
    /\ UNCHANGED <<arguments, mem, n, rem, chunks, tmp_to, tmp_from, touched>>

(* memmove up to its first goto. *)
GoesForward == from >= to

Memmove ==
    /\ pc = "memmove"
    /\ IF GoesForward THEN Goto("memcpy") /\ UNCHANGED <<rem, chunks, tmp_to, tmp_from>>
       ELSE /\ chunks' = n \div 8
            /\ tmp_from' = from + n /\ tmp_to' = to + n
            /\ rem' = IF n \div 8 > 0 THEN (to + n) % 4 ELSE rem
            /\ Goto(IF n \div 8 = 0 THEN "lessthan8"
                    ELSE IF (to + n) % 4 > 0 THEN "align" ELSE "copy_chunks")
    /\ UNCHANGED <<arguments, mem, n, touched>>

(* *--tmp_to = *--tmp_from *)
ByteFromTheEnd ==
    /\ mem' = [mem EXCEPT ![tmp_to - 1] = mem[tmp_from - 1]]
    /\ Touch(tmp_to - 1, tmp_from - 1, 1)
    /\ tmp_to' = tmp_to - 1 /\ tmp_from' = tmp_from - 1

(* align: it goes down by what the end lacks to a multiple of four, which   *)
(* does not make it one; only where the bytes are matters here.            *)
Align ==
    /\ pc = "align"
    /\ rem' = 4 - rem /\ n' = n - (4 - rem)
    /\ Goto("align bytes")
    /\ UNCHANGED <<arguments, mem, chunks, tmp_to, tmp_from, touched>>

AlignByte_KeepsChunks ==
    /\ pc = "align bytes"
    /\ ByteFromTheEnd
    /\ rem' = rem - 1
    /\ IF rem = 1 THEN Goto("copy_chunks") ELSE UNCHANGED pc
    /\ UNCHANGED <<arguments, n, chunks>>

AlignByte ==
    /\ pc = "align bytes"
    /\ ByteFromTheEnd
    /\ rem' = rem - 1
    /\ IF rem = 1
       THEN chunks' = n \div 8 /\ Goto(IF n \div 8 > 0 THEN "copy_chunks" ELSE "lessthan8")
       ELSE UNCHANGED <<chunks, pc>>
    /\ UNCHANGED <<arguments, n>>

(* copy_chunks: both words are loaded before either is stored. *)
CopyChunk_LowFirst ==
    /\ pc = "copy_chunks"
    /\ LET low == Stored(mem, tmp_to - 8, mem, tmp_from - 8, WordSize)
       IN  mem' = Stored(low, tmp_to - 4, low, tmp_from - 4, WordSize)
    /\ touched' = touched \cup Cells(tmp_to - 8, 4 + WordSize) \cup Cells(tmp_from - 8, 4 + WordSize)
    /\ tmp_to' = tmp_to - 8 /\ tmp_from' = tmp_from - 8
    /\ chunks' = chunks - 1
    /\ IF chunks = 1 THEN Goto("lessthan8") ELSE UNCHANGED pc
    /\ UNCHANGED <<arguments, n, rem>>

CopyChunk ==
    /\ pc = "copy_chunks"
    /\ LET high == Stored(mem, tmp_to - 4, mem, tmp_from - 4, WordSize)
       IN  mem' = Stored(high, tmp_to - 8, mem, tmp_from - 8, WordSize)
    /\ Touch(tmp_to - 8, tmp_from - 8, 4 + WordSize)
    /\ tmp_to' = tmp_to - 8 /\ tmp_from' = tmp_from - 8
    /\ chunks' = chunks - 1
    /\ IF chunks = 1 THEN Goto("lessthan8") ELSE UNCHANGED pc
    /\ UNCHANGED <<arguments, n, rem>>

(* lessthan8: a word if four bytes or more are left, then single bytes. *)
LessThan8 ==
    /\ pc = "lessthan8"
    /\ IF n % 8 >= 4
       THEN /\ mem' = Stored(mem, tmp_to - 4, mem, tmp_from - 4, WordSize)
            /\ Touch(tmp_to - 4, tmp_from - 4, WordSize)
            /\ tmp_to' = tmp_to - 4 /\ tmp_from' = tmp_from - 4
            /\ n' = (n % 8) - 4
       ELSE n' = n % 8 /\ UNCHANGED <<mem, touched, tmp_to, tmp_from>>
    /\ Goto(IF n % 4 = 0 THEN "returned" ELSE "last bytes")
    /\ UNCHANGED <<arguments, rem, chunks>>

LastByte_Twice ==
    /\ pc = "last bytes"
    /\ ByteFromTheEnd
    /\ n' = n - 1
    /\ IF n = 0 THEN Goto("returned") ELSE UNCHANGED pc
    /\ UNCHANGED <<arguments, rem, chunks>>

LastByte ==
    /\ pc = "last bytes"
    /\ ByteFromTheEnd
    /\ n' = n - 1
    /\ IF n = 1 THEN Goto("returned") ELSE UNCHANGED pc
    /\ UNCHANGED <<arguments, rem, chunks>>

Next == Memcpy \/ Memset \/ ForwardEnds \/ Memmove \/ Align \/ AlignByte \/ CopyChunk
        \/ LessThan8 \/ LastByte

Spec == Init /\ [][Next]_vars /\ WF_vars(Next)
-----------------------------------------------------------------------------
TypeOK ==
    /\ function \in {"memcpy", "memmove", "memset"}
    /\ to \in Address /\ from \in Address /\ len \in 0 .. MaxLength
    /\ mem \in [Address -> Address \cup {Value}]
    /\ pc \in {"memcpy", "memmove", "memset", "align", "align bytes", "copy_chunks",
               "lessthan8", "last bytes", "returned"}
    /\ n \in 0 .. MaxLength /\ rem \in 0 .. 3 /\ chunks \in 0 .. MaxLength \div 8
    /\ tmp_to \in Address /\ tmp_from \in Address
    /\ touched \subseteq Address

(* Going back, a word is stored at the last four bytes that are left: one of *)
(* eight bytes also covers the four bytes behind them.  When the two blocks  *)
(* are less than four bytes apart, these have been source bytes until now   *)
(* and are overwritten with bytes that have moved already.                  *)
GoesBack == function = "memmove" /\ ~GoesForward
Beyond == IF GoesBack /\ len >= 4 THEN WordSize - 4 ELSE 0
TooClose == GoesBack /\ len >= 8 /\ to - from < WordSize - 4

(* When a function returns, the destination holds what the source held at   *)
(* the call, however the two overlap, unless they are too close for words   *)
(* of eight bytes; no other byte has changed, but for the few beyond it.    *)
BytesAreMoved ==
    pc = "returned" =>
        \A a \in Address :
            /\ a \in Cells(to, len) /\ ~TooClose =>
                   mem[a] = IF function = "memset" THEN Value ELSE from + (a - to)
            /\ a \notin Cells(to, len + Beyond) => mem[a] = a

AccessesStayNear == touched \subseteq Cells(to, len + Beyond) \cup Cells(from, len + Beyond)

(* "sassert(sea_is_dereferenceable(dst, len))", and for src (bcmp.c, lines  *)
(* 142-143 and 161-162): len bytes at either pointer are all that is used.  *)
AccessesStayInside == touched \subseteq Cells(to, len) \cup Cells(from, len)

Returns == <>(pc = "returned")
=============================================================================
