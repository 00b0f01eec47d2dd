----------------------------- MODULE Allocation -----------------------------
(***************************************************************************)
(* What the aws_mem_* functions promise their callers.  Each client has a  *)
(* piece of memory of its own: a function from offsets to bytes, the empty  *)
(* one when it has none.  A call does what it says to that memory and       *)
(* answers "ok", or it answers with an error and changes nothing; no call   *)
(* touches the memory of another client.  Addresses, blocks and copies do  *)
(* not exist here.                                                         *)
(***************************************************************************)
EXTENDS Naturals

CONSTANTS
    Client,
    Byte,         \* the values of a byte, 0 is one
    SizeMax       \* the largest size_t

VARIABLES
    mem,          \* each client's memory
    answer        \* of the last call

vars == <<mem, answer>>

Nothing == [o \in {} |-> 0]
Bytes(n) == [0 .. n - 1 -> Byte]

Init == mem = [c \in Client |-> Nothing] /\ answer = "ok"

Gets(c, m) == mem' = [mem EXCEPT ![c] = m] /\ answer' = "ok"

Fails == UNCHANGED mem /\ answer' = "error"

(* New memory has any content. *)
Acquire(c, n) == mem[c] = Nothing /\ \E m \in Bytes(n) : Gets(c, m)

(* The offsets that stay keep their bytes, m has the bytes of the others. *)
Resize(c, n, m) ==
    Gets(c, [o \in 0 .. n - 1 |-> IF o \in DOMAIN mem[c] THEN mem[c][o] ELSE m[o]])

Zeroes(n) == [o \in 0 .. n - 1 |-> 0]

Calloc(c, n) == mem[c] = Nothing /\ Gets(c, Zeroes(n))

Realloc(c, n) == Resize(c, n, Zeroes(n))

(* The growing of an allocator that has a mem_realloc of its own. *)
Extend(c, n) == \E m \in Bytes(n) : Resize(c, n, m)

Release(c) == Gets(c, Nothing)

Write(c, o, b) ==
    /\ o \in DOMAIN mem[c]
    /\ Gets(c, [mem[c] EXCEPT ![o] = b])

Next ==
    \/ Fails
    \/ \E c \in Client :
           \/ Release(c)
           \/ \E n \in 0 .. SizeMax : Acquire(c, n) \/ Calloc(c, n) \/ Realloc(c, n) \/ Extend(c, n)
           \/ \E o \in 0 .. SizeMax, b \in Byte : Write(c, o, b)

Spec == Init /\ [][Next]_vars
=============================================================================
