--------------------------- MODULE ByteBufHelper ---------------------------
(***************************************************************************)
(* The helpers that build the inputs of the unit proofs: allocation of      *)
(* havocked memory, byte_buf_helper.c and string_helper.c in their SeaHorn, *)
(* KLEE and libFuzzer versions.  A helper is the set of what it may build:  *)
(* records [s, m] with a struct (or a pointer) and the content of the block *)
(* it points to, if any.                                                   *)
(***************************************************************************)
EXTENDS UnitProof

CONSTANTS
    MaxBufferSize,    \* MAX_BUFFER_SIZE, and KLEE_MAX_SIZE
    MaxStringLen      \* MAX_STRING_LEN

MaximaArePositive == MaxBufferSize \in Nat \ {0} /\ MaxStringLen \in Nat \ {0}

ForTool(sea, klee, fuzz) ==
    CASE tool = "sea" -> sea [] tool = "klee" -> klee [] tool = "fuzz" -> fuzz

Built(s, m) == [s |-> s, m |-> m]
NoBlock == <<>>
Nothing == {Built(Null, NoBlock)}
Contents(n) == [0 .. n - 1 -> Byte]
NewBlock(b, n) == {Built(StartOf(b), c) : c \in Contents(n)}

(* libFuzzer's is malloc itself, which may fail and gives a block for 0     *)
(* bytes too; SeaHorn's and KLEE's give NULL for 0.                        *)
FuzzMallocHavoc(b, n) == Nothing \cup NewBlock(b, n)

SeaCanFailMallocHavoc(b, n) == Nothing \cup (IF n = 0 THEN {} ELSE NewBlock(b, n))
SeaBoundedMallocHavoc(b, n) == IF n = 0 THEN Nothing ELSE NewBlock(b, n)

KleeBoundedMallocHavoc(b, n) == IF n = 0 THEN Nothing ELSE NewBlock(b, n)
KleeCanFailMallocHavoc(b, n) == Nothing \cup KleeBoundedMallocHavoc(b, n)

CanFailMallocHavoc(b, n) ==
    ForTool(SeaCanFailMallocHavoc(b, n), KleeCanFailMallocHavoc(b, n), FuzzMallocHavoc(b, n))

BoundedMallocHavoc(b, n) ==
    ForTool(SeaBoundedMallocHavoc(b, n), KleeBoundedMallocHavoc(b, n), FuzzMallocHavoc(b, n))

-----------------------------------------------------------------------------
(* byte_buf_helper.c: a buffer or cursor whose memory is block b.           *)

Buf(buffer, len, capacity, allocator) ==
    [buffer |-> buffer, len |-> len, capacity |-> capacity, allocator |-> allocator]

ZeroBuf == Buf(Null, 0, 0, "none")

SeaByteBufs_NeverFull(b) ==
    UNION {UNION {{Built(Buf(r.s, len, cap, "sea"), r.m) : len \in {n \in 0 .. cap : n = 0 \/ n < cap}} :
                      r \in SeaCanFailMallocHavoc(b, cap)} : cap \in 0 .. MaxBufferSize}

SeaByteBufs(b) ==
    UNION {UNION {{Built(Buf(r.s, len, cap, "sea"), r.m) : len \in 0 .. cap} :
                      r \in SeaCanFailMallocHavoc(b, cap)} : cap \in 0 .. MaxBufferSize}

KleeByteBufs(b) ==
    UNION {UNION {IF r.s = Null THEN {Built(Buf(Null, 0, 0, "sea"), r.m)}
                  ELSE {Built(Buf(r.s, len, cap, "sea"), r.m) : len \in 0 .. cap} :
                      r \in KleeCanFailMallocHavoc(b, cap)} : cap \in 0 .. MaxBufferSize}

FuzzByteBufs(b) ==
    LET Lens(cap) == IF cap = 0 THEN {0} ELSE {n % cap : n \in 0 .. SizeMax}
    IN  UNION {UNION {{Built(Buf(r.s, len, cap, "sea"), r.m) : len \in Lens(cap)} :
                          r \in FuzzMallocHavoc(b, cap)} :
                   cap \in {n % MaxBufferSize : n \in 0 .. SizeMax}}

InitializeByteBuf(b) == ForTool(SeaByteBufs(b), KleeByteBufs(b), FuzzByteBufs(b))

Cursor(ptr, len) == [ptr |-> ptr, len |-> len]
ZeroCursor == Cursor(Null, 0)

(* A cursor of len bytes points to a block of MAX_BUFFER_SIZE.              *)
SeaByteCursors(b) ==
    UNION {{Built(Cursor(r.s, len), r.m) : len \in 0 .. MaxBufferSize} :
               r \in SeaCanFailMallocHavoc(b, MaxBufferSize)}

KleeByteCursors(b) ==
    UNION {{Built(Cursor(r.s, len), r.m) : len \in IF r.s = Null THEN {0} ELSE 0 .. MaxBufferSize} :
               r \in KleeCanFailMallocHavoc(b, MaxBufferSize)}

FuzzByteCursors(b) ==
    UNION {{Built(Cursor(r.s, n % MaxBufferSize), r.m) : n \in 0 .. SizeMax} :
               r \in FuzzMallocHavoc(b, MaxBufferSize)}

InitializeByteCursor(b) == ForTool(SeaByteCursors(b), KleeByteCursors(b), FuzzByteCursors(b))

IsBounded(buf, max_size) == buf.capacity <= max_size
CursorIsBounded(cursor, max_size) == cursor.len <= max_size
HasAllocator(buf) == buf.allocator = "sea"

(* aws_byte_buf_is_valid and aws_byte_cursor_is_valid.                     *)
BufIsValid(buf) ==
    \/ buf.capacity = 0 /\ buf.len = 0 /\ buf.buffer = Null
    \/ buf.capacity > 0 /\ buf.len <= buf.capacity /\ buf.buffer # Null

CursorIsValid(cursor) == cursor.len = 0 \/ cursor.ptr # Null

ValidBufs(b) == {x \in InitializeByteBuf(b) : BufIsValid(x.s)}
ValidCursors(b) == {x \in InitializeByteCursor(b) : CursorIsValid(x.s)}

-----------------------------------------------------------------------------
(* string_helper.c: C strings.  len is what *len is set to; the helper does *)
(* not set it when it returns NULL, so that it is whatever it was.         *)

InitializedStr(len) == {c \in Contents(len + 1) : c[len] = 0 /\ \A i \in 0 .. len - 1 : c[i] # 0}

Str(p, m, len) == [s |-> p, m |-> m, len |-> len]

AllocatedStr(b, max_size) ==
    UNION {{Str(StartOf(b), c, len) : c \in InitializedStr(len)} : len \in 0 .. max_size - 1}

SeaCStr(b, max_size, before, safe) ==
    IF max_size > MaxStringLen THEN {}
    ELSE AllocatedStr(b, max_size) \cup (IF safe THEN {} ELSE {Str(Null, NoBlock, before)})

KleeCStr(b, max_size, before, safe) ==
    AllocatedStr(b, max_size) \cup (IF safe THEN {} ELSE {Str(Null, NoBlock, before)})

(* Zeroes become ones.  Without memory the run ends here, in assert(str).   *)
WithoutZeroes(c, len) == [i \in 0 .. len |-> IF i = len THEN 0 ELSE IF c[i] = 0 THEN 1 ELSE c[i]]

FuzzAllocatedStr(b, max_size) ==
    UNION {{Str(StartOf(b), WithoutZeroes(c, len), len) : c \in Contents(len)} :
               len \in {n % max_size : n \in 0 .. SizeMax}}

FuzzCStr(b, max_size, before, safe) ==
    FuzzAllocatedStr(b, max_size) \cup (IF safe THEN {} ELSE {Str(Null, NoBlock, before)})

EnsureCStr(b, max_size, before, safe) ==
    ForTool(SeaCStr(b, max_size, before, safe), KleeCStr(b, max_size, before, safe),
            FuzzCStr(b, max_size, before, safe))

EnsureCStrIsNdAllocated(b, max_size, before) == EnsureCStr(b, max_size, before, FALSE)
EnsureCStrIsNdAllocatedSafe(b, max_size) == EnsureCStr(b, max_size, 0, TRUE)

(* aws_string: len bytes of any value and a zero, in a block of their own.  *)
SeaString(b, len) ==
    {Built([bytes |-> StartOf(b), len |-> len, allocator |-> a], c) :
         a \in {"sea", "none"}, c \in {d \in Contents(len + 1) : d[len] = 0}}

KleeString(b, len) == SeaString(b, len)

(* memhavoc leaves out the last byte, which is then set.  It writes before   *)
(* the pointer is tested: without memory the run ends here.                *)
FuzzString(b, len) == SeaString(b, len)

EnsureStringIsAllocated(b, len) ==
    ForTool(SeaString(b, len), KleeString(b, len), FuzzString(b, len))

SeaStringBounded(b, max_size) == UNION {EnsureStringIsAllocated(b, len) : len \in 0 .. max_size - 1}

FuzzStringBounded(b, max_size) ==
    UNION {EnsureStringIsAllocated(b, n % max_size) : n \in 0 .. SizeMax}

EnsureStringBoundedLength(b, max_size) ==
    IF tool = "fuzz" THEN FuzzStringBounded(b, max_size) ELSE SeaStringBounded(b, max_size)

StringIsValid(str) == str.bytes # Null
-----------------------------------------------------------------------------
(* What the unit proofs of buffers, cursors, lists and strings share: how they *)
(* compare a struct with the one they saved, and parts of the library.       *)

SHalf == SizeMax \div 2

(* The state an assertion looks at. *)
IsValid(x) == BufIsValid(obj[x])
SavedBuf(x) == SaveByteFromArray(old.mem, old.obj[x].buffer, old.obj[x].len)
BufSame(x) == AssertByteBufEquivalence(mem, obj[x], old.obj[x], SavedBuf(x))
BytesMatch(p, q, n) == AssertBytesMatch(mem, p, q, n)
SameFields(x, fields) == \A f \in fields : obj[x][f] = old.obj[x][f]

(* A cursor passed by value or as a const pointer. *)
SavedArg(cursor) == SaveByteFromArray(old.mem, cursor.ptr, cursor.len)

Store(m, p, bytes, n) ==
    IF n = 0 THEN m
    ELSE [m EXCEPT ![p.block] =
              [i \in DOMAIN @ |-> IF i \in p.at .. p.at + n - 1 THEN bytes[i - p.at] ELSE @[i]]]

End(buf) == Plus(buf.buffer, buf.len)

Answers(r, answer) == [r EXCEPT !.ret = answer]
Same(answer) == Does(obj, mem, answer)

(* libFuzzer's malloc may refuse the bytes of an array; some unit proofs hand *)
(* it to the library as it is.                                             *)
Missing(p, n) == tool = "fuzz" /\ p = Null /\ n > 0

FromArray(p, n) == Buf(IF n = 0 THEN Null ELSE p, n, n, "none")

CursorBytes(cursor) == BytesAt(mem, cursor.ptr, cursor.len)

SameBytes(p, k, q, n) == k = n /\ BytesAt(mem, p, k) = BytesAt(mem, q, n)

Says(b) == {Same(IF b THEN "true" ELSE "false")}

(* Which bytes are the two cases of one letter is left open. *)
SaysIgnoringCase(p, k, q, n) ==
    Says(SameBytes(p, k, q, n)) \cup (IF k = n THEN Says(TRUE) ELSE {})

BigEndian(x, n) == [i \in 0 .. n - 1 |-> x[n - 1 - i]]
=============================================================================
