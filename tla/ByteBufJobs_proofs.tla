------------------------- MODULE ByteBufJobs_proofs -------------------------
(***************************************************************************)
(* Proofs about the unit proofs of byte buffers, for every value of the    *)
(* maxima (MAX_BUFFER_SIZE, MAX_STRING_LEN, the largest size_t, ...), every *)
(* set of bytes and the three tools.  Jobs_proofs makes theorems of the     *)
(* specification Jobs of them.                                             *)
(*                                                                         *)
(* The argument: what the helpers of the tools build is valid (lemmas on    *)
(* InitializeByteBuf, ValidBufs, the strings and the arrays); so each       *)
(* unit proof reaches its call with valid inputs (BufGiven); what a         *)
(* correct function leaves of those is what the assertions of both          *)
(* generations of the unit proof say, and again a buffer with all its bytes *)
(* (BufRight).  BufInv puts the two together by pc and is inductive.        *)
(*                                                                         *)
(* With one mistake at most (FaultInv): Wants says, proof by proof, what a  *)
(* correct function leaves at the places that the unit proof watches; the   *)
(* lemmas ...Sees, that a mistake at one of these fails an assertion; the   *)
(* lemmas First..., that KindKept is all the second generation overlooks.   *)
(***************************************************************************)
EXTENDS ByteBufJobs, TLAPS

-----------------------------------------------------------------------------
(* Watched bytes: block b of memory m holds at least n bytes. *)

Null == [block |-> "null", at |-> 0]
Start(b) == [block |-> b, at |-> 0]

ByteBlock(B, n) == [0 .. n - 1 -> B]

(* Numbers that the largest size_t is far above. *)
LEMMA BufConstants ==
    /\ MaxBuf \in Nat /\ MaxBuf > 0 /\ MaxStringLen \in Nat /\ MaxStringLen > 0
    /\ BufSizeMax \in Nat
    /\ Tools \subseteq {"sea", "klee", "fuzz"} /\ MaxFaults \in Nat
    /\ 0 \in Byte /\ 1 \in Byte
    /\ 2 * MaxBuf <= BufSizeMax /\ MaxStringLen <= BufSizeMax
    /\ {Be16, Be32, Be64} \subseteq Nat \ {0}
BY BufMaximaMakeSense DEF ByteBuf!BitsAreBytes, ByteBuf!BuffersAreShort, ByteBuf!WidthsArePositive,
    Proof!ToolsAreKnown, Proof!MaxFaultsIsNat, Proof!SizeMaxIsNat,
    ByteBuf!MaximaArePositive

LEMMA NullIs == ByteBuf!Null = Null /\ \A b : ByteBuf!StartOf(b) = Start(b)
BY DEF ByteBuf!Null, ByteBuf!StartOf, Null, Start

LEMMA StartIsNotNull == ASSUME NEW b, b # "null" PROVE Start(b) # Null
BY DEF Start, Null

LEMMA PlusIs ==
    ASSUME NEW b, NEW i \in Int
    PROVE  /\ ByteBuf!Plus(Start(b), i).block = b /\ ByteBuf!Plus(Start(b), i).at = i
           /\ ByteBuf!Plus(Start(b), i) = [block |-> b, at |-> i]
BY DEF ByteBuf!Plus, Start

(* A byte of a block. *)
LEMMA ByteIs ==
    ASSUME NEW m, NEW b, NEW i \in Int
    PROVE  ByteBuf!ByteAt(m, ByteBuf!Plus(Start(b), i)) = m[b][i]
BY PlusIs DEF ByteBuf!ByteAt

LEMMA HasByteIs ==
    ASSUME NEW m, NEW b, NEW i \in Int, NEW c, b \in DOMAIN m, i \in DOMAIN m[b], m[b][i] = c
    PROVE  ByteBuf!HasByte(m, ByteBuf!Plus(Start(b), i), c)
BY PlusIs, ByteIs DEF ByteBuf!HasByte, ByteBuf!Readable

(* What was saved of n bytes matches wherever these bytes are. *)
LEMMA SavedMatches ==
    ASSUME NEW m, NEW m2, NEW b, NEW b2, NEW n \in Nat, b # "null", n > 0,
           b2 \in DOMAIN m2, \A i \in 0 .. n - 1 : i \in DOMAIN m2[b2] /\ m2[b2][i] = m[b][i]
    PROVE  ByteBuf!AllMatch(m2, Start(b2), ByteBuf!SaveByteFromArray(m, Start(b), n))
<1> SUFFICES ASSUME NEW s \in ByteBuf!SaveByteFromArray(m, Start(b), n)
             PROVE  ByteBuf!AssertByteFromBufferMatches(m2, Start(b2), s)
  BY DEF ByteBuf!AllMatch
<1>1. PICK i \in 0 .. n - 1 : s = [index |-> i, byte |-> ByteBuf!ByteAt(m, ByteBuf!Plus(Start(b), i))]
  BY NullIs, StartIsNotNull DEF ByteBuf!SaveByteFromArray
<1>2. s.index = i /\ s.byte = m2[b2][i] /\ i \in DOMAIN m2[b2]
  BY <1>1, ByteIs
<1> QED BY <1>2, HasByteIs DEF ByteBuf!AssertByteFromBufferMatches

LEMMA BytesMatchIs ==
    ASSUME NEW m, NEW b, NEW b2, NEW k \in Nat, NEW k2 \in Nat, NEW n \in Nat,
           n > 0 => /\ b # "null" /\ b2 # "null" /\ b \in DOMAIN m /\ b2 \in DOMAIN m
                    /\ \A i \in 0 .. n - 1 : k + i \in DOMAIN m[b] /\ k2 + i \in DOMAIN m[b2]
                                             /\ m[b][k + i] = m[b2][k2 + i]
    PROVE  ByteBuf!AssertBytesMatch(m, [block |-> b, at |-> k], [block |-> b2, at |-> k2], n)
<1> DEFINE p == [block |-> b, at |-> k]
           q == [block |-> b2, at |-> k2]
<1>1. CASE n = 0
  BY <1>1 DEF ByteBuf!AssertBytesMatch
<1>2. CASE n > 0
  <2>1. p # ByteBuf!Null /\ q # ByteBuf!Null
    BY <1>2 DEF ByteBuf!Null
  <2>2. ASSUME NEW i \in 0 .. n - 1
        PROVE  ByteBuf!Readable(m, ByteBuf!Plus(q, i), 1)
               /\ ByteBuf!HasByte(m, ByteBuf!Plus(p, i), ByteBuf!ByteAt(m, ByteBuf!Plus(q, i)))
    <3>1. ByteBuf!Plus(q, i) = [block |-> b2, at |-> k2 + i] /\ ByteBuf!Plus(p, i) = [block |-> b, at |-> k + i]
      BY DEF ByteBuf!Plus
    <3>2. k + i \in DOMAIN m[b] /\ k2 + i \in DOMAIN m[b2] /\ m[b][k + i] = m[b2][k2 + i]
      BY <1>2
    <3>3. b \in DOMAIN m /\ b2 \in DOMAIN m
      BY <1>2
    <3> QED BY <3>1, <3>2, <3>3 DEF ByteBuf!Readable, ByteBuf!HasByte, ByteBuf!ByteAt
  <2> QED BY <1>2, <2>1, <2>2 DEF ByteBuf!AssertBytesMatch
<1> QED BY <1>1, <1>2

-----------------------------------------------------------------------------
(* What the helpers build. *)

BufOf(x, b) ==
    /\ x \in [buffer : {Null, Start(b)}, len : Nat, capacity : 0 .. MaxBuf, allocator : {"sea"}]
    /\ x.len <= x.capacity

(* Block b of m holds n bytes. *)
Holds(m, b, n) == b \in DOMAIN m /\ m[b] \in ByteBlock(Byte, n)

ValidBuf(x, m, b) ==
    /\ BufOf(x, b)
    /\ x.capacity = 0 <=> x.buffer = Null
    /\ Holds(m, b, x.capacity)

ValidCursor(x, m, b) ==
    /\ x \in [ptr : {Null, Start(b)}, len : 0 .. MaxBuf]
    /\ x.len > 0 => x.ptr = Start(b) /\ Holds(m, b, MaxBuf)

MemOK(m) == \A b \in DOMAIN m : \E n \in 0 .. BufSizeMax : m[b] \in ByteBlock(Byte, n)

LEMMA NoBlockIs == <<>> \in ByteBlock(Byte, 0)
BY DEF ByteBlock

LEMMA HavocIs ==
    ASSUME NEW b, NEW k \in Nat,
           NEW r \in ByteBuf!SeaCanFailMallocHavoc(b, k) \cup ByteBuf!KleeCanFailMallocHavoc(b, k)
                         \cup ByteBuf!FuzzMallocHavoc(b, k)
    PROVE  \/ r.s = Null /\ r.m = <<>>
           \/ r.s = Start(b) /\ r.m \in ByteBlock(Byte, k)
BY NullIs DEF ByteBuf!SeaCanFailMallocHavoc, ByteBuf!KleeCanFailMallocHavoc, ByteBuf!FuzzMallocHavoc,
       ByteBuf!KleeBoundedMallocHavoc, ByteBuf!NewBlock, ByteBuf!Nothing, ByteBuf!Built,
       ByteBuf!NoBlock, ByteBuf!Contents, ByteBlock

(* A buffer of a helper. *)
LEMMA BufsAre ==
    ASSUME tool \in Tools, NEW b, b # "null", NEW x \in ByteBuf!InitializeByteBuf(b)
    PROVE  /\ BufOf(x.s, b)
           /\ x.s.buffer = Null => x.m = <<>>
           /\ x.s.buffer = Start(b) => x.m \in ByteBlock(Byte, x.s.capacity)
<1> DEFINE Good == /\ BufOf(x.s, b)
                   /\ x.s.buffer = Null => x.m = <<>>
                   /\ x.s.buffer = Start(b) => x.m \in ByteBlock(Byte, x.s.capacity)
<1>1. ASSUME NEW cap \in 0 .. MaxBuf, NEW len \in 0 .. cap,
             NEW r \in ByteBuf!SeaCanFailMallocHavoc(b, cap) \cup ByteBuf!KleeCanFailMallocHavoc(b, cap)
                         \cup ByteBuf!FuzzMallocHavoc(b, cap),
             x = ByteBuf!Built(ByteBuf!Buf(r.s, len, cap, "sea"), r.m)
      PROVE  Good
  <2>1. x.s = [buffer |-> r.s, len |-> len, capacity |-> cap, allocator |-> "sea"] /\ x.m = r.m
    BY <1>1 DEF ByteBuf!Built, ByteBuf!Buf
  <2>2. \/ r.s = Null /\ r.m = <<>>
        \/ r.s = Start(b) /\ r.m \in ByteBlock(Byte, cap)
    BY <1>1, HavocIs, BufConstants
  <2>3. BufOf(x.s, b)
    BY <2>1, <2>2 DEF BufOf
  <2> QED BY <2>1, <2>2, <2>3, StartIsNotNull
<1>2. ASSUME tool = "sea" PROVE Good
  <2>1. PICK cap \in 0 .. MaxBuf : \E r \in ByteBuf!SeaCanFailMallocHavoc(b, cap), len \in 0 .. cap :
            x = ByteBuf!Built(ByteBuf!Buf(r.s, len, cap, "sea"), r.m)
    BY <1>2 DEF ByteBuf!InitializeByteBuf, ByteBuf!ForTool, ByteBuf!SeaByteBufs
  <2> QED BY <1>1, <2>1
<1>3. ASSUME tool = "klee" PROVE Good
  <2>1. PICK cap \in 0 .. MaxBuf : \E r \in ByteBuf!KleeCanFailMallocHavoc(b, cap) :
            x \in IF r.s = ByteBuf!Null THEN {ByteBuf!Built(ByteBuf!Buf(ByteBuf!Null, 0, 0, "sea"), r.m)}
                  ELSE {ByteBuf!Built(ByteBuf!Buf(r.s, len, cap, "sea"), r.m) : len \in 0 .. cap}
    BY <1>3 DEF ByteBuf!InitializeByteBuf, ByteBuf!ForTool, ByteBuf!KleeByteBufs
  <2>2. PICK r \in ByteBuf!KleeCanFailMallocHavoc(b, cap) :
            x \in IF r.s = ByteBuf!Null THEN {ByteBuf!Built(ByteBuf!Buf(ByteBuf!Null, 0, 0, "sea"), r.m)}
                  ELSE {ByteBuf!Built(ByteBuf!Buf(r.s, len, cap, "sea"), r.m) : len \in 0 .. cap}
    BY <2>1
  <2>3. CASE r.s = ByteBuf!Null
    <3>1. r \in ByteBuf!KleeCanFailMallocHavoc(b, 0) /\ 0 \in 0 .. MaxBuf /\ 0 \in 0 .. 0
      BY <2>3, BufConstants, HavocIs, StartIsNotNull, NullIs DEF ByteBuf!KleeCanFailMallocHavoc, ByteBuf!Nothing,
          ByteBuf!Built, ByteBuf!KleeBoundedMallocHavoc, ByteBuf!NewBlock
    <3>2. x = ByteBuf!Built(ByteBuf!Buf(r.s, 0, 0, "sea"), r.m)
      BY <2>2, <2>3
    <3> QED BY <1>1, <3>1, <3>2
  <2>4. CASE r.s # ByteBuf!Null
    <3>1. PICK len \in 0 .. cap : x = ByteBuf!Built(ByteBuf!Buf(r.s, len, cap, "sea"), r.m)
      BY <2>2, <2>4
    <3> QED BY <1>1, <3>1
  <2> QED BY <2>3, <2>4
<1>4. ASSUME tool = "fuzz" PROVE Good
  <2>1. PICK cap \in {n % MaxBuf : n \in 0 .. BufSizeMax} : \E r \in ByteBuf!FuzzMallocHavoc(b, cap) :
            \E len \in IF cap = 0 THEN {0} ELSE {n % cap : n \in 0 .. BufSizeMax} :
                x = ByteBuf!Built(ByteBuf!Buf(r.s, len, cap, "sea"), r.m)
    BY <1>4 DEF ByteBuf!InitializeByteBuf, ByteBuf!ForTool, ByteBuf!FuzzByteBufs
  <2>2. cap \in 0 .. MaxBuf
    BY BufConstants
  <2>3. PICK r \in ByteBuf!FuzzMallocHavoc(b, cap), len \in IF cap = 0 THEN {0} ELSE {n % cap : n \in 0 .. BufSizeMax} :
                x = ByteBuf!Built(ByteBuf!Buf(r.s, len, cap, "sea"), r.m)
    BY <2>1
  <2>4. len \in 0 .. cap
    BY <2>2, BufConstants
  <2> QED BY <1>1, <2>2, <2>3, <2>4
<1> QED BY <1>2, <1>3, <1>4, BufConstants

LEMMA ValidBufsAre ==
    ASSUME tool \in Tools, NEW b, b # "null", NEW x \in ByteBuf!ValidBufs(b),
           NEW m, b \in DOMAIN m, m[b] = x.m
    PROVE  ValidBuf(x.s, m, b)
<1>1. x \in ByteBuf!InitializeByteBuf(b) /\ ByteBuf!BufIsValid(x.s)
  BY DEF ByteBuf!ValidBufs
<1>2. BufOf(x.s, b) /\ (x.s.buffer = Null => x.m = <<>>)
      /\ (x.s.buffer = Start(b) => x.m \in ByteBlock(Byte, x.s.capacity))
  BY <1>1, BufsAre
<1>3. x.s.capacity = 0 <=> x.s.buffer = Null
  BY <1>1, <1>2, NullIs DEF ByteBuf!BufIsValid, BufOf
<1>4. m[b] \in ByteBlock(Byte, x.s.capacity)
  BY <1>2, <1>3, NoBlockIs, BufConstants DEF BufOf
<1> QED BY <1>2, <1>3, <1>4 DEF ValidBuf, Holds

(* And a cursor. *)
LEMMA CursorsAre ==
    ASSUME tool \in Tools, NEW b, b # "null", NEW x \in ByteBuf!ValidCursors(b),
           NEW m, b \in DOMAIN m, m[b] = x.m
    PROVE  ValidCursor(x.s, m, b) /\ (m[b] = <<>> \/ m[b] \in ByteBlock(Byte, MaxBuf))
<1>1. x \in ByteBuf!InitializeByteCursor(b) /\ ByteBuf!CursorIsValid(x.s)
  BY DEF ByteBuf!ValidCursors
<1>2. PICK r \in ByteBuf!SeaCanFailMallocHavoc(b, MaxBuf) \cup ByteBuf!KleeCanFailMallocHavoc(b, MaxBuf)
                         \cup ByteBuf!FuzzMallocHavoc(b, MaxBuf), len \in 0 .. MaxBuf :
          x = ByteBuf!Built(ByteBuf!Cursor(r.s, len), r.m)
  <2>1. CASE tool = "sea"
    <3>1. PICK r \in ByteBuf!SeaCanFailMallocHavoc(b, MaxBuf), len \in 0 .. MaxBuf :
              x = ByteBuf!Built(ByteBuf!Cursor(r.s, len), r.m)
      BY <1>1, <2>1 DEF ByteBuf!InitializeByteCursor, ByteBuf!ForTool, ByteBuf!SeaByteCursors
    <3> QED BY <3>1
  <2>2. CASE tool = "klee"
    <3>1. PICK r \in ByteBuf!KleeCanFailMallocHavoc(b, MaxBuf) :
              \E len \in IF r.s = ByteBuf!Null THEN {0} ELSE 0 .. MaxBuf :
                  x = ByteBuf!Built(ByteBuf!Cursor(r.s, len), r.m)
      BY <1>1, <2>2 DEF ByteBuf!InitializeByteCursor, ByteBuf!ForTool, ByteBuf!KleeByteCursors
    <3> QED BY <3>1, BufConstants
  <2>3. CASE tool = "fuzz"
    <3>1. PICK r \in ByteBuf!FuzzMallocHavoc(b, MaxBuf), n \in 0 .. BufSizeMax :
              x = ByteBuf!Built(ByteBuf!Cursor(r.s, n % MaxBuf), r.m)
      BY <1>1, <2>3 DEF ByteBuf!InitializeByteCursor, ByteBuf!ForTool, ByteBuf!FuzzByteCursors
    <3>2. n % MaxBuf \in 0 .. MaxBuf
      BY BufConstants
    <3> QED BY <3>1, <3>2
  <2> QED BY <2>1, <2>2, <2>3, BufConstants
<1>3. x.s = [ptr |-> r.s, len |-> len] /\ x.m = r.m
  BY <1>2 DEF ByteBuf!Built, ByteBuf!Cursor
<1>4. \/ r.s = Null /\ r.m = <<>>
      \/ r.s = Start(b) /\ r.m \in ByteBlock(Byte, MaxBuf)
  BY HavocIs, BufConstants
<1>5. x.s.len = 0 \/ x.s.ptr # Null
  BY <1>1, NullIs DEF ByteBuf!CursorIsValid
<1> QED BY <1>3, <1>4, <1>5 DEF ValidCursor, Holds

(* An array of n bytes, and the two kinds of strings. *)
ArrayIn(p, m, b, n) == p \in {Null, Start(b)} /\ (n > 0 => p = Start(b) /\ Holds(m, b, n))

LEMMA ArraysAre ==
    ASSUME tool \in Tools, NEW b, b # "null", NEW n \in Nat, NEW x \in ByteBuf!BoundedMallocHavoc(b, n),
           NEW m, b \in DOMAIN m, m[b] = x.m
    PROVE  \/ ArrayIn(x.s, m, b, n) /\ m[b] \in ByteBlock(Byte, n)
           \/ tool = "fuzz" /\ x.s = Null /\ n > 0 /\ m[b] \in ByteBlock(Byte, 0)
<1>1. \/ x.s = Null /\ x.m = <<>> /\ (n = 0 \/ (tool = "fuzz" /\ n > 0))
      \/ x.s = Start(b) /\ x.m \in ByteBlock(Byte, n)
  <2>1. ASSUME x \in ByteBuf!NewBlock(b, n) PROVE x.s = Start(b) /\ x.m \in ByteBlock(Byte, n)
    BY <2>1, NullIs DEF ByteBuf!NewBlock, ByteBuf!Built, ByteBuf!Contents, ByteBlock
  <2>2. ASSUME x \in ByteBuf!Nothing PROVE x.s = Null /\ x.m = <<>>
    BY <2>2, NullIs DEF ByteBuf!Nothing, ByteBuf!Built, ByteBuf!NoBlock
  <2>3. x \in ByteBuf!NewBlock(b, n) \/ (x \in ByteBuf!Nothing /\ (n = 0 \/ tool = "fuzz"))
    <3>1. CASE tool = "sea"
      BY <3>1 DEF ByteBuf!BoundedMallocHavoc, ByteBuf!ForTool, ByteBuf!SeaBoundedMallocHavoc
    <3>2. CASE tool = "klee"
      BY <3>2 DEF ByteBuf!BoundedMallocHavoc, ByteBuf!ForTool, ByteBuf!KleeBoundedMallocHavoc
    <3>3. CASE tool = "fuzz"
      BY <3>3 DEF ByteBuf!BoundedMallocHavoc, ByteBuf!ForTool, ByteBuf!FuzzMallocHavoc
    <3> QED BY <3>1, <3>2, <3>3, BufConstants
  <2> QED BY <2>1, <2>2, <2>3
<1> QED BY <1>1, NoBlockIs, StartIsNotNull DEF ArrayIn, Holds

CStrOf(x, b, max) ==
    \/ x.s = Null /\ x.len = 0 /\ x.m = <<>>
    \/ x.s = Start(b) /\ x.len \in 0 .. max - 1 /\ x.m \in ByteBlock(Byte, x.len + 1)

LEMMA CStrsAre ==
    ASSUME tool \in Tools, NEW b, NEW max \in Nat, max > 0, NEW safe \in BOOLEAN,
           NEW x \in ByteBuf!EnsureCStr(b, max, 0, safe)
    PROVE  CStrOf(x, b, max) /\ (safe => x.s = Start(b))
<1>1. ASSUME NEW y \in ByteBuf!AllocatedStr(b, max)
      PROVE  CStrOf(y, b, max) /\ y.s = Start(b)
  <2>1. PICK len \in 0 .. max - 1 : \E c \in ByteBuf!InitializedStr(len) : y = ByteBuf!Str(Start(b), c, len)
    BY <1>1, NullIs DEF ByteBuf!AllocatedStr
  <2>2. PICK c \in ByteBuf!InitializedStr(len) : y = ByteBuf!Str(Start(b), c, len)
    BY <2>1
  <2>3. y.s = Start(b) /\ y.m = c /\ y.len = len
    BY <2>2 DEF ByteBuf!Str
  <2>4. c \in ByteBlock(Byte, len + 1)
    BY DEF ByteBuf!InitializedStr, ByteBuf!Contents, ByteBlock
  <2> QED BY <2>3, <2>4 DEF CStrOf
<1>2. ASSUME NEW y, y = ByteBuf!Str(ByteBuf!Null, ByteBuf!NoBlock, 0) PROVE CStrOf(y, b, max)
  BY <1>2, NullIs DEF ByteBuf!Str, ByteBuf!NoBlock, CStrOf
<1>3. CASE tool \in {"sea", "klee"}
  <2>1. x \in ByteBuf!AllocatedStr(b, max) \cup (IF safe THEN {} ELSE {ByteBuf!Str(ByteBuf!Null, ByteBuf!NoBlock, 0)})
    BY <1>3, BufConstants DEF ByteBuf!EnsureCStr, ByteBuf!ForTool, ByteBuf!SeaCStr, ByteBuf!KleeCStr
  <2> QED BY <2>1, <1>1, <1>2
<1>4. CASE tool = "fuzz"
  <2>1. CASE x \notin ByteBuf!FuzzAllocatedStr(b, max)
    <3>1. x = ByteBuf!Str(ByteBuf!Null, ByteBuf!NoBlock, 0) /\ ~safe
      BY <1>4, <2>1 DEF ByteBuf!EnsureCStr, ByteBuf!ForTool, ByteBuf!FuzzCStr
    <3> QED BY <1>2, <3>1
  <2>2. CASE x \in ByteBuf!FuzzAllocatedStr(b, max)
    <3>1. PICK n \in 0 .. BufSizeMax : \E c \in ByteBuf!Contents(n % max) :
              x = ByteBuf!Str(ByteBuf!StartOf(b), ByteBuf!WithoutZeroes(c, n % max), n % max)
      BY <2>2 DEF ByteBuf!FuzzAllocatedStr
    <3> DEFINE len == n % max
    <3>2. len \in 0 .. max - 1
      BY BufConstants
    <3>3. PICK c \in ByteBuf!Contents(len) :
              x = ByteBuf!Str(ByteBuf!StartOf(b), ByteBuf!WithoutZeroes(c, len), len)
      BY <3>1
    <3> HIDE DEF len
    <3>4. ByteBuf!WithoutZeroes(c, len) \in ByteBlock(Byte, len + 1)
      <4>1. ASSUME NEW i \in 0 .. len PROVE (IF i = len THEN 0 ELSE IF c[i] = 0 THEN 1 ELSE c[i]) \in Byte
        BY <3>2, BufConstants DEF ByteBuf!Contents
      <4>2. (len + 1) - 1 = len
        BY <3>2
      <4> QED BY <4>1, <4>2 DEF ByteBuf!WithoutZeroes, ByteBlock
    <3>5. x.s = Start(b) /\ x.m = ByteBuf!WithoutZeroes(c, len) /\ x.len = len
      BY <3>3, NullIs DEF ByteBuf!Str
    <3> QED BY <3>2, <3>4, <3>5 DEF CStrOf
  <2> QED BY <2>1, <2>2
<1> QED BY <1>3, <1>4, BufConstants

LEMMA SafeCStrsAre ==
    ASSUME tool \in Tools, NEW b, NEW max \in Nat, max > 0, NEW x \in ByteBuf!EnsureCStr(b, max, 0, TRUE)
    PROVE  CStrOf(x, b, max) /\ x.s = Start(b)
<1>1. TRUE \in BOOLEAN
  OBVIOUS
<1> QED BY <1>1, CStrsAre, Zenon

LEMMA UnsafeCStrsAre ==
    ASSUME tool \in Tools, NEW b, NEW max \in Nat, max > 0, NEW x \in ByteBuf!EnsureCStr(b, max, 0, FALSE)
    PROVE  CStrOf(x, b, max)
<1>1. FALSE \in BOOLEAN
  OBVIOUS
<1> QED BY <1>1, CStrsAre, Zenon

LEMMA StringsAre ==
    ASSUME tool \in Tools, NEW b, NEW max \in Nat, max > 0,
           NEW x \in ByteBuf!EnsureStringBoundedLength(b, max)
    PROVE  /\ x.s.bytes = Start(b) /\ x.s.len \in 0 .. max - 1
           /\ x.m \in ByteBlock(Byte, x.s.len + 1)
<1>1. PICK len \in 0 .. max - 1 : x \in ByteBuf!SeaString(b, len)
  <2>1. CASE tool = "fuzz"
    <3>1. PICK n \in 0 .. BufSizeMax : x \in ByteBuf!EnsureStringIsAllocated(b, n % max)
      BY <2>1 DEF ByteBuf!EnsureStringBoundedLength, ByteBuf!FuzzStringBounded
    <3>2. n % max \in 0 .. max - 1
      BY BufConstants
    <3> QED BY <2>1, <3>1, <3>2 DEF ByteBuf!EnsureStringIsAllocated, ByteBuf!ForTool, ByteBuf!FuzzString
  <2>2. CASE tool # "fuzz"
    <3>1. PICK len \in 0 .. max - 1 : x \in ByteBuf!EnsureStringIsAllocated(b, len)
      BY <2>2 DEF ByteBuf!EnsureStringBoundedLength, ByteBuf!SeaStringBounded
    <3> QED BY <2>2, <3>1, BufConstants DEF ByteBuf!EnsureStringIsAllocated, ByteBuf!ForTool, ByteBuf!KleeString
  <2> QED BY <2>1, <2>2
<1>2. PICK a \in {"sea", "none"}, c \in {d \in ByteBuf!Contents(len + 1) : d[len] = 0} :
          x = ByteBuf!Built([bytes |-> ByteBuf!StartOf(b), len |-> len, allocator |-> a], c)
  BY <1>1 DEF ByteBuf!SeaString
<1> QED BY <1>2, NullIs DEF ByteBuf!Built, ByteBuf!Contents, ByteBlock

-----------------------------------------------------------------------------
(* What each unit proof is given. *)

Typed(bytes) == \E n \in 0 .. BufSizeMax : bytes \in ByteBlock(Byte, n)
TypedMemory(m) == "null" \notin DOMAIN m /\ \A b \in DOMAIN m : Typed(m[b])

Shaped(x) == x.len \in Nat /\ x.capacity \in 0 .. BufSizeMax /\ x.len <= x.capacity

(* Bytes that are only read: n of them, or no pointer. *)
Source(p, n, m, b) ==
    /\ p \in {Null, Start(b)}
    /\ n > 0 => p = Start(b) /\ b \in DOMAIN m /\ \E k \in Nat : k >= n /\ m[b] \in ByteBlock(Byte, k)

SourceCursor(x, m, b) == x.len \in 0 .. MaxBuf /\ Source(x.ptr, x.len, m, b)

OneGiven == old.obj = [buf |-> old.obj.buf] /\ DOMAIN old.mem = {"buf"} /\ ValidBuf(old.obj.buf, old.mem, "buf")
IntegerGiven(width) == OneGiven /\ arg.width = width /\ arg.x \in ByteBlock(Byte, width)

AdvanceGiven ==
    DOMAIN old.obj = {"buf", "output"} /\ ValidBuf(old.obj.buf, old.mem, "buf") /\ arg.len \in Nat

AppendGiven ==
    /\ old.obj = [to |-> old.obj.to] /\ DOMAIN old.mem = {"to", "from"}
    /\ ValidBuf(old.obj.to, old.mem, "to") /\ SourceCursor(arg.from, old.mem, "from")

LookupGiven == AppendGiven /\ arg.table \in [Byte -> Byte]

CatGiven ==
    /\ DOMAIN old.obj = {"dest", "buffer1", "buffer2", "buffer3"}
    /\ old.obj = [x \in DOMAIN old.obj |-> old.obj[x]]
    /\ \A x \in DOMAIN old.obj : ValidBuf(old.obj[x], old.mem, x)

LhsRhsGiven ==
    /\ DOMAIN old.obj = {"lhs", "rhs"}
    /\ ValidBuf(old.obj.lhs, old.mem, "lhs")
    /\ \/ old.obj.rhs = old.obj.lhs /\ "rhs" \notin DOMAIN old.mem
       \/ ValidBuf(old.obj.rhs, old.mem, "rhs")

StrGiven ==
    /\ DOMAIN old.obj = {"buf"} /\ ValidBuf(old.obj.buf, old.mem, "buf")
    /\ arg.len \in 0 .. MaxBuf /\ arg.c_str = Start("c_str") /\ Source(arg.c_str, arg.len, old.mem, "c_str")

ArrayGiven ==
    /\ DOMAIN old.obj = {"buf"} /\ arg.length \in 0 .. MaxBuf
    /\ Source(arg.array, arg.length, old.mem, "array") \/ ByteBuf!Missing(arg.array, arg.length)

FromStrGiven ==
    DOMAIN old.obj = {"buf"} /\ arg.len \in 0 .. MaxBuf /\ Source(arg.c_str, arg.len, old.mem, "c_str")

InitGiven == DOMAIN old.obj = {"buf"} /\ DOMAIN old.mem = {"buf"} /\ arg.capacity \in 0 .. MaxBuf

CopyGiven ==
    /\ old.obj = [dest |-> ByteBuf!ZeroBuf, src |-> old.obj.src] /\ DOMAIN old.mem = {"src"}
    /\ ValidBuf(old.obj.src, old.mem, "src")

CopyCursorGiven ==
    DOMAIN old.obj = {"buf"} /\ DOMAIN old.mem = {"buf", "cursor"} /\ SourceCursor(arg.cursor, old.mem, "cursor")

WriteGiven(p, n, b) ==
    /\ old.obj = [buf |-> old.obj.buf] /\ ValidBuf(old.obj.buf, old.mem, "buf")
    /\ n \in Nat /\ Source(p, n, old.mem, b)

(* The unit proofs of buffers, and what each is given. *)
BufProofs ==
    {"advance", "append", "append_dynamic", "append_with_lookup", "cat", "clean_up", "clean_up_secure",
     "eq", "eq_ignore_case", "eq_c_str", "eq_c_str_ignore_case", "from_array", "from_empty_array", "from_c_str",
     "init", "init_copy", "init_copy_from_cursor", "reserve", "reserve_relative", "reset", "secure_zero",
     "write", "write_be16", "write_be32", "write_be64", "write_u8", "write_from_whole_buffer",
     "write_from_whole_cursor", "write_from_whole_string"}

BufGiven ==
    /\ proof \in BufProofs
    /\ TypedMemory(old.mem)
    /\ \A x \in DOMAIN old.obj : Shaped(old.obj[x])
    /\ proof = "advance" => AdvanceGiven
    /\ proof \in {"append", "append_dynamic"} => AppendGiven
    /\ proof = "append_with_lookup" => LookupGiven
    /\ proof = "cat" => CatGiven
    /\ proof \in {"clean_up", "clean_up_secure"} => OneGiven
    /\ proof \in {"eq", "eq_ignore_case"} => LhsRhsGiven
    /\ proof \in {"eq_c_str", "eq_c_str_ignore_case"} => StrGiven
    /\ proof \in {"from_array", "from_empty_array"} => ArrayGiven
    /\ proof = "from_c_str" => FromStrGiven
    /\ proof = "init" => InitGiven
    /\ proof = "init_copy" => CopyGiven
    /\ proof = "init_copy_from_cursor" => CopyCursorGiven
    /\ proof = "reserve" => OneGiven /\ arg.requested \in 0 .. MaxBuf
    /\ proof = "reserve_relative" => OneGiven /\ arg.requested = MaxBuf
    /\ proof = "reset" => OneGiven /\ arg.zero \in BOOLEAN
    /\ proof = "secure_zero" => OneGiven /\ arg.zero = TRUE
    /\ proof = "write" => WriteGiven(arg.array, arg.len, "array")
    /\ proof = "write_be16" => IntegerGiven(Be16)
    /\ proof = "write_be32" => IntegerGiven(Be32)
    /\ proof = "write_be64" => IntegerGiven(Be64)
    /\ proof = "write_u8" => IntegerGiven(1)
    /\ proof \in {"write_from_whole_buffer", "write_from_whole_cursor"} =>
           WriteGiven(arg.src.ptr, arg.src.len, "src")
    /\ proof = "write_from_whole_string" =>
           arg.given \in BOOLEAN /\ WriteGiven(arg.str.bytes, arg.str.len, "str")

-----------------------------------------------------------------------------

LEMMA ShapedBuf == ASSUME NEW x, NEW b, BufOf(x, b) PROVE Shaped(x)
BY BufConstants DEF BufOf, Shaped

LEMMA ValidBufIsShaped == ASSUME NEW x, NEW m, NEW b, ValidBuf(x, m, b) PROVE Shaped(x) /\ Typed(m[b]) /\ b \in DOMAIN m
BY BufConstants DEF ValidBuf, BufOf, Shaped, Typed, Holds

LEMMA TypedBlock == ASSUME NEW bytes, NEW n \in 0 .. 2 * MaxBuf, bytes \in ByteBlock(Byte, n) PROVE Typed(bytes)
BY BufConstants DEF Typed

LEMMA TypedNone == Typed(<<>>)
BY NoBlockIs, BufConstants DEF Typed

(* What is built, with its memory anywhere. *)
LEMMA AnyBuf ==
    ASSUME tool \in Tools, NEW b, b # "null", NEW x \in ByteBuf!InitializeByteBuf(b)
    PROVE  Shaped(x.s) /\ Typed(x.m)
<1>1. /\ BufOf(x.s, b)
      /\ x.s.buffer = Null => x.m = <<>>
      /\ x.s.buffer = Start(b) => x.m \in ByteBlock(Byte, x.s.capacity)
  BY BufsAre
<1>2. Typed(x.m)
  <2>1. CASE x.s.buffer = Null
    BY <1>1, <2>1, TypedNone
  <2>2. CASE x.s.buffer = Start(b)
    BY <1>1, <2>2, TypedBlock, BufConstants DEF BufOf
  <2> QED BY <1>1, <2>1, <2>2 DEF BufOf
<1> QED BY <1>1, <1>2, ShapedBuf

LEMMA CursorSource ==
    ASSUME tool \in Tools, NEW b, b # "null", NEW x \in ByteBuf!ValidCursors(b),
           NEW m, b \in DOMAIN m, m[b] = x.m
    PROVE  SourceCursor(x.s, m, b) /\ Typed(m[b])
<1>1. ValidCursor(x.s, m, b) /\ (m[b] = <<>> \/ m[b] \in ByteBlock(Byte, MaxBuf))
  BY CursorsAre
<1>2. Typed(m[b])
  BY <1>1, TypedNone, TypedBlock, BufConstants
<1>3. x.s.len \in 0 .. MaxBuf /\ x.s.ptr \in {Null, Start(b)}
  BY <1>1 DEF ValidCursor
<1>4. ASSUME x.s.len > 0 PROVE x.s.ptr = Start(b) /\ MaxBuf >= x.s.len /\ m[b] \in ByteBlock(Byte, MaxBuf)
  BY <1>1, <1>4 DEF ValidCursor, Holds
<1> QED BY <1>2, <1>3, <1>4, BufConstants DEF SourceCursor, Source

LEMMA BufSource ==
    ASSUME NEW x, NEW b, b # "null", NEW m, ValidBuf(x, m, b)
    PROVE  x.len \in Nat /\ Source(x.buffer, x.len, m, b)
<1>1. x.len \in Nat /\ x.capacity \in Nat /\ x.len <= x.capacity /\ x.buffer \in {Null, Start(b)}
  BY BufConstants DEF ValidBuf, BufOf
<1>2. x.len > 0 => x.buffer = Start(b)
  BY <1>1 DEF ValidBuf
<1> QED BY <1>1, <1>2 DEF ValidBuf, Holds, Source

LEMMA ArraySource ==
    ASSUME tool \in Tools, NEW b, b # "null", NEW n \in 0 .. MaxBuf, NEW x \in ByteBuf!BoundedMallocHavoc(b, n),
           NEW m, b \in DOMAIN m, m[b] = x.m, NEW k \in 0 .. n
    PROVE  (Source(x.s, k, m, b) \/ ByteBuf!Missing(x.s, n)) /\ Typed(m[b])
<1>1. CASE ArrayIn(x.s, m, b, n) /\ m[b] \in ByteBlock(Byte, n)
  <2>1. Typed(m[b])
    BY <1>1, TypedBlock, BufConstants
  <2> QED BY <1>1, <2>1, BufConstants DEF ArrayIn, Source, Holds
<1>2. CASE tool = "fuzz" /\ x.s = Null /\ n > 0 /\ m[b] \in ByteBlock(Byte, 0)
  <2>1. Typed(m[b])
    BY <1>2, TypedBlock, BufConstants
  <2> QED BY <1>2, <2>1, NullIs DEF ByteBuf!Missing
<1>3. n \in Nat
  BY BufConstants
<1>4. \/ ArrayIn(x.s, m, b, n) /\ m[b] \in ByteBlock(Byte, n)
      \/ tool = "fuzz" /\ x.s = Null /\ n > 0 /\ m[b] \in ByteBlock(Byte, 0)
  BY <1>3, ArraysAre
<1> QED BY <1>1, <1>2, <1>4

LEMMA CStrSource ==
    ASSUME NEW b, b # "null", NEW x, CStrOf(x, b, MaxBuf), NEW m, b \in DOMAIN m, m[b] = x.m
    PROVE  x.len \in 0 .. MaxBuf /\ Source(x.s, x.len, m, b) /\ Typed(m[b])
<1>2. CASE x.s = Null /\ x.len = 0 /\ x.m = <<>>
  BY <1>2, TypedNone, BufConstants DEF Source
<1>3. CASE x.s = Start(b) /\ x.len \in 0 .. MaxBuf - 1 /\ x.m \in ByteBlock(Byte, x.len + 1)
  <2>1. Typed(m[b])
    BY <1>3, TypedBlock, BufConstants
  <2>2. x.len + 1 >= x.len /\ x.len + 1 \in Nat /\ m[b] \in ByteBlock(Byte, x.len + 1)
    BY <1>3, BufConstants
  <2>3. Source(x.s, x.len, m, b)
    BY <1>3, <2>2 DEF Source
  <2> QED BY <1>3, <2>1, <2>3, BufConstants
<1> QED BY <1>2, <1>3 DEF CStrOf

LEMMA Reached ==
    ASSUME NEW p, NEW o, NEW m, NEW a, ByteBuf!Reach(p, o, m, a)
    PROVE  proof' = p /\ arg' = a /\ old'.obj = o /\ old'.mem = m
BY DEF ByteBuf!Reach, ByteBuf!Does

TypedInputs == TypedMemory(old.mem) /\ \A x \in DOMAIN old.obj : Shaped(old.obj[x])

LEMMA OneBufGives ==
    ASSUME tool \in Tools, NEW p, NEW a, ByteBuf!OneBuf(p, a)
    PROVE  proof' = p /\ arg' = a /\ OneGiven' /\ TypedInputs'
<1>1. PICK buf \in ByteBuf!ValidBufs("buf") : ByteBuf!Reach(p, [buf |-> buf.s], [buf |-> buf.m], a)
  BY DEF ByteBuf!OneBuf
<1>2. ValidBuf(buf.s, [buf |-> buf.m], "buf")
  BY ValidBufsAre
<1> QED BY <1>1, <1>2, Reached, ValidBufIsShaped DEF OneGiven, TypedInputs, TypedMemory

LEMMA IntegerGives ==
    ASSUME tool \in Tools, NEW p, NEW width, ByteBuf!Integer(p, width)
    PROVE  proof' = p /\ IntegerGiven(width)' /\ TypedInputs'
<1>1. PICK x \in ByteBuf!Contents(width) : ByteBuf!OneBuf(p, [x |-> x, width |-> width])
  BY DEF ByteBuf!Integer
<1> QED BY <1>1, OneBufGives DEF IntegerGiven, ByteBuf!Contents, ByteBlock

LEMMA ToAndFromIs ==
    ASSUME tool \in Tools, NEW p, NEW table, ByteBuf!ToAndFrom(p, table)
    PROVE  proof' = p /\ arg'.table = table /\ AppendGiven' /\ TypedInputs'
<1>1. PICK to \in ByteBuf!ValidBufs("to"), from \in ByteBuf!ValidCursors("from") :
          ByteBuf!Reach(p, [to |-> to.s], [to |-> to.m, from |-> from.m], [from |-> from.s, table |-> table])
  BY DEF ByteBuf!ToAndFrom
<1> DEFINE m == [to |-> to.m, from |-> from.m]
<1>2. ValidBuf(to.s, m, "to")
  BY ValidBufsAre
<1>3. SourceCursor(from.s, m, "from") /\ Typed(m["from"])
  BY CursorSource
<1>4. TypedMemory(m) /\ Shaped(to.s)
  BY <1>2, <1>3, ValidBufIsShaped DEF TypedMemory
<1>5. DOMAIN m = {"to", "from"}
  OBVIOUS
<1> HIDE DEF m
<1>6. ByteBuf!Reach(p, [to |-> to.s], m, [from |-> from.s, table |-> table])
  BY <1>1 DEF m
<1> QED BY <1>2, <1>3, <1>4, <1>5, <1>6, Reached DEF AppendGiven, TypedInputs

LEMMA LhsRhsGives ==
    ASSUME tool \in Tools, NEW p, ByteBuf!LhsAndRhs(p)
    PROVE  proof' = p /\ LhsRhsGiven' /\ TypedInputs'
<1>1. PICK lhs \in ByteBuf!ValidBufs("lhs") :
          \/ ByteBuf!Reach(p, [lhs |-> lhs.s, rhs |-> lhs.s], [lhs |-> lhs.m], <<>>)
          \/ \E rhs \in ByteBuf!ValidBufs("rhs") :
                 ByteBuf!Reach(p, [lhs |-> lhs.s, rhs |-> rhs.s], [lhs |-> lhs.m, rhs |-> rhs.m], <<>>)
  BY DEF ByteBuf!LhsAndRhs
<1>2. CASE ByteBuf!Reach(p, [lhs |-> lhs.s, rhs |-> lhs.s], [lhs |-> lhs.m], <<>>)
  <2>1. ValidBuf(lhs.s, [lhs |-> lhs.m], "lhs")
    BY ValidBufsAre
  <2> QED BY <1>2, <2>1, Reached, ValidBufIsShaped DEF LhsRhsGiven, TypedInputs, TypedMemory
<1>3. ASSUME NEW rhs \in ByteBuf!ValidBufs("rhs"),
             ByteBuf!Reach(p, [lhs |-> lhs.s, rhs |-> rhs.s], [lhs |-> lhs.m, rhs |-> rhs.m], <<>>)
      PROVE  proof' = p /\ LhsRhsGiven' /\ TypedInputs'
  <2>1. ValidBuf(lhs.s, [lhs |-> lhs.m, rhs |-> rhs.m], "lhs") /\ ValidBuf(rhs.s, [lhs |-> lhs.m, rhs |-> rhs.m], "rhs")
    BY ValidBufsAre
  <2> QED BY <1>3, <2>1, Reached, ValidBufIsShaped DEF LhsRhsGiven, TypedInputs, TypedMemory
<1> QED BY <1>1, <1>2, <1>3

LEMMA BufAndStrGives ==
    ASSUME tool \in Tools, NEW p, ByteBuf!BufAndStr(p)
    PROVE  proof' = p /\ StrGiven' /\ TypedInputs'
<1>1. PICK str \in ByteBuf!EnsureCStr("c_str", MaxBuf, 0, TRUE), buf \in ByteBuf!ValidBufs("buf") :
          ByteBuf!Reach(p, [buf |-> buf.s], [buf |-> buf.m, c_str |-> str.m], [c_str |-> str.s, len |-> str.len])
  BY DEF ByteBuf!BufAndStr, ByteBuf!EnsureCStrIsNdAllocatedSafe
<1> DEFINE m == [buf |-> buf.m, c_str |-> str.m]
<1>2. ValidBuf(buf.s, m, "buf")
  BY ValidBufsAre
<1>3. str.len \in 0 .. MaxBuf /\ Source(str.s, str.len, m, "c_str") /\ Typed(m["c_str"]) /\ str.s = Start("c_str")
  <2>1. CStrOf(str, "c_str", MaxBuf) /\ str.s = Start("c_str")
    BY SafeCStrsAre, BufConstants
  <2> QED BY <2>1, CStrSource
<1>4. TypedMemory(m) /\ Shaped(buf.s)
  BY <1>2, <1>3, ValidBufIsShaped DEF TypedMemory
<1> HIDE DEF m
<1>6. ByteBuf!Reach(p, [buf |-> buf.s], m, [c_str |-> str.s, len |-> str.len])
  BY <1>1 DEF m
<1> QED BY <1>2, <1>3, <1>4, <1>6, Reached DEF StrGiven, TypedInputs

LEMMA ShapedZero == Shaped(ByteBuf!ZeroBuf)
BY BufConstants DEF Shaped, ByteBuf!ZeroBuf, ByteBuf!Buf

LEMMA ArrayGives ==
    ASSUME tool \in Tools, NEW p, ByteBuf!Array(p)
    PROVE  proof' = p /\ ArrayGiven' /\ TypedInputs'
<1>1. PICK length \in 0 .. MaxBuf : \E array \in ByteBuf!BoundedMallocHavoc("array", length) :
          ByteBuf!Reach(p, [buf |-> ByteBuf!ZeroBuf], [array |-> array.m], [array |-> array.s, length |-> length])
  BY DEF ByteBuf!Array
<1>2. PICK array \in ByteBuf!BoundedMallocHavoc("array", length) :
          ByteBuf!Reach(p, [buf |-> ByteBuf!ZeroBuf], [array |-> array.m], [array |-> array.s, length |-> length])
  BY <1>1
<1>3. /\ Source(array.s, length, [array |-> array.m], "array") \/ ByteBuf!Missing(array.s, length)
      /\ Typed(array.m)
  BY ArraySource, BufConstants
<1>4. tool' = tool
  BY <1>2 DEF ByteBuf!Reach
<1>5. ByteBuf!Missing(array.s, length) => ByteBuf!Missing(array.s, length)'
  BY <1>4 DEF ByteBuf!Missing, ByteBuf!Null
<1> QED BY <1>2, <1>3, <1>5, Reached, ShapedZero DEF ArrayGiven, TypedInputs, TypedMemory

LEMMA FromStrGives ==
    ASSUME tool \in Tools, ByteBuf!ByteBufFromCStrSetup
    PROVE  proof' = "from_c_str" /\ FromStrGiven' /\ TypedInputs'
<1>1. PICK str \in ByteBuf!EnsureCStr("c_str", MaxBuf, 0, FALSE) :
          ByteBuf!Reach("from_c_str", [buf |-> ByteBuf!ZeroBuf], [c_str |-> str.m], [c_str |-> str.s, len |-> str.len])
  BY DEF ByteBuf!ByteBufFromCStrSetup, ByteBuf!EnsureCStrIsNdAllocated
<1>2. str.len \in 0 .. MaxBuf /\ Source(str.s, str.len, [c_str |-> str.m], "c_str") /\ Typed(str.m)
  <2>1. CStrOf(str, "c_str", MaxBuf)
    BY UnsafeCStrsAre, BufConstants
  <2> QED BY <2>1, CStrSource
<1> QED BY <1>1, <1>2, Reached, ShapedZero DEF FromStrGiven, TypedInputs, TypedMemory

LEMMA AdvanceGives ==
    ASSUME tool \in Tools, ByteBuf!ByteBufAdvanceSetup
    PROVE  proof' = "advance" /\ AdvanceGiven' /\ TypedInputs'
<1>1. PICK buf \in ByteBuf!ValidBufs("buf"), len \in 0 .. BufSizeMax :
        \/ ByteBuf!Reach("advance", [buf |-> buf.s, output |-> buf.s], [buf |-> buf.m], [len |-> len])
        \/ \E output \in ByteBuf!ValidBufs("output") :
               ByteBuf!Reach("advance", [buf |-> buf.s, output |-> output.s],
                     [buf |-> buf.m, output |-> output.m], [len |-> len])
  BY DEF ByteBuf!ByteBufAdvanceSetup
<1>2. len \in Nat
  BY BufConstants
<1>3. CASE ByteBuf!Reach("advance", [buf |-> buf.s, output |-> buf.s], [buf |-> buf.m], [len |-> len])
  <2>1. ValidBuf(buf.s, [buf |-> buf.m], "buf")
    BY ValidBufsAre
  <2> QED BY <1>2, <1>3, <2>1, Reached, ValidBufIsShaped DEF AdvanceGiven, TypedInputs, TypedMemory
<1>4. ASSUME NEW output \in ByteBuf!ValidBufs("output"),
             ByteBuf!Reach("advance", [buf |-> buf.s, output |-> output.s],
                           [buf |-> buf.m, output |-> output.m], [len |-> len])
      PROVE  proof' = "advance" /\ AdvanceGiven' /\ TypedInputs'
  <2>1. ValidBuf(buf.s, [buf |-> buf.m, output |-> output.m], "buf")
        /\ ValidBuf(output.s, [buf |-> buf.m, output |-> output.m], "output")
    BY ValidBufsAre
  <2> QED BY <1>2, <1>4, <2>1, Reached, ValidBufIsShaped DEF AdvanceGiven, TypedInputs, TypedMemory
<1> QED BY <1>1, <1>3, <1>4

LEMMA CatGives ==
    ASSUME tool \in Tools, ByteBuf!ByteBufCatSetup
    PROVE  proof' = "cat" /\ CatGiven' /\ TypedInputs'
<1>1. PICK dest \in ByteBuf!ValidBufs("dest"), b1 \in ByteBuf!ValidBufs("buffer1"),
           b2 \in ByteBuf!ValidBufs("buffer2"), b3 \in ByteBuf!ValidBufs("buffer3") :
        ByteBuf!Reach("cat", [dest |-> dest.s, buffer1 |-> b1.s, buffer2 |-> b2.s, buffer3 |-> b3.s],
                 [dest |-> dest.m, buffer1 |-> b1.m, buffer2 |-> b2.m, buffer3 |-> b3.m], <<>>)
  BY DEF ByteBuf!ByteBufCatSetup
<1> DEFINE o == [dest |-> dest.s, buffer1 |-> b1.s, buffer2 |-> b2.s, buffer3 |-> b3.s]
           m == [dest |-> dest.m, buffer1 |-> b1.m, buffer2 |-> b2.m, buffer3 |-> b3.m]
<1>2. ValidBuf(dest.s, m, "dest") /\ ValidBuf(b1.s, m, "buffer1")
      /\ ValidBuf(b2.s, m, "buffer2") /\ ValidBuf(b3.s, m, "buffer3")
  BY ValidBufsAre
<1>3. DOMAIN o = {"dest", "buffer1", "buffer2", "buffer3"} /\ DOMAIN m = DOMAIN o
      /\ o = [x \in DOMAIN o |-> o[x]]
  OBVIOUS
<1>4. \A x \in DOMAIN o : ValidBuf(o[x], m, x)
  BY <1>2
<1>5. ByteBuf!Reach("cat", o, m, <<>>)
  BY <1>1
<1> HIDE DEF o, m
<1>6. TypedMemory(m) /\ \A x \in DOMAIN o : Shaped(o[x])
  BY <1>3, <1>4, ValidBufIsShaped DEF TypedMemory
<1> QED BY <1>3, <1>4, <1>5, <1>6, Reached DEF CatGiven, TypedInputs

LEMMA InitGives ==
    ASSUME tool \in Tools, ByteBuf!ByteBufInitSetup
    PROVE  proof' = "init" /\ InitGiven' /\ TypedInputs'
<1>1. PICK buf \in ByteBuf!InitializeByteBuf("buf"), capacity \in 0 .. MaxBuf :
          ByteBuf!Reach("init", [buf |-> buf.s], [buf |-> buf.m], [capacity |-> capacity])
  BY DEF ByteBuf!ByteBufInitSetup
<1> QED BY <1>1, AnyBuf, Reached DEF InitGiven, TypedInputs, TypedMemory

LEMMA CopyGives ==
    ASSUME tool \in Tools, ByteBuf!ByteBufInitCopySetup
    PROVE  proof' = "init_copy" /\ CopyGiven' /\ TypedInputs'
<1>1. PICK src \in ByteBuf!ValidBufs("src") :
          ByteBuf!Reach("init_copy", [dest |-> ByteBuf!ZeroBuf, src |-> src.s], [src |-> src.m], <<>>)
  BY DEF ByteBuf!ByteBufInitCopySetup
<1>2. ValidBuf(src.s, [src |-> src.m], "src")
  BY ValidBufsAre
<1> QED BY <1>1, <1>2, Reached, ShapedZero, ValidBufIsShaped DEF CopyGiven, TypedInputs, TypedMemory

LEMMA CopyCursorGives ==
    ASSUME tool \in Tools, ByteBuf!ByteBufInitCopyFromCursorSetup
    PROVE  proof' = "init_copy_from_cursor" /\ CopyCursorGiven' /\ TypedInputs'
<1>1. PICK buf \in ByteBuf!InitializeByteBuf("buf"), cursor \in ByteBuf!ValidCursors("cursor") :
          ByteBuf!Reach("init_copy_from_cursor", [buf |-> buf.s], [buf |-> buf.m, cursor |-> cursor.m],
                        [cursor |-> cursor.s])
  BY DEF ByteBuf!ByteBufInitCopyFromCursorSetup
<1> DEFINE m == [buf |-> buf.m, cursor |-> cursor.m]
<1>2. SourceCursor(cursor.s, m, "cursor") /\ Typed(m["cursor"])
  BY CursorSource
<1>3. Shaped(buf.s) /\ Typed(buf.m)
  BY AnyBuf
<1>4. TypedMemory(m) /\ DOMAIN m = {"buf", "cursor"}
  BY <1>2, <1>3 DEF TypedMemory
<1>5. ByteBuf!Reach("init_copy_from_cursor", [buf |-> buf.s], m, [cursor |-> cursor.s])
  BY <1>1
<1> HIDE DEF m
<1> QED BY <1>2, <1>3, <1>4, <1>5, Reached DEF CopyCursorGiven, TypedInputs

LEMMA ReserveGives ==
    ASSUME tool \in Tools, ByteBuf!ByteBufReserveSetup \/ ByteBuf!ByteBufReserveRelativeSetup
    PROVE  /\ proof' \in {"reserve", "reserve_relative"} /\ OneGiven' /\ TypedInputs'
           /\ arg'.requested \in 0 .. MaxBuf
           /\ proof' = "reserve_relative" => arg'.requested = MaxBuf
<1>1. PICK buf \in ByteBuf!ValidBufs("buf"), p \in {"reserve", "reserve_relative"}, requested \in 0 .. MaxBuf :
          /\ ByteBuf!Reach(p, [buf |-> buf.s], [buf |-> buf.m], [requested |-> requested])
          /\ p = "reserve_relative" => requested = MaxBuf
  <2>1. CASE ByteBuf!ByteBufReserveSetup
    BY <2>1 DEF ByteBuf!ByteBufReserveSetup
  <2>2. CASE ByteBuf!ByteBufReserveRelativeSetup
    <3>1. PICK buf \in ByteBuf!ValidBufs("buf") :
              ByteBuf!Reach("reserve_relative", [buf |-> buf.s], [buf |-> buf.m], [requested |-> MaxBuf])
      BY <2>2 DEF ByteBuf!ByteBufReserveRelativeSetup
    <3>2. MaxBuf \in 0 .. MaxBuf
      BY BufConstants
    <3> QED BY <3>1, <3>2
  <2> QED BY <2>1, <2>2
<1>2. ValidBuf(buf.s, [buf |-> buf.m], "buf")
  BY ValidBufsAre
<1> QED BY <1>1, <1>2, Reached, ValidBufIsShaped DEF OneGiven, TypedInputs, TypedMemory

LEMMA WriteGives ==
    ASSUME tool \in Tools, NEW p, NEW buf \in ByteBuf!ValidBufs("buf"), NEW b, b \notin {"buf", "null"}, NEW c, NEW a,
           NEW q, NEW n \in Nat, NEW m, b \in DOMAIN m, "buf" \in DOMAIN m, DOMAIN m = {"buf", b},
           m["buf"] = buf.m, m[b] = c, Source(q, n, m, b), Typed(c),
           ByteBuf!Reach(p, [buf |-> buf.s], m, a)
    PROVE  proof' = p /\ arg' = a /\ WriteGiven(q, n, b)' /\ TypedInputs'
<1>2. ValidBuf(buf.s, m, "buf")
  BY ValidBufsAre
<1>3. TypedMemory(m) /\ Shaped(buf.s)
  BY <1>2, ValidBufIsShaped DEF TypedMemory
<1> QED BY <1>2, <1>3, Reached DEF WriteGiven, TypedInputs

LEMMA WriteSetupGives ==
    ASSUME tool \in Tools, ByteBuf!ByteBufWriteSetup
    PROVE  proof' = "write" /\ WriteGiven(arg.array, arg.len, "array")' /\ TypedInputs'
<1>1. PICK buf \in ByteBuf!ValidBufs("buf"), len \in 0 .. MaxBuf, array \in ByteBuf!BoundedMallocHavoc("array", MaxBuf) :
          /\ tool # "fuzz"
          /\ ByteBuf!Reach("write", [buf |-> buf.s], [buf |-> buf.m, array |-> array.m], [array |-> array.s, len |-> len])
  BY DEF ByteBuf!ByteBufWriteSetup
<1> DEFINE m == [buf |-> buf.m, array |-> array.m]
           a == [array |-> array.s, len |-> len]
<1>2. Source(array.s, len, m, "array") /\ Typed(array.m) /\ len \in Nat
  BY <1>1, ArraySource, BufConstants DEF ByteBuf!Missing
<1>3. ByteBuf!Reach("write", [buf |-> buf.s], m, a) /\ DOMAIN m = {"buf", "array"} /\ m["buf"] = buf.m /\ m["array"] = array.m
      /\ a.array = array.s /\ a.len = len
  BY <1>1
<1> HIDE DEF m, a
<1>4. proof' = "write" /\ arg' = a /\ WriteGiven(array.s, len, "array")' /\ TypedInputs'
  BY <1>2, <1>3, WriteGives
<1> QED BY <1>3, <1>4

LEMMA WholeBufferGives ==
    ASSUME tool \in Tools, ByteBuf!ByteBufWriteFromWholeBufferSetup
    PROVE  proof' = "write_from_whole_buffer" /\ WriteGiven(arg.src.ptr, arg.src.len, "src")' /\ TypedInputs'
<1>1. PICK buf \in ByteBuf!ValidBufs("buf"), src \in ByteBuf!ValidBufs("src") :
          ByteBuf!Reach("write_from_whole_buffer", [buf |-> buf.s], [buf |-> buf.m, src |-> src.m],
                        [src |-> ByteBuf!Cursor(src.s.buffer, src.s.len)])
  BY DEF ByteBuf!ByteBufWriteFromWholeBufferSetup
<1> DEFINE m == [buf |-> buf.m, src |-> src.m]
           a == [src |-> ByteBuf!Cursor(src.s.buffer, src.s.len)]
<1>2. ValidBuf(src.s, m, "src")
  BY ValidBufsAre
<1>3. Source(src.s.buffer, src.s.len, m, "src") /\ Typed(src.m) /\ src.s.len \in Nat
  BY <1>2, BufSource, ValidBufIsShaped
<1>4. ByteBuf!Reach("write_from_whole_buffer", [buf |-> buf.s], m, a) /\ DOMAIN m = {"buf", "src"}
      /\ m["buf"] = buf.m /\ m["src"] = src.m /\ a.src.ptr = src.s.buffer /\ a.src.len = src.s.len
  BY <1>1 DEF ByteBuf!Cursor
<1> HIDE DEF m, a
<1>5. proof' = "write_from_whole_buffer" /\ arg' = a /\ WriteGiven(src.s.buffer, src.s.len, "src")' /\ TypedInputs'
  BY <1>3, <1>4, WriteGives
<1> QED BY <1>4, <1>5

LEMMA WholeCursorGives ==
    ASSUME tool \in Tools, ByteBuf!ByteBufWriteFromWholeCursorSetup
    PROVE  proof' = "write_from_whole_cursor" /\ WriteGiven(arg.src.ptr, arg.src.len, "src")' /\ TypedInputs'
<1>1. PICK buf \in ByteBuf!ValidBufs("buf"), src \in ByteBuf!ValidCursors("src") :
          ByteBuf!Reach("write_from_whole_cursor", [buf |-> buf.s], [buf |-> buf.m, src |-> src.m], [src |-> src.s])
  BY DEF ByteBuf!ByteBufWriteFromWholeCursorSetup
<1> DEFINE m == [buf |-> buf.m, src |-> src.m]
           a == [src |-> src.s]
<1>2. SourceCursor(src.s, m, "src") /\ Typed(m["src"])
  BY CursorSource
<1>3. Source(src.s.ptr, src.s.len, m, "src") /\ Typed(src.m) /\ src.s.len \in Nat
  BY <1>2, BufConstants DEF SourceCursor
<1>4. ByteBuf!Reach("write_from_whole_cursor", [buf |-> buf.s], m, a) /\ DOMAIN m = {"buf", "src"}
      /\ m["buf"] = buf.m /\ m["src"] = src.m /\ a.src = src.s
  BY <1>1
<1> HIDE DEF m, a
<1>5. proof' = "write_from_whole_cursor" /\ arg' = a /\ WriteGiven(src.s.ptr, src.s.len, "src")' /\ TypedInputs'
  BY <1>3, <1>4, WriteGives
<1> QED BY <1>4, <1>5

LEMMA WholeStringGives ==
    ASSUME tool \in Tools, ByteBuf!ByteBufWriteFromWholeStringSetup
    PROVE  /\ proof' = "write_from_whole_string" /\ arg'.given \in BOOLEAN
           /\ WriteGiven(arg.str.bytes, arg.str.len, "str")' /\ TypedInputs'
<1> DEFINE NoString == ByteBuf!Built([bytes |-> ByteBuf!Null, len |-> 0, allocator |-> "none"], ByteBuf!NoBlock)
<1>1. PICK buf \in ByteBuf!ValidBufs("buf"), given \in BOOLEAN,
           str \in ByteBuf!EnsureStringBoundedLength("str", MaxStringLen) \cup {NoString} :
          ByteBuf!Reach("write_from_whole_string", [buf |-> buf.s], [buf |-> buf.m, str |-> str.m],
                        [given |-> given, str |-> str.s])
  BY DEF ByteBuf!ByteBufWriteFromWholeStringSetup
<1> DEFINE m == [buf |-> buf.m, str |-> str.m]
           a == [given |-> given, str |-> str.s]
<1>2. Source(str.s.bytes, str.s.len, m, "str") /\ Typed(str.m) /\ str.s.len \in Nat
  <2>1. CASE str = NoString
    BY <2>1, NullIs, TypedNone DEF ByteBuf!Built, ByteBuf!NoBlock, Source
  <2>2. CASE str \in ByteBuf!EnsureStringBoundedLength("str", MaxStringLen)
    <3>1. str.s.bytes = Start("str") /\ str.s.len \in 0 .. MaxStringLen - 1
          /\ str.m \in ByteBlock(Byte, str.s.len + 1)
      BY <2>2, StringsAre, BufConstants
    <3>2. str.s.len + 1 \in 0 .. BufSizeMax
      BY <3>1, BufConstants
    <3>3. str.s.len + 1 >= str.s.len /\ str.s.len + 1 \in Nat /\ str.s.len \in Nat
      BY <3>1, BufConstants
    <3> QED BY <3>1, <3>2, <3>3 DEF Source, Typed
  <2> QED BY <1>1, <2>1, <2>2
<1>4. ByteBuf!Reach("write_from_whole_string", [buf |-> buf.s], m, a) /\ DOMAIN m = {"buf", "str"}
      /\ m["buf"] = buf.m /\ m["str"] = str.m /\ a.str = str.s /\ a.given \in BOOLEAN
  BY <1>1
<1> HIDE DEF m, a
<1>5. proof' = "write_from_whole_string" /\ arg' = a /\ WriteGiven(str.s.bytes, str.s.len, "str")' /\ TypedInputs'
  BY <1>2, <1>4, WriteGives
<1> QED BY <1>4, <1>5

LEMMA BufSetupGives ==
    ASSUME tool \in Tools, ByteBuf!Setup
    PROVE  BufGiven'
<1>1. CASE ByteBuf!ByteBufAdvanceSetup
  BY <1>1, AdvanceGives DEF BufGiven, BufProofs, TypedInputs
<1>2. CASE ByteBuf!ByteBufAppendSetup
  BY <1>2, ToAndFromIs DEF BufGiven, BufProofs, TypedInputs, ByteBuf!ByteBufAppendSetup
<1>3. CASE ByteBuf!ByteBufAppendDynamicSetup
  BY <1>3, ToAndFromIs DEF BufGiven, BufProofs, TypedInputs, ByteBuf!ByteBufAppendDynamicSetup
<1>4. CASE ByteBuf!ByteBufAppendWithLookupSetup
  BY <1>4, ToAndFromIs DEF BufGiven, BufProofs, TypedInputs, ByteBuf!ByteBufAppendWithLookupSetup, LookupGiven
<1>5. CASE ByteBuf!ByteBufCatSetup
  BY <1>5, CatGives DEF BufGiven, BufProofs, TypedInputs
<1>6. CASE ByteBuf!ByteBufCleanUpSetup
  BY <1>6, OneBufGives DEF BufGiven, BufProofs, TypedInputs, ByteBuf!ByteBufCleanUpSetup
<1>7. CASE ByteBuf!ByteBufCleanUpSecureSetup
  BY <1>7, OneBufGives DEF BufGiven, BufProofs, TypedInputs, ByteBuf!ByteBufCleanUpSecureSetup
<1>8. CASE ByteBuf!ByteBufEqSetup
  BY <1>8, LhsRhsGives DEF BufGiven, BufProofs, TypedInputs, ByteBuf!ByteBufEqSetup
<1>9. CASE ByteBuf!ByteBufEqCStrSetup
  BY <1>9, BufAndStrGives DEF BufGiven, BufProofs, TypedInputs, ByteBuf!ByteBufEqCStrSetup
<1>10. CASE ByteBuf!ByteBufEqCStrIgnoreCaseSetup
  BY <1>10, BufAndStrGives DEF BufGiven, BufProofs, TypedInputs, ByteBuf!ByteBufEqCStrIgnoreCaseSetup
<1>11. CASE ByteBuf!ByteBufEqIgnoreCaseSetup
  BY <1>11, LhsRhsGives DEF BufGiven, BufProofs, TypedInputs, ByteBuf!ByteBufEqIgnoreCaseSetup
<1>12. CASE ByteBuf!ByteBufFromArraySetup
  BY <1>12, ArrayGives DEF BufGiven, BufProofs, TypedInputs, ByteBuf!ByteBufFromArraySetup
<1>13. CASE ByteBuf!ByteBufFromCStrSetup
  BY <1>13, FromStrGives DEF BufGiven, BufProofs, TypedInputs
<1>14. CASE ByteBuf!ByteBufFromEmptyArraySetup
  BY <1>14, ArrayGives DEF BufGiven, BufProofs, TypedInputs, ByteBuf!ByteBufFromEmptyArraySetup
<1>15. CASE ByteBuf!ByteBufInitSetup
  BY <1>15, InitGives DEF BufGiven, BufProofs, TypedInputs
<1>16. CASE ByteBuf!ByteBufInitCopySetup
  BY <1>16, CopyGives DEF BufGiven, BufProofs, TypedInputs
<1>17. CASE ByteBuf!ByteBufInitCopyFromCursorSetup
  BY <1>17, CopyCursorGives DEF BufGiven, BufProofs, TypedInputs
<1>18. CASE ByteBuf!ByteBufReserveSetup \/ ByteBuf!ByteBufReserveRelativeSetup
  BY <1>18, ReserveGives DEF BufGiven, BufProofs, TypedInputs
<1>19. CASE ByteBuf!ByteBufResetSetup
  BY <1>19, OneBufGives DEF BufGiven, BufProofs, TypedInputs, ByteBuf!ByteBufResetSetup
<1>20. CASE ByteBuf!ByteBufSecureZeroSetup
  BY <1>20, OneBufGives DEF BufGiven, BufProofs, TypedInputs, ByteBuf!ByteBufSecureZeroSetup
<1>21. CASE ByteBuf!ByteBufWriteSetup
  BY <1>21, WriteSetupGives DEF BufGiven, BufProofs, TypedInputs
<1>22. CASE ByteBuf!ByteBufWriteBe16Setup
  BY <1>22, IntegerGives DEF BufGiven, BufProofs, TypedInputs, ByteBuf!ByteBufWriteBe16Setup
<1>23. CASE ByteBuf!ByteBufWriteBe32Setup
  BY <1>23, IntegerGives DEF BufGiven, BufProofs, TypedInputs, ByteBuf!ByteBufWriteBe32Setup
<1>24. CASE ByteBuf!ByteBufWriteBe64Setup
  BY <1>24, IntegerGives DEF BufGiven, BufProofs, TypedInputs, ByteBuf!ByteBufWriteBe64Setup
<1>25. CASE ByteBuf!ByteBufWriteU8Setup
  BY <1>25, IntegerGives DEF BufGiven, BufProofs, TypedInputs, ByteBuf!ByteBufWriteU8Setup
<1>26. CASE ByteBuf!ByteBufWriteFromWholeBufferSetup
  BY <1>26, WholeBufferGives DEF BufGiven, BufProofs, TypedInputs
<1>27. CASE ByteBuf!ByteBufWriteFromWholeCursorSetup
  BY <1>27, WholeCursorGives DEF BufGiven, BufProofs, TypedInputs
<1>28. CASE ByteBuf!ByteBufWriteFromWholeStringSetup
  BY <1>28, WholeStringGives DEF BufGiven, BufProofs, TypedInputs
<1> QED BY <1>1, <1>2, <1>3, <1>4, <1>5, <1>6, <1>7, <1>8, <1>9, <1>10, <1>11, <1>12, <1>13, <1>14, <1>15, <1>16, <1>17, <1>18, <1>19, <1>20, <1>21, <1>22, <1>23, <1>24, <1>25, <1>26, <1>27, <1>28 DEF ByteBuf!Setup

-----------------------------------------------------------------------------
(* What a correct function leaves is what the assertions of both generations say. *)

-----------------------------------------------------------------------------
(* The memory of a valid buffer. *)

LEMMA ValidBufIs ==
    ASSUME NEW x, NEW m, NEW b, ValidBuf(x, m, b)
    PROVE  /\ x.len \in Nat /\ x.capacity \in 0 .. MaxBuf /\ x.len <= x.capacity
           /\ x = [buffer |-> x.buffer, len |-> x.len, capacity |-> x.capacity, allocator |-> "sea"]
           /\ x.allocator = "sea" /\ x.buffer \in {Null, Start(b)}
           /\ x.capacity > 0 => x.buffer = Start(b)
           /\ x.capacity = 0 => x.buffer = Null
           /\ b \in DOMAIN m /\ m[b] \in ByteBlock(Byte, x.capacity)
BY BufConstants DEF ValidBuf, BufOf, Holds

LEMMA SourceBytes ==
    ASSUME NEW p, NEW m, NEW b, NEW n \in Nat, Source(p, n, m, b)
    PROVE  /\ ByteBuf!BytesAt(m, p, n) \in ByteBlock(Byte, n)
           /\ \A i \in 0 .. n - 1 : ByteBuf!BytesAt(m, p, n)[i] = m[b][i]
<1>1. ByteBuf!BytesAt(m, p, n) = [i \in 0 .. n - 1 |-> ByteBuf!ByteAt(m, ByteBuf!Plus(p, i))]
  BY DEF ByteBuf!BytesAt
<1>2. ASSUME NEW i \in 0 .. n - 1
      PROVE  ByteBuf!ByteAt(m, ByteBuf!Plus(p, i)) = m[b][i] /\ m[b][i] \in Byte
  <2>1. p = Start(b) /\ \E k \in Nat : k >= n /\ m[b] \in ByteBlock(Byte, k)
    BY <1>2 DEF Source
  <2>2. m[b][i] \in Byte
    BY <2>1 DEF ByteBlock
  <2> QED BY <2>1, <2>2, ByteIs
<1> QED BY <1>1, <1>2 DEF ByteBlock

(* n bytes stored behind those of a buffer. *)
LEMMA BufStore ==
    ASSUME NEW x, NEW m, NEW b, b # "null", ValidBuf(x, m, b), NEW n \in Nat, n <= x.capacity - x.len,
           NEW bytes \in ByteBlock(Byte, n), NEW m2, m2 = ByteBuf!Store(m, ByteBuf!End(x), bytes, n)
    PROVE  /\ DOMAIN m2 = DOMAIN m
           /\ \A c \in DOMAIN m \ {b} : m2[c] = m[c]
           /\ m2[b] \in ByteBlock(Byte, x.capacity)
           /\ \A i \in 0 .. x.len - 1 : m2[b][i] = m[b][i]
           /\ \A i \in 0 .. n - 1 : m2[b][x.len + i] = bytes[i]
<1>0. /\ x.len \in Nat /\ x.capacity \in Nat /\ x.len <= x.capacity
      /\ x.capacity > 0 => x.buffer = Start(b)
      /\ b \in DOMAIN m /\ m[b] \in ByteBlock(Byte, x.capacity)
  BY ValidBufIs, BufConstants
<1>1. CASE n = 0
  BY <1>0, <1>1 DEF ByteBuf!Store
<1>2. CASE n > 0
  <2>1. ByteBuf!End(x) = [block |-> b, at |-> x.len]
    BY <1>0, <1>2, PlusIs DEF ByteBuf!End
  <2>2. m2 = [m EXCEPT ![b] =
                 [i \in DOMAIN @ |-> IF i \in x.len .. x.len + n - 1 THEN bytes[i - x.len] ELSE @[i]]]
    BY <1>2, <2>1 DEF ByteBuf!Store
  <2> DEFINE new == [i \in DOMAIN m[b] |-> IF i \in x.len .. x.len + n - 1 THEN bytes[i - x.len] ELSE m[b][i]]
  <2>3. DOMAIN m2 = DOMAIN m /\ (\A c \in DOMAIN m \ {b} : m2[c] = m[c]) /\ m2[b] = new
    BY <1>0, <2>2
  <2>4. DOMAIN m[b] = 0 .. x.capacity - 1
    BY <1>0 DEF ByteBlock
  <2>5. ASSUME NEW i \in 0 .. x.capacity - 1 PROVE new[i] \in Byte
    BY <1>0, <2>4, <2>5 DEF ByteBlock
  <2>6. new \in ByteBlock(Byte, x.capacity)
    BY <2>4, <2>5 DEF ByteBlock
  <2>7. \A i \in 0 .. x.len - 1 : new[i] = m[b][i]
    BY <1>0, <2>4
  <2>8. ASSUME NEW i \in 0 .. n - 1 PROVE new[x.len + i] = bytes[i]
    BY <1>0, <2>4
  <2> HIDE DEF new
  <2> QED BY <2>3, <2>6, <2>7, <2>8
<1> QED BY <1>1, <1>2

(* What is asserted of memory. *)
LEMMA PrefixKept ==
    ASSUME NEW x, NEW m, NEW b, b # "null", ValidBuf(x, m, b), NEW m2, b \in DOMAIN m2,
           \A i \in 0 .. x.len - 1 : i \in DOMAIN m2[b] /\ m2[b][i] = m[b][i]
    PROVE  /\ x.len > 0 => ByteBuf!AllMatch(m2, x.buffer, ByteBuf!SaveByteFromArray(m, x.buffer, x.len))
           /\ ByteBuf!AssertByteBufEquivalence(m2, x, x, ByteBuf!SaveByteFromArray(m, x.buffer, x.len))
<1>1. x.len \in Nat /\ (x.len > 0 => x.buffer = Start(b))
  BY ValidBufIs, BufConstants
<1>2. x.len > 0 => ByteBuf!AllMatch(m2, x.buffer, ByteBuf!SaveByteFromArray(m, x.buffer, x.len))
  BY <1>1, SavedMatches
<1> QED BY <1>2 DEF ByteBuf!AssertByteBufEquivalence

LEMMA SourceKept ==
    ASSUME NEW p, NEW n \in Nat, NEW m, NEW b, b # "null", Source(p, n, m, b), NEW m2, b \in DOMAIN m2,
           m2[b] = m[b], n > 0
    PROVE  ByteBuf!AllMatch(m2, p, ByteBuf!SaveByteFromArray(m, p, n))
<1>1. p = Start(b) /\ \E k \in Nat : k >= n /\ m[b] \in ByteBlock(Byte, k)
  BY DEF Source
<1>2. \A i \in 0 .. n - 1 : i \in DOMAIN m2[b] /\ m2[b][i] = m[b][i]
  BY <1>1 DEF ByteBlock
<1> QED BY <1>1, <1>2, SavedMatches

LEMMA ValidIsValid ==
    ASSUME NEW x, NEW m, NEW b, b # "null", ValidBuf(x, m, b) PROVE ByteBuf!BufIsValid(x)
BY ValidBufIs, NullIs, StartIsNotNull, BufConstants DEF ByteBuf!BufIsValid

-----------------------------------------------------------------------------
(* The call, which is made with the inputs as they were built. *)

Fresh == obj = old.obj /\ mem = old.mem

Called(w) ==
    /\ obj = old.obj /\ mem = old.mem
    /\ obj' = w.obj /\ mem' = w.mem /\ ret' = w.ret
    /\ UNCHANGED <<tool, proof, arg, old>>

BufRight ==
    /\ ByteBuf!Asserts \/ ByteBuf!ArrayIsMissing
    /\ proof \in ByteBuf!SecondGeneration => ByteBuf!Asserts2
    /\ \A x \in DOMAIN obj : Shaped(obj[x])
    /\ TypedMemory(mem)

LEMMA AdvanceRight ==
    ASSUME BufGiven, NEW w \in ByteBuf!Outcomes, Called(w), proof = "advance"
    PROVE  BufRight'
<1> DEFINE o == old.obj
           buf == o.buf
<1>0. AdvanceGiven /\ TypedMemory(old.mem)
  BY DEF BufGiven
<1>1. ValidBuf(buf, old.mem, "buf") /\ DOMAIN o = {"buf", "output"} /\ arg.len \in Nat
  BY <1>0 DEF AdvanceGiven
<1>2. /\ buf.len \in Nat /\ buf.capacity \in 0 .. MaxBuf /\ buf.len <= buf.capacity
      /\ buf = [buffer |-> buf.buffer, len |-> buf.len, capacity |-> buf.capacity, allocator |-> "sea"]
      /\ buf.buffer \in {Null, Start("buf")} /\ buf.allocator = "sea"
      /\ buf.capacity > 0 => buf.buffer = Start("buf")
      /\ buf.capacity = 0 => buf.buffer = Null
      /\ old.mem["buf"] \in ByteBlock(Byte, buf.capacity) /\ "buf" \in DOMAIN old.mem
  BY <1>1, ValidBufIs
<1>3. w \in ByteBuf!Advance
  BY DEF ByteBuf!Outcomes
<1>4. \A i \in 0 .. buf.len - 1 : i \in DOMAIN old.mem["buf"]
  BY <1>2, BufConstants DEF ByteBlock
<1>5. CASE arg.len <= buf.capacity - buf.len
  <2>1. w = ByteBuf!Does([buf |-> [buf EXCEPT !.len = @ + arg.len],
                          output |-> [ByteBuf!FromArray(ByteBuf!End(buf), arg.len) EXCEPT !.len = 0]], mem, "true")
    <3>1. obj = o /\ ByteBuf!Fits("buf", arg.len)
      BY <1>5 DEF Called, ByteBuf!Fits
    <3> QED BY <1>3, <3>1 DEF ByteBuf!Advance
  <2>2. obj'.buf = [buf EXCEPT !.len = @ + arg.len] /\ mem' = old.mem /\ ret' = "true"
        /\ obj'.output = [ByteBuf!FromArray(ByteBuf!End(buf), arg.len) EXCEPT !.len = 0]
        /\ DOMAIN obj' = {"buf", "output"}
    BY <2>1 DEF Called, ByteBuf!Does
  <2>3. obj'.output = ByteBuf!Buf(obj'.output.buffer, 0, arg.len, "none")
        /\ (arg.len > 0 => obj'.output.buffer.block = "buf") /\ (arg.len = 0 => obj'.output.buffer = Null)
    BY <1>1, <1>2, <1>5, <2>2, PlusIs, NullIs DEF ByteBuf!FromArray, ByteBuf!Buf, ByteBuf!End
  <2>4. obj'.buf = [buffer |-> buf.buffer, len |-> buf.len + arg.len, capacity |-> buf.capacity, allocator |-> "sea"]
    BY <1>2, <2>2
  <2>5. ByteBuf!BufIsValid(obj'.buf) /\ ByteBuf!BufIsValid(obj'.output)
    <3>1. ByteBuf!BufIsValid(obj'.buf)
      BY <1>1, <1>2, <1>5, <2>4, NullIs, StartIsNotNull, BufConstants DEF ByteBuf!BufIsValid
    <3>2. obj'.output.buffer.block = "buf" => obj'.output.buffer # Null
      BY DEF Null
    <3>3. obj'.output.len = 0 /\ obj'.output.capacity = arg.len
      BY <2>3 DEF ByteBuf!Buf
    <3>4. ByteBuf!BufIsValid(obj'.output)
      BY <1>1, <2>3, <3>2, <3>3, NullIs DEF ByteBuf!BufIsValid
    <3> QED BY <3>1, <3>4
  <2>6. buf.len > 0 => ByteBuf!AllMatch(old.mem, buf.buffer, ByteBuf!SaveByteFromArray(old.mem, buf.buffer, buf.len))
    BY <1>1, <1>2, <1>4, PrefixKept
  <2>7. ByteBuf!ByteBufAdvanceAsserts'
    BY <2>2, <2>3, <2>4, <2>5, <2>6, <1>2 DEF Called, ByteBuf!ByteBufAdvanceAsserts, ByteBuf!SameFields, ByteBuf!SavedBuf,
       ByteBuf!IsValid
  <2>8. ByteBuf!ByteBufAdvance2Asserts'
    BY <2>2, <2>3, <2>4, <2>5, <1>2 DEF Called, ByteBuf!ByteBufAdvance2Asserts, ByteBuf!SameFields,
       ByteBuf!IsValid, ByteBuf!BytesModified
  <2>9. Shaped(obj'.buf) /\ Shaped(obj'.output)
    BY <1>1, <1>2, <1>5, <2>3, <2>4, BufConstants DEF Shaped, ByteBuf!Buf
  <2> QED BY <2>2, <2>7, <2>8, <2>9, <1>0 DEF Called, BufRight, ByteBuf!Asserts, ByteBuf!Asserts2
<1>6. CASE ~(arg.len <= buf.capacity - buf.len)
  <2>1. w = ByteBuf!Does([o EXCEPT !.output = ByteBuf!ZeroBuf], mem, "false")
    <3>1. obj = o /\ ~ByteBuf!Fits("buf", arg.len)
      BY <1>6 DEF Called, ByteBuf!Fits
    <3> QED BY <1>3, <3>1 DEF ByteBuf!Advance
  <2>2. obj'.buf = buf /\ mem' = old.mem /\ ret' = "false"
        /\ obj'.output = ByteBuf!ZeroBuf /\ DOMAIN obj' = {"buf", "output"}
    BY <1>1, <2>1 DEF Called, ByteBuf!Does
  <2>3. ByteBuf!AssertByteBufEquivalence(old.mem, buf, buf, ByteBuf!SaveByteFromArray(old.mem, buf.buffer, buf.len))
    BY <1>1, <1>2, <1>4, PrefixKept
  <2>4. ByteBuf!BufIsValid(buf) /\ ByteBuf!BufIsValid(ByteBuf!ZeroBuf)
    BY <1>1, ValidIsValid DEF ByteBuf!BufIsValid, ByteBuf!ZeroBuf, ByteBuf!Buf
  <2>5. ByteBuf!ByteBufAdvanceAsserts'
    BY <2>2, <2>3, <2>4 DEF Called, ByteBuf!ByteBufAdvanceAsserts, ByteBuf!BufSame, ByteBuf!SavedBuf, ByteBuf!IsValid
  <2>6. ByteBuf!ByteBufAdvance2Asserts'
    BY <2>2, <2>4 DEF Called, ByteBuf!ByteBufAdvance2Asserts, ByteBuf!Untouched, ByteBuf!Modified,
       ByteBuf!IsValid, ByteBuf!BytesModified
  <2>7. Shaped(buf) /\ Shaped(ByteBuf!ZeroBuf)
    BY <1>1, ValidBufIsShaped, ShapedZero
  <2> QED BY <2>2, <2>5, <2>6, <2>7, <1>0 DEF Called, BufRight, ByteBuf!Asserts, ByteBuf!Asserts2
<1> QED BY <1>5, <1>6

(* Nothing was done. *)
LEMMA Kept ==
    ASSUME BufGiven, NEW w, Called(w), NEW r, w = ByteBuf!Same(r)
    PROVE  /\ obj' = old.obj /\ mem' = old.mem /\ ret' = r
           /\ \A x \in DOMAIN obj' : Shaped(obj'[x])
           /\ TypedMemory(mem')
           /\ \A x, b : b # "null" /\ ValidBuf(old.obj[x], old.mem, b) =>
                  ByteBuf!BufSame(x)' /\ ByteBuf!IsValid(x)'
           /\ \A x : ByteBuf!Untouched(x)' /\ ~ByteBuf!Modified(x)'
           /\ \A p : ~ByteBuf!BytesModified(p)'
<1>1. obj' = old.obj /\ mem' = old.mem /\ ret' = r /\ old' = old
  BY DEF Called, ByteBuf!Same, ByteBuf!Does
<1>2. ASSUME NEW x, NEW b, b # "null", ValidBuf(old.obj[x], old.mem, b)
      PROVE  ByteBuf!BufSame(x)' /\ ByteBuf!IsValid(x)'
  <2>1. \A i \in 0 .. old.obj[x].len - 1 : i \in DOMAIN old.mem[b]
    BY <1>2, ValidBufIs, BufConstants DEF ByteBlock
  <2>2. b \in DOMAIN old.mem
    BY <1>2, ValidBufIs
  <2> QED BY <1>1, <1>2, <2>1, <2>2, PrefixKept, ValidIsValid DEF ByteBuf!BufSame, ByteBuf!SavedBuf, ByteBuf!IsValid
<1>3. \A p : ~ByteBuf!BytesModified(p)'
  BY <1>1 DEF ByteBuf!BytesModified
<1>4. \A x : ByteBuf!Untouched(x)' /\ ~ByteBuf!Modified(x)'
  BY <1>1 DEF ByteBuf!Untouched, ByteBuf!Modified, ByteBuf!BytesModified
<1>5. TypedMemory(old.mem) /\ \A x \in DOMAIN old.obj : Shaped(old.obj[x])
  BY DEF BufGiven
<1> QED BY <1>1, <1>2, <1>3, <1>4, <1>5

(* n bytes were added to buffer x. *)
LEMMA Added ==
    ASSUME BufGiven, NEW w, Called(w), NEW x, x # "null", x \in DOMAIN old.obj, ValidBuf(old.obj[x], old.mem, x),
           NEW n \in Nat, n <= old.obj[x].capacity - old.obj[x].len, NEW bytes \in ByteBlock(Byte, n), NEW r,
           w = ByteBuf!Answers(ByteBuf!Add(x, bytes, n), r)
    PROVE  /\ ret' = r /\ DOMAIN obj' = DOMAIN old.obj
           /\ obj'[x] = [buffer |-> old.obj[x].buffer, len |-> old.obj[x].len + n,
                         capacity |-> old.obj[x].capacity, allocator |-> "sea"]
           /\ DOMAIN mem' = DOMAIN old.mem
           /\ \A c \in DOMAIN old.mem \ {x} : mem'[c] = old.mem[c]
           /\ mem'[x] \in ByteBlock(Byte, old.obj[x].capacity)
           /\ \A i \in 0 .. n - 1 : mem'[x][old.obj[x].len + i] = bytes[i]
           /\ ByteBuf!IsValid(x)'
           /\ \A y \in DOMAIN obj' : Shaped(obj'[y])
           /\ TypedMemory(mem')
           /\ \A p : p.block # x => ~ByteBuf!BytesModified(p)'
<1> DEFINE b == old.obj[x]
           m2 == ByteBuf!Store(mem, ByteBuf!End(b), bytes, n)
<1>1. obj' = [obj EXCEPT ![x].len = @ + n] /\ mem' = m2 /\ ret' = r /\ old' = old /\ obj = old.obj /\ mem = old.mem
  BY DEF Called, ByteBuf!Answers, ByteBuf!Add, ByteBuf!Does
<1>2. /\ b.len \in Nat /\ b.capacity \in 0 .. MaxBuf /\ b.len <= b.capacity
      /\ b = [buffer |-> b.buffer, len |-> b.len, capacity |-> b.capacity, allocator |-> "sea"]
      /\ b.capacity > 0 => b.buffer = Start(x)
      /\ b.capacity = 0 => b.buffer = Null
      /\ x \in DOMAIN old.mem
  BY ValidBufIs
<1>3. /\ DOMAIN m2 = DOMAIN old.mem
      /\ \A c \in DOMAIN old.mem \ {x} : m2[c] = old.mem[c]
      /\ m2[x] \in ByteBlock(Byte, b.capacity)
      /\ \A i \in 0 .. n - 1 : m2[x][b.len + i] = bytes[i]
  BY <1>1, BufStore
<1> HIDE DEF m2
<1>4. obj' = [old.obj EXCEPT ![x] = [b EXCEPT !.len = b.len + n]]
  BY <1>1
<1>5. obj'[x] = [buffer |-> b.buffer, len |-> b.len + n, capacity |-> b.capacity, allocator |-> "sea"]
      /\ DOMAIN obj' = DOMAIN old.obj /\ \A y \in DOMAIN old.obj \ {x} : obj'[y] = old.obj[y]
  BY <1>2, <1>4
<1>6. TypedMemory(old.mem) /\ \A y \in DOMAIN old.obj : Shaped(old.obj[y])
  BY DEF BufGiven
<1>7. Shaped(obj'[x])
  BY <1>2, <1>5, BufConstants DEF Shaped
<1>8. Typed(m2[x])
  BY <1>2, <1>3, TypedBlock, BufConstants
<1>9. TypedMemory(m2)
  BY <1>3, <1>6, <1>8 DEF TypedMemory
<1>10. ByteBuf!IsValid(x)'
  BY <1>2, <1>5, NullIs, StartIsNotNull, BufConstants DEF ByteBuf!IsValid, ByteBuf!BufIsValid
<1>11. ASSUME NEW p, p.block # x PROVE ~ByteBuf!BytesModified(p)'
  BY <1>1, <1>3, <1>11 DEF ByteBuf!BytesModified
<1> QED BY <1>1, <1>3, <1>5, <1>6, <1>7, <1>9, <1>10, <1>11

LEMMA SameBytesMatch ==
    ASSUME NEW m, NEW b, NEW b2, b # "null", b2 # "null", NEW n \in Nat, NEW p, NEW q,
           Source(p, n, m, b), Source(q, n, m, b2),
           ByteBuf!BytesAt(m, p, n) = ByteBuf!BytesAt(m, q, n)
    PROVE  ByteBuf!AssertBytesMatch(m, p, q, n)
<1>1. CASE n = 0
  BY <1>1 DEF ByteBuf!AssertBytesMatch
<1>2. CASE n > 0
  <2>1. /\ p = [block |-> b, at |-> 0] /\ b \in DOMAIN m /\ q = [block |-> b2, at |-> 0] /\ b2 \in DOMAIN m
        /\ \A i \in 0 .. n - 1 : i \in DOMAIN m[b] /\ i \in DOMAIN m[b2]
    BY <1>2 DEF Source, Start, ByteBlock
  <2>2. \A i \in 0 .. n - 1 : 0 + i \in DOMAIN m[b] /\ 0 + i \in DOMAIN m[b2] /\ m[b][0 + i] = m[b2][0 + i]
    BY <2>1, SourceBytes
  <2> QED BY <2>1, <2>2, BytesMatchIs
<1> QED BY <1>1, <1>2

-----------------------------------------------------------------------------
(* The comparisons. *)

LEMMA ComparedSame ==
    ASSUME NEW b, NEW w \in ByteBuf!Says(b)
    PROVE  \E r \in {"true", "false"} : w = ByteBuf!Same(r) /\ (r = "true" => b)
BY DEF ByteBuf!Says

LEMMA EqRight ==
    ASSUME BufGiven, NEW w \in ByteBuf!Outcomes, Called(w), proof \in {"eq", "eq_ignore_case"}
    PROVE  BufRight'
<1> DEFINE l == old.obj.lhs
           k == old.obj.rhs
<1>1. LhsRhsGiven
  BY DEF BufGiven
<1>2. PICK b \in {"lhs", "rhs"} : ValidBuf(k, old.mem, b)
  BY <1>1 DEF LhsRhsGiven
<1>3. ValidBuf(l, old.mem, "lhs")
  BY <1>1 DEF LhsRhsGiven
<1>4. PICK r : w = ByteBuf!Same(r) /\ (r = "true" => l.len = k.len)
               /\ (proof = "eq" /\ r = "true" => ByteBuf!SameBytes(l.buffer, l.len, k.buffer, k.len))
  <2>1. CASE proof = "eq"
    <3>1. w \in ByteBuf!Says(ByteBuf!SameBytes(l.buffer, l.len, k.buffer, k.len))
      BY <2>1 DEF ByteBuf!Outcomes, Called
    <3> QED BY <3>1, ComparedSame DEF ByteBuf!SameBytes
  <2>2. CASE proof = "eq_ignore_case"
    <3>1. w \in ByteBuf!SaysIgnoringCase(l.buffer, l.len, k.buffer, k.len)
      BY <2>2 DEF ByteBuf!Outcomes, Called
    <3> QED BY <2>2, <3>1 DEF ByteBuf!SaysIgnoringCase, ByteBuf!Says, ByteBuf!SameBytes
  <2> QED BY <2>1, <2>2
<1>5. /\ obj' = old.obj /\ mem' = old.mem /\ ret' = r
      /\ \A x \in DOMAIN obj' : Shaped(obj'[x])
      /\ TypedMemory(mem')
      /\ \A x \in {"lhs", "rhs"} : ByteBuf!BufSame(x)' /\ ByteBuf!IsValid(x)' /\ ByteBuf!Untouched(x)'
  BY <1>2, <1>3, <1>4, Kept
<1>6. ASSUME proof = "eq", r = "true" PROVE ByteBuf!AssertBytesMatch(old.mem, l.buffer, k.buffer, l.len)
  <2>1. l.len = k.len /\ ByteBuf!BytesAt(old.mem, l.buffer, l.len) = ByteBuf!BytesAt(old.mem, k.buffer, l.len)
    BY <1>4, <1>6 DEF ByteBuf!SameBytes, Called
  <2>2. Source(l.buffer, l.len, old.mem, "lhs") /\ Source(k.buffer, k.len, old.mem, b) /\ l.len \in Nat
    BY <1>2, <1>3, BufSource
  <2> QED BY <2>1, <2>2, SameBytesMatch
<1>7. proof' = proof
  BY DEF Called
<1>8. ByteBuf!Asserts'
  BY <1>4, <1>5, <1>6, <1>7 DEF ByteBuf!Asserts, ByteBuf!ByteBufEqAsserts, ByteBuf!ByteBufEqIgnoreCaseAsserts,
     ByteBuf!BothSame, ByteBuf!BytesMatch
<1>9. ByteBuf!Asserts2'
  BY <1>4, <1>5, <1>6, <1>7 DEF ByteBuf!Asserts2, ByteBuf!ByteBufEq2Asserts, ByteBuf!ByteBufEqIgnoreCase2Asserts,
     ByteBuf!BytesMatch
<1> QED BY <1>5, <1>8, <1>9 DEF BufRight

LEMMA EqStrRight ==
    ASSUME BufGiven, NEW w \in ByteBuf!Outcomes, Called(w), proof \in {"eq_c_str", "eq_c_str_ignore_case"}
    PROVE  BufRight'
<1> DEFINE l == old.obj.buf
<1>1. StrGiven
  BY DEF BufGiven
<1>2. ValidBuf(l, old.mem, "buf") /\ arg.len \in Nat /\ Source(arg.c_str, arg.len, old.mem, "c_str")
  BY <1>1, BufConstants DEF StrGiven
<1>4. PICK r : w = ByteBuf!Same(r) /\ (r = "true" => l.len = arg.len)
               /\ (proof = "eq_c_str" /\ r = "true" => ByteBuf!SameBytes(l.buffer, l.len, arg.c_str, arg.len))
  <2>1. CASE proof = "eq_c_str"
    <3>1. w \in ByteBuf!Says(ByteBuf!SameBytes(l.buffer, l.len, arg.c_str, arg.len))
      BY <2>1 DEF ByteBuf!Outcomes, Called
    <3> QED BY <3>1, ComparedSame DEF ByteBuf!SameBytes
  <2>2. CASE proof = "eq_c_str_ignore_case"
    <3>1. w \in ByteBuf!SaysIgnoringCase(l.buffer, l.len, arg.c_str, arg.len)
      BY <2>2 DEF ByteBuf!Outcomes, Called
    <3> QED BY <2>2, <3>1 DEF ByteBuf!SaysIgnoringCase, ByteBuf!Says, ByteBuf!SameBytes
  <2> QED BY <2>1, <2>2
<1>5. /\ obj' = old.obj /\ mem' = old.mem /\ ret' = r
      /\ \A x \in DOMAIN obj' : Shaped(obj'[x])
      /\ TypedMemory(mem')
      /\ ByteBuf!BufSame("buf")' /\ ByteBuf!IsValid("buf")' /\ ByteBuf!Untouched("buf")'
      /\ \A p : ~ByteBuf!BytesModified(p)'
  BY <1>2, <1>4, Kept
<1>6. ASSUME proof = "eq_c_str", r = "true" PROVE ByteBuf!AssertBytesMatch(old.mem, l.buffer, arg.c_str, l.len)
  <2>1. l.len = arg.len /\ ByteBuf!BytesAt(old.mem, l.buffer, l.len) = ByteBuf!BytesAt(old.mem, arg.c_str, l.len)
    BY <1>4, <1>6 DEF ByteBuf!SameBytes, Called
  <2>2. Source(l.buffer, l.len, old.mem, "buf") /\ l.len \in Nat
    BY <1>2, BufSource
  <2> QED BY <1>2, <2>1, <2>2, SameBytesMatch
<1>7. proof' = proof /\ arg' = arg /\ old' = old
  BY DEF Called
<1>a. ByteBuf!StrSame'
  <2>1. arg.len > 0 => "c_str" \in DOMAIN old.mem
    BY <1>2 DEF Source
  <2>2. arg.len > 0 => ByteBuf!AllMatch(old.mem, arg.c_str, ByteBuf!SaveByteFromArray(old.mem, arg.c_str, arg.len))
    BY <1>2, <2>1, SourceKept
  <2> QED BY <1>5, <1>7, <2>2 DEF ByteBuf!StrSame, ByteBuf!SavedStr
<1>8. ByteBuf!Asserts'
  BY <1>4, <1>5, <1>6, <1>7, <1>a DEF ByteBuf!Asserts, ByteBuf!ByteBufEqCStrAsserts, ByteBuf!ByteBufEqCStrIgnoreCaseAsserts,
     ByteBuf!BytesMatch
<1>9. ByteBuf!Asserts2'
  BY <1>4, <1>5, <1>6, <1>7 DEF ByteBuf!Asserts2, ByteBuf!ByteBufEqCStr2Asserts, ByteBuf!ByteBufEqCStrIgnoreCase2Asserts,
     ByteBuf!BytesMatch
<1> QED BY <1>5, <1>8, <1>9 DEF BufRight

-----------------------------------------------------------------------------
(* The writes. *)

WriteDone(n, bytes) ==
    /\ ret' = "true"
    /\ n <= old.obj.buf.capacity - old.obj.buf.len
    /\ obj'.buf = [buffer |-> old.obj.buf.buffer, len |-> old.obj.buf.len + n,
                   capacity |-> old.obj.buf.capacity, allocator |-> "sea"]
    /\ DOMAIN mem' = DOMAIN old.mem
    /\ \A c \in DOMAIN old.mem \ {"buf"} : mem'[c] = old.mem[c]
    /\ mem'["buf"] \in ByteBlock(Byte, old.obj.buf.capacity)
    /\ \A i \in 0 .. n - 1 : mem'["buf"][old.obj.buf.len + i] = bytes[i]

WriteNotDone ==
    /\ ret' = "false" /\ obj' = old.obj /\ mem' = old.mem
    /\ ByteBuf!BufSame("buf")' /\ ByteBuf!Untouched("buf")'

LEMMA OneBufIs == ASSUME NEW o, NEW v, o = [buf |-> v] PROVE DOMAIN o = {"buf"} /\ "buf" \in DOMAIN o /\ o.buf = v
OBVIOUS

LEMMA BigEndianIs ==
    ASSUME NEW n \in Nat, NEW x \in ByteBlock(Byte, n) PROVE ByteBuf!BigEndian(x, n) \in ByteBlock(Byte, n)
<1>1. ASSUME NEW i \in 0 .. n - 1 PROVE x[n - 1 - i] \in Byte
  <2>1. n - 1 - i \in 0 .. n - 1
    OBVIOUS
  <2> QED BY <2>1 DEF ByteBlock
<1>2. ByteBuf!BigEndian(x, n) = [i \in 0 .. n - 1 |-> x[n - 1 - i]]
  BY DEF ByteBuf!BigEndian
<1> QED BY <1>1, <1>2 DEF ByteBlock

LEMMA WriteIs ==
    ASSUME BufGiven, NEW w, Called(w), "buf" \in DOMAIN old.obj, ValidBuf(old.obj.buf, old.mem, "buf"),
           NEW n \in Nat, NEW bytes \in ByteBlock(Byte, n), w \in ByteBuf!Write("buf", bytes, n)
    PROVE  /\ WriteDone(n, bytes) \/ WriteNotDone
           /\ ByteBuf!IsValid("buf")'
           /\ \A x \in DOMAIN obj' : Shaped(obj'[x])
           /\ TypedMemory(mem')
           /\ \A p : p.block # "buf" => ~ByteBuf!BytesModified(p)'
<1>2. obj = old.obj
  BY DEF Called
<1>3. CASE n <= old.obj.buf.capacity - old.obj.buf.len /\ w = ByteBuf!Answers(ByteBuf!Add("buf", bytes, n), "true")
  <2>1. "buf" # "null" /\ n <= old.obj["buf"].capacity - old.obj["buf"].len
    BY <1>3
  <2> QED BY <1>3, <2>1, Added DEF WriteDone
<1>4. CASE w = ByteBuf!Same("false")
  BY <1>4, Kept DEF WriteNotDone
<1>5. \/ n <= old.obj.buf.capacity - old.obj.buf.len /\ w = ByteBuf!Answers(ByteBuf!Add("buf", bytes, n), "true")
      \/ w = ByteBuf!Same("false")
  BY <1>2 DEF ByteBuf!Write, ByteBuf!Fits
<1> QED BY <1>3, <1>4, <1>5

LEMMA WrittenIs ==
    ASSUME NEW n \in Nat, NEW bytes, WriteDone(n, bytes) \/ WriteNotDone, UNCHANGED old,
           ValidBuf(old.obj.buf, old.mem, "buf")
    PROVE  /\ IF ret' = "true"
              THEN /\ obj'.buf.len = old.obj.buf.len + n
                   /\ obj'.buf.capacity = old.obj.buf.capacity
                   /\ obj'.buf.allocator = old.obj.buf.allocator
              ELSE ByteBuf!BufSame("buf")' /\ ByteBuf!Untouched("buf")'
           /\ IF ret' = "true" THEN ByteBuf!SameFields("buf", {"capacity", "allocator"})'
                                    /\ ByteBuf!SameFields("buf", {"capacity"})'
              ELSE ~ByteBuf!Modified("buf")'
<1>1. old.obj.buf.allocator = "sea"
  BY ValidBufIs
<1> QED BY <1>1 DEF WriteDone, WriteNotDone, ByteBuf!SameFields, ByteBuf!Untouched

(* The bytes added are those of their source, which is another block.       *)
LEMMA AddedMatch ==
    ASSUME ValidBuf(old.obj.buf, old.mem, "buf"), NEW n \in Nat, n > 0, NEW p, NEW b, b # "null", b # "buf",
           Source(p, n, old.mem, b), WriteDone(n, ByteBuf!BytesAt(old.mem, p, n))
    PROVE  ByteBuf!AssertBytesMatch(mem', ByteBuf!Plus(obj'.buf.buffer, old.obj.buf.len), p, n)
<1> DEFINE o == old.obj.buf
<1>1. o.len \in Nat /\ o.capacity \in Nat /\ o.len <= o.capacity /\ n <= o.capacity - o.len /\ "buf" \in DOMAIN old.mem
      /\ (o.capacity > 0 => o.buffer = Start("buf"))
  BY ValidBufIs, BufConstants DEF WriteDone
<1>2. obj'.buf.buffer = Start("buf")
  BY <1>1 DEF WriteDone
<1>3. ByteBuf!Plus(obj'.buf.buffer, o.len) = [block |-> "buf", at |-> o.len]
  BY <1>1, <1>2, PlusIs
<1>4. p = [block |-> b, at |-> 0] /\ b \in DOMAIN old.mem /\ \A i \in 0 .. n - 1 : i \in DOMAIN old.mem[b]
  BY DEF Source, Start, ByteBlock
<1>5. ASSUME NEW i \in 0 .. n - 1
      PROVE  /\ o.len + i \in DOMAIN mem'["buf"] /\ 0 + i \in DOMAIN mem'[b]
             /\ mem'["buf"][o.len + i] = mem'[b][0 + i]
  <2>1. mem'["buf"][o.len + i] = ByteBuf!BytesAt(old.mem, p, n)[i]
    BY DEF WriteDone
  <2>2. ByteBuf!BytesAt(old.mem, p, n)[i] = old.mem[b][i]
    BY SourceBytes
  <2>3. mem'[b] = old.mem[b] /\ 0 + i = i
    BY <1>4 DEF WriteDone
  <2>4. o.len + i \in DOMAIN mem'["buf"]
    <3>1. DOMAIN mem'["buf"] = 0 .. o.capacity - 1
      BY DEF WriteDone, ByteBlock
    <3>2. o.len + i \in 0 .. o.capacity - 1
      BY <1>1
    <3> QED BY <3>1, <3>2
  <2> QED BY <1>4, <2>1, <2>2, <2>3, <2>4
<1>6. "buf" \in DOMAIN mem' /\ b \in DOMAIN mem'
  BY <1>1, <1>4 DEF WriteDone
<1> QED BY <1>1, <1>3, <1>4, <1>5, <1>6, BytesMatchIs

LEMMA IntegerRight ==
    ASSUME BufGiven, NEW w \in ByteBuf!Outcomes, Called(w),
           proof \in {"write_be16", "write_be32", "write_be64", "write_u8"}
    PROVE  BufRight'
<1> DEFINE n == CASE proof = "write_be16" -> Be16 [] proof = "write_be32" -> Be32
                  [] proof = "write_be64" -> Be64 [] OTHER -> 1
<1>1. IntegerGiven(n) /\ n \in Nat
  BY BufConstants DEF BufGiven
<1>2. PICK bytes \in ByteBlock(Byte, n) : w \in ByteBuf!Write("buf", bytes, n)
  <2>1. CASE proof = "write_u8"
    BY <1>1, <2>1 DEF IntegerGiven, ByteBuf!Outcomes
  <2>2. CASE proof # "write_u8"
    <3>1. w \in ByteBuf!Write("buf", ByteBuf!BigEndian(arg.x, n), n)
      BY <1>1, <2>2 DEF IntegerGiven, ByteBuf!Outcomes
    <3>2. arg.x \in ByteBlock(Byte, n) /\ n \in Nat
      BY <1>1 DEF IntegerGiven
    <3> HIDE DEF n
    <3>3. ByteBuf!BigEndian(arg.x, n) \in ByteBlock(Byte, n)
      BY <3>2, BigEndianIs
    <3> QED BY <3>1, <3>3
  <2> QED BY <2>1, <2>2
<1> HIDE DEF n
<1>3. /\ WriteDone(n, bytes) \/ WriteNotDone
      /\ ByteBuf!IsValid("buf")'
      /\ \A x \in DOMAIN obj' : Shaped(obj'[x])
      /\ TypedMemory(mem')
  <2>1. "buf" \in DOMAIN old.obj
    BY <1>1, OneBufIs DEF IntegerGiven, OneGiven
  <2> QED BY <1>1, <1>2, <2>1, WriteIs DEF IntegerGiven, OneGiven
<1>4. /\ IF ret' = "true" THEN obj'.buf.len = old.obj.buf.len + n
         ELSE ByteBuf!BufSame("buf")' /\ ByteBuf!Untouched("buf")'
      /\ IF ret' = "true" THEN ByteBuf!SameFields("buf", {"capacity", "allocator"})'
                               /\ ByteBuf!SameFields("buf", {"capacity"})'
         ELSE ~ByteBuf!Modified("buf")'
  BY <1>1, <1>3, WrittenIs DEF IntegerGiven, OneGiven, Called
<1>5. UNCHANGED <<proof, old>>
  BY DEF Called
<1>6. ByteBuf!Asserts'
  BY <1>3, <1>4, <1>5 DEF n, ByteBuf!Asserts, ByteBuf!ByteBufWriteBe16Asserts, ByteBuf!ByteBufWriteBe32Asserts,
     ByteBuf!ByteBufWriteBe64Asserts, ByteBuf!ByteBufWriteU8Asserts, ByteBuf!Written
<1>7. ByteBuf!Asserts2'
  BY <1>3, <1>4, <1>5 DEF n, ByteBuf!Asserts2, ByteBuf!ByteBufWriteBe162Asserts, ByteBuf!ByteBufWriteBe322Asserts,
     ByteBuf!ByteBufWriteBe642Asserts, ByteBuf!ByteBufWriteU82Asserts, ByteBuf!WrittenOrUntouched
<1> QED BY <1>3, <1>6, <1>7 DEF BufRight

Changed(p) == p.block \in DOMAIN old.mem /\ (p.block \notin DOMAIN mem' \/ mem'[p.block] # old.mem[p.block])

(* Bytes that a write reads from another block. *)
LEMMA FromSource ==
    ASSUME BufGiven, NEW w, Called(w), NEW p, NEW n, NEW b, b # "null", b # "buf", WriteGiven(p, n, b),
           w \in ByteBuf!Write("buf", ByteBuf!BytesAt(old.mem, p, n), n)
    PROVE  /\ ByteBuf!IsValid("buf")'
           /\ \A x \in DOMAIN obj' : Shaped(obj'[x])
           /\ TypedMemory(mem')
           /\ ~Changed(p)
           /\ IF ret' = "true"
              THEN /\ obj'.buf.len = old.obj.buf.len + n
                   /\ n <= old.obj.buf.capacity - old.obj.buf.len
                   /\ ByteBuf!SameFields("buf", {"capacity", "allocator"})'
                   /\ ByteBuf!SameFields("buf", {"capacity"})'
                   /\ n > 0 => ByteBuf!AssertBytesMatch(mem', ByteBuf!Plus(obj'.buf.buffer, old.obj.buf.len), p, n)
              ELSE ByteBuf!BufSame("buf")' /\ ByteBuf!Untouched("buf")' /\ ~ByteBuf!Modified("buf")'
           /\ n > 0 => ByteBuf!AllMatch(mem', p, ByteBuf!SaveByteFromArray(old.mem, p, n))
<1> DEFINE bytes == ByteBuf!BytesAt(old.mem, p, n)
<1>1. n \in Nat /\ Source(p, n, old.mem, b) /\ ValidBuf(old.obj.buf, old.mem, "buf") /\ "buf" \in DOMAIN old.obj
  BY OneBufIs DEF WriteGiven
<1>2. bytes \in ByteBlock(Byte, n)
  BY <1>1, SourceBytes
<1>3. /\ WriteDone(n, bytes) \/ WriteNotDone
      /\ ByteBuf!IsValid("buf")'
      /\ \A x \in DOMAIN obj' : Shaped(obj'[x])
      /\ TypedMemory(mem')
      /\ \A q : q.block # "buf" => ~ByteBuf!BytesModified(q)'
  <2> HIDE DEF bytes
  <2>1. w \in ByteBuf!Write("buf", bytes, n)
    BY DEF bytes
  <2> QED BY <1>1, <1>2, <2>1, WriteIs
<1>5. UNCHANGED old
  BY DEF Called
<1>4. p.block # "buf"
  BY <1>1 DEF Source, Null, Start
<1>d. ~Changed(p)
  BY <1>3, <1>4, <1>5 DEF Changed, ByteBuf!BytesModified
<1>6. n > 0 => ByteBuf!AllMatch(mem', p, ByteBuf!SaveByteFromArray(old.mem, p, n))
  <2> SUFFICES ASSUME n > 0 PROVE ByteBuf!AllMatch(mem', p, ByteBuf!SaveByteFromArray(old.mem, p, n))
    OBVIOUS
  <2>1. b \in DOMAIN old.mem
    BY <1>1 DEF Source
  <2>2. b \in DOMAIN mem' /\ mem'[b] = old.mem[b]
    BY <1>3, <2>1 DEF WriteDone, WriteNotDone
  <2> QED BY <1>1, <2>2, SourceKept
<1>7. WriteDone(n, bytes) /\ n > 0 =>
          ByteBuf!AssertBytesMatch(mem', ByteBuf!Plus(obj'.buf.buffer, old.obj.buf.len), p, n)
  BY <1>1, AddedMatch
<1> HIDE DEF bytes
<1>8. /\ IF ret' = "true"
         THEN /\ obj'.buf.len = old.obj.buf.len + n
              /\ obj'.buf.capacity = old.obj.buf.capacity
              /\ obj'.buf.allocator = old.obj.buf.allocator
         ELSE ByteBuf!BufSame("buf")' /\ ByteBuf!Untouched("buf")'
      /\ IF ret' = "true" THEN ByteBuf!SameFields("buf", {"capacity", "allocator"})'
                               /\ ByteBuf!SameFields("buf", {"capacity"})'
         ELSE ~ByteBuf!Modified("buf")'
  BY <1>1, <1>3, <1>5, WrittenIs
<1>9. ret' = "true" => WriteDone(n, bytes) /\ n <= old.obj.buf.capacity - old.obj.buf.len
  BY <1>3 DEF WriteDone, WriteNotDone
<1> QED BY <1>3, <1>d, <1>6, <1>7, <1>8, <1>9

LEMMA WriteRight ==
    ASSUME BufGiven, NEW w \in ByteBuf!Outcomes, Called(w), proof = "write"
    PROVE  BufRight'
<1> DEFINE p == arg.array
           n == arg.len
<1>1. WriteGiven(p, n, "array")
  BY DEF BufGiven
<1>2. w \in ByteBuf!Write("buf", ByteBuf!BytesAt(old.mem, p, n), n)
  BY DEF ByteBuf!Outcomes, Called
<1>3. "array" # "null" /\ "array" # "buf"
  OBVIOUS
<1>4. UNCHANGED <<proof, old, arg>>
  BY DEF Called
<1> HIDE DEF p, n
<1>5. /\ ByteBuf!IsValid("buf")'
      /\ \A x \in DOMAIN obj' : Shaped(obj'[x])
      /\ TypedMemory(mem')
      /\ IF ret' = "true"
         THEN /\ obj'.buf.len = old.obj.buf.len + n
              /\ ByteBuf!SameFields("buf", {"capacity", "allocator"})'
              /\ ByteBuf!SameFields("buf", {"capacity"})'
              /\ n > 0 => ByteBuf!AssertBytesMatch(mem', ByteBuf!Plus(obj'.buf.buffer, old.obj.buf.len), p, n)
         ELSE ByteBuf!BufSame("buf")' /\ ByteBuf!Untouched("buf")' /\ ~ByteBuf!Modified("buf")'
  BY <1>1, <1>2, <1>3, FromSource
<1>6. ByteBuf!Asserts'
  BY <1>4, <1>5 DEF n, p, ByteBuf!Asserts, ByteBuf!ByteBufWriteAsserts, ByteBuf!Written, ByteBuf!AddedBytesMatch,
     ByteBuf!BytesMatch
<1>7. ByteBuf!Asserts2'
  BY <1>4, <1>5 DEF n, p, ByteBuf!Asserts2, ByteBuf!ByteBufWrite2Asserts, ByteBuf!WrittenOrUntouched,
     ByteBuf!AddedBytesMatch, ByteBuf!BytesMatch
<1> QED BY <1>5, <1>6, <1>7 DEF BufRight

LEMMA WriteWholeRight ==
    ASSUME BufGiven, NEW w \in ByteBuf!Outcomes, Called(w),
           proof \in {"write_from_whole_buffer", "write_from_whole_cursor"}
    PROVE  BufRight'
<1> DEFINE p == arg.src.ptr
           n == arg.src.len
<1>1. WriteGiven(p, n, "src")
  BY DEF BufGiven
<1>2. w \in ByteBuf!Write("buf", ByteBuf!BytesAt(old.mem, p, n), n)
  BY DEF ByteBuf!Outcomes, Called, ByteBuf!CursorBytes
<1>3. "src" # "null" /\ "src" # "buf"
  OBVIOUS
<1>4. UNCHANGED <<proof, old, arg>>
  BY DEF Called
<1>a. n > 0 => p # ByteBuf!Null
  BY <1>1, <1>3, NullIs, StartIsNotNull DEF WriteGiven, Source
<1>b. ByteBuf!CursorIsValid(arg.src)
  BY <1>a, <1>1 DEF ByteBuf!CursorIsValid, WriteGiven
<1> HIDE DEF p, n
<1>5. /\ ByteBuf!IsValid("buf")'
      /\ \A x \in DOMAIN obj' : Shaped(obj'[x])
      /\ TypedMemory(mem')
      /\ ~Changed(p)
      /\ IF ret' = "true"
         THEN /\ obj'.buf.len = old.obj.buf.len + n
              /\ ByteBuf!SameFields("buf", {"capacity", "allocator"})'
              /\ ByteBuf!SameFields("buf", {"capacity"})'
              /\ n > 0 => ByteBuf!AssertBytesMatch(mem', ByteBuf!Plus(obj'.buf.buffer, old.obj.buf.len), p, n)
         ELSE ByteBuf!BufSame("buf")' /\ ByteBuf!Untouched("buf")' /\ ~ByteBuf!Modified("buf")'
      /\ n > 0 => ByteBuf!AllMatch(mem', p, ByteBuf!SaveByteFromArray(old.mem, p, n))
  BY <1>1, <1>2, <1>3, FromSource
<1>c. (~ByteBuf!BytesModified(arg.src.ptr))'
  BY <1>4, <1>5 DEF p, Changed, ByteBuf!BytesModified
<1>6. ByteBuf!Asserts'
  BY <1>4, <1>5, <1>b DEF n, p, ByteBuf!Asserts, ByteBuf!ByteBufWriteFromWholeBufferAsserts,
     ByteBuf!ByteBufWriteFromWholeCursorAsserts, ByteBuf!Written, ByteBuf!AddedBytesMatch,
     ByteBuf!BytesMatch, ByteBuf!SavedArg, ByteBuf!AssertByteCursorEquivalence
<1>7. ByteBuf!Asserts2'
  BY <1>4, <1>5, <1>b, <1>c DEF n, p, ByteBuf!Asserts2, ByteBuf!ByteBufWriteFromWholeBuffer2Asserts,
     ByteBuf!ByteBufWriteFromWholeCursor2Asserts, ByteBuf!FromWhole, ByteBuf!WrittenOrUntouched,
     ByteBuf!AddedBytesMatch, ByteBuf!BytesMatch
<1> QED BY <1>5, <1>6, <1>7 DEF BufRight

LEMMA WriteStringRight ==
    ASSUME BufGiven, NEW w \in ByteBuf!Outcomes, Called(w), proof = "write_from_whole_string"
    PROVE  BufRight'
<1> DEFINE p == arg.str.bytes
           n == arg.str.len
<1>1. WriteGiven(p, n, "str") /\ arg.given \in BOOLEAN
  BY DEF BufGiven
<1>2. \/ p # ByteBuf!Null /\ w \in ByteBuf!Write("buf", ByteBuf!BytesAt(old.mem, p, n), n)
      \/ w = ByteBuf!Same("false")
  BY <1>1 DEF ByteBuf!Outcomes, Called
<1>3. "str" # "null" /\ "str" # "buf"
  OBVIOUS
<1>4. UNCHANGED <<proof, old, arg>>
  BY DEF Called
<1> HIDE DEF p, n
<1>5. /\ ByteBuf!IsValid("buf")'
      /\ \A x \in DOMAIN obj' : Shaped(obj'[x])
      /\ TypedMemory(mem')
      /\ IF ret' = "true"
         THEN /\ obj'.buf.len = old.obj.buf.len + n
              /\ n <= old.obj.buf.capacity - old.obj.buf.len
              /\ ByteBuf!SameFields("buf", {"capacity", "allocator"})'
              /\ ByteBuf!SameFields("buf", {"capacity"})'
              /\ n > 0 => ByteBuf!AssertBytesMatch(mem', ByteBuf!Plus(obj'.buf.buffer, old.obj.buf.len), p, n)
              /\ p # ByteBuf!Null
         ELSE ByteBuf!BufSame("buf")' /\ ByteBuf!Untouched("buf")'
  <2>1. CASE p # ByteBuf!Null /\ w \in ByteBuf!Write("buf", ByteBuf!BytesAt(old.mem, p, n), n)
    BY <1>1, <1>3, <2>1, FromSource
  <2>2. CASE w = ByteBuf!Same("false")
    <3>1. ValidBuf(old.obj.buf, old.mem, "buf") /\ "buf" # "null"
      BY <1>1 DEF WriteGiven
    <3>2. ret' = "false" /\ ByteBuf!BufSame("buf")' /\ ByteBuf!Untouched("buf")' /\ ByteBuf!IsValid("buf")'
          /\ (\A x \in DOMAIN obj' : Shaped(obj'[x])) /\ TypedMemory(mem')
      BY <2>2, <3>1, Kept
    <3> QED BY <3>2
  <2> QED BY <1>2, <2>1, <2>2
<1>a. old.obj.buf.capacity - old.obj.buf.len >= n <=> n <= old.obj.buf.capacity - old.obj.buf.len
  OBVIOUS
<1>6. ByteBuf!Asserts'
  BY <1>4, <1>5, <1>a DEF n, p, ByteBuf!Asserts, ByteBuf!ByteBufWriteFromWholeStringAsserts, ByteBuf!AddedBytesMatch,
     ByteBuf!BytesMatch, ByteBuf!StringIsValid
<1>7. ByteBuf!Asserts2'
  BY <1>4, <1>5, <1>a DEF n, p, ByteBuf!Asserts2, ByteBuf!ByteBufWriteFromWholeString2Asserts,
     ByteBuf!AddedBytesMatch, ByteBuf!BytesMatch, ByteBuf!StringIsValid
<1> QED BY <1>5, <1>6, <1>7 DEF BufRight

-----------------------------------------------------------------------------
(* The appends. *)

LEMMA OneToIs == ASSUME NEW o, NEW v, o = [to |-> v] PROVE DOMAIN o = {"to"} /\ "to" \in DOMAIN o /\ o.to = v
OBVIOUS

(* What the unit proofs look at after an append. *)
AppendIsRight ==
    /\ ret' = "success" => obj'.to.len = old.obj.to.len + arg.from.len
    /\ ret' # "success" => ByteBuf!Untouched("to")' /\ ByteBuf!SameFields("to", {"len"})'
                           /\ ByteBuf!AssertBytesMatch(mem', old.obj.to.buffer, obj'.to.buffer, obj'.to.len)
    /\ ByteBuf!IsValid("to")' /\ ByteBuf!SameFields("to", {"allocator"})'
    /\ ~Changed(arg.from.ptr)
    /\ \A x \in DOMAIN obj' : Shaped(obj'[x])
    /\ TypedMemory(mem')

LEMMA FromIs ==
    ASSUME AppendGiven
    PROVE  /\ arg.from.len \in 0 .. MaxBuf /\ arg.from.len \in Nat
           /\ Source(arg.from.ptr, arg.from.len, old.mem, "from")
           /\ ByteBuf!CursorIsValid(arg.from)
           /\ ByteBuf!BytesAt(old.mem, arg.from.ptr, arg.from.len) \in ByteBlock(Byte, arg.from.len)
           /\ arg.from.ptr.block \in {"from", "null"}
           /\ "to" \in DOMAIN old.obj /\ ValidBuf(old.obj.to, old.mem, "to")
<1>1. arg.from.len \in 0 .. MaxBuf /\ arg.from.len \in Nat /\ Source(arg.from.ptr, arg.from.len, old.mem, "from")
  BY BufConstants DEF AppendGiven, SourceCursor
<1>2. ByteBuf!CursorIsValid(arg.from)
  BY <1>1, NullIs, StartIsNotNull DEF ByteBuf!CursorIsValid, Source
<1>3. arg.from.ptr.block \in {"from", "null"}
  BY <1>1 DEF Source, Start, Null
<1>4. "to" \in DOMAIN old.obj /\ ValidBuf(old.obj.to, old.mem, "to")
  BY OneToIs DEF AppendGiven
<1> QED BY <1>1, <1>2, <1>3, <1>4, SourceBytes

LEMMA FailedAppend ==
    ASSUME BufGiven, NEW w, Called(w), AppendGiven, w = ByteBuf!Same("error")
    PROVE  AppendIsRight /\ ByteBuf!SameFields("to", {"capacity"})' /\ ByteBuf!SameFields("to", {"allocator", "capacity"})'
<1>1. "to" \in DOMAIN old.obj /\ ValidBuf(old.obj.to, old.mem, "to") /\ "to" # "null" /\ UNCHANGED old
  BY FromIs DEF Called
<1>2. /\ ret' = "error" /\ obj' = old.obj /\ mem' = old.mem
      /\ \A x \in DOMAIN obj' : Shaped(obj'[x])
      /\ TypedMemory(mem')
      /\ ByteBuf!IsValid("to")' /\ ByteBuf!Untouched("to")'
  BY <1>1, Kept
<1>3. Source(old.obj.to.buffer, old.obj.to.len, old.mem, "to") /\ old.obj.to.len \in Nat
  BY <1>1, BufSource
<1>4. ByteBuf!AssertBytesMatch(old.mem, old.obj.to.buffer, old.obj.to.buffer, old.obj.to.len)
  BY <1>1, <1>3, SameBytesMatch
<1>5. ~Changed(arg.from.ptr)
  BY <1>2 DEF Changed
<1> QED BY <1>1, <1>2, <1>4, <1>5 DEF AppendIsRight, ByteBuf!SameFields

(* An append to a buffer with space, or one that reports an error. *)
LEMMA AppendToIs ==
    ASSUME BufGiven, NEW w, Called(w), AppendGiven, NEW bytes \in ByteBlock(Byte, arg.from.len),
           w \in ByteBuf!AppendTo("to", bytes, arg.from.len)
    PROVE  AppendIsRight /\ ByteBuf!SameFields("to", {"capacity"})' /\ ByteBuf!SameFields("to", {"allocator", "capacity"})'
<1> DEFINE n == arg.from.len
<1>1. /\ n \in Nat /\ arg.from.ptr.block \in {"from", "null"}
      /\ "to" \in DOMAIN old.obj /\ ValidBuf(old.obj.to, old.mem, "to")
  BY FromIs
<1>2. obj = old.obj /\ UNCHANGED old
  BY DEF Called
<1>3. \/ n <= old.obj.to.capacity - old.obj.to.len /\ w = ByteBuf!Answers(ByteBuf!Add("to", bytes, n), "success")
      \/ w = ByteBuf!Same("error")
  BY <1>2 DEF ByteBuf!AppendTo, ByteBuf!Fits
<1>4. bytes \in ByteBlock(Byte, n) /\ old.obj.to.allocator = "sea"
  BY <1>1, ValidBufIs
<1>5. CASE n <= old.obj.to.capacity - old.obj.to.len /\ w = ByteBuf!Answers(ByteBuf!Add("to", bytes, n), "success")
  <2> HIDE DEF n
  <2>1. "to" # "null" /\ n <= old.obj["to"].capacity - old.obj["to"].len
    BY <1>5
  <2>2. /\ ret' = "success"
        /\ obj'["to"] = [buffer |-> old.obj["to"].buffer, len |-> old.obj["to"].len + n,
                         capacity |-> old.obj["to"].capacity, allocator |-> "sea"]
        /\ ByteBuf!IsValid("to")'
        /\ \A y \in DOMAIN obj' : Shaped(obj'[y])
        /\ TypedMemory(mem')
        /\ \A p : p.block # "to" => ~ByteBuf!BytesModified(p)'
    BY <1>1, <1>4, <1>5, <2>1, Added
  <2>3. ~Changed(arg.from.ptr)
    BY <1>1, <1>2, <2>2 DEF Changed, ByteBuf!BytesModified
  <2> QED BY <1>2, <1>4, <2>2, <2>3 DEF n, AppendIsRight, ByteBuf!SameFields
<1>6. CASE w = ByteBuf!Same("error")
  BY <1>6, FailedAppend
<1> QED BY <1>3, <1>5, <1>6

(* An append that had to have new memory. *)
LEMMA GrownIsRight ==
    ASSUME BufGiven, NEW w, Called(w), AppendGiven,
           ~(arg.from.len <= old.obj.to.capacity - old.obj.to.len),
           NEW cap \in {old.obj.to.len + arg.from.len, 2 * old.obj.to.capacity}, cap >= old.obj.to.len + arg.from.len,
           NEW c \in ByteBlock(Byte, cap),
           w = ByteBuf!Does([to |-> ByteBuf!Buf(Start("new"), old.obj.to.len + arg.from.len, cap, old.obj.to.allocator)],
                            ByteBuf!WithNew(ByteBuf!Release(old.mem, old.obj.to.buffer), c), "success")
    PROVE  AppendIsRight
<1> DEFINE o == old.obj.to
           n == arg.from.len
<1>1. /\ n \in 0 .. MaxBuf /\ n \in Nat /\ arg.from.ptr.block \in {"from", "null"}
      /\ ValidBuf(o, old.mem, "to")
  BY FromIs
<1>2. o.len \in Nat /\ o.capacity \in 0 .. MaxBuf /\ o.len <= o.capacity /\ o.buffer \in {Null, Start("to")} /\ o.allocator = "sea"
  BY <1>1, ValidBufIs
<1>3. cap \in 0 .. 2 * MaxBuf /\ cap > 0 /\ o.len + n <= cap /\ o.len + n \in Nat
  BY <1>1, <1>2, BufConstants
<1>4. /\ obj' = [to |-> [buffer |-> Start("new"), len |-> o.len + n, capacity |-> cap, allocator |-> "sea"]]
      /\ mem' = [b \in (DOMAIN old.mem \ {o.buffer.block}) \cup {"new"} |->
                     IF b = "new" THEN c ELSE [d \in DOMAIN old.mem \ {o.buffer.block} |-> old.mem[d]][b]]
      /\ ret' = "success" /\ UNCHANGED old
  BY <1>2 DEF Called, ByteBuf!Does, ByteBuf!Buf, ByteBuf!WithNew, ByteBuf!Release
<1>5. /\ DOMAIN obj' = {"to"}
      /\ obj'.to = [buffer |-> Start("new"), len |-> o.len + n, capacity |-> cap, allocator |-> "sea"]
  BY <1>4
<1>6. ByteBuf!IsValid("to")'
  BY <1>3, <1>5, NullIs, StartIsNotNull DEF ByteBuf!IsValid, ByteBuf!BufIsValid
<1>7. \A x \in DOMAIN obj' : Shaped(obj'[x])
  BY <1>3, <1>5, BufConstants DEF Shaped
<1>8. o.buffer.block \in {"null", "to"}
  BY <1>2 DEF Null, Start
<1>9. TypedMemory(old.mem) /\ DOMAIN old.mem = {"to", "from"}
  BY DEF BufGiven, AppendGiven
<1>10. mem'["new"] = c /\ mem'["from"] = old.mem["from"] /\ "from" \in DOMAIN mem'
       /\ DOMAIN mem' = (DOMAIN old.mem \ {o.buffer.block}) \cup {"new"}
       /\ \A b \in DOMAIN old.mem \ {o.buffer.block} : mem'[b] = IF b = "new" THEN c ELSE old.mem[b]
  BY <1>4, <1>8, <1>9
<1>11. Typed(c)
  BY <1>3, TypedBlock
<1>12. TypedMemory(mem')
  BY <1>9, <1>10, <1>11 DEF TypedMemory
<1>13. ~Changed(arg.from.ptr)
  BY <1>1, <1>9, <1>10 DEF Changed
<1>14. ByteBuf!SameFields("to", {"allocator"})'
  BY <1>2, <1>4, <1>5 DEF ByteBuf!SameFields
<1> QED BY <1>4, <1>5, <1>6, <1>7, <1>12, <1>13, <1>14 DEF AppendIsRight

LEMMA AppendRight ==
    ASSUME BufGiven, NEW w \in ByteBuf!Outcomes, Called(w), proof \in {"append", "append_with_lookup"}
    PROVE  BufRight'
<1>1. AppendGiven /\ UNCHANGED <<proof, old, arg>>
  BY DEF BufGiven, LookupGiven, Called
<1>2. PICK bytes \in ByteBlock(Byte, arg.from.len) : w \in ByteBuf!AppendTo("to", bytes, arg.from.len)
  <2> DEFINE read == ByteBuf!BytesAt(old.mem, arg.from.ptr, arg.from.len)
  <2>0. read \in ByteBlock(Byte, arg.from.len)
    BY <1>1, FromIs
  <2>1. CASE proof = "append"
    BY <2>0, <2>1 DEF ByteBuf!Outcomes, ByteBuf!Append, ByteBuf!CursorBytes, Called
  <2>2. CASE proof = "append_with_lookup"
    <3> DEFINE translated == [i \in 0 .. arg.from.len - 1 |-> arg.table[read[i]]]
    <3>1. w \in ByteBuf!AppendTo("to", translated, arg.from.len)
      BY <2>2 DEF ByteBuf!Outcomes, ByteBuf!AppendWithLookup, ByteBuf!CursorBytes, Called
    <3>2. arg.table \in [Byte -> Byte]
      BY <2>2 DEF BufGiven, LookupGiven
    <3> HIDE DEF read
    <3>3. translated \in ByteBlock(Byte, arg.from.len)
      BY <2>0, <3>2 DEF ByteBlock
    <3> QED BY <3>1, <3>3
  <2> QED BY <2>1, <2>2
<1>3. AppendIsRight /\ ByteBuf!SameFields("to", {"capacity"})' /\ ByteBuf!SameFields("to", {"allocator", "capacity"})'
  BY <1>1, <1>2, AppendToIs
<1>4. ByteBuf!CursorIsValid(arg.from)
  BY <1>1, FromIs
<1>5. (~ByteBuf!BytesModified(arg.from.ptr))'
  BY <1>1, <1>3 DEF AppendIsRight, Changed, ByteBuf!BytesModified
<1>6. ByteBuf!Asserts'
  BY <1>1, <1>3, <1>4 DEF AppendIsRight, ByteBuf!Asserts, ByteBuf!ByteBufAppendAsserts,
     ByteBuf!ByteBufAppendWithLookupAsserts, ByteBuf!AppendedOrNot, ByteBuf!BytesMatch
<1>7. ByteBuf!Asserts2'
  BY <1>1, <1>3, <1>4, <1>5 DEF AppendIsRight, ByteBuf!Asserts2, ByteBuf!ByteBufAppend2Asserts,
     ByteBuf!ByteBufAppendWithLookup2Asserts, ByteBuf!AppendedOrUntouched
<1> QED BY <1>3, <1>6, <1>7 DEF AppendIsRight, BufRight

LEMMA AppendDynamicRight ==
    ASSUME BufGiven, NEW w \in ByteBuf!Outcomes, Called(w), proof = "append_dynamic"
    PROVE  BufRight'
<1> DEFINE o == old.obj.to
           n == arg.from.len
<1>1. AppendGiven /\ UNCHANGED <<proof, old, arg>> /\ obj = old.obj /\ mem = old.mem
  BY DEF BufGiven, Called
<1>2. w \in ByteBuf!AppendDynamic
  BY DEF ByteBuf!Outcomes
<1>3. AppendIsRight
  <2>1. CASE n <= o.capacity - o.len
    <3>1. w \in ByteBuf!AppendTo("to", ByteBuf!BytesAt(old.mem, arg.from.ptr, arg.from.len), arg.from.len)
      BY <1>1, <1>2, <2>1 DEF ByteBuf!AppendDynamic, ByteBuf!Fits, ByteBuf!Append, ByteBuf!CursorBytes
    <3> QED BY <1>1, <3>1, FromIs, AppendToIs
  <2>2. CASE ~(n <= o.capacity - o.len)
    <3> DEFINE to == obj.to
               least == to.len + n
               all == ByteBuf!Concat(ByteBuf!BytesAt(mem, to.buffer, to.len), to.len, ByteBuf!CursorBytes(arg.from), n)
               Done(cap, c) == ByteBuf!Does([to |-> ByteBuf!Buf(ByteBuf!StartOf("new"), least, cap, to.allocator)],
                                    ByteBuf!WithNew(ByteBuf!Release(mem, to.buffer), c), "success")
               Grown(cap) == {Done(cap, c) : c \in ByteBuf!NewBytes(cap, all, least)}
    <3>1. \/ w = ByteBuf!Same("error")
          \/ \E cap \in {least, 2 * to.capacity} :
                 cap >= least /\ \E c \in ByteBuf!Contents(cap) : w = Done(cap, c)
      <4>1. w \in ByteBuf!Refused \cup Grown(least)
                      \cup (IF 2 * to.capacity > least THEN Grown(2 * to.capacity) ELSE {})
        <5>1. ~ByteBuf!Fits("to", n)
          BY <1>1, <2>2 DEF ByteBuf!Fits
        <5> QED BY <1>2, <5>1, Zenon DEF ByteBuf!AppendDynamic
      <4>2. CASE w \in ByteBuf!Refused
        BY <4>2 DEF ByteBuf!Refused
      <4>3. ASSUME NEW cap \in {least, 2 * to.capacity}, cap >= least, w \in Grown(cap)
            PROVE  \E c \in ByteBuf!Contents(cap) : w = Done(cap, c)
        <5> HIDE DEF all, Done
        <5> QED BY <4>3 DEF ByteBuf!NewBytes
      <4>4. least \in Nat /\ to.capacity \in Nat
        BY <1>1, FromIs, ValidBufIs, BufConstants
      <4>5. CASE w \in Grown(least)
        BY <4>3, <4>4, <4>5
      <4>6. CASE 2 * to.capacity > least /\ w \in Grown(2 * to.capacity)
        BY <4>3, <4>4, <4>6
      <4> QED BY <4>1, <4>2, <4>5, <4>6
    <3>2. CASE w = ByteBuf!Same("error")
      <4>1. w = ByteBuf!Same("error") /\ AppendGiven
        BY <1>1, <3>2
      <4> QED BY <4>1, FailedAppend
    <3>3. CASE w # ByteBuf!Same("error")
      <4>0. PICK cap \in {least, 2 * to.capacity} :
                cap >= least /\ \E c \in ByteBuf!Contents(cap) : w = Done(cap, c)
        BY <3>1, <3>3
      <4>1. PICK c \in ByteBuf!Contents(cap) : w = Done(cap, c)
        BY <4>0
      <4>2. c \in ByteBlock(Byte, cap)
        BY DEF ByteBuf!Contents, ByteBlock
      <4> QED BY <1>1, <2>2, <4>0, <4>1, <4>2, NullIs, GrownIsRight
    <3> QED BY <3>2, <3>3
  <2> QED BY <2>1, <2>2
<1>4. ByteBuf!CursorIsValid(arg.from)
  BY <1>1, FromIs
<1>5. (~ByteBuf!BytesModified(arg.from.ptr))'
  BY <1>1, <1>3 DEF AppendIsRight, Changed, ByteBuf!BytesModified
<1>6. ByteBuf!Asserts'
  BY <1>1, <1>3, <1>4 DEF AppendIsRight, ByteBuf!Asserts, ByteBuf!ByteBufAppendDynamicAsserts,
     ByteBuf!AppendedOrNot, ByteBuf!BytesMatch
<1>7. ByteBuf!Asserts2'
  BY <1>1, <1>3, <1>4, <1>5 DEF AppendIsRight, ByteBuf!Asserts2, ByteBuf!ByteBufAppendDynamic2Asserts,
     ByteBuf!AppendedOrUntouched
<1> QED BY <1>3, <1>6, <1>7 DEF AppendIsRight, BufRight

-----------------------------------------------------------------------------
(* New buffers. *)

LEMMA SourceMatchesItself ==
    ASSUME NEW p, NEW n \in Nat, NEW m, NEW b, b # "null", Source(p, n, m, b)
    PROVE  ByteBuf!AssertBytesMatch(m, p, p, n)
BY SameBytesMatch

LEMMA BufItself ==
    ASSUME NEW q, NEW l, NEW cap, NEW a
    PROVE  ByteBuf!Buf(q, l, cap, a) = ByteBuf!Buf(ByteBuf!Buf(q, l, cap, a).buffer, l, cap, a)
<1>1. ByteBuf!Buf(q, l, cap, a).buffer = q
  BY DEF ByteBuf!Buf
<1> QED BY <1>1, Zenon

LEMMA ArrayBufIs ==
    ASSUME NEW p, NEW n \in Nat, NEW m, NEW b, b # "null", Source(p, n, m, b), n <= BufSizeMax,
           NEW k \in {0, n}, NEW x, x = ByteBuf!Buf(IF n = 0 THEN Null ELSE p, k, n, "none")
    PROVE  /\ x.len = k /\ x.capacity = n /\ x.allocator = "none"
           /\ ByteBuf!BufIsValid(x) /\ Shaped(x)
           /\ x.buffer # ByteBuf!Null => ByteBuf!AssertBytesMatch(m, x.buffer, p, n) /\ n > 0
           /\ x.buffer = ByteBuf!Null => n = 0
<1>1. x = [buffer |-> IF n = 0 THEN Null ELSE p, len |-> k, capacity |-> n, allocator |-> "none"]
  BY DEF ByteBuf!Buf
<1>2. n > 0 => p # Null
  BY StartIsNotNull DEF Source
<1>3. ByteBuf!AssertBytesMatch(m, p, p, n)
  BY SourceMatchesItself
<1>4. x.len = k /\ x.capacity = n /\ x.allocator = "none" /\ x.buffer = IF n = 0 THEN Null ELSE p
  BY <1>1
<1>6. n \in 0 .. BufSizeMax /\ k \in Nat /\ k <= n
  BY BufConstants
<1>7. ByteBuf!BufIsValid(x)
  BY <1>2, <1>4, <1>6, NullIs DEF ByteBuf!BufIsValid
<1>8. Shaped(x)
  BY <1>4, <1>6 DEF Shaped
<1>9. (x.buffer # ByteBuf!Null => ByteBuf!AssertBytesMatch(m, x.buffer, p, n) /\ n > 0)
      /\ (x.buffer = ByteBuf!Null => n = 0)
  BY <1>2, <1>3, <1>4, <1>6, NullIs
<1> QED BY <1>4, <1>7, <1>8, <1>9

LEMMA FromArrayRight ==
    ASSUME BufGiven, NEW w \in ByteBuf!Outcomes, Called(w), proof \in {"from_array", "from_empty_array", "from_c_str"}
    PROVE  BufRight'
<1> DEFINE p == IF proof = "from_c_str" THEN arg.c_str ELSE arg.array
           n == IF proof = "from_c_str" THEN arg.len ELSE arg.length
           b == IF proof = "from_c_str" THEN "c_str" ELSE "array"
           k == IF proof = "from_empty_array" THEN 0 ELSE n
           x == [ByteBuf!FromArray(p, n) EXCEPT !.len = k]
<1>1. /\ n \in Nat /\ n <= BufSizeMax /\ b # "null" /\ k \in {0, n}
      /\ Source(p, n, old.mem, b) \/ ByteBuf!ArrayIsMissing
  BY BufConstants DEF BufGiven, ArrayGiven, FromStrGiven, ByteBuf!ArrayIsMissing
<1>2. w = ByteBuf!Does([buf |-> x], mem, "none")
  <2>1. ByteBuf!FromArray(p, n) = [ByteBuf!FromArray(p, n) EXCEPT !.len = n]
    BY DEF ByteBuf!FromArray, ByteBuf!Buf
  <2> QED BY <2>1 DEF ByteBuf!Outcomes
<1>3. obj' = [buf |-> x] /\ mem' = old.mem /\ UNCHANGED <<proof, arg>>
      /\ UNCHANGED tool
  BY <1>2 DEF Called, ByteBuf!Does
<1>b. x = ByteBuf!Buf(IF n = 0 THEN Null ELSE p, k, n, "none")
  <2> HIDE DEF p, n, b, k
  <2> QED BY NullIs DEF ByteBuf!FromArray, ByteBuf!Buf
<1>4. ASSUME Source(p, n, old.mem, b)
      PROVE  /\ x.len = k /\ x.capacity = n /\ x.allocator = "none"
             /\ ByteBuf!BufIsValid(x)
             /\ x.buffer # ByteBuf!Null => ByteBuf!AssertBytesMatch(old.mem, x.buffer, p, n) /\ n > 0
             /\ x.buffer = ByteBuf!Null => n = 0
  <2> HIDE DEF p, n, b, k
  <2> HIDE DEF x
  <2> QED BY <1>1, <1>4, <1>b, ArrayBufIs
<1>c. Shaped(x)
  <2> HIDE DEF p, n, b, k
  <2> HIDE DEF x
  <2>1. x.len = k /\ x.capacity = n
    BY <1>b DEF ByteBuf!Buf
  <2> QED BY <1>1, <2>1, BufConstants DEF Shaped
<1> HIDE DEF x
<1>5. obj'.buf = x /\ DOMAIN obj' = {"buf"}
  BY <1>3
<1>a. x = ByteBuf!Buf(x.buffer, k, n, "none")
  BY <1>b, BufItself
<1>6. Source(p, n, old.mem, b) => ByteBuf!Asserts'
  BY <1>3, <1>4, <1>5, <1>a DEF ByteBuf!Asserts, ByteBuf!ByteBufFromArrayAsserts, ByteBuf!ByteBufFromEmptyArrayAsserts,
     ByteBuf!ByteBufFromCStrAsserts, ByteBuf!IsValid, ByteBuf!BytesMatch
<1>7. proof' \notin ByteBuf!SecondGeneration
  BY <1>3 DEF ByteBuf!SecondGeneration
<1>8. TypedMemory(mem') /\ \A y \in DOMAIN obj' : Shaped(obj'[y])
  BY <1>3, <1>c, <1>5 DEF BufGiven
<1>9. ByteBuf!ArrayIsMissing => ByteBuf!ArrayIsMissing'
  BY <1>3 DEF ByteBuf!ArrayIsMissing, ByteBuf!Missing, ByteBuf!Null
<1>10. ByteBuf!Asserts' \/ ByteBuf!ArrayIsMissing'
  BY <1>1, <1>6, <1>9
<1> QED BY <1>7, <1>8, <1>10 DEF BufRight

LEMMA CleanUpRight ==
    ASSUME BufGiven, NEW w \in ByteBuf!Outcomes, Called(w), proof \in {"clean_up", "clean_up_secure"}
    PROVE  BufRight'
<1>1. w = ByteBuf!Does([buf |-> ByteBuf!ZeroBuf], ByteBuf!Release(mem, obj.buf.buffer), "none")
  BY DEF ByteBuf!Outcomes, ByteBuf!CleanUp
<1>2. /\ obj' = [buf |-> ByteBuf!ZeroBuf] /\ UNCHANGED proof
      /\ mem' = [b \in DOMAIN old.mem \ {old.obj.buf.buffer.block} |-> old.mem[b]]
  BY <1>1 DEF Called, ByteBuf!Does, ByteBuf!Release
<1>3. obj'.buf = ByteBuf!ZeroBuf /\ DOMAIN obj' = {"buf"}
  BY <1>2
<1>4. TypedMemory(mem')
  BY <1>2 DEF BufGiven, TypedMemory
<1>5. ByteBuf!Asserts'
  BY <1>2, <1>3 DEF ByteBuf!Asserts, ByteBuf!ByteBufCleanUpAsserts, ByteBuf!ByteBufCleanUpSecureAsserts,
     ByteBuf!ZeroBuf, ByteBuf!Buf, ByteBuf!Null
<1>6. proof' \notin ByteBuf!SecondGeneration
  BY <1>2 DEF ByteBuf!SecondGeneration
<1> QED BY <1>3, <1>4, <1>5, <1>6, ShapedZero DEF BufRight

LEMMA Newer ==
    ASSUME NEW m, TypedMemory(m), "new" \notin DOMAIN m, NEW n \in 0 .. MaxBuf, NEW c \in ByteBlock(Byte, n),
           NEW m2, m2 = ByteBuf!WithNew(m, c)
    PROVE  TypedMemory(m2) /\ m2["new"] = c /\ \A b \in DOMAIN m : b \in DOMAIN m2 /\ m2[b] = m[b]
<1>1. Typed(c)
  BY TypedBlock, BufConstants
<1>2. m2 = [b \in DOMAIN m \cup {"new"} |-> IF b = "new" THEN c ELSE m[b]]
  BY DEF ByteBuf!WithNew
<1> QED BY <1>1, <1>2 DEF TypedMemory

LEMMA NewBytesAre ==
    ASSUME NEW n \in Nat, NEW bytes, NEW k, NEW c \in ByteBuf!NewBytes(n, bytes, k)
    PROVE  c \in ByteBlock(Byte, n) /\ \A i \in 0 .. k - 1 : c[i] = bytes[i]
BY DEF ByteBuf!NewBytes, ByteBuf!Contents, ByteBlock

LEMMA InitIs ==
    ASSUME BufGiven, NEW w, Called(w), "new" \notin DOMAIN old.mem,
           NEW n \in 0 .. MaxBuf, NEW k \in 0 .. n, NEW bytes, w \in ByteBuf!InitWith(n, bytes, k)
    PROVE  /\ \/ ret' = "error" /\ obj' = old.obj /\ mem' = old.mem
              \/ n = 0 /\ ret' = "success" /\ obj'.buf = ByteBuf!Buf(Null, 0, 0, "sea") /\ mem' = old.mem
              \/ /\ n > 0 /\ ret' = "success" /\ obj'.buf = ByteBuf!Buf(Start("new"), k, n, "sea")
                 /\ mem'["new"] \in ByteBlock(Byte, n) /\ "new" \in DOMAIN mem'
                 /\ \A i \in 0 .. k - 1 : mem'["new"][i] = bytes[i]
                 /\ \A b \in DOMAIN old.mem : b \in DOMAIN mem' /\ mem'[b] = old.mem[b]
           /\ ret' = "success" => ByteBuf!IsValid("buf")' /\ obj'.buf = ByteBuf!Buf(obj'.buf.buffer, k, n, "sea")
           /\ TypedMemory(mem') /\ \A x \in DOMAIN obj' : Shaped(obj'[x])
<1>1. TypedMemory(old.mem) /\ \A x \in DOMAIN old.obj : Shaped(old.obj[x])
  BY DEF BufGiven
<1>2. mem = old.mem /\ obj = old.obj /\ n \in Nat /\ k \in Nat /\ k <= n
  BY BufConstants DEF Called
<1>3. CASE w = ByteBuf!Same("error")
  BY <1>1, <1>3 DEF Called, ByteBuf!Same, ByteBuf!Does
<1>4. CASE n = 0 /\ w = ByteBuf!Does([buf |-> ByteBuf!Buf(ByteBuf!Null, 0, 0, "sea")], mem, "success")
  <2>1. obj' = [buf |-> ByteBuf!Buf(Null, 0, 0, "sea")] /\ mem' = old.mem /\ ret' = "success"
    BY <1>4, NullIs DEF Called, ByteBuf!Does
  <2>2. DOMAIN obj' = {"buf"} /\ obj'.buf = ByteBuf!Buf(Null, 0, 0, "sea") /\ obj'.buf.buffer = Null
        /\ obj'.buf.len = 0 /\ obj'.buf.capacity = 0
    BY <2>1 DEF ByteBuf!Buf
  <2>3. ByteBuf!IsValid("buf")'
    BY <2>2, NullIs DEF ByteBuf!IsValid, ByteBuf!BufIsValid
  <2>4. \A x \in DOMAIN obj' : Shaped(obj'[x])
    BY <2>2, BufConstants DEF Shaped
  <2> QED BY <1>1, <1>4, <2>1, <2>2, <2>3, <2>4
<1>5. ASSUME n > 0, NEW c \in ByteBuf!NewBytes(n, bytes, k),
             w = ByteBuf!Does([buf |-> ByteBuf!Buf(ByteBuf!StartOf("new"), k, n, "sea")], ByteBuf!WithNew(mem, c), "success")
      PROVE  /\ ret' = "success" /\ obj'.buf = ByteBuf!Buf(Start("new"), k, n, "sea")
             /\ mem'["new"] \in ByteBlock(Byte, n) /\ "new" \in DOMAIN mem'
             /\ \A i \in 0 .. k - 1 : mem'["new"][i] = bytes[i]
             /\ \A b \in DOMAIN old.mem : b \in DOMAIN mem' /\ mem'[b] = old.mem[b]
             /\ ByteBuf!IsValid("buf")' /\ obj'.buf = ByteBuf!Buf(obj'.buf.buffer, k, n, "sea")
             /\ TypedMemory(mem') /\ \A x \in DOMAIN obj' : Shaped(obj'[x])
  <2>1. obj' = [buf |-> ByteBuf!Buf(Start("new"), k, n, "sea")] /\ mem' = ByteBuf!WithNew(old.mem, c) /\ ret' = "success"
    BY <1>2, <1>5, NullIs DEF Called, ByteBuf!Does
  <2>2. DOMAIN obj' = {"buf"} /\ obj'.buf = ByteBuf!Buf(Start("new"), k, n, "sea") /\ obj'.buf.buffer = Start("new")
        /\ obj'.buf.len = k /\ obj'.buf.capacity = n
    BY <2>1 DEF ByteBuf!Buf
  <2>3. c \in ByteBlock(Byte, n) /\ \A i \in 0 .. k - 1 : c[i] = bytes[i]
    BY <1>2, <1>5, NewBytesAre
  <2>4. TypedMemory(mem') /\ mem'["new"] = c /\ \A b \in DOMAIN old.mem : b \in DOMAIN mem' /\ mem'[b] = old.mem[b]
    BY <1>1, <2>1, <2>3, Newer
  <2>5. "new" \in DOMAIN mem'
    BY <2>1 DEF ByteBuf!WithNew
  <2>6. ByteBuf!IsValid("buf")'
    BY <1>2, <1>5, <2>2, NullIs, StartIsNotNull DEF ByteBuf!IsValid, ByteBuf!BufIsValid
  <2>7. \A x \in DOMAIN obj' : Shaped(obj'[x])
    BY <1>2, <2>2, BufConstants DEF Shaped
  <2> QED BY <2>1, <2>2, <2>3, <2>4, <2>5, <2>6, <2>7
<1>6. CASE n = 0
  <2>1. w = ByteBuf!Does([buf |-> ByteBuf!Buf(ByteBuf!Null, 0, 0, "sea")], mem, "success")
    BY <1>6 DEF ByteBuf!InitWith
  <2> QED BY <1>4, <1>6, <2>1
<1>7. CASE n > 0
  <2>1. \/ w \in ByteBuf!Refused
        \/ \E c \in ByteBuf!NewBytes(n, bytes, k) :
               w = ByteBuf!Does([buf |-> ByteBuf!Buf(ByteBuf!StartOf("new"), k, n, "sea")], ByteBuf!WithNew(mem, c), "success")
    BY <1>7 DEF ByteBuf!InitWith
  <2>2. CASE w \in ByteBuf!Refused
    BY <1>3, <2>2 DEF ByteBuf!Refused
  <2>3. CASE ~(w \in ByteBuf!Refused)
    <3>1. PICK c \in ByteBuf!NewBytes(n, bytes, k) :
               w = ByteBuf!Does([buf |-> ByteBuf!Buf(ByteBuf!StartOf("new"), k, n, "sea")], ByteBuf!WithNew(mem, c), "success")
      BY <2>1, <2>3
    <3> QED BY <1>5, <1>7, <3>1
  <2> QED BY <2>2, <2>3
<1> QED BY <1>2, <1>6, <1>7

LEMMA InitRight ==
    ASSUME BufGiven, NEW w \in ByteBuf!Outcomes, Called(w), proof = "init"
    PROVE  BufRight'
<1>1. w \in ByteBuf!InitWith(arg.capacity, <<>>, 0) /\ UNCHANGED <<proof, arg>>
  BY DEF ByteBuf!Outcomes, Called
<1>2. arg.capacity \in 0 .. MaxBuf /\ 0 \in 0 .. arg.capacity /\ "new" \notin DOMAIN old.mem
  BY BufConstants DEF BufGiven, InitGiven
<1>3. /\ ret' = "success" => ByteBuf!IsValid("buf")' /\ obj'.buf = ByteBuf!Buf(obj'.buf.buffer, 0, arg.capacity, "sea")
      /\ TypedMemory(mem') /\ \A x \in DOMAIN obj' : Shaped(obj'[x])
  BY <1>1, <1>2, InitIs
<1>4. ByteBuf!Asserts'
  BY <1>1, <1>3 DEF ByteBuf!Asserts, ByteBuf!ByteBufInitAsserts
<1>5. proof' \notin ByteBuf!SecondGeneration
  BY <1>1 DEF ByteBuf!SecondGeneration
<1> QED BY <1>3, <1>4, <1>5 DEF BufRight

LEMMA InitCopyFromCursorRight ==
    ASSUME BufGiven, NEW w \in ByteBuf!Outcomes, Called(w), proof = "init_copy_from_cursor"
    PROVE  BufRight'
<1> DEFINE p == arg.cursor.ptr
           n == arg.cursor.len
           bytes == ByteBuf!BytesAt(old.mem, p, n)
<1>1. w \in ByteBuf!InitWith(n, bytes, n) /\ UNCHANGED <<proof, arg>>
  BY DEF ByteBuf!Outcomes, Called, ByteBuf!CursorBytes
<1>2. n \in 0 .. MaxBuf /\ n \in 0 .. n /\ "new" \notin DOMAIN old.mem /\ Source(p, n, old.mem, "cursor") /\ n \in Nat
  BY BufConstants DEF BufGiven, CopyCursorGiven, SourceCursor
<1>3. \A i \in 0 .. n - 1 : bytes[i] = old.mem["cursor"][i]
  BY <1>2, SourceBytes
<1>4. ByteBuf!CursorIsValid(arg.cursor)
  BY <1>2, NullIs, StartIsNotNull DEF ByteBuf!CursorIsValid, Source
<1> HIDE DEF p, n, bytes
<1>5. /\ \/ ret' = "error" /\ obj' = old.obj /\ mem' = old.mem
         \/ n = 0 /\ ret' = "success" /\ obj'.buf = ByteBuf!Buf(Null, 0, 0, "sea") /\ mem' = old.mem
         \/ /\ n > 0 /\ ret' = "success" /\ obj'.buf = ByteBuf!Buf(Start("new"), n, n, "sea")
            /\ mem'["new"] \in ByteBlock(Byte, n) /\ "new" \in DOMAIN mem'
            /\ \A i \in 0 .. n - 1 : mem'["new"][i] = bytes[i]
            /\ \A b \in DOMAIN old.mem : b \in DOMAIN mem' /\ mem'[b] = old.mem[b]
      /\ ret' = "success" => ByteBuf!IsValid("buf")' /\ obj'.buf = ByteBuf!Buf(obj'.buf.buffer, n, n, "sea")
      /\ TypedMemory(mem') /\ \A x \in DOMAIN obj' : Shaped(obj'[x])
  BY <1>1, <1>2, InitIs
<1>6. ASSUME ret' = "success", obj'.buf.buffer # Null
      PROVE  ByteBuf!AssertBytesMatch(mem', obj'.buf.buffer, p, obj'.buf.len)
  <2>1. ByteBuf!Buf(Null, 0, 0, "sea").buffer = Null /\ ByteBuf!Buf(Start("new"), n, n, "sea").buffer = Start("new")
        /\ ByteBuf!Buf(Start("new"), n, n, "sea").len = n
    BY DEF ByteBuf!Buf
  <2>2. n > 0 /\ obj'.buf.buffer = Start("new") /\ obj'.buf.len = n
    BY <1>5, <1>6, <2>1
  <2>3. p = Start("cursor") /\ "cursor" \in DOMAIN old.mem /\ \A i \in 0 .. n - 1 : i \in DOMAIN old.mem["cursor"]
    BY <1>2, <2>2 DEF Source, ByteBlock
  <2>4. "new" \in DOMAIN mem' /\ "cursor" \in DOMAIN mem' /\ mem'["cursor"] = old.mem["cursor"]
        /\ mem'["new"] \in ByteBlock(Byte, n) /\ \A i \in 0 .. n - 1 : mem'["new"][i] = bytes[i]
    BY <1>5, <1>6, <2>1, <2>3
  <2>5. ASSUME NEW i \in 0 .. n - 1
        PROVE  0 + i \in DOMAIN mem'["new"] /\ 0 + i \in DOMAIN mem'["cursor"]
               /\ mem'["new"][0 + i] = mem'["cursor"][0 + i]
    <3>1. 0 + i = i
      OBVIOUS
    <3> QED BY <1>3, <2>3, <2>4, <3>1 DEF ByteBlock
  <2>6. obj'.buf.buffer = [block |-> "new", at |-> 0] /\ p = [block |-> "cursor", at |-> 0]
    BY <2>2, <2>3 DEF Start
  <2> QED BY <1>2, <2>2, <2>4, <2>5, <2>6, BytesMatchIs
<1>7. ByteBuf!Asserts'
  BY <1>1, <1>4, <1>5, <1>6, NullIs DEF n, p, ByteBuf!Asserts, ByteBuf!ByteBufInitCopyFromCursorAsserts, ByteBuf!BytesMatch
<1>8. proof' \notin ByteBuf!SecondGeneration
  BY <1>1 DEF ByteBuf!SecondGeneration
<1> QED BY <1>5, <1>7, <1>8 DEF BufRight

LEMMA CopyIs == ASSUME NEW o, NEW d, NEW s, o = [dest |-> d, src |-> s]
                PROVE DOMAIN o = {"dest", "src"} /\ o.src = s /\ o.dest = d
OBVIOUS

(* A copy: what is looked at of it. *)
CopyIsRight ==
    /\ ByteBuf!IsValid("dest")' /\ obj'.dest.allocator = "sea"
    /\ obj'.dest.len = old.obj.src.len /\ obj'.dest.capacity = old.obj.src.capacity
    /\ ByteBuf!AssertBytesMatch(mem', obj'.dest.buffer, obj'.src.buffer, obj'.dest.len)
    /\ obj'.src = old.obj.src
    /\ old.obj.src.len > 0 =>
           ByteBuf!AllMatch(mem', obj'.dest.buffer, ByteBuf!SaveByteFromArray(old.mem, old.obj.src.buffer, old.obj.src.len))
    /\ "src" \in DOMAIN mem' /\ mem'["src"] = old.mem["src"]

LEMMA CopiedIs ==
    ASSUME BufGiven, CopyGiven, NEW w, Called(w), NEW d, NEW m2,
           w = ByteBuf!Does([old.obj EXCEPT !.dest = d], m2, "success")
    PROVE  obj' = [dest |-> d, src |-> old.obj.src] /\ mem' = m2 /\ ret' = "success"
           /\ DOMAIN obj' = {"dest", "src"} /\ obj'.dest = d /\ obj'.src = old.obj.src
<1>1. obj' = [old.obj EXCEPT !.dest = d] /\ mem' = m2 /\ ret' = "success"
  BY DEF Called, ByteBuf!Does
<1>2. DOMAIN old.obj = {"dest", "src"}
  BY CopyIs DEF CopyGiven
<1>3. DOMAIN obj' = {"dest", "src"} /\ obj'["dest"] = d /\ obj'["src"] = old.obj["src"]
      /\ obj' = [x \in {"dest", "src"} |-> IF x = "dest" THEN d ELSE old.obj["src"]]
  BY <1>1, <1>2
<1>4. obj' = [dest |-> d, src |-> old.obj.src]
  BY <1>3
<1> QED BY <1>1, <1>3, <1>4

LEMMA InitCopyIs ==
    ASSUME BufGiven, CopyGiven, NEW w, Called(w), w \in ByteBuf!InitCopy
    PROVE  /\ \/ ret' = "error" /\ obj' = old.obj /\ mem' = old.mem
              \/ ret' = "success" /\ CopyIsRight
           /\ TypedMemory(mem') /\ \A x \in DOMAIN obj' : Shaped(obj'[x])
<1> DEFINE s == old.obj.src
<1>1. TypedMemory(old.mem) /\ (\A x \in DOMAIN old.obj : Shaped(old.obj[x])) /\ "new" \notin DOMAIN old.mem
      /\ DOMAIN old.obj = {"dest", "src"}
  BY CopyIs DEF BufGiven, CopyGiven
<1>2. ValidBuf(s, old.mem, "src") /\ obj = old.obj /\ mem = old.mem /\ UNCHANGED old
  BY DEF Called, CopyGiven
<1>3. /\ s.len \in Nat /\ s.capacity \in 0 .. MaxBuf /\ s.len <= s.capacity
      /\ s = [buffer |-> s.buffer, len |-> s.len, capacity |-> s.capacity, allocator |-> "sea"]
      /\ s.capacity > 0 => s.buffer = Start("src")
      /\ s.capacity = 0 => s.buffer = Null
      /\ "src" \in DOMAIN old.mem /\ old.mem["src"] \in ByteBlock(Byte, s.capacity) /\ Shaped(s)
  BY <1>2, ValidBufIs, ValidBufIsShaped
<1>4. CASE w = ByteBuf!Same("error")
  BY <1>1, <1>2, <1>4 DEF Called, ByteBuf!Same, ByteBuf!Does
<1>5. CASE s.buffer = Null
  <2> DEFINE d == ByteBuf!Buf(ByteBuf!Null, 0, 0, "sea")
  <2>1. w = ByteBuf!Does([old.obj EXCEPT !.dest = d], old.mem, "success")
    <3>1. obj.src.buffer = ByteBuf!Null
      BY <1>2, <1>5, NullIs
    <3> QED BY <1>2, <3>1 DEF ByteBuf!InitCopy
  <2>2. d.buffer = Null /\ d.len = 0 /\ d.capacity = 0 /\ d.allocator = "sea"
    BY NullIs DEF ByteBuf!Buf
  <2> HIDE DEF d
  <2>3. mem' = old.mem /\ ret' = "success" /\ DOMAIN obj' = {"dest", "src"} /\ obj'.dest = d /\ obj'.src = s
    BY <2>1, CopiedIs
  <2>4. s.capacity = 0 /\ s.len = 0
    <3>1. "src" # "null"
      OBVIOUS
    <3> QED BY <1>3, <1>5, <3>1, StartIsNotNull
  <2>5. ByteBuf!IsValid("dest")'
    BY <2>2, <2>3, NullIs DEF ByteBuf!IsValid, ByteBuf!BufIsValid
  <2>6. ByteBuf!AssertBytesMatch(mem', obj'.dest.buffer, obj'.src.buffer, obj'.dest.len)
    BY <1>5, <2>2, <2>3 DEF ByteBuf!AssertBytesMatch
  <2>7. CopyIsRight
    BY <1>3, <2>2, <2>3, <2>4, <2>5, <2>6 DEF CopyIsRight
  <2>8. Shaped(d)
    BY <2>2, BufConstants DEF Shaped
  <2> QED BY <1>1, <1>3, <2>3, <2>7, <2>8
<1>6. ASSUME s.buffer # Null, NEW c \in ByteBuf!NewBytes(s.capacity, ByteBuf!BytesAt(old.mem, s.buffer, s.len), s.len),
             w = ByteBuf!Does([old.obj EXCEPT !.dest = [s EXCEPT !.buffer = ByteBuf!StartOf("new")]],
                              ByteBuf!WithNew(old.mem, c), "success")
      PROVE  CopyIsRight /\ ret' = "success" /\ TypedMemory(mem') /\ \A x \in DOMAIN obj' : Shaped(obj'[x])
  <2> DEFINE d == [s EXCEPT !.buffer = ByteBuf!StartOf("new")]
  <2>1. d.buffer = Start("new") /\ d.len = s.len /\ d.capacity = s.capacity /\ d.allocator = "sea"
    BY <1>3, NullIs
  <2> HIDE DEF d
  <2>2. mem' = ByteBuf!WithNew(old.mem, c) /\ ret' = "success" /\ DOMAIN obj' = {"dest", "src"}
        /\ obj'.dest = d /\ obj'.src = s
    BY <1>6, CopiedIs DEF d
  <2>3. Source(s.buffer, s.len, old.mem, "src") /\ s.capacity \in Nat
    BY <1>2, <1>3, BufSource, BufConstants
  <2>4. c \in ByteBlock(Byte, s.capacity) /\ \A i \in 0 .. s.len - 1 : c[i] = ByteBuf!BytesAt(old.mem, s.buffer, s.len)[i]
    BY <1>6, <2>3, NewBytesAre
  <2>5. \A i \in 0 .. s.len - 1 : c[i] = old.mem["src"][i]
    BY <1>3, <2>3, <2>4, SourceBytes
  <2>6. TypedMemory(mem') /\ mem'["new"] = c /\ "src" \in DOMAIN mem' /\ mem'["src"] = old.mem["src"]
    BY <1>1, <1>3, <2>2, <2>4, Newer
  <2>7. "new" \in DOMAIN mem'
    BY <2>2 DEF ByteBuf!WithNew
  <2>8. s.capacity > 0 /\ s.buffer = Start("src")
    BY <1>3, <1>6, BufConstants
  <2>9. ByteBuf!IsValid("dest")'
    BY <1>3, <2>1, <2>2, <2>8, NullIs, StartIsNotNull DEF ByteBuf!IsValid, ByteBuf!BufIsValid
  <2>10. ASSUME NEW i \in 0 .. s.len - 1
         PROVE  /\ i \in DOMAIN mem'["new"] /\ 0 + i \in DOMAIN mem'["new"] /\ 0 + i \in DOMAIN mem'["src"]
                /\ mem'["new"][i] = old.mem["src"][i] /\ mem'["new"][0 + i] = mem'["src"][0 + i]
    <3>1. 0 + i = i /\ i \in 0 .. s.capacity - 1
      BY <1>3, BufConstants
    <3>2. DOMAIN c = 0 .. s.capacity - 1 /\ DOMAIN old.mem["src"] = 0 .. s.capacity - 1
      BY <1>3, <2>4 DEF ByteBlock
    <3> QED BY <2>5, <2>6, <3>1, <3>2
  <2>11. ByteBuf!AssertBytesMatch(mem', obj'.dest.buffer, obj'.src.buffer, obj'.dest.len)
    <3>1. obj'.dest.buffer = [block |-> "new", at |-> 0] /\ obj'.src.buffer = [block |-> "src", at |-> 0]
          /\ obj'.dest.len = s.len
      BY <2>1, <2>2, <2>8 DEF Start
    <3> QED BY <1>3, <2>6, <2>7, <2>10, <3>1, BytesMatchIs
  <2>12. s.len > 0 => ByteBuf!AllMatch(mem', obj'.dest.buffer, ByteBuf!SaveByteFromArray(old.mem, s.buffer, s.len))
    <3> SUFFICES ASSUME s.len > 0
                 PROVE ByteBuf!AllMatch(mem', obj'.dest.buffer, ByteBuf!SaveByteFromArray(old.mem, s.buffer, s.len))
      OBVIOUS
    <3>1. "src" # "null" /\ \A i \in 0 .. s.len - 1 : i \in DOMAIN mem'["new"] /\ mem'["new"][i] = old.mem["src"][i]
      BY <2>10
    <3> HIDE DEF s
    <3> QED BY <1>3, <2>1, <2>2, <2>7, <2>8, <3>1, SavedMatches
  <2>13. CopyIsRight
    BY <1>3, <2>1, <2>2, <2>6, <2>9, <2>11, <2>12 DEF CopyIsRight
  <2>14. Shaped(d)
    BY <1>3, <2>1 DEF Shaped
  <2> QED BY <1>3, <2>2, <2>6, <2>13, <2>14
<1>7. CASE s.buffer # Null /\ w # ByteBuf!Same("error")
  <2>1. obj.src.buffer # ByteBuf!Null
    BY <1>2, <1>7, NullIs
  <2>2. \E c \in ByteBuf!NewBytes(obj.src.capacity, ByteBuf!BytesAt(mem, obj.src.buffer, obj.src.len), obj.src.len) :
            w = ByteBuf!Does([obj EXCEPT !.dest = [obj.src EXCEPT !.buffer = ByteBuf!StartOf("new")]],
                              ByteBuf!WithNew(mem, c), "success")
    BY <1>7, <2>1 DEF ByteBuf!InitCopy, ByteBuf!Refused
  <2>3. \E c \in ByteBuf!NewBytes(s.capacity, ByteBuf!BytesAt(old.mem, s.buffer, s.len), s.len) :
            w = ByteBuf!Does([old.obj EXCEPT !.dest = [s EXCEPT !.buffer = ByteBuf!StartOf("new")]],
                              ByteBuf!WithNew(old.mem, c), "success")
    BY <1>2, <2>2
  <2> QED BY <1>6, <1>7, <2>3
<1> QED BY <1>4, <1>5, <1>7

LEMMA InitCopyRight ==
    ASSUME BufGiven, NEW w \in ByteBuf!Outcomes, Called(w), proof = "init_copy"
    PROVE  BufRight'
<1> DEFINE s == old.obj.src
<1>1. CopyGiven /\ w \in ByteBuf!InitCopy /\ UNCHANGED <<proof, old>> /\ ValidBuf(s, old.mem, "src")
  BY DEF BufGiven, ByteBuf!Outcomes, Called, CopyGiven
<1>2. /\ \/ ret' = "error" /\ obj' = old.obj /\ mem' = old.mem
         \/ ret' = "success" /\ CopyIsRight
      /\ TypedMemory(mem') /\ \A x \in DOMAIN obj' : Shaped(obj'[x])
  BY <1>1, InitCopyIs
<1>3. CASE ret' = "error"
  BY <1>1, <1>2, <1>3 DEF BufRight, ByteBuf!Asserts, ByteBuf!Asserts2, ByteBuf!ByteBufInitCopyAsserts,
     ByteBuf!ByteBufInitCopy2Asserts
<1>4. CASE ret' = "success" /\ CopyIsRight
  <2>1. ByteBuf!IsValid("src")'
    <3>1. "src" # "null"
      OBVIOUS
    <3> QED BY <1>1, <1>4, <3>1, ValidIsValid DEF CopyIsRight, ByteBuf!IsValid
  <2>2. s.len > 0 => ByteBuf!AllMatch(mem', s.buffer, ByteBuf!SaveByteFromArray(old.mem, s.buffer, s.len))
    <3>0. "src" # "null"
      OBVIOUS
    <3>1. s.len \in Nat /\ Source(s.buffer, s.len, old.mem, "src")
      BY <1>1, <3>0, BufSource
    <3> QED BY <1>4, <3>0, <3>1, SourceKept DEF CopyIsRight
  <2>3. ByteBuf!Untouched("src")'
    <3>0. s.buffer \in {Null, Start("src")}
      BY <1>1, ValidBufIs
    <3>1. s.buffer.block \in {"src", "null"} /\ "null" \notin DOMAIN old.mem
      BY <3>0 DEF BufGiven, TypedMemory, Start, Null
    <3> QED BY <1>1, <1>4, <3>1 DEF CopyIsRight, ByteBuf!Untouched, ByteBuf!Modified, ByteBuf!BytesModified
  <2>4. ByteBuf!Asserts'
    BY <1>1, <1>4, <2>1, <2>2 DEF CopyIsRight, ByteBuf!Asserts, ByteBuf!ByteBufInitCopyAsserts, ByteBuf!HasAllocator,
       ByteBuf!BytesMatch, ByteBuf!SavedBuf
  <2>5. ByteBuf!Asserts2'
    BY <1>1, <1>4, <2>1, <2>3 DEF CopyIsRight, ByteBuf!Asserts2, ByteBuf!ByteBufInitCopy2Asserts, ByteBuf!HasAllocator,
       ByteBuf!BytesMatch, ByteBuf!SavedBuf
  <2> QED BY <1>2, <2>4, <2>5 DEF BufRight
<1> QED BY <1>2, <1>3, <1>4

-----------------------------------------------------------------------------
(* Reserving, resetting. *)

(* What a reserve of n bytes leaves. *)
LEMMA ReserveIs ==
    ASSUME BufGiven, NEW w, Called(w), OneGiven, NEW n \in 0 .. BufSizeMax,
           w \in ByteBuf!Reserve(n), old.obj.buf.buffer = Null => n <= MaxBuf
    PROVE  /\ ret' = "success" => obj'.buf.capacity >= n /\ obj'.buf.allocator = "sea"
           /\ ByteBuf!IsValid("buf")'
           /\ TypedMemory(mem') /\ \A x \in DOMAIN obj' : Shaped(obj'[x])
<1> DEFINE b == old.obj.buf
<1>1. /\ TypedMemory(old.mem) /\ (\A x \in DOMAIN old.obj : Shaped(old.obj[x])) /\ DOMAIN old.obj = {"buf"}
      /\ ValidBuf(b, old.mem, "buf") /\ obj = old.obj /\ mem = old.mem /\ UNCHANGED old /\ DOMAIN old.mem = {"buf"}
  BY OneBufIs DEF BufGiven, OneGiven, Called
<1>2. /\ b.len \in Nat /\ b.capacity \in 0 .. MaxBuf /\ b.len <= b.capacity
      /\ b = [buffer |-> b.buffer, len |-> b.len, capacity |-> b.capacity, allocator |-> "sea"]
      /\ b.allocator = "sea" /\ b.buffer \in {Null, Start("buf")}
      /\ b.capacity > 0 => b.buffer = Start("buf")
      /\ b.capacity = 0 => b.buffer = Null
      /\ "buf" \in DOMAIN old.mem /\ old.mem["buf"] \in ByteBlock(Byte, b.capacity)
  BY <1>1, ValidBufIs
<1>n. n \in Nat /\ b.capacity \in Nat
  BY <1>2, BufConstants
<1>3. CASE w = ByteBuf!Same("error") \/ (n <= b.capacity /\ w = ByteBuf!Same("success"))
  <2>1. obj' = old.obj /\ mem' = old.mem /\ (ret' = "error" \/ n <= b.capacity)
    BY <1>1, <1>3 DEF Called, ByteBuf!Same, ByteBuf!Does
  <2>2. ByteBuf!IsValid("buf")'
    <3>1. "buf" # "null"
      OBVIOUS
    <3> QED BY <1>1, <2>1, <3>1, ValidIsValid DEF ByteBuf!IsValid
  <2> QED BY <1>1, <1>2, <1>n, <2>1, <2>2
<1>4. CASE ~(n <= b.capacity) /\ b.buffer = Null
  <2>1. w \in ByteBuf!InitWith(n, <<>>, 0)
    BY <1>1, <1>4, NullIs DEF ByteBuf!Reserve
  <2>2. n \in 0 .. MaxBuf /\ 0 \in 0 .. n /\ "new" \notin DOMAIN old.mem
    BY <1>1, <1>4, <1>n, BufConstants
  <2>3. /\ \/ ret' = "error" /\ obj' = old.obj /\ mem' = old.mem
           \/ ret' = "success"
        /\ ret' = "success" => ByteBuf!IsValid("buf")' /\ obj'.buf = ByteBuf!Buf(obj'.buf.buffer, 0, n, "sea")
        /\ TypedMemory(mem') /\ \A x \in DOMAIN obj' : Shaped(obj'[x])
    BY <2>1, <2>2, InitIs
  <2>4. ByteBuf!IsValid("buf")'
    <3>1. "buf" # "null"
      OBVIOUS
    <3> QED BY <1>1, <2>3, <3>1, ValidIsValid DEF ByteBuf!IsValid
  <2>5. ret' = "success" => obj'.buf.capacity = n /\ obj'.buf.allocator = "sea"
    <3>1. \A q : ByteBuf!Buf(q, 0, n, "sea").capacity = n /\ ByteBuf!Buf(q, 0, n, "sea").allocator = "sea"
      BY DEF ByteBuf!Buf
    <3> QED BY <2>3, <3>1
  <2> QED BY <1>n, <2>3, <2>4, <2>5
<1>5. CASE ~(n <= b.capacity) /\ b.buffer # Null /\ w # ByteBuf!Same("error")
  <2> DEFINE grown == [i \in 0 .. n - 1 |-> IF i < obj.buf.capacity THEN mem[obj.buf.buffer.block][i] ELSE 0]
             d == [b EXCEPT !.buffer = Start("new"), !.capacity = n]
             rest == ByteBuf!Release(old.mem, b.buffer)
  <2>1. w = ByteBuf!Does([buf |-> [obj.buf EXCEPT !.buffer = ByteBuf!StartOf("new"), !.capacity = n]],
                         ByteBuf!WithNew(ByteBuf!Release(mem, obj.buf.buffer), grown), "success")
    <3>1. obj.buf.buffer # ByteBuf!Null /\ ~(n <= obj.buf.capacity)
      BY <1>1, <1>5, NullIs
    <3> QED BY <1>5, <3>1 DEF ByteBuf!Reserve, ByteBuf!Refused
  <2>2. grown \in ByteBlock(Byte, n)
    <3>1. b.buffer.block = "buf"
      BY <1>2, <1>5 DEF Start
    <3>2. ASSUME NEW i \in 0 .. n - 1 PROVE (IF i < obj.buf.capacity THEN mem[obj.buf.buffer.block][i] ELSE 0) \in Byte
      <4>1. CASE i < b.capacity
        <5>1. i \in 0 .. b.capacity - 1
          BY <1>n, <4>1
        <5>2. old.mem["buf"][i] \in Byte
          BY <1>2, <5>1 DEF ByteBlock
        <5> QED BY <1>1, <3>1, <4>1, <5>2
      <4>2. CASE ~(i < b.capacity)
        BY <1>1, <4>2, BufConstants
      <4> QED BY <4>1, <4>2
    <3> QED BY <3>2 DEF ByteBlock
  <2> HIDE DEF grown
  <2>3. obj' = [buf |-> d] /\ mem' = ByteBuf!WithNew(rest, grown) /\ ret' = "success"
    BY <1>1, <2>1, NullIs DEF Called, ByteBuf!Does
  <2>4. d.buffer = Start("new") /\ d.len = b.len /\ d.capacity = n /\ d.allocator = "sea"
    BY <1>2
  <2> HIDE DEF d
  <2>5. DOMAIN obj' = {"buf"} /\ obj'.buf = d
    BY <2>3
  <2>6. TypedMemory(rest) /\ "new" \notin DOMAIN rest
    BY <1>1 DEF TypedMemory, ByteBuf!Release
  <2> HIDE DEF rest
  <2>7. TypedMemory(mem')
    <3>1. mem' = [c \in DOMAIN rest \cup {"new"} |-> IF c = "new" THEN grown ELSE rest[c]]
      BY <2>3 DEF ByteBuf!WithNew
    <3>2. Typed(grown)
      BY <2>2 DEF Typed
    <3> QED BY <2>6, <3>1, <3>2 DEF TypedMemory
  <2>8. n > 0 /\ b.len <= n
    BY <1>2, <1>5, <1>n
  <2>9. ByteBuf!IsValid("buf")'
    BY <2>4, <2>5, <2>8, NullIs, StartIsNotNull DEF ByteBuf!IsValid, ByteBuf!BufIsValid
  <2>10. Shaped(d)
    BY <1>2, <1>n, <2>4, <2>8 DEF Shaped
  <2> QED BY <1>n, <2>3, <2>4, <2>5, <2>7, <2>9, <2>10
<1>6. n <= b.capacity => w = ByteBuf!Same("success")
  BY <1>1 DEF ByteBuf!Reserve
<1>7. CASE n <= b.capacity
  BY <1>3, <1>6, <1>7
<1>8. CASE ~(n <= b.capacity)
  <2>1. CASE w = ByteBuf!Same("error")
    BY <1>3, <2>1
  <2>2. CASE b.buffer = Null
    BY <1>4, <1>8, <2>2
  <2>3. CASE b.buffer # Null /\ w # ByteBuf!Same("error")
    BY <1>5, <1>8, <2>3
  <2> QED BY <2>1, <2>2, <2>3
<1> QED BY <1>7, <1>8

LEMMA ReserveRight ==
    ASSUME BufGiven, NEW w \in ByteBuf!Outcomes, Called(w), proof = "reserve"
    PROVE  BufRight'
<1>1. OneGiven /\ arg.requested \in 0 .. BufSizeMax /\ arg.requested <= MaxBuf /\ w \in ByteBuf!Reserve(arg.requested)
      /\ UNCHANGED <<proof, arg>>
  BY BufConstants DEF BufGiven, ByteBuf!Outcomes, Called
<1>2. /\ ret' = "success" => obj'.buf.capacity >= arg.requested
      /\ TypedMemory(mem') /\ \A x \in DOMAIN obj' : Shaped(obj'[x])
  BY <1>1, ReserveIs
<1>3. ByteBuf!Asserts'
  BY <1>1, <1>2 DEF ByteBuf!Asserts, ByteBuf!ByteBufReserveAsserts
<1>4. proof' \notin ByteBuf!SecondGeneration
  BY <1>1 DEF ByteBuf!SecondGeneration
<1> QED BY <1>2, <1>3, <1>4 DEF BufRight

LEMMA ReserveRelativeRight ==
    ASSUME BufGiven, NEW w \in ByteBuf!Outcomes, Called(w), proof = "reserve_relative"
    PROVE  BufRight'
<1> DEFINE n == old.obj.buf.len + MaxBuf
<1>1. OneGiven /\ arg.requested = MaxBuf /\ w \in ByteBuf!ReserveRelative(arg.requested)
      /\ UNCHANGED <<proof, arg, old>> /\ obj = old.obj /\ ValidBuf(old.obj.buf, old.mem, "buf")
  BY DEF BufGiven, ByteBuf!Outcomes, Called, OneGiven
<1>2. n \in 0 .. BufSizeMax /\ (old.obj.buf.buffer = Null => n <= MaxBuf)
  <2>1. old.obj.buf.len \in Nat /\ old.obj.buf.capacity \in 0 .. MaxBuf /\ old.obj.buf.len <= old.obj.buf.capacity
        /\ (old.obj.buf.capacity > 0 => old.obj.buf.buffer = Start("buf"))
    BY <1>1, ValidBufIs
  <2>2. "buf" # "null"
    OBVIOUS
  <2>3. old.obj.buf.buffer = Null => old.obj.buf.len = 0
    BY <2>1, <2>2, StartIsNotNull, BufConstants
  <2> QED BY <2>1, <2>3, BufConstants
<1>3. w \in ByteBuf!Reserve(n)
  BY <1>1, <1>2, BufConstants DEF ByteBuf!ReserveRelative
<1>4. /\ ret' = "success" => obj'.buf.capacity >= n /\ obj'.buf.allocator = "sea"
      /\ ByteBuf!IsValid("buf")'
      /\ TypedMemory(mem') /\ \A x \in DOMAIN obj' : Shaped(obj'[x])
  <2> HIDE DEF n
  <2> QED BY <1>1, <1>2, <1>3, ReserveIs
<1>5. ByteBuf!Asserts'
  BY <1>1, <1>4 DEF ByteBuf!Asserts, ByteBuf!ByteBufReserveRelativeAsserts, ByteBuf!HasAllocator
<1>6. proof' \notin ByteBuf!SecondGeneration
  BY <1>1 DEF ByteBuf!SecondGeneration
<1> QED BY <1>4, <1>5, <1>6 DEF BufRight

(* Zeroes in all of a buffer. *)
LEMMA ZeroedIs ==
    ASSUME NEW b, NEW m, ValidBuf(b, m, "buf"), NEW m2,
           m2 = ByteBuf!Store(m, b.buffer, [i \in 0 .. b.capacity - 1 |-> 0], b.capacity)
    PROVE  /\ DOMAIN m2 = DOMAIN m /\ \A c \in DOMAIN m \ {"buf"} : m2[c] = m[c]
           /\ m2["buf"] \in ByteBlock(Byte, b.capacity)
           /\ ByteBuf!AssertAllBytesAre(m2, b.buffer, 0, b.capacity)
<1>1. /\ b.capacity \in 0 .. MaxBuf /\ b.capacity \in Nat
      /\ b.capacity > 0 => b.buffer = Start("buf")
      /\ b.capacity = 0 => b.buffer = Null
      /\ "buf" \in DOMAIN m /\ m["buf"] \in ByteBlock(Byte, b.capacity)
  BY ValidBufIs, BufConstants
<1>2. CASE b.capacity = 0
  BY <1>1, <1>2 DEF ByteBuf!Store, ByteBuf!AssertAllBytesAre
<1>3. CASE b.capacity > 0
  <2> DEFINE zeroes == [i \in 0 .. b.capacity - 1 |-> 0]
             new == [i \in DOMAIN m["buf"] |-> IF i \in 0 .. 0 + b.capacity - 1 THEN zeroes[i - 0] ELSE m["buf"][i]]
  <2>1. b.buffer.block = "buf" /\ b.buffer.at = 0
    BY <1>1, <1>3 DEF Start
  <2>2. m2 = [m EXCEPT !["buf"] = [i \in DOMAIN @ |-> IF i \in 0 .. 0 + b.capacity - 1 THEN zeroes[i - 0] ELSE @[i]]]
    BY <1>3, <2>1 DEF ByteBuf!Store
  <2>3. DOMAIN m2 = DOMAIN m /\ (\A c \in DOMAIN m \ {"buf"} : m2[c] = m[c]) /\ m2["buf"] = new
    BY <1>1, <2>2
  <2>4. DOMAIN m["buf"] = 0 .. b.capacity - 1
    BY <1>1 DEF ByteBlock
  <2>5. \A i \in 0 .. b.capacity - 1 : new[i] = 0
    BY <1>1, <2>4
  <2>6. DOMAIN new = 0 .. b.capacity - 1
    BY <2>4
  <2>7. new \in ByteBlock(Byte, b.capacity)
    <3>1. ASSUME NEW i \in 0 .. b.capacity - 1 PROVE new[i] \in Byte
      BY <2>5, BufConstants
    <3> QED BY <2>4, <3>1 DEF ByteBlock
  <2> HIDE DEF new
  <2>8. ASSUME NEW i \in 0 .. b.capacity - 1 PROVE ByteBuf!HasByte(m2, ByteBuf!Plus(b.buffer, i), 0)
    <3>1. "buf" \in DOMAIN m2 /\ i \in DOMAIN m2["buf"] /\ m2["buf"][i] = 0 /\ i \in Int
      BY <1>1, <2>3, <2>5, <2>6
    <3>2. b.buffer = Start("buf")
      BY <1>1, <1>3
    <3> QED BY <3>1, <3>2, HasByteIs
  <2>9. ByteBuf!AssertAllBytesAre(m2, b.buffer, 0, b.capacity)
    BY <2>8 DEF ByteBuf!AssertAllBytesAre
  <2> QED BY <2>3, <2>7, <2>9
<1> QED BY <1>1, <1>2, <1>3

LEMMA ResetRight ==
    ASSUME BufGiven, NEW w \in ByteBuf!Outcomes, Called(w), proof \in {"reset", "secure_zero"}
    PROVE  BufRight'
<1> DEFINE b == old.obj.buf
           d == [b EXCEPT !.len = 0]
<1>1. /\ TypedMemory(old.mem) /\ ValidBuf(b, old.mem, "buf") /\ obj = old.obj /\ mem = old.mem
      /\ UNCHANGED <<proof, arg, old>> /\ arg.zero \in BOOLEAN /\ (proof = "secure_zero" => arg.zero)
  BY DEF BufGiven, OneGiven, Called
<1>2. /\ b.len \in Nat /\ b.capacity \in 0 .. MaxBuf /\ b.len <= b.capacity
      /\ b = [buffer |-> b.buffer, len |-> b.len, capacity |-> b.capacity, allocator |-> "sea"]
      /\ b.allocator = "sea" /\ b.buffer \in {Null, Start("buf")}
      /\ b.capacity > 0 => b.buffer = Start("buf")
      /\ b.capacity = 0 => b.buffer = Null
      /\ "buf" \in DOMAIN old.mem
  BY <1>1, ValidBufIs
<1>3. obj' = [buf |-> d] /\ mem' = IF arg.zero THEN ByteBuf!Zeroed(b) ELSE old.mem
  <2>1. w = ByteBuf!Does([buf |-> [obj.buf EXCEPT !.len = 0]], IF arg.zero THEN ByteBuf!Zeroed(obj.buf) ELSE mem, "none")
    BY DEF ByteBuf!Outcomes, ByteBuf!Reset
  <2> QED BY <1>1, <2>1 DEF Called, ByteBuf!Does
<1>4. d.buffer = b.buffer /\ d.len = 0 /\ d.capacity = b.capacity /\ d.allocator = "sea"
  BY <1>2
<1> HIDE DEF d
<1>5. obj'.buf = d /\ DOMAIN obj' = {"buf"}
  BY <1>3
<1>6. CASE ~arg.zero
  <2>1. mem' = old.mem /\ proof = "reset"
    BY <1>1, <1>3, <1>6
  <2>2. ByteBuf!Asserts'
    BY <1>1, <1>2, <1>4, <1>5, <1>6, <2>1 DEF ByteBuf!Asserts, ByteBuf!ByteBufResetAsserts, ByteBuf!SameFields
  <2>3. proof' \notin ByteBuf!SecondGeneration
    BY <1>1, <2>1 DEF ByteBuf!SecondGeneration
  <2>4. Shaped(d)
    BY <1>2, <1>4, BufConstants DEF Shaped
  <2> QED BY <1>1, <1>5, <2>1, <2>2, <2>3, <2>4 DEF BufRight
<1>7. CASE arg.zero
  <2> DEFINE zeroes == [i \in 0 .. b.capacity - 1 |-> 0]
  <2>1. mem' = ByteBuf!Store(old.mem, b.buffer, zeroes, b.capacity)
    BY <1>1, <1>3, <1>7 DEF ByteBuf!Zeroed
  <2>2. /\ DOMAIN mem' = DOMAIN old.mem /\ \A c \in DOMAIN old.mem \ {"buf"} : mem'[c] = old.mem[c]
        /\ mem'["buf"] \in ByteBlock(Byte, b.capacity)
        /\ ByteBuf!AssertAllBytesAre(mem', b.buffer, 0, b.capacity)
    BY <1>1, <2>1, ZeroedIs
  <2>3. TypedMemory(mem')
    <3>1. Typed(mem'["buf"])
      BY <1>2, <2>2, TypedBlock, BufConstants
    <3> QED BY <1>1, <2>2, <3>1 DEF TypedMemory
  <2>4. ByteBuf!IsValid("buf")'
    <3>1. "buf" # "null"
      OBVIOUS
    <3> QED BY <1>2, <1>4, <1>5, <3>1, NullIs, StartIsNotNull, BufConstants DEF ByteBuf!IsValid, ByteBuf!BufIsValid
  <2>5. ByteBuf!Asserts'
    BY <1>1, <1>2, <1>4, <1>5, <2>2, <2>4 DEF ByteBuf!Asserts, ByteBuf!ByteBufResetAsserts, ByteBuf!ByteBufSecureZeroAsserts,
       ByteBuf!SameFields, ByteBuf!AssertAllZeroes
  <2>6. proof' \notin ByteBuf!SecondGeneration
    BY <1>1 DEF ByteBuf!SecondGeneration
  <2>7. Shaped(d)
    BY <1>2, <1>4, BufConstants DEF Shaped
  <2> QED BY <1>5, <2>3, <2>5, <2>6, <2>7 DEF BufRight
<1> QED BY <1>1, <1>6, <1>7

-----------------------------------------------------------------------------
(* Appending three buffers. *)

(* r is what was left after total bytes were offered to dest. *)
CatUpTo(r, total) ==
    /\ DOMAIN r.obj = DOMAIN old.obj
    /\ \A x \in DOMAIN old.obj \ {"dest"} : r.obj[x] = old.obj[x]
    /\ DOMAIN r.mem = DOMAIN old.mem
    /\ \A b \in DOMAIN old.mem \ {"dest"} : r.mem[b] = old.mem[b]
    /\ ValidBuf(r.obj.dest, r.mem, "dest")
    /\ r.obj.dest.capacity = old.obj.dest.capacity
    /\ \/ r.ret = "success" /\ r.obj.dest.len = old.obj.dest.len + total
       \/ r.ret = "error" /\ old.obj.dest.capacity - old.obj.dest.len < total

LEMMA CatOneIs ==
    ASSUME BufGiven, CatGiven, NEW r, NEW total \in Nat, CatUpTo(r, total), r = [obj |-> r.obj, mem |-> r.mem, ret |-> r.ret],
           NEW x \in {"buffer1", "buffer2", "buffer3"}, NEW s, s = ByteBuf!CatOne(r, x)
    PROVE  CatUpTo(s, total + old.obj[x].len) /\ s = [obj |-> s.obj, mem |-> s.mem, ret |-> s.ret]
           /\ old.obj[x].len \in Nat
<1> DEFINE b == old.obj[x]
           d == r.obj.dest
<1>1. /\ x \in DOMAIN old.obj /\ "dest" \in DOMAIN old.obj /\ x # "dest" /\ x # "null" /\ ValidBuf(b, old.mem, x)
      /\ ValidBuf(old.obj.dest, old.mem, "dest")
  BY DEF CatGiven
<1>2. /\ b.len \in Nat /\ Source(b.buffer, b.len, old.mem, x) /\ r.obj[x] = b /\ x \in DOMAIN old.mem
  BY <1>1, BufSource, ValidBufIs DEF CatUpTo
<1>3. /\ d.len \in Nat /\ d.capacity \in Nat /\ d.len <= d.capacity
      /\ d = [buffer |-> d.buffer, len |-> d.len, capacity |-> d.capacity, allocator |-> "sea"]
      /\ d.capacity = old.obj.dest.capacity /\ d.capacity \in 0 .. MaxBuf
      /\ d.capacity > 0 => d.buffer = Start("dest")
      /\ d.capacity = 0 => d.buffer = Null
  BY ValidBufIs, BufConstants DEF CatUpTo
<1>4. old.obj.dest.len \in Nat /\ old.obj.dest.capacity \in Nat
  BY <1>1, ValidBufIs, BufConstants
<1>5. CASE r.ret = "error" \/ b.len > d.capacity - d.len
  <2>1. s = [r EXCEPT !.ret = "error"]
    BY <1>2, <1>5 DEF ByteBuf!CatOne, ByteBuf!Answers
  <2>2. s = [obj |-> r.obj, mem |-> r.mem, ret |-> "error"]
    BY <2>1
  <2>3. s.obj = r.obj /\ s.mem = r.mem /\ s.ret = "error"
    BY <2>2
  <2>4. old.obj.dest.capacity - old.obj.dest.len < total + b.len
    BY <1>2, <1>3, <1>4, <1>5 DEF CatUpTo
  <2> QED BY <1>2, <2>2, <2>3, <2>4 DEF CatUpTo
<1>6. CASE r.ret # "error" /\ b.len <= d.capacity - d.len
  <2> DEFINE bytes == ByteBuf!BytesAt(r.mem, b.buffer, b.len)
             m2 == ByteBuf!Store(r.mem, ByteBuf!End(d), bytes, b.len)
             d2 == [d EXCEPT !.len = @ + b.len]
  <2>1. s = ByteBuf!Does([r.obj EXCEPT !.dest.len = @ + b.len], m2, "success")
    <3>1. ~(r.ret = "error" \/ b.len > d.capacity - d.len)
      BY <1>2, <1>3, <1>6
    <3> QED BY <1>2, <3>1 DEF ByteBuf!CatOne
  <2>2. bytes \in ByteBlock(Byte, b.len)
    <3>1. Source(b.buffer, b.len, r.mem, x)
      BY <1>1, <1>2 DEF Source, CatUpTo
    <3> QED BY <1>2, <3>1, SourceBytes
  <2> HIDE DEF bytes
  <2>3. /\ DOMAIN m2 = DOMAIN r.mem /\ \A c \in DOMAIN r.mem \ {"dest"} : m2[c] = r.mem[c]
        /\ m2["dest"] \in ByteBlock(Byte, d.capacity)
    <3>1. ValidBuf(d, r.mem, "dest") /\ "dest" # "null"
      BY DEF CatUpTo
    <3> HIDE DEF d
    <3> QED BY <1>2, <1>6, <2>2, <3>1, BufStore
  <2> HIDE DEF m2
  <2>4. s = [obj |-> s.obj, mem |-> s.mem, ret |-> s.ret] /\ s.obj = [r.obj EXCEPT !.dest.len = @ + b.len]
        /\ s.mem = m2 /\ s.ret = "success"
    BY <2>1 DEF ByteBuf!Does
  <2>5. DOMAIN s.obj = DOMAIN r.obj /\ s.obj["dest"] = d2 /\ \A y \in DOMAIN r.obj \ {"dest"} : s.obj[y] = r.obj[y]
    BY <1>1, <2>4 DEF CatUpTo
  <2>6. d2 = [buffer |-> d.buffer, len |-> d.len + b.len, capacity |-> d.capacity, allocator |-> "sea"]
    BY <1>3
  <2> HIDE DEF d2
  <2>7. d2.buffer = d.buffer /\ d2.len = d.len + b.len /\ d2.capacity = d.capacity /\ d2.allocator = "sea"
    BY <2>6
  <2>8. d2.len \in Nat /\ d2.len <= d2.capacity
    BY <1>2, <1>3, <1>6, <2>7
  <2>9. ValidBuf(s.obj.dest, s.mem, "dest")
    <3>1. ValidBuf(d, r.mem, "dest") /\ "dest" \in DOMAIN r.mem
      BY ValidBufIs DEF CatUpTo
    <3> QED BY <1>2, <1>3, <2>3, <2>4, <2>5, <2>6, <2>7, <2>8, <3>1 DEF ValidBuf, BufOf, Holds
  <2>10. r.ret = "success" /\ d.len = old.obj.dest.len + total
    BY <1>6 DEF CatUpTo
  <2>11. s.obj.dest.len = old.obj.dest.len + (total + b.len)
    BY <1>2, <1>4, <2>5, <2>7, <2>10
  <2>12. /\ DOMAIN s.obj = DOMAIN old.obj /\ \A y \in DOMAIN old.obj \ {"dest"} : s.obj[y] = old.obj[y]
         /\ DOMAIN s.mem = DOMAIN old.mem /\ \A c \in DOMAIN old.mem \ {"dest"} : s.mem[c] = old.mem[c]
    BY <2>3, <2>4, <2>5 DEF CatUpTo
  <2>13. s.obj.dest.capacity = old.obj.dest.capacity
    BY <1>3, <2>5, <2>7
  <2> QED BY <1>2, <2>4, <2>9, <2>11, <2>12, <2>13 DEF CatUpTo
<1> QED BY <1>2, <1>3, <1>5, <1>6

LEMMA CatIs ==
    ASSUME BufGiven, CatGiven, Fresh, NEW w \in ByteBuf!Cat
    PROVE  /\ CatUpTo(w, old.obj["buffer1"].len + old.obj["buffer2"].len + old.obj["buffer3"].len)
           /\ {old.obj["buffer1"].len, old.obj["buffer2"].len, old.obj["buffer3"].len} \subseteq Nat
<1> DEFINE o == old.obj
           r0 == ByteBuf!Same("success")
           r1 == ByteBuf!CatOne(r0, "buffer1")
           r2 == ByteBuf!CatOne(r1, "buffer2")
           r3 == ByteBuf!CatOne(r2, "buffer3")
           n1 == o["buffer1"].len
           n2 == o["buffer2"].len
           n3 == o["buffer3"].len
<1>2. w = r3
  BY DEF ByteBuf!Cat
<1>3. CatUpTo(r0, 0) /\ r0 = [obj |-> r0.obj, mem |-> r0.mem, ret |-> r0.ret]
  <2>1. r0.obj = o /\ r0.mem = old.mem /\ r0.ret = "success" /\ r0 = [obj |-> r0.obj, mem |-> r0.mem, ret |-> r0.ret]
    BY DEF Fresh, ByteBuf!Same, ByteBuf!Does
  <2>2. ValidBuf(o.dest, old.mem, "dest") /\ o.dest.len \in Nat
    BY ValidBufIs DEF CatGiven
  <2> HIDE DEF r0
  <2> QED BY <2>1, <2>2 DEF CatUpTo
<1> HIDE DEF r0
<1>4. CatUpTo(r1, 0 + n1) /\ r1 = [obj |-> r1.obj, mem |-> r1.mem, ret |-> r1.ret] /\ n1 \in Nat
  BY <1>3, CatOneIs
<1> HIDE DEF r1
<1>5. CatUpTo(r2, 0 + n1 + n2) /\ r2 = [obj |-> r2.obj, mem |-> r2.mem, ret |-> r2.ret] /\ n2 \in Nat
  <2>1. 0 + n1 \in Nat
    BY <1>4
  <2> QED BY <1>4, <2>1, CatOneIs
<1> HIDE DEF r2
<1>6. CatUpTo(r3, 0 + n1 + n2 + n3) /\ n3 \in Nat
  <2>1. 0 + n1 + n2 \in Nat
    BY <1>4, <1>5
  <2> QED BY <1>5, <2>1, CatOneIs
<1>7. 0 + n1 + n2 + n3 = n1 + n2 + n3
  BY <1>4, <1>5, <1>6
<1> HIDE DEF r3, n1, n2, n3
<1> QED BY <1>2, <1>4, <1>5, <1>6, <1>7 DEF n1, n2, n3

LEMMA CatRight ==
    ASSUME BufGiven, NEW w \in ByteBuf!Outcomes, Called(w), proof = "cat"
    PROVE  BufRight'
<1> DEFINE o == old.obj
           n1 == o["buffer1"].len
           n2 == o["buffer2"].len
           n3 == o["buffer3"].len
<1>1. CatGiven /\ Fresh /\ UNCHANGED <<proof, old>> /\ TypedMemory(old.mem)
  BY DEF BufGiven, Called, Fresh
<1>2. w \in ByteBuf!Cat
  BY DEF ByteBuf!Outcomes
<1>6. CatUpTo(w, n1 + n2 + n3) /\ n1 \in Nat /\ n2 \in Nat /\ n3 \in Nat
  BY <1>1, <1>2, CatIs
<1>7. obj' = w.obj /\ mem' = w.mem /\ ret' = w.ret
  BY DEF Called
<1>8. /\ DOMAIN o = {"dest", "buffer1", "buffer2", "buffer3"} /\ DOMAIN obj' = DOMAIN o
      /\ \A x \in {"buffer1", "buffer2", "buffer3"} : obj'[x] = o[x]
      /\ DOMAIN mem' = DOMAIN old.mem /\ \A b \in DOMAIN old.mem \ {"dest"} : mem'[b] = old.mem[b]
      /\ ValidBuf(obj'.dest, mem', "dest") /\ obj'.dest.capacity = o.dest.capacity
  BY <1>1, <1>6, <1>7 DEF CatUpTo, CatGiven
<1>9. \/ ret' = "success" /\ obj'.dest.len = o.dest.len + (n1 + n2 + n3)
      \/ ret' = "error" /\ o.dest.capacity - o.dest.len < n1 + n2 + n3
  BY <1>6, <1>7 DEF CatUpTo
<1>10. IF ret' = "success" THEN o.dest.capacity - o.dest.len >= n1 + n2 + n3
       ELSE o.dest.capacity - o.dest.len < n1 + n2 + n3
  <2>1. obj'.dest.len <= obj'.dest.capacity
    BY <1>8, ValidBufIs
  <2>2. o.dest.len \in Nat /\ o.dest.capacity \in Nat
    BY <1>1, ValidBufIs, BufConstants DEF CatGiven
  <2> QED BY <1>6, <1>8, <1>9, <2>1, <2>2
<1>11. ASSUME NEW x \in {"buffer1", "buffer2", "buffer3"}
       PROVE  ByteBuf!BufIsValid(obj'[x]) /\ ValidBuf(o[x], old.mem, x) /\ x \in DOMAIN mem' /\ mem'[x] = old.mem[x]
              /\ Shaped(obj'[x]) /\ obj'[x] = o[x] /\ o[x].buffer \in {Null, Start(x)}
              /\ ByteBuf!AssertByteBufEquivalence(mem', obj'[x], o[x], ByteBuf!SaveByteFromArray(old.mem, o[x].buffer, o[x].len))
  <2>1. ValidBuf(o[x], old.mem, x) /\ x # "null" /\ x # "dest"
    BY <1>1, <1>8 DEF CatGiven
  <2>2. x \in DOMAIN mem' /\ mem'[x] = old.mem[x] /\ o[x].buffer \in {Null, Start(x)}
    BY <1>8, <2>1, ValidBufIs
  <2>3. \A i \in 0 .. o[x].len - 1 : i \in DOMAIN mem'[x] /\ mem'[x][i] = old.mem[x][i]
    BY <2>1, <2>2, ValidBufIs, BufConstants DEF ByteBlock
  <2> QED BY <1>8, <2>1, <2>2, <2>3, PrefixKept, ValidIsValid, ValidBufIsShaped
<1>12. /\ ByteBuf!BufIsValid(obj'.dest) /\ Shaped(obj'.dest) /\ Typed(mem'["dest"])
  <2>1. "dest" # "null"
    OBVIOUS
  <2> QED BY <1>8, <2>1, ValidIsValid, ValidBufIsShaped
<1>13. TypedMemory(mem')
  BY <1>1, <1>8, <1>12 DEF TypedMemory
<1>14. \A x \in {"buffer1", "buffer2", "buffer3"} : ByteBuf!BufSame(x)'
  BY <1>1, <1>11 DEF ByteBuf!BufSame, ByteBuf!SavedBuf
<1>15. \A x \in {"buffer1", "buffer2", "buffer3"} : ByteBuf!Untouched(x)'
  BY <1>1, <1>11 DEF ByteBuf!Untouched, ByteBuf!Modified, ByteBuf!BytesModified, Start, Null, TypedMemory
<1>16. \A x \in {"buffer1", "buffer2", "buffer3", "dest"} : ByteBuf!IsValid(x)'
  BY <1>11, <1>12 DEF ByteBuf!IsValid
<1>17. obj'.buffer1.len = n1 /\ obj'.buffer2.len = n2 /\ obj'.buffer3.len = n3
  BY <1>8
<1>18. ByteBuf!Asserts'
  BY <1>1, <1>10, <1>14, <1>16, <1>17 DEF ByteBuf!Asserts, ByteBuf!ByteBufCatAsserts
<1>19. ByteBuf!Asserts2'
  BY <1>1, <1>10, <1>15, <1>16, <1>17 DEF ByteBuf!Asserts2, ByteBuf!ByteBufCat2Asserts
<1>20. \A x \in DOMAIN obj' : Shaped(obj'[x])
  BY <1>8, <1>11, <1>12
<1> QED BY <1>13, <1>18, <1>19, <1>20 DEF BufRight

-----------------------------------------------------------------------------
(* Every function. *)

LEMMA OutcomesRight ==
    ASSUME BufGiven, NEW w \in ByteBuf!Outcomes, Called(w)
    PROVE  BufRight'
<1>1. CASE proof \in {"advance", "append", "append_dynamic", "append_with_lookup", "cat"}
  BY <1>1, AdvanceRight, AppendRight, AppendDynamicRight, CatRight
<1>2. CASE proof \in {"clean_up", "clean_up_secure", "eq", "eq_ignore_case", "eq_c_str", "eq_c_str_ignore_case"}
  BY <1>2, CleanUpRight, EqRight, EqStrRight
<1>3. CASE proof \in {"from_array", "from_empty_array", "from_c_str", "init", "init_copy", "init_copy_from_cursor"}
  BY <1>3, FromArrayRight, InitRight, InitCopyRight, InitCopyFromCursorRight
<1>4. CASE proof \in {"reserve", "reserve_relative", "reset", "secure_zero", "write", "write_be16", "write_be32",
                      "write_be64", "write_u8"}
  BY <1>4, ReserveRight, ReserveRelativeRight, ResetRight, WriteRight, IntegerRight
<1>5. CASE proof \in {"write_from_whole_buffer", "write_from_whole_cursor", "write_from_whole_string"}
  BY <1>5, WriteWholeRight, WriteStringRight
<1> QED BY <1>1, <1>2, <1>3, <1>4, <1>5 DEF BufGiven, BufProofs

(* A unit proof stays in its tool. *)
LEMMA ByteBufTool == ASSUME ByteBuf!Next PROVE tool' = tool
<1>1. CASE ByteBuf!Setup
  BY <1>1 DEF
     ByteBuf!Setup, ByteBuf!ByteBufAdvanceSetup, ByteBuf!ByteBufAppendSetup,
     ByteBuf!ByteBufAppendDynamicSetup, ByteBuf!ByteBufAppendWithLookupSetup,
     ByteBuf!ByteBufCatSetup, ByteBuf!ByteBufCleanUpSetup, ByteBuf!ByteBufCleanUpSecureSetup,
     ByteBuf!ByteBufEqSetup, ByteBuf!ByteBufEqCStrSetup, ByteBuf!ByteBufEqCStrIgnoreCaseSetup,
     ByteBuf!ByteBufEqIgnoreCaseSetup, ByteBuf!ByteBufFromArraySetup, ByteBuf!ByteBufFromCStrSetup,
     ByteBuf!ByteBufFromEmptyArraySetup, ByteBuf!ByteBufInitSetup, ByteBuf!ByteBufInitCopySetup,
     ByteBuf!ByteBufInitCopyFromCursorSetup, ByteBuf!ByteBufReserveSetup,
     ByteBuf!ByteBufReserveRelativeSetup, ByteBuf!ByteBufResetSetup,
     ByteBuf!ByteBufSecureZeroSetup, ByteBuf!ByteBufWriteSetup, ByteBuf!ByteBufWriteBe16Setup,
     ByteBuf!ByteBufWriteBe32Setup, ByteBuf!ByteBufWriteBe64Setup,
     ByteBuf!ByteBufWriteFromWholeBufferSetup, ByteBuf!ByteBufWriteFromWholeCursorSetup,
     ByteBuf!ByteBufWriteFromWholeStringSetup, ByteBuf!ByteBufWriteU8Setup, ByteBuf!ToAndFrom,
     ByteBuf!OneBuf, ByteBuf!LhsAndRhs, ByteBuf!BufAndStr, ByteBuf!Array, ByteBuf!Integer,
     ByteBuf!Reach
<1>2. CASE ~ByteBuf!Setup
  BY <1>2 DEF
     ByteBuf!Next, ByteBuf!Call, ByteBuf!SkippedCall, ByteBuf!Fault, ByteBuf!StrayField,
     ByteBuf!StrayByte, ByteBuf!WrongReturn, ByteBuf!Goes, ByteBuf!Check
<1> QED BY <1>1, <1>2

-----------------------------------------------------------------------------
(* The inductive invariant. *)

(* What a set-up leaves: the call is next, and the inputs are untouched. *)
LEMMA BufSetupReaches ==
    ASSUME ByteBuf!Setup
    PROVE  pc' = "call" /\ obj' = old'.obj /\ mem' = old'.mem /\ UNCHANGED <<tool, faults>>
BY DEF
     ByteBuf!Setup, ByteBuf!ByteBufAdvanceSetup, ByteBuf!ByteBufAppendSetup,
     ByteBuf!ByteBufAppendDynamicSetup, ByteBuf!ByteBufAppendWithLookupSetup,
     ByteBuf!ByteBufCatSetup, ByteBuf!ByteBufCleanUpSetup, ByteBuf!ByteBufCleanUpSecureSetup,
     ByteBuf!ByteBufEqSetup, ByteBuf!ByteBufEqCStrSetup, ByteBuf!ByteBufEqCStrIgnoreCaseSetup,
     ByteBuf!ByteBufEqIgnoreCaseSetup, ByteBuf!ByteBufFromArraySetup, ByteBuf!ByteBufFromCStrSetup,
     ByteBuf!ByteBufFromEmptyArraySetup, ByteBuf!ByteBufInitSetup, ByteBuf!ByteBufInitCopySetup,
     ByteBuf!ByteBufInitCopyFromCursorSetup, ByteBuf!ByteBufReserveSetup,
     ByteBuf!ByteBufReserveRelativeSetup, ByteBuf!ByteBufResetSetup,
     ByteBuf!ByteBufSecureZeroSetup, ByteBuf!ByteBufWriteSetup, ByteBuf!ByteBufWriteBe16Setup,
     ByteBuf!ByteBufWriteBe32Setup, ByteBuf!ByteBufWriteBe64Setup,
     ByteBuf!ByteBufWriteFromWholeBufferSetup, ByteBuf!ByteBufWriteFromWholeCursorSetup,
     ByteBuf!ByteBufWriteFromWholeStringSetup, ByteBuf!ByteBufWriteU8Setup, ByteBuf!ToAndFrom,
     ByteBuf!OneBuf, ByteBuf!LhsAndRhs, ByteBuf!BufAndStr, ByteBuf!Array, ByteBuf!Integer,
     ByteBuf!Reach,
     ByteBuf!Does

LEMMA BufKept == ASSUME UNCHANGED <<tool, proof, arg, old>>, BufGiven PROVE BufGiven'
BY DEF BufGiven, AdvanceGiven, AppendGiven, LookupGiven, CatGiven, OneGiven, LhsRhsGiven, StrGiven, ArrayGiven, FromStrGiven, InitGiven, CopyGiven, CopyCursorGiven, WriteGiven, IntegerGiven, ArrayIn, CStrOf, ByteBuf!Missing, ByteBuf!Null

LEMMA AssertsKept ==
    ASSUME UNCHANGED <<proof, obj, mem, arg, old, ret>> PROVE ByteBuf!Asserts' = ByteBuf!Asserts
BY DEF
   ByteBuf!Asserts, ByteBuf!ByteBufAdvanceAsserts, ByteBuf!ByteBufAppendAsserts,
   ByteBuf!ByteBufAppendDynamicAsserts, ByteBuf!ByteBufAppendWithLookupAsserts,
   ByteBuf!ByteBufCatAsserts, ByteBuf!ByteBufCleanUpAsserts, ByteBuf!ByteBufCleanUpSecureAsserts,
   ByteBuf!ByteBufEqAsserts, ByteBuf!ByteBufEqCStrAsserts,
   ByteBuf!ByteBufEqCStrIgnoreCaseAsserts, ByteBuf!ByteBufEqIgnoreCaseAsserts,
   ByteBuf!ByteBufFromArrayAsserts, ByteBuf!ByteBufFromCStrAsserts,
   ByteBuf!ByteBufFromEmptyArrayAsserts, ByteBuf!ByteBufInitAsserts,
   ByteBuf!ByteBufInitCopyAsserts, ByteBuf!ByteBufInitCopyFromCursorAsserts,
   ByteBuf!ByteBufReserveAsserts, ByteBuf!ByteBufReserveRelativeAsserts,
   ByteBuf!ByteBufResetAsserts, ByteBuf!ByteBufSecureZeroAsserts, ByteBuf!ByteBufWriteAsserts,
   ByteBuf!ByteBufWriteBe16Asserts, ByteBuf!ByteBufWriteBe32Asserts,
   ByteBuf!ByteBufWriteBe64Asserts, ByteBuf!ByteBufWriteFromWholeBufferAsserts,
   ByteBuf!ByteBufWriteFromWholeCursorAsserts, ByteBuf!ByteBufWriteFromWholeStringAsserts,
   ByteBuf!ByteBufWriteU8Asserts, ByteBuf!SameFields, ByteBuf!SavedBuf, ByteBuf!BufSame,
   ByteBuf!IsValid, ByteBuf!AppendedOrNot, ByteBuf!BytesMatch, ByteBuf!BothSame, ByteBuf!StrSame,
   ByteBuf!Written, ByteBuf!AddedBytesMatch, ByteBuf!SavedArg, ByteBuf!SavedStr

LEMMA RightKept == ASSUME UNCHANGED <<tool, proof, obj, mem, arg, old, ret>>, BufRight PROVE BufRight'
<1>1. ByteBuf!Asserts' = ByteBuf!Asserts
  BY AssertsKept
<1>2. ByteBuf!Asserts2' = ByteBuf!Asserts2
  BY DEF
     ByteBuf!Asserts2, ByteBuf!ByteBufAdvance2Asserts, ByteBuf!ByteBufAppend2Asserts,
     ByteBuf!ByteBufAppendDynamic2Asserts, ByteBuf!ByteBufAppendWithLookup2Asserts,
     ByteBuf!ByteBufCat2Asserts, ByteBuf!ByteBufEq2Asserts, ByteBuf!ByteBufEqCStr2Asserts,
     ByteBuf!ByteBufEqCStrIgnoreCase2Asserts, ByteBuf!ByteBufEqIgnoreCase2Asserts,
     ByteBuf!ByteBufInitCopy2Asserts, ByteBuf!ByteBufWrite2Asserts,
     ByteBuf!ByteBufWriteBe162Asserts, ByteBuf!ByteBufWriteBe322Asserts,
     ByteBuf!ByteBufWriteBe642Asserts, ByteBuf!ByteBufWriteFromWholeBuffer2Asserts,
     ByteBuf!ByteBufWriteFromWholeCursor2Asserts, ByteBuf!ByteBufWriteFromWholeString2Asserts,
     ByteBuf!ByteBufWriteU82Asserts, ByteBuf!SameFields, ByteBuf!BytesModified, ByteBuf!Untouched,
     ByteBuf!IsValid, ByteBuf!AppendedOrUntouched, ByteBuf!BytesMatch, ByteBuf!SavedBuf,
     ByteBuf!WrittenOrUntouched, ByteBuf!AddedBytesMatch, ByteBuf!FromWhole, ByteBuf!Modified
<1>3. ByteBuf!ArrayIsMissing' = ByteBuf!ArrayIsMissing
  BY DEF ByteBuf!ArrayIsMissing, ByteBuf!Missing, ByteBuf!Null
<1> QED BY <1>1, <1>2, <1>3 DEF BufRight

BufInv ==
    /\ tool \in Tools /\ faults \in 0 .. MaxFaults
    /\ pc \in {"setup", "call", "check", "passed", "failed"}
    /\ pc = "setup" => obj = <<>> /\ mem = <<>>
    /\ pc # "setup" => BufGiven
    /\ pc = "call" => obj = old.obj /\ mem = old.mem
    /\ pc \in {"check", "passed", "failed"} /\ faults = 0 => BufRight
    /\ pc = "failed" => faults # 0 \/ ByteBuf!ArrayIsMissing

LEMMA BufInvStep == ASSUME BufInv, ByteBuf!Next PROVE BufInv'
<1>1. CASE ByteBuf!Setup
  <2>1. pc' = "call" /\ obj' = old'.obj /\ mem' = old'.mem /\ UNCHANGED <<tool, faults>>
    BY <1>1, BufSetupReaches
  <2>2. BufGiven'
    BY <1>1, BufSetupGives DEF BufInv
  <2> QED BY <2>1, <2>2 DEF BufInv
<1>2. CASE ByteBuf!Call(ByteBuf!Outcomes)
  <2>1. /\ pc = "call" /\ pc' = "check" /\ UNCHANGED <<tool, proof, arg, old, faults>>
        /\ want' \in ByteBuf!Outcomes
        /\ obj' = want'.obj /\ mem' = want'.mem /\ ret' = want'.ret
    BY <1>2 DEF ByteBuf!Call
  <2>2. BufGiven /\ BufGiven'
    BY <2>1, BufKept DEF BufInv
  <2>3. Called(want')
    BY <2>1 DEF BufInv, Called
  <2>4. BufRight'
    BY <2>1, <2>2, <2>3, OutcomesRight
  <2> QED BY <2>1, <2>2, <2>4 DEF BufInv
<1>3. CASE ByteBuf!SkippedCall(ByteBuf!Outcomes) \/ ByteBuf!Fault
  <2>1. /\ pc \in {"call", "check"} /\ pc' = "check" /\ UNCHANGED <<tool, proof, arg, old>>
        /\ faults < MaxFaults /\ faults' = faults + 1
    BY <1>3 DEF ByteBuf!SkippedCall, ByteBuf!Fault, ByteBuf!StrayField, ByteBuf!StrayByte, ByteBuf!WrongReturn,
       ByteBuf!Goes
  <2>2. BufGiven'
    BY <2>1, BufKept DEF BufInv
  <2> QED BY <2>1, <2>2, BufConstants DEF BufInv
<1>4. CASE ByteBuf!Check(ByteBuf!Asserts)
  <2>1. /\ pc = "check" /\ pc' \in {"passed", "failed"} /\ (ByteBuf!Asserts => pc' = "passed")
        /\ UNCHANGED <<tool, proof, obj, mem, arg, old, ret, want, faults>>
    BY <1>4 DEF ByteBuf!Check
  <2>2. BufGiven'
    BY <2>1, BufKept DEF BufInv
  <2>3. BufRight => BufRight'
    BY <2>1, RightKept
  <2>4. BufRight => ByteBuf!Asserts \/ ByteBuf!ArrayIsMissing'
    BY <2>1 DEF BufRight, ByteBuf!ArrayIsMissing, ByteBuf!Missing, ByteBuf!Null
  <2> QED BY <2>1, <2>2, <2>3, <2>4 DEF BufInv
<1> QED BY <1>1, <1>2, <1>3, <1>4 DEF ByteBuf!Next

LEMMA BufTyped == BufInv /\ faults = 0 => ByteBuf!TypeOK
<1> SUFFICES ASSUME BufInv, faults = 0 PROVE ByteBuf!TypeOK
  OBVIOUS
<1>1. (\A x \in DOMAIN obj : Shaped(obj[x])) /\ TypedMemory(mem)
  <2>1. CASE pc = "setup"
    <3>1. DOMAIN obj = {} /\ DOMAIN mem = {}
      BY <2>1 DEF BufInv
    <3> QED BY <3>1 DEF TypedMemory
  <2>2. CASE pc = "call"
    BY <2>2 DEF BufInv, BufGiven
  <2>3. CASE pc \in {"check", "passed", "failed"}
    BY <2>3 DEF BufInv, BufRight
  <2> QED BY <2>1, <2>2, <2>3 DEF BufInv
<1>2. \A x \in DOMAIN obj : obj[x].len \in 0 .. BufSizeMax
  BY <1>1, BufConstants DEF Shaped
<1>3. \A b \in DOMAIN mem : \E n \in 0 .. BufSizeMax : mem[b] \in ByteBuf!Contents(n)
  BY <1>1 DEF TypedMemory, Typed, ByteBlock, ByteBuf!Contents
<1> QED BY <1>2, <1>3, BufConstants DEF ByteBuf!TypeOK, BufInv

LEMMA BufNoAlarm == BufInv /\ faults = 0 => ByteBuf!NoFalseAlarm /\ ByteBuf!NoFalseAlarm2
BY DEF BufInv, BufRight, ByteBuf!NoFalseAlarm, ByteBuf!NoFalseAlarm2, ByteBuf!SecondRuns, ByteBuf!Judged

-----------------------------------------------------------------------------
(* A buffer of every capacity and of every length. *)
LEMMA SomeBytes == ASSUME NEW n \in Nat PROVE \E c : c \in ByteBuf!Contents(n)
<1>1. [i \in 0 .. n - 1 |-> 0] \in ByteBuf!Contents(n)
  BY BufConstants DEF ByteBuf!Contents
<1> QED BY <1>1

LEMMA ShapedIsBuilt ==
    ASSUME tool \in Tools, NEW k \in 0 .. MaxBuf, NEW n \in 0 .. k,
           tool = "fuzz" => k # MaxBuf /\ n # k
    PROVE  \E buf \in ByteBuf!ValidBufs("buf") : buf.s.len = n /\ buf.s.capacity = k
<1>0. "buf" # "null" /\ k \in Nat /\ n \in Nat /\ n <= k /\ k <= MaxBuf /\ 0 \in 0 .. MaxBuf /\ MaxBuf \in Nat
  BY BufConstants
<1>1. CASE k = 0 /\ tool # "fuzz"
  <2> DEFINE r == ByteBuf!Built(ByteBuf!Null, ByteBuf!NoBlock)
             x == ByteBuf!Built(ByteBuf!Buf(ByteBuf!Null, 0, 0, "sea"), ByteBuf!NoBlock)
  <2>1. r \in ByteBuf!SeaCanFailMallocHavoc("buf", 0) /\ r \in ByteBuf!KleeCanFailMallocHavoc("buf", 0)
        /\ r.s = ByteBuf!Null /\ r.m = ByteBuf!NoBlock
    BY DEF ByteBuf!SeaCanFailMallocHavoc, ByteBuf!KleeCanFailMallocHavoc, ByteBuf!Nothing, ByteBuf!Built
  <2>2. x \in ByteBuf!SeaByteBufs("buf")
    BY <1>0, <2>1 DEF ByteBuf!SeaByteBufs
  <2>3. x \in ByteBuf!KleeByteBufs("buf")
    BY <1>0, <2>1 DEF ByteBuf!KleeByteBufs
  <2>4. x \in ByteBuf!InitializeByteBuf("buf")
    BY <1>1, <2>2, <2>3, BufConstants DEF ByteBuf!InitializeByteBuf, ByteBuf!ForTool
  <2>5. x.s.len = 0 /\ x.s.capacity = 0 /\ x.s.buffer = ByteBuf!Null
    BY DEF ByteBuf!Built, ByteBuf!Buf
  <2> QED BY <1>0, <1>1, <2>4, <2>5 DEF ByteBuf!ValidBufs, ByteBuf!BufIsValid
<1>2. CASE k > 0
  <2>1. PICK c : c \in ByteBuf!Contents(k)
    BY <1>0, SomeBytes
  <2> DEFINE p == ByteBuf!StartOf("buf")
             r == ByteBuf!Built(p, c)
             x == ByteBuf!Built(ByteBuf!Buf(p, n, k, "sea"), c)
  <2>2. p # ByteBuf!Null
    BY <1>0, NullIs, StartIsNotNull
  <2>3. /\ r \in ByteBuf!NewBlock("buf", k) /\ r.s = p /\ r.m = c
    BY <2>1 DEF ByteBuf!NewBlock, ByteBuf!Built
  <2>4. r \in ByteBuf!SeaCanFailMallocHavoc("buf", k) /\ r \in ByteBuf!KleeCanFailMallocHavoc("buf", k)
        /\ r \in ByteBuf!FuzzMallocHavoc("buf", k)
    BY <1>0, <1>2, <2>3 DEF ByteBuf!SeaCanFailMallocHavoc, ByteBuf!KleeCanFailMallocHavoc,
       ByteBuf!KleeBoundedMallocHavoc, ByteBuf!FuzzMallocHavoc
  <2>5. x.s.len = n /\ x.s.capacity = k /\ x.s.buffer = p
    BY DEF ByteBuf!Built, ByteBuf!Buf
  <2> HIDE DEF r, p
  <2>6. x \in ByteBuf!SeaByteBufs("buf")
    BY <1>0, <2>3, <2>4 DEF ByteBuf!SeaByteBufs
  <2>7. x \in ByteBuf!KleeByteBufs("buf")
    BY <1>0, <2>2, <2>3, <2>4 DEF ByteBuf!KleeByteBufs
  <2>8. ASSUME tool = "fuzz" PROVE x \in ByteBuf!FuzzByteBufs("buf")
    <3>1. k = k % MaxBuf /\ k \in 0 .. BufSizeMax /\ n = n % k /\ n \in 0 .. BufSizeMax
      <4>1. k < MaxBuf /\ n < k
        BY <1>0, <1>2, <2>8
      <4> QED BY <1>0, <1>2, <4>1, BufConstants
    <3>2. k \in {i % MaxBuf : i \in 0 .. BufSizeMax} /\ n \in {i % k : i \in 0 .. BufSizeMax}
      BY <3>1
    <3> DEFINE Lens(cap) == IF cap = 0 THEN {0} ELSE {i % cap : i \in 0 .. BufSizeMax}
               Of(cap) == UNION {{ByteBuf!Built(ByteBuf!Buf(q.s, len, cap, "sea"), q.m) : len \in Lens(cap)} :
                                     q \in ByteBuf!FuzzMallocHavoc("buf", cap)}
    <3>3. n \in Lens(k)
      BY <1>2, <3>2
    <3>4. ByteBuf!FuzzByteBufs("buf") = UNION {Of(cap) : cap \in {i % MaxBuf : i \in 0 .. BufSizeMax}}
      BY DEF ByteBuf!FuzzByteBufs
    <3> HIDE DEF Lens
    <3>5. x \in Of(k)
      BY <2>3, <2>4, <3>3
    <3> HIDE DEF Of
    <3> QED BY <3>2, <3>4, <3>5
  <2>9. x \in ByteBuf!InitializeByteBuf("buf")
    BY <2>6, <2>7, <2>8, BufConstants DEF ByteBuf!InitializeByteBuf, ByteBuf!ForTool
  <2> QED BY <1>0, <1>2, <2>2, <2>5, <2>9 DEF ByteBuf!ValidBufs, ByteBuf!BufIsValid
<1> QED BY <1>0, <1>1, <1>2

LEMMA BufNextIsTried == BufInv => ByteBuf!NextCallIsTried
<1> SUFFICES ASSUME BufInv, pc = "passed", faults = 0, NEW x \in DOMAIN obj,
                    ~(obj[x].capacity > MaxBuf),
                    ~(tool = "fuzz" /\ (obj[x].capacity = MaxBuf \/ obj[x].len = obj[x].capacity))
             PROVE  \E buf \in ByteBuf!ValidBufs("buf") :
                        buf.s.len = obj[x].len /\ buf.s.capacity = obj[x].capacity
  BY DEF ByteBuf!NextCallIsTried
<1>1. Shaped(obj[x]) /\ tool \in Tools
  BY DEF BufInv, BufRight
<1>2. obj[x].capacity \in 0 .. MaxBuf /\ obj[x].len \in 0 .. obj[x].capacity
  BY <1>1, BufConstants DEF Shaped
<1> QED BY <1>1, <1>2, ShapedIsBuilt

-----------------------------------------------------------------------------
(* What a unit proof that passes has seen (PassedMeansCorrect). *)

(* The places at which a result differs. *)
LEMMA DifferenceIs ==
    ASSUME NEW d \in ByteBuf!Differences
    PROVE  \/ \E x \in DOMAIN obj \cap DOMAIN want.obj : \E f \in DOMAIN obj[x] :
                  d = <<x, f>> /\ obj[x][f] # want.obj[x][f]
           \/ \E b \in DOMAIN want.mem : \E i \in DOMAIN want.mem[b] :
                  /\ d = <<"byte", b, i>>
                  /\ ~ByteBuf!HasByte(mem, ByteBuf!Plus(ByteBuf!StartOf(b), i), want.mem[b][i])
           \/ d = <<"ret", ret>> /\ ret # want.ret
<1> DEFINE F(x) == ByteBuf!Field(x, {f \in DOMAIN obj[x] : obj[x][f] # want.obj[x][f]})
           B(b) == ByteBuf!ByteOf(b, {i \in DOMAIN want.mem[b] :
                       ~ByteBuf!HasByte(mem, ByteBuf!Plus(ByteBuf!StartOf(b), i), want.mem[b][i])})
           fields == UNION {F(x) : x \in DOMAIN obj \cap DOMAIN want.obj}
           bytes == UNION {B(b) : b \in DOMAIN want.mem}
           answer == IF ret = want.ret THEN {} ELSE {<<"ret", ret>>}
<1>1. ByteBuf!Differences = fields \cup bytes \cup answer
  BY DEF ByteBuf!Differences
<1>2. ASSUME d \in fields PROVE \E x \in DOMAIN obj \cap DOMAIN want.obj : \E f \in DOMAIN obj[x] :
                                    d = <<x, f>> /\ obj[x][f] # want.obj[x][f]
  BY <1>2 DEF ByteBuf!Field
<1>3. ASSUME d \in bytes
      PROVE  \E b \in DOMAIN want.mem : \E i \in DOMAIN want.mem[b] :
                 /\ d = <<"byte", b, i>>
                 /\ ~ByteBuf!HasByte(mem, ByteBuf!Plus(ByteBuf!StartOf(b), i), want.mem[b][i])
  BY <1>3 DEF ByteBuf!ByteOf
<1>4. ASSUME d \in answer PROVE d = <<"ret", ret>> /\ ret # want.ret
  BY <1>4
<1> HIDE DEF fields, bytes, answer
<1> QED BY <1>1, <1>2, <1>3, <1>4

LEMMA FieldIsRight ==
    ASSUME NEW x, x # "ret", NEW f, obj[x][f] = want.obj[x][f]
    PROVE  <<x, f>> \notin ByteBuf!Differences
<1>1. ASSUME NEW b, NEW i PROVE <<x, f>> # <<"byte", b, i>>
  OBVIOUS
<1>2. ASSUME NEW y, NEW g, <<x, f>> = <<y, g>> PROVE x = y /\ f = g
  BY <1>2
<1> QED BY <1>1, <1>2, DifferenceIs

LEMMA ByteIsRight ==
    ASSUME NEW b, NEW i,
           b \in DOMAIN want.mem /\ i \in DOMAIN want.mem[b] =>
               ByteBuf!HasByte(mem, ByteBuf!Plus(ByteBuf!StartOf(b), i), want.mem[b][i])
    PROVE  <<"byte", b, i>> \notin ByteBuf!Differences
<1>1. ASSUME NEW x, NEW f PROVE <<x, f>> # <<"byte", b, i>>
  OBVIOUS
<1>2. ASSUME NEW c, NEW j, <<"byte", c, j>> = <<"byte", b, i>> PROVE c = b /\ j = i
  BY <1>2
<1>3. <<"byte", b, i>> # <<"ret", ret>>
  OBVIOUS
<1> QED BY <1>1, <1>2, <1>3, DifferenceIs

LEMMA AnswerIsRight ==
    ASSUME ret = want.ret, "ret" \notin DOMAIN want.obj
    PROVE  <<"ret", ret>> \notin ByteBuf!Differences
<1>1. ASSUME NEW b, NEW i PROVE <<"ret", ret>> # <<"byte", b, i>>
  OBVIOUS
<1>2. ASSUME NEW y, NEW g, <<"ret", ret>> = <<y, g>> PROVE y = "ret"
  BY <1>2
<1> QED BY <1>1, <1>2, DifferenceIs

-----------------------------------------------------------------------------
(* What a correct function leaves, as far as a unit proof looks at it. *)

IsStruct(w, x) == x \in DOMAIN w.obj /\ {"buffer", "allocator"} \subseteq DOMAIN w.obj[x]

SameKind(w, x) == w.obj[x].capacity = old.obj[x].capacity /\ w.obj[x].allocator = old.obj[x].allocator

Measures(w, x, len, capacity, allocator) ==
    w.obj[x].len = len /\ w.obj[x].capacity = capacity /\ w.obj[x].allocator = allocator

WantsAdvance(w) ==
    /\ IsStruct(w, "buf")
    /\ w.mem = old.mem /\ w.obj.buf.buffer = old.obj.buf.buffer /\ SameKind(w, "buf")
    /\ IF w.ret = "true"
       THEN w.obj.buf.len = old.obj.buf.len + arg.len /\ Measures(w, "output", 0, arg.len, "none")
       ELSE w.obj.buf.len = old.obj.buf.len /\ Measures(w, "output", 0, 0, "none")

WantsAppend(w) ==
    /\ IsStruct(w, "to") /\ w.obj.to.allocator = old.obj.to.allocator
    /\ w.obj.to.len = IF w.ret = "success" THEN old.obj.to.len + arg.from.len ELSE old.obj.to.len

Total == old.obj.buffer1.len + old.obj.buffer2.len + old.obj.buffer3.len
Appended == {"buffer1", "buffer2", "buffer3"}

WantsCat(w) ==
    /\ DOMAIN w.obj = DOMAIN old.obj
    /\ \A x \in Appended : w.obj[x] = old.obj[x] /\ w.mem[x] = old.mem[x]
    /\ \/ w.ret = "success" /\ old.obj.dest.capacity - old.obj.dest.len >= Total
       \/ w.ret = "error" /\ old.obj.dest.capacity - old.obj.dest.len < Total

SameBytesBefore(p, k, q, n) == k = n /\ ByteBuf!BytesAt(old.mem, p, k) = ByteBuf!BytesAt(old.mem, q, n)

Unchanged(w) == w.obj = old.obj /\ w.mem = old.mem

WantsEq(w) ==
    /\ Unchanged(w)
    /\ proof = "eq" /\ w.ret # "true" =>
           ~SameBytesBefore(old.obj.lhs.buffer, old.obj.lhs.len, old.obj.rhs.buffer, old.obj.rhs.len)

WantsEqStr(w) ==
    /\ Unchanged(w)
    /\ proof = "eq_c_str" /\ w.ret # "true" =>
           ~SameBytesBefore(old.obj.buf.buffer, old.obj.buf.len, arg.c_str, arg.len)

WantsCopy(w) ==
    /\ "dest" \in DOMAIN w.obj /\ "src" \in DOMAIN w.obj
    /\ Measures(w, "dest", old.obj.src.len, old.obj.src.capacity, "sea")
    /\ w.obj.src = old.obj.src /\ w.mem["src"] = old.mem["src"]

WantsReset(w) ==
    /\ w.obj.buf.len = 0 /\ w.obj.buf.buffer = old.obj.buf.buffer /\ SameKind(w, "buf")
    /\ arg.zero => /\ DOMAIN w.mem["buf"] = 0 .. old.obj.buf.capacity - 1
                   /\ \A i \in DOMAIN w.mem["buf"] : w.mem["buf"][i] = 0

(* n bytes added, or nothing done. *)
WantsWrite(w, n) ==
    /\ IsStruct(w, "buf")
    /\ w.obj.buf.buffer = old.obj.buf.buffer /\ SameKind(w, "buf")
    /\ IF w.ret = "true" THEN w.obj.buf.len = old.obj.buf.len + n
       ELSE w.obj.buf.len = old.obj.buf.len /\ w.mem = old.mem

(* Those of block b. *)
WantsBytes(w, n, b) ==
    w.ret = "true" => \A i \in 0 .. n - 1 : w.mem["buf"][old.obj.buf.len + i] = w.mem[b][i]

Wants(w) ==
    /\ proof = "advance" => WantsAdvance(w)
    /\ proof \in {"append", "append_with_lookup"} => WantsAppend(w) /\ SameKind(w, "to")
    /\ proof = "append_dynamic" => WantsAppend(w)
    /\ proof = "cat" => WantsCat(w)
    /\ proof \in {"clean_up", "clean_up_secure"} => w.obj.buf = ByteBuf!ZeroBuf
    /\ proof \in {"eq", "eq_ignore_case"} => WantsEq(w)
    /\ proof \in {"eq_c_str", "eq_c_str_ignore_case"} => WantsEqStr(w)
    /\ proof = "from_array" => Measures(w, "buf", arg.length, arg.length, "none")
    /\ proof = "from_c_str" => Measures(w, "buf", arg.len, arg.len, "none")
    /\ proof = "from_empty_array" => Measures(w, "buf", 0, arg.length, "none")
    /\ proof = "init" => (w.ret = "success" => Measures(w, "buf", 0, arg.capacity, "sea"))
    /\ proof = "init_copy" => (w.ret = "success" => WantsCopy(w))
    /\ proof = "init_copy_from_cursor" =>
           (w.ret = "success" => Measures(w, "buf", arg.cursor.len, arg.cursor.len, "sea"))
    /\ proof \in {"reset", "secure_zero"} => WantsReset(w)
    /\ proof = "write" => WantsWrite(w, arg.len) /\ WantsBytes(w, arg.len, "array")
    /\ proof = "write_be16" => WantsWrite(w, Be16)
    /\ proof = "write_be32" => WantsWrite(w, Be32)
    /\ proof = "write_be64" => WantsWrite(w, Be64)
    /\ proof = "write_u8" => WantsWrite(w, 1)
    /\ proof \in {"write_from_whole_buffer", "write_from_whole_cursor"} =>
           WantsWrite(w, arg.src.len) /\ WantsBytes(w, arg.src.len, "src")
    /\ proof = "write_from_whole_string" =>
           WantsWrite(w, arg.str.len) /\ (w.ret = "true" => arg.given = TRUE /\ arg.str.bytes # ByteBuf!Null)

-----------------------------------------------------------------------------
(* The result of a call with at most one mistake: nothing was done, one field *)
(* or one byte is wrong, or all is as it should be but for the answer.     *)

OneField ==
    /\ mem = want.mem /\ TypedMemory(want.mem) /\ ret = want.ret
    /\ \E x \in DOMAIN want.obj : \E f \in DOMAIN want.obj[x] : \E v :
           obj = [want.obj EXCEPT ![x] = [want.obj[x] EXCEPT ![f] = v]]

OneByte ==
    /\ obj = want.obj /\ TypedMemory(want.mem) /\ ret = want.ret
    /\ \E b \in DOMAIN want.mem : \E i \in DOMAIN want.mem[b] : \E v :
           mem = [want.mem EXCEPT ![b] = [want.mem[b] EXCEPT ![i] = v]]

Idle == obj = old.obj /\ mem = old.mem /\ ret = want.ret

AnswerOnly ==
    obj = want.obj /\ mem = want.mem /\ TypedMemory(want.mem) /\ ret \in ByteBuf!Opposite(want.ret) \cup {want.ret}

OneMistake == Idle \/ OneField \/ OneByte \/ AnswerOnly

-----------------------------------------------------------------------------
(* What a correct function leaves, from its outcomes. *)

LEMMA SameIs ==
    ASSUME NEW w, NEW r, w = ByteBuf!Same(r), Fresh PROVE w.obj = old.obj /\ w.mem = old.mem /\ w.ret = r
BY DEF ByteBuf!Same, ByteBuf!Does, Fresh

LEMMA ValidIsStruct ==
    ASSUME NEW w, NEW x, x \in DOMAIN old.obj, ValidBuf(old.obj[x], old.mem, x), w.obj = old.obj PROVE IsStruct(w, x)
<1>1. old.obj[x] = [buffer |-> old.obj[x].buffer, len |-> old.obj[x].len, capacity |-> old.obj[x].capacity,
                    allocator |-> "sea"]
  BY ValidBufIs
<1>2. DOMAIN old.obj[x] = {"buffer", "len", "capacity", "allocator"}
  BY <1>1
<1> QED BY <1>2 DEF IsStruct

LEMMA AdvanceWanted ==
    ASSUME BufGiven, Fresh, NEW w \in ByteBuf!Outcomes, proof = "advance" PROVE WantsAdvance(w)
<1> DEFINE buf == old.obj.buf
<1>1. ValidBuf(buf, old.mem, "buf") /\ DOMAIN old.obj = {"buf", "output"} /\ w \in ByteBuf!Advance
  BY DEF BufGiven, AdvanceGiven, ByteBuf!Outcomes
<1>2. buf = [buffer |-> buf.buffer, len |-> buf.len, capacity |-> buf.capacity, allocator |-> "sea"]
  BY <1>1, ValidBufIs
<1>3. \/ w = ByteBuf!Does([buf |-> [buf EXCEPT !.len = @ + arg.len],
                           output |-> [ByteBuf!FromArray(ByteBuf!End(buf), arg.len) EXCEPT !.len = 0]], old.mem, "true")
      \/ w = ByteBuf!Does([old.obj EXCEPT !.output = ByteBuf!ZeroBuf], old.mem, "false")
  BY <1>1 DEF ByteBuf!Advance, Fresh
<1>4. CASE w = ByteBuf!Does([buf |-> [buf EXCEPT !.len = @ + arg.len],
                             output |-> [ByteBuf!FromArray(ByteBuf!End(buf), arg.len) EXCEPT !.len = 0]], old.mem, "true")
  <2>1. /\ w.obj.buf = [buf EXCEPT !.len = @ + arg.len] /\ w.mem = old.mem /\ w.ret = "true"
        /\ w.obj.output = [ByteBuf!FromArray(ByteBuf!End(buf), arg.len) EXCEPT !.len = 0]
        /\ "buf" \in DOMAIN w.obj
    BY <1>4 DEF ByteBuf!Does
  <2>2. w.obj.output.len = 0 /\ w.obj.output.capacity = arg.len /\ w.obj.output.allocator = "none"
    BY <2>1 DEF ByteBuf!FromArray, ByteBuf!Buf
  <2>3. w.obj.buf = [buffer |-> buf.buffer, len |-> buf.len + arg.len, capacity |-> buf.capacity, allocator |-> "sea"]
    BY <1>2, <2>1
  <2>4. IsStruct(w, "buf")
    BY <2>1, <2>3 DEF IsStruct
  <2> QED BY <1>2, <2>1, <2>2, <2>3, <2>4 DEF WantsAdvance, SameKind, Measures
<1>5. CASE w = ByteBuf!Does([old.obj EXCEPT !.output = ByteBuf!ZeroBuf], old.mem, "false")
  <2>1. w.obj.buf = buf /\ "buf" \in DOMAIN w.obj /\ w.mem = old.mem /\ w.ret = "false" /\ w.obj.output = ByteBuf!ZeroBuf
    BY <1>1, <1>5 DEF ByteBuf!Does
  <2>2. IsStruct(w, "buf")
    BY <1>2, <2>1 DEF IsStruct
  <2> QED BY <2>1, <2>2 DEF WantsAdvance, SameKind, Measures, ByteBuf!ZeroBuf, ByteBuf!Buf
<1> QED BY <1>3, <1>4, <1>5

(* n bytes added to a buffer. *)
LEMMA AddIs ==
    ASSUME Fresh, NEW x, x # "null", x \in DOMAIN old.obj, ValidBuf(old.obj[x], old.mem, x),
           NEW n \in Nat, n <= old.obj[x].capacity - old.obj[x].len, NEW bytes \in ByteBlock(Byte, n), NEW r,
           NEW w, w = ByteBuf!Answers(ByteBuf!Add(x, bytes, n), r)
    PROVE  /\ w.ret = r
           /\ w.obj[x] = [buffer |-> old.obj[x].buffer, len |-> old.obj[x].len + n,
                          capacity |-> old.obj[x].capacity, allocator |-> "sea"]
           /\ IsStruct(w, x)
           /\ \A c \in DOMAIN old.mem \ {x} : w.mem[c] = old.mem[c]
           /\ \A i \in 0 .. n - 1 : w.mem[x][old.obj[x].len + i] = bytes[i]
<1> DEFINE b == old.obj[x]
           m2 == ByteBuf!Store(mem, ByteBuf!End(b), bytes, n)
<1>1. w.obj = [old.obj EXCEPT ![x] = [b EXCEPT !.len = b.len + n]] /\ w.mem = m2 /\ w.ret = r
  BY DEF ByteBuf!Answers, ByteBuf!Add, ByteBuf!Does, Fresh
<1>2. b = [buffer |-> b.buffer, len |-> b.len, capacity |-> b.capacity, allocator |-> "sea"]
  BY ValidBufIs
<1>3. /\ \A c \in DOMAIN old.mem \ {x} : m2[c] = old.mem[c]
      /\ \A i \in 0 .. n - 1 : m2[x][b.len + i] = bytes[i]
  BY BufStore DEF Fresh
<1> HIDE DEF m2
<1>4. w.obj[x] = [b EXCEPT !.len = b.len + n]
  BY <1>1
<1> HIDE DEF b
<1>5. w.obj[x] = [buffer |-> b.buffer, len |-> b.len + n, capacity |-> b.capacity, allocator |-> "sea"]
  BY <1>2, <1>4
<1>6. IsStruct(w, x)
  BY <1>1, <1>5 DEF IsStruct
<1> QED BY <1>1, <1>3, <1>5, <1>6 DEF b

LEMMA WriteWanted ==
    ASSUME BufGiven, Fresh, "buf" \in DOMAIN old.obj, ValidBuf(old.obj.buf, old.mem, "buf"),
           NEW n \in Nat, NEW bytes \in ByteBlock(Byte, n), NEW w \in ByteBuf!Write("buf", bytes, n)
    PROVE  /\ WantsWrite(w, n)
           /\ w.ret = "true" => /\ \A c \in DOMAIN old.mem \ {"buf"} : w.mem[c] = old.mem[c]
                                /\ \A i \in 0 .. n - 1 : w.mem["buf"][old.obj.buf.len + i] = bytes[i]
<1>1. \/ n <= old.obj.buf.capacity - old.obj.buf.len /\ w = ByteBuf!Answers(ByteBuf!Add("buf", bytes, n), "true")
      \/ w = ByteBuf!Same("false")
  BY DEF ByteBuf!Write, ByteBuf!Fits, Fresh
<1>2. CASE n <= old.obj.buf.capacity - old.obj.buf.len /\ w = ByteBuf!Answers(ByteBuf!Add("buf", bytes, n), "true")
  <2>1. "buf" # "null" /\ n <= old.obj["buf"].capacity - old.obj["buf"].len
    BY <1>2
  <2>2. /\ w.ret = "true" /\ IsStruct(w, "buf")
        /\ w.obj["buf"] = [buffer |-> old.obj["buf"].buffer, len |-> old.obj["buf"].len + n,
                           capacity |-> old.obj["buf"].capacity, allocator |-> "sea"]
        /\ \A c \in DOMAIN old.mem \ {"buf"} : w.mem[c] = old.mem[c]
        /\ \A i \in 0 .. n - 1 : w.mem["buf"][old.obj["buf"].len + i] = bytes[i]
    BY <1>2, <2>1, AddIs, SMTT(30)
  <2>3. old.obj.buf.allocator = "sea"
    BY ValidBufIs
  <2>4. w.obj.buf.buffer = old.obj.buf.buffer /\ w.obj.buf.len = old.obj.buf.len + n
    BY <2>2
  <2>5. SameKind(w, "buf")
    BY <2>2, <2>3 DEF SameKind
  <2> QED BY <2>2, <2>4, <2>5 DEF WantsWrite
<1>3. CASE w = ByteBuf!Same("false")
  <2>1. w.obj = old.obj /\ w.mem = old.mem /\ w.ret = "false"
    BY <1>3, SameIs
  <2>2. ValidBuf(old.obj["buf"], old.mem, "buf")
    OBVIOUS
  <2>3. IsStruct(w, "buf")
    BY <2>1, <2>2, ValidIsStruct
  <2> QED BY <2>1, <2>3 DEF WantsWrite, SameKind
<1> QED BY <1>1, <1>2, <1>3

LEMMA FromSourceWanted ==
    ASSUME BufGiven, Fresh, NEW p, NEW n, NEW b, b # "buf", WriteGiven(p, n, b),
           NEW w \in ByteBuf!Write("buf", ByteBuf!BytesAt(old.mem, p, n), n)
    PROVE  WantsWrite(w, n) /\ WantsBytes(w, n, b)
<1> DEFINE bytes == ByteBuf!BytesAt(old.mem, p, n)
<1>1. n \in Nat /\ Source(p, n, old.mem, b) /\ ValidBuf(old.obj.buf, old.mem, "buf") /\ "buf" \in DOMAIN old.obj
  BY OneBufIs DEF WriteGiven
<1>2. bytes \in ByteBlock(Byte, n) /\ \A i \in 0 .. n - 1 : bytes[i] = old.mem[b][i]
  BY <1>1, SourceBytes
<1>3. n > 0 => b \in DOMAIN old.mem
  BY <1>1 DEF Source
<1> HIDE DEF bytes
<1>4. w \in ByteBuf!Write("buf", bytes, n)
  BY DEF bytes
<1>5. /\ WantsWrite(w, n)
      /\ w.ret = "true" => /\ \A c \in DOMAIN old.mem \ {"buf"} : w.mem[c] = old.mem[c]
                           /\ \A i \in 0 .. n - 1 : w.mem["buf"][old.obj.buf.len + i] = bytes[i]
  BY <1>1, <1>2, <1>4, WriteWanted
<1>6. ASSUME w.ret = "true", NEW i \in 0 .. n - 1 PROVE w.mem["buf"][old.obj.buf.len + i] = w.mem[b][i]
  <2>1. n > 0
    BY <1>1
  <2> QED BY <1>2, <1>3, <1>5, <1>6, <2>1
<1> QED BY <1>5, <1>6 DEF WantsBytes

LEMMA WritesWanted ==
    ASSUME BufGiven, Fresh, NEW w \in ByteBuf!Outcomes,
           proof \in {"write", "write_from_whole_buffer", "write_from_whole_cursor", "write_from_whole_string"}
    PROVE  Wants(w)
<1>1. CASE proof = "write"
  <2>1. WriteGiven(arg.array, arg.len, "array") /\ "array" # "buf"
        /\ w \in ByteBuf!Write("buf", ByteBuf!BytesAt(old.mem, arg.array, arg.len), arg.len)
    BY <1>1 DEF BufGiven, ByteBuf!Outcomes, Fresh
  <2>2. WantsWrite(w, arg.len) /\ WantsBytes(w, arg.len, "array")
    BY <2>1, FromSourceWanted
  <2> QED BY <1>1, <2>2 DEF Wants
<1>2. CASE proof \in {"write_from_whole_buffer", "write_from_whole_cursor"}
  <2>1. WriteGiven(arg.src.ptr, arg.src.len, "src") /\ "src" # "buf"
        /\ w \in ByteBuf!Write("buf", ByteBuf!BytesAt(old.mem, arg.src.ptr, arg.src.len), arg.src.len)
    BY <1>2 DEF BufGiven, ByteBuf!Outcomes, ByteBuf!CursorBytes, Fresh
  <2>2. WantsWrite(w, arg.src.len) /\ WantsBytes(w, arg.src.len, "src")
    BY <2>1, FromSourceWanted
  <2> QED BY <1>2, <2>2 DEF Wants
<1>3. CASE proof = "write_from_whole_string"
  <2>1. WriteGiven(arg.str.bytes, arg.str.len, "str") /\ "str" # "buf" /\ arg.given \in BOOLEAN
    BY <1>3 DEF BufGiven
  <2>2. CASE arg.given /\ arg.str.bytes # ByteBuf!Null
    <3>1. w \in ByteBuf!Write("buf", ByteBuf!BytesAt(old.mem, arg.str.bytes, arg.str.len), arg.str.len)
      BY <1>3, <2>2 DEF ByteBuf!Outcomes, Fresh
    <3>2. WantsWrite(w, arg.str.len)
      BY <2>1, <3>1, FromSourceWanted
    <3> QED BY <1>3, <2>1, <2>2, <3>2 DEF Wants
  <2>3. CASE ~(arg.given /\ arg.str.bytes # ByteBuf!Null)
    <3>1. w = ByteBuf!Same("false")
      BY <1>3, <2>3 DEF ByteBuf!Outcomes
    <3>2. w.obj = old.obj /\ w.mem = old.mem /\ w.ret = "false"
      BY <3>1, SameIs
    <3>3. IsStruct(w, "buf")
      <4>1. "buf" \in DOMAIN old.obj /\ ValidBuf(old.obj["buf"], old.mem, "buf")
        BY <2>1, OneBufIs DEF WriteGiven
      <4> QED BY <3>2, <4>1, ValidIsStruct
    <3> QED BY <1>3, <3>2, <3>3 DEF Wants, WantsWrite, SameKind
  <2> QED BY <2>2, <2>3
<1> QED BY <1>1, <1>2, <1>3

LEMMA IntegersWanted ==
    ASSUME BufGiven, Fresh, NEW w \in ByteBuf!Outcomes,
           proof \in {"write_be16", "write_be32", "write_be64", "write_u8"}
    PROVE  Wants(w)
<1> DEFINE n == CASE proof = "write_be16" -> Be16 [] proof = "write_be32" -> Be32
                  [] proof = "write_be64" -> Be64 [] OTHER -> 1
<1>1. IntegerGiven(n) /\ n \in Nat
  BY BufConstants DEF BufGiven
<1>2. PICK bytes \in ByteBlock(Byte, n) : w \in ByteBuf!Write("buf", bytes, n)
  <2>1. CASE proof = "write_u8"
    BY <1>1, <2>1 DEF IntegerGiven, ByteBuf!Outcomes
  <2>2. CASE proof # "write_u8"
    <3>1. w \in ByteBuf!Write("buf", ByteBuf!BigEndian(arg.x, n), n)
      BY <1>1, <2>2 DEF IntegerGiven, ByteBuf!Outcomes
    <3>2. arg.x \in ByteBlock(Byte, n) /\ n \in Nat
      BY <1>1 DEF IntegerGiven
    <3> HIDE DEF n
    <3>3. ByteBuf!BigEndian(arg.x, n) \in ByteBlock(Byte, n)
      BY <3>2, BigEndianIs
    <3> QED BY <3>1, <3>3
  <2> QED BY <2>1, <2>2
<1> HIDE DEF n
<1>3. WantsWrite(w, n)
  <2>1. "buf" \in DOMAIN old.obj /\ ValidBuf(old.obj.buf, old.mem, "buf")
    BY <1>1, OneBufIs DEF IntegerGiven, OneGiven
  <2> QED BY <1>1, <1>2, <2>1, WriteWanted
<1> QED BY <1>3 DEF n, Wants

-----------------------------------------------------------------------------

LEMMA AppendToWanted ==
    ASSUME Fresh, AppendGiven, NEW bytes \in ByteBlock(Byte, arg.from.len),
           NEW w \in ByteBuf!AppendTo("to", bytes, arg.from.len)
    PROVE  WantsAppend(w) /\ SameKind(w, "to")
<1> DEFINE n == arg.from.len
<1>1. n \in Nat /\ "to" \in DOMAIN old.obj /\ ValidBuf(old.obj.to, old.mem, "to")
  BY FromIs
<1>2. \/ n <= old.obj.to.capacity - old.obj.to.len /\ w = ByteBuf!Answers(ByteBuf!Add("to", bytes, n), "success")
      \/ w = ByteBuf!Same("error")
  BY DEF ByteBuf!AppendTo, ByteBuf!Fits, Fresh
<1>3. bytes \in ByteBlock(Byte, n) /\ old.obj.to.allocator = "sea"
  BY <1>1, ValidBufIs
<1>4. CASE n <= old.obj.to.capacity - old.obj.to.len /\ w = ByteBuf!Answers(ByteBuf!Add("to", bytes, n), "success")
  <2> HIDE DEF n
  <2>1. "to" # "null" /\ n <= old.obj["to"].capacity - old.obj["to"].len
    BY <1>4
  <2>2. /\ w.ret = "success" /\ IsStruct(w, "to")
        /\ w.obj["to"] = [buffer |-> old.obj["to"].buffer, len |-> old.obj["to"].len + n,
                          capacity |-> old.obj["to"].capacity, allocator |-> "sea"]
    BY <1>1, <1>3, <1>4, <2>1, AddIs
  <2> QED BY <1>3, <2>2 DEF n, WantsAppend, SameKind
<1>5. CASE w = ByteBuf!Same("error")
  <2>1. w.obj = old.obj /\ w.ret = "error"
    BY <1>5, SameIs
  <2>2. ValidBuf(old.obj["to"], old.mem, "to")
    BY <1>1
  <2>3. IsStruct(w, "to")
    BY <1>1, <2>1, <2>2, ValidIsStruct
  <2> QED BY <2>1, <2>3 DEF WantsAppend, SameKind
<1> QED BY <1>2, <1>4, <1>5

LEMMA AppendsWanted ==
    ASSUME BufGiven, Fresh, NEW w \in ByteBuf!Outcomes, proof \in {"append", "append_with_lookup", "append_dynamic"}
    PROVE  Wants(w)
<1> DEFINE read == ByteBuf!BytesAt(old.mem, arg.from.ptr, arg.from.len)
<1>1. AppendGiven
  BY DEF BufGiven, LookupGiven
<1>2. read \in ByteBlock(Byte, arg.from.len)
  BY <1>1, FromIs
<1>3. CASE proof = "append"
  <2>1. w \in ByteBuf!AppendTo("to", read, arg.from.len)
    BY <1>3 DEF ByteBuf!Outcomes, ByteBuf!Append, ByteBuf!CursorBytes, Fresh
  <2>2. WantsAppend(w) /\ SameKind(w, "to")
    BY <1>1, <1>2, <2>1, AppendToWanted
  <2> QED BY <1>3, <2>2 DEF Wants
<1>4. CASE proof = "append_with_lookup"
  <2> DEFINE translated == [i \in 0 .. arg.from.len - 1 |-> arg.table[read[i]]]
  <2>1. w \in ByteBuf!AppendTo("to", translated, arg.from.len)
    BY <1>4 DEF ByteBuf!Outcomes, ByteBuf!AppendWithLookup, ByteBuf!CursorBytes, Fresh
  <2>2. arg.table \in [Byte -> Byte]
    BY <1>4 DEF BufGiven, LookupGiven
  <2> HIDE DEF read
  <2>3. translated \in ByteBlock(Byte, arg.from.len)
    BY <1>2, <2>2 DEF ByteBlock
  <2> HIDE DEF translated
  <2>4. WantsAppend(w) /\ SameKind(w, "to")
    BY <1>1, <2>1, <2>3, AppendToWanted
  <2> QED BY <1>4, <2>4 DEF Wants
<1>5. CASE proof = "append_dynamic"
  <2> DEFINE to == obj.to
             n == arg.from.len
             least == to.len + n
             all == ByteBuf!Concat(ByteBuf!BytesAt(mem, to.buffer, to.len), to.len, ByteBuf!CursorBytes(arg.from), n)
             Done(cap, c) == ByteBuf!Does([to |-> ByteBuf!Buf(ByteBuf!StartOf("new"), least, cap, to.allocator)],
                                  ByteBuf!WithNew(ByteBuf!Release(mem, to.buffer), c), "success")
             Grown(cap) == {Done(cap, c) : c \in ByteBuf!NewBytes(cap, all, least)}
  <2>1. w \in ByteBuf!AppendDynamic
    BY <1>5 DEF ByteBuf!Outcomes
  <2>2. CASE ByteBuf!Fits("to", n)
    <3>1. w \in ByteBuf!AppendTo("to", read, arg.from.len)
      BY <2>1, <2>2 DEF ByteBuf!AppendDynamic, ByteBuf!Append, ByteBuf!CursorBytes, Fresh
    <3>2. WantsAppend(w)
      BY <1>1, <1>2, <3>1, AppendToWanted
    <3> QED BY <1>5, <3>2 DEF Wants
  <2>3. CASE ~ByteBuf!Fits("to", n)
    <3>1. w \in ByteBuf!Refused \cup Grown(least)
                    \cup (IF 2 * to.capacity > least THEN Grown(2 * to.capacity) ELSE {})
      BY <2>1, <2>3, Zenon DEF ByteBuf!AppendDynamic
    <3>2. CASE w \in ByteBuf!Refused
      <4>1. w = ByteBuf!Same("error")
        BY <3>2 DEF ByteBuf!Refused
      <4>2. w.obj = old.obj /\ w.ret = "error"
        BY <4>1, SameIs
      <4>3. "to" \in DOMAIN old.obj /\ ValidBuf(old.obj["to"], old.mem, "to")
        BY <1>1, FromIs
      <4>4. IsStruct(w, "to")
        BY <4>2, <4>3, ValidIsStruct
      <4> QED BY <1>5, <4>2, <4>4 DEF Wants, WantsAppend
    <3>3. ASSUME NEW cap, w \in Grown(cap) PROVE Wants(w)
      <4>1. PICK c : w = Done(cap, c)
        <5> HIDE DEF Done
        <5> QED BY <3>3
      <4>2. /\ w.obj.to = ByteBuf!Buf(ByteBuf!StartOf("new"), least, cap, to.allocator)
            /\ w.ret = "success" /\ "to" \in DOMAIN w.obj
        BY <4>1 DEF ByteBuf!Does
      <4>3. w.obj.to.len = old.obj.to.len + arg.from.len /\ w.obj.to.allocator = old.obj.to.allocator
        BY <4>2 DEF ByteBuf!Buf, Fresh
      <4>4. IsStruct(w, "to")
        BY <4>2 DEF IsStruct, ByteBuf!Buf
      <4> QED BY <1>5, <4>2, <4>3, <4>4 DEF Wants, WantsAppend
    <3> HIDE DEF Grown
    <3> QED BY <3>1, <3>2, <3>3
  <2> QED BY <2>2, <2>3
<1> QED BY <1>3, <1>4, <1>5

LEMMA CatWanted ==
    ASSUME BufGiven, Fresh, NEW w \in ByteBuf!Outcomes, proof = "cat" PROVE WantsCat(w)
<1> DEFINE total == old.obj["buffer1"].len + old.obj["buffer2"].len + old.obj["buffer3"].len
<1>1. CatGiven /\ w \in ByteBuf!Cat
  BY DEF BufGiven, ByteBuf!Outcomes
<1>2. /\ CatUpTo(w, total) /\ total \in Nat
  BY <1>1, CatIs
<1>3. total = Total
  BY DEF Total
<1> HIDE DEF total
<1>4. /\ w.obj.dest.len \in Nat /\ w.obj.dest.capacity \in Nat /\ w.obj.dest.len <= w.obj.dest.capacity
      /\ w.obj.dest.capacity = old.obj.dest.capacity
  BY <1>2, ValidBufIs, BufConstants DEF CatUpTo
<1>5. old.obj.dest.len \in Nat
  BY <1>1, ValidBufIs DEF CatGiven
<1>6. \/ w.ret = "success" /\ old.obj.dest.capacity - old.obj.dest.len >= total
      \/ w.ret = "error" /\ old.obj.dest.capacity - old.obj.dest.len < total
  BY <1>2, <1>4, <1>5 DEF CatUpTo
<1>7. ASSUME NEW x \in Appended PROVE w.obj[x] = old.obj[x] /\ w.mem[x] = old.mem[x]
  <2>1. x \in DOMAIN old.obj \ {"dest"} /\ x \in DOMAIN old.mem \ {"dest"}
    BY <1>1, ValidBufIs DEF CatGiven, Appended
  <2> QED BY <1>2, <2>1 DEF CatUpTo
<1>8. DOMAIN w.obj = DOMAIN old.obj
  BY <1>2 DEF CatUpTo
<1> QED BY <1>3, <1>6, <1>7, <1>8 DEF WantsCat

LEMMA CleanUpWanted ==
    ASSUME NEW w \in ByteBuf!Outcomes, proof \in {"clean_up", "clean_up_secure"} PROVE w.obj.buf = ByteBuf!ZeroBuf
<1>1. w = ByteBuf!Does([buf |-> ByteBuf!ZeroBuf], ByteBuf!Release(mem, obj.buf.buffer), "none")
  BY DEF ByteBuf!Outcomes, ByteBuf!CleanUp
<1> QED BY <1>1 DEF ByteBuf!Does

(* What is said of a comparison. *)
LEMMA SaidIs ==
    ASSUME Fresh, NEW p, NEW k, NEW q, NEW n, NEW w \in ByteBuf!Says(ByteBuf!SameBytes(p, k, q, n))
    PROVE  Unchanged(w) /\ (w.ret # "true" => ~SameBytesBefore(p, k, q, n))
BY SameIs DEF ByteBuf!Says, ByteBuf!SameBytes, SameBytesBefore, Unchanged, Fresh

LEMMA SaidIgnoringCaseIs ==
    ASSUME Fresh, NEW p, NEW k, NEW q, NEW n, NEW w \in ByteBuf!SaysIgnoringCase(p, k, q, n) PROVE Unchanged(w)
BY SameIs DEF ByteBuf!SaysIgnoringCase, ByteBuf!Says, Unchanged, Fresh

LEMMA ComparisonsWanted ==
    ASSUME Fresh, NEW w \in ByteBuf!Outcomes,
           proof \in {"eq", "eq_ignore_case", "eq_c_str", "eq_c_str_ignore_case"}
    PROVE  Wants(w)
<1>1. CASE proof = "eq"
  <2>1. w \in ByteBuf!Says(ByteBuf!SameBytes(old.obj.lhs.buffer, old.obj.lhs.len, old.obj.rhs.buffer, old.obj.rhs.len))
    BY <1>1 DEF ByteBuf!Outcomes, Fresh
  <2>2. WantsEq(w)
    BY <2>1, SaidIs DEF WantsEq
  <2> QED BY <1>1, <2>2 DEF Wants
<1>2. CASE proof = "eq_c_str"
  <2>1. w \in ByteBuf!Says(ByteBuf!SameBytes(old.obj.buf.buffer, old.obj.buf.len, arg.c_str, arg.len))
    BY <1>2 DEF ByteBuf!Outcomes, Fresh
  <2>2. WantsEqStr(w)
    BY <2>1, SaidIs DEF WantsEqStr
  <2> QED BY <1>2, <2>2 DEF Wants
<1>3. CASE proof = "eq_ignore_case"
  <2>1. w \in ByteBuf!SaysIgnoringCase(old.obj.lhs.buffer, old.obj.lhs.len, old.obj.rhs.buffer, old.obj.rhs.len)
    BY <1>3 DEF ByteBuf!Outcomes, Fresh
  <2>2. WantsEq(w)
    BY <1>3, <2>1, SaidIgnoringCaseIs DEF WantsEq
  <2> QED BY <1>3, <2>2 DEF Wants
<1>4. CASE proof = "eq_c_str_ignore_case"
  <2>1. w \in ByteBuf!SaysIgnoringCase(old.obj.buf.buffer, old.obj.buf.len, arg.c_str, arg.len)
    BY <1>4 DEF ByteBuf!Outcomes, Fresh
  <2>2. WantsEqStr(w)
    BY <1>4, <2>1, SaidIgnoringCaseIs DEF WantsEqStr
  <2> QED BY <1>4, <2>2 DEF Wants
<1> QED BY <1>1, <1>2, <1>3, <1>4

LEMMA FromArrayWanted ==
    ASSUME NEW w \in ByteBuf!Outcomes, proof \in {"from_array", "from_c_str", "from_empty_array"} PROVE Wants(w)
<1>1. CASE proof = "from_array"
  <2>1. w = ByteBuf!Does([buf |-> ByteBuf!FromArray(arg.array, arg.length)], mem, "none")
    BY <1>1 DEF ByteBuf!Outcomes
  <2>2. Measures(w, "buf", arg.length, arg.length, "none")
    BY <2>1 DEF ByteBuf!Does, ByteBuf!FromArray, ByteBuf!Buf, Measures
  <2> QED BY <1>1, <2>2 DEF Wants
<1>2. CASE proof = "from_c_str"
  <2>1. w = ByteBuf!Does([buf |-> ByteBuf!FromArray(arg.c_str, arg.len)], mem, "none")
    BY <1>2 DEF ByteBuf!Outcomes
  <2>2. Measures(w, "buf", arg.len, arg.len, "none")
    BY <2>1 DEF ByteBuf!Does, ByteBuf!FromArray, ByteBuf!Buf, Measures
  <2> QED BY <1>2, <2>2 DEF Wants
<1>3. CASE proof = "from_empty_array"
  <2>1. w = ByteBuf!Does([buf |-> [ByteBuf!FromArray(arg.array, arg.length) EXCEPT !.len = 0]], mem, "none")
    BY <1>3 DEF ByteBuf!Outcomes
  <2>2. Measures(w, "buf", 0, arg.length, "none")
    BY <2>1 DEF ByteBuf!Does, ByteBuf!FromArray, ByteBuf!Buf, Measures
  <2> QED BY <1>3, <2>2 DEF Wants
<1> QED BY <1>1, <1>2, <1>3

LEMMA InitWithWanted ==
    ASSUME Fresh, NEW n, NEW bytes, NEW k, n = 0 => k = 0, NEW w \in ByteBuf!InitWith(n, bytes, k), w.ret = "success"
    PROVE  Measures(w, "buf", k, n, "sea")
<1>1. CASE n = 0
  <2>1. w = ByteBuf!Does([buf |-> ByteBuf!Buf(ByteBuf!Null, 0, 0, "sea")], mem, "success")
    BY <1>1 DEF ByteBuf!InitWith
  <2> QED BY <1>1, <2>1 DEF ByteBuf!Does, ByteBuf!Buf, Measures
<1>2. CASE n # 0
  <2>1. \/ w \in ByteBuf!Refused
        \/ \E c : w = ByteBuf!Does([buf |-> ByteBuf!Buf(ByteBuf!StartOf("new"), k, n, "sea")], ByteBuf!WithNew(mem, c), "success")
    BY <1>2 DEF ByteBuf!InitWith
  <2>2. w \notin ByteBuf!Refused
    BY SameIs DEF ByteBuf!Refused
  <2> QED BY <2>1, <2>2 DEF ByteBuf!Does, ByteBuf!Buf, Measures
<1> QED BY <1>1, <1>2

LEMMA InitCopyWanted ==
    ASSUME Fresh, CopyGiven, NEW w \in ByteBuf!InitCopy, w.ret = "success" PROVE WantsCopy(w)
<1> DEFINE src == old.obj.src
<1>0. DOMAIN old.obj = {"dest", "src"} /\ ValidBuf(src, old.mem, "src") /\ "src" \in DOMAIN old.mem /\ "new" \notin DOMAIN old.mem
  BY CopyIs DEF CopyGiven
<1>1. /\ src = [buffer |-> src.buffer, len |-> src.len, capacity |-> src.capacity, allocator |-> "sea"]
      /\ src.len \in Nat /\ src.capacity \in Nat /\ src.len <= src.capacity
      /\ src.capacity > 0 => src.buffer # Null
  <2>1. "src" # "null"
    OBVIOUS
  <2> HIDE DEF src
  <2> QED BY <1>0, <2>1, ValidBufIs, StartIsNotNull, BufConstants
<1>2. CASE src.buffer = Null
  <2>1. w = ByteBuf!Does([old.obj EXCEPT !.dest = ByteBuf!Buf(ByteBuf!Null, 0, 0, "sea")], old.mem, "success")
    <3>1. obj.src.buffer = ByteBuf!Null
      BY <1>2, NullIs DEF Fresh
    <3> QED BY <3>1 DEF ByteBuf!InitCopy, Fresh
  <2>2. w.obj.dest = ByteBuf!Buf(ByteBuf!Null, 0, 0, "sea") /\ w.obj.src = src /\ w.mem = old.mem
        /\ "dest" \in DOMAIN w.obj /\ "src" \in DOMAIN w.obj
    BY <1>0, <2>1 DEF ByteBuf!Does
  <2>3. src.len = 0 /\ src.capacity = 0
    <3> HIDE DEF src
    <3> QED BY <1>1, <1>2
  <2> QED BY <2>2, <2>3 DEF WantsCopy, Measures, ByteBuf!Buf
<1>3. CASE src.buffer # Null
  <2>1. \/ w \in ByteBuf!Refused
        \/ \E c : w = ByteBuf!Does([old.obj EXCEPT !.dest = [src EXCEPT !.buffer = ByteBuf!StartOf("new")]],
                                   ByteBuf!WithNew(old.mem, c), "success")
    <3>1. obj.src.buffer # ByteBuf!Null
      BY <1>3, NullIs DEF Fresh
    <3> QED BY <3>1 DEF ByteBuf!InitCopy, Fresh
  <2>2. w \notin ByteBuf!Refused
    BY SameIs DEF ByteBuf!Refused
  <2>3. PICK c : w = ByteBuf!Does([old.obj EXCEPT !.dest = [src EXCEPT !.buffer = ByteBuf!StartOf("new")]],
                                  ByteBuf!WithNew(old.mem, c), "success")
    BY <2>1, <2>2
  <2>4. /\ w.obj.dest = [src EXCEPT !.buffer = ByteBuf!StartOf("new")] /\ w.obj.src = src
        /\ "dest" \in DOMAIN w.obj /\ "src" \in DOMAIN w.obj
    BY <1>0, <2>3 DEF ByteBuf!Does
  <2>5. w.obj.dest.len = src.len /\ w.obj.dest.capacity = src.capacity /\ w.obj.dest.allocator = "sea"
    <3> HIDE DEF src
    <3> QED BY <1>1, <2>4
  <2>6. w.mem["src"] = old.mem["src"]
    BY <1>0, <2>3 DEF ByteBuf!Does, ByteBuf!WithNew
  <2> QED BY <2>4, <2>5, <2>6 DEF WantsCopy, Measures
<1> QED BY <1>2, <1>3

LEMMA InitsWanted ==
    ASSUME BufGiven, Fresh, NEW w \in ByteBuf!Outcomes, proof \in {"init", "init_copy", "init_copy_from_cursor"}
    PROVE  Wants(w)
<1>1. CASE proof = "init"
  <2>1. w \in ByteBuf!InitWith(arg.capacity, <<>>, 0)
    BY <1>1 DEF ByteBuf!Outcomes
  <2>2. w.ret = "success" => Measures(w, "buf", 0, arg.capacity, "sea")
    BY <2>1, InitWithWanted
  <2> QED BY <1>1, <2>2 DEF Wants
<1>2. CASE proof = "init_copy"
  <2>1. w \in ByteBuf!InitCopy /\ CopyGiven
    BY <1>2 DEF ByteBuf!Outcomes, BufGiven
  <2>2. w.ret = "success" => WantsCopy(w)
    BY <2>1, InitCopyWanted
  <2> QED BY <1>2, <2>2 DEF Wants
<1>3. CASE proof = "init_copy_from_cursor"
  <2>1. w \in ByteBuf!InitWith(arg.cursor.len, ByteBuf!CursorBytes(arg.cursor), arg.cursor.len)
    BY <1>3 DEF ByteBuf!Outcomes
  <2>2. w.ret = "success" => Measures(w, "buf", arg.cursor.len, arg.cursor.len, "sea")
    BY <2>1, InitWithWanted
  <2> QED BY <1>3, <2>2 DEF Wants
<1> QED BY <1>1, <1>2, <1>3

LEMMA ResetWanted ==
    ASSUME BufGiven, Fresh, NEW w \in ByteBuf!Outcomes, proof \in {"reset", "secure_zero"} PROVE WantsReset(w)
<1> DEFINE b == old.obj.buf
           n == b.capacity
<1>1. ValidBuf(b, old.mem, "buf") /\ arg.zero \in BOOLEAN
  BY DEF BufGiven, OneGiven
<1>2. /\ b = [buffer |-> b.buffer, len |-> b.len, capacity |-> n, allocator |-> "sea"]
      /\ n \in Nat /\ "buf" \in DOMAIN old.mem /\ old.mem["buf"] \in ByteBlock(Byte, n)
      /\ n > 0 => b.buffer = Start("buf")
      /\ b.allocator = "sea"
  BY <1>1, ValidBufIs, BufConstants
<1>3. w = ByteBuf!Does([buf |-> [b EXCEPT !.len = 0]], IF arg.zero THEN ByteBuf!Zeroed(b) ELSE mem, "none")
  BY DEF ByteBuf!Outcomes, ByteBuf!Reset, Fresh
<1>4. w.obj.buf = [b EXCEPT !.len = 0] /\ w.mem = IF arg.zero THEN ByteBuf!Zeroed(b) ELSE old.mem
  BY <1>3 DEF ByteBuf!Does, Fresh
<1>5. w.obj.buf.len = 0 /\ w.obj.buf.buffer = b.buffer /\ w.obj.buf.capacity = n /\ w.obj.buf.allocator = "sea"
  <2> HIDE DEF n, b
  <2> QED BY <1>2, <1>4
<1>6. ASSUME arg.zero PROVE DOMAIN w.mem["buf"] = 0 .. n - 1 /\ \A i \in DOMAIN w.mem["buf"] : w.mem["buf"][i] = 0
  <2> DEFINE m == ByteBuf!Store(old.mem, b.buffer, [i \in 0 .. n - 1 |-> 0], n)
  <2>1. w.mem = m
    BY <1>4, <1>6 DEF ByteBuf!Zeroed, Fresh
  <2>2. DOMAIN m = DOMAIN old.mem /\ m["buf"] \in ByteBlock(Byte, n) /\ ByteBuf!AssertAllBytesAre(m, b.buffer, 0, n)
    <3>1. m = ByteBuf!Store(old.mem, b.buffer, [i \in 0 .. b.capacity - 1 |-> 0], b.capacity)
      OBVIOUS
    <3> HIDE DEF m, b
    <3> QED BY <1>1, <3>1, ZeroedIs
  <2> HIDE DEF m
  <2>3. DOMAIN m["buf"] = 0 .. n - 1
    BY <2>2 DEF ByteBlock
  <2>4. ASSUME NEW i \in 0 .. n - 1 PROVE m["buf"][i] = 0
    <3> HIDE DEF n, b
    <3>1. n > 0 /\ i \in Int /\ b.buffer = Start("buf") /\ b.buffer # ByteBuf!Null
      <4>1. "buf" # "null"
        OBVIOUS
      <4> QED BY <1>2, <4>1, StartIsNotNull, NullIs
    <3>2. ByteBuf!HasByte(m, ByteBuf!Plus(Start("buf"), i), 0)
      BY <2>2, <3>1 DEF ByteBuf!AssertAllBytesAre
    <3> QED BY <3>1, <3>2, ByteIs DEF ByteBuf!HasByte
  <2> QED BY <2>1, <2>3, <2>4
<1> QED BY <1>2, <1>5, <1>6 DEF WantsReset, SameKind

(* What a correct function leaves. *)
LEMMA OutcomesWanted == ASSUME BufGiven, Fresh, NEW w \in ByteBuf!Outcomes PROVE Wants(w)
<1>1. CASE proof \in {"advance", "cat", "clean_up", "clean_up_secure", "reset", "secure_zero", "reserve", "reserve_relative"}
  BY <1>1, AdvanceWanted, CatWanted, CleanUpWanted, ResetWanted DEF Wants
<1>2. CASE proof \in {"append", "append_dynamic", "append_with_lookup"}
  BY <1>2, AppendsWanted
<1>3. CASE proof \in {"eq", "eq_ignore_case", "eq_c_str", "eq_c_str_ignore_case"}
  BY <1>3, ComparisonsWanted
<1>4. CASE proof \in {"from_array", "from_c_str", "from_empty_array", "init", "init_copy", "init_copy_from_cursor"}
  BY <1>4, FromArrayWanted, InitsWanted
<1>5. CASE proof \in {"write", "write_from_whole_buffer", "write_from_whole_cursor", "write_from_whole_string"}
  BY <1>5, WritesWanted
<1>6. CASE proof \in {"write_be16", "write_be32", "write_be64", "write_u8"}
  BY <1>6, IntegersWanted
<1> QED BY <1>1, <1>2, <1>3, <1>4, <1>5, <1>6 DEF BufGiven, BufProofs

-----------------------------------------------------------------------------
(* A mistake at a watched place fails an assertion. *)

(* None of these places is wrong. *)
Right(places) == ByteBuf!Differences \cap places = {}

LEMMA FieldsSeen ==
    ASSUME NEW x, x # "ret", NEW F, \A f \in F : obj[x][f] = want.obj[x][f] PROVE Right(ByteBuf!Field(x, F))
BY FieldIsRight DEF Right, ByteBuf!Field

LEMMA ShapeSeen ==
    ASSUME NEW x, x # "ret", obj[x].len = want.obj[x].len, obj[x].capacity = want.obj[x].capacity,
           obj[x].allocator = want.obj[x].allocator
    PROVE  Right(ByteBuf!Shape(x)) /\ Right(ByteBuf!Field(x, {"len"})) /\ Right(ByteBuf!Field(x, {"len", "allocator"}))
           /\ Right(ByteBuf!Field(x, {"len", "capacity"}))
BY FieldsSeen DEF ByteBuf!Shape

LEMMA BytesSeen ==
    ASSUME NEW b, NEW S,
           \A i \in S : b \in DOMAIN want.mem /\ i \in DOMAIN want.mem[b] =>
               ByteBuf!HasByte(mem, ByteBuf!Plus(ByteBuf!StartOf(b), i), want.mem[b][i])
    PROVE  Right(ByteBuf!ByteOf(b, S))
BY ByteIsRight DEF Right, ByteBuf!ByteOf

LEMMA ObjSeen ==
    ASSUME obj = want.obj, NEW x, x # "ret" PROVE Right(ByteBuf!Shape(x)) /\ \A F : Right(ByteBuf!Field(x, F))
BY FieldsSeen DEF ByteBuf!Shape

LEMMA MemorySeen ==
    ASSUME mem = want.mem, TypedMemory(want.mem), NEW b, NEW S PROVE Right(ByteBuf!ByteOf(b, S))
<1>1. ASSUME b \in DOMAIN want.mem, NEW i \in DOMAIN want.mem[b]
      PROVE  ByteBuf!HasByte(mem, ByteBuf!Plus(ByteBuf!StartOf(b), i), want.mem[b][i])
  <2>1. i \in Int
    BY <1>1 DEF TypedMemory, Typed, ByteBlock
  <2> QED BY <1>1, <2>1, HasByteIs, NullIs
<1> QED BY <1>1, BytesSeen

(* Bytes that match those that were saved. *)
LEMMA MatchGives ==
    ASSUME NEW m, NEW m2, NEW b, b # "null", NEW n \in Nat, n > 0,
           ByteBuf!AllMatch(m2, Start(b), ByteBuf!SaveByteFromArray(m, Start(b), n)), NEW i \in 0 .. n - 1
    PROVE  ByteBuf!HasByte(m2, ByteBuf!Plus(ByteBuf!StartOf(b), i), m[b][i])
<1> DEFINE s == [index |-> i, byte |-> ByteBuf!ByteAt(m, ByteBuf!Plus(Start(b), i))]
<1>1. s \in ByteBuf!SaveByteFromArray(m, Start(b), n)
  BY NullIs, StartIsNotNull DEF ByteBuf!SaveByteFromArray
<1>2. s.index = i /\ s.byte = m[b][i]
  BY ByteIs
<1> HIDE DEF s
<1>3. ByteBuf!AssertByteFromBufferMatches(m2, Start(b), s)
  BY <1>1 DEF ByteBuf!AllMatch
<1> QED BY <1>2, <1>3, NullIs, StartIsNotNull DEF ByteBuf!AssertByteFromBufferMatches

(* The bytes of a buffer that a correct function leaves alone. *)
LEMMA KeptSeen ==
    ASSUME BufGiven, OneMistake, NEW x, x # "null", ValidBuf(old.obj[x], old.mem, x),
           want.mem[x] = old.mem[x], want.obj[x].buffer = old.obj[x].buffer,
           OneByte /\ old.obj[x].len > 0 => ByteBuf!AllMatch(mem, obj[x].buffer, ByteBuf!SavedBuf(x))
    PROVE  Right(ByteBuf!Prefix(x))
<1> DEFINE o == old.obj[x]
           n == o.len
<1>1. n \in Nat /\ o.capacity \in Nat /\ n <= o.capacity /\ x \in DOMAIN old.mem /\ old.mem[x] \in ByteBlock(Byte, o.capacity)
      /\ (n > 0 => o.buffer = Start(x))
  BY ValidBufIs, BufConstants
<1>2. CASE mem = want.mem /\ TypedMemory(want.mem)
  BY <1>2, MemorySeen DEF ByteBuf!Prefix
<1>3. CASE Idle
  <2>1. ASSUME NEW i \in 0 .. n - 1
        PROVE  ByteBuf!HasByte(mem, ByteBuf!Plus(ByteBuf!StartOf(x), i), want.mem[x][i])
    <3>1. i \in Int /\ i \in DOMAIN old.mem[x]
      BY <1>1 DEF ByteBlock
    <3> QED BY <1>1, <1>3, <3>1, HasByteIs, NullIs DEF Idle
  <2> QED BY <2>1, BytesSeen DEF ByteBuf!Prefix
<1>4. CASE OneByte
  <2>1. ASSUME NEW i \in 0 .. n - 1
        PROVE  ByteBuf!HasByte(mem, ByteBuf!Plus(ByteBuf!StartOf(x), i), want.mem[x][i])
    <3>1. n > 0 /\ obj[x].buffer = Start(x) /\ o.buffer = Start(x)
      BY <1>1, <1>4 DEF OneByte
    <3>2. ByteBuf!AllMatch(mem, Start(x), ByteBuf!SaveByteFromArray(old.mem, Start(x), n))
      BY <1>4, <3>1 DEF ByteBuf!SavedBuf
    <3> HIDE DEF n
    <3> QED BY <1>1, <3>1, <3>2, MatchGives
  <2> QED BY <2>1, BytesSeen DEF ByteBuf!Prefix
<1> QED BY <1>2, <1>3, <1>4 DEF OneMistake, OneField, AnswerOnly

(* Nothing but the answer is wrong. *)
LEMMA AnswerUnseen ==
    ASSUME AnswerOnly,
           proof \notin {"cat", "eq", "eq_ignore_case", "eq_c_str", "eq_c_str_ignore_case"}
    PROVE  Right(ByteBuf!Watched)
<1> USE DEF AnswerOnly
<1>1. \A x : x # "ret" => Right(ByteBuf!Shape(x)) /\ \A F : Right(ByteBuf!Field(x, F))
  BY ObjSeen
<1>2. \A b, S : Right(ByteBuf!ByteOf(b, S))
  BY MemorySeen
<1>3. Right({}) /\ \A S, T : Right(S) /\ Right(T) => Right(S \cup T)
  BY DEF Right
<1>4. "buf" # "ret" /\ "output" # "ret" /\ "to" # "ret" /\ "dest" # "ret" /\ "src" # "ret"
  OBVIOUS
<1>5. Right(ByteBuf!Shape("buf")) /\ Right(ByteBuf!Shape("output")) /\ Right(ByteBuf!Shape("to")) /\ Right(ByteBuf!Shape("dest"))
      /\ \A F : Right(ByteBuf!Field("buf", F)) /\ Right(ByteBuf!Field("to", F)) /\ Right(ByteBuf!Field("src", F))
  BY <1>1, <1>4
<1>6. \A x : Right(ByteBuf!Prefix(x))
  BY <1>2 DEF ByteBuf!Prefix
<1>7. CASE proof \in {"advance", "append", "append_with_lookup", "append_dynamic", "clean_up", "clean_up_secure"}
  BY <1>3, <1>5, <1>6, <1>7 DEF ByteBuf!Watched
<1>8. CASE proof \in {"from_array", "from_c_str", "from_empty_array", "init", "init_copy", "init_copy_from_cursor"}
  BY <1>3, <1>5, <1>6, <1>8 DEF ByteBuf!Watched, ByteBuf!OnSuccess
<1>9. CASE proof \in {"reset", "secure_zero", "write_from_whole_string"}
  BY <1>2, <1>3, <1>5, <1>9 DEF ByteBuf!Watched
<1>10. CASE proof \in {"write", "write_from_whole_buffer", "write_from_whole_cursor", "write_be16", "write_be32",
                       "write_be64", "write_u8"}
  BY <1>2, <1>3, <1>5, <1>6, <1>10 DEF ByteBuf!Watched
<1>11. CASE proof \notin {"advance", "append", "append_with_lookup", "append_dynamic", "clean_up", "clean_up_secure",
                          "from_array", "from_c_str", "from_empty_array", "init", "init_copy", "init_copy_from_cursor",
                          "reset", "secure_zero", "write_from_whole_string", "write", "write_from_whole_buffer",
                          "write_from_whole_cursor", "write_be16", "write_be32", "write_be64", "write_u8"}
  BY <1>3, <1>11 DEF ByteBuf!Watched
<1> QED BY <1>7, <1>8, <1>9, <1>10, <1>11

-----------------------------------------------------------------------------
(* What each unit proof sees. *)

LEMMA AdvanceSees ==
    ASSUME BufGiven, Wants(want), OneMistake, ByteBuf!Asserts, proof = "advance", ret = want.ret
    PROVE  Right(ByteBuf!Watched)
<1>1. ValidBuf(old.obj.buf, old.mem, "buf") /\ WantsAdvance(want) /\ ByteBuf!ByteBufAdvanceAsserts
  BY DEF BufGiven, AdvanceGiven, Wants, ByteBuf!Asserts
<1>2. Right(ByteBuf!Shape("buf"))
  <2>1. obj["buf"].len = want.obj["buf"].len /\ obj["buf"].capacity = want.obj["buf"].capacity
        /\ obj["buf"].allocator = want.obj["buf"].allocator
    BY <1>1 DEF WantsAdvance, SameKind, ByteBuf!ByteBufAdvanceAsserts, ByteBuf!SameFields, ByteBuf!BufSame,
       ByteBuf!AssertByteBufEquivalence
  <2>2. "buf" # "ret"
    OBVIOUS
  <2> QED BY <2>1, <2>2, ShapeSeen
<1>3. Right(ByteBuf!Shape("output"))
  <2>1. obj["output"].len = want.obj["output"].len /\ obj["output"].capacity = want.obj["output"].capacity
        /\ obj["output"].allocator = want.obj["output"].allocator
    BY <1>1 DEF WantsAdvance, Measures, ByteBuf!ByteBufAdvanceAsserts, ByteBuf!ZeroBuf, ByteBuf!Buf
  <2>2. "output" # "ret"
    OBVIOUS
  <2> QED BY <2>1, <2>2, ShapeSeen
<1>4. Right(ByteBuf!Prefix("buf"))
  <2>1. want.mem["buf"] = old.mem["buf"] /\ want.obj["buf"].buffer = old.obj["buf"].buffer /\ "buf" # "null"
    BY <1>1 DEF WantsAdvance
  <2>2. old.obj["buf"].len > 0 => ByteBuf!AllMatch(mem, obj["buf"].buffer, ByteBuf!SavedBuf("buf"))
    BY <1>1 DEF ByteBuf!ByteBufAdvanceAsserts, ByteBuf!BufSame, ByteBuf!AssertByteBufEquivalence
  <2> QED BY <1>1, <2>1, <2>2, KeptSeen
<1> QED BY <1>2, <1>3, <1>4 DEF Right, ByteBuf!Watched

LEMMA AppendSees ==
    ASSUME Wants(want), ByteBuf!Asserts, proof \in {"append", "append_with_lookup", "append_dynamic"}, ret = want.ret
    PROVE  Right(ByteBuf!Watched)
<1>1. "to" # "ret"
  OBVIOUS
<1>2. WantsAppend(want) /\ ByteBuf!AppendedOrNot /\ ByteBuf!SameFields("to", {"allocator"})
      /\ (proof # "append_dynamic" => SameKind(want, "to") /\ ByteBuf!SameFields("to", {"allocator", "capacity"}))
  BY DEF Wants, ByteBuf!Asserts, ByteBuf!ByteBufAppendAsserts, ByteBuf!ByteBufAppendDynamicAsserts,
     ByteBuf!ByteBufAppendWithLookupAsserts, ByteBuf!SameFields
<1>3. obj["to"].len = want.obj["to"].len /\ obj["to"].allocator = want.obj["to"].allocator
  BY <1>2 DEF WantsAppend, ByteBuf!AppendedOrNot, ByteBuf!SameFields
<1>4. CASE proof = "append_dynamic"
  <2>1. \A f \in {"len", "allocator"} : obj["to"][f] = want.obj["to"][f]
    BY <1>3
  <2> QED BY <1>1, <1>4, <2>1, FieldsSeen DEF ByteBuf!Watched
<1>5. CASE proof # "append_dynamic"
  <2>1. obj["to"].capacity = want.obj["to"].capacity
    BY <1>2, <1>5 DEF SameKind, ByteBuf!SameFields
  <2> QED BY <1>1, <1>3, <1>5, <2>1, ShapeSeen DEF ByteBuf!Watched
<1> QED BY <1>4, <1>5

(* Only measures are watched. *)
LEMMA MeasuresSeen ==
    ASSUME BufGiven, Wants(want), ByteBuf!Asserts, ret = want.ret,
           proof \in {"clean_up", "clean_up_secure", "from_array", "from_c_str", "from_empty_array", "init",
                      "init_copy_from_cursor"}
    PROVE  Right(ByteBuf!Watched)
<1>0. "buf" # "ret"
  OBVIOUS
<1>1. CASE proof \in {"clean_up", "clean_up_secure"}
  <2>1. obj["buf"] = want.obj["buf"]
    BY <1>1 DEF Wants, ByteBuf!Asserts, ByteBuf!ByteBufCleanUpAsserts, ByteBuf!ByteBufCleanUpSecureAsserts
  <2>2. Right(ByteBuf!Shape("buf")) /\ Right(ByteBuf!Field("buf", {"buffer"}))
    BY <1>0, <2>1, ShapeSeen, FieldsSeen
  <2> QED BY <1>1, <2>2 DEF Right, ByteBuf!Watched
<1>2. CASE proof = "from_array"
  <2>1. obj["buf"].len = want.obj["buf"].len /\ obj["buf"].capacity = want.obj["buf"].capacity
        /\ obj["buf"].allocator = want.obj["buf"].allocator
    BY <1>2 DEF Wants, Measures, ByteBuf!Asserts, ByteBuf!ByteBufFromArrayAsserts, ByteBuf!Buf
  <2> QED BY <1>0, <1>2, <2>1, ShapeSeen DEF ByteBuf!Watched
<1>3. CASE proof = "from_c_str"
  <2>1. arg.c_str = ByteBuf!Null => arg.len = 0
    <3>1. arg.len \in Nat /\ (arg.len > 0 => arg.c_str = Start("c_str"))
      BY <1>3, BufConstants DEF BufGiven, FromStrGiven, Source
    <3>2. "c_str" # "null"
      OBVIOUS
    <3> QED BY <3>1, <3>2, StartIsNotNull, NullIs
  <2>2. obj["buf"].len = want.obj["buf"].len /\ obj["buf"].capacity = want.obj["buf"].capacity
        /\ obj["buf"].allocator = want.obj["buf"].allocator
    BY <1>3, <2>1 DEF Wants, Measures, ByteBuf!Asserts, ByteBuf!ByteBufFromCStrAsserts
  <2> QED BY <1>0, <1>3, <2>2, ShapeSeen DEF ByteBuf!Watched
<1>4. CASE proof = "from_empty_array"
  <2>1. obj["buf"].len = want.obj["buf"].len /\ obj["buf"].capacity = want.obj["buf"].capacity
        /\ obj["buf"].allocator = want.obj["buf"].allocator
    BY <1>4 DEF Wants, Measures, ByteBuf!Asserts, ByteBuf!ByteBufFromEmptyArrayAsserts, ByteBuf!Buf
  <2> QED BY <1>0, <1>4, <2>1, ShapeSeen DEF ByteBuf!Watched
<1>5. CASE proof \in {"init", "init_copy_from_cursor"} /\ ret = "success"
  <2>1. ASSUME NEW k, NEW n, want.obj.buf.len = k, want.obj.buf.capacity = n, want.obj.buf.allocator = "sea",
               obj.buf = ByteBuf!Buf(obj.buf.buffer, k, n, "sea")
        PROVE  Right(ByteBuf!Shape("buf"))
    <3>1. obj["buf"].len = want.obj["buf"].len /\ obj["buf"].capacity = want.obj["buf"].capacity
          /\ obj["buf"].allocator = want.obj["buf"].allocator
      BY <2>1 DEF ByteBuf!Buf
    <3> QED BY <1>0, <3>1, ShapeSeen
  <2>2. CASE proof = "init"
    <3>1. want.obj.buf.len = 0 /\ want.obj.buf.capacity = arg.capacity /\ want.obj.buf.allocator = "sea"
      BY <1>5, <2>2 DEF Wants, Measures
    <3>2. obj.buf = ByteBuf!Buf(obj.buf.buffer, 0, arg.capacity, "sea")
      BY <1>5, <2>2 DEF ByteBuf!Asserts, ByteBuf!ByteBufInitAsserts
    <3>3. Right(ByteBuf!Shape("buf"))
      BY <2>1, <3>1, <3>2
    <3> QED BY <1>5, <2>2, <3>3 DEF ByteBuf!Watched, ByteBuf!OnSuccess
  <2>3. CASE proof = "init_copy_from_cursor"
    <3>1. want.obj.buf.len = arg.cursor.len /\ want.obj.buf.capacity = arg.cursor.len /\ want.obj.buf.allocator = "sea"
      BY <1>5, <2>3 DEF Wants, Measures
    <3>2. obj.buf = ByteBuf!Buf(obj.buf.buffer, arg.cursor.len, arg.cursor.len, "sea")
      BY <1>5, <2>3 DEF ByteBuf!Asserts, ByteBuf!ByteBufInitCopyFromCursorAsserts
    <3>3. Right(ByteBuf!Shape("buf"))
      BY <2>1, <3>1, <3>2
    <3> QED BY <1>5, <2>3, <3>3 DEF ByteBuf!Watched, ByteBuf!OnSuccess
  <2> QED BY <1>5, <2>2, <2>3
<1>6. CASE proof \in {"init", "init_copy_from_cursor"} /\ ret # "success"
  BY <1>6 DEF ByteBuf!Watched, ByteBuf!OnSuccess, Right
<1> QED BY <1>1, <1>2, <1>3, <1>4, <1>5, <1>6

(* The structs have the names they had. *)
LEMMA NamesAre == ASSUME OneMistake, DOMAIN want.obj = DOMAIN old.obj PROVE DOMAIN obj = DOMAIN old.obj
BY DEF OneMistake, Idle, OneField, OneByte, AnswerOnly

(* A buffer that is compared with the one that was saved. *)
LEMMA SameSees ==
    ASSUME BufGiven, OneMistake, NEW x, x # "null", x # "ret", want.obj[x] = old.obj[x], ByteBuf!BufSame(x),
           \/ ValidBuf(old.obj[x], old.mem, x) /\ want.mem[x] = old.mem[x]
           \/ x \notin DOMAIN want.mem
    PROVE  Right(ByteBuf!Shape(x)) /\ Right(ByteBuf!Prefix(x))
<1>1. /\ obj[x].len = old.obj[x].len /\ obj[x].capacity = old.obj[x].capacity /\ obj[x].allocator = old.obj[x].allocator
      /\ old.obj[x].len > 0 => ByteBuf!AllMatch(mem, obj[x].buffer, ByteBuf!SavedBuf(x))
  BY DEF ByteBuf!BufSame, ByteBuf!AssertByteBufEquivalence
<1>2. Right(ByteBuf!Shape(x))
  BY <1>1, ShapeSeen
<1>3. CASE ValidBuf(old.obj[x], old.mem, x) /\ want.mem[x] = old.mem[x]
  BY <1>1, <1>2, <1>3, KeptSeen
<1>4. CASE x \notin DOMAIN want.mem
  BY <1>2, <1>4, BytesSeen DEF ByteBuf!Prefix
<1> QED BY <1>3, <1>4

LEMMA CatSees ==
    ASSUME BufGiven, Wants(want), OneMistake, ByteBuf!Asserts, proof = "cat"
    PROVE  Right(ByteBuf!Watched)
<1>1. CatGiven /\ WantsCat(want) /\ ByteBuf!ByteBufCatAsserts
  BY DEF BufGiven, Wants, ByteBuf!Asserts
<1>2. DOMAIN obj = {"dest", "buffer1", "buffer2", "buffer3"} /\ DOMAIN want.obj = {"dest", "buffer1", "buffer2", "buffer3"}
  BY <1>1, NamesAre DEF CatGiven, WantsCat
<1>3. ASSUME NEW x \in Appended PROVE Right(ByteBuf!Shape(x)) /\ Right(ByteBuf!Prefix(x))
  <2>1. x # "null" /\ x # "ret" /\ x \in DOMAIN old.obj /\ ByteBuf!BufSame(x) /\ ValidBuf(old.obj[x], old.mem, x)
    BY <1>1 DEF Appended, CatGiven, ByteBuf!ByteBufCatAsserts
  <2>2. want.obj[x] = old.obj[x] /\ want.mem[x] = old.mem[x]
    BY <1>1 DEF WantsCat
  <2> QED BY <2>1, <2>2, SameSees
<1>4. ret = want.ret
  <2>1. CASE AnswerOnly
    <3>1. obj["buffer1"] = old.obj["buffer1"] /\ obj["buffer2"] = old.obj["buffer2"] /\ obj["buffer3"] = old.obj["buffer3"]
      BY <1>1, <2>1 DEF AnswerOnly, WantsCat, Appended
    <3>2. IF ret = "success" THEN old.obj.dest.capacity - old.obj.dest.len >= Total
          ELSE old.obj.dest.capacity - old.obj.dest.len < Total
      BY <1>1, <3>1 DEF ByteBuf!ByteBufCatAsserts, Total
    <3>3. want.ret \in {"success", "error"} /\ ret \in {"success", "error"}
      BY <1>1, <2>1 DEF WantsCat, AnswerOnly, ByteBuf!Opposite
    <3>4. Total \in Int /\ old.obj.dest.capacity - old.obj.dest.len \in Int
      <4>1. ASSUME NEW x \in DOMAIN old.obj PROVE old.obj[x].len \in Nat /\ old.obj[x].capacity \in Nat
        <5>1. ValidBuf(old.obj[x], old.mem, x)
          BY <1>1 DEF CatGiven
        <5> QED BY <5>1, ValidBufIs, BufConstants
      <4>2. {"dest", "buffer1", "buffer2", "buffer3"} \subseteq DOMAIN old.obj
        BY <1>1 DEF CatGiven
      <4>3. /\ old.obj["dest"].len \in Nat /\ old.obj["dest"].capacity \in Nat
            /\ old.obj["buffer1"].len \in Nat /\ old.obj["buffer2"].len \in Nat /\ old.obj["buffer3"].len \in Nat
        BY <4>1, <4>2
      <4> QED BY <4>3 DEF Total
    <3> DEFINE space == old.obj.dest.capacity - old.obj.dest.len
    <3>5. (want.ret = "success" /\ space >= Total) \/ (want.ret = "error" /\ space < Total)
      BY <1>1 DEF WantsCat
    <3>6. IF ret = "success" THEN space >= Total ELSE space < Total
      BY <3>2
    <3>7. space \in Int /\ Total \in Int
      BY <3>4
    <3> HIDE DEF space
    <3> QED BY <3>3, <3>5, <3>6, <3>7
  <2>2. CASE ~AnswerOnly
    BY <2>2 DEF OneMistake, Idle, OneField, OneByte
  <2> QED BY <2>1, <2>2
<1>5. Right(ByteBuf!Answer)
  BY <1>2, <1>4, AnswerIsRight DEF ByteBuf!Answer, Right
<1>6. Right(UNION {ByteBuf!Shape(x) \cup ByteBuf!Prefix(x) : x \in DOMAIN obj \ {"dest"}})
  BY <1>2, <1>3 DEF Right, Appended
<1> QED BY <1>5, <1>6 DEF Right, ByteBuf!Watched

(* Two arrays that match have the same bytes. *)
LEMMA MatchIsSame ==
    ASSUME NEW m, NEW p, NEW q, NEW n \in Nat, n > 0 => p # ByteBuf!Null /\ q # ByteBuf!Null,
           n > 0 => ByteBuf!AssertBytesMatch(m, p, q, n)
    PROVE  ByteBuf!BytesAt(m, p, n) = ByteBuf!BytesAt(m, q, n)
<1>1. ASSUME NEW i \in 0 .. n - 1 PROVE ByteBuf!ByteAt(m, ByteBuf!Plus(p, i)) = ByteBuf!ByteAt(m, ByteBuf!Plus(q, i))
  BY DEF ByteBuf!AssertBytesMatch, ByteBuf!HasByte
<1> QED BY <1>1 DEF ByteBuf!BytesAt

(* The answer of a comparison for which the assertions compare the bytes. *)
LEMMA SameAnswer ==
    ASSUME OneMistake, Unchanged(want), ret = "true",
           NEW p, NEW k \in Nat, NEW q, NEW n \in Nat, k > 0 => p # ByteBuf!Null, n > 0 => q # ByteBuf!Null,
           want.ret # "true" => ~SameBytesBefore(p, k, q, n),
           AnswerOnly => k = n /\ (n > 0 => ByteBuf!AssertBytesMatch(mem, p, q, n))
    PROVE  ret = want.ret
<1>1. CASE AnswerOnly
  <2>1. mem = old.mem /\ k = n
    BY <1>1 DEF AnswerOnly, Unchanged
  <2>2. ByteBuf!BytesAt(mem, p, n) = ByteBuf!BytesAt(mem, q, n)
    BY <1>1, <2>1, MatchIsSame
  <2> QED BY <2>1, <2>2 DEF SameBytesBefore
<1>2. CASE ~AnswerOnly
  BY <1>2 DEF OneMistake, Idle, OneField, OneByte
<1> QED BY <1>1, <1>2

LEMMA EqSees ==
    ASSUME BufGiven, Wants(want), OneMistake, ByteBuf!Asserts, proof \in {"eq", "eq_ignore_case"}
    PROVE  Right(ByteBuf!Watched)
<1> DEFINE l == old.obj.lhs
           k == old.obj.rhs
<1>1. LhsRhsGiven /\ WantsEq(want) /\ ByteBuf!BothSame
      /\ (proof = "eq" => ByteBuf!ByteBufEqAsserts)
  BY DEF BufGiven, Wants, ByteBuf!Asserts, ByteBuf!ByteBufEqAsserts, ByteBuf!ByteBufEqIgnoreCaseAsserts
<1>2. DOMAIN obj = {"lhs", "rhs"} /\ want.obj = old.obj /\ want.mem = old.mem /\ DOMAIN want.obj = {"lhs", "rhs"}
  BY <1>1, NamesAre DEF LhsRhsGiven, WantsEq, Unchanged
<1>3. ValidBuf(l, old.mem, "lhs") /\ (ValidBuf(k, old.mem, "rhs") \/ (k = l /\ "rhs" \notin DOMAIN old.mem))
  BY <1>1 DEF LhsRhsGiven
<1>4. ASSUME NEW x \in {"lhs", "rhs"} PROVE Right(ByteBuf!Shape(x)) /\ Right(ByteBuf!Prefix(x))
  <2>1. x # "null" /\ x # "ret" /\ ByteBuf!BufSame(x)
    BY <1>1 DEF ByteBuf!BothSame
  <2>2. ValidBuf(old.obj[x], old.mem, x) \/ x \notin DOMAIN want.mem
    BY <1>2, <1>3
  <2>3. want.obj[x] = old.obj[x] /\ want.mem[x] = old.mem[x]
    BY <1>2
  <2> QED BY <2>1, <2>2, <2>3, SameSees
<1>5. ASSUME ret = "true", proof = "eq" PROVE Right(ByteBuf!Answer)
  <2>1. l.len \in Nat /\ k.len \in Nat
        /\ (l.len > 0 => l.buffer # ByteBuf!Null) /\ (k.len > 0 => k.buffer # ByteBuf!Null)
    <3>1. "lhs" # "null" /\ "rhs" # "null"
      OBVIOUS
    <3> HIDE DEF l, k
    <3> QED BY <1>3, <3>1, BufSource, StartIsNotNull, NullIs DEF Source
  <2>2. want.ret # "true" => ~SameBytesBefore(l.buffer, l.len, k.buffer, k.len)
    BY <1>1, <1>5 DEF WantsEq
  <2>3. ASSUME AnswerOnly
        PROVE  l.len = k.len /\ (k.len > 0 => ByteBuf!AssertBytesMatch(mem, l.buffer, k.buffer, k.len))
    <3>1. obj.lhs = l /\ obj.rhs = k
      BY <1>2, <2>3 DEF AnswerOnly
    <3> QED BY <1>1, <1>5, <3>1 DEF ByteBuf!ByteBufEqAsserts, ByteBuf!BytesMatch
  <2>4. Unchanged(want)
    BY <1>2 DEF Unchanged
  <2> HIDE DEF l, k
  <2>5. ret = want.ret
    BY <1>5, <2>1, <2>2, <2>3, <2>4, SameAnswer
  <2>6. "ret" \notin DOMAIN want.obj
    BY <1>2
  <2> QED BY <2>5, <2>6, AnswerIsRight DEF ByteBuf!Answer, Right
<1>6. Right(UNION {ByteBuf!Shape(x) \cup ByteBuf!Prefix(x) : x \in DOMAIN obj})
  BY <1>2, <1>4 DEF Right
<1>7. Right({}) /\ \A S, T : Right(S) /\ Right(T) => Right(S \cup T)
  BY DEF Right
<1> QED BY <1>5, <1>6, <1>7 DEF ByteBuf!Watched

LEMMA EqStrSees ==
    ASSUME BufGiven, Wants(want), OneMistake, ByteBuf!Asserts, proof \in {"eq_c_str", "eq_c_str_ignore_case"}
    PROVE  Right(ByteBuf!Watched)
<1> DEFINE l == old.obj.buf
<1>1. StrGiven /\ WantsEqStr(want) /\ ByteBuf!BufSame("buf") /\ ByteBuf!StrSame
      /\ (proof = "eq_c_str" => ByteBuf!ByteBufEqCStrAsserts)
  BY DEF BufGiven, Wants, ByteBuf!Asserts, ByteBuf!ByteBufEqCStrAsserts, ByteBuf!ByteBufEqCStrIgnoreCaseAsserts
<1>2. DOMAIN obj = {"buf"} /\ want.obj = old.obj /\ want.mem = old.mem /\ DOMAIN want.obj = {"buf"}
  BY <1>1, NamesAre DEF StrGiven, WantsEqStr, Unchanged
<1>3. /\ ValidBuf(old.obj["buf"], old.mem, "buf") /\ arg.len \in Nat /\ arg.c_str = Start("c_str")
      /\ arg.c_str # ByteBuf!Null
  <2>1. "c_str" # "null"
    OBVIOUS
  <2> QED BY <1>1, <2>1, BufConstants, StartIsNotNull, NullIs DEF StrGiven
<1>4. Right(ByteBuf!Shape("buf")) /\ Right(ByteBuf!Prefix("buf"))
  <2>1. "buf" # "null" /\ "buf" # "ret"
    OBVIOUS
  <2> QED BY <1>1, <1>2, <1>3, <2>1, SameSees
<1>5. ASSUME ret = "true", proof = "eq_c_str" PROVE Right(ByteBuf!Answer)
  <2>1. l.len \in Nat /\ (l.len > 0 => l.buffer # ByteBuf!Null)
    <3>1. "buf" # "null"
      OBVIOUS
    <3> HIDE DEF l
    <3> QED BY <1>3, <3>1, BufSource, StartIsNotNull, NullIs DEF Source, l
  <2>2. want.ret # "true" => ~SameBytesBefore(l.buffer, l.len, arg.c_str, arg.len)
    BY <1>1, <1>5 DEF WantsEqStr
  <2>3. ASSUME AnswerOnly
        PROVE  l.len = arg.len /\ (arg.len > 0 => ByteBuf!AssertBytesMatch(mem, l.buffer, arg.c_str, arg.len))
    <3>1. obj.buf = l
      BY <1>2, <2>3 DEF AnswerOnly
    <3> QED BY <1>1, <1>5, <3>1 DEF ByteBuf!ByteBufEqCStrAsserts, ByteBuf!BytesMatch
  <2>4. Unchanged(want)
    BY <1>2 DEF Unchanged
  <2> HIDE DEF l
  <2>5. ret = want.ret
    BY <1>3, <1>5, <2>1, <2>2, <2>3, <2>4, SameAnswer
  <2>6. "ret" \notin DOMAIN want.obj
    BY <1>2
  <2> QED BY <2>5, <2>6, AnswerIsRight DEF ByteBuf!Answer, Right
<1>6. Right(ByteBuf!ByteOf("c_str", 0 .. arg.len - 1))
  <2>1. ASSUME NEW i \in 0 .. arg.len - 1
        PROVE  ByteBuf!HasByte(mem, ByteBuf!Plus(ByteBuf!StartOf("c_str"), i), want.mem["c_str"][i])
    <3>1. arg.len > 0 /\ "c_str" # "null"
      BY <1>3
    <3>2. ByteBuf!AllMatch(mem, Start("c_str"), ByteBuf!SaveByteFromArray(old.mem, Start("c_str"), arg.len))
      BY <1>1, <1>3, <3>1 DEF ByteBuf!StrSame, ByteBuf!SavedStr
    <3> QED BY <1>2, <1>3, <3>1, <3>2, MatchGives
  <2> QED BY <2>1, BytesSeen
<1>7. Right(UNION {ByteBuf!Shape(x) \cup ByteBuf!Prefix(x) : x \in DOMAIN obj})
  BY <1>2, <1>4 DEF Right
<1>8. Right({}) /\ \A S, T : Right(S) /\ Right(T) => Right(S \cup T)
  BY DEF Right
<1> QED BY <1>5, <1>6, <1>7, <1>8 DEF ByteBuf!Watched

LEMMA InitCopySees ==
    ASSUME BufGiven, Wants(want), OneMistake, ByteBuf!Asserts, proof = "init_copy", ret = want.ret
    PROVE  Right(ByteBuf!Watched)
<1> DEFINE dest == obj["dest"]
           src == obj["src"]
           o == old.obj["src"]
<1>1. CASE ret # "success"
  BY <1>1 DEF ByteBuf!Watched, ByteBuf!OnSuccess, Right
<1>2. CASE ret = "success"
  <2>0. "dest" # "src" /\ "dest" # "ret" /\ "src" # "ret" /\ "src" # "null"
    OBVIOUS
  <2>1. CopyGiven /\ WantsCopy(want) /\ ByteBuf!ByteBufInitCopyAsserts
    BY <1>2 DEF BufGiven, Wants, ByteBuf!Asserts
  <2>2. /\ want.obj["dest"].len = o.len /\ want.obj["dest"].capacity = o.capacity /\ want.obj["dest"].allocator = "sea"
        /\ want.obj["src"] = o /\ want.mem["src"] = old.mem["src"]
        /\ "dest" \in DOMAIN want.obj /\ "src" \in DOMAIN want.obj
    BY <2>1 DEF WantsCopy, Measures
  <2>3. /\ dest.len = src.len /\ dest.capacity = src.capacity /\ dest.allocator = "sea"
        /\ src.len > 0 => ByteBuf!AllMatch(mem, src.buffer, ByteBuf!SavedBuf("src"))
    BY <1>2, <2>1 DEF ByteBuf!ByteBufInitCopyAsserts, ByteBuf!HasAllocator
  <2>4. \/ src = o \/ (dest.len = o.len /\ dest.capacity = o.capacity)
    <3>1. CASE Idle
      BY <2>1, <3>1, CopyIs DEF Idle
    <3>2. CASE OneField
      <4>1. PICK x : \E f, v : obj = [want.obj EXCEPT ![x] = [want.obj[x] EXCEPT ![f] = v]]
        BY <3>2 DEF OneField
      <4>2. CASE x = "dest"
        BY <2>0, <2>2, <4>1, <4>2
      <4>3. CASE x # "dest"
        <5>1. obj["dest"] = want.obj["dest"]
          BY <2>2, <4>1, <4>3
        <5> QED BY <2>2, <5>1
      <4> QED BY <4>2, <4>3
    <3>3. CASE obj = want.obj
      BY <2>2, <3>3
    <3> QED BY <3>1, <3>2, <3>3 DEF OneMistake, OneByte, AnswerOnly
  <2>5. src.len = o.len /\ src.capacity = o.capacity /\ dest.len = o.len /\ dest.capacity = o.capacity
    BY <2>3, <2>4
  <2>6. Right(ByteBuf!Shape("dest")) /\ Right(ByteBuf!Field("src", {"len", "capacity"}))
    <3>1. \A f \in {"len", "capacity"} : obj["src"][f] = want.obj["src"][f]
      BY <2>2, <2>5
    <3> QED BY <2>0, <2>2, <2>3, <2>5, <3>1, ShapeSeen, FieldsSeen
  <2>7. Right(ByteBuf!Prefix("src"))
    <3>1. ValidBuf(old.obj["src"], old.mem, "src")
      BY <2>1 DEF CopyGiven
    <3>2. old.obj["src"].len > 0 => ByteBuf!AllMatch(mem, obj["src"].buffer, ByteBuf!SavedBuf("src"))
      BY <2>3, <2>5
    <3> HIDE DEF o, src
    <3> QED BY <2>0, <2>2, <3>1, <3>2, KeptSeen DEF o
  <2> QED BY <1>2, <2>6, <2>7 DEF Right, ByteBuf!Watched, ByteBuf!OnSuccess
<1> QED BY <1>1, <1>2

LEMMA ResetSees ==
    ASSUME BufGiven, Wants(want), OneMistake, ByteBuf!Asserts, proof \in {"reset", "secure_zero"}, ret = want.ret
    PROVE  Right(ByteBuf!Watched)
<1> DEFINE o == old.obj["buf"]
<1>0. "buf" # "ret" /\ "buf" # "null"
  OBVIOUS
<1>1. /\ WantsReset(want) /\ OneGiven /\ (proof = "reset" => ByteBuf!ByteBufResetAsserts)
      /\ (proof = "secure_zero" => arg.zero = TRUE /\ ByteBuf!ByteBufSecureZeroAsserts)
  BY DEF BufGiven, Wants, ByteBuf!Asserts
<1>2. /\ want.obj["buf"].len = 0 /\ want.obj["buf"].buffer = o.buffer
      /\ want.obj["buf"].capacity = o.capacity /\ want.obj["buf"].allocator = o.allocator
      /\ arg.zero => /\ DOMAIN want.mem["buf"] = 0 .. o.capacity - 1
                     /\ \A i \in DOMAIN want.mem["buf"] : want.mem["buf"][i] = 0
  BY <1>1 DEF WantsReset, SameKind
<1>3. ValidBuf(o, old.mem, "buf")
  BY <1>1 DEF OneGiven
<1>4. o.capacity \in Nat /\ (o.capacity > 0 => o.buffer = Start("buf") /\ o.buffer # ByteBuf!Null)
  BY <1>0, <1>3, ValidBufIs, StartIsNotNull, NullIs, BufConstants
<1>5. ASSUME arg.zero, obj["buf"].buffer = o.buffer, obj["buf"].capacity = o.capacity,
             ByteBuf!AssertAllBytesAre(mem, obj["buf"].buffer, 0, obj["buf"].capacity), NEW S
      PROVE  Right(ByteBuf!ByteOf("buf", S))
  <2>1. ASSUME NEW i \in DOMAIN want.mem["buf"]
        PROVE  ByteBuf!HasByte(mem, ByteBuf!Plus(ByteBuf!StartOf("buf"), i), want.mem["buf"][i])
    <3>1. i \in 0 .. o.capacity - 1 /\ want.mem["buf"][i] = 0
      BY <1>2, <1>5
    <3> HIDE DEF o
    <3>2. o.capacity > 0 /\ o.buffer = Start("buf") /\ o.buffer # ByteBuf!Null
      BY <1>4, <3>1
    <3> QED BY <1>5, <3>1, <3>2, NullIs DEF ByteBuf!AssertAllBytesAre
  <2> QED BY <2>1, BytesSeen
<1>6. CASE proof = "reset"
  <2>1. /\ obj["buf"].len = 0 /\ obj["buf"].buffer = o.buffer /\ obj["buf"].capacity = o.capacity
        /\ obj["buf"].allocator = o.allocator
        /\ arg.zero => ByteBuf!AssertAllBytesAre(mem, obj["buf"].buffer, 0, obj["buf"].capacity)
    BY <1>1, <1>6 DEF ByteBuf!ByteBufResetAsserts, ByteBuf!SameFields
  <2>2. Right(ByteBuf!Shape("buf")) /\ Right(ByteBuf!Field("buf", {"buffer"}))
    BY <1>0, <1>2, <2>1, ShapeSeen, FieldsSeen
  <2>3. arg.zero => \A S : Right(ByteBuf!ByteOf("buf", S))
    BY <1>5, <2>1
  <2> QED BY <1>6, <2>2, <2>3 DEF Right, ByteBuf!Watched
<1>7. CASE proof = "secure_zero"
  <2>1. /\ obj["buf"].len = 0 /\ arg.zero
        /\ ByteBuf!AssertAllBytesAre(mem, obj["buf"].buffer, 0, obj["buf"].capacity)
    BY <1>1, <1>7 DEF ByteBuf!ByteBufSecureZeroAsserts, ByteBuf!AssertAllZeroes
  <2>2. Right(ByteBuf!Field("buf", {"len"}))
    BY <1>0, <1>2, <2>1, FieldsSeen
  <2>3. ASSUME NEW S PROVE Right(ByteBuf!ByteOf("buf", S))
    <3>1. CASE mem = want.mem /\ TypedMemory(want.mem)
      BY <3>1, MemorySeen
    <3>2. CASE Idle \/ OneByte
      <4>1. obj["buf"].buffer = o.buffer /\ obj["buf"].capacity = o.capacity
        BY <1>2, <3>2 DEF Idle, OneByte
      <4> QED BY <1>5, <2>1, <4>1
    <3> QED BY <3>1, <3>2 DEF OneMistake, OneField, AnswerOnly
  <2> QED BY <1>7, <2>2, <2>3 DEF Right, ByteBuf!Watched
<1> QED BY <1>6, <1>7

(* A write of n bytes: the measures and, when nothing was written, the bytes that were there. *)
LEMMA WrittenSees ==
    ASSUME BufGiven, OneMistake, ret = want.ret, ValidBuf(old.obj.buf, old.mem, "buf"), NEW n,
           WantsWrite(want, n), ByteBuf!Written(n)
    PROVE  Right(ByteBuf!Shape("buf")) /\ (ret # "true" => Right(ByteBuf!Prefix("buf")))
<1>0. "buf" # "ret" /\ "buf" # "null"
  OBVIOUS
<1>1. obj["buf"].len = want.obj["buf"].len /\ obj["buf"].capacity = want.obj["buf"].capacity
      /\ obj["buf"].allocator = want.obj["buf"].allocator
  BY DEF WantsWrite, SameKind, ByteBuf!Written, ByteBuf!SameFields, ByteBuf!BufSame,
     ByteBuf!AssertByteBufEquivalence
<1>2. ASSUME ret # "true" PROVE Right(ByteBuf!Prefix("buf"))
  <2>1. want.mem["buf"] = old.mem["buf"] /\ want.obj["buf"].buffer = old.obj["buf"].buffer
    BY <1>2 DEF WantsWrite
  <2>2. old.obj["buf"].len > 0 => ByteBuf!AllMatch(mem, obj["buf"].buffer, ByteBuf!SavedBuf("buf"))
    BY <1>2 DEF ByteBuf!Written, ByteBuf!BufSame, ByteBuf!AssertByteBufEquivalence
  <2> QED BY <1>0, <2>1, <2>2, KeptSeen
<1> QED BY <1>0, <1>1, <1>2, ShapeSeen

(* The bytes that were added are those of block b. *)
LEMMA AddedSees ==
    ASSUME BufGiven, OneMistake, ret = want.ret, ret = "true", NEW p, NEW n, NEW b, b # "buf", b # "null",
           WriteGiven(p, n, b), WantsWrite(want, n), WantsBytes(want, n, b),
           ByteBuf!AddedBytesMatch(p, n), ByteBuf!IsValid("buf")
    PROVE  Right(ByteBuf!ByteOf("buf", old.obj.buf.len .. obj.buf.len - 1))
<1> DEFINE o == old.obj.buf
           k == o.len
<1>1. /\ n \in Nat /\ k \in Nat /\ o.capacity \in Nat /\ (o.capacity > 0 => o.buffer = Start("buf"))
      /\ (n > 0 => p = Start(b))
  BY ValidBufIs, BufConstants DEF WriteGiven, Source
<1>2. want.obj.buf.len = k + n /\ want.obj.buf.buffer = o.buffer /\ want.obj.buf.capacity = o.capacity
  BY DEF WantsWrite, SameKind
<1>3. CASE mem = want.mem /\ TypedMemory(want.mem)
  BY <1>3, MemorySeen
<1>4. CASE Idle
  <2>1. obj.buf.len = k
    BY <1>4 DEF Idle
  <2>2. k .. obj.buf.len - 1 = {}
    BY <1>1, <2>1
  <2> QED BY <2>2, BytesSeen
<1>5. CASE OneByte
  <2>1. /\ obj.buf.len = k + n /\ obj.buf.buffer = o.buffer /\ obj.buf.capacity = o.capacity
        /\ TypedMemory(want.mem)
    BY <1>2, <1>5 DEF OneByte
  <2>2. PICK c \in DOMAIN want.mem : \E i \in DOMAIN want.mem[c] : \E v :
            mem = [want.mem EXCEPT ![c] = [want.mem[c] EXCEPT ![i] = v]]
    BY <1>5 DEF OneByte
  <2>3. DOMAIN mem = DOMAIN want.mem /\ \A d \in DOMAIN want.mem \ {c} : mem[d] = want.mem[d]
    BY <2>2
  <2>4. ASSUME NEW i \in k .. obj.buf.len - 1, "buf" \in DOMAIN want.mem, i \in DOMAIN want.mem["buf"]
        PROVE  ByteBuf!HasByte(mem, ByteBuf!Plus(ByteBuf!StartOf("buf"), i), want.mem["buf"][i])
    <3> HIDE DEF o, k
    <3>1. i \in Int /\ i - k \in 0 .. n - 1 /\ n > 0 /\ k + (i - k) = i
      BY <1>1, <2>1
    <3>2. CASE c # "buf"
      <4>1. mem["buf"] = want.mem["buf"] /\ "buf" \in DOMAIN mem
        BY <2>3, <2>4, <3>2
      <4> QED BY <2>4, <3>1, <4>1, HasByteIs, NullIs
    <3>3. CASE c = "buf"
      <4>1. o.buffer = Start("buf") /\ p = Start(b)
        <5>1. obj.buf.len <= obj.buf.capacity
          BY <1>1, <2>1, <3>1 DEF ByteBuf!IsValid, ByteBuf!BufIsValid
        <5> QED BY <1>1, <2>1, <3>1, <5>1
      <4> DEFINE dst == ByteBuf!Plus(Start("buf"), k)
                 src == Start(b)
                 j == i - k
      <4>2. dst = [block |-> "buf", at |-> k] /\ dst # Null /\ src # Null
        <5>1. dst = [block |-> "buf", at |-> k] /\ Null.block = "null" /\ "buf" # "null"
          BY <1>1, PlusIs DEF Null
        <5>2. dst.block = "buf"
          BY <5>1
        <5> QED BY <5>1, <5>2, StartIsNotNull
      <4>3. ByteBuf!AssertBytesMatch(mem, dst, src, n)
        <5>1. obj.buf.len > 0
          BY <1>1, <2>1, <3>1
        <5> QED BY <2>1, <3>1, <4>1, <5>1 DEF ByteBuf!AddedBytesMatch, ByteBuf!BytesMatch, k, o
      <4>4. j \in Int /\ j \in 0 .. n - 1
        BY <3>1
      <4> HIDE DEF dst, src, j
      <4>5. /\ ByteBuf!Readable(mem, ByteBuf!Plus(src, j), 1)
            /\ ByteBuf!HasByte(mem, ByteBuf!Plus(dst, j), ByteBuf!ByteAt(mem, ByteBuf!Plus(src, j)))
        BY <3>1, <4>2, <4>3, <4>4, NullIs DEF ByteBuf!AssertBytesMatch
      <4>6. ByteBuf!Plus(dst, j) = ByteBuf!Plus(Start("buf"), i)
        <5>1. ByteBuf!Plus(dst, j) = [block |-> "buf", at |-> k + j]
          BY <4>2 DEF ByteBuf!Plus
        <5> QED BY <3>1, <5>1, PlusIs DEF j
      <4>7. b \in DOMAIN mem /\ ByteBuf!ByteAt(mem, ByteBuf!Plus(src, j)) = mem[b][j]
        BY <4>4, <4>5, ByteIs, PlusIs DEF src, ByteBuf!Readable
      <4>8. mem[b][j] = want.mem["buf"][i]
        <5>1. mem[b][j] = want.mem[b][j]
          BY <2>3, <3>3, <4>7
        <5>2. want.mem["buf"][k + j] = want.mem[b][j]
          BY <4>4 DEF WantsBytes, k, o
        <5>3. k + j = i
          BY <3>1 DEF j
        <5> QED BY <5>1, <5>2, <5>3
      <4> QED BY <4>5, <4>6, <4>7, <4>8, NullIs
    <3> QED BY <3>2, <3>3
  <2> QED BY <2>4, BytesSeen
<1> QED BY <1>3, <1>4, <1>5 DEF OneMistake, OneField, AnswerOnly

LEMMA IntegersSee ==
    ASSUME BufGiven, Wants(want), OneMistake, ByteBuf!Asserts, ret = want.ret,
           proof \in {"write_be16", "write_be32", "write_be64", "write_u8"}
    PROVE  Right(ByteBuf!Watched)
<1>1. PICK n : WantsWrite(want, n) /\ ByteBuf!Written(n)
  BY DEF Wants, ByteBuf!Asserts, ByteBuf!ByteBufWriteBe16Asserts, ByteBuf!ByteBufWriteBe32Asserts,
     ByteBuf!ByteBufWriteBe64Asserts, ByteBuf!ByteBufWriteU8Asserts
<1>2. ValidBuf(old.obj.buf, old.mem, "buf")
  BY DEF BufGiven, IntegerGiven, OneGiven
<1>3. Right(ByteBuf!Shape("buf")) /\ (ret # "true" => Right(ByteBuf!Prefix("buf")))
  BY <1>1, <1>2, WrittenSees
<1> QED BY <1>3 DEF Right, ByteBuf!Watched

LEMMA WriteSees ==
    ASSUME BufGiven, Wants(want), OneMistake, ByteBuf!Asserts, ret = want.ret,
           proof \in {"write", "write_from_whole_buffer", "write_from_whole_cursor"}
    PROVE  Right(ByteBuf!Watched)
<1>1. PICK p, n, b : /\ WriteGiven(p, n, b) /\ WantsWrite(want, n) /\ WantsBytes(want, n, b) /\ ByteBuf!Written(n)
                     /\ ByteBuf!AddedBytesMatch(p, n) /\ ByteBuf!IsValid("buf") /\ b # "buf" /\ b # "null"
  <2>1. "array" # "buf" /\ "array" # "null" /\ "src" # "buf" /\ "src" # "null"
    OBVIOUS
  <2>2. CASE proof = "write"
    BY <2>1, <2>2 DEF BufGiven, Wants, ByteBuf!Asserts, ByteBuf!ByteBufWriteAsserts
  <2>3. CASE proof # "write"
    BY <2>1, <2>3 DEF BufGiven, Wants, ByteBuf!Asserts, ByteBuf!ByteBufWriteFromWholeBufferAsserts,
       ByteBuf!ByteBufWriteFromWholeCursorAsserts
  <2> QED BY <2>2, <2>3
<1>2. ValidBuf(old.obj.buf, old.mem, "buf")
  BY <1>1 DEF WriteGiven
<1>3. Right(ByteBuf!Shape("buf")) /\ (ret # "true" => Right(ByteBuf!Prefix("buf")))
  BY <1>1, <1>2, WrittenSees
<1>4. ret = "true" => Right(ByteBuf!ByteOf("buf", old.obj.buf.len .. obj.buf.len - 1))
  BY <1>1, AddedSees
<1> QED BY <1>3, <1>4 DEF Right, ByteBuf!Watched

LEMMA WriteStringSees ==
    ASSUME BufGiven, Wants(want), OneMistake, ByteBuf!Asserts, ret = want.ret, proof = "write_from_whole_string"
    PROVE  Right(ByteBuf!Watched)
<1>0. "buf" # "ret"
  OBVIOUS
<1>1. /\ WantsWrite(want, arg.str.len) /\ (ret = "true" => arg.given = TRUE /\ arg.str.bytes # ByteBuf!Null)
      /\ ByteBuf!ByteBufWriteFromWholeStringAsserts
  BY DEF Wants, ByteBuf!Asserts
<1>2. obj["buf"].len = want.obj["buf"].len /\ obj["buf"].capacity = want.obj["buf"].capacity
      /\ obj["buf"].allocator = want.obj["buf"].allocator
  <2>1. CASE ret = "true"
    BY <1>1, <2>1 DEF WantsWrite, SameKind, ByteBuf!ByteBufWriteFromWholeStringAsserts, ByteBuf!SameFields
  <2>2. CASE ret # "true"
    BY <1>1, <2>2 DEF WantsWrite, SameKind, ByteBuf!ByteBufWriteFromWholeStringAsserts, ByteBuf!BufSame,
       ByteBuf!AssertByteBufEquivalence
  <2> QED BY <2>1, <2>2
<1>3. Right(ByteBuf!Shape("buf"))
  BY <1>0, <1>2, ShapeSeen
<1> QED BY <1>3 DEF ByteBuf!Watched

LEMMA AllSee ==
    ASSUME BufGiven, Wants(want), OneMistake, ByteBuf!Asserts PROVE Right(ByteBuf!Watched)
<1>1. CASE proof \in {"cat", "eq", "eq_ignore_case", "eq_c_str", "eq_c_str_ignore_case"}
  BY <1>1, CatSees, EqSees, EqStrSees
<1>2. CASE proof \notin {"cat", "eq", "eq_ignore_case", "eq_c_str", "eq_c_str_ignore_case"} /\ AnswerOnly
  BY <1>2, AnswerUnseen
<1>3. CASE proof \notin {"cat", "eq", "eq_ignore_case", "eq_c_str", "eq_c_str_ignore_case"} /\ ~AnswerOnly
  <2>1. ret = want.ret
    BY <1>3 DEF OneMistake, Idle, OneField, OneByte
  <2>2. CASE proof \in {"reserve", "reserve_relative"}
    BY <2>2 DEF ByteBuf!Watched, Right
  <2>3. CASE proof \in {"write", "write_be16", "write_be32", "write_be64", "write_u8", "write_from_whole_buffer",
                        "write_from_whole_cursor", "write_from_whole_string"}
    BY <2>1, <2>3, IntegersSee, WriteSees, WriteStringSees
  <2>4. CASE proof \notin {"reserve", "reserve_relative", "write", "write_be16", "write_be32", "write_be64", "write_u8",
                           "write_from_whole_buffer", "write_from_whole_cursor", "write_from_whole_string"}
    <3>1. proof \in BufProofs
      BY DEF BufGiven
    <3> QED BY <1>3, <2>1, <2>4, <3>1, AdvanceSees, AppendSees, MeasuresSeen, InitCopySees, ResetSees DEF BufProofs
  <2> QED BY <2>2, <2>3, <2>4
<1> QED BY <1>1, <1>2, <1>3

-----------------------------------------------------------------------------
(* The invariant of results with at most one mistake. *)

(* A call of a correct library, and at most one mistake. *)
FaultInv ==
    /\ pc \in {"setup", "call"} => faults = 0
    /\ pc \in {"check", "passed", "failed"} /\ faults <= 1 => Wants(want) /\ OneMistake
    /\ pc \in {"check", "passed", "failed"} /\ faults = 0 => obj = want.obj /\ mem = want.mem /\ ret = want.ret
    /\ pc = "passed" => ByteBuf!Asserts

LEMMA WantsKept == ASSUME UNCHANGED <<proof, arg, old>>, Wants(want') PROVE Wants(want)'
BY DEF Wants, WantsAdvance, WantsAppend, WantsCat, WantsEq, WantsEqStr, WantsCopy, WantsReset, WantsWrite, WantsBytes,
   IsStruct, SameKind, Measures, Total, SameBytesBefore, Unchanged

LEMMA MistakeKept == ASSUME UNCHANGED <<obj, mem, old, ret, want>>, OneMistake PROVE OneMistake'
BY DEF OneMistake, Idle, OneField, OneByte, AnswerOnly

LEMMA FaultInvKept ==
    ASSUME UNCHANGED <<proof, obj, mem, arg, old, ret, want, faults>>, FaultInv, pc \in {"check", "passed", "failed"},
           pc' \in {"check", "passed", "failed"}, pc' = "passed" => ByteBuf!Asserts
    PROVE  FaultInv'
<1>1. Wants(want) => Wants(want)'
  BY WantsKept
<1>2. OneMistake => OneMistake'
  BY MistakeKept
<1>3. ByteBuf!Asserts' = ByteBuf!Asserts
  BY AssertsKept
<1> QED BY <1>1, <1>2, <1>3 DEF FaultInv

LEMMA FaultInvStep == ASSUME BufInv, BufInv', FaultInv, ByteBuf!Next PROVE FaultInv'
<1>0. faults \in Nat
  BY BufConstants DEF BufInv
<1>1. CASE ByteBuf!Setup
  <2>1. pc' = "call" /\ faults' = faults /\ pc = "setup"
    BY <1>1, BufSetupReaches DEF ByteBuf!Setup
  <2> QED BY <2>1 DEF FaultInv
<1>2. CASE ByteBuf!Call(ByteBuf!Outcomes) \/ ByteBuf!SkippedCall(ByteBuf!Outcomes)
  <2>1. pc = "call" /\ pc' = "check" /\ UNCHANGED <<proof, arg, old>> /\ want' \in ByteBuf!Outcomes
    BY <1>2 DEF ByteBuf!Call, ByteBuf!SkippedCall
  <2>2. BufGiven /\ Fresh /\ faults = 0
    BY <2>1 DEF BufInv, FaultInv, Fresh
  <2>3. Wants(want)'
    BY <2>1, <2>2, OutcomesWanted, WantsKept
  <2>4. CASE ByteBuf!Call(ByteBuf!Outcomes)
    <3>1. faults' = 0 /\ obj' = want'.obj /\ mem' = want'.mem /\ ret' = want'.ret
      BY <2>2, <2>4 DEF ByteBuf!Call
    <3>2. TypedMemory(mem')
      BY <2>1, <3>1 DEF BufInv, BufRight, TypedMemory, Typed
    <3>3. OneMistake'
      BY <3>1, <3>2 DEF OneMistake, AnswerOnly, TypedMemory, Typed
    <3> QED BY <2>1, <2>3, <3>1, <3>3 DEF FaultInv
  <2>5. CASE ByteBuf!SkippedCall(ByteBuf!Outcomes)
    <3>1. faults' = 1 /\ obj' = old'.obj /\ mem' = old'.mem /\ ret' = want'.ret
      BY <2>1, <2>2, <2>5 DEF ByteBuf!SkippedCall, Fresh
    <3>2. OneMistake'
      BY <3>1 DEF OneMistake, Idle
    <3> QED BY <2>1, <2>3, <3>1, <3>2 DEF FaultInv
  <2> QED BY <1>2, <2>4, <2>5
<1>3. CASE ByteBuf!Fault
  <2>1. pc = "check" /\ pc' = "check" /\ faults' = faults + 1 /\ UNCHANGED <<proof, arg, old, want>>
    BY <1>3 DEF ByteBuf!Fault, ByteBuf!StrayField, ByteBuf!StrayByte, ByteBuf!WrongReturn, ByteBuf!Goes
  <2>2. CASE faults = 0
    <3>1. Wants(want) /\ obj = want.obj /\ mem = want.mem /\ ret = want.ret /\ TypedMemory(want.mem)
      BY <2>1, <2>2 DEF FaultInv, BufInv, BufRight
    <3>2. Wants(want)'
      BY <2>1, <3>1, WantsKept
    <3>3. want' = want /\ TypedMemory(want'.mem)
      BY <2>1, <3>1
    <3>4. ASSUME \E x \in DOMAIN obj : \E f \in DOMAIN obj[x] : ByteBuf!StrayField(x, f)
          PROVE  OneMistake'
      <4>1. PICK x \in DOMAIN obj : \E f \in DOMAIN obj[x] : ByteBuf!StrayField(x, f)
        BY <3>4
      <4>2. PICK f \in DOMAIN obj[x] : ByteBuf!StrayField(x, f)
        BY <4>1
      <4> DEFINE Stray(o, v) == [o EXCEPT ![x] = [o[x] EXCEPT ![f] = v]]
      <4>3. mem' = mem /\ ret' = ret /\ \E v : obj' = Stray(obj, v)
        BY <4>2 DEF ByteBuf!StrayField, ByteBuf!Goes
      <4> HIDE DEF Stray
      <4>4. obj = want'.obj /\ \E v : obj' = Stray(want'.obj, v)
        BY <3>1, <3>3, <4>3
      <4>5. x \in DOMAIN want'.obj /\ f \in DOMAIN want'.obj[x]
        BY <4>4
      <4>6. \E y \in DOMAIN want'.obj : \E g \in DOMAIN want'.obj[y] : \E v :
                obj' = [want'.obj EXCEPT ![y] = [want'.obj[y] EXCEPT ![g] = v]]
        BY <4>4, <4>5 DEF Stray
      <4>7. OneField'
        BY <3>1, <3>3, <4>3, <4>6 DEF OneField, TypedMemory, Typed
      <4> QED BY <4>7 DEF OneMistake
    <3>5. ASSUME \E b \in DOMAIN mem : \E i \in DOMAIN mem[b] : ByteBuf!StrayByte(b, i)
          PROVE  OneMistake'
      <4>1. PICK b \in DOMAIN mem : \E i \in DOMAIN mem[b] : ByteBuf!StrayByte(b, i)
        BY <3>5
      <4>2. PICK i \in DOMAIN mem[b] : ByteBuf!StrayByte(b, i)
        BY <4>1
      <4> DEFINE Stray(m, v) == [m EXCEPT ![b] = [m[b] EXCEPT ![i] = v]]
      <4>3. obj' = obj /\ ret' = ret /\ \E v : mem' = Stray(mem, v)
        BY <4>2 DEF ByteBuf!StrayByte, ByteBuf!Goes
      <4> HIDE DEF Stray
      <4>4. mem = want'.mem /\ \E v : mem' = Stray(want'.mem, v)
        BY <3>1, <3>3, <4>3
      <4>5. b \in DOMAIN want'.mem /\ i \in DOMAIN want'.mem[b]
        BY <4>4
      <4>6. \E c \in DOMAIN want'.mem : \E j \in DOMAIN want'.mem[c] : \E v :
                mem' = [want'.mem EXCEPT ![c] = [want'.mem[c] EXCEPT ![j] = v]]
        BY <4>4, <4>5 DEF Stray
      <4>7. OneByte'
        BY <3>1, <3>3, <4>3, <4>6 DEF OneByte, TypedMemory, Typed
      <4> QED BY <4>7 DEF OneMistake
    <3>6. ASSUME ByteBuf!WrongReturn PROVE OneMistake'
      <4>1. obj' = obj /\ mem' = mem /\ ret' \in ByteBuf!Opposite(ret)
        BY <3>6 DEF ByteBuf!WrongReturn, ByteBuf!Goes
      <4>2. AnswerOnly'
        BY <3>1, <3>3, <4>1 DEF AnswerOnly, TypedMemory, Typed, ByteBuf!Opposite
      <4> QED BY <4>2 DEF OneMistake
    <3>7. OneMistake'
      BY <1>3, <3>4, <3>5, <3>6 DEF ByteBuf!Fault
    <3> QED BY <2>1, <2>2, <3>2, <3>7 DEF FaultInv
  <2>3. CASE faults # 0
    BY <1>0, <2>1, <2>3 DEF FaultInv
  <2> QED BY <2>2, <2>3
<1>4. CASE ByteBuf!Check(ByteBuf!Asserts)
  <2>1. /\ pc = "check" /\ pc' \in {"passed", "failed"} /\ (pc' = "passed" => ByteBuf!Asserts)
        /\ UNCHANGED <<proof, obj, mem, arg, old, ret, want, faults>>
    BY <1>4 DEF ByteBuf!Check
  <2> QED BY <2>1, FaultInvKept
<1> QED BY <1>1, <1>2, <1>3, <1>4 DEF ByteBuf!Next

LEMMA BufPassedIsCorrect == BufInv /\ FaultInv /\ faults <= 1 => ByteBuf!PassedMeansCorrect
BY AllSee DEF BufInv, FaultInv, Right, ByteBuf!PassedMeansCorrect

-----------------------------------------------------------------------------
(* What the second generation passes the first one passes too (FirstPassesToo). *)

Appends == {"append", "append_dynamic", "append_with_lookup"}

(* What is not modified matches what was saved of it. *)
LEMMA UnmodifiedMatches ==
    ASSUME NEW p, NEW n \in Nat, n > 0, NEW b, b # "null", Source(p, n, old.mem, b), ~ByteBuf!BytesModified(p)
    PROVE  ByteBuf!AllMatch(mem, p, ByteBuf!SaveByteFromArray(old.mem, p, n))
<1>1. PICK k \in Nat : p = Start(b) /\ b \in DOMAIN old.mem /\ k >= n /\ old.mem[b] \in ByteBlock(Byte, k)
  BY DEF Source
<1>2. p.block = b
  BY <1>1 DEF Start
<1>3. b \in DOMAIN mem /\ mem[b] = old.mem[b]
  BY <1>1, <1>2 DEF ByteBuf!BytesModified
<1>4. \A i \in 0 .. n - 1 : i \in DOMAIN mem[b]
  BY <1>1, <1>3 DEF ByteBlock
<1> QED BY <1>1, <1>3, <1>4, SavedMatches

LEMMA UntouchedIsSame ==
    ASSUME NEW x, NEW b, b # "null", ValidBuf(old.obj[x], old.mem, b), ByteBuf!Untouched(x)
    PROVE  ByteBuf!IsValid(x) /\ ByteBuf!BufSame(x)
<1>1. obj[x] = old.obj[x] /\ ~ByteBuf!BytesModified(old.obj[x].buffer)
  BY DEF ByteBuf!Untouched, ByteBuf!Modified
<1>2. old.obj[x].len \in Nat /\ Source(old.obj[x].buffer, old.obj[x].len, old.mem, b)
  BY BufSource
<1>3. old.obj[x].len > 0 => ByteBuf!AllMatch(mem, old.obj[x].buffer, ByteBuf!SavedBuf(x))
  BY <1>1, <1>2, UnmodifiedMatches DEF ByteBuf!SavedBuf
<1> QED BY <1>1, <1>3, ValidIsValid DEF ByteBuf!IsValid, ByteBuf!BufSame, ByteBuf!AssertByteBufEquivalence

Writes ==
    {"write", "write_be16", "write_be32", "write_be64", "write_u8", "write_from_whole_buffer",
     "write_from_whole_cursor", "write_from_whole_string"}

(* What the second generation does not look at is as it was. *)
KindKept ==
    /\ proof \in Writes \cup {"advance"} => obj.buf.allocator = old.obj.buf.allocator
    /\ proof = "advance" => obj.buf.buffer = old.obj.buf.buffer
    /\ proof \in Appends => obj.to.allocator = old.obj.to.allocator

LEMMA WritesAgree ==
    ASSUME NEW n, ValidBuf(old.obj.buf, old.mem, "buf"), obj.buf.allocator = old.obj.buf.allocator,
           ByteBuf!WrittenOrUntouched(n)
    PROVE  ByteBuf!Written(n) /\ ByteBuf!IsValid("buf")
<1>1. CASE ret = "true"
  BY <1>1 DEF ByteBuf!WrittenOrUntouched, ByteBuf!Written, ByteBuf!SameFields
<1>2. CASE ret # "true"
  <2>1. "buf" # "null" /\ ByteBuf!Untouched("buf") /\ ByteBuf!IsValid("buf")
    BY <1>2 DEF ByteBuf!WrittenOrUntouched
  <2>2. ValidBuf(old.obj["buf"], old.mem, "buf")
    OBVIOUS
  <2> QED BY <1>2, <2>1, <2>2, UntouchedIsSame DEF ByteBuf!Written
<1> QED BY <1>1, <1>2

LEMMA FirstWrites ==
    ASSUME BufGiven, KindKept, ByteBuf!Asserts2, proof \in Writes PROVE ByteBuf!Asserts
<1>1. obj.buf.allocator = old.obj.buf.allocator
  BY DEF KindKept
<1>2. ValidBuf(old.obj.buf, old.mem, "buf")
  BY DEF BufGiven, WriteGiven, IntegerGiven, OneGiven, Writes
<1>3. \A n : ByteBuf!WrittenOrUntouched(n) => ByteBuf!Written(n) /\ ByteBuf!IsValid("buf")
  BY <1>1, <1>2, WritesAgree
<1>4. CASE proof \in {"write", "write_be16", "write_be32", "write_be64", "write_u8"}
  BY <1>3, <1>4 DEF ByteBuf!Asserts, ByteBuf!Asserts2, ByteBuf!ByteBufWriteAsserts, ByteBuf!ByteBufWrite2Asserts,
     ByteBuf!ByteBufWriteBe16Asserts, ByteBuf!ByteBufWriteBe162Asserts, ByteBuf!ByteBufWriteBe32Asserts,
     ByteBuf!ByteBufWriteBe322Asserts, ByteBuf!ByteBufWriteBe64Asserts, ByteBuf!ByteBufWriteBe642Asserts,
     ByteBuf!ByteBufWriteU8Asserts, ByteBuf!ByteBufWriteU82Asserts
<1>5. CASE proof \in {"write_from_whole_buffer", "write_from_whole_cursor"}
  <2>1. ByteBuf!FromWhole(arg.src) /\ (proof = "write_from_whole_cursor" => ByteBuf!CursorIsValid(arg.src))
    BY <1>5 DEF ByteBuf!Asserts2, ByteBuf!ByteBufWriteFromWholeBuffer2Asserts,
       ByteBuf!ByteBufWriteFromWholeCursor2Asserts
  <2>2. arg.src.len > 0 => ByteBuf!AllMatch(mem, arg.src.ptr, ByteBuf!SavedArg(arg.src))
    <3>1. arg.src.len \in Nat /\ Source(arg.src.ptr, arg.src.len, old.mem, "src") /\ "src" # "null"
      BY <1>5 DEF BufGiven, WriteGiven
    <3> QED BY <2>1, <3>1, UnmodifiedMatches DEF ByteBuf!FromWhole, ByteBuf!SavedArg
  <2>3. ByteBuf!Written(arg.src.len) /\ ByteBuf!AddedBytesMatch(arg.src.ptr, arg.src.len) /\ ByteBuf!IsValid("buf")
    BY <1>3, <2>1 DEF ByteBuf!FromWhole
  <2> QED BY <1>5, <2>1, <2>2, <2>3 DEF ByteBuf!Asserts, ByteBuf!ByteBufWriteFromWholeBufferAsserts,
          ByteBuf!ByteBufWriteFromWholeCursorAsserts, ByteBuf!AssertByteCursorEquivalence
<1>6. CASE proof = "write_from_whole_string"
  <2>1. ByteBuf!ByteBufWriteFromWholeString2Asserts
    BY <1>6 DEF ByteBuf!Asserts2
  <2>2. CASE ret = "true" /\ arg.str.bytes # ByteBuf!Null
    BY <1>1, <1>6, <2>1, <2>2 DEF ByteBuf!Asserts, ByteBuf!ByteBufWriteFromWholeStringAsserts,
       ByteBuf!ByteBufWriteFromWholeString2Asserts, ByteBuf!SameFields
  <2>3. CASE ~(ret = "true" /\ arg.str.bytes # ByteBuf!Null)
    <3>1. ByteBuf!Untouched("buf") /\ ByteBuf!IsValid("buf") /\ "buf" # "null"
      BY <2>1, <2>3 DEF ByteBuf!ByteBufWriteFromWholeString2Asserts
    <3>2. ValidBuf(old.obj["buf"], old.mem, "buf")
      BY <1>2
    <3>3. ByteBuf!BufSame("buf")
      BY <3>1, <3>2, UntouchedIsSame
    <3> QED BY <1>6, <2>3, <3>1, <3>3 DEF ByteBuf!Asserts, ByteBuf!ByteBufWriteFromWholeStringAsserts
  <2> QED BY <2>2, <2>3
<1> QED BY <1>4, <1>5, <1>6 DEF Writes

LEMMA FirstAdvance ==
    ASSUME BufGiven, KindKept, ByteBuf!Asserts2, proof = "advance" PROVE ByteBuf!Asserts
<1>1. obj.buf.allocator = old.obj.buf.allocator /\ obj.buf.buffer = old.obj.buf.buffer
  BY DEF KindKept
<1>2. ValidBuf(old.obj["buf"], old.mem, "buf") /\ "buf" # "null" /\ ByteBuf!ByteBufAdvance2Asserts
  BY DEF BufGiven, AdvanceGiven, ByteBuf!Asserts2
<1>3. CASE ret = "true"
  <2>1. old.obj["buf"].len \in Nat /\ Source(old.obj["buf"].buffer, old.obj["buf"].len, old.mem, "buf")
    BY <1>2, BufSource
  <2>2. old.obj.buf.len > 0 => ByteBuf!AllMatch(mem, obj.buf.buffer, ByteBuf!SavedBuf("buf"))
    BY <1>1, <1>2, <1>3, <2>1, UnmodifiedMatches DEF ByteBuf!ByteBufAdvance2Asserts, ByteBuf!SavedBuf
  <2> QED BY <1>1, <1>2, <1>3, <2>2 DEF ByteBuf!Asserts, ByteBuf!ByteBufAdvanceAsserts,
          ByteBuf!ByteBufAdvance2Asserts, ByteBuf!SameFields
<1>4. CASE ret # "true"
  <2>1. ByteBuf!BufSame("buf")
    BY <1>2, <1>4, UntouchedIsSame DEF ByteBuf!ByteBufAdvance2Asserts
  <2> QED BY <1>2, <1>4, <2>1 DEF ByteBuf!Asserts, ByteBuf!ByteBufAdvanceAsserts, ByteBuf!ByteBufAdvance2Asserts
<1> QED BY <1>3, <1>4

LEMMA FirstComparisons ==
    ASSUME BufGiven, ByteBuf!Asserts2, proof \in {"cat", "eq", "eq_ignore_case", "eq_c_str", "eq_c_str_ignore_case"}
    PROVE  ByteBuf!Asserts
<1>1. CASE proof = "cat"
  <2>1. ByteBuf!ByteBufCat2Asserts /\ CatGiven
    BY <1>1 DEF ByteBuf!Asserts2, BufGiven
  <2>2. ASSUME NEW x \in {"buffer1", "buffer2", "buffer3"} PROVE ByteBuf!BufSame(x)
    <3>1. ValidBuf(old.obj[x], old.mem, x) /\ x # "null" /\ ByteBuf!Untouched(x)
      BY <2>1 DEF CatGiven, ByteBuf!ByteBufCat2Asserts
    <3> QED BY <3>1, UntouchedIsSame
  <2> QED BY <1>1, <2>1, <2>2 DEF ByteBuf!Asserts, ByteBuf!ByteBufCatAsserts, ByteBuf!ByteBufCat2Asserts
<1>2. CASE proof \in {"eq", "eq_ignore_case"}
  <2>1. ASSUME NEW x \in {"lhs", "rhs"} PROVE ByteBuf!IsValid(x) /\ ByteBuf!BufSame(x)
    <3>1. ByteBuf!Untouched(x)
      BY <1>2 DEF ByteBuf!Asserts2, ByteBuf!ByteBufEq2Asserts, ByteBuf!ByteBufEqIgnoreCase2Asserts
    <3>2. "lhs" # "null" /\ "rhs" # "null" /\ (ValidBuf(old.obj[x], old.mem, "lhs") \/ ValidBuf(old.obj[x], old.mem, "rhs"))
      BY <1>2 DEF BufGiven, LhsRhsGiven
    <3> QED BY <3>1, <3>2, UntouchedIsSame
  <2>2. ByteBuf!BothSame
    BY <2>1 DEF ByteBuf!BothSame
  <2> QED BY <1>2, <2>2 DEF ByteBuf!Asserts, ByteBuf!Asserts2, ByteBuf!ByteBufEqAsserts, ByteBuf!ByteBufEq2Asserts,
          ByteBuf!ByteBufEqIgnoreCaseAsserts, ByteBuf!ByteBufEqIgnoreCase2Asserts
<1>3. CASE proof \in {"eq_c_str", "eq_c_str_ignore_case"}
  <2>1. ByteBuf!Untouched("buf") /\ ~ByteBuf!BytesModified(arg.c_str)
    BY <1>3 DEF ByteBuf!Asserts2, ByteBuf!ByteBufEqCStr2Asserts, ByteBuf!ByteBufEqCStrIgnoreCase2Asserts
  <2>2. /\ ValidBuf(old.obj["buf"], old.mem, "buf") /\ "buf" # "null" /\ "c_str" # "null"
        /\ arg.len \in Nat /\ Source(arg.c_str, arg.len, old.mem, "c_str")
    BY <1>3, BufConstants DEF BufGiven, StrGiven
  <2>3. ByteBuf!IsValid("buf") /\ ByteBuf!BufSame("buf")
    BY <2>1, <2>2, UntouchedIsSame
  <2>4. ByteBuf!StrSame
    BY <2>1, <2>2, UnmodifiedMatches DEF ByteBuf!StrSame, ByteBuf!SavedStr
  <2> QED BY <1>3, <2>3, <2>4 DEF ByteBuf!Asserts, ByteBuf!Asserts2, ByteBuf!ByteBufEqCStrAsserts,
          ByteBuf!ByteBufEqCStr2Asserts, ByteBuf!ByteBufEqCStrIgnoreCaseAsserts, ByteBuf!ByteBufEqCStrIgnoreCase2Asserts
<1> QED BY <1>1, <1>2, <1>3

LEMMA FirstInitCopy ==
    ASSUME BufGiven, ByteBuf!Asserts2, proof = "init_copy" PROVE ByteBuf!Asserts
<1>1. ByteBuf!ByteBufInitCopy2Asserts /\ ValidBuf(old.obj["src"], old.mem, "src") /\ "src" # "null"
  BY DEF ByteBuf!Asserts2, BufGiven, CopyGiven
<1>2. ASSUME ret = "success", obj.src.len > 0 PROVE ByteBuf!AllMatch(mem, obj.src.buffer, ByteBuf!SavedBuf("src"))
  <2>1. ByteBuf!Untouched("src")
    BY <1>1, <1>2 DEF ByteBuf!ByteBufInitCopy2Asserts
  <2>2. ByteBuf!BufSame("src")
    BY <1>1, <2>1, UntouchedIsSame
  <2> QED BY <1>2, <2>2 DEF ByteBuf!BufSame, ByteBuf!AssertByteBufEquivalence
<1> QED BY <1>1, <1>2 DEF ByteBuf!Asserts, ByteBuf!ByteBufInitCopyAsserts, ByteBuf!ByteBufInitCopy2Asserts

LEMMA FirstAppends ==
    ASSUME BufGiven, KindKept, ByteBuf!Asserts2, proof \in Appends PROVE ByteBuf!Asserts
<1>1. /\ ByteBuf!AppendedOrUntouched /\ obj.to.allocator = old.obj.to.allocator
      /\ (proof # "append_dynamic" => ByteBuf!SameFields("to", {"capacity"}))
  BY DEF Appends, KindKept, ByteBuf!Asserts2, ByteBuf!ByteBufAppend2Asserts, ByteBuf!ByteBufAppendDynamic2Asserts,
     ByteBuf!ByteBufAppendWithLookup2Asserts
<1>2. ValidBuf(old.obj["to"], old.mem, "to") /\ "to" # "null"
  BY DEF BufGiven, AppendGiven, LookupGiven, Appends
<1>3. ByteBuf!AppendedOrNot
  <2>1. CASE ret = "success"
    BY <1>1, <2>1 DEF ByteBuf!AppendedOrNot, ByteBuf!AppendedOrUntouched
  <2>2. CASE ret # "success"
    <3> DEFINE p == old.obj["to"].buffer
               n == old.obj["to"].len
    <3>1. obj["to"] = old.obj["to"] /\ ~ByteBuf!BytesModified(p)
      BY <1>1, <2>2 DEF ByteBuf!AppendedOrUntouched, ByteBuf!Untouched, ByteBuf!Modified
    <3>2. n \in Nat /\ Source(p, n, old.mem, "to")
      BY <1>2, BufSource
    <3>3. ByteBuf!BytesMatch(p, p, n)
      <4>1. n > 0 => /\ p = Start("to") /\ p.block = "to" /\ "to" \in DOMAIN old.mem
                     /\ \E k \in Nat : k >= n /\ old.mem["to"] \in ByteBlock(Byte, k)
        BY <3>2 DEF Source, Start
      <4> HIDE DEF p, n
      <4>2. n > 0 => "to" \in DOMAIN mem /\ mem["to"] = old.mem["to"]
        BY <3>1, <4>1 DEF ByteBuf!BytesModified
      <4>3. Source(p, n, mem, "to")
        BY <3>2, <4>1, <4>2 DEF Source
      <4> QED BY <1>2, <3>2, <4>3, SourceMatchesItself DEF ByteBuf!BytesMatch
    <3> QED BY <2>2, <3>1, <3>3 DEF ByteBuf!AppendedOrNot, ByteBuf!SameFields
  <2> QED BY <2>1, <2>2
<1>4. ByteBuf!IsValid("to") /\ ByteBuf!CursorIsValid(arg.from)
  BY <1>1 DEF ByteBuf!AppendedOrUntouched
<1> QED BY <1>1, <1>3, <1>4 DEF Appends, ByteBuf!Asserts, ByteBuf!ByteBufAppendAsserts,
        ByteBuf!ByteBufAppendDynamicAsserts, ByteBuf!ByteBufAppendWithLookupAsserts, ByteBuf!SameFields

(* A field that the second generation does not look at is all that is wrong. *)
LEMMA OnlyKindIsWrong ==
    ASSUME Wants(want), OneMistake, ~KindKept
    PROVE  ByteBuf!Differences \subseteq
               ByteBuf!Field("buf", {"allocator"}) \cup ByteBuf!Field("to", {"allocator"})
               \cup (IF proof = "advance" THEN ByteBuf!Field("buf", {"buffer"}) ELSE {})
<1>1. /\ proof \in Writes \cup {"advance"} =>
             want.obj.buf.allocator = old.obj.buf.allocator /\ IsStruct(want, "buf")
      /\ proof = "advance" => want.obj.buf.buffer = old.obj.buf.buffer
      /\ proof \in Appends => want.obj.to.allocator = old.obj.to.allocator /\ IsStruct(want, "to")
  BY DEF Wants, Writes, Appends, WantsAdvance, WantsAppend, WantsWrite, SameKind
<1>2. OneField
  BY <1>1 DEF OneMistake, Idle, OneByte, AnswerOnly, KindKept
<1>3. PICK x \in DOMAIN want.obj : \E f \in DOMAIN want.obj[x] : \E v :
          obj = [want.obj EXCEPT ![x] = [want.obj[x] EXCEPT ![f] = v]]
  BY <1>2 DEF OneField
<1>4. PICK f \in DOMAIN want.obj[x] : \E v : obj = [want.obj EXCEPT ![x] = [want.obj[x] EXCEPT ![f] = v]]
  BY <1>3
<1>5. \A y, g : y \in DOMAIN obj /\ g \in DOMAIN obj[y] /\ obj[y][g] # want.obj[y][g] => y = x /\ g = f
  BY <1>4
<1>6. \A y, g : y \in DOMAIN want.obj /\ g \in DOMAIN want.obj[y] /\ obj[y][g] # want.obj[y][g] => y = x /\ g = f
  BY <1>4
<1>7. <<x, f>> \in ByteBuf!Field("buf", {"allocator"}) \cup ByteBuf!Field("to", {"allocator"})
                   \cup (IF proof = "advance" THEN ByteBuf!Field("buf", {"buffer"}) ELSE {})
  <2>1. \/ x = "buf" /\ f = "allocator"
        \/ x = "buf" /\ f = "buffer" /\ proof = "advance"
        \/ x = "to" /\ f = "allocator"
    BY <1>1, <1>6 DEF KindKept, IsStruct
  <2> QED BY <2>1 DEF ByteBuf!Field
<1>8. ASSUME NEW d \in ByteBuf!Differences PROVE d = <<x, f>>
  <2>1. CASE \E y \in DOMAIN obj \cap DOMAIN want.obj : \E g \in DOMAIN obj[y] :
                 d = <<y, g>> /\ obj[y][g] # want.obj[y][g]
    BY <1>5, <2>1
  <2>2. ASSUME NEW b \in DOMAIN want.mem, NEW i \in DOMAIN want.mem[b]
        PROVE  ByteBuf!HasByte(mem, ByteBuf!Plus(ByteBuf!StartOf(b), i), want.mem[b][i])
    <3>1. mem = want.mem /\ i \in Int
      BY <1>2, <2>2 DEF OneField, TypedMemory, Typed, ByteBlock
    <3> QED BY <3>1, HasByteIs, NullIs
  <2>3. ret = want.ret
    BY <1>2 DEF OneField
  <2> QED BY <2>1, <2>2, <2>3, DifferenceIs
<1> QED BY <1>7, <1>8

LEMMA BufFirstPassesToo == BufInv /\ FaultInv /\ faults <= 1 => ByteBuf!FirstPassesToo
<1> SUFFICES ASSUME BufInv, FaultInv, faults <= 1, ByteBuf!SecondRuns, ByteBuf!Asserts2, ~ByteBuf!Asserts
             PROVE  ByteBuf!Differences \subseteq
                        ByteBuf!Field("buf", {"allocator"}) \cup ByteBuf!Field("to", {"allocator"})
                        \cup (IF proof = "advance" THEN ByteBuf!Field("buf", {"buffer"}) ELSE {})
  BY DEF ByteBuf!FirstPassesToo
<1>1. BufGiven /\ Wants(want) /\ OneMistake /\ proof \in ByteBuf!SecondGeneration
  BY DEF BufInv, FaultInv, ByteBuf!SecondRuns, ByteBuf!Judged
<1>2. ~KindKept
  BY <1>1, FirstWrites, FirstAdvance, FirstComparisons, FirstInitCopy, FirstAppends
     DEF ByteBuf!SecondGeneration, Writes, Appends
<1> QED BY <1>1, <1>2, OnlyKindIsWrong
=============================================================================
