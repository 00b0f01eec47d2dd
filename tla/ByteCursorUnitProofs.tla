------------------------ MODULE ByteCursorUnitProofs ------------------------
(***************************************************************************)
(* The byte_cursor_* unit proofs of seahorn/jobs.  Each has a Setup, up to  *)
(* its call, and Asserts, what it asserts after it; what the library's      *)
(* function does is an operator without either suffix.                     *)
(***************************************************************************)
EXTENDS ByteBufHelper

CONSTANTS
    Width,            \* of the integers, in bytes: [be16, be32, be64]
    DestSize          \* read_u8: the largest block read to

CursorsAreShort == MaxBufferSize < SizeMax \div 2

(* The cursors are valid and, if they have any, their bytes are unchanged.  *)
CursorOf(x) == CursorIsValid(obj[x])
SavedCursor(x) == SaveByteFromArray(old.mem, old.obj[x].ptr, old.obj[x].len)
BytesKept(x) == CursorOf(x) /\ (obj[x].len # 0 => AllMatch(mem, obj[x].ptr, SavedCursor(x)))
StrKept ==
    arg.len > 0 => AllMatch(mem, arg.c_str, SaveByteFromArray(old.mem, arg.c_str, arg.len))

Answered(yes, fact) == ret = yes => fact
BytesOfEachMatch(x, y) ==
    /\ obj[x].len = obj[y].len
    /\ obj[x].len > 0 => BytesMatch(obj[x].ptr, obj[y].ptr, obj[x].len)

-----------------------------------------------------------------------------
(* The library. *)

(* What is left of cursor c behind its first n bytes. *)
Behind(c, n) == Cursor(Plus(c.ptr, n), c.len - n)

CanAdvance(c, n) == n <= c.len /\ n <= SHalf /\ c.len <= SHalf

Advance ==
    IF CanAdvance(obj.cursor, arg.len)
    THEN {Does([cursor |-> Behind(obj.cursor, arg.len), rv |-> Cursor(obj.cursor.ptr, arg.len)], mem, "none")}
    ELSE {Does([obj EXCEPT !.rv = ZeroCursor], mem, "none")}

(* The function that the unit proofs of advance_nospec and of the reads are  *)
(* linked with.  The mask is 0 if the bound is not a size that signed       *)
(* arithmetic can compare.                                                 *)
Mask(index, bound) == index < bound /\ bound <= SHalf /\ index <= SHalf

AdvanceNospec_NoCheck(c, n) == [cursor |-> Behind(c, n), rv |-> Cursor(c.ptr, n)]

AdvanceNospec(c, n) ==
    IF ~CanAdvance(c, n) THEN [cursor |-> c, rv |-> ZeroCursor]
    ELSE IF Mask(n, c.len + 1) THEN [cursor |-> Behind(c, n), rv |-> Cursor(c.ptr, n)]
    ELSE [cursor |-> ZeroCursor, rv |-> ZeroCursor]

(* n bytes of cur are stored at dest, in the order given. *)
Read(n, dest, Order(_, _)) ==
    LET r == AdvanceNospec(obj.cur, n)
    IN  IF n = 0 THEN Same("true")
        ELSE IF r.rv.ptr = Null THEN Does([obj EXCEPT !.cur = r.cursor], mem, "false")
        ELSE Does([obj EXCEPT !.cur = r.cursor],
                  Store(mem, dest, Order(BytesAt(mem, r.rv.ptr, n), n), n), "true")

AsIs(bytes, n) == bytes

ReadAndFillBuffer ==
    LET r == Read(obj.buf.capacity, obj.buf.buffer, AsIs)
    IN  {IF r.ret = "true" THEN [r EXCEPT !.obj.buf.len = obj.buf.capacity] ELSE r}

(* The order of the answer is that of the two cursors; lhs is not before    *)
(* itself.                                                                 *)
Compare(equal) == {Same(IF equal THEN "zero" ELSE "nonzero")}

Looked(cursor) == [i \in 0 .. cursor.len - 1 |-> arg.table[CursorBytes(cursor)[i]]]

(* The predicate answers anything at any time: so it does for KLEE and       *)
(* libFuzzer, and what SeaHorn makes of an undefined function is among that. *)
LeftTrims(c) == {Behind(c, k) : k \in 0 .. c.len}
RightTrims(c) == {Cursor(c.ptr, k) : k \in 0 .. c.len}
Trims(c) == UNION {RightTrims(d) : d \in LeftTrims(c)}

Trimmed(cursors) == {Does([obj EXCEPT !.rv = c], mem, "none") : c \in cursors}

-----------------------------------------------------------------------------
(* The unit proofs. *)

CursorAndLen(p) ==
    \E cursor \in ValidCursors("cursor"), len \in 0 .. SizeMax :
        Reach(p, [cursor |-> cursor.s, rv |-> ZeroCursor], [cursor |-> cursor.m], [len |-> len])

AdvancedOrNot ==
    LET before == old.obj.cursor
    IN  /\ CursorOf("rv")
        /\ IF before.len > SHalf \/ arg.len > SHalf \/ arg.len > before.len
           THEN /\ obj.rv = ZeroCursor
                /\ before.len # 0 => AllMatch(mem, obj.cursor.ptr, SavedCursor("cursor"))
           ELSE /\ obj.rv = Cursor(before.ptr, arg.len)
                /\ obj.cursor = Behind(before, arg.len)

ByteCursorAdvanceSetup == CursorAndLen("advance")
ByteCursorAdvanceAsserts == AdvancedOrNot

ByteCursorAdvanceNospecSetup == CursorAndLen("advance_nospec")
ByteCursorAdvanceNospecAsserts == AdvancedOrNot

(* Two cursors that may share their memory. *)
LhsAndRhs(p, lefts, rights, a) ==
    \E lhs \in lefts :
        \/ Reach(p, [lhs |-> lhs.s, rhs |-> lhs.s], [lhs |-> lhs.m], a)
        \/ \E rhs \in rights :
               Reach(p, [lhs |-> lhs.s, rhs |-> rhs.s], [lhs |-> lhs.m, rhs |-> rhs.m], a)

NonNull(cursors) == {c \in cursors : c.s.ptr # Null}

ByteCursorCompareLexicalSetup ==
    LhsAndRhs("compare_lexical", NonNull(ValidCursors("lhs")), NonNull(ValidCursors("rhs")), <<>>)

ByteCursorCompareLexicalAsserts ==
    /\ Answered("zero", BytesOfEachMatch("lhs", "rhs"))
    /\ ret # "self_nonzero"
    /\ BytesKept("lhs") /\ BytesKept("rhs")

ByteCursorCompareLookupSetup ==
    \E table \in [Byte -> Byte] :
        LhsAndRhs("compare_lookup", ValidCursors("lhs"), ValidCursors("rhs"), [table |-> table])

ByteCursorCompareLookupAsserts ==
    /\ Answered("zero", obj.lhs.len = obj.rhs.len)
    /\ ret # "self_nonzero"
    /\ BytesKept("lhs") /\ BytesKept("rhs")

ByteCursorEqSetup == LhsAndRhs("eq", ValidCursors("lhs"), ValidCursors("rhs"), <<>>)

ByteCursorEqAsserts ==
    /\ Answered("true", BytesOfEachMatch("lhs", "rhs"))
    /\ BytesKept("lhs") /\ BytesKept("rhs")

ByteCursorEqIgnoreCaseSetup == LhsAndRhs("eq_ignore_case", ValidCursors("lhs"), ValidCursors("rhs"), <<>>)

ByteCursorEqIgnoreCaseAsserts ==
    /\ Answered("true", obj.lhs.len = obj.rhs.len)
    /\ BytesKept("lhs") /\ BytesKept("rhs")

CursorAndBuf(p) ==
    \E cur \in ValidCursors("cur"), buf \in ValidBufs("buf") :
        Reach(p, [cur |-> cur.s, buf |-> buf.s], [cur |-> cur.m, buf |-> buf.m], <<>>)

ByteCursorEqByteBufSetup == CursorAndBuf("eq_byte_buf")

ByteCursorEqByteBufAsserts ==
    /\ Answered("true", /\ obj.cur.len = obj.buf.len
                        /\ obj.cur.len > 0 => BytesMatch(obj.cur.ptr, obj.buf.buffer, obj.cur.len))
    /\ BytesKept("cur") /\ IsValid("buf") /\ BufSame("buf")

ByteCursorEqByteBufIgnoreCaseSetup == CursorAndBuf("eq_byte_buf_ignore_case")

ByteCursorEqByteBufIgnoreCaseAsserts ==
    /\ Answered("true", obj.cur.len = obj.buf.len)
    /\ BytesKept("cur") /\ IsValid("buf") /\ BufSame("buf")

CursorAndStr(p) ==
    \E cur \in ValidCursors("cur"), str \in EnsureCStrIsNdAllocatedSafe("c_str", MaxBufferSize) :
        Reach(p, [cur |-> cur.s], [cur |-> cur.m, c_str |-> str.m], [c_str |-> str.s, len |-> str.len])

ByteCursorEqCStrSetup == CursorAndStr("eq_c_str")

ByteCursorEqCStrAsserts ==
    /\ Answered("true", /\ obj.cur.len = arg.len
                        /\ obj.cur.len > 0 => BytesMatch(obj.cur.ptr, arg.c_str, obj.cur.len))
    /\ BytesKept("cur") /\ StrKept

ByteCursorEqCStrIgnoreCaseSetup == CursorAndStr("eq_c_str_ignore_case")

ByteCursorEqCStrIgnoreCaseAsserts ==
    Answered("true", obj.cur.len = arg.len) /\ BytesKept("cur") /\ StrKept

(* The cursor is what the function returns. *)
ByteCursorFromArraySetup ==
    \E length \in 0 .. MaxBufferSize : \E array \in BoundedMallocHavoc("array", length) :
        Reach("from_array", [cur |-> ZeroCursor], [array |-> array.m], [array |-> array.s, len |-> length])

ByteCursorFromArrayAsserts ==
    /\ CursorOf("cur") /\ obj.cur.len = arg.len
    /\ obj.cur.ptr # Null => BytesMatch(obj.cur.ptr, arg.array, obj.cur.len)

ByteCursorFromBufSetup ==
    \E buf \in ValidBufs("buf") :
        Reach("from_buf", [buf |-> buf.s, cur |-> ZeroCursor], [buf |-> buf.m], <<>>)

ByteCursorFromBufAsserts ==
    /\ IsValid("buf") /\ CursorOf("cur") /\ BufSame("buf")
    /\ obj.cur.len = obj.buf.len
    /\ obj.cur.ptr # Null => BytesMatch(obj.cur.ptr, obj.buf.buffer, obj.buf.len)

(* str_len has no value before the helper is called. *)
ByteCursorFromCStrSetup ==
    \E before \in 0 .. SizeMax : \E str \in EnsureCStrIsNdAllocated("c_str", MaxBufferSize, before) :
        Reach("from_c_str", [cur |-> ZeroCursor], [c_str |-> str.m], [c_str |-> str.s, len |-> str.len])

(* One that relies on the comment of the helper. *)
ByteCursorFromCStrAsserts_Trusting == CursorOf("cur") /\ obj.cur.len = arg.len

ByteCursorFromCStrAsserts ==
    /\ CursorOf("cur")
    /\ IF obj.cur.ptr # Null
       THEN obj.cur.len = arg.len /\ BytesMatch(obj.cur.ptr, arg.c_str, obj.cur.len)
       ELSE obj.cur.len = 0

ByteCursorFromStringSetup ==
    \E str \in EnsureStringBoundedLength("str", MaxStringLen) :
        Reach("from_string", [cursor |-> ZeroCursor], [str |-> str.m], [str |-> str.s])

ByteCursorFromStringAsserts ==
    /\ StringIsValid(arg.str) /\ CursorOf("cursor")
    /\ obj.cursor = Cursor(arg.str.bytes, arg.str.len)
    /\ BytesMatch(arg.str.bytes, obj.cursor.ptr, arg.str.len)

Predicated(p) ==
    \E cur \in ValidCursors("cur") :
        /\ CursorIsBounded(cur.s, MaxBufferSize)
        /\ Reach(p, [cur |-> cur.s, rv |-> ZeroCursor], [cur |-> cur.m], <<>>)

ByteCursorLeftTrimPredSetup == Predicated("left_trim_pred")
ByteCursorLeftTrimPredAsserts == BytesKept("cur") /\ CursorOf("rv")

ByteCursorRightTrimPredSetup == Predicated("right_trim_pred")
ByteCursorRightTrimPredAsserts == BytesKept("cur") /\ CursorOf("rv")

ByteCursorTrimPredSetup == Predicated("trim_pred")
ByteCursorTrimPredAsserts == BytesKept("cur") /\ CursorOf("rv")

(* The answer is not used. *)
ByteCursorSatisfiesPredSetup == Predicated("satisfies_pred")
ByteCursorSatisfiesPredAsserts == BytesKept("cur")

(* After a read of n bytes. *)
MovedOrNot(n) ==
    LET before == old.obj.cur
    IN  IF before.len > SHalf \/ n > SHalf \/ n > before.len
        THEN before.len # 0 => AllMatch(mem, obj.cur.ptr, SavedCursor("cur"))
        ELSE obj.cur = Behind(before, n)

ByteCursorReadSetup ==
    \E cur \in ValidCursors("cur"), length \in 0 .. MaxBufferSize :
        \E dest \in {d \in BoundedMallocHavoc("dest", length) : length = 0 \/ d.s # Null} :
            Reach("read", [cur |-> cur.s], [cur |-> cur.m, dest |-> dest.m], [dest |-> dest.s, len |-> length])

ByteCursorReadAsserts ==
    /\ Answered("true", BytesMatch(old.obj.cur.ptr, arg.dest, arg.len))
    /\ CursorOf("cur") /\ MovedOrNot(arg.len)

ByteCursorReadAndFillBufferSetup == CursorAndBuf("read_and_fill_buffer")

ByteCursorReadAndFillBufferAsserts ==
    /\ Answered("true", /\ obj.buf.len = obj.buf.capacity
                        /\ BytesMatch(old.obj.cur.ptr, obj.buf.buffer, obj.buf.capacity))
    /\ CursorOf("cur") /\ IsValid("buf") /\ SameFields("buf", {"allocator"})
    /\ MovedOrNot(old.obj.buf.capacity)

(* dest_copy is what the integer should be. *)
ReadInteger(p, width) ==
    \E cur \in ValidCursors("cur"), dest \in CanFailMallocHavoc("dest", width) :
        /\ cur.s.len >= width /\ dest.s # Null
        /\ Reach(p, [cur |-> cur.s],
                 [cur |-> cur.m, dest |-> dest.m, dest_copy |-> BigEndian(cur.m, width)],
                 [dest |-> dest.s, width |-> width])

IntegerIsRead(width) ==
    /\ Answered("true", BytesMatch(StartOf("dest_copy"), arg.dest, width))
    /\ CursorOf("cur")
    /\ old.obj.cur.len <= SHalf /\ width <= old.obj.cur.len =>
           obj.cur = Behind(old.obj.cur, width)

ByteCursorReadBe16Setup == ReadInteger("read_be16", Width.be16)
ByteCursorReadBe16Asserts == IntegerIsRead(Width.be16)

ByteCursorReadBe32Setup == ReadInteger("read_be32", Width.be32)
ByteCursorReadBe32Asserts == IntegerIsRead(Width.be32)

ByteCursorReadBe64Setup == ReadInteger("read_be64", Width.be64)
ByteCursorReadBe64Asserts == IntegerIsRead(Width.be64)

(* With libFuzzer length is reduced after it has been assumed to be 1 or    *)
(* more.                                                                   *)
ByteCursorReadU8Setup ==
    \E cur \in ValidCursors("cur"), nd \in 1 .. DestSize :
        LET length == IF tool = "fuzz" THEN nd % MaxBufferSize ELSE nd
        IN  \E dest \in BoundedMallocHavoc("dest", length) :
                /\ dest.s # Null
                /\ Reach("read_u8", [cur |-> cur.s], [cur |-> cur.m, dest |-> dest.m],
                         [dest |-> dest.s, len |-> 1])

ByteCursorReadU8Asserts ==
    /\ Answered("true", BytesMatch(old.obj.cur.ptr, arg.dest, 1))
    /\ CursorOf("cur")
    /\ old.obj.cur.len < SHalf /\ old.obj.cur.len > 1 => obj.cur = Behind(old.obj.cur, 1)

-----------------------------------------------------------------------------

Setup ==
    /\ pc = "setup"
    /\ \/ ByteCursorAdvanceSetup \/ ByteCursorAdvanceNospecSetup
       \/ ByteCursorCompareLexicalSetup \/ ByteCursorCompareLookupSetup
       \/ ByteCursorEqSetup \/ ByteCursorEqIgnoreCaseSetup
       \/ ByteCursorEqByteBufSetup \/ ByteCursorEqByteBufIgnoreCaseSetup
       \/ ByteCursorEqCStrSetup \/ ByteCursorEqCStrIgnoreCaseSetup
       \/ ByteCursorFromArraySetup \/ ByteCursorFromBufSetup
       \/ ByteCursorFromCStrSetup \/ ByteCursorFromStringSetup
       \/ ByteCursorLeftTrimPredSetup \/ ByteCursorRightTrimPredSetup
       \/ ByteCursorTrimPredSetup \/ ByteCursorSatisfiesPredSetup
       \/ ByteCursorReadSetup \/ ByteCursorReadAndFillBufferSetup
       \/ ByteCursorReadBe16Setup \/ ByteCursorReadBe32Setup
       \/ ByteCursorReadBe64Setup \/ ByteCursorReadU8Setup

CursorsEqual(x, y) == SameBytes(obj[x].ptr, obj[x].len, obj[y].ptr, obj[y].len)
Makes(x, cursor) == {Does([obj EXCEPT ![x] = cursor], mem, "none")}

(* What the library's function may leave and return. *)
Outcomes ==
    CASE proof = "advance" -> Advance
      [] proof = "advance_nospec" ->
           {Does(AdvanceNospec(obj.cursor, arg.len), mem, "none")}
      [] proof = "compare_lexical" -> Compare(CursorsEqual("lhs", "rhs"))
      [] proof = "compare_lookup" -> Compare(Looked(obj.lhs) = Looked(obj.rhs))
      [] proof = "eq" -> Says(CursorsEqual("lhs", "rhs"))
      [] proof = "eq_ignore_case" ->
           SaysIgnoringCase(obj.lhs.ptr, obj.lhs.len, obj.rhs.ptr, obj.rhs.len)
      [] proof = "eq_byte_buf" ->
           Says(SameBytes(obj.cur.ptr, obj.cur.len, obj.buf.buffer, obj.buf.len))
      [] proof = "eq_byte_buf_ignore_case" ->
           SaysIgnoringCase(obj.cur.ptr, obj.cur.len, obj.buf.buffer, obj.buf.len)
      [] proof = "eq_c_str" -> Says(SameBytes(obj.cur.ptr, obj.cur.len, arg.c_str, arg.len))
      [] proof = "eq_c_str_ignore_case" ->
           SaysIgnoringCase(obj.cur.ptr, obj.cur.len, arg.c_str, arg.len)
      [] proof = "from_array" -> Makes("cur", Cursor(arg.array, arg.len))
      [] proof = "from_buf" -> Makes("cur", Cursor(obj.buf.buffer, obj.buf.len))
      [] proof = "from_c_str" ->
           Makes("cur", IF arg.c_str = Null THEN ZeroCursor ELSE Cursor(arg.c_str, arg.len))
      [] proof = "from_string" -> Makes("cursor", Cursor(arg.str.bytes, arg.str.len))
      [] proof = "left_trim_pred" -> Trimmed(LeftTrims(obj.cur))
      [] proof = "right_trim_pred" -> Trimmed(RightTrims(obj.cur))
      [] proof = "trim_pred" -> Trimmed(Trims(obj.cur))
      [] proof = "satisfies_pred" -> {Same("none")}
      [] proof = "read" -> {Read(arg.len, arg.dest, AsIs)}
      [] proof = "read_and_fill_buffer" -> ReadAndFillBuffer
      [] proof \in {"read_be16", "read_be32", "read_be64"} -> {Read(arg.width, arg.dest, BigEndian)}
      [] proof = "read_u8" -> {Read(1, arg.dest, AsIs)}

Asserts ==
    CASE proof = "advance" -> ByteCursorAdvanceAsserts
      [] proof = "advance_nospec" -> ByteCursorAdvanceNospecAsserts
      [] proof = "compare_lexical" -> ByteCursorCompareLexicalAsserts
      [] proof = "compare_lookup" -> ByteCursorCompareLookupAsserts
      [] proof = "eq" -> ByteCursorEqAsserts
      [] proof = "eq_ignore_case" -> ByteCursorEqIgnoreCaseAsserts
      [] proof = "eq_byte_buf" -> ByteCursorEqByteBufAsserts
      [] proof = "eq_byte_buf_ignore_case" -> ByteCursorEqByteBufIgnoreCaseAsserts
      [] proof = "eq_c_str" -> ByteCursorEqCStrAsserts
      [] proof = "eq_c_str_ignore_case" -> ByteCursorEqCStrIgnoreCaseAsserts
      [] proof = "from_array" -> ByteCursorFromArrayAsserts
      [] proof = "from_buf" -> ByteCursorFromBufAsserts
      [] proof = "from_c_str" -> ByteCursorFromCStrAsserts
      [] proof = "from_string" -> ByteCursorFromStringAsserts
      [] proof = "left_trim_pred" -> ByteCursorLeftTrimPredAsserts
      [] proof = "right_trim_pred" -> ByteCursorRightTrimPredAsserts
      [] proof = "trim_pred" -> ByteCursorTrimPredAsserts
      [] proof = "satisfies_pred" -> ByteCursorSatisfiesPredAsserts
      [] proof = "read" -> ByteCursorReadAsserts
      [] proof = "read_and_fill_buffer" -> ByteCursorReadAndFillBufferAsserts
      [] proof = "read_be16" -> ByteCursorReadBe16Asserts
      [] proof = "read_be32" -> ByteCursorReadBe32Asserts
      [] proof = "read_be64" -> ByteCursorReadBe64Asserts
      [] proof = "read_u8" -> ByteCursorReadU8Asserts

Next ==
    \/ Setup
    \/ Call(Outcomes) \/ SkippedCall(Outcomes)
    \/ Fault
    \/ Check(Asserts)

Spec == Init /\ [][Next]_vars

-----------------------------------------------------------------------------
(* The second generation (seahorn/jobs2): the same inputs and the same calls *)
(* with other assertions, which ask SeaHorn whether an object was written to *)
(* where the first generation compares a byte it saved.                    *)

BytesUntouched(x) == CursorOf(x) /\ (obj[x].len # 0 => ~BytesModified(obj[x].ptr))
StrUntouched == arg.len > 0 => ~BytesModified(arg.c_str)

(* What is asked about is where the cursor points to afterwards.            *)
AdvancedOrUntouched_NotAsked ==
    LET before == old.obj.cursor
    IN  /\ CursorOf("rv")
        /\ IF before.len > SHalf \/ arg.len > SHalf \/ arg.len > before.len
           THEN obj.rv = ZeroCursor
           ELSE obj.rv = Cursor(before.ptr, arg.len) /\ obj.cursor = Behind(before, arg.len)

AdvancedOrUntouched ==
    LET before == old.obj.cursor
    IN  /\ CursorOf("rv")
        /\ IF before.len > SHalf \/ arg.len > SHalf \/ arg.len > before.len
           THEN obj.rv = ZeroCursor /\ (before.len # 0 => ~BytesModified(obj.cursor.ptr))
           ELSE obj.rv = Cursor(before.ptr, arg.len) /\ obj.cursor = Behind(before, arg.len)

ByteCursorAdvance2Asserts == AdvancedOrUntouched
ByteCursorAdvanceNospec2Asserts == AdvancedOrUntouched

BothUntouched_First == BytesUntouched("lhs")
BothUntouched == BytesUntouched("lhs") /\ BytesUntouched("rhs")

ByteCursorCompareLexical2Asserts ==
    Answered("zero", BytesOfEachMatch("lhs", "rhs")) /\ ret # "self_nonzero" /\ BothUntouched

ByteCursorCompareLookup2Asserts ==
    Answered("zero", obj.lhs.len = obj.rhs.len) /\ ret # "self_nonzero" /\ BothUntouched

ByteCursorEq2Asserts == Answered("true", BytesOfEachMatch("lhs", "rhs")) /\ BothUntouched

ByteCursorEqIgnoreCase2Asserts == Answered("true", obj.lhs.len = obj.rhs.len) /\ BothUntouched

ByteCursorEqByteBuf2Asserts ==
    /\ Answered("true", /\ obj.cur.len = obj.buf.len
                        /\ obj.cur.len > 0 => BytesMatch(obj.cur.ptr, obj.buf.buffer, obj.cur.len))
    /\ BytesUntouched("cur") /\ IsValid("buf")
    /\ ~Modified("buf") /\ ~BytesModified(obj.buf.buffer)

(* Of the buffer, only the bytes. *)
ByteCursorEqByteBufIgnoreCase2Asserts ==
    /\ Answered("true", obj.cur.len = obj.buf.len)
    /\ BytesUntouched("cur") /\ IsValid("buf")
    /\ ~BytesModified(obj.buf.buffer)

ByteCursorEqCStr2Asserts ==
    /\ Answered("true", /\ obj.cur.len = arg.len
                        /\ obj.cur.len > 0 => BytesMatch(obj.cur.ptr, arg.c_str, obj.cur.len))
    /\ BytesUntouched("cur") /\ StrUntouched

ByteCursorEqCStrIgnoreCase2Asserts ==
    Answered("true", obj.cur.len = arg.len) /\ BytesUntouched("cur") /\ StrUntouched

ByteCursorFromBuf2Asserts ==
    /\ IsValid("buf") /\ CursorOf("cur")
    /\ obj.cur.len = obj.buf.len
    /\ obj.cur.ptr # Null => BytesMatch(obj.cur.ptr, obj.buf.buffer, obj.buf.len)
    /\ ~Modified("buf") /\ ~BytesModified(obj.buf.buffer)

ByteCursorLeftTrimPred2Asserts == BytesUntouched("cur") /\ CursorOf("rv")
ByteCursorRightTrimPred2Asserts == BytesUntouched("cur") /\ CursorOf("rv")
ByteCursorTrimPred2Asserts == BytesUntouched("cur") /\ CursorOf("rv")
ByteCursorSatisfiesPred2Asserts == BytesUntouched("cur")

MovedOrUntouched(n) ==
    LET before == old.obj.cur
    IN  IF before.len > SHalf \/ n > SHalf \/ n > before.len
        THEN before.len # 0 => ~BytesModified(obj.cur.ptr)
        ELSE obj.cur = Behind(before, n)

ByteCursorRead2Asserts ==
    /\ Answered("true", BytesMatch(old.obj.cur.ptr, arg.dest, arg.len))
    /\ CursorOf("cur") /\ MovedOrUntouched(arg.len)

ByteCursorReadAndFillBuffer2Asserts_Untouched ==
    /\ Answered("true", /\ obj.buf.len = obj.buf.capacity
                        /\ BytesMatch(old.obj.cur.ptr, obj.buf.buffer, obj.buf.capacity))
    /\ CursorOf("cur") /\ IsValid("buf")
    /\ ~BytesModified(obj.buf.buffer)

ByteCursorReadAndFillBuffer2Asserts ==
    /\ Answered("true", /\ obj.buf.len = obj.buf.capacity
                        /\ BytesMatch(old.obj.cur.ptr, obj.buf.buffer, obj.buf.capacity))
    /\ CursorOf("cur") /\ IsValid("buf")
    /\ MovedOrUntouched(old.obj.buf.capacity)

ByteCursorReadBe162Asserts == IntegerIsRead(Width.be16)
ByteCursorReadBe322Asserts == IntegerIsRead(Width.be32)
ByteCursorReadBe642Asserts == IntegerIsRead(Width.be64)

ByteCursorReadU82Asserts ==
    /\ Answered("true", BytesMatch(old.obj.cur.ptr, arg.dest, 1))
    /\ CursorOf("cur")
    /\ old.obj.cur.len < SHalf /\ old.obj.cur.len > 1 => obj.cur = Behind(old.obj.cur, 1)

SecondGeneration ==
    {"advance", "advance_nospec", "compare_lexical", "compare_lookup", "eq",
     "eq_ignore_case", "eq_byte_buf", "eq_byte_buf_ignore_case", "eq_c_str",
     "eq_c_str_ignore_case", "from_buf", "left_trim_pred",
     "right_trim_pred", "trim_pred", "satisfies_pred", "read",
     "read_and_fill_buffer", "read_be16", "read_be32", "read_be64",
     "read_u8"}

(* Its verdict where the first generation has given one. *)
SecondRuns == Judged /\ tool = "sea" /\ proof \in SecondGeneration

Asserts2 ==
    CASE proof = "advance" -> ByteCursorAdvance2Asserts
      [] proof = "advance_nospec" -> ByteCursorAdvanceNospec2Asserts
      [] proof = "compare_lexical" -> ByteCursorCompareLexical2Asserts
      [] proof = "compare_lookup" -> ByteCursorCompareLookup2Asserts
      [] proof = "eq" -> ByteCursorEq2Asserts
      [] proof = "eq_ignore_case" -> ByteCursorEqIgnoreCase2Asserts
      [] proof = "eq_byte_buf" -> ByteCursorEqByteBuf2Asserts
      [] proof = "eq_byte_buf_ignore_case" -> ByteCursorEqByteBufIgnoreCase2Asserts
      [] proof = "eq_c_str" -> ByteCursorEqCStr2Asserts
      [] proof = "eq_c_str_ignore_case" -> ByteCursorEqCStrIgnoreCase2Asserts
      [] proof = "from_buf" -> ByteCursorFromBuf2Asserts
      [] proof = "left_trim_pred" -> ByteCursorLeftTrimPred2Asserts
      [] proof = "right_trim_pred" -> ByteCursorRightTrimPred2Asserts
      [] proof = "trim_pred" -> ByteCursorTrimPred2Asserts
      [] proof = "satisfies_pred" -> ByteCursorSatisfiesPred2Asserts
      [] proof = "read" -> ByteCursorRead2Asserts
      [] proof = "read_and_fill_buffer" -> ByteCursorReadAndFillBuffer2Asserts
      [] proof = "read_be16" -> ByteCursorReadBe162Asserts
      [] proof = "read_be32" -> ByteCursorReadBe322Asserts
      [] proof = "read_be64" -> ByteCursorReadBe642Asserts
      [] proof = "read_u8" -> ByteCursorReadU82Asserts

-----------------------------------------------------------------------------

TypeOK ==
    /\ tool \in Tools
    /\ pc \in {"setup", "call", "check", "passed", "failed"}
    /\ \A x \in DOMAIN obj : obj[x].len \in 0 .. SizeMax
    /\ \A b \in DOMAIN mem : \E n \in 0 .. SizeMax : mem[b] \in Contents(n)
    /\ faults \in 0 .. MaxFaults

(* "precondition assume(AWS_MEM_IS_WRITABLE(dest, ...))": what the reads     *)
(* write to is a block of at least that many bytes.                        *)
DestIsWritable ==
    /\ proof = "read" => Readable(old.mem, arg.dest, arg.len)
    /\ proof \in {"read_be16", "read_be32", "read_be64"} => Readable(old.mem, arg.dest, arg.width)
    /\ proof = "read_u8" => Readable(old.mem, arg.dest, 1)

ArrayIsMissing == proof = "from_array" /\ Missing(arg.array, arg.len)

(* No unit proof fails for a library that is correct, whatever the helpers  *)
(* of the three tools build, shared memory, NULL and a string length that  *)
(* nobody has set included; the exceptions are a unit proof that has it     *)
(* write outside of the block and an array that malloc refused.            *)
NoFalseAlarm == pc = "failed" /\ DestIsWritable => Differences # {} \/ ArrayIsMissing

(* What a unit proof looks at after its call.                               *)
Prefix(x) == ByteOf(x, 0 .. old.obj[x].len - 1)
Both(x) == Field(x, {"ptr", "len"})
BufSeen == Field("buf", {"len", "capacity", "allocator"}) \cup Prefix("buf")
If(condition, places) == IF condition THEN places ELSE {}
Moves(x, n) == n <= old.obj[x].len

Watched ==
    CASE proof \in {"advance", "advance_nospec"} ->
           Both("rv") \cup (IF Moves("cursor", arg.len) THEN Both("cursor") ELSE Prefix("cursor"))
      [] proof \in {"compare_lexical", "compare_lookup", "eq", "eq_ignore_case"} ->
           Prefix("lhs") \cup Prefix("rhs")
           \cup If(proof = "compare_lexical", {<<"ret", "zero">>, <<"ret", "self_nonzero">>})
           \cup If(proof = "compare_lookup", {<<"ret", "self_nonzero">>})
           \cup If(proof = "eq", {<<"ret", "true">>})
      [] proof \in {"eq_byte_buf", "eq_byte_buf_ignore_case"} ->
           Prefix("cur") \cup BufSeen \cup If(proof = "eq_byte_buf", {<<"ret", "true">>})
      [] proof \in {"eq_c_str", "eq_c_str_ignore_case"} ->
           Prefix("cur") \cup ByteOf("c_str", 0 .. arg.len - 1)
           \cup If(proof = "eq_c_str", {<<"ret", "true">>})
      [] proof \in {"from_array", "from_c_str"} -> Field("cur", {"len"})
      [] proof = "from_buf" -> Field("cur", {"len"}) \cup BufSeen
      [] proof = "from_string" -> Both("cursor")
      [] proof \in {"left_trim_pred", "right_trim_pred", "trim_pred", "satisfies_pred"} -> Prefix("cur")
      [] proof = "read" ->
           IF Moves("cur", arg.len) THEN Both("cur") \cup ByteOf("dest", 0 .. arg.len - 1) ELSE Prefix("cur")
      [] proof = "read_and_fill_buffer" ->
           Field("buf", {"allocator"})
           \cup IF Moves("cur", old.obj.buf.capacity)
                THEN Both("cur") \cup If(ret = "true", Field("buf", {"len"}) \cup ByteOf("buf", DOMAIN mem["buf"]))
                ELSE Prefix("cur")
      [] proof \in {"read_be16", "read_be32", "read_be64"} ->
           Both("cur") \cup If(ret = "true", ByteOf("dest", 0 .. arg.width - 1))
      [] proof = "read_u8" ->
           If(old.obj.cur.len \in 2 .. SHalf - 1, Both("cur") \cup If(ret = "true", ByteOf("dest", {0})))
      [] OTHER -> {}

(* A unit proof that passes has seen that the fields it looks at, the bytes *)
(* whose comparison it leaves to an arbitrary choice, and its answer are    *)
(* right: a library that gets one of them wrong is noticed.                 *)
PassedMeansCorrect == pc = "passed" => Differences \cap Watched = {}

(* No unit proof of the second generation fails for a library that is       *)
(* correct: what it says is not modified, a correct function leaves alone. *)
NoFalseAlarm2 == SecondRuns /\ ~Asserts2 => Differences # {}

(* What the second generation passes and the first does not differs in      *)
(* fields of a struct only, which the second mostly leaves out: a byte that *)
(* changed, a wrong answer or a wrong result it never misses.              *)
FirstPassesToo ==
    SecondRuns /\ Asserts2 /\ ~Asserts =>
        Differences \subseteq UNION {Field(x, DOMAIN obj[x]) : x \in DOMAIN obj \ {"rv"}}

(* The bytes behind two cursors that are compared, in the same blocks: the   *)
(* first generation saves none of them.  A comparison that writes one passes *)
(* it and fails the second, unless that cursor is empty.                   *)
OnlySecondLooksAt ==
    UNION {ByteOf(x, {i \in DOMAIN old.mem[x] : i >= old.obj[x].len}) :
               x \in {y \in DOMAIN old.mem : old.obj[y].len > 0}}

SecondNoticesMore ==
    /\ SecondRuns /\ proof \in {"compare_lexical", "compare_lookup", "eq", "eq_ignore_case"}
    /\ Differences # {} /\ Differences \subseteq OnlySecondLooksAt
    => Asserts /\ ~Asserts2
=============================================================================
