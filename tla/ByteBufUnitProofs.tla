------------------------- MODULE ByteBufUnitProofs -------------------------
(***************************************************************************)
(* The byte_buf_* unit proofs of seahorn/jobs.  Each has a Setup, up to its *)
(* call, and Asserts, what it asserts after it; what the library's function *)
(* does is an operator without either suffix.                              *)
(***************************************************************************)
EXTENDS ByteBufHelper

CONSTANTS
    Width,            \* of the integers, in bytes: [be16, be32, be64]
    CatSize           \* the unit proof of cat: the capacities of its three buffers together

BuffersAreShort == 2 * MaxBufferSize <= SizeMax /\ MaxStringLen <= SizeMax
WidthsArePositive == {Width.be16, Width.be32, Width.be64} \subseteq Nat \ {0}

-----------------------------------------------------------------------------
(* The library. *)

(* n bytes are added at the end of buffer x. *)
Add(x, bytes, n) ==
    Does([obj EXCEPT ![x].len = @ + n], Store(mem, End(obj[x]), bytes, n), "none")

Fits(x, n) == n <= obj[x].capacity - obj[x].len

Write(x, bytes, n) ==
    IF n <= SHalf /\ Fits(x, n) THEN {Answers(Add(x, bytes, n), "true")} ELSE {Same("false")}

AppendTo(x, bytes, n) ==
    IF Fits(x, n) THEN {Answers(Add(x, bytes, n), "success")} ELSE {Same("error")}

(* New memory of n bytes, which cannot always be had, starts with k bytes. *)
NewBytes(n, bytes, k) == {c \in Contents(n) : \A i \in 0 .. k - 1 : c[i] = bytes[i]}

Refused == {Same("error")}

Release(m, p) == [b \in DOMAIN m \ {p.block} |-> m[b]]

WithNew(m, c) == [b \in DOMAIN m \cup {"new"} |-> IF b = "new" THEN c ELSE m[b]]

Concat(a, k, b, n) == [i \in 0 .. k + n - 1 |-> IF i < k THEN a[i] ELSE b[i - k]]

Advance_NoCheck ==
    {Does([buf |-> [obj.buf EXCEPT !.len = @ + arg.len],
           output |-> [FromArray(End(obj.buf), arg.len) EXCEPT !.len = 0]], mem, "true")}

Advance ==
    LET buf == obj.buf
    IN  IF Fits("buf", arg.len)
        THEN {Does([buf |-> [buf EXCEPT !.len = @ + arg.len],
                    output |-> [FromArray(End(buf), arg.len) EXCEPT !.len = 0]], mem, "true")}
        ELSE {Does([obj EXCEPT !.output = ZeroBuf], mem, "false")}

Append == AppendTo("to", CursorBytes(arg.from), arg.from.len)

AppendDynamic ==
    LET to == obj.to
        n == arg.from.len
        least == to.len + n
        all == Concat(BytesAt(mem, to.buffer, to.len), to.len, CursorBytes(arg.from), n)
        Grown(cap) == {Does([to |-> Buf(StartOf("new"), least, cap, to.allocator)],
                            WithNew(Release(mem, to.buffer), c), "success") :
                           c \in NewBytes(cap, all, least)}
    IN  IF Fits("to", n) THEN Append
        ELSE Refused \cup Grown(least)
             \cup (IF 2 * to.capacity > least THEN Grown(2 * to.capacity) ELSE {})

AppendWithLookup ==
    AppendTo("to", [i \in 0 .. arg.from.len - 1 |-> arg.table[CursorBytes(arg.from)[i]]], arg.from.len)

CleanUp == {Does([buf |-> ZeroBuf], Release(mem, obj.buf.buffer), "none")}

InitWith(n, bytes, k) ==
    IF n = 0 THEN {Does([buf |-> Buf(Null, 0, 0, "sea")], mem, "success")}
    ELSE Refused \cup {Does([buf |-> Buf(StartOf("new"), k, n, "sea")], WithNew(mem, c), "success") :
                           c \in NewBytes(n, bytes, k)}

InitCopy ==
    LET src == obj.src
        Copied(buf, m) == Does([obj EXCEPT !.dest = buf], m, "success")
    IN  IF src.buffer = Null THEN {Copied(Buf(Null, 0, 0, "sea"), mem)}
        ELSE Refused \cup {Copied([src EXCEPT !.buffer = StartOf("new")], WithNew(mem, c)) :
                 c \in NewBytes(src.capacity, BytesAt(mem, src.buffer, src.len), src.len)}

(* aws_mem_realloc copies the whole capacity and adds zeroes.               *)
Reserve(n) ==
    LET buf == obj.buf
        grown == [i \in 0 .. n - 1 |-> IF i < buf.capacity THEN mem[buf.buffer.block][i] ELSE 0]
    IN  IF n <= buf.capacity THEN {Same("success")}
        ELSE IF buf.buffer = Null THEN InitWith(n, <<>>, 0)
        ELSE Refused \cup
             {Does([buf |-> [buf EXCEPT !.buffer = StartOf("new"), !.capacity = n]],
                   WithNew(Release(mem, buf.buffer), grown), "success")}

ReserveRelative(n) ==
    IF obj.buf.len + n > SizeMax THEN {Same("error")} ELSE Reserve(obj.buf.len + n)

Zeroed(buf) == Store(mem, buf.buffer, [i \in 0 .. buf.capacity - 1 |-> 0], buf.capacity)

Reset ==
    {Does([buf |-> [obj.buf EXCEPT !.len = 0]], IF arg.zero THEN Zeroed(obj.buf) ELSE mem, "none")}

-----------------------------------------------------------------------------
(* The unit proofs. *)

ByteBufAdvanceSetup ==
    \E buf \in ValidBufs("buf"), len \in 0 .. SizeMax :
        \/ Reach("advance", [buf |-> buf.s, output |-> buf.s], [buf |-> buf.m], [len |-> len])
        \/ \E output \in ValidBufs("output") :
               Reach("advance", [buf |-> buf.s, output |-> output.s],
                     [buf |-> buf.m, output |-> output.m], [len |-> len])

ByteBufAdvanceAsserts ==
    /\ IF ret = "true"
       THEN /\ obj.buf.len = old.obj.buf.len + arg.len
            /\ SameFields("buf", {"capacity", "allocator"})
            /\ old.obj.buf.len > 0 => AllMatch(mem, obj.buf.buffer, SavedBuf("buf"))
            /\ obj.output = Buf(obj.output.buffer, 0, arg.len, "none")
       ELSE BufSame("buf") /\ obj.output = ZeroBuf
    /\ IsValid("buf") /\ IsValid("output")

(* The unit proofs of append keep a copy of the struct to, whose pointer is *)
(* the same: they compare the bytes with themselves.                        *)
ToAndFrom(p, table) ==
    \E to \in ValidBufs("to"), from \in ValidCursors("from") :
        Reach(p, [to |-> to.s], [to |-> to.m, from |-> from.m], [from |-> from.s, table |-> table])

AppendedOrNot ==
    IF ret = "success" THEN obj.to.len = old.obj.to.len + arg.from.len
    ELSE /\ BytesMatch(old.obj.to.buffer, obj.to.buffer, obj.to.len)
         /\ SameFields("to", {"len"})

ByteBufAppendSetup == ToAndFrom("append", <<>>)

ByteBufAppendAsserts ==
    /\ AppendedOrNot
    /\ IsValid("to") /\ CursorIsValid(arg.from)
    /\ SameFields("to", {"allocator", "capacity"})

ByteBufAppendDynamicSetup == ToAndFrom("append_dynamic", <<>>)

ByteBufAppendDynamicAsserts ==
    /\ AppendedOrNot
    /\ IsValid("to") /\ CursorIsValid(arg.from)
    /\ SameFields("to", {"allocator"})

ByteBufAppendWithLookupSetup ==
    \E table \in [Byte -> Byte] : ToAndFrom("append_with_lookup", table)

ByteBufAppendWithLookupAsserts ==
    /\ AppendedOrNot
    /\ IsValid("to") /\ CursorIsValid(arg.from)
    /\ SameFields("to", {"allocator", "capacity"})

(* aws_byte_buf_cat3, which stands for aws_byte_buf_cat: the buffers that    *)
(* fit are appended before one that does not.                              *)
CatOne(r, x) ==
    LET b == r.obj[x]
        dest == r.obj.dest
    IN  IF r.ret = "error" \/ b.len > dest.capacity - dest.len THEN Answers(r, "error")
        ELSE Does([r.obj EXCEPT !.dest.len = @ + b.len],
                  Store(r.mem, End(dest), BytesAt(r.mem, b.buffer, b.len), b.len), "success")

Cat == {CatOne(CatOne(CatOne(Same("success"), "buffer1"), "buffer2"), "buffer3")}

ByteBufCatSetup ==
    \E dest \in ValidBufs("dest"), b1 \in ValidBufs("buffer1"),
       b2 \in ValidBufs("buffer2"), b3 \in ValidBufs("buffer3") :
        /\ b1.s.capacity + b2.s.capacity + b3.s.capacity <= CatSize
        /\ Reach("cat", [dest |-> dest.s, buffer1 |-> b1.s, buffer2 |-> b2.s, buffer3 |-> b3.s],
                 [dest |-> dest.m, buffer1 |-> b1.m, buffer2 |-> b2.m, buffer3 |-> b3.m], <<>>)

ByteBufCatAsserts ==
    LET space == old.obj.dest.capacity - old.obj.dest.len
        total == obj.buffer1.len + obj.buffer2.len + obj.buffer3.len
    IN  /\ IF ret = "success" THEN space >= total ELSE space < total
        /\ \A x \in {"buffer1", "buffer2", "buffer3", "dest"} : IsValid(x)
        /\ \A x \in {"buffer1", "buffer2", "buffer3"} : BufSame(x)

OneBuf(p, a) == \E buf \in ValidBufs("buf") : Reach(p, [buf |-> buf.s], [buf |-> buf.m], a)

ByteBufCleanUpSetup == OneBuf("clean_up", <<>>)
ByteBufCleanUpAsserts == obj.buf = ZeroBuf

ByteBufCleanUpSecureSetup == OneBuf("clean_up_secure", <<>>)
ByteBufCleanUpSecureAsserts == obj.buf = ZeroBuf

(* lhs and rhs may share their memory.                                      *)
LhsAndRhs(p) ==
    \E lhs \in ValidBufs("lhs") :
        \/ Reach(p, [lhs |-> lhs.s, rhs |-> lhs.s], [lhs |-> lhs.m], <<>>)
        \/ \E rhs \in ValidBufs("rhs") :
               Reach(p, [lhs |-> lhs.s, rhs |-> rhs.s], [lhs |-> lhs.m, rhs |-> rhs.m], <<>>)

BothSame == \A x \in {"lhs", "rhs"} : IsValid(x) /\ BufSame(x)

ByteBufEqSetup == LhsAndRhs("eq")

ByteBufEqAsserts ==
    /\ ret = "true" =>
           /\ obj.lhs.len = obj.rhs.len
           /\ obj.lhs.len > 0 => BytesMatch(obj.lhs.buffer, obj.rhs.buffer, obj.lhs.len)
    /\ BothSame

ByteBufEqIgnoreCaseSetup == LhsAndRhs("eq_ignore_case")
ByteBufEqIgnoreCaseAsserts == (ret = "true" => obj.lhs.len = obj.rhs.len) /\ BothSame

BufAndStr(p) ==
    \E str \in EnsureCStrIsNdAllocatedSafe("c_str", MaxBufferSize), buf \in ValidBufs("buf") :
        Reach(p, [buf |-> buf.s], [buf |-> buf.m, c_str |-> str.m], [c_str |-> str.s, len |-> str.len])

SavedStr == SaveByteFromArray(old.mem, arg.c_str, arg.len)
StrSame == arg.len > 0 => AllMatch(mem, arg.c_str, SavedStr)

ByteBufEqCStrSetup == BufAndStr("eq_c_str")

ByteBufEqCStrAsserts ==
    /\ ret = "true" =>
           /\ obj.buf.len = arg.len
           /\ obj.buf.len > 0 => BytesMatch(obj.buf.buffer, arg.c_str, obj.buf.len)
    /\ IsValid("buf") /\ BufSame("buf") /\ StrSame

ByteBufEqCStrIgnoreCaseSetup == BufAndStr("eq_c_str_ignore_case")

ByteBufEqCStrIgnoreCaseAsserts ==
    (ret = "true" => obj.buf.len = arg.len) /\ IsValid("buf") /\ BufSame("buf") /\ StrSame

(* An array of length bytes; the buffer is what the function returns.       *)
Array(p) ==
    \E length \in 0 .. MaxBufferSize : \E array \in BoundedMallocHavoc("array", length) :
        Reach(p, [buf |-> ZeroBuf], [array |-> array.m], [array |-> array.s, length |-> length])

ByteBufFromArraySetup == Array("from_array")

ByteBufFromArrayAsserts ==
    /\ IsValid("buf")
    /\ obj.buf = Buf(obj.buf.buffer, arg.length, arg.length, "none")
    /\ obj.buf.buffer # Null => BytesMatch(obj.buf.buffer, arg.array, obj.buf.len)

(* str_len is 0 before the helper is called.                               *)
ByteBufFromCStrSetup ==
    \E str \in EnsureCStrIsNdAllocated("c_str", MaxBufferSize, 0) :
        Reach("from_c_str", [buf |-> ZeroBuf], [c_str |-> str.m], [c_str |-> str.s, len |-> str.len])

ByteBufFromCStrAsserts ==
    /\ IsValid("buf") /\ obj.buf.allocator = "none"
    /\ IF obj.buf.buffer # Null
       THEN /\ obj.buf.len = arg.len /\ obj.buf.capacity = obj.buf.len
            /\ BytesMatch(obj.buf.buffer, arg.c_str, obj.buf.len)
       ELSE /\ arg.c_str # Null => arg.len = 0
            /\ obj.buf.len = 0 /\ obj.buf.capacity = 0

ByteBufFromEmptyArraySetup == Array("from_empty_array")

ByteBufFromEmptyArrayAsserts ==
    /\ IsValid("buf")
    /\ obj.buf = Buf(obj.buf.buffer, 0, arg.length, "none")
    /\ obj.buf.buffer # Null => BytesMatch(obj.buf.buffer, arg.array, arg.length)

(* The buffer is not assumed to be valid.                                  *)
ByteBufInitSetup ==
    \E buf \in InitializeByteBuf("buf"), capacity \in 0 .. MaxBufferSize :
        Reach("init", [buf |-> buf.s], [buf |-> buf.m], [capacity |-> capacity])

ByteBufInitAsserts ==
    ret = "success" =>
        IsValid("buf") /\ obj.buf = Buf(obj.buf.buffer, 0, arg.capacity, "sea")

ByteBufInitCopySetup ==
    \E src \in ValidBufs("src") :
        Reach("init_copy", [dest |-> ZeroBuf, src |-> src.s], [src |-> src.m], <<>>)

ByteBufInitCopyAsserts ==
    LET dest == obj.dest
        src == obj.src
    IN  ret = "success" =>
            /\ IsValid("dest") /\ HasAllocator(dest)
            /\ dest.len = src.len /\ dest.capacity = src.capacity
            /\ BytesMatch(dest.buffer, src.buffer, dest.len)
            /\ IsValid("src")
            /\ src.len > 0 => /\ AllMatch(mem, src.buffer, SavedBuf("src"))
                              /\ AllMatch(mem, dest.buffer, SavedBuf("src"))

ByteBufInitCopyFromCursorSetup ==
    \E buf \in InitializeByteBuf("buf"), cursor \in ValidCursors("cursor") :
        Reach("init_copy_from_cursor", [buf |-> buf.s], [buf |-> buf.m, cursor |-> cursor.m],
              [cursor |-> cursor.s])

ByteBufInitCopyFromCursorAsserts ==
    ret = "success" =>
        /\ IsValid("buf") /\ CursorIsValid(arg.cursor)
        /\ obj.buf = Buf(obj.buf.buffer, arg.cursor.len, arg.cursor.len, "sea")
        /\ obj.buf.buffer # Null => BytesMatch(obj.buf.buffer, arg.cursor.ptr, obj.buf.len)

(* Of a successful reserve only the capacity is looked at; the other        *)
(* assertions are commented out.                                           *)
ByteBufReserveSetup ==
    \E buf \in ValidBufs("buf"), requested \in 0 .. MaxBufferSize :
        /\ buf.s.capacity < MaxBufferSize
        /\ Reach("reserve", [buf |-> buf.s], [buf |-> buf.m], [requested |-> requested])

ByteBufReserveAsserts == ret = "success" => obj.buf.capacity >= arg.requested

ByteBufReserveRelativeSetup ==
    \E buf \in ValidBufs("buf") :
        /\ buf.s.capacity < MaxBufferSize
        /\ Reach("reserve_relative", [buf |-> buf.s], [buf |-> buf.m], [requested |-> MaxBufferSize])

ByteBufReserveRelativeAsserts ==
    /\ ret = "success" => /\ obj.buf.capacity >= old.obj.buf.len + arg.requested
                          /\ HasAllocator(obj.buf)
    /\ IsValid("buf")

ByteBufResetSetup == \E zero \in BOOLEAN : OneBuf("reset", [zero |-> zero])

ByteBufResetAsserts ==
    /\ obj.buf.len = 0 /\ SameFields("buf", {"allocator", "buffer", "capacity"})
    /\ arg.zero => AssertAllBytesAre(mem, obj.buf.buffer, 0, obj.buf.capacity)

ByteBufSecureZeroSetup == OneBuf("secure_zero", [zero |-> TRUE])

ByteBufSecureZeroAsserts ==
    IsValid("buf") /\ AssertAllZeroes(mem, obj.buf.buffer, obj.buf.capacity) /\ obj.buf.len = 0

(* The writes: n bytes are added, or nothing happens.                       *)
Written(n) ==
    IF ret = "true"
    THEN obj.buf.len = old.obj.buf.len + n /\ SameFields("buf", {"capacity", "allocator"})
    ELSE BufSame("buf")

AddedBytesMatch(p, n) ==
    ret = "true" /\ n > 0 /\ obj.buf.len > 0 =>
        BytesMatch(Plus(obj.buf.buffer, old.obj.buf.len), p, n)

(* The job is not built for libFuzzer. *)
ByteBufWriteSetup ==
    \E buf \in ValidBufs("buf"), len \in 0 .. MaxBufferSize,
       array \in BoundedMallocHavoc("array", MaxBufferSize) :
        tool # "fuzz" /\
        Reach("write", [buf |-> buf.s], [buf |-> buf.m, array |-> array.m],
              [array |-> array.s, len |-> len])

ByteBufWriteAsserts ==
    Written(arg.len) /\ AddedBytesMatch(arg.array, arg.len) /\ IsValid("buf")

Integer(p, width) == \E x \in Contents(width) : OneBuf(p, [x |-> x, width |-> width])

ByteBufWriteBe16Setup == Integer("write_be16", Width.be16)
ByteBufWriteBe16Asserts == Written(Width.be16) /\ IsValid("buf")

ByteBufWriteBe32Setup == Integer("write_be32", Width.be32)
ByteBufWriteBe32Asserts == Written(Width.be32) /\ IsValid("buf")

ByteBufWriteBe64Setup == Integer("write_be64", Width.be64)
ByteBufWriteBe64Asserts == Written(Width.be64) /\ IsValid("buf")

ByteBufWriteU8Setup == Integer("write_u8", 1)
ByteBufWriteU8Asserts == Written(1) /\ IsValid("buf")

(* src is passed by value: its bytes may change, its fields cannot.         *)
ByteBufWriteFromWholeBufferSetup ==
    \E buf \in ValidBufs("buf"), src \in ValidBufs("src") :
        Reach("write_from_whole_buffer", [buf |-> buf.s], [buf |-> buf.m, src |-> src.m],
              [src |-> Cursor(src.s.buffer, src.s.len)])

ByteBufWriteFromWholeBufferAsserts ==
    /\ Written(arg.src.len) /\ AddedBytesMatch(arg.src.ptr, arg.src.len)
    /\ IsValid("buf")
    /\ arg.src.len > 0 => AllMatch(mem, arg.src.ptr, SavedArg(arg.src))

ByteBufWriteFromWholeCursorSetup ==
    \E buf \in ValidBufs("buf"), src \in ValidCursors("src") :
        Reach("write_from_whole_cursor", [buf |-> buf.s], [buf |-> buf.m, src |-> src.m],
              [src |-> src.s])

ByteBufWriteFromWholeCursorAsserts ==
    /\ Written(arg.src.len) /\ AddedBytesMatch(arg.src.ptr, arg.src.len)
    /\ IsValid("buf") /\ CursorIsValid(arg.src)
    /\ AssertByteCursorEquivalence(mem, arg.src, arg.src, SavedArg(arg.src))

(* Either pointer may be NULL.                                              *)
ByteBufWriteFromWholeStringSetup ==
    \E buf \in ValidBufs("buf"), given \in BOOLEAN,
       str \in EnsureStringBoundedLength("str", MaxStringLen)
                   \cup {Built([bytes |-> Null, len |-> 0, allocator |-> "none"], NoBlock)} :
        Reach("write_from_whole_string", [buf |-> buf.s], [buf |-> buf.m, str |-> str.m],
              [given |-> given, str |-> str.s])

ByteBufWriteFromWholeStringAsserts ==
    LET str == arg.str
        old_buf == old.obj.buf
    IN  /\ IF ret = "true" /\ str.bytes # Null
           THEN /\ StringIsValid(str)
                /\ old_buf.capacity - old_buf.len >= str.len
                /\ arg.given =>
                       /\ obj.buf.len = old_buf.len + str.len
                       /\ SameFields("buf", {"capacity", "allocator"})
                       /\ AddedBytesMatch(str.bytes, str.len)
           ELSE BufSame("buf")
        /\ IsValid("buf")

-----------------------------------------------------------------------------

Setup ==
    /\ pc = "setup"
    /\ \/ ByteBufAdvanceSetup \/ ByteBufAppendSetup
       \/ ByteBufAppendDynamicSetup \/ ByteBufAppendWithLookupSetup
       \/ ByteBufCatSetup \/ ByteBufCleanUpSetup
       \/ ByteBufCleanUpSecureSetup \/ ByteBufEqSetup
       \/ ByteBufEqCStrSetup \/ ByteBufEqCStrIgnoreCaseSetup
       \/ ByteBufEqIgnoreCaseSetup \/ ByteBufFromArraySetup
       \/ ByteBufFromCStrSetup \/ ByteBufFromEmptyArraySetup
       \/ ByteBufInitSetup \/ ByteBufInitCopySetup
       \/ ByteBufInitCopyFromCursorSetup \/ ByteBufReserveSetup
       \/ ByteBufReserveRelativeSetup \/ ByteBufResetSetup
       \/ ByteBufSecureZeroSetup \/ ByteBufWriteSetup
       \/ ByteBufWriteBe16Setup \/ ByteBufWriteBe32Setup
       \/ ByteBufWriteBe64Setup \/ ByteBufWriteFromWholeBufferSetup
       \/ ByteBufWriteFromWholeCursorSetup \/ ByteBufWriteFromWholeStringSetup
       \/ ByteBufWriteU8Setup

(* What the library's function may leave and return. *)
Outcomes ==
    CASE proof = "advance" -> Advance
      [] proof = "append" -> Append
      [] proof = "append_dynamic" -> AppendDynamic
      [] proof = "append_with_lookup" -> AppendWithLookup
      [] proof = "cat" -> Cat
      [] proof \in {"clean_up", "clean_up_secure"} -> CleanUp
      [] proof = "eq" -> Says(SameBytes(obj.lhs.buffer, obj.lhs.len, obj.rhs.buffer, obj.rhs.len))
      [] proof = "eq_c_str" -> Says(SameBytes(obj.buf.buffer, obj.buf.len, arg.c_str, arg.len))
      [] proof = "eq_c_str_ignore_case" ->
           SaysIgnoringCase(obj.buf.buffer, obj.buf.len, arg.c_str, arg.len)
      [] proof = "eq_ignore_case" ->
           SaysIgnoringCase(obj.lhs.buffer, obj.lhs.len, obj.rhs.buffer, obj.rhs.len)
      [] proof = "from_array" -> {Does([buf |-> FromArray(arg.array, arg.length)], mem, "none")}
      [] proof = "from_c_str" -> {Does([buf |-> FromArray(arg.c_str, arg.len)], mem, "none")}
      [] proof = "from_empty_array" -> {Does([buf |-> [FromArray(arg.array, arg.length) EXCEPT !.len = 0]], mem, "none")}
      [] proof = "init" -> InitWith(arg.capacity, <<>>, 0)
      [] proof = "init_copy" -> InitCopy
      [] proof = "init_copy_from_cursor" ->
           InitWith(arg.cursor.len, CursorBytes(arg.cursor), arg.cursor.len)
      [] proof = "reserve" -> Reserve(arg.requested)
      [] proof = "reserve_relative" -> ReserveRelative(arg.requested)
      [] proof \in {"reset", "secure_zero"} -> Reset
      [] proof = "write" -> Write("buf", BytesAt(mem, arg.array, arg.len), arg.len)
      [] proof \in {"write_be16", "write_be32", "write_be64"} ->
           Write("buf", BigEndian(arg.x, arg.width), arg.width)
      [] proof \in {"write_from_whole_buffer", "write_from_whole_cursor"} ->
           Write("buf", CursorBytes(arg.src), arg.src.len)
      [] proof = "write_from_whole_string" ->
           IF arg.given /\ arg.str.bytes # Null
           THEN Write("buf", BytesAt(mem, arg.str.bytes, arg.str.len), arg.str.len)
           ELSE {Same("false")}
      [] proof = "write_u8" -> Write("buf", arg.x, 1)

Asserts ==
    CASE proof = "advance" -> ByteBufAdvanceAsserts
      [] proof = "append" -> ByteBufAppendAsserts
      [] proof = "append_dynamic" -> ByteBufAppendDynamicAsserts
      [] proof = "append_with_lookup" -> ByteBufAppendWithLookupAsserts
      [] proof = "cat" -> ByteBufCatAsserts
      [] proof = "clean_up" -> ByteBufCleanUpAsserts
      [] proof = "clean_up_secure" -> ByteBufCleanUpSecureAsserts
      [] proof = "eq" -> ByteBufEqAsserts
      [] proof = "eq_c_str" -> ByteBufEqCStrAsserts
      [] proof = "eq_c_str_ignore_case" -> ByteBufEqCStrIgnoreCaseAsserts
      [] proof = "eq_ignore_case" -> ByteBufEqIgnoreCaseAsserts
      [] proof = "from_array" -> ByteBufFromArrayAsserts
      [] proof = "from_c_str" -> ByteBufFromCStrAsserts
      [] proof = "from_empty_array" -> ByteBufFromEmptyArrayAsserts
      [] proof = "init" -> ByteBufInitAsserts
      [] proof = "init_copy" -> ByteBufInitCopyAsserts
      [] proof = "init_copy_from_cursor" -> ByteBufInitCopyFromCursorAsserts
      [] proof = "reserve" -> ByteBufReserveAsserts
      [] proof = "reserve_relative" -> ByteBufReserveRelativeAsserts
      [] proof = "reset" -> ByteBufResetAsserts
      [] proof = "secure_zero" -> ByteBufSecureZeroAsserts
      [] proof = "write" -> ByteBufWriteAsserts
      [] proof = "write_be16" -> ByteBufWriteBe16Asserts
      [] proof = "write_be32" -> ByteBufWriteBe32Asserts
      [] proof = "write_be64" -> ByteBufWriteBe64Asserts
      [] proof = "write_from_whole_buffer" -> ByteBufWriteFromWholeBufferAsserts
      [] proof = "write_from_whole_cursor" -> ByteBufWriteFromWholeCursorAsserts
      [] proof = "write_from_whole_string" -> ByteBufWriteFromWholeStringAsserts
      [] proof = "write_u8" -> ByteBufWriteU8Asserts

Next ==
    \/ Setup
    \/ Call(Outcomes) \/ SkippedCall(Outcomes)
    \/ Fault
    \/ Check(Asserts)

Spec == Init /\ [][Next]_vars

-----------------------------------------------------------------------------
(* The second generation (seahorn/jobs2): the same inputs and the same calls *)
(* with other assertions, which ask SeaHorn whether an object was written to *)
(* where the first generation compares a byte it saved.                    *)

Untouched(x) == ~Modified(x) /\ ~BytesModified(obj[x].buffer)

ByteBufAdvance2Asserts ==
    /\ IF ret = "true"
       THEN /\ obj.buf.len = old.obj.buf.len + arg.len
            /\ SameFields("buf", {"capacity"})
            /\ old.obj.buf.len > 0 => ~BytesModified(obj.buf.buffer)
            /\ obj.output = Buf(obj.output.buffer, 0, arg.len, "none")
       ELSE Untouched("buf") /\ obj.output = ZeroBuf
    /\ IsValid("buf") /\ IsValid("output")

(* One that asks whether to is modified whatever was returned, and one that *)
(* asks about the struct only.                                             *)
AppendedOrUntouched_Always ==
    /\ ret = "success" => obj.to.len = old.obj.to.len + arg.from.len
    /\ Untouched("to")
    /\ IsValid("to") /\ CursorIsValid(arg.from)
    /\ ~BytesModified(arg.from.ptr)

AppendedOrUntouched_StructOnly ==
    /\ IF ret = "success" THEN obj.to.len = old.obj.to.len + arg.from.len ELSE ~Modified("to")
    /\ IsValid("to") /\ CursorIsValid(arg.from)
    /\ ~BytesModified(arg.from.ptr)

(* The struct from is only read: its fields stay. *)
AppendedOrUntouched ==
    /\ IF ret = "success" THEN obj.to.len = old.obj.to.len + arg.from.len ELSE Untouched("to")
    /\ IsValid("to") /\ CursorIsValid(arg.from)
    /\ ~BytesModified(arg.from.ptr)

ByteBufAppend2Asserts == AppendedOrUntouched /\ SameFields("to", {"capacity"})
ByteBufAppendDynamic2Asserts == AppendedOrUntouched
ByteBufAppendWithLookup2Asserts == AppendedOrUntouched /\ SameFields("to", {"capacity"})

ByteBufCat2Asserts ==
    LET space == old.obj.dest.capacity - old.obj.dest.len
        total == obj.buffer1.len + obj.buffer2.len + obj.buffer3.len
    IN  /\ IF ret = "success" THEN space >= total ELSE space < total
        /\ \A x \in {"buffer1", "buffer2", "buffer3", "dest"} : IsValid(x)
        /\ \A x \in {"buffer1", "buffer2", "buffer3"} : Untouched(x)

ByteBufEq2Asserts ==
    /\ ret = "true" =>
           /\ obj.lhs.len = obj.rhs.len
           /\ obj.lhs.len > 0 => BytesMatch(obj.lhs.buffer, obj.rhs.buffer, obj.lhs.len)
    /\ \A x \in {"lhs", "rhs"} : IsValid(x) /\ Untouched(x)

ByteBufEqIgnoreCase2Asserts ==
    (ret = "true" => obj.lhs.len = obj.rhs.len) /\ \A x \in {"lhs", "rhs"} : Untouched(x)

ByteBufEqCStr2Asserts ==
    /\ ret = "true" =>
           /\ obj.buf.len = arg.len
           /\ obj.buf.len > 0 => BytesMatch(obj.buf.buffer, arg.c_str, obj.buf.len)
    /\ Untouched("buf") /\ ~BytesModified(arg.c_str)

ByteBufEqCStrIgnoreCase2Asserts ==
    (ret = "true" => obj.buf.len = arg.len) /\ Untouched("buf") /\ ~BytesModified(arg.c_str)

(* One byte is still saved, to compare the copy with.                       *)
ByteBufInitCopy2Asserts ==
    LET dest == obj.dest
        src == obj.src
    IN  ret = "success" =>
            /\ IsValid("dest") /\ HasAllocator(dest)
            /\ dest.len = src.len /\ dest.capacity = src.capacity
            /\ BytesMatch(dest.buffer, src.buffer, dest.len)
            /\ IsValid("src")
            /\ src.len > 0 => Untouched("src") /\ AllMatch(mem, dest.buffer, SavedBuf("src"))

WrittenOrUntouched_StructOnly(n) ==
    /\ IF ret = "true" THEN obj.buf.len = old.obj.buf.len + n /\ SameFields("buf", {"capacity"})
       ELSE ~Modified("buf")
    /\ IsValid("buf")

WrittenOrUntouched(n) ==
    /\ IF ret = "true" THEN obj.buf.len = old.obj.buf.len + n /\ SameFields("buf", {"capacity"})
       ELSE Untouched("buf")
    /\ IsValid("buf")

ByteBufWrite2Asserts == WrittenOrUntouched(arg.len) /\ AddedBytesMatch(arg.array, arg.len)
ByteBufWriteBe162Asserts == WrittenOrUntouched(Width.be16)
ByteBufWriteBe322Asserts == WrittenOrUntouched(Width.be32)
ByteBufWriteBe642Asserts == WrittenOrUntouched(Width.be64)
ByteBufWriteU82Asserts == WrittenOrUntouched(1)

(* src is passed by value. *)
FromWhole(src) ==
    WrittenOrUntouched(src.len) /\ AddedBytesMatch(src.ptr, src.len) /\ ~BytesModified(src.ptr)

ByteBufWriteFromWholeBuffer2Asserts == FromWhole(arg.src)
ByteBufWriteFromWholeCursor2Asserts == CursorIsValid(arg.src) /\ FromWhole(arg.src)

ByteBufWriteFromWholeString2Asserts ==
    LET str == arg.str
        old_buf == old.obj.buf
    IN  /\ IF ret = "true" /\ str.bytes # Null
           THEN /\ StringIsValid(str)
                /\ old_buf.capacity - old_buf.len >= str.len
                /\ arg.given => /\ obj.buf.len = old_buf.len + str.len
                                /\ SameFields("buf", {"capacity"})
                                /\ AddedBytesMatch(str.bytes, str.len)
           ELSE Untouched("buf")
        /\ IsValid("buf")

SecondGeneration ==
    {"advance", "append", "append_dynamic", "append_with_lookup", "cat",
     "eq", "eq_c_str", "eq_c_str_ignore_case", "eq_ignore_case",
     "init_copy", "write", "write_be16", "write_be32", "write_be64",
     "write_from_whole_buffer", "write_from_whole_cursor",
     "write_from_whole_string", "write_u8"}

(* Its verdict where the first generation has given one. *)
SecondRuns == Judged /\ tool = "sea" /\ proof \in SecondGeneration

Asserts2 ==
    CASE proof = "advance" -> ByteBufAdvance2Asserts
      [] proof = "append" -> ByteBufAppend2Asserts
      [] proof = "append_dynamic" -> ByteBufAppendDynamic2Asserts
      [] proof = "append_with_lookup" -> ByteBufAppendWithLookup2Asserts
      [] proof = "cat" -> ByteBufCat2Asserts
      [] proof = "eq" -> ByteBufEq2Asserts
      [] proof = "eq_c_str" -> ByteBufEqCStr2Asserts
      [] proof = "eq_c_str_ignore_case" -> ByteBufEqCStrIgnoreCase2Asserts
      [] proof = "eq_ignore_case" -> ByteBufEqIgnoreCase2Asserts
      [] proof = "init_copy" -> ByteBufInitCopy2Asserts
      [] proof = "write" -> ByteBufWrite2Asserts
      [] proof = "write_be16" -> ByteBufWriteBe162Asserts
      [] proof = "write_be32" -> ByteBufWriteBe322Asserts
      [] proof = "write_be64" -> ByteBufWriteBe642Asserts
      [] proof = "write_from_whole_buffer" -> ByteBufWriteFromWholeBuffer2Asserts
      [] proof = "write_from_whole_cursor" -> ByteBufWriteFromWholeCursor2Asserts
      [] proof = "write_from_whole_string" -> ByteBufWriteFromWholeString2Asserts
      [] proof = "write_u8" -> ByteBufWriteU82Asserts

-----------------------------------------------------------------------------

TypeOK ==
    /\ tool \in Tools
    /\ pc \in {"setup", "call", "check", "passed", "failed"}
    /\ \A x \in DOMAIN obj : obj[x].len \in 0 .. SizeMax
    /\ \A b \in DOMAIN mem : \E n \in 0 .. SizeMax : mem[b] \in Contents(n)
    /\ faults \in 0 .. MaxFaults

(* Nothing valid can be made from an array that malloc refused. *)
ArrayIsMissing == proof \in {"from_array", "from_empty_array"} /\ Missing(arg.array, arg.length)

(* But for that one, no unit proof fails for a correct library, whatever the *)
(* helpers of the three tools build and however the compared bytes are     *)
(* chosen: the inputs with shared memory, NULL or no bytes included.       *)
NoFalseAlarm == pc = "failed" => Differences # {} \/ ArrayIsMissing

(* What a unit proof looks at after its call.                               *)
Shape(x) == Field(x, {"len", "capacity", "allocator"})
Prefix(x) == ByteOf(x, 0 .. old.obj[x].len - 1)
Answer == {<<"ret", ret>>}
OnSuccess(places) == IF ret = "success" THEN places ELSE {}

Watched ==
    CASE proof = "advance" -> Shape("buf") \cup Shape("output") \cup Prefix("buf")
      [] proof \in {"append", "append_with_lookup"} -> Shape("to")
      [] proof = "append_dynamic" -> Field("to", {"len", "allocator"})
      [] proof = "cat" -> Answer \cup UNION {Shape(x) \cup Prefix(x) : x \in DOMAIN obj \ {"dest"}}
      [] proof \in {"clean_up", "clean_up_secure"} -> Shape("buf") \cup Field("buf", {"buffer"})
      [] proof \in {"eq", "eq_ignore_case", "eq_c_str", "eq_c_str_ignore_case"} ->
           (UNION {Shape(x) \cup Prefix(x) : x \in DOMAIN obj})
           \cup (IF ret = "true" /\ proof \in {"eq", "eq_c_str"} THEN Answer ELSE {})
           \cup (IF proof = "eq_c_str" THEN ByteOf("c_str", 0 .. arg.len - 1) ELSE {})
      [] proof \in {"from_array", "from_c_str", "from_empty_array"} -> Shape("buf")
      [] proof = "init" -> OnSuccess(Shape("buf"))
      [] proof = "init_copy" -> OnSuccess(Shape("dest") \cup Field("src", {"len", "capacity"}) \cup Prefix("src"))
      [] proof = "init_copy_from_cursor" -> OnSuccess(Shape("buf"))
      [] proof = "reset" -> Shape("buf") \cup Field("buf", {"buffer"})
                            \cup (IF arg.zero THEN ByteOf("buf", DOMAIN mem["buf"]) ELSE {})
      [] proof = "secure_zero" -> Field("buf", {"len"}) \cup ByteOf("buf", DOMAIN mem["buf"])
      [] proof \in {"write", "write_from_whole_buffer", "write_from_whole_cursor"} ->
           Shape("buf") \cup (IF ret = "true" THEN ByteOf("buf", old.obj.buf.len .. obj.buf.len - 1)
                              ELSE Prefix("buf"))
      [] proof \in {"write_be16", "write_be32", "write_be64", "write_u8"} ->
           Shape("buf") \cup (IF ret = "true" THEN {} ELSE Prefix("buf"))
      [] proof = "write_from_whole_string" -> Shape("buf")
      [] OTHER -> {}

(* A unit proof that passes has seen that the fields it looks at, the bytes *)
(* whose comparison it leaves to an arbitrary choice, and its answer are    *)
(* right: a library that gets one of them wrong is noticed.                 *)
PassedMeansCorrect == pc = "passed" => Differences \cap Watched = {}

(* A buffer that a call of a correct library leaves is one that the helpers *)
(* build, up to its bytes, so that the unit proofs have tried what is       *)
(* called next; all but those without an allocator, those that have grown   *)
(* beyond the maximum and, with libFuzzer, those whose length or capacity is *)
(* as large as it may be.                                                  *)
NextCallIsTried ==
    pc = "passed" /\ faults = 0 =>
        \A x \in DOMAIN obj :
            \/ ~HasAllocator(obj[x]) \/ obj[x].capacity > MaxBufferSize
            \/ /\ tool = "fuzz"
               /\ obj[x].capacity = MaxBufferSize \/ obj[x].len = obj[x].capacity
            \/ \E buf \in ValidBufs("buf") :
                   buf.s.len = obj[x].len /\ buf.s.capacity = obj[x].capacity

(* No unit proof of the second generation fails for a library that is       *)
(* correct: what it says is not modified, a correct function leaves alone. *)
NoFalseAlarm2 == SecondRuns /\ ~Asserts2 => Differences # {}

(* What the second generation passes the first one passes too; all but an   *)
(* allocator that changed, which sea_is_modified(buf.allocator) does not    *)
(* look at, and a pointer of advance that moved within its block.          *)
FirstPassesToo ==
    SecondRuns /\ Asserts2 /\ ~Asserts =>
        Differences \subseteq Field("buf", {"allocator"}) \cup Field("to", {"allocator"})
                              \cup (IF proof = "advance" THEN Field("buf", {"buffer"}) ELSE {})

(* "if the operation return an error, to must not change": the first        *)
(* generation of the three appends compares the bytes of to with themselves *)
(* and those of from with nothing.  An append that writes to from, or that  *)
(* fails and has written to the bytes of to, passes it and fails the second.*)
OnlySecondLooksAt ==
    ByteOf("from", DOMAIN old.mem["from"])
    \cup (IF ret = "error" THEN ByteOf("to", DOMAIN old.mem["to"]) ELSE {})

SecondNoticesMore ==
    /\ SecondRuns /\ proof \in {"append", "append_dynamic", "append_with_lookup"}
    /\ Differences # {} /\ Differences \subseteq OnlySecondLooksAt
    => Asserts /\ ~Asserts2
=============================================================================
