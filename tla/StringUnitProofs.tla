-------------------------- MODULE StringUnitProofs --------------------------
(***************************************************************************)
(* The string_* and array_eq* unit proofs of seahorn/jobs.  Each has a      *)
(* Setup, up to its call, and Asserts, what it asserts after it; what the  *)
(* library's function does is an operator without either suffix.           *)
(*                                                                         *)
(* The fields of a string are const and are passed in arg; its bytes are a *)
(* block.  free leaves the bytes where they are for SeaHorn, and takes the  *)
(* block away for libFuzzer, whose build has an address sanitizer.         *)
(***************************************************************************)
EXTENDS ByteBufHelper

NoStr == [bytes |-> Null, len |-> 0, allocator |-> "none"]
NewStr(len) == [bytes |-> StartOf("new"), len |-> len, allocator |-> "sea"]

OptionalStr(b, max_size) == {Built(NoStr, NoBlock)} \cup EnsureStringBoundedLength(b, max_size)

EnsureStringNondetLength(b) == EnsureStringBoundedLength(b, MaxStringLen)

(* sea_string.cc: the loop is unrolled MAX_STRING_LEN times. *)
SeaStrlen_OneEarly(p, max_size) ==
    LET zeroes == {i \in 0 .. MaxStringLen - 2 : HasByte(mem, Plus(p, i), 0)}
    IN  IF zeroes = {} THEN 0 ELSE CHOOSE i \in zeroes : \A j \in zeroes : i <= j

SeaStrlen(p, max_size) ==
    LET zeroes == {i \in 0 .. MaxStringLen - 1 : HasByte(mem, Plus(p, i), 0)}
        size == IF zeroes = {} THEN MaxStringLen ELSE CHOOSE i \in zeroes : \A j \in zeroes : i <= j
    IN  IF size <= max_size THEN size ELSE 0

Strlen(p) == SeaStrlen(p, MaxStringLen)

-----------------------------------------------------------------------------
(* The library. *)

StrEq(a, b) ==
    IF a = NoStr \/ b = NoStr THEN a = b ELSE SameBytes(a.bytes, a.len, b.bytes, b.len)

(* A string and an array of n bytes, which is not there if given is FALSE.  *)
StrEqArray(str, given, p, n) ==
    IF str = NoStr \/ ~given THEN str = NoStr /\ ~given ELSE SameBytes(str.bytes, str.len, p, n)

IgnoringCase(equal, k, n, both) == Says(equal) \cup (IF both /\ k = n THEN Says(TRUE) ELSE {})

Compare(a, b) == {Same(IF StrEq(a, b) THEN "zero" ELSE "nonzero")}

NewFromArray_NoTerminator(p, n) ==
    {Does([str |-> NewStr(n)],
          [b \in DOMAIN mem \cup {"new"} |->
               IF b = "new" THEN [i \in 0 .. n - 1 |-> ByteAt(mem, Plus(p, i))] ELSE mem[b]], "none")}

(* A new string, if there is memory for it; the copy follows p. *)
NewFromArray(p, n) ==
    {Same("none")} \cup
    {IF n > 0 /\ p = Null THEN Same("crash")
     ELSE Does([str |-> NewStr(n)],
               [b \in DOMAIN mem \cup {"new"} |->
                    IF b = "new" THEN [i \in 0 .. n |-> IF i = n THEN 0 ELSE ByteAt(mem, Plus(p, i))]
                    ELSE mem[b]], "none")}

Freed(m, b) == IF tool = "sea" THEN m ELSE [c \in DOMAIN m \ {b} |-> m[c]]

Destroy == {Does(obj, IF arg.str = NoStr THEN mem ELSE Freed(mem, "str"), "none")}

DestroySecure ==
    {Does(obj, IF ~arg.given THEN mem
               ELSE Freed([mem EXCEPT !["str"] = [i \in DOMAIN @ |-> 0]], "str"), "none")}

-----------------------------------------------------------------------------
(* The unit proofs of strings. *)

StringBytesSetup ==
    \E str \in EnsureStringNondetLength("str") :
        Reach("bytes", [result |-> [ptr |-> Null]], [str |-> str.m], [str |-> str.s])

StringBytesAsserts == obj.result.ptr = arg.str.bytes /\ StringIsValid(arg.str)

(* str_b may be str_a and, for some, NULL. *)
TwoStrings(p, max_size, may_be_null, swap) ==
    \E a \in OptionalStr("str_a", max_size), other \in swap :
        \/ Reach(p, <<>>, [str_a |-> a.m], [a |-> a.s, b |-> a.s, other |-> other])
        \/ may_be_null /\ Reach(p, <<>>, [str_a |-> a.m], [a |-> a.s, b |-> NoStr, other |-> other])
        \/ \E b \in EnsureStringBoundedLength("str_b", max_size) :
               Reach(p, <<>>, [str_a |-> a.m, str_b |-> b.m], [a |-> a.s, b |-> b.s, other |-> other])

Both == arg.a # NoStr /\ arg.b # NoStr

StringCompareSetup == TwoStrings("compare", MaxBufferSize, TRUE, BOOLEAN)

StringCompareAsserts ==
    /\ ret = "zero" /\ arg.other /\ Both => BytesMatch(arg.a.bytes, arg.b.bytes, arg.a.len)
    /\ \A str \in {arg.a, arg.b} \ {NoStr} : StringIsValid(str)

StringDestroySetup ==
    \E str \in OptionalStr("str", MaxStringLen) : Reach("destroy", <<>>, [str |-> str.m], [str |-> str.s])

StringDestroyAsserts == TRUE

StringDestroySecureSetup ==
    \E str \in EnsureStringBoundedLength("str", MaxStringLen), given \in BOOLEAN :
        Reach("destroy_secure", <<>>, [str |-> str.m], [str |-> str.s, given |-> given])

(* The bytes are looked at after they are freed; not by KLEE. *)
StringDestroySecureAsserts ==
    arg.given /\ tool # "klee" => AssertAllZeroes(mem, arg.str.bytes, arg.str.len)

StringEqSetup == TwoStrings("eq", MaxBufferSize, FALSE, {TRUE})

StringEqAsserts ==
    ret = "true" /\ Both => arg.a.len = arg.b.len /\ BytesMatch(arg.a.bytes, arg.b.bytes, arg.a.len)

StrAndStruct(p, x, structs) ==
    \E str \in OptionalStr("str", MaxStringLen), s \in structs, given \in BOOLEAN :
        Reach(p, [y \in {x} |-> s.s], [y \in {"str", x} |-> IF y = x THEN s.m ELSE str.m],
              [str |-> str.s, given |-> given])

StringEqByteBufSetup == StrAndStruct("eq_byte_buf", "buf", ValidBufs("buf"))

StringEqByteBufAsserts ==
    /\ ret = "true" /\ arg.str # NoStr =>
           /\ arg.str.len = obj.buf.len
           /\ BytesMatch(arg.str.bytes, obj.buf.buffer, arg.str.len)
    /\ IsValid("buf")

StringEqByteBufIgnoreCaseSetup == StrAndStruct("eq_byte_buf_ignore_case", "buf", ValidBufs("buf"))

StringEqByteBufIgnoreCaseAsserts ==
    /\ ret = "true" /\ arg.str # NoStr /\ arg.given => arg.str.len = obj.buf.len
    /\ IsValid("buf")

StringEqByteCursorSetup == StrAndStruct("eq_byte_cursor", "cursor", ValidCursors("cursor"))

StringEqByteCursorAsserts ==
    /\ ret = "true" /\ arg.str # NoStr /\ arg.given =>
           /\ arg.str.len = obj.cursor.len
           /\ arg.str.len > 0 => BytesMatch(arg.str.bytes, obj.cursor.ptr, arg.str.len)
    /\ CursorIsValid(obj.cursor)

StringEqByteCursorIgnoreCaseSetup ==
    StrAndStruct("eq_byte_cursor_ignore_case", "cursor", ValidCursors("cursor"))

StringEqByteCursorIgnoreCaseAsserts ==
    /\ ret = "true" /\ arg.str # NoStr /\ arg.given => arg.str.len = obj.cursor.len
    /\ CursorIsValid(obj.cursor)

StrAndCStr(p) ==
    \E str \in OptionalStr("str", MaxStringLen), c_str \in EnsureCStrIsNdAllocated("c_str", MaxStringLen, 0) :
        Reach(p, <<>>, [str |-> str.m, c_str |-> c_str.m],
              [str |-> str.s, c_str |-> c_str.s, len |-> c_str.len])

StringEqCStrSetup == StrAndCStr("eq_c_str")

StringEqCStrAsserts ==
    ret = "true" /\ arg.str # NoStr /\ arg.c_str # Null =>
        /\ arg.str.len = arg.len
        /\ BytesMatch(arg.str.bytes, arg.c_str, arg.str.len)

StringEqCStrIgnoreCaseSetup == StrAndCStr("eq_c_str_ignore_case")

StringEqCStrIgnoreCaseAsserts ==
    ret = "true" /\ arg.str # NoStr /\ arg.c_str # Null => arg.str.len = arg.len

StringEqIgnoreCaseSetup == TwoStrings("eq_ignore_case", MaxStringLen, TRUE, {TRUE})
StringEqIgnoreCaseAsserts == ret = "true" /\ Both => arg.a.len = arg.b.len

StringNewFromArraySetup ==
    \E size \in 0 .. MaxStringLen - 1 : \E array \in BoundedMallocHavoc("array", size), reported_size \in 0 .. size :
        Reach("new_from_array", [str |-> NoStr], [array |-> array.m], [p |-> array.s, len |-> reported_size])

StringNewAsserts(p, n) ==
    obj.str.bytes # Null =>
        /\ obj.str.len = n
        /\ HasByte(mem, Plus(obj.str.bytes, obj.str.len), 0)
        /\ BytesMatch(obj.str.bytes, p, obj.str.len)

StringNewFromArrayAsserts == StringNewAsserts(arg.p, arg.len)

StringNewFromCStrSetup ==
    \E c_str \in EnsureCStrIsNdAllocatedSafe("c_str", MaxStringLen) :
        Reach("new_from_c_str", [str |-> NoStr], [c_str |-> c_str.m], [p |-> c_str.s, len |-> c_str.len])

StringNewFromCStrAsserts == StringNewAsserts(arg.p, arg.len)

StringNewFromStringSetup ==
    \E source \in EnsureStringNondetLength("source") :
        Reach("new_from_string", [str |-> NoStr], [source |-> source.m], [p |-> source.s.bytes, len |-> source.s.len])

StringNewFromStringAsserts ==
    StringNewAsserts(arg.p, arg.len) /\ (obj.str.bytes # Null => obj.str.allocator = "sea")

-----------------------------------------------------------------------------
(* The unit proofs of arrays. *)

SavedArray(p, n) == SaveByteFromArray(old.mem, p, n)

(* A block that could not be allocated is left out unless it has no bytes;  *)
(* rhs may be lhs.                                                         *)
TwoArrays(p, Alloc(_, _)) ==
    \E n \in 0 .. MaxBufferSize : \E lhs \in {x \in Alloc("lhs", n) : n = 0 \/ x.s # Null} :
        \/ Reach(p, <<>>, [lhs |-> lhs.m], [lhs |-> lhs.s, lhs_len |-> n, rhs |-> lhs.s, rhs_len |-> n])
        \/ \E k \in 0 .. MaxBufferSize : \E rhs \in {x \in Alloc("rhs", k) : k = 0 \/ x.s # Null} :
               Reach(p, <<>>, [lhs |-> lhs.m, rhs |-> rhs.m],
                     [lhs |-> lhs.s, lhs_len |-> n, rhs |-> rhs.s, rhs_len |-> k])

ArraysKept ==
    /\ arg.lhs_len > 0 => AllMatch(mem, arg.lhs, SavedArray(arg.lhs, arg.lhs_len))
    /\ arg.rhs_len > 0 => AllMatch(mem, arg.rhs, SavedArray(arg.rhs, arg.rhs_len))

ArrayEqSetup == TwoArrays("array_eq", CanFailMallocHavoc)

ArrayEqAsserts ==
    /\ ret = "true" => /\ arg.lhs_len = arg.rhs_len
                       /\ arg.lhs_len > 0 /\ arg.lhs # Null => BytesMatch(arg.lhs, arg.rhs, arg.lhs_len)
    /\ ArraysKept

ArrayEqIgnoreCaseSetup == TwoArrays("array_eq_ignore_case", BoundedMallocHavoc)
ArrayEqIgnoreCaseAsserts == (ret = "true" => arg.lhs_len = arg.rhs_len) /\ ArraysKept

ArrayAndCStr(p, blocks(_)) ==
    \E n \in 0 .. MaxBufferSize : \E array \in blocks(n) :
        \E c_str \in EnsureCStrIsNdAllocatedSafe("rhs", MaxBufferSize) :
            /\ array.s # Null \/ n = 0
            /\ Reach(p, <<>>, [lhs |-> array.m, rhs |-> c_str.m],
                     [lhs |-> array.s, lhs_len |-> n, rhs |-> c_str.s, rhs_len |-> c_str.len])

ArrayEqCStrSetup == LET OfLen(n) == BoundedMallocHavoc("lhs", n) IN ArrayAndCStr("array_eq_c_str", OfLen)

ArrayEqCStrAsserts ==
    /\ ret = "true" => /\ arg.lhs_len = arg.rhs_len
                       /\ arg.lhs_len > 0 => BytesMatch(arg.lhs, arg.rhs, arg.lhs_len)
    /\ ArraysKept

(* The block is larger than the array. *)
ArrayEqCStrIgnoreCaseSetup ==
    LET Largest(n) == CanFailMallocHavoc("lhs", MaxBufferSize)
    IN  ArrayAndCStr("array_eq_c_str_ignore_case", Largest)

ArrayEqCStrIgnoreCaseAsserts == (ret = "true" => arg.lhs_len = arg.rhs_len) /\ ArraysKept

-----------------------------------------------------------------------------

Setup ==
    /\ pc = "setup"
    /\ \/ StringBytesSetup \/ StringCompareSetup \/ StringDestroySetup \/ StringDestroySecureSetup
       \/ StringEqSetup \/ StringEqByteBufSetup \/ StringEqByteBufIgnoreCaseSetup
       \/ StringEqByteCursorSetup \/ StringEqByteCursorIgnoreCaseSetup \/ StringEqCStrSetup
       \/ StringEqCStrIgnoreCaseSetup \/ StringEqIgnoreCaseSetup \/ StringNewFromArraySetup
       \/ StringNewFromCStrSetup \/ StringNewFromStringSetup
       \/ ArrayEqSetup \/ ArrayEqIgnoreCaseSetup \/ ArrayEqCStrSetup \/ ArrayEqCStrIgnoreCaseSetup

Outcomes ==
    CASE proof = "bytes" -> {Does([result |-> [ptr |-> arg.str.bytes]], mem, "none")}
      [] proof = "compare" -> Compare(arg.a, IF arg.other THEN arg.b ELSE arg.a)
      [] proof = "destroy" -> Destroy
      [] proof = "destroy_secure" -> DestroySecure
      [] proof = "eq" -> Says(StrEq(arg.a, arg.b))
      [] proof = "eq_ignore_case" -> IgnoringCase(StrEq(arg.a, arg.b), arg.a.len, arg.b.len, Both)
      [] proof = "eq_byte_buf" -> Says(StrEqArray(arg.str, arg.given, obj.buf.buffer, obj.buf.len))
      [] proof = "eq_byte_buf_ignore_case" ->
           IgnoringCase(StrEqArray(arg.str, arg.given, obj.buf.buffer, obj.buf.len),
                        arg.str.len, obj.buf.len, arg.str # NoStr /\ arg.given)
      [] proof = "eq_byte_cursor" -> Says(StrEqArray(arg.str, arg.given, obj.cursor.ptr, obj.cursor.len))
      [] proof = "eq_byte_cursor_ignore_case" ->
           IgnoringCase(StrEqArray(arg.str, arg.given, obj.cursor.ptr, obj.cursor.len),
                        arg.str.len, obj.cursor.len, arg.str # NoStr /\ arg.given)
      [] proof = "eq_c_str" -> Says(StrEqArray(arg.str, arg.c_str # Null, arg.c_str, Strlen(arg.c_str)))
      [] proof = "eq_c_str_ignore_case" ->
           IgnoringCase(StrEqArray(arg.str, arg.c_str # Null, arg.c_str, Strlen(arg.c_str)),
                        arg.str.len, Strlen(arg.c_str), arg.str # NoStr /\ arg.c_str # Null)
      [] proof \in {"new_from_array", "new_from_string"} -> NewFromArray(arg.p, arg.len)
      [] proof = "new_from_c_str" -> NewFromArray(arg.p, Strlen(arg.p))
      [] proof = "array_eq" -> Says(SameBytes(arg.lhs, arg.lhs_len, arg.rhs, arg.rhs_len))
      [] proof = "array_eq_c_str" -> Says(SameBytes(arg.lhs, arg.lhs_len, arg.rhs, Strlen(arg.rhs)))
      [] proof = "array_eq_ignore_case" -> SaysIgnoringCase(arg.lhs, arg.lhs_len, arg.rhs, arg.rhs_len)
      [] proof = "array_eq_c_str_ignore_case" -> SaysIgnoringCase(arg.lhs, arg.lhs_len, arg.rhs, Strlen(arg.rhs))

Asserts ==
    CASE proof = "bytes" -> StringBytesAsserts
      [] proof = "compare" -> StringCompareAsserts
      [] proof = "destroy" -> StringDestroyAsserts
      [] proof = "destroy_secure" -> StringDestroySecureAsserts
      [] proof = "eq" -> StringEqAsserts
      [] proof = "eq_byte_buf" -> StringEqByteBufAsserts
      [] proof = "eq_byte_buf_ignore_case" -> StringEqByteBufIgnoreCaseAsserts
      [] proof = "eq_byte_cursor" -> StringEqByteCursorAsserts
      [] proof = "eq_byte_cursor_ignore_case" -> StringEqByteCursorIgnoreCaseAsserts
      [] proof = "eq_c_str" -> StringEqCStrAsserts
      [] proof = "eq_c_str_ignore_case" -> StringEqCStrIgnoreCaseAsserts
      [] proof = "eq_ignore_case" -> StringEqIgnoreCaseAsserts
      [] proof = "new_from_array" -> StringNewFromArrayAsserts
      [] proof = "new_from_c_str" -> StringNewFromCStrAsserts
      [] proof = "new_from_string" -> StringNewFromStringAsserts
      [] proof = "array_eq" -> ArrayEqAsserts
      [] proof = "array_eq_c_str" -> ArrayEqCStrAsserts
      [] proof = "array_eq_ignore_case" -> ArrayEqIgnoreCaseAsserts
      [] proof = "array_eq_c_str_ignore_case" -> ArrayEqCStrIgnoreCaseAsserts

Next ==
    \/ Setup
    \/ Call(Outcomes) \/ SkippedCall(Outcomes)
    \/ Fault
    \/ Check(ret # "crash" /\ Asserts)

Spec == Init /\ [][Next]_vars

-----------------------------------------------------------------------------
(* The second generation (seahorn/jobs2): the same inputs and the same calls *)
(* with other assertions, which ask SeaHorn whether an object was written to *)
(* where the first generation compares a byte it saved.                    *)

BlocksUntouched_FirstOnly == ~BytesModified(arg.lhs)
BlocksUntouched == ~BytesModified(arg.lhs) /\ ~BytesModified(arg.rhs)

ArrayEq2Asserts_LengthsOnly ==
    /\ arg.lhs_len = arg.rhs_len /\ arg.lhs_len > 0 /\ arg.lhs # Null =>
           BytesMatch(arg.lhs, arg.rhs, arg.lhs_len)
    /\ BlocksUntouched

ArrayEq2Asserts ==
    /\ ret = "true" => /\ arg.lhs_len = arg.rhs_len
                       /\ arg.lhs_len > 0 /\ arg.lhs # Null => BytesMatch(arg.lhs, arg.rhs, arg.lhs_len)
    /\ BlocksUntouched

ArrayEqIgnoreCase2Asserts == (ret = "true" => arg.lhs_len = arg.rhs_len) /\ BlocksUntouched

ArrayEqCStr2Asserts ==
    /\ ret = "true" => /\ arg.lhs_len = arg.rhs_len
                       /\ arg.lhs_len > 0 => BytesMatch(arg.lhs, arg.rhs, arg.lhs_len)
    /\ BlocksUntouched

ArrayEqCStrIgnoreCase2Asserts == (ret = "true" => arg.lhs_len = arg.rhs_len) /\ BlocksUntouched

SecondGeneration ==
    {"array_eq", "array_eq_c_str", "array_eq_ignore_case",
     "array_eq_c_str_ignore_case"}

(* Its verdict where the first generation has given one. *)
SecondRuns == Judged /\ tool = "sea" /\ proof \in SecondGeneration

Asserts2 ==
    CASE proof = "array_eq" -> ArrayEq2Asserts
      [] proof = "array_eq_c_str" -> ArrayEqCStr2Asserts
      [] proof = "array_eq_ignore_case" -> ArrayEqIgnoreCase2Asserts
      [] proof = "array_eq_c_str_ignore_case" -> ArrayEqCStrIgnoreCase2Asserts

-----------------------------------------------------------------------------

TypeOK ==
    /\ tool \in Tools
    /\ pc \in {"setup", "call", "check", "passed", "failed"}
    /\ \A x \in DOMAIN obj \cap {"str", "buf", "cursor"} : obj[x].len \in 0 .. SizeMax
    /\ "new" \in DOMAIN mem => mem["new"] \in Contents(want.obj.str.len + 1)
    /\ \A b \in DOMAIN mem : mem[b] \in UNION {Contents(n) : n \in 0 .. SizeMax}
    /\ faults \in 0 .. MaxFaults

(* With a correct library one unit proof fails, the one whose test is set    *)
(* to WILL_FAIL: libFuzzer's build of destroy_secure, when it looks at      *)
(* bytes that are freed.  It does whenever the string has any.  And a call  *)
(* dies that copies from an array which malloc refused.                    *)
OnlyTheExpectedFailure ==
    pc \in {"passed", "failed"} /\ faults = 0 =>
        (pc = "failed" <=>
            \/ /\ tool = "fuzz" /\ proof = "destroy_secure"
               /\ arg.given /\ arg.str.len > 0
            \/ proof = "new_from_array" /\ Missing(arg.p, arg.len) /\ ret = "crash")

(* What a unit proof looks at after its call: the bytes of a watched array, *)
(* and an answer that two different things are the same.                   *)
If(condition, places) == IF condition THEN places ELSE {}
Found(answer) == {<<"ret", answer>>}

(* string_compare compares as many bytes as str_a has, and not the lengths: *)
(* a str_b that goes on, or whose terminating zero str_a has as a byte,     *)
(* goes unnoticed.                                                         *)
Watched ==
    CASE proof = "bytes" -> Field("result", {"ptr"})
      [] proof = "compare" ->
           If(arg.other /\ Both /\ arg.b.len = arg.a.len, Found("zero"))
      [] proof = "destroy_secure" -> If(arg.given, ByteOf("str", 0 .. arg.str.len - 1))
      [] proof = "eq" -> If(Both, Found("true"))
      [] proof \in {"eq_byte_buf", "eq_byte_cursor"} ->
           If(arg.str # NoStr /\ arg.given, Found("true"))
      [] proof = "eq_c_str" -> If(arg.str # NoStr /\ arg.c_str # Null, Found("true"))
      [] proof \in {"new_from_array", "new_from_c_str", "new_from_string"} ->
           If(obj.str.bytes # Null, Field("str", {"len"}) \cup ByteOf("new", 0 .. arg.len))
      [] proof \in {"array_eq", "array_eq_c_str"} ->
           ByteOf("lhs", 0 .. arg.lhs_len - 1) \cup ByteOf("rhs", 0 .. arg.rhs_len - 1) \cup Found("true")
      [] proof \in {"array_eq_ignore_case", "array_eq_c_str_ignore_case"} ->
           ByteOf("lhs", 0 .. arg.lhs_len - 1) \cup ByteOf("rhs", 0 .. arg.rhs_len - 1)
      [] OTHER -> {}

(* A unit proof that passes has seen that the bytes it compares, the length *)
(* of a new string and an answer that two strings are equal are right: a    *)
(* library that gets one of them wrong is noticed.                          *)
PassedMeansCorrect == pc = "passed" => Differences \cap Watched = {}

(* No unit proof of the second generation fails for a library that is       *)
(* correct: what it says is not modified, a correct function leaves alone. *)
NoFalseAlarm2 == SecondRuns /\ ~Asserts2 => Differences # {}

(* Behind an array its block may go on, and behind a C string is the 0 that  *)
(* ends it.  The first generation looks at no byte there: a comparison that *)
(* writes one passes it and fails the second.                               *)
OnlySecondLooksAt ==
    ByteOf("lhs", {i \in DOMAIN old.mem["lhs"] : i >= arg.lhs_len})
    \cup (IF arg.rhs = arg.lhs THEN {} ELSE ByteOf("rhs", {i \in DOMAIN old.mem["rhs"] : i >= arg.rhs_len}))

SecondNoticesMore ==
    SecondRuns /\ Differences # {} /\ Differences \subseteq OnlySecondLooksAt => Asserts /\ ~Asserts2
=============================================================================
