---------------------- MODULE HashFunctionUnitProofs ----------------------
(***************************************************************************)
(* The unit proofs of the hash functions and of the callbacks a hash table  *)
(* is given.  Most assert nothing of a hash: they are there for what the    *)
(* call reads, which every tool checks by itself.  So an assertion here is  *)
(* what the program asserts and that the memory its call reads is there.    *)
(***************************************************************************)
EXTENDS ByteBufHelper, TLC

CONSTANT Alignment    \* sizeof(intmax_t)

AlignmentIsPositive == Alignment \in Nat \ {0}

Strings == INSTANCE StringUnitProofs

(* The aligned variants of the helpers: a block is as long as a multiple of *)
(* the alignment.                                                          *)
AlignRoundUp_Down(n) == (n \div Alignment) * Alignment
AlignRoundUp(n) == ((n + Alignment - 1) \div Alignment) * Alignment

SeaMallocAlignedHavoc(b, n) ==
    ForTool(SeaCanFailMallocHavoc(b, AlignRoundUp(n)), KleeCanFailMallocHavoc(b, AlignRoundUp(n)),
            FuzzMallocHavoc(b, AlignRoundUp(n)))

InitializeByteCursorAligned(b) ==
    UNION {{Built(Cursor(r.s, len), r.m) :
                len \in ForTool(0 .. MaxBufferSize, IF r.s = Null THEN {0} ELSE 0 .. MaxBufferSize,
                                {n % MaxBufferSize : n \in 0 .. SizeMax})} :
               r \in SeaMallocAlignedHavoc(b, MaxBufferSize)}

(* sea_init_str: a zero ends the string at len and nowhere before it.       *)
IsStr(r, len) == \A i \in DOMAIN r.m : i <= len => (r.m[i] = 0 <=> i = len)

EnsureCStrIsNdAllocatedAligned(b, max_size) ==
    UNION {{Built(r.s, r.m) : r \in {x \in SeaMallocAlignedHavoc(b, n) : x.s = Null \/ IsStr(x, n - 1)}} :
               n \in 1 .. max_size}

CStringIsValid(p) == p # Null

EndsAsString(p) ==
    \E len \in 0 .. MaxStringLen - 1 : Readable(mem, p, len + 1) /\ HasByte(mem, Plus(p, len), 0)

-----------------------------------------------------------------------------
(* The strcmp of hash_callback_c_str_eq: it stops at the first difference    *)
(* or common end, and answers anything if there is none among the first     *)
(* MAX_STRING_LEN bytes.  Here the answer is whether it returns 0.          *)

StrcmpStopsAt(p, q, i) ==
    /\ \A x \in {p, q} : Readable(mem, x, i + 1)
    /\ \/ ByteAt(mem, Plus(p, i)) # ByteAt(mem, Plus(q, i))
       \/ HasByte(mem, Plus(p, i), 0)

StrcmpWithin(p, q, n) ==
    LET stops == {i \in 0 .. n - 1 : StrcmpStopsAt(p, q, i)}
        first == CHOOSE i \in stops : \A j \in stops : i <= j
    IN  IF stops = {} THEN BOOLEAN ELSE {ByteAt(mem, Plus(p, first)) = ByteAt(mem, Plus(q, first))}

Strcmp_OneEarly(p, q) == StrcmpWithin(p, q, MaxStringLen - 1)
Strcmp(p, q) == StrcmpWithin(p, q, MaxStringLen)

-----------------------------------------------------------------------------
(* The unit proofs. *)

HashArrayIgnoreCaseSetup ==
    \E n \in 0 .. MaxBufferSize - 1 : \E array \in CanFailMallocHavoc("array", n) :
        /\ tool # "fuzz" /\ (n = 0 \/ array.s # Null)
        /\ Reach("hash_array_ignore_case", <<>>, [array |-> array.m], [p |-> array.s, len |-> n])

HashArrayIgnoreCaseAsserts == Readable(mem, arg.p, arg.len) /\ (arg.len = 0 \/ arg.p # Null)

HashOfCursor(p, cursors) ==
    \E cur \in {c \in cursors : CursorIsBounded(c.s, MaxBufferSize) /\ CursorIsValid(c.s)} :
        Reach(p, [cur |-> cur.s], [cur |-> cur.m], <<>>)

HashedCursorAsserts ==
    /\ Readable(mem, old.obj.cur.ptr, old.obj.cur.len)
    /\ CursorIsValid(obj.cur)

HashByteCursorPtrSetup == HashOfCursor("hash_byte_cursor_ptr", InitializeByteCursorAligned("cur"))
HashByteCursorPtrAsserts == HashedCursorAsserts

HashByteCursorPtrIgnoreCaseSetup ==
    HashOfCursor("hash_byte_cursor_ptr_ignore_case", InitializeByteCursor("cur"))

HashByteCursorPtrIgnoreCaseAsserts == HashedCursorAsserts

HashCStringSetup ==
    \E c_str \in EnsureCStrIsNdAllocatedAligned("c_str", MaxStringLen) :
        /\ tool # "fuzz" /\ CStringIsValid(c_str.s)
        /\ Reach("hash_c_string", <<>>, [c_str |-> c_str.m], [c_str |-> c_str.s])

HashCStringAsserts == EndsAsString(arg.c_str)

HashStringSetup ==
    \E str \in EnsureStringBoundedLength("str", MaxBufferSize) :
        Reach("hash_string", <<>>, [str |-> str.m], [str |-> str.s])

HashStringAsserts == Readable(mem, arg.str.bytes, arg.str.len)

(* The pointer itself is hashed: it need not point anywhere. *)
HashPtrSetup == \E p \in {Null, StartOf("wild")} : Reach("hash_ptr", <<>>, <<>>, [p |-> p])
HashPtrAsserts == TRUE

HashCallbackCStrEqSetup ==
    \E str1 \in EnsureCStrIsNdAllocated("str1", MaxStringLen, 0) :
        /\ CStringIsValid(str1.s)
        /\ \/ Reach("hash_callback_c_str_eq", <<>>, [str1 |-> str1.m], [str1 |-> str1.s, str2 |-> str1.s])
           \/ \E str2 \in EnsureCStrIsNdAllocated("str2", MaxStringLen, 0) :
                  /\ CStringIsValid(str2.s)
                  /\ Reach("hash_callback_c_str_eq", <<>>, [str1 |-> str1.m, str2 |-> str2.m],
                           [str1 |-> str1.s, str2 |-> str2.s])

HashCallbackCStrEqAsserts ==
    /\ EndsAsString(arg.str1) /\ EndsAsString(arg.str2)
    /\ ret = "true" => BytesMatch(arg.str1, arg.str2, Strings!Strlen(arg.str1))

HashCallbackStringEqSetup ==
    \E str1 \in EnsureStringBoundedLength("str1", MaxStringLen) :
        \/ Reach("hash_callback_string_eq", <<>>, [str1 |-> str1.m], [str1 |-> str1.s, str2 |-> str1.s])
        \/ \E str2 \in EnsureStringBoundedLength("str2", MaxStringLen) :
               Reach("hash_callback_string_eq", <<>>, [str1 |-> str1.m, str2 |-> str2.m],
                     [str1 |-> str1.s, str2 |-> str2.s])

HashCallbackStringEqAsserts_NoLength ==
    ret = "true" => BytesMatch(arg.str1.bytes, arg.str2.bytes, arg.str1.len)

HashCallbackStringEqAsserts ==
    ret = "true" => /\ arg.str1.len = arg.str2.len
                    /\ BytesMatch(arg.str1.bytes, arg.str2.bytes, arg.str1.len)

HashCallbackStringDestroySetup ==
    \E str \in EnsureStringBoundedLength("str", MaxStringLen) :
        Reach("hash_callback_string_destroy", <<>>, [str |-> str.m], [str |-> str.s])

HashCallbackStringDestroyAsserts == TRUE

-----------------------------------------------------------------------------

Setup ==
    /\ pc = "setup"
    /\ \/ HashArrayIgnoreCaseSetup
       \/ HashByteCursorPtrSetup \/ HashByteCursorPtrIgnoreCaseSetup
       \/ HashCStringSetup \/ HashStringSetup \/ HashPtrSetup
       \/ HashCallbackCStrEqSetup \/ HashCallbackStringEqSetup \/ HashCallbackStringDestroySetup

Outcomes ==
    CASE proof = "hash_callback_c_str_eq" -> UNION {Says(equal) : equal \in Strcmp(arg.str1, arg.str2)}
      [] proof = "hash_callback_string_eq" -> Says(Strings!StrEq(arg.str1, arg.str2))
      [] proof = "hash_callback_string_destroy" -> Strings!Destroy
      [] OTHER -> {Same("none")}

Asserts ==
    CASE proof = "hash_array_ignore_case" -> HashArrayIgnoreCaseAsserts
      [] proof = "hash_byte_cursor_ptr" -> HashByteCursorPtrAsserts
      [] proof = "hash_byte_cursor_ptr_ignore_case" -> HashByteCursorPtrIgnoreCaseAsserts
      [] proof = "hash_c_string" -> HashCStringAsserts
      [] proof = "hash_string" -> HashStringAsserts
      [] proof = "hash_ptr" -> HashPtrAsserts
      [] proof = "hash_callback_c_str_eq" -> HashCallbackCStrEqAsserts
      [] proof = "hash_callback_string_eq" -> HashCallbackStringEqAsserts
      [] proof = "hash_callback_string_destroy" -> HashCallbackStringDestroyAsserts

Next ==
    \/ Setup
    \/ Call(Outcomes) \/ SkippedCall(Outcomes)
    \/ Fault
    \/ Check(Asserts)

Spec == Init /\ [][Next]_vars

-----------------------------------------------------------------------------

(* On a correct library no assertion fails and every byte a call reads is    *)
(* there: the aligned helpers make blocks that are long enough, and no       *)
(* pointer that is NULL reaches a function that follows it.                 *)
NoFalseAlarm == pc = "failed" => faults > 0

(* The comparison is exact: no two strings the helpers build are longer than *)
(* the loop, so that the arbitrary answer behind it is never given.         *)
StrcmpIsExact ==
    pc = "check" /\ faults = 0 /\ proof = "hash_callback_c_str_eq" =>
        (ret = "true" <=> SameBytes(arg.str1, Strings!Strlen(arg.str1), arg.str2, Strings!Strlen(arg.str2)))

(* An answer that two strings are equal which passes is right, but for C     *)
(* strings the first of which begins the second: as many bytes as the first *)
(* has are compared, and not its end.                                       *)
Begins(p, q) ==
    LET n == Strings!Strlen(p) IN n < Strings!Strlen(q) /\ BytesAt(mem, p, n) = BytesAt(mem, q, n)

PassedMeansCorrect ==
    pc = "passed" /\ old.mem = mem /\ ret = "true" /\ want.ret = "false" =>
        proof = "hash_callback_c_str_eq" /\ Begins(arg.str1, arg.str2)
=============================================================================
