---------------------------- MODULE Jobs_proofs ----------------------------
(***************************************************************************)
(* Theorems about the unit proofs (Jobs), for every value of the maxima:    *)
(* of those of byte buffers that they fail for no correct library and have *)
(* tried what is called next, and that they notice a single mistake         *)
(* (ByteBufJobs_proofs has the inductive invariants).                      *)
(***************************************************************************)
EXTENDS Jobs, ByteBufJobs_proofs

LEMMA ByteCursorTool == ASSUME ByteCursor!Next PROVE tool' = tool
<1>1. CASE ByteCursor!Setup
  BY <1>1 DEF
     ByteCursor!Setup, ByteCursor!ByteCursorAdvanceSetup, ByteCursor!ByteCursorAdvanceNospecSetup,
     ByteCursor!ByteCursorCompareLexicalSetup, ByteCursor!ByteCursorCompareLookupSetup,
     ByteCursor!ByteCursorEqSetup, ByteCursor!ByteCursorEqIgnoreCaseSetup,
     ByteCursor!ByteCursorEqByteBufSetup, ByteCursor!ByteCursorEqByteBufIgnoreCaseSetup,
     ByteCursor!ByteCursorEqCStrSetup, ByteCursor!ByteCursorEqCStrIgnoreCaseSetup,
     ByteCursor!ByteCursorFromArraySetup, ByteCursor!ByteCursorFromBufSetup,
     ByteCursor!ByteCursorFromCStrSetup, ByteCursor!ByteCursorFromStringSetup,
     ByteCursor!ByteCursorLeftTrimPredSetup, ByteCursor!ByteCursorRightTrimPredSetup,
     ByteCursor!ByteCursorTrimPredSetup, ByteCursor!ByteCursorSatisfiesPredSetup,
     ByteCursor!ByteCursorReadSetup, ByteCursor!ByteCursorReadAndFillBufferSetup,
     ByteCursor!ByteCursorReadBe16Setup, ByteCursor!ByteCursorReadBe32Setup,
     ByteCursor!ByteCursorReadBe64Setup, ByteCursor!ByteCursorReadU8Setup, ByteCursor!CursorAndLen,
     ByteCursor!LhsAndRhs, ByteCursor!CursorAndBuf, ByteCursor!CursorAndStr, ByteCursor!Predicated,
     ByteCursor!ReadInteger, ByteCursor!Reach
<1>2. CASE ~ByteCursor!Setup
  BY <1>2 DEF
     ByteCursor!Next, ByteCursor!Call, ByteCursor!SkippedCall, ByteCursor!Fault,
     ByteCursor!StrayField, ByteCursor!StrayByte, ByteCursor!WrongReturn, ByteCursor!Goes,
     ByteCursor!Check
<1> QED BY <1>1, <1>2

LEMMA ArrayListTool == ASSUME ArrayList!Next PROVE tool' = tool
<1>1. CASE ArrayList!Setup
  BY <1>1 DEF
     ArrayList!Setup, ArrayList!ArrayListBackSetup, ArrayList!ArrayListCapacitySetup,
     ArrayList!ArrayListCleanUpSetup, ArrayList!ArrayListClearSetup,
     ArrayList!ArrayListComparatorStringSetup, ArrayList!ArrayListCopySetup,
     ArrayList!ArrayListEnsureCapacitySetup, ArrayList!ArrayListEraseSetup,
     ArrayList!ArrayListFrontSetup, ArrayList!ArrayListGetAtSetup,
     ArrayList!ArrayListGetAtPtrSetup, ArrayList!ArrayListInitDynamicSetup,
     ArrayList!ArrayListInitStaticSetup, ArrayList!ArrayListLengthSetup,
     ArrayList!ArrayListPopBackSetup, ArrayList!ArrayListPopFrontSetup,
     ArrayList!ArrayListPopFrontNSetup, ArrayList!ArrayListPushBackSetup,
     ArrayList!ArrayListPushFrontSetup, ArrayList!ArrayListSetAtSetup,
     ArrayList!ArrayListShrinkToFitSetup, ArrayList!ArrayListSortSetup,
     ArrayList!ArrayListSwapSetup, ArrayList!ArrayListSwapContentsSetup, ArrayList!ListAndVal,
     ArrayList!OneList, ArrayList!FromAndTo, ArrayList!Reach
<1>2. CASE ~ArrayList!Setup
  BY <1>2 DEF
     ArrayList!Next, ArrayList!Call, ArrayList!SkippedCall, ArrayList!Fault, ArrayList!StrayField,
     ArrayList!StrayByte, ArrayList!WrongReturn, ArrayList!Goes, ArrayList!Check
<1> QED BY <1>1, <1>2

LEMMA StringTool == ASSUME String!Next PROVE tool' = tool
<1>1. CASE String!Setup
  BY <1>1 DEF
     String!Setup, String!StringBytesSetup, String!StringCompareSetup, String!StringDestroySetup,
     String!StringDestroySecureSetup, String!StringEqSetup, String!StringEqByteBufSetup,
     String!StringEqByteBufIgnoreCaseSetup, String!StringEqByteCursorSetup,
     String!StringEqByteCursorIgnoreCaseSetup, String!StringEqCStrSetup,
     String!StringEqCStrIgnoreCaseSetup, String!StringEqIgnoreCaseSetup,
     String!StringNewFromArraySetup, String!StringNewFromCStrSetup,
     String!StringNewFromStringSetup, String!ArrayEqSetup, String!ArrayEqIgnoreCaseSetup,
     String!ArrayEqCStrSetup, String!ArrayEqCStrIgnoreCaseSetup, String!TwoStrings,
     String!StrAndStruct, String!StrAndCStr, String!TwoArrays, String!ArrayAndCStr, String!Reach
<1>2. CASE ~String!Setup
  BY <1>2 DEF
     String!Next, String!Call, String!SkippedCall, String!Fault, String!StrayField,
     String!StrayByte, String!WrongReturn, String!Goes, String!Check
<1> QED BY <1>1, <1>2

LEMMA HashFunctionTool == ASSUME HashFunction!Next PROVE tool' = tool
<1>1. CASE HashFunction!Setup
  BY <1>1 DEF
     HashFunction!Setup, HashFunction!HashArrayIgnoreCaseSetup,
     HashFunction!HashByteCursorPtrSetup, HashFunction!HashByteCursorPtrIgnoreCaseSetup,
     HashFunction!HashCStringSetup, HashFunction!HashStringSetup, HashFunction!HashPtrSetup,
     HashFunction!HashCallbackCStrEqSetup, HashFunction!HashCallbackStringEqSetup,
     HashFunction!HashCallbackStringDestroySetup, HashFunction!HashOfCursor, HashFunction!Reach
<1>2. CASE ~HashFunction!Setup
  BY <1>2 DEF
     HashFunction!Next, HashFunction!Call, HashFunction!SkippedCall, HashFunction!Fault,
     HashFunction!StrayField, HashFunction!StrayByte, HashFunction!WrongReturn, HashFunction!Goes,
     HashFunction!Check
<1> QED BY <1>1, <1>2

LEMMA HashTableTool == ASSUME HashTable!Next PROVE tool' = tool
<1>1. CASE HashTable!Setup
  BY <1>1 DEF
     HashTable!Setup, HashTable!HashIterBeginSetup, HashTable!HashIterBeginDoneSetup,
     HashTable!HashIterDoneSetup, HashTable!HashIterNextSetup, HashTable!HashTableCleanUpSetup,
     HashTable!HashTableClearSetup, HashTable!HashTableFindSetup, HashTable!HashTableEqSetup,
     HashTable!HashTableSwapSetup, HashTable!HashTableMoveSetup,
     HashTable!HashTableGetEntryCountSetup, HashTable!HashTableInitBoundedSetup,
     HashTable!HashIterDeleteSetup, HashTable!HashTableCreateSetup, HashTable!HashTablePutSetup,
     HashTable!HashTableRemoveSetup, HashTable!HashTableForeachSetup,
     HashTable!HashTableInitUnboundedSetup, HashTable!HashTableForeachDeepLooseSetup,
     HashTable!HashTableForeachDeepPreciseSetup, HashTable!OneTable, HashTable!TwoTables,
     HashTable!NoTable, HashTable!Reach
<1>2. CASE ~HashTable!Setup
  BY <1>2 DEF
     HashTable!Next, HashTable!Call, HashTable!SkippedCall, HashTable!Fault, HashTable!StrayField,
     HashTable!StrayByte, HashTable!WrongReturn, HashTable!Goes, HashTable!Check
<1> QED BY <1>1, <1>2

LEMMA PriorityQueueTool == ASSUME PriorityQueue!Next PROVE tool' = tool
<1>1. CASE PriorityQueue!Setup
  BY <1>1 DEF
     PriorityQueue!Setup, PriorityQueue!AwsPriorityQueueCapacitySetup,
     PriorityQueue!AwsPriorityQueueSizeSetup, PriorityQueue!AwsPriorityQueueTopSetup,
     PriorityQueue!AwsPriorityQueueCleanUpSetup, PriorityQueue!AwsPriorityQueueInitDynamicSetup,
     PriorityQueue!AwsPriorityQueueInitStaticSetup, PriorityQueue!AwsPriorityQueuePopSetup,
     PriorityQueue!AwsPriorityQueuePushSetup, PriorityQueue!AwsPriorityQueuePushRefSetup,
     PriorityQueue!AwsPriorityQueueRemoveSetup, PriorityQueue!AwsPriorityQueueSRemoveNodeSetup,
     PriorityQueue!AwsPriorityQueueSSiftDownSetup, PriorityQueue!AwsPriorityQueueSSiftEitherSetup,
     PriorityQueue!AwsPriorityQueueSSiftUpSetup, PriorityQueue!AwsPriorityQueueSSwapSetup,
     PriorityQueue!OneQueue, PriorityQueue!NewQueue, PriorityQueue!OneRoot, PriorityQueue!Reach
<1>2. CASE ~PriorityQueue!Setup
  BY <1>2 DEF
     PriorityQueue!Next, PriorityQueue!Call, PriorityQueue!SkippedCall, PriorityQueue!Fault,
     PriorityQueue!StrayField, PriorityQueue!StrayByte, PriorityQueue!WrongReturn,
     PriorityQueue!Goes, PriorityQueue!Check
<1> QED BY <1>1, <1>2

LEMMA LibraryQueueTool == ASSUME LibraryQueue!Next PROVE tool' = tool
<1>1. CASE LibraryQueue!Setup
  BY <1>1 DEF
     LibraryQueue!Setup, LibraryQueue!AwsPriorityQueueCapacitySetup,
     LibraryQueue!AwsPriorityQueueSizeSetup, LibraryQueue!AwsPriorityQueueTopSetup,
     LibraryQueue!AwsPriorityQueueCleanUpSetup, LibraryQueue!AwsPriorityQueueInitDynamicSetup,
     LibraryQueue!AwsPriorityQueueInitStaticSetup, LibraryQueue!AwsPriorityQueuePopSetup,
     LibraryQueue!AwsPriorityQueuePushSetup, LibraryQueue!AwsPriorityQueuePushRefSetup,
     LibraryQueue!AwsPriorityQueueRemoveSetup, LibraryQueue!AwsPriorityQueueSRemoveNodeSetup,
     LibraryQueue!AwsPriorityQueueSSiftDownSetup, LibraryQueue!AwsPriorityQueueSSiftEitherSetup,
     LibraryQueue!AwsPriorityQueueSSiftUpSetup, LibraryQueue!AwsPriorityQueueSSwapSetup,
     LibraryQueue!OneQueue, LibraryQueue!NewQueue, LibraryQueue!OneRoot, LibraryQueue!Reach
<1>2. CASE ~LibraryQueue!Setup
  BY <1>2 DEF
     LibraryQueue!Next, LibraryQueue!Call, LibraryQueue!SkippedCall, LibraryQueue!Fault,
     LibraryQueue!StrayField, LibraryQueue!StrayByte, LibraryQueue!WrongReturn, LibraryQueue!Goes,
     LibraryQueue!Check
<1> QED BY <1>1, <1>2

LEMMA ArithmeticTool == ASSUME Arithmetic!Next PROVE tool' = tool
<1>1. CASE Arithmetic!Setup
  BY <1>1 DEF
     Arithmetic!Setup, Arithmetic!AddSizeCheckedSetup, Arithmetic!AddSizeSaturatingSetup,
     Arithmetic!MulSizeCheckedSetup, Arithmetic!MulSizeSaturatingSetup,
     Arithmetic!IsPowerOfTwoSetup, Arithmetic!RoundUpToPowerOfTwoSetup, Arithmetic!PtrEqSetup,
     Arithmetic!Choose, Arithmetic!Reach
<1>2. CASE ~Arithmetic!Setup
  BY <1>2 DEF
     Arithmetic!Next, Arithmetic!Call, Arithmetic!WrongAnswer, Arithmetic!WrongReturn,
     Arithmetic!Goes, Arithmetic!Check
<1> QED BY <1>1, <1>2

LEMMA ToolStays == Next => UNCHANGED <<tool, family>>
BY ByteBufTool, ByteCursorTool, ArrayListTool, StringTool, HashFunctionTool, HashTableTool, PriorityQueueTool, LibraryQueueTool, ArithmeticTool
   DEF Next, Step

-----------------------------------------------------------------------------
(* Byte buffers: no other family's step is one of theirs, so the invariant  *)
(* of ByteBufJobs_proofs is one of the specification.                      *)
LEMMA BufInvInvariant == Spec => [](family = "byte_buf" => BufInv)
<1>1. Init => (family = "byte_buf" => BufInv)
  <2> SUFFICES ASSUME Init PROVE BufInv
    OBVIOUS
  <2>1. tool \in Tools /\ pc = "setup" /\ obj = <<>> /\ mem = <<>> /\ faults = 0
    BY DEF Init, Proof!Init
  <2>2. 0 \in 0 .. MaxFaults
    BY BufConstants
  <2> QED BY <2>1, <2>2 DEF BufInv
<1>2. (family = "byte_buf" => BufInv) /\ [Next]_vars => (family = "byte_buf" => BufInv)'
  <2> SUFFICES ASSUME family = "byte_buf" => BufInv, [Next]_vars, family' = "byte_buf" PROVE BufInv'
    OBVIOUS
  <2>1. CASE UNCHANGED vars
    <3>1. /\ UNCHANGED <<family, tool, proof, pc, obj, mem, arg, old, ret, want, faults>>
      BY <2>1 DEF vars, Proof!vars
    <3>2. BufInv
      BY <3>1
    <3>3. BufGiven => BufGiven'
      BY <3>1, BufKept
    <3>4. BufRight => BufRight'
      BY <3>1, RightKept
    <3>5. ByteBuf!ArrayIsMissing' = ByteBuf!ArrayIsMissing
      BY <3>1 DEF ByteBuf!ArrayIsMissing, ByteBuf!Missing, ByteBuf!Null
    <3> QED BY <3>1, <3>2, <3>3, <3>4, <3>5 DEF BufInv
  <2>2. CASE Next
    <3>1. family = "byte_buf"
      BY <2>2, ToolStays
    <3>2. ByteBuf!Next
      BY <2>2, <3>1 DEF Next, Step
    <3> QED BY <3>1, <3>2, BufInvStep
  <2> QED BY <2>1, <2>2
<1> QED BY <1>1, <1>2, PTL DEF Spec

(* The same of the results with at most one mistake. *)
LEMMA FaultInvInvariant == Spec => [](family = "byte_buf" => BufInv /\ FaultInv)
<1>1. Init => (family = "byte_buf" => FaultInv)
  <2> SUFFICES ASSUME Init PROVE FaultInv
    OBVIOUS
  <2>1. pc = "setup" /\ faults = 0
    BY DEF Init, Proof!Init
  <2> QED BY <2>1 DEF FaultInv
<1>2. (family = "byte_buf" => BufInv) /\ (family = "byte_buf" => BufInv)' /\ (family = "byte_buf" => FaultInv)
      /\ [Next]_vars => (family = "byte_buf" => FaultInv)'
  <2> SUFFICES ASSUME family = "byte_buf" => BufInv, BufInv', family = "byte_buf" => FaultInv, [Next]_vars,
                      family' = "byte_buf"
               PROVE  FaultInv'
    OBVIOUS
  <2>1. CASE UNCHANGED vars
    <3>1. UNCHANGED <<family, tool, proof, pc, obj, mem, arg, old, ret, want, faults>>
      BY <2>1 DEF vars, Proof!vars
    <3>2. BufInv /\ FaultInv
      BY <3>1
    <3>3. CASE pc \in {"setup", "call"}
      BY <3>1, <3>2, <3>3 DEF FaultInv
    <3>4. CASE pc \in {"check", "passed", "failed"}
      BY <3>1, <3>2, <3>4, FaultInvKept DEF FaultInv
    <3> QED BY <3>2, <3>3, <3>4 DEF BufInv
  <2>2. CASE Next
    <3>1. family = "byte_buf"
      BY <2>2, ToolStays
    <3>2. ByteBuf!Next
      BY <2>2, <3>1 DEF Next, Step
    <3> QED BY <3>1, <3>2, FaultInvStep
  <2> QED BY <2>1, <2>2
<1> QED BY <1>1, <1>2, BufInvInvariant, PTL DEF Spec

(* The lengths of the buffers and the bytes of their blocks stay in their    *)
(* ranges, whatever the helpers build and a correct function leaves; a       *)
(* size_t holds at least 2 * MAX_BUFFER_SIZE (BuffersAreShort).             *)
THEOREM ByteBufTypeCorrect == Spec => [](family = "byte_buf" /\ faults = 0 => TypeOK)
<1>1. (family = "byte_buf" => BufInv) => (family = "byte_buf" /\ faults = 0 => TypeOK)
  BY BufTyped DEF TypeOK
<1> QED BY <1>1, BufInvInvariant, PTL

(* None of the 29 unit proofs of byte buffers fails for a correct library,   *)
(* with any tool: shared, NULL and empty inputs included.                  *)
THEOREM ByteBufNoFalseAlarm == Spec => [](family = "byte_buf" /\ faults = 0 => NoFalseAlarm)
<1>1. (family = "byte_buf" => BufInv) => (family = "byte_buf" /\ faults = 0 => NoFalseAlarm)
  BY BufNoAlarm DEF NoFalseAlarm
<1> QED BY <1>1, BufInvInvariant, PTL

(* Nor does one of the 18 of the second generation: what it says is not      *)
(* modified, a correct function leaves alone.                              *)
THEOREM ByteBufNoFalseAlarm2 == Spec => [](family = "byte_buf" /\ faults = 0 => NoFalseAlarm2)
<1>1. (family = "byte_buf" => BufInv) => (family = "byte_buf" /\ faults = 0 => NoFalseAlarm2)
  BY BufNoAlarm DEF NoFalseAlarm2
<1> QED BY <1>1, BufInvInvariant, PTL

(* The helpers build every buffer that a correct function leaves, up to its  *)
(* bytes and but for the named exceptions, however large the maximum is.   *)
THEOREM ByteBufNextCallIsTried == Spec => [](family = "byte_buf" => NextCallIsTried)
<1>1. (family = "byte_buf" => BufInv) => (family = "byte_buf" => NextCallIsTried)
  BY BufNextIsTried DEF NextCallIsTried
<1> QED BY <1>1, BufInvInvariant, PTL

(* A function of the library that does nothing, gets one field or one byte   *)
(* wrong, or is right but for its answer, passes the unit proof only when   *)
(* what is wrong is nothing that the unit proof watches: the one byte that  *)
(* a tool chooses to compare stands for all of them.                       *)
THEOREM ByteBufOneFaultIsNoticed == Spec => [](family = "byte_buf" /\ faults <= 1 => PassedMeansCorrect)
<1>1. (family = "byte_buf" => BufInv /\ FaultInv) => (family = "byte_buf" /\ faults <= 1 => PassedMeansCorrect)
  BY BufPassedIsCorrect DEF PassedMeansCorrect
<1> QED BY <1>1, FaultInvInvariant, PTL

(* A library function with at most one mistake that passes the second-       *)
(* generation unit proof passes the first-generation one too, but for what  *)
(* only the first compares: an allocator, and the buffer after advance.     *)
THEOREM ByteBufFirstPassesToo == Spec => [](family = "byte_buf" /\ faults <= 1 => FirstPassesToo)
<1>1. (family = "byte_buf" => BufInv /\ FaultInv) => (family = "byte_buf" /\ faults <= 1 => FirstPassesToo)
  BY BufFirstPassesToo DEF FirstPassesToo
<1> QED BY <1>1, FaultInvInvariant, PTL
=============================================================================
