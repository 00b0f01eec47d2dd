-------------------------------- MODULE Jobs --------------------------------
(***************************************************************************)
(* The unit proofs of seahorn/jobs and seahorn/jobs2, one family after the  *)
(* other with maxima of its own.  The families share the course of a unit   *)
(* proof (UnitProof) and the tool, and no two run together.                *)
(***************************************************************************)
EXTENDS ByteBufJobs

CONSTANTS
    Families,         \* those that a run checks
    StringByte,       \* the bytes of strings
    HashByte          \* and of what is hashed

(* The largest size_t of each other family. *)
CONSTANTS
    CursorSizeMax, ListSizeMax, StringSizeMax, HashSizeMax, TableSizeMax, QueueSizeMax

CONSTANTS
    MaxCursor,        \* MAX_BUFFER_SIZE of cursors
    DestSize,
    ListMemory,       \* the bytes of an array list
    ListItemSize, ListItems, ListItemSizeFuzz, ListItemsFuzz,
    MaxString,        \* MAX_STRING_LEN of strings and hash functions
    MaxHash,          \* MAX_BUFFER_SIZE of hash functions
    Alignment,
    TableSize,        \* MAX_TABLE_SIZE of hash tables
    MaxPairSize,
    QueueItems,       \* MAX_PRIORITY_QUEUE_ITEMS
    QueueItemSize,
    PtrSize,
    Widths            \* of integers, in bits

VARIABLE family

vars == <<family, Proof!vars>>

ByteCursor == INSTANCE ByteCursorUnitProofs WITH
    SizeMax <- CursorSizeMax, MaxBufferSize <- MaxCursor,
    Width <- [be16 |-> Be16, be32 |-> Be32, be64 |-> Be64]

ArrayList == INSTANCE ArrayListUnitProofs WITH
    SizeMax <- ListSizeMax, MaxBufferSize <- MaxBuf, MaxMemory <- ListMemory,
    MaxItemSize <- ListItemSize, MaxItems <- ListItems,
    MaxItemSizeFuzz <- ListItemSizeFuzz, MaxItemsFuzz <- ListItemsFuzz

String == INSTANCE StringUnitProofs WITH
    Byte <- StringByte, SizeMax <- StringSizeMax, MaxBufferSize <- MaxBuf, MaxStringLen <- MaxString

HashFunction == INSTANCE HashFunctionUnitProofs WITH
    Byte <- HashByte, SizeMax <- HashSizeMax, MaxBufferSize <- MaxHash, MaxStringLen <- MaxString

HashTable == INSTANCE HashTableUnitProofs WITH
    SizeMax <- TableSizeMax, MaxTableSize <- TableSize

PriorityQueue == INSTANCE PriorityQueueUnitProofs WITH
    Byte <- 0 .. QueueSizeMax, SizeMax <- QueueSizeMax, MaxQueueItems <- QueueItems,
    MaxItemSize <- QueueItemSize, WildNodes <- TRUE, UseStubs <- TRUE

(* SeaHorn's unit proofs with the library's functions instead of the stubs, *)
(* and back pointers that are null when they were never set.               *)
LibraryQueue == INSTANCE PriorityQueueUnitProofs WITH
    Byte <- 0 .. QueueSizeMax, SizeMax <- QueueSizeMax, MaxQueueItems <- QueueItems,
    MaxItemSize <- QueueItemSize, WildNodes <- FALSE, UseStubs <- FALSE

Arithmetic == INSTANCE ArithmeticUnitProofs WITH
    Byte <- {0}, SizeMax <- 0

ASSUME MaximaMakeSense ==
    /\ String!BitsAreBytes /\ HashFunction!BitsAreBytes
    /\ ArrayList!MaximaArePositive
    /\ String!MaximaArePositive /\ HashFunction!MaximaArePositive
    /\ ByteCursor!MaximaArePositive /\ ByteCursor!CursorsAreShort
    /\ HashFunction!AlignmentIsPositive
    /\ Arithmetic!WidthsArePositive

-----------------------------------------------------------------------------

Init ==
    /\ Proof!Init
    /\ family \in Families
    /\ family = "library_queue" => tool = "sea"

Step(f, A) == family = f /\ A /\ UNCHANGED family

Next ==
    \/ Step("byte_buf", ByteBuf!Next)
    \/ Step("byte_cursor", ByteCursor!Next)
    \/ Step("array_list", ArrayList!Next)
    \/ Step("string", String!Next)
    \/ Step("hash_function", HashFunction!Next)
    \/ Step("hash_table", HashTable!Next)
    \/ Step("priority_queue", PriorityQueue!Next)
    \/ Step("library_queue", LibraryQueue!Next)
    \/ Step("arithmetic", Arithmetic!Next)

Spec == Init /\ [][Next]_vars

-----------------------------------------------------------------------------

(* The fields and bytes of what a unit proof works on stay in their ranges, *)
(* whatever the helpers build and the calls leave.                         *)
TypeOK ==
    CASE family = "byte_buf" -> ByteBuf!TypeOK
      [] family = "byte_cursor" -> ByteCursor!TypeOK
      [] family = "array_list" -> ArrayList!TypeOK
      [] family = "string" -> String!TypeOK
      [] family = "hash_table" -> HashTable!TypeOK
      [] family = "priority_queue" -> PriorityQueue!TypeOK
      [] family = "library_queue" -> LibraryQueue!TypeOK
      [] OTHER -> faults \in 0 .. MaxFaults

(* No unit proof fails for a library that is correct, in any of its builds   *)
(* and whatever the helpers make; each family names its exceptions.  That    *)
(* of the hash functions also rests on the loop over two C strings being    *)
(* long enough for all that the helpers build.                              *)
NoFalseAlarm ==
    CASE family = "byte_buf" -> ByteBuf!NoFalseAlarm
      [] family = "byte_cursor" -> ByteCursor!NoFalseAlarm
      [] family = "array_list" -> ArrayList!NoFalseAlarm
      [] family = "string" -> String!OnlyTheExpectedFailure
      [] family = "hash_function" -> HashFunction!NoFalseAlarm /\ HashFunction!StrcmpIsExact
      [] family = "hash_table" -> HashTable!NoFalseAlarm
      [] family = "priority_queue" -> PriorityQueue!NoFalseAlarm
      [] family = "arithmetic" -> Arithmetic!NoFalseAlarm
      [] OTHER -> TRUE

(* What a unit proof that passes has seen of a library that gets something   *)
(* wrong, or does nothing at all: every family says what its assertions     *)
(* watch, and nothing of that is wrong.                                    *)
PassedMeansCorrect ==
    CASE family = "byte_buf" -> ByteBuf!PassedMeansCorrect
      [] family = "byte_cursor" -> ByteCursor!PassedMeansCorrect
      [] family = "array_list" -> ArrayList!PassedMeansCorrect
      [] family = "string" -> String!PassedMeansCorrect
      [] family = "hash_function" -> HashFunction!PassedMeansCorrect
      [] family = "hash_table" -> HashTable!PassedMeansCorrect
      [] family = "priority_queue" -> PriorityQueue!PassedMeansCorrect
      [] family = "arithmetic" -> Arithmetic!PassesIfUnnoticed
      [] OTHER -> TRUE

(* What a call leaves is what the next call is tried on: the helpers build   *)
(* every buffer, list, table and iterator that the library's functions      *)
(* return, up to the exceptions that each family names.                     *)
NextCallIsTried ==
    CASE family = "byte_buf" -> ByteBuf!NextCallIsTried
      [] family = "array_list" -> ArrayList!NextCallIsTried
      [] family = "hash_table" -> HashTable!NextCallIsTried
      [] OTHER -> TRUE

(* SeaHorn's stubs say of the two lengths of a priority queue what the       *)
(* library's functions do: these implement PriorityQueueStubs.             *)
LengthsAsWithStubs ==
    [][family = "library_queue" => LibraryQueue!StepAsWithStubs]_vars

-----------------------------------------------------------------------------

(* No unit proof of the second generation fails for a correct library.       *)
NoFalseAlarm2 ==
    CASE family = "byte_buf" -> ByteBuf!NoFalseAlarm2
      [] family = "byte_cursor" -> ByteCursor!NoFalseAlarm2
      [] family = "array_list" -> ArrayList!NoFalseAlarm2
      [] family = "string" -> String!NoFalseAlarm2
      [] family = "hash_table" -> HashTable!NoFalseAlarm2
      [] OTHER -> TRUE

(* What the second generation of a unit proof passes the first one passes   *)
(* too, but for the few things that each family names.                      *)
FirstPassesToo ==
    CASE family = "byte_buf" -> ByteBuf!FirstPassesToo
      [] family = "byte_cursor" -> ByteCursor!FirstPassesToo
      [] family = "array_list" -> ArrayList!FirstPassesToo
      [] family = "hash_table" -> HashTable!FirstPassesToo
      [] OTHER -> TRUE

(* The bytes that the first generation does not look at and the second      *)
(* does: of buffers that an append failed on or has read, of a list that    *)
(* was cleared, behind cursors, arrays and strings that were compared.  A   *)
(* function that writes there and makes no other mistake passes the first   *)
(* generation and fails the second.                                        *)
SecondNoticesMore ==
    CASE family = "byte_buf" -> ByteBuf!SecondNoticesMore
      [] family = "byte_cursor" -> ByteCursor!SecondNoticesMore
      [] family = "array_list" -> ArrayList!SecondNoticesMore
      [] family = "string" -> String!SecondNoticesMore
      [] OTHER -> TRUE
=============================================================================
