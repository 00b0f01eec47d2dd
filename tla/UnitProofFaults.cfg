SPECIFICATION Spec
CONSTANTS
    Tools = {"sea"}
    MaxFaults = 1
    Families = {"byte_buf", "byte_cursor", "array_list", "string", "hash_function",
                "hash_table", "priority_queue", "arithmetic"}
    StringByte = {0, 1}
    QueueItems = 3
    ListMemory = 2
    TableSize = 2
    Byte = {0, 1}
    HashByte = {0, 1, 2}
    MaxStringLen = 2
    BufSizeMax = 7
    CursorSizeMax = 9
    ListSizeMax = 7
    StringSizeMax = 5
    HashSizeMax = 5
    TableSizeMax = 8
    MaxBuf = 2
    CatSize = 2
    Be16 = 1
    Be32 = 2
    Be64 = 2
    MaxCursor = 3
    DestSize = 3
    ListItemSize = 2
    ListItems = 4
    ListItemSizeFuzz = 3
    ListItemsFuzz = 3
    MaxString = 3
    MaxHash = 3
    Alignment = 2
    MaxPairSize = 2
    QueueItemSize = 2
    PtrSize = 3
    Widths = {1, 3, 4}
    QueueSizeMax = 5
INVARIANTS
    PassedMeansCorrect
    NoFalseAlarm2
    FirstPassesToo
    SecondNoticesMore
CHECK_DEADLOCK FALSE
