SPECIFICATION CallSpec
CONSTANTS
    Top = 1
    Byte = {0}
    MaxBufferSize = 1
    MaxLength = 0
    WordSize = 8
    MaxStart = 7
    MaxDistance = 9
    MaxMoveLength = 9
    Word = 32
    Alignment = 4
    MaxInput = 2
    MaxAlloc = 2
    Request = {0}
    TypeSize = {1}
    NDebug = FALSE
INVARIANTS
    AccessesStayInside
CHECK_DEADLOCK FALSE
