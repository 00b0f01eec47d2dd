SPECIFICATION CallSpec
CONSTANTS
    Top = 5
    Byte = {0, 255}
    MaxBufferSize = 2
    MaxLength = 4
    WordSize = 8
    MaxStart = 7
    MaxDistance = 9
    MaxMoveLength = 21
    Word = 32
    Alignment = 4
    MaxInput = 9
    MaxAlloc = 10
    Request = {0, 1, 3, 4, 5, 10, 27, 31}
    TypeSize = {1, 2, 4}
    NDebug = FALSE
INVARIANTS
    ResultIsFirstDifference
    BytesAreMoved
    CopiesStayInside
PROPERTIES
    EveryCallReturns
    NoByteIsUsedTwice
CHECK_DEADLOCK FALSE
