SPECIFICATION Spec
CONSTANTS
    Client = {c1, c2}
    Addr = {a1, a2, a3}
    Null = Null
    Byte = {0, 1}
    SizeMax = 3
    AllocatorCanFail = FALSE
    Alignment = 2
    PageSize = 2
INVARIANTS
    OwnedOnce
    NoMemoryError
PROPERTIES
    ImplementsAllocation
SYMMETRY Symmetric
