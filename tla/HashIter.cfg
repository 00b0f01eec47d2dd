SPECIFICATION LoopSpec
CONSTANTS
    Sizes = {2, 4, 8}
    SizeMax = 9
    TableSize = 4
    Deletes = TRUE
INVARIANTS
    TableStaysValid
    EachIsVisitedOnce
PROPERTIES
    CoveredByStubs
    EveryLoopReturns
CHECK_DEADLOCK FALSE
