SPECIFICATION FairSpec
CONSTANTS
    k1 = k1
    k2 = k2
    k3 = k3
    k4 = k4
    Key = {k1, k2, k3, k4}
    NullKey = k4
    Hash = {0, 1, 2, 3, 7}
    MaxSize = 8
    SizeIsStored = TRUE
    RoundUp <- MCRoundUp
INVARIANTS
    EmplaceGetsAValidTable
    EveryKeyIsFound
    EntryCountIsExact
    ReturnsTheNewEntry
    LinearTime
PROPERTIES
    ImplementsKeySet
    ImplementsStubs
    EveryCallReturns
CHECK_DEADLOCK FALSE
