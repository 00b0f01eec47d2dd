SPECIFICATION Spec
CONSTANTS
    MaxSize = 4
    Tools = {"sea", "klee", "fuzz"}
    MaxFaults = 1
INVARIANTS
    NoFalseAlarm
    PassedMeansCorrect
    PreconditionsHold
    NextCallIsTried
    WritesTellApart
CHECK_DEADLOCK FALSE
