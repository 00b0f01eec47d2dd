SPECIFICATION ScriptSpec
CONSTANTS
    Answers = {"sat", "unsat"}
    None = "None"
    Locations = {"a", "b"}
    ExitCodes = {0, 1, 9}
    Capacity = 2
    MaxLines = 3
INVARIANTS
    ZeroMeansVerified
PROPERTIES
    NeitherWaitsForEver
CHECK_DEADLOCK FALSE
