SPECIFICATION FairSpec
CONSTANTS
    Keep = 1
    MinNew = 2
    MaxId = 5
    MaxQueue = 2
    MaxCrashes = 1
    MaxManual = 1
    Batches = {"b1", "b2"}
    MaxLen = 4
    MaxMerges = 2
    MaxDeaths = 2
    Preferences = {"p1", "p2"}
    Rules = {"r1", "r2"}
    MaxSeq = 4
    MaxWindows = 1
    MaxCalls = 4
INVARIANTS CursorStaysInPlace
CHECK_DEADLOCK FALSE
