SPECIFICATION MCSpec
CONSTANTS
    Threads = 2
    NonceSpace = 4
    CountSpace = 4
    Candidate <- Candidates
    Hash <- Distance
    Target = 1
    NoNonce = NoNonce
    MaxStarts = 2
    MaxStops = 2
    Bytes = {c1, c2, c3}
    Absent = Absent
    Cut = Cut
    MaxCalls = 4
    MaxSilent = 1
INVARIANTS
    NeverTorn
    ReturnMeans
    ResultHasOneWriter
    MinedIsSolution
PROPERTIES
    FoundEndsSearch
    StopEndsLoop
CHECK_DEADLOCK FALSE
