CONSTANTS
    Server = {a, b, c}
    First = a
    Second = b
    Slow = {a}
    None = None
    Value = {v}
    Voters <- Uniform
    PreVote = FALSE
    CheckQuorum = FALSE
    MaxBatch = 9
    MaxIndex = 9
    MaxTerm = 2
    MaxLog = 2
    MaxTimeouts <- SecondOnce
    MaxCrashes <- FirstOnce
SPECIFICATION LedSpec
INVARIANTS AppliedIsSaved AppliedIsDurable
PROPERTIES PromisesAreSaved
CHECK_DEADLOCK FALSE
