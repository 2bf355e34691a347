CONSTANTS
    Server = {a, b, c}
    None = None
    Value = {}
    Voters <- Uniform
    PreVote = TRUE
    CheckQuorum = TRUE
    MaxBatch = 9
    MaxIndex = 9
    MaxTerm = 2
    MaxLog = 2
    Kind <- Kinds
    Limit <- PreVoteLimit
SPECIFICATION LedSpec
SYMMETRY Symm
INVARIANTS PreVoteGuardsTerm NoPanic
CONSTRAINT OneExtra
CHECK_DEADLOCK FALSE
