CONSTANTS
    Server = {a, b, c}
    None = None
    Value = {v}
    Voters <- Uniform
    PreVote = FALSE
    CheckQuorum = FALSE
    MaxBatch = 1
    MaxIndex = 9
    MaxTerm = 4
    MaxLog = 3
    Kind <- Kinds
    Limit <- ConflictLimit
SPECIFICATION RivalSpec
INVARIANTS LogMatching LeaderCompleteness MatchIsReal
PROPERTIES ImplementsReplicatedLog
CHECK_DEADLOCK FALSE
