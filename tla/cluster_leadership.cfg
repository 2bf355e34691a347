CONSTANTS
    Server = {a, b, c}
    None = None
    Value = {v}
    Voters <- Uniform
    PreVote = FALSE
    CheckQuorum = FALSE
    MaxBatch = 9
    MaxIndex = 9
    MaxTerm = 2
    MaxLog = 3
    Kind <- Kinds
    Limit <- LeadershipLimit
SPECIFICATION LeadershipSpec
SYMMETRY Symm
INVARIANTS TypeOK ElectionSafety LeadersWereElected ProposalAtMostOnce DroppedNeverAppears LeaderCompleteness
PROPERTIES VotesAreKept
CHECK_DEADLOCK FALSE
