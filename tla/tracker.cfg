CONSTANTS
    Node = {n1, n2, n3}
    Candidate = {c1, c2}
    NoVote = NoVote
    MaxMatch = 2
    MaxIndex = 9
SPECIFICATION Spec
SYMMETRY Symm
INVARIANTS OneWinner ElectorsKnowCommitted CommittedIsSortedPick
PROPERTIES OutcomeStable
