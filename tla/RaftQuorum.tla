----------------------------- MODULE RaftQuorum -----------------------------
(***************************************************************************)
(* Voting and commitment rules of raft/quorum: a MajorityConfig is a set   *)
(* of voter ids, a JointConfig a pair of them (the second one is empty     *)
(* outside a joint configuration).  The votes map of the code is the pair  *)
(* of disjoint sets yes, no; a voter in neither has not answered yet.      *)
(***************************************************************************)
EXTENDS Naturals, FiniteSets, FiniteSetsExt

CONSTANT MaxIndex   \* math.MaxUint64, the committed index of an empty config

ASSUME MaxIndexAssumption == MaxIndex \in Nat

VoteResults == {"VotePending", "VoteLost", "VoteWon"}

\* Mutant of MajoritySize: half of the voters is enough.
HalfSize(c) == (Cardinality(c) + 1) \div 2

\* n/2 + 1
MajoritySize(c) == (Cardinality(c) \div 2) + 1

\* MajorityConfig.VoteResult.  ny[1] + missing is the number of voters of c
\* that have not voted no.
MajorityVoteResult(c, yes, no) ==
    IF c = {} \/ Cardinality(c \cap yes) >= MajoritySize(c) THEN "VoteWon"
    ELSE IF Cardinality(c \ no) >= MajoritySize(c) THEN "VotePending"
    ELSE "VoteLost"

\* JointConfig.VoteResult
JointVoteResult(c, yes, no) ==
    LET r == {MajorityVoteResult(c[1], yes, no), MajorityVoteResult(c[2], yes, no)}
    IN  IF "VoteLost" \in r THEN "VoteLost"
        ELSE IF "VotePending" \in r THEN "VotePending"
        ELSE "VoteWon"

\* JointConfig.IDs
IDs(c) == c[1] \cup c[2]

\* Mutant of MajorityCommittedIndex: the sorted slice is read one position too
\* far to the right.
CommittedIndexOffByOne(c, match) ==
    IF c = {} THEN MaxIndex
    ELSE Max({k \in {match[i] : i \in c} :
                Cardinality({i \in c : match[i] >= k}) >= MajoritySize(c) - 1})

\* MajorityConfig.CommittedIndex: in the sorted slice of acknowledged indexes,
\* the entry at n - (n/2 + 1) is the largest one that n/2 + 1 voters reach.
MajorityCommittedIndex(c, match) ==
    IF c = {} THEN MaxIndex
    ELSE Max({k \in {match[i] : i \in c} :
                Cardinality({i \in c : match[i] >= k}) >= MajoritySize(c)})

\* Mutant of JointCommittedIndex: one majority is enough.
EitherCommittedIndex(c, match) ==
    IF c[2] = {} THEN MajorityCommittedIndex(c[1], match)
    ELSE Max({MajorityCommittedIndex(c[1], match), MajorityCommittedIndex(c[2], match)})

\* JointConfig.CommittedIndex
JointCommittedIndex(c, match) ==
    Min({MajorityCommittedIndex(c[1], match), MajorityCommittedIndex(c[2], match)})

=============================================================================
