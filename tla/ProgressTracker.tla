--------------------------- MODULE ProgressTracker ---------------------------
(***************************************************************************)
(* tracker.ProgressTracker as the raft code uses it during one term: every *)
(* candidate keeps a Votes map that RecordVote fills and TallyVotes counts *)
(* in its (possibly joint) configuration, and a leader keeps the Match     *)
(* index of every peer, from which Committed computes the commit index.    *)
(*                                                                         *)
(* The peers are the environment: ballot[i] is the candidate to which i    *)
(* gave its one vote of the term (raft.Vote at i).  A peer may answer any  *)
(* candidate with a rejection, also before it votes for it, and answers    *)
(* arrive in any order and repeatedly.                                     *)
(***************************************************************************)
EXTENDS RaftQuorum, SequencesExt

CONSTANTS
    Node,       \* ids of the cluster
    Candidate,  \* candidates of the term
    NoVote,     \* raft.Vote == None
    MaxMatch    \* bound on the acknowledged index

ASSUME TrackerAssumption ==
    /\ IsFiniteSet(Node) /\ IsFiniteSet(Candidate)
    /\ NoVote \notin Candidate /\ MaxMatch \in Nat /\ MaxMatch <= MaxIndex

VARIABLES
    voters,  \* Config.Voters, a JointConfig
    ballot,  \* the vote of every node (environment)
    votes,   \* the Votes map of every candidate
    match    \* Progress[id].Match at the leader

vars == <<voters, ballot, votes, match>>

JointConfigs == ((SUBSET Node) \ {{}}) \X (SUBSET Node)

TallyVotes(c) == JointVoteResult(voters, votes[c].yes, votes[c].no)
Committed == JointCommittedIndex(voters, match)

Init ==
    /\ voters \in JointConfigs
    /\ ballot = [i \in Node |-> NoVote]
    /\ votes = [c \in Candidate |-> [yes |-> {}, no |-> {}]]
    /\ match = [i \in Node |-> 0]

\* Environment: node i grants its vote to c.
CastBallot(i, c) ==
    /\ ballot[i] = NoVote
    /\ ballot' = [ballot EXCEPT ![i] = c]
    /\ UNCHANGED <<voters, votes, match>>

\* Mutant of Recorded: an answer replaces the earlier one.
RecordedLast(rec, i, v) ==
    IF v THEN [yes |-> rec.yes \cup {i}, no |-> rec.no \ {i}]
    ELSE [yes |-> rec.yes \ {i}, no |-> rec.no \cup {i}]

\* The Votes map after RecordVote(id, v): the first answer of a node counts.
Recorded(rec, i, v) ==
    IF i \in rec.yes \cup rec.no THEN rec
    ELSE IF v THEN [rec EXCEPT !.yes = @ \cup {i}]
    ELSE [rec EXCEPT !.no = @ \cup {i}]

RecordVote(c, i, v) ==
    /\ v => ballot[i] = c
    /\ votes' = [votes EXCEPT ![c] = Recorded(@, i, v)]
    /\ UNCHANGED <<voters, ballot, match>>

\* Progress.MaybeUpdate for an acknowledgement of index n: Match never regresses.
MatchAfter(m, n) == IF m < n THEN n ELSE m

\* Peers acknowledge entries of a leader, so somebody has won the term.
Acknowledge(i, n) ==
    /\ \E c \in Candidate : TallyVotes(c) = "VoteWon"
    /\ match' = [match EXCEPT ![i] = MatchAfter(@, n)]
    /\ UNCHANGED <<voters, ballot, votes>>

Next ==
    \/ \E i \in Node, c \in Candidate :
        CastBallot(i, c) \/ (\E v \in BOOLEAN : RecordVote(c, i, v))
    \/ \E i \in Node, n \in 0..MaxMatch : Acknowledge(i, n)

Spec == Init /\ [][Next]_vars

-----------------------------------------------------------------------------
\* Every variable has its type and the two halves of a Votes map are disjoint.
TypeOK ==
    /\ voters \in JointConfigs
    /\ ballot \in [Node -> Candidate \cup {NoVote}]
    /\ votes \in [Candidate -> [yes : SUBSET Node, no : SUBSET Node]]
    /\ \A c \in Candidate : votes[c].yes \cap votes[c].no = {}
    /\ match \in [Node -> 0..MaxMatch]

\* Two candidates of a term never both see VoteWon, whatever the (joint)
\* configuration and the order of the answers (TallyVotes, VoteResult).
OneWinner ==
    \A c, d \in Candidate :
        TallyVotes(c) = "VoteWon" /\ TallyVotes(d) = "VoteWon" => c = d

\* A decided tally stays decided: a late or repeated answer never turns a won
\* or a lost election around (RecordVote keeps the first answer).
OutcomeStable ==
    [][\A c \in Candidate :
        TallyVotes(c) # "VotePending" => TallyVotes(c)' = TallyVotes(c)]_vars

\* Every set of voters that can elect a leader contains one that acknowledged
\* the commit index (the overlap that leader completeness rests on).
ElectorsKnowCommitted ==
    \A Y \in SUBSET Node :
        JointVoteResult(voters, Y, {}) = "VoteWon" =>
            \E i \in Y : match[i] >= Committed

\* Where insertionSort leaves the i-th element: behind those that are smaller, and behind
\* equal ones that were in front of it.
Place(s, i) == Cardinality({j \in DOMAIN s : s[j] < s[i] \/ (s[j] = s[i] /\ j <= i)})

Sorted(s) == [k \in DOMAIN s |-> s[CHOOSE i \in DOMAIN s : Place(s, i) = k]]

\* The reference for CommittedIndex: sort the acknowledged indexes and read the
\* slice at position n - (n/2 + 1), as the code does.
SortedPick(c) ==
    LET n   == Cardinality(c)
        srt == Sorted([k \in 1..n |-> match[SetToSeq(c)[k]]])
    IN  srt[n - ((n \div 2) + 1) + 1]

\* Committed computes what sorting the two halves computes.
CommittedIsSortedPick ==
    Committed = IF voters[2] = {} THEN SortedPick(voters[1])
                ELSE Min({SortedPick(voters[1]), SortedPick(voters[2])})

=============================================================================
