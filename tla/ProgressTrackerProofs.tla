------------------------ MODULE ProgressTrackerProofs ------------------------
(***************************************************************************)
(* What the vote tally and the commit rule guarantee for every cluster,    *)
(* every joint configuration and every order of the answers.               *)
(***************************************************************************)
EXTENDS ProgressTracker, FiniteSetTheorems, WellFoundedInduction, TLAPS

\* Two majorities of the same MajorityConfig share a voter
\* (q := len(c)/2 + 1 in MajorityConfig.VoteResult).
LEMMA MajoritiesOverlap ==
    ASSUME NEW c, IsFiniteSet(c), NEW Y, NEW Z,
           Cardinality(c \cap Y) >= MajoritySize(c),
           Cardinality(c \cap Z) >= MajoritySize(c)
    PROVE  c \cap Y \cap Z # {}
<1>1. Cardinality(c) \in Nat
  BY FS_CardinalityType
<1>2. /\ IsFiniteSet(c \cap Y) /\ IsFiniteSet(c \cap Z)
      /\ Cardinality(c \cap Y) \in Nat /\ Cardinality(c \cap Z) \in Nat
  <2>1. IsFiniteSet(c \cap Y) /\ IsFiniteSet(c \cap Z)
    BY FS_Intersection
  <2>2. QED BY <2>1, FS_CardinalityType
<1>3. Cardinality(c \cap Y) + Cardinality(c \cap Z) > Cardinality(c)
  BY <1>1, <1>2 DEF MajoritySize
<1>4. (c \cap Y) \cap (c \cap Z) # {}
  BY <1>3, FS_MajoritiesIntersect
<1>5. QED BY <1>4

\* A won joint election is won in the incoming majority.
LEMMA WonInIncoming ==
    ASSUME NEW c \in JointConfigs, NEW Y, NEW N,
           JointVoteResult(c, Y, N) = "VoteWon"
    PROVE  Cardinality(c[1] \cap Y) >= MajoritySize(c[1])
<1>1. c[1] # {}
  BY DEF JointConfigs
<1>2. MajorityVoteResult(c[1], Y, N) = "VoteWon"
  <2>1. MajorityVoteResult(c[1], Y, N) \in VoteResults
    BY DEF MajorityVoteResult, VoteResults
  <2>2. QED BY <2>1 DEF JointVoteResult, VoteResults
<1>3. QED BY <1>1, <1>2 DEF MajorityVoteResult

\* What makes OneWinner inductive: a recorded yes is the one ballot of its voter.
GrantsAreBallots ==
    \A c \in Candidate : \A i \in votes[c].yes : ballot[i] = c

TallyInv == TypeOK /\ GrantsAreBallots

\* The variables keep their types and every recorded grant is a ballot cast.
THEOREM TallyInvariant == Spec => []TallyInv
<1>1. Init => TallyInv
  <2>1. SUFFICES ASSUME Init PROVE TallyInv
    OBVIOUS
  <2>2. TypeOK
    BY <2>1, TrackerAssumption DEF Init, TypeOK
  <2>3. GrantsAreBallots
    BY <2>1 DEF Init, GrantsAreBallots
  <2>4. QED BY <2>2, <2>3 DEF TallyInv
<1>2. TallyInv /\ [Next]_vars => TallyInv'
  <2>1. SUFFICES ASSUME TallyInv, [Next]_vars PROVE TallyInv'
    OBVIOUS
  <2> USE DEF TallyInv
  <2>2. ASSUME NEW i \in Node, NEW c \in Candidate, CastBallot(i, c)
        PROVE  TallyInv'
    <3>1. TypeOK'
      BY <2>1, <2>2 DEF CastBallot, TypeOK
    <3>2. GrantsAreBallots'
      BY <2>1, <2>2, TrackerAssumption DEF CastBallot, TypeOK, GrantsAreBallots
    <3>3. QED BY <3>1, <3>2
  <2>3. ASSUME NEW i \in Node, NEW c \in Candidate, NEW v \in BOOLEAN,
               RecordVote(c, i, v)
        PROVE  TallyInv'
    <3>1. CASE i \in votes[c].yes \cup votes[c].no
      <4>1. votes' = votes
        BY <2>1, <2>3, <3>1 DEF RecordVote, Recorded, TypeOK
      <4>2. QED BY <2>1, <2>3, <4>1 DEF RecordVote, TypeOK, GrantsAreBallots
    <3>2. CASE i \notin votes[c].yes \cup votes[c].no /\ v
      <4>1. votes' = [votes EXCEPT ![c] = [votes[c] EXCEPT !.yes = votes[c].yes \cup {i}]]
        BY <2>1, <2>3, <3>2 DEF RecordVote, Recorded, TypeOK
      <4>2. ballot[i] = c
        BY <2>3, <3>2 DEF RecordVote
      <4>3. TypeOK'
        <5>1. votes \in [Candidate -> [yes : SUBSET Node, no : SUBSET Node]]
          BY <2>1 DEF TypeOK
        <5>2. votes' \in [Candidate -> [yes : SUBSET Node, no : SUBSET Node]]
          BY <2>3, <4>1, <5>1
        <5>3. \A e \in Candidate : votes'[e].yes \cap votes'[e].no = {}
          BY <2>1, <2>3, <3>2, <4>1, <5>1 DEF TypeOK
        <5>4. QED BY <2>1, <2>3, <5>2, <5>3 DEF RecordVote, TypeOK
      <4>4. ASSUME NEW e \in Candidate, NEW j \in votes'[e].yes
            PROVE  ballot'[j] = e
        <5>1. votes \in [Candidate -> [yes : SUBSET Node, no : SUBSET Node]]
          BY <2>1 DEF TypeOK
        <5>2. ballot' = ballot
          BY <2>3 DEF RecordVote
        <5>3. CASE e = c
          <6>1. j \in votes[c].yes \cup {i}
            BY <4>1, <4>4, <5>1, <5>3
          <6>2. QED BY <2>1, <4>2, <5>2, <5>3, <6>1 DEF GrantsAreBallots
        <5>4. CASE e # c
          <6>1. j \in votes[e].yes
            BY <4>1, <4>4, <5>1, <5>4
          <6>2. QED BY <2>1, <5>2, <6>1 DEF GrantsAreBallots
        <5>5. QED BY <5>3, <5>4
      <4>5. QED BY <4>3, <4>4 DEF GrantsAreBallots
    <3>3. CASE i \notin votes[c].yes \cup votes[c].no /\ ~v
      <4>1. votes' = [votes EXCEPT ![c] = [votes[c] EXCEPT !.no = votes[c].no \cup {i}]]
        BY <2>1, <2>3, <3>3 DEF RecordVote, Recorded, TypeOK
      <4>2. QED
        BY <2>1, <2>3, <3>3, <4>1 DEF RecordVote, TypeOK, GrantsAreBallots
    <3>4. QED BY <3>1, <3>2, <3>3
  <2>4. ASSUME NEW i \in Node, NEW n \in 0..MaxMatch, Acknowledge(i, n)
        PROVE  TallyInv'
    BY <2>1, <2>4, TrackerAssumption
    DEF Acknowledge, MatchAfter, TypeOK, GrantsAreBallots
  <2>5. CASE UNCHANGED vars
    BY <2>1, <2>5 DEF vars, TypeOK, GrantsAreBallots
  <2>6. QED BY <2>1, <2>2, <2>3, <2>4, <2>5 DEF Next
<1>3. QED BY <1>1, <1>2, PTL DEF Spec

\* At most one candidate of a term sees VoteWon, for every cluster size and
\* every joint configuration.
THEOREM AtMostOneWinner == Spec => []OneWinner
<1>1. TallyInv => OneWinner
  <2>1. SUFFICES ASSUME TallyInv, NEW c \in Candidate, NEW d \in Candidate,
                        TallyVotes(c) = "VoteWon", TallyVotes(d) = "VoteWon"
                 PROVE  c = d
    BY DEF OneWinner
  <2>2. voters \in JointConfigs /\ IsFiniteSet(voters[1])
    <3>1. voters \in JointConfigs
      BY <2>1 DEF TallyInv, TypeOK
    <3>2. voters[1] \in SUBSET Node
      BY <3>1 DEF JointConfigs
    <3>3. QED BY <3>1, <3>2, FS_Subset, TrackerAssumption
  <2>3. Cardinality(voters[1] \cap votes[c].yes) >= MajoritySize(voters[1])
    BY <2>1, <2>2, WonInIncoming DEF TallyVotes
  <2>4. Cardinality(voters[1] \cap votes[d].yes) >= MajoritySize(voters[1])
    BY <2>1, <2>2, WonInIncoming DEF TallyVotes
  <2>5. voters[1] \cap votes[c].yes \cap votes[d].yes # {}
    BY <2>2, <2>3, <2>4, MajoritiesOverlap
  <2>6. PICK i : i \in votes[c].yes /\ i \in votes[d].yes
    BY <2>5
  <2>7. QED BY <2>1, <2>6 DEF TallyInv, GrantsAreBallots
<1>2. QED BY <1>1, TallyInvariant, PTL

-----------------------------------------------------------------------------
(* Tallies only grow *)

\* More answers do not change a result that is decided in a majority.
LEMMA MajorityDecided ==
    ASSUME NEW c, IsFiniteSet(c), NEW Y, NEW N, NEW Y2, NEW N2,
           Y \subseteq Y2, N \subseteq N2, Y2 \cap N2 = {},
           MajorityVoteResult(c, Y, N) # "VotePending"
    PROVE  MajorityVoteResult(c, Y2, N2) = MajorityVoteResult(c, Y, N)
<1>1. /\ IsFiniteSet(c \cap Y2) /\ IsFiniteSet(c \ N) /\ IsFiniteSet(c \ N2)
      /\ c \cap Y \subseteq c \cap Y2 /\ c \ N2 \subseteq c \ N /\ c \cap Y2 \subseteq c \ N2
  BY FS_Subset
<1>2. /\ Cardinality(c \cap Y) <= Cardinality(c \cap Y2)
      /\ Cardinality(c \ N2) <= Cardinality(c \ N)
      /\ Cardinality(c \cap Y2) <= Cardinality(c \ N2)
  BY <1>1, FS_Subset
<1>3. /\ Cardinality(c) \in Nat
      /\ Cardinality(c \cap Y) \in Nat /\ Cardinality(c \cap Y2) \in Nat
      /\ Cardinality(c \ N) \in Nat /\ Cardinality(c \ N2) \in Nat
  <2>1. IsFiniteSet(c \cap Y)
    BY FS_Subset
  <2>2. QED BY <1>1, <2>1, FS_CardinalityType
<1>4. MajoritySize(c) \in Nat
  BY <1>3 DEF MajoritySize
<1>5. QED BY <1>2, <1>3, <1>4 DEF MajorityVoteResult

LEMMA JointDecided ==
    ASSUME NEW c, IsFiniteSet(c[1]), IsFiniteSet(c[2]), NEW Y, NEW N, NEW Y2, NEW N2,
           Y \subseteq Y2, N \subseteq N2, Y2 \cap N2 = {},
           JointVoteResult(c, Y, N) # "VotePending"
    PROVE  JointVoteResult(c, Y2, N2) = JointVoteResult(c, Y, N)
<1> DEFINE r1 == MajorityVoteResult(c[1], Y, N)
           r2 == MajorityVoteResult(c[2], Y, N)
           s1 == MajorityVoteResult(c[1], Y2, N2)
           s2 == MajorityVoteResult(c[2], Y2, N2)
<1>1. r1 # "VotePending" => s1 = r1
  BY MajorityDecided
<1>2. r2 # "VotePending" => s2 = r2
  BY MajorityDecided
<1>3. /\ JointVoteResult(c, Y, N) = IF "VoteLost" \in {r1, r2} THEN "VoteLost"
                                    ELSE IF "VotePending" \in {r1, r2} THEN "VotePending"
                                    ELSE "VoteWon"
      /\ JointVoteResult(c, Y2, N2) = IF "VoteLost" \in {s1, s2} THEN "VoteLost"
                                      ELSE IF "VotePending" \in {s1, s2} THEN "VotePending"
                                      ELSE "VoteWon"
  BY DEF JointVoteResult
<1> HIDE DEF r1, r2, s1, s2
<1>4. QED BY <1>1, <1>2, <1>3

\* An answer is added to one of the two sets of a Votes map, or to none.
LEMMA RecordedGrows ==
    ASSUME NEW rec \in [yes : SUBSET Node, no : SUBSET Node], rec.yes \cap rec.no = {},
           NEW i \in Node, NEW v \in BOOLEAN
    PROVE  /\ rec.yes \subseteq Recorded(rec, i, v).yes /\ rec.no \subseteq Recorded(rec, i, v).no
           /\ Recorded(rec, i, v).yes \cap Recorded(rec, i, v).no = {}
BY DEF Recorded

\* A candidate that has won or lost stays so, whatever answers come late or twice
\* (ProgressTracker.RecordVote and TallyVotes).
THEOREM OutcomesAreFinal == Spec => OutcomeStable
<1>1. TypeOK /\ [Next]_vars =>
        [\A c \in Candidate : TallyVotes(c) # "VotePending" => TallyVotes(c)' = TallyVotes(c)]_vars
  <2>1. SUFFICES ASSUME TypeOK, Next, NEW c \in Candidate, TallyVotes(c) # "VotePending"
                 PROVE  TallyVotes(c)' = TallyVotes(c)
    OBVIOUS
  <2>2. /\ voters' = voters
        /\ votes[c].yes \subseteq votes'[c].yes /\ votes[c].no \subseteq votes'[c].no
        /\ votes'[c].yes \cap votes'[c].no = {}
    <3>1. votes \in [Candidate -> [yes : SUBSET Node, no : SUBSET Node]]
          /\ votes[c].yes \cap votes[c].no = {}
      BY <2>1 DEF TypeOK
    <3>2. CASE voters' = voters /\ votes' = votes
      BY <3>1, <3>2
    <3>3. ASSUME NEW i \in Node, NEW d \in Candidate, CastBallot(i, d)
          PROVE  voters' = voters /\ votes' = votes
      BY <3>3 DEF CastBallot
    <3>4. ASSUME NEW i \in Node, NEW n \in 0..MaxMatch, Acknowledge(i, n)
          PROVE  voters' = voters /\ votes' = votes
      BY <3>4 DEF Acknowledge
    <3>5. ASSUME NEW i \in Node, NEW d \in Candidate, NEW v \in BOOLEAN, RecordVote(d, i, v)
          PROVE  /\ voters' = voters
                 /\ votes[c].yes \subseteq votes'[c].yes /\ votes[c].no \subseteq votes'[c].no
                 /\ votes'[c].yes \cap votes'[c].no = {}
      <4>1. voters' = voters /\ votes' = [votes EXCEPT ![d] = Recorded(votes[d], i, v)]
        BY <3>5 DEF RecordVote
      <4>2. CASE c = d
        <5>1. votes'[c] = Recorded(votes[c], i, v)
          BY <3>1, <4>1, <4>2
        <5>2. votes[c] \in [yes : SUBSET Node, no : SUBSET Node]
          BY <3>1
        <5>3. QED BY <3>1, <4>1, <5>1, <5>2, RecordedGrows
      <4>3. CASE c # d
        <5>1. votes'[c] = votes[c]
          BY <3>1, <4>1, <4>3
        <5>2. QED BY <3>1, <4>1, <5>1
      <4>4. QED BY <4>2, <4>3
    <3>6. QED BY <2>1, <3>2, <3>3, <3>4, <3>5 DEF Next
  <2>3. IsFiniteSet(voters[1]) /\ IsFiniteSet(voters[2])
    <3>1. voters[1] \subseteq Node /\ voters[2] \subseteq Node
      BY <2>1 DEF TypeOK, JointConfigs
    <3>2. QED BY <3>1, FS_Subset, TrackerAssumption
  <2>4. JointVoteResult(voters, votes'[c].yes, votes'[c].no) =
            JointVoteResult(voters, votes[c].yes, votes[c].no)
    <3>1. JointVoteResult(voters, votes[c].yes, votes[c].no) # "VotePending"
      BY <2>1 DEF TallyVotes
    <3>2. QED BY <2>2, <2>3, <3>1, JointDecided
  <2>5. QED BY <2>2, <2>4 DEF TallyVotes
<1>2. TallyInv => TypeOK
  BY DEF TallyInv
<1>3. QED BY <1>1, <1>2, TallyInvariant, PTL DEF Spec, OutcomeStable

-----------------------------------------------------------------------------
(* The commit index *)

\* Every set of naturals that is not empty has a smallest element.
LEMMA HasLeast ==
    ASSUME NEW S \in SUBSET Nat, S # {}
    PROVE  \E m \in S : \A k \in S : m <= k
<1>1. PICK m \in S : \A k \in S : ~ (<<k, m>> \in OpToRel(<, Nat))
  BY NatLessThanWellFounded, WFMin
<1>2. \A k \in S : ~ (k < m)
  BY <1>1 DEF OpToRel
<1>3. QED BY <1>2

\* A set of naturals up to a bound that is not empty has a largest element.
LEMMA HasGreatest ==
    ASSUME NEW n \in Nat, NEW S \in SUBSET (0..n), S # {}
    PROVE  Max(S) \in S /\ \A k \in S : Max(S) >= k
<1> DEFINE T == {n - k : k \in S}
<1>1. T \in SUBSET Nat /\ T # {}
  <2>1. \A k \in S : n - k \in Nat
    OBVIOUS
  <2>2. PICK k \in S : TRUE
    OBVIOUS
  <2>3. n - k \in T
    BY <2>2
  <2>4. QED BY <2>1, <2>3
<1>2. PICK t \in T : \A k \in T : t <= k
  BY <1>1, HasLeast
<1>3. PICK m \in S : t = n - m
  OBVIOUS
<1>4. \A k \in S : n - m <= n - k
  BY <1>2, <1>3
<1>5. \A k \in S : m >= k
  BY <1>4
<1>6. QED BY <1>5 DEF Max

LEMMA MinOfTwo ==
    ASSUME NEW a \in Nat, NEW b \in Nat
    PROVE  Min({a, b}) <= a /\ Min({a, b}) <= b
<1>1. \E x \in {a, b} : \A y \in {a, b} : x <= y
  OBVIOUS
<1>2. \A y \in {a, b} : Min({a, b}) <= y
  BY <1>1 DEF Min
<1>3. QED BY <1>2

\* The commit index of a majority is an index that a majority of it acknowledged.
LEMMA MajorityReached ==
    ASSUME NEW c, IsFiniteSet(c), c # {}, NEW n \in Nat, NEW m, \A i \in c : m[i] \in 0..n
    PROVE  /\ MajorityCommittedIndex(c, m) \in 0..n
           /\ Cardinality({i \in c : m[i] >= MajorityCommittedIndex(c, m)}) >= MajoritySize(c)
<1> DEFINE all == {m[i] : i \in c}
           S   == {k \in all : Cardinality({i \in c : m[i] >= k}) >= MajoritySize(c)}
<1>1. all \in SUBSET (0..n) /\ all # {}
  OBVIOUS
<1>2. S # {}
  <2>1. PICK k \in all : \A x \in all : k <= x
    <3>1. all \in SUBSET Nat
      BY <1>1
    <3> HIDE DEF all
    <3>2. QED BY <1>1, <3>1, HasLeast
  <2>2. {i \in c : m[i] >= k} = c
    <3>1. \A i \in c : m[i] \in all /\ m[i] \in Nat /\ k \in Nat
      BY <1>1
    <3>2. \A i \in c : m[i] >= k
      BY <2>1, <3>1
    <3>3. QED BY <3>2
  <2>3. Cardinality(c) \in Nat /\ Cardinality(c) # 0
    BY FS_CardinalityType, FS_EmptySet
  <2>4. Cardinality(c) >= MajoritySize(c)
    BY <2>3 DEF MajoritySize
  <2>5. k \in S
    BY <2>1, <2>2, <2>4
  <2>6. QED BY <2>5
<1>3. S \in SUBSET (0..n)
  BY <1>1
<1>4. MajorityCommittedIndex(c, m) = Max(S)
  BY DEF MajorityCommittedIndex
<1> HIDE DEF S
<1>5. Max(S) \in S
  BY <1>2, <1>3, HasGreatest
<1>6. QED BY <1>3, <1>4, <1>5 DEF S

\* Who can win an election has a voter that acknowledged the commit index: at every
\* moment, in every joint configuration, whatever was acknowledged in which order
\* (JointConfig.VoteResult and CommittedIndex).
THEOREM ElectorsKnow == Spec => []ElectorsKnowCommitted
<1>1. TypeOK => ElectorsKnowCommitted
  <2>1. SUFFICES ASSUME TypeOK, NEW Y \in SUBSET Node,
                        JointVoteResult(voters, Y, {}) = "VoteWon"
                 PROVE  \E i \in Y : match[i] >= Committed
    BY DEF ElectorsKnowCommitted
  <2> DEFINE c == voters[1]
             a == MajorityCommittedIndex(voters[1], match)
             b == MajorityCommittedIndex(voters[2], match)
             Z == {i \in c : match[i] >= a}
  <2>2. /\ voters \in JointConfigs /\ match \in [Node -> 0..MaxMatch]
        /\ voters[1] \subseteq Node /\ voters[1] # {} /\ voters[2] \subseteq Node
        /\ MaxMatch \in Nat
    BY <2>1, TrackerAssumption DEF TypeOK, JointConfigs
  <2>3. IsFiniteSet(voters[1]) /\ IsFiniteSet(voters[2])
    BY <2>2, FS_Subset, TrackerAssumption
  <2>4. (\A i \in voters[1] : match[i] \in 0..MaxMatch)
        /\ (\A i \in voters[2] : match[i] \in 0..MaxMatch)
    BY <2>2
  <2>5. a \in 0..MaxMatch /\ Cardinality(Z) >= MajoritySize(c)
    BY <2>2, <2>3, <2>4, MajorityReached
  <2>6. b \in Nat
    <3>1. CASE voters[2] = {}
      BY <3>1, MaxIndexAssumption DEF MajorityCommittedIndex
    <3>2. CASE voters[2] # {}
      <4>1. b \in 0..MaxMatch
        BY <2>2, <2>3, <2>4, <3>2, MajorityReached
      <4>2. QED BY <2>2, <4>1
    <3>3. QED BY <3>1, <3>2
  <2>7. Cardinality(c \cap Y) >= MajoritySize(c)
    BY <2>1, <2>2, WonInIncoming
  <2>8. c \cap Z = Z
    OBVIOUS
  <2> HIDE DEF Z
  <2>9. c \cap Y \cap Z # {}
    BY <2>3, <2>5, <2>7, <2>8, MajoritiesOverlap
  <2>10. PICK i \in Y : i \in Node /\ match[i] >= a
    BY <2>2, <2>9 DEF Z
  <2>11. Committed = Min({a, b})
    BY DEF Committed, JointCommittedIndex
  <2> HIDE DEF a, b
  <2>12. Min({a, b}) <= a
    <3>1. a \in Nat
      BY <2>2, <2>5
    <3>2. QED BY <2>6, <3>1, MinOfTwo
  <2>13. Min({a, b}) \in Nat
    <3>1. a \in Nat
      BY <2>2, <2>5
    <3>2. \E x \in {a, b} : \A y \in {a, b} : x <= y
      BY <2>6, <3>1
    <3>3. Min({a, b}) \in {a, b}
      BY <3>2 DEF Min
    <3>4. QED BY <2>6, <3>1, <3>3
  <2>14. match[i] \in Nat /\ a \in Nat
    BY <2>2, <2>5, <2>10
  <2>15. match[i] >= Committed
    BY <2>10, <2>11, <2>12, <2>13, <2>14
  <2>16. QED BY <2>10, <2>15
<1>2. TallyInv => TypeOK
  BY DEF TallyInv
<1>3. QED BY <1>1, <1>2, TallyInvariant, PTL

-----------------------------------------------------------------------------
(* The commit index as the code computes it *)

\* Element i of s comes before element j once s is sorted.
Precedes(s, i, j) == s[i] < s[j] \/ (s[i] = s[j] /\ i <= j)

\* Every element has a place of its own, and every place an element.
LEMMA PlacesFacts ==
    ASSUME NEW n \in Nat, NEW s \in [1..n -> Nat]
    PROVE  /\ \A i \in 1..n : Place(s, i) \in 1..n
           /\ \A i, j \in 1..n : Place(s, i) <= Place(s, j) => Precedes(s, i, j)
           /\ \A k \in 1..n : \E i \in 1..n : Place(s, i) = k
<1> DEFINE Before(i) == {j \in 1..n : Precedes(s, j, i)}
           f == [i \in 1..n |-> Place(s, i)]
<1>1. IsFiniteSet(1..n) /\ Cardinality(1..n) = n
  BY FS_Interval
<1>2. ASSUME NEW i \in 1..n
      PROVE  /\ Place(s, i) = Cardinality(Before(i)) /\ Before(i) \subseteq 1..n /\ i \in Before(i)
             /\ IsFiniteSet(Before(i)) /\ Place(s, i) \in 1..n
  <2>1. Place(s, i) = Cardinality(Before(i))
    BY DEF Place, Precedes
  <2>2. Before(i) \subseteq 1..n /\ i \in Before(i)
    BY DEF Precedes
  <2> HIDE DEF Before
  <2>3. /\ IsFiniteSet(Before(i)) /\ Cardinality(Before(i)) \in Nat
        /\ Cardinality(Before(i)) <= n /\ Cardinality(Before(i)) # 0
    BY <1>1, <2>2, FS_Subset, FS_CardinalityType, FS_EmptySet
  <2>4. QED BY <2>1, <2>2, <2>3
<1> HIDE DEF Before
<1>3. \A i \in 1..n : Place(s, i) \in 1..n /\ Place(s, i) \in Nat
  BY <1>2
<1>4. ASSUME NEW i \in 1..n, NEW j \in 1..n, ~Precedes(s, i, j)
      PROVE  Place(s, j) < Place(s, i)
  <2>1. s[i] \in Nat /\ s[j] \in Nat /\ i # j /\ Precedes(s, j, i)
    BY <1>4 DEF Precedes
  <2>2. \A k \in 1..n : Precedes(s, k, j) => Precedes(s, k, i)
    BY <2>1 DEF Precedes
  <2>3. Before(j) \subseteq Before(i) /\ i \in Before(i) /\ i \notin Before(j)
    <3>1. i \in Before(i)
      BY <1>2
    <3>2. QED BY <1>4, <2>1, <2>2, <3>1 DEF Before
  <2>4. IsFiniteSet(Before(i)) /\ Place(s, i) = Cardinality(Before(i))
        /\ Place(s, j) = Cardinality(Before(j)) /\ Place(s, i) \in Nat /\ Place(s, j) \in Nat
    BY <1>2, <1>3
  <2>5. Cardinality(Before(j)) <= Cardinality(Before(i)) /\ Cardinality(Before(j)) # Cardinality(Before(i))
    BY <2>3, <2>4, FS_Subset
  <2>6. QED BY <2>4, <2>5
<1>5. ASSUME NEW i \in 1..n, NEW j \in 1..n, Place(s, i) <= Place(s, j)
      PROVE  Precedes(s, i, j)
  BY <1>4, <1>5, <1>3
<1>6. \A i, j \in 1..n : f[i] = f[j] => i = j
  <2>1. SUFFICES ASSUME NEW i \in 1..n, NEW j \in 1..n, Place(s, i) = Place(s, j)
                 PROVE  i = j
    OBVIOUS
  <2>2. Place(s, i) \in Nat /\ Place(s, j) \in Nat
    BY <1>3
  <2>3. Precedes(s, i, j) /\ Precedes(s, j, i)
    BY <1>5, <2>1, <2>2
  <2>4. QED BY <2>3 DEF Precedes
<1>7. f \in Surjection(1..n, 1..n)
  <2>1. f \in [1..n -> 1..n]
    BY <1>2
  <2> HIDE DEF f
  <2>2. f \in Injection(1..n, 1..n)
    BY <1>6, <2>1 DEF Injection, IsInjective
  <2>3. QED BY <1>1, <2>2, FS_Injection
<1>8. \A k \in 1..n : \E i \in 1..n : Place(s, i) = k
  BY <1>7 DEF Surjection
<1>9. QED BY <1>5, <1>8, <1>3

\* A set of naturals has one largest element.
LEMMA LargestIs ==
    ASSUME NEW S \in SUBSET Nat, NEW m \in S, \A k \in S : k <= m
    PROVE  Max(S) = m
<1>1. \E x \in S : \A k \in S : x >= k
  BY Zenon
<1>2. Max(S) \in S /\ \A k \in S : Max(S) >= k
  BY <1>1 DEF Max
<1>3. Max(S) \in Nat /\ m \in Nat /\ Max(S) >= m /\ Max(S) <= m
  BY <1>2
<1>4. QED BY <1>3

\* A finite set listed as a sequence: each element once.
LEMMA ListFacts ==
    ASSUME NEW c, IsFiniteSet(c)
    PROVE  /\ SetToSeq(c) \in [1..Cardinality(c) -> c]
           /\ \A i, j \in 1..Cardinality(c) : SetToSeq(c)[i] = SetToSeq(c)[j] => i = j
           /\ \A x \in c : \E i \in 1..Cardinality(c) : SetToSeq(c)[i] = x
<1> DEFINE n == Cardinality(c)
<1>1. n \in Nat /\ ExistsBijection(1..n, c)
  BY FS_CardinalityType
<1>2. PICK f \in Bijection(1..n, c) : TRUE
  BY <1>1 DEF ExistsBijection
<1>3. f \in [1..n -> c] /\ IsInjective(f)
  BY <1>2 DEF Bijection, Injection
<1>4. SetToSeq(c) \in [1..n -> c] /\ IsInjective(SetToSeq(c))
  BY <1>3 DEF SetToSeq
<1> DEFINE g == SetToSeq(c)
<1> HIDE DEF g
<1>5. g \in Injection(1..n, c)
  BY <1>4 DEF g, Injection
<1>6. IsFiniteSet(1..n) /\ Cardinality(1..n) = n
  BY <1>1, FS_Interval
<1>7. g \in Surjection(1..n, c)
  BY <1>5, <1>6, FS_Injection
<1>8. QED BY <1>4, <1>5, <1>7 DEF g, Injection, Surjection, IsInjective

\* Sorting the indexes that a majority acknowledged and reading the slice in the middle
\* finds what MajorityCommittedIndex finds (MajorityConfig.CommittedIndex, insertionSort).
LEMMA PickIsCommitted ==
    ASSUME NEW c, IsFiniteSet(c), c # {}, \A i \in c : match[i] \in Nat
    PROVE  SortedPick(c) = MajorityCommittedIndex(c, match)
<1> DEFINE n    == Cardinality(c)
           list == SetToSeq(c)
           s    == [k \in 1..n |-> match[list[k]]]
           q    == n - ((n \div 2) + 1) + 1
           at(k) == CHOOSE i \in 1..n : Place(s, i) = k
           Reach(v) == {i \in c : match[i] >= v}
           S    == {v \in {match[i] : i \in c} : Cardinality(Reach(v)) >= MajoritySize(c)}
<1>1. n \in Nat /\ n # 0 /\ q \in 1..n /\ n - q + 1 = MajoritySize(c)
  <2>1. n \in Nat /\ n # 0
    BY FS_CardinalityType, FS_EmptySet
  <2>2. QED BY <2>1 DEF MajoritySize
<1>2. /\ list \in [1..n -> c] /\ s \in [1..n -> Nat] /\ \A i \in 1..n : s[i] = match[list[i]]
      /\ \A i, j \in 1..n : list[i] = list[j] => i = j
      /\ \A x \in c : \E i \in 1..n : list[i] = x
  BY ListFacts
<1> HIDE DEF n, list, s, q
<1>3. SortedPick(c) = s[at(q)]
  <2>1. DOMAIN s = 1..n
    BY <1>2
  <2>2. Sorted(s) = [k \in 1..n |-> s[at(k)]]
    BY <2>1 DEF Sorted
  <2>3. SortedPick(c) = Sorted(s)[q]
    BY DEF SortedPick, n, s, q, list
  <2>4. QED BY <1>1, <2>2, <2>3
<1> HIDE DEF at, Reach, S
<1>4. /\ \A i \in 1..n : Place(s, i) \in 1..n
      /\ \A i, j \in 1..n : Place(s, i) <= Place(s, j) => Precedes(s, i, j)
      /\ \A k \in 1..n : \E i \in 1..n : Place(s, i) = k
  <2>1. n \in Nat /\ s \in [1..n -> Nat]
    BY <1>1, <1>2
  <2>2. QED BY <2>1, PlacesFacts
<1> USE DEF at, Reach, S
<1>5. \A k \in 1..n : at(k) \in 1..n /\ Place(s, at(k)) = k
  <2>1. \A k \in 1..n : \E i \in 1..n : Place(s, i) = k
    BY <1>4
  <2>2. QED BY <2>1
<1>6. \A i, j \in 1..n : Place(s, i) <= Place(s, j) => s[i] <= s[j]
  <2>1. \A i, j \in 1..n : Place(s, i) <= Place(s, j) => Precedes(s, i, j)
    BY <1>4
  <2>2. \A i \in 1..n : s[i] \in Nat
    BY <1>2
  <2>3. QED BY <2>1, <2>2 DEF Precedes
<1>7. \A i \in 1..n : Place(s, i) \in 1..n
  BY <1>4
<1> HIDE DEF at
<1> DEFINE p == s[at(q)]
<1>8. p \in Nat /\ at(q) \in 1..n
  BY <1>1, <1>2, <1>5
\* Those that come after the middle have acknowledged as much: a majority.
<1>9. Cardinality(Reach(p)) >= MajoritySize(c)
  <2> DEFINE g == [k \in q..n |-> list[at(k)]]
  <2>1. \A k \in q..n : k \in 1..n /\ q <= k
    BY <1>1
  <2>2. ASSUME NEW k \in q..n
        PROVE  list[at(k)] \in Reach(p)
    <3>1. at(k) \in 1..n /\ Place(s, at(k)) = k /\ Place(s, at(q)) = q /\ k \in Nat /\ q <= k
      BY <1>1, <1>5, <2>1
    <3>2. s[at(q)] <= s[at(k)]
      BY <1>6, <1>8, <3>1
    <3>3. list[at(k)] \in c /\ s[at(k)] = match[list[at(k)]] /\ s[at(k)] \in Nat
      BY <1>2, <3>1
    <3>4. QED BY <1>8, <3>2, <3>3
  <2>3. g \in Injection(q..n, Reach(p))
    <3>1. g \in [q..n -> Reach(p)]
      BY <2>2
    <3>2. \A i, j \in q..n : list[at(i)] = list[at(j)] => i = j
      BY <1>2, <1>5, <2>1
    <3> HIDE DEF Reach
    <3>3. \A i, j \in q..n : g[i] = g[j] => i = j
      BY <3>2
    <3> HIDE DEF g
    <3>4. QED BY <3>1, <3>3 DEF Injection, IsInjective
  <2>4. IsFiniteSet(Reach(p))
    <3>1. Reach(p) \subseteq c
      OBVIOUS
    <3>2. QED BY <3>1, FS_Subset
  <2>5. Cardinality(q..n) = n - q + 1
    BY <1>1, FS_Interval
  <2> HIDE DEF g, Reach
  <2>6. Cardinality(q..n) <= Cardinality(Reach(p))
    BY <2>3, <2>4, FS_Injection
  <2>7. Cardinality(Reach(p)) \in Nat
    BY <2>4, FS_CardinalityType
  <2>8. QED BY <1>1, <2>5, <2>6, <2>7
\* What is larger was acknowledged by fewer, all of them later in the slice.
<1>10. ASSUME NEW v \in Nat, v > p
      PROVE  ~(Cardinality(Reach(v)) >= MajoritySize(c))
  <2> DEFINE where == [x \in Reach(v) |-> Place(s, CHOOSE i \in 1..n : list[i] = x)]
  <2>1. ASSUME NEW x \in Reach(v), NEW i \in 1..n, list[i] = x
        PROVE  Place(s, i) \in (q + 1)..n
    <3>1. s[i] >= v /\ s[i] \in Nat
      BY <1>2, <2>1
    <3>2. ~(s[i] <= p)
      BY <1>8, <1>10, <3>1
    <3>3. ~(Place(s, i) <= Place(s, at(q)))
      BY <1>6, <1>8, <3>2
    <3>4. Place(s, at(q)) = q /\ Place(s, i) \in 1..n
      BY <1>1, <1>5, <1>7
    <3>5. QED BY <1>1, <3>3, <3>4
  <2>2. \A x \in Reach(v) : \E i \in 1..n : list[i] = x
    BY <1>2
  <2>3. ASSUME NEW x \in Reach(v), NEW y \in Reach(v), where[x] = where[y]
        PROVE  x = y
    <3> DEFINE i == CHOOSE k \in 1..n : list[k] = x
               j == CHOOSE k \in 1..n : list[k] = y
    <3>1. i \in 1..n /\ list[i] = x /\ j \in 1..n /\ list[j] = y
      BY <2>2
    <3>2. Place(s, i) = Place(s, j)
      BY <2>3
    <3> HIDE DEF i, j
    <3>3. Place(s, i) \in 1..n /\ Place(s, j) \in 1..n
      BY <1>7, <3>1
    <3>4. Precedes(s, i, j) /\ Precedes(s, j, i)
      <4>1. \A k, l \in 1..n : Place(s, k) <= Place(s, l) => Precedes(s, k, l)
        BY <1>4
      <4>2. Place(s, i) <= Place(s, j) /\ Place(s, j) <= Place(s, i)
        BY <1>1, <3>2, <3>3
      <4>3. QED BY <3>1, <4>1, <4>2
    <3>5. i = j
      BY <1>2, <3>1, <3>4 DEF Precedes
    <3>6. QED BY <3>1, <3>5
  <2>4. where \in Injection(Reach(v), (q + 1)..n)
    <3>1. \A x \in Reach(v) : where[x] \in (q + 1)..n
      BY <2>1, <2>2
    <3>2. where \in [Reach(v) -> (q + 1)..n]
      BY <3>1
    <3> HIDE DEF where, Reach
    <3>3. QED BY <2>3, <3>2 DEF Injection, IsInjective
  <2>5. IsFiniteSet((q + 1)..n) /\ Cardinality((q + 1)..n) = n - q
    BY <1>1, FS_Interval
  <2> HIDE DEF where, Reach
  <2>6. Cardinality(Reach(v)) <= n - q /\ Cardinality(Reach(v)) \in Nat
    BY <2>4, <2>5, FS_Injection, FS_CardinalityType
  <2>7. QED BY <1>1, <2>6
<1>11. p \in {match[i] : i \in c}
  BY <1>2, <1>8
<1>12. S \in SUBSET Nat /\ p \in S
  BY <1>9, <1>11
<1>13. \A v \in S : v <= p
  BY <1>8, <1>10, <1>12
<1>14. MajorityCommittedIndex(c, match) = Max(S)
  BY DEF MajorityCommittedIndex
<1> HIDE DEF S, p
<1>15. Max(S) = p
  BY <1>12, <1>13, LargestIs
<1>16. QED BY <1>3, <1>14, <1>15 DEF p

\* An empty half has no say.
LEMMA MinWithBound ==
    ASSUME NEW a \in Nat, NEW b \in Nat, a <= b
    PROVE  Min({a, b}) = a
<1>1. \E x \in {a, b} : \A y \in {a, b} : x <= y
  OBVIOUS
<1>2. Min({a, b}) \in {a, b} /\ \A y \in {a, b} : Min({a, b}) <= y
  BY <1>1 DEF Min
<1>3. QED BY <1>2

\* The commit index that the leader computes is what the sorted slices of both halves
\* hold at n - (n/2 + 1), for any number of voters and any acknowledgements
\* (MajorityConfig.CommittedIndex, JointConfig.CommittedIndex).
THEOREM SortingIsCounting == Spec => []CommittedIsSortedPick
<1>1. TypeOK => CommittedIsSortedPick
  <2>1. SUFFICES ASSUME TypeOK PROVE CommittedIsSortedPick
    OBVIOUS
  <2>2. /\ voters \in JointConfigs /\ match \in [Node -> 0..MaxMatch]
        /\ voters[1] \subseteq Node /\ voters[1] # {} /\ voters[2] \subseteq Node
        /\ MaxMatch \in Nat /\ MaxMatch <= MaxIndex /\ MaxIndex \in Nat
    BY <2>1, TrackerAssumption, MaxIndexAssumption DEF TypeOK, JointConfigs
  <2>3. IsFiniteSet(voters[1]) /\ IsFiniteSet(voters[2])
    BY <2>2, FS_Subset, TrackerAssumption
  <2>4. \A i \in Node : match[i] \in 0..MaxMatch /\ match[i] \in Nat
    BY <2>2
  <2>5. SortedPick(voters[1]) = MajorityCommittedIndex(voters[1], match)
    BY <2>2, <2>3, <2>4, PickIsCommitted
  <2>6. CASE voters[2] = {}
    <3>1. MajorityCommittedIndex(voters[1], match) \in 0..MaxMatch
      BY <2>2, <2>3, <2>4, MajorityReached
    <3>2. MajorityCommittedIndex(voters[2], match) = MaxIndex
      BY <2>6 DEF MajorityCommittedIndex
    <3>3. Committed = MajorityCommittedIndex(voters[1], match)
      BY <2>2, <3>1, <3>2, MinWithBound DEF Committed, JointCommittedIndex
    <3>4. QED BY <2>5, <2>6, <3>3 DEF CommittedIsSortedPick
  <2>7. CASE voters[2] # {}
    <3>1. SortedPick(voters[2]) = MajorityCommittedIndex(voters[2], match)
      BY <2>2, <2>3, <2>4, <2>7, PickIsCommitted
    <3>2. QED BY <2>5, <2>7, <3>1 DEF CommittedIsSortedPick, Committed, JointCommittedIndex
  <2>8. QED BY <2>6, <2>7
<1>2. TallyInv => TypeOK
  BY DEF TallyInv
<1>3. QED BY <1>1, <1>2, TallyInvariant, PTL

=============================================================================
