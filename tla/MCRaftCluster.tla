--------------------------- MODULE MCRaftCluster ---------------------------
(***************************************************************************)
(* Instances of RaftCluster for TLC.                                       *)
(***************************************************************************)
EXTENDS RaftCluster, TLC

Kinds == {"timeout", "restart", "beat", "check", "elapse", "transfer",
          "unreachable", "probe"}

NoEvents == [k \in Kinds |-> 0]

\* Everybody has the same three voters.
Uniform == [s \in Server |-> <<Server, {}>>]

Symm == Permutations(Server)

\* A cluster at rest: l won term 1 with everybody's vote, its empty entry is committed
\* and known to be everywhere, and of the messages so far only the votes may come again.
FirstLog == <<[term |-> 1, data |-> None]>>

Led(l) ==
    [s \in Server |->
        [newRaft(s, 1, l, FirstLog, 1) EXCEPT
            !.lead = l,
            !.state = IF s = l THEN Leader ELSE Follower,
            !.prs = IF s # l THEN NoProgress
                    ELSE [i \in Server |-> [BecomeReplicate(NewProgress(1, 2)) EXCEPT
                                                !.RecentActive = (i # l)]]]]

LedBy(l) ==
    /\ \A s \in Server : l \in IDs(Voters[s])
    /\ node = Led(l)
    /\ net = {[Msg("MsgVoteResp", l) EXCEPT !.term = 1, !.from = s] : s \in Server \ {l}}
    /\ props = {} /\ proposed = {} /\ dropped = {}
    /\ leaders = {<<1, l>>} /\ decided = FirstLog

LedSpec == (\E l \in Server : LedBy(l)) /\ count = NoEvents /\ [][Next]_vars

\* l led term 1, and appended a proposal when it was cut off; y won term 2 with
\* the vote of the third server, and was cut off with its first entry; l has just
\* won term 3 with that vote against y's; its first append to the third server is
\* under way, the one to y is lost.
Rivals(l, y) ==
    LET v    == CHOOSE v \in Value : TRUE
        old  == propose(Led(l)[l], v)
        mine == [becomeFollower(old, 3, None) EXCEPT !.Vote = l, !.msgs = {}]
        new  == bcastAppend(becomeLeader(mine))
        cut  == bcastAppend(becomeLeader(newRaft(y, 2, y, FirstLog, 1)))
    IN  /\ l # y
        /\ node = [s \in Server |->
                    IF s = l THEN [new EXCEPT !.msgs = {}]
                    ELSE IF s = y THEN [becomeFollower(cut, 3, None) EXCEPT !.msgs = {}]
                    ELSE newRaft(s, 3, l, FirstLog, 1)]
        /\ net = {m \in new.msgs : m.to # y} /\ props = {} /\ proposed = {v} /\ dropped = {}
        /\ leaders = {<<1, l>>, <<2, y>>, <<3, l>>} /\ decided = FirstLog
        /\ count = NoEvents

\* The servers are alike: who the rivals are does not matter, and choosing them
\* once is cheaper than a symmetry set.
First == CHOOSE s \in Server : TRUE
Second == CHOOSE s \in Server \ {First} : TRUE

RivalSpec == Rivals(First, Second) /\ [][Next]_vars

\* Two more campaigns among conflicting logs.
ConflictLimit == [NoEvents EXCEPT !["timeout"] = 2]

\* A pre-vote campaign against a leader with a lease, and one more event at the leader.
PreVoteLimit == [NoEvents EXCEPT !["timeout"] = 1, !["elapse"] = 2, !["beat"] = 1,
                                 !["probe"] = 1, !["unreachable"] = 1, !["check"] = 1]
OneExtra == count["beat"] + count["probe"] + count["unreachable"] + count["check"] <= 1

\* Leadership is won by campaigns or handed over, each with events of its own.
LeadershipLimit == [NoEvents EXCEPT !["timeout"] = 2, !["restart"] = 1,
                                    !["transfer"] = 1, !["check"] = 1]

\* Only events of these kinds are left.
Left(kinds) == count = [k \in Kind |-> IF k \in kinds THEN 0 ELSE Limit[k]]

\* A new cluster, in which two nodes campaign or one twice, and a crash must not lose a
\* vote.  Nobody proposes anything.
Campaigns ==
    /\ node = [s \in Server |-> newRaft(s, 0, None, <<>>, 0)]
    /\ net = {} /\ props = {} /\ proposed = Value /\ dropped = {}
    /\ leaders = {} /\ decided = <<>>
    /\ Left({"timeout", "restart"})

\* A leadership transfer, completed or given up, while a proposal is under way.
Handover == (\E l \in Server : LedBy(l)) /\ Left({"transfer", "check"})

LeadershipSpec == (Campaigns \/ Handover) /\ [][Next]_vars

=============================================================================
