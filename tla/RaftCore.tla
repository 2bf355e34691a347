------------------------------ MODULE RaftCore ------------------------------
(***************************************************************************)
(* The raft state machine of one node (raft.go, log.go and the Progress of *)
(* tracker/progress.go).  The struct raft is a record r and every method   *)
(* that changes it is an operator from the old record to the new one;      *)
(* r.msgs is the outbox that the caller drains.  The fields are those of   *)
(* the struct that the protocol depends on:                                *)
(*                                                                         *)
(*   Term, Vote, state, lead, leadTransferee, committed   as in the code   *)
(*   log       raftLog: sequence of entries [term, data], never compacted  *)
(*   elapsed   electionElapsed >= electionTimeout; it is only looked at    *)
(*             while lead # None, and stays FALSE when it is not           *)
(*   yes, no   prs.Votes                                                   *)
(*   prs       prs.Progress, which only a leader reads: reset rebuilds it, *)
(*             so every other node holds NoProgress                        *)
(*   panic     a panic of maybeAppend, commitTo or send was reached        *)
(***************************************************************************)
EXTENDS RaftQuorum, Integers, Sequences

CONSTANTS
    Server,       \* node ids
    None,         \* raft.None: no leader, no vote, no payload
    Value,        \* payloads of proposals
    Voters,       \* prs.Config.Voters of every node, a JointConfig
    PreVote,      \* Config.PreVote
    CheckQuorum,  \* Config.CheckQuorum
    MaxBatch      \* entries that Config.MaxSizePerMsg leaves room for in a message

Follower == "StateFollower"
Candidate == "StateCandidate"
PreCandidate == "StatePreCandidate"
Leader == "StateLeader"
States == {Follower, Candidate, PreCandidate, Leader}

JointConfig == (SUBSET Server) \X (SUBSET Server)

\* A set of voters that wins an election in the configuration of s.
Wins(s, Y) == JointVoteResult(Voters[s], Y, {}) = "VoteWon"

\* The configurations that nodes hold at the same time overlap: each is the
\* other one, or one membership change away (raft.go 303-309, 1184-1202).
ASSUME CoreAssumption ==
    /\ IsFiniteSet(Server)
    /\ None \notin Server /\ None \notin Value
    /\ Voters \in [Server -> JointConfig]
    /\ \A s \in Server : IDs(Voters[s]) # {}
    /\ PreVote \in BOOLEAN /\ CheckQuorum \in BOOLEAN
    /\ MaxBatch \in Nat \ {0}
    /\ \A s, t \in Server, Y, Z \in SUBSET Server :
         Wins(s, Y) /\ Wins(t, Z) => Y \cap Z # {}

-----------------------------------------------------------------------------
\* Messages (raftpb.Message)

VoteMessageTypes == {"MsgVote", "MsgVoteResp", "MsgPreVote", "MsgPreVoteResp"}
MessageTypes == VoteMessageTypes \cup
    {"MsgProp", "MsgApp", "MsgAppResp", "MsgHeartbeat", "MsgHeartbeatResp",
     "MsgTransferLeader", "MsgTimeoutNow", "MsgProbeRtt", "MsgProbeRttResp"}

Entry == [term : Nat, data : Value \cup {None}]

\* force stands for Context == campaignTransfer.
Message == [type : MessageTypes, from : Server, to : Server, term : Nat,
            logTerm : Nat, index : Nat, entries : Seq(Entry), commit : Nat,
            reject : BOOLEAN, rejectHint : Nat, force : BOOLEAN]

\* A message with every other field at its zero value.
Msg(type, to) ==
    [type |-> type, from |-> None, to |-> to, term |-> 0, logTerm |-> 0,
     index |-> 0, entries |-> <<>>, commit |-> 0, reject |-> FALSE,
     rejectHint |-> 0, force |-> FALSE]

\* send: From is always the sender, also on a forwarded message; Term is the
\* caller's for votes, none for proposals, and the sender's term otherwise.
Stamped(r, m) ==
    [m EXCEPT !.from = r.id,
              !.term = IF m.type \in VoteMessageTypes THEN m.term
                       ELSE IF m.type = "MsgProp" THEN 0 ELSE r.Term]

\* It panics on a vote without a term and on any other message that has one.
send(r, m) ==
    IF (m.type \in VoteMessageTypes) = (m.term = 0) THEN [r EXCEPT !.panic = TRUE]
    ELSE [r EXCEPT !.msgs = @ \cup {Stamped(r, m)}]

-----------------------------------------------------------------------------
\* raftLog

lastIndex(r) == Len(r.log)

\* term(i): 0 outside the log, with a nil error
termAt(log, i) == IF i \in 1..Len(log) THEN log[i].term ELSE 0

matchTerm(log, i, t) == termAt(log, i) = t

isUpToDate(r, lasti, term) ==
    LET lastTerm == termAt(r.log, lastIndex(r))
    IN  term > lastTerm \/ (term = lastTerm /\ lasti >= lastIndex(r))

\* Position in ents of the first entry that the log does not already hold, 0 if
\* there is none (findConflict returns the log index of that entry).
findConflict(log, index, ents) ==
    LET bad == {k \in 1..Len(ents) : ~matchTerm(log, index + k, ents[k].term)}
    IN  IF bad = {} THEN 0 ELSE Min(bad)

commitTo(r, n) ==
    IF r.committed >= n THEN r
    ELSE IF lastIndex(r) < n THEN [r EXCEPT !.panic = TRUE]
    ELSE [r EXCEPT !.committed = n]

\* maybeAppend once matchTerm(m.Index, m.LogTerm) holds
appendMatched(r, m) ==
    LET k == findConflict(r.log, m.index, m.entries)
        lastnewi == m.index + Len(m.entries)
    IN  IF k # 0 /\ m.index + k <= r.committed THEN [r EXCEPT !.panic = TRUE]
        ELSE commitTo([r EXCEPT !.log = IF k = 0 THEN @
                                        ELSE SubSeq(@, 1, m.index + k - 1)
                                             \o SubSeq(m.entries, k, Len(m.entries))],
                      Min({m.commit, lastnewi}))

-----------------------------------------------------------------------------
\* tracker.Progress

ProgressState == {"StateProbe", "StateReplicate"}
Progress == [Match : Nat, Next : Nat, State : ProgressState,
             RecentActive : BOOLEAN, ProbeSent : BOOLEAN]

NewProgress(match, next) ==
    [Match |-> match, Next |-> next, State |-> "StateProbe",
     RecentActive |-> FALSE, ProbeSent |-> FALSE]

NoProgress == [i \in Server |-> NewProgress(0, 0)]

\* The inflights window (512 messages) never fills within the model's bounds.
IsPaused(pr) == pr.State = "StateProbe" /\ pr.ProbeSent

BecomeProbe(pr) ==
    [pr EXCEPT !.State = "StateProbe", !.ProbeSent = FALSE, !.Next = pr.Match + 1]

BecomeReplicate(pr) ==
    [pr EXCEPT !.State = "StateReplicate", !.ProbeSent = FALSE, !.Next = pr.Match + 1]

MaybeUpdate(pr, n) ==
    [pr EXCEPT !.Match = Max({pr.Match, n}),
               !.ProbeSent = pr.ProbeSent /\ pr.Match >= n,
               !.Next = Max({pr.Next, n + 1})]

\* MaybeDecrTo returns false for a rejection that is out of date.
RejectionIsFresh(pr, rejected) ==
    IF pr.State = "StateReplicate" THEN rejected > pr.Match ELSE pr.Next - 1 = rejected

\* ... and moves Next back otherwise.
DecrTo(pr, rejected, last) ==
    IF pr.State = "StateReplicate" THEN [pr EXCEPT !.Next = pr.Match + 1]
    ELSE [pr EXCEPT !.Next = Max({1, Min({rejected, last + 1})}), !.ProbeSent = FALSE]

-----------------------------------------------------------------------------
\* Replication messages

Peers(r) == IDs(Voters[r.id]) \ {r.id}

\* limitSize: at least one entry, if there is one
BatchEnd(r, next) == Min({lastIndex(r), next + MaxBatch - 1})

AppendMessage(r, i, next) ==
    [Msg("MsgApp", i) EXCEPT
        !.index = next - 1, !.logTerm = termAt(r.log, next - 1),
        !.entries = SubSeq(r.log, next, BatchEnd(r, next)), !.commit = r.committed]

\* The Progress after a MsgApp: entries move an optimistic Next, or pause a probe.
AfterAppend(r, pr) ==
    IF pr.Next > lastIndex(r) THEN pr
    ELSE IF pr.State = "StateReplicate" THEN [pr EXCEPT !.Next = BatchEnd(r, pr.Next) + 1]
    ELSE [pr EXCEPT !.ProbeSent = TRUE]

\* maybeSendAppend to every peer in P
maybeSendAppend(r, P, sendIfEmpty) ==
    LET T == {i \in P : ~IsPaused(r.prs[i]) /\
                          (sendIfEmpty \/ r.prs[i].Next <= lastIndex(r))}
    IN  [r EXCEPT
            !.prs = [i \in Server |-> IF i \in T THEN AfterAppend(r, r.prs[i])
                                      ELSE r.prs[i]],
            !.msgs = @ \cup {Stamped(r, AppendMessage(r, i, r.prs[i].Next)) : i \in T}]

\* maybeSendAppend without empty messages, repeated until nothing is sent
sendRest(r, i) ==
    LET next == r.prs[i].Next
        rest == {k \in next..lastIndex(r) : (k - next) % MaxBatch = 0}
    IN  IF r.prs[i].State = "StateProbe" \/ rest = {} THEN maybeSendAppend(r, {i}, FALSE)
        ELSE [r EXCEPT !.prs[i].Next = lastIndex(r) + 1,
                       !.msgs = @ \cup {Stamped(r, AppendMessage(r, i, k)) : k \in rest}]

sendAppend(r, i) == maybeSendAppend(r, {i}, TRUE)
bcastAppend(r) == maybeSendAppend(r, Peers(r), TRUE)

\* Mutant of bcastHeartbeat: the commit index is not bounded by Match.
bcastCommit(r) ==
    [r EXCEPT !.msgs = @ \cup
        {Stamped(r, [Msg("MsgHeartbeat", i) EXCEPT !.commit = r.committed]) : i \in Peers(r)}]

\* bcastHeartbeat without a read request pending
bcastHeartbeat(r) ==
    [r EXCEPT !.msgs = @ \cup
        {Stamped(r, [Msg("MsgHeartbeat", i) EXCEPT
                        !.commit = Min({r.prs[i].Match, r.committed})]) : i \in Peers(r)}]

\* bcastProbeRtt: what the other nodes see of it
bcastProbeRtt(r) ==
    [r EXCEPT !.msgs = @ \cup {Stamped(r, Msg("MsgProbeRtt", i)) : i \in Peers(r)}]

\* Mutant of maybeCommit: entries of earlier terms are committed by counting.
commitCounted(r) ==
    LET mci == JointCommittedIndex(Voters[r.id], [i \in Server |-> r.prs[i].Match])
    IN  IF mci > r.committed THEN commitTo(r, mci) ELSE r

maybeCommit(r) ==
    LET mci == JointCommittedIndex(Voters[r.id], [i \in Server |-> r.prs[i].Match])
    IN  IF mci > r.committed /\ termAt(r.log, mci) = r.Term THEN commitTo(r, mci) ELSE r

\* appendEntry of one entry; the quota on uncommitted entries is unlimited
appendEntry(r, data) ==
    LET log == Append(r.log, [term |-> r.Term, data |-> data])
    IN  maybeCommit([r EXCEPT !.log = log,
                              !.prs[r.id] = MaybeUpdate(r.prs[r.id], Len(log))])

-----------------------------------------------------------------------------
\* State transitions

\* Mutant of reset: the vote of the term is lost.
resetForgetsVote(r, term) ==
    [r EXCEPT !.Term = term, !.Vote = None,
              !.lead = None, !.elapsed = FALSE, !.leadTransferee = None,
              !.yes = {}, !.no = {}, !.prs = NoProgress]

reset(r, term) ==
    [r EXCEPT !.Term = term, !.Vote = IF r.Term = term THEN r.Vote ELSE None,
              !.lead = None, !.elapsed = FALSE, !.leadTransferee = None,
              !.yes = {}, !.no = {}, !.prs = NoProgress]

becomeFollower(r, term, lead) ==
    [reset(r, term) EXCEPT !.lead = lead, !.state = Follower]

becomeCandidate(r) ==
    [reset(r, r.Term + 1) EXCEPT !.Vote = r.id, !.state = Candidate]

becomePreCandidate(r) ==
    [r EXCEPT !.yes = {}, !.no = {}, !.lead = None, !.elapsed = FALSE,
              !.state = PreCandidate]

becomeLeader(r) ==
    LET last == lastIndex(r)
    IN  appendEntry(
            [reset(r, r.Term) EXCEPT
                !.lead = r.id, !.state = Leader,
                !.prs = [i \in Server |->
                            IF i = r.id THEN BecomeReplicate(NewProgress(last, last + 1))
                            ELSE NewProgress(0, last + 1)]],
            None)

\* Mutant of RecordVote: Reject is not looked at.
RecordAsYes(r, i, v) == [r EXCEPT !.yes = @ \cup {i}]

\* RecordVote: the first answer of a node counts
RecordVote(r, i, v) ==
    [r EXCEPT !.yes = IF v /\ i \notin r.no THEN @ \cup {i} ELSE @,
              !.no = IF ~v /\ i \notin r.yes THEN @ \cup {i} ELSE @]

TallyVotes(r) == JointVoteResult(Voters[r.id], r.yes, r.no)

requestVotes(r, type, term, force) ==
    [r EXCEPT !.msgs = @ \cup
        {Stamped(r, [Msg(type, i) EXCEPT
                        !.term = term, !.index = lastIndex(r),
                        !.logTerm = termAt(r.log, lastIndex(r)), !.force = force])
            : i \in Peers(r)}]

\* campaign(campaignElection) and, with force, campaign(campaignTransfer)
campaign(r, force) ==
    LET c == becomeCandidate(r)
        p == RecordVote(c, r.id, TRUE)
    IN  IF TallyVotes(p) = "VoteWon" THEN becomeLeader(p)
        ELSE requestVotes(p, "MsgVote", p.Term, force)

\* campaign(campaignPreElection)
preCampaign(r) ==
    LET c == becomePreCandidate(r)
        p == RecordVote(c, r.id, TRUE)
    IN  IF TallyVotes(p) = "VoteWon" THEN campaign(p, FALSE)
        ELSE requestVotes(p, "MsgPreVote", p.Term + 1, FALSE)

promotable(r) == r.id \in IDs(Voters[r.id])

\* Mutant of hup: the pre-vote phase is skipped.
hupWithoutPreVote(r) ==
    IF r.state = Leader \/ ~promotable(r) THEN r ELSE campaign(r, FALSE)

\* Step(MsgHup); no configuration change is ever pending here
hup(r) ==
    IF r.state = Leader \/ ~promotable(r) THEN r
    ELSE IF PreVote THEN preCampaign(r) ELSE campaign(r, FALSE)

abortLeaderTransfer(r) == [r EXCEPT !.leadTransferee = None]

sendTimeoutNow(r, i) == send(r, Msg("MsgTimeoutNow", i))

\* newRaft: the persisted term, vote, log and commit index, as a follower that
\* knows no leader
newRaft(s, term, vote, log, committed) ==
    [id |-> s, Term |-> term, Vote |-> vote, state |-> Follower, lead |-> None,
     log |-> log, committed |-> committed, leadTransferee |-> None,
     elapsed |-> FALSE, yes |-> {}, no |-> {}, prs |-> NoProgress, msgs |-> {},
     panic |-> FALSE]

=============================================================================
