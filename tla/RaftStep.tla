------------------------------ MODULE RaftStep ------------------------------
(***************************************************************************)
(* raft.Step and the step functions of the four states (raft.go): what a   *)
(* node does with each message.  Every operator maps the record of the     *)
(* node and the message to the record after the whole handler.             *)
(***************************************************************************)
EXTENDS RaftCore

\* Mutant of handleAppendEntries: the entry before the new ones is not compared.
appendUnchecked(r, m) ==
    LET a == appendMatched(r, m)
    IN  IF m.index < r.committed \/ m.index > lastIndex(r) \/ a.panic THEN r
        ELSE send(a, [Msg("MsgAppResp", m.from) EXCEPT
                        !.index = m.index + Len(m.entries)])

\* handleAppendEntries
handleAppendEntries(r, m) ==
    LET reply == Msg("MsgAppResp", m.from)
        a     == appendMatched(r, m)
    IN  IF m.index < r.committed
        THEN send(r, [reply EXCEPT !.index = r.committed])
        ELSE IF matchTerm(r.log, m.index, m.logTerm)
        THEN IF a.panic THEN a
             ELSE send(a, [reply EXCEPT !.index = m.index + Len(m.entries)])
        ELSE send(r, [reply EXCEPT !.index = m.index, !.reject = TRUE,
                                   !.rejectHint = lastIndex(r)])

\* handleHeartbeat; the RTT report it carries is the subject of GleeRtt
handleHeartbeat(r, m) ==
    LET c == commitTo(r, m.commit)
    IN  IF c.panic THEN c ELSE send(c, Msg("MsgHeartbeatResp", m.from))

-----------------------------------------------------------------------------
\* stepLeader.  Messages that need a Progress are ignored without one.

\* MsgAppResp with Reject
leaderRejected(r, m) ==
    LET pr == r.prs[m.from]
        d  == DecrTo(pr, m.index, m.rejectHint)
        p  == IF pr.State = "StateReplicate" THEN BecomeProbe(d) ELSE d
    IN  IF RejectionIsFresh(pr, m.index)
        THEN sendAppend([r EXCEPT !.prs[m.from] = [p EXCEPT !.RecentActive = TRUE]], m.from)
        ELSE [r EXCEPT !.prs[m.from].RecentActive = TRUE]

\* MsgAppResp that moves Match forward
leaderAdvanced(r, m) ==
    LET pr == r.prs[m.from]
        u  == MaybeUpdate(pr, m.index)
        p  == IF pr.State = "StateProbe" THEN BecomeReplicate(u) ELSE u
        r1 == [r EXCEPT !.prs[m.from] = [p EXCEPT !.RecentActive = TRUE]]
        r2 == maybeCommit(r1)
        r3 == IF r2.committed # r1.committed THEN bcastAppend(r2)
              ELSE IF IsPaused(pr) THEN sendAppend(r2, m.from) ELSE r2
        r4 == sendRest(r3, m.from)
    IN  IF m.from = r.leadTransferee /\ p.Match = lastIndex(r)
        THEN sendTimeoutNow(r4, m.from) ELSE r4

\* Mutant of leaderAppResp: Reject is not looked at.
leaderAcceptsAll(r, m) ==
    IF r.prs[m.from].Match < m.index THEN leaderAdvanced(r, m) ELSE r

leaderAppResp(r, m) ==
    LET u == MaybeUpdate(r.prs[m.from], m.index)
    IN  IF m.reject THEN leaderRejected(r, m)
        ELSE IF r.prs[m.from].Match < m.index THEN leaderAdvanced(r, m)
        ELSE [r EXCEPT !.prs[m.from] = [u EXCEPT !.RecentActive = TRUE]]

leaderHeartbeatResp(r, m) ==
    LET r1 == [r EXCEPT !.prs[m.from] =
                [r.prs[m.from] EXCEPT !.RecentActive = TRUE, !.ProbeSent = FALSE]]
    IN  IF r.prs[m.from].Match < lastIndex(r) THEN sendAppend(r1, m.from) ELSE r1

\* MsgTransferLeader: m.From is the transferee
leaderTransfer(r, transferee) ==
    IF r.leadTransferee = transferee THEN r
    ELSE IF transferee = r.id THEN abortLeaderTransfer(r)
    ELSE LET t == [r EXCEPT !.leadTransferee = transferee]
         IN  IF r.prs[transferee].Match = lastIndex(r)
             THEN sendTimeoutNow(t, transferee) ELSE sendAppend(t, transferee)

\* MsgCheckQuorum
leaderCheckQuorum(r) ==
    LET active == {i \in IDs(Voters[r.id]) : r.prs[i].RecentActive} \cup
                  ({r.id} \cap IDs(Voters[r.id]))
    IN  IF JointVoteResult(Voters[r.id], active, IDs(Voters[r.id]) \ active) # "VoteWon"
        THEN becomeFollower(r, r.Term, None)
        ELSE [r EXCEPT !.prs = [i \in Server |->
                [r.prs[i] EXCEPT !.RecentActive = (i = r.id /\ r.id \in active)]]]

\* MsgUnreachable
leaderUnreachable(r, i) ==
    IF r.prs[i].State = "StateReplicate"
    THEN [r EXCEPT !.prs[i] = BecomeProbe(r.prs[i])] ELSE r

stepLeader(r, m) ==
    IF m.from \notin IDs(Voters[r.id]) THEN r
    ELSE CASE m.type = "MsgAppResp"        -> leaderAppResp(r, m)
           [] m.type = "MsgHeartbeatResp"  -> leaderHeartbeatResp(r, m)
           [] m.type = "MsgTransferLeader" -> leaderTransfer(r, m.from)
           [] OTHER                        -> r

-----------------------------------------------------------------------------
\* stepCandidate, for StateCandidate and StatePreCandidate

candidateVoteResp(r, m) ==
    LET p == RecordVote(r, m.from, ~m.reject)
    IN  CASE TallyVotes(p) = "VoteWon" ->
                IF r.state = PreCandidate THEN campaign(p, FALSE)
                ELSE bcastAppend(becomeLeader(p))
          [] TallyVotes(p) = "VoteLost" -> becomeFollower(p, p.Term, None)
          [] OTHER -> p

stepCandidate(r, m) ==
    LET f == becomeFollower(r, m.term, m.from)
        myVoteRespType == IF r.state = PreCandidate THEN "MsgPreVoteResp" ELSE "MsgVoteResp"
    IN  CASE m.type = "MsgApp"       -> handleAppendEntries(f, m)
          [] m.type = "MsgHeartbeat" -> handleHeartbeat(f, m)
          [] m.type = myVoteRespType -> candidateVoteResp(r, m)
          [] OTHER                   -> r

-----------------------------------------------------------------------------
\* stepFollower

stepFollower(r, m) ==
    LET f == [r EXCEPT !.elapsed = FALSE, !.lead = m.from]
    IN  CASE m.type = "MsgApp"        -> handleAppendEntries(f, m)
          [] m.type = "MsgHeartbeat"  -> handleHeartbeat(f, m)
          [] m.type = "MsgTimeoutNow" -> IF promotable(r) THEN campaign(r, TRUE) ELSE r
          [] m.type = "MsgTransferLeader" /\ r.lead # None ->
                send(r, [m EXCEPT !.to = r.lead])
          [] OTHER -> r

-----------------------------------------------------------------------------
\* Step

inLease(r) == CheckQuorum /\ r.lead # None /\ ~r.elapsed

\* Mutant of respondToVote: an earlier vote of the term is not looked at.
respondToEveryVote(r, m) ==
    LET respType == IF m.type = "MsgVote" THEN "MsgVoteResp" ELSE "MsgPreVoteResp"
        g == send(r, [Msg(respType, m.from) EXCEPT !.term = m.term])
    IN  IF ~isUpToDate(r, m.index, m.logTerm) THEN r
        ELSE IF m.type = "MsgVote" THEN [g EXCEPT !.Vote = m.from] ELSE g

\* Mutant of respondToVote: the campaign of a transferee is trusted to be up to date.
respondToTransferee(r, m) ==
    LET respType == IF m.type = "MsgVote" THEN "MsgVoteResp" ELSE "MsgPreVoteResp"
        canVote  == \/ r.Vote = m.from
                    \/ r.Vote = None /\ r.lead = None
                    \/ m.type = "MsgPreVote" /\ m.term > r.Term
    IN  IF ~(canVote /\ (m.force \/ isUpToDate(r, m.index, m.logTerm)))
        THEN send(r, [Msg(respType, m.from) EXCEPT !.term = r.Term, !.reject = TRUE])
        ELSE LET g == send(r, [Msg(respType, m.from) EXCEPT !.term = m.term])
             IN  IF m.type = "MsgVote"
                 THEN [g EXCEPT !.Vote = m.from, !.elapsed = FALSE] ELSE g

\* MsgVote and MsgPreVote at or above the node's term
respondToVote(r, m) ==
    LET respType == IF m.type = "MsgVote" THEN "MsgVoteResp" ELSE "MsgPreVoteResp"
        canVote  == \/ r.Vote = m.from
                    \/ r.Vote = None /\ r.lead = None
                    \/ m.type = "MsgPreVote" /\ m.term > r.Term
    IN  IF ~(canVote /\ isUpToDate(r, m.index, m.logTerm))
        THEN send(r, [Msg(respType, m.from) EXCEPT !.term = r.Term, !.reject = TRUE])
        ELSE LET g == send(r, [Msg(respType, m.from) EXCEPT !.term = m.term])
             IN  IF m.type = "MsgVote"
                 THEN [g EXCEPT !.Vote = m.from, !.elapsed = FALSE] ELSE g

\* A message of a lower term: tell an old leader or pre-candidate about ours.
stepLowerTerm(r, m) ==
    CASE (CheckQuorum \/ PreVote) /\ m.type \in {"MsgHeartbeat", "MsgApp"} ->
            send(r, Msg("MsgAppResp", m.from))
      [] m.type = "MsgPreVote" ->
            send(r, [Msg("MsgPreVoteResp", m.from) EXCEPT !.term = r.Term, !.reject = TRUE])
      [] OTHER -> r

\* A message of a higher term makes the node a follower of that term, except
\* for pre-votes asked and granted.
atTermOf(r, m) ==
    IF \/ m.term <= r.Term
       \/ m.type = "MsgPreVote"
       \/ m.type = "MsgPreVoteResp" /\ ~m.reject
    THEN r
    ELSE becomeFollower(r, m.term,
            IF m.type \in {"MsgApp", "MsgHeartbeat"} THEN m.from ELSE None)

\* The switch on the type once the term has been dealt with.  MsgProbeRttResp
\* changes nothing but RTT bookkeeping.
dispatch(r, m) ==
    CASE m.type \in {"MsgVote", "MsgPreVote"} -> respondToVote(r, m)
      [] m.type = "MsgProbeRtt"     -> send(r, Msg("MsgProbeRttResp", m.from))
      [] m.type = "MsgProbeRttResp" -> r
      [] OTHER ->
            CASE r.state = Leader   -> stepLeader(r, m)
              [] r.state = Follower -> stepFollower(r, m)
              [] OTHER              -> stepCandidate(r, m)

Step(r, m) ==
    IF m.term = 0 THEN dispatch(r, m)
    ELSE IF m.type \in {"MsgVote", "MsgPreVote"} /\ m.term > r.Term /\ ~m.force /\ inLease(r)
    THEN r
    ELSE IF m.term < r.Term THEN stepLowerTerm(r, m)
    ELSE dispatch(atTermOf(r, m), m)

\* The local MsgTransferLeader of Node.TransferLeadership and of
\* activeTransferLeadership: From names the transferee.
transfer(r, transferee) ==
    dispatch(r, [Msg("MsgTransferLeader", r.id) EXCEPT !.from = transferee])

\* The server that a MsgProp for data stepped at r is passed on to: the
\* transferee of a leader, the leader of a follower.  None if it is not.
forwardTo(r) ==
    IF r.state = Leader THEN r.leadTransferee
    ELSE IF r.state = Follower THEN r.lead ELSE None

\* ErrProposalDropped
dropsProposal(r) ==
    IF r.state = Leader THEN ~promotable(r) ELSE forwardTo(r) = None

\* Mutants of propose: a forwarded proposal is appended as well; a dropped one
\* is kept for another try.
proposeTwice(r, data) ==
    IF dropsProposal(r) THEN r
    ELSE IF forwardTo(r) = None THEN bcastAppend(appendEntry(r, data))
    ELSE send(IF r.state = Leader THEN bcastAppend(appendEntry(r, data)) ELSE r,
              [Msg("MsgProp", forwardTo(r)) EXCEPT
                    !.entries = <<[term |-> 0, data |-> data]>>])
proposeRetries(r, data) ==
    IF r.state = Leader /\ forwardTo(r) = None THEN bcastAppend(appendEntry(r, data))
    ELSE send(r, [Msg("MsgProp", IF forwardTo(r) = None THEN r.id ELSE forwardTo(r)) EXCEPT
                    !.entries = <<[term |-> 0, data |-> data]>>])

\* Step(MsgProp)
propose(r, data) ==
    IF dropsProposal(r) THEN r
    ELSE IF forwardTo(r) # None
    THEN send(r, [Msg("MsgProp", forwardTo(r)) EXCEPT
                    !.entries = <<[term |-> 0, data |-> data]>>])
    ELSE bcastAppend(appendEntry(r, data))

\* The proposals that a step passed on.
Forwarded(r) == {m \in r.msgs : m.type = "MsgProp"}

=============================================================================
