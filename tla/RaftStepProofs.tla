---------------------------- MODULE RaftStepProofs ----------------------------
(***************************************************************************)
(* What one step of one node may do, for every handler of RaftStep.        *)
(*                                                                         *)
(* To an election: the handlers that leave elections alone (Frame), and    *)
(* those that take part in them (Elects).  To a log: the handlers of a     *)
(* leader only extend its log and commit by counting (Pushes); the two     *)
(* handlers of a leader's messages copy a prefix of the leader's log       *)
(* (Follows); all others leave the log alone (Quiet).  Several nodes at    *)
(* once are the subject of RaftClusterProofs and RaftReadyProofs.          *)
(***************************************************************************)
EXTENDS RaftStep, FiniteSetTheorems, SequenceTheorems, WellFoundedInduction, TLAPS

\* The fields of the struct raft and of raftpb.Message, as modelled.
RaftFields == {"id", "Term", "Vote", "state", "lead", "log", "committed",
               "leadTransferee", "elapsed", "yes", "no", "prs", "msgs", "panic"}

MsgFields == {"type", "from", "to", "term", "logTerm", "index", "entries",
              "commit", "reject", "rejectHint", "force"}

\* x is a record of exactly these fields.
Shaped(x, fields) == x = [f \in fields |-> x[f]]

\* A vote that was given.
Grant(m) == m.type = "MsgVoteResp" /\ ~m.reject

\* A pre-vote that was given.
Consent(m) == m.type = "MsgPreVoteResp" /\ ~m.reject

\* What can be in the network: types whose sender leads or answers have a term.
Sound(m) ==
    /\ Shaped(m, MsgFields)
    /\ m.from \in Server /\ m.to \in Server /\ m.term \in Nat
    /\ m.type \in {"MsgApp", "MsgHeartbeat", "MsgVoteResp", "MsgTimeoutNow", "MsgPreVoteResp"} =>
            m.term # 0

\* A message that speaks of no other term than t: a node of term t asks for pre-votes
\* of the next.
OfTerm(m, t) == ~Consent(m) /\ m.term \in {0, t} \cup (IF m.type = "MsgPreVote" THEN {t + 1} ELSE {})

\* A message of r's own that binds nobody.
Harmless(r, m) == Sound(m) /\ m.from = r.id /\ ~Grant(m) /\ OfTerm(m, r.Term)

\* The part of a node's type that elections depend on.
Raft(r) ==
    /\ Shaped(r, RaftFields)
    /\ r.id \in Server /\ r.Term \in Nat /\ r.state \in States
    /\ r.lead \in Server \cup {None} /\ r.leadTransferee \in Server \cup {None}
    /\ r.state \in {Candidate, Leader} => r.Term # 0

\* q is r but for what elections do not depend on.
Frame(r, q) ==
    /\ Raft(q)
    /\ q.id = r.id /\ q.Term = r.Term /\ q.Vote = r.Vote /\ q.state = r.state
    /\ q.yes = r.yes
    /\ \A m \in q.msgs : m \in r.msgs \/ Harmless(r, m)

\* Handlers that leave elections alone compose.
LEMMA FrameTransitive ==
    ASSUME NEW r, NEW q, NEW p, Frame(r, q), Frame(q, p)
    PROVE  Frame(r, p)
BY DEF Frame, Harmless

\* What a handler may give to send: votes and requests of votes have the node's own
\* term, refusals included, and messages of leaders and candidates are only theirs.
Sendable(r, m) ==
    /\ Shaped(m, MsgFields) /\ m.to \in Server /\ m.term \in Nat
    /\ m.type \in {"MsgApp", "MsgHeartbeat", "MsgTimeoutNow"} => r.Term # 0
    /\ m.type \in {"MsgVoteResp", "MsgPreVoteResp"} => m.reject
    /\ m.type \in VoteMessageTypes =>
            m.term = IF m.type = "MsgPreVote" THEN r.Term + 1 ELSE r.Term

\* send stamps every message but a granted vote into one that cannot bind anybody
\* (raft.send: From is the sender, Term the sender's unless the caller gave one).
LEMMA StampedSound ==
    ASSUME NEW r, Raft(r), NEW m, Sendable(r, m),
           m.type \in {"MsgVoteResp", "MsgPreVoteResp"} => m.term # 0
    PROVE  Harmless(r, Stamped(r, m))
<1> DEFINE n == Stamped(r, m)
<1>1. /\ Shaped(n, MsgFields)
      /\ n.from = r.id /\ n.to = m.to
      /\ n.type = m.type /\ n.reject = m.reject
      /\ n.term = IF m.type \in VoteMessageTypes THEN m.term
                  ELSE IF m.type = "MsgProp" THEN 0 ELSE r.Term
  BY DEF Sendable, Shaped, MsgFields, Stamped
<1> HIDE DEF n
<1>2. Sound(n) /\ n.from = r.id
  BY <1>1 DEF Raft, Sendable, Sound, VoteMessageTypes
<1>3. ~Grant(n) /\ ~Consent(n)
  BY <1>1 DEF Sendable, Grant, Consent
<1>4. n.term \in {0, r.Term} \cup (IF n.type = "MsgPreVote" THEN {r.Term + 1} ELSE {})
  BY <1>1 DEF Sendable, VoteMessageTypes
<1>5. QED BY <1>2, <1>3, <1>4 DEF Harmless, OfTerm, n

\* raftLog.commitTo leaves elections alone.
LEMMA CommitFrame ==
    ASSUME NEW r, Raft(r), NEW n
    PROVE  Frame(r, commitTo(r, n))
BY DEF Raft, Shaped, RaftFields, Frame, commitTo

\* raft.send leaves elections alone, whatever it sends but a granted vote.
LEMMA SendFrame ==
    ASSUME NEW r, Raft(r), NEW m, Sendable(r, m)
    PROVE  Frame(r, send(r, m))
<1>1. CASE (m.type \in VoteMessageTypes) = (m.term = 0)
  BY <1>1 DEF send, Frame, Raft, Shaped, RaftFields
<1>2. CASE ~((m.type \in VoteMessageTypes) = (m.term = 0))
  <2>1. m.type \in {"MsgVoteResp", "MsgPreVoteResp"} => m.term # 0
    BY <1>2 DEF VoteMessageTypes
  <2>2. Harmless(r, Stamped(r, m))
    BY <2>1, StampedSound
  <2> DEFINE q == [r EXCEPT !.msgs = @ \cup {Stamped(r, m)}]
  <2>3. Raft(q) /\ q.id = r.id /\ q.Term = r.Term /\ q.Vote = r.Vote /\ q.state = r.state
        /\ q.yes = r.yes /\ q.msgs = r.msgs \cup {Stamped(r, m)}
    BY DEF Raft, Shaped, RaftFields
  <2>4. send(r, m) = q
    BY <1>2 DEF send
  <2>5. QED BY <2>2, <2>3, <2>4 DEF Frame
<1>3. QED BY <1>1, <1>2

\* Visiting the progress map names servers only.
LEMMA PeersAreServers ==
    ASSUME NEW r, Raft(r)
    PROVE  Peers(r) \subseteq Server
BY CoreAssumption DEF Raft, Peers, IDs, JointConfig

\* A handler that changes only the log, commit index, progress, elapsed time, no
\* votes or the panic flag leaves elections alone.
LEMMA FieldsFrame ==
    ASSUME NEW r, Raft(r), NEW q, Shaped(q, RaftFields),
           q.id = r.id, q.Term = r.Term, q.Vote = r.Vote, q.state = r.state,
           q.yes = r.yes, q.lead = r.lead, q.leadTransferee = r.leadTransferee,
           q.msgs = r.msgs
    PROVE  Frame(r, q)
BY DEF Frame, Raft

\* An append message binds nobody.
LEMMA AppendSound ==
    ASSUME NEW r, Raft(r), r.Term # 0, NEW i \in Server, NEW next
    PROVE  LET m == Stamped(r, AppendMessage(r, i, next))
           IN  Harmless(r, m)
<1> DEFINE m == AppendMessage(r, i, next)
<1>1. Shaped(m, MsgFields) /\ m.to = i /\ m.type = "MsgApp" /\ m.term = 0
  BY DEF AppendMessage, Msg, Shaped, MsgFields
<1> HIDE DEF m
<1>2. Harmless(r, Stamped(r, m))
  BY <1>1, StampedSound DEF Sendable, VoteMessageTypes
<1>3. QED BY <1>2 DEF m

\* maybeSendAppend leaves elections alone.
LEMMA SendAppendFrame ==
    ASSUME NEW r, Raft(r), r.Term # 0, NEW P \in SUBSET Server, NEW e
    PROVE  Frame(r, maybeSendAppend(r, P, e))
<1> DEFINE T == {i \in P : ~IsPaused(r.prs[i]) /\ (e \/ r.prs[i].Next <= lastIndex(r))}
           q == maybeSendAppend(r, P, e)
<1>1. /\ Shaped(q, RaftFields)
      /\ q.id = r.id /\ q.Term = r.Term /\ q.Vote = r.Vote /\ q.state = r.state
      /\ q.yes = r.yes /\ q.lead = r.lead /\ q.leadTransferee = r.leadTransferee
      /\ q.msgs = r.msgs \cup {Stamped(r, AppendMessage(r, i, r.prs[i].Next)) : i \in T}
  BY DEF maybeSendAppend, Raft, Shaped, RaftFields
<1>2. QED BY <1>1, AppendSound DEF Frame, Raft

\* So does sending everything that is left to send.
LEMMA SendRestFrame ==
    ASSUME NEW r, Raft(r), r.Term # 0, NEW i \in Server
    PROVE  Frame(r, sendRest(r, i))
<1> DEFINE next == r.prs[i].Next
           rest == {k \in next..lastIndex(r) : (k - next) % MaxBatch = 0}
           new == {Stamped(r, AppendMessage(r, i, k)) : k \in rest}
           q == [r EXCEPT !.prs[i].Next = lastIndex(r) + 1, !.msgs = @ \cup new]
<1>1. sendRest(r, i) \in {maybeSendAppend(r, {i}, FALSE), q}
  BY DEF sendRest
<1>2. Frame(r, maybeSendAppend(r, {i}, FALSE))
  BY SendAppendFrame
<1>3. \A m \in new : Harmless(r, m)
  BY AppendSound
<1> HIDE DEF new
<1>4. /\ Shaped(q, RaftFields)
      /\ q.id = r.id /\ q.Term = r.Term /\ q.Vote = r.Vote /\ q.state = r.state
      /\ q.yes = r.yes /\ q.lead = r.lead /\ q.leadTransferee = r.leadTransferee
      /\ q.msgs = r.msgs \cup new
  BY DEF Raft, Shaped, RaftFields
<1> HIDE DEF q
<1>5. Frame(r, q)
  BY <1>3, <1>4 DEF Frame, Raft
<1>6. QED BY <1>1, <1>2, <1>5

\* So do bcastAppend and sendAppend.
LEMMA BroadcastFrame ==
    ASSUME NEW r, Raft(r), r.Term # 0
    PROVE  /\ Frame(r, bcastAppend(r))
           /\ \A i \in Server : Frame(r, sendAppend(r, i))
BY PeersAreServers, SendAppendFrame DEF bcastAppend, sendAppend

\* So does bcastHeartbeat.
LEMMA HeartbeatFrame ==
    ASSUME NEW r, Raft(r), r.Term # 0
    PROVE  Frame(r, bcastHeartbeat(r))
<1> DEFINE M(i) == [Msg("MsgHeartbeat", i) EXCEPT !.commit = Min({r.prs[i].Match, r.committed})]
           q == bcastHeartbeat(r)
<1>1. /\ Shaped(q, RaftFields)
      /\ q.id = r.id /\ q.Term = r.Term /\ q.Vote = r.Vote /\ q.state = r.state
      /\ q.yes = r.yes /\ q.lead = r.lead /\ q.leadTransferee = r.leadTransferee
      /\ q.msgs = r.msgs \cup {Stamped(r, M(i)) : i \in Peers(r)}
  BY DEF bcastHeartbeat, Raft, Shaped, RaftFields
<1>2. ASSUME NEW i \in Peers(r)
      PROVE  Harmless(r, Stamped(r, M(i)))
  <2>1. /\ Shaped(M(i), MsgFields) /\ M(i).to = i
        /\ M(i).type = "MsgHeartbeat" /\ M(i).term = 0
    BY DEF Msg, Shaped, MsgFields
  <2>2. i \in Server
    BY PeersAreServers
  <2> HIDE DEF M
  <2>3. QED BY <2>1, <2>2, StampedSound DEF Sendable, VoteMessageTypes
<1>3. QED BY <1>1, <1>2 DEF Frame, Raft

\* So does bcastProbeRtt.
LEMMA ProbeFrame ==
    ASSUME NEW r, Raft(r)
    PROVE  Frame(r, bcastProbeRtt(r))
<1> DEFINE q == bcastProbeRtt(r)
<1>1. /\ Shaped(q, RaftFields)
      /\ q.id = r.id /\ q.Term = r.Term /\ q.Vote = r.Vote /\ q.state = r.state
      /\ q.yes = r.yes /\ q.lead = r.lead /\ q.leadTransferee = r.leadTransferee
      /\ q.msgs = r.msgs \cup {Stamped(r, Msg("MsgProbeRtt", i)) : i \in Peers(r)}
  BY DEF bcastProbeRtt, Raft, Shaped, RaftFields
<1>2. ASSUME NEW i \in Peers(r)
      PROVE  LET m == Stamped(r, Msg("MsgProbeRtt", i))
             IN  Harmless(r, m)
  <2>1. i \in Server
    BY PeersAreServers
  <2>2. /\ Shaped(Msg("MsgProbeRtt", i), MsgFields) /\ Msg("MsgProbeRtt", i).to = i
        /\ Msg("MsgProbeRtt", i).type = "MsgProbeRtt" /\ Msg("MsgProbeRtt", i).term = 0
    BY DEF Msg, Shaped, MsgFields
  <2>3. QED BY <2>1, <2>2, StampedSound DEF Sendable, VoteMessageTypes
<1>3. QED BY <1>1, <1>2 DEF Frame, Raft

\* So does maybeCommit.
LEMMA MaybeCommitFrame ==
    ASSUME NEW r, Raft(r)
    PROVE  Frame(r, maybeCommit(r))
<1>1. Frame(r, r)
  BY DEF Frame
<1>2. QED BY <1>1, CommitFrame DEF maybeCommit

\* So does appendEntry.
LEMMA AppendEntryFrame ==
    ASSUME NEW r, Raft(r), NEW data
    PROVE  Frame(r, appendEntry(r, data))
<1> DEFINE log == Append(r.log, [term |-> r.Term, data |-> data])
           q == [r EXCEPT !.log = log, !.prs[r.id] = MaybeUpdate(r.prs[r.id], Len(log))]
<1>1. Frame(r, q)
  <2>1. /\ Shaped(q, RaftFields)
        /\ q.id = r.id /\ q.Term = r.Term /\ q.Vote = r.Vote /\ q.state = r.state
        /\ q.yes = r.yes /\ q.lead = r.lead /\ q.leadTransferee = r.leadTransferee
        /\ q.msgs = r.msgs
    BY DEF Raft, Shaped, RaftFields
  <2>2. QED BY <2>1, FieldsFrame
<1>2. Frame(q, maybeCommit(q))
  BY <1>1, MaybeCommitFrame DEF Frame
<1>3. QED BY <1>1, <1>2, FrameTransitive DEF appendEntry

\* So does raftLog.maybeAppend, panics included.
LEMMA AppendMatchedFrame ==
    ASSUME NEW r, Raft(r), NEW m
    PROVE  Frame(r, appendMatched(r, m))
<1> DEFINE k == findConflict(r.log, m.index, m.entries)
           q == [r EXCEPT !.log = IF k = 0 THEN @
                                  ELSE SubSeq(@, 1, m.index + k - 1)
                                       \o SubSeq(m.entries, k, Len(m.entries))]
           n == Min({m.commit, m.index + Len(m.entries)})
<1>1. Frame(r, [r EXCEPT !.panic = TRUE])
  BY FieldsFrame DEF Raft, Shaped, RaftFields
<1>2. Frame(r, q)
  <2>1. /\ Shaped(q, RaftFields)
        /\ q.id = r.id /\ q.Term = r.Term /\ q.Vote = r.Vote /\ q.state = r.state
        /\ q.yes = r.yes /\ q.lead = r.lead /\ q.leadTransferee = r.leadTransferee
        /\ q.msgs = r.msgs
    BY DEF Raft, Shaped, RaftFields
  <2>2. QED BY <2>1, FieldsFrame
<1>3. Frame(q, commitTo(q, n))
  <2>1. Raft(q)
    BY <1>2 DEF Frame
  <2> HIDE DEF q, n
  <2>2. QED BY <2>1, CommitFrame
<1>4. Frame(r, commitTo(q, n))
  BY <1>2, <1>3, FrameTransitive
<1>5. appendMatched(r, m) = IF k # 0 /\ m.index + k <= r.committed
                            THEN [r EXCEPT !.panic = TRUE] ELSE commitTo(q, n)
  BY DEF appendMatched
<1>6. QED BY <1>1, <1>4, <1>5

\* handleAppendEntries leaves elections alone, whichever answer it sends.
LEMMA HandleAppendFrame ==
    ASSUME NEW r, Raft(r), NEW m, m.from \in Server
    PROVE  Frame(r, handleAppendEntries(r, m))
<1> DEFINE reply == Msg("MsgAppResp", m.from)
           a == appendMatched(r, m)
           A(x) == [reply EXCEPT !.index = x]
           B == [reply EXCEPT !.index = m.index, !.reject = TRUE, !.rejectHint = lastIndex(r)]
<1>1. Frame(r, a)
  BY AppendMatchedFrame
<1>2. ASSUME NEW q, Raft(q), NEW x
      PROVE  Frame(q, send(q, A(x)))
  <2> DEFINE b == A(x)
  <2>1. Shaped(b, MsgFields) /\ b.type = "MsgAppResp" /\ b.to = m.from /\ b.term = 0
    BY DEF Msg, Shaped, MsgFields
  <2> HIDE DEF b
  <2>2. Frame(q, send(q, b))
    BY <1>2, <2>1, SendFrame DEF Sendable, VoteMessageTypes
  <2>3. QED BY <2>2 DEF b
<1>3. Frame(r, send(r, B))
  <2>1. /\ Shaped(B, MsgFields) /\ B.type = "MsgAppResp" /\ B.to = m.from /\ B.term = 0
    BY DEF Msg, Shaped, MsgFields
  <2> HIDE DEF B
  <2>2. QED BY <2>1, SendFrame DEF Sendable, VoteMessageTypes
<1>4. Raft(a)
  BY <1>1 DEF Frame
<1>5. \A x : Frame(r, send(a, A(x)))
  <2> HIDE DEF A, a
  <2>1. QED BY <1>1, <1>2, <1>4, FrameTransitive
<1>6. \A x : Frame(r, send(r, A(x)))
  BY <1>2
<1>7. handleAppendEntries(r, m) =
        IF m.index < r.committed THEN send(r, A(r.committed))
        ELSE IF matchTerm(r.log, m.index, m.logTerm)
        THEN IF a.panic THEN a ELSE send(a, A(m.index + Len(m.entries)))
        ELSE send(r, B)
  BY DEF handleAppendEntries
<1> HIDE DEF A, B, a
<1>8. QED BY <1>1, <1>3, <1>5, <1>6, <1>7

\* So does sending a message that has no field of its own.
LEMMA PlainSendFrame ==
    ASSUME NEW r, Raft(r), NEW i \in Server,
           NEW type \in {"MsgAppResp", "MsgHeartbeatResp", "MsgProbeRttResp", "MsgTimeoutNow",
                         "MsgTransferLeader"},
           type = "MsgTimeoutNow" => r.Term # 0
    PROVE  Frame(r, send(r, Msg(type, i)))
<1> DEFINE m == Msg(type, i)
<1>1. Shaped(m, MsgFields) /\ m.type = type /\ m.to = i /\ m.term = 0
  BY DEF Msg, Shaped, MsgFields
<1> HIDE DEF m
<1>2. Frame(r, send(r, m))
  BY <1>1, SendFrame DEF Sendable, VoteMessageTypes
<1>3. QED BY <1>2 DEF m

\* So does handleHeartbeat.
LEMMA HandleHeartbeatFrame ==
    ASSUME NEW r, Raft(r), NEW m, m.from \in Server
    PROVE  Frame(r, handleHeartbeat(r, m))
<1> DEFINE c == commitTo(r, m.commit)
<1>1. Frame(r, c)
  BY CommitFrame
<1>2. Raft(c)
  BY <1>1 DEF Frame
<1> HIDE DEF c
<1>3. Frame(c, send(c, Msg("MsgHeartbeatResp", m.from)))
  BY <1>2, PlainSendFrame
<1>4. Frame(r, send(c, Msg("MsgHeartbeatResp", m.from)))
  BY <1>1, <1>3, FrameTransitive
<1>5. QED BY <1>1, <1>4 DEF handleHeartbeat, c

\* So does the passing of the election timeout (tickElection).
LEMMA ElapseFrame ==
    ASSUME NEW r, Raft(r)
    PROVE  LET q == [r EXCEPT !.elapsed = TRUE]
           IN  Frame(r, q) /\ Shaped(q, RaftFields) /\ q.msgs = r.msgs
BY DEF Frame, Raft, Shaped, RaftFields

\* So does a leader's handling of a rejected MsgAppResp.
LEMMA LeaderRejectedFrame ==
    ASSUME NEW r, Raft(r), r.Term # 0, NEW m, m.from \in Server
    PROVE  Frame(r, leaderRejected(r, m))
<1> DEFINE pr == r.prs[m.from]
           d  == DecrTo(pr, m.index, m.rejectHint)
           p  == IF pr.State = "StateReplicate" THEN BecomeProbe(d) ELSE d
           q1 == [r EXCEPT !.prs[m.from] = [p EXCEPT !.RecentActive = TRUE]]
           q2 == [r EXCEPT !.prs[m.from].RecentActive = TRUE]
<1>1. Frame(r, q1)
  BY FieldsFrame DEF Raft, Shaped, RaftFields
<1>2. Frame(r, q2)
  BY FieldsFrame DEF Raft, Shaped, RaftFields
<1>3. Raft(q1) /\ q1.Term # 0
  BY <1>1 DEF Frame
<1>4. leaderRejected(r, m) = IF RejectionIsFresh(pr, m.index) THEN sendAppend(q1, m.from) ELSE q2
  BY DEF leaderRejected
<1> HIDE DEF q1, q2
<1>5. Frame(r, sendAppend(q1, m.from))
  BY <1>1, <1>3, BroadcastFrame, FrameTransitive
<1>6. QED BY <1>2, <1>4, <1>5

\* So does sendTimeoutNow.
LEMMA SendTimeoutFrame ==
    ASSUME NEW r, Raft(r), r.Term # 0, NEW i \in Server
    PROVE  Frame(r, sendTimeoutNow(r, i))
BY PlainSendFrame DEF sendTimeoutNow

\* So does a leader's handling of a MsgAppResp that moves Match forward.
LEMMA LeaderAdvancedFrame ==
    ASSUME NEW r, Raft(r), r.Term # 0, NEW m, m.from \in Server
    PROVE  Frame(r, leaderAdvanced(r, m))
<1> DEFINE pr == r.prs[m.from]
           u  == MaybeUpdate(pr, m.index)
           p  == IF pr.State = "StateProbe" THEN BecomeReplicate(u) ELSE u
           r1 == [r EXCEPT !.prs[m.from] = [p EXCEPT !.RecentActive = TRUE]]
           r2 == maybeCommit(r1)
           r3 == IF r2.committed # r1.committed THEN bcastAppend(r2)
                 ELSE IF IsPaused(pr) THEN sendAppend(r2, m.from) ELSE r2
           r4 == sendRest(r3, m.from)
<1>1. Frame(r, r1)
  BY FieldsFrame DEF Raft, Shaped, RaftFields
<1>2. leaderAdvanced(r, m) = IF m.from = r.leadTransferee /\ p.Match = lastIndex(r)
                             THEN sendTimeoutNow(r4, m.from) ELSE r4
  BY DEF leaderAdvanced
<1> HIDE DEF r1
<1>3. Frame(r1, r2)
  BY <1>1, MaybeCommitFrame DEF Frame
<1> HIDE DEF r2
<1>4. Frame(r, r2)
  BY <1>1, <1>3, FrameTransitive
<1>5. Raft(r2) /\ r2.Term # 0
  BY <1>4 DEF Frame
<1>6. Frame(r2, r3)
  <2>1. Frame(r2, r2)
    BY <1>5 DEF Frame
  <2>2. QED BY <1>5, <2>1, BroadcastFrame
<1> HIDE DEF r3
<1>7. Frame(r, r3)
  BY <1>4, <1>6, FrameTransitive
<1>8. Raft(r3) /\ r3.Term # 0
  BY <1>7 DEF Frame
<1>9. Frame(r3, r4)
  BY <1>8, SendRestFrame
<1> HIDE DEF r4
<1>10. Frame(r, r4)
  BY <1>7, <1>9, FrameTransitive
<1>11. Frame(r4, sendTimeoutNow(r4, m.from))
  BY <1>10, SendTimeoutFrame DEF Frame
<1>12. Frame(r, sendTimeoutNow(r4, m.from))
  BY <1>10, <1>11, FrameTransitive
<1> HIDE DEF p
<1>13. QED BY <1>2, <1>10, <1>12

\* So does a leader's handling of any MsgAppResp.
LEMMA LeaderAppRespFrame ==
    ASSUME NEW r, Raft(r), r.Term # 0, NEW m, m.from \in Server
    PROVE  Frame(r, leaderAppResp(r, m))
<1> DEFINE u == MaybeUpdate(r.prs[m.from], m.index)
           q == [r EXCEPT !.prs[m.from] = [u EXCEPT !.RecentActive = TRUE]]
<1>1. Frame(r, q)
  BY FieldsFrame DEF Raft, Shaped, RaftFields
<1>2. leaderAppResp(r, m) = IF m.reject THEN leaderRejected(r, m)
        ELSE IF r.prs[m.from].Match < m.index THEN leaderAdvanced(r, m) ELSE q
  BY DEF leaderAppResp
<1> HIDE DEF q
<1>3. QED BY <1>1, <1>2, LeaderRejectedFrame, LeaderAdvancedFrame

\* So does a leader's handling of a MsgHeartbeatResp.
LEMMA LeaderHeartbeatRespFrame ==
    ASSUME NEW r, Raft(r), r.Term # 0, NEW m, m.from \in Server
    PROVE  Frame(r, leaderHeartbeatResp(r, m))
<1> DEFINE r1 == [r EXCEPT !.prs[m.from] =
                    [r.prs[m.from] EXCEPT !.RecentActive = TRUE, !.ProbeSent = FALSE]]
<1>1. Frame(r, r1)
  BY FieldsFrame DEF Raft, Shaped, RaftFields
<1>2. leaderHeartbeatResp(r, m) =
        IF r.prs[m.from].Match < lastIndex(r) THEN sendAppend(r1, m.from) ELSE r1
  BY DEF leaderHeartbeatResp
<1> HIDE DEF r1
<1>3. Raft(r1) /\ r1.Term # 0
  BY <1>1 DEF Frame
<1>4. Frame(r, sendAppend(r1, m.from))
  BY <1>1, <1>3, BroadcastFrame, FrameTransitive
<1>5. QED BY <1>1, <1>2, <1>4

\* So does a leader's handling of MsgTransferLeader: it asks, it does not resign.
LEMMA LeaderTransferFrame ==
    ASSUME NEW r, Raft(r), r.Term # 0, NEW i \in Server
    PROVE  Frame(r, leaderTransfer(r, i))
<1> DEFINE a == abortLeaderTransfer(r)
           t == [r EXCEPT !.leadTransferee = i]
<1>1. Frame(r, r)
  BY DEF Frame
<1>2. Frame(r, a)
  BY DEF Frame, Raft, Shaped, RaftFields, abortLeaderTransfer
<1>3. Frame(r, t)
  BY DEF Frame, Raft, Shaped, RaftFields
<1>4. leaderTransfer(r, i) =
        IF r.leadTransferee = i THEN r ELSE IF i = r.id THEN a
        ELSE IF r.prs[i].Match = lastIndex(r) THEN sendTimeoutNow(t, i) ELSE sendAppend(t, i)
  BY DEF leaderTransfer
<1> HIDE DEF a, t
<1>5. Raft(t) /\ t.Term # 0
  BY <1>3 DEF Frame
<1>6. Frame(r, sendTimeoutNow(t, i))
  BY <1>3, <1>5, SendTimeoutFrame, FrameTransitive
<1>7. Frame(r, sendAppend(t, i))
  BY <1>3, <1>5, BroadcastFrame, FrameTransitive
<1>8. QED BY <1>1, <1>2, <1>4, <1>6, <1>7

\* So does a leader's handling of MsgUnreachable.
LEMMA LeaderUnreachableFrame ==
    ASSUME NEW r, Raft(r), NEW i
    PROVE  Frame(r, leaderUnreachable(r, i))
<1>1. Frame(r, r)
  BY DEF Frame
<1>2. Frame(r, [r EXCEPT !.prs[i] = BecomeProbe(r.prs[i])])
  BY FieldsFrame DEF Raft, Shaped, RaftFields
<1>3. QED BY <1>1, <1>2 DEF leaderUnreachable

\* So does Step(MsgProp), dropped, forwarded or appended.
LEMMA ProposeFrame ==
    ASSUME NEW r, Raft(r), NEW data
    PROVE  Frame(r, propose(r, data))
<1> DEFINE to == forwardTo(r)
           m == [Msg("MsgProp", to) EXCEPT !.entries = <<[term |-> 0, data |-> data]>>]
           e == appendEntry(r, data)
<1>1. Frame(r, r)
  BY DEF Frame
<1>2. ASSUME to # None
      PROVE  Frame(r, send(r, m))
  <2>1. to \in Server
    BY <1>2 DEF forwardTo, Raft
  <2>2. Shaped(m, MsgFields) /\ m.type = "MsgProp" /\ m.to = to /\ m.term = 0
    BY DEF Msg, Shaped, MsgFields
  <2> HIDE DEF m, to
  <2>3. QED BY <2>1, <2>2, SendFrame DEF Sendable, VoteMessageTypes
<1>3. ASSUME r.state = Leader
      PROVE  Frame(r, bcastAppend(e))
  <2>1. Frame(r, e)
    BY AppendEntryFrame
  <2>2. Raft(e) /\ e.Term # 0
    BY <1>3, <2>1 DEF Frame, Raft
  <2> HIDE DEF e
  <2>3. QED BY <2>1, <2>2, BroadcastFrame, FrameTransitive
<1>4. ~dropsProposal(r) /\ to = None => r.state = Leader
  BY DEF dropsProposal
<1>5. propose(r, data) = IF dropsProposal(r) THEN r
                         ELSE IF to # None THEN send(r, m) ELSE bcastAppend(e)
  BY DEF propose
<1> HIDE DEF m, e, to
<1>6. QED BY <1>1, <1>2, <1>3, <1>4, <1>5

\* Asking for votes grants none.
LEMMA RequestVotesFrame ==
    ASSUME NEW r, Raft(r), NEW type \in {"MsgVote", "MsgPreVote"}, NEW term \in Nat, NEW force,
           term = IF type = "MsgPreVote" THEN r.Term + 1 ELSE r.Term
    PROVE  Frame(r, requestVotes(r, type, term, force))
<1> DEFINE M(i) == [Msg(type, i) EXCEPT
                        !.term = term, !.index = lastIndex(r),
                        !.logTerm = termAt(r.log, lastIndex(r)), !.force = force]
           q == requestVotes(r, type, term, force)
<1>1. /\ Shaped(q, RaftFields)
      /\ q.id = r.id /\ q.Term = r.Term /\ q.Vote = r.Vote /\ q.state = r.state
      /\ q.yes = r.yes /\ q.lead = r.lead /\ q.leadTransferee = r.leadTransferee
      /\ q.msgs = r.msgs \cup {Stamped(r, M(i)) : i \in Peers(r)}
  BY DEF requestVotes, Raft, Shaped, RaftFields
<1>2. ASSUME NEW i \in Peers(r)
      PROVE  Harmless(r, Stamped(r, M(i)))
  <2> DEFINE b == M(i)
  <2>1. Shaped(b, MsgFields) /\ b.to = i /\ b.type = type /\ b.term = term
    BY DEF Msg, Shaped, MsgFields
  <2>2. i \in Server
    BY PeersAreServers
  <2> HIDE DEF b
  <2>3. Harmless(r, Stamped(r, b))
    BY <2>1, <2>2, StampedSound DEF Sendable, VoteMessageTypes
  <2>4. QED BY <2>3 DEF b
<1>3. QED BY <1>1, <1>2 DEF Frame, Raft

-----------------------------------------------------------------------------
\* What one step of a node may do to an election, G being the voters that
\* granted the node its current term.
Elects(r, q, G) ==
    /\ Raft(q) /\ q.id = r.id
    /\ q.Term >= r.Term
    /\ q.Term = r.Term /\ r.Vote # None => q.Vote = r.Vote
    /\ \A m \in q.msgs : /\ Sound(m) /\ m.from = r.id
                         /\ Grant(m) => m.term = q.Term /\ m.to = q.Vote
    /\ q.state = Candidate =>
          /\ q.Vote = q.id
          /\ \/ q.yes \subseteq {q.id}
             \/ r.state = Candidate /\ q.Term = r.Term /\ q.yes \subseteq {q.id} \cup G
    /\ q.state = Leader =>
          \/ r.state = Leader /\ q.Term = r.Term /\ q.Vote = r.Vote
          \/ q.Vote = q.id /\ Wins(q.id, {q.id})
          \/ /\ q.Vote = q.id /\ r.state = Candidate /\ q.Term = r.Term
             /\ Wins(q.id, {q.id} \cup G)

\* A node between two steps.
Rested(r, G) ==
    /\ Raft(r) /\ r.msgs = {}
    /\ r.state \in {Candidate, Leader} => r.Vote = r.id
    /\ r.state = Candidate => r.yes \subseteq {r.id} \cup G

\* Draining an empty outbox changes nothing (Advance).
LEMMA Drained ==
    ASSUME NEW q, Shaped(q, RaftFields), q.msgs = {}
    PROVE  q = [q EXCEPT !.msgs = {}]
<1> DEFINE p == [q EXCEPT !.msgs = {}]
<1>1. Shaped(p, RaftFields) /\ \A f \in RaftFields : p[f] = q[f]
  BY DEF Shaped, RaftFields
<1> HIDE DEF p
<1>2. p = [f \in RaftFields |-> p[f]] /\ q = [f \in RaftFields |-> q[f]]
  BY <1>1 DEF Shaped
<1>3. p = q
  BY <1>1, <1>2
<1>4. QED BY <1>3 DEF p

\* A handler that leaves elections alone does nothing illegal to one.
LEMMA FrameElects ==
    ASSUME NEW r, NEW q, NEW G, Rested(r, G), Frame(r, q)
    PROVE  Elects(r, q, G)
<1>1. q.Term >= r.Term
  BY DEF Frame, Rested, Raft
<1>2. QED BY <1>1 DEF Frame, Harmless, Rested, Elects

\* ... nor after one that is legal.
LEMMA ElectsFrame ==
    ASSUME NEW r, NEW q, NEW p, NEW G, Elects(r, q, G), Frame(q, p)
    PROVE  Elects(r, p, G)
<1>1. Raft(p) /\ p.id = r.id /\ p.Term >= r.Term
  BY DEF Elects, Frame
<1>2. p.Term = r.Term /\ r.Vote # None => p.Vote = r.Vote
  BY DEF Elects, Frame
<1>3. \A m \in p.msgs : /\ Sound(m) /\ m.from = r.id
                        /\ Grant(m) => m.term = p.Term /\ m.to = p.Vote
  BY DEF Elects, Frame, Harmless
<1>4. p.state = Candidate =>
          /\ p.Vote = p.id
          /\ \/ p.yes \subseteq {p.id}
             \/ r.state = Candidate /\ p.Term = r.Term /\ p.yes \subseteq {p.id} \cup G
  BY DEF Elects, Frame
<1>5. p.state = Leader =>
          \/ r.state = Leader /\ p.Term = r.Term /\ p.Vote = r.Vote
          \/ p.Vote = p.id /\ Wins(p.id, {p.id})
          \/ /\ p.Vote = p.id /\ r.state = Candidate /\ p.Term = r.Term
             /\ Wins(p.id, {p.id} \cup G)
  BY DEF Elects, Frame
<1>6. QED BY <1>1, <1>2, <1>3, <1>4, <1>5 DEF Elects

\* becomeFollower in the same or a later term is legal; it keeps the vote of the
\* term and forgets the others (reset).
LEMMA FollowerElects ==
    ASSUME NEW r, NEW G, Rested(r, G), NEW t \in Nat, t >= r.Term,
           NEW lead \in Server \cup {None}
    PROVE  LET q == becomeFollower(r, t, lead)
           IN  /\ Elects(r, q, G) /\ Raft(q) /\ q.msgs = {}
               /\ q.id = r.id /\ q.Term = t /\ q.state = Follower
               /\ q.Vote = IF t = r.Term THEN r.Vote ELSE None
<1> DEFINE q == becomeFollower(r, t, lead)
<1>1. /\ Shaped(q, RaftFields) /\ q.id = r.id /\ q.Term = t /\ q.state = Follower
      /\ q.Vote = IF t = r.Term THEN r.Vote ELSE None
      /\ q.lead = lead /\ q.leadTransferee = None /\ q.msgs = r.msgs
  BY DEF becomeFollower, reset, Rested, Raft, Shaped, RaftFields
<1>2. q.state # Candidate /\ q.state # Leader
  BY <1>1 DEF Follower, Candidate, Leader
<1>3. Raft(q)
  BY <1>1, <1>2 DEF Raft, Rested, States
<1> HIDE DEF q
<1>4. Elects(r, q, G)
  BY <1>1, <1>2, <1>3 DEF Elects, Rested
<1>5. QED BY <1>1, <1>3, <1>4 DEF q, Rested

\* becomeLeader keeps term and vote, and sends no grant.
LEMMA BecomeLeaderFacts ==
    ASSUME NEW p, Raft(p), p.Term # 0
    PROVE  LET q == becomeLeader(p)
           IN  /\ Raft(q) /\ q.id = p.id /\ q.Term = p.Term /\ q.Vote = p.Vote
               /\ q.state = Leader
               /\ \A m \in q.msgs : m \in p.msgs \/ Harmless(p, m)
<1> DEFINE last == lastIndex(p)
           b == [reset(p, p.Term) EXCEPT
                    !.lead = p.id, !.state = Leader,
                    !.prs = [i \in Server |->
                                IF i = p.id THEN BecomeReplicate(NewProgress(last, last + 1))
                                ELSE NewProgress(0, last + 1)]]
           q == becomeLeader(p)
<1>1. /\ Shaped(b, RaftFields) /\ b.id = p.id /\ b.Term = p.Term /\ b.Vote = p.Vote
      /\ b.state = Leader /\ b.lead = p.id /\ b.leadTransferee = None /\ b.msgs = p.msgs
  BY DEF reset, Raft, Shaped, RaftFields
<1>2. q = appendEntry(b, None)
  BY DEF becomeLeader
<1> HIDE DEF b, q
<1>3. Raft(b)
  BY <1>1 DEF Raft, States
<1>4. Frame(b, q)
  BY <1>2, <1>3, AppendEntryFrame
<1>5. QED BY <1>1, <1>4 DEF Frame, Harmless, q

\* More yes votes win an election that fewer have won, whatever the no votes
\* (MajorityConfig.VoteResult, JointConfig.VoteResult).
LEMMA MoreYesWins ==
    ASSUME NEW p, p.id \in Server, NEW Y, TallyVotes(p) = "VoteWon", p.yes \subseteq Y
    PROVE  Wins(p.id, Y)
<1> DEFINE c == Voters[p.id]
<1>1. IsFiniteSet(c[1]) /\ IsFiniteSet(c[2])
  <2>1. c[1] \subseteq Server /\ c[2] \subseteq Server
    BY CoreAssumption DEF JointConfig
  <2>2. QED BY <2>1, CoreAssumption, FS_Subset
<1>2. ASSUME NEW d, IsFiniteSet(d), MajorityVoteResult(d, p.yes, p.no) = "VoteWon"
      PROVE  MajorityVoteResult(d, Y, {}) = "VoteWon"
  <2>1. CASE d = {}
    BY <2>1 DEF MajorityVoteResult
  <2>2. CASE d # {}
    <3>1. Cardinality(d \cap p.yes) >= MajoritySize(d)
      BY <1>2, <2>2 DEF MajorityVoteResult
    <3>2. IsFiniteSet(d \cap Y) /\ d \cap p.yes \subseteq d \cap Y
      BY <1>2, FS_Intersection
    <3>3. /\ Cardinality(d \cap p.yes) <= Cardinality(d \cap Y)
          /\ Cardinality(d \cap p.yes) \in Nat /\ Cardinality(d \cap Y) \in Nat
          /\ Cardinality(d) \in Nat
      BY <3>2, <1>2, FS_Subset, FS_CardinalityType
    <3>4. Cardinality(d \cap Y) >= MajoritySize(d)
      BY <3>1, <3>3 DEF MajoritySize
    <3>5. QED BY <3>4 DEF MajorityVoteResult
  <2>3. QED BY <2>1, <2>2
<1>3. ASSUME NEW d
      PROVE  MajorityVoteResult(d, p.yes, p.no) \in {"VoteWon", "VotePending", "VoteLost"}
  BY DEF MajorityVoteResult
<1>4. /\ MajorityVoteResult(c[1], p.yes, p.no) = "VoteWon"
      /\ MajorityVoteResult(c[2], p.yes, p.no) = "VoteWon"
  BY <1>3 DEF TallyVotes, JointVoteResult
<1>5. /\ MajorityVoteResult(c[1], Y, {}) = "VoteWon"
      /\ MajorityVoteResult(c[2], Y, {}) = "VoteWon"
  BY <1>1, <1>2, <1>4
<1>6. QED BY <1>5 DEF Wins, JointVoteResult

\* A superset of winning votes wins.
LEMMA WinsMore ==
    ASSUME NEW s \in Server, NEW X, NEW Y, Wins(s, X), X \subseteq Y
    PROVE  Wins(s, Y)
<1> DEFINE p == [id |-> s, yes |-> X, no |-> {}]
<1>1. p.id = s /\ p.yes = X /\ p.no = {}
  OBVIOUS
<1> HIDE DEF p
<1>2. TallyVotes(p) = "VoteWon"
  BY <1>1 DEF TallyVotes, Wins
<1>3. QED BY <1>1, <1>2, MoreYesWins

\* campaign moves to the next term with the node's own vote, as its candidate, or
\* as its leader if that vote wins.
LEMMA CampaignElects ==
    ASSUME NEW r, Raft(r), r.msgs = {}, NEW force, NEW G
    PROVE  Elects(r, campaign(r, force), G)
<1> DEFINE c == becomeCandidate(r)
           p == RecordVote(c, r.id, TRUE)
           q == requestVotes(p, "MsgVote", p.Term, force)
           b == becomeLeader(p)
<1>1. /\ Shaped(p, RaftFields) /\ p.id = r.id /\ p.Term = r.Term + 1 /\ p.Vote = r.id
      /\ p.state = Candidate /\ p.yes \subseteq {r.id} /\ p.msgs = {}
      /\ p.lead = None /\ p.leadTransferee = None
  <2>1. /\ Shaped(c, RaftFields) /\ c.id = r.id /\ c.Term = r.Term + 1 /\ c.Vote = r.id
        /\ c.state = Candidate /\ c.yes = {} /\ c.no = {} /\ c.msgs = {}
        /\ c.lead = None /\ c.leadTransferee = None
    BY DEF becomeCandidate, reset, Raft, Shaped, RaftFields
  <2> HIDE DEF c
  <2>2. QED BY <2>1 DEF RecordVote, Shaped, RaftFields
<1>2. campaign(r, force) = IF TallyVotes(p) = "VoteWon" THEN b ELSE q
  BY DEF campaign
<1> HIDE DEF p
<1>3. Raft(p) /\ p.Term \in Nat /\ p.Term # 0 /\ p.Term > r.Term
  BY <1>1 DEF Raft, States
<1>4. Elects(r, q, G)
  <2>1. Frame(p, q)
    BY <1>3, RequestVotesFrame
  <2>2. Elects(r, p, G)
    BY <1>1, <1>3 DEF Elects, Candidate, Leader, Raft
  <2> HIDE DEF q
  <2>3. QED BY <2>1, <2>2, ElectsFrame
<1>5. ASSUME TallyVotes(p) = "VoteWon" PROVE Elects(r, b, G)
  <2>1. /\ Raft(b) /\ b.id = r.id /\ b.Term = r.Term + 1 /\ b.Vote = r.id /\ b.state = Leader
        /\ \A m \in b.msgs : Sound(m) /\ m.from = r.id /\ ~Grant(m)
    BY <1>1, <1>3, BecomeLeaderFacts DEF Harmless
  <2>2. Wins(r.id, {r.id})
    BY <1>1, <1>5, MoreYesWins DEF Raft
  <2>3. b.Term > r.Term
    BY <1>1, <1>3, <2>1 DEF Raft
  <2> HIDE DEF b
  <2>4. QED BY <2>1, <2>2, <2>3 DEF Elects, Candidate, Leader, Raft
<1>6. QED BY <1>2, <1>4, <1>5

\* Step(MsgHup) is legal, with and without pre-votes.
LEMMA HupElects ==
    ASSUME NEW r, NEW G, Rested(r, G)
    PROVE  Elects(r, hup(r), G)
<1> DEFINE c == becomePreCandidate(r)
           p == RecordVote(c, r.id, TRUE)
           q == requestVotes(p, "MsgPreVote", p.Term + 1, FALSE)
<1>1. Elects(r, r, G)
  <2>1. Frame(r, r)
    BY DEF Frame, Rested
  <2>2. QED BY <2>1, FrameElects
<1>2. /\ Shaped(p, RaftFields) /\ p.id = r.id /\ p.Term = r.Term /\ p.Vote = r.Vote
      /\ p.state = PreCandidate /\ p.msgs = {}
      /\ p.lead = None /\ p.leadTransferee = r.leadTransferee
  <2>1. /\ Shaped(c, RaftFields) /\ c.id = r.id /\ c.Term = r.Term /\ c.Vote = r.Vote
        /\ c.state = PreCandidate /\ c.msgs = {}
        /\ c.lead = None /\ c.leadTransferee = r.leadTransferee
    BY DEF becomePreCandidate, Raft, Rested, Shaped, RaftFields
  <2> HIDE DEF c
  <2>2. QED BY <2>1 DEF RecordVote, Shaped, RaftFields
<1>3. preCampaign(r) = IF TallyVotes(p) = "VoteWon" THEN campaign(p, FALSE) ELSE q
  BY DEF preCampaign
<1> HIDE DEF p
<1>4. p.state # Candidate /\ p.state # Leader
  BY <1>2 DEF Candidate, Leader, PreCandidate
<1>5. Raft(p)
  BY <1>2, <1>4 DEF Raft, Rested, States
<1>6. Elects(r, p, G)
  BY <1>2, <1>4, <1>5 DEF Elects, Raft
<1>7. Elects(r, q, G)
  <2>1. p.Term + 1 \in Nat
    BY <1>5 DEF Raft
  <2>2. Frame(p, q)
    BY <1>5, <2>1, RequestVotesFrame
  <2> HIDE DEF q
  <2>3. QED BY <1>6, <2>2, ElectsFrame
<1>8. Elects(r, campaign(p, FALSE), G)
  <2>1. Elects(p, campaign(p, FALSE), G)
    BY <1>2, <1>5, CampaignElects
  <2>2. QED BY <1>2, <1>4, <2>1 DEF Elects
<1>9. Elects(r, campaign(r, FALSE), G)
  BY CampaignElects DEF Rested
<1> HIDE DEF q
<1>10. QED BY <1>1, <1>3, <1>7, <1>8, <1>9 DEF hup

-----------------------------------------------------------------------------
\* What a message must satisfy where the step functions look at it.
Due(r, m, G) ==
    /\ Sound(m)
    /\ m.type \in {"MsgApp", "MsgHeartbeat"} => m.term = r.Term
    /\ m.type = "MsgVote" => m.term \in {0, r.Term}
    /\ Grant(m) /\ r.state = Candidate => m.from \in G

\* Counting an answer to a vote request is legal: a candidate becomes leader with
\* votes of its own term only (RecordVote, TallyVotes, reset).
LEMMA VoteRespElects ==
    ASSUME NEW r, NEW G, Rested(r, G), NEW m, m.from \in Server,
           r.state = Candidate /\ ~m.reject => m.from \in G
    PROVE  r.state \in {Candidate, PreCandidate} => Elects(r, candidateVoteResp(r, m), G)
<1> SUFFICES ASSUME r.state \in {Candidate, PreCandidate}
             PROVE  Elects(r, candidateVoteResp(r, m), G)
  OBVIOUS
<1> DEFINE p == RecordVote(r, m.from, ~m.reject)
           b == becomeLeader(p)
           f == becomeFollower(p, p.Term, None)
<1>1. /\ Shaped(p, RaftFields) /\ p.id = r.id /\ p.Term = r.Term /\ p.Vote = r.Vote
      /\ p.state = r.state /\ p.msgs = {} /\ p.lead = r.lead
      /\ p.leadTransferee = r.leadTransferee
      /\ p.yes \subseteq r.yes \cup (IF m.reject THEN {} ELSE {m.from})
  BY DEF RecordVote, Rested, Raft, Shaped, RaftFields
<1>2. candidateVoteResp(r, m) =
        CASE TallyVotes(p) = "VoteWon" ->
                IF r.state = PreCandidate THEN campaign(p, FALSE) ELSE bcastAppend(b)
          [] TallyVotes(p) = "VoteLost" -> f
          [] OTHER -> p
  BY DEF candidateVoteResp
<1> HIDE DEF p
<1>3. Raft(p)
  BY <1>1 DEF Raft, Rested
<1>4. r.state = Candidate => p.yes \subseteq {r.id} \cup G
  BY <1>1 DEF Rested
<1>5. Rested(p, G)
  BY <1>1, <1>3, <1>4 DEF Rested
<1>6. \A q : Elects(p, q, G) => Elects(r, q, G)
  BY <1>1 DEF Elects
<1>7. Elects(p, p, G)
  <2>1. Frame(p, p)
    BY <1>3 DEF Frame
  <2>2. QED BY <1>5, <2>1, FrameElects
<1>8. r.state = PreCandidate => Elects(p, campaign(p, FALSE), G)
  BY <1>1, <1>3, CampaignElects
<1>9. Elects(p, f, G)
  BY <1>3, <1>5, FollowerElects DEF Raft
<1>10. ASSUME TallyVotes(p) = "VoteWon", r.state # PreCandidate
       PROVE  Elects(r, bcastAppend(b), G)
  <2>1. r.state = Candidate /\ p.state = Candidate /\ p.Term # 0
    BY <1>1, <1>10, <1>3 DEF Raft
  <2>2. /\ Raft(b) /\ b.id = r.id /\ b.Term = r.Term /\ b.Vote = r.Vote /\ b.state = Leader
        /\ \A n \in b.msgs : Sound(n) /\ n.from = r.id /\ ~Grant(n)
    BY <1>1, <1>3, <2>1, BecomeLeaderFacts DEF Harmless
  <2>3. Wins(r.id, {r.id} \cup G)
    BY <1>1, <1>3, <1>4, <1>10, <2>1, MoreYesWins DEF Raft
  <2> HIDE DEF b
  <2>4. Elects(r, b, G)
    BY <2>1, <2>2, <2>3 DEF Elects, Rested, Raft, Candidate, Leader
  <2>5. Frame(b, bcastAppend(b))
    BY <2>1, <2>2, <1>1, BroadcastFrame
  <2>6. QED BY <2>4, <2>5, ElectsFrame
<1> HIDE DEF b, f
<1>11. QED BY <1>2, <1>6, <1>7, <1>8, <1>9, <1>10

\* stepCandidate is legal.
LEMMA StepCandidateElects ==
    ASSUME NEW r, NEW G, Rested(r, G), NEW m, Due(r, m, G),
           r.state \in {Candidate, PreCandidate}
    PROVE  Elects(r, stepCandidate(r, m), G)
<1> DEFINE f == becomeFollower(r, m.term, m.from)
           t == IF r.state = PreCandidate THEN "MsgPreVoteResp" ELSE "MsgVoteResp"
<1>1. m.from \in Server /\ m.term \in Nat
  BY DEF Due, Sound
<1>2. stepCandidate(r, m) = CASE m.type = "MsgApp" -> handleAppendEntries(f, m)
                              [] m.type = "MsgHeartbeat" -> handleHeartbeat(f, m)
                              [] m.type = t -> candidateVoteResp(r, m)
                              [] OTHER -> r
  BY DEF stepCandidate
<1>3. ASSUME m.type \in {"MsgApp", "MsgHeartbeat"}
      PROVE  /\ Elects(r, handleAppendEntries(f, m), G)
             /\ Elects(r, handleHeartbeat(f, m), G)
  <2>1. m.term = r.Term /\ r.Term >= r.Term
    BY <1>1, <1>3 DEF Due
  <2>2. Elects(r, f, G) /\ Raft(f)
    BY <1>1, <2>1, FollowerElects
  <2> HIDE DEF f
  <2>3. Frame(f, handleAppendEntries(f, m)) /\ Frame(f, handleHeartbeat(f, m))
    BY <1>1, <2>2, HandleAppendFrame, HandleHeartbeatFrame
  <2>4. QED BY <2>2, <2>3, ElectsFrame
<1>4. ASSUME m.type = t
      PROVE  Elects(r, candidateVoteResp(r, m), G)
  <2>1. r.state = Candidate /\ ~m.reject => m.from \in G
    BY <1>4 DEF Due, Grant, Candidate, PreCandidate
  <2>2. QED BY <1>1, <2>1, VoteRespElects
<1>5. Elects(r, r, G)
  <2>1. Frame(r, r)
    BY DEF Frame, Rested
  <2>2. QED BY <2>1, FrameElects
<1> HIDE DEF f, t
<1>6. QED BY <1>2, <1>3, <1>4, <1>5

\* stepFollower leaves elections alone unless it is told to campaign.
LEMMA StepFollowerFrame ==
    ASSUME NEW r, NEW G, Rested(r, G), NEW m, Due(r, m, G), m.type # "MsgTimeoutNow"
    PROVE  Frame(r, stepFollower(r, m))
<1> DEFINE f == [r EXCEPT !.elapsed = FALSE, !.lead = m.from]
           n == [m EXCEPT !.to = r.lead]
<1>1. m.from \in Server /\ Raft(r)
  BY DEF Due, Sound, Rested
<1>2. Frame(r, r) /\ Frame(r, f)
  BY <1>1 DEF Frame, Raft, Shaped, RaftFields
<1>3. stepFollower(r, m) =
        CASE m.type = "MsgApp" -> handleAppendEntries(f, m)
          [] m.type = "MsgHeartbeat" -> handleHeartbeat(f, m)
          [] m.type = "MsgTimeoutNow" -> IF promotable(r) THEN campaign(r, TRUE) ELSE r
          [] m.type = "MsgTransferLeader" /\ r.lead # None -> send(r, n)
          [] OTHER -> r
  BY DEF stepFollower
<1> HIDE DEF f
<1>4. Frame(f, handleAppendEntries(f, m)) /\ Frame(f, handleHeartbeat(f, m))
  <2>1. Raft(f)
    BY <1>2 DEF Frame
  <2>2. QED BY <1>1, <2>1, HandleAppendFrame, HandleHeartbeatFrame
<1>5. Frame(r, handleAppendEntries(f, m)) /\ Frame(r, handleHeartbeat(f, m))
  BY <1>2, <1>4, FrameTransitive
<1>6. ASSUME m.type = "MsgTransferLeader", r.lead # None
      PROVE  Frame(r, send(r, n))
  <2>1. Shaped(n, MsgFields) /\ n.type = "MsgTransferLeader" /\ n.to = r.lead
        /\ n.term \in Nat
    BY <1>6 DEF Due, Sound, Shaped, MsgFields
  <2>2. r.lead \in Server
    BY <1>1, <1>6 DEF Raft
  <2> HIDE DEF n
  <2>3. QED BY <1>1, <2>1, <2>2, SendFrame DEF Sendable, VoteMessageTypes
<1> HIDE DEF n
<1>7. QED BY <1>2, <1>3, <1>5, <1>6

\* stepFollower is legal, the campaign of a MsgTimeoutNow included.
LEMMA StepFollowerElects ==
    ASSUME NEW r, NEW G, Rested(r, G), NEW m, Due(r, m, G)
    PROVE  Elects(r, stepFollower(r, m), G)
<1>1. Frame(r, r)
  BY DEF Frame, Rested
<1>2. Elects(r, r, G) /\ Elects(r, campaign(r, TRUE), G)
  BY <1>1, FrameElects, CampaignElects DEF Rested
<1>3. m.type = "MsgTimeoutNow" => stepFollower(r, m) \in {r, campaign(r, TRUE)}
  BY DEF stepFollower
<1>4. m.type # "MsgTimeoutNow" => Elects(r, stepFollower(r, m), G)
  BY StepFollowerFrame, FrameElects
<1>5. QED BY <1>2, <1>3, <1>4

\* stepLeader leaves elections alone.
LEMMA StepLeaderFrame ==
    ASSUME NEW r, NEW G, Rested(r, G), NEW m, Due(r, m, G), r.state = Leader
    PROVE  Frame(r, stepLeader(r, m))
<1>1. m.from \in Server /\ Raft(r) /\ r.Term # 0
  BY DEF Due, Sound, Rested, Raft
<1>2. Frame(r, r)
  BY <1>1 DEF Frame
<1>3. /\ Frame(r, leaderAppResp(r, m)) /\ Frame(r, leaderHeartbeatResp(r, m))
      /\ Frame(r, leaderTransfer(r, m.from))
  BY <1>1, LeaderAppRespFrame, LeaderHeartbeatRespFrame, LeaderTransferFrame
<1>4. QED BY <1>2, <1>3 DEF stepLeader

\* Answering MsgVote and MsgPreVote is legal: the only step that grants a vote
\* records it, and never changes one that was given in the term.
LEMMA RespondElects ==
    ASSUME NEW r, NEW G, Rested(r, G), NEW m, Due(r, m, G),
           m.type \in {"MsgVote", "MsgPreVote"}
    PROVE  Elects(r, respondToVote(r, m), G)
<1> DEFINE type == IF m.type = "MsgVote" THEN "MsgVoteResp" ELSE "MsgPreVoteResp"
           no == [Msg(type, m.from) EXCEPT !.term = r.Term, !.reject = TRUE]
           yes == [Msg(type, m.from) EXCEPT !.term = m.term]
           g == send(r, yes)
           v == [g EXCEPT !.Vote = m.from, !.elapsed = FALSE]
           canVote == \/ r.Vote = m.from
                      \/ r.Vote = None /\ r.lead = None
                      \/ m.type = "MsgPreVote" /\ m.term > r.Term
<1>1. m.from \in Server /\ m.term \in Nat /\ Raft(r) /\ r.Term \in Nat
  BY DEF Due, Sound, Rested, Raft
<1>2. /\ Shaped(no, MsgFields) /\ no.type = type /\ no.to = m.from /\ no.term = r.Term
      /\ no.reject = TRUE
  BY DEF Msg, Shaped, MsgFields
<1>3. /\ Shaped(yes, MsgFields) /\ yes.type = type /\ yes.to = m.from /\ yes.term = m.term
      /\ yes.reject = FALSE
  BY DEF Msg, Shaped, MsgFields
<1>4. respondToVote(r, m) =
        IF ~(canVote /\ isUpToDate(r, m.index, m.logTerm)) THEN send(r, no)
        ELSE IF m.type = "MsgVote" THEN v ELSE g
  BY DEF respondToVote
<1> HIDE DEF no, yes
<1>5. Elects(r, send(r, no), G)
  <2>1. Frame(r, send(r, no))
    BY <1>1, <1>2, SendFrame DEF Sendable
  <2>2. QED BY <2>1, FrameElects
<1>6. ASSUME m.type = "MsgPreVote" PROVE Elects(r, g, G)
  <2>1. g.msgs \subseteq (IF m.term = 0 THEN {} ELSE {Stamped(r, yes)})
    BY <1>3, <1>6 DEF send, VoteMessageTypes, Rested, Raft, Shaped, RaftFields
  <2>2. /\ Shaped(Stamped(r, yes), MsgFields) /\ Stamped(r, yes).from = r.id
        /\ Stamped(r, yes).to = m.from /\ Stamped(r, yes).type = "MsgPreVoteResp"
        /\ Stamped(r, yes).term = m.term
    BY <1>3, <1>6 DEF Shaped, MsgFields, Stamped, VoteMessageTypes
  <2>3. \A n \in g.msgs : Sound(n) /\ n.from = r.id /\ ~Grant(n)
    BY <1>1, <2>1, <2>2 DEF Sound, Grant, Raft
  <2>4. /\ Shaped(g, RaftFields) /\ g.id = r.id /\ g.Term = r.Term /\ g.Vote = r.Vote
        /\ g.state = r.state /\ g.yes = r.yes /\ g.lead = r.lead
        /\ g.leadTransferee = r.leadTransferee
    BY DEF send, Rested, Raft, Shaped, RaftFields
  <2> HIDE DEF g
  <2>5. Raft(g) /\ g.Term >= r.Term
    BY <1>1, <2>4 DEF Raft
  <2>6. QED BY <2>3, <2>4, <2>5 DEF Elects, Rested
<1>7. ASSUME m.type = "MsgVote", canVote PROVE Elects(r, v, G)
  <2>1. r.Vote = m.from \/ r.Vote = None
    BY <1>7
  <2>2. \A n \in g.msgs : Sound(n) /\ n.from = r.id /\ n.term = r.Term /\ n.to = m.from
    <3>1. /\ Shaped(Stamped(r, yes), MsgFields) /\ Stamped(r, yes).from = r.id
          /\ Stamped(r, yes).to = m.from /\ Stamped(r, yes).type = "MsgVoteResp"
          /\ Stamped(r, yes).term = m.term
      BY <1>3, <1>7 DEF Shaped, MsgFields, Stamped, VoteMessageTypes
    <3>2. g.msgs \subseteq (IF m.term = 0 THEN {} ELSE {Stamped(r, yes)})
      BY <1>3, <1>7 DEF send, VoteMessageTypes, Rested, Raft, Shaped, RaftFields
    <3>3. m.term # 0 => m.term = r.Term
      BY <1>7 DEF Due
    <3>4. QED BY <1>1, <3>1, <3>2, <3>3 DEF Sound, Raft
  <2>3. /\ Shaped(g, RaftFields) /\ g.id = r.id /\ g.Term = r.Term /\ g.state = r.state
        /\ g.yes = r.yes /\ g.lead = r.lead /\ g.leadTransferee = r.leadTransferee
    BY DEF send, Rested, Raft, Shaped, RaftFields
  <2> HIDE DEF g
  <2>4. /\ Shaped(v, RaftFields) /\ v.id = r.id /\ v.Term = r.Term /\ v.state = r.state
        /\ v.yes = r.yes /\ v.lead = r.lead /\ v.leadTransferee = r.leadTransferee
        /\ v.Vote = m.from /\ v.msgs = g.msgs
    BY <2>3 DEF Shaped, RaftFields
  <2> HIDE DEF v
  <2>5. Raft(v)
    BY <1>1, <2>4 DEF Raft
  <2>6. r.Vote # None => v.Vote = r.Vote
    BY <2>1, <2>4
  <2>7. r.state \in {Candidate, Leader} => v.Vote = r.id /\ r.Vote = r.id
    BY <1>1, <2>1, <2>4, CoreAssumption DEF Rested, Raft
  <2>8. v.Term >= r.Term
    BY <1>1, <2>4
  <2>9. \A n \in v.msgs : /\ Sound(n) /\ n.from = r.id
                          /\ Grant(n) => n.term = v.Term /\ n.to = v.Vote
    BY <2>2, <2>4
  <2>10. v.state = Candidate =>
          v.Vote = v.id /\ r.state = Candidate /\ v.Term = r.Term /\ v.yes \subseteq {v.id} \cup G
    BY <2>4, <2>7 DEF Rested
  <2>11. v.state = Leader => r.state = Leader /\ v.Term = r.Term /\ v.Vote = r.Vote
    BY <2>4, <2>7
  <2>12. QED BY <2>4, <2>5, <2>6, <2>8, <2>9, <2>10, <2>11 DEF Elects
<1> HIDE DEF g, v
<1>8. QED BY <1>4, <1>5, <1>6, <1>7

\* What Step does once the term has been dealt with is legal.
LEMMA DispatchElects ==
    ASSUME NEW r, NEW G, Rested(r, G), NEW m, Due(r, m, G)
    PROVE  Elects(r, dispatch(r, m), G)
<1>1. m.from \in Server /\ Raft(r)
  BY DEF Due, Sound, Rested
<1>2. Frame(r, r) /\ Frame(r, send(r, Msg("MsgProbeRttResp", m.from)))
  BY <1>1, PlainSendFrame DEF Frame
<1>3. Elects(r, r, G) /\ Elects(r, send(r, Msg("MsgProbeRttResp", m.from)), G)
  BY <1>2, FrameElects
<1>4. m.type \in {"MsgVote", "MsgPreVote"} => Elects(r, respondToVote(r, m), G)
  BY RespondElects
<1>5. r.state = Leader => Elects(r, stepLeader(r, m), G)
  BY StepLeaderFrame, FrameElects
<1>6. r.state \in {Candidate, PreCandidate} => Elects(r, stepCandidate(r, m), G)
  BY StepCandidateElects
<1>7. Elects(r, stepFollower(r, m), G)
  BY StepFollowerElects
<1>8. r.state \in {Follower, Candidate, PreCandidate, Leader}
  BY <1>1 DEF Raft, States
<1>9. QED BY <1>3, <1>4, <1>5, <1>6, <1>7, <1>8 DEF dispatch

\* Answering a message of a lower term leaves elections alone.
LEMMA LowerTermFrame ==
    ASSUME NEW r, NEW G, Rested(r, G), NEW m, Sound(m)
    PROVE  Frame(r, stepLowerTerm(r, m))
<1> DEFINE no == [Msg("MsgPreVoteResp", m.from) EXCEPT !.term = r.Term, !.reject = TRUE]
<1>1. m.from \in Server /\ Raft(r) /\ r.Term \in Nat
  BY DEF Sound, Rested, Raft
<1>2. /\ Shaped(no, MsgFields) /\ no.type = "MsgPreVoteResp" /\ no.to = m.from
      /\ no.term = r.Term /\ no.reject = TRUE
  BY DEF Msg, Shaped, MsgFields
<1>3. stepLowerTerm(r, m) =
        CASE (CheckQuorum \/ PreVote) /\ m.type \in {"MsgHeartbeat", "MsgApp"} ->
                send(r, Msg("MsgAppResp", m.from))
          [] m.type = "MsgPreVote" -> send(r, no)
          [] OTHER -> r
  BY DEF stepLowerTerm
<1> HIDE DEF no
<1>4. Frame(r, r) /\ Frame(r, send(r, no)) /\ Frame(r, send(r, Msg("MsgAppResp", m.from)))
  <2>1. Frame(r, r)
    BY <1>1 DEF Frame
  <2>2. Frame(r, send(r, no))
    BY <1>1, <1>2, SendFrame DEF Sendable
  <2>3. Frame(r, send(r, Msg("MsgAppResp", m.from)))
    BY <1>1, PlainSendFrame
  <2>4. QED BY <2>1, <2>2, <2>3
<1>5. QED BY <1>3, <1>4

\* raft.Step is legal for every message that the network can deliver.
LEMMA StepElects ==
    ASSUME NEW r, NEW G, Rested(r, G), NEW m, Sound(m),
           Grant(m) /\ m.term = r.Term => m.from \in G
    PROVE  Elects(r, Step(r, m), G)
<1> DEFINE lead == IF m.type \in {"MsgApp", "MsgHeartbeat"} THEN m.from ELSE None
           f == becomeFollower(r, m.term, lead)
<1>1. m.from \in Server /\ m.term \in Nat /\ Raft(r) /\ r.Term \in Nat
  BY DEF Sound, Rested, Raft
<1>2. Elects(r, r, G)
  <2>1. Frame(r, r)
    BY <1>1 DEF Frame
  <2>2. QED BY <2>1, FrameElects
<1>3. ASSUME m.term = 0
      PROVE  Elects(r, dispatch(r, m), G)
  <2>1. Due(r, m, G)
    BY <1>3 DEF Due, Sound, Grant
  <2>2. QED BY <2>1, DispatchElects
<1>4. Elects(r, stepLowerTerm(r, m), G)
  BY LowerTermFrame, FrameElects
<1>5. ASSUME m.term >= r.Term, atTermOf(r, m) = r,
             m.term = r.Term \/ m.type \notin {"MsgApp", "MsgHeartbeat", "MsgVote", "MsgVoteResp"}
      PROVE  Elects(r, dispatch(r, m), G)
  <2>1. Due(r, m, G)
    BY <1>5 DEF Due, Grant
  <2>2. QED BY <2>1, DispatchElects
<1>6. ASSUME m.term > r.Term
      PROVE  Elects(r, dispatch(f, m), G)
  <2>1. lead \in Server \cup {None} /\ m.term >= r.Term
    BY <1>1, <1>6
  <2> HIDE DEF lead
  <2>2. /\ Raft(f) /\ f.msgs = {} /\ f.id = r.id /\ f.Term = m.term /\ f.state = Follower
    BY <1>1, <2>1, FollowerElects
  <2> HIDE DEF f
  <2>3. f.state # Candidate /\ f.state # Leader /\ f.state \in States
    BY <2>2 DEF Follower, Candidate, Leader, States
  <2>4. Rested(f, G) /\ Due(f, m, G)
    BY <2>2, <2>3 DEF Rested, Due
  <2>5. Elects(f, dispatch(f, m), G)
    BY <2>3, <2>4, DispatchElects
  <2> DEFINE q == dispatch(f, m)
  <2> HIDE DEF q
  <2>6. q.Term >= r.Term /\ q.Term # r.Term
    <3>1. q.Term >= f.Term /\ q.Term \in Nat
      BY <2>5 DEF Elects, Raft, q
    <3>2. QED BY <1>1, <1>6, <2>2, <3>1
  <2>7. Elects(r, q, G)
    <3>1. Elects(f, q, G)
      BY <2>5 DEF q
    <3>2. QED BY <2>2, <2>3, <2>6, <3>1 DEF Elects
  <2>8. QED BY <2>7 DEF q
<1>7. ~(m.term < r.Term) => m.term >= r.Term
  BY <1>1
<1>9. atTermOf(r, m) = IF \/ m.term <= r.Term
                          \/ m.type = "MsgPreVote"
                          \/ m.type = "MsgPreVoteResp" /\ ~m.reject
                       THEN r ELSE f
  BY DEF atTermOf
<1> HIDE DEF f
<1>10. ASSUME m.term >= r.Term
       PROVE  Elects(r, dispatch(atTermOf(r, m), m), G)
  <2>1. CASE m.term <= r.Term
    <3>1. m.term = r.Term
      BY <1>1, <1>10, <2>1
    <3>2. atTermOf(r, m) = r
      BY <2>1, <1>9
    <3>3. QED BY <1>5, <1>10, <3>1, <3>2
  <2>2. CASE m.type = "MsgPreVote" \/ (m.type = "MsgPreVoteResp" /\ ~m.reject)
    <3>1. atTermOf(r, m) = r
      BY <2>2, <1>9
    <3>2. m.type \notin {"MsgApp", "MsgHeartbeat", "MsgVote", "MsgVoteResp"}
      BY <2>2
    <3>3. QED BY <1>5, <1>10, <3>1, <3>2
  <2>3. CASE m.term > r.Term /\ ~(m.type = "MsgPreVote" \/ (m.type = "MsgPreVoteResp" /\ ~m.reject))
    <3>1. ~(m.term <= r.Term)
      BY <1>1, <2>3
    <3>2. atTermOf(r, m) = f
      BY <2>3, <3>1, <1>9
    <3>3. QED BY <1>6, <2>3, <3>2
  <2>4. QED BY <1>1, <2>1, <2>2, <2>3
<1>11. QED BY <1>2, <1>3, <1>4, <1>7, <1>10 DEF Step

\* So is a transfer of the leadership asked for locally.
LEMMA TransferElects ==
    ASSUME NEW r, NEW G, Rested(r, G), NEW i \in Server
    PROVE  Elects(r, transfer(r, i), G)
<1> DEFINE m == [Msg("MsgTransferLeader", r.id) EXCEPT !.from = i]
<1>1. /\ Shaped(m, MsgFields) /\ m.type = "MsgTransferLeader" /\ m.from = i /\ m.to = r.id
      /\ m.term = 0
  BY DEF Msg, Shaped, MsgFields
<1>2. transfer(r, i) = dispatch(r, m)
  BY DEF transfer
<1> HIDE DEF m
<1>3. Due(r, m, G)
  BY <1>1 DEF Due, Sound, Grant, Rested, Raft
<1>4. QED BY <1>2, <1>3, DispatchElects

\* So is a leader's tick at electionTimeout: checkQuorumActive steps down within
\* the term, abortLeaderTransfer keeps it.
LEMMA TickElects ==
    ASSUME NEW r, NEW G, Rested(r, G), r.state = Leader
    PROVE  Elects(r, abortLeaderTransfer(IF CheckQuorum THEN leaderCheckQuorum(r) ELSE r), G)
<1> DEFINE f == becomeFollower(r, r.Term, None)
           active == {i \in IDs(Voters[r.id]) : r.prs[i].RecentActive} \cup
                     ({r.id} \cap IDs(Voters[r.id]))
           a == [r EXCEPT !.prs = [i \in Server |->
                    [r.prs[i] EXCEPT !.RecentActive = (i = r.id /\ r.id \in active)]]]
           c == IF CheckQuorum THEN leaderCheckQuorum(r) ELSE r
<1>1. Raft(r) /\ r.Term \in Nat /\ r.Term >= r.Term
  BY DEF Rested, Raft
<1>2. Elects(r, f, G)
  BY <1>1, FollowerElects
<1>3. Elects(r, r, G) /\ Elects(r, a, G)
  <2>1. Frame(r, r)
    BY <1>1 DEF Frame
  <2>2. Frame(r, a)
    BY <1>1, FieldsFrame DEF Raft, Shaped, RaftFields
  <2> HIDE DEF a
  <2>3. QED BY <2>1, <2>2, FrameElects
<1>4. leaderCheckQuorum(r) \in {f, a}
  BY DEF leaderCheckQuorum
<1> HIDE DEF f, a
<1>5. Elects(r, c, G)
  BY <1>2, <1>3, <1>4
<1> HIDE DEF c
<1>6. Frame(c, abortLeaderTransfer(c))
  <2>1. Raft(c)
    BY <1>5 DEF Elects
  <2>2. QED BY <2>1 DEF Frame, Raft, Shaped, RaftFields, abortLeaderTransfer
<1>7. Elects(r, abortLeaderTransfer(c), G)
  BY <1>5, <1>6, ElectsFrame
<1>8. QED BY <1>7 DEF c

-----------------------------------------------------------------------------
(* Pre-votes: what moves a node to another term, N being the messages sent  *)

\* The voters whose pre-vote for s to campaign for term t is in N.  An answer to an
\* earlier pre-campaign, for the term before, is still counted (raft.Step).
PreGrantersIn(N, s, t) ==
    {m.from : m \in {n \in N : Consent(n) /\ n.to = s /\ (n.term = t \/ n.term + 1 = t)}}

\* Somebody was given the pre-votes of a quorum for term t.
PolledIn(N, t) == \E s \in Server : Wins(s, {s} \cup PreGrantersIn(N, s, t))

\* The leader of the term before told somebody to campaign for t.
HandedIn(N, t) == \E m \in N : m.type = "MsgTimeoutNow" /\ m.term + 1 = t

\* A message other than requests and grants of pre-votes has the term t.
HeardIn(N, t) == \E m \in N : m.type # "MsgPreVote" /\ ~Consent(m) /\ m.term = t

\* What a pre-candidate has counted was granted to it.
Waits(r, N) == r.state = PreCandidate => r.yes \subseteq {r.id} \cup PreGrantersIn(N, r.id, r.Term + 1)

\* A step of a node that moves to another term only for one of these reasons, and says
\* nothing of terms that nobody has reached but to ask for pre-votes and to grant them.
Climbs(r, q, N) ==
    /\ Raft(q) /\ q.id = r.id
    /\ q.Term = r.Term \/ HeardIn(N, q.Term) \/ HandedIn(N, q.Term) \/ PolledIn(N, q.Term)
    /\ Waits(q, N)
    /\ \A m \in q.msgs :
        \/ OfTerm(m, q.Term)
        \/ Consent(m) /\ \E n \in N : n.type = "MsgPreVote" /\ n.from = m.to /\ n.term = m.term

\* What a message must satisfy where the step functions look at it.
Heeded(r, m, N) ==
    /\ m.type = "MsgPreVote" => m \in N
    /\ m.type = "MsgTimeoutNow" => HandedIn(N, r.Term + 1)
    /\ Consent(m) /\ r.state = PreCandidate => m.from \in PreGrantersIn(N, r.id, r.Term + 1)

\* A handler that leaves elections alone stays in its term.
LEMMA FrameClimbs ==
    ASSUME NEW r, NEW q, NEW N, r.msgs = {}, Waits(r, N), Frame(r, q)
    PROVE  Climbs(r, q, N)
BY DEF Frame, Harmless, Climbs, Waits

\* ... also after a step that does not.
LEMMA ClimbsFrame ==
    ASSUME NEW r, NEW q, NEW p, NEW N, Climbs(r, q, N), Frame(q, p)
    PROVE  Climbs(r, p, N)
<1>1. Raft(p) /\ p.id = q.id /\ p.Term = q.Term /\ p.state = q.state /\ p.yes = q.yes
  BY DEF Frame
<1>2. \A m \in p.msgs : m \in q.msgs \/ OfTerm(m, p.Term)
  BY <1>1 DEF Frame, Harmless
<1>3. QED BY <1>1, <1>2 DEF Climbs, Waits

\* A follower has no pre-votes to wait for (becomeFollower).
LEMMA FollowerClimbs ==
    ASSUME NEW r, NEW q, NEW N, Raft(q), q.id = r.id, q.state = Follower, q.msgs = {},
           q.Term = r.Term \/ HeardIn(N, q.Term)
    PROVE  Climbs(r, q, N) /\ Waits(q, N)
BY DEF Climbs, Waits, Follower, PreCandidate

\* campaign, by a node that may: it goes to the next term and asks for its votes.
LEMMA CampaignClimbs ==
    ASSUME NEW r, Raft(r), r.msgs = {}, NEW force, NEW N,
           HandedIn(N, r.Term + 1) \/ PolledIn(N, r.Term + 1)
    PROVE  Climbs(r, campaign(r, force), N)
<1> DEFINE c == becomeCandidate(r)
           p == RecordVote(c, r.id, TRUE)
           q == requestVotes(p, "MsgVote", p.Term, force)
           b == becomeLeader(p)
<1>1. /\ Shaped(p, RaftFields) /\ p.id = r.id /\ p.Term = r.Term + 1
      /\ p.state = Candidate /\ p.msgs = {} /\ p.lead = None /\ p.leadTransferee = None
  <2>1. /\ Shaped(c, RaftFields) /\ c.id = r.id /\ c.Term = r.Term + 1
        /\ c.state = Candidate /\ c.msgs = {} /\ c.lead = None /\ c.leadTransferee = None
    BY DEF becomeCandidate, reset, Raft, Shaped, RaftFields
  <2> HIDE DEF c
  <2>2. QED BY <2>1 DEF RecordVote, Shaped, RaftFields
<1>2. campaign(r, force) = IF TallyVotes(p) = "VoteWon" THEN b ELSE q
  BY DEF campaign
<1> HIDE DEF p
<1>3. Raft(p) /\ p.Term \in Nat /\ p.Term # 0
  BY <1>1 DEF Raft, States
<1>4. Climbs(r, p, N)
  BY <1>1, <1>3 DEF Climbs, Waits, Candidate, PreCandidate
<1>5. Climbs(r, q, N)
  <2>1. Frame(p, q)
    BY <1>3, RequestVotesFrame
  <2>2. QED BY <1>4, <2>1, ClimbsFrame
<1>6. Climbs(r, b, N)
  <2>1. /\ Raft(b) /\ b.id = r.id /\ b.Term = r.Term + 1 /\ b.state = Leader
        /\ \A m \in b.msgs : OfTerm(m, b.Term)
    BY <1>1, <1>3, BecomeLeaderFacts DEF Harmless
  <2> HIDE DEF b
  <2>2. QED BY <2>1 DEF Climbs, Waits, Leader, PreCandidate
<1>7. QED BY <1>2, <1>5, <1>6

\* Step(MsgHup) with pre-votes: only a node that is a quorum by itself moves on at once.
LEMMA HupClimbs ==
    ASSUME PreVote, NEW r, NEW N, Raft(r), r.msgs = {}, Waits(r, N)
    PROVE  Climbs(r, hup(r), N)
<1> DEFINE c == becomePreCandidate(r)
           p == RecordVote(c, r.id, TRUE)
           q == requestVotes(p, "MsgPreVote", p.Term + 1, FALSE)
<1>1. Climbs(r, r, N)
  <2>1. Frame(r, r)
    BY DEF Frame
  <2>2. QED BY <2>1, FrameClimbs
<1>2. /\ Shaped(p, RaftFields) /\ p.id = r.id /\ p.Term = r.Term
      /\ p.state = PreCandidate /\ p.msgs = {} /\ p.yes \subseteq {r.id}
      /\ p.lead = None /\ p.leadTransferee = r.leadTransferee
  <2>1. /\ Shaped(c, RaftFields) /\ c.id = r.id /\ c.Term = r.Term
        /\ c.state = PreCandidate /\ c.msgs = {} /\ c.yes = {} /\ c.no = {}
        /\ c.lead = None /\ c.leadTransferee = r.leadTransferee
    BY DEF becomePreCandidate, Raft, Shaped, RaftFields
  <2> HIDE DEF c
  <2>2. QED BY <2>1 DEF RecordVote, Shaped, RaftFields
<1>3. preCampaign(r) = IF TallyVotes(p) = "VoteWon" THEN campaign(p, FALSE) ELSE q
  BY DEF preCampaign
<1> HIDE DEF p
<1>4. p.state # Candidate /\ p.state # Leader
  BY <1>2 DEF Candidate, Leader, PreCandidate
<1>5. Raft(p) /\ p.id \in Server
  BY <1>2, <1>4 DEF Raft, States
<1>6. Climbs(r, p, N)
  BY <1>2, <1>5 DEF Climbs, Waits
<1>7. Climbs(r, q, N)
  <2>1. p.Term + 1 \in Nat
    BY <1>5 DEF Raft
  <2>2. Frame(p, q)
    BY <1>5, <2>1, RequestVotesFrame
  <2>3. QED BY <1>6, <2>2, ClimbsFrame
<1>8. TallyVotes(p) = "VoteWon" => Climbs(r, campaign(p, FALSE), N)
  <2>1. SUFFICES ASSUME TallyVotes(p) = "VoteWon" PROVE Climbs(r, campaign(p, FALSE), N)
    OBVIOUS
  <2>2. Wins(p.id, {p.id} \cup PreGrantersIn(N, p.id, p.Term + 1))
    BY <1>2, <1>5, <2>1, MoreYesWins
  <2>3. PolledIn(N, p.Term + 1)
    BY <1>5, <2>2 DEF PolledIn
  <2>4. Climbs(p, campaign(p, FALSE), N)
    BY <1>2, <1>5, <2>3, CampaignClimbs
  <2>5. QED BY <1>2, <2>4 DEF Climbs
<1> HIDE DEF q
<1>9. QED BY <1>1, <1>3, <1>7, <1>8 DEF hup

\* Counting an answer: a quorum of pre-votes lets a pre-candidate campaign.
LEMMA VoteRespClimbs ==
    ASSUME NEW r, NEW N, Raft(r), r.msgs = {}, Waits(r, N), NEW m, m.from \in Server,
           r.state \in {Candidate, PreCandidate},
           r.state = PreCandidate /\ ~m.reject => m.from \in PreGrantersIn(N, r.id, r.Term + 1)
    PROVE  Climbs(r, candidateVoteResp(r, m), N)
<1> DEFINE p == RecordVote(r, m.from, ~m.reject)
           b == becomeLeader(p)
           f == becomeFollower(p, p.Term, None)
<1>1. /\ Shaped(p, RaftFields) /\ p.id = r.id /\ p.Term = r.Term
      /\ p.state = r.state /\ p.msgs = {} /\ p.lead = r.lead
      /\ p.leadTransferee = r.leadTransferee
      /\ p.yes \subseteq r.yes \cup (IF m.reject THEN {} ELSE {m.from})
  BY DEF RecordVote, Raft, Shaped, RaftFields
<1>2. candidateVoteResp(r, m) =
        CASE TallyVotes(p) = "VoteWon" ->
                IF r.state = PreCandidate THEN campaign(p, FALSE) ELSE bcastAppend(b)
          [] TallyVotes(p) = "VoteLost" -> f
          [] OTHER -> p
  BY DEF candidateVoteResp
<1> HIDE DEF p
<1>3. Raft(p) /\ p.id \in Server
  BY <1>1 DEF Raft
<1>4. Waits(p, N)
  BY <1>1 DEF Waits
<1>5. Climbs(r, p, N)
  BY <1>1, <1>3, <1>4 DEF Climbs
<1>6. ASSUME TallyVotes(p) = "VoteWon", r.state = PreCandidate
      PROVE  Climbs(r, campaign(p, FALSE), N)
  <2>1. Wins(p.id, {p.id} \cup PreGrantersIn(N, p.id, p.Term + 1))
    BY <1>1, <1>3, <1>4, <1>6, MoreYesWins DEF Waits
  <2>2. PolledIn(N, p.Term + 1)
    BY <1>3, <2>1 DEF PolledIn
  <2>3. Climbs(p, campaign(p, FALSE), N)
    BY <1>1, <1>3, <2>2, CampaignClimbs
  <2>4. QED BY <1>1, <2>3 DEF Climbs
<1>7. Climbs(r, f, N)
  <2>1. /\ Shaped(f, RaftFields) /\ f.id = r.id /\ f.Term = r.Term /\ f.state = Follower
        /\ f.lead = None /\ f.leadTransferee = None /\ f.msgs = {}
    BY <1>1 DEF becomeFollower, reset, Shaped, RaftFields
  <2> HIDE DEF f
  <2>2. Raft(f)
    BY <1>1, <1>3, <2>1 DEF Raft, States, Follower, Candidate, Leader
  <2>3. QED BY <2>1, <2>2, FollowerClimbs
<1>8. ASSUME r.state # PreCandidate
      PROVE  Climbs(r, bcastAppend(b), N)
  <2>1. p.Term # 0
    BY <1>1, <1>3, <1>8 DEF Raft
  <2>2. /\ Raft(b) /\ b.id = r.id /\ b.Term = r.Term /\ b.Term # 0 /\ b.state = Leader
        /\ \A n \in b.msgs : OfTerm(n, b.Term)
    BY <1>1, <1>3, <2>1, BecomeLeaderFacts DEF Harmless
  <2> HIDE DEF b
  <2>3. Climbs(r, b, N)
    BY <2>2 DEF Climbs, Waits, Leader, PreCandidate
  <2>4. QED BY <2>2, <2>3, BroadcastFrame, ClimbsFrame
<1> HIDE DEF b, f
<1>9. QED BY <1>2, <1>5, <1>6, <1>7, <1>8

\* stepCandidate
LEMMA StepCandidateClimbs ==
    ASSUME NEW r, NEW G, Rested(r, G), NEW N, Waits(r, N), NEW m, Due(r, m, G), Heeded(r, m, N),
           r.state \in {Candidate, PreCandidate}
    PROVE  Climbs(r, stepCandidate(r, m), N)
<1> DEFINE f == becomeFollower(r, m.term, m.from)
           t == IF r.state = PreCandidate THEN "MsgPreVoteResp" ELSE "MsgVoteResp"
<1>1. m.from \in Server /\ m.term \in Nat /\ Raft(r) /\ r.msgs = {}
  BY DEF Due, Sound, Rested
<1>2. stepCandidate(r, m) = CASE m.type = "MsgApp" -> handleAppendEntries(f, m)
                              [] m.type = "MsgHeartbeat" -> handleHeartbeat(f, m)
                              [] m.type = t -> candidateVoteResp(r, m)
                              [] OTHER -> r
  BY DEF stepCandidate
<1>3. ASSUME m.type \in {"MsgApp", "MsgHeartbeat"}
      PROVE  /\ Climbs(r, handleAppendEntries(f, m), N)
             /\ Climbs(r, handleHeartbeat(f, m), N)
  <2>1. m.term = r.Term /\ r.Term >= r.Term
    BY <1>1, <1>3 DEF Due
  <2>2. Raft(f) /\ f.msgs = {} /\ f.id = r.id /\ f.Term = r.Term /\ f.state = Follower
    BY <1>1, <2>1, FollowerElects
  <2> HIDE DEF f
  <2>3. Climbs(r, f, N)
    BY <2>2, FollowerClimbs
  <2>4. Frame(f, handleAppendEntries(f, m)) /\ Frame(f, handleHeartbeat(f, m))
    BY <1>1, <2>2, HandleAppendFrame, HandleHeartbeatFrame
  <2>5. QED BY <2>3, <2>4, ClimbsFrame
<1>4. ASSUME m.type = t
      PROVE  Climbs(r, candidateVoteResp(r, m), N)
  <2>1. r.state = PreCandidate /\ ~m.reject => m.from \in PreGrantersIn(N, r.id, r.Term + 1)
    BY <1>4 DEF Heeded, Consent
  <2>2. QED BY <1>1, <2>1, VoteRespClimbs
<1>5. Climbs(r, r, N)
  <2>1. Frame(r, r)
    BY <1>1 DEF Frame
  <2>2. QED BY <1>1, <2>1, FrameClimbs
<1> HIDE DEF f, t
<1>6. QED BY <1>2, <1>3, <1>4, <1>5

\* stepFollower: a MsgTimeoutNow of its term is a reason to campaign.
LEMMA StepFollowerClimbs ==
    ASSUME NEW r, NEW G, Rested(r, G), NEW N, Waits(r, N), NEW m, Due(r, m, G), Heeded(r, m, N)
    PROVE  Climbs(r, stepFollower(r, m), N)
<1>1. Raft(r) /\ r.msgs = {}
  BY DEF Rested
<1>2. CASE m.type = "MsgTimeoutNow"
  <2>1. HandedIn(N, r.Term + 1)
    BY <1>2 DEF Heeded
  <2>2. Climbs(r, campaign(r, TRUE), N)
    BY <1>1, <2>1, CampaignClimbs
  <2>3. Climbs(r, r, N)
    <3>1. Frame(r, r)
      BY <1>1 DEF Frame
    <3>2. QED BY <1>1, <3>1, FrameClimbs
  <2>4. stepFollower(r, m) \in {campaign(r, TRUE), r}
    BY <1>2 DEF stepFollower
  <2>5. QED BY <2>2, <2>3, <2>4
<1>3. CASE m.type # "MsgTimeoutNow"
  BY <1>1, <1>3, StepFollowerFrame, FrameClimbs
<1>4. QED BY <1>2, <1>3

\* respondToVote: a pre-vote is granted to one who asked for it.
LEMMA RespondClimbs ==
    ASSUME NEW r, NEW G, Rested(r, G), NEW N, Waits(r, N), NEW m, Due(r, m, G), Heeded(r, m, N),
           m.type \in {"MsgVote", "MsgPreVote"}
    PROVE  Climbs(r, respondToVote(r, m), N)
<1> DEFINE type == IF m.type = "MsgVote" THEN "MsgVoteResp" ELSE "MsgPreVoteResp"
           no == [Msg(type, m.from) EXCEPT !.term = r.Term, !.reject = TRUE]
           yes == [Msg(type, m.from) EXCEPT !.term = m.term]
           g == send(r, yes)
           v == [g EXCEPT !.Vote = m.from, !.elapsed = FALSE]
           canVote == \/ r.Vote = m.from
                      \/ r.Vote = None /\ r.lead = None
                      \/ m.type = "MsgPreVote" /\ m.term > r.Term
<1>1. m.from \in Server /\ m.term \in Nat /\ Raft(r) /\ r.Term \in Nat /\ r.msgs = {}
  BY DEF Due, Sound, Rested, Raft
<1>2. /\ Shaped(no, MsgFields) /\ no.type = type /\ no.to = m.from /\ no.term = r.Term
      /\ no.reject = TRUE
  BY DEF Msg, Shaped, MsgFields
<1>3. /\ Shaped(yes, MsgFields) /\ yes.type = type /\ yes.to = m.from /\ yes.term = m.term
      /\ yes.reject = FALSE
  BY DEF Msg, Shaped, MsgFields
<1>4. respondToVote(r, m) =
        IF ~(canVote /\ isUpToDate(r, m.index, m.logTerm)) THEN send(r, no)
        ELSE IF m.type = "MsgVote" THEN v ELSE g
  BY DEF respondToVote
<1> HIDE DEF no, yes
<1>5. Climbs(r, send(r, no), N)
  <2>1. Frame(r, send(r, no))
    BY <1>1, <1>2, SendFrame DEF Sendable
  <2>2. QED BY <1>1, <2>1, FrameClimbs
<1>6. /\ Shaped(Stamped(r, yes), MsgFields)
      /\ Stamped(r, yes).to = m.from /\ Stamped(r, yes).type = type
      /\ Stamped(r, yes).term = m.term
  BY <1>3 DEF Shaped, MsgFields, Stamped, VoteMessageTypes
<1>7. g.msgs \subseteq (IF m.term = 0 THEN {} ELSE {Stamped(r, yes)})
  BY <1>1, <1>3 DEF send, VoteMessageTypes, Raft, Shaped, RaftFields
<1>8. /\ Shaped(g, RaftFields) /\ g.id = r.id /\ g.Term = r.Term /\ g.state = r.state
      /\ g.yes = r.yes /\ g.lead = r.lead /\ g.leadTransferee = r.leadTransferee
  BY <1>1 DEF send, Raft, Shaped, RaftFields
<1> HIDE DEF g, type
<1>9. /\ Shaped(v, RaftFields) /\ v.id = r.id /\ v.Term = r.Term /\ v.state = r.state
      /\ v.yes = r.yes /\ v.lead = r.lead /\ v.leadTransferee = r.leadTransferee
      /\ v.msgs = g.msgs
  BY <1>8 DEF Shaped, RaftFields
<1> HIDE DEF v
<1>10. Raft(g) /\ Raft(v) /\ Waits(g, N) /\ Waits(v, N)
  BY <1>1, <1>8, <1>9 DEF Raft, Waits
<1>11. ASSUME NEW n \in g.msgs
       PROVE  \/ OfTerm(n, r.Term)
              \/ Consent(n) /\ \E a \in N : a.type = "MsgPreVote" /\ a.from = n.to /\ a.term = n.term
  <2>1. n.to = m.from /\ n.type = type /\ n.term = m.term /\ m.term # 0
    BY <1>6, <1>7
  <2>2. CASE m.type = "MsgPreVote" /\ Consent(n)
    <3>1. m \in N
      BY <2>2 DEF Heeded
    <3>2. QED BY <2>1, <2>2, <3>1
  <2>3. CASE m.type = "MsgPreVote" /\ ~Consent(n)
    <3>1. n.reject = FALSE
      <4>1. n = Stamped(r, yes)
        BY <1>7
      <4>2. Stamped(r, yes).reject = yes.reject
        BY <1>3 DEF Shaped, MsgFields, Stamped
      <4>3. QED BY <1>3, <4>1, <4>2
    <3>2. QED BY <2>1, <2>3, <3>1 DEF Consent, type
  <2>4. CASE m.type = "MsgVote"
    <3>1. n.term = r.Term
      BY <2>1, <2>4 DEF Due
    <3>2. ~Consent(n)
      BY <2>1, <2>4 DEF Consent, type
    <3>3. QED BY <3>1, <3>2 DEF OfTerm
  <2>5. QED BY <2>2, <2>3, <2>4
<1>12. Climbs(r, g, N) /\ Climbs(r, v, N)
  BY <1>8, <1>9, <1>10, <1>11 DEF Climbs
<1>13. QED BY <1>4, <1>5, <1>12

\* What Step does once the term has been dealt with.
LEMMA DispatchClimbs ==
    ASSUME NEW r, NEW G, Rested(r, G), NEW N, Waits(r, N), NEW m, Due(r, m, G), Heeded(r, m, N)
    PROVE  Climbs(r, dispatch(r, m), N)
<1>1. m.from \in Server /\ Raft(r) /\ r.msgs = {}
  BY DEF Due, Sound, Rested
<1>2. Frame(r, r) /\ Frame(r, send(r, Msg("MsgProbeRttResp", m.from)))
  <2>1. Frame(r, r)
    BY <1>1 DEF Frame
  <2>2. Frame(r, send(r, Msg("MsgProbeRttResp", m.from)))
    BY <1>1, PlainSendFrame
  <2>3. QED BY <2>1, <2>2
<1>3. Climbs(r, r, N) /\ Climbs(r, send(r, Msg("MsgProbeRttResp", m.from)), N)
  BY <1>1, <1>2, FrameClimbs
<1>4. m.type \in {"MsgVote", "MsgPreVote"} => Climbs(r, respondToVote(r, m), N)
  BY RespondClimbs
<1>5. r.state = Leader => Climbs(r, stepLeader(r, m), N)
  BY <1>1, StepLeaderFrame, FrameClimbs
<1>6. r.state \in {Candidate, PreCandidate} => Climbs(r, stepCandidate(r, m), N)
  BY StepCandidateClimbs
<1>7. Climbs(r, stepFollower(r, m), N)
  BY StepFollowerClimbs
<1>8. r.state \in {Follower, Candidate, PreCandidate, Leader}
  BY <1>1 DEF Raft, States
<1>9. QED BY <1>3, <1>4, <1>5, <1>6, <1>7, <1>8 DEF dispatch

\* raft.Step: any message but one about pre-votes takes the node to its term; grants of
\* pre-votes count for the pre-campaign under way and for the one before.
LEMMA StepClimbs ==
    ASSUME NEW r, NEW G, Rested(r, G), NEW N, Waits(r, N), NEW m \in N, Sound(m),
           Grant(m) /\ m.term = r.Term => m.from \in G,
           m.to = r.id, Consent(m) => m.term <= r.Term + 1
    PROVE  Climbs(r, Step(r, m), N)
<1> DEFINE lead == IF m.type \in {"MsgApp", "MsgHeartbeat"} THEN m.from ELSE None
           f == becomeFollower(r, m.term, lead)
           quiet == m.type = "MsgPreVote" \/ Consent(m)
<1>1. m.from \in Server /\ m.term \in Nat /\ Raft(r) /\ r.Term \in Nat /\ r.msgs = {}
  BY DEF Sound, Rested, Raft
<1>2. Climbs(r, r, N)
  <2>1. Frame(r, r)
    BY <1>1 DEF Frame
  <2>2. QED BY <1>1, <2>1, FrameClimbs
<1>3. Climbs(r, stepLowerTerm(r, m), N)
  BY <1>1, LowerTermFrame, FrameClimbs
<1>4. ASSUME m.term >= r.Term, m.term = r.Term \/ quiet
      PROVE  Heeded(r, m, N)
  <2>1. m.type = "MsgTimeoutNow" => HandedIn(N, r.Term + 1)
    BY <1>4 DEF HandedIn, Consent
  <2>2. Consent(m) => m.term = r.Term + 1 \/ m.term + 1 = r.Term + 1
    BY <1>1, <1>4
  <2>3. Consent(m) => m.from \in PreGrantersIn(N, r.id, r.Term + 1)
    BY <2>2 DEF PreGrantersIn
  <2>4. QED BY <2>1, <2>3 DEF Heeded
<1>5. ASSUME m.term = 0
      PROVE  Climbs(r, dispatch(r, m), N)
  <2>1. Due(r, m, G)
    BY <1>5 DEF Due, Sound, Grant
  <2>2. Heeded(r, m, N)
    BY <1>5 DEF Heeded, Sound, Consent
  <2>3. QED BY <2>1, <2>2, DispatchClimbs
<1>6. ASSUME m.term >= r.Term, m.term = r.Term \/ quiet
      PROVE  Climbs(r, dispatch(r, m), N)
  <2>1. Due(r, m, G)
    BY <1>6 DEF Due, Grant, Consent
  <2>2. QED BY <1>4, <1>6, <2>1, DispatchClimbs
<1>7. ASSUME m.term > r.Term, ~quiet
      PROVE  Climbs(r, dispatch(f, m), N)
  <2>1. lead \in Server \cup {None} /\ m.term >= r.Term
    BY <1>1, <1>7
  <2> HIDE DEF lead
  <2>2. /\ Raft(f) /\ f.msgs = {} /\ f.id = r.id /\ f.Term = m.term /\ f.state = Follower
    BY <1>1, <2>1, FollowerElects
  <2> HIDE DEF f
  <2>3. f.state # Candidate /\ f.state # Leader /\ f.state # PreCandidate
    BY <2>2 DEF Follower, Candidate, Leader, PreCandidate
  <2>4. Rested(f, G) /\ Due(f, m, G) /\ Waits(f, N)
    BY <2>2, <2>3 DEF Rested, Due, Waits
  <2>5. HeardIn(N, f.Term)
    BY <1>7, <2>2 DEF HeardIn
  <2>6. Heeded(f, m, N)
    BY <1>7, <2>2 DEF Heeded, HandedIn
  <2>7. Climbs(f, dispatch(f, m), N)
    BY <2>4, <2>6, DispatchClimbs
  <2>8. QED BY <2>2, <2>5, <2>7 DEF Climbs
<1>8. atTermOf(r, m) = IF m.term <= r.Term \/ quiet THEN r ELSE f
  BY DEF atTermOf, Consent
<1> HIDE DEF f
<1>9. ASSUME ~(m.term < r.Term)
      PROVE  Climbs(r, dispatch(atTermOf(r, m), m), N)
  <2>1. m.term >= r.Term
    BY <1>1, <1>9
  <2>2. CASE m.term <= r.Term \/ quiet
    <3>1. m.term = r.Term \/ quiet
      BY <1>1, <2>1, <2>2
    <3>2. atTermOf(r, m) = r
      BY <1>8, <2>2
    <3>3. QED BY <1>6, <2>1, <3>1, <3>2
  <2>3. CASE ~(m.term <= r.Term \/ quiet)
    <3>1. m.term > r.Term
      BY <1>1, <2>3
    <3>2. atTermOf(r, m) = f
      BY <1>8, <2>3
    <3>3. QED BY <1>7, <2>3, <3>1, <3>2
  <2>4. QED BY <2>2, <2>3
<1>10. QED BY <1>2, <1>3, <1>5, <1>9 DEF Step

\* A transfer asked for locally stays in the term.
LEMMA TransferClimbs ==
    ASSUME NEW r, NEW G, Rested(r, G), NEW N, Waits(r, N), NEW i \in Server
    PROVE  Climbs(r, transfer(r, i), N)
<1> DEFINE m == [Msg("MsgTransferLeader", r.id) EXCEPT !.from = i]
<1>1. /\ Shaped(m, MsgFields) /\ m.type = "MsgTransferLeader" /\ m.from = i /\ m.to = r.id
      /\ m.term = 0
  BY DEF Msg, Shaped, MsgFields
<1>2. transfer(r, i) = dispatch(r, m)
  BY DEF transfer
<1> HIDE DEF m
<1>3. Due(r, m, G) /\ Heeded(r, m, N)
  BY <1>1 DEF Due, Sound, Grant, Rested, Raft, Heeded, Consent
<1>4. QED BY <1>2, <1>3, DispatchClimbs

\* A leader that steps down for want of a quorum does so in its term.
LEMMA TickClimbs ==
    ASSUME NEW r, NEW G, Rested(r, G), NEW N, r.state = Leader
    PROVE  Climbs(r, abortLeaderTransfer(IF CheckQuorum THEN leaderCheckQuorum(r) ELSE r), N)
<1> DEFINE f == becomeFollower(r, r.Term, None)
           active == {i \in IDs(Voters[r.id]) : r.prs[i].RecentActive} \cup
                     ({r.id} \cap IDs(Voters[r.id]))
           a == [r EXCEPT !.prs = [i \in Server |->
                    [r.prs[i] EXCEPT !.RecentActive = (i = r.id /\ r.id \in active)]]]
           c == IF CheckQuorum THEN leaderCheckQuorum(r) ELSE r
<1>1. Raft(r) /\ r.Term \in Nat /\ r.Term >= r.Term /\ r.msgs = {} /\ Waits(r, N)
  BY DEF Rested, Raft, Waits, Leader, PreCandidate
<1>2. Climbs(r, f, N)
  <2>1. /\ Raft(f) /\ f.msgs = {} /\ f.id = r.id /\ f.Term = r.Term /\ f.state = Follower
    BY <1>1, FollowerElects
  <2>2. QED BY <2>1, FollowerClimbs
<1>3. Climbs(r, r, N) /\ Climbs(r, a, N)
  <2>1. Frame(r, r)
    BY <1>1 DEF Frame
  <2>2. Frame(r, a)
    BY <1>1, FieldsFrame DEF Raft, Shaped, RaftFields
  <2> HIDE DEF a
  <2>3. QED BY <1>1, <2>1, <2>2, FrameClimbs
<1>4. leaderCheckQuorum(r) \in {f, a}
  BY DEF leaderCheckQuorum
<1> HIDE DEF f, a
<1>5. Climbs(r, c, N)
  BY <1>2, <1>3, <1>4
<1> HIDE DEF c
<1>6. Frame(c, abortLeaderTransfer(c))
  <2>1. Raft(c)
    BY <1>5 DEF Climbs
  <2>2. QED BY <2>1 DEF Frame, Raft, Shaped, RaftFields, abortLeaderTransfer
<1>7. Climbs(r, abortLeaderTransfer(c), N)
  BY <1>5, <1>6, ClimbsFrame
<1>8. QED BY <1>7 DEF c

-----------------------------------------------------------------------------
\* Logs

\* x and y agree on their first i entries.
Agrees(x, y, i) ==
    /\ i <= Len(x) /\ i <= Len(y)
    /\ \A j \in 1..i : x[j] = y[j]

LastTerm(x) == termAt(x, Len(x))

\* Every entry of x stands, with all before it, in the log L[t] of the leader of
\* its term t.
Matches(x, L) ==
    \A i \in 1..Len(x) : x[i].term # 0 /\ Agrees(x, L[x[i].term], i)

\* The entries of a MsgApp are those of the log l that follow its index.
Carries(m, l) ==
    /\ m.index + Len(m.entries) <= Len(l)
    /\ \A k \in 1..Len(m.entries) : m.entries[k] = l[m.index + k]
    /\ m.logTerm = termAt(l, m.index)

\* Terms do not decrease along a log whose every entry is backed by its leader.
LEMMA TermsGrow ==
    ASSUME NEW L \in [Nat -> Seq(Entry)], NEW x \in Seq(Entry), Matches(x, L),
           \A T \in Nat : \A i \in 1..Len(L[T]) : L[T][i].term <= T,
           NEW i \in 1..Len(x), NEW j \in 1..i
    PROVE  x[j].term <= x[i].term
<1> DEFINE l == L[x[i].term]
<1>1. Agrees(x, l, i) /\ x[i].term \in Nat /\ i \in Nat
  <2>1. x[i] \in Entry
    BY ElementOfSeq
  <2>2. x[i].term \in Nat
    BY <2>1 DEF Entry
  <2>3. Agrees(x, l, i)
    BY DEF Matches
  <2>4. QED BY <2>2, <2>3
<1>2. l \in Seq(Entry) /\ \A k \in 1..Len(l) : l[k].term <= x[i].term
  BY <1>1
<1> HIDE DEF l
<1>3. j \in 1..Len(l) /\ x[j] = l[j]
  <2>1. Len(l) \in Nat
    BY <1>2, LenProperties
  <2>2. QED BY <2>1, <1>1 DEF Agrees
<1>4. QED BY <1>2, <1>3

\* The smaller of two numbers (FiniteSetsExt chooses it).
LEMMA MinOfTwo ==
    ASSUME NEW a \in Int, NEW b \in Int
    PROVE  Min({a, b}) = IF a <= b THEN a ELSE b
<1> DEFINE c == IF a <= b THEN a ELSE b
<1>1. c \in {a, b} /\ \A y \in {a, b} : c <= y
  OBVIOUS
<1>2. \A x \in {a, b} : (\A y \in {a, b} : x <= y) => x = c
  OBVIOUS
<1> HIDE DEF c
<1>3. Min({a, b}) = c
  BY <1>1, <1>2 DEF Min
<1>4. QED BY <1>3 DEF c

\* The larger of two numbers.
LEMMA MaxOfTwo ==
    ASSUME NEW a \in Int, NEW b \in Int
    PROVE  Max({a, b}) = IF a >= b THEN a ELSE b
<1> DEFINE c == IF a >= b THEN a ELSE b
<1>1. c \in {a, b} /\ \A y \in {a, b} : c >= y
  OBVIOUS
<1>2. \A x \in {a, b} : (\A y \in {a, b} : x >= y) => x = c
  OBVIOUS
<1> HIDE DEF c
<1>3. Max({a, b}) = c
  BY <1>1, <1>2 DEF Max
<1>4. QED BY <1>3 DEF c

\* A non-empty set of numbers has a least one.
LEMMA LeastOf ==
    ASSUME NEW S \in SUBSET Nat, S # {}
    PROVE  Min(S) \in S /\ \A y \in S : Min(S) <= y
<1> DEFINE R == OpToRel(<, Nat)
<1>1. IsWellFoundedOn(R, Nat)
  BY NatLessThanWellFounded
<1>2. \A x, y \in Nat : x < y => <<x, y>> \in R
  BY DEF OpToRel
<1> HIDE DEF R
<1>3. \E x \in S : \A y \in S : ~(<<y, x>> \in R)
  BY <1>1, WFMin
<1>4. PICK x \in S : \A y \in S : ~(<<y, x>> \in R)
  BY <1>3
<1>5. ASSUME NEW y \in S PROVE x <= y
  <2>1. x \in Nat /\ y \in Nat /\ ~(<<y, x>> \in R)
    BY <1>4
  <2>2. QED BY <2>1, <1>2
<1>6. QED BY <1>5 DEF Min

\* A non-empty set of numbers that has a bound has a greatest one.
LEMMA GreatestOf ==
    ASSUME NEW B \in Nat, NEW S \in SUBSET (0..B), S # {}
    PROVE  Max(S) \in S /\ \A y \in S : Max(S) >= y
<1> DEFINE R == {B - x : x \in S}
<1>1. R \in SUBSET Nat /\ R # {}
  <2>1. \A x \in S : B - x \in Nat
    OBVIOUS
  <2>2. QED BY <2>1
<1>2. Min(R) \in R /\ \A y \in R : Min(R) <= y
  BY <1>1, LeastOf
<1>3. PICK x \in S : Min(R) = B - x
  BY <1>2
<1>4. \A y \in S : B - x <= B - y
  BY <1>2, <1>3
<1>5. \A y \in S : x >= y
  BY <1>4
<1>6. QED BY <1>5 DEF Max

-----------------------------------------------------------------------------
\* Counting

\* The index that MajorityConfig.CommittedIndex returns was reached by enough
\* voters to win an election, and so was every smaller one.
LEMMA MajorityReached ==
    ASSUME NEW d \in SUBSET Server, NEW match \in [Server -> Nat], NEW B \in Nat,
           \A i \in Server : match[i] <= B
    PROVE  LET k == MajorityCommittedIndex(d, match)
           IN  /\ k \in Nat
               /\ \A n \in Nat : n <= k =>
                    MajorityVoteResult(d, {i \in Server : match[i] >= n}, {}) = "VoteWon"
<1> DEFINE At(n) == {i \in d : match[i] >= n}
           S == {k \in {match[i] : i \in d} : Cardinality(At(k)) >= MajoritySize(d)}
           k == MajorityCommittedIndex(d, match)
<1>1. CASE d = {}
  BY <1>1, MaxIndexAssumption DEF MajorityCommittedIndex, MajorityVoteResult
<1>2. CASE d # {}
  <2>1. IsFiniteSet(d) /\ Cardinality(d) \in Nat /\ Cardinality(d) # 0
    <3>1. IsFiniteSet(d)
      BY CoreAssumption, FS_Subset
    <3>2. QED BY <1>2, <3>1, FS_CardinalityType, FS_EmptySet
  <2>2. S \in SUBSET (0..B)
    OBVIOUS
  <2>3. S # {}
    <3> DEFINE M == {match[i] : i \in d}
    <3>1. M \in SUBSET Nat /\ M # {}
      BY <1>2
    <3>2. Min(M) \in M /\ \A y \in M : Min(M) <= y
      <4> HIDE DEF M
      <4>1. QED BY <3>1, LeastOf
    <3>3. At(Min(M)) = d
      BY <3>1, <3>2
    <3>4. Cardinality(d) >= MajoritySize(d)
      BY <2>1 DEF MajoritySize
    <3>5. Min(M) \in S
      BY <3>2, <3>3, <3>4
    <3>6. QED BY <3>5
  <2>4. k = Max(S)
    BY <1>2 DEF MajorityCommittedIndex
  <2>5. Max(S) \in S
    <3> HIDE DEF S
    <3>1. QED BY <2>2, <2>3, GreatestOf
  <2>6. k \in Nat /\ Cardinality(At(k)) >= MajoritySize(d)
    BY <2>2, <2>4, <2>5
  <2> HIDE DEF k
  <2>7. ASSUME NEW n \in Nat, n <= k
        PROVE  MajorityVoteResult(d, {i \in Server : match[i] >= n}, {}) = "VoteWon"
    <3> DEFINE Y == {i \in Server : match[i] >= n}
    <3>1. At(k) \subseteq d \cap Y
      BY <2>6, <2>7
    <3>2. IsFiniteSet(d \cap Y)
      BY <2>1, FS_Intersection
    <3>3. /\ Cardinality(At(k)) <= Cardinality(d \cap Y)
          /\ Cardinality(At(k)) \in Nat /\ Cardinality(d \cap Y) \in Nat
      <4> HIDE DEF At, Y
      <4>1. QED BY <3>1, <3>2, FS_Subset, FS_CardinalityType
    <3>4. Cardinality(d \cap Y) >= MajoritySize(d)
      BY <2>1, <2>6, <3>3 DEF MajoritySize
    <3> HIDE DEF Y
    <3>5. MajorityVoteResult(d, Y, {}) = "VoteWon"
      BY <3>4 DEF MajorityVoteResult
    <3>6. QED BY <3>5 DEF Y
  <2>8. QED BY <2>6, <2>7 DEF k
<1>3. QED BY <1>1, <1>2

\* The index that JointConfig.CommittedIndex returns was reached by a set of
\* voters that wins elections.
LEMMA CommittedIsReached ==
    ASSUME NEW s \in Server, NEW match \in [Server -> Nat], NEW B \in Nat,
           \A i \in Server : match[i] <= B
    PROVE  LET mci == JointCommittedIndex(Voters[s], match)
           IN  mci \in Nat /\ Wins(s, {i \in Server : match[i] >= mci})
<1> DEFINE c == Voters[s]
           a == MajorityCommittedIndex(c[1], match)
           b == MajorityCommittedIndex(c[2], match)
           mci == JointCommittedIndex(c, match)
           Y == {i \in Server : match[i] >= mci}
<1>1. c[1] \in SUBSET Server /\ c[2] \in SUBSET Server
  BY CoreAssumption DEF JointConfig
<1>2. a \in Nat /\ b \in Nat
  BY <1>1, MajorityReached
<1>3. mci \in Nat /\ mci <= a /\ mci <= b
  <2>1. mci = Min({a, b})
    BY DEF JointCommittedIndex
  <2> HIDE DEF a, b, mci
  <2>2. QED BY <1>2, <2>1, MinOfTwo
<1>4. MajorityVoteResult(c[1], Y, {}) = "VoteWon" /\ MajorityVoteResult(c[2], Y, {}) = "VoteWon"
  <2> HIDE DEF mci
  <2>1. QED BY <1>1, <1>3, MajorityReached
<1>5. Wins(s, Y)
  <2> HIDE DEF Y
  <2>1. QED BY <1>4 DEF Wins, JointVoteResult
<1>6. QED BY <1>3, <1>5

-----------------------------------------------------------------------------
\* raftLog.maybeAppend

\* Where x and l have entries of one term, they agree up to there.
Akin(x, l) ==
    \A i \in 1..Len(x) : i <= Len(l) /\ x[i].term = l[i].term => Agrees(x, l, i)

\* A log that is sound has no entry of term 0, which is what termAt says of
\* an index outside of it.
LEMMA TermAtFacts ==
    ASSUME NEW x \in Seq(Entry), NEW i \in Int
    PROVE  /\ termAt(x, i) \in Nat
           /\ termAt(x, i) # 0 => i \in 1..Len(x)
           /\ i \in 1..Len(x) => termAt(x, i) = x[i].term
<1>1. i \in 1..Len(x) => x[i] \in Entry
  BY ElementOfSeq
<1>2. QED BY <1>1 DEF termAt, Entry

\* Agreement reaches down.
LEMMA AgreesLess ==
    ASSUME NEW x, NEW y, NEW i \in Int, NEW j \in Int, Agrees(x, y, i), j <= i,
           Len(x) \in Nat, Len(y) \in Nat
    PROVE  Agrees(x, y, j)
BY DEF Agrees

\* Two logs whose entries stand in the logs of their leaders are akin.
LEMMA MatchesAkin ==
    ASSUME NEW L \in [Nat -> Seq(Entry)], NEW x \in Seq(Entry), NEW y \in Seq(Entry),
           Matches(x, L), Matches(y, L)
    PROVE  Akin(x, y)
<1> SUFFICES ASSUME NEW i \in 1..Len(x), i <= Len(y), x[i].term = y[i].term
             PROVE  Agrees(x, y, i)
  BY DEF Akin
<1>1. Len(x) \in Nat /\ Len(y) \in Nat
  BY LenProperties
<1>2. i \in 1..Len(y)
  BY <1>1
<1> DEFINE l == L[x[i].term]
<1>3. Agrees(x, l, i) /\ Agrees(y, l, i)
  BY <1>2 DEF Matches
<1> HIDE DEF l
<1>4. QED BY <1>1, <1>3 DEF Agrees

\* A part of a sequence.
LEMMA PartOf ==
    ASSUME NEW S, NEW x \in Seq(S), NEW a \in Nat, a # 0, NEW b \in Int, a - 1 <= b, b <= Len(x)
    PROVE  LET y == SubSeq(x, a, b)
           IN  /\ y \in Seq(S) /\ Len(y) = b - a + 1
               /\ \A i \in 1..(b - a + 1) : y[i] = x[a + i - 1]
<1> DEFINE y == SubSeq(x, a, b)
           n == b - a + 1
<1>1. Len(x) \in Nat /\ a \in Int
  BY LenProperties
<1>2. \A i \in a..b : x[i] \in S
  <2>1. \A i \in a..b : i \in 1..Len(x)
    BY <1>1
  <2>2. QED BY <2>1, ElementOfSeq
<1>3. y \in Seq(S) /\ Len(y) = (IF a <= b THEN n ELSE 0) /\ \A i \in 1..n : y[i] = x[a + i - 1]
  BY <1>1, <1>2, SubSeqProperties
<1>4. (IF a <= b THEN n ELSE 0) = n
  BY <1>1
<1> HIDE DEF y
<1>5. QED BY <1>3, <1>4 DEF y

\* What maybeAppend leaves in the log x when it takes the entries of m, which
\* carries a part of the leader's log l: agreement with l up to the last new entry,
\* and nothing lost that agreed with l before.
LEMMA AppendCopies ==
    ASSUME NEW x \in Seq(Entry), NEW l \in Seq(Entry), Akin(x, l),
           \A i \in 1..Len(l) : l[i].term # 0,
           NEW index \in Nat, NEW ents \in Seq(Entry),
           index + Len(ents) <= Len(l),
           \A j \in 1..Len(ents) : ents[j] = l[index + j],
           termAt(x, index) = termAt(l, index)
    PROVE  LET k == findConflict(x, index, ents)
               n == index + Len(ents)
               y == IF k = 0 THEN x
                    ELSE SubSeq(x, 1, index + k - 1) \o SubSeq(ents, k, Len(ents))
           IN  /\ k \in Nat /\ n \in Nat
               /\ y \in Seq(Entry) /\ Agrees(y, l, n)
               /\ y = x \/ Len(y) = n
               /\ \A i \in Nat : Agrees(x, l, i) => Agrees(y, l, i)
               /\ k # 0 => ~Agrees(x, l, index + k)
<1> DEFINE N == Len(ents)
           k == findConflict(x, index, ents)
           n == index + N
           bad == {j \in 1..N : termAt(x, index + j) # ents[j].term}
<1>1. /\ Len(x) \in Nat /\ Len(l) \in Nat /\ N \in Nat /\ index \in Nat /\ n \in Nat
      /\ n <= Len(l) /\ \A j \in 1..N : ents[j] = l[index + j]
  BY LenProperties
<1>2. ASSUME NEW i \in 1..Len(l), termAt(x, i) = l[i].term
      PROVE  Agrees(x, l, i)
  <2>0. i \in Int /\ termAt(x, i) # 0
    BY <1>1, <1>2
  <2>1. i \in 1..Len(x) /\ x[i].term = l[i].term
    BY <1>2, <2>0, TermAtFacts
  <2>2. QED BY <1>1, <2>1 DEF Akin
<1>3. Agrees(x, l, index)
  <2>1. CASE index = 0
    BY <1>1, <2>1 DEF Agrees
  <2>2. CASE index # 0
    <3>1. index \in 1..Len(l)
      BY <1>1, <2>2
    <3>2. termAt(x, index) = l[index].term
      BY <3>1 DEF termAt
    <3>3. QED BY <1>2, <3>1, <3>2
  <2>3. QED BY <2>1, <2>2
<1>4. k = IF bad = {} THEN 0 ELSE Min(bad)
  BY DEF findConflict, matchTerm
<1>5. bad # {} => Min(bad) \in bad /\ \A j \in bad : Min(bad) <= j
  <2>1. bad \in SUBSET Nat
    BY <1>1
  <2> HIDE DEF bad
  <2>2. QED BY <2>1, LeastOf
<1>6. ASSUME NEW j \in 1..N, termAt(x, index + j) = ents[j].term
      PROVE  Agrees(x, l, index + j)
  <2>1. index + j \in 1..Len(l) /\ termAt(x, index + j) = l[index + j].term
    BY <1>1, <1>6
  <2>2. QED BY <1>2, <2>1
<1>7. CASE bad = {}
  <2>1. k = 0
    BY <1>4, <1>7
  <2>2. Agrees(x, l, n)
    <3>1. CASE N = 0
      BY <1>1, <1>3, <3>1
    <3>2. CASE N # 0
      <4>1. N \in 1..N
        BY <1>1, <3>2
      <4>2. termAt(x, index + N) = ents[N].term
        BY <1>7, <4>1
      <4>3. QED BY <1>6, <4>1, <4>2
    <3>3. QED BY <3>1, <3>2
  <2>3. QED BY <1>1, <2>1, <2>2
<1>8. CASE bad # {}
  <2>1. /\ k \in 1..N /\ k # 0 /\ termAt(x, index + k) # ents[k].term
        /\ \A j \in 1..N : j < k => termAt(x, index + j) = ents[j].term
    <3>1. k \in bad /\ \A j \in bad : k <= j
      BY <1>4, <1>5, <1>8
    <3>2. k \in 1..N /\ k # 0 /\ termAt(x, index + k) # ents[k].term
      BY <1>1, <3>1
    <3> HIDE DEF k
    <3>3. ASSUME NEW j \in 1..N, j < k PROVE termAt(x, index + j) = ents[j].term
      <4>1. ~(k <= j)
        BY <1>1, <3>2, <3>3
      <4>2. j \notin bad
        BY <3>1, <4>1
      <4>3. QED BY <4>2
    <3>4. QED BY <3>2, <3>3
  <2> HIDE DEF k, bad
  <2>2. Agrees(x, l, index + k - 1)
    <3>1. CASE k = 1
      BY <1>1, <1>3, <3>1
    <3>2. CASE k # 1
      <4> DEFINE j == k - 1
      <4>1. j \in 1..N /\ j < k /\ index + j = index + k - 1
        BY <1>1, <2>1, <3>2
      <4>2. Agrees(x, l, index + j)
        BY <1>6, <2>1, <4>1
      <4>3. QED BY <4>1, <4>2
    <3>3. QED BY <3>1, <3>2
  <2> DEFINE a == SubSeq(x, 1, index + k - 1)
             b == SubSeq(ents, k, N)
             y == a \o b
  <2>3. /\ a \in Seq(Entry) /\ Len(a) = index + k - 1
        /\ \A i \in 1..(index + k - 1) : a[i] = x[i]
    <3>1. index + k - 1 \in Nat /\ index + k - 1 <= Len(x)
      BY <1>1, <2>1, <2>2 DEF Agrees
    <3> DEFINE c == index + k - 1
    <3>2. c \in Int /\ 0 <= c /\ c <= Len(x) /\ 1 \in Nat
      BY <3>1
    <3> HIDE DEF c
    <3>3. /\ SubSeq(x, 1, c) \in Seq(Entry) /\ Len(SubSeq(x, 1, c)) = c - 1 + 1
          /\ \A i \in 1..(c - 1 + 1) : SubSeq(x, 1, c)[i] = x[1 + i - 1]
      BY <3>2, PartOf
    <3> DEFINE p == SubSeq(x, 1, c)
    <3> HIDE DEF p
    <3>4. p \in Seq(Entry) /\ Len(p) = c /\ \A i \in 1..c : p[i] = x[i]
      BY <3>2, <3>3 DEF p
    <3>5. QED BY <3>4 DEF p, c
  <2>4. /\ b \in Seq(Entry) /\ Len(b) = N - k + 1
        /\ \A i \in 1..(N - k + 1) : b[i] = ents[k + i - 1]
    <3>1. k \in Nat /\ k # 0 /\ N \in Int /\ k - 1 <= N /\ N <= Len(ents)
      BY <1>1, <2>1
    <3>2. QED BY <1>1, <3>1, PartOf
  <2>5. /\ y \in Seq(Entry) /\ Len(y) = n
        /\ \A i \in 1..n : y[i] = IF i <= index + k - 1 THEN x[i] ELSE b[i - (index + k - 1)]
    <3> HIDE DEF a, b
    <3>1. Len(a) + Len(b) = n
      BY <1>1, <2>1, <2>3, <2>4
    <3>2. /\ y \in Seq(Entry) /\ Len(y) = Len(a) + Len(b)
          /\ \A i \in 1..(Len(a) + Len(b)) :
                y[i] = IF i <= Len(a) THEN a[i] ELSE b[i - Len(a)]
      <4>1. a \in Seq(Entry) /\ b \in Seq(Entry)
        BY <2>3, <2>4
      <4>2. QED BY <4>1, ConcatProperties
    <3> HIDE DEF y, n
    <3>3. ASSUME NEW i \in 1..n
          PROVE  y[i] = IF i <= index + k - 1 THEN x[i] ELSE b[i - (index + k - 1)]
      <4>1. y[i] = IF i <= Len(a) THEN a[i] ELSE b[i - Len(a)]
        BY <3>1, <3>2
      <4>2. i <= index + k - 1 => i \in 1..(index + k - 1)
        BY <1>1, <2>1
      <4>3. QED BY <2>3, <4>1, <4>2
    <3>4. QED BY <3>1, <3>2, <3>3
  <2> HIDE DEF a, y
  <2>6. ASSUME NEW i \in 1..n PROVE y[i] = l[i]
    <3>1. CASE i <= index + k - 1
      <4>1. i \in 1..(index + k - 1)
        BY <1>1, <2>1, <3>1
      <4>2. x[i] = l[i]
        BY <2>2, <4>1 DEF Agrees
      <4>3. QED BY <2>5, <3>1, <4>2
    <3>2. CASE ~(i <= index + k - 1)
      <4> DEFINE d == i - (index + k - 1)
      <4>1. d \in 1..(N - k + 1) /\ k + d - 1 \in 1..N /\ index + (k + d - 1) = i
        <5>1. i \in Int /\ k \in Int /\ 1 <= k /\ k <= N /\ i <= index + N /\ i > index + k - 1
          BY <1>1, <2>1, <3>2
        <5>2. N \in Int /\ index \in Int
          BY <1>1
        <5> HIDE DEF N
        <5>3. d \in Int /\ 1 <= d /\ d <= N - k + 1
          BY <5>1, <5>2
        <5>4. QED BY <5>1, <5>2, <5>3
      <4>2. y[i] = b[d]
        BY <2>5, <3>2
      <4>3. b[d] = ents[k + d - 1]
        BY <2>4, <4>1
      <4>4. ents[k + d - 1] = l[index + (k + d - 1)]
        BY <1>1, <4>1
      <4>5. QED BY <4>1, <4>2, <4>3, <4>4
    <3>3. QED BY <3>1, <3>2
  <2>7. Agrees(y, l, n)
    BY <1>1, <2>5, <2>6 DEF Agrees
  <2>8. ~Agrees(x, l, index + k)
    <3>1. SUFFICES ASSUME Agrees(x, l, index + k) PROVE FALSE
      OBVIOUS
    <3>2. index + k \in 1..Len(x) /\ x[index + k] = l[index + k] /\ ents[k] = l[index + k]
      BY <1>1, <2>1, <3>1 DEF Agrees
    <3>3. termAt(x, index + k) = x[index + k].term
      BY <3>2, TermAtFacts
    <3>4. QED BY <2>1, <3>2, <3>3
  <2>9. ASSUME NEW i \in Nat, Agrees(x, l, i) PROVE Agrees(y, l, i)
    <3>1. i <= n
      <4>1. SUFFICES ASSUME i > n PROVE FALSE
        BY <1>1
      <4>2. index + k <= i
        BY <1>1, <2>1, <4>1
      <4>3. Agrees(x, l, index + k)
        BY <1>1, <2>1, <2>9, <4>2, AgreesLess
      <4>4. QED BY <2>8, <4>3
    <3>2. QED BY <1>1, <2>5, <2>7, <3>1, AgreesLess
  <2>10. k \in Nat /\ (k # 0 => ~Agrees(x, l, index + k))
    BY <1>1, <2>1, <2>8
  <2>11. y = SubSeq(x, 1, index + k - 1) \o SubSeq(ents, k, N)
    BY DEF y, a
  <2> HIDE DEF b
  <2>12. QED BY <1>1, <2>1, <2>5, <2>7, <2>9, <2>10, <2>11 DEF k
<1>9. QED BY <1>7, <1>8

-----------------------------------------------------------------------------
\* Nodes and their messages

\* A node with all fields of their type, but for its outbox.
Typed(r) ==
    /\ Raft(r)
    /\ r.Vote \in Server \cup {None} /\ r.log \in Seq(Entry) /\ r.committed \in Nat
    /\ r.elapsed \in BOOLEAN /\ r.panic \in BOOLEAN
    /\ r.yes \in SUBSET Server /\ r.no \in SUBSET Server
    /\ r.prs \in [Server -> Progress]

\* A is the set of pairs of a server and an index that it acknowledged to the
\* leader of the term.
Reaches(A, i, n) == \E k \in Nat : k >= n /\ <<i, k>> \in A

\* The progress pr that r keeps of i is within r's log, and acknowledged.
Fits(r, i, pr, A) ==
    /\ pr.Match <= Len(r.log) /\ 1 <= pr.Next /\ pr.Next <= Len(r.log) + 1
    /\ pr.Match = 0 \/ i = r.id \/ <<i, pr.Match>> \in A

Tracks(r, A) == \A i \in Server : Fits(r, i, r.prs[i], A)

\* An acknowledgement of entries.
Ack(n) == n.type = "MsgAppResp" /\ ~n.reject /\ n.index # 0

\* What a message in the outbox of q tells of q's log and its role, acknowledgements
\* and votes given apart.
Says(n, q, A) ==
    /\ n \in Message /\ n.from = q.id /\ (n.type # "MsgProp" => n.to # q.id)
    /\ ~Grant(n) /\ ~Ack(n)
    /\ n.type \in {"MsgApp", "MsgHeartbeat"} =>
            q.state = Leader /\ n.term = q.Term /\ n.commit <= q.committed
    /\ n.type = "MsgApp" => Carries(n, q.log)
    /\ n.type = "MsgHeartbeat" => n.commit = 0 \/ Reaches(A, n.to, n.commit)
    /\ n.type = "MsgVote" => /\ q.state = Candidate /\ n.term = q.Term
                             /\ n.index = Len(q.log) /\ n.logTerm = LastTerm(q.log)
    /\ n.type \in {"MsgPreVote", "MsgAppResp"} => n.term # 0
    /\ n.type = "MsgTransferLeader" =>
            q.state = Follower /\ q.lead = n.to /\ n.term = q.Term
    /\ n.type = "MsgProp" => Len(n.entries) = 1

\* A leader in the middle of a step.
Leading(q, A) ==
    /\ Typed(q) /\ ~q.panic /\ q.state = Leader /\ Tracks(q, A)
    /\ \A n \in q.msgs : Says(n, q, A)

\* The commit index of the leader q is that of an entry of its term which a set of
\* voters acknowledged that wins elections.
Counted(q, A) ==
    /\ q.committed \in 1..Len(q.log) /\ q.log[q.committed].term = q.Term
    /\ \E Q \in SUBSET Server :
            Wins(q.id, Q) /\ \A v \in Q : v = q.id \/ Reaches(A, v, q.committed)

\* The leader r sends, commits and keeps track of its peers.
Pushes(r, q, A) ==
    /\ Leading(q, A)
    /\ q.id = r.id /\ q.Term = r.Term /\ q.log = r.log
    /\ q.committed >= r.committed
    /\ q.committed = r.committed \/ Counted(q, A)

\* q differs from r in its progress map, its transferee and its outbox.
Kept(r, q) ==
    /\ Shaped(q, RaftFields)
    /\ q.id = r.id /\ q.Term = r.Term /\ q.Vote = r.Vote /\ q.state = r.state
    /\ q.lead = r.lead /\ q.log = r.log /\ q.committed = r.committed
    /\ q.elapsed = r.elapsed /\ q.yes = r.yes /\ q.no = r.no /\ q.panic = r.panic

\* What a leader says stays true while it only commits more.
LEMMA SaysOn ==
    ASSUME NEW r, NEW q, NEW A, NEW n, Says(n, r, A), Typed(r), Typed(q),
           q.id = r.id, q.Term = r.Term, q.state = r.state, q.lead = r.lead,
           q.log = r.log, q.committed >= r.committed
    PROVE  Says(n, q, A)
<1>1. n.commit <= r.committed => n.commit <= q.committed
  BY DEF Says, Typed, Message
<1>2. QED BY <1>1 DEF Says

\* Steps of a leader compose.
LEMMA PushesOn ==
    ASSUME NEW r, NEW q, NEW p, NEW A, Typed(r), Pushes(r, q, A), Pushes(q, p, A)
    PROVE  Pushes(r, p, A)
<1>1. r.committed \in Nat /\ q.committed \in Nat /\ p.committed \in Nat
  BY DEF Typed, Pushes, Leading
<1>2. p.committed >= r.committed
  BY <1>1 DEF Pushes
<1>3. p.committed = r.committed \/ Counted(p, A)
  BY <1>1 DEF Pushes, Counted
<1>4. QED BY <1>2, <1>3 DEF Pushes

\* A leader that changes nothing but its transferee, its outbox by what it may
\* say, and its progress map by what was acknowledged, pushes.
LEMMA KeptPushes ==
    ASSUME NEW r, NEW q, NEW A, NEW new, Leading(r, A), Kept(r, q),
           q.msgs = r.msgs \cup new, \A n \in new : Says(n, r, A),
           q.leadTransferee \in Server \cup {None},
           q.prs \in [Server -> Progress],
           \A i \in Server : Fits(r, i, q.prs[i], A)
    PROVE  Pushes(r, q, A)
<1>1. Typed(r) /\ Typed(q)
  BY DEF Leading, Kept, Typed, Raft
<1>2. \A n \in q.msgs : Says(n, r, A)
  BY DEF Leading
<1>3. r.committed \in Nat /\ q.committed >= r.committed
  BY <1>1 DEF Typed, Kept
<1>4. \A n \in q.msgs : Says(n, q, A)
  BY <1>1, <1>2, <1>3, SaysOn DEF Kept
<1>5. Tracks(q, A)
  BY DEF Tracks, Fits, Kept
<1>6. QED BY <1>1, <1>3, <1>4, <1>5 DEF Pushes, Leading, Kept

\* A message with all fields of their type, but for its sender.
Draft(m) ==
    /\ Shaped(m, MsgFields)
    /\ m.type \in MessageTypes /\ m.to \in Server /\ m.term \in Nat /\ m.logTerm \in Nat
    /\ m.index \in Nat /\ m.entries \in Seq(Entry) /\ m.commit \in Nat
    /\ m.reject \in BOOLEAN /\ m.rejectHint \in Nat /\ m.force \in BOOLEAN

\* raft.send fills in the sender and its term.
LEMMA StampedMessage ==
    ASSUME NEW r, Raft(r), NEW m, Draft(m)
    PROVE  LET n == Stamped(r, m)
           IN  /\ n \in Message /\ n.from = r.id
               /\ n.type = m.type /\ n.to = m.to /\ n.logTerm = m.logTerm
               /\ n.index = m.index /\ n.entries = m.entries /\ n.commit = m.commit
               /\ n.reject = m.reject /\ n.rejectHint = m.rejectHint /\ n.force = m.force
               /\ n.term = IF m.type \in VoteMessageTypes THEN m.term
                           ELSE IF m.type = "MsgProp" THEN 0 ELSE r.Term
<1> DEFINE n == Stamped(r, m)
<1>1. /\ Shaped(n, MsgFields) /\ n.from = r.id
      /\ n.type = m.type /\ n.to = m.to /\ n.logTerm = m.logTerm
      /\ n.index = m.index /\ n.entries = m.entries /\ n.commit = m.commit
      /\ n.reject = m.reject /\ n.rejectHint = m.rejectHint /\ n.force = m.force
      /\ n.term = IF m.type \in VoteMessageTypes THEN m.term
                  ELSE IF m.type = "MsgProp" THEN 0 ELSE r.Term
  BY DEF Stamped, Draft, Shaped, MsgFields
<1> HIDE DEF n
<1>2. n \in Message
  <2>1. /\ n.type \in MessageTypes /\ n.from \in Server /\ n.to \in Server /\ n.term \in Nat
        /\ n.logTerm \in Nat /\ n.index \in Nat /\ n.entries \in Seq(Entry) /\ n.commit \in Nat
        /\ n.reject \in BOOLEAN /\ n.rejectHint \in Nat /\ n.force \in BOOLEAN
    BY <1>1 DEF Draft, Raft
  <2>2. n = [f \in MsgFields |-> n[f]]
    BY <1>1 DEF Shaped
  <2>3. QED BY <2>1, <2>2 DEF Message, MsgFields
<1>3. QED BY <1>1, <1>2 DEF n

\* A message without fields of its own.
LEMMA PlainDraft ==
    ASSUME NEW type \in MessageTypes, NEW i \in Server
    PROVE  Draft(Msg(type, i)) /\ Msg(type, i).type = type /\ Msg(type, i).to = i
           /\ Msg(type, i).term = 0 /\ Msg(type, i).index = 0 /\ Msg(type, i).reject = FALSE
<1>1. <<>> \in Seq(Entry)
  BY EmptySeq
<1>2. QED BY <1>1 DEF Draft, Msg, Shaped, MsgFields

\* Such a message may be sent by anybody.
LEMMA SaysPlain ==
    ASSUME NEW r, Raft(r), NEW A, NEW m, Draft(m), m.to # r.id,
           m.type \in {"MsgHeartbeatResp", "MsgProbeRtt", "MsgProbeRttResp", "MsgTimeoutNow",
                       "MsgPreVoteResp"}
    PROVE  Says(Stamped(r, m), r, A)
<1> DEFINE n == Stamped(r, m)
<1>1. n \in Message /\ n.from = r.id /\ n.to = m.to /\ n.type = m.type
  BY StampedMessage
<1> HIDE DEF n
<1>2. Says(n, r, A)
  BY <1>1 DEF Says, Grant, Ack
<1>3. QED BY <1>2 DEF n

\* A batch ends within the log, and is not empty unless there is nothing to send
\* (limitSize).
LEMMA BatchEndFacts ==
    ASSUME NEW r, r.log \in Seq(Entry), NEW next \in 1..(Len(r.log) + 1)
    PROVE  /\ BatchEnd(r, next) \in Nat
           /\ next - 1 <= BatchEnd(r, next) /\ BatchEnd(r, next) <= Len(r.log)
<1>1. Len(r.log) \in Nat /\ MaxBatch \in Nat /\ MaxBatch # 0 /\ next \in Nat /\ next # 0
  BY LenProperties, CoreAssumption
<1> DEFINE a == Len(r.log)
           b == next + MaxBatch - 1
<1>2. a \in Int /\ b \in Int /\ next - 1 <= a /\ next - 1 <= b /\ b \in Nat
  BY <1>1
<1>3. BatchEnd(r, next) = Min({a, b})
  BY DEF BatchEnd, lastIndex
<1> HIDE DEF a, b
<1>4. Min({a, b}) = IF a <= b THEN a ELSE b
  BY <1>2, MinOfTwo
<1>5. a = Len(r.log)
  BY DEF a
<1>6. QED BY <1>1, <1>2, <1>3, <1>4, <1>5

\* A MsgApp that a leader sends to a peer carries a part of its log.
LEMMA SaysAppend ==
    ASSUME NEW r, Typed(r), r.state = Leader, NEW A, NEW i \in Server, i # r.id,
           NEW next \in 1..(Len(r.log) + 1)
    PROVE  Says(Stamped(r, AppendMessage(r, i, next)), r, A)
<1> DEFINE e == BatchEnd(r, next)
           m == AppendMessage(r, i, next)
           log == r.log
           ents == SubSeq(log, next, e)
<1>1. /\ log \in Seq(Entry) /\ Len(log) \in Nat /\ r.committed \in Nat /\ Raft(r)
      /\ next \in Nat /\ next # 0 /\ next - 1 \in Nat
  BY LenProperties DEF Typed
<1>2. e \in Nat /\ next - 1 <= e /\ e <= Len(log)
  BY <1>1, BatchEndFacts
<1> HIDE DEF log, e
<1>3. /\ ents \in Seq(Entry) /\ Len(ents) = e - next + 1
      /\ \A k \in 1..(e - next + 1) : ents[k] = log[next + k - 1]
  <2>1. e \in Int
    BY <1>2
  <2>2. QED BY <1>1, <1>2, <2>1, PartOf
<1>4. /\ Shaped(m, MsgFields) /\ m.type = "MsgApp" /\ m.to = i /\ m.term = 0
      /\ m.index = next - 1 /\ m.logTerm = termAt(log, next - 1) /\ m.entries = ents
      /\ m.commit = r.committed /\ m.reject = FALSE /\ m.rejectHint = 0 /\ m.force = FALSE
  BY DEF AppendMessage, Msg, Shaped, MsgFields, log, e
<1> HIDE DEF m, ents
<1>5. termAt(log, next - 1) \in Nat
  <2>1. next - 1 \in Int /\ log \in Seq(Entry)
    BY <1>1
  <2>2. QED BY <2>1, TermAtFacts
<1>6. Draft(m)
  <2>1. /\ m.to \in Server /\ m.term \in Nat /\ m.index \in Nat /\ m.commit \in Nat
        /\ m.rejectHint \in Nat
    BY <1>1, <1>4
  <2>2. m.logTerm \in Nat /\ m.entries \in Seq(Entry) /\ m.reject \in BOOLEAN /\ m.force \in BOOLEAN
    BY <1>3, <1>4, <1>5
  <2>3. m.type \in MessageTypes
    BY <1>4 DEF MessageTypes
  <2>4. QED BY <1>4, <2>1, <2>2, <2>3 DEF Draft
<1> DEFINE n == Stamped(r, m)
<1>7. /\ n \in Message /\ n.from = r.id /\ n.to = i /\ n.type = "MsgApp" /\ n.term = r.Term
      /\ n.index = next - 1 /\ n.logTerm = termAt(log, next - 1) /\ n.entries = ents
      /\ n.commit = r.committed
  BY <1>1, <1>4, <1>6, StampedMessage DEF VoteMessageTypes
<1> HIDE DEF n
<1>8. Carries(n, log)
  <2>1. n.index + Len(n.entries) <= Len(log)
    BY <1>1, <1>2, <1>3, <1>7
  <2>2. \A k \in 1..Len(n.entries) : n.entries[k] = log[n.index + k]
    <3>1. SUFFICES ASSUME NEW k \in 1..(e - next + 1) PROVE ents[k] = log[next - 1 + k]
      BY <1>3, <1>7
    <3>2. next + k - 1 = next - 1 + k
      BY <1>1, <1>2
    <3>3. QED BY <1>3, <3>2
  <2>3. QED BY <1>7, <2>1, <2>2 DEF Carries
<1>9. Says(n, r, A)
  BY <1>1, <1>7, <1>8 DEF Says, Grant, Ack, log
<1>10. QED BY <1>9 DEF n, m

\* Sending a MsgApp moves Next within the log.
LEMMA AfterAppendFits ==
    ASSUME NEW r, Typed(r), NEW A, NEW i \in Server, NEW pr \in Progress, Fits(r, i, pr, A)
    PROVE  AfterAppend(r, pr) \in Progress /\ Fits(r, i, AfterAppend(r, pr), A)
<1>1. /\ Len(r.log) \in Nat /\ r.log \in Seq(Entry)
      /\ pr.Next \in Nat /\ pr.Next \in 1..(Len(r.log) + 1)
  <2>1. r.log \in Seq(Entry) /\ Len(r.log) \in Nat
    BY LenProperties DEF Typed
  <2>2. pr.Next \in Nat
    BY DEF Progress
  <2>3. QED BY <2>1, <2>2 DEF Fits
<1> DEFINE e == BatchEnd(r, pr.Next)
<1>2. e \in Nat /\ e <= Len(r.log)
  BY <1>1, BatchEndFacts
<1>3. AfterAppend(r, pr) = IF pr.Next > Len(r.log) THEN pr
        ELSE IF pr.State = "StateReplicate" THEN [pr EXCEPT !.Next = e + 1]
        ELSE [pr EXCEPT !.ProbeSent = TRUE]
  BY DEF AfterAppend, lastIndex
<1> HIDE DEF e
<1>4. ASSUME NEW pr2 \in {[pr EXCEPT !.Next = e + 1], [pr EXCEPT !.ProbeSent = TRUE]}
      PROVE  pr2 \in Progress /\ pr2.Match = pr.Match /\ pr2.Next \in {e + 1, pr.Next}
  <2>1. e + 1 \in Nat
    BY <1>2
  <2>2. QED BY <2>1 DEF Progress
<1>5. AfterAppend(r, pr) \in Progress /\ AfterAppend(r, pr).Match = pr.Match
      /\ AfterAppend(r, pr).Next \in {e + 1, pr.Next}
  BY <1>3, <1>4
<1>6. \A k \in {e + 1, pr.Next} : 1 <= k /\ k <= Len(r.log) + 1
  BY <1>1, <1>2
<1>7. QED BY <1>5, <1>6 DEF Fits

\* maybeSendAppend to peers pushes.
LEMMA SendAppendPushes ==
    ASSUME NEW r, NEW A, Leading(r, A), NEW P \in SUBSET Server, r.id \notin P, NEW e
    PROVE  Pushes(r, maybeSendAppend(r, P, e), A)
<1> DEFINE T == {i \in P : ~IsPaused(r.prs[i]) /\ (e \/ r.prs[i].Next <= lastIndex(r))}
           q == maybeSendAppend(r, P, e)
           new == {Stamped(r, AppendMessage(r, i, r.prs[i].Next)) : i \in T}
<1>1. Typed(r) /\ r.state = Leader /\ Tracks(r, A) /\ r.prs \in [Server -> Progress]
      /\ Shaped(r, RaftFields) /\ r.leadTransferee \in Server \cup {None}
  BY DEF Leading, Typed, Raft
<1>2. /\ Kept(r, q) /\ q.msgs = r.msgs \cup new
      /\ q.leadTransferee = r.leadTransferee
      /\ q.prs = [i \in Server |-> IF i \in T THEN AfterAppend(r, r.prs[i]) ELSE r.prs[i]]
  BY <1>1 DEF maybeSendAppend, Kept, Shaped, RaftFields
<1>3. \A n \in new : Says(n, r, A)
  <2>1. SUFFICES ASSUME NEW i \in T
                 PROVE  Says(Stamped(r, AppendMessage(r, i, r.prs[i].Next)), r, A)
    OBVIOUS
  <2>2. i \in Server /\ i # r.id
    OBVIOUS
  <2>3. r.prs[i].Next \in 1..(Len(r.log) + 1)
    <3>1. r.prs[i] \in Progress /\ r.log \in Seq(Entry)
      BY <1>1, <2>2 DEF Typed
    <3>2. r.prs[i].Next \in Nat /\ Len(r.log) \in Nat
      BY <3>1, LenProperties DEF Progress
    <3>3. 1 <= r.prs[i].Next /\ r.prs[i].Next <= Len(r.log) + 1
      BY <1>1, <2>2 DEF Tracks, Fits
    <3>4. QED BY <3>2, <3>3
  <2>4. QED BY <1>1, <2>2, <2>3, SaysAppend
<1> HIDE DEF T, q, new
<1>4. \A i \in Server : q.prs[i] \in Progress /\ Fits(r, i, q.prs[i], A)
  BY <1>1, <1>2, AfterAppendFits DEF Tracks
<1>5. q.prs \in [Server -> Progress]
  BY <1>2, <1>4
<1>6. Pushes(r, q, A)
  BY <1>1, <1>2, <1>3, <1>4, <1>5, KeptPushes
<1>7. QED BY <1>6 DEF q

\* So does sending everything that is left to send.
LEMMA SendRestPushes ==
    ASSUME NEW r, NEW A, Leading(r, A), NEW i \in Server, i # r.id
    PROVE  Pushes(r, sendRest(r, i), A)
<1> DEFINE next == r.prs[i].Next
           rest == {k \in next..lastIndex(r) : (k - next) % MaxBatch = 0}
           new == {Stamped(r, AppendMessage(r, i, k)) : k \in rest}
           q == [r EXCEPT !.prs[i].Next = lastIndex(r) + 1, !.msgs = @ \cup new]
<1>1. sendRest(r, i) \in {maybeSendAppend(r, {i}, FALSE), q}
  BY DEF sendRest
<1>2. Pushes(r, maybeSendAppend(r, {i}, FALSE), A)
  <2>1. {i} \in SUBSET Server /\ r.id \notin {i}
    OBVIOUS
  <2>2. QED BY <2>1, SendAppendPushes
<1>3. Typed(r) /\ r.state = Leader /\ Tracks(r, A) /\ r.prs \in [Server -> Progress]
      /\ Shaped(r, RaftFields) /\ r.leadTransferee \in Server \cup {None}
      /\ r.log \in Seq(Entry) /\ Len(r.log) \in Nat
  BY LenProperties DEF Leading, Typed, Raft
<1>4. next \in Nat /\ 1 <= next
  BY <1>3 DEF Tracks, Fits, Progress
<1>5. \A n \in new : Says(n, r, A)
  <2>1. SUFFICES ASSUME NEW k \in rest PROVE Says(Stamped(r, AppendMessage(r, i, k)), r, A)
    OBVIOUS
  <2>2. k \in 1..(Len(r.log) + 1)
    BY <1>3, <1>4 DEF lastIndex
  <2>3. QED BY <1>3, <2>2, SaysAppend
<1> HIDE DEF new
<1>6. /\ Kept(r, q) /\ q.msgs = r.msgs \cup new
      /\ q.leadTransferee = r.leadTransferee
      /\ q.prs = [r.prs EXCEPT ![i] = [r.prs[i] EXCEPT !.Next = Len(r.log) + 1]]
  BY <1>3 DEF Kept, Shaped, RaftFields, lastIndex
<1> HIDE DEF q
<1> DEFINE p == [r.prs[i] EXCEPT !.Next = Len(r.log) + 1]
<1>7. p \in Progress /\ Fits(r, i, p, A)
  <2>1. r.prs[i] \in Progress /\ Len(r.log) + 1 \in Nat /\ Fits(r, i, r.prs[i], A)
    BY <1>3 DEF Tracks
  <2>2. p \in Progress /\ p.Match = r.prs[i].Match /\ p.Next = Len(r.log) + 1
    BY <2>1 DEF Progress
  <2> HIDE DEF p
  <2>3. 1 <= p.Next /\ p.Next <= Len(r.log) + 1
    BY <1>3, <2>2
  <2>4. QED BY <2>1, <2>2, <2>3 DEF Fits
<1> HIDE DEF p
<1>8. /\ q.prs \in [Server -> Progress]
      /\ \A j \in Server : Fits(r, j, q.prs[j], A)
  BY <1>3, <1>6, <1>7 DEF Tracks, p
<1>9. Pushes(r, q, A)
  BY <1>3, <1>5, <1>6, <1>8, KeptPushes
<1>10. QED BY <1>1, <1>2, <1>9

\* So do bcastAppend and sendAppend.
LEMMA BroadcastPushes ==
    ASSUME NEW r, NEW A, Leading(r, A)
    PROVE  /\ Pushes(r, bcastAppend(r), A)
           /\ \A i \in Server : i # r.id => Pushes(r, sendAppend(r, i), A)
<1>1. Peers(r) \in SUBSET Server /\ r.id \notin Peers(r)
  <2>1. Raft(r)
    BY DEF Leading, Typed
  <2>2. QED BY <2>1, PeersAreServers DEF Peers
<1>2. Pushes(r, bcastAppend(r), A)
  BY <1>1, SendAppendPushes DEF bcastAppend
<1>3. ASSUME NEW i \in Server, i # r.id PROVE Pushes(r, sendAppend(r, i), A)
  <2>1. {i} \in SUBSET Server /\ r.id \notin {i}
    BY <1>3
  <2>2. QED BY <2>1, SendAppendPushes DEF sendAppend
<1>4. QED BY <1>2, <1>3

\* What send does with a message that needs no panic.
LEMMA SendFacts ==
    ASSUME NEW r, Shaped(r, RaftFields), NEW m, (m.type \in VoteMessageTypes) # (m.term = 0)
    PROVE  LET q == send(r, m)
           IN  /\ Kept(r, q) /\ q.msgs = r.msgs \cup {Stamped(r, m)}
               /\ q.leadTransferee = r.leadTransferee /\ q.prs = r.prs
<1> DEFINE n == Stamped(r, m)
<1>1. send(r, m) = [r EXCEPT !.msgs = @ \cup {n}]
  BY DEF send
<1> HIDE DEF n
<1>2. QED BY <1>1 DEF Kept, Shaped, RaftFields, n

\* So does sendTimeoutNow.
LEMMA SendTimeoutPushes ==
    ASSUME NEW r, NEW A, Leading(r, A), NEW i \in Server, i # r.id
    PROVE  Pushes(r, sendTimeoutNow(r, i), A)
<1> DEFINE m == Msg("MsgTimeoutNow", i)
           q == send(r, m)
<1>1. Typed(r) /\ Raft(r) /\ Shaped(r, RaftFields) /\ Tracks(r, A)
      /\ r.leadTransferee \in Server \cup {None} /\ r.prs \in [Server -> Progress]
  BY DEF Leading, Typed, Raft
<1>2. Draft(m) /\ m.type = "MsgTimeoutNow" /\ m.to = i /\ m.term = 0
  BY PlainDraft DEF MessageTypes
<1> HIDE DEF m
<1>3. Says(Stamped(r, m), r, A)
  BY <1>1, <1>2, SaysPlain
<1>4. /\ Kept(r, q) /\ q.msgs = r.msgs \cup {Stamped(r, m)}
      /\ q.leadTransferee = r.leadTransferee /\ q.prs = r.prs
  <2>1. (m.type \in VoteMessageTypes) # (m.term = 0)
    BY <1>2 DEF VoteMessageTypes
  <2>2. QED BY <1>1, <2>1, SendFacts
<1> DEFINE new == {Stamped(r, m)}
<1>5. q.msgs = r.msgs \cup new /\ \A n \in new : Says(n, r, A)
  BY <1>3, <1>4
<1> HIDE DEF q, new
<1>6. Pushes(r, q, A)
  BY <1>1, <1>4, <1>5, KeptPushes DEF Tracks
<1>7. QED BY <1>6 DEF sendTimeoutNow, q, m

\* So does bcastProbeRtt.
LEMMA ProbePushes ==
    ASSUME NEW r, NEW A, Leading(r, A)
    PROVE  Pushes(r, bcastProbeRtt(r), A)
<1> DEFINE q == bcastProbeRtt(r)
           new == {Stamped(r, Msg("MsgProbeRtt", i)) : i \in Peers(r)}
<1>1. Typed(r) /\ Raft(r) /\ Shaped(r, RaftFields) /\ Tracks(r, A)
      /\ r.leadTransferee \in Server \cup {None} /\ r.prs \in [Server -> Progress]
  BY DEF Leading, Typed, Raft
<1>2. /\ Kept(r, q) /\ q.msgs = r.msgs \cup new
      /\ q.leadTransferee = r.leadTransferee /\ q.prs = r.prs
  BY <1>1 DEF bcastProbeRtt, Kept, Shaped, RaftFields
<1>3. \A n \in new : Says(n, r, A)
  <2>1. SUFFICES ASSUME NEW i \in Peers(r) PROVE Says(Stamped(r, Msg("MsgProbeRtt", i)), r, A)
    OBVIOUS
  <2>2. i \in Server /\ i # r.id
    BY <1>1, PeersAreServers DEF Peers
  <2> DEFINE m == Msg("MsgProbeRtt", i)
  <2>3. Draft(m) /\ m.type = "MsgProbeRtt" /\ m.to = i
    BY <2>2, PlainDraft DEF MessageTypes
  <2> HIDE DEF m
  <2>4. Says(Stamped(r, m), r, A)
    BY <1>1, <2>2, <2>3, SaysPlain
  <2>5. QED BY <2>4 DEF m
<1> HIDE DEF q, new
<1>4. Pushes(r, q, A)
  BY <1>1, <1>2, <1>3, KeptPushes DEF Tracks
<1>5. QED BY <1>4 DEF q

\* So does bcastHeartbeat: the commit index it tells a follower is one that the
\* follower acknowledged.
LEMMA HeartbeatPushes ==
    ASSUME NEW r, NEW A, Leading(r, A)
    PROVE  Pushes(r, bcastHeartbeat(r), A)
<1> DEFINE M(i) == [Msg("MsgHeartbeat", i) EXCEPT !.commit = Min({r.prs[i].Match, r.committed})]
           q == bcastHeartbeat(r)
           new == {Stamped(r, M(i)) : i \in Peers(r)}
<1>1. Typed(r) /\ Raft(r) /\ Shaped(r, RaftFields) /\ Tracks(r, A)
      /\ r.leadTransferee \in Server \cup {None} /\ r.prs \in [Server -> Progress]
      /\ r.committed \in Nat
  BY DEF Leading, Typed, Raft
<1>2. /\ Kept(r, q) /\ q.msgs = r.msgs \cup new
      /\ q.leadTransferee = r.leadTransferee /\ q.prs = r.prs
  BY <1>1 DEF bcastHeartbeat, Kept, Shaped, RaftFields
<1>3. \A n \in new : Says(n, r, A)
  <2>1. SUFFICES ASSUME NEW i \in Peers(r) PROVE Says(Stamped(r, M(i)), r, A)
    OBVIOUS
  <2>2. i \in Server /\ i # r.id
    BY <1>1, PeersAreServers DEF Peers
  <2> DEFINE b == r.prs[i].Match
             c == Min({b, r.committed})
             m == M(i)
             d == Msg("MsgHeartbeat", i)
  <2>3. b \in Nat /\ (b = 0 \/ <<i, b>> \in A)
    <3>1. r.prs[i] \in Progress /\ Fits(r, i, r.prs[i], A)
      BY <1>1, <2>2 DEF Tracks
    <3>2. QED BY <2>2, <3>1 DEF Fits, Progress
  <2> HIDE DEF b
  <2>4. c \in Nat /\ c <= b /\ c <= r.committed
    <3>1. c = IF b <= r.committed THEN b ELSE r.committed
      BY <1>1, <2>3, MinOfTwo
    <3> HIDE DEF c
    <3>2. QED BY <1>1, <2>3, <3>1
  <2>5. c = 0 \/ Reaches(A, i, c)
    <3> HIDE DEF c
    <3>1. QED BY <2>3, <2>4 DEF Reaches
  <2>6. Draft(d) /\ d.type = "MsgHeartbeat" /\ d.to = i /\ d.term = 0
    BY <2>2, PlainDraft DEF MessageTypes
  <2>7. m = [d EXCEPT !.commit = c]
    BY DEF b
  <2> HIDE DEF m, c, d
  <2>8. Draft(m) /\ m.type = "MsgHeartbeat" /\ m.to = i /\ m.term = 0 /\ m.commit = c
    BY <2>4, <2>6, <2>7 DEF Draft, Shaped, MsgFields
  <2> DEFINE n == Stamped(r, m)
  <2>9. /\ n \in Message /\ n.from = r.id /\ n.to = i /\ n.type = "MsgHeartbeat"
        /\ n.term = r.Term /\ n.commit = c
    BY <1>1, <2>8, StampedMessage DEF VoteMessageTypes
  <2> HIDE DEF n
  <2>10. r.state = Leader
    BY DEF Leading
  <2>11. Says(n, r, A)
    BY <2>2, <2>4, <2>5, <2>9, <2>10 DEF Says, Grant, Ack
  <2>12. QED BY <2>11 DEF n, m
<1> HIDE DEF q, new
<1>4. Pushes(r, q, A)
  BY <1>1, <1>2, <1>3, KeptPushes DEF Tracks
<1>5. QED BY <1>4 DEF q

\* What a leader does to the progress of one peer, within what it acknowledged.
LEMMA ProgressPushes ==
    ASSUME NEW r, NEW A, Leading(r, A), NEW i \in Server, NEW p \in Progress, Fits(r, i, p, A)
    PROVE  Pushes(r, [r EXCEPT !.prs[i] = p], A)
<1> DEFINE q == [r EXCEPT !.prs[i] = p]
           new == {}
<1>1. Typed(r) /\ Tracks(r, A) /\ r.prs \in [Server -> Progress]
      /\ Shaped(r, RaftFields) /\ r.leadTransferee \in Server \cup {None}
  BY DEF Leading, Typed, Raft
<1>2. /\ Kept(r, q) /\ q.msgs = r.msgs \cup new /\ q.leadTransferee = r.leadTransferee
      /\ q.prs = [r.prs EXCEPT ![i] = p]
  BY <1>1 DEF Kept, Shaped, RaftFields
<1> HIDE DEF q
<1>3. q.prs \in [Server -> Progress] /\ \A j \in Server : Fits(r, j, q.prs[j], A)
  BY <1>1, <1>2 DEF Tracks
<1>4. \A n \in new : Says(n, r, A)
  OBVIOUS
<1> HIDE DEF new
<1>5. Pushes(r, q, A)
  BY <1>1, <1>2, <1>3, <1>4, KeptPushes
<1>6. QED BY <1>5 DEF q

-----------------------------------------------------------------------------
\* A leader commits

\* maybeCommit commits by counting the acknowledgements of an entry of the term.
LEMMA MaybeCommitPushes ==
    ASSUME NEW r, NEW A, Leading(r, A)
    PROVE  Pushes(r, maybeCommit(r), A)
<1> DEFINE match == [i \in Server |-> r.prs[i].Match]
           mci == JointCommittedIndex(Voters[r.id], match)
           q == [r EXCEPT !.committed = mci]
<1>1. /\ Typed(r) /\ Raft(r) /\ Tracks(r, A) /\ r.prs \in [Server -> Progress]
      /\ Shaped(r, RaftFields) /\ r.id \in Server /\ r.Term \in Nat /\ r.Term # 0
      /\ r.log \in Seq(Entry) /\ Len(r.log) \in Nat /\ r.committed \in Nat
  BY LenProperties DEF Leading, Typed, Raft
<1>2. ASSUME NEW i \in Server
      PROVE  /\ match[i] \in Nat /\ match[i] <= Len(r.log)
             /\ match[i] = 0 \/ i = r.id \/ <<i, match[i]>> \in A
  <2>1. r.prs[i] \in Progress /\ Fits(r, i, r.prs[i], A)
    BY <1>1 DEF Tracks
  <2>2. QED BY <2>1 DEF Fits, Progress
<1>3. match \in [Server -> Nat]
  BY <1>2
<1> HIDE DEF match
<1>4. mci \in Nat /\ Wins(r.id, {i \in Server : match[i] >= mci})
  BY <1>1, <1>2, <1>3, CommittedIsReached
<1>5. maybeCommit(r) = IF mci > r.committed /\ termAt(r.log, mci) = r.Term
                       THEN commitTo(r, mci) ELSE r
  BY DEF maybeCommit, match
<1> HIDE DEF mci
<1>6. Pushes(r, r, A)
  BY <1>1 DEF Pushes
<1>7. ASSUME mci > r.committed, termAt(r.log, mci) = r.Term
      PROVE  Pushes(r, commitTo(r, mci), A)
  <2>1. mci \in 1..Len(r.log) /\ r.log[mci].term = r.Term
    <3>1. mci \in Int
      BY <1>4
    <3>2. QED BY <1>1, <1>7, <3>1, TermAtFacts
  <2>2. ~(r.committed >= mci) /\ ~(lastIndex(r) < mci)
    BY <1>1, <1>4, <1>7, <2>1 DEF lastIndex
  <2>3. commitTo(r, mci) = q
    BY <2>2 DEF commitTo
  <2>4. /\ Shaped(q, RaftFields) /\ q.id = r.id /\ q.Term = r.Term /\ q.Vote = r.Vote
        /\ q.state = r.state /\ q.lead = r.lead /\ q.leadTransferee = r.leadTransferee
        /\ q.log = r.log /\ q.elapsed = r.elapsed /\ q.yes = r.yes /\ q.no = r.no
        /\ q.prs = r.prs /\ q.msgs = r.msgs /\ q.panic = r.panic /\ q.committed = mci
    BY <1>1 DEF Shaped, RaftFields
  <2> HIDE DEF q
  <2>5. Typed(q) /\ Raft(q)
    BY <1>1, <1>4, <2>4 DEF Typed, Raft
  <2>6. q.committed >= r.committed
    BY <1>1, <1>4, <1>7, <2>4
  <2>7. \A n \in q.msgs : Says(n, q, A)
    BY <1>1, <2>4, <2>5, <2>6, SaysOn DEF Leading
  <2>8. Tracks(q, A)
    BY <1>1, <2>4 DEF Tracks, Fits
  <2>9. Leading(q, A)
    BY <2>4, <2>5, <2>7, <2>8 DEF Leading
  <2>10. Counted(q, A)
    <3> DEFINE Q == {i \in Server : match[i] >= mci}
    <3>1. ASSUME NEW v \in Q PROVE v = q.id \/ Reaches(A, v, q.committed)
      <4>0. v \in Server /\ match[v] >= mci
        OBVIOUS
      <4>1. mci \in Nat /\ mci # 0
        BY <1>4, <2>1
      <4>2. match[v] \in Nat /\ (match[v] = 0 \/ v = r.id \/ <<v, match[v]>> \in A)
        BY <1>2, <4>0
      <4>3. v = r.id \/ <<v, match[v]>> \in A
        BY <4>0, <4>1, <4>2
      <4>4. QED BY <2>4, <4>0, <4>1, <4>2, <4>3 DEF Reaches
    <3>2. Q \in SUBSET Server /\ Wins(q.id, Q)
      BY <1>4, <2>4
    <3> HIDE DEF Q
    <3>3. q.committed \in 1..Len(q.log) /\ q.log[q.committed].term = q.Term
      BY <2>1, <2>4
    <3>4. QED BY <3>1, <3>2, <3>3 DEF Counted
  <2>11. Pushes(r, q, A)
    BY <2>4, <2>6, <2>9, <2>10 DEF Pushes
  <2>12. QED BY <2>3, <2>11
<1>8. QED BY <1>5, <1>6, <1>7

\* q leads after a step of r, whose log it has extended by at most one entry of its
\* term; what it committed it committed by counting.
Leads(r, q, A) ==
    /\ Leading(q, A) /\ q.id = r.id /\ q.committed >= r.committed
    /\ q.committed = r.committed \/ Counted(q, A)
    /\ \/ r.state = Leader /\ q.Term = r.Term /\ q.log = r.log
       \/ \E e \in Entry : e.term = q.Term /\ q.log = Append(r.log, e)

\* A step of a leader after one that leads.
LEMMA LeadsPushes ==
    ASSUME NEW r, NEW q, NEW p, NEW A, Typed(r), Leads(r, q, A), Pushes(q, p, A)
    PROVE  Leads(r, p, A)
<1>1. r.committed \in Nat /\ q.committed \in Nat /\ p.committed \in Nat
  BY DEF Typed, Pushes, Leads, Leading
<1>2. p.committed >= r.committed
  BY <1>1 DEF Pushes, Leads
<1>3. p.committed = r.committed \/ Counted(p, A)
  BY <1>1 DEF Pushes, Leads, Counted
<1>4. QED BY <1>2, <1>3 DEF Pushes, Leads

\* Nothing that a log has is changed by an entry at its end.
LEMMA AppendFacts ==
    ASSUME NEW x \in Seq(Entry), NEW e \in Entry
    PROVE  LET y == Append(x, e)
           IN  /\ y \in Seq(Entry) /\ Len(y) = Len(x) + 1 /\ Len(x) \in Nat
               /\ y[Len(x) + 1] = e /\ \A i \in 1..Len(x) : y[i] = x[i]
               /\ Agrees(x, y, Len(x))
<1>1. Len(x) \in Nat
  BY LenProperties
<1>2. /\ Append(x, e) \in Seq(Entry) /\ Len(Append(x, e)) = Len(x) + 1
      /\ Append(x, e)[Len(x) + 1] = e /\ \A i \in 1..Len(x) : Append(x, e)[i] = x[i]
  BY AppendProperties
<1>3. QED BY <1>1, <1>2 DEF Agrees

\* appendEntry adds one entry of the leader's term; the leader has it, and commits
\* it at once where no one else is needed.
LEMMA AppendEntryLeads ==
    ASSUME NEW r, NEW A, Leading(r, A), r.msgs = {}, NEW data \in Value \cup {None}
    PROVE  LET q == appendEntry(r, data)
           IN  /\ Leads(r, q, A)
               /\ q.Term = r.Term /\ q.leadTransferee = r.leadTransferee /\ q.msgs = {}
               /\ q.log = Append(r.log, [term |-> r.Term, data |-> data])
<1> DEFINE e == [term |-> r.Term, data |-> data]
           log == Append(r.log, e)
           pr == r.prs[r.id]
           p == MaybeUpdate(pr, Len(log))
           q == [r EXCEPT !.log = log, !.prs[r.id] = p]
<1>1. /\ Typed(r) /\ Raft(r) /\ Tracks(r, A) /\ r.prs \in [Server -> Progress]
      /\ Shaped(r, RaftFields) /\ r.id \in Server /\ r.Term \in Nat
      /\ r.log \in Seq(Entry) /\ r.committed \in Nat
  BY DEF Leading, Typed, Raft
<1>2. e \in Entry /\ e.term = r.Term
  BY <1>1 DEF Entry
<1>3. appendEntry(r, data) = maybeCommit(q)
  BY DEF appendEntry
<1> HIDE DEF e
<1>4. log \in Seq(Entry) /\ Len(log) = Len(r.log) + 1 /\ Len(r.log) \in Nat
  BY <1>1, <1>2, AppendFacts
<1>5. /\ Shaped(q, RaftFields) /\ q.id = r.id /\ q.Term = r.Term /\ q.Vote = r.Vote
      /\ q.state = r.state /\ q.lead = r.lead /\ q.leadTransferee = r.leadTransferee
      /\ q.log = log /\ q.elapsed = r.elapsed /\ q.yes = r.yes /\ q.no = r.no
      /\ q.prs = [r.prs EXCEPT ![r.id] = p] /\ q.msgs = {} /\ q.panic = r.panic
      /\ q.committed = r.committed
  BY <1>1 DEF Shaped, RaftFields
<1>6. /\ p \in Progress /\ p.Match <= Len(log) /\ 1 <= p.Next /\ p.Next <= Len(log) + 1
  <2>1. pr \in Progress /\ Fits(r, r.id, pr, A)
    BY <1>1 DEF Tracks
  <2>2. /\ pr.Match \in Nat /\ pr.Next \in Nat /\ pr.Match <= Len(r.log)
        /\ pr.Next <= Len(r.log) + 1
    BY <2>1 DEF Fits, Progress
  <2>3. Len(log) \in Nat /\ Len(log) + 1 \in Nat
    BY <1>4
  <2>4. Max({pr.Match, Len(log)}) = Len(log) /\ Max({pr.Next, Len(log) + 1}) = Len(log) + 1
    <3>1. pr.Match <= Len(log) /\ pr.Next <= Len(log) + 1
      BY <1>4, <2>2
    <3> DEFINE a == pr.Match
               b == pr.Next
               c == Len(log)
    <3> HIDE DEF a, b, c
    <3>2. Max({a, c}) = (IF a >= c THEN a ELSE c) /\ Max({b, c + 1}) = IF b >= c + 1 THEN b ELSE c + 1
      BY <2>2, <2>3, MaxOfTwo DEF a, b, c
    <3>3. QED BY <2>2, <2>3, <3>1, <3>2 DEF a, b, c
  <2>5. p = [pr EXCEPT !.Match = Len(log), !.ProbeSent = pr.ProbeSent /\ pr.Match >= Len(log),
                       !.Next = Len(log) + 1]
    BY <2>4 DEF MaybeUpdate
  <2> HIDE DEF log
  <2>6. p \in Progress /\ p.Match = Len(log) /\ p.Next = Len(log) + 1
    BY <2>1, <2>3, <2>5 DEF Progress
  <2> HIDE DEF p
  <2>7. QED BY <2>3, <2>6
<1> HIDE DEF p, q, log
<1>7. q.prs \in [Server -> Progress]
  BY <1>1, <1>5, <1>6
<1>8. Typed(q)
  BY <1>1, <1>4, <1>5, <1>7 DEF Typed, Raft
<1>9. ASSUME NEW i \in Server PROVE Fits(q, i, q.prs[i], A)
  <2>1. CASE i = r.id
    <3>1. q.prs[i] = p
      BY <1>1, <1>5, <2>1
    <3>2. QED BY <1>5, <1>6, <2>1, <3>1 DEF Fits
  <2>2. CASE i # r.id
    <3>1. q.prs[i] = r.prs[i] /\ Fits(r, i, r.prs[i], A)
      BY <1>1, <1>5, <2>2 DEF Tracks
    <3>2. r.prs[i].Match \in Nat /\ r.prs[i].Next \in Nat
      BY <1>1 DEF Progress
    <3>3. QED BY <1>4, <1>5, <3>1, <3>2 DEF Fits
  <2>3. QED BY <2>1, <2>2
<1>10. Leading(q, A)
  BY <1>5, <1>8, <1>9 DEF Leading, Tracks
<1>11. Leads(r, q, A)
  BY <1>1, <1>2, <1>5, <1>10 DEF Leads, log
<1>12. Pushes(q, maybeCommit(q), A)
  BY <1>10, MaybeCommitPushes
<1>13. LET c == maybeCommit(q)
       IN  /\ c.Term = r.Term /\ c.leadTransferee = r.leadTransferee /\ c.msgs = {}
           /\ c.log = log
  BY <1>5 DEF maybeCommit, commitTo, Shaped, RaftFields
<1>14. Leads(r, maybeCommit(q), A)
  BY <1>1, <1>11, <1>12, LeadsPushes
<1>15. QED BY <1>3, <1>13, <1>14 DEF log, e

-----------------------------------------------------------------------------
\* A leader's answers

\* The methods of Progress keep Match acknowledged and Next within the log
\* (BecomeProbe, BecomeReplicate, MaybeUpdate, MaybeDecrTo).
LEMMA ProgressFits ==
    ASSUME NEW r, Typed(r), NEW A, NEW i \in Server, NEW pr \in Progress, Fits(r, i, pr, A)
    PROVE  /\ BecomeProbe(pr) \in Progress /\ Fits(r, i, BecomeProbe(pr), A)
           /\ BecomeReplicate(pr) \in Progress /\ Fits(r, i, BecomeReplicate(pr), A)
           /\ \A a, b \in BOOLEAN :
                LET p == [pr EXCEPT !.RecentActive = a, !.ProbeSent = b]
                IN  p \in Progress /\ Fits(r, i, p, A)
           /\ \A a \in BOOLEAN :
                LET p == [pr EXCEPT !.RecentActive = a]
                IN  p \in Progress /\ Fits(r, i, p, A)
           /\ \A n, last \in Nat : RejectionIsFresh(pr, n) =>
                DecrTo(pr, n, last) \in Progress /\ Fits(r, i, DecrTo(pr, n, last), A)
           /\ \A n \in Nat : n <= Len(r.log) /\ (<<i, n>> \in A \/ n <= pr.Match) =>
                MaybeUpdate(pr, n) \in Progress /\ Fits(r, i, MaybeUpdate(pr, n), A)
<1> DEFINE Sz == Len(r.log)
<1>1. Sz \in Nat
  BY LenProperties DEF Typed
<1> HIDE DEF Sz
<1>2. /\ pr.Match \in Nat /\ pr.Next \in Nat /\ pr.Match <= Sz /\ 1 <= pr.Next
      /\ pr.Next <= Sz + 1
      /\ pr.Match = 0 \/ i = r.id \/ <<i, pr.Match>> \in A
  BY DEF Fits, Progress, Sz
<1>3. ASSUME NEW p \in Progress, p.Match = pr.Match, 1 <= p.Next, p.Next <= Sz + 1
      PROVE  p \in Progress /\ Fits(r, i, p, A)
  BY <1>2, <1>3 DEF Fits, Sz
<1>4. BecomeProbe(pr) \in Progress /\ Fits(r, i, BecomeProbe(pr), A)
  <2> DEFINE p == BecomeProbe(pr)
             k == pr.Match + 1
  <2>0. k \in Nat /\ "StateProbe" \in ProgressState
    BY <1>2 DEF ProgressState
  <2>1. p \in Progress /\ p.Match = pr.Match /\ p.Next = k
    <3>1. p = [pr EXCEPT !.State = "StateProbe", !.ProbeSent = FALSE, !.Next = k]
      BY DEF BecomeProbe
    <3> HIDE DEF p, k
    <3>2. QED BY <2>0, <3>1 DEF Progress
  <2>2. 1 <= pr.Match + 1 /\ pr.Match + 1 <= Sz + 1
    BY <1>1, <1>2
  <2>3. QED BY <2>1, <2>2, <1>3
<1>5. BecomeReplicate(pr) \in Progress /\ Fits(r, i, BecomeReplicate(pr), A)
  <2> DEFINE p == BecomeReplicate(pr)
             k == pr.Match + 1
  <2>0. k \in Nat /\ "StateReplicate" \in ProgressState
    BY <1>2 DEF ProgressState
  <2>1. p \in Progress /\ p.Match = pr.Match /\ p.Next = k
    <3>1. p = [pr EXCEPT !.State = "StateReplicate", !.ProbeSent = FALSE, !.Next = k]
      BY DEF BecomeReplicate
    <3> HIDE DEF p, k
    <3>2. QED BY <2>0, <3>1 DEF Progress
  <2>2. 1 <= pr.Match + 1 /\ pr.Match + 1 <= Sz + 1
    BY <1>1, <1>2
  <2>3. QED BY <2>1, <2>2, <1>3
<1>6. ASSUME NEW a \in BOOLEAN, NEW b \in BOOLEAN
      PROVE  LET p == [pr EXCEPT !.RecentActive = a, !.ProbeSent = b]
             IN  p \in Progress /\ Fits(r, i, p, A)
  <2> DEFINE p == [pr EXCEPT !.RecentActive = a, !.ProbeSent = b]
  <2>1. p \in Progress /\ p.Match = pr.Match /\ p.Next = pr.Next
    BY DEF Progress
  <2> HIDE DEF p
  <2>2. p \in Progress /\ Fits(r, i, p, A)
    BY <2>1, <1>2, <1>3
  <2>3. QED BY <2>2 DEF p
<1>7. ASSUME NEW a \in BOOLEAN
      PROVE  LET p == [pr EXCEPT !.RecentActive = a] IN p \in Progress /\ Fits(r, i, p, A)
  <2> DEFINE p == [pr EXCEPT !.RecentActive = a]
  <2>1. p \in Progress /\ p.Match = pr.Match /\ p.Next = pr.Next
    BY DEF Progress
  <2> HIDE DEF p
  <2>2. p \in Progress /\ Fits(r, i, p, A)
    BY <2>1, <1>2, <1>3
  <2>3. QED BY <2>2 DEF p
<1>8. ASSUME NEW n \in Nat, NEW last \in Nat, RejectionIsFresh(pr, n)
      PROVE  DecrTo(pr, n, last) \in Progress /\ Fits(r, i, DecrTo(pr, n, last), A)
  <2>1. CASE pr.State = "StateReplicate"
    <3>1. DecrTo(pr, n, last) = [pr EXCEPT !.Next = pr.Match + 1]
      BY <2>1 DEF DecrTo
    <3>2. /\ DecrTo(pr, n, last) \in Progress /\ DecrTo(pr, n, last).Match = pr.Match
          /\ DecrTo(pr, n, last).Next = pr.Match + 1
      BY <1>2, <3>1 DEF Progress
    <3>3. 1 <= pr.Match + 1 /\ pr.Match + 1 <= Sz + 1
      BY <1>1, <1>2
    <3>4. QED BY <3>2, <3>3, <1>3
  <2>2. CASE pr.State # "StateReplicate"
    <3> DEFINE k == Min({n, last + 1})
               x == Max({1, k})
    <3>1. k \in Nat /\ k <= n
      <4>1. k = IF n <= last + 1 THEN n ELSE last + 1
        BY MinOfTwo
      <4> HIDE DEF k
      <4>2. QED BY <4>1
    <3>2. n = pr.Next - 1
      BY <1>8, <2>2 DEF RejectionIsFresh
    <3> HIDE DEF k
    <3>3. x \in Nat /\ 1 <= x /\ x <= Sz + 1
      <4>1. x = IF 1 >= k THEN 1 ELSE k
        BY <3>1, MaxOfTwo
      <4> HIDE DEF x
      <4>2. QED BY <1>1, <1>2, <3>1, <3>2, <4>1
    <3>4. DecrTo(pr, n, last) = [pr EXCEPT !.Next = x, !.ProbeSent = FALSE]
      BY <2>2 DEF DecrTo, k
    <3> HIDE DEF x
    <3>5. /\ DecrTo(pr, n, last) \in Progress /\ DecrTo(pr, n, last).Match = pr.Match
          /\ DecrTo(pr, n, last).Next = x
      BY <3>3, <3>4 DEF Progress
    <3>6. QED BY <3>3, <3>5, <1>3
  <2>3. QED BY <2>1, <2>2
<1>9. ASSUME NEW n \in Nat, n <= Len(r.log), <<i, n>> \in A \/ n <= pr.Match
      PROVE  MaybeUpdate(pr, n) \in Progress /\ Fits(r, i, MaybeUpdate(pr, n), A)
  <2> DEFINE a == pr.Match
             b == pr.Next
             x == Max({a, n})
             y == Max({b, n + 1})
             p == MaybeUpdate(pr, n)
  <2>1. a \in Nat /\ b \in Nat /\ a <= Sz /\ 1 <= b /\ b <= Sz + 1 /\ n <= Sz
        /\ (a = 0 \/ i = r.id \/ <<i, a>> \in A) /\ (<<i, n>> \in A \/ n <= a)
    BY <1>2, <1>9 DEF Sz
  <2> HIDE DEF a, b
  <2>2. x = (IF a >= n THEN a ELSE n) /\ y = (IF b >= n + 1 THEN b ELSE n + 1)
    BY <2>1, MaxOfTwo
  <2>3. p = [pr EXCEPT !.Match = x, !.ProbeSent = pr.ProbeSent /\ pr.Match >= n, !.Next = y]
    BY DEF MaybeUpdate, a, b
  <2> HIDE DEF x, y, p
  <2>4. x \in {a, n} /\ x \in Nat /\ y \in Nat /\ x <= Sz /\ 1 <= y /\ y <= Sz + 1
    BY <1>1, <2>1, <2>2
  <2>5. p \in Progress /\ p.Match = x /\ p.Next = y
    BY <2>3, <2>4 DEF Progress
  <2>6. x = 0 \/ i = r.id \/ <<i, x>> \in A
    <3>1. n <= a => x = a
      BY <2>1, <2>2
    <3>2. QED BY <2>1, <2>4, <3>1
  <2>7. Fits(r, i, p, A)
    BY <2>4, <2>5, <2>6 DEF Fits, Sz
  <2>8. QED BY <2>5, <2>7 DEF p
<1>10. QED BY <1>4, <1>5, <1>6, <1>7, <1>8, <1>9

\* What a leader needs of an answer: an acknowledgement is one of its log.
Answers(m, r, A) ==
    /\ m.from \in Server /\ m.from # r.id /\ m.index \in Nat /\ m.rejectHint \in Nat
    /\ Ack(m) => <<m.from, m.index>> \in A /\ m.index <= Len(r.log)

\* A rejected MsgAppResp moves Next back.
LEMMA LeaderRejectedPushes ==
    ASSUME NEW r, NEW A, Leading(r, A), NEW m, Answers(m, r, A)
    PROVE  Pushes(r, leaderRejected(r, m), A)
<1> DEFINE i == m.from
           pr == r.prs[i]
           d == DecrTo(pr, m.index, m.rejectHint)
           p == IF pr.State = "StateReplicate" THEN BecomeProbe(d) ELSE d
           p1 == [p EXCEPT !.RecentActive = TRUE]
           p2 == [pr EXCEPT !.RecentActive = TRUE]
           q1 == [r EXCEPT !.prs[i] = p1]
           q2 == [r EXCEPT !.prs[i] = p2]
<1>1. /\ Typed(r) /\ i \in Server /\ i # r.id /\ m.index \in Nat /\ m.rejectHint \in Nat
      /\ pr \in Progress /\ Fits(r, i, pr, A)
  BY DEF Leading, Tracks, Typed, Answers
<1>2. leaderRejected(r, m) = IF RejectionIsFresh(pr, m.index) THEN sendAppend(q1, i) ELSE q2
  BY DEF leaderRejected
<1> HIDE DEF i
<1>3. Pushes(r, q2, A)
  <2>1. p2 \in Progress /\ Fits(r, i, p2, A)
    BY <1>1, ProgressFits
  <2> HIDE DEF p2
  <2>2. QED BY <1>1, <2>1, ProgressPushes
<1>4. ASSUME RejectionIsFresh(pr, m.index) PROVE Pushes(r, sendAppend(q1, i), A)
  <2> HIDE DEF pr
  <2>1. d \in Progress /\ Fits(r, i, d, A)
    BY <1>1, <1>4, ProgressFits
  <2> HIDE DEF d
  <2>2. p \in Progress /\ Fits(r, i, p, A)
    BY <1>1, <2>1, ProgressFits
  <2> HIDE DEF p
  <2>3. p1 \in Progress /\ Fits(r, i, p1, A)
    BY <1>1, <2>2, ProgressFits
  <2> HIDE DEF p1
  <2>4. Pushes(r, q1, A)
    BY <1>1, <2>3, ProgressPushes
  <2> HIDE DEF q1
  <2>5. Pushes(q1, sendAppend(q1, i), A)
    BY <1>1, <2>4, BroadcastPushes DEF Pushes
  <2>6. QED BY <1>1, <2>4, <2>5, PushesOn
<1>5. QED BY <1>2, <1>3, <1>4

\* A MsgAppResp that moves Match forward lets the leader commit and send more.
LEMMA LeaderAdvancedPushes ==
    ASSUME NEW r, NEW A, Leading(r, A), NEW m, Answers(m, r, A), Ack(m)
    PROVE  Pushes(r, leaderAdvanced(r, m), A)
<1> DEFINE i == m.from
           pr == r.prs[i]
           u  == MaybeUpdate(pr, m.index)
           p  == IF pr.State = "StateProbe" THEN BecomeReplicate(u) ELSE u
           p1 == [p EXCEPT !.RecentActive = TRUE]
           r1 == [r EXCEPT !.prs[i] = p1]
           r2 == maybeCommit(r1)
           r3 == IF r2.committed # r1.committed THEN bcastAppend(r2)
                 ELSE IF IsPaused(pr) THEN sendAppend(r2, i) ELSE r2
           r4 == sendRest(r3, i)
<1>1. /\ Typed(r) /\ i \in Server /\ i # r.id /\ m.index \in Nat
      /\ pr \in Progress /\ Fits(r, i, pr, A)
      /\ <<i, m.index>> \in A /\ m.index <= Len(r.log)
  BY DEF Leading, Tracks, Typed, Answers
<1>2. leaderAdvanced(r, m) = IF i = r.leadTransferee /\ p.Match = lastIndex(r)
                             THEN sendTimeoutNow(r4, i) ELSE r4
  BY DEF leaderAdvanced
<1> HIDE DEF i
<1>3. p1 \in Progress /\ Fits(r, i, p1, A)
  <2> HIDE DEF pr
  <2>1. u \in Progress /\ Fits(r, i, u, A)
    BY <1>1, ProgressFits
  <2> HIDE DEF u
  <2>2. p \in Progress /\ Fits(r, i, p, A)
    BY <1>1, <2>1, ProgressFits
  <2> HIDE DEF p
  <2>3. QED BY <1>1, <2>2, ProgressFits
<1> HIDE DEF p1, p
<1>4. Pushes(r, r1, A)
  BY <1>1, <1>3, ProgressPushes
<1> HIDE DEF r1
<1>5. Pushes(r, r2, A)
  <2>1. Pushes(r1, r2, A)
    BY <1>4, MaybeCommitPushes DEF Pushes
  <2> HIDE DEF r2
  <2>2. QED BY <1>1, <1>4, <2>1, PushesOn
<1> HIDE DEF r2, pr
<1>6. Pushes(r, r3, A)
  <2>1. Leading(r2, A) /\ r2.id = r.id
    BY <1>5 DEF Pushes
  <2>2. Pushes(r2, bcastAppend(r2), A) /\ Pushes(r2, sendAppend(r2, i), A)
    BY <1>1, <2>1, BroadcastPushes
  <2>3. Pushes(r, bcastAppend(r2), A) /\ Pushes(r, sendAppend(r2, i), A)
    BY <1>1, <1>5, <2>2, PushesOn
  <2>4. QED BY <1>5, <2>3
<1> HIDE DEF r3
<1>7. Pushes(r, r4, A)
  <2>1. Pushes(r3, r4, A)
    BY <1>1, <1>6, SendRestPushes DEF Pushes
  <2> HIDE DEF r4
  <2>2. QED BY <1>1, <1>6, <2>1, PushesOn
<1> HIDE DEF r4
<1>8. Pushes(r, sendTimeoutNow(r4, i), A)
  <2>1. Pushes(r4, sendTimeoutNow(r4, i), A)
    BY <1>1, <1>7, SendTimeoutPushes DEF Pushes
  <2>2. QED BY <1>1, <1>7, <2>1, PushesOn
<1>9. QED BY <1>2, <1>7, <1>8

\* A leader's handling of any MsgAppResp.
LEMMA LeaderAppRespPushes ==
    ASSUME NEW r, NEW A, Leading(r, A), NEW m, m.type = "MsgAppResp", Answers(m, r, A)
    PROVE  Pushes(r, leaderAppResp(r, m), A)
<1> DEFINE i == m.from
           pr == r.prs[i]
           u == MaybeUpdate(pr, m.index)
           p == [u EXCEPT !.RecentActive = TRUE]
           q == [r EXCEPT !.prs[i] = p]
<1>1. /\ Typed(r) /\ i \in Server /\ m.index \in Nat
      /\ pr \in Progress /\ Fits(r, i, pr, A)
  BY DEF Leading, Tracks, Typed, Answers
<1>2. leaderAppResp(r, m) = IF m.reject THEN leaderRejected(r, m)
        ELSE IF pr.Match < m.index THEN leaderAdvanced(r, m) ELSE q
  BY DEF leaderAppResp
<1>3. pr.Match \in Nat /\ pr.Match <= Len(r.log) /\ Len(r.log) \in Nat
  BY <1>1, LenProperties DEF Fits, Progress, Typed
<1> HIDE DEF i, pr
<1>4. ASSUME ~m.reject, pr.Match < m.index PROVE Pushes(r, leaderAdvanced(r, m), A)
  <2>1. Ack(m)
    BY <1>1, <1>3, <1>4 DEF Ack
  <2>2. QED BY <2>1, LeaderAdvancedPushes
<1>5. ASSUME ~(pr.Match < m.index) PROVE Pushes(r, q, A)
  <2>1. m.index <= pr.Match /\ m.index <= Len(r.log)
    BY <1>1, <1>3, <1>5
  <2>2. u \in Progress /\ Fits(r, i, u, A)
    BY <1>1, <2>1, ProgressFits
  <2> HIDE DEF u
  <2>3. p \in Progress /\ Fits(r, i, p, A)
    BY <1>1, <2>2, ProgressFits
  <2> HIDE DEF p
  <2>4. QED BY <1>1, <2>3, ProgressPushes
<1>6. QED BY <1>2, <1>4, <1>5, LeaderRejectedPushes

\* A leader's handling of a MsgHeartbeatResp.
LEMMA LeaderHeartbeatRespPushes ==
    ASSUME NEW r, NEW A, Leading(r, A), NEW m, m.from \in Server, m.from # r.id
    PROVE  Pushes(r, leaderHeartbeatResp(r, m), A)
<1> DEFINE i == m.from
           pr == r.prs[i]
           p == [pr EXCEPT !.RecentActive = TRUE, !.ProbeSent = FALSE]
           q == [r EXCEPT !.prs[i] = p]
<1>1. Typed(r) /\ pr \in Progress /\ Fits(r, i, pr, A)
  BY DEF Leading, Tracks, Typed
<1>2. leaderHeartbeatResp(r, m) = IF pr.Match < lastIndex(r) THEN sendAppend(q, i) ELSE q
  BY DEF leaderHeartbeatResp
<1>3. p \in Progress /\ Fits(r, i, p, A)
  BY <1>1, ProgressFits
<1> HIDE DEF p
<1>4. Pushes(r, q, A)
  BY <1>3, ProgressPushes
<1> HIDE DEF q
<1>5. Pushes(q, sendAppend(q, i), A)
  BY <1>4, BroadcastPushes DEF Pushes
<1>6. Pushes(r, sendAppend(q, i), A)
  BY <1>1, <1>4, <1>5, PushesOn
<1>7. QED BY <1>2, <1>4, <1>6

\* What a leader does with its transferee alone.
LEMMA TransfereePushes ==
    ASSUME NEW r, NEW A, Leading(r, A), NEW i \in Server \cup {None}
    PROVE  Pushes(r, [r EXCEPT !.leadTransferee = i], A)
<1> DEFINE q == [r EXCEPT !.leadTransferee = i]
           new == {}
<1>1. Typed(r) /\ Tracks(r, A) /\ r.prs \in [Server -> Progress] /\ Shaped(r, RaftFields)
  BY DEF Leading, Typed, Raft
<1>2. /\ Kept(r, q) /\ q.msgs = r.msgs \cup new /\ q.leadTransferee = i
      /\ q.prs = r.prs
  BY <1>1 DEF Kept, Shaped, RaftFields
<1>3. \A n \in new : Says(n, r, A)
  OBVIOUS
<1> HIDE DEF q, new
<1>4. Pushes(r, q, A)
  BY <1>1, <1>2, <1>3, KeptPushes DEF Tracks
<1>5. QED BY <1>4 DEF q

\* A leader's handling of MsgTransferLeader.
LEMMA LeaderTransferPushes ==
    ASSUME NEW r, NEW A, Leading(r, A), NEW i \in Server
    PROVE  Pushes(r, leaderTransfer(r, i), A)
<1> DEFINE a == [r EXCEPT !.leadTransferee = None]
           t == [r EXCEPT !.leadTransferee = i]
<1>1. leaderTransfer(r, i) =
        IF r.leadTransferee = i THEN r ELSE IF i = r.id THEN a
        ELSE IF r.prs[i].Match = lastIndex(r) THEN sendTimeoutNow(t, i) ELSE sendAppend(t, i)
  BY DEF leaderTransfer, abortLeaderTransfer
<1>2. Typed(r) /\ Pushes(r, r, A)
  BY DEF Pushes, Leading, Typed
<1>3. Pushes(r, a, A) /\ Pushes(r, t, A)
  BY TransfereePushes
<1> HIDE DEF a, t
<1>4. ASSUME i # r.id
      PROVE  Pushes(r, sendTimeoutNow(t, i), A) /\ Pushes(r, sendAppend(t, i), A)
  <2>1. Pushes(t, sendTimeoutNow(t, i), A) /\ Pushes(t, sendAppend(t, i), A)
    BY <1>3, <1>4, SendTimeoutPushes, BroadcastPushes DEF Pushes
  <2>2. QED BY <1>2, <1>3, <2>1, PushesOn
<1>5. QED BY <1>1, <1>2, <1>3, <1>4

\* A leader's handling of MsgUnreachable.
LEMMA LeaderUnreachablePushes ==
    ASSUME NEW r, NEW A, Leading(r, A), NEW i \in Server
    PROVE  Pushes(r, leaderUnreachable(r, i), A)
<1> DEFINE p == BecomeProbe(r.prs[i])
<1>1. Pushes(r, r, A)
  BY DEF Pushes, Leading, Typed
<1>2. p \in Progress /\ Fits(r, i, p, A)
  BY ProgressFits DEF Leading, Typed, Tracks
<1> HIDE DEF p
<1>3. Pushes(r, [r EXCEPT !.prs[i] = p], A)
  BY <1>2, ProgressPushes
<1>4. QED BY <1>1, <1>3 DEF leaderUnreachable, p

\* stepLeader.
LEMMA StepLeaderPushes ==
    ASSUME NEW r, NEW A, Leading(r, A), NEW m, m.from \in Server,
           m.type # "MsgTransferLeader" => m.from # r.id,
           m.type = "MsgAppResp" => Answers(m, r, A)
    PROVE  Pushes(r, stepLeader(r, m), A)
<1>1. Pushes(r, r, A)
  BY DEF Pushes, Leading, Typed
<1>2. m.type = "MsgAppResp" => Pushes(r, leaderAppResp(r, m), A)
  BY LeaderAppRespPushes
<1>3. m.type = "MsgHeartbeatResp" => Pushes(r, leaderHeartbeatResp(r, m), A)
  BY LeaderHeartbeatRespPushes
<1>4. Pushes(r, leaderTransfer(r, m.from), A)
  BY LeaderTransferPushes
<1>5. QED BY <1>1, <1>2, <1>3, <1>4 DEF stepLeader

-----------------------------------------------------------------------------
\* Nodes that do not lead, and those that come to

\* What is said with fewer acknowledgements is said with more.
LEMMA SaysMore ==
    ASSUME NEW n, NEW q, NEW A, NEW B, A \subseteq B, Says(n, q, A)
    PROVE  Says(n, q, B)
<1>1. \A i, k : Reaches(A, i, k) => Reaches(B, i, k)
  BY DEF Reaches
<1>2. QED BY <1>1 DEF Says

\* ... and so is what was kept track of and committed.
LEMMA LeadsMore ==
    ASSUME NEW r, NEW q, NEW A, NEW B, A \subseteq B, Leads(r, q, A)
    PROVE  Leads(r, q, B)
<1>1. Leading(q, B)
  <2>1. Tracks(q, B)
    BY DEF Leads, Leading, Tracks, Fits
  <2>2. \A n \in q.msgs : Says(n, q, B)
    BY SaysMore DEF Leads, Leading
  <2>3. QED BY <2>1, <2>2 DEF Leads, Leading
<1>2. Counted(q, A) => Counted(q, B)
  <2>1. \A i, k : Reaches(A, i, k) => Reaches(B, i, k)
    BY DEF Reaches
  <2>2. QED BY <2>1 DEF Counted
<1>3. QED BY <1>1, <1>2 DEF Leads

\* q grants the vote that a message of N asks for.
Votes(n, q, N) ==
    /\ Grant(n) /\ n \in Message /\ n.from = q.id /\ n.to # q.id
    /\ \E m \in N : /\ m.type = "MsgVote" /\ m.from = n.to /\ m.term = n.term
                    /\ isUpToDate(q, m.index, m.logTerm)

\* q does not lead after a step of r, and has left the log alone.
Idle(r, q, N) ==
    /\ Typed(q) /\ ~q.panic /\ q.id = r.id /\ q.state # Leader
    /\ q.log = r.log /\ q.committed <= r.committed
    /\ \A n \in q.msgs : Says(n, q, {}) \/ Votes(n, q, N)
    /\ q.state = Follower /\ q.lead # None =>
            r.state = Follower /\ q.lead = r.lead /\ q.Term = r.Term
    /\ q.state = Candidate => \/ q.Term > r.Term
                              \/ r.state = Candidate /\ q.Term = r.Term

\* q has just become leader: it has appended an entry without data, and no transfer
\* is under way.
Blank(q) == q.log[Len(q.log)].data = None /\ q.leadTransferee = None

\* q has won an election in a step of r.
Rises(r, q) ==
    /\ Leads(r, q, {}) /\ Blank(q)
    /\ q.Term > r.Term \/ (r.state = Candidate /\ q.Term = r.Term)

\* What a step of r may do that takes no entry from another leader.
Quiet(r, q, A, N) ==
    \/ Idle(r, q, N)
    \/ Rises(r, q)
    \/ r.state = Leader /\ q.Term = r.Term /\ Leads(r, q, A) /\ q.log = r.log

\* A leader has appended what it was given.
Appends(r, q, A) == r.state = Leader /\ q.Term = r.Term /\ Leads(r, q, A)

\* A node between two steps.
Steady(r, A) ==
    /\ Typed(r) /\ ~r.panic /\ r.msgs = {}
    /\ r.state = Leader => Tracks(r, A)
    /\ r.state \in {Candidate, Leader} => r.Vote = r.id
    /\ r.Term = 0 => Len(r.log) = 0
    /\ r.state = Follower /\ r.lead # None => r.lead # r.id

\* A step of a leader that pushes is quiet.
LEMMA PushesQuiet ==
    ASSUME NEW r, NEW q, NEW A, NEW N, r.state = Leader, Pushes(r, q, A)
    PROVE  Quiet(r, q, A, N)
BY DEF Quiet, Leads, Pushes

\* A node that does nothing is quiet.
LEMMA StillQuiet ==
    ASSUME NEW r, NEW A, NEW N, Steady(r, A)
    PROVE  Quiet(r, r, A, N)
<1>1. CASE r.state = Leader
  <2>1. Pushes(r, r, A)
    BY <1>1 DEF Pushes, Leading, Steady, Typed
  <2>2. QED BY <1>1, <2>1, PushesQuiet
<1>2. CASE r.state # Leader
  <2>1. r.committed <= r.committed
    BY DEF Steady, Typed
  <2>2. QED BY <1>2, <2>1 DEF Quiet, Idle, Steady
<1>3. QED BY <1>1, <1>2

\* Sending messages that anybody may send is quiet.
LEMMA SendsQuiet ==
    ASSUME NEW r, NEW q, NEW A, NEW N, NEW new, Steady(r, A), Kept(r, q), q.msgs = r.msgs \cup new,
           q.leadTransferee = r.leadTransferee, q.prs = r.prs,
           \A n \in new : Says(n, r, {})
    PROVE  Quiet(r, q, A, N)
<1>1. Typed(r) /\ ~r.panic /\ r.msgs = {} /\ r.committed \in Nat
      /\ r.leadTransferee \in Server \cup {None} /\ r.prs \in [Server -> Progress]
  BY DEF Steady, Typed, Raft
<1>2. CASE r.state = Leader
  <2>1. Leading(r, A)
    BY <1>1, <1>2 DEF Leading, Steady
  <2>2. \A n \in new : Says(n, r, A)
    BY SaysMore
  <2>3. Pushes(r, q, A)
    BY <1>1, <2>1, <2>2, KeptPushes DEF Leading, Tracks
  <2>4. QED BY <1>2, <2>3, PushesQuiet
<1>3. CASE r.state # Leader
  <2>1. Typed(q)
    BY <1>1 DEF Kept, Typed, Raft
  <2>2. q.committed >= r.committed /\ q.committed <= r.committed
    BY <1>1 DEF Kept
  <2>3. \A n \in q.msgs : Says(n, q, {})
    <3>1. \A n \in q.msgs : Says(n, r, {})
      BY <1>1
    <3>2. QED BY <1>1, <2>1, <2>2, <3>1, SaysOn DEF Kept
  <2>4. Idle(r, q, N)
    BY <1>1, <1>3, <2>1, <2>2, <2>3 DEF Idle, Kept
  <2>5. QED BY <2>4 DEF Quiet
<1>4. QED BY <1>2, <1>3

\* So is sending one message.
LEMMA SendQuiet ==
    ASSUME NEW r, NEW A, NEW N, Steady(r, A), NEW m, (m.type \in VoteMessageTypes) # (m.term = 0),
           Says(Stamped(r, m), r, {})
    PROVE  Quiet(r, send(r, m), A, N)
<1> DEFINE q == send(r, m)
           new == {Stamped(r, m)}
<1>1. Shaped(r, RaftFields)
  BY DEF Steady, Typed, Raft
<1>2. /\ Kept(r, q) /\ q.msgs = r.msgs \cup new
      /\ q.leadTransferee = r.leadTransferee /\ q.prs = r.prs
  BY <1>1, SendFacts
<1>3. \A n \in new : Says(n, r, {})
  OBVIOUS
<1> HIDE DEF q, new
<1>4. Quiet(r, q, A, N)
  BY <1>2, <1>3, SendsQuiet
<1>5. QED BY <1>4 DEF q

\* becomeLeader leads: it has its own log and knows nothing of its peers'.
LEMMA BecomeLeaderLeads ==
    ASSUME NEW p, Typed(p), ~p.panic, p.msgs = {}, p.Term # 0
    PROVE  LET q == becomeLeader(p)
           IN  /\ Leads(p, q, {}) /\ q.Term = p.Term
               /\ \E e \in Entry : e.term = q.Term /\ q.log = Append(p.log, e)
               /\ Blank(q)
<1> DEFINE last == lastIndex(p)
           prs == [i \in Server |->
                       IF i = p.id THEN BecomeReplicate(NewProgress(last, last + 1))
                       ELSE NewProgress(0, last + 1)]
           b == [reset(p, p.Term) EXCEPT !.lead = p.id, !.state = Leader, !.prs = prs]
           q == becomeLeader(p)
<1>1. Raft(p) /\ p.log \in Seq(Entry) /\ last \in Nat /\ last = Len(p.log) /\ p.Term \in Nat
      /\ p.id \in Server
  BY LenProperties DEF Typed, Raft, lastIndex
<1> HIDE DEF last
<1>2. \A i \in Server : prs[i] \in Progress /\ Fits(p, i, prs[i], {})
  <2>1. ASSUME NEW i \in Server, i = p.id PROVE prs[i] \in Progress /\ Fits(p, i, prs[i], {})
    <3> DEFINE x == NewProgress(last, last + 1)
    <3>1. last + 1 \in Nat /\ "StateProbe" \in ProgressState
      BY <1>1 DEF ProgressState
    <3>2. x \in Progress
      BY <1>1, <3>1 DEF NewProgress, Progress
    <3>3. x.Match = last /\ x.Next = last + 1
      BY DEF NewProgress
    <3> HIDE DEF x
    <3>4. Fits(p, i, x, {})
      BY <1>1, <2>1, <3>3 DEF Fits
    <3>5. prs[i] = BecomeReplicate(x)
      BY <2>1 DEF x
    <3>6. BecomeReplicate(x) \in Progress /\ Fits(p, i, BecomeReplicate(x), {})
      BY <3>2, <3>4, ProgressFits
    <3> HIDE DEF prs
    <3>7. QED BY <3>5, <3>6
  <2>2. ASSUME NEW i \in Server, i # p.id PROVE prs[i] \in Progress /\ Fits(p, i, prs[i], {})
    <3> DEFINE x == NewProgress(0, last + 1)
    <3>1. last + 1 \in Nat /\ "StateProbe" \in ProgressState
      BY <1>1 DEF ProgressState
    <3>2. x \in Progress
      BY <1>1, <3>1 DEF NewProgress, Progress
    <3>3. x.Match = 0 /\ x.Next = last + 1
      BY DEF NewProgress
    <3>4. prs[i] = x
      BY <2>2
    <3> HIDE DEF x
    <3>5. Fits(p, i, x, {})
      BY <1>1, <2>2, <3>3 DEF Fits
    <3>6. QED BY <3>2, <3>4, <3>5
  <2>3. QED BY <2>1, <2>2
<1>3. prs \in [Server -> Progress]
  <2>1. \A i \in Server : prs[i] \in Progress
    BY <1>2
  <2>2. QED BY <2>1
<1> HIDE DEF prs
<1>4. /\ Shaped(b, RaftFields) /\ b.id = p.id /\ b.Term = p.Term /\ b.Vote = p.Vote
      /\ b.state = Leader /\ b.lead = p.id /\ b.leadTransferee = None /\ b.msgs = {}
      /\ b.log = p.log /\ b.committed = p.committed /\ b.elapsed = FALSE /\ b.yes = {}
      /\ b.no = {} /\ b.prs = prs /\ b.panic = p.panic
  BY <1>1 DEF reset, Raft, Shaped, RaftFields
<1>5. q = appendEntry(b, None)
  BY DEF becomeLeader, prs, last
<1> HIDE DEF b, q
<1>6. Typed(b)
  BY <1>1, <1>3, <1>4 DEF Typed, Raft, States
<1>7. Leading(b, {})
  <2>1. Tracks(b, {})
    BY <1>2, <1>4 DEF Tracks, Fits
  <2>2. QED BY <1>4, <1>6, <2>1 DEF Leading
<1> DEFINE e == [term |-> b.Term, data |-> None]
<1>8. Leads(b, q, {}) /\ q.Term = b.Term /\ q.leadTransferee = None /\ q.log = Append(b.log, e)
  BY <1>4, <1>5, <1>7, AppendEntryLeads
<1>9. e \in Entry /\ e.term = q.Term /\ e.data = None
  BY <1>1, <1>4, <1>8 DEF Entry
<1> HIDE DEF e
<1>10. Leads(p, q, {}) /\ q.Term = p.Term
  BY <1>4, <1>8, <1>9 DEF Leads
<1>11. q.log[Len(q.log)] = e
  BY <1>1, <1>4, <1>8, <1>9, AppendFacts
<1>12. QED BY <1>8, <1>9, <1>10, <1>11, <1>4 DEF q, Blank

\* A vote request tells the candidate's log.
LEMMA RequestVotesSays ==
    ASSUME NEW r, Typed(r), (r.state = Candidate /\ r.Term # 0) \/ r.state = PreCandidate,
           NEW force \in BOOLEAN, NEW i \in Server, i # r.id
    PROVE  LET type == IF r.state = Candidate THEN "MsgVote" ELSE "MsgPreVote"
               term == IF r.state = Candidate THEN r.Term ELSE r.Term + 1
           IN  Says(Stamped(r, [Msg(type, i) EXCEPT
                                    !.term = term, !.index = lastIndex(r),
                                    !.logTerm = termAt(r.log, lastIndex(r)), !.force = force]),
                    r, {})
<1> DEFINE type == IF r.state = Candidate THEN "MsgVote" ELSE "MsgPreVote"
           term == IF r.state = Candidate THEN r.Term ELSE r.Term + 1
           last == lastIndex(r)
           lt == termAt(r.log, last)
           d == Msg(type, i)
           m == [d EXCEPT !.term = term, !.index = last, !.logTerm = lt, !.force = force]
           n == Stamped(r, m)
<1>1. Raft(r) /\ r.Term \in Nat /\ r.log \in Seq(Entry) /\ last \in Nat /\ last = Len(r.log)
      /\ lt \in Nat /\ lt = LastTerm(r.log)
  <2>1. Raft(r) /\ r.Term \in Nat /\ r.log \in Seq(Entry)
    BY DEF Typed, Raft
  <2>2. last = Len(r.log) /\ last \in Nat /\ last \in Int
    BY <2>1, LenProperties DEF lastIndex
  <2>3. lt \in Nat
    BY <2>1, <2>2, TermAtFacts
  <2>4. QED BY <2>1, <2>2, <2>3 DEF LastTerm, lastIndex
<1>2. term \in Nat /\ term # 0 /\ (r.state = Candidate => term = r.Term)
  <2>1. r.state = Candidate => r.Term # 0
    BY DEF Candidate, PreCandidate
  <2>2. r.Term + 1 \in Nat /\ r.Term + 1 # 0
    BY <1>1
  <2>3. QED BY <1>1, <2>1, <2>2
<1>3. type \in {"MsgVote", "MsgPreVote"} /\ (type = "MsgVote" => r.state = Candidate)
  OBVIOUS
<1> HIDE DEF last, lt, term, type
<1>4. type \in MessageTypes /\ type \in VoteMessageTypes
  BY <1>3 DEF MessageTypes, VoteMessageTypes
<1>5. Draft(d) /\ d.type = type /\ d.to = i /\ d.reject = FALSE
  BY <1>4, PlainDraft
<1> HIDE DEF d
<1>6. Draft(m) /\ m.type = type /\ m.to = i /\ m.term = term /\ m.index = last /\ m.logTerm = lt
  BY <1>1, <1>2, <1>5 DEF Draft, Shaped, MsgFields
<1> HIDE DEF m
<1>7. /\ n \in Message /\ n.from = r.id /\ n.to = i /\ n.type = type
      /\ n.index = last /\ n.logTerm = lt /\ n.term = term
  BY <1>1, <1>4, <1>6, StampedMessage
<1> HIDE DEF n
<1>8. Says(n, r, {})
  BY <1>1, <1>2, <1>3, <1>7 DEF Says, Grant, Ack
<1>9. QED BY <1>8 DEF n, m, d, type, term, lt, last

\* Asking for votes is quiet.
LEMMA RequestVotesIdle ==
    ASSUME NEW r, NEW p, NEW N, Typed(p), ~p.panic, p.msgs = {}, p.id = r.id, p.log = r.log,
           p.committed <= r.committed, NEW force \in BOOLEAN,
           (p.state = Candidate /\ p.Term # 0) \/ p.state = PreCandidate,
           p.state = Candidate => p.Term > r.Term
    PROVE  LET type == IF p.state = Candidate THEN "MsgVote" ELSE "MsgPreVote"
               term == IF p.state = Candidate THEN p.Term ELSE p.Term + 1
           IN  Idle(r, requestVotes(p, type, term, force), N)
<1> DEFINE type == IF p.state = Candidate THEN "MsgVote" ELSE "MsgPreVote"
           term == IF p.state = Candidate THEN p.Term ELSE p.Term + 1
           M(i) == Stamped(p, [Msg(type, i) EXCEPT
                                !.term = term, !.index = lastIndex(p),
                                !.logTerm = termAt(p.log, lastIndex(p)), !.force = force])
           new == {M(i) : i \in Peers(p)}
           q == requestVotes(p, type, term, force)
<1>1. Raft(p) /\ Shaped(p, RaftFields) /\ p.leadTransferee \in Server \cup {None}
      /\ p.prs \in [Server -> Progress] /\ p.committed \in Nat
  BY DEF Typed, Raft
<1>2. Kept(p, q) /\ q.msgs = new /\ q.leadTransferee = p.leadTransferee /\ q.prs = p.prs
  BY <1>1 DEF requestVotes, Kept, Shaped, RaftFields
<1>3. \A n \in new : Says(n, p, {})
  <2>1. \A i \in Peers(p) : i \in Server /\ i # p.id
    BY <1>1, PeersAreServers DEF Peers
  <2>2. ASSUME NEW i \in Peers(p) PROVE Says(M(i), p, {})
    BY <2>1, RequestVotesSays
  <2> HIDE DEF M
  <2>3. QED BY <2>2
<1> HIDE DEF new, q
<1>4. Typed(q)
  BY <1>1, <1>2 DEF Kept, Typed, Raft
<1>5. \A n \in q.msgs : Says(n, q, {})
  <2>1. q.committed >= p.committed
    BY <1>1, <1>2 DEF Kept
  <2>2. QED BY <1>2, <1>3, <1>4, <2>1, SaysOn DEF Kept
<1>6. q.state \in {Candidate, PreCandidate} /\ q.state # Leader /\ q.state # Follower
  BY <1>2 DEF Kept, Candidate, PreCandidate, Leader, Follower
<1>7. q.state = Candidate => q.Term > r.Term
  BY <1>2 DEF Kept
<1>8. q.id = r.id /\ q.log = r.log /\ q.committed <= r.committed /\ ~q.panic
  BY <1>2 DEF Kept
<1>9. Idle(r, q, N)
  BY <1>4, <1>5, <1>6, <1>7, <1>8 DEF Idle
<1>10. QED BY <1>9 DEF q

\* campaign: the log is left alone until an election is won, and then gets the
\* empty entry of the new term.
LEMMA CampaignQuiet ==
    ASSUME NEW r, Typed(r), ~r.panic, r.msgs = {}, NEW force \in BOOLEAN, NEW A, NEW N
    PROVE  LET q == campaign(r, force)
           IN  \/ Idle(r, q, N) /\ (q.state = Candidate => q.Term > r.Term) /\ q.state # Follower
               \/ Rises(r, q) /\ q.Term > r.Term
<1> DEFINE c == becomeCandidate(r)
           p == RecordVote(c, r.id, TRUE)
           q == requestVotes(p, "MsgVote", p.Term, force)
           b == becomeLeader(p)
<1>1. /\ Raft(r) /\ Shaped(r, RaftFields) /\ r.id \in Server /\ r.Term \in Nat
      /\ r.committed \in Nat /\ r.log \in Seq(Entry)
  BY DEF Typed, Raft
<1>2. NoProgress \in [Server -> Progress]
  BY DEF NoProgress, NewProgress, Progress, ProgressState
<1>3. /\ Shaped(c, RaftFields) /\ c.id = r.id /\ c.Term = r.Term + 1 /\ c.Vote = r.id
      /\ c.state = Candidate /\ c.lead = None /\ c.log = r.log /\ c.committed = r.committed
      /\ c.leadTransferee = None /\ c.elapsed = FALSE /\ c.yes = {} /\ c.no = {}
      /\ c.prs = NoProgress /\ c.msgs = {} /\ c.panic = r.panic
  BY <1>1 DEF becomeCandidate, reset, Shaped, RaftFields
<1> HIDE DEF c
<1>4. /\ Shaped(p, RaftFields) /\ p.id = r.id /\ p.Term = r.Term + 1 /\ p.Vote = r.id
      /\ p.state = Candidate /\ p.lead = None /\ p.log = r.log /\ p.committed = r.committed
      /\ p.leadTransferee = None /\ p.elapsed = FALSE /\ p.yes = {r.id} /\ p.no = {}
      /\ p.prs = NoProgress /\ p.msgs = {} /\ p.panic = r.panic
  BY <1>3 DEF RecordVote, Shaped, RaftFields
<1>5. campaign(r, force) = IF TallyVotes(p) = "VoteWon" THEN b ELSE q
  BY DEF campaign, c
<1> HIDE DEF p
<1>6. p.Term \in Nat /\ p.Term # 0 /\ p.Term > r.Term
  BY <1>1, <1>4
<1>7. Typed(p) /\ ~p.panic
  BY <1>1, <1>2, <1>4, <1>6 DEF Typed, Raft, States
<1>8. Idle(r, q, N) /\ q.Term = p.Term /\ q.state = Candidate
  <2>1. p.committed <= r.committed
    BY <1>1, <1>4
  <2>2. Idle(r, q, N)
    BY <1>4, <1>6, <1>7, <2>1, RequestVotesIdle
  <2>3. q.Term = p.Term /\ q.state = p.state
    BY <1>4 DEF requestVotes, Shaped, RaftFields
  <2>4. QED BY <1>4, <2>2, <2>3
<1>9. Rises(r, b) /\ b.Term > r.Term
  <2>1. /\ Leads(p, b, {}) /\ b.Term = p.Term /\ Blank(b)
        /\ \E e \in Entry : e.term = b.Term /\ b.log = Append(p.log, e)
    BY <1>4, <1>6, <1>7, BecomeLeaderLeads
  <2> HIDE DEF b
  <2>2. Leads(r, b, {})
    BY <1>4, <2>1 DEF Leads
  <2>3. QED BY <1>6, <2>1, <2>2 DEF Rises
<1> HIDE DEF b, q
<1>10. q.state # Follower /\ q.Term > r.Term
  BY <1>6, <1>8 DEF Candidate, Follower
<1>11. QED BY <1>5, <1>8, <1>9, <1>10

\* What RecordVote and becomePreCandidate keep.
LEMMA PreCandidateFacts ==
    ASSUME NEW r, Typed(r), r.msgs = {}
    PROVE  LET p == RecordVote(becomePreCandidate(r), r.id, TRUE)
           IN  /\ Typed(p) /\ p.id = r.id /\ p.Term = r.Term /\ p.state = PreCandidate
               /\ p.log = r.log /\ p.committed = r.committed /\ p.panic = r.panic /\ p.msgs = {}
<1> DEFINE c == becomePreCandidate(r)
           p == RecordVote(c, r.id, TRUE)
<1>1. /\ Raft(r) /\ Shaped(r, RaftFields) /\ r.id \in Server
  BY DEF Typed, Raft
<1>2. /\ Shaped(c, RaftFields) /\ c.id = r.id /\ c.Term = r.Term /\ c.Vote = r.Vote
      /\ c.state = PreCandidate /\ c.lead = None /\ c.log = r.log /\ c.committed = r.committed
      /\ c.leadTransferee = r.leadTransferee /\ c.elapsed = FALSE /\ c.yes = {} /\ c.no = {}
      /\ c.prs = r.prs /\ c.msgs = {} /\ c.panic = r.panic
  BY <1>1 DEF becomePreCandidate, Shaped, RaftFields
<1> HIDE DEF c
<1>3. /\ Shaped(p, RaftFields) /\ p.id = r.id /\ p.Term = r.Term /\ p.Vote = r.Vote
      /\ p.state = PreCandidate /\ p.lead = None /\ p.log = r.log /\ p.committed = r.committed
      /\ p.leadTransferee = r.leadTransferee /\ p.elapsed = FALSE /\ p.yes = {r.id} /\ p.no = {}
      /\ p.prs = r.prs /\ p.msgs = {} /\ p.panic = r.panic
  BY <1>2 DEF RecordVote, Shaped, RaftFields
<1> HIDE DEF p
<1>4. p.state \in States /\ p.state # Candidate /\ p.state # Leader
  BY <1>3 DEF States, PreCandidate, Candidate, Leader
<1>5. Typed(p)
  BY <1>1, <1>3, <1>4 DEF Typed, Raft
<1>6. QED BY <1>3, <1>5 DEF p, c

\* A campaign of a pre-candidate is one of the node.
LEMMA CampaignAfter ==
    ASSUME NEW r, NEW p, NEW A, NEW N, Typed(r), Typed(p), ~p.panic, p.msgs = {}, p.id = r.id,
           p.Term = r.Term, p.log = r.log, p.committed = r.committed,
           NEW force \in BOOLEAN
    PROVE  Quiet(r, campaign(p, force), A, N)
<1> DEFINE q == campaign(p, force)
<1>1. \/ Idle(p, q, N) /\ (q.state = Candidate => q.Term > p.Term) /\ q.state # Follower
      \/ Rises(p, q) /\ q.Term > p.Term
  BY CampaignQuiet
<1> HIDE DEF q
<1>2. Idle(p, q, N) /\ (q.state = Candidate => q.Term > p.Term) /\ q.state # Follower
      => Idle(r, q, N)
  BY DEF Idle
<1>3. Rises(p, q) /\ q.Term > p.Term => Rises(r, q)
  <2>1. SUFFICES ASSUME Rises(p, q), q.Term > p.Term PROVE Rises(r, q)
    OBVIOUS
  <2>2. Leads(p, q, {}) /\ ~(q.Term = p.Term)
    BY <2>1 DEF Rises, Typed, Raft, Leads, Leading
  <2>3. Leads(r, q, {})
    BY <2>2 DEF Leads
  <2>4. QED BY <2>1, <2>3 DEF Rises
<1>4. QED BY <1>1, <1>2, <1>3 DEF Quiet, q

\* Step(MsgHup), with and without pre-votes.
LEMMA HupQuiet ==
    ASSUME NEW r, NEW A, Steady(r, A)
    PROVE  Quiet(r, hup(r), A, {})
<1> DEFINE p == RecordVote(becomePreCandidate(r), r.id, TRUE)
           q == requestVotes(p, "MsgPreVote", p.Term + 1, FALSE)
<1>1. Typed(r) /\ ~r.panic /\ r.msgs = {} /\ r.committed \in Nat
  BY DEF Steady, Typed
<1>2. /\ Typed(p) /\ p.id = r.id /\ p.Term = r.Term /\ p.state = PreCandidate
      /\ p.log = r.log /\ p.committed = r.committed /\ ~p.panic /\ p.msgs = {}
  BY <1>1, PreCandidateFacts
<1>3. preCampaign(r) = IF TallyVotes(p) = "VoteWon" THEN campaign(p, FALSE) ELSE q
  BY DEF preCampaign
<1> HIDE DEF p
<1>4. Quiet(r, q, A, {})
  <2>1. p.committed <= r.committed /\ p.state # Candidate
    BY <1>1, <1>2 DEF PreCandidate, Candidate
  <2>2. Idle(r, q, {})
    BY <1>2, <2>1, RequestVotesIdle
  <2>3. QED BY <2>2 DEF Quiet
<1>5. Quiet(r, campaign(p, FALSE), A, {}) /\ Quiet(r, campaign(r, FALSE), A, {})
  BY <1>1, <1>2, CampaignAfter
<1>6. Quiet(r, r, A, {})
  BY StillQuiet
<1> HIDE DEF q
<1>7. QED BY <1>3, <1>4, <1>5, <1>6 DEF hup

\* What becomeFollower keeps.
LEMMA FollowerFacts ==
    ASSUME NEW r, Typed(r), NEW t \in Nat, NEW lead \in Server \cup {None}
    PROVE  LET f == becomeFollower(r, t, lead)
           IN  /\ Typed(f) /\ f.id = r.id /\ f.Term = t /\ f.state = Follower /\ f.lead = lead
               /\ f.log = r.log /\ f.committed = r.committed /\ f.panic = r.panic
               /\ f.msgs = r.msgs /\ f.state # Leader /\ f.state # Candidate
<1> DEFINE f == becomeFollower(r, t, lead)
<1>1. Raft(r) /\ Shaped(r, RaftFields)
  BY DEF Typed, Raft
<1>2. NoProgress \in [Server -> Progress]
  BY DEF NoProgress, NewProgress, Progress, ProgressState
<1>3. /\ Shaped(f, RaftFields) /\ f.id = r.id /\ f.Term = t /\ f.state = Follower
      /\ f.Vote \in {r.Vote, None} /\ f.lead = lead /\ f.log = r.log
      /\ f.committed = r.committed /\ f.leadTransferee = None /\ f.elapsed = FALSE
      /\ f.yes = {} /\ f.no = {} /\ f.prs = NoProgress /\ f.msgs = r.msgs /\ f.panic = r.panic
  BY <1>1 DEF becomeFollower, reset, Shaped, RaftFields
<1> HIDE DEF f
<1>4. f.state \in States /\ f.state # Candidate /\ f.state # Leader
  BY <1>3 DEF States, Follower, Candidate, Leader
<1>5. Typed(f)
  BY <1>1, <1>2, <1>3, <1>4 DEF Typed, Raft
<1>6. QED BY <1>3, <1>4, <1>5 DEF f

\* bcastAppend sends MsgApp only, and leaves the log and a transfer alone.
LEMMA BroadcastKeeps ==
    ASSUME NEW r, Shaped(r, RaftFields)
    PROVE  LET q == bcastAppend(r)
           IN  /\ q.log = r.log /\ q.leadTransferee = r.leadTransferee
               /\ \A m \in q.msgs : m \in r.msgs \/ m.type = "MsgApp"
<1> DEFINE T == {i \in Peers(r) : ~IsPaused(r.prs[i])}
           prs == [i \in Server |-> IF i \in T THEN AfterAppend(r, r.prs[i]) ELSE r.prs[i]]
           new == {Stamped(r, AppendMessage(r, i, r.prs[i].Next)) : i \in T}
<1>1. bcastAppend(r) = [r EXCEPT !.prs = prs, !.msgs = @ \cup new]
  BY DEF bcastAppend, maybeSendAppend
<1>2. \A m \in new : m.type = "MsgApp"
  BY DEF Stamped, AppendMessage, Msg, VoteMessageTypes
<1> HIDE DEF prs, new
<1>3. QED BY <1>1, <1>2 DEF Shaped, RaftFields

\* A quiet step of a follower of a later term that knows no leader is one of the
\* node that became it.
LEMMA QuietLater ==
    ASSUME NEW r, NEW f, NEW q, NEW A, NEW N, Typed(r), Typed(f), f.id = r.id, f.Term > r.Term,
           f.state = Follower, f.lead = None, f.log = r.log, f.committed = r.committed,
           Quiet(f, q, A, N)
    PROVE  Quiet(r, q, A, N)
<1>1. r.Term \in Nat /\ f.Term \in Nat /\ f.state # Leader /\ f.state # Candidate
  BY DEF Typed, Raft, Follower, Leader, Candidate
<1>2. CASE Idle(f, q, N)
  <2>1. q.Term \in Nat
    BY <1>2 DEF Idle, Typed, Raft
  <2>2. q.state = Candidate => q.Term > r.Term
    BY <1>1, <1>2, <2>1 DEF Idle
  <2>3. Idle(r, q, N)
    BY <1>2, <2>2 DEF Idle
  <2>4. QED BY <2>3 DEF Quiet
<1>3. CASE Rises(f, q)
  <2>1. q.Term \in Nat
    BY <1>3 DEF Rises, Leads, Leading, Typed, Raft
  <2>2. q.Term > r.Term
    BY <1>1, <1>3, <2>1 DEF Rises
  <2>3. Leads(r, q, {})
    BY <1>1, <1>3 DEF Rises, Leads
  <2>4. Blank(q)
    BY <1>3 DEF Rises
  <2>5. QED BY <2>2, <2>3, <2>4 DEF Rises, Quiet
<1>4. QED BY <1>1, <1>2, <1>3 DEF Quiet

\* Counting an answer to a vote request.
LEMMA VoteRespQuiet ==
    ASSUME NEW r, NEW A, Steady(r, A), NEW m, m.from \in Server, NEW N,
           r.state \in {Candidate, PreCandidate}
    PROVE  Quiet(r, candidateVoteResp(r, m), A, N)
<1> DEFINE p == RecordVote(r, m.from, ~m.reject)
           b == becomeLeader(p)
           f == becomeFollower(p, p.Term, None)
<1>1. /\ Typed(r) /\ Raft(r) /\ Shaped(r, RaftFields) /\ ~r.panic /\ r.msgs = {}
      /\ r.committed \in Nat /\ r.Term \in Nat /\ r.committed <= r.committed
  BY DEF Steady, Typed, Raft
<1>2. r.state # Leader /\ r.state # Follower
  BY DEF Leader, Follower, Candidate, PreCandidate
<1>3. /\ Shaped(p, RaftFields) /\ p.id = r.id /\ p.Term = r.Term /\ p.Vote = r.Vote
      /\ p.state = r.state /\ p.lead = r.lead /\ p.log = r.log /\ p.committed = r.committed
      /\ p.leadTransferee = r.leadTransferee /\ p.elapsed = r.elapsed
      /\ p.yes \subseteq r.yes \cup {m.from} /\ p.no \subseteq r.no \cup {m.from}
      /\ p.prs = r.prs /\ p.msgs = {} /\ p.panic = r.panic
  BY <1>1 DEF RecordVote, Shaped, RaftFields
<1>4. candidateVoteResp(r, m) =
        CASE TallyVotes(p) = "VoteWon" ->
                IF r.state = PreCandidate THEN campaign(p, FALSE) ELSE bcastAppend(b)
          [] TallyVotes(p) = "VoteLost" -> f
          [] OTHER -> p
  BY DEF candidateVoteResp
<1> HIDE DEF p
<1>5. Typed(p)
  BY <1>1, <1>3 DEF Typed, Raft
<1>6. Quiet(r, p, A, N)
  <2>1. Idle(r, p, N)
    BY <1>1, <1>2, <1>3, <1>5 DEF Idle
  <2>2. QED BY <2>1 DEF Quiet
<1>7. Quiet(r, f, A, N)
  <2>1. /\ Typed(f) /\ f.id = p.id /\ f.lead = None /\ f.log = p.log
        /\ f.committed = p.committed /\ f.panic = p.panic /\ f.msgs = p.msgs
        /\ f.state # Leader /\ f.state # Candidate
    BY <1>1, <1>3, <1>5, FollowerFacts
  <2> HIDE DEF f
  <2>2. Idle(r, f, N)
    BY <1>1, <1>3, <2>1 DEF Idle
  <2>3. QED BY <2>2 DEF Quiet
<1>8. Quiet(r, campaign(p, FALSE), A, N)
  BY <1>1, <1>3, <1>5, CampaignAfter
<1>9. ASSUME r.state # PreCandidate PROVE Quiet(r, bcastAppend(b), A, N)
  <2>1. r.state = Candidate /\ p.Term # 0
    BY <1>1, <1>3, <1>9 DEF Raft
  <2>2. /\ Leads(p, b, {}) /\ b.Term = p.Term /\ Blank(b)
        /\ \E e \in Entry : e.term = b.Term /\ b.log = Append(p.log, e)
    BY <1>1, <1>3, <1>5, <2>1, BecomeLeaderLeads
  <2> HIDE DEF b
  <2>3. Leads(r, b, {})
    BY <1>3, <2>2 DEF Leads
  <2>4. Pushes(b, bcastAppend(b), {})
    BY <2>3, BroadcastPushes DEF Leads
  <2>5. Leads(r, bcastAppend(b), {}) /\ bcastAppend(b).Term = r.Term
    BY <1>1, <1>3, <2>2, <2>3, <2>4, LeadsPushes DEF Pushes
  <2>6. Blank(bcastAppend(b))
    <3>1. Shaped(b, RaftFields)
      BY <2>2 DEF Leads, Leading, Typed, Raft
    <3>2. bcastAppend(b).log = b.log /\ bcastAppend(b).leadTransferee = b.leadTransferee
      BY <3>1, BroadcastKeeps
    <3>3. QED BY <2>2, <3>2 DEF Blank
  <2>7. QED BY <2>1, <2>5, <2>6 DEF Quiet, Rises
<1> HIDE DEF b, f
<1>10. QED BY <1>4, <1>6, <1>7, <1>8, <1>9

\* A response that is no vote may be sent by anybody.
LEMMA ResponseQuiet ==
    ASSUME NEW r, NEW A, NEW N, Steady(r, A), NEW m, Draft(m), m.to # r.id, m.term # 0,
           m.type = "MsgPreVoteResp" \/ (m.type = "MsgVoteResp" /\ m.reject)
    PROVE  Quiet(r, send(r, m), A, N)
<1> DEFINE n == Stamped(r, m)
<1>1. Raft(r)
  BY DEF Steady, Typed
<1>2. (m.type \in VoteMessageTypes) # (m.term = 0)
  BY DEF VoteMessageTypes
<1>3. n \in Message /\ n.from = r.id /\ n.to = m.to /\ n.type = m.type /\ n.reject = m.reject
  BY <1>1, StampedMessage
<1> HIDE DEF n
<1>4. Says(n, r, {})
  BY <1>3 DEF Says, Grant, Ack
<1>5. QED BY <1>2, <1>4, SendQuiet DEF n

\* Answering MsgVote and MsgPreVote: a vote is given to a log that is up to date.
LEMMA RespondQuiet ==
    ASSUME NEW r, NEW A, Steady(r, A), NEW m \in Message, m.type \in {"MsgVote", "MsgPreVote"},
           m.from # r.id, m.term # 0, m.term >= r.Term, m.type = "MsgVote" => m.term = r.Term
    PROVE  Quiet(r, respondToVote(r, m), A, {m})
<1> DEFINE type == IF m.type = "MsgVote" THEN "MsgVoteResp" ELSE "MsgPreVoteResp"
           i == m.from
           d == Msg(type, i)
           no == [d EXCEPT !.term = r.Term, !.reject = TRUE]
           yes == [d EXCEPT !.term = m.term]
           g == send(r, yes)
           v == [g EXCEPT !.Vote = i, !.elapsed = FALSE]
           canVote == \/ r.Vote = i
                      \/ r.Vote = None /\ r.lead = None
                      \/ m.type = "MsgPreVote" /\ m.term > r.Term
<1>1. /\ i \in Server /\ m.term \in Nat /\ Raft(r) /\ r.Term \in Nat /\ r.log \in Seq(Entry)
      /\ Typed(r) /\ Shaped(r, RaftFields) /\ m.logTerm \in Nat /\ m.index \in Nat /\ ~r.panic
      /\ r.committed \in Nat /\ r.committed <= r.committed /\ r.msgs = {} /\ i # r.id
  BY DEF Steady, Typed, Raft, Message
<1>3. respondToVote(r, m) =
        IF ~(canVote /\ isUpToDate(r, m.index, m.logTerm)) THEN send(r, no)
        ELSE IF m.type = "MsgVote" THEN v ELSE g
  BY DEF respondToVote
<1>4. type \in {"MsgVoteResp", "MsgPreVoteResp"}
  OBVIOUS
<1> HIDE DEF i, type
<1>2. /\ Draft(no) /\ no.type = type /\ no.to = i /\ no.term = r.Term /\ no.reject
      /\ Draft(yes) /\ yes.type = type /\ yes.to = i /\ yes.term = m.term /\ yes.reject = FALSE
  <2>1. type \in MessageTypes
    BY <1>4 DEF MessageTypes, VoteMessageTypes
  <2>2. Draft(d) /\ d.type = type /\ d.to = i /\ d.reject = FALSE
    BY <1>1, <2>1, PlainDraft
  <2> HIDE DEF d
  <2>3. QED BY <1>1, <2>2 DEF Draft, Shaped, MsgFields
<1> HIDE DEF no, yes, d
<1>5. ASSUME r.Term # 0 PROVE Quiet(r, send(r, no), A, {m})
  BY <1>1, <1>2, <1>4, <1>5, ResponseQuiet
<1>6. ASSUME r.Term = 0 PROVE canVote /\ isUpToDate(r, m.index, m.logTerm)
  <2>1. Len(r.log) = 0 /\ lastIndex(r) = 0
    BY <1>6 DEF Steady, lastIndex
  <2>2. termAt(r.log, lastIndex(r)) = 0
    BY <2>1 DEF termAt
  <2>3. isUpToDate(r, m.index, m.logTerm)
    BY <1>1, <2>1, <2>2 DEF isUpToDate
  <2>4. m.type = "MsgPreVote" /\ m.term > r.Term
    BY <1>1, <1>6
  <2>5. QED BY <2>3, <2>4
<1>7. ASSUME m.type = "MsgPreVote" PROVE Quiet(r, g, A, {m})
  <2>1. type = "MsgPreVoteResp"
    BY <1>7 DEF type
  <2>2. QED BY <1>1, <1>2, <2>1, ResponseQuiet
<1>8. ASSUME m.type = "MsgVote", canVote, isUpToDate(r, m.index, m.logTerm)
      PROVE  Quiet(r, v, A, {m})
  <2> DEFINE n == Stamped(r, yes)
  <2>1. type = "MsgVoteResp" /\ m.term = r.Term
    BY <1>8 DEF type
  <2>2. /\ n \in Message /\ n.from = r.id /\ n.to = i /\ n.type = type /\ n.term = m.term
        /\ n.reject = FALSE
    BY <1>1, <1>2, <2>1, StampedMessage DEF VoteMessageTypes
  <2> HIDE DEF n
  <2>4. (yes.type \in VoteMessageTypes) # (yes.term = 0)
    BY <1>2, <2>1 DEF VoteMessageTypes
  <2>5. /\ Kept(r, g) /\ g.msgs = r.msgs \cup {n}
        /\ g.leadTransferee = r.leadTransferee /\ g.prs = r.prs
    BY <1>1, <2>4, SendFacts DEF n
  <2> HIDE DEF g
  <2>6. /\ Shaped(v, RaftFields) /\ v.id = r.id /\ v.Term = r.Term /\ v.state = r.state
        /\ v.yes = r.yes /\ v.no = r.no /\ v.lead = r.lead /\ v.leadTransferee = r.leadTransferee
        /\ v.Vote = i /\ v.msgs = {n} /\ v.log = r.log /\ v.committed = r.committed
        /\ v.prs = r.prs /\ v.panic = r.panic /\ v.elapsed = FALSE
    BY <1>1, <2>5 DEF Kept, Shaped, RaftFields
  <2> HIDE DEF v
  <2>7. Typed(v)
    BY <1>1, <2>6 DEF Typed, Raft
  <2>8. r.state # Leader
    <3>1. r.Vote = i \/ r.Vote = None
      BY <1>8
    <3>2. QED BY <1>1, <3>1, CoreAssumption DEF Steady, Raft
  <2>9. isUpToDate(v, m.index, m.logTerm)
    BY <1>8, <2>6 DEF isUpToDate, lastIndex
  <2>10. Votes(n, v, {m})
    BY <1>1, <1>8, <2>1, <2>2, <2>6, <2>9 DEF Votes, Grant, i
  <2>11. Idle(r, v, {m})
    BY <1>1, <2>6, <2>7, <2>8, <2>10 DEF Idle
  <2>12. QED BY <2>11 DEF Quiet
<1> HIDE DEF g, v
<1>9. QED BY <1>3, <1>5, <1>6, <1>7, <1>8

-----------------------------------------------------------------------------
\* Followers of a leader

\* What a message of a leader whose log is l must be worth to a node r.
Backs(m, r, l) ==
    /\ l \in Seq(Entry) /\ \A i \in 1..Len(l) : l[i].term # 0
    /\ Akin(r.log, l) /\ Agrees(r.log, l, r.committed)
    /\ m.type = "MsgApp" => Carries(m, l)
    /\ m.type = "MsgHeartbeat" => m.commit = 0 \/ Agrees(r.log, l, m.commit)

\* q has followed the leader that sent m and whose log is l.
Follows(r, q, m, l) ==
    /\ Typed(q) /\ ~q.panic /\ q.id = r.id
    /\ q.Term = m.term /\ q.state = Follower /\ q.lead = m.from
    /\ q.log = r.log \/ Agrees(q.log, l, Len(q.log))
    /\ \A i \in Nat : Agrees(r.log, l, i) => Agrees(q.log, l, i)
    /\ \/ q.committed = r.committed
       \/ q.committed >= r.committed /\ q.committed <= m.commit /\ Agrees(q.log, l, q.committed)
    /\ \A n \in q.msgs : /\ n \in Message /\ n.from = q.id /\ n.to = m.from /\ n.term = q.Term
                         /\ n.type \in {"MsgAppResp", "MsgHeartbeatResp"}
                         /\ Ack(n) => Agrees(q.log, l, n.index)

\* A follower answers what its log warrants.
LEMMA SendFollows ==
    ASSUME NEW r, NEW a, NEW m, NEW l, Follows(r, a, m, l), NEW d, Draft(d), d.to = m.from,
           d.type \in {"MsgAppResp", "MsgHeartbeatResp"}, d.term = 0, Ack(d) => Agrees(a.log, l, d.index)
    PROVE  Follows(r, send(a, d), m, l)
<1> DEFINE n == Stamped(a, d)
           q == send(a, d)
<1>1. Typed(a) /\ Raft(a) /\ Shaped(a, RaftFields) /\ a.leadTransferee \in Server \cup {None}
      /\ a.prs \in [Server -> Progress]
  BY DEF Follows, Typed, Raft
<1>2. /\ n \in Message /\ n.from = a.id /\ n.to = m.from /\ n.type = d.type
      /\ n.reject = d.reject /\ n.index = d.index /\ n.term = a.Term
  BY <1>1, StampedMessage DEF VoteMessageTypes
<1>3. Ack(n) => Agrees(a.log, l, n.index)
  BY <1>2 DEF Ack
<1>4. (d.type \in VoteMessageTypes) # (d.term = 0)
  BY DEF VoteMessageTypes
<1>5. /\ Kept(a, q) /\ q.msgs = a.msgs \cup {n}
      /\ q.leadTransferee = a.leadTransferee /\ q.prs = a.prs
  BY <1>1, <1>4, SendFacts
<1> HIDE DEF n, q
<1>6. Typed(q)
  BY <1>1, <1>5 DEF Kept, Typed, Raft
<1>7. \A k \in q.msgs : /\ k \in Message /\ k.from = q.id /\ k.to = m.from /\ k.term = q.Term
                        /\ k.type \in {"MsgAppResp", "MsgHeartbeatResp"}
                        /\ Ack(k) => Agrees(q.log, l, k.index)
  BY <1>2, <1>3, <1>5 DEF Follows, Kept
<1>8. Follows(r, q, m, l)
  BY <1>5, <1>6, <1>7 DEF Follows, Kept
<1>9. QED BY <1>8 DEF q

\* A node that has become a follower and done nothing else.
LEMMA FollowerFollows ==
    ASSUME NEW r, NEW x, NEW m, NEW l, Typed(x), ~x.panic, x.msgs = {}, x.id = r.id,
           x.Term = m.term, x.state = Follower, x.lead = m.from, x.log = r.log,
           x.committed = r.committed
    PROVE  Follows(r, x, m, l)
BY DEF Follows

\* raftLog.commitTo follows a commit index up to which the log is the leader's.
LEMMA CommitFollows ==
    ASSUME NEW r, NEW x, NEW m, NEW l, Follows(r, x, m, l), x.committed = r.committed,
           NEW n \in Nat, n <= m.commit, n = 0 \/ Agrees(x.log, l, n)
    PROVE  /\ Follows(r, commitTo(x, n), m, l)
           /\ commitTo(x, n).log = x.log /\ commitTo(x, n).msgs = x.msgs
<1> DEFINE q == [x EXCEPT !.committed = n]
<1>1. Typed(x) /\ Raft(x) /\ Shaped(x, RaftFields) /\ x.committed \in Nat
      /\ Len(x.log) \in Nat
  BY LenProperties DEF Follows, Typed, Raft
<1>2. CASE x.committed >= n
  BY <1>2 DEF commitTo
<1>3. CASE ~(x.committed >= n)
  <2>1. n # 0 /\ n >= x.committed
    BY <1>1, <1>3
  <2>2. Agrees(x.log, l, n) /\ ~(lastIndex(x) < n)
    BY <1>1, <2>1 DEF Agrees, lastIndex
  <2>3. commitTo(x, n) = q
    BY <1>3, <2>2 DEF commitTo
  <2>4. /\ Shaped(q, RaftFields) /\ q.id = x.id /\ q.Term = x.Term /\ q.Vote = x.Vote
        /\ q.state = x.state /\ q.lead = x.lead /\ q.leadTransferee = x.leadTransferee
        /\ q.log = x.log /\ q.elapsed = x.elapsed /\ q.yes = x.yes /\ q.no = x.no
        /\ q.prs = x.prs /\ q.msgs = x.msgs /\ q.panic = x.panic /\ q.committed = n
    BY <1>1 DEF Shaped, RaftFields
  <2> HIDE DEF q
  <2>5. Typed(q)
    BY <1>1, <2>4 DEF Typed, Raft
  <2>6. Follows(r, q, m, l)
    BY <2>1, <2>2, <2>4, <2>5 DEF Follows
  <2>7. QED BY <2>3, <2>4, <2>6
<1>4. QED BY <1>2, <1>3

\* maybeAppend: nothing committed is in conflict with the leader, and what is
\* committed then is the leader's.
LEMMA AppendMatchedFollows ==
    ASSUME NEW r, NEW x, NEW m \in Message, NEW l, Follows(r, x, m, l), x.log = r.log,
           x.committed = r.committed, x.msgs = {}, m.type = "MsgApp", Backs(m, r, l),
           matchTerm(x.log, m.index, m.logTerm)
    PROVE  LET a == appendMatched(x, m)
           IN  /\ Follows(r, a, m, l) /\ a.msgs = {}
               /\ Agrees(a.log, l, m.index + Len(m.entries))
<1> DEFINE ents == m.entries
           index == m.index
           k == findConflict(x.log, index, ents)
           n == index + Len(ents)
           y == IF k = 0 THEN x.log
                ELSE SubSeq(x.log, 1, index + k - 1) \o SubSeq(ents, k, Len(ents))
           q == [x EXCEPT !.log = IF k = 0 THEN @
                                  ELSE SubSeq(@, 1, index + k - 1)
                                       \o SubSeq(ents, k, Len(ents))]
           c == Min({m.commit, n})
<1>1. /\ Typed(x) /\ Raft(x) /\ Shaped(x, RaftFields) /\ x.committed \in Nat
      /\ x.log \in Seq(Entry) /\ Len(x.log) \in Nat
  BY LenProperties DEF Follows, Typed, Raft
<1>2. /\ index \in Nat /\ ents \in Seq(Entry) /\ m.commit \in Nat /\ l \in Seq(Entry)
      /\ Len(l) \in Nat /\ Len(ents) \in Nat /\ n \in Nat
  BY LenProperties DEF Message, Backs
<1>3. /\ Akin(x.log, l) /\ (\A i \in 1..Len(l) : l[i].term # 0) /\ Agrees(x.log, l, x.committed)
      /\ index + Len(ents) <= Len(l) /\ (\A j \in 1..Len(ents) : ents[j] = l[index + j])
      /\ termAt(x.log, index) = termAt(l, index)
  BY DEF Backs, Carries, matchTerm
<1>4. appendMatched(x, m) = IF k # 0 /\ index + k <= x.committed
                            THEN [x EXCEPT !.panic = TRUE] ELSE commitTo(q, c)
  BY DEF appendMatched
<1>5. /\ k \in Nat /\ y \in Seq(Entry) /\ Agrees(y, l, n)
      /\ (y = x.log \/ Len(y) = n)
      /\ (\A i \in Nat : Agrees(x.log, l, i) => Agrees(y, l, i))
      /\ (k # 0 => ~Agrees(x.log, l, index + k))
  <2> DEFINE z == x.log
  <2>1. /\ z \in Seq(Entry) /\ l \in Seq(Entry) /\ Akin(z, l)
        /\ (\A i \in 1..Len(l) : l[i].term # 0)
        /\ index \in Nat /\ ents \in Seq(Entry) /\ index + Len(ents) <= Len(l)
        /\ (\A j \in 1..Len(ents) : ents[j] = l[index + j])
        /\ termAt(z, index) = termAt(l, index)
    BY <1>1, <1>2, <1>3
  <2> HIDE DEF z, ents, index, k, n, y
  <2>2. LET kk == findConflict(z, index, ents)
            nn == index + Len(ents)
            yy == IF kk = 0 THEN z
                  ELSE SubSeq(z, 1, index + kk - 1) \o SubSeq(ents, kk, Len(ents))
        IN  /\ kk \in Nat /\ nn \in Nat
            /\ yy \in Seq(Entry) /\ Agrees(yy, l, nn)
            /\ yy = z \/ Len(yy) = nn
            /\ \A i \in Nat : Agrees(z, l, i) => Agrees(yy, l, i)
            /\ kk # 0 => ~Agrees(z, l, index + kk)
    BY <2>1, AppendCopies
  <2>3. /\ k = findConflict(z, index, ents) /\ n = index + Len(ents)
        /\ y = IF k = 0 THEN z ELSE SubSeq(z, 1, index + k - 1) \o SubSeq(ents, k, Len(ents))
        /\ x.log = z
    BY DEF k, n, y, z
  <2>4. QED BY <2>2, <2>3
<1> HIDE DEF k
<1>6. ~(k # 0 /\ index + k <= x.committed)
  <2>1. SUFFICES ASSUME k # 0, index + k <= x.committed PROVE FALSE
    OBVIOUS
  <2>2. index + k \in Int /\ x.committed \in Int
    BY <1>1, <1>2, <1>5
  <2>3. Agrees(x.log, l, index + k)
    BY <1>1, <1>2, <1>3, <2>1, <2>2, AgreesLess
  <2>4. QED BY <1>5, <2>1, <2>3
<1>7. /\ Shaped(q, RaftFields) /\ q.id = x.id /\ q.Term = x.Term /\ q.Vote = x.Vote
      /\ q.state = x.state /\ q.lead = x.lead /\ q.leadTransferee = x.leadTransferee
      /\ q.log = y /\ q.elapsed = x.elapsed /\ q.yes = x.yes /\ q.no = x.no
      /\ q.prs = x.prs /\ q.msgs = {} /\ q.panic = x.panic /\ q.committed = x.committed
  BY <1>1 DEF Shaped, RaftFields
<1> HIDE DEF q, y
<1>8. Typed(q)
  BY <1>1, <1>5, <1>7 DEF Typed, Raft
<1>9. Follows(r, q, m, l)
  <2>1. q.log = r.log \/ Agrees(q.log, l, Len(q.log))
    BY <1>5, <1>7
  <2>2. \A i \in Nat : Agrees(r.log, l, i) => Agrees(q.log, l, i)
    BY <1>5, <1>7
  <2>3. QED BY <1>7, <1>8, <2>1, <2>2 DEF Follows
<1>10. c \in Nat /\ c <= m.commit /\ c <= n
  <2> HIDE DEF n, ents
  <2>1. c = IF m.commit <= n THEN m.commit ELSE n
    BY <1>2, MinOfTwo
  <2> HIDE DEF c
  <2>2. QED BY <1>2, <2>1
<1> HIDE DEF c
<1>11. Agrees(q.log, l, c)
  <2>1. Len(y) \in Nat /\ c \in Int /\ n \in Int /\ Agrees(y, l, n)
    BY <1>2, <1>5, <1>10, LenProperties
  <2> HIDE DEF n
  <2>2. QED BY <1>2, <1>7, <1>10, <2>1, AgreesLess
<1>12. /\ Follows(r, commitTo(q, c), m, l)
       /\ commitTo(q, c).log = q.log /\ commitTo(q, c).msgs = q.msgs
  <2>1. q.committed = r.committed
    BY <1>7
  <2>2. QED BY <1>9, <1>10, <1>11, <2>1, CommitFollows
<1>13. QED BY <1>4, <1>5, <1>6, <1>7, <1>12

\* handleAppendEntries.
LEMMA HandleAppendFollows ==
    ASSUME NEW r, NEW x, NEW m \in Message, NEW l, Follows(r, x, m, l), x.log = r.log,
           x.committed = r.committed, x.msgs = {}, m.type = "MsgApp", Backs(m, r, l)
    PROVE  Follows(r, handleAppendEntries(x, m), m, l)
<1> DEFINE d == Msg("MsgAppResp", m.from)
           a == appendMatched(x, m)
           n == m.index + Len(m.entries)
           X == [d EXCEPT !.index = x.committed]
           Y == [d EXCEPT !.index = n]
           Z == [d EXCEPT !.index = m.index, !.reject = TRUE, !.rejectHint = lastIndex(x)]
<1>1. /\ x.committed \in Nat /\ lastIndex(x) \in Nat /\ m.index \in Nat /\ m.from \in Server
      /\ n \in Nat
  <2>1. x.log \in Seq(Entry) /\ x.committed \in Nat
    BY DEF Follows, Typed
  <2>2. m.index \in Nat /\ m.entries \in Seq(Entry) /\ m.from \in Server
    BY DEF Message
  <2>3. Len(x.log) \in Nat /\ Len(m.entries) \in Nat
    BY <2>1, <2>2, LenProperties
  <2>4. QED BY <2>1, <2>2, <2>3 DEF lastIndex
<1>2. Draft(d) /\ d.type = "MsgAppResp" /\ d.to = m.from /\ d.term = 0
  <2>1. "MsgAppResp" \in MessageTypes
    BY DEF MessageTypes
  <2>2. QED BY <1>1, <2>1, PlainDraft
<1>3. handleAppendEntries(x, m) =
        IF m.index < x.committed THEN send(x, X)
        ELSE IF matchTerm(x.log, m.index, m.logTerm)
        THEN IF a.panic THEN a ELSE send(a, Y)
        ELSE send(x, Z)
  BY DEF handleAppendEntries
<1> HIDE DEF d, n
<1>4. /\ Draft(X) /\ X.type = "MsgAppResp" /\ X.to = m.from /\ X.term = 0 /\ X.index = x.committed
      /\ Draft(Y) /\ Y.type = "MsgAppResp" /\ Y.to = m.from /\ Y.term = 0 /\ Y.index = n
      /\ Draft(Z) /\ Z.type = "MsgAppResp" /\ Z.to = m.from /\ Z.term = 0 /\ Z.reject
  BY <1>1, <1>2 DEF Draft, Shaped, MsgFields
<1> HIDE DEF X, Y, Z
<1>5. Follows(r, send(x, X), m, l)
  <2>1. Agrees(x.log, l, X.index)
    BY <1>4 DEF Backs
  <2>2. QED BY <1>4, <2>1, SendFollows
<1>6. Follows(r, send(x, Z), m, l)
  <2>1. ~Ack(Z)
    BY <1>4 DEF Ack
  <2>2. QED BY <1>4, <2>1, SendFollows
<1>7. ASSUME matchTerm(x.log, m.index, m.logTerm)
      PROVE  ~a.panic /\ Follows(r, send(a, Y), m, l)
  <2>1. Follows(r, a, m, l) /\ Agrees(a.log, l, n)
    BY <1>7, AppendMatchedFollows DEF n
  <2> HIDE DEF a
  <2>2. ~a.panic
    BY <2>1 DEF Follows
  <2>3. Ack(Y) => Agrees(a.log, l, Y.index)
    BY <1>4, <2>1
  <2>4. Follows(r, send(a, Y), m, l)
    BY <1>4, <2>1, <2>3, SendFollows
  <2>5. QED BY <2>2, <2>4
<1> HIDE DEF a
<1>8. QED BY <1>3, <1>5, <1>6, <1>7

\* handleHeartbeat.
LEMMA HandleHeartbeatFollows ==
    ASSUME NEW r, NEW x, NEW m \in Message, NEW l, Follows(r, x, m, l), x.log = r.log,
           x.committed = r.committed, x.msgs = {}, m.type = "MsgHeartbeat", Backs(m, r, l)
    PROVE  Follows(r, handleHeartbeat(x, m), m, l)
<1> DEFINE c == commitTo(x, m.commit)
           d == Msg("MsgHeartbeatResp", m.from)
<1>1. m.commit \in Nat /\ m.from \in Server /\ m.commit <= m.commit
  BY DEF Message
<1>2. m.commit = 0 \/ Agrees(x.log, l, m.commit)
  BY DEF Backs
<1>3. Follows(r, c, m, l)
  BY <1>1, <1>2, CommitFollows
<1> HIDE DEF c
<1>4. Draft(d) /\ d.type = "MsgHeartbeatResp" /\ d.to = m.from /\ d.term = 0
  BY <1>1, PlainDraft DEF MessageTypes
<1>5. ~Ack(d)
  BY <1>4 DEF Ack
<1> HIDE DEF d
<1>6. Follows(r, send(c, d), m, l)
  BY <1>3, <1>4, <1>5, SendFollows
<1>7. QED BY <1>3, <1>6 DEF handleHeartbeat, Follows, c, d

-----------------------------------------------------------------------------
\* Step

\* What a message must be worth to a node r that takes it, where A is what was
\* acknowledged to r and l the log of the leader that sent it.
Offers(m, r, A, l) ==
    /\ m \in Message /\ (m.type # "MsgTransferLeader" => m.from # r.id)
    /\ m.type \in {"MsgVote", "MsgPreVote", "MsgAppResp", "MsgApp", "MsgHeartbeat"} => m.term # 0
    /\ m.type = "MsgAppResp" /\ r.state = Leader /\ m.term = r.Term => Answers(m, r, A)
    /\ m.type \in {"MsgApp", "MsgHeartbeat"} /\ m.term >= r.Term => Backs(m, r, l)
    /\ m.type = "MsgTransferLeader" /\ m.term # 0 /\ m.term = r.Term /\ r.state = Follower
       => r.lead = None

\* Answering a message of a lower term.
LEMMA LowerTermQuiet ==
    ASSUME NEW r, NEW A, NEW N, Steady(r, A), NEW m \in Message, m.term < r.Term,
           m.type # "MsgTransferLeader" => m.from # r.id
    PROVE  Quiet(r, stepLowerTerm(r, m), A, N)
<1> DEFINE i == m.from
           a == Msg("MsgAppResp", i)
           d == Msg("MsgPreVoteResp", i)
           no == [d EXCEPT !.term = r.Term, !.reject = TRUE]
<1>1. /\ Typed(r) /\ Raft(r) /\ r.Term \in Nat /\ m.term \in Nat /\ i \in Server /\ r.Term # 0
  BY DEF Steady, Typed, Raft, Message
<1>2. stepLowerTerm(r, m) =
        CASE (CheckQuorum \/ PreVote) /\ m.type \in {"MsgHeartbeat", "MsgApp"} -> send(r, a)
          [] m.type = "MsgPreVote" -> send(r, no)
          [] OTHER -> r
  BY DEF stepLowerTerm
<1>3. m.type \in {"MsgHeartbeat", "MsgApp", "MsgPreVote"} => i # r.id
  OBVIOUS
<1> HIDE DEF i
<1>4. /\ Draft(a) /\ a.type = "MsgAppResp" /\ a.to = i /\ a.term = 0 /\ a.index = 0
      /\ Draft(d) /\ d.type = "MsgPreVoteResp" /\ d.to = i
  BY <1>1, PlainDraft DEF MessageTypes, VoteMessageTypes
<1> HIDE DEF a, d
<1>5. Draft(no) /\ no.type = "MsgPreVoteResp" /\ no.to = i /\ no.term = r.Term
  BY <1>1, <1>4 DEF Draft, Shaped, MsgFields
<1> HIDE DEF no
<1>6. i # r.id => Quiet(r, send(r, no), A, N)
  BY <1>1, <1>5, ResponseQuiet
<1>7. ASSUME i # r.id PROVE Quiet(r, send(r, a), A, N)
  <2> DEFINE n == Stamped(r, a)
  <2>1. (a.type \in VoteMessageTypes) # (a.term = 0)
    BY <1>4 DEF VoteMessageTypes
  <2>2. /\ n \in Message /\ n.from = r.id /\ n.to = i /\ n.type = "MsgAppResp"
        /\ n.index = 0 /\ n.term = r.Term
    BY <1>1, <1>4, StampedMessage DEF VoteMessageTypes
  <2> HIDE DEF n
  <2>3. Says(n, r, {})
    BY <1>1, <1>7, <2>2 DEF Says, Grant, Ack
  <2>4. QED BY <2>1, <2>3, SendQuiet DEF n
<1>8. Quiet(r, r, A, N)
  BY StillQuiet
<1>9. QED BY <1>2, <1>3, <1>6, <1>7, <1>8

\* stepFollower: the messages of a leader are followed, a request to transfer
\* leadership is passed on to the leader.
LEMMA StepFollowerQuiet ==
    ASSUME NEW r, NEW A, NEW l, NEW N, Steady(r, A), NEW m, Offers(m, r, A, l),
           m.term = 0 \/ m.term = r.Term \/ m.type = "MsgPreVoteResp", r.state = Follower
    PROVE  LET q == stepFollower(r, m)
           IN  IF m.type \in {"MsgApp", "MsgHeartbeat"} THEN Follows(r, q, m, l)
               ELSE Quiet(r, q, A, N)
<1> DEFINE f == [r EXCEPT !.elapsed = FALSE, !.lead = m.from]
           d == [m EXCEPT !.to = r.lead]
<1>1. /\ Typed(r) /\ Raft(r) /\ Shaped(r, RaftFields) /\ r.Term \in Nat /\ ~r.panic
      /\ r.msgs = {} /\ m \in Message /\ m.from \in Server
      /\ r.lead \in Server \cup {None} /\ (r.lead # r.id \/ r.lead = None)
  BY DEF Steady, Typed, Raft, Message, Offers
<1>2. stepFollower(r, m) =
        CASE m.type = "MsgApp" -> handleAppendEntries(f, m)
          [] m.type = "MsgHeartbeat" -> handleHeartbeat(f, m)
          [] m.type = "MsgTimeoutNow" -> IF promotable(r) THEN campaign(r, TRUE) ELSE r
          [] m.type = "MsgTransferLeader" /\ r.lead # None -> send(r, d)
          [] OTHER -> r
  BY DEF stepFollower
<1>3. ASSUME m.type \in {"MsgApp", "MsgHeartbeat"}
      PROVE  /\ Follows(r, f, m, l) /\ f.log = r.log /\ f.committed = r.committed /\ f.msgs = {}
             /\ Backs(m, r, l)
  <2>1. m.term = r.Term /\ m.term >= r.Term
    BY <1>1, <1>3 DEF Offers
  <2>2. /\ Shaped(f, RaftFields) /\ f.id = r.id /\ f.Term = r.Term /\ f.Vote = r.Vote
        /\ f.state = r.state /\ f.lead = m.from /\ f.leadTransferee = r.leadTransferee
        /\ f.log = r.log /\ f.elapsed = FALSE /\ f.yes = r.yes /\ f.no = r.no
        /\ f.prs = r.prs /\ f.msgs = {} /\ f.panic = r.panic /\ f.committed = r.committed
    BY <1>1 DEF Shaped, RaftFields
  <2> HIDE DEF f
  <2>3. Typed(f)
    BY <1>1, <2>2 DEF Typed, Raft
  <2>4. Follows(r, f, m, l)
    BY <1>1, <2>1, <2>2, <2>3, FollowerFollows
  <2>5. QED BY <1>3, <2>1, <2>2, <2>4 DEF Offers
<1>4. m.type = "MsgApp" => Follows(r, handleAppendEntries(f, m), m, l)
  <2> HIDE DEF f
  <2>1. QED BY <1>1, <1>3, HandleAppendFollows
<1>5. m.type = "MsgHeartbeat" => Follows(r, handleHeartbeat(f, m), m, l)
  <2> HIDE DEF f
  <2>1. QED BY <1>1, <1>3, HandleHeartbeatFollows
<1>6. Quiet(r, campaign(r, TRUE), A, N)
  BY <1>1, CampaignAfter
<1>7. Quiet(r, r, A, N)
  BY StillQuiet
<1>8. ASSUME m.type = "MsgTransferLeader", r.lead # None
      PROVE  Quiet(r, send(r, d), A, N)
  <2> DEFINE n == Stamped(r, d)
  <2>1. m.term = 0 /\ r.lead \in Server /\ r.lead # r.id
    BY <1>1, <1>8 DEF Offers
  <2>2. Draft(d) /\ d.type = "MsgTransferLeader" /\ d.to = r.lead /\ d.term = 0
    BY <1>1, <1>8, <2>1 DEF Draft, Message, Shaped, MsgFields
  <2> HIDE DEF d
  <2>3. (d.type \in VoteMessageTypes) # (d.term = 0)
    BY <2>2 DEF VoteMessageTypes
  <2>4. /\ n \in Message /\ n.from = r.id /\ n.to = r.lead /\ n.type = "MsgTransferLeader"
        /\ n.term = r.Term
    BY <1>1, <2>2, StampedMessage DEF VoteMessageTypes
  <2> HIDE DEF n
  <2>5. Says(n, r, {})
    BY <2>1, <2>4 DEF Says, Grant, Ack
  <2>6. QED BY <2>3, <2>5, SendQuiet DEF n
<1> HIDE DEF f, d
<1>9. QED BY <1>2, <1>4, <1>5, <1>6, <1>7, <1>8

\* stepCandidate: a leader of the term is followed.
LEMMA StepCandidateQuiet ==
    ASSUME NEW r, NEW A, NEW l, NEW N, Steady(r, A), NEW m, Offers(m, r, A, l),
           m.term = 0 \/ m.term = r.Term \/ m.type = "MsgPreVoteResp",
           r.state \in {Candidate, PreCandidate}
    PROVE  LET q == stepCandidate(r, m)
           IN  IF m.type \in {"MsgApp", "MsgHeartbeat"} THEN Follows(r, q, m, l)
               ELSE Quiet(r, q, A, N)
<1> DEFINE f == becomeFollower(r, m.term, m.from)
           type == IF r.state = PreCandidate THEN "MsgPreVoteResp" ELSE "MsgVoteResp"
<1>1. /\ Typed(r) /\ r.Term \in Nat /\ ~r.panic /\ r.msgs = {}
      /\ m \in Message /\ m.from \in Server /\ m.term \in Nat
  BY DEF Steady, Typed, Raft, Message, Offers
<1>2. stepCandidate(r, m) =
        CASE m.type = "MsgApp" -> handleAppendEntries(f, m)
          [] m.type = "MsgHeartbeat" -> handleHeartbeat(f, m)
          [] m.type = type -> candidateVoteResp(r, m)
          [] OTHER -> r
  BY DEF stepCandidate
<1>3. ASSUME m.type \in {"MsgApp", "MsgHeartbeat"}
      PROVE  /\ Follows(r, f, m, l) /\ f.log = r.log /\ f.committed = r.committed /\ f.msgs = {}
             /\ Backs(m, r, l)
  <2>1. m.term = r.Term /\ m.term >= r.Term
    BY <1>1, <1>3 DEF Offers
  <2>2. /\ Typed(f) /\ f.id = r.id /\ f.Term = m.term /\ f.state = Follower /\ f.lead = m.from
        /\ f.log = r.log /\ f.committed = r.committed /\ f.panic = r.panic /\ f.msgs = r.msgs
    BY <1>1, FollowerFacts
  <2> HIDE DEF f
  <2>3. Follows(r, f, m, l)
    BY <1>1, <2>2, FollowerFollows
  <2>4. QED BY <1>1, <1>3, <2>1, <2>2, <2>3 DEF Offers
<1> HIDE DEF f
<1>4. m.type = "MsgApp" => Follows(r, handleAppendEntries(f, m), m, l)
  BY <1>1, <1>3, HandleAppendFollows
<1>5. m.type = "MsgHeartbeat" => Follows(r, handleHeartbeat(f, m), m, l)
  BY <1>1, <1>3, HandleHeartbeatFollows
<1>6. Quiet(r, candidateVoteResp(r, m), A, N)
  BY <1>1, VoteRespQuiet
<1>7. Quiet(r, r, A, N)
  BY StillQuiet
<1>8. type \notin {"MsgApp", "MsgHeartbeat"}
  OBVIOUS
<1> HIDE DEF type
<1>9. QED BY <1>2, <1>4, <1>5, <1>6, <1>7, <1>8

\* The switch of Step on a message of the node's term, of no term, or about a
\* pre-vote.
LEMMA DispatchQuiet ==
    ASSUME NEW r, NEW A, NEW l, Steady(r, A), NEW m, Offers(m, r, A, l),
           m.term = 0 \/ m.term = r.Term \/ m.type = "MsgPreVoteResp"
           \/ (m.type = "MsgPreVote" /\ m.term >= r.Term)
    PROVE  LET q == dispatch(r, m)
           IN  IF m.type \in {"MsgApp", "MsgHeartbeat"} /\ r.state # Leader
               THEN Follows(r, q, m, l) ELSE Quiet(r, q, A, {m})
<1> DEFINE d == Msg("MsgProbeRttResp", m.from)
<1>1. /\ Typed(r) /\ Raft(r) /\ r.Term \in Nat /\ m \in Message /\ m.from \in Server
      /\ m.term \in Nat /\ r.state \in States
  BY DEF Steady, Typed, Raft, Message, Offers
<1>2. dispatch(r, m) =
        CASE m.type \in {"MsgVote", "MsgPreVote"} -> respondToVote(r, m)
          [] m.type = "MsgProbeRtt" -> send(r, d)
          [] m.type = "MsgProbeRttResp" -> r
          [] OTHER -> CASE r.state = Leader -> stepLeader(r, m)
                        [] r.state = Follower -> stepFollower(r, m)
                        [] OTHER -> stepCandidate(r, m)
  BY DEF dispatch
<1>3. m.type \in {"MsgVote", "MsgPreVote"} => Quiet(r, respondToVote(r, m), A, {m})
  <2>1. SUFFICES ASSUME m.type \in {"MsgVote", "MsgPreVote"}
                 PROVE  Quiet(r, respondToVote(r, m), A, {m})
    OBVIOUS
  <2>2. m.term # 0 /\ m.from # r.id
    BY <2>1 DEF Offers
  <2>3. m.term >= r.Term /\ (m.type = "MsgVote" => m.term = r.Term)
    BY <1>1, <2>1, <2>2
  <2>4. QED BY <1>1, <2>1, <2>2, <2>3, RespondQuiet
<1>4. m.type = "MsgProbeRtt" => Quiet(r, send(r, d), A, {m})
  <2>1. SUFFICES ASSUME m.type = "MsgProbeRtt" PROVE Quiet(r, send(r, d), A, {m})
    OBVIOUS
  <2>2. m.from # r.id
    BY <2>1 DEF Offers
  <2>3. Draft(d) /\ d.type = "MsgProbeRttResp" /\ d.to = m.from /\ d.term = 0
    BY <1>1, PlainDraft DEF MessageTypes
  <2> HIDE DEF d
  <2>4. (d.type \in VoteMessageTypes) # (d.term = 0)
    BY <2>3 DEF VoteMessageTypes
  <2>5. Says(Stamped(r, d), r, {})
    BY <1>1, <2>2, <2>3, SaysPlain
  <2>6. QED BY <2>4, <2>5, SendQuiet
<1>5. Quiet(r, r, A, {m})
  BY StillQuiet
<1>6. ASSUME r.state = Leader, m.type \notin {"MsgVote", "MsgPreVote"}
      PROVE  Quiet(r, stepLeader(r, m), A, {m})
  <2>1. Leading(r, A)
    BY <1>6 DEF Steady, Leading
  <2>2. m.type = "MsgAppResp" => Answers(m, r, A)
    BY <1>6 DEF Offers
  <2>3. m.type # "MsgTransferLeader" => m.from # r.id
    BY DEF Offers
  <2>4. Pushes(r, stepLeader(r, m), A)
    BY <1>1, <2>1, <2>2, <2>3, StepLeaderPushes
  <2>5. QED BY <1>6, <2>4, PushesQuiet
<1>7. ASSUME r.state = Follower, m.type \notin {"MsgVote", "MsgPreVote"}
      PROVE  IF m.type \in {"MsgApp", "MsgHeartbeat"} THEN Follows(r, stepFollower(r, m), m, l)
             ELSE Quiet(r, stepFollower(r, m), A, {m})
  BY <1>7, StepFollowerQuiet
<1>8. ASSUME r.state # Leader, r.state # Follower, m.type \notin {"MsgVote", "MsgPreVote"}
      PROVE  IF m.type \in {"MsgApp", "MsgHeartbeat"} THEN Follows(r, stepCandidate(r, m), m, l)
             ELSE Quiet(r, stepCandidate(r, m), A, {m})
  <2>1. r.state \in {Candidate, PreCandidate}
    BY <1>1, <1>8 DEF States
  <2>2. QED BY <1>8, <2>1, StepCandidateQuiet
<1>9. Follower # Leader
  BY DEF Follower, Leader
<1> HIDE DEF d
<1>10. QED BY <1>2, <1>3, <1>4, <1>5, <1>6, <1>7, <1>8, <1>9

\* A message makes a node follow the leader that sent it, or is handled quietly.
LEMMA StepQuiet ==
    ASSUME NEW r, NEW A, NEW l, Steady(r, A), NEW m, Offers(m, r, A, l)
    PROVE  LET q == Step(r, m)
           IN  \/ Quiet(r, q, A, {m})
               \/ m.type \in {"MsgApp", "MsgHeartbeat"} /\ m.term >= r.Term /\ Follows(r, q, m, l)
<1> DEFINE lead == IF m.type \in {"MsgApp", "MsgHeartbeat"} THEN m.from ELSE None
           f == becomeFollower(r, m.term, lead)
           Done(q) == \/ Quiet(r, q, A, {m})
                      \/ m.type \in {"MsgApp", "MsgHeartbeat"} /\ m.term >= r.Term
                         /\ Follows(r, q, m, l)
<1>1. /\ Typed(r) /\ Raft(r) /\ r.Term \in Nat /\ m \in Message /\ m.from \in Server
      /\ m.term \in Nat /\ ~r.panic /\ r.msgs = {}
  BY DEF Steady, Typed, Raft, Message, Offers
<1>2. Done(r)
  BY StillQuiet
<1>3. m.term < r.Term => Done(stepLowerTerm(r, m))
  BY <1>1, LowerTermQuiet DEF Offers
<1>4. ASSUME m.term = 0 \/ m.term = r.Term \/ m.type = "MsgPreVoteResp"
             \/ (m.type = "MsgPreVote" /\ m.term >= r.Term)
      PROVE  Done(dispatch(r, m))
  <2>1. IF m.type \in {"MsgApp", "MsgHeartbeat"} /\ r.state # Leader
        THEN Follows(r, dispatch(r, m), m, l) ELSE Quiet(r, dispatch(r, m), A, {m})
    BY <1>4, DispatchQuiet
  <2>2. m.type \in {"MsgApp", "MsgHeartbeat"} => m.term >= r.Term
    BY <1>1, <1>4 DEF Offers
  <2>3. QED BY <2>1, <2>2
<1>5. ASSUME m.term > r.Term PROVE Done(dispatch(f, m))
  <2>1. lead \in Server \cup {None} /\ (lead # None => lead = m.from)
        /\ (m.type \notin {"MsgApp", "MsgHeartbeat"} => lead = None)
        /\ (lead # None => lead # r.id)
    BY <1>1 DEF Offers
  <2> HIDE DEF lead
  <2>2. /\ Typed(f) /\ f.id = r.id /\ f.Term = m.term /\ f.state = Follower /\ f.lead = lead
        /\ f.log = r.log /\ f.committed = r.committed /\ f.panic = r.panic
        /\ f.msgs = r.msgs /\ f.state # Leader /\ f.state # Candidate
    BY <1>1, <2>1, FollowerFacts
  <2> HIDE DEF f
  <2>3. f.Term # 0 /\ m.term >= r.Term
    BY <1>1, <1>5, <2>2
  <2>4. Steady(f, A)
    BY <1>1, <2>1, <2>2, <2>3 DEF Steady
  <2>5. Offers(m, f, A, l)
    <3>1. m.type \in {"MsgApp", "MsgHeartbeat"} => Backs(m, f, l)
      BY <2>2, <2>3 DEF Offers, Backs
    <3>2. QED BY <2>1, <2>2, <3>1 DEF Offers
  <2>6. IF m.type \in {"MsgApp", "MsgHeartbeat"} /\ f.state # Leader
        THEN Follows(f, dispatch(f, m), m, l) ELSE Quiet(f, dispatch(f, m), A, {m})
    BY <2>2, <2>4, <2>5, DispatchQuiet
  <2>7. CASE m.type \in {"MsgApp", "MsgHeartbeat"}
    <3>1. Follows(f, dispatch(f, m), m, l)
      BY <2>2, <2>6, <2>7
    <3>2. Follows(r, dispatch(f, m), m, l)
      BY <2>2, <3>1 DEF Follows
    <3>3. QED BY <2>3, <2>7, <3>2
  <2>8. CASE m.type \notin {"MsgApp", "MsgHeartbeat"}
    <3>1. Quiet(f, dispatch(f, m), A, {m})
      BY <2>6, <2>8
    <3>2. f.lead = None /\ f.Term > r.Term
      BY <1>5, <2>1, <2>2, <2>8
    <3>3. Quiet(r, dispatch(f, m), A, {m})
      BY <1>1, <2>2, <3>1, <3>2, QuietLater
    <3>4. QED BY <3>3
  <2>9. QED BY <2>7, <2>8
<1>6. atTermOf(r, m) = IF \/ m.term <= r.Term
                          \/ m.type = "MsgPreVote"
                          \/ m.type = "MsgPreVoteResp" /\ ~m.reject
                       THEN r ELSE f
  BY DEF atTermOf
<1> HIDE DEF f
<1>7. ~(m.term < r.Term) => Done(dispatch(atTermOf(r, m), m))
  <2>1. SUFFICES ASSUME ~(m.term < r.Term) PROVE Done(dispatch(atTermOf(r, m), m))
    OBVIOUS
  <2>2. CASE \/ m.term <= r.Term
             \/ m.type = "MsgPreVote"
             \/ m.type = "MsgPreVoteResp" /\ ~m.reject
    <3>1. atTermOf(r, m) = r
      BY <1>6, <2>2
    <3>2. m.term = r.Term \/ m.type = "MsgPreVoteResp" \/ (m.type = "MsgPreVote" /\ m.term >= r.Term)
      BY <1>1, <2>1, <2>2
    <3> HIDE DEF Done
    <3>3. QED BY <1>4, <3>1, <3>2
  <2>3. CASE ~(\/ m.term <= r.Term
               \/ m.type = "MsgPreVote"
               \/ m.type = "MsgPreVoteResp" /\ ~m.reject)
    <3>1. atTermOf(r, m) = f
      BY <1>6, <2>3
    <3>2. m.term > r.Term
      BY <1>1, <2>3
    <3> HIDE DEF Done
    <3>3. QED BY <1>5, <3>1, <3>2
  <2>4. QED BY <2>2, <2>3
<1>8. m.term = 0 => Done(dispatch(r, m))
  BY <1>4
<1> HIDE DEF Done
<1>9. Done(Step(r, m))
  BY <1>2, <1>3, <1>7, <1>8 DEF Step
<1>10. QED BY <1>9 DEF Done

-----------------------------------------------------------------------------
\* The steps that no message causes

\* What becomes of the payload that a client or a follower hands to r: it is dropped,
\* passed on once, or appended once by a leader that is not about to give up its term.
Hands(r, q, data) ==
    \/ dropsProposal(r) /\ q = r
    \/ /\ ~dropsProposal(r) /\ q.log = r.log
       /\ \A m, n \in Forwarded(q) : m = n /\ m.entries[1].data = data
    \/ /\ ~dropsProposal(r) /\ Forwarded(q) = {} /\ r.leadTransferee = None
       /\ q.log = Append(r.log, [term |-> q.Term, data |-> data])

\* Step(MsgProp): a proposal is dropped, passed on or appended.
LEMMA ProposeQuiet ==
    ASSUME NEW r, NEW A, NEW N, Steady(r, A), NEW data \in Value \cup {None}
    PROVE  LET q == propose(r, data)
           IN  /\ Quiet(r, q, A, N) \/ Appends(r, q, A)
               /\ Hands(r, q, data)
<1> DEFINE to == forwardTo(r)
           ents == <<[term |-> 0, data |-> data]>>
           d == Msg("MsgProp", to)
           m == [d EXCEPT !.entries = ents]
           e == appendEntry(r, data)
<1>1. /\ Typed(r) /\ Raft(r) /\ r.msgs = {} /\ to \in Server \cup {None} /\ Shaped(r, RaftFields)
  BY DEF Steady, Typed, Raft, forwardTo
<1>2. propose(r, data) = IF dropsProposal(r) THEN r
                         ELSE IF to # None THEN send(r, m) ELSE bcastAppend(e)
  BY DEF propose
<1>3. ~dropsProposal(r) /\ to = None => r.state = Leader /\ r.leadTransferee = None
  BY DEF dropsProposal, forwardTo
<1> HIDE DEF to
<1>4. ASSUME to # None, ~dropsProposal(r)
      PROVE  Quiet(r, send(r, m), A, N) /\ Hands(r, send(r, m), data)
  <2> DEFINE n == Stamped(r, m)
  <2>1. ents \in Seq(Entry) /\ Len(ents) = 1 /\ ents[1].data = data
    BY DEF Entry
  <2>2. Draft(d) /\ d.type = "MsgProp" /\ d.to = to /\ d.term = 0
    <3>1. to \in Server /\ "MsgProp" \in MessageTypes
      BY <1>1, <1>4 DEF MessageTypes
    <3>2. QED BY <3>1, PlainDraft
  <2> HIDE DEF ents, d
  <2>3. Draft(m) /\ m.type = "MsgProp" /\ m.to = to /\ m.term = 0 /\ m.entries = ents
    BY <2>1, <2>2 DEF Draft, Shaped, MsgFields
  <2> HIDE DEF m
  <2>4. (m.type \in VoteMessageTypes) # (m.term = 0)
    BY <2>3 DEF VoteMessageTypes
  <2>5. n \in Message /\ n.from = r.id /\ n.type = "MsgProp" /\ n.entries = ents
    BY <1>1, <2>3, StampedMessage
  <2>6. send(r, m).msgs = {n} /\ send(r, m).log = r.log
    <3>1. Kept(r, send(r, m)) /\ send(r, m).msgs = r.msgs \cup {n}
      BY <1>1, <2>4, SendFacts
    <3>2. QED BY <1>1, <3>1 DEF Kept
  <2> HIDE DEF n
  <2>7. Says(n, r, {})
    BY <2>1, <2>5 DEF Says, Grant, Ack
  <2>8. Quiet(r, send(r, m), A, N)
    BY <2>4, <2>7, SendQuiet DEF n
  <2>9. Hands(r, send(r, m), data)
    BY <1>4, <2>1, <2>5, <2>6 DEF Hands, Forwarded
  <2>10. QED BY <2>8, <2>9
<1>5. ASSUME r.state = Leader, to = None, ~dropsProposal(r)
      PROVE  Appends(r, bcastAppend(e), A) /\ Hands(r, bcastAppend(e), data)
  <2>1. Leading(r, A)
    BY <1>5 DEF Steady, Leading
  <2>2. /\ Leads(r, e, A) /\ e.Term = r.Term /\ e.msgs = {}
        /\ e.log = Append(r.log, [term |-> r.Term, data |-> data])
    BY <1>1, <2>1, AppendEntryLeads
  <2> HIDE DEF e
  <2>3. Pushes(e, bcastAppend(e), A)
    BY <2>2, BroadcastPushes DEF Leads
  <2>4. Leads(r, bcastAppend(e), A) /\ bcastAppend(e).Term = r.Term
    BY <1>1, <2>2, <2>3, LeadsPushes DEF Pushes
  <2>5. Appends(r, bcastAppend(e), A)
    BY <1>5, <2>4 DEF Appends
  <2>6. Shaped(e, RaftFields)
    BY <2>2 DEF Leads, Leading, Typed, Raft
  <2>7. bcastAppend(e).log = e.log /\ \A k \in bcastAppend(e).msgs : k.type = "MsgApp"
    BY <2>2, <2>6, BroadcastKeeps
  <2>8. Hands(r, bcastAppend(e), data)
    BY <1>3, <1>5, <2>2, <2>4, <2>7 DEF Hands, Forwarded
  <2>9. QED BY <2>5, <2>8
<1>6. Quiet(r, r, A, N)
  BY StillQuiet
<1> HIDE DEF e, m
<1>7. CASE dropsProposal(r)
  BY <1>2, <1>6, <1>7 DEF Hands
<1>8. CASE ~dropsProposal(r)
  BY <1>2, <1>3, <1>4, <1>5, <1>8
<1>9. QED BY <1>7, <1>8

\* The local MsgTransferLeader.
LEMMA TransferQuiet ==
    ASSUME NEW r, NEW A, Steady(r, A), NEW i \in Server
    PROVE  \E N : Quiet(r, transfer(r, i), A, N) /\ (\A m \in N : m.type = "MsgTransferLeader")
<1> DEFINE m == [Msg("MsgTransferLeader", r.id) EXCEPT !.from = i]
<1>1. r.id \in Server
  BY DEF Steady, Typed, Raft
<1>2. <<>> \in Seq(Entry)
  BY EmptySeq
<1>3. m \in Message /\ m.type = "MsgTransferLeader" /\ m.term = 0
  BY <1>1, <1>2 DEF Msg, Message, MessageTypes
<1>4. transfer(r, i) = dispatch(r, m)
  BY DEF transfer
<1> HIDE DEF m
<1>5. Offers(m, r, A, <<>>)
  BY <1>3 DEF Offers
<1>6. Quiet(r, dispatch(r, m), A, {m})
  BY <1>3, <1>5, DispatchQuiet
<1>7. QED BY <1>3, <1>4, <1>6

\* The election timeout passes at a follower.
LEMMA ElapseQuiet ==
    ASSUME NEW r, NEW A, NEW N, Steady(r, A), r.state = Follower
    PROVE  Quiet(r, [r EXCEPT !.elapsed = TRUE], A, N)
<1> DEFINE q == [r EXCEPT !.elapsed = TRUE]
<1>1. /\ Typed(r) /\ Raft(r) /\ Shaped(r, RaftFields) /\ r.committed <= r.committed
      /\ r.state # Leader /\ r.state # Candidate /\ ~r.panic /\ r.msgs = {}
  BY DEF Steady, Typed, Raft, Follower, Leader, Candidate
<1>2. /\ Shaped(q, RaftFields) /\ q.id = r.id /\ q.Term = r.Term /\ q.Vote = r.Vote
      /\ q.state = r.state /\ q.lead = r.lead /\ q.leadTransferee = r.leadTransferee
      /\ q.log = r.log /\ q.elapsed = TRUE /\ q.yes = r.yes /\ q.no = r.no
      /\ q.prs = r.prs /\ q.msgs = {} /\ q.panic = r.panic /\ q.committed = r.committed
  BY <1>1 DEF Shaped, RaftFields
<1> HIDE DEF q
<1>3. Typed(q)
  BY <1>1, <1>2 DEF Typed, Raft
<1>4. Idle(r, q, N)
  BY <1>1, <1>2, <1>3 DEF Idle
<1>5. QED BY <1>4 DEF Quiet, q

\* MsgBeat.
LEMMA BeatQuiet ==
    ASSUME NEW r, NEW A, NEW N, Steady(r, A), r.state = Leader
    PROVE  Quiet(r, bcastHeartbeat(r), A, N)
<1>1. Leading(r, A)
  BY DEF Steady, Leading
<1>2. QED BY <1>1, HeartbeatPushes, PushesQuiet

\* A peer cannot be reached.
LEMMA UnreachableQuiet ==
    ASSUME NEW r, NEW A, NEW N, Steady(r, A), r.state = Leader, NEW i \in Server
    PROVE  Quiet(r, leaderUnreachable(r, i), A, N)
<1>1. Leading(r, A)
  BY DEF Steady, Leading
<1>2. QED BY <1>1, LeaderUnreachablePushes, PushesQuiet

\* MsgProbeRttHup.
LEMMA ProbeQuiet ==
    ASSUME NEW r, NEW A, NEW N, Steady(r, A)
    PROVE  Quiet(r, bcastProbeRtt(r), A, N)
<1> DEFINE q == bcastProbeRtt(r)
           M(i) == Stamped(r, Msg("MsgProbeRtt", i))
           new == {M(i) : i \in Peers(r)}
<1>1. Raft(r) /\ Shaped(r, RaftFields)
  BY DEF Steady, Typed, Raft
<1>2. /\ Kept(r, q) /\ q.msgs = r.msgs \cup new
      /\ q.leadTransferee = r.leadTransferee /\ q.prs = r.prs
  BY <1>1 DEF bcastProbeRtt, Kept, Shaped, RaftFields
<1>3. \A n \in new : Says(n, r, {})
  <2>1. ASSUME NEW i \in Peers(r) PROVE Says(M(i), r, {})
    <3> DEFINE d == Msg("MsgProbeRtt", i)
    <3>1. i \in Server /\ i # r.id
      BY <1>1, PeersAreServers DEF Peers
    <3>2. Draft(d) /\ d.type = "MsgProbeRtt" /\ d.to = i
      BY <3>1, PlainDraft DEF MessageTypes
    <3> HIDE DEF d
    <3>3. Says(Stamped(r, d), r, {})
      BY <1>1, <3>1, <3>2, SaysPlain
    <3>4. QED BY <3>3 DEF d
  <2> HIDE DEF M
  <2>2. QED BY <2>1
<1> HIDE DEF q, new
<1>4. Quiet(r, q, A, N)
  BY <1>2, <1>3, SendsQuiet
<1>5. QED BY <1>4 DEF q

\* The check of the quorum, and the end of a transfer that took too long.
LEMMA TickQuiet ==
    ASSUME NEW r, NEW A, NEW N, Steady(r, A), r.state = Leader
    PROVE  Quiet(r, abortLeaderTransfer(IF CheckQuorum THEN leaderCheckQuorum(r) ELSE r), A, N)
<1> DEFINE f == becomeFollower(r, r.Term, None)
           active == {i \in IDs(Voters[r.id]) : r.prs[i].RecentActive} \cup
                     ({r.id} \cap IDs(Voters[r.id]))
           prs == [i \in Server |->
                    [r.prs[i] EXCEPT !.RecentActive = (i = r.id /\ r.id \in active)]]
           q == [r EXCEPT !.prs = prs]
<1>1. /\ Typed(r) /\ Raft(r) /\ Shaped(r, RaftFields) /\ r.Term \in Nat /\ ~r.panic
      /\ r.msgs = {} /\ r.committed <= r.committed /\ r.prs \in [Server -> Progress]
  BY DEF Steady, Typed, Raft
<1>2. leaderCheckQuorum(r) \in {f, q}
  BY DEF leaderCheckQuorum
<1> HIDE DEF active
<1>3. Leading(r, A) /\ Tracks(r, A)
  BY DEF Steady, Leading
<1>4. prs \in [Server -> Progress] /\ \A i \in Server : Fits(r, i, prs[i], A)
  <2>1. ASSUME NEW i \in Server PROVE prs[i] \in Progress /\ Fits(r, i, prs[i], A)
    <3> DEFINE pr == r.prs[i]
               b == i = r.id /\ r.id \in active
               p == [pr EXCEPT !.RecentActive = b]
    <3>1. pr \in Progress /\ Fits(r, i, pr, A)
      BY <1>1, <1>3 DEF Tracks
    <3>2. b \in BOOLEAN /\ prs[i] = p
      OBVIOUS
    <3> HIDE DEF pr, b, prs
    <3>3. p \in Progress /\ p.Match = pr.Match /\ p.Next = pr.Next
      BY <3>1, <3>2 DEF Progress
    <3> HIDE DEF p
    <3>4. QED BY <3>1, <3>2, <3>3 DEF Fits
  <2> HIDE DEF prs
  <2>2. (\A i \in Server : prs[i] \in Progress) /\ \A i \in Server : Fits(r, i, prs[i], A)
    BY <2>1
  <2>3. prs = [i \in Server |-> prs[i]]
    BY DEF prs
  <2>4. QED BY <2>2, <2>3
<1> HIDE DEF prs
<1>5. /\ Kept(r, q) /\ q.msgs = r.msgs /\ q.leadTransferee = r.leadTransferee /\ q.prs = prs
  BY <1>1 DEF Kept, Shaped, RaftFields
<1> HIDE DEF q
<1>6. Pushes(r, q, A)
  <2> DEFINE new == {}
  <2>1. q.msgs = r.msgs \cup new /\ q.leadTransferee \in Server \cup {None}
        /\ q.prs \in [Server -> Progress] /\ \A i \in Server : Fits(r, i, q.prs[i], A)
    BY <1>1, <1>4, <1>5 DEF Raft
  <2>2. \A n \in new : Says(n, r, A)
    OBVIOUS
  <2> HIDE DEF new
  <2>3. QED BY <1>3, <1>5, <2>1, <2>2, KeptPushes
<1>7. Quiet(r, abortLeaderTransfer(r), A, N)
  <2>1. Pushes(r, abortLeaderTransfer(r), A)
    BY <1>3, CoreAssumption, TransfereePushes DEF abortLeaderTransfer
  <2>2. QED BY <2>1, PushesQuiet
<1>8. Quiet(r, abortLeaderTransfer(q), A, N)
  <2>1. Pushes(q, abortLeaderTransfer(q), A)
    BY <1>6, CoreAssumption, TransfereePushes DEF abortLeaderTransfer, Pushes
  <2>2. Pushes(r, abortLeaderTransfer(q), A)
    BY <1>1, <1>6, <2>1, PushesOn
  <2>3. QED BY <2>2, PushesQuiet
<1>9. Quiet(r, abortLeaderTransfer(f), A, N)
  <2> DEFINE p == abortLeaderTransfer(f)
  <2>1. /\ Typed(f) /\ f.id = r.id /\ f.Term = r.Term /\ f.state = Follower /\ f.lead = None
        /\ f.log = r.log /\ f.committed = r.committed /\ f.panic = r.panic
        /\ f.msgs = r.msgs /\ f.state # Leader /\ f.state # Candidate
    BY <1>1, FollowerFacts
  <2> HIDE DEF f
  <2>2. Raft(f) /\ Shaped(f, RaftFields)
    BY <2>1 DEF Typed, Raft
  <2>3. /\ Shaped(p, RaftFields) /\ p.id = f.id /\ p.Term = f.Term /\ p.Vote = f.Vote
        /\ p.state = f.state /\ p.lead = f.lead /\ p.leadTransferee = None
        /\ p.log = f.log /\ p.elapsed = f.elapsed /\ p.yes = f.yes /\ p.no = f.no
        /\ p.prs = f.prs /\ p.msgs = f.msgs /\ p.panic = f.panic /\ p.committed = f.committed
    BY <2>2 DEF abortLeaderTransfer, Shaped, RaftFields
  <2> HIDE DEF p
  <2>4. Typed(p)
    BY <2>1, <2>2, <2>3 DEF Typed, Raft
  <2>5. Idle(r, p, N)
    BY <1>1, <2>1, <2>3, <2>4 DEF Idle
  <2>6. QED BY <2>5 DEF Quiet, p
<1> HIDE DEF f
<1>10. QED BY <1>2, <1>7, <1>8, <1>9

\* A restart forgets at most some of the commit index.
LEMMA RestartQuiet ==
    ASSUME NEW r, NEW A, NEW N, Steady(r, A), NEW c \in 0..r.committed
    PROVE  LET q == newRaft(r.id, r.Term, r.Vote, r.log, c)
           IN  Quiet(r, q, A, N) /\ q.msgs = {}
<1> DEFINE q == newRaft(r.id, r.Term, r.Vote, r.log, c)
<1>1. /\ Typed(r) /\ Raft(r) /\ c \in Nat /\ c <= r.committed
  BY DEF Steady, Typed
<1>2. NoProgress \in [Server -> Progress]
  BY DEF NoProgress, NewProgress, Progress, ProgressState
<1>3. /\ Shaped(q, RaftFields) /\ q.id = r.id /\ q.Term = r.Term /\ q.Vote = r.Vote
      /\ q.state = Follower /\ q.lead = None /\ q.leadTransferee = None /\ q.log = r.log
      /\ q.elapsed = FALSE /\ q.yes = {} /\ q.no = {} /\ q.prs = NoProgress
      /\ q.msgs = {} /\ q.panic = FALSE /\ q.committed = c
  BY DEF newRaft, Shaped, RaftFields
<1> HIDE DEF q
<1>4. q.state \in States /\ q.state # Candidate /\ q.state # Leader
  BY <1>3 DEF States, Follower, Candidate, Leader
<1>5. Typed(q)
  BY <1>1, <1>2, <1>3, <1>4 DEF Typed, Raft
<1>6. Idle(r, q, N)
  BY <1>1, <1>3, <1>4, <1>5 DEF Idle
<1>7. QED BY <1>3, <1>6 DEF Quiet, q

-----------------------------------------------------------------------------
\* Nodes that crash with part of a save on disk
\*
\* The progress of a leader may then be beyond its log and the commit index it sends
\* beyond the receiver's; what follows needs neither.

\* What a step of q puts in its outbox: the entries of a MsgApp are q's, and a vote is
\* asked for by a candidate in its own term.  Votes given apart.
Plain(n, q) ==
    /\ n \in Message /\ n.from = q.id /\ ~Grant(n)
    /\ n.type = "MsgApp" /\ n.entries # <<>> => Carries(n, q.log)
    /\ n.type = "MsgVote" => q.state = Candidate /\ n.term = q.Term

\* A node with all fields of their type, which commits what it has.
Whole(q) ==
    /\ Typed(q) /\ q.committed <= Len(q.log)
    /\ q.state = Leader => \A i \in Server : q.prs[i].Next # 0

\* A node in the middle of a step.
Calm(q) == Whole(q) /\ \A n \in q.msgs : Plain(n, q)

\* q is r but for what it has sent, committed and keeps of its peers.
Stays(r, q) ==
    /\ Calm(q)
    /\ q.id = r.id /\ q.Term = r.Term /\ q.state = r.state /\ q.log = r.log
    /\ q.committed >= r.committed

\* Steps that leave a node in place compose.
LEMMA StaysOn ==
    ASSUME NEW r, NEW q, NEW p, Calm(r), Stays(r, q), Stays(q, p)
    PROVE  Stays(r, p)
BY DEF Stays, Calm, Whole, Typed

\* A node that only sends, and keeps track of its peers.
LEMMA KeptStays ==
    ASSUME NEW r, NEW q, NEW new, Calm(r), Kept(r, q),
           q.msgs = r.msgs \cup new, \A n \in new : Plain(n, r),
           q.leadTransferee \in Server \cup {None},
           q.prs \in [Server -> Progress],
           r.state = Leader => \A i \in Server : q.prs[i].Next # 0
    PROVE  Stays(r, q)
<1>1. Typed(r) /\ r.committed \in Nat /\ Whole(r)
  BY DEF Calm, Whole, Typed
<1>2. Typed(q)
  BY <1>1 DEF Kept, Typed, Raft
<1>3. Whole(q)
  BY <1>1, <1>2 DEF Kept, Whole
<1>4. \A n \in q.msgs : Plain(n, q)
  BY DEF Calm, Plain, Kept
<1>5. QED BY <1>1, <1>3, <1>4 DEF Stays, Calm, Kept

\* raft.send, of any message but a vote that is given.
LEMMA SendStays ==
    ASSUME NEW r, Calm(r), NEW d, Draft(d), ~Grant(d),
           d.type \notin {"MsgApp", "MsgVote"}
    PROVE  Stays(r, send(r, d))
<1> DEFINE n == Stamped(r, d)
           q == send(r, d)
           new == {n}
<1>1. /\ Typed(r) /\ Raft(r) /\ Whole(r) /\ Shaped(r, RaftFields) /\ r.committed \in Nat
      /\ r.leadTransferee \in Server \cup {None} /\ r.prs \in [Server -> Progress]
  BY DEF Calm, Whole, Typed, Raft
<1>2. CASE (d.type \in VoteMessageTypes) = (d.term = 0)
  <2>1. /\ Shaped(q, RaftFields) /\ q.id = r.id /\ q.Term = r.Term /\ q.Vote = r.Vote
        /\ q.state = r.state /\ q.lead = r.lead /\ q.leadTransferee = r.leadTransferee
        /\ q.log = r.log /\ q.elapsed = r.elapsed /\ q.yes = r.yes /\ q.no = r.no
        /\ q.prs = r.prs /\ q.msgs = r.msgs /\ q.panic = TRUE /\ q.committed = r.committed
    BY <1>1, <1>2 DEF send, Shaped, RaftFields
  <2> HIDE DEF q
  <2>2. Typed(q)
    BY <1>1, <2>1 DEF Typed, Raft
  <2>3. Calm(q)
    BY <1>1, <2>1, <2>2 DEF Calm, Whole, Plain
  <2>4. Stays(r, q)
    BY <1>1, <2>1, <2>3 DEF Stays
  <2>5. QED BY <2>4 DEF q
<1>3. CASE (d.type \in VoteMessageTypes) # (d.term = 0)
  <2>1. Kept(r, q) /\ q.msgs = r.msgs \cup new
        /\ q.leadTransferee = r.leadTransferee /\ q.prs = r.prs
    BY <1>1, <1>3, SendFacts
  <2>2. n \in Message /\ n.from = r.id /\ n.type = d.type /\ n.reject = d.reject
    BY <1>1, StampedMessage
  <2> HIDE DEF n, q
  <2>3. \A k \in new : Plain(k, r)
    BY <2>2 DEF Plain, Grant
  <2> HIDE DEF new
  <2>4. Stays(r, q)
    BY <1>1, <2>1, <2>3, KeptStays DEF Whole
  <2>5. QED BY <2>4 DEF q
<1>4. QED BY <1>2, <1>3

\* A MsgApp carries a part of the log, whatever the progress says.
LEMMA AppendPlain ==
    ASSUME NEW r, Typed(r), NEW i \in Server, NEW next \in Nat, next # 0
    PROVE  Plain(Stamped(r, AppendMessage(r, i, next)), r)
<1> DEFINE e == BatchEnd(r, next)
           m == AppendMessage(r, i, next)
           log == r.log
           ents == SubSeq(log, next, e)
<1>1. /\ log \in Seq(Entry) /\ Len(log) \in Nat /\ r.committed \in Nat /\ Raft(r)
      /\ next - 1 \in Nat /\ MaxBatch \in Nat
  BY LenProperties, CoreAssumption DEF Typed
<1>2. e \in Int /\ e <= Len(log)
  <2> DEFINE a == Len(log)
             b == next + MaxBatch - 1
  <2>1. a \in Int /\ b \in Int
    BY <1>1
  <2>2. e = Min({a, b})
    BY DEF BatchEnd, lastIndex
  <2> HIDE DEF a, b, e
  <2>3. e = IF a <= b THEN a ELSE b
    BY <2>1, <2>2, MinOfTwo
  <2>4. e \in Int /\ e <= a
    BY <2>1, <2>3
  <2>5. QED BY <2>4 DEF a
<1> HIDE DEF log, e
<1>3. /\ ents \in Seq(Entry) /\ Len(ents) = (IF next <= e THEN e - next + 1 ELSE 0)
      /\ \A k \in 1..(e - next + 1) : ents[k] = log[next + k - 1]
  <2>1. \A k \in next..e : log[k] \in Entry
    <3>1. \A k \in next..e : k \in 1..Len(log)
      BY <1>1, <1>2
    <3>2. QED BY <1>1, <3>1, ElementOfSeq
  <2>2. next \in Int /\ e \in Int
    BY <1>2
  <2>3. QED BY <2>1, <2>2, SubSeqProperties
<1>4. /\ Shaped(m, MsgFields) /\ m.type = "MsgApp" /\ m.to = i /\ m.term = 0
      /\ m.index = next - 1 /\ m.logTerm = termAt(log, next - 1) /\ m.entries = ents
      /\ m.commit = r.committed /\ m.reject = FALSE /\ m.rejectHint = 0 /\ m.force = FALSE
  BY DEF AppendMessage, Msg, Shaped, MsgFields, log, e
<1> HIDE DEF m, ents
<1>5. termAt(log, next - 1) \in Nat
  <2>1. next - 1 \in Int
    BY <1>1
  <2>2. QED BY <1>1, <2>1, TermAtFacts
<1>6. Draft(m)
  <2>1. m.type \in MessageTypes
    BY <1>4 DEF MessageTypes
  <2>2. /\ m.to \in Server /\ m.term \in Nat /\ m.index \in Nat /\ m.commit \in Nat
        /\ m.rejectHint \in Nat
    BY <1>1, <1>4
  <2>3. m.logTerm \in Nat /\ m.entries \in Seq(Entry) /\ m.reject \in BOOLEAN /\ m.force \in BOOLEAN
    BY <1>3, <1>4, <1>5
  <2>4. QED BY <1>4, <2>1, <2>2, <2>3 DEF Draft
<1> DEFINE n == Stamped(r, m)
<1>7. /\ n \in Message /\ n.from = r.id /\ n.type = "MsgApp"
      /\ n.index = next - 1 /\ n.logTerm = termAt(log, next - 1) /\ n.entries = ents
  BY <1>1, <1>4, <1>6, StampedMessage DEF VoteMessageTypes
<1> HIDE DEF n
<1>8. ASSUME ents # <<>> PROVE Carries(n, log)
  <2>1. next <= e /\ Len(ents) = e - next + 1
    BY <1>2, <1>3, <1>8, EmptySeq
  <2>2. n.index + Len(n.entries) <= Len(log)
    BY <1>1, <1>2, <1>7, <2>1
  <2>3. \A k \in 1..Len(n.entries) : n.entries[k] = log[n.index + k]
    <3>1. SUFFICES ASSUME NEW k \in 1..(e - next + 1) PROVE ents[k] = log[next - 1 + k]
      BY <1>7, <2>1
    <3>2. next + k - 1 = next - 1 + k
      BY <1>2
    <3>3. QED BY <1>3, <3>2
  <2>4. QED BY <1>7, <2>2, <2>3 DEF Carries
<1>9. Plain(n, r)
  BY <1>7, <1>8 DEF Plain, Grant, log
<1>10. QED BY <1>9 DEF n, m

\* Sending a MsgApp keeps Next positive.
LEMMA AfterAppendKeeps ==
    ASSUME NEW r, Typed(r), NEW pr \in Progress
    PROVE  AfterAppend(r, pr) \in Progress /\ (pr.Next # 0 => AfterAppend(r, pr).Next # 0)
<1>1. /\ Len(r.log) \in Nat /\ pr.Next \in Nat /\ MaxBatch \in Nat /\ MaxBatch # 0
  BY LenProperties, CoreAssumption DEF Typed, Progress
<1> DEFINE e == BatchEnd(r, pr.Next)
<1>2. AfterAppend(r, pr) = IF pr.Next > Len(r.log) THEN pr
        ELSE IF pr.State = "StateReplicate" THEN [pr EXCEPT !.Next = e + 1]
        ELSE [pr EXCEPT !.ProbeSent = TRUE]
  BY DEF AfterAppend, lastIndex
<1>3. CASE pr.Next > Len(r.log)
  BY <1>2, <1>3
<1>4. CASE ~(pr.Next > Len(r.log))
  <2> DEFINE a == Len(r.log)
             b == pr.Next + MaxBatch - 1
  <2>1. a \in Int /\ b \in Int /\ 0 <= a /\ 0 <= b
    BY <1>1
  <2>2. e = Min({a, b})
    BY DEF BatchEnd, lastIndex
  <2> HIDE DEF a, b, e
  <2>3. e = IF a <= b THEN a ELSE b
    BY <2>1, <2>2, MinOfTwo
  <2>4. e + 1 \in Nat /\ e + 1 # 0
    BY <2>1, <2>3
  <2>5. [pr EXCEPT !.Next = e + 1] \in Progress /\ [pr EXCEPT !.Next = e + 1].Next = e + 1
    BY <2>4 DEF Progress
  <2>6. [pr EXCEPT !.ProbeSent = TRUE] \in Progress /\ [pr EXCEPT !.ProbeSent = TRUE].Next = pr.Next
    BY DEF Progress
  <2>7. QED BY <1>2, <1>4, <2>4, <2>5, <2>6
<1>5. QED BY <1>3, <1>4

\* maybeSendAppend by a leader.
LEMMA SendAppendStays ==
    ASSUME NEW r, Calm(r), r.state = Leader, NEW P \in SUBSET Server, NEW e
    PROVE  Stays(r, maybeSendAppend(r, P, e))
<1> DEFINE T == {i \in P : ~IsPaused(r.prs[i]) /\ (e \/ r.prs[i].Next <= lastIndex(r))}
           q == maybeSendAppend(r, P, e)
           new == {Stamped(r, AppendMessage(r, i, r.prs[i].Next)) : i \in T}
<1>1. /\ Typed(r) /\ r.prs \in [Server -> Progress] /\ (\A i \in Server : r.prs[i].Next # 0)
      /\ Shaped(r, RaftFields) /\ r.leadTransferee \in Server \cup {None}
  BY DEF Calm, Whole, Typed, Raft
<1>2. /\ Kept(r, q) /\ q.msgs = r.msgs \cup new
      /\ q.leadTransferee = r.leadTransferee
      /\ q.prs = [i \in Server |-> IF i \in T THEN AfterAppend(r, r.prs[i]) ELSE r.prs[i]]
  BY <1>1 DEF maybeSendAppend, Kept, Shaped, RaftFields
<1>3. \A n \in new : Plain(n, r)
  <2>1. SUFFICES ASSUME NEW i \in T
                 PROVE  Plain(Stamped(r, AppendMessage(r, i, r.prs[i].Next)), r)
    OBVIOUS
  <2>2. i \in Server
    OBVIOUS
  <2>3. r.prs[i].Next \in Nat /\ r.prs[i].Next # 0
    BY <1>1, <2>2 DEF Progress
  <2>4. QED BY <1>1, <2>2, <2>3, AppendPlain
<1> HIDE DEF T, q, new
<1>4. \A i \in Server : q.prs[i] \in Progress /\ q.prs[i].Next # 0
  BY <1>1, <1>2, AfterAppendKeeps
<1>5. q.prs \in [Server -> Progress]
  BY <1>2, <1>4
<1>6. Stays(r, q)
  BY <1>1, <1>2, <1>3, <1>4, <1>5, KeptStays
<1>7. QED BY <1>6 DEF q

\* sendRest by a leader.
LEMMA SendRestStays ==
    ASSUME NEW r, Calm(r), r.state = Leader, NEW i \in Server
    PROVE  Stays(r, sendRest(r, i))
<1> DEFINE next == r.prs[i].Next
           rest == {k \in next..lastIndex(r) : (k - next) % MaxBatch = 0}
           new == {Stamped(r, AppendMessage(r, i, k)) : k \in rest}
           q == [r EXCEPT !.prs[i].Next = lastIndex(r) + 1, !.msgs = @ \cup new]
<1>1. sendRest(r, i) \in {maybeSendAppend(r, {i}, FALSE), q}
  BY DEF sendRest
<1>2. Stays(r, maybeSendAppend(r, {i}, FALSE))
  BY SendAppendStays
<1>3. /\ Typed(r) /\ r.prs \in [Server -> Progress] /\ (\A j \in Server : r.prs[j].Next # 0)
      /\ Shaped(r, RaftFields) /\ r.leadTransferee \in Server \cup {None}
      /\ r.log \in Seq(Entry) /\ Len(r.log) \in Nat
  BY LenProperties DEF Calm, Whole, Typed, Raft
<1>4. next \in Nat /\ next # 0
  BY <1>3 DEF Progress
<1>5. \A n \in new : Plain(n, r)
  <2>1. SUFFICES ASSUME NEW k \in rest PROVE Plain(Stamped(r, AppendMessage(r, i, k)), r)
    OBVIOUS
  <2>2. k \in Nat /\ k # 0
    BY <1>3, <1>4 DEF lastIndex
  <2>3. QED BY <1>3, <2>2, AppendPlain
<1> HIDE DEF new
<1>6. /\ Kept(r, q) /\ q.msgs = r.msgs \cup new
      /\ q.leadTransferee = r.leadTransferee
      /\ q.prs = [r.prs EXCEPT ![i] = [r.prs[i] EXCEPT !.Next = Len(r.log) + 1]]
  BY <1>3 DEF Kept, Shaped, RaftFields, lastIndex
<1> HIDE DEF q
<1> DEFINE p == [r.prs[i] EXCEPT !.Next = Len(r.log) + 1]
<1>7. p \in Progress /\ p.Next # 0
  <2>1. r.prs[i] \in Progress /\ Len(r.log) + 1 \in Nat /\ Len(r.log) + 1 # 0
    BY <1>3
  <2>2. QED BY <2>1 DEF Progress
<1> HIDE DEF p
<1>8. /\ q.prs \in [Server -> Progress]
      /\ \A j \in Server : q.prs[j].Next # 0
  BY <1>3, <1>6, <1>7 DEF p
<1>9. Stays(r, q)
  BY <1>3, <1>5, <1>6, <1>8, KeptStays
<1>10. QED BY <1>1, <1>2, <1>9

\* bcastAppend and sendAppend by a leader.
LEMMA BroadcastStays ==
    ASSUME NEW r, Calm(r), r.state = Leader
    PROVE  /\ Stays(r, bcastAppend(r))
           /\ \A i \in Server : Stays(r, sendAppend(r, i))
<1>1. Peers(r) \in SUBSET Server
  BY PeersAreServers DEF Calm, Whole, Typed
<1>2. Stays(r, bcastAppend(r))
  BY <1>1, SendAppendStays DEF bcastAppend
<1>3. \A i \in Server : Stays(r, sendAppend(r, i))
  BY SendAppendStays DEF sendAppend
<1>4. QED BY <1>2, <1>3

\* sendTimeoutNow.
LEMMA SendTimeoutStays ==
    ASSUME NEW r, Calm(r), NEW i \in Server
    PROVE  Stays(r, sendTimeoutNow(r, i))
<1> DEFINE d == Msg("MsgTimeoutNow", i)
<1>1. Draft(d) /\ d.type = "MsgTimeoutNow"
  BY PlainDraft DEF MessageTypes
<1> HIDE DEF d
<1>2. Stays(r, send(r, d))
  BY <1>1, SendStays DEF Grant
<1>3. QED BY <1>2 DEF sendTimeoutNow, d

\* A leader's bookkeeping of one peer.
LEMMA ProgressStays ==
    ASSUME NEW r, Calm(r), NEW i \in Server, NEW p \in Progress, p.Next # 0
    PROVE  Stays(r, [r EXCEPT !.prs[i] = p])
<1> DEFINE q == [r EXCEPT !.prs[i] = p]
           new == {}
<1>1. /\ Typed(r) /\ r.prs \in [Server -> Progress] /\ Whole(r)
      /\ Shaped(r, RaftFields) /\ r.leadTransferee \in Server \cup {None}
  BY DEF Calm, Whole, Typed, Raft
<1>2. /\ Kept(r, q) /\ q.msgs = r.msgs \cup new /\ q.leadTransferee = r.leadTransferee
      /\ q.prs = [r.prs EXCEPT ![i] = p]
  BY <1>1 DEF Kept, Shaped, RaftFields
<1> HIDE DEF q
<1>3. q.prs \in [Server -> Progress] /\ (r.state = Leader => \A j \in Server : q.prs[j].Next # 0)
  BY <1>1, <1>2 DEF Whole
<1>4. \A n \in new : Plain(n, r)
  OBVIOUS
<1> HIDE DEF new
<1>5. Stays(r, q)
  BY <1>1, <1>2, <1>3, <1>4, KeptStays
<1>6. QED BY <1>5 DEF q

\* ... and of the one that leadership goes to.
LEMMA TransfereeStays ==
    ASSUME NEW r, Calm(r), NEW i \in Server \cup {None}
    PROVE  Stays(r, [r EXCEPT !.leadTransferee = i])
<1> DEFINE q == [r EXCEPT !.leadTransferee = i]
           new == {}
<1>1. /\ Typed(r) /\ r.prs \in [Server -> Progress] /\ Whole(r) /\ Shaped(r, RaftFields)
  BY DEF Calm, Whole, Typed, Raft
<1>2. /\ Kept(r, q) /\ q.msgs = r.msgs \cup new /\ q.leadTransferee = i /\ q.prs = r.prs
  BY <1>1 DEF Kept, Shaped, RaftFields
<1>3. \A n \in new : Plain(n, r)
  OBVIOUS
<1> HIDE DEF q, new
<1>4. Stays(r, q)
  BY <1>1, <1>2, <1>3, KeptStays DEF Whole
<1>5. QED BY <1>4 DEF q

\* commitTo, whose panic leaves the node as it is.
LEMMA CommitStays ==
    ASSUME NEW r, Calm(r), NEW n \in Nat
    PROVE  Stays(r, commitTo(r, n))
<1> DEFINE q == commitTo(r, n)
<1>1. /\ Typed(r) /\ Raft(r) /\ Shaped(r, RaftFields) /\ r.committed \in Nat
      /\ Len(r.log) \in Nat /\ r.committed <= Len(r.log)
  BY LenProperties DEF Calm, Whole, Typed, Raft
<1>2. /\ Shaped(q, RaftFields) /\ q.id = r.id /\ q.Term = r.Term /\ q.Vote = r.Vote
      /\ q.state = r.state /\ q.lead = r.lead /\ q.leadTransferee = r.leadTransferee
      /\ q.log = r.log /\ q.elapsed = r.elapsed /\ q.yes = r.yes /\ q.no = r.no
      /\ q.prs = r.prs /\ q.msgs = r.msgs /\ q.panic \in {r.panic, TRUE}
      /\ q.committed = IF r.committed < n /\ n <= Len(r.log) THEN n ELSE r.committed
  <2>1. CASE r.committed >= n
    BY <1>1, <2>1 DEF commitTo
  <2>2. CASE ~(r.committed >= n) /\ lastIndex(r) < n
    <3>1. commitTo(r, n) = [r EXCEPT !.panic = TRUE] /\ ~(n <= Len(r.log))
      BY <1>1, <2>2 DEF commitTo, lastIndex
    <3>2. QED BY <1>1, <3>1 DEF Shaped, RaftFields
  <2>3. CASE ~(r.committed >= n) /\ ~(lastIndex(r) < n)
    BY <1>1, <2>3 DEF commitTo, lastIndex, Shaped, RaftFields
  <2>4. QED BY <2>1, <2>2, <2>3
<1> HIDE DEF q
<1>3. q.committed \in Nat /\ q.committed <= Len(q.log) /\ q.committed >= r.committed
  BY <1>1, <1>2
<1>4. Typed(q)
  BY <1>1, <1>2, <1>3 DEF Typed, Raft
<1>5. Calm(q)
  BY <1>2, <1>3, <1>4 DEF Calm, Whole, Plain
<1>6. Stays(r, q)
  BY <1>2, <1>3, <1>5 DEF Stays
<1>7. QED BY <1>6 DEF q

\* maybeCommit commits what the leader has.
LEMMA MaybeCommitStays ==
    ASSUME NEW r, Calm(r), r.state = Leader
    PROVE  Stays(r, maybeCommit(r)) /\ maybeCommit(r).msgs = r.msgs
<1> DEFINE match == [i \in Server |-> r.prs[i].Match]
           mci == JointCommittedIndex(Voters[r.id], match)
<1>1. /\ Typed(r) /\ r.prs \in [Server -> Progress] /\ r.id \in Server
      /\ r.committed \in Nat /\ Len(r.log) \in Nat
      /\ r.log \in Seq(Entry) /\ Shaped(r, RaftFields) /\ r.Term \in Nat /\ r.Term # 0
  BY LenProperties DEF Calm, Whole, Typed, Raft
<1>2. maybeCommit(r) = IF mci > r.committed /\ termAt(r.log, mci) = r.Term
                       THEN commitTo(r, mci) ELSE r
  BY DEF maybeCommit
<1> HIDE DEF mci
<1>3. Stays(r, r)
  BY <1>1 DEF Stays
<1>4. ASSUME mci > r.committed, termAt(r.log, mci) = r.Term
      PROVE  Stays(r, commitTo(r, mci)) /\ commitTo(r, mci).msgs = r.msgs
  <2>1. mci \in 1..Len(r.log)
    BY <1>1, <1>4 DEF termAt
  <2>2. mci \in Nat
    BY <1>1, <2>1
  <2>3. commitTo(r, mci).msgs = r.msgs
    BY <1>1 DEF commitTo, Shaped, RaftFields
  <2>4. QED BY <2>2, <2>3, CommitStays
<1>5. QED BY <1>2, <1>3, <1>4

-----------------------------------------------------------------------------
\* What a leader knows of its peers

\* A Progress that maybeSendAppend can send from.
Open(pr) == pr \in Progress /\ pr.Next # 0

\* The methods of Progress keep Next positive (BecomeProbe, BecomeReplicate,
\* MaybeUpdate, MaybeDecrTo).
LEMMA ProgressOpen ==
    ASSUME NEW pr, Open(pr)
    PROVE  /\ Open(BecomeProbe(pr)) /\ Open(BecomeReplicate(pr))
           /\ \A a, b \in BOOLEAN : Open([pr EXCEPT !.RecentActive = a, !.ProbeSent = b])
           /\ \A a \in BOOLEAN : Open([pr EXCEPT !.RecentActive = a])
           /\ \A n, last \in Nat : Open(DecrTo(pr, n, last))
           /\ \A n \in Nat : Open(MaybeUpdate(pr, n))
<1> DEFINE k == pr.Match + 1
<1>1. /\ pr \in Progress /\ pr.Match \in Nat /\ pr.Next \in Nat /\ pr.Next # 0
      /\ k \in Nat /\ k # 0 /\ "StateProbe" \in ProgressState /\ "StateReplicate" \in ProgressState
  BY DEF Open, Progress, ProgressState
<1>2. Open(BecomeProbe(pr)) /\ Open(BecomeReplicate(pr))
  <2>1. /\ BecomeProbe(pr) = [pr EXCEPT !.State = "StateProbe", !.ProbeSent = FALSE, !.Next = k]
        /\ BecomeReplicate(pr) = [pr EXCEPT !.State = "StateReplicate", !.ProbeSent = FALSE, !.Next = k]
    BY DEF BecomeProbe, BecomeReplicate
  <2> HIDE DEF k
  <2>2. QED BY <1>1, <2>1 DEF Open, Progress
<1>3. \A a, b \in BOOLEAN : Open([pr EXCEPT !.RecentActive = a, !.ProbeSent = b])
  BY <1>1 DEF Open, Progress
<1>4. \A a \in BOOLEAN : Open([pr EXCEPT !.RecentActive = a])
  BY <1>1 DEF Open, Progress
<1>5. ASSUME NEW n \in Nat, NEW last \in Nat PROVE Open(DecrTo(pr, n, last))
  <2> DEFINE y == Min({n, last + 1})
             x == Max({1, y})
  <2>1. y = IF n <= last + 1 THEN n ELSE last + 1
    BY MinOfTwo
  <2> HIDE DEF y
  <2>2. y \in Nat
    BY <2>1
  <2>3. x = IF 1 >= y THEN 1 ELSE y
    BY <2>2, MaxOfTwo
  <2> HIDE DEF x
  <2>4. x \in Nat /\ x # 0
    BY <2>2, <2>3
  <2>5. DecrTo(pr, n, last) \in {[pr EXCEPT !.Next = k], [pr EXCEPT !.Next = x, !.ProbeSent = FALSE]}
    BY DEF DecrTo, x, y
  <2> HIDE DEF k
  <2>6. Open([pr EXCEPT !.Next = k]) /\ Open([pr EXCEPT !.Next = x, !.ProbeSent = FALSE])
    BY <1>1, <2>4 DEF Open, Progress
  <2>7. QED BY <2>5, <2>6
<1>6. ASSUME NEW n \in Nat PROVE Open(MaybeUpdate(pr, n))
  <2> DEFINE a == pr.Match
             b == pr.Next
             x == Max({a, n})
             y == Max({b, n + 1})
             p == MaybeUpdate(pr, n)
  <2>1. a \in Nat /\ b \in Nat
    BY <1>1
  <2> HIDE DEF a, b
  <2>2. x = (IF a >= n THEN a ELSE n) /\ y = (IF b >= n + 1 THEN b ELSE n + 1)
    BY <2>1, MaxOfTwo
  <2>3. p = [pr EXCEPT !.Match = x, !.ProbeSent = pr.ProbeSent /\ pr.Match >= n, !.Next = y]
    BY DEF MaybeUpdate, a, b
  <2> HIDE DEF x, y, p
  <2>4. x \in Nat /\ y \in Nat /\ y # 0
    BY <2>1, <2>2
  <2>5. Open(p)
    BY <1>1, <2>3, <2>4 DEF Open, Progress
  <2>6. QED BY <2>5 DEF p
<1>7. QED BY <1>2, <1>3, <1>4, <1>5, <1>6

\* What a leader reads of an answer.
Told(m) == m.from \in Server /\ m.index \in Nat /\ m.rejectHint \in Nat

\* A rejected MsgAppResp.
LEMMA LeaderRejectedStays ==
    ASSUME NEW r, Calm(r), r.state = Leader, NEW m, Told(m)
    PROVE  Stays(r, leaderRejected(r, m))
<1> DEFINE i == m.from
           pr == r.prs[i]
           d == DecrTo(pr, m.index, m.rejectHint)
           p == IF pr.State = "StateReplicate" THEN BecomeProbe(d) ELSE d
           p1 == [p EXCEPT !.RecentActive = TRUE]
           p2 == [pr EXCEPT !.RecentActive = TRUE]
           q1 == [r EXCEPT !.prs[i] = p1]
           q2 == [r EXCEPT !.prs[i] = p2]
<1>1. i \in Server /\ m.index \in Nat /\ m.rejectHint \in Nat /\ Open(pr)
  BY DEF Calm, Whole, Typed, Told, Open
<1>2. leaderRejected(r, m) = IF RejectionIsFresh(pr, m.index) THEN sendAppend(q1, i) ELSE q2
  BY DEF leaderRejected
<1> HIDE DEF i, pr
<1>3. Open(d)
  BY <1>1, ProgressOpen
<1> HIDE DEF d
<1>4. Open(p)
  BY <1>3, ProgressOpen
<1> HIDE DEF p
<1>5. Open(p1) /\ Open(p2)
  BY <1>1, <1>4, ProgressOpen
<1> HIDE DEF p1, p2
<1>6. Stays(r, q1) /\ Stays(r, q2)
  BY <1>1, <1>5, ProgressStays DEF Open
<1> HIDE DEF q1, q2
<1>7. Stays(q1, sendAppend(q1, i))
  BY <1>1, <1>6, BroadcastStays DEF Stays
<1>8. QED BY <1>2, <1>6, <1>7, StaysOn

\* A MsgAppResp that moves Match forward.
LEMMA LeaderAdvancedStays ==
    ASSUME NEW r, Calm(r), r.state = Leader, NEW m, Told(m)
    PROVE  Stays(r, leaderAdvanced(r, m))
<1> DEFINE i == m.from
           pr == r.prs[i]
           u  == MaybeUpdate(pr, m.index)
           p  == IF pr.State = "StateProbe" THEN BecomeReplicate(u) ELSE u
           p1 == [p EXCEPT !.RecentActive = TRUE]
           r1 == [r EXCEPT !.prs[i] = p1]
           r2 == maybeCommit(r1)
           r3 == IF r2.committed # r1.committed THEN bcastAppend(r2)
                 ELSE IF IsPaused(pr) THEN sendAppend(r2, i) ELSE r2
           r4 == sendRest(r3, i)
<1>1. i \in Server /\ m.index \in Nat /\ Open(pr)
  BY DEF Calm, Whole, Typed, Told, Open
<1>2. leaderAdvanced(r, m) = IF i = r.leadTransferee /\ p.Match = lastIndex(r)
                             THEN sendTimeoutNow(r4, i) ELSE r4
  BY DEF leaderAdvanced
<1> HIDE DEF i, pr
<1>3. Open(u)
  BY <1>1, ProgressOpen
<1> HIDE DEF u
<1>4. Open(p)
  BY <1>3, ProgressOpen
<1> HIDE DEF p
<1>5. Open(p1)
  BY <1>4, ProgressOpen
<1> HIDE DEF p1
<1>6. Stays(r, r1)
  BY <1>1, <1>5, ProgressStays DEF Open
<1> HIDE DEF r1
<1>7. Stays(r1, r2)
  BY <1>6, MaybeCommitStays DEF Stays
<1> HIDE DEF r2
<1>8. Stays(r, r2) /\ Calm(r2) /\ r2.state = Leader
  <2>1. Stays(r, r2)
    BY <1>6, <1>7, StaysOn
  <2>2. QED BY <2>1 DEF Stays
<1>9. Stays(r, r3)
  <2>1. Stays(r2, bcastAppend(r2)) /\ Stays(r2, sendAppend(r2, i))
    BY <1>1, <1>8, BroadcastStays
  <2>2. QED BY <1>8, <2>1, StaysOn
<1> HIDE DEF r3
<1>10. Stays(r3, r4)
  BY <1>1, <1>9, SendRestStays DEF Stays
<1> HIDE DEF r4
<1>11. Stays(r, r4)
  BY <1>9, <1>10, StaysOn
<1>12. Stays(r4, sendTimeoutNow(r4, i))
  BY <1>1, <1>11, SendTimeoutStays DEF Stays
<1>13. QED BY <1>2, <1>11, <1>12, StaysOn

\* stepLeader.
LEMMA StepLeaderStays ==
    ASSUME NEW r, Calm(r), r.state = Leader, NEW m, Told(m)
    PROVE  Stays(r, stepLeader(r, m))
<1> DEFINE i == m.from
           pr == r.prs[i]
<1>1. i \in Server /\ m.index \in Nat /\ Open(pr) /\ Stays(r, r)
  BY DEF Calm, Whole, Typed, Told, Open, Stays
<1>2. Stays(r, leaderAppResp(r, m))
  <2> DEFINE u == MaybeUpdate(pr, m.index)
             p == [u EXCEPT !.RecentActive = TRUE]
             q == [r EXCEPT !.prs[i] = p]
  <2>1. leaderAppResp(r, m) = IF m.reject THEN leaderRejected(r, m)
          ELSE IF pr.Match < m.index THEN leaderAdvanced(r, m) ELSE q
    BY DEF leaderAppResp
  <2> HIDE DEF i, pr
  <2>2. Open(u)
    BY <1>1, ProgressOpen
  <2> HIDE DEF u
  <2>3. Open(p)
    BY <2>2, ProgressOpen
  <2> HIDE DEF p
  <2>4. Stays(r, q)
    BY <1>1, <2>3, ProgressStays DEF Open
  <2>5. QED BY <2>1, <2>4, LeaderRejectedStays, LeaderAdvancedStays
<1>3. Stays(r, leaderHeartbeatResp(r, m))
  <2> DEFINE p == [pr EXCEPT !.RecentActive = TRUE, !.ProbeSent = FALSE]
             q == [r EXCEPT !.prs[i] = p]
  <2>1. leaderHeartbeatResp(r, m) = IF pr.Match < lastIndex(r) THEN sendAppend(q, i) ELSE q
    BY DEF leaderHeartbeatResp
  <2> HIDE DEF i, pr
  <2>2. Open(p)
    BY <1>1, ProgressOpen
  <2> HIDE DEF p
  <2>3. Stays(r, q)
    BY <1>1, <2>2, ProgressStays DEF Open
  <2> HIDE DEF q
  <2>4. Stays(q, sendAppend(q, i))
    BY <1>1, <2>3, BroadcastStays DEF Stays
  <2>5. QED BY <2>1, <2>3, <2>4, StaysOn
<1>4. Stays(r, leaderTransfer(r, m.from))
  <2> DEFINE a == [r EXCEPT !.leadTransferee = None]
             t == [r EXCEPT !.leadTransferee = i]
  <2>1. leaderTransfer(r, i) =
          IF r.leadTransferee = i THEN r ELSE IF i = r.id THEN a
          ELSE IF r.prs[i].Match = lastIndex(r) THEN sendTimeoutNow(t, i) ELSE sendAppend(t, i)
    BY DEF leaderTransfer, abortLeaderTransfer
  <2>2. Stays(r, a) /\ Stays(r, t)
    BY <1>1, TransfereeStays
  <2> HIDE DEF a, t
  <2>3. Stays(t, sendTimeoutNow(t, i)) /\ Stays(t, sendAppend(t, i))
    BY <1>1, <2>2, SendTimeoutStays, BroadcastStays DEF Stays
  <2>4. QED BY <1>1, <2>1, <2>2, <2>3, StaysOn
<1>5. QED BY <1>1, <1>2, <1>3, <1>4 DEF stepLeader

-----------------------------------------------------------------------------
\* Elections

\* q leads with one entry of its term more than r has.
Grows(r, q) ==
    q.state = Leader /\ \E e \in Entry : e.term = q.Term /\ q.log = Append(r.log, e)

\* q gives the vote that a message of N asks for.
Gives(n, q, N) ==
    /\ n \in Message /\ n.from = q.id /\ Grant(n)
    /\ \E m \in N : m.type = "MsgVote" /\ n.to = m.from /\ n.term = m.term

\* What a step of r may do that takes no entry from another leader.
Proceeds(r, q, N) ==
    /\ Whole(q) /\ q.id = r.id /\ q.committed >= r.committed
    /\ \A n \in q.msgs : Plain(n, q) \/ Gives(n, q, N)
    /\ q.log = r.log \/ Grows(r, q)
    /\ q.state = Candidate => q.Term > r.Term \/ (r.state = Candidate /\ q.Term = r.Term)

\* A node between two steps.
Poised(r) == Whole(r) /\ r.msgs = {}

\* Steps that leave a node in place are steps without an entry from another leader.
LEMMA StaysProceeds ==
    ASSUME NEW r, NEW q, NEW N, Stays(r, q)
    PROVE  Proceeds(r, q, N)
<1>1. r.Term = q.Term /\ r.state = q.state
  BY DEF Stays
<1>2. QED BY <1>1 DEF Stays, Calm, Proceeds

\* ... also after others.
LEMMA ProceedsStays ==
    ASSUME NEW r, NEW q, NEW p, NEW N, Poised(r), Proceeds(r, q, N), Calm(q), Stays(q, p)
    PROVE  Proceeds(r, p, N)
<1>1. p.committed >= r.committed
  BY DEF Poised, Proceeds, Stays, Calm, Whole, Typed
<1>2. QED BY <1>1 DEF Proceeds, Stays, Calm, Grows

\* appendEntry
LEMMA AppendEntryGrows ==
    ASSUME NEW r, Poised(r), r.state = Leader, NEW data \in Value \cup {None}
    PROVE  LET q == appendEntry(r, data)
           IN  /\ Calm(q) /\ Grows(r, q) /\ q.msgs = {} /\ q.id = r.id /\ q.Term = r.Term
               /\ q.committed >= r.committed
<1> DEFINE e == [term |-> r.Term, data |-> data]
           log == Append(r.log, e)
           pr == r.prs[r.id]
           p == MaybeUpdate(pr, Len(log))
           q == [r EXCEPT !.log = log, !.prs[r.id] = p]
<1>1. /\ Typed(r) /\ Raft(r) /\ r.prs \in [Server -> Progress]
      /\ Shaped(r, RaftFields) /\ r.id \in Server /\ r.Term \in Nat /\ r.msgs = {}
      /\ r.log \in Seq(Entry) /\ r.committed \in Nat /\ r.committed <= Len(r.log)
      /\ \A i \in Server : Open(r.prs[i])
  BY DEF Poised, Whole, Typed, Raft, Open
<1>2. e \in Entry /\ e.term = r.Term
  BY <1>1 DEF Entry
<1>3. appendEntry(r, data) = maybeCommit(q)
  BY DEF appendEntry
<1> HIDE DEF e
<1>4. log \in Seq(Entry) /\ Len(log) = Len(r.log) + 1 /\ Len(r.log) \in Nat
  BY <1>1, <1>2, AppendFacts
<1>5. /\ Shaped(q, RaftFields) /\ q.id = r.id /\ q.Term = r.Term /\ q.Vote = r.Vote
      /\ q.state = r.state /\ q.lead = r.lead /\ q.leadTransferee = r.leadTransferee
      /\ q.log = log /\ q.elapsed = r.elapsed /\ q.yes = r.yes /\ q.no = r.no
      /\ q.prs = [r.prs EXCEPT ![r.id] = p] /\ q.msgs = {} /\ q.panic = r.panic
      /\ q.committed = r.committed
  BY <1>1 DEF Shaped, RaftFields
<1>6. Open(p)
  <2>1. Open(pr) /\ Len(log) \in Nat
    BY <1>1, <1>4
  <2> HIDE DEF pr, log
  <2>2. QED BY <2>1, ProgressOpen
<1> HIDE DEF p, q, log
<1>7. \A i \in Server : Open(q.prs[i])
  BY <1>1, <1>5, <1>6
<1>8. q.prs \in [Server -> Progress]
  BY <1>1, <1>5, <1>6 DEF Open
<1>9. Typed(q)
  BY <1>1, <1>4, <1>5, <1>8 DEF Typed, Raft
<1>10. Calm(q)
  BY <1>1, <1>4, <1>5, <1>7, <1>9 DEF Calm, Whole, Open
<1>11. Stays(q, maybeCommit(q)) /\ maybeCommit(q).msgs = {}
  BY <1>5, <1>10, MaybeCommitStays
<1>12. Grows(r, q)
  BY <1>2, <1>5 DEF Grows, log
<1>13. QED BY <1>3, <1>5, <1>11, <1>12 DEF Stays, Grows

\* becomeLeader
LEMMA BecomeLeaderGrows ==
    ASSUME NEW p, Poised(p), p.Term # 0
    PROVE  LET q == becomeLeader(p)
           IN  /\ Calm(q) /\ Grows(p, q) /\ q.id = p.id /\ q.Term = p.Term
               /\ q.committed >= p.committed
<1> DEFINE last == lastIndex(p)
           prs == [i \in Server |->
                       IF i = p.id THEN BecomeReplicate(NewProgress(last, last + 1))
                       ELSE NewProgress(0, last + 1)]
           b == [reset(p, p.Term) EXCEPT !.lead = p.id, !.state = Leader, !.prs = prs]
           q == becomeLeader(p)
<1>1. Typed(p) /\ Raft(p) /\ p.log \in Seq(Entry) /\ last \in Nat /\ p.Term \in Nat
      /\ p.id \in Server /\ p.msgs = {} /\ p.committed \in Nat /\ p.committed <= Len(p.log)
  BY LenProperties DEF Poised, Whole, Typed, Raft, lastIndex
<1>2. Open(NewProgress(last, last + 1)) /\ Open(NewProgress(0, last + 1))
  <2> HIDE DEF last
  <2>1. last + 1 \in Nat /\ last + 1 # 0 /\ "StateProbe" \in ProgressState
    BY <1>1 DEF ProgressState
  <2>2. QED BY <1>1, <2>1 DEF NewProgress, Progress, Open
<1>3. Open(BecomeReplicate(NewProgress(last, last + 1)))
  BY <1>2, ProgressOpen
<1>4. \A i \in Server : Open(prs[i])
  BY <1>2, <1>3
<1>5. prs \in [Server -> Progress]
  BY <1>4 DEF Open
<1> HIDE DEF prs
<1>6. /\ Shaped(b, RaftFields) /\ b.id = p.id /\ b.Term = p.Term /\ b.Vote = p.Vote
      /\ b.state = Leader /\ b.lead = p.id /\ b.leadTransferee = None /\ b.msgs = {}
      /\ b.log = p.log /\ b.committed = p.committed /\ b.elapsed = FALSE /\ b.yes = {}
      /\ b.no = {} /\ b.prs = prs /\ b.panic = p.panic
  BY <1>1 DEF reset, Raft, Shaped, RaftFields
<1>7. q = appendEntry(b, None)
  BY DEF becomeLeader, prs
<1> HIDE DEF b, q
<1>8. Typed(b)
  BY <1>1, <1>5, <1>6 DEF Typed, Raft, States
<1>9. Poised(b)
  BY <1>1, <1>4, <1>6, <1>8 DEF Poised, Whole, Open
<1>10. /\ Calm(q) /\ Grows(b, q) /\ q.id = b.id /\ q.Term = b.Term
       /\ q.committed >= b.committed
  BY <1>6, <1>7, <1>9, AppendEntryGrows
<1>11. QED BY <1>6, <1>10 DEF Grows, q

\* Requests for votes are those of a candidate in its own term.
LEMMA RequestVotesPlain ==
    ASSUME NEW r, Typed(r), (r.state = Candidate /\ r.Term # 0) \/ r.state = PreCandidate,
           NEW force \in BOOLEAN, NEW i \in Server
    PROVE  LET type == IF r.state = Candidate THEN "MsgVote" ELSE "MsgPreVote"
               term == IF r.state = Candidate THEN r.Term ELSE r.Term + 1
           IN  Plain(Stamped(r, [Msg(type, i) EXCEPT
                                    !.term = term, !.index = lastIndex(r),
                                    !.logTerm = termAt(r.log, lastIndex(r)), !.force = force]),
                     r)
<1> DEFINE type == IF r.state = Candidate THEN "MsgVote" ELSE "MsgPreVote"
           term == IF r.state = Candidate THEN r.Term ELSE r.Term + 1
           last == lastIndex(r)
           lt == termAt(r.log, last)
           d == Msg(type, i)
           m == [d EXCEPT !.term = term, !.index = last, !.logTerm = lt, !.force = force]
           n == Stamped(r, m)
<1>1. Raft(r) /\ r.Term \in Nat /\ r.log \in Seq(Entry) /\ last \in Nat /\ lt \in Nat
  <2>1. Raft(r) /\ r.Term \in Nat /\ r.log \in Seq(Entry)
    BY DEF Typed, Raft
  <2>2. last \in Nat /\ last \in Int
    BY <2>1, LenProperties DEF lastIndex
  <2>3. lt \in Nat
    BY <2>1, <2>2, TermAtFacts
  <2>4. QED BY <2>1, <2>2, <2>3
<1>2. term \in Nat /\ (r.state = Candidate => term = r.Term)
  BY <1>1
<1>3. type \in {"MsgVote", "MsgPreVote"} /\ (type = "MsgVote" => r.state = Candidate)
  OBVIOUS
<1> HIDE DEF last, lt, term, type
<1>4. type \in MessageTypes /\ type \in VoteMessageTypes
  BY <1>3 DEF MessageTypes, VoteMessageTypes
<1>5. Draft(d) /\ d.type = type /\ d.to = i /\ d.reject = FALSE
  BY <1>4, PlainDraft
<1> HIDE DEF d
<1>6. Draft(m) /\ m.type = type /\ m.term = term
  BY <1>1, <1>2, <1>5 DEF Draft, Shaped, MsgFields
<1> HIDE DEF m
<1>7. n \in Message /\ n.from = r.id /\ n.type = type /\ n.term = term
  BY <1>1, <1>4, <1>6, StampedMessage
<1> HIDE DEF n
<1>8. Plain(n, r)
  BY <1>2, <1>3, <1>7 DEF Plain, Grant
<1>9. QED BY <1>8 DEF n, m, d, type, term, lt, last

\* requestVotes
LEMMA RequestVotesStays ==
    ASSUME NEW p, Poised(p), NEW force \in BOOLEAN,
           (p.state = Candidate /\ p.Term # 0) \/ p.state = PreCandidate
    PROVE  LET type == IF p.state = Candidate THEN "MsgVote" ELSE "MsgPreVote"
               term == IF p.state = Candidate THEN p.Term ELSE p.Term + 1
           IN  Stays(p, requestVotes(p, type, term, force))
<1> DEFINE type == IF p.state = Candidate THEN "MsgVote" ELSE "MsgPreVote"
           term == IF p.state = Candidate THEN p.Term ELSE p.Term + 1
           M(i) == Stamped(p, [Msg(type, i) EXCEPT
                                !.term = term, !.index = lastIndex(p),
                                !.logTerm = termAt(p.log, lastIndex(p)), !.force = force])
           new == {M(i) : i \in Peers(p)}
           q == requestVotes(p, type, term, force)
<1>1. Typed(p) /\ Raft(p) /\ Shaped(p, RaftFields) /\ p.leadTransferee \in Server \cup {None}
      /\ p.prs \in [Server -> Progress] /\ Calm(p) /\ p.msgs = {}
      /\ p.state # Leader
  BY DEF Poised, Whole, Typed, Raft, Calm, Leader, Candidate, PreCandidate
<1>2. Kept(p, q) /\ q.msgs = p.msgs \cup new /\ q.leadTransferee = p.leadTransferee /\ q.prs = p.prs
  BY <1>1 DEF requestVotes, Kept, Shaped, RaftFields
<1>3. \A n \in new : Plain(n, p)
  <2>1. \A i \in Peers(p) : i \in Server
    BY <1>1, PeersAreServers DEF Peers
  <2>2. ASSUME NEW i \in Peers(p) PROVE Plain(M(i), p)
    BY <1>1, <2>1, RequestVotesPlain
  <2> HIDE DEF M
  <2>3. QED BY <2>2
<1> HIDE DEF new, q
<1>4. Stays(p, q)
  BY <1>1, <1>2, <1>3, KeptStays
<1>5. QED BY <1>4 DEF q

\* A node in the place of r: same log and commit index, and the same term.
Alike(r, p) == p.id = r.id /\ p.Term = r.Term /\ p.log = r.log /\ p.committed = r.committed

\* campaign
LEMMA CampaignProceeds ==
    ASSUME NEW r, NEW o, Poised(o), Alike(r, o), NEW force \in BOOLEAN, NEW N
    PROVE  Proceeds(r, campaign(o, force), N)
<1> DEFINE c == becomeCandidate(o)
           p == RecordVote(c, o.id, TRUE)
           q == requestVotes(p, "MsgVote", p.Term, force)
           b == becomeLeader(p)
<1>1. /\ Typed(o) /\ Raft(o) /\ Shaped(o, RaftFields) /\ o.id \in Server /\ o.Term \in Nat
      /\ o.committed \in Nat /\ o.log \in Seq(Entry) /\ o.msgs = {}
      /\ o.committed <= Len(o.log)
  BY DEF Poised, Whole, Typed, Raft
<1>2. NoProgress \in [Server -> Progress]
  BY DEF NoProgress, NewProgress, Progress, ProgressState
<1>3. /\ Shaped(c, RaftFields) /\ c.id = o.id /\ c.Term = o.Term + 1 /\ c.Vote = o.id
      /\ c.state = Candidate /\ c.lead = None /\ c.log = o.log /\ c.committed = o.committed
      /\ c.leadTransferee = None /\ c.elapsed = FALSE /\ c.yes = {} /\ c.no = {}
      /\ c.prs = NoProgress /\ c.msgs = {} /\ c.panic = o.panic
  BY <1>1 DEF becomeCandidate, reset, Shaped, RaftFields
<1> HIDE DEF c
<1>4. /\ Shaped(p, RaftFields) /\ p.id = o.id /\ p.Term = o.Term + 1 /\ p.Vote = o.id
      /\ p.state = Candidate /\ p.lead = None /\ p.log = o.log /\ p.committed = o.committed
      /\ p.leadTransferee = None /\ p.elapsed = FALSE /\ p.yes = {o.id} /\ p.no = {}
      /\ p.prs = NoProgress /\ p.msgs = {} /\ p.panic = o.panic
  BY <1>3 DEF RecordVote, Shaped, RaftFields
<1>5. campaign(o, force) = IF TallyVotes(p) = "VoteWon" THEN b ELSE q
  BY DEF campaign, c
<1> HIDE DEF p
<1>6. p.Term \in Nat /\ p.Term # 0 /\ p.Term > r.Term
  BY <1>1, <1>4 DEF Alike
<1>7. Typed(p)
  BY <1>1, <1>2, <1>4, <1>6 DEF Typed, Raft, States
<1>8. Poised(p)
  BY <1>1, <1>4, <1>7 DEF Poised, Whole, Candidate, Leader
<1>9. Stays(p, q)
  BY <1>4, <1>6, <1>8, RequestVotesStays
<1>10. Proceeds(r, q, N)
  BY <1>4, <1>6, <1>9 DEF Stays, Calm, Proceeds, Alike
<1>11. /\ Calm(b) /\ Grows(p, b) /\ b.id = p.id /\ b.Term = p.Term
       /\ b.committed >= p.committed
  BY <1>6, <1>8, BecomeLeaderGrows
<1> HIDE DEF b, q
<1>12. Proceeds(r, b, N)
  BY <1>4, <1>6, <1>11 DEF Calm, Proceeds, Alike, Grows
<1>13. QED BY <1>5, <1>10, <1>12

\* Step(MsgHup)
LEMMA HupProceeds ==
    ASSUME NEW r, Poised(r), NEW N
    PROVE  Proceeds(r, hup(r), N)
<1> DEFINE p == RecordVote(becomePreCandidate(r), r.id, TRUE)
           q == requestVotes(p, "MsgPreVote", p.Term + 1, FALSE)
<1>1. Typed(r) /\ r.msgs = {} /\ r.committed <= Len(r.log) /\ Calm(r) /\ r.committed \in Nat
  BY DEF Poised, Whole, Calm, Typed
<1>2. /\ Typed(p) /\ p.id = r.id /\ p.Term = r.Term /\ p.state = PreCandidate
      /\ p.log = r.log /\ p.committed = r.committed /\ p.msgs = {}
  BY <1>1, PreCandidateFacts
<1>3. preCampaign(r) = IF TallyVotes(p) = "VoteWon" THEN campaign(p, FALSE) ELSE q
  BY DEF preCampaign
<1> HIDE DEF p
<1>4. p.state # Candidate /\ p.state # Leader
  BY <1>2 DEF PreCandidate, Candidate, Leader
<1>5. Poised(p)
  BY <1>1, <1>2, <1>4 DEF Poised, Whole
<1>6. Proceeds(r, q, N)
  <2>1. Stays(p, q)
    BY <1>2, <1>4, <1>5, RequestVotesStays
  <2> HIDE DEF q
  <2>2. QED BY <1>2, <1>4, <2>1 DEF Stays, Calm, Proceeds
<1>7. Proceeds(r, campaign(p, FALSE), N) /\ Proceeds(r, campaign(r, FALSE), N)
  BY <1>2, <1>5, CampaignProceeds DEF Alike
<1>8. Proceeds(r, r, N)
  BY <1>1, StaysProceeds DEF Stays
<1> HIDE DEF q
<1>9. QED BY <1>3, <1>6, <1>7, <1>8 DEF hup

\* candidateVoteResp
LEMMA VoteRespProceeds ==
    ASSUME NEW r, Poised(r), NEW m, m.from \in Server, NEW N,
           r.state \in {Candidate, PreCandidate}
    PROVE  Proceeds(r, candidateVoteResp(r, m), N)
<1> DEFINE p == RecordVote(r, m.from, ~m.reject)
           b == becomeLeader(p)
           f == becomeFollower(p, p.Term, None)
<1>1. /\ Typed(r) /\ Raft(r) /\ Shaped(r, RaftFields) /\ r.msgs = {}
      /\ r.committed \in Nat /\ r.Term \in Nat /\ r.committed <= Len(r.log)
  BY DEF Poised, Whole, Typed, Raft
<1>2. r.state # Leader
  BY DEF Leader, Candidate, PreCandidate
<1>3. /\ Shaped(p, RaftFields) /\ p.id = r.id /\ p.Term = r.Term /\ p.Vote = r.Vote
      /\ p.state = r.state /\ p.lead = r.lead /\ p.log = r.log /\ p.committed = r.committed
      /\ p.leadTransferee = r.leadTransferee /\ p.elapsed = r.elapsed
      /\ p.yes \subseteq r.yes \cup {m.from} /\ p.no \subseteq r.no \cup {m.from}
      /\ p.prs = r.prs /\ p.msgs = {} /\ p.panic = r.panic
  BY <1>1 DEF RecordVote, Shaped, RaftFields
<1>4. candidateVoteResp(r, m) =
        CASE TallyVotes(p) = "VoteWon" ->
                IF r.state = PreCandidate THEN campaign(p, FALSE) ELSE bcastAppend(b)
          [] TallyVotes(p) = "VoteLost" -> f
          [] OTHER -> p
  BY DEF candidateVoteResp
<1> HIDE DEF p
<1>5. Typed(p)
  BY <1>1, <1>3 DEF Typed, Raft
<1>6. Poised(p) /\ Alike(r, p)
  BY <1>1, <1>2, <1>3, <1>5 DEF Poised, Whole, Alike
<1>7. Proceeds(r, p, N)
  BY <1>1, <1>3, <1>6 DEF Poised, Proceeds
<1>8. Proceeds(r, f, N)
  <2>1. /\ Typed(f) /\ f.id = p.id /\ f.log = p.log /\ f.committed = p.committed
        /\ f.msgs = p.msgs /\ f.state # Leader /\ f.state # Candidate
    <3>1. p.Term \in Nat /\ None \in Server \cup {None}
      BY <1>1, <1>3
    <3>2. QED BY <1>5, <3>1, FollowerFacts
  <2> HIDE DEF f
  <2>2. QED BY <1>1, <1>3, <2>1 DEF Proceeds, Whole
<1>9. Proceeds(r, campaign(p, FALSE), N)
  BY <1>6, CampaignProceeds
<1>10. ASSUME r.state # PreCandidate PROVE Proceeds(r, bcastAppend(b), N)
  <2>1. p.Term # 0
    BY <1>1, <1>3, <1>10 DEF Raft
  <2>2. /\ Calm(b) /\ Grows(p, b) /\ b.id = p.id /\ b.Term = p.Term
        /\ b.committed >= p.committed
    BY <1>6, <2>1, BecomeLeaderGrows
  <2> HIDE DEF b
  <2>3. Proceeds(r, b, N) /\ b.state = Leader
    BY <1>3, <1>10, <2>2 DEF Calm, Proceeds, Grows
  <2>4. Stays(b, bcastAppend(b))
    BY <2>2, <2>3, BroadcastStays
  <2>5. QED BY <2>2, <2>3, <2>4, ProceedsStays
<1> HIDE DEF b, f
<1>11. QED BY <1>4, <1>7, <1>8, <1>9, <1>10

\* respondToVote
LEMMA RespondProceeds ==
    ASSUME NEW r, Poised(r), NEW m \in Message, m.type \in {"MsgVote", "MsgPreVote"}
    PROVE  Proceeds(r, respondToVote(r, m), {m})
<1> DEFINE type == IF m.type = "MsgVote" THEN "MsgVoteResp" ELSE "MsgPreVoteResp"
           i == m.from
           d == Msg(type, i)
           no == [d EXCEPT !.term = r.Term, !.reject = TRUE]
           yes == [d EXCEPT !.term = m.term]
           g == send(r, yes)
           v == [g EXCEPT !.Vote = i, !.elapsed = FALSE]
<1>1. /\ i \in Server /\ m.term \in Nat /\ Raft(r) /\ r.Term \in Nat
      /\ Typed(r) /\ Shaped(r, RaftFields) /\ r.msgs = {} /\ Calm(r)
      /\ r.committed \in Nat /\ r.committed <= Len(r.log)
      /\ (r.state = Leader => \A j \in Server : r.prs[j].Next # 0)
  BY DEF Poised, Whole, Calm, Typed, Raft, Message
<1>3. respondToVote(r, m) \in {send(r, no), IF m.type = "MsgVote" THEN v ELSE g}
  BY DEF respondToVote
<1>4. type \in {"MsgVoteResp", "MsgPreVoteResp"} /\ (m.type = "MsgVote" <=> type = "MsgVoteResp")
  OBVIOUS
<1> HIDE DEF type
<1>2. /\ Draft(no) /\ no.type = type /\ no.to = i /\ no.term = r.Term /\ no.reject
      /\ Draft(yes) /\ yes.type = type /\ yes.to = i /\ yes.term = m.term /\ yes.reject = FALSE
  <2>1. type \in MessageTypes
    BY <1>4 DEF MessageTypes, VoteMessageTypes
  <2> HIDE DEF i
  <2>2. Draft(d) /\ d.type = type /\ d.to = i /\ d.reject = FALSE
    BY <1>1, <2>1, PlainDraft
  <2> HIDE DEF d
  <2>3. QED BY <1>1, <2>2 DEF Draft, Shaped, MsgFields
<1> HIDE DEF no, yes, d
<1>5. Proceeds(r, send(r, no), {m})
  <2>1. Stays(r, send(r, no))
    BY <1>1, <1>2, <1>4, SendStays DEF Grant
  <2>2. QED BY <2>1, StaysProceeds
<1>6. ASSUME m.type = "MsgPreVote" PROVE Proceeds(r, g, {m})
  <2>1. yes.type = "MsgPreVoteResp"
    BY <1>2, <1>4, <1>6
  <2>2. Stays(r, g)
    BY <1>1, <1>2, <2>1, SendStays DEF Grant
  <2>3. QED BY <2>2, StaysProceeds
<1>0. ASSUME m.type = "MsgVote", m.term = 0 PROVE Proceeds(r, v, {m})
  <2>1. g = [r EXCEPT !.panic = TRUE]
    BY <1>2, <1>4, <1>0 DEF send, VoteMessageTypes
  <2> HIDE DEF g
  <2>2. /\ Shaped(v, RaftFields) /\ v.id = r.id /\ v.Term = r.Term /\ v.state = r.state
        /\ v.yes = r.yes /\ v.no = r.no /\ v.lead = r.lead /\ v.leadTransferee = r.leadTransferee
        /\ v.Vote = i /\ v.msgs = {} /\ v.log = r.log /\ v.committed = r.committed
        /\ v.prs = r.prs /\ v.panic = TRUE /\ v.elapsed = FALSE
    BY <1>1, <2>1 DEF Shaped, RaftFields
  <2> HIDE DEF v
  <2>3. Typed(v)
    BY <1>1, <2>2 DEF Typed, Raft
  <2>4. QED BY <1>1, <2>2, <2>3 DEF Proceeds, Whole
<1>7. ASSUME m.type = "MsgVote", m.term # 0 PROVE Proceeds(r, v, {m})
  <2> DEFINE n == Stamped(r, yes)
  <2>1. type = "MsgVoteResp"
    BY <1>4, <1>7
  <2>2. /\ n \in Message /\ n.from = r.id /\ n.to = i /\ n.type = type /\ n.term = m.term
        /\ n.reject = FALSE
    BY <1>1, <1>2, <2>1, StampedMessage DEF VoteMessageTypes
  <2> HIDE DEF n
  <2>4. (yes.type \in VoteMessageTypes) # (yes.term = 0)
    BY <1>2, <1>7, <2>1 DEF VoteMessageTypes
  <2>5. /\ Kept(r, g) /\ g.msgs = r.msgs \cup {n}
        /\ g.leadTransferee = r.leadTransferee /\ g.prs = r.prs
    BY <1>1, <2>4, SendFacts DEF n
  <2> HIDE DEF g
  <2>6. /\ Shaped(v, RaftFields) /\ v.id = r.id /\ v.Term = r.Term /\ v.state = r.state
        /\ v.yes = r.yes /\ v.no = r.no /\ v.lead = r.lead /\ v.leadTransferee = r.leadTransferee
        /\ v.Vote = i /\ v.msgs = {n} /\ v.log = r.log /\ v.committed = r.committed
        /\ v.prs = r.prs /\ v.panic = r.panic /\ v.elapsed = FALSE
    BY <1>1, <2>5 DEF Kept, Shaped, RaftFields
  <2> HIDE DEF v
  <2>7. Typed(v)
    BY <1>1, <2>6 DEF Typed, Raft
  <2>8. Gives(n, v, {m})
    BY <1>7, <2>1, <2>2, <2>6 DEF Gives, Grant
  <2>9. QED BY <1>1, <2>6, <2>7, <2>8 DEF Proceeds, Whole
<1> HIDE DEF g, v
<1>8. QED BY <1>0, <1>3, <1>5, <1>6, <1>7

\* stepLowerTerm
LEMMA LowerTermProceeds ==
    ASSUME NEW r, Poised(r), NEW m \in Message, NEW N
    PROVE  Proceeds(r, stepLowerTerm(r, m), N)
<1> DEFINE i == m.from
           a == Msg("MsgAppResp", i)
           d == Msg("MsgPreVoteResp", i)
           no == [d EXCEPT !.term = r.Term, !.reject = TRUE]
<1>1. r.Term \in Nat /\ i \in Server /\ Calm(r)
  BY DEF Poised, Whole, Calm, Typed, Raft, Message
<1>2. stepLowerTerm(r, m) \in {send(r, a), send(r, no), r}
  BY DEF stepLowerTerm
<1> HIDE DEF i
<1>4. /\ Draft(a) /\ a.type = "MsgAppResp" /\ Draft(d) /\ d.type = "MsgPreVoteResp"
  BY <1>1, PlainDraft DEF MessageTypes, VoteMessageTypes
<1> HIDE DEF a, d
<1>5. Draft(no) /\ no.type = "MsgPreVoteResp"
  BY <1>1, <1>4 DEF Draft, Shaped, MsgFields
<1> HIDE DEF no
<1>6. Stays(r, send(r, a)) /\ Stays(r, send(r, no)) /\ Stays(r, r)
  <2>1. ~Grant(a) /\ ~Grant(no)
    BY <1>4, <1>5 DEF Grant
  <2>2. Stays(r, send(r, a))
    BY <1>1, <1>4, <2>1, SendStays
  <2>3. Stays(r, send(r, no))
    BY <1>1, <1>5, <2>1, SendStays
  <2>4. Stays(r, r)
    BY <1>1 DEF Stays, Calm, Whole, Typed
  <2>5. QED BY <2>2, <2>3, <2>4
<1>7. QED BY <1>2, <1>6, StaysProceeds

\* handleHeartbeat
LEMMA HandleHeartbeatStays ==
    ASSUME NEW r, Calm(r), NEW m \in Message
    PROVE  Stays(r, handleHeartbeat(r, m))
<1> DEFINE c == commitTo(r, m.commit)
           d == Msg("MsgHeartbeatResp", m.from)
<1>1. m.commit \in Nat /\ m.from \in Server
  BY DEF Message
<1>2. Stays(r, c)
  BY <1>1, CommitStays
<1> HIDE DEF c
<1>3. Draft(d) /\ d.type = "MsgHeartbeatResp"
  BY <1>1, PlainDraft DEF MessageTypes
<1> HIDE DEF d
<1>4. Stays(c, send(c, d))
  BY <1>2, <1>3, SendStays DEF Stays, Grant
<1>5. QED BY <1>2, <1>4, StaysOn DEF handleHeartbeat, c, d

-----------------------------------------------------------------------------
\* Entries of another leader

\* Terms do not decrease along a log, and none is 0.
Rising(x) == \A i \in 1..Len(x) : x[i].term # 0 /\ \A j \in 1..i : x[j].term <= x[i].term

\* The entries that a MsgApp carries belong after its index and term.
Proper(m) ==
    m.type = "MsgApp" /\ m.entries # <<>> =>
        /\ Rising(m.entries)
        /\ IF m.index = 0 THEN m.logTerm = 0
           ELSE m.logTerm # 0 /\ m.logTerm <= m.entries[1].term

\* Every entry of y is one of x or z.
FromEither(y, x, z) ==
    \A i \in 1..Len(y) : (\E j \in 1..Len(x) : y[i] = x[j]) \/ (\E j \in 1..Len(z) : y[i] = z[j])

\* The part of a rising log that a message carries is proper.
LEMMA CarriesProper ==
    ASSUME NEW m \in Message, NEW l \in Seq(Entry), Rising(l),
           m.entries # <<>> => Carries(m, l)
    PROVE  Proper(m)
<1> SUFFICES ASSUME m.entries # <<>>, Carries(m, l) PROVE Proper(m)
  BY DEF Proper
<1> DEFINE ents == m.entries
           N == Len(ents)
           d == m.index
<1>1. ents \in Seq(Entry) /\ d \in Nat /\ N \in Nat /\ N # 0 /\ Len(l) \in Nat
  BY LenProperties, EmptySeq DEF Message
<1>2. /\ d + N <= Len(l) /\ (\A k \in 1..N : ents[k] = l[d + k])
      /\ m.logTerm = termAt(l, d)
  BY DEF Carries
<1> HIDE DEF N
<1>3. \A k \in 1..N : d + k \in 1..Len(l)
  BY <1>1, <1>2
<1>4. ASSUME NEW i \in 1..N, NEW j \in 1..i
      PROVE  ents[i].term # 0 /\ ents[j].term <= ents[i].term
  <2>1. j \in 1..N /\ d + j \in 1..(d + i) /\ d + i \in 1..Len(l)
    BY <1>1, <1>3
  <2>2. ents[i] = l[d + i] /\ ents[j] = l[d + j]
    BY <1>2, <2>1
  <2>3. QED BY <2>1, <2>2 DEF Rising
<1>5. Rising(ents)
  <2>1. \A i \in 1..N : i \in 1..i
    OBVIOUS
  <2>2. QED BY <1>4, <2>1 DEF Rising, N
<1>6. d = 0 => m.logTerm = 0
  BY <1>2 DEF termAt
<1>7. ASSUME d # 0 PROVE m.logTerm # 0 /\ m.logTerm <= ents[1].term
  <2>1. d \in 1..Len(l) /\ d + 1 \in 1..Len(l) /\ d \in 1..(d + 1) /\ d \in 1..d /\ 1 \in 1..N
    BY <1>1, <1>2, <1>7
  <2>2. m.logTerm = l[d].term /\ ents[1] = l[d + 1]
    BY <1>2, <2>1 DEF termAt
  <2>3. QED BY <2>1, <2>2 DEF Rising
<1>8. QED BY <1>5, <1>6, <1>7 DEF Proper

\* A log whose entries from a conflict on are replaced by those of a message.
LEMMA SplicedRising ==
    ASSUME NEW x \in Seq(Entry), Rising(x), NEW ents \in Seq(Entry), Rising(ents),
           NEW d \in Nat, NEW k \in 1..Len(ents), d + k - 1 <= Len(x),
           d + k - 1 # 0 => x[d + k - 1].term <= ents[k].term
    PROVE  LET y == SubSeq(x, 1, d + k - 1) \o SubSeq(ents, k, Len(ents))
           IN  /\ y \in Seq(Entry) /\ Rising(y) /\ Agrees(x, y, d + k - 1)
               /\ FromEither(y, x, ents)
<1> DEFINE N == Len(ents)
           h == d + k - 1
           a == SubSeq(x, 1, h)
           b == SubSeq(ents, k, N)
           y == a \o b
<1>1. /\ Len(x) \in Nat /\ N \in Nat /\ k \in Nat /\ 1 <= k /\ k <= N /\ h \in Nat
      /\ h <= Len(x)
  BY LenProperties
<1>2. a \in Seq(Entry) /\ Len(a) = h /\ \A i \in 1..h : a[i] = x[i]
  <2> HIDE DEF h
  <2>1. /\ a \in Seq(Entry) /\ Len(a) = h - 1 + 1
        /\ \A i \in 1..(h - 1 + 1) : a[i] = x[1 + i - 1]
    BY <1>1, PartOf
  <2> HIDE DEF a
  <2>2. QED BY <1>1, <2>1
<1>3. /\ b \in Seq(Entry) /\ Len(b) = N - k + 1
      /\ \A i \in 1..(N - k + 1) : b[i] = ents[k + i - 1]
  <2>1. k # 0 /\ k - 1 <= N /\ N <= Len(ents)
    BY <1>1
  <2> HIDE DEF N
  <2>2. /\ b \in Seq(Entry) /\ Len(b) = N - k + 1
        /\ \A i \in 1..(N - k + 1) : b[i] = ents[k + i - 1]
    BY <1>1, <2>1, PartOf
  <2>3. QED BY <2>2
<1> HIDE DEF a, b, h, N
<1>4. /\ y \in Seq(Entry) /\ Len(y) = h + (N - k + 1)
      /\ \A i \in 1..Len(y) : y[i] = IF i <= h THEN a[i] ELSE b[i - h]
  <2>1. /\ y \in Seq(Entry) /\ Len(y) = Len(a) + Len(b)
        /\ \A i \in 1..(Len(a) + Len(b)) : y[i] = IF i <= Len(a) THEN a[i] ELSE b[i - Len(a)]
    <3>1. a \in Seq(Entry) /\ b \in Seq(Entry)
      BY <1>2, <1>3
    <3>2. QED BY <3>1, ConcatProperties
  <2> HIDE DEF y
  <2>2. Len(a) + Len(b) = h + (N - k + 1) /\ Len(a) = h
    BY <1>2, <1>3
  <2>3. QED BY <2>1, <2>2
<1> HIDE DEF y
<1>5. ASSUME NEW i \in 1..Len(y), i <= h PROVE i \in 1..Len(x) /\ y[i] = x[i]
  <2>1. i \in 1..h /\ i \in 1..Len(x)
    BY <1>1, <1>4, <1>5
  <2>2. QED BY <1>2, <1>4, <1>5, <2>1
<1>6. ASSUME NEW i \in 1..Len(y), ~(i <= h)
      PROVE  i - h + k - 1 \in k..N /\ y[i] = ents[i - h + k - 1]
  <2> DEFINE c == i - h
  <2>1. c \in 1..(N - k + 1)
    BY <1>1, <1>4, <1>6
  <2>2. b[c] = ents[k + c - 1] /\ y[i] = b[c]
    BY <1>3, <1>4, <1>6, <2>1
  <2>3. k + c - 1 = i - h + k - 1 /\ i - h + k - 1 \in k..N
    BY <1>1, <2>1
  <2>4. QED BY <2>2, <2>3
<1>7. ASSUME NEW i \in 1..Len(y), NEW j \in 1..i
      PROVE  y[i].term # 0 /\ y[j].term <= y[i].term
  <2>1. j \in 1..Len(y)
    BY <1>1, <1>4
  <2>2. CASE i <= h
    <3>1. j <= h
      BY <1>1, <1>4, <2>2
    <3>2. y[i] = x[i] /\ y[j] = x[j] /\ i \in 1..Len(x)
      BY <1>5, <2>1, <2>2, <3>1
    <3>3. QED BY <3>2 DEF Rising
  <2>3. CASE ~(i <= h)
    <3> DEFINE p == i - h + k - 1
    <3>1. p \in 1..N /\ y[i] = ents[p] /\ p \in k..N
      BY <1>1, <1>6, <2>3
    <3>2. ents[p].term # 0 /\ ents[k].term <= ents[p].term
      <4>1. k \in 1..p
        BY <1>1, <3>1
      <4>2. QED BY <3>1, <4>1 DEF Rising, N
    <3>3. CASE j <= h
      <4>1. y[j] = x[j] /\ j \in 1..Len(x)
        BY <1>5, <2>1, <3>3
      <4>2. h # 0 /\ h \in 1..Len(x) /\ j \in 1..h
        BY <1>1, <3>3, <4>1
      <4>3. x[j].term <= x[h].term /\ x[h].term <= ents[k].term
        BY <4>2 DEF Rising, h
      <4>4. x[j].term \in Nat /\ x[h].term \in Nat /\ ents[k].term \in Nat /\ ents[p].term \in Nat
        <5>1. x[j] \in Entry /\ x[h] \in Entry
          BY <4>1, <4>2, ElementOfSeq
        <5>2. k \in 1..Len(ents) /\ p \in 1..Len(ents)
          BY <3>1 DEF N
        <5>3. ents[k] \in Entry /\ ents[p] \in Entry
          BY <5>2, ElementOfSeq
        <5>4. QED BY <5>1, <5>3 DEF Entry
      <4> HIDE DEF p
      <4> DEFINE u == x[j].term
                 v == x[h].term
                 w == ents[k].term
                 z == ents[p].term
      <4>5. u \in Nat /\ v \in Nat /\ w \in Nat /\ z \in Nat /\ u <= v /\ v <= w /\ w <= z /\ z # 0
        BY <3>2, <4>3, <4>4
      <4> HIDE DEF u, v, w, z
      <4>6. u <= z
        BY <4>5
      <4>7. QED BY <3>1, <4>1, <4>5, <4>6 DEF u, z
    <3>4. CASE ~(j <= h)
      <4>1. y[j] = ents[j - h + k - 1] /\ j - h + k - 1 \in k..N
        BY <1>6, <2>1, <3>4
      <4>2. j - h + k - 1 \in 1..p
        <5>1. j \in Int /\ i \in Int /\ h \in Int /\ k \in Int /\ j <= i /\ 1 <= k
          BY <1>1, <1>4
        <5>2. j - h + k - 1 \in Int /\ k <= j - h + k - 1 /\ p \in Int
          BY <4>1, <5>1
        <5>3. j - h + k - 1 <= p
          BY <5>1
        <5> HIDE DEF p
        <5>4. QED BY <5>1, <5>2, <5>3
      <4>3. QED BY <3>1, <4>1, <4>2 DEF Rising, N
    <3>5. QED BY <3>3, <3>4
  <2>4. QED BY <2>2, <2>3
<1>8. Rising(y)
  <2>1. \A i \in 1..Len(y) : i \in 1..i
    BY <1>1, <1>4
  <2>2. QED BY <1>7, <2>1 DEF Rising
<1>9. Agrees(x, y, h)
  <2>1. h <= Len(y) /\ \A i \in 1..h : i \in 1..Len(y)
    BY <1>1, <1>4
  <2>2. \A i \in 1..h : y[i] = x[i]
    BY <1>1, <1>5, <2>1
  <2>3. QED BY <1>1, <2>1, <2>2 DEF Agrees
<1>10. FromEither(y, x, ents)
  <2>1. ASSUME NEW i \in 1..Len(y)
        PROVE  (\E j \in 1..Len(x) : y[i] = x[j]) \/ (\E j \in 1..Len(ents) : y[i] = ents[j])
    <3>1. ~(i <= h) => i - h + k - 1 \in 1..Len(ents) /\ y[i] = ents[i - h + k - 1]
      BY <1>1, <1>6 DEF N
    <3>2. QED BY <1>5, <3>1
  <2>2. QED BY <2>1 DEF FromEither
<1>11. QED BY <1>4, <1>8, <1>9, <1>10 DEF y, a, b, h, N

\* q has taken entries of the message m of another leader, and nothing that r had
\* committed is lost.
Copies(r, q, m) ==
    /\ m.type = "MsgApp" /\ Calm(q)
    /\ q.id = r.id /\ q.state = Follower /\ q.committed >= r.committed
    /\ Rising(q.log) /\ Agrees(r.log, q.log, r.committed)
    /\ FromEither(q.log, r.log, m.entries)

\* What stays as it is has copied before.
LEMMA CopiesStays ==
    ASSUME NEW r, NEW q, NEW p, NEW m, Poised(r), Copies(r, q, m), Stays(q, p)
    PROVE  Copies(r, p, m)
BY DEF Copies, Stays, Poised, Calm, Whole, Typed

\* findConflict
LEMMA ConflictFacts ==
    ASSUME NEW x \in Seq(Entry), NEW ents \in Seq(Entry), NEW d \in Nat
    PROVE  LET k == findConflict(x, d, ents)
           IN  \/ k = 0
               \/ /\ k \in 1..Len(ents)
                  /\ k # 1 => termAt(x, d + (k - 1)) = ents[k - 1].term
<1> DEFINE N == Len(ents)
           k == findConflict(x, d, ents)
           bad == {j \in 1..N : termAt(x, d + j) # ents[j].term}
<1>1. N \in Nat
  BY LenProperties
<1>2. k = IF bad = {} THEN 0 ELSE Min(bad)
  BY DEF findConflict, matchTerm
<1>3. bad # {} => Min(bad) \in bad /\ \A j \in bad : Min(bad) <= j
  <2>1. bad \in SUBSET Nat
    BY <1>1
  <2> HIDE DEF bad
  <2>2. QED BY <2>1, LeastOf
<1>4. ASSUME bad # {}
      PROVE  k \in 1..N /\ (k # 1 => termAt(x, d + (k - 1)) = ents[k - 1].term)
  <2>1. k \in bad /\ \A j \in bad : k <= j
    BY <1>2, <1>3, <1>4
  <2> HIDE DEF k
  <2>2. k \in 1..N
    BY <2>1
  <2>3. ASSUME k # 1 PROVE termAt(x, d + (k - 1)) = ents[k - 1].term
    <3>1. k - 1 \in 1..N /\ ~(k <= k - 1)
      BY <1>1, <2>2, <2>3
    <3>2. k - 1 \notin bad
      BY <2>1, <3>1
    <3>3. QED BY <3>1, <3>2
  <2>4. QED BY <2>2, <2>3
<1> HIDE DEF bad
<1>5. QED BY <1>2, <1>4

\* maybeAppend
LEMMA AppendMatchedCopies ==
    ASSUME NEW x, Poised(x), x.state = Follower, Rising(x.log), NEW m \in Message, Proper(m),
           m.type = "MsgApp", matchTerm(x.log, m.index, m.logTerm)
    PROVE  Copies(x, appendMatched(x, m), m)
<1> DEFINE ents == m.entries
           d == m.index
           k == findConflict(x.log, d, ents)
           n == d + Len(ents)
           y == IF k = 0 THEN x.log
                ELSE SubSeq(x.log, 1, d + k - 1) \o SubSeq(ents, k, Len(ents))
           p == [x EXCEPT !.panic = TRUE]
           q == [x EXCEPT !.log = IF k = 0 THEN @
                                  ELSE SubSeq(@, 1, d + k - 1) \o SubSeq(ents, k, Len(ents))]
           c == Min({m.commit, n})
<1>1. /\ Typed(x) /\ Raft(x) /\ Shaped(x, RaftFields) /\ x.committed \in Nat /\ x.msgs = {}
      /\ x.log \in Seq(Entry) /\ Len(x.log) \in Nat /\ x.committed <= Len(x.log)
      /\ x.state # Leader
  BY LenProperties DEF Poised, Whole, Typed, Raft, Follower, Leader
<1>2. /\ d \in Nat /\ ents \in Seq(Entry) /\ m.commit \in Nat
      /\ Len(ents) \in Nat /\ n \in Nat
  BY LenProperties DEF Message
<1>3. appendMatched(x, m) = IF k # 0 /\ d + k <= x.committed THEN p ELSE commitTo(q, c)
  BY DEF appendMatched
<1>4. k = 0 \/ (k \in 1..Len(ents) /\ (k # 1 => termAt(x.log, d + (k - 1)) = ents[k - 1].term))
  <2> HIDE DEF d, ents
  <2>1. QED BY <1>1, <1>2, ConflictFacts
<1> HIDE DEF k
<1>5. Agrees(x.log, x.log, x.committed) /\ FromEither(x.log, x.log, ents)
  BY <1>1 DEF Agrees, FromEither
<1>6. Copies(x, p, m)
  <2>1. /\ Shaped(p, RaftFields) /\ p.id = x.id /\ p.Term = x.Term /\ p.Vote = x.Vote
        /\ p.state = x.state /\ p.lead = x.lead /\ p.leadTransferee = x.leadTransferee
        /\ p.log = x.log /\ p.elapsed = x.elapsed /\ p.yes = x.yes /\ p.no = x.no
        /\ p.prs = x.prs /\ p.msgs = {} /\ p.panic = TRUE /\ p.committed = x.committed
    BY <1>1 DEF Shaped, RaftFields
  <2> HIDE DEF p
  <2>2. Typed(p)
    BY <1>1, <2>1 DEF Typed, Raft
  <2>3. QED BY <1>1, <1>5, <2>1, <2>2 DEF Copies, Calm, Whole
<1>7. ASSUME k # 0
      PROVE  /\ d + k - 1 \in Nat /\ d + k - 1 <= Len(x.log)
             /\ d + k - 1 # 0 => x.log[d + k - 1].term <= ents[k].term
  <2>1. k \in 1..Len(ents) /\ ents # <<>> /\ k \in Nat
    BY <1>2, <1>4, <1>7
  <2>2. Rising(ents) /\ IF d = 0 THEN m.logTerm = 0 ELSE m.logTerm # 0 /\ m.logTerm <= ents[1].term
    BY <2>1 DEF Proper
  <2>3. CASE k = 1
    <3>1. CASE d = 0
      BY <1>1, <2>3, <3>1
    <3>2. CASE d # 0
      <4>1. termAt(x.log, d) = m.logTerm /\ d \in Int
        BY <1>2 DEF matchTerm
      <4>2. d \in 1..Len(x.log) /\ x.log[d].term = m.logTerm
        BY <1>1, <2>2, <3>2, <4>1, TermAtFacts
      <4>3. d + k - 1 = d
        BY <1>2, <2>3
      <4>4. QED BY <1>1, <1>2, <2>2, <2>3, <3>2, <4>2, <4>3
    <3>3. QED BY <3>1, <3>2
  <2>4. CASE k # 1
    <3> DEFINE h == d + (k - 1)
    <3>1. k - 1 \in 1..Len(ents) /\ k - 1 \in 1..k /\ k - 1 \in 1..(k - 1) /\ h \in Int
          /\ h = d + k - 1 /\ h \in Nat
      BY <1>2, <2>1, <2>4
    <3>2. termAt(x.log, h) = ents[k - 1].term
      BY <1>4, <1>7, <2>4
    <3>3. ents[k - 1].term # 0 /\ ents[k - 1].term <= ents[k].term
      BY <2>1, <2>2, <3>1 DEF Rising
    <3>4. h \in 1..Len(x.log) /\ x.log[h].term = ents[k - 1].term
      BY <1>1, <3>1, <3>2, <3>3, TermAtFacts
    <3> HIDE DEF h
    <3>5. h <= Len(x.log) /\ x.log[h].term <= ents[k].term
      BY <1>1, <3>3, <3>4
    <3>6. QED BY <3>1, <3>5
  <2>5. QED BY <2>3, <2>4
<1>8. ASSUME ~(k # 0 /\ d + k <= x.committed)
      PROVE  /\ y \in Seq(Entry) /\ Rising(y) /\ FromEither(y, x.log, ents)
             /\ Agrees(x.log, y, x.committed)
  <2>1. CASE k = 0
    BY <1>1, <1>5, <2>1
  <2>2. CASE k # 0
    <3>1. k \in 1..Len(ents) /\ ents # <<>>
      BY <1>2, <1>4, <2>2
    <3>2. Rising(ents)
      BY <3>1 DEF Proper
    <3>3. y = SubSeq(x.log, 1, d + k - 1) \o SubSeq(ents, k, Len(ents))
      BY <2>2
    <3> HIDE DEF y, ents, d
    <3>4. /\ y \in Seq(Entry) /\ Rising(y) /\ Agrees(x.log, y, d + k - 1)
          /\ FromEither(y, x.log, ents)
      BY <1>1, <1>2, <1>7, <2>2, <3>1, <3>2, <3>3, SplicedRising
    <3>5. x.committed <= d + k - 1 /\ d + k - 1 \in Int /\ x.committed \in Int
      BY <1>1, <1>2, <1>8, <2>2, <3>1
    <3>6. Agrees(x.log, y, x.committed)
      <4>1. Len(y) \in Nat
        BY <3>4, LenProperties
      <4>2. QED BY <1>1, <3>4, <3>5, <4>1, AgreesLess
    <3>7. QED BY <3>4, <3>6
  <2>3. QED BY <2>1, <2>2
<1>9. /\ Shaped(q, RaftFields) /\ q.id = x.id /\ q.Term = x.Term /\ q.Vote = x.Vote
      /\ q.state = x.state /\ q.lead = x.lead /\ q.leadTransferee = x.leadTransferee
      /\ q.log = y /\ q.elapsed = x.elapsed /\ q.yes = x.yes /\ q.no = x.no
      /\ q.prs = x.prs /\ q.msgs = {} /\ q.panic = x.panic /\ q.committed = x.committed
  BY <1>1 DEF Shaped, RaftFields
<1> HIDE DEF q, y
<1>10. ASSUME ~(k # 0 /\ d + k <= x.committed) PROVE Copies(x, commitTo(q, c), m)
  <2>1. Typed(q)
    BY <1>1, <1>8, <1>9, <1>10 DEF Typed, Raft
  <2>2. q.committed <= Len(q.log)
    BY <1>8, <1>9, <1>10 DEF Agrees
  <2>3. Calm(q)
    BY <1>1, <1>9, <2>1, <2>2 DEF Calm, Whole
  <2>4. Copies(x, q, m)
    BY <1>1, <1>8, <1>9, <1>10, <2>3 DEF Copies
  <2>5. c \in Nat
    <3> HIDE DEF n
    <3>1. c = IF m.commit <= n THEN m.commit ELSE n
      BY <1>2, MinOfTwo
    <3> HIDE DEF c
    <3>2. QED BY <1>2, <3>1
  <2> HIDE DEF c
  <2>6. Stays(q, commitTo(q, c))
    BY <2>3, <2>5, CommitStays
  <2>7. QED BY <2>4, <2>6, CopiesStays
<1> HIDE DEF p, c
<1>11. QED BY <1>3, <1>6, <1>10

\* handleAppendEntries
LEMMA HandleAppendCopies ==
    ASSUME NEW x, Poised(x), x.state = Follower, Rising(x.log), NEW m \in Message, Proper(m),
           m.type = "MsgApp"
    PROVE  Copies(x, handleAppendEntries(x, m), m)
<1> DEFINE d == Msg("MsgAppResp", m.from)
           a == appendMatched(x, m)
           n == m.index + Len(m.entries)
           X == [d EXCEPT !.index = x.committed]
           Y == [d EXCEPT !.index = n]
           Z == [d EXCEPT !.index = m.index, !.reject = TRUE, !.rejectHint = lastIndex(x)]
<1>1. /\ x.committed \in Nat /\ lastIndex(x) \in Nat /\ m.index \in Nat /\ m.from \in Server
      /\ n \in Nat /\ Calm(x) /\ x.committed <= Len(x.log)
  <2>1. x.log \in Seq(Entry) /\ x.committed \in Nat /\ Calm(x) /\ x.committed <= Len(x.log)
    BY DEF Poised, Calm, Whole, Typed
  <2>2. m.index \in Nat /\ m.entries \in Seq(Entry) /\ m.from \in Server
    BY DEF Message
  <2>3. Len(x.log) \in Nat /\ Len(m.entries) \in Nat
    BY <2>1, <2>2, LenProperties
  <2>4. QED BY <2>1, <2>2, <2>3 DEF lastIndex
<1>2. Draft(d) /\ d.type = "MsgAppResp"
  <2>1. "MsgAppResp" \in MessageTypes
    BY DEF MessageTypes
  <2>2. QED BY <1>1, <2>1, PlainDraft
<1>3. handleAppendEntries(x, m) =
        IF m.index < x.committed THEN send(x, X)
        ELSE IF matchTerm(x.log, m.index, m.logTerm)
        THEN IF a.panic THEN a ELSE send(a, Y)
        ELSE send(x, Z)
  BY DEF handleAppendEntries
<1> HIDE DEF d, n
<1>4. /\ Draft(X) /\ X.type = "MsgAppResp" /\ Draft(Y) /\ Y.type = "MsgAppResp"
      /\ Draft(Z) /\ Z.type = "MsgAppResp"
  BY <1>1, <1>2 DEF Draft, Shaped, MsgFields
<1> HIDE DEF X, Y, Z
<1>5. Copies(x, x, m)
  BY <1>1 DEF Copies, Calm, Agrees, FromEither, Whole
<1>6. Stays(x, send(x, X)) /\ Stays(x, send(x, Z))
  BY <1>1, <1>4, SendStays DEF Grant
<1>7. matchTerm(x.log, m.index, m.logTerm) => Copies(x, a, m) /\ Copies(x, send(a, Y), m)
  <2>1. SUFFICES ASSUME matchTerm(x.log, m.index, m.logTerm)
                 PROVE  Copies(x, a, m) /\ Copies(x, send(a, Y), m)
    OBVIOUS
  <2>2. Copies(x, a, m)
    BY <2>1, AppendMatchedCopies
  <2> HIDE DEF a
  <2>3. Stays(a, send(a, Y))
    BY <1>4, <2>2, SendStays DEF Copies, Grant
  <2>4. QED BY <2>2, <2>3, CopiesStays
<1> HIDE DEF a
<1>8. QED BY <1>3, <1>5, <1>6, <1>7, CopiesStays

-----------------------------------------------------------------------------
\* Step

\* What a step of r on the message m may do.
Reacts(r, q, m) == Proceeds(r, q, {m}) \/ Copies(r, q, m)

\* A step of the follower of a later term that a node became is one of the node.
LEMMA ReactsLater ==
    ASSUME NEW r, NEW f, NEW q, NEW m, Poised(r), Poised(f), f.id = r.id, f.Term > r.Term,
           f.state = Follower, f.log = r.log, f.committed = r.committed,
           Reacts(f, q, m)
    PROVE  Reacts(r, q, m)
<1>1. r.Term \in Nat /\ f.Term \in Nat /\ f.state # Candidate
  BY DEF Poised, Whole, Typed, Raft, Follower, Candidate
<1>2. CASE Proceeds(f, q, {m})
  <2>1. q.Term \in Nat
    BY <1>2 DEF Proceeds, Whole, Typed, Raft
  <2>2. q.state = Candidate => q.Term > r.Term
    BY <1>1, <1>2, <2>1 DEF Proceeds
  <2>3. Proceeds(r, q, {m})
    BY <1>2, <2>2 DEF Proceeds, Grows
  <2>4. QED BY <2>3 DEF Reacts
<1>3. CASE Copies(f, q, m)
  BY <1>3 DEF Copies, Reacts
<1>4. QED BY <1>2, <1>3 DEF Reacts

\* stepFollower
LEMMA StepFollowerReacts ==
    ASSUME NEW r, Poised(r), r.state = Follower, Rising(r.log), NEW m \in Message, Proper(m)
    PROVE  Reacts(r, stepFollower(r, m), m)
<1> DEFINE f == [r EXCEPT !.elapsed = FALSE, !.lead = m.from]
           d == [m EXCEPT !.to = r.lead]
<1>1. /\ Typed(r) /\ Raft(r) /\ Shaped(r, RaftFields) /\ r.Term \in Nat /\ r.msgs = {}
      /\ m.from \in Server /\ r.lead \in Server \cup {None} /\ Calm(r)
      /\ r.committed \in Nat /\ r.committed <= Len(r.log) /\ r.state # Leader
      /\ r.state # Candidate
  BY DEF Poised, Calm, Whole, Typed, Raft, Message, Follower, Leader, Candidate
<1>2. stepFollower(r, m) =
        CASE m.type = "MsgApp" -> handleAppendEntries(f, m)
          [] m.type = "MsgHeartbeat" -> handleHeartbeat(f, m)
          [] m.type = "MsgTimeoutNow" -> IF promotable(r) THEN campaign(r, TRUE) ELSE r
          [] m.type = "MsgTransferLeader" /\ r.lead # None -> send(r, d)
          [] OTHER -> r
  BY DEF stepFollower
<1>3. /\ Shaped(f, RaftFields) /\ f.id = r.id /\ f.Term = r.Term /\ f.Vote = r.Vote
      /\ f.state = r.state /\ f.lead = m.from /\ f.leadTransferee = r.leadTransferee
      /\ f.log = r.log /\ f.elapsed = FALSE /\ f.yes = r.yes /\ f.no = r.no
      /\ f.prs = r.prs /\ f.msgs = {} /\ f.panic = r.panic /\ f.committed = r.committed
  BY <1>1 DEF Shaped, RaftFields
<1> HIDE DEF f
<1>4. Typed(f)
  BY <1>1, <1>3 DEF Typed, Raft
<1>5. Poised(f) /\ Calm(f)
  BY <1>1, <1>3, <1>4 DEF Poised, Calm, Whole
<1>6. m.type = "MsgApp" => Reacts(r, handleAppendEntries(f, m), m)
  <2>1. m.type = "MsgApp" => Copies(f, handleAppendEntries(f, m), m)
    BY <1>3, <1>5, HandleAppendCopies
  <2>2. QED BY <1>3, <2>1 DEF Reacts, Copies
<1>7. Reacts(r, handleHeartbeat(f, m), m)
  <2>1. Stays(f, handleHeartbeat(f, m))
    BY <1>5, HandleHeartbeatStays
  <2>2. QED BY <1>1, <1>3, <2>1 DEF Stays, Calm, Reacts, Proceeds
<1>8. Reacts(r, campaign(r, TRUE), m)
  BY CampaignProceeds DEF Alike, Reacts
<1>9. Reacts(r, r, m)
  <2>1. Stays(r, r)
    BY <1>1 DEF Stays
  <2>2. QED BY <2>1, StaysProceeds DEF Reacts
<1>10. ASSUME m.type = "MsgTransferLeader", r.lead # None PROVE Reacts(r, send(r, d), m)
  <2>1. Draft(d) /\ d.type = "MsgTransferLeader"
    BY <1>1, <1>10 DEF Draft, Message, Shaped, MsgFields
  <2>2. Stays(r, send(r, d))
    BY <1>1, <2>1, SendStays DEF Grant
  <2>3. QED BY <2>2, StaysProceeds DEF Reacts
<1> HIDE DEF d
<1>11. QED BY <1>2, <1>6, <1>7, <1>8, <1>9, <1>10

\* stepCandidate
LEMMA StepCandidateReacts ==
    ASSUME NEW r, Poised(r), r.state \in {Candidate, PreCandidate}, Rising(r.log),
           NEW m \in Message, Proper(m)
    PROVE  Reacts(r, stepCandidate(r, m), m)
<1> DEFINE f == becomeFollower(r, m.term, m.from)
           type == IF r.state = PreCandidate THEN "MsgPreVoteResp" ELSE "MsgVoteResp"
<1>1. /\ Typed(r) /\ r.msgs = {} /\ m.from \in Server /\ m.term \in Nat /\ Calm(r)
      /\ r.committed \in Nat /\ r.committed <= Len(r.log)
  BY DEF Poised, Calm, Whole, Typed, Message
<1>2. stepCandidate(r, m) =
        CASE m.type = "MsgApp" -> handleAppendEntries(f, m)
          [] m.type = "MsgHeartbeat" -> handleHeartbeat(f, m)
          [] m.type = type -> candidateVoteResp(r, m)
          [] OTHER -> r
  BY DEF stepCandidate
<1>3. /\ Typed(f) /\ f.id = r.id /\ f.state = Follower /\ f.state # Leader /\ f.state # Candidate
      /\ f.log = r.log /\ f.committed = r.committed /\ f.msgs = r.msgs
  <2>1. m.from \in Server \cup {None}
    BY <1>1
  <2>2. QED BY <1>1, <2>1, FollowerFacts
<1> HIDE DEF f
<1>4. Poised(f) /\ Calm(f)
  BY <1>1, <1>3 DEF Poised, Calm, Whole
<1>5. m.type = "MsgApp" => Reacts(r, handleAppendEntries(f, m), m)
  <2>1. m.type = "MsgApp" => Copies(f, handleAppendEntries(f, m), m)
    BY <1>3, <1>4, HandleAppendCopies
  <2>2. QED BY <1>3, <2>1 DEF Reacts, Copies
<1>6. Reacts(r, handleHeartbeat(f, m), m)
  <2>1. Stays(f, handleHeartbeat(f, m))
    BY <1>4, HandleHeartbeatStays
  <2>2. QED BY <1>1, <1>3, <2>1 DEF Stays, Calm, Reacts, Proceeds
<1>7. Reacts(r, candidateVoteResp(r, m), m)
  BY <1>1, VoteRespProceeds DEF Reacts
<1>8. Reacts(r, r, m)
  <2>1. Stays(r, r)
    BY <1>1 DEF Stays
  <2>2. QED BY <2>1, StaysProceeds DEF Reacts
<1>9. type \notin {"MsgApp", "MsgHeartbeat"}
  OBVIOUS
<1> HIDE DEF type
<1>10. QED BY <1>2, <1>5, <1>6, <1>7, <1>8, <1>9

\* The switch of Step.
LEMMA DispatchReacts ==
    ASSUME NEW r, Poised(r), Rising(r.log), NEW m \in Message, Proper(m)
    PROVE  Reacts(r, dispatch(r, m), m)
<1> DEFINE d == Msg("MsgProbeRttResp", m.from)
<1>1. /\ m.from \in Server /\ r.state \in States /\ Calm(r) /\ r.committed \in Nat /\ Told(m)
  BY DEF Poised, Calm, Whole, Typed, Raft, Message, Told
<1>2. dispatch(r, m) =
        CASE m.type \in {"MsgVote", "MsgPreVote"} -> respondToVote(r, m)
          [] m.type = "MsgProbeRtt" -> send(r, d)
          [] m.type = "MsgProbeRttResp" -> r
          [] OTHER -> CASE r.state = Leader -> stepLeader(r, m)
                        [] r.state = Follower -> stepFollower(r, m)
                        [] OTHER -> stepCandidate(r, m)
  BY DEF dispatch
<1>3. m.type \in {"MsgVote", "MsgPreVote"} => Reacts(r, respondToVote(r, m), m)
  BY RespondProceeds DEF Reacts
<1>4. Reacts(r, send(r, d), m)
  <2>1. Draft(d) /\ d.type = "MsgProbeRttResp"
    BY <1>1, PlainDraft DEF MessageTypes
  <2> HIDE DEF d
  <2>2. Stays(r, send(r, d))
    BY <1>1, <2>1, SendStays DEF Grant
  <2>3. QED BY <2>2, StaysProceeds DEF Reacts
<1>5. Reacts(r, r, m)
  <2>1. Stays(r, r)
    BY <1>1 DEF Stays
  <2>2. QED BY <2>1, StaysProceeds DEF Reacts
<1>6. r.state = Leader => Reacts(r, stepLeader(r, m), m)
  <2>1. r.state = Leader => Stays(r, stepLeader(r, m))
    BY <1>1, StepLeaderStays
  <2>2. QED BY <2>1, StaysProceeds DEF Reacts
<1>7. r.state = Follower => Reacts(r, stepFollower(r, m), m)
  BY StepFollowerReacts
<1>8. r.state # Leader /\ r.state # Follower => Reacts(r, stepCandidate(r, m), m)
  <2>1. r.state # Leader /\ r.state # Follower => r.state \in {Candidate, PreCandidate}
    BY <1>1 DEF States
  <2>2. QED BY <2>1, StepCandidateReacts
<1> HIDE DEF d
<1>9. QED BY <1>2, <1>3, <1>4, <1>5, <1>6, <1>7, <1>8

\* raft.Step: a node goes on with its own log, or takes entries of the message.
LEMMA StepReacts ==
    ASSUME NEW r, Poised(r), Rising(r.log), NEW m \in Message, Proper(m)
    PROVE  Reacts(r, Step(r, m), m)
<1> DEFINE lead == IF m.type \in {"MsgApp", "MsgHeartbeat"} THEN m.from ELSE None
           f == becomeFollower(r, m.term, lead)
<1>1. /\ Typed(r) /\ r.Term \in Nat /\ m.from \in Server /\ m.term \in Nat /\ r.msgs = {}
      /\ Calm(r) /\ r.committed \in Nat /\ r.committed <= Len(r.log)
  BY DEF Poised, Calm, Whole, Typed, Raft, Message
<1>2. Reacts(r, r, m)
  <2>1. Stays(r, r)
    BY <1>1 DEF Stays
  <2>2. QED BY <2>1, StaysProceeds DEF Reacts
<1>3. Reacts(r, stepLowerTerm(r, m), m)
  BY LowerTermProceeds DEF Reacts
<1>4. Reacts(r, dispatch(r, m), m)
  BY DispatchReacts
<1>5. m.term > r.Term => Reacts(r, dispatch(f, m), m)
  <2>0. SUFFICES ASSUME m.term > r.Term PROVE Reacts(r, dispatch(f, m), m)
    OBVIOUS
  <2>1. lead \in Server \cup {None}
    BY <1>1
  <2> HIDE DEF lead
  <2>2. /\ Typed(f) /\ f.id = r.id /\ f.Term = m.term /\ f.state = Follower /\ f.log = r.log
        /\ f.committed = r.committed /\ f.msgs = r.msgs /\ f.state # Leader
    <3>1. m.term \in Nat /\ Typed(r) /\ lead \in Server \cup {None}
      BY <1>1, <2>1
    <3>2. QED BY <3>1, FollowerFacts
  <2> HIDE DEF f
  <2>3. Poised(f)
    BY <1>1, <2>2 DEF Poised, Whole
  <2>4. Reacts(f, dispatch(f, m), m)
    BY <2>2, <2>3, DispatchReacts
  <2>5. QED BY <2>0, <2>2, <2>3, <2>4, ReactsLater
<1>6. atTermOf(r, m) \in {r} \cup (IF m.term <= r.Term THEN {} ELSE {f})
  BY DEF atTermOf
<1> HIDE DEF f
<1>7. Reacts(r, dispatch(atTermOf(r, m), m), m)
  <2>1. ~(m.term <= r.Term) => m.term > r.Term
    BY <1>1
  <2>2. QED BY <1>4, <1>5, <1>6, <2>1
<1>8. QED BY <1>2, <1>3, <1>4, <1>7 DEF Step

\* Step(MsgProp)
LEMMA ProposeProceeds ==
    ASSUME NEW r, Poised(r), NEW data \in Value \cup {None}, NEW N
    PROVE  Proceeds(r, propose(r, data), N)
<1> DEFINE to == forwardTo(r)
           ents == <<[term |-> 0, data |-> data]>>
           d == Msg("MsgProp", to)
           m == [d EXCEPT !.entries = ents]
           e == appendEntry(r, data)
<1>1. /\ Typed(r) /\ to \in Server \cup {None} /\ Calm(r)
  BY DEF Poised, Calm, Whole, Typed, Raft, forwardTo
<1>2. propose(r, data) = IF dropsProposal(r) THEN r
                         ELSE IF to # None THEN send(r, m) ELSE bcastAppend(e)
  BY DEF propose
<1>3. ~dropsProposal(r) /\ to = None => r.state = Leader
  BY DEF dropsProposal, forwardTo
<1> HIDE DEF to
<1>4. ASSUME to # None PROVE Proceeds(r, send(r, m), N)
  <2>1. ents \in Seq(Entry)
    BY DEF Entry
  <2>2. Draft(d) /\ d.type = "MsgProp"
    <3>1. to \in Server /\ "MsgProp" \in MessageTypes
      BY <1>1, <1>4 DEF MessageTypes
    <3>2. QED BY <3>1, PlainDraft
  <2> HIDE DEF ents, d
  <2>3. Draft(m) /\ m.type = "MsgProp"
    BY <2>1, <2>2 DEF Draft, Shaped, MsgFields
  <2> HIDE DEF m
  <2>4. Stays(r, send(r, m))
    BY <1>1, <2>3, SendStays DEF Grant
  <2>5. QED BY <2>4, StaysProceeds
<1>5. ASSUME r.state = Leader PROVE Proceeds(r, bcastAppend(e), N)
  <2>1. /\ Calm(e) /\ Grows(r, e) /\ e.id = r.id /\ e.Term = r.Term
        /\ e.committed >= r.committed
    BY <1>5, AppendEntryGrows
  <2> HIDE DEF e
  <2>2. Proceeds(r, e, N) /\ e.state = Leader
    BY <2>1 DEF Calm, Proceeds, Grows, Leader, Candidate
  <2>3. Stays(e, bcastAppend(e))
    BY <2>1, <2>2, BroadcastStays
  <2>4. QED BY <2>1, <2>2, <2>3, ProceedsStays
<1>6. Proceeds(r, r, N)
  <2>1. Stays(r, r)
    BY <1>1 DEF Stays, Calm, Whole, Typed
  <2>2. QED BY <2>1, StaysProceeds
<1> HIDE DEF e, m
<1>7. QED BY <1>2, <1>3, <1>4, <1>5, <1>6

\* newRaft
LEMMA RestartWhole ==
    ASSUME NEW s \in Server, NEW t \in Nat, NEW v \in Server \cup {None},
           NEW log \in Seq(Entry), NEW c \in Nat, c <= Len(log)
    PROVE  Poised(newRaft(s, t, v, log, c))
<1> DEFINE q == newRaft(s, t, v, log, c)
<1>1. NoProgress \in [Server -> Progress]
  BY DEF NoProgress, NewProgress, Progress, ProgressState
<1>2. Shaped(q, RaftFields)
  BY DEF newRaft, Shaped, RaftFields
<1>3. /\ q.id = s /\ q.Term = t /\ q.Vote = v /\ q.state = Follower /\ q.lead = None
      /\ q.leadTransferee = None /\ q.log = log /\ q.committed = c /\ q.elapsed = FALSE
      /\ q.yes = {} /\ q.no = {} /\ q.prs = NoProgress /\ q.msgs = {} /\ q.panic = FALSE
  BY DEF newRaft
<1> HIDE DEF q
<1>4. q.state \in States /\ q.state # Candidate /\ q.state # Leader
  BY <1>3 DEF States, Follower, Candidate, Leader
<1>5. Typed(q)
  BY <1>1, <1>2, <1>3, <1>4 DEF Typed, Raft
<1>6. Poised(q)
  BY <1>3, <1>4, <1>5 DEF Poised, Whole
<1>7. QED BY <1>6 DEF q

=============================================================================
