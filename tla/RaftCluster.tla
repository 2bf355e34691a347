---------------------------- MODULE RaftCluster ----------------------------
(***************************************************************************)
(* A cluster of raft nodes over an unreliable network.                     *)
(*                                                                         *)
(* net is the set of all messages ever sent: any of them may be delivered  *)
(* at any time, again, late or never.  Proposals travel in props and are   *)
(* consumed, because rafthttp does not repeat a message; losing one is     *)
(* leaving it there.  After each step the outbox of the node is drained,   *)
(* with the node's hard state and entries persisted first: this is the     *)
(* Ready/Save/send/Advance cycle of etcdserver/raft.go run to completion.  *)
(***************************************************************************)
EXTENDS RaftStep

CONSTANTS
    MaxTerm,   \* bound on the terms that campaigns start
    MaxLog,    \* bound on the log of a leader that appends
    Kind,      \* environment events that are counted
    Limit      \* how many of each may happen

ASSUME ClusterAssumption ==
    /\ MaxTerm \in Nat /\ MaxLog \in Nat
    /\ Limit \in [Kind -> Nat]
    /\ {"timeout", "restart", "beat", "check", "elapse", "transfer",
        "unreachable", "probe"} \subseteq Kind

VARIABLES
    node,      \* the raft struct of every server
    net,       \* every message sent so far, proposals excepted
    props,     \* MsgProp in flight
    proposed,  \* payloads handed to some node by a client (history)
    dropped,   \* payloads for which the client got ErrProposalDropped (history)
    leaders,   \* <<term, server>> for every election won (history)
    decided,   \* the longest log that was ever committed somewhere (history)
    count      \* events of each kind so far

vars == <<node, net, props, proposed, dropped, leaders, decided, count>>

Node == [id : Server, Term : Nat, Vote : Server \cup {None}, state : States,
         lead : Server \cup {None}, log : Seq(Entry), committed : Nat,
         leadTransferee : Server \cup {None}, elapsed : BOOLEAN,
         yes : SUBSET Server, no : SUBSET Server, prs : [Server -> Progress],
         msgs : SUBSET Message, panic : BOOLEAN]

Init ==
    /\ node = [s \in Server |-> newRaft(s, 0, None, <<>>, 0)]
    /\ net = {} /\ props = {} /\ proposed = {} /\ dropped = {}
    /\ leaders = {} /\ decided = <<>>
    /\ count = [k \in Kind |-> 0]

CommittedLog(r) == SubSeq(r.log, 1, r.committed)

\* Mutant of Becomes: messages are sent but Advance does not empty the outbox.
BecomesUnadvanced(s, r) ==
    /\ node' = [node EXCEPT ![s] = r]
    /\ net' = net \cup {m \in r.msgs : m.type # "MsgProp"}
    /\ leaders' = IF r.state = Leader THEN leaders \cup {<<r.Term, s>>} ELSE leaders
    /\ decided' = IF r.committed > Len(decided) THEN CommittedLog(r) ELSE decided

\* Node s becomes r: its outbox goes to the network, and an election that it
\* won and entries that it committed in this step are recorded.
Becomes(s, r) ==
    /\ node' = [node EXCEPT ![s] = [r EXCEPT !.msgs = {}]]
    /\ net' = net \cup {m \in r.msgs : m.type # "MsgProp"}
    /\ leaders' = IF r.state = Leader THEN leaders \cup {<<r.Term, s>>} ELSE leaders
    /\ decided' = IF r.committed > Len(decided) THEN CommittedLog(r) ELSE decided

Count(k) ==
    /\ count[k] < Limit[k]
    /\ count' = [count EXCEPT ![k] = @ + 1]

-----------------------------------------------------------------------------
\* tickElection past the randomized timeout, which is at least electionTimeout
Timeout(s) ==
    /\ node[s].state # Leader /\ promotable(node[s])
    /\ node[s].Term < MaxTerm
    /\ Count("timeout")
    /\ Becomes(s, hup(node[s]))
    /\ UNCHANGED <<props, proposed, dropped>>

\* A follower has not heard from its leader for electionTimeout ticks.
Elapse(s) ==
    /\ CheckQuorum /\ node[s].state = Follower
    /\ node[s].lead # None /\ ~node[s].elapsed
    /\ Count("elapse")
    /\ node' = [node EXCEPT ![s].elapsed = TRUE]
    /\ UNCHANGED <<net, props, proposed, dropped, leaders, decided>>

\* tickHeartbeat: MsgBeat
Beat(s) ==
    /\ node[s].state = Leader
    /\ Count("beat")
    /\ Becomes(s, bcastHeartbeat(node[s]))
    /\ UNCHANGED <<props, proposed, dropped>>

\* tickHeartbeat: electionTimeout has passed at the leader.  It checks its
\* quorum and gives up a leadership transfer under way.
ElectionTick(s) ==
    /\ node[s].state = Leader
    /\ Count("check")
    /\ LET c == IF CheckQuorum THEN leaderCheckQuorum(node[s]) ELSE node[s]
       IN  Becomes(s, abortLeaderTransfer(c))
    /\ UNCHANGED <<props, proposed, dropped>>

\* tickElection, tickHeartbeat: MsgProbeRttHup
Probe(s) ==
    /\ Count("probe")
    /\ Becomes(s, bcastProbeRtt(node[s]))
    /\ UNCHANGED <<props, proposed, dropped>>

\* rafthttp reports that peer i cannot be reached.
Unreachable(s, i) ==
    /\ node[s].state = Leader /\ i \in Peers(node[s])
    /\ Count("unreachable")
    /\ Becomes(s, leaderUnreachable(node[s], i))
    /\ UNCHANGED <<props, proposed, dropped>>

\* Node.TransferLeadership called at s
Transfer(s, transferee) ==
    /\ Count("transfer")
    /\ Becomes(s, transfer(node[s], transferee))
    /\ UNCHANGED <<props, proposed, dropped>>

\* IsResponseMsg
ResponseTypes == {"MsgAppResp", "MsgVoteResp", "MsgHeartbeatResp", "MsgPreVoteResp"}

\* A message arrives; an answer of a node that is no peer is filtered out.
\* MaxTerm also bounds the campaigns that messages start.
Receive(m) ==
    LET s == m.to
        r == Step(node[s], m)
    IN  /\ m.type \in ResponseTypes => m.from \in IDs(Voters[s])
        /\ r.Term <= MaxTerm /\ r # node[s]
        /\ Becomes(s, r)
        /\ UNCHANGED <<props, proposed, dropped, count>>

\* RawNode.Propose at s; Node.Propose waits for a leader instead of failing.
Propose(s, v) ==
    LET r == propose(node[s], v)
    IN  /\ v \notin proposed
        /\ lastIndex(r) <= MaxLog
        /\ proposed' = proposed \cup {v}
        /\ dropped' = IF dropsProposal(node[s]) THEN dropped \cup {v} ELSE dropped
        /\ Becomes(s, r)
        /\ props' = props \cup Forwarded(r)
        /\ UNCHANGED count

\* A forwarded proposal arrives.  Nobody is told if it is dropped here.
ReceiveProp(m) ==
    LET r == propose(node[m.to], m.entries[1].data)
    IN  /\ lastIndex(r) <= MaxLog
        /\ Becomes(m.to, r)
        /\ props' = (props \ {m}) \cup Forwarded(r)
        /\ UNCHANGED <<proposed, dropped, count>>

\* A crash and restart.  Terms, votes and entries are synced before anything
\* is sent; a commit index alone is not (MustSync), so an older one may return.
Restart(s) ==
    /\ Count("restart")
    /\ \E c \in 0..node[s].committed :
         node' = [node EXCEPT ![s] =
                    newRaft(s, node[s].Term, node[s].Vote, node[s].log, c)]
    /\ UNCHANGED <<net, props, proposed, dropped, leaders, decided>>

Next ==
    \/ \E s \in Server :
        \/ Timeout(s) \/ Elapse(s) \/ Beat(s) \/ ElectionTick(s) \/ Probe(s)
        \/ Restart(s)
        \/ \E i \in Server : Unreachable(s, i) \/ Transfer(s, i)
        \/ \E v \in Value : Propose(s, v)
    \/ \E m \in net : Receive(m)
    \/ \E m \in props : ReceiveProp(m)

Spec == Init /\ [][Next]_vars

-----------------------------------------------------------------------------
\* Every variable has its type, and outboxes are empty between steps.
TypeOK ==
    /\ node \in [Server -> Node]
    /\ \A s \in Server : node[s].id = s /\ node[s].msgs = {}
    /\ net \in SUBSET Message /\ props \in SUBSET Message
    /\ proposed \in SUBSET Value /\ dropped \in SUBSET proposed
    /\ leaders \in SUBSET (Nat \X Server)
    /\ decided \in Seq(Entry)
    /\ count \in [Kind -> Nat]

\* At most one node ever becomes leader in a term (raft.go becomeLeader, the
\* vote rules of Step and their persistence across restarts).
ElectionSafety == \A a, b \in leaders : a[1] = b[1] => a = b

\* No message makes a node truncate a committed entry (the panic of maybeAppend,
\* log.go:95), commit an index it does not have (commitTo, log.go:203), or send
\* a vote without a term or another message with one (send, raft.go:483 and 487).
NoPanic == \A s \in Server : ~node[s].panic

\* Logs that agree on the term of an index agree on everything up to it
\* (maybeAppend, findConflict).
LogMatching ==
    \A s, t \in Server :
        \A i \in 1..Len(node[s].log) :
            i <= Len(node[t].log) /\ node[s].log[i].term = node[t].log[i].term =>
                SubSeq(node[s].log, 1, i) = SubSeq(node[t].log, 1, i)

\* The cluster implements one replicated log: what nodes commit are prefixes of
\* a log that only grows, across elections, truncations and restarts.
Replicated == INSTANCE ReplicatedLog
    WITH log <- decided, delivered <- [s \in Server |-> CommittedLog(node[s])]

ImplementsReplicatedLog == Replicated!Spec

\* A leader whose term nobody has passed holds everything that was ever
\* committed, also what only nodes that lost their commit index had committed.
\* So does a transferee that its leader gave up on (tickHeartbeat) before the
\* MsgTimeoutNow arrived: what was committed since keeps it from being elected.
LeaderCompleteness ==
    \A l \in Server :
        node[l].state = Leader /\ (\A s \in Server : node[s].Term <= node[l].Term) =>
            /\ Len(decided) <= Len(node[l].log)
            /\ \A i \in 1..Len(decided) : node[l].log[i] = decided[i]

\* A proposal is appended at most once, however it is forwarded between
\* followers, leader and transferee.
ProposalAtMostOnce ==
    \A s \in Server : \A i, j \in 1..Len(node[s].log) :
        node[s].log[i].data = node[s].log[j].data /\ node[s].log[i].data # None => i = j

\* A payload whose proposer was told ErrProposalDropped is never in a log and
\* no longer under way.
DroppedNeverAppears ==
    \A v \in dropped :
        /\ \A m \in props : m.entries[1].data # v
        /\ \A s \in Server : \A i \in 1..Len(node[s].log) : node[s].log[i].data # v

\* What the leader believes a follower has, the follower has: a Match index is
\* backed by equal entries as long as the follower is in the leader's term.
MatchIsReal ==
    \A l, s \in Server :
        node[l].state = Leader /\ node[s].Term <= node[l].Term =>
            /\ node[l].prs[s].Match <= Len(node[s].log)
            /\ \A i \in 1..node[l].prs[s].Match : node[l].log[i] = node[s].log[i]

\* The voters whose grant of the term was sent to s.
Granters(s, term) ==
    {m.from : m \in {n \in net : /\ n.type = "MsgVoteResp" /\ ~n.reject
                                /\ n.to = s /\ n.term = term}}

\* Nobody leads a term without the grants of a quorum for this very term:
\* neither answers of an earlier campaign nor duplicates are counted.
LeadersWereElected ==
    \A l \in leaders : Wins(l[2], {l[2]} \cup Granters(l[2], l[1]))

\* With pre-votes no node moves the cluster past term 1 on its own: somebody was
\* first granted pre-votes by a quorum.
PreVoteGuardsTerm ==
    \A s \in Server : node[s].Term > 1 =>
        \E x \in Server : Wins(x, {x} \cup
            {m.from : m \in {n \in net : n.type = "MsgPreVoteResp" /\ ~n.reject /\ n.to = x}})

\* Terms only grow and a vote once given in a term is kept, also by a restart.
VotesAreKept ==
    [][\A s \in Server :
        /\ node[s].Term <= node'[s].Term
        /\ node[s].Term = node'[s].Term /\ node[s].Vote # None =>
               node'[s].Vote = node[s].Vote]_vars

=============================================================================
