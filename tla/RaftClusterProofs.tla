-------------------------- MODULE RaftClusterProofs --------------------------
(***************************************************************************)
(* Safety of the cluster, proved for every number of servers, every        *)
(* configuration with overlapping quorums and every bound: first of        *)
(* elections, then of the replicated log.                                  *)
(*                                                                         *)
(* For the log, L[T] is the log that the leader of term T had when it was  *)
(* last seen to lead, a ghost that no node keeps.  All logs are made of    *)
(* parts of these; an entry that a quorum acknowledged to the leader of    *)
(* its term, or still could, is in the logs of all later leaders.          *)
(***************************************************************************)
EXTENDS RaftCluster, RaftStepProofs

\* The voters whose grant of the term to s is in N.
GrantersIn(N, s, term) ==
    {m.from : m \in {n \in N : n.type = "MsgVoteResp" /\ ~n.reject /\ n.to = s /\ n.term = term}}

\* A vote granted binds the voter until it leaves the term.
Backed(m) ==
    /\ node[m.from].Term >= m.term
    /\ node[m.from].Term = m.term => node[m.from].Vote = m.to

\* An election won was won with grants, and the winner voted for nobody else.
Earned(e) ==
    /\ e \in Nat \X Server
    /\ Wins(e[2], {e[2]} \cup GrantersIn(net, e[2], e[1]))
    /\ node[e[2]].Term >= e[1]
    /\ node[e[2]].Term = e[1] => node[e[2]].Vote = e[2]
    /\ \A m \in net : Grant(m) /\ m.from = e[2] /\ m.term = e[1] => m.to = e[2]

\* Every node keeps the part of its type that elections depend on, a candidate
\* has counted only grants of its term, and a leader is on record.
NodesInv ==
    /\ node = [s \in Server |-> node[s]]
    /\ \A s \in Server : /\ node[s].id = s
                         /\ Rested(node[s], GrantersIn(net, s, node[s].Term))
                         /\ node[s].state = Leader => <<node[s].Term, s>> \in leaders

\* Grants bind their voters, and nobody grants twice in a term.
NetInv ==
    /\ \A m \in net : Sound(m) /\ (Grant(m) => Backed(m))
    /\ \A m, n \in net :
            Grant(m) /\ Grant(n) /\ m.from = n.from /\ m.term = n.term => m.to = n.to
    /\ \A m \in props : Sound(m)

\* Every election on record was earned.
LeadersInv == \A e \in leaders : Earned(e)

\* The inductive invariant.
ElectionInv == NodesInv /\ NetInv /\ LeadersInv

\* Node s becomes q, as every action of the cluster has it.
Moves(s, q) ==
    /\ node' = [node EXCEPT ![s] = [q EXCEPT !.msgs = {}]]
    /\ net' = net \cup {m \in q.msgs : m.type # "MsgProp"}
    /\ leaders' = IF q.state = Leader THEN leaders \cup {<<q.Term, s>>} ELSE leaders
    /\ \A m \in props' : m \in props \/ m \in q.msgs
    /\ Elects(node[s], q, GrantersIn(net, s, node[s].Term))

\* Somebody was given the pre-votes of a quorum, for whatever term.
Ever(N) ==
    \E s \in Server : Wins(s, {s} \cup {m.from : m \in {n \in N : Consent(n) /\ n.to = s}})

\* A node may be in term t: it was given pre-votes for t, or the leader of the term
\* before handed its office over, and some term before it was reached with pre-votes.
Allowed(N, t) == PolledIn(N, t) \/ (HandedIn(N, t) /\ Ever(N))

\* With pre-votes every term was allowed; only requests and grants of pre-votes speak of
\* a term that nobody has reached, and then of the next one of the node that asks.
GuardInv ==
    /\ \A s \in Server : /\ node[s].Term # 0 => Allowed(net, node[s].Term)
                         /\ Waits(node[s], net)
    /\ \A m \in net :
        /\ m.type = "MsgPreVote" => m.term <= node[m.from].Term + 1
        /\ Consent(m) => m.term <= node[m.to].Term + 1
        /\ m.type # "MsgPreVote" /\ ~Consent(m) /\ m.term # 0 => Allowed(net, m.term)

\* The step of s to q changes the term only for a reason that GuardInv allows.
Ascends(s, q) == PreVote /\ GuardInv => Climbs(node[s], q, net)

\* A cluster of nodes that have just been started satisfies the invariant.
LEMMA InitElection == Init => ElectionInv
<1> SUFFICES ASSUME Init PROVE ElectionInv
  OBVIOUS
<1>1. ASSUME NEW s \in Server
      PROVE  LET r == newRaft(s, 0, None, <<>>, 0)
             IN  Rested(r, GrantersIn(net, s, r.Term)) /\ r.id = s /\ r.state = Follower
  BY DEF newRaft, Rested, Raft, Shaped, RaftFields, Follower, Candidate, Leader, States
<1>2. NodesInv
  BY <1>1 DEF Init, NodesInv, Follower, Leader
<1>3. QED BY <1>2 DEF Init, ElectionInv, NetInv, LeadersInv

\* The invariant survives every legal step of any node.
LEMMA MovesElection ==
    ASSUME ElectionInv, NEW s \in Server, NEW q, Moves(s, q)
    PROVE  ElectionInv'
<1> DEFINE r == node[s]
           p == [q EXCEPT !.msgs = {}]
           G == GrantersIn(net, s, r.Term)
<1>1. Elects(r, q, G)
  BY DEF Moves
<1>2. /\ r.id = s /\ r.Term \in Nat /\ Raft(r) /\ Rested(r, G)
  BY DEF ElectionInv, NodesInv, Rested, Raft
<1>3. /\ Raft(p) /\ p.id = s /\ p.Term = q.Term /\ p.Vote = q.Vote /\ p.state = q.state
      /\ p.yes = q.yes /\ p.msgs = {} /\ q.id = s /\ q.Term \in Nat /\ q.Term >= r.Term
  <2>1. Raft(q) /\ q.id = s /\ q.Term >= r.Term
    BY <1>1, <1>2 DEF Elects
  <2>2. QED BY <2>1 DEF Raft, Shaped, RaftFields
<1>4. /\ node' = [i \in Server |-> IF i = s THEN p ELSE node[i]]
      /\ node'[s] = p /\ \A i \in Server : i # s => node'[i] = node[i]
  BY DEF Moves, ElectionInv, NodesInv
<1> HIDE DEF p
<1>5. net \subseteq net' /\ leaders \subseteq leaders'
  BY DEF Moves
<1>6. ASSUME NEW m \in net'
      PROVE  m \in net \/ (/\ Sound(m) /\ m.from = s
                           /\ Grant(m) => m.term = q.Term /\ m.to = q.Vote)
  BY <1>1, <1>2 DEF Moves, Elects
<1>7. ASSUME NEW i, NEW t PROVE GrantersIn(net, i, t) \subseteq GrantersIn(net', i, t)
  BY <1>5 DEF GrantersIn
\* What s granted before in the new term went to whom it now votes for.
<1>8. ASSUME NEW m \in net, Grant(m), m.from = s
      PROVE  m.term <= r.Term /\ (m.term = q.Term => q.Vote = m.to)
  <2>1. /\ r.Term >= m.term /\ (r.Term = m.term => r.Vote = m.to)
        /\ m.to \in Server /\ m.term \in Nat
    BY <1>8 DEF ElectionInv, NetInv, Backed, Sound
  <2>2. m.term = q.Term => q.Term = r.Term /\ r.Vote = m.to /\ r.Vote # None
    BY <1>2, <1>3, <2>1, CoreAssumption
  <2>3. QED BY <1>1, <1>2, <2>1, <2>2 DEF Elects
<1>9. NodesInv'
  <2>1. (node = [i \in Server |-> node[i]])'
    BY <1>4
  <2>2. ASSUME NEW i \in Server, i # s
        PROVE  (/\ node[i].id = i /\ Rested(node[i], GrantersIn(net, i, node[i].Term))
                /\ node[i].state = Leader => <<node[i].Term, i>> \in leaders)'
    <3>1. /\ node[i].id = i /\ Rested(node[i], GrantersIn(net, i, node[i].Term))
          /\ node[i].state = Leader => <<node[i].Term, i>> \in leaders
      BY DEF ElectionInv, NodesInv
    <3>2. Rested(node[i], GrantersIn(net', i, node[i].Term))
      BY <3>1, <1>7 DEF Rested
    <3>3. QED BY <2>2, <3>1, <3>2, <1>4, <1>5, <1>7 DEF Rested
  <2>3. Rested(p, GrantersIn(net', s, p.Term))
    <3>1. G \subseteq GrantersIn(net', s, r.Term)
      BY <1>7
    <3>2. p.state \in {Candidate, Leader} => p.Vote = p.id
      BY <1>1, <1>2, <1>3 DEF Elects, Rested
    <3>3. p.state = Candidate => p.yes \subseteq {p.id} \cup GrantersIn(net', s, p.Term)
      BY <1>1, <1>3, <3>1 DEF Elects
    <3> QED BY <1>3, <3>2, <3>3 DEF Rested
  <2>4. p.state = Leader => <<p.Term, s>> \in leaders'
    BY <1>3 DEF Moves
  <2>5. (/\ node[s].id = s /\ Rested(node[s], GrantersIn(net, s, node[s].Term))
         /\ node[s].state = Leader => <<node[s].Term, s>> \in leaders)'
    BY <1>3, <1>4, <2>3, <2>4
  <2>6. QED BY <2>1, <2>2, <2>5 DEF NodesInv
<1>10. NetInv'
  <2>1. ASSUME NEW m \in net' PROVE Sound(m) /\ (Grant(m) => Backed(m)')
    <3>1. CASE m \in net /\ m.from # s
      BY <3>1, <1>4 DEF ElectionInv, NetInv, Backed, Sound
    <3>2. CASE m \in net /\ m.from = s
      <4>1. Sound(m) /\ (Grant(m) => m.term <= r.Term /\ (m.term = q.Term => q.Vote = m.to))
        BY <3>2, <1>8 DEF ElectionInv, NetInv
      <4>2. QED BY <3>2, <4>1, <1>2, <1>3, <1>4 DEF Backed, Sound
    <3>3. CASE m \notin net
      BY <3>3, <1>3, <1>4, <1>6 DEF Backed
    <3>4. QED BY <3>1, <3>2, <3>3
  <2>2. ASSUME NEW m \in net', NEW n \in net', Grant(m), Grant(n),
               m.from = n.from, m.term = n.term
        PROVE  m.to = n.to
    BY <2>2, <1>6, <1>8 DEF ElectionInv, NetInv
  <2>3. ASSUME NEW m \in props' PROVE Sound(m)
    BY <1>1 DEF Moves, Elects, ElectionInv, NetInv
  <2>4. (\A m \in net : Sound(m) /\ (Grant(m) => Backed(m)))'
    BY <2>1
  <2>5. (\A m, n \in net :
            Grant(m) /\ Grant(n) /\ m.from = n.from /\ m.term = n.term => m.to = n.to)'
    BY <2>2
  <2>6. (\A m \in props : Sound(m))'
    BY <2>3
  <2>7. QED BY <2>4, <2>5, <2>6 DEF NetInv
<1>11. ASSUME NEW e \in leaders PROVE Earned(e)'
  <2>1. Earned(e)
    BY DEF ElectionInv, LeadersInv
  <2>2. e \in Nat \X Server /\ e[1] \in Nat /\ e[2] \in Server
    BY <2>1 DEF Earned
  <2>3. Wins(e[2], {e[2]} \cup GrantersIn(net', e[2], e[1]))
    BY <2>1, <2>2, <1>7, WinsMore DEF Earned
  <2>4. /\ node'[e[2]].Term >= e[1]
        /\ node'[e[2]].Term = e[1] => node'[e[2]].Vote = e[2]
    <3>1. CASE e[2] # s
      BY <3>1, <2>1, <2>2, <1>4 DEF Earned
    <3>2. CASE e[2] = s
      <4>1. r.Term >= e[1] /\ (r.Term = e[1] => r.Vote = s)
        BY <3>2, <2>1 DEF Earned
      <4>2. p.Term >= e[1] /\ (p.Term = e[1] => r.Term = e[1] /\ p.Term = r.Term)
        BY <4>1, <1>2, <1>3, <2>2
      <4>3. p.Term = e[1] => p.Vote = s
        BY <1>1, <1>3, <4>1, <4>2, CoreAssumption DEF Elects
      <4>4. QED BY <3>2, <1>4, <4>2, <4>3
    <3>3. QED BY <3>1, <3>2
  <2>5. ASSUME NEW m \in net', Grant(m), m.from = e[2], m.term = e[1] PROVE m.to = e[2]
    <3>1. CASE m \in net
      BY <3>1, <2>1, <2>5 DEF Earned
    <3>2. CASE m \notin net
      <4>1. m.from = s /\ e[2] = s /\ e[1] = q.Term /\ m.to = q.Vote
        BY <3>2, <2>5, <1>6
      <4>2. QED BY <4>1, <2>4, <1>3, <1>4
    <3>3. QED BY <3>1, <3>2
  <2>6. QED BY <2>2, <2>3, <2>4, <2>5 DEF Earned
<1>12. ASSUME q.state = Leader, <<q.Term, s>> \notin leaders
       PROVE  Earned(<<q.Term, s>>)'
  <2>1. q.Vote = s /\ (Wins(s, {s}) \/ (q.Term = r.Term /\ Wins(s, {s} \cup G)))
    <3>1. ~(r.state = Leader /\ q.Term = r.Term)
      BY <1>12 DEF ElectionInv, NodesInv
    <3>2. QED BY <1>1, <1>2, <1>3, <1>12, <3>1 DEF Elects
  <2>2. Wins(s, {s} \cup GrantersIn(net', s, q.Term))
    <3>1. s \in Server /\ G \subseteq GrantersIn(net', s, r.Term)
      BY <1>7
    <3>2. QED BY <2>1, <3>1, WinsMore
  <2>3. ASSUME NEW m \in net', Grant(m), m.from = s, m.term = q.Term PROVE m.to = s
    BY <2>1, <2>3, <1>6, <1>8
  <2>4. node'[s].Term = q.Term /\ node'[s].Vote = s /\ q.Term \in Nat
    BY <2>1, <1>3, <1>4
  <2> DEFINE e == <<q.Term, s>>
  <2>5. e[1] = q.Term /\ e[2] = s /\ e \in Nat \X Server
    BY <2>4
  <2> HIDE DEF e
  <2>6. Earned(e)'
    BY <2>2, <2>3, <2>4, <2>5 DEF Earned
  <2>7. QED BY <2>6 DEF e
<1>13. LeadersInv'
  BY <1>11, <1>12 DEF LeadersInv, Moves
<1>14. QED BY <1>9, <1>10, <1>13 DEF ElectionInv

\* Every action of the cluster, restarts included, is a legal step of one node.
LEMMA NextMoves ==
    ASSUME ElectionInv, Next
    PROVE  \E s \in Server : \E q : Moves(s, q) /\ Ascends(s, q)
<1> DEFINE G(s) == GrantersIn(net, s, node[s].Term)
<1>1. ASSUME NEW s \in Server
      PROVE  /\ Rested(node[s], G(s)) /\ Raft(node[s]) /\ node[s].id = s
             /\ node[s].msgs = {}
             /\ node[s].state = Leader => node[s].Term # 0
  BY DEF ElectionInv, NodesInv, Rested, Raft
<1>2. ASSUME NEW s \in Server, NEW q, Becomes(s, q), Elects(node[s], q, G(s)),
             \A m \in props' : m \in props \/ m \in q.msgs
      PROVE  Moves(s, q)
  BY <1>2 DEF Moves, Becomes
<1>3. ASSUME NEW s \in Server, NEW q, Becomes(s, q), Frame(node[s], q),
             \A m \in props' : m \in props \/ m \in q.msgs
      PROVE  Moves(s, q) /\ Ascends(s, q)
  <2>1. Elects(node[s], q, G(s))
    BY <1>1, <1>3, FrameElects
  <2>2. Ascends(s, q)
    BY <1>1, <1>3, FrameClimbs DEF Ascends, GuardInv
  <2>3. QED BY <1>2, <1>3, <2>1, <2>2
<1>4. ASSUME NEW s \in Server, Timeout(s)
      PROVE  Moves(s, hup(node[s])) /\ Ascends(s, hup(node[s]))
  <2>1. Moves(s, hup(node[s]))
    BY <1>1, <1>2, <1>4, HupElects DEF Timeout
  <2>2. Ascends(s, hup(node[s]))
    BY <1>1, HupClimbs DEF Ascends, GuardInv
  <2>3. QED BY <2>1, <2>2
<1>5. ASSUME NEW s \in Server, Elapse(s)
      PROVE  \E q : Moves(s, q) /\ Ascends(s, q)
  <2> DEFINE q == [node[s] EXCEPT !.elapsed = TRUE]
  <2>1. Frame(node[s], q) /\ Shaped(q, RaftFields) /\ q.msgs = {}
    BY <1>1, ElapseFrame DEF Rested
  <2>2. q.state # Leader
    BY <1>5, <2>1 DEF Elapse, Frame, Follower, Leader
  <2>3. node' = [node EXCEPT ![s] = q] /\ net' = net /\ leaders' = leaders /\ props' = props
    BY <1>5 DEF Elapse
  <2>4. Elects(node[s], q, G(s)) /\ Ascends(s, q)
    BY <1>1, <2>1, FrameElects, FrameClimbs DEF Ascends, GuardInv
  <2> HIDE DEF q
  <2>5. node' = [node EXCEPT ![s] = [q EXCEPT !.msgs = {}]]
    BY <2>1, <2>3, Drained
  <2>6. Moves(s, q)
    BY <2>1, <2>2, <2>3, <2>4, <2>5 DEF Moves
  <2>7. QED BY <2>4, <2>6
<1>6. ASSUME NEW s \in Server, Beat(s)
      PROVE  Moves(s, bcastHeartbeat(node[s])) /\ Ascends(s, bcastHeartbeat(node[s]))
  BY <1>1, <1>3, <1>6, HeartbeatFrame DEF Beat
<1>7. ASSUME NEW s \in Server, ElectionTick(s) PROVE \E q : Moves(s, q) /\ Ascends(s, q)
  <2> DEFINE q == abortLeaderTransfer(IF CheckQuorum THEN leaderCheckQuorum(node[s]) ELSE node[s])
  <2>1. Becomes(s, q) /\ node[s].state = Leader /\ props' = props
    BY <1>7 DEF ElectionTick
  <2>2. Elects(node[s], q, G(s))
    BY <1>1, <2>1, TickElects
  <2>3. Climbs(node[s], q, net)
    BY <1>1, <2>1, TickClimbs
  <2> HIDE DEF q
  <2>4. Moves(s, q)
    BY <1>2, <2>1, <2>2
  <2>5. Ascends(s, q)
    BY <2>3 DEF Ascends
  <2>6. QED BY <2>4, <2>5
<1>8. ASSUME NEW s \in Server, Probe(s)
      PROVE  Moves(s, bcastProbeRtt(node[s])) /\ Ascends(s, bcastProbeRtt(node[s]))
  BY <1>1, <1>3, <1>8, ProbeFrame DEF Probe
<1>9. ASSUME NEW s \in Server, NEW i \in Server, Unreachable(s, i)
      PROVE  Moves(s, leaderUnreachable(node[s], i)) /\ Ascends(s, leaderUnreachable(node[s], i))
  BY <1>1, <1>3, <1>9, LeaderUnreachableFrame DEF Unreachable
<1>10. ASSUME NEW s \in Server, NEW i \in Server, Transfer(s, i)
       PROVE  Moves(s, transfer(node[s], i)) /\ Ascends(s, transfer(node[s], i))
  <2>1. Moves(s, transfer(node[s], i))
    BY <1>1, <1>2, <1>10, TransferElects DEF Transfer
  <2>2. Ascends(s, transfer(node[s], i))
    BY <1>1, TransferClimbs DEF Ascends, GuardInv
  <2>3. QED BY <2>1, <2>2
<1>11. ASSUME NEW s \in Server, NEW v \in Value, Propose(s, v)
       PROVE  Moves(s, propose(node[s], v)) /\ Ascends(s, propose(node[s], v))
  BY <1>1, <1>3, <1>11, ProposeFrame DEF Propose, Forwarded
<1>12. ASSUME NEW m \in net, Receive(m)
       PROVE  /\ m.to \in Server /\ Moves(m.to, Step(node[m.to], m))
              /\ Ascends(m.to, Step(node[m.to], m))
  <2>1. Sound(m) /\ m.to \in Server
    BY DEF ElectionInv, NetInv, Sound
  <2>2. Grant(m) /\ m.term = node[m.to].Term => m.from \in G(m.to)
    BY DEF Grant, GrantersIn
  <2>3. Elects(node[m.to], Step(node[m.to], m), G(m.to))
    BY <1>1, <2>1, <2>2, StepElects
  <2>4. Ascends(m.to, Step(node[m.to], m))
    <3> SUFFICES ASSUME GuardInv PROVE Climbs(node[m.to], Step(node[m.to], m), net)
      BY DEF Ascends
    <3>1. Waits(node[m.to], net) /\ (Consent(m) => m.term <= node[m.to].Term + 1)
      BY <2>1 DEF GuardInv
    <3>2. QED BY <1>1, <2>1, <2>2, <3>1, StepClimbs
  <2>5. QED BY <1>2, <1>12, <2>1, <2>3, <2>4 DEF Receive
<1>13. ASSUME NEW m \in props, ReceiveProp(m)
       PROVE  m.to \in Server /\ \E q : Moves(m.to, q) /\ Ascends(m.to, q)
  <2> DEFINE q == propose(node[m.to], m.entries[1].data)
  <2>1. m.to \in Server
    BY DEF ElectionInv, NetInv, Sound
  <2>2. Frame(node[m.to], q)
    BY <1>1, <2>1, ProposeFrame
  <2>3. Becomes(m.to, q) /\ \A n \in props' : n \in props \/ n \in q.msgs
    BY <1>13 DEF ReceiveProp, Forwarded
  <2> HIDE DEF q
  <2>4. QED BY <1>3, <2>1, <2>2, <2>3
<1>14. ASSUME NEW s \in Server, Restart(s) PROVE \E q : Moves(s, q) /\ Ascends(s, q)
  <2>1. PICK c \in 0..node[s].committed :
            node' = [node EXCEPT ![s] = newRaft(s, node[s].Term, node[s].Vote, node[s].log, c)]
    BY <1>14 DEF Restart
  <2> DEFINE q == newRaft(s, node[s].Term, node[s].Vote, node[s].log, c)
  <2>2. /\ Shaped(q, RaftFields) /\ q.id = s /\ q.Term = node[s].Term /\ q.Vote = node[s].Vote
        /\ q.state = Follower /\ q.lead = None /\ q.leadTransferee = None /\ q.msgs = {}
    BY DEF newRaft, Shaped, RaftFields
  <2>3. net' = net /\ leaders' = leaders /\ props' = props
    BY <1>14 DEF Restart
  <2> HIDE DEF q
  <2>4. q.state # Candidate /\ q.state # Leader /\ q.state \in States
    BY <2>2 DEF Follower, Candidate, Leader, States
  <2>5. Raft(q)
    BY <1>1, <2>2, <2>4 DEF Raft
  <2>6. Elects(node[s], q, G(s))
    BY <1>1, <2>2, <2>4, <2>5 DEF Elects, Raft
  <2>7. node' = [node EXCEPT ![s] = [q EXCEPT !.msgs = {}]]
    BY <2>1, <2>2, Drained DEF q
  <2>8. leaders' = IF q.state = Leader THEN leaders \cup {<<q.Term, s>>} ELSE leaders
    BY <2>3, <2>4
  <2>9. net' = net \cup {m \in q.msgs : m.type # "MsgProp"}
    BY <2>2, <2>3
  <2>10. Moves(s, q)
    BY <2>3, <2>6, <2>7, <2>8, <2>9 DEF Moves
  <2>11. Ascends(s, q)
    BY <2>2, <2>5, FollowerClimbs, <1>1 DEF Ascends
  <2>12. QED BY <2>10, <2>11
<1>15. QED
  BY <1>4, <1>5, <1>6, <1>7, <1>8, <1>9, <1>10, <1>11, <1>12, <1>13, <1>14 DEF Next

-----------------------------------------------------------------------------
\* The strengthening of the next three theorems holds in every reachable state:
\* grants in the network bind their voters, and every election won stays backed by
\* the grants of a quorum that nobody of it can give twice.
THEOREM ElectionInvariant == Spec => []ElectionInv
<1>1. Init => ElectionInv
  BY InitElection
<1>2. ElectionInv /\ [Next]_vars => ElectionInv'
  <2> SUFFICES ASSUME ElectionInv, [Next]_vars PROVE ElectionInv'
    OBVIOUS
  <2>1. CASE Next
    BY <2>1, NextMoves, MovesElection
  <2>2. CASE UNCHANGED vars
    BY <2>2 DEF vars, ElectionInv, NodesInv, NetInv, LeadersInv, Backed, Earned, GrantersIn
  <2>3. QED BY <2>1, <2>2
<1>3. QED BY <1>1, <1>2, PTL DEF Spec

\* Election safety holds in every state of the election invariant.
LEMMA OneLeader ==
    ASSUME ElectionInv, NEW a \in leaders, NEW b \in leaders, a[1] = b[1]
    PROVE  a = b
<1>1. Earned(a) /\ Earned(b)
  BY DEF ElectionInv, LeadersInv
<1> DEFINE A == {a[2]} \cup GrantersIn(net, a[2], a[1])
           B == {b[2]} \cup GrantersIn(net, b[2], b[1])
<1>2. A \in SUBSET Server /\ B \in SUBSET Server /\ a[2] \in Server /\ b[2] \in Server
  BY <1>1 DEF Earned, ElectionInv, NetInv, Sound, GrantersIn
<1>3. Wins(a[2], A) /\ Wins(b[2], B)
  BY <1>1 DEF Earned
<1>4. PICK x : x \in A /\ x \in B
  <2> HIDE DEF A, B
  <2>1. A \cap B # {}
    BY <1>2, <1>3, CoreAssumption
  <2>2. QED BY <2>1
<1>5. a[2] = b[2]
  <2>1. x = a[2] \/ \E m \in net : Grant(m) /\ m.from = x /\ m.term = a[1] /\ m.to = a[2]
    BY <1>4 DEF GrantersIn, Grant
  <2>2. x = b[2] \/ \E m \in net : Grant(m) /\ m.from = x /\ m.term = a[1] /\ m.to = b[2]
    BY <1>4 DEF GrantersIn, Grant
  <2>3. QED BY <2>1, <2>2, <1>1 DEF Earned, ElectionInv, NetInv
<1>6. a = <<a[1], a[2]>> /\ b = <<b[1], b[2]>>
  BY <1>1 DEF Earned
<1>7. QED BY <1>5, <1>6

\* More messages allow more.
LEMMA AllowedMore ==
    ASSUME NEW N, NEW M, N \subseteq M
    PROVE  /\ \A t : PolledIn(N, t) => PolledIn(M, t)
           /\ \A t : HandedIn(N, t) => HandedIn(M, t)
           /\ Ever(N) => Ever(M)
           /\ \A t : Allowed(N, t) => Allowed(M, t)
<1>1. ASSUME NEW t, PolledIn(N, t) PROVE PolledIn(M, t)
  <2>1. PICK s \in Server : Wins(s, {s} \cup PreGrantersIn(N, s, t))
    BY <1>1 DEF PolledIn
  <2>2. PreGrantersIn(N, s, t) \subseteq PreGrantersIn(M, s, t)
    BY DEF PreGrantersIn
  <2>3. Wins(s, {s} \cup PreGrantersIn(M, s, t))
    BY <2>1, <2>2, WinsMore
  <2>4. QED BY <2>3 DEF PolledIn
<1>2. ASSUME NEW t, HandedIn(N, t) PROVE HandedIn(M, t)
  BY <1>2 DEF HandedIn
<1>3. ASSUME Ever(N) PROVE Ever(M)
  <2>1. PICK s \in Server : Wins(s, {s} \cup {m.from : m \in {n \in N : Consent(n) /\ n.to = s}})
    BY <1>3 DEF Ever
  <2>2. Wins(s, {s} \cup {m.from : m \in {n \in M : Consent(n) /\ n.to = s}})
    BY <2>1, WinsMore
  <2>3. QED BY <2>2 DEF Ever
<1>4. QED BY <1>1, <1>2, <1>3 DEF Allowed

\* Pre-votes of a quorum for one term are pre-votes of a quorum.
LEMMA PolledEver ==
    ASSUME NEW N, NEW t, Allowed(N, t)
    PROVE  Ever(N)
<1>1. ASSUME PolledIn(N, t) PROVE Ever(N)
  <2>1. PICK s \in Server : Wins(s, {s} \cup PreGrantersIn(N, s, t))
    BY <1>1 DEF PolledIn
  <2>2. PreGrantersIn(N, s, t) \subseteq {m.from : m \in {n \in N : Consent(n) /\ n.to = s}}
    BY DEF PreGrantersIn
  <2>3. Wins(s, {s} \cup {m.from : m \in {n \in N : Consent(n) /\ n.to = s}})
    BY <2>1, <2>2, WinsMore
  <2>4. QED BY <2>3 DEF Ever
<1>2. QED BY <1>1 DEF Allowed

\* With pre-votes a legal step of any node moves it to an allowed term only.
LEMMA AscendsGuard ==
    ASSUME PreVote, ElectionInv, GuardInv, NEW s \in Server, NEW q, Moves(s, q), Ascends(s, q)
    PROVE  GuardInv'
<1> DEFINE r == node[s]
           p == [q EXCEPT !.msgs = {}]
<1>1. Elects(r, q, GrantersIn(net, s, r.Term)) /\ Climbs(r, q, net)
  BY DEF Moves, Ascends
<1>2. r.id = s /\ r.Term \in Nat /\ Raft(r) /\ node = [i \in Server |-> node[i]]
  BY DEF ElectionInv, NodesInv, Rested, Raft
<1>3. /\ Raft(q) /\ q.id = s /\ q.Term \in Nat /\ q.Term >= r.Term
      /\ p.id = s /\ p.Term = q.Term /\ p.state = q.state /\ p.yes = q.yes
  <2>1. Raft(q) /\ q.id = s /\ q.Term >= r.Term
    BY <1>1, <1>2 DEF Elects
  <2>2. QED BY <2>1 DEF Raft, Shaped, RaftFields
<1>4. /\ node' = [i \in Server |-> IF i = s THEN p ELSE node[i]]
      /\ node'[s] = p /\ \A i \in Server : i # s => node'[i] = node[i]
  BY <1>2 DEF Moves
<1> HIDE DEF p
<1>5. net \subseteq net' /\ \A m \in net' : m \in net \/ m \in q.msgs
  BY DEF Moves
<1>6. \A t : Allowed(net, t) => Allowed(net', t)
  BY <1>5, AllowedMore
<1>7. \A i \in Server : node[i].Term \in Nat /\ node'[i].Term \in Nat /\ node'[i].Term >= node[i].Term
  <2>1. \A i \in Server : node[i].Term \in Nat
    BY DEF ElectionInv, NodesInv, Rested, Raft
  <2>2. p.Term \in Nat /\ p.Term >= r.Term
    BY <1>3
  <2>3. QED BY <1>4, <2>1, <2>2
\* The term that s is in now was allowed by what had been sent.
<1>8. q.Term # 0 => Allowed(net, q.Term)
  <2> SUFFICES ASSUME q.Term # 0 PROVE Allowed(net, q.Term)
    OBVIOUS
  <2>1. CASE q.Term = r.Term
    BY <2>1 DEF GuardInv
  <2>2. CASE HeardIn(net, q.Term)
    BY <2>2 DEF GuardInv, HeardIn
  <2>3. CASE HandedIn(net, q.Term)
    <3>1. PICK m \in net : m.type = "MsgTimeoutNow"
      BY <2>3 DEF HandedIn
    <3>2. m.term # 0 /\ ~Consent(m) /\ m.type # "MsgPreVote"
      BY <3>1 DEF ElectionInv, NetInv, Sound, Consent
    <3>3. Ever(net)
      BY <3>2, PolledEver DEF GuardInv
    <3>4. QED BY <2>3, <3>3 DEF Allowed
  <2>4. CASE PolledIn(net, q.Term)
    BY <2>4 DEF Allowed
  <2>5. QED BY <1>1, <2>1, <2>2, <2>3, <2>4 DEF Climbs
<1>9. ASSUME NEW i, NEW t PROVE PreGrantersIn(net, i, t) \subseteq PreGrantersIn(net', i, t)
  BY <1>5 DEF PreGrantersIn
<1>10. ASSUME NEW i \in Server
       PROVE  (/\ node[i].Term # 0 => Allowed(net, node[i].Term)
               /\ Waits(node[i], net))'
  <2>1. CASE i = s
    <3>1. Waits(p, net')
      <4>1. Waits(q, net)
        BY <1>1 DEF Climbs
      <4>2. QED BY <1>3, <1>9, <4>1 DEF Waits
    <3>2. p.Term # 0 => Allowed(net', p.Term)
      BY <1>3, <1>6, <1>8
    <3>3. QED BY <2>1, <3>1, <3>2, <1>4
  <2>2. CASE i # s
    <3>1. /\ node[i].Term # 0 => Allowed(net, node[i].Term)
          /\ Waits(node[i], net)
      BY DEF GuardInv
    <3>2. Waits(node[i], net')
      BY <3>1, <1>9 DEF Waits
    <3>3. QED BY <2>2, <3>1, <3>2, <1>4, <1>6
  <2>3. QED BY <2>1, <2>2
<1>11. ASSUME NEW m \in net'
       PROVE  /\ m.type = "MsgPreVote" => m.term <= node'[m.from].Term + 1
              /\ Consent(m) => m.term <= node'[m.to].Term + 1
              /\ m.type # "MsgPreVote" /\ ~Consent(m) /\ m.term # 0 => Allowed(net', m.term)
  <2>1. CASE m \in net
    <3>1. m.from \in Server /\ m.to \in Server /\ m.term \in Nat
      BY <2>1 DEF ElectionInv, NetInv, Sound
    <3>2. /\ m.type = "MsgPreVote" => m.term <= node[m.from].Term + 1
          /\ Consent(m) => m.term <= node[m.to].Term + 1
          /\ m.type # "MsgPreVote" /\ ~Consent(m) /\ m.term # 0 => Allowed(net, m.term)
      BY <2>1 DEF GuardInv
    <3>3. /\ node'[m.from].Term >= node[m.from].Term /\ node'[m.to].Term >= node[m.to].Term
          /\ node[m.from].Term \in Nat /\ node'[m.from].Term \in Nat
          /\ node[m.to].Term \in Nat /\ node'[m.to].Term \in Nat
      BY <1>7, <3>1
    <3>4. m.type = "MsgPreVote" => m.term <= node'[m.from].Term + 1
      BY <3>1, <3>2, <3>3
    <3>5. Consent(m) => m.term <= node'[m.to].Term + 1
      BY <3>1, <3>2, <3>3
    <3>6. QED BY <3>2, <3>4, <3>5, <1>6
  <2>2. CASE m \in q.msgs
    <3>1. Sound(m) /\ m.from = s /\ m.from \in Server /\ m.to \in Server /\ m.term \in Nat
      BY <2>2, <1>1, <1>2 DEF Elects, Sound
    <3>2. CASE OfTerm(m, q.Term)
      <4>1. ~Consent(m) /\ (m.type = "MsgPreVote" => m.term <= q.Term + 1)
            /\ (m.type # "MsgPreVote" => m.term \in {0, q.Term})
        BY <3>1, <3>2, <1>3 DEF OfTerm
      <4>2. node'[m.from].Term = q.Term
        BY <3>1, <1>3, <1>4
      <4>3. QED BY <4>1, <4>2, <1>6, <1>8
    <3>3. CASE Consent(m) /\ \E n \in net : n.type = "MsgPreVote" /\ n.from = m.to /\ n.term = m.term
      <4>1. m.term <= node[m.to].Term + 1 /\ m.type # "MsgPreVote"
        BY <3>3 DEF GuardInv, Consent
      <4>2. node'[m.to].Term >= node[m.to].Term /\ node[m.to].Term \in Nat /\ node'[m.to].Term \in Nat
        BY <1>7, <3>1
      <4>3. m.term <= node'[m.to].Term + 1
        BY <3>1, <4>1, <4>2
      <4>4. QED BY <3>3, <4>1, <4>3
    <3>4. QED BY <2>2, <3>2, <3>3, <1>1 DEF Climbs
  <2>3. QED BY <1>5, <2>1, <2>2
<1>12. QED BY <1>10, <1>11 DEF GuardInv

\* For every cluster, joint configuration of overlapping quorums and schedule of
\* messages, timeouts and restarts, at most one node becomes leader in a term
\* (becomeLeader, the vote rules of Step, Vote being persisted).
THEOREM OneLeaderPerTerm == Spec => []ElectionSafety
<1>1. ElectionInv => ElectionSafety
  BY OneLeader DEF ElectionSafety
<1>2. QED BY <1>1, ElectionInvariant, PTL

\* Every election was won with the grants of a quorum for its very term
\* (RecordVote, ResetVotes), however answers are delayed or repeated.
THEOREM LeadersElected == Spec => []LeadersWereElected
<1>1. ElectionInv => LeadersWereElected
  BY DEF ElectionInv, LeadersInv, Earned, LeadersWereElected, GrantersIn, Granters
<1>2. QED BY <1>1, ElectionInvariant, PTL

\* No step, restarts included, lowers a term or changes a vote given in it
\* (reset, becomeFollower, respondToVote, the hard state).
THEOREM VotesKept == Spec => VotesAreKept
<1>1. ElectionInv /\ [Next]_vars =>
          [\A s \in Server :
              /\ node[s].Term <= node'[s].Term
              /\ node[s].Term = node'[s].Term /\ node[s].Vote # None =>
                     node'[s].Vote = node[s].Vote]_vars
  <2> SUFFICES ASSUME ElectionInv, Next, NEW s \in Server
               PROVE  /\ node[s].Term <= node'[s].Term
                      /\ node[s].Term = node'[s].Term /\ node[s].Vote # None =>
                             node'[s].Vote = node[s].Vote
    OBVIOUS
  <2>0. PICK i \in Server : \E q : Moves(i, q)
    BY NextMoves
  <2>1. PICK q : Moves(i, q)
    BY <2>0
  <2>2. node[s].Term \in Nat /\ node = [x \in Server |-> node[x]] /\ node[i].id = i
    BY DEF ElectionInv, NodesInv, Rested, Raft
  <2>3. CASE s # i
    BY <2>1, <2>2, <2>3 DEF Moves
  <2>4. CASE s = i
    <3> DEFINE p == [q EXCEPT !.msgs = {}]
    <3>1. /\ Raft(q) /\ q.Term >= node[s].Term
          /\ q.Term = node[s].Term /\ node[s].Vote # None => q.Vote = node[s].Vote
      BY <2>1, <2>4 DEF Moves, Elects
    <3>2. p.Term = q.Term /\ p.Vote = q.Vote /\ q.Term \in Nat
      BY <3>1 DEF Raft, Shaped, RaftFields
    <3>3. node'[s] = p
      BY <2>1, <2>2, <2>4 DEF Moves
    <3> HIDE DEF p
    <3>4. QED BY <2>2, <3>1, <3>2, <3>3
  <2>5. QED BY <2>3, <2>4
<1>2. QED BY <1>1, ElectionInvariant, PTL DEF Spec, VotesAreKept

\* With pre-votes every term that a node is in is either one for which a quorum granted
\* somebody its pre-votes, counting the answers that arrive a term late, or the one
\* after that of a leader who handed its office over (campaign, Step, MsgTimeoutNow).
THEOREM TermsAllowed ==
    ASSUME PreVote
    PROVE  Spec => [](\A s \in Server : node[s].Term # 0 => Allowed(net, node[s].Term))
<1>1. Init => GuardInv
  <2> SUFFICES ASSUME Init PROVE GuardInv
    OBVIOUS
  <2>1. ASSUME NEW s \in Server
        PROVE  LET r == newRaft(s, 0, None, <<>>, 0) IN r.Term = 0 /\ r.state # PreCandidate
    BY DEF newRaft, Follower, PreCandidate
  <2>2. QED BY <2>1 DEF Init, GuardInv, Waits
<1>2. ElectionInv /\ GuardInv /\ [Next]_vars => GuardInv'
  <2> SUFFICES ASSUME ElectionInv, GuardInv, [Next]_vars PROVE GuardInv'
    OBVIOUS
  <2>1. CASE Next
    BY <2>1, NextMoves, AscendsGuard
  <2>2. CASE UNCHANGED vars
    BY <2>2 DEF vars, GuardInv
  <2>3. QED BY <2>1, <2>2
<1>3. GuardInv => \A s \in Server : node[s].Term # 0 => Allowed(net, node[s].Term)
  BY DEF GuardInv
<1>4. QED BY <1>1, <1>2, <1>3, ElectionInvariant, PTL DEF Spec

\* No node moves the cluster past its first term on its own: somebody was first granted
\* pre-votes by a quorum, also where terms change by transfers (hup, campaign, Step).
THEOREM PreVotesGuard ==
    ASSUME PreVote
    PROVE  Spec => []PreVoteGuardsTerm
<1>1. (\A s \in Server : node[s].Term # 0 => Allowed(net, node[s].Term)) => PreVoteGuardsTerm
  <2>1. ASSUME NEW s \in Server, Allowed(net, node[s].Term)
        PROVE  \E x \in Server : Wins(x, {x} \cup
                 {m.from : m \in {n \in net : /\ n.type = "MsgPreVoteResp"
                                              /\ ~n.reject /\ n.to = x}})
    <3>1. Ever(net)
      BY <2>1, PolledEver
    <3>2. QED BY <3>1 DEF Ever, Consent
  <2>2. ASSUME NEW s \in Server, node[s].Term > 1 PROVE node[s].Term # 0
    BY <2>2
  <2>3. QED BY <2>1, <2>2 DEF PreVoteGuardsTerm
<1>2. QED BY <1>1, TermsAllowed, PTL

-----------------------------------------------------------------------------
(* The replicated log: the invariant *)

Elected(T) == \E v \in Server : <<T, v>> \in leaders

\* The i-th entry of the leader of term T was appended by it in that term.
Own(L, T, i) == i \in 1..Len(L[T]) /\ L[T][i].term = T

\* v acknowledged the first i entries to the leader of term T.
Got(v, T, i) == \E m \in net : Ack(m) /\ m.from = v /\ m.term = T /\ m.index >= i

\* ... or had them, because it was that leader.
Acked(L, v, T, i) == Got(v, T, i) \/ (<<T, v>> \in leaders /\ i <= Len(L[T]))

\* What was acknowledged to s in its present term.
Acks(s) == {a \in Server \X Nat : Got(a[1], node[s].Term, a[2])}

\* Voters that win elections acknowledged i entries to the leader of T,
Chosen(L, T, i) ==
    \E l \in Server : \E Q \in SUBSET Server :
        Wins(l, Q) /\ \A v \in Q : Acked(L, v, T, i)

\* ... or did and still may: who has passed the term T acknowledges no more.
Choosable(L, T, i) ==
    \E l \in Server : \E Q \in SUBSET Server :
        Wins(l, Q) /\ \A v \in Q : Acked(L, v, T, i) \/ node[v].Term <= T

\* The first c entries of x were committed in some term up to U.
Settled(L, x, c, U) ==
    \/ c = 0
    \/ \E T, j \in Nat : /\ T <= U /\ c <= j /\ Own(L, T, j) /\ Chosen(L, T, j)
                         /\ Agrees(x, L[T], c)

\* A log of x's last term and length is up to date with one that has the entry i
\* of the leader of T.
UpTo(x, T, i) == LastTerm(x) > T \/ (LastTerm(x) = T /\ Len(x) >= i)

\* The logs of leaders consist of each other's entries.
LogsInv(L) ==
    /\ L \in [Nat -> Seq(Entry)]
    /\ \A T \in Nat :
        /\ Matches(L[T], L)
        /\ \A i \in 1..Len(L[T]) : L[T][i].term <= T
        /\ Len(L[T]) # 0 <=> Elected(T)

\* So does the log of every node; a leader keeps track of what was acknowledged.
NodeInv(L, s) ==
    /\ Typed(node[s]) /\ ~node[s].panic /\ node[s].msgs = {}
    /\ Matches(node[s].log, L)
    /\ \A i \in 1..Len(node[s].log) : node[s].log[i].term <= node[s].Term
    /\ node[s].state = Leader =>
            node[s].log = L[node[s].Term] /\ Tracks(node[s], Acks(s))
    /\ node[s].state = Candidate => <<node[s].Term, s>> \notin leaders
    /\ node[s].state = Follower /\ node[s].lead # None =>
            node[s].lead # s /\ <<node[s].Term, node[s].lead>> \in leaders
    /\ Settled(L, node[s].log, node[s].committed, node[s].Term)

\* What messages say was so when they were sent, and still matters.
MsgInv(L, m) ==
    /\ m \in Message /\ m.from # m.to
    /\ m.type \in {"MsgVote", "MsgPreVote", "MsgAppResp", "MsgApp", "MsgHeartbeat"} => m.term # 0
    /\ m.type = "MsgVote" =>
            /\ node[m.from].Term >= m.term
            /\ node[m.from].Term = m.term /\ node[m.from].state = Candidate =>
                    /\ m.index = Len(node[m.from].log)
                    /\ m.logTerm = LastTerm(node[m.from].log)
    /\ Grant(m) => node[m.to].Term >= m.term
    /\ m.type \in {"MsgApp", "MsgHeartbeat"} =>
            <<m.term, m.from>> \in leaders /\ Settled(L, L[m.term], m.commit, m.term)
    /\ m.type = "MsgApp" => Carries(m, L[m.term])
    /\ m.type = "MsgHeartbeat" => m.commit = 0 \/ Got(m.to, m.term, m.commit)
    /\ m.type = "MsgTransferLeader" => <<m.term, m.to>> \in leaders

\* Who acknowledged entries has them while in the term, and later those that were
\* or may be chosen.
AckInv(L, v, T, i) ==
    Acked(L, v, T, i) =>
        /\ node[v].Term >= T /\ i <= Len(L[T])
        /\ node[v].Term = T => Agrees(node[v].log, L[T], i)
        /\ Own(L, T, i) /\ Choosable(L, T, i) => termAt(node[v].log, i) = T

\* The leaders of later terms have them.
HeldInv(L, T, U, i) ==
    T < U /\ Elected(U) /\ Own(L, T, i) /\ Choosable(L, T, i) => termAt(L[U], i) = T

\* A candidate was granted a vote because it has them.
VoteInv(L, m, T, i) ==
    /\ Grant(m) /\ node[m.to].state = Candidate /\ node[m.to].Term = m.term
    /\ T < m.term /\ Acked(L, m.from, T, i) /\ Own(L, T, i) /\ Choosable(L, T, i)
    => UpTo(node[m.to].log, T, i)

\* What was decided is the longest log committed.
DecidedInv(L) ==
    /\ decided \in Seq(Entry)
    /\ \A s \in Server : node[s].committed <= Len(decided)
    /\ \E U \in Nat : Settled(L, decided, Len(decided), U)

Safe(L) ==
    /\ LogsInv(L)
    /\ \A s \in Server : NodeInv(L, s)
    /\ \A m \in net : MsgInv(L, m)
    /\ \A v \in Server : \A T, i \in Nat : AckInv(L, v, T, i)
    /\ \A T, U, i \in Nat : HeldInv(L, T, U, i)
    /\ \A m \in net : \A T, i \in Nat : VoteInv(L, m, T, i)
    /\ DecidedInv(L)

-----------------------------------------------------------------------------
\* Elections

\* What of the election invariant the log depends on.
Elections ==
    /\ node = [t \in Server |-> node[t]]
    /\ \A t \in Server : /\ node[t].id = t /\ Raft(node[t])
                         /\ node[t].state \in {Candidate, Leader} => node[t].Vote = t
                         /\ node[t].state = Leader => <<node[t].Term, t>> \in leaders
    /\ \A T, v : <<T, v>> \in leaders =>
            /\ T \in Nat /\ v \in Server /\ node[v].Term >= T
            /\ Wins(v, {v} \cup GrantersIn(net, v, T))
    /\ \A T, v, w : <<T, v>> \in leaders /\ <<T, w>> \in leaders => v = w
    /\ \A m \in net : Grant(m) => m.from \in Server /\ node[m.from].Term >= m.term

\* They follow from the election invariant,
LEMMA ElectionFacts == ElectionInv => Elections
<1> SUFFICES ASSUME ElectionInv PROVE Elections
  OBVIOUS
<1>1. /\ node = [t \in Server |-> node[t]]
      /\ \A t \in Server : /\ node[t].id = t /\ Raft(node[t])
                           /\ node[t].state \in {Candidate, Leader} => node[t].Vote = t
                           /\ node[t].state = Leader => <<node[t].Term, t>> \in leaders
  BY DEF ElectionInv, NodesInv, Rested
<1>2. ASSUME NEW T, NEW v, <<T, v>> \in leaders
      PROVE  /\ T \in Nat /\ v \in Server /\ node[v].Term >= T
             /\ Wins(v, {v} \cup GrantersIn(net, v, T))
  <2>1. Earned(<<T, v>>)
    BY <1>2 DEF ElectionInv, LeadersInv
  <2>2. QED BY <2>1 DEF Earned
<1>3. ASSUME NEW T, NEW v, NEW w, <<T, v>> \in leaders, <<T, w>> \in leaders PROVE v = w
  <2>1. <<T, v>> = <<T, w>>
    BY <1>3, OneLeader
  <2>2. QED BY <2>1
<1>4. \A m \in net : Grant(m) => m.from \in Server /\ node[m.from].Term >= m.term
  BY DEF ElectionInv, NetInv, Backed, Sound
<1>5. QED BY <1>1, <1>2, <1>3, <1>4 DEF Elections

\* also after a step.
LEMMA ElectionFactsNext == ElectionInv' => Elections'
BY ElectionFacts, PTL

-----------------------------------------------------------------------------
\* A step

\* p is q but for the outbox.
Same(p, q) ==
    /\ p.id = q.id /\ p.Term = q.Term /\ p.state = q.state /\ p.lead = q.lead
    /\ p.log = q.log /\ p.committed = q.committed /\ p.prs = q.prs /\ p.panic = q.panic

\* s takes what the leader that sent m has.
Takes(L, s, q, m) ==
    /\ m \in net /\ m.type \in {"MsgApp", "MsgHeartbeat"}
    /\ m.to = s /\ m.term >= node[s].Term
    /\ Backs(m, node[s], L[m.term]) /\ Follows(node[s], q, m, L[m.term])

\* Node s becomes q, as every action of the cluster has it, in one of the ways that
\* the handlers of a node know.
Runs(L, s, q) ==
    /\ node' = [node EXCEPT ![s] = [q EXCEPT !.msgs = {}]]
    /\ net' = net \cup {m \in q.msgs : m.type # "MsgProp"}
    /\ leaders' = IF q.state = Leader THEN leaders \cup {<<q.Term, s>>} ELSE leaders
    /\ decided' = IF q.committed > Len(decided) THEN CommittedLog(q) ELSE decided
    /\ \/ Quiet(node[s], q, Acks(s), net)
       \/ Appends(node[s], q, Acks(s))
       \/ \E m \in net : Takes(L, s, q, m)

\* The logs of the leaders after the step.
Logs(L, q) == IF q.state = Leader THEN [L EXCEPT ![q.Term] = q.log] ELSE L

\* What is acknowledged to s in its new term.
Known(s, q) == IF q.Term = node[s].Term THEN Acks(s) ELSE {}

\* s leads: it did, or it has won an election of which nothing was known.
Heads(s, q) ==
    /\ q.state = Leader /\ Leads(node[s], q, Known(s, q))
    /\ \/ node[s].state = Leader /\ q.Term = node[s].Term
       \/ /\ ~Elected(q.Term)
          /\ q.Term > node[s].Term \/ (node[s].state = Candidate /\ q.Term = node[s].Term)

\* What a step comes to.
Digest(L, K, s, q) ==
    /\ s \in Server /\ q.Term \in Nat /\ node[s].Term \in Nat /\ q.Term >= node[s].Term
    /\ Typed(q) /\ q.id = s /\ ~q.panic
    /\ \A t \in Server : t # s => node'[t] = node[t]
    /\ Same(node'[s], q) /\ Typed(node'[s]) /\ node'[s].msgs = {}
    /\ net \subseteq net' /\ leaders \subseteq leaders'
    /\ \A m \in net' : m \in net \/ (m \in q.msgs /\ m.type # "MsgProp")
    /\ \A T, v : <<T, v>> \in leaders' =>
            <<T, v>> \in leaders \/ (T = q.Term /\ v = s /\ q.state = Leader)
    /\ q.state = Leader => <<q.Term, s>> \in leaders' /\ K[q.Term] = q.log
    /\ L \in [Nat -> Seq(Entry)] /\ K \in [Nat -> Seq(Entry)]
    /\ \A T \in Nat : /\ Agrees(L[T], K[T], Len(L[T]))
                      /\ K[T] = L[T] \/ (T = q.Term /\ q.state = Leader)
    /\ \/ Idle(node[s], q, net)
       \/ Heads(s, q)
       \/ \E m \in net : Takes(L, s, q, m)

\* What a step with this digest needs to know of the state it starts from.
Before(L, s, q) ==
    /\ Elections /\ Elections' /\ Safe(L) /\ s \in Server /\ q.Term \in Nat
    /\ q.Term >= node[s].Term

\* A leader goes on with the log it had, or the term has had no leader before.
LEMMA RunsHeads ==
    ASSUME NEW L, NEW s, NEW q, Before(L, s, q), Runs(L, s, q), q.state = Leader
    PROVE  Heads(s, q)
<1>1. q.Term \in Nat /\ node[s].Term \in Nat /\ s \in Server /\ NodeInv(L, s)
  BY DEF Before, Safe, NodeInv, Typed, Raft
<1>2. /\ Quiet(node[s], q, Acks(s), net) \/ Appends(node[s], q, Acks(s))
      /\ ~Idle(node[s], q, net)
  <2>1. \A m : ~Takes(L, s, q, m)
    BY DEF Takes, Follows, Leader, Follower
  <2>2. ~Idle(node[s], q, net)
    BY DEF Idle
  <2>3. QED BY <2>1, <2>2 DEF Runs
<1>3. CASE Rises(node[s], q)
  <2>1. Leads(node[s], q, Known(s, q))
    <3>1. {} \subseteq Known(s, q) /\ Leads(node[s], q, {})
      BY <1>3 DEF Rises
    <3> DEFINE A == {} B == Known(s, q)
    <3>2. A \subseteq B /\ Leads(node[s], q, A)
      BY <3>1
    <3> HIDE DEF A, B
    <3>3. Leads(node[s], q, B)
      BY <3>2, LeadsMore
    <3>4. QED BY <3>3 DEF B
  <2>2. q.Term > node[s].Term \/ (node[s].state = Candidate /\ q.Term = node[s].Term)
    BY <1>3 DEF Rises
  <2>3. ASSUME NEW v \in Server, <<q.Term, v>> \in leaders PROVE FALSE
    <3>1. <<q.Term, v>> \in leaders' /\ <<q.Term, s>> \in leaders'
      BY <2>3 DEF Runs
    <3>2. v = s
      BY <3>1 DEF Before, Elections
    <3>3. node[s].Term >= q.Term
      BY <2>3, <3>2 DEF Before, Elections
    <3>4. node[s].state = Candidate /\ q.Term = node[s].Term
      BY <1>1, <2>2, <3>3
    <3>5. QED BY <1>1, <2>3, <3>2, <3>4 DEF NodeInv
  <2>4. QED BY <2>1, <2>2, <2>3 DEF Heads, Elected
<1>4. CASE node[s].state = Leader /\ q.Term = node[s].Term /\ Leads(node[s], q, Acks(s))
  BY <1>4 DEF Heads, Known
<1>5. QED BY <1>2, <1>3, <1>4 DEF Quiet, Appends

\* The new log of a leader extends what its term had.
LEMMA HeadsExtends ==
    ASSUME NEW L, NEW s, NEW q, Before(L, s, q), Heads(s, q)
    PROVE  /\ Agrees(L[q.Term], q.log, Len(L[q.Term]))
           /\ Agrees(node[s].log, q.log, Len(node[s].log))
<1>1. LogsInv(L) /\ NodeInv(L, s) /\ q.Term \in Nat
  BY DEF Before, Safe
<1>2. /\ L[q.Term] \in Seq(Entry) /\ Len(L[q.Term]) \in Nat /\ node[s].log \in Seq(Entry)
      /\ Len(node[s].log) \in Nat
  BY <1>1, LenProperties DEF LogsInv, NodeInv, Typed
<1>3. Agrees(node[s].log, q.log, Len(node[s].log))
  <2>1. CASE q.log = node[s].log
    BY <1>2, <2>1 DEF Agrees
  <2>2. CASE q.log # node[s].log
    <3>1. PICK e \in Entry : q.log = Append(node[s].log, e)
      BY <2>2 DEF Heads, Leads
    <3>2. QED BY <1>2, <3>1, AppendFacts
  <2>3. QED BY <2>1, <2>2
<1>4. CASE Elected(q.Term)
  <2>1. node[s].state = Leader /\ q.Term = node[s].Term
    BY <1>4 DEF Heads
  <2>2. L[q.Term] = node[s].log
    BY <1>1, <2>1 DEF NodeInv
  <2>3. QED BY <1>3, <2>2
<1>5. CASE ~Elected(q.Term)
  <2>1. Len(L[q.Term]) = 0
    BY <1>1, <1>2, <1>5 DEF LogsInv
  <2>2. q.log \in Seq(Entry) /\ Len(q.log) \in Nat
    BY LenProperties DEF Heads, Leads, Leading, Typed
  <2>3. QED BY <1>3, <2>1, <2>2 DEF Agrees
<1>6. QED BY <1>4, <1>5

\* Every step has its digest.
LEMMA RunsDigest ==
    ASSUME NEW L, NEW s, NEW q, Before(L, s, q), Runs(L, s, q)
    PROVE  Digest(L, Logs(L, q), s, q)
<1> DEFINE K == Logs(L, q)
           p == [q EXCEPT !.msgs = {}]
<1>1. /\ LogsInv(L) /\ NodeInv(L, s) /\ s \in Server /\ q.Term \in Nat
      /\ L \in [Nat -> Seq(Entry)] /\ node[s].Term \in Nat /\ node[s].id = s
  BY DEF Before, Safe, LogsInv, NodeInv, Typed, Raft, Elections
<1>2. \/ Idle(node[s], q, net)
      \/ Heads(s, q)
      \/ \E m \in net : Takes(L, s, q, m)
  <2>1. CASE q.state = Leader
    BY <2>1, RunsHeads
  <2>2. CASE q.state # Leader
    <3>1. ~Rises(node[s], q) /\ ~Leads(node[s], q, Acks(s))
      BY <2>2 DEF Rises, Leads, Leading
    <3>2. QED BY <3>1 DEF Runs, Quiet, Appends
  <2>3. QED BY <2>1, <2>2
<1>3. Typed(q) /\ q.id = s /\ ~q.panic
  <2>1. CASE Idle(node[s], q, net)
    BY <1>1, <2>1 DEF Idle
  <2>2. CASE Heads(s, q)
    BY <1>1, <2>2 DEF Heads, Leads, Leading
  <2>3. CASE \E m \in net : Takes(L, s, q, m)
    BY <1>1, <2>3 DEF Takes, Follows
  <2>4. QED BY <1>2, <2>1, <2>2, <2>3
<1>4. /\ Shaped(p, RaftFields) /\ p.id = q.id /\ p.Term = q.Term /\ p.Vote = q.Vote
      /\ p.state = q.state /\ p.lead = q.lead /\ p.leadTransferee = q.leadTransferee
      /\ p.log = q.log /\ p.elapsed = q.elapsed /\ p.yes = q.yes /\ p.no = q.no
      /\ p.prs = q.prs /\ p.msgs = {} /\ p.panic = q.panic /\ p.committed = q.committed
  BY <1>3 DEF Typed, Raft, Shaped, RaftFields
<1>5. node'[s] = p /\ \A t \in Server : t # s => node'[t] = node[t]
  BY <1>1 DEF Runs, Before, Elections
<1> HIDE DEF p
<1>6. Typed(node'[s]) /\ Same(node'[s], q) /\ node'[s].msgs = {}
  BY <1>3, <1>4, <1>5 DEF Typed, Raft, Same
<1>7. /\ net \subseteq net' /\ leaders \subseteq leaders'
      /\ \A m \in net' : m \in net \/ (m \in q.msgs /\ m.type # "MsgProp")
  BY DEF Runs
<1>8. \A T, v : <<T, v>> \in leaders' =>
            <<T, v>> \in leaders \/ (T = q.Term /\ v = s /\ q.state = Leader)
  BY DEF Runs
<1>9. q.state = Leader => <<q.Term, s>> \in leaders' /\ K[q.Term] = q.log
  BY <1>1 DEF Runs, Logs
<1>10. K \in [Nat -> Seq(Entry)]
  <2>1. q.log \in Seq(Entry)
    BY <1>3 DEF Typed
  <2>2. QED BY <1>1, <2>1 DEF Logs
<1>11. ASSUME NEW T \in Nat
       PROVE  /\ Agrees(L[T], K[T], Len(L[T]))
              /\ K[T] = L[T] \/ (T = q.Term /\ q.state = Leader)
  <2>1. CASE T = q.Term /\ q.state = Leader
    <3>1. Heads(s, q)
      BY <2>1, RunsHeads
    <3>2. Agrees(L[T], q.log, Len(L[T]))
      BY <2>1, <3>1, HeadsExtends
    <3>3. QED BY <1>9, <2>1, <3>2
  <2>2. CASE ~(T = q.Term /\ q.state = Leader)
    <3>1. K[T] = L[T]
      BY <1>1, <2>2 DEF Logs
    <3>2. Len(L[T]) \in Nat
      BY <1>1, LenProperties
    <3>3. QED BY <3>1, <3>2 DEF Agrees
  <2>3. QED BY <2>1, <2>2
<1> HIDE DEF K
<1>12. q.Term >= node[s].Term
  BY DEF Before
<1>13. Digest(L, K, s, q)
  BY <1>1, <1>2, <1>3, <1>5, <1>6, <1>7, <1>8, <1>9, <1>10, <1>11, <1>12 DEF Digest
<1>14. QED BY <1>13 DEF K

-----------------------------------------------------------------------------
\* What a step keeps of what was acknowledged, and what it adds to it

\* The network forgets nothing.
LEMMA GotOn ==
    ASSUME NEW L, NEW K, NEW s, NEW q, Digest(L, K, s, q), NEW v, NEW T, NEW i, Got(v, T, i)
    PROVE  Got(v, T, i)'
BY DEF Digest, Got

\* The entries of leaders stay where they are.
LEMMA OwnOn ==
    ASSUME NEW L, NEW K, NEW s, NEW q, Digest(L, K, s, q), NEW T \in Nat
    PROVE  /\ Len(L[T]) \in Nat /\ Len(K[T]) \in Nat /\ Len(L[T]) <= Len(K[T])
           /\ \A i \in 1..Len(L[T]) : K[T][i] = L[T][i]
           /\ \A i : Own(L, T, i) => Own(K, T, i)
           /\ \A i \in 1..Len(L[T]) : Own(K, T, i) => Own(L, T, i)
<1>1. L[T] \in Seq(Entry) /\ K[T] \in Seq(Entry) /\ Agrees(L[T], K[T], Len(L[T]))
  BY DEF Digest
<1>2. Len(L[T]) \in Nat /\ Len(K[T]) \in Nat
  BY <1>1, LenProperties
<1>3. Len(L[T]) <= Len(K[T]) /\ \A i \in 1..Len(L[T]) : K[T][i] = L[T][i]
  BY <1>1 DEF Agrees
<1>4. QED BY <1>2, <1>3 DEF Own

\* What was acknowledged stays so, for the logs of leaders only grow,
LEMMA AckedOn ==
    ASSUME NEW L, NEW K, NEW s, NEW q, Digest(L, K, s, q), NEW v, NEW T \in Nat, NEW i \in Nat,
           Acked(L, v, T, i)
    PROVE  Acked(K, v, T, i)'
<1>1. Got(v, T, i) => Got(v, T, i)'
  BY GotOn
<1>2. Len(L[T]) \in Nat /\ Len(K[T]) \in Nat /\ Len(L[T]) <= Len(K[T])
  BY OwnOn
<1>3. leaders \subseteq leaders'
  BY DEF Digest
<1>4. QED BY <1>1, <1>2, <1>3 DEF Acked

\* and so does what was chosen
LEMMA ChosenOn ==
    ASSUME NEW L, NEW K, NEW s, NEW q, Digest(L, K, s, q), NEW T \in Nat, NEW i \in Nat,
           Chosen(L, T, i)
    PROVE  Chosen(K, T, i)'
<1>1. PICK l \in Server, Q \in SUBSET Server : Wins(l, Q) /\ \A v \in Q : Acked(L, v, T, i)
  BY DEF Chosen
<1>2. \A v \in Q : Acked(K, v, T, i)'
  BY <1>1, AckedOn
<1>3. QED BY <1>1, <1>2 DEF Chosen

\* Agreement with the log of a leader stays.
LEMMA AgreesOn ==
    ASSUME NEW L, NEW K, NEW s, NEW q, Digest(L, K, s, q), NEW T \in Nat, NEW x, NEW c \in Nat,
           Agrees(x, L[T], c)
    PROVE  Agrees(x, K[T], c)
<1>1. /\ Len(L[T]) \in Nat /\ Len(K[T]) \in Nat /\ Len(L[T]) <= Len(K[T])
      /\ \A i \in 1..Len(L[T]) : K[T][i] = L[T][i]
  BY OwnOn
<1>2. QED BY <1>1 DEF Agrees

\* and what was committed.
LEMMA SettledOn ==
    ASSUME NEW L, NEW K, NEW s, NEW q, Digest(L, K, s, q), NEW x, NEW c \in Nat,
           NEW U \in Nat, NEW W \in Nat, U <= W, Settled(L, x, c, U)
    PROVE  Settled(K, x, c, W)'
<1>1. CASE c = 0
  BY <1>1 DEF Settled
<1>2. CASE c # 0
  <2>1. PICK T \in Nat, j \in Nat : /\ T <= U /\ c <= j /\ Own(L, T, j) /\ Chosen(L, T, j)
                                    /\ Agrees(x, L[T], c)
    BY <1>2 DEF Settled
  <2>2. T <= W
    BY <2>1
  <2>3. Own(K, T, j)
    BY <2>1, OwnOn
  <2>4. Chosen(K, T, j)'
    BY <2>1, ChosenOn
  <2>5. Agrees(x, K[T], c)
    BY <2>1, AgreesOn
  <2>6. QED BY <2>1, <2>2, <2>3, <2>4, <2>5 DEF Settled
<1>3. QED BY <1>1, <1>2

\* Only a follower acknowledges, and only what it has.
LEMMA NewAck ==
    ASSUME NEW L, NEW K, NEW s, NEW q, Digest(L, K, s, q), NEW n \in q.msgs, Ack(n)
    PROVE  /\ n.from = s /\ n.term = q.Term /\ q.state # Leader
           /\ n.index \in Nat /\ Agrees(q.log, L[q.Term], n.index)
<1>1. ~Heads(s, q)
  BY DEF Heads, Leads, Leading, Says
<1>2. ~Idle(node[s], q, net)
  BY DEF Idle, Says, Votes, Ack, Grant
<1>3. PICK m \in net : Takes(L, s, q, m)
  BY <1>1, <1>2 DEF Digest
<1>4. q.state = Follower /\ q.Term = m.term /\ q.id = s
  BY <1>3 DEF Takes, Follows, Digest
<1>5. n \in Message /\ n.from = s /\ n.term = q.Term /\ Agrees(q.log, L[q.Term], n.index)
  BY <1>3, <1>4 DEF Takes, Follows
<1>6. n.index \in Nat
  BY <1>5 DEF Message
<1>7. QED BY <1>4, <1>5, <1>6 DEF Follower, Leader

\* What is acknowledged after a step was so before, or s has it in its new term.
LEMMA AckedFrom ==
    ASSUME NEW L, NEW K, NEW s, NEW q, Before(L, s, q), Digest(L, K, s, q),
           NEW v, NEW T \in Nat, NEW i \in Nat, Acked(K, v, T, i)'
    PROVE  Acked(L, v, T, i) \/ (v = s /\ T = q.Term /\ Agrees(q.log, K[T], i))
<1>1. q.log \in Seq(Entry) /\ Len(q.log) \in Nat /\ Len(K[T]) \in Nat
  <2>1. q.log \in Seq(Entry) /\ K[T] \in Seq(Entry)
    BY DEF Digest, Typed
  <2>2. QED BY <2>1, LenProperties
<1>2. ASSUME Got(v, T, i)', ~Got(v, T, i)
      PROVE  v = s /\ T = q.Term /\ Agrees(q.log, K[T], i)
  <2>1. PICK n \in net' : Ack(n) /\ n.from = v /\ n.term = T /\ n.index >= i
    BY <1>2 DEF Got
  <2>2. n \in q.msgs
    BY <1>2, <2>1 DEF Digest, Got
  <2>3. /\ n.from = s /\ n.term = q.Term /\ q.state # Leader /\ n.index \in Nat
        /\ Agrees(q.log, L[q.Term], n.index)
    BY <2>1, <2>2, NewAck
  <2>4. K[T] = L[T]
    BY <2>3 DEF Digest
  <2>5. Agrees(q.log, K[T], i)
    <3>1. Agrees(q.log, K[T], n.index) /\ i <= n.index /\ i \in Int /\ n.index \in Int
      BY <2>1, <2>3, <2>4
    <3>2. QED BY <1>1, <3>1, AgreesLess
  <2>6. QED BY <2>1, <2>3, <2>5
<1>3. ASSUME <<T, v>> \in leaders', i <= Len(K[T]), ~(<<T, v>> \in leaders /\ i <= Len(L[T]))
      PROVE  v = s /\ T = q.Term /\ Agrees(q.log, K[T], i)
  <2>1. T = q.Term /\ q.state = Leader
    BY <1>3 DEF Digest
  <2>2. <<T, s>> \in leaders' /\ K[T] = q.log
    BY <2>1 DEF Digest
  <2>3. v = s
    BY <1>3, <2>2 DEF Before, Elections
  <2>4. Agrees(q.log, K[T], i)
    BY <1>1, <1>3, <2>2 DEF Agrees
  <2>5. QED BY <2>1, <2>3, <2>4
<1>4. QED BY <1>2, <1>3 DEF Acked

\* Nothing becomes possible to be chosen.
LEMMA ChoosableFrom ==
    ASSUME NEW L, NEW K, NEW s, NEW q, Before(L, s, q), Digest(L, K, s, q),
           NEW T \in Nat, NEW i \in Nat, Choosable(K, T, i)'
    PROVE  Choosable(L, T, i)
<1>1. PICK l \in Server, Q \in SUBSET Server :
            Wins(l, Q) /\ \A v \in Q : Acked(K, v, T, i)' \/ node'[v].Term <= T
  BY DEF Choosable
<1>2. ASSUME NEW v \in Q PROVE Acked(L, v, T, i) \/ node[v].Term <= T
  <2>1. q.Term \in Nat /\ node[s].Term \in Nat /\ q.Term >= node[s].Term
    BY DEF Digest
  <2>2. CASE Acked(K, v, T, i)'
    <3>1. Acked(L, v, T, i) \/ (v = s /\ T = q.Term)
      BY <2>2, AckedFrom
    <3>2. QED BY <2>1, <3>1
  <2>3. CASE node'[v].Term <= T
    <3>1. CASE v = s
      <4>1. q.Term <= T
        BY <2>3, <3>1 DEF Digest, Same
      <4>2. QED BY <2>1, <3>1, <4>1
    <3>2. CASE v # s
      BY <2>3, <3>2 DEF Digest
    <3>3. QED BY <3>1, <3>2
  <2>4. QED BY <1>1, <2>2, <2>3
<1>3. QED BY <1>1, <1>2 DEF Choosable

\* What is chosen is in the logs of this and all later leaders.
LEMMA ChosenIsHeld ==
    ASSUME NEW L, Safe(L), NEW T \in Nat, NEW U \in Nat, T <= U, Elected(U), NEW j \in Nat,
           Own(L, T, j), Chosen(L, T, j)
    PROVE  Agrees(L[U], L[T], j)
<1>1. /\ L \in [Nat -> Seq(Entry)] /\ Matches(L[T], L) /\ Matches(L[U], L)
      /\ L[T] \in Seq(Entry) /\ L[U] \in Seq(Entry)
  BY DEF Safe, LogsInv
<1>2. Len(L[T]) \in Nat /\ Len(L[U]) \in Nat
  BY <1>1, LenProperties
<1>3. CASE T = U
  BY <1>2, <1>3 DEF Agrees, Own
<1>4. CASE T # U
  <2>1. T < U /\ Choosable(L, T, j)
    BY <1>4 DEF Chosen, Choosable
  <2>2. termAt(L[U], j) = T
    BY <2>1 DEF Safe, HeldInv
  <2>3. j \in 1..Len(L[T]) /\ L[T][j].term = T /\ L[T][j].term # 0 /\ j \in Int
    <3>1. j \in 1..Len(L[T]) /\ L[T][j].term = T
      BY DEF Own
    <3>2. L[T][j].term # 0
      BY <1>1, <3>1 DEF Matches
    <3>3. QED BY <3>1, <3>2
  <2>4. j \in 1..Len(L[U]) /\ L[U][j].term = L[T][j].term
    BY <1>1, <2>2, <2>3, TermAtFacts
  <2>5. Akin(L[U], L[T])
    BY <1>1, MatchesAkin
  <2>6. QED BY <1>2, <2>3, <2>4, <2>5 DEF Akin
<1>5. QED BY <1>3, <1>4

\* So logs whose parts were committed agree on the shorter one.
LEMMA SettledAgree ==
    ASSUME NEW L, Safe(L), NEW x, NEW y, NEW c \in Nat, NEW d \in Nat, c <= d,
           NEW U, NEW W, Settled(L, x, c, U), Settled(L, y, d, W),
           Len(x) \in Nat, Len(y) \in Nat
    PROVE  Agrees(x, y, c)
<1>1. CASE c = 0
  BY <1>1 DEF Agrees
<1>2. CASE c # 0
  <2>1. PICK T \in Nat, j \in Nat : /\ c <= j /\ Own(L, T, j) /\ Chosen(L, T, j)
                                    /\ Agrees(x, L[T], c)
    BY <1>2 DEF Settled
  <2>2. PICK V \in Nat, k \in Nat : /\ d <= k /\ Own(L, V, k) /\ Chosen(L, V, k)
                                    /\ Agrees(y, L[V], d)
    BY <1>2 DEF Settled
  <2>3. /\ L[T] \in Seq(Entry) /\ L[V] \in Seq(Entry)
        /\ Len(L[T]) # 0 => Elected(T)
        /\ Len(L[V]) # 0 => Elected(V)
    BY DEF Safe, LogsInv
  <2>4. Len(L[T]) \in Nat /\ Len(L[V]) \in Nat
    BY <2>3, LenProperties
  <2>5. Elected(T) /\ Elected(V)
    BY <2>1, <2>2, <2>3, <2>4 DEF Own
  <2>6. Agrees(L[V], L[T], c)
    <3>1. CASE T <= V
      <4>1. Agrees(L[V], L[T], j)
        BY <2>1, <2>5, <3>1, ChosenIsHeld
      <4>2. QED BY <2>1, <2>4, <4>1, AgreesLess
    <3>2. CASE V <= T
      <4>1. Agrees(L[T], L[V], k)
        BY <2>2, <2>5, <3>2, ChosenIsHeld
      <4>2. Agrees(L[T], L[V], c)
        BY <2>2, <2>4, <4>1, AgreesLess
      <4>3. QED BY <4>2 DEF Agrees
    <3>3. QED BY <3>1, <3>2
  <2>7. Agrees(y, L[V], c)
    BY <2>2, <2>4, AgreesLess
  <2> DEFINE a == L[T] b == L[V]
  <2>8. Agrees(x, a, c) /\ Agrees(y, b, c) /\ Agrees(b, a, c)
    BY <2>1, <2>6, <2>7
  <2> HIDE DEF a, b
  <2>9. QED BY <2>8 DEF Agrees
<1>3. QED BY <1>1, <1>2

-----------------------------------------------------------------------------
\* The logs after a step

\* A log made of parts of the leaders' logs is still one.
LEMMA MatchesOn ==
    ASSUME NEW L, NEW K, NEW s, NEW q, Digest(L, K, s, q), NEW x \in Seq(Entry), Matches(x, L)
    PROVE  Matches(x, K)
<1> SUFFICES ASSUME NEW i \in 1..Len(x)
             PROVE  x[i].term # 0 /\ Agrees(x, K[x[i].term], i)
  BY DEF Matches
<1>1. x[i].term \in Nat /\ i \in Nat
  <2>1. x[i] \in Entry /\ i \in Nat
    BY ElementOfSeq
  <2>2. QED BY <2>1 DEF Entry
<1>2. x[i].term # 0 /\ Agrees(x, L[x[i].term], i)
  BY DEF Matches
<1>3. Agrees(x, K[x[i].term], i)
  BY <1>1, <1>2, AgreesOn
<1>4. QED BY <1>2, <1>3

\* What agrees with a log whose entries stand in the logs of their leaders stands
\* there, too.
LEMMA CopyMatches ==
    ASSUME NEW L, NEW x, NEW y, NEW n \in Nat, Agrees(x, y, n), Matches(y, L),
           Len(x) \in Nat, Len(y) \in Nat, NEW i \in 1..n
    PROVE  x[i] = y[i] /\ x[i].term # 0 /\ Agrees(x, L[x[i].term], i)
<1>1. x[i] = y[i] /\ i \in 1..Len(y) /\ i <= Len(x) /\ \A j \in 1..i : x[j] = y[j]
  BY DEF Agrees
<1>2. y[i].term # 0 /\ Agrees(y, L[y[i].term], i)
  BY <1>1 DEF Matches
<1>3. QED BY <1>1, <1>2 DEF Agrees

\* The log of s after its step is made of parts of the leaders' logs.
LEMMA NewLog ==
    ASSUME NEW L, NEW K, NEW s, NEW q, Before(L, s, q), Digest(L, K, s, q)
    PROVE  /\ q.log \in Seq(Entry) /\ Len(q.log) \in Nat
           /\ Matches(q.log, K)
           /\ \A i \in 1..Len(q.log) : q.log[i].term <= q.Term
<1> DEFINE x == node[s].log
           y == q.log
<1>1. /\ x \in Seq(Entry) /\ y \in Seq(Entry) /\ q.Term \in Nat /\ node[s].Term \in Nat
      /\ q.Term >= node[s].Term /\ LogsInv(L) /\ L \in [Nat -> Seq(Entry)]
  BY DEF Before, Safe, NodeInv, Digest, Typed, LogsInv
<1>2. Len(x) \in Nat /\ Len(y) \in Nat
  BY <1>1, LenProperties
<1>3. Matches(x, L) /\ \A i \in 1..Len(x) : x[i].term <= node[s].Term
  BY DEF Before, Safe, NodeInv, Digest
<1>5. Matches(x, K)
  BY <1>1, <1>3, MatchesOn
<1> HIDE DEF x, y
<1>4. ASSUME NEW i \in 1..Len(x) PROVE x[i].term \in Nat /\ x[i].term <= q.Term
  <2>1. x[i] \in Entry
    BY <1>1, ElementOfSeq
  <2>2. x[i].term \in Nat
    BY <2>1 DEF Entry
  <2>3. x[i].term <= node[s].Term
    BY <1>3
  <2>4. q.Term \in Nat /\ node[s].Term \in Nat /\ q.Term >= node[s].Term
    BY <1>1
  <2> DEFINE t == x[i].term U == node[s].Term V == q.Term
  <2>5. t \in Nat /\ U \in Nat /\ V \in Nat /\ t <= U /\ U <= V
    BY <2>2, <2>3, <2>4
  <2> HIDE DEF t, U, V
  <2>6. t <= V
    BY <2>5
  <2>7. QED BY <2>2, <2>6 DEF t, V
<1>6. CASE y = x
  BY <1>1, <1>2, <1>4, <1>5, <1>6 DEF y
<1>7. CASE Heads(s, q)
  <2>1. CASE y # x
    <3>1. PICK e \in Entry : e.term = q.Term /\ y = Append(x, e)
      BY <1>7, <2>1 DEF Heads, Leads, x, y
    <3>2. /\ Agrees(x, y, Len(x)) /\ Len(y) = Len(x) + 1 /\ y[Len(y)] = e
      BY <1>1, <1>2, <3>1, AppendFacts
    <3>3. K[q.Term] = y /\ q.Term # 0
      BY <1>7 DEF Digest, Heads, Leads, Leading, Typed, Raft, y
    <3>4. ASSUME NEW i \in 1..Len(x)
          PROVE  y[i].term <= q.Term /\ y[i].term # 0 /\ Agrees(y, K[y[i].term], i)
      <4>1. Agrees(y, x, Len(x))
        BY <3>2 DEF Agrees
      <4>2. y[i] = x[i] /\ y[i].term # 0 /\ Agrees(y, K[y[i].term], i)
        BY <1>2, <1>5, <4>1, CopyMatches
      <4>3. QED BY <1>4, <4>2
    <3>5. Agrees(y, y, Len(y)) /\ y[Len(y)].term = q.Term
      BY <1>2, <3>1, <3>2 DEF Agrees
    <3>6. ASSUME NEW i \in 1..Len(y)
          PROVE  y[i].term <= q.Term /\ y[i].term # 0 /\ Agrees(y, K[y[i].term], i)
      <4>1. CASE i \in 1..Len(x)
        BY <3>4, <4>1
      <4>2. CASE i = Len(y)
        <5>1. y[i].term = q.Term /\ Agrees(y, y, i)
          BY <3>5, <4>2
        <5>2. q.Term <= q.Term
          BY <1>1
        <5>3. QED BY <3>3, <5>1, <5>2
      <4>3. QED BY <1>2, <3>2, <4>1, <4>2
    <3>7. QED BY <1>1, <1>2, <3>6 DEF Matches, y
  <2>2. QED BY <1>6, <2>1
<1>8. ASSUME NEW m \in net, Takes(L, s, q, m), y # x
      PROVE  /\ y \in Seq(Entry) /\ Len(y) \in Nat
             /\ Matches(y, K)
             /\ \A i \in 1..Len(y) : y[i].term <= q.Term
  <2> DEFINE l == L[q.Term]
  <2>1. Agrees(y, l, Len(y))
    BY <1>8 DEF Takes, Follows, x, y
  <2>2. /\ l \in Seq(Entry) /\ Matches(l, L)
        /\ \A i \in 1..Len(l) : l[i].term <= q.Term
    BY <1>1 DEF LogsInv
  <2>3. Len(l) \in Nat
    BY <2>2, LenProperties
  <2> HIDE DEF l
  <2>4. Len(y) <= Len(l)
    BY <2>1 DEF Agrees
  <2>5. ASSUME NEW i \in 1..Len(y)
        PROVE  y[i].term <= q.Term /\ y[i].term # 0 /\ Agrees(y, L[y[i].term], i)
    <3>1. y[i] = l[i] /\ y[i].term # 0 /\ Agrees(y, L[y[i].term], i)
      BY <1>2, <2>1, <2>2, <2>3, CopyMatches
    <3>2. i \in 1..Len(l)
      BY <1>2, <2>3, <2>4
    <3>3. QED BY <2>2, <3>1, <3>2
  <2>6. Matches(y, L)
    BY <2>5 DEF Matches
  <2>7. Matches(y, K)
    BY <1>1, <2>6, MatchesOn
  <2>8. QED BY <1>1, <1>2, <2>5, <2>7
<1>9. Idle(node[s], q, net) => y = x
  BY DEF Idle, x, y
<1>10. QED BY <1>6, <1>7, <1>8, <1>9 DEF Digest, y

\* The logs of leaders keep their shape.
LEMMA LogsOn ==
    ASSUME NEW L, NEW K, NEW s, NEW q, Before(L, s, q), Digest(L, K, s, q)
    PROVE  LogsInv(K)'
<1>1. LogsInv(L) /\ q.Term \in Nat /\ K \in [Nat -> Seq(Entry)] /\ s \in Server
  BY DEF Before, Safe, Digest
<1>2. ASSUME NEW T \in Nat
      PROVE  /\ Matches(K[T], K)
             /\ \A i \in 1..Len(K[T]) : K[T][i].term <= T
             /\ Len(K[T]) # 0 <=> Elected(T)'
  <2>1. CASE T = q.Term /\ q.state = Leader
    <3>1. K[T] = q.log /\ <<T, s>> \in leaders'
      BY <2>1 DEF Digest
    <3>2. /\ Matches(q.log, K)
          /\ \A i \in 1..Len(q.log) : q.log[i].term <= q.Term
      BY NewLog
    <3>3. Elected(T)'
      BY <1>1, <3>1 DEF Elected
    <3>4. Len(q.log) # 0
      <4>1. Heads(s, q)
        BY <2>1 DEF Digest, Idle, Takes, Follows, Leader, Follower
      <4>2. CASE node[s].state = Leader /\ q.Term = node[s].Term
        <5>1. <<T, s>> \in leaders
          BY <1>1, <2>1, <4>2 DEF Before, Elections
        <5>2. Len(L[T]) # 0
          BY <1>1, <5>1 DEF LogsInv, Elected
        <5>3. Len(L[T]) \in Nat /\ Len(K[T]) \in Nat /\ Len(L[T]) <= Len(K[T])
          BY OwnOn
        <5>4. QED BY <3>1, <5>2, <5>3
      <4>3. CASE ~(node[s].state = Leader /\ q.Term = node[s].Term)
        <5>1. PICK e \in Entry : q.log = Append(node[s].log, e)
          BY <4>1, <4>3 DEF Heads, Leads
        <5>2. node[s].log \in Seq(Entry)
          BY DEF Before, Safe, NodeInv, Typed
        <5>3. Len(q.log) = Len(node[s].log) + 1 /\ Len(node[s].log) \in Nat
          BY <5>1, <5>2, AppendFacts, LenProperties
        <5>4. QED BY <5>3
      <4>4. QED BY <4>2, <4>3
    <3>5. QED BY <2>1, <3>1, <3>2, <3>3, <3>4
  <2>2. CASE ~(T = q.Term /\ q.state = Leader)
    <3>1. K[T] = L[T]
      BY <2>2 DEF Digest
    <3>2. /\ L[T] \in Seq(Entry) /\ Matches(L[T], L)
          /\ \A i \in 1..Len(L[T]) : L[T][i].term <= T
          /\ Len(L[T]) # 0 <=> Elected(T)
      BY <1>1 DEF LogsInv
    <3>3. Matches(L[T], K)
      BY <3>2, MatchesOn
    <3>4. Elected(T)' <=> Elected(T)
      BY <2>2 DEF Digest, Elected
    <3>5. QED BY <3>1, <3>2, <3>3, <3>4
  <2>3. QED BY <2>1, <2>2
<1>3. QED BY <1>1, <1>2 DEF LogsInv

-----------------------------------------------------------------------------
\* The nodes after a step

\* Settled entries are settled wherever they are copied to.
LEMMA SettledMove ==
    ASSUME NEW L \in [Nat -> Seq(Entry)], NEW x, NEW y, NEW c \in Nat, NEW d \in Nat, d <= c,
           NEW U, Settled(L, x, c, U), Agrees(y, x, d), Len(x) \in Nat, Len(y) \in Nat
    PROVE  Settled(L, y, d, U)
<1>1. CASE c = 0
  <2>1. d = 0
    BY <1>1
  <2>2. QED BY <2>1 DEF Settled
<1>2. CASE c # 0
  <2>1. PICK T \in Nat, j \in Nat : /\ T <= U /\ c <= j /\ Own(L, T, j) /\ Chosen(L, T, j)
                                    /\ Agrees(x, L[T], c)
    BY <1>2 DEF Settled
  <2>2. d <= j
    BY <2>1
  <2> DEFINE l == L[T]
  <2>3. Len(l) \in Nat /\ Agrees(x, l, c)
    BY <2>1, LenProperties
  <2> HIDE DEF l
  <2>4. Agrees(y, l, d)
    <3>1. Agrees(x, l, d)
      BY <2>3, AgreesLess
    <3>2. QED BY <3>1 DEF Agrees
  <2>5. QED BY <2>1, <2>2, <2>4 DEF Settled, l
<1>3. QED BY <1>1, <1>2

\* What is acknowledged to s stays so in its term, and to the others anyway.
LEMMA KnownOn ==
    ASSUME NEW L, NEW K, NEW s, NEW q, Digest(L, K, s, q)
    PROVE  /\ Known(s, q) \subseteq Acks(s)'
           /\ \A t \in Server : t # s => Acks(t) \subseteq Acks(t)'
<1>1. \A v, T, i : Got(v, T, i) => Got(v, T, i)'
  BY GotOn
<1>2. node'[s].Term = q.Term /\ \A t \in Server : t # s => node'[t] = node[t]
  BY DEF Digest, Same
<1>3. Known(s, q) \subseteq Acks(s)'
  BY <1>1, <1>2 DEF Known, Acks
<1>4. QED BY <1>1, <1>2, <1>3 DEF Acks

\* What s knows to be acknowledged in its new term is in the network.
LEMMA KnownGot ==
    ASSUME NEW L, NEW s, NEW q, Before(L, s, q), NEW v, NEW c \in Nat, Reaches(Known(s, q), v, c)
    PROVE  v \in Server /\ Got(v, q.Term, c)
<1>1. PICK k \in Nat : k >= c /\ <<v, k>> \in Known(s, q)
  BY DEF Reaches
<1>2. q.Term = node[s].Term /\ <<v, k>> \in Acks(s)
  BY <1>1 DEF Known
<1>3. v \in Server /\ Got(v, q.Term, k)
  BY <1>2 DEF Acks
<1>4. PICK m \in net : Ack(m) /\ m.from = v /\ m.term = q.Term /\ m.index >= k
  BY <1>3 DEF Got
<1>5. m \in Message
  BY DEF Before, Safe, MsgInv
<1>6. m.index \in Nat
  BY <1>5 DEF Message
<1>7. m.index >= c
  BY <1>1, <1>4, <1>6
<1>8. QED BY <1>3, <1>4, <1>7 DEF Got

\* All other nodes stay sound.
LEMMA OthersOn ==
    ASSUME NEW L, NEW K, NEW s, NEW q, Before(L, s, q), Digest(L, K, s, q),
           NEW t \in Server, t # s
    PROVE  NodeInv(K, t)'
<1> DEFINE r == node[t]
<1>1. NodeInv(L, t) /\ node'[t] = r /\ LogsInv(L)
  BY DEF Before, Safe, Digest
<1>2. Typed(r) /\ ~r.panic /\ r.msgs = {} /\ Matches(r.log, L) /\ r.log \in Seq(Entry)
      /\ r.committed \in Nat /\ r.Term \in Nat
  BY <1>1 DEF NodeInv, Typed, Raft
<1>3. \A i \in 1..Len(r.log) : r.log[i].term <= r.Term
  BY <1>1 DEF NodeInv
<1>4. Matches(r.log, K)
  BY <1>2, MatchesOn
<1>5. ASSUME r.state = Leader PROVE r.log = K[r.Term] /\ Tracks(r, Acks(t)')
  <2>1. r.log = L[r.Term] /\ Tracks(r, Acks(t))
    BY <1>1, <1>5 DEF NodeInv
  <2>2. <<r.Term, t>> \in leaders'
    BY <1>5 DEF Before, Elections, Digest
  <2>3. ~(r.Term = q.Term /\ q.state = Leader)
    <3>1. SUFFICES ASSUME r.Term = q.Term, q.state = Leader PROVE FALSE
      OBVIOUS
    <3>2. <<r.Term, s>> \in leaders'
      BY <3>1 DEF Digest
    <3>3. QED BY <2>2, <3>2 DEF Before, Elections
  <2>4. K[r.Term] = L[r.Term]
    BY <1>2, <2>3 DEF Digest
  <2>5. Acks(t) \subseteq Acks(t)'
    BY KnownOn
  <2>6. QED BY <2>1, <2>4, <2>5 DEF Tracks, Fits
<1>6. ASSUME r.state = Candidate PROVE <<r.Term, t>> \notin leaders'
  BY <1>1, <1>6 DEF NodeInv, Digest
<1>7. ASSUME r.state = Follower, r.lead # None PROVE r.lead # t /\ <<r.Term, r.lead>> \in leaders'
  BY <1>1, <1>7 DEF NodeInv, Digest
<1>8. Settled(K, r.log, r.committed, r.Term)'
  <2>1. Settled(L, r.log, r.committed, r.Term) /\ r.Term <= r.Term
    BY <1>1, <1>2 DEF NodeInv
  <2> DEFINE x == r.log c == r.committed U == r.Term
  <2> HIDE DEF r
  <2>2. Settled(L, x, c, U) /\ c \in Nat /\ U \in Nat /\ U <= U
    BY <1>2, <2>1
  <2>3. x' = x /\ c' = c /\ U' = U
    BY <1>1 DEF r
  <2> HIDE DEF x, c, U
  <2>4. \A a, b, d : a = x /\ b = c /\ d = U => Settled(K, a, b, d)'
    BY <2>2, SettledOn
  <2>5. QED BY <2>3, <2>4 DEF x, c, U, Settled
<1>9. QED BY <1>1, <1>2, <1>3, <1>4, <1>5, <1>6, <1>7, <1>8 DEF NodeInv

\* What s has committed is settled after the step, too.
LEMMA CommittedOn ==
    ASSUME NEW L, NEW K, NEW s, NEW q, Before(L, s, q), Digest(L, K, s, q)
    PROVE  q.committed \in Nat /\ Settled(K, q.log, q.committed, q.Term)'
<1> DEFINE r == node[s]
           x == r.log
           c == r.committed
           d == q.committed
<1>1. /\ q.Term \in Nat /\ node[s].Term \in Nat /\ s \in Server /\ node[s].Term <= q.Term
      /\ L \in [Nat -> Seq(Entry)] /\ K \in [Nat -> Seq(Entry)]
  BY DEF Before, Digest
<1>2. NodeInv(L, s)
  BY DEF Before, Safe
<1>3. x \in Seq(Entry) /\ c \in Nat /\ Settled(L, x, c, r.Term)
  BY <1>2 DEF NodeInv, Typed
<1>4. q.log \in Seq(Entry) /\ d \in Nat
  BY DEF Digest, Typed
<1>5. Len(x) \in Nat /\ Len(q.log) \in Nat
  BY <1>3, <1>4, LenProperties
<1>6. c <= Len(x)
  <2>1. c = 0 \/ \E T \in Nat : Agrees(x, L[T], c)
    BY <1>3 DEF Settled
  <2>2. QED BY <1>5, <2>1 DEF Agrees
<1>7. ASSUME d <= c, Agrees(q.log, x, d) PROVE Settled(K, q.log, d, q.Term)'
  <2>1. Settled(L, q.log, d, r.Term)
    BY <1>1, <1>3, <1>4, <1>5, <1>7, SettledMove
  <2>2. QED BY <1>1, <1>4, <2>1, SettledOn
<1>8. CASE Idle(r, q, net)
  <2>1. d <= c /\ q.log = x
    BY <1>8 DEF Idle
  <2>2. d <= Len(x)
    BY <1>3, <1>4, <1>5, <1>6, <2>1
  <2>3. Agrees(q.log, x, d)
    BY <1>5, <2>1, <2>2 DEF Agrees
  <2>4. QED BY <1>4, <1>7, <2>1, <2>3
<1>9. CASE Heads(s, q)
  <2>1. Agrees(x, q.log, Len(x))
    BY <1>9, HeadsExtends
  <2>2. CASE d = c
    <3>1. Agrees(q.log, x, d)
      BY <1>3, <1>5, <1>6, <2>1, <2>2 DEF Agrees
    <3>2. d <= c
      BY <1>3, <2>2
    <3>3. QED BY <1>4, <1>7, <3>1, <3>2
  <2>3. CASE Counted(q, Known(s, q))
    <3>1. K[q.Term] = q.log /\ <<q.Term, s>> \in leaders' /\ q.id = s
      BY <1>9 DEF Digest, Heads
    <3>2. /\ d \in 1..Len(q.log) /\ q.log[d].term = q.Term
      BY <2>3 DEF Counted
    <3>3. PICK Q \in SUBSET Server :
                Wins(s, Q) /\ \A v \in Q : v = s \/ Reaches(Known(s, q), v, d)
      BY <2>3, <3>1 DEF Counted
    <3>4. Own(K, q.Term, d)
      BY <3>1, <3>2 DEF Own
    <3>5. ASSUME NEW v \in Q PROVE Acked(K, v, q.Term, d)'
      <4>1. CASE v = s
        <5>1. d <= Len(K[q.Term])
          BY <3>1, <3>2, <1>5
        <5>2. QED BY <3>1, <4>1, <5>1 DEF Acked
      <4>2. CASE Reaches(Known(s, q), v, d)
        <5>1. Got(v, q.Term, d)
          BY <1>4, <4>2, KnownGot
        <5>2. Got(v, q.Term, d)'
          BY <5>1, GotOn
        <5>3. QED BY <5>2 DEF Acked
      <4>3. QED BY <3>3, <4>1, <4>2
    <3>6. Chosen(K, q.Term, d)'
      BY <1>1, <3>3, <3>5 DEF Chosen
    <3>7. Agrees(q.log, K[q.Term], d)
      BY <1>5, <3>1, <3>2 DEF Agrees
    <3>8. q.Term <= q.Term /\ d <= d
      <4>1. q.Term \in Nat /\ d \in Nat
        BY <1>1, <1>4
      <4> HIDE DEF d
      <4>2. QED BY <4>1
    <3>9. QED BY <1>1, <1>4, <3>4, <3>6, <3>7, <3>8 DEF Settled
  <2>4. QED BY <1>9, <2>2, <2>3 DEF Heads, Leads
<1>10. ASSUME NEW m \in net, Takes(L, s, q, m) PROVE Settled(K, q.log, d, q.Term)'
  <2> DEFINE l == L[m.term]
  <2>1. /\ Backs(m, r, l) /\ Follows(r, q, m, l) /\ MsgInv(L, m)
        /\ m.type \in {"MsgApp", "MsgHeartbeat"}
    BY <1>10 DEF Takes, Before, Safe
  <2>2. /\ m.commit \in Nat /\ m.term \in Nat /\ l \in Seq(Entry) /\ q.Term = m.term
        /\ Settled(L, l, m.commit, m.term)
    BY <1>1, <2>1 DEF MsgInv, Message, Follows
  <2>3. Len(l) \in Nat
    BY <2>2, LenProperties
  <2>4. CASE d = c
    <3>1. Agrees(x, l, c) /\ Agrees(q.log, l, d)
      BY <1>3, <2>1, <2>4 DEF Backs, Follows
    <3> HIDE DEF l
    <3>2. Agrees(q.log, x, d)
      BY <2>4, <3>1 DEF Agrees
    <3>3. d <= c
      BY <1>3, <2>4
    <3>4. QED BY <1>7, <3>2, <3>3
  <2>5. CASE d <= m.commit /\ Agrees(q.log, l, d)
    <3>1. Settled(L, q.log, d, m.term)
      BY <1>1, <1>4, <1>5, <2>2, <2>3, <2>5, SettledMove
    <3>2. m.term <= q.Term
      BY <1>1, <2>2
    <3>3. QED BY <1>1, <1>4, <2>2, <3>1, <3>2, SettledOn
  <2>6. QED BY <2>1, <2>4, <2>5 DEF Follows
<1>11. Settled(K, q.log, d, q.Term)'
  BY <1>8, <1>9, <1>10 DEF Digest
<1>12. QED BY <1>4, <1>11

\* s is sound after its step.
LEMMA NodeOn ==
    ASSUME NEW L, NEW K, NEW s, NEW q, Before(L, s, q), Digest(L, K, s, q)
    PROVE  NodeInv(K, s)'
<1> DEFINE r == node[s]
           p == node'[s]
<1>1. /\ q.Term \in Nat /\ r.Term \in Nat /\ s \in Server /\ r.Term <= q.Term
      /\ NodeInv(L, s)
  BY DEF Before, Safe, Digest
<1>2. Same(p, q) /\ Typed(p) /\ p.msgs = {} /\ ~p.panic
  BY DEF Digest, Same
<1>3. p.Term = q.Term /\ p.log = q.log /\ p.state = q.state /\ p.lead = q.lead
      /\ p.committed = q.committed /\ p.prs = q.prs /\ p.id = q.id /\ q.id = s
  BY <1>2 DEF Same, Digest
<1> HIDE DEF p
<1>4. Matches(p.log, K) /\ \A i \in 1..Len(p.log) : p.log[i].term <= p.Term
  BY <1>3, NewLog
<1>5. ASSUME p.state = Leader PROVE p.log = K[p.Term] /\ Tracks(p, Acks(s)')
  <2>1. Heads(s, q) /\ p.log = K[p.Term]
    BY <1>3, <1>5 DEF Digest, Idle, Takes, Follows, Leader, Follower
  <2>2. Tracks(q, Known(s, q))
    BY <2>1 DEF Heads, Leads, Leading
  <2>3. Known(s, q) \subseteq Acks(s)'
    BY KnownOn
  <2>4. QED BY <1>3, <2>1, <2>2, <2>3 DEF Tracks, Fits
<1>6. ASSUME p.state = Candidate PROVE <<p.Term, s>> \notin leaders'
  <2>1. Idle(r, q, net)
    BY <1>3, <1>6 DEF Digest, Heads, Takes, Follows, Candidate, Leader, Follower
  <2>2. q.Term > r.Term \/ (r.state = Candidate /\ q.Term = r.Term)
    BY <1>3, <1>6, <2>1 DEF Idle
  <2>3. <<q.Term, s>> \notin leaders
    <3>1. SUFFICES ASSUME <<q.Term, s>> \in leaders PROVE FALSE
      OBVIOUS
    <3>2. r.Term >= q.Term
      BY <3>1 DEF Before, Elections
    <3>3. r.state = Candidate /\ q.Term = r.Term
      BY <1>1, <2>2, <3>2
    <3>4. QED BY <1>1, <3>1, <3>3 DEF NodeInv
  <2>4. q.state # Leader
    BY <1>3, <1>6 DEF Candidate, Leader
  <2>5. QED BY <1>3, <2>3, <2>4 DEF Digest
<1>7. ASSUME p.state = Follower, p.lead # None
      PROVE  p.lead # s /\ <<p.Term, p.lead>> \in leaders'
  <2>1. CASE Idle(r, q, net)
    <3>1. r.state = Follower /\ r.lead = q.lead /\ q.Term = r.Term
      BY <1>3, <1>7, <2>1 DEF Idle
    <3>2. QED BY <1>1, <1>3, <1>7, <3>1 DEF NodeInv, Digest
  <2>2. ASSUME NEW m \in net, Takes(L, s, q, m) PROVE p.lead # s /\ <<p.Term, p.lead>> \in leaders'
    <3>1. q.lead = m.from /\ q.Term = m.term /\ m.to = s
      BY <2>2 DEF Takes, Follows
    <3>2. m.from # m.to /\ <<m.term, m.from>> \in leaders
      BY <2>2 DEF Takes, Before, Safe, MsgInv
    <3>3. QED BY <1>3, <3>1, <3>2 DEF Digest
  <2>3. ~Heads(s, q)
    BY <1>3, <1>7 DEF Heads, Leader, Follower
  <2>4. QED BY <2>1, <2>2, <2>3 DEF Digest
<1>8. Settled(K, node[s].log, node[s].committed, node[s].Term)'
  <2>1. q.committed \in Nat /\ Settled(K, q.log, q.committed, q.Term)'
    BY CommittedOn
  <2> DEFINE x == p.log c == p.committed U == p.Term
  <2>2. x = q.log /\ c = q.committed /\ U = q.Term
    BY <1>3
  <2>3. \A a, b, d : a = q.log /\ b = q.committed /\ d = q.Term => Settled(K, a, b, d)'
    BY <2>1
  <2> HIDE DEF x, c, U
  <2>4. \A a, b, d : a = x /\ b = c /\ d = U => Settled(K, a, b, d)'
    BY <2>2, <2>3
  <2>5. QED BY <2>4 DEF x, c, U, p, Settled
<1>9. QED BY <1>2, <1>4, <1>5, <1>6, <1>7, <1>8 DEF NodeInv, p

-----------------------------------------------------------------------------
\* The messages after a step

\* A part of a log is a part of what the log grows into.
LEMMA CarriesMore ==
    ASSUME NEW m \in Message, NEW x, NEW y, Len(x) \in Nat, Len(y) \in Nat,
           Agrees(x, y, Len(x)), Carries(m, x)
    PROVE  Carries(m, y)
<1>1. m.index \in Nat /\ m.entries \in Seq(Entry)
  BY DEF Message
<1>2. Len(m.entries) \in Nat
  BY <1>1, LenProperties
<1> DEFINE n == Len(m.entries) k == m.index e == m.entries
<1>3. n \in Nat /\ k \in Nat /\ k + n <= Len(x) /\ Len(x) <= Len(y)
      /\ (\A i \in 1..n : e[i] = x[k + i]) /\ m.logTerm = termAt(x, k)
      /\ \A i \in 1..Len(x) : x[i] = y[i]
  BY <1>1, <1>2 DEF Carries, Agrees
<1> HIDE DEF n, k, e
<1>4. k + n <= Len(y)
  BY <1>3
<1>5. \A i \in 1..n : e[i] = y[k + i]
  <2>1. ASSUME NEW i \in 1..n PROVE k + i \in 1..Len(x)
    BY <1>3
  <2>2. QED BY <1>3, <2>1
<1>6. termAt(y, k) = termAt(x, k)
  <2>1. k \in 1..Len(x) <=> k \in 1..Len(y) \/ k \in 1..Len(x)
    BY <1>3
  <2>2. k = 0 \/ k \in 1..Len(x)
    BY <1>3
  <2>3. k \in 1..Len(x) => k \in 1..Len(y) /\ x[k] = y[k]
    BY <1>3
  <2>4. k = 0 => k \notin 1..Len(x) /\ k \notin 1..Len(y)
    OBVIOUS
  <2>5. QED BY <2>2, <2>3, <2>4 DEF termAt
<1>7. QED BY <1>3, <1>4, <1>5, <1>6 DEF Carries, n, k, e

\* What was sent before still says what matters.
LEMMA OldMessage ==
    ASSUME NEW L, NEW K, NEW s, NEW q, Before(L, s, q), Digest(L, K, s, q), NEW m \in net
    PROVE  MsgInv(K, m)'
<1> DEFINE r == node[s]
           f == m.from
           T == m.term
<1>1. /\ q.Term \in Nat /\ r.Term \in Nat /\ s \in Server /\ r.Term <= q.Term
      /\ L \in [Nat -> Seq(Entry)] /\ K \in [Nat -> Seq(Entry)] /\ MsgInv(L, m)
  BY DEF Before, Safe, Digest
<1>2. /\ m \in Message /\ f \in Server /\ m.to \in Server /\ T \in Nat /\ m.commit \in Nat
      /\ f # m.to
  BY <1>1 DEF MsgInv, Message
<1>3. \A t \in Server : node[t].Term \in Nat /\ node'[t].Term >= node[t].Term
  <2>1. \A t \in Server : node[t].Term \in Nat
    BY DEF Before, Safe, NodeInv, Typed, Raft
  <2>2. \A t \in Server : t # s => node'[t].Term = node[t].Term
    BY DEF Digest
  <2>3. node'[s].Term = q.Term
    BY DEF Digest, Same
  <2>4. q.Term \in Nat /\ r.Term \in Nat /\ r.Term <= q.Term
    BY <1>1
  <2>5. ASSUME NEW t \in Server PROVE node'[t].Term >= node[t].Term
    <3>1. CASE t = s
      BY <2>3, <2>4, <3>1
    <3>2. CASE t # s
      BY <2>1, <2>2, <3>2
    <3>3. QED BY <3>1, <3>2
  <2>6. QED BY <2>1, <2>5
<1>4. \A t \in Server : node'[t].Term \in Nat
  BY <1>1, <1>3 DEF Digest, Same
<1>5. ASSUME m.type = "MsgVote"
      PROVE  /\ node'[f].Term >= T
             /\ node'[f].Term = T /\ node'[f].state = Candidate =>
                    m.index = Len(node'[f].log) /\ m.logTerm = LastTerm(node'[f].log)
  <2>1. /\ node[f].Term >= T
        /\ node[f].Term = T /\ node[f].state = Candidate =>
                    m.index = Len(node[f].log) /\ m.logTerm = LastTerm(node[f].log)
    BY <1>1, <1>5 DEF MsgInv
  <2>2. node'[f].Term >= T
    <3>1. node'[f].Term >= node[f].Term /\ node'[f].Term \in Nat /\ node[f].Term \in Nat
      BY <1>2, <1>3, <1>4
    <3> DEFINE a == node'[f].Term b == node[f].Term
    <3> HIDE DEF a, b, T
    <3>2. a >= b /\ b >= T /\ a \in Nat /\ b \in Nat /\ T \in Nat
      BY <1>2, <2>1, <3>1 DEF a, b
    <3>3. a >= T
      BY <3>2
    <3>4. QED BY <3>3 DEF a
  <2>3. ASSUME f # s, node'[f].Term = T, node'[f].state = Candidate
        PROVE  m.index = Len(node'[f].log) /\ m.logTerm = LastTerm(node'[f].log)
    BY <1>2, <2>1, <2>3 DEF Digest
  <2>4. ASSUME f = s, q.Term = T, q.state = Candidate
        PROVE  m.index = Len(q.log) /\ m.logTerm = LastTerm(q.log)
    <3>1. Idle(r, q, net)
      BY <2>4 DEF Digest, Heads, Takes, Follows, Candidate, Leader, Follower
    <3>2. q.Term > r.Term \/ (r.state = Candidate /\ q.Term = r.Term)
      BY <2>4, <3>1 DEF Idle
    <3>3. r.Term >= q.Term
      BY <2>1, <2>4
    <3>4. r.state = Candidate /\ q.Term = r.Term
      <4>1. q.Term \in Nat /\ r.Term \in Nat
        BY <1>1
      <4>2. QED BY <4>1, <3>2, <3>3
    <3>5. q.log = r.log
      BY <3>1 DEF Idle
    <3>6. QED BY <2>1, <2>4, <3>4, <3>5
  <2>5. node'[s].Term = q.Term /\ node'[s].state = q.state /\ node'[s].log = q.log
    BY DEF Digest, Same
  <2>6. QED BY <2>2, <2>3, <2>4, <2>5
<1>6. ASSUME Grant(m) PROVE node'[m.to].Term >= T
  <2>1. node[m.to].Term >= T
    BY <1>1, <1>6 DEF MsgInv
  <2> DEFINE a == node'[m.to].Term b == node[m.to].Term
  <2>2. a >= b /\ a \in Nat /\ b \in Nat
    BY <1>2, <1>3, <1>4
  <2> HIDE DEF a, T
  <2>3. b >= T /\ T \in Nat
    BY <1>2, <2>1
  <2> HIDE DEF b
  <2>4. a >= T
    BY <2>2, <2>3
  <2>5. QED BY <2>4 DEF a
<1>7. ASSUME m.type \in {"MsgApp", "MsgHeartbeat"}
      PROVE  <<T, f>> \in leaders' /\ Settled(K, K[T], m.commit, T)'
  <2>1. <<T, f>> \in leaders /\ Settled(L, L[T], m.commit, T)
    BY <1>1, <1>7 DEF MsgInv
  <2>2. Len(L[T]) \in Nat /\ Len(K[T]) \in Nat /\ Agrees(L[T], K[T], Len(L[T]))
    BY <1>1, <1>2, LenProperties DEF Digest
  <2> DEFINE x == L[T] y == K[T] c == m.commit
  <2>3. c = 0 \/ \E W \in Nat : Agrees(x, L[W], c)
    BY <2>1 DEF Settled
  <2>4. x = L[T] /\ y = K[T] /\ Len(x) \in Nat /\ Len(y) \in Nat /\ Agrees(x, y, Len(x))
        /\ c \in Nat /\ Settled(L, x, c, T)
    BY <1>2, <2>1, <2>2
  <2> HIDE DEF x, y, c
  <2>5. c <= Len(x)
    BY <2>3, <2>4 DEF Agrees
  <2>6. Agrees(y, x, c) /\ c <= c
    BY <2>4, <2>5 DEF Agrees
  <2>7. Settled(L, y, c, T)
    BY <1>1, <2>4, <2>6, SettledMove
  <2>8. T <= T
    BY <1>2
  <2>9. Settled(K, y, c, T)'
    BY <1>2, <2>4, <2>7, <2>8, SettledOn
  <2>10. QED BY <2>1, <2>9 DEF Digest, y, c
<1>8. ASSUME m.type = "MsgApp" PROVE Carries(m, K[T])
  <2>1. Carries(m, L[T])
    BY <1>1, <1>8 DEF MsgInv
  <2>2. Len(L[T]) \in Nat /\ Len(K[T]) \in Nat /\ Agrees(L[T], K[T], Len(L[T]))
    BY <1>1, <1>2, LenProperties DEF Digest
  <2>3. QED BY <1>2, <2>1, <2>2, CarriesMore
<1>9. ASSUME m.type = "MsgHeartbeat" PROVE m.commit = 0 \/ Got(m.to, T, m.commit)'
  BY <1>1, <1>9, GotOn DEF MsgInv
<1>10. m.type = "MsgTransferLeader" => <<T, m.to>> \in leaders'
  BY <1>1 DEF MsgInv, Digest
<1>11. m.type \in {"MsgVote", "MsgPreVote", "MsgAppResp", "MsgApp", "MsgHeartbeat"} => m.term # 0
  BY <1>1 DEF MsgInv
<1>12. QED BY <1>2, <1>5, <1>6, <1>7, <1>8, <1>9, <1>10, <1>11 DEF MsgInv

\* SettledMove in the state after a step.
Settling ==
    \A K \in [Nat -> Seq(Entry)] : \A x, y, U : \A c, d \in Nat :
        /\ d <= c /\ Settled(K, x, c, U) /\ Agrees(y, x, d)
        /\ Len(x) \in Nat /\ Len(y) \in Nat
        => Settled(K, y, d, U)

\* This is so in every state,
LEMMA SettlingHolds == Settling
BY SettledMove DEF Settling

\* also after a step.
LEMMA SettlingNext == Settling'
BY SettlingHolds, PTL

\* What s sends after its step tells of its new state.
LEMMA NewMessage ==
    ASSUME NEW L, NEW K, NEW s, NEW q, Before(L, s, q), Digest(L, K, s, q),
           NEW m \in q.msgs, m.type # "MsgProp"
    PROVE  MsgInv(K, m)'
<1> DEFINE r == node[s]
           T == q.Term
<1>1. /\ q.Term \in Nat /\ r.Term \in Nat /\ s \in Server
      /\ K \in [Nat -> Seq(Entry)] /\ q.id = s /\ NodeInv(L, s) /\ Typed(q)
      /\ q.state \in {Candidate, Leader} => q.Term # 0
  BY DEF Before, Safe, Digest, Typed, Raft
<1>2. /\ node'[s].Term = q.Term /\ node'[s].state = q.state /\ node'[s].log = q.log
  BY DEF Digest, Same
<1>3. ASSUME NEW A, Says(m, q, A),
             A = {} \/ A = Known(s, q),
             q.state = Follower /\ q.lead # None =>
                    r.state = Follower /\ q.lead = r.lead /\ q.Term = r.Term
      PROVE  MsgInv(K, m)'
  <2>1. m \in Message /\ m.from = s /\ m.to # s /\ ~Grant(m) /\ m.to \in Server
    BY <1>1, <1>3 DEF Says, Message
  <2>2. m.type \in {"MsgVote", "MsgPreVote", "MsgAppResp", "MsgApp", "MsgHeartbeat"} => m.term # 0
    BY <1>1, <1>3 DEF Says
  <2>3. ASSUME m.type = "MsgVote"
        PROVE  /\ node'[m.from].Term >= m.term
               /\ node'[m.from].Term = m.term /\ node'[m.from].state = Candidate =>
                    m.index = Len(node'[m.from].log) /\ m.logTerm = LastTerm(node'[m.from].log)
    <3>1. m.term = q.Term /\ m.index = Len(q.log) /\ m.logTerm = LastTerm(q.log)
      BY <1>3, <2>3 DEF Says
    <3>2. node'[s].Term >= m.term
      <4>1. node'[s].Term = m.term /\ m.term \in Nat
        BY <1>1, <1>2, <3>1
      <4>2. QED BY <4>1
    <3>3. QED BY <1>2, <2>1, <3>1, <3>2
  <2>4. ASSUME m.type \in {"MsgApp", "MsgHeartbeat"}
        PROVE  <<m.term, m.from>> \in leaders' /\ Settled(K, K[m.term], m.commit, m.term)'
    <3>1. q.state = Leader /\ m.term = q.Term /\ m.commit <= q.committed
      BY <1>3, <2>4 DEF Says
    <3>2. <<q.Term, s>> \in leaders' /\ K[q.Term] = q.log
      BY <3>1 DEF Digest
    <3>3. q.committed \in Nat /\ Settled(K, q.log, q.committed, q.Term)'
      BY CommittedOn
    <3>4. m.commit \in Nat /\ q.log \in Seq(Entry)
      BY <1>1, <2>1 DEF Message, Typed
    <3>5. Len(q.log) \in Nat
      BY <3>4, LenProperties
    <3>6. Agrees(q.log, q.log, m.commit)
      <4>1. q.committed = 0 \/ \E W \in Nat : Agrees(q.log, K[W], q.committed)
        BY <3>3 DEF Settled
      <4> DEFINE n == Len(q.log) c == q.committed d == m.commit
      <4>2. c <= n /\ d <= c /\ c \in Nat /\ d \in Nat /\ n \in Nat
        BY <3>1, <3>3, <3>4, <3>5, <4>1 DEF Agrees
      <4> HIDE DEF c, d, n
      <4>3. d <= n
        BY <4>2
      <4>4. QED BY <4>3 DEF Agrees, n, d
    <3>7. Settled(K, q.log, m.commit, q.Term)'
      BY <1>1, <3>1, <3>3, <3>4, <3>5, <3>6, SettlingNext DEF Settling
    <3>8. QED BY <2>1, <3>1, <3>2, <3>7
  <2>5. m.type = "MsgApp" => Carries(m, K[m.term])
    BY <1>3 DEF Says, Digest
  <2>6. ASSUME m.type = "MsgHeartbeat" PROVE m.commit = 0 \/ Got(m.to, m.term, m.commit)'
    <3>1. m.term = q.Term /\ (m.commit = 0 \/ Reaches(A, m.to, m.commit))
      BY <1>3, <2>6 DEF Says
    <3>2. m.commit \in Nat
      BY <2>1 DEF Message
    <3>3. ASSUME Reaches(A, m.to, m.commit) PROVE Got(m.to, q.Term, m.commit)'
      <4>1. A = Known(s, q)
        BY <1>3, <3>3 DEF Reaches
      <4>2. Got(m.to, q.Term, m.commit)
        BY <3>2, <3>3, <4>1, KnownGot
      <4>3. QED BY <4>2, GotOn
    <3>4. QED BY <3>1, <3>3
  <2>7. ASSUME m.type = "MsgTransferLeader" PROVE <<m.term, m.to>> \in leaders'
    <3>1. q.state = Follower /\ q.lead = m.to /\ m.term = q.Term /\ q.lead # None
      BY <1>3, <2>1, <2>7, CoreAssumption DEF Says
    <3>2. <<r.Term, r.lead>> \in leaders
      BY <1>1, <1>3, <3>1 DEF NodeInv
    <3>3. QED BY <1>3, <3>1, <3>2 DEF Digest
  <2>8. QED BY <1>1, <2>1, <2>2, <2>3, <2>4, <2>5, <2>6, <2>7 DEF MsgInv
<1>4. CASE Heads(s, q)
  <2>1. q.state = Leader /\ Says(m, q, Known(s, q))
    BY <1>4 DEF Heads, Leads, Leading
  <2>2. QED BY <1>3, <2>1 DEF Leader, Follower
<1>5. CASE Idle(r, q, net)
  <2>1. CASE Says(m, q, {})
    BY <1>3, <1>5, <2>1 DEF Idle
  <2>2. CASE Votes(m, q, net)
    <3>1. /\ Grant(m) /\ m \in Message /\ m.from = s /\ m.to # s /\ m.to \in Server
          /\ m.type = "MsgVoteResp"
      BY <1>1, <2>2 DEF Votes, Grant, Message
    <3>2. node[m.to].Term >= m.term
      BY <2>2 DEF Votes, Before, Safe, MsgInv
    <3>3. node'[m.to].Term >= m.term
      BY <3>1, <3>2 DEF Digest
    <3>4. QED BY <3>1, <3>3 DEF MsgInv
  <2>3. QED BY <1>5, <2>1, <2>2 DEF Idle
<1>6. ASSUME NEW n \in net, Takes(L, s, q, n) PROVE MsgInv(K, m)'
  <2>1. /\ m \in Message /\ m.from = s /\ m.to = n.from /\ m.term = n.term
        /\ m.type \in {"MsgAppResp", "MsgHeartbeatResp"}
    BY <1>1, <1>6 DEF Takes, Follows
  <2>2. n.from # s /\ n.term # 0
    BY <1>6 DEF Takes, Before, Safe, MsgInv
  <2>3. QED BY <2>1, <2>2 DEF MsgInv, Grant
<1>7. QED BY <1>4, <1>5, <1>6 DEF Digest

-----------------------------------------------------------------------------
\* Acknowledgements after a step

\* Every quorum has a voter of every leader.
Voting ==
    \A U, w : <<U, w>> \in leaders =>
        \A l \in Server : \A Q \in SUBSET Server : Wins(l, Q) =>
            \E x \in Q : /\ node[x].Term >= U
                         /\ x = w \/ \E g \in net : /\ Grant(g) /\ g.from = x
                                                    /\ g.to = w /\ g.term = U

\* This is so in every state of the election invariant,
LEMMA VotingHolds == Elections => Voting
<1> SUFFICES ASSUME Elections, NEW U, NEW w, <<U, w>> \in leaders, NEW l \in Server,
                    NEW Q \in SUBSET Server, Wins(l, Q)
             PROVE  \E x \in Q : /\ node[x].Term >= U
                                 /\ x = w \/ \E g \in net : /\ Grant(g) /\ g.from = x
                                                            /\ g.to = w /\ g.term = U
  BY DEF Voting
<1> DEFINE G == {w} \cup GrantersIn(net, w, U)
<1>1. w \in Server /\ node[w].Term >= U /\ Wins(w, G)
  BY DEF Elections
<1>2. G \in SUBSET Server
  BY <1>1 DEF GrantersIn, Elections, Grant
<1>3. PICK x \in Q : x \in G
  <2> HIDE DEF G
  <2>1. Q \cap G # {}
    BY <1>1, <1>2, CoreAssumption
  <2>2. QED BY <2>1
<1>4. CASE x = w
  BY <1>1, <1>4
<1>5. CASE x # w
  <2>1. PICK g \in net : Grant(g) /\ g.to = w /\ g.term = U /\ g.from = x
    BY <1>3, <1>5 DEF GrantersIn, Grant
  <2>2. node[x].Term >= U
    BY <2>1 DEF Elections
  <2>3. QED BY <2>1, <2>2
<1>6. QED BY <1>4, <1>5

\* also after a step.
LEMMA VotingNext == Elections' => Voting'
BY VotingHolds, PTL

\* An entry that a leader has just appended cannot be chosen if a later leader exists.
LEMMA NewEntry ==
    ASSUME NEW L, NEW K, NEW s, NEW q, Before(L, s, q), Digest(L, K, s, q),
           NEW T \in Nat, NEW i \in Nat, Own(K, T, i), ~Own(L, T, i),
           NEW U \in Nat, T < U, Elected(U)'
    PROVE  ~Choosable(K, T, i)'
<1> SUFFICES ASSUME Choosable(K, T, i)' PROVE FALSE
  OBVIOUS
<1>1. PICK l \in Server, Q \in SUBSET Server :
            Wins(l, Q) /\ \A v \in Q : Acked(K, v, T, i)' \/ node'[v].Term <= T
  BY DEF Choosable
<1>2. PICK w \in Server : <<U, w>> \in leaders'
  BY DEF Elected
<1>3. PICK x \in Q : node'[x].Term >= U
  BY <1>1, <1>2, VotingNext DEF Voting, Before
<1>4. node'[x].Term \in Nat
  <2>1. x \in Server
    BY <1>1
  <2>2. QED BY <2>1 DEF Before, Elections, Raft
<1>5. Acked(K, x, T, i)'
  <2>1. ~(node'[x].Term <= T)
    BY <1>3, <1>4
  <2>2. QED BY <1>1, <2>1
<1>6. CASE Acked(L, x, T, i)
  <2>1. i <= Len(L[T])
    BY <1>1, <1>6 DEF Before, Safe, AckInv
  <2>2. i \in 1..Len(L[T])
    <3>1. Len(L[T]) \in Nat
      BY OwnOn
    <3>2. i >= 1
      BY DEF Own
    <3>3. QED BY <2>1, <3>1, <3>2
  <2>3. QED BY <2>2, OwnOn
<1>7. CASE x = s /\ T = q.Term
  <2>1. node'[x].Term = T
    BY <1>7 DEF Digest, Same
  <2>2. QED BY <1>3, <2>1
<1>8. QED BY <1>5, <1>6, <1>7, AckedFrom

\* In its term a node keeps what it has of its leader's log.
LEMMA LogKeeps ==
    ASSUME NEW L, NEW K, NEW s, NEW q, Before(L, s, q), Digest(L, K, s, q),
           NEW T \in Nat, NEW i \in Nat, T = q.Term, T = node[s].Term, Agrees(node[s].log, L[T], i)
    PROVE  Agrees(q.log, K[T], i)
<1>1. Agrees(q.log, L[T], i)
  <2>1. CASE Idle(node[s], q, net)
    BY <2>1 DEF Idle
  <2>2. CASE Heads(s, q)
    <3>1. Agrees(node[s].log, q.log, Len(node[s].log))
      BY <2>2, HeadsExtends
    <3>2. node[s].log \in Seq(Entry) /\ q.log \in Seq(Entry)
      BY DEF Before, Safe, NodeInv, Typed, Digest
    <3>3. Len(node[s].log) \in Nat /\ Len(q.log) \in Nat
      BY <3>2, LenProperties
    <3>4. QED BY <3>1, <3>3 DEF Agrees
  <2>3. ASSUME NEW m \in net, Takes(L, s, q, m) PROVE Agrees(q.log, L[T], i)
    BY <2>3 DEF Takes, Follows
  <2>4. QED BY <2>1, <2>2, <2>3 DEF Digest
<1>2. QED BY <1>1, AgreesOn

\* An entry that is or may be chosen stays where it is.
LEMMA EntryKeeps ==
    ASSUME NEW L, NEW K, NEW s, NEW q, Before(L, s, q), Digest(L, K, s, q),
           NEW T \in Nat, NEW i \in Nat, T <= node[s].Term,
           Own(L, T, i), Choosable(L, T, i), termAt(node[s].log, i) = T
    PROVE  termAt(q.log, i) = T
<1> DEFINE x == node[s].log
<1>1. x \in Seq(Entry) /\ q.log \in Seq(Entry)
  BY DEF Before, Safe, NodeInv, Typed, Digest
<1>2. T # 0 /\ i \in Int
  <2>1. Matches(L[T], L) /\ i \in 1..Len(L[T]) /\ L[T][i].term = T
    BY DEF Before, Safe, LogsInv, Own
  <2>2. QED BY <2>1 DEF Matches
<1>3. i \in 1..Len(x) /\ x[i].term = T
  BY <1>1, <1>2, TermAtFacts
<1>4. Len(x) \in Nat /\ Len(q.log) \in Nat
  BY <1>1, LenProperties
<1>5. ASSUME i \in 1..Len(q.log), q.log[i] = x[i] PROVE termAt(q.log, i) = T
  BY <1>3, <1>5 DEF termAt
<1>6. CASE Idle(node[s], q, net)
  BY <1>6 DEF Idle
<1>7. CASE Heads(s, q)
  <2>1. Agrees(x, q.log, Len(x))
    BY <1>7, HeadsExtends
  <2>2. i \in 1..Len(q.log) /\ q.log[i] = x[i]
    BY <1>3, <1>4, <2>1 DEF Agrees
  <2>3. QED BY <1>5, <2>2
<1>8. ASSUME NEW m \in net, Takes(L, s, q, m) PROVE termAt(q.log, i) = T
  <2> DEFINE U == m.term
             l == L[U]
  <2>1. /\ U \in Nat /\ node[s].Term \in Nat /\ U >= node[s].Term /\ Elected(U)
        /\ Backs(m, node[s], l) /\ Follows(node[s], q, m, l) /\ U = q.Term
    <3>1. m \in Message /\ m.from \in Server /\ <<U, m.from>> \in leaders
      BY <1>8 DEF Takes, Before, Safe, MsgInv, Message
    <3>2. U \in Nat /\ node[s].Term \in Nat
      BY <3>1 DEF Message, Digest
    <3>3. QED BY <1>8, <3>1, <3>2 DEF Takes, Elected, Follows
  <2>2. T <= U
    BY <2>1
  <2>3. l \in Seq(Entry) /\ Akin(x, l)
    BY <2>1 DEF Backs
  <2>4. termAt(l, i) = T
    <3>1. CASE T = U
      BY <3>1 DEF Own, termAt
    <3>2. CASE T < U
      BY <2>1, <3>2 DEF Before, Safe, HeldInv
    <3>3. QED BY <2>1, <2>2, <3>1, <3>2
  <2> HIDE DEF l, U
  <2>5. i \in 1..Len(l) /\ l[i].term = T
    BY <1>2, <2>3, <2>4, TermAtFacts
  <2>6. Len(l) \in Nat
    BY <2>3, LenProperties
  <2>7. Agrees(x, l, i)
    BY <1>3, <2>3, <2>5, <2>6 DEF Akin
  <2>8. Agrees(q.log, l, i)
    BY <2>1, <2>7 DEF Follows
  <2>9. i \in 1..Len(q.log) /\ q.log[i] = l[i]
    BY <1>4, <2>5, <2>6, <2>8 DEF Agrees
  <2>10. QED BY <2>5, <2>9 DEF termAt
<1>9. QED BY <1>6, <1>7, <1>8 DEF Digest

\* Who acknowledged entries has them.
LEMMA AckOn ==
    ASSUME NEW L, NEW K, NEW s, NEW q, Before(L, s, q), Digest(L, K, s, q),
           NEW v \in Server, NEW T \in Nat, NEW i \in Nat
    PROVE  AckInv(K, v, T, i)'
<1> SUFFICES ASSUME Acked(K, v, T, i)'
             PROVE  /\ node'[v].Term >= T /\ i <= Len(K[T])
                    /\ node'[v].Term = T => Agrees(node'[v].log, K[T], i)
                    /\ Own(K, T, i) /\ Choosable(K, T, i)' => termAt(node'[v].log, i) = T
  BY DEF AckInv, Own
<1>1. Len(L[T]) \in Nat /\ Len(K[T]) \in Nat /\ Len(L[T]) <= Len(K[T])
  BY OwnOn
<1>2. q.Term \in Nat /\ node[s].Term \in Nat /\ q.Term >= node[s].Term
  BY DEF Digest
<1>3. node'[s].Term = q.Term /\ node'[s].log = q.log
  BY DEF Digest, Same
<1>4. CASE v = s /\ T = q.Term /\ Agrees(q.log, K[T], i)
  <2>1. q.log \in Seq(Entry)
    BY DEF Digest, Typed
  <2>2. Len(q.log) \in Nat
    BY <2>1, LenProperties
  <2>3. i <= Len(K[T]) /\ i <= Len(q.log) /\ \A j \in 1..i : q.log[j] = K[T][j]
    BY <1>4 DEF Agrees
  <2>4. Own(K, T, i) => termAt(q.log, i) = T
    <3>1. SUFFICES ASSUME Own(K, T, i) PROVE termAt(q.log, i) = T
      OBVIOUS
    <3>2. i >= 1 /\ K[T][i].term = T
      BY <3>1 DEF Own
    <3>3. i \in 1..i /\ i \in 1..Len(q.log)
      BY <2>2, <2>3, <3>2
    <3>4. QED BY <2>3, <3>2, <3>3 DEF termAt
  <2>5. T >= T
    OBVIOUS
  <2>6. QED BY <1>3, <1>4, <2>3, <2>4, <2>5
<1>5. CASE Acked(L, v, T, i)
  <2>1. /\ node[v].Term >= T /\ i <= Len(L[T])
        /\ node[v].Term = T => Agrees(node[v].log, L[T], i)
        /\ Own(L, T, i) /\ Choosable(L, T, i) => termAt(node[v].log, i) = T
    BY <1>5 DEF Before, Safe, AckInv
  <2>2. i <= Len(K[T])
    BY <1>1, <2>1
  <2>3. ASSUME Own(K, T, i), Choosable(K, T, i)' PROVE Own(L, T, i) /\ Choosable(L, T, i)
    <3>1. i \in 1..Len(L[T])
      BY <1>1, <2>1, <2>3 DEF Own
    <3>2. QED BY <2>3, <3>1, OwnOn, ChoosableFrom
  <2>4. CASE v # s
    <3>1. node'[v] = node[v]
      BY <2>4 DEF Digest
    <3>2. node[v].Term = T => Agrees(node[v].log, K[T], i)
      BY <2>1, AgreesOn
    <3>3. QED BY <2>1, <2>2, <2>3, <3>1, <3>2
  <2>5. CASE v = s
    <3>1. q.Term >= T
      BY <1>2, <2>1, <2>5
    <3>2. ASSUME q.Term = T PROVE Agrees(q.log, K[T], i)
      <4>1. node[s].Term = T
        BY <1>2, <2>1, <2>5, <3>2
      <4>2. QED BY <2>1, <2>5, <3>2, <4>1, LogKeeps
    <3>3. ASSUME Own(K, T, i), Choosable(K, T, i)' PROVE termAt(q.log, i) = T
      <4>1. T <= node[s].Term
        BY <1>2, <2>1, <2>5
      <4>2. QED BY <2>1, <2>3, <2>5, <3>3, <4>1, EntryKeeps
    <3>4. QED BY <1>3, <2>2, <2>5, <3>1, <3>2, <3>3
  <2>6. QED BY <2>4, <2>5
<1>6. QED BY <1>4, <1>5, AckedFrom

-----------------------------------------------------------------------------
\* Elections after a step

\* A log that is up to date with one that has an entry has it, if it is or may be
\* chosen.
LEMMA UpToHas ==
    ASSUME NEW L, Safe(L), NEW x \in Seq(Entry), Matches(x, L), NEW T \in Nat, NEW i \in Nat,
           UpTo(x, T, i), Own(L, T, i), Choosable(L, T, i)
    PROVE  termAt(x, i) = T
<1> DEFINE n == Len(x)
           W == LastTerm(x)
<1>1. /\ n \in Nat /\ W \in Nat
      /\ W # 0 => n \in 1..n /\ x[n].term = W
  <2>1. n \in Nat
    BY LenProperties
  <2>2. W \in Nat /\ (W # 0 => n \in 1..n /\ x[n].term = W)
    BY <2>1, TermAtFacts DEF LastTerm
  <2>3. QED BY <2>1, <2>2
<1>2. /\ L \in [Nat -> Seq(Entry)]
      /\ \A V \in Nat : /\ Matches(L[V], L) /\ \A j \in 1..Len(L[V]) : L[V][j].term <= V
                        /\ Len(L[V]) # 0 => Elected(V)
  BY DEF Safe, LogsInv
<1>3. T # 0 /\ i \in 1..Len(L[T]) /\ L[T][i].term = T
  BY <1>2 DEF Own, Matches
<1>4. Len(L[T]) \in Nat /\ Len(L[W]) \in Nat /\ L[W] \in Seq(Entry)
  BY <1>1, <1>2, LenProperties
<1>5. W # 0 => Agrees(x, L[W], n)
  BY <1>1 DEF Matches
<1> HIDE DEF W, n
<1>6. CASE W = T
  <2>1. n >= i
    BY <1>6 DEF UpTo, W, n
  <2>2. Agrees(x, L[T], n)
    BY <1>3, <1>5, <1>6
  <2>3. i \in 1..n /\ x[i] = L[T][i]
    BY <1>1, <1>3, <1>4, <2>1, <2>2 DEF Agrees
  <2>4. QED BY <1>3, <2>3 DEF termAt, n
<1>7. CASE W > T
  <2> DEFINE y == L[W]
  <2>1. W # 0
    BY <1>1, <1>7
  <2>2. n \in 1..n /\ x[n].term = W /\ Agrees(x, y, n)
    BY <1>1, <1>5, <2>1
  <2>3. n \in 1..Len(y) /\ y[n] = x[n]
    BY <1>1, <1>4, <2>2 DEF Agrees
  <2>4. Elected(W)
    <3>1. Len(y) # 0
      BY <1>4, <2>3
    <3>2. QED BY <1>1, <1>2, <3>1
  <2>5. termAt(y, i) = T
    BY <1>1, <1>7, <2>4 DEF Safe, HeldInv
  <2>6. y \in Seq(Entry) /\ Matches(y, L) /\ Len(y) \in Nat
    BY <1>1, <1>2, <1>4
  <2> HIDE DEF y
  <2>7. i \in 1..Len(y) /\ y[i].term = T
    <3>1. i \in Int
      OBVIOUS
    <3>2. QED BY <1>3, <2>5, <2>6, <3>1, TermAtFacts
  <2>8. i <= n
    <3>1. SUFFICES ASSUME ~(i <= n) PROVE FALSE
      OBVIOUS
    <3>2. n \in 1..i
      BY <1>1, <2>2, <3>1
    <3>3. y[n].term <= y[i].term
      BY <1>2, <2>6, <2>7, <3>2, TermsGrow
    <3>4. W <= T
      BY <2>2, <2>3, <2>7, <3>3
    <3>5. QED BY <1>1, <1>7, <3>4
  <2>9. i \in 1..n /\ x[i] = y[i]
    BY <1>1, <2>2, <2>7, <2>8 DEF Agrees
  <2>10. QED BY <2>7, <2>9 DEF termAt, n
<1>8. QED BY <1>6, <1>7 DEF UpTo, W

\* The new leader of a term has what is or may be chosen.
LEMMA HeldOn ==
    ASSUME NEW L, NEW K, NEW s, NEW q, Before(L, s, q), Digest(L, K, s, q),
           NEW T \in Nat, NEW U \in Nat, NEW i \in Nat
    PROVE  HeldInv(K, T, U, i)'
<1> SUFFICES ASSUME T < U, Elected(U)', Own(K, T, i), Choosable(K, T, i)'
             PROVE  termAt(K[U], i) = T
  BY DEF HeldInv, Own
<1> DEFINE r == node[s]
           x == r.log
<1>1. Own(L, T, i) /\ Choosable(L, T, i)
  BY NewEntry, ChoosableFrom
<1>2. T # 0 /\ i \in Int
  <2>1. Matches(L[T], L) /\ i \in 1..Len(L[T]) /\ L[T][i].term = T
    BY <1>1 DEF Before, Safe, LogsInv, Own
  <2>2. QED BY <2>1 DEF Matches
<1>3. ASSUME NEW y \in Seq(Entry), NEW z \in Seq(Entry), Agrees(y, z, Len(y)), termAt(y, i) = T
      PROVE  termAt(z, i) = T
  <2>1. i \in 1..Len(y) /\ y[i].term = T /\ Len(y) \in Nat /\ Len(z) \in Nat
    BY <1>2, <1>3, TermAtFacts, LenProperties
  <2>2. i \in 1..Len(z) /\ z[i] = y[i]
    BY <1>3, <2>1 DEF Agrees
  <2>3. QED BY <2>1, <2>2 DEF termAt
<1>4. CASE Elected(U)
  <2>1. termAt(L[U], i) = T
    BY <1>1, <1>4 DEF Before, Safe, HeldInv
  <2>2. L[U] \in Seq(Entry) /\ K[U] \in Seq(Entry) /\ Agrees(L[U], K[U], Len(L[U]))
    BY DEF Digest
  <2>3. QED BY <1>3, <2>1, <2>2
<1>5. CASE ~Elected(U)
  <2>1. U = q.Term /\ q.state = Leader /\ <<U, s>> \in leaders'
    BY <1>5 DEF Digest, Elected
  <2>2. Heads(s, q)
    BY <2>1 DEF Digest, Idle, Takes, Follows, Leader, Follower
  <2>3. q.Term > r.Term \/ (r.state = Candidate /\ q.Term = r.Term)
    <3>1. ~(r.state = Leader /\ q.Term = r.Term)
      BY <1>5, <2>1 DEF Before, Elections, Elected
    <3>2. QED BY <2>2, <3>1 DEF Heads
  <2>4. PICK l \in Server, Q \in SUBSET Server :
            Wins(l, Q) /\ \A v \in Q : Acked(K, v, T, i)' \/ node'[v].Term <= T
    BY DEF Choosable
  <2>5. PICK v \in Q : /\ node'[v].Term >= U
                       /\ v = s \/ \E g \in net' : /\ Grant(g) /\ g.from = v
                                                   /\ g.to = s /\ g.term = U
    BY <2>1, <2>4, VotingNext DEF Voting, Before
  <2>6. v \in Server
    BY <2>4
  <2>7. Acked(L, v, T, i)
    <3>1. node'[v].Term \in Nat
      BY <2>6 DEF Before, Elections, Raft
    <3>2. ~(node'[v].Term <= T)
      BY <2>5, <3>1
    <3>3. Acked(K, v, T, i)'
      BY <2>4, <3>2
    <3>4. T # q.Term
      BY <2>1
    <3>5. QED BY <3>3, <3>4, AckedFrom
  <2>8. termAt(x, i) = T
    <3>1. CASE v = s
      BY <1>1, <2>6, <2>7, <3>1 DEF Before, Safe, AckInv
    <3>2. CASE v # s
      <4>1. PICK g \in net' : Grant(g) /\ g.from = v /\ g.to = s /\ g.term = U
        BY <2>5, <3>2
      <4>2. g \in net
        <5>1. \A n \in q.msgs : ~Grant(n)
          BY <2>2 DEF Heads, Leads, Leading, Says
        <5>2. QED BY <4>1, <5>1 DEF Digest
      <4>3. r.Term >= U
        BY <4>1, <4>2 DEF Before, Safe, MsgInv
      <4>4. r.state = Candidate /\ r.Term = U
        <5>1. q.Term \in Nat /\ r.Term \in Nat
          BY DEF Digest
        <5>2. QED BY <2>1, <2>3, <4>3, <5>1
      <4>5. UpTo(x, T, i)
        <5>1. VoteInv(L, g, T, i)
          BY <4>2 DEF Before, Safe
        <5>2. QED BY <1>1, <2>7, <4>1, <4>4, <5>1 DEF VoteInv
      <4>6. Safe(L) /\ x \in Seq(Entry) /\ Matches(x, L)
        BY DEF Before, Safe, NodeInv, Typed
      <4>7. QED BY <1>1, <4>5, <4>6, UpToHas
    <3>3. QED BY <3>1, <3>2
  <2>9. Agrees(x, q.log, Len(x)) /\ x \in Seq(Entry) /\ q.log \in Seq(Entry)
    BY <2>2, HeadsExtends DEF Before, Safe, NodeInv, Typed, Digest
  <2>10. K[U] = q.log
    BY <2>1 DEF Digest
  <2> HIDE DEF x
  <2>11. QED BY <1>3, <2>8, <2>9, <2>10
<1>6. QED BY <1>4, <1>5

\* A vote granted to a candidate shows that it has what is or may be chosen.
LEMMA VoteOn ==
    ASSUME NEW L, NEW K, NEW s, NEW q, Before(L, s, q), Digest(L, K, s, q),
           NEW m \in net', NEW T \in Nat, NEW i \in Nat
    PROVE  VoteInv(K, m, T, i)'
<1> DEFINE c == m.to
           v == m.from
           r == node[s]
           x == r.log
<1> SUFFICES ASSUME Grant(m), node'[c].state = Candidate, node'[c].Term = m.term, T < m.term,
                    Acked(K, v, T, i)', Own(K, T, i), Choosable(K, T, i)'
             PROVE  UpTo(node'[c].log, T, i)
  BY DEF VoteInv, Own
<1>0. q.Term \in Nat /\ r.Term \in Nat
  BY DEF Digest
<1>1. m \in Message /\ c \in Server /\ v \in Server /\ c # v /\ m.term \in Nat
  <2>1. m \in net \/ (m \in q.msgs /\ m.type # "MsgProp")
    BY DEF Digest
  <2>2. MsgInv(K, m)'
    BY <2>1, OldMessage, NewMessage
  <2>3. m \in Message /\ c # v
    BY <2>2 DEF MsgInv
  <2>4. QED BY <2>3 DEF Message
<1>2. Acked(L, v, T, i)
  <2>1. node'[v].Term >= m.term
    BY DEF Before, Elections
  <2>2. ~(v = s /\ T = q.Term)
    <3>1. SUFFICES ASSUME v = s, T = q.Term PROVE FALSE
      OBVIOUS
    <3>2. node'[v].Term = q.Term
      BY <3>1 DEF Digest, Same
    <3>3. QED BY <1>0, <1>1, <2>1, <3>1, <3>2
  <2>3. QED BY <2>2, AckedFrom
<1>3. Own(L, T, i) /\ Choosable(L, T, i)
  <2>1. i <= Len(L[T])
    BY <1>1, <1>2 DEF Before, Safe, AckInv
  <2>2. i \in 1..Len(L[T])
    <3>1. Len(L[T]) \in Nat /\ i >= 1
      BY OwnOn DEF Own
    <3>2. QED BY <2>1, <3>1
  <2>3. QED BY <2>2, OwnOn, ChoosableFrom
<1>4. CASE m \in net
  <2>1. VoteInv(L, m, T, i)
    BY <1>4 DEF Before, Safe
  <2>2. CASE c # s
    <3>1. node'[c] = node[c]
      BY <1>1, <2>2 DEF Digest
    <3>2. QED BY <1>2, <1>3, <2>1, <3>1 DEF VoteInv
  <2>3. CASE c = s
    <3>1. q.state = Candidate /\ q.Term = m.term /\ node'[c].log = q.log
      BY <2>3 DEF Digest, Same
    <3>2. Idle(r, q, net)
      BY <3>1 DEF Digest, Heads, Takes, Follows, Candidate, Leader, Follower
    <3>3. r.Term >= m.term
      BY <1>4, <2>3 DEF Before, Safe, MsgInv
    <3>4. r.state = Candidate /\ r.Term = m.term
      <4>1. q.Term > r.Term \/ (r.state = Candidate /\ q.Term = r.Term)
        BY <3>1, <3>2 DEF Idle
      <4>2. QED BY <1>0, <1>1, <3>1, <3>3, <4>1
    <3>5. q.log = x
      BY <3>2 DEF Idle
    <3>6. QED BY <1>2, <1>3, <2>1, <2>3, <3>1, <3>4, <3>5 DEF VoteInv
  <2>4. QED BY <2>2, <2>3
<1>5. CASE m \notin net
  <2>1. m \in q.msgs
    BY <1>5 DEF Digest
  <2>2. Idle(r, q, net)
    <3>1. ~Heads(s, q)
      BY <2>1 DEF Heads, Leads, Leading, Says
    <3>2. \A n \in net : ~Takes(L, s, q, n)
      BY <2>1 DEF Takes, Follows, Grant
    <3>3. QED BY <3>1, <3>2 DEF Digest
  <2>3. q.log = x /\ Votes(m, q, net)
    BY <2>1, <2>2 DEF Idle, Says
  <2>4. v = s /\ c # s
    BY <1>1, <2>3 DEF Votes, Digest
  <2>5. PICK n \in net : /\ n.type = "MsgVote" /\ n.from = c /\ n.term = m.term
                         /\ isUpToDate(q, n.index, n.logTerm)
    BY <2>3 DEF Votes
  <2>6. node'[c] = node[c]
    BY <1>1, <2>4 DEF Digest
  <2> DEFINE y == node[c].log
             W == LastTerm(x)
             V == LastTerm(y)
  <2>7. n.index = Len(y) /\ n.logTerm = V
    BY <2>5, <2>6 DEF Before, Safe, MsgInv
  <2>8. V > W \/ (V = W /\ Len(y) >= Len(x))
    BY <2>3, <2>5, <2>7 DEF isUpToDate, LastTerm, lastIndex
  <2>9. termAt(x, i) = T
    BY <1>1, <1>2, <1>3, <2>4 DEF Before, Safe, AckInv
  <2>10. x \in Seq(Entry) /\ y \in Seq(Entry) /\ Matches(x, L) /\ L \in [Nat -> Seq(Entry)]
         /\ \A U \in Nat : \A j \in 1..Len(L[U]) : L[U][j].term <= U
    BY <1>1 DEF Before, Safe, LogsInv, NodeInv, Typed
  <2>11. Len(x) \in Nat /\ Len(y) \in Nat
    BY <2>10, LenProperties
  <2> HIDE DEF x, y
  <2>12. W \in Nat /\ V \in Nat
    <3>1. Len(x) \in Int /\ Len(y) \in Int
      BY <2>11
    <3>2. termAt(x, Len(x)) \in Nat /\ termAt(y, Len(y)) \in Nat
      BY <2>10, <3>1, TermAtFacts
    <3>3. QED BY <3>2 DEF LastTerm
  <2>13. T # 0
    <3>1. Matches(L[T], L) /\ i \in 1..Len(L[T]) /\ L[T][i].term = T
      BY <1>3 DEF Before, Safe, LogsInv, Own
    <3>2. QED BY <3>1 DEF Matches
  <2>14. i \in 1..Len(x) /\ x[i].term = T
    <3>1. i \in Int
      OBVIOUS
    <3>2. QED BY <2>9, <2>10, <2>13, <3>1, TermAtFacts
  <2>15. T <= W
    <3>1. Len(x) \in 1..Len(x) /\ i \in 1..Len(x)
      BY <2>11, <2>14
    <3>2. x[i].term <= x[Len(x)].term
      BY <2>10, <3>1, TermsGrow
    <3>3. QED BY <2>14, <3>1, <3>2 DEF LastTerm, termAt
  <2>16. UpTo(y, T, i)
    <3> DEFINE a == Len(x) b == Len(y)
    <3>1. a \in Nat /\ b \in Nat /\ i <= a /\ W \in Nat /\ V \in Nat /\ T <= W
          /\ (V > W \/ (V = W /\ b >= a))
      BY <2>8, <2>11, <2>12, <2>14, <2>15
    <3> HIDE DEF a, b, W, V
    <3>2. V > T \/ (V = T /\ b >= i)
      BY <3>1
    <3>3. QED BY <3>2 DEF UpTo, V, b
  <2>17. QED BY <2>6, <2>16 DEF y
<1>6. QED BY <1>4, <1>5

\* The longest log committed.
LEMMA DecidedOn ==
    ASSUME NEW L, NEW K, NEW s, NEW q, Before(L, s, q), Digest(L, K, s, q), Runs(L, s, q)
    PROVE  DecidedInv(K)'
<1> DEFINE c == q.committed
           n == Len(decided)
           x == q.log
           y == SubSeq(x, 1, c)
<1>1. DecidedInv(L) /\ decided \in Seq(Entry) /\ q.Term \in Nat /\ K \in [Nat -> Seq(Entry)]
  BY DEF Before, Safe, DecidedInv, Digest
<1>2. n \in Nat
  BY <1>1, LenProperties
<1>3. c \in Nat /\ Settled(K, x, c, q.Term)'
  BY CommittedOn
<1>4. x \in Seq(Entry) /\ Len(x) \in Nat
  BY NewLog
<1>5. c <= Len(x)
  <2>1. c = 0 \/ \E W \in Nat : Agrees(x, K[W], c)
    BY <1>3 DEF Settled
  <2>2. QED BY <1>4, <2>1 DEF Agrees
<1>6. y \in Seq(Entry) /\ Len(y) = c /\ \A i \in 1..c : y[i] = x[i]
  <2> HIDE DEF x, c
  <2>1. \A i \in 1..c : x[i] \in Entry
    BY <1>3, <1>4, <1>5, ElementOfSeq
  <2>2. QED BY <1>3, <1>4, <1>5, <2>1, SubSeqProperties
<1>7. node'[s].committed = c /\ \A t \in Server : t # s => node'[t] = node[t]
  BY DEF Digest, Same
<1>8. \A t \in Server : node[t].committed \in Nat /\ node[t].committed <= n
  BY <1>1 DEF Before, Safe, NodeInv, Typed, DecidedInv
<1>9. CASE c > n
  <2>1. decided' = y
    BY <1>9 DEF Runs, CommittedLog
  <2>2. \A t \in Server : node'[t].committed <= c
    <3>1. ASSUME NEW t \in Server PROVE node'[t].committed <= c
      <4>1. CASE t = s
        BY <1>3, <1>7, <4>1
      <4>2. CASE t # s
        <5> DEFINE d == node[t].committed
        <5>1. d \in Nat /\ d <= n /\ node'[t].committed = d
          BY <1>7, <1>8, <4>2
        <5> HIDE DEF d, c, n
        <5>2. d <= c
          BY <1>2, <1>3, <1>9, <5>1
        <5>3. QED BY <5>1, <5>2
      <4>3. QED BY <4>1, <4>2
    <3>2. QED BY <3>1
  <2>3. Agrees(y, x, c) /\ c <= c /\ Len(y) \in Nat
    <3> HIDE DEF c, x, y
    <3>1. QED BY <1>3, <1>4, <1>5, <1>6 DEF Agrees
  <2>4. Settled(K, y, c, q.Term)'
    <3> HIDE DEF c, x, y
    <3>1. QED BY <1>1, <1>3, <1>4, <2>3, SettlingNext DEF Settling
  <2> DEFINE z == y k == c
  <2>5. z = y /\ k = c /\ Settled(K, z, k, q.Term)' /\ decided' = z /\ Len(decided') = k
    BY <1>6, <2>1, <2>4
  <2>6. \A a, b : a = z /\ b = k => Settled(K, a, b, q.Term)'
    BY <2>4
  <2> HIDE DEF z, k
  <2>7. Settled(K, decided, Len(decided), q.Term)'
    BY <2>5, <2>6 DEF Settled
  <2>8. decided' \in Seq(Entry) /\ \A t \in Server : node'[t].committed <= Len(decided')
    BY <1>6, <2>1, <2>2
  <2>9. QED BY <1>1, <2>7, <2>8 DEF DecidedInv
<1>10. CASE ~(c > n)
  <2>1. decided' = decided
    BY <1>10 DEF Runs
  <2>2. PICK U \in Nat : Settled(L, decided, n, U)
    BY <1>1 DEF DecidedInv
  <2>3. U <= U
    OBVIOUS
  <2> DEFINE z == decided
  <2>4. n \in Nat /\ z' = z /\ Len(z) = n /\ Settled(L, z, n, U)
    BY <1>2, <2>1, <2>2
  <2> HIDE DEF z, n
  <2>5. \A a, b : a = z /\ b = n => Settled(K, a, b, U)'
    BY <2>3, <2>4, SettledOn
  <2>6. Settled(K, decided, Len(decided), U)'
    BY <2>4, <2>5 DEF Settled, z
  <2>7. \A t \in Server : node'[t].committed <= n
    <3>1. ASSUME NEW t \in Server PROVE node'[t].committed <= n
      <4>1. CASE t = s
        BY <1>2, <1>3, <1>7, <1>10, <4>1
      <4>2. CASE t # s
        BY <1>7, <1>8, <4>2
      <4>3. QED BY <4>1, <4>2
    <3>2. QED BY <3>1
  <2>8. decided' \in Seq(Entry) /\ \A t \in Server : node'[t].committed <= Len(decided')
    BY <1>1, <2>1, <2>7 DEF n
  <2>9. QED BY <2>6, <2>8 DEF DecidedInv
<1>11. QED BY <1>9, <1>10

\* Every step keeps the invariant.
LEMMA RunsSafe ==
    ASSUME NEW L, NEW s, NEW q, Before(L, s, q), Runs(L, s, q)
    PROVE  Logs(L, q) \in [Nat -> Seq(Entry)] /\ Safe(Logs(L, q))'
<1> DEFINE K == Logs(L, q)
<1>1. Digest(L, K, s, q)
  BY RunsDigest
<1> HIDE DEF K
<1>2. LogsInv(K)'
  BY <1>1, LogsOn
<1>3. ASSUME NEW t \in Server PROVE NodeInv(K, t)'
  <2>1. CASE t = s
    <3>1. NodeInv(K, s)'
      BY <1>1, NodeOn
    <3>2. QED BY <2>1, <3>1
  <2>2. CASE t # s
    BY <1>1, <2>2, OthersOn
  <2>3. QED BY <2>1, <2>2
<1>4. ASSUME NEW m \in net' PROVE MsgInv(K, m)'
  <2>1. m \in net \/ (m \in q.msgs /\ m.type # "MsgProp")
    BY <1>1 DEF Digest
  <2>2. QED BY <1>1, <2>1, OldMessage, NewMessage
<1>5. \A v \in Server : \A T, i \in Nat : AckInv(K, v, T, i)'
  BY <1>1, AckOn
<1>6. \A T, U, i \in Nat : HeldInv(K, T, U, i)'
  BY <1>1, HeldOn
<1>7. \A m \in net' : \A T, i \in Nat : VoteInv(K, m, T, i)'
  BY <1>1, VoteOn
<1>8. DecidedInv(K)'
  BY <1>1, DecidedOn
<1>9. Safe(K)'
  BY <1>2, <1>3, <1>4, <1>5, <1>6, <1>7, <1>8 DEF Safe
<1>10. K \in [Nat -> Seq(Entry)]
  BY <1>1 DEF Digest
<1>11. QED BY <1>9, <1>10 DEF K

-----------------------------------------------------------------------------
\* Every action is such a step

\* More messages may be answered than are.
LEMMA QuietVotes ==
    ASSUME NEW r, NEW q, NEW A, NEW N, NEW M, Quiet(r, q, A, N),
           \A m \in N : m.type = "MsgVote" => m \in M
    PROVE  Quiet(r, q, A, M)
<1>1. CASE Idle(r, q, N)
  <2>1. \A n : Votes(n, q, N) => Votes(n, q, M)
    BY DEF Votes
  <2>2. QED BY <1>1, <2>1 DEF Idle, Quiet
<1>2. CASE ~Idle(r, q, N)
  BY <1>2 DEF Quiet
<1>3. QED BY <1>1, <1>2

\* Between two steps a node is steady,
LEMMA SafeSteady ==
    ASSUME NEW L, Safe(L), Elections, NEW s \in Server
    PROVE  Steady(node[s], Acks(s))
<1> DEFINE r == node[s]
           x == r.log
<1>1. NodeInv(L, s) /\ node[s].id = s
  BY DEF Safe, Elections
<1>2. ASSUME r.Term = 0 PROVE Len(x) = 0
  <2>1. x \in Seq(Entry) /\ Matches(x, L) /\ \A i \in 1..Len(x) : x[i].term <= 0
    BY <1>1, <1>2 DEF NodeInv, Typed
  <2> HIDE DEF x
  <2>2. Len(x) \in Nat
    BY <2>1, LenProperties
  <2>3. SUFFICES ASSUME Len(x) # 0 PROVE FALSE
    OBVIOUS
  <2>4. 1 \in 1..Len(x)
    BY <2>2, <2>3
  <2>5. x[1] \in Entry
    BY <2>1, <2>4, ElementOfSeq
  <2>6. x[1].term \in Nat
    BY <2>5 DEF Entry
  <2>7. x[1].term # 0 /\ x[1].term <= 0
    BY <2>1, <2>4 DEF Matches
  <2>8. QED BY <2>6, <2>7
<1>3. r.state \in {Candidate, Leader} => r.Vote = r.id
  BY DEF Elections
<1>4. QED BY <1>1, <1>2, <1>3 DEF Steady, NodeInv

\* and every message says what it may rely on.
LEMMA SafeOffers ==
    ASSUME NEW L, Safe(L), Elections, NEW m \in net
    PROVE  m.to \in Server /\ Offers(m, node[m.to], Acks(m.to), L[m.term])
<1> DEFINE s == m.to
           r == node[s]
           x == r.log
           T == m.term
           l == L[T]
           c == r.committed
<1>1. MsgInv(L, m)
  BY DEF Safe
<1>2. /\ m \in Message /\ m.from # s /\ s \in Server /\ m.from \in Server /\ T \in Nat
      /\ m.index \in Nat /\ m.rejectHint \in Nat /\ m.commit \in Nat
      /\ m.type \in {"MsgVote", "MsgPreVote", "MsgAppResp", "MsgApp", "MsgHeartbeat"} => T # 0
  BY <1>1 DEF MsgInv, Message
<1>3. NodeInv(L, s) /\ r.id = s /\ Typed(r) /\ r.Term \in Nat /\ r.committed \in Nat
      /\ x \in Seq(Entry)
  BY <1>2 DEF Safe, Elections, NodeInv, Typed, Raft
<1>4. LogsInv(L) /\ L \in [Nat -> Seq(Entry)] /\ l \in Seq(Entry) /\ Matches(l, L)
  BY <1>2 DEF Safe, LogsInv
<1>5. ASSUME m.type = "MsgAppResp", r.state = Leader, T = r.Term PROVE Answers(m, r, Acks(s))
  <2>1. ASSUME Ack(m) PROVE <<m.from, m.index>> \in Acks(s) /\ m.index <= Len(x)
    <3>1. m.index >= m.index
      BY <1>2
    <3>2. Got(m.from, T, m.index)
      BY <2>1, <3>1 DEF Got
    <3>3. <<m.from, m.index>> \in Acks(s)
      BY <1>2, <1>5, <3>2 DEF Acks
    <3>4. m.index <= Len(l)
      BY <1>2, <3>2 DEF Safe, AckInv, Acked
    <3>5. x = l
      BY <1>3, <1>5 DEF NodeInv
    <3>6. QED BY <3>3, <3>4, <3>5
  <2>2. QED BY <1>2, <1>3, <2>1 DEF Answers
<1>6. ASSUME m.type \in {"MsgApp", "MsgHeartbeat"}, T >= r.Term PROVE Backs(m, r, l)
  <2>1. \A i \in 1..Len(l) : l[i].term # 0
    BY <1>4 DEF Matches
  <2>2. Akin(x, l)
    BY <1>3, <1>4, MatchesAkin DEF NodeInv
  <2>3. Agrees(x, l, c)
    <3>1. c \in Nat /\ Settled(L, x, c, r.Term) /\ Len(x) \in Nat /\ Len(l) \in Nat
      BY <1>3, <1>4, LenProperties DEF NodeInv
    <3>2. CASE c = 0
      <4> HIDE DEF c, x, l
      <4>1. QED BY <3>1, <3>2 DEF Agrees
    <3>3. CASE c # 0
      <4>1. PICK U \in Nat, j \in Nat : /\ U <= r.Term /\ c <= j /\ Own(L, U, j) /\ Chosen(L, U, j)
                                        /\ Agrees(x, L[U], c)
        BY <3>1, <3>3 DEF Settled
      <4>2. U <= T
        <5>1. U \in Nat /\ r.Term \in Nat /\ T \in Nat /\ U <= r.Term /\ T >= r.Term
          BY <1>2, <1>3, <1>6, <4>1
        <5> HIDE DEF T, r
        <5>2. QED BY <5>1
      <4>3. Elected(T)
        BY <1>1, <1>2, <1>6 DEF MsgInv, Elected
      <4>4. Agrees(l, L[U], j)
        BY <1>2, <4>1, <4>2, <4>3, ChosenIsHeld
      <4> DEFINE y == L[U]
      <4>5. Agrees(l, y, j) /\ Agrees(x, y, c) /\ c <= j /\ Len(y) \in Nat
        BY <1>4, <4>1, <4>4, LenProperties
      <4> HIDE DEF l, x, c, y
      <4>6. Agrees(l, y, c)
        BY <3>1, <4>5, AgreesLess
      <4>7. QED BY <4>5, <4>6 DEF Agrees
    <3>4. QED BY <3>2, <3>3
  <2>4. m.type = "MsgApp" => Carries(m, l)
    BY <1>1 DEF MsgInv
  <2>5. ASSUME m.type = "MsgHeartbeat", m.commit # 0 PROVE Agrees(x, l, m.commit)
    <3>1. Got(s, T, m.commit)
      BY <1>1, <2>5 DEF MsgInv
    <3>2. r.Term >= T /\ (r.Term = T => Agrees(x, l, m.commit))
      BY <1>2, <3>1 DEF Safe, AckInv, Acked
    <3>3. r.Term = T
      BY <1>2, <1>3, <1>6, <3>2
    <3>4. QED BY <3>2, <3>3
  <2>6. QED BY <1>4, <2>1, <2>2, <2>3, <2>4, <2>5 DEF Backs
<1>7. ASSUME m.type = "MsgTransferLeader", T = r.Term, r.state = Follower PROVE r.lead = None
  <2>1. <<T, s>> \in leaders
    BY <1>1, <1>7 DEF MsgInv
  <2>2. r.lead # None => r.lead # s /\ <<T, r.lead>> \in leaders
    BY <1>3, <1>7 DEF NodeInv
  <2>3. QED BY <2>1, <2>2 DEF Elections
<1>8. QED BY <1>2, <1>3, <1>5, <1>6, <1>7 DEF Offers

\* Proposals under way are such messages.
PropsInv == \A m \in props : m \in Message /\ Len(m.entries) = 1

\* s becomes q, and only a proposal that a client or another node handed to it makes
\* payloads change their place: it is dropped, passed on or appended.
Feeds(s, q) ==
    \/ /\ UNCHANGED <<props, proposed, dropped>>
       /\ q.state = Leader /\ q.log # node[s].log => Blank(q)
    \/ \E v \in Value :
        /\ Hands(node[s], q, v) /\ v \notin proposed
        /\ proposed' = proposed \cup {v}
        /\ dropped' = IF dropsProposal(node[s]) THEN dropped \cup {v} ELSE dropped
        /\ props' = props \cup Forwarded(q)
    \/ \E m \in props :
        /\ Hands(node[s], q, m.entries[1].data)
        /\ UNCHANGED <<proposed, dropped>>
        /\ props' = (props \ {m}) \cup Forwarded(q)

\* Node s becomes q, and hands its proposals on.
Goes(L, s, q) ==
    /\ Runs(L, s, q) /\ Feeds(s, q)
    /\ \A m \in props' : m \in props \/ (m \in q.msgs /\ m.type = "MsgProp")

\* A step without a proposal appends data to no leader's log.
LEMMA QuietBlank ==
    ASSUME NEW r, NEW q, NEW A, NEW N, Quiet(r, q, A, N), q.state = Leader, q.log # r.log
    PROVE  Blank(q)
BY DEF Quiet, Idle, Rises

\* A node that says nothing.
LEMMA SilentRuns ==
    ASSUME NEW L, Safe(L), NEW s \in Server, NEW q, Typed(q), q.msgs = {}, q.state # Leader,
           q.committed <= node[s].committed, node' = [node EXCEPT ![s] = q], net' = net,
           leaders' = leaders, decided' = decided, Quiet(node[s], q, Acks(s), net)
    PROVE  Runs(L, s, q)
<1>1. Shaped(q, RaftFields)
  BY DEF Typed, Raft
<1>2. node' = [node EXCEPT ![s] = [q EXCEPT !.msgs = {}]]
  BY <1>1, Drained
<1>3. ~(q.committed > Len(decided))
  <2> DEFINE c == q.committed d == node[s].committed n == Len(decided)
  <2>1. c \in Nat /\ d \in Nat /\ c <= d
    BY DEF Typed, Safe, NodeInv
  <2>2. d <= n /\ decided \in Seq(Entry)
    BY DEF Safe, DecidedInv
  <2>3. n \in Nat
    BY <2>2, LenProperties
  <2> HIDE DEF c, d, n
  <2>4. ~(c > n)
    BY <2>1, <2>2, <2>3
  <2>5. QED BY <2>4 DEF c, n
<1>4. net' = net \cup {m \in q.msgs : m.type # "MsgProp"}
  OBVIOUS
<1>5. QED BY <1>2, <1>3, <1>4 DEF Runs

\* Every action of the cluster is a step of one node.
LEMMA NextRuns ==
    ASSUME NEW L, Safe(L), Elections, PropsInv, Next
    PROVE  \E s \in Server : \E q : Goes(L, s, q)
<1> DEFINE A(s) == Acks(s)
<1>1. ASSUME NEW s \in Server PROVE Steady(node[s], Acks(s)) /\ node[s].id = s /\ Typed(node[s])
  BY SafeSteady DEF Elections, Steady
<1>2. ASSUME NEW s \in Server, NEW q, Becomes(s, q), Quiet(node[s], q, Acks(s), net),
             UNCHANGED <<props, proposed, dropped>>
      PROVE  \E t \in Server : \E p : Goes(L, t, p)
  <2>1. Runs(L, s, q)
    BY <1>2 DEF Runs, Becomes
  <2>2. q.state = Leader /\ q.log # node[s].log => Blank(q)
    BY <1>2, QuietBlank
  <2>3. QED BY <1>2, <2>1, <2>2 DEF Goes, Feeds
<1>3. ASSUME NEW s \in Server, Timeout(s) PROVE \E t \in Server : \E p : Goes(L, t, p)
  <2> DEFINE q == hup(node[s]) N == {}
  <2>1. Quiet(node[s], q, Acks(s), N) /\ Becomes(s, q) /\ UNCHANGED <<props, proposed, dropped>>
    BY <1>1, <1>3, HupQuiet DEF Timeout
  <2>2. \A m \in N : m.type = "MsgVote" => m \in net
    OBVIOUS
  <2> HIDE DEF q, N
  <2>3. Quiet(node[s], q, Acks(s), net)
    BY <2>1, <2>2, QuietVotes
  <2>4. QED BY <1>2, <2>1, <2>3
<1>4. ASSUME NEW s \in Server, Elapse(s) PROVE \E t \in Server : \E p : Goes(L, t, p)
  <2> DEFINE q == [node[s] EXCEPT !.elapsed = TRUE]
  <2>1. /\ node' = [node EXCEPT ![s] = q] /\ net' = net /\ leaders' = leaders
        /\ decided' = decided /\ node[s].state = Follower /\ UNCHANGED <<props, proposed, dropped>>
    BY <1>4 DEF Elapse
  <2>2. Quiet(node[s], q, Acks(s), net)
    BY <1>1, <2>1, ElapseQuiet
  <2>3. Shaped(node[s], RaftFields) /\ node[s].msgs = {} /\ node[s].committed \in Nat
    BY <1>1 DEF Typed, Raft, Steady
  <2>4. q.state = Follower /\ q.msgs = {} /\ q.committed = node[s].committed
    BY <2>1, <2>3 DEF Shaped, RaftFields
  <2> HIDE DEF q
  <2>5. q.state # Leader /\ q.committed <= node[s].committed
    BY <2>3, <2>4 DEF Leader, Follower
  <2>6. Typed(q)
    BY <2>2, <2>5 DEF Quiet, Idle, Rises, Leads, Leading
  <2>7. Runs(L, s, q)
    BY <2>1, <2>2, <2>4, <2>5, <2>6, SilentRuns
  <2>8. QED BY <2>1, <2>5, <2>7 DEF Goes, Feeds
<1>5. ASSUME NEW s \in Server, Beat(s) PROVE \E t \in Server : \E p : Goes(L, t, p)
  <2> DEFINE q == bcastHeartbeat(node[s])
  <2>1. Quiet(node[s], q, Acks(s), net) /\ Becomes(s, q) /\ UNCHANGED <<props, proposed, dropped>>
    BY <1>1, <1>5, BeatQuiet DEF Beat
  <2> HIDE DEF q
  <2>2. QED BY <1>2, <2>1
<1>6. ASSUME NEW s \in Server, ElectionTick(s) PROVE \E t \in Server : \E p : Goes(L, t, p)
  <2> DEFINE q == abortLeaderTransfer(IF CheckQuorum THEN leaderCheckQuorum(node[s]) ELSE node[s])
  <2>1. Becomes(s, q) /\ UNCHANGED <<props, proposed, dropped>> /\ node[s].state = Leader
    BY <1>6 DEF ElectionTick
  <2>2. Quiet(node[s], q, Acks(s), net)
    BY <1>1, <2>1, TickQuiet
  <2> HIDE DEF q
  <2>3. QED BY <1>2, <2>1, <2>2
<1>7. ASSUME NEW s \in Server, Probe(s) PROVE \E t \in Server : \E p : Goes(L, t, p)
  <2> DEFINE q == bcastProbeRtt(node[s])
  <2>1. Quiet(node[s], q, Acks(s), net) /\ Becomes(s, q) /\ UNCHANGED <<props, proposed, dropped>>
    BY <1>1, <1>7, ProbeQuiet DEF Probe
  <2> HIDE DEF q
  <2>2. QED BY <1>2, <2>1
<1>8. ASSUME NEW s \in Server, NEW i \in Server, Unreachable(s, i)
      PROVE  \E t \in Server : \E p : Goes(L, t, p)
  <2> DEFINE q == leaderUnreachable(node[s], i)
  <2>1. Becomes(s, q) /\ UNCHANGED <<props, proposed, dropped>> /\ node[s].state = Leader
    BY <1>8 DEF Unreachable
  <2>2. Quiet(node[s], q, Acks(s), net)
    BY <1>1, <2>1, UnreachableQuiet
  <2> HIDE DEF q
  <2>3. QED BY <1>2, <2>1, <2>2
<1>9. ASSUME NEW s \in Server, NEW i \in Server, Transfer(s, i)
      PROVE  \E t \in Server : \E p : Goes(L, t, p)
  <2> DEFINE q == transfer(node[s], i)
  <2>1. Becomes(s, q) /\ UNCHANGED <<props, proposed, dropped>>
    BY <1>9 DEF Transfer
  <2>2. PICK N : Quiet(node[s], q, Acks(s), N) /\ \A m \in N : m.type = "MsgTransferLeader"
    BY <1>1, TransferQuiet
  <2> HIDE DEF q
  <2>3. \A m \in N : m.type = "MsgVote" => m \in net
    BY <2>2
  <2>4. Quiet(node[s], q, Acks(s), net)
    BY <2>2, <2>3, QuietVotes
  <2>5. QED BY <1>2, <2>1, <2>4
<1>10. ASSUME NEW s \in Server, NEW v \in Value, Propose(s, v)
       PROVE  \E t \in Server : \E p : Goes(L, t, p)
  <2> DEFINE q == propose(node[s], v)
  <2>1. /\ Becomes(s, q) /\ v \notin proposed
        /\ proposed' = proposed \cup {v}
        /\ dropped' = IF dropsProposal(node[s]) THEN dropped \cup {v} ELSE dropped
        /\ props' = props \cup Forwarded(q)
    BY <1>10 DEF Propose
  <2>2. /\ Quiet(node[s], q, Acks(s), net) \/ Appends(node[s], q, Acks(s))
        /\ Hands(node[s], q, v)
    BY <1>1, ProposeQuiet
  <2> HIDE DEF q
  <2>3. Runs(L, s, q) /\ Feeds(s, q)
    BY <2>1, <2>2 DEF Runs, Becomes, Feeds
  <2>4. QED BY <2>1, <2>3 DEF Goes, Forwarded
<1>11. ASSUME NEW m \in net, Receive(m) PROVE \E t \in Server : \E p : Goes(L, t, p)
  <2> DEFINE s == m.to
             q == Step(node[s], m)
             N == {m}
  <2>1. s \in Server /\ Offers(m, node[s], Acks(s), L[m.term])
    BY SafeOffers
  <2>2. Becomes(s, q) /\ UNCHANGED <<props, proposed, dropped>>
    BY <1>11 DEF Receive
  <2>3. Steady(node[s], Acks(s))
    BY <1>1, <2>1
  <2>4. \/ Quiet(node[s], q, Acks(s), N)
        \/ /\ m.type \in {"MsgApp", "MsgHeartbeat"} /\ m.term >= node[s].Term
           /\ Follows(node[s], q, m, L[m.term])
    BY <2>1, <2>3, StepQuiet
  <2> HIDE DEF q
  <2>5. CASE Quiet(node[s], q, Acks(s), N)
    <3>1. \A n \in N : n.type = "MsgVote" => n \in net
      OBVIOUS
    <3> HIDE DEF N
    <3>2. Quiet(node[s], q, Acks(s), net)
      BY <2>5, <3>1, QuietVotes
    <3>3. QED BY <1>2, <2>1, <2>2, <3>2
  <2>6. CASE /\ m.type \in {"MsgApp", "MsgHeartbeat"} /\ m.term >= node[s].Term
             /\ Follows(node[s], q, m, L[m.term])
    <3>1. Backs(m, node[s], L[m.term])
      BY <2>1, <2>6 DEF Offers
    <3>2. Takes(L, s, q, m)
      BY <2>6, <3>1 DEF Takes
    <3>3. Runs(L, s, q)
      BY <2>2, <3>2 DEF Runs, Becomes
    <3>4. q.state # Leader
      BY <2>6 DEF Follows, Follower, Leader
    <3>5. QED BY <2>1, <2>2, <3>3, <3>4 DEF Goes, Feeds
  <2>7. QED BY <2>4, <2>5, <2>6
<1>12. ASSUME NEW m \in props, ReceiveProp(m) PROVE \E t \in Server : \E p : Goes(L, t, p)
  <2> DEFINE s == m.to
             data == m.entries[1].data
             q == propose(node[s], data)
  <2>1. s \in Server /\ data \in Value \cup {None}
    <3>1. m \in Message /\ Len(m.entries) = 1
      BY DEF PropsInv
    <3>2. s \in Server /\ m.entries \in Seq(Entry) /\ 1 \in 1..Len(m.entries)
      BY <3>1 DEF Message
    <3>3. m.entries[1] \in Entry
      BY <3>2, ElementOfSeq
    <3>4. QED BY <3>2, <3>3 DEF Entry
  <2>2. /\ Becomes(s, q) /\ UNCHANGED <<proposed, dropped>>
        /\ props' = (props \ {m}) \cup Forwarded(q)
    BY <1>12 DEF ReceiveProp
  <2> HIDE DEF data
  <2>3. /\ Quiet(node[s], q, Acks(s), net) \/ Appends(node[s], q, Acks(s))
        /\ Hands(node[s], q, data)
    BY <1>1, <2>1, ProposeQuiet
  <2> HIDE DEF q
  <2>4. Runs(L, s, q)
    BY <2>2, <2>3 DEF Runs, Becomes
  <2>5. Feeds(s, q)
    BY <2>2, <2>3 DEF Feeds, data
  <2>6. QED BY <2>1, <2>2, <2>4, <2>5 DEF Goes, Forwarded
<1>13. ASSUME NEW s \in Server, Restart(s) PROVE \E t \in Server : \E p : Goes(L, t, p)
  <2>1. PICK c \in 0..node[s].committed :
            node' = [node EXCEPT ![s] = newRaft(s, node[s].Term, node[s].Vote, node[s].log, c)]
    BY <1>13 DEF Restart
  <2> DEFINE q == newRaft(s, node[s].Term, node[s].Vote, node[s].log, c)
  <2>2. /\ net' = net /\ leaders' = leaders /\ decided' = decided
        /\ UNCHANGED <<props, proposed, dropped>>
    BY <1>13 DEF Restart
  <2>3. Quiet(node[s], q, Acks(s), net) /\ q.msgs = {}
    BY <1>1, RestartQuiet
  <2>4. q.state = Follower /\ q.committed = c
    BY DEF newRaft
  <2> HIDE DEF q
  <2>5. q.state # Leader /\ q.committed <= node[s].committed
    <3>1. c <= node[s].committed
      BY <1>1 DEF Typed
    <3>2. QED BY <2>4, <3>1 DEF Leader, Follower
  <2>6. Typed(q)
    BY <2>3, <2>5 DEF Quiet, Idle, Rises, Leads, Leading
  <2>7. node' = [node EXCEPT ![s] = q]
    BY <2>1 DEF q
  <2>8. Runs(L, s, q)
    BY <2>2, <2>3, <2>5, <2>6, <2>7, SilentRuns
  <2>9. QED BY <2>2, <2>5, <2>8 DEF Goes, Feeds
<1>14. QED
  BY <1>3, <1>4, <1>5, <1>6, <1>7, <1>8, <1>9, <1>10, <1>11, <1>12, <1>13 DEF Next

-----------------------------------------------------------------------------
\* Where payloads are

Payload(m) == m.entries[1].data

\* The leader of T was given the payload of its i-th entry.
Carried(L, T, i) == Own(L, T, i) /\ L[T][i].data # None

\* A payload that was not dropped is in one place: with its proposer, under way, or in
\* the log of one leader, once.
PayloadInv(L) ==
    /\ proposed \subseteq Value /\ dropped \subseteq proposed
    /\ \A m \in props : Payload(m) \in proposed \ dropped
    /\ \A m, n \in props : Payload(m) = Payload(n) => m = n
    /\ \A T, i \in Nat : Carried(L, T, i) =>
            /\ L[T][i].data \in proposed \ dropped
            /\ \A m \in props : Payload(m) # L[T][i].data
    /\ \A T, U, i, j \in Nat :
            Carried(L, T, i) /\ Carried(L, U, j) /\ L[T][i].data = L[U][j].data => T = U /\ i = j

\* The entry that s has just appended.
Fresh(K, s, q, T, i) ==
    /\ T = q.Term /\ i = Len(q.log) /\ K[T][i] = q.log[i]
    /\ q.state = Leader /\ q.log # node[s].log

\* No other entry comes to the logs of the leaders.
LEMMA OwnFrom ==
    ASSUME NEW L, NEW K, NEW s, NEW q, Before(L, s, q), Digest(L, K, s, q),
           NEW T \in Nat, NEW i \in Nat, Own(K, T, i)
    PROVE  (Own(L, T, i) /\ K[T][i] = L[T][i]) \/ Fresh(K, s, q, T, i)
<1>1. CASE Own(L, T, i)
  <2>1. i \in 1..Len(L[T])
    BY <1>1 DEF Own
  <2>2. K[T][i] = L[T][i]
    BY <2>1, OwnOn
  <2>3. QED BY <1>1, <2>2
<1>2. CASE ~Own(L, T, i)
  <2> DEFINE x == node[s].log y == q.log z == L[T]
  <2>1. K[T] # L[T]
    BY <1>2 DEF Own
  <2>2. T = q.Term /\ q.state = Leader /\ K[T] = y
    BY <2>1 DEF Digest
  <2>3. Heads(s, q)
    BY <2>2 DEF Digest, Idle, Takes, Follows, Leader, Follower
  <2>4. /\ x \in Seq(Entry) /\ Len(x) \in Nat /\ y \in Seq(Entry) /\ Len(y) \in Nat
        /\ Matches(x, L)
    BY LenProperties DEF Before, Safe, NodeInv, Typed, Digest
  <2>5. i \in 1..Len(y) /\ y[i].term = T
    BY <2>2 DEF Own
  <2>6. y = x \/ \E e \in Entry : y = Append(x, e)
    BY <2>3 DEF Heads, Leads
  <2>7. /\ \A k \in 1..Len(x) : y[k] = x[k]
        /\ y = x \/ Len(y) = Len(x) + 1
    BY <2>4, <2>6, AppendFacts
  <2>8. i \notin 1..Len(x)
    <3>1. SUFFICES ASSUME i \in 1..Len(x) PROVE FALSE
      OBVIOUS
    <3>2. x[i].term = T
      BY <2>5, <2>7, <3>1
    <3>3. Agrees(x, z, i)
      BY <2>4, <3>1, <3>2 DEF Matches
    <3>4. Len(z) \in Nat
      BY OwnOn
    <3>5. i \in 1..Len(z) /\ z[i] = x[i]
      <4> HIDE DEF x, z
      <4>1. QED BY <2>4, <3>1, <3>3, <3>4 DEF Agrees
    <3>6. QED BY <1>2, <3>2, <3>5 DEF Own
  <2>9. y # x /\ i = Len(y)
    <3> HIDE DEF x, y
    <3>1. QED BY <2>4, <2>5, <2>7, <2>8
  <2>10. QED BY <2>2, <2>9 DEF Fresh
<1>3. QED BY <1>1, <1>2

\* No step duplicates a payload, or brings back what was dropped.
LEMMA PayloadsOn ==
    ASSUME NEW L, NEW s, NEW q, Before(L, s, q), Goes(L, s, q), PayloadInv(L)
    PROVE  PayloadInv(Logs(L, q))'
<1> DEFINE K == Logs(L, q)
           r == node[s]
<1>1. Digest(L, K, s, q) /\ Feeds(s, q)
  BY RunsDigest DEF Goes
<1> HIDE DEF K
<1>2. \A T, i \in Nat : Carried(K, T, i) =>
            (Carried(L, T, i) /\ K[T][i] = L[T][i]) \/ Fresh(K, s, q, T, i)
  BY <1>1, OwnFrom DEF Carried
<1>3. ASSUME UNCHANGED <<props, proposed, dropped>>,
             q.state = Leader /\ q.log # r.log => Blank(q)
      PROVE  PayloadInv(K)'
  <2>1. \A T, i \in Nat : Carried(K, T, i) => Carried(L, T, i) /\ K[T][i] = L[T][i]
    BY <1>2, <1>3 DEF Fresh, Blank, Carried
  <2>2. props' = props /\ proposed' = proposed /\ dropped' = dropped
    BY <1>3
  <2>3. \A T, U, i, j \in Nat :
            Carried(K, T, i) /\ Carried(K, U, j) /\ K[T][i].data = K[U][j].data => T = U /\ i = j
    BY <2>1 DEF PayloadInv
  <2>4. \A T, i \in Nat : Carried(K, T, i) =>
            /\ K[T][i].data \in proposed \ dropped
            /\ \A m \in props : Payload(m) # K[T][i].data
    BY <2>1 DEF PayloadInv
  <2>5. /\ proposed' \subseteq Value /\ dropped' \subseteq proposed'
        /\ \A m \in props' : Payload(m) \in proposed' \ dropped'
        /\ \A m, n \in props' : Payload(m) = Payload(n) => m = n
    BY <2>2 DEF PayloadInv
  <2>6. \A T, i \in Nat : Carried(K, T, i) =>
            /\ K[T][i].data \in proposed' \ dropped'
            /\ \A m \in props' : Payload(m) # K[T][i].data
    BY <2>2, <2>4
  <2>7. QED BY <2>3, <2>5, <2>6 DEF PayloadInv
\* v gets a new place, where nothing else has it.
<1>4. ASSUME NEW v \in Value, NEW rest, Hands(r, q, v), rest \subseteq props,
             props' = rest \cup Forwarded(q), proposed' = proposed \cup {v},
             dropped' = dropped \/ (dropsProposal(r) /\ dropped' = dropped \cup {v}),
             v \notin dropped, \A m \in rest : Payload(m) # v,
             \A T, i \in Nat : Carried(L, T, i) => L[T][i].data # v
      PROVE  PayloadInv(K)'
  <2>1. r.msgs = {} /\ r.log \in Seq(Entry)
    BY DEF Before, Safe, NodeInv, Typed
  <2>2. CASE dropsProposal(r) /\ q = r
    <3>1. Forwarded(q) = {}
      BY <2>1, <2>2 DEF Forwarded
    <3>2. \A T, i \in Nat : Carried(K, T, i) => Carried(L, T, i) /\ K[T][i] = L[T][i]
      BY <1>2, <2>2 DEF Fresh
    <3>3. QED BY <1>4, <3>1, <3>2 DEF PayloadInv
  <2>3. CASE /\ ~dropsProposal(r) /\ q.log = r.log
             /\ \A m, n \in Forwarded(q) : m = n /\ Payload(m) = v
    <3>1. \A T, i \in Nat : Carried(K, T, i) => Carried(L, T, i) /\ K[T][i] = L[T][i]
      BY <1>2, <2>3 DEF Fresh
    <3>2. \A m \in props' : m \in rest \/ (m \in Forwarded(q) /\ Payload(m) = v)
      BY <1>4, <2>3
    <3>3. dropped' = dropped
      BY <1>4, <2>3
    <3>4. \A m, n \in props' : Payload(m) = Payload(n) => m = n
      BY <1>4, <2>3, <3>2 DEF PayloadInv
    <3>5. \A m \in props' : Payload(m) \in proposed' \ dropped'
      BY <1>4, <3>2, <3>3 DEF PayloadInv
    <3>6. \A T, i \in Nat : Carried(K, T, i) =>
            /\ K[T][i].data \in proposed' \ dropped'
            /\ \A m \in props' : Payload(m) # K[T][i].data
      BY <1>4, <3>1, <3>2, <3>3 DEF PayloadInv
    <3>7. QED BY <1>4, <3>1, <3>4, <3>5, <3>6 DEF PayloadInv
  <2>4. CASE /\ ~dropsProposal(r) /\ Forwarded(q) = {}
             /\ q.log = Append(r.log, [term |-> q.Term, data |-> v])
    <3>1. q.log[Len(q.log)].data = v
      <4> DEFINE x == r.log e == [term |-> q.Term, data |-> v]
      <4>1. x \in Seq(Entry) /\ e \in Entry /\ e.data = v
        BY <2>1 DEF Entry, Before
      <4> HIDE DEF x, e
      <4>2. Append(x, e)[Len(Append(x, e))] = e
        BY <4>1, AppendFacts
      <4>3. QED BY <2>4, <4>1, <4>2 DEF x, e
    <3>2. \A T, i \in Nat : Carried(K, T, i) =>
            \/ Carried(L, T, i) /\ K[T][i] = L[T][i] /\ K[T][i].data # v
            \/ T = q.Term /\ i = Len(q.log) /\ K[T][i].data = v
      BY <1>2, <1>4, <3>1 DEF Fresh
    <3>3. dropped' = dropped /\ props' = rest
      BY <1>4, <2>4
    <3>4. \A T, i \in Nat : Carried(K, T, i) =>
            /\ K[T][i].data \in proposed' \ dropped'
            /\ \A m \in props' : Payload(m) # K[T][i].data
      BY <1>4, <3>2, <3>3 DEF PayloadInv
    <3>5. ASSUME NEW T \in Nat, NEW U \in Nat, NEW i \in Nat, NEW j \in Nat,
                 Carried(K, T, i), Carried(K, U, j), K[T][i].data = K[U][j].data
          PROVE  T = U /\ i = j
      BY <3>2, <3>5 DEF PayloadInv
    <3>6. QED BY <1>4, <3>3, <3>4, <3>5 DEF PayloadInv
  <2>5. QED BY <1>4, <2>2, <2>3, <2>4 DEF Hands, Payload
<1>5. ASSUME NEW v \in Value, Hands(r, q, v), v \notin proposed,
             proposed' = proposed \cup {v}, props' = props \cup Forwarded(q),
             dropped' = IF dropsProposal(r) THEN dropped \cup {v} ELSE dropped
      PROVE  PayloadInv(K)'
  <2>1. \A m \in props : Payload(m) # v
    BY <1>5 DEF PayloadInv
  <2>2. \A T, i \in Nat : Carried(L, T, i) => L[T][i].data # v
    BY <1>5 DEF PayloadInv
  <2>3. v \notin dropped
    BY <1>5 DEF PayloadInv
  <2>4. QED BY <1>4, <1>5, <2>1, <2>2, <2>3
<1>6. ASSUME NEW m \in props, Hands(r, q, Payload(m)), UNCHANGED <<proposed, dropped>>,
             props' = (props \ {m}) \cup Forwarded(q)
      PROVE  PayloadInv(K)'
  <2> DEFINE v == Payload(m) rest == props \ {m}
  <2>1. v \in proposed /\ v \in Value /\ v \notin dropped
    BY DEF PayloadInv
  <2>2. rest \subseteq props /\ props' = rest \cup Forwarded(q) /\ proposed' = proposed \cup {v}
    BY <1>6, <2>1
  <2>3. \A n \in rest : Payload(n) # v
    BY DEF PayloadInv
  <2>4. \A T, i \in Nat : Carried(L, T, i) => L[T][i].data # v
    BY DEF PayloadInv
  <2>5. Hands(r, q, v) /\ dropped' = dropped
    BY <1>6
  <2> HIDE DEF v, rest
  <2>6. QED BY <1>4, <2>1, <2>2, <2>3, <2>4, <2>5
<1>7. QED BY <1>1, <1>3, <1>5, <1>6 DEF Feeds, Payload, K

-----------------------------------------------------------------------------
\* The invariant holds in every reachable state

\* The inductive invariant: there are logs that the leaders had.
SafetyInv == PropsInv /\ \E L \in [Nat -> Seq(Entry)] : Safe(L) /\ PayloadInv(L)

\* A cluster of nodes that have just been started.
LEMMA InitSafe == Init => SafetyInv
<1> SUFFICES ASSUME Init PROVE SafetyInv
  OBVIOUS
<1> DEFINE L == [T \in Nat |-> <<>>]
<1>0. <<>> \in Seq(Entry) /\ Len(<<>>) = 0
  BY EmptySeq
<1>1. L \in [Nat -> Seq(Entry)] /\ \A T \in Nat : L[T] = <<>>
  BY <1>0
<1> HIDE DEF L
<1>2. net = {} /\ props = {} /\ leaders = {} /\ decided = <<>>
  BY DEF Init
<1>3. \A T : ~Elected(T)
  BY <1>2 DEF Elected
<1>4. \A v, T : \A i : ~Acked(L, v, T, i)
  BY <1>2 DEF Acked, Got
<1>5. \A T \in Nat : \A i : ~Own(L, T, i)
  BY <1>0, <1>1 DEF Own
<1>6. LogsInv(L)
  BY <1>0, <1>1, <1>3 DEF LogsInv, Matches
<1>7. ASSUME NEW s \in Server PROVE NodeInv(L, s)
  <2> DEFINE q == newRaft(s, 0, None, <<>>, 0)
  <2>1. node[s] = q
    BY DEF Init
  <2>2. NoProgress \in [Server -> Progress]
    BY DEF NoProgress, NewProgress, Progress, ProgressState
  <2>3. /\ Shaped(q, RaftFields) /\ q.id = s /\ q.Term = 0 /\ q.Vote = None
        /\ q.state = Follower /\ q.lead = None /\ q.leadTransferee = None /\ q.log = <<>>
        /\ q.elapsed = FALSE /\ q.yes = {} /\ q.no = {} /\ q.prs = NoProgress
        /\ q.msgs = {} /\ q.panic = FALSE /\ q.committed = 0
    BY DEF newRaft, Shaped, RaftFields
  <2> HIDE DEF q
  <2>4. q.state \in States /\ q.state # Candidate /\ q.state # Leader
    BY <2>3 DEF States, Follower, Candidate, Leader
  <2>5. Typed(q)
    <3>1. q.id \in Server /\ q.Term \in Nat /\ q.lead \in Server \cup {None}
          /\ q.leadTransferee \in Server \cup {None} /\ q.Vote \in Server \cup {None}
      BY <2>3
    <3>2. Raft(q)
      BY <2>3, <2>4, <3>1 DEF Raft
    <3>3. q.elapsed \in BOOLEAN /\ q.panic \in BOOLEAN
      <4>1. q.elapsed = FALSE /\ q.panic = FALSE
        BY <2>3
      <4>2. QED BY <4>1
    <3>7. q.committed \in Nat
      BY <2>3
    <3>4. q.yes \in SUBSET Server /\ q.no \in SUBSET Server
      BY <2>3
    <3>5. q.log \in Seq(Entry) /\ q.prs \in [Server -> Progress]
      BY <1>0, <2>2, <2>3
    <3>6. QED BY <3>1, <3>2, <3>3, <3>4, <3>5, <3>7 DEF Typed
  <2>6. Settled(L, q.log, q.committed, q.Term)
    BY <2>3 DEF Settled
  <2>7. Matches(q.log, L) /\ \A i \in 1..Len(q.log) : q.log[i].term <= q.Term
    BY <1>0, <2>3 DEF Matches
  <2>8. QED BY <2>1, <2>3, <2>4, <2>5, <2>6, <2>7 DEF NodeInv
<1>8. \A v \in Server : \A T, i \in Nat : AckInv(L, v, T, i)
  BY <1>4 DEF AckInv
<1>9. \A T, U, i \in Nat : HeldInv(L, T, U, i)
  BY <1>3 DEF HeldInv
<1>10. DecidedInv(L)
  <2>1. \A s \in Server : node[s].committed <= Len(decided)
    BY <1>0, <1>2 DEF Init, newRaft
  <2>2. Settled(L, decided, Len(decided), 0)
    BY <1>0, <1>2 DEF Settled
  <2>3. QED BY <1>0, <1>2, <2>1, <2>2 DEF DecidedInv
<1>11. Safe(L)
  BY <1>2, <1>6, <1>7, <1>8, <1>9, <1>10 DEF Safe
<1>12. PayloadInv(L)
  <2>1. proposed = {} /\ dropped = {}
    BY DEF Init
  <2>2. QED BY <1>2, <1>5, <2>1 DEF PayloadInv, Carried
<1>13. QED BY <1>1, <1>2, <1>11, <1>12 DEF SafetyInv, PropsInv

\* Terms only grow.
LEMMA TermsRise ==
    ASSUME ElectionInv, Next, NEW s \in Server
    PROVE  node'[s].Term \in Nat /\ node'[s].Term >= node[s].Term
<1>0. PICK i \in Server : \E q : Moves(i, q)
  BY NextMoves
<1>1. PICK q : Moves(i, q)
  BY <1>0
<1>2. node[s].Term \in Nat /\ node = [x \in Server |-> node[x]] /\ node[i].id = i
  BY DEF ElectionInv, NodesInv, Rested, Raft
<1>3. CASE s # i
  BY <1>1, <1>2, <1>3 DEF Moves
<1>4. CASE s = i
  <2> DEFINE p == [q EXCEPT !.msgs = {}]
  <2>1. Raft(q) /\ q.Term >= node[s].Term
    BY <1>1, <1>4 DEF Moves, Elects
  <2>2. p.Term = q.Term /\ q.Term \in Nat
    BY <2>1 DEF Raft, Shaped, RaftFields
  <2>3. node'[s] = p
    BY <1>1, <1>2, <1>4 DEF Moves
  <2> HIDE DEF p
  <2>4. QED BY <2>1, <2>2, <2>3
<1>5. QED BY <1>3, <1>4

\* A step that changes nothing.
LEMMA StutterSafe ==
    ASSUME NEW L, Safe(L), UNCHANGED vars
    PROVE  Safe(L)'
<1>1. node' = node /\ net' = net /\ leaders' = leaders /\ decided' = decided
  BY DEF vars
<1>2. \A v, T, i : Got(v, T, i)' <=> Got(v, T, i)
  BY <1>1 DEF Got
<1>3. \A v, T, i : Acked(L, v, T, i)' <=> Acked(L, v, T, i)
  BY <1>1, <1>2 DEF Acked
<1>4. \A T, i : Chosen(L, T, i)' <=> Chosen(L, T, i)
  BY <1>3 DEF Chosen
<1>5. \A T, i : Choosable(L, T, i)' <=> Choosable(L, T, i)
  BY <1>1, <1>3 DEF Choosable
<1>6. \A x, c, U : Settled(L, x, c, U)' <=> Settled(L, x, c, U)
  BY <1>4 DEF Settled, Own
<1>7. \A T : Elected(T)' <=> Elected(T)
  BY <1>1 DEF Elected
<1>8. \A s : Acks(s)' = Acks(s)
  BY <1>1, <1>2 DEF Acks
<1>9. LogsInv(L)'
  BY <1>7 DEF Safe, LogsInv
<1>10. ASSUME NEW s \in Server PROVE NodeInv(L, s)'
  <2>1. NodeInv(L, s)
    BY DEF Safe
  <2>2. Settled(L, node[s].log, node[s].committed, node[s].Term)'
    BY <1>1, <1>4, <2>1 DEF NodeInv, Settled, Own
  <2>3. QED BY <1>1, <1>8, <2>1, <2>2 DEF NodeInv
<1>11. ASSUME NEW m \in net PROVE MsgInv(L, m)'
  BY <1>1, <1>2, <1>6 DEF Safe, MsgInv
<1>12. \A v \in Server : \A T, i \in Nat : AckInv(L, v, T, i)'
  BY <1>1, <1>3, <1>5 DEF Safe, AckInv
<1>13. \A T, U, i \in Nat : HeldInv(L, T, U, i)'
  BY <1>5, <1>7 DEF Safe, HeldInv
<1>14. \A m \in net : \A T, i \in Nat : VoteInv(L, m, T, i)'
  BY <1>1, <1>3, <1>5 DEF Safe, VoteInv
<1>15. DecidedInv(L)'
  <2>1. DecidedInv(L)
    BY DEF Safe
  <2>2. PICK U \in Nat : Settled(L, decided, Len(decided), U)
    BY <2>1 DEF DecidedInv
  <2>3. Settled(L, decided, Len(decided), U)'
    BY <1>1, <1>4, <2>2 DEF Settled, Own
  <2>4. QED BY <1>1, <2>1, <2>3 DEF DecidedInv
<1>16. QED BY <1>1, <1>9, <1>10, <1>11, <1>12, <1>13, <1>14, <1>15 DEF Safe

\* A step of the cluster and the logs of the leaders.
LEMMA NextSafe ==
    ASSUME ElectionInv, ElectionInv', NEW L, Safe(L), PropsInv, Next
    PROVE  \E s \in Server : \E q : /\ Before(L, s, q) /\ Goes(L, s, q)
                                    /\ Typed(q) /\ node'[s].Term = q.Term
<1>1. Elections /\ Elections'
  BY ElectionFacts, ElectionFactsNext
<1>2. PICK s \in Server : \E q : Goes(L, s, q)
  BY <1>1, NextRuns
<1>3. PICK q : Goes(L, s, q)
  BY <1>2
<1>4. Typed(q)
  BY <1>3 DEF Goes, Runs, Quiet, Appends, Idle, Rises, Leads, Leading, Takes, Follows
<1>5. Shaped(q, RaftFields)
  BY <1>4 DEF Typed, Raft
<1> DEFINE p == [q EXCEPT !.msgs = {}]
<1>6. p.Term = q.Term
  BY <1>5 DEF Shaped, RaftFields
<1>7. node'[s] = p
  BY <1>1, <1>3 DEF Goes, Runs, Elections
<1> HIDE DEF p
<1>8. q.Term \in Nat /\ q.Term >= node[s].Term
  BY <1>6, <1>7, TermsRise
<1>9. QED BY <1>1, <1>3, <1>4, <1>6, <1>7, <1>8 DEF Before

\* There are logs that the leaders of all terms had, of which all others are made,
\* and what a quorum acknowledged or still may is in all later ones: the invariant
\* of the theorems below (appendEntry, maybeAppend, the vote rules of Step).
THEOREM SafetyInvariant == Spec => []SafetyInv
<1>1. ElectionInv /\ ElectionInv' /\ SafetyInv /\ [Next]_vars => SafetyInv'
  <2> SUFFICES ASSUME ElectionInv, ElectionInv', SafetyInv, [Next]_vars PROVE SafetyInv'
    OBVIOUS
  <2>1. PICK L \in [Nat -> Seq(Entry)] : Safe(L) /\ PayloadInv(L)
    BY DEF SafetyInv
  <2>2. CASE Next
    <3>1. PICK s \in Server : \E q : Before(L, s, q) /\ Goes(L, s, q) /\ Typed(q)
      BY <2>1, <2>2, NextSafe DEF SafetyInv
    <3>2. PICK q : Before(L, s, q) /\ Goes(L, s, q) /\ Typed(q)
      BY <3>1
    <3>3. Logs(L, q) \in [Nat -> Seq(Entry)] /\ Safe(Logs(L, q))'
      BY <3>2, RunsSafe DEF Goes
    <3>4. PropsInv'
      <4>1. ASSUME NEW m \in q.msgs, m.type = "MsgProp" PROVE m \in Message /\ Len(m.entries) = 1
        <5>1. Digest(L, Logs(L, q), s, q)
          BY <3>2, RunsDigest DEF Goes
        <5>2. CASE Idle(node[s], q, net)
          BY <4>1, <5>2 DEF Idle, Says, Votes, Grant
        <5>3. CASE Heads(s, q)
          BY <4>1, <5>3 DEF Heads, Leads, Leading, Says
        <5>4. \A n \in net : ~Takes(L, s, q, n)
          BY <4>1 DEF Takes, Follows
        <5>5. QED BY <5>1, <5>2, <5>3, <5>4 DEF Digest
      <4>2. QED BY <3>2, <4>1 DEF PropsInv, SafetyInv, Goes
    <3>5. PayloadInv(Logs(L, q))'
      BY <2>1, <3>2, PayloadsOn
    <3>6. QED BY <3>3, <3>4, <3>5 DEF SafetyInv
  <2>3. CASE UNCHANGED vars
    <3>1. Safe(L)'
      BY <2>1, <2>3, StutterSafe
    <3>2. PropsInv'
      BY <2>3 DEF vars, PropsInv, SafetyInv
    <3>3. PayloadInv(L)'
      BY <2>1, <2>3 DEF vars, PayloadInv
    <3>4. QED BY <2>1, <3>1, <3>2, <3>3 DEF SafetyInv
  <2>4. QED BY <2>2, <2>3
<1>2. QED BY <1>1, InitSafe, ElectionInvariant, PTL DEF Spec

-----------------------------------------------------------------------------
\* What the invariant says of the properties of the cluster

\* Logs that agree up to i begin alike.
LEMMA AgreesPrefix ==
    ASSUME NEW x \in Seq(Entry), NEW y \in Seq(Entry), NEW i \in Nat, Agrees(x, y, i)
    PROVE  SubSeq(x, 1, i) = SubSeq(y, 1, i)
<1>1. Len(x) \in Nat /\ Len(y) \in Nat /\ i <= Len(x) /\ i <= Len(y)
  BY LenProperties DEF Agrees
<1>2. \A j \in 1..i : x[j] = y[j]
  BY DEF Agrees
<1> DEFINE a == SubSeq(x, 1, i) b == SubSeq(y, 1, i)
<1>3. /\ \A j \in 1..i : x[j] \in Entry /\ j \in 1..Len(x)
      /\ \A j \in 1..i : y[j] \in Entry /\ j \in 1..Len(y)
  BY <1>1, ElementOfSeq
<1>4. a \in Seq(Entry) /\ Len(a) = i /\ \A j \in 1..i : a[j] = x[j]
  BY <1>1, <1>3, SubSeqProperties
<1>5. b \in Seq(Entry) /\ Len(b) = i /\ \A j \in 1..i : b[j] = y[j]
  BY <1>1, <1>3, SubSeqProperties
<1> HIDE DEF a, b
<1>6. a = b
  BY <1>2, <1>4, <1>5, SeqEqual
<1>7. QED BY <1>6 DEF a, b

\* Two nodes whose logs have entries of one term at an index took them, and all
\* before, from the leader of this term.
LEMMA SafeLogMatching == SafetyInv => LogMatching
<1> SUFFICES ASSUME SafetyInv, NEW s \in Server, NEW t \in Server,
                    NEW i \in 1..Len(node[s].log), i <= Len(node[t].log),
                    node[s].log[i].term = node[t].log[i].term
             PROVE  SubSeq(node[s].log, 1, i) = SubSeq(node[t].log, 1, i)
  BY DEF LogMatching
<1>1. PICK L \in [Nat -> Seq(Entry)] : Safe(L)
  BY DEF SafetyInv
<1> DEFINE x == node[s].log y == node[t].log
<1>2. x \in Seq(Entry) /\ y \in Seq(Entry) /\ Matches(x, L) /\ Matches(y, L)
  BY <1>1 DEF Safe, NodeInv, Typed
<1>3. i \in 1..Len(x) /\ i <= Len(y) /\ x[i].term = y[i].term
  OBVIOUS
<1> HIDE DEF x, y
<1>4. Akin(x, y)
  BY <1>2, MatchesAkin
<1>5. Agrees(x, y, i) /\ i \in Nat
  BY <1>3, <1>4 DEF Akin
<1>6. SubSeq(x, 1, i) = SubSeq(y, 1, i)
  BY <1>2, <1>5, AgreesPrefix
<1>7. QED BY <1>6 DEF x, y

\* Nobody has led a term after that of a leader whose term nobody has passed, so it
\* holds what was chosen in any term.
LEMMA SafeLeaderCompleteness == ElectionInv /\ SafetyInv => LeaderCompleteness
<1> SUFFICES ASSUME ElectionInv, SafetyInv, NEW l \in Server, node[l].state = Leader,
                    \A s \in Server : node[s].Term <= node[l].Term
             PROVE  /\ Len(decided) <= Len(node[l].log)
                    /\ \A i \in 1..Len(decided) : node[l].log[i] = decided[i]
  BY DEF LeaderCompleteness
<1>1. PICK L \in [Nat -> Seq(Entry)] : Safe(L)
  BY DEF SafetyInv
<1>2. Elections
  BY ElectionFacts
<1> DEFINE U == node[l].Term x == node[l].log n == Len(decided)
<1>3. U \in Nat /\ x \in Seq(Entry) /\ x = L[U]
  BY <1>1 DEF Safe, NodeInv, Typed, Raft
<1>4. decided \in Seq(Entry) /\ n \in Nat /\ Len(x) \in Nat
  BY <1>1, <1>3, LenProperties DEF Safe, DecidedInv
<1>5. Elected(U)
  BY <1>2 DEF Elections, Elected
<1>6. PICK W \in Nat : Settled(L, decided, n, W)
  BY <1>1 DEF Safe, DecidedInv
<1>7. CASE n = 0
  <2> HIDE DEF n, x
  <2>1. n <= Len(x) /\ \A i \in 1..n : x[i] = decided[i]
    BY <1>4, <1>7
  <2>2. QED BY <2>1 DEF n, x
<1>8. CASE n # 0
  <2>1. PICK T \in Nat, j \in Nat : /\ n <= j /\ Own(L, T, j) /\ Chosen(L, T, j)
                                    /\ Agrees(decided, L[T], n)
    BY <1>6, <1>8 DEF Settled
  <2>2. L[T] \in Seq(Entry) /\ (Len(L[T]) # 0 => Elected(T))
    BY <1>1 DEF Safe, LogsInv
  <2>3. Len(L[T]) \in Nat /\ Elected(T)
    BY <2>1, <2>2, LenProperties DEF Own
  <2>4. PICK v \in Server : <<T, v>> \in leaders
    BY <2>3 DEF Elected
  <2>5. node[v].Term \in Nat /\ node[v].Term >= T /\ node[v].Term <= U
    BY <1>2, <2>4 DEF Elections, Raft
  <2>6. T <= U
    <3> DEFINE w == node[v].Term
    <3>1. w \in Nat /\ w >= T /\ w <= U
      BY <2>5
    <3> HIDE DEF w, U
    <3>2. QED BY <1>3, <3>1
  <2>7. Agrees(x, L[T], j)
    BY <1>1, <1>3, <1>5, <2>1, <2>6, ChosenIsHeld
  <2> DEFINE y == L[T]
  <2>8. Agrees(x, y, j) /\ Agrees(decided, y, n) /\ n <= j /\ Len(y) \in Nat
    BY <2>1, <2>3, <2>7
  <2> HIDE DEF x, y, n
  <2>9. n <= Len(x) /\ \A i \in 1..n : x[i] = decided[i]
    <3>1. Agrees(x, y, n)
      BY <1>4, <2>8, AgreesLess
    <3>2. QED BY <2>8, <3>1 DEF Agrees
  <2>10. QED BY <2>9 DEF x, n
<1>9. QED BY <1>7, <1>8

\* The leader counts only what was acknowledged in its term, and acknowledged entries
\* are not removed in this term.
LEMMA SafeMatchIsReal == ElectionInv /\ SafetyInv => MatchIsReal
<1> SUFFICES ASSUME ElectionInv, SafetyInv, NEW l \in Server, NEW s \in Server,
                    node[l].state = Leader, node[s].Term <= node[l].Term
             PROVE  /\ node[l].prs[s].Match <= Len(node[s].log)
                    /\ \A i \in 1..node[l].prs[s].Match : node[l].log[i] = node[s].log[i]
  BY DEF MatchIsReal
<1>1. PICK L \in [Nat -> Seq(Entry)] : Safe(L)
  BY DEF SafetyInv
<1> DEFINE k == node[l].prs[s].Match T == node[l].Term x == node[l].log y == node[s].log
<1>2. /\ NodeInv(L, l) /\ NodeInv(L, s) /\ T \in Nat /\ node[s].Term \in Nat
      /\ x \in Seq(Entry) /\ y \in Seq(Entry) /\ x = L[T]
  BY <1>1 DEF Safe, NodeInv, Typed, Raft
<1>3. Len(x) \in Nat /\ Len(y) \in Nat
  BY <1>2, LenProperties
<1>4. k \in Nat
  <2>1. node[l].prs[s] \in Progress
    BY <1>2 DEF NodeInv, Typed
  <2>2. QED BY <2>1 DEF Progress
<1>5. node[l].id = l
  BY ElectionFacts DEF Elections
<1>6. k <= Len(x) /\ (k = 0 \/ s = l \/ <<s, k>> \in Acks(l))
  BY <1>2, <1>5 DEF NodeInv, Tracks, Fits
<1>7. Agrees(y, x, k)
  <2>1. CASE k = 0
    <3> HIDE DEF x, y, k
    <3>1. QED BY <1>3, <2>1 DEF Agrees
  <2>2. CASE s = l
    <3>1. y = x
      BY <2>2
    <3> HIDE DEF x, y, k
    <3>2. QED BY <1>3, <1>6, <3>1 DEF Agrees
  <2>3. CASE <<s, k>> \in Acks(l)
    <3>1. Got(s, T, k)
      BY <2>3 DEF Acks
    <3>2. AckInv(L, s, T, k)
      BY <1>1, <1>2, <1>4 DEF Safe
    <3>3. node[s].Term >= T /\ (node[s].Term = T => Agrees(y, L[T], k))
      BY <3>1, <3>2 DEF AckInv, Acked
    <3>4. node[s].Term = T
      <4> DEFINE w == node[s].Term
      <4>1. w \in Nat /\ w >= T /\ w <= T
        BY <1>2, <3>3
      <4> HIDE DEF w, T
      <4>2. w = T
        BY <1>2, <4>1
      <4>3. QED BY <4>2 DEF w
    <3>5. QED BY <1>2, <3>3, <3>4
  <2>4. QED BY <1>6, <2>1, <2>2, <2>3
<1> HIDE DEF x, y, k
<1>8. k <= Len(y) /\ \A i \in 1..k : x[i] = y[i]
  BY <1>7 DEF Agrees
<1>9. QED BY <1>8 DEF x, y, k

\* No node has panicked.
LEMMA SafeNoPanic == SafetyInv => NoPanic
BY DEF SafetyInv, Safe, NodeInv, NoPanic

-----------------------------------------------------------------------------
\* The properties of the cluster

\* For every cluster, joint configuration of overlapping quorums and schedule of
\* messages, timeouts and restarts, logs with an entry of the same index and term
\* are equal up to it (maybeAppend, findConflict, matchTerm).
THEOREM LogsMatch == Spec => []LogMatching
BY SafeLogMatching, SafetyInvariant, PTL

\* A leader whose term nobody has passed holds every entry ever committed, also one
\* that only nodes that lost their commit index in a crash had committed
\* (isUpToDate, maybeCommit's test of the entry's term).
THEOREM LeadersAreComplete == Spec => []LeaderCompleteness
BY SafeLeaderCompleteness, SafetyInvariant, ElectionInvariant, PTL

\* A leader's Match index for a follower of its term is backed by equal entries:
\* acknowledgements that are late, repeated or from before a restart never raise
\* it too far (MaybeUpdate, becomeLeader's reset, handleAppendEntries).
THEOREM MatchesAreReal == Spec => []MatchIsReal
BY SafeMatchIsReal, SafetyInvariant, ElectionInvariant, PTL

\* No schedule reaches the panics of maybeAppend, commitTo and send: no node truncates
\* what it committed (log.go:95), commits an index it does not have (log.go:203) or
\* stamps a message wrongly (raft.go:483, 487).
THEOREM NeverPanics == Spec => []NoPanic
BY SafeNoPanic, SafetyInvariant, PTL

\* An entry with data in the log of a node was appended by the leader of its term.
LEMMA NodeCarries ==
    ASSUME NEW L, Safe(L), NEW s \in Server, NEW i \in 1..Len(node[s].log),
           node[s].log[i].data # None
    PROVE  LET T == node[s].log[i].term
           IN  T \in Nat /\ i \in Nat /\ Carried(L, T, i) /\ L[T][i] = node[s].log[i]
<1> DEFINE x == node[s].log T == x[i].term z == L[T]
<1>1. x \in Seq(Entry) /\ Matches(x, L) /\ i \in Nat /\ i >= 1
  <2>1. x \in Seq(Entry) /\ Matches(x, L)
    BY DEF Safe, NodeInv, Typed
  <2> DEFINE n == Len(x)
  <2>2. n \in Nat /\ i \in 1..n
    BY <2>1, LenProperties
  <2> HIDE DEF n, x
  <2>3. QED BY <2>1, <2>2
<1>2. T \in Nat
  <2>1. x[i] \in Entry
    BY <1>1, ElementOfSeq
  <2>2. QED BY <2>1 DEF Entry
<1>3. Agrees(x, z, i)
  BY <1>1 DEF Matches
<1>4. Len(z) \in Nat
  <2>1. z \in Seq(Entry)
    BY <1>2 DEF Safe, LogsInv
  <2>2. QED BY <2>1, LenProperties
<1>5. i \in 1..Len(z) /\ z[i] = x[i]
  <2> HIDE DEF z, x
  <2>1. QED BY <1>1, <1>3, <1>4 DEF Agrees
<1>6. QED BY <1>1, <1>2, <1>5 DEF Carried, Own

\* No payload is appended twice.
LEMMA SafeOnce == SafetyInv => ProposalAtMostOnce
<1> SUFFICES ASSUME SafetyInv, NEW s \in Server,
                    NEW i \in 1..Len(node[s].log), NEW j \in 1..Len(node[s].log),
                    node[s].log[i].data = node[s].log[j].data, node[s].log[i].data # None
             PROVE  i = j
  BY DEF ProposalAtMostOnce
<1>1. PICK L \in [Nat -> Seq(Entry)] : Safe(L) /\ PayloadInv(L)
  BY DEF SafetyInv
<1> DEFINE T == node[s].log[i].term U == node[s].log[j].term
<1>2. T \in Nat /\ i \in Nat /\ Carried(L, T, i) /\ L[T][i] = node[s].log[i]
  BY <1>1, NodeCarries
<1>3. U \in Nat /\ j \in Nat /\ Carried(L, U, j) /\ L[U][j] = node[s].log[j]
  BY <1>1, NodeCarries
<1> HIDE DEF T, U
<1>4. QED BY <1>1, <1>2, <1>3 DEF PayloadInv

\* What was dropped is nowhere.
LEMMA SafeDropped == SafetyInv => DroppedNeverAppears
<1> SUFFICES ASSUME SafetyInv, NEW v \in dropped
             PROVE  /\ \A m \in props : m.entries[1].data # v
                    /\ \A s \in Server : \A i \in 1..Len(node[s].log) : node[s].log[i].data # v
  BY DEF DroppedNeverAppears
<1>1. PICK L \in [Nat -> Seq(Entry)] : Safe(L) /\ PayloadInv(L)
  BY DEF SafetyInv
<1>2. \A m \in props : m.entries[1].data # v
  BY <1>1 DEF PayloadInv, Payload
<1>3. ASSUME NEW s \in Server, NEW i \in 1..Len(node[s].log) PROVE node[s].log[i].data # v
  <2>1. v # None
    BY <1>1, CoreAssumption DEF PayloadInv
  <2>2. SUFFICES ASSUME node[s].log[i].data = v PROVE FALSE
    OBVIOUS
  <2> DEFINE T == node[s].log[i].term
  <2>3. T \in Nat /\ i \in Nat /\ Carried(L, T, i) /\ L[T][i] = node[s].log[i]
    BY <1>1, <2>1, <2>2, NodeCarries
  <2> HIDE DEF T
  <2>4. L[T][i].data \notin dropped
    BY <1>1, <2>3 DEF PayloadInv
  <2>5. QED BY <2>2, <2>3, <2>4
<1>4. QED BY <1>2, <1>3

\* A client's proposal is appended at most once, whoever forwards it and whatever
\* becomes of the leader (stepFollower and stepLeader on MsgProp, becomeLeader).
THEOREM ProposalsHappenOnce == Spec => []ProposalAtMostOnce
BY SafetyInvariant, SafeOnce, PTL

\* What a client was told is dropped (ErrProposalDropped) is in no log and on no way
\* to one.
THEOREM DroppedIsGone == Spec => []DroppedNeverAppears
BY SafetyInvariant, SafeDropped, PTL

\* A node with its outbox drained, as a record.
LEMMA TypedNode ==
    ASSUME NEW r, Typed(r), r.msgs = {}
    PROVE  r \in Node
<1>1. r = [f \in RaftFields |-> r[f]]
  BY DEF Typed, Raft, Shaped
<1>2. r = [id |-> r.id, Term |-> r.Term, Vote |-> r.Vote, state |-> r.state,
           lead |-> r.lead, log |-> r.log, committed |-> r.committed,
           leadTransferee |-> r.leadTransferee, elapsed |-> r.elapsed,
           yes |-> r.yes, no |-> r.no, prs |-> r.prs, msgs |-> r.msgs, panic |-> r.panic]
  BY <1>1 DEF RaftFields
<1>3. /\ r.id \in Server /\ r.Term \in Nat /\ r.Vote \in Server \cup {None} /\ r.state \in States
      /\ r.lead \in Server \cup {None} /\ r.log \in Seq(Entry) /\ r.committed \in Nat
      /\ r.leadTransferee \in Server \cup {None}
      /\ r.yes \in SUBSET Server /\ r.no \in SUBSET Server /\ r.prs \in [Server -> Progress]
  BY DEF Typed, Raft
<1>4. r.elapsed \in BOOLEAN /\ r.panic \in BOOLEAN
  BY DEF Typed
<1>5. r.msgs \in SUBSET Message
  OBVIOUS
<1>6. QED BY <1>2, <1>3, <1>4, <1>5 DEF Node

\* The histories of the clients and of the environment.
HistoryInv ==
    /\ proposed \in SUBSET Value /\ dropped \in SUBSET proposed
    /\ count \in [Kind -> Nat]

\* A counter that is raised stays a number.
LEMMA CountTyped ==
    ASSUME NEW k, count \in [Kind -> Nat], Count(k)
    PROVE  count' \in [Kind -> Nat]
<1> DEFINE n == count[k] + 1
<1>1. count' = [count EXCEPT ![k] = n]
  BY DEF Count
<1>2. CASE k \in Kind
  <2>1. n \in Nat
    BY <1>2
  <2> HIDE DEF n
  <2>2. QED BY <1>1, <2>1
<1>3. CASE k \notin Kind
  <2> HIDE DEF n
  <2>1. [count EXCEPT ![k] = n] = count
    BY <1>3
  <2>2. QED BY <1>1, <2>1
<1>4. QED BY <1>2, <1>3

\* No step spoils the histories.
LEMMA NextHistory == HistoryInv /\ [Next]_vars => HistoryInv'
<1> SUFFICES ASSUME HistoryInv, [Next]_vars PROVE HistoryInv'
  OBVIOUS
<1>1. CASE UNCHANGED vars
  BY <1>1 DEF vars, HistoryInv
<1>2. ASSUME NEW s \in Server, Timeout(s) PROVE HistoryInv'
  BY <1>2, CountTyped DEF Timeout, HistoryInv
<1>3. ASSUME NEW s \in Server, Elapse(s) PROVE HistoryInv'
  BY <1>3, CountTyped DEF Elapse, HistoryInv
<1>4. ASSUME NEW s \in Server, Beat(s) PROVE HistoryInv'
  BY <1>4, CountTyped DEF Beat, HistoryInv
<1>5. ASSUME NEW s \in Server, ElectionTick(s) PROVE HistoryInv'
  BY <1>5, CountTyped DEF ElectionTick, HistoryInv
<1>6. ASSUME NEW s \in Server, Probe(s) PROVE HistoryInv'
  BY <1>6, CountTyped DEF Probe, HistoryInv
<1>7. ASSUME NEW s \in Server, Restart(s) PROVE HistoryInv'
  BY <1>7, CountTyped DEF Restart, HistoryInv
<1>8. ASSUME NEW s \in Server, NEW i \in Server, Unreachable(s, i) PROVE HistoryInv'
  BY <1>8, CountTyped DEF Unreachable, HistoryInv
<1>9. ASSUME NEW s \in Server, NEW i \in Server, Transfer(s, i) PROVE HistoryInv'
  BY <1>9, CountTyped DEF Transfer, HistoryInv
<1>10. ASSUME NEW s \in Server, NEW v \in Value, Propose(s, v) PROVE HistoryInv'
  BY <1>10 DEF Propose, HistoryInv
<1>11. ASSUME NEW m \in net, Receive(m) PROVE HistoryInv'
  BY <1>11 DEF Receive, HistoryInv
<1>12. ASSUME NEW m \in props, ReceiveProp(m) PROVE HistoryInv'
  BY <1>12 DEF ReceiveProp, HistoryInv
<1>13. QED
  BY <1>1, <1>2, <1>3, <1>4, <1>5, <1>6, <1>7, <1>8, <1>9, <1>10, <1>11, <1>12 DEF Next

\* Every variable has its type in every reachable state, and nothing is left in an
\* outbox between steps (Becomes, the Ready cycle).
THEOREM TypeCorrect == Spec => []TypeOK
<1>1. Init => HistoryInv
  BY DEF Init, HistoryInv
<1>2. ElectionInv /\ SafetyInv /\ HistoryInv => TypeOK
  <2> SUFFICES ASSUME ElectionInv, SafetyInv, HistoryInv PROVE TypeOK
    OBVIOUS
  <2>1. PICK L \in [Nat -> Seq(Entry)] : Safe(L)
    BY DEF SafetyInv
  <2>2. node = [s \in Server |-> node[s]] /\ \A s \in Server : node[s].id = s
    BY ElectionFacts DEF Elections
  <2>3. \A s \in Server : node[s].msgs = {} /\ node[s] \in Node
    BY <2>1, TypedNode DEF Safe, NodeInv
  <2>4. node \in [Server -> Node]
    BY <2>2, <2>3
  <2>5. net \in SUBSET Message /\ props \in SUBSET Message
    BY <2>1 DEF Safe, MsgInv, SafetyInv, PropsInv
  <2>6. leaders \in SUBSET (Nat \X Server)
    BY DEF ElectionInv, LeadersInv, Earned
  <2>7. decided \in Seq(Entry)
    BY <2>1 DEF Safe, DecidedInv
  <2>8. QED BY <2>2, <2>3, <2>4, <2>5, <2>6, <2>7 DEF TypeOK, HistoryInv
<1>3. QED BY <1>1, <1>2, NextHistory, ElectionInvariant, SafetyInvariant, PTL DEF Spec

-----------------------------------------------------------------------------
\* The cluster implements one replicated log

\* A sequence that agrees with another on all of its entries is a prefix of it.
LEMMA PrefixOf ==
    ASSUME NEW a \in Seq(Entry), NEW b \in Seq(Entry), Agrees(a, b, Len(a))
    PROVE  Replicated!IsPrefix(a, b)
<1>1. Len(a) \in Nat /\ Len(a) <= Len(b)
  BY LenProperties DEF Agrees
<1>2. SubSeq(a, 1, Len(a)) = SubSeq(b, 1, Len(a))
  BY <1>1, AgreesPrefix
<1>3. QED BY <1>1, <1>2 DEF Replicated!IsPrefix

\* What of a log is committed.
LEMMA CommittedPart ==
    ASSUME NEW r, r.log \in Seq(Entry), r.committed \in Nat, r.committed <= Len(r.log)
    PROVE  /\ CommittedLog(r) \in Seq(Entry) /\ Len(CommittedLog(r)) = r.committed
           /\ \A i \in 1..r.committed : CommittedLog(r)[i] = r.log[i]
<1> DEFINE x == r.log c == r.committed
<1>1. Len(x) \in Nat /\ c \in Nat /\ c <= Len(x) /\ x \in Seq(Entry)
  BY LenProperties
<1> HIDE DEF x, c
<1>2. \A i \in 1..c : x[i] \in Entry
  BY <1>1, ElementOfSeq
<1>3. /\ SubSeq(x, 1, c) \in Seq(Entry) /\ Len(SubSeq(x, 1, c)) = c
      /\ \A i \in 1..c : SubSeq(x, 1, c)[i] = x[i]
  BY <1>1, <1>2, SubSeqProperties
<1>4. QED BY <1>3 DEF CommittedLog, x, c

\* Logs whose parts were committed agree, before a step and after it.
Concord ==
    \A L, x, y : \A c, d \in Nat : \A U, W :
        /\ Safe(L) /\ Settled(L, x, c, U) /\ Settled(L, y, d, W) /\ c <= d
        /\ Len(x) \in Nat /\ Len(y) \in Nat
        => Agrees(x, y, c)

\* This is so in every state,
LEMMA ConcordHolds == Concord
BY SettledAgree DEF Concord

\* also after a step.
LEMMA ConcordNext == Concord'
BY ConcordHolds, PTL

\* A step of a node hands on more of the log that was agreed on, which may become
\* longer by this, or it is a restart that lost a part of the commit index.
LEMMA StepDelivers ==
    ASSUME NEW L, NEW s, NEW q, Before(L, s, q), Goes(L, s, q)
    PROVE  Replicated!Next
<1> DEFINE K == Logs(L, q)
           x == node[s].log c == node[s].committed
           y == q.log d == q.committed
           n == Len(decided)
           a == CommittedLog(node[s]) b == CommittedLog(q)
<1>1. Runs(L, s, q) /\ Digest(L, K, s, q) /\ Safe(K)'
  BY RunsDigest, RunsSafe DEF Goes
<1> HIDE DEF K
<1>2. s \in Server /\ NodeInv(L, s) /\ q.Term \in Nat /\ DecidedInv(L)
  BY DEF Before, Safe
<1>3. /\ x \in Seq(Entry) /\ c \in Nat /\ node[s].Term \in Nat
      /\ Settled(L, x, c, node[s].Term) /\ node[s].Term <= q.Term
  BY <1>2 DEF NodeInv, Typed, Raft, Before
<1>4. y \in Seq(Entry)
  BY <1>1 DEF Digest, Typed
<1>5. d \in Nat /\ Settled(K, y, d, q.Term)'
  BY <1>1, CommittedOn
<1>6. decided \in Seq(Entry) /\ n \in Nat /\ c <= n
  BY <1>2, LenProperties DEF DecidedInv
<1>7. PICK U \in Nat : Settled(L, decided, n, U)
  BY <1>2 DEF DecidedInv
<1>8. /\ Len(x) \in Nat /\ Len(y) \in Nat
  BY <1>3, <1>4, LenProperties
<1>9. c <= Len(x) /\ d <= Len(y)
  <2>1. c = 0 \/ \E W \in Nat : Agrees(x, L[W], c)
    BY <1>3 DEF Settled
  <2>2. d = 0 \/ \E W \in Nat : Agrees(y, K[W], d)
    BY <1>5 DEF Settled
  <2> HIDE DEF x, y, c, d
  <2>3. QED BY <1>3, <1>5, <1>8, <2>1, <2>2 DEF Agrees
\* What was committed before the step agrees with what is after it.
<1>10. c <= d => Agrees(x, y, c)
  <2>1. \A u, k : u = x /\ k = c => Settled(K, u, k, q.Term)'
    BY <1>1, <1>2, <1>3, SettledOn
  <2>2. \A u, k : /\ Settled(K, u, k, q.Term)' /\ Len(u) \in Nat /\ k \in Nat /\ k <= d
                  => Agrees(u, y, k)
    BY <1>1, <1>5, <1>8, ConcordNext DEF Concord
  <2> HIDE DEF x, y, c, d
  <2>3. QED BY <1>3, <1>8, <2>1, <2>2
<1>11. d <= c => Agrees(y, x, d)
  <2>1. \A u, k : u = x /\ k = c => Settled(K, u, k, q.Term)'
    BY <1>1, <1>2, <1>3, SettledOn
  <2>2. \A u, k : /\ Settled(K, u, k, q.Term)' /\ Len(u) \in Nat /\ k \in Nat /\ d <= k
                  => Agrees(y, u, d)
    BY <1>1, <1>5, <1>8, ConcordNext DEF Concord
  <2> HIDE DEF x, y, c, d
  <2>3. QED BY <1>3, <1>8, <2>1, <2>2
<1>12. /\ d <= n => Agrees(y, decided, d)
       /\ n <= d => Agrees(decided, y, n)
  <2>1. U <= U
    OBVIOUS
  <2>2. \A u, k : u = decided /\ k = n => Settled(K, u, k, U)'
    BY <1>1, <1>2, <1>6, <1>7, <2>1, SettledOn
  <2>3. \A u, k : /\ Settled(K, u, k, U)' /\ Len(u) \in Nat /\ k \in Nat /\ d <= k
                  => Agrees(y, u, d)
    BY <1>1, <1>5, <1>8, ConcordNext DEF Concord
  <2>4. \A u, k : /\ Settled(K, u, k, U)' /\ Len(u) \in Nat /\ k \in Nat /\ k <= d
                  => Agrees(u, y, k)
    BY <1>1, <1>5, <1>8, ConcordNext DEF Concord
  <2> DEFINE z == decided
  <2>5. n = Len(z)
    OBVIOUS
  <2> HIDE DEF y, d, n
  <2>6. QED BY <1>6, <2>2, <2>3, <2>4, <2>5
\* So do the parts themselves.
<1>13. /\ a \in Seq(Entry) /\ Len(a) = c /\ \A i \in 1..c : a[i] = x[i]
       /\ b \in Seq(Entry) /\ Len(b) = d /\ \A i \in 1..d : b[i] = y[i]
  BY <1>3, <1>4, <1>5, <1>9, CommittedPart
<1>14. /\ CommittedLog(node'[s]) = b
       /\ \A t \in Server : t # s => CommittedLog(node'[t]) = CommittedLog(node[t])
  BY <1>1, <1>2 DEF Digest, Same, CommittedLog
<1>15. decided' = IF d > n THEN b ELSE decided
  BY <1>1 DEF Runs
<1> DEFINE z == decided
<1>16. z \in Seq(Entry) /\ Len(z) = n /\ z' = IF d > n THEN b ELSE z
  BY <1>6, <1>15
<1>17. /\ d <= n => Agrees(y, z, d)
       /\ n <= d => Agrees(z, y, n)
  BY <1>12
<1>18. a = CommittedLog(node[s]) /\ b = CommittedLog(node'[s])
  BY <1>14
<1> HIDE DEF x, y, c, d, n, a, b, z
<1>19. c <= d => Replicated!IsPrefix(a, b)
  <2>1. c <= d => Agrees(a, b, c)
    BY <1>3, <1>5, <1>10, <1>13 DEF Agrees
  <2>2. QED BY <1>13, <2>1, PrefixOf
<1>20. d <= c => Replicated!IsPrefix(b, a)
  <2>1. d <= c => Agrees(b, a, d)
    BY <1>3, <1>5, <1>11, <1>13 DEF Agrees
  <2>2. QED BY <1>13, <2>1, PrefixOf
<1>21. d <= n => Replicated!IsPrefix(b, z)
  <2>1. d <= n => Agrees(b, z, d)
    BY <1>5, <1>6, <1>13, <1>16, <1>17 DEF Agrees
  <2>2. QED BY <1>13, <1>16, <2>1, PrefixOf
<1>22. n <= d => Replicated!IsPrefix(z, b)
  <2>1. n <= d => Agrees(z, b, n)
    BY <1>5, <1>6, <1>13, <1>16, <1>17 DEF Agrees
  <2>2. QED BY <1>13, <1>16, <2>1, PrefixOf
<1>23. Replicated!IsPrefix(b, b) /\ Replicated!IsPrefix(z, z)
  <2>1. Agrees(b, b, d) /\ Agrees(z, z, n)
    BY <1>5, <1>6, <1>13, <1>16 DEF Agrees
  <2>2. QED BY <1>13, <1>16, <2>1, PrefixOf
<1>24. CASE c <= d
  <2>1. Replicated!IsPrefix(z, z') /\ Replicated!IsPrefix(b, z')
    BY <1>5, <1>6, <1>16, <1>21, <1>22, <1>23
  <2>2. Len(z') = Replicated!Max({Len(z), Len(b)})
    BY <1>5, <1>6, <1>13, <1>16, MaxOfTwo DEF Max, Replicated!Max
  <2>3. Replicated!Deliver(s)
    BY <1>2, <1>14, <1>18, <1>19, <1>24, <2>1, <2>2 DEF Replicated!Deliver, z
  <2>4. QED BY <1>2, <2>3 DEF Replicated!Next
<1>25. CASE d < c
  <2>1. z' = z
    BY <1>3, <1>5, <1>6, <1>16, <1>25
  <2>2. Replicated!IsPrefix(b, a)
    BY <1>3, <1>5, <1>20, <1>25
  <2>3. Replicated!Recover(s)
    BY <1>2, <1>14, <1>18, <2>1, <2>2 DEF Replicated!Recover, z
  <2>4. QED BY <1>2, <2>3 DEF Replicated!Next
<1>26. QED BY <1>3, <1>5, <1>24, <1>25

\* For every cluster, the nodes implement one log that only grows, of which each
\* hands on a prefix and which a restart at most reads again from an earlier
\* point (maybeCommit, commitTo, newRaft).
THEOREM ImplementsLog == Spec => ImplementsReplicatedLog
<1>1. Init => Replicated!Init
  <2> SUFFICES ASSUME Init, NEW s \in Server
               PROVE  Replicated!IsPrefix(CommittedLog(node[s]), decided)
    BY DEF Replicated!Init
  <2>1. <<>> \in Seq(Entry) /\ Len(<<>>) = 0
    BY EmptySeq
  <2>2. decided = <<>> /\ node[s].log = <<>> /\ node[s].committed = 0
    BY DEF Init, newRaft
  <2>3. CommittedLog(node[s]) \in Seq(Entry) /\ Len(CommittedLog(node[s])) = 0
    <3> DEFINE r == node[s]
    <3>1. r.log \in Seq(Entry) /\ Len(r.log) = 0 /\ r.committed = 0
      BY <2>1, <2>2
    <3> HIDE DEF r
    <3>2. r.committed \in Nat /\ r.committed <= Len(r.log)
      BY <3>1
    <3>3. CommittedLog(r) \in Seq(Entry) /\ Len(CommittedLog(r)) = r.committed
      BY <3>1, <3>2, CommittedPart
    <3>4. QED BY <3>1, <3>3 DEF r
  <2> DEFINE a == CommittedLog(node[s]) b == decided
  <2>4. a \in Seq(Entry) /\ Len(a) = 0 /\ b \in Seq(Entry) /\ Len(b) = 0
    BY <2>1, <2>2, <2>3
  <2> HIDE DEF a, b
  <2>5. Agrees(a, b, Len(a))
    BY <2>4 DEF Agrees
  <2>6. Replicated!IsPrefix(a, b)
    BY <2>4, <2>5, PrefixOf
  <2>7. QED BY <2>6 DEF a, b
<1>2. ElectionInv /\ ElectionInv' /\ SafetyInv /\ [Next]_vars
      => [Replicated!Next]_(Replicated!vars)
  <2> SUFFICES ASSUME ElectionInv, ElectionInv', SafetyInv, [Next]_vars
               PROVE  Replicated!Next \/ UNCHANGED Replicated!vars
    OBVIOUS
  <2>1. CASE Next
    <3>1. PICK L \in [Nat -> Seq(Entry)] : Safe(L)
      BY DEF SafetyInv
    <3>2. PICK s \in Server : \E q : Before(L, s, q) /\ Goes(L, s, q)
      BY <2>1, <3>1, NextSafe DEF SafetyInv
    <3>3. QED BY <3>2, StepDelivers
  <2>2. CASE UNCHANGED vars
    BY <2>2 DEF vars, Replicated!vars, CommittedLog
  <2>3. QED BY <2>1, <2>2
<1>3. QED
  BY <1>1, <1>2, ElectionInvariant, SafetyInvariant, PTL
     DEF Spec, ImplementsReplicatedLog, Replicated!Spec
=============================================================================
