------------------------------- MODULE GleeRtt -------------------------------
(***************************************************************************)
(* The RTT machinery that glee-etcd adds to raft.go: nodes probe each      *)
(* other (MsgProbeRtt, MsgProbeRttResp), derive their election timeout     *)
(* from the RTTs, report them to the leader in heartbeat responses, and    *)
(* the leader looks for a node that would lead better.                     *)
(*                                                                         *)
(* now counts steps of Unit microseconds.  Messages may be delayed,        *)
(* overtaken and lost, but not repeated.  Elections are abstracted to      *)
(* Elected; what a transfer does to the cluster is the subject of          *)
(* RaftCluster.                                                            *)
(***************************************************************************)
EXTENDS Integers, FiniteSets, FiniteSetsExt

CONSTANTS
    Server,
    Prober,           \* the nodes whose probe timer is modelled
    electionTimeout,  \* Config.ElectionTick
    Draws,            \* outcomes of globalRand.Intn(electionTimeout) explored
    Unit,             \* microseconds per clock step
    Never,            \* microseconds since the zero time.Time, saturated
    MaxNow, MaxProbes, MaxReports, MaxElections, MaxRestarts \* bounds

ASSUME RttAssumption ==
    /\ IsFiniteSet(Server) /\ Prober \subseteq Server
    /\ electionTimeout \in Nat \ {0} /\ Draws \subseteq 0..(electionTimeout - 1)
    /\ Draws # {}
    /\ {Unit, Never, MaxNow, MaxProbes, MaxReports, MaxElections, MaxRestarts} \subseteq Nat
    /\ Never > Unit * MaxNow

VARIABLES
    now,
    lead,         \* the node in StateLeader
    rttMap,       \* rttMap[s][i]: lastProbingTime (at) and timeStamp (ts)
    rttMap_old,   \* rttMap_old[s][i].timeStamp
    penalty,      \* electionPenaltyTime
    timeout,      \* randomizedElectionTimeout
    nodeLatency,  \* nodeLatency[l][f][i]; 0 for a missing entry
    probes,       \* MsgProbeRtt and MsgProbeRttResp under way
    reports,      \* MsgHeartbeatResp under way
    target,       \* transferee of the last transfer decision, or its leader
    measured,     \* <<s, i, ts>> for every RTT ever recorded (history)
    over,         \* an RTT above the real one was taken (history)
    count         \* probes, reports, elections and restarts so far

vars == <<now, lead, rttMap, rttMap_old, penalty, timeout, nodeLatency, probes,
          reports, target, measured, over, count>>

\* A map entry that does not exist; its lastProbingTime is the zero time.
NoEntry == [known |-> FALSE, at |-> 0, ts |-> 0]

\* resetRandomizedElectionTimeout: the values it may leave behind
resetTimeouts(pen) ==
    IF pen = 0 THEN {electionTimeout + d : d \in Draws} ELSE {electionTimeout + pen}

Init ==
    /\ now = 0 /\ lead \in Server
    /\ rttMap = [s \in Server |-> [i \in Server |-> NoEntry]]
    /\ rttMap_old = [s \in Server |-> [i \in Server |-> 0]]
    /\ penalty = [s \in Server |-> 0]
    /\ timeout \in [Server -> resetTimeouts(0)]
    /\ nodeLatency = [s \in Server |-> [f \in Server |-> [i \in Server |-> 0]]]
    /\ probes = {} /\ reports = {} /\ target = lead
    /\ measured = {} /\ over = FALSE
    /\ count = [probe |-> 0, report |-> 0, election |-> 0, restart |-> 0]

Tick ==
    /\ now < MaxNow
    /\ now' = now + 1
    /\ UNCHANGED <<lead, rttMap, rttMap_old, penalty, timeout, nodeLatency, probes,
                   reports, target, measured, over, count>>

-----------------------------------------------------------------------------
\* Mutant of bcastProbeRtt: the time of an earlier probe is kept.
bcastKeepsTime(s) ==
    /\ s \in Prober /\ count.probe < MaxProbes
    /\ rttMap' = [rttMap EXCEPT ![s] = [i \in Server |->
                    IF i = s \/ rttMap[s][i].known THEN rttMap[s][i]
                    ELSE [known |-> TRUE, at |-> now, ts |-> rttMap[s][i].ts]]]
    /\ probes' = probes \cup
            {[from |-> s, to |-> i, at |-> now, back |-> FALSE] : i \in Server \ {s}}
    /\ count' = [count EXCEPT !.probe = @ + 1]
    /\ UNCHANGED <<now, lead, rttMap_old, penalty, timeout, nodeLatency, reports,
                   target, measured, over>>

\* bcastProbeRtt, on MsgProbeRttHup: an entry keeps its timeStamp and takes the
\* time of this probe, also if the previous one has not been answered.
bcastProbeRtt(s) ==
    /\ s \in Prober /\ count.probe < MaxProbes
    /\ rttMap' = [rttMap EXCEPT ![s] = [i \in Server |->
                    IF i = s THEN rttMap[s][i]
                    ELSE [known |-> TRUE, at |-> now, ts |-> rttMap[s][i].ts]]]
    /\ probes' = probes \cup
            {[from |-> s, to |-> i, at |-> now, back |-> FALSE] : i \in Server \ {s}}
    /\ count' = [count EXCEPT !.probe = @ + 1]
    /\ UNCHANGED <<now, lead, rttMap_old, penalty, timeout, nodeLatency, reports,
                   target, measured, over>>

\* Step(MsgProbeRtt)
AnswerProbe(m) ==
    /\ ~m.back
    /\ probes' = (probes \ {m}) \cup {[m EXCEPT !.back = TRUE]}
    /\ UNCHANGED <<now, lead, rttMap, rttMap_old, penalty, timeout, nodeLatency,
                   reports, target, measured, over, count>>

\* calcRtt: elapsed_time_us; a missing entry yields the age of the zero time
elapsedUs(e) == IF e.known THEN (now - e.at) * Unit ELSE Never

\* The new timeStamp: the old one is overwritten before it is averaged in.
newTimeStamp(e) ==
    IF e.ts # 0 THEN (elapsedUs(e) * 2 + elapsedUs(e) * 8) \div 10 ELSE elapsedUs(e)

\* The nonzero RTTs of a row
samples(row) == {i \in Server : row[i].ts # 0}

\* calculateMedian of the RTTs of the given nodes: the first of the sorted ones
calculateMedian(f, nodes) == Min({f[i] : i \in nodes})

\* calcRtt(m.From) on MsgProbeRttResp, with the election penalty it ends in
calcRtt(m) ==
    LET s   == m.from
        id  == m.to
        row == [rttMap[s] EXCEPT ![id] =
                    [rttMap[s][id] EXCEPT !.ts = newTimeStamp(rttMap[s][id])]]
        rtts == [i \in Server |-> row[i].ts]
        pen == calculateMedian(rtts, samples(row)) \div 100
    IN  /\ m.back
        /\ probes' = probes \ {m}
        /\ rttMap_old' = [rttMap_old EXCEPT ![s][id] = rttMap[s][id].ts]
        /\ rttMap' = [rttMap EXCEPT ![s] = row]
        /\ IF Cardinality(samples(row)) < Cardinality(Server) \div 2
           THEN /\ \E d \in Draws : timeout' = [timeout EXCEPT ![s] = electionTimeout + d]
                /\ penalty' = penalty
           ELSE /\ penalty' = [penalty EXCEPT ![s] = pen]
                /\ timeout' = [timeout EXCEPT ![s] = electionTimeout + pen]
        /\ measured' = measured \cup {<<s, id, row[id].ts>>}
        /\ over' = \/ over
                   \/ rttMap[s][id].known /\ elapsedUs(rttMap[s][id]) > (now - m.at) * Unit
        /\ UNCHANGED <<now, lead, nodeLatency, reports, target, count>>

-----------------------------------------------------------------------------
\* handleHeartbeat at a follower: its nonzero RTTs go to the leader.
handleHeartbeat(s) ==
    /\ s # lead /\ count.report < MaxReports
    /\ reports' = reports \cup {[from |-> s, to |-> lead,
                                 rtt |-> [i \in Server |-> rttMap[s][i].ts]]}
    /\ count' = [count EXCEPT !.report = @ + 1]
    /\ UNCHANGED <<now, lead, rttMap, rttMap_old, penalty, timeout, nodeLatency,
                   probes, target, measured, over>>

\* Mutant of receiveReport: the two keys of nodeLatency are swapped.
reportSwapped(m) ==
    /\ reports' = reports \ {m}
    /\ nodeLatency' = IF m.to # lead THEN nodeLatency
                      ELSE [nodeLatency EXCEPT ![m.to] = [f \in Server |->
                              IF m.rtt[f] # 0
                              THEN [nodeLatency[m.to][f] EXCEPT ![m.from] = m.rtt[f]]
                              ELSE nodeLatency[m.to][f]]]
    /\ UNCHANGED <<now, lead, rttMap, rttMap_old, penalty, timeout, probes, target,
                   measured, over, count>>

\* stepLeader(MsgHeartbeatResp): the reported RTTs overwrite what was known.
receiveReport(m) ==
    /\ reports' = reports \ {m}
    /\ nodeLatency' = IF m.to # lead THEN nodeLatency
                      ELSE [nodeLatency EXCEPT ![m.to][m.from] =
                              [i \in Server |-> IF m.rtt[i] # 0 THEN m.rtt[i]
                                                ELSE nodeLatency[m.to][m.from][i]]]
    /\ UNCHANGED <<now, lead, rttMap, rttMap_old, penalty, timeout, probes, target,
                   measured, over, count>>

-----------------------------------------------------------------------------
SumOver(f, S) == MapThenSumSet(LAMBDA i : f[i], S)

\* Determine_network_deterioration: R_1 >= 0.0003
deteriorated(l) ==
    LET new  == SumOver([i \in Server |-> rttMap[l][i].ts], Server)
        diff == new - SumOver(rttMap_old[l], Server)
    IN  new # 0 /\ diff * 10000 >= 3 * new

reported(l, f) == {i \in Server : nodeLatency[l][f][i] # 0}

\* the keys of nodeLatency
reporters(l) == {f \in Server : reported(l, f) # {}}

\* CalBetterNodes, with the integer averages of the code
CalBetterNodes(l) ==
    LET own == samples(rttMap[l])
        avg == SumOver([i \in Server |-> rttMap[l][i].ts], own) \div Cardinality(own)
    IN  IF own = {} THEN {}
        ELSE {f \in reporters(l) :
                SumOver(nodeLatency[l][f], reported(l, f)) \div Cardinality(reported(l, f)) < avg}

\* Profit of f in percent: 0.33 * RRTdiff for every reporter, 0.3 * CommitLatencydiff
Profit(l, f) ==
    LET rtts == [i \in Server |-> rttMap[l][i].ts]
        diff == [i \in Server |-> rtts[i] - nodeLatency[l][f][i]]
    IN  33 * SumOver(diff, reporters(l)) +
        30 * (calculateMedian(rtts, samples(rttMap[l])) -
              calculateMedian(nodeLatency[l][f], reported(l, f)))

\* CalBestNode: the nodes it may return; maps are ranged over in any order
CalBestNode(l, better) ==
    LET half == Cardinality(Server) \div 2
        able == {f \in better : Cardinality(reported(l, f)) >= half /\ Profit(l, f) > 0}
        best == {f \in able : \A g \in able : Profit(l, f) >= Profit(l, g)}
    IN  IF Cardinality(samples(rttMap[l])) < half \/ able = {} THEN {l} ELSE best

\* tickHeartbeat past leaderTransferTimeout
TransferTick(l) ==
    /\ l = lead
    /\ deteriorated(l)
    /\ CalBetterNodes(l) # {}
    /\ target' \in CalBestNode(l, CalBetterNodes(l))
    /\ UNCHANGED <<now, lead, rttMap, rttMap_old, penalty, timeout, nodeLatency,
                   probes, reports, measured, over, count>>

\* An election (becomeCandidate, becomeFollower, becomeLeader) ends in a new
\* leader; every node resets its timeout.  No RTT information is forgotten.
Elected(l) ==
    /\ l # lead /\ count.election < MaxElections
    /\ lead' = l /\ target' = l
    /\ timeout' \in {t \in [Server -> UNION {resetTimeouts(penalty[s]) : s \in Server}] :
                        \A s \in Server : t[s] \in resetTimeouts(penalty[s])}
    /\ count' = [count EXCEPT !.election = @ + 1]
    /\ UNCHANGED <<now, rttMap, rttMap_old, penalty, nodeLatency, probes, reports,
                   measured, over>>

\* newRaft: the maps are made anew.  Answers to earlier probes may still come.
Restart(s) ==
    /\ s # lead /\ count.restart < MaxRestarts
    /\ rttMap' = [rttMap EXCEPT ![s] = [i \in Server |-> NoEntry]]
    /\ rttMap_old' = [rttMap_old EXCEPT ![s] = [i \in Server |-> 0]]
    /\ nodeLatency' = [nodeLatency EXCEPT ![s] = [f \in Server |-> [i \in Server |-> 0]]]
    /\ penalty' = [penalty EXCEPT ![s] = 0]
    /\ \E t \in resetTimeouts(0) : timeout' = [timeout EXCEPT ![s] = t]
    /\ count' = [count EXCEPT !.restart = @ + 1]
    /\ UNCHANGED <<now, lead, probes, reports, target, measured, over>>

Next ==
    \/ Tick
    \/ \E s \in Server :
        bcastProbeRtt(s) \/ handleHeartbeat(s) \/ TransferTick(s) \/ Elected(s) \/ Restart(s)
    \/ \E m \in probes : AnswerProbe(m) \/ calcRtt(m)
    \/ \E m \in reports : receiveReport(m)

Spec == Init /\ [][Next]_vars

-----------------------------------------------------------------------------
\* Every variable has its type.
TypeOK ==
    /\ now \in 0..MaxNow /\ lead \in Server /\ target \in Server
    /\ rttMap \in [Server -> [Server -> [known : BOOLEAN, at : 0..MaxNow, ts : Nat]]]
    /\ rttMap_old \in [Server -> [Server -> Nat]]
    /\ penalty \in [Server -> Nat] /\ timeout \in [Server -> Nat]
    /\ nodeLatency \in [Server -> [Server -> [Server -> Nat]]]
    /\ probes \subseteq [from : Server, to : Server, at : 0..MaxNow, back : BOOLEAN]
    /\ reports \subseteq [from : Server, to : Server, rtt : [Server -> Nat]]
    /\ measured \subseteq Server \X Server \X Nat
    /\ over \in BOOLEAN

\* What a leader believes about the RTT between two other nodes was once
\* measured by the node it is attributed to, whatever happened to reports,
\* leaders and processes in between (stepLeader MsgHeartbeatResp).
LatencyWasMeasured ==
    \A l, f, i \in Server :
        nodeLatency[l][f][i] # 0 => <<f, i, nodeLatency[l][f][i]>> \in measured

\* A node that probed since it was started never takes the RTT to be longer
\* than the round trip of the probe that was answered, even if probes overlap
\* or the answer is one to its previous incarnation (raft.go calcRtt).
RttNotOverestimated == ~over

=============================================================================
