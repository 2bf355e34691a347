---------------------------- MODULE GleeRttProofs ----------------------------
(***************************************************************************)
(* Proofs about GleeRtt, for any servers, clocks and bounds: what a node   *)
(* takes for an RTT was never longer than the round trip it answers for,   *)
(* and what a leader believes of two other nodes was measured by one.      *)
(*                                                                         *)
(* The first rests on the order of the clock: an entry has the time of the *)
(* last probe, so every probe under way was sent by then.  The second      *)
(* follows an RTT from the map of a node through its report to the leader. *)
(***************************************************************************)
EXTENDS GleeRtt, FiniteSetTheorems, WellFoundedInduction, TLAPS

\* The nonzero RTTs of a row of f were recorded by f at some time.
WasMeasured(f, row) == \A i \in Server : row[i] # 0 => <<f, i, row[i]>> \in measured

\* Probes go to other nodes and do not come from the future; the prober's entry, if it
\* has survived, has the time of this probe or of a later one.
ProbesInOrder ==
    \A m \in probes :
        /\ m.from # m.to
        /\ m.at <= now
        /\ rttMap[m.from][m.to].known => m.at <= rttMap[m.from][m.to].at

\* Wherever an RTT is stored or under way, it was recorded by the node it is
\* attributed to.
Measured ==
    /\ \A s \in Server : \A i \in Server :
            rttMap[s][i].ts # 0 => <<s, i, rttMap[s][i].ts>> \in measured
    /\ \A m \in reports : WasMeasured(m.from, m.rtt)
    /\ \A l \in Server : \A f \in Server : WasMeasured(f, nodeLatency[l][f])

\* No entry is from the future.
EntriesInOrder == \A s \in Server : \A i \in Server : rttMap[s][i].at <= now

IInv == TypeOK /\ EntriesInOrder /\ ProbesInOrder /\ Measured /\ RttNotOverestimated

-----------------------------------------------------------------------------
\* A probe that was sent no later than another one took no shorter (calcRtt).
LEMMA LaterIsShorter ==
    ASSUME NEW t \in Nat, NEW a \in Nat, NEW b \in Nat, NEW u \in Nat, a <= b
    PROVE  ~((t - b) * u > (t - a) * u)
<1> DEFINE d == b - a
           x == t - b
<1>1. /\ d \in Nat /\ x \in Int /\ t - a = x + d
  OBVIOUS
<1> HIDE DEF d, x
<1>2. (x + d) * u = x * u + d * u
  BY <1>1
<1>3. d * u >= 0
  BY <1>1
<1>4. x * u \in Int /\ d * u \in Int
  BY <1>1
<1>5. (t - b) * u = x * u
  BY DEF x
<1> QED BY <1>1, <1>2, <1>3, <1>4, <1>5

\* The least of some numbers is one of them (calculateMedian).
LEMMA MinIsNat ==
    ASSUME NEW S \in SUBSET Nat, S # {}
    PROVE  Min(S) \in Nat
<1>1. PICK m \in S : \A k \in S : ~ (<<k, m>> \in OpToRel(<, Nat))
  BY NatLessThanWellFounded, WFMin
<1>2. \A k \in S : ~(k < m)
  BY <1>1 DEF OpToRel
<1>3. \A k \in S : m <= k
  BY <1>2
<1> QED BY <1>3 DEF Min

\* What resetRandomizedElectionTimeout leaves behind is a time.
LEMMA ResetTimeouts ==
    ASSUME NEW pen \in Nat
    PROVE  resetTimeouts(pen) \subseteq Nat
BY RttAssumption DEF resetTimeouts

\* An elapsed time is a number of microseconds, averaged or not.
LEMMA ElapsedIsNat ==
    ASSUME NEW e \in [known : BOOLEAN, at : 0..MaxNow, ts : Nat], now \in Nat, e.at <= now
    PROVE  elapsedUs(e) \in Nat /\ newTimeStamp(e) \in Nat
<1>1. Unit \in Nat /\ Never \in Nat /\ e.at \in Int /\ e.known \in BOOLEAN
  BY RttAssumption
<1>2. now - e.at \in Nat
  BY <1>1
<1>3. (now - e.at) * Unit \in Nat
  BY <1>1, <1>2
<1>4. elapsedUs(e) \in Nat
  BY <1>1, <1>3 DEF elapsedUs
<1>5. ASSUME NEW x \in Nat
      PROVE  (x * 2 + x * 8) \div 10 \in Nat
  OBVIOUS
<1> QED BY <1>4, <1>5 DEF newTimeStamp

-----------------------------------------------------------------------------
\* The initial state satisfies the invariant.
LEMMA InitIInv == Init => IInv
<1> SUFFICES ASSUME Init PROVE IInv
  OBVIOUS
<1>1. NoEntry \in [known : BOOLEAN, at : 0..MaxNow, ts : Nat] /\ NoEntry.at = 0 /\ NoEntry.ts = 0
  BY RttAssumption DEF NoEntry
<1>2. timeout \in [Server -> Nat]
  BY ResetTimeouts DEF Init
<1>3. TypeOK
  BY <1>1, <1>2, RttAssumption DEF Init, TypeOK
<1>4. EntriesInOrder
  BY <1>1 DEF Init, EntriesInOrder
<1> QED BY <1>1, <1>3, <1>4 DEF Init, IInv, ProbesInOrder, Measured, WasMeasured, RttNotOverestimated

\* Time makes what has happened no later (Tick).
LEMMA TickIInv == IInv /\ Tick => IInv'
<1> SUFFICES ASSUME IInv, Tick PROVE IInv'
  OBVIOUS
<1>1. now \in Nat /\ now' = now + 1 /\ now' \in 0..MaxNow
  BY RttAssumption DEF IInv, TypeOK, Tick
<1>2. TypeOK'
  BY <1>1 DEF IInv, TypeOK, Tick
<1>3. EntriesInOrder'
  <2> SUFFICES ASSUME NEW s \in Server, NEW i \in Server PROVE rttMap[s][i].at <= now + 1
    BY <1>1 DEF EntriesInOrder, Tick
  <2>1. rttMap[s][i].at <= now /\ rttMap[s][i].at \in Int
    BY DEF IInv, EntriesInOrder, TypeOK
  <2> QED BY <1>1, <2>1
<1>4. ProbesInOrder'
  <2> SUFFICES ASSUME NEW m \in probes
               PROVE  m.from # m.to /\ m.at <= now + 1
                      /\ (rttMap[m.from][m.to].known => m.at <= rttMap[m.from][m.to].at)
    BY <1>1 DEF ProbesInOrder, Tick
  <2>1. m.at \in Int /\ m.at <= now
    BY DEF IInv, ProbesInOrder, TypeOK
  <2> QED BY <1>1, <2>1 DEF IInv, ProbesInOrder
<1> QED BY <1>2, <1>3, <1>4 DEF IInv, Tick, Measured, WasMeasured, RttNotOverestimated

\* A round of probes gives every entry the time of the round, which is the latest
\* (bcastProbeRtt).
LEMMA BcastIInv == ASSUME NEW s \in Server, IInv, bcastProbeRtt(s) PROVE IInv'
<1> DEFINE Row == [i \in Server |-> IF i = s THEN rttMap[s][i]
                                    ELSE [known |-> TRUE, at |-> now, ts |-> rttMap[s][i].ts]]
           Sent(i) == [from |-> s, to |-> i, at |-> now, back |-> FALSE]
           New == {Sent(i) : i \in Server \ {s}}
           Entry == [known : BOOLEAN, at : 0..MaxNow, ts : Nat]
<1>1. /\ rttMap' = [rttMap EXCEPT ![s] = Row] /\ probes' = probes \cup New
      /\ now' = now /\ measured' = measured /\ reports' = reports /\ over' = over
      /\ nodeLatency' = nodeLatency
  BY DEF bcastProbeRtt
<1>2. now \in 0..MaxNow /\ now \in Int /\ rttMap \in [Server -> [Server -> Entry]]
  BY RttAssumption DEF IInv, TypeOK
<1>3. Row \in [Server -> Entry]
  BY <1>2
<1>4. \A i \in Server : Row[i].ts = rttMap[s][i].ts
  BY <1>2
<1>5. \A i \in Server : i # s => Row[i].at = now
  OBVIOUS
<1>6. Row[s] = rttMap[s][s]
  OBVIOUS
<1>7. New \subseteq [from : Server, to : Server, at : 0..MaxNow, back : BOOLEAN]
  <2>1. \A i \in Server : Sent(i) \in [from : Server, to : Server, at : 0..MaxNow, back : BOOLEAN]
    BY <1>2
  <2> HIDE DEF Sent
  <2> QED BY <2>1
<1>8. \A m \in New : m.from = s /\ m.to # s /\ m.to \in Server /\ m.at = now
  OBVIOUS
<1> HIDE DEF Row, New
<1>9. rttMap' \in [Server -> [Server -> Entry]]
  BY <1>1, <1>2, <1>3
<1>10. \A q \in Server : rttMap'[q] = IF q = s THEN Row ELSE rttMap[q]
  BY <1>1, <1>2
<1>11. TypeOK'
  BY <1>1, <1>7, <1>9 DEF IInv, TypeOK, bcastProbeRtt
<1>12. EntriesInOrder'
  <2> SUFFICES ASSUME NEW q \in Server, NEW i \in Server PROVE rttMap'[q][i].at <= now
    BY <1>1 DEF EntriesInOrder
  <2>1. rttMap[q][i].at <= now
    BY DEF IInv, EntriesInOrder
  <2>2. now <= now
    BY <1>2
  <2> QED BY <1>5, <1>6, <1>10, <2>1, <2>2
<1>13. ProbesInOrder'
  <2> SUFFICES ASSUME NEW m \in probes'
               PROVE  m.from # m.to /\ m.at <= now
                      /\ (rttMap'[m.from][m.to].known => m.at <= rttMap'[m.from][m.to].at)
    BY <1>1 DEF ProbesInOrder
  <2>1. now <= now
    BY <1>2
  <2>2. CASE m \in New
    BY <1>5, <1>8, <1>10, <2>1, <2>2
  <2>3. CASE m \in probes
    <3>1. /\ m.from # m.to /\ m.at <= now /\ m.from \in Server /\ m.to \in Server
          /\ (rttMap[m.from][m.to].known => m.at <= rttMap[m.from][m.to].at)
      BY <2>3 DEF IInv, ProbesInOrder, TypeOK
    <3>2. CASE m.from = s
      BY <1>5, <1>10, <3>1, <3>2
    <3>3. CASE m.from # s
      BY <1>10, <3>1, <3>3
    <3> QED BY <3>2, <3>3
  <2> QED BY <1>1, <2>2, <2>3
<1>14. Measured'
  <2>1. \A q \in Server : \A i \in Server : rttMap'[q][i].ts = rttMap[q][i].ts
    BY <1>4, <1>10
  <2> QED BY <1>1, <2>1 DEF IInv, Measured, WasMeasured
<1> QED BY <1>1, <1>11, <1>12, <1>13, <1>14 DEF IInv, RttNotOverestimated

\* The answer has the time of the probe (Step MsgProbeRtt).
LEMMA AnswerIInv == ASSUME NEW m \in probes, IInv, AnswerProbe(m) PROVE IInv'
<1> DEFINE a == [m EXCEPT !.back = TRUE]
           Type == [from : Server, to : Server, at : 0..MaxNow, back : BOOLEAN]
<1>1. m \in Type
  BY DEF IInv, TypeOK
<1>2. a \in Type /\ a.from = m.from /\ a.to = m.to /\ a.at = m.at
  BY <1>1
<1>3. /\ probes' = (probes \ {m}) \cup {a}
      /\ now' = now /\ rttMap' = rttMap /\ measured' = measured /\ reports' = reports
      /\ over' = over /\ nodeLatency' = nodeLatency
  BY DEF AnswerProbe
<1> HIDE DEF a
<1>4. TypeOK'
  BY <1>2, <1>3 DEF IInv, TypeOK, AnswerProbe
<1>5. ProbesInOrder'
  BY <1>2, <1>3 DEF IInv, ProbesInOrder
<1> QED BY <1>3, <1>4, <1>5 DEF IInv, EntriesInOrder, Measured, WasMeasured, RttNotOverestimated

\* A row with a sample too few keeps the penalty; any other has one to take the median of.
LEMMA PenaltyIsNat ==
    ASSUME NEW row \in [Server -> [known : BOOLEAN, at : 0..MaxNow, ts : Nat]],
           NEW s \in Server, NEW i \in Server, s # i,
           ~(Cardinality(samples(row)) < Cardinality(Server) \div 2)
    PROVE  calculateMedian([j \in Server |-> row[j].ts], samples(row)) \div 100 \in Nat
<1>1. IsFiniteSet(Server) /\ Cardinality(Server) \in Nat
  BY RttAssumption, FS_CardinalityType
<1>2. Cardinality({s, i}) = 2
  <2>1. IsFiniteSet({s}) /\ Cardinality({s}) = 1 /\ i \notin {s}
    BY FS_Singleton
  <2>2. Cardinality({s} \cup {i}) = 1 + 1
    BY <2>1, FS_AddElement, Zenon
  <2>3. {s} \cup {i} = {s, i}
    OBVIOUS
  <2> QED BY <2>2, <2>3
<1>3. Cardinality({s, i}) <= Cardinality(Server)
  BY <1>1, FS_Subset
<1>4. Cardinality(Server) \div 2 >= 1
  BY <1>1, <1>2, <1>3
<1>5. samples(row) # {}
  <2>1. Cardinality({}) = 0
    BY FS_EmptySet
  <2>2. SUFFICES ASSUME samples(row) = {} PROVE FALSE
    OBVIOUS
  <2>3. ~(0 < Cardinality(Server) \div 2)
    BY <2>1, <2>2
  <2>4. Cardinality(Server) \div 2 \in Int
    BY <1>1
  <2> HIDE <2>2
  <2> QED BY <1>4, <2>3, <2>4
<1>6. PICK j \in samples(row) : TRUE
  BY <1>5
<1> DEFINE f == [k \in Server |-> row[k].ts]
           S == {f[k] : k \in samples(row)}
<1>7. f \in [Server -> Nat] /\ samples(row) \subseteq Server
  BY DEF samples
<1>8. f[j] \in S
  BY <1>6
<1>9. S \in SUBSET Nat /\ S # {}
  BY <1>7, <1>8
<1> HIDE DEF f, S
<1>10. Min(S) \in Nat
  BY <1>9, MinIsNat
<1>11. Min(S) \div 100 \in Nat
  BY <1>10
<1> QED BY <1>11 DEF calculateMedian, f, S

\* An answer is measured from the last probe, which is no older than the one answered;
\* what is stored is recorded at once (calcRtt).
LEMMA CalcIInv == ASSUME NEW m \in probes, IInv, calcRtt(m) PROVE IInv'
<1> DEFINE Entry == [known : BOOLEAN, at : 0..MaxNow, ts : Nat]
           s == m.from
           id == m.to
           e == rttMap[s][id]
           new == newTimeStamp(e)
           e2 == [e EXCEPT !.ts = new]
           row == [rttMap[s] EXCEPT ![id] = e2]
           pen == calculateMedian([i \in Server |-> row[i].ts], samples(row)) \div 100
           few == Cardinality(samples(row)) < Cardinality(Server) \div 2
<1>1. /\ m \in [from : Server, to : Server, at : 0..MaxNow, back : BOOLEAN]
      /\ now \in 0..MaxNow /\ now \in Nat /\ MaxNow \in Nat
      /\ rttMap \in [Server -> [Server -> Entry]]
  BY RttAssumption DEF IInv, TypeOK
<1>2. s \in Server /\ id \in Server /\ s # id /\ m.at \in Nat /\ m.at <= now
  BY <1>1 DEF IInv, ProbesInOrder
<1>3. e \in Entry /\ e.at \in Nat /\ e.at <= now
  BY <1>1, <1>2 DEF IInv, EntriesInOrder
<1>4. elapsedUs(e) \in Nat /\ new \in Nat
  BY <1>1, <1>3, ElapsedIsNat
<1>5. /\ probes' = probes \ {m}
      /\ rttMap_old' = [rttMap_old EXCEPT ![s][id] = e.ts]
      /\ rttMap' = [rttMap EXCEPT ![s] = row]
      /\ measured' = measured \cup {<<s, id, row[id].ts>>}
      /\ over' = \/ over
                 \/ e.known /\ elapsedUs(e) > (now - m.at) * Unit
      /\ now' = now /\ lead' = lead /\ nodeLatency' = nodeLatency /\ reports' = reports
      /\ target' = target
  BY DEF calcRtt
<1>6. IF few THEN /\ \E d \in Draws : timeout' = [timeout EXCEPT ![s] = electionTimeout + d]
                  /\ penalty' = penalty
             ELSE /\ penalty' = [penalty EXCEPT ![s] = pen]
                  /\ timeout' = [timeout EXCEPT ![s] = electionTimeout + pen]
  BY DEF calcRtt
<1> HIDE DEF new
<1>7. e2 \in Entry /\ e2.at = e.at /\ e2.known = e.known /\ e2.ts = new
  BY <1>3, <1>4
<1> HIDE DEF e2
<1>8. row \in [Server -> Entry] /\ row[id] = e2
      /\ \A i \in Server : i # id => row[i] = rttMap[s][i]
  BY <1>1, <1>2, <1>7
<1>9. penalty' \in [Server -> Nat] /\ timeout' \in [Server -> Nat]
  <2>1. penalty \in [Server -> Nat] /\ timeout \in [Server -> Nat]
    BY DEF IInv, TypeOK
  <2>2. CASE few
    <3>1. \A d \in Draws : electionTimeout + d \in Nat
      BY RttAssumption
    <3> QED BY <1>2, <1>6, <2>1, <2>2, <3>1
  <2>3. CASE ~few
    <3>1. pen \in Nat
      BY <1>2, <1>8, <2>3, PenaltyIsNat
    <3> HIDE DEF pen
    <3>2. electionTimeout + pen \in Nat
      BY <3>1, RttAssumption
    <3> QED BY <1>2, <1>6, <2>1, <2>3, <3>1, <3>2
  <2> QED BY <2>2, <2>3
<1> HIDE DEF row, few, pen
<1>10. \A q \in Server : rttMap'[q] = IF q = s THEN row ELSE rttMap[q]
  BY <1>1, <1>5
<1>11. rttMap' \in [Server -> [Server -> Entry]]
  BY <1>1, <1>5, <1>8
<1>12. rttMap_old' \in [Server -> [Server -> Nat]]
  <2>1. rttMap_old \in [Server -> [Server -> Nat]] /\ e.ts \in Nat
    BY <1>3 DEF IInv, TypeOK
  <2> HIDE DEF e
  <2> QED BY <1>2, <1>5, <2>1
<1>13. measured' = measured \cup {<<s, id, new>>}
  BY <1>5, <1>7, <1>8
<1>14. over' = FALSE
  <2>1. over = FALSE
    BY DEF IInv, RttNotOverestimated, TypeOK
  <2>2. ASSUME e.known PROVE ~(elapsedUs(e) > (now - m.at) * Unit)
    <3>1. m.at <= e.at
      BY <2>2 DEF IInv, ProbesInOrder
    <3>2. Unit \in Nat
      BY RttAssumption
    <3>3. ~((now - e.at) * Unit > (now - m.at) * Unit)
      BY <1>1, <1>2, <1>3, <3>1, <3>2, LaterIsShorter
    <3> QED BY <2>2, <3>3 DEF elapsedUs
  <2> QED BY <1>5, <2>1, <2>2
<1>15. TypeOK'
  <2>1. measured' \subseteq Server \X Server \X Nat
    BY <1>2, <1>4, <1>13 DEF IInv, TypeOK
  <2> QED BY <1>5, <1>9, <1>11, <1>12, <1>14, <2>1 DEF IInv, TypeOK
<1>16. EntriesInOrder'
  BY <1>3, <1>5, <1>7, <1>8, <1>10 DEF IInv, EntriesInOrder
<1>17. ProbesInOrder'
  <2> SUFFICES ASSUME NEW n \in probes
               PROVE  n.from # n.to /\ n.at <= now
                      /\ (rttMap'[n.from][n.to].known => n.at <= rttMap'[n.from][n.to].at)
    BY <1>5 DEF ProbesInOrder
  <2>1. /\ n.from # n.to /\ n.at <= now /\ n.from \in Server /\ n.to \in Server
        /\ (rttMap[n.from][n.to].known => n.at <= rttMap[n.from][n.to].at)
    BY DEF IInv, ProbesInOrder, TypeOK
  <2>2. /\ rttMap'[n.from][n.to].known = rttMap[n.from][n.to].known
        /\ rttMap'[n.from][n.to].at = rttMap[n.from][n.to].at
    BY <1>7, <1>8, <1>10, <2>1
  <2> QED BY <2>1, <2>2
<1>18. Measured'
  <2>1. \A x : x \in measured => x \in measured'
    BY <1>13
  <2>2. ASSUME NEW q \in Server, NEW i \in Server, rttMap'[q][i].ts # 0
        PROVE  <<q, i, rttMap'[q][i].ts>> \in measured'
    <3>1. CASE q = s /\ i = id
      BY <1>7, <1>8, <1>10, <1>13, <3>1
    <3>2. CASE ~(q = s /\ i = id)
      <4>1. rttMap'[q][i] = rttMap[q][i]
        BY <1>8, <1>10, <3>2
      <4> QED BY <2>1, <2>2, <4>1 DEF IInv, Measured
    <3> QED BY <3>1, <3>2
  <2>3. \A n \in reports : \A i \in Server : n.rtt[i] # 0 => <<n.from, i, n.rtt[i]>> \in measured'
    BY <2>1 DEF IInv, Measured, WasMeasured
  <2>4. \A l \in Server : \A f \in Server : \A i \in Server :
            nodeLatency[l][f][i] # 0 => <<f, i, nodeLatency[l][f][i]>> \in measured'
    BY <2>1 DEF IInv, Measured, WasMeasured
  <2> QED BY <1>5, <2>2, <2>3, <2>4 DEF Measured, WasMeasured
<1> QED BY <1>14, <1>15, <1>16, <1>17, <1>18 DEF IInv, RttNotOverestimated

\* A report has what its sender has recorded (handleHeartbeat).
LEMMA HeartbeatIInv == ASSUME NEW s \in Server, IInv, handleHeartbeat(s) PROVE IInv'
<1> DEFINE row == [i \in Server |-> rttMap[s][i].ts]
           report == [from |-> s, to |-> lead, rtt |-> row]
<1>1. row \in [Server -> Nat] /\ WasMeasured(s, row)
  BY DEF IInv, TypeOK, Measured, WasMeasured
<1>2. /\ reports' = reports \cup {report}
      /\ now' = now /\ rttMap' = rttMap /\ measured' = measured /\ probes' = probes
      /\ over' = over /\ nodeLatency' = nodeLatency
  BY DEF handleHeartbeat
<1> HIDE DEF row
<1>3. report \in [from : Server, to : Server, rtt : [Server -> Nat]]
      /\ report.from = s /\ report.rtt = row
  BY <1>1 DEF IInv, TypeOK
<1> HIDE DEF report
<1>4. TypeOK'
  BY <1>2, <1>3 DEF IInv, TypeOK, handleHeartbeat
<1>5. Measured'
  BY <1>1, <1>2, <1>3 DEF IInv, Measured, WasMeasured
<1> QED BY <1>2, <1>4, <1>5 DEF IInv, EntriesInOrder, ProbesInOrder, RttNotOverestimated

\* The leader files a report under its sender; what it lacks stays (stepLeader).
LEMMA ReportIInv == ASSUME NEW m \in reports, IInv, receiveReport(m) PROVE IInv'
<1> DEFINE old == nodeLatency[m.to][m.from]
           row == [i \in Server |-> IF m.rtt[i] # 0 THEN m.rtt[i] ELSE old[i]]
<1>1. /\ m.from \in Server /\ m.to \in Server /\ m.rtt \in [Server -> Nat]
      /\ nodeLatency \in [Server -> [Server -> [Server -> Nat]]]
  BY DEF IInv, TypeOK
<1>2. /\ reports' = reports \ {m}
      /\ nodeLatency' = IF m.to # lead THEN nodeLatency
                        ELSE [nodeLatency EXCEPT ![m.to][m.from] = row]
      /\ now' = now /\ rttMap' = rttMap /\ measured' = measured /\ probes' = probes
      /\ over' = over
  BY DEF receiveReport
<1>3. old \in [Server -> Nat] /\ WasMeasured(m.from, old) /\ WasMeasured(m.from, m.rtt)
  BY <1>1 DEF IInv, Measured
<1> HIDE DEF old
<1>4. row \in [Server -> Nat] /\ WasMeasured(m.from, row)
  BY <1>1, <1>3 DEF WasMeasured
<1> HIDE DEF row
<1>5. nodeLatency' \in [Server -> [Server -> [Server -> Nat]]]
  BY <1>1, <1>2, <1>4
<1>6. \A l \in Server : \A f \in Server :
          \/ nodeLatency'[l][f] = nodeLatency[l][f]
          \/ f = m.from /\ nodeLatency'[l][f] = row
  <2>1. CASE m.to # lead
    BY <1>2, <2>1
  <2>2. CASE m.to = lead
    BY <1>1, <1>2, <2>2
  <2> QED BY <2>1, <2>2
<1>7. TypeOK'
  BY <1>2, <1>5 DEF IInv, TypeOK, receiveReport
<1>8. \A l \in Server : \A f \in Server : WasMeasured(f, nodeLatency'[l][f])
  BY <1>4, <1>6 DEF IInv, Measured
<1>9. Measured'
  BY <1>2, <1>8 DEF IInv, Measured, WasMeasured
<1> QED BY <1>2, <1>7, <1>9 DEF IInv, EntriesInOrder, ProbesInOrder, RttNotOverestimated

\* A decision to transfer names a server and touches no RTT (tickHeartbeat).
LEMMA TransferIInv == ASSUME NEW l \in Server, IInv, TransferTick(l) PROVE IInv'
<1>1. CalBetterNodes(l) \subseteq Server
  BY DEF CalBetterNodes, reporters
<1>2. CalBestNode(l, CalBetterNodes(l)) \subseteq Server
  BY <1>1 DEF CalBestNode
<1>3. target' \in Server
  BY <1>2 DEF TransferTick
<1>4. TypeOK'
  BY <1>3 DEF IInv, TypeOK, TransferTick
<1> QED BY <1>4 DEF IInv, TransferTick, EntriesInOrder, ProbesInOrder, Measured, WasMeasured,
                    RttNotOverestimated

\* An election forgets no RTT and resets every timeout to one its node may draw.
LEMMA ElectedIInv == ASSUME NEW l \in Server, IInv, Elected(l) PROVE IInv'
<1>1. \A s \in Server : resetTimeouts(penalty[s]) \subseteq Nat
  BY ResetTimeouts DEF IInv, TypeOK
<1>2. timeout' \in [Server -> Nat]
  BY <1>1 DEF Elected
<1>3. TypeOK'
  BY <1>2 DEF IInv, TypeOK, Elected
<1> QED BY <1>3 DEF IInv, Elected, EntriesInOrder, ProbesInOrder, Measured, WasMeasured,
                    RttNotOverestimated

\* A restart leaves empty maps: what is unknown was not measured wrongly (newRaft).
LEMMA RestartIInv == ASSUME NEW s \in Server, IInv, Restart(s) PROVE IInv'
<1> DEFINE Entry == [known : BOOLEAN, at : 0..MaxNow, ts : Nat]
           row == [i \in Server |-> NoEntry]
           none == [i \in Server |-> 0]
           nobody == [f \in Server |-> none]
<1>1. NoEntry \in Entry /\ NoEntry.at = 0 /\ NoEntry.ts = 0 /\ NoEntry.known = FALSE
  BY RttAssumption DEF NoEntry
<1>2. /\ rttMap \in [Server -> [Server -> Entry]]
      /\ nodeLatency \in [Server -> [Server -> [Server -> Nat]]]
      /\ rttMap_old \in [Server -> [Server -> Nat]]
      /\ penalty \in [Server -> Nat] /\ timeout \in [Server -> Nat] /\ now \in Nat
  BY RttAssumption DEF IInv, TypeOK
<1>3. /\ rttMap' = [rttMap EXCEPT ![s] = row]
      /\ rttMap_old' = [rttMap_old EXCEPT ![s] = none]
      /\ nodeLatency' = [nodeLatency EXCEPT ![s] = nobody]
      /\ penalty' = [penalty EXCEPT ![s] = 0]
      /\ now' = now /\ measured' = measured /\ probes' = probes /\ over' = over
      /\ reports' = reports
  BY DEF Restart
<1>4. PICK t \in resetTimeouts(0) : timeout' = [timeout EXCEPT ![s] = t]
  BY DEF Restart
<1>5. timeout' \in [Server -> Nat]
  BY <1>2, <1>4, ResetTimeouts
<1>6. row \in [Server -> Entry] /\ none \in [Server -> Nat] /\ nobody \in [Server -> [Server -> Nat]]
  BY <1>1
<1>7. /\ \A i \in Server : row[i] = NoEntry
      /\ \A f \in Server : \A i \in Server : nobody[f][i] = 0
  OBVIOUS
<1> HIDE DEF row, none, nobody
<1>8. /\ rttMap' \in [Server -> [Server -> Entry]]
      /\ nodeLatency' \in [Server -> [Server -> [Server -> Nat]]]
      /\ rttMap_old' \in [Server -> [Server -> Nat]]
      /\ penalty' \in [Server -> Nat]
  BY <1>2, <1>3, <1>6
<1>9. /\ \A q \in Server : rttMap'[q] = IF q = s THEN row ELSE rttMap[q]
      /\ \A q \in Server : nodeLatency'[q] = IF q = s THEN nobody ELSE nodeLatency[q]
  BY <1>2, <1>3
<1>10. TypeOK'
  BY <1>3, <1>5, <1>8 DEF IInv, TypeOK, Restart
<1>11. EntriesInOrder'
  <2>1. 0 <= now
    BY <1>2
  <2> QED BY <1>1, <1>3, <1>7, <1>9, <2>1 DEF IInv, EntriesInOrder
<1>12. ProbesInOrder'
  <2>1. \A m \in probes : m.from \in Server /\ m.to \in Server
    BY DEF IInv, TypeOK
  <2> QED BY <1>1, <1>3, <1>7, <1>9, <2>1 DEF IInv, ProbesInOrder
<1>13. Measured'
  BY <1>1, <1>3, <1>7, <1>9 DEF IInv, Measured, WasMeasured
<1> QED BY <1>3, <1>10, <1>11, <1>12, <1>13 DEF IInv, RttNotOverestimated

\* Every step keeps the invariant.
LEMMA NextIInv == IInv /\ [Next]_vars => IInv'
<1> SUFFICES ASSUME IInv, [Next]_vars PROVE IInv'
  OBVIOUS
<1>1. CASE UNCHANGED vars
  BY <1>1 DEF vars, IInv, TypeOK, EntriesInOrder, ProbesInOrder, Measured, WasMeasured,
              RttNotOverestimated
<1>2. CASE Tick
  BY <1>2, TickIInv
<1>3. ASSUME NEW s \in Server,
             bcastProbeRtt(s) \/ handleHeartbeat(s) \/ TransferTick(s) \/ Elected(s) \/ Restart(s)
      PROVE  IInv'
  BY <1>3, BcastIInv, HeartbeatIInv, TransferIInv, ElectedIInv, RestartIInv
<1>4. ASSUME NEW m \in probes, AnswerProbe(m) \/ calcRtt(m)
      PROVE  IInv'
  BY <1>4, AnswerIInv, CalcIInv
<1>5. ASSUME NEW m \in reports, receiveReport(m)
      PROVE  IInv'
  BY <1>5, ReportIInv
<1> QED BY <1>1, <1>2, <1>3, <1>4, <1>5 DEF Next

\* The invariant of the RTT machinery.
LEMMA Invariant == Spec => []IInv
BY InitIInv, NextIInv, PTL DEF Spec

\* What a leader believes about the RTT between two nodes was measured by one of them
\* (stepLeader MsgHeartbeatResp, calcRtt).
THEOREM LatencyMeasured == Spec => []LatencyWasMeasured
<1>1. IInv => LatencyWasMeasured
  BY DEF IInv, Measured, WasMeasured, LatencyWasMeasured
<1> QED BY <1>1, Invariant, PTL

\* No node takes an RTT for longer than the round trip that was answered (calcRtt).
THEOREM NotOverestimated == Spec => []RttNotOverestimated
<1>1. IInv => RttNotOverestimated
  BY DEF IInv
<1> QED BY <1>1, Invariant, PTL

=============================================================================
