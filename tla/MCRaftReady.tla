---------------------------- MODULE MCRaftReady ----------------------------
(***************************************************************************)
(* Instances of RaftReady: three servers, of which First leads and has     *)
(* its first entry on every disk, committed and applied.                   *)
(***************************************************************************)
EXTENDS RaftReady, TLC

CONSTANTS First, Second

Uniform == [s \in Server |-> <<Server, {}>>]

FirstLog == <<[term |-> 1, data |-> None]>>

Led ==
    /\ node = [s \in Server |->
            [newRaft(s, 1, First, FirstLog, 1) EXCEPT
                !.lead = First,
                !.state = IF s = First THEN Leader ELSE Follower,
                !.prs = IF s # First THEN NoProgress
                        ELSE [i \in Server |-> [BecomeReplicate(NewProgress(1, 2)) EXCEPT
                                                    !.RecentActive = (i # First)]]]]
    /\ outbox = [s \in Server |-> {}]
    /\ offset = [s \in Server |-> 2]
    /\ applied = [s \in Server |-> 1]
    /\ prevHardSt = [s \in Server |-> Hard(node[s])]
    /\ storage = [s \in Server |-> FirstLog]
    /\ ready = [s \in Server |-> NoReady]
    /\ wal = [s \in Server |-> [hard |-> prevHardSt[s], log |-> FirstLog]]
    /\ net = {}
    /\ delivered = [s \in Server |-> FirstLog] /\ decided = FirstLog
    /\ timeouts = [s \in Server |-> 0] /\ crashes = [s \in Server |-> 0]

LedSpec == Led /\ [][Next]_vars

\* Second campaigns once, First crashes once.
SecondOnce == [s \in Server |-> IF s = Second THEN 1 ELSE 0]
FirstOnce  == [s \in Server |-> IF s = First THEN 1 ELSE 0]

=============================================================================
