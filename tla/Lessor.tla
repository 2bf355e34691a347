------------------------------- MODULE Lessor -------------------------------
(***************************************************************************)
(* The lessors of a cluster (lease/lessor.go) under the raft log and under *)
(* time.                                                                   *)
(*                                                                         *)
(* Grants, revocations and checkpoints go through raft, expiry does not:   *)
(* the lessor of the leader alone gives its leases a deadline, answers     *)
(* renewals, and proposes to revoke what expired.  When leadership moves,  *)
(* the new leader starts all its leases afresh.                            *)
(*                                                                         *)
(* Every deadline is the time that is left, in seconds, so a behaviour may *)
(* go on for ever; what was committed and not yet applied by a server is   *)
(* its queue.  A raft request that is lost was dropped or timed out.       *)
(***************************************************************************)
EXTENDS Integers, Sequences

CONSTANTS
    Server, Lease,
    First,                \* the server that leads at first
    TTL,                  \* granted to every lease
    Extend,               \* the election timeout, given on top at a promotion
    RetryInterval,        \* expiredLeaseRetryInterval
    EnableLeaseCheckpoint, CheckpointInterval,
    None,
    MaxQueue,             \* bound on what is committed and not applied
    MaxChanges, MaxRenewals, MaxLost, \* bounds on leader changes, renewals, lost requests,
    MaxEvents             \* and on all of them

ASSUME LessorAssumption ==
    /\ First \in Server
    /\ TTL \in Nat \ {0} /\ RetryInterval \in Nat \ {0} /\ CheckpointInterval \in Nat \ {0}
    /\ EnableLeaseCheckpoint \in BOOLEAN /\ MaxQueue \in Nat
    /\ Extend \in Nat
    /\ None \notin Server \cup Nat \cup (Server \X {"renew", "loop"})
    /\ None \notin [remainingTTL : Nat, expiry : Nat]
    /\ MaxChanges \in Nat /\ MaxRenewals \in Nat /\ MaxLost \in Nat
    /\ MaxEvents \in Nat

VARIABLES
    lead,       \* the leader of the latest term
    isLeader,   \* what each server's etcdserver believes (s.isLeader)
    queue,      \* committed entries that a server has still to apply
    lessor,     \* the lessor of each server
    promoting,  \* has passed the isLeader test of applyEntryNormal
    revoking,   \* expired leases that a server is about to propose to revoke
    renewing,   \* the renewal that runs in a server
    checkpointing, \* the run loop waits for its LeaseCheckpoint request
    promised,   \* the time that the client was last promised (history)
    disturbed,  \* something happened that no promise survives (history)
    count       \* leader changes, renewals and lost requests so far

vars == <<lead, isLeader, queue, lessor, promoting, revoking, renewing, checkpointing,
          promised, disturbed, count>>

Forever  == TTL + Extend + 1
Deadline == 0..Forever
Waiter   == (Server \X {"renew", "loop"}) \cup {None}
Entry    == [type : {"grant", "revoke", "checkpoint"}, lease : Lease,
             remaining : 0..TTL, waiter : Waiter]
                \cup [type : {"empty"}, lease : {None}, remaining : {0}, waiter : {None}]
LeaseInfo == [remainingTTL : 0..TTL, expiry : Deadline]
LessorState == [primary : BOOLEAN, lease : [Lease -> LeaseInfo \cup {None}],
                notifier : [Lease -> Nat \cup {None}],
                checkpoints : SUBSET (Lease \X (0..CheckpointInterval))]
Idle     == [pc |-> "idle", lease |-> None]
Renewal  == {Idle} \cup [pc : {"clear", "wait", "refresh"}, lease : Lease]

Msg(type, l, remaining, waiter) ==
    [type |-> type, lease |-> l, remaining |-> remaining, waiter |-> waiter]

Held(le)    == {l \in Lease : le.lease[l] # None}
NewLessor   == [primary |-> FALSE, lease |-> [l \in Lease |-> None],
                notifier |-> [l \in Lease |-> None], checkpoints |-> {}]

Init ==
    /\ lead = First
    /\ isLeader = [s \in Server |-> s = lead]
    /\ queue = [s \in Server |-> <<>>]
    /\ lessor = [s \in Server |-> [NewLessor EXCEPT !.primary = (s = lead)]]
    /\ promoting = [s \in Server |-> FALSE]
    /\ revoking = [s \in Server |-> {}]
    /\ renewing = [s \in Server |-> Idle]
    /\ checkpointing = [s \in Server |-> FALSE]
    /\ promised = [l \in Lease |-> None]
    /\ disturbed = FALSE
    /\ count = [change |-> 0, renewal |-> 0, lost |-> 0]

----------------------------------------------------------------------------
(* A lessor and its leases *)

RemainingTTL(i) == IF i.remainingTTL > 0 THEN i.remainingTTL ELSE TTL

Refreshed(i, extend) == [i EXCEPT !.expiry = extend + RemainingTTL(i)]

\* scheduleCheckpointIfNeeded
Scheduled(le, l) ==
    IF EnableLeaseCheckpoint /\ RemainingTTL(le.lease[l]) > CheckpointInterval
    THEN [le EXCEPT !.checkpoints = @ \cup {<<l, CheckpointInterval>>}]
    ELSE le

\* refresh and RegisterOrUpdate: the notifier keeps one time for a lease.
Watched(le, l, extend) ==
    LET i == Refreshed(le.lease[l], extend)
    IN  [le EXCEPT !.lease[l] = i, !.notifier[l] = i.expiry]

Grant(le, l) ==
    LET new == [le EXCEPT !.lease[l] = [remainingTTL |-> 0, expiry |-> Forever]]
    IN  IF le.lease[l] # None THEN le
        ELSE IF le.primary THEN Scheduled(Watched(new, l, 0), l)
        ELSE new

\* the notifier and the checkpoints forget the lease later, when they come to it
Revoke(le, l) == [le EXCEPT !.lease[l] = None]

\* Mutant of Checkpoint: only the primary takes it.
CheckpointPrimaryOnly(le, l, remaining) ==
    IF le.lease[l] = None \/ ~le.primary THEN le
    ELSE Scheduled([le EXCEPT !.lease[l].remainingTTL = remaining], l)

Checkpoint(le, l, remaining) ==
    LET new == [le EXCEPT !.lease[l].remainingTTL = remaining]
    IN  IF le.lease[l] = None THEN le
        ELSE IF le.primary THEN Scheduled(new, l)
        ELSE new

\* Mutant of Promote: leases keep the deadline that they had.
PromoteNoRefresh(le) == [le EXCEPT !.primary = TRUE]

Promote(le) ==
    LET new == [le EXCEPT !.primary = TRUE,
                          !.lease = [l \in Lease |-> IF @[l] = None THEN None
                                                    ELSE Refreshed(@[l], Extend)],
                          !.notifier = [l \in Lease |-> IF le.lease[l] = None THEN @[l]
                                            ELSE Refreshed(le.lease[l], Extend).expiry]]
    IN  [new EXCEPT !.checkpoints = @ \cup UNION {Scheduled(new, l).checkpoints : l \in Held(le)}]

Demote(le) ==
    [NewLessor EXCEPT !.lease = [l \in Lease |->
        IF le.lease[l] = None THEN None ELSE [le.lease[l] EXCEPT !.expiry = Forever]]]

\* Renew's last step works on the Lease it looked up before: if that lease was
\* revoked meanwhile, only the notifier hears of it.
Renew(le, l) ==
    IF le.lease[l] # None THEN Watched(le, l, 0)
    ELSE [le EXCEPT !.notifier[l] = TTL]

----------------------------------------------------------------------------
(* Raft, as the lessors see it *)

Commit(e) ==
    /\ \A s \in Server : Len(queue[s]) < MaxQueue
    /\ queue' = [s \in Server |-> Append(queue[s], e)]

Counted(k, max) ==
    /\ count[k] < max /\ count.change + count.renewal + count.lost < MaxEvents
    /\ count' = [count EXCEPT ![k] = @ + 1]

\* Another server wins an election and commits its empty entry.  Its own etcdserver
\* knows before it applies that entry (updateLeadership); the others learn later.
ChangeLeader(s) ==
    /\ s # lead
    /\ Counted("change", MaxChanges)
    /\ lead' = s
    /\ isLeader' = [isLeader EXCEPT ![s] = TRUE]
    /\ Commit(Msg("empty", None, 0, None))
    /\ UNCHANGED <<lessor, promoting, revoking, renewing, checkpointing, promised, disturbed>>

UpdateLeadership(s) ==
    /\ isLeader[s] /\ s # lead
    /\ isLeader' = [isLeader EXCEPT ![s] = FALSE]
    /\ lessor' = [lessor EXCEPT ![s] = Demote(@)]
    /\ UNCHANGED <<lead, queue, promoting, revoking, renewing, checkpointing, promised,
                   disturbed, count>>

----------------------------------------------------------------------------
(* The apply loop of a server *)

Applied(le, e) ==
    CASE e.type = "grant"      -> Grant(le, e.lease)
      [] e.type = "revoke"     -> Revoke(le, e.lease)
      [] e.type = "checkpoint" -> Checkpoint(le, e.lease, e.remaining)
      [] e.type = "empty"      -> le

\* An empty entry of raft: the server promotes its lessor if it leads.  The request
\* that waits for an entry goes on when its own server applied it.
ApplyEntry(s) ==
    /\ queue[s] # <<>> /\ ~promoting[s]
    /\ LET e == Head(queue[s])
       IN  /\ lessor' = [lessor EXCEPT ![s] = Applied(@, e)]
           /\ promoting' = [promoting EXCEPT ![s] = e.type = "empty" /\ isLeader[s]]
           /\ renewing' = IF e.waiter = <<s, "renew">>
                          THEN [renewing EXCEPT ![s].pc = "refresh"] ELSE renewing
           /\ checkpointing' = IF e.waiter = <<s, "loop">>
                               THEN [checkpointing EXCEPT ![s] = FALSE] ELSE checkpointing
           /\ disturbed' = (disturbed \/ (e.type = "revoke" /\ renewing[s].lease = e.lease))
    /\ queue' = [queue EXCEPT ![s] = Tail(@)]
    /\ UNCHANGED <<lead, isLeader, revoking, promised, count>>

\* The test and the call are two steps: a demotion may come in between.
PromoteLessor(s) ==
    /\ promoting[s]
    /\ promoting' = [promoting EXCEPT ![s] = FALSE]
    /\ lessor' = [lessor EXCEPT ![s] = Promote(@)]
    /\ UNCHANGED <<lead, isLeader, queue, revoking, renewing, checkpointing, promised,
                   disturbed, count>>

----------------------------------------------------------------------------
(* The run loop of a lessor *)

Due(le) == {l \in Lease : le.notifier[l] = 0}

\* Mutant of revokeExpiredLeases: what was reported once is not looked at again.
revokeExpiredLeasesOnce(s) ==
    /\ lessor[s].primary /\ ~checkpointing[s] /\ Due(lessor[s]) # {}
    /\ lessor' = [lessor EXCEPT ![s].notifier =
                    [l \in Lease |-> IF l \in Due(lessor[s]) THEN None ELSE @[l]]]
    /\ revoking' = [revoking EXCEPT ![s] = @ \cup
                    {l \in Due(lessor[s]) \cap Held(lessor[s]) : lessor[s].lease[l].expiry = 0}]
    /\ UNCHANGED <<lead, isLeader, queue, promoting, renewing, checkpointing, promised,
                   disturbed, count>>

\* Expired leases go to the server, and are looked at again after the retry
\* interval; leases that are gone leave the notifier.
revokeExpiredLeases(s) ==
    /\ lessor[s].primary /\ ~checkpointing[s] /\ Due(lessor[s]) # {}
    /\ lessor' = [lessor EXCEPT ![s].notifier =
                    [l \in Lease |-> IF l \notin Due(lessor[s]) THEN @[l]
                                     ELSE IF l \in Held(lessor[s]) THEN RetryInterval
                                     ELSE None]]
    /\ revoking' = [revoking EXCEPT ![s] = @ \cup
                    {l \in Due(lessor[s]) \cap Held(lessor[s]) : lessor[s].lease[l].expiry = 0}]
    /\ UNCHANGED <<lead, isLeader, queue, promoting, renewing, checkpointing, promised,
                   disturbed, count>>

\* LeaseRevoke for one of them.  Nobody asks whether the server still leads, and a
\* follower forwards the proposal.
ProposeRevoke(s) ==
    /\ \E l \in revoking[s] :
        /\ revoking' = [revoking EXCEPT ![s] = @ \ {l}]
        /\ Commit(Msg("revoke", l, 0, None))
    /\ UNCHANGED <<lead, isLeader, lessor, promoting, renewing, checkpointing, promised,
                   disturbed, count>>

LoseRevoke(s) ==
    /\ Counted("lost", MaxLost)
    /\ \E l \in revoking[s] : revoking' = [revoking EXCEPT ![s] = @ \ {l}]
    /\ UNCHANGED <<lead, isLeader, queue, lessor, promoting, renewing, checkpointing,
                   promised, disturbed>>

\* A scheduled checkpoint is due: what is left of the lease goes through raft.
\* (One at a time; the code takes a batch.)
checkpointScheduledLeases(s) ==
    /\ lessor[s].primary /\ ~checkpointing[s]
    /\ \E c \in lessor[s].checkpoints :
        /\ c[2] = 0
        /\ lessor' = [lessor EXCEPT ![s].checkpoints = @ \ {c}]
        /\ LET i == lessor[s].lease[c[1]]
           IN  IF i # None /\ i.expiry > 0 /\ i.expiry < TTL
               THEN /\ Commit(Msg("checkpoint", c[1], i.expiry, <<s, "loop">>))
                    /\ checkpointing' = [checkpointing EXCEPT ![s] = TRUE]
               ELSE UNCHANGED <<queue, checkpointing>>
        /\ disturbed' = (disturbed \/ renewing[s].lease = c[1])
    /\ UNCHANGED <<lead, isLeader, promoting, revoking, renewing, promised, count>>

----------------------------------------------------------------------------
(* Clients *)

\* A lease is granted once; the client counts from its request.
GrantLease(l) ==
    /\ promised[l] = None
    /\ promised' = [promised EXCEPT ![l] = TTL]
    /\ Commit(Msg("grant", l, 0, None))
    /\ UNCHANGED <<lead, isLeader, lessor, promoting, revoking, renewing, checkpointing,
                   disturbed, count>>

\* Renew at a primary that has applied what it knows to be committed.  (A lease that
\* has expired makes it wait for the revocation, and fail.)
StartRenew(s, l) ==
    /\ renewing[s] = Idle
    /\ s = lead => queue[s] = <<>>
    /\ lessor[s].primary /\ l \in Held(lessor[s]) /\ lessor[s].lease[l].expiry > 0
    /\ Counted("renewal", MaxRenewals)
    /\ renewing' = [renewing EXCEPT ![s] =
            [pc |-> IF EnableLeaseCheckpoint /\ lessor[s].lease[l].remainingTTL > 0
                    THEN "clear" ELSE "refresh", lease |-> l]]
    /\ UNCHANGED <<lead, isLeader, queue, lessor, promoting, revoking, checkpointing,
                   promised, disturbed>>

\* A lease with a checkpoint has it cleared through raft first; the error of a
\* request that fails is ignored.
ProposeClear(s) ==
    /\ renewing[s].pc = "clear"
    /\ renewing' = [renewing EXCEPT ![s].pc = "wait"]
    /\ Commit(Msg("checkpoint", renewing[s].lease, 0, <<s, "renew">>))
    /\ UNCHANGED <<lead, isLeader, lessor, promoting, revoking, checkpointing, promised,
                   disturbed, count>>

LoseClear(s) ==
    /\ renewing[s].pc = "clear"
    /\ Counted("lost", MaxLost)
    /\ renewing' = [renewing EXCEPT ![s].pc = "refresh"]
    /\ disturbed' = TRUE
    /\ UNCHANGED <<lead, isLeader, queue, lessor, promoting, revoking, checkpointing, promised>>

\* Mutant of EndRenew: the new deadline is not set.
EndRenewNoRefresh(s) ==
    /\ renewing[s].pc = "refresh"
    /\ renewing' = [renewing EXCEPT ![s] = Idle]
    /\ promised' = [promised EXCEPT ![renewing[s].lease] = TTL]
    /\ UNCHANGED <<lead, isLeader, queue, lessor, promoting, revoking, checkpointing,
                   disturbed, count>>

\* Whatever happened since the lease was looked up, the answer is its TTL.
EndRenew(s) ==
    /\ renewing[s].pc = "refresh"
    /\ renewing' = [renewing EXCEPT ![s] = Idle]
    /\ lessor' = [lessor EXCEPT ![s] = Renew(@, renewing[s].lease)]
    /\ promised' = [promised EXCEPT ![renewing[s].lease] = TTL]
    /\ UNCHANGED <<lead, isLeader, queue, promoting, revoking, checkpointing, disturbed, count>>

----------------------------------------------------------------------------
Less(t) == IF t = None \/ t = 0 THEN t ELSE t - 1

Later(i) == IF i = None \/ i.expiry = Forever THEN i ELSE [i EXCEPT !.expiry = Less(@)]

\* A second passes for everybody.
Tick ==
    /\ \E l \in Lease : promised[l] # None
    /\ lessor' = [s \in Server |-> [lessor[s] EXCEPT
            !.lease       = [l \in Lease |-> Later(@[l])],
            !.notifier    = [l \in Lease |-> Less(@[l])],
            !.checkpoints = {<<c[1], Less(c[2])>> : c \in @}]]
    /\ promised' = [l \in Lease |-> Less(promised[l])]
    /\ disturbed' = (disturbed \/ \E s \in Server : renewing[s] # Idle)
    /\ UNCHANGED <<lead, isLeader, queue, promoting, revoking, renewing, checkpointing, count>>

\* What goroutines of a server do without being asked.
Loop(s) ==
    \/ ApplyEntry(s) \/ PromoteLessor(s) \/ UpdateLeadership(s)
    \/ revokeExpiredLeases(s) \/ ProposeRevoke(s) \/ checkpointScheduledLeases(s)
    \/ ProposeClear(s) \/ EndRenew(s)

Next ==
    \/ Tick
    \/ \E l \in Lease : GrantLease(l)
    \/ \E s \in Server :
        \/ Loop(s) \/ ChangeLeader(s) \/ LoseRevoke(s) \/ LoseClear(s)
        \/ \E l \in Lease : StartRenew(s, l)

Fairness ==
    /\ WF_vars(Tick)
    /\ \A s \in Server :
        /\ WF_vars(ApplyEntry(s)) /\ WF_vars(PromoteLessor(s))
        /\ WF_vars(revokeExpiredLeases(s)) /\ WF_vars(ProposeRevoke(s))

Spec == Init /\ [][Next]_vars /\ Fairness

----------------------------------------------------------------------------
(* Properties *)

\* Lessors, queues and requests have their types.
TypeOK ==
    /\ lead \in Server /\ isLeader \in [Server -> BOOLEAN]
    /\ queue \in [Server -> Seq(Entry)] /\ \A s \in Server : Len(queue[s]) <= MaxQueue
    /\ lessor \in [Server -> LessorState]
    /\ promoting \in [Server -> BOOLEAN] /\ revoking \in [Server -> SUBSET Lease]
    /\ renewing \in [Server -> Renewal] /\ checkpointing \in [Server -> BOOLEAN]
    /\ promised \in [Lease -> (0..TTL) \cup {None}]

\* Deadlines, promotions and renewals are a server's own; which leases exist and what
\* was checkpointed of them is the same wherever the same entries were applied.
LeasesAgree ==
    \A s, t \in Server :
        queue[s] = queue[t] =>
            \A l \in Lease :
                IF lessor[s].lease[l] = None THEN lessor[t].lease[l] = None
                ELSE /\ lessor[t].lease[l] # None
                     /\ lessor[s].lease[l].remainingTTL = lessor[t].lease[l].remainingTTL

\* No lease of a primary lessor is immortal: it has a deadline, and the notifier comes
\* back to it by then or after the retry interval, through grants, promotions,
\* renewals that race with them, and revocations that got lost.
ExpiryIsWatched ==
    \A s \in Server : lessor[s].primary => \A l \in Held(lessor[s]) :
        /\ lessor[s].lease[l].expiry # Forever
        /\ lessor[s].notifier[l] # None
        /\ \/ lessor[s].notifier[l] <= lessor[s].lease[l].expiry
           \/ lessor[s].notifier[l] <= RetryInterval

Gone(s, l) ==
    /\ promised[l] # None /\ lessor[s].lease[l] = None
    /\ \A i \in DOMAIN queue[s] : queue[s][i].type # "grant" \/ queue[s][i].lease # l

\* While a client was promised time, its lease is there.
Promised == \A s \in Server, l \in Lease : Gone(s, l) => promised[l] = 0

\* "Grant grants a lease that expires at least after TTL seconds", and a renewal gives
\* that time again: under one leader the lease stays until then, as long as no request
\* of a renewal is lost, a renewal takes no time, and neither a scheduled checkpoint
\* nor the revocation of the lease gets between its steps.
PromiseKeptByLeader == ~disturbed /\ count.change = 0 => Promised

\* A lease that is not renewed any more is revoked everywhere, although revocations get
\* lost and leaders change.
LeasesEnd ==
    \A l \in Lease : promised[l] # None ~> \A s \in Server : Gone(s, l)

=============================================================================
