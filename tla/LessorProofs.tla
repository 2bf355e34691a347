---------------------------- MODULE LessorProofs ----------------------------
(***************************************************************************)
(* Proofs about Lessor, for any servers, leases, times and bounds: the     *)
(* types, that no lease of a primary lessor is forgotten                   *)
(* (ExpiryIsWatched), that lessors which applied the same entries have the *)
(* same leases (LeasesAgree), and that a lease stays as long as its client *)
(* was promised, under one leader (PromiseKeptByLeader).                   *)
(*                                                                         *)
(* ExpiryIsWatched says of each lessor that it is Watching; whatever an    *)
(* entry, a promotion, a renewal or the clock does to a lessor, it goes on *)
(* watching.  A follower's lessor watches nothing, and so Promote has to   *)
(* put every lease back into the notifier.                                 *)
(*                                                                         *)
(* LeasesAgree says of two lessors that a log and what its entries make of *)
(* the leases, one after the other, explain them both (SameLog): no step   *)
(* but the application of an entry changes what lessors have in common,    *)
(* and who applies it does not matter.                                     *)
(*                                                                         *)
(* PromiseKeptByLeader needs what the first leader knows of a lease: its   *)
(* promise is never later than its deadline (Kept), a lease that is being  *)
(* renewed has not expired and no checkpoint shortens it meanwhile         *)
(* (Renewable, Clears), and once somebody reported it expired, proposed to *)
(* revoke it or lost it, the promise is over and stays so (Ending, Dead).  *)
(***************************************************************************)
EXTENDS Lessor, TLAPS

Watching(le) ==
    le.primary => \A l \in Lease : le.lease[l] # None =>
        /\ le.lease[l].expiry # Forever
        /\ le.notifier[l] # None
        /\ \/ le.notifier[l] <= le.lease[l].expiry
           \/ le.notifier[l] <= RetryInterval

Good(le) == le \in LessorState /\ Watching(le)

Waits(s, i) == queue[s][i].waiter = <<s, "renew">>

\* A renewal that goes through raft waits for one entry, its own.
RenewalWaits(s) ==
    \A i \in 1..Len(queue[s]) : Waits(s, i) =>
        /\ renewing[s].pc = "wait"
        /\ \A j \in 1..Len(queue[s]) : Waits(s, j) => i = j

IInv == TypeOK /\ \A s \in Server : Watching(lessor[s]) /\ RenewalWaits(s)

-----------------------------------------------------------------------------
(* Leases and times *)

\* Where times and deadlines lie.
LEMMA Times ==
    /\ Forever \in Nat /\ Forever = TTL + Extend + 1 /\ Deadline \subseteq Nat
    /\ None \notin Nat /\ None \notin Deadline /\ None \notin LeaseInfo
    /\ TTL \in Nat /\ Extend \in Nat /\ RetryInterval \in Nat /\ CheckpointInterval \in Nat
    /\ CheckpointInterval \in 0..CheckpointInterval
BY LessorAssumption DEF Forever, Deadline, LeaseInfo

\* A refreshed lease has a deadline.
LEMMA RefreshedType ==
    ASSUME NEW i \in LeaseInfo, NEW extend \in {0, Extend}
    PROVE  /\ Refreshed(i, extend) \in LeaseInfo
           /\ Refreshed(i, extend).expiry \in Deadline
           /\ Refreshed(i, extend).expiry < Forever
<1>1. RemainingTTL(i) \in 0..TTL
    BY Times DEF RemainingTTL, LeaseInfo
<1>2. extend + RemainingTTL(i) \in Deadline /\ extend + RemainingTTL(i) < Forever
    BY <1>1, Times DEF Deadline
<1>3. Refreshed(i, extend).expiry = extend + RemainingTTL(i)
    BY DEF Refreshed, LeaseInfo
<1> DEFINE t == extend + RemainingTTL(i)
<1>4. Refreshed(i, extend) = [i EXCEPT !.expiry = t]
    BY DEF Refreshed
<1> HIDE DEF t
<1>5. t \in Deadline => [i EXCEPT !.expiry = t] \in LeaseInfo
    BY DEF LeaseInfo
<1> QED
    BY <1>2, <1>3, <1>4, <1>5 DEF t

-----------------------------------------------------------------------------
(* What becomes of a lessor *)

\* Checkpoints have no part in it.
LEMMA ScheduledGood ==
    ASSUME NEW le, Good(le), NEW l \in Lease
    PROVE  Good(Scheduled(le, l))
<1>1. <<l, CheckpointInterval>> \in Lease \X (0..CheckpointInterval)
    BY Times
<1> DEFINE cs == le.checkpoints \cup {<<l, CheckpointInterval>>}
           r  == [le EXCEPT !.checkpoints = cs]
<1>2. cs \in SUBSET (Lease \X (0..CheckpointInterval))
    BY <1>1 DEF Good, LessorState
<1> HIDE DEF cs
<1>3. r \in LessorState /\ r.primary = le.primary /\ r.lease = le.lease /\ r.notifier = le.notifier
    BY <1>2 DEF Good, LessorState
<1> HIDE DEF r
<1>4. Good(r)
    BY <1>3 DEF Good, Watching
<1> QED
    BY <1>4 DEF Scheduled, r, cs

\* Watched gives a lease that is there a deadline, and the notifier the same time.
LEMMA WatchedGood ==
    ASSUME NEW le \in LessorState, NEW l \in Lease, le.lease[l] # None,
           \A x \in Lease \ {l} : le.primary /\ le.lease[x] # None =>
                /\ le.lease[x].expiry # Forever
                /\ le.notifier[x] # None
                /\ \/ le.notifier[x] <= le.lease[x].expiry
                   \/ le.notifier[x] <= RetryInterval,
           NEW extend \in {0, Extend}
    PROVE  Good(Watched(le, l, extend))
<1> DEFINE i == Refreshed(le.lease[l], extend)
           t == i.expiry
           f == [le.lease EXCEPT ![l] = i]
           g == [le.notifier EXCEPT ![l] = t]
           r == [le EXCEPT !.lease = f, !.notifier = g]
<1>1. le.lease[l] \in LeaseInfo
    BY DEF LessorState
<1>2. i \in LeaseInfo /\ t \in Nat /\ t < Forever /\ t = i.expiry
    BY <1>1, RefreshedType, Times
<1>3. Watched(le, l, extend) = r
    BY DEF Watched, LessorState
<1> HIDE DEF i, t
<1>4. /\ f \in [Lease -> LeaseInfo \cup {None}]
      /\ g \in [Lease -> Nat \cup {None}]
      /\ \A x \in Lease : /\ f[x] = IF x = l THEN i ELSE le.lease[x]
                          /\ g[x] = IF x = l THEN t ELSE le.notifier[x]
    BY <1>2 DEF LessorState
<1> HIDE DEF f, g
<1>5. r \in LessorState /\ r.primary = le.primary /\ r.lease = f /\ r.notifier = g
    BY <1>4 DEF LessorState
<1> HIDE DEF r
<1>6. t <= i.expiry /\ t # None /\ i.expiry # Forever
    BY <1>2, Times
<1>7. Watching(r)
    BY <1>4, <1>5, <1>6 DEF Watching
<1> QED
    BY <1>3, <1>5, <1>7 DEF Good

\* A granted lease is watched, if the lessor watches any.
LEMMA GrantGood ==
    ASSUME NEW le, Good(le), NEW l \in Lease
    PROVE  Good(Grant(le, l))
<1> DEFINE i   == [remainingTTL |-> 0, expiry |-> Forever]
           f   == [le.lease EXCEPT ![l] = i]
           new == [le EXCEPT !.lease = f]
<1>1. CASE le.lease[l] # None
    BY <1>1 DEF Grant
<1>2. CASE le.lease[l] = None
    <2>1. i \in LeaseInfo /\ i # None
        BY Times DEF LeaseInfo, Deadline
    <2> HIDE DEF i
    <2>2. f \in [Lease -> LeaseInfo \cup {None}]
          /\ \A x \in Lease : f[x] = IF x = l THEN i ELSE le.lease[x]
        BY <2>1 DEF Good, LessorState
    <2> HIDE DEF f
    <2>3. /\ new \in LessorState /\ new.primary = le.primary
          /\ new.lease = f /\ new.notifier = le.notifier
        BY <2>2 DEF Good, LessorState
    <2>4. Grant(le, l) = IF le.primary THEN Scheduled(Watched(new, l, 0), l) ELSE new
        BY <1>2 DEF Grant, f, i
    <2> HIDE DEF new
    <2>5. CASE le.primary
        <3>1. new.lease[l] # None
            BY <2>1, <2>2, <2>3
        <3>2. \A x \in Lease \ {l} : new.primary /\ new.lease[x] # None =>
                /\ new.lease[x].expiry # Forever
                /\ new.notifier[x] # None
                /\ \/ new.notifier[x] <= new.lease[x].expiry
                   \/ new.notifier[x] <= RetryInterval
            BY <2>2, <2>3 DEF Good, Watching
        <3>3. Good(Watched(new, l, 0))
            BY <2>3, <3>1, <3>2, WatchedGood
        <3> QED
            BY <2>4, <2>5, <3>3, ScheduledGood
    <2>6. CASE ~le.primary
        BY <2>3, <2>4, <2>6 DEF Good, Watching
    <2> QED
        BY <2>5, <2>6 DEF Good, LessorState
<1> QED
    BY <1>1, <1>2

\* A revoked lease is no longer watched, and need not be.
LEMMA RevokeGood ==
    ASSUME NEW le, Good(le), NEW l \in Lease
    PROVE  Good(Revoke(le, l))
<1> DEFINE f == [le.lease EXCEPT ![l] = None]
           r == [le EXCEPT !.lease = f]
<1>1. f \in [Lease -> LeaseInfo \cup {None}]
      /\ \A x \in Lease : f[x] = IF x = l THEN None ELSE le.lease[x]
    BY DEF Good, LessorState
<1>2. Revoke(le, l) = r
    BY DEF Revoke
<1> HIDE DEF f
<1>3. r \in LessorState /\ r.primary = le.primary /\ r.lease = f /\ r.notifier = le.notifier
    BY <1>1 DEF Good, LessorState
<1> HIDE DEF r
<1> QED
    BY <1>1, <1>2, <1>3 DEF Good, Watching

\* A checkpoint does not touch the deadline.
LEMMA CheckpointGood ==
    ASSUME NEW le, Good(le), NEW l \in Lease, NEW remaining \in 0..TTL
    PROVE  Good(Checkpoint(le, l, remaining))
<1> DEFINE i   == [le.lease[l] EXCEPT !.remainingTTL = remaining]
           f   == [le.lease EXCEPT ![l] = i]
           new == [le EXCEPT !.lease = f]
<1>1. CASE le.lease[l] = None
    BY <1>1 DEF Checkpoint
<1>2. CASE le.lease[l] # None
    <2>1. le.lease[l] \in LeaseInfo
        BY <1>2 DEF Good, LessorState
    <2>2. i \in LeaseInfo /\ i.expiry = le.lease[l].expiry
        BY <2>1 DEF LeaseInfo
    <2>3. Checkpoint(le, l, remaining) = IF le.primary THEN Scheduled(new, l) ELSE new
        BY <1>2 DEF Checkpoint, Good, LessorState
    <2> HIDE DEF i
    <2>4. f \in [Lease -> LeaseInfo \cup {None}]
          /\ \A x \in Lease : f[x] = IF x = l THEN i ELSE le.lease[x]
        BY <2>2 DEF Good, LessorState
    <2> HIDE DEF f
    <2>5. /\ new \in LessorState /\ new.primary = le.primary
          /\ new.lease = f /\ new.notifier = le.notifier
        BY <2>4 DEF Good, LessorState
    <2> HIDE DEF new
    <2>6. Good(new)
        BY <1>2, <2>2, <2>4, <2>5 DEF Good, Watching
    <2> QED
        BY <2>3, <2>6, ScheduledGood
<1> QED
    BY <1>1, <1>2

\* Promote puts every lease into the notifier, whatever was there before.
LEMMA PromoteGood ==
    ASSUME NEW le \in LessorState
    PROVE  Good(Promote(le))
<1> DEFINE at(l) == Refreshed(le.lease[l], Extend)
           f   == [l \in Lease |-> IF le.lease[l] = None THEN None ELSE at(l)]
           g   == [l \in Lease |-> IF le.lease[l] = None THEN le.notifier[l] ELSE at(l).expiry]
           new == [le EXCEPT !.primary = TRUE, !.lease = f, !.notifier = g]
           cs  == le.checkpoints \cup UNION {Scheduled(new, l).checkpoints : l \in Held(le)}
           r   == [new EXCEPT !.checkpoints = cs]
<1>1. \A l \in Lease : le.lease[l] # None =>
        /\ at(l) \in LeaseInfo
        /\ at(l).expiry \in Deadline /\ at(l).expiry < Forever
    <2> SUFFICES ASSUME NEW l \in Lease, le.lease[l] # None
                 PROVE  /\ at(l) \in LeaseInfo
                        /\ at(l).expiry \in Deadline /\ at(l).expiry < Forever
        OBVIOUS
    <2>1. le.lease[l] \in LeaseInfo
        BY DEF LessorState
    <2> QED
        BY <2>1, RefreshedType
<1>2. Promote(le) = r
    BY DEF Promote, LessorState
<1> HIDE DEF at
<1>3. /\ f \in [Lease -> LeaseInfo \cup {None}]
      /\ g \in [Lease -> Nat \cup {None}]
      /\ \A l \in Lease : f[l] = IF le.lease[l] = None THEN None ELSE at(l)
      /\ \A l \in Lease : g[l] = IF le.lease[l] = None THEN le.notifier[l] ELSE at(l).expiry
    BY <1>1, Times DEF LessorState
<1> HIDE DEF f, g
<1>4. new \in LessorState /\ new.primary = TRUE /\ new.lease = f /\ new.notifier = g
      /\ new.checkpoints = le.checkpoints
    BY <1>3 DEF LessorState
<1>5. Watching(new)
    <2> SUFFICES ASSUME NEW l \in Lease, f[l] # None
                 PROVE  f[l].expiry # Forever /\ g[l] # None /\ g[l] <= f[l].expiry
        BY <1>4 DEF Watching
    <2>1. le.lease[l] # None /\ f[l] = at(l) /\ g[l] = at(l).expiry
        BY <1>3
    <2> QED
        BY <1>1, <2>1, Times DEF Deadline
<1> HIDE DEF new
<1>6. \A l \in Lease : Scheduled(new, l) \in LessorState
    BY <1>4, <1>5, ScheduledGood DEF Good
<1>7. cs \in SUBSET (Lease \X (0..CheckpointInterval))
    <2>1. \A l \in Lease : Scheduled(new, l).checkpoints \subseteq Lease \X (0..CheckpointInterval)
        BY <1>6 DEF LessorState
    <2>2. le.checkpoints \subseteq Lease \X (0..CheckpointInterval)
        BY DEF LessorState
    <2> QED
        BY <2>1, <2>2 DEF Held
<1> HIDE DEF cs
<1>8. r \in LessorState /\ r.primary = new.primary /\ r.lease = new.lease
      /\ r.notifier = new.notifier
    BY <1>4, <1>7 DEF LessorState
<1> HIDE DEF r
<1> QED
    BY <1>2, <1>5, <1>8 DEF Good, Watching

\* Who is not primary watches nothing.
LEMMA DemoteGood ==
    ASSUME NEW le \in LessorState
    PROVE  Good(Demote(le))
<1> DEFINE f == [l \in Lease |->
        IF le.lease[l] = None THEN None ELSE [le.lease[l] EXCEPT !.expiry = Forever]]
<1>1. Forever \in Deadline
    BY Times DEF Deadline
<1>2. \A i \in LeaseInfo : [i EXCEPT !.expiry = Forever] \in LeaseInfo
    BY <1>1 DEF LeaseInfo
<1>3. f \in [Lease -> LeaseInfo \cup {None}]
    BY <1>2 DEF LessorState
<1>4. Demote(le) = [NewLessor EXCEPT !.lease = f]
    BY DEF Demote
<1> HIDE DEF f
<1>5. Demote(le) \in LessorState /\ Demote(le).primary = FALSE
    BY <1>3, <1>4 DEF NewLessor, LessorState
<1> QED
    BY <1>5 DEF Good, Watching

\* A renewal that comes too late leaves only a time in the notifier.
LEMMA RenewGood ==
    ASSUME NEW le, Good(le), NEW l \in Lease
    PROVE  Good(Renew(le, l))
<1>1. CASE le.lease[l] # None
    BY <1>1, WatchedGood DEF Renew, Good, Watching
<1>2. CASE le.lease[l] = None
    <2> DEFINE g == [le.notifier EXCEPT ![l] = TTL]
               r == [le EXCEPT !.notifier = g]
    <2>1. TTL \in Nat
        BY Times
    <2>2. g \in [Lease -> Nat \cup {None}]
          /\ \A x \in Lease : x # l => g[x] = le.notifier[x]
        BY <2>1 DEF Good, LessorState
    <2>3. Renew(le, l) = r
        BY <1>2 DEF Renew
    <2> HIDE DEF g
    <2>4. r \in LessorState /\ r.primary = le.primary /\ r.lease = le.lease /\ r.notifier = g
        BY <2>2 DEF Good, LessorState
    <2> HIDE DEF r
    <2> QED
        BY <1>2, <2>2, <2>3, <2>4 DEF Good, Watching
<1> QED
    BY <1>1, <1>2

\* No entry makes a lessor forget a lease.
LEMMA AppliedGood ==
    ASSUME NEW le, Good(le), NEW e \in Entry
    PROVE  Good(Applied(le, e))
<1>1. CASE e.type = "grant"
    <2>1. e.lease \in Lease
        BY <1>1 DEF Entry
    <2> QED
        BY <1>1, <2>1, GrantGood DEF Applied
<1>2. CASE e.type = "revoke"
    <2>1. e.lease \in Lease
        BY <1>2 DEF Entry
    <2> QED
        BY <1>2, <2>1, RevokeGood DEF Applied
<1>3. CASE e.type = "checkpoint"
    <2>1. e.lease \in Lease /\ e.remaining \in 0..TTL
        BY <1>3 DEF Entry
    <2> QED
        BY <1>3, <2>1, CheckpointGood DEF Applied
<1>4. CASE e.type = "empty"
    BY <1>4 DEF Applied
<1> QED
    BY <1>1, <1>2, <1>3, <1>4 DEF Entry

\* The times only go down, and together.
LEMMA TickGood ==
    ASSUME NEW le, Good(le)
    PROVE  Good([le EXCEPT
                !.lease       = [l \in Lease |-> Later(@[l])],
                !.notifier    = [l \in Lease |-> Less(@[l])],
                !.checkpoints = {<<c[1], Less(c[2])>> : c \in @}])
<1> DEFINE f  == [l \in Lease |-> Later(le.lease[l])]
           g  == [l \in Lease |-> Less(le.notifier[l])]
           cs == {<<c[1], Less(c[2])>> : c \in le.checkpoints}
           r  == [le EXCEPT !.lease = f, !.notifier = g, !.checkpoints = cs]
<1>1. \A t \in Nat \cup {None} :
        /\ Less(t) \in Nat \cup {None}
        /\ t = None <=> Less(t) = None
    BY Times DEF Less
<1>2. \A t \in 0..CheckpointInterval : Less(t) \in 0..CheckpointInterval
    BY Times DEF Less
<1>3. \A i \in LeaseInfo \cup {None} :
        /\ Later(i) \in LeaseInfo \cup {None}
        /\ i = None <=> Later(i) = None
        /\ i # None /\ i.expiry # Forever =>
                /\ Later(i).expiry = Less(i.expiry)
                /\ Later(i).expiry # Forever
    <2> SUFFICES ASSUME NEW i \in LeaseInfo, i.expiry # Forever
                 PROVE  /\ Later(i) \in LeaseInfo
                        /\ Later(i).expiry = Less(i.expiry)
                        /\ Later(i).expiry # Forever
        BY Times DEF Later
    <2>1. i # None /\ i.expiry \in Deadline
        BY Times DEF LeaseInfo
    <2>2. Less(i.expiry) \in Deadline /\ Less(i.expiry) # Forever
        BY <2>1, Times DEF Less, Deadline
    <2>3. Later(i) = [i EXCEPT !.expiry = Less(i.expiry)]
        BY <2>1 DEF Later
    <2> DEFINE t == Less(i.expiry)
    <2> HIDE DEF t
    <2>4. t \in Deadline => [i EXCEPT !.expiry = t] \in LeaseInfo
                            /\ [i EXCEPT !.expiry = t].expiry = t
        BY DEF LeaseInfo
    <2> QED
        BY <2>2, <2>3, <2>4 DEF t
<1>4. /\ f \in [Lease -> LeaseInfo \cup {None}]
      /\ g \in [Lease -> Nat \cup {None}]
      /\ cs \in SUBSET (Lease \X (0..CheckpointInterval))
    <2>1. /\ le.lease \in [Lease -> LeaseInfo \cup {None}]
          /\ le.notifier \in [Lease -> Nat \cup {None}]
          /\ le.checkpoints \in SUBSET (Lease \X (0..CheckpointInterval))
        BY DEF Good, LessorState
    <2>2. f \in [Lease -> LeaseInfo \cup {None}]
        BY <1>3, <2>1
    <2>3. g \in [Lease -> Nat \cup {None}]
        BY <1>1, <2>1
    <2>4. cs \in SUBSET (Lease \X (0..CheckpointInterval))
        BY <1>2, <2>1
    <2> QED
        BY <2>2, <2>3, <2>4
<1>5. \A l \in Lease : f[l] = Later(le.lease[l]) /\ g[l] = Less(le.notifier[l])
    OBVIOUS
<1> HIDE DEF f, g, cs
<1>6. r \in LessorState /\ r.primary = le.primary /\ r.lease = f /\ r.notifier = g
    BY <1>4 DEF Good, LessorState
<1>7. ASSUME le.primary, NEW l \in Lease, f[l] # None
      PROVE  /\ f[l].expiry # Forever
             /\ g[l] # None
             /\ g[l] <= f[l].expiry \/ g[l] <= RetryInterval
    <2>1. le.lease[l] \in LeaseInfo /\ le.lease[l] # None
          /\ le.notifier[l] \in Nat \cup {None}
        BY <1>3, <1>5, <1>7 DEF Good, LessorState
    <2>2. /\ le.lease[l].expiry # Forever /\ le.notifier[l] # None
          /\ \/ le.notifier[l] <= le.lease[l].expiry
             \/ le.notifier[l] <= RetryInterval
        BY <1>7, <2>1 DEF Good, Watching
    <2>3. /\ f[l].expiry = Less(le.lease[l].expiry) /\ f[l].expiry # Forever
          /\ g[l] = Less(le.notifier[l])
        BY <1>3, <1>5, <2>1, <2>2
    <2>4. le.lease[l].expiry \in Nat /\ le.notifier[l] \in Nat
        BY <2>1, <2>2, Times DEF LeaseInfo, Deadline
    <2>5. \A a, b \in Nat : a <= b => Less(a) <= Less(b) /\ Less(a) <= b
        BY Times DEF Less
    <2> QED
        BY <1>1, <2>1, <2>2, <2>3, <2>4, <2>5, Times
<1>8. Watching(r)
    BY <1>6, <1>7 DEF Watching
<1> QED
    BY <1>6, <1>8 DEF Good, f, g, cs

-----------------------------------------------------------------------------
(* The invariant *)

\* At first nothing is granted.
LEMMA InitIInv == Init => IInv
<1> SUFFICES ASSUME Init PROVE IInv
    OBVIOUS
<1>1. /\ lead \in Server /\ isLeader \in [Server -> BOOLEAN]
      /\ queue = [s \in Server |-> <<>>]
      /\ promoting \in [Server -> BOOLEAN] /\ revoking \in [Server -> SUBSET Lease]
      /\ renewing \in [Server -> Renewal] /\ checkpointing \in [Server -> BOOLEAN]
      /\ promised \in [Lease -> (0..TTL) \cup {None}]
    BY LessorAssumption DEF Init, Renewal
<1>2. queue \in [Server -> Seq(Entry)] /\ \A s \in Server : Len(queue[s]) <= MaxQueue
    BY <1>1, LessorAssumption
<1>3. ASSUME NEW s \in Server
      PROVE  /\ lessor[s] \in LessorState
             /\ \A l \in Lease : lessor[s].lease[l] = None
    <2> DEFINE p == s = lead
    <2>1. lessor[s] = [NewLessor EXCEPT !.primary = p] /\ p \in BOOLEAN
        BY DEF Init
    <2> HIDE DEF p
    <2> QED
        BY <2>1 DEF NewLessor, LessorState
<1>4. lessor \in [Server -> LessorState] /\ \A s \in Server : Watching(lessor[s])
    BY <1>3 DEF Init, Watching
<1>5. \A s \in Server : RenewalWaits(s)
    BY <1>1 DEF RenewalWaits
<1> QED
    BY <1>1, <1>2, <1>4, <1>5 DEF IInv, TypeOK

\* One lessor changes.
LEMMA OneLessor ==
    ASSUME NEW f \in [Server -> LessorState], \A s \in Server : Watching(f[s]),
           NEW s \in Server, NEW le, Good(le), NEW g, g = [f EXCEPT ![s] = le]
    PROVE  g \in [Server -> LessorState] /\ \A t \in Server : Watching(g[t])
BY DEF Good

\* A committed entry is in every queue.
LEMMA CommitType ==
    ASSUME TypeOK, NEW e \in Entry, Commit(e)
    PROVE  queue' \in [Server -> Seq(Entry)] /\ \A s \in Server : Len(queue'[s]) <= MaxQueue
<1>1. queue \in [Server -> Seq(Entry)] /\ \A s \in Server : Len(queue[s]) < MaxQueue
    BY DEF TypeOK, Commit
<1>2. MaxQueue \in Nat
    BY LessorAssumption
<1>3. ASSUME NEW s \in Server
      PROVE  Append(queue[s], e) \in Seq(Entry) /\ Len(Append(queue[s], e)) <= MaxQueue
    BY <1>1, <1>2
<1> QED
    BY <1>3 DEF Commit

\* An entry that no renewal waits for.
LEMMA CommitWaits ==
    ASSUME TypeOK, NEW e \in Entry, Commit(e), NEW s \in Server, RenewalWaits(s),
           e.waiter # <<s, "renew">>, renewing'[s] = renewing[s]
    PROVE  RenewalWaits(s)'
<1>1. queue[s] \in Seq(Entry) /\ queue'[s] = Append(queue[s], e)
    BY DEF TypeOK, Commit
<1>2. \A i \in 1..Len(queue'[s]) : Waits(s, i)' => i \in 1..Len(queue[s]) /\ Waits(s, i)
    BY <1>1 DEF Waits
<1> QED
    BY <1>2 DEF RenewalWaits

\* The same queue, or a shorter one.
LEMMA SameWaits ==
    ASSUME NEW s \in Server, RenewalWaits(s), queue'[s] = queue[s],
           renewing'[s] = renewing[s] \/ renewing[s].pc # "wait"
    PROVE  RenewalWaits(s)'
BY DEF RenewalWaits, Waits

\* Entries and waiters.
LEMMA MsgType ==
    /\ \A type \in {"grant", "revoke", "checkpoint"}, l \in Lease, remaining \in 0..TTL,
            waiter \in Waiter : Msg(type, l, remaining, waiter) \in Entry
    /\ Msg("empty", None, 0, None) \in Entry
    /\ 0 \in 0..TTL /\ None \in Waiter
    /\ \A s \in Server : <<s, "renew">> \in Waiter /\ <<s, "loop">> \in Waiter
BY Times DEF Msg, Entry, Waiter

\* Every step keeps lessors watching, and a renewal waits for one entry.
LEMMA NextIInv == IInv /\ [Next]_vars => IInv'
<1> SUFFICES ASSUME IInv, [Next]_vars PROVE IInv'
    OBVIOUS
<1>1. TypeOK /\ \A s \in Server : Good(lessor[s]) /\ RenewalWaits(s)
    BY DEF IInv, TypeOK, Good
<1>2. CASE Tick
    <2>1. ASSUME NEW s \in Server PROVE Good(lessor'[s])
        BY <1>1, <1>2, TickGood DEF Tick
    <2>2. lessor' \in [Server -> LessorState] /\ \A s \in Server : Watching(lessor'[s])
        BY <1>2, <2>1 DEF Tick, Good
    <2>3. promised' \in [Lease -> (0..TTL) \cup {None}]
        <3>1. \A t \in (0..TTL) \cup {None} : Less(t) \in (0..TTL) \cup {None}
            BY Times DEF Less
        <3> QED
            BY <1>1, <1>2, <3>1 DEF Tick, TypeOK
    <2>4. \A s \in Server : RenewalWaits(s)'
        BY <1>1, <1>2, SameWaits DEF Tick
    <2> QED
        BY <1>1, <1>2, <2>2, <2>3, <2>4 DEF Tick, TypeOK, IInv
<1>3. ASSUME NEW l \in Lease, GrantLease(l) PROVE IInv'
    <2> DEFINE e == Msg("grant", l, 0, None)
    <2>1. e \in Entry /\ \A s \in Server : e.waiter # <<s, "renew">>
        BY MsgType, LessorAssumption DEF Msg
    <2>2. promised' \in [Lease -> (0..TTL) \cup {None}]
        BY <1>1, <1>3, Times DEF GrantLease, TypeOK
    <2>3. Commit(e) /\ UNCHANGED renewing
        BY <1>3 DEF GrantLease
    <2> HIDE DEF e
    <2>4. \A s \in Server : RenewalWaits(s)'
        BY <1>1, <2>1, <2>3, CommitWaits
    <2> QED
        BY <1>1, <1>3, <2>1, <2>2, <2>3, <2>4, CommitType DEF GrantLease, TypeOK, IInv
<1>4. ASSUME NEW s \in Server, ChangeLeader(s) PROVE IInv'
    <2> DEFINE e == Msg("empty", None, 0, None)
    <2>1. e \in Entry /\ \A t \in Server : e.waiter # <<t, "renew">>
        BY MsgType, LessorAssumption DEF Msg
    <2>2. isLeader' \in [Server -> BOOLEAN] /\ lead' \in Server
        BY <1>1, <1>4 DEF ChangeLeader, TypeOK
    <2>3. Commit(e) /\ UNCHANGED renewing
        BY <1>4 DEF ChangeLeader
    <2> HIDE DEF e
    <2>4. \A t \in Server : RenewalWaits(t)'
        BY <1>1, <2>1, <2>3, CommitWaits
    <2> QED
        BY <1>1, <1>4, <2>1, <2>2, <2>3, <2>4, CommitType DEF ChangeLeader, TypeOK, IInv
<1>5. ASSUME NEW s \in Server, UpdateLeadership(s) PROVE IInv'
    <2>1. Good(Demote(lessor[s]))
        BY <1>1, DemoteGood DEF Good
    <2>2. lessor' \in [Server -> LessorState] /\ \A t \in Server : Watching(lessor'[t])
        BY <1>1, <1>5, <2>1, OneLessor DEF UpdateLeadership, TypeOK, Good
    <2>3. isLeader' \in [Server -> BOOLEAN]
        BY <1>1, <1>5 DEF UpdateLeadership, TypeOK
    <2>4. \A t \in Server : RenewalWaits(t)'
        BY <1>1, <1>5, SameWaits DEF UpdateLeadership
    <2> QED
        BY <1>1, <1>5, <2>2, <2>3, <2>4 DEF UpdateLeadership, TypeOK, IInv
<1>6. ASSUME NEW s \in Server, ApplyEntry(s) PROVE IInv'
    <2> DEFINE e == Head(queue[s])
    <2>1. /\ queue[s] \in Seq(Entry) /\ queue[s] # <<>> /\ e = queue[s][1]
          /\ e \in Entry /\ Tail(queue[s]) \in Seq(Entry) /\ Len(Tail(queue[s])) <= MaxQueue
        BY <1>1, <1>6, LessorAssumption DEF ApplyEntry, TypeOK
    <2>2. queue' \in [Server -> Seq(Entry)] /\ \A t \in Server : Len(queue'[t]) <= MaxQueue
        BY <1>1, <1>6, <2>1 DEF ApplyEntry, TypeOK
    <2>3. Good(Applied(lessor[s], e))
        BY <1>1, <2>1, AppliedGood
    <2>4. lessor' \in [Server -> LessorState] /\ \A t \in Server : Watching(lessor'[t])
        <3>1. lessor' = [lessor EXCEPT ![s] = Applied(lessor[s], e)]
            BY <1>6 DEF ApplyEntry
        <3> HIDE DEF e
        <3> QED
            BY <1>1, <2>3, <3>1, OneLessor DEF TypeOK, Good
    <2>5. promoting' \in [Server -> BOOLEAN] /\ checkpointing' \in [Server -> BOOLEAN]
        BY <1>1, <1>6 DEF ApplyEntry, TypeOK
    <2>6. /\ renewing' \in [Server -> Renewal]
          /\ \A t \in Server : renewing'[t] = renewing[t] \/ (t = s /\ Waits(s, 1))
        <3>1. CASE e.waiter = <<s, "renew">>
            <4>1. Waits(s, 1) /\ 1 \in 1..Len(queue[s])
                BY <2>1, <3>1 DEF Waits
            <4>2. renewing[s] \in Renewal /\ renewing[s].pc = "wait"
                BY <1>1, <4>1 DEF RenewalWaits, TypeOK
            <4>3. [renewing[s] EXCEPT !.pc = "refresh"] \in Renewal
                BY <4>2 DEF Renewal, Idle
            <4> QED
                BY <1>1, <1>6, <3>1, <4>1, <4>3 DEF ApplyEntry, TypeOK
        <3>2. CASE e.waiter # <<s, "renew">>
            BY <1>1, <1>6, <3>2 DEF ApplyEntry, TypeOK
        <3> QED
            BY <3>1, <3>2
    <2>7. ASSUME NEW t \in Server PROVE RenewalWaits(t)'
        <3>1. CASE t # s
            BY <1>1, <1>6, <2>6, <3>1, SameWaits DEF ApplyEntry, TypeOK
        <3>2. CASE t = s
            <4>1. queue'[s] = Tail(queue[s])
                BY <1>1, <1>6 DEF ApplyEntry, TypeOK
            <4>2. Len(queue'[s]) = Len(queue[s]) - 1
                  /\ \A i \in 1..Len(queue'[s]) :
                        i + 1 \in 1..Len(queue[s]) /\ queue'[s][i] = queue[s][i + 1]
                BY <2>1, <4>1
            <4>3. \A i \in 1..Len(queue'[s]) : Waits(s, i)' => Waits(s, i + 1)
                BY <4>2 DEF Waits
            <4>4. Waits(s, 1) => \A i \in 1..Len(queue'[s]) : ~Waits(s, i)'
                BY <1>1, <2>1, <4>2, <4>3 DEF RenewalWaits
            <4>5. ASSUME NEW i \in 1..Len(queue'[s]), Waits(s, i)'
                  PROVE  /\ renewing'[s].pc = "wait"
                         /\ \A j \in 1..Len(queue'[s]) : Waits(s, j)' => i = j
                <5>1. Waits(s, i + 1) /\ renewing'[s] = renewing[s]
                    BY <2>6, <4>3, <4>4, <4>5
                <5>2. renewing[s].pc = "wait"
                    BY <1>1, <4>2, <5>1 DEF RenewalWaits
                <5>3. \A j \in 1..Len(queue'[s]) : Waits(s, j)' => i + 1 = j + 1
                    BY <1>1, <4>2, <4>3, <5>1 DEF RenewalWaits
                <5> QED
                    BY <5>1, <5>2, <5>3
            <4> QED
                BY <3>2, <4>5 DEF RenewalWaits
        <3> QED
            BY <3>1, <3>2
    <2> QED
        BY <1>1, <1>6, <2>2, <2>4, <2>5, <2>6, <2>7 DEF ApplyEntry, TypeOK, IInv
<1>7. ASSUME NEW s \in Server, PromoteLessor(s) PROVE IInv'
    <2>1. Good(Promote(lessor[s]))
        BY <1>1, PromoteGood DEF Good
    <2>2. lessor' \in [Server -> LessorState] /\ \A t \in Server : Watching(lessor'[t])
        BY <1>1, <1>7, <2>1, OneLessor DEF PromoteLessor, TypeOK, Good
    <2>3. promoting' \in [Server -> BOOLEAN]
        BY <1>1, <1>7 DEF PromoteLessor, TypeOK
    <2>4. \A t \in Server : RenewalWaits(t)'
        BY <1>1, <1>7, SameWaits DEF PromoteLessor
    <2> QED
        BY <1>1, <1>7, <2>2, <2>3, <2>4 DEF PromoteLessor, TypeOK, IInv
<1>8. ASSUME NEW s \in Server, revokeExpiredLeases(s) PROVE IInv'
    <2> DEFINE le  == lessor[s]
               due == Due(le)
               g   == [l \in Lease |-> IF l \notin due THEN le.notifier[l]
                                       ELSE IF l \in Held(le) THEN RetryInterval ELSE None]
               r   == [le EXCEPT !.notifier = g]
    <2>1. lessor' = [lessor EXCEPT ![s] = r]
        BY <1>1, <1>8 DEF revokeExpiredLeases, TypeOK, Good, LessorState
    <2>2. \A l \in Lease : g[l] = IF l \notin due THEN le.notifier[l]
                                  ELSE IF le.lease[l] # None THEN RetryInterval ELSE None
        BY DEF Held
    <2>3. revoking' \in [Server -> SUBSET Lease]
        BY <1>1, <1>8 DEF revokeExpiredLeases, TypeOK, Held, Due
    <2>4. Good(le)
        BY <1>1
    <2>5. g \in [Lease -> Nat \cup {None}]
        BY <2>4, Times DEF Good, LessorState
    <2> HIDE DEF le, due, g
    <2>6. r \in LessorState /\ r.primary = le.primary /\ r.lease = le.lease /\ r.notifier = g
        BY <2>4, <2>5 DEF Good, LessorState
    <2> HIDE DEF r
    <2>7. Good(r)
        BY <2>2, <2>4, <2>6, Times DEF Good, Watching
    <2>8. lessor' \in [Server -> LessorState] /\ \A t \in Server : Watching(lessor'[t])
        BY <1>1, <2>1, <2>7, OneLessor DEF TypeOK, Good
    <2>9. \A t \in Server : RenewalWaits(t)'
        BY <1>1, <1>8, SameWaits DEF revokeExpiredLeases
    <2> QED
        BY <1>1, <1>8, <2>3, <2>8, <2>9 DEF revokeExpiredLeases, TypeOK, IInv
<1>9. ASSUME NEW s \in Server, ProposeRevoke(s) PROVE IInv'
    <2> PICK l \in revoking[s] :
            /\ revoking' = [revoking EXCEPT ![s] = @ \ {l}]
            /\ Commit(Msg("revoke", l, 0, None))
        BY <1>9 DEF ProposeRevoke
    <2> DEFINE e == Msg("revoke", l, 0, None)
    <2>1. l \in Lease /\ revoking' \in [Server -> SUBSET Lease]
        BY <1>1 DEF TypeOK
    <2>2. e \in Entry /\ \A t \in Server : e.waiter # <<t, "renew">>
        BY <2>1, MsgType, LessorAssumption DEF Msg
    <2>3. Commit(e) /\ UNCHANGED renewing
        BY <1>9 DEF ProposeRevoke
    <2> HIDE DEF e
    <2>4. \A t \in Server : RenewalWaits(t)'
        BY <1>1, <2>2, <2>3, CommitWaits
    <2> QED
        BY <1>1, <1>9, <2>1, <2>2, <2>3, <2>4, CommitType DEF ProposeRevoke, TypeOK, IInv
<1>10. ASSUME NEW s \in Server, LoseRevoke(s) PROVE IInv'
    <2>1. revoking' \in [Server -> SUBSET Lease]
        BY <1>1, <1>10 DEF LoseRevoke, TypeOK
    <2>2. \A t \in Server : RenewalWaits(t)'
        BY <1>1, <1>10, SameWaits DEF LoseRevoke
    <2> QED
        BY <1>1, <1>10, <2>1, <2>2 DEF LoseRevoke, TypeOK, IInv
<1>11. ASSUME NEW s \in Server, checkpointScheduledLeases(s) PROVE IInv'
    <2> DEFINE le   == lessor[s]
               i(c) == le.lease[c[1]]
               e(c) == Msg("checkpoint", c[1], i(c).expiry, <<s, "loop">>)
               more(c) == i(c) # None /\ i(c).expiry > 0 /\ i(c).expiry < TTL
               cs(c) == le.checkpoints \ {c}
               r(c) == [le EXCEPT !.checkpoints = cs(c)]
    <2> PICK c \in le.checkpoints :
            /\ lessor' = [lessor EXCEPT ![s] = r(c)]
            /\ IF more(c) THEN /\ Commit(e(c))
                               /\ checkpointing' = [checkpointing EXCEPT ![s] = TRUE]
               ELSE UNCHANGED <<queue, checkpointing>>
        BY <1>1, <1>11 DEF checkpointScheduledLeases, TypeOK, Good, LessorState
    <2>1. Good(le) /\ c[1] \in Lease
        BY <1>1 DEF Good, LessorState
    <2>2. Good(r(c))
        <3>1. cs(c) \in SUBSET (Lease \X (0..CheckpointInterval))
            BY <2>1 DEF Good, LessorState
        <3> HIDE DEF le, cs
        <3>2. r(c) \in LessorState /\ r(c).primary = le.primary /\ r(c).lease = le.lease
              /\ r(c).notifier = le.notifier
            BY <2>1, <3>1 DEF Good, LessorState
        <3> HIDE DEF r
        <3> QED
            BY <2>1, <3>2 DEF Good, Watching
    <2>3. lessor' \in [Server -> LessorState] /\ \A t \in Server : Watching(lessor'[t])
        <3> HIDE DEF r
        <3> QED
            BY <1>1, <2>2, OneLessor DEF TypeOK, Good
    <2>4. checkpointing' \in [Server -> BOOLEAN] /\ UNCHANGED renewing
        BY <1>1, <1>11 DEF checkpointScheduledLeases, TypeOK
    <2>5. more(c) => e(c) \in Entry /\ \A t \in Server : e(c).waiter # <<t, "renew">>
        <3>1. more(c) => i(c) \in LeaseInfo /\ i(c).expiry \in 0..TTL
            BY <2>1, Times DEF Good, LessorState, LeaseInfo
        <3>2. e(c).waiter = <<s, "loop">>
            BY DEF Msg
        <3>3. i(c).expiry \in 0..TTL => e(c) \in Entry
            BY <2>1, MsgType
        <3> HIDE DEF e, i, more
        <3> QED
            BY <3>1, <3>2, <3>3, LessorAssumption
    <2> HIDE DEF more, e
    <2>6. /\ queue' \in [Server -> Seq(Entry)] /\ \A t \in Server : Len(queue'[t]) <= MaxQueue
          /\ \A t \in Server : RenewalWaits(t)'
        <3>1. CASE more(c)
            BY <1>1, <2>4, <2>5, <3>1, CommitType, CommitWaits
        <3>2. CASE ~more(c)
            BY <1>1, <2>4, <3>2, SameWaits DEF TypeOK
        <3> QED
            BY <3>1, <3>2
    <2> QED
        BY <1>1, <1>11, <2>3, <2>4, <2>6 DEF checkpointScheduledLeases, TypeOK, IInv
<1>12. ASSUME NEW s \in Server, NEW l \in Lease, StartRenew(s, l) PROVE IInv'
    <2>1. renewing' \in [Server -> Renewal]
        BY <1>1, <1>12 DEF StartRenew, TypeOK, Renewal
    <2>2. \A t \in Server : RenewalWaits(t)'
        <3>1. renewing[s].pc # "wait"
            BY <1>12 DEF StartRenew, Idle
        <3>2. \A t \in Server : t = s \/ renewing'[t] = renewing[t]
            BY <1>1, <1>12 DEF StartRenew, TypeOK
        <3> QED
            BY <1>1, <1>12, <3>1, <3>2, SameWaits DEF StartRenew
    <2> QED
        BY <1>1, <1>12, <2>1, <2>2 DEF StartRenew, TypeOK, IInv
<1>13. ASSUME NEW s \in Server, ProposeClear(s) PROVE IInv'
    <2> DEFINE e == Msg("checkpoint", renewing[s].lease, 0, <<s, "renew">>)
    <2>1. renewing[s].lease \in Lease /\ renewing[s].pc = "clear"
          /\ renewing' \in [Server -> Renewal]
        BY <1>1, <1>13 DEF ProposeClear, TypeOK, Renewal, Idle
    <2>2. e \in Entry /\ Commit(e) /\ e.waiter = <<s, "renew">>
        BY <1>13, <2>1, MsgType DEF ProposeClear, Msg
    <2> HIDE DEF e
    <2>3. ASSUME NEW t \in Server PROVE RenewalWaits(t)'
        <3>1. CASE t # s
            <4>1. renewing'[t] = renewing[t] /\ e.waiter # <<t, "renew">>
                BY <1>1, <1>13, <2>2, <3>1 DEF ProposeClear, TypeOK
            <4> QED
                BY <1>1, <2>2, <4>1, CommitWaits
        <3>2. CASE t = s
            <4>1. queue[s] \in Seq(Entry) /\ queue'[s] = Append(queue[s], e)
                BY <1>1, <2>2 DEF TypeOK, Commit
            <4>2. \A i \in 1..Len(queue[s]) : ~Waits(s, i)
                BY <1>1, <2>1 DEF RenewalWaits
            <4>3. \A i \in 1..Len(queue'[s]) : Waits(s, i)' => i = Len(queue'[s])
                BY <4>1, <4>2 DEF Waits
            <4>4. renewing'[s].pc = "wait"
                BY <1>1, <1>13, <2>1 DEF ProposeClear, TypeOK, Renewal, Idle
            <4> QED
                BY <3>2, <4>3, <4>4 DEF RenewalWaits
        <3> QED
            BY <3>1, <3>2
    <2> QED
        BY <1>1, <1>13, <2>1, <2>2, <2>3, CommitType DEF ProposeClear, TypeOK, IInv
<1>14. ASSUME NEW s \in Server, LoseClear(s) PROVE IInv'
    <2>1. renewing' \in [Server -> Renewal]
        <3>1. renewing[s] \in Renewal /\ renewing[s].pc = "clear"
            BY <1>1, <1>14 DEF LoseClear, TypeOK
        <3>2. [renewing[s] EXCEPT !.pc = "refresh"] \in Renewal
            BY <3>1 DEF Renewal, Idle
        <3> QED
            BY <1>1, <1>14, <3>2 DEF LoseClear, TypeOK
    <2>2. \A t \in Server : RenewalWaits(t)'
        <3>1. renewing[s].pc # "wait"
            BY <1>14 DEF LoseClear
        <3>2. \A t \in Server : t = s \/ renewing'[t] = renewing[t]
            BY <1>1, <1>14 DEF LoseClear, TypeOK
        <3> QED
            BY <1>1, <1>14, <3>1, <3>2, SameWaits DEF LoseClear
    <2> QED
        BY <1>1, <1>14, <2>1, <2>2 DEF LoseClear, TypeOK, IInv
<1>15. ASSUME NEW s \in Server, EndRenew(s) PROVE IInv'
    <2> DEFINE l == renewing[s].lease
    <2>1. l \in Lease /\ renewing[s].pc # "wait"
        BY <1>1, <1>15 DEF EndRenew, TypeOK, Renewal, Idle
    <2>2. renewing' \in [Server -> Renewal]
          /\ promised' \in [Lease -> (0..TTL) \cup {None}]
        <3>1. Idle \in Renewal /\ TTL \in 0..TTL
            BY Times DEF Renewal
        <3> QED
            BY <1>1, <1>15, <3>1 DEF EndRenew, TypeOK
    <2>3. lessor' = [lessor EXCEPT ![s] = Renew(lessor[s], l)]
        BY <1>15 DEF EndRenew
    <2> HIDE DEF l
    <2>4. Good(Renew(lessor[s], l))
        BY <1>1, <2>1, RenewGood
    <2>5. lessor' \in [Server -> LessorState] /\ \A t \in Server : Watching(lessor'[t])
        BY <1>1, <2>3, <2>4, OneLessor DEF TypeOK, Good
    <2>6. \A t \in Server : RenewalWaits(t)'
        <3>1. \A t \in Server : t = s \/ renewing'[t] = renewing[t]
            BY <1>1, <1>15 DEF EndRenew, TypeOK
        <3> QED
            BY <1>1, <1>15, <2>1, <3>1, SameWaits DEF EndRenew
    <2> QED
        BY <1>1, <1>15, <2>2, <2>5, <2>6 DEF EndRenew, TypeOK, IInv
<1>16. CASE UNCHANGED vars
    BY <1>1, <1>16, SameWaits DEF vars, TypeOK, IInv
<1> QED
    BY <1>2, <1>3, <1>4, <1>5, <1>6, <1>7, <1>8, <1>9, <1>10, <1>11, <1>12, <1>13, <1>14,
       <1>15, <1>16 DEF Next, Loop

\* The inductive invariant holds in every reachable state.
LEMMA SpecIInv == Spec => []IInv
BY InitIInv, NextIInv, PTL DEF Spec

-----------------------------------------------------------------------------
(* The theorems *)

\* Lessors, queues and requests have their types (lease/lessor.go).
THEOREM TypeCorrect == Spec => []TypeOK
<1>1. IInv => TypeOK
    BY DEF IInv
<1> QED
    BY <1>1, SpecIInv, PTL

\* Every lease of a primary lessor has a deadline, and the notifier will come to it
\* (Grant, Promote, Renew, revokeExpiredLeases), whatever is lost and whoever leads.
THEOREM NoLeaseIsForgotten == Spec => []ExpiryIsWatched
<1>1. IInv => ExpiryIsWatched
    BY DEF IInv, ExpiryIsWatched, Watching, Held
<1> QED
    BY <1>1, SpecIInv, PTL

-----------------------------------------------------------------------------
(* What becomes of the leases *)

\* An entry says what becomes of one lease, whoever applies it, but for the deadline.
LeaseAfter(i, e, primary) ==
    CASE e.type = "grant" ->
            IF i # None THEN i
            ELSE [remainingTTL |-> 0, expiry |-> IF primary THEN TTL ELSE Forever]
      [] e.type = "revoke" -> None
      [] e.type = "checkpoint" ->
            IF i = None THEN None ELSE [i EXCEPT !.remainingTTL = e.remaining]
      [] e.type = "empty" -> i

\* Scheduling a checkpoint changes no lease.
LEMMA ScheduledLeases ==
    ASSUME NEW le \in LessorState, NEW l
    PROVE  Scheduled(le, l).lease = le.lease /\ Scheduled(le, l).primary = le.primary
BY DEF Scheduled, LessorState

\* Watching one refreshes it.
LEMMA WatchedLeases ==
    ASSUME NEW le \in LessorState, NEW l \in Lease, NEW extend
    PROVE  /\ Watched(le, l, extend).lease =
                [le.lease EXCEPT ![l] = Refreshed(le.lease[l], extend)]
           /\ Watched(le, l, extend).primary = le.primary
BY DEF Watched, LessorState

\* A grant makes a lease that is not there.
LEMMA GrantLeases ==
    ASSUME NEW le, Good(le), NEW l \in Lease
    PROVE  /\ Grant(le, l).lease = [le.lease EXCEPT ![l] =
                IF le.lease[l] # None THEN le.lease[l]
                ELSE [remainingTTL |-> 0, expiry |-> IF le.primary THEN TTL ELSE Forever]]
           /\ Grant(le, l).primary = le.primary
<1> DEFINE i   == [remainingTTL |-> 0, expiry |-> Forever]
           f   == [le.lease EXCEPT ![l] = i]
           new == [le EXCEPT !.lease = f]
<1>0. le \in LessorState /\ le.lease \in [Lease -> LeaseInfo \cup {None}]
    BY DEF Good, LessorState
<1>1. CASE le.lease[l] # None
    BY <1>0, <1>1 DEF Grant
<1>2. CASE le.lease[l] = None
    <2>1. i \in LeaseInfo
        BY Times DEF LeaseInfo, Deadline
    <2>2. Refreshed(i, 0) = [remainingTTL |-> 0, expiry |-> TTL]
        BY Times DEF Refreshed, RemainingTTL
    <2>i. i = [remainingTTL |-> 0, expiry |-> Forever]
        OBVIOUS
    <2>3. Grant(le, l) = IF le.primary THEN Scheduled(Watched(new, l, 0), l) ELSE new
        BY <1>2 DEF Grant
    <2> HIDE DEF i
    <2>4. f \in [Lease -> LeaseInfo \cup {None}] /\ f[l] = i
        BY <1>0, <2>1
    <2>f. f = [le.lease EXCEPT ![l] = i]
        OBVIOUS
    <2> HIDE DEF f
    <2>5. new \in LessorState /\ new.lease = f /\ new.primary = le.primary
        BY <1>0, <2>4 DEF LessorState
    <2> HIDE DEF new
    <2>6. CASE le.primary
        <3> DEFINE w == Watched(new, l, 0)
        <3>1. w.lease = [f EXCEPT ![l] = Refreshed(i, 0)] /\ w.primary = le.primary
            <4>1. w.lease = [new.lease EXCEPT ![l] = Refreshed(new.lease[l], 0)]
                  /\ w.primary = new.primary
                BY <2>5, WatchedLeases
            <4>2. new.lease[l] = i
                BY <2>4, <2>5
            <4> HIDE DEF w
            <4> QED
                BY <2>5, <4>1, <4>2
        <3>2. w \in LessorState
            <4>1. \A x \in Lease \ {l} : new.primary /\ new.lease[x] # None =>
                /\ new.lease[x].expiry # Forever
                /\ new.notifier[x] # None
                /\ \/ new.notifier[x] <= new.lease[x].expiry
                   \/ new.notifier[x] <= RetryInterval
                BY <2>5, <1>0, <2>f DEF Good, Watching, new
            <4>2. new.lease[l] # None
                BY <2>1, <2>4, <2>5, Times
            <4>3. Good(w)
                BY <2>5, <4>1, <4>2, WatchedGood
            <4> QED
                BY <4>3 DEF Good
        <3> HIDE DEF w
        <3>3. Scheduled(w, l).lease = w.lease /\ Scheduled(w, l).primary = w.primary
            BY <3>2, ScheduledLeases
        <3>4. Grant(le, l) = Scheduled(w, l)
            BY <2>3, <2>6 DEF w
        <3>5. [f EXCEPT ![l] = Refreshed(i, 0)] = [le.lease EXCEPT ![l] = Refreshed(i, 0)]
            BY <2>f, <1>0
        <3> QED
            BY <1>2, <2>2, <2>6, <3>1, <3>3, <3>4, <3>5
    <2>7. CASE ~le.primary
        BY <1>2, <2>3, <2>5, <2>7, <2>f, <2>i
    <2> QED
        BY <2>6, <2>7
<1> QED
    BY <1>1, <1>2

\* A checkpoint replaces the remaining time of one that is.
LEMMA CheckpointLeases ==
    ASSUME NEW le, Good(le), NEW l \in Lease, NEW remaining \in 0..TTL
    PROVE  /\ Checkpoint(le, l, remaining).lease = [le.lease EXCEPT ![l] =
                IF le.lease[l] = None THEN None
                ELSE [le.lease[l] EXCEPT !.remainingTTL = remaining]]
           /\ Checkpoint(le, l, remaining).primary = le.primary
<1> DEFINE i   == [le.lease[l] EXCEPT !.remainingTTL = remaining]
           f   == [le.lease EXCEPT ![l] = i]
           new == [le EXCEPT !.lease = f]
<1>0. le \in LessorState /\ le.lease \in [Lease -> LeaseInfo \cup {None}]
    BY DEF Good, LessorState
<1>1. CASE le.lease[l] = None
    BY <1>0, <1>1 DEF Checkpoint
<1>2. CASE le.lease[l] # None
    <2>1. le.lease[l] \in LeaseInfo
        BY <1>0, <1>2
    <2>2. i \in LeaseInfo
        BY <2>1 DEF LeaseInfo
    <2>3. Checkpoint(le, l, remaining) = IF le.primary THEN Scheduled(new, l) ELSE new
        BY <1>2 DEF Checkpoint, Good, LessorState
    <2> HIDE DEF i
    <2>4. f \in [Lease -> LeaseInfo \cup {None}]
        BY <1>0, <2>2
    <2> HIDE DEF f
    <2>5. new \in LessorState /\ new.lease = f /\ new.primary = le.primary
        BY <1>0, <2>4 DEF LessorState
    <2> HIDE DEF new
    <2>6. Checkpoint(le, l, remaining).lease = f /\ Checkpoint(le, l, remaining).primary = le.primary
        BY <2>3, <2>5, ScheduledLeases
    <2> QED
        BY <1>2, <2>6 DEF f, i
<1> QED
    BY <1>1, <1>2

\* An entry changes its own lease, and not who is primary.
LEMMA AppliedLeases ==
    ASSUME NEW le, Good(le), NEW e \in Entry
    PROVE  /\ Applied(le, e).primary = le.primary
           /\ \A x \in Lease : Applied(le, e).lease[x] =
                IF x = e.lease THEN LeaseAfter(le.lease[x], e, le.primary) ELSE le.lease[x]
<1>0. le \in LessorState /\ le.lease \in [Lease -> LeaseInfo \cup {None}]
    BY DEF Good, LessorState
<1>1. CASE e.type = "grant"
    <2>1. e.lease \in Lease /\ Applied(le, e) = Grant(le, e.lease)
        BY <1>1 DEF Entry, Applied
    <2>2. /\ Grant(le, e.lease).lease = [le.lease EXCEPT ![e.lease] =
                IF le.lease[e.lease] # None THEN le.lease[e.lease]
                ELSE [remainingTTL |-> 0, expiry |-> IF le.primary THEN TTL ELSE Forever]]
          /\ Grant(le, e.lease).primary = le.primary
        BY <2>1, GrantLeases
    <2>3. LeaseAfter(le.lease[e.lease], e, le.primary) =
                IF le.lease[e.lease] # None THEN le.lease[e.lease]
                ELSE [remainingTTL |-> 0, expiry |-> IF le.primary THEN TTL ELSE Forever]
        BY <1>1 DEF LeaseAfter
    <2> QED
        BY <1>0, <2>1, <2>2, <2>3
<1>2. CASE e.type = "revoke"
    <2>1. e.lease \in Lease /\ Applied(le, e) = Revoke(le, e.lease)
        BY <1>2 DEF Entry, Applied
    <2>2. LeaseAfter(le.lease[e.lease], e, le.primary) = None
        BY <1>2 DEF LeaseAfter
    <2>3. Revoke(le, e.lease).lease = [le.lease EXCEPT ![e.lease] = None]
          /\ Revoke(le, e.lease).primary = le.primary
        BY <1>0 DEF Revoke, LessorState
    <2> QED
        BY <1>0, <2>1, <2>2, <2>3
<1>3. CASE e.type = "checkpoint"
    <2>1. e.lease \in Lease /\ e.remaining \in 0..TTL
          /\ Applied(le, e) = Checkpoint(le, e.lease, e.remaining)
        BY <1>3 DEF Entry, Applied
    <2>2. /\ Checkpoint(le, e.lease, e.remaining).lease = [le.lease EXCEPT ![e.lease] =
                IF le.lease[e.lease] = None THEN None
                ELSE [le.lease[e.lease] EXCEPT !.remainingTTL = e.remaining]]
          /\ Checkpoint(le, e.lease, e.remaining).primary = le.primary
        BY <2>1, CheckpointLeases
    <2>3. LeaseAfter(le.lease[e.lease], e, le.primary) =
                IF le.lease[e.lease] = None THEN None
                ELSE [le.lease[e.lease] EXCEPT !.remainingTTL = e.remaining]
        BY <1>3 DEF LeaseAfter
    <2> QED
        BY <1>0, <2>1, <2>2, <2>3
<1>4. CASE e.type = "empty"
    <2>1. e.lease = None /\ Applied(le, e) = le
        BY <1>4 DEF Entry, Applied
    <2>2. LeaseAfter(le.lease[e.lease], e, le.primary) = le.lease[e.lease]
        BY <1>4 DEF LeaseAfter
    <2> QED
        BY <2>1, <2>2
<1> QED
    BY <1>1, <1>2, <1>3, <1>4 DEF Entry

\* Refreshing and time change nothing but the deadline.
LEMMA DeadlineOnly ==
    ASSUME NEW i \in LeaseInfo, NEW extend
    PROVE  /\ Refreshed(i, extend).remainingTTL = i.remainingTTL
           /\ Later(i) # None /\ Later(i).remainingTTL = i.remainingTTL
           /\ i.remainingTTL \in Nat
<1>1. i.remainingTTL \in Nat
    BY Times DEF LeaseInfo
<1>2. ASSUME NEW t PROVE [i EXCEPT !.expiry = t].remainingTTL = i.remainingTTL
    BY DEF LeaseInfo
<1>3. Refreshed(i, extend).remainingTTL = i.remainingTTL
    BY <1>2 DEF Refreshed
<1>4. i \in [remainingTTL : Nat, expiry : Nat] /\ i # None
    BY Times, LessorAssumption DEF LeaseInfo, Deadline
<1>5. [i EXCEPT !.expiry = Less(@)] # None
    <2>1. i.expiry \in Nat
        BY <1>4
    <2>2. Less(i.expiry) \in Nat
        BY <2>1, LessorAssumption DEF Less
    <2>3. [i EXCEPT !.expiry = Less(@)] \in [remainingTTL : Nat, expiry : Nat]
        BY <1>4, <2>2
    <2> QED
        BY <2>3, LessorAssumption
<1> QED
    BY <1>1, <1>2, <1>3, <1>4, <1>5 DEF Later

\* A promotion gives every lease a new deadline.
LEMMA PromoteLeases ==
    ASSUME NEW le \in LessorState
    PROVE  \A x \in Lease : Promote(le).lease[x] =
                IF le.lease[x] = None THEN None ELSE Refreshed(le.lease[x], Extend)
<1> DEFINE f   == [l \in Lease |-> IF le.lease[l] = None THEN None
                                   ELSE Refreshed(le.lease[l], Extend)]
           g   == [l \in Lease |-> IF le.lease[l] = None THEN le.notifier[l]
                                   ELSE Refreshed(le.lease[l], Extend).expiry]
           new == [le EXCEPT !.primary = TRUE, !.lease = f, !.notifier = g]
           cs  == le.checkpoints \cup UNION {Scheduled(new, l).checkpoints : l \in Held(le)}
<1>1. Promote(le) = [new EXCEPT !.checkpoints = cs]
    BY DEF Promote, LessorState
<1> HIDE DEF f, g, cs
<1>2. Promote(le).lease = f
    BY <1>1 DEF LessorState
<1> QED
    BY <1>2 DEF f

\* A demotion takes the deadlines away.
LEMMA DemoteLeases ==
    ASSUME NEW le \in LessorState
    PROVE  \A x \in Lease : Demote(le).lease[x] =
                IF le.lease[x] = None THEN None ELSE [le.lease[x] EXCEPT !.expiry = Forever]
BY DEF Demote, NewLessor

\* A renewal refreshes its lease if it is still there, and no other.
LEMMA RenewLeases ==
    ASSUME NEW le \in LessorState, NEW l \in Lease
    PROVE  /\ Renew(le, l).primary = le.primary
           /\ \A x \in Lease : Renew(le, l).lease[x] =
                IF x = l /\ le.lease[l] # None THEN Refreshed(le.lease[l], 0) ELSE le.lease[x]
<1>1. CASE le.lease[l] # None
    <2>1. /\ Watched(le, l, 0).lease = [le.lease EXCEPT ![l] = Refreshed(le.lease[l], 0)]
          /\ Watched(le, l, 0).primary = le.primary
        BY WatchedLeases
    <2>2. Renew(le, l) = Watched(le, l, 0)
        BY <1>1 DEF Renew
    <2>3. le.lease \in [Lease -> LeaseInfo \cup {None}]
        BY DEF LessorState
    <2> QED
        BY <1>1, <2>1, <2>2, <2>3
<1>2. CASE le.lease[l] = None
    BY <1>2 DEF Renew, LessorState
<1> QED
    BY <1>1, <1>2

-----------------------------------------------------------------------------
(* Lessors agree: they run the same log *)

\* What the lessors have in common: which leases there are, and their checkpoints.
Core(le) == [l \in Lease |-> IF le.lease[l] = None THEN None ELSE le.lease[l].remainingTTL]

Cores == [Lease -> Nat \cup {None}]

\* What an entry makes of it.
After(c, e) ==
    [l \in Lease |->
        IF l # e.lease \/ e.type = "empty" THEN c[l]
        ELSE IF e.type = "revoke" THEN None
        ELSE IF e.type = "checkpoint" THEN (IF c[l] = None THEN None ELSE e.remaining)
        ELSE IF c[l] # None THEN c[l] ELSE 0]

\* The common part of a lessor has its type.
LEMMA CoreType ==
    ASSUME NEW le \in LessorState
    PROVE  Core(le) \in Cores
<1>1. \A l \in Lease : le.lease[l] # None => le.lease[l].remainingTTL \in Nat
    BY DeadlineOnly DEF LessorState
<1> QED
    BY <1>1 DEF Core, Cores

\* An entry keeps it.
LEMMA AfterType ==
    ASSUME NEW c \in Cores, NEW e \in Entry
    PROVE  After(c, e) \in Cores
<1>1. e.remaining \in Nat
    BY Times DEF Entry
<1> QED
    BY <1>1 DEF After, Cores

\* Two lessors with the same leases but for their deadlines.
LEMMA SameCore ==
    ASSUME NEW le, NEW new,
           \A x \in Lease : IF le.lease[x] = None THEN new.lease[x] = None
                            ELSE /\ new.lease[x] # None
                                 /\ new.lease[x].remainingTTL = le.lease[x].remainingTTL
    PROVE  Core(new) = Core(le)
BY DEF Core

\* Whoever applies an entry, primary or not, comes to the same.
LEMMA AppliedCore ==
    ASSUME NEW le, Good(le), NEW e \in Entry
    PROVE  Core(Applied(le, e)) = After(Core(le), e)
<1>1. le \in LessorState
    BY DEF Good
<1> DEFINE new == Applied(le, e)
<1>2. \A x \in Lease : new.lease[x] =
            IF x = e.lease THEN LeaseAfter(le.lease[x], e, le.primary) ELSE le.lease[x]
    BY AppliedLeases
<1> HIDE DEF new
<1>3. ASSUME NEW x \in Lease
      PROVE  Core(new)[x] = After(Core(le), e)[x]
    <2>1. Core(new)[x] = IF new.lease[x] = None THEN None ELSE new.lease[x].remainingTTL
        BY DEF Core
    <2>2. Core(le)[x] = IF le.lease[x] = None THEN None ELSE le.lease[x].remainingTTL
        BY DEF Core
    <2>3. After(Core(le), e)[x] =
            IF x # e.lease \/ e.type = "empty" THEN Core(le)[x]
            ELSE IF e.type = "revoke" THEN None
            ELSE IF e.type = "checkpoint"
                 THEN (IF Core(le)[x] = None THEN None ELSE e.remaining)
            ELSE IF Core(le)[x] # None THEN Core(le)[x] ELSE 0
        BY DEF After
    <2>4. le.lease[x] # None => le.lease[x] \in LeaseInfo
        BY <1>1 DEF LessorState
    <2>5. le.lease[x] # None => le.lease[x].remainingTTL # None
        BY <2>4, DeadlineOnly, Times
    <2>6. CASE x # e.lease
        BY <1>2, <2>1, <2>2, <2>3, <2>6
    <2>7. CASE x = e.lease
        <3>1. new.lease[x] = LeaseAfter(le.lease[x], e, le.primary)
            BY <1>2, <2>7
        <3>2. CASE e.type = "empty"
            BY <2>1, <2>2, <2>3, <3>1, <3>2 DEF LeaseAfter
        <3>3. CASE e.type = "revoke"
            BY <2>1, <2>3, <2>7, <3>1, <3>3 DEF LeaseAfter
        <3>4. CASE e.type = "checkpoint"
            <4>1. CASE le.lease[x] = None
                BY <2>1, <2>2, <2>3, <2>7, <3>1, <3>4, <4>1 DEF LeaseAfter
            <4>2. CASE le.lease[x] # None
                <5> DEFINE j == [le.lease[x] EXCEPT !.remainingTTL = e.remaining]
                <5>1. new.lease[x] = j
                    BY <3>1, <3>4, <4>2 DEF LeaseAfter
                <5>2. e.remaining \in 0..TTL
                    BY <3>4 DEF Entry
                <5>3. j \in LeaseInfo /\ j.remainingTTL = e.remaining
                    BY <2>4, <4>2, <5>2 DEF LeaseInfo
                <5> HIDE DEF j
                <5> QED
                    BY <2>1, <2>2, <2>3, <2>5, <2>7, <3>4, <4>2, <5>1, <5>3, Times
            <4> QED
                BY <4>1, <4>2
        <3>5. CASE e.type = "grant"
            <4>1. CASE le.lease[x] # None
                BY <2>1, <2>2, <2>3, <2>5, <2>7, <3>1, <3>5, <4>1 DEF LeaseAfter
            <4>2. CASE le.lease[x] = None
                <5> DEFINE d == IF le.primary THEN TTL ELSE Forever
                           j == [remainingTTL |-> 0, expiry |-> d]
                <5>1. new.lease[x] = j
                    BY <3>1, <3>5, <4>2 DEF LeaseAfter
                <5>2. d \in Deadline
                    BY Times DEF Deadline
                <5>3. j \in LeaseInfo /\ j.remainingTTL = 0
                    BY <5>2, Times DEF LeaseInfo
                <5> HIDE DEF j
                <5> QED
                    BY <2>1, <2>2, <2>3, <2>7, <3>5, <4>2, <5>1, <5>3, Times
            <4> QED
                BY <4>1, <4>2
        <3> QED
            BY <3>2, <3>3, <3>4, <3>5 DEF Entry
    <2> QED
        BY <2>6, <2>7
<1>4. /\ Core(new) = [x \in Lease |-> Core(new)[x]]
      /\ After(Core(le), e) = [x \in Lease |-> After(Core(le), e)[x]]
    BY DEF Core, After
<1> QED
    BY <1>3, <1>4 DEF new

\* Promotions, demotions, renewals and time leave it alone.
LEMMA CoreStays ==
    ASSUME NEW le \in LessorState
    PROVE  /\ Core(Promote(le)) = Core(le)
           /\ Core(Demote(le)) = Core(le)
           /\ \A l \in Lease : Core(Renew(le, l)) = Core(le)
<1>1. \A x \in Lease : le.lease[x] # None => le.lease[x] \in LeaseInfo
    BY DEF LessorState
<1>2. \A x \in Lease : le.lease[x] # None =>
        /\ Refreshed(le.lease[x], 0) # None /\ Refreshed(le.lease[x], Extend) # None
        /\ Refreshed(le.lease[x], 0).remainingTTL = le.lease[x].remainingTTL
        /\ Refreshed(le.lease[x], Extend).remainingTTL = le.lease[x].remainingTTL
    BY <1>1, DeadlineOnly, RefreshedType, Times
<1>3. Core(Promote(le)) = Core(le)
    BY <1>2, PromoteLeases, SameCore
<1>4. \A l \in Lease : Core(Renew(le, l)) = Core(le)
    BY <1>2, RenewLeases, SameCore
<1>5. \A x \in Lease : le.lease[x] # None =>
        /\ [le.lease[x] EXCEPT !.expiry = Forever] # None
        /\ [le.lease[x] EXCEPT !.expiry = Forever].remainingTTL = le.lease[x].remainingTTL
    <2>1. Forever \in Deadline
        BY Times DEF Deadline
    <2>2. \A i \in LeaseInfo : /\ [i EXCEPT !.expiry = Forever] \in LeaseInfo
                               /\ [i EXCEPT !.expiry = Forever].remainingTTL = i.remainingTTL
        BY <2>1 DEF LeaseInfo
    <2> QED
        BY <1>1, <2>2, Times
<1>6. Core(Demote(le)) = Core(le)
    <2> DEFINE d(x) == [le.lease[x] EXCEPT !.expiry = Forever]
               new  == Demote(le)
    <2>1. \A x \in Lease : new.lease[x] = IF le.lease[x] = None THEN None ELSE d(x)
        BY DemoteLeases
    <2>2. \A x \in Lease : le.lease[x] # None =>
            d(x) # None /\ d(x).remainingTTL = le.lease[x].remainingTTL
        BY <1>5
    <2> HIDE DEF d, new
    <2>3. Core(new) = Core(le)
        BY <2>1, <2>2, SameCore
    <2> QED
        BY <2>3 DEF new
<1> QED
    BY <1>3, <1>4, <1>6

\* A second passes for a lessor.
Passed(le) == [le EXCEPT
    !.lease       = [l \in Lease |-> Later(@[l])],
    !.notifier    = [l \in Lease |-> Less(@[l])],
    !.checkpoints = {<<c[1], Less(c[2])>> : c \in @}]

\* Time leaves it alone, too: it only takes from deadlines that there are.
LEMMA TickLeases ==
    ASSUME NEW le \in LessorState, NEW new, new = Passed(le)
    PROVE  /\ new.primary = le.primary
           /\ \A x \in Lease : new.lease[x] = Later(le.lease[x])
           /\ \A x \in Lease : new.notifier[x] = Less(le.notifier[x])
           /\ new.checkpoints = {<<c[1], Less(c[2])>> : c \in le.checkpoints}
           /\ Core(new) = Core(le)
<1> DEFINE f  == [l \in Lease |-> Later(le.lease[l])]
           g  == [l \in Lease |-> Less(le.notifier[l])]
           cs == {<<c[1], Less(c[2])>> : c \in le.checkpoints}
<1>1. new = [le EXCEPT !.lease = f, !.notifier = g, !.checkpoints = cs]
    BY DEF Passed
<1> HIDE DEF f, g, cs
<1>2. new.primary = le.primary /\ new.lease = f /\ new.notifier = g /\ new.checkpoints = cs
    BY <1>1 DEF LessorState
<1>3. \A x \in Lease : new.lease[x] = Later(le.lease[x])
    BY <1>2 DEF f
<1>4. \A x \in Lease : le.lease[x] # None =>
        Later(le.lease[x]) # None /\ Later(le.lease[x]).remainingTTL = le.lease[x].remainingTTL
    BY DeadlineOnly DEF LessorState
<1>5. \A x \in Lease : le.lease[x] = None => Later(le.lease[x]) = None
    BY DEF Later
<1>6. Core(new) = Core(le)
    <2>1. \A x \in Lease : IF le.lease[x] = None THEN new.lease[x] = None
                           ELSE /\ new.lease[x] # None
                                /\ new.lease[x].remainingTTL = le.lease[x].remainingTTL
        BY <1>3, <1>4, <1>5
    <2> QED
        BY <2>1, SameCore
<1> QED
    BY <1>2, <1>3, <1>6 DEF f, g, cs

Commits(e) == queue' = [s \in Server |-> Append(queue[s], e)]

\* What a step does to the queues and to what the lessors have in common.
StepKind ==
    \/ /\ \A t \in Server : Core(lessor'[t]) = Core(lessor[t])
       /\ queue' = queue \/ \E e \in Entry : Commits(e)
    \/ \E s \in Server :
        /\ queue[s] # <<>> /\ queue' = [queue EXCEPT ![s] = Tail(@)]
        /\ \A t \in Server : Core(lessor'[t]) =
                IF t = s THEN After(Core(lessor[s]), Head(queue[s])) ELSE Core(lessor[t])

\* A step commits an entry, applies one, or does neither.
LEMMA NextIsStepKind == IInv /\ [Next]_vars => StepKind
<1> SUFFICES ASSUME IInv, [Next]_vars PROVE StepKind
    OBVIOUS
<1>1. TypeOK /\ \A s \in Server : Good(lessor[s]) /\ RenewalWaits(s)
    BY DEF IInv, TypeOK, Good
<1>0. lessor \in [Server -> LessorState]
    BY <1>1 DEF TypeOK
<1>a. ASSUME NEW s \in Server, NEW le, Core(le) = Core(lessor[s]),
             lessor' = [lessor EXCEPT ![s] = le]
      PROVE  \A t \in Server : Core(lessor'[t]) = Core(lessor[t])
    BY <1>0, <1>a
<1>b. ASSUME UNCHANGED lessor
      PROVE  \A t \in Server : Core(lessor'[t]) = Core(lessor[t])
    BY <1>b
<1>2. CASE Tick
    <2>1. ASSUME NEW s \in Server PROVE Core(lessor'[s]) = Core(lessor[s])
        <3>1. lessor'[s] = Passed(lessor[s])
            BY <1>2 DEF Tick, Passed
        <3> QED
            BY <1>0, <3>1, TickLeases
    <2> QED
        BY <1>2, <2>1 DEF Tick, StepKind
<1>3. ASSUME NEW l \in Lease, GrantLease(l) PROVE StepKind
    BY <1>3, <1>b, MsgType DEF GrantLease, Commit, Commits, StepKind
<1>4. ASSUME NEW s \in Server, ChangeLeader(s) PROVE StepKind
    BY <1>4, <1>b, MsgType DEF ChangeLeader, Commit, Commits, StepKind
<1>5. ASSUME NEW s \in Server, UpdateLeadership(s) PROVE StepKind
    <2>1. Core(Demote(lessor[s])) = Core(lessor[s])
        BY <1>0, CoreStays
    <2> QED
        BY <1>5, <1>a, <2>1 DEF UpdateLeadership, StepKind
<1>6. ASSUME NEW s \in Server, ApplyEntry(s) PROVE StepKind
    <2> DEFINE e == Head(queue[s])
    <2>1. e \in Entry
        <3>1. queue[s] \in Seq(Entry) /\ queue[s] # <<>>
            BY <1>1, <1>6 DEF ApplyEntry, TypeOK
        <3> QED
            BY <3>1
    <2>2. lessor' = [lessor EXCEPT ![s] = Applied(lessor[s], e)]
        BY <1>6 DEF ApplyEntry
    <2>3. queue[s] # <<>> /\ queue' = [queue EXCEPT ![s] = Tail(@)]
        BY <1>6 DEF ApplyEntry
    <2> HIDE DEF e
    <2>4. Core(Applied(lessor[s], e)) = After(Core(lessor[s]), e)
        BY <1>1, <2>1, AppliedCore
    <2>5. \A t \in Server : Core(lessor'[t]) =
            IF t = s THEN After(Core(lessor[s]), e) ELSE Core(lessor[t])
        BY <1>0, <2>2, <2>4
    <2> QED
        BY <2>3, <2>5 DEF e, StepKind
<1>7. ASSUME NEW s \in Server, PromoteLessor(s) PROVE StepKind
    <2>1. Core(Promote(lessor[s])) = Core(lessor[s])
        BY <1>0, CoreStays
    <2> QED
        BY <1>7, <1>a, <2>1 DEF PromoteLessor, StepKind
<1>8. ASSUME NEW s \in Server, revokeExpiredLeases(s) PROVE StepKind
    <2> PICK g : lessor' = [lessor EXCEPT ![s].notifier = g]
        BY <1>8 DEF revokeExpiredLeases
    <2>1. lessor' = [lessor EXCEPT ![s] = [lessor[s] EXCEPT !.notifier = g]]
        BY <1>0
    <2>2. [lessor[s] EXCEPT !.notifier = g].lease = lessor[s].lease
        BY <1>0 DEF LessorState
    <2>3. Core([lessor[s] EXCEPT !.notifier = g]) = Core(lessor[s])
        BY <2>2 DEF Core
    <2> QED
        BY <1>8, <1>a, <2>1, <2>3 DEF revokeExpiredLeases, StepKind
<1>9. ASSUME NEW s \in Server, ProposeRevoke(s) PROVE StepKind
    <2> PICK l \in revoking[s] : Commit(Msg("revoke", l, 0, None))
        BY <1>9 DEF ProposeRevoke
    <2>1. l \in Lease
        BY <1>1 DEF TypeOK
    <2>2. Msg("revoke", l, 0, None) \in Entry
        BY <2>1, MsgType
    <2> QED
        BY <1>9, <1>b, <2>2 DEF ProposeRevoke, Commit, Commits, StepKind
<1>10. ASSUME NEW s \in Server, LoseRevoke(s) PROVE StepKind
    BY <1>10, <1>b DEF LoseRevoke, StepKind
<1>11. ASSUME NEW s \in Server, checkpointScheduledLeases(s) PROVE StepKind
    <2> DEFINE i(c) == lessor[s].lease[c[1]]
               e(c) == Msg("checkpoint", c[1], i(c).expiry, <<s, "loop">>)
    <2> PICK c \in lessor[s].checkpoints :
            /\ lessor' = [lessor EXCEPT ![s].checkpoints = @ \ {c}]
            /\ IF i(c) # None /\ i(c).expiry > 0 /\ i(c).expiry < TTL
               THEN Commit(e(c)) ELSE UNCHANGED queue
        BY <1>11 DEF checkpointScheduledLeases
    <2> DEFINE cs == lessor[s].checkpoints \ {c}
    <2>1. lessor' = [lessor EXCEPT ![s] = [lessor[s] EXCEPT !.checkpoints = cs]]
        BY <1>0
    <2>2. [lessor[s] EXCEPT !.checkpoints = cs].lease = lessor[s].lease
        BY <1>0 DEF LessorState
    <2>3. Core([lessor[s] EXCEPT !.checkpoints = cs]) = Core(lessor[s])
        BY <2>2 DEF Core
    <2>4. queue' = queue \/ \E x \in Entry : Commits(x)
        <3>1. CASE i(c) # None /\ i(c).expiry > 0 /\ i(c).expiry < TTL
            <4>1. c[1] \in Lease /\ lessor[s].lease \in [Lease -> LeaseInfo \cup {None}]
                BY <1>0 DEF LessorState
            <4>2. i(c) \in LeaseInfo
                BY <3>1, <4>1
            <4>3. i(c).expiry \in Nat
                BY <4>2, Times DEF LeaseInfo
            <4>4. i(c).expiry \in 0..TTL
                BY <3>1, <4>3, Times
            <4>5. e(c) \in Entry
                BY <4>1, <4>4, MsgType
            <4>6. Commit(e(c))
                BY <3>1
            <4> QED
                BY <4>5, <4>6 DEF Commit, Commits
        <3>2. CASE ~(i(c) # None /\ i(c).expiry > 0 /\ i(c).expiry < TTL)
            BY <3>2
        <3> QED
            BY <3>1, <3>2
    <2> QED
        BY <1>a, <2>1, <2>3, <2>4 DEF StepKind
<1>12. ASSUME NEW s \in Server, NEW l \in Lease, StartRenew(s, l) PROVE StepKind
    BY <1>12, <1>b DEF StartRenew, StepKind
<1>13. ASSUME NEW s \in Server, ProposeClear(s) PROVE StepKind
    <2> DEFINE e == Msg("checkpoint", renewing[s].lease, 0, <<s, "renew">>)
    <2>1. renewing[s].lease \in Lease
        BY <1>1, <1>13 DEF ProposeClear, TypeOK, Renewal, Idle
    <2>2. e \in Entry /\ Commit(e) /\ UNCHANGED lessor
        BY <1>13, <2>1, MsgType DEF ProposeClear
    <2> HIDE DEF e
    <2> QED
        BY <1>b, <2>2 DEF Commit, Commits, StepKind
<1>14. ASSUME NEW s \in Server, LoseClear(s) PROVE StepKind
    BY <1>14, <1>b DEF LoseClear, StepKind
<1>15. ASSUME NEW s \in Server, EndRenew(s) PROVE StepKind
    <2>1. renewing[s].lease \in Lease
        BY <1>1, <1>15 DEF EndRenew, TypeOK, Renewal, Idle
    <2>2. Core(Renew(lessor[s], renewing[s].lease)) = Core(lessor[s])
        BY <1>0, <2>1, CoreStays
    <2> QED
        BY <1>15, <1>a, <2>2 DEF EndRenew, StepKind
<1>16. CASE UNCHANGED vars
    BY <1>16 DEF vars, StepKind
<1> QED
    BY <1>2, <1>3, <1>4, <1>5, <1>6, <1>7, <1>8, <1>9, <1>10, <1>11, <1>12, <1>13, <1>14,
       <1>15, <1>16 DEF Next, Loop

\* One log explains all the queues and all the lessors: log is what was committed,
\* H what its entries make of the leases one after the other, and each server has
\* applied all of it but its queue.
Runs(log, H) ==
    /\ log \in Seq(Entry) /\ H \in [Nat -> Cores]
    /\ \A i \in 1..Len(log) : H[i] = After(H[i - 1], log[i])

IsAt(q, c, log, H) ==
    /\ Len(q) <= Len(log)
    /\ \A i \in 1..Len(q) : q[i] = log[Len(log) - Len(q) + i]
    /\ c = H[Len(log) - Len(q)]

SameLog ==
    \E log, H : Runs(log, H) /\ \A s \in Server : IsAt(queue[s], Core(lessor[s]), log, H)

\* Who has the same queue has applied the same entries.
LEMMA SameLogAgrees == TypeOK /\ SameLog => LeasesAgree
<1> SUFFICES ASSUME TypeOK, SameLog, NEW s \in Server, NEW t \in Server, queue[s] = queue[t],
                    NEW l \in Lease
             PROVE  IF lessor[s].lease[l] = None THEN lessor[t].lease[l] = None
                    ELSE /\ lessor[t].lease[l] # None
                         /\ lessor[s].lease[l].remainingTTL = lessor[t].lease[l].remainingTTL
    BY DEF LeasesAgree
<1>1. Core(lessor[s]) = Core(lessor[t])
    BY DEF SameLog, IsAt
<1>2. Core(lessor[s])[l] = Core(lessor[t])[l]
    BY <1>1
<1>3. ASSUME NEW u \in Server, lessor[u].lease[l] # None
      PROVE  lessor[u].lease[l].remainingTTL # None
    <2>1. lessor[u].lease[l] \in LeaseInfo
        BY <1>3 DEF TypeOK, LessorState
    <2> QED
        BY <2>1, DeadlineOnly, Times
<1>4. \A u \in Server : Core(lessor[u])[l] =
        IF lessor[u].lease[l] = None THEN None ELSE lessor[u].lease[l].remainingTTL
    BY DEF Core
<1> QED
    BY <1>2, <1>3, <1>4

\* At first the log is empty.
LEMMA InitSameLog == Init => SameLog
<1> SUFFICES ASSUME Init PROVE SameLog
    OBVIOUS
<1> DEFINE none == [l \in Lease |-> None]
           H    == [i \in Nat |-> none]
<1>1. H \in [Nat -> Cores] /\ H[0] = none
    BY DEF Cores
<1>2. ASSUME NEW s \in Server PROVE queue[s] = <<>> /\ Core(lessor[s]) = none
    <2>1. lessor[s].lease = none
        BY DEF Init, NewLessor
    <2> QED
        BY <2>1 DEF Init, Core
<1> HIDE DEF H, none
<1>3. Runs(<<>>, H)
    BY <1>1 DEF Runs
<1>4. \A s \in Server : IsAt(queue[s], Core(lessor[s]), <<>>, H)
    <2>1. IsAt(<<>>, none, <<>>, H)
        BY <1>1 DEF IsAt
    <2> QED
        BY <1>2, <2>1
<1> QED
    BY <1>3, <1>4 DEF SameLog

\* A log with one more entry.
LEMMA RunsOn ==
    ASSUME NEW log, NEW H, Runs(log, H), NEW e \in Entry
    PROVE  Runs(Append(log, e), [H EXCEPT ![Len(log) + 1] = After(H[Len(log)], e)])
<1> DEFINE n  == Len(log)
           c  == After(H[n], e)
           lg == Append(log, e)
           G  == [H EXCEPT ![n + 1] = c]
<1>1. log \in Seq(Entry) /\ H \in [Nat -> Cores] /\ n \in Nat
      /\ \A i \in 1..n : H[i] = After(H[i - 1], log[i])
    BY DEF Runs
<1>2. c \in Cores
    BY <1>1, AfterType
<1>3. lg \in Seq(Entry) /\ Len(lg) = n + 1 /\ lg[n + 1] = e /\ \A i \in 1..n : lg[i] = log[i]
    BY <1>1
<1>c. c = After(H[n], e)
    OBVIOUS
<1> HIDE DEF c, lg, n
<1>4. G \in [Nat -> Cores] /\ G[n + 1] = c /\ \A i \in 0..n : G[i] = H[i]
    BY <1>1, <1>2
<1> HIDE DEF G
<1>5. ASSUME NEW i \in 1..n + 1
      PROVE  G[i] = After(G[i - 1], lg[i])
    <2>1. CASE i = n + 1
        <3>1. i - 1 = n /\ n \in 0..n
            BY <1>1, <2>1
        <3> QED
            BY <1>3, <1>4, <1>c, <2>1, <3>1
    <2>2. CASE i # n + 1
        <3>1. i \in 1..n /\ i \in 0..n /\ i - 1 \in 0..n
            BY <1>1, <2>2
        <3> QED
            BY <1>1, <1>3, <1>4, <3>1
    <2> QED
        BY <2>1, <2>2
<1>6. Runs(lg, G)
    BY <1>3, <1>4, <1>5 DEF Runs
<1> QED
    BY <1>6 DEF lg, G, c, n

\* Who did not apply the new entry is where it was.
LEMMA IsAtOn ==
    ASSUME NEW log, NEW H, Runs(log, H), NEW e \in Entry, NEW q \in Seq(Entry), NEW c,
           IsAt(q, c, log, H)
    PROVE  IsAt(Append(q, e), c, Append(log, e),
                [H EXCEPT ![Len(log) + 1] = After(H[Len(log)], e)])
<1> DEFINE n  == Len(log)
           m  == Len(q)
           lg == Append(log, e)
           r  == Append(q, e)
           G  == [H EXCEPT ![n + 1] = After(H[n], e)]
<1>1. /\ log \in Seq(Entry) /\ H \in [Nat -> Cores] /\ n \in Nat /\ m \in Nat /\ m <= n
      /\ \A i \in 1..m : q[i] = log[n - m + i]
      /\ c = H[n - m]
    BY DEF Runs, IsAt
<1>2. /\ Len(lg) = n + 1 /\ lg[n + 1] = e /\ \A i \in 1..n : lg[i] = log[i]
      /\ Len(r) = m + 1 /\ r[m + 1] = e /\ \A i \in 1..m : r[i] = q[i]
    BY <1>1
<1>3. \A i \in 0..n : G[i] = H[i]
    BY <1>1
<1> HIDE DEF n, m, lg, r, G
<1>4. (n + 1) - (m + 1) = n - m /\ n - m \in 0..n /\ m + 1 <= n + 1
    BY <1>1
<1>5. ASSUME NEW i \in 1..m + 1
      PROVE  r[i] = lg[n - m + i]
    <2>1. CASE i = m + 1
        <3>1. n - m + i = n + 1
            BY <1>1, <2>1
        <3> QED
            BY <1>2, <2>1, <3>1
    <2>2. CASE i # m + 1
        <3>1. i \in 1..m /\ n - m + i \in 1..n
            BY <1>1, <2>2
        <3> QED
            BY <1>1, <1>2, <3>1
    <2> QED
        BY <2>1, <2>2
<1>6. IsAt(r, c, lg, G)
    <2>1. Len(r) <= Len(lg)
        BY <1>2, <1>4
    <2>2. c = G[Len(lg) - Len(r)]
        BY <1>1, <1>2, <1>3, <1>4
    <2>3. \A i \in 1..Len(r) : r[i] = lg[Len(lg) - Len(r) + i]
        BY <1>2, <1>4, <1>5
    <2> QED
        BY <2>1, <2>2, <2>3 DEF IsAt
<1> QED
    BY <1>6 DEF n, m, lg, r, G

\* One entry applied.
LEMMA IsAtNext ==
    ASSUME NEW log, NEW H, Runs(log, H), NEW q \in Seq(Entry), q # <<>>, NEW c,
           IsAt(q, c, log, H)
    PROVE  IsAt(Tail(q), After(c, Head(q)), log, H)
<1> DEFINE n  == Len(log)
           m  == Len(q)
           r  == Tail(q)
<1>1. /\ n \in Nat /\ m \in Nat /\ m <= n /\ m > 0
      /\ \A i \in 1..m : q[i] = log[n - m + i]
      /\ c = H[n - m]
      /\ \A i \in 1..n : H[i] = After(H[i - 1], log[i])
    BY DEF Runs, IsAt
<1>2. Len(r) = m - 1 /\ Head(q) = q[1] /\ \A i \in 1..m - 1 : r[i] = q[i + 1]
    OBVIOUS
<1> HIDE DEF n, m, r
<1>3. 1 \in 1..m /\ n - m + 1 \in 1..n /\ (n - m + 1) - 1 = n - m /\ n - (m - 1) = n - m + 1
    BY <1>1
<1>4. H[n - m + 1] = After(c, Head(q))
    BY <1>1, <1>2, <1>3
<1>5. ASSUME NEW i \in 1..m - 1
      PROVE  r[i] = log[n - (m - 1) + i]
    <2>1. i + 1 \in 1..m /\ n - m + (i + 1) = n - (m - 1) + i
        BY <1>1
    <2> QED
        BY <1>1, <1>2, <2>1
<1>6. m - 1 <= n
    BY <1>1
<1>7. IsAt(r, After(c, Head(q)), log, H)
    <2>1. Len(r) <= Len(log)
        BY <1>2, <1>6 DEF n
    <2>2. After(c, Head(q)) = H[Len(log) - Len(r)]
        BY <1>2, <1>3, <1>4 DEF n
    <2>3. \A i \in 1..Len(r) : r[i] = log[Len(log) - Len(r) + i]
        BY <1>2, <1>5 DEF n
    <2> QED
        BY <2>1, <2>2, <2>3 DEF IsAt
<1> QED
    BY <1>7 DEF r

\* One log goes on explaining them all.
LEMMA NextSameLog == TypeOK /\ SameLog /\ StepKind => SameLog'
<1> SUFFICES ASSUME TypeOK, SameLog, StepKind PROVE SameLog'
    OBVIOUS
<1> PICK log, H : Runs(log, H) /\ \A s \in Server : IsAt(queue[s], Core(lessor[s]), log, H)
    BY DEF SameLog
<1>1. queue \in [Server -> Seq(Entry)]
    BY DEF TypeOK
<1>2. CASE /\ \A t \in Server : Core(lessor'[t]) = Core(lessor[t])
           /\ queue' = queue
    BY <1>2 DEF SameLog
<1>3. CASE /\ \A t \in Server : Core(lessor'[t]) = Core(lessor[t])
           /\ \E e \in Entry : Commits(e)
    <2> PICK e \in Entry : Commits(e)
        BY <1>3
    <2> PICK lg, G : /\ lg = Append(log, e)
                     /\ G = [H EXCEPT ![Len(log) + 1] = After(H[Len(log)], e)]
        OBVIOUS
    <2>1. Runs(lg, G)
        BY RunsOn
    <2>2. ASSUME NEW s \in Server PROVE IsAt(queue'[s], Core(lessor'[s]), lg, G)
        <3>1. queue'[s] = Append(queue[s], e) /\ queue[s] \in Seq(Entry)
            BY <1>1 DEF Commits
        <3>2. IsAt(queue[s], Core(lessor[s]), log, H)
            OBVIOUS
        <3>3. IsAt(Append(queue[s], e), Core(lessor[s]), lg, G)
            BY <3>1, <3>2, IsAtOn
        <3> QED
            BY <1>3, <3>1, <3>3
    <2> QED
        BY <2>1, <2>2 DEF SameLog
<1>4. CASE \E s \in Server :
            /\ queue[s] # <<>> /\ queue' = [queue EXCEPT ![s] = Tail(@)]
            /\ \A t \in Server : Core(lessor'[t]) =
                    IF t = s THEN After(Core(lessor[s]), Head(queue[s])) ELSE Core(lessor[t])
    <2> PICK s \in Server :
            /\ queue[s] # <<>> /\ queue' = [queue EXCEPT ![s] = Tail(@)]
            /\ \A t \in Server : Core(lessor'[t]) =
                    IF t = s THEN After(Core(lessor[s]), Head(queue[s])) ELSE Core(lessor[t])
        BY <1>4
    <2>1. ASSUME NEW t \in Server PROVE IsAt(queue'[t], Core(lessor'[t]), log, H)
        <3>1. CASE t = s
            <4>1. queue[s] \in Seq(Entry) /\ IsAt(queue[s], Core(lessor[s]), log, H)
                BY <1>1
            <4>2. IsAt(Tail(queue[s]), After(Core(lessor[s]), Head(queue[s])), log, H)
                BY <4>1, IsAtNext
            <4>3. queue'[t] = Tail(queue[s])
                  /\ Core(lessor'[t]) = After(Core(lessor[s]), Head(queue[s]))
                BY <1>1, <3>1
            <4> QED
                BY <4>2, <4>3
        <3>2. CASE t # s
            BY <1>1, <3>2
        <3> QED
            BY <3>1, <3>2
    <2> QED
        BY <2>1 DEF SameLog
<1> QED
    BY <1>2, <1>3, <1>4 DEF StepKind

\* Servers that have applied the same entries have the same leases and the same
\* checkpoints of them (Grant, Revoke, Checkpoint), primary or not, whatever they did to
\* the deadlines in between and whoever led.
THEOREM LessorsAgree == Spec => []LeasesAgree
<1>1. Init => SameLog
    BY InitSameLog
<1>2. IInv /\ SameLog /\ [Next]_vars => SameLog'
    BY NextIsStepKind, NextSameLog DEF IInv
<1>3. IInv /\ SameLog => LeasesAgree
    BY SameLogAgrees DEF IInv
<1> QED
    BY <1>1, <1>2, <1>3, SpecIInv, PTL DEF Spec

-----------------------------------------------------------------------------
(* A promise, as long as the first leader leads *)

\* Nothing happened that no promise survives.
Undisturbed == ~disturbed /\ count.change = 0

CountType == count \in [change : Nat, renewal : Nat, lost : Nat]

\* Then one lessor is primary, and it alone has expired leases and renewals.
OneRules ==
    /\ lead = First
    /\ \A s \in Server :
        /\ isLeader[s] = (s = First) /\ lessor[s].primary = (s = First) /\ promoting[s] = FALSE
        /\ \A i \in 1..Len(queue[s]) : queue[s][i].type # "empty"
        /\ s # First => revoking[s] = {} /\ renewing[s] = Idle

Is(q, i, type, l) == i \in 1..Len(q) /\ q[i].type = type /\ q[i].lease = l
In(q, type, l)    == \E i \in 1..Len(q) : Is(q, i, type, l)

\* A lease is granted once, after its client asked for it, and has until its promise.
Kept(p, i, q, l) ==
    /\ p = None => i = None /\ ~In(q, "grant", l)
    /\ In(q, "grant", l) => i = None
    /\ \A j, k \in 1..Len(q) : Is(q, j, "grant", l) /\ Is(q, k, "grant", l) => j = k
    /\ i # None => p # None /\ p <= i.expiry

\* A lease that is being renewed is there, and no checkpoint gets in the way.
Renewable(rn, i, q, l) ==
    rn.pc # "idle" /\ rn.lease = l =>
        /\ i # None /\ i.expiry > 0 /\ (rn.pc = "refresh" => i.remainingTTL = 0)
        /\ \A j \in 1..Len(q) : Is(q, j, "checkpoint", l) => q[j].remaining = 0

\* Its own entry clears the checkpoint.
Clears(rn, q) ==
    \A i \in 1..Len(q) : q[i].waiter = <<First, "renew">> =>
        q[i].type = "checkpoint" /\ q[i].lease = rn.lease /\ q[i].remaining = 0

\* Without checkpoints, leases have none.
NoCheckpoint(le, q) ==
    /\ le.checkpoints = {}
    /\ \A l \in Lease : le.lease[l] # None => le.lease[l].remainingTTL = 0
    /\ \A i \in 1..Len(q) : q[i].type = "checkpoint" => q[i].remaining = 0

\* The promise is over, and nothing can renew it.
Dead(p, i, q, l) == p = 0 /\ (i # None => i.expiry = 0) /\ ~In(q, "grant", l)

\* Who had the lease has lost it.
Lost(p, i, q, l) == p # None /\ i = None /\ ~In(q, "grant", l)

\* Somebody is about to lose the lease, or has lost it.
Ending(l) ==
    \/ l \in revoking[First]
    \/ \E s \in Server : In(queue[s], "revoke", l)
    \/ \E s \in Server : Lost(promised[l], lessor[s].lease[l], queue[s], l)

LeasePromise(l) ==
    /\ Kept(promised[l], lessor[First].lease[l], queue[First], l)
    /\ Renewable(renewing[First], lessor[First].lease[l], queue[First], l)
    /\ Ending(l) => Dead(promised[l], lessor[First].lease[l], queue[First], l)

FirstKeeps ==
    /\ OneRules
    /\ Clears(renewing[First], queue[First])
    /\ ~EnableLeaseCheckpoint => NoCheckpoint(lessor[First], queue[First])
    /\ \A l \in Lease : LeasePromise(l)

PromiseInv == CountType /\ (Undisturbed => FirstKeeps)

\* One more entry, and one entry less.
Longer(q, e, r)  == r = Append(q, e)
Shorter(q, e, r) == q # <<>> /\ e = Head(q) /\ r = Tail(q)

\* What is in a longer queue.
LEMMA InAppend ==
    ASSUME NEW q \in Seq(Entry), NEW e \in Entry, NEW r, Longer(q, e, r),
           NEW type \in {"grant", "revoke", "checkpoint"}, NEW l \in Lease
    PROVE  /\ \A i \in 1..Len(r) : Is(r, i, type, l) <=>
                \/ i \in 1..Len(q) /\ Is(q, i, type, l) /\ r[i] = q[i]
                \/ i = Len(q) + 1 /\ r[i] = e /\ e.type = type /\ e.lease = l
           /\ In(r, type, l) <=> In(q, type, l) \/ (e.type = type /\ e.lease = l)
           /\ Len(q) \in Nat /\ Len(r) = Len(q) + 1
<1>1. Len(q) \in Nat /\ Len(r) = Len(q) + 1 /\ r[Len(q) + 1] = e
      /\ \A i \in 1..Len(q) : r[i] = q[i]
    BY DEF Longer
<1>2. \A i \in 1..Len(r) : Is(r, i, type, l) <=>
            \/ i \in 1..Len(q) /\ Is(q, i, type, l) /\ r[i] = q[i]
            \/ i = Len(q) + 1 /\ r[i] = e /\ e.type = type /\ e.lease = l
    BY <1>1 DEF Is
<1>3. In(r, type, l) => In(q, type, l) \/ (e.type = type /\ e.lease = l)
    BY <1>2 DEF In
<1>4. In(q, type, l) => In(r, type, l)
    <2> SUFFICES ASSUME NEW i \in 1..Len(q), Is(q, i, type, l) PROVE In(r, type, l)
        BY DEF In
    <2>1. i \in 1..Len(r) /\ r[i] = q[i]
        BY <1>1
    <2> QED
        BY <1>2, <2>1 DEF In
<1>5. e.type = type /\ e.lease = l => In(r, type, l)
    <2>1. Len(q) + 1 \in 1..Len(r)
        BY <1>1
    <2> QED
        BY <1>1, <1>2, <2>1 DEF In
<1> QED
    BY <1>1, <1>2, <1>3, <1>4, <1>5

\* What is in a shorter one.
LEMMA InTail ==
    ASSUME NEW q \in Seq(Entry), NEW e, NEW r, Shorter(q, e, r),
           NEW type \in {"grant", "revoke", "checkpoint"}, NEW l \in Lease
    PROVE  /\ \A i \in 1..Len(r) : /\ i + 1 \in 1..Len(q) /\ r[i] = q[i + 1] /\ i + 1 # 1
                                   /\ Is(r, i, type, l) => Is(q, i + 1, type, l)
           /\ In(r, type, l) => In(q, type, l)
           /\ e = q[1] /\ 1 \in 1..Len(q) /\ e \in Entry
           /\ e.type = type /\ e.lease = l => In(q, type, l) /\ Is(q, 1, type, l)
           /\ In(q, type, l) => In(r, type, l) \/ (e.type = type /\ e.lease = l)
<1>1. /\ Len(q) \in Nat /\ Len(q) >= 1 /\ Len(r) = Len(q) - 1 /\ e = q[1]
      /\ \A i \in 1..Len(r) : r[i] = q[i + 1]
      /\ e \in Entry
    BY DEF Shorter
<1>2. \A i \in 1..Len(r) : i + 1 \in 1..Len(q) /\ i + 1 # 1
    BY <1>1
<1>3. 1 \in 1..Len(q)
    BY <1>1
<1>4. \A i \in 1..Len(q) : i = 1 \/ (i - 1 \in 1..Len(r) /\ r[i - 1] = q[i])
    <2> SUFFICES ASSUME NEW i \in 1..Len(q), i # 1 PROVE i - 1 \in 1..Len(r) /\ r[i - 1] = q[i]
        OBVIOUS
    <2>1. i - 1 \in 1..Len(r) /\ (i - 1) + 1 = i
        BY <1>1
    <2> QED
        BY <1>1, <2>1
<1>5. \A i \in 1..Len(r) : Is(r, i, type, l) => Is(q, i + 1, type, l)
    BY <1>1, <1>2 DEF Is
<1>6. In(r, type, l) => In(q, type, l)
    BY <1>2, <1>5 DEF In
<1>7. e.type = type /\ e.lease = l => In(q, type, l) /\ Is(q, 1, type, l)
    BY <1>1, <1>3 DEF In, Is
<1>8. In(q, type, l) => In(r, type, l) \/ (e.type = type /\ e.lease = l)
    BY <1>1, <1>4 DEF In, Is
<1> QED
    BY <1>1, <1>2, <1>3, <1>5, <1>6, <1>7, <1>8

\* A grant comes with the first promise.
Asks(e, l, p, p2) ==
    IF e.type = "grant" /\ e.lease = l THEN p = None /\ p2 # None ELSE p2 = p

\* An entry is committed: a grant is the first of its lease.
LEMMA PromiseAppend ==
    ASSUME NEW q \in Seq(Entry), NEW e \in Entry, NEW r, Longer(q, e, r),
           NEW l \in Lease, NEW i, NEW p, NEW p2,
           Asks(e, l, p, p2)
    PROVE  /\ Kept(p, i, q, l) => Kept(p2, i, r, l)
           /\ Dead(p, i, q, l) => Dead(p2, i, r, l)
           /\ Lost(p2, i, r, l) => Lost(p, i, q, l)
<1>1. /\ In(r, "grant", l) <=> In(q, "grant", l) \/ (e.type = "grant" /\ e.lease = l)
      /\ Len(q) \in Nat /\ Len(r) = Len(q) + 1
    BY InAppend
<1>a. IF e.type = "grant" /\ e.lease = l THEN p = None /\ p2 # None ELSE p2 = p
    BY DEF Asks
<1>2. ASSUME Kept(p, i, q, l) PROVE Kept(p2, i, r, l)
    <2>1. ASSUME NEW j \in 1..Len(r), NEW k \in 1..Len(r),
                 Is(r, j, "grant", l), Is(r, k, "grant", l)
          PROVE  j = k
        <3>1. \A x \in 1..Len(r) : Is(r, x, "grant", l) <=>
                \/ x \in 1..Len(q) /\ Is(q, x, "grant", l) /\ r[x] = q[x]
                \/ x = Len(q) + 1 /\ r[x] = e /\ e.type = "grant" /\ e.lease = l
            BY InAppend
        <3>2. CASE e.type = "grant" /\ e.lease = l
            <4>1. ~In(q, "grant", l)
                BY <1>a, <1>2, <3>2 DEF Kept
            <4> QED
                BY <2>1, <3>1, <4>1 DEF In
        <3>3. CASE ~(e.type = "grant" /\ e.lease = l)
            BY <1>2, <2>1, <3>1, <3>3 DEF Kept
        <3> QED
            BY <3>2, <3>3
    <2>2. CASE e.type = "grant" /\ e.lease = l
        BY <1>1, <1>a, <1>2, <2>1, <2>2 DEF Kept
    <2>3. CASE ~(e.type = "grant" /\ e.lease = l)
        BY <1>1, <1>a, <1>2, <2>1, <2>3 DEF Kept
    <2> QED
        BY <2>2, <2>3
<1>3. ASSUME Dead(p, i, q, l) PROVE Dead(p2, i, r, l)
    <2>1. p # None
        BY <1>3, LessorAssumption DEF Dead
    <2> QED
        BY <1>1, <1>a, <1>3, <2>1 DEF Dead
<1>4. ASSUME Lost(p2, i, r, l) PROVE Lost(p, i, q, l)
    BY <1>1, <1>a, <1>4 DEF Lost
<1> QED
    BY <1>2, <1>3, <1>4

\* While a lease is renewed, new checkpoints of it say nothing.
LEMMA RenewableAppend ==
    ASSUME NEW q \in Seq(Entry), NEW e \in Entry, NEW r, Longer(q, e, r),
           NEW l \in Lease, NEW i, NEW rn, Renewable(rn, i, q, l),
           rn.pc # "idle" /\ rn.lease = l /\ e.type = "checkpoint" /\ e.lease = l
                => e.remaining = 0
    PROVE  Renewable(rn, i, r, l)
<1> SUFFICES ASSUME rn.pc # "idle", rn.lease = l
             PROVE  /\ i # None /\ i.expiry > 0 /\ (rn.pc = "refresh" => i.remainingTTL = 0)
                    /\ \A j \in 1..Len(r) : Is(r, j, "checkpoint", l) => r[j].remaining = 0
    BY DEF Renewable
<1>1. ASSUME NEW j \in 1..Len(r), Is(r, j, "checkpoint", l) PROVE r[j].remaining = 0
    <2>1. \/ j \in 1..Len(q) /\ Is(q, j, "checkpoint", l) /\ r[j] = q[j]
          \/ j = Len(q) + 1 /\ r[j] = e /\ e.type = "checkpoint" /\ e.lease = l
        BY <1>1, InAppend
    <2> QED
        BY <2>1 DEF Renewable
<1> QED
    BY <1>1 DEF Renewable

\* What the primary makes of a lease with an entry.
Becomes(i, e, l, j) ==
    /\ e.type = "grant" /\ e.lease = l =>
        IF i = None THEN j # None /\ j.expiry = TTL /\ j.remainingTTL = 0 ELSE j = i
    /\ e.type = "revoke" /\ e.lease = l => j = None
    /\ e.type = "checkpoint" /\ e.lease = l =>
        IF i = None THEN j = None
        ELSE j # None /\ j.expiry = i.expiry /\ j.remainingTTL = e.remaining
    /\ e.lease # l \/ e.type = "empty" => j = i

\* LeaseAfter says so.
LEMMA LeaseBecomes ==
    ASSUME NEW i \in LeaseInfo \cup {None}, NEW e \in Entry, NEW l \in Lease,
           NEW j, j = IF l = e.lease THEN LeaseAfter(i, e, TRUE) ELSE i
    PROVE  Becomes(i, e, l, j)
<1>1. CASE l # e.lease
    BY <1>1 DEF Becomes
<1>2. ASSUME l = e.lease, e.type = "grant" PROVE Becomes(i, e, l, j)
    <2> DEFINE new == [remainingTTL |-> 0, expiry |-> TTL]
    <2>1. new \in LeaseInfo /\ new.remainingTTL = 0 /\ new.expiry = TTL
        BY Times DEF LeaseInfo, Deadline
    <2>2. j = IF i # None THEN i ELSE new
        BY <1>2 DEF LeaseAfter
    <2> HIDE DEF new
    <2> QED
        BY <1>2, <2>1, <2>2, Times DEF Becomes
<1>3. ASSUME l = e.lease, e.type = "revoke" PROVE Becomes(i, e, l, j)
    BY <1>3 DEF LeaseAfter, Becomes
<1>4. ASSUME l = e.lease, e.type = "checkpoint" PROVE Becomes(i, e, l, j)
    <2> DEFINE new == [i EXCEPT !.remainingTTL = e.remaining]
    <2>1. ASSUME i # None PROVE new # None /\ new.remainingTTL = e.remaining
                                /\ new.expiry = i.expiry
        <3>1. i \in LeaseInfo /\ e.remaining \in 0..TTL
            BY <1>4, <2>1 DEF Entry
        <3>2. new \in LeaseInfo /\ new.remainingTTL = e.remaining /\ new.expiry = i.expiry
            BY <3>1 DEF LeaseInfo
        <3> QED
            BY <3>2, Times
    <2>2. j = IF i = None THEN None ELSE new
        BY <1>4 DEF LeaseAfter
    <2> HIDE DEF new
    <2> QED
        BY <1>4, <2>1, <2>2 DEF Becomes
<1>5. ASSUME l = e.lease, e.type = "empty" PROVE Becomes(i, e, l, j)
    BY <1>5 DEF LeaseAfter, Becomes
<1> QED
    BY <1>1, <1>2, <1>3, <1>4, <1>5 DEF Entry

\* The primary applies an entry: a grant gives the lease its time, a checkpoint no
\* deadline, and what is revoked is not being renewed.
LEMMA PromiseTail ==
    ASSUME NEW q \in Seq(Entry), NEW e, NEW r, Shorter(q, e, r),
           NEW l \in Lease, NEW i \in LeaseInfo \cup {None}, NEW p \in (0..TTL) \cup {None},
           NEW j, Becomes(i, e, l, j), Kept(p, i, q, l)
    PROVE  /\ Kept(p, j, r, l)
           /\ Dead(p, i, q, l) => Dead(p, j, r, l)
           /\ Lost(p, j, r, l) => Lost(p, i, q, l) \/ In(q, "revoke", l)
<1>1. e \in Entry /\ e = q[1] /\ 1 \in 1..Len(q)
    BY InTail DEF Shorter
<1>2. /\ In(r, "grant", l) => In(q, "grant", l)
      /\ e.type = "grant" /\ e.lease = l => In(q, "grant", l) /\ Is(q, 1, "grant", l)
      /\ In(q, "grant", l) => In(r, "grant", l) \/ (e.type = "grant" /\ e.lease = l)
    BY InTail
<1>3. \A x \in 1..Len(r) : /\ x + 1 \in 1..Len(q) /\ x + 1 # 1
                           /\ Is(r, x, "grant", l) => Is(q, x + 1, "grant", l)
    BY InTail
<1>4. \A x, y \in 1..Len(r) : Is(r, x, "grant", l) /\ Is(r, y, "grant", l) => x = y
    <2> SUFFICES ASSUME NEW x \in 1..Len(r), NEW y \in 1..Len(r),
                        Is(r, x, "grant", l), Is(r, y, "grant", l)
                 PROVE  x = y
        OBVIOUS
    <2>1. x + 1 = y + 1
        BY <1>3 DEF Kept
    <2> QED
        BY <2>1
<1>5. e.type = "revoke" /\ e.lease = l => In(q, "revoke", l)
    BY InTail
<1>6. CASE e.type = "grant" /\ e.lease = l
    <2>1. i = None /\ p # None /\ j # None /\ j.expiry = TTL
        BY <1>2, <1>6 DEF Kept, Becomes
    <2>2. ~In(r, "grant", l)
        BY <1>2, <1>3, <1>1, <1>6 DEF Kept, In
    <2>3. p <= TTL
        BY <2>1, Times
    <2>4. Kept(p, j, r, l)
        BY <1>4, <2>1, <2>2, <2>3 DEF Kept
    <2>5. ~Dead(p, i, q, l) /\ ~Lost(p, j, r, l)
        BY <1>2, <1>6, <2>1 DEF Dead, Lost
    <2> QED
        BY <2>4, <2>5
<1>7. CASE e.type = "revoke" /\ e.lease = l
    BY <1>2, <1>4, <1>5, <1>7 DEF Kept, Dead, Becomes
<1>8. CASE e.type = "checkpoint" /\ e.lease = l
    <2>1. IF i = None THEN j = None ELSE j # None /\ j.expiry = i.expiry
        BY <1>8 DEF Becomes
    <2>2. In(r, "grant", l) <=> In(q, "grant", l)
        BY <1>2, <1>8
    <2> QED
        BY <1>4, <2>1, <2>2 DEF Kept, Dead, Lost
<1>9. CASE e.lease # l \/ e.type = "empty"
    <2>1. j = i
        BY <1>9 DEF Becomes
    <2>2. In(r, "grant", l) <=> In(q, "grant", l)
        BY <1>2, <1>9
    <2> QED
        BY <1>4, <2>1, <2>2 DEF Kept, Dead, Lost
<1> QED
    BY <1>1, <1>6, <1>7, <1>8, <1>9 DEF Entry

\* Any other server applies one: only a revocation takes a lease away.
LEMMA LostTail ==
    ASSUME NEW q \in Seq(Entry), NEW e, NEW r, Shorter(q, e, r),
           NEW l \in Lease, NEW i, NEW p, NEW j,
           (e.type = "grant" /\ e.lease = l => j # None),
           (~(e.type = "revoke" /\ e.lease = l) /\ i # None => j # None)
    PROVE  Lost(p, j, r, l) => Lost(p, i, q, l) \/ In(q, "revoke", l)
<1>1. In(q, "grant", l) => In(r, "grant", l) \/ (e.type = "grant" /\ e.lease = l)
    BY InTail
<1>2. e.type = "revoke" /\ e.lease = l => In(q, "revoke", l)
    BY InTail
<1> QED
    BY <1>1, <1>2 DEF Lost

\* The renewal that waits for the entry goes on, with the checkpoint cleared.
LEMMA RenewableTail ==
    ASSUME NEW q \in Seq(Entry), NEW e, NEW r, Shorter(q, e, r),
           NEW l \in Lease, NEW i, NEW j, Becomes(i, e, l, j),
           NEW rn, NEW rn2, rn2.lease = rn.lease,
           rn2.pc # "idle" => rn.pc # "idle",
           rn2.pc = "refresh" => rn.pc = "refresh" \/ e.waiter = <<First, "renew">>,
           ~(e.type = "revoke" /\ rn.lease = e.lease), Clears(rn, q), Renewable(rn, i, q, l)
    PROVE  Renewable(rn2, j, r, l)
<1> SUFFICES ASSUME rn2.pc # "idle", rn2.lease = l
             PROVE  /\ j # None /\ j.expiry > 0 /\ (rn2.pc = "refresh" => j.remainingTTL = 0)
                    /\ \A x \in 1..Len(r) : Is(r, x, "checkpoint", l) => r[x].remaining = 0
    BY DEF Renewable
<1>1. e \in Entry /\ e = q[1] /\ 1 \in 1..Len(q)
    BY InTail DEF Shorter
<1>2. /\ i # None /\ i.expiry > 0 /\ (rn.pc = "refresh" => i.remainingTTL = 0)
      /\ \A x \in 1..Len(q) : Is(q, x, "checkpoint", l) => q[x].remaining = 0
    BY DEF Renewable
<1>3. \A x \in 1..Len(r) : Is(r, x, "checkpoint", l) => r[x].remaining = 0
    <2>1. \A x \in 1..Len(r) : /\ x + 1 \in 1..Len(q) /\ r[x] = q[x + 1]
                               /\ Is(r, x, "checkpoint", l) => Is(q, x + 1, "checkpoint", l)
        BY InTail
    <2> QED
        BY <1>2, <2>1
<1>4. e.type = "checkpoint" /\ e.lease = l => e.remaining = 0
    BY <1>1, <1>2 DEF Is
<1>5. e.waiter = <<First, "renew">> => e.type = "checkpoint" /\ e.lease = l
    BY <1>1 DEF Clears
<1>6. ~(e.type = "revoke" /\ e.lease = l)
    OBVIOUS
<1>7. j # None /\ j.expiry > 0
    BY <1>1, <1>2, <1>6 DEF Becomes, Entry
<1>8. CASE e.type = "checkpoint" /\ e.lease = l
    BY <1>2, <1>3, <1>4, <1>7, <1>8 DEF Becomes
<1>9. CASE ~(e.type = "checkpoint" /\ e.lease = l)
    <2>1. j = i
        BY <1>1, <1>2, <1>6, <1>9 DEF Becomes, Entry
    <2> QED
        BY <1>2, <1>3, <1>5, <1>7, <1>9, <2>1
<1> QED
    BY <1>8, <1>9

\* The entry of a renewal keeps its place in the queue.
LEMMA ClearsMoves ==
    ASSUME NEW q \in Seq(Entry), NEW e \in Entry, NEW r, NEW rn, NEW rn2,
           rn2.lease = rn.lease, Clears(rn, q)
    PROVE  /\ Shorter(q, e, r) => Clears(rn2, r)
           /\ Longer(q, e, r)
                /\ (e.waiter = <<First, "renew">> =>
                        e.type = "checkpoint" /\ e.lease = rn.lease /\ e.remaining = 0)
              => Clears(rn2, r)
<1>1. ASSUME Shorter(q, e, r) PROVE Clears(rn2, r)
    <2>1. \A x \in 1..Len(r) : x + 1 \in 1..Len(q) /\ r[x] = q[x + 1]
        BY <1>1 DEF Shorter
    <2> QED
        BY <2>1 DEF Clears
<1>2. ASSUME Longer(q, e, r),
             e.waiter = <<First, "renew">> =>
                e.type = "checkpoint" /\ e.lease = rn.lease /\ e.remaining = 0
      PROVE  Clears(rn2, r)
    <2>1. \A x \in 1..Len(r) : (x \in 1..Len(q) /\ r[x] = q[x]) \/ r[x] = e
        BY <1>2 DEF Longer
    <2> QED
        BY <1>2, <2>1 DEF Clears
<1> QED
    BY <1>1, <1>2

\* A second passes, and no renewal runs.
LEMMA PromiseLater ==
    ASSUME NEW q, NEW l, NEW i \in LeaseInfo \cup {None}, i # None => i.expiry # Forever,
           NEW p \in (0..TTL) \cup {None}, NEW j, j = Later(i), NEW p2, p2 = Less(p)
    PROVE  /\ Kept(p, i, q, l) => Kept(p2, j, q, l)
           /\ Dead(p, i, q, l) => Dead(p2, j, q, l)
           /\ j = None <=> i = None
           /\ p2 = None <=> p = None
<1>1. p2 = None <=> p = None
    BY LessorAssumption DEF Less
<1>2. CASE i = None
    <2>1. j = None
        BY <1>2 DEF Later
    <2>2. p = 0 => p2 = 0
        BY DEF Less
    <2> QED
        BY <1>1, <1>2, <2>1, <2>2 DEF Kept, Dead
<1>3. CASE i # None
    <2> DEFINE t == Less(i.expiry)
    <2>1. i \in LeaseInfo /\ i.expiry \in Nat /\ i.expiry # Forever
        BY <1>3, Times DEF LeaseInfo
    <2>2. t \in Nat /\ (i.expiry = 0 => t = 0) /\ (i.expiry > 0 => t = i.expiry - 1)
        BY <2>1, LessorAssumption DEF Less
    <2> HIDE DEF t
    <2>3. j = [i EXCEPT !.expiry = t]
        BY <1>3, <2>1 DEF Later, t
    <2>4. j.expiry = t /\ j # None
        BY <2>1, <2>3, DeadlineOnly DEF LeaseInfo
    <2>5. p # None => p2 \in Nat /\ (p = 0 => p2 = 0) /\ (p > 0 => p2 = p - 1) /\ p \in Nat
        BY Times DEF Less
    <2>6. p # None /\ p <= i.expiry => p2 <= t
        BY <2>1, <2>2, <2>5
    <2>7. Kept(p, i, q, l) => Kept(p2, j, q, l)
        BY <1>1, <1>3, <2>4, <2>6 DEF Kept
    <2>8. Dead(p, i, q, l) => Dead(p2, j, q, l)
        BY <1>3, <2>2, <2>4, <2>5, Times DEF Dead
    <2> QED
        BY <1>1, <1>3, <2>4, <2>7, <2>8
<1> QED
    BY <1>2, <1>3

\* At first nothing is promised.
LEMMA InitPromise == Init => PromiseInv
<1> SUFFICES ASSUME Init PROVE PromiseInv
    OBVIOUS
<1>1. CountType
    BY DEF Init, CountType
<1>2. First \in Server
    BY LessorAssumption
<1>3. \A s \in Server : /\ queue[s] = <<>> /\ revoking[s] = {} /\ renewing[s] = Idle
                        /\ isLeader[s] = (s = First) /\ promoting[s] = FALSE
    BY DEF Init
<1>4. \A s \in Server : /\ lessor[s].primary = (s = First) /\ lessor[s].checkpoints = {}
                        /\ \A l \in Lease : lessor[s].lease[l] = None
    BY DEF Init, NewLessor
<1>5. lead = First /\ \A l \in Lease : promised[l] = None
    BY DEF Init
<1>6. OneRules
    BY <1>3, <1>4, <1>5 DEF OneRules
<1>7. Clears(renewing[First], queue[First])
    BY <1>2, <1>3 DEF Clears
<1>8. NoCheckpoint(lessor[First], queue[First])
    BY <1>2, <1>3, <1>4 DEF NoCheckpoint
<1>9. ASSUME NEW l \in Lease PROVE LeasePromise(l)
    <2>1. \A type : ~In(<<>>, type, l)
        BY DEF In
    <2>2. Kept(promised[l], lessor[First].lease[l], queue[First], l)
        BY <1>2, <1>3, <1>4, <1>5, <2>1 DEF Kept
    <2>3. Renewable(renewing[First], lessor[First].lease[l], queue[First], l)
        BY <1>2, <1>3 DEF Renewable, Idle
    <2>4. ~Ending(l)
        BY <1>2, <1>3, <1>5, <2>1 DEF Ending, Lost
    <2> QED
        BY <2>2, <2>3, <2>4 DEF LeasePromise
<1> QED
    BY <1>1, <1>6, <1>7, <1>8, <1>9 DEF PromiseInv, FirstKeeps

\* What no step changes under an undisturbed first leader.
Frame ==
    /\ lead' = lead /\ isLeader' = isLeader /\ promoting' = promoting
    /\ \A s \in Server :
        /\ lessor'[s].primary = lessor[s].primary
        /\ s # First => revoking'[s] = revoking[s] /\ renewing'[s] = renewing[s]

\* Nor do most steps touch a lease.
SameLeases ==
    \A s \in Server, l \in Lease : lessor'[s].lease[l] = lessor[s].lease[l]

\* An entry is committed.
LEMMA CommitPromise ==
    ASSUME TypeOK, FirstKeeps, NEW e \in Entry, Commit(e), Frame, SameLeases,
           e.type # "empty",
           lessor'[First].checkpoints \subseteq lessor[First].checkpoints,
           renewing'[First].lease = renewing[First].lease,
           renewing'[First].pc # "idle" => renewing[First].pc # "idle",
           renewing'[First].pc = "refresh" => renewing[First].pc = "refresh",
           revoking'[First] \subseteq revoking[First],
           e.type = "revoke" => e.lease \in revoking[First],
           \A l \in Lease : Asks(e, l, promised[l], promised'[l]),
           e.type = "checkpoint" /\ renewing[First].pc # "idle"
                /\ renewing[First].lease = e.lease => e.remaining = 0,
           e.waiter = <<First, "renew">> =>
                e.type = "checkpoint" /\ e.lease = renewing[First].lease /\ e.remaining = 0,
           ~EnableLeaseCheckpoint /\ e.type = "checkpoint" => e.remaining = 0
    PROVE  FirstKeeps'
<1>0. First \in Server
    BY LessorAssumption
<1>1. \A s \in Server : queue[s] \in Seq(Entry) /\ Longer(queue[s], e, queue'[s])
    BY DEF TypeOK, Commit, Longer
<1>2. OneRules'
    <2>1. \A s \in Server : \A i \in 1..Len(queue'[s]) :
            (i \in 1..Len(queue[s]) /\ queue'[s][i] = queue[s][i]) \/ queue'[s][i] = e
        BY <1>1 DEF Longer
    <2>2. \A s \in Server : \A i \in 1..Len(queue'[s]) : queue'[s][i].type # "empty"
        BY <2>1 DEF FirstKeeps, OneRules
    <2> QED
        BY <2>2 DEF FirstKeeps, OneRules, Frame
<1>3. Clears(renewing'[First], queue'[First])
    BY <1>0, <1>1, ClearsMoves DEF FirstKeeps
<1>4. ASSUME ~EnableLeaseCheckpoint PROVE NoCheckpoint(lessor'[First], queue'[First])
    <2>1. NoCheckpoint(lessor[First], queue[First])
        BY <1>4 DEF FirstKeeps
    <2>2. \A i \in 1..Len(queue'[First]) :
            \/ i \in 1..Len(queue[First]) /\ queue'[First][i] = queue[First][i]
            \/ queue'[First][i] = e
        BY <1>0, <1>1 DEF Longer
    <2>3. \A i \in 1..Len(queue'[First]) :
            queue'[First][i].type = "checkpoint" => queue'[First][i].remaining = 0
        BY <1>4, <2>1, <2>2 DEF NoCheckpoint
    <2> QED
        BY <1>0, <2>1, <2>3 DEF NoCheckpoint, SameLeases
<1>5. ASSUME NEW l \in Lease PROVE LeasePromise(l)'
    <2> DEFINE p == promised[l]
               i == lessor[First].lease[l]
               p2 == promised'[l]
    <2>1. LeasePromise(l) /\ lessor'[First].lease[l] = i
        BY <1>0 DEF FirstKeeps, SameLeases
    <2>2. Asks(e, l, p, p2)
        OBVIOUS
    <2>3. Kept(p2, i, queue'[First], l)
        BY <1>0, <1>1, <2>1, <2>2, PromiseAppend DEF LeasePromise
    <2>4. Renewable(renewing'[First], i, queue'[First], l)
        <3>1. Renewable(renewing[First], i, queue[First], l)
            BY <2>1 DEF LeasePromise
        <3>2. Renewable(renewing[First], i, queue'[First], l)
            BY <1>0, <1>1, <2>2, <3>1, RenewableAppend
        <3> QED
            BY <3>2 DEF Renewable
    <2>5. Dead(p, i, queue[First], l) => Dead(p2, i, queue'[First], l)
        <3>1. queue[First] \in Seq(Entry) /\ Longer(queue[First], e, queue'[First])
            BY <1>0, <1>1
        <3> HIDE DEF p, p2, i
        <3> QED
            BY <2>2, <3>1, PromiseAppend
    <2>6. ASSUME Ending(l)' PROVE Ending(l)
        <3>1. CASE l \in revoking'[First]
            BY <3>1 DEF Ending
        <3>2. ASSUME NEW s \in Server, In(queue'[s], "revoke", l) PROVE Ending(l)
            <4>1. In(queue[s], "revoke", l) \/ (e.type = "revoke" /\ e.lease = l)
                BY <1>1, <3>2, InAppend
            <4> QED
                BY <4>1 DEF Ending
        <3>3. ASSUME NEW s \in Server, Lost(p2, lessor'[s].lease[l], queue'[s], l)
              PROVE  Ending(l)
            <4>1. Lost(p2, lessor[s].lease[l], queue'[s], l)
                BY <3>3 DEF SameLeases
            <4>2. Lost(p, lessor[s].lease[l], queue[s], l)
                BY <1>1, <2>2, <4>1, PromiseAppend
            <4> QED
                BY <4>2 DEF Ending
        <3> QED
            BY <2>6, <3>1, <3>2, <3>3 DEF Ending
    <2> QED
        BY <2>1, <2>3, <2>4, <2>5, <2>6 DEF LeasePromise
<1> QED
    BY <1>2, <1>3, <1>4, <1>5 DEF FirstKeeps

\* Nothing is committed or applied.
LEMMA QuietPromise ==
    ASSUME TypeOK, FirstKeeps, Frame, SameLeases, queue' = queue, promised' = promised,
           lessor'[First].checkpoints \subseteq lessor[First].checkpoints,
           \A l \in revoking'[First] : l \in revoking[First]
                \/ Dead(promised[l], lessor[First].lease[l], queue[First], l),
           Clears(renewing'[First], queue[First]),
           \A l \in Lease : Renewable(renewing'[First], lessor[First].lease[l], queue[First], l)
    PROVE  FirstKeeps'
<1>0. First \in Server
    BY LessorAssumption
<1>2. OneRules'
    BY DEF FirstKeeps, OneRules, Frame
<1>4. ASSUME ~EnableLeaseCheckpoint PROVE NoCheckpoint(lessor'[First], queue'[First])
    BY <1>0, <1>4 DEF FirstKeeps, NoCheckpoint, SameLeases
<1>5. ASSUME NEW l \in Lease PROVE LeasePromise(l)'
    <2>1. LeasePromise(l) /\ lessor'[First].lease[l] = lessor[First].lease[l]
        BY <1>0 DEF FirstKeeps, SameLeases
    <2>2. ASSUME Ending(l)'
          PROVE  Ending(l) \/ Dead(promised[l], lessor[First].lease[l], queue[First], l)
        BY <2>2 DEF Ending, SameLeases
    <2> QED
        BY <2>1, <2>2 DEF LeasePromise
<1> QED
    BY <1>2, <1>4, <1>5 DEF FirstKeeps

\* Without checkpoints, nothing schedules one.
LEMMA NothingScheduled ==
    ASSUME ~EnableLeaseCheckpoint, NEW le \in LessorState, NEW e \in Entry, NEW l \in Lease
    PROVE  /\ Applied(le, e).checkpoints = le.checkpoints
           /\ Renew(le, l).checkpoints = le.checkpoints
<1>1. \A x, y : Scheduled(x, y) = x
    BY DEF Scheduled
<1>2. ASSUME NEW x \in LessorState, NEW y \in Lease
      PROVE  Watched(x, y, 0).checkpoints = x.checkpoints
    BY DEF Watched, LessorState
<1>3. Renew(le, l).checkpoints = le.checkpoints
    BY <1>2 DEF Renew, LessorState
<1>4. CASE e.type = "grant"
    <2> DEFINE i   == [remainingTTL |-> 0, expiry |-> Forever]
               f   == [le.lease EXCEPT ![e.lease] = i]
               new == [le EXCEPT !.lease = f]
    <2>1. e.lease \in Lease /\ Applied(le, e) = Grant(le, e.lease)
        BY <1>4 DEF Entry, Applied
    <2>2. i \in LeaseInfo
        BY Times DEF LeaseInfo, Deadline
    <2>3. Grant(le, e.lease) = IF le.lease[e.lease] # None THEN le
                               ELSE IF le.primary THEN Watched(new, e.lease, 0) ELSE new
        BY <1>1 DEF Grant
    <2> HIDE DEF i
    <2>4. f \in [Lease -> LeaseInfo \cup {None}]
        BY <2>1, <2>2 DEF LessorState
    <2> HIDE DEF f
    <2>5. new \in LessorState /\ new.checkpoints = le.checkpoints
        BY <2>4 DEF LessorState
    <2> HIDE DEF new
    <2> QED
        BY <1>2, <1>3, <2>1, <2>3, <2>5
<1>5. CASE e.type = "revoke"
    BY <1>3, <1>5 DEF Applied, Revoke, LessorState
<1>6. CASE e.type = "checkpoint"
    BY <1>1, <1>3, <1>6 DEF Applied, Checkpoint, LessorState
<1>7. CASE e.type = "empty"
    BY <1>3, <1>7 DEF Applied
<1> QED
    BY <1>4, <1>5, <1>6, <1>7 DEF Entry

\* The first leader applies an entry.
LEMMA ApplyFirst ==
    ASSUME IInv, FirstKeeps, ApplyEntry(First), ~disturbed'
    PROVE  FirstKeeps'
<1> PICK e : e = Head(queue[First])
    OBVIOUS
<1>0. First \in Server
    BY LessorAssumption
<1>1. TypeOK /\ Good(lessor[First]) /\ RenewalWaits(First)
    BY <1>0 DEF IInv, TypeOK, Good
<1>2. /\ queue[First] \in Seq(Entry) /\ Shorter(queue[First], e, queue'[First])
      /\ \A t \in Server : t # First => queue'[t] = queue[t] /\ renewing'[t] = renewing[t]
      /\ \A t \in Server : t # First => lessor'[t] = lessor[t]
      /\ lessor'[First] = Applied(lessor[First], e)
      /\ \A t \in Server : promoting'[t] =
            IF t = First THEN e.type = "empty" /\ isLeader[First] ELSE promoting[t]
      /\ ~(e.type = "revoke" /\ renewing[First].lease = e.lease)
      /\ lead' = lead /\ isLeader' = isLeader /\ revoking' = revoking /\ promised' = promised
    BY <1>0, <1>1 DEF ApplyEntry, TypeOK, Shorter
<1>3. e \in Entry /\ e = queue[First][1] /\ 1 \in 1..Len(queue[First])
    BY <1>2 DEF Shorter
<1>4. OneRules
    BY DEF FirstKeeps
<1>5. e.type # "empty"
    BY <1>0, <1>3, <1>4 DEF OneRules
<1>6. /\ lessor'[First].primary = TRUE
      /\ \A l \in Lease : Becomes(lessor[First].lease[l], e, l, lessor'[First].lease[l])
    <2>1. lessor[First].primary = TRUE
        BY <1>0, <1>4 DEF OneRules
    <2>2. /\ lessor'[First].primary = lessor[First].primary
          /\ \A l \in Lease : lessor'[First].lease[l] =
                IF l = e.lease THEN LeaseAfter(lessor[First].lease[l], e, lessor[First].primary)
                ELSE lessor[First].lease[l]
        BY <1>1, <1>2, <1>3, AppliedLeases
    <2>3. \A l \in Lease : lessor[First].lease[l] \in LeaseInfo \cup {None}
        BY <1>1 DEF Good, LessorState
    <2> QED
        BY <1>3, <2>1, <2>2, <2>3, LeaseBecomes
<1>7. /\ renewing'[First].lease = renewing[First].lease
      /\ renewing'[First].pc # "idle" => renewing[First].pc # "idle"
      /\ renewing'[First].pc = "refresh" =>
            renewing[First].pc = "refresh" \/ e.waiter = <<First, "renew">>
    <2>1. CASE e.waiter = <<First, "renew">>
        <3>1. renewing[First].pc = "wait"
            BY <1>1, <1>3, <2>1 DEF RenewalWaits, Waits
        <3>2. renewing'[First] = [renewing[First] EXCEPT !.pc = "refresh"]
            BY <1>0, <1>1, <2>1 DEF ApplyEntry, TypeOK
        <3>3. renewing[First] \in Renewal
            BY <1>0, <1>1 DEF TypeOK
        <3>4. renewing'[First].lease = renewing[First].lease
            BY <3>2, <3>3 DEF Renewal, Idle
        <3> QED
            BY <2>1, <3>1, <3>4
    <2>2. CASE e.waiter # <<First, "renew">>
        <3>1. renewing' = renewing
            BY <2>2 DEF ApplyEntry
        <3> QED
            BY <3>1
    <2> QED
        BY <2>1, <2>2
<1>8. OneRules'
    <2>1. ASSUME NEW s \in Server PROVE \A i \in 1..Len(queue'[s]) : queue'[s][i].type # "empty"
        <3>1. CASE s = First
            <4>1. \A i \in 1..Len(queue'[First]) :
                    i + 1 \in 1..Len(queue[First]) /\ queue'[First][i] = queue[First][i + 1]
                BY <1>2 DEF Shorter
            <4> QED
                BY <1>0, <1>4, <3>1, <4>1 DEF OneRules
        <3>2. CASE s # First
            BY <1>2, <1>4, <3>2 DEF OneRules
        <3> QED
            BY <3>1, <3>2
    <2>2. \A s \in Server : promoting'[s] = FALSE
        BY <1>2, <1>4, <1>5 DEF OneRules
    <2>3. \A s \in Server : lessor'[s].primary = (s = First)
        BY <1>2, <1>4, <1>6 DEF OneRules
    <2> QED
        BY <1>2, <1>4, <2>1, <2>2, <2>3 DEF OneRules
<1>9. Clears(renewing'[First], queue'[First])
    BY <1>2, <1>3, <1>7, ClearsMoves DEF FirstKeeps
<1>10. ASSUME ~EnableLeaseCheckpoint PROVE NoCheckpoint(lessor'[First], queue'[First])
    <2>1. NoCheckpoint(lessor[First], queue[First])
        BY <1>10 DEF FirstKeeps
    <2>2. lessor'[First].checkpoints = {}
        <3>1. ASSUME NEW l \in Lease PROVE lessor'[First].checkpoints = {}
            BY <1>1, <1>2, <1>3, <1>10, <2>1, NothingScheduled DEF Good, NoCheckpoint
        <3>2. e.lease \in Lease
            BY <1>3, <1>5 DEF Entry
        <3> QED
            BY <3>1, <3>2
    <2>3. \A i \in 1..Len(queue'[First]) :
            i + 1 \in 1..Len(queue[First]) /\ queue'[First][i] = queue[First][i + 1]
        BY <1>2 DEF Shorter
    <2>4. \A i \in 1..Len(queue'[First]) :
            queue'[First][i].type = "checkpoint" => queue'[First][i].remaining = 0
        BY <2>1, <2>3 DEF NoCheckpoint
    <2>5. ASSUME NEW l \in Lease, lessor'[First].lease[l] # None
          PROVE  lessor'[First].lease[l].remainingTTL = 0
        <3>1. Becomes(lessor[First].lease[l], e, l, lessor'[First].lease[l])
            BY <1>6
        <3>2. e.type = "checkpoint" => e.remaining = 0
            BY <1>3, <2>1 DEF NoCheckpoint
        <3>3. lessor[First].lease[l] # None => lessor[First].lease[l].remainingTTL = 0
            BY <2>1 DEF NoCheckpoint
        <3> QED
            BY <1>3, <2>5, <3>1, <3>2, <3>3 DEF Becomes, Entry
    <2> QED
        BY <2>2, <2>4, <2>5 DEF NoCheckpoint
<1>11. ASSUME NEW l \in Lease PROVE LeasePromise(l)'
    <2> DEFINE p == promised[l]
               i == lessor[First].lease[l]
               j == lessor'[First].lease[l]
    <2>1. LeasePromise(l) /\ promised'[l] = p
        BY <1>2 DEF FirstKeeps
    <2>2. Becomes(i, e, l, j) /\ i \in LeaseInfo \cup {None} /\ p \in (0..TTL) \cup {None}
        BY <1>1, <1>6 DEF Good, LessorState, TypeOK
    <2>3. Kept(p, i, queue[First], l) /\ Renewable(renewing[First], i, queue[First], l)
          /\ Clears(renewing[First], queue[First])
        BY <2>1 DEF LeasePromise, FirstKeeps
    <2> HIDE DEF p, i, j
    <2>4. /\ Kept(p, j, queue'[First], l)
          /\ Dead(p, i, queue[First], l) => Dead(p, j, queue'[First], l)
          /\ Lost(p, j, queue'[First], l) =>
                Lost(p, i, queue[First], l) \/ In(queue[First], "revoke", l)
        BY <1>2, <2>2, <2>3, PromiseTail
    <2>5. Renewable(renewing'[First], j, queue'[First], l)
        <3>1. ~(e.type = "revoke" /\ renewing[First].lease = e.lease)
            BY <1>2
        <3> QED
            BY <1>2, <1>7, <2>2, <2>3, <3>1, RenewableTail
    <2>6. ASSUME Ending(l)' PROVE Ending(l)
        <3>1. CASE l \in revoking'[First]
            BY <1>2, <3>1 DEF Ending
        <3>2. ASSUME NEW s \in Server, In(queue'[s], "revoke", l) PROVE Ending(l)
            <4>1. CASE s = First
                <5>1. In(queue[First], "revoke", l)
                    BY <1>2, <3>2, <4>1, InTail
                <5> QED
                    BY <1>0, <5>1 DEF Ending
            <4>2. CASE s # First
                BY <1>2, <3>2, <4>2 DEF Ending
            <4> QED
                BY <4>1, <4>2
        <3>3. ASSUME NEW s \in Server, Lost(p, lessor'[s].lease[l], queue'[s], l)
              PROVE  Ending(l)
            <4>1. CASE s = First
                BY <1>0, <2>4, <3>3, <4>1 DEF Ending, p, i, j
            <4>2. CASE s # First
                BY <1>2, <3>3, <4>2 DEF Ending, p
            <4> QED
                BY <4>1, <4>2
        <3> QED
            BY <2>1, <2>6, <3>1, <3>2, <3>3 DEF Ending
    <2> QED
        BY <2>1, <2>4, <2>5, <2>6 DEF LeasePromise, p, i, j
<1> QED
    BY <1>8, <1>9, <1>10, <1>11 DEF FirstKeeps

\* Another server does.
LEMMA ApplyOther ==
    ASSUME IInv, FirstKeeps, NEW s \in Server, s # First, ApplyEntry(s)
    PROVE  FirstKeeps'
<1> PICK e : e = Head(queue[s])
    OBVIOUS
<1>0. First \in Server
    BY LessorAssumption
<1>1. TypeOK /\ Good(lessor[s]) /\ RenewalWaits(s)
    BY DEF IInv, TypeOK, Good
<1>2. /\ queue[s] \in Seq(Entry) /\ Shorter(queue[s], e, queue'[s])
      /\ \A t \in Server : t # s => queue'[t] = queue[t] /\ lessor'[t] = lessor[t]
      /\ lessor'[s] = Applied(lessor[s], e)
      /\ \A t \in Server : promoting'[t] =
            IF t = s THEN e.type = "empty" /\ isLeader[s] ELSE promoting[t]
      /\ lead' = lead /\ isLeader' = isLeader /\ revoking' = revoking /\ promised' = promised
    BY <1>1 DEF ApplyEntry, TypeOK, Shorter
<1>3. e \in Entry /\ e = queue[s][1] /\ 1 \in 1..Len(queue[s])
    BY <1>2 DEF Shorter
<1>4. OneRules
    BY DEF FirstKeeps
<1>5. e.type # "empty"
    BY <1>3, <1>4 DEF OneRules
<1>6. renewing' = renewing
    <2>1. e.waiter # <<s, "renew">>
        <3> SUFFICES ASSUME e.waiter = <<s, "renew">> PROVE FALSE
            OBVIOUS
        <3>1. renewing[s].pc = "wait"
            BY <1>1, <1>3 DEF RenewalWaits, Waits
        <3> QED
            BY <1>4, <3>1 DEF OneRules, Idle
    <2> QED
        BY <2>1 DEF ApplyEntry
<1>7. /\ lessor'[s].primary = lessor[s].primary
      /\ \A l \in Lease : lessor'[s].lease[l] =
            IF l = e.lease THEN LeaseAfter(lessor[s].lease[l], e, lessor[s].primary)
            ELSE lessor[s].lease[l]
    BY <1>1, <1>2, <1>3, AppliedLeases
<1>8. OneRules'
    <2>1. ASSUME NEW t \in Server PROVE \A i \in 1..Len(queue'[t]) : queue'[t][i].type # "empty"
        <3>1. CASE t = s
            <4>1. \A i \in 1..Len(queue'[s]) :
                    i + 1 \in 1..Len(queue[s]) /\ queue'[s][i] = queue[s][i + 1]
                BY <1>2 DEF Shorter
            <4> QED
                BY <1>4, <3>1, <4>1 DEF OneRules
        <3>2. CASE t # s
            BY <1>2, <1>4, <3>2 DEF OneRules
        <3> QED
            BY <3>1, <3>2
    <2>2. \A t \in Server : promoting'[t] = FALSE
        BY <1>2, <1>4, <1>5 DEF OneRules
    <2>3. \A t \in Server : lessor'[t].primary = (t = First)
        <3>1. \A t \in Server : lessor'[t].primary = lessor[t].primary
            BY <1>2, <1>7
        <3> QED
            BY <1>4, <3>1 DEF OneRules
    <2> QED
        BY <1>2, <1>4, <1>6, <2>1, <2>2, <2>3 DEF OneRules
<1>9. queue'[First] = queue[First] /\ lessor'[First] = lessor[First]
    BY <1>0, <1>2
<1>10. ASSUME NEW l \in Lease PROVE LeasePromise(l)'
    <2> DEFINE p == promised[l]
               i == lessor[s].lease[l]
               j == lessor'[s].lease[l]
    <2>1. LeasePromise(l) /\ promised'[l] = p
        BY <1>2 DEF FirstKeeps
    <2>2. j = IF l = e.lease THEN LeaseAfter(i, e, lessor[s].primary) ELSE i
        BY <1>7
    <2>3. i \in LeaseInfo \cup {None}
        BY <1>1 DEF Good, LessorState
    <2> HIDE DEF p, i, j
    <2>4. e.type = "grant" /\ e.lease = l => j # None
        <3> SUFFICES ASSUME e.type = "grant", e.lease = l PROVE j # None
            OBVIOUS
        <3> DEFINE d == IF lessor[s].primary THEN TTL ELSE Forever
                   new == [remainingTTL |-> 0, expiry |-> d]
        <3>1. d \in Deadline
            BY Times DEF Deadline
        <3> HIDE DEF d
        <3>2. new \in LeaseInfo
            BY <3>1, Times DEF LeaseInfo
        <3>3. j = IF i # None THEN i ELSE new
            BY <2>2 DEF LeaseAfter, d
        <3> HIDE DEF new
        <3> QED
            BY <3>2, <3>3, Times
    <2>5. ~(e.type = "revoke" /\ e.lease = l) /\ i # None => j # None
        <3> SUFFICES ASSUME ~(e.type = "revoke" /\ e.lease = l), i # None PROVE j # None
            OBVIOUS
        <3>1. CASE l # e.lease
            BY <2>2, <3>1
        <3>2. CASE l = e.lease /\ e.type = "grant"
            BY <2>4, <3>2
        <3>3. CASE l = e.lease /\ e.type = "checkpoint"
            <4> DEFINE new == [i EXCEPT !.remainingTTL = e.remaining]
            <4>1. new \in LeaseInfo
                BY <1>3, <2>3, <3>3 DEF LeaseInfo, Entry
            <4>2. j = new
                BY <2>2, <3>3 DEF LeaseAfter
            <4> HIDE DEF new
            <4> QED
                BY <4>1, <4>2, Times
        <3> QED
            BY <1>3, <1>5, <3>1, <3>2, <3>3 DEF Entry
    <2>6. ASSUME Ending(l)' PROVE Ending(l)
        <3>1. CASE l \in revoking'[First]
            BY <1>2, <3>1 DEF Ending
        <3>2. ASSUME NEW t \in Server, In(queue'[t], "revoke", l) PROVE Ending(l)
            <4>1. CASE t = s
                <5>1. In(queue[s], "revoke", l)
                    BY <1>2, <3>2, <4>1, InTail
                <5> QED
                    BY <5>1 DEF Ending
            <4>2. CASE t # s
                BY <1>2, <3>2, <4>2 DEF Ending
            <4> QED
                BY <4>1, <4>2
        <3>3. ASSUME NEW t \in Server, Lost(p, lessor'[t].lease[l], queue'[t], l)
              PROVE  Ending(l)
            <4>1. CASE t = s
                <5>1. Lost(p, j, queue'[s], l)
                    BY <3>3, <4>1 DEF j
                <5>2. Lost(p, i, queue[s], l) \/ In(queue[s], "revoke", l)
                    BY <1>2, <2>4, <2>5, <5>1, LostTail
                <5> QED
                    BY <5>2 DEF Ending, p, i
            <4>2. CASE t # s
                BY <1>2, <3>3, <4>2 DEF Ending, p
            <4> QED
                BY <4>1, <4>2
        <3> QED
            BY <2>1, <2>6, <3>1, <3>2, <3>3 DEF Ending
    <2> QED
        BY <1>6, <1>9, <2>1, <2>6 DEF LeasePromise, p
<1> QED
    BY <1>6, <1>8, <1>9, <1>10 DEF FirstKeeps

\* A second passes.
LEMMA TickPromise ==
    ASSUME IInv, FirstKeeps, Tick, ~disturbed'
    PROVE  FirstKeeps'
<1>0. First \in Server
    BY LessorAssumption
<1>1. TypeOK /\ \A s \in Server : Good(lessor[s])
    BY DEF IInv, TypeOK, Good
<1>2. /\ lead' = lead /\ isLeader' = isLeader /\ promoting' = promoting /\ queue' = queue
      /\ revoking' = revoking /\ renewing' = renewing /\ renewing[First] = Idle
      /\ \A l \in Lease : promised'[l] = Less(promised[l])
    BY <1>0 DEF Tick
<1>3. ASSUME NEW s \in Server
      PROVE  /\ lessor'[s].primary = lessor[s].primary
             /\ \A l \in Lease : lessor'[s].lease[l] = Later(lessor[s].lease[l])
             /\ lessor'[s].checkpoints = {<<c[1], Less(c[2])>> : c \in lessor[s].checkpoints}
    <2>1. lessor[s] \in LessorState
        BY <1>1 DEF Good
    <2>2. PICK new : new = lessor'[s]
        OBVIOUS
    <2>3. new = Passed(lessor[s])
        BY <2>2 DEF Tick, Passed
    <2>4. /\ new.primary = lessor[s].primary
          /\ \A l \in Lease : new.lease[l] = Later(lessor[s].lease[l])
          /\ new.checkpoints = {<<c[1], Less(c[2])>> : c \in lessor[s].checkpoints}
        BY <2>1, <2>3, TickLeases
    <2> QED
        BY <2>2, <2>4
<1>4. OneRules'
    BY <1>2, <1>3 DEF FirstKeeps, OneRules
<1>5. Clears(renewing'[First], queue'[First])
    BY <1>2 DEF FirstKeeps
<1>6. ASSUME ~EnableLeaseCheckpoint PROVE NoCheckpoint(lessor'[First], queue'[First])
    <2>1. NoCheckpoint(lessor[First], queue[First])
        BY <1>6 DEF FirstKeeps
    <2>2. lessor'[First].checkpoints = {}
        BY <1>0, <1>3, <2>1 DEF NoCheckpoint
    <2>3. ASSUME NEW l \in Lease, lessor'[First].lease[l] # None
          PROVE  lessor'[First].lease[l].remainingTTL = 0
        <3>1. lessor'[First].lease[l] = Later(lessor[First].lease[l])
            BY <1>0, <1>3
        <3>2. lessor[First].lease[l] # None
            BY <2>3, <3>1 DEF Later
        <3>3. lessor[First].lease[l] \in LeaseInfo
            BY <1>0, <1>1, <3>2 DEF Good, LessorState
        <3>4. Later(lessor[First].lease[l]).remainingTTL = lessor[First].lease[l].remainingTTL
            BY <3>3, DeadlineOnly
        <3> QED
            BY <2>1, <3>1, <3>2, <3>4 DEF NoCheckpoint
    <2> QED
        BY <1>2, <2>1, <2>2, <2>3 DEF NoCheckpoint
<1>7. ASSUME NEW l \in Lease PROVE LeasePromise(l)'
    <2> DEFINE p  == promised[l]
               i  == lessor[First].lease[l]
               j  == lessor'[First].lease[l]
               p2 == promised'[l]
    <2>1. LeasePromise(l) /\ p2 = Less(p)
        BY <1>2 DEF FirstKeeps
    <2>2. i \in LeaseInfo \cup {None} /\ p \in (0..TTL) \cup {None} /\ j = Later(i)
        BY <1>0, <1>1, <1>3 DEF Good, LessorState, TypeOK
    <2>3. i # None => i.expiry # Forever
        BY <1>0, <1>1 DEF Good, Watching, FirstKeeps, OneRules
    <2>4. Kept(p, i, queue[First], l)
        BY <2>1 DEF LeasePromise
    <2> HIDE DEF p, i, j, p2
    <2>5. /\ Kept(p2, j, queue[First], l)
          /\ Dead(p, i, queue[First], l) => Dead(p2, j, queue[First], l)
          /\ p2 = None <=> p = None
        BY <2>1, <2>2, <2>3, <2>4, PromiseLater
    <2>6. Renewable(renewing'[First], j, queue[First], l)
        BY <1>2 DEF Renewable, Idle
    <2>7. ASSUME NEW s \in Server, Lost(p2, lessor'[s].lease[l], queue[s], l)
          PROVE  Lost(p, lessor[s].lease[l], queue[s], l)
        <3>1. lessor'[s].lease[l] = Later(lessor[s].lease[l])
            BY <1>3
        <3>2. lessor[s].lease[l] # None => lessor[s].lease[l] \in LeaseInfo
            BY <1>1 DEF Good, LessorState
        <3>3. lessor[s].lease[l] # None => Later(lessor[s].lease[l]) # None
            BY <3>2, DeadlineOnly
        <3> QED
            BY <2>5, <2>7, <3>1, <3>3 DEF Lost
    <2>8. Ending(l)' => Ending(l)
        BY <1>2, <2>7 DEF Ending, p, p2
    <2> QED
        BY <1>2, <2>1, <2>5, <2>6, <2>8 DEF LeasePromise, p, i, j, p2
<1> QED
    BY <1>4, <1>5, <1>6, <1>7 DEF FirstKeeps

\* A renewal ends with a new deadline, as far as its promise.
LEMMA EndRenewPromise ==
    ASSUME IInv, FirstKeeps, EndRenew(First)
    PROVE  FirstKeeps'
<1> PICK x : x = renewing[First].lease
    OBVIOUS
<1>0. First \in Server
    BY LessorAssumption
<1>1. TypeOK /\ Good(lessor[First]) /\ RenewalWaits(First) /\ lessor[First] \in LessorState
    BY <1>0 DEF IInv, TypeOK, Good
<1>2. renewing[First].pc = "refresh" /\ x \in Lease
    BY <1>0, <1>1 DEF EndRenew, TypeOK, Renewal, Idle
<1>3. /\ lead' = lead /\ isLeader' = isLeader /\ promoting' = promoting /\ queue' = queue
      /\ revoking' = revoking /\ renewing'[First] = Idle
      /\ \A t \in Server : t # First => renewing'[t] = renewing[t] /\ lessor'[t] = lessor[t]
      /\ lessor'[First] = Renew(lessor[First], x)
      /\ \A l \in Lease : promised'[l] = IF l = x THEN TTL ELSE promised[l]
    BY <1>0, <1>1 DEF EndRenew, TypeOK
<1>4. /\ lessor'[First].primary = lessor[First].primary
      /\ \A l \in Lease : lessor'[First].lease[l] =
            IF l = x /\ lessor[First].lease[x] # None
            THEN Refreshed(lessor[First].lease[x], 0) ELSE lessor[First].lease[l]
    BY <1>1, <1>2, <1>3, RenewLeases
<1>5. OneRules'
    BY <1>0, <1>3, <1>4 DEF FirstKeeps, OneRules
<1>6. Clears(renewing'[First], queue'[First])
    BY <1>1, <1>2, <1>3 DEF RenewalWaits, Waits, Clears
<1> DEFINE i == lessor[First].lease[x]
           j == lessor'[First].lease[x]
<1>7. LeasePromise(x)
    BY <1>2 DEF FirstKeeps
<1>8. i # None /\ i \in LeaseInfo /\ i.expiry > 0 /\ i.remainingTTL = 0
    BY <1>1, <1>2, <1>7 DEF LeasePromise, Renewable, Good, LessorState
<1>9. j # None /\ j.expiry = TTL /\ j.remainingTTL = 0
    <2>1. j = Refreshed(i, 0)
        BY <1>2, <1>4, <1>8
    <2> HIDE DEF i, j
    <2>2. Refreshed(i, 0) = [i EXCEPT !.expiry = 0 + TTL]
        BY <1>8 DEF Refreshed, RemainingTTL
    <2>3. 0 + TTL = TTL /\ TTL \in Deadline
        BY Times DEF Deadline
    <2>4. [i EXCEPT !.expiry = TTL] \in LeaseInfo /\ [i EXCEPT !.expiry = TTL].expiry = TTL
          /\ [i EXCEPT !.expiry = TTL].remainingTTL = i.remainingTTL
        BY <1>8, <2>3 DEF LeaseInfo
    <2> QED
        BY <1>8, <2>1, <2>2, <2>3, <2>4, Times
<1>10. ASSUME ~EnableLeaseCheckpoint PROVE NoCheckpoint(lessor'[First], queue'[First])
    <2>1. NoCheckpoint(lessor[First], queue[First])
        BY <1>10 DEF FirstKeeps
    <2>2. Msg("empty", None, 0, None) \in Entry
        BY MsgType
    <2>3. lessor'[First].checkpoints = {}
        BY <1>1, <1>2, <1>3, <1>10, <2>1, <2>2, NothingScheduled DEF NoCheckpoint
    <2>4. ASSUME NEW l \in Lease, lessor'[First].lease[l] # None
          PROVE  lessor'[First].lease[l].remainingTTL = 0
        <3>1. CASE l = x
            BY <1>9, <3>1
        <3>2. CASE l # x
            BY <1>4, <2>1, <2>4, <3>2 DEF NoCheckpoint
        <3> QED
            BY <3>1, <3>2
    <2> QED
        BY <1>3, <2>1, <2>3, <2>4 DEF NoCheckpoint
<1>11. promised[x] # None /\ ~In(queue[First], "grant", x) /\ ~Ending(x)
    <2>1. Kept(promised[x], i, queue[First], x)
          /\ (Ending(x) => Dead(promised[x], i, queue[First], x))
        BY <1>7 DEF LeasePromise
    <2> HIDE DEF i
    <2> QED
        BY <1>8, <2>1 DEF Kept, Dead
<1>12. LeasePromise(x)'
    <2>1. promised'[x] = TTL /\ promised'[x] # None
        BY <1>2, <1>3, Times
    <2>2. Kept(promised'[x], j, queue[First], x)
        <3>1. \A a, b \in 1..Len(queue[First]) :
                Is(queue[First], a, "grant", x) /\ Is(queue[First], b, "grant", x) => a = b
            BY <1>7 DEF LeasePromise, Kept
        <3>2. j.expiry >= promised'[x]
            BY <1>9, <2>1, Times
        <3> HIDE DEF j
        <3> QED
            BY <1>9, <1>11, <2>1, <3>1, <3>2 DEF Kept
    <2>3. Renewable(renewing'[First], j, queue[First], x)
        BY <1>3 DEF Renewable, Idle
    <2>4. ~Ending(x)'
        <3>1. x \notin revoking'[First] /\ \A s \in Server : ~In(queue'[s], "revoke", x)
            BY <1>3, <1>11 DEF Ending
        <3>2. ASSUME NEW s \in Server, Lost(promised'[x], lessor'[s].lease[x], queue'[s], x)
              PROVE  FALSE
            <4>1. CASE s = First
                BY <1>9, <3>2, <4>1 DEF Lost
            <4>2. CASE s # First
                <5>1. Lost(promised[x], lessor[s].lease[x], queue[s], x)
                    BY <1>3, <1>11, <3>2, <4>2 DEF Lost
                <5> QED
                    BY <1>11, <5>1 DEF Ending
            <4> QED
                BY <4>1, <4>2
        <3> QED
            BY <3>1, <3>2 DEF Ending
    <2> QED
        BY <1>3, <2>2, <2>3, <2>4 DEF LeasePromise
<1>13. ASSUME NEW l \in Lease, l # x PROVE LeasePromise(l)'
    <2>1. LeasePromise(l) /\ promised'[l] = promised[l]
          /\ lessor'[First].lease[l] = lessor[First].lease[l]
        BY <1>3, <1>4, <1>13 DEF FirstKeeps
    <2>2. Renewable(renewing'[First], lessor[First].lease[l], queue[First], l)
        BY <1>3 DEF Renewable, Idle
    <2>3. \A s \in Server : lessor'[s].lease[l] = lessor[s].lease[l]
        BY <1>3, <2>1
    <2>4. Ending(l)' => Ending(l)
        BY <1>3, <2>1, <2>3 DEF Ending
    <2> QED
        BY <1>3, <2>1, <2>2, <2>4 DEF LeasePromise
<1> QED
    BY <1>5, <1>6, <1>10, <1>12, <1>13 DEF FirstKeeps

\* A change of leaders is counted for good.
LEMMA CountKept ==
    ASSUME CountType, [Next]_vars
    PROVE  CountType' /\ (count'.change = 0 => count.change = 0)
<1>1. ASSUME NEW k \in {"change", "renewal", "lost"}, NEW max, Counted(k, max)
      PROVE  CountType' /\ (count'.change = 0 => count.change = 0)
    BY <1>1 DEF Counted, CountType
<1>2. ASSUME UNCHANGED count
      PROVE  CountType' /\ (count'.change = 0 => count.change = 0)
    BY <1>2 DEF CountType
<1>3. (\E k \in {"change", "renewal", "lost"}, max \in {MaxChanges, MaxRenewals, MaxLost} :
            Counted(k, max)) \/ UNCHANGED count
    <2>1. CASE Tick \/ \E l \in Lease : GrantLease(l)
        BY <2>1 DEF Tick, GrantLease
    <2>2. CASE \E s \in Server : Loop(s)
        BY <2>2 DEF Loop, ApplyEntry, PromoteLessor, UpdateLeadership, revokeExpiredLeases,
            ProposeRevoke, checkpointScheduledLeases, ProposeClear, EndRenew
    <2>3. CASE \E s \in Server : ChangeLeader(s) \/ LoseRevoke(s) \/ LoseClear(s)
                                    \/ \E l \in Lease : StartRenew(s, l)
        BY <2>3 DEF ChangeLeader, LoseRevoke, LoseClear, StartRenew
    <2>4. CASE UNCHANGED vars
        BY <2>4 DEF vars
    <2> QED
        BY <2>1, <2>2, <2>3, <2>4 DEF Next
<1> QED
    BY <1>1, <1>2, <1>3

\* Every step under an undisturbed first leader keeps the promises.
LEMMA NextPromise == IInv /\ PromiseInv /\ [Next]_vars => PromiseInv'
<1> SUFFICES ASSUME IInv, PromiseInv, [Next]_vars, Undisturbed' PROVE FirstKeeps'
    BY CountKept DEF PromiseInv
<1>0. First \in Server
    BY LessorAssumption
<1>1. TypeOK /\ \A s \in Server : Good(lessor[s]) /\ RenewalWaits(s)
    BY DEF IInv, TypeOK, Good
<1>c. CountType /\ count.change = 0 /\ count'.change = 0 /\ ~disturbed'
    BY CountKept DEF PromiseInv, Undisturbed
<1>d. disturbed => disturbed'
    <2>1. CASE Tick \/ \E l \in Lease : GrantLease(l)
        BY <2>1 DEF Tick, GrantLease
    <2>2. CASE \E s \in Server : Loop(s)
        BY <2>2 DEF Loop, ApplyEntry, PromoteLessor, UpdateLeadership, revokeExpiredLeases,
            ProposeRevoke, checkpointScheduledLeases, ProposeClear, EndRenew
    <2>3. CASE \E s \in Server : ChangeLeader(s) \/ LoseRevoke(s) \/ LoseClear(s)
                                    \/ \E l \in Lease : StartRenew(s, l)
        BY <2>3 DEF ChangeLeader, LoseRevoke, LoseClear, StartRenew
    <2>4. CASE UNCHANGED vars
        BY <2>4 DEF vars
    <2> QED
        BY <2>1, <2>2, <2>3, <2>4 DEF Next
<1>k. FirstKeeps
    BY <1>c, <1>d DEF PromiseInv, Undisturbed
<1>o. OneRules /\ Clears(renewing[First], queue[First])
      /\ lessor[First] \in LessorState /\ renewing[First] \in Renewal
    BY <1>0, <1>1, <1>k DEF FirstKeeps, TypeOK
<1>l. \A l \in Lease : Kept(promised[l], lessor[First].lease[l], queue[First], l)
                       /\ Renewable(renewing[First], lessor[First].lease[l], queue[First], l)
    BY <1>k DEF FirstKeeps, LeasePromise
<1>2. CASE Tick
    BY <1>2, <1>c, <1>k, TickPromise
<1>3. ASSUME NEW l \in Lease, GrantLease(l) PROVE FirstKeeps'
    <2> PICK e : e = Msg("grant", l, 0, None)
        OBVIOUS
    <2>1. e \in Entry /\ e.type = "grant" /\ e.lease = l /\ e.waiter # <<First, "renew">>
        BY <1>0, MsgType, LessorAssumption DEF Msg
    <2>2. Frame /\ SameLeases
        BY <1>3 DEF GrantLease, Frame, SameLeases
    <2>3. \A x \in Lease : Asks(e, x, promised[x], promised'[x])
        BY <1>1, <1>3, <2>1, Times DEF GrantLease, TypeOK, Asks
    <2>4. Commit(e) /\ UNCHANGED <<lessor, renewing, revoking>>
        BY <1>3 DEF GrantLease
    <2> QED
        BY <1>1, <1>k, <2>1, <2>2, <2>3, <2>4, CommitPromise
<1>4. ASSUME NEW s \in Server, ChangeLeader(s) PROVE FALSE
    BY <1>4, <1>c DEF ChangeLeader, Counted, CountType
<1>5. ASSUME NEW s \in Server, UpdateLeadership(s) PROVE FALSE
    BY <1>5, <1>o DEF UpdateLeadership, OneRules
<1>6. ASSUME NEW s \in Server, ApplyEntry(s) PROVE FirstKeeps'
    BY <1>6, <1>c, <1>k, ApplyFirst, ApplyOther
<1>7. ASSUME NEW s \in Server, PromoteLessor(s) PROVE FALSE
    BY <1>7, <1>o DEF PromoteLessor, OneRules
<1>8. ASSUME NEW s \in Server, revokeExpiredLeases(s) PROVE FirstKeeps'
    <2>1. s = First
        BY <1>8, <1>o DEF revokeExpiredLeases, OneRules
    <2> PICK g : lessor' = [lessor EXCEPT ![s].notifier = g]
        BY <1>8 DEF revokeExpiredLeases
    <2>2. lessor'[First] = [lessor[First] EXCEPT !.notifier = g]
          /\ \A t \in Server : t # First => lessor'[t] = lessor[t]
        BY <1>0, <1>1, <2>1 DEF TypeOK
    <2>3. /\ lessor'[First].primary = lessor[First].primary
          /\ lessor'[First].lease = lessor[First].lease
          /\ lessor'[First].checkpoints = lessor[First].checkpoints
        BY <1>o, <2>2 DEF LessorState
    <2>4. /\ revoking'[First] = revoking[First] \cup
                {l \in Due(lessor[First]) \cap Held(lessor[First]) : lessor[First].lease[l].expiry = 0}
          /\ \A t \in Server : t # First => revoking'[t] = revoking[t]
        BY <1>0, <1>1, <1>8, <2>1 DEF revokeExpiredLeases, TypeOK
    <2>5. Frame /\ SameLeases
        BY <1>8, <2>2, <2>3, <2>4 DEF revokeExpiredLeases, Frame, SameLeases
    <2>6. ASSUME NEW l \in revoking'[First], l \notin revoking[First]
          PROVE  Dead(promised[l], lessor[First].lease[l], queue[First], l)
        <3> DEFINE i == lessor[First].lease[l]
                   p == promised[l]
        <3>1. l \in Lease /\ i # None /\ i.expiry = 0
            BY <2>4, <2>6 DEF Held
        <3>2. Kept(p, i, queue[First], l) /\ p \in (0..TTL) \cup {None}
            BY <1>1, <1>l, <3>1 DEF TypeOK
        <3> HIDE DEF i, p
        <3>3. p # None /\ p <= 0 /\ ~In(queue[First], "grant", l)
            BY <3>1, <3>2 DEF Kept
        <3>4. p = 0
            BY <3>2, <3>3, Times
        <3> QED
            BY <3>1, <3>3, <3>4 DEF Dead, i, p
    <2>7. UNCHANGED <<queue, promised, renewing>>
        BY <1>8 DEF revokeExpiredLeases
    <2> QED
        BY <1>1, <1>k, <1>l, <1>o, <2>3, <2>5, <2>6, <2>7, QuietPromise
<1>9. ASSUME NEW s \in Server, ProposeRevoke(s) PROVE FirstKeeps'
    <2>1. s = First
        BY <1>9, <1>o DEF ProposeRevoke, OneRules
    <2> PICK l \in revoking[First] : /\ revoking' = [revoking EXCEPT ![First] = @ \ {l}]
                                     /\ Commit(Msg("revoke", l, 0, None))
        BY <1>9, <2>1 DEF ProposeRevoke
    <2> PICK e : e = Msg("revoke", l, 0, None)
        OBVIOUS
    <2>2. l \in Lease
        BY <1>0, <1>1 DEF TypeOK
    <2>3. e \in Entry /\ e.type = "revoke" /\ e.lease = l /\ e.waiter # <<First, "renew">>
        BY <1>0, <2>2, MsgType, LessorAssumption DEF Msg
    <2>4. /\ revoking'[First] \subseteq revoking[First]
          /\ \A t \in Server : t # First => revoking'[t] = revoking[t]
        BY <1>0, <1>1 DEF TypeOK
    <2>5. Frame /\ SameLeases
        BY <1>9, <2>4 DEF ProposeRevoke, Frame, SameLeases
    <2>6. \A x \in Lease : Asks(e, x, promised[x], promised'[x])
        BY <1>9, <2>3 DEF ProposeRevoke, Asks
    <2>7. Commit(e) /\ UNCHANGED <<lessor, renewing>>
        BY <1>9 DEF ProposeRevoke
    <2> QED
        BY <1>1, <1>k, <2>3, <2>4, <2>5, <2>6, <2>7, CommitPromise
<1>10. ASSUME NEW s \in Server, LoseRevoke(s) PROVE FirstKeeps'
    <2>1. s = First
        BY <1>10, <1>o DEF LoseRevoke, OneRules
    <2>2. /\ revoking'[First] \subseteq revoking[First]
          /\ \A t \in Server : t # First => revoking'[t] = revoking[t]
        BY <1>0, <1>1, <1>10, <2>1 DEF LoseRevoke, TypeOK
    <2>3. Frame /\ SameLeases /\ UNCHANGED <<queue, lessor, promised, renewing>>
        BY <1>10, <2>2 DEF LoseRevoke, Frame, SameLeases
    <2> QED
        BY <1>1, <1>k, <1>l, <1>o, <2>2, <2>3, QuietPromise
<1>11. ASSUME NEW s \in Server, checkpointScheduledLeases(s) PROVE FirstKeeps'
    <2>1. s = First
        BY <1>11, <1>o DEF checkpointScheduledLeases, OneRules
    <2> DEFINE i(c) == lessor[First].lease[c[1]]
               m(c) == Msg("checkpoint", c[1], i(c).expiry, <<First, "loop">>)
               more(c) == i(c) # None /\ i(c).expiry > 0 /\ i(c).expiry < TTL
    <2> PICK c \in lessor[First].checkpoints :
            /\ lessor' = [lessor EXCEPT ![First].checkpoints = @ \ {c}]
            /\ IF more(c) THEN Commit(m(c)) ELSE UNCHANGED queue
            /\ ~(renewing[First].lease = c[1])
        BY <1>11, <1>c, <2>1 DEF checkpointScheduledLeases
    <2> PICK cs : cs = lessor[First].checkpoints \ {c}
        OBVIOUS
    <2>2. lessor'[First] = [lessor[First] EXCEPT !.checkpoints = cs]
          /\ \A t \in Server : t # First => lessor'[t] = lessor[t]
        BY <1>0, <1>1 DEF TypeOK
    <2>3. /\ lessor'[First].primary = lessor[First].primary
          /\ lessor'[First].lease = lessor[First].lease
          /\ lessor'[First].checkpoints \subseteq lessor[First].checkpoints
        BY <1>o, <2>2 DEF LessorState
    <2>4. UNCHANGED <<lead, isLeader, promoting, revoking, renewing, promised>>
        BY <1>11 DEF checkpointScheduledLeases
    <2>5. Frame /\ SameLeases
        BY <2>2, <2>3, <2>4 DEF Frame, SameLeases
    <2>6. EnableLeaseCheckpoint
        BY <1>k DEF FirstKeeps, NoCheckpoint
    <2>7. CASE more(c)
        <3> PICK e : e = m(c)
            OBVIOUS
        <3>1. c[1] \in Lease /\ i(c) \in LeaseInfo
            BY <1>o, <2>7 DEF LessorState
        <3>2. i(c).expiry \in 0..TTL
            BY <2>7, <3>1, Times DEF LeaseInfo
        <3>3. e \in Entry
            BY <1>0, <3>1, <3>2, MsgType
        <3>4. e.type = "checkpoint" /\ e.lease = c[1] /\ e.waiter # <<First, "renew">>
            BY DEF Msg
        <3>5. \A x \in Lease : Asks(e, x, promised[x], promised'[x])
            BY <2>4, <3>4 DEF Asks
        <3>6. Commit(e)
            BY <2>7
        <3> HIDE DEF i, m, more
        <3> QED
            BY <1>1, <1>k, <2>3, <2>4, <2>5, <2>6, <3>3, <3>4, <3>5, <3>6, CommitPromise
    <2>8. CASE ~more(c)
        <3>1. UNCHANGED queue
            BY <2>8
        <3> HIDE DEF i, m, more
        <3> QED
            BY <1>1, <1>k, <1>l, <1>o, <2>3, <2>4, <2>5, <3>1, QuietPromise
    <2> QED
        BY <2>7, <2>8
<1>12. ASSUME NEW s \in Server, NEW l \in Lease, StartRenew(s, l) PROVE FirstKeeps'
    <2>1. s = First
        BY <1>12, <1>o DEF StartRenew, OneRules
    <2>2. /\ queue[First] = <<>> /\ lessor[First].lease[l] # None
          /\ lessor[First].lease[l].expiry > 0
        BY <1>12, <1>o, <2>1 DEF StartRenew, OneRules, Held
    <2> DEFINE b == EnableLeaseCheckpoint /\ lessor[First].lease[l].remainingTTL > 0
    <2>3. /\ renewing'[First] = [pc |-> IF b THEN "clear" ELSE "refresh", lease |-> l]
          /\ \A t \in Server : t # First => renewing'[t] = renewing[t]
        BY <1>0, <1>1, <1>12, <2>1 DEF StartRenew, TypeOK
    <2>4. UNCHANGED <<lead, isLeader, queue, lessor, promoting, revoking, promised>>
        BY <1>12 DEF StartRenew
    <2>5. Frame /\ SameLeases
        BY <2>3, <2>4 DEF Frame, SameLeases
    <2>6. Clears(renewing'[First], queue[First])
        BY <2>2 DEF Clears
    <2>7. ~b => lessor[First].lease[l].remainingTTL = 0
        <3>1. lessor[First].lease[l] \in LeaseInfo
            BY <1>o, <2>2 DEF LessorState
        <3>2. lessor[First].lease[l].remainingTTL \in Nat
            BY <3>1, DeadlineOnly
        <3>3. ~EnableLeaseCheckpoint => lessor[First].lease[l].remainingTTL = 0
            BY <1>k, <2>2 DEF FirstKeeps, NoCheckpoint
        <3> QED
            BY <3>2, <3>3
    <2> HIDE DEF b
    <2>8. ASSUME NEW x \in Lease
          PROVE  Renewable(renewing'[First], lessor[First].lease[x], queue[First], x)
        BY <2>2, <2>3, <2>7 DEF Renewable
    <2> QED
        BY <1>1, <1>k, <2>4, <2>5, <2>6, <2>8, QuietPromise
<1>13. ASSUME NEW s \in Server, ProposeClear(s) PROVE FirstKeeps'
    <2>1. s = First
        BY <1>13, <1>o DEF ProposeClear, OneRules, Idle
    <2> PICK e : e = Msg("checkpoint", renewing[First].lease, 0, <<First, "renew">>)
        OBVIOUS
    <2>2. renewing[First].lease \in Lease /\ renewing[First].pc = "clear"
        BY <1>o, <1>13, <2>1 DEF ProposeClear, Renewal, Idle
    <2>3. e \in Entry /\ e.type = "checkpoint" /\ e.lease = renewing[First].lease
          /\ e.remaining = 0
        BY <1>0, <2>2, MsgType DEF Msg
    <2>4. /\ renewing'[First].lease = renewing[First].lease /\ renewing'[First].pc = "wait"
          /\ \A t \in Server : t # First => renewing'[t] = renewing[t]
        BY <1>0, <1>1, <1>13, <1>o, <2>1 DEF ProposeClear, TypeOK, Renewal, Idle
    <2>5. /\ Commit(e)
          /\ UNCHANGED <<lead, isLeader, lessor, promoting, revoking, promised>>
        BY <1>13, <2>1 DEF ProposeClear
    <2>6. Frame /\ SameLeases
        BY <2>4, <2>5 DEF Frame, SameLeases
    <2>7. \A x \in Lease : Asks(e, x, promised[x], promised'[x])
        BY <2>3, <2>5 DEF Asks
    <2> QED
        BY <1>1, <1>k, <2>2, <2>3, <2>4, <2>5, <2>6, <2>7, CommitPromise
<1>14. ASSUME NEW s \in Server, LoseClear(s) PROVE FALSE
    BY <1>14, <1>c DEF LoseClear
<1>15. ASSUME NEW s \in Server, EndRenew(s) PROVE FirstKeeps'
    <2>1. s = First
        BY <1>15, <1>o DEF EndRenew, OneRules, Idle
    <2> QED
        BY <1>15, <1>k, <2>1, EndRenewPromise
<1>16. CASE UNCHANGED vars
    <2>1. Frame /\ SameLeases /\ UNCHANGED <<queue, promised, lessor, revoking, renewing>>
        BY <1>16 DEF vars, Frame, SameLeases
    <2> QED
        BY <1>1, <1>k, <1>l, <1>o, <2>1, QuietPromise
<1> QED
    BY <1>2, <1>3, <1>4, <1>5, <1>6, <1>7, <1>8, <1>9, <1>10, <1>11, <1>12, <1>13, <1>14,
       <1>15, <1>16 DEF Next, Loop

\* As long as the first leader leads, no request of a renewal is lost, a renewal takes no
\* time and neither a scheduled checkpoint nor the revocation of its lease gets between
\* its steps, a lease stays until the time is over that its client was last promised
\* (Grant: "expires at least after TTL seconds"; Renew), on every server, whatever
\* revocations are lost and however far behind a server applies.
THEOREM PromisesAreKept == Spec => []PromiseKeptByLeader
<1>1. Init => PromiseInv
    BY InitPromise
<1>2. IInv /\ PromiseInv /\ [Next]_vars => PromiseInv'
    BY NextPromise
<1>3. IInv /\ PromiseInv => PromiseKeptByLeader
    <2> SUFFICES ASSUME IInv, PromiseInv, Undisturbed,
                        NEW s \in Server, NEW l \in Lease, Gone(s, l)
                 PROVE  promised[l] = 0
        BY DEF PromiseKeptByLeader, Undisturbed, Promised
    <2>1. queue[s] \in Seq(Entry)
        BY DEF IInv, TypeOK
    <2>2. Lost(promised[l], lessor[s].lease[l], queue[s], l)
        BY <2>1 DEF Gone, Lost, In, Is
    <2> QED
        BY <2>2 DEF PromiseInv, FirstKeeps, LeasePromise, Ending, Dead
<1> QED
    BY <1>1, <1>2, <1>3, SpecIInv, PTL DEF Spec

=============================================================================
