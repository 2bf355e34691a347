---------------------------- MODULE ServerApply ----------------------------
(***************************************************************************)
(* How a member applies the committed entries: etcdserver/server.go and    *)
(* apply.go on top of the lessor, the alarm store and the key-value store, *)
(* and what a crash leaves of it.                                          *)
(*                                                                         *)
(* Everything goes to one backend transaction, which a timer commits now   *)
(* and then.  After a crash the raft log is applied again; what the store  *)
(* has of it already is skipped, and the consistent index says how far     *)
(* that is.  Only transactions that change keys write it.                  *)
(*                                                                         *)
(* The second member, twin, applies the same log and never crashes.        *)
(***************************************************************************)
EXTENDS Integers, Sequences

CONSTANTS
    Key, Lease, Alarm,    \* Alarm: the types, among "NOSPACE" and "CORRUPT"
    NoLease, Absent,
    FreshLeases,          \* clients use a lease after its grant, and an id once
    Disarms,              \* alarms are deactivated as well
    MaxLog, MaxCrash      \* bounds

ASSUME ApplyAssumption ==
    /\ NoLease \notin Lease /\ Absent \notin Lease /\ NoLease # Absent
    /\ Alarm \subseteq {"NOSPACE", "CORRUPT"}
    /\ FreshLeases \in BOOLEAN /\ Disarms \in BOOLEAN
    /\ MaxLog \in Nat /\ MaxCrash \in Nat

VARIABLES
    log,      \* the committed entries that some member applied
    member,   \* the member that may crash
    disk,     \* what its backend has committed
    snapshot, \* index of its last raft snapshot
    crashes,  \* how often it crashed
    twin      \* the member that never does

vars == <<log, member, disk, snapshot, crashes, twin>>

Request ==
    [type : {"put", "create"}, key : Key, lease : Lease \cup {NoLease}]
        \cup [type : {"delete"}, key : Key]
        \cup [type : {"grant", "revoke"}, lease : Lease]
        \cup [type : {"activate", "deactivate"}, alarm : Alarm]
        \cup [type : {"other"}]    \* empty entries, configuration changes, v2 requests

\* What the backend holds.
Database == [kv : [Key -> Lease \cup {NoLease, Absent}], rev : Nat,
             leases : SUBSET Lease, alarms : SUBSET Alarm, consistentIndex : Nat]

EmptyDatabase == [kv |-> [k \in Key |-> Absent], rev |-> 0, leases |-> {}, alarms |-> {},
                  consistentIndex |-> 0]

\* Mutant of restored: the keys are not attached again.
restoredBare(db) == [l \in db.leases |-> {}]

\* The keys that the store attaches to a lease when it is restored.
restored(db) == [l \in db.leases |-> {k \in Key : db.kv[k] = l}]

\* NewLessor, NewStore and restoreAlarms on a database; raft starts at its snapshot.
NewServer(db, index) ==
    [db |-> db, applied |-> index, consistIndex |-> db.consistentIndex,
     leaseMap |-> restored(db),
     itemMap |-> [k \in Key |-> IF \E l \in db.leases : k \in restored(db)[l]
                                THEN db.kv[k] ELSE NoLease],
     applier |-> db.alarms]

Init ==
    /\ log = <<>> /\ disk = EmptyDatabase /\ snapshot = 0 /\ crashes = 0
    /\ member = NewServer(EmptyDatabase, 0)
    /\ twin = member

----------------------------------------------------------------------------
(* Requests: what they do to a server *)

Has(m, l) == l \in DOMAIN m.leaseMap

Detach(m, l, k) ==
    IF Has(m, l) THEN [m EXCEPT !.leaseMap[l] = @ \ {k}, !.itemMap[k] = NoLease] ELSE m

Attach(m, l, k) ==
    IF Has(m, l) THEN [m EXCEPT !.leaseMap[l] = @ \cup {k}, !.itemMap[k] = l] ELSE m

\* Mutant of End: the index of the next entry.
EndNextIndex(m) == [m EXCEPT !.db.rev = @ + 1, !.db.consistentIndex = m.consistIndex + 1]

\* A transaction that changed keys saves the index of the entry with its changes.
End(m) == [m EXCEPT !.db.rev = @ + 1, !.db.consistentIndex = m.consistIndex]

Put(m, k, l) ==
    LET old == IF m.db.kv[k] = Absent THEN NoLease ELSE m.itemMap[k]
    IN  IF l # NoLease /\ ~Has(m, l) THEN m    \* ErrLeaseNotFound
        ELSE Attach(Detach(End([m EXCEPT !.db.kv[k] = l]), old, k), l, k)

\* A Txn: put the key if it does not exist.
Create(m, k, l) == IF m.db.kv[k] = Absent THEN Put(m, k, l) ELSE m

Delete(m, k) ==
    IF m.db.kv[k] = Absent THEN m
    ELSE Detach(End([m EXCEPT !.db.kv[k] = Absent]), m.itemMap[k], k)

Restricted(f, S) == [x \in S |-> f[x]]

Grant(m, l) ==
    IF Has(m, l) THEN m    \* ErrLeaseExists
    ELSE [m EXCEPT !.db.leases = @ \cup {l},
                   !.leaseMap = [x \in DOMAIN @ \cup {l} |-> IF x = l THEN {} ELSE @[x]]]

\* Mutant of Revoke: a lease without keys is deleted, keys are left to expire.
RevokeKeepKeys(m, l) ==
    IF ~Has(m, l) THEN m
    ELSE [m EXCEPT !.leaseMap = Restricted(@, DOMAIN @ \ {l}), !.db.leases = @ \ {l}]

\* The keys that are still there, and the lease, in one transaction.  Each key leaves
\* the lease that itemMap has for it.
Revoke(m, l) ==
    LET keys    == {k \in m.leaseMap[l] : m.db.kv[k] # Absent}
        deleted == [m EXCEPT !.db.kv = [k \in Key |-> IF k \in keys THEN Absent ELSE @[k]]]
        left    == [x \in DOMAIN m.leaseMap \ {l} |->
                        m.leaseMap[x] \ {k \in keys : m.itemMap[k] = x}]
    IN  IF ~Has(m, l) THEN m    \* ErrLeaseNotFound
        ELSE [(IF keys = {} THEN m ELSE End(deleted)) EXCEPT
                !.db.leases = @ \ {l}, !.leaseMap = left,
                !.itemMap = [k \in Key |-> IF k \in keys THEN NoLease ELSE @[k]]]

\* The new alarm's applier wraps the plain one.
Activate(m, a) ==
    IF a \in m.db.alarms THEN m
    ELSE [m EXCEPT !.db.alarms = @ \cup {a}, !.applier = {a}]

Deactivate(m, a) ==
    IF a \notin m.db.alarms THEN m
    ELSE [m EXCEPT !.db.alarms = @ \ {a}, !.applier = {}]

\* applierV3Capped and applierV3Corrupt
Refuses(m, r) ==
    \/ "NOSPACE" \in m.applier /\ r.type \in {"put", "create", "grant"}
    \/ "CORRUPT" \in m.applier /\ r.type \in {"put", "create", "delete", "grant", "revoke"}

Apply(m, r) ==
    IF Refuses(m, r) THEN m
    ELSE CASE r.type = "put"        -> Put(m, r.key, r.lease)
           [] r.type = "create"     -> Create(m, r.key, r.lease)
           [] r.type = "delete"     -> Delete(m, r.key)
           [] r.type = "grant"      -> Grant(m, r.lease)
           [] r.type = "revoke"     -> Revoke(m, r.lease)
           [] r.type = "activate"   -> Activate(m, r.alarm)
           [] r.type = "deactivate" -> Deactivate(m, r.alarm)
           [] r.type = "other"      -> m

\* Mutant of applyEntryNormal: nothing is skipped.
applyEntryNormalAlways(m, r) ==
    Apply([m EXCEPT !.applied = @ + 1, !.consistIndex = m.applied + 1], r)

\* Entries up to the consistent index are not applied again.
applyEntryNormal(m, r) ==
    LET next == [m EXCEPT !.applied = @ + 1]
    IN  IF m.applied < m.consistIndex THEN next
        ELSE Apply([next EXCEPT !.consistIndex = next.applied], r)

----------------------------------------------------------------------------
(* Steps *)

Entries(type) == {i \in DOMAIN log : log[i].type = type}

Granted(l) == \E i \in Entries("grant") : log[i].lease = l

\* The requests that clients make.
Asked(r) ==
    /\ FreshLeases => CASE r.type \in {"put", "create"} -> r.lease = NoLease \/ Granted(r.lease)
                        [] r.type = "grant" -> ~Granted(r.lease)
                        [] r.type = "revoke" -> Granted(r.lease)
                        [] OTHER -> TRUE
    /\ r.type = "deactivate" => Disarms

\* A new entry reaches both members.
ApplyNew(r) ==
    /\ member.applied = Len(log) /\ Len(log) < MaxLog
    /\ Asked(r)
    /\ log' = Append(log, r)
    /\ member' = applyEntryNormal(member, r)
    /\ twin' = applyEntryNormal(twin, r)
    /\ UNCHANGED <<disk, snapshot, crashes>>

\* An entry is applied again after a crash.
Replay ==
    /\ member.applied < Len(log)
    /\ member' = applyEntryNormal(member, log[member.applied + 1])
    /\ UNCHANGED <<log, disk, snapshot, crashes, twin>>

\* The backend commits its transaction, for a timer or for its size.
Commit ==
    /\ disk # member.db
    /\ disk' = member.db
    /\ UNCHANGED <<log, member, snapshot, crashes, twin>>

\* A raft snapshot: the store saves the index and commits; a goroutine then saves the
\* snapshot, if the member lives that long.
Snapshot ==
    /\ member.applied > snapshot
    /\ member' = [member EXCEPT !.db.consistentIndex = member.consistIndex]
    /\ disk' = member'.db
    /\ snapshot' \in {snapshot, member.applied}
    /\ UNCHANGED <<log, crashes, twin>>

Crash ==
    /\ crashes < MaxCrash
    /\ crashes' = crashes + 1
    /\ member' = NewServer(disk, snapshot)
    /\ UNCHANGED <<log, disk, snapshot, twin>>

Next ==
    \/ \E r \in Request : ApplyNew(r)
    \/ Replay \/ Commit \/ Snapshot \/ Crash

Spec == Init /\ [][Next]_vars

----------------------------------------------------------------------------
(* Properties *)

ServerOK(m) ==
    /\ m.db \in Database
    /\ m.applied \in 0..Len(log) /\ m.consistIndex \in 0..Len(log)
    /\ DOMAIN m.leaseMap \subseteq Lease
    /\ \A l \in DOMAIN m.leaseMap : m.leaseMap[l] \subseteq Key
    /\ m.itemMap \in [Key -> Lease \cup {NoLease}]
    /\ m.applier \subseteq Alarm

\* Members, database and log have their types.
TypeOK ==
    /\ log \in Seq(Request) /\ disk \in Database
    /\ snapshot \in 0..Len(log) /\ crashes \in 0..MaxCrash
    /\ ServerOK(member) /\ ServerOK(twin)

\* No key has a lease that does not exist, in the transaction or on disk: "lease
\* deletion needs to be in the same backend transaction with the kv deletion".
KeysHaveTheirLease ==
    \A db \in {member.db, disk} : \A k \in Key :
        db.kv[k] \in Lease => db.kv[k] \in db.leases

\* The lessor's two maps and the keys in the store say the same, so that a revocation
\* deletes exactly the keys of the lease: also after a restart, and while it replays.
AttachmentsAgree ==
    /\ DOMAIN member.leaseMap = member.db.leases
    /\ \A k \in Key :
        /\ \A l \in member.db.leases : k \in member.leaseMap[l] <=> member.db.kv[k] = l
        /\ member.itemMap[k] = IF member.db.kv[k] = Absent THEN NoLease ELSE member.db.kv[k]

\* The state that the entries determine: all but the index.
Replicated(m) ==
    [kv |-> m.db.kv, rev |-> m.db.rev, leases |-> m.db.leases, alarms |-> m.db.alarms,
     leaseMap |-> m.leaseMap, itemMap |-> m.itemMap, applier |-> m.applier]

\* A member that crashed and has applied the log again is in the state of one that
\* never crashed: "do not re-apply applied entries".
CrashesDoNotShow == member.applied = Len(log) => Replicated(member) = Replicated(twin)

=============================================================================
