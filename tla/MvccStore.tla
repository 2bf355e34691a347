----------------------------- MODULE MvccStore -----------------------------
(***************************************************************************)
(* The multi-version store of one member (mvcc/kvstore*.go, index.go) over  *)
(* its backend, driven by the raft log.                                    *)
(*                                                                         *)
(* Every member applies the same log, so what the store must show is a     *)
(* function of the applied prefix: history holds the changes of each       *)
(* revision, worked out from the log alone.  Against it run the things     *)
(* that no other member sees: background compaction in batches, commits    *)
(* of the backend, read transactions, and crashes, after which the store   *)
(* is rebuilt from the last commit and the rest of the log is applied      *)
(* again.                                                                  *)
(***************************************************************************)
EXTENDS KeyIndex

CONSTANTS
    Key,             \* numbers, for the order of the B-tree
    Txns,            \* the write transactions: sequences of [op, key]
    BatchLimit,      \* StoreConfig.CompactionBatchLimit
    HeadCompaction,  \* may a compaction of the newest revision need several batches?
    MaxLog,          \* bound on the raft log
    MaxCrash         \* bound on the restarts

ASSUME StoreAssumption ==
    /\ Key \subseteq Nat /\ Txns \subseteq Seq([op : {"put", "delete"}, key : Key])
    /\ BatchLimit \in Nat \ {0} /\ HeadCompaction \in BOOLEAN
    /\ MaxLog \in Nat /\ MaxCrash \in Nat

VARIABLES
    log,             \* the committed entries, as far as anyone applied them
    history,         \* history[i]: the changes of revision i + 1
    revAfter,        \* revAfter[i]: the revision once entry i is applied
    applied,         \* the index of the last applied entry
    kvindex,         \* the tree index: the keys it holds, and their indexes
    db,              \* the backend with its pending batch
    disk,            \* the backend as last committed
    currentRev, compactMainRev,
    jobs,            \* scheduled compactions, the running one first
    reader,          \* an open read transaction, or NoReader
    crashes

vars == <<log, history, revAfter, applied, kvindex, db, disk, currentRev,
          compactMainRev, jobs, reader, crashes>>

Record  == [key : Key, tomb : BOOLEAN, created : Nat, ver : Nat]
Entries == [type : {"txn"}, ops : Txns] \cup [type : {"compact"}, rev : 1..MaxLog + 1]
Job     == [rev : Nat, phase : {"queued", "index", "backend"}, todo : SUBSET Key,
            keep : SUBSET Revision, last : Revision]

NoReader == [rev |-> 0, kv |-> <<>>]
EmptyDB  == [kv |-> <<>>, ci |-> 0, scheduled |-> 0, finished |-> -1]

NewJob(rev) == [rev |-> rev, phase |-> "queued", todo |-> {}, keep |-> {}, last |-> <<0, 0>>]

Init ==
    /\ log = <<>> /\ history = <<>> /\ revAfter = <<>> /\ applied = 0
    /\ kvindex = <<>> /\ db = EmptyDB /\ disk = EmptyDB
    /\ currentRev = 1 /\ compactMainRev = -1
    /\ jobs = <<>> /\ reader = NoReader /\ crashes = 0

Get(idx, k, rev) == IF k \in DOMAIN idx THEN get(idx[k], rev) ELSE NotFound

----------------------------------------------------------------------------
(* Write transactions.  w is a transaction in progress: the index, the     *)
(* records of the backend and the number of changes.  The locks of         *)
(* storeTxnWrite make a whole transaction one step for everybody else.     *)

KeyIndexOf(idx, k) == IF k \in DOMAIN idx THEN idx[k] ELSE NewKeyIndex

Put(w, k) ==
    LET rev  == currentRev + 1
        sub  == <<rev, w.n>>
        prev == Get(w.idx, k, rev)
    IN  [n   |-> w.n + 1,
         idx |-> (k :> put(KeyIndexOf(w.idx, k), sub)) @@ w.idx,
         kv  |-> (sub :> [key |-> k, tomb |-> FALSE,
                          created |-> IF prev.found THEN prev.created[1] ELSE rev,
                          ver |-> IF prev.found THEN prev.ver + 1 ELSE 1]) @@ w.kv]

DeleteRange(w, k) ==
    LET sub == <<currentRev + 1, w.n>>
    IN  IF ~Get(w.idx, k, currentRev + IF w.n > 0 THEN 1 ELSE 0).found THEN w
        ELSE [n   |-> w.n + 1,
              idx |-> [w.idx EXCEPT ![k] = tombstone(@, sub)],
              kv  |-> (sub :> [key |-> k, tomb |-> TRUE, created |-> 0, ver |-> 0]) @@ w.kv]

Write(ops) ==
    FoldLeft(LAMBDA w, o : IF o.op = "put" THEN Put(w, o.key) ELSE DeleteRange(w, o.key),
             [n |-> 0, idx |-> kvindex, kv |-> db.kv], ops)

\* Mutant of ApplyTxn: the consistent index is not saved with the changes.
ApplyTxnNoIndex(ops, i) ==
    LET w == Write(ops)
    IN  /\ kvindex' = w.idx
        /\ db' = [db EXCEPT !.kv = w.kv]
        /\ currentRev' = IF w.n = 0 THEN currentRev ELSE currentRev + 1
        /\ UNCHANGED <<compactMainRev, jobs, disk>>

\* Entry i is a transaction: End saves the consistent index and moves the
\* revision only if there were changes.
ApplyTxn(ops, i) ==
    LET w == Write(ops)
    IN  /\ kvindex' = w.idx
        /\ db' = [db EXCEPT !.kv = w.kv, !.ci = IF w.n = 0 THEN @ ELSE i]
        /\ currentRev' = IF w.n = 0 THEN currentRev ELSE currentRev + 1
        /\ UNCHANGED <<compactMainRev, jobs, disk>>

\* updateCompactRev commits the request at once; the work is scheduled.
ApplyCompact(rev) ==
    /\ IF rev <= compactMainRev \/ rev > currentRev
       THEN UNCHANGED <<compactMainRev, jobs, db, disk>>
       ELSE /\ compactMainRev' = rev
            /\ jobs' = Append(jobs, NewJob(rev))
            /\ db' = [db EXCEPT !.scheduled = rev]
            /\ disk' = db'
    /\ UNCHANGED <<kvindex, currentRev>>

\* A store with an open read transaction holds s.mu, which Compact needs.
ApplyEntry(e, i) ==
    /\ applied' = i
    /\ \/ e.type = "txn" /\ ApplyTxn(e.ops, i)
       \/ e.type = "compact" /\ reader = NoReader /\ ApplyCompact(e.rev)

----------------------------------------------------------------------------
(* The history that the log defines, and what must be visible of it: the   *)
(* reference for everything above.                                         *)

Modified(h, k, rev) ==
    {m \in 2..rev : m - 1 <= Len(h) /\ \E i \in DOMAIN h[m - 1] : h[m - 1][i].key = k}

Change(h, k, m) == SelectInSeq(h[m - 1], LAMBDA o : o.key = k)

Deleted(h, k, m) == h[m - 1][Change(h, k, m)].op = "delete"

Visible(h, k, rev) ==
    LET mods  == Modified(h, k, rev)
        m     == Max(mods)
        life  == {x \in mods : \A y \in mods : y >= x => ~Deleted(h, k, y)}
    IN  IF mods = {} \/ Deleted(h, k, m) THEN NotFound
        ELSE [found |-> TRUE, modified |-> <<m, Change(h, k, m) - 1>>,
              created |-> Min(life), ver |-> Cardinality(life)]

Effective(h, ops) ==
    SelectSeq(ops, LAMBDA o : o.op = "put" \/ Visible(h, o.key, Len(h) + 1).found)

Recorded(e) ==
    LET done == IF e.type = "txn" THEN Effective(history, e.ops) ELSE <<>>
    IN  /\ log' = Append(log, e)
        /\ history' = IF done = <<>> THEN history ELSE Append(history, done)
        /\ revAfter' = Append(revAfter, 1 + Len(history'))

----------------------------------------------------------------------------
(* Actions *)

\* Bound, unless HeadCompaction: who compacts at the newest revision has no more
\* revisions than one batch takes.
Requested(e) ==
    e.type = "compact" =>
        /\ e.rev > compactMainRev /\ e.rev <= currentRev
        /\ e.rev = currentRev => HeadCompaction \/ Cardinality(DOMAIN db.kv) < BatchLimit

\* The next entry of the raft log is applied for the first time,
Apply ==
    /\ applied = Len(log) /\ Len(log) < MaxLog
    /\ \E e \in Entries : Requested(e) /\ Recorded(e) /\ ApplyEntry(e, Len(log) + 1)
    /\ UNCHANGED <<reader, crashes>>

\* or again after a restart.
Replay ==
    /\ applied < Len(log)
    /\ ApplyEntry(log[applied + 1], applied + 1)
    /\ UNCHANGED <<log, history, revAfter, reader, crashes>>

Running(phase) == jobs # <<>> /\ Head(jobs).phase = phase

\* treeIndex.Compact works on a clone of the tree: keys inserted later are left.
StartCompaction ==
    /\ Running("queued")
    /\ jobs' = [jobs EXCEPT ![1].phase = "index", ![1].todo = DOMAIN kvindex]
    /\ UNCHANGED <<log, history, revAfter, applied, kvindex, db, disk, currentRev,
                   compactMainRev, reader, crashes>>

\* One key at a time, in the order of the tree,
CompactKey ==
    /\ Running("index") /\ jobs[1].todo # {}
    /\ LET k == Min(jobs[1].todo)
       IN  \E c \in {compact(kvindex[k], jobs[1].rev)} :
            /\ jobs' = [jobs EXCEPT ![1].todo = @ \ {k}, ![1].keep = @ \cup c.keep]
            /\ kvindex' = IF isEmpty(c.index) THEN Restrict(kvindex, DOMAIN kvindex \ {k})
                          ELSE [kvindex EXCEPT ![k] = c.index]
    /\ UNCHANGED <<log, history, revAfter, applied, db, disk, currentRev,
                   compactMainRev, reader, crashes>>

\* and then the backend.
StartBatches ==
    /\ Running("index") /\ jobs[1].todo = {}
    /\ jobs' = [jobs EXCEPT ![1].phase = "backend"]
    /\ UNCHANGED <<log, history, revAfter, applied, kvindex, db, disk, currentRev,
                   compactMainRev, reader, crashes>>

\* Mutant of CompactBatch: the range ends one revision too late.
CompactBatchPast ==
    /\ Running("backend")
    /\ LET j     == jobs[1]
           found == {r \in DOMAIN db.kv : ~GreaterThan(j.last, r) /\ r[1] <= j.rev + 1}
           batch == {r \in found : Cardinality({x \in found : GreaterThan(r, x)}) < BatchLimit}
           end   == CHOOSE r \in batch : \A x \in batch : ~GreaterThan(x, r)
           left  == Restrict(db.kv, DOMAIN db.kv \ (batch \ j.keep))
       IN  IF Cardinality(batch) < BatchLimit
           THEN /\ db' = [db EXCEPT !.kv = left, !.finished = j.rev]
                /\ jobs' = Tail(jobs)
                /\ UNCHANGED disk
           ELSE /\ db' = [db EXCEPT !.kv = left]
                /\ jobs' = [jobs EXCEPT ![1].last = <<end[1], end[2] + 1>>]
                /\ disk' = db'
    /\ UNCHANGED <<log, history, revAfter, applied, kvindex, currentRev,
                   compactMainRev, reader, crashes>>

\* A batch of scheduleCompaction.  Only a batch that is not full is the last one;
\* it is committed with the mark that compaction is finished, whenever that is.
CompactBatch ==
    /\ Running("backend")
    /\ LET j     == jobs[1]
           found == {r \in DOMAIN db.kv : ~GreaterThan(j.last, r) /\ r[1] <= j.rev}
           batch == {r \in found : Cardinality({x \in found : GreaterThan(r, x)}) < BatchLimit}
           end   == CHOOSE r \in batch : \A x \in batch : ~GreaterThan(x, r)
           left  == Restrict(db.kv, DOMAIN db.kv \ (batch \ j.keep))
       IN  IF Cardinality(batch) < BatchLimit
           THEN /\ db' = [db EXCEPT !.kv = left, !.finished = j.rev]
                /\ jobs' = Tail(jobs)
                /\ UNCHANGED disk
           ELSE /\ db' = [db EXCEPT !.kv = left]
                /\ jobs' = [jobs EXCEPT ![1].last = <<end[1], end[2] + 1>>]
                /\ disk' = db'
    /\ UNCHANGED <<log, history, revAfter, applied, kvindex, currentRev,
                   compactMainRev, reader, crashes>>

\* The backend commits by its timer or because the batch is long,
Commit ==
    /\ disk # db
    /\ disk' = db
    /\ UNCHANGED <<log, history, revAfter, applied, kvindex, db, currentRev,
                   compactMainRev, jobs, reader, crashes>>

\* or because raft takes a snapshot (store.Commit saves the index as well).
SnapshotCommit ==
    /\ db.ci # applied
    /\ db' = [db EXCEPT !.ci = applied]
    /\ disk' = db'
    /\ UNCHANGED <<log, history, revAfter, applied, kvindex, currentRev,
                   compactMainRev, jobs, reader, crashes>>

InOrder(revs) ==
    [i \in 1..Cardinality(revs) |->
        CHOOSE r \in revs : Cardinality({x \in revs : GreaterThan(r, x)}) = i - 1]

\* restoreIntoIndex: the index of the stored revisions, in their order
RestoreRev(kv, idx, r) ==
    LET rec == kv[r]
        k   == rec.key
    IN  IF k \in DOMAIN idx
        THEN [idx EXCEPT ![k] = IF rec.tomb THEN tombstone(@, r) ELSE put(@, r)]
        ELSE IF rec.tomb THEN idx
        ELSE (k :> restore(<<rec.created, 0>>, r, rec.ver)) @@ idx

RestoredIndex(kv) ==
    FoldLeft(LAMBDA idx, r : RestoreRev(kv, idx, r), <<>>, InOrder(DOMAIN kv))

LastStored(kv) == Max({1} \cup {r[1] : r \in DOMAIN kv})

RestoredRev(d) == Max({LastStored(d.kv), d.finished})

\* Mutant of CrashRestart: a scheduled compaction is not resumed.
CrashRestartNoResume ==
    /\ crashes < MaxCrash
    /\ crashes' = crashes + 1
    /\ compactMainRev' = disk.finished /\ jobs' = <<>>
    /\ db' = disk
    /\ kvindex' = RestoredIndex(disk.kv)
    /\ currentRev' = RestoredRev(disk)
    /\ applied' = disk.ci
    /\ reader' = NoReader
    /\ UNCHANGED <<log, history, revAfter, disk>>

\* The process dies and starts again from the last commit; entries up to the
\* consistent index are not applied again.  restore resumes a compaction that was
\* scheduled and not finished, with updateCompactRev.
CrashRestart ==
    /\ crashes < MaxCrash
    /\ crashes' = crashes + 1
    /\ LET resume == disk.scheduled > disk.finished /\ disk.scheduled > 0
                        /\ disk.scheduled <= RestoredRev(disk)
       IN  /\ compactMainRev' = IF resume THEN disk.scheduled ELSE disk.finished
           /\ jobs' = IF resume THEN <<NewJob(disk.scheduled)>> ELSE <<>>
    /\ db' = disk
    /\ kvindex' = RestoredIndex(disk.kv)
    /\ currentRev' = RestoredRev(disk)
    /\ applied' = disk.ci
    /\ reader' = NoReader
    /\ UNCHANGED <<log, history, revAfter, disk>>

\* Mutant of OpenRead: only what is committed is seen.
OpenReadCommitted ==
    /\ reader = NoReader /\ currentRev > 1
    /\ reader' = [rev |-> currentRev, kv |-> disk.kv]
    /\ UNCHANGED <<log, history, revAfter, applied, kvindex, db, disk, currentRev,
                   compactMainRev, jobs, crashes>>

\* A read transaction sees the backend and the revision of the moment it began.
OpenRead ==
    /\ reader = NoReader /\ currentRev > 1
    /\ reader' = [rev |-> currentRev, kv |-> db.kv]
    /\ UNCHANGED <<log, history, revAfter, applied, kvindex, db, disk, currentRev,
                   compactMainRev, jobs, crashes>>

EndRead ==
    /\ reader # NoReader
    /\ reader' = NoReader
    /\ UNCHANGED <<log, history, revAfter, applied, kvindex, db, disk, currentRev,
                   compactMainRev, jobs, crashes>>

Next ==
    \/ Apply \/ Replay
    \/ StartCompaction \/ CompactKey \/ StartBatches \/ CompactBatch
    \/ Commit \/ SnapshotCommit \/ CrashRestart
    \/ OpenRead \/ EndRead

\* The goroutine of the scheduler runs while it has a job.
Fairness == WF_vars(StartCompaction \/ CompactKey \/ StartBatches \/ CompactBatch)

Spec == Init /\ [][Next]_vars /\ Fairness

----------------------------------------------------------------------------
(* Properties *)

\* Everything has its type: the state of the store is within the bounds of the
\* structs of kvstore.go and key_index.go.
TypeOK ==
    /\ log \in Seq(Entries) /\ Len(revAfter) = Len(log) /\ applied \in 0..Len(log)
    /\ DOMAIN kvindex \subseteq Key
    /\ \A k \in DOMAIN kvindex :
        kvindex[k].modified \in Revision /\ kvindex[k].generations \in Seq(Generation)
    /\ \A d \in {db, disk} :
        /\ DOMAIN d.kv \subseteq Revision /\ \A r \in DOMAIN d.kv : d.kv[r] \in Record
        /\ d.ci \in 0..Len(log) /\ d.scheduled \in Nat /\ d.finished \in Nat \cup {-1}
    /\ currentRev \in Nat \ {0} /\ compactMainRev \in Nat \cup {-1}
    /\ jobs \in Seq(Job) /\ crashes \in 0..MaxCrash

\* The revision of a member depends on the applied prefix of the log only, whatever
\* was compacted or committed and wherever a crash came (store.restore).  That holds
\* as long as the newest revision is compacted only where one batch does it: with
\* HeadCompaction a crash between two batches can make the revision smaller.
RevisionIsReplicated ==
    currentRev = IF applied = 0 THEN 1 ELSE revAfter[applied]

Readable(rev) == Max({compactMainRev, 1})..rev

ShowsHistory(kv, rev) ==
    \A r \in Readable(rev), k \in Key :
        LET is   == Get(kvindex, k, r)
            must == Visible(history, k, r)
        IN  /\ is.found = must.found
            /\ is.found =>
                /\ is.modified = must.modified
                /\ is.created[1] = must.created /\ is.ver = must.ver
                /\ is.modified \in DOMAIN kv
                /\ kv[is.modified] = [key |-> k, tomb |-> FALSE,
                                      created |-> must.created, ver |-> must.ver]

\* rangeKeys returns, at every revision that is neither compacted nor in the
\* future, exactly what the log put there, whatever compaction has removed so far
\* and however often the store was rebuilt.
ReadsShowHistory == ShowsHistory(db.kv, currentRev)

\* So does a read transaction that was opened before later writes, deletes of the
\* compaction in the background and commits: it never finds a revision in the
\* index that its view of the backend lacks ("range failed to find revision pair").
OpenReadsShowHistory == reader # NoReader => ShowsHistory(reader.kv, reader.rev)

Kept(rev) == UNION {keep(kvindex[k], rev) : k \in DOMAIN kvindex}

Hashed(rev) ==
    {x \in DOMAIN db.kv : x[1] <= rev /\ (x[1] > compactMainRev \/ x \in Kept(rev))}

\* HashByRev hashes the same revisions on every member that has applied and
\* compacted as much, wherever its compaction in the background is.  (Where no
\* key is left at rev, HashByRev hashes whatever the backend still holds.)
HashIsReplicated ==
    \A r \in Readable(currentRev) :
        Kept(r) # {} =>
            Hashed(r) =
                {<<m, s>> \in (2..r) \X (0..1) :
                    /\ s + 1 \in DOMAIN history[m - 1]
                    /\ \/ m > compactMainRev
                       \/ LET v == Visible(history, history[m - 1][s + 1].key, r)
                          IN  v.found /\ v.modified = <<m, s>>}

SameIndex(a, b) ==
    /\ DOMAIN a = DOMAIN b
    /\ \A k \in DOMAIN a :
        LET ga == a[k].generations
            gb == b[k].generations
        IN  /\ a[k].modified = b[k].modified /\ Len(ga) = Len(gb)
            /\ \A i \in DOMAIN ga : ga[i].ver = gb[i].ver /\ ga[i].revs = gb[i].revs

\* With no compaction under way, a restart would rebuild exactly the index in
\* memory (keyIndex.equal): what compaction removes from the index and from the
\* backend, in two different walks, is the same.
IndexMatchesBackend == jobs = <<>> => SameIndex(kvindex, RestoredIndex(db.kv))

\* A compaction that was accepted is finished, also if the process dies at any
\* point of it: the request is on disk before anything is removed.  (Not with
\* HeadCompaction: restore drops a request beyond the revision that it finds.)
CompactionCompletes == db.scheduled > 0 ~> db.finished = db.scheduled

=============================================================================
