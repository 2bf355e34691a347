# Glee's replication core in TLA+

GeoLM (`glee-etcd`) is etcd with a raft package that measures round trip times:
every node probes its peers, derives its election timeout from the answers, and
reports them to the leader, which hands leadership over to a node that would lead
better. `src/etcd` is the etcd it is compared with, `src/go-ycsb-modified` the
benchmark driver. The modules here model `src/glee-etcd`, from raft upwards to what a
client sees: the state machine of one node, clusters of nodes over an unreliable
network, the RTT machinery, the loop that saves and applies, and the state machines that the
log drives: the key-value store with its revisions, watches, leases and alarms.
Proved, for any number of servers, keys, watchers and leases, are the safety of elections, the replicated log
with its refinement, pre-votes, that what is applied and what is voted is on disk, the beliefs about RTTs, the delivery of events to watchers, leases, and
recovery of the applier from crashes; the rest is model-checked on small instances.

Paths below are relative to `src/glee-etcd/`.

## 1. The system

### Components

| Component | State | Operations | Modelled |
|---|---|---|---|
| `raft/quorum` | none | `VoteResult`, `CommittedIndex` of majority and joint configurations | `RaftQuorum` |
| `raft/tracker` votes | `Votes` | `RecordVote`, `TallyVotes`, `ResetVotes` | `ProgressTracker`, `RaftCore` |
| `raft/tracker` progress | `Match`, `Next`, `State`, `ProbeSent`, `RecentActive` | `MaybeUpdate`, `MaybeDecrTo`, `BecomeProbe`, `BecomeReplicate`, `IsPaused` | `RaftCore`; without `StateSnapshot` and learners |
| `raft/tracker` inflights | ring buffer | `Add`, `FreeLE`, `FreeFirstOne`, `Full` | no (plan) |
| `raft/raft.go` | struct `raft` | `Step` and its handlers, ticks, campaigns | `RaftCore`, `RaftStep` |
| Glee's additions in `raft/raft.go` | `rttMap`, `rttMap_old`, `electionPenaltyTime`, `nodeLatency` | `bcastProbeRtt`, `calcRtt`, `CalBetterNodes`, `CalBestNode`, the transfer tick | `GleeRtt` |
| `raft/log.go` | entries, `committed`, `applied` | `maybeAppend`, `findConflict`, `commitTo`, `isUpToDate`, `nextEnts` | `RaftCore`, `RaftReady` |
| `raft/log_unstable.go`, `raft/storage.go` | `offset`, `MemoryStorage` | `truncateAndAppend`, `stableTo`, `Append` | `RaftReady`; without compaction and snapshots |
| `raft/node.go`, `raft/rawnode.go` | channels, hard state | `Tick`, `Step`, `Propose`, `TransferLeadership`, `ReportUnreachable`, `Ready`, `Advance` | `RaftCluster`, where `Ready` to `Advance` is one step, and `RaftReady`, where it is not |
| `etcdserver/raft.go`, `wal.Save` | the `Ready` being handled; the disk | save, apply, send, advance; `shouldWaitWALSync` | `RaftReady` |
| `etcdserver` apply, consistent index, alarms | `consistIndex`, `appliedIndex`, alarm store | `applyEntryNormal`, `applierV3`, its capped and corrupt variants | `ServerApply`; without auth, quota, membership |
| `mvcc` key index and store | `kvindex`, backend, `currentRev`, `compactMainRev` | `Put`, `DeleteRange`, `Range`, `Compact`, `scheduleCompaction`, `Commit`, `restore`, `HashByRev` | `KeyIndex`, `MvccStore` |
| `mvcc` watches | `synced`, `unsynced`, `victims` | `watch`, `cancelWatcher`, `notify`, `syncWatchers`, `moveVictims`, `Restore`, progress | `WatchableStore` |
| `lease` | `leaseMap`, notifier and checkpoint heaps, `demotec` | `Grant`, `Revoke`, `Checkpoint`, `Renew`, `Promote`, `Demote`, the run loop | `Lessor`; attachments and recovery in `ServerApply` |
| `etcdserver` v3 API | request queue | `LeaseGrant`, `LeaseRevoke`, `LeaseRenew` in `Lessor`; the rest no | partly |
| `raft/read_only.go` | pending reads | `addRequest`, `recvAck`, `advance` | no (plan) |
| `raft/confchange` | configuration | `EnterJoint`, `LeaveJoint`, `Simple` | no (plan); configurations are constants |
| `raft/strategy` | | | no: the file is commented out |
| `rafthttp`, `auth`, `clientv3`, `embed`, `functional`, the rest | | | no: I/O, or upstream code that Glee did not touch |

`PROJECT.json` has the same list with its files.

### Interactions

`etcdserver`'s run loop takes a `Ready` from the node, hands what is committed to the
applier, sends the messages, saves hard state and entries, and calls `Advance`; a
leader sends before it saves, a follower after it. Messages that
arrive through `rafthttp` go to `Node.Step`, which drops answers of nodes that are no
peers; ticks, proposals, unreachability reports and transfers come through channels
of the same goroutine. So the struct `raft` has a single owner: a node steps atomically,
also while the loop still handles an earlier `Ready`; messages are lost,
delayed and overtaken, nodes crash between steps. Within raft, `raft.go` calls
`log.go` for entries and `tracker`, which calls `quorum`, for votes and progress.
Glee's RTT values act on elections at two places only: through the randomized timeout
(when a node campaigns) and through the transfers that the leader starts (whom
`MsgTimeoutNow` tells to campaign).

The applier of every member takes the committed entries in order and calls `mvcc`,
`lease` and the alarm store. These share one backend transaction, which a timer commits, so
that a crash loses the same suffix of all three; the log is then applied again
from the last snapshot, and the consistent index in the backend says what to skip. In memory
`mvcc` keeps the key index and the watchers, `lease` the map from leases to keys; both
are rebuilt from the backend. Background goroutines compact the store
and bring watchers up to date under the store's lock, which they release again and again. The
lessor is told through `updateLeadership` whether its member leads: only then does it
watch deadlines, answer renewals and have expired leases revoked, through raft again.

### Hard behaviour and what makes each part correct

- **Quorums.** Off-by-one in `n/2 + 1` or in the position of the sorted slice, empty
  halves of joint configurations: two quorums always meet, the committed index is
  known in every quorum that can elect.
- **Votes.** Repeated and outdated answers, a crash between vote and answer: at most one
  leader per term, elected by votes for that term.
- **Logs.** Several leaders leave conflicting suffixes, entries of old terms are
  replicated but may not be committed by counting: logs match, what is committed
  stays and is in every later leader's log.
- **Flow control.** Late or repeated acknowledgements and rejections, heartbeats to nodes
  that lag: `Match` is what the follower has, no index runs past a log (`NoPanic`).
- **Leader leases and pre-votes.** A partitioned node comes back with a high
  term: it does not depose a healthy leader.
- **Transfers, in Glee also with forwarded proposals.** Old leader, transferee and
  followers each pass proposals to somebody else: none is appended twice, none reappears
  after it was reported dropped. The leader may give up, go on and commit while `MsgTimeoutNow` is
  under way: a transferee whose log has become stale is not elected.
- **RTTs.** Overlapping probes, restarts, a change of leader: a latency that the leader
  believes was measured, and no RTT is taken for more than it was.
- **The ready loop.** Messages sent before the entries they rest on are saved, an `Advance` for
  entries that were truncated meanwhile, a crash in the middle of a save: what was
  applied anywhere is on the disks of a quorum, and no promise is sent unsaved.
- **Revisions.** Compaction removes history in two structures and in two walks while it is read
  and written, and is cut short by a crash: reads at a revision show what the log put there,
  on every member.
- **Watches.** A full channel, a write between two looks at a group, a restore from a snapshot:
  every event once, in order, and in the end all of them.
- **Leases.** Time is not replicated and leadership moves; renewals, checkpoints and revocations
  race: no lease lives for ever, none ends before its time under one leader.
- **Replay.** Three structures, one consistent index: a crash does not show, and no key is left
  with a lease that is gone.

The full list, at its source lines and with the properties that cover it, is under
`hazards` in `PROJECT.json`.

## 2. The modules

| Module | Content |
|---|---|
| `RaftQuorum` | `quorum/majority.go`, `quorum/joint.go` as operators on sets of ids |
| `ProgressTracker` | votes and acknowledgements of one term, with the peers as environment |
| `RaftCore` | the struct `raft` as a record; log, progress, campaigns, sending |
| `RaftStep` | `Step`, `stepLeader`, `stepCandidate`, `stepFollower` and their handlers, `propose` |
| `RaftCluster` | all nodes and the network; one action per entry point |
| `RaftReady` | nodes with unstable entries, storage and disk; the steps of the raft loop |
| `ReplicatedLog` | the abstract specification that `RaftCluster` implements |
| `GleeRtt` | probes, RTTs, penalties, reports, the choice of a transferee |
| `KeyIndex` | `mvcc/key_index.go` as operators on the generations of a key |
| `MvccStore` | the store of one member: transactions, compaction, commits, crashes |
| `WatchableStore` | watchers and their groups over the store's history |
| `Lessor` | the lessors of a cluster under the log, under time and changes of leader |
| `ServerApply` | the applier over one backend, with crashes and replay, and a twin that never crashes |
| `MC...` | instances for TLC; `Lessor` and `ServerApply` need none |
| `RaftStepProofs` | what one handler of one node does to elections, and to logs |
| `RaftClusterProofs` | the theorems of the cluster: elections and pre-votes; the replicated log |
| `RaftReadyProofs` | the theorems of the raft loop: what is applied, and votes that are sent, are on disk |
| `ProgressTrackerProofs`, `GleeRttProofs`, `WatchableStoreProofs`, `LessorProofs`, `ServerApplyProofs` | the theorems of the other modules |

`RaftCluster` and `RaftReady` are two compositions of the same node (`RaftStep`): the first has
all entry points and a loop that runs to completion, the second few entry points and the
loop in pieces. `MvccStore` and `WatchableStore` divide the store: the watchers read a history that is compacted from below, and
that the store returns it, in spite of compactions in pieces and of crashes, is what `MvccStore` is about.

### Raft: correspondence to the code

`RaftCore` and `RaftStep` keep the names of the methods. A method that changes the
struct is an operator from the old record to the new one, so that a handler with all its
calls is one expression and an action of `RaftCluster` takes it in one step; `r.msgs`
is the outbox. `send` stamps sender and term as the code does. `panic` records that the code
would stop with the panic of `maybeAppend` (`log.go:95`), `commitTo` (`log.go:203`) or `send` (`raft.go:483`, `487`); its other
panics are about storage, snapshots and calls that the model does not have.

`RaftCluster` drains the outbox after every step (`Becomes`) into `net`, the set of
all messages ever sent. A message stays in `net` once delivered, so loss, delay,
reordering and repetition need no action of their own. Proposals are the exception:
they are consumed, since the transport does not repeat messages and raft itself would
append a repeated proposal twice.

| Action | Code |
|---|---|
| `Timeout` | `tickElection` with a passed timeout, `MsgHup` |
| `Elapse` | `electionElapsed` reaches `electionTimeout`; the lease no longer holds |
| `Beat`, `ElectionTick` | `tickHeartbeat`: `MsgBeat`; `MsgCheckQuorum` and the end of a transfer |
| `Probe` | `MsgProbeRttHup`; the RTTs themselves are in `GleeRtt` |
| `Unreachable`, `Transfer`, `Propose` | `ReportUnreachable`, `TransferLeadership`, `Propose` |
| `Receive`, `ReceiveProp` | `Node.Step` with a message of a peer |
| `Restart` | a crash and `newRaft` from what was saved |

A restart keeps term, vote and entries: `MustSync` has them synced before messages are
sent. The commit index alone is not synced, so a restart may find an older one.

The history variables `leaders`, `decided`, `proposed` and `dropped` appear in no guard
that the code has; `proposed` only keeps client payloads distinct. `count` holds the
bounds on environment events.

In `RaftReady`, `node[s].log` is what `raftLog` reads, and `offset` splits it into stored and
unstable entries. The outbox is a variable of its own, `outbox`, which a `Ready` empties.
`Ready` takes a snapshot of it and of what else is due (`todo`), with the order
in which the loop does it (`tasks`: a leader sends first; a save comes before the
application where `shouldWaitWALSync` says so), then `Save`, `Apply`, `Send` and `Advance` are steps
of their own, between which the node steps messages. `Left` is what a crash in the middle
of `wal.Save` leaves: some entries, which are written in front of the hard state. If they do not reach the commit
index on disk, `loadState` panics (`restartNode`), and the server does nothing more until it restarts. A server that is
not `Slow` does the whole cycle in `Handle`, with the same effect; this only saves states. A `Ready`
that carries nothing but soft state is left out.

Modelled with less detail than the code has:

- The log is a sequence that is never compacted, so there are no snapshots.
- `electionElapsed` is one bit, "the election timeout has passed", which is all that
  `inLease` looks at; a campaign may start at any time, as with any clock.
- Messages that hold several entries hold at most `MaxBatch` of them (`MaxSizePerMsg`),
  and the inflight window never fills.
- A node's configuration is a constant. Different nodes may have different ones, as
  while a change is being applied; `CoreAssumption` asks that their quorums overlap.
- `disableProposalForwarding` is off, its default. `Node.Propose` waits for a leader
  where `RawNode.Propose`, which is modelled, fails with `ErrProposalDropped`.
- The limit on uncommitted entries, learners and `ReadIndex` are left out.

`GleeRtt` has a clock in steps of `Unit` microseconds. Penalties and timeouts keep the
integer arithmetic of the code. Its elections are a single step (`Elected`), and a
transfer decision is recorded in `target`: what transfers do to a cluster is the
subject of `RaftCluster`, in which a transfer may be started at any time and to any
node, whatever the measurements say. So no safety property rests on the choice (`TransferTick`, `CalBetterNodes`, `CalBestNode`), and none
is stated about it: the code promises nothing of a transferee that would not repeat the tests by which it is chosen. The
properties of `GleeRtt` are about what the choice is made from; an answer to an earlier incarnation or an outdated report
may still make it a bad one (see the observations).

### The state machines: correspondence to the code

`MvccStore` applies `log` one entry per step, with everything the entry does: a write
transaction (`Put`, `DeleteRange`, revision and sub-revision, index, backend), or a compaction, which
is recorded and queued. The background job is then one step per key of the index
(`treeIndex.Compact` clones the tree and locks it key by key) and one per batch of the backend, each with
its `ForceCommit`. `db` is the backend with its buffer, `disk` the last commit; `CrashRestart`
is `restore` from `disk`, which queues an unfinished compaction again, and `Replay`
applies entries after the consistent index. A read transaction that stays open keeps
its view of the backend but looks up the live index, as the code does. `history` holds the changes
of each revision, worked out from the log alone: it is the specification against which reads are
compared. Values are left out; a record is told by its revision. `HashByRev` is the set of
records that it hashes.

`WatchableStore` has the history of one store and the watchers of one stream, which share its
channel. `Write` is the end of a transaction with `notify`; `syncWatchers` is one step, as it holds the
lock throughout; `moveVictims` releases it, and so is three kinds of steps (`TakeVictims`, `SendVictim`,
`AssignVictims` and `RequeueVictims`). Of the channel the length is kept; `sent` is what was put into it. A
watcher is marked `excused` (history) from the moment at which the code is known to let it miss
something; see the observations.

`Lessor` keeps a queue of committed entries that each server has not applied yet. Every deadline is the
time left, so that time needs no bound. `ChangeLeader` is raft's election with the new leader's empty entry;
`UpdateLeadership` is the old leader's notice of it, which comes later. A server that applies
an empty entry while it leads promotes its lessor, in two steps: the test, then `PromoteLessor`. `Renew` is
in three: the look-up, the checkpoint that it waits for, and the refresh. `Tick` takes a second from everything
that is pending, whether the loops have looked at it or not.

`ServerApply` has the backend (`db`) with keys, leases, alarms and the consistent index, and the
lessor's two maps in memory. `Refuses` is the applier that alarms install. `Create` is a transaction that
does nothing if its key exists: it is what a replay could do differently. `Commit` is the
backend's timer, `Snapshot` the raft snapshot from which a replay starts, preceded by a commit. `twin` is the
member that shows what the log alone does.

## 3. The runs

Deadlock checking is off everywhere: environment events are bounded, so that a
behaviour may end, and a server without events has indeed nothing to do.

| Run | Question | Properties |
|---|---|---|
| `tracker` | Are tallies and committed index right in all simple and joint configurations? | `OneWinner`, `ElectorsKnowCommitted`, `CommittedIsSortedPick`, `OutcomeStable` |
| `cluster_leadership` | One leader per term, whether by campaigns, with a crash and all messages repeated, or by a transfer, and what happens to proposals then? | `TypeOK`, `ElectionSafety`, `LeadersWereElected`, `VotesAreKept`, `ProposalAtMostOnce`, `DroppedNeverAppears`, `LeaderCompleteness` |
| `cluster_conflict` | Do conflicting logs converge without losing what is committed? | `LogMatching`, `LeaderCompleteness`, `MatchIsReal`, `ImplementsReplicatedLog` |
| `cluster_prevote` | Does a term grow only after a quorum of pre-votes, and do indices stay in range? | `PreVoteGuardsTerm`, `NoPanic` |
| `rtt` | Are the leader's beliefs about latency measurements? | `LatencyWasMeasured`, `RttNotOverestimated` |
| `ready` | Is what is sent or applied safe on disk, whatever the order of save, send and apply? | `AppliedIsSaved`, `AppliedIsDurable`, `PromisesAreSaved` |
| `store` | Do reads, hashes and restarts show the log's history during compactions and crashes? | `RevisionIsReplicated`, `ReadsShowHistory`, `OpenReadsShowHistory`, `HashIsReplicated`, `IndexMatchesBackend`, `CompactionCompletes` |
| `watch` | Does every watcher get its events once, in order, and all of them? | `EventsInOrder`, `SyncedHasAll`, `NoPanic`, `WatchersCatchUp` |
| `lease` | Does a lease live as long as promised and no longer than until it is revoked? | `LeasesAgree`, `ExpiryIsWatched`, `PromiseKeptByLeader`, `LeasesEnd` |
| `apply` | Do leases, keys and attachments agree across crashes, and do crashes not show? | `TypeOK`, `KeysHaveTheirLease`, `AttachmentsAgree`, `CrashesDoNotShow` |
| `apply_replay` | violated: entries are not applied again | `CrashesDoNotShow` |
| `store_head` | violated: restoring finds the revision of a store whose newest records were compacted | `RevisionIsReplicated` |

Every module states its type invariant. To keep the runs for other questions it is checked in two
of them only; those of `RaftCluster`, `RaftReady`, `WatchableStore`, `Lessor` and `ServerApply` are also proved.

### Bounds, and why they are enough

- Three servers: the smallest number with a quorum that is neither one node nor all, so
  that a minority can be left behind, vote or crash alone. `tracker` takes every joint
  configuration over three nodes, with even and overlapping halves.
- `MaxTerm` bounds the terms that campaigns start, `MaxLog` the log of a leader that
  appends, `Limit` how often each kind of environment event happens. Each run spends
  its events on one question: the limits are named in `MCRaftCluster` after it.
- `cluster_leadership` has two kinds of initial states, with the events of one question each (`Left`). From `Campaigns`,
  with empty logs, there are two campaigns and a crash, and no proposals.
  From `Handover` there are one transfer to any node, one election timeout at the leader, which gives the transfer up, and one
  proposal; so the leader can abort, append and commit the proposal while `MsgTimeoutNow` is still under way, and the transferee then
  campaigns with a stale log. (In the mutant of `LeaderCompleteness` voters trust such a campaign.)
- `Handover`, `cluster_prevote` and `ready` start from a reachable state in which a leader of term 1 has
  committed its empty entry everywhere; the set-up would use up the bounds. In `RaftCluster` the votes of that election
  may still come again, the other messages of it do not.
- `cluster_conflict` starts from `Rivals`: a server led term 1 and appended a proposal
  when it was cut off, a second one won term 2 and was cut off with its first entry,
  the first has just won term 3. It is the situation in which an entry of an old term
  is on a majority without being committed, which takes too many steps to reach from an
  empty log. Each part of the state is computed with the handlers of `RaftStep`, and
  `MaxBatch = 1` lets the old entry arrive without the new one. From there two more
  campaigns follow (`MaxTerm = 4`), by any of the three. Who the rivals are is fixed: the servers are alike, and
  this is cheaper than a symmetry set. The test `TestLeaderOnlyCommitsLogFromCurrentTerm` and
  the raft paper (5.4.2) describe the same situation.
- `cluster_prevote` allows one event beyond campaigns and deliveries (the constraint `OneExtra`): a
  heartbeat, a probe, a report or a quorum check, each in every position.
- One payload suffices for `ProposalAtMostOnce`: a repeated append shows as
  two entries with it.
- In `rtt` two probes of a node overlap, one report is under way, and the leader
  changes and restarts once; `Never` stands for the microseconds since the zero
  `time.Time`, a saturated duration in the code.
- In `ready` the first leader has the slow disk and may crash once; another server campaigns
  once. So an entry that the first leader has sent and not saved meets its successor's at the same index, and
  an old `Ready` is saved after the truncation.
- `store`: two keys, transactions of up to two operations, so that revisions have a second part and a key may end
  in the middle of a transaction and be revived by a later one; four log entries, so that a generation ends and another one begins before a
  compaction; batches of 3 records, so that a compaction takes one or several of them; one crash, at any point of a job.
  `HeadCompaction` is off: the newest revision is compacted only where one batch does it. The run `store_head` is the same with
  `HeadCompaction`; see the violated properties.
- `watch`: one watcher of one key and one of both; a channel of one place, so that any two events
  collide; `MaxWatchersPerSync` is 2, so that `choose` takes the group itself for one unsynced watcher and a copy for
  two; one revision per batch, so that a watcher may need several; the revisions 2 and 3; two events out of cancel, compaction and restore.
- `lease`: two servers, one lease of 2 s that is checkpointed every second, two committed entries waiting; one
  change of leader, one renewal and one lost request, two of these in a behaviour. `Extend`, the grace of a promotion, is 0, the hardest value.
- `apply`: four requests on two keys and two leases, which is a grant, a put, a change of the lease of
  the key and a revocation; two crashes, so that a replay is itself cut short.

### The violated properties

**Replay.** `etcdserver/server.go:2246` says "do not re-apply applied entries." and trusts the consistent index,
which only transactions that change keys save, and the commit for a raft snapshot; alarms go to the same backend without it. In the
trace of `apply_replay`

1. entry 1 activates a `NOSPACE` alarm, and a raft snapshot commits the backend with the consistent index 1;
2. entry 2, a put, is refused because of the alarm, and saves no index;
3. entry 3 disarms the alarm; the backend commits: on disk there is no alarm, and the index is still 1;
4. the member crashes; the replay applies entry 2 again, without the alarm, and executes the put.

The member then has a key and a revision that no other member has. The
run `apply` and the theorem `CrashesAreInvisible` show that there are three ways to this: alarms that are disarmed
(`Disarms`), requests for a lease that precede its grant (without `FreshLeases`), and two types of alarm at once
(see the observations). Without them crashes do not show.

**Compaction of the newest revision.** `mvcc/kvstore.go:431` says of keys that "might all be deleted due to compaction" that "the correct revision
should be set to compaction revision in the case". `restore` takes the last finished compaction for it
and not the scheduled one, which it has read as well. In the trace of `store_head`, with batches of 3 records,

1. a key is put, put again and deleted, at the revisions 2 to 4, and revision 4 is compacted;
2. the first batch of the backend is full: it deletes all three records, and is committed at once;
3. the member crashes before the next batch, which would find nothing and write `finishedCompactRev`;
4. `restore` finds no record and no finished compaction: the revision is 1, and on every other member 4.

The next transaction gets revision 2 here and 5 elsewhere. The scheduled compaction is forgotten, too: `updateCompactRev` refuses it as a
revision of the future. So `CompactionCompletes` fails as well with `HeadCompaction` within the bounds of `store`, and with a fifth
log entry also `ReadsShowHistory`, `OpenReadsShowHistory` and `HashIsReplicated`; `IndexMatchesBackend` holds. What the
run `store` shows of all of them is therefore limited to compactions of older revisions, and of the newest one where a
single batch does it.

### Observations without a run

Raft and Glee:

- `raft.go:987` argues that a removed node causes no disruptive term increases, because
  lease and pre-vote rules hold it back. `MsgProbeRtt` carries the sender's term (`raft.go:1881`) and
  deposes a leader. (`etcdserver` drops messages of members that it knows were removed;
  the `raft` package does not.)
- `raft_test.go:3569` expects a proposal to be dropped during a transfer. Glee forwards
  it to the transferee (`raft.go:1158`) and returns no error.
- `raft.go:345` and `1737` promise a random timeout in [T, 2T - 1]. With a penalty
  (`raft.go:1957`) it is neither random nor bounded.
- `calcRtt` computes a weighted mean, marked `SRTT`, from a field that it has just
  overwritten with the new sample (`raft.go:1930`).
- A follower forwards `MsgTransferLeader` with `send`, which overwrites `From`. `From`
  names the transferee, so the forwarder becomes the transferee (in `RaftStep`, `transfer`).
  It harms no safety property.
- Pre-vote answers of an earlier pre-campaign of the same term count in a later one.
  `PreVoteGuardsTerm` therefore speaks of grants, not of one campaign.
- In `StateProbe` a late rejection may move `Next` down to `Match` or below.
  Entries are sent again; nothing breaks, as `MatchIsReal` and `NoPanic` show.
- `calcRtt` measures from the last probe, not from the one that was answered: with
  overlapping probes RTTs come out too small, never too large (`RttNotOverestimated`,
  for entries that exist). An answer that arrives after a restart finds no entry and is
  measured against the zero time.
- `calculateMedian` returns the smallest of the values, for any number of them.
- `CalBestNode` counts an RTT that is missing from a map as zero, and the first sample
  after a start always counts as a deterioration.
- Two nodes that are each other's nearest peer have equal penalties, and equal
  timeouts: neither is random any more.
- `etcdserver/raft.go:379` says that with multiple members raft never sends identical unstable and
  committed entries. A follower that lags gets an entry and its commit in one `Ready`;
  `shouldWaitWALSync`, which is said to be for single members, saves it (`AppliedIsSaved`).

- `raft/log.go:32` has `committed` "known to be in stable storage on a quorum of nodes". Acknowledged entries can leave a disk again:
  a follower's `Ready` saves the entries 2 to 4, their acknowledgements are sent, and before its `Advance` the next leader
  replaces entry 4. `stableTo` does not find the term of entry 4 and leaves 2 and 3 unstable, so that the next `Ready` writes them once more. If
  a crash tears this save behind entry 2, `WAL.ReadAll` truncates there, and entry 3 is gone. One follower does not
  matter. With seven servers, of which two do so after they made up a quorum with the old and the next leader, a decided entry is on
  fewer disks than a quorum, and `AppliedIsDurable` is violated; TLC confirms the behaviour when it is led through it step by step. It is too long
  for a search, and takes two crashes at the wrong moment.
- A torn save can also leave fewer entries than the commit index on disk: the server then panics at each start (`loadState`).

Store and watches:

- Where compaction leaves no key, `HashByRev` has an empty set of revisions to keep, and hashes whatever the
  backend still holds. `HashIsReplicated` leaves such revisions out.
- A restored generation has the sub-revision 0 in `created`, whatever it was; nothing reads it.
- The notice that a watcher's start was compacted is lost if the channel is full: the comment at
  `mvcc/watcher_group.go:258` says "retry next time", but the watcher has been advanced. It is then `excused`.
- A watcher that was restored with its `minRev` beyond the store's revision continues with the next
  one and gets events before its start; a watcher that starts at the compacted revision misses a tombstone of
  that revision, which compaction removed. Both are `excused`.
- With more watchers than `maxWatchersPerSync`, `choose` works on a copy of the group, so that
  watchers told of a compaction stay unsynced; a cancelled watcher that was also
  compacted stays among the victims.

Leases and alarms:

- The comment at `lease/lessor.go:250` has an expired lease revoked by the primary. A former leader that has not
  noticed the change still has it revoked, through its successor, even when it was renewed there. A checkpoint
  between the look-up and the refresh of a renewal shortens it, and a renewal may
  succeed for a lease that was revoked meanwhile. `PromiseKeptByLeader` is therefore about one leader
  and undisturbed renewals (`disturbed`); `Renew` ignores a failed checkpoint.
- Between the test `isLeader` and `Promote` (`etcdserver/server.go:2226`) the member may be demoted, so that a follower
  is primary until the next change. `LeasesEnd` holds nevertheless.
- A put with a lease that is granted only later in the log is refused, and executed by a replay that starts with the grant on disk.
- Disarming one of two alarms removes both restricting appliers, but `restoreAlarms` installs the one that is left.
- The second of two alarms replaces the first one's applier (`etcdserver/apply.go:642`, `644`), while `restoreAlarms`
  (`etcdserver/server.go:2677`) stacks both. After `NOSPACE` and then `CORRUPT` or the reverse, a member that restarted
  refuses what others execute. Hence the hypothesis of one alarm type in `CrashesAreInvisible`, and the single
  alarm of the run `apply`.

## 4. Fairness

Raft's modules assume none: their properties are safety properties. Elections need randomized
timeouts, which Glee's penalty removes, and delivery that no code guarantees. Above raft
the specifications have the weak fairness that goroutines and timers give:

- `MvccStore`: the goroutine that runs scheduled compactions goes on, so `CompactionCompletes`, also across a crash.
- `WatchableStore`: the client receives, `moveVictims` goes on, and every unsynced watcher is in a batch of
  `syncWatchers` some time, as `choose` iterates over a map in random order. So
  `WatchersCatchUp`. No fairness for a batch in particular: a full channel may send a watcher back.
- `Lessor`: time passes; each server applies its queue, finishes a promotion, looks at expired
  leases and proposes what expired. There is none for changes of leader, for losses (which `MaxLost`
  bounds) nor for clients. So `LeasesEnd`.

## 5. What is proved

| Theorem | Module | Statement |
|---|---|---|
| `TallyInvariant`, `AtMostOneWinner` | `ProgressTrackerProofs` | `Spec => []OneWinner`, for all finite sets of nodes and joint configurations |
| `OutcomesAreFinal` | `ProgressTrackerProofs` | `Spec => OutcomeStable`, an action property |
| `ElectorsKnow` | `ProgressTrackerProofs` | `Spec => []ElectorsKnowCommitted` |
| `SortingIsCounting` | `ProgressTrackerProofs` | `Spec => []CommittedIsSortedPick`, the sorted slice of the code against the definition by quorums |
| `ElectionInvariant` | `RaftClusterProofs` | `Spec => []ElectionInv` |
| `OneLeaderPerTerm`, `LeadersElected` | `RaftClusterProofs` | `Spec => []ElectionSafety`, `[]LeadersWereElected` |
| `VotesKept` | `RaftClusterProofs` | `Spec => VotesAreKept`, an action property |
| `TermsAllowed`, `PreVotesGuard` | `RaftClusterProofs` | with `PreVote`: every term has its pre-votes or its transfer; `Spec => []PreVoteGuardsTerm` |
| `SafetyInvariant` | `RaftClusterProofs` | `Spec => []SafetyInv` |
| `TypeCorrect` | `RaftClusterProofs` | `Spec => []TypeOK` of `RaftCluster` |
| `LogsMatch`, `LeadersAreComplete`, `MatchesAreReal`, `NeverPanics` | `RaftClusterProofs` | `Spec => []LogMatching`, `[]LeaderCompleteness`, `[]MatchIsReal`, `[]NoPanic` |
| `ImplementsLog` | `RaftClusterProofs` | `Spec => ImplementsReplicatedLog`, the refinement |
| `ProposalsHappenOnce`, `DroppedIsGone` | `RaftClusterProofs` | `Spec => []ProposalAtMostOnce`, `[]DroppedNeverAppears` |
| `ReadyInvariant`, `ReadyTypes` | `RaftReadyProofs` | `Spec => []ReadyInv`, `Spec => []TypeOK` of `RaftReady`, where nobody wins an election alone |
| `AppliedIsOnDisk` | `RaftReadyProofs` | `Spec => []AppliedIsSaved`, likewise |
| `VotesAreOnDisk` | `RaftReadyProofs` | the half of `PromisesAreSaved` about votes, an action property, likewise |
| `LatencyMeasured`, `NotOverestimated` | `GleeRttProofs` | `Spec => []LatencyWasMeasured`, `[]RttNotOverestimated` |
| `TypeCorrect`, `NeverPanics` | `WatchableStoreProofs` | `Spec => []TypeOK`, `[]NoPanic` |
| `EventsComeInOrder`, `SyncedIsComplete` | `WatchableStoreProofs` | `Spec => []EventsInOrder`, `[]SyncedHasAll` |
| `TypeCorrect`, `LeasesOutliveKeys`, `RevocationsAreExact` | `ServerApplyProofs` | `Spec => []TypeOK`, `[]KeysHaveTheirLease`, `[]AttachmentsAgree` |
| `CrashesAreInvisible` | `ServerApplyProofs` | `Spec => []CrashesDoNotShow`, for fresh leases, one type of alarm and no disarming |
| `TypeCorrect`, `NoLeaseIsForgotten` | `LessorProofs` | `Spec => []TypeOK`, `[]ExpiryIsWatched` |
| `LessorsAgree`, `PromisesAreKept` | `LessorProofs` | `Spec => []LeasesAgree`, `[]PromiseKeptByLeader` |

Assumptions: `TrackerAssumption`, `CoreAssumption`, `RttAssumption`, `WatchAssumption`, `ApplyAssumption` and
`LessorAssumption`.
`RaftReadyProofs` rests on `CoreAssumption`, on `ReadyAssumption`, which gives the bounds their kinds, and on `Several`.
`CoreAssumption` has finitely many
servers, a non-empty configuration for each, and overlapping quorums of any two
configurations in use. In a single majority configuration, simple or joint, the overlap
is itself a theorem about cardinalities (`ProgressTrackerProofs`); across different
configurations it is what configuration changes have to guarantee, and remains an
assumption until they are modelled. The other five say of which kind the constants are and that
the markers `None`, `NoLease` and `Absent` are no data; `WatchAssumption` also that there are finitely many watchers. All bounds may be anything, so the theorems
do not depend on them; those of `ServerApply` hold with `Disarms` and without `FreshLeases` as well,
except `CrashesAreInvisible`, which is false there: its hypotheses are exactly the exclusion of the three ways to the
violation that the run `apply_replay` shows.

**The tracker.** `OneWinner` is not inductive: the tallies alone do not say where a yes
came from. `TallyInvariant` adds that a recorded yes is the ballot of its voter. Two
winners have a common voter, who has one ballot. For `ElectorsKnow` it also needs that `CommittedIndex`, which the
code picks from a sorted slice and the model defines as the largest index that a quorum of each half has
acknowledged, exists: among finitely many acknowledgements there is a largest (the least-element principle of the
library, applied to a set). `SortingIsCounting` shows that this is the element which the code takes. Sorting is modelled by where each
element ends up (`Place`: how many belong in front of it, equal ones in their old order). No two
elements have the same place, hence each place is taken; the elements from the middle of the slice on are those with
at least its value, and they are just as many as a majority needs, while fewer have more. The lemmas count places, for
slices of every length, where a recursive sort would need induction.

**Elections.** `ElectionSafety` says only that two pairs in `leaders` do not clash.
The inductive invariant `ElectionInv` has three parts:

- `NodesInv`: each record has the shape that handlers rely on; what a candidate has counted
  as yes was granted to it in its present term (these grants are in `net` for ever);
  a leader is on record in `leaders`.
- `NetInv`: a grant in the network binds its voter: either the voter's term has moved on,
  or its vote is for the one it granted. No voter has granted two nodes in one term.
- `LeadersInv`: an election on record is backed by a quorum of such grants, and the winner
  granted nobody else in that term.

Two leaders of a term have quorums with a common voter, who would have granted both.

The proof is in two layers. `RaftStepProofs` speaks of one node and one handler: either the handler
does not touch elections (`Frame`: term, vote, role and counted votes stay, no vote is
sent), or it takes part in them correctly (`Elects`: the term does not fall, a vote is
kept within its term, a grant sent goes to the one voted for, a leader has been granted a
quorum). There is a lemma for each handler, composed along the calls of `Step`.
`RaftClusterProofs` shows that every action is a move of one node of that kind
(`NextMoves`) and that such a move preserves the invariant (`MovesElection`), without
looking at a handler again. The invariant is also what the restart needs: a node that
forgot its vote would break `NetInv`.

**Pre-votes.** `PreVoteGuardsTerm` is not inductive: a message can carry a term from which
nobody knows how it arose. `GuardInv` says of every term that a node is in or that a message speaks of, except requests and
grants of pre-votes, that it is `Allowed`: a quorum granted somebody pre-votes for it, or it is the one after the
term of a `MsgTimeoutNow`. A pre-vote for a term ahead of everybody names the next term
of the node that asks, and so does the grant. A grant of the term before counts in the
present pre-campaign (`Step` lets it through), so `PolledIn` counts it. For one handler
this is `Climbs` (`RaftStepProofs`): a step changes the term only because of a message with this term, of a
`MsgTimeoutNow`, or of a quorum of pre-votes. The theorems include transfers, which campaign without pre-votes.

**The replicated log.** No node keeps enough to say why its log is right: leaders are replaced and their logs truncated. The
invariant `SafetyInv` therefore has ghost logs `L`: `L[T]` is the log that the leader of term `T` had
when it was last seen to lead. It exists in every reachable state, and each step of the proof
extends it (`Logs`) when a leader acts.

- `LogsInv`, `NodeInv`: every log, also every ghost, consists of parts of the ghosts: an entry of term `t`
  stands with all before it in `L[t]` (`Matches`). `LogMatching` follows at once. A leader's `Match` is what was
  acknowledged to it (`Tracks`).
- `MsgInv`: what a message says was so when it was sent and still matters: the entries of a `MsgApp`
  are a stretch of its sender's ghost log, its commit index and that of a heartbeat are settled, and so on.
- `AckInv`, `VoteInv`, `HeldInv`: the argument of raft's leader completeness. An entry that the leader of `T` appended in its own term
  is `Chosen` if a quorum acknowledged it to that leader, `Choosable` if all of a quorum did or have not passed `T`
  and still may. Who acknowledged such an entry has it for ever; a candidate that was granted the vote of such a voter is up to date with it; every later leader has it. The
  new leader is the hard case: its quorum and the one that acknowledged have a common voter, whose vote went
  through `isUpToDate`.
- `Settled`: a commit index covers only what was chosen, directly or before something chosen, as
  `maybeCommit` counts entries of the present term only.
- `PayloadInv`: a payload is in one place: in one forwarded proposal, or at one index that one leader appended
  (`Carried`), of which all others are copies; nowhere, if it was dropped. Hence `ProposalAtMostOnce` and `DroppedNeverAppears`.

Two layers again. The second half of `RaftStepProofs` is about one handler of one node: it leaves the log alone (`Quiet`),
extends and counts as a leader (`Pushes`), or copies from a leader's log (`Follows`), with a lemma
for each handler. `RaftClusterProofs` uses it for the cluster: every action is such a step (`Runs`), and each part of the invariant survives
each kind. `NeverPanics` is what the handler lemmas need and give: a follower never truncates below its commit index, as what is
settled is in the ghost of the message. The refinement maps a step to the delivery of more of the log
by one node or to a restart that forgets; that `decided` only grows by appending is `Concord`, the
agreement of any two settled prefixes.

**The ready loop.** `AppliedIsSaved` looks like a matter of one node and its disk, and is not. `shouldWaitWALSync` compares
the terms of two entries to find out whether what is to be applied is among what is to be saved. That is right only in a log whose terms never
decrease (`Rising`), and logs are no longer kept in order by the argument of the replicated log: a save that a crash cuts short leaves
entries of a later term than the hard state under it, with which the server campaigns in an earlier term. If it won, it would append
an entry of a lower term than the one before. It cannot win, and `ReadyInv` says why:

- `HardInv`: hard states follow each other (`Later`) from the disk to the `Ready` and to the node, and
  what is in the outbox or in the `Ready` binds the one it goes with; what is sent binds the disk (`Bound`), unless its save comes first.
- `ElectInv`: votes that a candidate counts are on the disks of the voters and its own; the term of a leader was won (`Won`): a quorum
  has it on disk, with the vote for the winner or a later term. A candidate whose log ends in a later term than its own is `Barred`: the voters of that term, a
  quorum, can neither have voted nor vote for it any more.
- `MsgInv`: entries in messages have terms that were won and do not decrease.
- `DiskInv`, `LocalInv`: the disk holds what storage has, or will have after the `Ready`; both, and what a torn save leaves, are
  in order with terms that were won (`Good`). What was handed out or is promised to the applier is a stretch
  of the log that neither a truncation nor `Advance` touches, as it is committed, and the part that was handed out is on disk.

The last part of `RaftStepProofs` has what this needs of one handler: it takes entries from a message behind what is
committed (`Copies`), or grows the log only as a leader and votes only for whom it was asked to (`Proceeds`), and every message it sends
has entries in order. Unlike the lemmas for the replicated log these assume nothing of the messages that arrive but their shape
and order, as the promises behind them may be lost with a torn save.

A vote is subtler than it looks, too: a leader sends before it saves, and its outbox may hold a vote that it gave in an earlier
term. It leads only after others have voted for it, hence after its own request left, behind a save. This is where
`Several` is needed, that no server alone is a quorum of its configuration: a sole voter leads in the same step in which it campaigns,
before its term is on disk, and what is sent then (nobody's vote depends on it) is not covered. `ReadyInv`
was checked with TLC as an invariant of the run `ready`, and on random behaviours of larger instances.

**RTTs.** `LatencyWasMeasured` follows a value through four places: the map of the node that took it, its report to the leader,
the leader's `nodeLatency`, and the history `measured`; each is a copy of the one before (`Measured`). `RttNotOverestimated`
rests on the order of the clock: an entry is not from the future, and a probe under way is not
younger than the entry that its answer is measured from (`EntriesInOrder`, `ProbesInOrder`), since a later probe only
overwrites the entry with a later time. Neither needs the measurements to be sensible.

**Watches.** `EventsInOrder` and `SyncedHasAll` are not inductive: what was sent says nothing of what waits in the batch of a victim,
nor of what the backend no longer has. The invariant `WatchInv` says of a watcher that is not excused that
what it got, followed by the batch that waits for it, tells (`Tells`) all that happened to its keys from its first
revision on and before its `minRev`, one stretch after the other (`Delivered`); if it is synced, nothing happened after that. So
the next write continues the story of a synced watcher, a retry that of a victim, and `syncWatchers` that of an
unsynced one: `StoreInv` says that the backend lacks only what is older than the compaction,
or was deleted at its revision, hence a watcher that is neither behind it (`Late`) nor at such a
deletion reads the stretch it needs (`Pending`), also when its batch is cut at `WatchBatchMaxRevs`.
`NoPanic` needs to know where a victim is: in exactly one batch, of those that wait, those that `moveVictims` took, or
those it failed to send (`Placed`), and `tried` says whether its own batch was sent already (`LoopInv`).
`Events` is the one function over data here; it lists the revisions with something to tell in ascending order (`Ascending`), which
can be reasoned about by counting, where a fold would need induction.

**Applying.** `AttachmentsAgree` and `KeysHaveTheirLease` are not inductive: a restart builds
member and maps from `disk`, whose leases `AttachmentsAgree` does not mention, and both
need the types of what a request finds. `IInv` has `Good` of both members and `Sound` of the disk:
every lease on a key exists in the same database (`Sound`), and the lessor's maps are exactly
those that the database determines (`Agree`). Each request has a lemma (`PutGood`,
`DeleteGood`, `RevokeGood` and so on) that it turns a good member into a good one; `applyEntryNormalGood`
combines them with what replay skips, and `NewServerGood` shows that a restart from a sound
disk makes a good member. The step proof (`NextIInv`) then only says which member moves.

`CrashesDoNotShow` needs the past. `ReplayInv` has a ghost history `H`: `H[i]` is the data after the first `i` entries, applied once.
The twin is at the end of `H`. A server that is behind, in memory or on disk, has data of some later point `p`
than the entries it has applied: those between its consistent index and `p` changed no keys, and so
saved no index (`Lag`). It applies them a second time, to data that has seen them. What that does
is `AppliedAgain`: keys and alarms stay those of `p`; a grant brings back a lease that a later entry revoked, and that entry
revokes it again before `p` is reached; what was refused is refused again, because leases are not used before their
grant, alarms are never disarmed and the one alarm installs the one applier. So at `p` the data are those of the history.
Each of the three hypotheses is used there, and TLC finds a counterexample without any one of them.

**Leases.** `ExpiryIsWatched` is inductive together with the types, and the types are not inductive because of
renewals: an entry that is applied sends the renewal that waits for it on to its refresh, which is sound only if
it does wait, and for this entry alone. `IInv` adds that (`RenewalWaits`). Every handler of the lessor has a lemma that it keeps
`Watching`, the condition on one lessor: a promotion schedules what it has, a demotion leaves no primary, a
retry interval is a deadline of its own, and time takes the same from both sides of the comparison.

`LeasesAgree` compares servers with the same entries still to apply. The invariant `SameLog` has two ghosts, one log and what its entries make of the
leases one after the other: each queue is a suffix of the log, and the leases and checkpoints of each server are
those before that suffix. A step commits an entry, applies one, or does neither (`StepKind`): promotions, renewals
and time move deadlines only.

`PromiseKeptByLeader` speaks of the first leader until it is replaced; until then it alone has deadlines, renewals and revocations (`OneRules`).
The promise is never after the leader's deadline, and a lease is granted once (`Kept`). A lease whose renewal is under way is there, without a
checkpoint ahead of it (`Renewable`, `Clears`), so that its refresh gives all the time that is promised.
And as soon as a revocation is proposed, in a queue or done anywhere (`Ending`), the promise is
over and nothing can renew it (`Dead`): a revocation needs an expired lease.

Only model-checked are:

- Of `RaftReady`: `AppliedIsDurable` and the half of `PromisesAreSaved` about acknowledgements. `AppliedIsDurable` cannot be proved, as it is false in
  larger clusters (see the observations): the run `ready` shows it for three servers of which one is slow and crashes once. The acknowledgements
  rest on leaders that have all that was committed, hence on the same.
- `MvccStore`: the store's history is a fold over the log and over transactions, so that its invariants need induction over data.
- Liveness (`CompactionCompletes`, `WatchersCatchUp`, `LeasesEnd`), as the prover has neither fairness nor `ENABLED`.

## 6. Plan

1. `ReadIndex`: `read_only.go` with quorum acknowledgements, checked for
   linearizability; the lease-based variant with clock drift.
2. `ConfChange`: `Changer`, joint consensus, `pendingConfIndex`; discharges the
   overlap of quorums that `CoreAssumption` assumes. `numOfPendingConf` looks at
   `EntryConfChange` only.
3. Log compaction and snapshots in `RaftReady`, then `StateSnapshot`; a snapshot of `etcdserver`
   over `MvccStore.Restore`, under the watchers.
4. `Inflights`: the ring buffer implements a bounded queue; composed with progress.
5. `GleeRtt` composed with transfers, for leadership that moves back and forth.
6. Proofs: the ready loop without `Several`; with torn saves excluded, that acknowledged entries stay on disk and that
   `RaftReady` keeps the promises that `RaftCluster` takes for granted.

TLC runs are kept few: new ones take the place of runs whose question they subsume.

### Not modelled

Learners and non-voting members, the size limits of raft, quota, auth, the v2 store and membership
are left out: they are bookkeeping of one sequential step each, mostly upstream code that Glee does
not change. Transport, segments and checksums of the WAL, bbolt below the guarantee of a commit, and
the clients are I/O or libraries. `src/etcd` is the unmodified baseline: the same modules
apply to it without Glee's messages. Generated code (protobuf) has no logic.
