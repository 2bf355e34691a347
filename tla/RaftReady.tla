------------------------------ MODULE RaftReady ------------------------------
(***************************************************************************)
(* The Ready/Advance cycle: raft/node.go, log_unstable.go and storage.go   *)
(* with the raft loop of etcdserver/raft.go and the log of package wal.    *)
(*                                                                         *)
(* RaftCluster runs the cycle to completion after each step.  Here a node  *)
(* goes on stepping messages while the loop saves, applies and sends what  *)
(* an earlier Ready holds, and crashes anywhere in between.  node[s].log   *)
(* is what raftLog reads: storage below offset, unstable entries above it. *)
(* A server whose node panicked does nothing until it is restarted.        *)
(***************************************************************************)
EXTENDS RaftStep, SequencesExt

CONSTANTS
    Slow,    \* servers with a slow disk: the others handle a Ready at once
    MaxTerm, MaxLog, MaxTimeouts, MaxCrashes    \* bounds

ASSUME ReadyAssumption ==
    /\ Slow \subseteq Server
    /\ MaxTerm \in Nat /\ MaxLog \in Nat
    /\ MaxTimeouts \in [Server -> Nat] /\ MaxCrashes \in [Server -> Nat]

VARIABLES
    node,       \* the raft struct of every server, without its outbox
    outbox,     \* raft.msgs, which the next Ready takes
    offset,     \* unstable.offset
    applied,    \* raftLog.applied
    prevHardSt, \* the hard state of the last Ready
    storage,    \* the entries of MemoryStorage
    ready,      \* the Ready that the loop handles, and what is left to do of it
    wal,        \* what a restart finds on disk: hard state and entries
    net,        \* the messages under way
    delivered,  \* the entries handed to the applier since the start (history)
    decided,    \* the longest log that was ever delivered (history)
    timeouts, crashes    \* how many every server has had

raft  == <<node, outbox, offset, applied, prevHardSt>>
disk  == <<storage, wal, delivered, decided>>
count == <<timeouts, crashes>>
vars  == <<raft, ready, disk, net, count>>

NoReady == [todo |-> {"none"}]

Hard(r) == [Term |-> r.Term, Vote |-> r.Vote, Commit |-> r.committed]

Init ==
    /\ node = [s \in Server |-> newRaft(s, 0, None, <<>>, 0)]
    /\ outbox = [s \in Server |-> {}]
    /\ offset = [s \in Server |-> 1]
    /\ applied = [s \in Server |-> 0]
    /\ prevHardSt = [s \in Server |-> Hard(node[s])]
    /\ storage = [s \in Server |-> <<>>]
    /\ ready = [s \in Server |-> NoReady]
    /\ wal = [s \in Server |-> [hard |-> prevHardSt[s], log |-> <<>>]]
    /\ net = {}
    /\ delivered = [s \in Server |-> <<>>] /\ decided = <<>>
    /\ timeouts = [s \in Server |-> 0] /\ crashes = [s \in Server |-> 0]

-----------------------------------------------------------------------------
(* Steps of the node *)

\* Where the entries that a step appended begin.
after(old, new) ==
    Min({i \in 1..Len(new) + 1 : i > Len(old) \/ i > Len(new) \/ old[i] # new[i]})

\* Node s becomes r: entries that replace others are unstable (truncateAndAppend).
Becomes(s, r) ==
    /\ ~node[s].panic
    /\ node' = [node EXCEPT ![s] = [r EXCEPT !.msgs = {}]]
    /\ outbox' = [outbox EXCEPT ![s] = @ \cup r.msgs]
    /\ offset' = [offset EXCEPT ![s] = Min({@, after(node[s].log, r.log)})]
    /\ UNCHANGED <<applied, prevHardSt, ready, disk, crashes>>

Timeout(s) ==
    /\ timeouts[s] < MaxTimeouts[s] /\ timeouts' = [timeouts EXCEPT ![s] = @ + 1]
    /\ node[s].state # Leader /\ node[s].Term < MaxTerm
    /\ Becomes(s, hup(node[s]))
    /\ UNCHANGED net

\* rafthttp does not repeat a message; one that stays in net is late or lost.
Receive(m) ==
    LET r == Step(node[m.to], m)
    IN  /\ r.Term <= MaxTerm /\ r # node[m.to]
        /\ Becomes(m.to, r)
        /\ net' = net \ {m}
        /\ UNCHANGED timeouts

\* A proposal at the leader; how others forward it is the subject of RaftCluster.
Propose(s, v) ==
    /\ node[s].state = Leader /\ lastIndex(node[s]) < MaxLog
    /\ Becomes(s, propose(node[s], v))
    /\ UNCHANGED <<net, timeouts>>

-----------------------------------------------------------------------------
(* A Ready *)

unstableEntries(s) == SubSeq(node[s].log, offset[s], lastIndex(node[s]))
nextEnts(s)        == SubSeq(node[s].log, applied[s] + 1, node[s].committed)

\* Mutant of shouldWaitWALSync: committed entries never wait.
neverWaitWALSync(s) == FALSE

\* Entries to apply overlap those that are to be saved.
shouldWaitWALSync(s) ==
    LET last  == termAt(node[s].log, node[s].committed)
        first == termAt(node[s].log, offset[s])
    IN  /\ nextEnts(s) # <<>> /\ unstableEntries(s) # <<>>
        /\ last > first \/ (last = first /\ node[s].committed >= offset[s])

\* Mutant of Tasks: everybody sends in parallel with writing to disk.
TasksInParallel(leader, wait) ==
    IF wait THEN <<"save", "apply", "send">> ELSE <<"apply", "send", "save">>

\* What the loop does with a Ready, in its order: only a leader sends before it saves.
Tasks(leader, wait) ==
    IF wait THEN <<"save", "apply", "send">>
    ELSE IF leader THEN <<"apply", "send", "save">>
    ELSE <<"apply", "save", "send">>

\* What there is to do for s (HasReady).  The loop does nothing for a change of the soft
\* state alone.
Todo(s) ==
    (IF Hard(node[s]) # prevHardSt[s] \/ unstableEntries(s) # <<>> THEN {"save"} ELSE {})
    \cup (IF nextEnts(s) # <<>> THEN {"apply"} ELSE {})
    \cup (IF outbox[s] # {} THEN {"send"} ELSE {})

\* newReady and acceptReady
Ready(s) ==
    /\ ~node[s].panic /\ ready[s] = NoReady /\ Todo(s) # {}
    /\ ready' = [ready EXCEPT ![s] =
            [first |-> offset[s], entries |-> unstableEntries(s), committed |-> nextEnts(s),
             hard |-> Hard(node[s]), msgs |-> outbox[s], todo |-> Todo(s),
             tasks |-> Tasks(node[s].state = Leader, shouldWaitWALSync(s))]]
    /\ outbox' = [outbox EXCEPT ![s] = {}]
    /\ UNCHANGED <<node, offset, applied, prevHardSt, storage, wal, net, delivered, decided, count>>

\* The task is the next one.
Does(s, task) ==
    /\ task \in ready[s].todo
    /\ \E i \in 1..3 : /\ ready[s].tasks[i] = task
                       /\ \A j \in 1..i - 1 : ready[s].tasks[j] \notin ready[s].todo

Do(s, task) ==
    /\ ~node[s].panic /\ Does(s, task)
    /\ ready' = [ready EXCEPT ![s].todo = @ \ {task}]

\* A log after the entries of a Ready were appended (MemoryStorage.Append, WAL.ReadAll).
Appended(ents, rd) ==
    IF rd.entries = <<>> THEN ents ELSE SubSeq(ents, 1, rd.first - 1) \o rd.entries

MustSync(st, prevst, entsnum) ==
    entsnum # 0 \/ st.Vote # prevst.Vote \/ st.Term # prevst.Term

\* WAL.Save.  What is not synced may be lost in a crash: then it is not written at all.
Save(s) ==
    LET rd == ready[s]
    IN  /\ Do(s, "save")
        /\ \/ wal' = [wal EXCEPT ![s] = [hard |-> rd.hard, log |-> Appended(@.log, rd)]]
           \/ ~MustSync(rd.hard, wal[s].hard, Len(rd.entries)) /\ UNCHANGED wal
        /\ UNCHANGED <<raft, storage, net, delivered, decided, count>>

\* The committed entries go to the applier.
Delivers(s, ents) ==
    /\ delivered' = [delivered EXCEPT ![s] = @ \o ents]
    /\ decided' = IF Len(delivered'[s]) > Len(decided) THEN delivered'[s] ELSE decided

Apply(s) ==
    /\ Do(s, "apply")
    /\ Delivers(s, ready[s].committed)
    /\ UNCHANGED <<raft, storage, wal, net, count>>

Send(s) ==
    /\ Do(s, "send")
    /\ net' = net \cup ready[s].msgs
    /\ UNCHANGED <<raft, storage, wal, delivered, decided, count>>

\* Mutant of stableTo: the term of the entry is not compared.
stableToIndex(s, i, t) == IF i \in offset[s]..lastIndex(node[s]) THEN i + 1 ELSE offset[s]

\* unstable.stableTo: entries up to i are stable, if i is still the entry of term t.
stableTo(s, i, t) ==
    IF i \in offset[s]..lastIndex(node[s]) /\ termAt(node[s].log, i) = t THEN i + 1
    ELSE offset[s]

\* MemoryStorage.Append and Advance: the node reads from storage what is stable.
Advance(s) ==
    LET rd   == ready[s]
        n    == Len(rd.entries)
        ents == Appended(storage[s], rd)
        off  == IF n = 0 THEN offset[s] ELSE stableTo(s, rd.first + n - 1, rd.entries[n].term)
    IN  /\ ~node[s].panic /\ rd.todo = {}
        /\ ready' = [ready EXCEPT ![s] = NoReady]
        /\ storage' = [storage EXCEPT ![s] = ents]
        /\ offset' = [offset EXCEPT ![s] = off]
        /\ node' = [node EXCEPT ![s].log = SubSeq(ents, 1, off - 1) \o SubSeq(@, off, Len(@))]
        /\ applied' = [applied EXCEPT ![s] = @ + Len(rd.committed)]
        /\ prevHardSt' = [prevHardSt EXCEPT ![s] = rd.hard]
        /\ UNCHANGED <<outbox, wal, net, delivered, decided, count>>

-----------------------------------------------------------------------------
(* Crash and restart *)

\* What a crash leaves: of a save under way some entries, which are written in front of
\* the hard state.
Left(s) ==
    {wal[s]} \cup
        IF ~Does(s, "save") THEN {}
        ELSE {[wal[s] EXCEPT !.log = SubSeq(@, 1, ready[s].first - 1)
                                     \o SubSeq(ready[s].entries, 1, k)]
                : k \in 1..Len(ready[s].entries)}

\* loadState panics when the entries do not reach the commit index.
restartNode(s, w) ==
    [newRaft(s, w.hard.Term, w.hard.Vote, w.log, w.hard.Commit) EXCEPT
        !.panic = (w.hard.Commit > Len(w.log))]

\* The node starts with what is on disk, and applies the log again.
Crash(s) ==
    /\ crashes[s] < MaxCrashes[s] /\ crashes' = [crashes EXCEPT ![s] = @ + 1]
    /\ \E w \in Left(s) :
        /\ wal' = [wal EXCEPT ![s] = w]
        /\ storage' = [storage EXCEPT ![s] = w.log]
        /\ offset' = [offset EXCEPT ![s] = Len(w.log) + 1]
        /\ prevHardSt' = [prevHardSt EXCEPT ![s] = w.hard]
        /\ node' = [node EXCEPT ![s] = restartNode(s, w)]
    /\ outbox' = [outbox EXCEPT ![s] = {}]
    /\ applied' = [applied EXCEPT ![s] = 0]
    /\ ready' = [ready EXCEPT ![s] = NoReady]
    /\ delivered' = [delivered EXCEPT ![s] = <<>>]
    /\ UNCHANGED <<net, decided, timeouts>>

\* All of it at once, for a server whose disk is fast.
Handle(s) ==
    /\ ~node[s].panic /\ Todo(s) # {}
    /\ outbox' = [outbox EXCEPT ![s] = {}]
    /\ offset' = [offset EXCEPT ![s] = lastIndex(node[s]) + 1]
    /\ applied' = [applied EXCEPT ![s] = node[s].committed]
    /\ prevHardSt' = [prevHardSt EXCEPT ![s] = Hard(node[s])]
    /\ storage' = [storage EXCEPT ![s] = node[s].log]
    /\ wal' = [wal EXCEPT ![s] = [hard |-> Hard(node[s]), log |-> node[s].log]]
    /\ net' = net \cup outbox[s]
    /\ Delivers(s, nextEnts(s))
    /\ UNCHANGED <<node, ready, count>>

Next ==
    \/ \E s \in Server \ Slow : Handle(s)
    \/ /\ \A s \in Server \ Slow : node[s].panic \/ Todo(s) = {}
       /\ \/ \E s \in Slow : Ready(s) \/ Save(s) \/ Apply(s) \/ Send(s) \/ Advance(s)
          \/ \E s \in Server : Timeout(s) \/ Crash(s) \/ \E v \in Value : Propose(s, v)
          \/ \E m \in net : Receive(m)

Spec == Init /\ [][Next]_vars

-----------------------------------------------------------------------------
(* Properties *)

\* Every variable has its type.
TypeOK ==
    /\ \A s \in Server :
        /\ node[s].id = s /\ node[s].log \in Seq(Entry)
        /\ offset[s] \in 1..Len(node[s].log) + 1
        /\ applied[s] \in 0..node[s].committed
        /\ storage[s] \in Seq(Entry) /\ wal[s].log \in Seq(Entry)
        /\ ready[s] # NoReady => ready[s].entries \in Seq(Entry)
        /\ timeouts[s] \in 0..MaxTimeouts[s] /\ crashes[s] \in 0..MaxCrashes[s]
    /\ net \subseteq Message /\ decided \in Seq(Entry)

\* What m promises is on the disk w of its sender: a vote, or entries.
VoteIsSaved(m, w) ==
    m.type = "MsgVoteResp" /\ ~m.reject =>
        w.hard.Term > m.term \/ (w.hard.Term = m.term /\ w.hard.Vote = m.to)

EntriesAreSaved(m, w) ==
    m.type = "MsgAppResp" /\ ~m.reject =>
        w.hard.Term > m.term \/ (w.hard.Term = m.term /\ Len(w.log) >= m.index)

\* A vote is on disk when it is sent, and so is an entry when it is acknowledged,
\* although a node may send at the end of a Ready what it has long gone past.
PromisesAreSaved ==
    [][\A m \in net' \ net : /\ VoteIsSaved(m, wal'[m.from])
                            /\ EntriesAreSaved(m, wal'[m.from])]_vars

\* Nothing is applied that the server does not have on disk: a client that is answered
\* may rely on it.
AppliedIsSaved == \A s \in Server : IsPrefix(delivered[s], wal[s].log)

\* What was applied anywhere is on the disks of a quorum, although leaders count
\* themselves for entries they have not saved.
AppliedIsDurable ==
    \A i \in DOMAIN decided, s \in Server :
        Wins(s, {t \in Server : i <= Len(wal[t].log) /\ wal[t].log[i] = decided[i]})

=============================================================================
