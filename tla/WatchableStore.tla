-------------------------- MODULE WatchableStore --------------------------
(***************************************************************************)
(* Watchers of the key-value store: mvcc/watchable_store.go and            *)
(* watcher_group.go.                                                       *)
(*                                                                         *)
(* A write notifies synced watchers at once.  A watcher that starts in the *)
(* past, or whose channel was full, is brought up to date by two loops:    *)
(* syncWatchers reads the backend, moveVictims sends again what did not    *)
(* fit.  The watchers here share the channel of one stream, as the         *)
(* watchers of a client do; of the channel only the length is kept, since  *)
(* it is in order.                                                         *)
(***************************************************************************)
EXTENDS Integers, Sequences, FiniteSets, FiniteSetsExt, SequencesExt

CONSTANTS
    Key, Watcher,
    KeysOf,             \* the keys of each watcher
    Txns,               \* write transactions: what they do to which keys
    ChanBufLen,         \* chanBufLen
    MaxWatchersPerSync, \* maxWatchersPerSync
    WatchBatchMaxRevs,  \* watchBatchMaxRevs
    MaxRev, MaxEvents   \* bounds on revisions, and on compactions, restores and cancels

ASSUME WatchAssumption ==
    /\ IsFiniteSet(Watcher) /\ KeysOf \in [Watcher -> SUBSET Key]
    /\ \A t \in Txns : DOMAIN t \subseteq Key /\ \A k \in DOMAIN t : t[k] \in {"put", "delete"}
    /\ ChanBufLen \in Nat \ {0} /\ MaxWatchersPerSync \in Nat \ {0}
    /\ WatchBatchMaxRevs \in Nat \ {0} /\ MaxRev \in Nat \ {0}
    /\ MaxEvents \in Nat

VARIABLES
    history,    \* history[i] is the transaction of revision i + 1
    stored,     \* what the backend has of it: revisions and keys
    compactRev, \* compactMainRev
    watcher,    \* the watchers
    victims,    \* batches of watchers whose channel was full
    moving,     \* the batches that moveVictims took
    tried,      \* watchers of the first one that got their events
    failed,     \* newVictim: watchers that did not
    channel,    \* responses in the channel of the stream
    sent,       \* the events sent to each watcher: revisions with their keys (history)
    excused,    \* watchers that may have missed something (history)
    count       \* compactions, restores and cancels so far

store == <<history, stored, compactRev>>
loop  == <<victims, moving, tried, failed>>
vars  == <<store, watcher, loop, channel, sent, excused, count>>

currentRev == Len(history) + 1

Idle == [group |-> "none", start |-> 0, minRev |-> 0, restore |-> FALSE, victim |-> FALSE,
         compacted |-> FALSE, batch |-> <<>>, moreRev |-> 0]

Init ==
    /\ history = <<>> /\ stored = {} /\ compactRev = -1
    /\ watcher = [w \in Watcher |-> Idle]
    /\ victims = <<>> /\ moving = <<>> /\ tried = {} /\ failed = {}
    /\ channel = 0
    /\ sent = [w \in Watcher |-> <<>>]
    /\ excused = {} /\ count = 0

Group(g) == {w \in Watcher : watcher[w].group = g}
synced   == Group("synced")
unsynced == Group("unsynced")

----------------------------------------------------------------------------
(* Events and batches *)

\* A finite set of numbers in order: before the i-th are i - 1 of them.
Ascending(R) == [i \in 1..Cardinality(R) |-> CHOOSE r \in R : Cardinality({q \in R : q <= r}) = i]

\* The events on some keys at some revisions, in order: <<rev, keys>>.
Events(S, revs, keys) ==
    LET at(r) == {k \in keys : <<r, k>> \in S}
        order == Ascending({r \in revs \cap (1..currentRev) : at(r) # {}})
    IN  [i \in DOMAIN order |-> LET r == order[i] IN <<r, at(r)>>]

\* eventBatch.add: the first WatchBatchMaxRevs revisions, and the one that comes next.
moreRev(evs) == IF Len(evs) <= WatchBatchMaxRevs THEN 0 ELSE evs[WatchBatchMaxRevs + 1][1]
Batch(evs)   == IF Len(evs) <= WatchBatchMaxRevs THEN evs ELSE SubSeq(evs, 1, WatchBatchMaxRevs)

\* Those of W that a send succeeds for: Go's order of a map, and the client may take
\* from the channel meanwhile.
Served(W, len) ==
    {G \in SUBSET W : Cardinality(G) >= Min({Cardinality(W), ChanBufLen - len})}

Filled(len, G) == Min({ChanBufLen, len + Cardinality(G)})

addVictim(V) == victims' = IF V = {} THEN victims ELSE Append(victims, V)

Changes(t, rev) == {<<rev, k>> : k \in DOMAIN t}

\* What a compaction leaves of the events up to its revision: the last one of a key,
\* if it is no tombstone.
Kept(S, rev) ==
    {e \in S : e[1] > rev \/ (/\ \A f \in S : f[2] = e[2] /\ f[1] <= rev => f[1] <= e[1]
                              /\ history[e[1] - 1][e[2]] = "put")}

----------------------------------------------------------------------------
(* Clients *)

\* A watch from startRev: a revision of the past, the next one, or a later one.
watch(w, startRev) ==
    /\ watcher[w].group = "none"
    /\ watcher' = [watcher EXCEPT ![w] = [Idle EXCEPT
            !.group = IF startRev > currentRev THEN "synced" ELSE "unsynced",
            !.start = startRev, !.minRev = startRev]]
    /\ UNCHANGED <<store, loop, channel, sent, excused, count>>

Receive ==
    /\ channel > 0
    /\ channel' = channel - 1
    /\ UNCHANGED <<store, watcher, loop, sent, excused, count>>

\* cancelWatcher: a victim that is being processed makes it wait.
cancelWatcher(w) ==
    /\ count < MaxEvents /\ count' = count + 1
    /\ \/ watcher[w].group \in {"synced", "unsynced"} \/ watcher[w].compacted
       \/ \E i \in DOMAIN victims : w \in victims[i]
    /\ watcher[w].group # "cancelled"
    /\ watcher' = [watcher EXCEPT ![w] = [Idle EXCEPT !.group = "cancelled"]]
    /\ victims' = IF watcher[w].compacted THEN victims
                  ELSE [i \in DOMAIN victims |-> victims[i] \ {w}]
    /\ UNCHANGED <<store, moving, tried, failed, channel, sent, excused>>

\* progressIfSync for the stream: an empty response, if there is room for it.
RequestProgressAll ==
    /\ \A w \in Watcher : watcher[w].group \in {"none", "synced", "cancelled"}
    /\ synced # {}
    /\ channel < ChanBufLen
    /\ channel' = channel + 1
    /\ UNCHANGED <<store, watcher, loop, sent, excused, count>>

----------------------------------------------------------------------------
(* The store *)

\* A transaction ends: synced watchers of its keys are notified.
End(t) ==
    LET rev     == currentRev + 1
        keys(w) == DOMAIN t \cap KeysOf[w]
        touched == {w \in synced : keys(w) # {} /\ watcher[w].minRev <= rev}
    IN  \E G \in Served(touched, channel) :
        /\ channel' = Filled(channel, G)
        /\ sent' = [w \in Watcher |-> IF w \in G THEN Append(sent[w], <<rev, keys(w)>>)
                                      ELSE sent[w]]
        /\ watcher' = [w \in Watcher |->
                IF w \notin touched THEN watcher[w]
                ELSE IF w \in G THEN [watcher[w] EXCEPT !.minRev = rev + 1]
                ELSE [watcher[w] EXCEPT !.minRev = rev + 1, !.group = "victim",
                                        !.victim = TRUE, !.batch = <<<<rev, keys(w)>>>>,
                                        !.moreRev = 0]]
        /\ addVictim(touched \ G)

Write(t) ==
    /\ currentRev < MaxRev
    /\ \A k \in DOMAIN t : t[k] = "delete" =>
        \E e \in stored : e[2] = k /\ history[e[1] - 1][k] = "put"
                          /\ \A f \in stored : f[2] = k => f[1] <= e[1]
    /\ End(t)
    /\ history' = Append(history, t)
    /\ stored' = stored \cup Changes(t, currentRev + 1)
    /\ UNCHANGED <<compactRev, moving, tried, failed, excused, count>>

\* Compact sets the revision at once; the backend follows.
Compact(rev) ==
    /\ count < MaxEvents /\ count' = count + 1
    /\ rev > compactRev /\ rev <= currentRev
    /\ compactRev' = rev
    /\ UNCHANGED <<history, stored, watcher, loop, channel, sent, excused>>

scheduleCompaction ==
    /\ stored # Kept(stored, compactRev)
    /\ stored' = Kept(stored, compactRev)
    /\ UNCHANGED <<history, compactRev, watcher, loop, channel, sent, excused, count>>

\* Mutant of Restore: watchers are not marked.
RestoreUnmarked(t, rev) ==
    /\ count < MaxEvents /\ count' = count + 1
    /\ currentRev < MaxRev
    /\ history' = Append(history, t)
    /\ stored' = stored \cup Changes(t, currentRev + 1)
    /\ compactRev' = rev
    /\ watcher' = [w \in Watcher |-> IF w \notin synced THEN watcher[w]
                   ELSE [watcher[w] EXCEPT !.group = "unsynced"]]
    /\ UNCHANGED <<loop, channel, sent, excused>>

\* A snapshot of the leader replaces the store, with a transaction that nobody was
\* notified of, and perhaps a compaction.
Restore(t, rev) ==
    /\ count < MaxEvents /\ count' = count + 1
    /\ currentRev < MaxRev
    /\ history' = Append(history, t)
    /\ stored' = stored \cup Changes(t, currentRev + 1)
    /\ compactRev' = rev
    /\ watcher' = [w \in Watcher |-> IF w \notin synced THEN watcher[w]
                   ELSE [watcher[w] EXCEPT !.group = "unsynced", !.restore = TRUE]]
    /\ UNCHANGED <<loop, channel, sent, excused>>

----------------------------------------------------------------------------
(* syncWatchersLoop *)

\* choose: all of them, or a copy of the group with some.
Chosen ==
    IF Cardinality(unsynced) < MaxWatchersPerSync THEN {unsynced}
    ELSE {S \in SUBSET unsynced : Cardinality(S) = MaxWatchersPerSync}

\* Watchers that are too late for the backend.
Late(S) == {w \in S : watcher[w].minRev < compactRev}

\* Mutant of Pending: the revision the watcher itself waits for is not looked at.
PendingFromOldest(S, w) ==
    LET others == S \ Late(S)
    IN  IF others = {} THEN <<>>
        ELSE Events(stored, Min({watcher[v].minRev : v \in others})..currentRev, KeysOf[w])

\* The events for w, of those that are read for the watchers in S.
Pending(S, w) ==
    LET others == S \ Late(S)
        from   == Min({watcher[v].minRev : v \in others})
    IN  IF others = {} THEN <<>>
        ELSE Events(stored, {r \in from..currentRev : r >= watcher[w].minRev}, KeysOf[w])

\* A watcher with its events, and those that could be sent.
Synced(w, evs, G) ==
    LET next == IF evs # <<>> /\ moreRev(evs) # 0 THEN moreRev(evs) ELSE currentRev + 1
    IN  IF evs = <<>> \/ (w \in G /\ moreRev(evs) = 0)
        THEN [watcher[w] EXCEPT !.group = "synced", !.minRev = next]
        ELSE IF w \in G THEN [watcher[w] EXCEPT !.minRev = next]
        ELSE [watcher[w] EXCEPT !.group = "victim", !.victim = TRUE, !.batch = Batch(evs),
                                !.moreRev = moreRev(evs), !.minRev = next]

\* It starts with a deletion that the compaction may have removed.
AtTombstone(w) ==
    /\ watcher[w].minRev = compactRev /\ compactRev - 1 \in DOMAIN history
    /\ \E k \in KeysOf[w] \cap DOMAIN history[compactRev - 1] :
            history[compactRev - 1][k] = "delete"

\* Late ones are told, and leave the group that was chosen; it is unsynced itself only
\* if all were chosen.  A late one that cannot be told is treated like the others.
syncWatchers(S) ==
    /\ unsynced # {} /\ S \in Chosen
    /\ \E told \in Served(Late(S), channel) :
        LET rest    == S \ told
            whole   == Cardinality(unsynced) < MaxWatchersPerSync
            Told(w) == [watcher[w] EXCEPT !.compacted = TRUE,
                                          !.group = IF whole THEN "compacted" ELSE @]
            Chose(w, i) == IF watcher[w].minRev > currentRev
                           THEN [i EXCEPT !.restore = FALSE] ELSE i
        IN  \E evs \in {[w \in rest |-> Pending(S, w)]} :
            \E G \in Served({w \in rest : evs[w] # <<>>}, Filled(channel, told)) :
            /\ channel' = Filled(Filled(channel, told), G)
            /\ sent' = [w \in Watcher |-> IF w \in G THEN sent[w] \o Batch(evs[w]) ELSE sent[w]]
            /\ watcher' = [w \in Watcher |->
                    IF w \in told THEN Told(w)
                    ELSE IF w \in rest THEN Chose(w, Synced(w, evs[w], G))
                    ELSE watcher[w]]
            /\ addVictim({w \in rest : evs[w] # <<>>} \ G)
            /\ excused' = excused \cup (Late(S) \ told)
                \cup {w \in rest : watcher[w].minRev > currentRev + 1 \/ AtTombstone(w)}
    /\ UNCHANGED <<store, moving, tried, failed, count>>

----------------------------------------------------------------------------
(* syncVictimsLoop: moveVictims works without the lock in between *)

TakeVictims ==
    /\ moving = <<>> /\ failed = {} /\ victims # <<>>
    /\ moving' = victims /\ victims' = <<>>
    /\ UNCHANGED <<store, watcher, tried, failed, channel, sent, excused, count>>

SendVictim(w) ==
    /\ moving # <<>> /\ w \in Head(moving) \ (tried \cup failed)
    /\ \/ /\ channel < ChanBufLen
          /\ channel' = channel + 1
          /\ sent' = [sent EXCEPT ![w] = @ \o watcher[w].batch]
          /\ tried' = tried \cup {w}
          /\ UNCHANGED failed
       \/ /\ channel = ChanBufLen
          /\ failed' = failed \cup {w}
          /\ UNCHANGED <<channel, sent, tried>>
    /\ UNCHANGED <<store, watcher, victims, moving, excused, count>>

\* Mutant of AssignVictims: what was written meanwhile is not looked at.
AssignVictimsSynced ==
    /\ moving # <<>> /\ Head(moving) \subseteq tried \cup failed
    /\ watcher' = [w \in Watcher |-> IF w \notin tried THEN watcher[w]
            ELSE [watcher[w] EXCEPT !.victim = FALSE, !.batch = <<>>, !.moreRev = 0,
                                    !.group = "synced"]]
    /\ moving' = Tail(moving) /\ tried' = {}
    /\ UNCHANGED <<store, victims, failed, channel, sent, excused, count>>

AssignVictims ==
    /\ moving # <<>> /\ Head(moving) \subseteq tried \cup failed
    /\ watcher' = [w \in Watcher |->
            LET i   == watcher[w]
                min == IF i.moreRev # 0 THEN i.moreRev ELSE i.minRev
            IN  IF w \notin tried THEN i
                ELSE [i EXCEPT !.victim = FALSE, !.batch = <<>>, !.moreRev = 0, !.minRev = min,
                               !.group = IF min <= currentRev THEN "unsynced" ELSE "synced"]]
    /\ moving' = Tail(moving) /\ tried' = {}
    /\ UNCHANGED <<store, victims, failed, channel, sent, excused, count>>

\* Mutant of RequeueVictims: they are forgotten.
RequeueVictimsNot ==
    /\ moving = <<>> /\ failed # {}
    /\ failed' = {}
    /\ UNCHANGED <<store, watcher, victims, moving, tried, channel, sent, excused, count>>

RequeueVictims ==
    /\ moving = <<>> /\ failed # {}
    /\ victims' = Append(victims, failed) /\ failed' = {}
    /\ UNCHANGED <<store, watcher, moving, tried, channel, sent, excused, count>>

moveVictims ==
    TakeVictims \/ (\E w \in Watcher : SendVictim(w)) \/ AssignVictims \/ RequeueVictims

----------------------------------------------------------------------------
Next ==
    \/ \E w \in Watcher : cancelWatcher(w) \/ \E r \in 2..currentRev + 2 : watch(w, r)
    \/ Receive \/ RequestProgressAll
    \/ \E t \in Txns : Write(t) \/ \E r \in {compactRev, currentRev} : Restore(t, r)
    \/ \E r \in 1..currentRev : Compact(r)
    \/ scheduleCompaction
    \/ \E S \in SUBSET Watcher : syncWatchers(S)
    \/ moveVictims

\* The client reads its stream, the loops run, and the order of a map is random: every
\* watcher is chosen some time.
Fairness ==
    /\ WF_vars(Receive) /\ WF_vars(moveVictims)
    /\ \A w \in Watcher : WF_vars(\E S \in SUBSET Watcher : w \in S /\ syncWatchers(S))

Spec == Init /\ [][Next]_vars /\ Fairness

----------------------------------------------------------------------------
(* Properties *)

Event == (1..MaxRev) \X (SUBSET Key)

\* Watchers, batches and channel have their types.
TypeOK ==
    /\ history \in Seq(Txns) /\ currentRev <= MaxRev
    /\ stored \subseteq (1..MaxRev) \X Key /\ compactRev \in -1..MaxRev
    /\ \A w \in Watcher :
        /\ watcher[w].group \in {"none", "synced", "unsynced", "victim", "compacted", "cancelled"}
        /\ watcher[w].minRev \in 0..MaxRev + 2 /\ watcher[w].batch \in Seq(Event)
        /\ sent[w] \in Seq(Event)
    /\ \A i \in DOMAIN victims : victims[i] \subseteq Watcher
    /\ \A i \in DOMAIN moving : moving[i] \subseteq Watcher
    /\ tried \subseteq Watcher /\ failed \subseteq Watcher
    /\ channel \in 0..ChanBufLen

\* What a watcher is to see of the history.
Due(w) ==
    Events(UNION {Changes(history[i], i + 1) : i \in DOMAIN history},
           watcher[w].start..currentRev, KeysOf[w])

Active(w) == watcher[w].group \notin {"none", "cancelled"} /\ ~watcher[w].compacted

\* A watcher gets the events of its keys from its first revision on: all, once and in
\* order, whichever way they come: notified, read from the backend, or sent again.
EventsInOrder == \A w \in Watcher \ excused : Active(w) => IsPrefix(sent[w], Due(w))

\* A synced watcher has all of them, so that the next write may be put after them, and
\* an empty response may say that there are no more.
SyncedHasAll == \A w \in synced \ excused : Active(w) => sent[w] = Due(w)

\* No panic is reached: a watcher ahead of the store was put back by a restore, and one
\* that is in no group is a victim that is in exactly one batch.
NoPanic ==
    \A w \in Watcher \ excused :
        LET i == watcher[w]
            batches == {<<"v", n>> : n \in {n \in DOMAIN victims : w \in victims[n]}}
                \cup {<<"m", n>> : n \in {n \in DOMAIN moving : w \in moving[n] \ failed}}
                \cup {<<"f", n>> : n \in {n \in {0} : w \in failed}}
        IN  /\ i.group = "unsynced" /\ i.minRev > currentRev => i.restore
            /\ i.victim <=> i.group = "victim"
            /\ Cardinality(batches) = IF i.group = "victim" THEN 1 ELSE 0

\* Every watcher is synced some time, although the channel fills and watchers share it,
\* unless it is cancelled or told that it is too late.
WatchersCatchUp ==
    \A w \in Watcher : Active(w) ~> (~Active(w) \/ w \in synced)

=============================================================================
