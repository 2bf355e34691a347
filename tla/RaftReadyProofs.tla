---------------------------- MODULE RaftReadyProofs ----------------------------
(***************************************************************************)
(* What the Ready/Advance cycle of RaftReady keeps on disk, for every      *)
(* value of the constants: the votes that are sent, and the entries that   *)
(* are applied.                                                            *)
(*                                                                         *)
(* Entries reach the applier before a save only if they are stable, which  *)
(* shouldWaitWALSync finds out by comparing terms; that takes logs whose   *)
(* terms never decrease.  A save that a crash cuts short leaves entries    *)
(* of terms that the hard state has not reached, so the leader of a term   *)
(* has no later entry only because it could not have won: terms of entries *)
(* were won (Won), by voters that have it on disk and refuse earlier ones. *)
(***************************************************************************)
EXTENDS RaftReady, RaftStepProofs

\* No server wins an election alone: one that does leads before its term is on disk.
Several == \A s \in Server : ~Wins(s, {s})

-----------------------------------------------------------------------------
\* Types

HardState == [Term : Nat, Vote : Server \cup {None}, Commit : Nat]

AllTasks == {"save", "apply", "send"}

Orders == {Tasks(TRUE, FALSE), Tasks(FALSE, FALSE), Tasks(FALSE, TRUE)}

Readies == [first : Nat \ {0}, entries : Seq(Entry), committed : Seq(Entry),
            hard : HardState, msgs : SUBSET Message, todo : SUBSET AllTasks,
            tasks : Orders]

TypesInv ==
    /\ node = [s \in Server |-> node[s]]
    /\ \A s \in Server : Typed(node[s]) /\ node[s].id = s /\ node[s].msgs = {}
    /\ outbox \in [Server -> SUBSET Message]
    /\ offset \in [Server -> Nat \ {0}] /\ applied \in [Server -> Nat]
    /\ prevHardSt \in [Server -> HardState]
    /\ storage \in [Server -> Seq(Entry)]
    /\ ready \in [Server -> {NoReady} \cup Readies]
    /\ wal \in [Server -> [hard : HardState, log : Seq(Entry)]]
    /\ net \in SUBSET Message
    /\ delivered \in [Server -> Seq(Entry)] /\ decided \in Seq(Entry)
    /\ timeouts \in [Server -> Nat] /\ crashes \in [Server -> Nat]
    /\ \A s \in Server : timeouts[s] <= MaxTimeouts[s] /\ crashes[s] <= MaxCrashes[s]

-----------------------------------------------------------------------------
\* Hard states and what they bind a server to

\* With h on disk a server gives no other vote of term t than one to c.
Bound(h, t, c) == h.Term > t \/ (h.Term = t /\ h.Vote = c)

\* g is a later hard state than h, of the same server.
Later(h, g) == g.Term > h.Term \/ (g.Term = h.Term /\ (h.Vote = None \/ g.Vote = h.Vote))

SameVote(h, g) == g.Term = h.Term /\ g.Vote = h.Vote

\* h stands for what m promises: the vote that is given, the candidate's own.
Pledged(h, m) ==
    /\ Grant(m) => Bound(h, m.term, m.to)
    /\ m.type = "MsgVote" => Bound(h, m.term, m.from)

\* An election of term t was won, by voters that are bound to it.
Won(t) ==
    \E c \in Server, Q \in SUBSET Server :
        Wins(c, Q) /\ \A z \in Q : Bound(wal[z].hard, t, c)

\* The terms of the log x do not decrease, and were won.
Good(x) == Rising(x) /\ \A i \in 1..Len(x) : Won(x[i].term)

\* The messages that exist: sent, about to be sent, or in an outbox.
Handled(s) == IF ready[s] = NoReady THEN {} ELSE ready[s].msgs
Issued == net \cup UNION {outbox[s] \cup Handled(s) : s \in Server}

\* The servers that may have given s the vote of its term.
Polled(s) ==
    {s} \cup node[s].yes
        \cup {m.from : m \in {n \in Issued : Grant(n) /\ n.to = s /\ n.term = node[s].Term}}

\* The disk follows the node, and what leaves the node binds it; what is sent binds the
\* disk, unless the save comes first.
HardInv(s) ==
    LET h  == wal[s].hard
        g  == Hard(node[s])
        rd == ready[s]
    IN  /\ Later(h, g)
        /\ \A m \in outbox[s] : m.from = s /\ Pledged(g, m)
        /\ rd = NoReady => SameVote(prevHardSt[s], h)
        /\ rd # NoReady =>
            /\ Later(h, rd.hard) /\ Later(rd.hard, g)
            /\ "save" \notin rd.todo => SameVote(rd.hard, h)
            /\ \A m \in rd.msgs :
                /\ m.from = s /\ Pledged(rd.hard, m)
                /\ Pledged(h, m) \/ ("save" \in rd.todo /\ rd.tasks # Tasks(TRUE, FALSE))

\* What exists was sent by the rules, and a vote to one that is bound to the term.
MsgInv(m) ==
    /\ Sound(m) /\ Proper(m)
    /\ m.type = "MsgApp" => \A i \in 1..Len(m.entries) : Won(m.entries[i].term)
    /\ Grant(m) => Bound(wal[m.to].hard, m.term, m.to)

\* A candidate that has entries of a later term cannot win: the voters of that term
\* neither gave it a vote nor will.
Barred(s, t) ==
    \E c \in Server, Q \in SUBSET Server :
        Wins(c, Q) /\ \A z \in Q : Bound(wal[z].hard, t, c) /\ z \notin Polled(s)

\* Votes are counted that are on disk; a leader won its term, and no later entry is
\* in its log.
ElectInv(s) ==
    LET r == node[s]
        h == wal[s].hard
    IN  ~r.panic =>
        /\ r.state \in {Candidate, Leader} => r.Vote = s
        /\ r.state = Candidate =>
            /\ \A z \in r.yes \ {s} : Bound(wal[z].hard, r.Term, s) /\ Bound(h, r.Term, s)
            /\ LastTerm(r.log) > r.Term => Barred(s, LastTerm(r.log))
        /\ r.state = Leader =>
            Bound(h, r.Term, s) /\ Won(r.Term) /\ LastTerm(r.log) <= r.Term

-----------------------------------------------------------------------------
\* Logs

\* Storage, once the Ready under way is done.
Ahead(s) == IF ready[s] = NoReady THEN storage[s] ELSE Appended(storage[s], ready[s])

\* How many entries were handed to the applier, and how many will be.
Handed(s) ==
    applied[s] + (IF ready[s] = NoReady \/ "apply" \in ready[s].todo THEN 0
                  ELSE Len(ready[s].committed))
Promised(s) == applied[s] + (IF ready[s] = NoReady THEN 0 ELSE Len(ready[s].committed))

\* What is on disk is what storage has, or will have, and holds what was applied.
DiskInv(s) ==
    /\ Good(storage[s]) /\ Good(Ahead(s))
    /\ ready[s] # NoReady => s \in Slow /\ ready[s].first - 1 <= Len(storage[s])
    /\ wal[s].log = IF ready[s] = NoReady \/ "save" \in ready[s].todo THEN storage[s]
                    ELSE Ahead(s)
    /\ Agrees(delivered[s], wal[s].log, Len(delivered[s]))
    /\ offset[s] <= Len(node[s].log) + 1 /\ applied[s] <= node[s].committed

\* The log of a node is what storage has below the offset; what it commits stays on the
\* way from the log through the Ready to the disk and to the applier.
LocalInv(s) ==
    LET x  == node[s].log
        rd == ready[s]
    IN  ~node[s].panic =>
        /\ Whole(node[s]) /\ Good(x)
        /\ Agrees(storage[s], x, offset[s] - 1)
        /\ Len(delivered[s]) = Handed(s)
        /\ Agrees(delivered[s], x, Handed(s)) /\ Agrees(wal[s].log, x, Handed(s))
        /\ Promised(s) <= node[s].committed /\ Agrees(Ahead(s), x, Promised(s))
        /\ rd # NoReady =>
            /\ offset[s] <= rd.first
            /\ \A i \in 1..Len(rd.committed) : rd.committed[i] = x[applied[s] + i]
            /\ rd.tasks[1] # "save" \/ "save" \notin rd.todo => Agrees(wal[s].log, x, Promised(s))

\* The inductive invariant.
ReadyInv ==
    /\ TypesInv
    /\ \A m \in Issued : MsgInv(m)
    /\ \A m \in net : Pledged(wal[m.from].hard, m)
    /\ \A s \in Server : HardInv(s) /\ ElectInv(s) /\ DiskInv(s) /\ LocalInv(s)

-----------------------------------------------------------------------------
\* Types at one server

\* What TypesInv says of a server.
TypesOf(s) ==
    /\ Typed(node[s]) /\ node[s].id = s /\ node[s].msgs = {}
    /\ node[s].Term \in Nat /\ node[s].log \in Seq(Entry) /\ node[s].committed \in Nat
    /\ Len(node[s].log) \in Nat /\ node[s].yes \in SUBSET Server
    /\ Hard(node[s]) \in HardState
    /\ outbox[s] \in SUBSET Message /\ offset[s] \in Nat /\ offset[s] # 0 /\ applied[s] \in Nat
    /\ prevHardSt[s] \in HardState
    /\ storage[s] \in Seq(Entry) /\ Len(storage[s]) \in Nat
    /\ ready[s] = NoReady \/ ready[s] \in Readies
    /\ wal[s] = [hard |-> wal[s].hard, log |-> wal[s].log]
    /\ wal[s].hard \in HardState /\ wal[s].log \in Seq(Entry) /\ Len(wal[s].log) \in Nat
    /\ delivered[s] \in Seq(Entry) /\ Len(delivered[s]) \in Nat

Typing == \A s \in Server : TypesOf(s)

LEMMA TypeFacts == TypesInv => Typing
<1> SUFFICES ASSUME TypesInv, NEW s \in Server PROVE TypesOf(s)
  BY DEF Typing
<1>1. Typed(node[s]) /\ node[s].id = s /\ node[s].msgs = {}
  BY DEF TypesInv
<1>2. /\ node[s].Term \in Nat /\ node[s].log \in Seq(Entry) /\ node[s].committed \in Nat
      /\ node[s].yes \in SUBSET Server /\ node[s].Vote \in Server \cup {None}
  BY <1>1 DEF Typed, Raft
<1>3. Hard(node[s]) \in HardState
  BY <1>2 DEF Hard, HardState
<1>4. /\ outbox[s] \in SUBSET Message /\ offset[s] \in Nat /\ offset[s] # 0 /\ applied[s] \in Nat
      /\ prevHardSt[s] \in HardState /\ storage[s] \in Seq(Entry)
      /\ ready[s] = NoReady \/ ready[s] \in Readies
      /\ delivered[s] \in Seq(Entry)
  BY DEF TypesInv
<1>5. wal[s] \in [hard : HardState, log : Seq(Entry)]
  BY DEF TypesInv
<1>6. Len(node[s].log) \in Nat /\ Len(storage[s]) \in Nat /\ Len(wal[s].log) \in Nat
      /\ Len(delivered[s]) \in Nat
  BY <1>2, <1>4, <1>5, LenProperties
<1>7. QED BY <1>1, <1>2, <1>3, <1>4, <1>5, <1>6 DEF TypesOf

LEMMA TypeFactsNext == TypesInv' => Typing'
BY TypeFacts, PTL

\* The fields of a Ready.
LEMMA ReadyFacts ==
    ASSUME NEW rd \in Readies
    PROVE  /\ rd # NoReady
           /\ rd.first \in Nat /\ rd.first # 0 /\ rd.entries \in Seq(Entry)
           /\ rd.committed \in Seq(Entry) /\ rd.hard \in HardState /\ rd.msgs \in SUBSET Message
           /\ rd.todo \in SUBSET AllTasks
           /\ Len(rd.entries) \in Nat /\ Len(rd.committed) \in Nat
           /\ rd.tasks \in {<<"save", "apply", "send">>, <<"apply", "send", "save">>,
                            <<"apply", "save", "send">>}
<1>1. /\ rd.first \in Nat /\ rd.first # 0 /\ rd.entries \in Seq(Entry)
      /\ rd.committed \in Seq(Entry) /\ rd.hard \in HardState /\ rd.msgs \in SUBSET Message
      /\ rd.todo \in SUBSET AllTasks
      /\ rd.tasks \in Orders
  BY DEF Readies
<1>2. Len(rd.entries) \in Nat /\ Len(rd.committed) \in Nat
  BY <1>1, LenProperties
<1>3. rd.tasks \in {<<"save", "apply", "send">>, <<"apply", "send", "save">>,
                    <<"apply", "save", "send">>}
  BY <1>1 DEF Tasks, Orders
<1>4. rd # NoReady
  <2>1. NoReady.todo = {"none"}
    BY DEF NoReady
  <2>2. "none" \notin rd.todo
    BY <1>1 DEF AllTasks
  <2>3. QED BY <2>1, <2>2
<1>5. QED BY <1>1, <1>2, <1>3, <1>4

\* The order in which the loop does what there is to do.
LEMMA DoesFacts ==
    ASSUME NEW s \in Server, ready[s] = NoReady \/ ready[s] \in Readies, NEW task \in AllTasks, Does(s, task)
    PROVE  LET rd == ready[s]
           IN  /\ rd \in Readies /\ rd # NoReady /\ task \in rd.todo
               /\ task = "apply" => rd.tasks[1] # "save" \/ "save" \notin rd.todo
               /\ task = "send" => "save" \notin rd.todo \/ rd.tasks = Tasks(TRUE, FALSE)
<1> DEFINE rd == ready[s]
<1>1. rd \in Readies /\ task \in rd.todo
  <2>1. NoReady.todo = {"none"}
    BY DEF NoReady
  <2>2. QED BY <2>1 DEF Does, AllTasks
<1>2. rd # NoReady
  BY <1>1, ReadyFacts
<1>3. Tasks(TRUE, FALSE) = <<"apply", "send", "save">>
  BY DEF Tasks
<1>4. PICK i \in 1..3 : rd.tasks[i] = task /\ \A j \in 1..(i - 1) : rd.tasks[j] \notin rd.todo
  BY DEF Does
<1> DEFINE ts == rd.tasks
<1> HIDE DEF rd
<1>5. CASE ts = <<"save", "apply", "send">>
  <2>1. ts[1] = "save" /\ ts[2] = "apply" /\ ts[3] = "send"
    BY <1>5
  <2> HIDE DEF ts
  <2>2. task # "save" => i # 1
    BY <1>4, <2>1 DEF ts
  <2>3. i # 1 => 1 \in 1..(i - 1)
    OBVIOUS
  <2>4. task # "save" => "save" \notin rd.todo
    BY <1>4, <2>1, <2>2, <2>3 DEF ts
  <2>5. QED BY <1>1, <1>2, <2>4 DEF rd
<1>6. CASE ts = <<"apply", "send", "save">>
  <2>1. ts[1] = "apply"
    BY <1>6
  <2>2. QED BY <1>1, <1>2, <1>3, <1>6, <2>1 DEF rd
<1>7. CASE ts = <<"apply", "save", "send">>
  <2>1. ts[1] = "apply" /\ ts[2] = "save" /\ ts[3] = "send"
    BY <1>7
  <2> HIDE DEF ts
  <2>2. task = "send" => i = 3
    BY <1>4, <2>1 DEF ts
  <2>3. i = 3 => 2 \in 1..(i - 1)
    OBVIOUS
  <2>4. task = "send" => "save" \notin rd.todo
    BY <1>4, <2>1, <2>2, <2>3 DEF ts
  <2>5. QED BY <1>1, <1>2, <2>1, <2>4 DEF rd, ts
<1>8. ts \in {<<"save", "apply", "send">>, <<"apply", "send", "save">>, <<"apply", "save", "send">>}
  BY <1>1, ReadyFacts
<1>9. QED BY <1>5, <1>6, <1>7, <1>8

-----------------------------------------------------------------------------
\* Hard states

\* A promise binds the server from then on.
LEMMA BoundLater ==
    ASSUME NEW h \in HardState, NEW g \in HardState, Later(h, g),
           NEW t \in Nat, NEW c \in Server, Bound(h, t, c)
    PROVE  Bound(g, t, c)
<1>1. h.Term \in Nat /\ g.Term \in Nat /\ c # None
  BY CoreAssumption DEF HardState
<1>2. QED BY <1>1 DEF Bound, Later

LEMMA LaterOn ==
    ASSUME NEW h \in HardState, NEW g \in HardState, NEW k \in HardState,
           Later(h, g), Later(g, k)
    PROVE  Later(h, k)
<1>1. h.Term \in Nat /\ g.Term \in Nat /\ k.Term \in Nat
  BY DEF HardState
<1>2. QED BY <1>1 DEF Later

LEMMA PledgedLater ==
    ASSUME NEW h \in HardState, NEW g \in HardState, Later(h, g), NEW m \in Message, Pledged(h, m)
    PROVE  Pledged(g, m)
<1>1. m.term \in Nat /\ m.to \in Server /\ m.from \in Server
  BY DEF Message
<1>2. QED BY <1>1, BoundLater DEF Pledged

\* The same vote binds to the same.
LEMMA SameVoteLater ==
    ASSUME NEW h, NEW g, SameVote(h, g)
    PROVE  /\ Later(h, g) /\ Later(g, h)
           /\ \A m : Pledged(h, m) => Pledged(g, m)
BY DEF SameVote, Later, Pledged, Bound

\* The hard states on disk go on.
DisksGo ==
    \A z \in Server : /\ wal[z].hard \in HardState /\ wal'[z].hard \in HardState
                      /\ Later(wal[z].hard, wal'[z].hard)

LEMMA WonOn ==
    ASSUME DisksGo, NEW t \in Nat, Won(t)
    PROVE  Won(t)'
<1>1. PICK c \in Server, Q \in SUBSET Server :
        Wins(c, Q) /\ \A z \in Q : Bound(wal[z].hard, t, c)
  BY DEF Won
<1>2. ASSUME NEW z \in Q PROVE Bound(wal'[z].hard, t, c)
  <2>1. /\ wal[z].hard \in HardState /\ wal'[z].hard \in HardState
        /\ Later(wal[z].hard, wal'[z].hard)
    BY DEF DisksGo
  <2>2. Bound(wal[z].hard, t, c)
    BY <1>1
  <2>3. QED BY <2>1, <2>2, BoundLater
<1>3. Wins(c, Q) /\ \A z \in Q : Bound(wal'[z].hard, t, c)
  BY <1>1, <1>2
<1>4. QED BY <1>3 DEF Won

LEMMA GoodOn ==
    ASSUME DisksGo, NEW x \in Seq(Entry), Good(x)
    PROVE  Good(x)'
<1>1. ASSUME NEW i \in 1..Len(x) PROVE Won(x[i].term)'
  <2>1. x[i].term \in Nat
    <3>1. x[i] \in Entry
      BY ElementOfSeq
    <3>2. QED BY <3>1 DEF Entry
  <2>2. Won(x[i].term)
    BY DEF Good
  <2>3. QED BY <2>1, <2>2, WonOn
<1>2. Rising(x)'
  BY DEF Good, Rising
<1>3. QED BY <1>1, <1>2 DEF Good

\* What was said of a message goes on to hold.
LEMMA MessageOn ==
    ASSUME DisksGo, NEW m \in Message, MsgInv(m)
    PROVE  MsgInv(m)'
<1>1. Sound(m)' /\ Proper(m)'
  BY DEF MsgInv, Sound, Proper, Rising
<1>2. ASSUME m.type = "MsgApp", NEW i \in 1..Len(m.entries) PROVE Won(m.entries[i].term)'
  <2>1. m.entries \in Seq(Entry)
    BY DEF Message
  <2>2. m.entries[i].term \in Nat
    <3>1. m.entries[i] \in Entry
      BY <2>1, ElementOfSeq
    <3>2. QED BY <3>1 DEF Entry
  <2>3. Won(m.entries[i].term)
    BY <1>2 DEF MsgInv
  <2>4. QED BY <2>2, <2>3, WonOn
<1>3. ASSUME Grant(m) PROVE Bound(wal'[m.to].hard, m.term, m.to)
  <2>1. m.to \in Server /\ m.term \in Nat
    BY DEF Message
  <2>2. Bound(wal[m.to].hard, m.term, m.to)
    BY <1>3 DEF MsgInv
  <2>3. QED BY <2>1, <2>2, BoundLater DEF DisksGo
<1>4. QED BY <1>1, <1>2, <1>3 DEF MsgInv, Grant

LEMMA PledgeOn ==
    ASSUME DisksGo, NEW m \in Message, Pledged(wal[m.from].hard, m)
    PROVE  Pledged(wal'[m.from].hard, m)
<1>1. m.from \in Server
  BY DEF Message
<1>2. QED BY <1>1, PledgedLater DEF DisksGo

-----------------------------------------------------------------------------
\* The servers that a step leaves alone

SameAt(z) ==
    /\ node'[z] = node[z] /\ outbox'[z] = outbox[z] /\ offset'[z] = offset[z]
    /\ applied'[z] = applied[z] /\ prevHardSt'[z] = prevHardSt[z] /\ storage'[z] = storage[z]
    /\ ready'[z] = ready[z] /\ wal'[z] = wal[z] /\ delivered'[z] = delivered[z]

LEMMA OthersOn ==
    ASSUME TypesInv, DisksGo, NEW z \in Server, SameAt(z),
           HardInv(z), DiskInv(z), LocalInv(z), Ahead(z) \in Seq(Entry)
    PROVE  HardInv(z)' /\ DiskInv(z)' /\ LocalInv(z)'
<1>1. TypesOf(z)
  BY TypeFacts DEF Typing
<1>2. Ahead(z)' = Ahead(z) /\ Handed(z)' = Handed(z) /\ Promised(z)' = Promised(z)
  BY DEF SameAt, Ahead, Handed, Promised
<1>3. HardInv(z)'
  BY DEF SameAt, HardInv
<1>4. DiskInv(z)'
  <2>1. Good(storage[z])' /\ Good(Ahead(z))'
    <3>1. Good(storage[z]) /\ Good(Ahead(z)) /\ storage[z] \in Seq(Entry)
      BY <1>1 DEF DiskInv, TypesOf
    <3>2. \A x \in Seq(Entry) : Good(x) => Good(x)'
      BY GoodOn
    <3>3. QED BY <1>2, <3>1, <3>2 DEF SameAt
  <2>2. QED BY <1>2, <2>1 DEF SameAt, DiskInv
<1>5. LocalInv(z)'
  <2>1. ~node[z].panic => Good(node[z].log)'
    <3>1. node[z].log \in Seq(Entry) /\ (~node[z].panic => Good(node[z].log))
      BY <1>1 DEF LocalInv, TypesOf
    <3>2. \A x \in Seq(Entry) : Good(x) => Good(x)'
      BY GoodOn
    <3>3. QED BY <3>1, <3>2 DEF SameAt
  <2>2. QED BY <1>2, <2>1 DEF SameAt, LocalInv
<1>6. QED BY <1>3, <1>4, <1>5

\* Grants that are new are of a term no earlier than the one their sender has on disk.
NewGrants ==
    \A n \in Issued' : Grant(n) => n \in Issued \/ wal[n.from].hard.Term <= n.term

\* A node that an election does not see change.
SameRole(z) ==
    LET r == node[z]
        q == node'[z]
    IN  /\ q.panic = r.panic /\ q.state = r.state /\ q.Term = r.Term /\ q.Vote = r.Vote
        /\ q.yes = r.yes /\ LastTerm(q.log) = LastTerm(r.log)

LEMMA LastTermType ==
    ASSUME NEW x \in Seq(Entry)
    PROVE  LastTerm(x) \in Nat
<1>1. Len(x) \in Nat
  BY LenProperties
<1>2. CASE Len(x) = 0
  BY <1>2 DEF LastTerm, termAt
<1>3. CASE Len(x) # 0
  <2>1. Len(x) \in 1..Len(x)
    BY <1>1, <1>3
  <2>2. x[Len(x)] \in Entry
    BY <2>1, ElementOfSeq
  <2>3. QED BY <2>1, <2>2 DEF LastTerm, termAt, Entry
<1>4. QED BY <1>2, <1>3

LEMMA BarredOn ==
    ASSUME DisksGo, NewGrants, Issued' \subseteq Message, NEW z \in Server,
           node'[z].Term = node[z].Term, node'[z].yes = node[z].yes, node[z].Term \in Nat,
           NEW t \in Nat, t > node[z].Term, Barred(z, t)
    PROVE  Barred(z, t)'
<1> DEFINE T == node[z].Term
<1>1. PICK c \in Server, Q \in SUBSET Server :
        Wins(c, Q) /\ \A y \in Q : Bound(wal[y].hard, t, c) /\ y \notin Polled(z)
  BY DEF Barred
<1>2. ASSUME NEW y \in Q PROVE Bound(wal'[y].hard, t, c) /\ y \notin Polled(z)'
  <2>1. /\ wal[y].hard \in HardState /\ wal'[y].hard \in HardState
        /\ Later(wal[y].hard, wal'[y].hard)
    BY DEF DisksGo
  <2>2. Bound(wal[y].hard, t, c) /\ y \notin Polled(z)
    BY <1>1
  <2>3. Bound(wal'[y].hard, t, c)
    BY <2>1, <2>2, BoundLater
  <2>4. wal[y].hard.Term >= t /\ wal[y].hard.Term \in Nat
    BY <2>1, <2>2 DEF Bound, HardState
  <2>5. ASSUME NEW n \in Issued', Grant(n), n.to = z, n.term = T, n.from = y PROVE FALSE
    <3>1. CASE n \in Issued
      BY <2>2, <2>5, <3>1 DEF Polled
    <3>2. CASE wal[n.from].hard.Term <= n.term
      BY <2>4, <2>5, <3>2
    <3>3. QED BY <2>5, <3>1, <3>2 DEF NewGrants
  <2>6. y \notin Polled(z)'
    <3>1. y # z /\ y \notin node[z].yes
      BY <2>2 DEF Polled
    <3>2. QED BY <2>5, <3>1 DEF Polled
  <2>7. QED BY <2>3, <2>6
<1>3. Wins(c, Q) /\ \A y \in Q : Bound(wal'[y].hard, t, c) /\ y \notin Polled(z)'
  BY <1>1, <1>2
<1>4. QED BY <1>3 DEF Barred

LEMMA ElectOn ==
    ASSUME TypesInv, DisksGo, NewGrants, Issued' \subseteq Message, NEW z \in Server,
           SameRole(z), ElectInv(z)
    PROVE  ElectInv(z)'
<1> DEFINE r == node[z]
           t == LastTerm(r.log)
<1>1. TypesOf(z) /\ r.Term \in Nat /\ t \in Nat /\ r.yes \in SUBSET Server
  BY TypeFacts, LastTermType DEF Typing, TypesOf
<1>2. /\ node'[z].panic = r.panic /\ node'[z].state = r.state /\ node'[z].Term = r.Term
      /\ node'[z].Vote = r.Vote /\ node'[z].yes = r.yes /\ LastTerm(node'[z].log) = t
  BY DEF SameRole
<1>3. \A y \in Server : Bound(wal[y].hard, r.Term, z) => Bound(wal'[y].hard, r.Term, z)
  BY <1>1, BoundLater DEF DisksGo
<1>4. \A k \in Nat : k > r.Term /\ Barred(z, k) => Barred(z, k)'
  <2> TAKE k \in Nat
  <2> HAVE k > r.Term /\ Barred(z, k)
  <2>1. node'[z].Term = node[z].Term /\ node'[z].yes = node[z].yes /\ node[z].Term \in Nat
    BY <1>1, <1>2
  <2>2. QED BY <2>1, BarredOn
<1>5. \A k \in Nat : Won(k) => Won(k)'
  BY WonOn
<1>6. ASSUME ~r.panic, r.state = Candidate
      PROVE  /\ \A y \in r.yes \ {z} : Bound(wal'[y].hard, r.Term, z) /\ Bound(wal'[z].hard, r.Term, z)
             /\ \A k \in Nat : k = t /\ k > r.Term => Barred(z, k)'
  <2>1. /\ \A y \in r.yes \ {z} : Bound(wal[y].hard, r.Term, z) /\ Bound(wal[z].hard, r.Term, z)
        /\ t > r.Term => Barred(z, t)
    BY <1>6 DEF ElectInv
  <2>2. QED BY <1>1, <1>3, <1>4, <2>1
<1>7. ASSUME ~r.panic, r.state = Leader
      PROVE  /\ Bound(wal'[z].hard, r.Term, z) /\ t <= r.Term
             /\ \A k \in Nat : k = r.Term => Won(k)'
  <2>1. Bound(wal[z].hard, r.Term, z) /\ Won(r.Term) /\ t <= r.Term
    BY <1>7 DEF ElectInv
  <2>2. QED BY <1>1, <1>3, <1>5, <2>1
<1>8. ~r.panic /\ r.state \in {Candidate, Leader} => r.Vote = z
  BY DEF ElectInv
<1>9. node'[z].Term \in Nat /\ LastTerm(node'[z].log) \in Nat
  BY <1>1, <1>2
<1>10. ASSUME ~node'[z].panic
       PROVE  /\ node'[z].state \in {Candidate, Leader} => node'[z].Vote = z
              /\ node'[z].state = Candidate =>
                    /\ \A y \in node'[z].yes \ {z} :
                        Bound(wal'[y].hard, node'[z].Term, z) /\ Bound(wal'[z].hard, node'[z].Term, z)
                    /\ LastTerm(node'[z].log) > node'[z].Term => Barred(z, LastTerm(node[z].log))'
              /\ node'[z].state = Leader =>
                    Bound(wal'[z].hard, node'[z].Term, z) /\ Won(node[z].Term)'
                        /\ LastTerm(node'[z].log) <= node'[z].Term
  <2>1. ASSUME node'[z].state = Candidate
        PROVE  /\ \A y \in node'[z].yes \ {z} :
                    Bound(wal'[y].hard, node'[z].Term, z) /\ Bound(wal'[z].hard, node'[z].Term, z)
               /\ LastTerm(node'[z].log) > node'[z].Term => Barred(z, LastTerm(node[z].log))'
    BY <1>2, <1>6, <1>9, <1>10, <2>1
  <2>2. ASSUME node'[z].state = Leader
        PROVE  Bound(wal'[z].hard, node'[z].Term, z) /\ Won(node[z].Term)'
                    /\ LastTerm(node'[z].log) <= node'[z].Term
    BY <1>2, <1>7, <1>9, <1>10, <2>2
  <2>3. QED BY <1>2, <1>8, <1>10, <2>1, <2>2
<1>11. QED BY <1>10 DEF ElectInv

-----------------------------------------------------------------------------
\* Logs

\* What a log becomes when the entries of a Ready are appended.
LEMMA AppendedFacts ==
    ASSUME NEW x \in Seq(Entry), NEW rd \in Readies, rd.first - 1 <= Len(x)
    PROVE  LET y == Appended(x, rd)
           IN  /\ y \in Seq(Entry)
               /\ rd.entries = <<>> => y = x
               /\ rd.entries # <<>> =>
                    /\ Len(rd.entries) # 0
                    /\ Len(y) = rd.first - 1 + Len(rd.entries)
                    /\ \A i \in 1..Len(y) :
                         y[i] = IF i < rd.first THEN x[i] ELSE rd.entries[i - rd.first + 1]
               /\ Agrees(x, y, rd.first - 1)
<1> DEFINE f == rd.first - 1
           a == SubSeq(x, 1, f)
           e == rd.entries
           y == a \o e
<1>1. f \in Nat /\ f <= Len(x) /\ Len(x) \in Nat /\ e \in Seq(Entry) /\ Len(e) \in Nat
      /\ rd.first = f + 1 /\ (e # <<>> => Len(e) # 0)
  BY LenProperties, ReadyFacts, EmptySeq
<1> HIDE DEF f, e
<1>2. a \in Seq(Entry) /\ Len(a) = f /\ \A i \in 1..f : a[i] = x[i]
  <2>1. /\ a \in Seq(Entry) /\ Len(a) = f - 1 + 1
        /\ \A i \in 1..(f - 1 + 1) : a[i] = x[1 + i - 1]
    BY <1>1, PartOf
  <2> HIDE DEF a
  <2>2. QED BY <1>1, <2>1
<1> HIDE DEF a
<1>3. /\ y \in Seq(Entry) /\ Len(y) = f + Len(e)
      /\ \A i \in 1..(f + Len(e)) : y[i] = IF i <= f THEN a[i] ELSE e[i - f]
  BY <1>1, <1>2, ConcatProperties
<1> HIDE DEF y
<1>4. \A i \in 1..Len(y) : y[i] = IF i < rd.first THEN x[i] ELSE e[i - rd.first + 1]
  <2> TAKE i \in 1..Len(y)
  <2>1. CASE i <= f
    BY <1>1, <1>2, <1>3, <2>1
  <2>2. CASE ~(i <= f)
    <3>1. i - rd.first + 1 = i - f /\ ~(i < rd.first)
      BY <1>1, <1>3, <2>2
    <3>2. QED BY <1>1, <1>3, <2>2, <3>1
  <2>3. QED BY <2>1, <2>2
<1>5. Agrees(x, y, f)
  BY <1>1, <1>2, <1>3 DEF Agrees
<1>6. Agrees(x, x, f)
  BY <1>1 DEF Agrees
<1>7. Appended(x, rd) = IF e = <<>> THEN x ELSE y
  BY DEF Appended, e, y, a, f
<1>8. QED BY <1>1, <1>3, <1>4, <1>5, <1>6, <1>7 DEF f, e

\* A part of a good log is good.
LEMMA GoodPart ==
    ASSUME NEW x \in Seq(Entry), Good(x), NEW y \in Seq(Entry), Agrees(x, y, Len(y))
    PROVE  Good(y)
<1>1. Len(x) \in Nat /\ Len(y) \in Nat /\ Len(y) <= Len(x) /\ \A i \in 1..Len(y) : i \in 1..Len(x) /\ y[i] = x[i]
  BY LenProperties DEF Agrees
<1>2. ASSUME NEW i \in 1..Len(y), NEW j \in 1..i
      PROVE  y[i].term # 0 /\ y[j].term <= y[i].term
  <2>1. i \in 1..Len(x) /\ j \in 1..Len(y)
    BY <1>1
  <2>2. x[i].term # 0 /\ x[j].term <= x[i].term
    BY <2>1 DEF Good, Rising
  <2>3. QED BY <1>1, <2>1, <2>2
<1>3. \A i \in 1..Len(y) : i \in 1..i
  OBVIOUS
<1>4. Rising(y)
  BY <1>2, <1>3 DEF Rising
<1>5. \A i \in 1..Len(y) : Won(y[i].term)
  BY <1>1 DEF Good
<1>6. QED BY <1>4, <1>5 DEF Good

\* What a log holds up to where another agrees with it.
LEMMA AgreesOn ==
    ASSUME NEW x \in Seq(Entry), NEW y \in Seq(Entry), NEW z \in Seq(Entry), NEW i \in Int, NEW j \in Int,
           Agrees(x, y, i), Agrees(y, z, j), i <= j
    PROVE  Agrees(x, z, i)
<1>1. Len(x) \in Nat /\ Len(y) \in Nat /\ Len(z) \in Nat
  BY LenProperties
<1>2. QED BY <1>1 DEF Agrees

-----------------------------------------------------------------------------
\* One step of one server

Messages == Issued \subseteq Message

LEMMA IssuedMessages == TypesInv => Messages
<1> SUFFICES ASSUME TypesInv PROVE Issued \subseteq Message
  BY DEF Messages
<1>1. ASSUME NEW s \in Server PROVE outbox[s] \subseteq Message /\ Handled(s) \subseteq Message
  <2>1. TypesOf(s)
    BY TypeFacts DEF Typing
  <2>2. ready[s] \in Readies => ready[s].msgs \subseteq Message
    BY ReadyFacts
  <2>3. QED BY <2>1, <2>2 DEF TypesOf, Handled
<1>2. net \subseteq Message
  BY DEF TypesInv
<1>3. QED BY <1>1, <1>2 DEF Issued

LEMMA IssuedMessagesNext == TypesInv' => Messages'
BY IssuedMessages, PTL

LEMMA AheadType ==
    ASSUME TypesInv, NEW s \in Server, DiskInv(s)
    PROVE  /\ Ahead(s) \in Seq(Entry) /\ Len(Ahead(s)) \in Nat
           /\ Handed(s) \in Nat /\ Promised(s) \in Nat /\ Handed(s) <= Promised(s)
<1>1. TypesOf(s)
  BY TypeFacts DEF Typing
<1>2. CASE ready[s] = NoReady
  BY <1>1, <1>2 DEF Ahead, Handed, Promised, TypesOf
<1>3. CASE ready[s] # NoReady
  <2>1. ready[s] \in Readies /\ storage[s] \in Seq(Entry) /\ ready[s].first - 1 <= Len(storage[s])
        /\ applied[s] \in Nat
    BY <1>1, <1>3 DEF TypesOf, DiskInv
  <2>2. Appended(storage[s], ready[s]) \in Seq(Entry)
    BY <2>1, AppendedFacts
  <2>3. Len(ready[s].committed) \in Nat
    BY <2>1, ReadyFacts
  <2>4. Ahead(s) = Appended(storage[s], ready[s])
    BY <1>3 DEF Ahead
  <2>5. QED BY <1>3, <2>1, <2>2, <2>3, <2>4, LenProperties DEF Handed, Promised
<1>4. QED BY <1>2, <1>3

\* The servers other than s are left alone.
Only(s) == \A z \in Server \ {s} : SameAt(z)

LEMMA StepOn ==
    ASSUME ReadyInv, TypesInv', DisksGo, NewGrants, NEW s \in Server, Only(s),
           \A m \in Issued' : m \in Issued \/ MsgInv(m)',
           \A m \in net' : m \in net \/ Pledged(wal'[m.from].hard, m),
           HardInv(s)', ElectInv(s)', DiskInv(s)', LocalInv(s)'
    PROVE  ReadyInv'
<1>1. Issued \subseteq Message
  BY IssuedMessages DEF ReadyInv, Messages
<1>2. Issued' \subseteq Message
  BY IssuedMessagesNext DEF Messages
<1>3. ASSUME NEW m \in Issued' PROVE MsgInv(m)'
  <2>1. CASE m \in Issued
    <3>1. m \in Message /\ MsgInv(m)
      BY <1>1, <2>1 DEF ReadyInv
    <3>2. QED BY <3>1, MessageOn
  <2>2. QED BY <2>1
<1>4. ASSUME NEW m \in net' PROVE Pledged(wal'[m.from].hard, m)
  <2>1. CASE m \in net
    <3>1. m \in Message /\ Pledged(wal[m.from].hard, m)
      BY <2>1 DEF ReadyInv, TypesInv
    <3>2. QED BY <3>1, PledgeOn
  <2>2. QED BY <2>1
<1>5. ASSUME NEW z \in Server, z # s PROVE (HardInv(z) /\ ElectInv(z) /\ DiskInv(z) /\ LocalInv(z))'
  <2>1. SameAt(z)
    BY <1>5 DEF Only
  <2>2. TypesInv /\ HardInv(z) /\ ElectInv(z) /\ DiskInv(z) /\ LocalInv(z)
    BY DEF ReadyInv
  <2>3. Ahead(z) \in Seq(Entry)
    BY <2>2, AheadType
  <2>4. HardInv(z)' /\ DiskInv(z)' /\ LocalInv(z)'
    BY <2>1, <2>2, <2>3, OthersOn
  <2>5. SameRole(z)
    BY <2>1 DEF SameAt, SameRole
  <2>6. ElectInv(z)'
    BY <1>2, <2>2, <2>5, ElectOn
  <2>7. QED BY <2>4, <2>6
<1>6. ASSUME NEW z \in Server PROVE (HardInv(z) /\ ElectInv(z) /\ DiskInv(z) /\ LocalInv(z))'
  BY <1>5
<1>7. QED BY <1>3, <1>4, <1>6 DEF ReadyInv

\* A step that an election does not see.
LEMMA RoleOn ==
    ASSUME ReadyInv, TypesInv', DisksGo, NEW s \in Server, Only(s), Issued' \subseteq Issued,
           SameRole(s)
    PROVE  /\ NewGrants /\ ElectInv(s)'
           /\ \A m \in Issued' : m \in Issued \/ MsgInv(m)'
<1>1. NewGrants
  BY DEF NewGrants
<1>2. Issued \subseteq Message /\ TypesInv /\ ElectInv(s)
  BY IssuedMessages DEF ReadyInv, Messages
<1>3. ElectInv(s)'
  <2>1. Issued' \subseteq Message
    BY <1>2
  <2>2. QED BY <1>1, <1>2, <2>1, ElectOn
<1>4. QED BY <1>1, <1>3

\* A task that the loop has done.
LEMMA DoFacts ==
    ASSUME TypesInv, NEW s \in Server, NEW task \in AllTasks, Do(s, task)
    PROVE  LET rd == ready[s]
           IN  /\ ~node[s].panic /\ rd \in Readies /\ rd # NoReady /\ task \in rd.todo
               /\ task = "apply" => rd.tasks[1] # "save" \/ "save" \notin rd.todo
               /\ task = "send" => "save" \notin rd.todo \/ rd.tasks = Tasks(TRUE, FALSE)
               /\ ready' \in [Server -> {NoReady} \cup Readies]
               /\ \A z \in Server \ {s} : ready'[z] = ready[z]
               /\ ready'[s] # NoReady
               /\ ready'[s].first = rd.first /\ ready'[s].entries = rd.entries
               /\ ready'[s].committed = rd.committed /\ ready'[s].hard = rd.hard
               /\ ready'[s].msgs = rd.msgs /\ ready'[s].tasks = rd.tasks
               /\ ready'[s].todo = rd.todo \ {task}
               /\ \A x : Appended(x, ready'[s]) = Appended(x, rd)
<1> DEFINE rd == ready[s]
           qd == [rd EXCEPT !.todo = @ \ {task}]
<1>1. ready \in [Server -> {NoReady} \cup Readies] /\ (rd = NoReady \/ rd \in Readies)
  BY TypeFacts DEF TypesInv, Typing, TypesOf
<1>2. /\ rd \in Readies /\ rd # NoReady /\ task \in rd.todo
      /\ task = "apply" => rd.tasks[1] # "save" \/ "save" \notin rd.todo
      /\ task = "send" => "save" \notin rd.todo \/ rd.tasks = Tasks(TRUE, FALSE)
  BY <1>1, DoesFacts DEF Do
<1>0. rd.todo \ {task} \in SUBSET AllTasks
  BY <1>2, ReadyFacts
<1>3. /\ qd \in Readies
      /\ qd.first = rd.first /\ qd.entries = rd.entries
      /\ qd.committed = rd.committed /\ qd.hard = rd.hard
      /\ qd.msgs = rd.msgs /\ qd.tasks = rd.tasks /\ qd.todo = rd.todo \ {task}
  BY <1>0, <1>2 DEF Readies
<1>4. ready' = [ready EXCEPT ![s] = qd] /\ ~node[s].panic
  BY DEF Do
<1> HIDE DEF qd
<1>5. /\ ready'[s] = qd /\ \A z \in Server \ {s} : ready'[z] = ready[z]
      /\ ready' \in [Server -> {NoReady} \cup Readies]
  BY <1>1, <1>3, <1>4
<1>6. qd # NoReady
  BY <1>3, ReadyFacts
<1>7. \A x : Appended(x, qd) = Appended(x, rd)
  BY <1>3 DEF Appended
<1>8. QED BY <1>2, <1>3, <1>4, <1>5, <1>6, <1>7

\* No message is new.
LEMMA NothingNew ==
    ASSUME net' \subseteq Issued,
           \A z \in Server : outbox'[z] \subseteq Issued /\ Handled(z)' \subseteq Issued
    PROVE  Issued' \subseteq Issued
BY DEF Issued

LEMMA IssuedParts ==
    /\ net \subseteq Issued
    /\ \A z \in Server : outbox[z] \subseteq Issued /\ Handled(z) \subseteq Issued
BY DEF Issued

\* The disks stay as they are.
LEMMA DisksStay ==
    ASSUME TypesInv, wal' = wal
    PROVE  DisksGo
<1> SUFFICES ASSUME NEW z \in Server PROVE wal[z].hard \in HardState
  BY DEF DisksGo, Later
<1>1. QED BY TypeFacts DEF Typing, TypesOf

-----------------------------------------------------------------------------
\* The loop

\* Send: what goes out is bound to what is on disk.
LEMMA SendOn ==
    ASSUME ReadyInv, NEW s \in Server, Send(s)
    PROVE  ReadyInv'
<1> DEFINE rd == ready[s]
           qd == ready'[s]
<1>1. /\ TypesInv /\ HardInv(s) /\ ElectInv(s) /\ DiskInv(s) /\ LocalInv(s)
      /\ TypesOf(s) /\ "send" \in AllTasks
  BY TypeFacts DEF ReadyInv, Typing, AllTasks
<1>2. /\ Do(s, "send") /\ net' = net \cup rd.msgs
      /\ node' = node /\ outbox' = outbox /\ offset' = offset /\ applied' = applied
      /\ prevHardSt' = prevHardSt /\ storage' = storage /\ wal' = wal
      /\ delivered' = delivered /\ decided' = decided /\ timeouts' = timeouts /\ crashes' = crashes
  BY DEF Send, raft, count
<1>3. /\ ~node[s].panic /\ rd \in Readies /\ rd # NoReady /\ "send" \in rd.todo
      /\ "save" \notin rd.todo \/ rd.tasks = Tasks(TRUE, FALSE)
      /\ ready' \in [Server -> {NoReady} \cup Readies]
      /\ \A z \in Server \ {s} : ready'[z] = ready[z]
      /\ qd # NoReady
      /\ qd.first = rd.first /\ qd.entries = rd.entries
      /\ qd.committed = rd.committed /\ qd.hard = rd.hard
      /\ qd.msgs = rd.msgs /\ qd.tasks = rd.tasks
      /\ qd.todo = rd.todo \ {"send"}
      /\ \A x : Appended(x, qd) = Appended(x, rd)
  BY <1>1, <1>2, DoFacts
<1> HIDE DEF qd
<1>4. rd.msgs \in SUBSET Message
  BY <1>3, ReadyFacts
<1>5. TypesInv'
  BY <1>1, <1>2, <1>3, <1>4 DEF TypesInv
<1>6. DisksGo
  BY <1>1, <1>2, DisksStay
<1>7. Only(s)
  BY <1>2, <1>3 DEF Only, SameAt
<1>8. SameRole(s)
  BY <1>2 DEF SameRole
<1>9. Issued' \subseteq Issued
  <2>1. Handled(s) = rd.msgs
    BY <1>3 DEF Handled
  <2>2. ASSUME NEW z \in Server PROVE outbox'[z] \subseteq Issued /\ Handled(z)' \subseteq Issued
    <3>1. Handled(z)' = Handled(z)
      BY <1>3 DEF Handled, qd
    <3>2. QED BY <1>2, <3>1, IssuedParts
  <2>3. net' \subseteq Issued
    BY <1>2, <2>1, IssuedParts
  <2>4. QED BY <2>2, <2>3, NothingNew
<1>10. NewGrants /\ ElectInv(s)' /\ \A m \in Issued' : m \in Issued \/ MsgInv(m)'
  BY <1>5, <1>6, <1>7, <1>8, <1>9, RoleOn
<1>11. ASSUME NEW m \in net', m \notin net PROVE Pledged(wal'[m.from].hard, m)
  <2>1. m \in rd.msgs
    BY <1>2, <1>11
  <2>2. m.from = s /\ Pledged(wal[s].hard, m)
    BY <1>1, <1>3, <2>1 DEF HardInv
  <2>3. QED BY <1>2, <2>2
<1>12. HardInv(s)'
  BY <1>1, <1>2, <1>3 DEF HardInv, qd
<1>13. Ahead(s)' = Ahead(s) /\ Handed(s)' = Handed(s) /\ Promised(s)' = Promised(s)
  BY <1>2, <1>3 DEF Ahead, Handed, Promised, qd
<1>14. ASSUME NEW x PROVE Good(x)' <=> Good(x)
  BY <1>2 DEF Good, Won, Rising
<1>15. DiskInv(s)'
  <2>1. Good(storage[s])' /\ Good(Ahead(s))'
    BY <1>1, <1>2, <1>13, <1>14 DEF DiskInv
  <2>2. QED BY <1>1, <1>2, <1>3, <1>13, <2>1 DEF DiskInv, qd
<1>16. LocalInv(s)'
  <2>1. Good(node[s].log)'
    BY <1>1, <1>2, <1>3, <1>14 DEF LocalInv
  <2>2. QED BY <1>1, <1>2, <1>3, <1>13, <2>1 DEF LocalInv, qd
<1>17. QED BY <1>5, <1>6, <1>7, <1>10, <1>11, <1>12, <1>15, <1>16, StepOn

\* More entries of x, handed to the applier.
LEMMA DeliveredAgrees ==
    ASSUME NEW x \in Seq(Entry), NEW d \in Seq(Entry), NEW e \in Seq(Entry),
           Agrees(d, x, Len(d)), Len(d) + Len(e) <= Len(x),
           \A i \in 1..Len(e) : e[i] = x[Len(d) + i]
    PROVE  /\ d \o e \in Seq(Entry) /\ Len(d \o e) = Len(d) + Len(e)
           /\ Agrees(d \o e, x, Len(d) + Len(e))
<1> DEFINE y == d \o e
           n == Len(d)
           k == Len(e)
<1>1. n \in Nat /\ k \in Nat /\ Len(x) \in Nat
  BY LenProperties
<1>2. /\ y \in Seq(Entry) /\ Len(y) = n + k
      /\ \A i \in 1..(n + k) : y[i] = IF i <= n THEN d[i] ELSE e[i - n]
  BY ConcatProperties
<1> HIDE DEF y
<1>3. ASSUME NEW i \in 1..(n + k) PROVE y[i] = x[i]
  <2>1. CASE i <= n
    <3>1. i \in 1..n
      BY <1>1, <2>1
    <3>2. d[i] = x[i]
      BY <3>1 DEF Agrees
    <3>3. QED BY <1>2, <2>1, <3>2
  <2>2. CASE ~(i <= n)
    <3> DEFINE j == i - n
    <3>1. j \in 1..k /\ n + j = i
      BY <1>1, <2>2
    <3>2. e[j] = x[n + j]
      BY <3>1
    <3>3. QED BY <1>2, <2>2, <3>1, <3>2
  <2>3. QED BY <2>1, <2>2
<1>4. Agrees(y, x, n + k)
  BY <1>1, <1>2, <1>3 DEF Agrees
<1>5. QED BY <1>2, <1>4 DEF y

LEMMA DeliversFacts ==
    ASSUME TypesInv, NEW s \in Server, NEW ents \in Seq(Entry), Delivers(s, ents)
    PROVE  /\ delivered' \in [Server -> Seq(Entry)] /\ decided' \in Seq(Entry)
           /\ delivered'[s] = delivered[s] \o ents
           /\ \A z \in Server \ {s} : delivered'[z] = delivered[z]
<1>1. delivered \in [Server -> Seq(Entry)] /\ decided \in Seq(Entry)
  BY DEF TypesInv
<1>2. delivered[s] \o ents \in Seq(Entry)
  BY <1>1, ConcatProperties
<1>3. delivered' = [delivered EXCEPT ![s] = delivered[s] \o ents]
  BY DEF Delivers
<1>4. decided' = IF Len(delivered'[s]) > Len(decided) THEN delivered'[s] ELSE decided
  BY DEF Delivers
<1>5. QED BY <1>1, <1>2, <1>3, <1>4

\* Two logs that agree with a third.
LEMMA AgreesSame ==
    ASSUME NEW x, NEW y, NEW z, NEW i \in Int, Agrees(x, z, i), Agrees(y, z, i)
    PROVE  Agrees(x, y, i)
BY DEF Agrees

\* Apply: the entries are on disk.
LEMMA ApplyOn ==
    ASSUME ReadyInv, NEW s \in Server, Apply(s)
    PROVE  ReadyInv'
<1> DEFINE rd == ready[s]
           qd == ready'[s]
           x == node[s].log
           d == delivered[s]
           c == Promised(s)
<1>1. /\ TypesInv /\ HardInv(s) /\ ElectInv(s) /\ DiskInv(s) /\ LocalInv(s)
      /\ TypesOf(s) /\ "apply" \in AllTasks
  BY TypeFacts DEF ReadyInv, Typing, AllTasks
<1>2. /\ Do(s, "apply") /\ Delivers(s, rd.committed)
      /\ node' = node /\ outbox' = outbox /\ offset' = offset /\ applied' = applied
      /\ prevHardSt' = prevHardSt /\ storage' = storage /\ wal' = wal /\ net' = net
      /\ timeouts' = timeouts /\ crashes' = crashes
  BY DEF Apply, raft, count
<1>3. /\ ~node[s].panic /\ rd \in Readies /\ rd # NoReady /\ "apply" \in rd.todo
      /\ rd.tasks[1] # "save" \/ "save" \notin rd.todo
      /\ ready' \in [Server -> {NoReady} \cup Readies]
      /\ \A z \in Server \ {s} : ready'[z] = ready[z]
      /\ qd # NoReady
      /\ qd.first = rd.first /\ qd.entries = rd.entries
      /\ qd.committed = rd.committed /\ qd.hard = rd.hard
      /\ qd.msgs = rd.msgs /\ qd.tasks = rd.tasks
      /\ qd.todo = rd.todo \ {"apply"}
      /\ \A z : Appended(z, qd) = Appended(z, rd)
  BY <1>1, <1>2, DoFacts
<1> HIDE DEF qd
<1>4. rd.committed \in Seq(Entry) /\ Len(rd.committed) \in Nat
  BY <1>3, ReadyFacts
<1>5. /\ delivered' \in [Server -> Seq(Entry)] /\ decided' \in Seq(Entry)
      /\ delivered'[s] = d \o rd.committed
      /\ \A z \in Server \ {s} : delivered'[z] = delivered[z]
  BY <1>1, <1>2, <1>4, DeliversFacts
<1>6. TypesInv'
  BY <1>1, <1>2, <1>3, <1>5 DEF TypesInv
<1>7. DisksGo
  BY <1>1, <1>2, DisksStay
<1>8. Only(s)
  BY <1>2, <1>3, <1>5 DEF Only, SameAt
<1>9. SameRole(s)
  BY <1>2 DEF SameRole
<1>10. Issued' \subseteq Issued
  <2>1. ASSUME NEW z \in Server PROVE outbox'[z] \subseteq Issued /\ Handled(z)' \subseteq Issued
    <3>1. Handled(z)' = Handled(z)
      BY <1>3 DEF Handled, qd
    <3>2. QED BY <1>2, <3>1, IssuedParts
  <2>2. net' \subseteq Issued
    BY <1>2, IssuedParts
  <2>3. QED BY <2>1, <2>2, NothingNew
<1>11. NewGrants /\ ElectInv(s)' /\ \A m \in Issued' : m \in Issued \/ MsgInv(m)'
  BY <1>6, <1>7, <1>8, <1>9, <1>10, RoleOn
<1>12. HardInv(s)'
  BY <1>1, <1>2, <1>3 DEF HardInv, qd
<1>13. Handed(s) = applied[s] /\ c = applied[s] + Len(rd.committed)
  BY <1>1, <1>3 DEF Handed, Promised, TypesOf
<1>14. Ahead(s)' = Ahead(s) /\ Handed(s)' = c /\ Promised(s)' = c
  BY <1>2, <1>3, <1>13 DEF Ahead, Handed, Promised, qd
<1>15. /\ Len(d) = applied[s] /\ Agrees(d, x, Len(d)) /\ c <= Len(x) /\ c \in Nat
       /\ Agrees(wal[s].log, x, c)
       /\ \A i \in 1..Len(rd.committed) : rd.committed[i] = x[applied[s] + i]
  <2>1. /\ Len(d) = applied[s] /\ Agrees(d, x, Len(d)) /\ c <= node[s].committed
        /\ Whole(node[s]) /\ Agrees(wal[s].log, x, c)
        /\ \A i \in 1..Len(rd.committed) : rd.committed[i] = x[applied[s] + i]
    BY <1>1, <1>3, <1>13 DEF LocalInv
  <2>2. c \in Nat /\ node[s].committed \in Nat /\ Len(x) \in Nat
    BY <1>1, <1>4, <1>13 DEF TypesOf
  <2>3. node[s].committed <= Len(x)
    BY <2>1 DEF Whole
  <2> HIDE DEF c, x, d
  <2>4. QED BY <2>1, <2>2, <2>3
<1>16. delivered'[s] \in Seq(Entry) /\ Len(delivered'[s]) = c /\ Agrees(delivered'[s], x, c)
  <2>1. x \in Seq(Entry) /\ d \in Seq(Entry)
    BY <1>1 DEF TypesOf
  <2> DEFINE e == rd.committed
  <2>2. /\ e \in Seq(Entry) /\ Len(d) + Len(e) = c /\ Agrees(d, x, Len(d))
        /\ Len(d) + Len(e) <= Len(x) /\ \A i \in 1..Len(e) : e[i] = x[Len(d) + i]
    BY <1>4, <1>13, <1>15
  <2>3. delivered'[s] = d \o e
    BY <1>5
  <2> HIDE DEF x, d, c, e
  <2>4. /\ d \o e \in Seq(Entry) /\ Len(d \o e) = Len(d) + Len(e)
        /\ Agrees(d \o e, x, Len(d) + Len(e))
    BY <2>1, <2>2, DeliveredAgrees
  <2>5. QED BY <2>2, <2>3, <2>4
<1>17. Agrees(delivered'[s], wal[s].log, c)
  BY <1>15, <1>16, AgreesSame
<1> HIDE DEF c
<1>18. ASSUME NEW y PROVE Good(y)' <=> Good(y)
  BY <1>2 DEF Good, Won, Rising
<1>19. DiskInv(s)'
  <2>1. Good(storage[s])' /\ Good(Ahead(s))'
    BY <1>1, <1>2, <1>14, <1>18 DEF DiskInv
  <2>2. Agrees(delivered[s], wal[s].log, Len(delivered[s]))'
    BY <1>2, <1>16, <1>17
  <2>3. QED BY <1>1, <1>2, <1>3, <1>14, <2>1, <2>2 DEF DiskInv, qd
<1>20. LocalInv(s)'
  <2>1. Good(node[s].log)'
    BY <1>1, <1>2, <1>3, <1>18 DEF LocalInv
  <2>2. /\ c <= node[s].committed /\ Agrees(Ahead(s), x, c)
    BY <1>1, <1>3 DEF LocalInv, c
  <2>3. QED BY <1>1, <1>2, <1>3, <1>14, <1>15, <1>16, <2>1, <2>2 DEF LocalInv, qd
<1>21. QED BY <1>2, <1>6, <1>7, <1>8, <1>11, <1>12, <1>19, <1>20, StepOn

\* Save: the disk gets what the Ready holds; an unsynced save may be lost when the disk
\* has the vote already.
LEMMA SaveOn ==
    ASSUME ReadyInv, NEW s \in Server, Save(s)
    PROVE  ReadyInv'
<1> DEFINE rd == ready[s]
           qd == ready'[s]
           x == node[s].log
           c == Promised(s)
           h == wal[s].hard
           g == wal'[s].hard
<1>1. /\ TypesInv /\ HardInv(s) /\ ElectInv(s) /\ DiskInv(s) /\ LocalInv(s)
      /\ TypesOf(s) /\ "save" \in AllTasks
  BY TypeFacts DEF ReadyInv, Typing, AllTasks
<1>2. /\ Do(s, "save")
      /\ \/ wal' = [wal EXCEPT ![s] = [hard |-> rd.hard, log |-> Appended(wal[s].log, rd)]]
         \/ ~MustSync(rd.hard, h, Len(rd.entries)) /\ wal' = wal
      /\ node' = node /\ outbox' = outbox /\ offset' = offset /\ applied' = applied
      /\ prevHardSt' = prevHardSt /\ storage' = storage /\ net' = net
      /\ delivered' = delivered /\ decided' = decided /\ timeouts' = timeouts /\ crashes' = crashes
  BY DEF Save, raft, count
<1>3. /\ ~node[s].panic /\ rd \in Readies /\ rd # NoReady /\ "save" \in rd.todo
      /\ ready' \in [Server -> {NoReady} \cup Readies]
      /\ \A z \in Server \ {s} : ready'[z] = ready[z]
      /\ qd # NoReady
      /\ qd.first = rd.first /\ qd.entries = rd.entries
      /\ qd.committed = rd.committed /\ qd.hard = rd.hard
      /\ qd.msgs = rd.msgs /\ qd.tasks = rd.tasks
      /\ qd.todo = rd.todo \ {"save"}
      /\ \A z : Appended(z, qd) = Appended(z, rd)
  BY <1>1, <1>2, DoFacts
<1> HIDE DEF qd
<1>4. /\ rd.hard \in HardState /\ rd.entries \in Seq(Entry) /\ Len(rd.entries) \in Nat
      /\ h \in HardState /\ Later(h, rd.hard) /\ Later(rd.hard, Hard(node[s]))
      /\ Ahead(s) \in Seq(Entry) /\ Ahead(s) = Appended(storage[s], rd)
      /\ wal[s].log = storage[s] /\ Hard(node[s]) \in HardState
  BY <1>1, <1>3, ReadyFacts, AheadType DEF HardInv, DiskInv, TypesOf, Ahead
<1>5. /\ wal' \in [Server -> [hard : HardState, log : Seq(Entry)]]
      /\ \A z \in Server \ {s} : wal'[z] = wal[z]
      /\ wal'[s].log = Ahead(s) /\ SameVote(rd.hard, g)
  <2> DEFINE w == [hard |-> rd.hard, log |-> Appended(wal[s].log, rd)]
  <2>1. wal \in [Server -> [hard : HardState, log : Seq(Entry)]]
    BY <1>1 DEF TypesInv
  <2>2. CASE wal' = [wal EXCEPT ![s] = w]
    <3>1. w \in [hard : HardState, log : Seq(Entry)] /\ w.hard = rd.hard /\ w.log = Ahead(s)
      BY <1>4
    <3> HIDE DEF w
    <3>2. wal'[s] = w
      BY <2>1, <2>2
    <3>3. QED BY <2>1, <2>2, <3>1, <3>2 DEF SameVote
  <2>3. CASE ~MustSync(rd.hard, h, Len(rd.entries)) /\ wal' = wal
    <3>1. Len(rd.entries) = 0 /\ rd.hard.Vote = h.Vote /\ rd.hard.Term = h.Term
      BY <2>3 DEF MustSync
    <3>2. rd.entries = <<>>
      BY <1>4, <3>1, EmptySeq
    <3>3. Ahead(s) = wal[s].log
      BY <1>4, <3>2 DEF Appended
    <3>4. QED BY <2>1, <2>3, <3>1, <3>3 DEF SameVote
  <2>4. QED BY <1>2, <2>2, <2>3
<1>6. g \in HardState
  BY <1>5
<1>7. TypesInv'
  BY <1>1, <1>2, <1>3, <1>5 DEF TypesInv
<1>8. Later(rd.hard, g) /\ Later(g, rd.hard)
  BY <1>5, SameVoteLater
<1>9. DisksGo
  <2>1. Later(h, g)
    BY <1>4, <1>6, <1>8, LaterOn
  <2>2. ASSUME NEW z \in Server \ {s}
        PROVE  wal[z].hard \in HardState /\ wal'[z] = wal[z] /\ Later(wal[z].hard, wal[z].hard)
    BY <1>1, <1>5, TypeFacts DEF Typing, TypesOf, Later
  <2>3. QED BY <1>4, <1>6, <2>1, <2>2 DEF DisksGo
<1>10. Only(s)
  BY <1>2, <1>3, <1>5 DEF Only, SameAt
<1>11. SameRole(s)
  BY <1>2 DEF SameRole
<1>12. Issued' \subseteq Issued
  <2>1. ASSUME NEW z \in Server PROVE outbox'[z] \subseteq Issued /\ Handled(z)' \subseteq Issued
    <3>1. Handled(z)' = Handled(z)
      BY <1>3 DEF Handled, qd
    <3>2. QED BY <1>2, <3>1, IssuedParts
  <2>2. net' \subseteq Issued
    BY <1>2, IssuedParts
  <2>3. QED BY <2>1, <2>2, NothingNew
<1>13. NewGrants /\ ElectInv(s)' /\ \A m \in Issued' : m \in Issued \/ MsgInv(m)'
  BY <1>7, <1>9, <1>10, <1>11, <1>12, RoleOn
<1>14. HardInv(s)'
  <2>1. Later(g, Hard(node[s]))
    BY <1>4, <1>6, <1>8, LaterOn
  <2>2. \A m : Pledged(rd.hard, m) => Pledged(g, m)
    BY <1>5, SameVoteLater
  <2>3. \A m \in rd.msgs : m.from = s /\ Pledged(rd.hard, m)
    BY <1>1, <1>3 DEF HardInv
  <2>4. Hard(node[s])' = Hard(node[s])
    BY <1>2
  <2>5. \A m \in outbox[s] : m.from = s /\ Pledged(Hard(node[s]), m)
    BY <1>1 DEF HardInv
  <2>6. QED BY <1>2, <1>3, <1>4, <1>5, <1>8, <2>1, <2>2, <2>3, <2>4, <2>5 DEF HardInv, qd
<1>15. Ahead(s)' = Ahead(s) /\ Handed(s)' = Handed(s) /\ Promised(s)' = c
  BY <1>2, <1>3 DEF Ahead, Handed, Promised, qd
<1>16. /\ Len(delivered[s]) = Handed(s) /\ Agrees(delivered[s], x, Handed(s))
       /\ Agrees(Ahead(s), x, c) /\ Handed(s) \in Nat /\ Handed(s) <= c /\ c \in Nat
  BY <1>1, <1>3, AheadType DEF LocalInv
<1>17. Agrees(Ahead(s), x, Handed(s))
  BY <1>16 DEF Agrees
<1>18. Agrees(delivered[s], Ahead(s), Handed(s))
  BY <1>16, <1>17, AgreesSame
<1>19. \A y \in Seq(Entry) : Good(y) => Good(y)'
  BY <1>9, GoodOn
<1> HIDE DEF c
<1>20. DiskInv(s)'
  <2>1. Good(storage[s])' /\ Good(Ahead(s))'
    BY <1>1, <1>2, <1>4, <1>15, <1>19 DEF DiskInv, TypesOf
  <2>2. Agrees(delivered[s], wal[s].log, Len(delivered[s]))'
    BY <1>2, <1>5, <1>16, <1>18
  <2>3. QED BY <1>1, <1>2, <1>3, <1>5, <1>15, <2>1, <2>2 DEF DiskInv, qd
<1>21. LocalInv(s)'
  <2>1. Good(node[s].log)'
    BY <1>1, <1>2, <1>3, <1>19 DEF LocalInv, TypesOf
  <2>2. Agrees(wal'[s].log, x, Handed(s)) /\ Agrees(wal'[s].log, x, c)
    BY <1>5, <1>16, <1>17
  <2>3. QED BY <1>1, <1>2, <1>3, <1>15, <2>1, <2>2 DEF LocalInv, qd, c
<1>22. QED BY <1>2, <1>7, <1>9, <1>10, <1>13, <1>14, <1>20, <1>21, StepOn

\* What a Ready holds of the log, and what storage has once it is done.
LEMMA ReadyEntries ==
    ASSUME TypesInv, NEW s \in Server, DiskInv(s), LocalInv(s), ~node[s].panic
    PROVE  LET x == node[s].log
               E == unstableEntries(s)
               C == nextEnts(s)
               n == node[s].committed
               o == offset[s]
           IN  /\ E \in Seq(Entry) /\ Len(E) = Len(x) - o + 1
               /\ \A i \in 1..Len(E) : E[i] = x[o + i - 1]
               /\ C \in Seq(Entry) /\ Len(C) = n - applied[s]
               /\ \A i \in 1..Len(C) : C[i] = x[applied[s] + i]
               /\ o \in Nat /\ o # 0 /\ o <= Len(x) + 1 /\ o - 1 <= Len(storage[s])
               /\ Agrees(storage[s], x, o - 1)
               /\ n <= Len(x) /\ applied[s] <= n
               /\ (E = <<>> <=> o = Len(x) + 1) /\ (C = <<>> => n = applied[s])
<1> DEFINE x == node[s].log
           E == unstableEntries(s)
           C == nextEnts(s)
           n == node[s].committed
           o == offset[s]
           a == applied[s]
<1>1. /\ TypesOf(s) /\ x \in Seq(Entry) /\ Len(x) \in Nat /\ n \in Nat /\ o \in Nat /\ o # 0
      /\ a \in Nat
  BY TypeFacts DEF Typing, TypesOf
<1>2. o <= Len(x) + 1 /\ a <= n /\ Agrees(storage[s], x, o - 1) /\ Whole(node[s])
  BY DEF DiskInv, LocalInv
<1>3. n <= Len(x) /\ o - 1 <= Len(storage[s])
  BY <1>2 DEF Whole, Agrees
<1>4. /\ E = SubSeq(x, o, Len(x)) /\ C = SubSeq(x, a + 1, n)
  BY DEF unstableEntries, nextEnts, lastIndex
<1> HIDE DEF E, C, x, n, o, a
<1>5. /\ E \in Seq(Entry) /\ Len(E) = Len(x) - o + 1
      /\ \A i \in 1..(Len(x) - o + 1) : E[i] = x[o + i - 1]
  BY <1>1, <1>2, <1>4, PartOf
<1>6. /\ C \in Seq(Entry) /\ Len(C) = n - a
      /\ \A i \in 1..(n - a) : C[i] = x[a + i]
  <2> DEFINE b == a + 1
  <2>1. b \in Nat /\ b # 0 /\ n \in Int /\ b - 1 <= n
    BY <1>1, <1>2
  <2> HIDE DEF b
  <2>2. /\ C \in Seq(Entry) /\ Len(C) = n - b + 1
        /\ \A i \in 1..(n - b + 1) : C[i] = x[b + i - 1]
    BY <1>1, <1>3, <1>4, <2>1, PartOf DEF b
  <2>3. QED BY <1>1, <2>2 DEF b
<1>7. E = <<>> <=> o = Len(x) + 1
  BY <1>1, <1>5, EmptySeq
<1>8. C = <<>> => n = a
  BY <1>1, <1>6
<1>9. QED BY <1>1, <1>2, <1>3, <1>5, <1>6, <1>7, <1>8 DEF E, C, x, n, o, a

\* Entries that do not wait for the save are stable (shouldWaitWALSync).
LEMMA NoWait ==
    ASSUME TypesInv, NEW s \in Server, DiskInv(s), LocalInv(s), ~node[s].panic,
           ~shouldWaitWALSync(s), nextEnts(s) # <<>>, unstableEntries(s) # <<>>
    PROVE  node[s].committed < offset[s]
<1> DEFINE x == node[s].log
           n == node[s].committed
           o == offset[s]
<1>1. /\ x \in Seq(Entry) /\ Len(x) \in Nat /\ n \in Nat
  BY TypeFacts DEF Typing, TypesOf
<1>2. /\ o \in Nat /\ o # 0 /\ o <= Len(x) + 1 /\ n <= Len(x) /\ o # Len(x) + 1
  BY ReadyEntries
<1>3. Rising(x)
  BY DEF LocalInv, Good
<1>4. ~(termAt(x, n) > termAt(x, o) \/ (termAt(x, n) = termAt(x, o) /\ n >= o))
  BY DEF shouldWaitWALSync
<1> HIDE DEF x, n, o
<1>5. ASSUME n >= o PROVE FALSE
  <2>1. n \in 1..Len(x) /\ o \in 1..Len(x) /\ o \in 1..n
    BY <1>1, <1>2, <1>5
  <2>2. x[o].term <= x[n].term
    BY <1>3, <2>1 DEF Rising
  <2>3. x[o] \in Entry /\ x[n] \in Entry
    BY <1>1, <2>1, ElementOfSeq
  <2>4. x[o].term \in Nat /\ x[n].term \in Nat
    BY <2>3 DEF Entry
  <2>5. termAt(x, n) = x[n].term /\ termAt(x, o) = x[o].term
    BY <2>1 DEF termAt
  <2>6. QED BY <1>4, <1>5, <2>2, <2>4, <2>5
<1>6. n < o
  BY <1>1, <1>2, <1>5
<1>7. QED BY <1>6 DEF n, o

LEMMA TaskOrders ==
    \A leader, wait : /\ Tasks(leader, wait) \in Orders
                      /\ wait => Tasks(leader, wait)[1] = "save"
                      /\ Tasks(leader, wait) = Tasks(TRUE, FALSE) => leader
<1> TAKE leader, wait
<1>1. CASE wait
  <2>1. Tasks(leader, wait) = <<"save", "apply", "send">> /\ Tasks(FALSE, TRUE) = <<"save", "apply", "send">>
    BY <1>1 DEF Tasks
  <2>2. <<"save", "apply", "send">>[1] = "save" /\ <<"apply", "send", "save">>[1] = "apply"
    OBVIOUS
  <2>3. Tasks(TRUE, FALSE) = <<"apply", "send", "save">>
    BY DEF Tasks
  <2>4. QED BY <1>1, <2>1, <2>2, <2>3 DEF Orders
<1>2. CASE ~wait /\ leader
  BY <1>2 DEF Tasks, Orders
<1>3. CASE ~wait /\ ~leader
  <2>1. Tasks(leader, wait) = <<"apply", "save", "send">> /\ Tasks(FALSE, FALSE) = <<"apply", "save", "send">>
    BY <1>3 DEF Tasks
  <2>2. <<"apply", "save", "send">>[2] = "save" /\ <<"apply", "send", "save">>[2] = "send"
    OBVIOUS
  <2>3. Tasks(TRUE, FALSE) = <<"apply", "send", "save">>
    BY DEF Tasks
  <2>4. QED BY <1>3, <2>1, <2>2, <2>3 DEF Orders
<1>4. QED BY <1>1, <1>2, <1>3

\* Ready: what the loop gets to save, to apply and to send.
LEMMA ReadyOn ==
    ASSUME ReadyInv, NEW s \in Slow, Ready(s)
    PROVE  ReadyInv'
<1> DEFINE E == unstableEntries(s)
           C == nextEnts(s)
           qd == [first |-> offset[s], entries |-> E, committed |-> C,
                  hard |-> Hard(node[s]), msgs |-> outbox[s], todo |-> Todo(s),
                  tasks |-> Tasks(node[s].state = Leader, shouldWaitWALSync(s))]
           x == node[s].log
           n == node[s].committed
           h == wal[s].hard
           g == Hard(node[s])
<1>0. s \in Server
  BY ReadyAssumption
<1>1. /\ TypesInv /\ HardInv(s) /\ ElectInv(s) /\ DiskInv(s) /\ LocalInv(s)
      /\ TypesOf(s)
  BY <1>0, TypeFacts DEF ReadyInv, Typing
<1>2. /\ ~node[s].panic /\ ready[s] = NoReady
      /\ ready' = [ready EXCEPT ![s] = qd] /\ outbox' = [outbox EXCEPT ![s] = {}]
      /\ node' = node /\ offset' = offset /\ applied' = applied
      /\ prevHardSt' = prevHardSt /\ storage' = storage /\ wal' = wal /\ net' = net
      /\ delivered' = delivered /\ decided' = decided /\ timeouts' = timeouts /\ crashes' = crashes
  BY DEF Ready, count
<1>3. /\ E \in Seq(Entry) /\ Len(E) = Len(x) - offset[s] + 1
      /\ \A i \in 1..Len(E) : E[i] = x[offset[s] + i - 1]
      /\ C \in Seq(Entry) /\ Len(C) = n - applied[s]
      /\ \A i \in 1..Len(C) : C[i] = x[applied[s] + i]
      /\ offset[s] \in Nat /\ offset[s] # 0 /\ offset[s] <= Len(x) + 1
      /\ offset[s] - 1 <= Len(storage[s])
      /\ Agrees(storage[s], x, offset[s] - 1)
      /\ n <= Len(x) /\ applied[s] <= n
      /\ (E = <<>> <=> offset[s] = Len(x) + 1) /\ (C = <<>> => n = applied[s])
  BY <1>0, <1>1, <1>2, ReadyEntries
<1>4. /\ x \in Seq(Entry) /\ Len(x) \in Nat /\ n \in Nat /\ applied[s] \in Nat
      /\ storage[s] \in Seq(Entry) /\ Len(storage[s]) \in Nat /\ g \in HardState /\ h \in HardState
      /\ outbox[s] \in SUBSET Message
  BY <1>1 DEF TypesOf
<1> HIDE DEF E, C
<1>5. /\ Todo(s) \in SUBSET AllTasks
      /\ "save" \notin Todo(s) => E = <<>> /\ g = prevHardSt[s]
      /\ "apply" \notin Todo(s) => C = <<>>
  BY DEF Todo, AllTasks, E, C
<1>6. Tasks(node[s].state = Leader, shouldWaitWALSync(s)) \in Orders
  BY TaskOrders
<1>7. /\ qd.first = offset[s] /\ qd.entries = E /\ qd.committed = C /\ qd.hard = g
      /\ qd.msgs = outbox[s] /\ qd.todo = Todo(s)
      /\ qd.tasks = Tasks(node[s].state = Leader, shouldWaitWALSync(s))
  OBVIOUS
<1>8. qd \in Readies
  <2>1. offset[s] \in Nat \ {0}
    BY <1>3
  <2> HIDE DEF g
  <2>2. [first |-> offset[s], entries |-> E, committed |-> C,
         hard |-> g, msgs |-> outbox[s], todo |-> Todo(s),
         tasks |-> Tasks(node[s].state = Leader, shouldWaitWALSync(s))] \in Readies
    BY <1>3, <1>4, <1>5, <1>6, <2>1 DEF Readies
  <2>3. QED BY <2>2 DEF g
<1> HIDE DEF qd
<1>9. qd # NoReady
  BY <1>8, ReadyFacts
<1>10. /\ ready'[s] = qd /\ outbox'[s] = {}
       /\ \A z \in Server \ {s} : ready'[z] = ready[z] /\ outbox'[z] = outbox[z]
       /\ ready' \in [Server -> {NoReady} \cup Readies] /\ outbox' \in [Server -> SUBSET Message]
  BY <1>0, <1>1, <1>2, <1>8 DEF TypesInv
<1>11. TypesInv'
  BY <1>1, <1>2, <1>10 DEF TypesInv
<1>12. DisksGo
  BY <1>1, <1>2, DisksStay
<1>13. Only(s)
  BY <1>2, <1>10 DEF Only, SameAt
<1>14. SameRole(s)
  BY <1>2 DEF SameRole
<1>15. Issued' \subseteq Issued
  <2>1. Handled(s)' = outbox[s]
    BY <1>7, <1>9, <1>10 DEF Handled
  <2>2. ASSUME NEW z \in Server PROVE outbox'[z] \subseteq Issued /\ Handled(z)' \subseteq Issued
    <3>1. z # s => Handled(z)' = Handled(z)
      BY <1>10 DEF Handled
    <3>2. QED BY <1>0, <1>10, <2>1, <3>1, IssuedParts
  <2>3. net' \subseteq Issued
    BY <1>2, IssuedParts
  <2>4. QED BY <2>2, <2>3, NothingNew
<1>16. NewGrants /\ ElectInv(s)' /\ \A m \in Issued' : m \in Issued \/ MsgInv(m)'
  BY <1>0, <1>11, <1>12, <1>13, <1>14, <1>15, RoleOn
<1>17. HardInv(s)'
  <2>1. Later(h, g) /\ Later(g, g) /\ SameVote(prevHardSt[s], h)
    BY <1>1, <1>2 DEF HardInv, Later
  <2>2. "save" \notin Todo(s) => SameVote(g, h)
    BY <1>5, <2>1
  <2>3. \A m \in outbox[s] : m.from = s /\ Pledged(g, m)
    BY <1>1 DEF HardInv
  <2>4. ASSUME qd.tasks = Tasks(TRUE, FALSE) PROVE SameVote(g, h)
    <3>1. node[s].state = Leader
      BY <1>7, <2>4, TaskOrders
    <3>2. Bound(h, node[s].Term, s) /\ node[s].Vote = s
      BY <1>1, <1>2, <3>1 DEF ElectInv
    <3>3. g.Term = node[s].Term /\ g.Vote = node[s].Vote
      BY DEF Hard
    <3>4. h.Term \in Nat /\ g.Term \in Nat
      BY <1>4 DEF HardState
    <3> HIDE DEF g, h
    <3>5. QED BY <2>1, <3>2, <3>3, <3>4 DEF Bound, Later, SameVote
  <2>5. SameVote(g, h) => \A m : Pledged(g, m) => Pledged(h, m)
    BY SameVoteLater
  <2>6. ASSUME NEW m \in outbox[s]
        PROVE  /\ m.from = s /\ Pledged(g, m)
               /\ Pledged(h, m) \/ ("save" \in qd.todo /\ qd.tasks # Tasks(TRUE, FALSE))
    BY <1>7, <2>2, <2>3, <2>4, <2>5
  <2>7. Hard(node[s])' = g
    BY <1>2
  <2>8. /\ wal'[s].hard = h /\ ready'[s] = qd /\ outbox'[s] = {} /\ qd # NoReady
        /\ qd.hard = g /\ qd.todo = Todo(s) /\ qd.msgs = outbox[s]
    BY <1>2, <1>7, <1>9, <1>10
  <2> HIDE DEF g, h
  <2>9. /\ Later(h, g)
        /\ qd # NoReady =>
            /\ Later(h, qd.hard) /\ Later(qd.hard, g)
            /\ "save" \notin qd.todo => SameVote(qd.hard, h)
            /\ \A m \in qd.msgs :
                /\ m.from = s /\ Pledged(qd.hard, m)
                /\ Pledged(h, m) \/ ("save" \in qd.todo /\ qd.tasks # Tasks(TRUE, FALSE))
    BY <2>1, <2>2, <2>6, <2>8
  <2>10. QED BY <2>7, <2>8, <2>9 DEF HardInv
\* The log
<1> DEFINE y == Appended(storage[s], qd)
<1>18. y \in Seq(Entry) /\ (E = <<>> => y = storage[s]) /\ (E # <<>> => y = x)
  <2>1. /\ y \in Seq(Entry) /\ (E = <<>> => y = storage[s])
        /\ E # <<>> =>
            /\ Len(y) = offset[s] - 1 + Len(E)
            /\ \A i \in 1..Len(y) :
                 y[i] = IF i < offset[s] THEN storage[s][i] ELSE E[i - offset[s] + 1]
    <3>1. qd.first - 1 <= Len(storage[s])
      BY <1>3, <1>7
    <3>2. /\ y \in Seq(Entry) /\ (qd.entries = <<>> => y = storage[s])
          /\ qd.entries # <<>> =>
            /\ Len(y) = qd.first - 1 + Len(qd.entries)
            /\ \A i \in 1..Len(y) :
                 y[i] = IF i < qd.first THEN storage[s][i] ELSE qd.entries[i - qd.first + 1]
      BY <1>4, <1>8, <3>1, AppendedFacts
    <3> HIDE DEF y
    <3>3. QED BY <1>7, <3>2
  <2> HIDE DEF y
  <2>2. ASSUME E # <<>> PROVE y = x
    <3>1. Len(y) = Len(x)
      BY <1>3, <1>4, <2>1, <2>2
    <3>2. ASSUME NEW i \in 1..Len(y) PROVE y[i] = x[i]
      <4>1. CASE i < offset[s]
        <5>1. i \in 1..(offset[s] - 1)
          BY <1>3, <4>1
        <5>2. storage[s][i] = x[i]
          BY <1>3, <5>1 DEF Agrees
        <5>3. QED BY <2>1, <2>2, <4>1, <5>2
      <4>2. CASE ~(i < offset[s])
        <5> DEFINE j == i - offset[s] + 1
        <5>1. j \in 1..Len(E) /\ offset[s] + j - 1 = i
          <6>1. Len(E) = Len(x) - offset[s] + 1 /\ offset[s] \in Nat /\ i \in 1..Len(x)
            BY <1>3, <3>1
          <6>2. QED BY <1>4, <4>2, <6>1
        <5>2. y[i] = E[j]
          BY <2>1, <2>2, <4>2
        <5> HIDE DEF j
        <5>3. QED BY <1>3, <5>1, <5>2
      <4>3. QED BY <4>1, <4>2
    <3>3. QED BY <1>4, <2>1, <3>1, <3>2, SeqEqual
  <2>3. QED BY <2>1, <2>2
<1>19. Ahead(s)' = y /\ Promised(s)' = n /\ Handed(s)' = applied[s] /\ Handed(s) = applied[s]
  <2>1. Ahead(s)' = y
    BY <1>2, <1>9, <1>10 DEF Ahead
  <2>2. applied[s] + Len(C) = n
    BY <1>3, <1>4
  <2>3. Promised(s)' = n
    BY <1>2, <1>7, <1>9, <1>10, <2>2 DEF Promised
  <2>4. "apply" \notin Todo(s) => Len(C) = 0
    BY <1>3, <1>4, <1>5
  <2>5. Handed(s)' = applied[s]
    BY <1>2, <1>4, <1>7, <1>9, <1>10, <2>4 DEF Handed
  <2>6. Handed(s) = applied[s]
    BY <1>2, <1>4 DEF Handed
  <2>7. QED BY <2>1, <2>3, <2>5, <2>6
<1> HIDE DEF y
<1>20. Agrees(y, x, Len(x)) /\ (E = <<>> => Agrees(storage[s], x, Len(x)))
  <2>1. Agrees(x, x, Len(x))
    BY <1>4 DEF Agrees
  <2>2. offset[s] = Len(x) + 1 => offset[s] - 1 = Len(x)
    BY <1>4
  <2>3. QED BY <1>3, <1>18, <2>1, <2>2
<1>21. ASSUME NEW z PROVE Good(z)' <=> Good(z)
  BY <1>2 DEF Good, Won, Rising
<1>22. DiskInv(s)'
  <2>1. Good(storage[s]) /\ Good(x) /\ wal[s].log = storage[s]
        /\ Agrees(delivered[s], wal[s].log, Len(delivered[s]))
    BY <1>1, <1>2 DEF DiskInv, LocalInv
  <2>2. Good(y)
    BY <1>18, <2>1
  <2>3. Good(storage[s])' /\ Good(Ahead(s))'
    BY <1>2, <1>19, <1>21, <2>1, <2>2
  <2>4. wal[s].log = IF "save" \in Todo(s) THEN storage[s] ELSE y
    BY <1>5, <1>18, <2>1
  <2>5. QED BY <1>2, <1>3, <1>7, <1>9, <1>10, <1>19, <2>1, <2>3, <2>4 DEF DiskInv
<1>23. LocalInv(s)'
  <2>1. /\ Whole(node[s]) /\ Good(x) /\ Len(delivered[s]) = applied[s]
        /\ Agrees(delivered[s], x, applied[s]) /\ Agrees(wal[s].log, x, applied[s])
        /\ wal[s].log = storage[s]
    BY <1>1, <1>2, <1>19 DEF LocalInv, DiskInv
  <2>2. Good(node[s].log)'
    BY <1>2, <1>21, <2>1
  <2>3. Agrees(y, x, n)
    BY <1>3, <1>4, <1>18, <1>20, AgreesLess, LenProperties
  <2>4. ASSUME E = <<>> PROVE Agrees(storage[s], x, n)
    <3>1. Agrees(storage[s], x, Len(x)) /\ Len(x) \in Int /\ n \in Int /\ n <= Len(x)
      BY <1>3, <1>4, <1>20, <2>4
    <3> HIDE DEF x, n
    <3>2. QED BY <1>4, <3>1, AgreesLess
  <2>5. ASSUME qd.tasks[1] # "save" PROVE Agrees(storage[s], x, n)
    <3>1. ASSUME shouldWaitWALSync(s) PROVE FALSE
      <4>1. Tasks(node[s].state = Leader, shouldWaitWALSync(s)) = <<"save", "apply", "send">>
        BY <3>1 DEF Tasks
      <4>2. <<"save", "apply", "send">>[1] = "save"
        OBVIOUS
      <4>3. QED BY <1>7, <2>5, <4>1, <4>2
    <3>2. CASE C = <<>>
      BY <1>3, <2>1, <3>2
    <3>3. CASE C # <<>> /\ E # <<>>
      <4>1. n < offset[s]
        BY <1>0, <1>1, <1>2, <3>1, <3>3, NoWait DEF E, C
      <4>2. n <= offset[s] - 1 /\ offset[s] - 1 \in Int
        BY <1>3, <1>4, <4>1
      <4>3. QED BY <1>3, <1>4, <4>2, AgreesLess
    <3>4. QED BY <2>4, <3>2, <3>3
  <2>6. qd.tasks[1] # "save" \/ "save" \notin qd.todo => Agrees(wal[s].log, x, n)
    BY <1>5, <1>7, <2>1, <2>4, <2>5
  <2>7. offset[s] <= qd.first
    BY <1>3, <1>7
  <2>8. /\ node'[s] = node[s] /\ storage'[s] = storage[s] /\ offset'[s] = offset[s]
        /\ delivered'[s] = delivered[s] /\ wal'[s] = wal[s] /\ ready'[s] = qd
        /\ applied'[s] = applied[s]
    BY <1>2, <1>10
  <2>9. \A i \in 1..Len(qd.committed) : qd.committed[i] = x[applied[s] + i]
    BY <1>3, <1>7
  <2>10. Agrees(storage[s], x, offset[s] - 1)
    BY <1>3
  <2>11. n <= n
    BY <1>4
  <2> HIDE DEF x, n
  <2>12. QED BY <1>19, <2>1, <2>2, <2>3, <2>6, <2>7, <2>8, <2>9, <2>10, <2>11 DEF LocalInv, x, n
<1>24. QED BY <1>0, <1>2, <1>11, <1>12, <1>13, <1>16, <1>17, <1>22, <1>23, StepOn

\* What the node reads once the entries below off come from storage.
LEMMA Spliced ==
    ASSUME NEW v \in Seq(Entry), NEW x \in Seq(Entry), Good(v), Good(x),
           NEW off \in Nat, off # 0, off - 1 <= Len(v), off - 1 <= Len(x),
           off = 1 \/ v[off - 1].term = x[off - 1].term
    PROVE  LET y == SubSeq(v, 1, off - 1) \o SubSeq(x, off, Len(x))
           IN  /\ y \in Seq(Entry) /\ Len(y) = Len(x) /\ Good(y)
               /\ LastTerm(y) = LastTerm(x)
               /\ Agrees(v, y, off - 1)
               /\ \A c \in Nat : Agrees(v, x, c) => Agrees(v, y, c)
<1> DEFINE k == off - 1
           a == SubSeq(v, 1, k)
           b == SubSeq(x, off, Len(x))
           y == a \o b
<1>1. /\ k \in Nat /\ k <= Len(v) /\ k <= Len(x) /\ Len(v) \in Nat /\ Len(x) \in Nat
      /\ off = k + 1
  BY LenProperties
<1>2. k = 0 \/ v[k].term = x[k].term
  BY <1>1
<1> HIDE DEF k
<1>3. a \in Seq(Entry) /\ Len(a) = k /\ \A i \in 1..k : a[i] = v[i]
  <2>1. /\ a \in Seq(Entry) /\ Len(a) = k - 1 + 1
        /\ \A i \in 1..(k - 1 + 1) : a[i] = v[1 + i - 1]
    BY <1>1, PartOf
  <2> HIDE DEF a
  <2>2. QED BY <1>1, <2>1
<1>4. b \in Seq(Entry) /\ Len(b) = Len(x) - k /\ \A i \in 1..(Len(x) - k) : b[i] = x[k + i]
  <2>1. /\ b \in Seq(Entry) /\ Len(b) = Len(x) - off + 1
        /\ \A i \in 1..(Len(x) - off + 1) : b[i] = x[off + i - 1]
    BY <1>1, PartOf
  <2> HIDE DEF b
  <2>2. QED BY <1>1, <2>1
<1> HIDE DEF a, b
<1>5. /\ y \in Seq(Entry) /\ Len(y) = Len(a) + Len(b)
      /\ \A i \in 1..(Len(a) + Len(b)) : y[i] = IF i <= Len(a) THEN a[i] ELSE b[i - Len(a)]
  <2>1. a \in Seq(Entry) /\ b \in Seq(Entry)
    BY <1>3, <1>4
  <2>2. QED BY <2>1, ConcatProperties
<1> HIDE DEF y
<1>6. Len(y) = Len(x) /\ \A i \in 1..Len(x) : y[i] = IF i <= k THEN v[i] ELSE x[i]
  <2>1. Len(a) + Len(b) = Len(x)
    BY <1>1, <1>3, <1>4
  <2>2. ASSUME NEW i \in 1..Len(x) PROVE y[i] = IF i <= k THEN v[i] ELSE x[i]
    <3>1. CASE i <= k
      <4>1. i \in 1..k
        BY <1>1, <3>1
      <4>2. QED BY <1>3, <1>5, <2>1, <3>1, <4>1
    <3>2. CASE ~(i <= k)
      <4>1. i - k \in 1..(Len(x) - k) /\ k + (i - k) = i
        BY <1>1, <3>2
      <4>2. b[i - k] = x[i]
        BY <1>4, <4>1
      <4>3. QED BY <1>3, <1>5, <2>1, <3>2, <4>2
    <3>3. QED BY <3>1, <3>2
  <2>3. QED BY <1>5, <2>1, <2>2
<1>7. /\ \A i \in 1..Len(v) : v[i].term \in Nat
      /\ \A i \in 1..Len(x) : x[i].term \in Nat
  <2>1. \A i \in 1..Len(v) : v[i] \in Entry
    BY ElementOfSeq
  <2>2. \A i \in 1..Len(x) : x[i] \in Entry
    BY ElementOfSeq
  <2>3. QED BY <2>1, <2>2 DEF Entry
<1>8. ASSUME NEW i \in 1..Len(y) PROVE y[i].term # 0 /\ Won(y[i].term)
  <2>1. i <= k => i \in 1..Len(v)
    BY <1>1
  <2>2. QED BY <1>6, <2>1 DEF Good, Rising
<1>9. ASSUME NEW i \in 1..Len(y), NEW j \in 1..i PROVE y[j].term <= y[i].term
  <2>1. /\ i \in 1..Len(x) /\ j \in 1..Len(x)
        /\ y[i] = IF i <= k THEN v[i] ELSE x[i]
        /\ y[j] = IF j <= k THEN v[j] ELSE x[j]
    BY <1>1, <1>6
  <2>2. CASE i <= k
    <3>1. i \in 1..Len(v) /\ j <= k
      BY <1>1, <2>2
    <3>2. v[j].term <= v[i].term
      BY <3>1 DEF Good, Rising
    <3>3. QED BY <2>1, <2>2, <3>1, <3>2
  <2>3. CASE ~(j <= k)
    <3>1. ~(i <= k)
      BY <1>1, <2>3
    <3>2. x[j].term <= x[i].term
      BY <2>1 DEF Good, Rising
    <3>3. QED BY <2>1, <2>3, <3>1, <3>2
  <2>4. CASE j <= k /\ ~(i <= k)
    <3>1. /\ k # 0 /\ k \in 1..Len(v) /\ k \in 1..Len(x) /\ j \in 1..k /\ k \in 1..i
          /\ j \in 1..Len(v)
      BY <1>1, <2>1, <2>4
    <3>2. v[j].term <= v[k].term
      BY <3>1 DEF Good, Rising
    <3>3. x[k].term <= x[i].term
      BY <2>1, <3>1 DEF Good, Rising
    <3>4. v[k].term = x[k].term /\ v[j].term \in Nat /\ v[k].term \in Nat /\ x[i].term \in Nat
      BY <1>2, <1>7, <2>1, <3>1
    <3>5. v[j].term <= x[i].term
      BY <3>2, <3>3, <3>4
    <3>6. QED BY <2>1, <2>4, <3>5
  <2>5. QED BY <2>2, <2>3, <2>4
<1>10. Good(y)
  <2>1. Rising(y)
    BY <1>8, <1>9 DEF Rising
  <2>2. QED BY <1>8, <2>1 DEF Good
<1>11. LastTerm(y) = LastTerm(x)
  <2>1. CASE Len(x) = 0
    BY <1>6, <2>1 DEF LastTerm, termAt
  <2>2. CASE Len(x) # 0
    <3> DEFINE n == Len(x)
    <3>1. n \in 1..n /\ (n <= k => n = k /\ k # 0)
      BY <1>1, <2>2
    <3>2. y[n].term = x[n].term
      BY <1>2, <1>6, <3>1
    <3>3. QED BY <1>6, <3>1, <3>2 DEF LastTerm, termAt
  <2>3. QED BY <2>1, <2>2
<1>12. Agrees(v, y, k)
  <2>1. \A i \in 1..k : i \in 1..Len(x) /\ i <= k
    BY <1>1
  <2>2. QED BY <1>1, <1>6, <2>1 DEF Agrees
<1>13. ASSUME NEW c \in Nat, Agrees(v, x, c) PROVE Agrees(v, y, c)
  <2>1. c <= Len(v) /\ c <= Len(x) /\ \A i \in 1..c : i \in 1..Len(x) /\ v[i] = x[i]
    BY <1>1, <1>13 DEF Agrees
  <2>2. QED BY <1>6, <2>1 DEF Agrees
<1>14. QED BY <1>5, <1>6, <1>10, <1>11, <1>12, <1>13 DEF y, a, b, k

\* A node that reads another log.
LEMMA WithLog ==
    ASSUME NEW r, Typed(r), NEW y \in Seq(Entry)
    PROVE  LET q == [r EXCEPT !.log = y]
           IN  /\ Typed(q) /\ q.log = y
               /\ q.id = r.id /\ q.Term = r.Term /\ q.Vote = r.Vote /\ q.state = r.state
               /\ q.committed = r.committed /\ q.yes = r.yes /\ q.prs = r.prs
               /\ q.msgs = r.msgs /\ q.panic = r.panic
<1> DEFINE q == [r EXCEPT !.log = y]
<1>1. Shaped(r, RaftFields)
  BY DEF Typed, Raft
<1>2. /\ Shaped(q, RaftFields) /\ q.log = y
      /\ q.id = r.id /\ q.Term = r.Term /\ q.Vote = r.Vote /\ q.state = r.state
      /\ q.committed = r.committed /\ q.yes = r.yes /\ q.no = r.no /\ q.prs = r.prs
      /\ q.msgs = r.msgs /\ q.panic = r.panic /\ q.lead = r.lead
      /\ q.leadTransferee = r.leadTransferee /\ q.elapsed = r.elapsed
  BY <1>1 DEF Shaped, RaftFields
<1> HIDE DEF q
<1>3. Typed(q)
  BY <1>2 DEF Typed, Raft
<1>4. QED BY <1>2, <1>3 DEF q

\* Advance: the node reads from storage what it has not replaced since the Ready.
LEMMA AdvanceOn ==
    ASSUME ReadyInv, NEW s \in Server, Advance(s)
    PROVE  ReadyInv'
<1> DEFINE rd == ready[s]
           n == Len(rd.entries)
           v == Appended(storage[s], rd)
           o == offset[s]
           off == IF n = 0 THEN o ELSE stableTo(s, rd.first + n - 1, rd.entries[n].term)
           r == node[s]
           x == r.log
           y == SubSeq(v, 1, off - 1) \o SubSeq(x, off, Len(x))
           q == [r EXCEPT !.log = y]
           c == Promised(s)
           d == delivered[s]
           h == wal[s].hard
<1>1. /\ TypesInv /\ HardInv(s) /\ ElectInv(s) /\ DiskInv(s) /\ LocalInv(s)
      /\ TypesOf(s)
  BY TypeFacts DEF ReadyInv, Typing
<1>2. /\ ~r.panic /\ rd.todo = {}
      /\ ready' = [ready EXCEPT ![s] = NoReady]
      /\ storage' = [storage EXCEPT ![s] = v] /\ offset' = [offset EXCEPT ![s] = off]
      /\ node' = [node EXCEPT ![s] = q]
      /\ applied' = [applied EXCEPT ![s] = applied[s] + Len(rd.committed)]
      /\ prevHardSt' = [prevHardSt EXCEPT ![s] = rd.hard]
      /\ outbox' = outbox /\ wal' = wal /\ net' = net
      /\ delivered' = delivered /\ decided' = decided /\ timeouts' = timeouts /\ crashes' = crashes
  BY DEF Advance, count
<1>3. rd \in Readies /\ rd # NoReady
  <2>1. NoReady.todo = {"none"}
    BY DEF NoReady
  <2>2. rd # NoReady
    BY <1>2, <2>1
  <2>3. QED BY <1>1, <2>2 DEF TypesOf
<1>4. /\ rd.first \in Nat /\ rd.first # 0 /\ rd.entries \in Seq(Entry) /\ n \in Nat
      /\ Len(rd.committed) \in Nat /\ rd.hard \in HardState
  BY <1>3, ReadyFacts
<1>5. /\ x \in Seq(Entry) /\ Len(x) \in Nat /\ r.committed \in Nat /\ applied[s] \in Nat
      /\ storage[s] \in Seq(Entry) /\ Len(storage[s]) \in Nat /\ o \in Nat /\ o # 0
      /\ d \in Seq(Entry) /\ Len(d) \in Nat /\ Typed(r) /\ r.id = s /\ r.msgs = {}
      /\ wal[s].log \in Seq(Entry)
  BY <1>1 DEF TypesOf
<1>6. /\ rd.first - 1 <= Len(storage[s]) /\ o <= Len(x) + 1
      /\ v \in Seq(Entry) /\ v = Ahead(s) /\ Good(v) /\ wal[s].log = v
      /\ Agrees(d, v, Len(d))
  <2>1. Ahead(s) = v /\ Ahead(s) \in Seq(Entry)
    BY <1>1, <1>3, AheadType DEF Ahead
  <2> HIDE DEF v
  <2>2. QED BY <1>1, <1>2, <1>3, <2>1 DEF DiskInv
<1>7. /\ Whole(r) /\ Good(x) /\ Agrees(storage[s], x, o - 1) /\ o <= rd.first
      /\ Len(d) = c /\ c <= r.committed /\ Agrees(v, x, c)
      /\ c = applied[s] + Len(rd.committed) /\ c \in Nat
  <2>1. Handed(s) = c /\ c = applied[s] + Len(rd.committed)
    BY <1>2, <1>3 DEF Handed, Promised
  <2> HIDE DEF v, c
  <2>2. QED BY <1>1, <1>2, <1>3, <1>4, <1>5, <1>6, <2>1 DEF LocalInv, c
<1>8. /\ rd.entries = <<>> => v = storage[s]
      /\ n # 0 => /\ Len(v) = rd.first - 1 + n
                  /\ v[Len(v)] = rd.entries[n]
      /\ Agrees(storage[s], v, rd.first - 1)
  <2> DEFINE e == rd.entries
  <2>1. /\ e = <<>> => v = storage[s]
        /\ e # <<>> =>
             /\ Len(v) = rd.first - 1 + Len(e)
             /\ \A i \in 1..Len(v) :
                  v[i] = IF i < rd.first THEN storage[s][i] ELSE e[i - rd.first + 1]
        /\ Agrees(storage[s], v, rd.first - 1)
    BY <1>3, <1>5, <1>6, AppendedFacts
  <2> HIDE DEF v
  <2>2. ASSUME n # 0 PROVE Len(v) = rd.first - 1 + n /\ v[Len(v)] = e[n]
    <3>1. e # <<>>
      BY <1>4, <2>2, EmptySeq
    <3>2. Len(v) = rd.first - 1 + n
      BY <2>1, <3>1
    <3> DEFINE f == rd.first
               k == Len(v)
    <3>3. f \in Nat /\ f # 0 /\ n \in Nat /\ n # 0 /\ k = f - 1 + n
      BY <1>4, <2>2, <3>2
    <3> HIDE DEF f, n, k
    <3>4. k \in 1..k /\ ~(k < f) /\ k - f + 1 = n
      BY <3>3
    <3>5. v[k] = e[n]
      BY <2>1, <3>1, <3>4 DEF f, k
    <3>6. QED BY <3>2, <3>5 DEF k
  <2>3. QED BY <2>1, <2>2
<1>9. Len(v) \in Nat
  BY <1>6, LenProperties
<1> HIDE DEF v, c
<1>10. Agrees(v, x, o - 1)
  <2>1. Agrees(storage[s], v, o - 1)
    BY <1>4, <1>5, <1>7, <1>8, <1>9, AgreesLess
  <2>2. QED BY <1>7, <2>1 DEF Agrees
<1>11. /\ off \in Nat /\ off # 0 /\ off - 1 <= Len(v) /\ off - 1 <= Len(x)
       /\ off = 1 \/ v[off - 1].term = x[off - 1].term
  <2>1. CASE off = o
    <3>1. o - 1 <= Len(v) /\ o - 1 <= Len(x)
      BY <1>10 DEF Agrees
    <3>2. o # 1 => v[o - 1] = x[o - 1]
      <4>1. o # 1 => o - 1 \in 1..(o - 1)
        BY <1>5
      <4>2. QED BY <1>10, <4>1 DEF Agrees
    <3>3. QED BY <1>5, <2>1, <3>1, <3>2
  <2>2. CASE n # 0 /\ off = rd.first + n - 1 + 1 /\ rd.first + n - 1 \in o..Len(x)
             /\ termAt(x, rd.first + n - 1) = rd.entries[n].term
    <3> DEFINE i == rd.first + n - 1
    <3>1. i \in Nat /\ i # 0 /\ off = i + 1 /\ i = Len(v) /\ i \in 1..Len(x)
      <4> DEFINE f == rd.first
                 k == Len(x)
      <4>1. /\ f \in Nat /\ f # 0 /\ n \in Nat /\ n # 0 /\ o \in Nat /\ o # 0 /\ k \in Nat
            /\ f + n - 1 \in o..k /\ Len(v) = f - 1 + n /\ off = f + n - 1 + 1
        BY <1>4, <1>5, <1>8, <2>2
      <4> HIDE DEF f, n, k, o, off
      <4>2. /\ f + n - 1 \in Nat /\ f + n - 1 # 0 /\ off = (f + n - 1) + 1
            /\ f + n - 1 = Len(v) /\ f + n - 1 \in 1..k
        BY <4>1
      <4>3. QED BY <4>2 DEF f, k
    <3>2. v[i].term = rd.entries[n].term
      BY <1>8, <2>2, <3>1
    <3>3. termAt(x, i) = x[i].term
      BY <3>1 DEF termAt
    <3>4. termAt(x, i) = rd.entries[n].term
      BY <2>2
    <3> HIDE DEF i, off, x
    <3>5. off - 1 = i /\ off \in Nat /\ off # 0
      BY <3>1
    <3>6. v[i].term = x[i].term
      BY <3>2, <3>3, <3>4
    <3>7. i <= Len(v) /\ i <= Len(x)
      BY <3>1
    <3>8. QED BY <3>5, <3>6, <3>7
  <2>3. QED BY <2>1, <2>2 DEF stableTo, lastIndex
<1> HIDE DEF off
<1>12. /\ y \in Seq(Entry) /\ Len(y) = Len(x) /\ Good(y)
       /\ LastTerm(y) = LastTerm(x) /\ Agrees(v, y, off - 1)
       /\ Agrees(v, y, c)
  <2> HIDE DEF x, c
  <2>1. x \in Seq(Entry) /\ v \in Seq(Entry) /\ Good(v) /\ Good(x)
    BY <1>5, <1>6, <1>7
  <2>2. /\ y \in Seq(Entry) /\ Len(y) = Len(x) /\ Good(y)
        /\ LastTerm(y) = LastTerm(x) /\ Agrees(v, y, off - 1)
        /\ \A k \in Nat : Agrees(v, x, k) => Agrees(v, y, k)
    BY <1>11, <2>1, Spliced
  <2> HIDE DEF y
  <2>3. QED BY <1>7, <2>2
<1> HIDE DEF y
<1>13. /\ Typed(q) /\ q.log = y
       /\ q.id = r.id /\ q.Term = r.Term /\ q.Vote = r.Vote /\ q.state = r.state
       /\ q.committed = r.committed /\ q.yes = r.yes /\ q.prs = r.prs
       /\ q.msgs = r.msgs /\ q.panic = r.panic
  BY <1>5, <1>12, WithLog
<1> HIDE DEF q
<1>14. /\ node'[s] = q /\ offset'[s] = off /\ applied'[s] = c /\ ready'[s] = NoReady
       /\ storage'[s] = v /\ prevHardSt'[s] = rd.hard
       /\ \A z \in Server \ {s} :
            /\ node'[z] = node[z] /\ offset'[z] = offset[z] /\ applied'[z] = applied[z]
            /\ ready'[z] = ready[z] /\ storage'[z] = storage[z] /\ prevHardSt'[z] = prevHardSt[z]
  BY <1>1, <1>2, <1>7 DEF TypesInv
<1>15. TypesInv'
  <2>1. node' = [z \in Server |-> node'[z]]
    BY <1>1, <1>2 DEF TypesInv
  <2>2. ASSUME NEW z \in Server PROVE Typed(node'[z]) /\ node'[z].id = z /\ node'[z].msgs = {}
    <3>1. CASE z = s
      BY <1>5, <1>13, <1>14, <3>1
    <3>2. CASE z # s
      BY <1>1, <1>14, <3>2 DEF TypesInv
    <3>3. QED BY <3>1, <3>2
  <2>3. /\ offset' \in [Server -> Nat \ {0}] /\ applied' \in [Server -> Nat]
        /\ prevHardSt' \in [Server -> HardState] /\ storage' \in [Server -> Seq(Entry)]
        /\ ready' \in [Server -> {NoReady} \cup Readies]
    <3>1. off \in Nat \ {0} /\ applied[s] + Len(rd.committed) \in Nat
      BY <1>4, <1>5, <1>11
    <3>2. /\ offset \in [Server -> Nat \ {0}] /\ applied \in [Server -> Nat]
          /\ prevHardSt \in [Server -> HardState] /\ storage \in [Server -> Seq(Entry)]
          /\ ready \in [Server -> {NoReady} \cup Readies]
      BY <1>1 DEF TypesInv
    <3>3. offset' \in [Server -> Nat \ {0}] /\ applied' \in [Server -> Nat]
      BY <1>2, <3>1, <3>2
    <3>4. prevHardSt' \in [Server -> HardState] /\ storage' \in [Server -> Seq(Entry)]
      BY <1>2, <1>4, <1>6, <3>2
    <3>5. ready' \in [Server -> {NoReady} \cup Readies]
      BY <1>2, <3>2
    <3>6. QED BY <3>3, <3>4, <3>5
  <2>4. QED BY <1>1, <1>2, <2>1, <2>2, <2>3 DEF TypesInv
<1>16. DisksGo
  BY <1>1, <1>2, DisksStay
<1>17. Only(s)
  BY <1>2, <1>14 DEF Only, SameAt
<1>18. SameRole(s)
  BY <1>12, <1>13, <1>14 DEF SameRole
<1>19. Issued' \subseteq Issued
  <2>1. ASSUME NEW z \in Server PROVE outbox'[z] \subseteq Issued /\ Handled(z)' \subseteq Issued
    <3>1. Handled(s)' = {}
      BY <1>14 DEF Handled
    <3>2. z # s => Handled(z)' = Handled(z)
      BY <1>14 DEF Handled
    <3>3. QED BY <1>2, <3>1, <3>2, IssuedParts
  <2>2. net' \subseteq Issued
    BY <1>2, IssuedParts
  <2>3. QED BY <2>1, <2>2, NothingNew
<1>20. NewGrants /\ ElectInv(s)' /\ \A m \in Issued' : m \in Issued \/ MsgInv(m)'
  BY <1>15, <1>16, <1>17, <1>18, <1>19, RoleOn
<1>21. HardInv(s)'
  <2>1. Hard(q) = Hard(r)
    BY <1>13 DEF Hard
  <2>2. SameVote(rd.hard, h)
    BY <1>1, <1>2, <1>3 DEF HardInv
  <2>3. Later(h, Hard(r)) /\ \A m \in outbox[s] : m.from = s /\ Pledged(Hard(r), m)
    BY <1>1 DEF HardInv
  <2>4. Hard(node[s])' = Hard(q)
    BY <1>14 DEF Hard
  <2>5. QED BY <1>2, <1>14, <2>1, <2>2, <2>3, <2>4 DEF HardInv
<1>22. ASSUME NEW z PROVE Good(z)' <=> Good(z)
  BY <1>2 DEF Good, Won, Rising
<1>23. Ahead(s)' = v /\ Handed(s)' = c /\ Promised(s)' = c
  BY <1>7, <1>14 DEF Ahead, Handed, Promised
<1>24. DiskInv(s)'
  <2>1. Good(storage[s])' /\ Good(Ahead(s))'
    BY <1>6, <1>14, <1>22, <1>23
  <2>2. offset'[s] <= Len(node'[s].log) + 1 /\ applied'[s] <= node'[s].committed
    <3>1. off <= Len(y) + 1
      BY <1>5, <1>11, <1>12
    <3>2. QED BY <1>7, <1>13, <1>14, <3>1
  <2>3. wal'[s].log = v /\ Agrees(d, v, Len(d)) /\ delivered'[s] = d /\ storage'[s] = v
    BY <1>2, <1>6, <1>14
  <2>4. QED BY <1>14, <2>1, <2>2, <2>3 DEF DiskInv
<1>25. LocalInv(s)'
  <2>1. Whole(q)
    BY <1>7, <1>12, <1>13 DEF Whole
  <2>2. Good(node[s].log)'
    BY <1>12, <1>13, <1>14, <1>22
  <2>3. Agrees(d, y, c)
    <3>1. Agrees(d, v, c)
      BY <1>6, <1>7
    <3>2. c <= c /\ c \in Int
      BY <1>7
    <3>3. QED BY <1>5, <1>6, <1>12, <3>1, <3>2, AgreesOn
  <2>4. /\ node'[s] = q /\ q.log = y /\ q.committed = r.committed /\ storage'[s] = v
        /\ offset'[s] = off /\ delivered'[s] = d /\ wal'[s].log = v /\ ready'[s] = NoReady
    BY <1>2, <1>6, <1>13, <1>14
  <2>5. QED BY <1>7, <1>12, <1>23, <2>1, <2>2, <2>3, <2>4 DEF LocalInv
<1>26. QED BY <1>2, <1>15, <1>16, <1>17, <1>20, <1>21, <1>24, <1>25, StepOn

\* All of it at once (Handle).
LEMMA HandleOn ==
    ASSUME ReadyInv, NEW s \in Server \ Slow, Handle(s)
    PROVE  ReadyInv'
<1> DEFINE C == nextEnts(s)
           r == node[s]
           x == r.log
           n == r.committed
           d == delivered[s]
           h == wal[s].hard
           g == Hard(r)
           w == [hard |-> g, log |-> x]
<1>1. /\ TypesInv /\ HardInv(s) /\ ElectInv(s) /\ DiskInv(s) /\ LocalInv(s)
      /\ TypesOf(s)
  BY TypeFacts DEF ReadyInv, Typing
<1>2. /\ ~r.panic
      /\ outbox' = [outbox EXCEPT ![s] = {}]
      /\ offset' = [offset EXCEPT ![s] = Len(x) + 1]
      /\ applied' = [applied EXCEPT ![s] = n]
      /\ prevHardSt' = [prevHardSt EXCEPT ![s] = g]
      /\ storage' = [storage EXCEPT ![s] = x]
      /\ wal' = [wal EXCEPT ![s] = w]
      /\ net' = net \cup outbox[s]
      /\ Delivers(s, C)
      /\ node' = node /\ ready' = ready /\ timeouts' = timeouts /\ crashes' = crashes
  BY DEF Handle, lastIndex, count
<1>3. ready[s] = NoReady
  BY <1>1 DEF DiskInv
<1>4. /\ x \in Seq(Entry) /\ Len(x) \in Nat /\ n \in Nat /\ applied[s] \in Nat
      /\ g \in HardState /\ h \in HardState /\ outbox[s] \in SUBSET Message
      /\ d \in Seq(Entry) /\ Len(d) \in Nat
  BY <1>1 DEF TypesOf
<1>5. /\ C \in Seq(Entry) /\ Len(C) = n - applied[s]
      /\ \A i \in 1..Len(C) : C[i] = x[applied[s] + i]
      /\ n <= Len(x) /\ applied[s] <= n
  BY <1>1, <1>2, ReadyEntries
<1>6. /\ Whole(r) /\ Good(x) /\ Len(d) = applied[s] /\ Agrees(d, x, Len(d))
  <2>1. Handed(s) = applied[s]
    BY <1>3, <1>4 DEF Handed
  <2>2. QED BY <1>1, <1>2, <2>1 DEF LocalInv
<1> HIDE DEF C
<1>7. /\ delivered' \in [Server -> Seq(Entry)] /\ decided' \in Seq(Entry)
      /\ delivered'[s] = d \o C
      /\ \A z \in Server \ {s} : delivered'[z] = delivered[z]
  BY <1>1, <1>2, <1>5, DeliversFacts
<1>8. Len(delivered'[s]) = n /\ Agrees(delivered'[s], x, n)
  <2>1. Len(d) + Len(C) = n
    BY <1>4, <1>5, <1>6
  <2>2. Len(d) + Len(C) <= Len(x) /\ \A i \in 1..Len(C) : C[i] = x[Len(d) + i]
    BY <1>5, <1>6, <2>1
  <2>3. Len(d \o C) = Len(d) + Len(C) /\ Agrees(d \o C, x, Len(d) + Len(C))
    BY <1>4, <1>5, <1>6, <2>2, DeliveredAgrees
  <2>4. QED BY <1>7, <2>1, <2>3
<1>9. w \in [hard : HardState, log : Seq(Entry)] /\ w.hard = g /\ w.log = x
  BY <1>4
<1> HIDE DEF w
<1>10. /\ outbox'[s] = {} /\ offset'[s] = Len(x) + 1 /\ applied'[s] = n
       /\ prevHardSt'[s] = g /\ storage'[s] = x /\ wal'[s] = w
       /\ \A z \in Server \ {s} :
            /\ outbox'[z] = outbox[z] /\ offset'[z] = offset[z] /\ applied'[z] = applied[z]
            /\ prevHardSt'[z] = prevHardSt[z] /\ storage'[z] = storage[z] /\ wal'[z] = wal[z]
  BY <1>1, <1>2 DEF TypesInv
<1>11. TypesInv'
  <2>1. /\ outbox \in [Server -> SUBSET Message] /\ offset \in [Server -> Nat \ {0}]
        /\ applied \in [Server -> Nat] /\ prevHardSt \in [Server -> HardState]
        /\ storage \in [Server -> Seq(Entry)] /\ net \in SUBSET Message
        /\ wal \in [Server -> [hard : HardState, log : Seq(Entry)]]
    BY <1>1 DEF TypesInv
  <2>2. Len(x) + 1 \in Nat \ {0} /\ {} \in SUBSET Message
    BY <1>4
  <2>3. outbox' \in [Server -> SUBSET Message] /\ net' \in SUBSET Message
    BY <1>2, <1>4, <2>1, <2>2
  <2>4. offset' \in [Server -> Nat \ {0}] /\ applied' \in [Server -> Nat]
    BY <1>2, <1>4, <2>1, <2>2
  <2>5. prevHardSt' \in [Server -> HardState] /\ storage' \in [Server -> Seq(Entry)]
    BY <1>2, <1>4, <2>1
  <2>6. wal' \in [Server -> [hard : HardState, log : Seq(Entry)]]
    BY <1>2, <1>9, <2>1
  <2>7. QED BY <1>1, <1>2, <1>7, <2>3, <2>4, <2>5, <2>6 DEF TypesInv
<1>12. Later(h, g) /\ \A m \in outbox[s] : m.from = s /\ Pledged(g, m)
  BY <1>1 DEF HardInv
<1>13. DisksGo
  <2>1. ASSUME NEW z \in Server \ {s}
        PROVE  wal[z].hard \in HardState /\ wal'[z] = wal[z] /\ Later(wal[z].hard, wal[z].hard)
    BY <1>1, <1>10, TypeFacts DEF Typing, TypesOf, Later
  <2>2. QED BY <1>4, <1>9, <1>10, <1>12, <2>1 DEF DisksGo
<1>14. Only(s)
  BY <1>2, <1>7, <1>10 DEF Only, SameAt
<1>15. SameRole(s)
  BY <1>2 DEF SameRole
<1>16. Issued' \subseteq Issued
  <2>1. ASSUME NEW z \in Server PROVE outbox'[z] \subseteq Issued /\ Handled(z)' \subseteq Issued
    <3>1. Handled(z)' = Handled(z)
      BY <1>2 DEF Handled
    <3>2. QED BY <1>10, <3>1, IssuedParts
  <2>2. net' \subseteq Issued
    BY <1>2, IssuedParts
  <2>3. QED BY <2>1, <2>2, NothingNew
<1>17. NewGrants /\ ElectInv(s)' /\ \A m \in Issued' : m \in Issued \/ MsgInv(m)'
  BY <1>11, <1>13, <1>14, <1>15, <1>16, RoleOn
<1>18. ASSUME NEW m \in net', m \notin net PROVE Pledged(wal'[m.from].hard, m)
  <2>1. m \in outbox[s]
    BY <1>2, <1>18
  <2>2. QED BY <1>9, <1>10, <1>12, <2>1
<1>19. HardInv(s)'
  <2>1. Hard(node[s])' = g
    BY <1>2
  <2>2. Later(g, g) /\ SameVote(g, g)
    BY DEF Later, SameVote
  <2> HIDE DEF g
  <2>3. QED BY <1>2, <1>3, <1>9, <1>10, <2>1, <2>2 DEF HardInv
<1>20. Good(x)'
  <2>1. \A y \in Seq(Entry) : Good(y) => Good(y)'
    BY <1>13, GoodOn
  <2>2. Good(x)
    BY <1>6
  <2>3. Good(node[s].log)'
    BY <1>2, <1>4, <2>1, <2>2
  <2>4. QED BY <2>3
<1>21. Ahead(s)' = x /\ Handed(s)' = n /\ Promised(s)' = n
  BY <1>2, <1>3, <1>4, <1>10 DEF Ahead, Handed, Promised
<1>22. DiskInv(s)'
  <2>1. Good(storage[s])' /\ Good(Ahead(s))'
    <3>1. \A y \in Seq(Entry) : Good(y) => Good(y)'
      BY <1>13, GoodOn
    <3>2. Good(x)
      BY <1>6
    <3>3. QED BY <1>4, <1>10, <1>21, <3>1, <3>2
  <2>2. offset'[s] <= Len(node'[s].log) + 1 /\ applied'[s] <= node'[s].committed
    BY <1>2, <1>4, <1>10
  <2>3. wal'[s].log = x /\ storage'[s] = x /\ ready'[s] = NoReady
    BY <1>2, <1>3, <1>9, <1>10
  <2>4. QED BY <1>8, <2>1, <2>2, <2>3 DEF DiskInv
<1>23. LocalInv(s)'
  <2>1. Agrees(x, x, Len(x)) /\ Agrees(x, x, n)
    BY <1>4, <1>5 DEF Agrees
  <2>2. Good(node[s].log)'
    BY <1>20
  <2>3. /\ node'[s] = r /\ storage'[s] = x /\ offset'[s] - 1 = Len(x)
        /\ wal'[s].log = x /\ ready'[s] = NoReady
    BY <1>2, <1>3, <1>4, <1>9, <1>10
  <2>4. n <= n
    BY <1>4
  <2> HIDE DEF n
  <2>5. QED BY <1>6, <1>8, <1>21, <2>1, <2>2, <2>3, <2>4 DEF LocalInv, n
<1>24. QED BY <1>11, <1>13, <1>14, <1>17, <1>18, <1>19, <1>22, <1>23, StepOn

\* What a save that was cut short leaves is a part of what it was to write.
LEMMA Torn ==
    ASSUME NEW v \in Seq(Entry), NEW rd \in Readies, rd.first - 1 <= Len(v),
           NEW k \in 1..Len(rd.entries)
    PROVE  LET y == SubSeq(v, 1, rd.first - 1) \o SubSeq(rd.entries, 1, k)
           IN  y \in Seq(Entry) /\ Agrees(Appended(v, rd), y, Len(y))
<1> DEFINE f == rd.first - 1
           e == rd.entries
           a == SubSeq(v, 1, f)
           b == SubSeq(e, 1, k)
           y == a \o b
           z == Appended(v, rd)
<1>1. /\ f \in Nat /\ rd.first = f + 1 /\ f <= Len(v) /\ e \in Seq(Entry) /\ Len(e) \in Nat
      /\ k \in Nat /\ k <= Len(e) /\ Len(e) # 0 /\ Len(v) \in Nat
  BY ReadyFacts, LenProperties
<1>2. /\ z \in Seq(Entry) /\ Len(z) = rd.first - 1 + Len(e)
      /\ \A i \in 1..Len(z) : z[i] = IF i < rd.first THEN v[i] ELSE e[i - rd.first + 1]
  <2>1. e # <<>>
    BY <1>1, EmptySeq
  <2>2. QED BY <2>1, AppendedFacts
<1> HIDE DEF f, e, z
<1>3. a \in Seq(Entry) /\ Len(a) = f /\ \A i \in 1..f : a[i] = v[i]
  <2>1. /\ a \in Seq(Entry) /\ Len(a) = f - 1 + 1
        /\ \A i \in 1..(f - 1 + 1) : a[i] = v[1 + i - 1]
    BY <1>1, PartOf
  <2> HIDE DEF a
  <2>2. QED BY <1>1, <2>1
<1>4. b \in Seq(Entry) /\ Len(b) = k /\ \A i \in 1..k : b[i] = e[i]
  <2>1. /\ b \in Seq(Entry) /\ Len(b) = k - 1 + 1
        /\ \A i \in 1..(k - 1 + 1) : b[i] = e[1 + i - 1]
    BY <1>1, PartOf
  <2> HIDE DEF b
  <2>2. QED BY <1>1, <2>1
<1> HIDE DEF a, b
<1>5. /\ y \in Seq(Entry) /\ Len(y) = Len(a) + Len(b)
      /\ \A i \in 1..(Len(a) + Len(b)) : y[i] = IF i <= Len(a) THEN a[i] ELSE b[i - Len(a)]
  <2>1. a \in Seq(Entry) /\ b \in Seq(Entry)
    BY <1>3, <1>4
  <2>2. QED BY <2>1, ConcatProperties
<1> HIDE DEF y
<1>6. ASSUME NEW i \in 1..Len(y) PROVE z[i] = y[i]
  <2>1. i \in 1..(f + k) /\ Len(y) = f + k /\ i \in 1..Len(z)
    BY <1>1, <1>2, <1>3, <1>4, <1>5
  <2>2. CASE i <= f
    <3>1. i \in 1..f /\ i < rd.first
      BY <1>1, <2>1, <2>2
    <3>2. y[i] = a[i] /\ a[i] = v[i]
      BY <1>3, <1>4, <1>5, <2>1, <2>2, <3>1
    <3>3. z[i] = v[i]
      BY <1>2, <2>1, <3>1
    <3>4. QED BY <3>2, <3>3
  <2>3. CASE ~(i <= f)
    <3>1. i - f \in 1..k /\ ~(i < rd.first) /\ i - rd.first + 1 = i - f
      BY <1>1, <2>1, <2>3
    <3>2. y[i] = e[i - f]
      BY <1>3, <1>4, <1>5, <2>1, <2>3, <3>1
    <3>3. z[i] = e[i - f]
      BY <1>2, <2>1, <3>1
    <3>4. QED BY <3>2, <3>3
  <2>4. QED BY <2>2, <2>3
<1>7. Len(y) <= Len(z) /\ Len(y) <= Len(y)
  BY <1>1, <1>2, <1>3, <1>4, <1>5
<1>8. Agrees(z, y, Len(y))
  BY <1>6, <1>7 DEF Agrees
<1>9. QED BY <1>5, <1>8 DEF y, z, a, b, f, e

LEMMA LeftFacts ==
    ASSUME TypesInv, NEW s \in Server, DiskInv(s), NEW w \in Left(s)
    PROVE  w \in [hard : HardState, log : Seq(Entry)] /\ w.hard = wal[s].hard /\ Good(w.log)
<1> DEFINE rd == ready[s]
           v == storage[s]
<1>1. TypesOf(s) /\ wal[s] \in [hard : HardState, log : Seq(Entry)] /\ "save" \in AllTasks
  BY TypeFacts DEF Typing, TypesInv, AllTasks
<1>2. CASE w = wal[s]
  <2>1. Good(wal[s].log)
    BY DEF DiskInv
  <2>2. QED BY <1>1, <1>2, <2>1
<1>3. ASSUME Does(s, "save"), NEW k \in 1..Len(rd.entries),
             w = [wal[s] EXCEPT !.log = SubSeq(wal[s].log, 1, rd.first - 1)
                                          \o SubSeq(rd.entries, 1, k)]
      PROVE  w \in [hard : HardState, log : Seq(Entry)] /\ w.hard = wal[s].hard /\ Good(w.log)
  <2> DEFINE y == SubSeq(v, 1, rd.first - 1) \o SubSeq(rd.entries, 1, k)
  <2>1. ready[s] = NoReady \/ ready[s] \in Readies
    BY <1>1 DEF TypesOf
  <2>2. rd \in Readies /\ rd # NoReady /\ "save" \in rd.todo
    BY <1>1, <1>3, <2>1, DoesFacts
  <2>3. /\ wal[s].log = v /\ v \in Seq(Entry) /\ rd.first - 1 <= Len(v)
        /\ Ahead(s) = Appended(v, rd) /\ Good(Ahead(s)) /\ Ahead(s) \in Seq(Entry)
    BY <1>1, <2>2, AheadType DEF DiskInv, TypesOf, Ahead
  <2>4. y \in Seq(Entry) /\ Agrees(Appended(v, rd), y, Len(y))
    BY <2>2, <2>3, Torn
  <2>5. w = [wal[s] EXCEPT !.log = y]
    BY <1>3, <2>3
  <2> HIDE DEF y
  <2>6. Good(y)
    BY <2>3, <2>4, GoodPart
  <2>7. w.log = y /\ w.hard = wal[s].hard /\ w \in [hard : HardState, log : Seq(Entry)]
    BY <1>1, <2>4, <2>5
  <2>8. QED BY <2>6, <2>7
<1>4. QED BY <1>2, <1>3 DEF Left

\* newRaft and loadState
LEMMA RestartTyped ==
    ASSUME NEW s \in Server, NEW w \in [hard : HardState, log : Seq(Entry)]
    PROVE  LET q == restartNode(s, w)
           IN  /\ Typed(q) /\ q.id = s /\ q.msgs = {} /\ q.state = Follower
               /\ q.log = w.log /\ Hard(q) = w.hard /\ q.committed = w.hard.Commit
               /\ ~q.panic => Whole(q)
<1> DEFINE h == w.hard
           p == newRaft(s, h.Term, h.Vote, w.log, h.Commit)
           b == h.Commit > Len(w.log)
           q == [p EXCEPT !.panic = b]
<1>1. /\ h \in HardState /\ h.Term \in Nat /\ h.Vote \in Server \cup {None} /\ h.Commit \in Nat
      /\ w.log \in Seq(Entry) /\ Len(w.log) \in Nat
      /\ h = [Term |-> h.Term, Vote |-> h.Vote, Commit |-> h.Commit]
  BY LenProperties DEF HardState
<1>2. NoProgress \in [Server -> Progress]
  BY DEF NoProgress, NewProgress, Progress, ProgressState
<1> HIDE DEF h
<1>3. /\ Shaped(q, RaftFields)
      /\ q.id = s /\ q.Term = h.Term /\ q.Vote = h.Vote /\ q.state = Follower /\ q.lead = None
      /\ q.leadTransferee = None /\ q.log = w.log /\ q.committed = h.Commit /\ q.elapsed = FALSE
      /\ q.yes = {} /\ q.no = {} /\ q.prs = NoProgress /\ q.msgs = {}
      /\ q.panic = b
  BY DEF newRaft, Shaped, RaftFields
<1>4. b \in BOOLEAN
  OBVIOUS
<1>5. restartNode(s, w) = q
  BY DEF restartNode, h
<1> HIDE DEF q, b
<1>6. q.state \in States /\ q.state # Candidate /\ q.state # Leader
  BY <1>3 DEF States, Follower, Candidate, Leader
<1>7. Typed(q)
  BY <1>1, <1>2, <1>3, <1>4, <1>6 DEF Typed, Raft
<1>8. ~q.panic => Whole(q)
  <2>1. ASSUME ~q.panic PROVE q.committed <= Len(q.log)
    <3>1. ~b
      BY <1>3, <2>1
    <3>2. ~(h.Commit > Len(w.log))
      BY <3>1 DEF b
    <3>3. QED BY <1>1, <1>3, <3>2
  <2>2. QED BY <1>6, <1>7, <2>1 DEF Whole
<1>9. Hard(q) = h
  BY <1>1, <1>3 DEF Hard
<1>10. QED BY <1>3, <1>5, <1>7, <1>8, <1>9 DEF h

\* Crash: the node starts with the hard state that is on disk, and entries that were won.
LEMMA CrashOn ==
    ASSUME ReadyInv, NEW s \in Server, Crash(s)
    PROVE  ReadyInv'
<1>1. /\ TypesInv /\ HardInv(s) /\ ElectInv(s) /\ DiskInv(s) /\ LocalInv(s)
      /\ TypesOf(s)
  BY TypeFacts DEF ReadyInv, Typing
<1>2. PICK w \in Left(s) :
        /\ wal' = [wal EXCEPT ![s] = w]
        /\ storage' = [storage EXCEPT ![s] = w.log]
        /\ offset' = [offset EXCEPT ![s] = Len(w.log) + 1]
        /\ prevHardSt' = [prevHardSt EXCEPT ![s] = w.hard]
        /\ node' = [node EXCEPT ![s] = restartNode(s, w)]
  BY DEF Crash
<1>3. /\ crashes[s] < MaxCrashes[s] /\ crashes' = [crashes EXCEPT ![s] = crashes[s] + 1]
      /\ outbox' = [outbox EXCEPT ![s] = {}] /\ applied' = [applied EXCEPT ![s] = 0]
      /\ ready' = [ready EXCEPT ![s] = NoReady] /\ delivered' = [delivered EXCEPT ![s] = <<>>]
      /\ net' = net /\ decided' = decided /\ timeouts' = timeouts
  BY DEF Crash
<1> DEFINE q == restartNode(s, w)
           x == w.log
           h == w.hard
<1>4. w \in [hard : HardState, log : Seq(Entry)] /\ h = wal[s].hard /\ Good(x)
  BY <1>1, LeftFacts
<1>5. h \in HardState /\ x \in Seq(Entry) /\ Len(x) \in Nat
  BY <1>4, LenProperties
<1>6. /\ Typed(q) /\ q.id = s /\ q.msgs = {} /\ q.state = Follower
      /\ q.log = x /\ Hard(q) = h /\ q.committed = h.Commit
      /\ ~q.panic => Whole(q)
  BY <1>4, RestartTyped
<1> HIDE DEF q
<1>7. /\ node'[s] = q /\ outbox'[s] = {} /\ offset'[s] = Len(x) + 1 /\ applied'[s] = 0
      /\ prevHardSt'[s] = h /\ storage'[s] = x /\ wal'[s] = w /\ ready'[s] = NoReady
      /\ delivered'[s] = <<>>
      /\ \A z \in Server \ {s} : SameAt(z)
  <2>1. /\ DOMAIN outbox = Server /\ DOMAIN offset = Server /\ DOMAIN applied = Server
        /\ DOMAIN prevHardSt = Server /\ DOMAIN storage = Server /\ DOMAIN wal = Server
        /\ DOMAIN ready = Server /\ DOMAIN delivered = Server
    BY <1>1 DEF TypesInv
  <2>2. node = [z \in Server |-> node[z]]
    BY <1>1 DEF TypesInv
  <2>3. DOMAIN node = Server
    BY <2>2
  <2>4. node' = [node EXCEPT ![s] = q]
    BY <1>2 DEF q
  <2>5. QED BY <1>2, <1>3, <2>1, <2>3, <2>4 DEF SameAt
<1>8. Only(s)
  BY <1>7 DEF Only
<1>9. TypesInv'
  <2>1. node' = [z \in Server |-> node'[z]]
    <3>1. node = [z \in Server |-> node[z]] /\ node' = [node EXCEPT ![s] = q]
      BY <1>1, <1>2 DEF TypesInv, q
    <3>2. QED BY <3>1
  <2>2. ASSUME NEW z \in Server PROVE Typed(node'[z]) /\ node'[z].id = z /\ node'[z].msgs = {}
    <3>1. CASE z = s
      BY <1>6, <1>7, <3>1
    <3>2. CASE z # s
      BY <1>1, <1>7, <3>2 DEF TypesInv, SameAt
    <3>3. QED BY <3>1, <3>2
  <2>3. /\ outbox \in [Server -> SUBSET Message] /\ offset \in [Server -> Nat \ {0}]
        /\ applied \in [Server -> Nat] /\ prevHardSt \in [Server -> HardState]
        /\ storage \in [Server -> Seq(Entry)] /\ ready \in [Server -> {NoReady} \cup Readies]
        /\ wal \in [Server -> [hard : HardState, log : Seq(Entry)]]
        /\ delivered \in [Server -> Seq(Entry)] /\ decided \in Seq(Entry)
        /\ timeouts \in [Server -> Nat] /\ crashes \in [Server -> Nat]
        /\ \A z \in Server : timeouts[z] <= MaxTimeouts[z] /\ crashes[z] <= MaxCrashes[z]
        /\ net \in SUBSET Message
    BY <1>1 DEF TypesInv
  <2>4. Len(x) + 1 \in Nat \ {0} /\ {} \in SUBSET Message /\ 0 \in Nat
    BY <1>5
  <2>5. outbox' \in [Server -> SUBSET Message] /\ offset' \in [Server -> Nat \ {0}]
    BY <1>2, <1>3, <2>3, <2>4
  <2>6. applied' \in [Server -> Nat] /\ prevHardSt' \in [Server -> HardState]
    BY <1>2, <1>3, <1>5, <2>3, <2>4
  <2>7. storage' \in [Server -> Seq(Entry)] /\ ready' \in [Server -> {NoReady} \cup Readies]
    BY <1>2, <1>3, <1>5, <2>3
  <2>8. wal' \in [Server -> [hard : HardState, log : Seq(Entry)]]
    BY <1>2, <1>4, <2>3
  <2>9. delivered' \in [Server -> Seq(Entry)]
    <3>1. <<>> \in Seq(Entry)
      OBVIOUS
    <3>2. QED BY <1>3, <2>3, <3>1
  <2>10. /\ crashes' \in [Server -> Nat]
         /\ \A z \in Server : timeouts'[z] <= MaxTimeouts[z] /\ crashes'[z] <= MaxCrashes[z]
    <3>1. crashes[s] \in Nat /\ crashes[s] + 1 \in Nat /\ MaxCrashes[s] \in Nat
      BY <2>3, ReadyAssumption
    <3>2. crashes[s] + 1 <= MaxCrashes[s]
      BY <1>3, <3>1
    <3>3. QED BY <1>3, <2>3, <3>1, <3>2
  <2>11. QED BY <1>3, <2>1, <2>2, <2>3, <2>5, <2>6, <2>7, <2>8, <2>9, <2>10 DEF TypesInv
<1>10. DisksGo
  <2>1. Later(h, h)
    BY DEF Later
  <2>2. ASSUME NEW z \in Server \ {s}
        PROVE  wal[z].hard \in HardState /\ wal'[z] = wal[z] /\ Later(wal[z].hard, wal[z].hard)
    BY <1>1, <1>7, TypeFacts DEF Typing, TypesOf, Later, SameAt
  <2>3. QED BY <1>4, <1>5, <1>7, <2>1, <2>2 DEF DisksGo
<1>11. Issued' \subseteq Issued
  <2>1. ASSUME NEW z \in Server PROVE outbox'[z] \subseteq Issued /\ Handled(z)' \subseteq Issued
    <3>1. Handled(s)' = {}
      BY <1>7 DEF Handled
    <3>2. z # s => Handled(z)' = Handled(z) /\ outbox'[z] = outbox[z]
      BY <1>7 DEF Handled, SameAt
    <3>3. QED BY <1>7, <3>1, <3>2, IssuedParts
  <2>2. net' \subseteq Issued
    BY <1>3, IssuedParts
  <2>3. QED BY <2>1, <2>2, NothingNew
<1>12. NewGrants /\ \A m \in Issued' : m \in Issued \/ MsgInv(m)'
  BY <1>11 DEF NewGrants
<1>13. HardInv(s)'
  <2>1. Hard(node[s])' = h
    BY <1>6, <1>7 DEF Hard
  <2>2. Later(h, h) /\ SameVote(h, h)
    BY DEF Later, SameVote
  <2> HIDE DEF h
  <2>3. wal'[s].hard = h
    BY <1>7 DEF h
  <2>4. QED BY <1>7, <2>1, <2>2, <2>3 DEF HardInv
<1>14. ElectInv(s)'
  <2>1. node'[s].state # Candidate /\ node'[s].state # Leader
    BY <1>6, <1>7 DEF Follower, Candidate, Leader
  <2>2. QED BY <2>1 DEF ElectInv
<1>15. \A y \in Seq(Entry) : Good(y) => Good(y)'
  BY <1>10, GoodOn
<1>16. Ahead(s)' = x /\ Handed(s)' = 0 /\ Promised(s)' = 0
  BY <1>7 DEF Ahead, Handed, Promised
<1>17. Len(<<>>) = 0 /\ Agrees(<<>>, x, 0) /\ Agrees(x, x, 0) /\ Agrees(x, x, Len(x))
  BY <1>5 DEF Agrees
<1>18. DiskInv(s)'
  <2>1. Good(storage[s])' /\ Good(Ahead(s))'
    BY <1>4, <1>5, <1>7, <1>15, <1>16
  <2>2. offset'[s] <= Len(node'[s].log) + 1
    BY <1>5, <1>6, <1>7
  <2>3. applied'[s] <= node'[s].committed
    <3>1. h.Commit \in Nat
      BY <1>5 DEF HardState
    <3>2. QED BY <1>6, <1>7, <3>1
  <2>4. wal'[s].log = x /\ storage'[s] = x
    BY <1>7
  <2>5. QED BY <1>7, <1>17, <2>1, <2>2, <2>3, <2>4 DEF DiskInv
<1>19. LocalInv(s)'
  <2>1. Good(node[s].log)'
    BY <1>4, <1>5, <1>6, <1>7, <1>15
  <2>2. node'[s] = q /\ storage'[s] = x /\ offset'[s] - 1 = Len(x) /\ wal'[s].log = x
    BY <1>5, <1>7
  <2>3. 0 <= q.committed
    <3>1. h.Commit \in Nat
      BY <1>5 DEF HardState
    <3>2. QED BY <1>6, <3>1
  <2>4. QED BY <1>6, <1>7, <1>16, <1>17, <2>1, <2>2, <2>3 DEF LocalInv
<1>20. QED BY <1>3, <1>8, <1>9, <1>10, <1>12, <1>13, <1>14, <1>18, <1>19, StepOn

-----------------------------------------------------------------------------
\* Steps of the node

\* Where the entries that a step appended begin: the logs agree below, and no further.
LEMMA AfterFacts ==
    ASSUME NEW x \in Seq(Entry), NEW y \in Seq(Entry)
    PROVE  LET a == after(x, y)
           IN  /\ a \in Nat /\ a # 0 /\ a <= Len(y) + 1
               /\ Agrees(x, y, a - 1)
               /\ \A n \in Nat : Agrees(x, y, n) => n < a
<1> DEFINE S == {i \in 1..(Len(y) + 1) : i > Len(x) \/ i > Len(y) \/ x[i] # y[i]}
           a == after(x, y)
<1>1. Len(x) \in Nat /\ Len(y) \in Nat
  BY LenProperties
<1>2. S \in SUBSET Nat /\ S # {}
  <2>1. Len(y) + 1 \in S
    BY <1>1
  <2>2. QED BY <1>1, <2>1
<1>3. a = Min(S)
  BY DEF after
<1>4. a \in S /\ \A i \in S : a <= i
  <2> HIDE DEF S, a
  <2>1. QED BY <1>2, <1>3, LeastOf
<1> HIDE DEF a
<1>5. a \in Nat /\ a # 0 /\ a <= Len(y) + 1
  BY <1>1, <1>4
<1>6. ASSUME NEW j \in 1..(a - 1) PROVE j <= Len(x) /\ j <= Len(y) /\ x[j] = y[j]
  <2>1. j \in 1..(Len(y) + 1) /\ ~(a <= j)
    BY <1>1, <1>5
  <2>2. j \notin S
    BY <1>4, <2>1
  <2>3. QED BY <1>1, <2>1, <2>2
<1>7. Agrees(x, y, a - 1)
  <2>1. a - 1 # 0 => a - 1 \in 1..(a - 1)
    BY <1>5
  <2>2. a - 1 <= Len(x) /\ a - 1 <= Len(y)
    BY <1>1, <1>5, <1>6, <2>1
  <2>3. QED BY <1>6, <2>2 DEF Agrees
<1>8. ASSUME NEW n \in Nat, Agrees(x, y, n) PROVE n < a
  <2>1. ASSUME a <= n PROVE FALSE
    <3>1. a \in 1..n
      BY <1>5, <2>1
    <3>2. x[a] = y[a] /\ a <= Len(x) /\ a <= Len(y)
      BY <1>1, <1>5, <1>8, <2>1, <3>1 DEF Agrees
    <3>3. QED BY <1>1, <1>4, <1>5, <3>2
  <2>2. QED BY <1>5, <2>1
<1>9. QED BY <1>5, <1>7, <1>8 DEF a

\* A node whose messages were taken.
LEMMA WithoutMsgs ==
    ASSUME NEW q, Typed(q)
    PROVE  LET p == [q EXCEPT !.msgs = {}]
           IN  /\ Typed(p) /\ p.msgs = {} /\ (Whole(q) => Whole(p)) /\ Hard(p) = Hard(q)
               /\ p.id = q.id /\ p.Term = q.Term /\ p.Vote = q.Vote /\ p.state = q.state
               /\ p.log = q.log /\ p.committed = q.committed /\ p.yes = q.yes
               /\ p.panic = q.panic
<1> DEFINE p == [q EXCEPT !.msgs = {}]
<1>1. Shaped(q, RaftFields)
  BY DEF Typed, Raft
<1>2. /\ Shaped(p, RaftFields) /\ p.msgs = {}
      /\ p.id = q.id /\ p.Term = q.Term /\ p.Vote = q.Vote /\ p.state = q.state
      /\ p.log = q.log /\ p.committed = q.committed /\ p.yes = q.yes /\ p.no = q.no
      /\ p.prs = q.prs /\ p.panic = q.panic /\ p.lead = q.lead
      /\ p.leadTransferee = q.leadTransferee /\ p.elapsed = q.elapsed
  BY <1>1 DEF Shaped, RaftFields
<1> HIDE DEF p
<1>3. Typed(p)
  BY <1>2 DEF Typed, Raft
<1>4. Whole(q) => Whole(p)
  BY <1>2, <1>3 DEF Whole
<1>5. Hard(p) = Hard(q)
  BY <1>2 DEF Hard
<1>6. QED BY <1>2, <1>3, <1>4, <1>5 DEF p

\* The voters that granted s its term: counted, or on the way.
Granted(s) ==
    node[s].yes \cup {m.from : m \in {n \in net : Grant(n) /\ n.to = s /\ n.term = node[s].Term}}

\* A node between two steps.
LEMMA Resting ==
    ASSUME ReadyInv, NEW s \in Server, ~node[s].panic
    PROVE  LET r == node[s]
               G == Granted(s)
           IN  /\ Poised(r) /\ Good(r.log) /\ Rested(r, G)
               /\ G \in SUBSET Server /\ {s} \cup G \subseteq Polled(s)
               /\ r.state = Candidate =>
                    \A z \in G \ {s} : Bound(wal[z].hard, r.Term, s) /\ Bound(wal[s].hard, r.Term, s)
<1> DEFINE r == node[s]
           G == Granted(s)
           N == {n \in net : Grant(n) /\ n.to = s /\ n.term = r.Term}
<1>1. /\ TypesOf(s) /\ ElectInv(s) /\ LocalInv(s) /\ net \subseteq Message /\ net \subseteq Issued
  BY TypeFacts, IssuedParts DEF ReadyInv, Typing, TypesInv
<1>2. Poised(r) /\ Good(r.log)
  BY <1>1 DEF LocalInv, Poised, TypesOf
<1>3. G \in SUBSET Server
  <2>1. r.yes \in SUBSET Server
    BY <1>1 DEF TypesOf
  <2>2. \A m \in N : m.from \in Server
    BY <1>1 DEF Message
  <2>3. QED BY <2>1, <2>2 DEF Granted
<1>4. {s} \cup G \subseteq Polled(s)
  BY <1>1 DEF Granted, Polled
<1>5. Rested(r, G)
  <2>1. Raft(r) /\ r.msgs = {} /\ r.id = s
    BY <1>1 DEF TypesOf, Typed
  <2>2. r.state \in {Candidate, Leader} => r.Vote = r.id
    BY <1>1, <2>1 DEF ElectInv
  <2>3. r.yes \subseteq {r.id} \cup G
    BY DEF Granted
  <2>4. QED BY <2>1, <2>2, <2>3 DEF Rested
<1>6. ASSUME r.state = Candidate, NEW z \in G \ {s}
      PROVE  Bound(wal[z].hard, r.Term, s) /\ Bound(wal[s].hard, r.Term, s)
  <2>1. CASE z \in r.yes
    BY <1>1, <1>6, <2>1 DEF ElectInv
  <2>2. ASSUME NEW n \in N, n.from = z
        PROVE  Bound(wal[z].hard, r.Term, s) /\ Bound(wal[s].hard, r.Term, s)
    <3>1. Pledged(wal[n.from].hard, n) /\ MsgInv(n)
      BY <1>1 DEF ReadyInv
    <3>2. Bound(wal[n.from].hard, n.term, n.to) /\ Bound(wal[n.to].hard, n.term, n.to)
      BY <3>1 DEF Pledged, MsgInv
    <3>3. QED BY <2>2, <3>2
  <2>3. QED BY <1>6, <2>1, <2>2 DEF Granted
<1>7. QED BY <1>2, <1>3, <1>4, <1>5, <1>6

\* What Step, hup and propose make of the node of s.
StepsTo(s, q) ==
    /\ Elects(node[s], q, Granted(s))
    /\ Proceeds(node[s], q, net) \/ \E m \in net : Copies(node[s], q, m)

\* A node that leads has won its term, and its log has no later one.
LEMMA StepLeads ==
    ASSUME Several, ReadyInv, NEW s \in Server, ~node[s].panic, NEW q, StepsTo(s, q),
           q.state = Leader
    PROVE  /\ q.Vote = s /\ Bound(wal[s].hard, q.Term, s) /\ Won(q.Term)
           /\ LastTerm(node[s].log) <= q.Term
<1> DEFINE r == node[s]
           G == Granted(s)
           h == wal[s].hard
           t == LastTerm(r.log)
<1>1. /\ Rested(r, G) /\ G \in SUBSET Server /\ {s} \cup G \subseteq Polled(s)
      /\ r.state = Candidate => \A z \in G \ {s} : Bound(wal[z].hard, r.Term, s) /\ Bound(h, r.Term, s)
  BY Resting
<1>2. TypesOf(s) /\ ElectInv(s) /\ r.id = s /\ r.Term \in Nat /\ t \in Nat
  BY TypeFacts, LastTermType DEF ReadyInv, Typing, TypesOf
<1>3. Elects(r, q, G) /\ q.id = s
  BY <1>2 DEF StepsTo, Elects
<1>4. CASE r.state = Leader /\ q.Term = r.Term /\ q.Vote = r.Vote
  BY <1>2, <1>4 DEF ElectInv
<1>5. CASE q.Vote = q.id /\ Wins(q.id, {q.id})
  BY <1>3, <1>5 DEF Several
<1>6. ASSUME q.Vote = q.id, r.state = Candidate, q.Term = r.Term, Wins(q.id, {q.id} \cup G)
      PROVE  Bound(h, r.Term, s) /\ Won(r.Term) /\ t <= r.Term
  <2> DEFINE Q == {s} \cup G
  <2>1. Wins(s, Q) /\ Q \in SUBSET Server
    BY <1>1, <1>3, <1>6
  <2>2. Q # {s}
    BY <2>1 DEF Several
  <2>3. PICK z \in G : z # s
    BY <2>2
  <2>4. Bound(h, r.Term, s)
    BY <1>1, <1>6, <2>3
  <2>5. \A y \in Q : Bound(wal[y].hard, r.Term, s)
    BY <1>1, <1>6, <2>4
  <2> HIDE DEF Q
  <2>6. Won(r.Term)
    BY <2>1, <2>5 DEF Won
  <2>7. ASSUME t > r.Term PROVE FALSE
    <3>1. Barred(s, t)
      BY <1>2, <1>6, <2>7 DEF ElectInv
    <3>2. PICK c \in Server, P \in SUBSET Server :
            Wins(c, P) /\ \A y \in P : Bound(wal[y].hard, t, c) /\ y \notin Polled(s)
      BY <3>1 DEF Barred
    <3>3. Q \cap P # {}
      BY <2>1, <3>2, CoreAssumption
    <3>4. Q \subseteq Polled(s)
      BY <1>1 DEF Q
    <3>5. QED BY <3>2, <3>3, <3>4
  <2>8. QED BY <1>2, <2>4, <2>6, <2>7
<1>7. \/ r.state = Leader /\ q.Term = r.Term /\ q.Vote = r.Vote
      \/ q.Vote = q.id /\ Wins(q.id, {q.id})
      \/ q.Vote = q.id /\ r.state = Candidate /\ q.Term = r.Term /\ Wins(q.id, {q.id} \cup G)
  BY <1>3 DEF Elects
<1>8. CASE q.Vote = q.id /\ r.state = Candidate /\ q.Term = r.Term /\ Wins(q.id, {q.id} \cup G)
  BY <1>3, <1>6, <1>8
<1>9. QED BY <1>4, <1>5, <1>7, <1>8

\* The log of the node after the step.
LEMMA StepLog ==
    ASSUME Several, ReadyInv, NEW s \in Server, ~node[s].panic, NEW q, StepsTo(s, q)
    PROVE  LET r == node[s]
           IN  /\ Whole(q) /\ q.id = s /\ q.log \in Seq(Entry) /\ Good(q.log)
               /\ q.committed >= r.committed /\ Agrees(r.log, q.log, r.committed)
               /\ q.state = Leader => LastTerm(q.log) <= q.Term
               /\ q.state = Candidate =>
                    q.log = r.log /\ (q.Term > r.Term \/ (r.state = Candidate /\ q.Term = r.Term))
<1> DEFINE r == node[s]
           x == r.log
           y == q.log
<1>1. /\ Poised(r) /\ Good(x) /\ r.id = s /\ x \in Seq(Entry) /\ Len(x) \in Nat /\ r.committed \in Nat
      /\ r.committed <= Len(x)
  BY Resting, TypeFacts DEF ReadyInv, Typing, TypesOf, Poised, Whole
<1>2. Agrees(x, x, r.committed)
  BY <1>1 DEF Agrees
<1>3. q.state = Leader => Won(q.Term) /\ LastTerm(x) <= q.Term
  BY StepLeads
<1>4. Whole(q) /\ y \in Seq(Entry) /\ q.id = s /\ q.Term \in Nat /\ q.committed >= r.committed
      /\ (q.state = Leader => q.Term # 0)
  BY <1>1 DEF StepsTo, Proceeds, Copies, Calm, Whole, Typed, Raft
<1>5. CASE Proceeds(r, q, net)
  <2>1. q.state = Candidate => q.Term > r.Term \/ (r.state = Candidate /\ q.Term = r.Term)
    BY <1>5 DEF Proceeds
  <2>2. CASE y = x
    BY <1>1, <1>2, <1>3, <1>4, <2>1, <2>2
  <2>3. CASE Grows(r, q)
    <3>1. PICK e \in Entry : e.term = q.Term /\ y = Append(x, e)
      BY <2>3 DEF Grows
    <3>2. q.state = Leader /\ q.state # Candidate
      BY <2>3 DEF Grows, Leader, Candidate
    <3>3. /\ Len(y) = Len(x) + 1 /\ y[Len(x) + 1] = e
          /\ \A i \in 1..Len(x) : y[i] = x[i]
      BY <1>1, <3>1, AppendProperties
    <3>4. Agrees(x, y, r.committed)
      BY <1>1, <3>3 DEF Agrees
    <3>5. LastTerm(y) = q.Term
      BY <1>1, <3>1, <3>3 DEF LastTerm, termAt
    <3>6. ASSUME NEW i \in 1..Len(x) PROVE x[i].term <= q.Term /\ x[i].term \in Nat
      <4> DEFINE n == Len(x)
      <4>1. n \in 1..n /\ i \in 1..n
        BY <1>1
      <4>2. x[i].term <= x[n].term /\ LastTerm(x) = x[n].term
        BY <1>1, <4>1 DEF Good, Rising, LastTerm, termAt
      <4>3. x[i] \in Entry /\ x[n] \in Entry
        BY <1>1, <4>1, ElementOfSeq
      <4>4. x[i].term \in Nat /\ x[n].term \in Nat
        BY <4>3 DEF Entry
      <4>5. QED BY <1>3, <1>4, <3>2, <4>2, <4>4
    <3>7. ASSUME NEW i \in 1..Len(y), NEW j \in 1..i PROVE y[i].term # 0 /\ y[j].term <= y[i].term
      <4>1. CASE i = Len(x) + 1
        <5>1. y[i].term = q.Term /\ q.Term # 0
          BY <1>4, <3>1, <3>2, <3>3, <4>1
        <5>2. j = i \/ j \in 1..Len(x)
          BY <1>1, <4>1
        <5>3. j = i => y[j].term <= y[i].term
          BY <1>4, <5>1
        <5>4. j \in 1..Len(x) => y[j].term <= y[i].term
          BY <3>3, <3>6, <5>1
        <5>5. QED BY <5>1, <5>2, <5>3, <5>4
      <4>2. CASE i # Len(x) + 1
        <5>1. i \in 1..Len(x) /\ j \in 1..Len(x)
          BY <1>1, <3>3, <4>2
        <5>2. x[i].term # 0 /\ x[j].term <= x[i].term
          BY <1>1, <5>1 DEF Good, Rising
        <5>3. QED BY <3>3, <5>1, <5>2
      <4>3. QED BY <4>1, <4>2
    <3>8. ASSUME NEW i \in 1..Len(y) PROVE Won(y[i].term)
      <4>1. i = Len(x) + 1 \/ i \in 1..Len(x)
        BY <1>1, <3>3
      <4>2. QED BY <1>1, <1>3, <3>1, <3>2, <3>3, <4>1 DEF Good
    <3>9. Good(y)
      <4>1. Rising(y)
        <5>1. \A i \in 1..Len(y) : i \in 1..i
          OBVIOUS
        <5>2. QED BY <3>7, <5>1 DEF Rising
      <4>2. QED BY <3>8, <4>1 DEF Good
    <3>10. q.Term <= q.Term
      BY <1>4
    <3>11. QED BY <1>4, <3>2, <3>4, <3>5, <3>9, <3>10
  <2>4. QED BY <1>5, <2>2, <2>3 DEF Proceeds
<1>6. ASSUME NEW m \in net, Copies(r, q, m)
      PROVE  Good(y) /\ Agrees(x, y, r.committed) /\ q.state = Follower
  <2>1. /\ Rising(y) /\ Agrees(x, y, r.committed) /\ q.state = Follower /\ m.type = "MsgApp"
        /\ FromEither(y, x, m.entries)
    BY <1>6 DEF Copies
  <2>2. \A j \in 1..Len(m.entries) : Won(m.entries[j].term)
    <3>1. m \in Issued
      BY IssuedParts
    <3>2. MsgInv(m)
      BY <3>1 DEF ReadyInv
    <3>3. QED BY <2>1, <3>2 DEF MsgInv
  <2>3. \A j \in 1..Len(x) : Won(x[j].term)
    BY <1>1 DEF Good
  <2>4. \A i \in 1..Len(y) : Won(y[i].term)
    BY <2>1, <2>2, <2>3 DEF FromEither
  <2>5. QED BY <2>1, <2>4 DEF Good
<1>7. CASE \E m \in net : Copies(r, q, m)
  <2>1. Good(y) /\ Agrees(x, y, r.committed) /\ q.state = Follower
    BY <1>6, <1>7
  <2>2. q.state # Candidate /\ q.state # Leader
    BY <2>1 DEF Follower, Candidate, Leader
  <2>3. QED BY <1>4, <2>1, <2>2
<1>8. QED BY <1>5, <1>7 DEF StepsTo

\* The messages of the step.
LEMMA StepMessages ==
    ASSUME Several, ReadyInv, NEW s \in Server, ~node[s].panic, NEW q, StepsTo(s, q),
           NEW n \in q.msgs
    PROVE  /\ n \in Message /\ n.from = s /\ MsgInv(n) /\ Pledged(Hard(q), n)
           /\ Grant(n) => n.term = q.Term
<1> DEFINE r == node[s]
<1>1. Elects(r, q, Granted(s)) /\ r.id = s
  BY TypeFacts DEF StepsTo, ReadyInv, Typing, TypesOf
<1>2. Sound(n) /\ n.from = s /\ (Grant(n) => n.term = q.Term /\ n.to = q.Vote)
  BY <1>1 DEF Elects
<1>3. Plain(n, q) \/ Gives(n, q, net)
  BY DEF StepsTo, Proceeds, Copies, Calm
<1>4. q.log \in Seq(Entry) /\ Good(q.log) /\ q.id = s
  BY StepLog
<1>5. n \in Message
  BY <1>3 DEF Plain, Gives
<1>6. n.entries \in Seq(Entry) /\ Len(n.entries) \in Nat /\ n.index \in Nat
  BY <1>5, LenProperties DEF Message
<1>7. ASSUME n.type = "MsgApp", n.entries # <<>> PROVE Carries(n, q.log)
  BY <1>3, <1>7 DEF Plain, Gives, Grant
<1>8. Proper(n)
  <2>1. CASE n.type = "MsgApp"
    <3>1. Rising(q.log)
      BY <1>4 DEF Good
    <3>2. n.entries # <<>> => Carries(n, q.log)
      BY <1>7, <2>1
    <3>3. QED BY <1>4, <1>5, <3>1, <3>2, CarriesProper
  <2>2. CASE n.type # "MsgApp"
    BY <2>2 DEF Proper
  <2>3. QED BY <2>1, <2>2
<1>9. ASSUME n.type = "MsgApp", NEW k \in 1..Len(n.entries) PROVE Won(n.entries[k].term)
  <2>1. n.entries # <<>>
    BY <1>6, <1>9, EmptySeq
  <2>2. n.index + Len(n.entries) <= Len(q.log) /\ n.entries[k] = q.log[n.index + k]
    BY <1>7, <1>9, <2>1 DEF Carries
  <2>3. Len(q.log) \in Nat
    BY <1>4, LenProperties
  <2>4. n.index + k \in 1..Len(q.log)
    BY <1>6, <2>2, <2>3
  <2>5. QED BY <1>4, <2>2, <2>4 DEF Good
<1>10. ASSUME Grant(n) PROVE Bound(wal[n.to].hard, n.term, n.to)
  <2>1. Gives(n, q, net)
    BY <1>3, <1>10 DEF Plain
  <2>2. PICK m \in net : m.type = "MsgVote" /\ n.to = m.from /\ n.term = m.term
    BY <2>1 DEF Gives
  <2>3. Pledged(wal[m.from].hard, m)
    BY DEF ReadyInv
  <2>4. QED BY <2>2, <2>3 DEF Pledged
<1>11. MsgInv(n)
  BY <1>2, <1>8, <1>9, <1>10 DEF MsgInv
<1>12. Pledged(Hard(q), n)
  <2>1. Grant(n) => Bound(Hard(q), n.term, n.to)
    BY <1>2 DEF Bound, Hard
  <2>2. ASSUME n.type = "MsgVote" PROVE Bound(Hard(q), n.term, n.from)
    <3>1. q.state = Candidate /\ n.term = q.Term
      BY <1>3, <2>2 DEF Plain, Gives, Grant
    <3>2. q.Vote = s
      BY <1>1, <1>4, <3>1 DEF Elects
    <3>3. QED BY <1>2, <3>1, <3>2 DEF Bound, Hard
  <2>3. QED BY <2>1, <2>2 DEF Pledged
<1>13. QED BY <1>2, <1>5, <1>11, <1>12

\* What the step is to elections.
LEMMA BecomesElects ==
    ASSUME Several, ReadyInv, NEW s \in Server, ~node[s].panic, NEW q, StepsTo(s, q),
           wal' = wal, NewGrants, node'[s] = [q EXCEPT !.msgs = {}]
    PROVE  ElectInv(s)'
<1> DEFINE r == node[s]
           h == wal[s].hard
           G == Granted(s)
           t == LastTerm(r.log)
<1>1. /\ TypesOf(s) /\ r.id = s /\ ElectInv(s) /\ HardInv(s) /\ r.Term \in Nat
      /\ h \in HardState /\ h.Term \in Nat /\ h.Term <= r.Term /\ r.log \in Seq(Entry)
  <2>1. TypesOf(s) /\ ElectInv(s) /\ HardInv(s)
    BY TypeFacts DEF ReadyInv, Typing
  <2>2. r.id = s /\ r.Term \in Nat /\ h \in HardState /\ r.log \in Seq(Entry)
    BY <2>1 DEF TypesOf
  <2>3. h.Term \in Nat
    BY <2>2 DEF HardState
  <2>4. h.Term <= r.Term
    <3>1. Later(h, Hard(r))
      BY <2>1 DEF HardInv
    <3>2. Hard(r).Term = r.Term
      BY DEF Hard
    <3> HIDE DEF h, r
    <3>3. QED BY <2>2, <2>3, <3>1, <3>2 DEF Later
  <2>5. QED BY <2>1, <2>2, <2>3, <2>4
<1>2. /\ Good(r.log) /\ G \in SUBSET Server /\ {s} \cup G \subseteq Polled(s)
      /\ r.state = Candidate => \A z \in G \ {s} : Bound(wal[z].hard, r.Term, s) /\ Bound(h, r.Term, s)
  BY Resting
<1>3. /\ Elects(r, q, G) /\ q.id = s /\ q.Term \in Nat /\ q.Term >= r.Term
      /\ q.state # Candidate \/ q.state # Leader
  BY <1>1 DEF StepsTo, Elects, Raft, Candidate, Leader
<1>4. Typed(q) /\ q.yes \in SUBSET Server
  <2>1. Typed(q)
    BY StepLog DEF Whole
  <2>2. QED BY <2>1 DEF Typed
<1>5. /\ node'[s].Term = q.Term /\ node'[s].Vote = q.Vote /\ node'[s].state = q.state
      /\ node'[s].log = q.log /\ node'[s].yes = q.yes
  BY <1>4, WithoutMsgs
<1>6. /\ q.state = Leader =>
            q.Vote = s /\ Bound(h, q.Term, s) /\ Won(q.Term) /\ LastTerm(q.log) <= q.Term
      /\ q.state = Candidate =>
            /\ q.log = r.log
            /\ q.Term > r.Term \/ (r.state = Candidate /\ q.Term = r.Term)
  BY StepLeads, StepLog
<1>7. q.state = Candidate =>
        /\ q.Vote = s
        /\ q.yes \subseteq {s} \/ (r.state = Candidate /\ q.Term = r.Term /\ q.yes \subseteq {s} \cup G)
  BY <1>3 DEF Elects
<1>8. ASSUME q.state = Candidate, NEW z \in q.yes \ {s}
      PROVE  Bound(wal[z].hard, q.Term, s) /\ Bound(h, q.Term, s)
  BY <1>2, <1>7, <1>8
<1>9. ASSUME q.state = Candidate, NEW k, k = t, k > q.Term PROVE Barred(s, k)'
  <2>1. k \in Nat
    BY <1>1, <1>9, LastTermType
  <2>2. ASSUME NEW c \in Server, NEW P \in SUBSET Server, Wins(c, P),
               \A z \in P : Bound(wal[z].hard, k, c) /\ z \notin Polled(s)'
        PROVE  Barred(s, k)'
    <3>1. \A z \in P : Bound(wal'[z].hard, k, c) /\ z \notin Polled(s)'
      BY <2>2
    <3>2. QED BY <2>2, <3>1 DEF Barred
  <2>3. ASSUME NEW c \in Server, NEW P \in SUBSET Server, Wins(c, P),
               \A z \in P : Bound(wal[z].hard, k, c),
               NEW z \in P
        PROVE  wal[z].hard.Term \in Nat /\ wal[z].hard.Term >= k
    <3>1. wal[z].hard \in HardState
      BY TypeFacts DEF ReadyInv, Typing, TypesOf
    <3>2. QED BY <2>1, <2>3, <3>1 DEF Bound, HardState
  <2>4. CASE r.state = Candidate /\ q.Term = r.Term
    <3>1. Barred(s, k)
      BY <1>9, <1>1, <2>4 DEF ElectInv, ReadyInv
    <3>2. PICK c \in Server, P \in SUBSET Server :
            Wins(c, P) /\ \A z \in P : Bound(wal[z].hard, k, c) /\ z \notin Polled(s)
      BY <3>1 DEF Barred
    <3>3. ASSUME NEW z \in P PROVE z \notin Polled(s)'
      <4>1. wal[z].hard.Term \in Nat /\ wal[z].hard.Term >= k
        BY <2>3, <3>2
      <4>2. z # s /\ z \notin q.yes
        BY <1>2, <1>7, <1>9, <3>2
      <4>3. ASSUME NEW n \in Issued', Grant(n), n.to = s, n.term = q.Term, n.from = z PROVE FALSE
        <5>1. CASE n \in Issued
          BY <2>4, <3>2, <4>3, <5>1 DEF Polled
        <5>2. CASE wal[n.from].hard.Term <= n.term
          BY <1>3, <1>9, <2>1, <4>1, <4>3, <5>2
        <5>3. QED BY <4>3, <5>1, <5>2 DEF NewGrants
      <4>4. QED BY <1>5, <4>2, <4>3 DEF Polled
    <3>4. QED BY <2>2, <3>2, <3>3
  <2>5. CASE q.Term > r.Term
    <3>1. Won(k)
      <4>1. k # 0
        BY <1>3, <1>9, <2>1
      <4>2. Len(r.log) \in 1..Len(r.log) /\ k = r.log[Len(r.log)].term
        BY <1>9, <4>1 DEF LastTerm, termAt
      <4>3. QED BY <1>2, <4>2 DEF Good
    <3>2. PICK c \in Server, P \in SUBSET Server :
            Wins(c, P) /\ \A z \in P : Bound(wal[z].hard, k, c)
      BY <3>1 DEF Won
    <3>3. q.yes \subseteq {s}
      BY <1>1, <1>3, <1>7, <1>9, <2>5
    <3>4. ASSUME NEW z \in P PROVE z \notin Polled(s)'
      <4>1. wal[z].hard.Term \in Nat /\ wal[z].hard.Term >= k
        BY <2>3, <3>2
      <4>2. z # s
        BY <1>1, <1>3, <1>9, <2>1, <2>5, <4>1
      <4>3. ASSUME NEW n \in Issued', Grant(n), n.to = s, n.term = q.Term, n.from = z PROVE FALSE
        <5>1. CASE n \in Issued
          <6>1. Bound(h, q.Term, s)
            BY <4>3, <5>1 DEF ReadyInv, MsgInv
          <6>2. h.Term >= q.Term
            BY <1>1, <1>3, <6>1 DEF Bound
          <6>3. QED BY <1>1, <1>3, <2>5, <6>2
        <5>2. CASE wal[n.from].hard.Term <= n.term
          BY <1>3, <1>9, <2>1, <4>1, <4>3, <5>2
        <5>3. QED BY <4>3, <5>1, <5>2 DEF NewGrants
      <4>4. QED BY <1>5, <3>3, <4>2, <4>3 DEF Polled
    <3>5. QED BY <2>2, <3>2, <3>4
  <2>6. QED BY <1>6, <1>9, <2>4, <2>5
<1>10. ASSUME q.state = Candidate, LastTerm(q.log) > q.Term PROVE Barred(s, LastTerm(node[s].log))'
  <2>1. \A k : k = t => Barred(s, k)'
    BY <1>6, <1>9, <1>10
  <2>2. node'[s].log = r.log
    BY <1>5, <1>6, <1>10
  <2>3. LastTerm(node'[s].log) = t
    BY <2>2
  <2>4. QED BY <2>1, <2>3
<1>11. ASSUME q.state = Leader PROVE Won(node[s].Term)'
  <2>1. \A k : Won(k) => Won(k)'
    BY DEF Won
  <2>2. Won(q.Term)
    BY <1>6, <1>11
  <2>3. \A k : k = q.Term => Won(k)'
    BY <2>1, <2>2
  <2>4. QED BY <1>5, <2>3
<1>12. wal'[s].hard = h /\ \A z \in Server : wal'[z] = wal[z]
  OBVIOUS
<1>13. QED
  <2>1. node'[s].state \in {Candidate, Leader} => node'[s].Vote = s
    BY <1>5, <1>6, <1>7
  <2>2. ASSUME node'[s].state = Candidate
        PROVE  /\ \A z \in node'[s].yes \ {s} :
                    Bound(wal'[z].hard, node'[s].Term, s) /\ Bound(wal'[s].hard, node'[s].Term, s)
               /\ LastTerm(node'[s].log) > node'[s].Term => Barred(s, LastTerm(node[s].log))'
    BY <1>4, <1>5, <1>8, <1>10, <1>12, <2>2
  <2>3. ASSUME node'[s].state = Leader
        PROVE  Bound(wal'[s].hard, node'[s].Term, s) /\ Won(node[s].Term)'
                    /\ LastTerm(node'[s].log) <= node'[s].Term
    BY <1>5, <1>6, <1>11, <1>12, <2>3
  <2>4. QED BY <2>1, <2>2, <2>3 DEF ElectInv

\* The log of the node before and after a step that keeps what is committed.
LEMMA BecomesLog ==
    ASSUME TypesInv, NEW s \in Server, DiskInv(s), LocalInv(s), ~node[s].panic,
           NEW y \in Seq(Entry), NEW k \in Nat, Agrees(node[s].log, y, node[s].committed),
           k >= node[s].committed
    PROVE  LET o == Min({offset[s], after(node[s].log, y)})
               rd == ready[s]
           IN  /\ o \in Nat \ {0} /\ o <= offset[s] /\ o <= Len(y) + 1
               /\ Agrees(storage[s], y, o - 1)
               /\ Agrees(delivered[s], y, Handed(s)) /\ Agrees(wal[s].log, y, Handed(s))
               /\ Promised(s) <= k /\ Agrees(Ahead(s), y, Promised(s))
               /\ rd # NoReady =>
                    /\ o <= rd.first
                    /\ \A i \in 1..Len(rd.committed) : rd.committed[i] = y[applied[s] + i]
                    /\ rd.tasks[1] # "save" \/ "save" \notin rd.todo =>
                            Agrees(wal[s].log, y, Promised(s))
<1> DEFINE x == node[s].log
           n == node[s].committed
           a == after(x, y)
           o == Min({offset[s], a})
           rd == ready[s]
<1>1. /\ TypesOf(s) /\ x \in Seq(Entry) /\ Len(x) \in Nat /\ n \in Nat /\ offset[s] \in Nat
      /\ offset[s] # 0 /\ storage[s] \in Seq(Entry) /\ delivered[s] \in Seq(Entry)
      /\ wal[s].log \in Seq(Entry) /\ applied[s] \in Nat
  BY TypeFacts DEF Typing, TypesOf
<1>2. /\ Ahead(s) \in Seq(Entry) /\ Handed(s) \in Nat /\ Promised(s) \in Nat
      /\ Handed(s) <= Promised(s)
  BY AheadType
<1>3. /\ Agrees(storage[s], x, offset[s] - 1)
      /\ Agrees(delivered[s], x, Handed(s)) /\ Agrees(wal[s].log, x, Handed(s))
      /\ Promised(s) <= n /\ Agrees(Ahead(s), x, Promised(s))
      /\ rd # NoReady =>
            /\ offset[s] <= rd.first
            /\ \A i \in 1..Len(rd.committed) : rd.committed[i] = x[applied[s] + i]
            /\ rd.tasks[1] # "save" \/ "save" \notin rd.todo => Agrees(wal[s].log, x, Promised(s))
  BY DEF LocalInv
<1>4. /\ a \in Nat /\ a # 0 /\ a <= Len(y) + 1 /\ Agrees(x, y, a - 1)
  BY <1>1, AfterFacts
<1>5. Agrees(x, y, n) /\ k >= n
  OBVIOUS
<1> HIDE DEF x, n, a
<1>6. o = IF offset[s] <= a THEN offset[s] ELSE a
  <2>1. offset[s] \in Int /\ a \in Int
    BY <1>1, <1>4
  <2>2. QED BY <2>1, MinOfTwo
<1> HIDE DEF o
<1>7. /\ o \in Nat \ {0} /\ o <= offset[s] /\ o <= a /\ o <= Len(y) + 1
      /\ o - 1 \in Int /\ o - 1 <= offset[s] - 1 /\ o - 1 <= a - 1
  <2>1. Len(y) \in Nat
    BY LenProperties
  <2>2. QED BY <1>1, <1>4, <1>6, <2>1
<1>8. Agrees(storage[s], y, o - 1)
  <2>1. /\ Len(storage[s]) \in Nat /\ offset[s] - 1 \in Int /\ a - 1 \in Int
    BY <1>1, <1>4, LenProperties
  <2>2. Agrees(storage[s], x, o - 1)
    BY <1>1, <1>3, <1>7, <2>1, AgreesLess
  <2>3. QED BY <1>1, <1>4, <1>7, <2>1, <2>2, AgreesOn
<1>9. Handed(s) \in Int /\ Promised(s) \in Int /\ n \in Int /\ Handed(s) <= n /\ Promised(s) <= n
  BY <1>1, <1>2, <1>3
<1>10. Agrees(delivered[s], y, Handed(s)) /\ Agrees(wal[s].log, y, Handed(s))
  BY <1>1, <1>3, <1>5, <1>9, AgreesOn
<1>11. Agrees(Ahead(s), y, Promised(s))
  BY <1>1, <1>2, <1>3, <1>5, <1>9, AgreesOn
<1>12. ASSUME rd # NoReady
       PROVE  /\ o <= rd.first
              /\ \A i \in 1..Len(rd.committed) : rd.committed[i] = y[applied[s] + i]
              /\ rd.tasks[1] # "save" \/ "save" \notin rd.todo => Agrees(wal[s].log, y, Promised(s))
  <2>1. rd \in Readies /\ rd.first \in Nat /\ Len(rd.committed) \in Nat
    BY <1>1, <1>12, ReadyFacts DEF TypesOf
  <2>2. o <= rd.first
    BY <1>1, <1>3, <1>7, <1>12, <2>1
  <2>3. ASSUME NEW i \in 1..Len(rd.committed) PROVE rd.committed[i] = y[applied[s] + i]
    <3>1. Promised(s) = applied[s] + Len(rd.committed)
      BY <1>12 DEF Promised
    <3>2. applied[s] + i \in 1..n
      <4> DEFINE b == applied[s]
                 l == Len(rd.committed)
      <4>1. b \in Nat /\ l \in Nat /\ n \in Nat /\ b + l <= n /\ i \in 1..l
        BY <1>1, <1>9, <2>1, <3>1
      <4> HIDE DEF b, l
      <4>2. b + i \in 1..n
        BY <4>1
      <4>3. QED BY <4>2 DEF b
    <3>3. x[applied[s] + i] = y[applied[s] + i]
      BY <1>5, <3>2 DEF Agrees
    <3>4. QED BY <1>3, <1>12, <3>3
  <2>4. rd.tasks[1] # "save" \/ "save" \notin rd.todo => Agrees(wal[s].log, y, Promised(s))
    BY <1>1, <1>3, <1>5, <1>9, <1>12, AgreesOn
  <2>5. QED BY <2>2, <2>3, <2>4
<1>13. Promised(s) <= k
  BY <1>1, <1>2, <1>3, <1>5
<1>14. QED BY <1>7, <1>8, <1>10, <1>11, <1>12, <1>13 DEF o, a, x

\* Any step of the node (Becomes).
LEMMA BecomesOn ==
    ASSUME Several, ReadyInv, NEW s \in Server, NEW q, StepsTo(s, q), Becomes(s, q),
           net' \subseteq net, timeouts' \in [Server -> Nat],
           \A z \in Server : timeouts'[z] <= MaxTimeouts[z]
    PROVE  ReadyInv'
<1> DEFINE r == node[s]
           p == [q EXCEPT !.msgs = {}]
           o == Min({offset[s], after(r.log, q.log)})
           h == wal[s].hard
           g == Hard(r)
           f == Hard(q)
           rd == ready[s]
<1>1. /\ TypesInv /\ HardInv(s) /\ ElectInv(s) /\ DiskInv(s) /\ LocalInv(s)
      /\ TypesOf(s)
  BY TypeFacts DEF ReadyInv, Typing
<1>2. /\ ~r.panic
      /\ node' = [node EXCEPT ![s] = p]
      /\ outbox' = [outbox EXCEPT ![s] = outbox[s] \cup q.msgs]
      /\ offset' = [offset EXCEPT ![s] = o]
      /\ applied' = applied /\ prevHardSt' = prevHardSt /\ ready' = ready /\ storage' = storage
      /\ wal' = wal /\ delivered' = delivered /\ decided' = decided /\ crashes' = crashes
  BY DEF Becomes, disk
<1>3. /\ Whole(q) /\ q.id = s /\ q.log \in Seq(Entry) /\ Good(q.log)
      /\ q.committed >= r.committed /\ Agrees(r.log, q.log, r.committed)
      /\ Typed(q) /\ q.committed \in Nat /\ q.Term \in Nat
  BY <1>2, StepLog DEF Whole, Typed, Raft
<1>4. \A n \in q.msgs : /\ n \in Message /\ n.from = s /\ MsgInv(n) /\ Pledged(f, n)
                        /\ Grant(n) => n.term = q.Term
  BY <1>2, StepMessages
<1>5. /\ Typed(p) /\ p.msgs = {} /\ Whole(p) /\ Hard(p) = f
      /\ p.id = s /\ p.log = q.log /\ p.committed = q.committed /\ p.panic = q.panic
  BY <1>3, WithoutMsgs
<1>6. /\ r.Term \in Nat /\ g \in HardState /\ h \in HardState /\ f \in HardState
      /\ r.committed \in Nat /\ outbox[s] \in SUBSET Message /\ applied[s] \in Nat
  <2>1. q.Vote \in Server \cup {None}
    BY <1>3 DEF Typed
  <2>2. f \in HardState
    BY <1>3, <2>1 DEF Hard, HardState
  <2>3. QED BY <1>1, <2>2 DEF TypesOf
<1>7. /\ o \in Nat \ {0} /\ o <= offset[s] /\ o <= Len(q.log) + 1
      /\ Agrees(storage[s], q.log, o - 1)
      /\ Agrees(delivered[s], q.log, Handed(s)) /\ Agrees(wal[s].log, q.log, Handed(s))
      /\ Promised(s) <= q.committed /\ Agrees(Ahead(s), q.log, Promised(s))
      /\ rd # NoReady =>
            /\ o <= rd.first
            /\ \A i \in 1..Len(rd.committed) : rd.committed[i] = q.log[applied[s] + i]
            /\ rd.tasks[1] # "save" \/ "save" \notin rd.todo =>
                    Agrees(wal[s].log, q.log, Promised(s))
  BY <1>1, <1>2, <1>3, BecomesLog
<1> HIDE DEF o
<1>8. /\ node'[s] = p /\ outbox'[s] = outbox[s] \cup q.msgs /\ offset'[s] = o
      /\ \A z \in Server \ {s} :
            node'[z] = node[z] /\ outbox'[z] = outbox[z] /\ offset'[z] = offset[z]
  <2>1. node = [z \in Server |-> node[z]] /\ DOMAIN outbox = Server /\ DOMAIN offset = Server
    BY <1>1 DEF TypesInv
  <2>2. DOMAIN node = Server
    BY <2>1
  <2> HIDE DEF p
  <2>3. QED BY <1>2, <2>1, <2>2
<1>9. TypesInv'
  <2>1. node' = [z \in Server |-> node'[z]]
    <3>1. node = [z \in Server |-> node[z]]
      BY <1>1 DEF TypesInv
    <3> HIDE DEF p
    <3>2. QED BY <1>2, <3>1
  <2>2. ASSUME NEW z \in Server PROVE Typed(node'[z]) /\ node'[z].id = z /\ node'[z].msgs = {}
    <3>1. CASE z = s
      BY <1>5, <1>8, <3>1
    <3>2. CASE z # s
      BY <1>1, <1>8, <3>2 DEF TypesInv
    <3>3. QED BY <3>1, <3>2
  <2>3. outbox' \in [Server -> SUBSET Message]
    <3>1. outbox \in [Server -> SUBSET Message] /\ q.msgs \subseteq Message
      BY <1>1, <1>4 DEF TypesInv
    <3>2. outbox[s] \cup q.msgs \in SUBSET Message
      BY <1>6, <3>1
    <3>3. QED BY <1>2, <3>1, <3>2
  <2>4. offset' \in [Server -> Nat \ {0}] /\ net' \in SUBSET Message
    <3>1. offset \in [Server -> Nat \ {0}] /\ net \in SUBSET Message
      BY <1>1 DEF TypesInv
    <3>2. QED BY <1>2, <1>7, <3>1
  <2>5. QED BY <1>1, <1>2, <2>1, <2>2, <2>3, <2>4 DEF TypesInv
<1>10. DisksGo
  BY <1>1, <1>2, DisksStay
<1>11. Only(s)
  BY <1>2, <1>8 DEF Only, SameAt
<1>12. ASSUME NEW m \in Issued' PROVE m \in Issued \/ m \in q.msgs
  <2>1. \A z \in Server : Handled(z)' = Handled(z)
    BY <1>2 DEF Handled
  <2>2. m \in net' => m \in Issued
    BY IssuedParts
  <2>3. ASSUME NEW z \in Server PROVE m \in outbox'[z] => m \in Issued \/ m \in q.msgs
    BY <1>8, IssuedParts
  <2>4. ASSUME NEW z \in Server PROVE m \in Handled(z)' => m \in Issued
    BY <2>1, IssuedParts
  <2>5. QED BY <1>12, <2>2, <2>3, <2>4 DEF Issued
<1>13. Later(h, g) /\ Later(g, f)
  <2>1. Later(h, g)
    BY <1>1 DEF HardInv
  <2>2. q.Term >= r.Term /\ (q.Term = r.Term /\ r.Vote # None => q.Vote = r.Vote)
    BY DEF StepsTo, Elects
  <2>3. q.Term > r.Term \/ q.Term = r.Term
    BY <1>3, <1>6, <2>2
  <2>4. Later(g, f)
    BY <2>2, <2>3 DEF Later, Hard
  <2>5. QED BY <2>1, <2>4
<1>14. NewGrants
  <2>1. h.Term <= r.Term /\ r.Term <= q.Term
    <3>1. g.Term = r.Term /\ f.Term = q.Term /\ h.Term \in Nat
      BY <1>6 DEF Hard, HardState
    <3> HIDE DEF h, g, f, r
    <3>2. QED BY <1>3, <1>6, <1>13, <3>1 DEF Later
  <2>2. h.Term \in Nat
    BY <1>6 DEF HardState
  <2>3. ASSUME NEW n \in q.msgs, Grant(n) PROVE wal[n.from].hard.Term <= n.term
    <3>1. n.from = s /\ n.term = q.Term
      BY <1>4, <2>3
    <3>2. QED BY <1>3, <1>6, <2>1, <2>2, <3>1
  <2>4. QED BY <1>12, <2>3 DEF NewGrants
<1>15. ASSUME NEW m \in Issued' PROVE m \in Issued \/ MsgInv(m)'
  <2>1. ASSUME m \in q.msgs PROVE MsgInv(m)'
    <3>1. MsgInv(m)
      BY <1>4, <2>1
    <3>2. QED BY <1>2, <3>1 DEF MsgInv, Sound, Proper, Rising, Won, Grant
  <2>2. QED BY <1>12, <2>1
<1>16. ElectInv(s)'
  BY <1>2, <1>8, <1>14, BecomesElects
<1>17. HardInv(s)'
  <2>1. Later(h, f)
    BY <1>6, <1>13, LaterOn
  <2>2. \A m \in outbox[s] : m.from = s /\ Pledged(g, m)
    BY <1>1 DEF HardInv
  <2>3. \A m \in outbox[s] : m.from = s /\ Pledged(f, m)
    <3>1. \A m \in Message : Pledged(g, m) => Pledged(f, m)
      BY <1>6, <1>13, PledgedLater
    <3>2. QED BY <1>6, <2>2, <3>1
  <2>4. \A m \in outbox'[s] : m.from = s /\ Pledged(f, m)
    BY <1>4, <1>8, <2>3
  <2>5. ASSUME rd # NoReady PROVE Later(rd.hard, f)
    <3>1. rd.hard \in HardState
      BY <1>1, <2>5, ReadyFacts DEF TypesOf
    <3>2. Later(rd.hard, g)
      BY <1>1, <2>5 DEF HardInv
    <3>3. QED BY <1>6, <1>13, <3>1, <3>2, LaterOn
  <2>6. Hard(node[s])' = f
    BY <1>5, <1>8 DEF Hard
  <2>7. /\ rd = NoReady => SameVote(prevHardSt[s], h)
        /\ rd # NoReady =>
            /\ Later(h, rd.hard)
            /\ "save" \notin rd.todo => SameVote(rd.hard, h)
            /\ \A m \in rd.msgs :
                /\ m.from = s /\ Pledged(rd.hard, m)
                /\ Pledged(h, m) \/ ("save" \in rd.todo /\ rd.tasks # Tasks(TRUE, FALSE))
    BY <1>1 DEF HardInv
  <2>8. wal'[s].hard = h /\ ready'[s] = rd /\ prevHardSt'[s] = prevHardSt[s]
    BY <1>2
  <2> HIDE DEF h, f, rd
  <2>9. QED BY <2>1, <2>4, <2>5, <2>6, <2>7, <2>8 DEF HardInv
<1>18. Ahead(s)' = Ahead(s) /\ Handed(s)' = Handed(s) /\ Promised(s)' = Promised(s)
  BY <1>2 DEF Ahead, Handed, Promised
<1>19. ASSUME NEW z PROVE Good(z)' <=> Good(z)
  BY <1>2 DEF Good, Won, Rising
<1>20. DiskInv(s)'
  <2>1. Good(storage[s])' /\ Good(Ahead(s))'
    BY <1>1, <1>2, <1>18, <1>19 DEF DiskInv
  <2>2. offset'[s] <= Len(node'[s].log) + 1
    BY <1>5, <1>7, <1>8
  <2>3. applied'[s] <= node'[s].committed
    <3>1. applied[s] <= r.committed
      BY <1>1 DEF DiskInv
    <3>2. applied[s] <= q.committed
      BY <1>3, <1>6, <3>1
    <3>3. QED BY <1>2, <1>5, <1>8, <3>2
  <2>4. /\ storage'[s] = storage[s] /\ wal'[s] = wal[s] /\ ready'[s] = rd
        /\ delivered'[s] = delivered[s]
    BY <1>2
  <2>5. QED BY <1>1, <1>18, <2>1, <2>2, <2>3, <2>4 DEF DiskInv
<1>21. LocalInv(s)'
  <2>1. Good(node[s].log)'
    BY <1>3, <1>5, <1>8, <1>19
  <2>2. /\ node'[s] = p /\ storage'[s] = storage[s] /\ offset'[s] = o /\ wal'[s] = wal[s]
        /\ delivered'[s] = delivered[s] /\ ready'[s] = rd /\ applied'[s] = applied[s]
    BY <1>2, <1>8
  <2>3. Len(delivered[s]) = Handed(s)
    BY <1>1, <1>2 DEF LocalInv
  <2> HIDE DEF p, rd
  <2>4. QED BY <1>5, <1>7, <1>18, <2>1, <2>2, <2>3 DEF LocalInv, rd
<1>22. QED BY <1>9, <1>10, <1>11, <1>14, <1>15, <1>16, <1>17, <1>20, <1>21, StepOn

-----------------------------------------------------------------------------
\* The actions of the node

LEMMA TimeoutOn ==
    ASSUME Several, ReadyInv, NEW s \in Server, Timeout(s)
    PROVE  ReadyInv'
<1> DEFINE q == hup(node[s])
<1>1. /\ timeouts[s] < MaxTimeouts[s] /\ timeouts' = [timeouts EXCEPT ![s] = timeouts[s] + 1]
      /\ Becomes(s, q) /\ ~node[s].panic /\ net' = net
  BY DEF Timeout, Becomes
<1>2. Poised(node[s]) /\ Rested(node[s], Granted(s))
  BY <1>1, Resting
<1>3. StepsTo(s, q)
  <2>1. Elects(node[s], q, Granted(s)) /\ Proceeds(node[s], q, net)
    BY <1>2, HupElects, HupProceeds
  <2>2. QED BY <2>1 DEF StepsTo
<1> HIDE DEF q
<1>4. /\ timeouts' \in [Server -> Nat]
      /\ \A z \in Server : timeouts'[z] <= MaxTimeouts[z]
  <2>1. timeouts \in [Server -> Nat] /\ \A z \in Server : timeouts[z] <= MaxTimeouts[z]
    BY DEF ReadyInv, TypesInv
  <2>2. timeouts[s] \in Nat /\ timeouts[s] + 1 \in Nat /\ MaxTimeouts[s] \in Nat
    BY <2>1, ReadyAssumption
  <2>3. timeouts[s] + 1 <= MaxTimeouts[s]
    BY <1>1, <2>2
  <2>4. QED BY <1>1, <2>1, <2>2, <2>3
<1>5. net' \subseteq net
  BY <1>1
<1>6. QED BY <1>1, <1>3, <1>4, <1>5, BecomesOn

LEMMA ReceiveOn ==
    ASSUME Several, ReadyInv, NEW m \in net, Receive(m)
    PROVE  ReadyInv'
<1> DEFINE s == m.to
           r == node[s]
           q == Step(r, m)
           G == Granted(s)
<1>1. Becomes(s, q) /\ ~r.panic /\ net' = net \ {m} /\ timeouts' = timeouts
  BY DEF Receive, Becomes
<1>2. m \in Message /\ s \in Server /\ MsgInv(m)
  <2>1. m \in Message /\ m \in Issued
    BY IssuedParts DEF ReadyInv, TypesInv
  <2>2. QED BY <2>1 DEF ReadyInv, Message
<1>3. Poised(r) /\ Rested(r, G) /\ Good(r.log)
  BY <1>1, <1>2, Resting
<1>4. Elects(r, q, G)
  <2>1. Sound(m)
    BY <1>2 DEF MsgInv
  <2>2. Grant(m) /\ m.term = r.Term => m.from \in G
    BY DEF Granted
  <2> HIDE DEF G, r, s
  <2>3. QED BY <1>3, <2>1, <2>2, StepElects
<1>5. Reacts(r, q, m)
  <2>1. Rising(r.log) /\ Proper(m)
    BY <1>2, <1>3 DEF Good, MsgInv
  <2>2. QED BY <1>2, <1>3, <2>1, StepReacts
<1>6. StepsTo(s, q)
  <2>1. CASE Proceeds(r, q, {m})
    <3>1. Proceeds(r, q, net)
      BY <2>1 DEF Proceeds, Gives
    <3>2. QED BY <1>4, <3>1 DEF StepsTo
  <2>2. CASE Copies(r, q, m)
    BY <1>4, <2>2 DEF StepsTo
  <2>3. QED BY <1>5, <2>1, <2>2 DEF Reacts
<1> HIDE DEF q
<1>7. /\ timeouts' \in [Server -> Nat] /\ \A z \in Server : timeouts'[z] <= MaxTimeouts[z]
      /\ net' \subseteq net
  BY <1>1 DEF ReadyInv, TypesInv
<1>8. QED BY <1>1, <1>2, <1>6, <1>7, BecomesOn

LEMMA ProposeOn ==
    ASSUME Several, ReadyInv, NEW s \in Server, NEW v \in Value, Propose(s, v)
    PROVE  ReadyInv'
<1> DEFINE q == propose(node[s], v)
<1>1. Becomes(s, q) /\ ~node[s].panic /\ net' = net /\ timeouts' = timeouts
  BY DEF Propose, Becomes
<1>2. Poised(node[s]) /\ Rested(node[s], Granted(s))
  BY <1>1, Resting
<1>3. StepsTo(s, q)
  <2>1. Frame(node[s], q)
    BY <1>2, ProposeFrame DEF Rested
  <2>2. Elects(node[s], q, Granted(s))
    BY <1>2, <2>1, FrameElects
  <2>3. Proceeds(node[s], q, net)
    BY <1>2, ProposeProceeds
  <2>4. QED BY <2>2, <2>3 DEF StepsTo
<1> HIDE DEF q
<1>4. /\ timeouts' \in [Server -> Nat] /\ \A z \in Server : timeouts'[z] <= MaxTimeouts[z]
      /\ net' \subseteq net
  BY <1>1 DEF ReadyInv, TypesInv
<1>5. QED BY <1>1, <1>3, <1>4, BecomesOn

\* A step that changes nothing.
LEMMA StutterOn ==
    ASSUME ReadyInv, UNCHANGED vars
    PROVE  ReadyInv'
<1>1. /\ node' = node /\ outbox' = outbox /\ offset' = offset /\ applied' = applied
      /\ prevHardSt' = prevHardSt /\ ready' = ready /\ storage' = storage /\ wal' = wal
      /\ delivered' = delivered /\ decided' = decided /\ net' = net
      /\ timeouts' = timeouts /\ crashes' = crashes
  BY DEF vars, raft, disk, count
<1>2. TypesInv'
  BY <1>1 DEF ReadyInv, TypesInv
<1>3. Issued' = Issued
  BY <1>1 DEF Issued, Handled
<1>4. ASSUME NEW m \in Issued PROVE MsgInv(m)'
  BY <1>1 DEF ReadyInv, MsgInv, Sound, Proper, Rising, Won, Grant
<1>5. ASSUME NEW s \in Server PROVE (HardInv(s) /\ ElectInv(s) /\ DiskInv(s) /\ LocalInv(s))'
  <2>1. HardInv(s) /\ ElectInv(s) /\ DiskInv(s) /\ LocalInv(s)
    BY DEF ReadyInv
  <2>2. HardInv(s)'
    BY <1>1, <2>1 DEF HardInv
  <2>3. ElectInv(s)'
    BY <1>1, <1>3, <2>1 DEF ElectInv, Won, Barred, Polled
  <2>4. DiskInv(s)'
    BY <1>1, <2>1 DEF DiskInv, Good, Won, Ahead
  <2>5. LocalInv(s)'
    BY <1>1, <2>1 DEF LocalInv, Good, Won, Ahead, Handed, Promised
  <2>6. QED BY <2>2, <2>3, <2>4, <2>5
<1>6. QED BY <1>1, <1>2, <1>3, <1>4, <1>5 DEF ReadyInv

\* Every step keeps the invariant.
LEMMA NextOn ==
    ASSUME Several, ReadyInv, [Next]_vars
    PROVE  ReadyInv'
<1>1. ASSUME NEW s \in Server \ Slow, Handle(s) PROVE ReadyInv'
  BY <1>1, HandleOn
<1>2. ASSUME NEW s \in Slow, Ready(s) \/ Save(s) \/ Apply(s) \/ Send(s) \/ Advance(s)
      PROVE  ReadyInv'
  <2>1. s \in Server
    BY ReadyAssumption
  <2>2. QED BY <1>2, <2>1, ReadyOn, SaveOn, ApplyOn, SendOn, AdvanceOn
<1>3. ASSUME NEW s \in Server, Timeout(s) \/ Crash(s) \/ \E v \in Value : Propose(s, v)
      PROVE  ReadyInv'
  BY <1>3, TimeoutOn, CrashOn, ProposeOn
<1>4. ASSUME NEW m \in net, Receive(m) PROVE ReadyInv'
  BY <1>4, ReceiveOn
<1>5. CASE UNCHANGED vars
  BY <1>5, StutterOn
<1>6. QED BY <1>1, <1>2, <1>3, <1>4, <1>5 DEF Next

\* The servers start with nothing, and have sent nothing.
LEMMA InitOn ==
    ASSUME Init
    PROVE  ReadyInv
<1> DEFINE h0 == [Term |-> 0, Vote |-> None, Commit |-> 0]
           w0 == [hard |-> h0, log |-> <<>>]
<1>1. /\ h0 \in HardState /\ <<>> \in Seq(Entry) /\ w0 \in [hard : HardState, log : Seq(Entry)]
      /\ w0.hard = h0 /\ w0.log = <<>> /\ Len(<<>>) = 0
      /\ h0.Term = 0 /\ h0.Vote = None /\ h0.Commit = 0
  BY DEF HardState
<1>2. ASSUME NEW s \in Server
      PROVE  /\ Typed(node[s]) /\ node[s].id = s /\ node[s].msgs = {} /\ node[s].state = Follower
             /\ node[s].log = <<>> /\ Hard(node[s]) = h0 /\ node[s].committed = 0
             /\ Whole(node[s])
  <2> DEFINE p == newRaft(s, 0, None, <<>>, 0)
             q == restartNode(s, w0)
  <2>1. node[s] = p
    BY DEF Init
  <2>2. q = [p EXCEPT !.panic = FALSE]
    <3>1. ~(0 > 0)
      OBVIOUS
    <3>2. (w0.hard.Commit > Len(w0.log)) = FALSE
      BY <1>1, <3>1
    <3>3. newRaft(s, w0.hard.Term, w0.hard.Vote, w0.log, w0.hard.Commit) = p
      BY <1>1
    <3>4. QED BY <3>2, <3>3 DEF restartNode
  <2>3. q = p
    BY <2>2 DEF newRaft
  <2>4. /\ Typed(q) /\ q.id = s /\ q.msgs = {} /\ q.state = Follower
        /\ q.log = w0.log /\ Hard(q) = w0.hard /\ q.committed = w0.hard.Commit
        /\ ~q.panic => Whole(q)
    BY <1>1, RestartTyped
  <2>5. ~p.panic
    BY DEF newRaft
  <2> HIDE DEF p, q, w0, h0
  <2>6. QED BY <1>1, <2>1, <2>3, <2>4, <2>5
<1>3. ASSUME NEW s \in Server
      PROVE  /\ outbox[s] = {} /\ offset[s] = 1 /\ applied[s] = 0 /\ prevHardSt[s] = h0
             /\ storage[s] = <<>> /\ ready[s] = NoReady /\ wal[s] = w0 /\ delivered[s] = <<>>
             /\ timeouts[s] = 0 /\ crashes[s] = 0
  BY <1>2 DEF Init
<1>4. net = {} /\ decided = <<>>
  BY DEF Init
<1>5. Issued = {}
  <2>1. \A s \in Server : outbox[s] \cup Handled(s) = {}
    BY <1>3 DEF Handled
  <2>2. QED BY <1>4, <2>1 DEF Issued
<1> HIDE DEF w0, h0
<1>6. TypesInv
  <2>1. node = [s \in Server |-> node[s]]
    BY DEF Init
  <2>2. \A s \in Server : Typed(node[s]) /\ node[s].id = s /\ node[s].msgs = {}
    BY <1>2
  <2>3. /\ outbox \in [Server -> SUBSET Message] /\ offset \in [Server -> Nat \ {0}]
        /\ applied \in [Server -> Nat]
    BY DEF Init
  <2>4. prevHardSt \in [Server -> HardState]
    <3>1. prevHardSt = [s \in Server |-> Hard(node[s])]
      BY DEF Init
    <3>2. QED BY <1>1, <1>2, <3>1
  <2>5. storage \in [Server -> Seq(Entry)] /\ delivered \in [Server -> Seq(Entry)]
    BY <1>1 DEF Init
  <2>6. ready \in [Server -> {NoReady} \cup Readies]
    BY DEF Init
  <2>7. wal \in [Server -> [hard : HardState, log : Seq(Entry)]]
    <3>1. wal = [s \in Server |-> [hard |-> prevHardSt[s], log |-> <<>>]]
      BY DEF Init
    <3>2. QED BY <1>1, <2>4, <3>1
  <2>8. timeouts \in [Server -> Nat] /\ crashes \in [Server -> Nat]
    BY DEF Init
  <2>9. \A s \in Server : timeouts[s] <= MaxTimeouts[s] /\ crashes[s] <= MaxCrashes[s]
    <3>1. \A s \in Server : MaxTimeouts[s] \in Nat /\ MaxCrashes[s] \in Nat
      BY ReadyAssumption
    <3>2. QED BY <1>3, <3>1
  <2>10. net \in SUBSET Message /\ decided \in Seq(Entry)
    BY <1>1, <1>4
  <2>11. QED BY <2>1, <2>2, <2>3, <2>4, <2>5, <2>6, <2>7, <2>8, <2>9, <2>10 DEF TypesInv
<1>7. ASSUME NEW s \in Server PROVE HardInv(s)
  BY <1>1, <1>2, <1>3 DEF HardInv, Later, SameVote
<1>8. ASSUME NEW s \in Server PROVE ElectInv(s)
  BY <1>2 DEF ElectInv, Follower, Candidate, Leader
<1>9. Good(<<>>) /\ Agrees(<<>>, <<>>, 0)
  BY <1>1 DEF Good, Rising, Agrees
<1>10. ASSUME NEW s \in Server PROVE DiskInv(s) /\ LocalInv(s)
  <2>1. Ahead(s) = <<>> /\ Handed(s) = 0 /\ Promised(s) = 0 /\ offset[s] - 1 = 0
    BY <1>3 DEF Ahead, Handed, Promised
  <2>2. DiskInv(s)
    BY <1>1, <1>2, <1>3, <1>9, <2>1 DEF DiskInv
  <2>3. LocalInv(s)
    BY <1>1, <1>2, <1>3, <1>9, <2>1 DEF LocalInv
  <2>4. QED BY <2>2, <2>3
<1>11. QED BY <1>4, <1>5, <1>6, <1>7, <1>8, <1>10 DEF ReadyInv

-----------------------------------------------------------------------------
\* Theorems

\* The inductive invariant holds in every state of the cycle.
THEOREM ReadyInvariant ==
    ASSUME Several
    PROVE  Spec => []ReadyInv
<1>1. Init => ReadyInv
  BY InitOn
<1>2. ReadyInv /\ [Next]_vars => ReadyInv'
  BY NextOn
<1>3. QED BY <1>1, <1>2, PTL DEF Spec

\* Every variable of the cycle has its type: the unstable entries begin in the log or
\* right after it, and what was applied is committed, also where the node panicked.
THEOREM ReadyTypes ==
    ASSUME Several
    PROVE  Spec => []TypeOK
<1>1. ReadyInv => TypeOK
  <2> SUFFICES ASSUME ReadyInv PROVE TypeOK
    OBVIOUS
  <2>1. TypesInv /\ Typing
    BY TypeFacts DEF ReadyInv
  <2>2. ASSUME NEW s \in Server
        PROVE  /\ node[s].id = s /\ node[s].log \in Seq(Entry)
               /\ offset[s] \in 1..Len(node[s].log) + 1
               /\ applied[s] \in 0..node[s].committed
               /\ storage[s] \in Seq(Entry) /\ wal[s].log \in Seq(Entry)
               /\ ready[s] # NoReady => ready[s].entries \in Seq(Entry)
               /\ timeouts[s] \in 0..MaxTimeouts[s] /\ crashes[s] \in 0..MaxCrashes[s]
    <3>1. TypesOf(s) /\ offset[s] <= Len(node[s].log) + 1 /\ applied[s] <= node[s].committed
      BY <2>1 DEF Typing, ReadyInv, DiskInv
    <3>2. /\ offset[s] \in 1..Len(node[s].log) + 1 /\ applied[s] \in 0..node[s].committed
          /\ node[s].id = s /\ node[s].log \in Seq(Entry)
          /\ storage[s] \in Seq(Entry) /\ wal[s].log \in Seq(Entry)
      BY <3>1 DEF TypesOf
    <3>3. ready[s] # NoReady => ready[s].entries \in Seq(Entry)
      BY <3>1, ReadyFacts DEF TypesOf
    <3>4. /\ timeouts[s] \in Nat /\ crashes[s] \in Nat
          /\ timeouts[s] <= MaxTimeouts[s] /\ crashes[s] <= MaxCrashes[s]
          /\ MaxTimeouts[s] \in Nat /\ MaxCrashes[s] \in Nat
      BY <2>1, ReadyAssumption DEF TypesInv
    <3>5. QED BY <3>2, <3>3, <3>4
  <2>3. net \subseteq Message /\ decided \in Seq(Entry)
    BY <2>1 DEF TypesInv
  <2>4. QED BY <2>2, <2>3 DEF TypeOK
<1>2. QED BY <1>1, ReadyInvariant, PTL

\* Nothing reaches the applier that is not on the disk of its server (shouldWaitWALSync,
\* the raft loop), whatever a crash leaves of a save.
THEOREM AppliedIsOnDisk ==
    ASSUME Several
    PROVE  Spec => []AppliedIsSaved
<1>1. ReadyInv => AppliedIsSaved
  <2> SUFFICES ASSUME ReadyInv, NEW s \in Server PROVE IsPrefix(delivered[s], wal[s].log)
    BY DEF AppliedIsSaved
  <2> DEFINE d == delivered[s]
             x == wal[s].log
             y == SubSeq(x, 1, Len(d))
             e == SubSeq(d, 1, Len(d))
  <2>1. TypesOf(s) /\ Agrees(d, x, Len(d))
    BY TypeFacts DEF ReadyInv, Typing, DiskInv
  <2>2. /\ d \in Seq(Entry) /\ x \in Seq(Entry) /\ Len(d) \in Nat /\ Len(d) <= Len(x)
        /\ \A i \in 1..Len(d) : d[i] = x[i]
    BY <2>1 DEF TypesOf, Agrees
  <2> HIDE DEF d, x
  <2>3. y \in Seq(Entry) /\ Len(y) = Len(d) /\ \A i \in 1..Len(d) : y[i] = x[i]
    <3>1. /\ y \in Seq(Entry) /\ Len(y) = Len(d) - 1 + 1
          /\ \A i \in 1..(Len(d) - 1 + 1) : y[i] = x[1 + i - 1]
      BY <2>2, PartOf
    <3> HIDE DEF y
    <3>2. QED BY <2>2, <3>1
  <2>4. e \in Seq(Entry) /\ Len(e) = Len(d) /\ \A i \in 1..Len(d) : e[i] = d[i]
    <3>1. /\ e \in Seq(Entry) /\ Len(e) = Len(d) - 1 + 1
          /\ \A i \in 1..(Len(d) - 1 + 1) : e[i] = d[1 + i - 1]
      BY <2>2, PartOf
    <3> HIDE DEF e
    <3>2. QED BY <2>2, <3>1
  <2>5. e = y
    <3> HIDE DEF e, y
    <3>1. Len(e) = Len(y) /\ \A i \in 1..Len(e) : e[i] = y[i]
      BY <2>2, <2>3, <2>4
    <3>2. QED BY <2>3, <2>4, <3>1, SeqEqual
  <2>6. QED BY <2>2, <2>5 DEF IsPrefix, d, x
<1>2. QED BY <1>1, ReadyInvariant, PTL

\* A vote is on the disk of the voter when its message leaves, although the leader that
\* sends before it saves does not wait for it (the raft loop, MustSync).
THEOREM VotesAreOnDisk ==
    ASSUME Several
    PROVE  Spec => [][\A m \in net' \ net : VoteIsSaved(m, wal'[m.from])]_vars
<1> DEFINE Voting == \A m \in net : VoteIsSaved(m, wal[m.from])
<1>1. ReadyInv => Voting
  BY DEF ReadyInv, Pledged, Grant, Bound, VoteIsSaved
<1>2. ReadyInv' => \A m \in net' : VoteIsSaved(m, wal'[m.from])
  <2>1. ReadyInv' => Voting'
    BY <1>1, PTL
  <2>2. QED BY <2>1
<1>3. ReadyInv' => [\A m \in net' \ net : VoteIsSaved(m, wal'[m.from])]_vars
  BY <1>2
<1>4. QED BY <1>3, ReadyInvariant, PTL

=============================================================================
