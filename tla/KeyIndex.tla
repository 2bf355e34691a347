------------------------------ MODULE KeyIndex ------------------------------
(***************************************************************************)
(* The revisions of one key, as mvcc/key_index.go keeps them.              *)
(*                                                                         *)
(* A revision is <<main, sub>>.  A key index is the revision of its last   *)
(* modification and its generations, oldest first; every generation but    *)
(* the last ends with a tombstone.  A pointer to a generation is an index  *)
(* (0 for nil), and a set of revisions that the code fills ("available")   *)
(* is a result.                                                            *)
(***************************************************************************)
EXTENDS Integers, Sequences, FiniteSetsExt, SequencesExt

Revision == Nat \X Nat

GreaterThan(a, b) == a[1] > b[1] \/ (a[1] = b[1] /\ a[2] > b[2])

EmptyGeneration == [created |-> <<0, 0>>, ver |-> 0, revs |-> <<>>]

Generation == [created : Revision, ver : Nat, revs : Seq(Revision)]

NewKeyIndex == [modified |-> <<0, 0>>, generations |-> <<>>]

isEmpty(ki) == Len(ki.generations) = 1 /\ ki.generations[1].revs = <<>>

put(ki, rev) ==
    LET gens == IF ki.generations = <<>> THEN <<EmptyGeneration>> ELSE ki.generations
        g    == Last(gens)
    IN  [modified    |-> rev,
         generations |-> Append(Front(gens),
            [created |-> IF g.revs = <<>> THEN rev ELSE g.created,
             ver     |-> g.ver + 1,
             revs    |-> Append(g.revs, rev)])]

\* an error (ErrRevisionNotFound) leaves the index alone
tombstone(ki, rev) ==
    IF Last(ki.generations).revs = <<>> THEN ki
    ELSE [put(ki, rev) EXCEPT !.generations = Append(@, EmptyGeneration)]

restore(created, modified, ver) ==
    [modified    |-> modified,
     generations |-> <<[created |-> created, ver |-> ver, revs |-> <<modified>>]>>]

\* Mutant of walk: the revision atRev itself is passed over.
walkBefore(g, atRev) == Max({0} \cup {i \in DOMAIN g.revs : g.revs[i][1] < atRev})

\* generation.walk for "the first revision from the end that is at most atRev":
\* its position, 0 for -1
walk(g, atRev) == Max({0} \cup {i \in DOMAIN g.revs : g.revs[i][1] <= atRev})

Tomb(g) == Last(g.revs)[1]

\* The walk from the last generation down stops at the first one that begins at
\* or before rev, or was ended by a tombstone at or before rev (nil then).
findGeneration(ki, rev) ==
    LET lastg  == Len(ki.generations)
        gen(i) == ki.generations[i]
        Ended(i) == i # lastg /\ Tomb(gen(i)) <= rev
        stop   == Max({0} \cup {i \in 1..lastg :
                            gen(i).revs # <<>> /\ (Ended(i) \/ gen(i).revs[1][1] <= rev)})
    IN  IF stop = 0 \/ Ended(stop) THEN 0 ELSE stop

NotFound == [found |-> FALSE]

get(ki, atRev) ==
    LET i == findGeneration(ki, atRev)
        g == ki.generations[i]
        n == walk(g, atRev)
    IN  IF i = 0 \/ n = 0 THEN NotFound
        ELSE [found   |-> TRUE, modified |-> g.revs[n], created |-> g.created,
              ver     |-> g.ver - (Len(g.revs) - n)]

\* The generation that compaction at atRev stops in, and the position of the
\* revision it keeps there (0 for -1): doCompact makes that revision available.
doCompact(ki, atRev) ==
    LET open == {i \in 1..Len(ki.generations) :
                    i = Len(ki.generations) \/ Tomb(ki.generations[i]) > atRev}
    IN  [gen |-> Min(open), rev |-> walk(ki.generations[Min(open)], atRev)]

Available(ki, at) ==
    IF at.rev = 0 THEN {} ELSE {ki.generations[at.gen].revs[at.rev]}

\* Mutant of compact: the generations before that one stay.
compactOneGeneration(ki, atRev) ==
    LET at   == doCompact(ki, atRev)
        g    == ki.generations[at.gen]
        revs == IF at.rev = 0 THEN g.revs ELSE SubSeq(g.revs, at.rev, Len(g.revs))
    IN  [index |-> [ki EXCEPT !.generations[at.gen].revs = revs],
         keep  |-> Available(ki, at)]

\* (A generation that ends at or before atRev was passed over by doCompact, so what
\* the code calls "remove any tombstone" finds nothing to remove, here and in keep.)
\* What is left of the index, and which revisions must stay in the backend.
compact(ki, atRev) ==
    LET at   == doCompact(ki, atRev)
        last == Len(ki.generations)
        g    == ki.generations[at.gen]
        revs == IF at.rev = 0 THEN g.revs ELSE SubSeq(g.revs, at.rev, Len(g.revs))
        onlyTombstone == Len(revs) = 1 /\ at.gen # last
        rest == SubSeq(ki.generations, at.gen + 1, last)
    IN  [index |-> [ki EXCEPT !.generations =
                        IF onlyTombstone THEN rest ELSE <<[g EXCEPT !.revs = revs]>> \o rest],
         keep  |-> Available(ki, at) \ (IF onlyTombstone THEN {revs[1]} ELSE {})]

\* the revision that a compaction at atRev would leave
keep(ki, atRev) ==
    LET at == doCompact(ki, atRev)
        g  == ki.generations[at.gen]
    IN  IF isEmpty(ki) THEN {}
        ELSE IF at.rev = Len(g.revs) /\ at.gen # Len(ki.generations) THEN {}
        ELSE Available(ki, at)

=============================================================================
