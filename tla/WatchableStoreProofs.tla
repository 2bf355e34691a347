--------------------------- MODULE WatchableStoreProofs ---------------------------
(***************************************************************************)
(* Watchers get their events once, in order and all of them, proved for    *)
(* any number of watchers and keys and whatever the bounds.                *)
(***************************************************************************)
EXTENDS WatchableStore, FiniteSetTheorems, SequenceTheorems, WellFoundedInduction, TLAPS

-----------------------------------------------------------------------------
(* Numbers in order *)

\* Every set of naturals that is not empty has a smallest element.
LEMMA HasLeast ==
    ASSUME NEW S \in SUBSET Nat, S # {}
    PROVE  \E m \in S : \A k \in S : m <= k
<1>1. PICK m \in S : \A k \in S : ~ (<<k, m>> \in OpToRel(<, Nat))
    BY NatLessThanWellFounded, WFMin
<1>2. \A k \in S : ~ (k < m)
    BY <1>1 DEF OpToRel
<1> QED
    BY <1>2

\* Min of some numbers is one of them.
LEMMA LeastFacts ==
    ASSUME NEW S \in SUBSET Nat, S # {}
    PROVE  Min(S) \in S /\ \A k \in S : Min(S) <= k
<1>1. \E m \in S : \A k \in S : m <= k
    BY HasLeast
<1> QED
    BY <1>1 DEF Min

\* As many elements of R as are not beyond r.
Rank(R, r) == Cardinality({q \in R : q <= r})

\* Ascending lists the elements of a set of revisions, each once and in order.
LEMMA AscendingFacts ==
    ASSUME NEW n \in Nat, NEW R \in SUBSET (1..n)
    PROVE  /\ Cardinality(R) \in Nat /\ DOMAIN Ascending(R) = 1..Cardinality(R)
           /\ \A i \in 1..Cardinality(R) : Ascending(R)[i] \in R
           /\ \A i, j \in 1..Cardinality(R) : i < j => Ascending(R)[i] < Ascending(R)[j]
           /\ \A r \in R : Rank(R, r) \in 1..Cardinality(R) /\ Ascending(R)[Rank(R, r)] = r
<1> DEFINE N == Cardinality(R)
           f == [r \in R |-> Rank(R, r)]
<1>1. IsFiniteSet(R) /\ N \in Nat /\ R \in SUBSET Nat /\ R \in SUBSET Int
    <2>1. IsFiniteSet(1..n)
        BY FS_Interval
    <2>2. IsFiniteSet(R)
        BY <2>1, FS_Subset
    <2> QED
        BY <2>2, FS_CardinalityType
<1>2. ASSUME NEW r \in R
      PROVE  Rank(R, r) \in 1..N
    <2> DEFINE Q == {q \in R : q <= r}
    <2>1. Q \subseteq R /\ r \in Q /\ r \in Nat
        BY <1>1
    <2>2. IsFiniteSet(Q) /\ Cardinality(Q) \in Nat /\ Cardinality(Q) <= N
        BY <1>1, <2>1, FS_Subset, FS_CardinalityType
    <2>3. Cardinality(Q) # 0
        BY <2>1, <2>2, FS_EmptySet
    <2> QED
        BY <1>1, <2>2, <2>3 DEF Rank
<1>3. ASSUME NEW r \in R, NEW q \in R, r < q
      PROVE  Rank(R, r) < Rank(R, q)
    <2> DEFINE P == {x \in R : x <= r}
               Q == {x \in R : x <= q}
    <2>1. P \subseteq Q /\ q \in Q /\ q \notin P /\ Q \subseteq R
        <3>1. r \in Nat /\ q \in Nat /\ \A x \in R : x \in Nat
            BY <1>1
        <3>2. ~(q <= r) /\ q <= q /\ \A x \in R : x <= r => x <= q
            BY <1>3, <3>1
        <3> QED
            BY <3>2
    <2>2. IsFiniteSet(Q)
        BY <1>1, <2>1, FS_Subset
    <2>3. Cardinality(P) <= Cardinality(Q) /\ Cardinality(P) # Cardinality(Q)
        BY <2>1, <2>2, FS_Subset
    <2>4. Cardinality(P) \in Nat /\ Cardinality(Q) \in Nat
        BY <1>1, <2>1, FS_Subset, FS_CardinalityType
    <2> QED
        BY <2>3, <2>4 DEF Rank
<1>4. ASSUME NEW r \in R, NEW q \in R, Rank(R, r) = Rank(R, q)
      PROVE  r = q
    <2>1. r \in Nat /\ q \in Nat /\ Rank(R, r) \in Nat /\ Rank(R, q) \in Nat
        BY <1>1, <1>2
    <2>2. ~(r < q) /\ ~(q < r)
        BY <1>3, <1>4, <2>1
    <2> QED
        BY <2>1, <2>2
<1>5. \A i \in 1..N : \E r \in R : Rank(R, r) = i
    <2>1. f \in Injection(R, 1..N)
        <3>1. f \in [R -> 1..N]
            BY <1>2
        <3>2. \A r, q \in R : f[r] = f[q] => r = q
            BY <1>4
        <3> HIDE DEF f
        <3> QED
            BY <3>1, <3>2 DEF Injection, IsInjective
    <2>2. IsFiniteSet(1..N) /\ Cardinality(1..N) = N
        BY <1>1, FS_Interval
    <2>3. f \in Surjection(R, 1..N)
        BY <2>1, <2>2, FS_Injection
    <2> QED
        BY <2>3 DEF Surjection
<1>6. ASSUME NEW i \in 1..N
      PROVE  Ascending(R)[i] \in R /\ Rank(R, Ascending(R)[i]) = i
    <2>1. \E r \in R : Cardinality({q \in R : q <= r}) = i
        BY <1>5 DEF Rank
    <2>2. Ascending(R)[i] = CHOOSE r \in R : Cardinality({q \in R : q <= r}) = i
        BY DEF Ascending
    <2> QED
        BY <2>1, <2>2 DEF Rank
<1>7. ASSUME NEW i \in 1..N, NEW j \in 1..N, i < j
      PROVE  Ascending(R)[i] < Ascending(R)[j]
    <2> DEFINE r == Ascending(R)[i]
               q == Ascending(R)[j]
    <2>1. r \in R /\ q \in R /\ Rank(R, r) = i /\ Rank(R, q) = j /\ r \in Nat /\ q \in Nat
        BY <1>1, <1>6
    <2> HIDE DEF r, q
    <2>2. r # q /\ ~(q < r)
        BY <1>3, <1>7, <2>1
    <2>3. r < q
        BY <2>1, <2>2
    <2> QED
        BY <2>3 DEF r, q
<1>8. ASSUME NEW r \in R
      PROVE  Rank(R, r) \in 1..N /\ Ascending(R)[Rank(R, r)] = r
    BY <1>2, <1>4, <1>6
<1> QED
    BY <1>1, <1>6, <1>7, <1>8 DEF Ascending

-----------------------------------------------------------------------------
(* Sequences of events *)

EventList == Seq(Nat \X SUBSET Key)

\* s tells what f has from revision a on and before b: each once, in order.
Tells(s, f, a, b) ==
    /\ s \in EventList
    /\ \A i \in 1..Len(s) : /\ s[i] = <<s[i][1], f[s[i][1]]>> /\ f[s[i][1]] # {}
                            /\ a <= s[i][1] /\ s[i][1] < b
    /\ \A i, j \in 1..Len(s) : i < j => s[i][1] < s[j][1]
    /\ \A r \in Nat : a <= r /\ r < b /\ f[r] # {} => \E i \in 1..Len(s) : s[i][1] = r

\* The events of a list have revisions.
LEMMA TellsTyped ==
    ASSUME NEW s, NEW f, NEW a, NEW b, Tells(s, f, a, b)
    PROVE  Len(s) \in Nat /\ \A i \in 1..Len(s) : s[i][1] \in Nat
BY DEF Tells, EventList

\* Nothing is told of a stretch in which nothing happened.
LEMMA TellsNothing ==
    ASSUME NEW f, NEW a \in Nat, NEW b \in Nat, \A r \in Nat : a <= r /\ r < b => f[r] = {}
    PROVE  Tells(<<>>, f, a, b)
BY DEF Tells, EventList

\* Another f, another end: it is enough that they have the same in the stretch.
LEMMA TellsSame ==
    ASSUME NEW s, NEW f, NEW g, NEW a \in Nat, NEW b \in Nat, NEW c \in Nat, Tells(s, f, a, b),
           \A r \in Nat : a <= r /\ r < b => f[r] = g[r] /\ (f[r] # {} => r < c),
           \A r \in Nat : a <= r /\ r < c /\ ~(r < b) => g[r] = {}
    PROVE  Tells(s, g, a, c)
<1>1. ASSUME NEW i \in 1..Len(s)
      PROVE  /\ s[i] = <<s[i][1], g[s[i][1]]>> /\ g[s[i][1]] # {}
             /\ a <= s[i][1] /\ s[i][1] < c
    <2>1. s[i][1] \in Nat
        BY TellsTyped
    <2>2. /\ s[i] = <<s[i][1], f[s[i][1]]>> /\ f[s[i][1]] # {}
          /\ a <= s[i][1] /\ s[i][1] < b
        BY DEF Tells
    <2> QED
        BY <2>1, <2>2
<1>2. ASSUME NEW r \in Nat, a <= r, r < c, g[r] # {}
      PROVE  \E i \in 1..Len(s) : s[i][1] = r
    <2>1. r < b /\ f[r] # {}
        BY <1>2
    <2> QED
        BY <1>2, <2>1 DEF Tells
<1> QED
    BY <1>1, <1>2 DEF Tells

\* One stretch after the other.
LEMMA TellsConcat ==
    ASSUME NEW s, NEW t, NEW f, NEW a \in Nat, NEW b \in Nat, NEW c \in Nat, a <= b, b <= c,
           Tells(s, f, a, b), Tells(t, f, b, c)
    PROVE  Tells(s \o t, f, a, c)
<1> DEFINE u == s \o t
           m == Len(s)
           n == Len(t)
<1>1. /\ m \in Nat /\ n \in Nat /\ \A i \in 1..m : s[i][1] \in Nat
      /\ \A i \in 1..n : t[i][1] \in Nat
    BY TellsTyped
<1>2. u \in EventList /\ Len(u) = m + n
    BY DEF Tells, EventList
<1>3. /\ \A i \in 1..m : u[i] = s[i]
      /\ \A i \in 1..n : u[m + i] = t[i]
    BY <1>1 DEF Tells, EventList
<1>4. ASSUME NEW i \in 1..(m + n), ~(i \in 1..m)
      PROVE  i - m \in 1..n /\ u[i] = t[i - m]
    <2>1. i - m \in 1..n /\ i = m + (i - m)
        BY <1>1, <1>4
    <2> QED
        BY <1>3, <2>1
<1> HIDE DEF u, m, n
<1>5. ASSUME NEW i \in 1..m
      PROVE  /\ u[i] = <<u[i][1], f[u[i][1]]>> /\ f[u[i][1]] # {}
             /\ a <= u[i][1] /\ u[i][1] < b /\ u[i][1] \in Nat
    BY <1>1, <1>3 DEF Tells, m
<1>6. ASSUME NEW i \in 1..(m + n), ~(i \in 1..m)
      PROVE  /\ u[i] = <<u[i][1], f[u[i][1]]>> /\ f[u[i][1]] # {}
             /\ b <= u[i][1] /\ u[i][1] < c /\ u[i][1] \in Nat
    BY <1>1, <1>4, <1>6 DEF Tells, n
<1>7. ASSUME NEW i \in 1..Len(u)
      PROVE  /\ u[i] = <<u[i][1], f[u[i][1]]>> /\ f[u[i][1]] # {}
             /\ a <= u[i][1] /\ u[i][1] < c
    <2>1. CASE i \in 1..m
        BY <1>5, <2>1
    <2>2. CASE ~(i \in 1..m)
        BY <1>2, <1>6, <2>2
    <2> QED
        BY <2>1, <2>2
<1>8. ASSUME NEW i \in 1..Len(u), NEW j \in 1..Len(u), i < j
      PROVE  u[i][1] < u[j][1]
    <2>1. CASE i \in 1..m /\ j \in 1..m
        BY <1>3, <1>8, <2>1 DEF Tells, m
    <2>2. CASE i \in 1..m /\ ~(j \in 1..m)
        BY <1>2, <1>5, <1>6, <2>2
    <2>3. CASE ~(i \in 1..m)
        <3>1. i - m \in 1..n /\ u[i] = t[i - m]
            BY <1>2, <1>4, <2>3
        <3>2. ~(j \in 1..m)
            BY <1>1, <1>2, <1>8, <2>3
        <3>3. j - m \in 1..n /\ u[j] = t[j - m]
            BY <1>2, <1>4, <3>2
        <3>4. i - m < j - m
            BY <1>1, <1>2, <1>8
        <3> QED
            BY <3>1, <3>3, <3>4 DEF Tells, n
    <2> QED
        BY <2>1, <2>2, <2>3
<1>9. ASSUME NEW r \in Nat, a <= r, r < c, f[r] # {}
      PROVE  \E i \in 1..Len(u) : u[i][1] = r
    <2>1. CASE r < b
        <3>1. PICK i \in 1..m : s[i][1] = r
            BY <1>9, <2>1 DEF Tells, m
        <3> QED
            BY <1>1, <1>2, <1>3, <3>1
    <2>2. CASE ~(r < b)
        <3>1. PICK i \in 1..n : t[i][1] = r
            BY <1>9, <2>2 DEF Tells, n
        <3>2. m + i \in 1..Len(u) /\ u[m + i] = t[i]
            BY <1>1, <1>2, <1>3
        <3> QED
            BY <3>1, <3>2
    <2> QED
        BY <2>1, <2>2
<1>10. Tells(u, f, a, c)
    BY <1>2, <1>7, <1>8, <1>9 DEF Tells
<1> QED
    BY <1>10 DEF u

\* What tells less is a prefix.
LEMMA TellsPrefix ==
    ASSUME NEW s, NEW t, NEW f, NEW a \in Nat, NEW b \in Nat, NEW c \in Nat, b <= c,
           Tells(s, f, a, b), Tells(t, f, a, c)
    PROVE  Len(s) <= Len(t) /\ \A i \in 1..Len(s) : s[i] = t[i]
<1> DEFINE m == Len(s)
           n == Len(t)
           Bad == {i \in 1..m : ~(i <= n /\ s[i][1] = t[i][1])}
<1>1. /\ m \in Nat /\ n \in Nat /\ \A i \in 1..m : s[i][1] \in Nat
      /\ \A i \in 1..n : t[i][1] \in Nat
    BY TellsTyped
<1>2. Bad = {}
    <2> SUFFICES ASSUME Bad # {} PROVE FALSE
        OBVIOUS
    <2>1. PICK i \in Bad : \A k \in Bad : i <= k
        <3>1. Bad \in SUBSET Nat
            BY <1>1
        <3> HIDE DEF Bad
        <3> QED
            BY <3>1, HasLeast
    <2>2. i \in 1..m /\ i \in Nat /\ \A j \in 1..m : j < i => j <= n /\ s[j][1] = t[j][1]
        BY <1>1, <2>1
    <2> DEFINE r == s[i][1]
    <2>3. r \in Nat /\ a <= r /\ r < c /\ f[r] # {}
        BY <1>1, <2>2 DEF Tells
    <2>4. PICK k \in 1..n : t[k][1] = r
        BY <2>3 DEF Tells
    <2>5. ~(k < i)
        <3> SUFFICES ASSUME k < i PROVE FALSE
            OBVIOUS
        <3>1. k \in 1..m /\ s[k][1] = t[k][1]
            BY <1>1, <2>2
        <3>2. s[k][1] < s[i][1]
            BY <2>2, <3>1 DEF Tells
        <3> QED
            BY <1>1, <2>3, <2>4, <3>1, <3>2
    <2>6. i <= n /\ i \in 1..n
        BY <1>1, <2>2, <2>5
    <2>7. i # k
        BY <2>1, <2>4, <2>6
    <2>8. i < k
        BY <1>1, <2>2, <2>5, <2>7
    <2> DEFINE q == t[i][1]
    <2>9. q \in Nat /\ q < r /\ a <= q /\ f[q] # {}
        BY <1>1, <2>4, <2>6, <2>8 DEF Tells
    <2>10. r < b
        BY <2>2 DEF Tells
    <2>11. PICK j \in 1..m : s[j][1] = q
        <3>1. q < b
            BY <2>3, <2>9, <2>10
        <3> QED
            BY <2>9, <3>1 DEF Tells
    <2>12. CASE j < i
        <3>1. j \in 1..n /\ t[j][1] = q
            BY <1>1, <2>2, <2>11, <2>12
        <3>2. t[j][1] < t[i][1]
            BY <2>6, <2>12, <3>1 DEF Tells
        <3> QED
            BY <2>9, <3>1, <3>2
    <2>13. CASE j = i
        BY <2>3, <2>9, <2>11, <2>13
    <2>14. CASE i < j
        <3>1. s[i][1] < s[j][1]
            BY <2>2, <2>14 DEF Tells
        <3> QED
            BY <2>3, <2>9, <2>11, <3>1
    <2> QED
        BY <2>2, <2>12, <2>13, <2>14
<1>3. \A i \in 1..m : i <= n /\ s[i][1] = t[i][1]
    BY <1>2
<1>4. m <= n
    BY <1>1, <1>3
<1>5. ASSUME NEW i \in 1..m
      PROVE  s[i] = t[i]
    <2>1. i \in 1..n /\ s[i][1] = t[i][1]
        BY <1>1, <1>3
    <2>2. s[i] = <<s[i][1], f[s[i][1]]>> /\ t[i] = <<t[i][1], f[t[i][1]]>>
        BY <2>1 DEF Tells
    <2> QED
        BY <2>1, <2>2
<1> QED
    BY <1>4, <1>5

-----------------------------------------------------------------------------
(* What the backend tells *)

\* The keys that S has at a revision.
KeysAt(S, keys, r) == {k \in keys : <<r, k>> \in S}

\* Events lists, revision by revision, the keys that are in S: what f has there.
LEMMA EventsTell ==
    ASSUME Len(history) \in Nat, NEW S, NEW revs, NEW keys \in SUBSET Key, NEW f,
           NEW a \in Nat, NEW b \in Nat,
           \A r \in Nat :
                /\ r \in revs /\ r \in 1..currentRev /\ KeysAt(S, keys, r) # {} <=>
                        a <= r /\ r < b /\ f[r] # {}
                /\ a <= r /\ r < b /\ f[r] # {} => KeysAt(S, keys, r) = f[r]
    PROVE  Tells(Events(S, revs, keys), f, a, b)
<1> DEFINE at(r) == KeysAt(S, keys, r)
           R == {r \in revs \cap (1..currentRev) : at(r) # {}}
           o == Ascending(R)
           e == Events(S, revs, keys)
           N == Cardinality(R)
<1>1. currentRev \in Nat /\ R \in SUBSET (1..currentRev)
    BY DEF currentRev
<1>2. /\ N \in Nat /\ DOMAIN o = 1..N
      /\ \A i \in 1..N : o[i] \in R
      /\ \A i, j \in 1..N : i < j => o[i] < o[j]
      /\ \A r \in R : \E i \in 1..N : o[i] = r
    <2> HIDE DEF R, at
    <2> USE AscendingFacts
    <2>1. N \in Nat /\ DOMAIN o = 1..N
        BY <1>1
    <2>2. \A i \in 1..N : o[i] \in R
        BY <1>1
    <2>3. \A i, j \in 1..N : i < j => o[i] < o[j]
        BY <1>1
    <2>4. ASSUME NEW r \in R
          PROVE  \E i \in 1..N : o[i] = r
        <3>1. Rank(R, r) \in 1..N /\ o[Rank(R, r)] = r
            BY <1>1
        <3> QED
            BY <3>1
    <2> QED
        BY <2>1, <2>2, <2>3, <2>4
<1>3. e = [i \in 1..N |-> <<o[i], at(o[i])>>]
    <2>1. e = [i \in DOMAIN o |-> <<o[i], at(o[i])>>]
        BY DEF Events, KeysAt
    <2> QED
        BY <1>2, <2>1
<1>4. ASSUME NEW r \in R
      PROVE  r \in Nat /\ a <= r /\ r < b /\ f[r] # {} /\ at(r) = f[r]
    <2>1. r \in Nat /\ r \in revs /\ r \in 1..currentRev /\ at(r) # {}
        BY <1>1
    <2> QED
        BY <2>1
<1>5. ASSUME NEW r \in Nat, a <= r, r < b, f[r] # {}
      PROVE  r \in R
    BY <1>5
<1>6. \A r \in R : at(r) \in SUBSET Key
    BY DEF KeysAt
<1> HIDE DEF R, o, at
<1>7. e \in EventList /\ Len(e) = N
    <2>1. \A i \in 1..N : o[i] \in Nat /\ at(o[i]) \in SUBSET Key
        BY <1>2, <1>4, <1>6
    <2>2. e \in [1..N -> Nat \X SUBSET Key]
        BY <1>3, <2>1
    <2> QED
        BY <1>2, <2>2 DEF EventList
<1>8. \A i \in 1..N : e[i] = <<o[i], at(o[i])>> /\ e[i][1] = o[i]
    BY <1>3
<1> HIDE DEF e
<1>9. ASSUME NEW i \in 1..N
      PROVE  /\ e[i] = <<e[i][1], f[e[i][1]]>> /\ f[e[i][1]] # {}
             /\ a <= e[i][1] /\ e[i][1] < b
    <2>1. o[i] \in R
        BY <1>2
    <2> QED
        BY <1>4, <1>8, <2>1
<1>10. \A i, j \in 1..N : i < j => e[i][1] < e[j][1]
    BY <1>2, <1>8
<1>11. ASSUME NEW r \in Nat, a <= r, r < b, f[r] # {}
       PROVE  \E i \in 1..N : e[i][1] = r
    BY <1>2, <1>5, <1>8, <1>11
<1>12. Tells(e, f, a, b)
    BY <1>7, <1>9, <1>10, <1>11 DEF Tells
<1> QED
    BY <1>12 DEF e

\* Whatever the set, Events is a list of events that happened so far.
LEMMA EventsTyped ==
    ASSUME Len(history) \in Nat, NEW S, NEW revs, NEW keys \in SUBSET Key
    PROVE  \E f : f[0] = {} /\ Tells(Events(S, revs, keys), f, 0, currentRev + 1)
<1> DEFINE f == [r \in Nat |-> IF r \in revs /\ r \in 1..currentRev
                               THEN KeysAt(S, keys, r) ELSE {}]
<1>1. currentRev \in Nat /\ f[0] = {}
    BY DEF currentRev
<1>2. ASSUME NEW r \in Nat
      PROVE  /\ r \in revs /\ r \in 1..currentRev /\ KeysAt(S, keys, r) # {} <=>
                    0 <= r /\ r < currentRev + 1 /\ f[r] # {}
             /\ 0 <= r /\ r < currentRev + 1 /\ f[r] # {} => KeysAt(S, keys, r) = f[r]
    <2>1. f[r] = IF r \in revs /\ r \in 1..currentRev THEN KeysAt(S, keys, r) ELSE {}
        OBVIOUS
    <2>2. r \in 1..currentRev => 0 <= r /\ r < currentRev + 1
        BY <1>1
    <2> HIDE DEF f
    <2> QED
        BY <2>1, <2>2
<1> HIDE DEF f
<1>3. currentRev + 1 \in Nat /\ 0 \in Nat
    BY <1>1
<1>4. Tells(Events(S, revs, keys), f, 0, currentRev + 1)
    BY <1>2, <1>3, EventsTell, ZenonT(30)
<1> QED
    BY <1>1, <1>4

\* The revision up to which a batch of events takes a watcher (newWatcherBatch).
Reached(evs, b) == IF evs # <<>> /\ moreRev(evs) # 0 THEN moreRev(evs) ELSE b

\* A batch tells what there is before the revision that comes next.
LEMMA BatchTells ==
    ASSUME NEW evs, NEW f, f[0] = {}, NEW a \in Nat, NEW b \in Nat, a <= b, Tells(evs, f, a, b)
    PROVE  /\ Tells(Batch(evs), f, a, Reached(evs, b))
           /\ Reached(evs, b) \in Nat /\ a <= Reached(evs, b) /\ Reached(evs, b) <= b
           /\ moreRev(evs) \in Nat
           /\ moreRev(evs) # 0 => moreRev(evs) < b /\ moreRev(evs) = Reached(evs, b)
           /\ moreRev(evs) = 0 => Reached(evs, b) = b
<1> DEFINE W == WatchBatchMaxRevs
           m == Len(evs)
<1>1. W \in Nat /\ W # 0 /\ m \in Nat /\ (\A i \in 1..m : evs[i][1] \in Nat) /\ evs \in EventList
    <2>1. W \in Nat /\ W # 0
        BY WatchAssumption
    <2>2. m \in Nat /\ \A i \in 1..m : evs[i][1] \in Nat
        BY TellsTyped
    <2> QED
        BY <2>1, <2>2 DEF Tells
<1>2. CASE m <= W
    <2>1. Batch(evs) = evs /\ moreRev(evs) = 0
        BY <1>2 DEF Batch, moreRev
    <2> QED
        BY <2>1 DEF Reached
<1>3. CASE ~(m <= W)
    <2> DEFINE r == evs[W + 1][1]
               s == SubSeq(evs, 1, W)
    <2>1. W + 1 \in 1..m /\ evs # <<>>
        BY <1>1, <1>3
    <2>2. r \in Nat /\ a <= r /\ r < b /\ f[r] # {}
        BY <1>1, <2>1 DEF Tells
    <2>3. Batch(evs) = s /\ moreRev(evs) = r
        BY <1>3 DEF Batch, moreRev
    <2>4. r # 0
        BY <2>2
    <2>5. Reached(evs, b) = r
        BY <2>1, <2>3, <2>4 DEF Reached
    <2>6. s \in EventList /\ Len(s) = W /\ \A i \in 1..W : s[i] = evs[i]
        <3>1. W <= m /\ 1 \in 1..(m + 1)
            BY <1>1, <1>3
        <3> QED
            BY <1>1, <3>1, SubSeqProperties DEF EventList
    <2>7. \A i \in 1..W : i \in 1..m /\ i < W + 1
        BY <1>1, <1>3
    <2> HIDE DEF r, s, W
    <2>8. ASSUME NEW i \in 1..W
          PROVE  /\ s[i] = <<s[i][1], f[s[i][1]]>> /\ f[s[i][1]] # {}
                 /\ a <= s[i][1] /\ s[i][1] < r
        <3>1. i \in 1..m /\ i < W + 1 /\ s[i] = evs[i]
            BY <2>6, <2>7
        <3>2. evs[i][1] < evs[W + 1][1]
            BY <2>1, <3>1 DEF Tells
        <3> QED
            BY <3>1, <3>2 DEF Tells, r
    <2>9. \A i, j \in 1..W : i < j => s[i][1] < s[j][1]
        BY <2>6, <2>7 DEF Tells
    <2>10. ASSUME NEW q \in Nat, a <= q, q < r, f[q] # {}
           PROVE  \E i \in 1..W : s[i][1] = q
        <3>1. q < b
            BY <2>2, <2>10
        <3>2. PICK i \in 1..m : evs[i][1] = q
            BY <2>10, <3>1 DEF Tells
        <3>3. i < W + 1
            <4>1. i # W + 1
                BY <2>2, <2>10, <3>2 DEF r
            <4>2. ~(W + 1 < i)
                <5> SUFFICES ASSUME W + 1 < i PROVE FALSE
                    OBVIOUS
                <5>1. evs[W + 1][1] < evs[i][1]
                    BY <2>1 DEF Tells
                <5> QED
                    BY <2>2, <2>10, <3>2, <5>1 DEF r
            <4> QED
                BY <1>1, <4>1, <4>2
        <3>4. i \in 1..W
            BY <1>1, <3>3
        <3> QED
            BY <2>6, <3>2, <3>4
    <2>11. Tells(s, f, a, r)
        BY <2>6, <2>8, <2>9, <2>10 DEF Tells
    <2> QED
        BY <2>2, <2>3, <2>4, <2>5, <2>11
<1> QED
    BY <1>2, <1>3

-----------------------------------------------------------------------------
(* The inductive invariant *)

GroupName == {"none", "synced", "unsynced", "victim", "compacted", "cancelled"}

Info == [group : GroupName, start : Nat, minRev : 0..MaxRev + 2, restore : BOOLEAN,
         victim : BOOLEAN, compacted : BOOLEAN, batch : Seq(Event), moreRev : Nat]

TypeInv ==
    /\ history \in Seq(Txns) /\ currentRev <= MaxRev
    /\ stored \in SUBSET ((1..MaxRev) \X Key)
    /\ compactRev \in Int /\ -1 <= compactRev /\ compactRev <= currentRev
    /\ watcher \in [Watcher -> Info] /\ sent \in [Watcher -> Seq(Event)]
    /\ victims \in Seq(SUBSET Watcher) /\ moving \in Seq(SUBSET Watcher)
    /\ tried \in SUBSET Watcher /\ failed \in SUBSET Watcher
    /\ channel \in 0..ChanBufLen

\* The keys that the transactions of h changed at a revision.
Changed(h, r) == IF r - 1 \in 1..Len(h) THEN DOMAIN h[r - 1] ELSE {}

\* Those of them that w watches.
Seen(h, w) == [r \in Nat |-> Changed(h, r) \cap KeysOf[w]]

\* The backend has nothing that did not happen; what it lacks is before the compaction,
\* or is a deletion of its very revision.
StoreInv ==
    /\ \A r \in Nat, k \in Key : <<r, k>> \in stored => k \in Changed(history, r)
    /\ \A r \in Nat : \A k \in Changed(history, r) :
            <<r, k>> \notin stored => r < compactRev
                                      \/ (r = compactRev /\ history[r - 1][k] = "delete")

\* moveVictims sends the first batch it took, and each watcher of it is tried once.
LoopInv ==
    /\ tried \cap failed = {}
    /\ IF moving = <<>> THEN tried = {} ELSE tried \subseteq moving[1]

\* Only a victim has something left to read after its batch: what comes next.
Shape(i) ==
    /\ i.victim <=> i.group = "victim"
    /\ i.group # "victim" => i.moreRev = 0
    /\ i.moreRev # 0 => i.moreRev = i.minRev

\* Where w is in a sequence of batches.
In(w, s) == {n \in DOMAIN s : w \in s[n]}

Nowhere(w, vs, ms, fl) == In(w, vs) = {} /\ In(w, ms) = {} /\ w \notin fl

Once(w, vs, ms, fl) ==
    \/ (\E n : In(w, vs) = {n}) /\ In(w, ms) = {} /\ w \notin fl
    \/ In(w, vs) = {} /\ (\E n : In(w, ms) = {n}) /\ w \notin fl
    \/ In(w, vs) = {} /\ w \in fl

\* A victim is in one batch, and nobody else is in any.
Placed(w) == IF watcher[w].group = "victim" THEN Once(w, victims, moving, failed)
             ELSE Nowhere(w, victims, moving, failed)

\* What the flags of a watcher say, before revision next and with a compaction at comp.
Marked(i, s, next, comp) ==
    /\ i.group = "unsynced" /\ i.minRev >= next => i.restore
    /\ i.compacted => i.minRev < comp /\ i.group \in {"unsynced", "compacted"}
    /\ i.group = "none" => s = <<>>

\* What was sent to a watcher and what waits in its batch is everything from its first
\* revision on and before minRev; if it is synced there is nothing after that.
Delivered(i, s, waits, f, next) ==
    /\ i.start <= i.minRev
    /\ i.minRev <= next \/ i.minRev = i.start
    /\ i.group = "synced" => \A r \in Nat : r >= i.minRev => f[r] = {}
    /\ IF waits THEN \E b \in i.start..i.minRev : /\ Tells(s, f, i.start, b)
                                                  /\ Tells(i.batch, f, b, i.minRev)
       ELSE Tells(s, f, i.start, i.minRev)

IsActive(i) == i.group \notin {"none", "cancelled"} /\ ~i.compacted

Waits(w) == watcher[w].group = "victim" /\ w \notin tried

Right(w) ==
    /\ Placed(w)
    /\ Marked(watcher[w], sent[w], currentRev + 1, compactRev)
    /\ IsActive(watcher[w]) =>
            Delivered(watcher[w], sent[w], Waits(w), Seen(history, w), currentRev + 1)

WatchInv ==
    /\ TypeInv /\ StoreInv /\ LoopInv
    /\ \A w \in Watcher : Shape(watcher[w])
    /\ \A w \in Watcher \ excused : Right(w)

-----------------------------------------------------------------------------
(* What happened *)

\* A transaction changes keys.
LEMMA ChangedTyped ==
    ASSUME NEW h \in Seq(Txns), NEW r \in Nat
    PROVE  Changed(h, r) \in SUBSET Key
<1>1. CASE r - 1 \in 1..Len(h)
    <2>1. h[r - 1] \in Txns
        BY <1>1
    <2> QED
        BY <1>1, <2>1, WatchAssumption DEF Changed
<1>2. CASE ~(r - 1 \in 1..Len(h))
    BY <1>2 DEF Changed
<1> QED
    BY <1>1, <1>2

\* Nothing happened at 0, nor after the current revision.
LEMMA SeenFacts ==
    ASSUME NEW h \in Seq(Txns), NEW w \in Watcher
    PROVE  /\ \A r \in Nat : Seen(h, w)[r] = Changed(h, r) \cap KeysOf[w]
           /\ Seen(h, w)[0] = {}
           /\ \A r \in Nat : r >= Len(h) + 2 => Seen(h, w)[r] = {}
           /\ \A r \in Nat : Seen(h, w)[r] # {} => r \in 2..(Len(h) + 1)
<1>1. Len(h) \in Nat
    OBVIOUS
<1>2. ASSUME NEW r \in Nat
      PROVE  Seen(h, w)[r] = Changed(h, r) \cap KeysOf[w]
    BY DEF Seen
<1>3. ASSUME NEW r \in Nat, ~(r \in 2..(Len(h) + 1))
      PROVE  Seen(h, w)[r] = {}
    <2>1. ~(r - 1 \in 1..Len(h))
        BY <1>1, <1>3
    <2> QED
        BY <1>2, <2>1 DEF Changed
<1>4. /\ ~(0 \in 2..(Len(h) + 1)) /\ 0 \in Nat
      /\ \A r \in Nat : r >= Len(h) + 2 => ~(r \in 2..(Len(h) + 1))
    BY <1>1
<1> QED
    BY <1>2, <1>3, <1>4

\* A transaction adds its keys at its revision, and changes nothing else.
LEMMA ChangedMore ==
    ASSUME NEW h \in Seq(Txns), NEW t \in Txns, NEW r \in Nat
    PROVE  /\ Changed(Append(h, t), r) = IF r = Len(h) + 2 THEN DOMAIN t ELSE Changed(h, r)
           /\ r # Len(h) + 2 /\ r - 1 \in 1..Len(h) => Append(h, t)[r - 1] = h[r - 1]
<1> DEFINE g == Append(h, t)
<1>1. /\ Len(h) \in Nat /\ Len(g) = Len(h) + 1 /\ g[Len(h) + 1] = t
      /\ \A i \in 1..Len(h) : g[i] = h[i]
    BY AppendProperties
<1> HIDE DEF g
<1>2. CASE r = Len(h) + 2
    <2>1. r - 1 = Len(h) + 1 /\ r - 1 \in 1..Len(g)
        BY <1>1, <1>2
    <2> QED
        BY <1>1, <1>2, <2>1 DEF Changed, g
<1>3. CASE r # Len(h) + 2
    <2>1. r - 1 \in 1..Len(g) <=> r - 1 \in 1..Len(h)
        BY <1>1, <1>3
    <2> QED
        BY <1>1, <1>3, <2>1 DEF Changed, g
<1> QED
    BY <1>2, <1>3

\* The same for what a watcher sees.
LEMMA SeenMore ==
    ASSUME NEW h \in Seq(Txns), NEW t \in Txns, NEW w \in Watcher
    PROVE  /\ \A r \in Nat : r # Len(h) + 2 => Seen(Append(h, t), w)[r] = Seen(h, w)[r]
           /\ Seen(Append(h, t), w)[Len(h) + 2] = DOMAIN t \cap KeysOf[w]
<1>1. Len(h) + 2 \in Nat
    OBVIOUS
<1>2. \A r \in Nat : /\ Seen(Append(h, t), w)[r] = Changed(Append(h, t), r) \cap KeysOf[w]
                     /\ Seen(h, w)[r] = Changed(h, r) \cap KeysOf[w]
    BY DEF Seen
<1> QED
    BY <1>1, <1>2, ChangedMore

\* The next revision becomes current: what was delivered stays so, and a watcher that
\* waits for a later one is not concerned.
LEMMA DeliveredMore ==
    ASSUME NEW i, NEW j, NEW s, NEW waits, NEW f, NEW g, NEW next \in Nat,
           i.start \in Nat, i.minRev \in Nat,
           Delivered(i, s, waits, f, next),
           j.start = i.start, j.minRev = i.minRev, j.batch = i.batch,
           \A r \in Nat : r < next => g[r] = f[r],
           j.group = "synced" => \A r \in Nat : r >= i.minRev => g[r] = {}
    PROVE  Delivered(j, s, waits, g, next + 1)
<1>1. /\ i.start <= i.minRev
      /\ i.minRev <= next \/ i.minRev = i.start
    BY DEF Delivered
<1>2. ASSUME NEW x \in Nat, NEW y \in Nat, NEW q, i.start <= x, y <= i.minRev, Tells(q, f, x, y)
      PROVE  Tells(q, g, x, y)
    <2>1. \A r \in Nat : x <= r /\ r < y => f[r] = g[r]
        BY <1>1, <1>2
    <2> QED
        BY <1>2, <2>1, TellsSame
<1>3. ASSUME waits
      PROVE  \E b \in i.start..i.minRev : Tells(s, g, i.start, b) /\ Tells(i.batch, g, b, i.minRev)
    <2>1. PICK b \in i.start..i.minRev : Tells(s, f, i.start, b) /\ Tells(i.batch, f, b, i.minRev)
        BY <1>3 DEF Delivered
    <2>2. b \in Nat /\ i.start <= b /\ b <= i.minRev /\ i.start <= i.start /\ i.minRev <= i.minRev
        OBVIOUS
    <2>3. Tells(s, g, i.start, b) /\ Tells(i.batch, g, b, i.minRev)
        BY <1>2, <2>1, <2>2
    <2> QED
        BY <2>3
<1>4. ASSUME ~waits
      PROVE  Tells(s, g, i.start, i.minRev)
    <2>1. Tells(s, f, i.start, i.minRev)
        BY <1>4 DEF Delivered
    <2> QED
        BY <1>2, <2>1
<1>5. j.minRev <= next + 1 \/ j.minRev = j.start
    BY <1>1
<1> QED
    BY <1>1, <1>3, <1>4, <1>5 DEF Delivered

-----------------------------------------------------------------------------
(* Batches of victims *)

\* A batch is added at the end.
LEMMA InAppend ==
    ASSUME NEW s \in Seq(SUBSET Watcher), NEW V \in SUBSET Watcher, NEW w
    PROVE  In(w, Append(s, V)) = In(w, s) \cup (IF w \in V THEN {Len(s) + 1} ELSE {})
<1> DEFINE u == Append(s, V)
<1>1. /\ Len(s) \in Nat /\ DOMAIN s = 1..Len(s) /\ DOMAIN u = 1..(Len(s) + 1)
      /\ u[Len(s) + 1] = V /\ \A i \in 1..Len(s) : u[i] = s[i]
    BY AppendProperties
<1> HIDE DEF u
<1>2. /\ \A i \in 1..(Len(s) + 1) : i \in 1..Len(s) \/ i = Len(s) + 1
      /\ Len(s) + 1 \in 1..(Len(s) + 1) /\ \A i \in 1..Len(s) : i \in 1..(Len(s) + 1)
    BY <1>1
<1>3. In(w, u) = In(w, s) \cup (IF w \in V THEN {Len(s) + 1} ELSE {})
    BY <1>1, <1>2 DEF In
<1> QED
    BY <1>3 DEF u

\* The first batch is done.
LEMMA InTail ==
    ASSUME NEW s \in Seq(SUBSET Watcher), s # <<>>, NEW w
    PROVE  /\ In(w, s) = {} => In(w, Tail(s)) = {}
           /\ \A n : In(w, s) = {n} => IF w \in s[1] THEN In(w, Tail(s)) = {}
                                       ELSE In(w, Tail(s)) = {n - 1}
<1> DEFINE u == Tail(s)
<1>1. /\ Len(s) \in Nat /\ Len(s) # 0 /\ DOMAIN s = 1..Len(s) /\ DOMAIN u = 1..(Len(s) - 1)
      /\ \A i \in 1..(Len(s) - 1) : u[i] = s[i + 1]
    BY HeadTailProperties
<1> HIDE DEF u
<1>2. \A i \in 1..(Len(s) - 1) : i + 1 \in 1..Len(s) /\ i + 1 # 1 /\ (i + 1) - 1 = i
    BY <1>1
<1>3. \A i \in In(w, u) : i + 1 \in In(w, s) /\ (i + 1) - 1 = i /\ i + 1 # 1
    BY <1>1, <1>2 DEF In
<1>4. In(w, s) = {} => In(w, u) = {}
    BY <1>3
<1>5. ASSUME NEW n, In(w, s) = {n}
      PROVE  IF w \in s[1] THEN In(w, u) = {} ELSE In(w, u) = {n - 1}
    <2>1. CASE w \in s[1]
        <3>1. 1 \in In(w, s)
            BY <1>1, <2>1 DEF In
        <3> QED
            BY <1>3, <1>5, <2>1, <3>1
    <2>2. CASE ~(w \in s[1])
        <3>1. n \in 1..Len(s) /\ w \in s[n] /\ n # 1
            BY <1>1, <1>5, <2>2 DEF In
        <3>2. n - 1 \in 1..(Len(s) - 1) /\ (n - 1) + 1 = n
            BY <1>1, <3>1
        <3>3. n - 1 \in In(w, u)
            BY <1>1, <3>1, <3>2 DEF In
        <3>4. \A i \in In(w, u) : i = n - 1
            BY <1>3, <1>5
        <3> QED
            BY <2>2, <3>3, <3>4
    <2> QED
        BY <2>1, <2>2
<1> QED
    BY <1>4, <1>5 DEF u

\* The batches without a watcher.
Without(s, v) == [i \in DOMAIN s |-> s[i] \ {v}]

\* It leaves all of them, and no other does.
LEMMA InWithout ==
    ASSUME NEW s \in Seq(SUBSET Watcher), NEW v, NEW w
    PROVE  /\ Without(s, v) \in Seq(SUBSET Watcher)
           /\ In(w, Without(s, v)) = IF w = v THEN {} ELSE In(w, s)
<1> USE DEF Without
<1> DEFINE u == Without(s, v)
<1>1. u \in Seq(SUBSET Watcher)
    <2>1. Len(s) \in Nat /\ DOMAIN s = 1..Len(s) /\ \A i \in 1..Len(s) : s[i] \in SUBSET Watcher
        OBVIOUS
    <2>2. u \in [1..Len(s) -> SUBSET Watcher]
        BY <2>1
    <2> QED
        BY <2>1, <2>2
<1>2. In(w, u) = IF w = v THEN {} ELSE In(w, s)
    BY DEF In
<1> QED
    BY <1>1, <1>2

\* The channel never holds more than it has room for.
LEMMA FilledTyped ==
    ASSUME NEW len \in 0..ChanBufLen, NEW G \in SUBSET Watcher
    PROVE  Filled(len, G) \in 0..ChanBufLen
<1> DEFINE c == len + Cardinality(G)
<1>1. ChanBufLen \in Nat /\ c \in Nat
    <2>1. IsFiniteSet(G)
        BY WatchAssumption, FS_Subset
    <2>2. Cardinality(G) \in Nat /\ ChanBufLen \in Nat
        BY <2>1, WatchAssumption, FS_CardinalityType
    <2> QED
        BY <2>2
<1> HIDE DEF c
<1> DEFINE P == {ChanBufLen, c}
<1>2. P \in SUBSET Nat /\ P # {} /\ ChanBufLen \in P
    BY <1>1
<1>3. Filled(len, G) = Min(P)
    BY DEF Filled, c
<1> HIDE DEF P
<1>4. Min(P) \in Nat /\ Min(P) <= ChanBufLen
    BY <1>2, LeastFacts
<1> QED
    BY <1>1, <1>3, <1>4

\* What is sent or kept for later are events of revisions so far.
LEMMA BatchTyped ==
    ASSUME TypeInv, NEW S, NEW revs, NEW keys \in SUBSET Key
    PROVE  LET evs == Events(S, revs, keys)
           IN  /\ evs \in Seq(Event) /\ Batch(evs) \in Seq(Event)
               /\ moreRev(evs) \in Nat /\ (moreRev(evs) # 0 => evs # <<>>)
               /\ Reached(evs, currentRev + 1) \in 0..MaxRev + 2
<1> DEFINE evs == Events(S, revs, keys)
           next == currentRev + 1
<1>1. Len(history) \in Nat /\ currentRev \in Nat /\ next \in Nat /\ 0 \in Nat /\ 0 <= next
      /\ currentRev <= MaxRev /\ next <= MaxRev + 2 /\ MaxRev \in Nat
    BY WatchAssumption DEF TypeInv, currentRev
<1>2. PICK f : f[0] = {} /\ Tells(evs, f, 0, next)
    BY <1>1, EventsTyped
<1> HIDE DEF evs, next
<1>3. /\ Tells(Batch(evs), f, 0, Reached(evs, next))
      /\ Reached(evs, next) \in Nat /\ Reached(evs, next) <= next
      /\ moreRev(evs) \in Nat
    BY <1>1, <1>2, BatchTells
<1>4. ASSUME NEW q, NEW b \in Nat, b <= next, Tells(q, f, 0, b)
      PROVE  q \in Seq(Event)
    <2>1. q \in Seq(Nat \X SUBSET Key) /\ Len(q) \in Nat
        BY <1>4 DEF Tells, EventList
    <2>2. ASSUME NEW k \in 1..Len(q)
          PROVE  q[k] \in Event
        <3>1. q[k] \in Nat \X SUBSET Key /\ q[k][1] \in Nat /\ q[k][2] \in SUBSET Key
              /\ q[k] = <<q[k][1], q[k][2]>>
            BY <2>1
        <3>2. q[k][1] < b /\ f[q[k][1]] # {}
            BY <1>4 DEF Tells
        <3>3. q[k][1] \in 1..MaxRev
            <4>1. q[k][1] # 0
                BY <1>2, <3>2
            <4> QED
                BY <1>1, <1>4, <3>1, <3>2, <4>1 DEF next
        <3> QED
            BY <3>1, <3>3 DEF Event
    <2> DEFINE n == Len(q)
    <2>3. q \in [1..n -> Event] /\ n \in Nat
        BY <2>1, <2>2
    <2> HIDE DEF n
    <2> QED
        BY <2>3
<1>5. next <= next
    BY <1>1
<1>6. evs \in Seq(Event) /\ Batch(evs) \in Seq(Event)
    BY <1>1, <1>2, <1>3, <1>4, <1>5
<1>7. moreRev(evs) # 0 => evs # <<>>
    <2> SUFFICES ASSUME evs = <<>> PROVE moreRev(evs) = 0
        OBVIOUS
    <2>1. Len(evs) <= WatchBatchMaxRevs
        BY WatchAssumption
    <2> QED
        BY <2>1 DEF moreRev
<1>8. Reached(evs, next) \in 0..MaxRev + 2
    BY <1>1, <1>3
<1> QED
    BY <1>3, <1>6, <1>7, <1>8 DEF evs, next

\* Victims are put into a new batch; the others are where they were.
LEMMA VictimsAdded ==
    ASSUME NEW V \in SUBSET Watcher, TypeInv, addVictim(V)
    PROVE  /\ victims' \in Seq(SUBSET Watcher)
           /\ \A w \in Watcher : IF w \in V THEN In(w, victims) = {} => \E n : In(w, victims') = {n}
                                 ELSE In(w, victims') = In(w, victims)
<1>1. victims \in Seq(SUBSET Watcher)
    BY DEF TypeInv
<1>2. CASE V = {}
    BY <1>1, <1>2 DEF addVictim
<1>3. CASE V # {}
    <2>1. victims' = Append(victims, V)
        BY <1>3 DEF addVictim
    <2>2. \A w \in Watcher : In(w, victims') = In(w, victims)
                                \cup (IF w \in V THEN {Len(victims) + 1} ELSE {})
        BY <1>1, <2>1, InAppend
    <2>3. victims' \in Seq(SUBSET Watcher)
        BY <1>1, <2>1
    <2>4. ASSUME NEW w \in Watcher, w \in V, In(w, victims) = {}
          PROVE  \E n : In(w, victims') = {n}
        <3>1. In(w, victims') = {Len(victims) + 1}
            BY <2>2, <2>4
        <3> QED
            BY <3>1
    <2>5. ASSUME NEW w \in Watcher, w \notin V
          PROVE  In(w, victims') = In(w, victims)
        BY <2>2, <2>5
    <2> QED
        BY <2>3, <2>4, <2>5
<1> QED
    BY <1>2, <1>3

-----------------------------------------------------------------------------
(* One step *)

\* The revisions.
LEMMA CurrentFacts ==
    ASSUME TypeInv
    PROVE  /\ history \in Seq(Txns) /\ Len(history) \in Nat /\ currentRev = Len(history) + 1
           /\ currentRev \in Nat /\ currentRev <= MaxRev /\ MaxRev \in Nat
           /\ compactRev \in Int /\ compactRev <= currentRev
BY WatchAssumption DEF TypeInv, currentRev

\* Nothing was written; there may be a later compaction.
SameStore == history' = history /\ compactRev' \in Int /\ compactRev <= compactRev'

\* So it is when the store is left alone.
LEMMA SameStoreHolds ==
    ASSUME TypeInv, UNCHANGED store
    PROVE  SameStore
BY DEF TypeInv, store, SameStore

\* A watcher that a step leaves alone, in a store where at most the compaction moves.
LEMMA RightStays ==
    ASSUME NEW w \in Watcher, TypeInv, Right(w),
           SameStore, watcher'[w] = watcher[w], sent'[w] = sent[w], w \in tried' <=> w \in tried, Placed(w)'
    PROVE  Right(w)'
<1>1. Waits(w)' = Waits(w) /\ currentRev' = currentRev /\ Seen(history, w)' = Seen(history, w)
    BY DEF SameStore, Waits, currentRev, Seen, Changed
<1>2. Marked(watcher[w], sent[w], currentRev + 1, compactRev)'
    <2>1. watcher[w] \in Info
        BY DEF TypeInv
    <2>2. /\ watcher[w].minRev \in Int /\ compactRev \in Int
          /\ compactRev' \in Int /\ compactRev <= compactRev'
        BY <2>1, WatchAssumption DEF SameStore, Info, TypeInv
    <2>3. Marked(watcher[w], sent[w], currentRev + 1, compactRev)
        BY DEF Right
    <2> QED
        BY <1>1, <2>2, <2>3 DEF Marked
<1>3. IsActive(watcher[w])' =>
            Delivered(watcher[w], sent[w], Waits(w), Seen(history, w), currentRev + 1)'
    BY <1>1 DEF Right, IsActive, Delivered
<1> QED
    BY <1>2, <1>3 DEF Right

\* And one that stays where it is.
LEMMA PlacedStays ==
    ASSUME NEW w \in Watcher, Placed(w), watcher'[w] = watcher[w],
           In(w, victims') = In(w, victims), In(w, moving') = In(w, moving),
           w \in failed' <=> w \in failed
    PROVE  Placed(w)'
BY DEF Placed, Once, Nowhere, In

\* A new watcher.
LEMMA IdleTyped ==
    /\ Idle \in Info
    /\ Idle.group = "none" /\ Idle.restore = FALSE /\ Idle.victim = FALSE
    /\ Idle.compacted = FALSE /\ Idle.batch = <<>> /\ Idle.moreRev = 0
<1>1. <<>> \in Seq(Event) /\ 0 \in Nat /\ 0 \in 0..MaxRev + 2
    BY WatchAssumption
<1> QED
    BY <1>1 DEF Idle, Info, GroupName

\* At the start nobody watches.
LEMMA InitRight ==
    ASSUME Init
    PROVE  WatchInv
<1> USE DEF Init
<1>1. Idle \in Info
    BY IdleTyped
<1>2. TypeInv
    <2>1. <<>> \in Seq(Txns) /\ currentRev = 1 /\ currentRev <= MaxRev
        BY WatchAssumption DEF currentRev
    <2>2. channel \in 0..ChanBufLen
        BY WatchAssumption
    <2> QED
        BY <1>1, <2>1, <2>2 DEF TypeInv
<1>3. StoreInv
    BY DEF StoreInv, Changed
<1>4. LoopInv
    BY DEF LoopInv
<1>5. \A w \in Watcher : Shape(watcher[w])
    BY DEF Shape, Idle
<1>6. ASSUME NEW w \in Watcher
      PROVE  Right(w)
    <2>1. Placed(w)
        BY DEF Placed, Nowhere, In, Idle
    <2>2. Marked(watcher[w], sent[w], currentRev + 1, compactRev)
        BY DEF Marked, Idle
    <2>3. ~IsActive(watcher[w])
        BY DEF IsActive, Idle
    <2> QED
        BY <2>1, <2>2, <2>3 DEF Right
<1> QED
    BY <1>2, <1>3, <1>4, <1>5, <1>6 DEF WatchInv

\* What the invariant says of the store and of its history, if a step leaves them.
LEMMA StoreStays ==
    ASSUME StoreInv, UNCHANGED store
    PROVE  StoreInv'
BY DEF StoreInv, store, Changed

\* What it says of the batch in hand, if a step leaves that.
LEMMA LoopStays ==
    ASSUME LoopInv, UNCHANGED <<moving, tried, failed>>
    PROVE  LoopInv'
BY DEF LoopInv

\* A watch starts with nothing sent and everything to come.
LEMMA WatchStep ==
    ASSUME WatchInv, NEW w \in Watcher, NEW startRev \in 2..currentRev + 2, watch(w, startRev)
    PROVE  WatchInv'
<1> USE DEF watch
<1> DEFINE i == [Idle EXCEPT !.group = IF startRev > currentRev THEN "synced" ELSE "unsynced",
                             !.start = startRev, !.minRev = startRev]
<1>1. TypeInv /\ StoreInv /\ LoopInv /\ watcher \in [Watcher -> Info]
    BY DEF WatchInv, TypeInv
<1>2. /\ currentRev \in Nat /\ currentRev <= MaxRev /\ startRev \in Nat
      /\ startRev \in 0..MaxRev + 2 /\ startRev < currentRev + 3
    BY <1>1, WatchAssumption DEF TypeInv, currentRev
<1>3. /\ i.group = IF startRev > currentRev THEN "synced" ELSE "unsynced"
      /\ i.start = startRev /\ i.minRev = startRev /\ i.restore = FALSE /\ i.victim = FALSE
      /\ i.compacted = FALSE /\ i.batch = <<>> /\ i.moreRev = 0 /\ i \in Info
    BY <1>2, IdleTyped DEF Info, GroupName
<1>4. watcher' = [watcher EXCEPT ![w] = i]
    OBVIOUS
<1> HIDE DEF i
<1>5. TypeInv'
    <2>1. watcher' \in [Watcher -> Info]
        BY <1>1, <1>3, <1>4
    <2> QED
        BY <1>1, <2>1 DEF TypeInv, store, loop, currentRev
<1>6. StoreInv' /\ LoopInv'
    BY <1>1, StoreStays, LoopStays DEF loop
<1>7. ASSUME NEW v \in Watcher
      PROVE  Shape(watcher[v])'
    <2>1. CASE v = w
        BY <1>1, <1>3, <1>4, <2>1 DEF Shape
    <2>2. CASE v # w
        BY <1>1, <1>4, <2>2 DEF Shape, WatchInv
    <2> QED
        BY <2>1, <2>2
<1>8. ASSUME NEW v \in Watcher \ excused'
      PROVE  Right(v)'
    <2>1. Right(v) /\ v \in Watcher
        BY <1>8 DEF WatchInv
    <2>2. /\ In(v, victims') = In(v, victims) /\ In(v, moving') = In(v, moving)
          /\ v \in failed' <=> v \in failed
        BY DEF loop
    <2>3. CASE v # w
        <3>1. watcher'[v] = watcher[v]
            BY <1>1, <1>4, <2>1, <2>3
        <3>2. Placed(v)'
            BY <2>1, <2>2, <3>1, PlacedStays DEF Right
        <3>3. SameStore /\ sent'[v] = sent[v] /\ (v \in tried' <=> v \in tried)
            BY <1>1, SameStoreHolds DEF loop
        <3> QED
            BY <1>1, <2>1, <3>1, <3>2, <3>3, RightStays
    <2>4. CASE v = w
        <3>1. watcher'[v] = i /\ watcher[v].group = "none" /\ sent' = sent
            BY <1>1, <1>4, <2>4
        <3>2. sent'[v] = <<>>
            BY <2>1, <3>1 DEF Right, Marked
        <3>3. Nowhere(v, victims, moving, failed)
            BY <2>1, <3>1 DEF Right, Placed
        <3>4. Placed(v)'
            BY <1>3, <2>2, <3>1, <3>3 DEF Placed, Nowhere
        <3>5. ~Waits(v)'
            BY <1>3, <3>1 DEF Waits
        <3>6. currentRev' = currentRev /\ Seen(history, v)' = Seen(history, v)
            BY DEF store, currentRev, Seen, Changed
        <3>7. Marked(i, sent'[v], currentRev + 1, compactRev')
            BY <1>2, <1>3 DEF Marked
        <3> DEFINE f == Seen(history, v)
        <3>8. startRev > currentRev => \A r \in Nat : r >= startRev => f[r] = {}
            <4>1. \A r \in Nat : r >= Len(history) + 2 => f[r] = {}
                BY <1>1, <2>1, SeenFacts DEF TypeInv
            <4> QED
                BY <1>1, <1>2, <4>1 DEF currentRev, TypeInv
        <3> HIDE DEF f
        <3>9. Tells(<<>>, f, startRev, startRev)
            <4>1. \A r \in Nat : startRev <= r /\ r < startRev => f[r] = {}
                BY <1>2
            <4> QED
                BY <1>2, <4>1, TellsNothing
        <3>10. Delivered(i, <<>>, FALSE, f, currentRev + 1)
            BY <1>2, <1>3, <3>8, <3>9 DEF Delivered
        <3>11. Marked(watcher[v], sent[v], currentRev + 1, compactRev)'
            BY <3>1, <3>6, <3>7
        <3>12. Delivered(watcher[v], sent[v], Waits(v), Seen(history, v), currentRev + 1)'
            BY <3>1, <3>2, <3>5, <3>6, <3>10 DEF Delivered, f
        <3> QED
            BY <3>4, <3>11, <3>12 DEF Right
    <2> QED
        BY <2>3, <2>4
<1> QED
    BY <1>5, <1>6, <1>7, <1>8 DEF WatchInv

\* At most the channel moves: the client takes a response, or is sent an empty one.
LEMMA ChannelStep ==
    ASSUME WatchInv, Receive \/ RequestProgressAll \/ UNCHANGED vars
    PROVE  WatchInv'
<1>1. /\ UNCHANGED <<store, watcher, loop, sent, excused>>
      /\ channel' \in 0..ChanBufLen
    <2>1. channel \in 0..ChanBufLen
        BY DEF WatchInv, TypeInv
    <2> QED
        BY <2>1, WatchAssumption DEF Receive, RequestProgressAll, vars
<1>2. TypeInv /\ StoreInv /\ LoopInv
    BY DEF WatchInv
<1>3. TypeInv'
    BY <1>1, <1>2 DEF TypeInv, store, loop, currentRev
<1>4. StoreInv' /\ LoopInv'
    BY <1>1, <1>2, StoreStays, LoopStays DEF loop
<1>5. \A v \in Watcher : Shape(watcher[v])'
    BY <1>1 DEF Shape, WatchInv
<1>6. ASSUME NEW v \in Watcher \ excused'
      PROVE  Right(v)'
    <2>1. Right(v) /\ v \in Watcher
        BY <1>1, <1>6 DEF WatchInv
    <2>2. Placed(v)'
        BY <1>1, <2>1, PlacedStays DEF loop, Right
    <2>3. /\ SameStore /\ watcher'[v] = watcher[v] /\ sent'[v] = sent[v]
          /\ v \in tried' <=> v \in tried
        BY <1>1, <1>2, SameStoreHolds DEF loop
    <2> QED
        BY <1>2, <2>1, <2>2, <2>3, RightStays
<1> QED
    BY <1>3, <1>4, <1>5, <1>6 DEF WatchInv

\* A cancelled watcher leaves the batches of victims.
LEMMA CancelStep ==
    ASSUME WatchInv, NEW w \in Watcher, cancelWatcher(w)
    PROVE  WatchInv'
<1> USE DEF cancelWatcher
<1> DEFINE i == [Idle EXCEPT !.group = "cancelled"]
           u == Without(victims, w)
<1>1. TypeInv /\ StoreInv /\ LoopInv /\ watcher \in [Watcher -> Info]
      /\ victims \in Seq(SUBSET Watcher)
    BY DEF WatchInv, TypeInv
<1>2. /\ i.group = "cancelled" /\ i.restore = FALSE /\ i.victim = FALSE
      /\ i.compacted = FALSE /\ i.moreRev = 0 /\ i \in Info
    BY IdleTyped DEF Info, GroupName
<1>3. watcher' = [watcher EXCEPT ![w] = i] /\ victims' = IF watcher[w].compacted THEN victims ELSE u
    BY DEF Without
<1>4. /\ u \in Seq(SUBSET Watcher)
      /\ \A v \in Watcher : In(v, u) = IF v = w THEN {} ELSE In(v, victims)
    BY <1>1, InWithout
<1> HIDE DEF i, u
<1>5. TypeInv'
    <2>1. watcher' \in [Watcher -> Info] /\ victims' \in Seq(SUBSET Watcher)
        BY <1>1, <1>2, <1>3, <1>4
    <2> QED
        BY <1>1, <2>1 DEF TypeInv, store, currentRev
<1>6. StoreInv' /\ LoopInv'
    BY <1>1, StoreStays, LoopStays
<1>7. ASSUME NEW v \in Watcher
      PROVE  Shape(watcher[v])'
    <2>1. CASE v = w
        BY <1>1, <1>2, <1>3, <2>1 DEF Shape
    <2>2. CASE v # w
        BY <1>1, <1>3, <2>2 DEF Shape, WatchInv
    <2> QED
        BY <2>1, <2>2
<1>8. ASSUME NEW v \in Watcher \ excused'
      PROVE  Right(v)'
    <2>1. Right(v) /\ v \in Watcher
        BY <1>8 DEF WatchInv
    <2>2. CASE v # w
        <3>1. watcher'[v] = watcher[v] /\ In(v, victims') = In(v, victims)
            BY <1>1, <1>3, <1>4, <2>1, <2>2
        <3>2. Placed(v)'
            BY <2>1, <3>1, PlacedStays DEF Right
        <3>3. SameStore /\ sent'[v] = sent[v] /\ (v \in tried' <=> v \in tried)
            BY <1>1, SameStoreHolds
        <3> QED
            BY <1>1, <2>1, <3>1, <3>2, <3>3, RightStays
    <2>3. CASE v = w
        <3>1. watcher'[v] = i
            BY <1>1, <1>3, <2>3
        <3>2. Nowhere(v, victims', moving', failed')
            <4>1. CASE watcher[v].group = "victim"
                <5>1. ~watcher[v].compacted
                    BY <2>1, <4>1 DEF Right, Marked
                <5>2. \E n \in DOMAIN victims : v \in victims[n]
                    BY <2>3, <4>1, <5>1
                <5>3. In(v, victims) # {} /\ Once(v, victims, moving, failed)
                    BY <2>1, <4>1, <5>2 DEF In, Right, Placed
                <5>4. In(v, moving) = {} /\ v \notin failed
                    BY <5>3 DEF Once
                <5>5. In(v, victims') = {}
                    BY <1>3, <1>4, <2>3, <5>1
                <5> QED
                    BY <5>4, <5>5 DEF Nowhere
            <4>2. CASE watcher[v].group # "victim"
                <5>1. Nowhere(v, victims, moving, failed)
                    BY <2>1, <4>2 DEF Right, Placed
                <5>2. In(v, victims') = {}
                    BY <1>3, <1>4, <2>3, <5>1 DEF Nowhere
                <5> QED
                    BY <5>1, <5>2 DEF Nowhere
            <4> QED
                BY <4>1, <4>2
        <3>3. Placed(v)'
            BY <1>2, <3>1, <3>2 DEF Placed
        <3>4. Marked(watcher[v], sent[v], currentRev + 1, compactRev)'
            BY <1>2, <3>1 DEF Marked
        <3>5. ~IsActive(watcher[v])'
            BY <1>2, <3>1 DEF IsActive
        <3> QED
            BY <3>3, <3>4, <3>5 DEF Right
    <2> QED
        BY <2>2, <2>3
<1> QED
    BY <1>5, <1>6, <1>7, <1>8 DEF WatchInv

\* A transaction is in the backend when it is current, and the compaction is at most at
\* the revision before.
StoreGrows(t) ==
    /\ currentRev < MaxRev /\ history' = Append(history, t)
    /\ stored' = stored \cup Changes(t, currentRev + 1)
    /\ compactRev' \in {compactRev, currentRev}

\* The backend then still lacks nothing that the compaction has not passed.
LEMMA StoreGrowsStep ==
    ASSUME TypeInv, StoreInv, NEW t \in Txns, StoreGrows(t)
    PROVE  /\ history' \in Seq(Txns) /\ currentRev' = currentRev + 1 /\ currentRev' <= MaxRev
           /\ stored' \in SUBSET ((1..MaxRev) \X Key)
           /\ compactRev' \in Int /\ -1 <= compactRev' /\ compactRev' <= currentRev
           /\ compactRev <= compactRev' /\ StoreInv'
<1> USE DEF StoreGrows
<1>1. /\ history \in Seq(Txns) /\ Len(history) \in Nat /\ currentRev = Len(history) + 1
      /\ currentRev \in Nat /\ compactRev \in Int /\ compactRev <= currentRev
      /\ -1 <= compactRev /\ MaxRev \in Nat /\ DOMAIN t \in SUBSET Key
    BY WatchAssumption DEF TypeInv, currentRev
<1>2. history' \in Seq(Txns) /\ currentRev' = currentRev + 1 /\ currentRev' <= MaxRev
    BY <1>1, AppendProperties DEF currentRev
<1>3. stored' \in SUBSET ((1..MaxRev) \X Key)
    <2>1. Changes(t, currentRev + 1) \in SUBSET ((1..MaxRev) \X Key)
        BY <1>1 DEF Changes
    <2> QED
        BY <2>1 DEF TypeInv
<1>4. compactRev' \in Int /\ compactRev <= compactRev' /\ compactRev' <= currentRev
      /\ -1 <= compactRev'
    BY <1>1
<1>5. \A r \in Nat, k \in Key : <<r, k>> \in Changes(t, currentRev + 1)
                                    <=> r = Len(history) + 2 /\ k \in DOMAIN t
    BY <1>1 DEF Changes
<1>6. \A r \in Nat : /\ Changed(history', r) = IF r = Len(history) + 2 THEN DOMAIN t
                                               ELSE Changed(history, r)
                     /\ Changed(history, r) # {} => /\ r # Len(history) + 2
                                                    /\ history'[r - 1] = history[r - 1]
    <2>1. \A r \in Nat : Changed(history, r) # {} =>
                r - 1 \in 1..Len(history) /\ r # Len(history) + 2
        BY <1>1 DEF Changed
    <2> QED
        BY <1>1, <2>1, ChangedMore
<1>7. ASSUME NEW r \in Nat, NEW k \in Key, <<r, k>> \in stored'
      PROVE  k \in Changed(history', r)
    <2>1. CASE <<r, k>> \in stored
        BY <1>6, <2>1 DEF StoreInv
    <2>2. CASE <<r, k>> \in Changes(t, currentRev + 1)
        BY <1>5, <1>6, <2>2
    <2> QED
        BY <1>7, <2>1, <2>2
<1>8. ASSUME NEW r \in Nat, NEW k \in Changed(history', r), <<r, k>> \notin stored'
      PROVE  r < compactRev' \/ (r = compactRev' /\ history'[r - 1][k] = "delete")
    <2>1. k \in Key /\ <<r, k>> \notin stored /\ <<r, k>> \notin Changes(t, currentRev + 1)
        BY <1>2, <1>8, ChangedTyped
    <2>2. k \in Changed(history, r)
        BY <1>5, <1>6, <2>1
    <2>3. r < compactRev \/ (r = compactRev /\ history[r - 1][k] = "delete")
        BY <2>1, <2>2 DEF StoreInv
    <2>4. history'[r - 1] = history[r - 1]
        BY <1>6, <2>2
    <2> QED
        BY <1>1, <1>4, <2>3, <2>4
<1>9. StoreInv'
    BY <1>7, <1>8 DEF StoreInv
<1> QED
    BY <1>2, <1>3, <1>4, <1>9

\* One event tells of one revision.
LEMMA TellsOne ==
    ASSUME NEW f, NEW r \in Nat, f[r] # {}, f[r] \in SUBSET Key
    PROVE  Tells(<<<<r, f[r]>>>>, f, r, r + 1)
<1> DEFINE s == <<<<r, f[r]>>>>
<1>1. s \in EventList /\ Len(s) = 1 /\ s[1] = <<r, f[r]>> /\ s[1][1] = r
    BY DEF EventList
<1> HIDE DEF s
<1>2. \A i \in 1..Len(s) : i = 1
    BY <1>1
<1>3. \A i \in 1..Len(s) : /\ s[i] = <<s[i][1], f[s[i][1]]>> /\ f[s[i][1]] # {}
                           /\ r <= s[i][1] /\ s[i][1] < r + 1
    BY <1>1, <1>2
<1>4. \A i, j \in 1..Len(s) : i < j => s[i][1] < s[j][1]
    BY <1>2
<1>5. ASSUME NEW q \in Nat, r <= q, q < r + 1
      PROVE  \E i \in 1..Len(s) : s[i][1] = q
    <2>1. q = r /\ 1 \in 1..Len(s)
        BY <1>1, <1>5
    <2> QED
        BY <1>1, <2>1
<1>6. Tells(s, f, r, r + 1)
    BY <1>1, <1>3, <1>4, <1>5 DEF Tells
<1> QED
    BY <1>6 DEF s

\* What a synced watcher was sent is everything before the next revision.
LEMMA SyncedTells ==
    ASSUME NEW i, NEW s, NEW f, NEW g, NEW next \in Nat, i.start \in Nat, i.minRev \in Nat,
           Delivered(i, s, FALSE, f, next), i.group = "synced", i.minRev <= next,
           \A r \in Nat : r < next => g[r] = f[r]
    PROVE  i.start <= next /\ Tells(s, g, i.start, next)
<1>1. /\ i.start <= i.minRev /\ Tells(s, f, i.start, i.minRev)
      /\ \A r \in Nat : r >= i.minRev => f[r] = {}
    BY DEF Delivered
<1>2. i.start <= next
    BY <1>1
<1>3. \A r \in Nat : i.start <= r /\ r < i.minRev => f[r] = g[r] /\ (f[r] # {} => r < next)
    BY <1>1
<1>4. \A r \in Nat : i.start <= r /\ r < next /\ ~(r < i.minRev) => g[r] = {}
    BY <1>1
<1> QED
    BY <1>1, <1>2, <1>3, <1>4, TellsSame

\* A watcher that was sent its events by moveVictims is in the batch in hand.
LEMMA TriedMoving ==
    ASSUME TypeInv, LoopInv, NEW w \in tried
    PROVE  moving # <<>> /\ w \in moving[1] /\ In(w, moving) # {} /\ w \notin failed
<1>1. moving # <<>> /\ w \in moving[1] /\ w \notin failed
    BY DEF LoopInv
<1>2. 1 \in DOMAIN moving
    BY <1>1 DEF TypeInv
<1> QED
    BY <1>1, <1>2 DEF In

\* A restore puts a synced watcher back.
PutBack(i, j) ==
    /\ i.group = "synced" /\ j.group = "unsynced" /\ j.restore
    /\ j.start = i.start /\ j.minRev = i.minRev /\ j.batch = i.batch
    /\ j.compacted = i.compacted

\* A watcher that a transaction does not concern, or that is to look for itself.
LEMMA RightGrows ==
    ASSUME TypeInv, StoreInv, NEW t \in Txns, StoreGrows(t), NEW v \in Watcher, Right(v),
           watcher'[v] = watcher[v] \/ PutBack(watcher[v], watcher'[v]),
           watcher'[v].group = "synced" =>
                DOMAIN t \cap KeysOf[v] = {} \/ watcher[v].minRev > currentRev + 1,
           sent'[v] = sent[v], v \in tried' <=> v \in tried, Placed(v)'
    PROVE  Right(v)'
<1> DEFINE i == watcher[v]
           j == watcher'[v]
           f == Seen(history, v)
           g == Seen(history', v)
           next == currentRev + 1
<1>1. /\ history \in Seq(Txns) /\ next = Len(history) + 2 /\ next \in Nat /\ compactRev \in Int
      /\ compactRev <= currentRev /\ currentRev \in Nat
    BY DEF TypeInv, currentRev
<1>2. /\ history' = Append(history, t) /\ currentRev' + 1 = next + 1 /\ compactRev' \in Int
      /\ compactRev <= compactRev'
    BY <1>1, StoreGrowsStep DEF StoreGrows
<1>3. /\ i.start \in Nat /\ i.minRev \in Nat
    BY WatchAssumption DEF TypeInv, Info
<1>4. /\ \A r \in Nat : r # next => g[r] = f[r]
      /\ g[next] = DOMAIN t \cap KeysOf[v]
    BY <1>1, <1>2, SeenMore
<1>5. /\ j.start = i.start /\ j.minRev = i.minRev /\ j.batch = i.batch
      /\ j.compacted = i.compacted /\ (i.group = "victim" <=> j.group = "victim")
      /\ i.group \in {"none", "cancelled"} <=> j.group \in {"none", "cancelled"}
      /\ j.group = "synced" => i.group = "synced"
      /\ j.group = "none" => i.group = "none"
      /\ j.group = "unsynced" => j.restore \/ (i = j)
      /\ j.compacted /\ j.group # i.group => j.group = "unsynced"
    BY DEF PutBack
<1>6. Marked(watcher[v], sent[v], currentRev + 1, compactRev)'
    <2>1. Marked(i, sent[v], next, compactRev)
        BY DEF Right
    <2> HIDE DEF i, j, next
    <2>2. j.group = "unsynced" /\ j.minRev >= next + 1 => j.restore
        <3>1. j.minRev >= next + 1 => j.minRev >= next
            BY <1>1, <1>3, <1>5
        <3> QED
            BY <1>5, <2>1, <3>1 DEF Marked
    <2>3. j.compacted => j.minRev < compactRev' /\ j.group \in {"unsynced", "compacted"}
        <3> SUFFICES ASSUME j.compacted PROVE j.minRev < compactRev' /\ j.group \in {"unsynced", "compacted"}
            OBVIOUS
        <3>1. i.minRev < compactRev /\ i.group \in {"unsynced", "compacted"}
            BY <1>5, <2>1 DEF Marked
        <3>2. i.minRev < compactRev'
            BY <1>1, <1>2, <1>3, <3>1
        <3> QED
            BY <1>5, <3>1, <3>2
    <2>4. j.group = "none" => sent'[v] = <<>>
        BY <1>5, <2>1 DEF Marked
    <2>5. Marked(j, sent'[v], next + 1, compactRev')
        BY <2>2, <2>3, <2>4 DEF Marked
    <2> QED
        BY <1>2, <2>5 DEF j
<1>7. ASSUME IsActive(j)
      PROVE  Delivered(watcher[v], sent[v], Waits(v), Seen(history, v), currentRev + 1)'
    <2>1. IsActive(i)
        BY <1>5, <1>7 DEF IsActive
    <2>2. Delivered(i, sent[v], Waits(v), f, next)
        BY <2>1 DEF Right
    <2>3. \A r \in Nat : r < next => g[r] = f[r]
        BY <1>1, <1>4
    <2>4. ASSUME j.group = "synced", NEW r \in Nat, r >= i.minRev
          PROVE  g[r] = {}
        <3>1. f[r] = {}
            BY <1>5, <2>2, <2>4 DEF Delivered
        <3>2. CASE r # next
            BY <1>4, <3>1, <3>2
        <3>3. CASE r = next
            BY <1>1, <1>3, <1>4, <2>4, <3>3
        <3> QED
            BY <3>2, <3>3
    <2>5. Waits(v)' = Waits(v)
        BY <1>5 DEF Waits
    <2> DEFINE s == sent[v]
               q == Waits(v)
    <2>6. Delivered(i, s, q, f, next)
        BY <2>2
    <2> HIDE DEF i, j, f, g, next, s, q
    <2>7. Delivered(j, s, q, g, next + 1)
        BY <1>1, <1>3, <1>5, <2>3, <2>4, <2>6, DeliveredMore
    <2>8. Delivered(watcher'[v], sent'[v], Waits(v)', Seen(history', v), currentRev' + 1)
        BY <1>2, <2>5, <2>7 DEF s, q, j, g
    <2> QED
        BY <2>8 DEF Delivered, Seen, Changed
<1> QED
    BY <1>6, <1>7 DEF Right

\* A snapshot restores the store; synced watchers are to look for what they missed.
LEMMA RestoreStep ==
    ASSUME WatchInv, NEW t \in Txns, NEW rev \in {compactRev, currentRev}, Restore(t, rev)
    PROVE  WatchInv'
<1> USE DEF Restore
<1>1. TypeInv /\ StoreInv /\ LoopInv /\ watcher \in [Watcher -> Info]
    BY DEF WatchInv, TypeInv
<1>2. StoreGrows(t)
    BY DEF StoreGrows
<1>3. ASSUME NEW v \in Watcher
      PROVE  /\ watcher'[v] \in Info
             /\ IF v \in synced THEN PutBack(watcher[v], watcher'[v]) /\ Shape(watcher[v])'
                                     /\ watcher[v].group = "synced"
                ELSE watcher'[v] = watcher[v] /\ watcher[v].group # "synced"
    <2>1. watcher[v] \in Info /\ Shape(watcher[v])
        BY <1>1 DEF WatchInv
    <2>2. CASE v \in synced
        <3>1. watcher'[v] = [watcher[v] EXCEPT !.group = "unsynced", !.restore = TRUE]
              /\ watcher[v].group = "synced"
            BY <2>2 DEF synced, Group
        <3> QED
            BY <2>1, <2>2, <3>1 DEF Info, GroupName, PutBack, Shape
    <2>3. CASE v \notin synced
        <3>1. watcher'[v] = watcher[v] /\ watcher[v].group # "synced"
            BY <2>3 DEF synced, Group
        <3> QED
            BY <2>1, <2>3, <3>1
    <2> QED
        BY <2>2, <2>3
<1>4. TypeInv'
    <2>1. watcher' \in [Watcher -> Info]
        BY <1>3
    <2>2. compactRev' <= currentRev'
        <3> HIDE DEF Restore
        <3>1. currentRev \in Nat
            BY <1>1, CurrentFacts
        <3>2. /\ compactRev' \in Int /\ compactRev' <= currentRev
              /\ currentRev' = currentRev + 1
            BY <1>1, <1>2, StoreGrowsStep
        <3> QED
            BY <3>1, <3>2
    <2>3. /\ victims' = victims /\ moving' = moving /\ tried' = tried /\ failed' = failed
          /\ sent' = sent /\ channel' = channel
        BY DEF loop
    <2> QED
        BY <1>1, <1>2, <2>1, <2>2, <2>3, StoreGrowsStep DEF TypeInv
<1>5. StoreInv' /\ LoopInv'
    BY <1>1, <1>2, StoreGrowsStep, LoopStays DEF loop
<1>6. \A v \in Watcher : Shape(watcher[v])'
    BY <1>3 DEF Shape, WatchInv
<1>7. ASSUME NEW v \in Watcher \ excused'
      PROVE  Right(v)'
    <2>1. Right(v) /\ v \in Watcher
        BY <1>7 DEF WatchInv
    <2>2. /\ watcher'[v] = watcher[v] \/ PutBack(watcher[v], watcher'[v])
          /\ watcher'[v].group # "synced"
          /\ watcher'[v].group = "victim" <=> watcher[v].group = "victim"
        BY <1>3, <2>1 DEF PutBack
    <2>3. Placed(v)'
        BY <2>1, <2>2 DEF Right, Placed, Once, Nowhere, In, loop
    <2>4. sent'[v] = sent[v] /\ (v \in tried' <=> v \in tried)
        BY DEF loop
    <2> QED
        BY <1>1, <1>2, <2>1, <2>2, <2>3, <2>4, RightGrows
<1> QED
    BY <1>4, <1>5, <1>6, <1>7 DEF WatchInv

\* A write notifies the synced watchers of its keys; those it cannot notify become victims.
LEMMA WriteStep ==
    ASSUME WatchInv, NEW t \in Txns, Write(t)
    PROVE  WatchInv'
<1> DEFINE rev == currentRev + 1
           keys(w) == DOMAIN t \cap KeysOf[w]
           touched == {w \in synced : keys(w) # {} /\ watcher[w].minRev <= rev}
<1>1. TypeInv /\ StoreInv /\ LoopInv /\ watcher \in [Watcher -> Info]
      /\ sent \in [Watcher -> Seq(Event)]
    BY DEF WatchInv, TypeInv
<1>2. /\ StoreGrows(t) /\ moving' = moving /\ tried' = tried /\ failed' = failed
      /\ excused' = excused
    BY DEF Write, StoreGrows
<1>3. PICK G \in Served(touched, channel) :
            /\ channel' = Filled(channel, G)
            /\ sent' = [w \in Watcher |-> IF w \in G THEN Append(sent[w], <<rev, keys(w)>>)
                                          ELSE sent[w]]
            /\ watcher' = [w \in Watcher |->
                IF w \notin touched THEN watcher[w]
                ELSE IF w \in G THEN [watcher[w] EXCEPT !.minRev = rev + 1]
                ELSE [watcher[w] EXCEPT !.minRev = rev + 1, !.group = "victim",
                                        !.victim = TRUE, !.batch = <<<<rev, keys(w)>>>>,
                                        !.moreRev = 0]]
            /\ addVictim(touched \ G)
    BY DEF Write, End
<1>4. /\ touched \in SUBSET Watcher /\ G \in SUBSET touched /\ G \in SUBSET Watcher
      /\ touched \ G \in SUBSET Watcher
    BY <1>3 DEF Served, synced, Group
<1>5. \A w \in touched : watcher[w].group = "synced" /\ keys(w) # {} /\ watcher[w].minRev <= rev
    BY DEF synced, Group
<1>6. \A w \in Watcher \ touched : watcher[w].group = "synced" =>
            keys(w) = {} \/ ~(watcher[w].minRev <= rev)
    BY DEF synced, Group
<1>7. /\ history \in Seq(Txns) /\ rev \in Nat /\ rev = Len(history) + 2 /\ rev \in 1..MaxRev
      /\ rev + 1 \in 0..MaxRev + 2
    <2>1. currentRev < MaxRev
        BY <1>2 DEF StoreGrows
    <2> QED
        BY <1>1, <2>1, CurrentFacts
<1>8. \A w \in Watcher : keys(w) \in SUBSET Key /\ <<rev, keys(w)>> \in Event
    BY <1>7, WatchAssumption DEF Event
<1>9. /\ history' = Append(history, t) /\ currentRev' = rev /\ history' \in Seq(Txns)
    BY <1>1, <1>2, StoreGrowsStep DEF StoreGrows
<1> HIDE DEF touched, rev
<1>10. ASSUME NEW v \in Watcher
       PROVE  /\ watcher'[v] \in Info /\ Shape(watcher[v])'
              /\ v \in touched =>
                    LET i == watcher[v]
                        j == watcher'[v]
                    IN  /\ j.start = i.start /\ j.minRev = rev + 1 /\ j.compacted = i.compacted
                        /\ v \in G => j.group = "synced" /\ sent'[v] = Append(sent[v], <<rev, keys(v)>>)
                        /\ v \notin G => j.group = "victim" /\ sent'[v] = sent[v]
                                         /\ j.batch = <<<<rev, keys(v)>>>>
              /\ v \notin touched => watcher'[v] = watcher[v] /\ sent'[v] = sent[v]
    <2>1. watcher[v] \in Info /\ Shape(watcher[v])
        BY <1>1 DEF WatchInv
    <2>2. <<<<rev, keys(v)>>>> \in Seq(Event)
        BY <1>8
    <2> HIDE DEF keys
    <2>3. CASE v \notin touched
        BY <1>3, <1>4, <2>1, <2>3 DEF Shape
    <2>4. CASE v \in G
        <3>1. watcher'[v] = [watcher[v] EXCEPT !.minRev = rev + 1] /\ v \in touched
              /\ sent'[v] = Append(sent[v], <<rev, keys(v)>>)
            BY <1>3, <1>4, <2>4
        <3> QED
            BY <1>5, <1>7, <2>1, <2>4, <3>1 DEF Info, Shape
    <2>5. CASE v \in touched \ G
        <3>1. watcher'[v] = [watcher[v] EXCEPT !.minRev = rev + 1, !.group = "victim",
                                        !.victim = TRUE, !.batch = <<<<rev, keys(v)>>>>,
                                        !.moreRev = 0]
              /\ sent'[v] = sent[v]
            BY <1>3, <2>5
        <3> DEFINE j == watcher'[v]
        <3>2. /\ j \in Info /\ j.start = watcher[v].start /\ j.minRev = rev + 1
              /\ j.compacted = watcher[v].compacted /\ j.group = "victim" /\ j.victim = TRUE
              /\ j.batch = <<<<rev, keys(v)>>>> /\ j.moreRev = 0
            <4> DEFINE one == <<<<rev, keys(v)>>>>
            <4>1. one \in Seq(Event)
                BY <2>2
            <4>2. j = [watcher[v] EXCEPT !.minRev = rev + 1, !.group = "victim",
                                         !.victim = TRUE, !.batch = one, !.moreRev = 0]
                BY <3>1
            <4> HIDE DEF j, one
            <4>3. j.minRev = rev + 1 /\ j.group = "victim" /\ j.victim = TRUE /\ j.batch = one
                  /\ j.moreRev = 0 /\ j.start = watcher[v].start
                  /\ j.compacted = watcher[v].compacted
                BY <2>1, <4>2 DEF Info
            <4>4. j \in Info
                BY <1>7, <2>1, <4>1, <4>2 DEF Info, GroupName
            <4> QED
                BY <4>3, <4>4 DEF one
        <3>3. Shape(j) /\ Shape(watcher[v])' = Shape(j)
            BY <3>2 DEF Shape
        <3> QED
            BY <2>5, <3>1, <3>2, <3>3
    <2> QED
        BY <2>3, <2>4, <2>5
<1>11. TypeInv'
    <2>1. watcher' \in [Watcher -> Info]
        BY <1>3, <1>10
    <2>2. sent' \in [Watcher -> Seq(Event)]
        <3>1. ASSUME NEW w \in Watcher
              PROVE  Append(sent[w], <<rev, keys(w)>>) \in Seq(Event)
            BY <1>1, <1>8, AppendProperties
        <3> HIDE DEF keys
        <3> QED
            BY <1>1, <1>3, <3>1
    <2>3. victims' \in Seq(SUBSET Watcher)
        BY <1>1, <1>3, <1>4, VictimsAdded
    <2>4. channel' \in 0..ChanBufLen
        BY <1>1, <1>3, <1>4, FilledTyped DEF TypeInv
    <2>5. compactRev' <= currentRev'
        <3>1. currentRev \in Nat
            BY <1>1, CurrentFacts
        <3>2. /\ compactRev' \in Int /\ compactRev' <= currentRev
              /\ currentRev' = currentRev + 1
            BY <1>1, <1>2, StoreGrowsStep
        <3> QED
            BY <3>1, <3>2
    <2> QED
        BY <1>1, <1>2, <2>1, <2>2, <2>3, <2>4, <2>5, StoreGrowsStep DEF TypeInv
<1>12. StoreInv' /\ LoopInv'
    BY <1>1, <1>2, StoreGrowsStep, LoopStays
<1>13. ASSUME NEW v \in Watcher \ excused', v \notin touched
       PROVE  Right(v)'
    <2>1. Right(v) /\ v \in Watcher
        BY <1>2, <1>13 DEF WatchInv
    <2>2. watcher'[v] = watcher[v] /\ sent'[v] = sent[v]
        BY <1>10, <1>13
    <2>3. Placed(v)'
        <3>1. In(v, victims') = In(v, victims)
            BY <1>1, <1>3, <1>4, <1>13, VictimsAdded
        <3> QED
            BY <1>2, <2>1, <2>2, <3>1, PlacedStays DEF Right
    <2>4. watcher[v].minRev \in Nat
        BY <1>1, WatchAssumption DEF Info
    <2>5. watcher'[v].group = "synced" => keys(v) = {} \/ watcher[v].minRev > rev
        BY <1>6, <1>7, <1>13, <2>2, <2>4
    <2> QED
        BY <1>1, <1>2, <2>1, <2>2, <2>3, <2>5, RightGrows DEF rev
<1>14. ASSUME NEW v \in Watcher \ excused', v \in touched
       PROVE  Right(v)'
    <2> DEFINE i == watcher[v]
               j == watcher'[v]
               f == Seen(history, v)
               g == Seen(history', v)
               s == sent[v]
               one == <<<<rev, keys(v)>>>>
    <2>1. Right(v) /\ v \in Watcher /\ i.group = "synced" /\ keys(v) # {} /\ i.minRev <= rev
        BY <1>2, <1>5, <1>14 DEF WatchInv
    <2>2. i.start \in Nat /\ i.minRev \in Nat
        BY <1>1, WatchAssumption DEF Info
    <2>3. ~i.compacted /\ IsActive(i)
        BY <2>1 DEF Right, Marked, IsActive
    <2>4. Delivered(i, s, FALSE, f, rev)
        BY <2>1, <2>3 DEF Right, Waits, Delivered, rev
    <2>5. /\ \A r \in Nat : r # rev => g[r] = f[r]
          /\ g[rev] = keys(v)
        BY <1>7, <1>9, SeenMore
    <2>6. \A r \in Nat : r < rev => g[r] = f[r]
        BY <1>7, <2>5
    <2>7. i.start <= rev /\ Tells(s, g, i.start, rev)
        <3> HIDE DEF i, s, f, g, keys
        <3> QED
            BY <1>7, <2>1, <2>2, <2>4, <2>6, SyncedTells
    <2>8. Tells(one, g, rev, rev + 1)
        <3>1. keys(v) \in SUBSET Key
            BY <1>8
        <3> HIDE DEF g, keys
        <3>2. Tells(<<<<rev, g[rev]>>>>, g, rev, rev + 1)
            BY <1>7, <2>1, <2>5, <3>1, TellsOne
        <3> QED
            BY <2>5, <3>2
    <2>9. \A r \in Nat : r >= rev + 1 => g[r] = {}
        <3>1. Len(history') = Len(history) + 1
            BY <1>7, <1>9, AppendProperties
        <3>2. \A r \in Nat : r >= Len(history') + 2 => g[r] = {}
            BY <1>9, <2>1, SeenFacts
        <3> HIDE DEF g
        <3> QED
            BY <1>7, <3>1, <3>2
    <2>10. Nowhere(v, victims, moving, failed)
        BY <2>1 DEF Right, Placed
    <2>11. v \notin tried'
        BY <1>1, <1>2, <2>10, TriedMoving DEF Nowhere
    <2>12. /\ j.start = i.start /\ j.minRev = rev + 1 /\ ~j.compacted
           /\ v \in G => j.group = "synced" /\ sent'[v] = Append(s, <<rev, keys(v)>>)
           /\ v \notin G => j.group = "victim" /\ sent'[v] = s /\ j.batch = one
        BY <1>10, <1>14, <2>1, <2>3
    <2>13. Placed(v)'
        <3>1. CASE v \in G
            <4>1. In(v, victims') = {}
                <5>1. v \notin touched \ G /\ In(v, victims) = {}
                    BY <2>10, <3>1 DEF Nowhere
                <5> QED
                    BY <1>1, <1>3, <1>4, <2>1, <5>1, VictimsAdded
            <4> QED
                BY <1>2, <2>10, <2>12, <3>1, <4>1 DEF Placed, Nowhere
        <3>2. CASE v \notin G
            <4>1. \E n : In(v, victims') = {n}
                BY <1>1, <1>3, <1>4, <1>14, <2>1, <2>10, <3>2, VictimsAdded DEF Nowhere
            <4> QED
                BY <1>2, <2>10, <2>12, <3>2, <4>1 DEF Placed, Nowhere, Once
        <3> QED
            BY <3>1, <3>2
    <2>14. Marked(watcher[v], sent[v], currentRev + 1, compactRev)'
        BY <2>12 DEF Marked
    <2>15. Delivered(j, sent'[v], Waits(v)', g, rev + 1)
        <3>1. rev + 1 \in Nat /\ rev <= rev + 1 /\ j.minRev <= rev + 1 /\ j.start <= j.minRev
            BY <1>7, <2>2, <2>7, <2>12
        <3>2. j.group = "synced" => \A r \in Nat : r >= j.minRev => g[r] = {}
            BY <2>9, <2>12
        <3>3. CASE v \in G
            <4>1. Append(s, <<rev, keys(v)>>) = s \o one
                BY <1>1, <1>8, <2>1, AppendIsConcat
            <4>2. ~Waits(v)'
                BY <2>12, <3>3 DEF Waits
            <4> HIDE DEF i, j, f, g, s, one
            <4>3. Tells(s \o one, g, i.start, rev + 1)
                BY <1>7, <2>2, <2>7, <2>8, <3>1, TellsConcat
            <4>4. Tells(sent'[v], g, j.start, j.minRev)
                BY <2>12, <3>3, <4>1, <4>3
            <4> QED
                BY <3>1, <3>2, <4>2, <4>4 DEF Delivered
        <3>4. CASE v \notin G
            <4>1. Waits(v)'
                BY <2>11, <2>12, <3>4 DEF Waits
            <4> HIDE DEF i, j, f, g, s, one
            <4>2. rev \in j.start..j.minRev
                BY <1>7, <2>2, <2>7, <2>12
            <4>3. Tells(sent'[v], g, j.start, rev) /\ Tells(j.batch, g, rev, j.minRev)
                BY <2>7, <2>8, <2>12, <3>4
            <4> QED
                BY <3>1, <3>2, <4>1, <4>2, <4>3 DEF Delivered
        <3> QED
            BY <3>3, <3>4
    <2>16. Delivered(watcher[v], sent[v], Waits(v), Seen(history, v), currentRev + 1)'
        BY <1>9, <2>15 DEF Delivered, Seen, Changed
    <2> QED
        BY <2>13, <2>14, <2>16 DEF Right
<1> QED
    BY <1>10, <1>11, <1>12, <1>13, <1>14 DEF WatchInv

\* Compact moves the revision alone, the backend follows later.
LEMMA CompactStep ==
    ASSUME WatchInv, NEW rev \in 1..currentRev, Compact(rev)
    PROVE  WatchInv'
<1> USE DEF Compact
<1>1. TypeInv /\ StoreInv /\ LoopInv
    BY DEF WatchInv
<1>2. /\ compactRev \in Int /\ compactRev' \in Int /\ compactRev < compactRev'
      /\ compactRev' <= currentRev /\ -1 <= compactRev' /\ currentRev' = currentRev
    <2>1. currentRev \in Nat /\ compactRev \in Int
        BY <1>1, CurrentFacts
    <2>2. currentRev' = currentRev
        BY DEF currentRev
    <2> QED
        BY <2>1, <2>2
<1>3. TypeInv'
    BY <1>1, <1>2 DEF TypeInv, loop
<1>4. StoreInv'
    <2>1. \A r \in Nat : Changed(history', r) = Changed(history, r)
        BY DEF Changed
    <2>2. \A r \in Nat, k \in Key : <<r, k>> \in stored' => k \in Changed(history', r)
        BY <1>1, <2>1 DEF StoreInv
    <2>3. ASSUME NEW r \in Nat, NEW k \in Changed(history', r), <<r, k>> \notin stored'
          PROVE  r < compactRev' \/ (r = compactRev' /\ history'[r - 1][k] = "delete")
        <3>1. r < compactRev \/ r = compactRev
            BY <1>1, <2>1, <2>3 DEF StoreInv
        <3> QED
            BY <1>2, <3>1
    <2> QED
        BY <2>2, <2>3 DEF StoreInv
<1>5. LoopInv'
    BY <1>1, LoopStays DEF loop
<1>6. \A v \in Watcher : Shape(watcher[v])'
    BY DEF Shape, WatchInv
<1>7. ASSUME NEW v \in Watcher \ excused'
      PROVE  Right(v)'
    <2>1. Right(v) /\ v \in Watcher
        BY <1>7 DEF WatchInv
    <2>2. Placed(v)'
        BY <2>1, PlacedStays DEF loop, Right
    <2>3. /\ SameStore /\ watcher'[v] = watcher[v] /\ sent'[v] = sent[v]
          /\ v \in tried' <=> v \in tried
        BY <1>2 DEF SameStore, loop
    <2> QED
        BY <1>1, <2>1, <2>2, <2>3, RightStays
<1> QED
    BY <1>3, <1>4, <1>5, <1>6, <1>7 DEF WatchInv

\* The backend drops what the compaction may drop: of a key, what a later revision
\* replaced, and tombstones.
LEMMA ScheduleStep ==
    ASSUME WatchInv, scheduleCompaction
    PROVE  WatchInv'
<1> USE DEF scheduleCompaction
<1>1. TypeInv /\ StoreInv /\ LoopInv /\ compactRev \in Int
    BY DEF WatchInv, TypeInv
<1>2. /\ stored' = Kept(stored, compactRev) /\ stored' \subseteq stored
      /\ history' = history /\ compactRev' = compactRev /\ currentRev' = currentRev
    BY DEF Kept, currentRev
<1>3. TypeInv'
    BY <1>1, <1>2 DEF TypeInv, loop
<1>4. StoreInv'
    <2>1. \A r \in Nat : Changed(history', r) = Changed(history, r)
        BY <1>2 DEF Changed
    <2>2. \A r \in Nat, k \in Key : <<r, k>> \in stored' => k \in Changed(history', r)
        BY <1>1, <1>2, <2>1 DEF StoreInv
    <2>3. ASSUME NEW r \in Nat, NEW k \in Changed(history, r), <<r, k>> \notin stored'
          PROVE  r < compactRev \/ (r = compactRev /\ history[r - 1][k] = "delete")
        <3>1. CASE <<r, k>> \notin stored
            BY <1>1, <2>3, <3>1 DEF StoreInv
        <3>2. CASE <<r, k>> \in stored
            <4> DEFINE e == <<r, k>>
            <4>1. ~(r > compactRev \/ (/\ \A f \in stored : f[2] = k /\ f[1] <= compactRev => f[1] <= r
                                       /\ history[r - 1][k] = "put"))
                <5>1. ~(e[1] > compactRev
                        \/ (/\ \A f \in stored : f[2] = e[2] /\ f[1] <= compactRev => f[1] <= e[1]
                            /\ history[e[1] - 1][e[2]] = "put"))
                    BY <1>2, <2>3, <3>2 DEF Kept
                <5> QED
                    BY <5>1
            <4>2. r < compactRev \/ r = compactRev
                BY <1>1, <4>1
            <4>3. CASE history[r - 1][k] # "put"
                <5>1. history[r - 1][k] = "delete"
                    <6>1. r - 1 \in 1..Len(history) /\ k \in DOMAIN history[r - 1]
                        BY <2>3 DEF Changed
                    <6>2. history[r - 1] \in Txns
                        BY <1>1, <6>1 DEF TypeInv
                    <6> QED
                        BY <4>3, <6>1, <6>2, WatchAssumption
                <5> QED
                    BY <4>2, <5>1
            <4>4. CASE \E f \in stored : f[1] <= compactRev /\ ~(f[1] <= r)
                <5>1. PICK f \in stored : f[1] <= compactRev /\ ~(f[1] <= r)
                    BY <4>4
                <5>2. f[1] \in Int
                    BY <1>1, WatchAssumption DEF TypeInv
                <5> QED
                    BY <1>1, <5>1, <5>2
            <4> QED
                BY <4>1, <4>3, <4>4
        <3> QED
            BY <3>1, <3>2
    <2> QED
        BY <1>2, <2>1, <2>2, <2>3 DEF StoreInv
<1>5. LoopInv'
    BY <1>1, LoopStays DEF loop
<1>6. \A v \in Watcher : Shape(watcher[v])'
    BY DEF Shape, WatchInv
<1>7. ASSUME NEW v \in Watcher \ excused'
      PROVE  Right(v)'
    <2>1. Right(v) /\ v \in Watcher
        BY <1>7 DEF WatchInv
    <2>2. Placed(v)'
        BY <2>1, PlacedStays DEF loop, Right
    <2>3. /\ SameStore /\ watcher'[v] = watcher[v] /\ sent'[v] = sent[v]
          /\ v \in tried' <=> v \in tried
        BY <1>1, <1>2 DEF SameStore, loop
    <2> QED
        BY <1>1, <2>1, <2>2, <2>3, RightStays
<1> QED
    BY <1>3, <1>4, <1>5, <1>6, <1>7 DEF WatchInv

-----------------------------------------------------------------------------
(* moveVictims *)

\* moveVictims takes all batches, which leave the store's list.
LEMMA TakeStep ==
    ASSUME WatchInv, TakeVictims
    PROVE  WatchInv'
<1> USE DEF TakeVictims
<1>1. TypeInv /\ StoreInv /\ LoopInv
    BY DEF WatchInv
<1>2. /\ tried = {} /\ moving = <<>> /\ moving' = victims /\ victims' = <<>>
      /\ failed = {} /\ failed' = {} /\ tried' = {}
    BY <1>1 DEF LoopInv
<1>3. TypeInv'
    BY <1>1 DEF TypeInv, store, currentRev
<1>4. StoreInv' /\ LoopInv'
    BY <1>1, <1>2, StoreStays DEF LoopInv
<1>5. \A v \in Watcher : Shape(watcher[v])'
    BY DEF Shape, WatchInv
<1>6. ASSUME NEW v \in Watcher \ excused'
      PROVE  Right(v)'
    <2>1. Right(v) /\ v \in Watcher
        BY <1>6 DEF WatchInv
    <2>2. In(v, moving') = In(v, victims) /\ In(v, victims') = {} /\ In(v, moving) = {}
        BY <1>2 DEF In
    <2>3. Placed(v)'
        BY <1>2, <2>1, <2>2 DEF Right, Placed, Once, Nowhere
    <2>4. /\ SameStore /\ watcher'[v] = watcher[v] /\ sent'[v] = sent[v]
          /\ v \in tried' <=> v \in tried
        BY <1>1, SameStoreHolds
    <2> QED
        BY <1>1, <2>1, <2>3, <2>4, RightStays
<1> QED
    BY <1>3, <1>4, <1>5, <1>6 DEF WatchInv

\* Those whose channel was still full are put back into the list.
LEMMA RequeueStep ==
    ASSUME WatchInv, RequeueVictims
    PROVE  WatchInv'
<1> USE DEF RequeueVictims
<1>1. TypeInv /\ StoreInv /\ LoopInv
    BY DEF WatchInv
<1>2. /\ victims \in Seq(SUBSET Watcher) /\ failed \in SUBSET Watcher
      /\ victims' = Append(victims, failed) /\ failed' = {} /\ moving = <<>> /\ moving' = <<>>
    BY <1>1 DEF TypeInv
<1>3. TypeInv'
    <2>1. victims' \in Seq(SUBSET Watcher)
        BY <1>2, AppendProperties
    <2> QED
        BY <1>1, <2>1 DEF TypeInv, store, currentRev
<1>4. StoreInv' /\ LoopInv'
    BY <1>1, StoreStays DEF LoopInv
<1>5. \A v \in Watcher : Shape(watcher[v])'
    BY DEF Shape, WatchInv
<1>6. ASSUME NEW v \in Watcher \ excused'
      PROVE  Right(v)'
    <2>1. Right(v) /\ v \in Watcher
        BY <1>6 DEF WatchInv
    <2>2. /\ In(v, victims') = In(v, victims) \cup (IF v \in failed THEN {Len(victims) + 1} ELSE {})
          /\ In(v, moving') = {} /\ In(v, moving) = {} /\ v \notin failed'
        BY <1>2, InAppend DEF In
    <2>3. Placed(v)'
        <3>1. CASE v \in failed
            <4>1. In(v, victims) = {} /\ watcher[v].group = "victim"
                BY <2>1, <3>1 DEF Right, Placed, Once, Nowhere
            <4>2. In(v, victims') = {Len(victims) + 1}
                BY <2>2, <3>1, <4>1
            <4> QED
                BY <2>2, <4>1, <4>2 DEF Placed, Once
        <3>2. CASE v \notin failed
            <4>1. In(v, victims') = In(v, victims)
                BY <2>2, <3>2
            <4> QED
                BY <2>1, <2>2, <3>2, <4>1, PlacedStays DEF Right
        <3> QED
            BY <3>1, <3>2
    <2>4. /\ SameStore /\ watcher'[v] = watcher[v] /\ sent'[v] = sent[v]
          /\ v \in tried' <=> v \in tried
        BY <1>1, SameStoreHolds
    <2> QED
        BY <1>1, <2>1, <2>3, <2>4, RightStays
<1> QED
    BY <1>3, <1>4, <1>5, <1>6 DEF WatchInv

\* A victim is sent its batch, which takes it to minRev, or has to wait again.
LEMMA SendStep ==
    ASSUME WatchInv, NEW w \in Watcher, SendVictim(w)
    PROVE  WatchInv'
<1> DEFINE Sends == /\ channel < ChanBufLen /\ channel' = channel + 1
                    /\ sent' = [sent EXCEPT ![w] = @ \o watcher[w].batch]
                    /\ tried' = tried \cup {w} /\ failed' = failed
           Fails == /\ failed' = failed \cup {w} /\ channel' = channel
                    /\ sent' = sent /\ tried' = tried
<1>1. TypeInv /\ StoreInv /\ LoopInv
    BY DEF WatchInv
<1>2. /\ moving # <<>> /\ w \in moving[1] /\ w \notin tried /\ w \notin failed
      /\ store' = store /\ watcher' = watcher /\ victims' = victims /\ moving' = moving
      /\ excused' = excused /\ (Sends \/ Fails)
    BY <1>1 DEF SendVictim, TypeInv
<1> HIDE DEF Sends, Fails
<1>3. 1 \in In(w, moving)
    BY <1>1, <1>2 DEF In, TypeInv
<1>4. TypeInv'
    <2>1. sent' \in [Watcher -> Seq(Event)]
        <3>1. watcher[w].batch \in Seq(Event) /\ sent[w] \in Seq(Event)
            BY <1>1 DEF TypeInv, Info
        <3>2. sent[w] \o watcher[w].batch \in Seq(Event)
            BY <3>1
        <3> QED
            BY <1>1, <1>2, <3>2 DEF TypeInv, Sends, Fails
    <2>2. channel' \in 0..ChanBufLen
        BY <1>1, <1>2, WatchAssumption DEF TypeInv, Sends, Fails
    <2>3. tried' \in SUBSET Watcher /\ failed' \in SUBSET Watcher
        BY <1>1, <1>2 DEF TypeInv, Sends, Fails
    <2> QED
        BY <1>1, <1>2, <2>1, <2>2, <2>3 DEF TypeInv, store, currentRev
<1>5. StoreInv' /\ LoopInv'
    BY <1>1, <1>2, StoreStays DEF LoopInv, Sends, Fails
<1>6. \A v \in Watcher : Shape(watcher[v])'
    BY <1>2 DEF Shape, WatchInv
<1>7. ASSUME NEW v \in Watcher \ excused', v # w
      PROVE  Right(v)'
    <2>1. Right(v) /\ v \in Watcher
        BY <1>2, <1>7 DEF WatchInv
    <2>2. (v \in tried' <=> v \in tried) /\ (v \in failed' <=> v \in failed) /\ sent'[v] = sent[v]
        BY <1>1, <1>2, <1>7 DEF Sends, Fails, TypeInv
    <2>3. SameStore
        BY <1>1, <1>2, SameStoreHolds
    <2>4. Placed(v)'
        BY <1>2, <2>1, <2>2, PlacedStays DEF Right
    <2> QED
        BY <1>1, <1>2, <2>1, <2>2, <2>3, <2>4, RightStays
<1>8. ASSUME w \notin excused'
      PROVE  Right(w)'
    <2> DEFINE i == watcher[w]
               f == Seen(history, w)
               next == currentRev + 1
    <2>1. Right(w)
        BY <1>2, <1>8 DEF WatchInv
    <2>2. i.group = "victim" /\ Waits(w) /\ In(w, victims) = {}
        BY <1>2, <1>3, <2>1 DEF Right, Placed, Nowhere, Once, Waits
    <2>3. (~i.compacted) /\ IsActive(i)
        BY <2>1, <2>2 DEF Right, Marked, IsActive
    <2>4. Delivered(i, sent[w], Waits(w), f, next)
        BY <2>1, <2>3 DEF Right
    <2>5. Placed(w)'
        BY <1>2, <2>1, <2>2 DEF Sends, Fails, Right, Placed, Once, Nowhere
    <2>6. Seen(history, w)' = f /\ currentRev' + 1 = next /\ compactRev' = compactRev
        BY <1>2 DEF store, Seen, Changed, currentRev
    <2>7. Marked(watcher[w], sent[w], currentRev + 1, compactRev)'
        BY <1>2, <2>2, <2>3 DEF Marked
    <2>8. Delivered(i, sent'[w], Waits(w)', f, next)
        <3>1. CASE Fails
            <4>1. sent'[w] = sent[w] /\ Waits(w)'
                BY <1>2, <2>2, <3>1 DEF Waits, Fails
            <4> QED
                BY <2>2, <2>4, <4>1 DEF Delivered
        <3>2. CASE Sends
            <4>1. /\ sent'[w] = sent[w] \o i.batch /\ ~Waits(w)'
                BY <1>1, <1>2, <3>2 DEF TypeInv, Waits, Sends
            <4>2. i.start \in Nat /\ i.minRev \in Nat
                BY <1>1, WatchAssumption DEF TypeInv, Info
            <4> HIDE DEF i, f, next
            <4>3. PICK b \in i.start..i.minRev : /\ Tells(sent[w], f, i.start, b)
                                                 /\ Tells(i.batch, f, b, i.minRev)
                BY <2>2, <2>4 DEF Delivered
            <4>4. b \in Nat /\ i.start <= b /\ b <= i.minRev
                BY <4>2, <4>3
            <4>5. Tells(sent[w] \o i.batch, f, i.start, i.minRev)
                BY <4>2, <4>3, <4>4, TellsConcat
            <4> QED
                BY <2>4, <4>1, <4>5 DEF Delivered
        <3> QED
            BY <1>2, <3>1, <3>2
    <2>9. Delivered(watcher[w], sent[w], Waits(w), Seen(history, w), currentRev + 1)'
        BY <1>2, <2>6, <2>8
    <2> QED
        BY <2>5, <2>7, <2>9 DEF Right
<1> QED
    BY <1>4, <1>5, <1>6, <1>7, <1>8 DEF WatchInv

\* A victim that got its batch looks for the revisions it has not seen, or is synced.
LEMMA AssignStep ==
    ASSUME WatchInv, AssignVictims
    PROVE  WatchInv'
<1> DEFINE min(v) == IF watcher[v].moreRev # 0 THEN watcher[v].moreRev ELSE watcher[v].minRev
           group(v) == IF min(v) <= currentRev THEN "unsynced" ELSE "synced"
<1>1. /\ TypeInv /\ StoreInv /\ LoopInv /\ watcher \in [Watcher -> Info]
      /\ moving \in Seq(SUBSET Watcher)
    BY DEF WatchInv, TypeInv
<1>2. /\ moving # <<>> /\ moving[1] \subseteq tried \cup failed
      /\ moving' = Tail(moving) /\ tried' = {}
      /\ store' = store /\ victims' = victims /\ failed' = failed /\ channel' = channel
      /\ sent' = sent /\ excused' = excused
    <2>1. moving # <<>> /\ Head(moving) \subseteq tried \cup failed
        BY DEF AssignVictims
    <2>2. Head(moving) = moving[1]
        BY <1>1, <2>1, HeadTailProperties
    <2> QED
        BY <2>1, <2>2 DEF AssignVictims
<1>3. watcher' = [v \in Watcher |-> IF v \notin tried THEN watcher[v]
            ELSE [watcher[v] EXCEPT !.victim = FALSE, !.batch = <<>>, !.moreRev = 0,
                                    !.minRev = min(v), !.group = group(v)]]
    BY DEF AssignVictims
<1>4. \A v \in Watcher : min(v) = watcher[v].minRev
    BY DEF WatchInv, Shape
<1>5. ASSUME NEW v \in tried
      PROVE  LET i == watcher[v]
                 j == watcher'[v]
             IN  /\ j.start = i.start /\ j.minRev = i.minRev /\ j.compacted = i.compacted
                 /\ j.group = IF i.minRev <= currentRev THEN "unsynced" ELSE "synced"
                 /\ j \in Info /\ Shape(j)
    <2> DEFINE i == watcher[v]
               j == watcher'[v]
    <2>1. v \in Watcher /\ i \in Info
        BY <1>1 DEF TypeInv
    <2>2. j = [i EXCEPT !.victim = FALSE, !.batch = <<>>, !.moreRev = 0,
                        !.minRev = i.minRev, !.group = group(v)]
        BY <1>3, <1>4, <2>1
    <2>3. group(v) = IF i.minRev <= currentRev THEN "unsynced" ELSE "synced"
        BY <1>4, <2>1
    <2>4. <<>> \in Seq(Event) /\ 0 \in Nat /\ group(v) \in {"unsynced", "synced"}
          /\ i.minRev \in 0..MaxRev + 2
        BY <2>1 DEF Info
    <2> HIDE DEF i, j, group
    <2>5. /\ j.start = i.start /\ j.minRev = i.minRev /\ j.compacted = i.compacted
          /\ j.victim = FALSE /\ j.moreRev = 0 /\ j.group = group(v)
        BY <2>1, <2>2 DEF Info
    <2>6. j \in Info
        BY <2>1, <2>2, <2>4 DEF Info, GroupName
    <2>7. Shape(j)
        BY <2>4, <2>5 DEF Shape
    <2> QED
        BY <2>3, <2>5, <2>6, <2>7 DEF i, j
<1>6. \A v \in Watcher : v \notin tried => watcher'[v] = watcher[v]
    BY <1>3
<1>7. TypeInv'
    <2>1. watcher' \in [Watcher -> Info]
        <3>1. \A v \in Watcher : watcher'[v] \in Info
            BY <1>1, <1>5, <1>6
        <3> QED
            BY <1>3, <3>1
    <2>2. moving' \in Seq(SUBSET Watcher)
        BY <1>1, <1>2, HeadTailProperties
    <2> QED
        BY <1>1, <1>2, <2>1, <2>2 DEF TypeInv, store, currentRev
<1>8. StoreInv' /\ LoopInv'
    <2>1. StoreInv'
        BY <1>1, <1>2, StoreStays
    <2>2. LoopInv'
        BY <1>2 DEF LoopInv
    <2> QED
        BY <2>1, <2>2
<1>9. ASSUME NEW v \in Watcher
      PROVE  Shape(watcher[v])'
    <2>1. Shape(watcher[v])
        BY DEF WatchInv
    <2> QED
        BY <1>5, <1>6, <2>1 DEF Shape
<1>10. ASSUME NEW v \in Watcher \ excused', v \notin tried
       PROVE  Right(v)'
    <2>1. Right(v) /\ v \in Watcher /\ watcher'[v] = watcher[v] /\ v \notin tried'
        BY <1>2, <1>6, <1>10 DEF WatchInv
    <2>2. v \in moving[1] => v \in failed
        BY <1>2, <1>10
    <2>3. Placed(v)'
        <3>1. /\ In(v, moving) = {} => In(v, moving') = {}
              /\ \A n : In(v, moving) = {n} => IF v \in moving[1] THEN In(v, moving') = {}
                                               ELSE In(v, moving') = {n - 1}
            BY <1>1, <1>2, InTail
        <3>2. CASE watcher[v].group # "victim"
            <4>1. Nowhere(v, victims', moving', failed')
                BY <1>2, <2>1, <3>1, <3>2 DEF Right, Placed, Nowhere
            <4> QED
                BY <2>1, <3>2, <4>1 DEF Placed
        <3>3. CASE watcher[v].group = "victim"
            <4>1. Once(v, victims, moving, failed)
                BY <2>1, <3>3 DEF Right, Placed
            <4>2. CASE v \in failed
                <5>1. Once(v, victims', moving', failed')
                    BY <1>2, <4>1, <4>2 DEF Once
                <5> QED
                    BY <2>1, <3>3, <5>1 DEF Placed
            <4>3. CASE v \notin failed /\ In(v, moving) = {}
                <5>1. Once(v, victims', moving', failed')
                    BY <1>2, <3>1, <4>1, <4>3 DEF Once
                <5> QED
                    BY <2>1, <3>3, <5>1 DEF Placed
            <4>4. CASE v \notin failed /\ In(v, moving) # {}
                <5>1. In(v, victims) = {} /\ \E n : In(v, moving) = {n}
                    BY <4>1, <4>4 DEF Once
                <5>2. PICK n : In(v, moving) = {n}
                    BY <5>1
                <5>3. In(v, moving') = {n - 1}
                    BY <2>2, <3>1, <4>4, <5>2
                <5>4. Once(v, victims', moving', failed')
                    BY <1>2, <4>4, <5>1, <5>3 DEF Once
                <5> QED
                    BY <2>1, <3>3, <5>4 DEF Placed
            <4> QED
                BY <4>2, <4>3, <4>4
        <3> QED
            BY <3>2, <3>3
    <2>4. SameStore /\ sent'[v] = sent[v]
        BY <1>1, <1>2, SameStoreHolds
    <2> QED
        BY <1>1, <1>10, <2>1, <2>3, <2>4, RightStays
<1>11. ASSUME NEW v \in Watcher \ excused', v \in tried
       PROVE  Right(v)'
    <2> DEFINE i == watcher[v]
               j == watcher'[v]
               f == Seen(history, v)
               next == currentRev + 1
    <2>1. Right(v) /\ v \in Watcher
        BY <1>2, <1>11 DEF WatchInv
    <2>2. moving # <<>> /\ v \in moving[1] /\ In(v, moving) # {} /\ v \notin failed
        BY <1>1, <1>11, TriedMoving
    <2>3. i.group = "victim" /\ ~Waits(v)
        BY <1>11, <2>1, <2>2 DEF Right, Placed, Nowhere, Waits
    <2>4. Once(v, victims, moving, failed)
        BY <2>1, <2>3 DEF Right, Placed
    <2>5. In(v, victims) = {} /\ \E n : In(v, moving) = {n}
        BY <2>2, <2>4 DEF Once
    <2>6. In(v, moving') = {}
        BY <1>1, <1>2, <2>2, <2>5, InTail
    <2>7. (~i.compacted) /\ IsActive(i)
        BY <2>1, <2>3 DEF Right, Marked, IsActive
    <2>8. Delivered(i, sent[v], Waits(v), f, next)
        BY <2>1, <2>7 DEF Right
    <2>9. /\ j.start = i.start /\ j.minRev = i.minRev /\ j.compacted = i.compacted
          /\ j.group = IF i.minRev <= currentRev THEN "unsynced" ELSE "synced"
        BY <1>5, <1>11
    <2>10. i.start \in Nat /\ i.minRev \in Nat /\ currentRev \in Nat
        <3>1. i \in Info
            BY <1>1, <2>1
        <3>2. currentRev \in Nat
            BY <1>1, CurrentFacts
        <3> HIDE DEF i
        <3> QED
            BY <3>1, <3>2, WatchAssumption DEF Info
    <2>11. Placed(v)'
        BY <1>2, <2>2, <2>5, <2>6, <2>9 DEF Placed, Nowhere
    <2>12. Seen(history, v)' = f /\ currentRev' = currentRev /\ compactRev' = compactRev
        BY <1>2 DEF store, Seen, Changed, currentRev
    <2>13. j.group = "unsynced" => ~(j.minRev >= next)
        BY <2>9, <2>10
    <2>14. Marked(watcher[v], sent[v], currentRev + 1, compactRev)'
        BY <2>7, <2>9, <2>12, <2>13 DEF Marked
    <2>15. j.group = "synced" => \A r \in Nat : r >= j.minRev => f[r] = {}
        <3>1. \A r \in Nat : r >= Len(history) + 2 => f[r] = {}
            BY <1>1, <2>1, SeenFacts DEF TypeInv
        <3>2. next = Len(history) + 2
            BY <1>1, CurrentFacts
        <3> HIDE DEF f
        <3> QED
            BY <2>9, <2>10, <3>1, <3>2
    <2>16. ~Waits(v)'
        BY <2>9 DEF Waits
    <2>17. Delivered(j, sent'[v], Waits(v)', f, next)
        <3> HIDE DEF i, j, f, next
        <3> QED
            BY <1>2, <2>3, <2>8, <2>9, <2>15, <2>16 DEF Delivered
    <2>18. Delivered(watcher[v], sent[v], Waits(v), Seen(history, v), currentRev + 1)'
        BY <2>12, <2>17
    <2> QED
        BY <2>11, <2>14, <2>18 DEF Right
<1> QED
    BY <1>7, <1>8, <1>9, <1>10, <1>11 DEF WatchInv

-----------------------------------------------------------------------------
(* syncWatchers *)

\* What is read for a watcher that the compaction has not passed is all that is left of
\* its history, whichever watchers are read for with it.
LEMMA PendingTells ==
    ASSUME TypeInv, StoreInv, NEW S \in SUBSET Watcher, NEW w \in S, w \notin Late(S),
           watcher[w].minRev <= currentRev + 1, ~AtTombstone(w)
    PROVE  Tells(Pending(S, w), Seen(history, w), watcher[w].minRev, currentRev + 1)
<1> DEFINE m == watcher[w].minRev
           others == S \ Late(S)
           M == {watcher[v].minRev : v \in others}
           from == Min(M)
           revs == {r \in from..currentRev : r >= m}
           f == Seen(history, w)
<1>1. /\ history \in Seq(Txns) /\ Len(history) \in Nat /\ currentRev = Len(history) + 1
      /\ currentRev \in Nat /\ compactRev \in Int /\ compactRev <= currentRev
    BY CurrentFacts
<1>2. \A v \in Watcher : watcher[v].minRev \in Nat
    BY WatchAssumption DEF TypeInv, Info
<1>3. m \in Nat /\ ~(m < compactRev) /\ w \in Watcher
    BY <1>2 DEF Late
<1>4. from \in Nat /\ from <= m /\ others # {}
    <2>1. M \in SUBSET Nat /\ m \in M /\ M # {} /\ others # {}
        BY <1>2
    <2> HIDE DEF M, m
    <2> QED
        BY <2>1, LeastFacts
<1>5. Pending(S, w) = Events(stored, revs, KeysOf[w])
    BY <1>4 DEF Pending
<1> HIDE DEF from, others, M
<1>6. \A r \in Nat : f[r] # {} => r \in 1..currentRev
    <2>1. \A r \in Nat : f[r] # {} => r \in 2..(Len(history) + 1)
        BY <1>1, <1>3, SeenFacts
    <2> HIDE DEF f
    <2> QED
        BY <1>1, <2>1
<1>7. KeysOf[w] \in SUBSET Key
    BY <1>3, WatchAssumption
<1>8. ASSUME NEW r \in Nat, m <= r
      PROVE  KeysAt(stored, KeysOf[w], r) = f[r]
    <2>1. f[r] = Changed(history, r) \cap KeysOf[w]
        BY <1>1, <1>3, SeenFacts
    <2>2. ASSUME NEW k \in KeysOf[w], <<r, k>> \in stored
          PROVE  k \in Changed(history, r)
        BY <1>7, <2>2 DEF StoreInv
    <2>3. ASSUME NEW k \in KeysOf[w], k \in Changed(history, r), <<r, k>> \notin stored
          PROVE  FALSE
        <3>1. r < compactRev \/ (r = compactRev /\ history[r - 1][k] = "delete")
            BY <2>3 DEF StoreInv
        <3>2. r = compactRev /\ m = compactRev /\ history[r - 1][k] = "delete"
            BY <1>1, <1>3, <1>8, <3>1
        <3>3. r - 1 \in DOMAIN history /\ k \in DOMAIN history[r - 1]
            BY <1>1, <2>3 DEF Changed
        <3> QED
            BY <2>3, <3>2, <3>3 DEF AtTombstone
    <2> QED
        BY <2>1, <2>2, <2>3 DEF KeysAt
<1> DEFINE b == currentRev + 1
<1>9. ASSUME NEW r \in Nat
      PROVE  /\ r \in revs /\ r \in 1..currentRev /\ KeysAt(stored, KeysOf[w], r) # {} <=>
                    m <= r /\ r < b /\ f[r] # {}
             /\ m <= r /\ r < b /\ f[r] # {} => KeysAt(stored, KeysOf[w], r) = f[r]
    <2>1. r \in revs <=> m <= r /\ r <= currentRev
        BY <1>1, <1>3, <1>4
    <2> HIDE DEF revs, m, f
    <2>2. r <= currentRev <=> r < b
        BY <1>1
    <2>3. f[r] # {} => r \in 1..currentRev
        BY <1>6
    <2> HIDE DEF b
    <2> QED
        BY <1>8, <2>1, <2>2, <2>3
<1>10. b \in Nat /\ Len(history) \in Nat
    BY <1>1
<1> HIDE DEF revs, m, f, b
<1>11. Tells(Events(stored, revs, KeysOf[w]), f, m, b)
    BY <1>3, <1>7, <1>9, <1>10, EventsTell
<1> QED
    BY <1>5, <1>11 DEF m, f, b

\* What becomes of a watcher whose events were read.
LEMMA SyncedFacts ==
    ASSUME TypeInv, NEW w \in Watcher, watcher[w].group = "unsynced", Shape(watcher[w]),
           NEW evs, Batch(evs) \in Seq(Event), moreRev(evs) \in Nat,
           moreRev(evs) # 0 => evs # <<>>, Reached(evs, currentRev + 1) \in 0..MaxRev + 2,
           NEW G, w \in G => evs # <<>>, NEW j,
           j = Synced(w, evs, G) \/ j = [Synced(w, evs, G) EXCEPT !.restore = FALSE]
    PROVE  LET i == watcher[w]
               next == Reached(evs, currentRev + 1)
           IN  /\ j \in Info /\ Shape(j)
               /\ j.start = i.start /\ j.minRev = next /\ j.compacted = i.compacted
               /\ j.group = IF evs # <<>> /\ w \notin G THEN "victim"
                            ELSE IF moreRev(evs) = 0 THEN "synced" ELSE "unsynced"
               /\ evs # <<>> /\ w \notin G => j.batch = Batch(evs)
<1> DEFINE i == watcher[w]
           next == Reached(evs, currentRev + 1)
           k == Synced(w, evs, G)
           B == Batch(evs)
           more == moreRev(evs)
<1>1. i \in Info /\ i.group = "unsynced" /\ i.victim = FALSE /\ i.moreRev = 0
    BY DEF TypeInv, Shape, Info
<1>2. k = IF evs = <<>> \/ (w \in G /\ more = 0)
          THEN [i EXCEPT !.group = "synced", !.minRev = next]
          ELSE IF w \in G THEN [i EXCEPT !.minRev = next]
          ELSE [i EXCEPT !.group = "victim", !.victim = TRUE, !.batch = B,
                         !.moreRev = more, !.minRev = next]
    BY DEF Synced, Reached
<1>3. /\ B \in Seq(Event) /\ more \in Nat /\ (more # 0 => evs # <<>> /\ more = next)
      /\ next \in 0..MaxRev + 2
    BY DEF Reached
<1>4. j = k \/ j = [k EXCEPT !.restore = FALSE]
    OBVIOUS
<1> HIDE DEF i, next, k, B, more
<1>5. ASSUME NEW x, x \in Info, x.start = i.start, x.minRev = next, x.compacted = i.compacted,
             NEW y, y = x \/ y = [x EXCEPT !.restore = FALSE]
      PROVE  /\ y \in Info /\ y.start = i.start /\ y.minRev = next /\ y.compacted = i.compacted
             /\ y.group = x.group /\ y.batch = x.batch /\ y.moreRev = x.moreRev
             /\ y.victim = x.victim
    BY <1>5 DEF Info
<1>6. CASE evs = <<>> \/ (w \in G /\ more = 0)
    <2>1. k = [i EXCEPT !.group = "synced", !.minRev = next]
        BY <1>2, <1>6
    <2>2. /\ k \in Info /\ k.start = i.start /\ k.minRev = next /\ k.compacted = i.compacted
          /\ k.group = "synced" /\ k.moreRev = 0 /\ k.victim = FALSE
        BY <1>1, <1>3, <2>1 DEF Info, GroupName
    <2>3. /\ j \in Info /\ j.start = i.start /\ j.minRev = next /\ j.compacted = i.compacted
          /\ j.group = "synced" /\ j.moreRev = 0 /\ j.victim = FALSE
        BY <1>4, <1>5, <2>2
    <2>4. more = 0 /\ ~(evs # <<>> /\ w \notin G)
        BY <1>3, <1>6
    <2> QED
        BY <2>3, <2>4 DEF Shape, i, next, more
<1>7. CASE evs # <<>> /\ w \in G /\ more # 0
    <2>1. k = [i EXCEPT !.minRev = next]
        BY <1>2, <1>7
    <2>2. /\ k \in Info /\ k.start = i.start /\ k.minRev = next /\ k.compacted = i.compacted
          /\ k.group = "unsynced" /\ k.moreRev = 0 /\ k.victim = FALSE
        BY <1>1, <1>3, <2>1 DEF Info
    <2>3. /\ j \in Info /\ j.start = i.start /\ j.minRev = next /\ j.compacted = i.compacted
          /\ j.group = "unsynced" /\ j.moreRev = 0 /\ j.victim = FALSE
        BY <1>4, <1>5, <2>2
    <2> QED
        BY <1>7, <2>3 DEF Shape, i, next, more
<1>8. CASE evs # <<>> /\ w \notin G
    <2>1. k = [i EXCEPT !.group = "victim", !.victim = TRUE, !.batch = B,
                        !.moreRev = more, !.minRev = next]
        BY <1>2, <1>8
    <2>2. /\ k.start = i.start /\ k.minRev = next /\ k.compacted = i.compacted
          /\ k.group = "victim" /\ k.moreRev = more /\ k.victim = TRUE /\ k.batch = B
        BY <1>1, <2>1 DEF Info
    <2>3. k \in Info
        BY <1>1, <1>3, <2>1 DEF Info, GroupName
    <2>4. /\ j \in Info /\ j.start = i.start /\ j.minRev = next /\ j.compacted = i.compacted
          /\ j.group = "victim" /\ j.moreRev = more /\ j.victim = TRUE /\ j.batch = B
        BY <1>4, <1>5, <2>2, <2>3
    <2>5. Shape(j)
        BY <1>3, <2>4 DEF Shape
    <2> QED
        BY <1>8, <2>4, <2>5 DEF i, next, B
<1> QED
    BY <1>6, <1>7, <1>8

\* A round of syncWatchers, once its choices are made: whom it tells that they are late,
\* the events it read, and whom it sends them to.
Round(S, told, evs, G) ==
    LET rest    == S \ told
        whole   == Cardinality(unsynced) < MaxWatchersPerSync
        Told(w) == [watcher[w] EXCEPT !.compacted = TRUE,
                                      !.group = IF whole THEN "compacted" ELSE @]
        Chose(w, i) == IF watcher[w].minRev > currentRev
                       THEN [i EXCEPT !.restore = FALSE] ELSE i
    IN  /\ channel' = Filled(Filled(channel, told), G)
        /\ sent' = [w \in Watcher |-> IF w \in G THEN sent[w] \o Batch(evs[w]) ELSE sent[w]]
        /\ watcher' = [w \in Watcher |->
                IF w \in told THEN Told(w)
                ELSE IF w \in rest THEN Chose(w, Synced(w, evs[w], G))
                ELSE watcher[w]]
        /\ addVictim({w \in rest : evs[w] # <<>>} \ G)
        /\ excused' = excused \cup (Late(S) \ told)
            \cup {w \in rest : watcher[w].minRev > currentRev + 1 \/ AtTombstone(w)}

ToServe(S, told, evs) == {w \in S \ told : evs[w] # <<>>}

\* syncWatchers makes such a round.
LEMMA RoundOf ==
    ASSUME NEW S, syncWatchers(S)
    PROVE  /\ S \in Chosen /\ store' = store /\ moving' = moving /\ tried' = tried
           /\ failed' = failed
           /\ \E told \in Served(Late(S), channel) : \E evs :
              \E G \in Served(ToServe(S, told, evs), Filled(channel, told)) :
                    evs = [w \in S \ told |-> Pending(S, w)] /\ Round(S, told, evs, G)
<1>1. PICK told \in Served(Late(S), channel) :
         \E evs \in {[w \in S \ told |-> Pending(S, w)]} :
            \E G \in Served(ToServe(S, told, evs), Filled(channel, told)) :
                Round(S, told, evs, G)
    BY DEF syncWatchers, Round, ToServe
<1>2. \E evs : \E G \in Served(ToServe(S, told, evs), Filled(channel, told)) :
            evs = [w \in S \ told |-> Pending(S, w)] /\ Round(S, told, evs, G)
    BY <1>1
<1> QED
    BY <1>1, <1>2 DEF syncWatchers

\* What the round makes of one watcher.
Outcome(S, told, G, v) ==
    LET i == watcher[v]
        j == watcher'[v]
        e == Pending(S, v)
        next == Reached(e, currentRev + 1)
    IN  /\ j \in Info /\ Shape(j) /\ (v \in S => i.group = "unsynced")
        /\ v \in G => v \in S \ told /\ e # <<>>
        /\ v \in told => v \in Late(S) /\ j.group \in {"unsynced", "compacted"}
                         /\ j.compacted /\ j.minRev = i.minRev
        /\ v \in S \ told =>
             /\ j.start = i.start /\ j.minRev = next /\ j.compacted = i.compacted
             /\ j.group = IF e # <<>> /\ v \notin G THEN "victim"
                          ELSE IF moreRev(e) = 0 THEN "synced" ELSE "unsynced"
             /\ e # <<>> /\ v \notin G => j.batch = Batch(e)
        /\ v \notin S => j = i
        /\ sent'[v] = (IF v \in G THEN sent[v] \o Batch(e) ELSE sent[v])
        /\ Batch(e) \in Seq(Event)

\* It makes that of every watcher.
LEMMA RoundFacts ==
    ASSUME WatchInv, NEW S \in SUBSET Watcher, S \in Chosen,
           NEW told \in Served(Late(S), channel), NEW evs,
           NEW G \in Served(ToServe(S, told, evs), Filled(channel, told)),
           evs = [w \in S \ told |-> Pending(S, w)], Round(S, told, evs, G),
           NEW v \in Watcher
    PROVE  Outcome(S, told, G, v)
<1> DEFINE i == watcher[v]
           j == watcher'[v]
           e == Pending(S, v)
<1>1. TypeInv /\ i \in Info /\ Shape(i)
    BY DEF WatchInv, TypeInv
<1>2. S \subseteq unsynced
    BY DEF Chosen
<1>3. v \in S => i.group = "unsynced"
    BY <1>2 DEF unsynced, Group
<1>4. told \subseteq Late(S) /\ Late(S) \subseteq S /\ G \subseteq ToServe(S, told, evs)
    BY DEF Served, Late
<1>5. v \in G => v \in S \ told /\ e # <<>>
    BY <1>4 DEF ToServe
<1>6. sent'[v] = (IF v \in G THEN sent[v] \o Batch(e) ELSE sent[v])
    BY <1>5 DEF Round
<1>7. /\ Batch(e) \in Seq(Event) /\ moreRev(e) \in Nat /\ (moreRev(e) # 0 => e # <<>>)
      /\ Reached(e, currentRev + 1) \in 0..MaxRev + 2
    <2>1. KeysOf[v] \in SUBSET Key
        BY WatchAssumption
    <2>2. CASE S \ Late(S) = {}
        <3>1. e = <<>>
            BY <2>2 DEF Pending
        <3>2. Len(e) <= WatchBatchMaxRevs /\ e \in Seq(Event)
            BY <3>1, WatchAssumption
        <3>3. currentRev \in Nat /\ currentRev <= MaxRev /\ MaxRev \in Nat
            BY <1>1, CurrentFacts
        <3> HIDE DEF e
        <3> QED
            BY <3>1, <3>2, <3>3 DEF Batch, moreRev, Reached
    <2>3. CASE ~(S \ Late(S) = {})
        <3> DEFINE revs == {r \in Min({watcher[w].minRev : w \in S \ Late(S)})..currentRev :
                                r >= watcher[v].minRev}
        <3>1. e = Events(stored, revs, KeysOf[v])
            BY <2>3 DEF Pending
        <3> HIDE DEF e, revs
        <3> QED
            BY <1>1, <2>1, <3>1, BatchTyped
    <2> QED
        BY <2>2, <2>3
<1>8. ASSUME v \in told
      PROVE  /\ j \in Info /\ Shape(j) /\ j.group \in {"unsynced", "compacted"}
             /\ j.compacted /\ j.minRev = i.minRev
    <2> DEFINE g == IF Cardinality(unsynced) < MaxWatchersPerSync THEN "compacted" ELSE i.group
    <2>1. j = [i EXCEPT !.compacted = TRUE, !.group = g]
        BY <1>8 DEF Round
    <2>2. g \in {"unsynced", "compacted"} /\ i.group = "unsynced"
        BY <1>3, <1>4, <1>8
    <2> HIDE DEF i, j, g
    <2>3. /\ j.group = g /\ j.compacted = TRUE /\ j.minRev = i.minRev /\ j.victim = i.victim
          /\ j.moreRev = i.moreRev
        BY <1>1, <2>1 DEF Info
    <2>4. j \in Info
        BY <1>1, <2>1, <2>2 DEF Info, GroupName
    <2>5. Shape(j)
        BY <1>1, <2>2, <2>3 DEF Shape
    <2> QED
        BY <2>2, <2>3, <2>4, <2>5
<1>9. ASSUME v \in S \ told
      PROVE  /\ j \in Info /\ Shape(j)
             /\ j.start = i.start /\ j.minRev = Reached(e, currentRev + 1)
             /\ j.compacted = i.compacted
             /\ j.group = IF e # <<>> /\ v \notin G THEN "victim"
                          ELSE IF moreRev(e) = 0 THEN "synced" ELSE "unsynced"
             /\ e # <<>> /\ v \notin G => j.batch = Batch(e)
    <2>1. j = Synced(v, e, G) \/ j = [Synced(v, e, G) EXCEPT !.restore = FALSE]
        BY <1>9 DEF Round
    <2> HIDE DEF j, e
    <2> QED
        BY <1>1, <1>3, <1>5, <1>7, <1>9, <2>1, SyncedFacts
<1>10. v \notin S => j = i
    BY <1>4 DEF Round
<1> HIDE DEF i, j, e
<1>11. j \in Info /\ Shape(j)
    BY <1>1, <1>8, <1>9, <1>10
<1>12. v \in told => v \in Late(S)
    BY <1>4
<1> QED
    BY <1>3, <1>5, <1>6, <1>7, <1>8, <1>9, <1>10, <1>11, <1>12 DEF Outcome, i, j, e

\* Watchers read what they wait for; late ones are told.
LEMMA SyncStep ==
    ASSUME WatchInv, NEW S \in SUBSET Watcher, syncWatchers(S)
    PROVE  WatchInv'
<1> DEFINE e(v) == Pending(S, v)
           next == currentRev + 1
<1>1. /\ TypeInv /\ StoreInv /\ LoopInv /\ watcher \in [Watcher -> Info]
      /\ sent \in [Watcher -> Seq(Event)]
    BY DEF WatchInv, TypeInv
<1>2. /\ S \in Chosen /\ store' = store /\ moving' = moving /\ tried' = tried
      /\ failed' = failed
    BY RoundOf
<1>3. PICK told \in Served(Late(S), channel) : \E evs :
          \E G \in Served(ToServe(S, told, evs), Filled(channel, told)) :
                evs = [w \in S \ told |-> Pending(S, w)] /\ Round(S, told, evs, G)
    BY RoundOf
<1>4. PICK evs : \E G \in Served(ToServe(S, told, evs), Filled(channel, told)) :
                evs = [w \in S \ told |-> Pending(S, w)] /\ Round(S, told, evs, G)
    BY <1>3
<1>5. PICK G \in Served(ToServe(S, told, evs), Filled(channel, told)) :
                evs = [w \in S \ told |-> Pending(S, w)] /\ Round(S, told, evs, G)
    BY <1>4
<1> DEFINE V == ToServe(S, told, evs) \ G
<1>6. /\ told \in SUBSET Watcher /\ G \in SUBSET Watcher /\ V \in SUBSET Watcher
      /\ \A v \in Watcher : v \in V <=> v \in S \ told /\ e(v) # <<>> /\ v \notin G
    BY <1>5 DEF Served, Late, ToServe
<1>7. /\ channel' = Filled(Filled(channel, told), G) /\ addVictim(V)
      /\ sent' = [w \in Watcher |-> IF w \in G THEN sent[w] \o Batch(evs[w]) ELSE sent[w]]
      /\ excused' = excused \cup (Late(S) \ told)
            \cup {w \in S \ told : watcher[w].minRev > currentRev + 1 \/ AtTombstone(w)}
      /\ DOMAIN watcher' = Watcher /\ watcher' = [w \in Watcher |-> watcher'[w]]
    BY <1>5 DEF Round, ToServe
<1>8. ASSUME NEW v \in Watcher
      PROVE  LET i == watcher[v]
                 j == watcher'[v]
                 to == Reached(e(v), next)
             IN  /\ j \in Info /\ Shape(j) /\ (v \in S => i.group = "unsynced")
                 /\ v \in G => v \in S \ told /\ e(v) # <<>>
                 /\ v \in told => v \in Late(S) /\ j.group \in {"unsynced", "compacted"}
                                  /\ j.compacted /\ j.minRev = i.minRev
                 /\ v \in S \ told =>
                      /\ j.start = i.start /\ j.minRev = to /\ j.compacted = i.compacted
                      /\ j.group = IF e(v) # <<>> /\ v \notin G THEN "victim"
                                   ELSE IF moreRev(e(v)) = 0 THEN "synced" ELSE "unsynced"
                      /\ e(v) # <<>> /\ v \notin G => j.batch = Batch(e(v))
                 /\ v \notin S => j = i
                 /\ sent'[v] = (IF v \in G THEN sent[v] \o Batch(e(v)) ELSE sent[v])
                 /\ Batch(e(v)) \in Seq(Event)
    <2>1. Outcome(S, told, G, v)
        BY <1>2, <1>5, RoundFacts
    <2> QED
        BY <2>1 DEF Outcome
<1> HIDE DEF e, V
<1>9. TypeInv'
    <2>1. watcher' \in [Watcher -> Info]
        BY <1>7, <1>8
    <2>2. sent' \in [Watcher -> Seq(Event)]
        <3>1. ASSUME NEW v \in Watcher
              PROVE  sent'[v] \in Seq(Event)
            <4>1. sent[v] \in Seq(Event) /\ Batch(e(v)) \in Seq(Event)
                BY <1>1, <1>8
            <4>2. sent[v] \o Batch(e(v)) \in Seq(Event)
                BY <4>1
            <4> QED
                BY <1>8, <4>1, <4>2
        <3>2. sent' = [v \in Watcher |-> sent'[v]]
            BY <1>7
        <3> QED
            BY <3>1, <3>2
    <2>3. victims' \in Seq(SUBSET Watcher)
        BY <1>1, <1>6, <1>7, VictimsAdded
    <2>4. channel' \in 0..ChanBufLen
        <3>1. Filled(channel, told) \in 0..ChanBufLen
            BY <1>1, <1>6, FilledTyped DEF TypeInv
        <3> QED
            BY <1>6, <1>7, <3>1, FilledTyped
    <2> QED
        BY <1>1, <1>2, <2>1, <2>2, <2>3, <2>4 DEF TypeInv, store, currentRev
<1>10. StoreInv' /\ LoopInv'
    BY <1>1, <1>2, StoreStays, LoopStays
<1>11. ASSUME NEW v \in Watcher
       PROVE  Shape(watcher[v])'
    <2>1. Shape(watcher'[v])
        BY <1>8
    <2> QED
        BY <2>1 DEF Shape
<1>12. ASSUME NEW v \in Watcher \ excused'
       PROVE  v \in Watcher /\ v \notin excused /\ Right(v)
    BY <1>7, <1>12 DEF WatchInv
\* Nobody's concern: it was not chosen.
<1>13. ASSUME NEW v \in Watcher \ excused', v \notin S
       PROVE  Right(v)'
    <2>1. v \in Watcher /\ Right(v) /\ watcher'[v] = watcher[v] /\ sent'[v] = sent[v]
        BY <1>8, <1>12, <1>13
    <2>2. In(v, victims') = In(v, victims)
        BY <1>1, <1>6, <1>7, <1>13, <2>1, VictimsAdded
    <2>3. Placed(v)' /\ SameStore
        BY <1>1, <1>2, <2>1, <2>2, PlacedStays, SameStoreHolds DEF Right
    <2> QED
        BY <1>1, <1>2, <2>1, <2>3, RightStays
\* It was in no batch, and is in the new one if it could not be sent its events.
<1>14. ASSUME NEW v \in Watcher \ excused', v \in S
       PROVE  /\ Nowhere(v, victims, moving, failed) /\ v \notin tried
              /\ IF v \in V THEN Once(v, victims', moving', failed')
                 ELSE Nowhere(v, victims', moving', failed')
    <2>1. v \in Watcher /\ Right(v) /\ watcher[v].group = "unsynced"
        BY <1>8, <1>12, <1>14
    <2>2. Nowhere(v, victims, moving, failed)
        BY <2>1 DEF Right, Placed
    <2>3. v \notin tried
        BY <1>1, <2>2, TriedMoving DEF Nowhere
    <2>4. IF v \in V THEN \E n : In(v, victims') = {n} ELSE In(v, victims') = {}
        BY <1>1, <1>6, <1>7, <2>1, <2>2, VictimsAdded DEF Nowhere
    <2> QED
        BY <1>2, <2>2, <2>3, <2>4 DEF Nowhere, Once
\* It was told that it is late.
<1>15. ASSUME NEW v \in Watcher \ excused', v \in told
       PROVE  Right(v)'
    <2> DEFINE j == watcher'[v]
    <2>1. /\ v \in Late(S) /\ j.group \in {"unsynced", "compacted"} /\ j.compacted
          /\ j.minRev = watcher[v].minRev
        BY <1>8, <1>15
    <2>2. v \in S /\ j.minRev < compactRev /\ v \notin V /\ j.minRev \in Nat
        BY <1>1, <1>6, <1>15, <2>1, WatchAssumption DEF Late, Info
    <2>3. Placed(v)'
        BY <1>14, <2>1, <2>2 DEF Placed
    <2>4. /\ currentRev' = currentRev /\ compactRev' = compactRev /\ compactRev \in Int
          /\ currentRev \in Nat /\ compactRev <= currentRev
        BY <1>1, <1>2, CurrentFacts DEF store, currentRev
    <2>5. ~(j.minRev >= currentRev + 1)
        BY <2>2, <2>4
    <2>6. Marked(watcher[v], sent[v], currentRev + 1, compactRev)'
        BY <2>1, <2>2, <2>4, <2>5 DEF Marked
    <2>7. ~IsActive(watcher[v])'
        BY <2>1 DEF IsActive
    <2> QED
        BY <2>3, <2>6, <2>7 DEF Right
\* It got what it was waiting for, or is a victim.
<1>16. ASSUME NEW v \in Watcher \ excused', v \in S \ told
       PROVE  Right(v)'
    <2> DEFINE i == watcher[v]
               j == watcher'[v]
               f == Seen(history, v)
               m == i.minRev
               to == Reached(e(v), next)
               s == sent[v]
    <2>1. v \in Watcher /\ Right(v) /\ i.group = "unsynced" /\ v \in S
        BY <1>8, <1>12, <1>16
    <2>2. v \notin Late(S) /\ ~(m > currentRev + 1) /\ ~AtTombstone(v)
        BY <1>7, <1>16
    <2>3. /\ i.start \in Nat /\ m \in Nat /\ currentRev \in Nat /\ next \in Nat
          /\ m <= next /\ history \in Seq(Txns) /\ next = Len(history) + 2
          /\ compactRev \in Int /\ ~(m < compactRev)
        <3>1. i \in Info
            BY <1>1, <2>1
        <3>2. i.start \in Nat /\ m \in Nat
            BY <3>1, WatchAssumption DEF Info
        <3>3. ~(m < compactRev)
            BY <2>1, <2>2 DEF Late
        <3>4. /\ history \in Seq(Txns) /\ Len(history) \in Nat /\ currentRev = Len(history) + 1
              /\ compactRev \in Int
            BY <1>1, CurrentFacts
        <3> HIDE DEF i, m
        <3> QED
            BY <2>2, <3>2, <3>3, <3>4
    <2>4. ~i.compacted /\ IsActive(i)
        BY <2>1, <2>3 DEF Right, Marked, IsActive
    <2>5. Delivered(i, s, FALSE, f, next)
        BY <2>1, <2>4 DEF Right, Waits, Delivered
    <2>6. i.start <= m /\ Tells(s, f, i.start, m)
        BY <2>5 DEF Delivered
    <2>7. Tells(e(v), f, m, next)
        BY <1>1, <2>1, <2>2, <2>3, PendingTells DEF e
    <2>8. f[0] = {} /\ \A r \in Nat : r >= next => f[r] = {}
        BY <2>1, <2>3, SeenFacts
    <2>9. /\ Tells(Batch(e(v)), f, m, to) /\ to \in Nat /\ m <= to /\ to <= next
          /\ moreRev(e(v)) \in Nat
          /\ moreRev(e(v)) # 0 => moreRev(e(v)) < next /\ moreRev(e(v)) = to
          /\ moreRev(e(v)) = 0 => to = next
        <3> HIDE DEF f, m, next
        <3> QED
            BY <2>3, <2>7, <2>8, BatchTells
    <2>10. /\ j.start = i.start /\ j.minRev = to /\ ~j.compacted
           /\ j.group = IF v \in V THEN "victim"
                        ELSE IF moreRev(e(v)) = 0 THEN "synced" ELSE "unsynced"
           /\ v \in V => j.batch = Batch(e(v)) /\ sent'[v] = s
           /\ v \in G => sent'[v] = s \o Batch(e(v))
           /\ v \notin V /\ v \notin G => e(v) = <<>> /\ sent'[v] = s
        BY <1>6, <1>8, <1>16, <2>1, <2>4
    <2>11. /\ Seen(history, v)' = f /\ currentRev' + 1 = next /\ compactRev' = compactRev
           /\ tried' = tried
        BY <1>2 DEF store, Seen, Changed, currentRev
    <2>12. Placed(v)'
        BY <1>14, <2>1, <2>10 DEF Placed
    <2>13. j.group = "unsynced" => ~(j.minRev >= next)
        <3> HIDE DEF j, to, next
        <3> QED
            BY <2>3, <2>9, <2>10
    <2>14. Marked(watcher[v], sent[v], currentRev + 1, compactRev)'
        <3> HIDE DEF next
        <3>1. j.group # "none"
            BY <2>10
        <3> QED
            BY <2>10, <2>11, <2>13, <3>1 DEF Marked
    <2>15. j.group = "synced" => \A r \in Nat : r >= j.minRev => f[r] = {}
        <3>1. j.group = "synced" => j.minRev = next
            BY <2>9, <2>10
        <3> QED
            BY <2>8, <3>1
    <2>16. Delivered(j, sent'[v], Waits(v)', f, next)
        <3>1. j.start <= j.minRev /\ j.minRev <= next
            <4> HIDE DEF i, j, to, m, next
            <4> QED
                BY <2>3, <2>6, <2>9, <2>10
        <3>2. CASE v \in V
            <4>1. Waits(v)'
                BY <1>14, <2>1, <2>10, <2>11, <3>2 DEF Waits
            <4> HIDE DEF i, j, f, s, m, to, next
            <4>2. m \in j.start..j.minRev
                BY <2>3, <2>6, <2>9, <2>10
            <4>3. Tells(sent'[v], f, j.start, m) /\ Tells(j.batch, f, m, j.minRev)
                BY <2>6, <2>9, <2>10, <3>2
            <4> QED
                BY <2>15, <3>1, <4>1, <4>2, <4>3 DEF Delivered
        <3>3. CASE v \notin V
            <4>1. ~Waits(v)'
                BY <2>10, <3>3 DEF Waits
            <4>2. s \in Seq(Event)
                BY <1>1, <2>1
            <4> HIDE DEF i, j, f, s, m, to, next
            <4>3. CASE v \in G
                <5>1. Tells(s \o Batch(e(v)), f, i.start, to)
                    BY <2>3, <2>6, <2>9, TellsConcat
                <5>2. Tells(sent'[v], f, j.start, j.minRev)
                    BY <2>10, <4>3, <5>1
                <5> QED
                    BY <2>15, <3>1, <4>1, <5>2 DEF Delivered
            <4>4. CASE v \notin G
                <5>1. e(v) = <<>> /\ sent'[v] = s
                    BY <2>10, <3>3, <4>4
                <5>2. Batch(e(v)) = <<>>
                    BY <5>1, WatchAssumption DEF Batch
                <5>3. Tells(s \o <<>>, f, i.start, to)
                    BY <2>3, <2>6, <2>9, <5>2, TellsConcat
                <5>4. s \o <<>> = s
                    BY <4>2
                <5>5. Tells(sent'[v], f, j.start, j.minRev)
                    BY <2>10, <5>1, <5>3, <5>4
                <5> QED
                    BY <2>15, <3>1, <4>1, <5>5 DEF Delivered
            <4> QED
                BY <4>3, <4>4
        <3> QED
            BY <3>2, <3>3
    <2>17. Delivered(watcher[v], sent[v], Waits(v), Seen(history, v), currentRev + 1)'
        <3> HIDE DEF next
        <3> QED
            BY <2>11, <2>16
    <2> QED
        BY <2>12, <2>14, <2>17 DEF Right
<1>17. \A v \in Watcher \ excused' : Right(v)'
    BY <1>13, <1>15, <1>16
<1> QED
    BY <1>9, <1>10, <1>11, <1>17 DEF WatchInv


-----------------------------------------------------------------------------
(* Theorems *)

\* Every step of the store, its clients and its loops keeps the invariant.
LEMMA NextWatches ==
    ASSUME WatchInv, [Next]_vars
    PROVE  WatchInv'
<1>1. ASSUME NEW w \in Watcher, cancelWatcher(w)
      PROVE  WatchInv'
    BY <1>1, CancelStep
<1>2. ASSUME NEW w \in Watcher, NEW r \in 2..currentRev + 2, watch(w, r)
      PROVE  WatchInv'
    BY <1>2, WatchStep
<1>3. CASE Receive \/ RequestProgressAll \/ UNCHANGED vars
    BY <1>3, ChannelStep
<1>4. ASSUME NEW t \in Txns, Write(t)
      PROVE  WatchInv'
    BY <1>4, WriteStep
<1>5. ASSUME NEW t \in Txns, NEW r \in {compactRev, currentRev}, Restore(t, r)
      PROVE  WatchInv'
    BY <1>5, RestoreStep
<1>6. ASSUME NEW r \in 1..currentRev, Compact(r)
      PROVE  WatchInv'
    BY <1>6, CompactStep
<1>7. CASE scheduleCompaction
    BY <1>7, ScheduleStep
<1>8. ASSUME NEW S \in SUBSET Watcher, syncWatchers(S)
      PROVE  WatchInv'
    BY <1>8, SyncStep
<1>9. CASE TakeVictims
    BY <1>9, TakeStep
<1>10. ASSUME NEW w \in Watcher, SendVictim(w)
       PROVE  WatchInv'
    BY <1>10, SendStep
<1>11. CASE AssignVictims
    BY <1>11, AssignStep
<1>12. CASE RequeueVictims
    BY <1>12, RequeueStep
<1> QED
    BY <1>1, <1>2, <1>3, <1>4, <1>5, <1>6, <1>7, <1>8, <1>9, <1>10, <1>11, <1>12
       DEF Next, moveVictims

\* The invariant holds in every state the watchable store reaches.
LEMMA WatchInvHolds == Spec => []WatchInv
<1>1. Init => WatchInv
    BY InitRight
<1>2. WatchInv /\ [Next]_vars => WatchInv'
    BY NextWatches
<1> QED
    BY <1>1, <1>2, PTL DEF Spec

\* Watchers, batches and the channel have their types: no batch holds an event beyond the
\* revisions, and the channel never holds more responses than it has room for.
THEOREM TypeCorrect == Spec => []TypeOK
<1>1. WatchInv => TypeOK
    <2> SUFFICES ASSUME TypeInv PROVE TypeOK
        BY DEF WatchInv
    <2>1. history \in Seq(Txns) /\ currentRev <= MaxRev /\ stored \subseteq (1..MaxRev) \X Key
        BY DEF TypeInv
    <2>2. compactRev \in -1..MaxRev
        <3>1. /\ currentRev \in Nat /\ currentRev <= MaxRev /\ MaxRev \in Nat
              /\ compactRev \in Int /\ compactRev <= currentRev
            BY CurrentFacts
        <3>2. -1 <= compactRev
            BY DEF TypeInv
        <3> QED
            BY <3>1, <3>2
    <2>3. ASSUME NEW w \in Watcher
          PROVE  /\ watcher[w].group \in
                        {"none", "synced", "unsynced", "victim", "compacted", "cancelled"}
                 /\ watcher[w].minRev \in 0..MaxRev + 2 /\ watcher[w].batch \in Seq(Event)
                 /\ sent[w] \in Seq(Event)
        <3>1. watcher[w] \in Info /\ sent[w] \in Seq(Event)
            BY DEF TypeInv
        <3> QED
            BY <3>1 DEF Info, GroupName
    <2>4. /\ \A i \in DOMAIN victims : victims[i] \subseteq Watcher
          /\ \A i \in DOMAIN moving : moving[i] \subseteq Watcher
        BY DEF TypeInv
    <2> QED
        BY <2>1, <2>2, <2>3, <2>4 DEF TypeOK, TypeInv
<1> QED
    BY <1>1, WatchInvHolds, PTL

\* A watcher in no group is in exactly one batch of victims, and nobody else is in one; a
\* watcher ahead of the store was put back by a restore: no panic of watchable_store.go is
\* reached.
THEOREM NeverPanics == Spec => []NoPanic
<1>1. ASSUME WatchInv, NEW w \in Watcher \ excused
      PROVE  LET i == watcher[w]
                 batches == {<<"v", n>> : n \in {n \in DOMAIN victims : w \in victims[n]}}
                     \cup {<<"m", n>> : n \in {n \in DOMAIN moving : w \in moving[n] \ failed}}
                     \cup {<<"f", n>> : n \in {n \in {0} : w \in failed}}
             IN  /\ i.group = "unsynced" /\ i.minRev > currentRev => i.restore
                 /\ i.victim <=> i.group = "victim"
                 /\ Cardinality(batches) = IF i.group = "victim" THEN 1 ELSE 0
    <2> DEFINE v == {<<"v", n>> : n \in {n \in DOMAIN victims : w \in victims[n]}}
               m == {<<"m", n>> : n \in {n \in DOMAIN moving : w \in moving[n] \ failed}}
               f == {<<"f", n>> : n \in {n \in {0} : w \in failed}}
               batches == v \cup m \cup f
    <2>1. Right(w) /\ Shape(watcher[w]) /\ TypeInv /\ w \in Watcher
        BY <1>1 DEF WatchInv
    <2>2. watcher[w].group = "unsynced" /\ watcher[w].minRev > currentRev => watcher[w].restore
        <3>1. watcher[w] \in Info
            BY <2>1 DEF TypeInv
        <3>2. watcher[w].minRev \in Nat /\ currentRev \in Nat
            BY <2>1, <3>1, CurrentFacts, WatchAssumption DEF Info
        <3>3. watcher[w].minRev > currentRev => watcher[w].minRev >= currentRev + 1
            BY <3>2
        <3> QED
            BY <2>1, <3>3 DEF Right, Marked
    <2>3. watcher[w].victim <=> watcher[w].group = "victim"
        BY <2>1 DEF Shape
    <2>4. /\ v = {<<"v", n>> : n \in In(w, victims)}
          /\ w \notin failed => m = {<<"m", n>> : n \in In(w, moving)} /\ f = {}
          /\ w \in failed => m = {} /\ f = {<<"f", 0>>}
        BY DEF In
    <2>5. CASE watcher[w].group = "victim"
        <3>1. Once(w, victims, moving, failed)
            BY <2>1, <2>5 DEF Right, Placed
        <3> HIDE DEF v, m, f
        <3>2. \E p : batches = {p}
            <4>1. CASE w \in failed
                <5>1. v = {}
                    BY <2>4, <3>1, <4>1 DEF Once
                <5>2. batches = {<<"f", 0>>}
                    BY <2>4, <4>1, <5>1
                <5> QED
                    BY <5>2
            <4>2. CASE w \notin failed /\ In(w, moving) = {}
                <5>1. PICK n : In(w, victims) = {n}
                    BY <3>1, <4>2 DEF Once
                <5>2. batches = {<<"v", n>>}
                    BY <2>4, <4>2, <5>1
                <5> QED
                    BY <5>2
            <4>3. CASE w \notin failed /\ In(w, moving) # {}
                <5>1. PICK n : In(w, moving) = {n}
                    BY <3>1, <4>3 DEF Once
                <5>2. In(w, victims) = {}
                    BY <3>1, <4>3 DEF Once
                <5>3. batches = {<<"m", n>>}
                    BY <2>4, <4>3, <5>1, <5>2
                <5> QED
                    BY <5>3
            <4> QED
                BY <4>1, <4>2, <4>3
        <3> HIDE DEF batches
        <3>3. PICK p : batches = {p}
            BY <3>2
        <3>4. Cardinality(batches) = 1
            BY <3>3, FS_Singleton
        <3> QED
            BY <2>2, <2>3, <2>5, <3>4 DEF batches, v, m, f
    <2>6. CASE watcher[w].group # "victim"
        <3>1. Nowhere(w, victims, moving, failed)
            BY <2>1, <2>6 DEF Right, Placed
        <3> HIDE DEF v, m, f
        <3>2. batches = {}
            BY <2>4, <3>1 DEF Nowhere
        <3> HIDE DEF batches
        <3>3. Cardinality(batches) = 0
            BY <3>2, FS_EmptySet
        <3> QED
            BY <2>2, <2>3, <2>6, <3>3 DEF batches, v, m, f
    <2> QED
        BY <2>5, <2>6
<1>2. WatchInv => NoPanic
    BY <1>1 DEF NoPanic
<1> QED
    BY <1>2, WatchInvHolds, PTL

\* What a watcher is to see is the history of its keys from its first revision on.
LEMMA DueTells ==
    ASSUME TypeInv, NEW w \in Watcher, NEW d \in Nat, d >= currentRev + 1
    PROVE  Tells(Due(w), Seen(history, w), watcher[w].start, d)
<1> DEFINE S == UNION {Changes(history[i], i + 1) : i \in DOMAIN history}
           a == watcher[w].start
           revs == a..currentRev
           f == Seen(history, w)
<1>1. /\ history \in Seq(Txns) /\ Len(history) \in Nat /\ currentRev = Len(history) + 1
      /\ currentRev \in Nat
    BY CurrentFacts
<1>2. a \in Nat
    BY DEF TypeInv, Info
<1>3. KeysOf[w] \in SUBSET Key
    BY WatchAssumption
<1>4. \A r \in Nat, k \in Key : <<r, k>> \in S <=> k \in Changed(history, r)
    <2>1. ASSUME NEW r \in Nat, NEW k \in Key, <<r, k>> \in S
          PROVE  k \in Changed(history, r)
        <3>1. PICK i \in DOMAIN history : <<r, k>> \in Changes(history[i], i + 1)
            BY <2>1
        <3>2. i \in 1..Len(history) /\ r = i + 1 /\ k \in DOMAIN history[i]
            BY <1>1, <3>1 DEF Changes
        <3>3. r - 1 = i
            BY <3>2
        <3> QED
            BY <3>2, <3>3 DEF Changed
    <2>2. ASSUME NEW r \in Nat, NEW k \in Key, k \in Changed(history, r)
          PROVE  <<r, k>> \in S
        <3>1. r - 1 \in 1..Len(history) /\ k \in DOMAIN history[r - 1] /\ (r - 1) + 1 = r
            BY <1>1, <2>2 DEF Changed
        <3>2. r - 1 \in DOMAIN history /\ <<r, k>> \in Changes(history[r - 1], (r - 1) + 1)
            BY <1>1, <3>1 DEF Changes
        <3> QED
            BY <3>2
    <2> QED
        BY <2>1, <2>2
<1>5. Due(w) = Events(S, revs, KeysOf[w])
    BY DEF Due
<1> HIDE DEF S, a
<1>6. \A r \in Nat : KeysAt(S, KeysOf[w], r) = f[r]
    <2>1. \A r \in Nat : f[r] = Changed(history, r) \cap KeysOf[w]
        BY <1>1, SeenFacts
    <2> HIDE DEF f
    <2> QED
        BY <1>3, <1>4, <2>1 DEF KeysAt
<1>7. \A r \in Nat : f[r] # {} => r \in 2..(Len(history) + 1)
    BY <1>1, SeenFacts
<1> HIDE DEF f
<1>8. ASSUME NEW r \in Nat
      PROVE  /\ r \in revs /\ r \in 1..currentRev /\ KeysAt(S, KeysOf[w], r) # {} <=>
                    a <= r /\ r < d /\ f[r] # {}
             /\ a <= r /\ r < d /\ f[r] # {} => KeysAt(S, KeysOf[w], r) = f[r]
    <2>1. KeysAt(S, KeysOf[w], r) = f[r]
        BY <1>6
    <2>2. f[r] # {} => r \in 1..currentRev /\ r < d
        BY <1>1, <1>7
    <2>3. r \in revs <=> a <= r /\ r <= currentRev
        BY <1>1, <1>2
    <2> HIDE DEF revs
    <2> QED
        BY <1>1, <2>1, <2>2, <2>3
<1> HIDE DEF revs
<1>9. Tells(Events(S, revs, KeysOf[w]), f, a, d)
    BY <1>1, <1>2, <1>3, <1>8, EventsTell
<1> QED
    BY <1>5, <1>9 DEF a, f

\* What tells less, element by element, is a prefix as a sequence.
LEMMA TellsIsPrefix ==
    ASSUME NEW s, NEW t, NEW f, NEW a \in Nat, NEW b \in Nat, NEW c \in Nat, b <= c,
           Tells(s, f, a, b), Tells(t, f, a, c)
    PROVE  IsPrefix(s, t) /\ (b = c => s = t)
<1>1. s \in EventList /\ t \in EventList
    BY DEF Tells
<1>2. Len(s) <= Len(t) /\ \A i \in 1..Len(s) : s[i] = t[i]
    BY TellsPrefix
<1> DEFINE n == Len(s)
           X == Nat \X SUBSET Key
           p == SubSeq(s, 1, n)
           q == SubSeq(t, 1, n)
<1>3. /\ n \in Nat /\ Len(t) \in Nat /\ \A i \in 1..n : s[i] \in X
      /\ \A i \in 1..Len(t) : t[i] \in X
    BY <1>1 DEF EventList
<1>4. \A i \in 1..n : t[i] \in X
    BY <1>2, <1>3
<1> HIDE DEF X, n
<1>5. /\ p \in Seq(X) /\ Len(p) = n /\ q \in Seq(X) /\ Len(q) = n
      /\ \A i \in 1..n : p[i] = s[i] /\ q[i] = t[i]
    <2>1. n \in Int /\ 1 \in Int /\ (IF 1 <= n THEN n - 1 + 1 ELSE 0) = n /\ n - 1 + 1 = n
        BY <1>3
    <2>2. /\ p \in Seq(X) /\ Len(p) = (IF 1 <= n THEN n - 1 + 1 ELSE 0)
          /\ \A i \in 1..(n - 1 + 1) : p[i] = s[1 + i - 1]
        BY <1>3, <2>1, SubSeqProperties
    <2>3. /\ q \in Seq(X) /\ Len(q) = (IF 1 <= n THEN n - 1 + 1 ELSE 0)
          /\ \A i \in 1..(n - 1 + 1) : q[i] = t[1 + i - 1]
        BY <1>4, <2>1, SubSeqProperties
    <2>4. \A i \in 1..n : 1 + i - 1 = i
        BY <1>3
    <2> HIDE DEF p, q
    <2> QED
        BY <2>1, <2>2, <2>3, <2>4
<1>6. \A i \in 1..n : p[i] = q[i]
    BY <1>2, <1>5 DEF n
<1> HIDE DEF p, q
<1>7. p = q
    BY <1>5, <1>6, SeqEqual
<1>8. IsPrefix(s, t)
    BY <1>2, <1>7 DEF IsPrefix, n, p, q
<1>9. ASSUME b = c
      PROVE  s = t
    <2>1. c <= b
        BY <1>9
    <2>2. Len(t) <= Len(s)
        BY <2>1, TellsPrefix
    <2>3. Len(s) = Len(t)
        BY <1>2, <1>3, <2>2 DEF n
    <2> QED
        BY <1>1, <1>2, <2>3, SeqEqual DEF EventList
<1> QED
    BY <1>8, <1>9

\* A watcher gets the events of its keys from its first revision on, each once, in order
\* and without a gap, whether they come from a write, from the backend or again as those
\* of a victim, and whatever compactions, restores and cancels do in between.
THEOREM EventsComeInOrder == Spec => []EventsInOrder
<1>1. ASSUME WatchInv, NEW w \in Watcher \ excused, Active(w)
      PROVE  IsPrefix(sent[w], Due(w))
    <2> DEFINE i == watcher[w]
               f == Seen(history, w)
               next == currentRev + 1
               d == IF i.minRev <= next THEN next ELSE i.minRev
    <2>1. Right(w) /\ TypeInv /\ w \in Watcher
        BY <1>1 DEF WatchInv
    <2>2. Delivered(i, sent[w], Waits(w), f, next)
        BY <1>1, <2>1 DEF Right, Active, IsActive
    <2>3. i.start \in Nat /\ i.minRev \in Nat /\ next \in Nat
        <3>1. i \in Info
            BY <2>1 DEF TypeInv
        <3>2. next \in Nat
            BY <2>1, CurrentFacts
        <3> HIDE DEF i, next
        <3> QED
            BY <3>1, <3>2, WatchAssumption DEF Info
    <2>4. d \in Nat /\ d >= next /\ i.minRev <= d
        BY <2>3
    <2>5. Tells(Due(w), f, i.start, d)
        BY <2>1, <2>4, DueTells
    <2> HIDE DEF i, f, d, next
    <2>6. \E b \in Nat : b <= d /\ Tells(sent[w], f, i.start, b)
        <3>1. CASE Waits(w)
            <4>1. PICK b \in i.start..i.minRev : Tells(sent[w], f, i.start, b)
                BY <2>2, <3>1 DEF Delivered
            <4>2. b \in Nat /\ b <= d
                BY <2>3, <2>4
            <4> QED
                BY <4>1, <4>2
        <3>2. CASE ~Waits(w)
            BY <2>2, <2>3, <2>4, <3>2 DEF Delivered
        <3> QED
            BY <3>1, <3>2
    <2>7. PICK b \in Nat : b <= d /\ Tells(sent[w], f, i.start, b)
        BY <2>6
    <2> QED
        BY <2>3, <2>4, <2>5, <2>7, TellsIsPrefix
<1>2. WatchInv => EventsInOrder
    BY <1>1 DEF EventsInOrder
<1> QED
    BY <1>2, WatchInvHolds, PTL

\* A synced watcher has got everything that happened to its keys, so the next write may be
\* sent right after, and an empty response may promise that nothing is missing.
THEOREM SyncedIsComplete == Spec => []SyncedHasAll
<1>1. ASSUME WatchInv, NEW w \in synced \ excused, Active(w)
      PROVE  sent[w] = Due(w)
    <2> DEFINE i == watcher[w]
               f == Seen(history, w)
               next == currentRev + 1
               d == IF i.minRev <= next THEN next ELSE i.minRev
    <2>1. Right(w) /\ TypeInv /\ w \in Watcher /\ i.group = "synced"
        BY <1>1 DEF WatchInv, synced, Group
    <2>2. Delivered(i, sent[w], FALSE, f, next)
        BY <1>1, <2>1 DEF Right, Active, IsActive, Waits, Delivered
    <2>3. i.start \in Nat /\ i.minRev \in Nat /\ next \in Nat
        <3>1. i \in Info
            BY <2>1 DEF TypeInv
        <3>2. next \in Nat
            BY <2>1, CurrentFacts
        <3> HIDE DEF i, next
        <3> QED
            BY <3>1, <3>2, WatchAssumption DEF Info
    <2>4. d \in Nat /\ d >= next /\ i.minRev <= d
        BY <2>3
    <2>5. Tells(Due(w), f, i.start, d)
        BY <2>1, <2>4, DueTells
    <2> HIDE DEF i, f, d, next
    <2>6. /\ Tells(sent[w], f, i.start, i.minRev)
          /\ \A r \in Nat : r >= i.minRev => f[r] = {}
        BY <2>1, <2>2 DEF Delivered
    <2>7. /\ \A r \in Nat : i.start <= r /\ r < i.minRev => f[r] = f[r] /\ (f[r] # {} => r < d)
          /\ \A r \in Nat : i.start <= r /\ r < d /\ ~(r < i.minRev) => f[r] = {}
        BY <2>3, <2>4, <2>6
    <2>8. Tells(sent[w], f, i.start, d)
        BY <2>3, <2>4, <2>6, <2>7, TellsSame
    <2>9. d <= d
        BY <2>4
    <2> QED
        BY <2>3, <2>4, <2>5, <2>8, <2>9, TellsIsPrefix
<1>2. WatchInv => SyncedHasAll
    BY <1>1 DEF SyncedHasAll
<1> QED
    BY <1>2, WatchInvHolds, PTL

=============================================================================
