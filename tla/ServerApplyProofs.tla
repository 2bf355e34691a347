-------------------------- MODULE ServerApplyProofs --------------------------
(***************************************************************************)
(* Proofs about ServerApply, for any keys, leases, alarms and bounds: the  *)
(* types, that keys, leases and the lessor's maps agree, and that a crash  *)
(* does not show once the log is applied again.                            *)
(*                                                                         *)
(* A server is good if it has its type and the lessor's maps say what the  *)
(* keys of its database say (Agree), which needs every lease of a key to   *)
(* be there (Sound).  Each request takes a good server to a good one, and  *)
(* a restart makes a good one of any sound database; so the invariant asks *)
(* of the disk only that it is sound.                                      *)
(*                                                                         *)
(* For crashes, a history H says what data each entry left.  A server that *)
(* applies entries again has the data of a later one, H[p], and the leases *)
(* that it granted once more and will revoke once more (Lag).              *)
(***************************************************************************)
EXTENDS ServerApply, TLAPS

USE ApplyAssumption DEF Restricted

\* The databases and servers that n entries can leave.
DatabaseOf(n) == [kv : [Key -> Lease \cup {NoLease, Absent}], rev : Nat,
                  leases : SUBSET Lease, alarms : SUBSET Alarm, consistentIndex : 0..n]

ServerOf(n) ==
    [db : DatabaseOf(n), applied : 0..n, consistIndex : 0..n,
     leaseMap : UNION {[S -> SUBSET Key] : S \in SUBSET Lease},
     itemMap : [Key -> Lease \cup {NoLease}], applier : SUBSET Alarm]

Sound(db) == \A k \in Key : db.kv[k] \in Lease => db.kv[k] \in db.leases

Agree(m) ==
    /\ DOMAIN m.leaseMap = m.db.leases
    /\ \A k \in Key :
        /\ \A l \in m.db.leases : k \in m.leaseMap[l] <=> m.db.kv[k] = l
        /\ m.itemMap[k] = IF m.db.kv[k] = Absent THEN NoLease ELSE m.db.kv[k]

Good(m, n) == m \in ServerOf(n) /\ Sound(m.db) /\ Agree(m)

IInv ==
    /\ log \in Seq(Request)
    /\ disk \in DatabaseOf(Len(log)) /\ Sound(disk)
    /\ snapshot \in 0..Len(log) /\ crashes \in 0..MaxCrash
    /\ Good(member, Len(log)) /\ Good(twin, Len(log))

-----------------------------------------------------------------------------
(* What a request does to a good server *)

\* A longer log changes nothing for a server.
LEMMA GoodLater ==
    ASSUME NEW n \in Nat, NEW m, Good(m, n)
    PROVE  Good(m, n + 1)
BY DEF Good, ServerOf, DatabaseOf

\* Detach takes the key from that lease, and Attach gives it to it.
LEMMA DetachEffect ==
    ASSUME NEW n \in Nat, NEW m \in ServerOf(n), DOMAIN m.leaseMap = m.db.leases,
           NEW k \in Key, NEW l \in m.db.leases \cup {NoLease}
    PROVE  LET d == Detach(m, l, k)
           IN  /\ d \in ServerOf(n) /\ d.db = m.db /\ DOMAIN d.leaseMap = m.db.leases
               /\ \A x \in m.db.leases, j \in Key :
                    j \in d.leaseMap[x] <=> j \in m.leaseMap[x] /\ (j # k \/ x # l)
               /\ \A j \in Key :
                    d.itemMap[j] = IF j = k /\ l # NoLease THEN NoLease ELSE m.itemMap[j]
<1> DEFINE f == [m.leaseMap EXCEPT ![l] = @ \ {k}]
           g == [m.itemMap EXCEPT ![k] = NoLease]
<1>1. /\ m.db.leases \in SUBSET Lease /\ m.leaseMap \in [m.db.leases -> SUBSET Key]
      /\ m.itemMap \in [Key -> Lease \cup {NoLease}]
    BY DEF ServerOf, DatabaseOf
<1>2. CASE l = NoLease
    <2>1. Detach(m, l, k) = m
        BY <1>1, <1>2 DEF Detach, Has
    <2> QED
        BY <1>1, <1>2, <2>1
<1>3. CASE l # NoLease
    <2>1. Detach(m, l, k) = [m EXCEPT !.leaseMap = f, !.itemMap = g]
        BY <1>3 DEF Detach, Has
    <2>2. f \in [m.db.leases -> SUBSET Key] /\ g \in [Key -> Lease \cup {NoLease}]
        BY <1>1
    <2> HIDE DEF f, g
    <2>3. LET d == Detach(m, l, k)
          IN  d \in ServerOf(n) /\ d.db = m.db /\ d.leaseMap = f /\ d.itemMap = g
        <3>1. f \in UNION {[S -> SUBSET Key] : S \in SUBSET Lease}
            BY <1>1, <2>2
        <3> QED
            BY <2>1, <2>2, <3>1 DEF ServerOf
    <2> QED
        BY <1>1, <1>3, <2>2, <2>3 DEF f, g
<1> QED
    BY <1>2, <1>3

LEMMA AttachEffect ==
    ASSUME NEW n \in Nat, NEW m \in ServerOf(n), DOMAIN m.leaseMap = m.db.leases,
           NEW k \in Key, NEW l \in m.db.leases \cup {NoLease}
    PROVE  LET d == Attach(m, l, k)
           IN  /\ d \in ServerOf(n) /\ d.db = m.db /\ DOMAIN d.leaseMap = m.db.leases
               /\ \A x \in m.db.leases, j \in Key :
                    j \in d.leaseMap[x] <=> j \in m.leaseMap[x] \/ (j = k /\ x = l)
               /\ \A j \in Key :
                    d.itemMap[j] = IF j = k /\ l # NoLease THEN l ELSE m.itemMap[j]
<1> DEFINE f == [m.leaseMap EXCEPT ![l] = @ \cup {k}]
           g == [m.itemMap EXCEPT ![k] = l]
<1>1. /\ m.db.leases \in SUBSET Lease /\ m.leaseMap \in [m.db.leases -> SUBSET Key]
      /\ m.itemMap \in [Key -> Lease \cup {NoLease}]
    BY DEF ServerOf, DatabaseOf
<1>2. CASE l = NoLease
    <2>1. Attach(m, l, k) = m
        BY <1>1, <1>2 DEF Attach, Has
    <2> QED
        BY <1>1, <1>2, <2>1
<1>3. CASE l # NoLease
    <2>1. Attach(m, l, k) = [m EXCEPT !.leaseMap = f, !.itemMap = g]
        BY <1>3 DEF Attach, Has
    <2>2. f \in [m.db.leases -> SUBSET Key] /\ g \in [Key -> Lease \cup {NoLease}]
        BY <1>1, <1>3
    <2> HIDE DEF f, g
    <2>3. LET d == Attach(m, l, k)
          IN  d \in ServerOf(n) /\ d.db = m.db /\ d.leaseMap = f /\ d.itemMap = g
        <3>1. f \in UNION {[S -> SUBSET Key] : S \in SUBSET Lease}
            BY <1>1, <2>2
        <3> QED
            BY <2>1, <2>2, <3>1 DEF ServerOf
    <2> QED
        BY <1>1, <1>3, <2>2, <2>3 DEF f, g
<1> QED
    BY <1>2, <1>3

\* A transaction that set the keys to kv, when it ends.
LEMMA EndEffect ==
    ASSUME NEW n \in Nat, NEW m \in ServerOf(n),
           NEW kv \in [Key -> Lease \cup {NoLease, Absent}],
           NEW e, e = End([m EXCEPT !.db.kv = kv])
    PROVE  /\ e \in ServerOf(n) /\ e.db.kv = kv /\ e.db.leases = m.db.leases
           /\ e.leaseMap = m.leaseMap /\ e.itemMap = m.itemMap
<1> DEFINE rev == m.db.rev + 1
           new == [m.db EXCEPT !.kv = kv, !.rev = rev, !.consistentIndex = m.consistIndex]
<1>1. m.db \in DatabaseOf(n) /\ m.consistIndex \in 0..n /\ rev \in Nat
    BY DEF ServerOf, DatabaseOf
<1>2. e = [m EXCEPT !.db = new]
    BY DEF End, ServerOf, DatabaseOf
<1> HIDE DEF rev
<1>3. new \in DatabaseOf(n) /\ new.kv = kv /\ new.leases = m.db.leases
    BY <1>1 DEF DatabaseOf
<1> HIDE DEF new
<1> QED
    BY <1>2, <1>3 DEF ServerOf

\* Put leaves the key with its new lease, and with no other.
LEMMA PutGood ==
    ASSUME NEW n \in Nat, NEW m, Good(m, n), NEW k \in Key, NEW l \in Lease \cup {NoLease}
    PROVE  Good(Put(m, k, l), n)
<1> DEFINE old == IF m.db.kv[k] = Absent THEN NoLease ELSE m.itemMap[k]
           kv  == [m.db.kv EXCEPT ![k] = l]
           e   == End([m EXCEPT !.db.kv = kv])
           d   == Detach(e, old, k)
           a   == Attach(d, l, k)
<1>1. /\ m \in ServerOf(n) /\ Agree(m) /\ Sound(m.db)
      /\ DOMAIN m.leaseMap = m.db.leases /\ m.db.leases \subseteq Lease
      /\ m.db.kv \in [Key -> Lease \cup {NoLease, Absent}]
    BY DEF Good, Agree, ServerOf, DatabaseOf
<1>2. CASE l # NoLease /\ ~Has(m, l)
    BY <1>2 DEF Put
<1>3. CASE l = NoLease \/ Has(m, l)
    <2>1. Put(m, k, l) = a
        BY <1>3 DEF Put
    <2>2. /\ old \in m.db.leases \cup {NoLease} /\ l \in m.db.leases \cup {NoLease}
          /\ m.db.kv[k] \in Lease \cup {NoLease} => old = m.db.kv[k]
          /\ m.db.kv[k] \notin Lease \cup {NoLease} => old = NoLease
        BY <1>1, <1>3 DEF Agree, Sound, Has
    <2>3. kv \in [Key -> Lease \cup {NoLease, Absent}]
        BY <1>1
    <2>4. /\ e \in ServerOf(n) /\ e.db.kv = kv /\ e.db.leases = m.db.leases
          /\ e.leaseMap = m.leaseMap /\ e.itemMap = m.itemMap
        <3> HIDE DEF kv
        <3> QED
            BY <1>1, <2>3, EndEffect
    <2> HIDE DEF old, kv, e
    <2>5. /\ d \in ServerOf(n) /\ d.db = e.db /\ DOMAIN d.leaseMap = m.db.leases
          /\ \A x \in m.db.leases, j \in Key :
                j \in d.leaseMap[x] <=> j \in m.leaseMap[x] /\ (j # k \/ x # old)
          /\ \A j \in Key :
                d.itemMap[j] = IF j = k /\ old # NoLease THEN NoLease ELSE m.itemMap[j]
        BY <1>1, <2>2, <2>4, DetachEffect
    <2> HIDE DEF d
    <2>6. /\ a \in ServerOf(n) /\ a.db = e.db /\ DOMAIN a.leaseMap = m.db.leases
          /\ \A x \in m.db.leases, j \in Key :
                j \in a.leaseMap[x] <=> j \in d.leaseMap[x] \/ (j = k /\ x = l)
          /\ \A j \in Key :
                a.itemMap[j] = IF j = k /\ l # NoLease THEN l ELSE d.itemMap[j]
        BY <2>2, <2>4, <2>5, AttachEffect
    <2> HIDE DEF a
    <2>7. /\ m.itemMap[k] = IF m.db.kv[k] = Absent THEN NoLease ELSE m.db.kv[k]
          /\ l # Absent /\ (l \in Lease => l \in m.db.leases)
        BY <1>1, <2>2 DEF Agree
    <2>8. Sound(a.db)
        BY <1>1, <2>4, <2>6, <2>7 DEF Sound, kv
    <2>9. Agree(a)
        BY <1>1, <2>2, <2>4, <2>5, <2>6, <2>7 DEF Agree, kv
    <2> QED
        BY <2>1, <2>6, <2>8, <2>9 DEF Good
<1> QED
    BY <1>2, <1>3

LEMMA CreateGood ==
    ASSUME NEW n \in Nat, NEW m, Good(m, n), NEW k \in Key, NEW l \in Lease \cup {NoLease}
    PROVE  Good(Create(m, k, l), n)
BY PutGood DEF Create

\* Delete detaches the key from the lease that itemMap has for it.
LEMMA DeleteGood ==
    ASSUME NEW n \in Nat, NEW m, Good(m, n), NEW k \in Key
    PROVE  Good(Delete(m, k), n)
<1> DEFINE old == m.itemMap[k]
           kv  == [m.db.kv EXCEPT ![k] = Absent]
           e   == End([m EXCEPT !.db.kv = kv])
           d   == Detach(e, old, k)
<1>1. /\ m \in ServerOf(n) /\ Agree(m) /\ Sound(m.db)
      /\ DOMAIN m.leaseMap = m.db.leases /\ m.db.leases \subseteq Lease
      /\ m.db.kv \in [Key -> Lease \cup {NoLease, Absent}]
    BY DEF Good, Agree, ServerOf, DatabaseOf
<1>2. CASE m.db.kv[k] = Absent
    BY <1>2 DEF Delete
<1>3. CASE m.db.kv[k] # Absent
    <2>1. Delete(m, k) = d
        BY <1>3 DEF Delete
    <2>2. old \in m.db.leases \cup {NoLease} /\ m.db.kv[k] = old
        BY <1>1, <1>3 DEF Agree, Sound
    <2>3. kv \in [Key -> Lease \cup {NoLease, Absent}]
        BY <1>1
    <2>4. /\ e \in ServerOf(n) /\ e.db.kv = kv /\ e.db.leases = m.db.leases
          /\ e.leaseMap = m.leaseMap /\ e.itemMap = m.itemMap
        <3> HIDE DEF kv
        <3> QED
            BY <1>1, <2>3, EndEffect
    <2> HIDE DEF old, kv, e
    <2>5. /\ d \in ServerOf(n) /\ d.db = e.db /\ DOMAIN d.leaseMap = m.db.leases
          /\ \A x \in m.db.leases, j \in Key :
                j \in d.leaseMap[x] <=> j \in m.leaseMap[x] /\ (j # k \/ x # old)
          /\ \A j \in Key :
                d.itemMap[j] = IF j = k /\ old # NoLease THEN NoLease ELSE m.itemMap[j]
        BY <1>1, <2>2, <2>4, DetachEffect
    <2> HIDE DEF d
    <2>6. m.itemMap[k] = old
        BY DEF old
    <2>7. Sound(d.db)
        BY <1>1, <2>4, <2>5 DEF Sound, kv
    <2>8. Agree(d)
        BY <1>1, <2>2, <2>4, <2>5, <2>6 DEF Agree, kv
    <2> QED
        BY <2>1, <2>5, <2>7, <2>8 DEF Good
<1> QED
    BY <1>2, <1>3

\* No key has a lease before it is granted.
LEMMA GrantGood ==
    ASSUME NEW n \in Nat, NEW m, Good(m, n), NEW l \in Lease
    PROVE  Good(Grant(m, l), n)
<1> DEFINE S == m.db.leases \cup {l}
           f == [x \in S |-> IF x = l THEN {} ELSE m.leaseMap[x]]
           b == [m.db EXCEPT !.leases = S]
           g == [m EXCEPT !.db = b, !.leaseMap = f]
<1>1. /\ m \in ServerOf(n) /\ Agree(m) /\ Sound(m.db) /\ m.db \in DatabaseOf(n)
      /\ m.leaseMap \in [m.db.leases -> SUBSET Key] /\ m.db.leases \subseteq Lease
    BY DEF Good, Agree, ServerOf, DatabaseOf
<1>2. CASE Has(m, l)
    BY <1>2 DEF Grant
<1>3. CASE ~Has(m, l)
    <2>1. Grant(m, l) = g
        BY <1>1, <1>3 DEF Grant
    <2>2. S \in SUBSET Lease /\ f \in [S -> SUBSET Key] /\ l \notin m.db.leases
        BY <1>1, <1>3 DEF Has
    <2>3. \A x \in S : f[x] = IF x = l THEN {} ELSE m.leaseMap[x]
        OBVIOUS
    <2>4. S = m.db.leases \cup {l}
        OBVIOUS
    <2> HIDE DEF S, f
    <2>5. b \in DatabaseOf(n) /\ b.kv = m.db.kv /\ b.leases = S
        BY <1>1, <2>2 DEF DatabaseOf
    <2> HIDE DEF b
    <2>6. f \in UNION {[T -> SUBSET Key] : T \in SUBSET Lease}
        BY <2>2
    <2>7. g \in ServerOf(n) /\ g.db = b /\ g.leaseMap = f /\ g.itemMap = m.itemMap
        BY <1>1, <2>5, <2>6 DEF ServerOf
    <2> HIDE DEF g
    <2>8. Sound(g.db)
        BY <1>1, <2>4, <2>5, <2>7 DEF Sound
    <2>9. Agree(g)
        BY <1>1, <2>2, <2>3, <2>4, <2>5, <2>7 DEF Agree, Sound
    <2> QED
        BY <2>1, <2>7, <2>8, <2>9 DEF Good
<1> QED
    BY <1>2, <1>3

\* A revocation deletes all keys of the lease, and itemMap has each of them under it.
LEMMA RevokeGood ==
    ASSUME NEW n \in Nat, NEW m, Good(m, n), NEW l \in Lease
    PROVE  Good(Revoke(m, l), n)
<1> DEFINE keys == {k \in m.leaseMap[l] : m.db.kv[k] # Absent}
           kv   == [k \in Key |-> IF k \in keys THEN Absent ELSE m.db.kv[k]]
           e    == IF keys = {} THEN m ELSE End([m EXCEPT !.db.kv = kv])
           S    == m.db.leases \ {l}
           left == [x \in S |-> m.leaseMap[x] \ {k \in keys : m.itemMap[k] = x}]
           item == [k \in Key |-> IF k \in keys THEN NoLease ELSE m.itemMap[k]]
           b    == [e.db EXCEPT !.leases = S]
           r    == [e EXCEPT !.db = b, !.leaseMap = left, !.itemMap = item]
<1>1. /\ m \in ServerOf(n) /\ Agree(m) /\ Sound(m.db) /\ m.db \in DatabaseOf(n)
      /\ m.leaseMap \in [m.db.leases -> SUBSET Key] /\ m.db.leases \subseteq Lease
      /\ m.itemMap \in [Key -> Lease \cup {NoLease}]
      /\ m.db.kv \in [Key -> Lease \cup {NoLease, Absent}]
    BY DEF Good, Agree, ServerOf, DatabaseOf
<1>2. CASE ~Has(m, l)
    BY <1>2 DEF Revoke
<1>3. CASE Has(m, l)
    <2>1. l \in m.db.leases /\ keys = {k \in Key : m.db.kv[k] = l}
        BY <1>1, <1>3 DEF Has, Agree
    <2>2. /\ kv \in [Key -> Lease \cup {NoLease, Absent}]
          /\ S \in SUBSET Lease /\ left \in [S -> SUBSET Key]
          /\ item \in [Key -> Lease \cup {NoLease}]
        BY <1>1
    <2>3. keys = {} => kv = m.db.kv
        BY <1>1
    <2>4. /\ e \in ServerOf(n) /\ e.db.kv = kv /\ e.db.leases = m.db.leases
          /\ e.leaseMap = m.leaseMap /\ e.itemMap = m.itemMap
        <3>1. CASE keys = {}
            BY <1>1, <2>3, <3>1
        <3>2. CASE keys # {}
            <4> HIDE DEF kv
            <4> QED
                BY <1>1, <2>2, <3>2, EndEffect
        <3> QED
            BY <3>1, <3>2
    <2>5. Revoke(m, l) = r
        <3>1. DOMAIN m.leaseMap \ {l} = S
            BY <1>1
        <3> QED
            BY <1>1, <1>3, <2>4, <3>1 DEF Revoke
    <2>6. /\ \A k \in Key : kv[k] = IF m.db.kv[k] = l THEN Absent ELSE m.db.kv[k]
          /\ \A k \in Key : item[k] = IF m.db.kv[k] = l THEN NoLease ELSE m.itemMap[k]
          /\ \A x \in S, k \in Key : k \in left[x] <=> m.db.kv[k] = x
        BY <1>1, <2>1 DEF Agree
    <2>7. S = m.db.leases \ {l}
        OBVIOUS
    <2> HIDE DEF keys, kv, e, S, left, item
    <2>8. b \in DatabaseOf(n) /\ b.kv = kv /\ b.leases = S
        <3>1. e.db \in DatabaseOf(n)
            BY <2>4 DEF ServerOf
        <3> QED
            BY <2>2, <2>4, <3>1 DEF DatabaseOf
    <2> HIDE DEF b
    <2>9. left \in UNION {[T -> SUBSET Key] : T \in SUBSET Lease}
        BY <2>2
    <2>10. r \in ServerOf(n) /\ r.db = b /\ r.leaseMap = left /\ r.itemMap = item
        BY <2>2, <2>4, <2>8, <2>9 DEF ServerOf
    <2> HIDE DEF r
    <2>11. Sound(r.db)
        BY <1>1, <2>6, <2>7, <2>8, <2>10 DEF Sound
    <2>12. Agree(r)
        BY <1>1, <2>1, <2>2, <2>6, <2>7, <2>8, <2>10 DEF Agree
    <2> QED
        BY <2>5, <2>10, <2>11, <2>12 DEF Good
<1> QED
    BY <1>2, <1>3

\* Alarms change the applier and nothing else.
LEMMA AlarmGood ==
    ASSUME NEW n \in Nat, NEW m, Good(m, n), NEW a \in Alarm
    PROVE  Good(Activate(m, a), n) /\ Good(Deactivate(m, a), n)
<1>1. m \in ServerOf(n) /\ m.db \in DatabaseOf(n)
    BY DEF Good, ServerOf
<1>2. ASSUME NEW A \in SUBSET Alarm, NEW B \in SUBSET Alarm
      PROVE  Good([m EXCEPT !.db.alarms = A, !.applier = B], n)
    <2> DEFINE b == [m.db EXCEPT !.alarms = A]
               r == [m EXCEPT !.db = b, !.applier = B]
    <2>1. b \in DatabaseOf(n) /\ b.kv = m.db.kv /\ b.leases = m.db.leases
        BY <1>1 DEF DatabaseOf
    <2>2. [m EXCEPT !.db.alarms = A, !.applier = B] = r
        BY <1>1 DEF ServerOf
    <2> HIDE DEF b
    <2>3. r \in ServerOf(n) /\ r.db = b /\ r.leaseMap = m.leaseMap /\ r.itemMap = m.itemMap
        BY <1>1, <2>1 DEF ServerOf
    <2> HIDE DEF r
    <2>4. Good(r, n)
        BY <2>1, <2>3 DEF Good, Sound, Agree
    <2> QED
        BY <2>2, <2>4
<1>3. m.db.alarms \cup {a} \in SUBSET Alarm /\ m.db.alarms \ {a} \in SUBSET Alarm
    BY <1>1 DEF DatabaseOf
<1>4. Good(Activate(m, a), n)
    BY <1>2, <1>3 DEF Activate
<1>5. Good(Deactivate(m, a), n)
    BY <1>2, <1>3 DEF Deactivate
<1> QED
    BY <1>4, <1>5

LEMMA ApplyGood ==
    ASSUME NEW n \in Nat, NEW m, Good(m, n), NEW r \in Request
    PROVE  Good(Apply(m, r), n)
<1>1. CASE Refuses(m, r)
    BY <1>1 DEF Apply
<1>2. CASE ~Refuses(m, r)
    <2>1. CASE r.type = "put"
        <3>1. r.key \in Key /\ r.lease \in Lease \cup {NoLease}
            BY <2>1 DEF Request
        <3> QED
            BY <1>2, <2>1, <3>1, PutGood DEF Apply
    <2>2. CASE r.type = "create"
        <3>1. r.key \in Key /\ r.lease \in Lease \cup {NoLease}
            BY <2>2 DEF Request
        <3> QED
            BY <1>2, <2>2, <3>1, CreateGood DEF Apply
    <2>3. CASE r.type = "delete"
        <3>1. r.key \in Key
            BY <2>3 DEF Request
        <3> QED
            BY <1>2, <2>3, <3>1, DeleteGood DEF Apply
    <2>4. CASE r.type = "grant"
        <3>1. r.lease \in Lease
            BY <2>4 DEF Request
        <3> QED
            BY <1>2, <2>4, <3>1, GrantGood DEF Apply
    <2>5. CASE r.type = "revoke"
        <3>1. r.lease \in Lease
            BY <2>5 DEF Request
        <3> QED
            BY <1>2, <2>5, <3>1, RevokeGood DEF Apply
    <2>6. CASE r.type \in {"activate", "deactivate"}
        <3>1. r.alarm \in Alarm
            BY <2>6 DEF Request
        <3> QED
            BY <1>2, <2>6, <3>1, AlarmGood DEF Apply
    <2>7. CASE r.type = "other"
        BY <1>2, <2>7 DEF Apply
    <2> QED
        BY <2>1, <2>2, <2>3, <2>4, <2>5, <2>6, <2>7 DEF Request
<1> QED
    BY <1>1, <1>2

LEMMA applyEntryNormalGood ==
    ASSUME NEW n \in Nat, NEW m, Good(m, n), m.applied < n, NEW r \in Request
    PROVE  Good(applyEntryNormal(m, r), n)
<1> DEFINE next  == [m EXCEPT !.applied = @ + 1]
           index == [next EXCEPT !.consistIndex = next.applied]
<1>1. m \in ServerOf(n) /\ m.applied + 1 \in 0..n
    BY DEF Good, ServerOf
<1>2. /\ next \in ServerOf(n) /\ next.applied = m.applied + 1
      /\ next.db = m.db /\ next.leaseMap = m.leaseMap /\ next.itemMap = m.itemMap
    <2> DEFINE i == m.applied + 1
    <2>1. i \in 0..n /\ next = [m EXCEPT !.applied = i] /\ i = m.applied + 1
        BY <1>1
    <2> HIDE DEF i
    <2> QED
        BY <1>1, <2>1 DEF ServerOf
<1> HIDE DEF next
<1>3. Good(next, n)
    BY <1>2 DEF Good, Agree
<1>4. /\ index \in ServerOf(n)
      /\ index.db = m.db /\ index.leaseMap = m.leaseMap /\ index.itemMap = m.itemMap
    BY <1>1, <1>2 DEF ServerOf
<1> HIDE DEF index
<1>5. Good(index, n)
    BY <1>4 DEF Good, Agree
<1> QED
    BY <1>3, <1>5, ApplyGood DEF applyEntryNormal, next, index

\* A restart: the maps are read from the keys.
LEMMA NewServerGood ==
    ASSUME NEW n \in Nat, NEW db \in DatabaseOf(n), Sound(db), NEW i \in 0..n
    PROVE  Good(NewServer(db, i), n)
<1> DEFINE f == restored(db)
           g == [k \in Key |-> IF \E l \in db.leases : k \in f[l] THEN db.kv[k] ELSE NoLease]
           m == NewServer(db, i)
<1>1. /\ db.leases \in SUBSET Lease /\ db.alarms \in SUBSET Alarm
      /\ db.consistentIndex \in 0..n /\ db.kv \in [Key -> Lease \cup {NoLease, Absent}]
    BY DEF DatabaseOf
<1>2. f \in [db.leases -> SUBSET Key]
      /\ \A l \in db.leases, k \in Key : k \in f[l] <=> db.kv[k] = l
    BY DEF restored
<1>3. m = [db |-> db, applied |-> i, consistIndex |-> db.consistentIndex,
           leaseMap |-> f, itemMap |-> g, applier |-> db.alarms]
    BY DEF NewServer
<1> HIDE DEF f
<1>4. /\ g \in [Key -> Lease \cup {NoLease}]
      /\ \A k \in Key : g[k] = IF db.kv[k] = Absent THEN NoLease ELSE db.kv[k]
    BY <1>1, <1>2 DEF Sound
<1>5. f \in UNION {[T -> SUBSET Key] : T \in SUBSET Lease}
    BY <1>1, <1>2
<1> HIDE DEF g, m
<1>6. m \in ServerOf(n)
    BY <1>1, <1>3, <1>4, <1>5 DEF ServerOf
<1>7. Agree(m)
    BY <1>2, <1>3, <1>4 DEF Agree
<1>8. Sound(m.db)
    BY <1>3
<1> QED
    BY <1>6, <1>7, <1>8 DEF Good, m

-----------------------------------------------------------------------------
(* The invariant *)

LEMMA InitIInv == Init => IInv
<1> SUFFICES ASSUME Init PROVE IInv
    OBVIOUS
<1>1. EmptyDatabase \in DatabaseOf(0) /\ Sound(EmptyDatabase)
    BY DEF EmptyDatabase, DatabaseOf, Sound
<1>2. Len(log) = 0 /\ log \in Seq(Request)
    BY DEF Init
<1>3. Good(NewServer(EmptyDatabase, 0), 0)
    BY <1>1, NewServerGood
<1> QED
    BY <1>1, <1>2, <1>3 DEF Init, IInv

LEMMA NextIInv == IInv /\ [Next]_vars => IInv'
<1> SUFFICES ASSUME IInv, [Next]_vars PROVE IInv'
    OBVIOUS
<1> DEFINE n == Len(log)
<1>1. n \in Nat /\ log \in Seq(Request)
    BY DEF IInv
<1>2. ASSUME NEW r \in Request, ApplyNew(r) PROVE IInv'
    <2>1. log' \in Seq(Request) /\ Len(log') = n + 1
        BY <1>1, <1>2 DEF ApplyNew
    <2>2. disk' \in DatabaseOf(n + 1) /\ Sound(disk') /\ snapshot' \in 0..n + 1
        BY <1>1, <1>2 DEF ApplyNew, IInv, DatabaseOf
    <2>3. Good(member, n + 1) /\ Good(twin, n + 1)
        BY <1>1, GoodLater DEF IInv
    <2>4. member.applied < n + 1 /\ twin.applied < n + 1
        BY <1>1 DEF IInv, Good, ServerOf
    <2>5. Good(member', n + 1) /\ Good(twin', n + 1)
        BY <1>1, <1>2, <2>3, <2>4, applyEntryNormalGood DEF ApplyNew
    <2> QED
        BY <1>2, <2>1, <2>2, <2>5 DEF ApplyNew, IInv
<1>3. CASE Replay
    <2>1. member.applied \in 0..n /\ member.applied < n /\ log[member.applied + 1] \in Request
        BY <1>1, <1>3 DEF Replay, IInv, Good, ServerOf
    <2>2. Good(member', n)
        BY <1>1, <1>3, <2>1, applyEntryNormalGood DEF Replay, IInv
    <2> QED
        BY <1>3, <2>2 DEF Replay, IInv
<1>4. CASE Commit
    BY <1>4 DEF Commit, IInv, Good, ServerOf
<1>5. CASE Snapshot
    <2> DEFINE b == [member.db EXCEPT !.consistentIndex = member.consistIndex]
               m == [member EXCEPT !.db = b]
    <2>1. Good(member, n) /\ member \in ServerOf(n) /\ member.db \in DatabaseOf(n)
          /\ member.consistIndex \in 0..n /\ member.applied \in 0..n
        BY DEF IInv, Good, ServerOf
    <2>2. b \in DatabaseOf(n) /\ b.kv = member.db.kv /\ b.leases = member.db.leases
        BY <2>1 DEF DatabaseOf
    <2>3. member' = m
        BY <1>5, <2>1 DEF Snapshot, ServerOf
    <2> HIDE DEF b
    <2>4. m \in ServerOf(n) /\ m.db = b /\ m.leaseMap = member.leaseMap
          /\ m.itemMap = member.itemMap
        BY <2>1, <2>2 DEF ServerOf
    <2> HIDE DEF m
    <2>5. Sound(b)
        BY <2>1, <2>2 DEF Good, Sound
    <2>6. Agree(m)
        BY <2>1, <2>2, <2>4 DEF Good, Agree
    <2>7. Good(member', n)
        BY <2>3, <2>4, <2>5, <2>6 DEF Good
    <2>8. disk' = b
        BY <1>5, <2>3, <2>4 DEF Snapshot
    <2>9. snapshot' \in 0..n
        BY <1>5, <2>1 DEF Snapshot, IInv
    <2> QED
        BY <1>5, <2>2, <2>5, <2>7, <2>8, <2>9 DEF Snapshot, IInv
<1>6. CASE Crash
    <2>1. Good(member', n)
        BY <1>1, <1>6, NewServerGood DEF Crash, IInv
    <2>2. crashes' \in 0..MaxCrash
        BY <1>6 DEF Crash, IInv
    <2> QED
        BY <1>6, <2>1, <2>2 DEF Crash, IInv
<1>7. CASE UNCHANGED vars
    BY <1>7 DEF vars, IInv
<1> QED
    BY <1>2, <1>3, <1>4, <1>5, <1>6, <1>7 DEF Next

LEMMA SpecIInv == Spec => []IInv
BY InitIInv, NextIInv, PTL DEF Spec

-----------------------------------------------------------------------------
(* The theorems *)

\* Members, database and log have their types, whatever is applied and whenever the
\* member crashes (server.go applyEntryNormal, NewServer).
THEOREM TypeCorrect == Spec => []TypeOK
<1>1. IInv => TypeOK
    BY DEF IInv, TypeOK, Good, ServerOf, ServerOK, DatabaseOf, Database
<1> QED
    BY <1>1, SpecIInv, PTL

\* No key of the database has a lease that is not there, at any commit: Revoke deletes
\* the keys and the lease in one backend transaction (lessor.go).
THEOREM LeasesOutliveKeys == Spec => []KeysHaveTheirLease
<1>1. IInv => KeysHaveTheirLease
    BY DEF IInv, KeysHaveTheirLease, Good, Sound
<1> QED
    BY <1>1, SpecIInv, PTL

\* leaseMap, itemMap and the keys agree, after each request and each restart: a
\* revocation deletes the keys of the lease, and no others.
THEOREM RevocationsAreExact == Spec => []AttachmentsAgree
<1>1. IInv => AttachmentsAgree
    BY DEF IInv, AttachmentsAgree, Good, Agree
<1> QED
    BY <1>1, SpecIInv, PTL

-----------------------------------------------------------------------------
(* What a request does to the data *)

\* All of a database but its index.
Data == [kv : [Key -> Lease \cup {NoLease, Absent}], rev : Nat,
         leases : SUBSET Lease, alarms : SUBSET Alarm]

DataOf(db) == [kv |-> db.kv, rev |-> db.rev, leases |-> db.leases, alarms |-> db.alarms]

Forbids(A, r) ==
    \/ "NOSPACE" \in A /\ r.type \in {"put", "create", "grant"}
    \/ "CORRUPT" \in A /\ r.type \in {"put", "create", "delete", "grant", "revoke"}

Written(d, kv) ==
    [kv |-> kv, rev |-> d.rev + 1, leases |-> d.leases, alarms |-> d.alarms]

LeaseKeys(d, l) == {k \in Key : d.kv[k] = l}

Without(d, S) == [k \in Key |-> IF k \in S THEN Absent ELSE d.kv[k]]

\* The data that request r makes of data d: a function of the two, with no lessor.
Puts(d, k, l) ==
    IF l # NoLease /\ l \notin d.leases THEN d
    ELSE Written(d, [d.kv EXCEPT ![k] = l])

Creates(d, k, l) == IF d.kv[k] = Absent THEN Puts(d, k, l) ELSE d

Deletes(d, k) ==
    IF d.kv[k] = Absent THEN d ELSE Written(d, [d.kv EXCEPT ![k] = Absent])

Grants(d, l) == [d EXCEPT !.leases = d.leases \cup {l}]

Revokes(d, l) ==
    IF l \notin d.leases THEN d
    ELSE [(IF LeaseKeys(d, l) = {} THEN d ELSE Written(d, Without(d, LeaseKeys(d, l))))
            EXCEPT !.leases = d.leases \ {l}]

Effect(d, r) ==
    IF Forbids(d.alarms, r) THEN d
    ELSE CASE r.type = "put"        -> Puts(d, r.key, r.lease)
           [] r.type = "create"     -> Creates(d, r.key, r.lease)
           [] r.type = "delete"     -> Deletes(d, r.key)
           [] r.type = "grant"      -> Grants(d, r.lease)
           [] r.type = "revoke"     -> Revokes(d, r.lease)
           [] r.type = "activate"   -> [d EXCEPT !.alarms = d.alarms \cup {r.alarm}]
           [] r.type = "deactivate" -> [d EXCEPT !.alarms = d.alarms \ {r.alarm}]
           [] r.type = "other"      -> d

\* With one type of alarm, the applier is the one of the alarms in the database.
OneAlarm == \A a, b \in Alarm : a = b

Tidy(m) == m.applier = m.db.alarms

\* A request made server e of server m: it saved the index of the entry if it changed
\* keys, and left the indexes of the server alone.
Kept(m, e) ==
    /\ e.db.consistentIndex =
            IF e.db.rev = m.db.rev THEN m.db.consistentIndex ELSE m.consistIndex
    /\ e.applied = m.applied /\ e.consistIndex = m.consistIndex
    /\ Tidy(e)

\* Data of a server, field by field.
LEMMA DataFields ==
    ASSUME NEW n \in Nat, NEW db \in DatabaseOf(n)
    PROVE  /\ DataOf(db) \in Data /\ DataOf(db).kv = db.kv /\ DataOf(db).rev = db.rev
           /\ DataOf(db).leases = db.leases /\ DataOf(db).alarms = db.alarms
BY DEF DataOf, Data, DatabaseOf

\* Nothing but the lessor's maps changes.
LEMMA MapsOnly ==
    ASSUME NEW n \in Nat, NEW m \in ServerOf(n), NEW l, NEW k,
           NEW e, e = Detach(m, l, k) \/ e = Attach(m, l, k)
    PROVE  /\ e.db = m.db /\ e.applied = m.applied /\ e.consistIndex = m.consistIndex
           /\ e.applier = m.applier
BY DEF Detach, Attach, ServerOf

\* A transaction that set the keys to kv, when it ends: the rest of the server.
LEMMA EndSaves ==
    ASSUME NEW n \in Nat, NEW m \in ServerOf(n),
           NEW kv \in [Key -> Lease \cup {NoLease, Absent}],
           NEW e, e = End([m EXCEPT !.db.kv = kv])
    PROVE  /\ DataOf(e.db) = Written(DataOf(m.db), kv)
           /\ e.db.consistentIndex = m.consistIndex /\ e.db.rev = m.db.rev + 1
           /\ e.db.leases = m.db.leases /\ e.db.alarms = m.db.alarms
           /\ e.applied = m.applied /\ e.consistIndex = m.consistIndex
           /\ e.applier = m.applier
<1> DEFINE rev == m.db.rev + 1
           new == [m.db EXCEPT !.kv = kv, !.rev = rev, !.consistentIndex = m.consistIndex]
<1>1. m.db \in DatabaseOf(n) /\ m.consistIndex \in 0..n /\ rev \in Nat
    BY DEF ServerOf, DatabaseOf
<1>2. e = [m EXCEPT !.db = new]
    BY DEF End, ServerOf, DatabaseOf
<1>r. rev = m.db.rev + 1
    OBVIOUS
<1> HIDE DEF rev
<1>3. /\ new.kv = kv /\ new.leases = m.db.leases /\ new.alarms = m.db.alarms
      /\ new.rev = rev /\ new.consistentIndex = m.consistIndex
    BY <1>1 DEF DatabaseOf
<1> HIDE DEF new
<1>4. /\ e.db = new /\ e.applied = m.applied /\ e.consistIndex = m.consistIndex
      /\ e.applier = m.applier
    BY <1>2 DEF ServerOf
<1>5. Written(DataOf(m.db), kv) = DataOf(new)
    <2>1. DataOf(new) = [kv |-> kv, rev |-> rev, leases |-> m.db.leases, alarms |-> m.db.alarms]
        BY <1>3 DEF DataOf
    <2>2. DataOf(m.db) = [kv |-> m.db.kv, rev |-> m.db.rev, leases |-> m.db.leases,
                          alarms |-> m.db.alarms]
        BY DEF DataOf
    <2>3. Written(DataOf(m.db), kv) =
            [kv |-> kv, rev |-> m.db.rev + 1, leases |-> m.db.leases, alarms |-> m.db.alarms]
        BY <2>2 DEF Written
    <2> QED
        BY <2>1, <2>3, <1>r
<1> QED
    BY <1>3, <1>4, <1>5, <1>r

\* A request that changes nothing.
LEMMA NothingDone ==
    ASSUME NEW m, Tidy(m)
    PROVE  Kept(m, m)
BY DEF Kept

LEMMA PutDid ==
    ASSUME NEW n \in Nat, NEW m, Good(m, n), Tidy(m),
           NEW k \in Key, NEW l \in Lease \cup {NoLease}
    PROVE  DataOf(Put(m, k, l).db) = Puts(DataOf(m.db), k, l) /\ Kept(m, Put(m, k, l))
<1> DEFINE old == IF m.db.kv[k] = Absent THEN NoLease ELSE m.itemMap[k]
           kv  == [m.db.kv EXCEPT ![k] = l]
           e   == End([m EXCEPT !.db.kv = kv])
           d   == Detach(e, old, k)
           a   == Attach(d, l, k)
<1>1. /\ m \in ServerOf(n) /\ m.db \in DatabaseOf(n) /\ Agree(m) /\ Sound(m.db)
      /\ DOMAIN m.leaseMap = m.db.leases /\ m.db.rev \in Nat
      /\ m.db.kv \in [Key -> Lease \cup {NoLease, Absent}]
    BY DEF Good, Agree, ServerOf, DatabaseOf
<1>2. /\ DataOf(m.db).kv = m.db.kv /\ DataOf(m.db).leases = m.db.leases
    BY <1>1, DataFields
<1>3. CASE l # NoLease /\ ~Has(m, l)
    <2>1. Put(m, k, l) = m /\ l \notin m.db.leases
        BY <1>1, <1>3 DEF Put, Has
    <2> QED
        BY <1>2, <1>3, <2>1, NothingDone DEF Puts
<1>4. CASE l = NoLease \/ Has(m, l)
    <2>1. Put(m, k, l) = a /\ (l = NoLease \/ l \in m.db.leases)
        BY <1>1, <1>4 DEF Put, Has
    <2>2. kv \in [Key -> Lease \cup {NoLease, Absent}]
        BY <1>1
    <2>3. Puts(DataOf(m.db), k, l) = Written(DataOf(m.db), kv)
        BY <1>2, <2>1 DEF Puts
    <2> HIDE DEF kv
    <2>4. /\ DataOf(e.db) = Written(DataOf(m.db), kv)
          /\ e.db.consistentIndex = m.consistIndex /\ e.db.rev = m.db.rev + 1
          /\ e.db.leases = m.db.leases /\ e.db.alarms = m.db.alarms
          /\ e.applied = m.applied /\ e.consistIndex = m.consistIndex
          /\ e.applier = m.applier
        BY <1>1, <2>2, EndSaves
    <2>5. e \in ServerOf(n) /\ e.leaseMap = m.leaseMap
        BY <1>1, <2>2, EndEffect
    <2>6. old \in m.db.leases \cup {NoLease}
        BY <1>1 DEF Agree, Sound
    <2> HIDE DEF e, old
    <2>7. /\ d.db = e.db /\ d.applied = e.applied /\ d.consistIndex = e.consistIndex
          /\ d.applier = e.applier
        BY <2>5, MapsOnly
    <2>8. d \in ServerOf(n)
        BY <1>1, <2>4, <2>5, <2>6, DetachEffect
    <2> HIDE DEF d
    <2>9. /\ a.db = d.db /\ a.applied = d.applied /\ a.consistIndex = d.consistIndex
          /\ a.applier = d.applier
        BY <2>8, MapsOnly
    <2> HIDE DEF a
    <2>10. DataOf(a.db) = Puts(DataOf(m.db), k, l)
        BY <2>3, <2>4, <2>7, <2>9
    <2>11. a.db.rev # m.db.rev
        BY <1>1, <2>4, <2>7, <2>9
    <2>12. Kept(m, a)
        BY <2>4, <2>7, <2>9, <2>11 DEF Kept, Tidy
    <2> QED
        BY <2>1, <2>10, <2>12
<1> QED
    BY <1>3, <1>4

LEMMA CreateDid ==
    ASSUME NEW n \in Nat, NEW m, Good(m, n), Tidy(m),
           NEW k \in Key, NEW l \in Lease \cup {NoLease}
    PROVE  DataOf(Create(m, k, l).db) = Creates(DataOf(m.db), k, l)
           /\ Kept(m, Create(m, k, l))
<1>1. DataOf(m.db).kv = m.db.kv
    BY DEF DataOf
<1> QED
    BY <1>1, PutDid, NothingDone DEF Create, Creates

LEMMA DeleteDid ==
    ASSUME NEW n \in Nat, NEW m, Good(m, n), Tidy(m), NEW k \in Key
    PROVE  DataOf(Delete(m, k).db) = Deletes(DataOf(m.db), k) /\ Kept(m, Delete(m, k))
<1> DEFINE kv  == [m.db.kv EXCEPT ![k] = Absent]
           e   == End([m EXCEPT !.db.kv = kv])
           d   == Detach(e, m.itemMap[k], k)
<1>1. /\ m \in ServerOf(n) /\ m.db.rev \in Nat
      /\ m.db.kv \in [Key -> Lease \cup {NoLease, Absent}]
    BY DEF Good, ServerOf, DatabaseOf
<1>2. DataOf(m.db).kv = m.db.kv
    BY DEF DataOf
<1>3. CASE m.db.kv[k] = Absent
    BY <1>2, <1>3, NothingDone DEF Delete, Deletes
<1>4. CASE m.db.kv[k] # Absent
    <2>1. Delete(m, k) = d
        BY <1>4 DEF Delete
    <2>2. kv \in [Key -> Lease \cup {NoLease, Absent}]
        BY <1>1
    <2>3. Deletes(DataOf(m.db), k) = Written(DataOf(m.db), kv)
        BY <1>2, <1>4 DEF Deletes
    <2> HIDE DEF kv
    <2>4. /\ DataOf(e.db) = Written(DataOf(m.db), kv)
          /\ e.db.consistentIndex = m.consistIndex /\ e.db.rev = m.db.rev + 1
          /\ e.db.alarms = m.db.alarms
          /\ e.applied = m.applied /\ e.consistIndex = m.consistIndex
          /\ e.applier = m.applier
        BY <1>1, <2>2, EndSaves
    <2>5. e \in ServerOf(n)
        BY <1>1, <2>2, EndEffect
    <2> HIDE DEF e
    <2>6. /\ d.db = e.db /\ d.applied = e.applied /\ d.consistIndex = e.consistIndex
          /\ d.applier = e.applier
        BY <2>5, MapsOnly
    <2> HIDE DEF d
    <2>7. DataOf(d.db) = Deletes(DataOf(m.db), k)
        BY <2>3, <2>4, <2>6
    <2>8. d.db.rev # m.db.rev
        BY <1>1, <2>4, <2>6
    <2>9. Kept(m, d)
        BY <2>4, <2>6, <2>8 DEF Kept, Tidy
    <2> QED
        BY <2>1, <2>7, <2>9
<1> QED
    BY <1>3, <1>4

LEMMA GrantDid ==
    ASSUME NEW n \in Nat, NEW m, Good(m, n), Tidy(m), NEW l \in Lease
    PROVE  DataOf(Grant(m, l).db) = Grants(DataOf(m.db), l) /\ Kept(m, Grant(m, l))
<1> DEFINE S == m.db.leases \cup {l}
           f == [x \in DOMAIN m.leaseMap \cup {l} |-> IF x = l THEN {} ELSE m.leaseMap[x]]
           b == [m.db EXCEPT !.leases = S]
           g == [m EXCEPT !.db = b, !.leaseMap = f]
<1>1. /\ m \in ServerOf(n) /\ m.db \in DatabaseOf(n) /\ DOMAIN m.leaseMap = m.db.leases
    BY DEF Good, Agree, ServerOf
<1>2. Grants(DataOf(m.db), l) = [DataOf(m.db) EXCEPT !.leases = S]
    BY DEF Grants, DataOf
<1>3. CASE Has(m, l)
    <2>1. Grant(m, l) = m /\ S = m.db.leases
        BY <1>1, <1>3 DEF Grant, Has
    <2>2. [DataOf(m.db) EXCEPT !.leases = m.db.leases] = DataOf(m.db)
        BY DEF DataOf
    <2> QED
        BY <1>2, <2>1, <2>2, NothingDone
<1>4. CASE ~Has(m, l)
    <2>1. Grant(m, l) = g
        BY <1>1, <1>4 DEF Grant
    <2> HIDE DEF S, f
    <2>2. /\ b.kv = m.db.kv /\ b.leases = S /\ b.rev = m.db.rev /\ b.alarms = m.db.alarms
          /\ b.consistentIndex = m.db.consistentIndex
        BY <1>1 DEF DatabaseOf
    <2> HIDE DEF b
    <2>3. /\ g.db = b /\ g.applied = m.applied /\ g.consistIndex = m.consistIndex
          /\ g.applier = m.applier
        BY <1>1 DEF ServerOf
    <2> HIDE DEF g
    <2>4. DataOf(b) = [DataOf(m.db) EXCEPT !.leases = S]
        BY <2>2 DEF DataOf
    <2>5. Kept(m, g)
        BY <2>2, <2>3 DEF Kept, Tidy
    <2> QED
        BY <1>2, <2>1, <2>3, <2>4, <2>5
<1> QED
    BY <1>3, <1>4

LEMMA RevokeDid ==
    ASSUME NEW n \in Nat, NEW m, Good(m, n), Tidy(m), NEW l \in Lease
    PROVE  DataOf(Revoke(m, l).db) = Revokes(DataOf(m.db), l) /\ Kept(m, Revoke(m, l))
<1> DEFINE keys == {k \in m.leaseMap[l] : m.db.kv[k] # Absent}
           kv   == [k \in Key |-> IF k \in keys THEN Absent ELSE m.db.kv[k]]
           e    == IF keys = {} THEN m ELSE End([m EXCEPT !.db.kv = kv])
           S    == m.db.leases \ {l}
           left == [x \in DOMAIN m.leaseMap \ {l} |->
                        m.leaseMap[x] \ {k \in keys : m.itemMap[k] = x}]
           item == [k \in Key |-> IF k \in keys THEN NoLease ELSE m.itemMap[k]]
           b    == [e.db EXCEPT !.leases = S]
           r    == [e EXCEPT !.db = b, !.leaseMap = left, !.itemMap = item]
           c    == IF keys = {} THEN DataOf(m.db) ELSE Written(DataOf(m.db), kv)
<1>1. /\ m \in ServerOf(n) /\ m.db \in DatabaseOf(n) /\ Agree(m)
      /\ DOMAIN m.leaseMap = m.db.leases /\ m.db.leases \subseteq Lease /\ m.db.rev \in Nat
      /\ m.leaseMap \in [m.db.leases -> SUBSET Key]
      /\ m.itemMap \in [Key -> Lease \cup {NoLease}]
      /\ m.db.kv \in [Key -> Lease \cup {NoLease, Absent}]
    BY DEF Good, Agree, ServerOf, DatabaseOf
<1>2. /\ DataOf(m.db).kv = m.db.kv /\ DataOf(m.db).leases = m.db.leases
    BY DEF DataOf
<1>3. CASE ~Has(m, l)
    <2>1. Revoke(m, l) = m /\ l \notin m.db.leases
        BY <1>1, <1>3 DEF Revoke, Has
    <2> QED
        BY <1>2, <2>1, NothingDone DEF Revokes
<1>4. CASE Has(m, l)
    <2>1. l \in m.db.leases /\ keys = {k \in Key : m.db.kv[k] = l}
        BY <1>1, <1>4 DEF Has, Agree
    <2>2. kv \in [Key -> Lease \cup {NoLease, Absent}]
        BY <1>1
    <2>3. LeaseKeys(DataOf(m.db), l) = keys /\ Without(DataOf(m.db), keys) = kv
        BY <1>2, <2>1 DEF LeaseKeys, Without
    <2>4. Revokes(DataOf(m.db), l) = [c EXCEPT !.leases = S]
        BY <1>2, <2>1, <2>3 DEF Revokes
    <2>5. /\ DataOf(e.db) = c /\ e \in ServerOf(n) /\ e.db \in DatabaseOf(n)
          /\ e.db.consistentIndex = IF e.db.rev = m.db.rev THEN m.db.consistentIndex
                                    ELSE m.consistIndex
          /\ e.db.alarms = m.db.alarms /\ e.applier = m.applier
          /\ e.applied = m.applied /\ e.consistIndex = m.consistIndex
        <3>1. CASE keys = {}
            BY <1>1, <3>1
        <3>2. CASE keys # {}
            <4> HIDE DEF kv, keys
            <4>1. e = End([m EXCEPT !.db.kv = kv])
                BY <3>2
            <4> HIDE DEF e
            <4>2. /\ DataOf(e.db) = Written(DataOf(m.db), kv)
                  /\ e.db.consistentIndex = m.consistIndex /\ e.db.rev = m.db.rev + 1
                  /\ e.db.alarms = m.db.alarms
                  /\ e.applied = m.applied /\ e.consistIndex = m.consistIndex
                  /\ e.applier = m.applier
                BY <1>1, <2>2, <4>1, EndSaves
            <4>3. e \in ServerOf(n)
                BY <1>1, <2>2, <4>1, EndEffect
            <4>4. e.db.rev # m.db.rev
                BY <1>1, <4>2
            <4> QED
                BY <3>2, <4>2, <4>3, <4>4 DEF ServerOf
        <3> QED
            BY <3>1, <3>2
    <2>6. Revoke(m, l) = r
        <3> HIDE DEF keys, kv
        <3>1. Has(m, l)
            BY <1>4
        <3>2. e.db.leases = m.db.leases /\ e.leaseMap = m.leaseMap /\ e.itemMap = m.itemMap
            BY <1>1, <2>2, EndEffect
        <3> QED
            BY <1>1, <2>5, <3>1, <3>2 DEF Revoke, keys, kv
    <2> HIDE DEF keys, kv, e, S, left, item, c
    <2>7. /\ b.kv = e.db.kv /\ b.leases = S /\ b.rev = e.db.rev /\ b.alarms = e.db.alarms
          /\ b.consistentIndex = e.db.consistentIndex
        BY <2>5 DEF DatabaseOf
    <2> HIDE DEF b
    <2>8. /\ r.db = b /\ r.applied = e.applied /\ r.consistIndex = e.consistIndex
          /\ r.applier = e.applier
        BY <2>5 DEF ServerOf
    <2> HIDE DEF r
    <2>9. DataOf(b) = [DataOf(e.db) EXCEPT !.leases = S]
        BY <2>7 DEF DataOf
    <2>10. Kept(m, r)
        BY <2>5, <2>7, <2>8 DEF Kept, Tidy
    <2> QED
        BY <2>4, <2>5, <2>6, <2>8, <2>9, <2>10
<1> QED
    BY <1>3, <1>4

LEMMA AlarmDid ==
    ASSUME NEW n \in Nat, NEW m, Good(m, n), Tidy(m), OneAlarm, NEW a \in Alarm
    PROVE  /\ DataOf(Activate(m, a).db) = [DataOf(m.db) EXCEPT !.alarms = m.db.alarms \cup {a}]
           /\ DataOf(Deactivate(m, a).db) = [DataOf(m.db) EXCEPT !.alarms = m.db.alarms \ {a}]
           /\ Kept(m, Activate(m, a)) /\ Kept(m, Deactivate(m, a))
<1>1. m \in ServerOf(n) /\ m.db \in DatabaseOf(n) /\ m.db.alarms \subseteq Alarm
    BY DEF Good, ServerOf, DatabaseOf
<1>2. ASSUME NEW A \in SUBSET Alarm
      PROVE  /\ DataOf([m EXCEPT !.db.alarms = A, !.applier = A].db) =
                    [DataOf(m.db) EXCEPT !.alarms = A]
             /\ Kept(m, [m EXCEPT !.db.alarms = A, !.applier = A])
    <2> DEFINE b == [m.db EXCEPT !.alarms = A]
               r == [m EXCEPT !.db = b, !.applier = A]
    <2>1. /\ b.kv = m.db.kv /\ b.leases = m.db.leases /\ b.rev = m.db.rev /\ b.alarms = A
          /\ b.consistentIndex = m.db.consistentIndex
        BY <1>1 DEF DatabaseOf
    <2>2. [m EXCEPT !.db.alarms = A, !.applier = A] = r
        BY <1>1 DEF ServerOf
    <2> HIDE DEF b
    <2>3. /\ r.db = b /\ r.applied = m.applied /\ r.consistIndex = m.consistIndex
          /\ r.applier = A
        BY <1>1 DEF ServerOf
    <2> HIDE DEF r
    <2>4. DataOf(b) = [DataOf(m.db) EXCEPT !.alarms = A]
        BY <2>1 DEF DataOf
    <2>5. Kept(m, r)
        BY <2>1, <2>3 DEF Kept, Tidy
    <2> QED
        BY <2>2, <2>3, <2>4, <2>5
<1>3. [DataOf(m.db) EXCEPT !.alarms = m.db.alarms] = DataOf(m.db)
    BY DEF DataOf
<1>4. m.db.alarms \subseteq {a}
    BY <1>1 DEF OneAlarm
<1>5. CASE a \in m.db.alarms
    <2>1. Activate(m, a) = m /\ m.db.alarms \cup {a} = m.db.alarms
        BY <1>5 DEF Activate
    <2>2. m.db.alarms \ {a} = {}
        BY <1>4
    <2>3. Deactivate(m, a) = [m EXCEPT !.db.alarms = {}, !.applier = {}]
        BY <1>5, <2>2 DEF Deactivate
    <2>4. {} \in SUBSET Alarm
        OBVIOUS
    <2> QED
        BY <1>2, <1>3, <2>1, <2>2, <2>3, <2>4, NothingDone
<1>6. CASE a \notin m.db.alarms
    <2>1. Deactivate(m, a) = m /\ m.db.alarms \ {a} = m.db.alarms
        BY <1>6 DEF Deactivate
    <2>2. m.db.alarms \cup {a} = {a}
        BY <1>4
    <2>3. Activate(m, a) = [m EXCEPT !.db.alarms = {a}, !.applier = {a}]
        BY <1>6, <2>2 DEF Activate
    <2>4. {a} \in SUBSET Alarm
        OBVIOUS
    <2> QED
        BY <1>2, <1>3, <2>1, <2>2, <2>3, <2>4, NothingDone
<1> QED
    BY <1>5, <1>6

\* A request does to a tidy server what it does to the data.
LEMMA ApplyDid ==
    ASSUME NEW n \in Nat, NEW m, Good(m, n), Tidy(m), OneAlarm, NEW r \in Request
    PROVE  DataOf(Apply(m, r).db) = Effect(DataOf(m.db), r) /\ Kept(m, Apply(m, r))
<1>1. DataOf(m.db).alarms = m.db.alarms /\ (Refuses(m, r) <=> Forbids(DataOf(m.db).alarms, r))
    BY DEF DataOf, Refuses, Forbids, Tidy
<1>2. CASE Refuses(m, r)
    BY <1>1, <1>2, NothingDone DEF Apply, Effect
<1>3. CASE ~Refuses(m, r)
    <2>1. CASE r.type = "put"
        <3>1. r.key \in Key /\ r.lease \in Lease \cup {NoLease}
            BY <2>1 DEF Request
        <3>2. Apply(m, r) = Put(m, r.key, r.lease)
              /\ Effect(DataOf(m.db), r) = Puts(DataOf(m.db), r.key, r.lease)
            BY <1>1, <1>3, <2>1 DEF Apply, Effect
        <3> QED
            BY <3>1, <3>2, PutDid
    <2>2. CASE r.type = "create"
        <3>1. r.key \in Key /\ r.lease \in Lease \cup {NoLease}
            BY <2>2 DEF Request
        <3>2. Apply(m, r) = Create(m, r.key, r.lease)
              /\ Effect(DataOf(m.db), r) = Creates(DataOf(m.db), r.key, r.lease)
            BY <1>1, <1>3, <2>2 DEF Apply, Effect
        <3> QED
            BY <3>1, <3>2, CreateDid
    <2>3. CASE r.type = "delete"
        <3>1. r.key \in Key
            BY <2>3 DEF Request
        <3>2. Apply(m, r) = Delete(m, r.key)
              /\ Effect(DataOf(m.db), r) = Deletes(DataOf(m.db), r.key)
            BY <1>1, <1>3, <2>3 DEF Apply, Effect
        <3> QED
            BY <3>1, <3>2, DeleteDid
    <2>4. CASE r.type = "grant"
        <3>1. r.lease \in Lease
            BY <2>4 DEF Request
        <3>2. Apply(m, r) = Grant(m, r.lease)
              /\ Effect(DataOf(m.db), r) = Grants(DataOf(m.db), r.lease)
            BY <1>1, <1>3, <2>4 DEF Apply, Effect
        <3> QED
            BY <3>1, <3>2, GrantDid
    <2>5. CASE r.type = "revoke"
        <3>1. r.lease \in Lease
            BY <2>5 DEF Request
        <3>2. Apply(m, r) = Revoke(m, r.lease)
              /\ Effect(DataOf(m.db), r) = Revokes(DataOf(m.db), r.lease)
            BY <1>1, <1>3, <2>5 DEF Apply, Effect
        <3> QED
            BY <3>1, <3>2, RevokeDid
    <2>6. CASE r.type = "activate"
        <3>1. r.alarm \in Alarm
            BY <2>6 DEF Request
        <3>2. Apply(m, r) = Activate(m, r.alarm)
              /\ Effect(DataOf(m.db), r) =
                    [DataOf(m.db) EXCEPT !.alarms = m.db.alarms \cup {r.alarm}]
            BY <1>1, <1>3, <2>6 DEF Apply, Effect
        <3>3. /\ DataOf(Activate(m, r.alarm).db) = [DataOf(m.db) EXCEPT !.alarms = m.db.alarms \cup {r.alarm}]
              /\ Kept(m, Activate(m, r.alarm))
            BY <3>1, AlarmDid, Zenon
        <3> QED
            BY <3>2, <3>3, Zenon
    <2>7. CASE r.type = "deactivate"
        <3>1. r.alarm \in Alarm
            BY <2>7 DEF Request
        <3>2. Apply(m, r) = Deactivate(m, r.alarm)
              /\ Effect(DataOf(m.db), r) =
                    [DataOf(m.db) EXCEPT !.alarms = m.db.alarms \ {r.alarm}]
            BY <1>1, <1>3, <2>7 DEF Apply, Effect
        <3>3. /\ DataOf(Deactivate(m, r.alarm).db) = [DataOf(m.db) EXCEPT !.alarms = m.db.alarms \ {r.alarm}]
              /\ Kept(m, Deactivate(m, r.alarm))
            BY <3>1, AlarmDid, Zenon
        <3> QED
            BY <3>2, <3>3, Zenon
    <2>8. CASE r.type = "other"
        <3>1. Apply(m, r) = m /\ Effect(DataOf(m.db), r) = DataOf(m.db)
            BY <1>1, <1>3, <2>8 DEF Apply, Effect
        <3> QED
            BY <3>1, NothingDone
    <2> QED
        BY <2>1, <2>2, <2>3, <2>4, <2>5, <2>6, <2>7, <2>8 DEF Request
<1> QED
    BY <1>2, <1>3

\* An entry that is new to the member is applied, and one it has already is counted.
LEMMA EntryDid ==
    ASSUME NEW n \in Nat, NEW m, Good(m, n), Tidy(m), OneAlarm, NEW r \in Request,
           m.applied < n, m.applied <= m.consistIndex,
           NEW e, e = applyEntryNormal(m, r)
    PROVE  /\ Tidy(e) /\ e.applied = m.applied + 1
           /\ m.applied < m.consistIndex =>
                e.db = m.db /\ e.consistIndex = m.consistIndex
           /\ m.applied = m.consistIndex =>
                /\ DataOf(e.db) = Effect(DataOf(m.db), r)
                /\ e.consistIndex = m.applied + 1
                /\ e.db.consistentIndex =
                        IF e.db.rev = m.db.rev THEN m.db.consistentIndex ELSE m.applied + 1
<1> DEFINE i     == m.applied + 1
           next  == [m EXCEPT !.applied = i]
           index == [next EXCEPT !.consistIndex = next.applied]
<1>1. /\ m \in ServerOf(n) /\ i \in 0..n /\ m.applied \in 0..n /\ m.consistIndex \in 0..n
    BY DEF Good, ServerOf
<1>i. i = m.applied + 1
    OBVIOUS
<1>e. e = IF m.applied < m.consistIndex THEN next ELSE Apply(index, r)
    BY DEF applyEntryNormal
<1> HIDE DEF i
<1>2. /\ next \in ServerOf(n) /\ next.applied = i /\ next.consistIndex = m.consistIndex
      /\ next.db = m.db /\ next.leaseMap = m.leaseMap /\ next.itemMap = m.itemMap
      /\ next.applier = m.applier
    BY <1>1 DEF ServerOf
<1> HIDE DEF next
<1>3. /\ index \in ServerOf(n) /\ index.applied = i /\ index.consistIndex = i
      /\ index.db = m.db /\ index.leaseMap = m.leaseMap /\ index.itemMap = m.itemMap
      /\ index.applier = m.applier
    BY <1>1, <1>2 DEF ServerOf
<1> HIDE DEF index
<1>4. CASE m.applied < m.consistIndex
    BY <1>1, <1>2, <1>4, <1>e, <1>i DEF Tidy
<1>5. CASE m.applied = m.consistIndex
    <2>1. Good(index, n) /\ Tidy(index)
        BY <1>3 DEF Good, Agree, Tidy
    <2>2. e = Apply(index, r)
        BY <1>1, <1>5, <1>e
    <2>3. DataOf(e.db) = Effect(DataOf(index.db), r) /\ Kept(index, e)
        BY <2>1, <2>2, ApplyDid
    <2> QED
        BY <1>1, <1>3, <1>5, <1>i, <2>3 DEF Kept
<1> QED
    BY <1>1, <1>4, <1>5

\* What a request can change: keys only with the revision, and alarms and leases only
\* as it says.
Grown(d, r, e) ==
    /\ e.rev = d.rev \/ e.rev = d.rev + 1
    /\ e.rev = d.rev => e.kv = d.kv
    /\ d.alarms \subseteq e.alarms
    /\ \A l \in e.leases : l \in d.leases \/ (r.type = "grant" /\ r.lease = l)

\* Every request but the end of an alarm keeps to that.
LEMMA EffectSteps ==
    ASSUME NEW d \in Data, NEW r \in Request, r.type # "deactivate",
           NEW e, e = Effect(d, r)
    PROVE  Grown(d, r, e)
<1> USE DEF Grown
<1>1. d.rev \in Nat /\ d.rev + 1 # d.rev
    BY DEF Data
<1>2. CASE e = d
    BY <1>2
<1>w. ASSUME NEW kv, e = Written(d, kv) PROVE e.rev = d.rev + 1 /\ e.alarms = d.alarms /\ e.leases = d.leases
    BY <1>w DEF Written
<1>3. CASE \E kv : e = Written(d, kv)
    BY <1>1, <1>3, <1>w
<1>p. ASSUME NEW k, NEW l, e = Puts(d, k, l) PROVE e = d \/ \E kv : e = Written(d, kv)
    BY <1>p DEF Puts
<1>4. CASE ~Forbids(d.alarms, r) /\ r.type \in {"put", "create", "delete"}
    <2>1. CASE r.type = "put"
        BY <1>4, <2>1, <1>2, <1>3, <1>p DEF Effect
    <2>2. CASE r.type = "create"
        BY <1>4, <2>2, <1>2, <1>3, <1>p DEF Effect, Creates
    <2>3. CASE r.type = "delete"
        BY <1>4, <2>3, <1>2, <1>3 DEF Effect, Deletes
    <2> QED
        BY <1>4, <2>1, <2>2, <2>3
<1>5. CASE ~Forbids(d.alarms, r) /\ r.type = "grant"
    <2>1. e = [d EXCEPT !.leases = d.leases \cup {r.lease}]
        BY <1>5 DEF Effect, Grants
    <2> QED
        BY <1>1, <1>5, <2>1 DEF Data
<1>6. CASE ~Forbids(d.alarms, r) /\ r.type = "revoke"
    <2> DEFINE l == r.lease
               c == IF LeaseKeys(d, l) = {} THEN d ELSE Written(d, Without(d, LeaseKeys(d, l)))
    <2>1. e = d \/ e = [c EXCEPT !.leases = d.leases \ {l}]
        BY <1>6 DEF Effect, Revokes
    <2>2. c = d \/ /\ c.rev = d.rev + 1 /\ c.alarms = d.alarms /\ c.leases = d.leases
                   /\ c = [kv |-> c.kv, rev |-> c.rev, leases |-> c.leases, alarms |-> c.alarms]
        BY DEF Written
    <2> HIDE DEF c
    <2>3. CASE e = [c EXCEPT !.leases = d.leases \ {l}]
        <3>1. e.rev = c.rev /\ e.alarms = c.alarms /\ e.kv = c.kv /\ e.leases = d.leases \ {l}
            BY <2>2, <2>3 DEF Data
        <3> QED
            BY <1>1, <2>2, <3>1
    <2> QED
        BY <1>2, <2>1, <2>3
<1>7. CASE ~Forbids(d.alarms, r) /\ r.type = "activate"
    <2>1. e = [d EXCEPT !.alarms = d.alarms \cup {r.alarm}]
        BY <1>7 DEF Effect
    <2> QED
        BY <1>1, <2>1 DEF Data
<1>8. CASE Forbids(d.alarms, r) \/ r.type = "other"
    BY <1>2, <1>8 DEF Effect
<1> QED
    BY <1>4, <1>5, <1>6, <1>7, <1>8 DEF Request

\* No key of the data has a lease that is not there.
DataSound(d) == \A k \in Key : d.kv[k] \in Lease => d.kv[k] \in d.leases

\* Data h and g before and after an entry that changed no keys, data q later than both,
\* and data d that has the keys and alarms of q, and its leases and some that q has
\* not any more.
Settled(h, g, q, d) ==
    /\ g.rev = h.rev /\ h.kv = q.kv
    /\ h.alarms \subseteq q.alarms /\ g.alarms \subseteq q.alarms
    /\ d.kv = q.kv /\ d.rev = q.rev /\ d.alarms = q.alarms
    /\ q.leases \subseteq d.leases
    /\ d.leases # q.leases => q.alarms = {}

\* Data e that the entry makes of d: still the keys and alarms of q, and leases more
\* that only entries to come take away.
StillSettled(h, g, q, d, e) ==
    /\ e.kv = d.kv /\ e.rev = d.rev /\ e.alarms = d.alarms
    /\ q.leases \subseteq e.leases
    /\ \A l \in e.leases \ q.leases :
          /\ q.alarms = {}
          /\ l \in g.leases \/ (l \in d.leases /\ l \notin h.leases)

\* An entry that changed no keys when it was first applied changes none when it is
\* applied again.
LEMMA AppliedAgain ==
    ASSUME NEW h \in Data, NEW d \in Data, NEW q \in Data, NEW r \in Request,
           r.type # "deactivate",
           NEW g, g = Effect(h, r), Settled(h, g, q, d), DataSound(q),
           r.type \in {"put", "create"} /\ r.lease # NoLease /\ r.lease \notin h.leases =>
                r.lease \notin d.leases,
           r.type = "revoke" /\ r.lease \notin g.leases => r.lease \notin q.leases,
           NEW e, e = Effect(d, r)
    PROVE  e \in Data /\ StillSettled(h, g, q, d, e)
<1> USE DEF Settled, StillSettled
<1>1. /\ h.rev \in Nat /\ h.rev + 1 # h.rev /\ d.rev \in Nat /\ q.alarms \subseteq Alarm
      /\ h.leases \subseteq Lease /\ d.leases \subseteq Lease
    BY DEF Data
<1>2. ASSUME e = d, h.leases = g.leases \/ d.leases = q.leases
      PROVE  e \in Data /\ StillSettled(h, g, q, d, e)
    BY <1>2
<1>3. CASE Forbids(q.alarms, r)
    <2>1. q.alarms # {} /\ e = d
        BY <1>3 DEF Forbids, Effect
    <2> QED
        BY <1>2, <2>1
<1>4. ASSUME ~Forbids(q.alarms, r) PROVE ~Forbids(h.alarms, r) /\ ~Forbids(d.alarms, r)
    BY <1>4 DEF Forbids
<1>p. ASSUME g = Puts(h, r.key, r.lease), r.type \in {"put", "create"},
             e = Puts(d, r.key, r.lease)
      PROVE  e = d /\ g = h
    <2>1. r.lease # NoLease /\ r.lease \notin h.leases
        BY <1>1, <1>p DEF Puts, Written
    <2> QED
        BY <1>p, <2>1 DEF Puts
<1>5. CASE ~Forbids(q.alarms, r) /\ r.type = "put"
    BY <1>2, <1>4, <1>5, <1>p DEF Effect
<1>6. CASE ~Forbids(q.alarms, r) /\ r.type = "create"
    BY <1>2, <1>4, <1>6, <1>p DEF Effect, Creates
<1>7. CASE ~Forbids(q.alarms, r) /\ r.type = "delete"
    <2>1. g = Deletes(h, r.key) /\ e = Deletes(d, r.key)
        BY <1>4, <1>7 DEF Effect
    <2>2. h.kv[r.key] = Absent
        BY <1>1, <2>1 DEF Deletes, Written
    <2> QED
        BY <1>2, <2>1, <2>2 DEF Deletes
<1>8. CASE ~Forbids(q.alarms, r) /\ r.type = "grant"
    <2>1. q.alarms = {}
        BY <1>1, <1>8 DEF Forbids
    <2>2. /\ g = [h EXCEPT !.leases = h.leases \cup {r.lease}]
          /\ e = [d EXCEPT !.leases = d.leases \cup {r.lease}]
        BY <1>4, <1>8 DEF Effect, Grants
    <2>3. g.leases = h.leases \cup {r.lease} /\ e.leases = d.leases \cup {r.lease}
          /\ e.kv = d.kv /\ e.rev = d.rev /\ e.alarms = d.alarms
        BY <2>2 DEF Data
    <2>4. e \in Data
        <3>1. r.lease \in Lease
            BY <1>8 DEF Request
        <3> QED
            BY <2>2, <3>1 DEF Data
    <2> QED
        BY <2>1, <2>3, <2>4
<1>9. CASE ~Forbids(q.alarms, r) /\ r.type = "revoke"
    <2> DEFINE l == r.lease
    <2>1. g = Revokes(h, l) /\ e = Revokes(d, l)
        BY <1>4, <1>9 DEF Effect
    <2>2. l \in Lease
        BY <1>9 DEF Request
    <2> HIDE DEF l
    <2>3. l \notin g.leases /\ h.leases \ {l} \subseteq g.leases
        <3>1. CASE l \notin h.leases
            BY <2>1, <3>1 DEF Revokes
        <3>2. CASE l \in h.leases /\ LeaseKeys(h, l) = {}
            <4>1. g = [h EXCEPT !.leases = h.leases \ {l}]
                BY <2>1, <3>2 DEF Revokes
            <4> QED
                BY <4>1 DEF Data
        <3>3. CASE l \in h.leases /\ LeaseKeys(h, l) # {}
            <4>1. g = [Written(h, Without(h, LeaseKeys(h, l))) EXCEPT !.leases = h.leases \ {l}]
                BY <2>1, <3>3 DEF Revokes
            <4>2. g.rev = h.rev + 1
                BY <4>1 DEF Written
            <4> QED
                BY <1>1, <4>2
        <3> QED
            BY <3>1, <3>2, <3>3
    <2>4. l \notin q.leases
        BY <1>9, <2>3 DEF l
    <2>5. LeaseKeys(d, l) = {}
        BY <2>2, <2>4 DEF LeaseKeys, DataSound
    <2>6. CASE l \notin d.leases
        <3>1. e = d
            BY <2>1, <2>6 DEF Revokes
        <3> QED
            BY <2>3, <2>6, <3>1
    <2>7. CASE l \in d.leases
        <3>1. e = [d EXCEPT !.leases = d.leases \ {l}]
            BY <2>1, <2>5, <2>7 DEF Revokes
        <3>2. e.leases = d.leases \ {l} /\ e.kv = d.kv /\ e.rev = d.rev /\ e.alarms = d.alarms
              /\ e \in Data
            BY <3>1 DEF Data
        <3> QED
            BY <2>3, <2>4, <3>2
    <2> QED
        BY <2>6, <2>7
<1>10. CASE ~Forbids(q.alarms, r) /\ r.type = "activate"
    <2>1. /\ g = [h EXCEPT !.alarms = h.alarms \cup {r.alarm}]
          /\ e = [d EXCEPT !.alarms = d.alarms \cup {r.alarm}]
        BY <1>4, <1>10 DEF Effect
    <2>2. r.alarm \in g.alarms /\ g.leases = h.leases
        BY <2>1 DEF Data
    <2>3. d.alarms \cup {r.alarm} = d.alarms
        BY <2>2
    <2>4. e = d
        BY <2>1, <2>3 DEF Data
    <2> QED
        BY <1>2, <2>2, <2>4
<1>11. CASE ~Forbids(q.alarms, r) /\ r.type = "other"
    BY <1>2, <1>4, <1>11 DEF Effect
<1> QED
    BY <1>3, <1>5, <1>6, <1>7, <1>8, <1>9, <1>10, <1>11 DEF Request

-----------------------------------------------------------------------------
(* The history: the data after each entry *)

\* Lease l is granted by one of the first i entries of L.
GrantedBy(L, l, i) == \E g \in 1..i : L[g].type = "grant" /\ L[g].lease = l

\* Request r after the first i entries of L: leases are used after their grant and
\* granted once, alarms stay.
FreshAfter(L, i, r) ==
    /\ r.type # "deactivate"
    /\ r.type \in {"put", "create"} => r.lease = NoLease \/ GrantedBy(L, r.lease, i)
    /\ r.type = "grant" => ~GrantedBy(L, r.lease, i)
    /\ r.type = "revoke" => GrantedBy(L, r.lease, i)

\* H is the data after each entry of L.
Follows(L, H) ==
    /\ \A i \in 0..Len(L) : H[i] \in Data /\ DataSound(H[i])
    /\ \A i \in 0..(Len(L) - 1) : H[i + 1] = Effect(H[i], L[i + 1]) /\ FreshAfter(L, i, L[i + 1])

\* What holds of the data before and after: the revision counts the changes of the
\* keys, and a lease that is gone does not come back.
Lasts(L, H) ==
    \A i, k \in 0..Len(L) : i <= k =>
        /\ H[i].rev <= H[k].rev
        /\ H[i].rev = H[k].rev => H[i].kv = H[k].kv
        /\ H[i].alarms \subseteq H[k].alarms
        /\ \A l : l \notin H[i].leases /\ GrantedBy(L, l, i) => l \notin H[k].leases

\* Data d of a server that has index ci in its database and has applied the entries to
\* i, where the database had them to p: d is the data after p, with leases that the
\* entries to p revoke again; between ci and p no keys change.
Lag(H, d, ci, i, p) ==
    /\ ci <= i /\ i <= p
    /\ d.kv = H[p].kv /\ d.rev = H[p].rev /\ d.alarms = H[p].alarms
    /\ H[ci].rev = H[p].rev
    /\ H[p].leases \subseteq d.leases
    /\ \A l \in d.leases \ H[p].leases :
          H[p].alarms = {} /\ \E j \in i..p : l \in H[j].leases

\* The data of a server that is behind nothing.
LEMMA NoLag ==
    ASSUME NEW H, NEW d \in Data, NEW ci, NEW i \in Nat, Lag(H, d, ci, i, i), H[i] \in Data
    PROVE  d = H[i]
<1>1. \A j \in i..i : j = i
    OBVIOUS
<1>2. H[i].leases \subseteq d.leases
    BY DEF Lag
<1>3. \A l \in d.leases \ H[i].leases : \E j \in i..i : l \in H[j].leases
    BY DEF Lag
<1>4. d.leases = H[i].leases
    BY <1>1, <1>2, <1>3
<1>5. d.kv = H[i].kv /\ d.rev = H[i].rev /\ d.alarms = H[i].alarms
    BY DEF Lag
<1> QED
    BY <1>4, <1>5 DEF Data

\* The database is behind from its own index on.
LEMMA LagFromIndex ==
    ASSUME NEW H, NEW d, NEW n \in Nat, NEW ci \in 0..n, NEW i \in 0..n, NEW p \in 0..n,
           Lag(H, d, ci, i, p)
    PROVE  Lag(H, d, ci, ci, p)
<1>1. i..p \subseteq ci..p
    BY DEF Lag
<1> QED
    BY <1>1 DEF Lag

\* A snapshot saves the index as far as the entries are applied.
LEMMA LagFromApplied ==
    ASSUME NEW L \in Seq(Request), NEW H, NEW d, NEW ci \in 0..Len(L),
           NEW i \in 0..Len(L), NEW p \in 0..Len(L),
           Follows(L, H), Lasts(L, H), Lag(H, d, ci, i, p)
    PROVE  Lag(H, d, i, i, p)
<1>1. H[ci].rev \in Nat /\ H[i].rev \in Nat /\ H[p].rev \in Nat
    BY DEF Follows, Data
<1>2. H[ci].rev <= H[i].rev /\ H[i].rev <= H[p].rev /\ H[ci].rev = H[p].rev
    BY DEF Lasts, Lag
<1>3. H[i].rev = H[p].rev
    BY <1>1, <1>2
<1> QED
    BY <1>3 DEF Lag

\* The log L and its history H, with request r and the data e it makes.
Longer(L, H, r, e, L2, H2) ==
    /\ L2 \in Seq(Request) /\ Len(L2) = Len(L) + 1 /\ L2[Len(L) + 1] = r
    /\ H2 \in [Nat -> Data] /\ H2[Len(L) + 1] = e
    /\ \A i \in 0..Len(L) : H2[i] = H[i]
    /\ Follows(L2, H2) /\ Lasts(L2, H2)

\* The history goes on as the entries do.
LEMMA HistoryGrows ==
    ASSUME NEW L \in Seq(Request), NEW H \in [Nat -> Data], Follows(L, H), Lasts(L, H),
           NEW r \in Request, FreshAfter(L, Len(L), r),
           NEW e \in Data, e = Effect(H[Len(L)], r), DataSound(e),
           NEW L2, L2 = Append(L, r),
           NEW H2, H2 = [H EXCEPT ![Len(L) + 1] = e]
    PROVE  Longer(L, H, r, e, L2, H2)
<1> DEFINE n == Len(L)
<1>1. /\ L2 \in Seq(Request) /\ Len(L2) = n + 1 /\ L2[n + 1] = r /\ n \in Nat
      /\ \A i \in 1..n : L2[i] = L[i]
    OBVIOUS
<1>2. /\ H2 \in [Nat -> Data] /\ H2[n + 1] = e /\ \A i \in 0..n : H2[i] = H[i]
    BY <1>1
<1>e. e = Effect(H[n], r)
    OBVIOUS
<1>f. FreshAfter(L, n, r)
    OBVIOUS
<1> HIDE DEF n
<1>3. \A l, i : i \in 0..n => (GrantedBy(L2, l, i) <=> GrantedBy(L, l, i))
    BY <1>1 DEF GrantedBy
<1>4. Follows(L2, H2)
    <2>1. \A i \in 0..(n + 1) : H2[i] \in Data /\ DataSound(H2[i])
        <3>1. \A i \in 0..n : DataSound(H[i])
            BY <1>1 DEF Follows, n
        <3>2. \A i \in 0..(n + 1) : i \in 0..n \/ i = n + 1
            BY <1>1
        <3> QED
            BY <1>1, <1>2, <3>1, <3>2
    <2>2. ASSUME NEW i \in 0..n
          PROVE  H2[i + 1] = Effect(H2[i], L2[i + 1]) /\ FreshAfter(L2, i, L2[i + 1])
        <3>1. CASE i = n
            <4>1. FreshAfter(L2, n, r)
                BY <1>1, <1>3, <1>f DEF FreshAfter
            <4> QED
                BY <1>1, <1>2, <1>e, <3>1, <4>1
        <3>2. CASE i # n
            <4>1. i \in 0..(n - 1) /\ i + 1 \in 1..n /\ i + 1 \in 0..n /\ i \in 0..n
                BY <1>1, <3>2
            <4>2. H[i + 1] = Effect(H[i], L[i + 1]) /\ FreshAfter(L, i, L[i + 1])
                BY <4>1 DEF Follows, n
            <4>3. H2[i + 1] = H[i + 1] /\ H2[i] = H[i] /\ L2[i + 1] = L[i + 1]
                BY <1>1, <1>2, <4>1
            <4>4. FreshAfter(L2, i, L2[i + 1])
                BY <1>3, <4>1, <4>2, <4>3 DEF FreshAfter
            <4> QED
                BY <4>2, <4>3, <4>4
        <3> QED
            BY <3>1, <3>2
    <2>3. (n + 1) - 1 = n
        BY <1>1
    <2> QED
        BY <1>1, <2>1, <2>2, <2>3 DEF Follows
<1>5. /\ e.rev = H[n].rev \/ e.rev = H[n].rev + 1
      /\ e.rev = H[n].rev => e.kv = H[n].kv
      /\ H[n].alarms \subseteq e.alarms
      /\ \A l \in e.leases : l \in H[n].leases \/ (r.type = "grant" /\ r.lease = l)
    <2>1. H[n] \in Data /\ r.type # "deactivate"
        BY <1>1, <1>f DEF FreshAfter
    <2>2. Grown(H[n], r, e)
        BY <1>e, <2>1, EffectSteps
    <2> QED
        BY <2>2 DEF Grown
<1>6. ASSUME NEW i \in 0..n
      PROVE  /\ H[i].rev <= e.rev
             /\ H[i].rev = e.rev => H[i].kv = e.kv
             /\ H[i].alarms \subseteq e.alarms
             /\ \A l : l \notin H[i].leases /\ GrantedBy(L, l, i) => l \notin e.leases
    <2>1. /\ H[i].rev <= H[n].rev
          /\ H[i].rev = H[n].rev => H[i].kv = H[n].kv
          /\ H[i].alarms \subseteq H[n].alarms
          /\ \A l : l \notin H[i].leases /\ GrantedBy(L, l, i) => l \notin H[n].leases
        BY <1>1 DEF Lasts, n
    <2>2. H[i].rev \in Nat /\ H[n].rev \in Nat /\ e.rev \in Nat
        <3>1. H[i] \in Data /\ H[n] \in Data
            BY <1>1
        <3> QED
            BY <3>1 DEF Data
    <2>3. \A l : GrantedBy(L, l, i) => GrantedBy(L, l, n)
        BY <1>1 DEF GrantedBy
    <2>4. r.type = "grant" => ~GrantedBy(L, r.lease, n)
        BY <1>f DEF FreshAfter
    <2>5. /\ H[i].rev <= e.rev
          /\ H[i].rev = e.rev => H[i].rev = H[n].rev /\ e.rev = H[n].rev
        BY <1>5, <2>1, <2>2
    <2>6. \A l : l \notin H[i].leases /\ GrantedBy(L, l, i) => l \notin e.leases
        BY <1>5, <2>1, <2>3, <2>4
    <2> QED
        BY <1>5, <2>1, <2>5, <2>6
<1>7. Lasts(L2, H2)
    <2> DEFINE Good1(i, k) ==
                /\ H2[i].rev <= H2[k].rev
                /\ H2[i].rev = H2[k].rev => H2[i].kv = H2[k].kv
                /\ H2[i].alarms \subseteq H2[k].alarms
                /\ \A l : l \notin H2[i].leases /\ GrantedBy(L2, l, i) => l \notin H2[k].leases
    <2>1. ASSUME NEW i \in 0..n, NEW k \in 0..n, i <= k PROVE Good1(i, k)
        <3>1. /\ H[i].rev <= H[k].rev
              /\ H[i].rev = H[k].rev => H[i].kv = H[k].kv
              /\ H[i].alarms \subseteq H[k].alarms
              /\ \A l : l \notin H[i].leases /\ GrantedBy(L, l, i) => l \notin H[k].leases
            BY <2>1 DEF Lasts, n
        <3> QED
            BY <1>2, <1>3, <3>1
    <2>2. ASSUME NEW i \in 0..n PROVE Good1(i, n + 1)
        BY <1>2, <1>3, <1>6
    <2>3. Good1(n + 1, n + 1)
        BY <1>1, <1>2 DEF Data
    <2>4. ASSUME NEW i \in 0..(n + 1), NEW k \in 0..(n + 1), i <= k PROVE Good1(i, k)
        <3>1. \/ i \in 0..n /\ k \in 0..n
              \/ i \in 0..n /\ k = n + 1
              \/ i = n + 1 /\ k = n + 1
            BY <1>1, <2>4
        <3> HIDE DEF Good1
        <3> QED
            BY <2>1, <2>2, <2>3, <2>4, <3>1
    <2> QED
        BY <1>1, <2>4 DEF Lasts
<1> QED
    BY <1>1, <1>2, <1>4, <1>7 DEF n, Longer

\* What is behind in a history is behind in the longer one.
LEMMA LagLater ==
    ASSUME NEW n \in Nat, NEW H, NEW H2, \A i \in 0..n : H2[i] = H[i],
           NEW d, NEW ci \in 0..n, NEW i \in 0..n, NEW p \in 0..n, Lag(H, d, ci, i, p)
    PROVE  Lag(H2, d, ci, i, p)
<1>1. H2[p] = H[p] /\ H2[ci] = H[ci]
    OBVIOUS
<1>2. \A j \in i..p : H2[j] = H[j]
    OBVIOUS
<1> QED
    BY <1>1, <1>2 DEF Lag

\* A member that applies the next entry, for the first time or again, is behind as far
\* as before or not at all.
LEMMA LagApply ==
    ASSUME NEW L \in Seq(Request), NEW H, Follows(L, H), Lasts(L, H),
           NEW n, n = Len(L), NEW i \in 0..(n - 1), NEW p \in 0..n, NEW ci \in 0..n,
           NEW d \in Data, Lag(H, d, ci, i, p),
           NEW e, e = Effect(d, L[i + 1]),
           NEW c, c = IF e.rev = d.rev THEN ci ELSE i + 1
    PROVE  \E q \in 0..n : Lag(H, e, c, i + 1, q)
<1> DEFINE r == L[i + 1]
<1>1. /\ n \in Nat /\ i \in 0..n /\ i + 1 \in 0..n /\ i + 1 \in 1..n /\ r \in Request
      /\ H[i] \in Data /\ H[i + 1] \in Data /\ H[p] \in Data /\ DataSound(H[p])
      /\ H[i + 1] = Effect(H[i], r) /\ FreshAfter(L, i, r)
      /\ e = Effect(d, r)
    BY DEF Follows
<1> HIDE DEF r
<1>2. CASE i = p
    <2>1. d = H[i]
        BY <1>1, <1>2, NoLag
    <2>2. e = H[i + 1]
        BY <1>1, <2>1
    <2>3. Lag(H, e, c, i + 1, i + 1)
        <3>1. H[c].rev = H[i + 1].rev /\ c <= i + 1
            <4>1. CASE e.rev = d.rev
                BY <1>1, <1>2, <2>1, <2>2, <4>1 DEF Lag
            <4>2. CASE e.rev # d.rev
                BY <1>1, <4>2
            <4> QED
                BY <4>1, <4>2
        <3> QED
            BY <1>1, <2>2, <3>1 DEF Lag
    <2> QED
        BY <1>1, <2>3
<1>3. CASE i # p
    <2>1. i < p /\ i + 1 <= p
        BY <1>1, <1>3 DEF Lag
    <2>2. /\ H[i].rev \in Nat /\ H[i + 1].rev \in Nat /\ H[p].rev \in Nat /\ H[ci].rev \in Nat
        BY <1>1 DEF Follows, Data
    <2>3. /\ H[ci].rev <= H[i].rev /\ H[i].rev <= H[p].rev /\ H[ci].rev = H[p].rev
          /\ H[i].rev <= H[i + 1].rev /\ H[i + 1].rev <= H[p].rev
        <3>1. ci <= i /\ i <= p /\ H[ci].rev = H[p].rev
            BY DEF Lag
        <3>2. ci \in 0..Len(L) /\ i \in 0..Len(L) /\ p \in 0..Len(L) /\ i + 1 \in 0..Len(L)
              /\ i <= i + 1
            BY <1>1
        <3> QED
            BY <2>1, <3>1, <3>2 DEF Lasts
    <2>4. H[i].rev = H[p].rev /\ H[i + 1].rev = H[i].rev
        BY <2>2, <2>3
    <2>5. /\ H[i].kv = H[p].kv
          /\ H[i].alarms \subseteq H[p].alarms /\ H[i + 1].alarms \subseteq H[p].alarms
          /\ \A l : l \notin H[i].leases /\ GrantedBy(L, l, i) => l \notin H[p].leases
          /\ \A l : l \notin H[i + 1].leases /\ GrantedBy(L, l, i + 1) => l \notin H[p].leases
        BY <1>1, <2>1, <2>4 DEF Lasts
    <2>6. \A l, j : l \notin H[i].leases /\ GrantedBy(L, l, i) /\ j \in i..p => l \notin H[j].leases
        BY <1>1 DEF Lasts
    <2>7. /\ d.kv = H[p].kv /\ d.rev = H[p].rev /\ d.alarms = H[p].alarms
          /\ H[ci].rev = H[p].rev /\ H[p].leases \subseteq d.leases /\ ci <= i
          /\ \A l \in d.leases \ H[p].leases :
                H[p].alarms = {} /\ \E j \in i..p : l \in H[j].leases
        BY DEF Lag
    <2>8. d.leases # H[p].leases => H[p].alarms = {}
        BY <2>7
    <2>9. ASSUME r.type \in {"put", "create"}, r.lease # NoLease, r.lease \notin H[i].leases
          PROVE  r.lease \notin d.leases
        <3>1. GrantedBy(L, r.lease, i)
            BY <1>1, <2>9 DEF FreshAfter
        <3> QED
            BY <2>5, <2>6, <2>7, <2>9, <3>1
    <2>10. ASSUME r.type = "revoke", r.lease \notin H[i + 1].leases
           PROVE  r.lease \notin H[p].leases
        <3>1. GrantedBy(L, r.lease, i + 1)
            <4>1. GrantedBy(L, r.lease, i)
                BY <1>1, <2>10 DEF FreshAfter
            <4> QED
                BY <1>1, <4>1 DEF GrantedBy
        <3> QED
            BY <2>5, <2>10, <3>1
    <2>11. r.type # "deactivate"
        BY <1>1 DEF FreshAfter
    <2>12. /\ e \in Data /\ e.kv = d.kv /\ e.rev = d.rev /\ e.alarms = d.alarms
           /\ H[p].leases \subseteq e.leases
           /\ \A l \in e.leases \ H[p].leases :
                /\ H[p].alarms = {}
                /\ l \in H[i + 1].leases \/ (l \in d.leases /\ l \notin H[i].leases)
        <3> DEFINE h == H[i]
                   g == H[i + 1]
                   q == H[p]
        <3>1. /\ h \in Data /\ q \in Data /\ DataSound(q) /\ r \in Request
              /\ g = Effect(h, r) /\ e = Effect(d, r)
            BY <1>1
        <3>2. Settled(h, g, q, d)
            BY <2>4, <2>5, <2>7, <2>8 DEF Settled
        <3>3. r.type \in {"put", "create"} /\ r.lease # NoLease /\ r.lease \notin h.leases =>
                r.lease \notin d.leases
            BY <2>9
        <3>4. r.type = "revoke" /\ r.lease \notin g.leases => r.lease \notin q.leases
            BY <2>10
        <3> HIDE DEF h, g, q
        <3>5. e \in Data /\ StillSettled(h, g, q, d, e)
            BY <2>11, <3>1, <3>2, <3>3, <3>4, AppliedAgain
        <3> QED
            BY <3>5 DEF h, g, q, StillSettled
    <2>13. ASSUME NEW l \in e.leases \ H[p].leases
           PROVE  \E j \in (i + 1)..p : l \in H[j].leases
        <3>1. CASE l \in H[i + 1].leases
            BY <1>1, <2>1, <3>1
        <3>2. CASE l \in d.leases /\ l \notin H[i].leases
            <4>1. PICK j \in i..p : l \in H[j].leases
                BY <2>7, <2>13, <3>2
            <4>2. j \in (i + 1)..p
                BY <1>1, <3>2, <4>1
            <4> QED
                BY <4>1, <4>2
        <3> QED
            BY <2>12, <2>13, <3>1, <3>2
    <2>14. Lag(H, e, c, i + 1, p)
        <3>1. c = ci /\ ci <= i + 1
            BY <1>1, <2>7, <2>12
        <3> QED
            BY <2>1, <2>7, <2>12, <2>13, <3>1 DEF Lag
    <2> QED
        BY <2>14
<1> QED
    BY <1>2, <1>3

-----------------------------------------------------------------------------
(* A crash does not show *)

\* The member that never crashes has the data of the history.
TwinInv(H) ==
    /\ Tidy(twin) /\ twin.applied = Len(log) /\ twin.consistIndex = Len(log)
    /\ DataOf(twin.db) = H[Len(log)]

\* A server that is behind the history, by no more than its database.
Behind(H, m, n) ==
    /\ Tidy(m) /\ m.applied <= m.consistIndex
    /\ \E p \in 0..n : Lag(H, DataOf(m.db), m.db.consistentIndex, m.consistIndex, p)

\* What a restart would find is behind as well, and no snapshot is ahead of it.
DiskBehind(H, db, n) ==
    \E p \in 0..n : Lag(H, DataOf(db), db.consistentIndex, db.consistentIndex, p)

ReplayInv ==
    /\ snapshot <= disk.consistentIndex /\ snapshot <= member.db.consistentIndex
    /\ \E H \in [Nat -> Data] :
         /\ Follows(log, H) /\ Lasts(log, H)
         /\ TwinInv(H) /\ Behind(H, member, Len(log)) /\ DiskBehind(H, disk, Len(log))

\* A server that is behind applies the next entry.
LEMMA BehindApply ==
    ASSUME NEW L \in Seq(Request), NEW n, n = Len(L), NEW H, Follows(L, H), Lasts(L, H),
           OneAlarm, NEW m, Good(m, n), Behind(H, m, n), m.applied < n,
           NEW e, e = applyEntryNormal(m, L[m.applied + 1])
    PROVE  Behind(H, e, n) /\ m.db.consistentIndex <= e.db.consistentIndex
<1>1. /\ n \in Nat /\ m \in ServerOf(n) /\ m.applied \in 0..(n - 1)
      /\ m.consistIndex \in 0..n /\ m.db \in DatabaseOf(n) /\ m.db.consistentIndex \in 0..n
    BY DEF Good, ServerOf, DatabaseOf
<1>2. L[m.applied + 1] \in Request
    <2>1. m.applied + 1 \in 1..Len(L)
        BY <1>1
    <2> QED
        BY <2>1
<1>3. Tidy(m) /\ m.applied <= m.consistIndex
    BY DEF Behind
<1>4. /\ Tidy(e) /\ e.applied = m.applied + 1
      /\ m.applied < m.consistIndex => e.db = m.db /\ e.consistIndex = m.consistIndex
      /\ m.applied = m.consistIndex =>
            /\ DataOf(e.db) = Effect(DataOf(m.db), L[m.applied + 1])
            /\ e.consistIndex = m.applied + 1
            /\ e.db.consistentIndex =
                    IF e.db.rev = m.db.rev THEN m.db.consistentIndex ELSE m.applied + 1
    BY <1>1, <1>2, <1>3, EntryDid
<1>5. PICK p \in 0..n : Lag(H, DataOf(m.db), m.db.consistentIndex, m.consistIndex, p)
    BY DEF Behind
<1>6. CASE m.applied < m.consistIndex
    <2>1. e.applied <= e.consistIndex
        BY <1>1, <1>4, <1>6
    <2> QED
        BY <1>1, <1>4, <1>5, <1>6, <2>1 DEF Behind
<1>7. CASE m.applied = m.consistIndex
    <2> DEFINE i  == m.applied
               ci == m.db.consistentIndex
               d  == DataOf(m.db)
               c  == e.db.consistentIndex
    <2>1. /\ i \in 0..(n - 1) /\ ci \in 0..n /\ d \in Data /\ Lag(H, d, ci, i, p)
        BY <1>1, <1>5, <1>7, DataFields
    <2>2. DataOf(e.db) = Effect(d, L[i + 1])
        BY <1>4, <1>7
    <2>3. c = IF DataOf(e.db).rev = d.rev THEN ci ELSE i + 1
        BY <1>4, <1>7 DEF DataOf
    <2>4. e.consistIndex = i + 1 /\ e.applied = i + 1
        BY <1>4, <1>7
    <2>5. ci <= i
        BY <2>1 DEF Lag
    <2>6. ci <= c
        BY <2>1, <2>3, <2>5
    <2>7. e.applied <= e.consistIndex
        BY <2>1, <2>4
    <2> HIDE DEF i, ci, d, c
    <2>8. \E q \in 0..n : Lag(H, DataOf(e.db), c, i + 1, q)
        BY <2>1, <2>2, <2>3, LagApply
    <2> QED
        BY <1>4, <2>4, <2>6, <2>7, <2>8 DEF Behind, c, ci
<1> QED
    BY <1>1, <1>3, <1>6, <1>7

\* Who is behind nothing has the data of the history.
LEMMA CaughtUp ==
    ASSUME NEW L \in Seq(Request), NEW n, n = Len(L), NEW H, Follows(L, H),
           NEW m, Good(m, n), Behind(H, m, n), m.applied = n
    PROVE  DataOf(m.db) = H[n] /\ m.consistIndex = n
<1>1. n \in Nat /\ m.consistIndex \in 0..n /\ m.db \in DatabaseOf(n)
    BY DEF Good, ServerOf
<1>2. PICK p \in 0..n : Lag(H, DataOf(m.db), m.db.consistentIndex, m.consistIndex, p)
    BY DEF Behind
<1>3. m.consistIndex = n /\ p = n
    BY <1>1, <1>2 DEF Behind, Lag
<1>4. H[n] \in Data /\ DataOf(m.db) \in Data
    BY <1>1, DataFields DEF Follows
<1> QED
    BY <1>1, <1>2, <1>3, <1>4, NoLag

LEMMA InitReplay ==
    ASSUME Init PROVE ReplayInv
<1> DEFINE E == DataOf(EmptyDatabase)
           H == [i \in Nat |-> E]
<1>1. EmptyDatabase \in DatabaseOf(0) /\ E \in Data /\ DataSound(E)
    BY DEF EmptyDatabase, DatabaseOf, DataOf, Data, DataSound
<1>2. Len(log) = 0 /\ log = << >>
    BY DEF Init
<1>3. H \in [Nat -> Data] /\ \A i \in Nat : H[i] = E
    BY <1>1
<1>4. /\ member = NewServer(EmptyDatabase, 0) /\ twin = member /\ disk = EmptyDatabase
      /\ snapshot = 0
    BY DEF Init
<1>5. /\ member.db = EmptyDatabase /\ member.applied = 0 /\ member.consistIndex = 0
      /\ EmptyDatabase.consistentIndex = 0 /\ Tidy(member)
    BY <1>4 DEF NewServer, EmptyDatabase, Tidy
<1> HIDE DEF H, E
<1>6. Follows(log, H)
    BY <1>1, <1>2, <1>3 DEF Follows
<1>7. Lasts(log, H)
    <2>1. E.rev \in Nat
        BY <1>1 DEF Data
    <2> QED
        BY <1>2, <1>3, <2>1 DEF Lasts
<1>8. Lag(H, E, 0, 0, 0)
    BY <1>3 DEF Lag
<1>9. TwinInv(H) /\ Behind(H, member, 0) /\ DiskBehind(H, disk, 0)
    BY <1>2, <1>3, <1>4, <1>5, <1>8 DEF TwinInv, Behind, DiskBehind, E
<1> QED
    BY <1>2, <1>3, <1>4, <1>5, <1>6, <1>7, <1>9 DEF ReplayInv

\* An entry that clients may ask for continues the log.
LEMMA AskedFresh ==
    ASSUME FreshLeases, ~Disarms, log \in Seq(Request), NEW r \in Request, Asked(r)
    PROVE  FreshAfter(log, Len(log), r)
<1>1. \A l : Granted(l) <=> GrantedBy(log, l, Len(log))
    BY DEF Granted, Entries, GrantedBy
<1> QED
    BY <1>1 DEF Asked, FreshAfter

LEMMA NextReplay ==
    ASSUME FreshLeases, ~Disarms, OneAlarm, IInv, ReplayInv, [Next]_vars
    PROVE  ReplayInv'
<1> DEFINE n == Len(log)
<1>1. /\ n \in Nat /\ log \in Seq(Request) /\ Good(member, n) /\ Good(twin, n)
      /\ disk \in DatabaseOf(n) /\ member.db \in DatabaseOf(n)
      /\ member.applied \in 0..n /\ member.consistIndex \in 0..n /\ member \in ServerOf(n)
      /\ member.db.consistentIndex \in 0..n /\ disk.consistentIndex \in 0..n
      /\ snapshot \in 0..n
    BY DEF IInv, Good, ServerOf, DatabaseOf
<1>2. snapshot <= disk.consistentIndex /\ snapshot <= member.db.consistentIndex
    BY DEF ReplayInv
<1>3. PICK H \in [Nat -> Data] :
         /\ Follows(log, H) /\ Lasts(log, H)
         /\ TwinInv(H) /\ Behind(H, member, n) /\ DiskBehind(H, disk, n)
    BY DEF ReplayInv
<1>4. PICK p \in 0..n :
        Lag(H, DataOf(member.db), member.db.consistentIndex, member.consistIndex, p)
    BY <1>3 DEF Behind
<1>5. ASSUME NEW r \in Request, ApplyNew(r) PROVE ReplayInv'
    <2>e. PICK e : e = Effect(H[n], r)
        OBVIOUS
    <2>l. PICK L2 : L2 = Append(log, r)
        OBVIOUS
    <2>h. PICK H2 : H2 = [H EXCEPT ![n + 1] = e]
        OBVIOUS
    <2>1. /\ member.applied = n /\ Asked(r) /\ log' = L2
          /\ member' = applyEntryNormal(member, r) /\ twin' = applyEntryNormal(twin, r)
          /\ disk' = disk /\ snapshot' = snapshot
        BY <1>5, <2>l DEF ApplyNew
    <2>2. Good(member, n + 1) /\ Good(twin, n + 1)
        BY <1>1, GoodLater
    <2>3. FreshAfter(log, n, r)
        BY <1>1, <2>1, AskedFresh
    <2>4. /\ Tidy(twin) /\ twin.applied = n /\ twin.consistIndex = n /\ DataOf(twin.db) = H[n]
        BY <1>3 DEF TwinInv
    <2>5. /\ Tidy(twin') /\ twin'.applied = n + 1 /\ twin'.consistIndex = n + 1
          /\ DataOf(twin'.db) = e
        <3>1. twin.applied < n + 1 /\ twin.applied <= twin.consistIndex /\ n + 1 \in Nat
            BY <1>1, <2>4
        <3> QED
            BY <2>1, <2>2, <2>4, <2>e, <3>1, EntryDid
    <2>6. e \in Data /\ DataSound(e)
        <3>1. Good(twin', n + 1) /\ n + 1 \in Nat
            BY <1>1, <2>1, <2>2, <2>4, applyEntryNormalGood
        <3>2. twin'.db \in DatabaseOf(n + 1) /\ Sound(twin'.db)
            BY <3>1 DEF Good, ServerOf
        <3>3. /\ DataOf(twin'.db) \in Data /\ DataOf(twin'.db).kv = twin'.db.kv
              /\ DataOf(twin'.db).leases = twin'.db.leases
            BY <3>1, <3>2, DataFields
        <3>4. DataSound(DataOf(twin'.db))
            BY <3>2, <3>3 DEF DataSound, Sound
        <3> QED
            BY <2>5, <3>3, <3>4
    <2>8. /\ L2 \in Seq(Request) /\ Len(L2) = n + 1 /\ L2[n + 1] = r
          /\ H2 \in [Nat -> Data] /\ H2[n + 1] = e
          /\ \A i \in 0..n : H2[i] = H[i]
          /\ Follows(L2, H2) /\ Lasts(L2, H2)
        <3>1. Longer(log, H, r, e, L2, H2)
            BY <1>1, <1>3, <2>3, <2>6, <2>e, <2>l, <2>h, HistoryGrows
        <3> QED
            BY <3>1 DEF Longer
    <2>9. Behind(H2, member, n + 1)
        <3>1. Lag(H2, DataOf(member.db), member.db.consistentIndex, member.consistIndex, p)
            BY <1>1, <1>4, <2>8, LagLater
        <3>2. p \in 0..(n + 1)
            BY <1>1
        <3> QED
            BY <1>3, <3>1, <3>2 DEF Behind
    <2>10. Behind(H2, member', n + 1)
           /\ member.db.consistentIndex <= member'.db.consistentIndex
        <3>1. member.applied < n + 1 /\ member' = applyEntryNormal(member, L2[member.applied + 1])
            BY <1>1, <2>1, <2>8
        <3> QED
            BY <2>2, <2>8, <2>9, <3>1, BehindApply
    <2>11. DiskBehind(H2, disk', n + 1)
        <3>1. PICK q \in 0..n :
                Lag(H, DataOf(disk), disk.consistentIndex, disk.consistentIndex, q)
            BY <1>3 DEF DiskBehind
        <3>2. Lag(H2, DataOf(disk), disk.consistentIndex, disk.consistentIndex, q)
            BY <1>1, <2>8, <3>1, LagLater
        <3>3. q \in 0..(n + 1)
            BY <1>1
        <3> QED
            BY <2>1, <3>2, <3>3 DEF DiskBehind
    <2>12. TwinInv(H2)'
        BY <2>1, <2>5, <2>8 DEF TwinInv, Tidy
    <2>13. snapshot' <= disk'.consistentIndex /\ snapshot' <= member'.db.consistentIndex
        <3>1. member'.db.consistentIndex \in 0..(n + 1)
            <4>1. Good(member', n + 1) /\ n + 1 \in Nat
                BY <1>1, <2>1, <2>2, applyEntryNormalGood
            <4> QED
                BY <4>1 DEF Good, ServerOf, DatabaseOf
        <3> QED
            BY <1>1, <1>2, <2>1, <2>10, <3>1
    <2>14. Behind(H2, member', Len(log')) /\ DiskBehind(H2, disk', Len(log'))
        BY <2>1, <2>8, <2>10, <2>11
    <2>15. Follows(log', H2) /\ Lasts(log', H2)
        BY <2>1, <2>8
    <2> QED
        BY <2>8, <2>12, <2>13, <2>14, <2>15 DEF ReplayInv
<1>6. CASE Replay
    <2>1. /\ member.applied < n /\ member' = applyEntryNormal(member, log[member.applied + 1])
          /\ log' = log /\ disk' = disk /\ snapshot' = snapshot /\ twin' = twin
        BY <1>6 DEF Replay
    <2>2. Behind(H, member', n) /\ member.db.consistentIndex <= member'.db.consistentIndex
        BY <1>1, <1>3, <2>1, BehindApply
    <2>3. member'.db.consistentIndex \in 0..n
        <3>1. log[member.applied + 1] \in Request
            <4>1. member.applied + 1 \in 1..n
                BY <1>1, <2>1
            <4> QED
                BY <1>1, <4>1
        <3>2. Good(member', n)
            BY <1>1, <2>1, <3>1, applyEntryNormalGood
        <3> QED
            BY <3>2 DEF Good, ServerOf, DatabaseOf
    <2>4. snapshot' <= disk'.consistentIndex /\ snapshot' <= member'.db.consistentIndex
        BY <1>1, <1>2, <2>1, <2>2, <2>3
    <2>5. TwinInv(H)'
        BY <1>3, <2>1 DEF TwinInv, Tidy
    <2> QED
        BY <1>3, <2>1, <2>2, <2>4, <2>5 DEF ReplayInv
<1>7. CASE Commit
    <2>1. /\ disk' = member.db /\ log' = log /\ member' = member /\ snapshot' = snapshot
          /\ twin' = twin
        BY <1>7 DEF Commit
    <2>2. DiskBehind(H, member.db, n)
        <3>1. Lag(H, DataOf(member.db), member.db.consistentIndex, member.db.consistentIndex, p)
            BY <1>1, <1>4, LagFromIndex
        <3> QED
            BY <3>1 DEF DiskBehind
    <2>3. TwinInv(H)'
        BY <1>3, <2>1 DEF TwinInv, Tidy
    <2> QED
        BY <1>2, <1>3, <2>1, <2>2, <2>3 DEF ReplayInv
<1>8. CASE Snapshot
    <2> DEFINE i == member.consistIndex
               b == [member.db EXCEPT !.consistentIndex = i]
               m == [member EXCEPT !.db = b]
    <2>1. /\ member' = m /\ disk' = member'.db /\ snapshot' \in {snapshot, member.applied}
          /\ log' = log /\ twin' = twin
        BY <1>1, <1>8 DEF Snapshot, ServerOf
    <2>2. /\ b.kv = member.db.kv /\ b.leases = member.db.leases /\ b.rev = member.db.rev
          /\ b.alarms = member.db.alarms /\ b.consistentIndex = i
        BY <1>1 DEF DatabaseOf
    <2> HIDE DEF b
    <2>3. /\ m.db = b /\ m.applied = member.applied /\ m.consistIndex = i
          /\ m.applier = member.applier
        BY <1>1 DEF ServerOf
    <2> HIDE DEF m
    <2>4. DataOf(b) = DataOf(member.db)
        BY <2>2 DEF DataOf
    <2>5. Lag(H, DataOf(b), i, i, p)
        BY <1>1, <1>3, <1>4, <2>4, LagFromApplied
    <2>6. member.applied <= i /\ Tidy(member)
        BY <1>3 DEF Behind
    <2>7. Behind(H, m, n)
        BY <2>2, <2>3, <2>5, <2>6 DEF Behind, Tidy
    <2>8. DiskBehind(H, b, n)
        BY <2>2, <2>5 DEF DiskBehind
    <2>9. snapshot' <= i
        <3>1. member.db.consistentIndex <= i
            BY <1>4 DEF Lag
        <3> QED
            BY <1>1, <1>2, <2>1, <2>6, <3>1
    <2>10. TwinInv(H)'
        BY <1>3, <2>1 DEF TwinInv, Tidy
    <2>11. member'.db = b /\ disk' = b /\ b.consistentIndex = i
        BY <2>1, <2>2, <2>3
    <2> QED
        BY <1>3, <2>1, <2>7, <2>8, <2>9, <2>10, <2>11 DEF ReplayInv
<1>9. CASE Crash
    <2>1. /\ member' = NewServer(disk, snapshot) /\ log' = log /\ disk' = disk
          /\ snapshot' = snapshot /\ twin' = twin
        BY <1>9 DEF Crash
    <2>2. /\ member'.db = disk /\ member'.applied = snapshot
          /\ member'.consistIndex = disk.consistentIndex /\ member'.applier = disk.alarms
        BY <2>1 DEF NewServer
    <2>3. Behind(H, member', n)
        BY <1>2, <1>3, <2>2 DEF Behind, DiskBehind, Tidy
    <2>4. TwinInv(H)'
        BY <1>3, <2>1 DEF TwinInv, Tidy
    <2> QED
        BY <1>2, <1>3, <2>1, <2>2, <2>3, <2>4 DEF ReplayInv
<1>10. CASE UNCHANGED vars
    <2>1. /\ log' = log /\ member' = member /\ disk' = disk /\ snapshot' = snapshot
          /\ twin' = twin
        BY <1>10 DEF vars
    <2>2. TwinInv(H)'
        BY <1>3, <2>1 DEF TwinInv, Tidy
    <2> QED
        BY <1>2, <1>3, <2>1, <2>2 DEF ReplayInv
<1> QED
    BY <1>5, <1>6, <1>7, <1>8, <1>9, <1>10 DEF Next

\* The maps of the lessor that agree with the keys are determined by them.
LEMMA SameMaps ==
    ASSUME NEW S, NEW kv,
           NEW f \in [S -> SUBSET Key], NEW g \in [S -> SUBSET Key],
           \A k \in Key, l \in S : k \in f[l] <=> kv[k] = l,
           \A k \in Key, l \in S : k \in g[l] <=> kv[k] = l
    PROVE  f = g
<1>1. ASSUME NEW l \in S PROVE f[l] = g[l]
    <2>1. f[l] \subseteq Key /\ g[l] \subseteq Key
        OBVIOUS
    <2> QED
        BY <2>1
<1> QED
    BY <1>1

\* Two servers with the same data whose maps agree with it are the same but for indexes.
LEMMA SameData ==
    ASSUME NEW n \in Nat, NEW m, NEW t, Good(m, n), Good(t, n), Tidy(m), Tidy(t),
           DataOf(m.db) = DataOf(t.db)
    PROVE  Replicated(m) = Replicated(t)
<1> DEFINE S  == m.db.leases
           kv == m.db.kv
<1>1. /\ t.db.kv = kv /\ t.db.rev = m.db.rev /\ t.db.leases = S
      /\ t.db.alarms = m.db.alarms
    BY DEF DataOf
<1>2. /\ m.leaseMap \in [S -> SUBSET Key] /\ m.itemMap \in [Key -> Lease \cup {NoLease}]
      /\ \A k \in Key, l \in S : k \in m.leaseMap[l] <=> kv[k] = l
      /\ \A k \in Key : m.itemMap[k] = IF kv[k] = Absent THEN NoLease ELSE kv[k]
    BY DEF Good, ServerOf, Agree
<1>3. /\ t.leaseMap \in [S -> SUBSET Key] /\ t.itemMap \in [Key -> Lease \cup {NoLease}]
      /\ \A k \in Key, l \in S : k \in t.leaseMap[l] <=> kv[k] = l
      /\ \A k \in Key : t.itemMap[k] = IF kv[k] = Absent THEN NoLease ELSE kv[k]
    <2>1. /\ t.leaseMap \in [t.db.leases -> SUBSET Key]
          /\ t.itemMap \in [Key -> Lease \cup {NoLease}]
          /\ \A k \in Key, l \in t.db.leases : k \in t.leaseMap[l] <=> t.db.kv[k] = l
          /\ \A k \in Key : t.itemMap[k] = IF t.db.kv[k] = Absent THEN NoLease ELSE t.db.kv[k]
        BY DEF Good, ServerOf, Agree
    <2> HIDE DEF S, kv
    <2> QED
        BY <1>1, <2>1
<1> HIDE DEF S, kv
<1>4. m.leaseMap = t.leaseMap
    BY <1>2, <1>3, SameMaps
<1>5. m.itemMap = t.itemMap
    BY <1>2, <1>3
<1>6. m.applier = t.applier
    BY <1>1 DEF Tidy
<1> QED
    BY <1>1, <1>4, <1>5, <1>6 DEF Replicated, S, kv

\* A member that crashed and has applied the log again is where the one is that never
\* crashed, if clients use a lease after its grant and an id once, alarms are not
\* disarmed, and one type of alarm is in use: the consistent index, which only
\* transactions that change keys write, is enough (server.go applyEntryNormal).
THEOREM CrashesAreInvisible ==
    ASSUME FreshLeases, ~Disarms, \A a, b \in Alarm : a = b
    PROVE  Spec => []CrashesDoNotShow
<1>1. OneAlarm
    BY DEF OneAlarm
<1>2. Init => ReplayInv
    BY InitReplay
<1>3. IInv /\ ReplayInv /\ [Next]_vars => ReplayInv'
    BY <1>1, NextReplay
<1>4. IInv /\ ReplayInv => CrashesDoNotShow
    <2> SUFFICES ASSUME IInv, ReplayInv, member.applied = Len(log)
                 PROVE  Replicated(member) = Replicated(twin)
        BY DEF CrashesDoNotShow
    <2>1. log \in Seq(Request) /\ Good(member, Len(log)) /\ Good(twin, Len(log))
        BY DEF IInv
    <2>2. PICK H \in [Nat -> Data] :
            Follows(log, H) /\ TwinInv(H) /\ Behind(H, member, Len(log))
        BY DEF ReplayInv
    <2>3. DataOf(member.db) = H[Len(log)]
        BY <2>1, <2>2, CaughtUp
    <2>4. DataOf(member.db) = DataOf(twin.db) /\ Tidy(member) /\ Tidy(twin)
        BY <2>2, <2>3 DEF TwinInv, Behind
    <2> QED
        BY <2>1, <2>4, SameData
<1> QED
    BY <1>2, <1>3, <1>4, SpecIInv, PTL DEF Spec

=============================================================================
