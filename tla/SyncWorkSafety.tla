--------------------------- MODULE SyncWorkSafety ---------------------------
(***************************************************************************)
(* The safety of concurrent syncs, proved for every catalogue and any      *)
(* number of workers: keys stay unique, owners exist, ids are stable, the  *)
(* catalogue changes by whole answers, pages show what was committed (the  *)
(* inductive invariant is SyncWork's Inv); and of one worker at a time,    *)
(* whose refs never dangle (CalmInv).                                      *)
(***************************************************************************)
EXTENDS SyncWorkTypes, WorkPages

-----------------------------------------------------------------------------
(* Merging tables. *)

LEMMA OverPut ==
  ASSUME NEW t, NEW old, NEW id, NEW row
  PROVE  Over(Put(t, id, row), old) = Put(Over(t, old), id, row)
  BY DEF Over, Put

LEMMA UniqueOverEmpty ==
  ASSUME NEW f
  PROVE  Catalog!Unique(Over(Empty, f)) <=> Catalog!Unique(f)
  <1> DEFINE g == Over(Empty, f)
  <1>1. DOMAIN Empty = {}
    BY DEF Empty
  <1>2. DOMAIN g = DOMAIN f /\ \A x \in DOMAIN f : g[x] = f[x]
    BY <1>1 DEF Over
  <1> HIDE DEF g
  <1>3. Catalog!Unique(g) <=> Catalog!Unique(f)
    BY <1>2 DEF Catalog!Unique
  <1> QED BY <1>3 DEF g

LEMMA UniquePut ==
  ASSUME NEW f, NEW id, NEW row, Catalog!Unique(f),
         \A x \in DOMAIN f \ {id} : f[x].key # row.key
  PROVE  Catalog!Unique(Put(f, id, row))
  <1> DEFINE g == Put(f, id, row)
  <1>1. /\ DOMAIN g = DOMAIN f \cup {id} /\ g[id] = row
        /\ \A y \in DOMAIN f \ {id} : g[y] = f[y]
    BY DEF Put
  <1> HIDE DEF g
  <1>2. ASSUME NEW x \in DOMAIN g, NEW y \in DOMAIN g, g[x].key = g[y].key
        PROVE  x = y
    <2>1. CASE x = id
      BY <1>1, <1>2, <2>1
    <2>2. CASE y = id
      BY <1>1, <1>2, <2>2
    <2>3. CASE x # id /\ y # id
      BY <1>1, <1>2, <2>3 DEF Catalog!Unique
    <2> QED BY <2>1, <2>2, <2>3
  <1> QED BY <1>2 DEF Catalog!Unique, g

LEMMA DisjointPut ==
  ASSUME NEW f, NEW g, NEW id, NEW row, Disjoint(f, g),
         \A x \in DOMAIN f : x # id /\ f[x].key # row.key
  PROVE  Disjoint(f, Put(g, id, row))
  <1> DEFINE h == Put(g, id, row)
  <1>1. /\ DOMAIN h = DOMAIN g \cup {id} /\ h[id] = row
        /\ \A y \in DOMAIN g \ {id} : h[y] = g[y]
    BY DEF Put
  <1> HIDE DEF h
  <1>2. Disjoint(f, h)
    BY <1>1 DEF Disjoint
  <1> QED BY <1>2 DEF h

(* Two transactions that share no row and no key stay unique when one of   *)
(* them commits under the other.                                           *)
LEMMA UniqueOver ==
  ASSUME NEW a, NEW b, NEW old, Catalog!Unique(Over(a, old)), Catalog!Unique(Over(b, old)),
         Disjoint(a, b)
  PROVE  Catalog!Unique(Over(b, Over(a, old)))
  <1> DEFINE f == Over(a, old)
             g == Over(b, old)
             h == Over(b, f)
  <1>1. /\ DOMAIN h = DOMAIN b \cup DOMAIN f
        /\ \A x \in DOMAIN b : h[x] = b[x] /\ x \in DOMAIN g /\ g[x] = b[x]
        /\ \A x \in DOMAIN a : x \in DOMAIN f /\ f[x] = a[x] /\ (x \notin DOMAIN b => h[x] = a[x])
        /\ \A x \in DOMAIN f \ DOMAIN b : h[x] = f[x]
        /\ \A x \in DOMAIN f \ (DOMAIN a \cup DOMAIN b) : h[x] = old[x] /\ x \in DOMAIN g /\ g[x] = old[x]
    BY DEF Over
  <1> HIDE DEF f, g, h
  <1>2. ASSUME NEW x \in DOMAIN h, NEW y \in DOMAIN b, h[x].key = h[y].key
        PROVE  x = y
    <2>1. CASE x \in DOMAIN a \ DOMAIN b
      BY <1>1, <1>2, <2>1 DEF Disjoint
    <2>2. CASE x \notin DOMAIN a \/ x \in DOMAIN b
      <3>1. x \in DOMAIN g /\ y \in DOMAIN g /\ g[x] = h[x] /\ g[y] = h[y]
        BY <1>1, <2>2
      <3> QED BY <1>2, <3>1 DEF Catalog!Unique, g
    <2> QED BY <2>1, <2>2
  <1>3. ASSUME NEW x \in DOMAIN h, NEW y \in DOMAIN h, h[x].key = h[y].key
        PROVE  x = y
    <2>1. CASE x \in DOMAIN b \/ y \in DOMAIN b
      BY <1>2, <1>3, <2>1
    <2>2. CASE x \notin DOMAIN b /\ y \notin DOMAIN b
      <3>1. x \in DOMAIN f /\ y \in DOMAIN f /\ f[x] = h[x] /\ f[y] = h[y]
        BY <1>1, <2>2
      <3> QED BY <1>3, <3>1 DEF Catalog!Unique, f
    <2> QED BY <2>1, <2>2
  <1> QED BY <1>3 DEF Catalog!Unique, h, f

LEMMA DisjointCommutes ==
  ASSUME NEW f, NEW g, Disjoint(f, g)
  PROVE  Disjoint(g, f)
  BY DEF Disjoint

-----------------------------------------------------------------------------
(* What the steps of a worker have in common. *)

(* A step that leaves the rows and links of every transaction alone.       *)
LEMMA SafeStays ==
  ASSUME Safe, UNCHANGED <<works, editions, links, syncLog>>,
         \A v \in Workers : /\ tx'[v].works = tx[v].works
                            /\ tx'[v].editions = tx[v].editions
                            /\ tx'[v].links = tx[v].links
  PROVE  Safe'
  <1>1. OwnersExist' /\ KeysUnique'
    BY DEF Safe, OwnersExist, KeysUnique, Catalog!Unique
  <1>2. ASSUME NEW v \in Workers PROVE OpenOK(tx'[v], works', editions')
    BY DEF Safe, OpenOK, OpenOwnersExist, OpenKeysUnique
  <1>3. ASSUME NEW u \in Workers, NEW v \in Workers, u # v PROVE Isolated(tx'[u], tx'[v])
    BY <1>3 DEF Safe, Isolated
  <1> QED BY <1>1, <1>2, <1>3 DEF Safe

(* A step of w that leaves the committed rows alone.                       *)
LEMMA OpenStep ==
  ASSUME Safe, NEW w \in Workers, UNCHANGED <<works, editions, links>>,
         \A r \in syncLog' : r.status = "ok" => r.work \in DOMAIN works,
         \A v \in Workers \ {w} : tx'[v] = tx[v],
         NEW t, tx'[w] = t, OpenOK(t, works, editions),
         \A v \in Workers \ {w} : Isolated(tx[v], t)
  PROVE  Safe'
  <1>1. OwnersExist' /\ KeysUnique'
    BY DEF Safe, OwnersExist, KeysUnique, Catalog!Unique
  <1>2. ASSUME NEW v \in Workers PROVE OpenOK(tx'[v], works', editions')
    BY DEF Safe
  <1>3. \A v \in Workers \ {w} : Isolated(t, tx[v])
    BY DisjointCommutes DEF Isolated
  <1>4. ASSUME NEW u \in Workers, NEW v \in Workers, u # v PROVE Isolated(tx'[u], tx'[v])
    BY <1>3, <1>4 DEF Safe
  <1> QED BY <1>1, <1>2, <1>4 DEF Safe

(* A transaction that ends without a commit. *)
LEMMA SafeEnd ==
  ASSUME TypeOK, Safe, NEW w \in Workers, UNCHANGED <<works, editions, links>>,
         \A r \in syncLog' : r.status = "ok" => r.work \in DOMAIN works,
         tx' = [tx EXCEPT ![w] = NoTx]
  PROVE  Safe'
  <1>1. tx'[w] = NoTx /\ \A v \in Workers \ {w} : tx'[v] = tx[v]
    BY DEF TypeOK
  <1>2. /\ DOMAIN NoTx.works = {} /\ DOMAIN NoTx.editions = {} /\ NoTx.links = {}
        /\ NoTx.works = Empty /\ NoTx.editions = Empty
    BY DEF NoTx, Empty
  <1>3. OpenOwnersExist(NoTx, works, editions)
    BY <1>2 DEF OpenOwnersExist
  <1>4. OpenKeysUnique(NoTx, works, editions)
    BY <1>2, UniqueOverEmpty DEF Safe, KeysUnique, OpenKeysUnique
  <1>5. \A v \in Workers \ {w} : Isolated(tx[v], NoTx)
    BY <1>2 DEF Isolated, Disjoint
  <1> QED BY <1>1, <1>3, <1>4, <1>5, OpenStep DEF OpenOK

LEMMA LogSafe ==
  ASSUME Safe
  PROVE  \A r \in syncLog : r.status = "ok" => r.work \in DOMAIN works
  BY DEF Safe, OwnersExist

-----------------------------------------------------------------------------
(* The statements that write. *)

(* What a transaction looks like after one of its tables was written.      *)
LEMMA TransactionShape ==
  ASSUME TypeOK, NEW w \in Workers
  PROVE  /\ \A f : LET t == [tx[w] EXCEPT !.works = f]
                   IN t.works = f /\ t.editions = tx[w].editions /\ t.links = tx[w].links
         /\ \A f : LET t == [tx[w] EXCEPT !.editions = f]
                   IN t.editions = f /\ t.works = tx[w].works /\ t.links = tx[w].links
         /\ \A f : LET t == [tx[w] EXCEPT !.links = f]
                   IN t.links = f /\ t.works = tx[w].works /\ t.editions = tx[w].editions
         /\ \A t : LET tt == [tx EXCEPT ![w] = t]
                   IN tt[w] = t /\ \A v \in Workers \ {w} : tt[v] = tx[v]
  BY DEF TypeOK, WorkerOK, TransactionOK

LEMMA SafeSaveWork ==
  ASSUME TypeOK, Safe, NEW w \in Workers, SaveWork(w)
  PROVE  Safe'
  <1> DEFINE row == loc[w].row
             view == ViewWorks(w)
             same == {id \in DOMAIN view : view[id].key = row.key}
  <1>1. CASE Abort(w)
    BY <1>1, SafeEnd, LogSafe DEF Abort
  <1>2. ASSUME NEW id, id \in same \/ (same = {} /\ id = loc[w].wid /\ id \notin DOMAIN view),
               tx' = [tx EXCEPT ![w].works = Put(@, id, row)],
               UNCHANGED <<works, editions, links, syncLog>>
        PROVE  Safe'
    <2> DEFINE f == Put(tx[w].works, id, row)
               t == [tx[w] EXCEPT !.works = f]
    <2>1. /\ tx'[w] = t /\ \A v \in Workers \ {w} : tx'[v] = tx[v]
          /\ t.works = f /\ t.editions = tx[w].editions /\ t.links = tx[w].links
      BY <1>2, TransactionShape DEF TypeOK, WorkerOK, TransactionOK
    <2>2. OpenOK(tx[w], works, editions)
      BY DEF Safe
    <2>3. /\ DOMAIN f = DOMAIN tx[w].works \cup {id} /\ f[id] = row
          /\ \A x \in DOMAIN tx[w].works \ {id} : f[x] = tx[w].works[x]
      BY DEF Put
    <2> HIDE DEF t
    <2>4. Catalog!Unique(view)
      BY <2>2 DEF OpenOK, OpenKeysUnique, ViewWorks
    <2>5. \A x \in DOMAIN view \ {id} : view[x].key # row.key
      BY <1>2, <2>4 DEF Catalog!Unique
    <2>6. Catalog!Unique(Over(f, works))
      BY <2>4, <2>5, UniquePut, OverPut DEF ViewWorks
    <2>7. \A x \in DOMAIN works : x \in DOMAIN view
      BY DEF ViewWorks, Over
    <2>8. id \in DOMAIN works => works[id].key = row.key
      <3>1. CASE id \in DOMAIN tx[w].works
        BY <1>2, <2>2, <2>7, <3>1 DEF OpenOK, OpenKeysUnique, ViewWorks, Over
      <3>2. CASE id \notin DOMAIN tx[w].works
        BY <1>2, <2>7, <3>2 DEF ViewWorks, Over
      <3> QED BY <3>1, <3>2
    <2> HIDE DEF f
    <2>9. OpenOK(t, works, editions)
      BY <2>1, <2>2, <2>3, <2>6, <2>8 DEF OpenOK, OpenKeysUnique, OpenOwnersExist
    <2>10. ASSUME NEW v \in Workers \ {w} PROVE Isolated(tx[v], t)
      <3>1. ~HoldsWork(v, loc[w].wid, row.key)
        BY DEF SaveWork, WaitsFor
      <3>2. \A x \in DOMAIN tx[v].works : x # loc[w].wid /\ tx[v].works[x].key # row.key
        BY <3>1 DEF HoldsWork
      <3>3. Isolated(tx[v], tx[w]) /\ OpenOK(tx[v], works, editions)
        BY DEF Safe
      <3>4. id \notin DOMAIN tx[v].works
        <4>1. CASE id = loc[w].wid
          BY <3>2, <4>1
        <4>2. CASE id \in same /\ id \in DOMAIN tx[w].works
          BY <3>3, <4>2 DEF Isolated, Disjoint
        <4>3. CASE id \in same /\ id \notin DOMAIN tx[w].works
          <5>1. id \in DOMAIN works /\ works[id].key = row.key
            BY <4>3 DEF ViewWorks, Over
          <5> QED BY <3>2, <3>3, <5>1 DEF OpenOK, OpenKeysUnique
        <4> QED BY <1>2, <4>1, <4>2, <4>3
      <3>5. Disjoint(tx[v].works, f)
        BY <3>2, <3>3, <3>4, DisjointPut DEF Isolated, f
      <3> QED BY <2>1, <3>3, <3>5 DEF Isolated
    <2> QED BY <1>2, <2>1, <2>9, <2>10, LogSafe, OpenStep
  <1> QED BY <1>1, <1>2 DEF SaveWork

(* Editions are written under an id and a key that no other transaction    *)
(* holds, and for a work that exists.                                      *)
LEMMA SafePutEdition ==
  ASSUME TypeOK, Safe, NEW w \in Workers, NEW id, PutEdition(w, id),
         loc[w].erow.work \in DOMAIN ViewWorks(w),
         \A x \in DOMAIN ViewEditions(w) \ {id} : ViewEditions(w)[x].key # loc[w].erow.key,
         \A v \in Workers \ {w} : /\ id \notin DOMAIN tx[v].editions
                                  /\ ~HoldsEditionKey(v, loc[w].erow.key)
  PROVE  Safe'
  <1> DEFINE row == loc[w].erow
             f == Put(tx[w].editions, id, row)
             t == [tx[w] EXCEPT !.editions = f]
  <1>1. /\ tx'[w] = t /\ \A v \in Workers \ {w} : tx'[v] = tx[v]
        /\ t.editions = f /\ t.works = tx[w].works /\ t.links = tx[w].links
        /\ UNCHANGED <<works, editions, links, syncLog>>
    BY TransactionShape DEF PutEdition, TypeOK, WorkerOK, TransactionOK
  <1>2. OpenOK(tx[w], works, editions)
    BY DEF Safe
  <1>3. /\ DOMAIN f = DOMAIN tx[w].editions \cup {id} /\ f[id] = row
        /\ \A x \in DOMAIN tx[w].editions \ {id} : f[x] = tx[w].editions[x]
    BY DEF Put
  <1> HIDE DEF t
  <1>4. Catalog!Unique(ViewEditions(w))
    BY <1>2 DEF OpenOK, OpenKeysUnique, ViewEditions
  <1>5. Catalog!Unique(Over(f, editions))
    BY <1>4, UniquePut, OverPut DEF ViewEditions
  <1>6. row.work \in DOMAIN tx[w].works \cup DOMAIN works
    BY DEF ViewWorks, Over
  <1> HIDE DEF f
  <1>7. OpenOwnersExist(t, works, editions)
    BY <1>1, <1>2, <1>3, <1>6 DEF OpenOK, OpenOwnersExist
  <1>8. OpenOK(t, works, editions)
    BY <1>1, <1>2, <1>5, <1>7 DEF OpenOK, OpenKeysUnique
  <1>9. ASSUME NEW v \in Workers \ {w} PROVE Isolated(tx[v], t)
    <2>1. \A x \in DOMAIN tx[v].editions : x # id /\ tx[v].editions[x].key # row.key
      BY DEF HoldsEditionKey
    <2>2. Isolated(tx[v], tx[w])
      BY DEF Safe
    <2>3. Disjoint(tx[v].editions, f)
      BY <2>1, <2>2, DisjointPut DEF Isolated, f
    <2> QED BY <1>1, <2>2, <2>3 DEF Isolated
  <1> QED BY <1>1, <1>8, <1>9, LogSafe, OpenStep

LEMMA SafeUpdateEdition ==
  ASSUME TypeOK, Safe, NEW w \in Workers, UpdateEdition(w)
  PROVE  Safe'
  <1> DEFINE id == loc[w].eid
             row == loc[w].erow
  <1>1. CASE Abort(w)
    BY <1>1, SafeEnd, LogSafe DEF Abort
  <1>2. CASE UNCHANGED <<works, editions, links, syncLog, tx>>
    BY <1>2, SafeStays
  <1>3. CASE /\ PutEdition(w, id) /\ id \in DOMAIN ViewEditions(w)
             /\ row.work \in DOMAIN ViewWorks(w)
             /\ \A x \in DOMAIN ViewEditions(w) \ {id} : ViewEditions(w)[x].key # row.key
    <2>1. \A v \in Workers \ {w} : ~HoldsEdition(v, id) /\ ~HoldsEditionKey(v, row.key)
      BY <1>3 DEF UpdateEdition, WaitsFor
    <2> QED BY <1>3, <2>1, SafePutEdition DEF HoldsEdition
  <1> QED BY <1>1, <1>2, <1>3 DEF UpdateEdition, WorkExists

LEMMA SafeInsertEdition ==
  ASSUME TypeOK, Safe, NEW w \in Workers, InsertEdition(w)
  PROVE  Safe'
  <1> DEFINE id == loc[w].eid
             row == loc[w].erow
             view == ViewEditions(w)
             same == {x \in DOMAIN view : view[x].key = row.key}
  <1>1. CASE Abort(w)
    BY <1>1, SafeEnd, LogSafe DEF Abort
  <1>2. \A v \in Workers \ {w} : ~HoldsEdition(v, id) /\ ~HoldsEditionKey(v, row.key)
    BY DEF InsertEdition, WaitsFor
  <1>3. ASSUME NEW x \in same, PutEdition(w, x), row.work \in DOMAIN ViewWorks(w)
        PROVE  Safe'
    <2>1. Catalog!Unique(view)
      BY DEF Safe, OpenOK, OpenKeysUnique, ViewEditions
    <2>2. \A y \in DOMAIN view \ {x} : view[y].key # row.key
      BY <2>1 DEF Catalog!Unique
    <2>3. ASSUME NEW v \in Workers \ {w} PROVE x \notin DOMAIN tx[v].editions
      <3>1. CASE x \in DOMAIN tx[w].editions
        BY <3>1 DEF Safe, Isolated, Disjoint
      <3>2. CASE x \notin DOMAIN tx[w].editions
        <4>1. x \in DOMAIN editions /\ editions[x].key = row.key
          BY <3>2 DEF ViewEditions, Over
        <4> QED BY <1>2, <4>1 DEF HoldsEditionKey
      <3> QED BY <3>1, <3>2
    <2> QED BY <1>2, <1>3, <2>2, <2>3, SafePutEdition
  <1>4. CASE same = {} /\ PutEdition(w, id) /\ row.work \in DOMAIN ViewWorks(w)
    <2>1. \A y \in DOMAIN view \ {id} : view[y].key # row.key
      BY <1>4
    <2> QED BY <1>2, <1>4, <2>1, SafePutEdition DEF HoldsEdition
  <1> QED BY <1>1, <1>3, <1>4 DEF InsertEdition, WorkExists

LEMMA SafeSaveLinks ==
  ASSUME TypeOK, Safe, NEW w \in Workers, SaveLinks(w)
  PROVE  Safe'
  <1> DEFINE id == loc[w].eid
             offered == Ed(w).links \cap AllowedLinks
             more == {<<id, l>> : l \in offered}
             t == [tx[w] EXCEPT !.links = tx[w].links \cup more]
  <1>1. CASE Abort(w)
    BY <1>1, SafeEnd, LogSafe DEF Abort
  <1>2. CASE /\ offered = {} \/ id \in DOMAIN ViewEditions(w)
             /\ tx' = [tx EXCEPT ![w].links = @ \cup more]
             /\ UNCHANGED <<works, editions, links, syncLog>>
    <2>1. /\ tx'[w] = t /\ \A v \in Workers \ {w} : tx'[v] = tx[v]
          /\ t.links = tx[w].links \cup more
          /\ t.works = tx[w].works /\ t.editions = tx[w].editions
      BY <1>2, TransactionShape DEF TypeOK, WorkerOK, TransactionOK
    <2>2. \A l \in more : l[1] \in DOMAIN tx[w].editions \cup DOMAIN editions
      BY <1>2 DEF ViewEditions, Over
    <2> HIDE DEF t, more
    <2>3. OpenOK(t, works, editions)
      BY <2>1, <2>2 DEF Safe, OpenOK, OpenOwnersExist, OpenKeysUnique
    <2>4. \A v \in Workers \ {w} : Isolated(tx[v], t)
      BY <2>1 DEF Safe, Isolated
    <2> QED BY <1>2, <2>1, <2>3, <2>4, LogSafe, OpenStep
  <1> QED BY <1>1, <1>2 DEF SaveLinks

(* external_ref is no part of the invariant.                               *)
LEMMA SafeSaveRef ==
  ASSUME TypeOK, Safe, NEW w \in Workers, SaveWorkRef(w) \/ SaveEditionRef(w)
  PROVE  Safe'
  <1>1. UNCHANGED <<works, editions, links, syncLog>>
    BY DEF SaveWorkRef, SaveEditionRef
  <1>2. PICK f : tx' = [tx EXCEPT ![w].refs = f]
    BY DEF SaveWorkRef, SaveEditionRef, SaveRef
  <1>3. \A v \in Workers : /\ tx'[v].works = tx[v].works
                           /\ tx'[v].editions = tx[v].editions
                           /\ tx'[v].links = tx[v].links
    BY <1>2 DEF TypeOK, WorkerOK, TransactionOK
  <1> QED BY <1>1, <1>3, SafeStays

-----------------------------------------------------------------------------
(* COMMIT. *)

LEMMA SafeCommit ==
  ASSUME TypeOK, Safe, NEW w \in Workers, Commit(w)
  PROVE  Safe'
  <1> DEFINE t == tx[w]
  <1>1. /\ works' = Over(t.works, works) /\ editions' = Over(t.editions, editions)
        /\ links' = links \cup t.links /\ syncLog' = syncLog
        /\ tx'[w] = NoTx /\ \A v \in Workers \ {w} : tx'[v] = tx[v]
    BY DEF Commit, ViewWorks, ViewEditions, TypeOK
  <1>2. /\ DOMAIN works' = DOMAIN t.works \cup DOMAIN works
        /\ DOMAIN editions' = DOMAIN t.editions \cup DOMAIN editions
        /\ \A x \in DOMAIN t.editions : editions'[x] = t.editions[x]
        /\ \A x \in DOMAIN editions \ DOMAIN t.editions : editions'[x] = editions[x]
        /\ \A x \in DOMAIN t.works : works'[x] = t.works[x]
        /\ \A x \in DOMAIN works \ DOMAIN t.works : works'[x] = works[x]
    BY <1>1 DEF Over
  <1>3. OpenOK(t, works, editions)
    BY DEF Safe
  <1>4. OwnersExist'
    <2>1. \A e \in DOMAIN editions' : editions'[e].work \in DOMAIN works'
      BY <1>2, <1>3 DEF Safe, OwnersExist, OpenOK, OpenOwnersExist
    <2>2. \A l \in links' : l[1] \in DOMAIN editions'
      BY <1>1, <1>2, <1>3 DEF Safe, OwnersExist, OpenOK, OpenOwnersExist
    <2>3. \A r \in syncLog' : r.status = "ok" => r.work \in DOMAIN works'
      BY <1>1, <1>2 DEF Safe, OwnersExist
    <2> QED BY <2>1, <2>2, <2>3 DEF OwnersExist
  <1>5. Catalog!Unique(works') /\ Catalog!Unique(editions')
    BY <1>1, <1>3 DEF OpenOK, OpenKeysUnique
  <1>6. ASSUME NEW v \in Workers \ {w} PROVE OpenOK(tx[v], works', editions')
    <2>1. OpenOK(tx[v], works, editions) /\ Isolated(t, tx[v])
      BY DEF Safe
    <2>2. OpenOwnersExist(tx[v], works', editions')
      BY <1>2, <2>1 DEF OpenOK, OpenOwnersExist
    <2>3. Catalog!Unique(Over(tx[v].works, works')) /\ Catalog!Unique(Over(tx[v].editions, editions'))
      BY <1>1, <1>3, <2>1, UniqueOver DEF OpenOK, OpenKeysUnique, Isolated
    <2>4. \A x \in DOMAIN tx[v].works \cap DOMAIN works' : tx[v].works[x].key = works'[x].key
      BY <1>2, <2>1 DEF OpenOK, OpenKeysUnique, Isolated, Disjoint
    <2> QED BY <2>2, <2>3, <2>4 DEF OpenOK, OpenKeysUnique
  <1>7. /\ DOMAIN NoTx.works = {} /\ DOMAIN NoTx.editions = {} /\ NoTx.links = {}
        /\ NoTx.works = Empty /\ NoTx.editions = Empty
    BY DEF NoTx, Empty
  <1>8. OpenOK(NoTx, works', editions')
    <2>1. OpenOwnersExist(NoTx, works', editions')
      BY <1>7 DEF OpenOwnersExist
    <2>2. OpenKeysUnique(NoTx, works', editions')
      BY <1>5, <1>7, UniqueOverEmpty DEF OpenKeysUnique
    <2> QED BY <2>1, <2>2 DEF OpenOK
  <1>9. ASSUME NEW u \in Workers, NEW v \in Workers, u # v PROVE Isolated(tx'[u], tx'[v])
    <2>1. CASE u # w /\ v # w
      BY <1>1, <1>9, <2>1 DEF Safe
    <2>2. CASE u = w \/ v = w
      BY <1>1, <1>7, <2>2 DEF Isolated, Disjoint
    <2> QED BY <2>1, <2>2
  <1>10. KeysUnique'
    BY <1>5 DEF KeysUnique, Catalog!Unique
  <1>11. \A v \in Workers : OpenOK(tx'[v], works', editions')
    BY <1>1, <1>6, <1>8
  <1> QED BY <1>4, <1>9, <1>10, <1>11 DEF Safe

-----------------------------------------------------------------------------
(* What a transaction has written of its answer. *)

LEMMA WritesOnlyKeeps ==
  ASSUME NEW w, NEW s, NEW a, NEW t, NEW fresh, WritesOnly(s, a, t, fresh),
         Src(w)' = s, Ans(w)' = a, tx'[w] = t, Unnamed(w)' = fresh
  PROVE  WritesOnly(Src(w), Ans(w), tx[w], Unnamed(w))'
  <1>1. (DOMAIN tx[w].refs \subseteq Catalog!Names(Src(w), Ans(w)))'
    BY DEF WritesOnly, Catalog!Names, Catalog!Listed
  <1>2. (\A x \in DOMAIN tx[w].editions \ Unnamed(w) :
          \E e \in Catalog!Listed(Ans(w)) : Named(Src(w), tx[w], e, x) \/ tx[w].editions[x].key[2] = e.k)'
    BY DEF WritesOnly, Named, Catalog!Listed
  <1>3. (\A l \in tx[w].links :
          \E e \in Catalog!Listed(Ans(w)) : Named(Src(w), tx[w], e, l[1]) /\ l[2] \in e.links \cap AllowedLinks)'
    BY DEF WritesOnly, Named, Catalog!Listed
  <1> QED BY <1>1, <1>2, <1>3 DEF WritesOnly

(* A worker that does not move keeps what is known of its transaction,     *)
(* although others commit editions.                                        *)
LEMMA AnswerStays ==
  ASSUME NEW v, AnswerOK(v), pc'[v] = pc[v], job'[v] = job[v], loc'[v] = loc[v], tx'[v] = tx[v],
         DOMAIN editions \subseteq DOMAIN editions'
  PROVE  AnswerOK(v)'
  <1>1. DOMAIN ViewEditions(v) \subseteq DOMAIN ViewEditions(v)'
    BY DEF ViewEditions, Over
  <1>2. /\ Src(v)' = Src(v) /\ Ans(v)' = Ans(v) /\ Ed(v)' = Ed(v) /\ EdRef(v)' = EdRef(v)
        /\ Unnamed(v)' = Unnamed(v)
    BY DEF Src, Ans, Ed, EdRef, Unnamed
  <1>3. AtWork(v) => AtWork(v)'
    BY <1>1, <1>2 DEF AtWork
  <1>4. /\ WritesOnly(Src(v), Ans(v), tx[v], Unnamed(v))
        => WritesOnly(Src(v), Ans(v), tx[v], Unnamed(v))'
    BY <1>2, WritesOnlyKeeps
  <1>5. /\ WritesAll(Src(v), Ans(v), tx[v], loc[v].i)
        => WritesAll(Src(v), Ans(v), tx[v], loc[v].i)'
    BY <1>2 DEF WritesAll
  <1> QED BY <1>2, <1>3, <1>4, <1>5 DEF AnswerOK, BeforeWork, AfterWork

(* Outside a transaction, and in one that has not written yet.             *)
LEMMA NothingWritten ==
  ASSUME NEW w, pc'[w] \in BeforeWork, tx'[w] = NoTx
  PROVE  AnswerOK(w)'
  BY DEF AnswerOK, BeforeWork, AfterWork, AtEdition, EditionKnown

(* A step of w moves nobody else, and committed editions stay.             *)
LEMMA WrittenStep ==
  ASSUME Written, NEW w \in Workers, OnlyMoves(w), DOMAIN editions \subseteq DOMAIN editions', AnswerOK(w)'
  PROVE  Written'
  BY AnswerStays DEF Written, OnlyMoves

(* A step past the work's row: what the transaction has to be then.        *)
LEMMA AnswerGoesOn ==
  ASSUME NEW w, pc'[w] \in AfterWork, NEW s, NEW a, NEW t, NEW i, NEW fresh,
         job'[w].src = s, job'[w].ans = a, tx'[w] = t, loc'[w].i = i,
         \E id \in DOMAIN t.works : DOMAIN t.works = {id},
         WritesOnly(s, a, t, fresh), Unnamed(w)' = fresh,
         WritesAll(s, a, t, i), AtWork(w)'
  PROVE  AnswerOK(w)'
  <1>1. WritesOnly(Src(w), Ans(w), tx[w], Unnamed(w))'
    BY WritesOnlyKeeps DEF Src, Ans
  <1>2. WritesAll(Src(w), Ans(w), tx[w], loc[w].i)'
    BY DEF WritesAll, Src, Ans
  <1> QED BY <1>1, <1>2 DEF AnswerOK, BeforeWork, AfterWork, AtEdition, EditionKnown

(* A statement that reads, between two that write. *)
LEMMA AnswerReads ==
  ASSUME Written, NEW w \in Workers, pc[w] \in AfterWork \ {"saveEditionRef"},
         pc'[w] \in AfterWork \ {"saveEditionRef"}, UNCHANGED <<job, tx>>, loc'[w].i = loc[w].i, AtWork(w)'
  PROVE  AnswerOK(w)'
  <1>1. pc[w] \notin BeforeWork
    BY DEF BeforeWork, AfterWork, AtEdition, EditionKnown
  <1>2. /\ WritesOnly(Src(w), Ans(w), tx[w], {}) /\ WritesAll(Src(w), Ans(w), tx[w], loc[w].i)
        /\ \E id \in DOMAIN tx[w].works : DOMAIN tx[w].works = {id}
    <2>1. Unnamed(w) = {}
      BY DEF Unnamed
    <2> QED BY <1>1, <2>1 DEF Written, AnswerOK
  <1>3. Unnamed(w)' = {}
    BY DEF Unnamed
  <1>4. job'[w].src = Src(w) /\ job'[w].ans = Ans(w)
    BY DEF Src, Ans
  <1> QED BY <1>2, <1>3, <1>4, AnswerGoesOn

(* What is known at a label, of the statement and of the answer.           *)
LEMMA AtStatement ==
  ASSUME TypeOK, Written, NEW w \in Workers, pc[w] \in AfterWork
  PROVE  /\ AtWork(w) /\ WritesOnly(Src(w), Ans(w), tx[w], Unnamed(w))
         /\ WritesAll(Src(w), Ans(w), tx[w], loc[w].i)
         /\ \E id \in DOMAIN tx[w].works : DOMAIN tx[w].works = {id}
         /\ job[w].src \in Sources /\ Ans(w) \in Catalogue[Src(w)] /\ Len(Ans(w).eds) \in Nat /\ loc[w].i \in Nat
         /\ pc[w] \in AtEdition => loc[w].i \in 1..Len(Ans(w).eds)
  <1>1. pc[w] \notin BeforeWork /\ pc[w] # "idle" /\ pc[w] \in InTransaction
    BY DEF BeforeWork, AfterWork, AtEdition, EditionKnown, InTransaction
  <1>2. AnswerOK(w)
    BY DEF Written
  <1>3. LocalOK(w, pc[w]) /\ loc[w] \in Local
    BY Known
  <1>4. job[w].src \in Sources /\ Ans(w) \in Catalogue[Src(w)]
    BY <1>1, <1>3 DEF LocalOK, Ans, Src
  <1>5. Len(Ans(w).eds) \in Nat
    BY <1>4, AnswerShape DEF Src
  <1>6. loc[w].i \in Nat
    BY <1>3 DEF Local
  <1>7. pc[w] \in AtEdition => loc[w].i \in 1..Len(Ans(w).eds)
    BY <1>3 DEF LocalOK, Ans
  <1> QED BY <1>1, <1>2, <1>4, <1>5, <1>6, <1>7 DEF AnswerOK

LEMMA EdIsListed ==
  ASSUME TypeOK, Written, NEW w \in Workers, pc[w] \in AtEdition
  PROVE  Ed(w) \in Catalog!Listed(Ans(w)) /\ EdRef(w) = <<Src(w), Ed(w).ext>>
  <1>1. AtWork(w) /\ loc[w].i \in 1..Len(Ans(w).eds)
    BY AtStatement DEF AfterWork
  <1> QED BY <1>1 DEF AtWork, Ed, EdRef, Catalog!Listed

LEMMA AnswerNextEdition ==
  ASSUME TypeOK, Written, NEW w \in Workers, NextEdition(w)
  PROVE  AnswerOK(w)'
  <1> USE DEF AfterWork, AtEdition, EditionKnown
  <1>1. pc[w] = "edition" /\ UNCHANGED <<job, tx, editions>>
    BY DEF NextEdition
  <1>2. /\ WritesOnly(Src(w), Ans(w), tx[w], Unnamed(w)) /\ WritesAll(Src(w), Ans(w), tx[w], loc[w].i)
        /\ \E id \in DOMAIN tx[w].works : DOMAIN tx[w].works = {id}
        /\ Len(Ans(w).eds) \in Nat /\ loc[w].i \in Nat
    BY <1>1, AtStatement
  <1>3. CASE loc[w].i > Len(Ans(w).eds)
    <2>1. pc'[w] = "invalidate" /\ loc' = loc
      BY <1>3 DEF NextEdition, Goto, TypeOK
    <2>2. AtWork(w)'
      BY <1>1, <1>3, <2>1 DEF AtWork, Ans
    <2> QED BY <1>1, <2>1, <2>2, AnswerReads
  <1>4. CASE ~(loc[w].i > Len(Ans(w).eds)) /\ Ed(w).parses
    <2>1. pc'[w] = "findEditionRef" /\ loc' = loc
      BY <1>4 DEF NextEdition, Goto, TypeOK
    <2>2. AtWork(w)'
      BY <1>1, <1>4, <2>1 DEF AtWork, Ed, Ans
    <2> QED BY <1>1, <2>1, <2>2, AnswerReads
  <1>5. CASE ~(loc[w].i > Len(Ans(w).eds)) /\ ~Ed(w).parses
    <2>1. pc' = pc /\ loc' = [loc EXCEPT ![w].i = loc[w].i + 1]
      BY <1>5 DEF NextEdition
    <2>0. loc[w].i + 1 \in Nat
      BY <1>2
    <2>2. loc'[w].i = loc[w].i + 1 /\ pc'[w] = "edition"
      BY <1>1, <2>0, <2>1, SetIndex
    <2>3. WritesAll(Src(w), Ans(w), tx[w], loc[w].i + 1)
      <3>1. \A j \in 1..Len(Ans(w).eds) : Ans(w).eds[j].parses /\ j < loc[w].i + 1 => j < loc[w].i
        BY <1>2, <1>5 DEF Ed
      <3> QED BY <1>2, <3>1 DEF WritesAll
    <2>4. AtWork(w)'
      BY <2>2 DEF AtWork
    <2>5. Unnamed(w) = {} /\ Unnamed(w)' = {}
      BY <1>1, <2>2 DEF Unnamed
    <2>6. job'[w].src = Src(w) /\ job'[w].ans = Ans(w)
      BY <1>1 DEF Src, Ans
    <2> QED BY <1>1, <1>2, <2>2, <2>3, <2>4, <2>5, <2>6, AnswerGoesOn
  <1> QED BY <1>3, <1>4, <1>5

LEMMA AnswerFindEdition ==
  ASSUME TypeOK, Written, NEW w \in Workers, FindEditionRef(w) \/ FindEditionByKey(w)
  PROVE  AnswerOK(w)'
  <1> USE DEF AfterWork, AtEdition, EditionKnown
  <1>1. UNCHANGED <<job, tx, editions>> /\ pc[w] \in {"findEditionRef", "findEditionByKey"}
    BY DEF FindEditionRef, FindEditionByKey
  <1>2. AtWork(w) /\ loc[w].i \in Nat
    BY <1>1, AtStatement
  <1>3. CASE FindEditionRef(w) /\ EdRef(w) \in DOMAIN ViewRefs(w)
    <2> DEFINE id == ViewRefs(w)[EdRef(w)].id
    <2>1. id \in Nat
      BY <1>3, ViewsOK, Known DEF IsTable, RefRow
    <2>2. Goto(w, "editionSources") /\ loc' = [loc EXCEPT ![w].eid = id] /\ pc'[w] = "editionSources"
      BY <1>3 DEF FindEditionRef, Goto, TypeOK
    <2>3. loc'[w].eid = id /\ loc'[w].i = loc[w].i
      BY <2>1, <2>2, SetEid
    <2>4. EdRef(w) \in DOMAIN tx[w].refs => tx[w].refs[EdRef(w)].id = id
      BY DEF ViewRefs, Over
    <2>5. EdRef(w)' = EdRef(w) /\ Ed(w)' = Ed(w)
      BY <1>1, <2>3 DEF EdRef, Ed, Ans, Src
    <2>6. AtWork(w)'
      BY <1>1, <1>2, <2>2, <2>3, <2>4, <2>5 DEF AtWork
    <2> QED BY <1>1, <2>2, <2>3, <2>6, AnswerReads
  <1>4. CASE FindEditionRef(w) /\ EdRef(w) \notin DOMAIN ViewRefs(w)
    <2>1. loc' = loc /\ pc'[w] = "findEditionByKey" /\ pc[w] = "findEditionRef"
      BY <1>4 DEF FindEditionRef, Goto, TypeOK
    <2>2. EdRef(w)' = EdRef(w) /\ Ed(w)' = Ed(w) /\ EdRef(w) \notin DOMAIN tx[w].refs
      BY <1>1, <1>4, <2>1 DEF EdRef, Ed, Ans, Src, ViewRefs, Over
    <2>3. AtWork(w)'
      BY <1>1, <1>2, <2>1, <2>2 DEF AtWork
    <2> QED BY <1>1, <2>1, <2>3, AnswerReads
  <1>5. CASE FindEditionByKey(w)
    <2>1. pc'[w] = "editionSources" /\ pc[w] = "findEditionByKey"
      BY <1>5 DEF FindEditionByKey, Goto, TypeOK
    <2>2. loc'[w].i = loc[w].i
      BY <1>5 DEF FindEditionByKey, TypeOK, Local
    <2>3. EdRef(w)' = EdRef(w) /\ Ed(w)' = Ed(w)
      BY <1>1, <2>2 DEF EdRef, Ed, Ans, Src
    <2>4. AtWork(w)'
      BY <1>1, <1>2, <2>1, <2>3 DEF AtWork
    <2> QED BY <1>1, <2>1, <2>2, <2>4, AnswerReads
  <1> QED BY <1>3, <1>4, <1>5

(* Which row the edition will have: a new one carries the printing.        *)
LEMMA AnswerEditionRow ==
  ASSUME TypeOK, Written, NEW w \in Workers, ReadEditionSources(w) \/ ReadEdition(w)
  PROVE  AnswerOK(w)'
  <1> USE DEF AfterWork, AtEdition, EditionKnown
  <1>1. UNCHANGED <<job, tx, editions>> /\ pc[w] \in {"editionSources", "readEdition"}
    BY DEF ReadEditionSources, ReadEdition
  <1>2. AtWork(w) /\ loc[w].i \in Nat /\ loc[w].eid \in Ids
    BY <1>1, AtStatement, Known DEF LocalOK
  <1>3. NewEdition(w) \in EditionRow /\ NewEdition(w).key[2] = Ed(w).k
    <2>1. LocalOK(w, "editionSources")
      BY <1>1, Known DEF LocalOK, InTransaction, WorkKnown
    <2> QED BY <2>1, NewEditionRow DEF NewEdition, EdKey, EditionKey
  <1>4. CASE loc' = loc /\ Goto(w, "readEdition")
    <2>1. pc'[w] = "readEdition" /\ EdRef(w)' = EdRef(w) /\ Ed(w)' = Ed(w)
      BY <1>1, <1>4 DEF Goto, TypeOK, EdRef, Ed, Ans, Src
    <2>2. AtWork(w)'
      BY <1>1, <1>2, <1>4, <2>1 DEF AtWork
    <2> QED BY <1>1, <1>4, <2>1, <2>2, AnswerReads
  <1>5. ASSUME NEW row \in EditionRow, loc' = [loc EXCEPT ![w].erow = row], Goto(w, "updateEdition"),
               loc[w].eid \notin DOMAIN ViewEditions(w) => row.key[2] = Ed(w).k
        PROVE  AnswerOK(w)'
    <2>1. pc'[w] = "updateEdition" /\ loc'[w].erow = row /\ loc'[w].i = loc[w].i /\ loc'[w].eid = loc[w].eid
      BY <1>5, SetEditionRow DEF Goto, TypeOK
    <2>2. EdRef(w)' = EdRef(w) /\ Ed(w)' = Ed(w) /\ ViewEditions(w)' = ViewEditions(w)
      BY <1>1, <2>1 DEF EdRef, Ed, Ans, Src, ViewEditions
    <2>3. AtWork(w)'
      BY <1>1, <1>2, <1>5, <2>1, <2>2 DEF AtWork
    <2> QED BY <1>1, <2>1, <2>3, AnswerReads
  <1>6. CASE ReadEditionSources(w) /\ ~(loc' = loc /\ Goto(w, "readEdition"))
    BY <1>3, <1>5, <1>6 DEF ReadEditionSources
  <1>7. CASE ReadEdition(w)
    <2>1. \A id \in DOMAIN ViewEditions(w) : ViewEditions(w)[id] \in EditionRow
      BY ViewsOK DEF IsTable
    <2>2. CASE loc[w].eid \in DOMAIN ViewEditions(w)
      BY <1>5, <1>7, <2>1, <2>2 DEF ReadEdition
    <2>3. CASE loc[w].eid \notin DOMAIN ViewEditions(w)
      BY <1>3, <1>5, <1>7, <2>3 DEF ReadEdition
    <2> QED BY <2>2, <2>3
  <1> QED BY <1>4, <1>6, <1>7 DEF ReadEditionSources

LEMMA AnswerSaveWork ==
  ASSUME TypeOK, Written, NEW w \in Workers, SaveWork(w)
  PROVE  AnswerOK(w)'
  <1>1. CASE Abort(w)
    BY <1>1, NothingWritten DEF Abort, Goto, TypeOK, BeforeWork
  <1>2. ASSUME NEW id, tx' = [tx EXCEPT ![w].works = Put(@, id, loc[w].row)], Goto(w, "saveWorkRef")
        PROVE  AnswerOK(w)'
    <2> DEFINE t == [NoTx EXCEPT !.works = Put(NoTx.works, id, loc[w].row)]
    <2>1. tx[w] = NoTx
      BY DEF SaveWork, Written, AnswerOK, BeforeWork
    <2>2. tx'[w] = t
      BY <1>2, <2>1 DEF TypeOK
    <2>3. /\ DOMAIN t.works = {id} /\ DOMAIN t.editions = {} /\ DOMAIN t.refs = {} /\ t.links = {}
      BY DEF NoTx, Empty, Put
    <2>4. pc'[w] = "saveWorkRef"
      BY <1>2 DEF Goto, TypeOK
    <2> HIDE DEF t
    <2> QED BY <2>2, <2>3, <2>4 DEF AnswerOK, BeforeWork, AfterWork, AtEdition, EditionKnown
  <1> QED BY <1>1, <1>2 DEF SaveWork

LEMMA PutRef ==
  ASSUME TypeOK, NEW w \in Workers, NEW ref, NEW type, NEW id, SaveRef(w, ref, type, id)
  PROVE  \E row : /\ row.id = id
                  /\ tx'[w].refs = Put(tx[w].refs, ref, row)
                  /\ tx'[w].works = tx[w].works /\ tx'[w].editions = tx[w].editions
                  /\ tx'[w].links = tx[w].links
  <1> DEFINE row == [type |-> type, id |-> id]
  <1>1. tx' = [tx EXCEPT ![w].refs = Put(tx[w].refs, ref, row)] /\ row.id = id
    BY DEF SaveRef
  <1> HIDE DEF row
  <1>2. /\ tx'[w].refs = Put(tx[w].refs, ref, row)
        /\ tx'[w].works = tx[w].works /\ tx'[w].editions = tx[w].editions /\ tx'[w].links = tx[w].links
    BY <1>1, Known DEF TypeOK, TransactionOK
  <1> QED BY <1>1, <1>2

LEMMA AnswerSaveWorkRef ==
  ASSUME TypeOK, Written, NEW w \in Workers, SaveWorkRef(w)
  PROVE  AnswerOK(w)'
  <1> USE DEF AfterWork, AtEdition, EditionKnown
  <1>1. /\ pc[w] = "saveWorkRef" /\ pc'[w] = "edition" /\ UNCHANGED job
        /\ SaveRef(w, WorkRef(w), "work", loc[w].wid) /\ loc'[w].i = 1
    BY DEF SaveWorkRef, Goto, TypeOK, Local
  <1>2. /\ DOMAIN tx[w].editions = {} /\ DOMAIN tx[w].refs = {} /\ tx[w].links = {}
        /\ \E id \in DOMAIN tx[w].works : DOMAIN tx[w].works = {id}
    BY <1>1 DEF Written, AnswerOK, BeforeWork
  <1>3. /\ DOMAIN tx'[w].refs = {WorkRef(w)} /\ DOMAIN tx'[w].editions = {} /\ tx'[w].links = {}
        /\ tx'[w].works = tx[w].works
    <2>1. PICK row : /\ tx'[w].refs = Put(tx[w].refs, WorkRef(w), row) /\ tx'[w].works = tx[w].works
                     /\ tx'[w].editions = tx[w].editions /\ tx'[w].links = tx[w].links
      BY <1>1, PutRef
    <2> QED BY <1>2, <2>1 DEF Put
  <1>4. WritesOnly(Src(w), Ans(w), tx'[w], {})
    BY <1>3 DEF WritesOnly, Catalog!Names, WorkRef
  <1>5. Len(Ans(w).eds) \in Nat
    BY <1>1, Known, AnswerShape DEF LocalOK, InTransaction, Src, Ans
  <1>6. WritesAll(Src(w), Ans(w), tx'[w], 1)
    BY <1>3, <1>5 DEF WritesAll, WorkRef
  <1>7. AtWork(w)' /\ Unnamed(w)' = {}
    BY <1>1 DEF AtWork, Unnamed
  <1>8. job'[w].src = Src(w) /\ job'[w].ans = Ans(w)
    BY <1>1 DEF Src, Ans
  <1> QED BY <1>1, <1>2, <1>3, <1>4, <1>6, <1>7, <1>8, AnswerGoesOn

(* An edition row is written: under its own id, or as the row of its       *)
(* printing.                                                               *)
LEMMA AnswerPutEdition ==
  ASSUME TypeOK, Written, NEW w \in Workers, NEW id, PutEdition(w, id),
         pc[w] \in {"updateEdition", "insertEdition"},
         id = loc[w].eid \/ loc[w].erow.key[2] = Ed(w).k
  PROVE  AnswerOK(w)'
  <1> USE DEF AfterWork, AtEdition, EditionKnown
  <1>1. /\ pc'[w] = "saveEditionRef" /\ UNCHANGED <<job, loc>>
        /\ tx' = [tx EXCEPT ![w].editions = Put(@, id, loc[w].erow)]
    BY DEF PutEdition, Goto, TypeOK
  <1>2. /\ tx'[w].editions = Put(tx[w].editions, id, loc[w].erow)
        /\ tx'[w].works = tx[w].works /\ tx'[w].refs = tx[w].refs /\ tx'[w].links = tx[w].links
    BY <1>1, Known DEF TypeOK, TransactionOK
  <1>3. /\ WritesOnly(Src(w), Ans(w), tx[w], {}) /\ WritesAll(Src(w), Ans(w), tx[w], loc[w].i)
        /\ AtWork(w) /\ \E x \in DOMAIN tx[w].works : DOMAIN tx[w].works = {x}
    <2>1. Unnamed(w) = {}
      BY DEF Unnamed
    <2> QED BY <2>1, AtStatement
  <1>4. WritesOnly(Src(w), Ans(w), tx'[w], {loc[w].eid})
    <2>1. ASSUME NEW x \in DOMAIN tx'[w].editions \ {loc[w].eid}
          PROVE  \E e \in Catalog!Listed(Ans(w)) :
                   Named(Src(w), tx'[w], e, x) \/ tx'[w].editions[x].key[2] = e.k
      <3>1. CASE x = id
        <4>1. tx'[w].editions[x] = loc[w].erow
          BY <1>2, <3>1 DEF Put
        <4> QED BY <3>1, <4>1, EdIsListed
      <3>2. CASE x # id
        <4>1. x \in DOMAIN tx[w].editions /\ tx'[w].editions[x] = tx[w].editions[x]
          BY <1>2, <3>2 DEF Put
        <4> QED BY <1>2, <1>3, <4>1 DEF WritesOnly, Named
      <3> QED BY <3>1, <3>2
    <2>2. \A l \in tx'[w].links :
            \E e \in Catalog!Listed(Ans(w)) : Named(Src(w), tx'[w], e, l[1]) /\ l[2] \in e.links \cap AllowedLinks
      BY <1>2, <1>3 DEF WritesOnly, Named
    <2>3. DOMAIN tx'[w].refs \subseteq Catalog!Names(Src(w), Ans(w))
      BY <1>2, <1>3 DEF WritesOnly
    <2> QED BY <2>1, <2>2, <2>3 DEF WritesOnly
  <1>5. WritesAll(Src(w), Ans(w), tx'[w], loc[w].i)
    BY <1>2, <1>3 DEF WritesAll
  <1>6. AtWork(w)' /\ Unnamed(w)' = {loc[w].eid}
    <2>1. EdRef(w)' = EdRef(w) /\ Ed(w)' = Ed(w)
      BY <1>1 DEF EdRef, Ed, Ans, Src
    <2> QED BY <1>1, <1>2, <1>3, <2>1 DEF AtWork, Unnamed
  <1>7. job'[w].src = Src(w) /\ job'[w].ans = Ans(w) /\ loc'[w].i = loc[w].i
    BY <1>1 DEF Src, Ans
  <1>8. \E x \in DOMAIN tx'[w].works : DOMAIN tx'[w].works = {x}
    BY <1>2, <1>3
  <1> QED BY <1>1, <1>4, <1>5, <1>6, <1>7, <1>8, AnswerGoesOn

LEMMA AnswerWriteEdition ==
  ASSUME TypeOK, Written, NEW w \in Workers, UpdateEdition(w) \/ InsertEdition(w)
  PROVE  AnswerOK(w)'
  <1> USE DEF AfterWork, AtEdition, EditionKnown
  <1>1. pc[w] \in {"updateEdition", "insertEdition"}
    BY DEF UpdateEdition, InsertEdition
  <1>2. AtWork(w)
    BY <1>1, AtStatement
  <1>3. CASE Abort(w)
    BY <1>3, NothingWritten DEF Abort, Goto, TypeOK, BeforeWork
  <1>4. CASE UpdateEdition(w) /\ loc[w].eid \notin DOMAIN ViewEditions(w)
    <2>1. pc[w] = "updateEdition" /\ pc'[w] = "insertEdition" /\ UNCHANGED <<job, loc, tx, editions>>
      BY <1>4 DEF UpdateEdition, Goto, TypeOK
    <2>2. EdRef(w)' = EdRef(w) /\ Ed(w)' = Ed(w)
      BY <2>1 DEF EdRef, Ed, Ans, Src
    <2>3. AtWork(w)'
      BY <1>2, <1>4, <2>1, <2>2 DEF AtWork
    <2> QED BY <2>1, <2>3, AnswerReads
  <1>5. CASE UpdateEdition(w) /\ PutEdition(w, loc[w].eid)
    BY <1>1, <1>5, AnswerPutEdition
  <1>6. ASSUME NEW id, InsertEdition(w), PutEdition(w, id)
        PROVE  AnswerOK(w)'
    <2>1. loc[w].erow.key[2] = Ed(w).k
      BY <1>2, <1>6 DEF AtWork, InsertEdition
    <2> QED BY <1>1, <1>6, <2>1, AnswerPutEdition
  <1> QED BY <1>3, <1>4, <1>5, <1>6 DEF UpdateEdition, InsertEdition

(* The name of an edition is written, with the id it has if it has one.    *)
LEMMA AnswerSaveEditionRef ==
  ASSUME TypeOK, Written, NEW w \in Workers, SaveEditionRef(w)
  PROVE  AnswerOK(w)'
  <1> USE DEF AfterWork, AtEdition, EditionKnown
  <1>1. /\ pc[w] = "saveEditionRef" /\ pc'[w] = "saveLinks" /\ UNCHANGED <<job, loc>>
        /\ SaveRef(w, EdRef(w), "edition", loc[w].eid)
    BY DEF SaveEditionRef, Goto, TypeOK
  <1> DEFINE t == tx'[w]
             s == Src(w)
             a == Ans(w)
  <1>2. PICK row : /\ row.id = loc[w].eid /\ t.refs = Put(tx[w].refs, EdRef(w), row)
                   /\ t.works = tx[w].works /\ t.editions = tx[w].editions /\ t.links = tx[w].links
    BY <1>1, PutRef
  <1>3. /\ WritesOnly(s, a, tx[w], {loc[w].eid}) /\ WritesAll(s, a, tx[w], loc[w].i)
        /\ AtWork(w) /\ \E x \in DOMAIN tx[w].works : DOMAIN tx[w].works = {x}
    <2>1. Unnamed(w) = {loc[w].eid}
      BY <1>1 DEF Unnamed
    <2> QED BY <1>1, <2>1, AtStatement
  <1>4. Ed(w) \in Catalog!Listed(a) /\ EdRef(w) = <<s, Ed(w).ext>>
    BY <1>1, EdIsListed
  <1>5. EdRef(w) \in DOMAIN tx[w].refs => tx[w].refs[EdRef(w)].id = loc[w].eid
    BY <1>1, <1>3 DEF AtWork
  <1>6. /\ DOMAIN t.refs = DOMAIN tx[w].refs \cup {EdRef(w)} /\ t.refs[EdRef(w)].id = loc[w].eid
        /\ \A r \in DOMAIN tx[w].refs : t.refs[r].id = tx[w].refs[r].id
    BY <1>2, <1>5 DEF Put
  <1> HIDE DEF t, s, a
  <1>7. WritesOnly(s, a, t, {})
    <2>1. \A e, x : Named(s, tx[w], e, x) => Named(s, t, e, x)
      BY <1>6 DEF Named
    <2>2. Named(s, t, Ed(w), loc[w].eid)
      BY <1>4, <1>6 DEF Named
    <2>3. DOMAIN t.refs \subseteq Catalog!Names(s, a)
      BY <1>3, <1>4, <1>6 DEF WritesOnly, Catalog!Names
    <2>4. \A x \in DOMAIN t.editions :
            \E e \in Catalog!Listed(a) : Named(s, t, e, x) \/ t.editions[x].key[2] = e.k
      BY <1>2, <1>3, <1>4, <2>1, <2>2 DEF WritesOnly
    <2>5. \A l \in t.links :
            \E e \in Catalog!Listed(a) : Named(s, t, e, l[1]) /\ l[2] \in e.links \cap AllowedLinks
      BY <1>2, <1>3, <2>1 DEF WritesOnly
    <2> QED BY <2>3, <2>4, <2>5 DEF WritesOnly
  <1>8. WritesAll(s, a, t, loc[w].i)
    BY <1>2, <1>3, <1>6 DEF WritesAll
  <1>9. AtWork(w)' /\ Unnamed(w)' = {}
    <2>1. EdRef(w)' = EdRef(w) /\ Ed(w)' = Ed(w)
      BY <1>1 DEF EdRef, Ed, Ans, Src
    <2> QED BY <1>1, <1>3, <1>6, <2>1 DEF AtWork, Unnamed, t
  <1>10. job'[w].src = s /\ job'[w].ans = a /\ loc'[w].i = loc[w].i /\ pc'[w] \in AfterWork /\ tx'[w] = t
    BY <1>1 DEF Src, Ans, s, a, t
  <1>11. \E x \in DOMAIN t.works : DOMAIN t.works = {x}
    BY <1>2, <1>3
  <1> QED BY <1>7, <1>8, <1>9, <1>10, <1>11, AnswerGoesOn

LEMMA AnswerSaveLinks ==
  ASSUME TypeOK, Written, NEW w \in Workers, SaveLinks(w)
  PROVE  AnswerOK(w)'
  <1> USE DEF AfterWork, AtEdition, EditionKnown
  <1>1. CASE Abort(w)
    BY <1>1, NothingWritten DEF Abort, Goto, TypeOK, BeforeWork
  <1> DEFINE t == tx'[w]
             s == Src(w)
             a == Ans(w)
             n == loc[w].i
             more == {<<loc[w].eid, l>> : l \in Ed(w).links \cap AllowedLinks}
  <1>2. CASE ~Abort(w)
    <2>1. /\ pc[w] = "saveLinks" /\ pc'[w] = "edition" /\ UNCHANGED job
          /\ loc' = [loc EXCEPT ![w].i = n + 1] /\ tx' = [tx EXCEPT ![w].links = tx[w].links \cup more]
      BY <1>2 DEF SaveLinks, Goto, TypeOK
    <2>2. /\ WritesOnly(s, a, tx[w], {}) /\ WritesAll(s, a, tx[w], n)
          /\ AtWork(w) /\ \E x \in DOMAIN tx[w].works : DOMAIN tx[w].works = {x}
          /\ n \in 1..Len(a.eds) /\ Len(a.eds) \in Nat
      <3>1. Unnamed(w) = {}
        BY <2>1 DEF Unnamed
      <3> QED BY <2>1, <3>1, AtStatement
    <2>3. n \in Nat /\ n + 1 \in Nat /\ loc'[w].i = n + 1
      <3>1. n \in Nat /\ n + 1 \in Nat
        BY <2>2
      <3> QED BY <2>1, <3>1, SetIndex
    <2>4. /\ t.links = tx[w].links \cup more
          /\ t.works = tx[w].works /\ t.editions = tx[w].editions /\ t.refs = tx[w].refs
      BY <2>1, Known DEF TypeOK, TransactionOK
    <2>5. Ed(w) \in Catalog!Listed(a) /\ EdRef(w) = <<s, Ed(w).ext>> /\ Ed(w) = a.eds[n]
      BY <2>1, EdIsListed DEF Ed
    <2>6. EdRef(w) \in DOMAIN t.refs /\ t.refs[EdRef(w)].id = loc[w].eid
      BY <2>1, <2>2, <2>4 DEF AtWork
    <2>7. \A l \in Ed(w).links \cap AllowedLinks : <<loc[w].eid, l>> \in t.links
      BY <2>4
    <2>8. \A m \in t.links : m \in tx[w].links \/ \E l \in Ed(w).links \cap AllowedLinks : m = <<loc[w].eid, l>>
      BY <2>4
    <2> HIDE DEF t, s, a, more, n
    <2>9. WritesOnly(s, a, t, {})
      <3>1. \A e, x : Named(s, tx[w], e, x) => Named(s, t, e, x)
        BY <2>4 DEF Named
      <3>2. Named(s, t, Ed(w), loc[w].eid)
        BY <2>5, <2>6 DEF Named
      <3>3. ASSUME NEW m \in t.links
            PROVE  \E e \in Catalog!Listed(a) : Named(s, t, e, m[1]) /\ m[2] \in e.links \cap AllowedLinks
        <4>1. CASE m \in tx[w].links
          BY <2>2, <3>1, <4>1 DEF WritesOnly
        <4>2. ASSUME NEW l \in Ed(w).links \cap AllowedLinks, m = <<loc[w].eid, l>>
              PROVE  \E e \in Catalog!Listed(a) : Named(s, t, e, m[1]) /\ m[2] \in e.links \cap AllowedLinks
          BY <2>5, <3>2, <4>2
        <4> QED BY <2>8, <4>1, <4>2
      <3>4. \A x \in DOMAIN t.editions :
              \E e \in Catalog!Listed(a) : Named(s, t, e, x) \/ t.editions[x].key[2] = e.k
        BY <2>2, <2>4, <3>1 DEF WritesOnly
      <3>5. DOMAIN t.refs \subseteq Catalog!Names(s, a)
        BY <2>2, <2>4 DEF WritesOnly
      <3> QED BY <3>3, <3>4, <3>5 DEF WritesOnly
    <2>10. WritesAll(s, a, t, n + 1)
      <3>1. ASSUME NEW j \in 1..Len(a.eds), a.eds[j].parses, j < n + 1
            PROVE  /\ <<s, a.eds[j].ext>> \in DOMAIN t.refs
                   /\ \A l \in a.eds[j].links \cap AllowedLinks :
                        <<t.refs[<<s, a.eds[j].ext>>].id, l>> \in t.links
        <4>1. CASE j = n
          BY <2>5, <2>6, <2>7, <4>1
        <4>2. CASE j < n
          <5>1. tx[w].links \subseteq t.links
            BY <2>4
          <5> QED BY <2>2, <2>4, <3>1, <4>2, <5>1 DEF WritesAll
        <4> QED BY <2>2, <2>3, <3>1, <4>1, <4>2
      <3> QED BY <2>2, <2>4, <3>1 DEF WritesAll
    <2>11. AtWork(w)' /\ Unnamed(w)' = {}
      BY <2>1 DEF AtWork, Unnamed
    <2>12. job'[w].src = s /\ job'[w].ans = a /\ pc'[w] \in AfterWork /\ tx'[w] = t
      BY <2>1 DEF Src, Ans, s, a, t
    <2>13. \E x \in DOMAIN t.works : DOMAIN t.works = {x}
      BY <2>2, <2>4
    <2> QED BY <2>3, <2>9, <2>10, <2>11, <2>12, <2>13, AnswerGoesOn
  <1> QED BY <1>1, <1>2

LEMMA AnswerInvalidateCache ==
  ASSUME TypeOK, Written, NEW w \in Workers, InvalidateCache(w)
  PROVE  AnswerOK(w)'
  <1> USE DEF AfterWork, AtEdition, EditionKnown
  <1>1. pc[w] = "invalidate" /\ pc'[w] = "commit" /\ UNCHANGED <<job, loc, tx, editions>>
    BY DEF InvalidateCache, Goto, TypeOK
  <1>2. AtWork(w)'
    BY <1>1, AtStatement DEF AtWork, Ans
  <1> QED BY <1>1, <1>2, AnswerReads

(* The steps outside what is written, and those that end a transaction.    *)
LEMMA AnswerOutside ==
  ASSUME TypeOK, Written, NEW w \in Workers,
         \/ StartSync(w) \/ FindTopMatch(w) \/ CheckAnswer(w) \/ FetchDetails(w)
         \/ FindWorkRef(w) \/ FindWorkByKey(w) \/ ReadWorkSources(w) \/ ReadWork(w)
         \/ Commit(w) \/ RecordSuccess(w) \/ RecordError(w)
         \/ DeadlockAbort(w) \/ Fail(w) \/ Crash(w)
  PROVE  AnswerOK(w)'
  <1>1. CASE \/ StartSync(w) \/ FindTopMatch(w) \/ CheckAnswer(w) \/ FetchDetails(w)
             \/ FindWorkRef(w) \/ FindWorkByKey(w) \/ ReadWorkSources(w) \/ ReadWork(w)
    <2>1. pc[w] \in BeforeWork /\ pc'[w] \in BeforeWork /\ UNCHANGED tx
      BY <1>1 DEF StartSync, FindTopMatch, CheckAnswer, FetchDetails, FindWorkRef, FindWorkByKey,
                  ReadWorkSources, ReadWork, Goto, TypeOK, BeforeWork
    <2> QED BY <2>1, NothingWritten DEF Written, AnswerOK
  <1>2. CASE Commit(w) \/ Abort(w) \/ RecordError(w) \/ Crash(w) \/ (RecordSuccess(w) /\ Reset(w))
    <2>1. pc'[w] \in BeforeWork /\ tx'[w] = NoTx
      BY <1>2 DEF Commit, Abort, RecordError, Crash, Reset, Goto, TypeOK, BeforeWork
    <2> QED BY <2>1, NothingWritten
  <1> QED BY <1>1, <1>2 DEF RecordSuccess, DeadlockAbort, Fail

LEMMA StepMovesOne ==
  ASSUME TypeOK, NEW w \in Workers, SyncStep(w)
  PROVE  OnlyMoves(w) /\ DOMAIN editions \subseteq DOMAIN editions'
  <1> USE DEF OnlyMoves, TypeOK, Goto
  <1>1. CASE StartSync(w) \/ FindTopMatch(w) \/ CheckAnswer(w) \/ FetchDetails(w)
    BY <1>1 DEF StartSync, FindTopMatch, CheckAnswer, FetchDetails
  <1>2. CASE Abort(w)
    BY <1>2 DEF Abort
  <1>3. CASE FindWorkRef(w) \/ FindWorkByKey(w) \/ ReadWorkSources(w) \/ ReadWork(w)
    BY <1>3 DEF FindWorkRef, FindWorkByKey, ReadWorkSources, ReadWork
  <1>4. CASE SaveWork(w) \/ SaveWorkRef(w)
    BY <1>2, <1>4 DEF SaveWork, SaveWorkRef, SaveRef
  <1>5. CASE NextEdition(w) \/ FindEditionRef(w) \/ FindEditionByKey(w)
    BY <1>5 DEF NextEdition, FindEditionRef, FindEditionByKey
  <1>6. CASE ReadEditionSources(w) \/ ReadEdition(w)
    BY <1>6 DEF ReadEditionSources, ReadEdition
  <1>7. CASE UpdateEdition(w) \/ InsertEdition(w)
    BY <1>2, <1>7 DEF UpdateEdition, InsertEdition, PutEdition
  <1>8. CASE SaveEditionRef(w) \/ SaveLinks(w) \/ InvalidateCache(w)
    BY <1>2, <1>8 DEF SaveEditionRef, SaveRef, SaveLinks, InvalidateCache
  <1>9. CASE Commit(w)
    BY <1>9 DEF Commit, ViewEditions, Over
  <1>10. CASE RecordSuccess(w) \/ RecordError(w) \/ Crash(w)
    BY <1>2, <1>10 DEF RecordSuccess, RecordError, Crash, Reset
  <1> QED BY <1>1, <1>2, <1>3, <1>4, <1>5, <1>6, <1>7, <1>8, <1>9, <1>10
          DEF SyncStep, Proceed, Statement, DeadlockAbort, Fail

LEMMA WrittenNext == TypeOK /\ Written /\ SyncNext => Written'
  <1> SUFFICES ASSUME TypeOK, Written, NEW w \in Workers, SyncStep(w) PROVE Written'
    BY DEF SyncNext
  <1>1. AnswerOK(w)'
    <2>1. CASE Statement(w)
      BY <2>1, AnswerOutside, AnswerSaveWork, AnswerSaveWorkRef, AnswerNextEdition, AnswerFindEdition,
         AnswerEditionRow, AnswerWriteEdition, AnswerSaveEditionRef, AnswerSaveLinks, AnswerInvalidateCache
      DEF Statement
    <2> QED BY <2>1, AnswerOutside DEF SyncStep, Proceed
  <1> QED BY <1>1, StepMovesOne, WrittenStep

-----------------------------------------------------------------------------
(* Every step. *)

LEMMA SafeInit == Init => Safe
  <1> SUFFICES ASSUME Init PROVE Safe
    OBVIOUS
  <1>1. DOMAIN Empty = {}
    BY DEF Empty
  <1>2. OwnersExist /\ KeysUnique
    BY <1>1 DEF Init, OwnersExist, KeysUnique, Catalog!Unique
  <1>3. ASSUME NEW w \in Workers PROVE OpenOK(tx[w], works, editions)
    <2>1. tx[w].works = Empty /\ tx[w].editions = Empty /\ tx[w].links = {}
      BY DEF Init, NoTx
    <2>2. OpenOwnersExist(tx[w], works, editions)
      BY <1>1, <2>1 DEF OpenOwnersExist
    <2>3. OpenKeysUnique(tx[w], works, editions)
      BY <1>1, <1>2, <2>1, UniqueOverEmpty DEF OpenKeysUnique, KeysUnique
    <2> QED BY <2>2, <2>3 DEF OpenOK
  <1>4. ASSUME NEW v \in Workers, NEW w \in Workers PROVE Isolated(tx[v], tx[w])
    BY <1>1 DEF Init, NoTx, Isolated, Disjoint
  <1> QED BY <1>2, <1>3, <1>4 DEF Safe

(* The steps that read, and those before the transaction.                  *)
LEMMA SafeRead ==
  ASSUME Safe, NEW w \in Workers,
         \/ StartSync(w) \/ FindTopMatch(w) \/ CheckAnswer(w) \/ FetchDetails(w)
         \/ FindWorkRef(w) \/ FindWorkByKey(w) \/ ReadWorkSources(w) \/ ReadWork(w)
         \/ NextEdition(w) \/ FindEditionRef(w) \/ FindEditionByKey(w)
         \/ ReadEditionSources(w) \/ ReadEdition(w) \/ InvalidateCache(w)
  PROVE  Safe'
  <1>1. UNCHANGED <<works, editions, links, syncLog, tx>>
    BY DEF StartSync, FindTopMatch, CheckAnswer, FetchDetails, FindWorkRef, FindWorkByKey,
           ReadWorkSources, ReadWork, NextEdition, FindEditionRef, FindEditionByKey,
           ReadEditionSources, ReadEdition, InvalidateCache
  <1> QED BY <1>1, SafeStays

LEMMA SafeRecordSuccess ==
  ASSUME TypeOK, Safe, NEW w \in Workers, RecordSuccess(w)
  PROVE  Safe'
  <1>1. CASE Abort(w)
    BY <1>1, SafeEnd, LogSafe DEF Abort
  <1>2. CASE ~Abort(w)
    <2> DEFINE entry == [src |-> Src(w), work |-> loc[w].wid, status |-> "ok"]
    <2>1. /\ loc[w].wid \in DOMAIN works /\ syncLog' = syncLog \cup {entry}
          /\ tx' = [tx EXCEPT ![w] = NoTx] /\ UNCHANGED <<works, editions, links>>
      BY <1>2 DEF RecordSuccess, Reset
    <2>2. entry.work = loc[w].wid
      OBVIOUS
    <2> HIDE DEF entry
    <2>3. \A r \in syncLog' : r.status = "ok" => r.work \in DOMAIN works
      BY <2>1, <2>2, LogSafe
    <2> QED BY <2>1, <2>3, SafeEnd
  <1> QED BY <1>1, <1>2

LEMMA SafeRecordError ==
  ASSUME TypeOK, Safe, NEW w \in Workers, RecordError(w)
  PROVE  Safe'
  <1> DEFINE entry == [src |-> Src(w), work |-> None, status |-> "error"]
  <1>1. /\ syncLog' = syncLog \cup {entry}
        /\ tx' = [tx EXCEPT ![w] = NoTx] /\ UNCHANGED <<works, editions, links>>
    BY DEF RecordError, Reset
  <1>2. entry.status # "ok"
    OBVIOUS
  <1> HIDE DEF entry
  <1>3. \A r \in syncLog' : r.status = "ok" => r.work \in DOMAIN works
    BY <1>1, <1>2, LogSafe
  <1> QED BY <1>1, <1>3, SafeEnd

LEMMA SafeNext == Inv /\ SyncNext => Safe'
  <1> SUFFICES ASSUME TypeOK, Safe, NEW w \in Workers, SyncStep(w) PROVE Safe'
    BY DEF SyncNext, Inv
  <1>1. CASE StartSync(w) \/ FindTopMatch(w) \/ CheckAnswer(w) \/ FetchDetails(w)
    BY <1>1, SafeRead
  <1>2. CASE Statement(w)
    BY <1>2, SafeRead, SafeSaveWork, SafeSaveRef, SafeUpdateEdition, SafeInsertEdition,
       SafeSaveLinks, SafeCommit
    DEF Statement
  <1>3. CASE RecordSuccess(w) \/ RecordError(w)
    BY <1>3, SafeRecordSuccess, SafeRecordError
  <1>4. CASE DeadlockAbort(w) \/ Fail(w)
    BY <1>4, SafeEnd, LogSafe DEF DeadlockAbort, Fail, Abort
  <1>5. CASE Crash(w)
    BY <1>5, SafeEnd, LogSafe DEF Crash, Reset
  <1> QED BY <1>1, <1>2, <1>3, <1>4, <1>5 DEF SyncStep, Proceed

LEMMA InvNext == Inv /\ [SyncNext]_vars => Inv'
  <1>1. Inv /\ UNCHANGED vars => Safe'
    BY SafeStays DEF Inv, vars
  <1>2. Inv /\ UNCHANGED vars => Written'
    BY AnswerStays DEF Inv, vars, Written
  <1> QED BY <1>1, <1>2, SafeNext, TypeNext, TypeUnchanged, WrittenNext DEF Inv

(* The inductive invariant holds of every interleaving of any number of    *)
(* syncs, with failures and crashes anywhere.                              *)
THEOREM InvHolds == SafeSpec => []Inv
  <1>1. Init => Written
    BY DEF Init, Written, AnswerOK, BeforeWork, AfterWork, AtEdition, EditionKnown
  <1>2. Init => Inv
    BY <1>1, TypeInit, SafeInit DEF Inv
  <1> QED BY <1>2, InvNext, PTL DEF SafeSpec

(* No two works and no two editions ever share a natural key.              *)
THEOREM KeysStayUnique == SafeSpec => []KeysUnique
  <1>1. Inv => KeysUnique
    BY DEF Inv, Safe
  <1> QED BY <1>1, InvHolds, PTL

(* Editions, links and successful syncs never lose their owner.            *)
THEOREM OwnersAlwaysExist == SafeSpec => []OwnersExist
  <1>1. Inv => OwnersExist
    BY DEF Inv, Safe
  <1> QED BY <1>1, InvHolds, PTL

(* Works and editions keep their ids, and works the key they have.         *)
THEOREM IdsStayStable == SafeSpec => IdsStable
  <1> DEFINE Kept == /\ \A id \in DOMAIN works : id \in DOMAIN works' /\ works'[id].key = works[id].key
                     /\ DOMAIN editions \subseteq DOMAIN editions'
  <1>1. Inv /\ SyncNext => Kept
    <2> SUFFICES ASSUME Inv, NEW w \in Workers, SyncStep(w) PROVE Kept
      BY DEF SyncNext
    <2>1. CASE Commit(w)
      <3>1. works' = Over(tx[w].works, works) /\ editions' = Over(tx[w].editions, editions)
        BY <2>1 DEF Commit, ViewWorks, ViewEditions
      <3>2. OpenOK(tx[w], works, editions)
        BY DEF Inv, Safe
      <3> QED BY <3>1, <3>2 DEF OpenOK, OpenKeysUnique, Over
    <2>2. CASE ~Commit(w)
      <3>1. UNCHANGED <<works, editions>>
        BY <2>2 DEF SyncStep, StartSync, Proceed, FindTopMatch, CheckAnswer, FetchDetails,
          Statement, FindWorkRef, FindWorkByKey, ReadWorkSources, ReadWork, SaveWork,
          SaveWorkRef, NextEdition, FindEditionRef, FindEditionByKey, ReadEditionSources,
          ReadEdition, UpdateEdition, InsertEdition, PutEdition, SaveEditionRef, SaveLinks,
          InvalidateCache, RecordSuccess, RecordError, DeadlockAbort, Fail, Crash, Abort
      <3> QED BY <3>1
    <2> QED BY <2>1, <2>2
  <1>2. Inv /\ [SyncNext]_vars => [Kept]_vars
    BY <1>1
  <1> QED BY <1>2, InvHolds, PTL DEF SafeSpec, IdsStable

-----------------------------------------------------------------------------
(* The catalogue changes by whole publications. *)

(* A commit is the publication of its worker's answer. *)
LEMMA CommitPublishes ==
  ASSUME Inv, Safe', NEW w \in Workers, Commit(w)
  PROVE  Src(w) \in Sources /\ Ans(w) \in Catalogue[Src(w)] /\ Catalog!Publish(Src(w), Ans(w))
  <1> DEFINE t == tx[w]
             s == Src(w)
             a == Ans(w)
             listed == Catalog!Listed(a)
  <1>1. /\ works' = Over(t.works, works) /\ editions' = Over(t.editions, editions)
        /\ refs' = Over(t.refs, refs) /\ links' = links \cup t.links /\ pc[w] = "commit"
    BY DEF Commit, ViewWorks, ViewEditions, ViewRefs
  <1>2. /\ TypeOK /\ Written /\ pc[w] \in AfterWork /\ Unnamed(w) = {}
    BY <1>1 DEF Inv, AfterWork, Unnamed
  <1>3. /\ WritesOnly(s, a, t, {}) /\ WritesAll(s, a, t, loc[w].i) /\ loc[w].i > Len(a.eds)
        /\ s \in Sources /\ a \in Catalogue[s] /\ Len(a.eds) \in Nat /\ loc[w].i \in Nat
    BY <1>1, <1>2, AtStatement DEF AtWork, Src
  <1>4. PICK id \in DOMAIN t.works : DOMAIN t.works = {id}
    BY <1>2, AtStatement
  <1>5. ASSUME NEW e \in listed
        PROVE  /\ <<s, e.ext>> \in DOMAIN t.refs
               /\ \A l \in e.links \cap AllowedLinks : <<t.refs[<<s, e.ext>>].id, l>> \in t.links
    <2>1. PICK j \in 1..Len(a.eds) : e = a.eds[j] /\ a.eds[j].parses
      BY DEF Catalog!Listed
    <2>2. j < loc[w].i
      BY <1>3
    <2> QED BY <1>3, <2>1, <2>2 DEF WritesAll
  <1>6. <<s, a.ext>> \in DOMAIN t.refs
    BY <1>3 DEF WritesAll
  <1> HIDE DEF t, s, a
  <1>7. /\ DOMAIN refs' = DOMAIN t.refs \cup DOMAIN refs
        /\ \A r \in DOMAIN t.refs : refs'[r] = t.refs[r]
        /\ \A r \in DOMAIN refs \ DOMAIN t.refs : refs'[r] = refs[r]
        /\ DOMAIN editions' = DOMAIN t.editions \cup DOMAIN editions
        /\ \A x \in DOMAIN t.editions : editions'[x] = t.editions[x]
        /\ \A x \in DOMAIN editions \ DOMAIN t.editions : editions'[x] = editions[x]
        /\ DOMAIN works' = DOMAIN t.works \cup DOMAIN works
        /\ \A x \in DOMAIN works \ DOMAIN t.works : works'[x] = works[x]
    BY <1>1 DEF Over
  <1>8. Catalog!OnlyChanges(refs, refs', Catalog!Names(s, a)) /\ Catalog!Names(s, a) \subseteq DOMAIN refs'
    <2>1. Catalog!Names(s, a) \subseteq DOMAIN t.refs /\ DOMAIN t.refs \subseteq Catalog!Names(s, a)
      BY <1>3, <1>5, <1>6 DEF Catalog!Names, WritesOnly, t, s, a
    <2> QED BY <1>7, <2>1 DEF Catalog!OnlyChanges
  <1>9. Catalog!OnlyChanges(works, works', {id}) /\ id \in DOMAIN works'
    BY <1>4, <1>7 DEF Catalog!OnlyChanges, t
  <1>10. \A e \in listed : \A x : Named(s, t, e, x) => Catalog!RowOf(s, e) = x
    BY <1>7 DEF Named, Catalog!RowOf
  <1>11. Catalog!OnlyChanges(editions, editions',
           {x \in DOMAIN editions' : \E e \in listed : Catalog!RowOf(s, e) = x \/ editions'[x].key[2] = e.k})
    <2>1. \A x \in DOMAIN t.editions :
            \E e \in listed : Catalog!RowOf(s, e) = x \/ editions'[x].key[2] = e.k
      BY <1>3, <1>7, <1>10 DEF WritesOnly, t, s, a
    <2> HIDE DEF listed
    <2> QED BY <1>7, <2>1 DEF Catalog!OnlyChanges
  <1>12. /\ links \subseteq links'
         /\ \A e \in listed : \A l \in e.links \cap AllowedLinks : <<Catalog!RowOf(s, e), l>> \in links'
         /\ \A l \in links' \ links :
              \E e \in listed : l[1] = Catalog!RowOf(s, e) /\ l[2] \in e.links \cap AllowedLinks
    <2>1. links' = links \cup t.links
      BY <1>1 DEF t
    <2>2. ASSUME NEW e \in listed, NEW l \in e.links \cap AllowedLinks
          PROVE  <<Catalog!RowOf(s, e), l>> \in links'
      BY <1>5, <1>7, <2>1 DEF Catalog!RowOf
    <2>3. \A l \in t.links :
            \E e \in listed : l[1] = Catalog!RowOf(s, e) /\ l[2] \in e.links \cap AllowedLinks
      BY <1>3, <1>10 DEF WritesOnly, t, s, a
    <2> QED BY <2>1, <2>2, <2>3
  <1>13. /\ Catalog!Unique(works') /\ Catalog!Unique(editions')
         /\ \A x \in DOMAIN editions' : editions'[x].work \in DOMAIN works'
    BY DEF Safe, KeysUnique, OwnersExist, Catalog!Unique
  <1>14. Catalog!PublishUnder(s, a, id)
    BY <1>8, <1>9, <1>11, <1>12, <1>13 DEF Catalog!PublishUnder
  <1>15. Catalog!Publish(s, a)
    BY <1>9, <1>14 DEF Catalog!Publish
  <1> QED BY <1>3, <1>15 DEF s, a

(* Whatever any number of syncs interleave, fail or crash in, the          *)
(* committed catalogue changes only by whole answers of a source: SyncWork *)
(* implements BookCatalog.                                                 *)
THEOREM CatalogueChangesWhole == SafeSpec => PublishesWhole
  <1>1. Init => Catalog!Init
    BY DEF Init, Catalog!Init, Empty
  <1>2. ASSUME Inv, Inv', NEW w \in Workers, SyncStep(w)
        PROVE  Catalog!Next \/ UNCHANGED Catalog!catalog
    <2>1. CASE Commit(w)
      <3>1. Safe'
        BY <1>2 DEF Inv
      <3> QED BY <1>2, <2>1, <3>1, CommitPublishes DEF Catalog!Next, Sources
    <2>2. CASE ~Commit(w)
      <3>1. UNCHANGED <<works, editions, refs, links>>
        BY <1>2, <2>2 DEF SyncStep, StartSync, Proceed, FindTopMatch, CheckAnswer, FetchDetails,
          Statement, FindWorkRef, FindWorkByKey, ReadWorkSources, ReadWork, SaveWork,
          SaveWorkRef, NextEdition, FindEditionRef, FindEditionByKey, ReadEditionSources,
          ReadEdition, UpdateEdition, InsertEdition, PutEdition, SaveEditionRef, SaveLinks,
          InvalidateCache, RecordSuccess, RecordError, DeadlockAbort, Fail, Crash, Abort
      <3> QED BY <3>1 DEF Catalog!catalog
    <2> QED BY <2>1, <2>2
  <1>3. Inv /\ Inv' /\ [SyncNext]_vars => [Catalog!Next]_(Catalog!catalog)
    BY <1>2 DEF SyncNext, vars, Catalog!catalog
  <1> QED BY <1>1, <1>3, InvHolds, PTL DEF SafeSpec, PublishesWhole, Catalog!Spec

-----------------------------------------------------------------------------
(* One worker at a time: every ref leads to the row it stands for. *)

LEMMA FitsAlike ==
  ASSUME NEW row, NEW new, NEW e, NEW f, row.work # None, new.work # None,
         Fits(row, e), Fits(row, f), Fits(new, e)
  PROVE  Fits(new, f)
  BY DEF Fits, EditionKey, None

(* The same rows, or more of them. *)
LEMMA TablesGrow ==
  ASSUME NEW rs, NEW ws, NEW es, TablesLead(rs, ws, es), NEW rs2, NEW ws2, NEW es2,
         DOMAIN rs2 = DOMAIN rs, \A r \in DOMAIN rs : rs2[r] = rs[r],
         DOMAIN ws \subseteq DOMAIN ws2,
         DOMAIN es2 = DOMAIN es, \A x \in DOMAIN es : es2[x] = es[x]
  PROVE  TablesLead(rs2, ws2, es2)
  <1>1. ASSUME NEW r \in DOMAIN rs2 PROVE LeadsTo(r, rs2[r], ws2, es2)
    <2>1. LeadsTo(r, rs[r], ws, es)
      BY DEF TablesLead
    <2> QED BY <2>1 DEF LeadsTo
  <1> QED BY <1>1 DEF TablesLead

LEMMA TablesPutRef ==
  ASSUME NEW rs, NEW ws, NEW es, TablesLead(rs, ws, es), NEW r, NEW ref, LeadsTo(r, ref, ws, es)
  PROVE  TablesLead(Put(rs, r, ref), ws, es)
  BY DEF TablesLead, Put

LEMMA TablesPutEdition ==
  ASSUME NEW rs, NEW ws, NEW es, TablesLead(rs, ws, es), NEW id, NEW row, NEW e,
         Fits(row, e), row.work # None, row.key[1] \in {None, row.work},
         id \in DOMAIN es => es[id].work # None /\ Fits(es[id], e)
  PROVE  TablesLead(rs, ws, Put(es, id, row))
  <1> DEFINE es2 == Put(es, id, row)
  <1>1. /\ DOMAIN es2 = DOMAIN es \cup {id} /\ es2[id] = row
        /\ \A x \in DOMAIN es \ {id} : es2[x] = es[x]
    BY DEF Put
  <1> HIDE DEF es2
  <1>2. ASSUME NEW r \in DOMAIN rs PROVE LeadsTo(r, rs[r], ws, es2)
    <2>1. LeadsTo(r, rs[r], ws, es)
      BY DEF TablesLead
    <2>2. PICK x : x = rs[r].id
      OBVIOUS
    <2>3. CASE rs[r].type = "work" /\ rs[r].id \in DOMAIN ws /\ \E a \in Catalogue[r[1]] : a.ext = r[2]
      BY <2>3 DEF LeadsTo
    <2>4. ASSUME rs[r].type = "edition", rs[r].id \in DOMAIN es,
                 NEW a \in Catalogue[r[1]], NEW f \in Catalog!Listed(a), f.ext = r[2], Fits(es[rs[r].id], f)
          PROVE  LeadsTo(r, rs[r], ws, es2)
      <3>1. Fits(es2[x], f)
        <4>1. CASE x = id
          BY <1>1, <2>2, <2>4, <4>1, FitsAlike
        <4>2. CASE x # id
          BY <1>1, <2>2, <2>4, <4>2
        <4> QED BY <4>1, <4>2
      <3> QED BY <1>1, <2>2, <2>4, <3>1 DEF LeadsTo
    <2> QED BY <2>1, <2>3, <2>4 DEF LeadsTo
  <1>3. \A x \in DOMAIN es2 : es2[x].key[1] \in {None, es2[x].work}
    BY <1>1 DEF TablesLead
  <1> QED BY <1>2, <1>3 DEF TablesLead, es2

(* What a transaction sees when it has ended, or when only another part of *)
(* it changed.                                                             *)
LEMMA NothingOver ==
  ASSUME NEW f
  PROVE  /\ DOMAIN Over(Empty, f) = DOMAIN f
         /\ \A x \in DOMAIN f : Over(Empty, f)[x] = f[x]
  BY DEF Over, Empty

LEMMA LeadsThen ==
  ASSUME NEW w, TablesLead(refs', works', editions'), NEW rs, NEW ws, NEW es, TablesLead(rs, ws, es),
         ViewRefs(w)' = rs, ViewWorks(w)' = ws, ViewEditions(w)' = es
  PROVE  Leads(w)'
  <1> USE DEF TablesLead, LeadsTo, Fits, EditionKey, Catalog!Listed, None
  <1>1. TablesLead(refs, works, editions)'
    OBVIOUS
  <1>2. TablesLead(ViewRefs(w), ViewWorks(w), ViewEditions(w))'
    OBVIOUS
  <1> QED BY <1>1, <1>2 DEF Leads

LEMMA LeadsStay ==
  ASSUME NEW w \in Workers, Leads(w), UNCHANGED <<works, editions, refs>>,
         tx'[w].works = tx[w].works, tx'[w].editions = tx[w].editions, tx'[w].refs = tx[w].refs
  PROVE  /\ Leads(w)' /\ ViewWorks(w)' = ViewWorks(w) /\ ViewEditions(w)' = ViewEditions(w)
         /\ ViewRefs(w)' = ViewRefs(w)
  <1>1. /\ ViewWorks(w)' = ViewWorks(w) /\ ViewEditions(w)' = ViewEditions(w)
        /\ ViewRefs(w)' = ViewRefs(w)
    BY DEF ViewWorks, ViewEditions, ViewRefs
  <1>2. TablesLead(refs', works', editions')
    BY DEF Leads
  <1> QED BY <1>1, <1>2, LeadsThen DEF Leads

(* The end of a transaction: what it saw, or what was there before.        *)
LEMMA LeadsEnd ==
  ASSUME NEW w \in Workers, tx'[w] = NoTx, TablesLead(refs', works', editions')
  PROVE  Leads(w)'
  <1>1. ViewWorks(w)' = Over(Empty, works') /\ ViewEditions(w)' = Over(Empty, editions')
        /\ ViewRefs(w)' = Over(Empty, refs')
    BY DEF ViewWorks, ViewEditions, ViewRefs, NoTx
  <1>2. TablesLead(Over(Empty, refs'), Over(Empty, works'), Over(Empty, editions'))
    BY NothingOver, TablesGrow
  <1> QED BY <1>1, <1>2, LeadsThen

AtWorkRow == {"workSources", "readWork", "saveWork", "saveWorkRef"}
AtEditionRow == {"editionSources", "readEdition", "updateEdition", "insertEdition", "saveEditionRef"}

LEMMA NotAtWorkRow ==
  ASSUME NEW w \in Workers, WorkFound(w), pc'[w] \notin AtWorkRow,
         job'[w].attach \in {None, job[w].attach}, DOMAIN works \subseteq DOMAIN works'
  PROVE  WorkFound(w)'
  BY DEF WorkFound, AtWorkRow

LEMMA NotAtEditionRow ==
  ASSUME NEW w \in Workers, pc'[w] \notin AtEditionRow
  PROVE  EditionFound(w)'
  BY DEF EditionFound, AtEditionRow

Calm(w) == Leads(w) /\ WorkFound(w) /\ EditionFound(w)

(* A step that writes nothing and finds nothing. *)
LEMMA CalmReads ==
  ASSUME NEW w \in Workers, Calm(w), UNCHANGED <<works, editions, refs, tx>>,
         pc'[w] \notin AtWorkRow \cup AtEditionRow, job'[w].attach \in {None, job[w].attach}
  PROVE  Calm(w)'
  BY NotAtWorkRow, NotAtEditionRow, LeadsStay DEF Calm

LEMMA CalmStart ==
  ASSUME TypeOK, NEW w \in Workers, Calm(w), StartSync(w)
  PROVE  Calm(w)'
  <1>1. UNCHANGED <<works, editions, refs, tx>> /\ pc'[w] = "search"
    BY DEF StartSync, Goto, TypeOK
  <1>2. job'[w].attach \in {None} \cup DOMAIN works
    BY DEF StartSync, NewJob, TypeOK
  <1>3. WorkFound(w)'
    BY <1>1, <1>2 DEF WorkFound
  <1> QED BY <1>1, <1>3, NotAtEditionRow, LeadsStay DEF Calm, AtEditionRow

LEMMA CalmAsk ==
  ASSUME TypeOK, NEW w \in Workers, Calm(w),
         FindTopMatch(w) \/ CheckAnswer(w) \/ FetchDetails(w) \/ InvalidateCache(w)
  PROVE  Calm(w)'
  <1>1. UNCHANGED <<works, editions, refs, tx>>
    BY DEF FindTopMatch, CheckAnswer, FetchDetails, InvalidateCache
  <1>2. pc'[w] \in {"check", "failed", "fetch", "findWorkRef", "commit"}
    BY DEF FindTopMatch, CheckAnswer, FetchDetails, InvalidateCache, Goto, TypeOK
  <1>3. job'[w].attach = job[w].attach
    <2>1. CASE FindTopMatch(w)
      BY <2>1 DEF FindTopMatch, TypeOK, Job
    <2>2. CASE ~FindTopMatch(w)
      BY <2>2 DEF CheckAnswer, FetchDetails, InvalidateCache
    <2> QED BY <2>1, <2>2
  <1> QED BY <1>1, <1>2, <1>3, CalmReads DEF AtWorkRow, AtEditionRow

(* A ref of the answer leads to a row of its kind. *)
LEMMA WorkRefLeads ==
  ASSUME WorksApart, NEW w \in Workers, Leads(w), Src(w) \in Sources, Ans(w) \in Catalogue[Src(w)],
         WorkRef(w) \in DOMAIN ViewRefs(w)
  PROVE  ViewRefs(w)[WorkRef(w)].id \in DOMAIN ViewWorks(w)
  <1>1. LeadsTo(WorkRef(w), ViewRefs(w)[WorkRef(w)], ViewWorks(w), ViewEditions(w))
    BY DEF Leads, TablesLead
  <1>2. WorkRef(w)[1] = Src(w) /\ WorkRef(w)[2] = Ans(w).ext
    BY DEF WorkRef
  <1> QED BY <1>1, <1>2 DEF LeadsTo, WorksApart

LEMMA EditionRefLeads ==
  ASSUME WorksApart, OnePrintingEach, NEW w \in Workers, Leads(w), Src(w) \in Sources,
         Ans(w) \in Catalogue[Src(w)], Ed(w) \in Catalog!Listed(Ans(w)),
         EdRef(w) \in DOMAIN ViewRefs(w), NEW id, id = ViewRefs(w)[EdRef(w)].id
  PROVE  id \in DOMAIN ViewEditions(w) /\ Fits(ViewEditions(w)[id], Ed(w))
  <1>1. LeadsTo(EdRef(w), ViewRefs(w)[EdRef(w)], ViewWorks(w), ViewEditions(w))
    BY DEF Leads, TablesLead
  <1>2. EdRef(w)[1] = Src(w) /\ EdRef(w)[2] = Ed(w).ext
    BY DEF EdRef
  <1>3. ~ \E a \in Catalogue[Src(w)] : a.ext = Ed(w).ext
    BY DEF WorksApart
  <1>4. PICK a \in Catalogue[Src(w)] : \E e \in Catalog!Listed(a) :
          /\ id \in DOMAIN ViewEditions(w) /\ e.ext = Ed(w).ext /\ Fits(ViewEditions(w)[id], e)
    BY <1>1, <1>2, <1>3 DEF LeadsTo
  <1>5. PICK e \in Catalog!Listed(a) :
          /\ id \in DOMAIN ViewEditions(w) /\ e.ext = Ed(w).ext /\ Fits(ViewEditions(w)[id], e)
    BY <1>4
  <1>6. e.isbn = Ed(w).isbn /\ e.k = Ed(w).k
    BY <1>5 DEF OnePrintingEach
  <1> QED BY <1>5, <1>6 DEF Fits, EditionKey

LEMMA KnownAnswer ==
  ASSUME TypeOK, NEW w \in Workers, pc[w] \in InTransaction
  PROVE  /\ Src(w) \in Sources /\ Ans(w) \in Catalogue[Src(w)]
         /\ pc[w] \in WorkKnown => loc[w].wid \in Ids /\ loc[w].wid # None
  BY Known DEF LocalOK, InTransaction, Src, Ans, Ids, None

LEMMA CalmFindWorkRef ==
  ASSUME WorksApart, TypeOK, NEW w \in Workers, Calm(w), FindWorkRef(w)
  PROVE  Calm(w)'
  <1>1. /\ pc[w] = "findWorkRef" /\ UNCHANGED <<works, editions, refs, tx, job>>
        /\ Src(w) \in Sources /\ Ans(w) \in Catalogue[Src(w)]
    BY KnownAnswer DEF FindWorkRef, InTransaction
  <1>2. /\ Leads(w)' /\ ViewWorks(w)' = ViewWorks(w) /\ EditionFound(w)'
    <2>1. pc'[w] \in {"readWork", "workSources", "findWorkByKey"}
      BY DEF FindWorkRef, Goto, TypeOK
    <2> QED BY <1>1, <2>1, LeadsStay, NotAtEditionRow DEF Calm, AtEditionRow
  <1>3. DOMAIN works \subseteq DOMAIN ViewWorks(w)
    BY DEF ViewWorks, Over
  <1>4. LocalOK(w, "findWorkRef") /\ Ids \subseteq Nat
    BY <1>1, Known
  <1>5. CASE job[w].attach # None
    <2>1. job[w].attach \in DOMAIN works /\ job[w].attach \in Nat
      BY <1>4, <1>5 DEF Calm, WorkFound, LocalOK
    <2>2. pc'[w] = "readWork" /\ loc'[w].wid = job[w].attach
      BY <1>5, <2>1, SetWid DEF FindWorkRef, Goto, TypeOK
    <2>3. WorkFound(w)'
      BY <1>1, <1>2, <1>3, <2>1, <2>2 DEF WorkFound
    <2> QED BY <1>2, <2>3 DEF Calm
  <1>6. CASE job[w].attach = None /\ WorkRef(w) \in DOMAIN ViewRefs(w)
    <2>1. ViewRefs(w)[WorkRef(w)].id \in DOMAIN ViewWorks(w)
      BY <1>1, <1>6, WorkRefLeads DEF Calm
    <2>2. DOMAIN ViewWorks(w) \subseteq Nat
      BY ViewsOK, Known DEF IsTable
    <2>3. pc'[w] = "workSources" /\ loc'[w].wid = ViewRefs(w)[WorkRef(w)].id
      BY <1>6, <2>1, <2>2, SetWid DEF FindWorkRef, Goto, TypeOK
    <2>4. WorkFound(w)'
      BY <1>1, <1>2, <1>6, <2>1, <2>3 DEF WorkFound
    <2> QED BY <1>2, <2>4 DEF Calm
  <1>7. CASE job[w].attach = None /\ WorkRef(w) \notin DOMAIN ViewRefs(w)
    <2>1. pc'[w] = "findWorkByKey"
      BY <1>7 DEF FindWorkRef, Goto, TypeOK
    <2> QED BY <1>1, <2>1, CalmReads DEF AtWorkRow, AtEditionRow
  <1> QED BY <1>5, <1>6, <1>7

LEMMA CalmFindWorkByKey ==
  ASSUME TypeOK, NEW w \in Workers, Calm(w), FindWorkByKey(w)
  PROVE  Calm(w)'
  <1>1. UNCHANGED <<works, editions, refs, tx, job>> /\ pc'[w] = "workSources"
    BY DEF FindWorkByKey, Goto, TypeOK
  <1>2. Leads(w)' /\ ViewWorks(w)' = ViewWorks(w) /\ EditionFound(w)'
    BY <1>1, LeadsStay, NotAtEditionRow DEF Calm, AtEditionRow
  <1>3. Ans(w)' = Ans(w) /\ DOMAIN ViewWorks(w) \subseteq Nat /\ nextId \in Nat
    BY <1>1, ViewsOK, Known DEF IsTable, Ans
  <1>4. loc'[w].wid \notin DOMAIN ViewWorks(w) => \A x \in DOMAIN ViewWorks(w) : ViewWorks(w)[x].key # Ans(w).key
    BY <1>3, SetWid DEF FindWorkByKey
  <1>5. WorkFound(w)'
    BY <1>1, <1>2, <1>3, <1>4 DEF Calm, WorkFound
  <1> QED BY <1>2, <1>5 DEF Calm

LEMMA CalmReadWorkSources ==
  ASSUME TypeOK, NEW w \in Workers, Calm(w), ReadWorkSources(w)
  PROVE  Calm(w)'
  <1>1. pc[w] = "workSources" /\ UNCHANGED <<works, editions, refs, tx, job>>
    BY DEF ReadWorkSources
  <1>2. pc'[w] \in {"saveWork", "readWork"}
    BY DEF ReadWorkSources, Goto, TypeOK
  <1>3. Leads(w)' /\ ViewWorks(w)' = ViewWorks(w) /\ EditionFound(w)' /\ Ans(w)' = Ans(w)
    BY <1>1, <1>2, LeadsStay, NotAtEditionRow DEF Calm, AtEditionRow, Ans
  <1>4. Src(w) \in Sources /\ Ans(w) \in Catalogue[Src(w)]
    BY <1>1, KnownAnswer DEF InTransaction
  <1>5. loc'[w].wid = loc[w].wid /\ (pc'[w] = "saveWork" => loc'[w].row.key = Ans(w).key)
    <2>1. CASE Goto(w, "readWork") /\ UNCHANGED loc
      BY <2>1 DEF Goto, TypeOK
    <2>2. CASE loc' = [loc EXCEPT ![w].row = [key |-> Ans(w).key, by |-> Src(w)]]
      <3>1. PICK row : row = [key |-> Ans(w).key, by |-> Src(w)]
        OBVIOUS
      <3>2. row \in WorkRow /\ row.key = Ans(w).key
        BY <1>4, <3>1, AnswerShape DEF WorkRow
      <3> QED BY <2>2, <3>1, <3>2, SetRow
    <2> QED BY <2>1, <2>2 DEF ReadWorkSources
  <1>6. WorkFound(w)'
    BY <1>1, <1>2, <1>3, <1>5 DEF Calm, WorkFound
  <1> QED BY <1>3, <1>6 DEF Calm

LEMMA CalmReadWork ==
  ASSUME TypeOK, NEW w \in Workers, Calm(w), ReadWork(w)
  PROVE  Calm(w)'
  <1>1. pc[w] = "readWork" /\ UNCHANGED <<works, editions, refs, tx, job>> /\ pc'[w] = "saveWork"
    BY DEF ReadWork, Goto, TypeOK
  <1>3. Leads(w)' /\ ViewWorks(w)' = ViewWorks(w) /\ EditionFound(w)' /\ Ans(w)' = Ans(w)
    BY <1>1, LeadsStay, NotAtEditionRow DEF Calm, AtEditionRow, Ans
  <1>4. Src(w) \in Sources /\ Ans(w) \in Catalogue[Src(w)]
    BY <1>1, KnownAnswer DEF InTransaction
  <1>5. PICK row : row = IF loc[w].wid \in DOMAIN ViewWorks(w) THEN ViewWorks(w)[loc[w].wid]
                         ELSE [key |-> Ans(w).key, by |-> Src(w)]
    OBVIOUS
  <1>6. row \in WorkRow /\ (loc[w].wid \notin DOMAIN ViewWorks(w) => row.key = Ans(w).key)
    BY <1>4, <1>5, AnswerShape, ViewsOK DEF WorkRow, IsTable
  <1>7. loc'[w].wid = loc[w].wid /\ loc'[w].row = row
    BY <1>5, <1>6, SetRow DEF ReadWork
  <1>8. WorkFound(w)'
    BY <1>1, <1>3, <1>6, <1>7 DEF Calm, WorkFound
  <1> QED BY <1>3, <1>8 DEF Calm

(* A statement that writes one table of its transaction. *)
LEMMA OneTable ==
  ASSUME TypeOK, NEW w \in Workers, NEW f
  PROVE  /\ tx' = [tx EXCEPT ![w].works = f] =>
              tx'[w].works = f /\ tx'[w].editions = tx[w].editions /\ tx'[w].refs = tx[w].refs
         /\ tx' = [tx EXCEPT ![w].editions = f] =>
              tx'[w].editions = f /\ tx'[w].works = tx[w].works /\ tx'[w].refs = tx[w].refs
         /\ tx' = [tx EXCEPT ![w].refs = f] =>
              tx'[w].refs = f /\ tx'[w].works = tx[w].works /\ tx'[w].editions = tx[w].editions
         /\ tx' = [tx EXCEPT ![w].links = f] =>
              tx'[w].works = tx[w].works /\ tx'[w].editions = tx[w].editions /\ tx'[w].refs = tx[w].refs
  BY DEF TypeOK, WorkerOK, TransactionOK

LEMMA CalmEnd ==
  ASSUME NEW w \in Workers, Calm(w), UNCHANGED <<works, editions, refs>>, tx'[w] = NoTx,
         pc'[w] \in {"failed", "idle"}, job'[w].attach \in {None, job[w].attach}
  PROVE  Calm(w)'
  <1>1. TablesLead(refs', works', editions')
    BY DEF Calm, Leads
  <1> QED BY <1>1, LeadsEnd, NotAtWorkRow, NotAtEditionRow DEF Calm, AtWorkRow, AtEditionRow

LEMMA CalmAbort ==
  ASSUME TypeOK, NEW w \in Workers, Calm(w), Abort(w)
  PROVE  Calm(w)'
  BY CalmEnd DEF Abort, Goto, TypeOK

LEMMA CalmReset ==
  ASSUME TypeOK, NEW w \in Workers, Calm(w), Reset(w), UNCHANGED <<works, editions, refs>>
  PROVE  Calm(w)'
  BY CalmEnd DEF Reset, Goto, TypeOK, NoJob, NewJob

LEMMA CalmCommit ==
  ASSUME TypeOK, NEW w \in Workers, Calm(w), Commit(w)
  PROVE  Calm(w)'
  <1>1. tx'[w] = NoTx /\ pc'[w] = "log" /\ job' = job
    BY DEF Commit, Goto, TypeOK
  <1>2. TablesLead(refs', works', editions')
    BY DEF Commit, Calm, Leads
  <1>3. DOMAIN works \subseteq DOMAIN works'
    BY DEF Commit, ViewWorks, Over
  <1> QED BY <1>1, <1>2, <1>3, LeadsEnd, NotAtWorkRow, NotAtEditionRow DEF Calm, AtWorkRow, AtEditionRow

LEMMA CalmSaveWork ==
  ASSUME TypeOK, NEW w \in Workers, Calm(w), SaveWork(w)
  PROVE  Calm(w)'
  <1> DEFINE row == loc[w].row
             view == ViewWorks(w)
             same == {id \in DOMAIN view : view[id].key = row.key}
  <1>1. CASE Abort(w)
    BY <1>1, CalmAbort
  <1>2. ASSUME NEW id, id \in same \/ id = loc[w].wid,
               tx' = [tx EXCEPT ![w].works = Put(tx[w].works, id, row)], Goto(w, "saveWorkRef"),
               UNCHANGED <<works, editions, refs, links, syncLog, cache, nextId, started, job, loc>>
        PROVE  Calm(w)'
    <2>1. /\ tx'[w].works = Put(tx[w].works, id, row)
          /\ tx'[w].editions = tx[w].editions /\ tx'[w].refs = tx[w].refs
      BY <1>2, OneTable
    <2>2. /\ ViewWorks(w)' = Put(view, id, row)
          /\ ViewEditions(w)' = ViewEditions(w) /\ ViewRefs(w)' = ViewRefs(w)
      BY <1>2, <2>1, OverPut DEF ViewWorks, ViewEditions, ViewRefs
    <2>3. DOMAIN Put(view, id, row) = DOMAIN view \cup {id}
      BY DEF Put
    <2>4. TablesLead(ViewRefs(w), Put(view, id, row), ViewEditions(w))
      BY <2>3, TablesGrow DEF Calm, Leads
    <2>5. TablesLead(refs', works', editions')
      BY <1>2 DEF Calm, Leads
    <2>6. Leads(w)'
      BY <2>2, <2>4, <2>5, LeadsThen
    <2>7. pc'[w] = "saveWorkRef" /\ pc[w] = "saveWork"
      BY <1>2 DEF Goto, TypeOK, SaveWork
    <2>8. loc[w].wid \in DOMAIN view \cup {id}
      BY <1>2, <2>7 DEF Calm, WorkFound
    <2>9. WorkFound(w)'
      BY <1>2, <2>2, <2>3, <2>7, <2>8 DEF Calm, WorkFound
    <2> QED BY <2>6, <2>7, <2>9, NotAtEditionRow DEF Calm, AtEditionRow
  <1> QED BY <1>1, <1>2 DEF SaveWork

LEMMA CalmSaveWorkRef ==
  ASSUME TypeOK, NEW w \in Workers, Calm(w), SaveWorkRef(w)
  PROVE  Calm(w)'
  <1> DEFINE ref == [type |-> "work", id |-> loc[w].wid]
  <1>1. /\ pc[w] = "saveWorkRef" /\ tx' = [tx EXCEPT ![w].refs = Put(tx[w].refs, WorkRef(w), ref)]
        /\ UNCHANGED <<works, editions, refs, job>> /\ pc'[w] = "edition"
    BY DEF SaveWorkRef, SaveRef, Goto, TypeOK
  <1>2. Src(w) \in Sources /\ Ans(w) \in Catalogue[Src(w)]
    BY <1>1, KnownAnswer DEF InTransaction
  <1>3. /\ tx'[w].refs = Put(tx[w].refs, WorkRef(w), ref)
        /\ tx'[w].editions = tx[w].editions /\ tx'[w].works = tx[w].works
    BY <1>1, OneTable
  <1>4. /\ ViewRefs(w)' = Put(ViewRefs(w), WorkRef(w), ref)
        /\ ViewEditions(w)' = ViewEditions(w) /\ ViewWorks(w)' = ViewWorks(w)
    BY <1>1, <1>3, OverPut DEF ViewWorks, ViewEditions, ViewRefs
  <1>5. LeadsTo(WorkRef(w), ref, ViewWorks(w), ViewEditions(w))
    BY <1>1, <1>2 DEF Calm, WorkFound, LeadsTo, WorkRef
  <1>6. TablesLead(Put(ViewRefs(w), WorkRef(w), ref), ViewWorks(w), ViewEditions(w))
    BY <1>5, TablesPutRef DEF Calm, Leads
  <1>7. TablesLead(refs', works', editions')
    BY <1>1 DEF Calm, Leads
  <1>8. Leads(w)'
    BY <1>4, <1>6, <1>7, LeadsThen
  <1> QED BY <1>1, <1>8, NotAtWorkRow, NotAtEditionRow DEF Calm, AtWorkRow, AtEditionRow

(* What an edition's statement knows. *)
LEMMA KnownEdition ==
  ASSUME TypeOK, Written, NEW w \in Workers, pc[w] \in AtEdition
  PROVE  /\ Src(w) \in Sources /\ Ans(w) \in Catalogue[Src(w)] /\ Ed(w) \in Catalog!Listed(Ans(w))
         /\ loc[w].wid \in Ids /\ loc[w].wid # None
         /\ \A x \in DOMAIN ViewEditions(w) : x \in Nat /\ ViewEditions(w)[x] \in EditionRow
                                              /\ ViewEditions(w)[x].work # None
  <1>1. pc[w] \in InTransaction /\ pc[w] \in WorkKnown /\ pc[w] \in AfterWork
    BY DEF AtEdition, EditionKnown, InTransaction, WorkKnown, AfterWork
  <1>2. Ed(w) \in Catalog!Listed(Ans(w))
    BY <1>1, EdIsListed
  <1>3. \A x \in DOMAIN ViewEditions(w) : x \in Nat /\ ViewEditions(w)[x] \in EditionRow
    BY ViewsOK, Known DEF IsTable
  <1>4. \A row \in EditionRow : row.work # None
    BY DEF EditionRow, Ids, None
  <1> QED BY <1>1, <1>2, <1>3, <1>4, KnownAnswer

LEMMA CalmNextEdition ==
  ASSUME TypeOK, NEW w \in Workers, Calm(w), NextEdition(w)
  PROVE  Calm(w)'
  <1>1. UNCHANGED <<works, editions, refs, tx, job>> /\ pc'[w] \in {"edition", "invalidate", "findEditionRef"}
    BY DEF NextEdition, Goto, TypeOK
  <1> QED BY <1>1, CalmReads DEF AtWorkRow, AtEditionRow

(* A statement between finding an edition's row and writing it. *)
LEMMA CalmAtEdition ==
  ASSUME NEW w \in Workers, Calm(w), UNCHANGED <<works, editions, refs, tx, job>>,
         pc'[w] \in AtEditionRow, EditionFound(w)'
  PROVE  Calm(w)'
  BY NotAtWorkRow, LeadsStay DEF Calm, AtEditionRow, AtWorkRow

LEMMA EditionStays ==
  ASSUME NEW w \in Workers, UNCHANGED <<editions, tx, job>>, loc'[w].i = loc[w].i, loc'[w].wid = loc[w].wid
  PROVE  ViewEditions(w)' = ViewEditions(w) /\ Ed(w)' = Ed(w) /\ EdKey(w)' = EdKey(w)
  BY DEF ViewEditions, Ed, Ans, EdKey

LEMMA CalmFindEditionRef ==
  ASSUME WorksApart, OnePrintingEach, TypeOK, Written, NEW w \in Workers, Calm(w), FindEditionRef(w)
  PROVE  Calm(w)'
  <1>1. pc[w] = "findEditionRef" /\ UNCHANGED <<works, editions, refs, tx, job>>
    BY DEF FindEditionRef
  <1>2. CASE EdRef(w) \notin DOMAIN ViewRefs(w)
    <2>1. pc'[w] = "findEditionByKey"
      BY <1>2 DEF FindEditionRef, Goto, TypeOK
    <2> QED BY <1>1, <2>1, CalmReads DEF AtWorkRow, AtEditionRow
  <1>3. CASE EdRef(w) \in DOMAIN ViewRefs(w)
    <2>1. PICK id : id = ViewRefs(w)[EdRef(w)].id
      OBVIOUS
    <2>2. id \in DOMAIN ViewEditions(w) /\ Fits(ViewEditions(w)[id], Ed(w)) /\ id \in Nat
      BY <1>1, <1>3, <2>1, KnownEdition, EditionRefLeads DEF AtEdition, Calm
    <2>3. /\ pc'[w] = "editionSources" /\ loc'[w].eid = id
          /\ loc'[w].i = loc[w].i /\ loc'[w].wid = loc[w].wid
      BY <1>3, <2>1, <2>2, SetEid DEF FindEditionRef, Goto, TypeOK
    <2>4. EditionFound(w)'
      BY <1>1, <2>2, <2>3, EditionStays DEF EditionFound, Fits
    <2> QED BY <1>1, <2>3, <2>4, CalmAtEdition DEF AtEditionRow
  <1> QED BY <1>2, <1>3

LEMMA CalmFindEditionByKey ==
  ASSUME TypeOK, Written, NEW w \in Workers, Calm(w), FindEditionByKey(w)
  PROVE  Calm(w)'
  <1> DEFINE view == ViewEditions(w)
             same == {id \in DOMAIN view : view[id].key = EdKey(w)}
  <1>1. /\ pc[w] = "findEditionByKey" /\ UNCHANGED <<works, editions, refs, tx, job>>
        /\ pc'[w] = "editionSources"
    BY DEF FindEditionByKey, Goto, TypeOK
  <1>2. /\ loc[w].wid # None /\ \A x \in DOMAIN view : x \in Nat /\ view[x].work # None
    BY <1>1, KnownEdition DEF AtEdition
  <1>8. nextId \in Nat /\ nextId \notin DOMAIN view
    BY Known, ViewsOK DEF IsTable, Ids
  <1>3. PICK id \in Nat : /\ loc' = [loc EXCEPT ![w].eid = id]
                          /\ id \in same \/ (same = {} /\ id \notin DOMAIN view)
    BY <1>2, <1>8 DEF FindEditionByKey
  <1>4. /\ loc'[w].eid = id /\ loc'[w].i = loc[w].i /\ loc'[w].wid = loc[w].wid
    BY <1>3, SetEid
  <1>5. ASSUME id \in DOMAIN view PROVE Fits(view[id], Ed(w))
    <2>1. view[id].key = EdKey(w)
      BY <1>3, <1>5
    <2>2. view[id].key[1] \in {None, view[id].work}
      BY <1>5 DEF Calm, Leads, TablesLead
    <2> QED BY <1>2, <1>5, <2>1, <2>2 DEF Fits, EdKey, EditionKey
  <1>6. id \notin DOMAIN view => \A x \in DOMAIN view : view[x].key # EdKey(w)
    BY <1>3
  <1>7. EditionFound(w)'
    BY <1>1, <1>4, <1>5, <1>6, EditionStays DEF EditionFound, Fits
  <1> QED BY <1>1, <1>7, CalmAtEdition DEF AtEditionRow

LEMMA NewEditionFits ==
  ASSUME NEW w \in Workers
  PROVE  /\ NewEdition(w).key = EdKey(w) /\ NewEdition(w).key[1] \in {None, NewEdition(w).work}
         /\ Fits(NewEdition(w), Ed(w))
  BY DEF NewEdition, EdKey, EditionKey, Fits

LEMMA CalmReadEditionSources ==
  ASSUME TypeOK, Written, NEW w \in Workers, Calm(w), ReadEditionSources(w)
  PROVE  Calm(w)'
  <1>1. pc[w] = "editionSources" /\ UNCHANGED <<works, editions, refs, tx, job>>
    BY DEF ReadEditionSources
  <1>2. CASE pc'[w] = "readEdition" /\ UNCHANGED loc
    <2>1. EditionFound(w)'
      BY <1>1, <1>2, EditionStays DEF Calm, EditionFound, Fits
    <2> QED BY <1>1, <1>2, <2>1, CalmAtEdition DEF AtEditionRow
  <1>3. CASE pc'[w] = "updateEdition" /\ loc' = [loc EXCEPT ![w].erow = NewEdition(w)]
    <2>1. NewEdition(w) \in EditionRow
      BY <1>1, Known, NewEditionRow
    <2>2. PICK row : row = NewEdition(w)
      OBVIOUS
    <2>3. /\ loc'[w].erow = row /\ loc'[w].eid = loc[w].eid
          /\ loc'[w].i = loc[w].i /\ loc'[w].wid = loc[w].wid
      BY <1>3, <2>1, <2>2, SetEditionRow
    <2>4. row.key = EdKey(w) /\ row.key[1] \in {None, row.work} /\ Fits(row, Ed(w))
      BY <2>2, NewEditionFits
    <2>5. EditionFound(w)'
      BY <1>1, <1>3, <2>3, <2>4, EditionStays DEF Calm, EditionFound, Fits
    <2> QED BY <1>1, <1>3, <2>5, CalmAtEdition DEF AtEditionRow
  <1> QED BY <1>2, <1>3 DEF ReadEditionSources, Goto, TypeOK

LEMMA CalmReadEdition ==
  ASSUME TypeOK, Written, NEW w \in Workers, Calm(w), ReadEdition(w)
  PROVE  Calm(w)'
  <1> DEFINE id == loc[w].eid
             view == ViewEditions(w)
  <1>1. /\ pc[w] = "readEdition" /\ UNCHANGED <<works, editions, refs, tx, job>>
        /\ pc'[w] = "updateEdition"
    BY DEF ReadEdition, Goto, TypeOK
  <1>2. PICK row : row = IF id \in DOMAIN view THEN view[id] ELSE NewEdition(w)
    OBVIOUS
  <1>3. \A x \in DOMAIN view : view[x] \in EditionRow
    BY <1>1, KnownEdition DEF AtEdition, EditionKnown
  <1>4. LocalOK(w, "editionSources")
    BY <1>1, Known DEF LocalOK, InTransaction, WorkKnown, AtEdition, EditionKnown
  <1>5. row \in EditionRow
    BY <1>2, <1>3, <1>4, NewEditionRow
  <1>6. /\ loc'[w].erow = row /\ loc'[w].eid = id
        /\ loc'[w].i = loc[w].i /\ loc'[w].wid = loc[w].wid
    BY <1>2, <1>5, SetEditionRow DEF ReadEdition
  <1>7. CASE id \in DOMAIN view
    <2>1. row = view[id] /\ Fits(row, Ed(w)) /\ row.key[1] \in {None, row.work}
      BY <1>1, <1>2, <1>7 DEF Calm, EditionFound, Leads, TablesLead
    <2>2. EditionFound(w)'
      BY <1>1, <1>6, <1>7, <2>1, EditionStays DEF Calm, EditionFound, Fits
    <2> QED BY <1>1, <2>2, CalmAtEdition DEF AtEditionRow
  <1>8. CASE id \notin DOMAIN view
    <2>1. row.key = EdKey(w) /\ row.key[1] \in {None, row.work} /\ Fits(row, Ed(w))
      BY <1>2, <1>8, NewEditionFits
    <2>2. EditionFound(w)'
      BY <1>1, <1>6, <1>8, <2>1, EditionStays DEF Calm, EditionFound, Fits
    <2> QED BY <1>1, <2>2, CalmAtEdition DEF AtEditionRow
  <1> QED BY <1>7, <1>8

(* The row of an edition is written under its id, or there is none and a   *)
(* new one is.                                                             *)
LEMMA CalmPutEdition ==
  ASSUME TypeOK, Written, NEW w \in Workers, Calm(w), PutEdition(w, loc[w].eid),
         pc[w] \in {"updateEdition", "insertEdition"}
  PROVE  Calm(w)'
  <1> DEFINE id == loc[w].eid
             row == loc[w].erow
             view == ViewEditions(w)
             e == Ed(w)
  <1>1. /\ tx' = [tx EXCEPT ![w].editions = Put(tx[w].editions, id, row)]
        /\ UNCHANGED <<works, editions, refs, job, loc>> /\ pc'[w] = "saveEditionRef"
    BY DEF PutEdition, Goto, TypeOK
  <1>2. /\ tx'[w].editions = Put(tx[w].editions, id, row)
        /\ tx'[w].works = tx[w].works /\ tx'[w].refs = tx[w].refs
    BY <1>1, OneTable
  <1>3. /\ ViewEditions(w)' = Put(view, id, row)
        /\ ViewRefs(w)' = ViewRefs(w) /\ ViewWorks(w)' = ViewWorks(w)
    BY <1>1, <1>2, OverPut DEF ViewWorks, ViewEditions, ViewRefs
  <1>4. row.key[1] \in {None, row.work} /\ Fits(row, e) /\ (id \in DOMAIN view => Fits(view[id], e))
    BY DEF Calm, EditionFound
  <1>5. row.work # None
    BY Known DEF LocalOK, EditionRow, Ids, None
  <1>6. id \in DOMAIN view => view[id].work # None
    BY KnownEdition DEF AtEdition, EditionKnown
  <1>7. TablesLead(ViewRefs(w), ViewWorks(w), Put(view, id, row))
    BY <1>4, <1>5, <1>6, TablesPutEdition DEF Calm, Leads
  <1>8. TablesLead(refs', works', editions')
    BY <1>1 DEF Calm, Leads
  <1>9. Leads(w)'
    BY <1>3, <1>7, <1>8, LeadsThen
  <1>10. EditionFound(w)'
    <2>1. id \in DOMAIN Put(view, id, row) /\ Put(view, id, row)[id] = row
      BY DEF Put
    <2>2. Ed(w)' = Ed(w)
      BY <1>1 DEF Ed, Ans
    <2> QED BY <1>1, <1>3, <1>4, <2>1, <2>2 DEF EditionFound, Fits
  <1> QED BY <1>1, <1>9, <1>10, NotAtWorkRow DEF Calm, AtWorkRow

LEMMA CalmWriteEdition ==
  ASSUME TypeOK, Written, NEW w \in Workers, Calm(w), UpdateEdition(w) \/ InsertEdition(w)
  PROVE  Calm(w)'
  <1> DEFINE id == loc[w].eid
             row == loc[w].erow
             view == ViewEditions(w)
             same == {x \in DOMAIN view : view[x].key = row.key}
  <1>1. pc[w] \in {"updateEdition", "insertEdition"}
    BY DEF UpdateEdition, InsertEdition
  <1>2. CASE Abort(w)
    BY <1>2, CalmAbort
  <1>3. CASE PutEdition(w, id)
    BY <1>1, <1>3, CalmPutEdition
  <1>4. CASE /\ id \notin DOMAIN view /\ Goto(w, "insertEdition") /\ pc[w] = "updateEdition"
             /\ UNCHANGED <<works, editions, refs, tx, job, loc>>
    <2>1. pc'[w] = "insertEdition"
      BY <1>4 DEF Goto, TypeOK
    <2>2. EditionFound(w)'
      BY <1>4, <2>1, EditionStays DEF Calm, EditionFound, Fits
    <2> QED BY <1>4, <2>1, <2>2, CalmAtEdition DEF AtEditionRow
  <1>5. ASSUME NEW x \in same, InsertEdition(w) PROVE FALSE
    <2>1. pc[w] = "insertEdition"
      BY <1>5 DEF InsertEdition
    <2>2. row.key = EdKey(w) /\ \A y \in DOMAIN view : view[y].key # EdKey(w)
      BY <2>1 DEF Calm, EditionFound
    <2> QED BY <2>2
  <1> QED BY <1>2, <1>3, <1>4, <1>5 DEF UpdateEdition, InsertEdition

LEMMA CalmSaveEditionRef ==
  ASSUME TypeOK, Written, NEW w \in Workers, Calm(w), SaveEditionRef(w)
  PROVE  Calm(w)'
  <1> DEFINE ref == [type |-> "edition", id |-> loc[w].eid]
  <1>1. /\ pc[w] = "saveEditionRef" /\ tx' = [tx EXCEPT ![w].refs = Put(tx[w].refs, EdRef(w), ref)]
        /\ UNCHANGED <<works, editions, refs, job>> /\ pc'[w] = "saveLinks"
    BY DEF SaveEditionRef, SaveRef, Goto, TypeOK
  <1>2. /\ Src(w) \in Sources /\ Ans(w) \in Catalogue[Src(w)] /\ Ed(w) \in Catalog!Listed(Ans(w))
    BY <1>1, KnownEdition DEF AtEdition, EditionKnown
  <1>3. /\ tx'[w].refs = Put(tx[w].refs, EdRef(w), ref)
        /\ tx'[w].editions = tx[w].editions /\ tx'[w].works = tx[w].works
    BY <1>1, OneTable
  <1>4. /\ ViewRefs(w)' = Put(ViewRefs(w), EdRef(w), ref)
        /\ ViewEditions(w)' = ViewEditions(w) /\ ViewWorks(w)' = ViewWorks(w)
    BY <1>1, <1>3, OverPut DEF ViewWorks, ViewEditions, ViewRefs
  <1>5. LeadsTo(EdRef(w), ref, ViewWorks(w), ViewEditions(w))
    BY <1>1, <1>2 DEF Calm, EditionFound, LeadsTo, EdRef
  <1>6. TablesLead(Put(ViewRefs(w), EdRef(w), ref), ViewWorks(w), ViewEditions(w))
    BY <1>5, TablesPutRef DEF Calm, Leads
  <1>7. TablesLead(refs', works', editions')
    BY <1>1 DEF Calm, Leads
  <1>8. Leads(w)'
    BY <1>4, <1>6, <1>7, LeadsThen
  <1> QED BY <1>1, <1>8, NotAtWorkRow, NotAtEditionRow DEF Calm, AtWorkRow, AtEditionRow

LEMMA CalmSaveLinks ==
  ASSUME TypeOK, NEW w \in Workers, Calm(w), SaveLinks(w)
  PROVE  Calm(w)'
  <1>1. CASE Abort(w)
    BY <1>1, CalmAbort
  <1>2. ASSUME NEW f, tx' = [tx EXCEPT ![w].links = f], Goto(w, "edition"),
               UNCHANGED <<works, editions, refs, job>>
        PROVE  Calm(w)'
    <2>1. tx'[w].works = tx[w].works /\ tx'[w].editions = tx[w].editions /\ tx'[w].refs = tx[w].refs
      BY <1>2, OneTable
    <2>2. pc'[w] = "edition"
      BY <1>2 DEF Goto, TypeOK
    <2> QED BY <1>2, <2>1, <2>2, LeadsStay, NotAtWorkRow, NotAtEditionRow DEF Calm, AtWorkRow, AtEditionRow
  <1> QED BY <1>1, <1>2 DEF SaveLinks

LEMMA CalmStep ==
  ASSUME WorksApart, OnePrintingEach, TypeOK, Written, NEW w \in Workers, Calm(w),
         StartSync(w) \/ Proceed(w) \/ DeadlockAbort(w) \/ Crash(w)
  PROVE  Calm(w)'
  <1>1. CASE StartSync(w) \/ FindTopMatch(w) \/ CheckAnswer(w) \/ FetchDetails(w)
    BY <1>1, CalmStart, CalmAsk
  <1>2. CASE Statement(w)
    BY <1>2, CalmAsk, CalmFindWorkRef, CalmFindWorkByKey, CalmReadWorkSources, CalmReadWork,
       CalmSaveWork, CalmSaveWorkRef, CalmNextEdition, CalmFindEditionRef, CalmFindEditionByKey,
       CalmReadEditionSources, CalmReadEdition, CalmWriteEdition, CalmSaveEditionRef, CalmSaveLinks,
       CalmCommit
    DEF Statement
  <1>3. CASE RecordSuccess(w) \/ RecordError(w) \/ Crash(w)
    BY <1>3, CalmAbort, CalmReset DEF RecordSuccess, RecordError, Crash
  <1>4. CASE DeadlockAbort(w)
    BY <1>4, CalmAbort DEF DeadlockAbort
  <1> QED BY <1>1, <1>2, <1>3, <1>4 DEF Proceed

LEMMA CalmHolds ==
  ASSUME WorksApart, OnePrintingEach, \A v, w \in Workers : v = w
  PROVE  CalmSpec => [](Inv /\ CalmInv)
  <1>1. Init => Inv /\ CalmInv
    <2> SUFFICES ASSUME Init PROVE Inv /\ CalmInv
      OBVIOUS
    <2>1. Inv
      BY TypeInit, SafeInit
      DEF Inv, Init, Written, AnswerOK, BeforeWork, AfterWork, AtEdition, EditionKnown
    <2>2. ASSUME NEW w \in Workers PROVE Calm(w)
      <3>1. DOMAIN Empty = {}
        BY DEF Empty
      <3>2. ViewRefs(w) = Over(Empty, Empty) /\ ViewWorks(w) = Over(Empty, Empty)
            /\ ViewEditions(w) = Over(Empty, Empty) /\ DOMAIN Over(Empty, Empty) = {}
        BY <3>1 DEF Init, NoTx, ViewRefs, ViewWorks, ViewEditions, Over
      <3>3. Leads(w)
        BY <3>1, <3>2 DEF Leads, TablesLead, Init
      <3>4. WorkFound(w) /\ EditionFound(w)
        BY DEF Init, WorkFound, EditionFound, NoJob, NewJob
      <3> QED BY <3>3, <3>4 DEF Calm
    <2> QED BY <2>1, <2>2 DEF CalmInv, Calm
  <1>2. Inv /\ CalmInv /\ [CalmNext]_vars => (Inv /\ CalmInv)'
    <2> SUFFICES ASSUME Inv, CalmInv, [CalmNext]_vars PROVE (Inv /\ CalmInv)'
      OBVIOUS
    <2>1. [SyncNext]_vars
      BY DEF CalmNext, SyncNext, SyncStep
    <2>2. Inv'
      BY <2>1, InvNext
    <2>3. ASSUME NEW v \in Workers PROVE Calm(v)'
      <3>1. Calm(v) /\ TypeOK /\ Written
        BY DEF CalmInv, Calm, Inv
      <3>2. CASE UNCHANGED vars
        <4>1. UNCHANGED <<works, editions, refs, tx, pc, job, loc>>
          BY <3>2 DEF vars
        <4>2. Leads(v)' /\ ViewWorks(v)' = ViewWorks(v) /\ ViewEditions(v)' = ViewEditions(v)
          BY <3>1, <4>1, LeadsStay DEF Calm
        <4>3. Ans(v)' = Ans(v) /\ Ed(v)' = Ed(v) /\ EdKey(v)' = EdKey(v)
          BY <4>1 DEF Ans, Ed, EdKey
        <4> QED BY <3>1, <4>1, <4>2, <4>3 DEF Calm, WorkFound, EditionFound, Fits
      <3>3. CASE CalmNext
        BY <3>1, <3>3, CalmStep DEF CalmNext
      <3> QED BY <3>2, <3>3
    <2> QED BY <2>2, <2>3 DEF CalmInv, Calm
  <1> QED BY <1>1, <1>2, PTL DEF CalmSpec

(* With one queue worker, a source's ids that each name one work or one    *)
(* printing, and worker processes that die anywhere, no external_ref ever  *)
(* dangles: the next sync of that source finds the book again.             *)
THEOREM RefsLeadToRows ==
  ASSUME WorksApart, OnePrintingEach, \A v, w \in Workers : v = w, Workers # {}
  PROVE  CalmSpec => []RefsResolve
  <1>1. CalmInv => RefsResolve
    BY DEF CalmInv, Leads, TablesLead, LeadsTo, RefsResolve
  <1> QED BY <1>1, CalmHolds, PTL

(* Under the same hypotheses an edition's ref never leads to the row of    *)
(* another printing, whatever syncs moved that row to another work.        *)
THEOREM EditionsStayApart ==
  ASSUME WorksApart, OnePrintingEach, \A v, w \in Workers : v = w, Workers # {}
  PROVE  CalmSpec => []EditionsKeptApart
  <1>1. CalmInv => EditionsKeptApart
    <2> SUFFICES ASSUME CalmInv, NEW s \in Sources, NEW a \in Catalogue[s], NEW e \in Catalog!Listed(a),
                        NEW r, r = <<s, e.ext>>, r \in DOMAIN refs, refs[r].id \in DOMAIN editions
                 PROVE  Fits(editions[refs[r].id], e)
      BY DEF EditionsKeptApart, Fits
    <2>1. LeadsTo(r, refs[r], works, editions)
      BY DEF CalmInv, Leads, TablesLead
    <2>2. ~ \E b \in Catalogue[s] : b.ext = e.ext
      BY DEF WorksApart
    <2>3. PICK b \in Catalogue[s] : \E f \in Catalog!Listed(b) : f.ext = e.ext /\ Fits(editions[refs[r].id], f)
      BY <2>1, <2>2 DEF LeadsTo
    <2>4. PICK f \in Catalog!Listed(b) : f.ext = e.ext /\ Fits(editions[refs[r].id], f)
      BY <2>3
    <2>5. f.isbn = e.isbn /\ f.k = e.k
      BY <2>4 DEF OnePrintingEach
    <2> QED BY <2>4, <2>5 DEF Fits, EditionKey
  <1> QED BY <1>1, CalmHolds, PTL

-----------------------------------------------------------------------------
(* One worker at a time: who signs a row, and a sync that is run again.   *)

(* The natural keys under which an answer of source s may be put: its own  *)
(* where s discovers, and where s is asked about a known work, those that  *)
(* isPlausibleSameWork takes for its own.                                  *)
Homes(s, a) ==
  {k \in WorkKeys : (s \in Discovering /\ k = a.key) \/ (s \in Attaching /\ <<k, a.key>> \in SameBook)}
SameHome(s, a, b) == \A k \in Homes(s, a), l \in Homes(s, b) : k = l

(* A source's answers that share an id, of the work or of an edition, are  *)
(* about one work: titles stay, and an edition is not listed under two.    *)
ShareId(a, b) ==
  a.ext = b.ext \/ \E e \in Catalog!Listed(a), f \in Catalog!Listed(b) : e.ext = f.ext
OneHomeEach == \A s \in Sources : \A a, b \in Catalogue[s] : ShareId(a, b) => SameHome(s, a, b)

(* The row a source's ref leads to is, or belongs to, the work at home.    *)
Housed(rs, ws, es) ==
  \A s \in Sources : \A a \in Catalogue[s] : \A k \in Homes(s, a) :
    /\ <<s, a.ext>> \in DOMAIN rs => ws[rs[<<s, a.ext>>].id].key = k
    /\ \A e \in Catalog!Listed(a) :
         <<s, e.ext>> \in DOMAIN rs /\ ~e.isbn => ws[es[rs[<<s, e.ext>>].id].work].key = k

(* Source s would write row x, which the sources of rs know.               *)
Wins(rs, x, s) == s \in Winners(SourcesOf(rs, x), s)
Knows(rs, s, type, x) == \E r \in DOMAIN rs : r[1] = s /\ rs[r].type = type /\ rs[r].id = x

(* Row x is signed by a source that knows it: the best ranked of those in  *)
(* D, where the best of all is one of them.                                *)
Due(rs, type, x, by, D) ==
  /\ by \in SourcesOf(rs, x)
  /\ \A t \in D \cap Ranked : Knows(rs, t, type, x) /\ Wins(rs, x, t) => by = t
(* ... or will be, once source s is known for it. *)
Chosen(rs, type, x, by, s, D) ==
  \/ by = s /\ Wins(rs, x, s)
  \/ Due(rs, type, x, by, D) /\ ~(s \in D \cap Ranked /\ Wins(rs, x, s))

(* Who signs a work has an answer under its key, and who signs an edition  *)
(* lists that printing of its work.                                        *)
SignedWork(row) == row.by \in Discovering /\ \E a \in Catalogue[row.by] : a.key = row.key
SignedEdition(row, ws) ==
  \E b \in Catalogue[row.by] : \E f \in Catalog!Listed(b) :
    Fits(row, f) /\ ws[row.work].key \in Homes(row.by, b)
Writers == Discovering \ Attaching
Signed(rs, ws, es, newWorks, newEditions) ==
  /\ \A x \in DOMAIN ws :
       SignedWork(ws[x]) /\ (x \in newWorks \/ Due(rs, "work", x, ws[x].by, Writers))
  /\ \A x \in DOMAIN es :
       /\ es[x].work \in DOMAIN ws /\ SignedEdition(es[x], ws)
       /\ x \in newEditions \/ Due(rs, "edition", x, es[x].by, Sources)

(* The rows and refs of w, and what w is about to do with them.            *)
IsFn(f) == f = [x \in DOMAIN f |-> f[x]]
UnnamedWork(w) == {id \in {loc[w].wid} : pc[w] = "saveWorkRef"}
Rooted(w) ==
  /\ IsFn(works) /\ IsFn(editions) /\ IsFn(refs)
  /\ Housed(refs, works, editions) /\ Signed(refs, works, editions, {}, {})
  /\ Housed(ViewRefs(w), ViewWorks(w), ViewEditions(w))
  /\ Signed(ViewRefs(w), ViewWorks(w), ViewEditions(w), UnnamedWork(w), Unnamed(w))

JobAt(w) ==
  /\ pc[w] \notin {"idle", "failed"} =>
       IF job[w].attach = None THEN Src(w) \in Discovering
       ELSE Src(w) \in Attaching /\ job[w].attach \in DOMAIN works
  /\ pc[w] \in InTransaction \cup {"fetch"} /\ job[w].attach # None =>
       works[job[w].attach].key \in Homes(Src(w), Ans(w))
WorkAt(w) ==
  LET id == loc[w].wid
      row == loc[w].row
      ws == ViewWorks(w)
      rs == ViewRefs(w)
      home == Homes(Src(w), Ans(w))
  IN /\ pc[w] = "findWorkByKey" => job[w].attach = None /\ WorkRef(w) \notin DOMAIN rs
     /\ pc[w] \in AtWorkRow /\ WorkRef(w) \in DOMAIN rs => rs[WorkRef(w)].id = id
     /\ pc[w] \in {"workSources", "readWork", "saveWork"} =>
          IF id \notin DOMAIN ws THEN job[w].attach = None
          ELSE ws[id].key \in home /\ (job[w].attach = None => ws[id].key = Ans(w).key)
     /\ pc[w] \in AfterWork \cup {"saveWorkRef"} => id \in DOMAIN ws /\ ws[id].key \in home
     /\ pc[w] = "workSources" =>
          job[w].attach = None /\ (id \notin DOMAIN ws => SourcesOf(rs, id) = {})
     /\ pc[w] = "readWork" =>
          id \in DOMAIN ws /\ ~(Src(w) \in Writers \cap Ranked /\ Wins(rs, id, Src(w)))
     /\ pc[w] = "saveWork" =>
          \/ /\ row.key = Ans(w).key /\ row.by = Src(w)
             /\ job[w].attach = None /\ Wins(rs, id, Src(w))
          \/ /\ id \in DOMAIN ws /\ row = ws[id]
             /\ ~(Src(w) \in Writers \cap Ranked /\ Wins(rs, id, Src(w)))
     /\ pc[w] = "saveWorkRef" => Chosen(rs, "work", id, ws[id].by, Src(w), Writers)
     /\ pc[w] = "log" => id \in DOMAIN works
EditionAt(w) ==
  LET id == loc[w].eid
      row == loc[w].erow
      es == ViewEditions(w)
      rs == ViewRefs(w)
  IN /\ pc[w] = "findEditionByKey" => EdRef(w) \notin DOMAIN rs
     /\ pc[w] \in AtEditionRow =>
          /\ EdRef(w) \in DOMAIN rs => rs[EdRef(w)].id = id
          /\ id \in DOMAIN es /\ ~Ed(w).isbn => es[id].work = loc[w].wid
     /\ pc[w] = "editionSources" /\ id \notin DOMAIN es => SourcesOf(rs, id) = {}
     /\ pc[w] = "readEdition" => id \in DOMAIN es /\ ~(Src(w) \in Ranked /\ Wins(rs, id, Src(w)))
     /\ pc[w] \in {"updateEdition", "insertEdition"} =>
          \/ row = NewEdition(w) /\ Wins(rs, id, Src(w))
          \/ id \in DOMAIN es /\ row = es[id] /\ ~(Src(w) \in Ranked /\ Wins(rs, id, Src(w)))
     /\ pc[w] = "saveEditionRef" =>
          id \in DOMAIN es /\ Chosen(rs, "edition", id, es[id].by, Src(w), Sources)
     /\ pc[w] = "saveLinks" => id \in DOMAIN es
Settled(w) == Rooted(w) /\ JobAt(w) /\ WorkAt(w) /\ EditionAt(w)

(* What an open transaction changes of who signs a row.                    *)
YieldsTo(old, new, s) ==
  \A x \in DOMAIN old : new[x].by = old[x].by \/ (new[x].by = s /\ ~Outranks(old[x].by, s))
Writing(w) == pc[w] \in AfterWork \cup {"saveWorkRef"}
Yielding(w) ==
  Writing(w) =>
    YieldsTo(works, ViewWorks(w), Src(w)) /\ YieldsTo(editions, ViewEditions(w), Src(w))

(* A source's answers that list one ISBN are about one work, and two       *)
(* sources without a rank answer about no work and list no printing both.  *)
PrintingsStay ==
  \A s \in Sources : \A a, b \in Catalogue[s] : \A e \in Catalog!Listed(a), f \in Catalog!Listed(b) :
    e.isbn /\ f.isbn /\ e.k = f.k => SameHome(s, a, b)
UnrankedApart ==
  \A s, t \in Sources \ Ranked : s # t => \A a \in Catalogue[s], b \in Catalogue[t] :
    /\ s \in Discovering /\ t \in Discovering => a.key # b.key
    /\ \A e \in Catalog!Listed(a), f \in Catalog!Listed(b) :
         ~ ((e.isbn <=> f.isbn) /\ e.k = f.k /\ (e.isbn \/ Homes(s, a) \cap Homes(t, b) # {}))

(* A sync of what is stored sees what is stored. *)
Repeats(w) ==
  Writing(w) /\ Stored(Src(w), Ans(w)) =>
    /\ ViewWorks(w) = works /\ ViewEditions(w) = editions /\ ViewRefs(w) = refs
    /\ tx[w].links \subseteq links

LEMMA RankedTotal ==
  ASSUME NEW s \in Ranked, NEW t \in Ranked, s # t
  PROVE  Outranks(s, t) \/ Outranks(t, s)
  <1>1. PICK p \in 1..Len(MetadataPriority) : MetadataPriority[p] = s
    BY DEF Ranked
  <1>2. PICK q \in 1..Len(MetadataPriority) : MetadataPriority[q] = t
    BY DEF Ranked
  <1>3. p \in Nat /\ q \in Nat /\ p # q
    BY <1>1, <1>2 DEF MetadataPriority
  <1>4. CASE p < q
    BY <1>1, <1>2, <1>4 DEF Outranks
  <1>5. CASE q < p
    BY <1>1, <1>2, <1>5 DEF Outranks
  <1> QED BY <1>3, <1>4, <1>5

LEMMA OutrankedIsRanked ==
  ASSUME NEW s, NEW t, Outranks(s, t)
  PROVE  s \in Ranked /\ t \in Ranked
  BY DEF Outranks, Ranked

(* Fewer sources known are fewer to win against, only one source can win   *)
(* among the ranked ones, and nobody is outranked who wins.                *)
LEMMA WinsAmongFewer ==
  ASSUME NEW K, NEW L, K \subseteq L, NEW t \in Ranked, t \in Winners(L, t)
  PROVE  t \in Winners(K, t)
  BY DEF Winners

LEMMA OneWins ==
  ASSUME NEW K, NEW s, s \in Winners(K, s), NEW t \in Ranked, t \in K, t \in Winners(K \cup {s}, t)
  PROVE  t = s
  <1>1. SUFFICES ASSUME t # s PROVE FALSE
    OBVIOUS
  <1>2. s \in Ranked /\ \A u \in (K \cup {s}) \cap Ranked : ~Outranks(u, s)
    BY DEF Winners
  <1>3. \A u \in (K \cup {s} \cup {t}) \cap Ranked : ~Outranks(u, t)
    BY DEF Winners
  <1>4. ~Outranks(t, s) /\ ~Outranks(s, t)
    BY <1>2, <1>3
  <1> QED BY <1>1, <1>2, <1>4, RankedTotal

LEMMA OthersWin ==
  ASSUME NEW K, NEW s \in Ranked, NEW t \in Winners(K, s), t # s
  PROVE  s \notin Winners(K, s)
  <1>1. SUFFICES ASSUME s \in Winners(K, s) PROVE FALSE
    OBVIOUS
  <1>2. (K \cup {s}) \cap Ranked # {}
    OBVIOUS
  <1>3. /\ t \in Ranked /\ t \in K \cup {s} /\ \A u \in (K \cup {s}) \cap Ranked : ~Outranks(u, t)
        /\ \A u \in (K \cup {s}) \cap Ranked : ~Outranks(u, s)
    BY <1>1, <1>2 DEF Winners
  <1>4. ~Outranks(s, t) /\ ~Outranks(t, s)
    BY <1>3
  <1> QED BY <1>3, <1>4, RankedTotal

LEMMA WinnerIsBest ==
  ASSUME NEW K, NEW s, s \in Winners(K, s), NEW u \in K
  PROVE  ~Outranks(u, s) /\ (s \notin Ranked => u \notin Ranked)
  <1>1. u \in Ranked => u \in (K \cup {s}) \cap Ranked
    OBVIOUS
  <1>2. u \in Ranked => s \in Ranked /\ ~Outranks(u, s)
    BY <1>1 DEF Winners
  <1> QED BY <1>2, OutrankedIsRanked

LEMMA NobodyKnown ==
  ASSUME NEW s
  PROVE  Winners({}, s) = {s}
  <1>1. CASE s \in Ranked
    <2>1. ~Outranks(s, s)
      <3>1. SUFFICES ASSUME Outranks(s, s) PROVE FALSE
        OBVIOUS
      <3>2. PICK p, q \in 1..Len(MetadataPriority) : p < q /\ MetadataPriority[p] = s /\ MetadataPriority[q] = s
        BY <3>1 DEF Outranks
      <3> QED BY <3>2 DEF MetadataPriority
    <2> QED BY <1>1, <2>1 DEF Winners
  <1>2. CASE s \notin Ranked
    BY <1>2 DEF Winners
  <1> QED BY <1>1, <1>2

(* A ref that is put: a new one, or one that keeps its row. *)
LEMMA SourcesPut ==
  ASSUME NEW rs, NEW r, NEW ref, r \in DOMAIN rs => rs[r].id = ref.id, NEW x
  PROVE  /\ SourcesOf(Put(rs, r, ref), x) = IF x = ref.id THEN SourcesOf(rs, x) \cup {r[1]} ELSE SourcesOf(rs, x)
         /\ \A t, type : Knows(Put(rs, r, ref), t, type, x) =>
              Knows(rs, t, type, x) \/ (t = r[1] /\ type = ref.type /\ x = ref.id)
         /\ \A t, type : Knows(rs, t, type, x) => t \in SourcesOf(rs, x)
  <1> DEFINE rs2 == Put(rs, r, ref)
  <1>1. DOMAIN rs2 = DOMAIN rs \cup {r} /\ rs2[r] = ref /\ \A y \in DOMAIN rs \ {r} : rs2[y] = rs[y]
    BY DEF Put
  <1> HIDE DEF rs2
  <1>2. \A u : u \in SourcesOf(rs2, x) <=> \E y \in DOMAIN rs2 : rs2[y].id = x /\ u = y[1]
    BY DEF SourcesOf
  <1>3. \A u : u \in SourcesOf(rs, x) <=> \E y \in DOMAIN rs : rs[y].id = x /\ u = y[1]
    BY DEF SourcesOf
  <1>4. SourcesOf(rs2, x) = IF x = ref.id THEN SourcesOf(rs, x) \cup {r[1]} ELSE SourcesOf(rs, x)
    <2>1. ASSUME NEW u \in SourcesOf(rs2, x) PROVE u \in SourcesOf(rs, x) \/ (x = ref.id /\ u = r[1])
      BY <1>1, <1>2, <1>3
    <2>2. ASSUME NEW u \in SourcesOf(rs, x) PROVE u \in SourcesOf(rs2, x)
      BY <1>1, <1>2, <1>3
    <2>3. x = ref.id => r[1] \in SourcesOf(rs2, x)
      BY <1>1, <1>2
    <2> QED BY <2>1, <2>2, <2>3
  <1>5. \A t, type : Knows(rs2, t, type, x) => Knows(rs, t, type, x) \/ (t = r[1] /\ type = ref.type /\ x = ref.id)
    BY <1>1 DEF Knows
  <1>6. \A t, type : Knows(rs, t, type, x) => t \in SourcesOf(rs, x)
    BY <1>3 DEF Knows
  <1> QED BY <1>4, <1>5, <1>6 DEF rs2

LEMMA DueStays ==
  ASSUME NEW rs, NEW r, NEW ref, r \in DOMAIN rs => rs[r].id = ref.id, NEW type, NEW x, NEW by, NEW D,
         Due(rs, type, x, by, D), type # ref.type \/ x # ref.id
  PROVE  Due(Put(rs, r, ref), type, x, by, D)
  <1>1. by \in SourcesOf(Put(rs, r, ref), x) /\ SourcesOf(rs, x) \subseteq SourcesOf(Put(rs, r, ref), x)
    BY SourcesPut DEF Due
  <1>2. ASSUME NEW t \in D \cap Ranked, Knows(Put(rs, r, ref), t, type, x), Wins(Put(rs, r, ref), x, t)
        PROVE  by = t
    <2>1. Knows(rs, t, type, x)
      BY <1>2, SourcesPut
    <2>2. Wins(rs, x, t)
      BY <1>1, <1>2, WinsAmongFewer DEF Wins
    <2> QED BY <2>1, <2>2 DEF Due
  <1> QED BY <1>1, <1>2 DEF Due

LEMMA DueNow ==
  ASSUME NEW rs, NEW r, NEW ref, r \in DOMAIN rs => rs[r].id = ref.id, NEW by, NEW D, NEW s, s = r[1],
         Chosen(rs, ref.type, ref.id, by, s, D)
  PROVE  Due(Put(rs, r, ref), ref.type, ref.id, by, D)
  <1> DEFINE rs2 == Put(rs, r, ref)
             x == ref.id
             K == SourcesOf(rs, x)
  <1>1. SourcesOf(rs2, x) = K \cup {s}
    BY SourcesPut
  <1>2. ASSUME NEW t, Knows(rs2, t, ref.type, x) PROVE t = s \/ (t \in K /\ Knows(rs, t, ref.type, x))
    BY <1>2, SourcesPut
  <1> HIDE DEF rs2, K
  <1>3. CASE by = s /\ s \in Winners(K, s)
    <2>1. by \in SourcesOf(rs2, x)
      BY <1>1, <1>3
    <2>2. ASSUME NEW t \in D \cap Ranked, Knows(rs2, t, ref.type, x), Wins(rs2, x, t) PROVE by = t
      BY <1>1, <1>2, <1>3, <2>2, OneWins DEF Wins
    <2> QED BY <2>1, <2>2 DEF Due, rs2
  <1>4. CASE Due(rs, ref.type, x, by, D) /\ ~(s \in D \cap Ranked /\ s \in Winners(K, s))
    <2>1. by \in SourcesOf(rs2, x)
      BY <1>1, <1>4 DEF Due, K
    <2>2. ASSUME NEW t \in D \cap Ranked, Knows(rs2, t, ref.type, x), Wins(rs2, x, t) PROVE by = t
      <3>1. t \in Winners(K, t)
        BY <1>1, <2>2, WinsAmongFewer DEF Wins
      <3>2. t # s
        BY <1>4, <2>2, <3>1
      <3>3. Knows(rs, t, ref.type, x)
        BY <1>2, <2>2, <3>2
      <3> QED BY <1>4, <2>2, <3>1, <3>3 DEF Due, Wins, K
    <2> QED BY <2>1, <2>2 DEF Due, rs2
  <1> QED BY <1>3, <1>4 DEF Chosen, Wins, K

(* Where the refs of a source lead. *)
LEMMA RefLeads ==
  ASSUME WorksApart, OnePrintingEach, NEW rs, NEW ws, NEW es, TablesLead(rs, ws, es),
         NEW s \in Sources, NEW a \in Catalogue[s]
  PROVE  /\ <<s, a.ext>> \in DOMAIN rs =>
              rs[<<s, a.ext>>].type = "work" /\ rs[<<s, a.ext>>].id \in DOMAIN ws
         /\ \A e \in Catalog!Listed(a) : <<s, e.ext>> \in DOMAIN rs =>
              /\ rs[<<s, e.ext>>].type = "edition" /\ rs[<<s, e.ext>>].id \in DOMAIN es
              /\ Fits(es[rs[<<s, e.ext>>].id], e)
  <1>1. ASSUME <<s, a.ext>> \in DOMAIN rs
        PROVE  rs[<<s, a.ext>>].type = "work" /\ rs[<<s, a.ext>>].id \in DOMAIN ws
    <2>1. PICK r : r = <<s, a.ext>>
      OBVIOUS
    <2>2. LeadsTo(r, rs[r], ws, es) /\ r[1] = s /\ r[2] = a.ext
      BY <1>1, <2>1 DEF TablesLead
    <2> QED BY <2>1, <2>2 DEF LeadsTo, WorksApart
  <1>2. ASSUME NEW e \in Catalog!Listed(a), <<s, e.ext>> \in DOMAIN rs
        PROVE  /\ rs[<<s, e.ext>>].type = "edition" /\ rs[<<s, e.ext>>].id \in DOMAIN es
               /\ Fits(es[rs[<<s, e.ext>>].id], e)
    <2>1. PICK r : r = <<s, e.ext>>
      OBVIOUS
    <2>2. LeadsTo(r, rs[r], ws, es) /\ r[1] = s /\ r[2] = e.ext
      BY <1>2, <2>1 DEF TablesLead
    <2>3. ~ \E b \in Catalogue[s] : b.ext = e.ext
      BY DEF WorksApart
    <2>4. /\ rs[r].type = "edition" /\ rs[r].id \in DOMAIN es
          /\ \E b \in Catalogue[s] : \E f \in Catalog!Listed(b) : f.ext = e.ext /\ Fits(es[rs[r].id], f)
      BY <2>2, <2>3 DEF LeadsTo
    <2>5. PICK b \in Catalogue[s] : \E f \in Catalog!Listed(b) : f.ext = e.ext /\ Fits(es[rs[r].id], f)
      BY <2>4
    <2>6. PICK f \in Catalog!Listed(b) : f.ext = e.ext /\ Fits(es[rs[r].id], f)
      BY <2>5
    <2>7. f.isbn = e.isbn /\ f.k = e.k
      BY <2>6 DEF OnePrintingEach
    <2> QED BY <2>1, <2>4, <2>6, <2>7 DEF Fits, EditionKey
  <1> QED BY <1>1, <1>2

(* A work keeps its key, and only an edition with an ISBN moves. *)
LEMMA HousedKeeps ==
  ASSUME WorksApart, OnePrintingEach, NEW rs, NEW ws, NEW es, TablesLead(rs, ws, es), Housed(rs, ws, es),
         \A x \in DOMAIN es : es[x].work \in DOMAIN ws /\ es[x].work # None,
         NEW ws2, \A x \in DOMAIN ws : ws2[x].key = ws[x].key,
         NEW es2, \A x \in DOMAIN es : es2[x].work = es[x].work \/ es[x].key[1] = None
  PROVE  Housed(rs, ws2, es2)
  <1> SUFFICES ASSUME NEW s \in Sources, NEW a \in Catalogue[s], NEW k \in Homes(s, a)
               PROVE  /\ <<s, a.ext>> \in DOMAIN rs => ws2[rs[<<s, a.ext>>].id].key = k
                      /\ \A e \in Catalog!Listed(a) :
                           <<s, e.ext>> \in DOMAIN rs /\ ~e.isbn => ws2[es2[rs[<<s, e.ext>>].id].work].key = k
    BY DEF Housed
  <1>1. ASSUME <<s, a.ext>> \in DOMAIN rs PROVE ws2[rs[<<s, a.ext>>].id].key = k
    BY <1>1, RefLeads DEF Housed
  <1>2. ASSUME NEW e \in Catalog!Listed(a), <<s, e.ext>> \in DOMAIN rs, ~e.isbn
        PROVE  ws2[es2[rs[<<s, e.ext>>].id].work].key = k
    <2>1. PICK x : x = rs[<<s, e.ext>>].id
      OBVIOUS
    <2>2. x \in DOMAIN es /\ Fits(es[x], e)
      BY <1>2, <2>1, RefLeads
    <2>3. es[x].key[1] # None
      BY <1>2, <2>2 DEF Fits, EditionKey
    <2>4. es2[x].work = es[x].work /\ es[x].work \in DOMAIN ws
      BY <2>2, <2>3
    <2>5. ws[es[x].work].key = k
      BY <1>2, <2>1 DEF Housed
    <2> QED BY <2>1, <2>4, <2>5
  <1> QED BY <1>1, <1>2

LEMMA HousedWorkRef ==
  ASSUME WorksApart, OneHomeEach, NEW rs, NEW ws, NEW es, Housed(rs, ws, es),
         NEW s \in Sources, NEW a \in Catalogue[s], NEW ref, ws[ref.id].key \in Homes(s, a)
  PROVE  Housed(Put(rs, <<s, a.ext>>, ref), ws, es)
  <1> DEFINE rs2 == Put(rs, <<s, a.ext>>, ref)
  <1>1. /\ DOMAIN rs2 = DOMAIN rs \cup {<<s, a.ext>>} /\ rs2[<<s, a.ext>>] = ref
        /\ \A y \in DOMAIN rs : y # <<s, a.ext>> => rs2[y] = rs[y]
    BY DEF Put
  <1> HIDE DEF rs2
  <1> SUFFICES ASSUME NEW t \in Sources, NEW b \in Catalogue[t], NEW k \in Homes(t, b)
               PROVE  /\ <<t, b.ext>> \in DOMAIN rs2 => ws[rs2[<<t, b.ext>>].id].key = k
                      /\ \A e \in Catalog!Listed(b) :
                           <<t, e.ext>> \in DOMAIN rs2 /\ ~e.isbn => ws[es[rs2[<<t, e.ext>>].id].work].key = k
    BY DEF Housed, rs2
  <1>2. ASSUME <<t, b.ext>> \in DOMAIN rs2 PROVE ws[rs2[<<t, b.ext>>].id].key = k
    <2>1. CASE <<t, b.ext>> = <<s, a.ext>>
      <3>1. SameHome(s, a, b) /\ t = s
        BY <2>1 DEF OneHomeEach, ShareId
      <3> QED BY <1>1, <2>1, <3>1 DEF SameHome
    <2>2. CASE <<t, b.ext>> # <<s, a.ext>>
      BY <1>1, <1>2, <2>2 DEF Housed
    <2> QED BY <2>1, <2>2
  <1>3. ASSUME NEW e \in Catalog!Listed(b), <<t, e.ext>> \in DOMAIN rs2, ~e.isbn
        PROVE  ws[es[rs2[<<t, e.ext>>].id].work].key = k
    <2>1. <<t, e.ext>> # <<s, a.ext>>
      BY DEF WorksApart
    <2>2. <<t, e.ext>> \in DOMAIN rs /\ rs2[<<t, e.ext>>] = rs[<<t, e.ext>>]
      BY <1>1, <1>3, <2>1
    <2> QED BY <1>3, <2>2 DEF Housed
  <1> QED BY <1>2, <1>3

LEMMA HousedEditionRef ==
  ASSUME WorksApart, OnePrintingEach, OneHomeEach, NEW rs, NEW ws, NEW es, Housed(rs, ws, es),
         NEW s \in Sources, NEW a \in Catalogue[s], NEW e \in Catalog!Listed(a),
         NEW ref, ~e.isbn => ws[es[ref.id].work].key \in Homes(s, a)
  PROVE  Housed(Put(rs, <<s, e.ext>>, ref), ws, es)
  <1> DEFINE rs2 == Put(rs, <<s, e.ext>>, ref)
  <1>1. /\ DOMAIN rs2 = DOMAIN rs \cup {<<s, e.ext>>} /\ rs2[<<s, e.ext>>] = ref
        /\ \A y \in DOMAIN rs : y # <<s, e.ext>> => rs2[y] = rs[y]
    BY DEF Put
  <1> HIDE DEF rs2
  <1> SUFFICES ASSUME NEW t \in Sources, NEW b \in Catalogue[t], NEW k \in Homes(t, b)
               PROVE  /\ <<t, b.ext>> \in DOMAIN rs2 => ws[rs2[<<t, b.ext>>].id].key = k
                      /\ \A f \in Catalog!Listed(b) :
                           <<t, f.ext>> \in DOMAIN rs2 /\ ~f.isbn => ws[es[rs2[<<t, f.ext>>].id].work].key = k
    BY DEF Housed, rs2
  <1>2. ASSUME <<t, b.ext>> \in DOMAIN rs2 PROVE ws[rs2[<<t, b.ext>>].id].key = k
    <2>1. <<t, b.ext>> # <<s, e.ext>>
      BY DEF WorksApart
    <2>2. <<t, b.ext>> \in DOMAIN rs /\ rs2[<<t, b.ext>>] = rs[<<t, b.ext>>]
      BY <1>1, <1>2, <2>1
    <2> QED BY <2>2 DEF Housed
  <1>3. ASSUME NEW f \in Catalog!Listed(b), <<t, f.ext>> \in DOMAIN rs2, ~f.isbn
        PROVE  ws[es[rs2[<<t, f.ext>>].id].work].key = k
    <2>1. CASE <<t, f.ext>> = <<s, e.ext>>
      <3>1. t = s /\ f.ext = e.ext
        BY <2>1
      <3>2. SameHome(s, a, b)
        BY <3>1 DEF OneHomeEach, ShareId
      <3>3. ~e.isbn
        BY <1>3, <3>1 DEF OnePrintingEach
      <3> QED BY <1>1, <2>1, <3>1, <3>2, <3>3 DEF SameHome
    <2>2. CASE <<t, f.ext>> # <<s, e.ext>>
      <3>1. <<t, f.ext>> \in DOMAIN rs /\ rs2[<<t, f.ext>>] = rs[<<t, f.ext>>]
        BY <1>1, <1>3, <2>2
      <3> QED BY <1>3, <3>1 DEF Housed
    <2> QED BY <2>1, <2>2
  <1> QED BY <1>2, <1>3

(* What writing a row, and then its ref, does to who signs the rows. *)
LEMMA SignedPutWork ==
  ASSUME NEW rs, NEW ws, NEW es, Signed(rs, ws, es, {}, {}), NEW id, NEW row, SignedWork(row),
         id \in DOMAIN ws => row.key = ws[id].key
  PROVE  Signed(rs, Put(ws, id, row), es, {id}, {})
  <1> DEFINE ws2 == Put(ws, id, row)
  <1>1. /\ DOMAIN ws2 = DOMAIN ws \cup {id} /\ ws2[id] = row
        /\ \A y \in DOMAIN ws : y # id => ws2[y] = ws[y]
    BY DEF Put
  <1>2. \A y \in DOMAIN ws : y \in DOMAIN ws2 /\ ws2[y].key = ws[y].key
    BY <1>1
  <1> HIDE DEF ws2
  <1>3. ASSUME NEW x \in DOMAIN ws2 PROVE SignedWork(ws2[x]) /\ (x \in {id} \/ Due(rs, "work", x, ws2[x].by, Writers))
    BY <1>1 DEF Signed
  <1>4. ASSUME NEW x \in DOMAIN es
        PROVE  /\ es[x].work \in DOMAIN ws2 /\ SignedEdition(es[x], ws2)
               /\ Due(rs, "edition", x, es[x].by, Sources)
    BY <1>2 DEF Signed, SignedEdition
  <1> QED BY <1>3, <1>4 DEF Signed, ws2

LEMMA SignedPutWorkRef ==
  ASSUME NEW rs, NEW ws, NEW es, NEW id, Signed(rs, ws, es, {id}, {}), NEW r, r \in DOMAIN rs => rs[r].id = id,
         Chosen(rs, "work", id, ws[id].by, r[1], Writers)
  PROVE  Signed(Put(rs, r, [type |-> "work", id |-> id]), ws, es, {}, {})
  <1>1. PICK ref : ref = [type |-> "work", id |-> id]
    OBVIOUS
  <1>2. ref.type = "work" /\ ref.id = id
    BY <1>1
  <1>3. ASSUME NEW x \in DOMAIN ws PROVE Due(Put(rs, r, ref), "work", x, ws[x].by, Writers)
    <2>1. CASE x = id
      <3>1. Due(Put(rs, r, ref), ref.type, ref.id, ws[id].by, Writers)
        BY <1>2, DueNow
      <3> QED BY <1>2, <2>1, <3>1
    <2>2. CASE x # id
      <3>1. Due(rs, "work", x, ws[x].by, Writers)
        BY <2>2 DEF Signed
      <3> QED BY <1>2, <2>2, <3>1, DueStays
    <2> QED BY <2>1, <2>2
  <1>4. ASSUME NEW x \in DOMAIN es PROVE Due(Put(rs, r, ref), "edition", x, es[x].by, Sources)
    <2>1. Due(rs, "edition", x, es[x].by, Sources)
      BY DEF Signed
    <2> QED BY <1>2, <2>1, DueStays
  <1> QED BY <1>1, <1>3, <1>4 DEF Signed

LEMMA SignedPutEdition ==
  ASSUME NEW rs, NEW ws, NEW es, Signed(rs, ws, es, {}, {}), NEW id, NEW row, SignedEdition(row, ws),
         row.work \in DOMAIN ws
  PROVE  Signed(rs, ws, Put(es, id, row), {}, {id})
  <1> DEFINE es2 == Put(es, id, row)
  <1>1. /\ DOMAIN es2 = DOMAIN es \cup {id} /\ es2[id] = row
        /\ \A y \in DOMAIN es : y # id => es2[y] = es[y]
    BY DEF Put
  <1> HIDE DEF es2
  <1>2. ASSUME NEW x \in DOMAIN es2
        PROVE  /\ es2[x].work \in DOMAIN ws /\ SignedEdition(es2[x], ws)
               /\ x \in {id} \/ Due(rs, "edition", x, es2[x].by, Sources)
    BY <1>1 DEF Signed
  <1> QED BY <1>2 DEF Signed, es2

LEMMA SignedPutEditionRef ==
  ASSUME NEW rs, NEW ws, NEW es, NEW id, Signed(rs, ws, es, {}, {id}), NEW r, r \in DOMAIN rs => rs[r].id = id,
         Chosen(rs, "edition", id, es[id].by, r[1], Sources)
  PROVE  Signed(Put(rs, r, [type |-> "edition", id |-> id]), ws, es, {}, {})
  <1>1. PICK ref : ref = [type |-> "edition", id |-> id]
    OBVIOUS
  <1>2. ref.type = "edition" /\ ref.id = id
    BY <1>1
  <1>3. ASSUME NEW x \in DOMAIN es PROVE Due(Put(rs, r, ref), "edition", x, es[x].by, Sources)
    <2>1. CASE x = id
      <3>1. Due(Put(rs, r, ref), ref.type, ref.id, es[id].by, Sources)
        BY <1>2, DueNow
      <3> QED BY <1>2, <2>1, <3>1
    <2>2. CASE x # id
      <3>1. Due(rs, "edition", x, es[x].by, Sources)
        BY <2>2 DEF Signed
      <3> QED BY <1>2, <2>2, <3>1, DueStays
    <2> QED BY <2>1, <2>2
  <1>4. ASSUME NEW x \in DOMAIN ws PROVE Due(Put(rs, r, ref), "work", x, ws[x].by, Writers)
    <2>1. Due(rs, "work", x, ws[x].by, Writers)
      BY DEF Signed
    <2> QED BY <1>2, <2>1, DueStays
  <1> QED BY <1>1, <1>3, <1>4 DEF Signed

(* What the open transaction of w sees. *)
LEMMA Seen ==
  ASSUME Inv, NEW w \in Workers
  PROVE  /\ Catalog!Unique(ViewWorks(w)) /\ Catalog!Unique(ViewEditions(w))
         /\ \A x \in DOMAIN ViewWorks(w) : x \in Nat /\ ViewWorks(w)[x] \in WorkRow
         /\ \A x \in DOMAIN ViewEditions(w) :
              x \in Nat /\ ViewEditions(w)[x] \in EditionRow /\ ViewEditions(w)[x].work # None
         /\ \A r \in DOMAIN ViewRefs(w) : ViewRefs(w)[r].id \in Nat /\ ViewRefs(w)[r].id # nextId
         /\ nextId \in Nat /\ nextId \notin DOMAIN ViewWorks(w) /\ nextId \notin DOMAIN ViewEditions(w)
         /\ \A x \in DOMAIN works : x \in DOMAIN ViewWorks(w) /\ ViewWorks(w)[x].key = works[x].key
         /\ \A x \in DOMAIN editions : x \in DOMAIN ViewEditions(w)
  <1>1. TypeOK /\ Safe
    BY DEF Inv
  <1>2. OpenKeysUnique(tx[w], works, editions)
    BY <1>1 DEF Safe, OpenOK
  <1>3. Catalog!Unique(ViewWorks(w)) /\ Catalog!Unique(ViewEditions(w))
    BY <1>2 DEF OpenKeysUnique, ViewWorks, ViewEditions
  <1>4. nextId \in Nat /\ Ids \subseteq Nat /\ nextId \notin Ids /\ None \notin Ids
    BY <1>1, Known DEF Ids, None
  <1>5. IsTable(ViewWorks(w), Ids, WorkRow) /\ IsTable(ViewEditions(w), Ids, EditionRow)
        /\ IsTable(ViewRefs(w), RefKey, RefRow)
    BY <1>1, ViewsOK
  <1>6. \A row \in EditionRow : row.work # None
    BY <1>4 DEF EditionRow
  <1>7. \A row \in RefRow : row.id \in Ids
    BY DEF RefRow
  <1>8. ASSUME NEW x \in DOMAIN works
        PROVE  x \in DOMAIN ViewWorks(w) /\ ViewWorks(w)[x].key = works[x].key
    BY <1>2 DEF OpenKeysUnique, ViewWorks, Over
  <1>9. ASSUME NEW x \in DOMAIN editions PROVE x \in DOMAIN ViewEditions(w)
    BY DEF ViewEditions, Over
  <1> QED BY <1>3, <1>4, <1>5, <1>6, <1>7, <1>8, <1>9 DEF IsTable

LEMMA OverFunctions ==
  ASSUME NEW f, NEW g
  PROVE  IsFn(Over(f, g)) /\ (IsFn(g) => Over(Empty, g) = g)
  <1>1. IsFn(Over(f, g))
    BY DEF IsFn, Over
  <1>2. ASSUME IsFn(g) PROVE Over(Empty, g) = g
    BY <1>2 DEF IsFn, Over, Empty
  <1> QED BY <1>1, <1>2

LEMMA RootedThen ==
  ASSUME NEW w, IsFn(works'), IsFn(editions'), IsFn(refs'),
         Housed(refs', works', editions'), Signed(refs', works', editions', {}, {}),
         NEW rs, NEW ws, NEW es, NEW newWorks, NEW newEditions,
         Housed(rs, ws, es), Signed(rs, ws, es, newWorks, newEditions),
         ViewRefs(w)' = rs, ViewWorks(w)' = ws, ViewEditions(w)' = es,
         UnnamedWork(w)' = newWorks, Unnamed(w)' = newEditions
  PROVE  Rooted(w)'
  BY DEF Rooted

LEMMA NoneUnnamed ==
  ASSUME NEW w \in Workers
  PROVE  /\ pc[w] # "saveWorkRef" => UnnamedWork(w) = {}
         /\ pc[w] # "saveEditionRef" => Unnamed(w) = {}
         /\ pc'[w] # "saveWorkRef" => UnnamedWork(w)' = {}
         /\ pc'[w] # "saveEditionRef" => Unnamed(w)' = {}
  BY DEF UnnamedWork, Unnamed

(* A statement that only reads. *)
LEMMA RootedStays ==
  ASSUME NEW w \in Workers, Rooted(w), UNCHANGED <<works, editions, refs>>,
         tx'[w].works = tx[w].works, tx'[w].editions = tx[w].editions, tx'[w].refs = tx[w].refs,
         pc[w] \notin {"saveWorkRef", "saveEditionRef"}, pc'[w] \notin {"saveWorkRef", "saveEditionRef"}
  PROVE  /\ Rooted(w)' /\ ViewWorks(w)' = ViewWorks(w) /\ ViewEditions(w)' = ViewEditions(w)
         /\ ViewRefs(w)' = ViewRefs(w)
  <1>1. /\ ViewWorks(w)' = ViewWorks(w) /\ ViewEditions(w)' = ViewEditions(w)
        /\ ViewRefs(w)' = ViewRefs(w)
    BY DEF ViewWorks, ViewEditions, ViewRefs
  <1>2. UnnamedWork(w) = {} /\ Unnamed(w) = {} /\ UnnamedWork(w)' = {} /\ Unnamed(w)' = {}
    BY NoneUnnamed
  <1>3. /\ IsFn(works') /\ IsFn(editions') /\ IsFn(refs')
        /\ Housed(refs', works', editions') /\ Signed(refs', works', editions', {}, {})
    BY DEF Rooted
  <1>4. /\ Housed(ViewRefs(w), ViewWorks(w), ViewEditions(w))
        /\ Signed(ViewRefs(w), ViewWorks(w), ViewEditions(w), {}, {})
    BY <1>2 DEF Rooted
  <1>5. Rooted(w)'
    BY <1>1, <1>2, <1>3, <1>4, RootedThen
  <1> QED BY <1>1, <1>5

LEMMA RootedEnd ==
  ASSUME NEW w \in Workers, tx'[w] = NoTx, IsFn(works'), IsFn(editions'), IsFn(refs'),
         Housed(refs', works', editions'), Signed(refs', works', editions', {}, {}),
         pc'[w] \notin {"saveWorkRef", "saveEditionRef"}
  PROVE  Rooted(w)'
  <1>1. ViewWorks(w)' = works' /\ ViewEditions(w)' = editions' /\ ViewRefs(w)' = refs'
    BY OverFunctions DEF ViewWorks, ViewEditions, ViewRefs, NoTx
  <1>2. UnnamedWork(w)' = {} /\ Unnamed(w)' = {}
    BY NoneUnnamed
  <1> QED BY <1>1, <1>2, RootedThen

LEMMA JobStays ==
  ASSUME NEW w \in Workers, JobAt(w), job' = job, pc[w] \notin {"idle", "failed"},
         pc'[w] \in InTransaction \cup {"fetch"} => pc[w] \in InTransaction \cup {"fetch"},
         \A x \in DOMAIN works : x \in DOMAIN works' /\ works'[x].key = works[x].key
  PROVE  JobAt(w)'
  BY DEF JobAt, Src, Ans

LEMMA WorkElsewhere ==
  ASSUME NEW w \in Workers, pc'[w] \notin AfterWork \cup AtWorkRow \cup {"findWorkByKey", "log"}
  PROVE  WorkAt(w)'
  BY DEF WorkAt, AtWorkRow

LEMMA WorkStays ==
  ASSUME NEW w \in Workers, WorkAt(w), pc[w] \in AfterWork \cup {"saveWorkRef"}, pc'[w] \in AfterWork,
         loc'[w].wid = loc[w].wid, job' = job, ViewWorks(w)' = ViewWorks(w)
  PROVE  WorkAt(w)'
  <1>1. pc'[w] \notin AtWorkRow \cup {"findWorkByKey", "log"}
    BY DEF AfterWork, AtWorkRow, AtEdition, EditionKnown
  <1> QED BY <1>1 DEF WorkAt, AtWorkRow, Src, Ans

LEMMA EditionElsewhere ==
  ASSUME NEW w \in Workers, pc'[w] \notin AtEditionRow \cup {"findEditionByKey", "saveLinks"}
  PROVE  EditionAt(w)'
  BY DEF EditionAt, AtEditionRow

(* The end of a transaction that leaves the tables as they were. *)
LEMMA SettledEnd ==
  ASSUME NEW w \in Workers, Settled(w), UNCHANGED <<works, editions, refs>>, tx'[w] = NoTx,
         pc'[w] \in {"failed", "idle"}
  PROVE  Settled(w)'
  <1>1. /\ IsFn(works') /\ IsFn(editions') /\ IsFn(refs')
        /\ Housed(refs', works', editions') /\ Signed(refs', works', editions', {}, {})
    BY DEF Settled, Rooted
  <1>2. Rooted(w)'
    BY <1>1, RootedEnd
  <1>3. JobAt(w)'
    BY DEF JobAt, InTransaction
  <1> QED BY <1>2, <1>3, WorkElsewhere, EditionElsewhere
          DEF Settled, AfterWork, AtWorkRow, AtEdition, EditionKnown, AtEditionRow

LEMMA SettledAbort ==
  ASSUME TypeOK, NEW w \in Workers, Settled(w), Abort(w)
  PROVE  Settled(w)'
  BY SettledEnd DEF Abort, Goto, TypeOK

LEMMA SettledReset ==
  ASSUME TypeOK, NEW w \in Workers, Settled(w), Reset(w), UNCHANGED <<works, editions, refs>>
  PROVE  Settled(w)'
  BY SettledEnd DEF Reset, Goto, TypeOK

LEMMA SettledStart ==
  ASSUME TypeOK, NEW w \in Workers, Settled(w), StartSync(w)
  PROVE  Settled(w)'
  <1>1. /\ UNCHANGED <<works, editions, refs, tx>> /\ pc'[w] = "search" /\ pc[w] = "idle"
    BY DEF StartSync, Goto, TypeOK
  <1>2. JobAt(w)'
    <2>1. None \notin DOMAIN works
      BY DEF TypeOK, SharedOK, TablesOK, IsTable, Ids, None
    <2>2. \/ job'[w].src \in Discovering /\ job'[w].attach = None
          \/ job'[w].src \in Attaching /\ job'[w].attach \in DOMAIN works
      BY DEF StartSync, NewJob, TypeOK
    <2> QED BY <1>1, <2>1, <2>2 DEF JobAt, Src, InTransaction
  <1>3. Rooted(w)'
    BY <1>1, RootedStays DEF Settled
  <1> QED BY <1>1, <1>2, <1>3, WorkElsewhere, EditionElsewhere
          DEF Settled, AfterWork, AtWorkRow, AtEdition, EditionKnown, AtEditionRow

LEMMA SettledAsk ==
  ASSUME TypeOK, NEW w \in Workers, Settled(w), FindTopMatch(w) \/ CheckAnswer(w) \/ FetchDetails(w)
  PROVE  Settled(w)'
  <1>1. /\ UNCHANGED <<works, editions, refs, tx>>
        /\ pc[w] \in {"search", "check", "fetch"} /\ pc'[w] \in {"check", "failed", "fetch", "findWorkRef"}
    BY DEF FindTopMatch, CheckAnswer, FetchDetails, Goto, TypeOK
  <1>2. JobAt(w)'
    <2>1. CASE FindTopMatch(w)
      <3>1. /\ pc[w] = "search" /\ pc'[w] = "check" /\ works' = works
            /\ job'[w].attach = job[w].attach /\ Src(w)' = Src(w)
        BY <2>1 DEF FindTopMatch, Goto, TypeOK, Job, Src
      <3> QED BY <3>1 DEF Settled, JobAt, InTransaction
    <2>2. CASE CheckAnswer(w)
      <3>1. /\ pc[w] = "check" /\ job' = job /\ works' = works
            /\ pc'[w] \in {"failed", "fetch"}
        BY <2>2 DEF CheckAnswer, Goto, TypeOK
      <3>2. CASE pc'[w] = "failed"
        BY <3>2 DEF JobAt, InTransaction
      <3>3. CASE pc'[w] = "fetch"
        <4>1. job[w].attach # None =>
                Src(w) \in Attaching /\ job[w].attach \in DOMAIN works
          BY <3>1 DEF Settled, JobAt
        <4>2. job[w].attach \in DOMAIN works => <<works[job[w].attach].key, Ans(w).key>> \in SameBook
          BY <2>2, <3>3 DEF CheckAnswer, Goto, TypeOK
        <4>3. \A x \in DOMAIN works : works[x].key \in WorkKeys
          BY DEF TypeOK, SharedOK, TablesOK, IsTable, WorkRow
        <4>4. job[w].attach # None => works[job[w].attach].key \in Homes(Src(w), Ans(w))
          BY <4>1, <4>2, <4>3 DEF Homes
        <4> QED BY <3>1, <3>3, <4>4 DEF Settled, JobAt, Src, Ans, InTransaction
      <3> QED BY <3>1, <3>2, <3>3
    <2>3. CASE FetchDetails(w)
      <3>1. pc[w] = "fetch" /\ job' = job /\ works' = works
        BY <2>3 DEF FetchDetails
      <3> QED BY <3>1, JobStays DEF Settled
    <2> QED BY <2>1, <2>2, <2>3
  <1>3. Rooted(w)'
    BY <1>1, RootedStays DEF Settled
  <1> QED BY <1>1, <1>2, <1>3, WorkElsewhere, EditionElsewhere
          DEF Settled, AfterWork, AtWorkRow, AtEdition, EditionKnown, AtEditionRow

Ready(w) == Inv /\ Calm(w) /\ Settled(w)

(* The tables a transaction sees lead, house and are signed.               *)
LEMMA SeenOf ==
  ASSUME NEW w \in Workers, Ready(w)
  PROVE  /\ TypeOK /\ Written /\ WorkFound(w) /\ EditionFound(w) /\ JobAt(w) /\ WorkAt(w) /\ EditionAt(w)
         /\ TablesLead(ViewRefs(w), ViewWorks(w), ViewEditions(w))
         /\ Housed(ViewRefs(w), ViewWorks(w), ViewEditions(w))
         /\ pc[w] \notin {"saveWorkRef", "saveEditionRef"} =>
              Signed(ViewRefs(w), ViewWorks(w), ViewEditions(w), {}, {})
         /\ \A x \in DOMAIN ViewEditions(w) : ViewEditions(w)[x].work \in DOMAIN ViewWorks(w)
  <1>1. /\ TypeOK /\ Written /\ WorkFound(w) /\ EditionFound(w) /\ JobAt(w) /\ WorkAt(w) /\ EditionAt(w)
        /\ Rooted(w) /\ TablesLead(ViewRefs(w), ViewWorks(w), ViewEditions(w))
    BY DEF Ready, Inv, Calm, Leads, Settled
  <1>2. /\ Housed(ViewRefs(w), ViewWorks(w), ViewEditions(w))
        /\ Signed(ViewRefs(w), ViewWorks(w), ViewEditions(w), UnnamedWork(w), Unnamed(w))
    BY <1>1 DEF Rooted
  <1>3. \A x \in DOMAIN ViewEditions(w) : ViewEditions(w)[x].work \in DOMAIN ViewWorks(w)
    BY <1>2 DEF Signed
  <1> QED BY <1>1, <1>2, <1>3, NoneUnnamed

(* An answer found by discovery is at home under its own key. *)
LEMMA OwnHome ==
  ASSUME NEW s \in Sources, NEW a \in Catalogue[s], s \in Discovering
  PROVE  a.key \in Homes(s, a)
  BY AnswerShape DEF Homes

LEMMA SettledFindWorkRef ==
  ASSUME WorksApart, OnePrintingEach, NEW w \in Workers, Ready(w), FindWorkRef(w)
  PROVE  Settled(w)'
  <1> DEFINE rs == ViewRefs(w)
             ws == ViewWorks(w)
  <1>1. /\ pc[w] = "findWorkRef" /\ UNCHANGED <<works, editions, refs, tx, job>>
        /\ pc'[w] \in {"readWork", "workSources", "findWorkByKey"}
    BY SeenOf DEF FindWorkRef, Goto, TypeOK
  <1>2. Src(w) \in Sources /\ Ans(w) \in Catalogue[Src(w)]
    BY <1>1, SeenOf, KnownAnswer DEF InTransaction
  <1>3. Rooted(w)' /\ ViewWorks(w)' = ws /\ ViewRefs(w)' = rs
    BY <1>1, RootedStays DEF Ready, Settled
  <1>4. JobAt(w)'
    BY <1>1, JobStays DEF Ready, Settled, InTransaction
  <1>5. WorkRef(w) \in DOMAIN rs =>
          /\ rs[WorkRef(w)].id \in DOMAIN ws
          /\ \A k \in Homes(Src(w), Ans(w)) : ws[rs[WorkRef(w)].id].key = k
    BY <1>2, SeenOf, RefLeads DEF WorkRef, Housed
  <1>6. Src(w)' = Src(w) /\ Ans(w)' = Ans(w) /\ WorkRef(w)' = WorkRef(w)
    BY <1>1 DEF Src, Ans, WorkRef
  <1>7. WorkAt(w)'
    <2>1. CASE job[w].attach # None
      <3>1. /\ Src(w) \in Attaching /\ job[w].attach \in DOMAIN works
            /\ works[job[w].attach].key \in Homes(Src(w), Ans(w))
        BY <1>1, <2>1, SeenOf DEF JobAt, InTransaction
      <3>2. PICK x : x = job[w].attach
        OBVIOUS
      <3>3. x \in DOMAIN ws /\ ws[x].key \in Homes(Src(w), Ans(w)) /\ x \in Nat
        BY <3>1, <3>2, Seen DEF Ready
      <3>4. WorkRef(w) \in DOMAIN rs => rs[WorkRef(w)].id = x
        BY <1>5, <3>3, Seen DEF Catalog!Unique, Ready
      <3>5. pc'[w] = "readWork" /\ loc'[w].wid = x
        BY <2>1, <3>2, <3>3, SetWid, SeenOf DEF FindWorkRef, Goto, TypeOK
      <3>6. Src(w) \notin Writers
        BY <3>1 DEF Writers
      <3> QED BY <1>1, <1>3, <1>6, <2>1, <3>3, <3>4, <3>5, <3>6 DEF WorkAt, AtWorkRow, AfterWork, AtEdition, EditionKnown
    <2>2. CASE job[w].attach = None /\ WorkRef(w) \in DOMAIN rs
      <3>1. Src(w) \in Discovering
        BY <1>1, <2>2, SeenOf DEF JobAt
      <3>2. PICK x : x = rs[WorkRef(w)].id
        OBVIOUS
      <3>3. /\ x \in DOMAIN ws /\ ws[x].key \in Homes(Src(w), Ans(w)) /\ x \in Nat
            /\ ws[x].key = Ans(w).key
        BY <1>2, <1>5, <2>2, <3>1, <3>2, OwnHome, Seen DEF Ready
      <3>4. pc'[w] = "workSources" /\ loc'[w].wid = x
        BY <2>2, <3>2, <3>3, SetWid, SeenOf DEF FindWorkRef, Goto, TypeOK
      <3> QED BY <1>1, <1>3, <1>6, <2>2, <3>2, <3>3, <3>4 DEF WorkAt, AtWorkRow, AfterWork, AtEdition, EditionKnown
    <2>3. CASE job[w].attach = None /\ WorkRef(w) \notin DOMAIN rs
      <3>1. pc'[w] = "findWorkByKey"
        BY <2>3, SeenOf DEF FindWorkRef, Goto, TypeOK
      <3> QED BY <1>1, <1>3, <1>6, <2>3, <3>1 DEF WorkAt, AtWorkRow, AfterWork, AtEdition, EditionKnown
    <2> QED BY <2>1, <2>2, <2>3
  <1> QED BY <1>1, <1>3, <1>4, <1>7, EditionElsewhere DEF Settled, AtEditionRow

LEMMA SettledFindWorkByKey ==
  ASSUME NEW w \in Workers, Ready(w), FindWorkByKey(w)
  PROVE  Settled(w)'
  <1> DEFINE rs == ViewRefs(w)
             ws == ViewWorks(w)
  <1>1. /\ pc[w] = "findWorkByKey" /\ UNCHANGED <<works, editions, refs, tx, job>>
        /\ pc'[w] = "workSources"
    BY SeenOf DEF FindWorkByKey, Goto, TypeOK
  <1>2. Src(w) \in Sources /\ Ans(w) \in Catalogue[Src(w)]
    BY <1>1, SeenOf, KnownAnswer DEF InTransaction
  <1>3. Rooted(w)' /\ ViewWorks(w)' = ws /\ ViewRefs(w)' = rs
    BY <1>1, RootedStays DEF Ready, Settled
  <1>4. JobAt(w)'
    BY <1>1, JobStays DEF Ready, Settled, InTransaction
  <1>5. job[w].attach = None /\ WorkRef(w) \notin DOMAIN rs /\ Src(w) \in Discovering
    BY <1>1, SeenOf DEF WorkAt, JobAt
  <1>6. Src(w)' = Src(w) /\ Ans(w)' = Ans(w) /\ WorkRef(w)' = WorkRef(w)
    BY <1>1 DEF Src, Ans, WorkRef
  <1>7. PICK x \in Nat : /\ loc' = [loc EXCEPT ![w].wid = x]
                         /\ (x \in DOMAIN ws /\ ws[x].key = Ans(w).key) \/ (x = nextId /\ x \notin DOMAIN ws)
    BY Seen DEF FindWorkByKey, Ready
  <1>8. loc'[w].wid = x
    BY <1>7, SetWid, SeenOf
  <1>9. x \notin DOMAIN ws => SourcesOf(rs, x) = {}
    <2>1. ASSUME x = nextId PROVE \A r \in DOMAIN rs : rs[r].id # x
      BY <2>1, Seen DEF Ready
    <2> QED BY <1>7, <2>1 DEF SourcesOf
  <1>10. x \in DOMAIN ws => ws[x].key = Ans(w).key /\ ws[x].key \in Homes(Src(w), Ans(w))
    BY <1>2, <1>5, <1>7, OwnHome
  <1>11. WorkAt(w)'
    BY <1>1, <1>3, <1>5, <1>6, <1>8, <1>9, <1>10 DEF WorkAt, AtWorkRow, AfterWork, AtEdition, EditionKnown
  <1> QED BY <1>1, <1>3, <1>4, <1>11, EditionElsewhere DEF Settled, AtEditionRow

LEMMA SettledReadWorkSources ==
  ASSUME NEW w \in Workers, Ready(w), ReadWorkSources(w)
  PROVE  Settled(w)'
  <1> DEFINE rs == ViewRefs(w)
             ws == ViewWorks(w)
             id == loc[w].wid
  <1>1. /\ pc[w] = "workSources" /\ UNCHANGED <<works, editions, refs, tx, job>>
        /\ pc'[w] \in {"saveWork", "readWork"}
    BY SeenOf DEF ReadWorkSources, Goto, TypeOK
  <1>2. Src(w) \in Sources /\ Ans(w) \in Catalogue[Src(w)]
    BY <1>1, SeenOf, KnownAnswer DEF InTransaction
  <1>3. Rooted(w)' /\ ViewWorks(w)' = ws /\ ViewRefs(w)' = rs
    BY <1>1, RootedStays DEF Ready, Settled
  <1>4. JobAt(w)'
    BY <1>1, JobStays DEF Ready, Settled, InTransaction
  <1>5. /\ job[w].attach = None /\ (id \notin DOMAIN ws => SourcesOf(rs, id) = {})
        /\ id \in DOMAIN ws => ws[id].key \in Homes(Src(w), Ans(w)) /\ ws[id].key = Ans(w).key
        /\ WorkRef(w) \in DOMAIN rs => rs[WorkRef(w)].id = id
    BY <1>1, SeenOf DEF WorkAt, AtWorkRow
  <1>6. Src(w)' = Src(w) /\ Ans(w)' = Ans(w) /\ WorkRef(w)' = WorkRef(w)
    BY <1>1 DEF Src, Ans, WorkRef
  <1>7. PICK t \in Winners(SourcesOf(ViewRefs(w), loc[w].wid), Src(w)) :
          \/ /\ t = Src(w) /\ Goto(w, "saveWork")
             /\ loc' = [loc EXCEPT ![w].row = [key |-> Ans(w).key, by |-> Src(w)]]
          \/ t # Src(w) /\ Goto(w, "readWork") /\ UNCHANGED loc
    BY DEF ReadWorkSources
  <1>8. CASE t = Src(w)
    <2>1. PICK row : row = [key |-> Ans(w).key, by |-> Src(w)]
      OBVIOUS
    <2>2. row \in WorkRow /\ row.key = Ans(w).key /\ row.by = Src(w)
      BY <1>2, <2>1, AnswerShape DEF WorkRow
    <2>3. pc'[w] = "saveWork" /\ loc'[w].row = row /\ loc'[w].wid = id
      BY <1>7, <1>8, <2>1, <2>2, SetRow, SeenOf DEF Goto, TypeOK
    <2>4. Wins(rs, id, Src(w))
      BY <1>8 DEF Wins
    <2>5. WorkAt(w)'
      BY <1>1, <1>3, <1>5, <1>6, <2>2, <2>3, <2>4 DEF WorkAt, AtWorkRow, AfterWork, AtEdition, EditionKnown
    <2> QED BY <1>1, <1>3, <1>4, <2>5, EditionElsewhere DEF Settled, AtEditionRow
  <1>9. CASE t # Src(w)
    <2>1. pc'[w] = "readWork" /\ loc' = loc
      BY <1>7, <1>9, SeenOf DEF Goto, TypeOK
    <2>2. id \in DOMAIN ws
      BY <1>5, <1>7, <1>9, NobodyKnown
    <2>3. ~(Src(w) \in Writers \cap Ranked /\ Wins(rs, id, Src(w)))
      BY <1>9, OthersWin DEF Wins
    <2>4. WorkAt(w)'
      BY <1>1, <1>3, <1>5, <1>6, <2>1, <2>2, <2>3 DEF WorkAt, AtWorkRow, AfterWork, AtEdition, EditionKnown
    <2> QED BY <1>1, <1>3, <1>4, <2>4, EditionElsewhere DEF Settled, AtEditionRow
  <1> QED BY <1>8, <1>9

LEMMA SettledReadWork ==
  ASSUME NEW w \in Workers, Ready(w), ReadWork(w)
  PROVE  Settled(w)'
  <1> DEFINE rs == ViewRefs(w)
             ws == ViewWorks(w)
             id == loc[w].wid
  <1>1. /\ pc[w] = "readWork" /\ UNCHANGED <<works, editions, refs, tx, job>>
        /\ pc'[w] = "saveWork"
    BY SeenOf DEF ReadWork, Goto, TypeOK
  <1>2. Src(w) \in Sources /\ Ans(w) \in Catalogue[Src(w)]
    BY <1>1, SeenOf, KnownAnswer DEF InTransaction
  <1>3. Rooted(w)' /\ ViewWorks(w)' = ws /\ ViewRefs(w)' = rs
    BY <1>1, RootedStays DEF Ready, Settled
  <1>4. JobAt(w)'
    BY <1>1, JobStays DEF Ready, Settled, InTransaction
  <1>5. /\ id \in DOMAIN ws /\ ws[id].key \in Homes(Src(w), Ans(w))
        /\ job[w].attach = None => ws[id].key = Ans(w).key
        /\ WorkRef(w) \in DOMAIN rs => rs[WorkRef(w)].id = id
        /\ ~(Src(w) \in Writers \cap Ranked /\ Wins(rs, id, Src(w)))
    BY <1>1, SeenOf DEF WorkAt, AtWorkRow
  <1>6. Src(w)' = Src(w) /\ Ans(w)' = Ans(w) /\ WorkRef(w)' = WorkRef(w)
    BY <1>1 DEF Src, Ans, WorkRef
  <1>7. PICK row : row = ws[id]
    OBVIOUS
  <1>8. row \in WorkRow
    BY <1>5, <1>7, Seen DEF Ready
  <1>9. loc'[w].wid = id /\ loc'[w].row = row
    BY <1>5, <1>7, <1>8, SetRow, SeenOf DEF ReadWork
  <1>10. WorkAt(w)'
    BY <1>1, <1>3, <1>5, <1>6, <1>7, <1>9 DEF WorkAt, AtWorkRow, AfterWork, AtEdition, EditionKnown
  <1> QED BY <1>1, <1>3, <1>4, <1>10, EditionElsewhere DEF Settled, AtEditionRow

(* The work's row is written under the id that was resolved: its key is    *)
(* the one the row has, or nobody's.                                       *)
LEMMA SaveWorkPuts ==
  ASSUME NEW w \in Workers, Ready(w), SaveWork(w)
  PROVE  LET id == loc[w].wid
             row == loc[w].row
         IN /\ pc[w] = "saveWork" /\ pc'[w] = "saveWorkRef"
            /\ UNCHANGED <<works, editions, refs, links, job, loc>>
            /\ tx'[w].works = Put(tx[w].works, id, row)
            /\ ViewWorks(w)' = Put(ViewWorks(w), id, row)
            /\ ViewEditions(w)' = ViewEditions(w) /\ ViewRefs(w)' = ViewRefs(w)
            /\ id \in DOMAIN ViewWorks(w) => row.key = ViewWorks(w)[id].key
            /\ id \notin DOMAIN ViewWorks(w) => row.key = Ans(w).key /\ job[w].attach = None
            /\ tx'[w].links = tx[w].links
  <1> DEFINE id == loc[w].wid
             row == loc[w].row
             ws == ViewWorks(w)
  <1>1. pc[w] = "saveWork"
    BY DEF SaveWork
  <1>2. Src(w) \in Sources /\ Ans(w) \in Catalogue[Src(w)]
    BY <1>1, SeenOf, KnownAnswer DEF InTransaction
  <1>3. \/ /\ row.key = Ans(w).key /\ row.by = Src(w) /\ job[w].attach = None
        \/ id \in DOMAIN ws /\ row = ws[id]
    BY <1>1, SeenOf DEF WorkAt
  <1>4. id \notin DOMAIN ws => job[w].attach = None /\ \A x \in DOMAIN ws : ws[x].key # Ans(w).key
    BY <1>1, SeenOf DEF WorkAt, WorkFound
  <1>5. id \in DOMAIN ws => row.key = ws[id].key
    <2>1. SUFFICES ASSUME id \in DOMAIN ws, row.key = Ans(w).key, job[w].attach = None PROVE row.key = ws[id].key
      BY <1>3
    <2> QED BY <1>1, <2>1, SeenOf DEF WorkAt
  <1>6. \A x \in DOMAIN ws : ws[x].key = row.key => x = id
    <2>1. CASE id \in DOMAIN ws
      BY <1>5, <2>1, Seen DEF Catalog!Unique, Ready
    <2>2. CASE id \notin DOMAIN ws
      BY <1>3, <1>4, <2>2
    <2> QED BY <2>1, <2>2
  <1>7. /\ tx' = [tx EXCEPT ![w].works = Put(@, id, row)] /\ Goto(w, "saveWorkRef")
        /\ UNCHANGED <<works, editions, refs, links, syncLog, cache, nextId, started, job, loc>>
    BY <1>5, <1>6 DEF SaveWork
  <1>8. /\ tx'[w].works = Put(tx[w].works, id, row) /\ tx'[w].links = tx[w].links
        /\ tx'[w].editions = tx[w].editions /\ tx'[w].refs = tx[w].refs
    BY <1>7, SeenOf DEF TypeOK, WorkerOK, TransactionOK
  <1>9. /\ ViewWorks(w)' = Put(ws, id, row)
        /\ ViewEditions(w)' = ViewEditions(w) /\ ViewRefs(w)' = ViewRefs(w)
    BY <1>7, <1>8, OverPut DEF ViewWorks, ViewEditions, ViewRefs
  <1>10. pc'[w] = "saveWorkRef"
    BY <1>7, SeenOf DEF Goto, TypeOK
  <1> QED BY <1>1, <1>3, <1>4, <1>5, <1>7, <1>8, <1>9, <1>10

LEMMA SettledSaveWork ==
  ASSUME WorksApart, OnePrintingEach, NEW w \in Workers, Ready(w), SaveWork(w)
  PROVE  Settled(w)'
  <1> DEFINE rs == ViewRefs(w)
             ws == ViewWorks(w)
             es == ViewEditions(w)
             id == loc[w].wid
             row == loc[w].row
             ws2 == Put(ws, id, row)
  <1>1. /\ pc[w] = "saveWork" /\ pc'[w] = "saveWorkRef"
        /\ UNCHANGED <<works, editions, refs, links, job, loc>>
        /\ ViewWorks(w)' = ws2 /\ ViewEditions(w)' = es /\ ViewRefs(w)' = rs
        /\ id \in DOMAIN ws => row.key = ws[id].key
        /\ id \notin DOMAIN ws => row.key = Ans(w).key /\ job[w].attach = None
    BY SaveWorkPuts
  <1>2. Src(w) \in Sources /\ Ans(w) \in Catalogue[Src(w)]
    BY <1>1, SeenOf, KnownAnswer DEF InTransaction
  <1>3. \/ /\ row.key = Ans(w).key /\ row.by = Src(w)
           /\ job[w].attach = None /\ Wins(rs, id, Src(w))
        \/ /\ id \in DOMAIN ws /\ row = ws[id]
           /\ ~(Src(w) \in Writers \cap Ranked /\ Wins(rs, id, Src(w)))
    BY <1>1, SeenOf DEF WorkAt
  <1>4. job[w].attach = None => Src(w) \in Discovering
    BY <1>1, SeenOf DEF JobAt
  <1>5. Housed(rs, ws, es) /\ Signed(rs, ws, es, {}, {}) /\ TablesLead(rs, ws, es)
    BY <1>1, SeenOf
  <1>6. SignedWork(row)
    BY <1>2, <1>3, <1>4, <1>5 DEF SignedWork, Signed
  <1>7. /\ DOMAIN ws2 = DOMAIN ws \cup {id} /\ ws2[id] = row
        /\ \A x \in DOMAIN ws : ws2[x].key = ws[x].key
    BY <1>1 DEF Put
  <1>8. Signed(rs, ws2, es, {id}, {})
    BY <1>1, <1>5, <1>6, SignedPutWork
  <1>9. \A x \in DOMAIN es : es[x].work \in DOMAIN ws /\ es[x].work # None
    BY SeenOf, Seen DEF Ready
  <1> HIDE DEF ws2
  <1>10. Housed(rs, ws2, es)
    BY <1>5, <1>7, <1>9, HousedKeeps
  <1>11. /\ IsFn(works') /\ IsFn(editions') /\ IsFn(refs')
         /\ Housed(refs', works', editions') /\ Signed(refs', works', editions', {}, {})
    BY <1>1 DEF Ready, Settled, Rooted
  <1>12. UnnamedWork(w)' = {id} /\ Unnamed(w)' = {}
    BY <1>1 DEF UnnamedWork, Unnamed
  <1>13. Rooted(w)'
    BY <1>1, <1>8, <1>10, <1>11, <1>12, RootedThen
  <1>14. JobAt(w)'
    BY <1>1, JobStays DEF Ready, Settled, InTransaction
  <1>15. row.key \in Homes(Src(w), Ans(w))
    <2>1. CASE id \in DOMAIN ws
      BY <1>1, <2>1, SeenOf DEF WorkAt
    <2>2. CASE id \notin DOMAIN ws
      BY <1>1, <1>2, <1>4, <2>2, OwnHome
    <2> QED BY <2>1, <2>2
  <1>16. Chosen(rs, "work", id, row.by, Src(w), Writers)
    BY <1>3, <1>5 DEF Chosen, Signed
  <1>17. WorkRef(w) \in DOMAIN rs => rs[WorkRef(w)].id = id
    BY <1>1, SeenOf DEF WorkAt, AtWorkRow
  <1>18. Src(w)' = Src(w) /\ Ans(w)' = Ans(w) /\ WorkRef(w)' = WorkRef(w)
    BY <1>1 DEF Src, Ans, WorkRef
  <1>19. WorkAt(w)'
    BY <1>1, <1>7, <1>15, <1>16, <1>17, <1>18 DEF WorkAt, AtWorkRow, AfterWork, AtEdition, EditionKnown
  <1> QED BY <1>1, <1>13, <1>14, <1>19, EditionElsewhere DEF Settled, AtEditionRow

LEMMA SaveWorkRefPuts ==
  ASSUME NEW w \in Workers, Ready(w), SaveWorkRef(w)
  PROVE  /\ pc[w] = "saveWorkRef" /\ pc'[w] = "edition"
         /\ UNCHANGED <<works, editions, refs, links, job>> /\ loc'[w].wid = loc[w].wid
         /\ tx'[w].links = tx[w].links
         /\ ViewRefs(w)' = Put(ViewRefs(w), WorkRef(w), [type |-> "work", id |-> loc[w].wid])
         /\ ViewWorks(w)' = ViewWorks(w) /\ ViewEditions(w)' = ViewEditions(w)
         /\ Src(w)' = Src(w) /\ Ans(w)' = Ans(w)
  <1> DEFINE ref == [type |-> "work", id |-> loc[w].wid]
  <1>1. /\ pc[w] = "saveWorkRef" /\ tx' = [tx EXCEPT ![w].refs = Put(tx[w].refs, WorkRef(w), ref)]
        /\ UNCHANGED <<works, editions, refs, links, job>> /\ pc'[w] = "edition"
        /\ loc' = [loc EXCEPT ![w].i = 1]
    BY SeenOf DEF SaveWorkRef, SaveRef, Goto, TypeOK
  <1>2. loc'[w].wid = loc[w].wid
    BY <1>1, SetIndex, SeenOf
  <1>3. /\ tx'[w].refs = Put(tx[w].refs, WorkRef(w), ref) /\ tx'[w].links = tx[w].links
        /\ tx'[w].editions = tx[w].editions /\ tx'[w].works = tx[w].works
    BY <1>1, SeenOf DEF TypeOK, WorkerOK, TransactionOK
  <1>4. /\ ViewRefs(w)' = Put(ViewRefs(w), WorkRef(w), ref)
        /\ ViewEditions(w)' = ViewEditions(w) /\ ViewWorks(w)' = ViewWorks(w)
    BY <1>1, <1>3, OverPut DEF ViewWorks, ViewEditions, ViewRefs
  <1> QED BY <1>1, <1>2, <1>3, <1>4 DEF Src, Ans

LEMMA SettledSaveWorkRef ==
  ASSUME WorksApart, OnePrintingEach, OneHomeEach, NEW w \in Workers, Ready(w), SaveWorkRef(w)
  PROVE  Settled(w)'
  <1> DEFINE rs == ViewRefs(w)
             ws == ViewWorks(w)
             es == ViewEditions(w)
             id == loc[w].wid
  <1>1. /\ pc[w] = "saveWorkRef" /\ pc'[w] = "edition"
        /\ UNCHANGED <<works, editions, refs, links, job>> /\ loc'[w].wid = id
        /\ ViewRefs(w)' = Put(rs, WorkRef(w), [type |-> "work", id |-> id])
        /\ ViewWorks(w)' = ws /\ ViewEditions(w)' = es
    BY SaveWorkRefPuts
  <1>2. Src(w) \in Sources /\ Ans(w) \in Catalogue[Src(w)] /\ WorkRef(w) = <<Src(w), Ans(w).ext>>
    BY <1>1, SeenOf, KnownAnswer DEF InTransaction, WorkRef
  <1>3. /\ id \in DOMAIN ws /\ ws[id].key \in Homes(Src(w), Ans(w))
        /\ WorkRef(w) \in DOMAIN rs => rs[WorkRef(w)].id = id
        /\ Chosen(rs, "work", id, ws[id].by, Src(w), Writers)
    BY <1>1, SeenOf DEF WorkAt, AtWorkRow
  <1>4. Housed(rs, ws, es) /\ Signed(rs, ws, es, {id}, {})
    BY <1>1 DEF Ready, Settled, Rooted, UnnamedWork, Unnamed
  <1>5. Housed(Put(rs, WorkRef(w), [type |-> "work", id |-> id]), ws, es)
    BY <1>2, <1>3, <1>4, HousedWorkRef
  <1>6. WorkRef(w)[1] = Src(w)
    BY <1>2
  <1>7. Signed(Put(rs, WorkRef(w), [type |-> "work", id |-> id]), ws, es, {}, {})
    BY <1>3, <1>4, <1>6, SignedPutWorkRef
  <1>8. /\ IsFn(works') /\ IsFn(editions') /\ IsFn(refs')
        /\ Housed(refs', works', editions') /\ Signed(refs', works', editions', {}, {})
    BY <1>1 DEF Ready, Settled, Rooted
  <1>9. UnnamedWork(w)' = {} /\ Unnamed(w)' = {}
    BY <1>1, NoneUnnamed
  <1>10. Rooted(w)'
    BY <1>1, <1>5, <1>7, <1>8, <1>9, RootedThen
  <1>11. JobAt(w)'
    BY <1>1, JobStays DEF Ready, Settled, InTransaction
  <1>12. WorkAt(w)'
    BY <1>1, WorkStays DEF Ready, Settled, AfterWork
  <1> QED BY <1>1, <1>10, <1>11, <1>12, EditionElsewhere DEF Settled, AtEditionRow

(* A statement of an edition that only reads. *)
LEMMA SettledReads ==
  ASSUME NEW w \in Workers, Ready(w), UNCHANGED <<works, editions, refs, tx, job>>,
         pc[w] \in AfterWork \ {"saveEditionRef"}, pc'[w] \in AfterWork \ {"saveEditionRef"},
         loc'[w].wid = loc[w].wid
  PROVE  /\ EditionAt(w)' => Settled(w)'
         /\ ViewWorks(w)' = ViewWorks(w) /\ ViewEditions(w)' = ViewEditions(w) /\ ViewRefs(w)' = ViewRefs(w)
         /\ Src(w)' = Src(w) /\ Ans(w)' = Ans(w)
  <1>1. /\ pc[w] \in InTransaction \ {"saveWorkRef", "saveEditionRef"}
        /\ pc'[w] \in InTransaction \ {"saveWorkRef", "saveEditionRef"}
    BY DEF AfterWork, AtEdition, EditionKnown, InTransaction
  <1>2. /\ Rooted(w)' /\ ViewWorks(w)' = ViewWorks(w) /\ ViewEditions(w)' = ViewEditions(w)
        /\ ViewRefs(w)' = ViewRefs(w)
    BY <1>1, RootedStays DEF Ready, Settled
  <1>3. JobAt(w)'
    BY <1>1, JobStays DEF Ready, Settled, InTransaction
  <1>4. WorkAt(w)'
    BY <1>2, WorkStays DEF Ready, Settled
  <1> QED BY <1>2, <1>3, <1>4 DEF Settled, Src, Ans

LEMMA SettledNextEdition ==
  ASSUME NEW w \in Workers, Ready(w), NextEdition(w)
  PROVE  Settled(w)'
  <1>1. /\ UNCHANGED <<works, editions, refs, tx, job>> /\ pc[w] = "edition"
        /\ pc'[w] \in {"edition", "invalidate", "findEditionRef"}
    BY SeenOf DEF NextEdition, Goto, TypeOK
  <1>2. loc'[w].wid = loc[w].wid
    BY SeenOf DEF NextEdition, TypeOK, Local
  <1>3. EditionAt(w)'
    BY <1>1, EditionElsewhere DEF AtEditionRow
  <1> QED BY <1>1, <1>2, <1>3, SettledReads DEF AfterWork, AtEdition

LEMMA SettledInvalidate ==
  ASSUME NEW w \in Workers, Ready(w), InvalidateCache(w)
  PROVE  Settled(w)'
  <1>1. /\ UNCHANGED <<works, editions, refs, tx, job, loc>> /\ pc[w] = "invalidate" /\ pc'[w] = "commit"
    BY SeenOf DEF InvalidateCache, Goto, TypeOK
  <1>2. EditionAt(w)'
    BY <1>1, EditionElsewhere DEF AtEditionRow
  <1> QED BY <1>1, <1>2, SettledReads DEF AfterWork

(* Where the work of a sync is, and that one work has its key.             *)
LEMMA AtHome ==
  ASSUME NEW w \in Workers, Ready(w), pc[w] \in AtEdition
  PROVE  /\ loc[w].wid \in DOMAIN ViewWorks(w) /\ ViewWorks(w)[loc[w].wid].key \in Homes(Src(w), Ans(w))
         /\ \A x \in DOMAIN ViewWorks(w) :
              ViewWorks(w)[x].key = ViewWorks(w)[loc[w].wid].key => x = loc[w].wid
  BY SeenOf, Seen DEF WorkAt, AfterWork, Catalog!Unique, Ready

LEMMA SettledFindEditionRef ==
  ASSUME WorksApart, OnePrintingEach, NEW w \in Workers, Ready(w), FindEditionRef(w)
  PROVE  Settled(w)'
  <1> DEFINE rs == ViewRefs(w)
             ws == ViewWorks(w)
             es == ViewEditions(w)
  <1>1. pc[w] = "findEditionRef" /\ UNCHANGED <<works, editions, refs, tx, job>>
    BY DEF FindEditionRef
  <1>2. /\ Src(w) \in Sources /\ Ans(w) \in Catalogue[Src(w)] /\ Ed(w) \in Catalog!Listed(Ans(w))
    BY <1>1, KnownEdition, SeenOf DEF AtEdition
  <1>3. CASE EdRef(w) \notin DOMAIN rs
    <2>1. pc'[w] = "findEditionByKey" /\ loc' = loc
      BY <1>3, SeenOf DEF FindEditionRef, Goto, TypeOK
    <2>2. ViewRefs(w)' = rs /\ EdRef(w)' = EdRef(w)
      BY <1>1, <2>1, SettledReads DEF AfterWork, AtEdition, EdRef, Ed
    <2>3. EditionAt(w)'
      BY <1>3, <2>1, <2>2 DEF EditionAt, AtEditionRow
    <2> QED BY <1>1, <2>1, <2>3, SettledReads DEF AfterWork, AtEdition
  <1>4. CASE EdRef(w) \in DOMAIN rs
    <2>1. PICK id : id = rs[EdRef(w)].id
      OBVIOUS
    <2>2. id \in DOMAIN es /\ id \in Nat
      BY <1>2, <1>4, <2>1, EditionRefLeads, Seen DEF Ready, Calm
    <2>3. ~Ed(w).isbn => es[id].work = loc[w].wid
      <3>1. SUFFICES ASSUME ~Ed(w).isbn PROVE es[id].work = loc[w].wid
        OBVIOUS
      <3>2. loc[w].wid \in DOMAIN ws /\ ws[loc[w].wid].key \in Homes(Src(w), Ans(w))
        BY <1>1, AtHome DEF AtEdition
      <3>3. ws[es[id].work].key = ws[loc[w].wid].key
        BY <1>2, <1>4, <2>1, <3>1, <3>2, SeenOf DEF Housed, EdRef
      <3>4. es[id].work \in DOMAIN ws
        BY <2>2, SeenOf
      <3> QED BY <1>1, <3>3, <3>4, AtHome DEF AtEdition
    <2>4. /\ pc'[w] = "editionSources" /\ loc'[w].eid = id
          /\ loc'[w].i = loc[w].i /\ loc'[w].wid = loc[w].wid
      BY <1>4, <2>1, <2>2, SetEid, SeenOf DEF FindEditionRef, Goto, TypeOK
    <2>5. /\ ViewRefs(w)' = rs /\ ViewEditions(w)' = es /\ EdRef(w)' = EdRef(w) /\ Ed(w)' = Ed(w)
      BY <1>1, <2>4, SettledReads DEF AfterWork, AtEdition, EditionKnown, EdRef, Ed
    <2>6. EditionAt(w)'
      BY <2>1, <2>2, <2>3, <2>4, <2>5 DEF EditionAt, AtEditionRow
    <2> QED BY <1>1, <2>4, <2>6, SettledReads DEF AfterWork, AtEdition, EditionKnown
  <1> QED BY <1>3, <1>4

LEMMA SettledFindEditionByKey ==
  ASSUME NEW w \in Workers, Ready(w), FindEditionByKey(w)
  PROVE  Settled(w)'
  <1> DEFINE rs == ViewRefs(w)
             es == ViewEditions(w)
  <1>1. /\ pc[w] = "findEditionByKey" /\ UNCHANGED <<works, editions, refs, tx, job>>
        /\ pc'[w] = "editionSources"
    BY SeenOf DEF FindEditionByKey, Goto, TypeOK
  <1>2. loc[w].wid # None /\ \A x \in DOMAIN es : es[x].work # None
    BY <1>1, KnownEdition, SeenOf DEF AtEdition
  <1>3. PICK id \in Nat : /\ loc' = [loc EXCEPT ![w].eid = id]
                          /\ (id \in DOMAIN es /\ es[id].key = EdKey(w)) \/ (id = nextId /\ id \notin DOMAIN es)
    BY Seen DEF FindEditionByKey, Ready
  <1>4. loc'[w].eid = id /\ loc'[w].i = loc[w].i /\ loc'[w].wid = loc[w].wid
    BY <1>3, SetEid, SeenOf
  <1>5. ASSUME id \in DOMAIN es, ~Ed(w).isbn PROVE es[id].work = loc[w].wid
    <2>1. es[id].key[1] = loc[w].wid
      BY <1>3, <1>5, Seen DEF Ready, EdKey, EditionKey
    <2>2. es[id].key[1] \in {None, es[id].work}
      BY <1>5, SeenOf DEF TablesLead
    <2> QED BY <1>2, <2>1, <2>2
  <1>6. id \notin DOMAIN es => SourcesOf(rs, id) = {}
    <2>1. ASSUME id = nextId PROVE \A r \in DOMAIN rs : rs[r].id # id
      BY <2>1, Seen DEF Ready
    <2> QED BY <1>3, <2>1 DEF SourcesOf
  <1>7. /\ ViewRefs(w)' = rs /\ ViewEditions(w)' = es /\ EdRef(w)' = EdRef(w) /\ Ed(w)' = Ed(w)
    BY <1>1, <1>4, SettledReads DEF AfterWork, AtEdition, EditionKnown, EdRef, Ed
  <1>8. EdRef(w) \notin DOMAIN rs
    BY <1>1, SeenOf DEF EditionAt
  <1>9. EditionAt(w)'
    BY <1>1, <1>4, <1>5, <1>6, <1>7, <1>8 DEF EditionAt, AtEditionRow
  <1> QED BY <1>1, <1>4, <1>9, SettledReads DEF AfterWork, AtEdition, EditionKnown

LEMMA SettledReadEditionSources ==
  ASSUME NEW w \in Workers, Ready(w), ReadEditionSources(w)
  PROVE  Settled(w)'
  <1> DEFINE rs == ViewRefs(w)
             es == ViewEditions(w)
             id == loc[w].eid
  <1>1. pc[w] = "editionSources" /\ UNCHANGED <<works, editions, refs, tx, job>>
    BY DEF ReadEditionSources
  <1>2. /\ id \notin DOMAIN es => SourcesOf(rs, id) = {}
        /\ EdRef(w) \in DOMAIN rs => rs[EdRef(w)].id = id
        /\ id \in DOMAIN es /\ ~Ed(w).isbn => es[id].work = loc[w].wid
    BY <1>1, SeenOf DEF EditionAt, AtEditionRow
  <1>3. PICK t \in Winners(SourcesOf(ViewRefs(w), loc[w].eid), Src(w)) :
          \/ t = Src(w) /\ loc' = [loc EXCEPT ![w].erow = NewEdition(w)] /\ Goto(w, "updateEdition")
          \/ t # Src(w) /\ Goto(w, "readEdition") /\ UNCHANGED loc
    BY DEF ReadEditionSources
  <1>4. CASE t = Src(w)
    <2>1. NewEdition(w) \in EditionRow
      BY <1>1, Known, NewEditionRow, SeenOf
    <2>2. PICK row : row = NewEdition(w)
      OBVIOUS
    <2>3. /\ loc'[w].erow = row /\ loc'[w].eid = id
          /\ loc'[w].i = loc[w].i /\ loc'[w].wid = loc[w].wid /\ pc'[w] = "updateEdition"
      BY <1>3, <1>4, <2>1, <2>2, SetEditionRow, SeenOf DEF Goto, TypeOK
    <2>4. /\ ViewRefs(w)' = rs /\ ViewEditions(w)' = es /\ EdRef(w)' = EdRef(w) /\ Ed(w)' = Ed(w)
          /\ Src(w)' = Src(w)
      BY <1>1, <2>3, SettledReads DEF AfterWork, AtEdition, EditionKnown, EdRef, Ed
    <2>5. NewEdition(w)' = NewEdition(w)
      BY <2>3, <2>4 DEF NewEdition, EdKey
    <2>6. Wins(rs, id, Src(w))
      BY <1>4 DEF Wins
    <2>7. EditionAt(w)'
      BY <1>2, <2>2, <2>3, <2>4, <2>5, <2>6 DEF EditionAt, AtEditionRow
    <2> QED BY <1>1, <2>3, <2>7, SettledReads DEF AfterWork, AtEdition, EditionKnown
  <1>5. CASE t # Src(w)
    <2>1. pc'[w] = "readEdition" /\ loc' = loc
      BY <1>3, <1>5, SeenOf DEF Goto, TypeOK
    <2>2. id \in DOMAIN es
      BY <1>2, <1>3, <1>5, NobodyKnown
    <2>3. ~(Src(w) \in Ranked /\ Wins(rs, id, Src(w)))
      BY <1>5, OthersWin DEF Wins
    <2>4. /\ ViewRefs(w)' = rs /\ ViewEditions(w)' = es /\ EdRef(w)' = EdRef(w) /\ Ed(w)' = Ed(w)
          /\ Src(w)' = Src(w)
      BY <1>1, <2>1, SettledReads DEF AfterWork, AtEdition, EditionKnown, EdRef, Ed
    <2>5. EditionAt(w)'
      BY <1>2, <2>1, <2>2, <2>3, <2>4 DEF EditionAt, AtEditionRow
    <2> QED BY <1>1, <2>1, <2>5, SettledReads DEF AfterWork, AtEdition, EditionKnown
  <1> QED BY <1>4, <1>5

LEMMA SettledReadEdition ==
  ASSUME NEW w \in Workers, Ready(w), ReadEdition(w)
  PROVE  Settled(w)'
  <1> DEFINE rs == ViewRefs(w)
             es == ViewEditions(w)
             id == loc[w].eid
  <1>1. /\ pc[w] = "readEdition" /\ UNCHANGED <<works, editions, refs, tx, job>> /\ pc'[w] = "updateEdition"
    BY SeenOf DEF ReadEdition, Goto, TypeOK
  <1>2. /\ id \in DOMAIN es /\ ~(Src(w) \in Ranked /\ Wins(rs, id, Src(w)))
        /\ EdRef(w) \in DOMAIN rs => rs[EdRef(w)].id = id
        /\ ~Ed(w).isbn => es[id].work = loc[w].wid
    BY <1>1, SeenOf DEF EditionAt, AtEditionRow
  <1>3. PICK row : row = es[id]
    OBVIOUS
  <1>4. row \in EditionRow
    BY <1>2, <1>3, Seen DEF Ready
  <1>5. /\ loc'[w].erow = row /\ loc'[w].eid = id
        /\ loc'[w].i = loc[w].i /\ loc'[w].wid = loc[w].wid
    BY <1>2, <1>3, <1>4, SetEditionRow, SeenOf DEF ReadEdition
  <1>6. /\ ViewRefs(w)' = rs /\ ViewEditions(w)' = es /\ EdRef(w)' = EdRef(w) /\ Ed(w)' = Ed(w)
        /\ Src(w)' = Src(w)
    BY <1>1, <1>5, SettledReads DEF AfterWork, AtEdition, EditionKnown, EdRef, Ed
  <1>7. EditionAt(w)'
    BY <1>1, <1>2, <1>3, <1>5, <1>6 DEF EditionAt, AtEditionRow
  <1> QED BY <1>1, <1>5, <1>7, SettledReads DEF AfterWork, AtEdition, EditionKnown

(* The row of an edition is written under the id that was resolved, and    *)
(* the schema refuses none: another row with its key is never there.       *)
EditionPut(w) ==
  LET id == loc[w].eid
      row == loc[w].erow
  IN /\ pc[w] \in {"updateEdition", "insertEdition"} /\ pc'[w] = "saveEditionRef"
     /\ UNCHANGED <<works, editions, refs, links, job, loc>>
     /\ tx'[w].links = tx[w].links
     /\ ViewEditions(w)' = Put(ViewEditions(w), id, row)
     /\ ViewWorks(w)' = ViewWorks(w) /\ ViewRefs(w)' = ViewRefs(w)
     /\ Src(w)' = Src(w) /\ Ans(w)' = Ans(w) /\ Ed(w)' = Ed(w) /\ EdRef(w)' = EdRef(w)
EditionMissing(w) ==
  /\ pc[w] = "updateEdition" /\ pc'[w] = "insertEdition"
  /\ loc[w].eid \notin DOMAIN ViewEditions(w)
  /\ UNCHANGED <<works, editions, refs, links, job, loc, tx>>

(* The row that is written, and the one it replaces.                       *)
LEMMA EditionRows ==
  ASSUME NEW w \in Workers, Ready(w), pc[w] \in {"updateEdition", "insertEdition"}
  PROVE  LET id == loc[w].eid
             row == loc[w].erow
             es == ViewEditions(w)
         IN /\ row.work \in DOMAIN ViewWorks(w) /\ SignedEdition(row, ViewWorks(w))
            /\ id \in DOMAIN es => row.key = es[id].key /\ (row.work = es[id].work \/ es[id].key[1] = None)
            /\ \A x \in DOMAIN es : es[x].key = row.key => x = id
            /\ ~Ed(w).isbn => row.work = loc[w].wid
            /\ Chosen(ViewRefs(w), "edition", id, row.by, Src(w), Sources)
  <1> DEFINE rs == ViewRefs(w)
             ws == ViewWorks(w)
             es == ViewEditions(w)
             id == loc[w].eid
             row == loc[w].erow
             wid == loc[w].wid
  <1>1. \/ row = NewEdition(w) /\ Wins(rs, id, Src(w))
        \/ id \in DOMAIN es /\ row = es[id] /\ ~(Src(w) \in Ranked /\ Wins(rs, id, Src(w)))
    BY SeenOf DEF EditionAt
  <1>2. id \in DOMAIN es /\ ~Ed(w).isbn => es[id].work = wid
    BY SeenOf DEF EditionAt, AtEditionRow
  <1>3. IF id \in DOMAIN es THEN Fits(es[id], Ed(w)) ELSE \A x \in DOMAIN es : es[x].key # EdKey(w)
    BY SeenOf DEF EditionFound
  <1>4. /\ Src(w) \in Sources /\ Ans(w) \in Catalogue[Src(w)] /\ Ed(w) \in Catalog!Listed(Ans(w))
        /\ wid \in DOMAIN ws /\ ws[wid].key \in Homes(Src(w), Ans(w))
    BY KnownEdition, SeenOf, AtHome DEF AtEdition, EditionKnown
  <1>5. /\ Signed(rs, ws, es, {}, {}) /\ Catalog!Unique(es)
        /\ \A x \in DOMAIN es : es[x].work \in DOMAIN ws
    BY SeenOf, Seen DEF Ready
  <1>6. id \in DOMAIN es => es[id].key = EdKey(w)
    BY <1>2, <1>3 DEF Fits, EdKey, EditionKey
  <1>7. CASE row = NewEdition(w) /\ Wins(rs, id, Src(w))
    <2>1. row.work = wid /\ row.key = EdKey(w) /\ row.by = Src(w) /\ Fits(row, Ed(w))
      BY <1>7, NewEditionFits DEF NewEdition
    <2>2. SignedEdition(row, ws)
      BY <1>4, <2>1 DEF SignedEdition
    <2>3. \A x \in DOMAIN es : es[x].key = row.key => x = id
      BY <1>3, <1>5, <1>6, <2>1 DEF Catalog!Unique
    <2>4. id \in DOMAIN es => (row.work = es[id].work \/ es[id].key[1] = None)
      <3>1. Ed(w).isbn => EdKey(w)[1] = None
        BY DEF EdKey, EditionKey
      <3> QED BY <1>2, <1>6, <2>1, <3>1
    <2>5. Chosen(rs, "edition", id, row.by, Src(w), Sources)
      BY <1>7, <2>1 DEF Chosen
    <2> QED BY <1>4, <1>6, <2>1, <2>2, <2>3, <2>4, <2>5
  <1>8. CASE id \in DOMAIN es /\ row = es[id] /\ ~(Src(w) \in Ranked /\ Wins(rs, id, Src(w)))
    <2>1. SignedEdition(row, ws) /\ Due(rs, "edition", id, row.by, Sources)
      BY <1>5, <1>8 DEF Signed
    <2>2. Chosen(rs, "edition", id, row.by, Src(w), Sources)
      BY <1>8, <2>1 DEF Chosen
    <2>3. \A x \in DOMAIN es : es[x].key = row.key => x = id
      BY <1>5, <1>8 DEF Catalog!Unique
    <2> QED BY <1>2, <1>5, <1>8, <2>1, <2>2, <2>3
  <1> QED BY <1>1, <1>7, <1>8

LEMMA EditionPuts ==
  ASSUME NEW w \in Workers, Ready(w), UpdateEdition(w) \/ InsertEdition(w)
  PROVE  EditionPut(w) \/ EditionMissing(w)
  <1> DEFINE es == ViewEditions(w)
             id == loc[w].eid
             row == loc[w].erow
  <1>1. pc[w] \in {"updateEdition", "insertEdition"}
    BY DEF UpdateEdition, InsertEdition
  <1>2. /\ WorkExists(w, row) /\ \A x \in DOMAIN es : es[x].key = row.key => x = id
    BY <1>1, EditionRows DEF WorkExists
  <1>3. pc[w] = "insertEdition" => id \notin DOMAIN es
    BY SeenOf DEF EditionFound
  <1>4. ASSUME PutEdition(w, id) PROVE EditionPut(w)
    <2>1. /\ tx' = [tx EXCEPT ![w].editions = Put(tx[w].editions, id, row)] /\ pc'[w] = "saveEditionRef"
          /\ UNCHANGED <<works, editions, refs, links, job, loc>>
      BY <1>4, SeenOf DEF PutEdition, Goto, TypeOK
    <2>2. /\ tx'[w].editions = Put(tx[w].editions, id, row) /\ tx'[w].links = tx[w].links
          /\ tx'[w].works = tx[w].works /\ tx'[w].refs = tx[w].refs
      BY <2>1, SeenOf DEF TypeOK, WorkerOK, TransactionOK
    <2>3. /\ ViewEditions(w)' = Put(es, id, row)
          /\ ViewWorks(w)' = ViewWorks(w) /\ ViewRefs(w)' = ViewRefs(w)
      BY <2>1, <2>2, OverPut DEF ViewWorks, ViewEditions, ViewRefs
    <2>4. Src(w)' = Src(w) /\ Ans(w)' = Ans(w) /\ Ed(w)' = Ed(w) /\ EdRef(w)' = EdRef(w)
      BY <2>1 DEF Src, Ans, Ed, EdRef
    <2> QED BY <1>1, <2>1, <2>2, <2>3, <2>4 DEF EditionPut
  <1>5. CASE UpdateEdition(w)
    <2>1. pc[w] = "updateEdition"
      BY <1>5 DEF UpdateEdition
    <2>2. CASE id \notin DOMAIN es
      <3>1. pc'[w] = "insertEdition" /\ UNCHANGED <<works, editions, refs, links, job, loc, tx>>
        BY <1>5, <2>2, SeenOf DEF UpdateEdition, Goto, TypeOK
      <3> QED BY <2>1, <2>2, <3>1 DEF EditionMissing
    <2>3. CASE id \in DOMAIN es
      <3>1. PutEdition(w, id)
        BY <1>2, <1>5, <2>3 DEF UpdateEdition
      <3> QED BY <1>4, <3>1
    <2> QED BY <2>2, <2>3
  <1>6. CASE InsertEdition(w)
    <2>1. id \notin DOMAIN es
      BY <1>3, <1>6 DEF InsertEdition
    <2>2. PutEdition(w, id)
      BY <1>2, <1>6, <2>1 DEF InsertEdition
    <2> QED BY <1>4, <2>2
  <1> QED BY <1>5, <1>6

LEMMA SettledWriteEdition ==
  ASSUME WorksApart, OnePrintingEach, NEW w \in Workers, Ready(w), UpdateEdition(w) \/ InsertEdition(w)
  PROVE  Settled(w)'
  <1> DEFINE rs == ViewRefs(w)
             ws == ViewWorks(w)
             es == ViewEditions(w)
             id == loc[w].eid
             row == loc[w].erow
             es2 == Put(es, id, row)
  <1>1. CASE EditionMissing(w)
    <2>1. /\ pc[w] = "updateEdition" /\ pc'[w] = "insertEdition"
          /\ UNCHANGED <<works, editions, refs, job, loc, tx>>
      BY <1>1 DEF EditionMissing
    <2>2. /\ ViewRefs(w)' = rs /\ ViewEditions(w)' = es /\ EdRef(w)' = EdRef(w) /\ Ed(w)' = Ed(w)
          /\ Src(w)' = Src(w)
      BY <2>1, SettledReads DEF AfterWork, AtEdition, EditionKnown, EdRef, Ed
    <2>3. NewEdition(w)' = NewEdition(w)
      BY <2>1, <2>2 DEF NewEdition, EdKey
    <2>4. EditionAt(w)'
      BY <2>1, <2>2, <2>3, SeenOf DEF EditionAt, AtEditionRow
    <2> QED BY <2>1, <2>4, SettledReads DEF AfterWork, AtEdition, EditionKnown
  <1>2. CASE EditionPut(w)
    <2>1. /\ pc[w] \in {"updateEdition", "insertEdition"} /\ pc'[w] = "saveEditionRef"
          /\ UNCHANGED <<works, editions, refs, job, loc>>
          /\ ViewEditions(w)' = es2 /\ ViewWorks(w)' = ws /\ ViewRefs(w)' = rs
          /\ Src(w)' = Src(w) /\ Ans(w)' = Ans(w) /\ Ed(w)' = Ed(w) /\ EdRef(w)' = EdRef(w)
      BY <1>2 DEF EditionPut
    <2>2. /\ row.work \in DOMAIN ws /\ SignedEdition(row, ws)
          /\ id \in DOMAIN es => (row.work = es[id].work \/ es[id].key[1] = None)
          /\ ~Ed(w).isbn => row.work = loc[w].wid
          /\ Chosen(rs, "edition", id, row.by, Src(w), Sources)
      BY <2>1, EditionRows
    <2>3. Housed(rs, ws, es) /\ Signed(rs, ws, es, {}, {}) /\ TablesLead(rs, ws, es)
      BY <2>1, SeenOf
    <2>4. Signed(rs, ws, es2, {}, {id})
      BY <2>2, <2>3, SignedPutEdition
    <2>5. \A x \in DOMAIN es : es[x].work \in DOMAIN ws /\ es[x].work # None
      BY SeenOf, Seen DEF Ready
    <2>6. /\ DOMAIN es2 = DOMAIN es \cup {id} /\ es2[id] = row
          /\ \A x \in DOMAIN es : es2[x].work = es[x].work \/ es[x].key[1] = None
      BY <2>2 DEF Put
    <2> HIDE DEF es2
    <2>7. Housed(rs, ws, es2)
      BY <2>3, <2>5, <2>6, HousedKeeps
    <2>8. /\ IsFn(works') /\ IsFn(editions') /\ IsFn(refs')
          /\ Housed(refs', works', editions') /\ Signed(refs', works', editions', {}, {})
      BY <2>1 DEF Ready, Settled, Rooted
    <2>9. UnnamedWork(w)' = {} /\ Unnamed(w)' = {id}
      BY <2>1 DEF UnnamedWork, Unnamed
    <2>10. Rooted(w)'
      BY <2>1, <2>4, <2>7, <2>8, <2>9, RootedThen
    <2>11. JobAt(w)'
      BY <2>1, JobStays DEF Ready, Settled, InTransaction
    <2>12. WorkAt(w)'
      BY <2>1, WorkStays DEF Ready, Settled, AfterWork, AtEdition, EditionKnown
    <2>13. EdRef(w) \in DOMAIN rs => rs[EdRef(w)].id = id
      BY <2>1, SeenOf DEF EditionAt, AtEditionRow
    <2>14. EditionAt(w)'
      BY <2>1, <2>2, <2>6, <2>13 DEF EditionAt, AtEditionRow
    <2> QED BY <2>10, <2>11, <2>12, <2>14 DEF Settled
  <1> QED BY <1>1, <1>2, EditionPuts

LEMMA SaveEditionRefPuts ==
  ASSUME NEW w \in Workers, Ready(w), SaveEditionRef(w)
  PROVE  /\ pc[w] = "saveEditionRef" /\ pc'[w] = "saveLinks"
         /\ UNCHANGED <<works, editions, refs, links, job, loc>> /\ tx'[w].links = tx[w].links
         /\ ViewRefs(w)' = Put(ViewRefs(w), EdRef(w), [type |-> "edition", id |-> loc[w].eid])
         /\ ViewWorks(w)' = ViewWorks(w) /\ ViewEditions(w)' = ViewEditions(w)
         /\ Src(w)' = Src(w) /\ Ans(w)' = Ans(w)
  <1> DEFINE ref == [type |-> "edition", id |-> loc[w].eid]
  <1>1. /\ pc[w] = "saveEditionRef" /\ tx' = [tx EXCEPT ![w].refs = Put(tx[w].refs, EdRef(w), ref)]
        /\ UNCHANGED <<works, editions, refs, links, job, loc>> /\ pc'[w] = "saveLinks"
    BY SeenOf DEF SaveEditionRef, SaveRef, Goto, TypeOK
  <1>2. /\ tx'[w].refs = Put(tx[w].refs, EdRef(w), ref) /\ tx'[w].links = tx[w].links
        /\ tx'[w].editions = tx[w].editions /\ tx'[w].works = tx[w].works
    BY <1>1, SeenOf DEF TypeOK, WorkerOK, TransactionOK
  <1>3. /\ ViewRefs(w)' = Put(ViewRefs(w), EdRef(w), ref)
        /\ ViewEditions(w)' = ViewEditions(w) /\ ViewWorks(w)' = ViewWorks(w)
    BY <1>1, <1>2, OverPut DEF ViewWorks, ViewEditions, ViewRefs
  <1> QED BY <1>1, <1>2, <1>3 DEF Src, Ans

LEMMA SettledSaveEditionRef ==
  ASSUME WorksApart, OnePrintingEach, OneHomeEach, NEW w \in Workers, Ready(w), SaveEditionRef(w)
  PROVE  Settled(w)'
  <1> DEFINE rs == ViewRefs(w)
             ws == ViewWorks(w)
             es == ViewEditions(w)
             id == loc[w].eid
  <1>1. /\ pc[w] = "saveEditionRef" /\ pc'[w] = "saveLinks"
        /\ UNCHANGED <<works, editions, refs, job, loc>>
        /\ ViewRefs(w)' = Put(rs, EdRef(w), [type |-> "edition", id |-> id])
        /\ ViewWorks(w)' = ws /\ ViewEditions(w)' = es
    BY SaveEditionRefPuts
  <1>2. /\ Src(w) \in Sources /\ Ans(w) \in Catalogue[Src(w)] /\ Ed(w) \in Catalog!Listed(Ans(w))
        /\ EdRef(w) = <<Src(w), Ed(w).ext>>
        /\ ws[loc[w].wid].key \in Homes(Src(w), Ans(w))
    BY <1>1, SeenOf, KnownEdition, AtHome DEF AtEdition, EditionKnown, EdRef
  <1>3. /\ id \in DOMAIN es /\ (~Ed(w).isbn => es[id].work = loc[w].wid)
        /\ EdRef(w) \in DOMAIN rs => rs[EdRef(w)].id = id
        /\ Chosen(rs, "edition", id, es[id].by, Src(w), Sources)
    BY <1>1, SeenOf DEF EditionAt, AtEditionRow
  <1>4. Housed(rs, ws, es) /\ Signed(rs, ws, es, {}, {id})
    BY <1>1 DEF Ready, Settled, Rooted, UnnamedWork, Unnamed
  <1>5. PICK ref : ref = [type |-> "edition", id |-> id]
    OBVIOUS
  <1>6. ~Ed(w).isbn => ws[es[ref.id].work].key \in Homes(Src(w), Ans(w))
    BY <1>2, <1>3, <1>5
  <1>7. Housed(Put(rs, EdRef(w), ref), ws, es)
    BY <1>2, <1>4, <1>6, HousedEditionRef
  <1>8. EdRef(w)[1] = Src(w)
    BY <1>2
  <1>9. Signed(Put(rs, EdRef(w), ref), ws, es, {}, {})
    BY <1>3, <1>4, <1>5, <1>8, SignedPutEditionRef
  <1>10. /\ IsFn(works') /\ IsFn(editions') /\ IsFn(refs')
         /\ Housed(refs', works', editions') /\ Signed(refs', works', editions', {}, {})
    BY <1>1 DEF Ready, Settled, Rooted
  <1>11. UnnamedWork(w)' = {} /\ Unnamed(w)' = {}
    BY <1>1, NoneUnnamed
  <1>12. Rooted(w)'
    BY <1>1, <1>5, <1>7, <1>9, <1>10, <1>11, RootedThen
  <1>13. JobAt(w)'
    BY <1>1, JobStays DEF Ready, Settled, InTransaction
  <1>14. WorkAt(w)'
    BY <1>1, WorkStays DEF Ready, Settled, AfterWork, AtEdition, EditionKnown
  <1>15. EditionAt(w)'
    BY <1>1, <1>3 DEF EditionAt, AtEditionRow
  <1> QED BY <1>12, <1>13, <1>14, <1>15 DEF Settled

LEMMA SaveLinksPuts ==
  ASSUME NEW w \in Workers, Ready(w), SaveLinks(w)
  PROVE  /\ pc[w] = "saveLinks" /\ pc'[w] = "edition"
         /\ UNCHANGED <<works, editions, refs, links, job>> /\ loc'[w].wid = loc[w].wid
         /\ tx'[w].links = tx[w].links \cup {<<loc[w].eid, l>> : l \in Ed(w).links \cap AllowedLinks}
         /\ tx'[w].works = tx[w].works /\ tx'[w].editions = tx[w].editions /\ tx'[w].refs = tx[w].refs
  <1>1. pc[w] = "saveLinks" /\ loc[w].eid \in DOMAIN ViewEditions(w)
    BY SeenOf DEF SaveLinks, EditionAt
  <1>2. /\ tx' = [tx EXCEPT ![w].links = @ \cup {<<loc[w].eid, l>> : l \in Ed(w).links \cap AllowedLinks}]
        /\ loc' = [loc EXCEPT ![w].i = @ + 1] /\ Goto(w, "edition")
        /\ UNCHANGED <<works, editions, refs, links, syncLog, cache, nextId, started, job>>
    BY <1>1 DEF SaveLinks
  <1>3. pc'[w] = "edition" /\ loc'[w].wid = loc[w].wid
    BY <1>2, SeenOf DEF Goto, TypeOK, Local
  <1>4. /\ tx'[w].links = tx[w].links \cup {<<loc[w].eid, l>> : l \in Ed(w).links \cap AllowedLinks}
        /\ tx'[w].works = tx[w].works /\ tx'[w].editions = tx[w].editions /\ tx'[w].refs = tx[w].refs
    BY <1>2, SeenOf DEF TypeOK, WorkerOK, TransactionOK
  <1> QED BY <1>1, <1>2, <1>3, <1>4

LEMMA SettledSaveLinks ==
  ASSUME NEW w \in Workers, Ready(w), SaveLinks(w)
  PROVE  Settled(w)'
  <1>1. /\ pc[w] = "saveLinks" /\ pc'[w] = "edition"
        /\ UNCHANGED <<works, editions, refs, job>> /\ loc'[w].wid = loc[w].wid
        /\ tx'[w].works = tx[w].works /\ tx'[w].editions = tx[w].editions /\ tx'[w].refs = tx[w].refs
    BY SaveLinksPuts
  <1>2. Rooted(w)' /\ ViewWorks(w)' = ViewWorks(w)
    BY <1>1, RootedStays DEF Ready, Settled
  <1>3. JobAt(w)'
    BY <1>1, JobStays DEF Ready, Settled, InTransaction
  <1>4. WorkAt(w)'
    BY <1>1, <1>2, WorkStays DEF Ready, Settled, AfterWork, AtEdition, EditionKnown
  <1> QED BY <1>1, <1>2, <1>3, <1>4, EditionElsewhere DEF Settled, AtEditionRow

LEMMA SettledCommit ==
  ASSUME NEW w \in Workers, Ready(w), Commit(w)
  PROVE  Settled(w)'
  <1>1. /\ pc[w] = "commit" /\ pc'[w] = "log" /\ job' = job /\ loc' = loc /\ tx'[w] = NoTx
        /\ works' = ViewWorks(w) /\ editions' = ViewEditions(w) /\ refs' = ViewRefs(w)
    BY SeenOf DEF Commit, Goto, TypeOK
  <1>2. IsFn(works') /\ IsFn(editions') /\ IsFn(refs')
    BY <1>1, OverFunctions DEF ViewWorks, ViewEditions, ViewRefs
  <1>3. Housed(refs', works', editions') /\ Signed(refs', works', editions', {}, {})
    BY <1>1, SeenOf
  <1>4. Rooted(w)'
    BY <1>1, <1>2, <1>3, RootedEnd
  <1>5. \A x \in DOMAIN works : x \in DOMAIN works' /\ works'[x].key = works[x].key
    BY <1>1, Seen DEF Ready
  <1>6. JobAt(w)'
    BY <1>1, <1>5, JobStays DEF Ready, Settled, InTransaction
  <1>7. loc[w].wid \in DOMAIN ViewWorks(w)
    BY <1>1, SeenOf DEF WorkAt, AfterWork
  <1>8. WorkAt(w)'
    BY <1>1, <1>7 DEF WorkAt, AtWorkRow, AfterWork, AtEdition, EditionKnown
  <1> QED BY <1>1, <1>4, <1>6, <1>8, EditionElsewhere DEF Settled, AtEditionRow

LEMMA SettledStep ==
  ASSUME WorksApart, OnePrintingEach, OneHomeEach, NEW w \in Workers, Ready(w),
         StartSync(w) \/ Proceed(w) \/ DeadlockAbort(w) \/ Crash(w)
  PROVE  Settled(w)'
  <1>1. TypeOK /\ Settled(w)
    BY SeenOf DEF Ready
  <1>2. CASE StartSync(w) \/ FindTopMatch(w) \/ CheckAnswer(w) \/ FetchDetails(w)
    BY <1>1, <1>2, SettledStart, SettledAsk
  <1>3. CASE Statement(w)
    BY <1>3, SettledFindWorkRef, SettledFindWorkByKey, SettledReadWorkSources, SettledReadWork,
       SettledSaveWork, SettledSaveWorkRef, SettledNextEdition, SettledFindEditionRef,
       SettledFindEditionByKey, SettledReadEditionSources, SettledReadEdition, SettledWriteEdition,
       SettledSaveEditionRef, SettledSaveLinks, SettledInvalidate, SettledCommit
    DEF Statement
  <1>4. CASE RecordSuccess(w) \/ RecordError(w) \/ Crash(w)
    BY <1>1, <1>4, SettledAbort, SettledReset DEF RecordSuccess, RecordError, Crash
  <1>5. CASE DeadlockAbort(w)
    BY <1>1, <1>5, SettledAbort DEF DeadlockAbort
  <1> QED BY <1>2, <1>3, <1>4, <1>5 DEF Proceed

SettledInv == \A w \in Workers : Settled(w)

LEMMA SettledHolds ==
  ASSUME WorksApart, OnePrintingEach, OneHomeEach, \A v, w \in Workers : v = w
  PROVE  CalmSpec => [](Inv /\ CalmInv /\ SettledInv)
  <1>1. Init => SettledInv
    <2> SUFFICES ASSUME Init, NEW w \in Workers PROVE Settled(w)
      BY DEF SettledInv
    <2>1. DOMAIN Empty = {} /\ IsFn(Empty)
      BY DEF Empty, IsFn
    <2>2. works = Empty /\ editions = Empty /\ refs = Empty /\ tx[w] = NoTx /\ pc[w] = "idle"
      BY DEF Init
    <2>3. ViewRefs(w) = Empty /\ ViewWorks(w) = Empty /\ ViewEditions(w) = Empty
      BY <2>1, <2>2, OverFunctions DEF NoTx, ViewRefs, ViewWorks, ViewEditions
    <2>4. \A A, B : Housed(Empty, Empty, Empty) /\ Signed(Empty, Empty, Empty, A, B)
      BY <2>1 DEF Housed, Signed
    <2>5. Rooted(w)
      BY <2>1, <2>2, <2>3, <2>4 DEF Rooted
    <2>6. JobAt(w) /\ WorkAt(w) /\ EditionAt(w)
      BY <2>2 DEF JobAt, WorkAt, EditionAt, InTransaction, AtWorkRow, AfterWork, AtEdition, EditionKnown,
                  AtEditionRow
    <2> QED BY <2>5, <2>6 DEF Settled
  <1>2. Inv /\ CalmInv /\ SettledInv /\ [CalmNext]_vars => SettledInv'
    <2> SUFFICES ASSUME Inv, CalmInv, SettledInv, [CalmNext]_vars, NEW v \in Workers PROVE Settled(v)'
      BY DEF SettledInv
    <2>1. Ready(v)
      BY DEF Ready, CalmInv, Calm, SettledInv
    <2>2. CASE UNCHANGED vars
      <3>1. UNCHANGED <<works, editions, refs, tx, pc, job, loc>>
        BY <2>2 DEF vars
      <3>2. /\ ViewWorks(v)' = ViewWorks(v) /\ ViewEditions(v)' = ViewEditions(v) /\ ViewRefs(v)' = ViewRefs(v)
            /\ Src(v)' = Src(v) /\ Ans(v)' = Ans(v) /\ WorkRef(v)' = WorkRef(v)
            /\ Ed(v)' = Ed(v) /\ EdRef(v)' = EdRef(v) /\ NewEdition(v)' = NewEdition(v)
            /\ UnnamedWork(v)' = UnnamedWork(v) /\ Unnamed(v)' = Unnamed(v)
        BY <3>1 DEF ViewWorks, ViewEditions, ViewRefs, Src, Ans, WorkRef, Ed, EdRef, NewEdition, EdKey,
                    UnnamedWork, Unnamed
      <3>3. Rooted(v) /\ JobAt(v) /\ WorkAt(v) /\ EditionAt(v)
        BY <2>1 DEF Ready, Settled
      <3>4. Rooted(v)'
        BY <3>1, <3>2, <3>3 DEF Rooted
      <3>5. JobAt(v)'
        BY <3>1, <3>2, <3>3 DEF JobAt
      <3>6. WorkAt(v)'
        BY <3>1, <3>2, <3>3 DEF WorkAt
      <3>7. EditionAt(v)'
        BY <3>1, <3>2, <3>3 DEF EditionAt
      <3> QED BY <3>4, <3>5, <3>6, <3>7 DEF Settled
    <2>3. CASE CalmNext
      BY <2>1, <2>3, SettledStep DEF CalmNext
    <2> QED BY <2>2, <2>3
  <1> QED BY <1>1, <1>2, CalmHolds, PTL DEF CalmSpec

(* A transaction that wrote nothing sees the committed tables. *)
LEMMA NothingSeen ==
  ASSUME NEW w \in Workers, Ready(w), pc[w] \in BeforeWork
  PROVE  /\ ViewWorks(w) = works /\ ViewEditions(w) = editions /\ ViewRefs(w) = refs
         /\ tx[w].links = {}
  <1>1. tx[w] = NoTx
    BY DEF Ready, Inv, Written, AnswerOK
  <1>2. IsFn(works) /\ IsFn(editions) /\ IsFn(refs)
    BY DEF Ready, Settled, Rooted
  <1> QED BY <1>1, <1>2, OverFunctions DEF NoTx, ViewWorks, ViewEditions, ViewRefs

(* The statements after which a transaction has written: those that only   *)
(* read, and those that write one table.                                   *)
Reading(w) ==
  /\ Writing(w) /\ UNCHANGED <<works, editions, refs, links, tx, job>>
LEMMA WritingSteps ==
  ASSUME NEW w \in Workers, Ready(w), StartSync(w) \/ Proceed(w) \/ DeadlockAbort(w) \/ Crash(w), Writing(w)'
  PROVE  \/ Reading(w) \/ SaveWork(w) \/ SaveWorkRef(w) \/ EditionPut(w) \/ SaveEditionRef(w) \/ SaveLinks(w)
  <1> USE DEF Writing, AfterWork, AtEdition, EditionKnown
  <1>1. TypeOK
    BY SeenOf
  <1>2. CASE StartSync(w) \/ FindTopMatch(w) \/ CheckAnswer(w) \/ FetchDetails(w)
    BY <1>1, <1>2 DEF StartSync, FindTopMatch, CheckAnswer, FetchDetails, Goto, TypeOK
  <1>3. CASE Abort(w) \/ Reset(w) \/ Commit(w)
    BY <1>1, <1>3 DEF Abort, Reset, Commit, Goto, TypeOK
  <1>4. CASE FindWorkRef(w) \/ FindWorkByKey(w)
    BY <1>1, <1>4 DEF FindWorkRef, FindWorkByKey, Goto, TypeOK
  <1>5. CASE ReadWorkSources(w) \/ ReadWork(w)
    BY <1>1, <1>5 DEF ReadWorkSources, ReadWork, Goto, TypeOK
  <1>6. CASE NextEdition(w) \/ FindEditionRef(w) \/ FindEditionByKey(w)
    BY <1>6 DEF NextEdition, FindEditionRef, FindEditionByKey, Reading
  <1>7. CASE ReadEditionSources(w) \/ ReadEdition(w) \/ InvalidateCache(w)
    BY <1>7 DEF ReadEditionSources, ReadEdition, InvalidateCache, Reading
  <1>8. CASE UpdateEdition(w) \/ InsertEdition(w)
    BY <1>8, EditionPuts DEF EditionMissing, Reading
  <1> QED BY <1>2, <1>3, <1>4, <1>5, <1>6, <1>7, <1>8
          DEF Proceed, Statement, RecordSuccess, RecordError, DeadlockAbort, Crash

LEMMA YieldingStep ==
  ASSUME NEW w \in Workers, Ready(w), Yielding(w),
         StartSync(w) \/ Proceed(w) \/ DeadlockAbort(w) \/ Crash(w), Writing(w)'
  PROVE  YieldsTo(works, ViewWorks(w), Src(w))' /\ YieldsTo(editions, ViewEditions(w), Src(w))'
  <1>1. ASSUME Writing(w), UNCHANGED <<works, editions>>, ViewWorks(w)' = ViewWorks(w),
               ViewEditions(w)' = ViewEditions(w), Src(w)' = Src(w)
        PROVE  YieldsTo(works, ViewWorks(w), Src(w))' /\ YieldsTo(editions, ViewEditions(w), Src(w))'
    BY <1>1 DEF Yielding
  <1>2. CASE Reading(w)
    BY <1>1, <1>2 DEF Reading, ViewWorks, ViewEditions, Src
  <1>3. CASE SaveWorkRef(w)
    BY <1>1, <1>3, SaveWorkRefPuts DEF Writing
  <1>4. CASE SaveEditionRef(w)
    BY <1>1, <1>4, SaveEditionRefPuts DEF Writing, AfterWork, AtEdition, EditionKnown
  <1>5. CASE SaveLinks(w)
    BY <1>1, <1>5, SaveLinksPuts DEF Writing, AfterWork, AtEdition, EditionKnown, ViewWorks, ViewEditions, Src
  <1>6. CASE SaveWork(w)
    <2> DEFINE id == loc[w].wid
               row == loc[w].row
    <2>1. /\ pc[w] = "saveWork" /\ UNCHANGED <<works, editions, job>>
          /\ ViewWorks(w)' = Put(ViewWorks(w), id, row) /\ ViewEditions(w)' = ViewEditions(w)
      BY <1>6, SaveWorkPuts
    <2>2. ViewWorks(w) = works /\ ViewEditions(w) = editions
      BY <2>1, NothingSeen DEF BeforeWork
    <2>3. \/ row.by = Src(w) /\ Wins(ViewRefs(w), id, Src(w))
          \/ id \in DOMAIN works /\ row = works[id]
      BY <2>1, <2>2, SeenOf DEF WorkAt
    <2>4. \A x \in DOMAIN works : works[x].by \in SourcesOf(ViewRefs(w), x)
      BY <2>1, <2>2, SeenOf DEF Signed, Due
    <2>5. id \in DOMAIN works => row.by = works[id].by \/ (row.by = Src(w) /\ ~Outranks(works[id].by, Src(w)))
      BY <2>3, <2>4, WinnerIsBest DEF Wins
    <2>6. /\ Put(works, id, row)[id] = row
          /\ \A x \in DOMAIN works : x # id => Put(works, id, row)[x] = works[x]
      BY DEF Put
    <2>7. YieldsTo(works, Put(works, id, row), Src(w)) /\ YieldsTo(editions, editions, Src(w))
      BY <2>5, <2>6 DEF YieldsTo
    <2>8. Src(w)' = Src(w)
      BY <2>1 DEF Src
    <2> QED BY <2>1, <2>2, <2>7, <2>8
  <1>7. CASE EditionPut(w)
    <2> DEFINE id == loc[w].eid
               row == loc[w].erow
               es == ViewEditions(w)
    <2>1. /\ pc[w] \in {"updateEdition", "insertEdition"} /\ UNCHANGED <<works, editions>> /\ Src(w)' = Src(w)
          /\ ViewEditions(w)' = Put(es, id, row) /\ ViewWorks(w)' = ViewWorks(w)
      BY <1>7 DEF EditionPut
    <2>2. YieldsTo(works, ViewWorks(w), Src(w)) /\ YieldsTo(editions, es, Src(w))
      BY <2>1 DEF Yielding, Writing, AfterWork, AtEdition, EditionKnown
    <2>3. \/ row.by = Src(w) /\ Wins(ViewRefs(w), id, Src(w))
          \/ id \in DOMAIN es /\ row = es[id]
      <3>1. NewEdition(w).by = Src(w)
        BY DEF NewEdition
      <3> QED BY <2>1, <3>1, SeenOf DEF EditionAt
    <2>4. \A x \in DOMAIN es : es[x].by \in SourcesOf(ViewRefs(w), x)
      BY <2>1, SeenOf DEF Signed, Due
    <2>5. id \in DOMAIN es => row.by = es[id].by \/ (row.by = Src(w) /\ ~Outranks(es[id].by, Src(w)))
      BY <2>3, <2>4, WinnerIsBest DEF Wins
    <2>6. /\ Put(es, id, row)[id] = row
          /\ \A x \in DOMAIN es : x # id => Put(es, id, row)[x] = es[x]
      BY DEF Put
    <2>7. \A x \in DOMAIN editions : x \in DOMAIN es
      BY Seen DEF Ready
    <2>8. YieldsTo(editions, Put(es, id, row), Src(w))
      BY <2>2, <2>5, <2>6, <2>7 DEF YieldsTo
    <2> QED BY <2>1, <2>2, <2>8
  <1> QED BY <1>2, <1>3, <1>4, <1>5, <1>6, <1>7, WritingSteps

YieldingInv == \A w \in Workers : Yielding(w)

LEMMA YieldingHolds ==
  ASSUME WorksApart, OnePrintingEach, OneHomeEach, \A v, w \in Workers : v = w
  PROVE  CalmSpec => [](Inv /\ CalmInv /\ SettledInv /\ YieldingInv)
  <1>1. Init => YieldingInv
    BY DEF Init, YieldingInv, Yielding, Writing, AfterWork, AtEdition, EditionKnown
  <1>2. Inv /\ CalmInv /\ SettledInv /\ YieldingInv /\ [CalmNext]_vars => YieldingInv'
    <2> SUFFICES ASSUME Inv, CalmInv, SettledInv, YieldingInv, [CalmNext]_vars, NEW v \in Workers,
                        Writing(v)'
                 PROVE  YieldsTo(works, ViewWorks(v), Src(v))' /\ YieldsTo(editions, ViewEditions(v), Src(v))'
      BY DEF YieldingInv, Yielding
    <2>1. Ready(v) /\ Yielding(v)
      BY DEF Ready, CalmInv, Calm, SettledInv, YieldingInv
    <2>2. CASE UNCHANGED vars
      <3>1. Writing(v) /\ UNCHANGED <<works, editions>>
            /\ ViewWorks(v)' = ViewWorks(v) /\ ViewEditions(v)' = ViewEditions(v) /\ Src(v)' = Src(v)
        BY <2>2 DEF vars, Writing, ViewWorks, ViewEditions, Src
      <3> QED BY <2>1, <3>1 DEF Yielding
    <2>3. CASE CalmNext
      BY <2>1, <2>3, YieldingStep DEF CalmNext
    <2> QED BY <2>2, <2>3
  <1> QED BY <1>1, <1>2, SettledHolds, PTL DEF CalmSpec

(* Only a commit changes the tables. *)
LEMMA CommitWrites ==
  ASSUME NEW w \in Workers, StartSync(w) \/ Proceed(w) \/ DeadlockAbort(w) \/ Crash(w)
  PROVE  Commit(w) \/ UNCHANGED tables
  <1>1. CASE Abort(w)
    BY <1>1 DEF Abort, tables
  <1>2. CASE Statement(w) /\ ~Commit(w)
    BY <1>1, <1>2 DEF Statement, FindWorkRef, FindWorkByKey, ReadWorkSources, ReadWork, SaveWork, SaveWorkRef,
       NextEdition, FindEditionRef, FindEditionByKey, ReadEditionSources, ReadEdition, UpdateEdition,
       InsertEdition, PutEdition, SaveEditionRef, SaveLinks, InvalidateCache, tables
  <1> QED BY <1>1, <1>2 DEF Proceed, StartSync, FindTopMatch, CheckAnswer, FetchDetails, RecordSuccess,
          RecordError, DeadlockAbort, Crash, tables

(* With one queue worker, ids that stand for one work or printing and one  *)
(* home for each, whatever worker processes die: a row's metadata are only *)
(* replaced by a source that the one which wrote them does not outrank.    *)
THEOREM BetterSourceStays ==
  ASSUME WorksApart, OnePrintingEach, OneHomeEach, \A v, w \in Workers : v = w, Workers # {}
  PROVE  CalmSpec => PriorityRespected
  <1>1. Inv /\ CalmInv /\ SettledInv /\ YieldingInv /\ [CalmNext]_vars
          => [Yields(works, works') /\ Yields(editions, editions')]_vars
    <2> SUFFICES ASSUME Inv, CalmInv, SettledInv, YieldingInv, NEW w \in Workers,
                        StartSync(w) \/ Proceed(w) \/ DeadlockAbort(w) \/ Crash(w)
                 PROVE  Yields(works, works') /\ Yields(editions, editions')
      BY DEF CalmNext
    <2>1. CASE UNCHANGED tables
      BY <2>1 DEF tables, Yields
    <2>2. CASE Commit(w)
      <3>1. works' = ViewWorks(w) /\ editions' = ViewEditions(w) /\ pc[w] = "commit"
        BY <2>2 DEF Commit
      <3>2. YieldsTo(works, ViewWorks(w), Src(w)) /\ YieldsTo(editions, ViewEditions(w), Src(w))
        BY <3>1 DEF YieldingInv, Yielding, Writing, AfterWork
      <3> QED BY <3>1, <3>2 DEF YieldsTo, Yields
    <2> QED BY <2>1, <2>2, CommitWrites
  <1> QED BY <1>1, YieldingHolds, PTL DEF CalmSpec, PriorityRespected

LEMMA PutSame ==
  ASSUME NEW f, IsFn(f), NEW x \in DOMAIN f
  PROVE  Put(f, x, f[x]) = f
  BY DEF IsFn, Put

(* What is stored is found again, under refs of its own kind.              *)
LEMMA StoredRefs ==
  ASSUME WorksApart, OnePrintingEach, NEW w \in Workers, Ready(w), pc[w] \in InTransaction,
         Stored(Src(w), Ans(w)), ViewWorks(w) = works, ViewEditions(w) = editions, ViewRefs(w) = refs
  PROVE  /\ WorkRef(w) \in DOMAIN refs /\ refs[WorkRef(w)].id \in DOMAIN works
         /\ refs[WorkRef(w)].type = "work"
         /\ refs[WorkRef(w)] = [type |-> "work", id |-> refs[WorkRef(w)].id]
         /\ \A e \in Catalog!Listed(Ans(w)) : \A r : r = <<Src(w), e.ext>> =>
              /\ r \in DOMAIN refs /\ refs[r].id \in DOMAIN editions /\ refs[r].type = "edition"
              /\ refs[r] = [type |-> "edition", id |-> refs[r].id]
              /\ \A l \in e.links \cap AllowedLinks : <<refs[r].id, l>> \in links
  <1>1. /\ Src(w) \in Sources /\ Ans(w) \in Catalogue[Src(w)] /\ WorkRef(w) = <<Src(w), Ans(w).ext>>
        /\ TablesLead(refs, works, editions)
    BY SeenOf, KnownAnswer DEF WorkRef
  <1>2. /\ WorkRef(w) \in DOMAIN refs /\ refs[WorkRef(w)].id \in DOMAIN works
        /\ refs[WorkRef(w)].type = "work"
    BY <1>1, RefLeads DEF Stored
  <1>3. ASSUME NEW e \in Catalog!Listed(Ans(w)), NEW r, r = <<Src(w), e.ext>>
        PROVE  /\ r \in DOMAIN refs /\ refs[r].id \in DOMAIN editions /\ refs[r].type = "edition"
               /\ \A l \in e.links \cap AllowedLinks : <<refs[r].id, l>> \in links
    BY <1>1, <1>3, RefLeads DEF Stored
  <1>4. \A r \in DOMAIN refs : refs[r] = [type |-> refs[r].type, id |-> refs[r].id]
    BY SeenOf DEF TypeOK, SharedOK, TablesOK, IsTable, RefRow
  <1> QED BY <1>2, <1>3, <1>4

LEMMA RepeatWork ==
  ASSUME WorksApart, OnePrintingEach, UnrankedApart, Discovering \cap Attaching \cap Ranked = {},
         NEW w \in Workers, Ready(w), pc[w] = "saveWork", Stored(Src(w), Ans(w))
  PROVE  loc[w].wid \in DOMAIN works /\ loc[w].row = works[loc[w].wid]
  <1> DEFINE id == loc[w].wid
             row == loc[w].row
             s == Src(w)
  <1>1. /\ ViewWorks(w) = works /\ ViewEditions(w) = editions /\ ViewRefs(w) = refs
        /\ s \in Sources /\ Ans(w) \in Catalogue[s]
    BY NothingSeen, SeenOf, KnownAnswer DEF BeforeWork, InTransaction
  <1>2. /\ WorkRef(w) \in DOMAIN refs /\ refs[WorkRef(w)].id \in DOMAIN works
        /\ refs[WorkRef(w)].type = "work"
    BY <1>1, StoredRefs DEF InTransaction
  <1>3. refs[WorkRef(w)].id = id
    BY <1>1, <1>2, SeenOf DEF WorkAt, AtWorkRow
  <1>4. \/ /\ row.key = Ans(w).key /\ row.by = s /\ job[w].attach = None /\ Wins(refs, id, s)
        \/ row = works[id]
    BY <1>1, SeenOf DEF WorkAt
  <1>5. ASSUME row.key = Ans(w).key, row.by = s, job[w].attach = None, Wins(refs, id, s)
        PROVE  row = works[id]
    <2>1. works[id].key = Ans(w).key
      BY <1>1, <1>2, <1>3, <1>5, SeenOf DEF WorkAt
    <2>2. s \in Discovering
      BY <1>5, SeenOf DEF JobAt
    <2>3. SignedWork(works[id]) /\ Due(refs, "work", id, works[id].by, Writers)
      BY <1>1, <1>2, <1>3, SeenOf DEF Signed
    <2>4. works[id].by = s
      <3>1. CASE s \in Ranked
        <4>1. Knows(refs, s, "work", id)
          <5>1. WorkRef(w)[1] = s
            BY DEF WorkRef
          <5> QED BY <1>2, <1>3, <5>1 DEF Knows
        <4>2. s \in Writers \cap Ranked
          BY <2>2, <3>1 DEF Writers
        <4> QED BY <1>5, <2>3, <4>1, <4>2 DEF Due
      <3>2. CASE s \notin Ranked
        <4>1. works[id].by \notin Ranked
          BY <1>5, <2>3, <3>2, WinnerIsBest DEF Due, Wins
        <4>2. PICK t : t = works[id].by
          OBVIOUS
        <4>3. t \in Discovering /\ \E a \in Catalogue[t] : a.key = works[id].key
          BY <2>3, <4>2 DEF SignedWork
        <4>4. t \in Sources
          BY <4>3, JobShape
        <4> QED BY <1>1, <2>1, <2>2, <3>2, <4>1, <4>2, <4>3, <4>4 DEF UnrankedApart
      <3> QED BY <3>1, <3>2
    <2>5. row \in WorkRow
      BY SeenOf, Known DEF LocalOK
    <2>6. works[id] \in WorkRow
      BY <1>1, <1>2, <1>3, Seen DEF Ready
    <2> QED BY <1>5, <2>1, <2>4, <2>5, <2>6 DEF WorkRow
  <1> QED BY <1>2, <1>3, <1>4, <1>5

LEMMA RepeatEdition ==
  ASSUME WorksApart, OnePrintingEach, PrintingsStay, UnrankedApart,
         NEW w \in Workers, Ready(w), pc[w] \in {"updateEdition", "insertEdition"}, Stored(Src(w), Ans(w)),
         ViewWorks(w) = works, ViewEditions(w) = editions, ViewRefs(w) = refs
  PROVE  loc[w].eid \in DOMAIN editions /\ loc[w].erow = editions[loc[w].eid]
  <1> DEFINE id == loc[w].eid
             wid == loc[w].wid
             row == loc[w].erow
             s == Src(w)
             e == Ed(w)
             old == editions[id]
  <1>1. /\ s \in Sources /\ Ans(w) \in Catalogue[s] /\ e \in Catalog!Listed(Ans(w))
        /\ EdRef(w) = <<s, e.ext>> /\ EdRef(w)[1] = s
    BY SeenOf, KnownEdition DEF AtEdition, EditionKnown, EdRef
  <1>2. /\ EdRef(w) \in DOMAIN refs /\ refs[EdRef(w)].id \in DOMAIN editions
        /\ refs[EdRef(w)].type = "edition"
    BY <1>1, StoredRefs DEF InTransaction
  <1>3. refs[EdRef(w)].id = id /\ (~e.isbn => old.work = wid) /\ Fits(old, e)
    BY <1>2, SeenOf DEF EditionAt, AtEditionRow, EditionFound
  <1>4. \/ row = NewEdition(w) /\ Wins(refs, id, s)
        \/ row = old
    BY SeenOf DEF EditionAt
  <1>5. ASSUME row = NewEdition(w), Wins(refs, id, s) PROVE row = old
    <2>1. /\ wid \in DOMAIN works /\ works[wid].key \in Homes(s, Ans(w))
          /\ \A x \in DOMAIN works : works[x].key = works[wid].key => x = wid
      BY AtHome DEF AtEdition, EditionKnown
    <2>2. /\ old.work \in DOMAIN works /\ SignedEdition(old, works)
          /\ Due(refs, "edition", id, old.by, Sources)
      BY <1>2, <1>3, SeenOf DEF Signed
    <2>3. old \in EditionRow /\ old.work # None
      BY <1>2, <1>3, Seen DEF Ready
    <2>4. PICK t : t = old.by
      OBVIOUS
    <2>5. PICK b \in Catalogue[t] : \E f \in Catalog!Listed(b) : Fits(old, f) /\ works[old.work].key \in Homes(t, b)
      BY <2>2, <2>4 DEF SignedEdition
    <2>6. PICK f \in Catalog!Listed(b) : Fits(old, f) /\ works[old.work].key \in Homes(t, b)
      BY <2>5
    <2>7. (f.isbn <=> e.isbn) /\ f.k = e.k
      <3>1. old.key = EditionKey(old.work, e) /\ old.key = EditionKey(old.work, f)
        BY <1>3, <2>6 DEF Fits
      <3>2. EditionKey(old.work, e)[1] = (IF e.isbn THEN None ELSE old.work) /\ EditionKey(old.work, e)[2] = e.k
        BY DEF EditionKey
      <3>3. EditionKey(old.work, f)[1] = (IF f.isbn THEN None ELSE old.work) /\ EditionKey(old.work, f)[2] = f.k
        BY DEF EditionKey
      <3> QED BY <2>3, <3>1, <3>2, <3>3
    <2>8. t \in Sources
      BY <2>3, <2>4 DEF EditionRow
    <2>9. t = s
      <3>1. CASE s \in Ranked
        <4>1. Knows(refs, s, "edition", id)
          BY <1>1, <1>2, <1>3 DEF Knows
        <4> QED BY <1>1, <1>5, <2>2, <2>4, <3>1, <4>1 DEF Due
      <3>2. CASE s \notin Ranked
        <4>1. t \notin Ranked
          BY <1>5, <2>2, <2>4, <3>2, WinnerIsBest DEF Due, Wins
        <4>2. e.isbn \/ Homes(s, Ans(w)) \cap Homes(t, b) # {}
          BY <1>3, <2>1, <2>6
        <4>3. CASE t # s
          <5>1. ~ ((e.isbn <=> f.isbn) /\ e.k = f.k /\ (e.isbn \/ Homes(s, Ans(w)) \cap Homes(t, b) # {}))
            BY <1>1, <2>6, <2>8, <3>2, <4>1, <4>3 DEF UnrankedApart
          <5> QED BY <2>7, <4>2, <5>1
        <4> QED BY <4>3
      <3> QED BY <3>1, <3>2
    <2>10. old.work = wid
      <3>1. CASE e.isbn
        <4>1. SameHome(s, b, Ans(w))
          BY <1>1, <2>6, <2>7, <2>9, <3>1 DEF PrintingsStay
        <4>2. works[old.work].key = works[wid].key
          BY <2>1, <2>6, <2>9, <4>1 DEF SameHome
        <4> QED BY <2>1, <2>2, <4>2
      <3> QED BY <1>3, <3>1
    <2>11. old.key = EdKey(w)
      BY <1>3, <2>10 DEF Fits, EdKey
    <2>12. old = [work |-> old.work, key |-> old.key, by |-> old.by]
      BY <2>3 DEF EditionRow
    <2> QED BY <1>5, <2>4, <2>9, <2>10, <2>11, <2>12 DEF NewEdition
  <1> QED BY <1>2, <1>3, <1>4, <1>5

LEMMA RepeatsStep ==
  ASSUME WorksApart, OnePrintingEach, PrintingsStay, UnrankedApart, Discovering \cap Attaching \cap Ranked = {},
         NEW w \in Workers, Ready(w), Repeats(w),
         StartSync(w) \/ Proceed(w) \/ DeadlockAbort(w) \/ Crash(w), Writing(w)', Stored(Src(w), Ans(w))'
  PROVE  /\ ViewWorks(w)' = works' /\ ViewEditions(w)' = editions' /\ ViewRefs(w)' = refs'
         /\ tx'[w].links \subseteq links'
  <1> USE DEF Writing, AfterWork, AtEdition, EditionKnown
  <1> DEFINE Seeing == ViewWorks(w) = works /\ ViewEditions(w) = editions /\ ViewRefs(w) = refs
  <1>2. ASSUME UNCHANGED <<works, editions, refs, links>>, Src(w)' = Src(w), Ans(w)' = Ans(w)
        PROVE  Stored(Src(w), Ans(w))
    BY <1>2 DEF Stored, Catalog!Listed
  <1>3. /\ IsFn(works) /\ IsFn(editions) /\ IsFn(refs)
    BY DEF Ready, Settled, Rooted
  <1>4. CASE Reading(w)
    <2>1. UNCHANGED <<works, editions, refs, links, tx>> /\ Writing(w) /\ Src(w)' = Src(w) /\ Ans(w)' = Ans(w)
      BY <1>4 DEF Reading, Src, Ans
    <2>2. ViewWorks(w)' = ViewWorks(w) /\ ViewEditions(w)' = ViewEditions(w) /\ ViewRefs(w)' = ViewRefs(w)
      BY <2>1 DEF ViewWorks, ViewEditions, ViewRefs
    <2> QED BY <1>2, <2>1, <2>2 DEF Repeats
  <1>5. CASE SaveWork(w)
    <2>1. /\ pc[w] = "saveWork" /\ UNCHANGED <<works, editions, refs, links, job>>
          /\ ViewWorks(w)' = Put(ViewWorks(w), loc[w].wid, loc[w].row)
          /\ ViewEditions(w)' = ViewEditions(w) /\ ViewRefs(w)' = ViewRefs(w) /\ tx'[w].links = tx[w].links
      BY <1>5, SaveWorkPuts
    <2>2. Seeing /\ tx[w].links = {}
      BY <2>1, NothingSeen DEF BeforeWork
    <2>3. Stored(Src(w), Ans(w))
      BY <1>2, <2>1 DEF Src, Ans
    <2>4. loc[w].wid \in DOMAIN works /\ loc[w].row = works[loc[w].wid]
      BY <2>1, <2>3, RepeatWork
    <2> QED BY <1>3, <2>1, <2>2, <2>4, PutSame
  <1>6. CASE SaveWorkRef(w)
    <2>1. /\ pc[w] = "saveWorkRef" /\ UNCHANGED <<works, editions, refs, links, job>>
          /\ ViewRefs(w)' = Put(ViewRefs(w), WorkRef(w), [type |-> "work", id |-> loc[w].wid])
          /\ ViewWorks(w)' = ViewWorks(w) /\ ViewEditions(w)' = ViewEditions(w) /\ tx'[w].links = tx[w].links
      BY <1>6, SaveWorkRefPuts
    <2>2. Stored(Src(w), Ans(w))
      BY <1>2, <2>1 DEF Src, Ans
    <2>3. Seeing /\ tx[w].links \subseteq links
      BY <2>1, <2>2 DEF Repeats
    <2>4. /\ WorkRef(w) \in DOMAIN refs
          /\ refs[WorkRef(w)] = [type |-> "work", id |-> refs[WorkRef(w)].id]
      BY <2>1, <2>2, <2>3, StoredRefs DEF InTransaction
    <2>5. refs[WorkRef(w)].id = loc[w].wid
      BY <2>1, <2>3, <2>4, SeenOf DEF WorkAt, AtWorkRow
    <2>6. Put(refs, WorkRef(w), refs[WorkRef(w)]) = refs
      BY <1>3, <2>4, PutSame
    <2> QED BY <2>1, <2>3, <2>4, <2>5, <2>6
  <1>7. CASE EditionPut(w)
    <2>1. /\ pc[w] \in {"updateEdition", "insertEdition"} /\ UNCHANGED <<works, editions, refs, links, job>>
          /\ ViewEditions(w)' = Put(ViewEditions(w), loc[w].eid, loc[w].erow)
          /\ ViewWorks(w)' = ViewWorks(w) /\ ViewRefs(w)' = ViewRefs(w) /\ tx'[w].links = tx[w].links
      BY <1>7 DEF EditionPut
    <2>2. Stored(Src(w), Ans(w))
      BY <1>2, <2>1 DEF Src, Ans
    <2>3. Seeing /\ tx[w].links \subseteq links
      BY <2>1, <2>2 DEF Repeats
    <2>4. loc[w].eid \in DOMAIN editions /\ loc[w].erow = editions[loc[w].eid]
      BY <2>1, <2>2, <2>3, RepeatEdition
    <2> QED BY <1>3, <2>1, <2>3, <2>4, PutSame
  <1>8. CASE SaveEditionRef(w)
    <2>1. /\ pc[w] = "saveEditionRef" /\ UNCHANGED <<works, editions, refs, links, job>>
          /\ ViewRefs(w)' = Put(ViewRefs(w), EdRef(w), [type |-> "edition", id |-> loc[w].eid])
          /\ ViewWorks(w)' = ViewWorks(w) /\ ViewEditions(w)' = ViewEditions(w) /\ tx'[w].links = tx[w].links
      BY <1>8, SaveEditionRefPuts
    <2>2. Stored(Src(w), Ans(w))
      BY <1>2, <2>1 DEF Src, Ans
    <2>3. Seeing /\ tx[w].links \subseteq links
      BY <2>1, <2>2 DEF Repeats
    <2>4. Ed(w) \in Catalog!Listed(Ans(w)) /\ EdRef(w) = <<Src(w), Ed(w).ext>>
      BY <2>1, EdIsListed, SeenOf
    <2>5. EdRef(w) \in DOMAIN refs /\ refs[EdRef(w)] = [type |-> "edition", id |-> refs[EdRef(w)].id]
      BY <2>1, <2>2, <2>3, <2>4, StoredRefs DEF InTransaction
    <2>6. refs[EdRef(w)].id = loc[w].eid
      BY <2>1, <2>3, <2>5, SeenOf DEF EditionAt, AtEditionRow
    <2>7. Put(refs, EdRef(w), refs[EdRef(w)]) = refs
      BY <1>3, <2>5, PutSame
    <2> QED BY <2>1, <2>3, <2>5, <2>6, <2>7
  <1>9. CASE SaveLinks(w)
    <2>1. /\ pc[w] = "saveLinks" /\ UNCHANGED <<works, editions, refs, links, job>>
          /\ tx'[w].links = tx[w].links \cup {<<loc[w].eid, l>> : l \in Ed(w).links \cap AllowedLinks}
          /\ tx'[w].works = tx[w].works /\ tx'[w].editions = tx[w].editions /\ tx'[w].refs = tx[w].refs
      BY <1>9, SaveLinksPuts
    <2>2. ViewWorks(w)' = ViewWorks(w) /\ ViewEditions(w)' = ViewEditions(w) /\ ViewRefs(w)' = ViewRefs(w)
      BY <2>1 DEF ViewWorks, ViewEditions, ViewRefs
    <2>3. Stored(Src(w), Ans(w))
      BY <1>2, <2>1 DEF Src, Ans
    <2>4. Seeing /\ tx[w].links \subseteq links
      BY <2>1, <2>3 DEF Repeats
    <2>5. Ed(w) \in Catalog!Listed(Ans(w)) /\ EdRef(w) = <<Src(w), Ed(w).ext>>
      BY <2>1, EdIsListed, SeenOf
    <2>6. \A l \in Ed(w).links \cap AllowedLinks : <<refs[EdRef(w)].id, l>> \in links
      BY <2>1, <2>3, <2>4, <2>5, StoredRefs DEF InTransaction
    <2>7. refs[EdRef(w)].id = loc[w].eid
      <3>1. EdRef(w) \in DOMAIN tx[w].refs /\ tx[w].refs[EdRef(w)].id = loc[w].eid
        BY <2>1, SeenOf, AtStatement DEF AtWork
      <3>2. ViewRefs(w)[EdRef(w)] = tx[w].refs[EdRef(w)]
        BY <3>1 DEF ViewRefs, Over
      <3> QED BY <2>4, <3>1, <3>2
    <2> QED BY <2>1, <2>2, <2>4, <2>6, <2>7
  <1> QED BY <1>4, <1>5, <1>6, <1>7, <1>8, <1>9, WritingSteps

RepeatsInv == \A w \in Workers : Repeats(w)

LEMMA RepeatsHolds ==
  ASSUME WorksApart, OnePrintingEach, OneHomeEach, PrintingsStay, UnrankedApart,
         Discovering \cap Attaching \cap Ranked = {}, \A v, w \in Workers : v = w
  PROVE  CalmSpec => [](Inv /\ CalmInv /\ SettledInv /\ RepeatsInv)
  <1>1. Init => RepeatsInv
    BY DEF Init, RepeatsInv, Repeats, Writing, AfterWork, AtEdition, EditionKnown
  <1>2. Inv /\ CalmInv /\ SettledInv /\ RepeatsInv /\ [CalmNext]_vars => RepeatsInv'
    <2> SUFFICES ASSUME Inv, CalmInv, SettledInv, RepeatsInv, [CalmNext]_vars, NEW v \in Workers,
                        Writing(v)', Stored(Src(v), Ans(v))'
                 PROVE  /\ ViewWorks(v)' = works' /\ ViewEditions(v)' = editions' /\ ViewRefs(v)' = refs'
                        /\ tx'[v].links \subseteq links'
      BY DEF RepeatsInv, Repeats
    <2>1. Ready(v) /\ Repeats(v)
      BY DEF Ready, CalmInv, Calm, SettledInv, RepeatsInv
    <2>2. CASE UNCHANGED vars
      <3>1. UNCHANGED <<works, editions, refs, links, tx, pc>> /\ Src(v)' = Src(v) /\ Ans(v)' = Ans(v)
        BY <2>2 DEF vars, Src, Ans
      <3>2. ViewWorks(v)' = ViewWorks(v) /\ ViewEditions(v)' = ViewEditions(v) /\ ViewRefs(v)' = ViewRefs(v)
        BY <3>1 DEF ViewWorks, ViewEditions, ViewRefs
      <3>3. Writing(v) /\ Stored(Src(v), Ans(v))
        BY <3>1 DEF Writing, Stored, Catalog!Listed
      <3> QED BY <2>1, <3>1, <3>2, <3>3 DEF Repeats
    <2>3. CASE CalmNext
      BY <2>1, <2>3, RepeatsStep DEF CalmNext
    <2> QED BY <2>2, <2>3
  <1> QED BY <1>1, <1>2, SettledHolds, PTL DEF CalmSpec

(* The schema refuses no write of a sync. *)
LEMMA NothingRefused ==
  ASSUME \A v, w \in Workers : v = w, NEW w \in Workers, Ready(w),
         StartSync(w) \/ Proceed(w) \/ DeadlockAbort(w) \/ Crash(w), pc[w] \in InTransaction \cup {"log"}
  PROVE  pc'[w] # "failed"
  <1>1. TypeOK
    BY SeenOf
  <1>2. CASE StartSync(w) \/ FindTopMatch(w) \/ CheckAnswer(w) \/ FetchDetails(w) \/ RecordError(w)
    BY <1>2 DEF StartSync, FindTopMatch, CheckAnswer, FetchDetails, RecordError, InTransaction
  <1>3. CASE Reset(w)
    BY <1>1, <1>3 DEF Reset, Goto, TypeOK
  <1>4. CASE FindWorkRef(w) \/ FindWorkByKey(w) \/ ReadWorkSources(w) \/ ReadWork(w)
    BY <1>1, <1>4 DEF FindWorkRef, FindWorkByKey, ReadWorkSources, ReadWork, Goto, TypeOK
  <1>5. CASE SaveWork(w) \/ SaveWorkRef(w)
    BY <1>5, SaveWorkPuts, SaveWorkRefPuts
  <1>6. CASE NextEdition(w) \/ FindEditionRef(w) \/ FindEditionByKey(w) \/ ReadEditionSources(w) \/ ReadEdition(w)
    BY <1>1, <1>6 DEF NextEdition, FindEditionRef, FindEditionByKey, ReadEditionSources, ReadEdition, Goto, TypeOK
  <1>7. CASE UpdateEdition(w) \/ InsertEdition(w)
    BY <1>7, EditionPuts DEF EditionPut, EditionMissing
  <1>8. CASE SaveEditionRef(w) \/ SaveLinks(w)
    BY <1>8, SaveEditionRefPuts, SaveLinksPuts
  <1>9. CASE InvalidateCache(w) \/ Commit(w)
    BY <1>1, <1>9 DEF InvalidateCache, Commit, Goto, TypeOK
  <1>10. CASE RecordSuccess(w)
    <2>1. pc[w] = "log" /\ loc[w].wid \in DOMAIN works
      BY <1>10, SeenOf DEF RecordSuccess, WorkAt
    <2>2. Reset(w)
      BY <1>10, <2>1 DEF RecordSuccess
    <2> QED BY <1>3, <2>2
  <1>11. ~ DeadlockAbort(w)
    <2>1. WaitsFor(w) = {}
      BY DEF WaitsFor
    <2> QED BY <2>1 DEF DeadlockAbort, InCycle
  <1> QED BY <1>2, <1>3, <1>4, <1>5, <1>6, <1>7, <1>8, <1>9, <1>10, <1>11
          DEF Proceed, Statement, Crash

(* The handler is correct when re-run: with one queue worker, sources      *)
(* whose ids and ISBNs each have one home and which are ranked where they  *)
(* overlap, no ranked one of which both discovers and is asked about known *)
(* works, syncing a stored answer again changes no row, and no sync is     *)
(* refused.                                                                *)
THEOREM RerunStaysCorrect ==
  ASSUME WorksApart, OnePrintingEach, OneHomeEach, PrintingsStay, UnrankedApart,
         Discovering \cap Attaching \cap Ranked = {}, \A v, w \in Workers : v = w, Workers # {}
  PROVE  CalmSpec => RerunIsCorrect
  <1>1. Inv /\ CalmInv /\ SettledInv /\ RepeatsInv /\ [CalmNext]_vars
          => [\A w \in Workers :
                /\ pc[w] = "commit" /\ pc'[w] = "log" /\ Stored(Src(w), Ans(w)) => UNCHANGED tables
                /\ pc[w] \in InTransaction \cup {"log"} => pc'[w] # "failed"]_vars
    <2> SUFFICES ASSUME Inv, CalmInv, SettledInv, RepeatsInv, NEW v \in Workers, NEW w \in Workers,
                        StartSync(v) \/ Proceed(v) \/ DeadlockAbort(v) \/ Crash(v)
                 PROVE  /\ pc[w] = "commit" /\ pc'[w] = "log" /\ Stored(Src(w), Ans(w)) => UNCHANGED tables
                        /\ pc[w] \in InTransaction \cup {"log"} => pc'[w] # "failed"
      BY DEF CalmNext
    <2>1. v = w /\ Ready(w) /\ Repeats(w)
      BY DEF Ready, CalmInv, Calm, SettledInv, RepeatsInv
    <2>2. ASSUME pc[w] = "commit", Stored(Src(w), Ans(w)) PROVE UNCHANGED tables
      <3>1. CASE Commit(w)
        <4>1. /\ ViewWorks(w) = works /\ ViewEditions(w) = editions /\ ViewRefs(w) = refs
              /\ tx[w].links \subseteq links
          BY <2>1, <2>2 DEF Repeats, Writing, AfterWork
        <4> QED BY <3>1, <4>1 DEF Commit, tables
      <3> QED BY <2>1, <3>1, CommitWrites
    <2>3. pc[w] \in InTransaction \cup {"log"} => pc'[w] # "failed"
      BY <2>1, NothingRefused
    <2> QED BY <2>2, <2>3
  <1> QED BY <1>1, RepeatsHolds, PTL DEF CalmSpec, RerunIsCorrect

-----------------------------------------------------------------------------
(* The pages of a work, served from Redis while syncs run. *)

IsPage(page) ==
  page = [by |-> page.by, editions |-> page.editions, sources |-> page.sources, links |-> page.links]
(* What a request has read so far was committed when it was read.          *)
RequestOK(req) ==
  /\ req.pc \in {"idle", "editions", "sources", "links", "set"}
  /\ req.pc # "idle" => IsPage(req.page) /\ Committed(req.id, req.page)
RequestsOK == DOMAIN rd = Readers /\ \A r \in Readers : RequestOK(rd[r])
RefsTold == \A k \in DOMAIN refs : <<k[1], refs[k].id>> \in told
PagesInv == Inv /\ RequestsOK /\ RefsTold /\ PagesShowCommitted

Grows == /\ DOMAIN works \subseteq DOMAIN works' /\ DOMAIN editions \subseteq DOMAIN editions'
         /\ links \subseteq links' /\ told \subseteq told'

LEMMA CommittedStays ==
  ASSUME Grows, NEW id, NEW page, Committed(id, page)
  PROVE  Committed(id, page)'
  BY DEF Grows, Committed

LEMMA SyncGrows ==
  ASSUME NEW w \in Workers, SyncStep(w)
  PROVE  /\ DOMAIN works \subseteq DOMAIN works' /\ DOMAIN editions \subseteq DOMAIN editions'
         /\ links \subseteq links'
         /\ DOMAIN cache' \subseteq DOMAIN cache /\ \A k \in DOMAIN cache' : cache'[k] = cache[k]
  <1>1. CASE Commit(w)
    BY <1>1 DEF Commit, ViewWorks, ViewEditions, Over
  <1>2. CASE InvalidateCache(w)
    BY <1>2 DEF InvalidateCache
  <1>3. CASE ~Commit(w) /\ ~InvalidateCache(w)
    <2>1. UNCHANGED <<works, editions, links, cache>>
      BY <1>3 DEF SyncStep, StartSync, Proceed, FindTopMatch, CheckAnswer, FetchDetails,
        Statement, FindWorkRef, FindWorkByKey, ReadWorkSources, ReadWork, SaveWork,
        SaveWorkRef, NextEdition, FindEditionRef, FindEditionByKey, ReadEditionSources,
        ReadEdition, UpdateEdition, InsertEdition, PutEdition, SaveEditionRef, SaveLinks,
        RecordSuccess, RecordError, DeadlockAbort, Fail, Crash, Abort
    <2> QED BY <2>1
  <1> QED BY <1>1, <1>2, <1>3

(* A sync takes no row back that a request read or a page shows.           *)
LEMMA PagesSync ==
  ASSUME PagesInv, SyncNext, UNCHANGED pageVars,
         told' = told \cup {<<k[1], refs'[k].id>> : k \in DOMAIN refs'}
  PROVE  PagesInv'
  <1>1. PICK w \in Workers : SyncStep(w)
    BY DEF SyncNext
  <1>2. Grows
    BY <1>1, SyncGrows DEF Grows
  <1>3. Inv'
    BY InvNext DEF PagesInv
  <1>4. rd' = rd
    BY DEF pageVars
  <1>5. RequestsOK'
    <2>1. ASSUME NEW r \in Readers PROVE RequestOK(rd[r])'
      <3>1. RequestOK(rd[r])
        BY DEF PagesInv, RequestsOK
      <3>2. PICK req : req = rd[r]
        OBVIOUS
      <3> QED BY <1>2, <1>4, <3>1, <3>2, CommittedStays DEF RequestOK, Grows, Committed
    <2> QED BY <1>4, <2>1 DEF PagesInv, RequestsOK
  <1>6. RefsTold'
    BY DEF RefsTold
  <1>7. PagesShowCommitted'
    BY <1>1, <1>2, SyncGrows DEF PagesInv, PagesShowCommitted, Grows, Committed
  <1> QED BY <1>3, <1>5, <1>6, <1>7 DEF PagesInv

(* A request that reads: only its own record changes.                      *)
LEMMA PagesRead ==
  ASSUME PagesInv, NEW r \in Readers, NEW req, RequestOK(req), rd' = [rd EXCEPT ![r] = req],
         UNCHANGED <<vars, told>>
  PROVE  PagesInv'
  <1>1. Inv'
    <2>1. [SyncNext]_vars
      BY Zenon
    <2> QED BY <2>1, InvNext DEF PagesInv
  <1>2. UNCHANGED <<works, editions, refs, links, cache, told>>
    BY DEF vars
  <1>3. RequestsOK'
    BY <1>2 DEF PagesInv, RequestsOK, RequestOK, Committed
  <1>4. RefsTold' /\ PagesShowCommitted'
    BY <1>2 DEF PagesInv, RefsTold, PagesShowCommitted, Committed
  <1> QED BY <1>1, <1>3, <1>4 DEF PagesInv

(* What a cache write leaves of a sync: everything.                        *)
LEMMA InvCached ==
  ASSUME Inv, \A k \in DOMAIN cache' : k[1] \in Ids,
         UNCHANGED <<works, editions, refs, links, syncLog, nextId, started, pc, job, loc, tx>>
  PROVE  Inv'
  <1>1. nextId \in Nat /\ nextId' = nextId /\ nextId <= nextId' /\ TypeOK /\ SharedOK
    BY DEF Inv, TypeOK
  <1>2. \A w \in Workers : WorkerOK(w)'
    BY <1>1, WorkerStays
  <1>3. SharedOK'
    <2>1. TablesOK([works |-> works, editions |-> editions, refs |-> refs, links |-> links])'
      BY <1>1 DEF SharedOK, TablesOK, IsTable, Ids, WorkRow, EditionRow, RefKey, RefRow
    <2>2. syncLog' \subseteq LogRow' /\ started' \in 0..MaxSyncs /\ \A k \in DOMAIN cache' : k[1] \in Ids'
      BY <1>1 DEF SharedOK, LogRow, Ids
    <2> QED BY <2>1, <2>2 DEF SharedOK
  <1>4. TypeOK'
    BY <1>1, <1>2, <1>3 DEF TypeOK, Job, Labels, Local, Ids, WorkRow, EditionRow
  <1>5. Safe'
    BY SafeStays DEF Inv
  <1>6. Written'
    BY AnswerStays DEF Inv, Written
  <1> QED BY <1>4, <1>5, <1>6 DEF Inv

LEMMA PagesMiss ==
  ASSUME PagesInv, NEW r \in Readers, MissPage(r)
  PROVE  PagesInv'
  <1>1. PICK id \in DOMAIN works, route \in Routes :
          rd' = [rd EXCEPT ![r] =
                   [pc |-> "editions", id |-> id, route |-> route,
                    page |-> [NoPage EXCEPT !.by = IF route = "card" THEN works[id].by ELSE "none"]]]
    BY DEF MissPage
  <1>2. PICK by : by = IF route = "card" THEN works[id].by ELSE "none"
    OBVIOUS
  <1>3. PICK page : page = [by |-> by, editions |-> {}, sources |-> {}, links |-> {}]
    OBVIOUS
  <1>4. [NoPage EXCEPT !.by = by] = page
    BY <1>3 DEF NoPage
  <1>5. PICK req : req = [pc |-> "editions", id |-> id, route |-> route, page |-> page]
    OBVIOUS
  <1>6. rd' = [rd EXCEPT ![r] = req]
    BY <1>1, <1>2, <1>4, <1>5
  <1>7. RequestOK(req)
    BY <1>3, <1>5 DEF RequestOK, IsPage, Committed
  <1> QED BY <1>6, <1>7, PagesRead DEF MissPage

(* The rows a request reads next are committed too.                        *)
LEMMA PagesReadOn ==
  ASSUME PagesInv, NEW r \in Readers, rd[r].pc # "idle",
         NEW label \in {"sources", "links", "set"}, NEW page, IsPage(page),
         page.editions \subseteq rd[r].page.editions \cup DOMAIN editions,
         page.links \subseteq rd[r].page.links \cup links,
         page.sources \subseteq rd[r].page.sources \cup SourcesOf(refs, rd[r].id),
         Read(r, label, page), UNCHANGED <<vars, told>>
  PROVE  PagesInv'
  <1>1. RequestOK(rd[r]) /\ Committed(rd[r].id, rd[r].page)
    BY DEF PagesInv, RequestsOK, RequestOK
  <1>2. PICK id, route : id = rd[r].id /\ route = rd[r].route
    OBVIOUS
  <1>3. PICK req : req = [pc |-> label, id |-> id, route |-> route, page |-> page]
    OBVIOUS
  <1>4. rd' = [rd EXCEPT ![r] = req]
    BY <1>2, <1>3 DEF Read
  <1>5. \A s \in SourcesOf(refs, id) : <<s, id>> \in told
    BY DEF SourcesOf, PagesInv, RefsTold
  <1>6. Committed(id, page)
    BY <1>1, <1>2, <1>5 DEF Committed
  <1>7. RequestOK(req)
    BY <1>3, <1>6 DEF RequestOK
  <1> QED BY <1>4, <1>7, PagesRead

LEMMA PagesReadSteps ==
  ASSUME PagesInv, NEW r \in Readers,
         ReadPageEditions(r) \/ ReadPageSources(r) \/ ReadPageLinks(r)
  PROVE  PagesInv'
  <1>1. rd[r].pc # "idle" /\ IsPage(rd[r].page) /\ Committed(rd[r].id, rd[r].page)
    BY DEF PagesInv, RequestsOK, RequestOK, ReadPageEditions, ReadPageSources, ReadPageLinks
  <1>2. PICK page : page = rd[r].page
    OBVIOUS
  <1>3. PICK by, eds, srcs, ls : page = [by |-> by, editions |-> eds, sources |-> srcs, links |-> ls]
    BY <1>1, <1>2 DEF IsPage
  <1>4. CASE ReadPageEditions(r)
    <2>1. PICK new : new = EditionsOf(rd[r].id)
      OBVIOUS
    <2>2. PICK next : next = [by |-> by, editions |-> new, sources |-> srcs, links |-> ls]
      OBVIOUS
    <2>3. [page EXCEPT !.editions = new] = next
      BY <1>3, <2>2
    <2>4. PICK label \in {"sources", "links", "set"} :
            label = IF rd[r].route = "card" THEN "sources" ELSE "links"
      OBVIOUS
    <2>5. Read(r, label, next) /\ UNCHANGED <<vars, told>>
      BY <1>2, <1>4, <2>1, <2>3, <2>4 DEF ReadPageEditions
    <2>6. new \subseteq DOMAIN editions
      BY <2>1 DEF EditionsOf
    <2>7. IsPage(next) /\ next.editions = new /\ next.sources = srcs /\ next.links = ls
          /\ page.editions = eds /\ page.sources = srcs /\ page.links = ls
      BY <1>3, <2>2 DEF IsPage
    <2> QED BY <1>1, <1>2, <2>5, <2>6, <2>7, PagesReadOn
  <1>5. CASE ReadPageSources(r)
    <2>1. PICK new : new = SourcesOf(refs, rd[r].id)
      OBVIOUS
    <2>2. PICK next : next = [by |-> by, editions |-> eds, sources |-> new, links |-> ls]
      OBVIOUS
    <2>3. [page EXCEPT !.sources = new] = next
      BY <1>3, <2>2
    <2>4. Read(r, "set", next) /\ UNCHANGED <<vars, told>>
      BY <1>2, <1>5, <2>1, <2>3 DEF ReadPageSources
    <2>5. IsPage(next) /\ next.editions = eds /\ next.sources = new /\ next.links = ls
          /\ page.editions = eds /\ page.sources = srcs /\ page.links = ls
      BY <1>3, <2>2 DEF IsPage
    <2> QED BY <1>1, <1>2, <2>1, <2>4, <2>5, PagesReadOn
  <1>6. CASE ReadPageLinks(r)
    <2>1. PICK new : new = LinksOf(rd[r].page.editions)
      OBVIOUS
    <2>2. PICK next : next = [by |-> by, editions |-> eds, sources |-> srcs, links |-> new]
      OBVIOUS
    <2>3. [page EXCEPT !.links = new] = next
      BY <1>3, <2>2
    <2>4. Read(r, "set", next) /\ UNCHANGED <<vars, told>>
      BY <1>2, <1>6, <2>1, <2>3 DEF ReadPageLinks
    <2>5. new \subseteq links
      BY <2>1 DEF LinksOf
    <2>6. IsPage(next) /\ next.editions = eds /\ next.sources = srcs /\ next.links = new
          /\ page.editions = eds /\ page.sources = srcs /\ page.links = ls
      BY <1>3, <2>2 DEF IsPage
    <2> QED BY <1>1, <1>2, <2>4, <2>5, <2>6, PagesReadOn
  <1> QED BY <1>4, <1>5, <1>6

LEMMA PagesSet ==
  ASSUME PagesInv, NEW r \in Readers, SetPage(r)
  PROVE  PagesInv'
  <1>1. rd[r].pc = "set" /\ Committed(rd[r].id, rd[r].page) /\ Inv
    BY DEF PagesInv, RequestsOK, RequestOK, SetPage
  <1>2. PICK id, route, page : id = rd[r].id /\ route = rd[r].route /\ page = rd[r].page
    OBVIOUS
  <1>3. cache' = Put(cache, <<id, route>>, page)
    BY <1>2 DEF SetPage
  <1>4. \A k \in DOMAIN cache' :
          \/ k = <<id, route>> /\ cache'[k] = page
          \/ k \in DOMAIN cache /\ cache'[k] = cache[k]
    BY <1>3 DEF Put
  <1>5. UNCHANGED <<works, editions, refs, links, syncLog, nextId, started, pc, job, loc, tx, told>>
    BY DEF SetPage
  <1>6. Committed(id, page)
    BY <1>1, <1>2
  <1>7. \A x \in DOMAIN works : x \in Ids
    BY <1>1 DEF Inv, TypeOK, SharedOK, TablesOK, IsTable
  <1>8. \A k \in DOMAIN cache : k[1] \in Ids
    BY <1>1 DEF Inv, TypeOK, SharedOK
  <1>9. Inv'
    <2>1. \A k \in DOMAIN cache' : k[1] \in Ids
      BY <1>4, <1>6, <1>7, <1>8 DEF Committed
    <2> QED BY <1>1, <1>5, <2>1, InvCached
  <1>10. PagesShowCommitted'
    BY <1>4, <1>5, <1>6 DEF PagesInv, PagesShowCommitted, Committed
  <1>11. RequestsOK'
    <2>1. PICK req : req = NoRequest
      OBVIOUS
    <2>2. RequestOK(req)
      BY <2>1 DEF RequestOK, NoRequest
    <2>3. rd' = [rd EXCEPT ![r] = req]
      BY <2>1 DEF SetPage
    <2> QED BY <1>5, <2>2, <2>3 DEF PagesInv, RequestsOK, RequestOK, Committed
  <1>12. RefsTold'
    BY <1>5 DEF PagesInv, RefsTold
  <1> QED BY <1>9, <1>10, <1>11, <1>12 DEF PagesInv

LEMMA PagesExpire ==
  ASSUME PagesInv, ExpireSome
  PROVE  PagesInv'
  <1>1. PICK k \in DOMAIN cache : Expire(k)
    BY DEF ExpireSome
  <1>2. UNCHANGED <<works, editions, refs, links, syncLog, nextId, started, pc, job, loc, tx, rd, told>>
    BY <1>1 DEF Expire
  <1>3. DOMAIN cache' \subseteq DOMAIN cache /\ \A c \in DOMAIN cache' : cache'[c] = cache[c]
    BY <1>1 DEF Expire
  <1>4. \A c \in DOMAIN cache' : c[1] \in Ids
    BY <1>3 DEF PagesInv, Inv, TypeOK, SharedOK
  <1>5. Inv'
    BY <1>2, <1>4, InvCached DEF PagesInv
  <1>6. RequestsOK' /\ RefsTold' /\ PagesShowCommitted'
    BY <1>2, <1>3 DEF PagesInv, RequestsOK, RequestOK, RefsTold, PagesShowCommitted, Committed
  <1> QED BY <1>5, <1>6 DEF PagesInv

LEMMA PagesInvNext == PagesInv /\ [PagesNext]_allVars => PagesInv'
  <1> SUFFICES ASSUME PagesInv, [PagesNext]_allVars PROVE PagesInv'
    OBVIOUS
  <1>1. CASE SyncNext /\ UNCHANGED pageVars
             /\ told' = told \cup {<<k[1], refs'[k].id>> : k \in DOMAIN refs'}
    BY <1>1, PagesSync
  <1>2. ASSUME NEW r \in Readers, ReaderStep(r) PROVE PagesInv'
    BY <1>2, PagesMiss, PagesReadSteps, PagesSet DEF ReaderStep
  <1>3. CASE ExpireSome
    BY <1>3, PagesExpire
  <1>4. CASE UNCHANGED allVars
    <2>1. UNCHANGED <<vars, rd, told>>
      BY <1>4 DEF allVars
    <2>2. UNCHANGED <<works, editions, refs, links, cache, rd, told>>
      BY <2>1 DEF vars
    <2>3. [SyncNext]_vars
      BY <2>1, Zenon
    <2>4. Inv'
      BY <2>3, InvNext DEF PagesInv
    <2>5. RequestsOK' /\ RefsTold' /\ PagesShowCommitted'
      BY <2>2 DEF PagesInv, RequestsOK, RequestOK, RefsTold, PagesShowCommitted, Committed
    <2> QED BY <2>4, <2>5 DEF PagesInv
  <1> QED BY <1>1, <1>2, <1>3, <1>4 DEF PagesNext

LEMMA PagesInvHolds == PagesSpec => []PagesInv
  <1>1. PagesInit => PagesInv
    <2> SUFFICES ASSUME PagesInit PROVE PagesInv
      OBVIOUS
    <2>1. Init /\ told = {} /\ rd = [r \in Readers |-> NoRequest]
      BY DEF PagesInit
    <2>2. Inv
      BY <2>1, TypeInit, SafeInit
      DEF Inv, Init, Written, AnswerOK, BeforeWork, AfterWork, AtEdition, EditionKnown
    <2>3. RequestsOK
      BY <2>1 DEF RequestsOK, RequestOK, NoRequest
    <2>4. RefsTold /\ PagesShowCommitted
      BY <2>1 DEF Init, Empty, RefsTold, PagesShowCommitted
    <2> QED BY <2>2, <2>3, <2>4 DEF PagesInv
  <1> QED BY <1>1, PagesInvNext, PTL DEF PagesSpec

(* However many requests read a work while syncs rewrite it, no page is    *)
(* ever cached that shows an edition, a source or a link nobody committed: *)
(* GetWorkCard and ListEditionsForWork between the statements of a sync.   *)
THEOREM PagesShowOnlyCommitted == PagesSpec => []PagesShowCommitted
  <1>1. PagesInv => PagesShowCommitted
    BY DEF PagesInv
  <1> QED BY <1>1, PagesInvHolds, PTL
=============================================================================
