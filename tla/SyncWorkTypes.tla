---------------------------- MODULE SyncWorkTypes ----------------------------
(***************************************************************************)
(* Type correctness of SyncWork, proved for every catalogue, any number of *)
(* workers and any bound: SafeSpec => []TypeOK.  TypeOK says of each label *)
(* which local variables a worker may rely on there, so that no statement  *)
(* runs on an id, a row or an edition that was never resolved.             *)
(***************************************************************************)
EXTENDS SyncWork, TLAPS

-----------------------------------------------------------------------------
(* Tables. *)

(* Merging, putting and widening keep a table a table.                     *)
LEMMA OverTable ==
  ASSUME NEW new, NEW old, NEW D, NEW R, IsTable(new, D, R), IsTable(old, D, R)
  PROVE  IsTable(Over(new, old), D, R)
  BY DEF IsTable, Over

LEMMA PutTable ==
  ASSUME NEW t, NEW x, NEW row, NEW D, NEW R, IsTable(t, D, R), x \in D, row \in R
  PROVE  IsTable(Put(t, x, row), D, R)
  BY DEF IsTable, Put

LEMMA WiderTable ==
  ASSUME NEW t, NEW D, NEW R, NEW D2, NEW R2, IsTable(t, D, R), D \subseteq D2, R \subseteq R2
  PROVE  IsTable(t, D2, R2)
  BY DEF IsTable

LEMMA EmptyTable ==
  ASSUME NEW D, NEW R
  PROVE  IsTable(Empty, D, R)
  BY DEF IsTable, Empty

-----------------------------------------------------------------------------
(* Answers. *)

(* What a source answers is an answer, and its editions are offered.       *)
LEMMA AnswerShape ==
  ASSUME NEW s \in Sources, NEW a \in Catalogue[s]
  PROVE  /\ a \in AllAnswers /\ a.key \in WorkKeys /\ a.ext \in Exts
         /\ a.eds \in Seq(Offered)
         /\ \A i \in 1..Len(a.eds) :
              /\ a.eds[i] \in Offered
              /\ a.eds[i].ext \in Exts /\ a.eds[i].k \in Printings
              /\ a.eds[i].links \subseteq LinkIds
  <1>1. a \in AllAnswers
    BY DEF Sources, AllAnswers
  <1>2. a.key \in WorkKeys /\ a.ext \in Exts
    BY <1>1 DEF WorkKeys, Exts
  <1>3. a.eds \in Seq(Offered)
    BY <1>1, CatalogueShape
  <1>4. \A i \in 1..Len(a.eds) : a.eds[i] \in Offered
    BY <1>3
  <1>5. \A e \in Offered : e.ext \in Exts /\ e.k \in Printings /\ e.links \subseteq LinkIds
    BY DEF Exts, Printings, LinkIds
  <1> QED BY <1>1, <1>2, <1>3, <1>4, <1>5

-----------------------------------------------------------------------------
(* Growing ids. *)

LEMMA RangeGrows ==
  ASSUME NEW m \in Nat, NEW n \in Nat, m <= n
  PROVE  1..(m - 1) \subseteq 1..(n - 1) /\ 1..(n - 1) \subseteq Nat
  <1>1. \A x \in 1..(m - 1) : x \in 1..(n - 1)
    OBVIOUS
  <1> QED BY <1>1

LEMMA IdsGrow ==
  ASSUME nextId \in Nat, nextId' \in Nat, nextId <= nextId'
  PROVE  /\ Ids \subseteq Ids' /\ Ids' \subseteq Nat
         /\ EditionRow \subseteq EditionRow' /\ RefRow \subseteq RefRow'
         /\ LogRow \subseteq LogRow'
  <1>1. Ids \subseteq Ids' /\ Ids' \subseteq Nat
    BY RangeGrows DEF Ids
  <1>2. EditionRow \subseteq EditionRow'
    BY <1>1 DEF EditionRow
  <1>3. RefRow \subseteq RefRow'
    BY <1>1 DEF RefRow
  <1>4. LogRow \subseteq LogRow'
    BY <1>1 DEF LogRow
  <1> QED BY <1>1, <1>2, <1>3, <1>4

-----------------------------------------------------------------------------
(* Type correctness: what all steps of a worker have in common. *)

LEMMA Moves ==
  ASSUME TypeOK, NEW w \in Workers, NEW label \in Labels, Goto(w, label)
  PROVE  /\ pc' \in [Workers -> Labels] /\ pc'[w] = label
         /\ \A v \in Workers \ {w} : pc'[v] = pc[v]
  BY DEF TypeOK, Goto

(* A transaction that no statement touched stays well-typed.               *)
LEMMA TransactionStays ==
  ASSUME TypeOK, nextId' \in Nat, nextId <= nextId', NEW v \in Workers, tx'[v] = tx[v]
  PROVE  TransactionOK(v)'
  <1>1. TransactionOK(v) /\ nextId \in Nat
    BY DEF TypeOK, WorkerOK
  <1>2. /\ IsTable(tx[v].works, Ids', WorkRow)
        /\ IsTable(tx[v].editions, Ids', EditionRow')
        /\ IsTable(tx[v].refs, RefKey, RefRow')
        /\ tx[v].links \subseteq Ids' \X LinkIds
    BY <1>1, IdsGrow, WiderTable DEF TransactionOK, TablesOK
  <1> QED BY <1>1, <1>2 DEF TransactionOK, TablesOK, WorkRow, RefKey

(* So does a worker that did not move.                                     *)
LEMMA WorkerStays ==
  ASSUME TypeOK, nextId' \in Nat, nextId <= nextId', NEW v \in Workers,
         pc'[v] = pc[v], job'[v] = job[v], loc'[v] = loc[v], tx'[v] = tx[v]
  PROVE  WorkerOK(v)'
  <1>1. TransactionOK(v)'
    BY TransactionStays
  <1>2. LocalOK(v, pc[v])'
    BY IdsGrow DEF TypeOK, WorkerOK, LocalOK, WorkRow
  <1> QED BY <1>1, <1>2 DEF WorkerOK

OnlyMoves(w) ==
  \A v \in Workers \ {w} :
    pc'[v] = pc[v] /\ job'[v] = job[v] /\ loc'[v] = loc[v] /\ tx'[v] = tx[v]

(* A step of w preserves the types if what it writes is well-typed.        *)
LEMMA AnyStep ==
  ASSUME TypeOK, NEW w \in Workers, OnlyMoves(w), nextId' \in {nextId, nextId + 1},
         pc' \in [Workers -> Labels], job' \in [Workers -> Job],
         loc' \in [Workers -> Local], DOMAIN tx' = Workers,
         WorkerOK(w)', SharedOK'
  PROVE  TypeOK'
  <1>1. nextId' \in Nat \ {0} /\ nextId <= nextId'
    BY DEF TypeOK
  <1>2. \A v \in Workers : WorkerOK(v)'
    BY <1>1, WorkerStays DEF OnlyMoves
  <1> QED BY <1>1, <1>2 DEF TypeOK, Job, Labels, Local

(* The shared state stays well-typed while ids are only handed out.        *)
LEMMA SharedStays ==
  ASSUME TypeOK, nextId' \in {nextId, nextId + 1},
         UNCHANGED <<works, editions, refs, links, syncLog, cache, started>>
  PROVE  SharedOK'
  <1>1. nextId \in Nat /\ nextId' \in Nat /\ nextId <= nextId' /\ SharedOK
    BY DEF TypeOK
  <1>2. TablesOK([works |-> works, editions |-> editions, refs |-> refs, links |-> links])'
    <2>1. /\ IsTable(works, Ids, WorkRow) /\ IsTable(editions, Ids, EditionRow)
          /\ IsTable(refs, RefKey, RefRow) /\ links \subseteq Ids \X LinkIds
      BY <1>1 DEF SharedOK, TablesOK
    <2>2. /\ IsTable(works, Ids', WorkRow) /\ IsTable(editions, Ids', EditionRow')
          /\ IsTable(refs, RefKey, RefRow') /\ links \subseteq Ids' \X LinkIds
      BY <2>1, <1>1, IdsGrow, WiderTable
    <2> QED BY <2>2 DEF TablesOK, WorkRow, RefKey
  <1>3. syncLog' \subseteq LogRow' /\ \A k \in DOMAIN cache' : k[1] \in Ids'
    BY <1>1, IdsGrow DEF SharedOK
  <1> QED BY <1>1, <1>2, <1>3 DEF SharedOK

(* A step that reads, and may set w's local variables and the next label.  *)
LEMMA ReadStep ==
  ASSUME TypeOK, NEW w \in Workers, NEW label \in Labels, Goto(w, label),
         UNCHANGED <<works, editions, refs, links, syncLog, cache, started, job, tx>>,
         nextId' \in {nextId, nextId + 1},
         loc' \in [Workers -> Local], \A v \in Workers \ {w} : loc'[v] = loc[v],
         LocalOK(w, label)'
  PROVE  TypeOK'
  <1>1. /\ pc' \in [Workers -> Labels] /\ pc'[w] = label
        /\ \A v \in Workers \ {w} : pc'[v] = pc[v]
    BY Moves
  <1>2. OnlyMoves(w)
    BY <1>1 DEF OnlyMoves
  <1>3. nextId' \in Nat /\ nextId <= nextId'
    BY DEF TypeOK
  <1>4. WorkerOK(w)'
    BY <1>1, <1>3, TransactionStays DEF WorkerOK, LocalOK
  <1>5. job' \in [Workers -> Job] /\ DOMAIN tx' = Workers
    BY DEF TypeOK
  <1>6. SharedOK'
    BY SharedStays
  <1> QED BY <1>1, <1>2, <1>4, <1>5, <1>6, AnyStep

(* Setting one local variable.                                             *)
LEMMA SetWid ==
  ASSUME TypeOK, NEW w \in Workers, NEW x \in Nat, loc' = [loc EXCEPT ![w].wid = x]
  PROVE  /\ loc' \in [Workers -> Local] /\ loc'[w].wid = x
         /\ loc'[w].row = loc[w].row /\ loc'[w].i = loc[w].i
         /\ loc'[w].eid = loc[w].eid /\ loc'[w].erow = loc[w].erow
         /\ \A v \in Workers \ {w} : loc'[v] = loc[v]
  BY DEF TypeOK, Local

LEMMA SetRow ==
  ASSUME TypeOK, NEW w \in Workers, NEW x \in WorkRow, loc' = [loc EXCEPT ![w].row = x]
  PROVE  /\ loc' \in [Workers -> Local] /\ loc'[w].row = x
         /\ loc'[w].wid = loc[w].wid /\ loc'[w].i = loc[w].i
         /\ loc'[w].eid = loc[w].eid /\ loc'[w].erow = loc[w].erow
         /\ \A v \in Workers \ {w} : loc'[v] = loc[v]
  BY DEF TypeOK, Local

LEMMA SetIndex ==
  ASSUME TypeOK, NEW w \in Workers, NEW x \in Nat, loc' = [loc EXCEPT ![w].i = x]
  PROVE  /\ loc' \in [Workers -> Local] /\ loc'[w].i = x
         /\ loc'[w].wid = loc[w].wid /\ loc'[w].row = loc[w].row
         /\ loc'[w].eid = loc[w].eid /\ loc'[w].erow = loc[w].erow
         /\ \A v \in Workers \ {w} : loc'[v] = loc[v]
  BY DEF TypeOK, Local

LEMMA SetEid ==
  ASSUME TypeOK, NEW w \in Workers, NEW x \in Nat, loc' = [loc EXCEPT ![w].eid = x]
  PROVE  /\ loc' \in [Workers -> Local] /\ loc'[w].eid = x
         /\ loc'[w].wid = loc[w].wid /\ loc'[w].row = loc[w].row
         /\ loc'[w].i = loc[w].i /\ loc'[w].erow = loc[w].erow
         /\ \A v \in Workers \ {w} : loc'[v] = loc[v]
  BY DEF TypeOK, Local

LEMMA SetEditionRow ==
  ASSUME TypeOK, NEW w \in Workers, NEW x \in EditionRow, loc' = [loc EXCEPT ![w].erow = x]
  PROVE  /\ loc' \in [Workers -> Local] /\ loc'[w].erow = x
         /\ loc'[w].wid = loc[w].wid /\ loc'[w].row = loc[w].row
         /\ loc'[w].i = loc[w].i /\ loc'[w].eid = loc[w].eid
         /\ \A v \in Workers \ {w} : loc'[v] = loc[v]
  BY DEF TypeOK, Local, EditionRow, Ids

(* What w knows at each label, in a form the steps below can cite.         *)
LEMMA Known ==
  ASSUME TypeOK, NEW w \in Workers
  PROVE  /\ LocalOK(w, pc[w]) /\ TransactionOK(w)
         /\ loc \in [Workers -> Local] /\ loc[w] \in Local
         /\ nextId \in Nat \ {0} /\ Ids \subseteq Nat
  BY DEF TypeOK, WorkerOK, Ids

LEMMA IdsKept ==
  ASSUME nextId' = nextId
  PROVE  Ids' = Ids /\ EditionRow' = EditionRow /\ RefRow' = RefRow /\ LogRow' = LogRow
  BY DEF Ids, EditionRow, RefRow, LogRow

LEMMA NewId ==
  ASSUME nextId \in Nat \ {0}, nextId' = nextId + 1
  PROVE  nextId \in Ids' /\ Ids \subseteq Ids'
  BY DEF Ids

(* The tables a statement sees are well-typed.                             *)
LEMMA ViewsOK ==
  ASSUME TypeOK, NEW w \in Workers
  PROVE  /\ IsTable(ViewWorks(w), Ids, WorkRow) /\ IsTable(ViewEditions(w), Ids, EditionRow)
         /\ IsTable(ViewRefs(w), RefKey, RefRow)
  BY OverTable DEF TypeOK, SharedOK, WorkerOK, TransactionOK, TablesOK,
                   ViewWorks, ViewEditions, ViewRefs

LEMMA TypeFindWorkRef ==
  ASSUME TypeOK, NEW w \in Workers, FindWorkRef(w)
  PROVE  TypeOK'
  <1> USE DEF Labels, InTransaction, WorkKnown, AtEdition, EditionKnown
  <1>1. /\ pc[w] = "findWorkRef" /\ LocalOK(w, "findWorkRef") /\ job' = job
        /\ UNCHANGED <<works, editions, refs, links, syncLog, cache, started, job, tx, nextId>>
    BY Known DEF FindWorkRef
  <1>2. CASE job[w].attach # None
    <2>1. job[w].attach \in Ids /\ Ids \subseteq Nat
      BY <1>1, <1>2, Known DEF LocalOK
    <2>2. Goto(w, "readWork") /\ loc' = [loc EXCEPT ![w].wid = job[w].attach]
      BY <1>2 DEF FindWorkRef
    <2>3. LocalOK(w, "readWork")'
      BY <1>1, <2>1, <2>2, IdsKept, SetWid DEF LocalOK
    <2> QED BY <1>1, <2>1, <2>2, <2>3, SetWid, ReadStep
  <1>3. CASE job[w].attach = None /\ WorkRef(w) \in DOMAIN ViewRefs(w)
    <2> DEFINE id == ViewRefs(w)[WorkRef(w)].id
    <2>1. id \in Ids /\ Ids \subseteq Nat
      BY <1>3, ViewsOK, Known DEF IsTable, RefRow
    <2>2. Goto(w, "workSources") /\ loc' = [loc EXCEPT ![w].wid = id]
      BY <1>3 DEF FindWorkRef
    <2>3. LocalOK(w, "workSources")'
      BY <1>1, <2>1, <2>2, IdsKept, SetWid DEF LocalOK
    <2> QED BY <1>1, <2>1, <2>2, <2>3, SetWid, ReadStep
  <1>4. CASE job[w].attach = None /\ WorkRef(w) \notin DOMAIN ViewRefs(w)
    <2>1. Goto(w, "findWorkByKey") /\ loc' = loc
      BY <1>4 DEF FindWorkRef
    <2>2. LocalOK(w, "findWorkByKey")'
      BY <1>1, <2>1, IdsKept DEF LocalOK
    <2> QED BY <1>1, <2>1, <2>2, Known, ReadStep
  <1> QED BY <1>2, <1>3, <1>4

LEMMA TypeFetchDetails ==
  ASSUME TypeOK, NEW w \in Workers, FetchDetails(w)
  PROVE  TypeOK'
  <1> USE DEF Labels, InTransaction, WorkKnown, AtEdition, EditionKnown
  <1>1. /\ pc[w] = "fetch" /\ LocalOK(w, "fetch") /\ Goto(w, "findWorkRef")
        /\ UNCHANGED <<works, editions, refs, links, syncLog, cache, started, job, tx, nextId, loc>>
    BY Known DEF FetchDetails
  <1>2. LocalOK(w, "findWorkRef")'
    BY <1>1, IdsKept DEF LocalOK
  <1> QED BY <1>1, <1>2, Known, ReadStep

LEMMA TypeCheckAnswer ==
  ASSUME TypeOK, NEW w \in Workers, CheckAnswer(w)
  PROVE  TypeOK'
  <1> USE DEF Labels, InTransaction, WorkKnown, AtEdition, EditionKnown
  <1>1. /\ pc[w] = "check" /\ LocalOK(w, "check")
        /\ UNCHANGED <<works, editions, refs, links, syncLog, cache, started, job, tx, nextId, loc>>
    BY Known DEF CheckAnswer
  <1>2. PICK label \in {"failed", "fetch"} : Goto(w, label)
    BY DEF CheckAnswer
  <1>3. LocalOK(w, label)'
    BY <1>1, IdsKept DEF LocalOK
  <1> QED BY <1>1, <1>2, <1>3, Known, ReadStep

LEMMA TypeFindWorkByKey ==
  ASSUME TypeOK, NEW w \in Workers, FindWorkByKey(w)
  PROVE  TypeOK'
  <1> USE DEF Labels, InTransaction, WorkKnown, AtEdition, EditionKnown
  <1>1. /\ pc[w] = "findWorkByKey" /\ LocalOK(w, "findWorkByKey") /\ Goto(w, "workSources")
        /\ UNCHANGED <<works, editions, refs, links, syncLog, cache, started, job, tx>>
    BY Known DEF FindWorkByKey
  <1>2. CASE \E id \in DOMAIN ViewWorks(w) : loc' = [loc EXCEPT ![w].wid = id] /\ nextId' = nextId
    <2>1. PICK id \in DOMAIN ViewWorks(w) : loc' = [loc EXCEPT ![w].wid = id] /\ nextId' = nextId
      BY <1>2
    <2>2. id \in Ids /\ Ids \subseteq Nat
      BY ViewsOK, Known DEF IsTable
    <2>3. LocalOK(w, "workSources")'
      BY <1>1, <2>1, <2>2, IdsKept, SetWid DEF LocalOK
    <2> QED BY <1>1, <2>1, <2>2, <2>3, SetWid, ReadStep
  <1>3. CASE loc' = [loc EXCEPT ![w].wid = nextId] /\ nextId' = nextId + 1
    <2>1. nextId \in Nat /\ nextId \in Ids' /\ Ids \subseteq Ids'
      BY <1>3, Known, NewId
    <2>2. LocalOK(w, "workSources")'
      BY <1>1, <1>3, <2>1, SetWid DEF LocalOK
    <2> QED BY <1>1, <1>3, <2>1, <2>2, SetWid, ReadStep
  <1> QED BY <1>2, <1>3 DEF FindWorkByKey

LEMMA TypeReadWorkSources ==
  ASSUME TypeOK, NEW w \in Workers, ReadWorkSources(w)
  PROVE  TypeOK'
  <1> USE DEF Labels, InTransaction, WorkKnown, AtEdition, EditionKnown
  <1>1. /\ pc[w] = "workSources" /\ LocalOK(w, "workSources")
        /\ UNCHANGED <<works, editions, refs, links, syncLog, cache, started, job, tx, nextId>>
    BY Known DEF ReadWorkSources
  <1>2. CASE Goto(w, "readWork") /\ loc' = loc
    <2>1. LocalOK(w, "readWork")'
      BY <1>1, <1>2, IdsKept DEF LocalOK
    <2> QED BY <1>1, <1>2, <2>1, Known, ReadStep
  <1>3. CASE /\ loc' = [loc EXCEPT ![w].row = [key |-> Ans(w).key, by |-> Src(w)]]
             /\ Goto(w, "saveWork")
    <2>1. [key |-> Ans(w).key, by |-> Src(w)] \in WorkRow
      BY <1>1, AnswerShape DEF LocalOK, WorkRow, Src, Ans
    <2>2. LocalOK(w, "saveWork")'
      BY <1>1, <1>3, <2>1, IdsKept, SetRow DEF LocalOK, WorkRow
    <2> QED BY <1>1, <1>3, <2>1, <2>2, SetRow, ReadStep
  <1> QED BY <1>2, <1>3 DEF ReadWorkSources

LEMMA TypeReadWork ==
  ASSUME TypeOK, NEW w \in Workers, ReadWork(w)
  PROVE  TypeOK'
  <1> USE DEF Labels, InTransaction, WorkKnown, AtEdition, EditionKnown
  <1>1. /\ pc[w] = "readWork" /\ LocalOK(w, "readWork") /\ Goto(w, "saveWork")
        /\ UNCHANGED <<works, editions, refs, links, syncLog, cache, started, job, tx, nextId>>
    BY Known DEF ReadWork
  <1>2. PICK row \in WorkRow : loc' = [loc EXCEPT ![w].row = row]
    <2>1. [key |-> Ans(w).key, by |-> Src(w)] \in WorkRow
      BY <1>1, AnswerShape DEF LocalOK, WorkRow, Src, Ans
    <2>2. \A id \in DOMAIN ViewWorks(w) : ViewWorks(w)[id] \in WorkRow
      BY ViewsOK DEF IsTable
    <2> QED BY <2>1, <2>2 DEF ReadWork
  <1>3. LocalOK(w, "saveWork")'
    BY <1>1, <1>2, IdsKept, SetRow DEF LocalOK, WorkRow
  <1> QED BY <1>1, <1>2, <1>3, SetRow, ReadStep

LEMMA TypeNextEdition ==
  ASSUME TypeOK, NEW w \in Workers, NextEdition(w)
  PROVE  TypeOK'
  <1> USE DEF Labels, InTransaction, WorkKnown, AtEdition, EditionKnown
  <1>1. /\ pc[w] = "edition" /\ LocalOK(w, "edition")
        /\ UNCHANGED <<works, editions, refs, links, syncLog, cache, started, job, tx, nextId>>
        /\ loc[w].i \in Nat /\ Len(job[w].ans.eds) \in Nat
    BY Known, AnswerShape DEF NextEdition, Local, LocalOK
  <1>2. CASE Goto(w, "invalidate") /\ loc' = loc
    <2>1. LocalOK(w, "invalidate")'
      BY <1>1, <1>2, IdsKept DEF LocalOK
    <2> QED BY <1>1, <1>2, <2>1, Known, ReadStep
  <1>3. CASE Goto(w, "findEditionRef") /\ loc' = loc /\ ~(loc[w].i > Len(Ans(w).eds))
    <2>1. loc[w].i \in 1..Len(job[w].ans.eds)
      BY <1>1, <1>3 DEF LocalOK, Ans
    <2>2. LocalOK(w, "findEditionRef")'
      BY <1>1, <1>3, <2>1, IdsKept DEF LocalOK
    <2> QED BY <1>1, <1>3, <2>2, Known, ReadStep
  <1>4. CASE loc' = [loc EXCEPT ![w].i = @ + 1] /\ pc' = pc
    <2>1. loc[w].i + 1 \in Nat /\ loc[w].i + 1 > 0 /\ loc' = [loc EXCEPT ![w].i = loc[w].i + 1]
      BY <1>1, <1>4
    <2>2. Goto(w, "edition")
      BY <1>1, <1>4, Known DEF Goto, TypeOK
    <2>3. LocalOK(w, "edition")'
      BY <1>1, <2>1, IdsKept, SetIndex DEF LocalOK
    <2> QED BY <1>1, <2>1, <2>2, <2>3, SetIndex, ReadStep
  <1> QED BY <1>2, <1>3, <1>4 DEF NextEdition

LEMMA TypeFindEditionRef ==
  ASSUME TypeOK, NEW w \in Workers, FindEditionRef(w)
  PROVE  TypeOK'
  <1> USE DEF Labels, InTransaction, WorkKnown, AtEdition, EditionKnown
  <1>1. /\ pc[w] = "findEditionRef" /\ LocalOK(w, "findEditionRef")
        /\ UNCHANGED <<works, editions, refs, links, syncLog, cache, started, job, tx, nextId>>
    BY Known DEF FindEditionRef
  <1>2. CASE Goto(w, "findEditionByKey") /\ loc' = loc
    <2>1. LocalOK(w, "findEditionByKey")'
      BY <1>1, <1>2, IdsKept DEF LocalOK
    <2> QED BY <1>1, <1>2, <2>1, Known, ReadStep
  <1>3. CASE EdRef(w) \in DOMAIN ViewRefs(w)
    <2> DEFINE id == ViewRefs(w)[EdRef(w)].id
    <2>1. id \in Ids /\ Ids \subseteq Nat
      BY <1>3, ViewsOK, Known DEF IsTable, RefRow
    <2>2. Goto(w, "editionSources") /\ loc' = [loc EXCEPT ![w].eid = id]
      BY <1>3 DEF FindEditionRef
    <2>3. LocalOK(w, "editionSources")'
      BY <1>1, <2>1, <2>2, IdsKept, SetEid DEF LocalOK
    <2> QED BY <1>1, <2>1, <2>2, <2>3, SetEid, ReadStep
  <1> QED BY <1>2, <1>3 DEF FindEditionRef

LEMMA TypeFindEditionByKey ==
  ASSUME TypeOK, NEW w \in Workers, FindEditionByKey(w)
  PROVE  TypeOK'
  <1> USE DEF Labels, InTransaction, WorkKnown, AtEdition, EditionKnown
  <1>1. /\ pc[w] = "findEditionByKey" /\ LocalOK(w, "findEditionByKey")
        /\ Goto(w, "editionSources")
        /\ UNCHANGED <<works, editions, refs, links, syncLog, cache, started, job, tx>>
    BY Known DEF FindEditionByKey
  <1>2. CASE \E id \in DOMAIN ViewEditions(w) : loc' = [loc EXCEPT ![w].eid = id] /\ nextId' = nextId
    <2>1. PICK id \in DOMAIN ViewEditions(w) : loc' = [loc EXCEPT ![w].eid = id] /\ nextId' = nextId
      BY <1>2
    <2>2. id \in Ids /\ Ids \subseteq Nat
      BY ViewsOK, Known DEF IsTable
    <2>3. LocalOK(w, "editionSources")'
      BY <1>1, <2>1, <2>2, IdsKept, SetEid DEF LocalOK
    <2> QED BY <1>1, <2>1, <2>2, <2>3, SetEid, ReadStep
  <1>3. CASE loc' = [loc EXCEPT ![w].eid = nextId] /\ nextId' = nextId + 1
    <2>1. nextId \in Nat /\ nextId \in Ids' /\ Ids \subseteq Ids'
      BY <1>3, Known, NewId
    <2>2. LocalOK(w, "editionSources")'
      BY <1>1, <1>3, <2>1, SetEid DEF LocalOK
    <2> QED BY <1>1, <1>3, <2>1, <2>2, SetEid, ReadStep
  <1> QED BY <1>2, <1>3 DEF FindEditionByKey

(* The row an edition of the answer makes is an edition row.               *)
LEMMA NewEditionRow ==
  ASSUME TypeOK, NEW w \in Workers, LocalOK(w, "editionSources")
  PROVE  NewEdition(w) \in EditionRow
  <1> USE DEF Labels, InTransaction, WorkKnown, AtEdition, EditionKnown
  <1>1. /\ Src(w) \in Sources /\ Ans(w) \in Catalogue[Src(w)]
        /\ loc[w].wid \in Ids /\ loc[w].i \in 1..Len(Ans(w).eds) /\ Ids \subseteq Nat
    BY Known DEF LocalOK, Src, Ans
  <1>2. Ed(w).k \in Printings
    BY <1>1, AnswerShape DEF Ed
  <1>3. EdKey(w) \in Nat \X Printings
    BY <1>1, <1>2 DEF EdKey, EditionKey, None
  <1> QED BY <1>1, <1>3 DEF NewEdition, EditionRow

LEMMA TypeReadEditionSources ==
  ASSUME TypeOK, NEW w \in Workers, ReadEditionSources(w)
  PROVE  TypeOK'
  <1> USE DEF Labels, InTransaction, WorkKnown, AtEdition, EditionKnown
  <1>1. /\ pc[w] = "editionSources" /\ LocalOK(w, "editionSources")
        /\ UNCHANGED <<works, editions, refs, links, syncLog, cache, started, job, tx, nextId>>
    BY Known DEF ReadEditionSources
  <1>2. CASE Goto(w, "readEdition") /\ loc' = loc
    <2>1. LocalOK(w, "readEdition")'
      BY <1>1, <1>2, IdsKept DEF LocalOK
    <2> QED BY <1>1, <1>2, <2>1, Known, ReadStep
  <1>3. CASE loc' = [loc EXCEPT ![w].erow = NewEdition(w)] /\ Goto(w, "updateEdition")
    <2>1. NewEdition(w) \in EditionRow
      BY <1>1, NewEditionRow
    <2>2. LocalOK(w, "updateEdition")'
      BY <1>1, <1>3, <2>1, IdsKept, SetEditionRow DEF LocalOK
    <2> QED BY <1>1, <1>3, <2>1, <2>2, SetEditionRow, ReadStep
  <1> QED BY <1>2, <1>3 DEF ReadEditionSources

LEMMA TypeReadEdition ==
  ASSUME TypeOK, NEW w \in Workers, ReadEdition(w)
  PROVE  TypeOK'
  <1> USE DEF Labels, InTransaction, WorkKnown, AtEdition, EditionKnown
  <1>1. /\ pc[w] = "readEdition" /\ LocalOK(w, "readEdition") /\ Goto(w, "updateEdition")
        /\ UNCHANGED <<works, editions, refs, links, syncLog, cache, started, job, tx, nextId>>
    BY Known DEF ReadEdition
  <1>2. PICK row \in EditionRow : loc' = [loc EXCEPT ![w].erow = row]
    <2>1. LocalOK(w, "editionSources")
      BY <1>1 DEF LocalOK
    <2>2. NewEdition(w) \in EditionRow
      BY <2>1, NewEditionRow
    <2>3. \A id \in DOMAIN ViewEditions(w) : ViewEditions(w)[id] \in EditionRow
      BY ViewsOK DEF IsTable
    <2> QED BY <2>2, <2>3 DEF ReadEdition
  <1>3. LocalOK(w, "updateEdition")'
    BY <1>1, <1>2, IdsKept, SetEditionRow DEF LocalOK
  <1> QED BY <1>1, <1>2, <1>3, SetEditionRow, ReadStep

-----------------------------------------------------------------------------
(* Type correctness: the steps that write. *)

(* A step that writes rows of w's own transaction.                         *)
LEMMA WriteStep ==
  ASSUME TypeOK, NEW w \in Workers, NEW label \in Labels, Goto(w, label),
         UNCHANGED <<works, editions, refs, links, syncLog, cache, started, job, nextId>>,
         loc' \in [Workers -> Local], \A v \in Workers \ {w} : loc'[v] = loc[v],
         NEW t, tx' = [tx EXCEPT ![w] = t],
         t = [works |-> t.works, editions |-> t.editions, refs |-> t.refs, links |-> t.links],
         TablesOK(t),
         LocalOK(w, label)'
  PROVE  TypeOK'
  <1>1. /\ pc' \in [Workers -> Labels] /\ pc'[w] = label
        /\ \A v \in Workers \ {w} : pc'[v] = pc[v]
    BY Moves
  <1>2. DOMAIN tx' = Workers /\ tx'[w] = t /\ \A v \in Workers \ {w} : tx'[v] = tx[v]
    BY DEF TypeOK
  <1>3. OnlyMoves(w)
    BY <1>1, <1>2 DEF OnlyMoves
  <1>4. TransactionOK(w)'
    BY <1>2, IdsKept DEF TransactionOK, TablesOK, WorkRow, RefKey
  <1>5. WorkerOK(w)'
    BY <1>1, <1>4 DEF WorkerOK, LocalOK
  <1>6. job' \in [Workers -> Job]
    BY DEF TypeOK
  <1>7. SharedOK'
    BY SharedStays
  <1> QED BY <1>1, <1>2, <1>3, <1>5, <1>6, <1>7, AnyStep

LEMMA NoTxOK == TablesOK(NoTx)
  BY EmptyTable DEF NoTx, TablesOK

(* Leaving the transaction for the catch block.                            *)
LEMMA TypeAbort ==
  ASSUME TypeOK, NEW w \in Workers, pc[w] # "idle", Abort(w)
  PROVE  TypeOK'
  <1> USE DEF Labels, InTransaction, WorkKnown, AtEdition, EditionKnown
  <1>1. /\ Goto(w, "failed") /\ tx' = [tx EXCEPT ![w] = NoTx]
        /\ UNCHANGED <<works, editions, refs, links, syncLog, cache, started, job, nextId, loc>>
    BY DEF Abort
  <1>2. LocalOK(w, "failed")'
    BY <1>1, Known, IdsKept DEF LocalOK
  <1>3. NoTx = [works |-> NoTx.works, editions |-> NoTx.editions,
                refs |-> NoTx.refs, links |-> NoTx.links]
    BY DEF NoTx
  <1> QED BY <1>1, <1>2, <1>3, NoTxOK, Known, WriteStep

LEMMA TypeSaveWork ==
  ASSUME TypeOK, NEW w \in Workers, SaveWork(w)
  PROVE  TypeOK'
  <1> USE DEF Labels, InTransaction, WorkKnown, AtEdition, EditionKnown
  <1>1. pc[w] = "saveWork" /\ LocalOK(w, "saveWork") /\ loc[w].row \in WorkRow
    BY Known DEF SaveWork, LocalOK
  <1>2. CASE Abort(w)
    BY <1>1, <1>2, TypeAbort
  <1>3. ASSUME NEW id \in Ids, Goto(w, "saveWorkRef"),
               tx' = [tx EXCEPT ![w].works = Put(@, id, loc[w].row)],
               UNCHANGED <<works, editions, refs, links, syncLog, cache, nextId, started, job, loc>>
        PROVE  TypeOK'
    <2> DEFINE t == [tx[w] EXCEPT !.works = Put(tx[w].works, id, loc[w].row)]
    <2>1. tx' = [tx EXCEPT ![w] = t]
      BY <1>3
    <2>2. TransactionOK(w)
      BY Known
    <2>3. /\ t = [works |-> t.works, editions |-> t.editions, refs |-> t.refs, links |-> t.links]
          /\ t.works = Put(tx[w].works, id, loc[w].row)
          /\ t.editions = tx[w].editions /\ t.refs = tx[w].refs /\ t.links = tx[w].links
      BY <2>2 DEF TransactionOK
    <2>4. TablesOK(t)
      BY <1>1, <2>2, <2>3, PutTable DEF TransactionOK, TablesOK
    <2>5. LocalOK(w, "saveWorkRef")'
      BY <1>1, <1>3, IdsKept DEF LocalOK
    <2> HIDE DEF t
    <2> QED BY <1>3, <2>1, <2>3, <2>4, <2>5, Known, WriteStep
  <1>4. loc[w].wid \in Ids /\ \A id \in DOMAIN ViewWorks(w) : id \in Ids
    BY <1>1, ViewsOK DEF LocalOK, IsTable
  <1> QED BY <1>2, <1>3, <1>4 DEF SaveWork

LEMMA SaveRefOK ==
  ASSUME TypeOK, NEW w \in Workers, NEW ref \in RefKey, NEW type \in {"work", "edition"},
         NEW id \in Ids, NEW label \in Labels, Goto(w, label), SaveRef(w, ref, type, id),
         UNCHANGED <<works, editions, refs, links, syncLog, cache, nextId, started, job>>,
         loc' \in [Workers -> Local], \A v \in Workers \ {w} : loc'[v] = loc[v],
         LocalOK(w, label)'
  PROVE  TypeOK'
  <1> DEFINE row == [type |-> type, id |-> id]
             t == [tx[w] EXCEPT !.refs = Put(tx[w].refs, ref, row)]
  <1>1. tx' = [tx EXCEPT ![w] = t]
    BY DEF SaveRef
  <1>2. TransactionOK(w)
    BY Known
  <1>3. /\ t = [works |-> t.works, editions |-> t.editions, refs |-> t.refs, links |-> t.links]
        /\ t.refs = Put(tx[w].refs, ref, row)
        /\ t.editions = tx[w].editions /\ t.works = tx[w].works /\ t.links = tx[w].links
    BY <1>2 DEF TransactionOK
  <1>4. row \in RefRow
    BY DEF RefRow
  <1>5. TablesOK(t)
    BY <1>2, <1>3, <1>4, PutTable DEF TransactionOK, TablesOK
  <1> HIDE DEF t, row
  <1> QED BY <1>1, <1>3, <1>5, WriteStep

LEMMA TypeSaveWorkRef ==
  ASSUME TypeOK, NEW w \in Workers, SaveWorkRef(w)
  PROVE  TypeOK'
  <1> USE DEF Labels, InTransaction, WorkKnown, AtEdition, EditionKnown
  <1>1. /\ pc[w] = "saveWorkRef" /\ LocalOK(w, "saveWorkRef") /\ Goto(w, "edition")
        /\ SaveRef(w, WorkRef(w), "work", loc[w].wid) /\ loc' = [loc EXCEPT ![w].i = 1]
        /\ UNCHANGED <<works, editions, refs, links, syncLog, cache, nextId, started, job>>
    BY Known DEF SaveWorkRef
  <1>2. WorkRef(w) \in RefKey /\ loc[w].wid \in Ids
    BY <1>1, AnswerShape DEF LocalOK, WorkRef, RefKey, Src, Ans
  <1>3. /\ loc' \in [Workers -> Local] /\ loc'[w].i = 1 /\ loc'[w].wid = loc[w].wid
        /\ \A v \in Workers \ {w} : loc'[v] = loc[v]
    BY <1>1, SetIndex
  <1>4. LocalOK(w, "edition")'
    BY <1>1, <1>3, IdsKept DEF LocalOK
  <1> QED BY <1>1, <1>2, <1>3, <1>4, SaveRefOK

LEMMA TypeSaveEditionRef ==
  ASSUME TypeOK, NEW w \in Workers, SaveEditionRef(w)
  PROVE  TypeOK'
  <1> USE DEF Labels, InTransaction, WorkKnown, AtEdition, EditionKnown
  <1>1. /\ pc[w] = "saveEditionRef" /\ LocalOK(w, "saveEditionRef") /\ Goto(w, "saveLinks")
        /\ SaveRef(w, EdRef(w), "edition", loc[w].eid)
        /\ UNCHANGED <<works, editions, refs, links, syncLog, cache, nextId, started, job, loc>>
    BY Known DEF SaveEditionRef
  <1>2. EdRef(w) \in RefKey /\ loc[w].eid \in Ids
    BY <1>1, AnswerShape DEF LocalOK, EdRef, Ed, RefKey, Src, Ans
  <1>3. LocalOK(w, "saveLinks")'
    BY <1>1, IdsKept DEF LocalOK
  <1> QED BY <1>1, <1>2, <1>3, Known, SaveRefOK

LEMMA TypePutEdition ==
  ASSUME TypeOK, NEW w \in Workers, NEW id \in Ids, PutEdition(w, id),
         pc[w] \in {"updateEdition", "insertEdition"}
  PROVE  TypeOK'
  <1> USE DEF Labels, InTransaction, WorkKnown, AtEdition, EditionKnown
  <1> DEFINE row == loc[w].erow
             t == [tx[w] EXCEPT !.editions = Put(tx[w].editions, id, row)]
  <1>1. /\ LocalOK(w, pc[w]) /\ row \in EditionRow /\ Goto(w, "saveEditionRef")
        /\ UNCHANGED <<works, editions, refs, links, syncLog, cache, nextId, started, job, loc>>
    BY Known DEF PutEdition, LocalOK
  <1>2. tx' = [tx EXCEPT ![w] = t]
    BY DEF PutEdition
  <1>3. TransactionOK(w)
    BY Known
  <1>4. /\ t = [works |-> t.works, editions |-> t.editions, refs |-> t.refs, links |-> t.links]
        /\ t.editions = Put(tx[w].editions, id, row)
        /\ t.refs = tx[w].refs /\ t.works = tx[w].works /\ t.links = tx[w].links
    BY <1>3 DEF TransactionOK
  <1>5. TablesOK(t)
    BY <1>1, <1>3, <1>4, PutTable DEF TransactionOK, TablesOK
  <1>6. LocalOK(w, "saveEditionRef")'
    BY <1>1, IdsKept DEF LocalOK
  <1> HIDE DEF t, row
  <1> QED BY <1>1, <1>2, <1>4, <1>5, <1>6, Known, WriteStep

LEMMA TypeUpdateEdition ==
  ASSUME TypeOK, NEW w \in Workers, UpdateEdition(w)
  PROVE  TypeOK'
  <1> USE DEF Labels, InTransaction, WorkKnown, AtEdition, EditionKnown
  <1>1. pc[w] = "updateEdition" /\ LocalOK(w, "updateEdition") /\ loc[w].eid \in Ids
    BY Known DEF UpdateEdition, LocalOK
  <1>2. CASE Abort(w)
    BY <1>1, <1>2, TypeAbort
  <1>3. CASE PutEdition(w, loc[w].eid)
    BY <1>1, <1>3, TypePutEdition
  <1>4. CASE /\ Goto(w, "insertEdition")
             /\ UNCHANGED <<works, editions, refs, links, syncLog, cache, nextId, started, job, loc, tx>>
    <2>1. LocalOK(w, "insertEdition")'
      BY <1>1, <1>4, IdsKept DEF LocalOK
    <2> QED BY <1>4, <2>1, Known, ReadStep
  <1> QED BY <1>2, <1>3, <1>4 DEF UpdateEdition

LEMMA TypeInsertEdition ==
  ASSUME TypeOK, NEW w \in Workers, InsertEdition(w)
  PROVE  TypeOK'
  <1> USE DEF Labels, InTransaction, WorkKnown, AtEdition, EditionKnown
  <1>1. pc[w] = "insertEdition" /\ LocalOK(w, "insertEdition") /\ loc[w].eid \in Ids
    BY Known DEF InsertEdition, LocalOK
  <1>2. CASE Abort(w)
    BY <1>1, <1>2, TypeAbort
  <1>3. CASE \E id \in DOMAIN ViewEditions(w) \cup {loc[w].eid} : PutEdition(w, id)
    BY <1>1, <1>3, ViewsOK, TypePutEdition DEF IsTable
  <1> QED BY <1>2, <1>3 DEF InsertEdition

LEMMA TypeSaveLinks ==
  ASSUME TypeOK, NEW w \in Workers, SaveLinks(w)
  PROVE  TypeOK'
  <1> USE DEF Labels, InTransaction, WorkKnown, AtEdition, EditionKnown
  <1>1. pc[w] = "saveLinks" /\ LocalOK(w, "saveLinks") /\ loc[w].eid \in Ids
    BY Known DEF SaveLinks, LocalOK
  <1>2. CASE Abort(w)
    BY <1>1, <1>2, TypeAbort
  <1>3. CASE ~Abort(w)
    <2> DEFINE id == loc[w].eid
               more == {<<id, l>> : l \in Ed(w).links \cap AllowedLinks}
               t == [tx[w] EXCEPT !.links = tx[w].links \cup more]
    <2>1. /\ tx' = [tx EXCEPT ![w] = t]
          /\ Goto(w, "edition") /\ loc' = [loc EXCEPT ![w].i = @ + 1]
          /\ UNCHANGED <<works, editions, refs, links, syncLog, cache, nextId, started, job>>
      BY <1>3 DEF SaveLinks
    <2>2. loc[w].i + 1 \in Nat /\ loc[w].i + 1 > 0 /\ loc' = [loc EXCEPT ![w].i = loc[w].i + 1]
      BY <2>1, Known DEF Local
    <2>3. more \subseteq Ids \X LinkIds
      BY <1>1, AnswerShape DEF LocalOK, Ed, Ans, Src
    <2>4. TransactionOK(w)
      BY Known
    <2>5. /\ t = [works |-> t.works, editions |-> t.editions, refs |-> t.refs, links |-> t.links]
          /\ t.links = tx[w].links \cup more
          /\ t.refs = tx[w].refs /\ t.works = tx[w].works /\ t.editions = tx[w].editions
      BY <2>4 DEF TransactionOK
    <2>6. TablesOK(t)
      BY <2>3, <2>4, <2>5 DEF TransactionOK, TablesOK
    <2>7. LocalOK(w, "edition")'
      BY <1>1, <2>1, <2>2, IdsKept, SetIndex DEF LocalOK
    <2> HIDE DEF t
    <2> QED BY <2>1, <2>2, <2>5, <2>6, <2>7, SetIndex, WriteStep
  <1> QED BY <1>2, <1>3

-----------------------------------------------------------------------------
(* Type correctness: the steps at both ends of a sync. *)

LEMMA TypeStartSync ==
  ASSUME TypeOK, NEW w \in Workers, StartSync(w)
  PROVE  TypeOK'
  <1> USE DEF Labels, InTransaction, WorkKnown, AtEdition, EditionKnown
  <1>1. /\ pc[w] = "idle" /\ started < MaxSyncs /\ started' = started + 1 /\ Goto(w, "search")
        /\ UNCHANGED <<works, editions, refs, links, syncLog, cache, nextId, loc, tx>>
    BY DEF StartSync
  <1>2. PICK s \in Sources, id \in Ids \cup {None} : job' = [job EXCEPT ![w] = NewJob(s, id)]
    <2>1. DOMAIN works \subseteq Ids
      BY DEF TypeOK, SharedOK, TablesOK, IsTable
    <2> QED BY <2>1, JobShape DEF StartSync
  <1> DEFINE j == NewJob(s, id)
  <1>3. j.src = s /\ j.attach = id /\ j.ans = NoAnswer /\ j \in Job
    BY Known DEF NewJob, Job, None
  <1>4. /\ job' \in [Workers -> Job] /\ job'[w] = j
        /\ \A v \in Workers \ {w} : job'[v] = job[v]
    BY <1>2, <1>3 DEF TypeOK
  <1> HIDE DEF j
  <1>5. /\ pc' \in [Workers -> Labels] /\ pc'[w] = "search"
        /\ \A v \in Workers \ {w} : pc'[v] = pc[v]
    BY <1>1, Moves
  <1>6. OnlyMoves(w)
    BY <1>1, <1>4, <1>5 DEF OnlyMoves
  <1>7. LocalOK(w, "search")'
    BY <1>1, <1>3, <1>4, IdsKept DEF LocalOK
  <1>8. WorkerOK(w)'
    <2>1. nextId' \in Nat /\ nextId <= nextId' /\ tx'[w] = tx[w]
      BY <1>1, Known
    <2>2. TransactionOK(w)'
      BY <2>1, TransactionStays
    <2> QED BY <1>5, <1>7, <2>2 DEF WorkerOK, LocalOK
  <1>9. SharedOK'
    <2>1. SharedOK /\ started' \in 0..MaxSyncs
      BY <1>1, BoundShape DEF TypeOK, SharedOK
    <2> QED BY <1>1, <2>1, IdsKept DEF SharedOK, TablesOK, WorkRow, RefKey
  <1>10. loc' \in [Workers -> Local] /\ DOMAIN tx' = Workers
    BY <1>1 DEF TypeOK
  <1> QED BY <1>1, <1>4, <1>5, <1>6, <1>8, <1>9, <1>10, AnyStep

LEMMA TypeFindTopMatch ==
  ASSUME TypeOK, NEW w \in Workers, FindTopMatch(w)
  PROVE  TypeOK'
  <1> USE DEF Labels, InTransaction, WorkKnown, AtEdition, EditionKnown
  <1>1. /\ pc[w] = "search" /\ LocalOK(w, "search") /\ Goto(w, "check")
        /\ UNCHANGED <<works, editions, refs, links, syncLog, cache, nextId, started, loc, tx>>
    BY Known DEF FindTopMatch
  <1>2. PICK a \in Catalogue[Src(w)] : job' = [job EXCEPT ![w].ans = a]
    BY DEF FindTopMatch
  <1>3. job[w].src \in Sources /\ a \in AllAnswers /\ job[w] \in Job
    BY <1>1, AnswerShape DEF LocalOK, Src, TypeOK
  <1>4. /\ job' \in [Workers -> Job] /\ job'[w].ans = a
        /\ job'[w].src = job[w].src /\ job'[w].attach = job[w].attach
        /\ \A v \in Workers \ {w} : job'[v] = job[v]
    BY <1>2, <1>3 DEF TypeOK, Job
  <1>5. /\ pc' \in [Workers -> Labels] /\ pc'[w] = "check"
        /\ \A v \in Workers \ {w} : pc'[v] = pc[v]
    BY <1>1, Moves
  <1>6. OnlyMoves(w)
    BY <1>1, <1>4, <1>5 DEF OnlyMoves
  <1>7. LocalOK(w, "check")'
    BY <1>1, <1>2, <1>4, IdsKept DEF LocalOK, Src
  <1>8. WorkerOK(w)'
    <2>1. nextId' \in Nat /\ nextId <= nextId' /\ tx'[w] = tx[w]
      BY <1>1, Known
    <2>2. TransactionOK(w)'
      BY <2>1, TransactionStays
    <2> QED BY <1>5, <1>7, <2>2 DEF WorkerOK, LocalOK
  <1>9. SharedOK'
    BY <1>1, SharedStays
  <1>10. loc' \in [Workers -> Local] /\ DOMAIN tx' = Workers
    BY <1>1 DEF TypeOK
  <1> QED BY <1>1, <1>4, <1>5, <1>6, <1>8, <1>9, <1>10, AnyStep

LEMMA TypeInvalidateCache ==
  ASSUME TypeOK, NEW w \in Workers, InvalidateCache(w)
  PROVE  TypeOK'
  <1> USE DEF Labels, InTransaction, WorkKnown, AtEdition, EditionKnown
  <1>1. /\ pc[w] = "invalidate" /\ LocalOK(w, "invalidate") /\ Goto(w, "commit")
        /\ UNCHANGED <<works, editions, refs, links, syncLog, nextId, started, job, loc, tx>>
        /\ DOMAIN cache' \subseteq DOMAIN cache
    BY Known DEF InvalidateCache
  <1>2. /\ pc' \in [Workers -> Labels] /\ pc'[w] = "commit"
        /\ \A v \in Workers \ {w} : pc'[v] = pc[v]
    BY <1>1, Moves
  <1>3. OnlyMoves(w)
    BY <1>1, <1>2 DEF OnlyMoves
  <1>4. LocalOK(w, "commit")'
    BY <1>1, IdsKept DEF LocalOK
  <1>5. WorkerOK(w)'
    <2>1. nextId' \in Nat /\ nextId <= nextId' /\ tx'[w] = tx[w]
      BY <1>1, Known
    <2>2. TransactionOK(w)'
      BY <2>1, TransactionStays
    <2> QED BY <1>2, <1>4, <2>2 DEF WorkerOK, LocalOK
  <1>6. SharedOK'
    <2>1. SharedOK
      BY DEF TypeOK
    <2> QED BY <1>1, <2>1, IdsKept DEF SharedOK, TablesOK, WorkRow, RefKey
  <1>7. job' \in [Workers -> Job] /\ loc' \in [Workers -> Local] /\ DOMAIN tx' = Workers
    BY <1>1 DEF TypeOK
  <1> QED BY <1>1, <1>2, <1>3, <1>5, <1>6, <1>7, AnyStep

(* The transaction of w ends with well-typed tables.                       *)
LEMMA EndOfTransaction ==
  ASSUME TypeOK, NEW w \in Workers, NEW label \in Labels, Goto(w, label),
         tx' = [tx EXCEPT ![w] = NoTx], nextId' = nextId,
         job' \in [Workers -> Job], \A v \in Workers \ {w} : job'[v] = job[v],
         loc' \in [Workers -> Local], \A v \in Workers \ {w} : loc'[v] = loc[v],
         LocalOK(w, label)', SharedOK'
  PROVE  TypeOK'
  <1>1. /\ pc' \in [Workers -> Labels] /\ pc'[w] = label
        /\ \A v \in Workers \ {w} : pc'[v] = pc[v]
    BY Moves
  <1>2. DOMAIN tx' = Workers /\ tx'[w] = NoTx /\ \A v \in Workers \ {w} : tx'[v] = tx[v]
    BY DEF TypeOK
  <1>3. OnlyMoves(w)
    BY <1>1, <1>2 DEF OnlyMoves
  <1>4. TransactionOK(w)'
    <2>1. NoTx = [works |-> NoTx.works, editions |-> NoTx.editions,
                  refs |-> NoTx.refs, links |-> NoTx.links]
      BY DEF NoTx
    <2> QED BY <1>2, <2>1, NoTxOK, IdsKept DEF TransactionOK, TablesOK, WorkRow, RefKey
  <1>5. WorkerOK(w)'
    BY <1>1, <1>4 DEF WorkerOK, LocalOK
  <1> QED BY <1>1, <1>2, <1>3, <1>5, AnyStep

LEMMA TypeCommit ==
  ASSUME TypeOK, NEW w \in Workers, Commit(w)
  PROVE  TypeOK'
  <1> USE DEF Labels, InTransaction, WorkKnown, AtEdition, EditionKnown
  <1>1. /\ pc[w] = "commit" /\ LocalOK(w, "commit") /\ Goto(w, "log")
        /\ tx' = [tx EXCEPT ![w] = NoTx]
        /\ UNCHANGED <<syncLog, cache, nextId, started, job, loc>>
    BY Known DEF Commit
  <1>2. LocalOK(w, "log")'
    BY <1>1, IdsKept DEF LocalOK
  <1>3. SharedOK'
    <2>1. /\ IsTable(works', Ids, WorkRow) /\ IsTable(editions', Ids, EditionRow)
          /\ IsTable(refs', RefKey, RefRow)
      BY ViewsOK DEF Commit
    <2>2. links' \subseteq Ids \X LinkIds
      BY Known DEF Commit, TypeOK, SharedOK, TransactionOK, TablesOK
    <2>3. /\ syncLog \subseteq LogRow /\ \A k \in DOMAIN cache : k[1] \in Ids
          /\ started \in 0..MaxSyncs
      BY DEF TypeOK, SharedOK
    <2> QED BY <1>1, <2>1, <2>2, <2>3, IdsKept DEF SharedOK, TablesOK, WorkRow, RefKey
  <1>4. job' \in [Workers -> Job]
    BY <1>1 DEF TypeOK
  <1> QED BY <1>1, <1>2, <1>3, <1>4, Known, EndOfTransaction

(* A worker that gives its job back.                                       *)
LEMMA TypeReset ==
  ASSUME TypeOK, NEW w \in Workers, Reset(w), syncLog' \subseteq LogRow,
         UNCHANGED <<works, editions, refs, links, cache, nextId, started>>
  PROVE  TypeOK'
  <1> USE DEF Labels, InTransaction, WorkKnown, AtEdition, EditionKnown
  <1>1. /\ Goto(w, "idle") /\ tx' = [tx EXCEPT ![w] = NoTx]
        /\ job' = [job EXCEPT ![w] = NoJob] /\ loc' = [loc EXCEPT ![w] = NoLoc]
    BY DEF Reset
  <1>2. NoJob \in Job
    BY DEF NoJob, NewJob, Job, None
  <1>3. NoLoc \in Local
    BY DEF NoLoc, Local, None
  <1>4. /\ job' \in [Workers -> Job] /\ \A v \in Workers \ {w} : job'[v] = job[v]
        /\ loc' \in [Workers -> Local] /\ \A v \in Workers \ {w} : loc'[v] = loc[v]
    BY <1>1, <1>2, <1>3 DEF TypeOK
  <1>5. LocalOK(w, "idle")'
    BY DEF LocalOK
  <1>6. SharedOK'
    <2>1. SharedOK
      BY DEF TypeOK
    <2> QED BY <2>1, IdsKept DEF SharedOK, TablesOK, WorkRow, RefKey
  <1> QED BY <1>1, <1>4, <1>5, <1>6, EndOfTransaction

LEMMA TypeRecordSuccess ==
  ASSUME TypeOK, NEW w \in Workers, RecordSuccess(w)
  PROVE  TypeOK'
  <1> USE DEF Labels, InTransaction, WorkKnown, AtEdition, EditionKnown
  <1>1. pc[w] = "log" /\ LocalOK(w, "log")
    BY Known DEF RecordSuccess
  <1>2. CASE Abort(w)
    BY <1>1, <1>2, TypeAbort
  <1>3. CASE ~Abort(w)
    <2>1. /\ syncLog' = syncLog \cup {[src |-> Src(w), work |-> loc[w].wid, status |-> "ok"]}
          /\ Reset(w) /\ UNCHANGED <<works, editions, refs, links, cache, nextId, started>>
      BY <1>3 DEF RecordSuccess
    <2>2. syncLog' \subseteq LogRow
      BY <1>1, <2>1 DEF LocalOK, LogRow, Src, TypeOK, SharedOK
    <2> QED BY <2>1, <2>2, TypeReset
  <1> QED BY <1>2, <1>3

LEMMA TypeRecordError ==
  ASSUME TypeOK, NEW w \in Workers, RecordError(w)
  PROVE  TypeOK'
  <1> USE DEF Labels, InTransaction, WorkKnown, AtEdition, EditionKnown
  <1>1. /\ pc[w] = "failed" /\ LocalOK(w, "failed") /\ Reset(w)
        /\ syncLog' = syncLog \cup {[src |-> Src(w), work |-> None, status |-> "error"]}
        /\ UNCHANGED <<works, editions, refs, links, cache, nextId, started>>
    BY Known DEF RecordError
  <1>2. syncLog' \subseteq LogRow
    BY <1>1 DEF LocalOK, LogRow, Src, TypeOK, SharedOK
  <1> QED BY <1>1, <1>2, TypeReset

LEMMA TypeCrash ==
  ASSUME TypeOK, NEW w \in Workers, Crash(w)
  PROVE  TypeOK'
  <1>1. syncLog' \subseteq LogRow
    BY DEF Crash, TypeOK, SharedOK
  <1> QED BY <1>1, TypeReset DEF Crash

LEMMA TypeInit == Init => TypeOK
  <1> SUFFICES ASSUME Init PROVE TypeOK
    OBVIOUS
  <1> USE DEF Init
  <1>1. nextId \in Nat \ {0} /\ DOMAIN tx = Workers
    OBVIOUS
  <1>2. SharedOK
    <2>1. DOMAIN Empty = {}
      BY DEF Empty
    <2> QED BY <2>1, EmptyTable, BoundShape DEF SharedOK, TablesOK
  <1>3. pc \in [Workers -> Labels]
    BY DEF Labels
  <1>4. job \in [Workers -> Job]
    BY DEF NoJob, NewJob, Job, None
  <1>5. loc \in [Workers -> Local]
    BY DEF NoLoc, Local, None
  <1>6. ASSUME NEW w \in Workers PROVE WorkerOK(w)
    <2>1. tx[w] = NoTx /\ pc[w] = "idle"
      OBVIOUS
    <2>2. TransactionOK(w)
      BY <2>1, NoTxOK DEF TransactionOK, NoTx
    <2>3. LocalOK(w, "idle")
      BY DEF LocalOK, InTransaction, WorkKnown, AtEdition, EditionKnown
    <2> QED BY <2>1, <2>2, <2>3 DEF WorkerOK
  <1> QED BY <1>1, <1>2, <1>3, <1>4, <1>5, <1>6 DEF TypeOK

LEMMA TypeUnchanged == TypeOK /\ UNCHANGED vars => TypeOK'
  <1> SUFFICES ASSUME TypeOK, UNCHANGED vars PROVE TypeOK'
    OBVIOUS
  <1>1. ASSUME NEW w \in Workers PROVE WorkerOK(w)'
    BY WorkerStays DEF vars, TypeOK
  <1>2. SharedOK'
    BY SharedStays DEF vars
  <1> QED BY <1>1, <1>2 DEF vars, TypeOK, Job, Labels, Local

LEMMA TypeNext == TypeOK /\ SyncNext => TypeOK'
  <1> SUFFICES ASSUME TypeOK, NEW w \in Workers, SyncStep(w) PROVE TypeOK'
    BY DEF SyncNext
  <1>1. CASE StartSync(w)
    BY <1>1, TypeStartSync
  <1>2. CASE FindTopMatch(w) \/ CheckAnswer(w) \/ FetchDetails(w)
    BY <1>2, TypeFindTopMatch, TypeCheckAnswer, TypeFetchDetails
  <1>3. CASE Statement(w)
    BY <1>3, TypeFindWorkRef, TypeFindWorkByKey, TypeReadWorkSources, TypeReadWork,
       TypeSaveWork, TypeSaveWorkRef, TypeNextEdition, TypeFindEditionRef,
       TypeFindEditionByKey, TypeReadEditionSources, TypeReadEdition, TypeUpdateEdition,
       TypeInsertEdition, TypeSaveEditionRef, TypeSaveLinks, TypeInvalidateCache, TypeCommit
    DEF Statement
  <1>4. CASE RecordSuccess(w) \/ RecordError(w)
    BY <1>4, TypeRecordSuccess, TypeRecordError
  <1>5. CASE DeadlockAbort(w)
    <2>1. pc[w] # "idle"
      BY <1>5 DEF DeadlockAbort, InCycle, WaitsFor
    <2> QED BY <1>5, <2>1, TypeAbort DEF DeadlockAbort
  <1>6. CASE Fail(w)
    BY <1>6, TypeAbort DEF Fail, InTransaction
  <1>7. CASE Crash(w)
    BY <1>7, TypeCrash
  <1> QED BY <1>1, <1>2, <1>3, <1>4, <1>5, <1>6, <1>7 DEF SyncStep, Proceed

(* Every reachable state is well-typed, whatever the workers do.           *)
THEOREM TypeCorrect == SafeSpec => []TypeOK
  <1>1. TypeOK /\ [SyncNext]_vars => TypeOK'
    BY TypeUnchanged, TypeNext
  <1> QED BY <1>1, TypeInit, PTL DEF SafeSpec
=============================================================================
