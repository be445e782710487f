------------------------------ MODULE SyncWork ------------------------------
(***************************************************************************)
(* SyncWorkFromSource: the use case that copies one book of one source     *)
(* into Postgres, run by several queue workers at once.                    *)
(*                                                                         *)
(* A sync asks its source for one work, then runs ONE transaction that     *)
(* resolves the work, upserts it, its external_ref, every edition with its *)
(* external_ref and links, invalidates the cached pages and commits; then  *)
(* it writes sync_log.  Each statement of the transaction is an action.    *)
(*                                                                         *)
(* Postgres runs READ COMMITTED: a statement sees the committed rows and   *)
(* the rows its own transaction wrote (View...), a write that meets        *)
(* another open transaction's row or unique key waits for it (WaitsFor),   *)
(* a cycle of waits aborts one of them (DeadlockAbort), and a violated     *)
(* constraint aborts the transaction (Abort).                              *)
(***************************************************************************)
EXTENDS Naturals, Sequences

CONSTANTS
  Workers,      \* queue consumers running syncs concurrently
  Catalogue,    \* Catalogue[s]: the answers source s may give about a work
  Discovering,  \* sources asked "which book is this" (no attachToWorkId)
  Attaching,    \* sources asked about a known work (attachToWorkId set)
  SameBook,     \* pairs of natural keys isPlausibleSameWork accepts
  AllowedLinks, \* candidate links LinkPolicy accepts
  MaxSyncs      \* bound: how many syncs are started

(***************************************************************************)
(* An answer describes a work: its external id, its natural key (the hash  *)
(* of title and author) and its editions.  An edition has an external id,  *)
(* a printing k, whether k is an ISBN (identity across works) or a         *)
(* description (identity inside one work), whether its language parses,    *)
(* and its candidate links.                                                *)
(***************************************************************************)
Sources == DOMAIN Catalogue
AllAnswers == UNION {Catalogue[s] : s \in Sources}
Offered == UNION {{a.eds[i] : i \in 1..Len(a.eds)} : a \in AllAnswers}
WorkKeys == {a.key : a \in AllAnswers}
Exts == {a.ext : a \in AllAnswers} \cup {e.ext : e \in Offered}
Printings == {e.k : e \in Offered}
LinkIds == UNION {e.links : e \in Offered}

ASSUME CatalogueShape ==
  \A a \in AllAnswers :
    a = [ext |-> a.ext, key |-> a.key, eds |-> a.eds] /\ a.eds \in Seq(Offered)
ASSUME JobShape == Discovering \subseteq Sources /\ Attaching \subseteq Sources
ASSUME BoundShape == MaxSyncs \in Nat

None == 0         \* no id: idGenerator's ids start at 1

VARIABLES
  works,     \* table work:         id -> [key, by]        (by: whose metadata)
  editions,  \* table edition:      id -> [work, key, by]
  refs,      \* table external_ref: <<source, ext>> -> [type, id]
  links,     \* table source_link:  set of <<edition id, link>>
  syncLog,   \* table sync_log:     set of [src, work, status]
  cache,     \* Redis:              <<work id, route>> -> cached response
  nextId,    \* idGenerator
  started,   \* how many syncs were started
  pc,        \* the statement each worker runs next
  job,       \* what it syncs:      [src, attach, ans]
  loc,       \* its local variables [wid, row, i, eid, erow]
  tx         \* its open transaction's uncommitted writes

tables == <<works, editions, refs, links>>
local == <<pc, job, loc, tx>>
vars == <<works, editions, refs, links, syncLog, cache, nextId, started,
          pc, job, loc, tx>>

Empty == << >>    \* the empty table

(* The rows of table new over those of old, and one row put in a table.    *)
(* (@@ and :> of module TLC, which the provers do not know.)               *)
Over(new, old) ==
  [x \in DOMAIN new \cup DOMAIN old |-> IF x \in DOMAIN new THEN new[x] ELSE old[x]]
Put(table, x, row) ==
  [y \in DOMAIN table \cup {x} |-> IF y = x THEN row ELSE table[y]]

NoTx == [works |-> Empty, editions |-> Empty, refs |-> Empty, links |-> {}]
NoRow == [key |-> "none", by |-> "none"]
NoEdition == [work |-> None, key |-> <<None, "none">>, by |-> "none"]
NoAnswer == [ext |-> "none", key |-> "none", eds |-> << >>]
NewJob(s, id) == [src |-> s, attach |-> id, ans |-> NoAnswer]
NoJob == NewJob("none", None)
NoLoc == [wid |-> None, row |-> NoRow, i |-> 0, eid |-> None, erow |-> NoEdition]

-----------------------------------------------------------------------------
(* What a statement of worker w's transaction sees. *)

ViewWorks(w) == Over(tx[w].works, works)
ViewEditions(w) == Over(tx[w].editions, editions)
ViewRefs(w) == Over(tx[w].refs, refs)

(* computeEditionNaturalKey: the ISBN when there is one, else a hash in    *)
(* which the work's id takes part.                                         *)
EditionKey(wid, e) == IF e.isbn THEN <<None, e.k>> ELSE <<wid, e.k>>

(* SOURCE_PRIORITY.metadata; the library catalogues are absent on purpose. *)
MetadataPriority == <<"open-library", "google-books", "wikidata">>
Ranked == {MetadataPriority[r] : r \in 1..Len(MetadataPriority)}
Outranks(s, t) ==
  \E p, q \in 1..Len(MetadataPriority) :
    p < q /\ MetadataPriority[p] = s /\ MetadataPriority[q] = t

(* Mutant: the last source to answer writes the row. *)
LastWins(known, s) == {s}

(* resolveFieldConflict over [...known, s]: the best ranked source, else   *)
(* the first one given, and `known' comes from a SELECT DISTINCT without   *)
(* an ORDER BY, so any of them may be first.                               *)
Winners(known, s) ==
  LET ranked == (known \cup {s}) \cap Ranked
  IN IF ranked # {} THEN {t \in ranked : \A u \in ranked : ~Outranks(u, t)}
     ELSE IF known # {} THEN known ELSE {s}

(* findSourcesForEntity matches entity_id alone, whatever the entity_type. *)
SourcesOf(table, id) == {k[1] : k \in {r \in DOMAIN table : table[r].id = id}}

Src(w) == job[w].src
Ans(w) == job[w].ans
WorkRef(w) == <<Src(w), Ans(w).ext>>
Ed(w) == Ans(w).eds[loc[w].i]
EdRef(w) == <<Src(w), Ed(w).ext>>
EdKey(w) == EditionKey(loc[w].wid, Ed(w))

(* The rows and unique keys another open transaction holds that w's next   *)
(* write needs: a row it wrote, and the key of that row before or after.   *)
(* Mutant of HoldsWork: natural_key has no unique index. *)
HoldsWorkRow(v, id, key) == id \in DOMAIN tx[v].works
HoldsWork(v, id, key) ==
  \E x \in DOMAIN tx[v].works : x = id \/ tx[v].works[x].key = key
HoldsEditionKey(v, key) ==
  \E x \in DOMAIN tx[v].editions :
    \/ tx[v].editions[x].key = key
    \/ x \in DOMAIN editions /\ editions[x].key = key
HoldsEdition(v, id) == id \in DOMAIN tx[v].editions

(* Mutant of WaitsFor: no constraint sees another open transaction. *)
NeverWaits(w) == {}
WaitsFor(w) ==
  {v \in Workers \ {w} :
     CASE pc[w] = "saveWork" -> HoldsWork(v, loc[w].wid, loc[w].row.key)
       [] pc[w] = "saveWorkRef" -> WorkRef(w) \in DOMAIN tx[v].refs
       [] pc[w] = "updateEdition" ->
            /\ loc[w].eid \in DOMAIN ViewEditions(w)
            /\ HoldsEdition(v, loc[w].eid) \/ HoldsEditionKey(v, loc[w].erow.key)
       [] pc[w] = "insertEdition" ->
            HoldsEdition(v, loc[w].eid) \/ HoldsEditionKey(v, loc[w].erow.key)
       [] pc[w] = "saveEditionRef" -> EdRef(w) \in DOMAIN tx[v].refs
       [] OTHER -> FALSE}

Goto(w, label) == pc' = [pc EXCEPT ![w] = label]

InTransaction == {"findWorkRef", "findWorkByKey", "workSources", "readWork",
                  "saveWork", "saveWorkRef", "edition", "findEditionRef",
                  "findEditionByKey", "editionSources", "readEdition",
                  "updateEdition", "insertEdition", "saveEditionRef",
                  "saveLinks", "invalidate", "commit"}
Labels == InTransaction \cup {"idle", "search", "check", "fetch", "log", "failed"}

(* Mutant of Abort: the statements are not one transaction. *)
AbortKeeping(w) ==
  /\ Goto(w, "failed")
  /\ works' = ViewWorks(w) /\ editions' = ViewEditions(w)
  /\ refs' = ViewRefs(w) /\ links' = links \cup tx[w].links
  /\ tx' = [tx EXCEPT ![w] = NoTx]
  /\ UNCHANGED <<syncLog, cache, nextId, started, job, loc>>

(* ROLLBACK: the open transaction's writes are dropped, and the catch      *)
(* block of execute runs.                                                  *)
Abort(w) ==
  /\ Goto(w, "failed")
  /\ tx' = [tx EXCEPT ![w] = NoTx]
  /\ UNCHANGED <<works, editions, refs, links, syncLog, cache, nextId, started,
                 job, loc>>

-----------------------------------------------------------------------------
(* Before the transaction: which book, and is it the right one.            *)

Init ==
  /\ works = Empty /\ editions = Empty /\ refs = Empty /\ links = {}
  /\ syncLog = {} /\ cache = Empty
  /\ nextId = 1 /\ started = 0
  /\ pc = [w \in Workers |-> "idle"]
  /\ job = [w \in Workers |-> NoJob]
  /\ loc = [w \in Workers |-> NoLoc]
  /\ tx = [w \in Workers |-> NoTx]

(* A queue worker takes a job.  An attaching job names a work a search     *)
(* found earlier; a redelivered or retried job is a job taken again.       *)
StartSync(w) ==
  /\ pc[w] = "idle"
  /\ started < MaxSyncs
  /\ \/ \E s \in Discovering : job' = [job EXCEPT ![w] = NewJob(s, None)]
     \/ \E s \in Attaching, id \in DOMAIN works :
          job' = [job EXCEPT ![w] = NewJob(s, id)]
  /\ started' = started + 1
  /\ Goto(w, "search")
  /\ UNCHANGED <<works, editions, refs, links, syncLog, cache, nextId, loc, tx>>

(* findTopMatch: the source's best answer. *)
FindTopMatch(w) ==
  /\ pc[w] = "search"
  /\ \E a \in Catalogue[Src(w)] : job' = [job EXCEPT ![w].ans = a]
  /\ Goto(w, "check")
  /\ UNCHANGED <<works, editions, refs, links, syncLog, cache, nextId, started,
                 loc, tx>>

(* answersAboutWork: an attaching sync drops an answer about another book. *)
(* A work id that no longer resolves is no objection.                      *)
CheckAnswer(w) ==
  /\ pc[w] = "check"
  /\ LET id == job[w].attach
     IN Goto(w, IF id \in DOMAIN works /\ <<works[id].key, Ans(w).key>> \notin SameBook
                THEN "failed" ELSE "fetch")
  /\ UNCHANGED <<works, editions, refs, links, syncLog, cache, nextId, started,
                 job, loc, tx>>

(* fetchEditions and fetchWorkDetails have answered; BEGIN. *)
FetchDetails(w) ==
  /\ pc[w] = "fetch"
  /\ Goto(w, "findWorkRef")
  /\ UNCHANGED <<works, editions, refs, links, syncLog, cache, nextId, started,
                 job, loc, tx>>

-----------------------------------------------------------------------------
(* The work. *)

(* attachToWorkId wins, then the id external_ref holds, whatever it holds. *)
FindWorkRef(w) ==
  /\ pc[w] = "findWorkRef"
  /\ LET ref == WorkRef(w)
     IN IF job[w].attach # None
        THEN Goto(w, "readWork") /\ loc' = [loc EXCEPT ![w].wid = job[w].attach]
        ELSE IF ref \in DOMAIN ViewRefs(w)
        THEN Goto(w, "workSources") /\ loc' = [loc EXCEPT ![w].wid = ViewRefs(w)[ref].id]
        ELSE Goto(w, "findWorkByKey") /\ UNCHANGED loc
  /\ UNCHANGED <<works, editions, refs, links, syncLog, cache, nextId, started,
                 job, tx>>

(* Mutants of FindWorkByKey: an id handed out twice; no look at the keys. *)
FindWorkByKeySameId(w) ==
  /\ pc[w] = "findWorkByKey"
  /\ loc' = [loc EXCEPT ![w].wid = nextId]
  /\ Goto(w, "workSources")
  /\ UNCHANGED <<works, editions, refs, links, syncLog, cache, nextId, started, job, tx>>
AlwaysNewWork(w) ==
  /\ pc[w] = "findWorkByKey"
  /\ loc' = [loc EXCEPT ![w].wid = nextId] /\ nextId' = nextId + 1
  /\ Goto(w, "workSources")
  /\ UNCHANGED <<works, editions, refs, links, syncLog, cache, started, job, tx>>

(* Else the row with the same natural key, else a new id. *)
FindWorkByKey(w) ==
  /\ pc[w] = "findWorkByKey"
  /\ LET same == {id \in DOMAIN ViewWorks(w) : ViewWorks(w)[id].key = Ans(w).key}
     IN IF same = {}
        THEN loc' = [loc EXCEPT ![w].wid = nextId] /\ nextId' = nextId + 1
        ELSE \E id \in same : loc' = [loc EXCEPT ![w].wid = id] /\ UNCHANGED nextId
  /\ Goto(w, "workSources")
  /\ UNCHANGED <<works, editions, refs, links, syncLog, cache, started, job, tx>>

(* shouldApplyMetadata for the work: the row is written with this answer,  *)
(* or read and kept.                                                       *)
ReadWorkSources(w) ==
  /\ pc[w] = "workSources"
  /\ \E t \in Winners(SourcesOf(ViewRefs(w), loc[w].wid), Src(w)) :
       IF t = Src(w)
       THEN /\ loc' = [loc EXCEPT ![w].row = [key |-> Ans(w).key, by |-> Src(w)]]
            /\ Goto(w, "saveWork")
       ELSE Goto(w, "readWork") /\ UNCHANGED loc
  /\ UNCHANGED <<works, editions, refs, links, syncLog, cache, nextId, started,
                 job, tx>>

(* findById, `?? Work.create': a row that is not there is written anew. *)
ReadWork(w) ==
  /\ pc[w] = "readWork"
  /\ LET id == loc[w].wid
     IN loc' = [loc EXCEPT ![w].row =
                  IF id \in DOMAIN ViewWorks(w) THEN ViewWorks(w)[id]
                  ELSE [key |-> Ans(w).key, by |-> Src(w)]]
  /\ Goto(w, "saveWork")
  /\ UNCHANGED <<works, editions, refs, links, syncLog, cache, nextId, started,
                 job, tx>>

(* INSERT INTO work .. ON CONFLICT (natural_key) DO UPDATE, id excluded:   *)
(* a row with this key is updated under ITS id; a row with this id and     *)
(* another key is a primary key violation.                                 *)
SaveWork(w) ==
  LET row == loc[w].row
      same == {id \in DOMAIN ViewWorks(w) : ViewWorks(w)[id].key = row.key}
      PutWork(id) ==
        /\ tx' = [tx EXCEPT ![w].works = Put(@, id, row)]
        /\ Goto(w, "saveWorkRef")
        /\ UNCHANGED <<works, editions, refs, links, syncLog, cache, nextId,
                       started, job, loc>>
  IN /\ pc[w] = "saveWork"
     /\ WaitsFor(w) = {}
     /\ \/ \E id \in same : PutWork(id)
        \/ same = {} /\ loc[w].wid \notin DOMAIN ViewWorks(w) /\ PutWork(loc[w].wid)
        \/ same = {} /\ loc[w].wid \in DOMAIN ViewWorks(w) /\ Abort(w)

(* external_ref is upserted with the id the use case resolved, not the one *)
(* the row was stored under.                                               *)
SaveRef(w, ref, type, id) ==
  tx' = [tx EXCEPT ![w].refs = Put(@, ref, [type |-> type, id |-> id])]

SaveWorkRef(w) ==
  /\ pc[w] = "saveWorkRef"
  /\ WaitsFor(w) = {}
  /\ SaveRef(w, WorkRef(w), "work", loc[w].wid)
  /\ loc' = [loc EXCEPT ![w].i = 1]
  /\ Goto(w, "edition")
  /\ UNCHANGED <<works, editions, refs, links, syncLog, cache, nextId, started, job>>

-----------------------------------------------------------------------------
(* The editions, one after the other. *)

(* An edition whose language does not parse is skipped. *)
NextEdition(w) ==
  /\ pc[w] = "edition"
  /\ IF loc[w].i > Len(Ans(w).eds) THEN Goto(w, "invalidate") /\ UNCHANGED loc
     ELSE IF Ed(w).parses THEN Goto(w, "findEditionRef") /\ UNCHANGED loc
     ELSE loc' = [loc EXCEPT ![w].i = @ + 1] /\ UNCHANGED pc
  /\ UNCHANGED <<works, editions, refs, links, syncLog, cache, nextId, started,
                 job, tx>>

(* The id external_ref holds for this external id, whatever it stands for. *)
FindEditionRef(w) ==
  /\ pc[w] = "findEditionRef"
  /\ LET ref == EdRef(w)
     IN IF ref \in DOMAIN ViewRefs(w)
        THEN loc' = [loc EXCEPT ![w].eid = ViewRefs(w)[ref].id] /\ Goto(w, "editionSources")
        ELSE Goto(w, "findEditionByKey") /\ UNCHANGED loc
  /\ UNCHANGED <<works, editions, refs, links, syncLog, cache, nextId, started,
                 job, tx>>

(* Mutants of FindEditionByKey: any edition of the work will do; no look   *)
(* at the keys.                                                            *)
FindEditionOfWork(w) ==
  /\ pc[w] = "findEditionByKey"
  /\ LET same == {id \in DOMAIN ViewEditions(w) : ViewEditions(w)[id].work = loc[w].wid}
     IN IF same = {}
        THEN loc' = [loc EXCEPT ![w].eid = nextId] /\ nextId' = nextId + 1
        ELSE \E id \in same : loc' = [loc EXCEPT ![w].eid = id] /\ UNCHANGED nextId
  /\ Goto(w, "editionSources")
  /\ UNCHANGED <<works, editions, refs, links, syncLog, cache, started, job, tx>>
AlwaysNewEdition(w) ==
  /\ pc[w] = "findEditionByKey"
  /\ loc' = [loc EXCEPT ![w].eid = nextId] /\ nextId' = nextId + 1
  /\ Goto(w, "editionSources")
  /\ UNCHANGED <<works, editions, refs, links, syncLog, cache, started, job, tx>>

(* Else the row with the same natural key, else a new id. *)
FindEditionByKey(w) ==
  /\ pc[w] = "findEditionByKey"
  /\ LET same == {id \in DOMAIN ViewEditions(w) : ViewEditions(w)[id].key = EdKey(w)}
     IN IF same = {}
        THEN loc' = [loc EXCEPT ![w].eid = nextId] /\ nextId' = nextId + 1
        ELSE \E id \in same : loc' = [loc EXCEPT ![w].eid = id] /\ UNCHANGED nextId
  /\ Goto(w, "editionSources")
  /\ UNCHANGED <<works, editions, refs, links, syncLog, cache, started, job, tx>>

NewEdition(w) == [work |-> loc[w].wid, key |-> EdKey(w), by |-> Src(w)]

(* shouldApplyMetadata for the edition. *)
ReadEditionSources(w) ==
  /\ pc[w] = "editionSources"
  /\ \E t \in Winners(SourcesOf(ViewRefs(w), loc[w].eid), Src(w)) :
       IF t = Src(w)
       THEN loc' = [loc EXCEPT ![w].erow = NewEdition(w)] /\ Goto(w, "updateEdition")
       ELSE Goto(w, "readEdition") /\ UNCHANGED loc
  /\ UNCHANGED <<works, editions, refs, links, syncLog, cache, nextId, started,
                 job, tx>>

ReadEdition(w) ==
  /\ pc[w] = "readEdition"
  /\ LET id == loc[w].eid
     IN loc' = [loc EXCEPT ![w].erow =
                  IF id \in DOMAIN ViewEditions(w) THEN ViewEditions(w)[id] ELSE NewEdition(w)]
  /\ Goto(w, "updateEdition")
  /\ UNCHANGED <<works, editions, refs, links, syncLog, cache, nextId, started,
                 job, tx>>

(* edition.work_id references work. *)
NoForeignKey(w, row) == TRUE     \* mutant
WorkExists(w, row) == row.work \in DOMAIN ViewWorks(w)

(* Mutant of PutEdition: every sync signs the row, written or kept. *)
PutSigned(w, id) ==
  /\ tx' = [tx EXCEPT ![w].editions = Put(@, id, [loc[w].erow EXCEPT !.by = Src(w)])]
  /\ Goto(w, "saveEditionRef")
  /\ UNCHANGED <<works, editions, refs, links, syncLog, cache, nextId, started, job, loc>>
PutEdition(w, id) ==
  /\ tx' = [tx EXCEPT ![w].editions = Put(@, id, loc[w].erow)]
  /\ Goto(w, "saveEditionRef")
  /\ UNCHANGED <<works, editions, refs, links, syncLog, cache, nextId, started, job, loc>>

(* UPDATE edition .. WHERE id: natural_key is among the columns set, so    *)
(* another row holding that key is a violation, and so is a missing work.  *)
UpdateEdition(w) ==
  LET id == loc[w].eid
      row == loc[w].erow
      clash == \E x \in DOMAIN ViewEditions(w) \ {id} : ViewEditions(w)[x].key = row.key
  IN /\ pc[w] = "updateEdition"
     /\ WaitsFor(w) = {}
     /\ IF id \notin DOMAIN ViewEditions(w)
        THEN /\ Goto(w, "insertEdition")
             /\ UNCHANGED <<works, editions, refs, links, syncLog, cache, nextId,
                            started, job, loc, tx>>
        ELSE IF clash \/ ~WorkExists(w, row) THEN Abort(w)
        ELSE PutEdition(w, id)

(* INSERT .. ON CONFLICT (natural_key) DO UPDATE, id excluded. *)
InsertEdition(w) ==
  LET id == loc[w].eid
      row == loc[w].erow
      same == {x \in DOMAIN ViewEditions(w) : ViewEditions(w)[x].key = row.key}
  IN /\ pc[w] = "insertEdition"
     /\ WaitsFor(w) = {}
     /\ IF ~WorkExists(w, row) THEN Abort(w)
        ELSE \/ \E x \in same : PutEdition(w, x)
             \/ same = {} /\ id \notin DOMAIN ViewEditions(w) /\ PutEdition(w, id)
             \/ same = {} /\ id \in DOMAIN ViewEditions(w) /\ Abort(w)

SaveEditionRef(w) ==
  /\ pc[w] = "saveEditionRef"
  /\ WaitsFor(w) = {}
  /\ SaveRef(w, EdRef(w), "edition", loc[w].eid)
  /\ Goto(w, "saveLinks")
  /\ UNCHANGED <<works, editions, refs, links, syncLog, cache, nextId, started,
                 job, loc>>

(* syncLinks: LinkPolicy drops a link without failing the sync; a link of  *)
(* an edition row that is not there is a foreign key violation.            *)
SaveLinks(w) ==
  LET offered == Ed(w).links \cap AllowedLinks
      id == loc[w].eid
  IN /\ pc[w] = "saveLinks"
     /\ IF offered # {} /\ id \notin DOMAIN ViewEditions(w) THEN Abort(w)
        ELSE /\ tx' = [tx EXCEPT ![w].links = @ \cup {<<id, l>> : l \in offered}]
             /\ loc' = [loc EXCEPT ![w].i = @ + 1]
             /\ Goto(w, "edition")
             /\ UNCHANGED <<works, editions, refs, links, syncLog, cache, nextId,
                            started, job>>

-----------------------------------------------------------------------------
(* The end of the sync. *)

(* cache.deleteByPrefix, still INSIDE the transaction. *)
InvalidateCache(w) ==
  /\ pc[w] = "invalidate"
  /\ cache' = [k \in {c \in DOMAIN cache : c[1] # loc[w].wid} |-> cache[k]]
  /\ Goto(w, "commit")
  /\ UNCHANGED <<works, editions, refs, links, syncLog, nextId, started, job,
                 loc, tx>>

(* Mutant of Commit: the answer replaces the editions the work had. *)
CommitReplacing(w) ==
  /\ pc[w] = "commit"
  /\ works' = ViewWorks(w) /\ refs' = ViewRefs(w) /\ links' = links \cup tx[w].links
  /\ editions' = [e \in {x \in DOMAIN ViewEditions(w) :
                          x \in DOMAIN tx[w].editions \/ editions[x].work # loc[w].wid}
                    |-> ViewEditions(w)[e]]
  /\ tx' = [tx EXCEPT ![w] = NoTx]
  /\ Goto(w, "log")
  /\ UNCHANGED <<syncLog, cache, nextId, started, job, loc>>
Commit(w) ==
  /\ pc[w] = "commit"
  /\ works' = ViewWorks(w) /\ editions' = ViewEditions(w)
  /\ refs' = ViewRefs(w) /\ links' = links \cup tx[w].links
  /\ tx' = [tx EXCEPT ![w] = NoTx]
  /\ Goto(w, "log")
  /\ UNCHANGED <<syncLog, cache, nextId, started, job, loc>>

Reset(w) ==
  /\ Goto(w, "idle")
  /\ job' = [job EXCEPT ![w] = NoJob]
  /\ loc' = [loc EXCEPT ![w] = NoLoc]
  /\ tx' = [tx EXCEPT ![w] = NoTx]

(* sync_log.work_id references work: logging success for an id no row has  *)
(* fails, and the catch block then reports the committed sync as an error. *)
RecordSuccess(w) ==
  /\ pc[w] = "log"
  /\ IF loc[w].wid \in DOMAIN works
     THEN /\ syncLog' = syncLog \cup {[src |-> Src(w), work |-> loc[w].wid, status |-> "ok"]}
          /\ Reset(w)
          /\ UNCHANGED <<works, editions, refs, links, cache, nextId, started>>
     ELSE Abort(w)

RecordError(w) ==
  /\ pc[w] = "failed"
  /\ syncLog' = syncLog \cup {[src |-> Src(w), work |-> None, status |-> "error"]}
  /\ Reset(w)
  /\ UNCHANGED <<works, editions, refs, links, cache, nextId, started>>

(* The source has no match or does not answer, or Postgres or Redis fails  *)
(* a statement.                                                            *)
Fail(w) ==
  /\ pc[w] \in InTransaction \cup {"search", "fetch"}
  /\ Abort(w)

(* The worker process dies: Postgres rolls its transaction back. *)
Crash(w) ==
  /\ pc[w] # "idle"
  /\ Reset(w)
  /\ UNCHANGED <<works, editions, refs, links, syncLog, cache, nextId, started>>

(* Postgres' deadlock detector aborts a transaction on a cycle of waits.   *)
NoDetector(w) == FALSE           \* mutant of InCycle
InCycle(w) ==
  \E S \in SUBSET Workers :
    /\ w \in S
    /\ \A v \in S : WaitsFor(v) \cap S # {} /\ \E u \in S : v \in WaitsFor(u)
DeadlockAbort(w) == InCycle(w) /\ Abort(w)

-----------------------------------------------------------------------------

Statement(w) ==
  \/ FindWorkRef(w) \/ FindWorkByKey(w) \/ ReadWorkSources(w) \/ ReadWork(w)
  \/ SaveWork(w) \/ SaveWorkRef(w)
  \/ NextEdition(w) \/ FindEditionRef(w) \/ FindEditionByKey(w)
  \/ ReadEditionSources(w) \/ ReadEdition(w) \/ UpdateEdition(w)
  \/ InsertEdition(w) \/ SaveEditionRef(w) \/ SaveLinks(w)
  \/ InvalidateCache(w) \/ Commit(w)

(* What a worker with a job does unless something breaks. *)
Proceed(w) ==
  \/ FindTopMatch(w) \/ CheckAnswer(w) \/ FetchDetails(w)
  \/ Statement(w) \/ RecordSuccess(w) \/ RecordError(w)

SyncStep(w) ==
  StartSync(w) \/ Proceed(w) \/ DeadlockAbort(w) \/ Fail(w) \/ Crash(w)

SyncNext == \E w \in Workers : SyncStep(w)

(* Node keeps running a job it started and Postgres answers or detects the *)
(* deadlock; nobody is obliged to enqueue, fail or crash.                  *)
Fairness == \A w \in Workers : WF_vars(Proceed(w)) /\ WF_vars(DeadlockAbort(w))

(* A calm system: a worker process may die, but sources, Postgres and      *)
(* Redis answer, so a sync that fails was refused by the schema itself.    *)
CalmNext ==
  \E w \in Workers : StartSync(w) \/ Proceed(w) \/ DeadlockAbort(w) \/ Crash(w)
CalmSpec == Init /\ [][CalmNext]_vars

SafeSpec == Init /\ [][SyncNext]_vars
Spec == SafeSpec /\ Fairness

-----------------------------------------------------------------------------
(* Types. *)

Ids == 1..(nextId - 1)

(* A table holds rows R under keys D. *)
IsTable(f, D, R) == DOMAIN f \subseteq D /\ \A x \in DOMAIN f : f[x] \in R

WorkRow == [key : WorkKeys, by : Sources]
EditionRow == [work : Ids, key : Nat \X Printings, by : Sources]
RefRow == [type : {"work", "edition"}, id : Ids]
RefKey == Sources \X Exts
LogRow == [src : Sources, work : Ids \cup {None}, status : {"ok", "error"}]
Job == [src : Sources \cup {"none"}, attach : Nat, ans : AllAnswers \cup {NoAnswer}]
Local == [wid : Nat, row : WorkRow \cup {NoRow}, i : Nat, eid : Nat,
          erow : [work : Nat, key : Nat \X Printings, by : Sources] \cup {NoEdition}]

TablesOK(t) ==
  /\ IsTable(t.works, Ids, WorkRow) /\ IsTable(t.editions, Ids, EditionRow)
  /\ IsTable(t.refs, RefKey, RefRow) /\ t.links \subseteq Ids \X LinkIds

(* The statements after the work's id, and after an edition's, is known.   *)
WorkKnown == (InTransaction \ {"findWorkRef", "findWorkByKey"}) \cup {"log"}
EditionKnown == {"editionSources", "readEdition", "updateEdition", "insertEdition",
                 "saveEditionRef", "saveLinks"}
AtEdition == EditionKnown \cup {"findEditionRef", "findEditionByKey"}

TransactionOK(w) ==
  /\ tx[w] = [works |-> tx[w].works, editions |-> tx[w].editions,
              refs |-> tx[w].refs, links |-> tx[w].links]
  /\ TablesOK(tx[w])

(* What worker w knows when it has reached label. *)
LocalOK(w, label) ==
  /\ label # "idle" => job[w].src \in Sources /\ job[w].attach \in Ids \cup {None}
  /\ label \in InTransaction \cup {"check", "fetch", "log"} => job[w].ans \in Catalogue[job[w].src]
  /\ label \in WorkKnown => loc[w].wid \in Ids
  /\ label = "saveWork" => loc[w].row \in WorkRow
  /\ label = "edition" => loc[w].i > 0
  /\ label \in AtEdition => loc[w].i \in 1..Len(job[w].ans.eds)
  /\ label \in EditionKnown => loc[w].eid \in Ids
  /\ label \in {"updateEdition", "insertEdition"} => loc[w].erow \in EditionRow

WorkerOK(w) == TransactionOK(w) /\ LocalOK(w, pc[w])

SharedOK ==
  /\ TablesOK([works |-> works, editions |-> editions, refs |-> refs, links |-> links])
  /\ syncLog \subseteq LogRow
  /\ \A k \in DOMAIN cache : k[1] \in Ids
  /\ started \in 0..MaxSyncs

TypeOK ==
  /\ nextId \in Nat \ {0}
  /\ SharedOK
  /\ pc \in [Workers -> Labels] /\ job \in [Workers -> Job] /\ loc \in [Workers -> Local]
  /\ DOMAIN tx = Workers
  /\ \A w \in Workers : WorkerOK(w)

-----------------------------------------------------------------------------
(* Safety. *)

(* What the committed tables promise, as a specification of its own.       *)
Catalog == INSTANCE BookCatalog WITH
  works <- works, editions <- editions, refs <- refs, links <- links,
  Catalogue <- Catalogue, AllowedLinks <- AllowedLinks

(* No two rows of a table share a natural key, whatever syncs run at once: *)
(* concurrent discoveries of one book never leave two works of it.         *)
KeysUnique == Catalog!Unique(works) /\ Catalog!Unique(editions)

(* Every edition belongs to a work, every link to an edition, and every    *)
(* sync logged as a success to a work, whatever syncs run, fail or crash.  *)
OwnersExist ==
  /\ \A e \in DOMAIN editions : editions[e].work \in DOMAIN works
  /\ \A l \in links : l[1] \in DOMAIN editions
  /\ \A r \in syncLog : r.status = "ok" => r.work \in DOMAIN works

(* Why both hold.  Inside an open transaction the owners exist and the     *)
(* keys are unique already; two open transactions share no row and no key, *)
(* since the second one waits; and a work row keeps the key it has.        *)
OpenOwnersExist(t, ws, es) ==
  /\ \A e \in DOMAIN t.editions : t.editions[e].work \in DOMAIN t.works \cup DOMAIN ws
  /\ \A l \in t.links : l[1] \in DOMAIN t.editions \cup DOMAIN es
OpenKeysUnique(t, ws, es) ==
  /\ Catalog!Unique(Over(t.works, ws)) /\ Catalog!Unique(Over(t.editions, es))
  /\ \A x \in DOMAIN t.works \cap DOMAIN ws : t.works[x].key = ws[x].key
OpenOK(t, ws, es) == OpenOwnersExist(t, ws, es) /\ OpenKeysUnique(t, ws, es)
Disjoint(f, g) ==
  \A x \in DOMAIN f, y \in DOMAIN g : x # y /\ f[x].key # g[y].key
Isolated(t, u) == Disjoint(t.works, u.works) /\ Disjoint(t.editions, u.editions)

Safe ==
  /\ OwnersExist /\ KeysUnique
  /\ \A w \in Workers : OpenOK(tx[w], works, editions)
  /\ \A v, w \in Workers : v # w => Isolated(tx[v], tx[w])

(* What an open transaction t has written of answer a of source s: the     *)
(* names and links of its editions before position i, and no row, name or  *)
(* link of anything else, the rows `fresh' still to be named excepted.     *)
Named(s, t, e, id) == <<s, e.ext>> \in DOMAIN t.refs /\ t.refs[<<s, e.ext>>].id = id
WritesOnly(s, a, t, fresh) ==
  /\ DOMAIN t.refs \subseteq Catalog!Names(s, a)
  /\ \A x \in DOMAIN t.editions \ fresh :
       \E e \in Catalog!Listed(a) : Named(s, t, e, x) \/ t.editions[x].key[2] = e.k
  /\ \A l \in t.links :
       \E e \in Catalog!Listed(a) : Named(s, t, e, l[1]) /\ l[2] \in e.links \cap AllowedLinks
WritesAll(s, a, t, i) ==
  /\ <<s, a.ext>> \in DOMAIN t.refs
  /\ \A j \in 1..Len(a.eds) :
       LET e == a.eds[j]
       IN e.parses /\ j < i =>
            /\ <<s, e.ext>> \in DOMAIN t.refs
            /\ \A l \in e.links \cap AllowedLinks : <<t.refs[<<s, e.ext>>].id, l>> \in t.links

BeforeWork == {"idle", "search", "check", "fetch", "findWorkRef", "findWorkByKey",
               "workSources", "readWork", "saveWork", "log", "failed"}
AfterWork == AtEdition \cup {"edition", "invalidate", "commit"}

(* At an edition, its id is the one its name has; a row that is new or met *)
(* by its key is one of this edition.                                      *)
AtWork(w) ==
  /\ pc[w] \in AtEdition => Ed(w).parses
  /\ pc[w] = "findEditionByKey" => EdRef(w) \notin DOMAIN tx[w].refs
  /\ pc[w] \in EditionKnown /\ EdRef(w) \in DOMAIN tx[w].refs => tx[w].refs[EdRef(w)].id = loc[w].eid
  /\ pc[w] = "saveLinks" => EdRef(w) \in DOMAIN tx[w].refs
  /\ pc[w] = "updateEdition" /\ loc[w].eid \notin DOMAIN ViewEditions(w) => loc[w].erow.key[2] = Ed(w).k
  /\ pc[w] = "insertEdition" => loc[w].erow.key[2] = Ed(w).k
  /\ pc[w] \in {"invalidate", "commit"} => loc[w].i > Len(Ans(w).eds)

Unnamed(w) == {id \in {loc[w].eid} : pc[w] = "saveEditionRef"}
AnswerOK(w) ==
  /\ pc[w] \in BeforeWork => tx[w] = NoTx
  /\ pc[w] \notin BeforeWork => \E id \in DOMAIN tx[w].works : DOMAIN tx[w].works = {id}
  /\ pc[w] = "saveWorkRef" =>
       DOMAIN tx[w].editions = {} /\ DOMAIN tx[w].refs = {} /\ tx[w].links = {}
  /\ pc[w] \in AfterWork =>
       /\ WritesOnly(Src(w), Ans(w), tx[w], Unnamed(w)) /\ WritesAll(Src(w), Ans(w), tx[w], loc[w].i)
       /\ AtWork(w)
Written == \A w \in Workers : AnswerOK(w)

Inv == TypeOK /\ Safe /\ Written

(* Every external_ref points at a row of the kind it names, so the next    *)
(* sync of that source finds the book again.                               *)
RefsResolve ==
  \A r \in DOMAIN refs :
    refs[r].id \in IF refs[r].type = "work" THEN DOMAIN works ELSE DOMAIN editions

(* Metadata is replaced only by a source that no source known for the row  *)
(* outranks (SOURCE_PRIORITY.metadata).                                    *)
Yields(old, new) ==
  \A id \in DOMAIN old : new[id].by # old[id].by => ~Outranks(old[id].by, new[id].by)
PriorityRespected == [][Yields(works, works') /\ Yields(editions, editions')]_vars

(* A committed work or edition keeps its id, and a work keeps the natural  *)
(* key it has: bookmarks and resolved searches hold the id.                *)
IdsStable ==
  [][/\ \A id \in DOMAIN works : id \in DOMAIN works' /\ works'[id].key = works[id].key
     /\ DOMAIN editions \subseteq DOMAIN editions']_vars

(* The answer is in the database already. *)
Stored(s, a) ==
  LET wref == <<s, a.ext>>
  IN /\ wref \in DOMAIN refs /\ refs[wref].id \in DOMAIN works
     /\ \A e \in Catalog!Listed(a) :
          LET eref == <<s, e.ext>>
          IN /\ eref \in DOMAIN refs /\ refs[eref].id \in DOMAIN editions
             /\ \A l \in e.links \cap AllowedLinks : <<refs[eref].id, l>> \in links

(* "The handler must be correct when re-run at any point": syncing an      *)
(* answer that is stored already changes no row, and the schema refuses    *)
(* none of a sync's writes, so no sync fails for good.                     *)
RerunIsCorrect ==
  [][\A w \in Workers :
       /\ pc[w] = "commit" /\ pc'[w] = "log" /\ Stored(Src(w), Ans(w)) => UNCHANGED tables
       /\ pc[w] \in InTransaction \cup {"log"} => pc'[w] # "failed"]_vars

(* external_ref links our id to the id one source has for the entity: an   *)
(* edition's ref leads to the row whose natural key is that edition's.     *)
EditionsKeptApart ==
  \A s \in Sources : \A a \in Catalogue[s] : \A e \in Catalog!Listed(a) :
    LET r == <<s, e.ext>>
    IN r \in DOMAIN refs /\ refs[r].id \in DOMAIN editions =>
         LET row == editions[refs[r].id] IN row.key = EditionKey(row.work, e)

(* Why both hold of one worker at a time: it finds the row the ref of its  *)
(* answer leads to, or the one with its key, or there is none and it makes *)
(* one.  A source's id has to stand for a work or for one printing.        *)
WorksApart ==
  \A s \in Sources : \A a, b \in Catalogue[s] : \A e \in Catalog!Listed(b) : a.ext # e.ext
OnePrintingEach ==
  \A s \in Sources : \A a, b \in Catalogue[s] : \A e \in Catalog!Listed(a), f \in Catalog!Listed(b) :
    e.ext = f.ext => e.isbn = f.isbn /\ e.k = f.k

Fits(row, e) == row.key = EditionKey(row.work, e)
LeadsTo(r, ref, ws, es) ==
  \/ /\ ref.type = "work" /\ ref.id \in DOMAIN ws
     /\ \E a \in Catalogue[r[1]] : a.ext = r[2]
  \/ /\ ref.type = "edition" /\ ref.id \in DOMAIN es
     /\ \E a \in Catalogue[r[1]] : \E e \in Catalog!Listed(a) : e.ext = r[2] /\ Fits(es[ref.id], e)
TablesLead(rs, ws, es) ==
  /\ \A r \in DOMAIN rs : LeadsTo(r, rs[r], ws, es)
  /\ \A x \in DOMAIN es : es[x].key[1] \in {None, es[x].work}

WorkFound(w) ==
  LET id == loc[w].wid
      row == loc[w].row
      ws == ViewWorks(w)
  IN /\ job[w].attach # None => job[w].attach \in DOMAIN works
     /\ pc[w] \in {"workSources", "readWork", "saveWork"} /\ id \notin DOMAIN ws =>
          \A x \in DOMAIN ws : ws[x].key # Ans(w).key
     /\ pc[w] = "saveWork" /\ id \notin DOMAIN ws => row.key = Ans(w).key
     /\ pc[w] = "saveWorkRef" => id \in DOMAIN ws
EditionFound(w) ==
  LET id == loc[w].eid
      row == loc[w].erow
      es == ViewEditions(w)
  IN /\ pc[w] \in {"editionSources", "readEdition", "updateEdition", "insertEdition"} =>
          IF id \in DOMAIN es THEN Fits(es[id], Ed(w)) ELSE \A x \in DOMAIN es : es[x].key # EdKey(w)
     /\ pc[w] \in {"updateEdition", "insertEdition"} =>
          /\ row.key[1] \in {None, row.work} /\ Fits(row, Ed(w))
          /\ id \notin DOMAIN es => row.key = EdKey(w)
     /\ pc[w] = "insertEdition" => id \notin DOMAIN es
     /\ pc[w] = "saveEditionRef" => id \in DOMAIN es /\ Fits(es[id], Ed(w))
Leads(w) ==
  /\ TablesLead(refs, works, editions)
  /\ TablesLead(ViewRefs(w), ViewWorks(w), ViewEditions(w))
CalmInv == \A w \in Workers : Leads(w) /\ WorkFound(w) /\ EditionFound(w)

(* Seen from outside, the committed tables change only by whole            *)
(* publications, whatever the workers interleave, fail or crash in.        *)
PublishesWhole == Catalog!Spec

-----------------------------------------------------------------------------
(* Liveness. *)

(* Every sync ends: no lock wait, however syncs interleave, is forever.    *)
SyncsEnd == \A w \in Workers : pc[w] # "idle" ~> pc[w] = "idle"

=============================================================================
