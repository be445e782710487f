------------------------------ MODULE Shelves ------------------------------
(***************************************************************************)
(* The lists of books that fill themselves: the home page (GetFeaturedBooks*)
(* with and without the reader's language) and a genre's page              *)
(* (BrowseBySubject).  A page shows what the catalogue has, queues deferred*)
(* backfill jobs for what it lacks, and is cached for a short time while   *)
(* something is missing.  A job is one step of a worker here; what happens *)
(* in it is Backfill's.                                                    *)
(***************************************************************************)
EXTENDS Naturals, Sequences, FiniteSets

CONSTANTS
  FEATURED_BOOKS,  \* the curated books, in order
  Subject,         \* what the subject source lists, in order; one subject
  Findable,        \* books some source knows
  PageKinds,       \* "home", "home-ru", "genre"
  MAX_BACKFILL_PER_REQUEST,
  ThinThreshold,   \* IN_LANGUAGE_THIN_THRESHOLD, THIN_RESULT_THRESHOLD
  JobTries,           \* attempts of a job
  MaxOutages       \* bound: failures of a source, a job or the API

(* The first entries must not all be books nobody finds: they keep their   *)
(* places in every request.                                                *)
Entries == {FEATURED_BOOKS[i] : i \in DOMAIN FEATURED_BOOKS}
OfSubject == {Subject[i] : i \in DOMAIN Subject}
ASSUME ShelvesAssumption ==
  /\ MaxOutages \in Nat /\ JobTries \in Nat \ {0}
  /\ Cardinality(Entries \ Findable) < MAX_BACKFILL_PER_REQUEST
  /\ Cardinality(OfSubject \cap Findable) >= ThinThreshold

VARIABLES
  visited,         \* the pages readers come to
  catalog,         \* works stored
  pages,           \* cache: page -> [books, filling], or NoPage
  asking,          \* page -> the request for it: [pc, seen, todo]
  shelfJobs, shelfWait, shelfPrioritized,
  outages
shelfVars == <<visited, catalog, pages, asking, shelfJobs, shelfWait, shelfPrioritized, outages>>

Books == Entries \cup OfSubject
Jobs == {"backfill-featured", "backfill-subject"} \X Books
Worker == "worker"
Queue == INSTANCE JobQueue WITH
  JobIds <- Jobs, Payloads <- {"query"}, Consumers <- {Worker}, MaxAttempts <- JobTries,
  jobs <- shelfJobs, wait <- shelfWait, prioritized <- shelfPrioritized
queue == <<shelfJobs, shelfWait, shelfPrioritized>>

NoPage == [books |-> {}, filling |-> FALSE, there |-> FALSE]
NoRequest == [pc |-> "idle", seen |-> {}, todo |-> {}]

-----------------------------------------------------------------------------
(* What a request still has to queue are places in the two lists, and a     *)
(* place's job; it goes through them in order, the subject's first.         *)
JobAt(place) == <<place[1], IF place[1] = "backfill-subject" THEN Subject[place[2]] ELSE FEATURED_BOOKS[place[2]]>>
Before(p, q) == IF p[1] = q[1] THEN p[2] < q[2] ELSE p[1] = "backfill-subject"

Missing(seen) == {i \in DOMAIN FEATURED_BOOKS : FEATURED_BOOKS[i] \notin seen}
(* Mutant: of the first books of the list, those that are missing. *)
MissingOfFirst(seen) == {i \in Missing(seen) : i <= MAX_BACKFILL_PER_REQUEST}
(* missing.slice(0, MAX_BACKFILL_PER_REQUEST) *)
FirstMissing(seen) ==
  {i \in Missing(seen) : Cardinality({j \in Missing(seen) : j <= i}) <= MAX_BACKFILL_PER_REQUEST}

Lists(page) == (IF page = "genre" THEN {} ELSE Entries)
                 \cup (IF page = "home" THEN {} ELSE OfSubject)
Thin(page, seen) == page # "home" /\ Cardinality(OfSubject \cap seen) < ThinThreshold
Filling(page, seen) == (page # "genre" /\ ~Entries \subseteq seen) \/ Thin(page, seen)

(* All the subject source lists, those already stored included. *)
MoreOfSubject(page, seen) == IF Thin(page, seen) THEN DOMAIN Subject ELSE {}

(* A page that is not cached reads the catalogue and, of a thin subject,   *)
(* asks the source, whose failure is swallowed.                            *)
ReadShelf(page) ==
  /\ page \in visited /\ ~pages[page].there /\ asking[page].pc = "idle"
  /\ \E more \in {TRUE, FALSE} :
       /\ more \/ (Thin(page, catalog) /\ outages > 0)
       /\ outages' = IF more THEN outages ELSE outages - 1
       /\ asking' = [asking EXCEPT ![page] =
            [pc |-> "queueing", seen |-> catalog,
             todo |-> ({"backfill-subject"} \X (IF more THEN MoreOfSubject(page, catalog) ELSE {}))
                        \cup ({"backfill-featured"} \X (IF page = "genre" THEN {} ELSE FirstMissing(catalog)))]]
  /\ UNCHANGED <<visited, catalog, pages, queue>>

QueueNext(page) ==
  /\ asking[page].pc = "queueing"
  /\ \E place \in asking[page].todo :
       /\ \A other \in asking[page].todo : ~Before(other, place)
       /\ Queue!Enqueue(JobAt(place), "query", TRUE)
       /\ asking' = [asking EXCEPT ![page].todo = @ \ {place}]
  /\ UNCHANGED <<visited, catalog, pages, outages>>

(* A subject's job is refused: its other books are not asked for now. *)
RefuseSubject(page) ==
  LET featured == {place \in asking[page].todo : place[1] = "backfill-featured"}
  IN /\ featured # asking[page].todo /\ outages > 0
     /\ outages' = outages - 1
     /\ asking' = [asking EXCEPT ![page].todo = featured]
     /\ UNCHANGED <<visited, catalog, pages, queue>>

(* The answer is kept, for FILLING_TTL_SECONDS while something is missing. *)
AnswerPage(page) ==
  LET r == asking[page]
  IN /\ r.pc = "queueing" /\ r.todo = {}
     /\ pages' = [pages EXCEPT ![page] =
          [books |-> r.seen \cap Lists(page), filling |-> Filling(page, r.seen), there |-> TRUE]]
     /\ asking' = [asking EXCEPT ![page] = NoRequest]
     /\ UNCHANGED <<visited, catalog, outages, queue>>

(* The API dies, or Redis refuses a job of the curated list. *)
AskingFails(page) ==
  /\ asking[page].pc = "queueing" /\ outages > 0
  /\ outages' = outages - 1
  /\ asking' = [asking EXCEPT ![page] = NoRequest]
  /\ UNCHANGED <<visited, catalog, pages, queue>>

PageExpires(page) ==
  /\ pages[page].there
  /\ pages' = [pages EXCEPT ![page] = NoPage]
  /\ UNCHANGED <<visited, catalog, asking, outages, queue>>

-----------------------------------------------------------------------------
(* The worker: ProcessBackfillJob, one job at a time.                      *)
Running == {id \in Jobs : Queue!Owns(Worker, id)}
TakeJob ==
  /\ Running = {} /\ \E id \in Jobs : Queue!Take(Worker, id)
  /\ UNCHANGED <<visited, catalog, pages, asking, outages>>

(* The book's works are stored, or no source knows it. *)
Backfilled ==
  \E id \in Running :
    /\ catalog' = catalog \cup ({id[2]} \cap Findable)
    /\ Queue!Complete(Worker, id)
    /\ UNCHANGED <<visited, pages, asking, outages>>

BackfillFails ==
  /\ outages > 0 /\ outages' = outages - 1
  /\ \E id \in Running : Queue!FailAttempt(Worker, id)
  /\ UNCHANGED <<visited, catalog, pages, asking>>

JobBackoff(id) == Queue!BackoffOver(id) /\ UNCHANGED <<visited, catalog, pages, asking, outages>>

(* removeOnComplete and removeOnFail: finished jobs are forgotten in bulk. *)
Finished(id) == shelfJobs[id].state \in {"completed", "failed"}
ForgetFinished ==
  /\ \E id \in Jobs : Finished(id)
  /\ shelfJobs' = [id \in Jobs |-> IF Finished(id) THEN Queue!Absent ELSE shelfJobs[id]]
  /\ UNCHANGED <<visited, catalog, pages, asking, shelfWait, shelfPrioritized, outages>>

ShelvesInit ==
  /\ visited \in SUBSET PageKinds /\ catalog = {} /\ outages \in 0..MaxOutages
  /\ pages = [k \in PageKinds |-> NoPage]
  /\ asking = [k \in PageKinds |-> NoRequest]
  /\ Queue!QueueInit
ShelvesNext ==
  \/ \E page \in PageKinds : ReadShelf(page) \/ QueueNext(page) \/ RefuseSubject(page)
                           \/ AnswerPage(page) \/ AskingFails(page) \/ PageExpires(page)
  \/ TakeJob \/ Backfilled \/ BackfillFails \/ ForgetFinished
  \/ \E id \in Jobs : JobBackoff(id)

ShelvesSpec == ShelvesInit /\ [][ShelvesNext]_shelfVars

(* Readers keep coming, caches and retained jobs expire, the worker runs;  *)
(* nothing else keeps the plain list of the queue from being empty.        *)
ShelvesFairness ==
  /\ \A page \in PageKinds : WF_shelfVars(ReadShelf(page)) /\ WF_shelfVars(QueueNext(page))
                           /\ WF_shelfVars(AnswerPage(page)) /\ WF_shelfVars(PageExpires(page))
  /\ WF_shelfVars(TakeJob) /\ WF_shelfVars(Backfilled) /\ WF_shelfVars(ForgetFinished)
  /\ WF_shelfVars(\E id \in Jobs : JobBackoff(id))

ShelvesTypeOK ==
  /\ visited \subseteq PageKinds /\ catalog \subseteq Findable /\ outages \in 0..MaxOutages
  /\ \A k \in PageKinds : pages[k].books \subseteq Books /\ pages[k].filling \in BOOLEAN
  /\ Queue!QueueTypeOK /\ Queue!QueueConsistent

(* A fresh instance fills itself: after some visits every page shows every *)
(* curated book that some source knows, and the subject's lists are no     *)
(* longer thin ("fills itself in over the first few minutes",              *)
(* get-featured-books.use-case.ts:91-94).                                  *)
Filled(page) ==
  pages[page].there =>
    /\ page # "genre" => Entries \cap Findable \subseteq pages[page].books
    /\ ~Thin(page, pages[page].books)
ShelfFills == \A page \in PageKinds : <>[]Filled(page)
=============================================================================
