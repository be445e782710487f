------------------------------- MODULE Search -------------------------------
(***************************************************************************)
(* The reader's side of lazy backfill (ADR-0003): the SearchBox, which     *)
(* sends a search, polls while it is pending and gives up after a while;   *)
(* and SearchWorks behind GET /api/search, whose awaits are separate steps *)
(* here, so backfill jobs run between them.                                *)
(***************************************************************************)
EXTENDS Backfill

CONSTANTS
  Requests,     \* bound: searches in flight at once
  Stored,       \* the sets of works Postgres may hold at first
  Confident,    \* <<query, source, work>>: that source's titles match it surely
  Weak,         \* <<query, work>>: found but doubted (rank, conflicting numbers)
  MaxPolls,     \* MAX_POLL_ATTEMPTS
  MaxActs       \* bound: submits, browsed pages, edits after the first

ASSUME SearchAssumption ==
  /\ MaxPolls \in Nat /\ "none" \notin Requests /\ \A stored \in Stored : stored \subseteq Works

VARIABLES
  shelf,        \* Redis: query -> the answer cached, [work, weak]
  req,          \* request -> [pc, query, work, known, status, attempt]
  box,          \* the SearchBox: [kind, attempt, text, submitted, shown, timer, latest]
  acts

searchVars == <<shelf, req, box, acts>>
allVars == <<backfillVars, searchVars>>

NoAnswer == [work |-> NoWork, weak |-> FALSE]
Free == [pc |-> "free", query |-> NoPayload, work |-> NoWork, known |-> "no",
         status |-> "none", attempt |-> 0]
NoRequest == "none"

SearchInit ==
  /\ BackfillInit(Stored)
  /\ shelf = [q \in Queries |-> NoAnswer]
  /\ req = [r \in Requests |-> Free]
  /\ box = [kind |-> "idle", attempt |-> 0, text |-> NoPayload, submitted |-> NoPayload,
            shown |-> NoPayload, timer |-> FALSE, latest |-> NoRequest]
  /\ acts = 0

-----------------------------------------------------------------------------
(* SearchWorks.execute for request r. *)

SureHits(q) == {x \in db : \E s \in attached[x] : <<q, s, x>> \in Confident}
DoubtedHits(q) == {x \in db : <<q, x>> \in Weak}
Step(r, pc) == req' = [req EXCEPT ![r].pc = pc]
Hit(r, pc, x) == req' = [req EXCEPT ![r] = [req[r] EXCEPT !.pc = pc, !.work = x]]
Answer(r, status, x) ==
  req' = [req EXCEPT ![r] = [req[r] EXCEPT !.pc = "answered", !.status = status, !.work = x]]
At(r, pc) == req[r].pc = pc
Asked(r) == req[r].query

ReadResults(r) ==
  /\ At(r, "results")
  /\ IF shelf[Asked(r)] # NoAnswer THEN Answer(r, "found", shelf[Asked(r)].work)
     ELSE Step(r, "search")
  /\ UNCHANGED <<backfillVars, shelf, box, acts>>

(* The best hit is confident, or doubted, or there is none. *)
SearchText(r) ==
  LET sure == SureHits(Asked(r))
      doubted == DoubtedHits(Asked(r))
  IN /\ At(r, "search")
     /\ \/ \E x \in sure : Hit(r, "cacheStrong", x)
        \/ sure = {} /\ \E x \in doubted : Hit(r, "question", x)
        \/ sure = {} /\ doubted = {} /\ Step(r, "resolved")
     /\ UNCHANGED <<backfillVars, shelf, box, acts>>

(* A weak best match is served and questioned. *)
QuestionHit(r) ==
  /\ At(r, "question")
  /\ Enqueue(SearchJob(Asked(r)), Asked(r), FALSE)
  /\ Step(r, "cacheWeak")
  /\ UNCHANGED <<db, attached, answers, consumer, faults, shelf, box, acts>>

CacheResults(r) ==
  /\ At(r, "cacheStrong") \/ At(r, "cacheWeak")
  /\ shelf' = [shelf EXCEPT ![Asked(r)] = [work |-> req[r].work, weak |-> At(r, "cacheWeak")]]
  /\ Answer(r, "found", req[r].work)
  /\ UNCHANGED <<backfillVars, box, acts>>

(* Mutant: matching text is the only way to an answer. *)
ReadResolvedNever(r) ==
  /\ At(r, "resolved") /\ Step(r, "negative")
  /\ UNCHANGED <<backfillVars, shelf, box, acts>>

ReadResolved(r) ==
  /\ At(r, "resolved")
  /\ IF resolved[Asked(r)] # NoWork THEN Answer(r, "found", resolved[Asked(r)])
     ELSE Step(r, "negative")
  /\ UNCHANGED <<backfillVars, shelf, box, acts>>

ReadNegative(r) ==
  /\ At(r, "negative")
  /\ IF negative[Asked(r)] # "no" THEN Answer(r, "not_found", NoWork) ELSE Step(r, "enqueue")
  /\ UNCHANGED <<backfillVars, shelf, box, acts>>

EnqueueMiss(r) ==
  /\ At(r, "enqueue")
  /\ Enqueue(SearchJob(Asked(r)), Asked(r), FALSE)
  /\ Answer(r, "pending", NoWork)
  /\ UNCHANGED <<db, attached, answers, consumer, faults, shelf, box, acts>>

Serve(r) ==
  \/ ReadResults(r) \/ SearchText(r) \/ QuestionHit(r) \/ CacheResults(r)
  \/ ReadResolved(r) \/ ReadNegative(r) \/ EnqueueMiss(r)

-----------------------------------------------------------------------------
(* The SearchBox. *)

Type(q) ==
  /\ box.text # q /\ (acts < MaxActs \/ box.text = NoPayload)
  /\ box' = [box EXCEPT !.text = q, !.timer = box.kind = "pending"]
  /\ acts' = IF box.text = NoPayload THEN acts ELSE acts + 1
  /\ UNCHANGED <<backfillVars, shelf, req>>

(* runSearch: a new request supersedes the one in flight. *)
Send(r, q, attempt) ==
  /\ At(r, "free")
  /\ req' = [req EXCEPT ![r] = [pc |-> "results", query |-> q, work |-> NoWork, known |-> Known(q),
                                status |-> "none", attempt |-> attempt]]

Submit ==
  /\ acts < MaxActs /\ box.text # NoPayload /\ box.kind # "loading"
  /\ \E r \in Requests :
       /\ Send(r, box.text, 0)
       /\ box' = [box EXCEPT !.kind = "loading", !.submitted = box.text, !.timer = FALSE,
                             !.latest = r]
  /\ acts' = acts + 1
  /\ UNCHANGED <<backfillVars, shelf>>

(* The 3 s timer of the effect, which closes over the text in the box. *)
Poll ==
  /\ box.kind = "pending" /\ box.timer
  /\ \E r \in Requests :
       /\ Send(r, box.text, box.attempt + 1)
       /\ box' = [box EXCEPT !.timer = FALSE, !.latest = r]
  /\ UNCHANGED <<backfillVars, shelf, acts>>

(* Mutant: the poll loop has no cap, and old answers are not dropped. *)
ReceiveForever(r) ==
  /\ At(r, "answered")
  /\ req' = [req EXCEPT ![r] = Free]
  /\ box' = IF req[r].status # "pending"
            THEN [box EXCEPT !.kind = req[r].status, !.attempt = 0, !.shown = req[r].query]
            ELSE [box EXCEPT !.kind = "pending", !.attempt = req[r].attempt, !.timer = TRUE]
  /\ UNCHANGED <<backfillVars, shelf, acts>>

Show(kind, attempt, timer, shown) ==
  box' = [box EXCEPT !.kind = kind, !.attempt = attempt, !.timer = timer, !.shown = shown,
                     !.latest = NoRequest]

(* The answer of a superseded request is dropped. *)
Receive(r) ==
  LET pending == req[r].status = "pending"
  IN /\ At(r, "answered")
     /\ req' = [req EXCEPT ![r] = Free]
     /\ \/ box.latest # r /\ UNCHANGED box
        \/ box.latest = r /\ ~pending /\ Show(req[r].status, 0, box.timer, req[r].query)
        \/ box.latest = r /\ pending /\ req[r].attempt >= MaxPolls
             /\ Show("timed_out", 0, box.timer, box.shown)
        \/ box.latest = r /\ pending /\ req[r].attempt < MaxPolls
             /\ Show("pending", req[r].attempt, TRUE, req[r].query)
     /\ UNCHANGED <<backfillVars, shelf, acts>>

(* The request fails on its way. *)
Lose(r) ==
  /\ req[r].pc \notin {"free", "answered"} /\ faults < MaxFaults
  /\ faults' = faults + 1
  /\ req' = [req EXCEPT ![r] = [req[r] EXCEPT !.pc = "answered", !.status = "error"]]
  /\ UNCHANGED <<queueVars, db, attached, answers, consumer, shelf, box, acts>>

-----------------------------------------------------------------------------
(* A genre or featured page queues what it lacks. *)
Browse(q) ==
  /\ acts < MaxActs
  /\ Enqueue(PageJob(q), q, TRUE)
  /\ acts' = acts + 1
  /\ UNCHANGED <<db, attached, answers, consumer, faults, shelf, req, box>>

-----------------------------------------------------------------------------
(* Time.  One poll session is at most MaxPolls * 3 s = 90 s: longer than   *)
(* the 60 s a completed job or a weak answer is kept, shorter than the     *)
(* 5 min of a failed job, the 10 min of a strong answer, the 15 min or the *)
(* day of a negative or resolved one.  A request is far shorter than any   *)
(* of these.                                                               *)

Session == box.kind \in {"loading", "pending"} \/ \E r \in Requests : ~At(r, "free")
Served(r) == req[r].pc \notin {"free", "answered"}
Serving == \E r \in Requests : Served(r)

ForgetJob(id) ==
  /\ ~Serving
  /\ Age(id, IF Session THEN {"completed"} ELSE {"completed", "failed"})
  /\ UNCHANGED <<db, attached, answers, consumer, faults, searchVars>>

Fresh(q) ==
  \/ Session
  \/ \E id \in JobIds : id.query = q /\ jobs[id].state = "completed"
  \/ \E c \in Consumers : consumer[c].query = q /\ consumer[c].pc = "enrich"

ForgetAnswer(q) ==
  /\ ~Serving
  /\ \/ /\ shelf[q] # NoAnswer /\ (shelf[q].weak \/ ~Session)
        /\ shelf' = [shelf EXCEPT ![q] = NoAnswer] /\ UNCHANGED answers
     \/ /\ resolved[q] # NoWork /\ ~Fresh(q)
        /\ resolved' = [resolved EXCEPT ![q] = NoWork] /\ UNCHANGED <<shelf, negative>>
     \/ /\ negative[q] # "no" /\ ~Fresh(q)
        /\ negative' = [negative EXCEPT ![q] = "no"] /\ UNCHANGED <<shelf, resolved>>
  /\ UNCHANGED <<queueVars, db, attached, consumer, faults, req, box, acts>>

-----------------------------------------------------------------------------

WorkerStep(c) ==
  \/ BeginJob(c) /\ UNCHANGED searchVars
  \/ AskSource(c) /\ UNCHANGED searchVars
  \/ MarkResolved(c) /\ UNCHANGED searchVars
  \/ Enrich(c) /\ UNCHANGED searchVars
  \/ GiveUp(c) /\ UNCHANGED searchVars
  \/ FinishJob(c) /\ UNCHANGED searchVars
  \/ Die(c) /\ UNCHANGED searchVars

QueueStep(id) ==
  \/ LoseLock(id) /\ UNCHANGED searchVars
  \/ Requeue(id) /\ UNCHANGED searchVars
  \/ ForgetJob(id)

ReaderStep ==
  \/ \E q \in Queries : Type(q)
  \/ \E q \in Queries : PageJob(q) \in JobIds /\ Browse(q)
  \/ Submit \/ Poll
  \/ \E r \in Requests : Receive(r) \/ Lose(r)

SearchNext ==
  \/ \E c \in Consumers : WorkerStep(c)
  \/ \E id \in JobIds : QueueStep(id)
  \/ \E q \in Queries : ForgetAnswer(q)
  \/ \E r \in Requests : Serve(r)
  \/ ReaderStep

SearchSpec == SearchInit /\ [][SearchNext]_allVars

-----------------------------------------------------------------------------

(* Types. *)
ReqOK(r) ==
  /\ r \in [pc : {"free", "results", "search", "question", "cacheStrong", "cacheWeak", "resolved",
                "negative", "enqueue", "answered"},
           query : Queries \cup {NoPayload}, work : Works \cup {NoWork},
           known : {"found", "not_found", "no"},
           status : {"none", "found", "not_found", "pending", "error"}, attempt : 0..MaxPolls]
  /\ r.pc # "free" => r.query \in Queries
  /\ r.pc = "answered" => r.status # "none"
BoxOK ==
  /\ box \in [kind : {"idle", "loading", "pending", "found", "not_found", "timed_out", "error"},
             attempt : 0..MaxPolls, text : Queries \cup {NoPayload},
             submitted : Queries \cup {NoPayload}, shown : Queries \cup {NoPayload},
             timer : BOOLEAN, latest : Requests \cup {NoRequest}]
  /\ box.kind = "pending" => box.attempt < MaxPolls /\ box.shown \in Queries
  /\ box.kind = "pending" \/ box.latest # NoRequest => box.text \in Queries
SearchTypeOK ==
  /\ QueueTypeOK /\ QueueConsistent /\ BackfillTypeOK
  /\ shelf \in [Queries -> [work : Works \cup {NoWork}, weak : BOOLEAN]]
  /\ DOMAIN req = Requests /\ \A r \in Requests : ReqOK(req[r])
  /\ BoxOK

(* While the reader is told "pending", somebody is or will be at work on   *)
(* the question, or its answer is waiting for the next poll: never a job   *)
(* that will not run again (the dead end bullmq-queue.ts describes), save  *)
(* one whose worker was lost twice.                                        *)
WorkedOn(q) ==
  LET job == jobs[SearchJob(q)]
  IN \/ job.state \in {"waiting", "active", "delayed"}
     \/ Known(q) # "no"
     \/ job.state = "failed" /\ job.stalls = 1
PendingIsWorkedOn == box.kind = "pending" => WorkedOn(box.shown)
(* ... and so is what a request is about to tell it. *)
ToldPending == \A r \in Requests :
  At(r, "answered") /\ req[r].status = "pending" => WorkedOn(req[r].query)

(* A day of "nothing" is only ever recorded about a query no discovery     *)
(* source can answer: a source that was down when it was asked costs the   *)
(* reader minutes.                                                         *)
DayMeansUnknown ==
  \A q \in Queries : negative[q] = "day" => \A i \in 1..Len(Discovery) : Draws(q, Discovery[i])

(* A backfill whose worker survives leaves no book with nothing on it: once*)
(* nobody is at work on a book a query led to, every source that answers   *)
(* under the book's own name, the discovery sources before the winner      *)
(* included, has contributed, unless it was down.                          *)
EnrichedBut(x, rest) ==
  \E n \in 1..Len(Discovery) :
    /\ Discovery[n] \in attached[x]
    /\ \A s \in AskedAbout(n) :
         <<NameOf[x], x>> \in Knows[s] => s \in attached[x] \cup Unreliable \cup rest
FoundIsEnriched ==
  \A q \in Queries :
    LET x == resolved[q]
    IN x # NoWork /\ faults = 0 /\ (\A c \in Consumers : consumer[c].work # x) => EnrichedBut(x, {})

(* Once a backfill has answered a query, every later request of that       *)
(* reader is answered, and a found book is not turned into "not found" by  *)
(* a slower job for the same words.                                        *)
AnswersStick ==
  \A r \in Requests : At(r, "answered") /\ req[r].status # "error" =>
    /\ req[r].known = "found" => req[r].status = "found"
    /\ req[r].known = "not_found" => req[r].status # "pending"
(* ... because nothing is forgotten while a request is served. *)
RequestsRemember ==
  \A r \in Requests : Served(r) =>
    /\ req[r].known = "found" => resolved[req[r].query] # NoWork /\ req[r].pc \notin {"negative", "enqueue"}
    /\ req[r].known = "not_found" => negative[req[r].query] # "no" /\ req[r].pc # "enqueue"

SearchInv ==
  /\ SearchTypeOK /\ BackfillInv /\ PendingIsWorkedOn /\ ToldPending
  /\ DayMeansUnknown /\ AnswersStick /\ RequestsRemember
=============================================================================
