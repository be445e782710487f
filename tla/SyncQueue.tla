------------------------------ MODULE SyncQueue ------------------------------
(***************************************************************************)
(* The two producers of the sync queue: the nightly RefreshStaleWorks and  *)
(* POST /api/sync/:source with its idempotency records.  Every await of    *)
(* theirs is a step; what a sync job does to a work is one step.           *)
(***************************************************************************)
EXTENDS JobQueue, FiniteSets

CONSTANTS
  Works,
  Orders,       \* how the works may lie at first, the longest unsynced first
  Registered,   \* REGISTERED_SOURCES, as a sequence
  Enriching,    \* ENRICHMENT_SOURCES, as a sequence
  AnswersFor,   \* <<source, work>>: the source has an answer that matches the work
  BatchSize,    \* REFRESH_BATCH_SIZE
  Posts,        \* requests that may be in flight
  Keys,         \* Idempotency-Key headers
  Bodies,       \* <<source, query as typed>>
  Normal,       \* query as typed -> its normalizeText
  MaxPosts,     \* bound: requests altogether
  MaxFaults     \* bound: deaths of the API or of the nightly pass, and attempts of
                \* a sync whose source could not be asked

ASSUME SyncQueueAssumption ==
  /\ {"search", "attach"} \subseteq Payloads
  /\ \A lie \in Orders : lie \in Seq(Works) /\ Distinct(lie)
  /\ Len(Registered) \in Nat \ {0} /\ Len(Enriching) \in Nat
  /\ \A source \in Entries(Registered) \cup Entries(Enriching), w \in Works, d \in 0..1 :
       <<source, w, d>> \in JobIds
  /\ \A body \in Bodies, d \in 0..1 : <<body[1], Normal[body[2]], d>> \in JobIds
  /\ BatchSize \in Nat /\ MaxPosts \in Nat /\ MaxFaults \in Nat

VARIABLES
  order,        \* works, the longest unsynced first (work.synced_at)
  stale,        \* how many of them are older than olderThanDays
  day,          \* the date, modulo two
  pass,         \* the cron job: [pc, todo (works), made (jobs of the first), ran]
  posts,        \* request -> [pc, key, body, job]
  records,      \* idempotency_key: <<key, endpoint>> -> [body, job]
  left,         \* requests that may still be made
  faults,       \* faults that may still occur
  asked         \* observer: job ids the queue was ever given for a request

nightVars == <<order, stale, day, pass>>
postVars == <<posts, records, left, asked>>
syncVars == <<nightVars, postVars, faults>>

(* refreshJobId and syncJobId: sync-{source}-{work or query hash}-{date}.  *)
JobId(source, subject) == <<source, subject, day>>

-----------------------------------------------------------------------------
(* RefreshStaleWorks. *)

(* The jobs each work gets: discovery without its id, enrichment with it.  *)
JobsFor ==
  [i \in 1..(Len(Registered) + Len(Enriching)) |->
     IF i <= Len(Registered) THEN [source |-> Registered[i], data |-> "search"]
     ELSE [source |-> Enriching[i - Len(Registered)], data |-> "attach"]]

(* Mutant: the pass takes the works synced last. *)
FindStaleNewest ==
  LET n == IF BatchSize < stale THEN BatchSize ELSE stale
  IN [i \in 1..n |-> order[stale + 1 - i]]

(* findStale: ORDER BY synced_at LIMIT batchSize. *)
FindStale ==
  LET n == IF BatchSize < stale THEN BatchSize ELSE stale
  IN SubSeq(order, 1, n)

(* The scheduler starts the pass once a night. *)
StartPass ==
  /\ pass.pc = "idle" /\ ~pass.ran
  /\ pass' = [pc |-> "enqueue", todo |-> FindStale, made |-> 0, ran |-> TRUE]
  /\ UNCHANGED <<queueVars, order, stale, day, postVars, faults>>

(* Each enqueue is awaited before the next: a work's jobs, then the next's. *)
EnqueueNext ==
  LET w == Head(pass.todo)
      j == JobsFor[pass.made + 1]
      last == pass.made + 1 = Len(JobsFor)
  IN
  /\ pass.pc = "enqueue" /\ pass.todo # << >>
  /\ Enqueue(JobId(j.source, w), j.data, TRUE)
  /\ pass' = [pass EXCEPT !.todo = IF last THEN Tail(@) ELSE @, !.made = IF last THEN 0 ELSE @ + 1]
  /\ UNCHANGED <<order, stale, day, postVars, faults>>

EndPass ==
  /\ pass.pc = "enqueue" /\ pass.todo = << >>
  /\ pass' = [pass EXCEPT !.pc = "idle"]
  /\ UNCHANGED <<queueVars, order, stale, day, postVars, faults>>

(* The worker dies and the stalled cron job starts over, or an enqueue     *)
(* throws and the pass, which has one attempt, is over for the night.      *)
PassDies ==
  /\ pass.pc = "enqueue" /\ faults > 0
  /\ faults' = faults - 1
  /\ \E over \in BOOLEAN : pass' = [pc |-> "idle", todo |-> << >>, made |-> 0, ran |-> over]
  /\ UNCHANGED <<queueVars, order, stale, day, postVars>>

(* A new date.  Bound: the queue has worked off the day, and nothing is    *)
(* left of the day before, whose date stands for the new one.              *)
Midnight ==
  /\ pass.pc = "idle"
  /\ \A id \in JobIds : jobs[id].state \in {"absent", "completed", "failed"}
  /\ \A id \in JobIds : id[3] = 1 - day => jobs[id].state = "absent"
  /\ \A p \in Posts : posts[p].job[3] # 1 - day
  /\ day' = 1 - day
  /\ pass' = [pass EXCEPT !.ran = FALSE]
  /\ stale' \in stale..Len(order)
  /\ UNCHANGED <<queueVars, order, postVars, faults>>

-----------------------------------------------------------------------------
(* POST /api/sync/:source. *)

Endpoint(body) == body[1]
RecordKey(p) == <<posts[p].key, Endpoint(posts[p].body)>>
NoPost == [pc |-> "idle", key |-> NoPayload, body |-> <<NoPayload, NoPayload>>, job |-> <<NoPayload, NoPayload, 2>>]

Receive(p, key, body) ==
  /\ posts[p].pc = "idle" /\ left > 0
  /\ posts' = [posts EXCEPT ![p] = [pc |-> "find", key |-> key, body |-> body, job |-> NoPost.job]]
  /\ left' = left - 1
  /\ UNCHANGED <<queueVars, nightVars, records, asked, faults>>

(* A record answers at once: with a conflict for another body, or again    *)
(* with what was answered first.                                           *)
FindRecord(p) ==
  /\ posts[p].pc = "find"
  /\ posts' = IF RecordKey(p) \in DOMAIN records THEN [posts EXCEPT ![p] = NoPost]
              ELSE [posts EXCEPT ![p] =
                     [@ EXCEPT !.pc = "enqueue",
                               !.job = JobId(Endpoint(posts[p].body), Normal[posts[p].body[2]])]]
  /\ UNCHANGED <<queueVars, nightVars, records, left, asked, faults>>

EnqueueSync(p) ==
  /\ posts[p].pc = "enqueue"
  /\ Enqueue(posts[p].job, "search", FALSE)
  /\ asked' = asked \cup {posts[p].job}
  /\ posts' = [posts EXCEPT ![p].pc = "save"]
  /\ UNCHANGED <<nightVars, records, left, faults>>

(* Mutant: the record is saved before the job is queued. *)
SaveRecordFirst(p) ==
  /\ posts[p].pc = "enqueue"
  /\ records' = [k \in DOMAIN records \cup {RecordKey(p)} |->
                   IF k = RecordKey(p) THEN [body |-> posts[p].body, job |-> posts[p].job]
                   ELSE records[k]]
  /\ posts' = [posts EXCEPT ![p] = NoPost]
  /\ UNCHANGED <<queueVars, nightVars, left, asked, faults>>

(* INSERT .. ON CONFLICT (key, endpoint) DO UPDATE, then the answer.       *)
SaveRecord(p) ==
  /\ posts[p].pc = "save"
  /\ records' = [k \in DOMAIN records \cup {RecordKey(p)} |->
                   IF k = RecordKey(p) THEN [body |-> posts[p].body, job |-> posts[p].job]
                   ELSE records[k]]
  /\ posts' = [posts EXCEPT ![p] = NoPost]
  /\ UNCHANGED <<queueVars, nightVars, left, asked, faults>>

(* The API dies, or an await throws: no answer. *)
PostDies(p) ==
  /\ posts[p].pc # "idle" /\ faults > 0
  /\ faults' = faults - 1
  /\ posts' = [posts EXCEPT ![p] = NoPost]
  /\ UNCHANGED <<queueVars, nightVars, records, left, asked>>

-----------------------------------------------------------------------------
(* The consumer of the queue, one step per attempt. *)

TakeSync(c, id) == Take(c, id) /\ UNCHANGED syncVars

(* A work that was synced is the freshest one. *)
Synced(w) ==
  \E at \in 1..Len(order) :
    /\ order[at] = w
    /\ order' = [i \in 1..Len(order) |->
                   IF i < at THEN order[i] ELSE IF i < Len(order) THEN order[i + 1] ELSE w]
    /\ stale' = IF at <= stale THEN stale - 1 ELSE stale

(* The source answers about the work, or has nothing that matches it.      *)
FinishSync(c, id) ==
  /\ Owns(c, id) /\ Complete(c, id)
  /\ IF <<id[1], id[2]>> \in AnswersFor THEN Synced(id[2]) ELSE UNCHANGED <<order, stale>>
  /\ UNCHANGED <<day, pass, postVars, faults>>

(* The source could not be asked. *)
SyncFails(c, id) ==
  /\ Owns(c, id) /\ faults > 0
  /\ faults' = faults - 1
  /\ FailAttempt(c, id)
  /\ UNCHANGED <<nightVars, postVars>>

RetrySync(id) == BackoffOver(id) /\ UNCHANGED syncVars

(* removeOnComplete and removeOnFail: the queue forgets finished jobs in   *)
(* bulk, when it comes to look at their age.                               *)
Finished(id) == jobs[id].state \in {"completed", "failed"}
SyncJobsAge ==
  /\ \E id \in JobIds : Finished(id)
  /\ jobs' = [id \in JobIds |-> IF Finished(id) THEN Absent ELSE jobs[id]]
  /\ UNCHANGED <<wait, prioritized, syncVars>>

-----------------------------------------------------------------------------
SyncQueueInit ==
  /\ QueueInit
  /\ order \in Orders
  /\ stale \in 0..Len(order)
  /\ day = 0 /\ pass = [pc |-> "idle", todo |-> << >>, made |-> 0, ran |-> FALSE]
  /\ posts = [p \in Posts |-> NoPost] /\ records = << >>
  /\ left \in 0..MaxPosts /\ faults \in 0..MaxFaults /\ asked = {}

NightNext == StartPass \/ EnqueueNext \/ EndPass \/ PassDies \/ Midnight

PostNext ==
  \E p \in Posts :
    \/ \E key \in Keys, body \in Bodies : Receive(p, key, body)
    \/ FindRecord(p)
    \/ EnqueueSync(p)
    \/ SaveRecord(p)
    \/ PostDies(p)

ConsumerNext ==
  \E id \in JobIds :
    \/ \E c \in Consumers : TakeSync(c, id) \/ FinishSync(c, id) \/ SyncFails(c, id)
    \/ RetrySync(id)

SyncQueueNext == NightNext \/ PostNext \/ ConsumerNext \/ SyncJobsAge
SyncQueueSpec == SyncQueueInit /\ [][SyncQueueNext]_<<queueVars, syncVars>>

(* What is fair: the scheduler fires every night, an API handler runs on,  *)
(* and the worker takes, finishes and retries what is queued.              *)
PassGoesOn == StartPass \/ EnqueueNext \/ EndPass
PostGoesOn == \E p \in Posts : FindRecord(p) \/ EnqueueSync(p) \/ SaveRecord(p)
WorkerGoesOn ==
  \E id \in JobIds :
    \/ \E c \in Consumers : TakeSync(c, id) \/ FinishSync(c, id)
    \/ RetrySync(id)

-----------------------------------------------------------------------------
NightTypeOK ==
  /\ order \in Seq(Works) /\ Distinct(order)
  /\ stale \in 0..Len(order) /\ day \in 0..1
  /\ pass \in [pc : {"idle", "enqueue"}, todo : Seq(Works), made : 0..(Len(JobsFor) - 1), ran : BOOLEAN]
  /\ Entries(pass.todo) \subseteq Entries(order)
PostOK(post) ==
  /\ post \in [pc : {"idle", "find", "enqueue", "save"}, key : Keys \cup {NoPost.key},
              body : Bodies \cup {NoPost.body}, job : JobIds \cup {NoPost.job}]
  /\ post.pc # "idle" => post.body \in Bodies
  /\ post.pc \in {"enqueue", "save"} => post.job \in JobIds
RecordOK(record) == record.body \in Bodies /\ record.job \in JobIds
PostTypeOK ==
  /\ DOMAIN posts = Posts /\ \A p \in Posts : PostOK(posts[p])
  /\ \A k \in DOMAIN records : RecordOK(records[k])
  /\ left \in 0..MaxPosts /\ asked \subseteq JobIds
SyncQueueTypeOK ==
  QueueTypeOK /\ QueueConsistent /\ NightTypeOK /\ PostTypeOK /\ faults \in 0..MaxFaults

(* What an idempotency record answers with has been queued: whatever dies  *)
(* between the two writes, a replay never names a job nobody was given.    *)
ReplayNamesQueuedJob == \A k \in DOMAIN records : records[k].job \in asked
(* ... because nobody comes to save a record before the queue has its job. *)
SavedAfterQueued == \A p \in Posts : posts[p].pc = "save" => posts[p].job \in asked

(* A work that some source can answer for is refreshed sooner or  *)
(* later: with fewer silent works than a batch holds, and the longest      *)
(* unsynced first, no work waits for ever.                                 *)
IsStale(w) == \E i \in 1..stale : order[i] = w
Answered(w) == \E s \in Entries(Registered) \cup Entries(Enriching) : <<s, w>> \in AnswersFor
StaleIsRefreshed == \A w \in Works : Answered(w) => (IsStale(w) ~> ~IsStale(w))

(* A pass that has queued all its jobs asks every enrichment source about  *)
(* every work of its batch with the work's id: "always asked about a known *)
(* work, never allowed to decide which book they answered".                *)
AskedAboutKnownWork ==
  pass.pc = "enqueue" /\ pass.todo = << >> =>
    \A id \in JobIds :
      id[2] \in Works /\ id[1] \in Entries(Enriching) /\ jobs[id].state # "absent"
        => jobs[id].data = "attach"
=============================================================================
