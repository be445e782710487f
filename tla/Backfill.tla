------------------------------ MODULE Backfill ------------------------------
(***************************************************************************)
(* ProcessBackfillJob and its consumer: a query no search could answer is  *)
(* put to the discovery sources in order; the first that has the book wins *)
(* and every enrichment source is then asked about that book.  What came   *)
(* of the query is left in Redis for the reader's next poll.  One sync is  *)
(* one step here: SyncWork shows what happens inside it.                   *)
(***************************************************************************)
EXTENDS JobQueue

CONSTANTS
  Queries,      \* what readers type, up to the normalisation queryHash applies
  Works,
  Discovery,    \* REGISTERED_SOURCES, in order
  Enrichment,   \* ENRICHMENT_SOURCES, in order
  Knows,        \* Knows[source]: the <<query, work>> pairs it would answer
  Unreliable,   \* bound: sources that may fail to answer
  NameOf,       \* the canonical title and author of a work, as a query
  MaxFaults     \* bound: lost locks and deaths of the worker process

VARIABLES
  db,           \* works in Postgres
  attached,     \* work -> sources that added something to it
  resolved,     \* Redis: query -> the work its backfill found
  negative,     \* Redis: query -> trust in "nothing": "no", "minutes", "day"
  consumer,     \* what each consumer does
  faults

(* The sources asked about a book that the n-th discovery source found:    *)
(* those that were asked before, and the enrichment sources.               *)
AskedAbout(n) == {Discovery[i] : i \in 1..(n - 1)} \cup Entries(Enrichment)

answers == <<resolved, negative>>
backfillVars == <<queueVars, db, attached, answers, consumer, faults>>

NoWork == "none"
NoJobId == [kind |-> "none", query |-> NoPayload]

(* backfillJobId of a search, which hashes the query, and the other helper *)
(* of that name, by which genre and featured pages queue the same work.    *)
SearchJob(q) == [kind |-> "search", query |-> q]
PageJob(q) == [kind |-> "page", query |-> q]

ASSUME BackfillAssumption ==
  /\ Queries \subseteq Payloads /\ NoPayload \notin Queries /\ NoWork \notin Works
  /\ {SearchJob(q) : q \in Queries} \subseteq JobIds
  /\ JobIds \subseteq {SearchJob(q) : q \in Queries} \cup {PageJob(q) : q \in Queries}
  /\ Discovery \in Seq(DOMAIN Knows) /\ Enrichment \in Seq(DOMAIN Knows)

Idle == [pc |-> "idle", job |-> NoJobId, query |-> NoPayload, todo |-> << >>, winner |-> "none",
         blanks |-> << >>, erred |-> FALSE, last |-> FALSE, work |-> NoWork]

BackfillInit(stored) ==
  /\ QueueInit
  /\ db \in stored /\ attached = [x \in Works |-> {}]
  /\ resolved = [q \in Queries |-> NoWork] /\ negative = [q \in Queries |-> "no"]
  /\ consumer = [c \in Consumers |-> Idle] /\ faults = 0

(* Mutant: one attempt too late. *)
NoRetryLeft(id) == jobs[id].made >= MaxAttempts

(* lastAttempt, as the consumer computes it from the job. *)
lastAttempt(id) == jobs[id].made + 1 >= MaxAttempts

(* The consumer knows whether the queue has a retry left. *)
BeginJob(c) ==
  /\ consumer[c].pc = "idle"
  /\ \E id \in JobIds :
       /\ Take(c, id)
       /\ consumer' = [consumer EXCEPT ![c] =
            [Idle EXCEPT !.pc = "discover", !.job = id, !.query = jobs[id].data,
                         !.todo = Discovery, !.last = lastAttempt(id)]]
  /\ UNCHANGED <<db, attached, answers, faults>>

Next1(c) == Head(consumer[c].todo)

(* Sources that drew a blank, but for those enrichment will ask anyway.    *)
Blanks(me) ==
  IF Head(me.todo) \in Entries(Enrichment) THEN me.blanks ELSE Append(me.blanks, Head(me.todo))

(* One SyncWorkFromSource of the discovery loop: synced, not found, or an  *)
(* error (provider down, rate limited, timed out).                         *)
AskSource(c) ==
  LET me == consumer[c]
      hits == {x \in Works : <<me.query, x>> \in Knows[Next1(c)]}
  IN /\ me.pc = "discover" /\ me.todo # << >>
     /\ \/ \E x \in hits :
             /\ db' = db \cup {x}
             /\ attached' = [attached EXCEPT ![x] = @ \cup {Next1(c)}]
             /\ consumer' = [consumer EXCEPT ![c] =
                               [me EXCEPT !.pc = "resolved", !.winner = Next1(c), !.work = x]]
        \/ /\ hits = {}
           /\ consumer' = [consumer EXCEPT ![c] = [me EXCEPT !.todo = Tail(@), !.blanks = Blanks(me)]]
           /\ UNCHANGED <<db, attached>>
        \/ /\ Next1(c) \in Unreliable
           /\ consumer' = [consumer EXCEPT ![c] = [me EXCEPT !.todo = Tail(@), !.erred = TRUE]]
           /\ UNCHANGED <<db, attached>>
     /\ UNCHANGED <<queueVars, answers, faults>>

(* Mutant: a source that drew a blank on the reader's words is done with. *)
MarkResolvedOnly(c) ==
  /\ consumer[c].pc = "resolved"
  /\ resolved' = [resolved EXCEPT ![consumer[c].query] = consumer[c].work]
  /\ consumer' = [consumer EXCEPT ![c].pc = "enrich", ![c].todo = Enrichment]
  /\ UNCHANGED <<queueVars, db, attached, negative, faults>>

(* markSearchResolved, before the enrichment the reader need not wait for; *)
(* then the list of sources to ask about this book: the enrichment sources *)
(* and, when the book's name is not what the reader typed, those that drew *)
(* a blank, without repeats.                                               *)
MarkResolved(c) ==
  LET me == consumer[c]
      again == IF NameOf[me.work] = me.query THEN << >> ELSE me.blanks
  IN /\ me.pc = "resolved"
     /\ resolved' = [resolved EXCEPT ![me.query] = me.work]
     /\ consumer' = [consumer EXCEPT ![c] = [me EXCEPT !.pc = "enrich", !.todo = Enrichment \o again]]
     /\ UNCHANGED <<queueVars, db, attached, negative, faults>>

(* The winner is passed over; any other source gets one attached sync, in  *)
(* the book's own words, whose failure is swallowed.                       *)
Enrich(c) ==
  LET me == consumer[c]
      adds == Next1(c) # me.winner /\ <<NameOf[me.work], me.work>> \in Knows[Next1(c)]
  IN /\ me.pc = "enrich" /\ me.todo # << >>
     /\ \/ adds /\ attached' = [attached EXCEPT ![me.work] = @ \cup {Next1(c)}]
        \/ ~adds /\ UNCHANGED attached
        \/ Next1(c) \in Unreliable /\ UNCHANGED attached
     /\ consumer' = [consumer EXCEPT ![c].todo = Tail(@)]
     /\ UNCHANGED <<queueVars, db, answers, faults>>

(* Mutant: the degraded "nothing" is kept as long as the real one. *)
GiveUpForADay(c) ==
  /\ consumer[c].pc = "discover" /\ consumer[c].todo = << >>
  /\ IF consumer[c].erred /\ ~consumer[c].last
     THEN /\ FailAttempt(c, consumer[c].job)
          /\ consumer' = [consumer EXCEPT ![c] = Idle]
          /\ UNCHANGED negative
     ELSE /\ negative' = [negative EXCEPT ![consumer[c].query] = "day"]
          /\ consumer' = [consumer EXCEPT ![c].pc = "enrich"]
          /\ UNCHANGED queueVars
  /\ UNCHANGED <<db, attached, resolved, faults>>

(* No source synced.  An error is retried while the queue has an attempt   *)
(* left; after that "nothing" is trusted for minutes instead of a day.     *)
GiveUp(c) ==
  LET me == consumer[c]
  IN /\ me.pc = "discover" /\ me.todo = << >>
     /\ IF me.erred /\ ~me.last
        THEN /\ FailAttempt(c, me.job)
             /\ consumer' = [consumer EXCEPT ![c] = Idle]
             /\ UNCHANGED negative
        ELSE /\ negative' = [negative EXCEPT ![me.query] = IF me.erred THEN "minutes" ELSE "day"]
             /\ consumer' = [consumer EXCEPT ![c].pc = "enrich"]
             /\ UNCHANGED queueVars
     /\ UNCHANGED <<db, attached, resolved, faults>>

FinishJob(c) ==
  /\ consumer[c].pc = "enrich" /\ consumer[c].todo = << >>
  /\ Complete(c, consumer[c].job)
  /\ consumer' = [consumer EXCEPT ![c] = Idle]
  /\ UNCHANGED <<db, attached, answers, faults>>

(* The worker process dies with its job unsettled. *)
Die(c) ==
  /\ consumer[c].pc # "idle" /\ faults < MaxFaults
  /\ consumer' = [consumer EXCEPT ![c] = Idle]
  /\ faults' = faults + 1
  /\ UNCHANGED <<queueVars, db, attached, answers>>

Orphaned(id) ==
  /\ jobs[id].state = "active"
  /\ consumer[jobs[id].owner].pc = "idle" \/ consumer[jobs[id].owner].job # id

(* A lock is lost because its consumer died, or because it was too slow to *)
(* renew it and still runs the job.                                        *)
LoseLock(id) ==
  /\ Stall(id)
  /\ IF Orphaned(id) THEN UNCHANGED faults ELSE faults < MaxFaults /\ faults' = faults + 1
  /\ UNCHANGED <<db, attached, answers, consumer>>

Requeue(id) == BackoffOver(id) /\ UNCHANGED <<db, attached, answers, consumer, faults>>

JobNamed(id) == jobs[id].state # "absent" => jobs[id].data = id.query
ConsumerOK(me) ==
  /\ me \in [pc : {"idle", "discover", "resolved", "enrich"}, job : JobIds \cup {NoJobId},
            query : Queries \cup {NoPayload}, todo : Seq(DOMAIN Knows),
            winner : DOMAIN Knows \cup {"none"}, blanks : Seq(DOMAIN Knows),
            erred : BOOLEAN, last : BOOLEAN, work : Works \cup {NoWork}]
  /\ me.pc # "idle" => me.job \in JobIds /\ me.query = me.job.query /\ me.query \in Queries
  /\ me.pc = "resolved" \/ (me.pc = "enrich" /\ me.todo # << >>) => me.work \in Works
BackfillTypeOK ==
  /\ db \subseteq Works /\ attached \in [Works -> SUBSET DOMAIN Knows]
  /\ resolved \in [Queries -> Works \cup {NoWork}]
  /\ negative \in [Queries -> {"no", "minutes", "day"}]
  /\ \A id \in JobIds : JobNamed(id)
  /\ DOMAIN consumer = Consumers /\ \A c \in Consumers : ConsumerOK(consumer[c])

(* What Redis can say of a query. *)
Known(q) == IF resolved[q] # NoWork THEN "found" ELSE IF negative[q] # "no" THEN "not_found" ELSE "no"

(* A job is only done with once its answer is there, and only given up     *)
(* when its worker was lost twice.                                         *)
Settled(id) ==
  /\ jobs[id].state = "completed" => Known(id.query) # "no"
  /\ jobs[id].state = "failed" => jobs[id].stalls = 1

(* Discovery has asked the first n sources; without an error each of them  *)
(* has nothing.  Whoever holds its job's lock is right about what is left. *)
Draws(q, s) == \A x \in Works : <<q, x>> \notin Knows[s]
DiscoveryOK(me) ==
  \E n \in 0..Len(Discovery) :
    /\ Len(me.todo) = Len(Discovery) - n
    /\ \A i \in 1..Len(me.todo) : me.todo[i] = Discovery[n + i]
    /\ ~me.erred => \A i \in 1..n : Draws(me.query, Discovery[i])
AtWork(c) ==
  LET me == consumer[c] IN
  /\ me.pc = "discover" => DiscoveryOK(me) /\ (Owns(c, me.job) => me.last = LastAttempt(me.job))
  /\ me.pc = "enrich" => Known(me.query) # "no"

BackfillInv == /\ \A id \in JobIds : Settled(id)
               /\ \A c \in Consumers : AtWork(c)
=============================================================================
