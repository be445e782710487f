---------------------------- MODULE SearchSafety ----------------------------
(***************************************************************************)
(* What a reader may rely on while backfills run, for any number of        *)
(* queries, sources, requests, consumers, lost locks and dead workers.     *)
(***************************************************************************)
EXTENDS Search, JobQueueSafety

(* The backfill's part of the invariant. *)
BackfillHolds == QueueInv /\ BackfillTypeOK /\ BackfillInv /\ DayMeansUnknown

(* No answer is forgotten, and no job. *)
AnswersStay ==
  \A q \in Queries : /\ resolved[q] # NoWork => resolved'[q] # NoWork
                     /\ negative[q] # "no" => negative'[q] # "no"
JobsStay == \A id \in JobIds : ~Forgets(id)
Progress == BackfillHolds' /\ AnswersStay /\ JobsStay

LEMMA KnownStays ==
  ASSUME AnswersStay, NEW q \in Queries, Known(q) # "no"
  PROVE Known(q)' # "no"
  BY DEF AnswersStay, Known

LEMMA IdsAreOfQueries ==
  /\ \A id \in JobIds : id.query \in Queries
  /\ \A q \in Queries : SearchJob(q) \in JobIds /\ SearchJob(q).query = q
  /\ NoPayload \notin Queries /\ NoWork \notin Works
  BY BackfillAssumption DEF SearchJob, PageJob

(* The step of a consumer replaces its record. *)
LEMMA ConsumerMoves ==
  ASSUME BackfillTypeOK, NEW c \in Consumers, NEW row, ConsumerOK(row),
         consumer' = [consumer EXCEPT ![c] = row]
  PROVE /\ DOMAIN consumer' = Consumers /\ \A d \in Consumers : ConsumerOK(consumer'[d])
        /\ consumer'[c] = row /\ \A d \in Consumers \ {c} : consumer'[d] = consumer[d]
  BY DEF BackfillTypeOK

LEMMA BackfillTypes ==
  ASSUME DOMAIN consumer' = Consumers, \A d \in Consumers : ConsumerOK(consumer'[d]),
         db' \subseteq Works, attached' \in [Works -> SUBSET DOMAIN Knows],
         resolved' \in [Queries -> Works \cup {NoWork}],
         negative' \in [Queries -> {"no", "minutes", "day"}],
         \A id \in JobIds : JobNamed(id)'
  PROVE BackfillTypeOK'
  BY DEF BackfillTypeOK, ConsumerOK

LEMMA NamesStay ==
  ASSUME BackfillTypeOK, jobs' = jobs \/ KeepsData
  PROVE \A id \in JobIds : JobNamed(id)'
  BY DEF BackfillTypeOK, KeepsData, JobNamed

(* A consumer that does not move stays in order, unless it is given a job. *)
LEMMA AtWorkStays ==
  ASSUME BackfillTypeOK, BackfillInv, AnswersStay, NEW d \in Consumers, consumer'[d] = consumer[d],
         \A id \in JobIds : id = consumer[d].job /\ Owns(d, id)' =>
                            Owns(d, id) /\ jobs'[id].made = jobs[id].made
  PROVE AtWork(d)'
  <1>0. PICK me : me = consumer[d]
    OBVIOUS
  <1>1. AtWork(d) /\ ConsumerOK(me) /\ consumer'[d] = me
    BY <1>0 DEF BackfillInv, BackfillTypeOK
  <1>2. me.pc = "enrich" => Known(me.query)' # "no"
    BY <1>0, <1>1, KnownStays DEF AtWork, ConsumerOK
  <1>3. me.pc = "discover" /\ Owns(d, me.job)' =>
          Owns(d, me.job) /\ LastAttempt(me.job)' = LastAttempt(me.job)
    BY <1>0, <1>1 DEF LastAttempt, ConsumerOK
  <1>4. me.pc = "discover" => DiscoveryOK(me) /\ (Owns(d, me.job)' => me.last = LastAttempt(me.job)')
    BY <1>0, <1>1, <1>3, Zenon DEF AtWork
  <1> QED BY <1>1, <1>2, <1>4, Zenon DEF AtWork, DiscoveryOK, Draws, Known, Owns, LastAttempt

LEMMA SettledStays ==
  ASSUME BackfillInv, AnswersStay, NEW id \in JobIds,
         \/ jobs'[id] = jobs[id]
         \/ jobs'[id].state \notin {"completed", "failed"}
         \/ jobs'[id].state = "failed" /\ jobs'[id].stalls = 1
         \/ jobs'[id].state = "completed" /\ Known(id.query)' # "no"
  PROVE Settled(id)'
  <1>1. Settled(id) /\ id.query \in Queries
    BY IdsAreOfQueries DEF BackfillInv
  <1>2. Known(id.query) # "no" => Known(id.query)' # "no"
    BY <1>1, KnownStays
  <1> QED BY <1>1, <1>2 DEF Settled

(* Where a step leaves the jobs alone and moves one consumer to row.       *)
LEMMA ConsumerSteps ==
  ASSUME BackfillHolds, UNCHANGED queueVars, AnswersStay, DayMeansUnknown',
         NEW c \in Consumers, NEW row, ConsumerOK(row), consumer' = [consumer EXCEPT ![c] = row],
         db' \subseteq Works, attached' \in [Works -> SUBSET DOMAIN Knows],
         resolved' \in [Queries -> Works \cup {NoWork}],
         negative' \in [Queries -> {"no", "minutes", "day"}],
         row.pc = "discover" =>
           DiscoveryOK(row) /\ (Owns(c, row.job) => row.last = LastAttempt(row.job)),
         row.pc = "enrich" => Known(row.query)' # "no"
  PROVE Progress
  <1>1. BackfillTypeOK /\ BackfillInv /\ QueueInv /\ jobs' = jobs
    BY DEF BackfillHolds, queueVars
  <1>2. QueueInv'
    BY <1>1, QueueStutters
  <1>3. BackfillTypeOK'
    <2>1. \A id \in JobIds : JobNamed(id)'
      BY <1>1, NamesStay
    <2> QED BY <1>1, <2>1, ConsumerMoves, BackfillTypes
  <1>4. ASSUME NEW id \in JobIds PROVE Settled(id)'
    BY <1>1, SettledStays
  <1>5. ASSUME NEW d \in Consumers PROVE AtWork(d)'
    <2>1. CASE d = c
      <3>1. consumer'[c] = row
        BY <1>1, ConsumerMoves
      <3>2. Owns(c, row.job)' = Owns(c, row.job) /\ LastAttempt(row.job)' = LastAttempt(row.job)
        BY <1>1 DEF Owns, LastAttempt
      <3> QED BY <2>1, <3>1, <3>2, Zenon DEF AtWork, DiscoveryOK, Draws, Known, Owns, LastAttempt
    <2>2. CASE d # c
      <3>1. consumer'[d] = consumer[d]
        BY <1>1, <2>2, ConsumerMoves
      <3>2. \A id \in JobIds : id = consumer[d].job /\ Owns(d, id)' =>
                               Owns(d, id) /\ jobs'[id].made = jobs[id].made
        BY <1>1 DEF Owns
      <3> QED BY <1>1, <3>1, <3>2, AtWorkStays
    <2> QED BY <2>1, <2>2
  <1>6. JobsStay
    BY <1>1 DEF JobsStay, Forgets
  <1> QED BY <1>2, <1>3, <1>4, <1>5, <1>6 DEF Progress, BackfillHolds, BackfillInv

(* Where the jobs change and the answers do not; d is given no job.        *)
LEMMA JobsStep ==
  ASSUME BackfillHolds, QueueInv', UNCHANGED answers, \A id \in JobIds : JobNamed(id)',
         DOMAIN consumer' = Consumers, \A d \in Consumers : ConsumerOK(consumer'[d]),
         UNCHANGED <<db, attached>>,
         \A d \in Consumers : AtWork(d)', \A id \in JobIds : Settled(id)'
  PROVE BackfillHolds' /\ AnswersStay
  <1>1. BackfillTypeOK /\ DayMeansUnknown
    BY DEF BackfillHolds
  <1>2. resolved' = resolved /\ negative' = negative
    BY DEF answers
  <1>3. BackfillTypeOK'
    BY <1>1, <1>2, BackfillTypes DEF BackfillTypeOK
  <1>4. DayMeansUnknown' /\ AnswersStay
    BY <1>1, <1>2 DEF DayMeansUnknown, Draws, AnswersStay
  <1> QED BY <1>3, <1>4 DEF BackfillHolds, BackfillInv

ConsumerRow(pc, job, query, todo, winner, blanks, erred, last, work) ==
  [pc |-> pc, job |-> job, query |-> query, todo |-> todo, winner |-> winner, blanks |-> blanks,
   erred |-> erred, last |-> last, work |-> work]
Plain(me) == me = ConsumerRow(me.pc, me.job, me.query, me.todo, me.winner, me.blanks,
                              me.erred, me.last, me.work)

LEMMA RowsArePlain == ASSUME NEW me, ConsumerOK(me) PROVE Plain(me)
  BY DEF ConsumerOK, Plain, ConsumerRow

LEMMA IdleIsOK == ConsumerOK(Idle) /\ Idle.pc = "idle"
  BY DEF Idle, ConsumerOK

LEMMA BeginJobKeeps ==
  ASSUME BackfillHolds, NEW c \in Consumers, BeginJob(c)
  PROVE Progress
  <1>1. BackfillTypeOK /\ BackfillInv /\ QueueInv
    BY DEF BackfillHolds
  <1> DEFINE row(id) == ConsumerRow("discover", id, jobs[id].data, Discovery, "none", << >>, FALSE,
                                    lastAttempt(id), NoWork)
  <1>2. PICK id \in JobIds : Take(c, id) /\ consumer' = [consumer EXCEPT ![c] = row(id)]
    BY DEF BeginJob, Idle, ConsumerRow
  <1>3. UNCHANGED answers /\ UNCHANGED <<db, attached>>
    BY DEF BeginJob
  <1>4. /\ QueueInv' /\ jobs[id].state = "waiting" /\ Others(id)
        /\ jobs'[id] = Job("active", jobs[id], jobs[id].made, jobs[id].stalls, c)
    BY <1>1, <1>2, TakeKeeps, TakeRow
  <1>5. /\ jobs'[id].state = "active" /\ jobs'[id].owner = c /\ jobs'[id].made = jobs[id].made
        /\ jobs[id].made \in Nat
    BY <1>1, <1>4, RowIsJob DEF Job, QueuedJob
  <1>6. KeepsData /\ JobsStay
    BY <1>1, <1>2, DataStays DEF JobsStay
  <1>7. jobs[id].data = id.query /\ id.query \in Queries
    BY <1>1, <1>4, IdsAreOfQueries DEF BackfillTypeOK, JobNamed
  <1>8. PICK me : me = row(id)
    OBVIOUS
  <1>9. /\ ConsumerOK(me) /\ me.pc = "discover" /\ me.job = id /\ me.query = id.query
        /\ me.last = lastAttempt(id) /\ me.todo = Discovery /\ me.erred = FALSE
    BY <1>7, <1>8, BackfillAssumption DEF ConsumerOK, ConsumerRow, lastAttempt
  <1>10. consumer' = [consumer EXCEPT ![c] = me]
    BY <1>2, <1>8
  <1> HIDE DEF row
  <1>11. /\ DOMAIN consumer' = Consumers /\ \A d \in Consumers : ConsumerOK(consumer'[d])
         /\ consumer'[c] = me /\ \A d \in Consumers \ {c} : consumer'[d] = consumer[d]
    BY <1>1, <1>9, <1>10, ConsumerMoves
  <1>12. AnswersStay
    BY <1>3 DEF AnswersStay, answers
  <1>14. ASSUME NEW x \in JobIds PROVE Settled(x)'
    <2>1. CASE x = id
      BY <1>1, <1>5, <1>12, <2>1, SettledStays
    <2>2. CASE x # id
      BY <1>1, <1>4, <1>12, <2>2, SettledStays DEF Others
    <2> QED BY <2>1, <2>2
  <1>15. ASSUME NEW d \in Consumers PROVE AtWork(d)'
    <2>1. CASE d = c
      <3>1. DiscoveryOK(me)
        <4>1. Len(Discovery) \in Nat /\ 0 \in 0..Len(Discovery)
          BY BackfillAssumption
        <4>2. /\ Len(me.todo) = Len(Discovery) - 0
              /\ \A i \in 1..Len(me.todo) : me.todo[i] = Discovery[0 + i]
              /\ \A i \in 1..0 : Draws(me.query, Discovery[i])
          BY <1>9, <4>1
        <4> QED BY <4>1, <4>2 DEF DiscoveryOK
      <3>2. me.last = LastAttempt(me.job)'
        BY <1>5, <1>9 DEF lastAttempt, LastAttempt
      <3> QED BY <1>9, <1>11, <2>1, <3>1, <3>2, Zenon DEF AtWork, DiscoveryOK, Draws, Owns, LastAttempt
    <2>2. CASE d # c
      <3>1. consumer'[d] = consumer[d]
        BY <1>11, <2>2
      <3>2. ASSUME NEW mine \in JobIds, Owns(d, mine)'
            PROVE Owns(d, mine) /\ jobs'[mine].made = jobs[mine].made
        <4>1. mine # id
          BY <1>5, <2>2, <3>2 DEF Owns
        <4> QED BY <1>4, <3>2, <4>1 DEF Owns, Others
      <3> QED BY <1>1, <1>12, <3>1, <3>2, AtWorkStays
    <2> QED BY <2>1, <2>2
  <1>13. \A x \in JobIds : JobNamed(x)'
    BY <1>1, <1>6, NamesStay
  <1>16. BackfillHolds' /\ AnswersStay
    BY <1>3, <1>4, <1>11, <1>13, <1>14, <1>15, JobsStep
  <1> QED BY <1>6, <1>16 DEF Progress

(* A job changes hands or state without a new owner; its consumer, if it   *)
(* moves at all, is done with it.                                          *)
LEMMA JobLeaves ==
  ASSUME BackfillHolds, QueueInv', UNCHANGED answers, UNCHANGED <<db, attached>>, JobsStay,
         jobs' = jobs \/ KeepsData,
         consumer' = consumer \/ \E c \in Consumers : consumer' = [consumer EXCEPT ![c] = Idle],
         \A d \in Consumers, id \in JobIds :
           Owns(d, id)' => Owns(d, id) /\ jobs'[id].made = jobs[id].made,
         \A id \in JobIds : \/ jobs'[id] = jobs[id]
                            \/ jobs'[id].state \notin {"completed", "failed"}
                            \/ jobs'[id].state = "failed" /\ jobs'[id].stalls = 1
                            \/ jobs'[id].state = "completed" /\ Known(id.query)' # "no"
  PROVE Progress
  <1>1. BackfillTypeOK /\ BackfillInv
    BY DEF BackfillHolds
  <1>2. AnswersStay
    BY DEF AnswersStay, answers
  <1>3. /\ DOMAIN consumer' = Consumers /\ \A d \in Consumers : ConsumerOK(consumer'[d])
        /\ \A d \in Consumers : consumer'[d] = consumer[d] \/ consumer'[d] = Idle
    <2>1. CASE consumer' = consumer
      BY <1>1, <2>1 DEF BackfillTypeOK
    <2>2. ASSUME NEW c \in Consumers, consumer' = [consumer EXCEPT ![c] = Idle]
          PROVE /\ DOMAIN consumer' = Consumers /\ \A d \in Consumers : ConsumerOK(consumer'[d])
                /\ \A d \in Consumers : consumer'[d] = consumer[d] \/ consumer'[d] = Idle
      <3>1. ConsumerOK(Idle)
        BY IdleIsOK
      <3> HIDE DEF Idle
      <3> QED BY <1>1, <2>2, <3>1, ConsumerMoves
    <2> QED BY <2>1, <2>2
  <1>4. ASSUME NEW d \in Consumers PROVE AtWork(d)'
    <2>1. CASE consumer'[d] = consumer[d]
      BY <1>1, <1>2, <2>1, AtWorkStays
    <2>2. CASE consumer'[d] = Idle
      BY <2>2, IdleIsOK DEF AtWork
    <2> QED BY <1>3, <2>1, <2>2
  <1>5. \A id \in JobIds : Settled(id)'
    BY <1>1, <1>2, SettledStays
  <1>6. \A id \in JobIds : JobNamed(id)'
    BY <1>1, NamesStay
  <1>7. BackfillHolds' /\ AnswersStay
    BY <1>3, <1>4, <1>5, <1>6, JobsStep
  <1> QED BY <1>7 DEF Progress

LEMMA RowChanged ==
  ASSUME NEW me, Plain(me), NEW v
  PROVE /\ [me EXCEPT !.pc = v] = ConsumerRow(v, me.job, me.query, me.todo, me.winner, me.blanks,
                                             me.erred, me.last, me.work)
        /\ [me EXCEPT !.todo = v] = ConsumerRow(me.pc, me.job, me.query, v, me.winner, me.blanks,
                                               me.erred, me.last, me.work)
  <1>1. [me EXCEPT !.pc = v] = ConsumerRow(v, me.job, me.query, me.todo, me.winner, me.blanks,
                                           me.erred, me.last, me.work)
    BY DEF Plain, ConsumerRow
  <1>2. [me EXCEPT !.todo = v] = ConsumerRow(me.pc, me.job, me.query, v, me.winner, me.blanks,
                                             me.erred, me.last, me.work)
    BY DEF Plain, ConsumerRow
  <1> QED BY <1>1, <1>2, Zenon

LEMMA RowsChanged ==
  ASSUME NEW me, Plain(me), NEW v, NEW u
  PROVE /\ [me EXCEPT !.pc = v, !.todo = u]
               = ConsumerRow(v, me.job, me.query, u, me.winner, me.blanks, me.erred, me.last, me.work)
        /\ [me EXCEPT !.todo = v, !.blanks = u]
               = ConsumerRow(me.pc, me.job, me.query, v, me.winner, u, me.erred, me.last, me.work)
        /\ [me EXCEPT !.todo = v, !.erred = u]
               = ConsumerRow(me.pc, me.job, me.query, v, me.winner, me.blanks, u, me.last, me.work)
  <1> DEFINE onPc == [me EXCEPT !.pc = v]
             onTodo == [me EXCEPT !.todo = v]
  <1>1. onPc = ConsumerRow(v, me.job, me.query, me.todo, me.winner, me.blanks, me.erred, me.last, me.work)
        /\ onTodo = ConsumerRow(me.pc, me.job, me.query, v, me.winner, me.blanks, me.erred, me.last, me.work)
    BY RowChanged, Zenon
  <1>2. [onPc EXCEPT !.todo = u]
               = ConsumerRow(v, me.job, me.query, u, me.winner, me.blanks, me.erred, me.last, me.work)
    <2> HIDE DEF onPc
    <2> QED BY <1>1 DEF ConsumerRow
  <1>3. /\ [onTodo EXCEPT !.blanks = u]
               = ConsumerRow(me.pc, me.job, me.query, v, me.winner, u, me.erred, me.last, me.work)
        /\ [onTodo EXCEPT !.erred = u]
               = ConsumerRow(me.pc, me.job, me.query, v, me.winner, me.blanks, u, me.last, me.work)
    <2> HIDE DEF onTodo
    <2> QED BY <1>1 DEF ConsumerRow
  <1> QED BY <1>2, <1>3, Zenon

LEMMA RowWon ==
  ASSUME NEW me, Plain(me), NEW s, NEW x
  PROVE [me EXCEPT !.pc = "resolved", !.winner = s, !.work = x]
          = ConsumerRow("resolved", me.job, me.query, me.todo, s, me.blanks, me.erred, me.last, x)
  <1> DEFINE onPc == [me EXCEPT !.pc = "resolved"]
             won == [onPc EXCEPT !.winner = s]
  <1>1. onPc = ConsumerRow("resolved", me.job, me.query, me.todo, me.winner, me.blanks,
                           me.erred, me.last, me.work)
    BY RowChanged, Zenon
  <1>2. won = ConsumerRow("resolved", me.job, me.query, me.todo, s, me.blanks, me.erred, me.last, me.work)
    <2> HIDE DEF onPc
    <2> QED BY <1>1 DEF ConsumerRow
  <1>3. [won EXCEPT !.work = x]
          = ConsumerRow("resolved", me.job, me.query, me.todo, s, me.blanks, me.erred, me.last, x)
    <2> HIDE DEF won
    <2> QED BY <1>2 DEF ConsumerRow
  <1> QED BY <1>3, Zenon

(* One source more was asked: it has nothing, or could not say.            *)
LEMMA DiscoveryGoesOn ==
  ASSUME NEW me, NEW row, DiscoveryOK(me), me.todo \in Seq(DOMAIN Knows), me.todo # << >>,
         row.todo = Tail(me.todo), row.query = me.query,
         ~row.erred => ~me.erred /\ Draws(me.query, Head(me.todo))
  PROVE DiscoveryOK(row)
  <1>1. PICK n \in 0..Len(Discovery) :
          /\ Len(me.todo) = Len(Discovery) - n
          /\ \A i \in 1..Len(me.todo) : me.todo[i] = Discovery[n + i]
          /\ ~me.erred => \A i \in 1..n : Draws(me.query, Discovery[i])
    BY DEF DiscoveryOK
  <1>2. /\ Len(me.todo) \in Nat \ {0} /\ Len(Discovery) \in Nat
        /\ Len(row.todo) = Len(me.todo) - 1 /\ Head(me.todo) = me.todo[1]
        /\ \A i \in 1..Len(row.todo) : row.todo[i] = me.todo[i + 1]
    BY BackfillAssumption
  <1>3. n + 1 \in 0..Len(Discovery) /\ Len(row.todo) = Len(Discovery) - (n + 1)
    BY <1>1, <1>2
  <1>4. \A i \in 1..Len(row.todo) : row.todo[i] = Discovery[(n + 1) + i]
    <2> TAKE i \in 1..Len(row.todo)
    <2>1. i + 1 \in 1..Len(me.todo) /\ n + (i + 1) = (n + 1) + i
      BY <1>1, <1>2
    <2> QED BY <1>1, <1>2, <2>1
  <1>5. ~row.erred => \A i \in 1..(n + 1) : Draws(row.query, Discovery[i])
    <2> SUFFICES ASSUME ~row.erred, NEW i \in 1..(n + 1) PROVE Draws(row.query, Discovery[i])
      OBVIOUS
    <2>1. Head(me.todo) = Discovery[n + 1]
      BY <1>1, <1>2
    <2>2. i \in 1..n \/ i = n + 1
      BY <1>1
    <2> QED BY <1>1, <2>1, <2>2
  <1> QED BY <1>3, <1>4, <1>5 DEF DiscoveryOK

LEMMA AskSourceKeeps ==
  ASSUME BackfillHolds, NEW c \in Consumers, AskSource(c)
  PROVE Progress
  <1>1. BackfillTypeOK /\ BackfillInv /\ DayMeansUnknown
    BY DEF BackfillHolds
  <1>2. PICK me : me = consumer[c]
    OBVIOUS
  <1>3. ConsumerOK(me) /\ Plain(me) /\ AtWork(c)
    BY <1>1, <1>2, RowsArePlain DEF BackfillTypeOK, BackfillInv
  <1>4. me.pc = "discover" /\ me.todo # << >> /\ UNCHANGED <<queueVars, answers>>
    BY <1>2 DEF AskSource
  <1>5. DiscoveryOK(me) /\ (Owns(c, me.job) => me.last = LastAttempt(me.job))
    BY <1>2, <1>3, <1>4, Zenon DEF AtWork
  <1>6. /\ me.todo \in Seq(DOMAIN Knows) /\ Head(me.todo) \in DOMAIN Knows
        /\ Tail(me.todo) \in Seq(DOMAIN Knows) /\ Next1(c) = Head(me.todo)
        /\ me.job \in JobIds /\ me.query = me.job.query /\ me.query \in Queries
        /\ me.blanks \in Seq(DOMAIN Knows)
    <2>1. /\ me.todo \in Seq(DOMAIN Knows) /\ me.blanks \in Seq(DOMAIN Knows)
          /\ me.job \in JobIds /\ me.query = me.job.query /\ me.query \in Queries
      BY <1>3, <1>4 DEF ConsumerOK
    <2>2. Head(me.todo) \in DOMAIN Knows /\ Tail(me.todo) \in Seq(DOMAIN Knows)
      BY <1>4, <2>1, TailKeeps
    <2> QED BY <1>2, <2>1, <2>2 DEF Next1
  <1>7. resolved' = resolved /\ negative' = negative
    BY <1>4 DEF answers
  <1>8. AnswersStay /\ DayMeansUnknown'
    BY <1>1, <1>7 DEF AnswersStay, DayMeansUnknown, Draws
  <1>9. db \subseteq Works /\ attached \in [Works -> SUBSET DOMAIN Knows]
        /\ resolved' \in [Queries -> Works \cup {NoWork}]
        /\ negative' \in [Queries -> {"no", "minutes", "day"}]
    BY <1>1, <1>7 DEF BackfillTypeOK
  <1>10. UNCHANGED queueVars
    BY <1>4
  <1>11. CASE \E x \in Works :
                /\ db' = db \cup {x}
                /\ attached' = [attached EXCEPT ![x] = @ \cup {Head(me.todo)}]
                /\ consumer' = [consumer EXCEPT ![c] =
                                  [me EXCEPT !.pc = "resolved", !.winner = Head(me.todo), !.work = x]]
    <2>1. PICK x \in Works :
            /\ db' = db \cup {x}
            /\ attached' = [attached EXCEPT ![x] = @ \cup {Head(me.todo)}]
            /\ consumer' = [consumer EXCEPT ![c] =
                              [me EXCEPT !.pc = "resolved", !.winner = Head(me.todo), !.work = x]]
      BY <1>11
    <2>2. PICK row : row = [me EXCEPT !.pc = "resolved", !.winner = Head(me.todo), !.work = x]
      OBVIOUS
    <2>3. row = ConsumerRow("resolved", me.job, me.query, me.todo, Head(me.todo), me.blanks,
                            me.erred, me.last, x)
      BY <1>3, <2>2, RowWon, Zenon
    <2>4. ConsumerOK(row) /\ row.pc = "resolved"
      BY <1>3, <1>6, <2>3 DEF ConsumerOK, ConsumerRow
    <2>5. consumer' = [consumer EXCEPT ![c] = row]
      BY <2>1, <2>2, Zenon
    <2>6. db' \subseteq Works /\ attached' \in [Works -> SUBSET DOMAIN Knows]
      BY <1>6, <1>9, <2>1
    <2> QED BY <1>8, <1>9, <1>10, <2>4, <2>5, <2>6, ConsumerSteps
  <1>12. CASE /\ Draws(me.query, Head(me.todo)) /\ UNCHANGED <<db, attached>>
              /\ consumer' = [consumer EXCEPT ![c] = [me EXCEPT !.todo = Tail(me.todo), !.blanks = Blanks(me)]]
    <2>0. PICK drawn : drawn = Blanks(me)
      OBVIOUS
    <2>1. drawn \in Seq(DOMAIN Knows)
      <3>1. Append(me.blanks, Head(me.todo)) \in Seq(DOMAIN Knows)
        BY <1>6
      <3> QED BY <1>6, <2>0, <3>1 DEF Blanks
    <2>2. PICK rest, row : rest = Tail(me.todo) /\ row = [me EXCEPT !.todo = rest, !.blanks = drawn]
      OBVIOUS
    <2>3. row = ConsumerRow(me.pc, me.job, me.query, Tail(me.todo), me.winner, drawn,
                            me.erred, me.last, me.work)
      BY <1>3, <2>2, RowsChanged, Zenon
    <2>4. ConsumerOK(row) /\ row.pc = "discover" /\ row.todo = Tail(me.todo) /\ row.query = me.query
          /\ row.erred = me.erred /\ row.job = me.job /\ row.last = me.last
      BY <1>3, <1>4, <1>6, <2>1, <2>3 DEF ConsumerOK, ConsumerRow
    <2>5. DiscoveryOK(row)
      BY <1>4, <1>5, <1>6, <1>12, <2>4, DiscoveryGoesOn
    <2>6. consumer' = [consumer EXCEPT ![c] = row]
      BY <1>12, <2>0, <2>2, Zenon
    <2> QED BY <1>5, <1>8, <1>9, <1>10, <1>12, <2>4, <2>5, <2>6, ConsumerSteps
  <1>13. CASE /\ UNCHANGED <<db, attached>>
              /\ consumer' = [consumer EXCEPT ![c] = [me EXCEPT !.todo = Tail(me.todo), !.erred = TRUE]]
    <2>1. PICK row : row = [me EXCEPT !.todo = Tail(me.todo), !.erred = TRUE]
      OBVIOUS
    <2>2. row = ConsumerRow(me.pc, me.job, me.query, Tail(me.todo), me.winner, me.blanks,
                            TRUE, me.last, me.work)
      BY <1>3, <2>1, RowsChanged, Zenon
    <2>3. ConsumerOK(row) /\ row.pc = "discover" /\ row.todo = Tail(me.todo) /\ row.query = me.query
          /\ row.erred = TRUE /\ row.job = me.job /\ row.last = me.last
      BY <1>3, <1>4, <1>6, <2>2 DEF ConsumerOK, ConsumerRow
    <2>4. DiscoveryOK(row)
      BY <1>4, <1>5, <1>6, <2>3, DiscoveryGoesOn
    <2>5. consumer' = [consumer EXCEPT ![c] = row]
      BY <1>13, <2>1, Zenon
    <2> QED BY <1>5, <1>8, <1>9, <1>10, <1>13, <2>3, <2>4, <2>5, ConsumerSteps
  <1>14. ASSUME {x \in Works : <<me.query, x>> \in Knows[Head(me.todo)]} = {}
         PROVE Draws(me.query, Head(me.todo))
    BY <1>14 DEF Draws
  <1> QED BY <1>2, <1>6, <1>11, <1>12, <1>13, <1>14, Zenon DEF AskSource
(* The discovered book is in Redis from here on, so known.                 *)
LEMMA MarkResolvedKeeps ==
  ASSUME BackfillHolds, NEW c \in Consumers, MarkResolved(c)
  PROVE Progress
  <1>1. BackfillTypeOK /\ DayMeansUnknown
    BY DEF BackfillHolds
  <1>2. PICK me : me = consumer[c]
    OBVIOUS
  <1>3. ConsumerOK(me) /\ Plain(me)
    BY <1>1, <1>2, RowsArePlain DEF BackfillTypeOK
  <1>4. PICK again : again = IF NameOf[me.work] = me.query THEN << >> ELSE me.blanks
    OBVIOUS
  <1>5. PICK row, todo : todo = Enrichment \o again /\ row = [me EXCEPT !.pc = "enrich", !.todo = todo]
    OBVIOUS
  <1>6. /\ me.pc = "resolved" /\ resolved' = [resolved EXCEPT ![me.query] = me.work]
        /\ UNCHANGED <<queueVars, db, attached, negative>>
    BY <1>2, Zenon DEF MarkResolved
  <1>7. consumer' = [consumer EXCEPT ![c] = row]
    BY <1>2, <1>4, <1>5, Zenon DEF MarkResolved
  <1>8. /\ me.blanks \in Seq(DOMAIN Knows) /\ me.work \in Works
        /\ me.job \in JobIds /\ me.query = me.job.query /\ me.query \in Queries
    BY <1>3, <1>6 DEF ConsumerOK
  <1>9. todo \in Seq(DOMAIN Knows)
    <2> DEFINE S == DOMAIN Knows
    <2>1. Enrichment \in Seq(S) /\ me.blanks \in Seq(S)
      BY <1>8, BackfillAssumption
    <2> HIDE DEF S
    <2>2. << >> \in Seq(S)
      OBVIOUS
    <2>3. again \in Seq(S)
      BY <1>4, <2>1, <2>2, Zenon
    <2>4. todo \in Seq(S)
      BY <1>5, <2>1, <2>3
    <2> QED BY <2>4 DEF S
  <1>10. row = ConsumerRow("enrich", me.job, me.query, todo, me.winner, me.blanks,
                           me.erred, me.last, me.work)
    BY <1>3, <1>5, RowsChanged, Zenon
  <1>11. ConsumerOK(row) /\ row.pc = "enrich" /\ row.query = me.query
    BY <1>3, <1>8, <1>9, <1>10 DEF ConsumerOK, ConsumerRow
  <1>12. /\ resolved' \in [Queries -> Works \cup {NoWork}] /\ resolved'[me.query] = me.work
         /\ \A q \in Queries : resolved[q] # NoWork => resolved'[q] # NoWork
    BY <1>1, <1>6, <1>8, IdsAreOfQueries DEF BackfillTypeOK
  <1>13. /\ db' \subseteq Works /\ attached' \in [Works -> SUBSET DOMAIN Knows]
         /\ negative' \in [Queries -> {"no", "minutes", "day"}]
         /\ UNCHANGED queueVars /\ AnswersStay
    BY <1>1, <1>6, <1>12 DEF BackfillTypeOK, AnswersStay
  <1>14. DayMeansUnknown'
    BY <1>1, <1>6 DEF DayMeansUnknown, Draws
  <1>15. Known(row.query)' # "no"
    BY <1>8, <1>11, <1>12, IdsAreOfQueries DEF Known
  <1> QED BY <1>7, <1>11, <1>12, <1>13, <1>14, <1>15, ConsumerSteps

LEMMA EnrichKeeps ==
  ASSUME BackfillHolds, NEW c \in Consumers, Enrich(c)
  PROVE Progress
  <1>1. BackfillTypeOK /\ BackfillInv /\ DayMeansUnknown
    BY DEF BackfillHolds
  <1>2. PICK me : me = consumer[c]
    OBVIOUS
  <1>3. ConsumerOK(me) /\ Plain(me) /\ AtWork(c)
    BY <1>1, <1>2, RowsArePlain DEF BackfillTypeOK, BackfillInv
  <1>4. me.pc = "enrich" /\ me.todo # << >> /\ UNCHANGED <<queueVars, db, answers>>
    BY <1>2 DEF Enrich
  <1>5. PICK row, rest : rest = Tail(me.todo) /\ row = [me EXCEPT !.todo = rest]
    OBVIOUS
  <1>6. consumer' = [consumer EXCEPT ![c] = row]
    BY <1>1, <1>2, <1>5 DEF Enrich, BackfillTypeOK
  <1>7. /\ me.work \in Works /\ me.job \in JobIds /\ me.query = me.job.query /\ me.query \in Queries
        /\ me.todo \in Seq(DOMAIN Knows)
    BY <1>3, <1>4 DEF ConsumerOK
  <1>8. rest \in Seq(DOMAIN Knows) /\ Next1(c) \in DOMAIN Knows
    BY <1>2, <1>4, <1>5, <1>7, TailKeeps DEF Next1
  <1>9. row = ConsumerRow(me.pc, me.job, me.query, rest, me.winner, me.blanks,
                          me.erred, me.last, me.work)
    BY <1>3, <1>5, RowChanged, Zenon
  <1>10. ConsumerOK(row) /\ row.pc = "enrich" /\ row.query = me.query
    BY <1>3, <1>4, <1>7, <1>8, <1>9 DEF ConsumerOK, ConsumerRow
  <1>11. attached' \in [Works -> SUBSET DOMAIN Knows]
    <2>1. attached' = attached \/ attached' = [attached EXCEPT ![me.work] = @ \cup {Next1(c)}]
      BY <1>2 DEF Enrich
    <2> QED BY <1>1, <1>7, <1>8, <2>1 DEF BackfillTypeOK
  <1>12. resolved' = resolved /\ negative' = negative /\ db' = db
    BY <1>4 DEF answers
  <1>13. /\ db' \subseteq Works /\ resolved' \in [Queries -> Works \cup {NoWork}]
         /\ negative' \in [Queries -> {"no", "minutes", "day"}]
         /\ UNCHANGED queueVars /\ AnswersStay
    BY <1>1, <1>4, <1>12 DEF BackfillTypeOK, AnswersStay
  <1>14. DayMeansUnknown'
    BY <1>1, <1>12 DEF DayMeansUnknown, Draws
  <1>15. Known(row.query)' # "no"
    <2>1. Known(me.query) # "no"
      BY <1>2, <1>3, <1>4, Zenon DEF AtWork
    <2> QED BY <1>7, <1>10, <1>13, <2>1, KnownStays
  <1> QED BY <1>6, <1>10, <1>11, <1>13, <1>14, <1>15, ConsumerSteps

(* Only a discovery without an error in it leaves a day of "nothing"; and  *)
(* the handler throws only where the queue has a retry left, so its job is *)
(* not failed for good.                                                    *)
LEMMA GiveUpKeeps ==
  ASSUME BackfillHolds, NEW c \in Consumers, GiveUp(c)
  PROVE Progress
  <1>1. BackfillTypeOK /\ BackfillInv /\ DayMeansUnknown /\ QueueInv
    BY DEF BackfillHolds
  <1>2. PICK me : me = consumer[c]
    OBVIOUS
  <1>3. ConsumerOK(me) /\ Plain(me) /\ AtWork(c)
    BY <1>1, <1>2, RowsArePlain DEF BackfillTypeOK, BackfillInv
  <1>4. me.pc = "discover" /\ me.todo = << >> /\ UNCHANGED <<db, attached, resolved>>
    BY <1>2 DEF GiveUp
  <1>5. DiscoveryOK(me) /\ (Owns(c, me.job) => me.last = LastAttempt(me.job))
    BY <1>2, <1>3, <1>4, Zenon DEF AtWork
  <1>6. me.job \in JobIds /\ me.query = me.job.query /\ me.query \in Queries
    BY <1>3, <1>4 DEF ConsumerOK
  <1>7. CASE /\ ~me.last /\ FailAttempt(c, me.job) /\ UNCHANGED negative
             /\ consumer' = [consumer EXCEPT ![c] = Idle]
    <2>1. QueueInv' /\ KeepsData /\ JobsStay
      BY <1>1, <1>6, <1>7, FailAttemptKeeps, DataStays DEF JobsStay
    <2>2. \/ jobs' = jobs
          \/ Others(me.job) /\ jobs'[me.job].state = "delayed"
      <3>1. CASE Owns(c, me.job)
        <4>1. /\ Others(me.job)
              /\ jobs'[me.job] = Job("delayed", jobs[me.job], jobs[me.job].made + 1,
                                     jobs[me.job].stalls, Nobody)
          BY <1>1, <1>5, <1>6, <1>7, <3>1, FailAttemptRow
        <4> QED BY <4>1 DEF Job
      <3>2. CASE ~Owns(c, me.job)
        BY <1>1, <1>6, <1>7, <3>2, FailAttemptRow
      <3> QED BY <3>1, <3>2
    <2>3. ASSUME NEW d \in Consumers, NEW id \in JobIds, Owns(d, id)'
          PROVE Owns(d, id) /\ jobs'[id].made = jobs[id].made
      BY <2>2, <2>3 DEF Owns, Others
    <2>4. \A id \in JobIds : jobs'[id] = jobs[id] \/ jobs'[id].state \notin {"completed", "failed"}
      BY <2>2 DEF Others
    <2>5. UNCHANGED answers /\ UNCHANGED <<db, attached>>
      BY <1>4, <1>7 DEF answers
    <2> QED BY <1>7, <2>1, <2>3, <2>4, <2>5, JobLeaves
  <1>8. CASE /\ UNCHANGED queueVars /\ consumer' = [consumer EXCEPT ![c].pc = "enrich"]
             /\ negative' = [negative EXCEPT ![me.query] = IF me.erred THEN "minutes" ELSE "day"]
    <2>1. PICK row : row = [me EXCEPT !.pc = "enrich"]
      OBVIOUS
    <2>2. consumer' = [consumer EXCEPT ![c] = row]
      BY <1>1, <1>2, <1>8, <2>1 DEF BackfillTypeOK
    <2>3. row = ConsumerRow("enrich", me.job, me.query, me.todo, me.winner, me.blanks,
                            me.erred, me.last, me.work)
      BY <1>3, <2>1, RowChanged, Zenon
    <2>4. ConsumerOK(row) /\ row.pc = "enrich" /\ row.query = me.query
      BY <1>3, <1>4, <1>6, <2>3 DEF ConsumerOK, ConsumerRow
    <2>5. /\ negative' \in [Queries -> {"no", "minutes", "day"}]
          /\ negative'[me.query] = (IF me.erred THEN "minutes" ELSE "day")
          /\ \A q \in Queries : q # me.query => negative'[q] = negative[q]
      BY <1>1, <1>6, <1>8 DEF BackfillTypeOK
    <2>6. /\ db' \subseteq Works /\ attached' \in [Works -> SUBSET DOMAIN Knows]
          /\ resolved' \in [Queries -> Works \cup {NoWork}] /\ AnswersStay
      <3>1. negative'[me.query] # "no"
        BY <2>5
      <3> QED BY <1>1, <1>4, <2>5, <3>1 DEF BackfillTypeOK, AnswersStay
    <2>7. ~me.erred => \A i \in 1..Len(Discovery) : Draws(me.query, Discovery[i])
      <3>1. PICK n \in 0..Len(Discovery) :
              /\ Len(me.todo) = Len(Discovery) - n
              /\ ~me.erred => \A i \in 1..n : Draws(me.query, Discovery[i])
        BY <1>5 DEF DiscoveryOK
      <3>2. Len(me.todo) = 0 /\ Len(Discovery) \in Nat
        BY <1>4, BackfillAssumption
      <3>3. n = Len(Discovery)
        BY <3>1, <3>2
      <3> QED BY <3>1, <3>3
    <2>8. DayMeansUnknown'
      <3>1. ASSUME NEW q \in Queries, negative'[q] = "day"
            PROVE \A i \in 1..Len(Discovery) : Draws(q, Discovery[i])
        <4>1. CASE q = me.query
          BY <2>5, <2>7, <3>1, <4>1
        <4>2. CASE q # me.query
          BY <1>1, <2>5, <3>1, <4>2 DEF DayMeansUnknown
        <4> QED BY <4>1, <4>2
      <3> QED BY <3>1 DEF DayMeansUnknown, Draws
    <2>9. Known(row.query)' # "no"
      BY <2>4, <2>5 DEF Known
    <2>10. UNCHANGED queueVars
      BY <1>8
    <2> QED BY <2>2, <2>4, <2>5, <2>6, <2>8, <2>9, <2>10, ConsumerSteps
  <1> QED BY <1>2, <1>7, <1>8, Zenon DEF GiveUp

LEMMA FinishJobKeeps ==
  ASSUME BackfillHolds, NEW c \in Consumers, FinishJob(c)
  PROVE Progress
  <1>1. BackfillTypeOK /\ BackfillInv /\ QueueInv
    BY DEF BackfillHolds
  <1>2. PICK me : me = consumer[c]
    OBVIOUS
  <1>3. /\ me.pc = "enrich" /\ Complete(c, me.job) /\ consumer' = [consumer EXCEPT ![c] = Idle]
        /\ UNCHANGED <<db, attached>> /\ UNCHANGED answers
    BY <1>2 DEF FinishJob
  <1>4. ConsumerOK(me) /\ AtWork(c)
    BY <1>1, <1>2 DEF BackfillTypeOK, BackfillInv
  <1>5. me.job \in JobIds /\ me.query = me.job.query /\ Known(me.job.query) # "no"
    BY <1>2, <1>3, <1>4 DEF ConsumerOK, AtWork
  <1>6. QueueInv' /\ KeepsData /\ JobsStay
    BY <1>1, <1>3, <1>5, CompleteKeeps, DataStays DEF JobsStay
  <1>7. jobs' = jobs \/ (Others(me.job) /\ jobs'[me.job].state = "completed")
    <2>1. \/ jobs' = jobs
          \/ /\ Others(me.job)
             /\ jobs'[me.job] = Job("completed", jobs[me.job], jobs[me.job].made, jobs[me.job].stalls, Nobody)
      BY <1>1, <1>3, <1>5, CompleteRow
    <2> QED BY <2>1 DEF Job
  <1>8. ASSUME NEW d \in Consumers, NEW id \in JobIds, Owns(d, id)'
        PROVE Owns(d, id) /\ jobs'[id].made = jobs[id].made
    BY <1>7, <1>8 DEF Owns, Others
  <1>9. AnswersStay
    BY <1>3 DEF AnswersStay, answers
  <1>10. Known(me.job.query)' # "no"
    BY <1>5, <1>9, IdsAreOfQueries, KnownStays
  <1>11. \A id \in JobIds : \/ jobs'[id] = jobs[id]
                            \/ jobs'[id].state = "completed" /\ Known(id.query)' # "no"
    BY <1>7, <1>10 DEF Others
  <1> QED BY <1>3, <1>6, <1>8, <1>11, JobLeaves

LEMMA DieKeeps ==
  ASSUME BackfillHolds, NEW c \in Consumers, Die(c)
  PROVE Progress
  <1>1. /\ UNCHANGED queueVars /\ UNCHANGED answers /\ UNCHANGED <<db, attached>>
        /\ consumer' = [consumer EXCEPT ![c] = Idle] /\ jobs' = jobs /\ QueueInv
    BY DEF Die, queueVars, BackfillHolds
  <1>2. QueueInv'
    BY <1>1, QueueStutters
  <1>3. JobsStay
    BY <1>1 DEF JobsStay, Forgets
  <1>4. \A d \in Consumers, id \in JobIds :
          Owns(d, id)' => Owns(d, id) /\ jobs'[id].made = jobs[id].made
    BY <1>1 DEF Owns
  <1> QED BY <1>1, <1>2, <1>3, <1>4, JobLeaves

LEMMA LoseLockKeeps ==
  ASSUME BackfillHolds, NEW id \in JobIds, LoseLock(id)
  PROVE Progress
  <1>1. Stall(id) /\ UNCHANGED answers /\ UNCHANGED <<db, attached>> /\ consumer' = consumer /\ QueueInv
    BY DEF LoseLock, BackfillHolds
  <1>2. QueueInv' /\ KeepsData /\ JobsStay
    BY <1>1, StallKeeps, DataStays DEF JobsStay
  <1>3. /\ Others(id)
        /\ \/ jobs'[id].state = "failed" /\ jobs'[id].stalls = 1
           \/ jobs'[id].state = "waiting"
    <2>1. /\ Others(id)
          /\ \/ jobs'[id] = Job("failed", jobs[id], jobs[id].made, 1, Nobody)
             \/ jobs'[id] = Job("waiting", jobs[id], jobs[id].made, 1, Nobody)
      BY <1>1, StallRow
    <2> QED BY <2>1 DEF Job
  <1>4. ASSUME NEW d \in Consumers, NEW x \in JobIds, Owns(d, x)'
        PROVE Owns(d, x) /\ jobs'[x].made = jobs[x].made
    BY <1>3, <1>4 DEF Owns, Others
  <1>5. \A x \in JobIds : \/ jobs'[x] = jobs[x]
                          \/ jobs'[x].state \notin {"completed", "failed"}
                          \/ jobs'[x].state = "failed" /\ jobs'[x].stalls = 1
    BY <1>3 DEF Others
  <1> QED BY <1>1, <1>2, <1>4, <1>5, JobLeaves

LEMMA RequeueKeeps ==
  ASSUME BackfillHolds, NEW id \in JobIds, Requeue(id)
  PROVE Progress
  <1>1. BackoffOver(id) /\ UNCHANGED answers /\ UNCHANGED <<db, attached>> /\ consumer' = consumer /\ QueueInv
    BY DEF Requeue, BackfillHolds
  <1>2. QueueInv' /\ KeepsData /\ JobsStay
    BY <1>1, BackoffOverKeeps, DataStays DEF JobsStay
  <1>3. Others(id) /\ jobs'[id].state = "waiting"
    <2>1. /\ Others(id)
          /\ jobs'[id] = Job("waiting", jobs[id], jobs[id].made, jobs[id].stalls, jobs[id].owner)
      BY <1>1, BackoffOverRow
    <2> QED BY <2>1 DEF Job
  <1>4. ASSUME NEW d \in Consumers, NEW x \in JobIds, Owns(d, x)'
        PROVE Owns(d, x) /\ jobs'[x].made = jobs[x].made
    BY <1>3, <1>4 DEF Owns, Others
  <1>5. \A x \in JobIds : jobs'[x] = jobs[x] \/ jobs'[x].state \notin {"completed", "failed"}
    BY <1>3 DEF Others
  <1> QED BY <1>1, <1>2, <1>4, <1>5, JobLeaves

LEMMA WorkerKeeps ==
  ASSUME BackfillHolds, NEW c \in Consumers, WorkerStep(c)
  PROVE Progress
  BY BeginJobKeeps, AskSourceKeeps, MarkResolvedKeeps, EnrichKeeps, GiveUpKeeps, FinishJobKeeps,
     DieKeeps DEF WorkerStep

(* A search or a page adds its job, or finds it there. *)
LEMMA EnqueueProgress ==
  ASSUME BackfillHolds, NEW id \in JobIds, NEW deferred \in BOOLEAN,
         Enqueue(id, id.query, deferred), UNCHANGED <<db, attached, answers, consumer>>
  PROVE /\ Progress
        /\ (jobs'[id] = jobs[id] /\ jobs[id].state # "absent") \/ jobs'[id].state = "waiting"
  <1>1. BackfillTypeOK /\ BackfillInv /\ QueueInv /\ id.query \in Payloads
    BY IdsAreOfQueries, BackfillAssumption DEF BackfillHolds
  <1>2. QueueInv'
    BY <1>1, EnqueueKeeps
  <1>3. /\ Others(id)
        /\ \/ jobs[id].state # "absent" /\ jobs'[id] = jobs[id]
           \/ /\ jobs'[id].state = "waiting" /\ jobs'[id].data = id.query
              /\ jobs'[id].owner = Nobody /\ jobs[id].state = "absent"
    <2>1. /\ Others(id)
          /\ jobs[id].state # "absent" => jobs'[id] = jobs[id]
          /\ jobs[id].state = "absent" =>
               jobs'[id] = [state |-> "waiting", data |-> id.query, deferred |-> deferred, made |-> 0,
                            stalls |-> 0, owner |-> Nobody]
      BY <1>1, EnqueueRow
    <2> QED BY <2>1
  <1>4. UNCHANGED answers /\ UNCHANGED <<db, attached>> /\ consumer' = consumer /\ AnswersStay
    BY DEF answers, AnswersStay
  <1>5. \A x \in JobIds : JobNamed(x)'
    BY <1>1, <1>3 DEF BackfillTypeOK, JobNamed, Others
  <1>6. \A x \in JobIds : Settled(x)'
    BY <1>1, <1>3, <1>4, SettledStays DEF Others
  <1>7. ASSUME NEW d \in Consumers PROVE AtWork(d)'
    <2>1. ASSUME NEW x \in JobIds, Owns(d, x)'
          PROVE Owns(d, x) /\ jobs'[x].made = jobs[x].made
      BY <1>3, <2>1 DEF Owns, Others
    <2> QED BY <1>1, <1>4, <2>1, AtWorkStays
  <1>8. DOMAIN consumer' = Consumers /\ \A d \in Consumers : ConsumerOK(consumer'[d])
    BY <1>1, <1>4 DEF BackfillTypeOK
  <1>9. BackfillHolds'
    BY <1>2, <1>4, <1>5, <1>6, <1>7, <1>8, JobsStep
  <1>10. JobsStay
    BY <1>3 DEF JobsStay, Forgets, Others
  <1> QED BY <1>3, <1>4, <1>9, <1>10 DEF Progress

-----------------------------------------------------------------------------
(* What the reader's side keeps. *)
ReaderHolds ==
  /\ shelf \in [Queries -> [work : Works \cup {NoWork}, weak : BOOLEAN]]
  /\ DOMAIN req = Requests /\ \A r \in Requests : ReqOK(req[r])
  /\ BoxOK /\ PendingIsWorkedOn /\ ToldPending /\ AnswersStick /\ RequestsRemember

LEMMA TwoSides == SearchInv <=> BackfillHolds /\ ReaderHolds
  BY DEF SearchInv, SearchTypeOK, BackfillHolds, ReaderHolds, QueueInv

LEMMA WorkedOnStays ==
  ASSUME BackfillHolds, Progress, NEW q \in Queries, WorkedOn(q)
  PROVE WorkedOn(q)'
  <1>1. PICK id \in JobIds : id = SearchJob(q) /\ id.query = q
    BY IdsAreOfQueries
  <1>2. AnswersStay /\ ~Forgets(id) /\ Settled(id)' /\ QueueInv'
    BY DEF Progress, JobsStay, BackfillHolds, BackfillInv
  <1>3. jobs'[id].state \in {"absent", "waiting", "active", "delayed", "completed", "failed"}
    BY <1>2 DEF QueueInv, QueueTypeOK, QueuedJob
  <1>4. Known(q) # "no" => Known(q)' # "no"
    BY <1>2, KnownStays
  <1>5. jobs[id].state # "absent" => jobs'[id].state # "absent"
    BY <1>2 DEF Forgets
  <1>6. Known(q)' # "no" \/ jobs[id].state # "absent"
    BY <1>1, <1>4 DEF WorkedOn
  <1>7. /\ jobs'[id].state = "completed" => Known(q)' # "no"
        /\ jobs'[id].state = "failed" => jobs'[id].stalls = 1
    BY <1>1, <1>2 DEF Settled
  <1>8. \/ jobs'[id].state \in {"waiting", "active", "delayed"}
        \/ Known(q)' # "no"
        \/ jobs'[id].state = "failed" /\ jobs'[id].stalls = 1
    BY <1>3, <1>5, <1>6, <1>7
  <1> QED BY <1>1, <1>8 DEF WorkedOn, SearchJob

(* The worker and the queue do the reader no harm. *)
LEMMA ReadersWait ==
  ASSUME BackfillHolds, ReaderHolds, Progress, UNCHANGED searchVars
  PROVE ReaderHolds'
  <1>1. shelf' = shelf /\ req' = req /\ box' = box
    BY DEF searchVars
  <1>2. AnswersStay
    BY DEF Progress
  <1>3. BoxOK' /\ DOMAIN req' = Requests /\ \A r \in Requests : ReqOK(req'[r])
    BY <1>1 DEF ReaderHolds, BoxOK
  <1>4. PendingIsWorkedOn'
    BY <1>1, WorkedOnStays DEF ReaderHolds, PendingIsWorkedOn, BoxOK
  <1>5. ToldPending'
    BY <1>1, WorkedOnStays DEF ReaderHolds, ToldPending, ReqOK, At
  <1>6. AnswersStick'
    BY <1>1 DEF ReaderHolds, AnswersStick, At
  <1>7. RequestsRemember'
    BY <1>1, <1>2 DEF ReaderHolds, RequestsRemember, Served, ReqOK, AnswersStay
  <1> QED BY <1>1, <1>3, <1>4, <1>5, <1>6, <1>7 DEF ReaderHolds, ReqOK

LEMMA BackfillRests ==
  ASSUME BackfillHolds, UNCHANGED queueVars, UNCHANGED <<db, attached>>, UNCHANGED answers,
         consumer' = consumer
  PROVE Progress
  <1>1. QueueInv' /\ jobs' = jobs
    BY QueueStutters DEF BackfillHolds, queueVars
  <1>2. JobsStay
    BY <1>1 DEF JobsStay, Forgets
  <1>3. \A d \in Consumers, id \in JobIds :
          Owns(d, id)' => Owns(d, id) /\ jobs'[id].made = jobs[id].made
    BY <1>1 DEF Owns
  <1> QED BY <1>1, <1>2, <1>3, JobLeaves

(* What a request may be left with. *)
Honest(row) ==
  /\ ReqOK(row)
  /\ row.pc = "answered" /\ row.status = "pending" => WorkedOn(row.query)
  /\ row.pc = "answered" /\ row.status # "error" =>
       /\ row.known = "found" => row.status = "found"
       /\ row.known = "not_found" => row.status # "pending"
  /\ row.pc \notin {"free", "answered"} =>
       /\ row.known = "found" => resolved[row.query] # NoWork /\ row.pc \notin {"negative", "enqueue"}
       /\ row.known = "not_found" => negative[row.query] # "no" /\ row.pc # "enqueue"

LEMMA RequestsAreHonest ==
  (\A r \in Requests : Honest(req[r]))
    <=> (\A r \in Requests : ReqOK(req[r])) /\ ToldPending /\ AnswersStick /\ RequestsRemember
  BY Zenon DEF Honest, ToldPending, AnswersStick, RequestsRemember, At, Served

LEMMA HonestStays ==
  ASSUME BackfillHolds, Progress, NEW row, Honest(row)
  PROVE Honest(row)'
  <1>1. AnswersStay /\ ReqOK(row) /\ ReqOK(row)'
    BY DEF Progress, Honest, ReqOK
  <1>2. row.pc # "free" => row.query \in Queries
    BY <1>1 DEF ReqOK
  <1>3. row.pc = "answered" /\ row.status = "pending" => WorkedOn(row.query)'
    BY <1>2, WorkedOnStays DEF Honest
  <1>4. row.pc \notin {"free", "answered"} =>
          /\ row.known = "found" => resolved'[row.query] # NoWork /\ row.pc \notin {"negative", "enqueue"}
          /\ row.known = "not_found" => negative'[row.query] # "no" /\ row.pc # "enqueue"
    BY <1>1, <1>2 DEF Honest, AnswersStay
  <1> QED BY <1>1, <1>3, <1>4 DEF Honest

(* One request moves, whatever becomes of the box. *)
LEMMA RequestMoves ==
  ASSUME BackfillHolds, ReaderHolds, Progress, NEW r \in Requests, NEW row,
         req' = [req EXCEPT ![r] = row], Honest(row)',
         shelf' \in [Queries -> [work : Works \cup {NoWork}, weak : BOOLEAN]],
         BoxOK', PendingIsWorkedOn'
  PROVE ReaderHolds'
  <1>1. /\ DOMAIN req' = Requests /\ req'[r] = row /\ \A x \in Requests \ {r} : req'[x] = req[x]
    BY DEF ReaderHolds
  <1>2. \A x \in Requests : Honest(req[x])
    BY RequestsAreHonest DEF ReaderHolds
  <1>3. \A x \in Requests : Honest(req[x])'
    <2> SUFFICES ASSUME NEW x \in Requests PROVE Honest(req[x])'
      OBVIOUS
    <2>1. CASE x = r
      BY <1>1, <2>1 DEF Honest, ReqOK, WorkedOn, Known
    <2>2. CASE x # r
      <3>1. PICK was : was = req[x]
        OBVIOUS
      <3>2. Honest(was)'
        BY <1>2, <3>1, HonestStays
      <3>3. req'[x] = was
        BY <1>1, <2>2, <3>1
      <3> QED BY <3>2, <3>3 DEF Honest, ReqOK, WorkedOn, Known
    <2> QED BY <2>1, <2>2
  <1>4. (\A x \in Requests : ReqOK(req'[x])) /\ ToldPending' /\ AnswersStick' /\ RequestsRemember'
    BY <1>3, Zenon DEF Honest, ToldPending, AnswersStick, RequestsRemember, At, Served
  <1> QED BY <1>1, <1>4 DEF ReaderHolds

(* ... and where the box does not move. *)
LEMMA BoxWaits ==
  ASSUME BackfillHolds, ReaderHolds, Progress, UNCHANGED box
  PROVE BoxOK' /\ PendingIsWorkedOn'
  <1>1. BoxOK'
    BY DEF ReaderHolds, BoxOK
  <1>2. PendingIsWorkedOn'
    BY WorkedOnStays DEF ReaderHolds, PendingIsWorkedOn, BoxOK
  <1> QED BY <1>1, <1>2

ReqRow(pc, query, work, known, status, attempt) ==
  [pc |-> pc, query |-> query, work |-> work, known |-> known, status |-> status, attempt |-> attempt]

LEMMA ReqChanged ==
  ASSUME NEW me, ReqOK(me), NEW pc
  PROVE [me EXCEPT !.pc = pc] = ReqRow(pc, me.query, me.work, me.known, me.status, me.attempt)
  BY DEF ReqOK, ReqRow

LEMMA ReqHit ==
  ASSUME NEW me, ReqOK(me), NEW pc, NEW x
  PROVE [me EXCEPT !.pc = pc, !.work = x] = ReqRow(pc, me.query, x, me.known, me.status, me.attempt)
  <1> DEFINE onPc == [me EXCEPT !.pc = pc]
  <1>1. onPc = ReqRow(pc, me.query, me.work, me.known, me.status, me.attempt)
    BY ReqChanged
  <1>2. [onPc EXCEPT !.work = x] = ReqRow(pc, me.query, x, me.known, me.status, me.attempt)
    <2> HIDE DEF onPc
    <2> QED BY <1>1 DEF ReqRow
  <1> QED BY <1>2, Zenon

LEMMA ReqLost ==
  ASSUME NEW me, ReqOK(me), NEW status
  PROVE [me EXCEPT !.pc = "answered", !.status = status]
          = ReqRow("answered", me.query, me.work, me.known, status, me.attempt)
  <1> DEFINE onPc == [me EXCEPT !.pc = "answered"]
  <1>1. onPc = ReqRow("answered", me.query, me.work, me.known, me.status, me.attempt)
    BY ReqChanged
  <1>2. [onPc EXCEPT !.status = status]
          = ReqRow("answered", me.query, me.work, me.known, status, me.attempt)
    <2> HIDE DEF onPc
    <2> QED BY <1>1 DEF ReqRow
  <1> QED BY <1>2, Zenon

LEMMA ReqAnswered ==
  ASSUME NEW me, ReqOK(me), NEW status, NEW x
  PROVE [me EXCEPT !.pc = "answered", !.status = status, !.work = x]
          = ReqRow("answered", me.query, x, me.known, status, me.attempt)
  <1> DEFINE lost == [me EXCEPT !.pc = "answered", !.status = status]
  <1>1. lost = ReqRow("answered", me.query, me.work, me.known, status, me.attempt)
    BY ReqLost, Zenon
  <1>2. [lost EXCEPT !.work = x] = ReqRow("answered", me.query, x, me.known, status, me.attempt)
    <2> HIDE DEF lost
    <2> QED BY <1>1 DEF ReqRow
  <1> QED BY <1>2, Zenon

(* The three ways a request goes on. *)
LEMMA StepsOn ==
  ASSUME ReaderHolds, NEW r \in Requests, NEW pc, Step(r, pc)
  PROVE req' = [req EXCEPT ![r] = ReqRow(pc, req[r].query, req[r].work, req[r].known,
                                         req[r].status, req[r].attempt)]
  <1>1. req' = [req EXCEPT ![r] = [req[r] EXCEPT !.pc = pc]]
    BY DEF Step, ReaderHolds
  <1>2. [req[r] EXCEPT !.pc = pc]
          = ReqRow(pc, req[r].query, req[r].work, req[r].known, req[r].status, req[r].attempt)
    BY ReqChanged, Zenon DEF ReaderHolds
  <1> QED BY <1>1, <1>2, Zenon

LEMMA HitsOn ==
  ASSUME ReaderHolds, NEW r \in Requests, NEW pc, NEW x, Hit(r, pc, x)
  PROVE req' = [req EXCEPT ![r] = ReqRow(pc, req[r].query, x, req[r].known,
                                         req[r].status, req[r].attempt)]
  <1>1. [req[r] EXCEPT !.pc = pc, !.work = x]
          = ReqRow(pc, req[r].query, x, req[r].known, req[r].status, req[r].attempt)
    BY ReqHit, Zenon DEF ReaderHolds
  <1> QED BY <1>1, Zenon DEF Hit

LEMMA AnswersOn ==
  ASSUME ReaderHolds, NEW r \in Requests, NEW status, NEW x, Answer(r, status, x)
  PROVE req' = [req EXCEPT ![r] = ReqRow("answered", req[r].query, x, req[r].known,
                                         status, req[r].attempt)]
  <1>1. [req[r] EXCEPT !.pc = "answered", !.status = status, !.work = x]
          = ReqRow("answered", req[r].query, x, req[r].known, status, req[r].attempt)
    BY ReqAnswered, Zenon DEF ReaderHolds
  <1> QED BY <1>1, Zenon DEF Answer

(* A request being served, as it stands. *)
LEMMA ServedRow ==
  ASSUME ReaderHolds, NEW r \in Requests, NEW me, me = req[r], me.pc \notin {"free", "answered"}
  PROVE /\ ReqOK(me) /\ Asked(r) = me.query /\ me.query \in Queries
        /\ me.known = "found" => resolved[me.query] # NoWork /\ me.pc \notin {"negative", "enqueue"}
        /\ me.known = "not_found" => negative[me.query] # "no" /\ me.pc # "enqueue"
  BY DEF ReaderHolds, RequestsRemember, Served, ReqOK, Asked

(* The steps of a search that only read and write Redis. *)
LEMMA ServeReads ==
  ASSUME BackfillHolds, ReaderHolds, NEW r \in Requests,
         ReadResults(r) \/ SearchText(r) \/ CacheResults(r) \/ ReadResolved(r) \/ ReadNegative(r)
  PROVE ReaderHolds' /\ Progress
  <1>1. UNCHANGED backfillVars /\ box' = box
    BY DEF ReadResults, SearchText, CacheResults, ReadResolved, ReadNegative
  <1>2. Progress
    BY <1>1, BackfillRests DEF backfillVars
  <1>3. BoxOK' /\ PendingIsWorkedOn'
    BY <1>1, <1>2, BoxWaits
  <1>4. PICK me : me = req[r]
    OBVIOUS
  <1>5. me.pc \notin {"free", "answered"}
    BY <1>4 DEF ReadResults, SearchText, CacheResults, ReadResolved, ReadNegative, At
  <1>6. /\ ReqOK(me) /\ Asked(r) = me.query /\ me.query \in Queries
        /\ me.known = "found" => resolved[me.query] # NoWork /\ me.pc \notin {"negative", "enqueue"}
        /\ me.known = "not_found" => negative[me.query] # "no" /\ me.pc # "enqueue"
    BY <1>4, <1>5, ServedRow
  <1>7. resolved' = resolved /\ negative' = negative /\ BackfillTypeOK
    BY <1>1 DEF backfillVars, answers, BackfillHolds
  <1>8. ASSUME NEW pc \in {"search", "question", "cacheStrong", "cacheWeak", "resolved", "negative", "enqueue"},
               NEW x \in Works \cup {NoWork},
               req' = [req EXCEPT ![r] = ReqRow(pc, me.query, x, me.known, me.status, me.attempt)],
               me.known = "found" => pc \notin {"negative", "enqueue"},
               me.known = "not_found" => pc # "enqueue", shelf' = shelf
        PROVE ReaderHolds'
    <2>1. PICK row : row = ReqRow(pc, me.query, x, me.known, me.status, me.attempt)
      OBVIOUS
    <2>2. ReqOK(row) /\ row.pc = pc /\ row.query = me.query /\ row.known = me.known
      BY <1>6, <1>8, <2>1 DEF ReqOK, ReqRow
    <2>3. Honest(row)'
      BY <1>6, <1>7, <1>8, <2>2 DEF Honest, ReqOK
    <2>4. shelf' \in [Queries -> [work : Works \cup {NoWork}, weak : BOOLEAN]]
      BY <1>8 DEF ReaderHolds
    <2> QED BY <1>2, <1>3, <1>8, <2>1, <2>3, <2>4, RequestMoves
  <1>9. ASSUME NEW x \in Works \cup {NoWork}, NEW status \in {"found", "not_found"},
               req' = [req EXCEPT ![r] = ReqRow("answered", me.query, x, me.known, status, me.attempt)],
               me.known = "found" => status = "found",
               shelf' \in [Queries -> [work : Works \cup {NoWork}, weak : BOOLEAN]]
        PROVE ReaderHolds'
    <2>1. PICK row : row = ReqRow("answered", me.query, x, me.known, status, me.attempt)
      OBVIOUS
    <2>2. ReqOK(row) /\ row.pc = "answered" /\ row.query = me.query /\ row.known = me.known /\ row.status = status
      BY <1>6, <1>9, <2>1 DEF ReqOK, ReqRow
    <2>3. Honest(row)'
      BY <1>9, <2>2 DEF Honest, ReqOK
    <2> QED BY <1>2, <1>3, <1>9, <2>1, <2>3, RequestMoves
  <1>10. me.work \in Works \cup {NoWork}
    BY <1>6 DEF ReqOK
  <1>11. ASSUME NEW pc \in {"search", "resolved", "negative", "enqueue"}, Step(r, pc),
                me.known = "found" => pc \notin {"negative", "enqueue"},
                me.known = "not_found" => pc # "enqueue", shelf' = shelf
         PROVE ReaderHolds'
    <2>1. req' = [req EXCEPT ![r] = ReqRow(pc, me.query, me.work, me.known, me.status, me.attempt)]
      BY <1>4, <1>11, StepsOn, Zenon
    <2> QED BY <1>8, <1>10, <1>11, <2>1
  <1>12. ASSUME NEW pc \in {"cacheStrong", "question"}, NEW x \in Works, Hit(r, pc, x), shelf' = shelf
         PROVE ReaderHolds'
    <2>1. req' = [req EXCEPT ![r] = ReqRow(pc, me.query, x, me.known, me.status, me.attempt)]
      BY <1>4, <1>12, HitsOn, Zenon
    <2>2. pc \notin {"negative", "enqueue"}
      BY <1>12
    <2> QED BY <1>8, <1>12, <2>1, <2>2
  <1>13. ASSUME NEW status \in {"found", "not_found"}, NEW x \in Works \cup {NoWork},
                Answer(r, status, x), me.known = "found" => status = "found",
                shelf' \in [Queries -> [work : Works \cup {NoWork}, weak : BOOLEAN]]
         PROVE ReaderHolds'
    <2>1. req' = [req EXCEPT ![r] = ReqRow("answered", me.query, x, me.known, status, me.attempt)]
      BY <1>4, <1>13, AnswersOn, Zenon
    <2> QED BY <1>9, <1>13, <2>1
  <1>14. /\ shelf \in [Queries -> [work : Works \cup {NoWork}, weak : BOOLEAN]]
         /\ shelf[me.query].work \in Works \cup {NoWork}
    BY <1>6 DEF ReaderHolds
  <1>15. CASE ReadResults(r)
    <2>1. shelf' = shelf
      BY <1>15 DEF ReadResults
    <2>2. CASE Step(r, "search")
      BY <1>2, <1>11, <2>1, <2>2
    <2>3. CASE Answer(r, "found", shelf[me.query].work)
      BY <1>2, <1>13, <1>14, <2>1, <2>3
    <2> QED BY <1>6, <1>15, <2>2, <2>3 DEF ReadResults
  <1>16. CASE SearchText(r)
    <2>1. shelf' = shelf
      BY <1>16 DEF SearchText
    <2>2. CASE Step(r, "resolved")
      BY <1>2, <1>11, <2>1, <2>2
    <2>3. CASE \E x \in Works : Hit(r, "cacheStrong", x) \/ Hit(r, "question", x)
      BY <1>2, <1>12, <2>1, <2>3
    <2>4. SureHits(Asked(r)) \subseteq Works /\ DoubtedHits(Asked(r)) \subseteq Works
      BY <1>7 DEF SureHits, DoubtedHits, BackfillTypeOK
    <2> QED BY <1>16, <2>2, <2>3, <2>4, Zenon DEF SearchText
  <1>17. CASE CacheResults(r)
    <2>1. shelf' = [shelf EXCEPT ![me.query] = [work |-> me.work, weak |-> At(r, "cacheWeak")]]
      BY <1>4, <1>6, <1>17 DEF CacheResults
    <2>2. At(r, "cacheWeak") \in BOOLEAN
      BY DEF At
    <2>3. shelf' \in [Queries -> [work : Works \cup {NoWork}, weak : BOOLEAN]]
      BY <1>6, <1>10, <1>14, <2>1, <2>2
    <2>4. Answer(r, "found", me.work)
      BY <1>4, <1>17 DEF CacheResults
    <2> QED BY <1>2, <1>10, <1>13, <2>3, <2>4
  <1>18. CASE ReadResolved(r)
    <2>1. shelf' = shelf
      BY <1>18 DEF ReadResolved
    <2>2. CASE resolved[me.query] = NoWork /\ Step(r, "negative")
      BY <1>2, <1>6, <1>11, <2>1, <2>2
    <2>3. CASE Answer(r, "found", resolved[me.query])
      <3>1. resolved[me.query] \in Works \cup {NoWork}
        BY <1>6, <1>7 DEF BackfillTypeOK
      <3> QED BY <1>2, <1>13, <1>14, <2>1, <2>3, <3>1
    <2> QED BY <1>6, <1>18, <2>2, <2>3 DEF ReadResolved
  <1>19. CASE ReadNegative(r)
    <2>1. shelf' = shelf /\ me.pc = "negative"
      BY <1>4, <1>19 DEF ReadNegative, At
    <2>2. CASE negative[me.query] = "no" /\ Step(r, "enqueue")
      BY <1>2, <1>6, <1>11, <2>1, <2>2
    <2>3. CASE Answer(r, "not_found", NoWork)
      BY <1>2, <1>6, <1>13, <1>14, <2>1, <2>3
    <2> QED BY <1>6, <1>19, <2>2, <2>3 DEF ReadNegative
  <1> QED BY <1>2, <1>15, <1>16, <1>17, <1>18, <1>19

(* A search queues its job: whatever it finds in the queue, the question   *)
(* is then worked on.                                                      *)
LEMMA SearchIsQueued ==
  ASSUME BackfillHolds, NEW q \in Queries, Enqueue(SearchJob(q), q, FALSE),
         UNCHANGED <<db, attached, answers, consumer>>
  PROVE Progress /\ WorkedOn(q)'
  <1>1. PICK id \in JobIds : id = SearchJob(q) /\ id.query = q
    BY IdsAreOfQueries
  <1>2. /\ Progress
        /\ (jobs'[id] = jobs[id] /\ jobs[id].state # "absent") \/ jobs'[id].state = "waiting"
    BY <1>1, EnqueueProgress, Zenon
  <1>3. Settled(id)' /\ QueueInv'
    BY <1>2 DEF Progress, BackfillHolds, BackfillInv
  <1>4. jobs'[id].state \in {"absent", "waiting", "active", "delayed", "completed", "failed"}
    BY <1>3 DEF QueueInv, QueueTypeOK, QueuedJob
  <1>5. /\ jobs'[id].state = "completed" => Known(q)' # "no"
        /\ jobs'[id].state = "failed" => jobs'[id].stalls = 1
    BY <1>1, <1>3 DEF Settled
  <1>6. \/ jobs'[id].state \in {"waiting", "active", "delayed"}
        \/ Known(q)' # "no"
        \/ jobs'[id].state = "failed" /\ jobs'[id].stalls = 1
    BY <1>2, <1>4, <1>5
  <1> QED BY <1>1, <1>2, <1>6 DEF WorkedOn, SearchJob

LEMMA ServeQueues ==
  ASSUME BackfillHolds, ReaderHolds, NEW r \in Requests, QuestionHit(r) \/ EnqueueMiss(r)
  PROVE ReaderHolds' /\ Progress
  <1>1. PICK me : me = req[r]
    OBVIOUS
  <1>2. /\ me.pc \in {"question", "enqueue"} /\ shelf' = shelf /\ box' = box
        /\ Enqueue(SearchJob(Asked(r)), Asked(r), FALSE) /\ UNCHANGED <<db, attached, answers, consumer>>
    BY <1>1 DEF QuestionHit, EnqueueMiss, At
  <1>3. /\ ReqOK(me) /\ Asked(r) = me.query /\ me.query \in Queries
        /\ me.known = "found" => resolved[me.query] # NoWork /\ me.pc \notin {"negative", "enqueue"}
        /\ me.known = "not_found" => negative[me.query] # "no" /\ me.pc # "enqueue"
    BY <1>1, <1>2, ServedRow
  <1>4. Progress /\ WorkedOn(me.query)'
    BY <1>2, <1>3, SearchIsQueued
  <1>5. BoxOK' /\ PendingIsWorkedOn'
    BY <1>2, <1>4, BoxWaits
  <1>6. shelf' \in [Queries -> [work : Works \cup {NoWork}, weak : BOOLEAN]]
    BY <1>2 DEF ReaderHolds
  <1>7. resolved' = resolved /\ negative' = negative
    BY <1>2 DEF answers
  <1>8. CASE QuestionHit(r)
    <2>1. PICK row : row = ReqRow("cacheWeak", me.query, me.work, me.known, me.status, me.attempt)
      OBVIOUS
    <2>2. ReqOK(row) /\ row.pc = "cacheWeak" /\ row.query = me.query /\ row.known = me.known
      BY <1>3, <2>1 DEF ReqOK, ReqRow
    <2>3. Step(r, "cacheWeak")
      BY <1>8 DEF QuestionHit
    <2>4. req' = [req EXCEPT ![r] = row]
      BY <1>1, <2>1, <2>3, StepsOn, Zenon
    <2>5. Honest(row)'
      BY <1>3, <1>7, <2>2 DEF Honest, ReqOK
    <2> QED BY <1>4, <1>5, <1>6, <2>4, <2>5, RequestMoves
  <1>9. CASE EnqueueMiss(r)
    <2>1. PICK row : row = ReqRow("answered", me.query, NoWork, me.known, "pending", me.attempt)
      OBVIOUS
    <2>2. /\ ReqOK(row) /\ row.pc = "answered" /\ row.query = me.query /\ row.known = me.known
          /\ row.status = "pending"
      BY <1>3, <2>1 DEF ReqOK, ReqRow
    <2>3. Answer(r, "pending", NoWork)
      BY <1>9 DEF EnqueueMiss
    <2>4. req' = [req EXCEPT ![r] = row]
      BY <1>1, <2>1, <2>3, AnswersOn, Zenon
    <2>5. me.known = "no"
      <3>1. me.pc = "enqueue"
        BY <1>1, <1>9 DEF EnqueueMiss, At
      <3> QED BY <1>3, <3>1 DEF ReqOK
    <2>6. Honest(row)'
      <3>1. ReqOK(row)'
        BY <2>2 DEF ReqOK
      <3> QED BY <1>4, <2>2, <2>5, <3>1 DEF Honest, WorkedOn, Known
    <2> QED BY <1>4, <1>5, <1>6, <2>4, <2>6, RequestMoves
  <1> QED BY <1>8, <1>9

LEMMA LoseKeeps ==
  ASSUME BackfillHolds, ReaderHolds, NEW r \in Requests, Lose(r)
  PROVE ReaderHolds' /\ Progress
  <1>1. /\ UNCHANGED queueVars /\ UNCHANGED <<db, attached>> /\ UNCHANGED answers
        /\ consumer' = consumer /\ shelf' = shelf /\ box' = box
    BY DEF Lose
  <1>2. Progress
    BY <1>1, BackfillRests
  <1>3. BoxOK' /\ PendingIsWorkedOn'
    BY <1>1, <1>2, BoxWaits
  <1>4. PICK me : me = req[r]
    OBVIOUS
  <1>5. ReqOK(me) /\ me.query \in Queries
    BY <1>4, ServedRow DEF Lose
  <1>6. PICK row : row = ReqRow("answered", me.query, me.work, me.known, "error", me.attempt)
    OBVIOUS
  <1>7. req' = [req EXCEPT ![r] = row]
    BY <1>4, <1>5, <1>6, ReqLost, Zenon DEF Lose
  <1>8. ReqOK(row) /\ row.pc = "answered" /\ row.status = "error"
    BY <1>5, <1>6 DEF ReqOK, ReqRow
  <1>9. Honest(row)'
    BY <1>8 DEF Honest, ReqOK
  <1>10. shelf' \in [Queries -> [work : Works \cup {NoWork}, weak : BOOLEAN]]
    BY <1>1 DEF ReaderHolds
  <1> QED BY <1>2, <1>3, <1>7, <1>9, <1>10, RequestMoves

BoxRow(kind, attempt, text, submitted, shown, timer, latest) ==
  [kind |-> kind, attempt |-> attempt, text |-> text, submitted |-> submitted,
   shown |-> shown, timer |-> timer, latest |-> latest]

LEMMA BoxIsRow ==
  ASSUME BoxOK
  PROVE box = BoxRow(box.kind, box.attempt, box.text, box.submitted, box.shown, box.timer, box.latest)
  BY DEF BoxOK, BoxRow

(* The four ways the box goes on. *)
LEMMA BoxTyped ==
  ASSUME BoxOK, NEW q, NEW m, box' = [box EXCEPT !.text = q, !.timer = m]
  PROVE box' = BoxRow(box.kind, box.attempt, q, box.submitted, box.shown, m, box.latest)
  <1> DEFINE typed == [box EXCEPT !.text = q]
  <1>1. typed = BoxRow(box.kind, box.attempt, q, box.submitted, box.shown, box.timer, box.latest)
    BY BoxIsRow DEF BoxRow
  <1>2. [typed EXCEPT !.timer = m]
          = BoxRow(box.kind, box.attempt, q, box.submitted, box.shown, m, box.latest)
    <2> HIDE DEF typed
    <2> QED BY <1>1 DEF BoxRow
  <1> QED BY <1>2, Zenon

LEMMA BoxSent ==
  ASSUME BoxOK, NEW m, NEW l, box' = [box EXCEPT !.timer = m, !.latest = l]
  PROVE box' = BoxRow(box.kind, box.attempt, box.text, box.submitted, box.shown, m, l)
  <1> DEFINE sent == [box EXCEPT !.timer = m]
  <1>1. sent = BoxRow(box.kind, box.attempt, box.text, box.submitted, box.shown, m, box.latest)
    BY BoxIsRow DEF BoxRow
  <1>2. [sent EXCEPT !.latest = l]
          = BoxRow(box.kind, box.attempt, box.text, box.submitted, box.shown, m, l)
    <2> HIDE DEF sent
    <2> QED BY <1>1 DEF BoxRow
  <1> QED BY <1>2, Zenon

LEMMA BoxSubmitted ==
  ASSUME BoxOK, NEW k, NEW s, NEW m, NEW l,
         box' = [box EXCEPT !.kind = k, !.submitted = s, !.timer = m, !.latest = l]
  PROVE box' = BoxRow(k, box.attempt, box.text, s, box.shown, m, l)
  <1> DEFINE one == [box EXCEPT !.kind = k]
             two == [one EXCEPT !.submitted = s]
             three == [two EXCEPT !.timer = m]
  <1>1. one = BoxRow(k, box.attempt, box.text, box.submitted, box.shown, box.timer, box.latest)
    BY BoxIsRow DEF BoxRow
  <1>2. two = BoxRow(k, box.attempt, box.text, s, box.shown, box.timer, box.latest)
    <2> HIDE DEF one
    <2> QED BY <1>1 DEF BoxRow
  <1>3. three = BoxRow(k, box.attempt, box.text, s, box.shown, m, box.latest)
    <2> HIDE DEF two
    <2> QED BY <1>2 DEF BoxRow
  <1>4. [three EXCEPT !.latest = l] = BoxRow(k, box.attempt, box.text, s, box.shown, m, l)
    <2> HIDE DEF three
    <2> QED BY <1>3 DEF BoxRow
  <1> QED BY <1>4, Zenon

LEMMA BoxShows ==
  ASSUME BoxOK, NEW k, NEW a, NEW m, NEW h, Show(k, a, m, h)
  PROVE box' = BoxRow(k, a, box.text, box.submitted, h, m, NoRequest)
  <1> DEFINE one == [box EXCEPT !.kind = k]
             two == [one EXCEPT !.attempt = a]
             three == [two EXCEPT !.timer = m]
             four == [three EXCEPT !.shown = h]
  <1>1. one = BoxRow(k, box.attempt, box.text, box.submitted, box.shown, box.timer, box.latest)
    BY BoxIsRow DEF BoxRow
  <1>2. two = BoxRow(k, a, box.text, box.submitted, box.shown, box.timer, box.latest)
    <2> HIDE DEF one
    <2> QED BY <1>1 DEF BoxRow
  <1>3. three = BoxRow(k, a, box.text, box.submitted, box.shown, m, box.latest)
    <2> HIDE DEF two
    <2> QED BY <1>2 DEF BoxRow
  <1>4. four = BoxRow(k, a, box.text, box.submitted, h, m, box.latest)
    <2> HIDE DEF three
    <2> QED BY <1>3 DEF BoxRow
  <1>5. [four EXCEPT !.latest = NoRequest] = BoxRow(k, a, box.text, box.submitted, h, m, NoRequest)
    <2> HIDE DEF four
    <2> QED BY <1>4 DEF BoxRow
  <1> QED BY <1>5, Zenon DEF Show

(* What the box may say. *)
LEMMA BoxSays ==
  ASSUME NEW k \in {"idle", "loading", "pending", "found", "not_found", "timed_out", "error"},
         NEW a \in 0..MaxPolls, NEW t \in Queries \cup {NoPayload}, NEW s \in Queries \cup {NoPayload},
         NEW h \in Queries \cup {NoPayload}, NEW m, m = TRUE \/ m = FALSE, NEW l \in Requests \cup {NoRequest},
         box' = BoxRow(k, a, t, s, h, m, l),
         k = "pending" => a < MaxPolls /\ h \in Queries /\ WorkedOn(h)',
         k = "pending" \/ l # NoRequest => t \in Queries
  PROVE BoxOK' /\ PendingIsWorkedOn'
  <1>1. /\ box' \in [kind : {"idle", "loading", "pending", "found", "not_found", "timed_out", "error"},
                     attempt : 0..MaxPolls, text : Queries \cup {NoPayload},
                     submitted : Queries \cup {NoPayload}, shown : Queries \cup {NoPayload},
                     timer : BOOLEAN, latest : Requests \cup {NoRequest}]
        /\ box'.kind = k /\ box'.attempt = a /\ box'.text = t /\ box'.shown = h /\ box'.latest = l
    BY DEF BoxRow
  <1>2. BoxOK'
    BY <1>1 DEF BoxOK
  <1>3. k = "pending" => WorkedOn(box.shown)'
    BY <1>1, Zenon DEF WorkedOn, Known
  <1> QED BY <1>1, <1>2, <1>3, Zenon DEF PendingIsWorkedOn

(* The fields of a box in order. *)
LEMMA BoxFields ==
  ASSUME BoxOK
  PROVE /\ box.kind \in {"idle", "loading", "pending", "found", "not_found", "timed_out", "error"}
        /\ box.attempt \in 0..MaxPolls /\ box.text \in Queries \cup {NoPayload}
        /\ box.submitted \in Queries \cup {NoPayload} /\ box.shown \in Queries \cup {NoPayload}
        /\ box.timer = TRUE \/ box.timer = FALSE
        /\ box.latest \in Requests \cup {NoRequest}
        /\ box.kind = "pending" => box.attempt < MaxPolls /\ box.shown \in Queries
        /\ box.kind = "pending" \/ box.latest # NoRequest => box.text \in Queries
  BY DEF BoxOK

LEMMA ShownIsWorkedOn ==
  ASSUME BackfillHolds, ReaderHolds, Progress, box.kind = "pending", NEW h, h = box.shown
  PROVE h \in Queries /\ WorkedOn(h)'
  BY BoxFields, WorkedOnStays DEF ReaderHolds, PendingIsWorkedOn

LEMMA TypeKeeps ==
  ASSUME BackfillHolds, ReaderHolds, NEW q \in Queries, Type(q)
  PROVE ReaderHolds' /\ Progress
  <1>1. /\ UNCHANGED backfillVars /\ shelf' = shelf /\ req' = req /\ BoxOK
        /\ box' = [box EXCEPT !.text = q, !.timer = box.kind = "pending"]
    BY DEF Type, ReaderHolds
  <1>2. Progress
    BY <1>1, BackfillRests DEF backfillVars
  <1>3. \/ box' = BoxRow(box.kind, box.attempt, q, box.submitted, box.shown, TRUE, box.latest)
        \/ box' = BoxRow(box.kind, box.attempt, q, box.submitted, box.shown, FALSE, box.latest)
    <2>1. PICK m : m = (box.kind = "pending")
      OBVIOUS
    <2>2. box' = BoxRow(box.kind, box.attempt, q, box.submitted, box.shown, m, box.latest)
      BY <1>1, <2>1, BoxTyped, Zenon
    <2>3. m = TRUE \/ m = FALSE
      BY <2>1
    <2> QED BY <2>2, <2>3, Zenon
  <1>4. PICK k, h : k = box.kind /\ h = box.shown
    OBVIOUS
  <1>5. k = "pending" => WorkedOn(h)'
    BY <1>2, <1>4, ShownIsWorkedOn
  <1>6. BoxOK' /\ PendingIsWorkedOn'
    <2>1. ASSUME NEW m, m = TRUE \/ m = FALSE,
                 box' = BoxRow(k, box.attempt, q, box.submitted, h, m, box.latest)
          PROVE BoxOK' /\ PendingIsWorkedOn'
      <3>1. /\ k \in {"idle", "loading", "pending", "found", "not_found", "timed_out", "error"}
            /\ box.attempt \in 0..MaxPolls /\ q \in Queries \cup {NoPayload}
            /\ box.submitted \in Queries \cup {NoPayload} /\ h \in Queries \cup {NoPayload}
            /\ box.latest \in Requests \cup {NoRequest}
        BY <1>1, <1>4, BoxFields
      <3>2. k = "pending" => box.attempt < MaxPolls /\ h \in Queries /\ WorkedOn(h)'
        BY <1>1, <1>4, <1>5, BoxFields
      <3> QED BY <2>1, <3>1, <3>2, BoxSays
    <2> QED BY <1>3, <1>4, <2>1
  <1>7. ToldPending' /\ AnswersStick' /\ RequestsRemember' /\ \A r \in Requests : ReqOK(req'[r])
    <2>1. \A r \in Requests : Honest(req[r])
      BY RequestsAreHonest DEF ReaderHolds
    <2>2. \A r \in Requests : Honest(req[r])'
      <3> TAKE r \in Requests
      <3>1. PICK was : was = req[r]
        OBVIOUS
      <3>2. Honest(was)'
        BY <1>2, <2>1, <3>1, HonestStays
      <3> QED BY <1>1, <3>1, <3>2 DEF Honest, ReqOK, WorkedOn, Known
    <2> QED BY <2>2, Zenon DEF Honest, ToldPending, AnswersStick, RequestsRemember, At, Served
  <1> QED BY <1>1, <1>2, <1>6, <1>7 DEF ReaderHolds

(* A request sets out knowing what Redis knows. *)
LEMMA SendIsHonest ==
  ASSUME BackfillHolds, ReaderHolds, Progress, UNCHANGED answers, NEW r \in Requests, NEW q \in Queries,
         NEW attempt \in 0..MaxPolls, Send(r, q, attempt), shelf' = shelf, BoxOK', PendingIsWorkedOn'
  PROVE ReaderHolds'
  <1>1. req' = [req EXCEPT ![r] = [pc |-> "results", query |-> q, work |-> NoWork, known |-> Known(q),
                                   status |-> "none", attempt |-> attempt]]
    BY DEF Send
  <1>2. PICK row : /\ row = [pc |-> "results", query |-> q, work |-> NoWork, known |-> Known(q),
                             status |-> "none", attempt |-> attempt]
                   /\ req' = [req EXCEPT ![r] = row]
    BY <1>1, Zenon
  <1>3. Known(q) \in {"found", "not_found", "no"}
    BY DEF Known
  <1>4. /\ ReqOK(row) /\ row.pc = "results" /\ row.query = q /\ row.known = Known(q)
    BY <1>2, <1>3 DEF ReqOK
  <1>5. resolved' = resolved /\ negative' = negative
    BY DEF answers
  <1>6. Honest(row)'
    BY <1>4, <1>5 DEF Honest, ReqOK, Known
  <1>7. shelf' \in [Queries -> [work : Works \cup {NoWork}, weak : BOOLEAN]]
    BY DEF ReaderHolds
  <1> QED BY <1>2, <1>6, <1>7, RequestMoves

LEMMA SubmitKeeps ==
  ASSUME BackfillHolds, ReaderHolds, Submit
  PROVE ReaderHolds' /\ Progress
  <1>1. UNCHANGED backfillVars /\ shelf' = shelf /\ box.text # NoPayload /\ BoxOK
    BY DEF Submit, ReaderHolds
  <1>2. Progress /\ UNCHANGED answers
    BY <1>1, BackfillRests DEF backfillVars
  <1>3. PICK r \in Requests :
          /\ Send(r, box.text, 0)
          /\ box' = [box EXCEPT !.kind = "loading", !.submitted = box.text, !.timer = FALSE, !.latest = r]
    BY DEF Submit
  <1>4. box' = BoxRow("loading", box.attempt, box.text, box.text, box.shown, FALSE, r)
    BY <1>1, <1>3, BoxSubmitted, Zenon
  <1>5. box.text \in Queries
    BY <1>1, BoxFields
  <1>6. BoxOK' /\ PendingIsWorkedOn'
    BY <1>1, <1>4, <1>5, BoxFields, BoxSays
  <1>7. 0 \in 0..MaxPolls
    BY SearchAssumption
  <1> QED BY <1>1, <1>2, <1>3, <1>5, <1>6, <1>7, SendIsHonest

LEMMA PollKeeps ==
  ASSUME BackfillHolds, ReaderHolds, Poll
  PROVE ReaderHolds' /\ Progress
  <1>1. UNCHANGED backfillVars /\ shelf' = shelf /\ box.kind = "pending" /\ BoxOK
    BY DEF Poll, ReaderHolds
  <1>2. Progress /\ UNCHANGED answers
    BY <1>1, BackfillRests DEF backfillVars
  <1>3. PICK r \in Requests :
          /\ Send(r, box.text, box.attempt + 1)
          /\ box' = [box EXCEPT !.timer = FALSE, !.latest = r]
    BY DEF Poll
  <1>4. box' = BoxRow(box.kind, box.attempt, box.text, box.submitted, box.shown, FALSE, r)
    BY <1>1, <1>3, BoxSent, Zenon
  <1>5. PICK h : h = box.shown
    OBVIOUS
  <1>6. h \in Queries /\ WorkedOn(h)'
    BY <1>1, <1>2, <1>5, ShownIsWorkedOn
  <1>7. BoxOK' /\ PendingIsWorkedOn'
    BY <1>1, <1>4, <1>5, <1>6, BoxFields, BoxSays
  <1>8. box.text \in Queries /\ box.attempt + 1 \in 0..MaxPolls
    BY <1>1, BoxFields, SearchAssumption
  <1> QED BY <1>1, <1>2, <1>3, <1>7, <1>8, SendIsHonest

LEMMA ReceiveKeeps ==
  ASSUME BackfillHolds, ReaderHolds, NEW r \in Requests, Receive(r)
  PROVE ReaderHolds' /\ Progress
  <1>1. UNCHANGED backfillVars /\ shelf' = shelf /\ req' = [req EXCEPT ![r] = Free] /\ BoxOK
    BY DEF Receive, ReaderHolds
  <1>2. Progress
    BY <1>1, BackfillRests DEF backfillVars
  <1>3. PICK me : me = req[r]
    OBVIOUS
  <1>4. /\ ReqOK(me) /\ me.pc = "answered" /\ me.query \in Queries
        /\ me.status \in {"found", "not_found", "pending", "error"} /\ me.attempt \in 0..MaxPolls
    BY <1>3 DEF Receive, ReaderHolds, At, ReqOK
  <1>5. me.status = "pending" => WorkedOn(me.query)'
    BY <1>2, <1>3, <1>4, WorkedOnStays DEF ReaderHolds, ToldPending, At
  <1>6. BoxOK' /\ PendingIsWorkedOn'
    <2>1. CASE UNCHANGED box
      BY <1>2, <2>1, BoxWaits
    <2>2. CASE me.status # "pending" /\ Show(me.status, 0, box.timer, me.query)
      <3>1. box' = BoxRow(me.status, 0, box.text, box.submitted, me.query, box.timer, NoRequest)
        BY <1>1, <2>2, BoxShows, Zenon
      <3>2. 0 \in 0..MaxPolls
        BY SearchAssumption
      <3> QED BY <1>1, <1>4, <2>2, <3>1, <3>2, BoxFields, BoxSays
    <2>3. CASE Show("timed_out", 0, box.timer, box.shown)
      <3>1. box' = BoxRow("timed_out", 0, box.text, box.submitted, box.shown, box.timer, NoRequest)
        BY <1>1, <2>3, BoxShows, Zenon
      <3>2. 0 \in 0..MaxPolls
        BY SearchAssumption
      <3> QED BY <1>1, <3>1, <3>2, BoxFields, BoxSays
    <2>4. CASE /\ box.latest = r /\ me.status = "pending" /\ me.attempt < MaxPolls
               /\ Show("pending", me.attempt, TRUE, me.query)
      <3>1. box' = BoxRow("pending", me.attempt, box.text, box.submitted, me.query, TRUE, NoRequest)
        BY <1>1, <2>4, BoxShows, Zenon
      <3>2. box.text \in Queries
        BY <1>1, <2>4, BoxFields, SearchAssumption DEF NoRequest
      <3> QED BY <1>1, <1>4, <1>5, <2>4, <3>1, <3>2, BoxFields, BoxSays
    <2> QED BY <1>3, <2>1, <2>2, <2>3, <2>4, Zenon DEF Receive
  <1>7. Honest(Free)'
    <2>1. 0 \in 0..MaxPolls
      BY SearchAssumption
    <2> QED BY <2>1 DEF Honest, Free, ReqOK
  <1>8. shelf' \in [Queries -> [work : Works \cup {NoWork}, weak : BOOLEAN]]
    BY <1>1 DEF ReaderHolds
  <1> HIDE DEF Free
  <1> QED BY <1>1, <1>2, <1>6, <1>7, <1>8, RequestMoves

LEMMA BrowseKeeps ==
  ASSUME BackfillHolds, ReaderHolds, NEW q \in Queries, PageJob(q) \in JobIds, Browse(q)
  PROVE ReaderHolds' /\ Progress
  <1>1. PICK id \in JobIds : id = PageJob(q) /\ id.query = q
    BY DEF PageJob
  <1>2. /\ Enqueue(id, id.query, TRUE) /\ UNCHANGED <<db, attached, answers, consumer>>
        /\ shelf' = shelf /\ req' = req /\ box' = box
    BY <1>1, Zenon DEF Browse
  <1>3. Progress
    BY <1>2, EnqueueProgress
  <1>4. BoxOK' /\ PendingIsWorkedOn'
    BY <1>2, <1>3, BoxWaits
  <1>5. \A r \in Requests : Honest(req[r])
    BY RequestsAreHonest DEF ReaderHolds
  <1>6. \A r \in Requests : Honest(req[r])'
    <2> TAKE r \in Requests
    <2>1. PICK was : was = req[r]
      OBVIOUS
    <2>2. Honest(was)'
      BY <1>3, <1>5, <2>1, HonestStays
    <2> QED BY <1>2, <2>1, <2>2 DEF Honest, ReqOK, WorkedOn, Known
  <1>7. ToldPending' /\ AnswersStick' /\ RequestsRemember' /\ \A r \in Requests : ReqOK(req'[r])
    BY <1>6, Zenon DEF Honest, ToldPending, AnswersStick, RequestsRemember, At, Served
  <1> QED BY <1>2, <1>3, <1>4, <1>7 DEF ReaderHolds

-----------------------------------------------------------------------------
(* Time passes.  While a reader waits only completed jobs are forgotten,   *)
(* and their answers are there; no answer is forgotten before its job.     *)
LEMMA ForgetJobKeeps ==
  ASSUME BackfillHolds, ReaderHolds, NEW id \in JobIds, ForgetJob(id)
  PROVE ReaderHolds' /\ BackfillHolds'
  <1>1. /\ BackfillTypeOK /\ BackfillInv /\ QueueInv
        /\ UNCHANGED <<db, attached>> /\ UNCHANGED answers /\ consumer' = consumer /\ UNCHANGED searchVars
    BY DEF BackfillHolds, ForgetJob
  <1>2. PICK states \in SUBSET {"completed", "failed"} :
          Age(id, states) /\ (Session => states = {"completed"})
    BY DEF ForgetJob
  <1>3. QueueInv'
    BY <1>1, <1>2, AgeKeeps
  <1>4. /\ Others(id) /\ jobs'[id].state = "absent"
        /\ jobs[id].state \in {"completed", "failed"} /\ (Session => jobs[id].state = "completed")
    <2>1. jobs' = [jobs EXCEPT ![id] = Absent] /\ jobs[id].state \in states
      BY <1>2 DEF Age
    <2>2. Others(id) /\ jobs'[id] = Absent
      <3> HIDE DEF Absent
      <3> QED BY <1>1, <2>1, OneRow
    <2>3. jobs'[id].state = "absent"
      BY <2>2 DEF Absent
    <2>4. jobs[id].state \in {"completed", "failed"} /\ (Session => jobs[id].state = "completed")
      BY <1>2, <2>1
    <2> QED BY <2>2, <2>3, <2>4
  <1>5. AnswersStay /\ resolved' = resolved /\ negative' = negative
    BY <1>1 DEF AnswersStay, answers
  <1>6. BackfillHolds'
    <2>1. \A x \in JobIds : JobNamed(x)'
      BY <1>1, <1>4 DEF BackfillTypeOK, JobNamed, Others
    <2>2. \A x \in JobIds : Settled(x)'
      BY <1>1, <1>4, <1>5, SettledStays DEF Others
    <2>3. ASSUME NEW d \in Consumers PROVE AtWork(d)'
      <3>1. \A x \in JobIds : Owns(d, x)' => Owns(d, x) /\ jobs'[x].made = jobs[x].made
        BY <1>4 DEF Owns, Others
      <3> QED BY <1>1, <1>5, <3>1, AtWorkStays
    <2>4. DOMAIN consumer' = Consumers /\ \A d \in Consumers : ConsumerOK(consumer'[d])
      BY <1>1 DEF BackfillTypeOK
    <2> QED BY <1>1, <1>3, <2>1, <2>2, <2>3, <2>4, JobsStep
  <1>7. ASSUME NEW q \in Queries, WorkedOn(q), Session PROVE WorkedOn(q)'
    <2>1. PICK x \in JobIds : x = SearchJob(q) /\ x.query = q
      BY IdsAreOfQueries
    <2>2. Known(q)' = Known(q)
      BY <1>5 DEF Known
    <2>3. CASE x = id
      <3>1. Known(q) # "no"
        BY <1>1, <1>4, <1>7, <2>1, <2>3 DEF BackfillInv, Settled
      <3> QED BY <2>2, <3>1 DEF WorkedOn
    <2>4. CASE x # id
      <3>1. jobs'[x] = jobs[x]
        BY <1>4, <2>4 DEF Others
      <3> QED BY <1>7, <2>1, <2>2, <3>1 DEF WorkedOn, SearchJob
    <2> QED BY <2>3, <2>4
  <1>8. shelf' = shelf /\ req' = req /\ box' = box /\ BoxOK
    BY <1>1 DEF searchVars, ReaderHolds
  <1>9. BoxOK' /\ (\A r \in Requests : ReqOK(req'[r])) /\ DOMAIN req' = Requests
    BY <1>8 DEF ReaderHolds, BoxOK
  <1>10. PendingIsWorkedOn'
    BY <1>7, <1>8, BoxFields DEF ReaderHolds, PendingIsWorkedOn, Session
  <1>11. ToldPending'
    <2>1. ASSUME NEW r \in Requests, req[r].pc = "answered", req[r].status = "pending"
          PROVE WorkedOn(req[r].query)'
      <3>1. PICK q : q = req[r].query
        OBVIOUS
      <3>2. q \in Queries /\ WorkedOn(q) /\ Session
        BY <2>1, <3>1 DEF ReaderHolds, ReqOK, ToldPending, At, Session
      <3>3. WorkedOn(q)'
        BY <1>7, <3>2
      <3> QED BY <1>8, <3>1, <3>3 DEF WorkedOn, Known
    <2> QED BY <1>8, <2>1, Zenon DEF ToldPending, At
  <1>12. AnswersStick' /\ RequestsRemember'
    BY <1>5, <1>8, Zenon DEF ReaderHolds, AnswersStick, RequestsRemember, At, Served
  <1> QED BY <1>6, <1>8, <1>9, <1>10, <1>11, <1>12 DEF ReaderHolds

LEMMA ForgetAnswerKeeps ==
  ASSUME BackfillHolds, ReaderHolds, NEW q \in Queries, ForgetAnswer(q)
  PROVE ReaderHolds' /\ BackfillHolds'
  <1>1. /\ BackfillTypeOK /\ BackfillInv /\ QueueInv /\ DayMeansUnknown
        /\ UNCHANGED queueVars /\ jobs' = jobs /\ UNCHANGED <<db, attached, consumer>>
        /\ req' = req /\ box' = box /\ ~Serving
    BY DEF BackfillHolds, ForgetAnswer, queueVars
  <1>2. /\ \A p \in Queries : p # q \/ Fresh(q) => resolved'[p] = resolved[p] /\ negative'[p] = negative[p]
        /\ resolved' \in [Queries -> Works \cup {NoWork}]
        /\ negative' \in [Queries -> {"no", "minutes", "day"}]
        /\ negative'[q] \in {negative[q], "no"}
        /\ shelf' \in [Queries -> [work : Works \cup {NoWork}, weak : BOOLEAN]]
    <2>0. /\ resolved \in [Queries -> Works \cup {NoWork}]
          /\ negative \in [Queries -> {"no", "minutes", "day"}]
          /\ shelf \in [Queries -> [work : Works \cup {NoWork}, weak : BOOLEAN]]
      BY <1>1 DEF BackfillTypeOK, ReaderHolds
    <2>1. CASE shelf' = [shelf EXCEPT ![q] = NoAnswer] /\ UNCHANGED answers
      BY <2>0, <2>1 DEF answers, NoAnswer
    <2>2. CASE ~Fresh(q) /\ resolved' = [resolved EXCEPT ![q] = NoWork] /\ UNCHANGED <<shelf, negative>>
      BY <2>0, <2>2
    <2>3. CASE ~Fresh(q) /\ negative' = [negative EXCEPT ![q] = "no"] /\ UNCHANGED <<shelf, resolved>>
      BY <2>0, <2>3
    <2> QED BY <2>1, <2>2, <2>3 DEF ForgetAnswer
  <1>3. ASSUME NEW p \in Queries, p # q \/ Fresh(q) PROVE Known(p)' = Known(p)
    BY <1>2, <1>3 DEF Known
  <1>4. DayMeansUnknown'
    <2>1. \A p \in Queries : negative'[p] = "day" => negative[p] = "day"
      BY <1>2
    <2> QED BY <1>1, <2>1 DEF DayMeansUnknown, Draws
  <1>5. QueueInv'
    BY <1>1, QueueStutters
  <1>6. BackfillTypeOK'
    <2>1. \A x \in JobIds : JobNamed(x)'
      BY <1>1, NamesStay
    <2>2. DOMAIN consumer' = Consumers /\ \A d \in Consumers : ConsumerOK(consumer'[d])
      BY <1>1 DEF BackfillTypeOK
    <2> QED BY <1>1, <1>2, <2>1, <2>2, BackfillTypes DEF BackfillTypeOK
  <1>7. ASSUME NEW x \in JobIds PROVE Settled(x)'
    <2>1. x.query = q /\ jobs[x].state = "completed" => Fresh(q)
      BY DEF Fresh
    <2>2. Settled(x) /\ x.query \in Queries
      BY <1>1, IdsAreOfQueries DEF BackfillInv
    <2>3. jobs[x].state = "completed" => Known(x.query)' = Known(x.query)
      BY <1>3, <2>1, <2>2
    <2> QED BY <1>1, <2>2, <2>3 DEF Settled
  <1>8. ASSUME NEW d \in Consumers PROVE AtWork(d)'
    <2>1. PICK me : me = consumer[d]
      OBVIOUS
    <2>2. ConsumerOK(me) /\ AtWork(d) /\ consumer'[d] = me
      BY <1>1, <2>1 DEF BackfillTypeOK, BackfillInv
    <2>3. me.pc = "enrich" => me.query \in Queries /\ Known(me.query) # "no"
      BY <2>1, <2>2, Zenon DEF ConsumerOK, AtWork
    <2>4. me.pc = "enrich" /\ me.query = q => Fresh(q)
      BY <2>1 DEF Fresh
    <2>5. me.pc = "enrich" => Known(me.query)' # "no"
      BY <1>3, <2>3, <2>4
    <2>6. me.pc = "discover" => DiscoveryOK(me) /\ (Owns(d, me.job)' => me.last = LastAttempt(me.job)')
      <3>1. Owns(d, me.job)' = Owns(d, me.job) /\ LastAttempt(me.job)' = LastAttempt(me.job)
        BY <1>1 DEF Owns, LastAttempt
      <3> QED BY <2>1, <2>2, <3>1, Zenon DEF AtWork
    <2> QED BY <2>2, <2>5, <2>6, Zenon DEF AtWork, DiscoveryOK, Draws, Known, Owns, LastAttempt
  <1>9. BackfillHolds'
    BY <1>4, <1>5, <1>6, <1>7, <1>8 DEF BackfillHolds, BackfillInv
  <1>10. ASSUME NEW p \in Queries, WorkedOn(p), Session PROVE WorkedOn(p)'
    <2>1. Fresh(q)
      BY <1>10 DEF Fresh
    <2>2. Known(p)' = Known(p)
      BY <1>3, <2>1
    <2> QED BY <1>1, <1>10, <2>2 DEF WorkedOn
  <1>11. BoxOK' /\ (\A r \in Requests : ReqOK(req'[r])) /\ DOMAIN req' = Requests
    BY <1>1 DEF ReaderHolds, BoxOK
  <1>12. PendingIsWorkedOn'
    BY <1>1, <1>10, BoxFields DEF ReaderHolds, PendingIsWorkedOn, Session
  <1>13. ToldPending'
    <2>1. ASSUME NEW r \in Requests, req[r].pc = "answered", req[r].status = "pending"
          PROVE WorkedOn(req[r].query)'
      <3>1. PICK p : p = req[r].query
        OBVIOUS
      <3>2. p \in Queries /\ WorkedOn(p) /\ Session
        BY <2>1, <3>1 DEF ReaderHolds, ReqOK, ToldPending, At, Session
      <3>3. WorkedOn(p)'
        BY <1>10, <3>2
      <3> QED BY <1>1, <3>1, <3>3 DEF WorkedOn, Known
    <2> QED BY <1>1, <2>1, Zenon DEF ToldPending, At
  <1>14. AnswersStick' /\ RequestsRemember'
    <2>1. AnswersStick'
      BY <1>1, Zenon DEF ReaderHolds, AnswersStick, At
    <2>2. \A r \in Requests : ~Served(r)'
      BY <1>1 DEF Serving, Served
    <2> QED BY <2>1, <2>2 DEF RequestsRemember
  <1> QED BY <1>2, <1>9, <1>11, <1>12, <1>13, <1>14 DEF ReaderHolds

-----------------------------------------------------------------------------
LEMMA SearchStarts == SearchInit => SearchInv
  <1> SUFFICES ASSUME SearchInit PROVE SearchInv
    OBVIOUS
  <1>1. /\ QueueInit /\ db \in Stored /\ attached = [x \in Works |-> {}]
        /\ resolved = [q \in Queries |-> NoWork] /\ negative = [q \in Queries |-> "no"]
        /\ consumer = [c \in Consumers |-> Idle] /\ shelf = [q \in Queries |-> NoAnswer]
        /\ req = [r \in Requests |-> Free]
    BY DEF SearchInit, BackfillInit
  <1>2. QueueInv /\ \A id \in JobIds : jobs[id].state = "absent"
    BY <1>1, QueueStarts DEF QueueInit, Absent
  <1>3. BackfillTypeOK
    <2>1. \A c \in Consumers : ConsumerOK(consumer[c])
      BY <1>1, IdleIsOK
    <2> QED BY <1>1, <1>2, <2>1, SearchAssumption DEF BackfillTypeOK, JobNamed
  <1>4. BackfillInv /\ DayMeansUnknown
    BY <1>1, <1>2, IdleIsOK DEF BackfillInv, Settled, AtWork, DayMeansUnknown
  <1>5. 0 \in 0..MaxPolls
    BY SearchAssumption
  <1>6. Free.pc = "free" /\ ReqOK(Free)
    BY <1>5 DEF Free, ReqOK
  <1>7. BoxOK /\ PendingIsWorkedOn
    <2>1. box = [kind |-> "idle", attempt |-> 0, text |-> NoPayload, submitted |-> NoPayload,
                 shown |-> NoPayload, timer |-> FALSE, latest |-> NoRequest]
      BY DEF SearchInit
    <2> QED BY <1>5, <2>1 DEF BoxOK, PendingIsWorkedOn
  <1>8. shelf \in [Queries -> [work : Works \cup {NoWork}, weak : BOOLEAN]]
    BY <1>1 DEF NoAnswer
  <1>9. DOMAIN req = Requests /\ \A r \in Requests : req[r] = Free
    BY <1>1
  <1>10. (\A r \in Requests : ReqOK(req[r])) /\ ToldPending /\ AnswersStick /\ RequestsRemember
    <2> HIDE DEF Free
    <2> QED BY <1>6, <1>9 DEF ToldPending, AnswersStick, RequestsRemember, At, Served
  <1> QED BY <1>2, <1>3, <1>4, <1>7, <1>8, <1>9, <1>10, TwoSides DEF BackfillHolds, ReaderHolds

LEMMA SearchKeeps == ASSUME SearchInv, [SearchNext]_allVars PROVE SearchInv'
  <1>1. BackfillHolds /\ ReaderHolds
    BY TwoSides
  <1>2. SUFFICES BackfillHolds' /\ ReaderHolds'
    BY DEF SearchInv, SearchTypeOK, BackfillHolds, ReaderHolds, QueueInv
  <1>3. ASSUME Progress, UNCHANGED searchVars PROVE BackfillHolds' /\ ReaderHolds'
    BY <1>1, <1>3, ReadersWait DEF Progress
  <1>4. CASE UNCHANGED allVars
    <2>1. Progress
      BY <1>1, <1>4, BackfillRests DEF allVars, backfillVars
    <2> QED BY <1>3, <1>4, <2>1 DEF allVars
  <1>5. ASSUME NEW c \in Consumers, WorkerStep(c) PROVE BackfillHolds' /\ ReaderHolds'
    BY <1>1, <1>3, <1>5, WorkerKeeps DEF WorkerStep
  <1>6. ASSUME NEW id \in JobIds, QueueStep(id) PROVE BackfillHolds' /\ ReaderHolds'
    BY <1>1, <1>3, <1>6, LoseLockKeeps, RequeueKeeps, ForgetJobKeeps DEF QueueStep
  <1>7. ASSUME NEW q \in Queries, ForgetAnswer(q) PROVE BackfillHolds' /\ ReaderHolds'
    BY <1>1, <1>7, ForgetAnswerKeeps
  <1>8. ASSUME NEW r \in Requests, Serve(r) PROVE BackfillHolds' /\ ReaderHolds'
    BY <1>1, <1>8, ServeReads, ServeQueues DEF Serve, Progress
  <1>9. CASE ReaderStep
    <2>1. ASSUME ReaderHolds' /\ Progress PROVE BackfillHolds' /\ ReaderHolds'
      BY <2>1 DEF Progress
    <2> QED BY <1>1, <1>9, <2>1, TypeKeeps, BrowseKeeps, SubmitKeeps, PollKeeps, ReceiveKeeps, LoseKeeps
         DEF ReaderStep
  <1> QED BY <1>4, <1>5, <1>6, <1>7, <1>8, <1>9 DEF SearchNext

LEMMA SearchIsSafe == SearchSpec => []SearchInv
  BY SearchStarts, SearchKeeps, PTL DEF SearchSpec

-----------------------------------------------------------------------------
(* Jobs, answers, requests and the box keep their types, and the queue its *)
(* books, whatever the reader, the workers and the clock do.               *)
THEOREM SearchTypeCorrect == SearchSpec => []SearchTypeOK
  <1>1. SearchInv => SearchTypeOK
    BY DEF SearchInv
  <1> QED BY <1>1, SearchIsSafe, PTL

(* A reader told "pending" waits for something: a job that will still run, *)
(* an answer already in Redis, or a job whose worker was lost twice        *)
(* (search.ts enqueues, and the deterministic job id never swallows a      *)
(* question without leaving one of the three).                             *)
THEOREM NobodyWaitsForNothing == SearchSpec => []PendingIsWorkedOn
  <1>1. SearchInv => PendingIsWorkedOn
    BY DEF SearchInv
  <1> QED BY <1>1, SearchIsSafe, PTL

(* process-backfill-job.ts: a day of "nothing" is only recorded when every *)
(* discovery source was asked and none of them has the book.               *)
THEOREM NothingForADayIsNothing == SearchSpec => []DayMeansUnknown
  <1>1. SearchInv => DayMeansUnknown
    BY DEF SearchInv
  <1> QED BY <1>1, SearchIsSafe, PTL

(* What a backfill found out before a request set out, the request is told.*)
THEOREM AnswersAreNotTakenBack == SearchSpec => []AnswersStick
  <1>1. SearchInv => AnswersStick
    BY DEF SearchInv
  <1> QED BY <1>1, SearchIsSafe, PTL

-----------------------------------------------------------------------------
(* What a consumer still has to do for the book it found: the sources that *)
(* drew a blank before are remembered, and no other is forgotten.          *)
Tried(me, n) ==
  /\ \A i \in 1..n : Discovery[i] \in Entries(Enrichment) \cup Entries(me.blanks) \cup Unreliable
  /\ \A s \in Entries(me.blanks) : Draws(me.query, s)
Exploring(me) ==
  \E n \in 0..Len(Discovery) :
    /\ Len(me.todo) = Len(Discovery) - n
    /\ \A i \in 1..Len(me.todo) : me.todo[i] = Discovery[n + i]
    /\ Tried(me, n)
Found(me) ==
  /\ me.winner \in attached[me.work]
  /\ \E n \in 1..Len(Discovery) : me.winner = Discovery[n] /\ Tried(me, n - 1)
Thorough(me) ==
  /\ me.pc \in {"idle", "discover"} => me.work = NoWork
  /\ me.pc = "discover" => Exploring(me)
  /\ me.pc = "resolved" => Found(me)
  /\ me.pc = "enrich" /\ me.work # NoWork =>
       me.winner \in attached[me.work] /\ EnrichedBut(me.work, Entries(me.todo))
EnrichInv == faults \in Nat /\ (\A c \in Consumers : Thorough(consumer[c])) /\ FoundIsEnriched

(* Contributions stay. *)
LEMMA ContributionsStay ==
  ASSUME NEW x, attached[x] \subseteq attached'[x]
  PROVE  /\ \A rest : EnrichedBut(x, rest) => EnrichedBut(x, rest)'
         /\ \A me : me.work = x /\ Thorough(me) => Thorough(me)'
  <1>1. ASSUME NEW rest, EnrichedBut(x, rest) PROVE EnrichedBut(x, rest)'
    <2>1. PICK n \in 1..Len(Discovery) :
            /\ Discovery[n] \in attached[x]
            /\ \A s \in AskedAbout(n) :
                 <<NameOf[x], x>> \in Knows[s] => s \in attached[x] \cup Unreliable \cup rest
      BY <1>1 DEF EnrichedBut
    <2> QED BY <2>1 DEF EnrichedBut
  <1>2. ASSUME NEW me, me.work = x, Thorough(me) PROVE Thorough(me)'
    <2>1. EnrichedBut(me.work, Entries(me.todo)) => EnrichedBut(me.work, Entries(me.todo))'
      BY <1>1, <1>2
    <2>2. Found(me) => Found(me)'
      BY <1>2 DEF Found, Tried, Draws
    <2>3. Exploring(me) => Exploring(me)'
      BY DEF Exploring, Tried, Draws
    <2> QED BY <1>2, <2>1, <2>2, <2>3 DEF Thorough
  <1> QED BY <1>1, <1>2

(* Where no consumer moves. *)
LEMMA EnrichRests ==
  ASSUME EnrichInv, UNCHANGED <<consumer, attached>>, faults' \in {faults, faults + 1},
         \A q \in Queries : resolved'[q] \in {resolved[q], NoWork}
  PROVE  EnrichInv'
  <1>1. faults' \in Nat /\ (faults' = 0 => faults = 0)
    BY DEF EnrichInv
  <1>2. ASSUME NEW c \in Consumers PROVE Thorough(consumer[c])'
    <2>1. PICK me : me = consumer[c]
      OBVIOUS
    <2>2. consumer'[c] = me /\ Thorough(me)'
      BY <2>1, ContributionsStay DEF EnrichInv
    <2> QED BY <2>2
  <1>3. ASSUME NEW q \in Queries, NEW x, x = resolved'[q], x # NoWork, faults' = 0,
               \A c \in Consumers : consumer'[c].work # x
        PROVE  EnrichedBut(x, {})'
    <2>1. EnrichedBut(x, {})
      BY <1>1, <1>3 DEF EnrichInv, FoundIsEnriched
    <2> QED BY <2>1, ContributionsStay
  <1> QED BY <1>1, <1>2, <1>3 DEF EnrichInv, FoundIsEnriched

(* Where consumer c moves to row. *)
LEMMA EnrichMoves ==
  ASSUME EnrichInv, BackfillTypeOK, NEW c \in Consumers, NEW row, consumer' = [consumer EXCEPT ![c] = row],
         UNCHANGED faults, \A x \in Works : attached[x] \subseteq attached'[x],
         Thorough(row)',
         \/ row.work = consumer[c].work
         \/ consumer[c].work = NoWork
         \/ EnrichedBut(consumer[c].work, {}),
         \A q \in Queries : resolved'[q] \in {resolved[q], row.work, NoWork}
  PROVE  EnrichInv'
  <1>1. /\ consumer'[c] = row /\ \A d \in Consumers \ {c} : consumer'[d] = consumer[d]
    BY DEF BackfillTypeOK
  <1>2. ASSUME NEW d \in Consumers PROVE Thorough(consumer[d])'
    <2>1. CASE d = c
      BY <1>1, <2>1
    <2>2. CASE d # c
      <3>1. PICK me : me = consumer[d]
        OBVIOUS
      <3>2. consumer'[d] = me /\ Thorough(me) /\ ConsumerOK(me)
        BY <1>1, <2>2, <3>1 DEF EnrichInv, BackfillTypeOK
      <3>3. me.work \in Works \cup {NoWork}
        BY <3>2 DEF ConsumerOK
      <3>4. CASE me.work \in Works
        BY <3>2, <3>4, ContributionsStay
      <3>5. CASE me.work = NoWork
        <4>1. me.pc # "resolved"
          BY <3>2, <3>5, IdsAreOfQueries DEF ConsumerOK
        <4>2. Thorough(me)'
          BY <3>2, <3>5, <4>1 DEF Thorough, Exploring, Tried, Draws
        <4> QED BY <3>2, <4>2
      <3> QED BY <3>3, <3>4, <3>5
    <2> QED BY <2>1, <2>2
  <1>3. ASSUME NEW q \in Queries, NEW x, x = resolved'[q], x # NoWork, faults' = 0,
               \A d \in Consumers : consumer'[d].work # x
        PROVE  EnrichedBut(x, {})'
    <2>1. x = resolved[q] /\ x # row.work
      BY <1>1, <1>3
    <2>2. x \in Works
      BY <1>3, <2>1 DEF BackfillTypeOK
    <2>3. EnrichedBut(x, {})
      <3>1. CASE consumer[c].work = x
        BY <1>3, <2>1, <3>1
      <3>2. CASE consumer[c].work # x
        <4>1. \A d \in Consumers : consumer[d].work # x
          BY <1>1, <1>3, <2>1, <3>2
        <4> QED BY <1>3, <2>1, <4>1 DEF EnrichInv, FoundIsEnriched
      <3> QED BY <3>1, <3>2
    <2> QED BY <2>1, <2>2, <2>3, ContributionsStay
  <1>4. FoundIsEnriched'
    BY <1>3 DEF FoundIsEnriched
  <1> QED BY <1>2, <1>4 DEF EnrichInv

LEMMA BeginJobEnriches ==
  ASSUME EnrichInv, BackfillTypeOK, NEW c \in Consumers, BeginJob(c)
  PROVE  EnrichInv'
  <1>1. PICK id \in JobIds :
          consumer' = [consumer EXCEPT ![c] =
            [Idle EXCEPT !.pc = "discover", !.job = id, !.query = jobs[id].data,
                         !.todo = Discovery, !.last = lastAttempt(id)]]
    BY DEF BeginJob
  <1>2. PICK row : row = [Idle EXCEPT !.pc = "discover", !.job = id, !.query = jobs[id].data,
                                      !.todo = Discovery, !.last = lastAttempt(id)]
    OBVIOUS
  <1>3. row.pc = "discover" /\ row.work = NoWork /\ row.todo = Discovery /\ row.blanks = << >>
    BY <1>2 DEF Idle
  <1>4. Len(Discovery) \in Nat
    BY BackfillAssumption
  <1>5. Exploring(row)
    <2>1. /\ Len(row.todo) = Len(Discovery) - 0
          /\ \A i \in 1..Len(row.todo) : row.todo[i] = Discovery[0 + i]
      BY <1>3, <1>4
    <2>2. Tried(row, 0)
      BY <1>3 DEF Tried, Entries
    <2> QED BY <1>4, <2>1, <2>2 DEF Exploring
  <1>6. Thorough(row)'
    BY <1>3, <1>5 DEF Thorough, Exploring, Tried, Draws
  <1>7. consumer[c].work = NoWork
    BY DEF BeginJob, EnrichInv, Thorough
  <1>8. UNCHANGED <<attached, resolved, faults>>
    BY DEF BeginJob, answers
  <1> QED BY <1>1, <1>2, <1>6, <1>7, <1>8, EnrichMoves

(* One source more was asked: it drew a blank, or it may fail. *)
LEMMA ExploringGoesOn ==
  ASSUME NEW me, NEW row, Exploring(me), me.todo \in Seq(DOMAIN Knows), me.todo # << >>,
         row.todo = Tail(me.todo), row.query = me.query,
         Entries(me.blanks) \subseteq Entries(row.blanks),
         \A s \in Entries(row.blanks) \ Entries(me.blanks) : Draws(me.query, s),
         Head(me.todo) \in Entries(Enrichment) \cup Entries(row.blanks) \cup Unreliable
  PROVE  Exploring(row)
  <1>1. PICK n \in 0..Len(Discovery) :
          /\ Len(me.todo) = Len(Discovery) - n
          /\ \A i \in 1..Len(me.todo) : me.todo[i] = Discovery[n + i]
          /\ Tried(me, n)
    BY DEF Exploring
  <1>2. /\ Len(me.todo) \in Nat \ {0} /\ Len(Discovery) \in Nat
        /\ Len(row.todo) = Len(me.todo) - 1 /\ Head(me.todo) = me.todo[1]
        /\ \A i \in 1..Len(row.todo) : row.todo[i] = me.todo[i + 1]
    BY BackfillAssumption
  <1>3. n + 1 \in 0..Len(Discovery) /\ Len(row.todo) = Len(Discovery) - (n + 1)
    BY <1>1, <1>2
  <1>4. \A i \in 1..Len(row.todo) : row.todo[i] = Discovery[(n + 1) + i]
    <2> TAKE i \in 1..Len(row.todo)
    <2>1. i + 1 \in 1..Len(me.todo) /\ n + (i + 1) = (n + 1) + i
      BY <1>1, <1>2
    <2> QED BY <1>1, <1>2, <2>1
  <1>5. Tried(row, n + 1)
    <2>1. Head(me.todo) = Discovery[n + 1]
      BY <1>1, <1>2
    <2>2. \A i \in 1..(n + 1) : i \in 1..n \/ i = n + 1
      BY <1>1
    <2> QED BY <1>1, <2>1, <2>2 DEF Tried
  <1> QED BY <1>3, <1>4, <1>5 DEF Exploring

LEMMA AskSourceEnriches ==
  ASSUME EnrichInv, BackfillTypeOK, NEW c \in Consumers, AskSource(c)
  PROVE  EnrichInv'
  <1>1. PICK me : me = consumer[c]
    OBVIOUS
  <1>2. ConsumerOK(me) /\ Plain(me) /\ Thorough(me)
    BY <1>1, RowsArePlain DEF BackfillTypeOK, EnrichInv
  <1>3. /\ me.pc = "discover" /\ me.todo # << >> /\ me.work = NoWork /\ Exploring(me)
        /\ UNCHANGED <<resolved, faults>>
    BY <1>1, <1>2 DEF AskSource, Thorough, answers
  <1>4. /\ me.todo \in Seq(DOMAIN Knows) /\ me.blanks \in Seq(DOMAIN Knows)
        /\ Head(me.todo) \in DOMAIN Knows /\ Next1(c) = Head(me.todo)
    BY <1>1, <1>2, <1>3, TailKeeps DEF ConsumerOK, Next1
  <1>5. CASE \E x \in Works :
               /\ attached' = [attached EXCEPT ![x] = @ \cup {Head(me.todo)}]
               /\ consumer' = [consumer EXCEPT ![c] =
                                 [me EXCEPT !.pc = "resolved", !.winner = Head(me.todo), !.work = x]]
    <2>1. PICK x \in Works :
            /\ attached' = [attached EXCEPT ![x] = @ \cup {Head(me.todo)}]
            /\ consumer' = [consumer EXCEPT ![c] =
                              [me EXCEPT !.pc = "resolved", !.winner = Head(me.todo), !.work = x]]
      BY <1>5
    <2>2. PICK row : row = [me EXCEPT !.pc = "resolved", !.winner = Head(me.todo), !.work = x]
      OBVIOUS
    <2>3. row = ConsumerRow("resolved", me.job, me.query, me.todo, Head(me.todo), me.blanks,
                            me.erred, me.last, x)
      BY <1>2, <2>2, RowWon, Zenon
    <2>4. /\ row.pc = "resolved" /\ row.winner = Head(me.todo) /\ row.work = x
          /\ row.blanks = me.blanks /\ row.query = me.query
      BY <2>3 DEF ConsumerRow
    <2>5. PICK n \in 0..Len(Discovery) :
            /\ Len(me.todo) = Len(Discovery) - n
            /\ \A i \in 1..Len(me.todo) : me.todo[i] = Discovery[n + i]
            /\ Tried(me, n)
      BY <1>3 DEF Exploring
    <2>6. Len(me.todo) \in Nat \ {0} /\ Len(Discovery) \in Nat /\ Head(me.todo) = me.todo[1]
      BY <1>3, <1>4, BackfillAssumption
    <2>7. n + 1 \in 1..Len(Discovery) /\ row.winner = Discovery[n + 1] /\ (n + 1) - 1 = n
      BY <2>4, <2>5, <2>6
    <2>8. Tried(row, n)
      BY <2>4, <2>5 DEF Tried
    <2>9. attached'[x] = attached[x] \cup {Head(me.todo)} /\ \A y \in Works : attached[y] \subseteq attached'[y]
      BY <2>1 DEF BackfillTypeOK
    <2>10. Found(row)'
      BY <2>4, <2>7, <2>8, <2>9 DEF Found, Tried, Draws
    <2>11. Thorough(row)'
      BY <2>4, <2>10 DEF Thorough
    <2>12. consumer' = [consumer EXCEPT ![c] = row]
      BY <2>1, <2>2, Zenon
    <2> QED BY <1>1, <1>3, <2>9, <2>11, <2>12, EnrichMoves
  <1>6. CASE /\ Draws(me.query, Head(me.todo)) /\ UNCHANGED attached
             /\ consumer' = [consumer EXCEPT ![c] = [me EXCEPT !.todo = Tail(me.todo), !.blanks = Blanks(me)]]
    <2>0. PICK drawn, rest : drawn = Blanks(me) /\ rest = Tail(me.todo)
      OBVIOUS
    <2>1. PICK row : row = [me EXCEPT !.todo = rest, !.blanks = drawn]
      OBVIOUS
    <2>2. row = ConsumerRow(me.pc, me.job, me.query, rest, me.winner, drawn, me.erred, me.last, me.work)
      BY <1>2, <2>1, RowsChanged, Zenon
    <2>3. /\ row.pc = me.pc /\ row.work = me.work /\ row.todo = Tail(me.todo)
          /\ row.blanks = drawn /\ row.query = me.query
      BY <2>0, <2>2 DEF ConsumerRow
    <2>4. Entries(Append(me.blanks, Head(me.todo))) = Entries(me.blanks) \cup {Head(me.todo)}
      BY <1>4, AppendKeeps
    <2>5. /\ Entries(me.blanks) \subseteq Entries(drawn)
          /\ \A s \in Entries(drawn) \ Entries(me.blanks) : Draws(me.query, s)
          /\ Head(me.todo) \in Entries(Enrichment) \cup Entries(drawn)
      BY <1>6, <2>0, <2>4 DEF Blanks
    <2>6. Exploring(row)
      BY <1>3, <1>4, <2>3, <2>5, ExploringGoesOn
    <2>7. Thorough(row)'
      BY <1>3, <2>3, <2>6 DEF Thorough, Exploring, Tried, Draws
    <2>8. consumer' = [consumer EXCEPT ![c] = row]
      BY <1>6, <2>0, <2>1, Zenon
    <2> QED BY <1>1, <1>3, <1>6, <2>3, <2>7, <2>8, EnrichMoves
  <1>7. CASE /\ Head(me.todo) \in Unreliable /\ UNCHANGED attached
             /\ consumer' = [consumer EXCEPT ![c] = [me EXCEPT !.todo = Tail(me.todo), !.erred = TRUE]]
    <2>1. PICK row : row = [me EXCEPT !.todo = Tail(me.todo), !.erred = TRUE]
      OBVIOUS
    <2>2. row = ConsumerRow(me.pc, me.job, me.query, Tail(me.todo), me.winner, me.blanks, TRUE, me.last, me.work)
      BY <1>2, <2>1, RowsChanged, Zenon
    <2>3. /\ row.pc = me.pc /\ row.work = me.work /\ row.todo = Tail(me.todo)
          /\ row.blanks = me.blanks /\ row.query = me.query
      BY <2>2 DEF ConsumerRow
    <2>4. Exploring(row)
      BY <1>3, <1>4, <1>7, <2>3, ExploringGoesOn
    <2>5. Thorough(row)'
      BY <1>3, <2>3, <2>4 DEF Thorough, Exploring, Tried, Draws
    <2>6. consumer' = [consumer EXCEPT ![c] = row]
      BY <1>7, <2>1, Zenon
    <2> QED BY <1>1, <1>3, <1>7, <2>3, <2>5, <2>6, EnrichMoves
  <1>8. ASSUME {x \in Works : <<me.query, x>> \in Knows[Head(me.todo)]} = {}
        PROVE Draws(me.query, Head(me.todo))
    BY <1>8 DEF Draws
  <1> QED BY <1>1, <1>4, <1>5, <1>6, <1>7, <1>8, Zenon DEF AskSource

(* The list of sources to ask leaves out none that may know the book.      *)
LEMMA MarkResolvedEnriches ==
  ASSUME EnrichInv, BackfillTypeOK, NEW c \in Consumers, MarkResolved(c)
  PROVE  EnrichInv'
  <1>1. PICK me : me = consumer[c]
    OBVIOUS
  <1>2. ConsumerOK(me) /\ Plain(me) /\ Thorough(me)
    BY <1>1, RowsArePlain DEF BackfillTypeOK, EnrichInv
  <1>0. PICK again : again = IF NameOf[me.work] = me.query THEN << >> ELSE me.blanks
    OBVIOUS
  <1>3. PICK row, todo : todo = Enrichment \o again /\ row = [me EXCEPT !.pc = "enrich", !.todo = todo]
    OBVIOUS
  <1>4. /\ me.pc = "resolved" /\ resolved' = [resolved EXCEPT ![me.query] = me.work]
        /\ UNCHANGED <<attached, faults>>
        /\ consumer' = [consumer EXCEPT ![c] = row]
    BY <1>0, <1>1, <1>3, Zenon DEF MarkResolved
  <1>5. me.blanks \in Seq(DOMAIN Knows) /\ me.query \in Queries /\ Enrichment \in Seq(DOMAIN Knows)
        /\ me.work \in Works
    BY <1>2, <1>4, BackfillAssumption DEF ConsumerOK
  <1>6. row = ConsumerRow("enrich", me.job, me.query, todo, me.winner, me.blanks,
                          me.erred, me.last, me.work)
    BY <1>2, <1>3, RowsChanged, Zenon
  <1>7. row.pc = "enrich" /\ row.work = me.work /\ row.todo = todo /\ row.winner = me.winner
    BY <1>6 DEF ConsumerRow
  <1>8. Entries(todo) = Entries(Enrichment) \cup Entries(again)
    <2>1. again \in Seq(DOMAIN Knows)
      <3> DEFINE S == DOMAIN Knows
      <3>1. me.blanks \in Seq(S)
        BY <1>5
      <3> HIDE DEF S
      <3>2. << >> \in Seq(S)
        OBVIOUS
      <3>3. again \in Seq(S)
        BY <1>0, <3>1, <3>2, Zenon
      <3> QED BY <3>3 DEF S
    <2>2. /\ Len(todo) = Len(Enrichment) + Len(again) /\ Len(Enrichment) \in Nat /\ Len(again) \in Nat
          /\ \A i \in 1..Len(Enrichment) : todo[i] = Enrichment[i]
          /\ \A i \in 1..Len(again) : todo[Len(Enrichment) + i] = again[i]
      BY <1>3, <1>5, <2>1
    <2>3. ASSUME NEW i \in 1..Len(todo) PROVE todo[i] \in Entries(Enrichment) \cup Entries(again)
      <3>1. CASE i \in 1..Len(Enrichment)
        BY <2>2, <3>1 DEF Entries
      <3>2. CASE i \notin 1..Len(Enrichment)
        <4>1. i - Len(Enrichment) \in 1..Len(again) /\ i = Len(Enrichment) + (i - Len(Enrichment))
          BY <2>2, <3>2
        <4>2. todo[i] = again[i - Len(Enrichment)]
          BY <2>2, <4>1
        <4> QED BY <4>1, <4>2 DEF Entries
      <3> QED BY <3>1, <3>2
    <2>4. ASSUME NEW i \in 1..Len(Enrichment) PROVE Enrichment[i] \in Entries(todo)
      BY <2>2 DEF Entries
    <2>5. ASSUME NEW i \in 1..Len(again) PROVE again[i] \in Entries(todo)
      <3>1. Len(Enrichment) + i \in 1..Len(todo) /\ todo[Len(Enrichment) + i] = again[i]
        BY <2>2
      <3> QED BY <3>1 DEF Entries
    <2> QED BY <2>3, <2>4, <2>5 DEF Entries
  <1>9. me.winner \in attached[me.work] /\ \E n \in 1..Len(Discovery) : me.winner = Discovery[n] /\ Tried(me, n - 1)
    BY <1>2, <1>4 DEF Thorough, Found
  <1>10. PICK n \in 1..Len(Discovery) : me.winner = Discovery[n] /\ Tried(me, n - 1)
    BY <1>9
  <1>11. ASSUME NEW s \in AskedAbout(n), <<NameOf[me.work], me.work>> \in Knows[s]
         PROVE  s \in Unreliable \cup Entries(todo)
    <2>1. CASE s \in Entries(Enrichment)
      BY <1>8, <2>1
    <2>2. CASE s \in Entries(me.blanks)
      <3>1. Draws(me.query, s)
        BY <1>10, <2>2 DEF Tried
      <3>2. NameOf[me.work] # me.query
        BY <1>5, <1>11, <3>1 DEF Draws
      <3> QED BY <1>0, <1>8, <2>2, <3>2
    <2>3. s \in Entries(Enrichment) \cup Entries(me.blanks) \cup Unreliable
      BY <1>10 DEF AskedAbout, Tried
    <2> QED BY <2>1, <2>2, <2>3
  <1>12. EnrichedBut(row.work, Entries(row.todo))
    BY <1>7, <1>9, <1>10, <1>11 DEF EnrichedBut
  <1>13. Thorough(row)'
    <2>1. EnrichedBut(row.work, Entries(row.todo))'
      BY <1>4, <1>12, ContributionsStay
    <2> QED BY <1>4, <1>7, <1>9, <2>1 DEF Thorough
  <1>14. \A q \in Queries : resolved'[q] \in {resolved[q], row.work, NoWork}
    BY <1>4, <1>7 DEF BackfillTypeOK
  <1> QED BY <1>1, <1>4, <1>7, <1>13, <1>14, EnrichMoves

LEMMA EnrichEnriches ==
  ASSUME EnrichInv, BackfillTypeOK, NEW c \in Consumers, Enrich(c)
  PROVE  EnrichInv'
  <1>1. PICK me : me = consumer[c]
    OBVIOUS
  <1>2. ConsumerOK(me) /\ Plain(me) /\ Thorough(me)
    BY <1>1, RowsArePlain DEF BackfillTypeOK, EnrichInv
  <1>3. me.pc = "enrich" /\ me.todo # << >> /\ UNCHANGED <<resolved, faults>>
    BY <1>1 DEF Enrich, answers
  <1>4. PICK rest, row : rest = Tail(me.todo) /\ row = [me EXCEPT !.todo = rest]
    OBVIOUS
  <1>5. consumer' = [consumer EXCEPT ![c] = row]
    BY <1>1, <1>4 DEF Enrich, BackfillTypeOK
  <1>6. row = ConsumerRow(me.pc, me.job, me.query, rest, me.winner, me.blanks, me.erred, me.last, me.work)
    BY <1>2, <1>4, RowChanged, Zenon
  <1>7. row.pc = "enrich" /\ row.work = me.work /\ row.todo = Tail(me.todo) /\ row.winner = me.winner
    BY <1>3, <1>4, <1>6 DEF ConsumerRow
  <1>8. me.work \in Works /\ me.work # NoWork /\ me.todo \in Seq(DOMAIN Knows) /\ Next1(c) = Head(me.todo)
    BY <1>1, <1>2, <1>3, IdsAreOfQueries DEF ConsumerOK, Next1
  <1>9. /\ \A x \in Works : attached[x] \subseteq attached'[x]
        /\ \/ Head(me.todo) = me.winner
           \/ <<NameOf[me.work], me.work>> \notin Knows[Head(me.todo)]
           \/ Head(me.todo) \in attached'[me.work]
           \/ Head(me.todo) \in Unreliable
    BY <1>1, <1>8 DEF Enrich, BackfillTypeOK
  <1>10. me.winner \in attached[me.work] /\ EnrichedBut(me.work, Entries(me.todo))
    BY <1>2, <1>3, <1>8 DEF Thorough
  <1>11. EnrichedBut(row.work, Entries(row.todo))'
    <2>1. EnrichedBut(me.work, Entries(me.todo))'
      BY <1>8, <1>9, <1>10, ContributionsStay
    <2>2. Entries(me.todo) \subseteq Entries(row.todo) \cup {Head(me.todo)}
      <3>1. /\ Len(me.todo) \in Nat \ {0} /\ Head(me.todo) = me.todo[1] /\ Len(row.todo) = Len(me.todo) - 1
            /\ \A i \in 1..Len(row.todo) : row.todo[i] = me.todo[i + 1]
        BY <1>3, <1>7, <1>8
      <3>2. ASSUME NEW i \in 1..Len(me.todo), i # 1 PROVE me.todo[i] \in Entries(row.todo)
        <4>1. i - 1 \in 1..Len(row.todo) /\ row.todo[i - 1] = me.todo[i]
          BY <3>1, <3>2
        <4> QED BY <4>1 DEF Entries
      <3> QED BY <3>1, <3>2 DEF Entries
    <2>3. me.winner \in attached'[me.work]
      BY <1>8, <1>9, <1>10
    <2>4. PICK n \in 1..Len(Discovery) :
            /\ Discovery[n] \in attached'[me.work]
            /\ \A s \in AskedAbout(n) : <<NameOf[me.work], me.work>> \in Knows[s] =>
                 s \in attached'[me.work] \cup Unreliable \cup Entries(me.todo)
      BY <2>1 DEF EnrichedBut
    <2>5. \A s \in AskedAbout(n) : <<NameOf[me.work], me.work>> \in Knows[s] =>
            s \in attached'[me.work] \cup Unreliable \cup Entries(row.todo)
      BY <1>9, <2>2, <2>3, <2>4
    <2> QED BY <1>7, <2>4, <2>5 DEF EnrichedBut
  <1>12. Thorough(row)'
    BY <1>7, <1>8, <1>9, <1>10, <1>11 DEF Thorough
  <1> QED BY <1>1, <1>3, <1>5, <1>7, <1>9, <1>12, EnrichMoves

(* A consumer is done with a book once nothing is left to ask about it. *)
LEMMA IdleIsThorough == Thorough(Idle) /\ Idle.work = NoWork /\ Thorough(Idle)'
  BY DEF Idle, Thorough

LEMMA GiveUpEnriches ==
  ASSUME EnrichInv, BackfillTypeOK, NEW c \in Consumers, GiveUp(c)
  PROVE  EnrichInv'
  <1>1. PICK me : me = consumer[c]
    OBVIOUS
  <1>2. ConsumerOK(me) /\ Plain(me) /\ Thorough(me)
    BY <1>1, RowsArePlain DEF BackfillTypeOK, EnrichInv
  <1>3. me.pc = "discover" /\ UNCHANGED <<attached, resolved, faults>> /\ me.work = NoWork
    BY <1>1, <1>2 DEF GiveUp, Thorough
  <1>4. CASE consumer' = [consumer EXCEPT ![c] = Idle]
    BY <1>1, <1>3, <1>4, IdleIsThorough, EnrichMoves
  <1>5. CASE consumer' = [consumer EXCEPT ![c].pc = "enrich"]
    <2>1. PICK row : row = [me EXCEPT !.pc = "enrich"]
      OBVIOUS
    <2>2. row.pc = "enrich" /\ row.work = NoWork
      BY <1>2, <1>3, <2>1 DEF Plain, ConsumerRow
    <2>3. consumer' = [consumer EXCEPT ![c] = row]
      BY <1>1, <1>5, <2>1 DEF BackfillTypeOK
    <2>4. Thorough(row)'
      BY <2>2 DEF Thorough
    <2> QED BY <1>1, <1>3, <2>2, <2>3, <2>4, EnrichMoves
  <1> QED BY <1>4, <1>5 DEF GiveUp

LEMMA FinishJobEnriches ==
  ASSUME EnrichInv, BackfillTypeOK, NEW c \in Consumers, FinishJob(c)
  PROVE  EnrichInv'
  <1>1. /\ consumer[c].pc = "enrich" /\ consumer[c].todo = << >> /\ consumer' = [consumer EXCEPT ![c] = Idle]
        /\ UNCHANGED <<attached, resolved, faults>>
    BY DEF FinishJob, answers
  <1>2. Thorough(consumer[c]) /\ Entries(<< >>) = {}
    BY DEF EnrichInv, Entries
  <1>3. consumer[c].work = NoWork \/ EnrichedBut(consumer[c].work, {})
    BY <1>1, <1>2 DEF Thorough
  <1> QED BY <1>1, <1>3, IdleIsThorough, EnrichMoves

LEMMA DieEnriches ==
  ASSUME EnrichInv, BackfillTypeOK, NEW c \in Consumers, Die(c)
  PROVE  EnrichInv'
  <1>1. /\ consumer' = [consumer EXCEPT ![c] = Idle] /\ faults' = faults + 1 /\ faults \in Nat
        /\ UNCHANGED <<attached, resolved>>
    BY DEF Die, EnrichInv, answers
  <1>2. ASSUME NEW d \in Consumers PROVE Thorough(consumer[d])'
    <2>1. PICK me : me = consumer[d]
      OBVIOUS
    <2>2. consumer'[d] = Idle \/ consumer'[d] = me
      BY <1>1, <2>1 DEF BackfillTypeOK
    <2>3. Thorough(me)'
      BY <1>1, <2>1, ContributionsStay DEF EnrichInv
    <2> QED BY <2>2, <2>3, IdleIsThorough
  <1>3. faults' \in Nat /\ faults' # 0
    BY <1>1
  <1> QED BY <1>2, <1>3 DEF EnrichInv, FoundIsEnriched

LEMMA EnrichStarts == SearchInit => EnrichInv
  <1> SUFFICES ASSUME SearchInit PROVE EnrichInv
    OBVIOUS
  <1>1. /\ resolved = [q \in Queries |-> NoWork] /\ consumer = [c \in Consumers |-> Idle] /\ faults = 0
    BY DEF SearchInit, BackfillInit
  <1> QED BY <1>1, IdleIsThorough DEF EnrichInv, FoundIsEnriched

LEMMA EnrichKeepsOn == ASSUME SearchInv, EnrichInv, [SearchNext]_allVars PROVE EnrichInv'
  <1>1. BackfillTypeOK /\ faults \in Nat
    BY DEF SearchInv, SearchTypeOK, EnrichInv
  <1>2. ASSUME UNCHANGED <<consumer, attached>>, faults' \in {faults, faults + 1},
               \A q \in Queries : resolved'[q] \in {resolved[q], NoWork}
        PROVE  EnrichInv'
    BY <1>2, EnrichRests
  <1>3. ASSUME UNCHANGED <<consumer, attached, resolved>>, faults' \in {faults, faults + 1} PROVE EnrichInv'
    BY <1>2, <1>3
  <1>4. CASE UNCHANGED allVars
    BY <1>3, <1>4 DEF allVars, backfillVars, answers
  <1>5. ASSUME NEW c \in Consumers, WorkerStep(c) PROVE EnrichInv'
    BY <1>1, <1>5, BeginJobEnriches, AskSourceEnriches, MarkResolvedEnriches, EnrichEnriches, GiveUpEnriches,
       FinishJobEnriches, DieEnriches DEF WorkerStep
  <1>6. ASSUME NEW id \in JobIds, QueueStep(id) PROVE EnrichInv'
    <2>1. UNCHANGED <<consumer, attached, resolved>> /\ faults' \in {faults, faults + 1}
      BY <1>6 DEF QueueStep, LoseLock, Requeue, ForgetJob, answers
    <2> QED BY <1>3, <2>1
  <1>7. ASSUME NEW q \in Queries, ForgetAnswer(q) PROVE EnrichInv'
    <2>1. UNCHANGED <<consumer, attached, faults>>
      BY <1>7 DEF ForgetAnswer
    <2>2. resolved' = resolved \/ resolved' = [resolved EXCEPT ![q] = NoWork]
      BY <1>7 DEF ForgetAnswer, answers
    <2>3. \A p \in Queries : resolved'[p] \in {resolved[p], NoWork}
      BY <1>1, <2>2 DEF BackfillTypeOK
    <2> QED BY <1>2, <2>1, <2>3
  <1>8. ASSUME NEW r \in Requests, Serve(r) PROVE EnrichInv'
    <2>1. UNCHANGED <<consumer, attached, resolved, faults>>
      BY <1>8 DEF Serve, ReadResults, SearchText, QuestionHit, CacheResults, ReadResolved, ReadNegative,
                  EnqueueMiss, backfillVars, answers
    <2> QED BY <1>3, <2>1
  <1>9. CASE ReaderStep
    <2>1. UNCHANGED <<consumer, attached, resolved>> /\ faults' \in {faults, faults + 1}
      BY <1>9 DEF ReaderStep, Type, Browse, Submit, Poll, Receive, Lose, backfillVars, answers
    <2> QED BY <1>3, <2>1
  <1> QED BY <1>4, <1>5, <1>6, <1>7, <1>8, <1>9 DEF SearchNext

(* process-backfill-job.ts: a book a query led to is asked about at every  *)
(* enrichment source and again at every source that drew a blank on the    *)
(* reader's words, so once its jobs are done and no worker was lost, all   *)
(* of them that know it have contributed, unless they were down.           *)
THEOREM NoBookIsLeftBare == SearchSpec => []FoundIsEnriched
  <1>1. EnrichInv => FoundIsEnriched
    BY DEF EnrichInv
  <1> QED BY <1>1, EnrichStarts, EnrichKeepsOn, SearchIsSafe, PTL DEF SearchSpec
=============================================================================
