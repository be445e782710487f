--------------------------- MODULE JobQueueSafety ---------------------------
(***************************************************************************)
(* What every operation of the queue preserves, whoever calls it: a job    *)
(* waits in one list exactly while it is waiting, has a consumer exactly   *)
(* while it is active, and is never left to wait without an attempt.       *)
(***************************************************************************)
EXTENDS JobQueue, TLAPS

QueueInv == QueueTypeOK /\ QueueConsistent

(* Facts of the lists. *)
LEMMA AppendKeeps ==
  ASSUME NEW S, NEW list \in Seq(S), NEW e \in S
  PROVE /\ Append(list, e) \in Seq(S)
        /\ Entries(Append(list, e)) = Entries(list) \cup {e}
        /\ Distinct(list) /\ e \notin Entries(list) => Distinct(Append(list, e))
  <1>1. Append(list, e) \in Seq(S) /\ Len(Append(list, e)) = Len(list) + 1 /\ Len(list) \in Nat
    OBVIOUS
  <1>2. \A i \in 1..Len(list) : Append(list, e)[i] = list[i]
    OBVIOUS
  <1>3. Append(list, e)[Len(list) + 1] = e
    OBVIOUS
  <1>4. \A i \in 1..(Len(list) + 1) : i \in 1..Len(list) \/ i = Len(list) + 1
    BY <1>1
  <1>5. \A i \in 1..Len(list) : i \in 1..(Len(list) + 1)
    BY <1>1
  <1>6. Len(list) + 1 \in 1..(Len(list) + 1)
    BY <1>1
  <1>7. Entries(Append(list, e)) = Entries(list) \cup {e}
    BY <1>1, <1>2, <1>3, <1>4, <1>5, <1>6, Zenon DEF Entries
  <1>8. ASSUME Distinct(list), e \notin Entries(list)
        PROVE Distinct(Append(list, e))
    BY <1>8, <1>1, <1>2, <1>3, <1>4, Zenon DEF Distinct, Entries
  <1> QED BY <1>1, <1>7, <1>8

LEMMA TailKeeps ==
  ASSUME NEW S, NEW list \in Seq(S), list # << >>
  PROVE /\ Tail(list) \in Seq(S) /\ Head(list) \in S
        /\ Head(list) \in Entries(list)
        /\ Distinct(list) => Distinct(Tail(list)) /\ Entries(Tail(list)) = Entries(list) \ {Head(list)}
  <1>1. /\ Tail(list) \in Seq(S) /\ Head(list) \in S /\ Len(list) \in Nat \ {0}
        /\ Len(Tail(list)) = Len(list) - 1 /\ Head(list) = list[1]
    OBVIOUS
  <1>2. \A i \in 1..(Len(list) - 1) : Tail(list)[i] = list[i + 1]
    OBVIOUS
  <1>3. 1 \in 1..Len(list)
    BY <1>1
  <1>4. Head(list) \in Entries(list)
    BY <1>1, <1>3 DEF Entries
  <1>5. ASSUME Distinct(list) PROVE Distinct(Tail(list))
    <2>1. \A i \in 1..(Len(list) - 1) : i + 1 \in 1..Len(list)
      BY <1>1
    <2> QED BY <1>1, <1>2, <1>5, <2>1, SMT DEF Distinct
  <1>6. ASSUME Distinct(list) PROVE Entries(Tail(list)) = Entries(list) \ {Head(list)}
    <2>1. ASSUME NEW x \in Entries(Tail(list)) PROVE x \in Entries(list) \ {Head(list)}
      <3>1. PICK i \in 1..(Len(list) - 1) : x = list[i + 1]
        BY <1>1, <1>2, <2>1 DEF Entries
      <3>2. i + 1 \in 1..Len(list) /\ i + 1 # 1
        BY <1>1
      <3> QED BY <1>1, <1>3, <1>6, <3>1, <3>2 DEF Entries, Distinct
    <2>2. ASSUME NEW x \in Entries(list), x # Head(list) PROVE x \in Entries(Tail(list))
      <3>1. PICK i \in 1..Len(list) : x = list[i]
        BY DEF Entries
      <3>2. i - 1 \in 1..(Len(list) - 1) /\ (i - 1) + 1 = i
        BY <1>1, <2>2, <3>1
      <3>3. Tail(list)[i - 1] = x
        BY <1>2, <3>1, <3>2
      <3> QED BY <1>1, <3>2, <3>3 DEF Entries
    <2> QED BY <2>1, <2>2
  <1> QED BY <1>1, <1>4, <1>5, <1>6

-----------------------------------------------------------------------------
(* A job changes while it waits neither before nor after. *)
LEMMA RowChanges ==
  ASSUME QueueInv, NEW id \in JobIds, NEW row \in QueuedJob,
         jobs[id].state # "waiting", row.state # "waiting",
         row.state = "active" <=> row.owner # Nobody,
         row.state \in {"active", "delayed"} => row.made < MaxAttempts,
         jobs' = [jobs EXCEPT ![id] = row], UNCHANGED <<wait, prioritized>>
  PROVE QueueInv'
  <1>1. jobs' \in [JobIds -> QueuedJob] /\ jobs'[id] = row /\ \A x \in JobIds \ {id} : jobs'[x] = jobs[x]
    BY DEF QueueInv, QueueTypeOK
  <1>2. QueueTypeOK'
    BY <1>1 DEF QueueInv, QueueTypeOK
  <1>3. Waiting' = Waiting
    BY <1>1 DEF Waiting
  <1>4. WaitsOnce'
    BY <1>3 DEF QueueInv, QueueConsistent, WaitsOnce, Entries, Distinct
  <1>5. HeldWhileActive' /\ AttemptsLeft'
    BY <1>1 DEF QueueInv, QueueConsistent, HeldWhileActive, AttemptsLeft
  <1> QED BY <1>2, <1>4, <1>5 DEF QueueInv, QueueConsistent

(* A job that did not wait comes to wait at the end of a list. *)
LEMMA RowWaits ==
  ASSUME QueueInv, NEW id \in JobIds, NEW row \in QueuedJob, NEW deferred \in BOOLEAN,
         jobs[id].state # "waiting", row.state = "waiting", row.owner = Nobody,
         row.made < MaxAttempts,
         jobs' = [jobs EXCEPT ![id] = row], Push(id, deferred)
  PROVE QueueInv'
  <1>1. jobs' \in [JobIds -> QueuedJob] /\ jobs'[id] = row /\ \A x \in JobIds \ {id} : jobs'[x] = jobs[x]
    BY DEF QueueInv, QueueTypeOK
  <1>2. Waiting' = Waiting \cup {id} /\ id \notin Waiting
    BY <1>1 DEF Waiting
  <1>3. id \notin Entries(wait) /\ id \notin Entries(prioritized)
    BY <1>2 DEF QueueInv, QueueConsistent, WaitsOnce
  <1>4. wait \in Seq(JobIds) /\ prioritized \in Seq(JobIds)
    BY DEF QueueInv, QueueTypeOK
  <1>5. HeldWhileActive' /\ AttemptsLeft'
    BY <1>1 DEF QueueInv, QueueConsistent, HeldWhileActive, AttemptsLeft
  <1>6. CASE deferred
    <2>1. prioritized' = Append(prioritized, id) /\ wait' = wait
      BY <1>6 DEF Push
    <2>2. /\ prioritized' \in Seq(JobIds) /\ Distinct(prioritized')
          /\ Entries(prioritized') = Entries(prioritized) \cup {id}
      BY <1>3, <1>4, <2>1, AppendKeeps DEF QueueInv, QueueConsistent, WaitsOnce
    <2>3. WaitsOnce'
      BY <1>2, <1>3, <2>1, <2>2 DEF QueueInv, QueueConsistent, WaitsOnce
    <2> QED BY <1>1, <1>4, <1>5, <2>1, <2>2, <2>3 DEF QueueInv, QueueTypeOK, QueueConsistent
  <1>7. CASE ~deferred
    <2>1. wait' = Append(wait, id) /\ prioritized' = prioritized
      BY <1>7 DEF Push
    <2>2. /\ wait' \in Seq(JobIds) /\ Distinct(wait')
          /\ Entries(wait') = Entries(wait) \cup {id}
      BY <1>3, <1>4, <2>1, AppendKeeps DEF QueueInv, QueueConsistent, WaitsOnce
    <2>3. WaitsOnce'
      BY <1>2, <1>3, <2>1, <2>2 DEF QueueInv, QueueConsistent, WaitsOnce
    <2> QED BY <1>1, <1>4, <1>5, <2>1, <2>2, <2>3 DEF QueueInv, QueueTypeOK, QueueConsistent
  <1> QED BY <1>6, <1>7

-----------------------------------------------------------------------------
LEMMA RowIsJob == ASSUME QueueInv, NEW id \in JobIds PROVE jobs[id] \in QueuedJob
  BY DEF QueueInv, QueueTypeOK

LEMMA QueueStarts == QueueInit => QueueInv
  <1> SUFFICES ASSUME QueueInit PROVE QueueInv
    OBVIOUS
  <1>1. Absent \in QueuedJob /\ Absent.state = "absent" /\ Absent.owner = Nobody
    BY QueueAssumption DEF Absent, QueuedJob
  <1>2. QueueTypeOK
    BY <1>1 DEF QueueInit, QueueTypeOK
  <1>3. Entries(wait) = {} /\ Entries(prioritized) = {} /\ Distinct(wait) /\ Distinct(prioritized)
    BY DEF QueueInit, Entries, Distinct
  <1>4. \A id \in JobIds : jobs[id].state = "absent" /\ jobs[id].owner = Nobody
    BY <1>1 DEF QueueInit
  <1> QED
    BY <1>2, <1>3, <1>4 DEF QueueInv, QueueConsistent, WaitsOnce, Waiting, HeldWhileActive, AttemptsLeft

LEMMA QueueStutters == ASSUME QueueInv, UNCHANGED queueVars PROVE QueueInv'
  BY DEF queueVars, QueueInv, QueueTypeOK, QueueConsistent, WaitsOnce, Waiting, HeldWhileActive,
         AttemptsLeft, Entries, Distinct

LEMMA EnqueueKeeps ==
  ASSUME QueueInv, NEW id \in JobIds, NEW data \in Payloads, NEW deferred \in BOOLEAN,
         Enqueue(id, data, deferred)
  PROVE QueueInv'
  <1>1. CASE jobs[id].state # "absent"
    BY <1>1, QueueStutters DEF Enqueue
  <1>2. CASE jobs[id].state = "absent"
    <2> DEFINE row == [state |-> "waiting", data |-> data, deferred |-> deferred, made |-> 0,
                       stalls |-> 0, owner |-> Nobody]
    <2>1. row \in QueuedJob /\ row.state = "waiting" /\ row.owner = Nobody /\ row.made = 0
      BY QueueAssumption DEF QueuedJob
    <2>2. jobs' = [jobs EXCEPT ![id] = row] /\ Push(id, deferred)
      BY <1>2 DEF Enqueue, Absent
    <2>3. 0 < MaxAttempts
      BY QueueAssumption
    <2> HIDE DEF row
    <2> QED BY <1>2, <2>1, <2>2, <2>3, RowWaits
  <1> QED BY <1>1, <1>2

LEMMA TakeKeeps ==
  ASSUME QueueInv, NEW c \in Consumers, NEW id, Take(c, id)
  PROVE QueueInv' /\ id \in JobIds /\ jobs[id].state = "waiting"
  <1>1. wait \in Seq(JobIds) /\ prioritized \in Seq(JobIds) /\ jobs \in [JobIds -> QueuedJob]
    BY DEF QueueInv, QueueTypeOK
  <1>2. WaitsOnce /\ HeldWhileActive /\ AttemptsLeft
    BY DEF QueueInv, QueueConsistent
  <1>3. /\ id \in JobIds /\ id \in Entries(wait) \cup Entries(prioritized)
        /\ wait' \in Seq(JobIds) /\ prioritized' \in Seq(JobIds)
        /\ Distinct(wait') /\ Distinct(prioritized')
        /\ Entries(wait') \cap Entries(prioritized') = {}
        /\ Entries(wait') \cup Entries(prioritized') = (Entries(wait) \cup Entries(prioritized)) \ {id}
    <2>1. CASE wait # << >> /\ id = Head(wait) /\ wait' = Tail(wait) /\ prioritized' = prioritized
      <3>1. /\ wait' \in Seq(JobIds) /\ id \in JobIds /\ id \in Entries(wait)
            /\ Distinct(wait') /\ Entries(wait') = Entries(wait) \ {id}
        BY <1>1, <1>2, <2>1, TailKeeps DEF WaitsOnce
      <3> QED BY <1>1, <1>2, <2>1, <3>1 DEF WaitsOnce
    <2>2. CASE /\ prioritized # << >> /\ id = Head(prioritized)
               /\ prioritized' = Tail(prioritized) /\ wait' = wait
      <3>1. /\ prioritized' \in Seq(JobIds) /\ id \in JobIds /\ id \in Entries(prioritized)
            /\ Distinct(prioritized') /\ Entries(prioritized') = Entries(prioritized) \ {id}
        BY <1>1, <1>2, <2>2, TailKeeps DEF WaitsOnce
      <3> QED BY <1>1, <1>2, <2>2, <3>1 DEF WaitsOnce
    <2> QED BY <2>1, <2>2 DEF Take
  <1>4. jobs[id].state = "waiting"
    BY <1>2, <1>3 DEF WaitsOnce, Waiting
  <1>5. /\ jobs' \in [JobIds -> QueuedJob]
        /\ \A x \in JobIds \ {id} : jobs'[x] = jobs[x]
        /\ jobs'[id] = [jobs[id] EXCEPT !.state = "active", !.owner = c]
    BY <1>1, <1>3 DEF Take, QueuedJob
  <1>6. jobs'[id].state = "active" /\ jobs'[id].owner = c /\ jobs'[id].made = jobs[id].made /\ c # Nobody
    BY <1>1, <1>3, <1>5, QueueAssumption DEF QueuedJob
  <1>7. Waiting' = Waiting \ {id}
    BY <1>5, <1>6 DEF Waiting
  <1>8. WaitsOnce'
    BY <1>2, <1>3, <1>7 DEF WaitsOnce
  <1>9. HeldWhileActive' /\ AttemptsLeft'
    BY <1>2, <1>3, <1>4, <1>5, <1>6 DEF HeldWhileActive, AttemptsLeft
  <1> QED BY <1>3, <1>4, <1>5, <1>8, <1>9 DEF QueueInv, QueueTypeOK, QueueConsistent

(* An attempt more, and whatever state comes of it. *)
LEMMA Changed ==
  ASSUME NEW job \in QueuedJob, NEW s, NEW c
  PROVE [job EXCEPT !.state = s, !.made = @ + 1, !.owner = c]
          = [state |-> s, data |-> job.data, deferred |-> job.deferred, made |-> job.made + 1,
             stalls |-> job.stalls, owner |-> c]
  <1> DEFINE first == [job EXCEPT !.state = s]
             second == [first EXCEPT !.made = @ + 1]
             third == [second EXCEPT !.owner = c]
  <1>1. first = [state |-> s, data |-> job.data, deferred |-> job.deferred, made |-> job.made,
                 stalls |-> job.stalls, owner |-> job.owner]
    BY DEF QueuedJob
  <1>2. second = [state |-> s, data |-> job.data, deferred |-> job.deferred, made |-> job.made + 1,
                  stalls |-> job.stalls, owner |-> job.owner]
    <2> HIDE DEF first
    <2> QED BY <1>1
  <1>3. third = [state |-> s, data |-> job.data, deferred |-> job.deferred, made |-> job.made + 1,
                 stalls |-> job.stalls, owner |-> c]
    <2> HIDE DEF second
    <2> QED BY <1>2
  <1> QED BY <1>3, Zenon

LEMMA CompleteKeeps ==
  ASSUME QueueInv, NEW c \in Consumers, NEW id \in JobIds, Complete(c, id)
  PROVE QueueInv'
  <1>1. CASE ~Owns(c, id)
    BY <1>1, QueueStutters DEF Complete, Settle, queueVars
  <1>2. CASE Owns(c, id)
    <2> DEFINE row == [jobs[id] EXCEPT !.state = "completed", !.owner = Nobody]
    <2>1. row \in QueuedJob /\ row.state = "completed" /\ row.owner = Nobody
      BY RowIsJob DEF QueuedJob
    <2>2. jobs' = [jobs EXCEPT ![id] = row] /\ UNCHANGED <<wait, prioritized>>
      BY <1>2 DEF Complete, Settle
    <2>3. jobs[id].state # "waiting"
      BY <1>2 DEF Owns
    <2> HIDE DEF row
    <2> QED BY <2>1, <2>2, <2>3, RowChanges
  <1> QED BY <1>1, <1>2

LEMMA FailAttemptKeeps ==
  ASSUME QueueInv, NEW c \in Consumers, NEW id \in JobIds, FailAttempt(c, id)
  PROVE QueueInv'
  <1>1. CASE ~Owns(c, id)
    BY <1>1, QueueStutters DEF FailAttempt, Settle, queueVars
  <1>2. CASE Owns(c, id)
    <2> DEFINE row == [state |-> IF LastAttempt(id) THEN "failed" ELSE "delayed",
                       data |-> jobs[id].data, deferred |-> jobs[id].deferred,
                       made |-> jobs[id].made + 1, stalls |-> jobs[id].stalls, owner |-> Nobody]
    <2>1. jobs[id] \in QueuedJob /\ jobs[id].state = "active"
      BY <1>2, RowIsJob DEF Owns
    <2>2. jobs[id].made < MaxAttempts /\ jobs[id].made \in Nat /\ MaxAttempts \in Nat
      BY <2>1, QueueAssumption DEF QueueInv, QueueConsistent, AttemptsLeft, QueuedJob
    <2>3. /\ row \in QueuedJob /\ row.owner = Nobody /\ row.state \in {"failed", "delayed"}
          /\ row.state = "delayed" => row.made < MaxAttempts
      BY <2>1, <2>2 DEF QueuedJob, LastAttempt
    <2>4. jobs' = [jobs EXCEPT ![id] = row] /\ UNCHANGED <<wait, prioritized>>
      <3>1. ASSUME NEW state
            PROVE [jobs[id] EXCEPT !.state = state, !.made = @ + 1, !.owner = Nobody]
                    = [state |-> state, data |-> jobs[id].data, deferred |-> jobs[id].deferred,
                       made |-> jobs[id].made + 1, stalls |-> jobs[id].stalls, owner |-> Nobody]
        BY <2>1, Changed, Zenon
      <3>2. row = [jobs[id] EXCEPT !.state = IF LastAttempt(id) THEN "failed" ELSE "delayed",
                                   !.made = @ + 1, !.owner = Nobody]
        BY <3>1, Zenon
      <3> HIDE DEF row
      <3> QED BY <1>2, <3>2, Zenon DEF FailAttempt, Settle
    <2> HIDE DEF row
    <2> QED BY <2>1, <2>3, <2>4, RowChanges
  <1> QED BY <1>1, <1>2

LEMMA BackoffOverKeeps ==
  ASSUME QueueInv, NEW id \in JobIds, BackoffOver(id)
  PROVE QueueInv'
  <1> DEFINE row == [jobs[id] EXCEPT !.state = "waiting"]
  <1>1. /\ jobs[id] \in QueuedJob /\ jobs[id].state = "delayed" /\ jobs[id].owner = Nobody
        /\ jobs[id].made < MaxAttempts
    BY RowIsJob DEF BackoffOver, QueueInv, QueueConsistent, HeldWhileActive, AttemptsLeft
  <1>2. row \in QueuedJob /\ row.state = "waiting" /\ row.owner = Nobody /\ row.made < MaxAttempts
    BY <1>1 DEF QueuedJob
  <1>3. jobs' = [jobs EXCEPT ![id] = row] /\ Push(id, jobs[id].deferred) /\ jobs[id].deferred \in BOOLEAN
    BY <1>1 DEF BackoffOver, QueueInv, QueueTypeOK, QueuedJob
  <1> HIDE DEF row
  <1> QED BY <1>1, <1>2, <1>3, RowWaits

LEMMA StallKeeps ==
  ASSUME QueueInv, NEW id \in JobIds, Stall(id)
  PROVE QueueInv'
  <1>1. jobs[id] \in QueuedJob /\ jobs[id].state = "active" /\ jobs[id].made < MaxAttempts
    BY RowIsJob DEF Stall, QueueInv, QueueConsistent, AttemptsLeft
  <1>2. CASE jobs[id].stalls = 1
    <2> DEFINE row == [jobs[id] EXCEPT !.state = "failed", !.owner = Nobody]
    <2>1. row \in QueuedJob /\ row.state = "failed" /\ row.owner = Nobody
      BY <1>1 DEF QueuedJob
    <2>2. jobs' = [jobs EXCEPT ![id] = row] /\ UNCHANGED <<wait, prioritized>>
      BY <1>1, <1>2 DEF Stall, QueueInv, QueueTypeOK, QueuedJob
    <2> HIDE DEF row
    <2> QED BY <1>1, <2>1, <2>2, RowChanges
  <1>3. CASE jobs[id].stalls # 1
    <2> DEFINE row == [state |-> "waiting", data |-> jobs[id].data, deferred |-> jobs[id].deferred,
                       made |-> jobs[id].made, stalls |-> 1, owner |-> Nobody]
    <2>1. row \in QueuedJob /\ row.state = "waiting" /\ row.owner = Nobody /\ row.made < MaxAttempts
      BY <1>1 DEF QueuedJob
    <2>2. jobs' = [jobs EXCEPT ![id] = row] /\ Push(id, jobs[id].deferred) /\ jobs[id].deferred \in BOOLEAN
      BY <1>1, <1>3 DEF Stall, QueueInv, QueueTypeOK, QueuedJob
    <2> HIDE DEF row
    <2> QED BY <1>1, <2>1, <2>2, RowWaits
  <1> QED BY <1>2, <1>3

LEMMA AgeKeeps ==
  ASSUME QueueInv, NEW id \in JobIds, NEW states \in SUBSET {"completed", "failed"}, Age(id, states)
  PROVE QueueInv'
  <1>1. Absent \in QueuedJob /\ Absent.state = "absent" /\ Absent.owner = Nobody
    BY QueueAssumption DEF Absent, QueuedJob
  <1>2. jobs[id].state # "waiting" /\ jobs' = [jobs EXCEPT ![id] = Absent] /\ UNCHANGED <<wait, prioritized>>
    BY DEF Age
  <1> QED BY <1>1, <1>2, RowChanges

(* All finished jobs go at once. *)
LEMMA AgeAllKeeps ==
  ASSUME QueueInv, UNCHANGED <<wait, prioritized>>,
         jobs' = [id \in JobIds |-> IF jobs[id].state \in {"completed", "failed"} THEN Absent ELSE jobs[id]]
  PROVE QueueInv'
  <1>1. Absent \in QueuedJob /\ Absent.state = "absent" /\ Absent.owner = Nobody
    BY QueueAssumption DEF Absent, QueuedJob
  <1>2. \A id \in JobIds : \/ jobs'[id] = jobs[id]
                           \/ jobs'[id] = Absent /\ jobs[id].state \in {"completed", "failed"}
    OBVIOUS
  <1>3. QueueTypeOK'
    BY <1>1 DEF QueueInv, QueueTypeOK
  <1>4. Waiting' = Waiting
    BY <1>1, <1>2 DEF Waiting
  <1>5. WaitsOnce'
    BY <1>4 DEF QueueInv, QueueConsistent, WaitsOnce, Entries, Distinct
  <1>6. HeldWhileActive' /\ AttemptsLeft'
    BY <1>1, <1>2 DEF QueueInv, QueueConsistent, HeldWhileActive, AttemptsLeft
  <1> QED BY <1>3, <1>5, <1>6 DEF QueueInv, QueueConsistent

-----------------------------------------------------------------------------
(* What each operation makes of its job, and that it leaves the others.    *)
Others(id) == \A x \in JobIds \ {id} : jobs'[x] = jobs[x]
Job(state, was, made, stalls, owner) ==
  [state |-> state, data |-> was.data, deferred |-> was.deferred, made |-> made,
   stalls |-> stalls, owner |-> owner]

LEMMA Handed ==
  ASSUME NEW job \in QueuedJob, NEW s, NEW c
  PROVE [job EXCEPT !.state = s, !.owner = c] = Job(s, job, job.made, job.stalls, c)
  <1> DEFINE first == [job EXCEPT !.state = s]
  <1>1. first = Job(s, job, job.made, job.stalls, job.owner)
    BY DEF QueuedJob, Job
  <1>2. [first EXCEPT !.owner = c] = Job(s, job, job.made, job.stalls, c)
    <2> HIDE DEF first
    <2> QED BY <1>1 DEF Job
  <1> QED BY <1>2, Zenon

LEMMA OneRow ==
  ASSUME QueueInv, NEW id \in JobIds, NEW row, jobs' = [jobs EXCEPT ![id] = row]
  PROVE Others(id) /\ jobs'[id] = row
  BY DEF QueueInv, QueueTypeOK, Others

LEMMA EnqueueRow ==
  ASSUME QueueInv, NEW id \in JobIds, NEW data, NEW deferred, Enqueue(id, data, deferred)
  PROVE /\ Others(id)
        /\ jobs[id].state # "absent" => jobs'[id] = jobs[id]
        /\ jobs[id].state = "absent" =>
             jobs'[id] = [state |-> "waiting", data |-> data, deferred |-> deferred, made |-> 0,
                          stalls |-> 0, owner |-> Nobody]
  <1>1. CASE jobs[id].state # "absent"
    BY <1>1 DEF Enqueue, queueVars, Others
  <1>2. CASE jobs[id].state = "absent"
    <2> DEFINE row == [state |-> "waiting", data |-> data, deferred |-> deferred, made |-> 0,
                       stalls |-> 0, owner |-> Nobody]
    <2>1. jobs' = [jobs EXCEPT ![id] = row]
      BY <1>2 DEF Enqueue, Absent
    <2> HIDE DEF row
    <2>2. Others(id) /\ jobs'[id] = row
      BY <2>1, OneRow
    <2> QED BY <1>2, <2>2 DEF row
  <1> QED BY <1>1, <1>2

LEMMA TakeRow ==
  ASSUME QueueInv, NEW c \in Consumers, NEW id, Take(c, id)
  PROVE /\ id \in JobIds /\ jobs[id].state = "waiting" /\ Others(id)
        /\ jobs'[id] = Job("active", jobs[id], jobs[id].made, jobs[id].stalls, c)
  <1>1. id \in JobIds /\ jobs[id].state = "waiting"
    BY TakeKeeps
  <1>2. jobs \in [JobIds -> QueuedJob]
    BY DEF QueueInv, QueueTypeOK
  <1> DEFINE row == Job("active", jobs[id], jobs[id].made, jobs[id].stalls, c)
  <1>3. jobs' = [jobs EXCEPT ![id] = row]
    <2>1. jobs' = [jobs EXCEPT ![id] = [jobs[id] EXCEPT !.state = "active", !.owner = c]]
      BY <1>1, <1>2 DEF Take, QueuedJob
    <2>2. [jobs[id] EXCEPT !.state = "active", !.owner = c] = row
      BY <1>1, RowIsJob, Handed, Zenon
    <2> HIDE DEF row
    <2> QED BY <2>1, <2>2, Zenon
  <1> HIDE DEF row
  <1>4. Others(id) /\ jobs'[id] = row
    BY <1>1, <1>3, OneRow
  <1> QED BY <1>1, <1>4 DEF row

LEMMA CompleteRow ==
  ASSUME QueueInv, NEW c \in Consumers, NEW id \in JobIds, Complete(c, id)
  PROVE \/ jobs' = jobs /\ ~Owns(c, id)
        \/ /\ Owns(c, id) /\ Others(id)
           /\ jobs'[id] = Job("completed", jobs[id], jobs[id].made, jobs[id].stalls, Nobody)
  <1>1. CASE ~Owns(c, id)
    BY <1>1 DEF Complete, Settle
  <1>2. CASE Owns(c, id)
    <2> DEFINE row == Job("completed", jobs[id], jobs[id].made, jobs[id].stalls, Nobody)
    <2>1. [jobs[id] EXCEPT !.state = "completed", !.owner = Nobody] = row
      BY RowIsJob, Handed, Zenon
    <2> HIDE DEF row
    <2>2. jobs' = [jobs EXCEPT ![id] = row]
      BY <1>2, <2>1, Zenon DEF Complete, Settle
    <2>3. Others(id) /\ jobs'[id] = row
      BY <2>2, OneRow
    <2> QED BY <1>2, <2>3 DEF row
  <1> QED BY <1>1, <1>2

LEMMA FailAttemptRow ==
  ASSUME QueueInv, NEW c \in Consumers, NEW id \in JobIds, FailAttempt(c, id)
  PROVE \/ jobs' = jobs /\ ~Owns(c, id)
        \/ /\ Owns(c, id) /\ Others(id)
           /\ jobs'[id] = Job(IF LastAttempt(id) THEN "failed" ELSE "delayed", jobs[id],
                              jobs[id].made + 1, jobs[id].stalls, Nobody)
  <1>1. CASE ~Owns(c, id)
    BY <1>1 DEF FailAttempt, Settle
  <1>2. CASE Owns(c, id)
    <2> DEFINE row == Job(IF LastAttempt(id) THEN "failed" ELSE "delayed", jobs[id],
                          jobs[id].made + 1, jobs[id].stalls, Nobody)
    <2>1. [jobs[id] EXCEPT !.state = IF LastAttempt(id) THEN "failed" ELSE "delayed",
                           !.made = @ + 1, !.owner = Nobody] = row
      BY RowIsJob, Changed, Zenon DEF Job
    <2> HIDE DEF row
    <2>2. jobs' = [jobs EXCEPT ![id] = row]
      BY <1>2, <2>1, Zenon DEF FailAttempt, Settle
    <2>3. Others(id) /\ jobs'[id] = row
      BY <2>2, OneRow
    <2> QED BY <1>2, <2>3 DEF row
  <1> QED BY <1>1, <1>2

LEMMA BackoffOverRow ==
  ASSUME QueueInv, NEW id \in JobIds, BackoffOver(id)
  PROVE /\ jobs[id].state = "delayed" /\ Others(id)
        /\ jobs'[id] = Job("waiting", jobs[id], jobs[id].made, jobs[id].stalls, jobs[id].owner)
  <1> DEFINE row == Job("waiting", jobs[id], jobs[id].made, jobs[id].stalls, jobs[id].owner)
  <1>1. [jobs[id] EXCEPT !.state = "waiting"] = row
    BY RowIsJob DEF QueuedJob, Job
  <1> HIDE DEF row
  <1>2. jobs' = [jobs EXCEPT ![id] = row] /\ jobs[id].state = "delayed"
    BY <1>1, Zenon DEF BackoffOver
  <1>3. Others(id) /\ jobs'[id] = row
    BY <1>2, OneRow
  <1> QED BY <1>2, <1>3 DEF row

LEMMA StallRow ==
  ASSUME QueueInv, NEW id \in JobIds, Stall(id)
  PROVE /\ jobs[id].state = "active" /\ Others(id)
        /\ \/ jobs'[id] = Job("failed", jobs[id], jobs[id].made, 1, Nobody)
           \/ jobs'[id] = Job("waiting", jobs[id], jobs[id].made, 1, Nobody)
  <1>1. jobs \in [JobIds -> QueuedJob] /\ jobs[id].state = "active"
    BY DEF QueueInv, QueueTypeOK, Stall
  <1>2. CASE jobs[id].stalls = 1
    <2> DEFINE row == Job("failed", jobs[id], jobs[id].made, 1, Nobody)
    <2>1. jobs' = [jobs EXCEPT ![id] = row]
      BY <1>1, <1>2 DEF Stall, QueuedJob, Job
    <2> HIDE DEF row
    <2>2. Others(id) /\ jobs'[id] = row
      BY <2>1, OneRow
    <2> QED BY <1>1, <2>2 DEF row
  <1>3. CASE jobs[id].stalls # 1
    <2> DEFINE row == Job("waiting", jobs[id], jobs[id].made, 1, Nobody)
    <2>1. jobs' = [jobs EXCEPT ![id] = row]
      BY <1>1, <1>3 DEF Stall, QueuedJob, Job
    <2> HIDE DEF row
    <2>2. Others(id) /\ jobs'[id] = row
      BY <2>1, OneRow
    <2> QED BY <1>1, <2>2 DEF row
  <1> QED BY <1>2, <1>3

(* A job keeps what it was queued with for as long as the queue knows it,  *)
(* and is only forgotten by age.                                           *)
KeepsData == \A id \in JobIds : jobs'[id].state # "absent" =>
               jobs[id].state # "absent" /\ jobs'[id].data = jobs[id].data
Forgets(id) == jobs[id].state # "absent" /\ jobs'[id].state = "absent"

LEMMA DataStays ==
  ASSUME QueueInv, NEW id \in JobIds,
         \/ \E c \in Consumers : Take(c, id) \/ Complete(c, id) \/ FailAttempt(c, id)
         \/ BackoffOver(id) \/ Stall(id)
  PROVE KeepsData /\ \A x \in JobIds : ~Forgets(x)
  <1>1. ASSUME jobs' = jobs PROVE KeepsData /\ \A x \in JobIds : ~Forgets(x)
    BY <1>1 DEF KeepsData, Forgets
  <1>2. ASSUME Others(id), jobs'[id].data = jobs[id].data, jobs[id].state # "absent",
               jobs'[id].state # "absent"
        PROVE KeepsData /\ \A x \in JobIds : ~Forgets(x)
    BY <1>2 DEF KeepsData, Forgets, Others
  <1>3. ASSUME NEW state, NEW made, NEW stalls, NEW owner, Others(id), jobs[id].state # "absent",
               jobs'[id] = Job(state, jobs[id], made, stalls, owner), state # "absent"
        PROVE KeepsData /\ \A x \in JobIds : ~Forgets(x)
    <2>1. jobs'[id].data = jobs[id].data /\ jobs'[id].state # "absent"
      BY <1>3 DEF Job
    <2> QED BY <1>2, <1>3, <2>1
  <1>4. ASSUME NEW c \in Consumers, Take(c, id) PROVE KeepsData /\ \A x \in JobIds : ~Forgets(x)
    BY <1>3, <1>4, TakeRow
  <1>5. ASSUME NEW c \in Consumers, Complete(c, id) PROVE KeepsData /\ \A x \in JobIds : ~Forgets(x)
    BY <1>1, <1>3, <1>5, CompleteRow DEF Owns
  <1>6. ASSUME NEW c \in Consumers, FailAttempt(c, id) PROVE KeepsData /\ \A x \in JobIds : ~Forgets(x)
    BY <1>1, <1>3, <1>6, FailAttemptRow DEF Owns
  <1>7. CASE BackoffOver(id)
    BY <1>3, <1>7, BackoffOverRow
  <1>8. CASE Stall(id)
    BY <1>3, <1>8, StallRow
  <1> QED BY <1>4, <1>5, <1>6, <1>7, <1>8
=============================================================================
