------------------------------ MODULE JobQueue ------------------------------
(***************************************************************************)
(* A BullMQ queue as BullMqQueue sets it up: deterministic job ids, three  *)
(* attempts with backoff, finished jobs retained for a while, and deferred *)
(* jobs that run only when no other job waits.  BullMQ itself is external; *)
(* its part is modelled as the code and its comments use it.               *)
(***************************************************************************)
EXTENDS Naturals, Sequences

CONSTANTS
  JobIds,       \* the deterministic ids callers compute
  Payloads,     \* job data
  Consumers,    \* worker slots that take jobs
  MaxAttempts   \* DEFAULTS.attempts

Nobody == "nobody"
NoPayload == "none"

ASSUME QueueAssumption == MaxAttempts \in Nat \ {0} /\ Nobody \notin Consumers

VARIABLES
  jobs,         \* job id -> [state, data, deferred, made, stalls, owner]
  wait,         \* ids in the plain list, the next one first
  prioritized   \* ids of deferred jobs, the next one first

queueVars == <<jobs, wait, prioritized>>

Absent == [state |-> "absent", data |-> NoPayload, deferred |-> FALSE,
           made |-> 0, stalls |-> 0, owner |-> Nobody]

QueueInit == jobs = [id \in JobIds |-> Absent] /\ wait = << >> /\ prioritized = << >>

Push(id, deferred) ==
  IF deferred THEN prioritized' = Append(prioritized, id) /\ UNCHANGED wait
  ELSE wait' = Append(wait, id) /\ UNCHANGED prioritized

(* Mutant: the deterministic id is not a dedup key. *)
EnqueueAgain(id, data, deferred) ==
  /\ jobs' = [jobs EXCEPT ![id] = [Absent EXCEPT !.state = "waiting", !.data = data,
                                                 !.deferred = deferred]]
  /\ Push(id, deferred)

(* enqueue: a no-op while a job with this id is queued, running or, once   *)
(* finished, still retained.                                               *)
Enqueue(id, data, deferred) ==
  IF jobs[id].state # "absent" THEN UNCHANGED queueVars
  ELSE /\ jobs' = [jobs EXCEPT ![id] = [Absent EXCEPT !.state = "waiting", !.data = data,
                                                      !.deferred = deferred]]
       /\ Push(id, deferred)

(* moveToActive empties the plain list before it looks at the other one.   *)
Take(c, id) ==
  /\ \/ wait # << >> /\ id = Head(wait) /\ wait' = Tail(wait) /\ UNCHANGED prioritized
     \/ /\ wait = << >> /\ prioritized # << >> /\ id = Head(prioritized)
        /\ prioritized' = Tail(prioritized) /\ UNCHANGED wait
  /\ jobs' = [jobs EXCEPT ![id].state = "active", ![id].owner = c]

(* A consumer that lost its lock cannot settle the job any more.           *)
Owns(c, id) == jobs[id].state = "active" /\ jobs[id].owner = c

(* Mutant: an attempt is not counted until the next one begins. *)
LastAttemptLate(id) == jobs[id].made >= MaxAttempts
LastAttempt(id) == jobs[id].made + 1 >= MaxAttempts

Settle(c, id, job) ==
  /\ jobs' = IF Owns(c, id) THEN [jobs EXCEPT ![id] = job] ELSE jobs
  /\ UNCHANGED <<wait, prioritized>>

Complete(c, id) == Settle(c, id, [jobs[id] EXCEPT !.state = "completed", !.owner = Nobody])

(* The handler threw: retried after a backoff while attempts are left.     *)
FailAttempt(c, id) ==
  Settle(c, id, [jobs[id] EXCEPT !.state = IF LastAttempt(id) THEN "failed" ELSE "delayed",
                                 !.made = @ + 1, !.owner = Nobody])

BackoffOver(id) ==
  /\ jobs[id].state = "delayed"
  /\ jobs' = [jobs EXCEPT ![id].state = "waiting"]
  /\ Push(id, jobs[id].deferred)

(* The lock of a running job expired: given to the next free consumer, or  *)
(* failed the second time (maxStalledCount).                               *)
Stall(id) ==
  /\ jobs[id].state = "active"
  /\ IF jobs[id].stalls = 1
     THEN /\ jobs' = [jobs EXCEPT ![id].state = "failed", ![id].owner = Nobody]
          /\ UNCHANGED <<wait, prioritized>>
     ELSE /\ jobs' = [jobs EXCEPT ![id].state = "waiting", ![id].owner = Nobody, ![id].stalls = 1]
          /\ Push(id, jobs[id].deferred)

(* removeOnComplete after 60 s, removeOnFail after 5 min.                  *)
Age(id, states) ==
  /\ jobs[id].state \in states
  /\ jobs' = [jobs EXCEPT ![id] = Absent]
  /\ UNCHANGED <<wait, prioritized>>

QueuedJob ==
  [state : {"absent", "waiting", "active", "delayed", "completed", "failed"},
   data : Payloads \cup {NoPayload}, deferred : BOOLEAN,
   made : 0..MaxAttempts, stalls : 0..1, owner : Consumers \cup {Nobody}]

QueueTypeOK ==
  /\ jobs \in [JobIds -> QueuedJob]
  /\ wait \in Seq(JobIds) /\ prioritized \in Seq(JobIds)

Entries(list) == {list[i] : i \in 1..Len(list)}
Distinct(list) == \A i, j \in 1..Len(list) : list[i] = list[j] => i = j

(* A job waits in exactly one list, once, exactly while it is waiting; it  *)
(* has a consumer exactly while it is active; and while it may run again   *)
(* it has an attempt left.                                                 *)
Waiting == {id \in JobIds : jobs[id].state = "waiting"}
WaitsOnce ==
  /\ Distinct(wait) /\ Distinct(prioritized)
  /\ Entries(wait) \cap Entries(prioritized) = {}
  /\ Entries(wait) \cup Entries(prioritized) = Waiting
HeldWhileActive == \A id \in JobIds : jobs[id].state = "active" <=> jobs[id].owner # Nobody
AttemptsLeft ==
  \A id \in JobIds : jobs[id].state \in {"waiting", "active", "delayed"} => jobs[id].made < MaxAttempts
QueueConsistent == WaitsOnce /\ HeldWhileActive /\ AttemptsLeft
=============================================================================
