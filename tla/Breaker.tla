------------------------------ MODULE Breaker ------------------------------
(***************************************************************************)
(* createResilientFetcher: retry around a circuit breaker around a time    *)
(* limit.  One fetcher (one breaker) may serve the requests of several     *)
(* services, which is what the worker does and the API does not.           *)
(***************************************************************************)
EXTENDS Naturals

CONSTANTS
  Callers,       \* slots for concurrent fetches, each of one service
  ServiceOf,     \* caller -> service
  FetcherOf,     \* caller -> fetcher instance
  Threshold,     \* consecutiveFailuresBeforeOpen
  Tries,         \* retryAttempts + 1
  Faulty         \* services that may fail

NoOne == "none"
ASSUME BreakerAssumption ==
  Threshold \in Nat \ {0} /\ Tries \in Nat \ {0} /\ NoOne \notin Callers

VARIABLES breakers, fetches, sick

breakerVars == <<breakers, fetches, sick>>

Fetchers == {FetcherOf[c] : c \in Callers}
Underway(pc, left, trial, behind) ==
  [pc |-> pc, left |-> left, trial |-> trial, behind |-> behind, answer |-> "none"]
Ended(answer) == [pc |-> "ended", left |-> 0, trial |-> FALSE, behind |-> NoOne, answer |-> answer]
Quiet == Underway("idle", 0, FALSE, NoOne)

BreakerInit ==
  /\ breakers = [f \in Fetchers |-> [state |-> "closed", count |-> 0, tester |-> NoOne]]
  /\ fetches = [c \in Callers |-> Quiet]
  /\ sick = {}

-----------------------------------------------------------------------------
(* One fetch: attempts, each through the breaker, until one is answered.   *)
(* A promise continuation runs before any timer or answer, so an attempt    *)
(* goes through the breaker in the step that makes it.                      *)

\* What retry does with an attempt that threw: wait and try again, or give up.
Missed(fetch) ==
  IF fetch.left > 1 THEN Underway("backoff", fetch.left - 1, FALSE, NoOne) ELSE Ended("down")

\* Closed lets the request out; open refuses at once; open long enough makes
\* this attempt the trial; half-open waits for the trial of another.
Admitted(fetch, b) ==
  CASE b.state = "closed" -> Underway("fly", fetch.left, FALSE, NoOne)
    [] b.state = "open"   -> Missed(fetch)
    [] b.state = "cooled" -> Underway("fly", fetch.left, TRUE, NoOne)
    [] b.state = "half"   -> Underway("wait", fetch.left, FALSE, b.tester)
TriedBy(c, b) == IF b.state = "cooled" THEN [state |-> "half", count |-> b.count, tester |-> c] ELSE b

Attempt(c, fetch) ==
  LET f == FetcherOf[c] IN
  /\ fetches' = [fetches EXCEPT ![c] = Admitted(fetch, breakers[f])]
  /\ breakers' = [breakers EXCEPT ![f] = TriedBy(c, @)]
  /\ UNCHANGED sick

StartFetch(c) == fetches[c].pc = "idle" /\ Attempt(c, Underway("idle", Tries, FALSE, NoOne))
Backoff(c)    == fetches[c].pc = "backoff" /\ Attempt(c, fetches[c])

(* Mutant: a 4xx throws as well. *)
CountsClientErrors(outcome) == outcome \in {"fail", "client"}
(* Mutant: a 5xx is handed back like any answer. *)
HandsBackErrors(outcome) == outcome = "none"
CountsAsFailure(outcome) == outcome = "fail"

(* Mutant: a failed trial leaves the breaker half-open, its promise settled. *)
FailingStaysHalf(b, trial) ==
  LET n == IF b.count < Threshold THEN b.count + 1 ELSE b.count IN
  IF b.state = "closed" /\ (trial \/ n >= Threshold)
  THEN [state |-> "open", count |-> n, tester |-> NoOne]
  ELSE [b EXCEPT !.count = n]
Failing(b, trial) ==
  LET n == IF b.count < Threshold THEN b.count + 1 ELSE b.count IN
  IF b.state \in {"closed", "half"} /\ (trial \/ n >= Threshold)
  THEN [state |-> "open", count |-> n, tester |-> NoOne]
  ELSE [b EXCEPT !.count = n]

(* Mutant: one success is not enough to close. *)
PassingReopens(b, trial) ==
  IF trial /\ b.state = "half" THEN [state |-> "open", count |-> 0, tester |-> NoOne]
  ELSE [b EXCEPT !.count = 0]
Passing(b, trial) ==
  IF trial /\ b.state = "half" THEN [state |-> "closed", count |-> 0, tester |-> NoOne]
  ELSE [b EXCEPT !.count = 0]

\* The attempt is answered, fails, or runs into the time limit; those that
\* waited for it as a trial go through the breaker again, one of them first.
Waiting(c) == {d \in Callers : fetches[c].trial /\ fetches[d].pc = "wait" /\ fetches[d].behind = c}

Return(c, outcome) ==
  LET f == FetcherOf[c]
      failed == CountsAsFailure(outcome)
      this == IF failed THEN Missed(fetches[c]) ELSE Ended(outcome)
      b == IF failed THEN Failing(breakers[f], fetches[c].trial) ELSE Passing(breakers[f], fetches[c].trial)
  IN
  /\ fetches[c].pc = "fly"
  /\ outcome = "fail" => ServiceOf[c] \in sick
  /\ \E first \in Waiting(c) \cup {c} :
       /\ first = c => Waiting(c) = {}
       /\ fetches' = [d \in Callers |->
                        IF d = c THEN this
                        ELSE IF d \notin Waiting(c) THEN fetches[d]
                        ELSE Admitted(fetches[d], IF d = first THEN b ELSE TriedBy(first, b))]
       /\ breakers' = [breakers EXCEPT ![f] = IF first = c THEN b ELSE TriedBy(first, b)]
  /\ UNCHANGED sick

TakeAnswer(c) ==
  /\ fetches[c].pc = "ended"
  /\ fetches' = [fetches EXCEPT ![c] = Quiet]
  /\ UNCHANGED <<breakers, sick>>

\* halfOpenAfter has passed since the breaker opened.
CoolDown(f) ==
  /\ breakers[f].state = "open"
  /\ breakers' = [breakers EXCEPT ![f] = [breakers[f] EXCEPT !.state = "cooled"]]
  /\ UNCHANGED <<fetches, sick>>

FallSick(s) == s \notin sick /\ sick' = sick \cup {s} /\ UNCHANGED <<breakers, fetches>>
Recover(s)  == s \in sick /\ sick' = sick \ {s} /\ UNCHANGED <<breakers, fetches>>

Outcomes == {"ok", "client", "fail"}
Settle(c) == \E o \in Outcomes : Return(c, o)

BreakerNext ==
  \/ \E c \in Callers : StartFetch(c) \/ Settle(c) \/ Backoff(c) \/ TakeAnswer(c)
  \/ \E f \in Fetchers : CoolDown(f)
  \/ \E s \in Faulty : FallSick(s) \/ Recover(s)

BreakerSpec == BreakerInit /\ [][BreakerNext]_breakerVars

\* Timers fire, a service answers or the time limit does, adapters go on;
\* nothing makes a request come or a sick service recover.
BreakerFairness ==
  /\ \A c \in Callers : /\ WF_breakerVars(Settle(c)) /\ WF_breakerVars(Backoff(c))
                        /\ WF_breakerVars(TakeAnswer(c))
  /\ \A f \in Fetchers : WF_breakerVars(CoolDown(f))

-----------------------------------------------------------------------------
Breakers == [state : {"closed", "open", "cooled", "half"}, count : 0..Threshold, tester : Callers \cup {NoOne}]
Fetches == [pc : {"idle", "fly", "wait", "backoff", "ended"}, left : 0..Tries, trial : BOOLEAN,
            behind : Callers \cup {NoOne}, answer : {"none", "ok", "client", "down"}]
BreakerTypeOK ==
  /\ breakers \in [Fetchers -> Breakers]
  /\ fetches \in [Callers -> Fetches]
  /\ sick \subseteq Faulty

\* A service that never failed is never reported down: only its own failures
\* may open the breaker its requests go through.
HealthyIsAsked ==
  \A c \in Callers : ServiceOf[c] \notin Faulty => fetches[c].answer # "down"

\* The adapters' view: every request is answered, whatever the service does.
Seen(fetch) == CASE fetch.pc = "idle" -> "none" [] fetch.pc = "ended" -> fetch.answer [] OTHER -> "pending"
Told == [c \in Callers |-> Seen(fetches[c])]
Promised == INSTANCE Fetch WITH Requests <- Callers, answer <- Told
EveryFetchIsAnswered == Promised!FetchSpec

\* Once nothing is sick any more, a time comes when no request is refused.
TrafficReturns ==
  <>[](sick = {}) => <>[](\A c \in Callers : fetches[c].answer # "down")
=============================================================================
