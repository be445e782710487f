---------------------------- MODULE OutsideSafety ----------------------------
(***************************************************************************)
(* What talks to the outside, proved for any callers, services, fetchers,  *)
(* tries and thresholds, for any addons, questions and visits, and for any *)
(* number of syncs of any adapter: a fetch is refused or waits for a       *)
(* reason, addons that end leave nothing behind and answer nobody but who  *)
(* asked, and a source is only said to have nothing when it said so.       *)
(***************************************************************************)
EXTENDS MCOutside, TLAPS

-----------------------------------------------------------------------------
(* The breaker. *)

(* A request on its way through fetcher f as its trial.                    *)
Trying(c, f) == c \in Callers /\ FetcherOf[c] = f /\ fetches[c].pc = "fly" /\ fetches[c].trial = TRUE

(* Whoever waits for a trial, or would, finds one under way that it shares *)
(* the fetcher with: its answer lets the waiting go on.                    *)
TrialUnderway ==
  /\ \A f \in Fetchers : breakers[f].state = "half" => Trying(breakers[f].tester, f)
  /\ \A c \in Callers : fetches[c].pc = "wait" => Trying(fetches[c].behind, FetcherOf[c])

BreakerInv == BreakerTypeOK /\ TrialUnderway

LEMMA FetchersAreAsked == \A c \in Callers : FetcherOf[c] \in Fetchers
  BY DEF Fetchers

LEMMA UnderwayIs ==
  ASSUME NEW pc, NEW left, NEW trial, NEW behind
  PROVE  LET u == Underway(pc, left, trial, behind)
         IN u.pc = pc /\ u.left = left /\ u.trial = trial /\ u.behind = behind /\ u.answer = "none"
  BY DEF Underway

LEMMA MissedIs ==
  ASSUME NEW fetch \in Fetches
  PROVE  Missed(fetch) \in Fetches /\ Missed(fetch).pc \in {"backoff", "ended"}
  BY BreakerAssumption DEF Fetches, Missed, Underway, Ended

LEMMA EndedIs ==
  ASSUME NEW answer \in {"ok", "client", "down"}
  PROVE  /\ Ended(answer) \in Fetches /\ Ended(answer).pc = "ended" /\ Ended(answer).answer = answer
  BY BreakerAssumption DEF Fetches, Ended

LEMMA AdmittedIs ==
  ASSUME NEW fetch \in Fetches, NEW b \in Breakers
  PROVE  /\ Admitted(fetch, b) \in Fetches
         /\ Admitted(fetch, b).pc = "wait" <=> b.state = "half"
         /\ b.state = "half" => Admitted(fetch, b).behind = b.tester
         /\ b.state = "cooled" => Admitted(fetch, b).pc = "fly" /\ Admitted(fetch, b).trial = TRUE
         /\ b.state = "closed" => Admitted(fetch, b).pc = "fly" /\ Admitted(fetch, b).trial = FALSE
         /\ Admitted(fetch, b).pc # "idle"
         /\ b.state # "open" => Admitted(fetch, b).answer = "none"
  <1>1. CASE b.state = "open"
    BY <1>1, MissedIs DEF Admitted
  <1>2. CASE b.state # "open"
    BY <1>2 DEF Admitted, Underway, Fetches, Breakers
  <1> QED BY <1>1, <1>2

LEMMA TriedByIs ==
  ASSUME NEW c \in Callers, NEW b \in Breakers
  PROVE  /\ TriedBy(c, b) \in Breakers
         /\ b.state = "cooled" => TriedBy(c, b).state = "half" /\ TriedBy(c, b).tester = c
         /\ b.state # "cooled" => TriedBy(c, b) = b
  BY DEF TriedBy, Breakers

LEMMA FailingIs ==
  ASSUME NEW b \in Breakers, NEW trial, trial = TRUE \/ trial = FALSE
  PROVE  /\ Failing(b, trial) \in Breakers
         /\ Failing(b, trial).state = "half" => trial = FALSE /\ b.state = "half" /\ Failing(b, trial).tester = b.tester
  <1>1. b.count \in 0..Threshold /\ (b.count < Threshold => b.count + 1 \in 0..Threshold)
    BY BreakerAssumption DEF Breakers
  <1> QED BY <1>1, BreakerAssumption DEF Failing, Breakers

LEMMA PassingIs ==
  ASSUME NEW b \in Breakers, NEW trial, trial = TRUE \/ trial = FALSE
  PROVE  /\ Passing(b, trial) \in Breakers
         /\ Passing(b, trial).state = "half" => trial = FALSE /\ b.state = "half" /\ Passing(b, trial).tester = b.tester
         /\ b.state = "closed" => Passing(b, trial).state = "closed" /\ Passing(b, trial).count = 0
  BY BreakerAssumption DEF Passing, Breakers

(* A trial of whom nothing changes stays one, and so does the waiting.     *)
LEMMA AttemptKeeps ==
  ASSUME BreakerInv, NEW c \in Callers, fetches[c].pc # "fly", NEW fetch \in Fetches, Attempt(c, fetch)
  PROVE  BreakerInv'
  <1> DEFINE f == FetcherOf[c]
             b == breakers[f]
  <1>1. f \in Fetchers /\ b \in Breakers
    BY FetchersAreAsked DEF BreakerInv, BreakerTypeOK
  <1>2. PICK row : row = Admitted(fetch, b)
    OBVIOUS
  <1>3. PICK next : next = TriedBy(c, b)
    OBVIOUS
  <1>4. fetches' = [fetches EXCEPT ![c] = row] /\ breakers' = [breakers EXCEPT ![f] = next] /\ sick' = sick
    BY <1>2, <1>3 DEF Attempt
  <1>5. row \in Fetches /\ next \in Breakers
    BY <1>1, <1>2, <1>3, AdmittedIs, TriedByIs
  <1>6. BreakerTypeOK'
    BY <1>4, <1>5 DEF BreakerInv, BreakerTypeOK
  <1>7. /\ fetches'[c] = row /\ breakers'[f] = next
        /\ \A d \in Callers \ {c} : fetches'[d] = fetches[d]
        /\ \A g \in Fetchers \ {f} : breakers'[g] = breakers[g]
    BY <1>1, <1>4 DEF BreakerInv, BreakerTypeOK
  <1>8. ASSUME NEW d, NEW g, Trying(d, g) PROVE Trying(d, g)'
    <2>1. d \in Callers /\ d # c
      BY <1>8 DEF Trying
    <2> QED BY <1>7, <1>8, <2>1 DEF Trying
  <1>9. CASE b.state = "cooled"
    <2>1. row.pc = "fly" /\ row.trial = TRUE /\ next.state = "half" /\ next.tester = c
      <3>1. row.pc = "fly" /\ row.trial = TRUE
        BY <1>1, <1>2, <1>9, AdmittedIs, Zenon
      <3>2. next.state = "half" /\ next.tester = c
        BY <1>1, <1>3, <1>9, TriedByIs
      <3> QED BY <3>1, <3>2
    <2>2. Trying(c, f)'
      BY <1>7, <2>1 DEF Trying
    <2>3. ASSUME NEW g \in Fetchers, NEW t, breakers'[g].state = "half", breakers'[g].tester = t
          PROVE  Trying(t, g)'
      BY <1>7, <1>8, <2>1, <2>2, <2>3 DEF BreakerInv, TrialUnderway
    <2>4. ASSUME NEW d \in Callers, NEW t, fetches'[d].pc = "wait", fetches'[d].behind = t
          PROVE  Trying(t, FetcherOf[d])'
      BY <1>7, <1>8, <2>1, <2>4 DEF BreakerInv, TrialUnderway
    <2> QED BY <1>6, <2>3, <2>4 DEF BreakerInv, TrialUnderway, Trying
  <1>10. CASE b.state # "cooled"
    <2>1. next = b
      BY <1>1, <1>3, <1>10, TriedByIs
    <2>2. row.pc = "wait" => b.state = "half" /\ row.behind = b.tester
      BY <1>1, <1>2, AdmittedIs
    <2>3. ASSUME NEW g \in Fetchers, NEW t, breakers'[g].state = "half", breakers'[g].tester = t
          PROVE  Trying(t, g)'
      BY <1>7, <1>8, <2>1, <2>3 DEF BreakerInv, TrialUnderway
    <2>4. ASSUME NEW d \in Callers, NEW t, fetches'[d].pc = "wait", fetches'[d].behind = t
          PROVE  Trying(t, FetcherOf[d])'
      <3>1. CASE d = c
        BY <1>1, <1>7, <1>8, <2>2, <2>4, <3>1 DEF BreakerInv, TrialUnderway
      <3>2. CASE d # c
        BY <1>7, <1>8, <2>4, <3>2 DEF BreakerInv, TrialUnderway
      <3> QED BY <3>1, <3>2
    <2> QED BY <1>6, <2>3, <2>4 DEF BreakerInv, TrialUnderway, Trying
  <1> QED BY <1>9, <1>10

LEMMA ReturnKeeps ==
  ASSUME BreakerInv, NEW c \in Callers, NEW outcome \in Outcomes, Return(c, outcome)
  PROVE  BreakerInv'
  <1> DEFINE f == FetcherOf[c]
  <1>1. f \in Fetchers /\ breakers[f] \in Breakers /\ fetches[c] \in Fetches /\ fetches[c].pc = "fly"
    BY FetchersAreAsked DEF BreakerInv, BreakerTypeOK, Return
  <1>2. PICK this : this = IF CountsAsFailure(outcome) THEN Missed(fetches[c]) ELSE Ended(outcome)
    OBVIOUS
  <1>3. PICK b : b = IF CountsAsFailure(outcome) THEN Failing(breakers[f], fetches[c].trial)
                     ELSE Passing(breakers[f], fetches[c].trial)
    OBVIOUS
  <1>4. PICK first \in Waiting(c) \cup {c} :
          /\ first = c => Waiting(c) = {}
          /\ fetches' = [d \in Callers |->
                           IF d = c THEN this
                           ELSE IF d \notin Waiting(c) THEN fetches[d]
                           ELSE Admitted(fetches[d], IF d = first THEN b ELSE TriedBy(first, b))]
          /\ breakers' = [breakers EXCEPT ![f] = IF first = c THEN b ELSE TriedBy(first, b)]
    BY <1>2, <1>3, Zenon DEF Return
  <1>5. sick' = sick
    BY DEF Return
  <1>6. this \in Fetches /\ this.pc \in {"backoff", "ended"}
    BY <1>1, <1>2, MissedIs, EndedIs DEF Outcomes, CountsAsFailure
  <1>7. fetches[c].trial = TRUE \/ fetches[c].trial = FALSE
    BY <1>1 DEF Fetches
  <1>8. b \in Breakers /\ (b.state = "half" => fetches[c].trial = FALSE /\ breakers[f].state = "half"
                                               /\ b.tester = breakers[f].tester)
    <2>1. CASE CountsAsFailure(outcome)
      <3>1. b = Failing(breakers[f], fetches[c].trial)
        BY <1>3, <2>1
      <3> QED BY <1>1, <1>7, <3>1, FailingIs, Zenon
    <2>2. CASE ~CountsAsFailure(outcome)
      <3>1. b = Passing(breakers[f], fetches[c].trial)
        BY <1>3, <2>2
      <3> QED BY <1>1, <1>7, <3>1, PassingIs, Zenon
    <2> QED BY <2>1, <2>2
  <1>9. first \in Callers /\ first # c => first \in Waiting(c)
    BY <1>4 DEF Waiting
  <1>10. PICK last : last = TriedBy(first, b)
    OBVIOUS
  <1>11. \A d \in Waiting(c) : d \in Callers /\ d # c /\ fetches[d].pc = "wait" /\ fetches[d].behind = c
                               /\ FetcherOf[d] = f /\ fetches[c].trial
    BY <1>1 DEF BreakerInv, TrialUnderway, Trying, Waiting
  <1>12. last \in Breakers /\ (b.state # "cooled" => last = b)
         /\ (b.state = "cooled" => last.state = "half" /\ last.tester = first)
    BY <1>4, <1>8, <1>9, <1>10, <1>11, TriedByIs
  <1>13. DEFINE new(d) == IF d = c THEN this
                           ELSE IF d \notin Waiting(c) THEN fetches[d]
                           ELSE Admitted(fetches[d], IF d = first THEN b ELSE last)
  <1>14. /\ fetches' = [d \in Callers |-> new(d)]
         /\ breakers' = [breakers EXCEPT ![f] = IF first = c THEN b ELSE last]
    BY <1>4, <1>10
  <1>15. ASSUME NEW d \in Callers PROVE new(d) \in Fetches
    BY <1>6, <1>8, <1>12, AdmittedIs DEF BreakerInv, BreakerTypeOK
  <1>16. BreakerTypeOK'
    BY <1>1, <1>5, <1>8, <1>12, <1>14, <1>15 DEF BreakerInv, BreakerTypeOK
  <1>17. /\ \A d \in Callers : fetches'[d] = new(d)
         /\ breakers'[f] = IF first = c THEN b ELSE last
         /\ \A g \in Fetchers \ {f} : breakers'[g] = breakers[g]
    BY <1>1, <1>14 DEF BreakerInv, BreakerTypeOK
  <1>18. ASSUME NEW d, NEW g, Trying(d, g), d # c PROVE Trying(d, g)'
    <2>1. d \in Callers /\ d \notin Waiting(c)
      BY <1>11, <1>18 DEF Trying
    <2> QED BY <1>17, <1>18, <2>1 DEF Trying
  (* The first to go on is the next trial, once the breaker cooled.        *)
  <1>19. ASSUME b.state = "cooled", first # c PROVE Trying(first, f)'
    <2>1. first \in Callers /\ first \in Waiting(c) /\ fetches[first] \in Fetches /\ FetcherOf[first] = f
      BY <1>9, <1>11, <1>19 DEF BreakerInv, BreakerTypeOK
    <2>2. PICK row : row = Admitted(fetches[first], b)
      OBVIOUS
    <2>3. fetches'[first] = row
      BY <1>17, <1>19, <2>1, <2>2
    <2>4. row.pc = "fly" /\ row.trial = TRUE
      BY <1>8, <1>19, <2>1, <2>2, AdmittedIs, Zenon
    <2> QED BY <2>1, <2>3, <2>4 DEF Trying
  (* A breaker that is half-open before and after has its trial still.     *)
  <1>20. ASSUME b.state = "half" PROVE Trying(b.tester, f)'
    <2>1. b.tester = breakers[f].tester /\ breakers[f].state = "half" /\ fetches[c].trial = FALSE
      BY <1>8, <1>20
    <2>2. Trying(b.tester, f) /\ b.tester # c
      BY <1>1, <2>1 DEF BreakerInv, TrialUnderway, Trying
    <2> QED BY <1>18, <2>2
  <1>21. ASSUME NEW g \in Fetchers, NEW t, breakers'[g].state = "half", breakers'[g].tester = t
         PROVE  Trying(t, g)'
    <2>1. CASE g = f
      BY <1>12, <1>17, <1>19, <1>20, <1>21, <2>1
    <2>2. CASE g # f
      <3>1. Trying(t, g)
        BY <1>17, <1>21, <2>2 DEF BreakerInv, TrialUnderway
      <3>2. t # c
        BY <2>2, <3>1 DEF Trying
      <3> QED BY <1>18, <3>1, <3>2
    <2> QED BY <2>1, <2>2
  <1>22. ASSUME NEW d \in Callers, NEW t, fetches'[d].pc = "wait", fetches'[d].behind = t
         PROVE  Trying(t, FetcherOf[d])'
    <2>1. fetches'[d] = new(d) /\ d # c
      BY <1>6, <1>17, <1>22
    <2>2. CASE d \notin Waiting(c)
      <3>1. fetches'[d] = fetches[d]
        BY <2>1, <2>2
      <3>2. Trying(t, FetcherOf[d])
        BY <1>22, <3>1 DEF BreakerInv, TrialUnderway
      <3>3. t # c
        BY <1>22, <2>2, <3>1, <3>2 DEF Waiting, Trying
      <3> QED BY <1>18, <3>2, <3>3
    <2>3. CASE d \in Waiting(c)
      <3>1. FetcherOf[d] = f /\ fetches[d] \in Fetches /\ first # c
        BY <1>4, <1>11, <2>3 DEF BreakerInv, BreakerTypeOK
      <3>2. CASE d = first
        <4>0. PICK row : row = Admitted(fetches[d], b)
          OBVIOUS
        <4>1. fetches'[d] = row
          BY <2>1, <2>3, <3>2, <4>0
        <4>2. b.state = "half" /\ t = b.tester
          <5>1. row.pc = "wait" /\ row.behind = t
            BY <1>22, <4>1
          <5>2. b.state = "half" /\ row.behind = b.tester
            BY <1>8, <3>1, <4>0, <5>1, AdmittedIs, Zenon
          <5> QED BY <5>1, <5>2
        <4> QED BY <1>20, <3>1, <4>2
      <3>3. CASE d # first
        <4>0. PICK row : row = Admitted(fetches[d], last)
          OBVIOUS
        <4>1. fetches'[d] = row
          BY <2>1, <2>3, <3>3, <4>0
        <4>2. last.state = "half" /\ t = last.tester
          <5>1. row.pc = "wait" /\ row.behind = t
            BY <1>22, <4>1
          <5>2. last.state = "half" /\ row.behind = last.tester
            BY <1>12, <3>1, <4>0, <5>1, AdmittedIs, Zenon
          <5> QED BY <5>1, <5>2
        <4> QED BY <1>12, <1>19, <1>20, <3>1, <4>2
      <3> QED BY <3>2, <3>3
    <2> QED BY <2>2, <2>3
  <1> QED BY <1>16, <1>21, <1>22 DEF BreakerInv, TrialUnderway, Trying

LEMMA TakeAnswerKeeps ==
  ASSUME BreakerInv, NEW c \in Callers, TakeAnswer(c)
  PROVE  BreakerInv'
  <1>1. /\ fetches' = [fetches EXCEPT ![c] = Quiet] /\ UNCHANGED <<breakers, sick>> /\ fetches[c].pc = "ended"
        /\ Quiet \in Fetches /\ Quiet.pc = "idle"
    BY BreakerAssumption DEF TakeAnswer, Quiet, Underway, Fetches
  <1>2. BreakerTypeOK'
    BY <1>1 DEF BreakerInv, BreakerTypeOK
  <1>3. fetches'[c].pc = "idle" /\ \A d \in Callers \ {c} : fetches'[d] = fetches[d]
    BY <1>1 DEF BreakerInv, BreakerTypeOK
  <1>4. TrialUnderway'
    BY <1>1, <1>3 DEF BreakerInv, TrialUnderway, Trying
  <1> QED BY <1>2, <1>4 DEF BreakerInv

LEMMA CoolDownKeeps ==
  ASSUME BreakerInv, NEW f \in Fetchers, CoolDown(f)
  PROVE  BreakerInv'
  <1>1. PICK b : b = [breakers[f] EXCEPT !.state = "cooled"]
    OBVIOUS
  <1>2. breakers' = [breakers EXCEPT ![f] = b] /\ UNCHANGED <<fetches, sick>>
    BY <1>1 DEF CoolDown
  <1>3. b \in Breakers /\ b.state = "cooled"
    BY <1>1 DEF BreakerInv, BreakerTypeOK, Breakers
  <1>4. BreakerTypeOK'
    BY <1>2, <1>3 DEF BreakerInv, BreakerTypeOK
  <1>5. TrialUnderway'
    BY <1>2, <1>3 DEF BreakerInv, BreakerTypeOK, TrialUnderway, Trying
  <1> QED BY <1>4, <1>5 DEF BreakerInv

LEMMA BreakerStarts == BreakerInit => BreakerInv
  <1>1. [state |-> "closed", count |-> 0, tester |-> NoOne] \in Breakers /\ Quiet \in Fetches /\ Quiet.pc = "idle"
    BY BreakerAssumption DEF Breakers, Fetches, Quiet, Underway
  <1>2. BreakerInit => BreakerTypeOK
    BY <1>1 DEF BreakerInit, BreakerTypeOK
  <1>3. BreakerInit => TrialUnderway
    BY <1>1 DEF BreakerInit, TrialUnderway
  <1> QED BY <1>2, <1>3 DEF BreakerInv

LEMMA BreakerKeeps ==
  ASSUME BreakerInv, [BreakerNext]_breakerVars
  PROVE  BreakerInv'
  <1>1. ASSUME NEW c \in Callers, StartFetch(c) \/ Backoff(c) PROVE BreakerInv'
    <2>1. CASE StartFetch(c)
      <3>1. Underway("idle", Tries, FALSE, NoOne) \in Fetches
        BY BreakerAssumption DEF Underway, Fetches
      <3> QED BY <2>1, <3>1, AttemptKeeps DEF StartFetch
    <2>2. CASE Backoff(c)
      <3>1. fetches[c] \in Fetches
        BY DEF BreakerInv, BreakerTypeOK
      <3> QED BY <2>2, <3>1, AttemptKeeps DEF Backoff
    <2> QED BY <1>1, <2>1, <2>2
  <1>2. ASSUME NEW c \in Callers, Settle(c) PROVE BreakerInv'
    BY <1>2, ReturnKeeps DEF Settle
  <1>3. ASSUME NEW s \in Faulty, FallSick(s) \/ Recover(s) PROVE BreakerInv'
    BY <1>3 DEF FallSick, Recover, BreakerInv, BreakerTypeOK, TrialUnderway, Trying
  <1>4. CASE UNCHANGED breakerVars
    BY <1>4 DEF breakerVars, BreakerInv, BreakerTypeOK, TrialUnderway, Trying
  <1> QED BY <1>1, <1>2, <1>3, <1>4, TakeAnswerKeeps, CoolDownKeeps DEF BreakerNext

LEMMA BreakerIsSafe == BreakerSpec => []BreakerInv
  BY BreakerStarts, BreakerKeeps, PTL DEF BreakerSpec

(* Fetchers and fetches keep their types: a breaker counts to its          *)
(* threshold, a fetch has the tries it was given and no more               *)
(* (createResilientFetcher).                                               *)
THEOREM BreakerTypeCorrect == BreakerSpec => []BreakerTypeOK
  <1>1. BreakerInv => BreakerTypeOK
    BY DEF BreakerInv
  <1> QED BY <1>1, BreakerIsSafe, PTL

(* No request waits for a trial that is over: the one it waits for is in   *)
(* the air, through the same fetcher, so an answer or the time limit frees *)
(* it, however many trials overlap.                                        *)
THEOREM WaitersAreNotForgotten == BreakerSpec => []TrialUnderway
  <1>1. BreakerInv => TrialUnderway
    BY DEF BreakerInv
  <1> QED BY <1>1, BreakerIsSafe, PTL

-----------------------------------------------------------------------------
(* A service that never fails. *)

(* Every fetcher serves services that may fail, or services that do not,   *)
(* as where each source has a fetcher of its own.                          *)
FetchersApart ==
  \A c, d \in Callers : FetcherOf[c] = FetcherOf[d] /\ ServiceOf[c] \in Faulty => ServiceOf[d] \in Faulty

Healthy(c) == ServiceOf[c] \notin Faulty
(* Its breaker never counts a failure, so its requests go out at once.     *)
HealthyInv ==
  \A c \in Callers : Healthy(c) =>
    /\ breakers[FetcherOf[c]].state = "closed"
    /\ fetches[c].pc \in {"idle", "fly", "ended"} /\ fetches[c].trial = FALSE
    /\ fetches[c].answer # "down"

LEMMA HealthyAttempts ==
  ASSUME FetchersApart, BreakerInv, HealthyInv, NEW c \in Callers, NEW fetch \in Fetches, Attempt(c, fetch)
  PROVE  HealthyInv'
  <1>1. FetcherOf[c] \in Fetchers /\ breakers[FetcherOf[c]] \in Breakers
    BY FetchersAreAsked DEF BreakerInv, BreakerTypeOK
  <1>2. PICK row : row = Admitted(fetch, breakers[FetcherOf[c]])
    OBVIOUS
  <1>3. PICK next : next = TriedBy(c, breakers[FetcherOf[c]])
    OBVIOUS
  <1>4. fetches' = [fetches EXCEPT ![c] = row] /\ breakers' = [breakers EXCEPT ![FetcherOf[c]] = next]
    BY <1>2, <1>3 DEF Attempt
  <1>5. /\ fetches'[c] = row /\ breakers'[FetcherOf[c]] = next
        /\ \A d \in Callers \ {c} : fetches'[d] = fetches[d]
        /\ \A g \in Fetchers \ {FetcherOf[c]} : breakers'[g] = breakers[g]
    BY <1>1, <1>4 DEF BreakerInv, BreakerTypeOK
  <1>6. ASSUME Healthy(c)
        PROVE  row.pc = "fly" /\ row.trial = FALSE /\ row.answer = "none" /\ next = breakers[FetcherOf[c]]
    <2>1. breakers[FetcherOf[c]].state = "closed"
      BY <1>6 DEF HealthyInv
    <2>2. row.pc = "fly" /\ row.trial = FALSE /\ row.answer = "none"
      BY <1>1, <1>2, <2>1, AdmittedIs, Zenon
    <2>3. next = breakers[FetcherOf[c]]
      BY <1>1, <1>3, <2>1, TriedByIs
    <2> QED BY <2>2, <2>3
  <1>7. ASSUME NEW d \in Callers, Healthy(d), FetcherOf[d] = FetcherOf[c] PROVE Healthy(c)
    BY <1>7 DEF FetchersApart, Healthy
  <1>8. ASSUME NEW d \in Callers, Healthy(d)
        PROVE  /\ breakers'[FetcherOf[d]].state = "closed"
               /\ fetches'[d].pc \in {"idle", "fly", "ended"} /\ fetches'[d].trial = FALSE
               /\ fetches'[d].answer # "down"
    <2>1. breakers'[FetcherOf[d]].state = "closed"
      BY <1>5, <1>6, <1>7, <1>8, FetchersAreAsked DEF HealthyInv
    <2>2. /\ fetches'[d].pc \in {"idle", "fly", "ended"} /\ fetches'[d].trial = FALSE
          /\ fetches'[d].answer # "down"
      BY <1>5, <1>6, <1>8 DEF HealthyInv
    <2> QED BY <2>1, <2>2
  <1> QED BY <1>8 DEF HealthyInv, Healthy

LEMMA HealthyReturns ==
  ASSUME FetchersApart, BreakerInv, HealthyInv, NEW c \in Callers, NEW outcome \in Outcomes, Return(c, outcome)
  PROVE  HealthyInv'
  <1> DEFINE f == FetcherOf[c]
  <1>1. f \in Fetchers /\ breakers[f] \in Breakers /\ fetches[c] \in Fetches
    BY FetchersAreAsked DEF BreakerInv, BreakerTypeOK
  <1>2. /\ \A g \in Fetchers \ {f} : breakers'[g] = breakers[g]
        /\ \A d \in Callers : d # c /\ d \notin Waiting(c) => fetches'[d] = fetches[d]
    BY <1>1 DEF Return, BreakerInv, BreakerTypeOK
  <1>3. ASSUME Healthy(c)
        PROVE  fetches'[c] = Ended(outcome) /\ outcome \in {"ok", "client"} /\ breakers'[f].state = "closed"
    <2>1. outcome \in {"ok", "client"}
      BY <1>3 DEF Return, Outcomes, Healthy, BreakerInv, BreakerTypeOK
    <2>2. ~CountsAsFailure(outcome)
      BY <2>1 DEF CountsAsFailure
    <2>3. Waiting(c) = {}
      BY <1>3 DEF HealthyInv, Waiting
    <2>4. PICK b : b = Passing(breakers[f], fetches[c].trial)
      OBVIOUS
    <2>5. b.state = "closed"
      BY <1>1, <1>3, <2>4, PassingIs DEF HealthyInv
    <2>6. /\ fetches' = [d \in Callers |-> IF d = c THEN Ended(outcome) ELSE fetches[d]]
          /\ breakers' = [breakers EXCEPT ![f] = b]
      BY <2>2, <2>3, <2>4 DEF Return
    <2> QED BY <1>1, <2>1, <2>5, <2>6 DEF BreakerInv, BreakerTypeOK
  <1>4. ASSUME NEW d \in Callers, Healthy(d), FetcherOf[d] = f PROVE Healthy(c)
    BY <1>4 DEF FetchersApart, Healthy
  <1>5. ASSUME NEW d \in Callers, Healthy(d)
        PROVE  /\ breakers'[FetcherOf[d]].state = "closed"
               /\ fetches'[d].pc \in {"idle", "fly", "ended"} /\ fetches'[d].trial = FALSE
               /\ fetches'[d].answer # "down"
    <2>1. breakers'[FetcherOf[d]].state = "closed"
      BY <1>2, <1>3, <1>4, <1>5, FetchersAreAsked DEF HealthyInv
    <2>2. d \notin Waiting(c)
      BY <1>5 DEF HealthyInv, Waiting
    <2>3. CASE d = c
      BY <1>3, <1>5, <2>1, <2>3 DEF Ended
    <2>4. CASE d # c
      BY <1>2, <1>5, <2>1, <2>2, <2>4 DEF HealthyInv
    <2> QED BY <2>3, <2>4
  <1> QED BY <1>5 DEF HealthyInv, Healthy

LEMMA HealthyKeeps ==
  ASSUME FetchersApart, BreakerInv, HealthyInv, [BreakerNext]_breakerVars
  PROVE  HealthyInv'
  <1>1. ASSUME NEW c \in Callers, StartFetch(c) \/ Backoff(c) PROVE HealthyInv'
    <2>1. CASE StartFetch(c)
      <3>1. Underway("idle", Tries, FALSE, NoOne) \in Fetches
        BY BreakerAssumption DEF Underway, Fetches
      <3> QED BY <2>1, <3>1, HealthyAttempts DEF StartFetch
    <2>2. CASE Backoff(c)
      <3>1. fetches[c] \in Fetches
        BY DEF BreakerInv, BreakerTypeOK
      <3> QED BY <2>2, <3>1, HealthyAttempts DEF Backoff
    <2> QED BY <1>1, <2>1, <2>2
  <1>2. ASSUME NEW c \in Callers, Settle(c) PROVE HealthyInv'
    BY <1>2, HealthyReturns DEF Settle
  <1>3. ASSUME NEW c \in Callers, TakeAnswer(c) PROVE HealthyInv'
    <2>1. Quiet.pc = "idle" /\ Quiet.trial = FALSE /\ Quiet.answer = "none"
      BY DEF Quiet, Underway
    <2>2. fetches' = [fetches EXCEPT ![c] = Quiet] /\ breakers' = breakers
      BY <1>3 DEF TakeAnswer
    <2>3. \A d \in Callers : fetches'[d] = IF d = c THEN Quiet ELSE fetches[d]
      BY <2>2 DEF BreakerInv, BreakerTypeOK
    <2> QED BY <2>1, <2>2, <2>3 DEF HealthyInv, Healthy
  <1>4. ASSUME NEW f \in Fetchers, CoolDown(f) PROVE HealthyInv'
    BY <1>4 DEF CoolDown, HealthyInv, Healthy, BreakerInv, BreakerTypeOK
  <1>5. ASSUME NEW s \in Faulty, FallSick(s) \/ Recover(s) PROVE HealthyInv'
    BY <1>5 DEF FallSick, Recover, HealthyInv, Healthy
  <1>6. CASE UNCHANGED breakerVars
    BY <1>6 DEF breakerVars, HealthyInv, Healthy
  <1> QED BY <1>1, <1>2, <1>3, <1>4, <1>5, <1>6 DEF BreakerNext

(* Where no fetcher serves both services that may fail and services that   *)
(* do not, a service that never fails is never reported down, whatever     *)
(* breaks beside it (createResilientFetcher, one fetcher per source).  The *)
(* hypothesis is needed: the worker shares one fetcher among all sources.  *)
THEOREM HealthyServicesAreAsked ==
  ASSUME FetchersApart
  PROVE  BreakerSpec => []HealthyIsAsked
  <1>1. BreakerInit => HealthyInv
    <2>1. Quiet.pc = "idle" /\ Quiet.trial = FALSE /\ Quiet.answer = "none"
      BY DEF Quiet, Underway
    <2> QED BY <2>1, FetchersAreAsked DEF BreakerInit, HealthyInv
  <1>2. BreakerInv /\ HealthyInv /\ [BreakerNext]_breakerVars => HealthyInv'
    BY FetchersApart, HealthyKeeps
  <1>3. HealthyInv => HealthyIsAsked
    BY DEF HealthyInv, HealthyIsAsked, Healthy
  <1> QED BY <1>1, <1>2, <1>3, BreakerIsSafe, PTL DEF BreakerSpec

-----------------------------------------------------------------------------
(* Addons: what runs in a frame, a record of its own. *)

Letters == [type : {"booted", "ready", "fatal", "result", "store"}, id : Nat, q : Questions \cup {"none"}]
Waits == UNION {[I -> Questions] : I \in SUBSET Nat}
Rows == [pc : {"unused", "fetching", "boot", "up", "failed", "stopped"},
         worker : {"none", "loaded", "started", "ready", "dead"},
         mail : Seq(Letters), pending : Waits, asked : SUBSET (Nat \X Questions), sequence : Nat]

(* An answer numbered id, to question q, finds the call it answers, or     *)
(* none; the number is never handed out again.                             *)
Fits(row, id, q) == id <= row.sequence /\ (id \in DOMAIN row.pending => row.pending[id] = q)

Numbered(row) ==
  /\ DOMAIN row.pending \subseteq 1..row.sequence
  /\ \A call \in row.asked : Fits(row, call[1], call[2])
  /\ \A i \in DOMAIN row.mail : row.mail[i].type = "result" => Fits(row, row.mail[i].id, row.mail[i].q)
Runs(row) == row.pc \in {"boot", "up"}
Empty(row) == row.mail = << >> /\ row.pending = << >>
RowOK(row) == row \in Rows /\ Numbered(row) /\ (Runs(row) \/ Empty(row))

LEMMA VacantIs ==
  ASSUME NEW pc \in {"unused", "fetching", "boot", "up", "failed", "stopped"}
  PROVE  RowOK(Vacant(pc)) /\ Vacant(pc).pc = pc
  <1>1. << >> \in Seq(Letters) /\ DOMAIN << >> = {}
    OBVIOUS
  <1>2. << >> \in Waits
    <2>1. << >> \in [{} -> Questions]
      OBVIOUS
    <2> QED BY <2>1 DEF Waits
  <1>3. Vacant(pc) \in Rows
    BY <1>1, <1>2 DEF Vacant, Rows
  <1> QED BY <1>1, <1>3 DEF Vacant, RowOK, Numbered, Runs, Empty

LEMMA StageIs ==
  ASSUME NEW row, RowOK(row), NEW pc \in {"unused", "fetching", "boot", "up", "failed", "stopped"},
         pc \in {"boot", "up"} \/ Empty(row)
  PROVE  RowOK([row EXCEPT !.pc = pc]) /\ [row EXCEPT !.pc = pc].pc = pc
  BY DEF RowOK, Rows, Numbered, Fits, Runs, Empty

LEMMA WorkerIs ==
  ASSUME NEW row, RowOK(row), NEW w \in {"none", "loaded", "started", "ready", "dead"}
  PROVE  RowOK([row EXCEPT !.worker = w]) /\ [row EXCEPT !.worker = w].pc = row.pc
  BY DEF RowOK, Rows, Numbered, Fits, Runs, Empty

LEMMA PostIs ==
  ASSUME NEW row, RowOK(row), Runs(row), NEW m \in Letters, m.type = "result" => Fits(row, m.id, m.q)
  PROVE  RowOK(Post(row, m)) /\ Post(row, m).pc = row.pc
  <1>1. PICK mail : mail = Append(row.mail, m)
    OBVIOUS
  <1>2. PICK new : new = Post(row, m)
    OBVIOUS
  <1>3. /\ mail \in Seq(Letters)
        /\ \A i \in DOMAIN mail : mail[i] = m \/ (i \in DOMAIN row.mail /\ mail[i] = row.mail[i])
    BY <1>1 DEF RowOK, Rows
  <1>4. /\ new \in Rows /\ new.mail = mail /\ new.pc = row.pc /\ new.pending = row.pending
        /\ new.asked = row.asked /\ new.sequence = row.sequence
    BY <1>1, <1>2, <1>3 DEF Post, RowOK, Rows
  <1>5. Numbered(new)
    BY <1>3, <1>4 DEF RowOK, Numbered, Fits
  <1> QED BY <1>2, <1>4, <1>5 DEF RowOK, Runs

LEMMA SettledIs ==
  ASSUME NEW row, RowOK(row), NEW id
  PROVE  RowOK(Settled(row, id)) /\ Settled(row, id).pc = row.pc
  <1>1. PICK waits : waits = [i \in DOMAIN row.pending \ {id} |-> row.pending[i]]
    OBVIOUS
  <1>2. PICK new : new = Settled(row, id)
    OBVIOUS
  <1>3. PICK I \in SUBSET Nat : row.pending \in [I -> Questions]
    BY DEF RowOK, Rows, Waits
  <1>4. waits \in [I \ {id} -> Questions] /\ DOMAIN waits = I \ {id}
    BY <1>1, <1>3
  <1>5. waits \in Waits
    BY <1>4 DEF Waits
  <1>6. /\ new \in Rows /\ new.pending = waits /\ new.pc = row.pc /\ new.mail = row.mail
        /\ new.asked = row.asked /\ new.sequence = row.sequence
    BY <1>1, <1>2, <1>5 DEF Settled, RowOK, Rows
  <1>7. Numbered(new)
    BY <1>1, <1>3, <1>4, <1>6 DEF RowOK, Numbered, Fits
  <1>8. Empty(row) => Empty(new)
    BY <1>1, <1>6 DEF Empty
  <1> QED BY <1>2, <1>6, <1>7, <1>8 DEF RowOK, Runs

LEMMA ReadIs ==
  ASSUME NEW row, RowOK(row), row.mail # << >>
  PROVE  LET new == [row EXCEPT !.mail = Tail(@)]
         IN  RowOK(new) /\ new.pc = row.pc /\ new.pending = row.pending /\ new.sequence = row.sequence
  <1>1. PICK mail : mail = Tail(row.mail)
    OBVIOUS
  <1>2. PICK new : new = [row EXCEPT !.mail = Tail(@)]
    OBVIOUS
  <1>3. mail \in Seq(Letters) /\ \A i \in DOMAIN mail : i + 1 \in DOMAIN row.mail /\ mail[i] = row.mail[i + 1]
    BY <1>1 DEF RowOK, Rows
  <1>4. /\ new \in Rows /\ new.mail = mail /\ new.pc = row.pc /\ new.pending = row.pending
        /\ new.asked = row.asked /\ new.sequence = row.sequence
    BY <1>1, <1>2, <1>3 DEF RowOK, Rows
  <1>5. Numbered(new)
    BY <1>3, <1>4 DEF RowOK, Numbered, Fits
  <1> QED BY <1>2, <1>4, <1>5 DEF RowOK, Runs, Empty

LEMMA CalledIs ==
  ASSUME NEW row, RowOK(row), Runs(row), NEW q \in Questions
  PROVE  LET id == row.sequence + 1
             new == Called([row EXCEPT !.sequence = id], id, q)
         IN  RowOK(new) /\ new.pc = row.pc
  <1> DEFINE id == row.sequence + 1
  <1>1. PICK counted : counted = [row EXCEPT !.sequence = id]
    OBVIOUS
  <1>2. PICK waits : waits = [i \in DOMAIN row.pending \cup {id} |-> IF i = id THEN q ELSE row.pending[i]]
    OBVIOUS
  <1>3. PICK waiting : waiting = [counted EXCEPT !.pending = waits]
    OBVIOUS
  <1>4. PICK new : new = [waiting EXCEPT !.asked = @ \cup {<<id, q>>}]
    OBVIOUS
  <1>5. PICK I \in SUBSET Nat : row.pending \in [I -> Questions]
    BY DEF RowOK, Rows, Waits
  <1>6. id \in Nat /\ id \notin I /\ row.sequence \in Nat
    BY <1>5 DEF RowOK, Rows, Numbered
  <1>7. waits \in [I \cup {id} -> Questions]
    BY <1>2, <1>5
  <1>8. waits \in Waits
    BY <1>6, <1>7 DEF Waits
  <1>9. counted \in Rows /\ counted.pending = row.pending /\ counted.pc = row.pc /\ counted.mail = row.mail
        /\ counted.asked = row.asked /\ counted.sequence = id
    BY <1>1, <1>6 DEF RowOK, Rows
  <1>10. waiting \in Rows /\ waiting.pending = waits /\ waiting.pc = row.pc /\ waiting.mail = row.mail
        /\ waiting.asked = row.asked /\ waiting.sequence = id
    BY <1>3, <1>8, <1>9 DEF Rows
  <1>11. new \in Rows /\ new.pending = waits /\ new.pc = row.pc /\ new.mail = row.mail
        /\ new.asked = row.asked \cup {<<id, q>>} /\ new.sequence = id
    BY <1>4, <1>6, <1>10 DEF Rows
  <1>12. Called(counted, id, q) = new
    BY <1>2, <1>3, <1>4, <1>9 DEF Called
  <1>13. Numbered(new)
    <2>1. DOMAIN new.pending \subseteq 1..new.sequence
      BY <1>5, <1>6, <1>7, <1>11 DEF RowOK, Numbered
    <2>2. ASSUME NEW x \in Nat, NEW p, Fits(row, x, p) PROVE Fits(new, x, p)
      BY <1>2, <1>5, <1>6, <1>11, <2>2 DEF Fits
    <2>3. Fits(new, id, q)
      BY <1>2, <1>6, <1>11 DEF Fits
    <2>4. ASSUME NEW call \in new.asked PROVE Fits(new, call[1], call[2])
      BY <1>11, <2>2, <2>3, <2>4 DEF RowOK, Rows, Numbered
    <2>5. ASSUME NEW i \in DOMAIN new.mail, new.mail[i].type = "result"
          PROVE  Fits(new, new.mail[i].id, new.mail[i].q)
      <3>1. new.mail[i] \in Letters
        BY <1>11, <2>5 DEF Rows
      <3> QED BY <1>11, <2>2, <2>5, <3>1 DEF RowOK, Numbered, Letters
    <2> QED BY <2>1, <2>4, <2>5 DEF Numbered
  <1> QED BY <1>1, <1>11, <1>12, <1>13 DEF RowOK, Runs

-----------------------------------------------------------------------------
(* The host. *)

FramesOK == DOMAIN frames = Frames /\ \A f \in Frames : RowOK(frames[f])
(* In the document, and listened to, is what runs.                         *)
ShownRuns == document = {f \in Frames : Runs(frames[f])} /\ listening = document
(* A visit that is still to come finds its frames unused.                  *)
NoneAhead == visits \in 0..MaxVisits /\ \A f \in Frames : f[1] > visits => frames[f].pc = "unused"
HostInv == FramesOK /\ ShownRuns /\ NoneAhead

ToldOK == answers \in [Questions -> Questions \cup {"unasked", "waiting", "failed"}] /\ AnswersFit
ListOK ==
  /\ stored \in [Addons -> {"absent", "on", "off"}] /\ state \subseteq Addons /\ offered \in Addons \cup {NoAddon}
  /\ page \in [visit : 0..MaxVisits, pc : {"away", "loading", "shown"}]

LEMMA FramesHaveVisits ==
  /\ \A f \in Frames : f[1] \in 0..MaxVisits /\ f[2] \in Addons /\ f = <<f[1], f[2]>>
  /\ \A a \in Addons : <<0, a>> \in Frames
  /\ MaxVisits \in Nat
  BY AddonsAssumption DEF Frames

LEMMA FrameMoves ==
  ASSUME FramesOK, NEW f \in Frames, NEW row, RowOK(row), frames' = [frames EXCEPT ![f] = row]
  PROVE  FramesOK' /\ frames'[f] = row /\ \A g \in Frames \ {f} : frames'[g] = frames[g]
  BY DEF FramesOK, RowOK, Rows, Numbered, Fits, Runs, Empty

(* What goes on in a frame that is there already. *)
LEMMA FrameStays ==
  ASSUME HostInv, NEW f \in Frames, NEW row, RowOK(row), frames' = [frames EXCEPT ![f] = row],
         Runs(row) <=> Runs(frames[f]), frames[f].pc # "unused" \/ f[1] = 0,
         UNCHANGED <<document, listening, visits>>
  PROVE  HostInv'
  <1>1. FramesOK' /\ frames'[f] = row /\ \A g \in Frames \ {f} : frames'[g] = frames[g]
    BY FrameMoves DEF HostInv
  <1>2. ShownRuns'
    BY <1>1 DEF HostInv, ShownRuns, Runs
  <1>3. NoneAhead'
    BY <1>1, FramesHaveVisits DEF HostInv, NoneAhead
  <1> QED BY <1>1, <1>2, <1>3 DEF HostInv

(* fail and destroy. *)
LEMMA FrameEnds ==
  ASSUME HostInv, NEW f \in Frames, NEW pc \in {"failed", "stopped"}, frames' = [frames EXCEPT ![f] = Vacant(pc)],
         frames[f].pc # "unused", document' = document \ {f}, listening' = listening \ {f}, visits' = visits
  PROVE  HostInv'
  <1>1. RowOK(Vacant(pc)) /\ Vacant(pc).pc = pc
    BY VacantIs
  <1>2. FramesOK' /\ frames'[f] = Vacant(pc) /\ \A g \in Frames \ {f} : frames'[g] = frames[g]
    BY <1>1, FrameMoves DEF HostInv
  <1>3. ShownRuns'
    BY <1>1, <1>2 DEF HostInv, ShownRuns, Runs
  <1>4. NoneAhead'
    BY <1>2, FramesHaveVisits DEF HostInv, NoneAhead
  <1> QED BY <1>2, <1>3, <1>4 DEF HostInv

LEMMA AddonRunning ==
  ASSUME HostInv, NEW f, f \in document \cup listening
  PROVE  f \in Frames /\ RowOK(frames[f]) /\ Runs(frames[f]) /\ frames[f].pc # "unused"
  BY DEF HostInv, FramesOK, ShownRuns, Runs

LEMMA StartSteps ==
  ASSUME HostInv, NEW f \in Frames, Appear(f) \/ NotFetched(f) \/ BootTimeout(f)
  PROVE  HostInv'
  <1>1. RowOK(frames[f])
    BY DEF HostInv, FramesOK
  <1>2. CASE Appear(f)
    <2>1. PICK row : row = [frames[f] EXCEPT !.pc = "boot"]
      OBVIOUS
    <2>2. RowOK(row) /\ row.pc = "boot"
      BY <1>1, <2>1, StageIs
    <2>3. frames[f].pc = "fetching" /\ frames' = [frames EXCEPT ![f] = row] /\ visits' = visits
          /\ document' = document \cup {f} /\ listening' = listening \cup {f}
      BY <1>2, <2>1 DEF Appear
    <2>4. FramesOK' /\ frames'[f] = row /\ \A g \in Frames \ {f} : frames'[g] = frames[g]
      BY <2>2, <2>3, FrameMoves DEF HostInv
    <2>5. ShownRuns'
      BY <2>2, <2>3, <2>4 DEF HostInv, ShownRuns, Runs
    <2>6. NoneAhead'
      BY <2>3, <2>4, FramesHaveVisits DEF HostInv, NoneAhead
    <2> QED BY <2>4, <2>5, <2>6 DEF HostInv
  <1>3. CASE NotFetched(f)
    <2>1. PICK row : row = [frames[f] EXCEPT !.pc = "failed"]
      OBVIOUS
    <2>2. frames[f].pc = "fetching" /\ frames' = [frames EXCEPT ![f] = row]
          /\ UNCHANGED <<document, listening, visits>>
      BY <1>3, <2>1 DEF NotFetched
    <2>3. RowOK(row) /\ row.pc = "failed"
      BY <1>1, <2>1, <2>2, StageIs DEF RowOK, Runs
    <2>4. ~Runs(row) /\ ~Runs(frames[f])
      BY <2>2, <2>3 DEF Runs
    <2> QED BY <2>2, <2>3, <2>4, FrameStays
  <1>4. CASE BootTimeout(f)
    <2>1. frames[f].pc = "boot" /\ visits' = visits
      BY <1>4 DEF BootTimeout
    <2> QED BY <1>4, <2>1, FrameEnds DEF BootTimeout, Fail
  <1> QED BY <1>2, <1>3, <1>4

LEMMA SignalsAreLetters ==
  /\ \A type \in {"booted", "ready", "fatal", "store"} : Signal(type) \in Letters /\ Signal(type).type = type
  /\ \A id \in Nat, q \in Questions : LET m == Message("result", id, q)
                                      IN  m \in Letters /\ m.id = id /\ m.q = q
  BY DEF Signal, Message, Letters

LEMMA WorkerSteps ==
  ASSUME HostInv, NEW f \in Frames,
         FrameLoads(f) \/ WorkerRegisters(f) \/ WorkerDies(f) \/ WorkerStores(f)
  PROVE  HostInv'
  <1>1. f \in document /\ UNCHANGED <<document, listening, visits>>
    BY DEF FrameLoads, WorkerRegisters, WorkerDies, WorkerStores
  <1>2. RowOK(frames[f]) /\ Runs(frames[f]) /\ frames[f].pc # "unused"
    BY <1>1, AddonRunning
  <1>3. ASSUME NEW row, RowOK(row), row.pc = frames[f].pc, NEW type \in {"booted", "ready", "fatal", "store"},
               frames' = [frames EXCEPT ![f] = Post(row, Signal(type))]
        PROVE  HostInv'
    <2>1. Runs(row) /\ Signal(type) \in Letters /\ Signal(type).type # "result"
      BY <1>2, <1>3, SignalsAreLetters DEF Runs
    <2>2. RowOK(Post(row, Signal(type))) /\ Post(row, Signal(type)).pc = row.pc
      BY <1>3, <2>1, PostIs
    <2> QED BY <1>1, <1>2, <1>3, <2>1, <2>2, FrameStays DEF Runs
  <1>4. ASSUME NEW w \in {"loaded", "ready", "dead"}, NEW type \in {"booted", "ready", "fatal", "store"},
               frames' = [frames EXCEPT ![f] = Post([frames[f] EXCEPT !.worker = w], Signal(type))]
        PROVE  HostInv'
    BY <1>2, <1>3, <1>4, WorkerIs
  <1> QED BY <1>2, <1>3, <1>4 DEF FrameLoads, WorkerRegisters, WorkerDies, WorkerStores

LEMMA AnswerSteps ==
  ASSUME HostInv, NEW f \in Frames, NEW call \in frames[f].asked, WorkerAnswers(f, call[1], call[2])
  PROVE  HostInv'
  <1>1. f \in document /\ UNCHANGED <<document, listening, visits>>
    BY DEF WorkerAnswers
  <1>2. RowOK(frames[f]) /\ Runs(frames[f]) /\ frames[f].pc # "unused"
    BY <1>1, AddonRunning
  <1>3. PICK m : m = Message("result", call[1], call[2])
    OBVIOUS
  <1>4. PICK row : row = [frames[f] EXCEPT !.asked = @ \ {<<call[1], call[2]>>}]
    OBVIOUS
  <1>5. call[1] \in Nat /\ call[2] \in Questions /\ Fits(frames[f], call[1], call[2])
    BY <1>2 DEF RowOK, Rows, Numbered
  <1>6. m \in Letters /\ m.id = call[1] /\ m.q = call[2]
    BY <1>3, <1>5, SignalsAreLetters
  <1>7. /\ row \in Rows /\ row.pc = frames[f].pc /\ row.mail = frames[f].mail /\ row.pending = frames[f].pending
        /\ row.asked \subseteq frames[f].asked /\ row.sequence = frames[f].sequence
    BY <1>2, <1>4 DEF RowOK, Rows
  <1>8. RowOK(row) /\ Runs(row) /\ Fits(row, m.id, m.q)
    BY <1>2, <1>5, <1>6, <1>7 DEF RowOK, Numbered, Fits, Runs
  <1>9. RowOK(Post(row, m)) /\ Post(row, m).pc = row.pc
    BY <1>6, <1>8, PostIs
  <1>10. frames' = [frames EXCEPT ![f] = Post(row, m)]
    BY <1>3, <1>4 DEF WorkerAnswers
  <1> QED BY <1>1, <1>2, <1>7, <1>9, <1>10, FrameStays DEF Runs

(* A message to the page is read: what it leaves of the row.               *)
LEMMA HeadIs ==
  ASSUME HostInv, NEW f \in Frames, NEW type, Next1(f, type)
  PROVE  /\ RowOK(frames[f]) /\ Runs(frames[f]) /\ frames[f].pc # "unused"
         /\ RowOK(Read(f)) /\ Read(f).pc = frames[f].pc /\ Read(f).pending = frames[f].pending
         /\ type = "result" => LET m == Head(frames[f].mail)
                               IN  m \in Letters /\ Fits(frames[f], m.id, m.q)
  <1>1. f \in listening /\ frames[f].mail # << >> /\ Head(frames[f].mail).type = type
    BY DEF Next1
  <1>2. RowOK(frames[f]) /\ Runs(frames[f]) /\ frames[f].pc # "unused"
    BY <1>1, AddonRunning
  <1>3. RowOK(Read(f)) /\ Read(f).pc = frames[f].pc /\ Read(f).pending = frames[f].pending
    BY <1>1, <1>2, ReadIs DEF Read
  <1>4. PICK mail : mail = frames[f].mail
    OBVIOUS
  <1>5. mail \in Seq(Letters) /\ mail # << >>
    BY <1>1, <1>2, <1>4 DEF RowOK, Rows
  <1>6. 1 \in DOMAIN mail /\ Head(mail) = mail[1] /\ mail[1] \in Letters
    BY <1>5
  <1>7. type = "result" => Fits(frames[f], mail[1].id, mail[1].q)
    BY <1>1, <1>2, <1>4, <1>6 DEF RowOK, Numbered
  <1> QED BY <1>2, <1>3, <1>4, <1>6, <1>7

LEMMA MessageSteps ==
  ASSUME HostInv, NEW f \in Frames, OnMessage(f)
  PROVE  HostInv'
  <1>1. CASE OnBooted(f)
    <2>1. PICK row : row = [Read(f) EXCEPT !.worker = "started"]
      OBVIOUS
    <2>2. Next1(f, "booted") /\ frames' = [frames EXCEPT ![f] = row] /\ UNCHANGED <<document, listening, visits>>
      BY <1>1, <2>1 DEF OnBooted
    <2>3. RowOK(row) /\ row.pc = frames[f].pc
      BY <2>1, <2>2, HeadIs, WorkerIs
    <2> QED BY <2>2, <2>3, HeadIs, FrameStays DEF Runs
  <1>2. CASE OnReady(f)
    <2>1. Next1(f, "ready") /\ visits' = visits
      BY <1>2 DEF OnReady
    <2>2. CASE Fail(f) \/ Destroy(f)
      BY <2>1, <2>2, HeadIs, FrameEnds DEF Fail, Destroy
    <2>3. CASE /\ frames' = [frames EXCEPT ![f] = [Read(f) EXCEPT !.pc = IF @ = "boot" THEN "up" ELSE @]]
               /\ UNCHANGED <<document, listening, answers, offered>>
      <3>1. PICK pc : pc = IF frames[f].pc = "boot" THEN "up" ELSE frames[f].pc
        OBVIOUS
      <3>2. PICK row : row = [Read(f) EXCEPT !.pc = pc]
        OBVIOUS
      <3>3. pc = "up"
        BY <2>1, <3>1, HeadIs DEF Runs
      <3>4. frames' = [frames EXCEPT ![f] = row]
        BY <2>1, <2>3, <3>1, <3>2, HeadIs
      <3>5. RowOK(row) /\ row.pc = "up"
        BY <2>1, <3>2, <3>3, HeadIs, StageIs
      <3> QED BY <2>1, <2>3, <3>4, <3>5, HeadIs, FrameStays DEF Runs
    <2> QED BY <1>2, <2>2, <2>3 DEF OnReady
  <1>3. CASE OnResult(f)
    <2>1. PICK id : id = Head(frames[f].mail).id
      OBVIOUS
    <2>2. /\ Next1(f, "result") /\ UNCHANGED <<document, listening, visits>>
          /\ frames' = [frames EXCEPT ![f] = Settled(Read(f), id)]
      BY <1>3, <2>1 DEF OnResult
    <2>3. RowOK(Settled(Read(f), id)) /\ Settled(Read(f), id).pc = frames[f].pc
      BY <2>2, HeadIs, SettledIs
    <2> QED BY <2>2, <2>3, HeadIs, FrameStays DEF Runs
  <1>4. CASE OnFatal(f)
    <2>1. Next1(f, "fatal") /\ visits' = visits /\ (Fail(f) \/ Destroy(f))
      BY <1>4 DEF OnFatal
    <2> QED BY <2>1, HeadIs, FrameEnds DEF Fail, Destroy
  <1>5. CASE OnStore(f)
    <2>1. Next1(f, "store") /\ frames' = [frames EXCEPT ![f] = Read(f)] /\ UNCHANGED <<document, listening, visits>>
      BY <1>5 DEF OnStore
    <2> QED BY <2>1, HeadIs, FrameStays DEF Runs
  <1> QED BY <1>1, <1>2, <1>3, <1>4, <1>5 DEF OnMessage

LEMMA CallSteps ==
  ASSUME HostInv, NEW f \in Frames,
         (\E id \in DOMAIN frames[f].pending : CallTimesOut(f, id)) \/ (\E q \in Questions : Invoke(f, q))
  PROVE  HostInv'
  <1>1. RowOK(frames[f])
    BY DEF HostInv, FramesOK
  <1>2. ASSUME NEW id \in DOMAIN frames[f].pending, CallTimesOut(f, id) PROVE HostInv'
    <2>1. RowOK(Settled(frames[f], id)) /\ Settled(frames[f], id).pc = frames[f].pc
      BY <1>1, SettledIs
    <2>2. frames' = [frames EXCEPT ![f] = Settled(frames[f], id)] /\ UNCHANGED <<document, listening, visits>>
      BY <1>2 DEF CallTimesOut
    <2>3. Runs(frames[f]) /\ frames[f].pc # "unused"
      BY <1>1, <1>2 DEF RowOK, Empty, Runs
    <2> QED BY <2>1, <2>2, <2>3, FrameStays DEF Runs
  <1>3. ASSUME NEW q \in Questions, Invoke(f, q) PROVE HostInv'
    <2>1. PICK row : row = Called([frames[f] EXCEPT !.sequence = frames[f].sequence + 1], frames[f].sequence + 1, q)
      OBVIOUS
    <2>2. frames[f].pc = "up" /\ frames' = [frames EXCEPT ![f] = row] /\ UNCHANGED <<document, listening, visits>>
      BY <1>3, <2>1 DEF Invoke
    <2>3. RowOK(row) /\ row.pc = frames[f].pc
      BY <1>1, <2>1, <2>2, CalledIs DEF Runs
    <2> QED BY <2>2, <2>3, FrameStays DEF Runs
  <1> QED BY <1>2, <1>3

LEMMA VisitSteps ==
  ASSUME HostInv, Visit
  PROVE  HostInv'
  <1> DEFINE new(f) == IF f[1] = visits + 1 /\ stored[f[2]] # "absent" THEN Vacant("fetching") ELSE frames[f]
  <1>1. /\ visits < MaxVisits /\ visits' = visits + 1 /\ UNCHANGED <<document, listening>>
        /\ frames' = [f \in Frames |-> new(f)]
    BY DEF Visit
  <1>2. visits \in 0..MaxVisits /\ MaxVisits \in Nat /\ visits' \in 0..MaxVisits
    BY <1>1, FramesHaveVisits DEF HostInv, NoneAhead
  <1>3. \A f \in Frames : frames'[f] = new(f) /\ f[1] \in 0..MaxVisits
    BY <1>1, FramesHaveVisits
  <1>4. RowOK(Vacant("fetching")) /\ Vacant("fetching").pc = "fetching"
    BY VacantIs
  <1>5. ASSUME NEW f \in Frames
        PROVE  RowOK(new(f)) /\ (Runs(new(f)) <=> Runs(frames[f])) /\ (f[1] > visits' => new(f).pc = "unused")
    <2>1. CASE f[1] = visits + 1 /\ stored[f[2]] # "absent"
      <3>1. frames[f].pc = "unused"
        BY <1>2, <1>3, <2>1 DEF HostInv, NoneAhead
      <3> QED BY <1>1, <1>2, <1>3, <1>4, <2>1, <3>1 DEF Runs
    <2>2. CASE ~(f[1] = visits + 1 /\ stored[f[2]] # "absent")
      <3>1. f[1] > visits' => f[1] > visits
        BY <1>1, <1>2, <1>3
      <3> QED BY <2>2, <3>1 DEF HostInv, FramesOK, NoneAhead
    <2> QED BY <2>1, <2>2
  <1> HIDE DEF new
  <1>6. FramesOK'
    BY <1>1, <1>3, <1>5 DEF FramesOK, RowOK, Rows, Numbered, Fits, Runs, Empty
  <1>7. ShownRuns'
    BY <1>1, <1>3, <1>5 DEF HostInv, ShownRuns, Runs
  <1>8. NoneAhead'
    BY <1>2, <1>3, <1>5 DEF NoneAhead
  <1> QED BY <1>6, <1>7, <1>8 DEF HostInv

LEMMA PreviewSteps ==
  ASSUME HostInv, NEW a \in Addons, Preview(a)
  PROVE  HostInv'
  <1>1. PICK f : f = <<0, a>>
    OBVIOUS
  <1>2. f \in Frames /\ f[1] = 0
    BY <1>1, FramesHaveVisits
  <1>3. /\ frames[f].pc \in {"unused", "failed", "stopped"} /\ frames' = [frames EXCEPT ![f] = Vacant("fetching")]
        /\ UNCHANGED <<document, listening, visits>>
    BY <1>1 DEF Preview
  <1>4. RowOK(Vacant("fetching")) /\ Vacant("fetching").pc = "fetching"
    BY VacantIs
  <1> QED BY <1>2, <1>3, <1>4, FrameStays DEF Runs

LEMMA HostStarts == AddonsInit => HostInv
  <1> SUFFICES ASSUME AddonsInit PROVE HostInv
    OBVIOUS
  <1>1. RowOK(NoFrame) /\ NoFrame.pc = "unused"
    BY VacantIs DEF NoFrame
  <1>2. DOMAIN frames = Frames /\ \A f \in Frames : frames[f] = NoFrame
    BY DEF AddonsInit
  <1> QED BY <1>1, <1>2 DEF AddonsInit, HostInv, FramesOK, ShownRuns, NoneAhead, Runs

LEMMA HostKeeps ==
  ASSUME HostInv, [AddonsNext]_hostVars
  PROVE  HostInv'
  <1>1. ASSUME UNCHANGED <<frames, document, listening, visits>> PROVE HostInv'
    BY <1>1 DEF HostInv, FramesOK, ShownRuns, NoneAhead, RowOK, Rows, Numbered, Fits, Runs, Empty
  <1>2. ASSUME NEW f \in Frames, NEW q \in Questions, InvokeStopped(f, q) PROVE HostInv'
    BY <1>1, <1>2 DEF InvokeStopped, frameVars
  <1>3. CASE Loaded \/ Leave \/ Install
    BY <1>1, <1>3 DEF Loaded, Leave, Install, frameVars
  <1>4. ASSUME NEW q \in Questions, GiveUp(q) PROVE HostInv'
    BY <1>1, <1>4 DEF GiveUp, frameVars
  <1>5. ASSUME NEW a \in Addons, Remove(a) \/ Toggle(a) PROVE HostInv'
    BY <1>1, <1>5 DEF Remove, Toggle, frameVars
  <1>6. CASE UNCHANGED hostVars
    BY <1>1, <1>6 DEF hostVars, frameVars
  <1> QED BY <1>2, <1>3, <1>4, <1>5, <1>6, StartSteps, WorkerSteps, AnswerSteps, MessageSteps, CallSteps,
             VisitSteps, PreviewSteps DEF AddonsNext

LEMMA HostIsSafe == AddonsSpec => []HostInv
  BY HostStarts, HostKeeps, PTL DEF AddonsSpec

(* However an addon ends - a download that fails, a boot that takes too    *)
(* long, a fatal error before or after it was ready, a preview that is     *)
(* over - it leaves no frame, no listener, no message and no call that     *)
(* waits (startLocalAddon: fail, destroy).                                 *)
THEOREM AddonsLeaveNothing == AddonsSpec => []NothingLeftBehind
  <1>1. HostInv => NothingLeftBehind
    BY DEF HostInv, FramesOK, ShownRuns, RowOK, Runs, Empty, NothingLeftBehind
  <1> QED BY <1>1, HostIsSafe, PTL

-----------------------------------------------------------------------------
(* What surfaces are told, and the reader's list. *)

LEMMA RefusedIs ==
  ASSUME ToldOK, NEW qs, answers' = Refused(qs)
  PROVE  ToldOK'
  BY DEF ToldOK, AnswersFit, Refused

LEMMA ToldMoves ==
  ASSUME ToldOK, NEW q \in Questions, NEW a \in {"waiting", "failed", q}, answers' = [answers EXCEPT ![q] = a]
  PROVE  ToldOK'
  BY DEF ToldOK, AnswersFit

(* settle: the call that waits under the answer's number asked what the    *)
(* answer answers.                                                         *)
LEMMA ResultTold ==
  ASSUME HostInv, ToldOK, NEW f \in Frames, OnResult(f)
  PROVE  ToldOK'
  <1>1. PICK m : m = Head(frames[f].mail)
    OBVIOUS
  <1>2. m \in Letters /\ Fits(frames[f], m.id, m.q) /\ RowOK(frames[f])
    BY <1>1, HeadIs DEF OnResult
  <1>3. CASE UNCHANGED answers
    BY <1>3 DEF ToldOK, AnswersFit
  <1>4. CASE answers' # answers
    <2>1. m.id \in DOMAIN frames[f].pending
      BY <1>1, <1>4 DEF OnResult
    <2>2. frames[f].pending[m.id] = m.q
      BY <1>2, <2>1 DEF Fits
    <2>3. m.q \in Questions
      <3>1. PICK I \in SUBSET Nat : frames[f].pending \in [I -> Questions]
        BY <1>2 DEF RowOK, Rows, Waits
      <3> QED BY <2>1, <2>2, <3>1
    <2>4. PICK ok \in BOOLEAN : answers' = [answers EXCEPT ![m.q] = IF ok THEN m.q ELSE "failed"]
      BY <1>1, <1>4, <2>2 DEF OnResult
    <2>5. PICK a : a = IF ok THEN m.q ELSE "failed"
      OBVIOUS
    <2> QED BY <2>3, <2>4, <2>5, ToldMoves
  <1> QED BY <1>3, <1>4

LEMMA ToldKeeps ==
  ASSUME HostInv, ToldOK, [AddonsNext]_hostVars
  PROVE  ToldOK'
  <1>1. ASSUME UNCHANGED answers PROVE ToldOK'
    BY <1>1 DEF ToldOK, AnswersFit
  <1>2. ASSUME NEW f \in Frames, Appear(f) \/ NotFetched(f) \/ BootTimeout(f) \/ FrameLoads(f)
                                 \/ WorkerRegisters(f) \/ WorkerDies(f) \/ WorkerStores(f)
        PROVE  ToldOK'
    BY <1>1, <1>2 DEF Appear, NotFetched, BootTimeout, FrameLoads, WorkerRegisters, WorkerDies, WorkerStores
  <1>3. ASSUME NEW f \in Frames, OnMessage(f) PROVE ToldOK'
    <2>1. CASE OnBooted(f) \/ OnStore(f)
      BY <1>1, <2>1 DEF OnBooted, OnStore
    <2>2. CASE OnReady(f) \/ OnFatal(f)
      BY <1>1, <2>2, RefusedIs DEF OnReady, OnFatal, Destroy
    <2> QED BY <1>3, <2>1, <2>2, ResultTold DEF OnMessage
  <1>4. ASSUME NEW f \in Frames, NEW call \in frames[f].asked, WorkerAnswers(f, call[1], call[2]) PROVE ToldOK'
    BY <1>1, <1>4 DEF WorkerAnswers
  <1>5. ASSUME NEW f \in Frames, NEW id \in DOMAIN frames[f].pending, CallTimesOut(f, id) PROVE ToldOK'
    BY <1>5, RefusedIs DEF CallTimesOut
  <1>6. ASSUME NEW f \in Frames, NEW q \in Questions, Invoke(f, q) \/ InvokeStopped(f, q) PROVE ToldOK'
    BY <1>6, ToldMoves DEF Invoke, InvokeStopped
  <1>7. CASE Visit \/ Loaded \/ Install
    BY <1>1, <1>7 DEF Visit, Loaded, Install
  <1>8. CASE Leave
    BY <1>8, RefusedIs DEF Leave
  <1>9. ASSUME NEW q \in Questions, GiveUp(q) PROVE ToldOK'
    BY <1>9, RefusedIs DEF GiveUp
  <1>10. ASSUME NEW a \in Addons, Preview(a) \/ Remove(a) \/ Toggle(a) PROVE ToldOK'
    BY <1>1, <1>10 DEF Preview, Remove, Toggle
  <1>11. CASE UNCHANGED hostVars
    BY <1>1, <1>11 DEF hostVars
  <1> QED BY <1>2, <1>3, <1>4, <1>5, <1>6, <1>7, <1>8, <1>9, <1>10, <1>11 DEF AddonsNext

LEMMA ListKeeps ==
  ASSUME HostInv, ListOK, [AddonsNext]_hostVars
  PROVE  ListOK'
  <1>1. ASSUME UNCHANGED <<stored, state, offered, page>> PROVE ListOK'
    BY <1>1 DEF ListOK
  <1>2. ASSUME NEW f \in Frames, Appear(f) \/ NotFetched(f) \/ BootTimeout(f) \/ FrameLoads(f)
                                 \/ WorkerRegisters(f) \/ WorkerDies(f) \/ WorkerStores(f)
        PROVE  ListOK'
    BY <1>1, <1>2 DEF Appear, NotFetched, BootTimeout, FrameLoads, WorkerRegisters, WorkerDies, WorkerStores, listVars
  <1>3. ASSUME NEW f \in Frames, OnMessage(f) PROVE ListOK'
    <2>1. CASE OnBooted(f) \/ OnResult(f) \/ OnFatal(f)
      BY <1>1, <2>1 DEF OnBooted, OnResult, OnFatal, listVars
    <2>2. CASE OnReady(f)
      BY <2>2, FramesHaveVisits DEF OnReady, ListOK
    <2>3. CASE OnStore(f)
      BY <2>3, FramesHaveVisits DEF OnStore, ListOK
    <2> QED BY <1>3, <2>1, <2>2, <2>3 DEF OnMessage
  <1>4. ASSUME NEW f \in Frames, NEW call \in frames[f].asked, WorkerAnswers(f, call[1], call[2]) PROVE ListOK'
    BY <1>1, <1>4 DEF WorkerAnswers, listVars
  <1>5. ASSUME NEW f \in Frames, NEW id \in DOMAIN frames[f].pending, CallTimesOut(f, id) PROVE ListOK'
    BY <1>1, <1>5 DEF CallTimesOut, listVars
  <1>6. ASSUME NEW f \in Frames, NEW q \in Questions, Invoke(f, q) \/ InvokeStopped(f, q) PROVE ListOK'
    BY <1>1, <1>6 DEF Invoke, InvokeStopped, listVars
  <1>7. CASE Visit
    <2>1. visits + 1 \in 0..MaxVisits
      BY <1>7, FramesHaveVisits DEF Visit, HostInv, NoneAhead
    <2> QED BY <1>7, <2>1 DEF Visit, ListOK
  <1>8. CASE Loaded \/ Leave
    BY <1>8 DEF Loaded, Leave, ListOK, listVars
  <1>9. CASE Install
    BY <1>9 DEF Install, ListOK
  <1>10. ASSUME NEW q \in Questions, GiveUp(q) PROVE ListOK'
    BY <1>1, <1>10 DEF GiveUp, listVars
  <1>11. ASSUME NEW a \in Addons, Preview(a) \/ Remove(a) \/ Toggle(a) PROVE ListOK'
    BY <1>11 DEF Preview, Remove, Toggle, ListOK
  <1>12. CASE UNCHANGED hostVars
    BY <1>1, <1>12 DEF hostVars, listVars
  <1> QED BY <1>2, <1>3, <1>4, <1>5, <1>6, <1>7, <1>8, <1>9, <1>10, <1>11, <1>12 DEF AddonsNext

LEMMA AddonsAreSafe == AddonsSpec => [](HostInv /\ ToldOK /\ ListOK)
  <1>1. AddonsInit => ToldOK /\ ListOK
    BY AddonsAssumption DEF AddonsInit, ToldOK, ListOK, AnswersFit
  <1> QED BY <1>1, ToldKeeps, ListKeeps, HostStarts, HostKeeps, PTL DEF AddonsSpec

LEMMA AddonsInvTypes == HostInv /\ ToldOK /\ ListOK => AddonsTypeOK
  <1> SUFFICES ASSUME HostInv, ToldOK, ListOK PROVE AddonsTypeOK
    OBVIOUS
  <1>1. document \subseteq Frames /\ listening \subseteq Frames
    BY DEF HostInv, ShownRuns
  <1>2. ASSUME NEW f \in Frames
        PROVE  /\ frames[f].pc \in {"unused", "fetching", "boot", "up", "failed", "stopped"}
               /\ frames[f].worker \in {"none", "loaded", "started", "ready", "dead"}
               /\ \A id \in DOMAIN frames[f].pending :
                    id \in 1..frames[f].sequence /\ frames[f].pending[id] \in Questions
    <2>1. RowOK(frames[f])
      BY DEF HostInv, FramesOK
    <2>2. PICK I \in SUBSET Nat : frames[f].pending \in [I -> Questions]
      BY <2>1 DEF RowOK, Rows, Waits
    <2> QED BY <2>1, <2>2 DEF RowOK, Rows, Numbered
  <1> QED BY <1>1, <1>2 DEF ListOK, ToldOK, AddonsTypeOK

(* The reader's list, the frames, their workers and the calls keep their   *)
(* types, and every call that waits has a number that was handed out.      *)
THEOREM AddonsTypeCorrect == AddonsSpec => []AddonsTypeOK
  BY AddonsInvTypes, AddonsAreSafe, PTL

(* A surface that is given an answer is given the one to its own question: *)
(* an answer that comes after its call timed out, was given up or went     *)
(* with its page finds nobody, however many calls are made (settle,        *)
(* invoke).                                                                *)
THEOREM AnswersAreToTheQuestion == AddonsSpec => []AnswersFit
  <1>1. HostInv /\ ToldOK /\ ListOK => AnswersFit
    BY DEF ToldOK
  <1> QED BY <1>1, AddonsAreSafe, PTL

-----------------------------------------------------------------------------
(***************************************************************************)
(* The adapters: what is concluded or remembered was asked for.            *)
(***************************************************************************)
Searched == source \in Discovery \cup Catalogues

(* A request without which there is no answer: what is not read is thrown. *)
Needed(part) == part.client \subseteq {"fail", "none"} /\ part.down = "fail"
AllNeeded(plan) == \A i \in DOMAIN plan.parts : Needed(plan.parts[i])
KeepsWhole(k) == k = "search" \/ PlanOf(k).key \in {"search", "records"}

LEMMA LookupIs ==
  ASSUME NEW after, NEW client, NEW down
  PROVE  LET l == Lookup(after, client, down)
         IN l.client = {client} /\ l.down = down /\ l.after = after /\ l.own = "no" /\ l.maybe = FALSE /\ l.on = 0
  BY DEF Lookup

LEMMA RequiredIsNeeded == Needed(Required) /\ Needed(IfAny(Then(1, Required)))
    /\ Needed(IfAny(Then(2, Required))) /\ Needed(IfAny(Then(3, Required)))
    /\ Needed([Required EXCEPT !.client = {"none", "fail"}])
  BY DEF Required, Lookup, IfAny, Then, Needed

LEMMA SearchPlans ==
  ASSUME NEW s \in Discovery \cup Catalogues, NEW k \in Kinds,
         k = "search" \/ Adapter(s)[k].key \in {"search", "records"}
  PROVE  AllNeeded(Adapter(s)[k])
  <1> USE RequiredIsNeeded DEF AllNeeded, Adapter, Plan, Kinds
  <1>1. CASE s = "open-library"
    BY <1>1 DEF OpenLibrary, OpenLibrarySearch, OpenLibraryEditions, OpenLibraryDetails
  <1>2. CASE s = "google-books"
    BY <1>2 DEF GoogleBooks
  <1>3. CASE s = "gutenberg"
    BY <1>3 DEF Gutenberg, NoFetch
  <1>4. CASE s = "librivox"
    BY <1>4 DEF LibriVox, LibriVoxSearch, LibriVoxById
  <1>5. CASE s = "authorized-free"
    BY <1>5 DEF AuthorizedFree, NoFetch
  <1>6. CASE s = "wikidata"
    BY <1>6 DEF Wikidata, WikidataSearch, WikidataEditions, WikidataDetails, DescribeWorks, FindCandidateIds
  <1>7. CASE s = "sru"
    BY <1>7 DEF SruCatalogue, Catalogue, NoFetch
  <1>8. CASE s = "bn-poland"
    BY <1>8 DEF PolishLibrary, Catalogue, NoFetch
  <1>9. CASE s = "ndl"
    BY <1>9 DEF Ndl, Catalogue, NoFetch
  <1>10. CASE s = "gallica"
    BY <1>10 DEF Gallica, Catalogue, NoFetch
  <1> QED BY <1>1, <1>2, <1>3, <1>4, <1>5, <1>6, <1>7, <1>8, <1>9, <1>10 DEF Discovery, Catalogues

LEMMA SearchKeys ==
  ASSUME NEW s \in Discovery \cup Catalogues
  PROVE  Adapter(s)["search"].key \in {"search", "records", "none"}
  BY DEF Discovery, Catalogues, Adapter, Plan, NoFetch, Catalogue, OpenLibrary, OpenLibrarySearch, GoogleBooks,
         Gutenberg, LibriVox, LibriVoxSearch, AuthorizedFree, Wikidata, WikidataSearch, SruCatalogue, PolishLibrary,
         Ndl, Gallica

LEMMA PlansFit ==
  ASSUME NEW s \in AllSources, NEW k \in Kinds
  PROVE  /\ DOMAIN Adapter(s)[k].parts \subseteq 1..MaxParts
         /\ Adapter(s)[k].key \in Keys \cup {"none"}
  <1> USE DEF Adapter, Plan, Kinds, Keys, MaxParts, NoFetch, Catalogue, Asked
  <1>1. CASE s = "open-library"
    BY <1>1 DEF OpenLibrary, OpenLibrarySearch, OpenLibraryEditions, OpenLibraryDetails
  <1>2. CASE s = "google-books"
    BY <1>2 DEF GoogleBooks
  <1>3. CASE s = "gutenberg"
    BY <1>3 DEF Gutenberg
  <1>4. CASE s = "librivox"
    BY <1>4 DEF LibriVox, LibriVoxSearch, LibriVoxById
  <1>5. CASE s = "authorized-free"
    BY <1>5 DEF AuthorizedFree
  <1>6. CASE s = "wikidata"
    BY <1>6 DEF Wikidata, WikidataSearch, WikidataEditions, WikidataDetails, DescribeWorks, FindCandidateIds
  <1>7. CASE s \in Catalogues
    BY <1>7 DEF Catalogues, SruCatalogue, PolishLibrary, Ndl, Gallica
  <1>8. CASE s \in {"subjects", "wikipedia", "price"}
    BY <1>8 DEF SubjectIndex, WikipediaDescription, GooglePrice
  <1>9. CASE s \in {"rating", "reviews", "cover"}
    BY <1>9 DEF GoogleRating, ReviewLinks, CoverImage
  <1> QED BY <1>1, <1>2, <1>3, <1>4, <1>5, <1>6, <1>7, <1>8, <1>9 DEF AllSources, Catalogues

Marks == {"todo", "asked", "got", "missed", "unneeded"}
PartMarks == UNION {[S -> Marks] : S \in SUBSET (1..MaxParts)}
Operations ==
  [pc : {"idle", "run", "done", "failed"}, parts : PartMarks, lost : SUBSET (1..MaxParts), found : BOOLEAN]
Remembrances == [held : BOOLEAN, lost : SUBSET (1..MaxParts), found : BOOLEAN]
Syncs == [pc : {"idle", "search", "fetch", "done"},
          outcome : {"none", "error", "not_found", "answered", "synced"}, lost : SUBSET (1..MaxParts)]

SourcesTypes ==
  /\ source \in AskedSources
  /\ syncs \in [Attempts -> Syncs]
  /\ ops \in [Attempts \X Kinds -> Operations]
  /\ memory \in [Keys -> Remembrances]
  /\ owned \in [Kinds \X (1..MaxParts) -> {"none", "got", "missed"}]

ThrownOnly ==
  \A o \in Attempts \X Kinds : ops[o].pc = "failed" =>
    \A i \in DOMAIN ops[o].parts : ops[o].parts[i] \in {"asked", "unneeded"}

(* The inductive invariant: an operation whose answer decides, or is       *)
(* remembered for those that decide, has lost nothing.                     *)
WholeSoFar ==
  Searched =>
    /\ \A a \in Attempts : \A k \in Kinds : KeepsWhole(k) => ops[<<a, k>>].lost = {}
    /\ memory["search"].lost = {} /\ memory["records"].lost = {}
    /\ \A a \in Attempts : syncs[a].lost = {}

SourcesInv == SourcesTypes /\ ThrownOnly /\ WholeSoFar

LEMMA NotRunIs ==
  /\ NotRun \in Operations /\ NotRun.pc = "idle" /\ NotRun.lost = {} /\ DOMAIN NotRun.parts = {}
  /\ \A o \in {"done"}, l \in SUBSET (1..MaxParts), f \in BOOLEAN :
       LET r == [pc |-> o, parts |-> <<>>, lost |-> l, found |-> f] IN r \in Operations
  <1>1. <<>> \in [{} -> Marks] /\ DOMAIN <<>> = {}
    OBVIOUS
  <1>2. <<>> \in PartMarks
    BY <1>1 DEF PartMarks
  <1> QED BY <1>1, <1>2 DEF NotRun, Operations

LEMMA PlanFits ==
  ASSUME SourcesTypes, NEW k \in Kinds
  PROVE  Parts(k) \subseteq 1..MaxParts /\ PlanOf(k).key \in Keys \cup {"none"}
  BY PlansFit, SourcesAssumption DEF SourcesTypes, Parts, PlanOf

LEMMA BegunIs ==
  ASSUME SourcesInv, NEW k \in Kinds
  PROVE  /\ Begun(k) \in Operations /\ Begun(k).pc # "failed"
         /\ Searched /\ KeepsWhole(k) => Begun(k).lost = {}
  <1>1. Parts(k) \subseteq 1..MaxParts /\ PlanOf(k).key \in Keys \cup {"none"}
    BY PlanFits DEF SourcesInv
  <1>2. CASE PlanOf(k).key # "none" /\ memory[PlanOf(k).key].held
    <2>1. memory[PlanOf(k).key] \in Remembrances
      BY <1>1, <1>2 DEF SourcesInv, SourcesTypes
    <2>2. Begun(k) \in Operations /\ Begun(k).pc = "done" /\ Begun(k).lost = memory[PlanOf(k).key].lost
      BY <1>2, <2>1, NotRunIs DEF Begun, Remembrances
    <2>3. ASSUME Searched, KeepsWhole(k) PROVE PlanOf(k).key \in {"search", "records", "none"}
      BY <2>3, SearchKeys DEF KeepsWhole, Searched, PlanOf
    <2> QED BY <1>2, <2>2, <2>3 DEF SourcesInv, WholeSoFar
  <1>3. CASE ~(PlanOf(k).key # "none" /\ memory[PlanOf(k).key].held)
    <2> DEFINE fresh == [i \in Parts(k) |-> "todo"]
    <2>1. fresh \in PartMarks
      BY <1>1 DEF PartMarks, Marks
    <2>2. Begun(k) = [pc |-> "run", parts |-> fresh, lost |-> {}, found |-> FALSE]
      BY <1>3 DEF Begun, NotRun
    <2> QED BY <2>1, <2>2 DEF Operations
  <1> QED BY <1>2, <1>3

OpWhole(k, o) ==
  /\ o \in Operations
  /\ o.pc = "failed" => \A i \in DOMAIN o.parts : o.parts[i] \in {"asked", "unneeded"}
  /\ Searched /\ KeepsWhole(k) => o.lost = {}

LEMMA SourceStays ==
  ASSUME source' = source
  PROVE  (Searched' <=> Searched) /\ \A k \in Kinds : KeepsWhole(k)' <=> KeepsWhole(k)
  BY DEF Searched, KeepsWhole, PlanOf

LEMMA OpsAreWhole ==
  ASSUME SourcesInv
  PROVE  \A a \in Attempts : \A k \in Kinds : OpWhole(k, ops[<<a, k>>])
  BY DEF SourcesInv, SourcesTypes, ThrownOnly, WholeSoFar, OpWhole

LEMMA OpsStayWhole ==
  ASSUME SourcesInv, source' = source, memory' = memory, owned' \in [Kinds \X (1..MaxParts) -> {"none", "got", "missed"}],
         syncs' \in [Attempts -> Syncs], ops' \in [Attempts \X Kinds -> Operations],
         Searched => \A a \in Attempts : syncs'[a].lost = {},
         \A a \in Attempts : \A k \in Kinds : OpWhole(k, ops'[<<a, k>>])
  PROVE  SourcesInv'
  <1>1. (Searched' <=> Searched) /\ \A k \in Kinds : KeepsWhole(k)' <=> KeepsWhole(k)
    BY SourceStays
  <1>2. SourcesTypes'
    BY DEF SourcesInv, SourcesTypes
  <1>3. ThrownOnly'
    BY DEF ThrownOnly, OpWhole
  <1>4. WholeSoFar'
    BY <1>1 DEF SourcesInv, WholeSoFar, OpWhole
  <1> QED BY <1>2, <1>3, <1>4 DEF SourcesInv

LEMMA OpMoves ==
  ASSUME SourcesInv, NEW a \in Attempts, NEW k \in Kinds, NEW o, OpWhole(k, o),
         ops' = [ops EXCEPT ![<<a, k>>] = o]
  PROVE  /\ ops' \in [Attempts \X Kinds -> Operations]
         /\ \A b \in Attempts : \A j \in Kinds : OpWhole(j, ops'[<<b, j>>])
  <1>1. ops \in [Attempts \X Kinds -> Operations] /\ o \in Operations
    BY DEF SourcesInv, SourcesTypes, OpWhole
  <1>2. \A b \in Attempts : \A j \in Kinds : OpWhole(j, ops[<<b, j>>])
    BY OpsAreWhole
  <1>3. ASSUME NEW b \in Attempts, NEW j \in Kinds PROVE OpWhole(j, ops'[<<b, j>>])
    <2>1. CASE b = a /\ j = k
      BY <1>1, <2>1
    <2>2. CASE ~(b = a /\ j = k)
      <3>1. ops'[<<b, j>>] = ops[<<b, j>>]
        BY <1>1, <2>2
      <3> QED BY <1>2, <3>1
    <2> QED BY <2>1, <2>2
  <1> QED BY <1>1, <1>3

LEMMA StartKeeps ==
  ASSUME SourcesInv, NEW a \in Attempts, StartSync(a)
  PROVE  SourcesInv'
  <1>1. OpWhole("search", Begun("search")) /\ "search" \in Kinds
    BY BegunIs DEF OpWhole, Kinds
  <1>2. /\ ops' \in [Attempts \X Kinds -> Operations]
        /\ \A b \in Attempts : \A j \in Kinds : OpWhole(j, ops'[<<b, j>>])
    BY <1>1, OpMoves DEF StartSync
  <1>3. syncs' \in [Attempts -> Syncs] /\ \A b \in Attempts : syncs'[b].lost = syncs[b].lost
    BY DEF SourcesInv, SourcesTypes, StartSync, Syncs
  <1> QED BY <1>2, <1>3, OpsStayWhole DEF StartSync, SourcesInv, SourcesTypes, WholeSoFar

(* One part of an operation that runs takes another mark.                  *)
LEMMA MarkIs ==
  ASSUME NEW o \in Operations, NEW i \in DOMAIN o.parts, NEW s \in Marks
  PROVE  LET m == [o EXCEPT !.parts[i] = s]
         IN m \in Operations /\ m.pc = o.pc /\ m.lost = o.lost /\ m.found = o.found
  <1>1. PICK S \in SUBSET (1..MaxParts) : o.parts \in [S -> Marks]
    BY DEF Operations, PartMarks
  <1>2. [o.parts EXCEPT ![i] = s] \in [S -> Marks]
    BY <1>1
  <1>3. [o.parts EXCEPT ![i] = s] \in PartMarks
    BY <1>2 DEF PartMarks
  <1> QED BY <1>3 DEF Operations

LEMMA TakeUpKeeps ==
  ASSUME SourcesInv, NEW a \in Attempts, NEW k \in Kinds, NEW i \in Parts(k), TakeUp(a, k, i)
  PROVE  SourcesInv'
  <1> DEFINE o == ops[<<a, k>>]
  <1>1. o \in Operations /\ OpWhole(k, o)
    BY OpsAreWhole DEF SourcesInv, SourcesTypes
  <1>2. o.pc = "run" /\ i \in DOMAIN o.parts
    BY DEF TakeUp, Ready
  <1>3. owned[<<k, i>>] \in {"none", "got", "missed"}
    BY PlanFits DEF SourcesInv, SourcesTypes
  <1>4. PICK s \in Marks : ops' = [ops EXCEPT ![<<a, k>>].parts[i] = s]
    BY <1>3 DEF TakeUp, Mark, Marks
  <1> DEFINE m == [o EXCEPT !.parts[i] = s]
  <1>5. OpWhole(k, m)
    BY <1>1, <1>2, MarkIs DEF OpWhole
  <1>6. ops' = [ops EXCEPT ![<<a, k>>] = m]
    BY <1>4
  <1> HIDE DEF m
  <1>7. /\ ops' \in [Attempts \X Kinds -> Operations]
        /\ \A b \in Attempts : \A j \in Kinds : OpWhole(j, ops'[<<b, j>>])
    BY <1>5, <1>6, OpMoves
  <1> QED BY <1>7, OpsStayWhole DEF TakeUp, SourcesInv, SourcesTypes, WholeSoFar

LEMMA ThrownIs ==
  ASSUME NEW o \in Operations, NEW i
  PROVE  /\ Thrown(o, i) \in Operations /\ Thrown(o, i).pc = "failed" /\ Thrown(o, i).lost = {}
         /\ \A j \in DOMAIN Thrown(o, i).parts : Thrown(o, i).parts[j] \in {"asked", "unneeded"}
  <1> DEFINE left == [j \in DOMAIN o.parts |-> IF j \in Asks(o) \ {i} THEN "asked" ELSE "unneeded"]
  <1>1. PICK S \in SUBSET (1..MaxParts) : o.parts \in [S -> Marks]
    BY DEF Operations, PartMarks
  <1>2. left \in [S -> Marks] /\ \A j \in DOMAIN left : left[j] \in {"asked", "unneeded"}
    BY <1>1 DEF Marks
  <1>3. left \in PartMarks
    BY <1>2 DEF PartMarks
  <1>4. Thrown(o, i) = [NotRun EXCEPT !.pc = "failed", !.parts = left]
    BY DEF Thrown
  <1> HIDE DEF left
  <1>5. Thrown(o, i) = [pc |-> "failed", parts |-> left, lost |-> {}, found |-> FALSE]
    BY <1>4 DEF NotRun
  <1>6. {} \in SUBSET (1..MaxParts) /\ FALSE \in BOOLEAN
    OBVIOUS
  <1>7. Thrown(o, i) \in Operations
    BY <1>3, <1>5, <1>6 DEF Operations
  <1>8. Thrown(o, i).pc = "failed" /\ Thrown(o, i).parts = left /\ Thrown(o, i).lost = {}
    BY <1>5
  <1>9. \A j \in DOMAIN Thrown(o, i).parts : Thrown(o, i).parts[j] \in {"asked", "unneeded"}
    BY <1>2, <1>8
  <1> QED BY <1>7, <1>8, <1>9

LEMMA ReceiveKeeps ==
  ASSUME SourcesInv, NEW a \in Attempts, NEW k \in Kinds, NEW i \in Parts(k), Receive(a, k, i)
  PROVE  SourcesInv'
  <1> DEFINE o == ops[<<a, k>>]
             part == PlanOf(k).parts[i]
             kept(s) == IF part.own = "any" \/ (part.own = "got" /\ s = "got") THEN s ELSE owned[<<k, i>>]
  <1>1. o \in Operations /\ OpWhole(k, o)
    BY OpsAreWhole DEF SourcesInv, SourcesTypes
  <1>2. i \in DOMAIN o.parts /\ i \in 1..MaxParts /\ source' = source /\ syncs' = syncs /\ memory' = memory
    BY PlanFits DEF Receive, Asks, SourcesInv
  <1>3. PICK policy \in {"got", part.down} \cup part.client :
          LET s == IF policy \in {"got", "none"} THEN "got" ELSE "missed" IN
          /\ owned' = [owned EXCEPT ![<<k, i>>] = IF policy = "fail" THEN @ ELSE kept(s)]
          /\ ops' = [ops EXCEPT ![<<a, k>>] =
                      IF o.pc = "failed" \/ policy = "fail" THEN Thrown(o, i)
                        ELSE IF policy = "quit" THEN [NotRun EXCEPT !.pc = "done", !.lost = o.lost \cup {i}]
                        ELSE [o EXCEPT !.parts[i] = s, !.lost = IF s = "missed" THEN @ \cup {i} ELSE @]]
    BY DEF Receive
  <1> DEFINE s == IF policy \in {"got", "none"} THEN "got" ELSE "missed"
             marked == [o EXCEPT !.parts[i] = s]
             lost == IF s = "missed" THEN o.lost \cup {i} ELSE o.lost
             next == IF o.pc = "failed" \/ policy = "fail" THEN Thrown(o, i)
                       ELSE IF policy = "quit" THEN [NotRun EXCEPT !.pc = "done", !.lost = o.lost \cup {i}]
                       ELSE [o EXCEPT !.parts[i] = s, !.lost = IF s = "missed" THEN @ \cup {i} ELSE @]
  <1>4. owned' \in [Kinds \X (1..MaxParts) -> {"none", "got", "missed"}]
    BY <1>2, <1>3 DEF SourcesInv, SourcesTypes
  <1>5. ASSUME Searched, KeepsWhole(k) PROVE policy \in {"got", "none", "fail"}
    <2>1. AllNeeded(PlanOf(k))
      BY <1>5, SearchPlans DEF Searched, KeepsWhole, PlanOf
    <2>2. Needed(part)
      BY <2>1 DEF AllNeeded, Parts
    <2> QED BY <1>3, <2>2 DEF Needed
  <1>6. lost \in SUBSET (1..MaxParts) /\ o.lost \cup {i} \in SUBSET (1..MaxParts)
    BY <1>1, <1>2 DEF Operations
  <1>7. OpWhole(k, next)
    <2>1. CASE o.pc = "failed" \/ policy = "fail"
      <3>1. next = Thrown(o, i)
        BY <2>1
      <3> HIDE DEF next
      <3> QED BY <1>1, <3>1, ThrownIs DEF OpWhole
    <2>2. CASE ~(o.pc = "failed" \/ policy = "fail") /\ policy = "quit"
      <3>1. next = [pc |-> "done", parts |-> <<>>, lost |-> o.lost \cup {i}, found |-> FALSE]
        BY <2>2 DEF NotRun
      <3> HIDE DEF next
      <3>2. next \in Operations /\ next.pc = "done"
        BY <1>6, <3>1, NotRunIs
      <3> QED BY <1>5, <2>2, <3>2 DEF OpWhole
    <2>3. CASE ~(o.pc = "failed" \/ policy = "fail") /\ policy # "quit"
      <3>1. next = [marked EXCEPT !.lost = lost]
        BY <1>1, <2>3 DEF Operations
      <3>s. s \in Marks
        BY DEF Marks
      <3> HIDE DEF next, s
      <3>2. marked \in Operations /\ marked.pc = o.pc /\ marked.lost = o.lost
        BY <1>1, <1>2, <3>s, MarkIs
      <3> USE DEF s
      <3> HIDE DEF marked
      <3>3. [marked EXCEPT !.lost = lost] \in Operations /\ [marked EXCEPT !.lost = lost].pc = o.pc
            /\ [marked EXCEPT !.lost = lost].lost = lost
        BY <1>6, <3>2 DEF Operations
      <3>4. ASSUME Searched, KeepsWhole(k) PROVE lost = {}
        BY <1>1, <1>5, <2>3, <3>4 DEF OpWhole
      <3> QED BY <2>3, <3>1, <3>3, <3>4 DEF OpWhole
    <2> QED BY <2>1, <2>2, <2>3
  <1>8. ops' = [ops EXCEPT ![<<a, k>>] = next]
    BY <1>3
  <1> HIDE DEF next
  <1>9. /\ ops' \in [Attempts \X Kinds -> Operations]
        /\ \A b \in Attempts : \A j \in Kinds : OpWhole(j, ops'[<<b, j>>])
    BY <1>7, <1>8, OpMoves
  <1> QED BY <1>2, <1>4, <1>9, OpsStayWhole DEF SourcesInv, SourcesTypes, WholeSoFar

LEMMA EndKeeps ==
  ASSUME SourcesInv, NEW a \in Attempts, NEW k \in Kinds, EndOp(a, k)
  PROVE  SourcesInv'
  <1> DEFINE o == ops[<<a, k>>]
             key == PlanOf(k).key
  <1>1. o \in Operations /\ OpWhole(k, o)
    BY OpsAreWhole DEF SourcesInv, SourcesTypes
  <1>2. PICK found \in BOOLEAN :
          /\ ops' = [ops EXCEPT ![<<a, k>>] = [pc |-> "done", parts |-> <<>>, lost |-> o.lost, found |-> found]]
          /\ memory' = IF key = "none" THEN memory
                       ELSE [memory EXCEPT ![key] = [held |-> TRUE, lost |-> o.lost, found |-> found]]
    BY DEF EndOp
  <1>3. source' = source /\ syncs' = syncs /\ owned' = owned
    BY DEF EndOp
  <1>4. OpWhole(k, [pc |-> "done", parts |-> <<>>, lost |-> o.lost, found |-> found])
    BY <1>1, NotRunIs DEF OpWhole, Operations
  <1>5. /\ ops' \in [Attempts \X Kinds -> Operations]
        /\ \A b \in Attempts : \A j \in Kinds : OpWhole(j, ops'[<<b, j>>])
    BY <1>2, <1>4, OpMoves
  <1>6. key \in Keys \cup {"none"}
    BY PlanFits DEF SourcesInv
  <1>7. memory' \in [Keys -> Remembrances]
    BY <1>1, <1>2, <1>6 DEF SourcesInv, SourcesTypes, Remembrances, Operations
  <1>8. ASSUME Searched PROVE memory'["search"].lost = {} /\ memory'["records"].lost = {}
    <2>1. key \in {"search", "records"} => o.lost = {}
      BY <1>1, <1>8 DEF OpWhole, KeepsWhole
    <2>2. memory \in [Keys -> Remembrances] /\ "search" \in Keys /\ "records" \in Keys
      BY DEF SourcesInv, SourcesTypes, Keys
    <2> QED BY <1>2, <1>8, <2>1, <2>2 DEF SourcesInv, WholeSoFar
  <1>9. (Searched' <=> Searched) /\ \A j \in Kinds : KeepsWhole(j)' <=> KeepsWhole(j)
    BY <1>3, SourceStays
  <1>10. SourcesTypes'
    BY <1>3, <1>5, <1>7 DEF SourcesInv, SourcesTypes
  <1>11. ThrownOnly'
    BY <1>5 DEF ThrownOnly, OpWhole
  <1>12. WholeSoFar'
    BY <1>3, <1>5, <1>8, <1>9 DEF SourcesInv, WholeSoFar, OpWhole
  <1> QED BY <1>10, <1>11, <1>12 DEF SourcesInv

LEMMA FinishIs ==
  ASSUME SourcesInv, NEW a \in Attempts, NEW outcome \in {"error", "not_found", "answered", "synced"},
         Finish(a, outcome)
  PROVE  /\ syncs' \in [Attempts -> Syncs] /\ ops' \in [Attempts \X Kinds -> Operations]
         /\ Searched => \A b \in Attempts : syncs'[b].lost = {}
         /\ \A b \in Attempts : \A j \in Kinds : OpWhole(j, ops'[<<b, j>>])
  <1>1. \A b \in Attempts : \A j \in Kinds : OpWhole(j, ops[<<b, j>>])
    BY OpsAreWhole
  <1>2. \A j \in Kinds : OpWhole(j, NotRun)
    BY NotRunIs DEF OpWhole
  <1>3. DOMAIN ops = Attempts \X Kinds
    BY DEF SourcesInv, SourcesTypes
  <1>4. ASSUME NEW b \in Attempts, NEW j \in Kinds PROVE OpWhole(j, ops'[<<b, j>>])
    <2>1. ops'[<<b, j>>] \in {ops[<<b, j>>], NotRun}
      BY <1>3 DEF Finish
    <2> QED BY <1>1, <1>2, <2>1
  <1>5. ops' \in [Attempts \X Kinds -> Operations]
    BY <1>3, <1>4, NotRunIs DEF Finish, SourcesInv, SourcesTypes
  <1>6. OpWhole("search", ops[<<a, "search">>]) /\ (Searched => ops[<<a, "search">>].lost = {})
    BY <1>1 DEF OpWhole, KeepsWhole, Kinds
  <1>7. syncs' \in [Attempts -> Syncs]
    BY <1>6 DEF Finish, SourcesInv, SourcesTypes, Syncs, OpWhole, Operations
  <1>8. ASSUME Searched PROVE \A b \in Attempts : syncs'[b].lost = {}
    BY <1>6, <1>8 DEF Finish, SourcesInv, SourcesTypes, WholeSoFar, Syncs
  <1> QED BY <1>4, <1>5, <1>7, <1>8

LEMMA AfterSearchKeeps ==
  ASSUME SourcesInv, NEW a \in Attempts, AfterSearch(a)
  PROVE  SourcesInv'
  <1> DEFINE o == ops[<<a, "search">>]
             on == o.pc = "done" /\ o.found /\ source \in Discovery \cup Catalogues
  <1>1. source' = source /\ memory' = memory /\ owned' = owned
    BY DEF AfterSearch
  <1>2. owned' \in [Kinds \X (1..MaxParts) -> {"none", "got", "missed"}]
    BY <1>1 DEF SourcesInv, SourcesTypes
  <1>3. CASE on
    <2>1. /\ syncs' = [syncs EXCEPT ![a].pc = "fetch"]
          /\ ops' = [ops EXCEPT ![<<a, "editions">>] = Begun("editions"), ![<<a, "details">>] = Begun("details")]
      BY <1>3 DEF AfterSearch
    <2>2. "editions" \in Kinds /\ "details" \in Kinds
      BY DEF Kinds
    <2>3. OpWhole("editions", Begun("editions")) /\ OpWhole("details", Begun("details"))
      BY <2>2, BegunIs DEF OpWhole
    <2>4. ASSUME NEW b \in Attempts, NEW j \in Kinds PROVE OpWhole(j, ops'[<<b, j>>])
      <3>1. /\ b = a /\ j = "details" => ops'[<<b, j>>] = Begun("details")
            /\ b = a /\ j = "editions" => ops'[<<b, j>>] = Begun("editions")
            /\ ~(b = a /\ j \in {"details", "editions"}) => ops'[<<b, j>>] = ops[<<b, j>>]
        BY <2>1 DEF SourcesInv, SourcesTypes
      <3>2. OpWhole(j, ops[<<b, j>>])
        BY OpsAreWhole
      <3> QED BY <2>3, <3>1, <3>2
    <2>5. Begun("editions") \in Operations /\ Begun("details") \in Operations
      BY <2>3 DEF OpWhole
    <2>6. ops' \in [Attempts \X Kinds -> Operations]
      BY <2>1, <2>5 DEF SourcesInv, SourcesTypes
    <2>7. syncs' \in [Attempts -> Syncs] /\ \A b \in Attempts : syncs'[b].lost = syncs[b].lost
      BY <2>1 DEF SourcesInv, SourcesTypes, Syncs
    <2> QED BY <1>1, <1>2, <2>4, <2>6, <2>7, OpsStayWhole DEF SourcesInv, WholeSoFar
  <1>4. CASE ~on
    <2>1. PICK outcome \in {"error", "answered", "not_found"} : Finish(a, outcome)
      BY <1>4 DEF AfterSearch
    <2> QED BY <1>1, <1>2, <2>1, FinishIs, OpsStayWhole
  <1> QED BY <1>3, <1>4

LEMMA AfterFetchKeeps ==
  ASSUME SourcesInv, NEW a \in Attempts, AfterFetch(a)
  PROVE  SourcesInv'
  <1>1. source' = source /\ memory' = memory /\ owned' = owned
    BY DEF AfterFetch
  <1>2. owned' \in [Kinds \X (1..MaxParts) -> {"none", "got", "missed"}]
    BY <1>1 DEF SourcesInv, SourcesTypes
  <1>3. PICK outcome \in {"error", "synced"} : Finish(a, outcome)
    BY DEF AfterFetch
  <1> QED BY <1>1, <1>2, <1>3, FinishIs, OpsStayWhole

LEMMA ExpiryKeeps ==
  ASSUME SourcesInv, \/ \E key \in Keys : Expire(key)
                     \/ \E k \in Kinds : \E i \in Parts(k) : ExpireOwn(<<k, i>>)
  PROVE  SourcesInv'
  <1>1. source' = source /\ syncs' = syncs /\ ops' = ops
    BY DEF Expire, ExpireOwn
  <1> DEFINE gone == [held |-> FALSE, lost |-> {}, found |-> FALSE]
  <1>m. memory \in [Keys -> Remembrances] /\ gone \in Remembrances /\ gone.lost = {} /\ Forgotten = gone
    BY DEF SourcesInv, SourcesTypes, Remembrances, Forgotten
  <1>e. memory' = memory \/ \E key \in Keys : memory' = [memory EXCEPT ![key] = gone]
    BY <1>m DEF Expire, ExpireOwn
  <1> HIDE DEF gone
  <1>2. /\ memory' \in [Keys -> Remembrances]
        /\ \A key \in Keys : memory'[key].lost \subseteq memory[key].lost
    BY <1>m, <1>e
  <1>3. owned' \in [Kinds \X (1..MaxParts) -> {"none", "got", "missed"}]
    BY PlanFits DEF Expire, ExpireOwn, SourcesInv, SourcesTypes
  <1>4. (Searched' <=> Searched) /\ \A j \in Kinds : KeepsWhole(j)' <=> KeepsWhole(j)
    BY <1>1, SourceStays
  <1>5. SourcesTypes'
    BY <1>1, <1>2, <1>3 DEF SourcesInv, SourcesTypes
  <1>6. ThrownOnly'
    BY <1>1 DEF SourcesInv, ThrownOnly
  <1>7. WholeSoFar'
    BY <1>1, <1>2, <1>4 DEF SourcesInv, WholeSoFar, Keys
  <1> QED BY <1>5, <1>6, <1>7 DEF SourcesInv

LEMMA SourcesStart == SourcesInit => SourcesInv
  <1> SUFFICES ASSUME SourcesInit PROVE SourcesInv
    OBVIOUS
  <1>2. SourcesTypes
    BY NotRunIs DEF SourcesInit, SourcesTypes, Syncs, Forgotten, Remembrances
  <1>3. ThrownOnly /\ WholeSoFar
    BY NotRunIs DEF SourcesInit, ThrownOnly, WholeSoFar, Forgotten, Keys
  <1> QED BY <1>2, <1>3 DEF SourcesInv

LEMMA SourcesKeep == SourcesInv /\ [SourcesNext]_sourceVars => SourcesInv'
  <1> SUFFICES ASSUME SourcesInv, [SourcesNext]_sourceVars PROVE SourcesInv'
    OBVIOUS
  <1>1. ASSUME NEW a \in Attempts, StartSync(a) \/ AfterSearch(a) \/ AfterFetch(a) PROVE SourcesInv'
    BY <1>1, StartKeeps, AfterSearchKeeps, AfterFetchKeeps
  <1>2. ASSUME NEW a \in Attempts, NEW k \in Kinds, EndOp(a, k) PROVE SourcesInv'
    BY <1>2, EndKeeps
  <1>3. ASSUME NEW a \in Attempts, NEW k \in Kinds, NEW i \in Parts(k), TakeUp(a, k, i) \/ Receive(a, k, i)
        PROVE SourcesInv'
    BY <1>3, TakeUpKeeps, ReceiveKeeps
  <1>4. ASSUME \/ \E key \in Keys : Expire(key)
               \/ \E k \in Kinds : \E i \in Parts(k) : ExpireOwn(<<k, i>>)
        PROVE SourcesInv'
    BY <1>4, ExpiryKeeps
  <1>5. CASE UNCHANGED sourceVars
    BY <1>5 DEF sourceVars, SourcesInv, SourcesTypes, ThrownOnly, WholeSoFar, Searched, KeepsWhole, PlanOf
  <1> QED BY <1>1, <1>2, <1>3, <1>4, <1>5 DEF SourcesNext

LEMMA SourcesAreSafe == SourcesSpec => []SourcesInv
  BY SourcesStart, SourcesKeep, PTL DEF SourcesSpec

LEMMA SourcesInvTypes == ASSUME SourcesInv PROVE SourcesTypeOK
  <1>1. ASSUME NEW o \in Attempts \X Kinds
        PROVE  /\ ops[o].pc \in {"idle", "run", "done", "failed"} /\ ops[o].found \in BOOLEAN
               /\ ops[o].lost \subseteq 1..MaxParts
               /\ \A i \in DOMAIN ops[o].parts : ops[o].parts[i] \in Marks
    <2>1. ops[o] \in Operations
      BY DEF SourcesInv, SourcesTypes
    <2>2. PICK S \in SUBSET (1..MaxParts) : ops[o].parts \in [S -> Marks]
      BY <2>1 DEF Operations, PartMarks
    <2> QED BY <2>1, <2>2 DEF Operations
  <1> QED BY <1>1 DEF SourcesInv, SourcesTypes, ThrownOnly, SourcesTypeOK, Syncs, Remembrances, Marks

(* Syncs, operations and what is remembered of them keep their types, for  *)
(* any adapters, any number of syncs of the book and any entries that       *)
(* expire.                                                                 *)
THEOREM SourcesTypeCorrect == SourcesSpec => []SourcesTypeOK
  BY SourcesInvTypes, SourcesAreSafe, PTL

(* A sync that ends in "not_found" was told so by the source, now or as    *)
(* remembered, and a catalogue's remembered records hold every lookup made  *)
(* for them: no request that failed is ever taken for an empty answer.      *)
THEOREM NotFoundIsAnAnswer == SourcesSpec => []OnlyWholeIsKept
  <1>1. SourcesInv => OnlyWholeIsKept
    BY DEF SourcesInv, WholeSoFar, OnlyWholeIsKept, Searched
  <1> QED BY <1>1, SourcesAreSafe, PTL

-----------------------------------------------------------------------------
(* What the adapters see of their fetches: the breaker implements Fetch,   *)
(* step by step.                                                           *)

(* What an adapter sees of its fetch while it is under way, or over.       *)
Said == {"pending", "ok", "client", "down"}
AllSaid == \A c \in Callers : fetches[c].pc = "idle" \/ Seen(fetches[c]) \in Said

LEMMA ToldIs ==
  /\ Told = [c \in Callers |-> Seen(fetches[c])]
  /\ Told' = [c \in Callers |-> Seen(fetches'[c])]
  BY DEF Told

LEMMA MissedSays ==
  ASSUME NEW fetch \in Fetches
  PROVE  Seen(Missed(fetch)) \in {"pending", "down"}
  BY DEF Seen, Missed, Underway, Ended

LEMMA AdmittedSays ==
  ASSUME NEW fetch \in Fetches, NEW b \in Breakers
  PROVE  Seen(Admitted(fetch, b)) \in {"pending", "down"}
  <1>1. CASE b.state = "open"
    <2>1. Admitted(fetch, b) = Missed(fetch)
      BY <1>1 DEF Admitted
    <2> QED BY <2>1, MissedSays
  <1>2. CASE b.state \in {"closed", "cooled"}
    <2>1. PICK trial : Admitted(fetch, b) = Underway("fly", fetch.left, trial, NoOne)
      BY <1>2 DEF Admitted
    <2>2. Underway("fly", fetch.left, trial, NoOne).pc = "fly"
      BY DEF Underway
    <2> QED BY <2>1, <2>2 DEF Seen
  <1>3. CASE b.state = "half"
    <2>1. Admitted(fetch, b) = Underway("wait", fetch.left, FALSE, b.tester)
      BY <1>3 DEF Admitted
    <2>2. Underway("wait", fetch.left, FALSE, b.tester).pc = "wait"
      BY DEF Underway
    <2> QED BY <2>1, <2>2 DEF Seen
  <1> QED BY <1>1, <1>2, <1>3 DEF Breakers

(* One fetch is asked, or waits on or is refused: the others are as they were. *)
LEMMA AttemptSays ==
  ASSUME BreakerInv, AllSaid, NEW c \in Callers, NEW fetch \in Fetches, Attempt(c, fetch),
         Seen(fetches[c]) \in {"none", "pending"}
  PROVE  /\ AllSaid'
         /\ Seen(fetches[c]) = "none" => Promised!Ask(c)
         /\ Seen(fetches[c]) = "pending" => Told' = Told \/ Promised!Answer({c})
  <1>1. breakers[FetcherOf[c]] \in Breakers
    BY FetchersAreAsked DEF BreakerInv, BreakerTypeOK
  <1>2. PICK row : row = Admitted(fetch, breakers[FetcherOf[c]])
    OBVIOUS
  <1>3. PICK now : now = Seen(row)
    OBVIOUS
  <1>4. now \in {"pending", "down"}
    BY <1>1, <1>2, <1>3, AdmittedSays
  <1>5. fetches'[c] = row /\ \A d \in Callers \ {c} : fetches'[d] = fetches[d]
    BY <1>2 DEF Attempt, BreakerInv, BreakerTypeOK
  <1>6. Told' = [Told EXCEPT ![c] = now] /\ Told[c] = Seen(fetches[c])
    BY <1>3, <1>5, ToldIs
  <1>7. AllSaid'
    BY <1>3, <1>4, <1>5 DEF AllSaid, Said
  <1>8. Seen(fetches[c]) = "none" => Promised!Ask(c)
    BY <1>4, <1>6 DEF Promised!Ask
  <1>9. ASSUME Seen(fetches[c]) = "pending", now = "pending" PROVE Told' = Told
    BY <1>6, <1>9, ToldIs
  <1>10. ASSUME Seen(fetches[c]) = "pending", now = "down" PROVE Promised!Answer({c})
    <2>1. PICK a : a = [r \in {c} |-> now]
      OBVIOUS
    <2>2. a \in [{c} -> Promised!Answers] /\ a[c] = now
      BY <1>10, <2>1 DEF Promised!Answers
    <2>3. Told' = [r \in Callers |-> IF r \in {c} THEN a[r] ELSE Told[r]]
      BY <1>6, <2>2, ToldIs
    <2> QED BY <1>6, <1>10, <2>2, <2>3 DEF Promised!Answer
  <1> QED BY <1>4, <1>7, <1>8, <1>9, <1>10

(* An answer, or none yet, for the one that returned and those behind it. *)
LEMMA ReturnSays ==
  ASSUME BreakerInv, AllSaid, NEW c \in Callers, NEW outcome \in Outcomes, Return(c, outcome)
  PROVE  AllSaid' /\ (Told' = Told \/ \E R \in SUBSET Callers : Promised!Answer(R))
  <1> DEFINE f == FetcherOf[c]
             all == Waiting(c) \cup {c}
  <1>1. f \in Fetchers /\ breakers[f] \in Breakers /\ fetches[c] \in Fetches /\ fetches[c].pc = "fly"
    BY FetchersAreAsked DEF BreakerInv, BreakerTypeOK, Return
  <1>2. PICK this : this = IF CountsAsFailure(outcome) THEN Missed(fetches[c]) ELSE Ended(outcome)
    OBVIOUS
  <1>3. PICK b : b = IF CountsAsFailure(outcome) THEN Failing(breakers[f], fetches[c].trial)
                     ELSE Passing(breakers[f], fetches[c].trial)
    OBVIOUS
  <1>4. PICK first \in Waiting(c) \cup {c} :
          /\ first = c => Waiting(c) = {}
          /\ fetches' = [d \in Callers |->
                           IF d = c THEN this
                           ELSE IF d \notin Waiting(c) THEN fetches[d]
                           ELSE Admitted(fetches[d], IF d = first THEN b ELSE TriedBy(first, b))]
    BY <1>2, <1>3, Zenon DEF Return
  <1>5. b \in Breakers
    <2>1. fetches[c].trial = TRUE \/ fetches[c].trial = FALSE
      BY <1>1 DEF Fetches
    <2> QED BY <1>1, <1>3, <2>1, FailingIs, PassingIs
  <1>6. first \in Callers
    BY <1>4 DEF Waiting
  <1>7. TriedBy(first, b) \in Breakers
    BY <1>5, <1>6, TriedByIs
  <1>8. Seen(this) \in Said
    <2>1. CASE CountsAsFailure(outcome)
      BY <1>1, <1>2, <2>1, MissedSays DEF Said
    <2>2. CASE ~CountsAsFailure(outcome)
      BY <1>2, <2>2 DEF CountsAsFailure, Outcomes, Seen, Ended, Said
    <2> QED BY <2>1, <2>2
  <1>9. ASSUME NEW d \in all PROVE Seen(fetches[d]) = "pending" /\ Seen(fetches'[d]) \in Said
    <2>1. d \in Callers /\ fetches[d] \in Fetches /\ fetches[d].pc \in {"fly", "wait"}
      BY <1>1, <1>9 DEF Waiting, BreakerInv, BreakerTypeOK
    <2>2. Seen(fetches[d]) = "pending"
      BY <2>1 DEF Seen
    <2>3. CASE d = c
      BY <1>4, <1>8, <2>2, <2>3
    <2>4. CASE d # c
      <3>1. d \in Waiting(c) /\ fetches'[d] = Admitted(fetches[d], IF d = first THEN b ELSE TriedBy(first, b))
        BY <1>4, <1>9, <2>1, <2>4
      <3> QED BY <1>5, <1>7, <2>1, <2>2, <3>1, AdmittedSays DEF Said
    <2> QED BY <2>3, <2>4
  <1>10. \A d \in Callers \ all : fetches'[d] = fetches[d]
    BY <1>4
  <1>11. all \subseteq Callers
    BY DEF Waiting
  <1>12. AllSaid'
    BY <1>9, <1>10 DEF AllSaid
  <1>13. PICK R : R = {d \in all : Seen(fetches'[d]) # "pending"}
    OBVIOUS
  <1>14. \A r \in R : Told[r] = "pending" /\ r \in Callers
    BY <1>9, <1>11, <1>13, ToldIs
  <1>15. CASE R = {}
    <2>1. ASSUME NEW d \in Callers PROVE Seen(fetches'[d]) = Seen(fetches[d])
      <3>1. CASE d \in all
        BY <1>9, <1>13, <1>15, <3>1
      <3>2. CASE d \notin all
        BY <1>10, <3>2
      <3> QED BY <3>1, <3>2
    <2>2. Told' = Told
      BY <2>1, ToldIs
    <2> QED BY <1>12, <2>2
  <1>16. CASE R # {}
    <2>1. PICK a : a = [r \in R |-> Seen(fetches'[r])]
      OBVIOUS
    <2>2. a \in [R -> Promised!Answers]
      BY <1>9, <1>13, <2>1 DEF Promised!Answers, Said
    <2>3. Told' = [r \in Callers |-> IF r \in R THEN a[r] ELSE Told[r]]
      BY <1>9, <1>10, <1>13, <2>1, ToldIs
    <2> QED BY <1>12, <1>14, <1>16, <2>2, <2>3 DEF Promised!Answer
  <1> QED BY <1>12, <1>15, <1>16

LEMMA StepsSay ==
  ASSUME BreakerInv, AllSaid, [BreakerNext]_breakerVars
  PROVE  AllSaid' /\ [Promised!FetchNext]_Told
  <1>1. ASSUME NEW c \in Callers, StartFetch(c) PROVE AllSaid' /\ Promised!FetchNext
    <2>1. Underway("idle", Tries, FALSE, NoOne) \in Fetches
      BY BreakerAssumption DEF Underway, Fetches
    <2>2. Seen(fetches[c]) = "none"
      BY <1>1 DEF StartFetch, Seen
    <2>3. AllSaid' /\ Promised!Ask(c)
      BY <1>1, <2>1, <2>2, AttemptSays DEF StartFetch
    <2> QED BY <2>3 DEF Promised!FetchNext
  <1>2. ASSUME NEW c \in Callers, Backoff(c) PROVE AllSaid' /\ [Promised!FetchNext]_Told
    <2>1. fetches[c] \in Fetches
      BY DEF BreakerInv, BreakerTypeOK
    <2>2. Seen(fetches[c]) = "pending"
      BY <1>2 DEF Backoff, Seen
    <2>3. AllSaid' /\ (Told' = Told \/ Promised!Answer({c}))
      BY <1>2, <2>1, <2>2, AttemptSays DEF Backoff
    <2> QED BY <2>3 DEF Promised!FetchNext
  <1>3. ASSUME NEW c \in Callers, Settle(c) PROVE AllSaid' /\ [Promised!FetchNext]_Told
    <2>1. AllSaid' /\ (Told' = Told \/ \E R \in SUBSET Callers : Promised!Answer(R))
      BY <1>3, ReturnSays DEF Settle
    <2> QED BY <2>1 DEF Promised!FetchNext
  <1>4. ASSUME NEW c \in Callers, TakeAnswer(c) PROVE AllSaid' /\ Promised!FetchNext
    <2>1. fetches[c].pc = "ended" /\ fetches' = [fetches EXCEPT ![c] = Quiet]
      BY <1>4 DEF TakeAnswer
    <2>2. Quiet.pc = "idle" /\ Seen(Quiet) = "none"
      BY DEF Quiet, Underway, Seen
    <2>3. Seen(fetches[c]) = fetches[c].answer
      BY <2>1 DEF Seen
    <2>4. fetches[c].answer \in {"ok", "client", "down"}
      BY <2>1, <2>3 DEF AllSaid, Said, BreakerInv, BreakerTypeOK, Fetches
    <2>5. fetches'[c] = Quiet /\ \A d \in Callers \ {c} : fetches'[d] = fetches[d]
      BY <2>1 DEF BreakerInv, BreakerTypeOK
    <2>6. AllSaid'
      BY <2>2, <2>5 DEF AllSaid
    <2>7. Told' = [Told EXCEPT ![c] = "none"] /\ Told[c] = fetches[c].answer
      BY <2>2, <2>3, <2>5, ToldIs
    <2>8. Promised!Take(c)
      BY <2>4, <2>7 DEF Promised!Take, Promised!Answers
    <2> QED BY <2>6, <2>8 DEF Promised!FetchNext
  <1>5. ASSUME fetches' = fetches PROVE AllSaid' /\ Told' = Told
    BY <1>5 DEF AllSaid, Told
  <1> QED BY <1>1, <1>2, <1>3, <1>4, <1>5 DEF BreakerNext, breakerVars, CoolDown, FallSick, Recover

(* Whatever breaks, cools or waits for another's trial, a fetch is asked   *)
(* before it is answered, answered once, and not asked again before its    *)
(* answer was taken (ResilientFetcher.fetch).  That it is answered at all  *)
(* is the other half of EveryFetchIsAnswered.                              *)
THEOREM FetchesAreAnsweredOnce == BreakerSpec => Promised!FetchSafety
  <1>1. BreakerInit => AllSaid /\ Promised!FetchInit
    <2>1. Quiet.pc = "idle" /\ Seen(Quiet) = "none"
      BY DEF Quiet, Underway, Seen
    <2> QED BY <2>1 DEF BreakerInit, AllSaid, Promised!FetchInit, Told
  <1>2. BreakerInv /\ AllSaid /\ [BreakerNext]_breakerVars => AllSaid' /\ [Promised!FetchNext]_Told
    BY StepsSay
  <1> QED BY <1>1, <1>2, BreakerIsSafe, PTL DEF BreakerSpec, Promised!FetchSafety

-----------------------------------------------------------------------------
(* The shelves that fill. *)

(* The queue they fill, with what is proved of any queue.                  *)
QS == INSTANCE JobQueueSafety WITH
  JobIds <- Jobs, Payloads <- {"query"}, Consumers <- {Worker}, MaxAttempts <- JobTries,
  jobs <- shelfJobs, wait <- shelfWait, prioritized <- shelfPrioritized

Places == ({"backfill-subject"} \X DOMAIN Subject) \cup ({"backfill-featured"} \X DOMAIN FEATURED_BOOKS)
ShelfPages == [books : SUBSET Books, filling : BOOLEAN, there : BOOLEAN]
PageRequests == [pc : {"idle", "queueing"}, seen : SUBSET Findable, todo : SUBSET Places]
ShelvesTypes ==
  /\ visited \subseteq PageKinds /\ catalog \subseteq Findable /\ outages \in 0..MaxOutages
  /\ pages \in [PageKinds -> ShelfPages]
  /\ asking \in [PageKinds -> PageRequests]
ShelvesInv == ShelvesTypes /\ QS!QueueInv

LEMMA PlacesHaveJobs == ASSUME NEW place \in Places PROVE JobAt(place) \in Jobs
  <1>1. CASE place \in {"backfill-subject"} \X DOMAIN Subject
    BY <1>1 DEF JobAt, Jobs, Books, OfSubject
  <1>2. CASE place \in {"backfill-featured"} \X DOMAIN FEATURED_BOOKS
    BY <1>2 DEF JobAt, Jobs, Books, Entries
  <1> QED BY <1>1, <1>2 DEF Places

LEMMA QueueStays ==
  ASSUME QS!QueueInv, UNCHANGED queue
  PROVE  QS!QueueInv'
  BY QS!QueueStutters, ShelvesAssumption DEF queue, QS!queueVars, QS!QueueAssumption, QS!Nobody, Worker

LEMMA ShelvesStart == ShelvesInit => ShelvesInv
  <1>1. ASSUME ShelvesInit PROVE QS!QueueInv
    BY <1>1, ShelvesAssumption, QS!QueueStarts
       DEF ShelvesInit, Queue!QueueInit, QS!QueueInit, Queue!Absent, QS!Absent, Queue!Nobody, QS!Nobody,
           Queue!NoPayload, QS!NoPayload, QS!QueueAssumption, Worker
  <1>2. ASSUME ShelvesInit PROVE ShelvesTypes
    BY <1>2 DEF ShelvesInit, ShelvesTypes, NoPage, NoRequest, ShelfPages, PageRequests
  <1> QED BY <1>1, <1>2 DEF ShelvesInv

LEMMA ReadKeeps ==
  ASSUME ShelvesInv, NEW shelf \in PageKinds, ReadShelf(shelf)
  PROVE  ShelvesInv'
  <1>1. PICK more \in {TRUE, FALSE} :
          /\ more \/ (Thin(shelf, catalog) /\ outages > 0)
          /\ outages' = IF more THEN outages ELSE outages - 1
          /\ asking' = [asking EXCEPT ![shelf] =
               [pc |-> "queueing", seen |-> catalog,
                todo |-> ({"backfill-subject"} \X (IF more THEN MoreOfSubject(shelf, catalog) ELSE {}))
                           \cup ({"backfill-featured"} \X (IF shelf = "genre" THEN {} ELSE FirstMissing(catalog)))]]
    BY DEF ReadShelf
  <1>2. PICK todo : todo = ({"backfill-subject"} \X (IF more THEN MoreOfSubject(shelf, catalog) ELSE {}))
                           \cup ({"backfill-featured"} \X (IF shelf = "genre" THEN {} ELSE FirstMissing(catalog)))
    OBVIOUS
  <1>3. todo \subseteq Places
    BY <1>2 DEF Places, MoreOfSubject, FirstMissing, Missing
  <1>4. [pc |-> "queueing", seen |-> catalog, todo |-> todo] \in PageRequests
    BY <1>3 DEF ShelvesInv, ShelvesTypes, PageRequests
  <1>5. asking' \in [PageKinds -> PageRequests]
    BY <1>1, <1>2, <1>4 DEF ShelvesInv, ShelvesTypes
  <1>6. outages' \in 0..MaxOutages
    BY <1>1, ShelvesAssumption DEF ShelvesInv, ShelvesTypes
  <1>7. ShelvesTypes'
    BY <1>5, <1>6 DEF ReadShelf, ShelvesInv, ShelvesTypes
  <1> QED BY <1>7, QueueStays DEF ReadShelf, ShelvesInv

(* A request goes on with less left to queue. *)
LEMMA LessToDo ==
  ASSUME ShelvesTypes, NEW shelf \in PageKinds, NEW todo, todo \subseteq asking[shelf].todo,
         asking' = [asking EXCEPT ![shelf].todo = todo]
  PROVE  asking' \in [PageKinds -> PageRequests]
  <1>1. asking[shelf] \in PageRequests
    BY DEF ShelvesTypes
  <1>2. PICK r : r = [asking[shelf] EXCEPT !.todo = todo]
    OBVIOUS
  <1>3. r = [pc |-> asking[shelf].pc, seen |-> asking[shelf].seen, todo |-> todo]
    BY <1>1, <1>2 DEF PageRequests
  <1>4. r \in PageRequests
    BY <1>1, <1>3 DEF PageRequests
  <1>5. asking' = [asking EXCEPT ![shelf] = r]
    BY <1>2
  <1> QED BY <1>4, <1>5 DEF ShelvesTypes

LEMMA PageStepsKeep ==
  ASSUME ShelvesInv, NEW shelf \in PageKinds,
         QueueNext(shelf) \/ RefuseSubject(shelf) \/ AnswerPage(shelf) \/ AskingFails(shelf) \/ PageExpires(shelf)
  PROVE  ShelvesInv'
  <1>1. CASE QueueNext(shelf)
    <2>1. PICK place \in asking[shelf].todo :
            /\ Queue!Enqueue(JobAt(place), "query", TRUE)
            /\ asking' = [asking EXCEPT ![shelf].todo = @ \ {place}]
      BY <1>1 DEF QueueNext
    <2>2. asking[shelf].todo \subseteq Places
      BY DEF ShelvesInv, ShelvesTypes, PageRequests
    <2>3. asking' \in [PageKinds -> PageRequests]
      <3>1. PICK todo : todo = asking[shelf].todo \ {place}
        OBVIOUS
      <3>2. asking' = [asking EXCEPT ![shelf].todo = todo]
        BY <2>1, <3>1
      <3>3. todo \subseteq asking[shelf].todo
        BY <3>1
      <3> QED BY <3>2, <3>3, LessToDo DEF ShelvesInv
    <2>4. JobAt(place) \in Jobs
      BY <2>1, <2>2, PlacesHaveJobs
    <2>5. QS!Enqueue(JobAt(place), "query", TRUE)
      BY <2>1 DEF Queue!Enqueue, QS!Enqueue, Queue!Absent, QS!Absent, Queue!Nobody, QS!Nobody,
                  Queue!NoPayload, QS!NoPayload, Queue!Push, QS!Push, Queue!queueVars, QS!queueVars
    <2>6. QS!QueueInv'
      BY <2>4, <2>5, QS!EnqueueKeeps, ShelvesAssumption DEF ShelvesInv, QS!QueueAssumption, QS!Nobody, Worker
    <2> QED BY <1>1, <2>3, <2>6 DEF QueueNext, ShelvesInv, ShelvesTypes
  <1>2. CASE RefuseSubject(shelf)
    <2>1. PICK todo : /\ todo = {place \in asking[shelf].todo : place[1] = "backfill-featured"}
                      /\ asking' = [asking EXCEPT ![shelf].todo = todo]
      BY <1>2 DEF RefuseSubject
    <2>2. asking' \in [PageKinds -> PageRequests]
      <3>1. todo \subseteq asking[shelf].todo
        BY <2>1
      <3> QED BY <2>1, <3>1, LessToDo DEF ShelvesInv
    <2>3. outages' \in 0..MaxOutages
      BY <1>2, ShelvesAssumption DEF RefuseSubject, ShelvesInv, ShelvesTypes
    <2> QED BY <1>2, <2>2, <2>3, QueueStays DEF RefuseSubject, ShelvesInv, ShelvesTypes
  <1>3. CASE AnswerPage(shelf)
    <2>1. PICK shown : /\ shown = [books |-> asking[shelf].seen \cap Lists(shelf),
                                   filling |-> Filling(shelf, asking[shelf].seen), there |-> TRUE]
                       /\ pages' = [pages EXCEPT ![shelf] = shown]
      BY <1>3 DEF AnswerPage
    <2>2. shown \in ShelfPages
      BY <2>1 DEF ShelfPages, Lists, Books, Filling, Thin
    <2>3. NoRequest \in PageRequests
      BY DEF NoRequest, PageRequests
    <2> QED BY <1>3, <2>1, <2>2, <2>3, QueueStays DEF AnswerPage, ShelvesInv, ShelvesTypes
  <1>4. CASE AskingFails(shelf)
    <2>1. NoRequest \in PageRequests
      BY DEF NoRequest, PageRequests
    <2>2. outages' \in 0..MaxOutages
      BY <1>4, ShelvesAssumption DEF AskingFails, ShelvesInv, ShelvesTypes
    <2> QED BY <1>4, <2>1, <2>2, QueueStays DEF AskingFails, ShelvesInv, ShelvesTypes
  <1>5. CASE PageExpires(shelf)
    <2>1. NoPage \in ShelfPages
      BY DEF NoPage, ShelfPages
    <2> QED BY <1>5, <2>1, QueueStays DEF PageExpires, ShelvesInv, ShelvesTypes
  <1> QED BY <1>1, <1>2, <1>3, <1>4, <1>5

LEMMA WorkerStepsKeep ==
  ASSUME ShelvesInv, TakeJob \/ Backfilled \/ BackfillFails \/ ForgetFinished \/ \E id \in Jobs : JobBackoff(id)
  PROVE  ShelvesInv'
  <1> USE ShelvesAssumption DEF QS!QueueAssumption, QS!Nobody, Worker
  <1>1. CASE TakeJob
    <2>1. PICK id \in Jobs : Queue!Take(Worker, id)
      BY <1>1 DEF TakeJob
    <2>2. QS!Take(Worker, id)
      BY <2>1 DEF Queue!Take, QS!Take
    <2>3. QS!QueueInv'
      BY <2>2, QS!TakeKeeps DEF ShelvesInv
    <2> QED BY <1>1, <2>3 DEF TakeJob, ShelvesInv, ShelvesTypes
  <1>2. CASE Backfilled
    <2>1. PICK id \in Running : catalog' = catalog \cup ({id[2]} \cap Findable) /\ Queue!Complete(Worker, id)
      BY <1>2 DEF Backfilled
    <2>2. id \in Jobs /\ QS!Complete(Worker, id)
      BY <2>1 DEF Running, Queue!Complete, QS!Complete, Queue!Settle, QS!Settle, Queue!Owns, QS!Owns, Queue!Nobody
    <2>3. QS!QueueInv'
      BY <2>2, QS!CompleteKeeps DEF ShelvesInv
    <2> QED BY <1>2, <2>1, <2>3 DEF Backfilled, ShelvesInv, ShelvesTypes
  <1>3. CASE BackfillFails
    <2>1. PICK id \in Running : Queue!FailAttempt(Worker, id)
      BY <1>3 DEF BackfillFails
    <2>2. id \in Jobs /\ QS!FailAttempt(Worker, id)
      BY <2>1 DEF Running, Queue!FailAttempt, QS!FailAttempt, Queue!Settle, QS!Settle, Queue!Owns, QS!Owns,
                  Queue!LastAttempt, QS!LastAttempt, Queue!Nobody
    <2>3. QS!QueueInv'
      BY <2>2, QS!FailAttemptKeeps DEF ShelvesInv
    <2>4. outages' \in 0..MaxOutages
      BY <1>3 DEF BackfillFails, ShelvesInv, ShelvesTypes
    <2> QED BY <1>3, <2>3, <2>4 DEF BackfillFails, ShelvesInv, ShelvesTypes
  <1>4. CASE ForgetFinished
    <2>1. /\ UNCHANGED <<shelfWait, shelfPrioritized>>
          /\ shelfJobs' = [id \in Jobs |-> IF shelfJobs[id].state \in {"completed", "failed"}
                                           THEN QS!Absent ELSE shelfJobs[id]]
      BY <1>4 DEF ForgetFinished, Finished, Queue!Absent, QS!Absent, Queue!Nobody, Queue!NoPayload, QS!NoPayload
    <2>2. QS!QueueInv'
      BY <2>1, QS!AgeAllKeeps DEF ShelvesInv
    <2> QED BY <1>4, <2>2 DEF ForgetFinished, ShelvesInv, ShelvesTypes
  <1>5. ASSUME NEW id \in Jobs, JobBackoff(id) PROVE ShelvesInv'
    <2>1. QS!BackoffOver(id)
      BY <1>5 DEF JobBackoff, Queue!BackoffOver, QS!BackoffOver, Queue!Push, QS!Push
    <2>2. QS!QueueInv'
      BY <2>1, QS!BackoffOverKeeps DEF ShelvesInv
    <2> QED BY <1>5, <2>2 DEF JobBackoff, ShelvesInv, ShelvesTypes
  <1> QED BY <1>1, <1>2, <1>3, <1>4, <1>5

LEMMA ShelvesKeep == ASSUME ShelvesInv, [ShelvesNext]_shelfVars PROVE ShelvesInv'
  <1>1. CASE UNCHANGED shelfVars
    BY <1>1, QueueStays DEF shelfVars, queue, ShelvesInv, ShelvesTypes
  <1>2. CASE ShelvesNext
    BY <1>2, ReadKeeps, PageStepsKeep, WorkerStepsKeep DEF ShelvesNext
  <1> QED BY <1>1, <1>2

LEMMA ShelvesInvTypes == ShelvesInv => ShelvesTypeOK
  <1>1. QS!QueueInv => Queue!QueueTypeOK /\ Queue!QueueConsistent
    BY DEF QS!QueueInv, QS!QueueTypeOK, QS!QueueConsistent, Queue!QueueTypeOK, Queue!QueueConsistent,
           QS!QueuedJob, Queue!QueuedJob, QS!Nobody, Queue!Nobody, QS!NoPayload, Queue!NoPayload,
           QS!WaitsOnce, Queue!WaitsOnce, QS!Distinct, Queue!Distinct, QS!Entries, Queue!Entries,
           QS!Waiting, Queue!Waiting, QS!HeldWhileActive, Queue!HeldWhileActive,
           QS!AttemptsLeft, Queue!AttemptsLeft
  <1>2. ShelvesTypes => \A k \in PageKinds : pages[k].books \subseteq Books /\ pages[k].filling \in BOOLEAN
    BY DEF ShelvesTypes, ShelfPages
  <1> QED BY <1>1, <1>2 DEF ShelvesInv, ShelvesTypes, ShelvesTypeOK

(* Pages, requests and the jobs they queue keep their types, and a job     *)
(* waits once, exactly while it is waiting: for any books, lists, kinds of *)
(* page, limits and outages.                                               *)
THEOREM ShelvesTypeCorrect == ShelvesSpec => []ShelvesTypeOK
  BY ShelvesInvTypes, ShelvesStart, ShelvesKeep, PTL DEF ShelvesSpec

-----------------------------------------------------------------------------
(* All of it together: one scene goes on while the others stand still.     *)

OutsideInv == BreakerInv /\ SourcesInv /\ HostInv /\ ToldOK /\ ListOK /\ ShelvesInv

(* An earlier sync that is over leaves nothing under way.                  *)
LEMMA SourcesStartAgain == OpenLibraryAgain => SourcesInv
  <1> SUFFICES ASSUME OpenLibraryAgain PROVE SourcesInv
    OBVIOUS
  <1>1. \A a \in Attempts : [pc |-> IF a < MaxSyncs THEN "done" ELSE "idle", outcome |-> "none", lost |-> {}] \in Syncs
    BY DEF Syncs
  <1>2. owned \in [Kinds \X (1..MaxParts) -> {"none", "got", "missed"}]
    BY DEF OpenLibraryAgain
  <1>3. SourcesTypes
    BY <1>1, <1>2, NotRunIs DEF OpenLibraryAgain, SourcesTypes, Forgotten, Remembrances
  <1>4. ThrownOnly /\ WholeSoFar
    BY NotRunIs DEF OpenLibraryAgain, ThrownOnly, WholeSoFar, Forgotten, Keys
  <1> QED BY <1>3, <1>4 DEF SourcesInv

LEMMA OutsideStarts == Init => OutsideInv
  <1>1. AddonsInit => HostInv /\ ToldOK /\ ListOK
    BY HostStarts, AddonsAssumption DEF AddonsInit, ToldOK, ListOK, AnswersFit
  <1>2. Init => BreakerInit /\ AddonsInit /\ ShelvesInit /\ (SourcesInit \/ OpenLibraryAgain)
    BY DEF Init, BreakerStill, SourcesStill, AddonsStill, ShelvesStill
  <1> QED BY <1>1, <1>2, BreakerStarts, SourcesStart, SourcesStartAgain, ShelvesStart DEF OutsideInv

LEMMA OutsideKeeps == OutsideInv /\ [Next]_allVars => OutsideInv'
  <1> SUFFICES ASSUME OutsideInv, [Next]_allVars PROVE OutsideInv'
    OBVIOUS
  <1>1. /\ [BreakerNext]_breakerVars /\ [SourcesNext]_sourceVars
        /\ [AddonsNext]_hostVars /\ [ShelvesNext]_shelfVars
    BY DEF Next, allVars
  <1> QED BY <1>1, BreakerKeeps, SourcesKeep, HostKeeps, ToldKeeps, ListKeeps, ShelvesKeep DEF OutsideInv

(* Whatever talks to the outside keeps its types, a sync that finds what   *)
(* an earlier one left included.                                           *)
THEOREM OutsideTypeCorrect == Spec => []OutsideTypeOK
  <1>1. OutsideInv => OutsideTypeOK
    BY SourcesInvTypes, AddonsInvTypes, ShelvesInvTypes DEF OutsideInv, OutsideTypeOK, BreakerInv
  <1> QED BY <1>1, OutsideStarts, OutsideKeeps, PTL DEF Spec
=============================================================================
