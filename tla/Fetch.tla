------------------------------- MODULE Fetch -------------------------------
(***************************************************************************)
(* What a source adapter may rely on when it calls ResilientFetcher.fetch: *)
(* a request it starts is answered, once, with a response or with an       *)
(* exception; nothing is said about which.                                 *)
(***************************************************************************)
CONSTANT Requests
VARIABLE answer          \* request -> "none", "pending" or one of Answers

Answers == {"ok", "client", "down"}      \* 2xx, 4xx, thrown

FetchInit == answer = [r \in Requests |-> "none"]
\* A fetch that may not try again is refused at once, if at all.
Ask(r)  == answer[r] = "none" /\ \E now \in {"pending", "down"} : answer' = [answer EXCEPT ![r] = now]
Take(r) == answer[r] \in Answers /\ answer' = [answer EXCEPT ![r] = "none"]

\* Requests that waited for one trial of a service are answered together.
Answer(R) ==
  /\ R # {} /\ \A r \in R : answer[r] = "pending"
  /\ \E a \in [R -> Answers] : answer' = [r \in Requests |-> IF r \in R THEN a[r] ELSE answer[r]]

FetchNext == (\E r \in Requests : Ask(r) \/ Take(r)) \/ (\E R \in SUBSET Requests : Answer(R))
FetchSafety == FetchInit /\ [][FetchNext]_answer
FetchSpec ==
  /\ FetchSafety
  /\ \A r \in Requests : (answer[r] = "pending") ~> (answer[r] \in Answers)
=============================================================================
