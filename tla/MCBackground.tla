---------------------------- MODULE MCBackground ----------------------------
(***************************************************************************)
(* TLC instance of what goes on while nobody looks: two sources of one     *)
(* book synced under requests for its pages, and the two producers of the  *)
(* sync queue.  They share no variable, so a behaviour is one scene's and  *)
(* the other stands still.                                                 *)
(***************************************************************************)
EXTENDS WorkPages, SyncQueue

Edition(ext, k, ls) == [ext |-> ext, isbn |-> TRUE, k |-> k, parses |-> TRUE, links |-> ls]

(* Two works whose edition lists name the same two ISBNs in opposite       *)
(* orders, so their syncs deadlock, and whose second edition has a link.   *)
Crossed ==
  [s \in {"open-library", "dnb"} |->
     IF s = "open-library"
     THEN {[ext |-> "OL1", key |-> "k1",
            eds |-> <<Edition("OL1M", "isbn1", {"borrow"}), Edition("OL2M", "isbn2", {})>>]}
     ELSE {[ext |-> "D1", key |-> "k2",
            eds |-> <<Edition("D2M", "isbn2", {}), Edition("D1M", "isbn1", {"read"})>>]}]

\* Two sources: one discovers, one enriches; or one does both.
Apart == <<"gutenberg">>
Enrichment == <<"dnb">>
Both == <<"gutenberg", "dnb">>
Answering == {<<"gutenberg", "w1">>, <<"dnb", "w1">>, <<"dnb", "w2">>}    \* nobody knows w3
Lying == {<<"w1", "w2", "w3">>, <<"w2">>, <<>>}

\* One request's words, typed in two ways.
Typed == {<<"gutenberg", "Laur">>, <<"gutenberg", "laur ">>}
Words == [q \in {"Laur", "laur "} |-> "laur"]
QueueIds == {"gutenberg", "dnb"} \X Works \X (0..1) \cup {"gutenberg"} \X {"laur"} \X (0..1)

\* Three works and no request; or fewer works, requests and faults.
AnyNight ==
  \/ Len(order) = 3 /\ left = 0 /\ stale = 3 /\ faults = 0
  \/ Len(order) = 0 /\ left = 2 /\ faults = 1
  \/ Len(order) = 1 /\ left = 0
NoNight == Len(order) = 0 /\ left = 0 /\ faults = 0

VARIABLE scene
backgroundVars == <<scene, allVars, queueVars, syncVars>>

BackgroundInit ==
  /\ PagesInit /\ SyncQueueInit
  /\ \/ scene = "pages" /\ NoNight
     \/ scene = "queue" /\ AnyNight
BackgroundNext ==
  /\ UNCHANGED scene
  /\ \/ scene = "pages" /\ PagesNext /\ UNCHANGED <<queueVars, syncVars>>
     \/ scene = "queue" /\ SyncQueueNext /\ UNCHANGED allVars
BackgroundSpec == BackgroundInit /\ [][BackgroundNext]_backgroundVars

(* What is fair of the queue where there is one; nobody has to post or to  *)
(* die.                                                                    *)
QueueFairness ==
  /\ WF_<<queueVars, syncVars>>(scene = "queue" /\ PassGoesOn)
  /\ WF_<<queueVars, syncVars>>(scene = "queue" /\ Midnight)
  /\ WF_<<queueVars, syncVars>>(scene = "queue" /\ PostGoesOn)
  /\ WF_<<queueVars, syncVars>>(scene = "queue" /\ WorkerGoesOn)
  /\ WF_<<queueVars, syncVars>>(scene = "queue" /\ SyncJobsAge)
BackgroundFairSpec == BackgroundSpec /\ PagesFairness /\ QueueFairness
=============================================================================
