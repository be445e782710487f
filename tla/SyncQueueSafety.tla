-------------------------- MODULE SyncQueueSafety --------------------------
(***************************************************************************)
(* What holds of the sync queue's two producers for any number of works,   *)
(* sources, requests, consumers and faults.                                *)
(***************************************************************************)
EXTENDS SyncQueue, JobQueueSafety

SyncQueueInv == SyncQueueTypeOK /\ ReplayNamesQueuedJob /\ SavedAfterQueued

LEMMA JobsAreListed ==
  /\ JobsFor \in Seq([source : Entries(Registered) \cup Entries(Enriching), data : {"search", "attach"}])
  /\ Len(JobsFor) = Len(Registered) + Len(Enriching) /\ Len(JobsFor) \in Nat \ {0}
  /\ \A i \in 1..Len(JobsFor) : \/ JobsFor[i].data = "attach"
                              \/ JobsFor[i].source \in Entries(Registered)
  <1> DEFINE n == Len(Registered) + Len(Enriching)
  <1>1. n \in Nat \ {0}
    BY SyncQueueAssumption
  <1>2. ASSUME NEW i \in 1..n
        PROVE /\ JobsFor[i] \in [source : Entries(Registered) \cup Entries(Enriching), data : {"search", "attach"}]
              /\ JobsFor[i].data = "attach" \/ JobsFor[i].source \in Entries(Registered)
    <2>1. CASE i <= Len(Registered)
      <3>1. JobsFor[i] = [source |-> Registered[i], data |-> "search"]
        BY <2>1 DEF JobsFor
      <3>2. i \in 1..Len(Registered)
        BY <1>1, <2>1, SyncQueueAssumption
      <3> QED BY <3>1, <3>2 DEF Entries
    <2>2. CASE ~(i <= Len(Registered))
      <3>1. JobsFor[i] = [source |-> Enriching[i - Len(Registered)], data |-> "attach"]
        BY <2>2 DEF JobsFor
      <3>2. i - Len(Registered) \in 1..Len(Enriching)
        BY <1>1, <2>2, SyncQueueAssumption
      <3> QED BY <3>1, <3>2 DEF Entries
    <2> QED BY <2>1, <2>2
  <1>3. JobsFor = [i \in 1..n |-> JobsFor[i]]
    BY DEF JobsFor
  <1>4. JobsFor \in Seq([source : Entries(Registered) \cup Entries(Enriching), data : {"search", "attach"}])
        /\ Len(JobsFor) = n
    <2> DEFINE S == [source : Entries(Registered) \cup Entries(Enriching), data : {"search", "attach"}]
    <2>1. \A i \in 1..n : JobsFor[i] \in S
      BY <1>2
    <2> HIDE DEF n, S
    <2>2. JobsFor \in Seq(S) /\ Len(JobsFor) = n
      BY <1>1, <1>3, <2>1
    <2> QED BY <2>2 DEF n, S
  <1> QED BY <1>1, <1>2, <1>4

LEMMA SyncQueueStarts == SyncQueueInit => SyncQueueInv
  <1> SUFFICES ASSUME SyncQueueInit PROVE SyncQueueInv
    OBVIOUS
  <1>1. QueueInv
    BY QueueStarts DEF SyncQueueInit
  <1>2. NightTypeOK
    <2>1. 0 \in 0..(Len(JobsFor) - 1)
      BY JobsAreListed
    <2>2. << >> \in Seq(Works) /\ Entries(<< >>) = {}
      BY DEF Entries
    <2>3. order \in Seq(Works) /\ Distinct(order)
      BY SyncQueueAssumption DEF SyncQueueInit
    <2> QED BY <2>1, <2>2, <2>3 DEF SyncQueueInit, NightTypeOK
  <1>3. PostTypeOK
    BY DEF SyncQueueInit, PostTypeOK, PostOK, NoPost
  <1>4. ReplayNamesQueuedJob /\ SavedAfterQueued
    BY DEF SyncQueueInit, ReplayNamesQueuedJob, SavedAfterQueued, NoPost
  <1> QED
    BY <1>1, <1>2, <1>3, <1>4 DEF SyncQueueInv, SyncQueueTypeOK, QueueInv, SyncQueueInit

-----------------------------------------------------------------------------
(* What one part does not touch. *)
LEMMA NightStill == ASSUME NightTypeOK, UNCHANGED nightVars PROVE NightTypeOK'
  <1>1. (Len(JobsFor))' = Len(JobsFor)
    BY DEF JobsFor
  <1>2. order' = order /\ stale' = stale /\ day' = day /\ pass' = pass
    BY DEF nightVars
  <1> QED BY <1>1, <1>2 DEF NightTypeOK, Distinct, Entries

LEMMA PostStill ==
  ASSUME PostTypeOK, ReplayNamesQueuedJob, SavedAfterQueued, UNCHANGED postVars
  PROVE PostTypeOK' /\ ReplayNamesQueuedJob' /\ SavedAfterQueued'
  BY DEF postVars, PostTypeOK, PostOK, RecordOK, ReplayNamesQueuedJob, SavedAfterQueued

(* The nightly pass. *)
LEMMA NightKeeps == ASSUME SyncQueueInv, NightNext PROVE SyncQueueInv'
  <1>1. QueueInv /\ NightTypeOK /\ PostTypeOK /\ faults \in 0..MaxFaults
        /\ ReplayNamesQueuedJob /\ SavedAfterQueued
    BY DEF SyncQueueInv, SyncQueueTypeOK, QueueInv
  <1>2. /\ order \in Seq(Works) /\ stale \in 0..Len(order) /\ Len(order) \in Nat
        /\ pass.pc \in {"idle", "enqueue"} /\ pass.todo \in Seq(Works) /\ pass.ran \in BOOLEAN
        /\ pass.made \in 0..(Len(JobsFor) - 1) /\ Entries(pass.todo) \subseteq Entries(order)
        /\ day \in 0..1 /\ Distinct(order)
    BY <1>1 DEF NightTypeOK
  <1>3. UNCHANGED postVars /\ faults' \in 0..MaxFaults
    <2>1. CASE PassDies
      BY <1>1, <2>1, SyncQueueAssumption DEF PassDies
    <2>2. CASE StartPass \/ EnqueueNext \/ EndPass \/ Midnight
      <3>1. UNCHANGED postVars /\ faults' = faults
        BY <2>2, Zenon DEF StartPass, EnqueueNext, EndPass, Midnight
      <3> QED BY <1>1, <3>1
    <2> QED BY <2>1, <2>2 DEF NightNext
  <1>4. PostTypeOK' /\ ReplayNamesQueuedJob' /\ SavedAfterQueued'
    BY <1>1, <1>3, PostStill
  <1>5. QueueInv' /\ NightTypeOK'
    <2>1. CASE StartPass
      <3>1. QueueInv'
        BY <1>1, <2>1, QueueStutters DEF StartPass
      <3>2. FindStale \in Seq(Works) /\ Entries(FindStale) \subseteq Entries(order)
        <4> DEFINE n == IF BatchSize < stale THEN BatchSize ELSE stale
        <4>1. n \in 0..Len(order)
          BY <1>2, SyncQueueAssumption
        <4>2. FindStale = SubSeq(order, 1, n)
          BY DEF FindStale
        <4> HIDE DEF n
        <4>3. /\ FindStale \in Seq(Works) /\ Len(FindStale) = n
              /\ \A i \in 1..n : FindStale[i] = order[i] /\ i \in 1..Len(order)
          BY <1>2, <4>1, <4>2
        <4> QED BY <4>3 DEF Entries
      <3>3. 0 \in 0..(Len(JobsFor) - 1) /\ (Len(JobsFor))' = Len(JobsFor)
        BY JobsAreListed DEF JobsFor
      <3>4. pass' = [pc |-> "enqueue", todo |-> FindStale, made |-> 0, ran |-> TRUE]
            /\ UNCHANGED <<order, stale, day>>
        BY <2>1 DEF StartPass
      <3>5. NightTypeOK'
        BY <1>2, <3>2, <3>3, <3>4 DEF NightTypeOK, Distinct, Entries
      <3> QED BY <3>1, <3>5
    <2>2. CASE EnqueueNext
      <3> DEFINE w == Head(pass.todo)
                 j == JobsFor[pass.made + 1]
                 last == pass.made + 1 = Len(JobsFor)
      <3>1. /\ pass.todo # << >> /\ Enqueue(JobId(j.source, w), j.data, TRUE)
            /\ pass' = [pass EXCEPT !.todo = IF last THEN Tail(@) ELSE @,
                                    !.made = IF last THEN 0 ELSE @ + 1]
            /\ UNCHANGED <<order, stale, day>>
        BY <2>2 DEF EnqueueNext
      <3>2. w \in Works /\ pass.made + 1 \in 1..Len(JobsFor) /\ Tail(pass.todo) \in Seq(Works)
        BY <1>2, <3>1, JobsAreListed
      <3>3. /\ j.source \in Entries(Registered) \cup Entries(Enriching)
            /\ j.data \in Payloads
        <4>1. j \in [source : Entries(Registered) \cup Entries(Enriching), data : {"search", "attach"}]
          <5> DEFINE S == [source : Entries(Registered) \cup Entries(Enriching), data : {"search", "attach"}]
          <5>1. JobsFor \in Seq(S)
            BY JobsAreListed
          <5> HIDE DEF S
          <5>2. j \in S
            BY <3>2, <5>1
          <5> QED BY <5>2 DEF S
        <4> QED BY <4>1, SyncQueueAssumption
      <3>4. JobId(j.source, w) \in JobIds
        BY <1>2, <3>2, <3>3, SyncQueueAssumption DEF JobId
      <3> HIDE DEF j, w
      <3>5. QueueInv'
        BY <1>1, <3>1, <3>3, <3>4, EnqueueKeeps
      <3>6. Entries(Tail(pass.todo)) \subseteq Entries(pass.todo)
        <4>1. Len(pass.todo) \in Nat \ {0} /\ Len(Tail(pass.todo)) = Len(pass.todo) - 1
          BY <1>2, <3>1
        <4>2. \A i \in 1..(Len(pass.todo) - 1) : Tail(pass.todo)[i] = pass.todo[i + 1] /\ i + 1 \in 1..Len(pass.todo)
          BY <1>2, <3>1
        <4> QED BY <4>1, <4>2 DEF Entries
      <3>7. /\ pass'.pc = pass.pc /\ pass'.ran = pass.ran
            /\ pass'.todo = (IF last THEN Tail(pass.todo) ELSE pass.todo)
            /\ pass'.made = (IF last THEN 0 ELSE pass.made + 1)
            /\ pass' = [pc |-> pass.pc, todo |-> pass'.todo, made |-> pass'.made, ran |-> pass.ran]
        BY <1>1, <3>1 DEF NightTypeOK
      <3>8. (IF last THEN 0 ELSE pass.made + 1) \in 0..(Len(JobsFor) - 1)
        <4>1. Len(JobsFor) \in Nat \ {0}
          BY JobsAreListed
        <4> QED BY <1>2, <3>2, <4>1
      <3>9. (Len(JobsFor))' = Len(JobsFor)
        BY DEF JobsFor
      <3>10. pass' \in [pc : {"idle", "enqueue"}, todo : Seq(Works), made : 0..(Len(JobsFor) - 1), ran : BOOLEAN]
        BY <1>2, <3>2, <3>7, <3>8
      <3>11. Entries(pass.todo)' \subseteq Entries(order)'
        <4>1. Entries(pass.todo)' = Entries(pass'.todo) /\ Entries(order)' = Entries(order)
          BY <3>1 DEF Entries
        <4>2. Entries(pass'.todo) \subseteq Entries(pass.todo)
          BY <3>6, <3>7
        <4> QED BY <1>2, <4>1, <4>2
      <3>12. NightTypeOK'
        BY <1>2, <3>1, <3>9, <3>10, <3>11 DEF NightTypeOK, Distinct
      <3> QED BY <3>5, <3>12
    <2>3. CASE EndPass
      <3>1. QueueInv'
        BY <1>1, <2>3, QueueStutters DEF EndPass
      <3>2. NightTypeOK'
        BY <1>1, <2>3 DEF EndPass, NightTypeOK, Distinct, Entries, JobsFor
      <3> QED BY <3>1, <3>2
    <2>4. CASE PassDies
      <3>1. QueueInv'
        BY <1>1, <2>4, QueueStutters DEF PassDies
      <3>2. 0 \in 0..(Len(JobsFor) - 1) /\ (Len(JobsFor))' = Len(JobsFor) /\ Entries(<< >>) = {}
        BY JobsAreListed DEF JobsFor, Entries
      <3>3. PICK over \in BOOLEAN : pass' = [pc |-> "idle", todo |-> << >>, made |-> 0, ran |-> over]
        BY <2>4 DEF PassDies
      <3>4. UNCHANGED <<order, stale, day>>
        BY <2>4 DEF PassDies
      <3>5. NightTypeOK'
        BY <1>2, <3>2, <3>3, <3>4 DEF NightTypeOK, Distinct, Entries
      <3> QED BY <3>1, <3>5
    <2>5. CASE Midnight
      <3>1. QueueInv'
        BY <1>1, <2>5, QueueStutters DEF Midnight
      <3>2. day' \in 0..1 /\ stale' \in 0..Len(order) /\ order' = order /\ pass' = [pass EXCEPT !.ran = FALSE]
        BY <1>2, <2>5 DEF Midnight
      <3>3. NightTypeOK'
        <4>1. (Len(JobsFor))' = Len(JobsFor)
          BY DEF JobsFor
        <4>2. /\ pass' \in [pc : {"idle", "enqueue"}, todo : Seq(Works), made : 0..(Len(JobsFor) - 1), ran : BOOLEAN]
              /\ pass'.todo = pass.todo
          BY <1>1, <3>2 DEF NightTypeOK
        <4>3. Entries(pass.todo)' = Entries(pass.todo) /\ Entries(order)' = Entries(order)
          BY <3>2, <4>2 DEF Entries
        <4>4. Distinct(order)'
          BY <1>2, <3>2 DEF Distinct
        <4>5. pass' \in [pc : {"idle", "enqueue"}, todo : Seq(Works), made : 0..((Len(JobsFor))' - 1), ran : BOOLEAN]
          BY <4>1, <4>2, Zenon
        <4>6. order' \in Seq(Works) /\ stale' \in 0..Len(order')
          BY <1>2, <3>2
        <4> QED BY <1>2, <3>2, <4>3, <4>4, <4>5, <4>6, Zenon DEF NightTypeOK
      <3> QED BY <3>1, <3>3
    <2> QED BY <2>1, <2>2, <2>3, <2>4, <2>5 DEF NightNext
  <1> QED BY <1>3, <1>4, <1>5 DEF SyncQueueInv, SyncQueueTypeOK, QueueInv

-----------------------------------------------------------------------------
(* The requests: posts and records. *)
LEMMA PostKeeps == ASSUME SyncQueueInv, PostNext PROVE SyncQueueInv'
  <1>1. QueueInv /\ NightTypeOK /\ PostTypeOK /\ faults \in 0..MaxFaults
        /\ ReplayNamesQueuedJob /\ SavedAfterQueued
    BY DEF SyncQueueInv, SyncQueueTypeOK, QueueInv
  <1>2. PICK p \in Posts : \/ \E key \in Keys, body \in Bodies : Receive(p, key, body)
                          \/ FindRecord(p) \/ EnqueueSync(p) \/ SaveRecord(p) \/ PostDies(p)
    BY DEF PostNext
  <1>3. UNCHANGED nightVars
    BY <1>2, Zenon DEF Receive, FindRecord, EnqueueSync, SaveRecord, PostDies
  <1>4. NightTypeOK'
    BY <1>1, <1>3, NightStill
  <1>5. day \in 0..1
    BY <1>1 DEF NightTypeOK
  <1>6. /\ DOMAIN posts = Posts /\ PostOK(posts[p]) /\ \A q \in Posts : PostOK(posts[q])
        /\ \A k \in DOMAIN records : RecordOK(records[k]) /\ records[k].job \in asked
        /\ \A q \in Posts : posts[q].pc = "save" => posts[q].job \in asked
        /\ left \in 0..MaxPosts /\ asked \subseteq JobIds
    BY <1>1, <1>2 DEF PostTypeOK, ReplayNamesQueuedJob, SavedAfterQueued
  (* One request moves on to row; the records and what was asked only grow. *)
  <1>7. ASSUME NEW row, PostOK(row), row.pc = "save" => row.job \in asked',
               posts' = [posts EXCEPT ![p] = row],
               asked \subseteq asked', asked' \subseteq JobIds, left' \in 0..MaxPosts,
               \A k \in DOMAIN records' : RecordOK(records'[k]) /\ records'[k].job \in asked'
        PROVE PostTypeOK' /\ ReplayNamesQueuedJob' /\ SavedAfterQueued'
    <2>1. DOMAIN posts' = Posts /\ posts'[p] = row /\ \A q \in Posts \ {p} : posts'[q] = posts[q]
      BY <1>6, <1>7
    <2>2. \A q \in Posts : PostOK(posts'[q]) /\ (posts'[q].pc = "save" => posts'[q].job \in asked')
      BY <1>6, <1>7, <2>1
    <2>3. PostTypeOK'
      BY <1>7, <2>1, <2>2 DEF PostTypeOK, PostOK, RecordOK
    <2>4. ReplayNamesQueuedJob' /\ SavedAfterQueued'
      BY <1>7, <2>2 DEF ReplayNamesQueuedJob, SavedAfterQueued
    <2> QED BY <2>3, <2>4
  <1>8. PostOK(NoPost) /\ NoPost.pc = "idle"
    BY DEF PostOK, NoPost
  <1>9. QueueInv' /\ faults' \in 0..MaxFaults
        /\ PostTypeOK' /\ ReplayNamesQueuedJob' /\ SavedAfterQueued'
    <2>1. CASE \E key \in Keys, body \in Bodies : Receive(p, key, body)
      <3>1. PICK key \in Keys, body \in Bodies : Receive(p, key, body)
        BY <2>1
      <3>2. QueueInv' /\ faults' \in 0..MaxFaults
        BY <1>1, <3>1, QueueStutters DEF Receive
      <3> DEFINE row == [pc |-> "find", key |-> key, body |-> body, job |-> NoPost.job]
      <3>4. PostOK(row) /\ row.pc = "find"
        BY DEF PostOK
      <3>5. posts' = [posts EXCEPT ![p] = row] /\ UNCHANGED <<records, asked>>
        BY <3>1 DEF Receive
      <3> HIDE DEF row
      <3>6. left' \in 0..MaxPosts
        BY <1>6, <3>1, SyncQueueAssumption DEF Receive
      <3> QED BY <1>6, <1>7, <3>2, <3>4, <3>5, <3>6
    <2>2. CASE FindRecord(p)
      <3>1. QueueInv' /\ faults' \in 0..MaxFaults
        BY <1>1, <2>2, QueueStutters DEF FindRecord
      <3>2. UNCHANGED <<records, left, asked>>
        BY <2>2 DEF FindRecord
      <3>3. CASE RecordKey(p) \in DOMAIN records
        <4>1. posts' = [posts EXCEPT ![p] = NoPost]
          BY <2>2, <3>3 DEF FindRecord
        <4> QED BY <1>6, <1>7, <1>8, <3>1, <3>2, <4>1
      <3>4. CASE RecordKey(p) \notin DOMAIN records
        <4> DEFINE id == JobId(Endpoint(posts[p].body), Normal[posts[p].body[2]])
                   row == [pc |-> "enqueue", key |-> posts[p].key, body |-> posts[p].body, job |-> id]
        <4>1. posts[p].body \in Bodies
          BY <1>6, <2>2 DEF FindRecord, PostOK
        <4>2. id \in JobIds
          BY <1>5, <4>1, SyncQueueAssumption DEF JobId, Endpoint
        <4>3. posts' = [posts EXCEPT ![p] = [posts[p] EXCEPT !.pc = "enqueue", !.job = id]]
          BY <2>2, <3>4 DEF FindRecord
        <4> HIDE DEF id
        <4>4. PostOK(row) /\ row.pc = "enqueue"
          BY <1>6, <4>1, <4>2 DEF PostOK
        <4>5. [posts[p] EXCEPT !.pc = "enqueue", !.job = id] = row
          <5> DEFINE first == [posts[p] EXCEPT !.pc = "enqueue"]
          <5>1. first = [pc |-> "enqueue", key |-> posts[p].key, body |-> posts[p].body, job |-> posts[p].job]
            BY <1>6 DEF PostOK
          <5> HIDE DEF first
          <5>2. [first EXCEPT !.job = id] = row
            BY <5>1
          <5> QED BY <5>2 DEF first
        <4>6. posts' = [posts EXCEPT ![p] = row]
          BY <4>3, <4>5
        <4> HIDE DEF row
        <4> QED BY <1>6, <1>7, <3>1, <3>2, <4>4, <4>6
      <3> QED BY <3>3, <3>4
    <2>3. CASE EnqueueSync(p)
      <3>1. posts[p].pc = "enqueue" /\ posts[p].job \in JobIds
        BY <1>6, <2>3 DEF EnqueueSync, PostOK
      <3>2. QueueInv'
        BY <1>1, <2>3, <3>1, EnqueueKeeps, SyncQueueAssumption DEF EnqueueSync
      <3>3. faults' \in 0..MaxFaults /\ UNCHANGED <<records, left>> /\ asked' = asked \cup {posts[p].job}
        BY <1>1, <2>3 DEF EnqueueSync
      <3> DEFINE row == [posts[p] EXCEPT !.pc = "save"]
      <3>4. PostOK(row) /\ row.job = posts[p].job
        BY <1>6, <3>1 DEF PostOK
      <3>5. posts' = [posts EXCEPT ![p] = row]
        BY <2>3 DEF EnqueueSync
      <3> HIDE DEF row
      <3> QED BY <1>6, <1>7, <3>1, <3>2, <3>3, <3>4, <3>5
    <2>4. CASE SaveRecord(p)
      <3>1. posts[p].body \in Bodies /\ posts[p].job \in JobIds /\ posts[p].job \in asked
        BY <1>6, <2>4 DEF SaveRecord, PostOK
      <3>2. QueueInv' /\ faults' \in 0..MaxFaults /\ UNCHANGED <<left, asked>>
        BY <1>1, <2>4, QueueStutters DEF SaveRecord
      <3>3. posts' = [posts EXCEPT ![p] = NoPost]
        BY <2>4 DEF SaveRecord
      <3>4. \A k \in DOMAIN records' : RecordOK(records'[k]) /\ records'[k].job \in asked
        BY <1>6, <2>4, <3>1 DEF SaveRecord, RecordOK
      <3> QED BY <1>6, <1>7, <1>8, <3>2, <3>3, <3>4
    <2>5. CASE PostDies(p)
      <3>1. QueueInv'
        BY <1>1, <2>5, QueueStutters DEF PostDies
      <3>2. faults' \in 0..MaxFaults
        BY <1>1, <2>5, SyncQueueAssumption DEF PostDies
      <3>3. posts' = [posts EXCEPT ![p] = NoPost] /\ UNCHANGED <<records, left, asked>>
        BY <2>5 DEF PostDies
      <3> QED BY <1>6, <1>7, <1>8, <3>1, <3>2, <3>3
    <2> QED BY <1>2, <2>1, <2>2, <2>3, <2>4, <2>5
  <1> QED BY <1>4, <1>9 DEF SyncQueueInv, SyncQueueTypeOK, QueueInv

(* A work that was synced moves to the end of the line. *)
LEMMA SyncedKeeps ==
  ASSUME NightTypeOK, NEW w, Synced(w), UNCHANGED <<day, pass>>
  PROVE NightTypeOK'
  <1>1. /\ order \in Seq(Works) /\ Distinct(order) /\ Len(order) \in Nat
        /\ \A i \in 1..Len(order) : order[i] \in Works
        /\ stale \in 0..Len(order) /\ Entries(pass.todo) \subseteq Entries(order)
    BY DEF NightTypeOK
  <1>2. PICK at \in 1..Len(order) :
          /\ order[at] = w
          /\ order' = [i \in 1..Len(order) |->
                         IF i < at THEN order[i] ELSE IF i < Len(order) THEN order[i + 1] ELSE w]
          /\ stale' = IF at <= stale THEN stale - 1 ELSE stale
    BY DEF Synced
  <1> DEFINE from(i) == IF i < at THEN i ELSE IF i < Len(order) THEN i + 1 ELSE at
  <1>3. \A i \in 1..Len(order) : from(i) \in 1..Len(order)
    BY <1>1, <1>2
  <1>4. \A i \in 1..Len(order) : order'[i] = order[from(i)]
    BY <1>1, <1>2
  <1>5. \A i, j \in 1..Len(order) : from(i) = from(j) => i = j
    BY <1>1, <1>2
  <1>6. \A i \in 1..Len(order) : \E j \in 1..Len(order) : from(j) = i
    <2> TAKE i \in 1..Len(order)
    <2>1. CASE i < at
      BY <2>1
    <2>2. CASE i = at
      <3>1. from(Len(order)) = i /\ Len(order) \in 1..Len(order)
        BY <1>1, <1>2, <2>2
      <3> QED BY <3>1
    <2>3. CASE i > at
      <3>1. i - 1 \in 1..Len(order) /\ from(i - 1) = i
        BY <1>1, <1>2, <2>3
      <3> QED BY <3>1
    <2> QED BY <1>1, <1>2, <2>1, <2>2, <2>3
  <1> HIDE DEF from
  <1>7. order' = [i \in 1..Len(order) |-> order'[i]]
    BY <1>2
  <1>8. order' \in Seq(Works) /\ Len(order') = Len(order)
    BY <1>1, <1>3, <1>4, <1>7
  <1>9. Distinct(order)'
    BY <1>1, <1>3, <1>4, <1>5, <1>8, SMT DEF Distinct
  <1>10. Entries(order)' = Entries(order)
    <2>1. ASSUME NEW i \in 1..Len(order) PROVE order'[i] \in Entries(order)
      BY <1>3, <1>4 DEF Entries
    <2>2. ASSUME NEW i \in 1..Len(order) PROVE order[i] \in Entries(order)'
      <3>1. PICK j \in 1..Len(order) : from(j) = i
        BY <1>6
      <3>2. order'[j] = order[i] /\ j \in 1..Len(order')
        BY <1>4, <1>8, <3>1
      <3> QED BY <3>2 DEF Entries
    <2> QED BY <1>8, <2>1, <2>2 DEF Entries
  <1>11. stale' \in 0..Len(order')
    BY <1>1, <1>2, <1>8
  <1>12. (Len(JobsFor))' = Len(JobsFor) /\ Entries(pass.todo)' = Entries(pass.todo)
    BY DEF JobsFor, Entries
  <1> QED BY <1>1, <1>8, <1>9, <1>10, <1>11, <1>12, Zenon DEF NightTypeOK

(* The consumer, and what the queue forgets. *)
LEMMA ConsumerKeeps == ASSUME SyncQueueInv, ConsumerNext \/ SyncJobsAge PROVE SyncQueueInv'
  <1>1. QueueInv /\ NightTypeOK /\ PostTypeOK /\ faults \in 0..MaxFaults
        /\ ReplayNamesQueuedJob /\ SavedAfterQueued
    BY DEF SyncQueueInv, SyncQueueTypeOK, QueueInv
  <1>2. ASSUME QueueInv', NightTypeOK', faults' \in 0..MaxFaults, UNCHANGED postVars
        PROVE SyncQueueInv'
    BY <1>1, <1>2, PostStill DEF SyncQueueInv, SyncQueueTypeOK, QueueInv
  <1>3. ASSUME QueueInv', UNCHANGED syncVars PROVE SyncQueueInv'
    <2>1. UNCHANGED nightVars /\ UNCHANGED postVars /\ faults' = faults
      BY <1>3 DEF syncVars
    <2> QED BY <1>1, <1>2, <1>3, <2>1, NightStill
  <1>4. CASE SyncJobsAge
    <2>1. QueueInv' /\ UNCHANGED syncVars
      BY <1>1, <1>4, AgeAllKeeps DEF SyncJobsAge, Finished
    <2> QED BY <1>3, <2>1
  <1>5. CASE ConsumerNext
    <2>1. PICK id \in JobIds : \/ \E c \in Consumers : TakeSync(c, id) \/ FinishSync(c, id) \/ SyncFails(c, id)
                              \/ RetrySync(id)
      BY <1>5 DEF ConsumerNext
    <2>2. CASE RetrySync(id)
      <3>1. QueueInv' /\ UNCHANGED syncVars
        BY <1>1, <2>2, BackoffOverKeeps DEF RetrySync
      <3> QED BY <1>3, <3>1
    <2>3. ASSUME NEW c \in Consumers, TakeSync(c, id) PROVE SyncQueueInv'
      <3>1. QueueInv' /\ UNCHANGED syncVars
        BY <1>1, <2>3, TakeKeeps DEF TakeSync
      <3> QED BY <1>3, <3>1
    <2>4. ASSUME NEW c \in Consumers, FinishSync(c, id) PROVE SyncQueueInv'
      <3>1. QueueInv' /\ UNCHANGED <<day, pass>> /\ UNCHANGED postVars /\ faults' = faults
        BY <1>1, <2>4, CompleteKeeps DEF FinishSync
      <3>2. Synced(id[2]) \/ UNCHANGED <<order, stale>>
        BY <2>4 DEF FinishSync
      <3>3. NightTypeOK'
        BY <1>1, <3>1, <3>2, SyncedKeeps, NightStill DEF nightVars
      <3> QED BY <1>1, <1>2, <3>1, <3>3
    <2>5. ASSUME NEW c \in Consumers, SyncFails(c, id) PROVE SyncQueueInv'
      <3>1. QueueInv' /\ UNCHANGED nightVars /\ UNCHANGED postVars
        BY <1>1, <2>5, FailAttemptKeeps DEF SyncFails
      <3>2. faults' \in 0..MaxFaults
        BY <1>1, <2>5, SyncQueueAssumption DEF SyncFails
      <3> QED BY <1>1, <1>2, <3>1, <3>2, NightStill
    <2> QED BY <2>1, <2>2, <2>3, <2>4, <2>5
  <1> QED BY <1>4, <1>5

-----------------------------------------------------------------------------
LEMMA SyncQueueInvHolds == SyncQueueSpec => []SyncQueueInv
  <1>1. SyncQueueInit => SyncQueueInv
    BY SyncQueueStarts
  <1>2. SyncQueueInv /\ [SyncQueueNext]_<<queueVars, syncVars>> => SyncQueueInv'
    <2> SUFFICES ASSUME SyncQueueInv, [SyncQueueNext]_<<queueVars, syncVars>> PROVE SyncQueueInv'
      OBVIOUS
    <2>1. CASE UNCHANGED <<queueVars, syncVars>>
      <3>1. QueueInv' /\ NightTypeOK'
        BY <2>1, QueueStutters, NightStill DEF SyncQueueInv, SyncQueueTypeOK, QueueInv, syncVars
      <3>2. PostTypeOK' /\ ReplayNamesQueuedJob' /\ SavedAfterQueued'
        BY <2>1, PostStill DEF SyncQueueInv, SyncQueueTypeOK, syncVars
      <3> QED BY <2>1, <3>1, <3>2 DEF SyncQueueInv, SyncQueueTypeOK, QueueInv, syncVars
    <2> QED BY <2>1, NightKeeps, PostKeeps, ConsumerKeeps DEF SyncQueueNext
  <1> QED BY <1>1, <1>2, PTL DEF SyncQueueSpec

(* Types: among them that a job waits in one list while it waits, has a    *)
(* consumer while it is active, and never waits without an attempt left.   *)
THEOREM SyncQueueTypeCorrect == SyncQueueSpec => []SyncQueueTypeOK
  <1>1. SyncQueueInv => SyncQueueTypeOK
    BY DEF SyncQueueInv
  <1> QED BY <1>1, SyncQueueInvHolds, PTL

(* Whatever dies between the two writes of POST /api/sync/:source, what an *)
(* idempotency record answers with was given to the queue first.           *)
THEOREM ReplaysNameQueuedJobs == SyncQueueSpec => []ReplayNamesQueuedJob
  <1>1. SyncQueueInv => ReplayNamesQueuedJob
    BY DEF SyncQueueInv
  <1> QED BY <1>1, SyncQueueInvHolds, PTL

-----------------------------------------------------------------------------
(* The jobs of enrichment sources, while no source is in both lists and no *)
(* query is taken for the id of a work: only the pass queues them, and it  *)
(* names the work.                                                         *)
EnrichmentJob(id) == id[2] \in Works /\ id[1] \in Entries(Enriching)
NamesItsWork ==
  \A id \in JobIds : EnrichmentJob(id) /\ jobs[id].state # "absent" => jobs[id].data = "attach"
AsksInWords == \A p \in Posts : posts[p].pc = "enqueue" => posts[p].job[2] \notin Works

LEMMA NamingIsKept ==
  ASSUME Entries(Registered) \cap Entries(Enriching) = {},
         \A body \in Bodies : Normal[body[2]] \notin Works,
         SyncQueueInv, NamesItsWork, AsksInWords, [SyncQueueNext]_<<queueVars, syncVars>>
  PROVE NamesItsWork' /\ AsksInWords'
  <1>1. QueueInv /\ NightTypeOK /\ PostTypeOK
    BY DEF SyncQueueInv, SyncQueueTypeOK, QueueInv
  <1>2. ASSUME KeepsData PROVE NamesItsWork'
    BY <1>2 DEF KeepsData, NamesItsWork, EnrichmentJob
  <1>3. ASSUME jobs' = jobs PROVE NamesItsWork'
    BY <1>3 DEF NamesItsWork, EnrichmentJob
  <1>4. ASSUME posts' = posts PROVE AsksInWords'
    BY <1>4 DEF AsksInWords
  <1>5. ASSUME NEW id \in JobIds, NEW data, NEW deferred, Enqueue(id, data, deferred),
               EnrichmentJob(id) => data = "attach"
        PROVE NamesItsWork'
    <2>1. CASE jobs[id].state # "absent"
      BY <1>3, <1>5, <2>1 DEF Enqueue, queueVars
    <2>2. CASE jobs[id].state = "absent"
      <3>1. \A x \in JobIds \ {id} : jobs'[x] = jobs[x]
        BY <1>1, <1>5, <2>2 DEF Enqueue, QueueInv, QueueTypeOK
      <3>2. jobs'[id].data = data
        BY <1>1, <1>5, <2>2 DEF Enqueue, QueueInv, QueueTypeOK, Absent
      <3> QED BY <1>5, <3>1, <3>2 DEF NamesItsWork, EnrichmentJob
    <2> QED BY <2>1, <2>2
  <1>6. CASE UNCHANGED <<queueVars, syncVars>>
    BY <1>3, <1>4, <1>6 DEF queueVars, syncVars, postVars
  <1>7. CASE StartPass \/ EndPass \/ PassDies \/ Midnight
    <2>1. jobs' = jobs /\ posts' = posts
      BY <1>7, Zenon DEF StartPass, EndPass, PassDies, Midnight, queueVars, postVars
    <2> QED BY <1>3, <1>4, <2>1
  <1>8. CASE EnqueueNext
    <2> DEFINE w == Head(pass.todo)
               j == JobsFor[pass.made + 1]
    <2>1. posts' = posts /\ pass.todo # << >> /\ Enqueue(JobId(j.source, w), j.data, TRUE)
      BY <1>8 DEF EnqueueNext, postVars
    <2>2. pass.todo \in Seq(Works) /\ pass.made \in 0..(Len(JobsFor) - 1) /\ day \in 0..1
      BY <1>1 DEF NightTypeOK
    <2>3. Len(JobsFor) \in Nat \ {0}
      BY JobsAreListed
    <2>4. w \in Works /\ pass.made + 1 \in 1..Len(JobsFor)
      BY <2>1, <2>2, <2>3
    <2>5. j.data = "attach" \/ j.source \in Entries(Registered)
      BY <2>4, JobsAreListed
    <2>6. j.source \in Entries(Registered) \cup Entries(Enriching)
      <3> DEFINE S == [source : Entries(Registered) \cup Entries(Enriching), data : {"search", "attach"}]
      <3>1. JobsFor \in Seq(S)
        BY JobsAreListed
      <3> HIDE DEF S
      <3>2. j \in S
        BY <2>4, <3>1
      <3> QED BY <3>2 DEF S
    <2>7. JobId(j.source, w) \in JobIds
      BY <2>2, <2>4, <2>6, SyncQueueAssumption DEF JobId
    <2>8. EnrichmentJob(JobId(j.source, w)) => j.data = "attach"
      BY <2>5 DEF EnrichmentJob, JobId
    <2> HIDE DEF j, w
    <2> QED BY <1>4, <1>5, <2>1, <2>7, <2>8
  <1>9. CASE PostNext
    <2>1. PICK p \in Posts : \/ \E key \in Keys, body \in Bodies : Receive(p, key, body)
                            \/ FindRecord(p) \/ EnqueueSync(p) \/ SaveRecord(p) \/ PostDies(p)
      BY <1>9 DEF PostNext
    <2>2. DOMAIN posts = Posts /\ \A q \in Posts : PostOK(posts[q])
      BY <1>1 DEF PostTypeOK
    <2>3. ASSUME NEW row, posts' = [posts EXCEPT ![p] = row],
                 row.pc = "enqueue" => row.job[2] \notin Works
          PROVE AsksInWords'
      BY <2>2, <2>3 DEF AsksInWords
    <2>4. NoPost.pc = "idle"
      BY DEF NoPost
    <2>5. CASE \E key \in Keys, body \in Bodies : Receive(p, key, body)
      <3>1. PICK key \in Keys, body \in Bodies : Receive(p, key, body)
        BY <2>5
      <3> DEFINE row == [pc |-> "find", key |-> key, body |-> body, job |-> NoPost.job]
      <3>2. jobs' = jobs /\ posts' = [posts EXCEPT ![p] = row]
        BY <3>1 DEF Receive, queueVars
      <3>3. row.pc = "find"
        OBVIOUS
      <3> HIDE DEF row
      <3> QED BY <1>3, <2>3, <3>2, <3>3
    <2>6. CASE FindRecord(p)
      <3>1. jobs' = jobs
        BY <2>6 DEF FindRecord, queueVars
      <3>2. CASE RecordKey(p) \in DOMAIN records
        <4>1. posts' = [posts EXCEPT ![p] = NoPost]
          BY <2>6, <3>2 DEF FindRecord
        <4> QED BY <1>3, <2>3, <2>4, <3>1, <4>1
      <3>3. CASE RecordKey(p) \notin DOMAIN records
        <4> DEFINE id == JobId(Endpoint(posts[p].body), Normal[posts[p].body[2]])
                   row == [posts[p] EXCEPT !.pc = "enqueue", !.job = id]
        <4>1. posts[p].body \in Bodies /\ posts[p] \in [pc : {"idle", "find", "enqueue", "save"},
                key : Keys \cup {NoPost.key}, body : Bodies \cup {NoPost.body}, job : JobIds \cup {NoPost.job}]
          BY <2>2, <2>6 DEF FindRecord, PostOK
        <4>2. id[2] \notin Works
          BY <4>1 DEF JobId
        <4>3. posts' = [posts EXCEPT ![p] = row]
          BY <2>6, <3>3, Zenon DEF FindRecord
        <4> HIDE DEF id
        <4>4. row.job = id
          BY <4>1
        <4> HIDE DEF row
        <4> QED BY <1>3, <2>3, <3>1, <4>2, <4>3, <4>4
      <3> QED BY <3>2, <3>3
    <2>7. CASE EnqueueSync(p)
      <3>1. /\ posts[p].pc = "enqueue" /\ Enqueue(posts[p].job, "search", FALSE)
            /\ posts' = [posts EXCEPT ![p] = [posts[p] EXCEPT !.pc = "save"]]
        BY <2>7 DEF EnqueueSync
      <3>2. posts[p].job \in JobIds /\ posts[p] \in [pc : {"idle", "find", "enqueue", "save"},
              key : Keys \cup {NoPost.key}, body : Bodies \cup {NoPost.body}, job : JobIds \cup {NoPost.job}]
        BY <2>2, <3>1 DEF PostOK
      <3>3. ~EnrichmentJob(posts[p].job)
        BY <3>1 DEF AsksInWords, EnrichmentJob
      <3>4. NamesItsWork'
        BY <1>5, <3>1, <3>2, <3>3
      <3> DEFINE row == [posts[p] EXCEPT !.pc = "save"]
      <3>5. row.pc = "save"
        BY <3>2
      <3> HIDE DEF row
      <3>6. posts' = [posts EXCEPT ![p] = row]
        BY <3>1 DEF row
      <3> QED BY <2>3, <3>4, <3>5, <3>6
    <2>8. CASE SaveRecord(p)
      <3>1. jobs' = jobs /\ posts' = [posts EXCEPT ![p] = NoPost]
        BY <2>8 DEF SaveRecord, queueVars
      <3> QED BY <1>3, <2>3, <2>4, <3>1
    <2>9. CASE PostDies(p)
      <3>1. jobs' = jobs /\ posts' = [posts EXCEPT ![p] = NoPost]
        BY <2>9 DEF PostDies, queueVars
      <3> QED BY <1>3, <2>3, <2>4, <3>1
    <2> QED BY <2>1, <2>5, <2>6, <2>7, <2>8, <2>9
  <1>10. CASE ConsumerNext
    <2>1. PICK id \in JobIds : \/ \E c \in Consumers : TakeSync(c, id) \/ FinishSync(c, id) \/ SyncFails(c, id)
                              \/ RetrySync(id)
      BY <1>10 DEF ConsumerNext
    <2>2. /\ \/ \E c \in Consumers : Take(c, id) \/ Complete(c, id) \/ FailAttempt(c, id)
             \/ BackoffOver(id) \/ Stall(id)
          /\ posts' = posts
      BY <2>1, Zenon DEF TakeSync, FinishSync, SyncFails, RetrySync, syncVars, postVars
    <2>3. KeepsData
      BY <1>1, <2>2, DataStays
    <2> QED BY <1>2, <1>4, <2>2, <2>3
  <1>11. CASE SyncJobsAge
    <2>1. jobs' = [id \in JobIds |-> IF Finished(id) THEN Absent ELSE jobs[id]] /\ posts' = posts
      BY <1>11 DEF SyncJobsAge, syncVars, postVars
    <2>2. Absent.state = "absent"
      BY DEF Absent
    <2>3. KeepsData
      BY <2>1, <2>2, Zenon DEF KeepsData
    <2> QED BY <1>2, <1>4, <2>1, <2>3
  <1> QED BY <1>6, <1>7, <1>8, <1>9, <1>10, <1>11 DEF SyncQueueNext, NightNext

(* The nightly pass asks every enrichment source about the known work, and *)
(* no request can get in its way: what the doc comment claims holds as     *)
(* long as no source is both registered and enriching.                     *)
THEOREM EnrichmentNamesItsWork ==
  ASSUME Entries(Registered) \cap Entries(Enriching) = {},
         \A body \in Bodies : Normal[body[2]] \notin Works
  PROVE SyncQueueSpec => []AskedAboutKnownWork
  <1>1. SyncQueueInit => NamesItsWork /\ AsksInWords
    BY DEF SyncQueueInit, QueueInit, Absent, NoPost, NamesItsWork, AsksInWords
  <1>2. SyncQueueInv /\ NamesItsWork /\ AsksInWords /\ [SyncQueueNext]_<<queueVars, syncVars>>
          => NamesItsWork' /\ AsksInWords'
    BY NamingIsKept
  <1>3. NamesItsWork => AskedAboutKnownWork
    BY DEF NamesItsWork, EnrichmentJob, AskedAboutKnownWork
  <1> QED BY <1>1, <1>2, <1>3, SyncQueueInvHolds, PTL DEF SyncQueueSpec
=============================================================================
