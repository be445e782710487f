------------------------------ MODULE WorkPages ------------------------------
(***************************************************************************)
(* The read side of a work: GET /api/works/:id (GetWorkCard) and           *)
(* GET /api/works/:id/editions (ListEditionsForWork), each a read-through  *)
(* Redis cache with a TTL over several separate SELECTs, running against   *)
(* the sync workers of SyncWork, which delete a work's cached pages by     *)
(* prefix.                                                                 *)
(***************************************************************************)
EXTENDS SyncWork

CONSTANTS
  Readers,   \* requests being served at once
  MaxReads   \* bound: how many cache misses are served

VARIABLES
  rd,     \* what each request does: [pc, id, route, page]
  reads,  \* how many misses were started
  told    \* (observer) which sources were ever committed as knowing which work

pageVars == <<rd, reads>>
allVars == <<vars, rd, reads, told>>

Routes == {"card", "editions"}

(* What a page shows: whose metadata, which editions, which sources (card) *)
(* and which links (editions).                                             *)
NoPage == [by |-> "none", editions |-> {}, sources |-> {}, links |-> {}]
NoRequest == [pc |-> "idle", id |-> None, route |-> "card", page |-> NoPage]

EditionsOf(id) == {e \in DOMAIN editions : editions[e].work = id}
LinksOf(eds) == {l \in links : l[1] \in eds}

(* The page the database holds for a work now. *)
Page(id, route) ==
  IF route = "card"
  THEN [NoPage EXCEPT !.by = works[id].by, !.editions = EditionsOf(id),
                      !.sources = SourcesOf(refs, id)]
  ELSE [NoPage EXCEPT !.editions = EditionsOf(id), !.links = LinksOf(EditionsOf(id))]

PagesInit == Init /\ rd = [r \in Readers |-> NoRequest] /\ reads = 0 /\ told = {}

Read(r, label, page) ==
  rd' = [rd EXCEPT ![r] = [pc |-> label, id |-> rd[r].id, route |-> rd[r].route, page |-> page]]

(* cache.get misses (a hit answers and changes nothing), then              *)
(* workRepository.findById; an unknown work is a 404 and changes nothing.  *)
MissPage(r) ==
  /\ rd[r].pc = "idle" /\ reads < MaxReads
  /\ \E id \in DOMAIN works, route \in Routes :
       /\ <<id, route>> \notin DOMAIN cache
       /\ rd' = [rd EXCEPT ![r] =
                   [pc |-> "editions", id |-> id, route |-> route,
                    page |-> [NoPage EXCEPT !.by = IF route = "card" THEN works[id].by ELSE "none"]]]
  /\ reads' = reads + 1
  /\ UNCHANGED <<vars, told>>

(* editionRepository.findByWorkId. *)
ReadPageEditions(r) ==
  /\ rd[r].pc = "editions"
  /\ Read(r, IF rd[r].route = "card" THEN "sources" ELSE "links",
          [rd[r].page EXCEPT !.editions = EditionsOf(rd[r].id)])
  /\ UNCHANGED <<vars, reads, told>>

(* externalRefRepository.findSourcesForEntity. *)
ReadPageSources(r) ==
  /\ rd[r].pc = "sources"
  /\ Read(r, "set", [rd[r].page EXCEPT !.sources = SourcesOf(refs, rd[r].id)])
  /\ UNCHANGED <<vars, reads, told>>

(* Mutant of ReadPageLinks: the request sees uncommitted rows. *)
ReadDirtyLinks(r) ==
  /\ rd[r].pc = "links"
  /\ LET dirty == UNION {tx[w].links : w \in Workers}
     IN Read(r, "set", [rd[r].page EXCEPT
                         !.links = {l \in links \cup dirty : l[1] \in rd[r].page.editions}])
  /\ UNCHANGED <<vars, reads, told>>

(* countByEditionIds, findFreeDownloadsByEditionIds. *)
ReadPageLinks(r) ==
  /\ rd[r].pc = "links"
  /\ Read(r, "set", [rd[r].page EXCEPT !.links = LinksOf(rd[r].page.editions)])
  /\ UNCHANGED <<vars, reads, told>>

(* cache.set, whatever happened to the work since the reads. *)
SetPage(r) ==
  /\ rd[r].pc = "set"
  /\ cache' = Put(cache, <<rd[r].id, rd[r].route>>, rd[r].page)
  /\ rd' = [rd EXCEPT ![r] = NoRequest]
  /\ UNCHANGED <<works, editions, refs, links, syncLog, nextId, started, pc, job,
                 loc, tx, reads, told>>

(* The TTL of an entry runs out. *)
Expire(k) ==
  /\ k \in DOMAIN cache
  /\ cache' = [c \in DOMAIN cache \ {k} |-> cache[c]]
  /\ UNCHANGED <<works, editions, refs, links, syncLog, nextId, started, pc, job,
                 loc, tx, rd, reads, told>>

ReaderStep(r) ==
  \/ MissPage(r) \/ ReadPageEditions(r) \/ ReadPageSources(r)
  \/ ReadPageLinks(r) \/ SetPage(r)

(* Mutant of ExpireSome: the editions page is cached without a TTL. *)
ExpireCards == \E k \in DOMAIN cache : k[2] = "card" /\ Expire(k)
ExpireSome == \E k \in DOMAIN cache : Expire(k)

PagesNext ==
  \/ /\ SyncNext /\ UNCHANGED pageVars
     /\ told' = told \cup {<<k[1], refs'[k].id>> : k \in DOMAIN refs'}
  \/ \E r \in Readers : ReaderStep(r)
  \/ ExpireSome
PagesSpec == PagesInit /\ [][PagesNext]_allVars

(* Redis expires every key that has a TTL. *)
PagesFairness == Fairness /\ WF_allVars(ExpireSome)

-----------------------------------------------------------------------------

(* A cached page shows only what some sync committed: no edition, source   *)
(* or link of a sync that failed, crashed or has not committed yet.  (A    *)
(* source may since have been attached to another work.)                   *)
Committed(id, page) ==
  /\ id \in DOMAIN works /\ page.editions \subseteq DOMAIN editions /\ page.links \subseteq links
  /\ \A s \in page.sources : <<s, id>> \in told
PagesShowCommitted == \A k \in DOMAIN cache : Committed(k[1], cache[k])

Fresh(k) == cache[k] = Page(k[1], k[2])
Quiet == (\A w \in Workers : pc[w] = "idle") /\ (\A r \in Readers : rd[r].pc = "idle")

(* "A successful sync of a work deletes the keys for its work_id": with no *)
(* sync and no request in progress, every cached page is up to date.       *)
PagesFresh == Quiet => \A k \in DOMAIN cache : Fresh(k)

(* A page that fell behind the database is gone after its TTL at the       *)
(* latest: staleness is never permanent.                                   *)
StalePagesGo == []<>(\A k \in DOMAIN cache : Fresh(k))
=============================================================================
