------------------------------ MODULE Sources ------------------------------
(***************************************************************************)
(* What the source adapters do with the answers of ResilientFetcher.fetch, *)
(* each of which comes some time (Breaker!EveryFetchIsAnswered).           *)
(* An operation of an adapter is a plan: its requests, what each waits     *)
(* for, and what a 4xx and an outage (the fetch throws) do to the whole.   *)
(* SyncWorkFromSource asks one source to search, then for the editions and *)
(* the details together; the other adapters are asked for one thing.       *)
(***************************************************************************)
EXTENDS Naturals, Sequences

CONSTANTS
  AskedSources,  \* the adapters looked at, one in a behaviour
  MaxSyncs,      \* bound: syncs of the one book, each after the end of the last
  MaxExpiries    \* bound: cache entries that expire

AllSources ==
  {"open-library", "google-books", "gutenberg", "librivox", "authorized-free", "wikidata",
   "sru", "bn-poland", "ndl", "gallica", "subjects", "wikipedia", "price", "rating", "reviews", "cover"}
ASSUME SourcesAssumption ==
  AskedSources \subseteq AllSources /\ MaxSyncs \in Nat /\ MaxExpiries \in Nat

\* What becomes of the operation: it throws; it goes on without this part; it
\* answers with nothing at once and remembers nothing; or the 4xx is an answer.
Lookup(after, client, down) ==
  [after |-> after, on |-> 0, client |-> {client}, down |-> down, maybe |-> FALSE, own |-> "no"]
Required == Lookup({}, "fail", "fail")
Then(i, part) == [part EXCEPT !.after = @ \cup {i}]         \* waits for request i
From(i, part) == [Then(i, part) EXCEPT !.on = i]            \* and asks with what i found
IfAny(part) == [part EXCEPT !.maybe = TRUE]                 \* there may be nothing to ask
Own(kept, part) == [part EXCEPT !.own = kept]               \* has a cache entry of its own

Plan(key, parts) == [key |-> key, parts |-> parts]
NoFetch == Plan("none", <<>>)

-----------------------------------------------------------------------------
(* Open Library *)
FirstPage    == Required
LaterPage    == IfAny(From(1, Lookup({}, "skip", "fail")))
WorkIaIds    == Own("got", Lookup({}, "skip", "fail"))
Availability == Own("any", Lookup({1, 2, 3}, "skip", "fail"))
IAFormats    == IfAny(Own("got", From(4, Lookup({}, "skip", "skip"))))
ExtraEdition == IfAny(Then(5, From(4, Lookup({}, "skip", "fail"))))
OpenLibrarySearch   == Plan("search", <<Required>>)
OpenLibraryEditions == Plan("editions", <<FirstPage, LaterPage, WorkIaIds, Availability, IAFormats, ExtraEdition>>)
OpenLibraryDetails  == Plan("details", <<Lookup({}, "quit", "fail")>>)
(* Mutant: an unreadable search answer counts as an empty one. *)
OpenLibraryQuiet ==
  [search |-> Plan("search", <<Lookup({}, "quit", "fail")>>), editions |-> OpenLibraryEditions, details |-> OpenLibraryDetails]
OpenLibrary == [search |-> OpenLibrarySearch, editions |-> OpenLibraryEditions, details |-> OpenLibraryDetails]

(* Google Books, Project Gutenberg, LibriVox, the curated free books *)
GoogleBooks ==
  [search |-> Plan("search", <<Required>>), editions |-> Plan("editions", <<Required>>),
   details |-> Plan("details", <<Lookup({}, "quit", "fail")>>)]
Gutenberg ==
  [search |-> Plan("search", <<Required>>), editions |-> Plan("book", <<Lookup({}, "quit", "fail")>>),
   details |-> NoFetch]
LibriVoxSearch == Plan("search", <<[Required EXCEPT !.client = {"none", "fail"}]>>)     \* 404, any other
LibriVoxById == Plan("book", <<Lookup({}, "quit", "fail")>>)
LibriVox == [search |-> LibriVoxSearch, editions |-> LibriVoxById, details |-> LibriVoxById]
AuthorizedFree == [search |-> NoFetch, editions |-> NoFetch, details |-> NoFetch]

(* Wikidata: candidates for fewer and fewer words, then one SPARQL query. *)
FindCandidateIds == <<Required, IfAny(Then(1, Required))>>
DescribeWorks    == Required
WikidataSearch   == Plan("search", Append(FindCandidateIds, IfAny(Then(2, DescribeWorks))))
WithWikisource   == Then(1, Lookup({}, "skip", "skip"))
WikidataEditions == Plan("editions", <<Required, WithWikisource>>)
WikidataDetails  == Plan("details", <<DescribeWorks>>)
Wikidata == [search |-> WikidataSearch, editions |-> WikidataEditions, details |-> WikidataDetails]

(* Library catalogues: search and editions read the same remembered records. *)
Catalogue(parts) == [search |-> Plan("records", parts), editions |-> Plan("records", parts), details |-> NoFetch]
SruCatalogue   == Catalogue(<<Required>>)
(* Mutant: a pair that fails contributes nothing. *)
PolishLibraryHalf == Catalogue(<<Required, IfAny(Then(1, Lookup({}, "skip", "skip")))>>)
PolishLibrary  == Catalogue(<<Required, IfAny(Then(1, Required)), IfAny(Then(2, Required)), IfAny(Then(3, Required))>>)
Ndl            == Catalogue(<<Required, IfAny(Then(1, Required))>>)
Gallica        == Catalogue(<<Required, IfAny(Then(1, Required)), IfAny(Then(2, Required))>>)
Catalogues == {"sru", "bn-poland", "ndl", "gallica"}

(* Adapters asked for one thing, and not by a sync. *)
Asked(plan) == [search |-> plan, editions |-> NoFetch, details |-> NoFetch]
SubjectIndex == Asked(Plan("subject", <<Lookup({}, "quit", "fail")>>))
WikipediaDescription ==
  Asked(Plan("description", <<Lookup({}, "skip", "skip"), IfAny(From(1, Lookup({}, "skip", "skip"))),
                              IfAny(From(2, Lookup({}, "skip", "skip")))>>))
GooglePrice   == Asked(Plan("price", <<Required>>))
GoogleRating  == Asked(Plan("rating", <<Required>>))
ReviewLinks   == Asked(Plan("none", <<Own("got", Required), IfAny(Own("got", Then(1, Required)))>>))
CoverImage    == Asked(Plan("none", <<Lookup({}, "quit", "fail"), IfAny(Then(1, Lookup({}, "quit", "fail")))>>))

Adapter(s) ==
  CASE s = "open-library" -> OpenLibrary     [] s = "google-books" -> GoogleBooks
    [] s = "gutenberg" -> Gutenberg          [] s = "librivox" -> LibriVox
    [] s = "authorized-free" -> AuthorizedFree [] s = "wikidata" -> Wikidata
    [] s = "sru" -> SruCatalogue             [] s = "bn-poland" -> PolishLibrary
    [] s = "ndl" -> Ndl                      [] s = "gallica" -> Gallica
    [] s = "subjects" -> SubjectIndex        [] s = "wikipedia" -> WikipediaDescription
    [] s = "price" -> GooglePrice            [] s = "rating" -> GoogleRating
    [] s = "reviews" -> ReviewLinks          [] s = "cover" -> CoverImage
Discovery == {"open-library", "google-books", "gutenberg", "librivox", "authorized-free", "wikidata"}

-----------------------------------------------------------------------------
VARIABLES
  source,     \* the one asked in this behaviour
  syncs,      \* attempt -> [pc, outcome, lost]
  ops,        \* <<attempt, kind>> -> the operation under way
  memory,     \* cache key -> what is remembered of the last answer
  owned,      \* <<kind, part>> -> a part's own cache entry
  expiries

sourceVars == <<source, syncs, ops, memory, owned, expiries>>

Attempts == 1..MaxSyncs
Kinds == {"search", "editions", "details"}
MaxParts == 6
Keys == {"search", "editions", "details", "book", "records", "subject", "description", "price", "rating"}

PlanOf(k) == Adapter(source)[k]
Parts(k) == DOMAIN PlanOf(k).parts
NotRun == [pc |-> "idle", parts |-> <<>>, lost |-> {}, found |-> FALSE]
Forgotten == [held |-> FALSE, lost |-> {}, found |-> FALSE]

SourcesInit ==
  /\ source \in AskedSources
  /\ syncs = [a \in Attempts |-> [pc |-> "idle", outcome |-> "none", lost |-> {}]]
  /\ ops = [o \in Attempts \X Kinds |-> NotRun]
  /\ memory = [k \in Keys |-> Forgotten]
  /\ owned = [p \in Kinds \X (1..MaxParts) |-> "none"]
  /\ expiries = 0

\* An operation begins with a look into the cache.
Begun(k) ==
  IF PlanOf(k).key # "none" /\ memory[PlanOf(k).key].held
  THEN [pc |-> "done", parts |-> <<>>, lost |-> memory[PlanOf(k).key].lost, found |-> memory[PlanOf(k).key].found]
  ELSE [NotRun EXCEPT !.pc = "run", !.parts = [i \in Parts(k) |-> "todo"]]

StartSync(a) ==
  /\ syncs[a].pc = "idle" /\ (a > 1 => syncs[a - 1].pc = "done")
  /\ syncs' = [syncs EXCEPT ![a].pc = "search"]
  /\ ops' = [ops EXCEPT ![<<a, "search">>] = Begun("search")]
  /\ UNCHANGED <<source, memory, owned, expiries>>

Decided(s) == s \in {"got", "missed", "unneeded"}
Ready(a, k, i) ==
  LET o == ops[<<a, k>>] IN
  /\ o.pc = "run" /\ i \in DOMAIN o.parts /\ o.parts[i] = "todo"
  /\ \A j \in PlanOf(k).parts[i].after : Decided(o.parts[j])
Pointless(a, k, i) == LET on == PlanOf(k).parts[i].on IN on # 0 /\ ops[<<a, k>>].parts[on] # "got"
Mark(a, k, i, s) == ops' = [ops EXCEPT ![<<a, k>>].parts[i] = s]

\* A part nothing calls for, one its own cache entry answers, or a request.
\* The operation runs on until it waits for answers to all it has asked.
TakeUp(a, k, i) ==
  /\ Ready(a, k, i) /\ \A j \in 1..(i - 1) : ~Ready(a, k, j)
  /\ \/ /\ Pointless(a, k, i) \/ PlanOf(k).parts[i].maybe
        /\ Mark(a, k, i, "unneeded")
     \/ /\ ~Pointless(a, k, i)
        /\ Mark(a, k, i, IF owned[<<k, i>>] = "none" THEN "asked" ELSE owned[<<k, i>>])
  /\ UNCHANGED <<source, syncs, memory, owned, expiries>>

Asks(o) == {i \in DOMAIN o.parts : o.parts[i] = "asked"}
\* The operation has thrown: requests under way go on, no more are made.
(* Mutant: the branches of a Promise.all are stopped by nothing. *)
ThrownGoesOn(o, i) == [o EXCEPT !.pc = "failed", !.parts[i] = "unneeded"]
Thrown(o, i) ==
  [NotRun EXCEPT !.pc = "failed",
                 !.parts = [j \in DOMAIN o.parts |-> IF j \in Asks(o) \ {i} THEN "asked" ELSE "unneeded"]]

\* A request is answered: 2xx, 4xx or an exception.  After a sibling has thrown
\* nobody waits for it, but it still fills the part's own cache entry.
Receive(a, k, i) ==
  LET o == ops[<<a, k>>]  part == PlanOf(k).parts[i]
      kept(s) == IF part.own = "any" \/ (part.own = "got" /\ s = "got") THEN s ELSE owned[<<k, i>>] IN
  /\ i \in Asks(o) /\ \A j \in DOMAIN o.parts : ~Ready(a, k, j)
  /\ \E policy \in {"got", part.down} \cup part.client :
       LET s == IF policy \in {"got", "none"} THEN "got" ELSE "missed" IN
       /\ owned' = [owned EXCEPT ![<<k, i>>] = IF policy = "fail" THEN @ ELSE kept(s)]
       /\ ops' = [ops EXCEPT ![<<a, k>>] =
                   IF o.pc = "failed" \/ policy = "fail" THEN Thrown(o, i)
                     ELSE IF policy = "quit" THEN [NotRun EXCEPT !.pc = "done", !.lost = o.lost \cup {i}]
                     ELSE [o EXCEPT !.parts[i] = s, !.lost = IF s = "missed" THEN @ \cup {i} ELSE @]]
  /\ UNCHANGED <<source, syncs, memory, expiries>>

\* Everything asked for is in: the answer is remembered and returned.
EndOp(a, k) ==
  LET o == ops[<<a, k>>]  key == PlanOf(k).key IN
  /\ o.pc = "run" /\ \A i \in DOMAIN o.parts : Decided(o.parts[i])
  /\ \E found \in BOOLEAN :
       /\ ops' = [ops EXCEPT ![<<a, k>>] = [pc |-> "done", parts |-> <<>>, lost |-> o.lost, found |-> found]]
       /\ memory' = IF key = "none" THEN memory
                    ELSE [memory EXCEPT ![key] = [held |-> TRUE, lost |-> o.lost, found |-> found]]
  /\ UNCHANGED <<source, syncs, owned, expiries>>

\* The sync is over; what still runs, runs for nobody.
Finish(a, outcome) ==
  /\ syncs' = [syncs EXCEPT ![a] = [pc |-> "done", outcome |-> outcome, lost |-> ops[<<a, "search">>].lost]]
  /\ ops' = [o \in DOMAIN ops |-> IF o[1] # a \/ ops[o].pc = "run" \/ Asks(ops[o]) # {} THEN ops[o] ELSE NotRun]

\* findTopMatch: nothing found ends the sync, an exception too.
AfterSearch(a) ==
  LET o == ops[<<a, "search">>] IN
  /\ syncs[a].pc = "search" /\ o.pc \in {"done", "failed"}
  /\ IF o.pc = "done" /\ o.found /\ source \in Discovery \cup Catalogues
     THEN /\ syncs' = [syncs EXCEPT ![a].pc = "fetch"]
          /\ ops' = [ops EXCEPT ![<<a, "editions">>] = Begun("editions"), ![<<a, "details">>] = Begun("details")]
     ELSE Finish(a, IF o.pc = "failed" THEN "error" ELSE IF o.found THEN "answered" ELSE "not_found")
  /\ UNCHANGED <<source, memory, owned, expiries>>

\* Promise.all: the first to throw ends the sync, the other goes on unheard.
AfterFetch(a) ==
  LET e == ops[<<a, "editions">>].pc  d == ops[<<a, "details">>].pc IN
  /\ syncs[a].pc = "fetch"
  /\ "failed" \in {e, d} \/ {e, d} = {"done"}
  /\ Finish(a, IF "failed" \in {e, d} THEN "error" ELSE "synced")
  /\ UNCHANGED <<source, memory, owned, expiries>>

\* An entry's time is up.
Expire(key) ==
  /\ expiries < MaxExpiries /\ expiries' = expiries + 1
  /\ memory[key].held /\ memory' = [memory EXCEPT ![key] = Forgotten]
  /\ UNCHANGED <<source, syncs, ops, owned>>
ExpireOwn(p) ==
  /\ expiries < MaxExpiries /\ expiries' = expiries + 1
  /\ owned[p] # "none" /\ owned' = [owned EXCEPT ![p] = "none"]
  /\ UNCHANGED <<source, syncs, ops, memory>>

SourcesNext ==
  \/ \E a \in Attempts : StartSync(a) \/ AfterSearch(a) \/ AfterFetch(a)
  \/ \E a \in Attempts, k \in Kinds : EndOp(a, k) \/ \E i \in Parts(k) : TakeUp(a, k, i) \/ Receive(a, k, i)
  \/ \E key \in Keys : Expire(key)
  \/ \E k \in Kinds : \E i \in Parts(k) : ExpireOwn(<<k, i>>)
SourcesSpec == SourcesInit /\ [][SourcesNext]_sourceVars

-----------------------------------------------------------------------------
SourcesTypeOK ==
  /\ source \in AskedSources
  /\ syncs \in [Attempts -> [pc : {"idle", "search", "fetch", "done"},
                             outcome : {"none", "error", "not_found", "answered", "synced"},
                             lost : SUBSET (1..MaxParts)]]
  /\ \A o \in Attempts \X Kinds :
       /\ ops[o].pc \in {"idle", "run", "done", "failed"} /\ ops[o].found \in BOOLEAN
       /\ ops[o].lost \subseteq 1..MaxParts
       /\ \A i \in DOMAIN ops[o].parts :
            ops[o].parts[i] \in IF ops[o].pc = "failed" THEN {"asked", "unneeded"}
                                ELSE {"todo", "asked", "got", "missed", "unneeded"}
  /\ memory \in [Keys -> [held : BOOLEAN, lost : SUBSET (1..MaxParts), found : BOOLEAN]]
  /\ owned \in [Kinds \X (1..MaxParts) -> {"none", "got", "missed"}]

\* What is remembered or concluded was asked for: "not_found" is the source's
\* answer, now or as remembered, never the trace of a request that failed (the
\* backfill takes it for a reason not to ask again), and a catalogue's remembered
\* records hold every lookup made for them.
OnlyWholeIsKept ==
  /\ \A a \in Attempts : source \in Discovery \cup Catalogues /\ syncs[a].outcome = "not_found" => syncs[a].lost = {}
  /\ source \in Catalogues => memory["records"].lost = {}
=============================================================================
