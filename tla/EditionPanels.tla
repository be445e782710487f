------------------------------- MODULE EditionPanels -------------------------------
(***************************************************************************)
(* What the API answers when a part of a work's page asks about its        *)
(* printings: the links panel (GetEditionLinks), the price panel           *)
(* (AggregateEditionPrices) and the ratings (AggregateTranslationRatings), *)
(* each cached under the work's prefix; and LinkPolicy, which decides      *)
(* which links may exist at all.  A sync is its last three steps here, from *)
(* the deletion of the cached answers to the commit or the rollback;       *)
(* SyncWork has those before, which nobody else can see.                   *)
(***************************************************************************)
EXTENDS Naturals, FiniteSets, Sequences

CONSTANTS
  Printings,     \* editions of the work: id -> [lang, year, isbn]
  PageOrder,        \* their ids in the order the page renders them
  Claims,        \* what sources may say of a printing: [rights, first, links]
  Shops,         \* shop -> the country it sells in, or Worldwide
  MarketOf,      \* country -> its market language
  Countries,     \* what a reader may have chosen, NoCountry among them
  Pricers,       \* price providers
  Raters,        \* rating providers
  MaxLookups,    \* MAX_LOOKUPS_PER_WORK
  InFlight,      \* LOOKUP_CONCURRENCY
  ShortLife,     \* DEGRADED_TTL_SECONDS, RATINGS_DEGRADED_TTL_SECONDS, in ticks
  LongLife,      \* PRICES_TTL_SECONDS, RATINGS_TTL_SECONDS
  MaxQuestions,  \* bound: price or rating requests at once
  MaxRows,       \* bound: links stored when a sync deletes
  MaxReaders,    \* bound: requests for a links panel at once
  MaxPanels      \* bound: links panels in Redis at once
ASSUME PanelBounds == ShortLife \in Nat \ {0} /\ LongLife \in Nat /\ ShortLife < LongLife

NoCountry == "none"
Worldwide == "worldwide"
Unstated == 0                  \* a year nobody gave

VARIABLES
  rows,          \* source_link: <<printing, provider, type, url>> -> [rights, free, first]
  linkSync,      \* the work's sync between deleteByPrefix and its end: [of, claim], or NoSync
  panels,        \* Redis: <<printing, country>> -> the links panel's answer
  readers,       \* requests for one: slot -> [pc, key, own, via], or NoReader
  kept,          \* Redis: "prices", "ratings" -> [failed, age], or NotKept
  questions      \* requests under way: slot -> [about, todo, asking, failed]
panelVars == <<rows, linkSync, panels, readers, kept, questions>>
linkVars == <<rows, linkSync, panels, readers>>

-----------------------------------------------------------------------------
(* LinkPolicy. *)

DownloadAllowlist == {"gutenberg", "internet-archive", "wikisource", "standard-ebooks",
                      "librivox", "authorized-free", "gallica"}
Chartered == DownloadAllowlist \ {"internet-archive", "gallica"}
ThisYear == 2026
Window == 95                   \* PUBLIC_DOMAIN_PLAUSIBILITY_YEARS
Copies == {"download", "listen"}

Granted(c) == c.rights \in {"public_domain", "open_license"}
Plausible(c) ==
  c.rights = "public_domain" /\ c.provider \notin Chartered /\ c.first # Unstated
    => c.first <= ThisYear - Window

(* Mutant: what a host calls public domain is. *)
AllowedByLabel(c) ==
  /\ ~c.denied
  /\ c.type \in Copies => c.provider \in DownloadAllowlist /\ Granted(c)

(* assertLinkAllowed.  A denied host is one of the denylist or below one.  *)
Allowed(c) ==
  /\ ~c.denied
  /\ c.type \in Copies => c.provider \in DownloadAllowlist /\ Granted(c) /\ Plausible(c)

(* A source's rights and year hold for every link of its answer. *)
Candidate(claim, link) ==
  [type |-> link.type, provider |-> link.provider, url |-> link.url, denied |-> link.denied,
   rights |-> claim.rights, first |-> claim.first]

-----------------------------------------------------------------------------
(* syncLinks: what the policy accepts is written, ON CONFLICT over the     *)
(* rights only, and the rest is skipped: a row once accepted stays.  The   *)
(* year is no column; the model keeps it to judge the row by.              *)
Accepted(claim) == {c \in {Candidate(claim, l) : l \in claim.links} : Allowed(c)}
RowKey(p, c) == <<p, c.provider, c.type, c.url>>
Row(c) == [rights |-> c.rights, free |-> Granted(c), first |-> c.first]
Stored(p, claim) ==
  LET new == {RowKey(p, c) : c \in Accepted(claim)}
  IN [k \in DOMAIN rows \cup new |->
        IF k \in new THEN Row(CHOOSE c \in Accepted(claim) : RowKey(p, c) = k) ELSE rows[k]]

NotKept == [failed |-> {}, age |-> LongLife]
NoSync == [of |-> {}, claim |-> {}]

(* A request for a panel and what it has read.  Observers, read by no      *)
(* action: had, whether a copy in the language was stored when it began,   *)
(* and crossed, whether a sync was between its deletion and its end at     *)
(* some moment until the answer was kept.                                  *)
NoReader == [pc |-> "idle", key |-> << >>, own |-> << >>, via |-> {}, had |-> FALSE, crossed |-> FALSE]
Crossed == [s \in DOMAIN readers |->
              IF readers[s] = NoReader THEN NoReader ELSE [readers[s] EXCEPT !.crossed = TRUE]]

(* Mutant: a sync deletes the answers about the printing it wrote. *)
DeleteOwnPanels(p, claim) ==
  /\ linkSync = NoSync /\ Cardinality(DOMAIN rows) <= MaxRows
  /\ linkSync' = [of |-> {p}, claim |-> {claim}]
  /\ panels' = [k \in {x \in DOMAIN panels : x[1] # p} |-> panels[k]]
  /\ kept' = [a \in DOMAIN kept |-> NotKept]
  /\ readers' = Crossed
  /\ UNCHANGED <<rows, questions>>

(* deleteByPrefix over all the work's answers, with the work's row locked, *)
(* so no other sync of it comes in before this one has ended.  It deletes  *)
(* what is there when it begins; of what is set until it ends some may go, *)
(* as PanelExpires says.                                                   *)
DeletePanels(p, claim) ==
  /\ linkSync = NoSync /\ Cardinality(DOMAIN rows) <= MaxRows
  /\ linkSync' = [of |-> {p}, claim |-> {claim}]
  /\ panels' = << >>
  /\ kept' = [a \in DOMAIN kept |-> NotKept]
  /\ readers' = Crossed
  /\ UNCHANGED <<rows, questions>>

CommitSync ==
  /\ \E p \in linkSync.of, claim \in linkSync.claim : rows' = Stored(p, claim)
  /\ linkSync' = NoSync
  /\ UNCHANGED <<panels, readers, kept, questions>>

(* The worker dies or the commit fails: what was deleted stays deleted.    *)
RollBack ==
  /\ linkSync # NoSync /\ linkSync' = NoSync
  /\ UNCHANGED <<rows, panels, readers, kept, questions>>

-----------------------------------------------------------------------------
(* GetEditionLinks, a step per await that reads or writes.                 *)

Own(p) == {k \in DOMAIN rows : k[1] = p}
IsCopy(k) == rows[k].free /\ k[3] \in Copies
HasCopy(p) == \E k \in Own(p) : IsCopy(k)
Siblings(p) == {q \in DOMAIN Printings \ {p} : Printings[q].lang = Printings[p].lang}
(* By year, a missing one last; equals in the table's order. *)
Before(q, r) == Printings[q].year # Unstated /\ (Printings[r].year = Unstated \/ Printings[q].year < Printings[r].year)
Oldest(ps) == {q \in ps : \A r \in ps : ~Before(r, q)}

Family(p) == {p} \cup Siblings(p)

(* Mutant: the oldest sibling, whatever it has. *)
CopiesOfOldest(p) ==
  IF Siblings(p) = {} THEN {{}} ELSE {{k \in Own(q) : IsCopy(k)} : q \in Oldest(Siblings(p))}

(* findFreeCopyOnSiblingEdition: the oldest of those that have a copy.     *)
SiblingCopies(p) ==
  LET giving == {q \in Siblings(p) : HasCopy(q)}
  IN IF giving = {} THEN {{}} ELSE {{k \in Own(q) : IsCopy(k)} : q \in Oldest(giving)}

(* bookstoresForGrouped: why a shop is offered, the strongest reason.  The *)
(* lookup is by ISBN, or by title and author where there is none.          *)
GroupOf(shop, p, country) ==
  LET c == Shops[shop]
  IN CASE c = country /\ country # NoCountry -> "country"
       [] c \in DOMAIN MarketOf /\ c # country /\ MarketOf[c] = Printings[p].lang -> "language"
       [] c = Worldwide -> "worldwide"
       [] OTHER -> "none"
Bookstores(p, country) ==
  {<<s, GroupOf(s, p, country), IF Printings[p].isbn THEN "isbn" ELSE "words">> :
     s \in {t \in DOMAIN Shops : GroupOf(t, p, country) # "none"}}

OwnLinks(p) == [k \in Own(p) |-> rows[k].rights]

(* findById and cache.get: the answer is not in Redis. *)
AskLinks(s, p, country) ==
  /\ readers[s] = NoReader /\ <<p, country>> \notin DOMAIN panels
  /\ readers' = [readers EXCEPT ![s] =
       [pc |-> "own", key |-> <<p, country>>, own |-> << >>, via |-> {},
        had |-> \E q \in Family(p) : HasCopy(q), crossed |-> linkSync # NoSync]]
  /\ UNCHANGED <<rows, linkSync, panels, kept, questions>>

(* Mutant: the rows of an open transaction are seen. *)
ReadOwnAhead(s) ==
  LET p == readers[s].key[1]
      seen == UNION {DOMAIN Stored(p, claim) : claim \in IF p \in linkSync.of THEN linkSync.claim ELSE {}} \cup Own(p)
  IN /\ readers[s].pc = "own"
     /\ readers' = [readers EXCEPT ![s].pc = IF HasCopy(p) THEN "keep" ELSE "siblings",
                                   ![s].own = [k \in {x \in seen : x[1] = p} |-> "public_domain"]]
     /\ UNCHANGED <<rows, linkSync, panels, kept, questions>>

(* findByEditionId. *)
ReadOwn(s) ==
  LET p == readers[s].key[1]
  IN /\ readers[s].pc = "own"
     /\ readers' = [readers EXCEPT ![s].pc = IF HasCopy(p) THEN "keep" ELSE "siblings",
                                   ![s].own = OwnLinks(p)]
     /\ UNCHANGED <<rows, linkSync, panels, kept, questions>>

(* findFreeDownloadsByEditionIds, of the printings in the language. *)
ReadSiblings(s) ==
  /\ readers[s].pc = "siblings"
  /\ \E via \in SiblingCopies(readers[s].key[1]) :
       readers' = [readers EXCEPT ![s].pc = "keep", ![s].via = via]
  /\ UNCHANGED <<rows, linkSync, panels, kept, questions>>

(* buildBookstoreLinks and cache.set, and the answer is given. *)
KeepPanel(s) ==
  LET r == readers[s]
      key == r.key
  IN /\ r.pc = "keep" /\ Cardinality(DOMAIN panels \cup {key}) <= MaxPanels
     /\ panels' = [k \in DOMAIN panels \cup {key} |->
                     IF k # key THEN panels[k]
                     ELSE [own |-> r.own, via |-> r.via, shops |-> Bookstores(key[1], key[2]),
                           had |-> r.had, crossed |-> r.crossed]]
     /\ readers' = [readers EXCEPT ![s] = NoReader]
     /\ UNCHANGED <<rows, linkSync, kept, questions>>

(* A query fails, or the API dies. *)
AskFails(s) ==
  /\ readers[s] # NoReader /\ readers' = [readers EXCEPT ![s] = NoReader]
  /\ UNCHANGED <<rows, linkSync, panels, kept, questions>>

PanelExpires(k) ==
  /\ k \in DOMAIN panels
  /\ panels' = [j \in DOMAIN panels \ {k} |-> panels[j]]
  /\ UNCHANGED <<rows, linkSync, readers, kept, questions>>

-----------------------------------------------------------------------------
(* Prices and ratings: settleProviders over every price provider at once;  *)
(* the printings of the page that have an ISBN, a few at a time and not    *)
(* above the bound, each over every rating provider, and the review links. *)

Looked(about) ==
  IF about = "prices" THEN Pricers
  ELSE LET asked == SelectSeq(PageOrder, LAMBDA p : Printings[p].isbn)
       IN {asked[i] : i \in {j \in DOMAIN asked : j <= MaxLookups}}
AtOnce(about) == IF about = "prices" THEN Cardinality(Pricers) ELSE InFlight
NoQuestion == [about |-> "none", todo |-> {}, asking |-> {}, failed |-> {}]

(* The first of those left to ask, in the page's order for the ratings.    *)
NextUp(q) ==
  {x \in q.todo : q.about = "ratings" =>
     \A y \in q.todo : \E i, j \in 1..Len(PageOrder) : PageOrder[i] = x /\ PageOrder[j] = y /\ i <= j}

(* Answered from Redis, or a question begins; the review links are asked   *)
(* for beside the workers.                                                 *)
Question(s, about) ==
  /\ questions[s].about = "none" /\ kept[about] = NotKept
  /\ questions' = [questions EXCEPT ![s] = [about |-> about, todo |-> Looked(about), failed |-> {},
                                            asking |-> IF about = "ratings" THEN {"reviews"} ELSE {}]]
  /\ UNCHANGED <<linkVars, kept>>

(* A worker of mapWithConcurrency takes the next. *)
LookUp(s) ==
  LET q == questions[s]
  IN /\ Cardinality(q.asking \ {"reviews"}) < AtOnce(q.about)
     /\ \E x \in NextUp(q) :
          questions' = [questions EXCEPT ![s].todo = @ \ {x}, ![s].asking = @ \cup {x}]
     /\ UNCHANGED <<linkVars, kept>>

(* Whom a look-up asks; one failing on several printings is named once.    *)
Sources(about, x) == IF about = "prices" THEN {x} ELSE IF x = "reviews" THEN {"reviews"} ELSE Raters
LookedUp(s, x, failed) ==
  /\ x \in questions[s].asking /\ failed \subseteq Sources(questions[s].about, x)
  /\ questions' = [questions EXCEPT ![s].asking = @ \ {x}, ![s].failed = @ \cup failed]
  /\ UNCHANGED <<linkVars, kept>>

Life(k) == IF k.failed = {} THEN LongLife ELSE ShortLife

(* Mutant: half an answer lives as long as a whole one. *)
AgedAlike(k) == IF k.age + 1 >= LongLife THEN NotKept ELSE [k EXCEPT !.age = @ + 1]
Aged(k) == IF k.age + 1 >= Life(k) THEN NotKept ELSE [k EXCEPT !.age = @ + 1]

(* Every look-up has landed: the answer is kept and given, for long only   *)
(* when nobody failed.                                                     *)
KeepAnswer(s) ==
  LET q == questions[s]
  IN /\ q.about # "none" /\ q.todo = {} /\ q.asking = {}
     /\ kept' = [kept EXCEPT ![q.about] = [failed |-> q.failed, age |-> 0]]
     /\ questions' = [questions EXCEPT ![s] = NoQuestion]
     /\ UNCHANGED linkVars

Tick ==
  /\ \E a \in DOMAIN kept : kept[a] # NotKept
  /\ kept' = [a \in DOMAIN kept |-> IF kept[a] = NotKept THEN NotKept ELSE Aged(kept[a])]
  /\ UNCHANGED <<linkVars, questions>>

-----------------------------------------------------------------------------
PanelsInit ==
  /\ rows = << >> /\ linkSync = NoSync /\ panels = << >>
  /\ readers = [s \in 1..MaxReaders |-> NoReader]
  /\ kept = [a \in {"prices", "ratings"} |-> NotKept]
  /\ questions = [s \in 1..MaxQuestions |-> NoQuestion]

LinksNext ==
  \/ \E p \in DOMAIN Printings, claim \in Claims : DeletePanels(p, claim)
  \/ CommitSync \/ RollBack
  \/ \E s \in DOMAIN readers, p \in DOMAIN Printings, country \in Countries : AskLinks(s, p, country)
  \/ \E s \in DOMAIN readers : ReadOwn(s) \/ ReadSiblings(s) \/ KeepPanel(s) \/ AskFails(s)
  \/ \E k \in DOMAIN panels : PanelExpires(k)
QuotesNext ==
  \/ \E s \in DOMAIN questions, about \in DOMAIN kept : Question(s, about)
  \/ \E s \in DOMAIN questions : LookUp(s) \/ KeepAnswer(s)
  \/ \E s \in DOMAIN questions : \E x \in questions[s].asking :
       \E failed \in SUBSET Sources(questions[s].about, x) : LookedUp(s, x, failed)
  \/ Tick

PanelsSpec == PanelsInit /\ [][LinksNext \/ QuotesNext]_panelVars

RowKeys == {RowKey(p, c) : p \in DOMAIN Printings,
                           c \in UNION {{Candidate(m, l) : l \in m.links} : m \in Claims}}
PanelsTypeOK ==
  /\ DOMAIN rows \subseteq RowKeys
  /\ linkSync.of \subseteq DOMAIN Printings /\ linkSync.claim \subseteq Claims
  /\ DOMAIN panels \subseteq (DOMAIN Printings) \X Countries
  /\ \A s \in DOMAIN readers : \/ readers[s] = NoReader
                              \/ /\ readers[s].pc \in {"own", "siblings", "keep"}
                                 /\ readers[s].key \in (DOMAIN Printings) \X Countries
  /\ \A a \in DOMAIN kept : kept[a].failed \subseteq Pricers \cup Raters \cup {"reviews"} /\ kept[a].age \in 0..LongLife
  /\ \A s \in DOMAIN questions : questions[s].about \in {"none"} \cup DOMAIN kept

(* What an answer would say now, and whether it offers a copy.             *)
AsNow(p, a) == a.own = OwnLinks(p) /\ a.via \in (IF HasCopy(p) THEN {{}} ELSE SiblingCopies(p))
GivesCopy(a) == a.via # {} \/ \E r \in DOMAIN a.own : IsCopy(r)

(* However the reads of a links panel fall among the steps of syncs: what  *)
(* it offers is stored and committed, its own links of the printing asked  *)
(* about, another's only free copies in the same language, shops for the   *)
(* country in its key; a copy that could be had in the language when it    *)
(* was asked for is not missed.  One that was kept without a sync between  *)
(* its deletion and its end answers what would be answered now; the others *)
(* may lag behind a commit until they expire (sync-work-from-source:226).  *)
PanelsTrue ==
  \A k \in DOMAIN panels :
    LET p == k[1]
        a == panels[k]
    IN /\ a.shops = Bookstores(p, k[2])
       /\ DOMAIN a.own \subseteq Own(p)
       /\ \A r \in a.via : r \in DOMAIN rows /\ r[1] \in Siblings(p) /\ IsCopy(r)
       /\ a.had => GivesCopy(a)
       /\ ~a.crossed => AsNow(p, a) /\ (GivesCopy(a) <=> \E q \in Family(p) : HasCopy(q))

(* A copy stored is from an allowlisted provider with granted rights, on a *)
(* claim that can be believed of a general host (docs/legal-policy.md I-1, *)
(* ADR-0011), whichever sources were synced in which order.                *)
CopiesAllowed ==
  \A r \in DOMAIN rows : r[3] \in Copies =>
    /\ r[2] \in DownloadAllowlist /\ rows[r].rights \in {"public_domain", "open_license"}
    /\ rows[r].rights = "open_license" \/ r[2] \in Chartered
         \/ rows[r].first = Unstated \/ rows[r].first <= ThisYear - Window

(* Prices and ratings that somebody failed to give are not answered from   *)
(* the cache once the short life of such an answer is over.                *)
QuotesFresh == \A a \in DOMAIN kept : kept[a].age >= ShortLife => kept[a].failed = {}

(* The panels of an edition say what is stored and permitted, as of now    *)
(* unless a sync's gap was crossed, and half an answer is soon asked for   *)
(* again.                                                                  *)
AnswersAreHonest == PanelsTrue /\ CopiesAllowed /\ QuotesFresh
=============================================================================
