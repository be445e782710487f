-------------------------------- MODULE Lists --------------------------------
(***************************************************************************)
(* Lists of stored works that queue nothing: the free shelf, paged while   *)
(* syncs add to it (ListFreeBooks, FreeBooksCatalog); and, as answers to a *)
(* question each, what a reader's history recommends (reading-history,     *)
(* RecommendBooks), the genres to choose from (ListSubjects), and the      *)
(* works a query finds in two spellings (PgWorkSearchAdapter).             *)
(* A work is its place in the order of titles.                             *)
(***************************************************************************)
EXTENDS Naturals, Sequences, FiniteSets
LOCAL INSTANCE FiniteSetsExt
LOCAL INSTANCE SequencesExt
LOCAL INSTANCE Functions

CONSTANTS
  YearOf,          \* stored work -> its first year, 0 when unknown
  Printed,         \* printings a sync may store: [lang, types], the types of its free links
  StocksAtFirst,   \* what may be stored when the reader comes: work -> sequence of printings
  PAGE_SIZE,
  MaxPrinted,      \* bound: printings synced while the reader pages
  Tastes,          \* [opened, hidden, tags]: works in the order they were opened, genres,
                   \* and work -> its genres
  TagLists,        \* work -> the tags it was given, [name, folded]
  NotGenres,       \* folded tags that describe a copy, are a machine's or too long for a chip
  MostTags,        \* bound: tags of a work
  TextHits,        \* a sequence of one or two spellings: work -> what of it matches, Arms
  MAX_ENTRIES, MAX_SUBJECTS, RESULT_SIZE, FETCH_MULTIPLIER, MAX_GENRES, SearchLimit

(* However much of the history is stored here, a full row is left of what  *)
(* is fetched for one.                                                     *)
ASSUME ListsAssumption ==
  /\ {PAGE_SIZE, RESULT_SIZE, SearchLimit} \subseteq Nat \ {0}
  /\ MAX_ENTRIES <= RESULT_SIZE * (FETCH_MULTIPLIER - 1)

VARIABLES
  stock,        \* work -> the printings stored
  freeCache,    \* offset -> [books, total, fresh, there], of this list's language
  freeList,     \* the page: [pc, lang, books, total, found, steady]
  syncsLeft,
  matter        \* what is asked of the other lists: [of, what]
listVars == <<stock, freeCache, freeList, syncsLeft, matter>>

AnyLanguage == "any"
NotCached == [books |-> << >>, total |-> 0, fresh |-> FALSE, there |-> FALSE]
StoredWorks == DOMAIN YearOf
AtMost(n, s) == SubSeq(s, 1, Min({n, Len(s)}))

-----------------------------------------------------------------------------
(* The free shelf.  What is free to have is decided when a link is stored  *)
(* (LinkPolicy); what only may be borrowed or read is not on this shelf.   *)

(* Mutant: any legal link will do. *)
FreeOrLent(lang) ==
  {w \in StoredWorks : \E p \in ToSet(stock[w]) : lang \in {AnyLanguage, p.lang} /\ p.types # {}}

FreeIn(lang) ==
  {w \in StoredWorks : \E p \in ToSet(stock[w]) :
     lang \in {AnyLanguage, p.lang} /\ p.types \cap {"download", "listen"} # {}}

Sooner(v, w) ==
  LET n(x) == Len(stock[x])
  IN \/ n(v) > n(w)
     \/ n(v) = n(w) /\ YearOf[v] > YearOf[w]
     \/ n(v) = n(w) /\ YearOf[v] = YearOf[w] /\ v < w
FreeShelf(lang) == SetToSortSeq(FreeIn(lang), Sooner)

PageFrom(books, offset) ==
  LET page == SubSeq(books, offset + 1, Min({offset + PAGE_SIZE, Len(books)}))
  IN [books |-> page, total |-> IF page = << >> THEN 0 ELSE Len(books), fresh |-> TRUE, there |-> TRUE]

(* A printing is stored.  Pages read before are no longer of what there is.*)
StorePrinting(w, p) ==
  /\ syncsLeft > 0 /\ syncsLeft' = syncsLeft - 1
  /\ stock' = [stock EXCEPT ![w] = Append(@, p)]
  /\ freeCache' = [k \in DOMAIN freeCache |-> [freeCache[k] EXCEPT !.fresh = FALSE]]
  /\ freeList' = [freeList EXCEPT !.steady = FALSE, !.found.fresh = FALSE]
  /\ UNCHANGED matter

(* The page asks for its first books, or its reader for more; the button   *)
(* takes no second click while it waits.                                   *)
ClosedList == [pc |-> "closed", lang |-> AnyLanguage, books |-> << >>, total |-> 0, found |-> NotCached, steady |-> TRUE]
OpenFree ==
  /\ freeList' = [ClosedList EXCEPT !.pc = "asking", !.lang = freeList.lang]
  /\ UNCHANGED <<stock, freeCache, syncsLeft, matter>>
ShowMore ==
  /\ freeList.pc = "shown" /\ Len(freeList.books) < freeList.total
  /\ freeList' = [freeList EXCEPT !.pc = "asking"]
  /\ UNCHANGED <<stock, freeCache, syncsLeft, matter>>

Offset == Len(freeList.books)
(* Mutant: pages are put one after another. *)
TakingAll(page) ==
  [freeList EXCEPT !.pc = "shown", !.books = @ \o page.books, !.total = IF Offset = 0 THEN page.total ELSE @,
     !.found = NotCached, !.steady = @ /\ page.fresh]

\* Books of a page that are shown are dropped; the first page says how many there are.
Taking(page) ==
  [freeList EXCEPT !.pc = "shown",
     !.books = @ \o SelectSeq(page.books, LAMBDA b : b \notin ToSet(freeList.books)),
     !.total = IF Offset = 0 THEN page.total ELSE @,
     !.found = NotCached, !.steady = @ /\ page.fresh]

AnswerFromCache ==
  /\ freeList.pc = "asking" /\ freeCache[Offset].there
  /\ freeList' = Taking(freeCache[Offset])
  /\ UNCHANGED <<stock, freeCache, syncsLeft, matter>>
ReadFree ==
  /\ freeList.pc = "asking" /\ ~freeCache[Offset].there
  /\ freeList' = [freeList EXCEPT !.pc = "read", !.found = PageFrom(FreeShelf(freeList.lang), Offset)]
  /\ UNCHANGED <<stock, freeCache, syncsLeft, matter>>
KeepAndAnswer ==
  /\ freeList.pc = "read"
  /\ freeCache' = [freeCache EXCEPT ![Offset] = freeList.found]
  /\ freeList' = Taking(freeList.found)
  /\ UNCHANGED <<stock, syncsLeft, matter>>
(* A page that shows nothing yet cannot be shown; a later one stays as it is. *)
FreeFails ==
  /\ freeList.pc \in {"asking", "read"}
  /\ freeList' = [freeList EXCEPT !.pc = IF Offset = 0 THEN "closed" ELSE "shown", !.found = NotCached]
  /\ UNCHANGED <<stock, freeCache, syncsLeft, matter>>

(* Another reader's request is kept, and entries live for five minutes each. *)
SomebodyReads(offset) ==
  /\ ~freeCache[offset].there
  /\ freeCache' = [freeCache EXCEPT ![offset] = PageFrom(FreeShelf(freeList.lang), offset)]
  /\ UNCHANGED <<stock, freeList, syncsLeft, matter>>
FreeExpires(k) ==
  /\ freeCache[k].there
  /\ freeCache' = [freeCache EXCEPT ![k] = NotCached]
  /\ UNCHANGED <<stock, freeList, syncsLeft, matter>>

-----------------------------------------------------------------------------
(* What a reader's history recommends.  The browser keeps the books opened *)
(* and sends genres; the books are picked from what shares them.           *)

RecordVisit(tags, history, w) ==
  IF tags[w] = << >> THEN history
  ELSE AtMost(MAX_ENTRIES, <<w>> \o SelectSeq(history, LAMBDA v : v # w))
HistoryOf(taste) == FoldLeft(LAMBDA h, w : RecordVisit(taste.tags, h, w), << >>, taste.opened)

\* An entry counts 1 / (1 + 0.2 * index), index from 0; times this it is whole.
AllRecencies == FoldLeft(LAMBDA n, i : n * (4 + i), 1, [i \in 1..MAX_ENTRIES |-> i])
Sightings(tags, history, s) == {i \in DOMAIN history : s \in ToSet(tags[history[i]])}
Weight(at) == MapThenSumSet(LAMBDA i : AllRecencies \div (4 + i), at)
\* A Map keeps its keys in the order they came: entry by entry, tag by tag.
CameFirst(tags, history, s, t) ==
  LET came(x) == Min(Sightings(tags, history, x))
      tagsThen == tags[history[came(s)]]
  IN \/ came(s) < came(t)
     \/ came(s) = came(t) /\ \E i, j \in DOMAIN tagsThen : i < j /\ tagsThen[i] = s /\ tagsThen[j] = t
BuildTasteProfile(tags, history, hidden) ==
  LET at == [s \in UNION {ToSet(tags[w]) : w \in ToSet(history)} \ hidden |-> Sightings(tags, history, s)]
      byWeight == SetToSortSeq(DOMAIN at, LAMBDA s, t :
                    \/ Weight(at[s]) > Weight(at[t])
                    \/ Weight(at[s]) = Weight(at[t]) /\ CameFirst(tags, history, s, t))
      repeated == SelectSeq(byWeight, LAMBDA s : Cardinality(at[s]) > 1)
  IN AtMost(MAX_SUBJECTS, IF repeated # << >> THEN repeated ELSE byWeight)

\* Asked for genres: how many of them each work has.  Those of one year come in any order.
Shared(tags, genres) == [w \in StoredWorks |-> Cardinality(ToSet(tags[w]) \cap ToSet(genres))]
RecommendBySubjects(shared) ==
  {AtMost(RESULT_SIZE * FETCH_MULTIPLIER, q) :
     q \in {q \in SetToSeqs({w \in StoredWorks : shared[w] > 0}) :
              \A i \in 2..Len(q) : \/ shared[q[i - 1]] > shared[q[i]]
                                   \/ shared[q[i - 1]] = shared[q[i]] /\ YearOf[q[i - 1]] >= YearOf[q[i]]}}
NotOpened(history, candidates) == SelectSeq(candidates, LAMBDA w : w \notin ToSet(history))
(* Mutant: what was opened is taken out of the row. *)
RecommendThenDrop(shared, history) == {NotOpened(history, AtMost(RESULT_SIZE, c)) : c \in RecommendBySubjects(shared)}

RecommendBooks(shared, history) == {AtMost(RESULT_SIZE, NotOpened(history, c)) : c \in RecommendBySubjects(shared)}

-----------------------------------------------------------------------------
(* The genres to choose from: headings as contributors write them, in any  *)
(* spelling of capitals; what describes a copy, or is too long for a chip, *)
(* is not a genre.                                                         *)

TagsFolded(tags, f) == {p \in StoredWorks \X (1..MostTags) : p[2] \in DOMAIN tags[p[1]] /\ tags[p[1]][p[2]].folded = f}
PopularSubjects(tags) ==
  LET count(f) == Cardinality(TagsFolded(tags, f))
      spelt(f) == Min({tags[p[1]][p[2]].name : p \in TagsFolded(tags, f)})
      folded == {t.folded : t \in UNION {ToSet(tags[w]) : w \in StoredWorks}}
      ordered == SetToSortSeq(folded, LAMBDA f, g : count(f) > count(g) \/ (count(f) = count(g) /\ f < g))
  IN [i \in DOMAIN ordered |-> [subject |-> spelt(ordered[i]), folded |-> ordered[i], workCount |-> count(ordered[i])]]
ListSubjects(tags) ==
  AtMost(MAX_GENRES, SelectSeq(AtMost(4 * MAX_GENRES, PopularSubjects(tags)), LAMBDA e : e.folded \notin NotGenres))
BrowseBySubject(tags, f) == {w \in StoredWorks : \E t \in ToSet(tags[w]) : t.folded = f}

-----------------------------------------------------------------------------
(* What a query finds, in the script it was typed in and in Latin letters. *)
(* Similarities are tenths.                                                *)

EditionArm(e) == IF e.within \/ e.like >= 5 THEN e.like ELSE 0
Found(arms) ==
  \/ arms.title >= 3 \/ arms.author >= 3 \/ arms.within
  \/ \E e \in arms.editions : e.within \/ e.like >= 5
RankOf(arms) == Max({arms.title, arms.author, arms.both} \cup {EditionArm(e) : e \in arms.editions})
\* Works of one rank come in any order.
RunSearch(hits) ==
  LET rank == [w \in {w \in StoredWorks : Found(hits[w])} |-> RankOf(hits[w])]
  IN {[i \in DOMAIN q |-> [id |-> q[i], rank |-> rank[q[i]]]] :
        q \in {AtMost(SearchLimit, q) : q \in
                {q \in SetToSeqs(DOMAIN rank) : \A i \in 2..Len(q) : rank[q[i - 1]] >= rank[q[i]]}}}
MergeByRank(a, b) ==
  LET both == a \o b
      places(id) == {i \in DOMAIN both : both[i].id = id}
      rank(id) == Max({both[i].rank : i \in places(id)})
      before(v, w) == rank(v) > rank(w) \/ (rank(v) = rank(w) /\ Min(places(v)) < Min(places(w)))
      ids == SetToSortSeq({both[i].id : i \in DOMAIN both}, before)
  IN AtMost(SearchLimit, [i \in DOMAIN ids |-> [id |-> ids[i], rank |-> rank(ids[i])]])
(* Mutant: the other spelling is for when the first finds nothing.         *)
SecondIfNone(spellings) ==
  {IF a = << >> THEN b ELSE a : a \in RunSearch(spellings[1]), b \in RunSearch(spellings[Len(spellings)])}

SearchTitles(spellings) ==
  IF Len(spellings) = 1 THEN RunSearch(spellings[1])
  ELSE {CASE a = << >> -> b [] b = << >> -> a [] OTHER -> MergeByRank(a, b) :
          a \in RunSearch(spellings[1]), b \in RunSearch(spellings[2])}

-----------------------------------------------------------------------------

Languages == {AnyLanguage, "fr"}
FreeKeys == 0..Cardinality(StoredWorks)
Unasked == [of |-> "none", what |-> << >>]
ListsInit ==
  /\ freeCache = [k \in FreeKeys |-> NotCached]
ListsStill ==
  /\ ListsInit /\ stock = [w \in StoredWorks |-> << >>] /\ syncsLeft = 0
  /\ freeList = ClosedList /\ matter = Unasked
FreeInit ==
  /\ ListsInit /\ stock \in StocksAtFirst /\ syncsLeft = MaxPrinted /\ matter = Unasked
  /\ \E lang \in Languages : freeList = [ClosedList EXCEPT !.lang = lang]
MatterInit ==
  /\ ListsInit /\ stock = [w \in StoredWorks |-> << >>] /\ syncsLeft = 0 /\ freeList = ClosedList
  /\ \/ \E t \in Tastes : matter = [of |-> "taste", what |-> t]
     \/ \E t \in TagLists : matter = [of |-> "genres", what |-> t]
     \/ \E t \in TextHits : matter = [of |-> "text", what |-> t]
FreeNext ==
  \/ \E w \in StoredWorks, p \in Printed : StorePrinting(w, p)
  \/ OpenFree \/ SomebodyReads(PAGE_SIZE) \/ ShowMore
  \/ AnswerFromCache \/ ReadFree \/ KeepAndAnswer \/ FreeFails
  \/ \E k \in FreeKeys : FreeExpires(k)

-----------------------------------------------------------------------------
(* Paging shows no book twice and none that may not be had; and as long as *)
(* nothing was stored since the first of its pages was read, no book is    *)
(* passed over and "show more" is there just while there is more (the      *)
(* ORDER BY of PgFreeBooksAdapter is total for this).                      *)
ShelfPagesRight ==
  /\ IsInjective(freeList.books)
  /\ \A b \in ToSet(freeList.books) : \E p \in ToSet(stock[b]) :
       p.types \ {"borrow", "read"} # {} /\ freeList.lang \in {AnyLanguage, p.lang}
  /\ freeList.pc = "shown" /\ freeList.steady =>
       /\ \A w \in FreeIn(freeList.lang) \ ToSet(freeList.books), v \in ToSet(freeList.books) : Sooner(v, w)
       /\ Len(freeList.books) < freeList.total <=> ~FreeIn(freeList.lang) \subseteq ToSet(freeList.books)

(* A reader is recommended as many books as there are, up to a row, none   *)
(* opened before and none left out that shares more; the server is never   *)
(* told a genre that is hidden, and none that came up once when another    *)
(* came up again; what came up whenever another did weighs no less.        *)
RowsRight(history, shared) ==
  LET like == {w \in StoredWorks \ ToSet(history) : shared[w] > 0}
  IN \A row \in RecommendBooks(shared, history) :
       /\ IsInjective(row) /\ ToSet(row) \subseteq like
       /\ Len(row) = Min({RESULT_SIZE, Cardinality(like)})
       /\ \A w \in like \ ToSet(row), v \in ToSet(row) : shared[v] >= shared[w]
GenresRight(tags, history, hidden, genres) ==
  LET at == [s \in ToSet(genres) |-> Sightings(tags, history, s)]
  IN /\ DOMAIN at \cap hidden = {}
     /\ \A s, t \in DOMAIN at : Cardinality(at[s]) > 1 => Cardinality(at[t]) > 1
     /\ \A i, j \in DOMAIN genres : i < j => at[genres[i]] = at[genres[j]] \/ ~at[genres[i]] \subseteq at[genres[j]]
TasteServed(taste, history) ==
  LET genres == BuildTasteProfile(taste.tags, history, taste.hidden)
  IN GenresRight(taste.tags, history, taste.hidden, genres) /\ RowsRight(history, Shared(taste.tags, genres))

(* Every genre offered has books behind it: no more than are said, and as  *)
(* many when no book has it in two spellings.  Most used come first.       *)
GenresHaveBooks(tags, list) ==
  \A i \in DOMAIN list :
    LET works == Cardinality(BrowseBySubject(tags, list[i].folded))
    IN /\ works \in 1..list[i].workCount
       /\ (\A w \in StoredWorks : \A j, k \in DOMAIN tags[w] : tags[w][j].folded = tags[w][k].folded => j = k)
            => works = list[i].workCount
       /\ i > 1 => list[i - 1].workCount >= list[i].workCount

(* A book is found once, at the better of its two places, and none is left *)
(* out that either spelling would have put before one that is listed.      *)
BothSpellingsTell(spellings) ==
  LET ranks == [w \in StoredWorks |-> {RankOf(spellings[k][w]) : k \in {k \in DOMAIN spellings : Found(spellings[k][w])}}]
      best == [w \in {w \in StoredWorks : ranks[w] # {}} |-> Max(ranks[w])]
  IN \A list \in SearchTitles(spellings) :
       LET listed == {list[i].id : i \in DOMAIN list}
       IN /\ Len(list) = Min({SearchLimit, Cardinality(DOMAIN best)}) /\ Cardinality(listed) = Len(list)
          /\ \A i \in DOMAIN list :
               list[i].rank = best[list[i].id] /\ \A w \in DOMAIN best \ listed : list[i].rank >= best[w]

ListsAreRight ==
  /\ ShelfPagesRight
  /\ matter.of = "taste" => TasteServed(matter.what, HistoryOf(matter.what))
  /\ matter.of = "genres" => GenresHaveBooks(matter.what, ListSubjects(matter.what))
  /\ matter.of = "text" => BothSpellingsTell(matter.what)
=============================================================================
