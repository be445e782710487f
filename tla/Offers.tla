------------------------------- MODULE Offers -------------------------------
(***************************************************************************)
(* What the sources that host or describe copies say of one book, and what *)
(* a sync takes from it: Open Library with the Internet Archive's scans,   *)
(* Wikidata with Wikisource, Google Books, Project Gutenberg, LibriVox and *)
(* the list of books their owners give away.  A state is one source and    *)
(* what it holds; requests that fail are in Sources.                       *)
(***************************************************************************)
EXTENDS EditionPanels
LOCAL INSTANCE SequencesExt
LOCAL INSTANCE FiniteSetsExt

CONSTANTS
  HeldBy,            \* source -> what it may hold of the book, one of a set
  LanguageOfGroup,   \* ISBN registration group, as digits -> its language
  EDITIONS_PAGE_SIZE, MAX_EDITIONS, MAX_AVAILABILITY_EDITION_KEYS,
  MAX_AVAILABILITY_IA_IDS, MAX_EXTRA_AVAILABILITY_EDITIONS, MAX_DROPPED_WORDS
ASSUME OffersAssumption ==
  /\ {EDITIONS_PAGE_SIZE, MAX_EDITIONS} \subseteq Nat \ {0}
  /\ {MAX_AVAILABILITY_EDITION_KEYS, MAX_AVAILABILITY_IA_IDS,
      MAX_EXTRA_AVAILABILITY_EDITIONS, MAX_DROPPED_WORDS} \subseteq Nat

VARIABLE offered  \* [of, holds]; << >> in other scenes

NoneSaid == "und"              \* a language, title, address nobody gave
Untold == 0
UpTo(s, n) == SubSeq(s, 1, IF Len(s) < n THEN Len(s) ELSE n)
Link(type, provider, url) == [type |-> type, provider |-> provider, url |-> url, denied |-> FALSE]
EditionOf(id, lang, isbn, rights, links) ==
  [id |-> id, lang |-> lang, isbn |-> isbn, rights |-> rights, links |-> links]

-----------------------------------------------------------------------------
(* Open Library.  It lists editions in pages that may be short, says how   *)
(* many there are or does not, and the Archive has scans of editions.      *)

(* Mutant: a short page is the last. *)
FetchAllToShortPage(h) ==
  LET n == Len(h.listed)
      from[off \in 0..n] ==
        LET got == Min({h.gives[off + 1], n - off})
        IN IF off >= MAX_EDITIONS \/ got = 0 THEN off
           ELSE IF got < EDITIONS_PAGE_SIZE THEN off + got ELSE from[off + got]
  IN UpTo(h.listed, Min({from[0], MAX_EDITIONS}))

(* fetchAllEditionEntries: on from what is read, until the size told is     *)
(* reached or, where none is told, a page is short.                         *)
FetchAllEditionEntries(h) ==
  LET n == Len(h.listed)
      total == IF h.size = Untold THEN MAX_EDITIONS ELSE h.size
      from[off \in 0..n] ==
        LET got == Min({h.gives[off + 1], n - off})
        IN IF off >= MAX_EDITIONS \/ (off > 0 /\ off >= total) \/ got = 0 THEN off
           ELSE IF h.size = Untold /\ got < EDITIONS_PAGE_SIZE THEN off + got
           ELSE from[off + got]
  IN UpTo(h.listed, Min({from[0], MAX_EDITIONS}))

(* The lending desk (external): asked for an edition it tells of its scans  *)
(* and of similar ones, in either order; asked for a scan, of its edition.  *)
Item(s, match) == [of |-> s.of, status |-> s.status, url |-> s.ia, match |-> match]
ItemsOf(h, key) ==
  LET own == SelectSeq(h.scans, LAMBDA s : s.of = key \/ s.ia = key)
      others == SelectSeq(h.scans, LAMBDA s : s.of # key /\ s.ia # key)
      exact == [i \in DOMAIN own |-> Item(own[i], "exact")]
      similar == [i \in DOMAIN others |-> Item(others[i], "similar")]
  IN IF h.similarFirst THEN similar \o exact ELSE exact \o similar

(* Mutant: what the desk tells first is about the edition asked for. *)
FirstTold(h, key) ==
  LET told == SelectSeq(ItemsOf(h, key), LAMBDA i : i.of # NoneSaid)
  IN IF told = << >> THEN << >> ELSE <<[told[1] EXCEPT !.of = IF key \in ToSet(h.listed) THEN key ELSE @]>>

ExactItem(h, key) ==
  LET told == SelectSeq(ItemsOf(h, key), LAMBDA i : i.match = "exact" /\ i.of # NoneSaid)
  IN UpTo(told, 1)

(* fetchAvailability: an item for each key that has one; of two about one   *)
(* edition the later stays, in the place of the first.                      *)
RequestKeys(h, entries) ==
  UpTo(entries, MAX_AVAILABILITY_EDITION_KEYS)
    \o UpTo([i \in DOMAIN h.scans |-> h.scans[i].ia], MAX_AVAILABILITY_IA_IDS)
FetchAvailability(h, keys) ==
  LET items == FlattenSeq([i \in DOMAIN keys |-> ExactItem(h, keys[i])])
      later(i) == {j \in DOMAIN items : items[j].of = items[i].of}
      first(i) == i = Min(later(i))
  IN FlattenSeq([i \in DOMAIN items |-> IF first(i) THEN <<items[Max(later(i))]>> ELSE << >>])

MapAvailability(item) ==
  CASE item.status = "full access" ->
         <<[rights |-> "public_domain", link |-> Link("download", "internet-archive", item.url)]>>
    [] item.status \in {"lendable", "checked out"} ->
         <<[rights |-> "copyrighted", link |-> Link("borrow", "internet-archive", item.url)]>>
    [] OTHER -> << >>

(* mapEditionEntry, and what the lending desk adds.                         *)
WithAvailability(h, e, available) ==
  LET mapped == FlattenSeq([i \in DOMAIN available |->
                   IF available[i].of = e THEN MapAvailability(available[i]) ELSE << >>])
  IN IF mapped = << >> THEN EditionOf(e, h.books[e].lang, h.books[e].isbn, "unknown", << >>)
     ELSE EditionOf(e, h.books[e].lang, h.books[e].isbn, mapped[1].rights, <<mapped[1].link>>)

(* fetchEditions: those listed, and a few editions beyond them that the     *)
(* work's scans lead to, if they can be read (h.gone cannot).               *)
ListedAndBeyond(h, entries, available) ==
  LET beyond == UpTo(SelectSeq(available, LAMBDA i : i.of \notin ToSet(entries) /\ MapAvailability(i) # << >>),
                     MAX_EXTRA_AVAILABILITY_EDITIONS)
      ids == entries \o SelectSeq([i \in DOMAIN beyond |-> beyond[i].of], LAMBDA e : e \notin h.gone)
  IN [i \in DOMAIN ids |-> WithAvailability(h, ids[i], available)]
OpenLibraryOffers(h) ==
  LET entries == FetchAllEditionEntries(h)
  IN ListedAndBeyond(h, entries, FetchAvailability(h, RequestKeys(h, entries)))

-----------------------------------------------------------------------------
(* Wikidata.  Hits are what a search by label finds for the query with so   *)
(* many of its last words dropped.                                          *)
FindCandidateIds(h) ==
  LET tries == {n \in 0..MAX_DROPPED_WORDS : n < Len(h.query) /\ h.hits[n + 1] # << >>}
  IN IF tries = {} THEN << >> ELSE h.hits[Min(tries) + 1]

LongPart == 4
MentionsAuthor(h, item) ==
  \E i \in DOMAIN item.authors : \E j \in DOMAIN item.authors[i] :
    LET part == item.authors[i][j] IN Len(part) >= LongPart /\ part \in ToSet(h.query)

(* Mutant: the order of the search by label. *)
RankByLabel(h, works) == works
RankByAuthorMention(h, works) ==
  SelectSeq(works, LAMBDA q : MentionsAuthor(h, h.items[q]))
    \o SelectSeq(works, LAMBDA q : ~MentionsAuthor(h, h.items[q]))

(* describeWorks keeps what is a book and has a title.                      *)
DescribeBooks(h, qids) == SelectSeq(qids, LAMBDA q : h.items[q].book /\ h.items[q].title # NoneSaid)
WikidataTop(h) == UpTo(RankByAuthorMention(h, DescribeBooks(h, FindCandidateIds(h))), 1)

(* A row of an edition for each combination of what is stated several times *)
(* over; the first that has all it needs stands for the edition.            *)
FoldEditions(answer) ==
  LET whole == SelectSeq(answer, LAMBDA r : r.lang # NoneSaid /\ r.title # NoneSaid)
      first(i) == \A j \in 1..(i - 1) : whole[j].id # whole[i].id
  IN FlattenSeq([i \in DOMAIN whole |->
       IF first(i) THEN <<EditionOf(whole[i].id, whole[i].lang, whole[i].isbn, "unknown", << >>)>> ELSE << >>])

NonLanguageWikisources == {"wikisource", "mulwikisource"}
WikisourceTexts(sites) ==
  SelectSeq(sites, LAMBDA t : t.site \notin NonLanguageWikisources /\ t.title # NoneSaid /\ t.url # NoneSaid)
TextLink(t) == Link("download", "wikisource", t.url)

(* Mutant: a text is a copy of the edition in its language. *)
TextsBoltedOn(editions, texts) ==
  [i \in DOMAIN editions |->
     LET same == SelectSeq(texts, LAMBDA t : t.lang = editions[i].lang)
     IN IF same = << >> THEN editions[i]
        ELSE [editions[i] EXCEPT !.rights = "public_domain", !.links = <<TextLink(same[1])>>]]

WithWikisourceTexts(editions, texts) ==
  editions \o [i \in DOMAIN texts |->
    EditionOf(<<texts[i].site, texts[i].title>>, texts[i].lang, << >>, "public_domain", <<TextLink(texts[i])>>)]
WikidataOffers(h) ==
  IF WikidataTop(h) = << >> THEN << >>
  ELSE WithWikisourceTexts(FoldEditions(h.rows), WikisourceTexts(h.sites))

-----------------------------------------------------------------------------
(* Google Books sells a volume or does not; Project Gutenberg's books are   *)
(* free but for those it hosts by permission, as files in several formats;  *)
(* LibriVox has a file and a page; an owner's own files are as listed.      *)
Https(url) == url[1] = "https"
GoogleOffers(h) ==
  <<EditionOf("volume", h.lang, h.isbn, "unknown",
              IF h.forSale /\ h.buy # NoneSaid THEN <<Link("buy", "google-books", h.buy)>> ELSE << >>)>>

FormatOrder == <<"epub", "mobi", "pdf", "txt", "html">>
ToDownloadLinks(formats) ==
  LET files == SelectSeq(formats, LAMBDA f : f.format \in ToSet(FormatOrder) /\ Https(f.url))
      first(x) == SelectSeq(files, LAMBDA f : f.format = x)
  IN FlattenSeq([i \in DOMAIN FormatOrder |-> UpTo(first(FormatOrder[i]), 1)])
GutenbergOffers(h) ==
  IF h.copyright = "yes" THEN << >>
  ELSE LET files == ToDownloadLinks(h.formats)
       IN <<EditionOf("book", h.lang, << >>, "public_domain",
                      [i \in DOMAIN files |-> Link("download", "gutenberg", files[i].url)])>>

LibriVoxOffers(h) ==
  LET zip == IF Https(h.zip) THEN <<Link("download", "librivox", h.zip)>> ELSE << >>
      page == IF Https(h.page) THEN <<Link("listen", "librivox", h.page)>> ELSE << >>
  IN <<EditionOf("recording", h.lang, << >>, "public_domain", zip \o page)>>

(* findAuthorizedFreeBooks: the title as a run of words, and an author's    *)
(* word of some length unless the title is all that was asked for.          *)
Runs(words, run) == run # << >> /\ \E n \in 0..(Len(words) - Len(run)) : SubSeq(words, n + 1, n + Len(run)) = run
AuthorWord == 2
FindAuthorizedFreeBooks(h) ==
  SelectSeq(h.list, LAMBDA b :
    /\ Runs(h.query, b.title)
    /\ Len(h.query) = Len(b.title)
         \/ \E i \in DOMAIN b.author : Len(b.author[i]) > AuthorWord /\ b.author[i] \in ToSet(h.query))
AuthorizedFreeOffers(h) ==
  LET found == UpTo(FindAuthorizedFreeBooks(h), 1)
  IN [i \in DOMAIN found |->
        EditionOf(found[i].title, found[i].lang, << >>, "open_license",
                  <<Link("download", "authorized-free", found[i].file)>>)]

Offers(source, h) ==
  CASE source = "open-library" -> OpenLibraryOffers(h)
    [] source = "wikidata" -> WikidataOffers(h)
    [] source = "google-books" -> GoogleOffers(h)
    [] source = "gutenberg" -> GutenbergOffers(h)
    [] source = "librivox" -> LibriVoxOffers(h)
    [] source = "authorized-free" -> AuthorizedFreeOffers(h)

-----------------------------------------------------------------------------
(* syncEdition: an edition without a language has the one its ISBN is from; *)
(* syncLinks: what LinkPolicy lets through.                                 *)
InferLanguageFromIsbn(isbn) ==
  LET groups == {g \in DOMAIN LanguageOfGroup : isbn # << >> /\ isbn[1] = 978 /\ IsPrefix(g, Tail(isbn))}
  IN IF groups = {} THEN NoneSaid
     ELSE LanguageOfGroup[CHOOSE g \in groups : \A k \in groups : Len(k) <= Len(g)]
LanguageOf(e) == IF e.lang # NoneSaid THEN e.lang ELSE InferLanguageFromIsbn(e.isbn)

Synced(source, h) ==
  LET taken(e) ==
        [id |-> e.id, lang |-> LanguageOf(e),
         links |-> {c \in {Candidate([rights |-> e.rights, first |-> h.first], l) : l \in ToSet(e.links)} : Allowed(c)}]
      usable == SelectSeq(Offers(source, h), LAMBDA e : LanguageOf(e) # NoneSaid)
  IN [i \in DOMAIN usable |-> taken(usable[i])]

-----------------------------------------------------------------------------
OffersInit == \E source \in DOMAIN HeldBy : \E h \in HeldBy[source] : offered = [of |-> source, holds |-> h]

(* A copy is offered only of the thing somebody said is free to take: the   *)
(* scan of this very edition that its library calls open and that is old    *)
(* enough to believe, a text of Wikisource's under a title of its own, a    *)
(* file nobody holds by permission only (docs/legal-policy.md 3, ADR-0011). *)
FreelyGiven(source, h, e, c) ==
  CASE source = "open-library" ->
         /\ h.first = Unstated \/ h.first <= ThisYear - Window
         /\ \E i \in DOMAIN h.scans : h.scans[i] = [ia |-> c.url, of |-> e.id, status |-> "full access"]
    [] source = "wikidata" -> \E i \in DOMAIN h.sites : e.id = <<h.sites[i].site, h.sites[i].title>> /\ c.url = h.sites[i].url
    [] source = "gutenberg" -> h.copyright # "yes"
    [] source = "librivox" -> TRUE
    [] source = "authorized-free" -> \E i \in DOMAIN h.list : h.list[i].title = e.id /\ h.list[i].file = c.url
    [] OTHER -> FALSE
CopiesAreGiven ==
  \A e \in ToSet(Synced(offered.of, offered.holds)) : \A c \in e.links :
    /\ c.type \in Copies => FreelyGiven(offered.of, offered.holds, e, c)
    /\ c.type = "borrow" =>
         \E s \in ToSet(offered.holds.scans) : s.ia = c.url /\ s.of = e.id /\ s.status \in {"lendable", "checked out"}

(* Every edition that is listed and has a language is taken, once, however  *)
(* its pages are cut, if their number is told; an edition that was asked    *)
(* about, and all of whose scans are open, has its copy                     *)
(* (open-library-provider.ts:428-446).                                      *)
TakenWhole(h, synced) ==
  LET ids == [i \in DOMAIN synced |-> synced[i].id]
      asked == UpTo(h.listed, Min({MAX_EDITIONS, MAX_AVAILABILITY_EDITION_KEYS}))
      open(e) == {s \in ToSet(h.scans) : s.of = e} # {} /\ \A s \in ToSet(h.scans) : s.of = e => s.status = "full access"
  IN /\ IsInjective(ids)
     /\ h.size # Untold =>
          /\ \A e \in ToSet(UpTo(h.listed, MAX_EDITIONS)) :
               h.books[e].lang # NoneSaid \/ InferLanguageFromIsbn(h.books[e].isbn) # NoneSaid => e \in ToSet(ids)
          /\ h.first = Unstated => \A i \in DOMAIN synced :
               synced[i].id \in ToSet(asked) /\ open(synced[i].id) => synced[i].links # {}
ListedAreTaken == offered.of = "open-library" => TakenWhole(offered.holds, Synced("open-library", offered.holds))

(* A book found by a part of the query only is by somebody the rest of it   *)
(* names, if such a book was found at all (wikidata-provider.ts:60-68).     *)
FoundByItsAuthor ==
  LET h == offered.holds
      books == ToSet(DescribeBooks(h, FindCandidateIds(h)))
  IN offered.of = "wikidata" =>
       \A q \in ToSet(WikidataTop(h)) :
         (\E b \in books : MentionsAuthor(h, h.items[b])) => MentionsAuthor(h, h.items[q])

(* A book its owner gives away is found by its title, with the author or   *)
(* without, and not by whoever means a book that only begins with the same *)
(* words and is by somebody with no name in common                          *)
(* (authorized-free-catalog.ts:166-169).                                    *)
Names(b) == {n \in ToSet(b.author) : Len(n) > AuthorWord}
GivenAwayByTheirOwners ==
  LET h == offered.holds
      found == ToSet(FindAuthorizedFreeBooks(h))
  IN offered.of = "authorized-free" =>
       \A b \in ToSet(h.list) :
         /\ b.title = h.meant.title /\ b.author = h.meant.author => b \in found
         /\ b \in found => b.title = h.meant.title \/ Names(b) \cap Names(h.meant) # {}

OffersAreTrue == CopiesAreGiven /\ ListedAreTaken /\ FoundByItsAuthor /\ GivenAwayByTheirOwners
=============================================================================
