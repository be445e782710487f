-------------------------------- MODULE Opds --------------------------------
(***************************************************************************)
(* Catalogues of other people's files.  A page of one is served as Atom    *)
(* (OPDS 1.2) or as JSON (OPDS 2.0), read by one of two parsers and shown  *)
(* on the shelf; and a reader's own catalogue is asked as an addon, whose  *)
(* transport keeps the root feed and the search template it once found.    *)
(***************************************************************************)
EXTENDS Naturals, Sequences, FiniteSets
LOCAL INSTANCE SequencesExt
LOCAL INSTANCE TLC

CONSTANTS
  Pages,        \* what pages hold: [books, folders, links, grouped]
  Holdings,     \* ISBNs a reader's own server may hold
  Asks,         \* questions the addon may be answering at once
  MaxAsks, MaxBroken, MaxChanges  \* bounds: questions, refused requests, changes of the holdings

VARIABLES
  served,       \* the page being read
  held,         \* the ISBNs on the reader's server
  searches,     \* the server offers a search
  root,         \* OpdsAddonTransport.root: {} or the set of ISBNs it listed
  template,     \* OpdsAddonTransport.searchTemplate
  asking,       \* question -> [pc, isbn, found, had]
  missed,       \* observer: the search description could not be read once
  asksLeft, broken, changes
opdsVars == <<served, held, searches, root, template, asking, missed, asksLeft, broken, changes>>

Null == "null"
-----------------------------------------------------------------------------
(* Links: [rels, type, price, to], a price with a currency or without one. *)
(* acquisition.ts and media-types.ts.                                      *)

(* Either spelling of a relation, with or without http://opds-spec.org/.   *)
ACQUISITION_RELS ==
  "acquisition" :> "unspecified" @@ "acquisition/open-access" :> "open-access"
  @@ "acquisition/buy" :> "buy" @@ "acquisition/borrow" :> "borrow"
  @@ "acquisition/subscribe" :> "subscribe" @@ "acquisition/sample" :> "sample"

Kinds(rels) ==
  LET known == SelectSeq(rels, LAMBDA rel : rel \in DOMAIN ACQUISITION_RELS)
  IN [i \in DOMAIN known |-> ACQUISITION_RELS[known[i]]]

First(s) == IF s = << >> THEN Null ELSE Head(s)
Otherwise(a, b) == IF a = Null THEN b ELSE a

(* Mutant: the first relation decides. *)
ClassifyByFirst(rels) == First(Kinds(rels))
(* A more specific relation beats the bare one. *)
ClassifyAcquisitionRels(rels) ==
  LET specific == SelectSeq(Kinds(rels), LAMBDA k : k # "unspecified")
  IN Otherwise(First(specific), First(Kinds(rels)))

IsCatalogMediaType(type) == type \in {"atom", "opds-catalog", "opds+json"}
RequiresDrmApp(type) == type \in {"adept", "lcp"}

Acquires(link) == ClassifyAcquisitionRels(link.rels) # Null /\ ~IsCatalogMediaType(link.type)
(* Both parsers drop a price without a currency. *)
ReadPrice(price) == IF price = "with currency" THEN price ELSE Null
ToAcquisition(link) ==
  [kind |-> ClassifyAcquisitionRels(link.rels), href |-> link.to, price |-> ReadPrice(link.price),
   requiresDrmApp |-> RequiresDrmApp(link.type)]
Acquisitions(links) ==
  LET files == SelectSeq(links, Acquires) IN [i \in DOMAIN files |-> ToAcquisition(files[i])]

IsDirectDownload(a) == a.kind \in {"open-access", "unspecified"} /\ ~a.requiresDrmApp /\ a.price = Null

FindByRel(links, rel) ==
  LET with == SelectSeq(links, LAMBDA l : \E i \in DOMAIN l.rels : l.rels[i] = rel)
  IN IF with = << >> THEN Null ELSE Head(with).to

(* Some feeds send the older prev. *)
Pagination(links) ==
  [next |-> FindByRel(links, "next"),
   previous |-> Otherwise(FindByRel(links, "previous"), FindByRel(links, "prev"))]

ExtractIsbn13(identifiers) == First(SelectSeq(identifiers, LAMBDA id : id \in Holdings))

-----------------------------------------------------------------------------
(* parseOpds1: entries are books or, with no file and a link to another    *)
(* catalogue, folders.                                                     *)
ReadEntry(node) ==
  LET files == Acquisitions(node.links)
      catalogs == SelectSeq(node.links, LAMBDA l : IsCatalogMediaType(l.type))
  IN [title |-> node.title, isbn13 |-> ExtractIsbn13(node.identifiers), acquisitions |-> files,
      navigationHref |-> IF files = << >> /\ catalogs # << >> THEN Head(catalogs).to ELSE Null]

PaginationRels == {"next", "previous", "prev", "first", "last"}
ParseOpds1(document) ==
  IF document.root = "entry"
  THEN [entries |-> <<ReadEntry(document.entry)>>, navigation |-> << >>,
        pagination |-> Pagination(<< >>), search |-> Null]
  ELSE LET others == SelectSeq(document.links, LAMBDA l :
                       \A i \in DOMAIN l.rels : l.rels[i] \notin PaginationRels)
       IN [entries |-> [i \in DOMAIN document.entries |-> ReadEntry(document.entries[i])],
           navigation |-> [i \in DOMAIN others |-> others[i].to],
           pagination |-> Pagination(document.links),
           search |-> FindByRel(document.links, "search")]

(* parseOpds2: publications and navigation links, the groups' with them.   *)
ReadPublication(node) ==
  [title |-> node.title, isbn13 |-> ExtractIsbn13(node.identifiers),
   acquisitions |-> Acquisitions(node.links), navigationHref |-> Null]

ParseOpds2(document) ==
  LET publications == document.publications
                        \o FlattenSeq([i \in DOMAIN document.groups |-> document.groups[i].publications])
      navigation == document.navigation
                      \o FlattenSeq([i \in DOMAIN document.groups |-> document.groups[i].navigation])
  IN [entries |-> [i \in DOMAIN publications |-> ReadPublication(publications[i])],
      navigation |-> [i \in DOMAIN navigation |-> navigation[i].to],
      pagination |-> Pagination(document.links),
      search |-> FindByRel(document.links, "search")]

(* parseOpdsDocument: the Content-Type decides when it says XML or JSON,   *)
(* the first character when it does not; Null: the parser throws.          *)
ParseOpdsDocument(body, contentType) ==
  IF contentType = "json" \/ (contentType # "xml" /\ body.syntax = "json")
  THEN IF body.syntax = "json" THEN ParseOpds2(body) ELSE Null
  ELSE IF body.syntax = "xml" THEN ParseOpds1(body) ELSE Null

-----------------------------------------------------------------------------
(* How a server states a page: entries for books and folders alike; or     *)
(* lists of each, of which it may put all but the first in a group.        *)
FolderLink(to, type) == [rels |-> <<"subsection">>, type |-> type, price |-> "none", to |-> to]

AsAtom(page) ==
  LET folder(to) == [title |-> to, identifiers |-> << >>, links |-> <<FolderLink(to, "opds-catalog")>>]
  IN [syntax |-> "xml", root |-> "feed", links |-> page.links,
      entries |-> [i \in DOMAIN page.folders |-> folder(page.folders[i])] \o page.books]

AsEntry(book) == [syntax |-> "xml", root |-> "entry", entry |-> book]

AsJson(page) ==
  LET links == [i \in DOMAIN page.folders |-> FolderLink(page.folders[i], "opds+json")]
      Apart(s) == IF s = << >> THEN << >> ELSE Tail(s)
      Along(s) == IF s = << >> THEN << >> ELSE <<Head(s)>>
  IN IF page.grouped
     THEN [syntax |-> "json", links |-> page.links,
           publications |-> Along(page.books), navigation |-> Along(links),
           groups |-> <<[publications |-> Apart(page.books), navigation |-> Apart(links)]>>]
     ELSE [syntax |-> "json", links |-> page.links, publications |-> page.books,
           navigation |-> links, groups |-> << >>]

-----------------------------------------------------------------------------
(* OpdsShelf: FeedView and AcquisitionLink. *)
Label(a) ==
  IF IsDirectDownload(a) THEN "download"
  ELSE IF a.requiresDrmApp THEN "licence" ELSE IF a.price # Null THEN "price" ELSE "not free"

BookRow(entry) ==
  [title |-> entry.title,
   buttons |-> [i \in DOMAIN entry.acquisitions |->
                  [to |-> entry.acquisitions[i].href, says |-> Label(entry.acquisitions[i])]]]

FeedView(feed) ==
  LET books == SelectSeq(feed.entries, LAMBDA e : e.acquisitions # << >>)
      folders == SelectSeq(feed.entries, LAMBDA e : e.navigationHref # Null)
  IN [books |-> [i \in DOMAIN books |-> BookRow(books[i])],
      folders |-> [i \in DOMAIN folders |-> folders[i].navigationHref],
      pages |-> feed.pagination]

-----------------------------------------------------------------------------
(* OpdsAddonTransport.getSources, asked about an ISBN. *)
Unread == "unread"
NotAsking == [pc |-> "idle", isbn |-> Null, found |-> {}, had |-> FALSE]
Reach(i, label) == asking' = [asking EXCEPT ![i].pc = label]
Answer(i, listed) ==
  asking' = [asking EXCEPT ![i].pc = "answered", ![i].found = listed \cap {asking[i].isbn}]

GetSources(i, isbn) ==
  /\ asking[i].pc = "idle" /\ asksLeft > 0
  /\ asking' = [asking EXCEPT ![i] = [pc |-> "template", isbn |-> isbn, found |-> {},
                                      had |-> isbn \in held]]
  /\ asksLeft' = asksLeft - 1
  /\ UNCHANGED <<served, held, searches, root, template, missed, broken, changes>>

(* template(): what is known is used at once; else the root is needed.     *)
TemplateKnown(i) ==
  /\ asking[i].pc = "template" /\ template # Unread
  /\ Reach(i, IF template = Null THEN "root" ELSE "search")
  /\ UNCHANGED <<served, held, searches, root, template, missed, asksLeft, broken, changes>>

LookForTemplate(i) ==
  /\ asking[i].pc = "template" /\ template = Unread
  /\ Reach(i, IF root = {} THEN "fetch root" ELSE "root read")
  /\ UNCHANGED <<served, held, searches, root, template, missed, asksLeft, broken, changes>>

(* Two questions may both have found no root: the later answer stays.      *)
RootComes(i) ==
  /\ asking[i].pc = "fetch root"
  /\ root' = {held} /\ Reach(i, "root read")
  /\ UNCHANGED <<served, held, searches, template, missed, asksLeft, broken, changes>>

NoDescription(i) ==
  /\ asking[i].pc = "root read" /\ ~searches
  /\ template' = Null /\ Reach(i, "root")
  /\ UNCHANGED <<served, held, searches, root, missed, asksLeft, broken, changes>>

(* A description that cannot be read counts as none. *)
Description(i) ==
  /\ asking[i].pc = "root read" /\ searches
  /\ \/ template' = "template" /\ Reach(i, "search") /\ UNCHANGED <<missed, broken>>
     \/ /\ broken > 0 /\ broken' = broken - 1
        /\ template' = Null /\ Reach(i, "root") /\ missed' = TRUE
  /\ UNCHANGED <<served, held, searches, root, asksLeft, changes>>

(* Mutant: a root that was read answers every search. *)
RootSearchAnswers(i) ==
  /\ asking[i].pc = "search" /\ Answer(i, UNION root)
  /\ UNCHANGED <<served, held, searches, root, template, missed, asksLeft, broken, changes>>
SearchAnswers(i) ==
  /\ asking[i].pc = "search" /\ Answer(i, held)
  /\ UNCHANGED <<served, held, searches, root, template, missed, asksLeft, broken, changes>>

RootAnswers(i) ==
  /\ asking[i].pc = "root" /\ Answer(i, UNION root)
  /\ UNCHANGED <<served, held, searches, root, template, missed, asksLeft, broken, changes>>

(* A feed that cannot be fetched rejects the question. *)
FeedRefused(i) ==
  /\ asking[i].pc \in {"fetch root", "search"} /\ broken > 0
  /\ broken' = broken - 1
  /\ asking' = [asking EXCEPT ![i] = NotAsking]
  /\ UNCHANGED <<served, held, searches, root, template, missed, asksLeft, changes>>

TakeSources(i) ==
  /\ asking[i].pc = "answered"
  /\ asking' = [asking EXCEPT ![i] = NotAsking]
  /\ UNCHANGED <<served, held, searches, root, template, missed, asksLeft, broken, changes>>

(* The owner puts a book on the server, or takes one off. *)
HoldingsChange ==
  /\ changes > 0 /\ changes' = changes - 1
  /\ \E isbn \in Holdings :
       held' = IF isbn \in held THEN held \ {isbn} ELSE held \cup {isbn}
  /\ asking' = [i \in Asks |-> [asking[i] EXCEPT !.had = @ /\ asking[i].isbn \in held']]
  /\ UNCHANGED <<served, searches, root, template, missed, asksLeft, broken>>

NoPage == [books |-> << >>, folders |-> << >>, links |-> << >>, grouped |-> FALSE]
OpdsRest ==
  /\ searches \in BOOLEAN /\ root = {} /\ template = Unread /\ missed = FALSE
  /\ asking = [i \in Asks |-> NotAsking] /\ asksLeft = MaxAsks /\ broken = MaxBroken
OpdsInit == served = NoPage /\ held = {} /\ changes = 0 /\ OpdsRest
FeedInit == served \in Pages /\ held = {} /\ searches = FALSE /\ changes = 0 /\ OpdsRest
AddonInit == served = NoPage /\ held \in SUBSET Holdings /\ changes = MaxChanges /\ OpdsRest

AddonNext ==
  \/ HoldingsChange
  \/ \E i \in Asks :
       \/ \E isbn \in Holdings : GetSources(i, isbn)
       \/ TemplateKnown(i) \/ LookForTemplate(i) \/ RootComes(i)
       \/ NoDescription(i) \/ Description(i)
       \/ SearchAnswers(i) \/ RootAnswers(i) \/ FeedRefused(i) \/ TakeSources(i)
AddonSpec == AddonInit /\ [][AddonNext]_opdsVars

-----------------------------------------------------------------------------
OpdsTypeOK ==
  /\ held \subseteq Holdings /\ root \subseteq SUBSET Holdings /\ Cardinality(root) <= 1
  /\ template \in {Unread, Null, "template"} /\ searches \in BOOLEAN /\ missed \in BOOLEAN
  /\ \A i \in Asks :
       asking[i].pc \in {"idle", "template", "fetch root", "root read", "root", "search", "answered"}
  /\ template # Unread => root # {}

(* What a page offers of a book: the links that lead to a file, and what   *)
(* each asks of the reader, told from the link alone.                      *)
Demands == {"acquisition/buy", "acquisition/borrow", "acquisition/subscribe", "acquisition/sample"}
RelsOf(link) == {link.rels[i] : i \in DOMAIN link.rels}
Offered(link) ==
  RelsOf(link) \cap DOMAIN ACQUISITION_RELS # {} /\ link.type \notin {"atom", "opds-catalog", "opds+json"}
Free(link) == RelsOf(link) \cap Demands = {} /\ link.price # "with currency" /\ link.type \notin {"adept", "lcp"}

(* A row tells the truth about its book: every file the page offers has    *)
(* its button, and "Download" stands on exactly those that ask for no loan *)
(* or licence and no money in a named currency: a number without one is no *)
(* price (parse-atom.ts:41-44; OpdsShelf.tsx:33-35, legal-policy I-4).     *)
TellsTrue(row, book) ==
  /\ Len(row.buttons) = Cardinality({i \in DOMAIN book.links : Offered(book.links[i])})
  /\ \A i \in DOMAIN book.links : Offered(book.links[i]) =>
       \E j \in DOMAIN row.buttons :
         /\ row.buttons[j].to = book.links[i].to
         /\ row.buttons[j].says = "download" <=> Free(book.links[i])

(* One page reads alike in both versions, under any header that does not   *)
(* contradict it: the same books in the same order with true buttons, the  *)
(* same pages before and after it; a book's own document shows that book.  *)
FeedsReadAlike ==
  LET view(body, contentType) == FeedView(ParseOpdsDocument(body, contentType))
      atom == view(AsAtom(served), "xml")
      json == view(AsJson(served), "json")
      offering == SelectSeq(served.books, LAMBDA b : \E i \in DOMAIN b.links : Offered(b.links[i]))
  IN /\ view(AsAtom(served), "other") = atom /\ view(AsJson(served), "other") = json
     /\ atom.books = json.books /\ atom.pages = json.pages
     /\ Len(atom.books) = Len(offering)
     /\ \A i \in DOMAIN offering :
          /\ atom.books[i].title = offering[i].title
          /\ TellsTrue(atom.books[i], offering[i])
          /\ view(AsEntry(offering[i]), "xml").books = <<atom.books[i]>>

(* Asked about an ISBN, the reader's own catalogue answers with that book  *)
(* or nothing, and does not miss one it held from the question to the      *)
(* answer, as long as it can search and its description was read.          *)
OwnBookIsFound ==
  \A i \in Asks : asking[i].pc = "answered" =>
    /\ asking[i].found \subseteq {asking[i].isbn}
    /\ searches /\ ~missed /\ asking[i].had => asking[i].found # {}

(* "Their contents are real publications and real navigation, so they are  *)
(* folded into the flat lists rather than dropped": a reader who opens a   *)
(* page sees the folders it has.                                           *)
FoldersShown == FeedView(ParseOpdsDocument(AsJson(served), "json")).folders = served.folders
=============================================================================
