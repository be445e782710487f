----------------------------- MODULE MCReading -----------------------------
(* TLC instance of what one person has in a browser: the books read there,  *)
(* the account signed in to, the parts of a page, what the API answers an   *)
(* edition's panels and its figures, the catalogues of others, what         *)
(* libraries' records and sources' copies are taken for, the lists of what  *)
(* is stored, what a browser is set to, the walk it is offered once, and    *)
(* the rules all are judged by.  They share no variable, so a behaviour is  *)
(* one scene's and the others stand still.                                  *)
EXTENDS Library, Accounts, Screens, Offers, Figures, Opds, Records, Lists, Choices, Tour, TLC

GoogleProfiles == {<<"s1", "e1">>, <<"s1", "e2">>}
Alike == Permutations(Books) \cup Permutations(Places) \cup Permutations(Browsers)

(* Three printings in a language and one in another; a scan of a general      *)
(* host, a recording, a shop's download and a listing on the denylist.      *)
FourPrintings ==
  [e1 |-> [lang |-> "de", year |-> 1998, isbn |-> TRUE],
   e2 |-> [lang |-> "de", year |-> Unstated, isbn |-> FALSE],
   e3 |-> [lang |-> "en", year |-> 1922, isbn |-> TRUE],
   e4 |-> [lang |-> "de", year |-> 1950, isbn |-> TRUE]]
TheirOrder == <<"e4", "e2", "e1", "e3">>
LinkOf(type, provider, denied) == [type |-> type, provider |-> provider, url |-> provider, denied |-> denied]
TheirClaims ==
  {[rights |-> "public_domain", first |-> 1997,
    links |-> {LinkOf("download", "internet-archive", FALSE), LinkOf("listen", "librivox", FALSE)}],
   [rights |-> "public_domain", first |-> 1862,
    links |-> {LinkOf("download", "internet-archive", FALSE), LinkOf("borrow", "shadow", TRUE),
               LinkOf("download", "shop", FALSE)}],
   [rights |-> "unknown", first |-> 1862, links |-> {LinkOf("download", "gutenberg", FALSE)}]}
TheirShops == [thalia |-> "DE", libraccio |-> "IT", amazon |-> Worldwide]
TheirMarkets == [DE |-> "de", IT |-> "it"]
NoneAndGermany == {NoCountry, "DE"}

(* Names of two letters; ISBNs that differ in three places; up to four      *)
(* quotes in two currencies.                                                *)
TwoLetterNames == UNION {[1..n -> {"a", "b"}] : n \in 2..6}
SomeCores == {<<0, a, 4, b, 4, 3, 9, 5, c>> : a \in {0, 1, 6}, b \in 0..9, c \in 0..9}
Quotes == {NoPrice, [currency |-> "EUR", minor |-> 1], [currency |-> "EUR", minor |-> 3],
           [currency |-> "USD", minor |-> 2], [currency |-> "JPY", minor |-> 0]}
QuoteLists == UNION {[1..n -> Quotes] : n \in 0..4}

(* One book with two links, or two with one each, beside two folders or     *)
(* none; in the JSON version the second of each may be in a group.          *)
Relations == {<<"acquisition">>, <<"acquisition/open-access">>, <<"acquisition", "acquisition/borrow">>,
              <<"acquisition/buy">>, <<"subsection">>}
FileTypes == {"epub", "lcp", "opds-catalog"}
FileLinks(to, prices) == [rels : Relations, type : FileTypes, price : prices, to : {to}]
PricedFiles == FileLinks("k", {"none", "with currency", "without currency"})
OtherFiles == FileLinks("l", {"none", "with currency"})
ListedBook(title, ls) == [title |-> title, identifiers |-> <<"urn:uuid", "isbn1">>, links |-> ls]
NextAndPrev ==
  {<< >>, <<[rels |-> <<"next">>, type |-> "atom", price |-> "none", to |-> "page2"],
            [rels |-> <<"prev">>, type |-> "atom", price |-> "none", to |-> "page0"]>>}
SomePages ==
  {[books |-> <<ListedBook("b", <<k, l>>)>>, folders |-> fs, links |-> << >>, grouped |-> FALSE] :
     k \in PricedFiles, l \in OtherFiles, fs \in {<< >>, <<"f", "g">>}}
  \cup {[books |-> <<ListedBook("b", <<k>>), ListedBook("c", <<l>>)>>, folders |-> <<"f", "g">>,
         links |-> ps, grouped |-> g] :
           k \in PricedFiles, l \in OtherFiles, ps \in NextAndPrev, g \in BOOLEAN}

(* A novel and its neighbours: another publisher's printing, one with ISBNs, *)
(* one in another language, another volume, another author's book that      *)
(* mentions all the same words, one nobody states the language of.  Single  *)
(* records are filed in every way, two together in a few.                   *)
Alice == <<"a", "l">>
Metro == <<"m", "e">>
Lewis == <<"l", "e">>
Carroll == <<"c", "a", "r">>
Novel ==
  [author |-> <<Lewis, Carroll>>, native |-> <<<<"x", "y">>>>,
   translator |-> <<<<"t", "r">>>>, helper |-> Nobody,
   number |-> Unsaid, title |-> "title", language |-> "ger", publisher |-> "p", year |-> 2016, isbns |-> << >>,
   words |-> {Alice, Metro, Lewis, Carroll}]
Thirteen(b) == [of |-> b, digits |-> 13]
Ten(b) == [of |-> b, digits |-> 10]
Neighbours ==
  {Novel, [Novel EXCEPT !.helper = <<<<"h", "e">>>>], [Novel EXCEPT !.publisher = "q"],
   [Novel EXCEPT !.isbns = <<Thirteen("i")>>, !.translator = Nobody],
   [Novel EXCEPT !.isbns = <<Ten("i"), Thirteen("i")>>, !.year = 1998],
   [Novel EXCEPT !.isbns = <<Ten("j")>>, !.year = 0],
   [Novel EXCEPT !.language = "fre", !.author = <<<<"d">>, <<"c", "a">>>>],
   [Novel EXCEPT !.number = "2033"], [Novel EXCEPT !.number = "2034"],
   [Novel EXCEPT !.author = <<<<"b", "o">>>>, !.native = <<<<"z">>>>, !.publisher = "r"],
   [Novel EXCEPT !.language = Unsaid], [Novel EXCEPT !.words = {Alice, Lewis}, !.year = 1900]}
AllWays ==
  [codes : BOOLEAN, terms : BOOLEAN, main : BOOLEAN, first : BOOLEAN,
   says : {"author", "translator", Unsaid}, rda : BOOLEAN, f041 : BOOLEAN,
   leader : {Unsaid, "am", "aa"}, control : {Unsaid, "n1"}]
(* A main entry comes first, and so does an author whom nothing tells from   *)
(* the others; a role that mentions a translation has a code beside it.     *)
(* The Polish library and the NDL number their records.                     *)
Coded(c, way) == way.codes /\ c \in {"marc", "polish"}
ToldApart(c, p, way) ==
  \/ Coded(c, way)
  \/ way.terms /\ (p.helper = Nobody \/ c = "ndl" \/ (c # "polish" /\ way.says = "author"))
Proper(c, p, way) ==
  /\ way.main => way.first
  /\ way.first \/ ToldApart(c, p, way)
  /\ way.says = "translator" => Coded(c, way) /\ way.terms
  /\ c \in {"polish", "ndl"} => way.control # Unsaid
Plain(way) ==
  way.rda /\ ~way.f041 /\ way.says = "author" /\ way.codes = way.main /\ way.leader = "am" /\ way.first
WaysOf(c, p) ==
  {w \in AllWays : /\ Proper(c, p, w)
                   /\ Plain(w) \/ (w.rda = w.f041 /\ w.control # Unsaid /\ (w.leader = Unsaid => w.main))}
Entry(p, way) == [of |-> p, way |-> way]
Pairs(c) ==
  {<<Entry(p, v), Entry(q, [w EXCEPT !.control = IF @ = Unsaid THEN Unsaid ELSE "n2"])>> :
     p, q \in Neighbours, v, w \in {w \in WaysOf(c, Novel) : Plain(w) /\ w.terms}}
ShelfOf(c) == {Pairs(c)} \cup {{<<Entry(p, way)>> : way \in WaysOf(c, p)} : p \in Neighbours}
CatalogueHoldings ==
  [dc |-> ShelfOf("dc"), marc |-> ShelfOf("marc"), polish |-> ShelfOf("polish"), ndl |-> ShelfOf("ndl")]
BookQueries ==
  {[words |-> <<Alice, <<"o">>, Metro, Lewis, Carroll>>, numbers |-> {}],
   [words |-> <<Metro, Carroll>>, numbers |-> {"2034"}], [words |-> <<Metro>>, numbers |-> {}]}

(* Open Library lists "d" before "b", which nobody gave the language of,    *)
(* and asks of two; "x" it does not list.  Its pages of two may be short,   *)
(* the Archive may have two scans of one edition, and some are of none.     *)
Spanish == <<978, 8, 4, 1>>
TheirEditions ==
  [a |-> [lang |-> "en", isbn |-> << >>], b |-> [lang |-> NoneSaid, isbn |-> Spanish],
   c |-> [lang |-> NoneSaid, isbn |-> << >>], d |-> [lang |-> "en", isbn |-> <<978, 0, 1>>],
   x |-> [lang |-> "fr", isbn |-> <<979, 1, 0>>]]
Listing(es, gives, size, scans, similarFirst, gone, first) ==
  [listed |-> es, gives |-> gives, size |-> size, scans |-> scans, similarFirst |-> similarFirst,
   books |-> TheirEditions, gone |-> gone, first |-> first]
PagedListings ==
  UNION {{Listing(SubSeq(<<"a", "b", "c", "d">>, 1, n), gives, size, << >>, FALSE, {}, Unstated) :
            gives \in [1..5 -> 1..2], size \in {Untold, n, n + 1}} : n \in 1..4}
Scans == [of : {"a", "b", "x", NoneSaid}, status : {"full access", "lendable", "restricted"}]
Scan(ia, s) == [ia |-> ia, of |-> s.of, status |-> s.status]
ScanLists ==
  {<< >>} \cup {<<Scan("i1", s)>> : s \in Scans} \cup {<<Scan("i1", s), Scan("i2", t)>> : s, t \in Scans}
    \cup {<<Scan("i1", s), Scan("i2", s), Scan("i3", t)>> : s, t \in Scans}
ScannedListings ==
  {Listing(<<"a", "d", "b">>, [n \in 1..5 |-> 2], 3, scans, similarFirst, gone, first) :
     scans \in ScanLists, similarFirst \in BOOLEAN, gone \in {{}, {"x"}}, first \in {1862, 1997, Unstated}}

(* A title and its author; of two books of that title one is the author's,  *)
(* a third is a film; two rows of an edition and one without a title.       *)
Tsar == <<"t", "s", "a", "r">>
Gogol == <<"g", "o", "g", "o", "l">>
ItemsKnown ==
  {[p |-> [book |-> pBook, title |-> "p", authors |-> <<<<Tsar>>>>],
    q |-> [book |-> TRUE, title |-> qTitle, authors |-> <<<<<<"n", "i">>, Gogol>>>>],
    f |-> [book |-> FALSE, title |-> "p", authors |-> << >>]] : pBook \in BOOLEAN, qTitle \in {"p", NoneSaid}}
HitLists == {<< >>, <<"f">>, <<"p", "q">>, <<"q", "p">>, <<"f", "p", "q">>}
RowOf(id, lang, isbn) == [id |-> id, title |-> "p", lang |-> lang, isbn |-> isbn]
RowLists ==
  {<< >>, <<RowOf(<<"m">>, "ru", << >>), RowOf(<<"m">>, "uk", << >>)>>,
   <<RowOf(<<"m">>, NoneSaid, Spanish), RowOf(<<"m">>, "es", << >>), RowOf(<<"n">>, "ru", << >>)>>}
SiteOf(site, lang, url) == [site |-> site, lang |-> lang, title |-> "p", url |-> url]
SiteLists ==
  {<< >>, <<SiteOf("ruwikisource", "ru", "u1"), SiteOf("eswikisource", "es", "u2")>>,
   <<SiteOf("mulwikisource", "mul", "u3"), SiteOf("ruwikisource", "ru", NoneSaid)>>}
WikidataItems ==
  {[query |-> query, hits |-> hits, items |-> items, rows |-> rs, sites |-> sites, first |-> first] :
     query \in {<<<<"p">>>>, <<<<"p">>, Gogol>>, <<<<"p">>, <<"n", "i">>, Gogol>>},
     hits \in [1..3 -> HitLists], items \in ItemsKnown, rs \in RowLists, sites \in SiteLists,
     first \in {1997, Unstated}}

Addresses == {<<"https", "u">>, <<"http", "u">>}
Volumes ==
  [lang : {"en", NoneSaid}, isbn : {<< >>, Spanish}, forSale : BOOLEAN, buy : {"shop", NoneSaid}, first : {1997}]
FileList == [format : {"epub", "txt", "rdf"}, url : Addresses]
GutenbergBooks ==
  [copyright : {"yes", "no", "unstated"}, lang : {"en", NoneSaid}, first : {1862, 1997},
   formats : {<< >>} \cup {<<f>> : f \in FileList} \cup {<<f, g>> : f, g \in FileList}]
Recordings == [lang : {"de", NoneSaid}, zip : Addresses, page : Addresses, first : {1997, Unstated}]

(* "Homeland" is given away and "Homeland Elegies" is not.                  *)
Homeland == <<"h", "o", "m">>
Doctorow == [title |-> <<Homeland>>, author |-> <<<<"c", "o", "r">>, <<"d", "o", "c">>>>, lang |-> "en", file |-> "f1"]
Watts == [title |-> <<<<"b", "l", "i">>>>, author |-> <<<<"p">>, <<"w", "a", "t">>>>, lang |-> "en", file |-> "f2"]
MeantBooks ==
  {[title |-> b.title, author |-> b.author] : b \in {Doctorow, Watts}}
    \cup {[title |-> <<Homeland, <<"e", "l", "e">>>>, author |-> <<<<"a", "y", "a">>>>],
          [title |-> <<<<"e", "l", "e">>, Homeland>>, author |-> <<<<"p">>, <<"a", "k", "h">>>>]}
Meant(m, query) == [meant |-> m, query |-> query, list |-> <<Doctorow, Watts>>, first |-> Unstated]
GivenAway == {Meant(m, m.title) : m \in MeantBooks} \cup {Meant(m, m.title \o m.author) : m \in MeantBooks}
WhatSourcesHold ==
  "open-library" :> (PagedListings \cup ScannedListings) @@ "wikidata" :> WikidataItems @@ "google-books" :> Volumes
    @@ "gutenberg" :> GutenbergBooks @@ "librivox" :> Recordings @@ "authorized-free" :> GivenAway
IsbnGroups == <<8, 4>> :> "es" @@ <<0>> :> "en" @@ <<8>> :> "xx" @@ <<1>> :> "en"

(* Google's volumes and another source's answer for four printings of two   *)
(* translators in a language and one in another, or for two by nobody.      *)
Volume(average, votes) == [average |-> average, votes |-> votes]
InVolumes(vs) == [volumes |-> vs]
Few == Rating(50, 5, 2)
Many == Rating(38, 5, 400)
Hundred == Rating(910, 100, 7)
VolumeAnswers ==
  {Refused, InVolumes(<< >>), InVolumes(<<Volume(40, 0), Volume(Unvoted, 3)>>), InVolumes(<<Volume(45, Unvoted), Volume(38, 400)>>),
   InVolumes(<<Volume(50, 2), Volume(20, 9)>>), InVolumes(<<Volume(55, 3)>>)}
OtherAnswers == {NothingSaid, Refused, Few, Many, Hundred}
By(lang, translator) == [lang |-> lang, translator |-> translator]
Rated(editions, said) == [editions |-> editions, said |-> said]
SomeRatedPages ==
  {Rated(<<By(1, "n"), By(1, third), By(1, "v"), By(fourth, "v")>>, said) :
     third \in {"n", "v"}, fourth \in {1, 2}, said \in [1..4 -> {<<a>> : a \in OtherAnswers}]}
  \cup {Rated(<<By(1, "n"), By(1, t)>>, said) :
          t \in {"v", NoName}, said \in [1..2 -> {<<a, b>> : a \in VolumeAnswers, b \in OtherAnswers}]}

(* Two volumes to buy, an e-book or not, with prices in cents, yen and an   *)
(* odd coin; a shop's page and a listing on the denylist.                   *)
Price(amount, currency) == [amount |-> amount, currency |-> currency]
OnSale(link) ==
  {[link |-> link, denied |-> FALSE, ebook |-> ebook, retail |-> retail, list |-> list] :
     ebook \in BOOLEAN, list \in {NothingSaid, Price(12000, "EUR")},
     retail \in {NothingSaid, Price(9995, "EUR"), Price(9994, "USD"), Price(1200500, "JPY"), Price(1, "KWD"), Price(5, "coins")}}
NotForSale == [link |-> NoName, denied |-> FALSE, ebook |-> TRUE, retail |-> NothingSaid, list |-> NothingSaid]
Denied == [NotForSale EXCEPT !.link = "shadow", !.denied = TRUE]
ShopPages == <<[link |-> "thalia", denied |-> FALSE], [link |-> "shadow", denied |-> TRUE]>>
SomePricedPages ==
  {[binding |-> binding, isbn |-> isbn, volumes |-> vs, listings |-> ShopPages] :
     binding \in SUBSET {"audiobook", "ebook", "paperback"}, isbn \in BOOLEAN,
     vs \in {<<v, NotForSale, w, Denied>> : v \in OnSale("g1"), w \in OnSale("g2")}}

(* Four works, of two years and one of no known year; all free, one only    *)
(* to borrow, or one with a free printing in French beside a bought one.    *)
YearsOf == <<1862, 0, 1997, 1862>>
InLanguage(lang, types) == [lang |-> lang, types |-> types]
FreeInFrench == InLanguage("fr", {"download"})
SomePrinted == {FreeInFrench, InLanguage("en", {"listen"}), InLanguage("en", {"borrow"})}
SomeStocks ==
  {[w \in 1..4 |-> <<FreeInFrench>>],
   [w \in 1..4 |-> IF w = 2 THEN <<InLanguage("fr", {"borrow"})>> ELSE <<FreeInFrench>>],
   [w \in 1..4 |-> IF w = 3 THEN <<InLanguage("en", {}), FreeInFrench>> ELSE <<InLanguage("en", {"listen"})>>]}

(* Genres that come up alone and together; a heading in two spellings and   *)
(* one that is of a copy; titles and editions nearer and farther.           *)
SomeTastes ==
  [opened : {<< >>, <<1>>, <<2, 1>>, <<1, 1, 2>>, <<1, 2, 3>>, <<3, 1, 2, 1>>, <<4, 1, 2, 3>>}, hidden : {{}, {"g"}},
   tags : [1..4 -> {<< >>, <<"g">>, <<"g", "h">>, <<"h", "k", "g">>, <<"k">>}]]
Heading(name, folded) == [name |-> name, folded |-> folded]
SomeTagLists ==
  [1..4 -> {<< >>, <<Heading(1, 1)>>, <<Heading(2, 1), Heading(3, 2)>>, <<Heading(1, 1), Heading(2, 1)>>,
            <<Heading(3, 2), Heading(4, 3)>>, <<Heading(5, 4)>>}]
Unlike == [title |-> 0, author |-> 0, both |-> 0, within |-> FALSE, editions |-> {}]
Arms ==
  {Unlike, [Unlike EXCEPT !.title = 4], [Unlike EXCEPT !.author = 5, !.both = 7],
   [Unlike EXCEPT !.editions = {[like |-> 4, within |-> FALSE], [like |-> 3, within |-> TRUE]}],
   [Unlike EXCEPT !.title = 1, !.editions = {[like |-> 4, within |-> FALSE]}]}
Matched == {<<a, b, c, Unlike>> : a, b, c \in Arms}
SomeTextHits == {<<m>> : m \in Matched} \cup {<<m, n>> : m, n \in Matched}

(* Two catalogues added before there were addons, one of whose addresses is  *)
(* added again; sources with one name in two cases, one whose name another  *)
(* with a number has, one that nothing can fill and one that is refused;    *)
(* settings, and catalogues of four entries no two of which cannot be read. *)
TheirOldFeeds == <<[id |-> "opds.f", url |-> "u"], [id |-> "opds.g", url |-> "v"]>>
TheirNewFeeds == "u" :> "opds.n" @@ "w" :> "opds.m"
FormOf(lower, slug, asks) == [lower |-> lower, slug |-> slug, asks |-> asks, valid |-> asks # {}]
TheirForms ==
  {FormOf("shop", <<0>>, {"isbn"}), FormOf("shop!", <<0>>, {"query", "author"}),
   FormOf("shop 3", <<0, 3>>, {"query"}), FormOf("shop?", <<0>>, {"domain"}), FormOf("shops", <<1>>, {})}
TheirLooks == "theme" :> <<"sepia", "app", "dark">> @@ "fontScale" :> <<115, 100, 130>>
TheirPlainLook == "theme" :> "app" @@ "fontScale" :> 100
TheirEditionsSeen == {{"isbn", "author", "language"}, {"author"}, {}}
TheirCatalogues ==
  {c \in UNION {[1..n -> [id : 1..4, readable : BOOLEAN]] : n \in 0..4} :
     \A i \in DOMAIN c : c[i].id = i /\ (i > 1 => c[i].readable \/ c[i - 1].readable)}

(* The walk without the steps that repeat another's case: two links of the  *)
(* navigation, two steps on one page, one on another, the first and last.   *)
StepOf(target, path) == [target |-> target, path |-> path]
TheirSteps ==
  <<StepOf(FALSE, Anywhere), StepOf(TRUE, Anywhere), StepOf(TRUE, "/custom-sources"),
    StepOf(TRUE, "/custom-sources"), StepOf(TRUE, Anywhere), StepOf(TRUE, "/addons"), StepOf(FALSE, Anywhere)>>

VARIABLE scene
readingVars == <<scene, vars, accountVars, screenVars, panelVars, question, opdsVars, asked, offered, figures, listVars, choiceVars, tourVars>>

ReadingInit ==
  /\ scene \in {"reader", "account", "screens", "links", "quotes", "rules", "feeds", "addon", "records", "offers", "figures", "shelf", "lists", "choices", "tour"}
  /\ Init /\ AccountsInit /\ ScreensInit /\ PanelsInit
  /\ IF scene = "rules" THEN RulesInit ELSE question = << >>
  /\ IF scene = "records" THEN RecordsInit ELSE asked = << >>
  /\ IF scene = "offers" THEN OffersInit ELSE offered = << >>
  /\ IF scene = "figures" THEN FiguresInit ELSE figures = << >>
  /\ CASE scene = "shelf" -> FreeInit [] scene = "lists" -> MatterInit [] OTHER -> ListsStill
  /\ IF scene = "choices" THEN ChoicesInit ELSE NoChoices
  /\ IF scene = "tour" THEN TourInit ELSE TourStill
  /\ CASE scene = "feeds" -> FeedInit [] scene = "addon" -> AddonInit
       [] OTHER -> OpdsInit /\ searches = FALSE
  /\ scene # "screens" => screen = "opds"
ReadingNext ==
  /\ UNCHANGED <<scene, question, asked, offered, figures>>
  /\ \/ scene = "reader" /\ Next /\ UNCHANGED <<accountVars, screenVars, panelVars, opdsVars, listVars, choiceVars, tourVars>>
     \/ scene = "account" /\ AccountsNext /\ UNCHANGED <<vars, screenVars, panelVars, opdsVars, listVars, choiceVars, tourVars>>
     \/ scene = "screens" /\ ScreensNext /\ UNCHANGED <<vars, accountVars, panelVars, opdsVars, listVars, choiceVars, tourVars>>
     \/ scene = "links" /\ LinksNext /\ UNCHANGED <<vars, accountVars, screenVars, opdsVars, listVars, choiceVars, tourVars>>
     \/ scene = "quotes" /\ QuotesNext /\ UNCHANGED <<vars, accountVars, screenVars, opdsVars, listVars, choiceVars, tourVars>>
     \/ scene = "addon" /\ AddonNext /\ UNCHANGED <<vars, accountVars, screenVars, panelVars, listVars, choiceVars, tourVars>>
     \/ scene = "shelf" /\ FreeNext /\ UNCHANGED <<vars, accountVars, screenVars, panelVars, opdsVars, choiceVars, tourVars>>
     \/ scene = "choices" /\ ChoicesNext /\ UNCHANGED <<vars, accountVars, screenVars, panelVars, opdsVars, listVars, tourVars>>
     \/ scene = "tour" /\ TourNext /\ UNCHANGED <<vars, accountVars, screenVars, panelVars, opdsVars, listVars, choiceVars>>
ReadingSpec == ReadingInit /\ [][ReadingNext]_readingVars

(* A question to the rules gets the right answer, a reader of somebody's     *)
(* catalogue, read as a page or asked as an addon, what is in it, a book of  *)
(* a library's records the printings that are its own, and of a source's    *)
(* copies those it is said to give; the figures beside a printing are what  *)
(* was said of it, a list of what is stored leaves nothing out, what was    *)
(* chosen in a browser is what it does, and the walk shows where it is.     *)
JudgedRight ==
  /\ scene = "rules" => RulesAgree
  /\ scene = "feeds" => FeedsReadAlike
  /\ scene = "addon" => OwnBookIsFound
  /\ scene = "records" => RecordsReadRight
  /\ scene = "offers" => OffersAreTrue
  /\ scene = "figures" => FiguresAreTrue
  /\ scene \in {"shelf", "lists"} => ListsAreRight
  /\ scene = "choices" => ChoicesHold
  /\ scene = "tour" => TourHolds

ReadersTypeOK == ReaderTypeOK /\ AccountsTypeOK /\ ScreensTypeOK /\ PanelsTypeOK /\ OpdsTypeOK
=============================================================================
