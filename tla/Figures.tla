------------------------------- MODULE Figures -------------------------------
(***************************************************************************)
(* The figures shown beside a work's printings: what readers thought of    *)
(* each and of a translator's together (AggregateTranslationRatings,       *)
(* Rating, GoogleBooksRatingProvider), and what each costs and where       *)
(* (AggregateEditionPrices, Money, GoogleBooksPriceProvider,               *)
(* BookstoreCatalogPriceProvider).  Averages are in tenths of a star,      *)
(* amounts in thousandths; rounding in binary fractions is taken as exact. *)
(***************************************************************************)
EXTENDS EditionPanels, Rules
LOCAL INSTANCE FiniteSetsExt
LOCAL INSTANCE SequencesExt

CONSTANTS
  RatedPages,    \* pages: [editions : of [lang, translator], said : of answers by source]
  PricedPages    \* printings on sale: [binding, isbn, volumes, listings]

VARIABLE figures   \* [rated] or [priced]: the page whose figures are asked for

NothingSaid == [said |-> "nothing"]
Refused == [said |-> "failed"]
Unvoted == -1                  \* an average or a count that is not stated
NoName == "unsaid"             \* a translator or an address to buy at

-----------------------------------------------------------------------------
(* Rating.  A source's answer is NothingSaid, Refused or                   *)
(* [average, of, votes]: the average in tenths on a scale of "of".         *)
RATING_SCALE == 5
Rating(average, of, votes) ==
  IF average \in 0..(10 * of) /\ votes >= 1 THEN [average |-> average, of |-> of, votes |-> votes] ELSE Refused

RoundHalfUp(a, b) == (2 * a + b) \div (2 * b)

(* Mutant: each edition counts as much as any other. *)
AggregateMeanOfMeans(rs) ==
  [average |-> RoundHalfUp(FoldSeq(LAMBDA r, sum : sum + r.average * (100 \div r.of), 0, rs), 20 * Len(rs)),
   of |-> RATING_SCALE, votes |-> FoldSeq(LAMBDA r, sum : sum + r.votes, 0, rs)]

(* Rating.aggregate, as toDisplay rounds it: by voters, on the common      *)
(* scale, for scales that divide a hundred.                                *)
Aggregate(rs) ==
  LET votes == FoldSeq(LAMBDA r, sum : sum + r.votes, 0, rs)
      weighted == FoldSeq(LAMBDA r, sum : sum + r.average * (100 \div r.of) * r.votes, 0, rs)
  IN [average |-> RoundHalfUp(weighted, 20 * votes), of |-> RATING_SCALE, votes |-> votes]

(* The first of Google's volumes of an ISBN that states an average and a   *)
(* count somebody stands behind.                                           *)
FirstRatedVolume(volumes) ==
  LET rated == SelectSeq(volumes, LAMBDA v : v.average # Unvoted /\ v.votes >= 1)
  IN IF rated = << >> THEN NothingSaid ELSE Rating(rated[1].average, RATING_SCALE, rated[1].votes)

(* What a source said of an edition; Google says it in volumes. *)
Told(answer) == IF answer \in {NothingSaid, Refused} \/ "votes" \in DOMAIN answer THEN answer
                ELSE FirstRatedVolume(answer.volumes)

(* rateEdition: of the answers, in the order of the sources, one replaces  *)
(* another when more voted.                                                *)
BestOf(answers) ==
  FoldLeft(LAMBDA winner, candidate :
             IF candidate \in {NothingSaid, Refused} THEN winner
             ELSE IF winner = NothingSaid \/ candidate.votes > winner.votes THEN candidate ELSE winner,
           NothingSaid, answers)

(* dedupeDegraded: sources by number, each when it first failed. *)
Degraded(page) ==
  LET named == [i \in DOMAIN page.said |->
                  SelectSeq([s \in DOMAIN page.said[i] |-> s], LAMBDA s : Told(page.said[i][s]) = Refused)]
  IN FoldLeft(LAMBDA seen, s : IF Contains(seen, s) THEN seen ELSE Append(seen, s), << >>, FlattenSeq(named))

EditionRatings(page) ==
  [i \in DOMAIN page.editions |-> BestOf([s \in DOMAIN page.said[i] |-> Told(page.said[i][s])])]

(* aggregateByTranslator.  A group is a language and a name, whatever the  *)
(* case it is written in; groups in the order of their first edition.      *)
GroupKey(e) == <<e.lang, e.translator>>
GroupsOf(page, best) ==
  LET credited == SelectSeq([i \in DOMAIN best |-> i],
                            LAMBDA i : best[i] # NothingSaid /\ page.editions[i].translator # NoName)
      keys == FoldLeft(LAMBDA seen, i : IF Contains(seen, GroupKey(page.editions[i])) THEN seen
                                        ELSE Append(seen, GroupKey(page.editions[i])), << >>, credited)
      ofGroup(key) == SelectSeq(credited, LAMBDA i : GroupKey(page.editions[i]) = key)
  IN [g \in DOMAIN keys |->
        [key |-> keys[g], editions |-> Len(ofGroup(keys[g])),
         rating |-> Aggregate([n \in DOMAIN ofGroup(keys[g]) |-> best[ofGroup(keys[g])[n]]])]]
TranslatorGroups(page) == GroupsOf(page, EditionRatings(page))

(* By language (here a number), then most voters first. *)
RowBefore(a, b) == IF a.key[1] = b.key[1] THEN a.rating.votes > b.rating.votes ELSE a.key[1] < b.key[1]

Rivalled(g, groups) == \E other \in ToSet(groups) : other.key[1] = g.key[1] /\ other.key # g.key

(* Mutant: a lone edition's number is said again of its translator. *)
RowsAlone(groups) ==
  SortSeq(SelectSeq(groups, LAMBDA g : Rivalled(g, groups)), RowBefore)

Rows(groups) ==
  SortSeq(SelectSeq(groups, LAMBDA g : g.editions > 1 /\ Rivalled(g, groups)), RowBefore)
AggregateByTranslator(page) == Rows(TranslatorGroups(page))

-----------------------------------------------------------------------------
(* normalizeBookFormat: a binding is the formats whose words it mentions.  *)
FORMAT_PATTERNS == <<"audiobook", "ebook", "hardcover", "paperback">>
NormalizeBookFormat(binding) ==
  LET hits == SelectSeq(FORMAT_PATTERNS, LAMBDA f : f \in binding)
  IN IF hits = << >> THEN "unknown" ELSE hits[1]
FORMAT_ORDER == <<"hardcover", "paperback", "ebook", "audiobook", "unknown">>

(* Money.fromDecimal. *)
CurrencyExponent(currency) == IF currency = "JPY" THEN 0 ELSE IF currency = "KWD" THEN 3 ELSE 2
CurrencyCodes == {"EUR", "USD", "JPY", "KWD"}
FromDecimal(amount, currency) == RoundHalfUp(amount * 10^CurrencyExponent(currency), 1000)

(* Mutant: the price before the discount. *)
SourceBeforeDiscount(v) == IF v.list # NothingSaid THEN v.list ELSE v.retail

(* A price [amount, currency] of a volume; a currency that is no code is   *)
(* refused, and with it the source.                                        *)
Source(v) == IF v.retail # NothingSaid THEN v.retail ELSE v.list
Unreadable(v) == v.link # NoName /\ Source(v) # NothingSaid /\ Source(v).currency \notin CurrencyCodes

(* Mutant: what Google sells as an e-book is the binding asked about. *)
ToOfferAsAsked(v, format) ==
  [format |-> format, link |-> v.link, denied |-> v.denied,
   currency |-> IF Source(v) = NothingSaid THEN NoPrice.currency ELSE Source(v).currency,
   minor |-> IF Source(v) = NothingSaid THEN NoPrice.minor ELSE FromDecimal(Source(v).amount, Source(v).currency)]

(* toOffer of the Google Books prices. *)
ToOffer(v, format) ==
  [format |-> IF v.ebook THEN "ebook" ELSE format, link |-> v.link, denied |-> v.denied,
   currency |-> IF Source(v) = NothingSaid THEN NoPrice.currency ELSE Source(v).currency,
   minor |-> IF Source(v) = NothingSaid THEN NoPrice.minor ELSE FromDecimal(Source(v).amount, Source(v).currency)]

GooglePlay(page) ==
  LET sold == SelectSeq(page.volumes, LAMBDA v : v.link # NoName)
  IN IF ~page.isbn THEN << >>
     ELSE [i \in DOMAIN sold |-> ToOffer(sold[i], NormalizeBookFormat(page.binding))]
GoogleFails(page) == page.isbn /\ \E i \in DOMAIN page.volumes : Unreadable(page.volumes[i])

(* BookstoreCatalogPriceProvider: a shop's look-up, never a price. *)
ShopLookups(page) ==
  [i \in DOMAIN page.listings |->
     [format |-> NormalizeBookFormat(page.binding), link |-> page.listings[i].link,
      denied |-> page.listings[i].denied, currency |-> NoPrice.currency, minor |-> NoPrice.minor]]

(* execute: Google's before the shops', those allowed, by format, each     *)
(* format's sorted.                                                        *)
PriceCandidate(o) ==
  [type |-> "buy", provider |-> "shop", url |-> o.link, denied |-> o.denied, rights |-> "copyrighted", first |-> Unstated]
AllowedOffers(page) ==
  SelectSeq((IF GoogleFails(page) THEN << >> ELSE GooglePlay(page)) \o ShopLookups(page),
            LAMBDA o : Allowed(PriceCandidate(o)))
PriceGroups(page) ==
  LET offers == AllowedOffers(page)
      stated == SelectSeq(FORMAT_ORDER, LAMBDA f : \E i \in DOMAIN offers : offers[i].format = f)
  IN [g \in DOMAIN stated |->
        [format |-> stated[g], offers |-> SortOffers(SelectSeq(offers, LAMBDA o : o.format = stated[g]))]]

-----------------------------------------------------------------------------
FiguresInit ==
  \/ \E page \in RatedPages : figures = [rated |-> page]
  \/ \E page \in PricedPages : figures = [priced |-> page]

(* Under each edition stands a number its voters gave, of the source with  *)
(* the most of them whatever its verdict (rating.ts:22-24,                 *)
(* aggregate-translation-ratings:275-281); who failed for any is named     *)
(* once.  A translator's row appears when they have two rated editions or  *)
(* more and a rival in the language, and says within half of the last      *)
(* digit what all their editions' voters said together, however few        *)
(* editions those voters read (rating.ts:61-70); most voters come first.   *)
RatingsAreTrue(page, best, told) ==
  LET theirs(l, t) == {i \in DOMAIN best : page.editions[i] = [lang |-> l, translator |-> t] /\ best[i] # NothingSaid}
      names == {page.editions[i].translator : i \in DOMAIN page.editions} \ {NoName}
      langs == {page.editions[i].lang : i \in DOMAIN page.editions}
      deserves(l, t) == Cardinality(theirs(l, t)) > 1 /\ \E r \in names \ {t} : theirs(l, r) # {}
      ballots(i) == {Told(a) : a \in ToSet(page.said[i])} \ {NothingSaid, Refused}
      voters(is) == MapThenSumSet(LAMBDA i : best[i].votes, is)
      stars(is) == MapThenSumSet(LAMBDA i : best[i].votes * best[i].average * (100 \div best[i].of), is)
  IN /\ \A i \in DOMAIN best :
          IF ballots(i) = {} THEN best[i] = NothingSaid
          ELSE best[i] \in ballots(i) /\ \A b \in ballots(i) : 1 <= b.votes /\ b.votes <= best[i].votes
     /\ \A l \in langs, t \in names :
          Cardinality({r \in DOMAIN told : told[r].key = <<l, t>>}) = (IF deserves(l, t) THEN 1 ELSE 0)
     /\ \A row \in ToSet(told) :
          \E is \in {theirs(row.key[1], row.key[2])} :
            /\ row.editions = Cardinality(is) /\ row.rating.votes = voters(is)
            /\ (40 * voters(is) * row.rating.average) - (2 * stars(is)) \in (0 - 20 * voters(is))..(20 * voters(is))
     /\ \A a, b \in DOMAIN told :
          a < b /\ told[a].key[1] = told[b].key[1] => told[a].rating.votes >= told[b].rating.votes
FailuresAreNamed(page, degraded) ==
  /\ IsInjective(degraded)
  /\ ToSet(degraded) = {s \in DOMAIN page.said[1] : \E i \in DOMAIN page.said : Told(page.said[i][s]) = Refused}

(* Every offer a source made and the policy allows stands once among those *)
(* of its own format, in their order; what is sold as an e-book is never   *)
(* among the printed ones; what the shop asks is what it is said to ask,   *)
(* to within half of the smallest coin of its own currency, never the      *)
(* price before a discount (google-books-price.provider.ts:85-95).         *)
PricesAreTrue(page, groups, format) ==
  LET given == {i \in DOMAIN page.volumes :
                  page.isbn /\ ~GoogleFails(page) /\ page.volumes[i].link # NoName /\ ~page.volumes[i].denied}
      listed == {i \in DOMAIN page.listings : ~page.listings[i].denied}
      among(link, f) == {o \in UNION {ToSet(g.offers) : g \in {x \in ToSet(groups) : x.format = f}} : o.link = link}
      asks(v) == IF v.retail # NothingSaid THEN v.retail ELSE v.list
      place(f) == CHOOSE i \in DOMAIN FORMAT_ORDER : FORMAT_ORDER[i] = f
  IN /\ \A g, h \in DOMAIN groups : g < h => place(groups[g].format) < place(groups[h].format)
     /\ \A g \in ToSet(groups) : OffersInOrder(g.offers) /\ g.offers = SortOffers(g.offers)
     /\ FoldSeq(LAMBDA g, n : n + Len(g.offers), 0, groups) = Cardinality(given) + Cardinality(listed)
     /\ \A i \in given :
          \E v \in {page.volumes[i]} : \E o \in among(v.link, IF v.ebook THEN "ebook" ELSE format) :
            IF asks(v) = NothingSaid THEN ~Priced(o)
            ELSE /\ o.currency = asks(v).currency
                 /\ (2000 * o.minor) - (2 * asks(v).amount * 10^CurrencyExponent(o.currency)) \in -1000..1000
     /\ \A i \in listed : \E o \in among(page.listings[i].link, format) : ~Priced(o)

(* What is shown beside a printing is what its sources said. *)
FiguresAreTrue ==
  /\ "rated" \in DOMAIN figures =>
       /\ RatingsAreTrue(figures.rated, EditionRatings(figures.rated), AggregateByTranslator(figures.rated))
       /\ FailuresAreNamed(figures.rated, Degraded(figures.rated))
  /\ "priced" \in DOMAIN figures =>
       PricesAreTrue(figures.priced, PriceGroups(figures.priced), NormalizeBookFormat(figures.priced.binding))
=============================================================================
