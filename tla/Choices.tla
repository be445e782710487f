------------------------------ MODULE Choices ------------------------------
(***************************************************************************)
(* What readers set up in a browser: the addons of their own, in the order *)
(* they ask them, with the catalogues an older version kept in a list      *)
(* apart (installed-addons, AddonManager, opds-feeds); sources they wrote  *)
(* an address for, shown beside an edition (custom-source-providers,       *)
(* CustomSourceManager, CustomSources); how books look (reader-display,    *)
(* BookReader); and the pages of an addon's catalogue (AddonCatalogBrowser *)
(* over HttpAddonTransport).  Tabs share one storage, which may be full or *)
(* switched off; a handler runs to its end before another tab's.           *)
(***************************************************************************)
EXTENDS Naturals, Sequences, FiniteSets
LOCAL INSTANCE FiniteSetsExt
LOCAL INSTANCE SequencesExt
LOCAL INSTANCE Functions

CONSTANTS
  Tabs,
  OldFeeds,       \* catalogues in the older list, a sequence of [id, url]
  Strangers,      \* addons to install
  NewFeeds,       \* address -> the id a catalogue added under it gets
  SourceForms,    \* what the form may hold: [lower, slug, asks, valid]; slug is a sequence
  EditionsSeen,   \* editions whose links are opened: sets of what is known of one
  Looks,          \* setting -> its values, in order
  PlainLook,      \* setting -> its default
  Catalogues,     \* what an addon's catalogue may hold, sequences of [id, readable]
  PageLength,     \* how many it answers at once
  MaxChoices      \* bound: what is done in a behaviour

VARIABLES
  topic,       \* what this behaviour is about
  mood,        \* storage: "well", "full" (may refuse what grows) or "off"
  store,       \* what is in it: addons, feeds, notes, sources, look
  views,       \* tab -> its React state: addons, sources, look, panel; no look before its page is opened
  popup,        \* the last popup and what it was about
  tookOut,     \* observes the addons the reader was told are removed
  browse,      \* the page of an addon's catalogue
  choices      \* what the bound counts
choiceVars == <<topic, mood, store, views, popup, tookOut, browse, choices>>

Silence == [of |-> "nothing"]
ClosedPanel == [open |-> FALSE, links |-> << >>, fresh |-> FALSE, edition |-> {}]
NoView == [addons |-> << >>, sources |-> << >>, look |-> << >>, panel |-> ClosedPanel]
Ids(list) == {x.id : x \in ToSet(list)}
WithoutId(list, id) == SelectSeq(list, LAMBDA x : x.id # id)
Choose == choices > 0 /\ choices' = choices - 1
\* What grows may be refused by a full storage.
Lands(grows) == CASE mood = "off" -> {FALSE} [] mood = "full" /\ grows -> BOOLEAN [] OTHER -> {TRUE}
OutcomeOfWrite(lands, intent) == IF ~lands THEN "unstored" ELSE IF intent = "clear" THEN "cleared" ELSE "saved"
OutcomeOfSessionWrite(lands, intent) == IF ~lands THEN "session" ELSE OutcomeOfWrite(lands, intent)

-----------------------------------------------------------------------------
(* Addons.  Every read moves the older list over first, if it can.         *)

AddonEntry(id, url) == [id |-> id, url |-> url, on |-> TRUE]
(* Mutant: what is there already is moved over once more. *)
OldAgain(k) == [i \in DOMAIN k.feeds |-> AddonEntry(k.feeds[i].id, k.feeds[i].url)]

OldAsAddons(k) ==
  SelectSeq([i \in DOMAIN k.feeds |-> AddonEntry(k.feeds[i].id, k.feeds[i].url)],
            LAMBDA a : a.id \notin Ids(k.addons))

(* Mutant: the older list goes whether or not its catalogues were stored. *)
ReadsHasty(k) ==
  IF mood = "off" \/ k.feeds = << >> THEN {k}
  ELSE {[k EXCEPT !.addons = IF lands THEN @ \o OldAsAddons(k) ELSE @, !.feeds = << >>] :
          lands \in Lands(OldAsAddons(k) # << >>)}
\* What a read may leave stored.
Reads(k) ==
  IF mood = "off" \/ k.feeds = << >> THEN {k}
  ELSE {IF lands THEN [k EXCEPT !.addons = @ \o OldAsAddons(k), !.feeds = << >>] ELSE k :
          lands \in Lands(OldAsAddons(k) # << >>)}
Listed(k) == IF mood = "off" THEN << >> ELSE k.addons
ListStored(k, list, lands) == IF lands THEN [k EXCEPT !.addons = list] ELSE k

OpenManager(t) ==
  /\ store' \in Reads(store)
  /\ views' = [views EXCEPT ![t].addons = Listed(store')]
  /\ popup' = Silence
  /\ UNCHANGED tookOut

(* The tab dies between the new list and the end of the older one. *)
DieMoving(t) ==
  /\ mood # "off" /\ store.feeds # << >>
  /\ store' = [store EXCEPT !.addons = @ \o OldAsAddons(store)]
  /\ views' = [views EXCEPT ![t] = NoView]
  /\ popup' = Silence
  /\ UNCHANGED tookOut

News(of, t, id, aim, outcome, was) ==
  [of |-> of, tab |-> t, id |-> id, aim |-> aim, outcome |-> outcome, was |-> was]

(* Mutant: an addon is put first. *)
InstallFirst(t, a) ==
  \E k \in Reads(store) : \E lands \in Lands(TRUE) :
    /\ a \notin Ids(Listed(k))
    /\ store' \in Reads(ListStored(k, <<AddonEntry(a, "none")>> \o Listed(k), lands))
    /\ views' = [views EXCEPT ![t].addons = Listed(store')]
    /\ popup' = News("added", t, a, TRUE, OutcomeOfWrite(lands, "set"), k.addons)
    /\ UNCHANGED tookOut

InstallAddon(t, a) ==
  \E k \in Reads(store) : \E lands \in Lands(TRUE) :
    /\ a \notin Ids(Listed(k))
    /\ store' \in Reads(ListStored(k, Append(Listed(k), AddonEntry(a, "none")), lands))
    /\ views' = [views EXCEPT ![t].addons = Listed(store')]
    /\ popup' = News("added", t, a, TRUE, OutcomeOfWrite(lands, "set"), k.addons)
    /\ tookOut' = IF lands THEN tookOut \ {a} ELSE tookOut
RefuseAddon(t, a) ==
  /\ store' \in {k \in Reads(store) : a \in Ids(Listed(k))}
  /\ popup' = News("added", t, a, TRUE, "failed", store.addons)
  /\ UNCHANGED <<views, tookOut>>

(* Mutant: what the addon stored stays. *)
RemoveKeeping(t, a) ==
  \E k \in Reads(store) : \E lands \in Lands(FALSE) :
    /\ store' \in Reads(ListStored(k, WithoutId(Listed(k), a.id), lands))
    /\ views' = [views EXCEPT ![t].addons = Listed(store')]
    /\ popup' = News("removed", t, a.id, TRUE, OutcomeOfWrite(lands, "clear"), k.addons)
    /\ tookOut' = IF lands THEN tookOut \cup {a.id} ELSE tookOut

RemoveAddon(t, a) ==
  \E k \in Reads(store) : \E lands \in Lands(FALSE) :
    /\ store' \in Reads([ListStored(k, WithoutId(Listed(k), a.id), lands)
                          EXCEPT !.notes = IF mood = "off" THEN @ ELSE @ \ {a.id}])
    /\ views' = [views EXCEPT ![t].addons = Listed(store')]
    /\ popup' = News("removed", t, a.id, TRUE, OutcomeOfWrite(lands, "clear"), k.addons)
    /\ tookOut' = IF lands THEN tookOut \cup {a.id} ELSE tookOut

\* `a` is the entry on screen, which another tab may have changed since.
ToggleAddon(t, a) ==
  \E k \in Reads(store) : \E lands \in Lands(a.on) :
    /\ store' \in Reads(ListStored(k, [i \in DOMAIN Listed(k) |->
                          [k.addons[i] EXCEPT !.on = IF k.addons[i].id = a.id THEN ~a.on ELSE @]], lands))
    /\ views' = [views EXCEPT ![t].addons = Listed(store')]
    /\ popup' = News("switched", t, a.id, ~a.on, OutcomeOfWrite(lands, "set"), k.addons)
    /\ UNCHANGED tookOut

Place(list, id) == IF id \in Ids(list) THEN CHOOSE i \in DOMAIN list : list[i].id = id ELSE 0
MoveAddon(t, a, up) ==
  \E k \in Reads(store) : \E lands \in Lands(FALSE) :
    LET from == Place(Listed(k), a.id)
        to == IF up THEN from - 1 ELSE from + 1
    IN IF from = 0 \/ to \notin DOMAIN Listed(k)
       THEN store' = k /\ popup' = Silence /\ UNCHANGED <<views, tookOut>>
       ELSE /\ store' \in Reads(ListStored(k, [k.addons EXCEPT ![from] = k.addons[to], ![to] = k.addons[from]], lands))
            /\ views' = [views EXCEPT ![t].addons = Listed(store')]
            /\ popup' = News("moved", t, a.id, Place(Listed(store'), a.id),
                             OutcomeOfWrite(lands, "set"), k.addons)
            /\ UNCHANGED tookOut
\* The ends of the list on screen have no button that way.
Movable(t, a, up) == Place(views[t].addons, a.id) # IF up THEN 1 ELSE Len(views[t].addons)

FeedUrls(k) == {a.url : a \in ToSet(Listed(k))}
AddCatalogue(t, url) ==
  \E k \in Reads(store) :
    IF url \in FeedUrls(k)
    THEN store' = k /\ popup' = Silence /\ UNCHANGED <<views, tookOut>>
    ELSE \E lands \in Lands(TRUE) :
           /\ store' \in Reads(ListStored(k, Append(Listed(k), AddonEntry(NewFeeds[url], url)), lands))
           /\ popup' = News("added", t, NewFeeds[url], TRUE, OutcomeOfWrite(lands, "set"), k.addons)
           /\ tookOut' = IF lands THEN tookOut \ {NewFeeds[url]} ELSE tookOut
           /\ UNCHANGED views

AddonChoice(t) ==
  \/ OpenManager(t)
  \/ DieMoving(t)
  \/ \E a \in Strangers : InstallAddon(t, a) \/ RefuseAddon(t, a)
  \/ \E a \in ToSet(views[t].addons) :
       \/ RemoveAddon(t, a)
       \/ ToggleAddon(t, a)
       \/ \E up \in BOOLEAN : Movable(t, a, up) /\ MoveAddon(t, a, up)
  \/ \E url \in DOMAIN NewFeeds : AddCatalogue(t, url)

-----------------------------------------------------------------------------
(* Sources of the reader's own.                                            *)

(* Mutant: the number that follows is taken to be free. *)
CountedId(slug, taken) == IF slug \in taken THEN slug \o <<Cardinality(taken) + 1>> ELSE slug
UniqueId(slug, taken) ==
  IF slug \notin taken THEN slug
  ELSE slug \o <<Min({n \in 2..Cardinality(taken) + 2 : slug \o <<n>> \notin taken})>>

SourcesKept == IF mood = "off" THEN << >> ELSE store.sources
KeepSources(t, list, news) ==
  \E lands \in Lands(Len(list) > Len(store.sources)) :
    /\ store' = IF lands THEN [store EXCEPT !.sources = list] ELSE store
    /\ views' = [u \in Tabs |->
         [views[u] EXCEPT !.sources = IF u # t THEN @ ELSE IF mood = "off" THEN << >> ELSE store'.sources,
                          !.panel.fresh = @ /\ store' = store]]
    /\ popup' = [news EXCEPT !.outcome = OutcomeOfWrite(lands, @)]
    /\ UNCHANGED tookOut
OpenSources(t) ==
  /\ views' = [views EXCEPT ![t].sources = SourcesKept]
  /\ popup' = Silence
  /\ UNCHANGED <<store, tookOut>>
AddSource(t, form) ==
  LET id == UniqueId(form.slug, Ids(SourcesKept))
  IN IF ~form.valid \/ \E s \in ToSet(SourcesKept) : s.lower = form.lower
     THEN /\ popup' = News("named", t, form.slug, TRUE, "failed", store.sources)
          /\ UNCHANGED <<store, views, tookOut>>
     ELSE KeepSources(t, Append(SourcesKept, [id |-> id, lower |-> form.lower, asks |-> form.asks, on |-> TRUE]),
                      News("named", t, id, TRUE, "set", store.sources))
RemoveSource(t, s) ==
  KeepSources(t, WithoutId(SourcesKept, s.id), News("unnamed", t, s.id, TRUE, "clear", store.sources))
ToggleSource(t, s) ==
  KeepSources(t, [i \in DOMAIN SourcesKept |->
                    [SourcesKept[i] EXCEPT !.on = IF SourcesKept[i].id = s.id THEN ~s.on ELSE @]],
              News("named", t, s.id, TRUE, "set", store.sources))

\* What a template may ask for and get of an edition; a search is by ISBN or by words.
Fills(edition) == edition \cup {"title", "query"}
Links(edition, list) == SelectSeq(list, LAMBDA s : s.on /\ s.asks \subseteq Fills(edition))
(* Mutant: the sources are read when the panel is first opened. *)
OpenPanelOnce(t, edition) ==
  /\ ~views[t].panel.open
  /\ views' = [views EXCEPT ![t].panel =
       [open |-> TRUE, fresh |-> TRUE, edition |-> edition,
        links |-> IF @.links = << >> THEN Links(edition, SourcesKept) ELSE @.links]]
  /\ popup' = Silence
  /\ UNCHANGED <<store, tookOut>>
OpenPanel(t, edition) ==
  /\ ~views[t].panel.open
  /\ views' = [views EXCEPT ![t].panel =
       [open |-> TRUE, fresh |-> TRUE, edition |-> edition, links |-> Links(edition, SourcesKept)]]
  /\ popup' = Silence
  /\ UNCHANGED <<store, tookOut>>
ClosePanel(t) ==
  /\ views[t].panel.open
  /\ views' = [views EXCEPT ![t].panel.open = FALSE]
  /\ popup' = Silence
  /\ UNCHANGED <<store, tookOut>>

SourceChoice(t) ==
  \/ OpenSources(t)
  \/ \E form \in SourceForms : AddSource(t, form)
  \/ \E s \in ToSet(views[t].sources) : RemoveSource(t, s) \/ ToggleSource(t, s)
  \/ \E edition \in EditionsSeen : OpenPanel(t, edition)
  \/ ClosePanel(t)

-----------------------------------------------------------------------------
(* How books look.  The page applies a choice whether or not it is stored. *)

ReadLook(k) ==
  [f \in DOMAIN PlainLook |-> IF mood # "off" /\ f \in DOMAIN k.look THEN k.look[f] ELSE PlainLook[f]]
OpenBookPage(t) ==
  /\ views' = [views EXCEPT ![t].look = ReadLook(store)]
  /\ popup' = Silence
  /\ UNCHANGED <<store, tookOut>>
(* Mutant: what was not stored is not shown. *)
ChangeLookIfKept(t, field, value) ==
  /\ views[t].look[field] # value
  /\ \E lands \in Lands(TRUE) :
       LET next == [views[t].look EXCEPT ![field] = value]
       IN /\ store' = IF lands THEN [store EXCEPT !.look = next] ELSE store
          /\ views' = IF lands THEN [views EXCEPT ![t].look = next] ELSE views
          /\ popup' = News("look", t, field, value, OutcomeOfSessionWrite(lands, "set"), store.look)
  /\ UNCHANGED tookOut
ChangeLook(t, field, value) ==
  /\ views[t].look[field] # value
  /\ views' = [views EXCEPT ![t].look[field] = value]
  /\ \E lands \in Lands(TRUE) :
       /\ store' = IF lands THEN [store EXCEPT !.look = views'[t].look] ELSE store
       /\ popup' = News("look", t, field, value, OutcomeOfSessionWrite(lands, "set"), store.look)
  /\ UNCHANGED tookOut
\* One step up or down the ladder of sizes, as far as it goes.
StepFontScale(t, up) ==
  LET sizes == Looks["fontScale"]
      at == CHOOSE i \in DOMAIN sizes : sizes[i] = views[t].look["fontScale"]
      to == Max({1, Min({Len(sizes), IF up THEN at + 1 ELSE at - 1})})
  IN ChangeLook(t, "fontScale", sizes[to])
ResetLook(t) ==
  /\ views' = [views EXCEPT ![t].look = PlainLook]
  /\ store' = IF mood = "off" THEN store ELSE [store EXCEPT !.look = << >>]
  /\ popup' = News("reset", t, "look", TRUE, OutcomeOfSessionWrite(mood # "off", "clear"), store.look)
  /\ UNCHANGED tookOut

LookChoice(t) ==
  \/ OpenBookPage(t)
  \/ /\ views[t].look # << >>
     /\ \/ \E field \in DOMAIN Looks \ {"fontScale"} :
             \E value \in ToSet(Looks[field]) : ChangeLook(t, field, value)
        \/ \E up \in BOOLEAN : StepFontScale(t, up)
        \/ ResetLook(t)

-----------------------------------------------------------------------------
(* The pages of an addon's catalogue.                                      *)

NotBrowsing == [holds |-> << >>, pc |-> "away", skip |-> 0, metas |-> << >>, more |-> TRUE]
BrowseStart(catalogue) == [NotBrowsing EXCEPT !.holds = catalogue, !.pc = "loading"]
AddonPage == SubSeq(browse.holds, browse.skip + 1, Min({browse.skip + PageLength, Len(browse.holds)}))
CollectValid(entries) == SelectSeq(entries, LAMBDA e : e.readable)

(* Mutant: a short page is the last. *)
PageArrivesShort ==
  /\ browse.pc = "loading"
  /\ LET metas == CollectValid(AddonPage)
     IN browse' = [browse EXCEPT !.pc = "idle", !.metas = @ \o metas, !.skip = @ + Len(metas),
                                 !.more = Len(metas) = PageLength]

\* Entries that cannot be read are dropped; a page of none is the last.
PageArrives ==
  /\ browse.pc = "loading"
  /\ LET metas == CollectValid(AddonPage)
     IN browse' = [browse EXCEPT !.pc = "idle", !.metas = @ \o metas, !.skip = @ + Len(metas),
                                 !.more = metas # << >>]
\* Not reached, refused, too large, no JSON, or not in the shape of a page.
PageFailsToCome ==
  /\ browse.pc = "loading"
  /\ browse' = [browse EXCEPT !.pc = "error"]
LoadMore ==
  /\ browse.pc \in {"idle", "error"} /\ browse.more /\ browse.metas # << >>
  /\ browse' = [browse EXCEPT !.pc = "loading"]

BrowseChoice ==
  /\ PageArrives \/ PageFailsToCome \/ LoadMore
  /\ UNCHANGED <<store, views, popup, tookOut>>

-----------------------------------------------------------------------------
NothingKept == [addons |-> << >>, feeds |-> << >>, notes |-> {}, sources |-> << >>, look |-> << >>]
NoChoices ==
  /\ topic = "none" /\ mood = "well" /\ choices = 0
  /\ store = NothingKept /\ views = [t \in Tabs |-> NoView] /\ popup = Silence /\ tookOut = {} /\ browse = NotBrowsing
ChoicesInit ==
  /\ topic \in {"addons", "sources", "look", "browse"} /\ mood \in {"well", "full", "off"}
  /\ views = [t \in Tabs |-> NoView] /\ popup = Silence /\ tookOut = {} /\ choices = MaxChoices
  /\ CASE topic = "addons" ->
            \E some \in SUBSET Strangers :
              store = [NothingKept EXCEPT !.feeds = OldFeeds, !.notes = some,
                                         !.addons = SetToSeq({AddonEntry(a, "none") : a \in some})]
       [] topic = "look" -> \E f \in SUBSET DOMAIN Looks : store = [NothingKept EXCEPT !.look = [x \in f |-> Looks[x][1]]]
       [] OTHER -> store = NothingKept
  /\ IF topic = "browse" THEN \E c \in Catalogues : browse = BrowseStart(c) ELSE browse = NotBrowsing
ChoicesNext ==
  /\ UNCHANGED <<topic, mood>>
  /\ \/ /\ topic # "browse" /\ Choose /\ UNCHANGED browse
        /\ \E t \in Tabs : \/ topic = "addons" /\ AddonChoice(t)
                           \/ topic = "sources" /\ SourceChoice(t)
                           \/ topic = "look" /\ LookChoice(t)
     \/ topic = "browse" /\ BrowseChoice /\ UNCHANGED choices

-----------------------------------------------------------------------------
(* No catalogue of the older list is lost, however full the storage and    *)
(* whenever a tab dies, none the reader removed comes back, none is there  *)
(* twice, and what an addon stored goes with it.                           *)
NoneLostNoneBack ==
  topic = "addons" =>
    /\ \A f \in ToSet(OldFeeds) : f.id \in Ids(store.addons) \cup Ids(store.feeds) \cup tookOut
    /\ tookOut \cap (Ids(store.addons) \cup store.notes) = {}
    /\ IsInjective([i \in DOMAIN store.addons |-> store.addons[i].id])

(* The order is the reader's: what is there stays in order but for the one *)
(* that was moved, by one place, and what comes new comes last.            *)
IdsOf(list, some) ==
  LET these == SelectSeq(list, LAMBDA a : a.id \in some) IN [i \in DOMAIN these |-> these[i].id]
OrderIsTheirs ==
  topic = "addons" /\ popup # Silence =>
    LET stay == (Ids(popup.was) \ {popup.id}) \cap Ids(store.addons)
        before == Place(popup.was, popup.id)
        now == Place(store.addons, popup.id)
    IN /\ IdsOf(popup.was, stay) = IdsOf(store.addons, stay)
       /\ \A a \in stay, b \in Ids(store.addons) \ Ids(popup.was) : Place(store.addons, a) < Place(store.addons, b)
       /\ popup.of = "moved" /\ popup.outcome = "saved" => now = popup.aim /\ (now = before + 1 \/ before = now + 1)

(* What the popup says is what is stored, and what the page shows: saved   *)
(* is there, cleared is gone, unstored changed nothing, and what holds for *)
(* this page only is on it.                                                *)
PopupTellsTruth ==
  LET is(of, outcome) == popup.of = of /\ popup.outcome = outcome
  IN popup # Silence =>
       /\ is("added", "saved") \/ is("added", "failed") => popup.id \in Ids(store.addons)
       /\ is("removed", "cleared") => popup.id \notin Ids(store.addons)
       /\ is("switched", "saved") => \A a \in ToSet(store.addons) : a.id = popup.id => a.on = popup.aim
       /\ popup.of \in {"removed", "switched", "moved"} => views[popup.tab].addons = Listed(store)
       /\ is("named", "saved") => views[popup.tab].sources = store.sources
       /\ is("unnamed", "cleared") => popup.id \notin Ids(store.sources)
       /\ popup.outcome = "unstored" =>
            IF topic = "sources" THEN store.sources = popup.was ELSE IsPrefix(popup.was, store.addons)
       /\ popup.of = "look" => views[popup.tab].look[popup.id] = popup.aim
       /\ is("look", "session") => store.look = popup.was
       /\ is("look", "saved") => ReadLook(store) = views[popup.tab].look
       /\ popup.of = "reset" => views[popup.tab].look = PlainLook
       /\ is("reset", "cleared") => ReadLook(store) = PlainLook

(* Two sources are never taken for one another, and a panel opened since   *)
(* the last change shows those an address can be made of, and no other.    *)
SourcesApart ==
  topic = "sources" =>
    /\ IsInjective([i \in DOMAIN store.sources |-> store.sources[i].id])
    /\ IsInjective([i \in DOMAIN store.sources |-> store.sources[i].lower])
    /\ popup # Silence => \A s \in ToSet(popup.was) : s.id = popup.id \/ s \in ToSet(store.sources)
    /\ \A t \in Tabs : views[t].panel.open /\ views[t].panel.fresh =>
         ToSet(views[t].panel.links) =
           {s \in ToSet(SourcesKept) :
              s.on /\ \A token \in s.asks : token \in {"title", "query"} \cup views[t].panel.edition}

(* Once there is no more to load, no book of the catalogue is missing, and *)
(* none is there twice unless some could not be read.  (Fewer of those     *)
(* come together than make a page.)                                        *)
CatalogueIsShown ==
  topic = "browse" /\ browse.pc = "idle" /\ ~browse.more =>
    /\ ToSet(browse.metas) = ToSet(CollectValid(browse.holds))
    /\ CollectValid(browse.holds) = browse.holds => browse.metas = browse.holds

ChoicesHold == NoneLostNoneBack /\ OrderIsTheirs /\ PopupTellsTruth /\ SourcesApart /\ CatalogueIsShown
=============================================================================
