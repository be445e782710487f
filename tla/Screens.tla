------------------------------- MODULE Screens -------------------------------
(***************************************************************************)
(* The parts of a page that load what the reader has selected: the panels  *)
(* of an edition (EditionLinks, EditionPrices), the catalogue shelf        *)
(* (OpdsShelf), the home page's lists (FeaturedBooks, Recommendations),    *)
(* the ratings, and what addons found (AddonSearchResults, AddonSources).  *)
(* A behaviour is one of them in one tab.  Each keeps its own way of not   *)
(* showing an answer that comes too late: a request number in a ref, or a  *)
(* flag its effect's cleanup sets, which is a request number as well.      *)
(***************************************************************************)
EXTENDS Naturals, FiniteSets

CONSTANTS
  Options,       \* countries, languages, queries, scopes or ids to choose from
  Catalogs,      \* the reader's own OPDS catalogs
  Genres,        \* genres of the books in the reading history
  MaxMoves       \* bound: the reader's acts
ASSUME OptionsAssumption == Options # {} /\ MaxMoves \in Nat

Nothing == {}                                    \* no selection
Panels == {"links", "prices"}
Addonful == {"found", "ways"}                    \* need the addons to be loaded
ByProp == {"featured", "ratings"} \cup Addonful  \* reload when a property changes
AllScreens == Panels \cup ByProp \cup {"opds", "recommend"}

VARIABLES
  screen,        \* which part of the page this is
  want,          \* what is selected, as a set: the stored country, a catalog
                 \* and a page of it, the property, or the profile's genres
  shown,         \* [open, kind, of]: what the part holds, and of which selection
  serial,        \* requestIdRef.current, or how often the effect ran
  flights,       \* requests under way: [serial, of]
  listed,        \* the reader's catalogs, or the hidden genres
  ready,         \* useAddons has loaded
  moves
screenVars == <<screen, want, shown, serial, flights, listed, ready, moves>>

Empty == [open |-> FALSE, kind |-> "none", of |-> Nothing]
Loading(v) == [v EXCEPT !.kind = "loading", !.of = Nothing]
Move == moves > 0 /\ moves' = moves - 1

(* A request is sent; those before it have lost their number.              *)
Load(w, v) ==
  /\ serial' = serial + 1
  /\ flights' = flights \cup {[serial |-> serial + 1, of |-> w]}
  /\ shown' = v
(* No request; those before it have lost their number. *)
Cancel(v) == serial' = serial + 1 /\ shown' = v /\ UNCHANGED flights
Keep(v) == shown' = v /\ UNCHANGED <<serial, flights>>

-----------------------------------------------------------------------------
(* The panels of an edition, under the shopping country.                   *)

(* Mutant: reopening loads only what was never asked for. *)
ToggleLinksOnce ==
  /\ screen = "links" /\ Move
  /\ \/ shown.open /\ Cancel([shown EXCEPT !.open = FALSE])
     \/ ~shown.open /\ shown.kind # "none" /\ Keep([shown EXCEPT !.open = TRUE])
     \/ ~shown.open /\ shown.kind = "none" /\ Load(want, Loading([shown EXCEPT !.open = TRUE]))
  /\ UNCHANGED <<screen, want, listed, ready>>

(* Closing keeps the links that are there and drops the answer that is     *)
(* not; opening shows what is there or asks.                               *)
ToggleLinks ==
  /\ screen = "links" /\ Move
  /\ \/ shown.open /\ Cancel([shown EXCEPT !.open = FALSE])
     \/ ~shown.open /\ shown.kind = "loaded" /\ Keep([shown EXCEPT !.open = TRUE])
     \/ ~shown.open /\ shown.kind # "loaded" /\ Load(want, Loading([shown EXCEPT !.open = TRUE]))
  /\ UNCHANGED <<screen, want, listed, ready>>

TogglePrices ==
  /\ screen = "prices" /\ Move
  /\ \/ shown.kind \in {"none", "error"} /\ Load(want, Loading(shown))
     \/ shown.kind \in {"loading", "loaded"} /\ Cancel(Empty)
  /\ UNCHANGED <<screen, want, listed, ready>>

(* The event is sent whether or not the browser stored the country, and    *)
(* the panels read the storage.                                            *)
ChangeCountry(c) ==
  /\ screen \in Panels /\ Move
  /\ want' \in {{c}, want}
  /\ CASE screen = "links" /\ shown.open -> Load(want', Loading(shown))
       [] screen = "links" /\ ~shown.open -> Keep([shown EXCEPT !.kind = "none", !.of = Nothing])
       [] screen = "prices" /\ shown.kind # "none" -> Load(want', Loading(shown))
       [] OTHER -> Keep(shown)
  /\ UNCHANGED <<screen, listed, ready>>

-----------------------------------------------------------------------------
(* The shelf of OPDS catalogs. *)

(* A catalog of the reader's or of the instance, or a page of it that the  *)
(* page on screen leads to.                                                *)
OpenFeed(c, page) ==
  /\ screen = "opds" /\ c \in listed /\ Move
  /\ page # "start" => c \in want /\ shown.kind = "loaded"
  /\ want' = {c, page}
  /\ Load(want', Loading(shown))
  /\ UNCHANGED <<screen, listed, ready>>

(* Removing the open catalog leaves the request number as it is: a late    *)
(* answer is stored, under no catalog.  The browser may refuse either write.*)
RemoveFeed(c) ==
  /\ screen = "opds" /\ c \in listed /\ Move
  /\ listed' \in {listed, listed \ {c}}
  /\ IF c \in want THEN want' = Nothing /\ Keep(Empty)
     ELSE UNCHANGED <<want, shown, serial, flights>>
  /\ UNCHANGED <<screen, ready>>

AddFeed(c) ==
  /\ screen = "opds" /\ c \notin listed /\ Move
  /\ listed' = listed \cup {c}
  /\ UNCHANGED <<screen, want, shown, serial, flights, ready>>

-----------------------------------------------------------------------------
(* Effects that run again when a property changes. *)

Held == IF screen = "ratings" THEN Loading(shown)
        ELSE IF screen = "found" THEN Empty
        ELSE shown
RunEffect(w) == IF screen \in Addonful /\ ~ready THEN Cancel(Held) ELSE Load(w, Held)

Select(w) ==
  /\ screen \in ByProp /\ w # want /\ Move
  /\ want' = w /\ RunEffect(w)
  /\ UNCHANGED <<screen, listed, ready>>

AddonsLoad ==
  /\ screen \in Addonful /\ ~ready
  /\ ready' = TRUE /\ Load(want, Held)
  /\ UNCHANGED <<screen, want, listed, moves>>

-----------------------------------------------------------------------------
(* Recommendations. *)

(* buildTasteProfile: a hidden genre never reaches the server.  Which of   *)
(* the others weigh most does not matter here.                             *)
Profile(hidden) == Genres \ hidden

Rerun(sent) ==
  /\ want' = sent
  /\ IF sent = Nothing THEN Cancel(shown) ELSE Load(sent, shown)

(* The section and its buttons are there while there is something in it.   *)
OnPage == want # Nothing /\ shown.kind = "loaded"

(* Hiding or restoring writes the list, which the browser may refuse.      *)
HideGenre(g) ==
  /\ screen = "recommend" /\ OnPage /\ g \in want /\ Move
  /\ listed' \in {listed, listed \cup {g}}
  /\ Rerun(Profile(listed'))
  /\ UNCHANGED <<screen, ready>>
RestoreGenre(g) ==
  /\ screen = "recommend" /\ OnPage /\ g \in listed /\ Move
  /\ listed' \in {listed, listed \ {g}}
  /\ Rerun(Profile(listed'))
  /\ UNCHANGED <<screen, ready>>

(* Forgetting the history does not touch the request under way.            *)
ForgetHistory ==
  /\ screen = "recommend" /\ OnPage /\ Move
  /\ want' = Nothing /\ Keep(Empty)
  /\ UNCHANGED <<screen, listed, ready>>

-----------------------------------------------------------------------------
(* Answers, in any order. *)

(* What a failure leaves: an error, nothing, or, in FeaturedBooks, a flag  *)
(* that hides the section from then on.  settleAddons does not fail.       *)
Failed == CASE screen = "featured" -> [Empty EXCEPT !.kind = "hidden"]
            [] screen = "recommend" -> Empty
            [] OTHER -> [shown EXCEPT !.kind = "error", !.of = Nothing]
Loaded(f) == IF shown.kind = "hidden" THEN shown ELSE [shown EXCEPT !.kind = "loaded", !.of = f.of]

(* Mutant: whatever comes is shown. *)
LandAny(f, ok) ==
  /\ flights' = flights \ {f}
  /\ ok \/ screen \notin Addonful
  /\ shown' = IF ok THEN Loaded(f) ELSE Failed
  /\ UNCHANGED <<screen, want, serial, listed, ready, moves>>

Land(f, ok) ==
  /\ flights' = flights \ {f}
  /\ ok \/ screen \notin Addonful
  /\ shown' = IF f.serial # serial THEN shown ELSE IF ok THEN Loaded(f) ELSE Failed
  /\ UNCHANGED <<screen, want, serial, listed, ready, moves>>

-----------------------------------------------------------------------------
(* A panel starts closed; the others ask as soon as they are on the page.  *)
ScreensInit ==
  /\ screen \in AllScreens
  /\ listed = IF screen = "opds" THEN Catalogs ELSE {}
  /\ CASE screen = "opds" -> want = Nothing
       [] screen = "recommend" -> want = Profile(listed)
       [] OTHER -> \E w \in Options : want = {w}
  /\ ready = (screen \notin Addonful)
  /\ IF screen \in {"featured", "ratings", "recommend"}
     THEN serial = 1 /\ flights = {[serial |-> 1, of |-> want]}
     ELSE serial = 0 /\ flights = {}
  /\ shown = IF screen = "ratings" THEN Loading(Empty) ELSE Empty
  /\ moves = MaxMoves

ScreensNext ==
  \/ ToggleLinks
  \/ TogglePrices
  \/ \E c \in Options : ChangeCountry(c)
  \/ \E c \in Catalogs, page \in {"start", "next"} : OpenFeed(c, page)
  \/ \E c \in Catalogs : RemoveFeed(c)
  \/ \E c \in Catalogs : AddFeed(c)
  \/ \E w \in Options : Select({w})
  \/ AddonsLoad
  \/ \E g \in Genres : HideGenre(g)
  \/ \E g \in Genres : RestoreGenre(g)
  \/ ForgetHistory
  \/ \E f \in flights, ok \in BOOLEAN : Land(f, ok)

ScreensSpec == ScreensInit /\ [][ScreensNext]_screenVars

ScreensTypeOK ==
  /\ screen \in AllScreens
  /\ shown.open \in BOOLEAN
  /\ shown.kind \in {"none", "loading", "loaded", "error", "hidden"}
  /\ \A f \in flights : f.serial \in 1..serial
  /\ ready \in BOOLEAN /\ moves \in 0..MaxMoves

(* What a part of the page shows belongs to what is selected now, under    *)
(* any order of answers, failures, closings, refused writes and removals:  *)
(* the lists that keep an older answer on screen do so only while the      *)
(* right one is on its way.  And a part that says it is loading is:        *)
(* nothing waits for an answer that was dropped.                           *)
Underway == \E f \in flights : f.serial = serial /\ f.of = want
KeepsOlder == screen \in {"featured", "recommend", "ways"}
Visible ==
  /\ screen = "links" => shown.open
  /\ screen \in {"opds", "recommend"} => want # Nothing
PanelsTellTrue ==
  /\ Visible /\ shown.kind = "loaded" /\ shown.of # want => KeepsOlder /\ Underway
  /\ Visible /\ shown.kind = "loading" => Underway
=============================================================================
