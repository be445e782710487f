----------------------------- MODULE MCOutside -----------------------------
(* TLC instance of what talks to the outside: the fetchers, the adapters    *)
(* above them, the addons of a browser, and the pages that fill with what   *)
(* the sources know.  They share no variable, so a behaviour is one scene's *)
(* and the others stand still.                                              *)
EXTENDS Sources, Breaker, AddonHost, Shelves

ThirdOfItsOwn == [c \in Callers |-> IF c = "c3" THEN "t" ELSE "s"]
OneFetcher == [c \in Callers |-> "worker"]

VARIABLE scene

\* Open Library's plan is the widest: an earlier sync is over, of which only
\* the entries of its parts are left, any of them.
OpenLibraryAgain ==
  /\ source = "open-library" /\ source \in AskedSources
  /\ syncs = [a \in Attempts |-> [pc |-> IF a < MaxSyncs THEN "done" ELSE "idle", outcome |-> "none", lost |-> {}]]
  /\ ops = [o \in Attempts \X Kinds |-> NotRun]
  /\ memory = [k \in Keys |-> Forgotten]
  /\ \E ia, formats \in {"none", "got"}, availability \in {"none", "got", "missed"} :
       owned = [p \in Kinds \X (1..MaxParts) |->
                 CASE p = <<"editions", 3>> -> ia
                   [] p = <<"editions", 4>> -> availability
                   [] p = <<"editions", 5>> -> formats
                   [] OTHER -> "none"]
  /\ expiries = 0

\* One addon through a visit, a preview beside it; two that start together;
\* one to be installed, removed or switched off, and what it stores.
OneAddon == changes = 0 /\ visits = 0 /\ stores = MaxStores /\ stored["b"] = "absent"
TwoAddons == changes = MaxChanges /\ visits = 0 /\ stores = MaxStores /\ \A a \in Addons : stored[a] = "on"
AddonStores ==
  /\ visits = 0 /\ stores = 0 /\ stored["b"] = "absent"
  /\ changes = IF stored["a"] = "on" THEN MaxChanges ELSE 0

(* Nobody finds the first curated book; the subject shares the second.     *)
Curated == <<"lost", "war", "hamnet">>
Literature == <<"war", "devils">>
OnePage ==
  \/ outages = MaxOutages /\ visited \in {{"home"}, {"genre"}}
  \/ outages = 0 /\ visited = {"home-ru"}

BreakerStill == BreakerInit
SourcesStill == SourcesInit /\ source = "authorized-free"
AddonsStill == AddonsInit /\ changes = 0 /\ visits = 0 /\ stores = 0 /\ \A a \in Addons : stored[a] = "absent"
ShelvesStill == ShelvesInit /\ outages = 0 /\ visited = {}

Init ==
  \/ scene = "breaker" /\ BreakerInit /\ SourcesStill /\ AddonsStill /\ ShelvesStill
  \/ /\ scene = "sources" /\ BreakerStill /\ AddonsStill /\ ShelvesStill
     /\ OpenLibraryAgain \/ (SourcesInit /\ source # "open-library")
  \/ /\ scene = "addons" /\ BreakerStill /\ SourcesStill /\ ShelvesStill
     /\ AddonsInit /\ (OneAddon \/ TwoAddons \/ AddonStores)
  \/ /\ scene = "shelves" /\ BreakerStill /\ SourcesStill /\ AddonsStill
     /\ ShelvesInit /\ OnePage
Next ==
  /\ UNCHANGED scene
  /\ \/ scene = "breaker" /\ BreakerNext /\ UNCHANGED <<sourceVars, hostVars, shelfVars>>
     \/ scene = "sources" /\ SourcesNext /\ UNCHANGED <<breakerVars, hostVars, shelfVars>>
     \/ scene = "addons" /\ AddonsNext /\ UNCHANGED <<sourceVars, breakerVars, shelfVars>>
     \/ scene = "shelves" /\ ShelvesNext /\ UNCHANGED <<sourceVars, breakerVars, hostVars>>
allVars == <<scene, sourceVars, breakerVars, hostVars, shelfVars>>
Fair == BreakerFairness /\ AddonsFairness /\ ShelvesFairness
Spec == Init /\ [][Next]_allVars /\ Fair

OutsideTypeOK == BreakerTypeOK /\ SourcesTypeOK /\ AddonsTypeOK /\ ShelvesTypeOK
=============================================================================
