-------------------------------- MODULE Tour --------------------------------
(***************************************************************************)
(* The walk through the site a browser is offered once (OnboardingTour,    *)
(* onboarding-tour, TourRestartLink): which step is on, whether its popup  *)
(* is shown, waits for its element or for its page, and what a reload will *)
(* find.  The popups are Shepherd's, as OnboardingTour.tsx uses it: a step *)
(* that is shown hides the one before, tells the `show` handler at once,   *)
(* and appears when its promise settles, hidden meanwhile or not.          *)
(***************************************************************************)
EXTENDS Naturals, Sequences, FiniteSets

CONSTANTS
  TOUR_STEPS,   \* [target, path]; target FALSE: centred, path Anywhere: no page of its own
  Routes,       \* pages; ReadingView is one
  MaxTourActs   \* bound: what the reader does

Anywhere == "anywhere"
ReadingView == "/read"
ASSUME TourAssumption ==
  /\ TOUR_STEPS \in Seq([target : BOOLEAN, path : Routes \cup {Anywhere}]) /\ TOUR_STEPS # << >>
  /\ ~TOUR_STEPS[1].target
  /\ \A i \in DOMAIN TOUR_STEPS : ~TOUR_STEPS[i].target => TOUR_STEPS[i].path = Anywhere

VARIABLES
  tourKept,   \* what is stored: [status, step], step 0 for none
  refuses,    \* storage is switched off
  visit,      \* the page: [pc, route, rendered, start]
  tour,       \* Shepherd's: [active, current, up, coming, late]
  waitingForRoute, pendingResume,   \* the component's refs; 0 for no step
  tourTold,   \* the popups of the last act: what they say, and whether it was stored
  overtaken,  \* observes a walk that moved on while a step was still to come
  tourActs
tourVars == <<tourKept, refuses, visit, tour, waitingForRoute, pendingResume, tourTold, overtaken, tourActs>>
stepVars == <<tourKept, tour, waitingForRoute>>

Unseen == [status |-> "unseen", step |-> 0]
Finished == [status |-> "finished", step |-> 0]
NoTour == [active |-> FALSE, current |-> 0, up |-> {}, coming |-> {}, late |-> {}]
WriteProgress(progress, kept) == IF refuses THEN kept ELSE progress
Elsewhere(s, route) == TOUR_STEPS[s].path \notin {Anywhere, route}
\* The navigation is on every page.
Rendered(s, v) ==
  \/ ~TOUR_STEPS[s].target \/ TOUR_STEPS[s].path = Anywhere
  \/ TOUR_STEPS[s].path = v.route /\ v.rendered
TourAct == tourActs > 0 /\ tourActs' = tourActs - 1

-----------------------------------------------------------------------------
(* Shepherd.                                                               *)

Hidden(w) == [w EXCEPT !.up = @ \ {w.current}, !.late = @ \ {w.current}]
Raised(w, s, v) ==
  IF Rendered(s, v) THEN [w EXCEPT !.up = @ \cup {s}, !.late = @ \ {s}]
  ELSE [w EXCEPT !.coming = @ \cup {s}]
Showing(w, s, v) == Raised([Hidden(w) EXCEPT !.active = TRUE, !.current = s], s, v)
Starting(w, v) == Showing([w EXCEPT !.current = 0], 1, v)

(* Mutant: whatever is shown is where the reader is. *)
RememberAlways(s, pending, kept) == WriteProgress([status |-> "running", step |-> s], kept)

\* The `show` handler's write: not while a step is held for its page.
Remember(s, pending, kept) ==
  IF pending = 0 THEN WriteProgress([status |-> "running", step |-> s], kept) ELSE kept
ShowStep(s) ==
  /\ tour' = Showing(tour, s, visit)
  /\ waitingForRoute' = FALSE
  /\ tourKept' = Remember(s, pendingResume, tourKept)
  /\ overtaken' = (overtaken \/ tour.coming # {})
EndTour(completed) ==
  /\ tour' = [NoTour EXCEPT !.coming = tour.coming]
  /\ tourKept' = WriteProgress(Finished, tourKept)
  /\ tourTold' = [of |-> {IF completed THEN "finished" ELSE "skipped"}, saved |-> ~refuses]
  /\ overtaken' = (overtaken \/ tour.coming # {})
  /\ UNCHANGED waitingForRoute

-----------------------------------------------------------------------------
(* The component.                                                          *)

(* A page is loaded: whether to start is decided, and Shepherd fetched.    *)
LoadPage(route) ==
  /\ visit' = [pc |-> "importing", route |-> route, rendered |-> FALSE,
               start |-> (refuses \/ tourKept.status # "finished") /\ route # ReadingView]
  /\ tour' = NoTour /\ waitingForRoute' = FALSE /\ pendingResume' = 0
  /\ overtaken' = FALSE
  /\ UNCHANGED <<tourKept, refuses, tourTold>>

(* The walk is built, and goes on where it was left if that page is open.  *)
BuildTour ==
  /\ visit.pc = "importing"
  /\ visit' = [visit EXCEPT !.pc = "ready"]
  /\ LET resumed == IF refuses THEN 0 ELSE tourKept.step
         held == resumed # 0 /\ Elsewhere(resumed, visit.route)
     IN IF ~visit.start THEN UNCHANGED <<stepVars, pendingResume>>
        ELSE /\ waitingForRoute' = FALSE
             /\ pendingResume' = IF held THEN resumed ELSE 0
             /\ LET first == Starting(tour, visit)
                    kept == Remember(1, pendingResume', tourKept)
                IN IF resumed # 0 /\ ~held
                   THEN tour' = Showing(first, resumed, visit) /\ tourKept' = Remember(resumed, 0, kept)
                   ELSE tour' = (IF held THEN Hidden(first) ELSE first) /\ tourKept' = kept
  /\ UNCHANGED <<refuses, tourTold, overtaken, tourActs>>

(* Mutant: a step is left where it is when its page goes. *)
GoLeaving(route) ==
  /\ visit' = [visit EXCEPT !.route = route, !.rendered = FALSE]
  /\ IF tour.active /\ pendingResume # 0 /\ ~Elsewhere(pendingResume, route)
     THEN /\ tour' = Showing(tour, pendingResume, visit') /\ pendingResume' = 0
          /\ waitingForRoute' = FALSE /\ tourKept' = Remember(pendingResume, 0, tourKept)
     ELSE UNCHANGED <<stepVars, pendingResume>>
  /\ UNCHANGED <<refuses, tourTold, overtaken>>

(* Another page, without a reload: the effect on `pathname`.               *)
GoTo(route) ==
  /\ visit.pc # "away" /\ route # visit.route
  /\ visit' = [visit EXCEPT !.route = route, !.rendered = FALSE]
  /\ IF ~tour.active THEN UNCHANGED <<stepVars, pendingResume>>
     ELSE IF pendingResume # 0
     THEN IF Elsewhere(pendingResume, route) THEN UNCHANGED <<stepVars, pendingResume>>
          ELSE /\ pendingResume' = 0
               /\ tour' = Showing(tour, pendingResume, visit')
               /\ waitingForRoute' = FALSE
               /\ tourKept' = Remember(pendingResume, 0, tourKept)
     ELSE /\ UNCHANGED <<pendingResume, tourKept>>
          /\ IF Elsewhere(tour.current, route) THEN waitingForRoute' = TRUE /\ tour' = Hidden(tour)
             ELSE /\ waitingForRoute' = FALSE
                  /\ tour' = IF waitingForRoute THEN Raised(tour, tour.current, visit') ELSE tour
  /\ UNCHANGED <<refuses, tourTold, overtaken>>

(* waitForElement: the element is there, or ten seconds have passed.       *)
PageRenders ==
  /\ visit.pc # "away" /\ ~visit.rendered
  /\ visit' = [visit EXCEPT !.rendered = TRUE]
  /\ LET there == {s \in tour.coming : Rendered(s, visit')}
     IN tour' = [tour EXCEPT !.coming = @ \ there, !.up = @ \cup there, !.late = @ \ there]
  /\ UNCHANGED <<tourKept, refuses, waitingForRoute, pendingResume, tourTold, overtaken, tourActs>>
TenSecondsPass(s) ==
  /\ s \in tour.coming
  /\ tour' = [tour EXCEPT !.coming = @ \ {s}, !.up = @ \cup {s}, !.late = @ \cup {s}]
  /\ UNCHANGED <<tourKept, refuses, visit, waitingForRoute, pendingResume, tourTold, overtaken, tourActs>>

(* The buttons of a popup; a step of the navigation goes on by its link.   *)
NextStep(s) ==
  /\ s \in tour.up /\ tour.active
  /\ IF tour.current = Len(TOUR_STEPS) THEN EndTour(TRUE) ELSE ShowStep(tour.current + 1) /\ UNCHANGED tourTold
  /\ UNCHANGED <<refuses, visit, pendingResume>>
PreviousStep(s) ==
  /\ s \in tour.up /\ s # 1 /\ tour.active /\ tour.current > 1
  /\ ShowStep(tour.current - 1)
  /\ UNCHANGED <<refuses, visit, pendingResume, tourTold>>
CloseTour(s) ==
  /\ s \in tour.up /\ tour.active
  /\ EndTour(FALSE)
  /\ UNCHANGED <<refuses, visit, pendingResume>>

(* Mutant: a walk asked for again keeps the step it was to resume. *)
RestartOwing ==
  /\ visit.pc = "ready"
  /\ tour' = Starting([NoTour EXCEPT !.coming = tour.coming], visit)
  /\ tourKept' = Remember(1, pendingResume, WriteProgress(Unseen, tourKept)) /\ waitingForRoute' = FALSE
  /\ tourTold' = [of |-> {"restarted"}, saved |-> ~refuses] /\ overtaken' = (overtaken \/ tour.coming # {})
  /\ UNCHANGED <<refuses, visit, pendingResume>>

(* A walk under way is cancelled, which writes that it is over, and one    *)
(* begins; before there is one to begin, nothing does.                     *)
OnStartRequest(kept) ==
  IF visit.pc = "importing"
  THEN /\ tourKept' = kept
       /\ UNCHANGED <<tour, waitingForRoute, pendingResume, overtaken>>
  ELSE /\ overtaken' = (overtaken \/ tour.coming # {})
       /\ tour' = Starting([NoTour EXCEPT !.coming = tour.coming], visit)
       /\ pendingResume' = 0 /\ waitingForRoute' = FALSE
       /\ tourKept' = Remember(1, 0, IF tour.active THEN WriteProgress(Finished, kept) ELSE kept)

(* The link in the footer: the progress is forgotten and a walk asked for. *)
Restart ==
  /\ visit.pc # "away"
  /\ OnStartRequest(WriteProgress(Unseen, tourKept))
  /\ tourTold' = [of |-> {"restarted"} \cup (IF tour.active THEN {"skipped"} ELSE {}), saved |-> ~refuses]
  /\ UNCHANGED <<refuses, visit>>

TourStill ==
  /\ tourKept = Unseen /\ refuses = FALSE /\ tour = NoTour /\ waitingForRoute = FALSE /\ pendingResume = 0
  /\ visit = [pc |-> "away", route |-> Anywhere, rendered |-> FALSE, start |-> FALSE]
  /\ tourTold = [of |-> {}, saved |-> FALSE] /\ overtaken = FALSE /\ tourActs = 0
TourInit ==
  /\ tourKept = Unseen /\ refuses \in BOOLEAN /\ tour = NoTour /\ waitingForRoute = FALSE /\ pendingResume = 0
  /\ visit = [pc |-> "away", route |-> Anywhere, rendered |-> FALSE, start |-> FALSE]
  /\ tourTold = [of |-> {}, saved |-> FALSE] /\ overtaken = FALSE /\ tourActs = MaxTourActs
TourNext ==
  \/ /\ TourAct
     /\ \/ \E route \in Routes : LoadPage(route) \/ GoTo(route)
        \/ \E s \in DOMAIN TOUR_STEPS : NextStep(s) \/ PreviousStep(s) \/ CloseTour(s)
        \/ Restart
  \/ BuildTour
  \/ PageRenders
  \/ \E s \in DOMAIN TOUR_STEPS : TenSecondsPass(s)
TourSpec == TourInit /\ [][TourNext]_tourVars

-----------------------------------------------------------------------------
(* What a reload finds is the step the reader is at, the one held for its  *)
(* page included; a walk said to be over is.                               *)
PlaceRemembered ==
  /\ tour.active /\ ~refuses =>
       tourKept = [status |-> "running", step |-> IF pendingResume # 0 THEN pendingResume ELSE tour.current]
  /\ tourTold.of \in {{"finished"}, {"skipped"}} /\ tourTold.saved => ~tour.active /\ tourKept = Finished

(* A walk that is on is to be seen, or will be: once its element is there, *)
(* or its page is opened.                                                  *)
NeverLost ==
  tour.active =>
    \/ tour.up # {} \/ tour.coming # {}
    \/ pendingResume # 0 /\ Elsewhere(pendingResume, visit.route)
    \/ waitingForRoute /\ Elsewhere(tour.current, visit.route)

(* One step is shown, on the page it is about, unless it waited ten        *)
(* seconds for that; and it is the step the walk is at.                    *)
OnItsPage ==
  ~overtaken =>
    /\ tour.up \subseteq (IF tour.active /\ pendingResume = 0 THEN {tour.current} ELSE {})
    /\ \A s \in tour.up \ tour.late : ~Elsewhere(s, visit.route)

TourHolds == PlaceRemembered /\ NeverLost /\ OnItsPage
=============================================================================
