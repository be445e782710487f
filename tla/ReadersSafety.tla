---------------------------- MODULE ReadersSafety ----------------------------
(***************************************************************************)
(* What one person has in a browser, all of it together: the scenes share  *)
(* no variable, so each keeps its invariant while the others go on.        *)
(***************************************************************************)
EXTENDS MCReading, ReadingSafety

ReadersInv == ReaderInv /\ AccountsTypeOK /\ ScreensInv /\ PanelsInv /\ OpdsInv /\ TourInv

(* A tour nobody takes is one that has not begun.                          *)
LEMMA StillWalks == TourStill => TourInv
  <1> SUFFICES ASSUME TourStill PROVE TourInv
    OBVIOUS
  <1>1. NoTour \in Tours /\ Unseen \in Progresses
    BY DEF NoTour, Tours, Progresses
  <1>2. TourTypes
    BY <1>1 DEF TourStill, TourTypes, Visits
  <1>3. /\ tour.active = FALSE /\ tour.up = {} /\ tour.coming = {} /\ pendingResume = 0
        /\ tourTold.of = {} /\ tourTold.saved = FALSE
    BY DEF TourStill, NoTour
  <1>4. {} \notin {{"finished"}, {"skipped"}}
    OBVIOUS
  <1> QED BY <1>2, <1>3, <1>4
          DEF TourStill, TourInv, WalkOn, StepHeld, ComesWhatIs, OverIsOver, TourHolds, PlaceRemembered, NeverLost,
              OnItsPage

(* What the catalogue and the tour need to begin with and to go on.        *)
LEMMA OwnScenesStart == ReadingInit => OpdsInv /\ TourInv
  <1> SUFFICES ASSUME ReadingInit PROVE OpdsInv /\ TourInv
    OBVIOUS
  <1>1. TourInv
    BY StillWalks, TourStarts DEF ReadingInit
  <1>2. held \in SUBSET Holdings /\ OpdsRest
    BY DEF ReadingInit, FeedInit, AddonInit, OpdsInit
  <1> QED BY <1>1, <1>2, OpdsStarts

LEMMA ScenesStep ==
  ASSUME [ReadingNext]_readingVars
  PROVE  /\ [Next]_vars /\ [AccountsNext]_accountVars /\ [ScreensNext]_screenVars
         /\ [LinksNext \/ QuotesNext]_panelVars /\ [AddonNext]_opdsVars /\ [TourNext]_tourVars
  BY DEF ReadingNext, readingVars

LEMMA ReadersStart == ReadingInit => ReadersInv
  BY OwnScenesStart, InitInv, TypeInit, ScreensInitInv, PanelsStart DEF ReadingInit, ReadersInv

LEMMA ReadersKeep ==
  ASSUME Patient, ReadersInv, [ReadingNext]_readingVars
  PROVE  ReadersInv'
  <1>1. ReaderInv'
    BY ScenesStep, NextKeeps, IdleKeeps DEF ReadersInv
  <1> QED BY <1>1, ScenesStep, TypeNext, ScreensNextKeeps, PanelsKeep, OpdsKeeps, TourKeeps DEF ReadersInv

LEMMA ReadersAreSafe ==
  ASSUME Patient
  PROVE  ReadingSpec => []ReadersInv
  <1>1. ReadersInv /\ [ReadingNext]_readingVars => ReadersInv'
    BY ReadersKeep
  <1> QED BY <1>1, ReadersStart, PTL DEF ReadingSpec

(* Books, account, page, panels and catalogue keep their types, for any    *)
(* number of each, whichever of them goes on.                              *)
THEOREM ReadersTypeCorrect ==
  ASSUME Patient
  PROVE  ReadingSpec => []ReadersTypeOK
  <1>1. ReadersInv => ReadersTypeOK
    BY ReaderInvTypes, ScreensInvTypes, PanelsInvTypes, OpdsInvTypes DEF ReadersInv, ReadersTypeOK
  <1> QED BY <1>1, ReadersAreSafe, PTL

(* Asked as an addon, the reader's own catalogue gives the book that is in *)
(* it, and the tour shows where it is: two of the judgements of the run.   *)
THEOREM AddonAndTourJudgedRight ==
  ReadingSpec => []((scene = "addon" => OwnBookIsFound) /\ (scene = "tour" => TourHolds))
  <1>1. OpdsInv /\ TourInv /\ [ReadingNext]_readingVars => OpdsInv' /\ TourInv'
    BY ScenesStep, OpdsKeeps, TourKeeps
  <1>2. OpdsInv /\ TourInv => OwnBookIsFound /\ TourHolds
    BY DEF OpdsInv, TourInv
  <1> QED BY <1>1, <1>2, OwnScenesStart, PTL DEF ReadingSpec
=============================================================================
