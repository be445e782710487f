\* One book: read on, keep the file, bookmark the page.  Nothing else happens.
CONSTANTS
  Books = {b1}
  Places = {p1, p2}
  Patient = TRUE
  ReadsFail = FALSE
  MaxClicks = 5
  MaxPending = 2
  MaxRefusals = 0
  MaxReloads = 0
  Browsers = {r1}
  Emails = {"e1", "e2"}
  Passwords = {"p1"}
  Profiles <- GoogleProfiles
  SavedWorks = {"w"}
  MaxCalls = 0
  MaxLost = 0
  MaxOld = 0
  Options = {"x"}
  Catalogs = {"c"}
  Genres = {"g"}
  MaxMoves = 0
  Printings <- FourPrintings
  PageOrder <- TheirOrder
  Claims <- TheirClaims
  Shops <- TheirShops
  MarketOf <- TheirMarkets
  Countries <- NoneAndGermany
  Pricers = {"amazon", "kobo"}
  Raters = {"google-books"}
  MaxLookups = 2
  InFlight = 1
  ShortLife = 1
  LongLife = 3
  MaxQuestions = 0
  MaxRows = 1
  MaxReaders = 1
  MaxPanels = 1
  Tokens <- TwoLetterNames
  LongName = 3
  SHARED_PREFIX_FOR_AGREEMENT = 4
  IsbnCores <- SomeCores
  OfferLists <- QuoteLists
  Pages <- SomePages
  Holdings = {"isbn1"}
  Asks = {a1}
  MaxAsks = 0
  MaxBroken = 0
  MaxChanges = 0
  HoldingsOf <- CatalogueHoldings
  Queries <- BookQueries
  LongWord = 2
  AUTHOR_WORD_WINDOW = 2
  HeldBy <- WhatSourcesHold
  RatedPages <- SomeRatedPages
  PricedPages <- SomePricedPages
  LanguageOfGroup <- IsbnGroups
  EDITIONS_PAGE_SIZE = 2
  MAX_EDITIONS = 3
  MAX_AVAILABILITY_EDITION_KEYS = 2
  MAX_AVAILABILITY_IA_IDS = 2
  MAX_EXTRA_AVAILABILITY_EDITIONS = 1
  MAX_DROPPED_WORDS = 2
  YearOf <- YearsOf
  Printed <- SomePrinted
  StocksAtFirst <- SomeStocks
  PAGE_SIZE = 2
  MaxPrinted = 0
  Tastes <- SomeTastes
  TagLists <- SomeTagLists
  NotGenres = {2}
  MostTags = 2
  TextHits <- SomeTextHits
  MAX_ENTRIES = 3
  MAX_SUBJECTS = 2
  RESULT_SIZE = 2
  FETCH_MULTIPLIER = 3
  MAX_GENRES = 2
  SearchLimit = 2
  Tabs = {1, 2}
  OldFeeds <- TheirOldFeeds
  Strangers = {"s"}
  NewFeeds <- TheirNewFeeds
  SourceForms <- TheirForms
  EditionsSeen <- TheirEditionsSeen
  Looks <- TheirLooks
  PlainLook <- TheirPlainLook
  Catalogues <- TheirCatalogues
  PageLength = 2
  MaxChoices = 0
  TOUR_STEPS <- TheirSteps
  Routes = {"/", "/custom-sources", "/addons", "/read"}
  MaxTourActs = 0
SPECIFICATION ReadingSpec
SYMMETRY Alike
INVARIANTS PlaceSurvivesKeeping
CHECK_DEADLOCK FALSE
