\* The instance of Reading, of which this asks one thing: a page's folders.
CONSTANTS
  Books = {b1, b2}
  Places = {p1, p2}
  Patient = TRUE
  ReadsFail = FALSE
  MaxClicks = 9
  MaxPending = 3
  MaxRefusals = 1
  MaxReloads = 1
  Browsers = {r1, r2}
  Emails = {"e1", "e2"}
  Passwords = {"p1"}
  Profiles <- GoogleProfiles
  SavedWorks = {"w"}
  MaxCalls = 2
  MaxLost = 1
  MaxOld = 1
  Options = {"x", "y"}
  Catalogs = {"c", "d"}
  Genres = {"g", "h"}
  MaxMoves = 5
  Printings <- FourPrintings
  PageOrder <- TheirOrder
  Claims <- TheirClaims
  Shops <- TheirShops
  MarketOf <- TheirMarkets
  Countries <- NoneAndGermany
  Pricers = {"amazon", "kobo"}
  Raters = {"google-books"}
  MaxLookups = 2
  InFlight = 1
  ShortLife = 1
  LongLife = 3
  MaxQuestions = 2
  MaxRows = 1
  MaxReaders = 1
  MaxPanels = 1
  Tokens <- TwoLetterNames
  LongName = 3
  SHARED_PREFIX_FOR_AGREEMENT = 4
  IsbnCores <- SomeCores
  OfferLists <- QuoteLists
  Pages <- SomePages
  Holdings = {"isbn1", "isbn2"}
  Asks = {a1, a2}
  MaxAsks = 3
  MaxBroken = 1
  MaxChanges = 2
  HoldingsOf <- CatalogueHoldings
  Queries <- BookQueries
  LongWord = 2
  AUTHOR_WORD_WINDOW = 2
  HeldBy <- WhatSourcesHold
  RatedPages <- SomeRatedPages
  PricedPages <- SomePricedPages
  LanguageOfGroup <- IsbnGroups
  EDITIONS_PAGE_SIZE = 2
  MAX_EDITIONS = 3
  MAX_AVAILABILITY_EDITION_KEYS = 2
  MAX_AVAILABILITY_IA_IDS = 2
  MAX_EXTRA_AVAILABILITY_EDITIONS = 1
  MAX_DROPPED_WORDS = 2
  YearOf <- YearsOf
  Printed <- SomePrinted
  StocksAtFirst <- SomeStocks
  PAGE_SIZE = 2
  MaxPrinted = 0
  Tastes <- SomeTastes
  TagLists <- SomeTagLists
  NotGenres = {2}
  MostTags = 2
  TextHits <- SomeTextHits
  MAX_ENTRIES = 3
  MAX_SUBJECTS = 2
  RESULT_SIZE = 2
  FETCH_MULTIPLIER = 3
  MAX_GENRES = 2
  SearchLimit = 2
  Tabs = {1, 2}
  OldFeeds <- TheirOldFeeds
  Strangers = {"s"}
  NewFeeds <- TheirNewFeeds
  SourceForms <- TheirForms
  EditionsSeen <- TheirEditionsSeen
  Looks <- TheirLooks
  PlainLook <- TheirPlainLook
  Catalogues <- TheirCatalogues
  PageLength = 2
  MaxChoices = 4
  TOUR_STEPS <- TheirSteps
  Routes = {"/", "/custom-sources", "/addons", "/read"}
  MaxTourActs = 11
SPECIFICATION ReadingSpec
INVARIANTS FoldersShown
CHECK_DEADLOCK FALSE
