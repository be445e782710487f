\* Every adapter, two syncs of one book, one cache entry that expires; and three
\* callers of two services, each service with a fetcher of its own;
\* and two addons, a preview, a page that uses them and one change of the list.
CONSTANTS
  AskedSources = {"open-library", "google-books", "gutenberg", "librivox", "authorized-free", "wikidata",
    "sru", "bn-poland", "ndl", "gallica", "subjects", "wikipedia", "price", "rating", "reviews", "cover"}
  MaxSyncs = 2
  MaxExpiries = 1
  Callers = {"c1", "c2", "c3"}
  ServiceOf <- ThirdOfItsOwn
  FetcherOf <- ThirdOfItsOwn
  Threshold = 2
  Tries = 2
  Faulty = {"s"}
  Addons = {"a", "b"}
  Questions = {"q1", "q2"}
  MaxVisits = 1
  MaxStores = 1
  MaxChanges = 1
  FEATURED_BOOKS <- Curated
  Subject <- Literature
  Findable = {"war", "hamnet", "devils"}
  PageKinds = {"home", "home-ru", "genre"}
  MAX_BACKFILL_PER_REQUEST = 2
  ThinThreshold = 2
  JobTries = 2
  MaxOutages = 1
SPECIFICATION Spec
INVARIANTS OutsideTypeOK HealthyIsAsked OnlyWholeIsKept NothingLeftBehind AnswersFit
PROPERTIES EveryFetchIsAnswered TrafficReturns AddonsRespond ShelfFills
CHECK_DEADLOCK FALSE
