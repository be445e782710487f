\* One fetcher for all services, as in the worker.
CONSTANTS
  AskedSources = {"authorized-free"}
  MaxSyncs = 1
  MaxExpiries = 1
  Callers = {"c1", "c2", "c3"}
  ServiceOf <- ThirdOfItsOwn
  FetcherOf <- OneFetcher
  Threshold = 2
  Tries = 2
  Faulty = {"s"}
  Addons = {"a", "b"}
  Questions = {"q1", "q2"}
  MaxVisits = 1
  MaxStores = 1
  MaxChanges = 1
  FEATURED_BOOKS <- Curated
  Subject <- Literature
  Findable = {"war", "hamnet", "devils"}
  PageKinds = {"home", "home-ru", "genre"}
  MAX_BACKFILL_PER_REQUEST = 2
  ThinThreshold = 2
  JobTries = 2
  MaxOutages = 0
SPECIFICATION Spec
INVARIANTS HealthyIsAsked
CHECK_DEADLOCK FALSE
