\* Two syncs that may deadlock, fail or crash anywhere, and a request; or
\* three works, batches of two, two requests with one key, up to three faults.
CONSTANTS
  Workers = {w1, w2}
  Catalogue <- Crossed
  Discovering = {"open-library", "dnb"}
  Attaching = {}
  SameBook = {}
  AllowedLinks = {"borrow", "read"}
  MaxSyncs = 2
  Readers = {r1}
  MaxReads = 1
  JobIds <- QueueIds
  Payloads = {"search", "attach"}
  Consumers = {c1}
  MaxAttempts = 2
  Works = {"w1", "w2", "w3"}
  Orders <- Lying
  Registered <- Apart
  Enriching <- Enrichment
  AnswersFor <- Answering
  BatchSize = 2
  Posts = {p1, p2}
  Keys = {"k"}
  Bodies <- Typed
  Normal <- Words
  MaxPosts = 2
  MaxFaults = 3
SPECIFICATION BackgroundFairSpec
INVARIANTS SyncQueueTypeOK PagesShowCommitted ReplayNamesQueuedJob
PROPERTIES StalePagesGo SyncsEnd StaleIsRefreshed
CHECK_DEADLOCK FALSE
