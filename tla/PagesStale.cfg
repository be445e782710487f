\* A page cached between the invalidation and the commit.
CONSTANTS
  Workers = {w1}
  Catalogue <- Crossed
  Discovering = {"open-library", "dnb"}
  Attaching = {}
  SameBook = {}
  AllowedLinks = {"borrow", "read"}
  MaxSyncs = 2
  Readers = {r1}
  MaxReads = 2
  JobIds <- QueueIds
  Payloads = {"search", "attach"}
  Consumers = {c1}
  MaxAttempts = 2
  Works = {"w1", "w2", "w3"}
  Orders <- Lying
  Registered <- Apart
  Enriching <- Enrichment
  AnswersFor <- Answering
  BatchSize = 2
  Posts = {p1, p2}
  Keys = {"k"}
  Bodies <- Typed
  Normal <- Words
  MaxPosts = 0
  MaxFaults = 0
SPECIFICATION BackgroundSpec
INVARIANTS PagesFresh
CHECK_DEADLOCK FALSE
