\* A source among those that discover and those that enrich.
CONSTANTS
  Workers = {w1}
  Catalogue <- Crossed
  Discovering = {"open-library", "dnb"}
  Attaching = {}
  SameBook = {}
  AllowedLinks = {"borrow", "read"}
  MaxSyncs = 0
  Readers = {r1}
  MaxReads = 1
  JobIds <- QueueIds
  Payloads = {"search", "attach"}
  Consumers = {c1}
  MaxAttempts = 2
  Works = {"w1", "w2", "w3"}
  Orders <- Lying
  Registered <- Apart
  Enriching <- Both
  AnswersFor <- Answering
  BatchSize = 2
  Posts = {p1, p2}
  Keys = {"k"}
  Bodies <- Typed
  Normal <- Words
  MaxPosts = 0
  MaxFaults = 0
SPECIFICATION BackgroundSpec
INVARIANTS AskedAboutKnownWork
CHECK_DEADLOCK FALSE
