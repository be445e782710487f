CONSTANTS
  Queries = {"laur", "laur 2"}
  JobIds <- JobIdsMC
  Payloads = {"laur", "laur 2"}
  Consumers = {c1, c2}
  MaxAttempts = 2
  Works = {"b1"}
  Discovery <- DiscoveryMC
  Enrichment <- EnrichmentMC
  Knows <- KnowsMC
  Unreliable = {"gutenberg"}
  NameOf <- NameMC
  MaxFaults = 1
  Requests = {r1, r2}
  Stored <- StoredMC
  Confident <- ConfidentMC
  Weak <- WeakMC
  MaxPolls = 1
  MaxActs = 2
SPECIFICATION SearchSpec
SYMMETRY Alike
INVARIANTS SearchTypeOK PendingIsWorkedOn DayMeansUnknown FoundIsEnriched AnswersStick
CHECK_DEADLOCK FALSE
