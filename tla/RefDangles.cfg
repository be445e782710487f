\* Two concurrent discoveries of one book leave an external_ref to no row.
CONSTANTS
  Workers = {w1, w2}
  Catalogue <- TwoSources
  Discovering = {"open-library", "wikidata"}
  Attaching = {}
  SameBook = {}
  AllowedLinks = {"borrow"}
  MaxSyncs = 2
SPECIFICATION CalmSpec
INVARIANTS RefsResolve
CHECK_DEADLOCK FALSE
