\* One worker, three sources of one book; the worker may die anywhere.
CONSTANTS
  Workers = {w1}
  Catalogue <- OneBook
  Discovering = {"open-library", "wikidata"}
  Attaching = {"dnb"}
  SameBook <- OneBookSame
  AllowedLinks = {"borrow", "read"}
  MaxSyncs = 5
SPECIFICATION CalmSpec
INVARIANTS TypeOK RefsResolve EditionsKeptApart
PROPERTIES PriorityRespected RerunIsCorrect
CHECK_DEADLOCK FALSE
