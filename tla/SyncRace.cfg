\* Two workers, any interleaving of the statements of their transactions.
CONSTANTS
  Workers = {w1, w2}
  Catalogue <- ThreeSources
  Discovering = {"open-library", "dnb"}
  Attaching = {"gutenberg"}
  SameBook <- ThreeSourcesSame
  AllowedLinks = {"borrow", "epub"}
  MaxSyncs = 3
SPECIFICATION SafeSpec
INVARIANTS Inv KeysUnique OwnersExist
PROPERTIES IdsStable PublishesWhole
CHECK_DEADLOCK FALSE
