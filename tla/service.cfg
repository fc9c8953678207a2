SPECIFICATION TreeSpec
SYMMETRY ServiceSymmetry
CONSTANTS
  Services = {s1, s2, s3, s4}
  Spares = {s4}
  NULL = NULL
INVARIANTS
  TeardownPossible
  UnspoiltListsKept
PROPERTIES
  ImplementsForest
