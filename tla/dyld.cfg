SPECIFICATION Spec
SYMMETRY ImageSymmetry
CONSTANTS
  Images = {m1, m2, m3, m4}
  Paths = {libA, libB}
  NULL = NULL
  MaxImages = 3
  Clients = {"disciplined", "free"}
INVARIANTS
  RefsBalanced
  RegisteredLive
  SentinelKept
  WalkSeesPeak
  TableAsAdded
