SPECIFICATION LockedSpec
CONSTANTS
  Capacities <- MCCapacities
  Word = 16
  MaxTotal = 40
  Threads = {t1, t2, t3}
CHECK_DEADLOCK FALSE
INVARIANTS
  CheckedSizeHonest
  ExclusiveUnlessRaced
  NeverLeaked
PROPERTIES
  GuardedCopiesInside
  SomeoneEnters
