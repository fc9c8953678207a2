SPECIFICATION DeviceSpec
CONSTANTS
  Threads = {t1, t2, t3}
  Devices = {d1, d2, d3}
  NULL = NULL
INVARIANTS
  OwnUnlessOverlapped
  GlobalLiveUnlessOverlapped
  AnswersExistWhileOnlyMade
\* A process that has written to freed memory stops.
CHECK_DEADLOCK FALSE
