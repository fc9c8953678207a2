SPECIFICATION DictSpec
CONSTANTS
  Buffers = {b1, b2, b3}
  Keys = {ka, kb, kc}
  Values <- MCValues
  NULL = NULL
  v1 = v1
  Absent = Absent
  Capacity = 2
  Callers = {"stable", "careless"}
INVARIANTS
  HalfCreatedReadable
  DistinctKeys
PROPERTIES
  ImplementsMap
  ReadYourWrite
CHECK_DEADLOCK FALSE
