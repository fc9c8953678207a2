SPECIFICATION Spec
SYMMETRY AddressSymmetry
CONSTANTS
  Addresses = {a1, a2, a3, a4}
  NULL = NULL
  Slots = 2
  Values = {v1, v2}
  Allocs = 2
  MaxStored = 3
INVARIANTS
  BlocksOwned
  ContentsApart
  PipelineHoldsAsked
  EntryHoldsFirst
CHECK_DEADLOCK FALSE
