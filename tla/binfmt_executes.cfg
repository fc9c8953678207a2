SPECIFICATION Spec
CONSTANTS
  Execs = {e1, e2}
  MaxDepth = 3
INVARIANTS
  MachOExecutes
