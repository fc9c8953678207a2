SPECIFICATION Spec
SYMMETRY InfoSymmetry
CONSTANTS
  Infos = {i1, i2, i3, i4}
  NULL = NULL
  Paths <- MCPaths
  Names <- MCNames
  NameOf <- MCNameOf
  MainOf <- MCMainOf
  MaxKexts = 3
  MaxDepth = 2
INVARIANTS
  RefsBalanced
  TrackedAreLive
  CallbackCodeMapped
  LookupMapped
PROPERTIES
  LoadOrderKept
  ImplementsRegistry
