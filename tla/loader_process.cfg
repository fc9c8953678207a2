SPECIFICATION Spec
SYMMETRY HolderSymmetry
CONSTANTS
  Infos = {i1, i2}
  Images = {m1, m2}
  NULL = NULL
  Paths <- MCPaths
  Names <- MCNames
  NameOf <- MCNameOf
  MainOf <- MCMainOf
  MaxKexts = 2
  MaxDepth = 2
  MaxImages = 2
  Clients = {"free"}
INVARIANTS
  SharedRefsBalanced
  ReachableCodeMapped
  TableSurvivesMisuse
