SPECIFICATION Spec
CONSTANTS
  Contents = {x, y, z}
  Modes <- PmfModes
  None = None
  PageSize = 1
  MaxIds = 6
  MaxImports = 2
  MaxUser = 2
  MaxFaults = 1
SYMMETRY Rewordings
INVARIANTS TypeOK EdgesJoinRows
PROPERTIES ExportIsWhole ImportRestores
CHECK_DEADLOCK FALSE
