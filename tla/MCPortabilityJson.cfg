SPECIFICATION Spec
CONSTANTS
  Contents = {x, y, z}
  Modes <- JsonModes
  None = None
  PageSize = 1
  MaxIds = 6
  MaxImports = 2
  MaxUser = 2
  MaxFaults = 1
SYMMETRY Rewordings
INVARIANTS EdgesJoinRows
CHECK_DEADLOCK FALSE
