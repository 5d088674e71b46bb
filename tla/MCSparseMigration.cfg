SPECIFICATION Spec
CONSTANTS
  Calls = {c1, c2, c3}
  Points <- TwoPoints
  None = None
  PageSize = 1
  MaxUser = 2
  MaxFaults = 2
SYMMETRY Symmetry
INVARIANTS TypeOK PointsSurvive MigratedIsWhole
