SPECIFICATION Spec
CONSTANTS
  p1 = p1
  p2 = p2
  None = None
  Procs <- TwoProcs
  Facts <- TwoFacts
  MaxHops = 1
  MaxFacts = 1
  MaxIngests = 2
  MaxDeletes = 0
  MaxFaults = 0
SYMMETRY Symmetry
INVARIANTS CurrentTipExists
