SPECIFICATION FairSpec
CONSTANTS
  p1 = p1
  p2 = p2
  None = None
  Procs <- TwoProcs
  Facts <- TwoFacts
  MaxHops = 2
  MaxFacts = 2
  MaxIngests = 2
  MaxDeletes = 1
  MaxFaults = 1
INVARIANTS TypeOK StampedHasSuccessor JudgedOnce WalkIsHistory WalkLeavesReplaced
PROPERTIES ReplacedGetsHidden
