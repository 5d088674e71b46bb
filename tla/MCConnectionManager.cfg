SPECIFICATION CMFairSpec
CONSTANTS
  p1 = p1
  p2 = p2
  s1 = s1
  s2 = s2
  NoTimer = NoTimer
  Callers <- TwoCallers
  Slots <- TwoSlots
  MaxAttempts = 2
  MaxChecks = 2
  MaxStrays = 1
INVARIANTS CMTypeOK Supervised ProgressOwned
PROPERTIES RetryEnds
