SPECIFICATION Spec
CONSTANTS
  a = a
  b = b
  c1 = c1
  c2 = c2
  Names <- TwoNames
  Calls <- TwoCalls
  Long = {1, 2}
  Summaries = {}
  None = None
  MaxSessions = 1
  DropSessions = 1
  MaxTurns = 2
  DropTurns = 1
  MaxExtracts = 1
  MaxStarts = 2
  MaxSaid = 3
  MaxFaults = 1
SYMMETRY Symmetric
INVARIANTS TypeOK SessionsBounded WindowIsRecent EndedIsComplete
