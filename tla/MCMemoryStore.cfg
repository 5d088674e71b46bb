SPECIFICATION FairSpec
CONSTANTS
  p1 = p1
  p2 = p2
  t1 = t1
  t2 = t2
  None = None
  Procs <- TwoProcs
  Ids <- TwoIds
  PageSize = 1
  MaxPoints = 2
  ChunkSize = 1
  Texts <- OneText
  MaxRequests = 3
  MaxFaults = 1
INVARIANTS TypeOK HiddenMeansMarked OrphansAreDead
PROPERTIES ImplementsMemories OrphansReclaimed
