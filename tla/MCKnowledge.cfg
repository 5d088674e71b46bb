CONSTANTS
  b1 = b1
  a1 = a1
  a2 = a2
  p1 = p1
  p2 = p2
  None = None
  Buckets <- OneBucket
  Agents <- TwoAgents
  Requests <- TwoRequests
  Texts <- AllTexts
  Uploads <- TwoTexts
  ChunkSize = 7
  Overlap = 3
  MaxDocs = 3
  MaxRequests = 3
  MaxFaults = 1
SPECIFICATION Spec
SYMMETRY Symmetry
INVARIANTS TypeOK LoneRevokeSticks LoneUploadIsListed ListedIsWhole ChunksKeepPassages
CHECK_DEADLOCK FALSE
