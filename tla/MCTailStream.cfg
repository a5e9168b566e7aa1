SPECIFICATION FairSpec
CONSTANTS
  StartAtSeqs = {0, 2}
  StartAtTSs = {0, 3}
  BufSize = 1
  NoMetadata = {3}
  Rejected = {4}
  MaxSeq = 5
  MaxLate = 2
INVARIANTS
  NoGap
PROPERTIES
  ImplementsFeed
  ContextEndReleasesAll
  AllReceived
CHECK_DEADLOCK FALSE
