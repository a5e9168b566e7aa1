SPECIFICATION AllSpec
CONSTANTS
  None = None
  Absent = None
  Unlimited = 100
  Values <- MCValues
  Usual <- MCUsual
  Wirings <- MCWirings
  Queries <- MCQueries
  Events <- MCEvents
  k8sCallTimeout = 2
  heartbeatProbeTimeout = 1
  connectTimeout = 1
  defaultWindow = 1
  maxWindow = 2
  defaultMaxEdges = 2
  MaxTime = 5
  MaxChanges = 2
  MaxEvents = 3
  MaxFailures = 1
  Limits = {0, 1, 9}
  Sinces = {0, 2}
  Untils = {0, 5}
  streamReadDefaultLimit = 2
  streamReadMaxLimit = 5
  defaultReadLimit = 2
  maxReadLimit = 8
  NoMetadata = {2}
  Malformed = {4}
  MaxSeq = 7
  Yields <- MCYields
  Objects <- MCObjects
  Namespaced <- MCNamespaced
  CRDs <- MCCRDs
  CRDAPIGroup = "tawon"
  ReadRequests <- MCReadRequests
  WatchRequests <- MCWatchRequests
  MaxVersion = 3
INVARIANTS
  AnswersInTime
  AnswersWereTrue
  NamesWereTrue
  GraphAddsUp
  ReadsOldestWithoutGap
  ResumeLosesNothing
  ReadsAreTrue
CHECK_DEADLOCK FALSE
