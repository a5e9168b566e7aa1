SPECIFICATION Spec
CONSTANTS
  None = None
  Absent = None
  Unlimited = 100
  Values <- MCValues
  Usual <- MCUsual
  Wirings <- MCWirings
  Queries <- MCQueries
  Events <- MCEvents
  k8sCallTimeout = 2
  heartbeatProbeTimeout = 1
  connectTimeout = 1
  defaultWindow = 1
  maxWindow = 2
  defaultMaxEdges = 2
  MaxTime = 5
  MaxChanges = 2
  MaxEvents = 3
  MaxFailures = 1
INVARIANTS
  HeartbeatIsQuick
CHECK_DEADLOCK FALSE
