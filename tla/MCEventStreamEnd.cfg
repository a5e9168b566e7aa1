SPECIFICATION FairSpec
CONSTANTS
  p1 = p1
  p2 = p2
  Publishers = {p1, p2}
  Handlers = {h1}
  Nobody = Nobody
  Bookmark = Bookmark
  MaxCalls <- MCMaxCalls
  EventClass <- MCEventClass
  ClassOf <- MCClassOf
  Requests <- MCWatchRequests
  MaxK8s = 1
PROPERTIES
  EndsWhenSourcesGone
CHECK_DEADLOCK FALSE
