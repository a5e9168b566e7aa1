SPECIFICATION FairSpec
CONSTANTS
  MaxOpen = 1
  Sites <- MCSites
  Requests <- MCRequests
INVARIANTS
  AnsweredOnce
  RequestsGetTheirGrace
  ServesWhatItFound
PROPERTIES
  ShutdownEnds
CHECK_DEADLOCK FALSE
