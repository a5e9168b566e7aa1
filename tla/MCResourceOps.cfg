SPECIFICATION FairSpec
CONSTANTS
  Clients = {1, 2}
  Batches <- MCBatches
  Deletes <- MCDeletes
  Namespaced <- MCNamespaced
  CRDGroup = "eob.io"
  MaxRpcs = 1
INVARIANTS
  EveryChangeAudited
  OutcomesAreTrue
  BatchAddsUp
PROPERTIES
  RpcReturns
  ImplementsLedger
CHECK_DEADLOCK FALSE
