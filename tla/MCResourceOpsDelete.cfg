SPECIFICATION Spec
CONSTANTS
  Clients = {1}
  Batches <- MCBatches
  Deletes <- MCDeletes
  Namespaced <- MCNamespaced
  CRDGroup = "eob.io"
  MaxRpcs = 2
PROPERTIES
  NotFoundMeansGone
CHECK_DEADLOCK FALSE
