\* A server's or a client's loop: three handlers, three entry addresses.
CONSTANTS
  NULL = NULL
  h1 = h1
  h2 = h2
  h3 = h3
  e1 = e1
  e2 = e2
  e3 = e3
  Root = h1
  Handlers = {h1, h2, h3}
  Entries = {e1, e2, e3}
SPECIFICATION FairSpec
INVARIANTS
  EntriesOwned
  BatchReadsLiveEntries
  DeliveredToReported
  WriteMeansConnecting
PROPERTIES
  RemovedEntriesAreFreed
  ImplementsDelivery
CHECK_DEADLOCK FALSE
