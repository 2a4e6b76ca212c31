\* Two connections, so that a node saved by the walk can belong to the other.
CONSTANTS
  NULL = NULL
  Workers = {w1, w2, w3, w4}
  Conns = {c1, c2}
SPECIFICATION Spec
INVARIANTS
  ListsWellFormed
  WalkStaysOnList
  WorkerOfLiveConnection
PROPERTIES
  CancelledWorkersAreFreed
