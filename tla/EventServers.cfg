SPECIFICATION Spec
CONSTANTS
    c1 = c1
    c2 = c2
    Clients = {c1, c2}
    Cap = 2
    MaxFaults = 1
    Scenarios <- BothScenarios
CHECK_DEADLOCK FALSE
INVARIANTS
    MutedByAFullBuffer
PROPERTIES
    NobodyStarves
    WaitingIsAnswered
