SPECIFICATION Spec
CONSTANTS
    u1 = u1
    u2 = u2
    s1 = s1
    Users <- Applications
    Listeners <- AcceptorUser
    Accepted <- Slots
    MaxThreads = 2
    Scenarios <- SmallScenarios
CHECK_DEADLOCK FALSE
INVARIANTS
    PoolHandsOut
    ThreadsDieByMisuse
PROPERTIES
    EventsAreHandled
    StopReturns
    ThreadsGoIdle
