SPECIFICATION Spec
CONSTANTS
    Clients = {c1, c2}
    Acceptor = acceptor
    Messages = 1
    MaxFaults = 1
    Births <- HeapLeaves
CHECK_DEADLOCK FALSE
INVARIANTS
    FreedIsUnused
    AcceptStaysPosted
PROPERTY
    DeletedAreFreed
