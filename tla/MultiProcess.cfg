\* Two workers; the third descriptor of a worker is the one FD_ISSET(-1) sees.
SPECIFICATION FairSpec
CONSTANTS
    N = 2
    Clients = {c1, c2, c3}
    c1 = c1
    c2 = c2
    c3 = c3
    QCap = 2
    MaxSignals = 3
    AliasFd = 2
    MayFail = TRUE
INVARIANTS
    OneOwner
    NoOrphanedWorker
    WildChoiceOnlyWhenStopping
    WorkersOutliveTheLoop
PROPERTIES
    ExitCompletes
    ImplementsHandover
CHECK_DEADLOCK FALSE
