\* No signal, no failure: the order in which workers get connections.
SPECIFICATION Spec
CONSTANTS
    N = 4
    Clients = {c1, c2}
    c1 = c1
    c2 = c2
    QCap = 2
    MaxSignals = 0
    AliasFd = 2
    MayFail = FALSE
PROPERTY RoundRobin
CHECK_DEADLOCK FALSE
