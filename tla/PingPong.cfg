SPECIFICATION PingSpec
CONSTANTS
    c1 = c1
    c2 = c2
    PingClients = {c1, c2}
    PingCap = 4
    Datagrams = 2
    Parent = parent
    NoClient = nobody
    PingScenarios <- BothScenarios
CHECK_DEADLOCK FALSE
INVARIANTS
    PeerSeesTheClose
PROPERTIES
    PingsAreAnswered
    SessionsEnd
