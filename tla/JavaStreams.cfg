SPECIFICATION StreamSpec
CONSTANTS
    c1 = c1
    c2 = c2
    Clients = {c1, c2}
    HDR = 2
    BODY = 2
    Rounds = 2
    POOL = 1
    RECV_BUF = 20
    StreamScenarios <- BothScenarios
CHECK_DEADLOCK FALSE
INVARIANTS
    RoundLeavesNothing
    ParserKeepsStep
PROPERTIES
    SessionsEnd
