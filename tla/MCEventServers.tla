--------------------------- MODULE MCEventServers ---------------------------
(* The command lines the readiness servers are checked with. *)
EXTENDS EventServers, TLC

CONSTANTS c1, c2

Line(p, cs, n, z, e, t, m, g) ==
    [server |-> p[1], client |-> p[2], clients |-> cs, count |-> n, size |-> z,
     echo |-> e, timed |-> t, max |-> m, garbage |-> g]

\* Endless and counted sessions; pings in one piece and in two; every echo
\* mode, with and without a server interval where it is honoured; WSA arrays
\* with room for one or both clients; a clean and a dirty stack for epoll.
Given(p, option, values) == IF option \in p[2].options THEN values ELSE {0}
Echoes(p) == IF p[1].echo THEN {0, 2, 3} ELSE {0}
Timers(p) == IF p[1].waits = "select" THEN BOOLEAN ELSE {FALSE}
Rooms(p) == IF p[1].waits = "wsa" THEN {2, 3} ELSE {0}
Stacks(p) == IF p[1].waits = "epoll" THEN BOOLEAN ELSE {FALSE}

OneClient ==
    UNION {{Line(p, {c1}, n, z, e, t, m, g) :
              n \in Given(p, "count", {0, 2}), z \in Given(p, "size", {1, 2}), e \in Echoes(p),
              t \in Timers(p), m \in Rooms(p), g \in Stacks(p)} : p \in Programs}

Pieces(p) == CASE p[1].waits = "select" -> {1} [] p[1].waits = "epoll" -> {1, 2} [] OTHER -> {2}

TwoClients ==
    UNION {{Line(p, {c1, c2}, 2, z, 0, FALSE, m, g) :
              z \in Pieces(p), m \in Rooms(p), g \in Stacks(p)} : p \in Programs}

BothScenarios == OneClient \cup TwoClients
=============================================================================
