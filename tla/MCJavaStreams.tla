---------------------------- MODULE MCJavaStreams ----------------------------
(* Each pair with one client, and with two where a client's turn depends on  *)
(* the other's: a server of one connection, or fewer threads than clients.   *)
EXTENDS JavaStreams, TLC

CONSTANTS c1, c2

Line(p, cs) == [client |-> p[1], server |-> p[2], clients |-> cs]

BothScenarios ==
    {Line(p, {c1}) : p \in Pairs}
    \cup {Line(p, {c1, c2}) : p \in {q \in Pairs : q[2].serves \in {"one", "pool"}}}
=============================================================================
