----------------------------- MODULE MCPingPong -----------------------------
(* The command lines the lessons' programs are checked with. *)
EXTENDS PingPong, TLC

CONSTANTS c1, c2

Line(p, cs, n, k, z, ce, se) ==
    [program |-> p, clients |-> cs, count |-> n, slots |-> k, size |-> z,
     cecho |-> ce, secho |-> se]

\* One client: the endless loop, and a slot of two rounds, with a message
\* that does not fit the kernel's buffer or with every echo mode; only the
\* options the programs honour vary.
Given(program, option, values) == IF option \in program.options THEN values ELSE {0}
Rounds(p) == {<<0, 0>>} \cup (Given(p.client, "count", {1}) \X Given(p.client, "slots", {2}))
Sizes(p) == Given(p.client, "size", {0, 6}) \X {0} \X {0}
Echoes(p) == {0} \X Given(p.client, "echo", {0, 2}) \X Given(p.server, "echo", {0, 2, 3})
OneClient ==
    UNION {{Line(p, {c1}, r[1], r[2], z[1], z[2], z[3]) :
              r \in Rounds(p), z \in Sizes(p) \cup Echoes(p)} : p \in PingPrograms}

\* Two clients of one server, with short messages where the program lets them;
\* two rounds of datagrams, so that a client comes back after the other one.
TwoClients == {Line(p, {c1, c2}, IF p.client.over = "udp" THEN 2 ELSE 1, 0, 2, 0, 0) :
               p \in PingPrograms}

BothScenarios == OneClient \cup TwoClients
=============================================================================
