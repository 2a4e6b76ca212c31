---------------------------- MODULE MCJavaNetwork ----------------------------
(* One thread with an Acceptor, with a connector and with both (whose calls   *)
(* of the pool may overlap), with and without a destroy; two threads shared   *)
(* by two users; and two threads that are destroyed.                          *)
EXTENDS JavaNetwork, TLC

CONSTANTS u1, u2, s1

Applications == {u1, u2}
AcceptorUser == {u1}
Slots        == {s1}

Line(us, n, t, d) == [users |-> us, threads |-> n, traffic |-> t, destroy |-> d]

SmallScenarios ==
    {Line({u1}, 1, 3, TRUE), Line({u2}, 1, 4, TRUE), Line({u1, u2}, 1, 2, FALSE),
     Line({u1, u2}, 1, 0, TRUE), Line({u1, u2}, 2, 0, FALSE),
     Line({u1}, 2, 1, TRUE)}
=============================================================================
