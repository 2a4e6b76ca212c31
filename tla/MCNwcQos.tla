------------------------------- MODULE MCNwcQos -------------------------------
(* Instances of NwcQos: the networks, and when within a second they run.   *)
EXTENDS NwcQos

Udp == [prototype |-> "NWC_PROTO_UDP", start |-> 1, min_delay |-> 0, max_delay |-> 3,
          max_hold |-> 2]
Tcp == [prototype |-> "NWC_PROTO_TCP", start |-> 1, min_delay |-> 0, max_delay |-> 3,
          max_hold |-> 2]

\* A round trip longer than a period of the loop, and seconds that end.
SlowUdp == [prototype |-> "NWC_PROTO_UDP", start |-> 5, min_delay |-> 3, max_delay |-> 4,
          max_hold |-> 1]
SlowTcp == [prototype |-> "NWC_PROTO_TCP", start |-> 6, min_delay |-> 3, max_delay |-> 4,
          max_hold |-> 1]

\* A fast network while a second ends.
LateTcp == [prototype |-> "NWC_PROTO_TCP", start |-> 5, min_delay |-> 0, max_delay |-> 3,
          max_hold |-> 2]

AnyEnvironment == {Udp, Tcp, SlowUdp, SlowTcp, LateTcp}

=============================================================================
