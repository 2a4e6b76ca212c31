---------------------------- MODULE MCNwcTcpStream ----------------------------
(* Instances of NwcTcpStream: how much the kernel holds in each direction. *)
EXTENDS NwcTcpStream

\* The socket buffers hold all that is sent.
AmpleCap == [s \in Sides |-> MaxPackages * PkgLen]

\* One package and a bit on the way to the server.
TightCap == [s \in Sides |-> PkgLen + 1]

\* All the packages, but a single acknowledgement.
TightAckCap == [s \in Sides |-> IF s = "client" THEN AckLen ELSE MaxPackages * PkgLen]

AnyCap == {AmpleCap, TightCap, TightAckCap}

=============================================================================
