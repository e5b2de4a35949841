------------------------- MODULE MCEphemeralEngine -------------------------
(* A small instance of the ephemeral engine for TLC. *)
EXTENDS EphemeralEngine, TLC

CONSTANTS p1, p2, p3, i1, k1, k2, k3, k4

ThreeClients == {p1, p2, p3}
OneImage == {i1}
FourContainers == {k1, k2, k3, k4}
NoTicks == {}
Refusals == {"refused"}

\* Clients are interchangeable.
Symmetric == Permutations(Clients)
=============================================================================
