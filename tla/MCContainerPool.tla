-------------------------- MODULE MCContainerPool --------------------------
(* Small instances of the container pool for TLC. *)
EXTENDS ContainerPool, TLC

CONSTANTS p1, p2, i1, i2, t1, t2, k1, k2, k3, k4, k5, p3

TwoClients == {p1, p2}
ThreeClients == {p1, p2, p3}
OneImage == {i1}
TwoImages == {i1, i2}
OneTick == {t1}
TwoTicks == {t1, t2}
NoTicks == {}
ThreeContainers == {k1, k2, k3}
FourContainers == {k1, k2, k3, k4}
FiveContainers == {k1, k2, k3, k4, k5}
Refusals == {"refused"}
AllFailures == {"refused", "unstarted"}

\* Executions, callbacks and images are each interchangeable.
Symmetric == Permutations(Clients) \union Permutations(Ticks)
                                       \union Permutations(Images)
=============================================================================
