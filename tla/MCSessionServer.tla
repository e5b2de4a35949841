-------------------------- MODULE MCSessionServer --------------------------
(* A small instance of the session server for TLC. *)
EXTENDS SessionServer, TLC

CONSTANTS r1, r2, r3, s1, s2, py, js, k1, k2

ThreeRequests == {r1, r2, r3}
TwoSessions == {s1, s2}
TwoRuntimes == {py, js}
TwoStoppers == {k1, k2}

\* Requests, sessions, runtimes and stopping tasks are interchangeable.
Symmetric == Permutations(Requests) \union Permutations(Sessions)
                \union Permutations(Runtimes) \union Permutations(Stoppers)
=============================================================================
