---------------------------- MODULE MCThreadPool ----------------------------
(* The instances of ThreadPool that TLC checks.                            *)
EXTENDS ThreadPool, TLC

CONSTANTS c1, c2, j1, j2, j3

TwoClients == {c1, c2}
TwoJobs == {j1, j2}
ThreeJobs == {j1, j2, j3}
AnyJob == Permutations(Jobs)
=============================================================================
