---------------------------- MODULE MCNamedMutex ----------------------------
(* The instance of NamedMutex that TLC checks.                            *)
EXTENDS NamedMutex

CONSTANTS p1, p2, p3

ThreeProcesses == {p1, p2, p3}
=============================================================================
