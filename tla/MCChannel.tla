----------------------------- MODULE MCChannel ------------------------------
(* The instance of Channel that TLC checks.                                *)
EXTENDS Channel

CONSTANTS t1, t2, t3, v1, v2, v3

ThreeThreads == {t1, t2, t3}
TwoThreads == {t2, t3}
ThirdThread == {t3}
ThreeValues == {v1, v2, v3}
=============================================================================
