----------------------------- MODULE MCSockets ------------------------------
(* The instances of Sockets that TLC checks.                               *)
EXTENDS Sockets, TLC

CONSTANTS main, other, c1, c2, k1, k2

TwoThreads == {main, other}
TwoClients == {c1, c2}
TwoConns == {k1, k2}

Scene(T, C, M, n, w, s) ==
    [threads |-> T, chans |-> C, makes |-> M, sends |-> n, writes |-> w, set |-> s]

\* Two threads with a socket each; one that writes; a server and its set.
TwoUsers == {Scene({main, other}, {c1, c2}, {c1, c2}, 3, FALSE, FALSE)}
OneWriter == {Scene({main}, {c1}, {c1}, 1, TRUE, FALSE)}
ServerAndSet == {Scene({main}, {Server, c1, c2}, {Server}, 1, FALSE, TRUE)}
AllScenes == TwoUsers \cup OneWriter \cup ServerAndSet
=============================================================================
