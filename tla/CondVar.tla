------------------------------- MODULE CondVar -------------------------------
(***************************************************************************)
(* The part of std::condition_variable that the channels use: wait_for()   *)
(* with a predicate, and notify_all().                                     *)
(*                                                                         *)
(* A thread is "idle", "asleep" inside wait_for(), or "woken": notified,   *)
(* and about to take the mutex and evaluate the predicate again.  The      *)
(* predicate is the ready argument.                                        *)
(***************************************************************************)
CONSTANT Threads    \* threads that use the channel

VARIABLE wpc        \* where each thread is

CondVarType == wpc \in [Threads -> {"idle", "asleep", "woken"}]

CondVarInit == wpc = [t \in Threads |-> "idle"]

Notified(w) == [t \in Threads |-> IF w[t] = "asleep" THEN "woken" ELSE w[t]]

NotifyAll == wpc' = Notified(wpc)

\* wait_for() finds the predicate false and releases the mutex.
FallAsleep(t, ready) ==
    /\ wpc[t] = "idle"
    /\ ~ready
    /\ wpc' = [wpc EXCEPT ![t] = "asleep"]

\* A woken thread returns, or sleeps again.
Resume(t, ready) ==
    /\ wpc[t] = "woken"
    /\ wpc' = [wpc EXCEPT ![t] = IF ready THEN "idle" ELSE "asleep"]

\* The time is up; wait_for() returns whatever the predicate is.
TimeOut(t) ==
    /\ wpc[t] = "asleep"
    /\ wpc' = [wpc EXCEPT ![t] = "idle"]

\* A spurious wakeup.
WakeSpuriously(t) ==
    /\ wpc[t] = "asleep"
    /\ wpc' = [wpc EXCEPT ![t] = "woken"]
=============================================================================
