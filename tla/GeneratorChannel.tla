-------------------------- MODULE GeneratorChannel --------------------------
(***************************************************************************)
(* The channel of channel.hpp that calls a function for its messages.      *)
(* open_ says that gen_ is not empty.  The function is the caller's and    *)
(* takes its time while mutex_ is held, so that read() is three steps; all *)
(* others need the mutex, except the wait functions, which return at once. *)
(* A generator that uses its own channel would lock the mutex again; here  *)
(* it does not.                                                            *)
(***************************************************************************)
EXTENDS Integers, ChannelBase

CONSTANT MaxCalls       \* bound on the calls of the generator

ASSUME MaxCallsAssumption == MaxCalls \in Nat

VARIABLES
    gpc,        \* where each thread is in read()
    made,       \* history: values that the generator has returned
    given       \* history: values that read() has returned

generatorVars == <<gpc, made, given>>

GeneratorTypeOK ==
    /\ ChannelBaseType
    /\ gpc \in [Threads -> {"idle", "calls", "made"}]
    /\ made \in Nat
    /\ given \in Nat

GeneratorInit ==
    /\ ChannelBaseInit
    /\ gpc = [t \in Threads |-> "idle"]
    /\ made = 0
    /\ given = 0

\* Nobody holds mutex_.
Unlocked == \A t \in Threads : gpc[t] = "idle"

GeneratorClose(t) ==
    /\ Unlocked
    /\ open_' = FALSE
    /\ UNCHANGED <<wpc, generatorVars>>

\* Without a generator read() returns false.
GeneratorRead(t) ==
    /\ Unlocked
    /\ open_
    /\ made < MaxCalls
    /\ gpc' = [gpc EXCEPT ![t] = "calls"]
    /\ UNCHANGED <<wpc, open_, made, given>>

Generates(t) ==
    /\ gpc[t] = "calls"
    /\ gpc' = [gpc EXCEPT ![t] = "made"]
    /\ made' = made + 1
    /\ UNCHANGED <<wpc, open_, given>>

\* An exception leaves read(), which unlocks.
GeneratorThrows(t) ==
    /\ gpc[t] = "calls"
    /\ gpc' = [gpc EXCEPT ![t] = "idle"]
    /\ UNCHANGED <<wpc, open_, made, given>>

\* read() looks at gen_ once more: it may not be there any longer.
GeneratorReturns(t) ==
    /\ gpc[t] = "made"
    /\ gpc' = [gpc EXCEPT ![t] = "idle"]
    /\ given' = IF open_ THEN given + 1 ELSE given
    /\ UNCHANGED <<wpc, open_, made>>

GeneratorGoes(t) == Generates(t) \/ GeneratorThrows(t) \/ GeneratorReturns(t)

GeneratorNext ==
    \E t \in Threads : GeneratorClose(t) \/ GeneratorRead(t) \/ GeneratorGoes(t)

-----------------------------------------------------------------------------
(* What the channel promises                                               *)

\* However reads and closes of several threads meet, one thread at a time is in
\* the generator, nobody is in it once the channel is closed, and no value that
\* it has made is lost to a close() while it ran.
GeneratorServes ==
    /\ \A t, u \in Threads : gpc[t] # "idle" /\ gpc[u] # "idle" => t = u
    /\ ~open_ => Unlocked
    /\ Unlocked => given = made
=============================================================================
