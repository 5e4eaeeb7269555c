----------------------------- MODULE NamedMutex -----------------------------
(***************************************************************************)
(* The named mutex of named-mutex.cpp on a POSIX system: a named semaphore *)
(* that several processes open.  The semaphore outlives the processes, and *)
(* whoever holds it may die.                                               *)
(*                                                                         *)
(* A process has no object ("none"), has one and does not hold the mutex   *)
(* ("idle"), waits inside lock(), try_lock() or try_lock_until() ("lock",  *)
(* "try", "timed"), holds the mutex ("held") or is dead ("dead").  A wait  *)
(* may be interrupted by a signal (EINTR).                                 *)
(***************************************************************************)
EXTENDS Integers, FiniteSets

CONSTANTS
    Processes,
    Mortal,         \* processes that may die
    Absent          \* the semaphore has not been created

ASSUME ProcessesAssumption == Mortal \subseteq Processes /\ Absent \notin Int

VARIABLES
    sem,        \* the semaphore's value
    pc,         \* where each process is
    result,     \* what each process's latest call came to
    orphans     \* history: processes that died holding the mutex

vars == <<sem, pc, result, orphans>>

TypeOK ==
    /\ sem \in Nat \cup {Absent}
    /\ pc \in [Processes -> {"none", "idle", "lock", "try", "timed", "held", "dead"}]
    /\ result \in [Processes -> {"none", "locked", "false", "EINTR", "ETIMEDOUT"}]
    /\ orphans \subseteq Processes

Init ==
    /\ sem = Absent
    /\ pc = [p \in Processes |-> "none"]
    /\ result = [p \in Processes |-> "none"]
    /\ orphans = {}

\* Mutant: a semaphore that exists is reset.
ConstructAfresh(p) ==
    /\ pc[p] = "none"
    /\ pc' = [pc EXCEPT ![p] = "idle"]
    /\ sem' = 1
    /\ UNCHANGED <<result, orphans>>

\* sem_open() with O_CREAT: the initial value is for a new semaphore only.
\* If it fails the constructor throws, and there is no object.
Construct(p) ==
    /\ pc[p] = "none"
    /\ pc' = [pc EXCEPT ![p] = "idle"]
    /\ sem' = IF sem = Absent THEN 1 ELSE sem
    /\ UNCHANGED <<result, orphans>>

\* sem_close(); the semaphore stays.
Destroy(p) ==
    /\ pc[p] = "idle"
    /\ pc' = [pc EXCEPT ![p] = "none"]
    /\ UNCHANGED <<sem, result, orphans>>

\* The three ways in.  try_lock() calls sem_wait() as lock() does.
Enter(p, how) ==
    /\ pc[p] = "idle"
    /\ pc' = [pc EXCEPT ![p] = how]
    /\ UNCHANGED <<sem, result, orphans>>

Waiting(p) == pc[p] \in {"lock", "try", "timed"}

\* Mutant: the last unit of the semaphore is not given out.
AcquireSecond(p) ==
    /\ Waiting(p)
    /\ sem > 1
    /\ sem' = sem - 1
    /\ pc' = [pc EXCEPT ![p] = "held"]
    /\ result' = [result EXCEPT ![p] = "locked"]
    /\ UNCHANGED orphans

\* sem_wait() or sem_timedwait() succeeds.
Acquire(p) ==
    /\ Waiting(p)
    /\ sem > 0
    /\ sem' = sem - 1
    /\ pc' = [pc EXCEPT ![p] = "held"]
    /\ result' = [result EXCEPT ![p] = "locked"]
    /\ UNCHANGED orphans

\* They return -1 with EINTR: not 0, nor the error code that the result is
\* compared with, so the call throws.
Interrupted(p) ==
    /\ Waiting(p)
    /\ pc' = [pc EXCEPT ![p] = "idle"]
    /\ result' = [result EXCEPT ![p] = "EINTR"]
    /\ UNCHANGED <<sem, orphans>>

\* sem_timedwait() returns -1 with ETIMEDOUT.  The code compares the -1 with
\* ETIMEDOUT, finds them different and throws.
TimeOut(p) ==
    /\ pc[p] = "timed"
    /\ pc' = [pc EXCEPT ![p] = "idle"]
    /\ result' = [result EXCEPT ![p] = "ETIMEDOUT"]
    /\ UNCHANGED <<sem, orphans>>

\* Mutant: the semaphore is not posted.
UnlockQuietly(p) ==
    /\ pc[p] = "held"
    /\ pc' = [pc EXCEPT ![p] = "idle"]
    /\ UNCHANGED <<sem, result, orphans>>

unlock(p) ==
    /\ pc[p] = "held"
    /\ pc' = [pc EXCEPT ![p] = "idle"]
    /\ sem' = sem + 1
    /\ UNCHANGED <<result, orphans>>

\* A process dies wherever it is.  The system does not post the semaphore
\* for it.
Die(p) ==
    /\ p \in Mortal
    /\ pc[p] # "dead"
    /\ orphans' = IF pc[p] = "held" THEN orphans \cup {p} ELSE orphans
    /\ pc' = [pc EXCEPT ![p] = "dead"]
    /\ UNCHANGED <<sem, result>>

Next ==
    \E p \in Processes :
        \/ Construct(p) \/ Destroy(p)
        \/ \E how \in {"lock", "try", "timed"} : Enter(p, how)
        \/ Acquire(p) \/ Interrupted(p) \/ TimeOut(p)
        \/ unlock(p) \/ Die(p)

Spec == Init /\ [][Next]_vars

\* A waiting process gets the semaphore if it is free again and again; the
\* clock runs.  Nothing is said of how long the mutex is held.
FairWaits == \A p \in Processes : SF_vars(Acquire(p)) /\ WF_vars(TimeOut(p))
FairSpec == Spec /\ FairWaits

\* Every holder unlocks the mutex in the end.
FairHolders == \A p \in Processes : WF_vars(unlock(p))
FairUseSpec == FairSpec /\ FairHolders

-----------------------------------------------------------------------------
(* What the mutex promises                                                 *)

Holders == {p \in Processes : pc[p] = "held"}

\* At most one process holds the mutex, though each may construct the object
\* at any time, and no process after one that died as the holder.
MutualExclusion ==
    /\ \A p, q \in Holders : p = q
    /\ orphans # {} => Holders = {}

\* While nobody holds the mutex and nobody died with it, it can be had.
NeverStuck == sem # Absent /\ Holders = {} /\ orphans = {} => sem > 0

\* If every holder unlocks, a lock(), and a try_lock(), which waits like one,
\* returns or throws, unless somebody died holding the mutex: that is the only
\* way in which a caller waits for ever.
LockReturns ==
    \A p \in Processes : \A call \in {"lock", "try"} :
        pc[p] = call ~> pc[p] # call \/ orphans # {}
=============================================================================
