-------------------------- MODULE NamedMutexProofs --------------------------
(***************************************************************************)
(* Mutual exclusion for any number of processes, any of which may die.     *)
(***************************************************************************)
EXTENDS NamedMutex, TLAPS

\* A process that has an object has created the semaphore or found it.
Opened == \A p \in Processes : pc[p] \notin {"none", "dead"} => sem # Absent

\* The semaphore is up exactly when nobody holds the mutex or died with it.
Balanced ==
    /\ sem \in {Absent, 0, 1}
    /\ sem \in {Absent, 1} => Holders = {} /\ orphans = {}
    /\ sem = 0 => Holders # {} \/ orphans # {}

Inv == TypeOK /\ Opened /\ Balanced /\ MutualExclusion

\* The invariant holds before any process has constructed the object.
LEMMA InitInv == Init => Inv
  BY ProcessesAssumption
  DEF Init, Inv, TypeOK, Opened, Balanced, MutualExclusion, Holders

\* Every call, and every death, preserves the invariant.
LEMMA NextInv == Inv /\ [Next]_vars => Inv'
<1> SUFFICES ASSUME Inv, [Next]_vars PROVE Inv'
  OBVIOUS
<1> USE ProcessesAssumption DEF Inv
<1>1. ASSUME NEW p \in Processes, Construct(p) PROVE Inv'
  <2>1. Holders' = Holders
    BY <1>1 DEF Construct, TypeOK, Holders
  <2>2. TypeOK' /\ Opened'
    BY <1>1 DEF Construct, TypeOK, Opened
  <2>3. Balanced' /\ MutualExclusion'
    BY <1>1, <2>1 DEF Construct, TypeOK, Balanced, MutualExclusion
  <2>4. QED
    BY <2>2, <2>3
<1>2. ASSUME NEW p \in Processes,
             \/ Destroy(p) \/ Interrupted(p) \/ TimeOut(p)
             \/ \E how \in {"lock", "try", "timed"} : Enter(p, how)
      PROVE Inv'
  <2>1. UNCHANGED <<sem, orphans>> /\ pc[p] # "dead" /\ sem # Absent
    BY <1>2 DEF Destroy, Interrupted, TimeOut, Enter, Waiting, Opened
  <2>2. Holders' = Holders
    BY <1>2 DEF Destroy, Interrupted, TimeOut, Enter, Waiting, TypeOK, Holders
  <2>3. TypeOK'
    BY <1>2 DEF Destroy, Interrupted, TimeOut, Enter, TypeOK
  <2>4. Opened'
    BY <2>1 DEF Opened
  <2>5. Balanced' /\ MutualExclusion'
    BY <2>1, <2>2 DEF Balanced, MutualExclusion
  <2>6. QED
    BY <2>3, <2>4, <2>5
<1>3. ASSUME NEW p \in Processes, Acquire(p) PROVE Inv'
  <2>1. sem = 1 /\ sem' = 0 /\ UNCHANGED orphans
    BY <1>3 DEF Acquire, Waiting, Opened, Balanced
  <2>2. Holders' = {p}
    BY <1>3, <2>1 DEF Acquire, TypeOK, Holders, Balanced
  <2>3. TypeOK' /\ Opened'
    BY <1>3, <2>1 DEF Acquire, TypeOK, Opened
  <2>4. Balanced' /\ MutualExclusion'
    BY <2>1, <2>2 DEF Balanced, MutualExclusion
  <2>5. QED
    BY <2>3, <2>4
<1>4. ASSUME NEW p \in Processes, unlock(p) PROVE Inv'
  <2>1. p \in Holders /\ sem = 0
    BY <1>4 DEF unlock, TypeOK, Holders, Balanced
  <2>2. sem' = 1 /\ orphans' = {}
    BY <1>4, <2>1 DEF unlock, MutualExclusion
  <2>3. Holders' = {}
    BY <1>4, <2>1 DEF unlock, TypeOK, Holders, MutualExclusion
  <2>4. TypeOK' /\ Opened'
    BY <1>4, <2>2 DEF unlock, TypeOK, Opened
  <2>5. Balanced' /\ MutualExclusion'
    BY <2>2, <2>3 DEF Balanced, MutualExclusion
  <2>6. QED
    BY <2>4, <2>5
<1>5. ASSUME NEW p \in Processes, Die(p) PROVE Inv'
  <2>1. TypeOK' /\ Opened'
    BY <1>5 DEF Die, TypeOK, Opened
  <2>2. Holders' = Holders \ {p} /\ sem' = sem
    BY <1>5 DEF Die, TypeOK, Holders
  <2>3. CASE pc[p] = "held"
    <3>1. Holders = {p} /\ sem = 0
      BY <2>3 DEF Holders, TypeOK, Balanced, MutualExclusion
    <3>2. Holders' = {} /\ p \in orphans'
      BY <1>5, <2>2, <2>3, <3>1 DEF Die
    <3>3. QED
      BY <2>1, <2>2, <3>1, <3>2 DEF Balanced, MutualExclusion
  <2>4. CASE pc[p] # "held"
    <3>1. Holders' = Holders /\ orphans' = orphans
      BY <1>5, <2>2, <2>4 DEF Die, Holders
    <3>2. QED
      BY <2>1, <2>2, <3>1 DEF Balanced, MutualExclusion
  <2>5. QED
    BY <2>3, <2>4
<1>6. CASE UNCHANGED vars
  BY <1>6 DEF vars, TypeOK, Opened, Balanced, MutualExclusion, Holders
<1>7. QED
  BY <1>1, <1>2, <1>3, <1>4, <1>5, <1>6 DEF Next

\* However many processes use the name, construct and destroy their objects,
\* are interrupted, time out or die, the invariant holds.
THEOREM Invariance == Spec => []Inv
  BY InitInv, NextInv, PTL DEF Spec

\* sem_open() never raises the value of a semaphore in use, and unlock()
\* raises it only once for each lock: no two processes hold the mutex.
THEOREM Exclusive == Spec => []MutualExclusion
<1>1. Inv => MutualExclusion
  BY DEF Inv
<1>2. QED
  BY <1>1, Invariance, PTL

\* The only way to lose the mutex for good is to die with it.
THEOREM CanBeHad == Spec => []NeverStuck
<1>1. Inv => NeverStuck
  BY DEF Inv, TypeOK, Balanced, NeverStuck
<1>2. QED
  BY <1>1, Invariance, PTL
=============================================================================
