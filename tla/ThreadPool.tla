----------------------------- MODULE ThreadPool -----------------------------
(***************************************************************************)
(* The work-stealing pool of thread-pool.hpp and thread-pool.cpp.          *)
(*                                                                         *)
(* Any number of client threads, and the jobs themselves, call insert();   *)
(* clients also call clear(), wait() and wait_until(); one of the clients  *)
(* owns the pool and destroys it.  A worker pops the back of its own queue *)
(* or steals the front of another one.                                     *)
(*                                                                         *)
(* A step is one access to a shared atomic or one critical section under a *)
(* worker's mutex: each critical section touches one queue and one atomic  *)
(* counter, so nothing can be observed in the middle of it that is not     *)
(* observable before or after it.                                          *)
(***************************************************************************)
EXTENDS Integers, Sequences, FiniteSets

CONSTANTS
    Requested,      \* the constructor's argument
    Hardware,       \* std::thread::hardware_concurrency(), 0 if unknown
    Clients,        \* threads that call the pool's member functions
    Owner,          \* the client that runs the destructor
    Jobs,           \* the callables that may be passed to insert()
    NoJob,          \* an empty std::function
    Reuse,          \* may a job that has left the pool be inserted again?
    AllocMayFail    \* may emplace_back() throw?

ASSUME ThreadCountAssumption == Requested \in Int /\ Hardware \in Nat
ASSUME JobsAssumption == IsFiniteSet(Jobs) /\ NoJob \notin Jobs
ASSUME OwnerAssumption == IsFiniteSet(Clients) /\ Owner \in Clients
ASSUME FlagsAssumption == Reuse \in BOOLEAN /\ AllocMayFail \in BOOLEAN

adjust_threads(threads) ==
    LET wanted == IF threads <= 0 THEN Hardware ELSE threads
    IN  IF wanted = 0 THEN 1 ELSE wanted

NThreads == adjust_threads(Requested)
Workers == 0 .. NThreads - 1

ASSUME DisjointAssumption == Clients \cap Workers = {}

Threads == Clients \cup Workers

VARIABLES
    clear_count_,       \* how many clear() calls are in progress
    next_worker_,       \* the worker the next insert() goes to
    unfinished_jobs_,   \* the counter that the wait functions poll
    shutting_down_,     \* set by the destructor
    queue,              \* each worker's deque of callables
    call,               \* the callable a worker has taken
    pc,                 \* where each thread is
    arg,                \* the callable a thread is inserting
    index,              \* insert()'s local copy of next_worker_, 0 outside it
    pos,                \* clear()'s position in workers_, 0 outside its loop
    destroying,         \* has the owner entered the destructor?
    life                \* history: what has become of each job

shared == <<clear_count_, next_worker_, unfinished_jobs_, shutting_down_>>
vars == <<shared, queue, call, pc, arg, index, pos, destroying, life>>

Inserting == {"pick", "advance", "push"}
Clearing == {"erase", "drain", "release"}
Destructing == {"shutdown", "join", "gone"}
ClientPc == {"idle", "wait", "timed"} \cup Inserting \cup Clearing \cup Destructing
WorkerPc == {"loop", "steal", "check", "run", "retire", "exited"} \cup Inserting

\* "new": never inserted; "arriving": inside insert(), past the clear_count_
\* test; "queued"; "running": its body is being executed; "ran": it has
\* returned, the counter still includes it; "done"; "discarded" by clear() or
\* by an insert() that found a clear() in progress; "leaked": counted by an
\* insert() that then threw.
Lives == {"new", "arriving", "queued", "running", "ran", "done", "discarded", "leaked"}

TypeOK ==
    /\ clear_count_ \in Nat
    /\ next_worker_ \in Workers
    /\ unfinished_jobs_ \in Nat
    /\ shutting_down_ \in BOOLEAN
    /\ queue \in [Workers -> Seq(Jobs)]
    /\ call \in [Workers -> Jobs \cup {NoJob}]
    /\ pc \in [Threads -> ClientPc \cup WorkerPc]
    /\ \A t \in Clients : pc[t] \in ClientPc
    /\ \A w \in Workers : pc[w] \in WorkerPc
    /\ arg \in [Threads -> Jobs \cup {NoJob}]
    /\ index \in [Threads -> Workers]
    /\ pos \in [Clients -> Workers]
    /\ destroying \in BOOLEAN
    /\ life \in [Jobs -> Lives]

Init ==
    /\ clear_count_ = 0
    /\ next_worker_ = 0
    /\ unfinished_jobs_ = 0
    /\ shutting_down_ = FALSE
    /\ queue = [w \in Workers |-> <<>>]
    /\ call = [w \in Workers |-> NoJob]
    /\ pc = [t \in Threads |-> IF t \in Workers THEN "loop" ELSE "idle"]
    /\ arg = [t \in Threads |-> NoJob]
    /\ index = [t \in Threads |-> 0]
    /\ pos = [t \in Clients |-> 0]
    /\ destroying = FALSE
    /\ life = [j \in Jobs |-> "new"]

Goto(t, label) == pc' = [pc EXCEPT ![t] = label]

-----------------------------------------------------------------------------
(* insert(), called by a client or by an executing job                     *)

\* Where insert() was called from, and returns to.
Caller(t) == IF t \in Workers THEN "run" ELSE "idle"

\* A client may call while the pool is not being destroyed; a job any time.
MayCall(t) == pc[t] = Caller(t) /\ (t \in Clients => ~destroying)

Insertable(j) == life[j] = "new" \/ (Reuse /\ life[j] \in {"done", "discarded"})

\* if (clear_count_) return;
InsertRefused(t, j) ==
    /\ MayCall(t)
    /\ Insertable(j)
    /\ clear_count_ # 0
    /\ life' = [life EXCEPT ![j] = "discarded"]
    /\ UNCHANGED <<shared, queue, call, pc, arg, index, pos, destroying>>

\* Mutant: the test of clear_count_ is missing.
InsertEnterUnchecked(t, j) ==
    /\ MayCall(t)
    /\ Insertable(j)
    /\ life' = [life EXCEPT ![j] = "arriving"]
    /\ arg' = [arg EXCEPT ![t] = j]
    /\ Goto(t, "pick")
    /\ UNCHANGED <<shared, queue, call, index, pos, destroying>>

InsertEnter(t, j) ==
    /\ MayCall(t)
    /\ Insertable(j)
    /\ clear_count_ = 0
    /\ life' = [life EXCEPT ![j] = "arriving"]
    /\ arg' = [arg EXCEPT ![t] = j]
    /\ Goto(t, "pick")
    /\ UNCHANGED <<shared, queue, call, index, pos, destroying>>

InsertPick(t) ==
    /\ pc[t] = "pick"
    /\ index' = [index EXCEPT ![t] = next_worker_]
    /\ Goto(t, "advance")
    /\ UNCHANGED <<shared, queue, call, arg, pos, destroying, life>>

InsertAdvance(t) ==
    /\ pc[t] = "advance"
    /\ next_worker_' = (index[t] + 1) % NThreads
    /\ Goto(t, "push")
    /\ UNCHANGED <<clear_count_, unfinished_jobs_, shutting_down_, queue, call,
                   arg, index, pos, destroying, life>>

InsertPush(t) ==
    /\ pc[t] = "push"
    /\ unfinished_jobs_' = unfinished_jobs_ + 1
    /\ queue' = [queue EXCEPT ![index[t]] = Append(@, arg[t])]
    /\ life' = [life EXCEPT ![arg[t]] = "queued"]
    /\ arg' = [arg EXCEPT ![t] = NoJob]
    /\ index' = [index EXCEPT ![t] = 0]
    /\ Goto(t, Caller(t))
    /\ UNCHANGED <<clear_count_, next_worker_, shutting_down_, call, pos, destroying>>

\* The counter is incremented before emplace_back() allocates.
InsertThrow(t) ==
    /\ AllocMayFail
    /\ pc[t] = "push"
    /\ unfinished_jobs_' = unfinished_jobs_ + 1
    /\ life' = [life EXCEPT ![arg[t]] = "leaked"]
    /\ arg' = [arg EXCEPT ![t] = NoJob]
    /\ index' = [index EXCEPT ![t] = 0]
    /\ Goto(t, Caller(t))
    /\ UNCHANGED <<clear_count_, next_worker_, shutting_down_, queue, call, pos, destroying>>

Insert(t) ==
    \/ \E j \in Jobs : InsertRefused(t, j) \/ InsertEnter(t, j)
    \/ InsertPick(t) \/ InsertAdvance(t) \/ InsertPush(t) \/ InsertThrow(t)

-----------------------------------------------------------------------------
(* thread_payload()                                                        *)

\* The callable j, popped from v's queue, leaving rest.
Take(w, v, j, rest) ==
    /\ call' = [call EXCEPT ![w] = j]
    /\ queue' = [queue EXCEPT ![v] = rest]
    /\ life' = [life EXCEPT ![j] = "running"]
    /\ Goto(w, "run")
    /\ UNCHANGED <<shared, arg, index, pos, destroying>>

TakeOwn(w) ==
    /\ pc[w] = "loop"
    /\ queue[w] # <<>>
    /\ LET n == Len(queue[w])
       IN  Take(w, w, queue[w][n], SubSeq(queue[w], 1, n - 1))

OwnEmpty(w) ==
    /\ pc[w] = "loop"
    /\ queue[w] = <<>>
    /\ Goto(w, "steal")
    /\ UNCHANGED <<shared, queue, call, arg, index, pos, destroying, life>>

\* Mutant: the front is copied but not popped.
StealCopy(w, v) ==
    /\ pc[w] = "steal"
    /\ queue[v] # <<>>
    /\ Take(w, v, Head(queue[v]), queue[v])

\* v is the random index.
Steal(w, v) ==
    /\ pc[w] = "steal"
    /\ queue[v] # <<>>
    /\ Take(w, v, Head(queue[v]), Tail(queue[v]))

StealNothing(w, v) ==
    /\ pc[w] = "steal"
    /\ queue[v] = <<>>
    /\ Goto(w, "check")
    /\ UNCHANGED <<shared, queue, call, arg, index, pos, destroying, life>>

\* Nothing found: leave if the pool is shutting down, otherwise sleep and
\* look again.
CheckShutdown(w) ==
    /\ pc[w] = "check"
    /\ Goto(w, IF shutting_down_ THEN "exited" ELSE "loop")
    /\ UNCHANGED <<shared, queue, call, arg, index, pos, destroying, life>>

\* call() returns.
JobReturns(w) ==
    /\ pc[w] = "run"
    /\ life' = [life EXCEPT ![call[w]] = "ran"]
    /\ Goto(w, "retire")
    /\ UNCHANGED <<shared, queue, call, arg, index, pos, destroying>>

\* --unfinished_jobs_, and call = {} at the top of the loop: the destructor of
\* the job, which comes after the count, uses nothing of the pool.
Retire(w) ==
    /\ pc[w] = "retire"
    /\ unfinished_jobs_' = unfinished_jobs_ - 1
    /\ life' = [life EXCEPT ![call[w]] = "done"]
    /\ call' = [call EXCEPT ![w] = NoJob]
    /\ Goto(w, "loop")
    /\ UNCHANGED <<clear_count_, next_worker_, shutting_down_, queue, arg, index,
                   pos, destroying>>

Worker(w) ==
    \/ TakeOwn(w) \/ OwnEmpty(w)
    \/ \E v \in Workers : Steal(w, v) \/ StealNothing(w, v)
    \/ CheckShutdown(w) \/ JobReturns(w) \/ Retire(w)

-----------------------------------------------------------------------------
(* clear(), wait(), wait_until() and the destructor                        *)

StartClear(t) ==
    /\ clear_count_' = clear_count_ + 1
    /\ Goto(t, "erase")
    /\ UNCHANGED <<next_worker_, unfinished_jobs_, shutting_down_, queue, call,
                   arg, index, pos, life>>

Clear(t) ==
    /\ pc[t] = "idle"
    /\ ~destroying
    /\ StartClear(t)
    /\ UNCHANGED destroying

\* The jobs in worker w's queue.
JobsIn(w) == {queue[w][i] : i \in 1 .. Len(queue[w])}

\* Mutant: the counter is not told of the jobs that are thrown away.
ClearEraseUncounted(t) ==
    /\ pc[t] = "erase"
    /\ LET w == pos[t] IN
       /\ queue' = [queue EXCEPT ![w] = <<>>]
       /\ life' = [j \in Jobs |-> IF j \in JobsIn(w) THEN "discarded" ELSE life[j]]
       /\ IF w = NThreads - 1
          THEN pos' = [pos EXCEPT ![t] = 0] /\ Goto(t, "drain")
          ELSE pos' = [pos EXCEPT ![t] = w + 1] /\ UNCHANGED pc
    /\ UNCHANGED <<shared, call, arg, index, destroying>>

ClearErase(t) ==
    /\ pc[t] = "erase"
    /\ LET w == pos[t] IN
       /\ unfinished_jobs_' = unfinished_jobs_ - Len(queue[w])
       /\ queue' = [queue EXCEPT ![w] = <<>>]
       /\ life' = [j \in Jobs |-> IF j \in JobsIn(w) THEN "discarded" ELSE life[j]]
       /\ IF w = NThreads - 1
          THEN pos' = [pos EXCEPT ![t] = 0] /\ Goto(t, "drain")
          ELSE pos' = [pos EXCEPT ![t] = w + 1] /\ UNCHANGED pc
    /\ UNCHANGED <<clear_count_, next_worker_, shutting_down_, call, arg, index,
                   destroying>>

\* poll(), and the test of every wait loop.
poll == unfinished_jobs_ = 0

\* Mutant: clear() does not wait for the jobs that are running.
ClearNoDrain(t) ==
    /\ pc[t] = "drain"
    /\ Goto(t, "release")
    /\ UNCHANGED <<shared, queue, call, arg, index, pos, destroying, life>>

ClearDrain(t) ==
    /\ pc[t] = "drain"
    /\ poll
    /\ Goto(t, "release")
    /\ UNCHANGED <<shared, queue, call, arg, index, pos, destroying, life>>

ClearRelease(t) ==
    /\ pc[t] = "release"
    /\ clear_count_' = clear_count_ - 1
    /\ Goto(t, IF destroying THEN "shutdown" ELSE "idle")
    /\ UNCHANGED <<next_worker_, unfinished_jobs_, shutting_down_, queue, call, arg,
                   index, pos, destroying, life>>

Wait(t) ==
    /\ pc[t] = "idle"
    /\ ~destroying
    /\ \E label \in {"wait", "timed"} : Goto(t, label)
    /\ UNCHANGED <<shared, queue, call, arg, index, pos, destroying, life>>

\* Mutant: the wait functions look at the queues, not at the counter.
WaitQueuesEmpty(t) ==
    /\ pc[t] \in {"wait", "timed"}
    /\ \A w \in Workers : queue[w] = <<>>
    /\ Goto(t, "idle")
    /\ UNCHANGED <<shared, queue, call, arg, index, pos, destroying, life>>

WaitReturns(t) ==
    /\ pc[t] \in {"wait", "timed"}
    /\ poll
    /\ Goto(t, "idle")
    /\ UNCHANGED <<shared, queue, call, arg, index, pos, destroying, life>>

\* wait_until() reads the counter, then the clock.
WaitExpires(t) ==
    /\ pc[t] = "timed"
    /\ ~poll
    /\ Goto(t, "idle")
    /\ UNCHANGED <<shared, queue, call, arg, index, pos, destroying, life>>

\* An object is destroyed once: no other call may be in progress.
Destroy ==
    /\ ~destroying
    /\ \A t \in Clients : pc[t] = "idle"
    /\ destroying' = TRUE
    /\ StartClear(Owner)

Shutdown ==
    /\ pc[Owner] = "shutdown"
    /\ shutting_down_' = TRUE
    /\ Goto(Owner, "join")
    /\ UNCHANGED <<clear_count_, next_worker_, unfinished_jobs_, queue, call, arg,
                   index, pos, destroying, life>>

Join ==
    /\ pc[Owner] = "join"
    /\ \A w \in Workers : pc[w] = "exited"
    /\ Goto(Owner, "gone")
    /\ UNCHANGED <<shared, queue, call, arg, index, pos, destroying, life>>

\* The pool no longer exists.
Gone == pc[Owner] = "gone" /\ UNCHANGED vars

\* The steps by which a client's call proceeds and returns.
Continue(t) ==
    \/ ClearErase(t) \/ ClearDrain(t) \/ ClearRelease(t)
    \/ WaitReturns(t) \/ WaitExpires(t)
    \/ t = Owner /\ (Shutdown \/ Join)

Client(t) == Clear(t) \/ Wait(t) \/ Continue(t)

Next ==
    \/ \E t \in Threads : Insert(t)
    \/ \E w \in Workers : Worker(w)
    \/ \E t \in Clients : Client(t)
    \/ Destroy
    \/ Gone

Spec == Init /\ [][Next]_vars

\* The scheduler runs every thread that can run, and every job returns; no
\* client need ever call anything.
InsertProceeds(t) == InsertPick(t) \/ InsertAdvance(t) \/ InsertPush(t) \/ InsertThrow(t)

Fairness ==
    /\ \A t \in Threads : WF_vars(InsertProceeds(t))
    /\ \A t \in Clients : WF_vars(Continue(t))
    /\ \A w \in Workers : WF_vars(Worker(w)) /\ SF_vars(JobReturns(w))

FairSpec == Spec /\ Fairness
-----------------------------------------------------------------------------
(* What the pool promises                                                  *)

Counted == {j \in Jobs : life[j] \in {"queued", "running", "ran", "leaked"}}
Pending == {j \in Jobs : life[j] \in {"queued", "running", "ran"}}

\* unfinished_jobs_, which insert(), clear() and the workers change under
\* different locks, is exactly the number of jobs that were counted in and not
\* counted out: it never drifts and never goes negative.
CountExact == unfinished_jobs_ = Cardinality(Counted)

\* However owners and thieves interleave, a job is in one place: two slots of
\* the queues, two workers, or a slot and a worker, never hold the same job.
OnePlace ==
    /\ \A v, w \in Workers : \A i \in DOMAIN queue[v], k \in DOMAIN queue[w] :
            queue[v][i] = queue[w][k] => v = w /\ i = k
    /\ \A v, w \in Workers : call[v] = call[w] /\ v # w => call[v] = NoJob
    /\ \A v, w \in Workers : \A i \in DOMAIN queue[v] : queue[v][i] # call[w]

\* A worker leaves only when no job is queued, running or on its way into a
\* queue, the jobs that executing jobs insert included: no job is stranded by
\* the destructor.
DrainedAtExit ==
    (\E w \in Workers : pc[w] = "exited") =>
        \A j \in Jobs : life[j] \in {"new", "done", "discarded", "leaked"}

\* When clear() is past its wait, every job that was in the pool when it began
\* is out of it, and when a wait function returns true there is an instant at
\* which no job is queued or executing.
WaitReturnsQuiet ==
    [][\A t \in Clients :
          \/ pc[t] = "drain" /\ pc'[t] = "release"
          \/ pc[t] = "wait" /\ pc'[t] = "idle"
          => Pending = {}]_vars

\* clear() returns, even if jobs and clients go on inserting for ever.
ClearTerminates ==
    \A t \in Clients : pc[t] = "erase" ~> pc[t] \in {"idle", "shutdown"}

\* The destructor returns, with every worker joined.
DestructorTerminates == destroying ~> pc[Owner] = "gone"

\* Jobs are not inserted for ever.
InsertsEnd == <>[](\A t \in Threads : pc[t] \notin Inserting)

\* Unless jobs are inserted for ever, a job accepted by insert() is executed,
\* or discarded by clear().
JobsSettle ==
    InsertsEnd =>
        \A j \in Jobs : life[j] = "arriving" ~> life[j] \in {"done", "discarded"}

\* Unless jobs are inserted for ever, wait() returns.
WaitTerminates == InsertsEnd => \A t \in Clients : pc[t] = "wait" ~> pc[t] = "idle"

\* Every job is accounted for: the indexes and counters have their types, the
\* counter that the wait functions poll is exact, and no job is in two places.
JobsAccounted == TypeOK /\ CountExact /\ OnePlace

\* clear() and the destructor return, whatever is inserted meanwhile.
CallsTerminate == ClearTerminates /\ DestructorTerminates

\* Unless jobs are inserted for ever, every accepted job is settled and wait()
\* returns.
PoolSettles == JobsSettle /\ WaitTerminates
=============================================================================
