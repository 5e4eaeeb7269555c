-------------------------- MODULE ThreadPoolProofs --------------------------
(***************************************************************************)
(* Proofs that ThreadPool keeps its promises for every number of workers,  *)
(* clients and jobs, whether or not emplace_back() may throw.              *)
(***************************************************************************)
EXTENDS ThreadPool, FiniteSetTheorems, SequenceTheorems, TLAPS

-----------------------------------------------------------------------------
(* The inductive invariant                                                 *)

\* clear_count_ counts the threads that are inside clear().
ClearsBalanced ==
    clear_count_ = Cardinality({t \in Clients : pc[t] \in Clearing})

\* A queue holds queued jobs, each in one slot.
QueueOK ==
    /\ \A w \in Workers : \A i \in 1 .. Len(queue[w]) : life[queue[w][i]] = "queued"
    /\ \A v, w \in Workers : \A i \in 1 .. Len(queue[v]), k \in 1 .. Len(queue[w]) :
            queue[v][i] = queue[w][k] => v = w /\ i = k

Executing(w) == pc[w] \in {"run", "retire"} \cup Inserting

\* A worker that executes a job holds it alone; any other worker holds none.
CallOK ==
    /\ \A w \in Workers : IF Executing(w)
                          THEN /\ call[w] \in Jobs
                               /\ life[call[w]] = IF pc[w] = "retire" THEN "ran" ELSE "running"
                          ELSE call[w] = NoJob
    /\ \A v, w \in Workers : call[v] = call[w] /\ v # w => call[v] = NoJob

\* A thread inside insert() holds its job alone, and every arriving job is held.
ArgOK ==
    /\ \A t \in Threads : pc[t] \in Inserting => arg[t] \in Jobs /\ life[arg[t]] = "arriving"
    /\ \A t, u \in Threads : /\ pc[t] \in Inserting
                             /\ pc[u] \in Inserting
                             /\ arg[t] = arg[u]
                             => t = u
    /\ \A j \in Jobs : life[j] = "arriving" =>
            \E t \in Threads : pc[t] \in Inserting /\ arg[t] = j

\* Once the destructor is past its wait nothing is counted, and workers leave
\* only after that.
Ended == destroying /\ pc[Owner] \in {"release"} \cup Destructing

EndingOK ==
    /\ IF destroying
       THEN /\ pc[Owner] \in Clearing \cup Destructing
            /\ \A t \in Clients : t # Owner => pc[t] = "idle"
       ELSE \A t \in Clients : pc[t] \notin Destructing
    /\ Ended => unfinished_jobs_ = 0
    /\ shutting_down_ => destroying /\ pc[Owner] \in {"join", "gone"}
    /\ \A w \in Workers : pc[w] = "exited" => shutting_down_

IInv ==
    /\ TypeOK
    /\ ClearsBalanced
    /\ QueueOK
    /\ CallOK
    /\ ArgOK
    /\ CountExact
    /\ EndingOK
-----------------------------------------------------------------------------
(* Facts about the constants and about sequences                           *)

LEMMA WorkersType ==
    /\ NThreads \in Nat \ {0}
    /\ Workers \subseteq Nat
    /\ 0 \in Workers
    /\ NThreads - 1 \in Workers
  BY ThreadCountAssumption DEF NThreads, Workers, adjust_threads

LEMMA NextWorkerType ==
    ASSUME NEW n \in Nat
    PROVE  n % NThreads \in Workers
  BY WorkersType DEF Workers

\* A sequence that repeats nothing has as many elements as slots.
LEMMA DistinctSeqCardinality ==
    ASSUME NEW S, NEW s \in Seq(S),
           \A i, k \in 1 .. Len(s) : s[i] = s[k] => i = k
    PROVE  LET T == {s[i] : i \in 1 .. Len(s)}
           IN  IsFiniteSet(T) /\ Cardinality(T) = Len(s)
  <1> DEFINE T == {s[i] : i \in 1 .. Len(s)}
             f == [i \in 1 .. Len(s) |-> s[i]]
  <1>1. Len(s) \in Nat
    OBVIOUS
  <1>2. IsFiniteSet(1 .. Len(s)) /\ Cardinality(1 .. Len(s)) = Len(s)
    <2> DEFINE n == Len(s)
    <2>1. n \in Nat
      BY <1>1
    <2> HIDE DEF n
    <2>2. IsFiniteSet(1 .. n) /\ Cardinality(1 .. n) = n
      BY <2>1, FS_Interval
    <2> QED
      BY <2>2 DEF n
  <1>3. f \in Bijection(1 .. Len(s), T)
    <2>1. f \in [1 .. Len(s) -> T]
      OBVIOUS
    <2>2. \A i, k \in 1 .. Len(s) : f[i] = f[k] => i = k
      OBVIOUS
    <2>3. \A t \in T : \E i \in 1 .. Len(s) : f[i] = t
      OBVIOUS
    <2> QED
      BY <2>1, <2>2, <2>3 DEF Bijection, Injection, Surjection, IsInjective
  <1>4. ExistsBijection(1 .. Len(s), T)
    BY <1>3 DEF ExistsBijection
  <1> QED
    BY <1>2, <1>4, FS_Bijection

\* Dropping the last element of a sequence.
LEMMA FrontOfSeq ==
    ASSUME NEW S, NEW s \in Seq(S), s # <<>>
    PROVE  LET r == SubSeq(s, 1, Len(s) - 1)
           IN  /\ r \in Seq(S)
               /\ Len(r) = Len(s) - 1
               /\ \A i \in 1 .. Len(r) : r[i] = s[i]
               /\ Len(s) \in 1 .. Len(s)
               /\ s[Len(s)] \in S
  <1>1. Len(s) \in Nat \ {0}
    OBVIOUS
  <1>2. SubSeq(s, 1, Len(s) - 1) \in Seq(S)
    BY <1>1
  <1>3. Len(SubSeq(s, 1, Len(s) - 1)) = Len(s) - 1
    <2> DEFINE n == Len(s) - 1
    <2>1. n \in Nat /\ \A i \in 1 .. n : s[i] \in S
      BY <1>1
    <2> HIDE DEF n
    <2>2. Len(SubSeq(s, 1, n)) = n
      BY <2>1, SubSeqProperties
    <2> QED
      BY <2>2 DEF n
  <1>4. \A i \in 1 .. Len(s) - 1 : SubSeq(s, 1, Len(s) - 1)[i] = s[i]
    BY <1>1
  <1> QED
    BY <1>1, <1>2, <1>3, <1>4

\* Dropping the first element of a sequence.
LEMMA TailOfSeq ==
    ASSUME NEW S, NEW s \in Seq(S), s # <<>>
    PROVE  /\ Tail(s) \in Seq(S)
           /\ Len(Tail(s)) = Len(s) - 1
           /\ \A i \in 1 .. Len(Tail(s)) : Tail(s)[i] = s[i + 1]
           /\ Head(s) = s[1]
           /\ 1 \in 1 .. Len(s)
           /\ Head(s) \in S
  OBVIOUS

LEMMA CountedFinite ==
    /\ IsFiniteSet(Counted)
    /\ Cardinality(Counted) \in Nat
  BY JobsAssumption, FS_Subset, FS_CardinalityType DEF Counted

\* When the counter is zero, no job is counted.
LEMMA ZeroMeansNone ==
    ASSUME CountExact, unfinished_jobs_ = 0
    PROVE  Counted = {}
  BY CountedFinite, FS_EmptySet DEF CountExact

\* The threads inside clear() when t enters or leaves it.
LEMMA ClearersFinite ==
    ASSUME NEW p
    PROVE  /\ IsFiniteSet({t \in Clients : p[t] \in Clearing})
           /\ Cardinality({t \in Clients : p[t] \in Clearing}) \in Nat
  BY OwnerAssumption, FS_Subset, FS_CardinalityType
-----------------------------------------------------------------------------
(* Each kind of step preserves the invariant                               *)

\* Steps that only move a worker round its loop, or a client in or out of a
\* wait function.
LEMMA MoveStep ==
    ASSUME IInv, NEW t \in Threads, NEW label, Goto(t, label),
           UNCHANGED <<shared, queue, call, arg, index, pos, destroying, life>>,
           \/ /\ t \in Workers
              /\ pc[t] \in {"loop", "steal", "check"}
              /\ label \in {"loop", "steal", "check", "exited"}
              /\ label = "exited" => shutting_down_
           \/ /\ t \in Clients
              /\ ~destroying
              /\ pc[t] \in {"idle", "wait", "timed"}
              /\ label \in {"idle", "wait", "timed"}
    PROVE  IInv'
  <1> USE DisjointAssumption DEF IInv, Goto, shared, Threads
  <1>1. TypeOK'
    BY DEF TypeOK, ClientPc, WorkerPc
  <1>2. ClearsBalanced'
    <2>1. {u \in Clients : pc'[u] \in Clearing} = {u \in Clients : pc[u] \in Clearing}
      BY DEF TypeOK, Clearing
    <2> QED
      BY <2>1 DEF ClearsBalanced
  <1>3. QueueOK'
    BY DEF QueueOK
  <1>4. CallOK'
    BY DEF TypeOK, CallOK, Executing, Inserting
  <1>5. ArgOK'
    BY DEF TypeOK, ArgOK, Inserting
  <1>6. CountExact'
    BY DEF CountExact, Counted
  <1>7. EndingOK'
    BY OwnerAssumption DEF TypeOK, EndingOK, Ended, Clearing, Destructing
  <1> QED
    BY <1>1, <1>2, <1>3, <1>4, <1>5, <1>6, <1>7

\* insert() finds a clear() in progress.
LEMMA InsertRefusedStep ==
    ASSUME IInv, NEW t \in Threads, NEW j \in Jobs, InsertRefused(t, j)
    PROVE  IInv'
  <1> USE DEF IInv, InsertRefused, shared
  <1>1. life[j] \in {"new", "done", "discarded"}
    BY DEF Insertable
  <1>2. TypeOK'
    BY DEF TypeOK, Lives
  <1>3. ClearsBalanced'
    BY DEF ClearsBalanced
  <1>4. QueueOK'
    BY <1>1 DEF TypeOK, QueueOK
  <1>5. CallOK'
    BY <1>1 DEF TypeOK, CallOK, Executing
  <1>6. ArgOK'
    BY <1>1 DEF TypeOK, ArgOK
  <1>7. CountExact'
    <2>1. Counted' = Counted
      BY <1>1 DEF TypeOK, Counted
    <2> QED
      BY <2>1 DEF CountExact
  <1>8. EndingOK'
    BY DEF EndingOK, Ended
  <1> QED
    BY <1>2, <1>3, <1>4, <1>5, <1>6, <1>7, <1>8

\* insert() accepts a job.
LEMMA InsertEnterStep ==
    ASSUME IInv, NEW t \in Threads, NEW j \in Jobs, InsertEnter(t, j)
    PROVE  IInv'
  <1> USE DisjointAssumption DEF IInv, InsertEnter, shared, Goto
  <1>1. life[j] \in {"new", "done", "discarded"}
    BY DEF Insertable
  <1>2. /\ pc[t] = "run" \/ (t \in Clients /\ pc[t] = "idle" /\ ~destroying)
        /\ t \in Workers => pc[t] = "run"
    BY DEF MayCall, Caller, Threads
  <1>3. TypeOK'
    BY <1>2 DEF TypeOK, Lives, ClientPc, WorkerPc, Inserting, Threads
  <1>4. ClearsBalanced'
    <2>1. {u \in Clients : pc'[u] \in Clearing} = {u \in Clients : pc[u] \in Clearing}
      BY <1>2 DEF TypeOK, Clearing, Threads
    <2> QED
      BY <2>1 DEF ClearsBalanced
  <1>5. QueueOK'
    BY <1>1 DEF TypeOK, QueueOK
  <1>6. CallOK'
    BY <1>1, <1>2 DEF TypeOK, CallOK, Executing, Inserting
  <1>7. ArgOK'
    <2>1. \A u \in Threads : pc'[u] \in Inserting =>
              arg'[u] \in Jobs /\ life'[arg'[u]] = "arriving"
      BY <1>1, <1>2 DEF TypeOK, ArgOK, Inserting
    <2>2. \A u \in Threads : pc[u] \in Inserting => arg[u] # j
      BY <1>1 DEF ArgOK
    <2>3. \A u, x \in Threads : /\ pc'[u] \in Inserting
                                /\ pc'[x] \in Inserting
                                /\ arg'[u] = arg'[x]
                                => u = x
      BY <2>2 DEF TypeOK, ArgOK
    <2>4. \A i \in Jobs : life'[i] = "arriving" =>
              \E u \in Threads : pc'[u] \in Inserting /\ arg'[u] = i
      <3> TAKE i \in Jobs
      <3>1. CASE i = j
        BY <3>1 DEF TypeOK, Inserting
      <3>2. CASE i # j
        BY <1>2, <3>2 DEF TypeOK, ArgOK, Inserting
      <3> QED
        BY <3>1, <3>2
    <2> QED
      BY <2>1, <2>3, <2>4 DEF ArgOK
  <1>8. CountExact'
    <2>1. Counted' = Counted
      BY <1>1 DEF TypeOK, Counted
    <2> QED
      BY <2>1 DEF CountExact
  <1>9. EndingOK'
    BY <1>2, OwnerAssumption
    DEF TypeOK, EndingOK, Ended, Inserting, Clearing, Destructing, Threads
  <1> QED
    BY <1>3, <1>4, <1>5, <1>6, <1>7, <1>8, <1>9

\* insert() reads and advances next_worker_.
LEMMA InsertPickStep ==
    ASSUME IInv, NEW t \in Threads, InsertPick(t) \/ InsertAdvance(t)
    PROVE  IInv'
  <1>1. /\ pc[t] \in {"pick", "advance"}
        /\ \E label \in {"advance", "push"} : pc' = [pc EXCEPT ![t] = label]
        /\ UNCHANGED <<clear_count_, unfinished_jobs_, shutting_down_, queue, call,
                       arg, pos, destroying, life>>
    BY DEF InsertPick, InsertAdvance, Goto, shared
  <1>2. next_worker_' \in Workers /\ index' \in [Threads -> Workers]
    <2>1. CASE InsertPick(t)
      BY <2>1 DEF InsertPick, IInv, TypeOK, shared
    <2>2. CASE InsertAdvance(t)
      <3>1. index[t] + 1 \in Nat
        <4>1. index[t] \in Workers
          BY DEF IInv, TypeOK
        <4>2. index[t] \in Nat
          BY <4>1, WorkersType
        <4> QED
          BY <4>2
      <3>2. (index[t] + 1) % NThreads \in Workers
        BY <3>1, NextWorkerType
      <3> QED
        BY <2>2, <3>2 DEF InsertAdvance, IInv, TypeOK
    <2> QED
      BY <2>1, <2>2
  <1> USE DisjointAssumption DEF IInv, Inserting
  <1>3. TypeOK'
    <2>1. /\ pc' \in [Threads -> ClientPc \cup WorkerPc]
          /\ \A u \in Clients : pc'[u] \in ClientPc
          /\ \A w \in Workers : pc'[w] \in WorkerPc
      BY <1>1 DEF TypeOK, ClientPc, WorkerPc, Threads
    <2> QED
      BY <1>1, <1>2, <2>1 DEF TypeOK
  <1>4. ClearsBalanced'
    <2>1. {u \in Clients : pc'[u] \in Clearing} = {u \in Clients : pc[u] \in Clearing}
      BY <1>1 DEF TypeOK, Clearing, Threads
    <2> QED
      BY <1>1, <2>1 DEF ClearsBalanced
  <1>5. QueueOK'
    BY <1>1 DEF QueueOK
  <1>6. CallOK'
    BY <1>1 DEF TypeOK, CallOK, Executing
  <1>7. ArgOK'
    BY <1>1 DEF TypeOK, ArgOK
  <1>8. CountExact'
    BY <1>1 DEF CountExact, Counted
  <1>9. EndingOK'
    BY <1>1, OwnerAssumption DEF TypeOK, EndingOK, Ended, Clearing, Destructing, Threads
  <1> QED
    BY <1>3, <1>4, <1>5, <1>6, <1>7, <1>8, <1>9

\* A thread inside insert() keeps the destructor from having ended: if it is a
\* worker, the job it executes is still counted.
LEMMA InsertKeepsOpen ==
    ASSUME IInv, NEW t \in Threads, pc[t] \in Inserting
    PROVE  ~Ended
  <1>1. CASE t \in Workers
    <2>1. call[t] \in Counted
      BY <1>1 DEF IInv, CallOK, Executing, Counted, Inserting
    <2>2. unfinished_jobs_ # 0
      BY <2>1, ZeroMeansNone DEF IInv
    <2> QED
      BY <2>2 DEF IInv, EndingOK
  <1>2. CASE t \in Clients
    BY <1>2, OwnerAssumption
    DEF IInv, EndingOK, Ended, Inserting, Clearing, Destructing
  <1> QED
    BY <1>1, <1>2 DEF Threads

\* What the two ends of insert(), the normal one and the exception, share.
LEMMA InsertLeaveStep ==
    ASSUME IInv, NEW t \in Threads, pc[t] = "push",
           NEW fate \in {"queued", "leaked"},
           unfinished_jobs_' = unfinished_jobs_ + 1,
           life' = [life EXCEPT ![arg[t]] = fate],
           arg' = [arg EXCEPT ![t] = NoJob],
           index' = [index EXCEPT ![t] = 0],
           Goto(t, Caller(t)),
           UNCHANGED <<clear_count_, next_worker_, shutting_down_, call, pos, destroying>>,
           queue' \in [Workers -> Seq(Jobs)],
           QueueOK'
    PROVE  IInv'
  <1> USE DisjointAssumption DEF IInv, Goto, Caller
  <1>1. arg[t] \in Jobs /\ life[arg[t]] = "arriving" /\ life \in [Jobs -> Lives]
    BY DEF ArgOK, Inserting, TypeOK
  <1>a. \A i \in Jobs : life'[i] = IF i = arg[t] THEN fate ELSE life[i]
    BY <1>1
  <1>2. TypeOK'
    <2>1. life' \in [Jobs -> Lives]
      BY <1>1 DEF Lives
    <2>2. index' \in [Threads -> Workers] /\ arg' \in [Threads -> Jobs \cup {NoJob}]
      BY WorkersType DEF TypeOK
    <2>3. unfinished_jobs_' \in Nat
      BY DEF TypeOK
    <2>4. /\ pc' \in [Threads -> ClientPc \cup WorkerPc]
          /\ \A u \in Clients : pc'[u] \in ClientPc
          /\ \A w \in Workers : pc'[w] \in WorkerPc
      BY DEF TypeOK, ClientPc, WorkerPc, Threads
    <2> QED
      BY <2>1, <2>2, <2>3, <2>4 DEF TypeOK
  <1>3. ClearsBalanced'
    <2>1. {u \in Clients : pc'[u] \in Clearing} = {u \in Clients : pc[u] \in Clearing}
      BY DEF TypeOK, Clearing, Threads
    <2> QED
      BY <2>1 DEF ClearsBalanced
  <1>4. CallOK'
    BY <1>1 DEF TypeOK, CallOK, Executing, Inserting, Threads
  <1>5. ArgOK'
    <2>1. pc'[t] \notin Inserting /\ \A u \in Threads : u # t => pc'[u] = pc[u] /\ arg'[u] = arg[u]
      BY DEF TypeOK, Inserting
    <2>2. \A u \in Threads : u # t /\ pc[u] \in Inserting => arg[u] # arg[t]
      BY DEF ArgOK, Inserting
    <2>3. \A u \in Threads : pc'[u] \in Inserting =>
              arg'[u] \in Jobs /\ life'[arg'[u]] = "arriving"
      BY <1>a, <2>1, <2>2 DEF ArgOK
    <2>4. \A u, x \in Threads : /\ pc'[u] \in Inserting
                                /\ pc'[x] \in Inserting
                                /\ arg'[u] = arg'[x]
                                => u = x
      BY <2>1 DEF ArgOK
    <2>5. \A i \in Jobs : life'[i] = "arriving" =>
              \E u \in Threads : pc'[u] \in Inserting /\ arg'[u] = i
      <3> TAKE i \in Jobs
      <3> HAVE life'[i] = "arriving"
      <3>1. i # arg[t] /\ life[i] = "arriving"
        BY <1>1 DEF TypeOK
      <3>2. PICK u \in Threads : pc[u] \in Inserting /\ arg[u] = i
        BY <3>1 DEF ArgOK
      <3> QED
        BY <2>1, <3>1, <3>2
    <2> QED
      BY <2>3, <2>4, <2>5 DEF ArgOK
  <1>6. CountExact'
    <2>1. Counted' = Counted \cup {arg[t]} /\ arg[t] \notin Counted
      BY <1>1, <1>a DEF Counted
    <2>2. Cardinality(Counted \cup {arg[t]}) = Cardinality(Counted) + 1
      BY <2>1, CountedFinite, FS_AddElement
    <2> QED
      BY <2>1, <2>2 DEF CountExact
  <1>7. EndingOK'
    <2>1. ~Ended
      BY InsertKeepsOpen DEF Inserting
    <2>2. t \in Clients => ~destroying
      BY <2>1, OwnerAssumption DEF EndingOK, Clearing, Destructing
    <2> QED
      BY <2>1, <2>2, OwnerAssumption
      DEF TypeOK, EndingOK, Ended, Clearing, Destructing, Threads
  <1> QED
    BY <1>2, <1>3, <1>4, <1>5, <1>6, <1>7

LEMMA InsertPushStep ==
    ASSUME IInv, NEW t \in Threads, InsertPush(t)
    PROVE  IInv'
  <1> DEFINE v == index[t]
             j == arg[t]
             s == queue[v]
  <1>1. v \in Workers /\ s \in Seq(Jobs) /\ j \in Jobs /\ life[j] = "arriving"
    BY DEF IInv, TypeOK, ArgOK, InsertPush, Inserting
  <1>2. queue' = [queue EXCEPT ![v] = Append(s, j)]
    BY <1>1 DEF InsertPush, IInv, TypeOK
  <1>3. queue' \in [Workers -> Seq(Jobs)]
    BY <1>1, <1>2 DEF IInv, TypeOK
  <1>4. /\ Len(Append(s, j)) = Len(s) + 1
        /\ \A i \in 1 .. Len(s) : Append(s, j)[i] = s[i]
        /\ Append(s, j)[Len(s) + 1] = j
        /\ Len(s) \in Nat
    BY <1>1
  <1>5. \A w \in Workers : \A i \in 1 .. Len(queue[w]) : queue[w][i] \in Jobs /\ queue[w][i] # j
    BY <1>1 DEF IInv, TypeOK, QueueOK
  <1>6. life' = [life EXCEPT ![j] = "queued"] /\ life \in [Jobs -> Lives]
    BY DEF InsertPush, IInv, TypeOK
  <1>7. \A w \in Workers : w # v => queue'[w] = queue[w]
    BY <1>2 DEF IInv, TypeOK
  <1>8. queue'[v] = Append(s, j)
    BY <1>1, <1>2 DEF IInv, TypeOK
  <1>9. QueueOK'
    <2>1. \A w \in Workers : \A i \in 1 .. Len(queue'[w]) :
             \/ i \in 1 .. Len(queue[w]) /\ queue'[w][i] = queue[w][i]
             \/ w = v /\ i = Len(s) + 1 /\ queue'[w][i] = j
      <3> TAKE w \in Workers
      <3>1. CASE w = v
        BY <1>4, <1>8, <3>1
      <3>2. CASE w # v
        BY <1>7, <3>2
      <3> QED
        BY <3>1, <3>2
    <2>2. \A w \in Workers : \A i \in 1 .. Len(queue'[w]) : life'[queue'[w][i]] = "queued"
      BY <1>1, <1>5, <1>6, <2>1 DEF IInv, QueueOK
    <2>3. \A w, x \in Workers : \A i \in 1 .. Len(queue'[w]), k \in 1 .. Len(queue'[x]) :
             queue'[w][i] = queue'[x][k] => w = x /\ i = k
      BY <1>5, <2>1 DEF IInv, QueueOK
    <2> QED
      BY <2>2, <2>3 DEF QueueOK
  <1> QED
    BY <1>3, <1>9, InsertLeaveStep DEF InsertPush

LEMMA InsertThrowStep ==
    ASSUME IInv, NEW t \in Threads, InsertThrow(t)
    PROVE  IInv'
  <1>1. arg[t] \in Jobs /\ life[arg[t]] = "arriving"
    BY DEF IInv, ArgOK, InsertThrow, Inserting
  <1>2. \A w \in Workers : \A i \in 1 .. Len(queue[w]) :
            queue[w][i] \in Jobs /\ queue[w][i] # arg[t]
    BY <1>1 DEF IInv, TypeOK, QueueOK
  <1>3. QueueOK'
    BY <1>1, <1>2 DEF IInv, TypeOK, QueueOK, InsertThrow
  <1> QED
    BY <1>3, InsertLeaveStep DEF InsertThrow, IInv, TypeOK

\* A worker takes job j out of slot n of v's queue; TakeOwn() and Steal()
\* differ in the slot.
LEMMA TakeStep ==
    ASSUME IInv, NEW w \in Workers, NEW v \in Workers, NEW n \in 1 .. Len(queue[v]),
           NEW rest \in Seq(Jobs), Len(rest) = Len(queue[v]) - 1,
           \A i \in 1 .. Len(rest) :
               rest[i] = IF i < n THEN queue[v][i] ELSE queue[v][i + 1],
           pc[w] \in {"loop", "steal"},
           Take(w, v, queue[v][n], rest)
    PROVE  IInv'
  <1> DEFINE j == queue[v][n]
  <1>1. j \in Jobs /\ life[j] = "queued" /\ life \in [Jobs -> Lives]
    BY DEF IInv, TypeOK, QueueOK
  <1>2. /\ call' = [call EXCEPT ![w] = j]
        /\ queue' = [queue EXCEPT ![v] = rest]
        /\ life' = [life EXCEPT ![j] = "running"]
        /\ pc' = [pc EXCEPT ![w] = "run"]
        /\ UNCHANGED <<clear_count_, next_worker_, unfinished_jobs_, shutting_down_,
                       arg, index, pos, destroying>>
    BY DEF Take, Goto, shared
  <1>3. \A i \in Jobs : life'[i] = IF i = j THEN "running" ELSE life[i]
    BY <1>1, <1>2
  <1>4. w \notin Clients /\ w \in Threads
    BY DisjointAssumption DEF Threads
  <1>5. /\ pc'[w] = "run"
        /\ \A t \in Threads : t # w => pc'[t] = pc[t]
        /\ \A t \in Clients : pc'[t] = pc[t]
    BY <1>2, <1>4 DEF IInv, TypeOK, Threads
  <1> HIDE DEF j
  <1>6. TypeOK'
    <2>1. life' \in [Jobs -> Lives] /\ queue' \in [Workers -> Seq(Jobs)]
      BY <1>1, <1>2 DEF IInv, TypeOK, Lives
    <2>2. call' \in [Workers -> Jobs \cup {NoJob}]
      BY <1>1, <1>2 DEF IInv, TypeOK
    <2>3. /\ pc' \in [Threads -> ClientPc \cup WorkerPc]
          /\ \A u \in Clients : pc'[u] \in ClientPc
          /\ \A x \in Workers : pc'[x] \in WorkerPc
      BY <1>2, <1>4 DEF IInv, TypeOK, ClientPc, WorkerPc, Threads
    <2> QED
      BY <1>2, <2>1, <2>2, <2>3 DEF IInv, TypeOK
  <1>7. ClearsBalanced'
    <2>1. {u \in Clients : pc'[u] \in Clearing} = {u \in Clients : pc[u] \in Clearing}
      BY <1>5
    <2> QED
      BY <1>2, <2>1 DEF IInv, ClearsBalanced
  <1>8. QueueOK'
    <2>1. \A x \in Workers : x # v => queue'[x] = queue[x]
      BY <1>2 DEF IInv, TypeOK
    <2>2. queue'[v] = rest
      BY <1>2 DEF IInv, TypeOK
    <2> DEFINE old(x, i) == IF x # v \/ i < n THEN i ELSE i + 1
    <2>3. \A x \in Workers : \A i \in 1 .. Len(queue'[x]) :
             /\ i \in Int
             /\ old(x, i) \in 1 .. Len(queue[x])
             /\ queue'[x][i] = queue[x][old(x, i)]
             /\ x = v => old(x, i) # n
      <3> TAKE x \in Workers
      <3>1. queue[v] \in Seq(Jobs) /\ Len(queue[v]) \in Nat
        BY DEF IInv, TypeOK
      <3>2. CASE x = v
        BY <2>2, <3>1, <3>2
      <3>3. CASE x # v
        BY <2>1, <3>3
      <3> QED
        BY <3>2, <3>3
    <2>4. \A x \in Workers : \A i \in 1 .. Len(queue'[x]) :
             queue'[x][i] \in Jobs /\ queue'[x][i] # j /\ life[queue'[x][i]] = "queued"
      <3> TAKE x \in Workers
      <3> TAKE i \in 1 .. Len(queue'[x])
      <3> DEFINE k == old(x, i)
      <3>1. k \in 1 .. Len(queue[x]) /\ queue'[x][i] = queue[x][k] /\ (x = v => k # n)
        BY <2>3
      <3> HIDE DEF k
      <3>2. queue[x][k] \in Jobs /\ life[queue[x][k]] = "queued"
        BY <3>1 DEF IInv, TypeOK, QueueOK
      <3>3. queue[x][k] # queue[v][n]
        BY <3>1 DEF IInv, QueueOK
      <3> QED
        BY <3>1, <3>2, <3>3 DEF j
    <2>5. \A x \in Workers : \A i \in 1 .. Len(queue'[x]) : life'[queue'[x][i]] = "queued"
      BY <1>3, <2>4
    <2>6. \A x, y \in Workers : \A i \in 1 .. Len(queue'[x]), k \in 1 .. Len(queue'[y]) :
             queue'[x][i] = queue'[y][k] => x = y /\ i = k
      <3> TAKE x, y \in Workers
      <3> TAKE i \in 1 .. Len(queue'[x]), k \in 1 .. Len(queue'[y])
      <3> HAVE queue'[x][i] = queue'[y][k]
      <3>1. x = y /\ old(x, i) = old(y, k)
        <4> DEFINE a == old(x, i)
                   b == old(y, k)
        <4>1. a \in 1 .. Len(queue[x]) /\ b \in 1 .. Len(queue[y])
          BY <2>3
        <4>2. queue[x][a] = queue[y][b]
          BY <2>3
        <4> HIDE DEF a, b
        <4>3. x = y /\ a = b
          BY <4>1, <4>2 DEF IInv, QueueOK
        <4> QED
          BY <4>3 DEF a, b
      <3> QED
        BY <2>3, <3>1
    <2> QED
      BY <2>5, <2>6 DEF QueueOK
  <1>9. CallOK'
    <2>1. \A x \in Workers : call[x] # j
      BY <1>1, JobsAssumption DEF IInv, CallOK
    <2>2. call'[w] = j /\ \A x \in Workers : x # w => call'[x] = call[x]
      BY <1>2 DEF IInv, TypeOK
    <2>3. \A x \in Workers : x # w => pc'[x] = pc[x]
      BY <1>5 DEF Threads
    <2> QED
      BY <1>1, <1>3, <1>5, <2>1, <2>2, <2>3, JobsAssumption
      DEF IInv, CallOK, Executing, Inserting
  <1>10. ArgOK'
    <2>1. \A t \in Threads : pc'[t] \in Inserting <=> pc[t] \in Inserting
      BY <1>5 DEF Inserting
    <2> QED
      BY <1>1, <1>2, <1>3, <2>1 DEF IInv, ArgOK
  <1>11. CountExact'
    <2>1. Counted' = Counted
      BY <1>1, <1>3 DEF Counted
    <2> QED
      BY <1>2, <2>1 DEF IInv, CountExact
  <1>12. EndingOK'
    <2>1. \A x \in Workers : pc'[x] = "exited" => pc[x] = "exited"
      BY <1>5 DEF Threads
    <2>2. Ended' = Ended
      BY <1>2, <1>5, OwnerAssumption DEF Ended
    <2> QED
      BY <1>2, <1>5, <2>1, <2>2, OwnerAssumption DEF IInv, EndingOK
  <1> QED
    BY <1>6, <1>7, <1>8, <1>9, <1>10, <1>11, <1>12 DEF IInv

LEMMA TakeOwnStep ==
    ASSUME IInv, NEW w \in Workers, TakeOwn(w)
    PROVE  IInv'
  <1> DEFINE s == queue[w]
             r == SubSeq(s, 1, Len(s) - 1)
  <1>1. s \in Seq(Jobs) /\ s # <<>>
    BY DEF IInv, TypeOK, TakeOwn
  <1>2. /\ r \in Seq(Jobs)
        /\ Len(r) = Len(s) - 1
        /\ \A i \in 1 .. Len(r) : r[i] = s[i]
        /\ Len(s) \in 1 .. Len(s)
    BY <1>1, FrontOfSeq
  <1>3. \A i \in 1 .. Len(r) : r[i] = IF i < Len(s) THEN s[i] ELSE s[i + 1]
    BY <1>1, <1>2
  <1>4. Take(w, w, s[Len(s)], r) /\ pc[w] = "loop"
    BY DEF TakeOwn
  <1> HIDE DEF r
  <1> QED
    BY <1>2, <1>3, <1>4, TakeStep

LEMMA StealStep ==
    ASSUME IInv, NEW w \in Workers, NEW v \in Workers, Steal(w, v)
    PROVE  IInv'
  <1> DEFINE s == queue[v]
             r == Tail(s)
  <1>1. s \in Seq(Jobs) /\ s # <<>>
    BY DEF IInv, TypeOK, Steal
  <1>2. /\ r \in Seq(Jobs)
        /\ Len(r) = Len(s) - 1
        /\ \A i \in 1 .. Len(r) : r[i] = s[i + 1]
        /\ 1 \in 1 .. Len(s)
        /\ Head(s) = s[1]
    BY <1>1, TailOfSeq
  <1>3. \A i \in 1 .. Len(r) : r[i] = IF i < 1 THEN s[i] ELSE s[i + 1]
    BY <1>1, <1>2
  <1>4. Take(w, v, s[1], r) /\ pc[w] = "steal"
    BY <1>2 DEF Steal
  <1> HIDE DEF r
  <1> QED
    BY <1>2, <1>3, <1>4, TakeStep

\* A job returns; the counter still includes it.
LEMMA JobReturnsStep ==
    ASSUME IInv, NEW w \in Workers, JobReturns(w)
    PROVE  IInv'
  <1>1. /\ call[w] \in Jobs
        /\ life[call[w]] = "running"
        /\ life \in [Jobs -> Lives]
        /\ \A x \in Workers : x # w => call[x] # call[w]
    BY JobsAssumption DEF IInv, TypeOK, CallOK, Executing, JobReturns
  <1>2. /\ \A i \in Jobs : life'[i] = IF i = call[w] THEN "ran" ELSE life[i]
        /\ life' \in [Jobs -> Lives]
    BY <1>1 DEF JobReturns, Lives
  <1>3. w \notin Clients /\ w \in Threads
    BY DisjointAssumption DEF Threads
  <1>4. /\ pc[w] = "run" /\ pc'[w] = "retire"
        /\ \A t \in Threads : t # w => pc'[t] = pc[t]
        /\ \A t \in Clients : pc'[t] = pc[t]
        /\ \A x \in Workers : x # w => pc'[x] = pc[x]
    BY <1>3 DEF JobReturns, Goto, IInv, TypeOK, Threads
  <1>5. UNCHANGED <<clear_count_, next_worker_, unfinished_jobs_, shutting_down_, queue,
                    call, arg, index, pos, destroying>>
    BY DEF JobReturns, shared
  <1>6. TypeOK'
    <2>1. /\ pc' \in [Threads -> ClientPc \cup WorkerPc]
          /\ \A u \in Clients : pc'[u] \in ClientPc
          /\ \A x \in Workers : pc'[x] \in WorkerPc
      BY <1>3 DEF JobReturns, Goto, IInv, TypeOK, ClientPc, WorkerPc, Threads
    <2> QED
      BY <1>2, <1>5, <2>1 DEF IInv, TypeOK
  <1>7. ClearsBalanced'
    <2>1. {u \in Clients : pc'[u] \in Clearing} = {u \in Clients : pc[u] \in Clearing}
      BY <1>4
    <2> QED
      BY <1>5, <2>1 DEF IInv, ClearsBalanced
  <1>8. QueueOK'
    <2>1. \A v \in Workers : \A i \in 1 .. Len(queue[v]) :
              queue[v][i] \in Jobs /\ queue[v][i] # call[w]
      BY <1>1 DEF IInv, TypeOK, QueueOK
    <2> QED
      BY <1>2, <1>5, <2>1 DEF IInv, QueueOK
  <1>9. CallOK'
    BY <1>1, <1>2, <1>4, <1>5 DEF IInv, CallOK, Executing, Inserting
  <1>10. ArgOK'
    <2>1. \A t \in Threads : pc'[t] \in Inserting <=> pc[t] \in Inserting
      BY <1>4 DEF Inserting
    <2> QED
      BY <1>1, <1>2, <1>5, <2>1 DEF IInv, ArgOK
  <1>11. CountExact'
    <2>1. Counted' = Counted
      BY <1>1, <1>2 DEF Counted
    <2> QED
      BY <1>5, <2>1 DEF IInv, CountExact
  <1>12. EndingOK'
    <2>1. Ended' = Ended
      BY <1>4, <1>5, OwnerAssumption DEF Ended
    <2> QED
      BY <1>4, <1>5, <2>1, OwnerAssumption DEF IInv, EndingOK
  <1> QED
    BY <1>6, <1>7, <1>8, <1>9, <1>10, <1>11, <1>12 DEF IInv

\* A worker counts out the job it has executed.
LEMMA RetireStep ==
    ASSUME IInv, NEW w \in Workers, Retire(w)
    PROVE  IInv'
  <1>1. /\ call[w] \in Jobs
        /\ life[call[w]] = "ran"
        /\ life \in [Jobs -> Lives]
        /\ \A x \in Workers : x # w => call[x] # call[w]
    BY JobsAssumption DEF IInv, TypeOK, CallOK, Executing, Retire
  <1>2. /\ \A i \in Jobs : life'[i] = IF i = call[w] THEN "done" ELSE life[i]
        /\ life' \in [Jobs -> Lives]
    BY <1>1 DEF Retire, Lives
  <1>3. w \notin Clients /\ w \in Threads
    BY DisjointAssumption DEF Threads
  <1>4. /\ pc[w] = "retire" /\ pc'[w] = "loop"
        /\ \A t \in Threads : t # w => pc'[t] = pc[t]
        /\ \A t \in Clients : pc'[t] = pc[t]
        /\ \A x \in Workers : x # w => pc'[x] = pc[x]
    BY <1>3 DEF Retire, Goto, IInv, TypeOK, Threads
  <1>5. /\ UNCHANGED <<clear_count_, next_worker_, shutting_down_, queue, arg, index,
                       pos, destroying>>
        /\ unfinished_jobs_' = unfinished_jobs_ - 1
    BY DEF Retire
  <1>6. /\ call' \in [Workers -> Jobs \cup {NoJob}]
        /\ call'[w] = NoJob
        /\ \A x \in Workers : x # w => call'[x] = call[x]
    BY DEF Retire, IInv, TypeOK
  <1>7. Counted' = Counted \ {call[w]} /\ call[w] \in Counted
    BY <1>1, <1>2 DEF Counted
  <1>8. /\ Cardinality(Counted') = Cardinality(Counted) - 1
        /\ Cardinality(Counted') \in Nat
    <2>1. IsFiniteSet(Counted \ {call[w]})
      BY CountedFinite, FS_RemoveElement
    <2> QED
      BY <1>7, <2>1, CountedFinite, FS_RemoveElement, FS_CardinalityType
  <1>9. CountExact' /\ unfinished_jobs_' \in Nat
    BY <1>5, <1>8 DEF IInv, CountExact
  <1>10. TypeOK'
    <2>1. /\ pc' \in [Threads -> ClientPc \cup WorkerPc]
          /\ \A u \in Clients : pc'[u] \in ClientPc
          /\ \A x \in Workers : pc'[x] \in WorkerPc
      BY <1>3 DEF Retire, Goto, IInv, TypeOK, ClientPc, WorkerPc, Threads
    <2> QED
      BY <1>2, <1>5, <1>6, <1>9, <2>1 DEF IInv, TypeOK
  <1>11. ClearsBalanced'
    <2>1. {u \in Clients : pc'[u] \in Clearing} = {u \in Clients : pc[u] \in Clearing}
      BY <1>4
    <2> QED
      BY <1>5, <2>1 DEF IInv, ClearsBalanced
  <1>12. QueueOK'
    <2>1. \A v \in Workers : \A i \in 1 .. Len(queue[v]) :
              queue[v][i] \in Jobs /\ queue[v][i] # call[w]
      BY <1>1 DEF IInv, TypeOK, QueueOK
    <2> QED
      BY <1>2, <1>5, <2>1 DEF IInv, QueueOK
  <1>13. CallOK'
    BY <1>1, <1>2, <1>4, <1>6 DEF IInv, CallOK, Executing, Inserting
  <1>14. ArgOK'
    <2>1. \A t \in Threads : pc'[t] \in Inserting <=> pc[t] \in Inserting
      BY <1>4 DEF Inserting
    <2> QED
      BY <1>1, <1>2, <1>5, <2>1 DEF IInv, ArgOK
  <1>15. EndingOK'
    <2>1. Ended' = Ended
      BY <1>4, <1>5, OwnerAssumption DEF Ended
    <2>2. ~Ended
      BY <1>7, ZeroMeansNone DEF IInv, EndingOK
    <2> QED
      BY <1>4, <1>5, <2>1, <2>2, OwnerAssumption DEF IInv, EndingOK
  <1> QED
    BY <1>9, <1>10, <1>11, <1>12, <1>13, <1>14, <1>15 DEF IInv

\* The steps of clear() and of the destructor other than the erasing loop, and
\* what each needs: only the owner's place and the counters change.
LEMMA ClientStep ==
    ASSUME IInv, NEW t \in Clients,
           pc[t] \in {"idle"} \cup Clearing \cup Destructing,
           NEW label \in {"idle"} \cup Clearing \cup Destructing, Goto(t, label),
           UNCHANGED <<next_worker_, unfinished_jobs_, queue, call, arg, index, pos, life>>,
           shutting_down_' \in BOOLEAN, destroying' \in BOOLEAN,
           clear_count_' - clear_count_ =
               (IF label \in Clearing THEN 1 ELSE 0) - (IF pc[t] \in Clearing THEN 1 ELSE 0),
           clear_count_' \in Int,
           EndingOK'
    PROVE  IInv'
  <1>1. t \notin Workers /\ t \in Threads
    BY DisjointAssumption DEF Threads
  <1>2. /\ pc'[t] = label
        /\ \A u \in Threads : u # t => pc'[u] = pc[u]
        /\ \A u \in Clients : u # t => pc'[u] = pc[u]
        /\ \A w \in Workers : pc'[w] = pc[w]
    BY <1>1 DEF Goto, IInv, TypeOK, Threads
  <1> DEFINE C == {u \in Clients : pc[u] \in Clearing}
             D == {u \in Clients : pc'[u] \in Clearing}
  <1>3. IsFiniteSet(C) /\ Cardinality(C) \in Nat /\ IsFiniteSet(D) /\ Cardinality(D) \in Nat
    BY ClearersFinite
  <1>4. Cardinality(D) - Cardinality(C) =
            (IF label \in Clearing THEN 1 ELSE 0) - (IF pc[t] \in Clearing THEN 1 ELSE 0)
    <2>1. CASE label \in Clearing /\ pc[t] \notin Clearing
      <3>1. D = C \cup {t} /\ t \notin C
        BY <1>2, <2>1
      <3> HIDE DEF C, D
      <3> QED
        BY <1>3, <2>1, <3>1, FS_AddElement
    <2>2. CASE label \notin Clearing /\ pc[t] \in Clearing
      <3>1. D = C \ {t} /\ t \in C
        BY <1>2, <2>2
      <3> HIDE DEF C, D
      <3> QED
        BY <1>3, <2>2, <3>1, FS_RemoveElement
    <2>3. CASE label \in Clearing <=> pc[t] \in Clearing
      <3>1. D = C
        BY <1>2, <2>3
      <3> HIDE DEF C, D
      <3> QED
        BY <1>3, <2>3, <3>1
    <2> QED
      BY <2>1, <2>2, <2>3
  <1>5. ClearsBalanced' /\ clear_count_' \in Nat
    <2>1. clear_count_ = Cardinality(C)
      BY DEF IInv, ClearsBalanced
    <2>2. clear_count_' = Cardinality(D)
      <3> HIDE DEF C, D
      <3> QED
        BY <1>3, <1>4, <2>1
    <2> QED
      BY <1>3, <2>2 DEF ClearsBalanced
  <1>6. TypeOK'
    <2>1. /\ pc' \in [Threads -> ClientPc \cup WorkerPc]
          /\ \A u \in Clients : pc'[u] \in ClientPc
          /\ \A w \in Workers : pc'[w] \in WorkerPc
      BY <1>1, <1>2 DEF Goto, IInv, TypeOK, ClientPc, Threads
    <2> QED
      BY <1>5, <2>1 DEF IInv, TypeOK
  <1>7. QueueOK'
    BY DEF IInv, QueueOK
  <1>8. CallOK'
    BY <1>2 DEF IInv, CallOK, Executing
  <1>9. ArgOK'
    <2>1. \A u \in Threads : pc'[u] \in Inserting <=> pc[u] \in Inserting
      BY <1>2 DEF Inserting, Clearing, Destructing
    <2> QED
      BY <2>1 DEF IInv, ArgOK
  <1>10. CountExact'
    BY DEF IInv, CountExact, Counted
  <1> QED
    BY <1>5, <1>6, <1>7, <1>8, <1>9, <1>10 DEF IInv

LEMMA ClearStep ==
    ASSUME IInv, NEW t \in Clients, Clear(t)
    PROVE  IInv'
  <1> USE DEF Clear, StartClear, Clearing, Destructing
  <1>1. clear_count_ \in Nat /\ t \in Threads /\ t \notin Workers
    BY DisjointAssumption DEF IInv, TypeOK, Threads
  <1>2. EndingOK'
    BY <1>1, OwnerAssumption DEF IInv, TypeOK, EndingOK, Ended, Goto, Threads
  <1>3. /\ clear_count_' - clear_count_ = 1 /\ clear_count_' \in Int
        /\ shutting_down_' \in BOOLEAN /\ destroying' \in BOOLEAN
        /\ Goto(t, "erase") /\ pc[t] = "idle"
        /\ UNCHANGED <<next_worker_, unfinished_jobs_, queue, call, arg, index, pos, life>>
    BY <1>1 DEF IInv, TypeOK
  <1> QED
    BY <1>2, <1>3, ClientStep

LEMMA DestroyStep ==
    ASSUME IInv, Destroy
    PROVE  IInv'
  <1> USE DEF Destroy, StartClear, Clearing, Destructing
  <1>1. clear_count_ \in Nat /\ Owner \in Threads /\ Owner \notin Workers
    BY DisjointAssumption, OwnerAssumption DEF IInv, TypeOK, Threads
  <1>2. EndingOK'
    BY <1>1, OwnerAssumption, DisjointAssumption
    DEF IInv, TypeOK, EndingOK, Ended, Goto, Threads
  <1>3. /\ clear_count_' - clear_count_ = 1 /\ clear_count_' \in Int
        /\ shutting_down_' \in BOOLEAN /\ destroying' \in BOOLEAN
        /\ Goto(Owner, "erase") /\ pc[Owner] = "idle"
        /\ UNCHANGED <<next_worker_, unfinished_jobs_, queue, call, arg, index, pos, life>>
    BY <1>1, OwnerAssumption DEF IInv, TypeOK
  <1> QED
    BY <1>2, <1>3, OwnerAssumption, ClientStep

LEMMA ClearDrainStep ==
    ASSUME IInv, NEW t \in Clients, ClearDrain(t)
    PROVE  IInv'
  <1> USE DEF ClearDrain, Clearing, Destructing, shared
  <1>1. clear_count_ \in Nat /\ t \in Threads /\ t \notin Workers
    BY DisjointAssumption DEF IInv, TypeOK, Threads
  <1>2. EndingOK'
    BY <1>1, OwnerAssumption DEF IInv, TypeOK, EndingOK, Ended, Goto, Threads, poll
  <1> QED
    BY <1>1, <1>2, ClientStep DEF IInv, TypeOK

LEMMA ClearReleaseStep ==
    ASSUME IInv, NEW t \in Clients, ClearRelease(t)
    PROVE  IInv'
  <1> USE DEF ClearRelease, Clearing, Destructing
  <1>1. clear_count_ \in Nat /\ t \in Threads /\ t \notin Workers
    BY DisjointAssumption DEF IInv, TypeOK, Threads
  <1>2. destroying => t = Owner
    BY DEF IInv, EndingOK
  <1>3. EndingOK'
    BY <1>1, <1>2, OwnerAssumption DEF IInv, TypeOK, EndingOK, Ended, Goto, Threads
  <1> QED
    BY <1>1, <1>3, ClientStep DEF IInv, TypeOK

LEMMA ShutdownStep ==
    ASSUME IInv, Shutdown \/ Join
    PROVE  IInv'
  <1> USE OwnerAssumption DEF Clearing, Destructing
  <1>1. /\ clear_count_ \in Nat
        /\ Owner \in Threads
        /\ Owner \notin Workers
        /\ shutting_down_ \in BOOLEAN
        /\ destroying \in BOOLEAN
    BY DisjointAssumption DEF IInv, TypeOK, Threads
  <1>2. CASE Shutdown
    <2>1. EndingOK'
      BY <1>1, <1>2, DisjointAssumption
      DEF Shutdown, IInv, TypeOK, EndingOK, Ended, Goto, Threads
    <2>2. shutting_down_' \in BOOLEAN /\ destroying' \in BOOLEAN
      BY <1>1, <1>2 DEF Shutdown
    <2>3. clear_count_' - clear_count_ = 0 /\ clear_count_' \in Int
      BY <1>1, <1>2 DEF Shutdown
    <2> QED
      BY <1>2, <2>1, <2>2, <2>3, ClientStep DEF Shutdown
  <1>3. CASE Join
    <2>1. EndingOK'
      BY <1>1, <1>3, DisjointAssumption
      DEF Join, shared, IInv, TypeOK, EndingOK, Ended, Goto, Threads
    <2>2. shutting_down_' \in BOOLEAN /\ destroying' \in BOOLEAN
      BY <1>1, <1>3 DEF Join, shared
    <2>3. clear_count_' - clear_count_ = 0 /\ clear_count_' \in Int
      BY <1>1, <1>3 DEF Join, shared
    <2> QED
      BY <1>3, <2>1, <2>2, <2>3, ClientStep DEF Join, shared
  <1> QED
    BY <1>2, <1>3

\* clear() empties one queue and counts out what was in it.
LEMMA ClearEraseStep ==
    ASSUME IInv, NEW t \in Clients, ClearErase(t)
    PROVE  IInv'
  <1> DEFINE w == pos[t]
             J == JobsIn(w)
             s == queue[w]
  <1>1. w \in Workers /\ s \in Seq(Jobs) /\ t \in Threads /\ t \notin Workers
    BY DisjointAssumption DEF IInv, TypeOK, Threads
  <1>2. \A i, k \in 1 .. Len(s) : s[i] = s[k] => i = k
    BY <1>1 DEF IInv, QueueOK
  <1>3. J \subseteq Jobs /\ \A j \in J : life[j] = "queued"
    BY <1>1 DEF JobsIn, IInv, QueueOK
  <1>4. IsFiniteSet(J) /\ Cardinality(J) = Len(s)
    BY <1>1, <1>2, DistinctSeqCardinality DEF JobsIn
  <1>5. /\ unfinished_jobs_' = unfinished_jobs_ - Len(s)
        /\ queue' = [queue EXCEPT ![w] = <<>>]
        /\ life' = [j \in Jobs |-> IF j \in J THEN "discarded" ELSE life[j]]
        /\ pc[t] = "erase"
        /\ UNCHANGED <<clear_count_, next_worker_, shutting_down_, call, arg, index, destroying>>
    BY DEF ClearErase
  <1>6. pc' = pc \/ pc' = [pc EXCEPT ![t] = "drain"]
    BY DEF ClearErase, Goto
  <1>7. pos' \in [Clients -> Workers]
    <2>1. CASE w = NThreads - 1
      BY <2>1, WorkersType DEF ClearErase, IInv, TypeOK
    <2>2. CASE w # NThreads - 1
      <3>1. w + 1 \in Workers
        BY <1>1, <2>2, ThreadCountAssumption DEF Workers, NThreads, adjust_threads
      <3> QED
        BY <2>2, <3>1 DEF ClearErase, IInv, TypeOK
    <2> QED
      BY <2>1, <2>2
  <1> HIDE DEF w, J, s
  <1>8. /\ pc'[t] \in {"erase", "drain"}
        /\ \A u \in Threads : u # t => pc'[u] = pc[u]
        /\ \A u \in Clients : u # t => pc'[u] = pc[u]
        /\ \A v \in Workers : pc'[v] = pc[v]
    BY <1>1, <1>5, <1>6 DEF IInv, TypeOK, Threads
  <1>9. \A j \in Jobs : life'[j] = IF j \in J THEN "discarded" ELSE life[j]
    BY <1>5
  <1>10. Counted' = Counted \ J /\ J \subseteq Counted
    BY <1>3, <1>9 DEF Counted
  <1>11. /\ Cardinality(Counted') = Cardinality(Counted) - Cardinality(J)
         /\ Cardinality(Counted') \in Nat
    <2>1. Counted \cap J = J
      BY <1>10
    <2>2. /\ IsFiniteSet(Counted \ J)
          /\ Cardinality(Counted \ J) = Cardinality(Counted) - Cardinality(Counted \cap J)
      BY CountedFinite, FS_Difference
    <2> QED
      BY <1>10, <2>1, <2>2, FS_CardinalityType
  <1>12. CountExact' /\ unfinished_jobs_' \in Nat
    BY <1>4, <1>5, <1>11 DEF IInv, CountExact
  <1>13. TypeOK'
    <2>1. life' \in [Jobs -> Lives]
      BY <1>5 DEF IInv, TypeOK, Lives
    <2>2. queue' \in [Workers -> Seq(Jobs)]
      BY <1>1, <1>5 DEF IInv, TypeOK
    <2>3. /\ pc' \in [Threads -> ClientPc \cup WorkerPc]
          /\ \A u \in Clients : pc'[u] \in ClientPc
          /\ \A v \in Workers : pc'[v] \in WorkerPc
      BY <1>1, <1>5, <1>6, <1>8 DEF IInv, TypeOK, ClientPc, Clearing, Threads
    <2> QED
      BY <1>5, <1>7, <1>12, <2>1, <2>2, <2>3 DEF IInv, TypeOK
  <1>14. ClearsBalanced'
    <2>1. {u \in Clients : pc'[u] \in Clearing} = {u \in Clients : pc[u] \in Clearing}
      BY <1>5, <1>8 DEF Clearing
    <2> QED
      BY <1>5, <2>1 DEF IInv, ClearsBalanced
  <1>15. QueueOK'
    <2>1. /\ queue'[w] = <<>>
          /\ \A v \in Workers : v # w => queue'[v] = queue[v]
      BY <1>1, <1>5 DEF IInv, TypeOK
    <2>2. \A v \in Workers : v # w => \A i \in 1 .. Len(queue[v]) :
              queue[v][i] \in Jobs /\ queue[v][i] \notin J
      BY <1>1 DEF IInv, TypeOK, QueueOK, J, JobsIn
    <2>3. \A v \in Workers : \A i \in 1 .. Len(queue'[v]) : v # w
      BY <2>1
    <2> QED
      BY <1>9, <2>1, <2>2, <2>3 DEF IInv, QueueOK
  <1>16. CallOK'
    <2>1. \A v \in Workers : call[v] \notin J
      BY <1>3, JobsAssumption DEF IInv, CallOK
    <2> QED
      BY <1>5, <1>8, <1>9, <2>1 DEF IInv, CallOK, Executing
  <1>17. ArgOK'
    <2>1. \A u \in Threads : pc'[u] \in Inserting <=> pc[u] \in Inserting
      BY <1>5, <1>8 DEF Inserting
    <2> QED
      BY <1>3, <1>5, <1>9, <2>1 DEF IInv, ArgOK
  <1>18. EndingOK'
    <2>1. ~Ended /\ ~Ended'
      BY <1>5, <1>8, OwnerAssumption DEF IInv, EndingOK, Ended, Destructing, Clearing
    <2> QED
      BY <1>5, <1>8, <2>1, OwnerAssumption DEF IInv, EndingOK, Clearing, Destructing
  <1> QED
    BY <1>12, <1>13, <1>14, <1>15, <1>16, <1>17, <1>18 DEF IInv

-----------------------------------------------------------------------------
(* The theorems                                                            *)

LEMMA InitIInv == Init => IInv
  <1> SUFFICES ASSUME Init PROVE IInv
    OBVIOUS
  <1> USE DEF Init
  <1>1. \A j \in Jobs : life[j] = "new"
    OBVIOUS
  <1>2. /\ \A w \in Workers : queue[w] = <<>> /\ call[w] = NoJob /\ pc[w] = "loop"
        /\ \A t \in Clients : pc[t] = "idle"
    BY DisjointAssumption DEF Threads
  <1>3. TypeOK
    <2>1. /\ pc \in [Threads -> ClientPc \cup WorkerPc]
          /\ \A u \in Clients : pc[u] \in ClientPc
          /\ \A w \in Workers : pc[w] \in WorkerPc
      BY <1>2 DEF ClientPc, WorkerPc, Threads
    <2>2. queue \in [Workers -> Seq(Jobs)] /\ life \in [Jobs -> Lives]
      BY DEF Lives
    <2> QED
      BY <2>1, <2>2, WorkersType DEF TypeOK
  <1>4. ClearsBalanced
    <2>1. {t \in Clients : pc[t] \in Clearing} = {}
      BY <1>2 DEF Clearing
    <2> QED
      BY <2>1, FS_EmptySet DEF ClearsBalanced
  <1>5. QueueOK
    BY <1>2 DEF QueueOK
  <1>6. CallOK
    BY <1>2 DEF CallOK, Executing, Inserting
  <1>7. ArgOK
    BY <1>1, <1>2 DEF ArgOK, Inserting, Threads
  <1>8. CountExact
    <2>1. Counted = {}
      BY <1>1 DEF Counted
    <2> QED
      BY <2>1, FS_EmptySet DEF CountExact
  <1>9. EndingOK
    BY <1>2 DEF EndingOK, Ended, Destructing
  <1> QED
    BY <1>3, <1>4, <1>5, <1>6, <1>7, <1>8, <1>9 DEF IInv

LEMMA NextIInv == IInv /\ [Next]_vars => IInv'
  <1> SUFFICES ASSUME IInv, [Next]_vars PROVE IInv'
    OBVIOUS
  <1>1. CASE UNCHANGED vars
    BY <1>1
    DEF vars, shared, IInv, TypeOK, ClearsBalanced, QueueOK, CallOK, Executing, ArgOK,
        CountExact, Counted, EndingOK, Ended
  <1>2. ASSUME NEW t \in Threads, Insert(t) PROVE IInv'
    <2>1. ASSUME NEW j \in Jobs, InsertRefused(t, j) PROVE IInv'
      BY <2>1, InsertRefusedStep
    <2>2. ASSUME NEW j \in Jobs, InsertEnter(t, j) PROVE IInv'
      BY <2>2, InsertEnterStep
    <2>3. CASE InsertPick(t) \/ InsertAdvance(t)
      BY <2>3, InsertPickStep
    <2>4. CASE InsertPush(t)
      BY <2>4, InsertPushStep
    <2>5. CASE InsertThrow(t)
      BY <2>5, InsertThrowStep
    <2> QED
      BY <1>2, <2>1, <2>2, <2>3, <2>4, <2>5 DEF Insert
  <1>3. ASSUME NEW w \in Workers, Worker(w) PROVE IInv'
    <2>1. w \in Threads
      BY DEF Threads
    <2>2. CASE TakeOwn(w)
      BY <2>2, TakeOwnStep
    <2>3. CASE OwnEmpty(w)
      BY <2>1, <2>3, MoveStep DEF OwnEmpty
    <2>4. ASSUME NEW v \in Workers, Steal(w, v) PROVE IInv'
      BY <2>4, StealStep
    <2>5. ASSUME NEW v \in Workers, StealNothing(w, v) PROVE IInv'
      BY <2>1, <2>5, MoveStep DEF StealNothing
    <2>6. CASE CheckShutdown(w)
      BY <2>1, <2>6, MoveStep DEF CheckShutdown
    <2>7. CASE JobReturns(w)
      BY <2>7, JobReturnsStep
    <2>8. CASE Retire(w)
      BY <2>8, RetireStep
    <2> QED
      BY <1>3, <2>2, <2>3, <2>4, <2>5, <2>6, <2>7, <2>8 DEF Worker
  <1>4. ASSUME NEW t \in Clients, Client(t) PROVE IInv'
    <2>1. t \in Threads
      BY DEF Threads
    <2>2. CASE Clear(t)
      BY <2>2, ClearStep
    <2>3. CASE Wait(t)
      BY <2>1, <2>3, MoveStep DEF Wait
    <2>4. CASE ClearErase(t)
      BY <2>4, ClearEraseStep
    <2>5. CASE ClearDrain(t)
      BY <2>5, ClearDrainStep
    <2>6. CASE ClearRelease(t)
      BY <2>6, ClearReleaseStep
    <2>7. CASE WaitReturns(t) \/ WaitExpires(t)
      <3>1. ~destroying
        BY <2>7 DEF IInv, EndingOK, WaitReturns, WaitExpires, Clearing, Destructing
      <3> QED
        BY <2>1, <2>7, <3>1, MoveStep DEF WaitReturns, WaitExpires
    <2>8. CASE Shutdown \/ Join
      BY <2>8, ShutdownStep
    <2> QED
      BY <1>4, <2>2, <2>3, <2>4, <2>5, <2>6, <2>7, <2>8 DEF Client, Continue
  <1>5. CASE Destroy
    BY <1>5, DestroyStep
  <1>6. CASE Gone
    BY <1>1, <1>6 DEF Gone
  <1> QED
    BY <1>1, <1>2, <1>3, <1>4, <1>5, <1>6 DEF Next

THEOREM Invariance == Spec => []IInv
  BY InitIInv, NextIInv, PTL DEF Spec

\* next_worker_ is a valid index into workers_, insert()'s copy of it too, and
\* neither counter is ever negative.
THEOREM TypeCorrect == Spec => []TypeOK
  <1>1. IInv => TypeOK
    BY DEF IInv
  <1> QED
    BY <1>1, Invariance, PTL

\* The counter that wait(), wait_until(), poll() and clear() rely on is exact.
THEOREM CountIsExact == Spec => []CountExact
  <1>1. IInv => CountExact
    BY DEF IInv
  <1> QED
    BY <1>1, Invariance, PTL

\* Owners and thieves never hold the same job.
THEOREM JobInOnePlace == Spec => []OnePlace
  <1>1. IInv => OnePlace
    <2> SUFFICES ASSUME IInv PROVE OnePlace
      OBVIOUS
    <2>1. \A w \in Workers : queue[w] \in Seq(Jobs) /\ DOMAIN queue[w] = 1 .. Len(queue[w])
      BY DEF IInv, TypeOK
    <2>2. \A v, w \in Workers : \A i \in DOMAIN queue[v] : queue[v][i] # call[w]
      <3> TAKE v, w \in Workers
      <3> TAKE i \in DOMAIN queue[v]
      <3>1. queue[v][i] \in Jobs /\ life[queue[v][i]] = "queued"
        BY <2>1 DEF IInv, QueueOK
      <3> QED
        BY <3>1, JobsAssumption DEF IInv, CallOK
    <2>3. \A v, w \in Workers : \A i \in DOMAIN queue[v], k \in DOMAIN queue[w] :
              queue[v][i] = queue[w][k] => v = w /\ i = k
      BY <2>1 DEF IInv, QueueOK
    <2>4. \A v, w \in Workers : call[v] = call[w] /\ v # w => call[v] = NoJob
      BY DEF IInv, CallOK
    <2> QED
      BY <2>2, <2>3, <2>4 DEF OnePlace
  <1> QED
    BY <1>1, Invariance, PTL

\* The pool keeps account of its jobs: valid indexes, an exact counter, and
\* every job in one place.
THEOREM JobsAreAccounted == Spec => []JobsAccounted
  <1>1. TypeOK /\ CountExact /\ OnePlace => JobsAccounted
    BY DEF JobsAccounted
  <1> QED
    BY <1>1, TypeCorrect, CountIsExact, JobInOnePlace, PTL

\* No job is stranded when the workers leave.
THEOREM WorkersLeaveDrained == Spec => []DrainedAtExit
  <1>1. IInv => DrainedAtExit
    <2> SUFFICES ASSUME IInv, NEW w \in Workers, pc[w] = "exited", NEW j \in Jobs
                 PROVE  life[j] \in {"new", "done", "discarded", "leaked"}
      BY DEF DrainedAtExit
    <2>1. Ended
      BY DEF IInv, EndingOK, Ended, Destructing
    <2>2. Counted = {}
      BY <2>1, ZeroMeansNone DEF IInv, EndingOK
    <2>3. life[j] # "arriving"
      BY <2>1, InsertKeepsOpen DEF IInv, ArgOK
    <2>4. life[j] \in Lives /\ j \notin Counted
      BY <2>2 DEF IInv, TypeOK
    <2> QED
      BY <2>3, <2>4 DEF Lives, Counted
  <1> QED
    BY <1>1, Invariance, PTL

\* clear() and wait() return only at an instant when the pool is quiet.
THEOREM WaitIsSound == Spec => WaitReturnsQuiet
  <1> DEFINE Quiet == \A t \in Clients :
                         \/ pc[t] = "drain" /\ pc'[t] = "release"
                         \/ pc[t] = "wait" /\ pc'[t] = "idle"
                         => Pending = {}
  <1>1. IInv /\ [Next]_vars => [Quiet]_vars
    <2> SUFFICES ASSUME IInv, Next, NEW t \in Clients,
                        \/ pc[t] = "drain" /\ pc'[t] = "release"
                        \/ pc[t] = "wait" /\ pc'[t] = "idle"
                 PROVE  Pending = {}
      OBVIOUS
    <2>1. unfinished_jobs_ = 0
      <3>1. t \notin Workers /\ t \in Threads /\ pc \in [Threads -> ClientPc \cup WorkerPc]
        BY DisjointAssumption DEF IInv, TypeOK, Threads
      <3>2. ASSUME NEW u \in Threads, Insert(u) PROVE FALSE
        BY <3>1, <3>2 DEF Insert, InsertRefused, InsertEnter, InsertPick, InsertAdvance,
              InsertPush, InsertThrow, Goto, MayCall, Caller
      <3>3. ASSUME NEW w \in Workers, Worker(w) PROVE FALSE
        BY <3>1, <3>3 DEF Worker, TakeOwn, OwnEmpty, Steal, StealNothing, CheckShutdown,
              JobReturns, Retire, Take, Goto
      <3>4. ASSUME NEW u \in Clients, Client(u) PROVE unfinished_jobs_ = 0
        <4>1. CASE ClearDrain(u) \/ WaitReturns(u)
          BY <4>1 DEF ClearDrain, WaitReturns, poll
        <4>2. CASE Clear(u) \/ Wait(u) \/ ClearErase(u) \/ ClearRelease(u) \/ WaitExpires(u)
          BY <3>1, <4>2 DEF Clear, StartClear, Wait, ClearErase, ClearRelease,
                WaitExpires, Goto
        <4>3. CASE Shutdown \/ Join
          BY <3>1, <4>3 DEF Shutdown, Join, Goto
        <4> QED
          BY <3>4, <4>1, <4>2, <4>3 DEF Client, Continue
      <3>5. CASE Destroy
        BY <3>1, <3>5 DEF Destroy, StartClear, Goto
      <3>6. CASE Gone
        BY <3>6 DEF Gone, vars
      <3> QED
        BY <3>2, <3>3, <3>4, <3>5, <3>6 DEF Next
    <2>2. Counted = {}
      BY <2>1, ZeroMeansNone DEF IInv
    <2> QED
      BY <2>2 DEF Counted, Pending
  <1> QED
    BY <1>1, Invariance, PTL DEF WaitReturnsQuiet, Spec
=============================================================================
