---------------------------- MODULE PosixSignal -----------------------------
(***************************************************************************)
(* The channel that turns signals into messages (signal.hpp, signal.cpp,   *)
(* on Linux).  The constructor blocks its signals, and SIGUSR1, in the     *)
(* calling thread; threads started afterwards inherit that.  A blocked     *)
(* signal stays pending, once however often it is sent, until              *)
(* sigtimedwait() or sigwait() takes it; one that some thread does not     *)
(* block ends the process.                                                 *)
(*                                                                         *)
(* Main makes and destroys the channel.  Worker is started by it and does  *)
(* what a thread of Dispatch does: it waits, stops if the channel is       *)
(* closed, and reads; it has ended before the channel is destroyed.        *)
(***************************************************************************)
EXTENDS Integers, SequencesExt, FiniteSets

CONSTANTS List,      \* the signals the channel is made for
          Usr1,      \* SIGUSR1
          MaxSent    \* how often a signal is sent

ASSUME SignalAssumptions == List \in Seq(STRING) /\ Usr1 \in STRING /\ MaxSent \in Nat

Main == "main"
Worker == "worker"

VARIABLES mask,      \* the signals each thread blocks
          oldmask_,
          process,   \* pending for the process
          thread,    \* pending for each thread
          queue_, open_,
          main, worker,  \* what the threads do next
          snapshot,  \* the destructor's set of pending signals
          left,      \* how often it has still to wait for one
          killed,    \* the process was ended by a signal
          sent, reads, dropped   \* of each signal: sent while it was not pending; read; taken after close()

signalVars == <<mask, oldmask_, process, thread, queue_, open_, main, worker, snapshot, left, killed, sent, reads, dropped>>

signals_ == Append(List, Usr1)
Asked == Range(List)
Signals == Range(signals_)
Counts == <<sent, reads, dropped>>

SignalInit ==
    /\ mask = [t \in {Main, Worker} |-> {}] /\ oldmask_ = {}
    /\ process = {} /\ thread = mask
    /\ queue_ = <<>> /\ open_ = FALSE
    /\ main = "new" /\ worker = "none"
    /\ snapshot = {} /\ left = 0 /\ killed = FALSE
    /\ sent = [s \in Signals |-> 0] /\ reads = sent /\ dropped = sent

-----------------------------------------------------------------------------
(* The system                                                              *)

\* Threads that exist.
Alive == {Main} \cup IF worker \in {"none", "ended"} THEN {} ELSE {Worker}

PendingFor(t) == process \cup thread[t]

Send(s) ==
    /\ ~killed /\ sent[s] < MaxSent /\ main \in {"out", "join"}
    /\ IF \E t \in Alive : s \notin mask[t]
       THEN killed' = TRUE /\ UNCHANGED <<process, sent>>
       ELSE /\ process' = process \cup {s}
            /\ sent' = IF s \in process THEN sent ELSE [sent EXCEPT ![s] = @ + 1]
            /\ UNCHANGED killed
    /\ UNCHANGED <<mask, oldmask_, thread, queue_, open_, main, worker, snapshot, left, reads, dropped>>

\* A signal is taken from the thread or from the process.
Take(t, s) ==
    IF s \in thread[t]
    THEN thread' = [thread EXCEPT ![t] = @ \ {s}] /\ UNCHANGED process
    ELSE process' = process \ {s} /\ UNCHANGED thread

\* Signals that become unblocked while they are pending act at once.
SetMask(t, m) ==
    /\ mask' = [mask EXCEPT ![t] = m]
    /\ killed' = (killed \/ PendingFor(t) \ m # {})

-----------------------------------------------------------------------------
(* The channel                                                             *)

\* Mutant: leaves SIGUSR1 out.
ConstructWithout ==
    /\ main = "new" /\ main' = "out"
    /\ oldmask_' = mask[Main] /\ SetMask(Main, mask[Main] \cup Asked)
    /\ queue_' = <<>> /\ open_' = TRUE
    /\ UNCHANGED <<process, thread, worker, snapshot, left, Counts>>

Construct ==
    /\ main = "new" /\ main' = "out"
    /\ oldmask_' = mask[Main] /\ SetMask(Main, mask[Main] \cup Signals)
    /\ queue_' = <<>> /\ open_' = TRUE
    /\ UNCHANGED <<process, thread, worker, snapshot, left, Counts>>

\* Adding the channel to a Dispatch starts a thread.
StartWorker ==
    /\ main = "out" /\ worker = "none" /\ worker' = "wait"
    /\ mask' = [mask EXCEPT ![Worker] = mask[Main]]
    /\ UNCHANGED <<oldmask_, process, thread, queue_, open_, main, snapshot, left, killed, Counts>>

\* raise() sends to the thread that calls it.
close(t) ==
    /\ open_' = FALSE
    /\ IF ~open_ THEN UNCHANGED <<thread, killed>>
       ELSE IF Usr1 \in mask[t] THEN thread' = [thread EXCEPT ![t] = @ \cup {Usr1}] /\ UNCHANGED killed
       ELSE killed' = TRUE /\ UNCHANGED thread

\* Each thread does what it does at a step, and goes on at another.
At(t, step) == IF t = Main THEN main = step ELSE worker = step
Goto(t, step) == IF t = Main THEN main' = step /\ UNCHANGED worker ELSE worker' = step /\ UNCHANGED main

\* do_wait_for() before the system call.
WaitBegins(t) ==
    /\ At(t, "wait")
    /\ Goto(t, IF ~open_ \/ queue_ # <<>> THEN "ready" ELSE "sigtimedwait")
    /\ UNCHANGED <<mask, oldmask_, process, thread, queue_, open_, snapshot, left, killed, Counts>>

\* sigtimedwait() takes a signal: a message, unless the channel is closed.
WaitTakes(t) ==
    /\ At(t, "sigtimedwait") /\ Goto(t, "ready")
    /\ \E s \in PendingFor(t) \cap Signals :
          /\ Take(t, s)
          /\ IF open_ THEN queue_' = Append(queue_, s) /\ UNCHANGED dropped
             ELSE dropped' = [dropped EXCEPT ![s] = @ + 1] /\ UNCHANGED queue_
    /\ UNCHANGED <<mask, oldmask_, open_, snapshot, left, killed, sent, reads>>

\* The time is up.
WaitTimesOut(t) ==
    /\ At(t, "sigtimedwait") /\ PendingFor(t) \cap Signals = {}
    /\ Goto(t, IF open_ THEN "wait" ELSE "ready")
    /\ UNCHANGED <<mask, oldmask_, process, thread, queue_, open_, snapshot, left, killed, Counts>>

read(t) ==
    /\ At(t, "ready") /\ open_ /\ queue_ # <<>> /\ Goto(t, "wait")
    /\ queue_' = Tail(queue_)
    /\ reads' = [reads EXCEPT ![Head(queue_)] = @ + 1]
    /\ UNCHANGED <<mask, oldmask_, process, thread, open_, snapshot, left, killed, sent, dropped>>

\* The thread of a Dispatch finds the channel closed and leaves its fault,
\* which calls close() again.
WorkerEnds ==
    /\ worker = "ready" /\ ~open_ /\ worker' = "ended"
    /\ close(Worker)
    /\ UNCHANGED <<mask, oldmask_, process, queue_, main, snapshot, left, Counts>>

\* The handler throws: the fault closes the channel, in this thread.
WorkerThrows ==
    /\ worker = "ready" /\ open_ /\ worker' = "ended"
    /\ close(Worker)
    /\ UNCHANGED <<mask, oldmask_, process, queue_, main, snapshot, left, Counts>>

MainCloses ==
    /\ main = "out" /\ main' = IF worker = "none" THEN "destroy" ELSE "join"
    /\ close(Main)
    /\ UNCHANGED <<mask, oldmask_, process, queue_, worker, snapshot, left, Counts>>

Joined ==
    /\ main = "join" /\ worker = "ended" /\ main' = "destroy"
    /\ UNCHANGED <<mask, oldmask_, process, thread, queue_, open_, worker, snapshot, left, killed, Counts>>

\* Mutant: waits for every signal of the list.
DestroyBeginsAll ==
    /\ main = "destroy" /\ main' = "sigwait"
    /\ snapshot' = PendingFor(Main) /\ left' = Len(signals_)
    /\ UNCHANGED <<mask, oldmask_, process, thread, queue_, open_, worker, killed, Counts>>

\* ~PosixSignal(): sigpending(), then a sigwait() for as many signals as are
\* both in the list and in the snapshot, and the old mask.
DestroyBegins ==
    /\ main = "destroy" /\ main' = "sigwait"
    /\ snapshot' = PendingFor(Main)
    /\ left' = Cardinality({i \in DOMAIN signals_ : signals_[i] \in PendingFor(Main)})
    /\ UNCHANGED <<mask, oldmask_, process, thread, queue_, open_, worker, killed, Counts>>

DestroyTakes ==
    /\ main = "sigwait" /\ left > 0
    /\ \E s \in PendingFor(Main) \cap snapshot :
          Take(Main, s) /\ dropped' = [dropped EXCEPT ![s] = @ + 1]
    /\ left' = left - 1
    /\ UNCHANGED <<mask, oldmask_, queue_, open_, main, worker, snapshot, killed, sent, reads>>

DestroyEnds ==
    /\ main = "sigwait" /\ left = 0 /\ main' = "gone"
    /\ SetMask(Main, oldmask_)
    /\ UNCHANGED <<oldmask_, process, thread, queue_, open_, worker, snapshot, left, Counts>>

-----------------------------------------------------------------------------

WorkerSteps ==
    ~killed /\ (WaitBegins(Worker) \/ WaitTakes(Worker) \/ WaitTimesOut(Worker) \/ read(Worker) \/ WorkerEnds)

MainProceeds == ~killed /\ (Joined \/ DestroyBegins \/ DestroyTakes \/ DestroyEnds)

SignalNext ==
    \/ \E s \in Asked : Send(s)
    \/ ~killed /\ (Construct \/ StartWorker \/ MainCloses \/ WorkerThrows)
    \/ WorkerSteps \/ MainProceeds

SignalSpec == SignalInit /\ [][SignalNext]_signalVars

\* Threads run, and sigtimedwait() has a limit.
SignalFairness == WF_signalVars(WorkerSteps) /\ WF_signalVars(MainProceeds)

-----------------------------------------------------------------------------
(* Properties                                                              *)

PendingCount(s) == IF s \in process THEN 1 ELSE 0
QueuedCount(s) == Cardinality({i \in DOMAIN queue_ : queue_[i] = s})

(* From the constructor to the close, whatever the order of sends, waits   *)
(* and reads: a signal that was sent has been read, is in the queue or is  *)
(* still pending, exactly once.                                            *)
SignalsKept ==
    open_ /\ ~killed => \A s \in Signals : sent[s] = reads[s] + QueuedCount(s) + PendingCount(s)

(* Neither a signal of the list, nor the SIGUSR1 that close() raises in    *)
(* its own thread, ends the process: it is blocked in the thread that made *)
(* the channel and in those it started, which are all there are here, and  *)
(* the destructor takes what is pending before it restores the mask.       *)
NotKilled == ~killed

(* A signal that comes while the channel is open is taken from the system, *)
(* if a thread goes on waiting for it; SignalsKept says that it is read.   *)
SignalsRead == \A s \in Signals : (open_ /\ worker \notin {"none", "ended"} /\ s \in process) ~> (s \notin process \/ ~open_)

(* After close() the thread that waits, in sigtimedwait() or elsewhere,    *)
(* ends, and the destructor returns: no sigwait() waits for a signal that  *)
(* was pending before and is so no more.                                   *)
ClosedAndGone == main \in {"join", "destroy"} ~> main = "gone"

(* Signals of an open channel are neither lost nor doubled nor fatal.      *)
SignalsSafe == SignalsKept /\ NotKilled

(* Signals are read while the channel is open, and when it is closed both  *)
(* the waiting thread and the destructor come to their end.                *)
SignalsServed == SignalsRead /\ ClosedAndGone
=============================================================================
