------------------------------ MODULE Dispatch ------------------------------
(***************************************************************************)
(* The dispatch controller of channel.hpp and channel.cpp.                 *)
(*                                                                         *)
(* The main thread adds channels to the set, runs the dispatch loop, stops *)
(* it and destroys it.  Each asynchronous channel has a thread of its own, *)
(* which waits, reads and calls the handler; synchronous channels are      *)
(* polled by run().  A channel that closes, or whose handler throws,       *)
(* leaves a fault in faults_, which some later run() returns.  Other       *)
(* threads write to the channels and close them at any time.               *)
(*                                                                         *)
(* A channel is reduced to what the controller uses of it: whether it is   *)
(* open and how many messages wait in it; the channel modules model the    *)
(* rest.  Sleeping between scans is timing only and is left out.           *)
(***************************************************************************)
EXTENDS Integers, Sequences, FiniteSets

CONSTANTS
    Chans,          \* the channels, standing for their addresses
    SyncSets,       \* the sets of channels that may be the synchronous ones
    Address,        \* the order in which the std::map holds them
    NoChan,         \* a null channel pointer
    MaxMessages,    \* bound on the messages written to one channel
    MaxAdds,        \* bound on the times one address is added
    MayDestroy      \* the kinds of channels that are destroyed, also while they
                    \* are in the set

ASSUME ChansAssumption ==
    IsFiniteSet(Chans) /\ SyncSets \subseteq SUBSET Chans /\ NoChan \notin Chans
ASSUME AddressAssumption ==
    /\ Address \in [Chans -> Nat]
    /\ \A c, d \in Chans : Address[c] = Address[d] => c = d
ASSUME BoundsAssumption ==
    MaxMessages \in Nat /\ MaxAdds \in Nat /\ MayDestroy \subseteq {"sync", "async"}

VARIABLES
    tasks_,     \* the keys of the map; c.dispatch_ is set exactly for these
    faults_,    \* the deque of results not yet returned
    mpc,        \* where the main thread is
    todo,       \* channels the loop over tasks_ has not reached
    current,    \* the channel run() is handling, or drop_channel() is erasing
    stopping,   \* is run() being called by stop()?
    dying,      \* is stop() being called by the destructor?
    tpc,        \* where each channel's thread is
    open,       \* ! c.is_closed()
    pending,    \* messages waiting in each channel
    written,    \* messages ever written to each channel (bounded)
    sync,       \* the channels whose is_synchronous() is true
    alive,      \* has the channel been constructed and not destroyed?
    added,      \* history: adds of each channel, less those withdrawn by
                \* destroying it
    reported,   \* history: how many results named it
    threw       \* history: has its handler thrown since it was last added?

mainVars == <<tasks_, mpc, todo, current, stopping, dying>>
chanVars == <<open, pending, written, alive, sync>>
history == <<added, reported, threw>>
vars == <<mainVars, faults_, tpc, chanVars, history>>

Kind(c) == IF c \in sync THEN "sync" ELSE "async"
Results == [channel : Chans, error : BOOLEAN]

\* The places of a channel's thread: "throwing" is the catch clause.
ThreadPc ==
    {"none", "wait", "check", "read", "handler", "closing", "throwing", "ended"}
MainPc == {"out", "close", "scan", "check", "call", "faults", "join", "drop", "gone"}

TypeOK ==
    /\ tasks_ \subseteq Chans
    /\ faults_ \in Seq(Results)
    /\ mpc \in MainPc
    /\ todo \subseteq tasks_
    /\ current \in Chans \cup {NoChan}
    /\ stopping \in BOOLEAN
    /\ dying \in BOOLEAN
    /\ tpc \in [Chans -> ThreadPc]
    /\ open \in [Chans -> BOOLEAN]
    /\ pending \in [Chans -> 0 .. MaxMessages]
    /\ written \in [Chans -> 0 .. MaxMessages]
    /\ alive \in [Chans -> BOOLEAN]
    /\ sync \in SyncSets
    /\ added \in [Chans -> 0 .. MaxAdds]
    /\ reported \in [Chans -> Nat]
    /\ threw \in [Chans -> BOOLEAN]

Init ==
    /\ tasks_ = {}
    /\ faults_ = <<>>
    /\ mpc = "out"
    /\ todo = {}
    /\ current = NoChan
    /\ stopping = FALSE
    /\ dying = FALSE
    /\ tpc = [c \in Chans |-> "none"]
    /\ open = [c \in Chans |-> TRUE]
    /\ pending = [c \in Chans |-> 0]
    /\ written = [c \in Chans |-> 0]
    /\ alive = [c \in Chans |-> TRUE]
    /\ sync \in SyncSets
    /\ added = [c \in Chans |-> 0]
    /\ reported = [c \in Chans |-> 0]
    /\ threw = [c \in Chans |-> FALSE]

\* run() keeps faults_mutex_ while drop_channel() joins a thread.
MutexFree == mpc # "join"

\* The first of a set of channels in the map's order.
First(S) == CHOOSE c \in S : \A d \in S : Address[c] <= Address[d]

\* poll() and wait(): closed or ready for reading.
Ready(c) == ~open[c] \/ pending[c] > 0

\* read() of a message channel: false if it is closed or empty.
CanRead(c) == open[c] /\ pending[c] > 0

\* Mutant: the fault is recorded but the channel is left open.
SetFaultOpen(c, e) ==
    /\ faults_' = Append(faults_, [channel |-> c, error |-> e])
    /\ UNCHANGED open

set_fault(c, e) ==
    /\ faults_' = Append(faults_, [channel |-> c, error |-> e])
    /\ open' = [open EXCEPT ![c] = FALSE]

-----------------------------------------------------------------------------
(* Other threads                                                           *)

Write(c) ==
    /\ alive[c] /\ open[c]
    /\ written[c] < MaxMessages
    /\ written' = [written EXCEPT ![c] = @ + 1]
    /\ pending' = [pending EXCEPT ![c] = @ + 1]
    /\ UNCHANGED <<mainVars, faults_, tpc, open, alive, sync, history>>

Close(c) ==
    /\ alive[c] /\ open[c]
    /\ open' = [open EXCEPT ![c] = FALSE]
    /\ UNCHANGED <<mainVars, faults_, tpc, pending, written, alive, sync, history>>

-----------------------------------------------------------------------------
(* The thread of an asynchronous channel                                   *)

ThreadGoto(c, label) == tpc' = [tpc EXCEPT ![c] = label]

ThreadWait(c) ==
    /\ tpc[c] = "wait"
    /\ Ready(c)
    /\ ThreadGoto(c, "check")
    /\ UNCHANGED <<mainVars, faults_, chanVars, history>>

ThreadCheck(c) ==
    /\ tpc[c] = "check"
    /\ ThreadGoto(c, IF open[c] THEN "read" ELSE "closing")
    /\ UNCHANGED <<mainVars, faults_, chanVars, history>>

\* if (c.read(t)) f(t); a channel of no values calls the handler at once,
\* whether or not there is anything by then.
ThreadRead(c) ==
    /\ tpc[c] = "read"
    /\ \/ /\ CanRead(c)
          /\ pending' = [pending EXCEPT ![c] = @ - 1]
          /\ ThreadGoto(c, "handler")
       \/ /\ ~CanRead(c)
          /\ ThreadGoto(c, "wait") \/ ThreadGoto(c, "handler")
          /\ UNCHANGED pending
    /\ UNCHANGED <<mainVars, faults_, open, written, alive, sync, history>>

ThreadHandlerReturns(c) ==
    /\ tpc[c] = "handler"
    /\ ThreadGoto(c, "wait")
    /\ UNCHANGED <<mainVars, faults_, chanVars, history>>

ThreadHandlerThrows(c) ==
    /\ tpc[c] = "handler"
    /\ threw' = [threw EXCEPT ![c] = TRUE]
    /\ ThreadGoto(c, "throwing")
    /\ UNCHANGED <<mainVars, faults_, chanVars, added, reported>>

\* Mutant: the thread ends after an exception without leaving a fault.
ThreadFaultSilent(c) ==
    /\ tpc[c] \in {"closing", "throwing"}
    /\ MutexFree
    /\ IF tpc[c] = "closing"
       THEN set_fault(c, FALSE)
       ELSE open' = [open EXCEPT ![c] = FALSE] /\ UNCHANGED faults_
    /\ ThreadGoto(c, "ended")
    /\ UNCHANGED <<mainVars, pending, written, alive, sync, history>>

\* Mutant: an exception from a handler whose channel is already closed is
\* reported as a close.
ThreadFaultMasked(c) ==
    /\ tpc[c] \in {"closing", "throwing"}
    /\ MutexFree
    /\ set_fault(c, tpc[c] = "throwing" /\ open[c])
    /\ ThreadGoto(c, "ended")
    /\ UNCHANGED <<mainVars, pending, written, alive, sync, history>>

ThreadFault(c) ==
    /\ tpc[c] \in {"closing", "throwing"}
    /\ MutexFree
    /\ set_fault(c, tpc[c] = "throwing")
    /\ ThreadGoto(c, "ended")
    /\ UNCHANGED <<mainVars, pending, written, alive, sync, history>>

Thread(c) ==
    \/ ThreadWait(c) \/ ThreadCheck(c) \/ ThreadRead(c)
    \/ ThreadHandlerReturns(c) \/ ThreadHandlerThrows(c) \/ ThreadFault(c)

-----------------------------------------------------------------------------
(* The main thread                                                         *)

\* add() and add_channel(); adding a member again throws and changes nothing.
Add(c) ==
    /\ mpc = "out"
    /\ alive[c]
    /\ c \notin tasks_
    /\ added[c] < MaxAdds
    /\ tasks_' = tasks_ \cup {c}
    /\ added' = [added EXCEPT ![c] = @ + 1]
    /\ threw' = [threw EXCEPT ![c] = FALSE]
    /\ ThreadGoto(c, IF c \in sync THEN "none" ELSE "wait")
    /\ UNCHANGED <<mpc, todo, current, stopping, dying, faults_, chanVars, reported>>

\* The head of run()'s loop.
StartScan ==
    /\ mpc' = "scan"
    /\ todo' = tasks_

Run ==
    /\ mpc = "out"
    /\ tasks_ # {}
    /\ StartScan
    /\ UNCHANGED <<tasks_, current, stopping, dying, faults_, tpc, chanVars, history>>

\* An empty set: run() returns at once, with an empty result.
RunEmpty ==
    /\ mpc = "out"
    /\ tasks_ = {}
    /\ UNCHANGED vars

ScanDone ==
    /\ mpc = "scan"
    /\ todo = {}
    /\ mpc' = "faults"
    /\ UNCHANGED <<tasks_, todo, current, stopping, dying, faults_, tpc, chanVars, history>>

\* One turn of the loop: only a synchronous channel that is ready is handled.
ScanPoll ==
    /\ mpc = "scan"
    /\ todo # {}
    /\ LET c == First(todo) IN
       /\ todo' = todo \ {c}
       /\ IF c \in sync /\ Ready(c)
          THEN current' = c /\ mpc' = "check"
          ELSE UNCHANGED <<current, mpc>>
    /\ UNCHANGED <<tasks_, stopping, dying, faults_, tpc, chanVars, history>>

\* Leave the loop over tasks_.
BreakScan == mpc' = "faults" /\ todo' = {} /\ current' = NoChan

SyncClosed ==
    /\ mpc = "check"
    /\ ~open[current]
    /\ set_fault(current, FALSE)
    /\ BreakScan
    /\ UNCHANGED <<tasks_, stopping, dying, tpc, pending, written, alive, sync, history>>

SyncOpen ==
    /\ mpc = "check"
    /\ open[current]
    /\ mpc' = "call"
    /\ UNCHANGED <<tasks_, todo, current, stopping, dying, faults_, tpc, chanVars, history>>

\* task->handler() takes what there is to read.
Takes == pending' = IF CanRead(current) THEN [pending EXCEPT ![current] = @ - 1] ELSE pending

\* It returns, whether or not there was anything.
SyncHandlerReturns ==
    /\ mpc = "call"
    /\ Takes
    /\ mpc' = "scan" /\ current' = NoChan
    /\ UNCHANGED <<tasks_, todo, stopping, dying, faults_, tpc, open, written, alive, sync, history>>

\* It throws, in a channel of no values also if there was nothing.
SyncHandlerThrows ==
    /\ mpc = "call"
    /\ Takes
    /\ threw' = [threw EXCEPT ![current] = TRUE]
    /\ set_fault(current, TRUE)
    /\ BreakScan
    /\ UNCHANGED <<tasks_, stopping, dying, tpc, written, alive, sync, added, reported>>

\* Nothing to report: sleep or yield, and scan again.
NoFault ==
    /\ mpc = "faults"
    /\ faults_ = <<>>
    /\ StartScan
    /\ UNCHANGED <<tasks_, current, stopping, dying, faults_, tpc, chanVars, history>>

\* Mutant: stop() calls run() once.
ReturnOnce(S) ==
    /\ stopping' = FALSE
    /\ mpc' = (IF dying THEN "gone" ELSE "out")
    /\ todo' = {}

\* Where run() returns to when the set is now S: its caller, or stop(), which
\* calls it again until the set is empty.
Return(S) ==
    /\ stopping' = (stopping /\ S # {})
    /\ IF stopping /\ S # {}
       THEN mpc' = "scan" /\ todo' = S
       ELSE mpc' = (IF dying THEN "gone" ELSE "out") /\ todo' = {}

\* Pop the front fault; drop_channel() erases its task, if it has one.
PopFault ==
    /\ mpc = "faults"
    /\ faults_ # <<>>
    /\ LET c == Head(faults_).channel IN
       IF c \in tasks_ /\ tpc[c] # "none"
       THEN /\ mpc' = "join" /\ current' = c
            /\ UNCHANGED <<tasks_, faults_, todo, stopping, reported>>
       ELSE /\ tasks_' = tasks_ \ {c}
            /\ faults_' = Tail(faults_)
            /\ reported' = [reported EXCEPT ![c] = @ + 1]
            /\ Return(tasks_ \ {c})
            /\ UNCHANGED current
    /\ UNCHANGED <<dying, tpc, chanVars, added, threw>>

\* Mutant: the fault is read but not popped.
JoinKeepsFault ==
    /\ mpc = "join"
    /\ tpc[current] = "ended"
    /\ tasks_' = tasks_ \ {current}
    /\ reported' = [reported EXCEPT ![current] = @ + 1]
    /\ Return(tasks_ \ {current})
    /\ tpc' = [tpc EXCEPT ![current] = "none"]
    /\ current' = NoChan
    /\ UNCHANGED <<dying, faults_, chanVars, added, threw>>

\* The task's thread is joined, still under faults_mutex_; run() returns.
JoinFaulted ==
    /\ mpc = "join"
    /\ tpc[current] = "ended"
    /\ tasks_' = tasks_ \ {current}
    /\ faults_' = Tail(faults_)
    /\ reported' = [reported EXCEPT ![current] = @ + 1]
    /\ Return(tasks_ \ {current})
    /\ tpc' = [tpc EXCEPT ![current] = "none"]
    /\ current' = NoChan
    /\ UNCHANGED <<dying, chanVars, added, threw>>

\* stop(), called by the user or by the destructor.
Stop ==
    /\ mpc = "out"
    /\ dying' \in BOOLEAN
    /\ IF tasks_ = {}
       THEN /\ dying'
            /\ mpc' = "gone"
            /\ UNCHANGED <<todo, stopping>>
       ELSE /\ mpc' = "close"
            /\ todo' = tasks_
            /\ stopping' = TRUE
    /\ UNCHANGED <<tasks_, current, faults_, tpc, chanVars, history>>

StopClose ==
    /\ mpc = "close"
    /\ IF todo = {}
       THEN StartScan /\ UNCHANGED open
       ELSE LET c == First(todo) IN
            /\ todo' = todo \ {c}
            /\ open' = [open EXCEPT ![c] = FALSE]
            /\ UNCHANGED mpc
    /\ UNCHANGED <<tasks_, current, stopping, dying, faults_, tpc, pending, written,
                   alive, sync, history>>

\* ~Channel() calls drop_channel() for a member of the set.
DestroyChannel(c) ==
    /\ Kind(c) \in MayDestroy
    /\ mpc = "out"
    /\ alive[c]
    /\ alive' = [alive EXCEPT ![c] = FALSE]
    /\ IF c \in tasks_
       THEN mpc' = "drop" /\ current' = c
       ELSE UNCHANGED <<mpc, current>>
    /\ UNCHANGED <<tasks_, todo, stopping, dying, faults_, tpc, open, pending, written, sync,
                   history>>

\* tasks_.erase() joins the thread, if there is one, without faults_mutex_.
DropDestroyed ==
    /\ mpc = "drop"
    /\ tpc[current] \in {"none", "ended"}
    /\ tasks_' = tasks_ \ {current}
    /\ tpc' = [tpc EXCEPT ![current] = "none"]
    /\ added' = [added EXCEPT ![current] = @ - 1]
    /\ mpc' = "out"
    /\ current' = NoChan
    /\ UNCHANGED <<todo, stopping, dying, faults_, chanVars, reported, threw>>

\* A new channel at the address of a destroyed one.
Construct(c) ==
    /\ mpc = "out"
    /\ ~alive[c]
    /\ alive' = [alive EXCEPT ![c] = TRUE]
    /\ open' = [open EXCEPT ![c] = TRUE]
    /\ pending' = [pending EXCEPT ![c] = 0]
    /\ UNCHANGED <<mainVars, faults_, tpc, written, sync, history>>

Gone == mpc = "gone" /\ UNCHANGED vars

\* The steps by which a call of the main thread proceeds and returns.
MainProceeds ==
    \/ ScanDone \/ ScanPoll
    \/ SyncClosed \/ SyncOpen \/ SyncHandlerReturns \/ SyncHandlerThrows
    \/ NoFault \/ PopFault \/ JoinFaulted
    \/ StopClose \/ DropDestroyed

Next ==
    \/ \E c \in Chans : Write(c) \/ Close(c)
    \/ \E c \in Chans : Thread(c)
    \/ \E c \in Chans : Add(c) \/ DestroyChannel(c) \/ Construct(c)
    \/ Run \/ RunEmpty \/ Stop
    \/ MainProceeds
    \/ Gone

Spec == Init /\ [][Next]_vars

\* The scheduler runs every thread that can run and handlers return; nobody
\* need call the controller, write to a channel or close one.
Fairness == WF_vars(MainProceeds) /\ \A c \in Chans : WF_vars(Thread(c))

FairSpec == Spec /\ Fairness
-----------------------------------------------------------------------------
(* What the controller promises                                            *)

\* Every queued fault names a different member of the set, which is closed and
\* whose thread, if it has one, has finished with the channel.  So run(), which
\* joins that thread while it holds the mutex that threads need to leave their
\* faults, never waits for a thread that waits for it.
FaultsAreFinal ==
    /\ \A i \in DOMAIN faults_ : LET c == faults_[i].channel IN
            /\ c \in tasks_
            /\ ~open[c]
            /\ tpc[c] \in {"none", "ended"}
    /\ \A i, k \in DOMAIN faults_ : faults_[i].channel = faults_[k].channel => i = k

\* Every add() is answered by one result of run(), no more and no less,
\* however closing, throwing, stopping and re-adding are interleaved.
ResultPerAdd ==
    \A c \in Chans : added[c] = reported[c] + (IF c \in tasks_ THEN 1 ELSE 0)

\* The result that names a channel is an error exactly if its handler threw:
\* an exception is not masked by a close() that came at the same time.
ErrorNotMasked ==
    [][\A c \in Chans : reported'[c] # reported[c] => Head(faults_).error = threw[c]]_vars

\* stop() returns with the set empty, every thread joined and no result left
\* over for a later run().
StopQuiesces ==
    [][stopping /\ ~stopping' =>
          /\ tasks_' = {}
          /\ faults_' = <<>>
          /\ \A c \in Chans : tpc'[c] = "none"]_vars

\* A handler is called only while its channel is in the set: the task that
\* holds the handler outlives every call of it.
HandlerOutlivesCalls ==
    \A c \in Chans : tpc[c] \notin {"none", "ended"} => c \in tasks_ /\ mpc # "gone"

\* run() returns if a channel of the set is closed or has been closed by a
\* throwing handler.
RunReturns ==
    (mpc \in {"scan", "check", "call", "faults", "join"} /\ \E c \in tasks_ : ~open[c])
        ~> mpc \in {"out", "gone"}

\* stop(), and with it the destructor, returns.
StopTerminates == stopping ~> ~stopping

\* A message waiting in an asynchronous channel of the set is handled, or the
\* channel is closed, whether or not run() is being called.
AsyncDelivers ==
    \A c \in Chans : (c \in tasks_ \ sync /\ pending[c] > 0) ~> (pending[c] = 0 \/ ~open[c])

\* A queued fault is final, so that run() can join the thread under its lock,
\* and a task outlives the calls of its handler.
TasksSafe == TypeOK /\ FaultsAreFinal /\ HandlerOutlivesCalls

\* run() and stop() return when they should, and asynchronous messages are
\* handled in the meantime.
DispatchProgress == RunReturns /\ StopTerminates /\ AsyncDelivers

\* docs/channel.md: "Channels can safely be destroyed while in a dispatch set
\* (the dispatch queue will notice this and silently drop the channel)": a
\* destroyed channel is not named by a later result.
DestroyedIsDropped ==
    \A i \in DOMAIN faults_ : mpc = "faults" => alive[faults_[i].channel]
=============================================================================
