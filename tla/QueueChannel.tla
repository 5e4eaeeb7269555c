---------------------------- MODULE QueueChannel ----------------------------
(***************************************************************************)
(* The message queue of channel.hpp, shared by any number of writers and   *)
(* readers.  Every member function is one critical section, except that    *)
(* do_wait_for() gives the mutex up while it sleeps.                       *)
(*                                                                         *)
(* A message is the number of its write: 1, 2, 3...                        *)
(***************************************************************************)
EXTENDS Integers, Sequences, ChannelBase

CONSTANT MaxWrites      \* bound on the number of writes

ASSUME MaxWritesAssumption == MaxWrites \in Nat

VARIABLES
    queue_,
    written,    \* history: messages written
    got,        \* history: messages read, in the order of the reads
    dropped     \* history: messages discarded by clear()

queueVars == <<queue_, written, got, dropped>>

Messages == 1 .. MaxWrites

QueueTypeOK ==
    /\ ChannelBaseType
    /\ queue_ \in Seq(Messages)
    /\ written \in 0 .. MaxWrites
    /\ got \in Seq(Messages)
    /\ dropped \subseteq Messages

QueueInit ==
    /\ ChannelBaseInit
    /\ queue_ = <<>>
    /\ written = 0
    /\ got = <<>>
    /\ dropped = {}

\* Mutant: a sleeper looks for a message only.
QueueReadyMessage == queue_ # <<>>

\* The predicate of the wait, and the result of do_wait_for().
QueueReady == ~open_ \/ queue_ # <<>>

QueueClose(t) ==
    /\ wpc[t] = "idle"
    /\ open_' = FALSE
    /\ NotifyAll
    /\ UNCHANGED <<queue_, written, got, dropped>>

\* A read that finds the channel closed or empty returns false.
QueueRead(t) ==
    /\ wpc[t] = "idle"
    /\ open_
    /\ queue_ # <<>>
    /\ got' = Append(got, Head(queue_))
    /\ queue_' = Tail(queue_)
    /\ IF queue_' # <<>> THEN NotifyAll ELSE UNCHANGED wpc
    /\ UNCHANGED <<open_, written, dropped>>

QueueClear(t) ==
    /\ wpc[t] = "idle"
    /\ dropped' = dropped \cup {queue_[i] : i \in DOMAIN queue_}
    /\ queue_' = <<>>
    /\ UNCHANGED <<wpc, open_, written, got>>

\* Mutant: readers are woken only by a second message.
QueueWriteQuietly(t) ==
    /\ wpc[t] = "idle"
    /\ open_
    /\ written < MaxWrites
    /\ written' = written + 1
    /\ queue_' = Append(queue_, written + 1)
    /\ IF queue_ # <<>> THEN NotifyAll ELSE UNCHANGED wpc
    /\ UNCHANGED <<open_, got, dropped>>

\* Both overloads; a write to a closed channel returns false.
QueueWrite(t) ==
    /\ wpc[t] = "idle"
    /\ open_
    /\ written < MaxWrites
    /\ written' = written + 1
    /\ queue_' = Append(queue_, written + 1)
    /\ NotifyAll
    /\ UNCHANGED <<open_, got, dropped>>

\* do_wait_for(): with the predicate true, or no time to wait, it returns at
\* once and changes nothing; otherwise it sleeps, and returns when it resumes
\* with the predicate true or runs out of time.
QueueWait(t) ==
    /\ FallAsleep(t, QueueReady) \/ TimeOut(t) \/ WakeSpuriously(t)
    /\ UNCHANGED <<open_, queueVars>>

QueueWaitResumes(t) ==
    /\ Resume(t, QueueReady)
    /\ UNCHANGED <<open_, queueVars>>

QueueNext ==
    \E t \in Threads :
        \/ QueueClose(t) \/ QueueRead(t) \/ QueueClear(t) \/ QueueWrite(t)
        \/ QueueWait(t) \/ QueueWaitResumes(t)

QueueSpec == QueueInit /\ [][QueueNext]_<<wpc, open_, queueVars>>

-----------------------------------------------------------------------------
(* What the channel promises                                               *)

Increasing(s) == \A i, k \in DOMAIN s : i < k => s[i] < s[k]
Elements(s) == {s[i] : i \in DOMAIN s}

\* Messages are read in the order in which they were written, each at most
\* once whoever reads it, and none disappears except by clear().
InOrderOnce ==
    /\ Increasing(got)
    /\ Increasing(queue_)
    /\ \A i \in DOMAIN got, k \in DOMAIN queue_ : got[i] < queue_[k]
    /\ Elements(got) \cup Elements(queue_) \cup dropped = 1 .. written
    /\ dropped \cap (Elements(got) \cup Elements(queue_)) = {}

=============================================================================
