------------------------------ MODULE Channel -------------------------------
(***************************************************************************)
(* A channel: an object of one of the four classes that threads wait for   *)
(* with a condition variable, or a GeneratorChannel, and what the base     *)
(* class promises of all of them.  The variables of the other classes keep *)
(* their initial values.                                                   *)
(***************************************************************************)
EXTENDS QueueChannel, ValueChannel, BufferChannel, TimerChannel, GeneratorChannel

VARIABLE class

vars == <<class, wpc, open_, queueVars, valueVars, bufferVars, timerVars, generatorVars>>

Classes == {"QueueChannel", "ValueChannel", "BufferChannel", "TimerChannel",
            "GeneratorChannel"}

TypeOK ==
    /\ class \in Classes
    /\ QueueTypeOK
    /\ ValueTypeOK
    /\ BufferTypeOK
    /\ TimerTypeOK
    /\ GeneratorTypeOK

Init ==
    /\ class \in Classes
    /\ QueueInit
    /\ ValueInit
    /\ BufferInit
    /\ TimerInit
    /\ GeneratorInit
    /\ class = "ValueChannel" \/ (seen = value_ /\ value_ = CHOOSE v \in Values : TRUE)

AsQueue(A) ==
    /\ class = "QueueChannel"
    /\ A
    /\ UNCHANGED <<class, valueVars, bufferVars, timerVars, generatorVars>>

AsValue(A) ==
    /\ class = "ValueChannel"
    /\ A
    /\ UNCHANGED <<class, open_, queueVars, bufferVars, timerVars, generatorVars>>

AsBuffer(A) ==
    /\ class = "BufferChannel"
    /\ A
    /\ UNCHANGED <<class, queueVars, valueVars, timerVars, generatorVars>>

AsTimer(A) ==
    /\ class = "TimerChannel"
    /\ A
    /\ UNCHANGED <<class, queueVars, valueVars, bufferVars, generatorVars>>

AsGenerator(A) ==
    /\ class = "GeneratorChannel"
    /\ A
    /\ UNCHANGED <<class, queueVars, valueVars, bufferVars, timerVars>>

Next ==
    \/ AsQueue(QueueNext)
    \/ AsValue(ValueNext)
    \/ AsBuffer(BufferNext)
    \/ AsTimer(TimerNext)
    \/ AsGenerator(GeneratorNext)

Spec == Init /\ [][Next]_vars

WaitResumes(t) ==
    \/ AsQueue(QueueWaitResumes(t))
    \/ AsValue(ValueWaitResumes(t))
    \/ AsBuffer(BufferWaitResumes(t))
    \/ AsTimer(t \in Waiters /\ TimerWaitResumes(t))

\* Threads are scheduled: a woken thread gets the mutex, and a thread inside
\* read_all() goes on.
FairSpec ==
    /\ Spec
    /\ \A t \in Threads : WF_vars(WaitResumes(t)) /\ WF_vars(AsBuffer(ReadAllGoes(t)))

\* is_closed()
Closed == IF class = "ValueChannel" THEN status = -1 ELSE ~open_

\* What a sleeping thread waits for.  A timer also wakes by itself.
Ready ==
    CASE class = "QueueChannel" -> QueueReady
      [] class = "ValueChannel" -> ValueReady
      [] class = "BufferChannel" -> BufferReady
      [] class = "TimerChannel" -> ~open_
      [] class = "GeneratorChannel" -> TRUE

-----------------------------------------------------------------------------
(* What every channel promises                                             *)

\* A thread stays asleep only while the channel is open and there is nothing
\* for it: whichever of several readers and writers made the channel ready,
\* or closed it, has woken every sleeper.
NoLostWakeup == \A t \in Threads : wpc[t] = "asleep" => ~Ready

\* A closed channel stays closed, although ValueChannel keeps "closed" and
\* "new value" in one variable, and read() and write() assign to it.
ClosedForGood == [][Closed => Closed']_vars

\* A close(), by a caller or by the last tick, releases every waiting thread.
CloseReleases == \A t \in Threads : (Closed /\ wpc[t] # "idle") ~> wpc[t] = "idle"

\* What goes in comes out, in each class: messages in order and once, the value
\* written last, a buffer of which less than half is waste, ticks at the times
\* they belong to, and whatever a generator makes.
Delivers ==
    TypeOK /\ InOrderOnce /\ NothingMissed /\ WasteBounded /\ NoDrift /\ GeneratorServes

\* Nobody waits for a closed channel: neither a waiting thread nor read_all().
Releases == CloseReleases /\ ReadAllReturns
=============================================================================
