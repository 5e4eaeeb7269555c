---------------------------- MODULE TimerChannel ----------------------------
(***************************************************************************)
(* The timer of channel.hpp and channel.cpp, and the threads that wait for *)
(* its ticks.  Time is counted in units from the construction; a thread    *)
(* may be late by any number of them.                                      *)
(*                                                                         *)
(* A waiter calls one of the wait functions ("call") and, once that has    *)
(* returned true, asks is_closed() ("check"); it handles the tick and      *)
(* calls again, or gives up ("done").  This is the loop of a thread of     *)
(* Dispatch, and of any user of the class.                                 *)
(***************************************************************************)
EXTENDS Integers, FiniteSets, ChannelBase

CONSTANTS
    Waiters,        \* threads that wait for the ticks
    Flushers,       \* threads that call flush()
    Closers,        \* threads that call close()
    Delta,          \* delta_, the interval
    Count,          \* the number of ticks
    MaxTime         \* bound on the time

ASSUME TimerAssumption ==
    /\ Waiters \subseteq Threads /\ IsFiniteSet(Waiters)
    /\ Delta \in Nat \ {0}
    /\ Count \in Nat
    /\ MaxTime \in Nat

VARIABLES
    now,
    next_tick_,
    count_,
    cpc,        \* where each waiter is
    until,      \* when each waiter's wait is over
    forTick,    \* is the waiter's sleep the one up to the tick?
    delivered,  \* history: ticks given to waiters
    flushed,    \* history: ticks discarded by flush()
    handled     \* history: ticks that the waiters have handled

ticks == <<next_tick_, count_>>
waits == <<cpc, until, forTick>>
history == <<delivered, flushed, handled>>
timerVars == <<now, ticks, waits, history>>

TimerTypeOK ==
    /\ ChannelBaseType
    /\ now \in 0 .. MaxTime
    /\ next_tick_ \in Nat
    /\ count_ \in 0 .. Count
    /\ cpc \in [Waiters -> {"call", "check", "done"}]
    /\ until \in [Waiters -> Nat]
    /\ forTick \in [Waiters -> BOOLEAN]
    /\ delivered \in Nat /\ flushed \in Nat /\ handled \in Nat

TimerInit ==
    /\ ChannelBaseInit
    /\ now = 0
    /\ next_tick_ = Delta
    /\ count_ = Count
    /\ cpc = [t \in Waiters |-> "call"]
    /\ until = [t \in Waiters |-> 0]
    /\ forTick = [t \in Waiters |-> FALSE]
    /\ delivered = 0 /\ flushed = 0 /\ handled = 0

TimePasses ==
    /\ now < MaxTime
    /\ now' = now + 1
    /\ UNCHANGED <<wpc, open_, ticks, waits, history>>

Least(i, j) == IF i < j THEN i ELSE j

\* step(n), called with open_ true; w is where the waiters are apart from
\* being notified.
TimerStep(n, w) ==
    LET k == Least(n, count_)
    IN  /\ count_' = count_ - k
        /\ next_tick_' = next_tick_ + k * Delta
        /\ open_' = (count_' # 0)
        /\ wpc' = IF count_' = 0 THEN Notified(w) ELSE w

\* close(), by any of the closers.
TimerClose ==
    /\ Closers # {}
    /\ open_' = FALSE
    /\ NotifyAll
    /\ UNCHANGED <<now, next_tick_, count_, waits, history>>

\* A thread that is not inside a wait function may call flush().
MayFlush(t) == t \in Flushers /\ (t \in Waiters => wpc[t] = "idle")

\* Mutant: a tick is skipped even if none is due.
TimerFlushAnyTime(t) ==
    /\ MayFlush(t)
    /\ open_
    /\ TimerStep(IF now < next_tick_ THEN 1 ELSE (now - next_tick_) \div Delta + 1, wpc)
    /\ flushed' = flushed + count_ - count_'
    /\ UNCHANGED <<now, waits, delivered, handled>>

\* On a closed channel, or with no tick due, flush() does nothing.
TimerFlush(t) ==
    /\ MayFlush(t)
    /\ open_
    /\ now >= next_tick_
    /\ TimerStep((now - next_tick_) \div Delta + 1, wpc)
    /\ flushed' = flushed + count_ - count_'
    /\ UNCHANGED <<now, waits, delivered, handled>>

-----------------------------------------------------------------------------
(* do_wait_for().  A call with no time to wait and no tick due returns     *)
(* false and changes nothing.                                              *)

Calls(t) == cpc[t] = "call" /\ wpc[t] = "idle"

WaitClosed(t) ==
    /\ Calls(t)
    /\ ~open_
    /\ cpc' = [cpc EXCEPT ![t] = "check"]
    /\ UNCHANGED <<now, open_, ticks, wpc, until, forTick, history>>

\* The tick is due.
WaitDue(t) ==
    /\ Calls(t)
    /\ open_
    /\ next_tick_ <= now
    /\ TimerStep(1, wpc)
    /\ delivered' = delivered + count_ - count_'
    /\ cpc' = [cpc EXCEPT ![t] = "check"]
    /\ UNCHANGED <<now, until, forTick, flushed, handled>>

\* The caller's time is up before the tick.
WaitBrief(t) ==
    /\ Calls(t)
    /\ next_tick_ > now
    /\ FallAsleep(t, ~open_)
    /\ \E u \in now + 1 .. next_tick_ - 1 : until' = [until EXCEPT ![t] = u]
    /\ forTick' = [forTick EXCEPT ![t] = FALSE]
    /\ UNCHANGED <<now, open_, ticks, cpc, history>>

\* The caller has time to wait for the tick.
WaitTick(t) ==
    /\ Calls(t)
    /\ next_tick_ > now
    /\ FallAsleep(t, ~open_)
    /\ until' = [until EXCEPT ![t] = next_tick_]
    /\ forTick' = [forTick EXCEPT ![t] = TRUE]
    /\ UNCHANGED <<now, open_, ticks, cpc, history>>

\* A notified waiter returns if the channel is closed.
TimerWaitResumes(t) ==
    /\ Resume(t, ~open_)
    /\ cpc' = [cpc EXCEPT ![t] = IF open_ THEN "call" ELSE "check"]
    /\ UNCHANGED <<now, open_, ticks, until, forTick, history>>

WaitDisturbed(t) ==
    /\ WakeSpuriously(t)
    /\ UNCHANGED <<now, open_, ticks, waits, history>>

BriefOver(t) ==
    /\ ~forTick[t]
    /\ now >= until[t]
    /\ TimeOut(t)
    /\ cpc' = [cpc EXCEPT ![t] = IF open_ THEN "call" ELSE "check"]
    /\ UNCHANGED <<now, open_, ticks, until, forTick, history>>

\* The sleep up to the tick is over; nobody looks at next_tick_ again.
TickOver(t) ==
    /\ wpc[t] = "asleep"
    /\ forTick[t]
    /\ now >= until[t]
    /\ IF open_
       THEN /\ TimerStep(1, [wpc EXCEPT ![t] = "idle"])
            /\ delivered' = delivered + count_ - count_'
       ELSE TimeOut(t) /\ UNCHANGED <<open_, ticks, delivered>>
    /\ cpc' = [cpc EXCEPT ![t] = "check"]
    /\ UNCHANGED <<now, until, forTick, flushed, handled>>

TimerWait(t) ==
    \/ WaitClosed(t) \/ WaitDue(t) \/ WaitBrief(t) \/ WaitTick(t)
    \/ TimerWaitResumes(t) \/ WaitDisturbed(t) \/ BriefOver(t) \/ TickOver(t)

\* is_closed(): the waiter gives up, or handles the tick.
TimerCheck(t) ==
    /\ cpc[t] = "check"
    /\ IF open_
       THEN cpc' = [cpc EXCEPT ![t] = "call"] /\ handled' = handled + 1
       ELSE cpc' = [cpc EXCEPT ![t] = "done"] /\ UNCHANGED handled
    /\ UNCHANGED <<now, open_, ticks, wpc, until, forTick, delivered, flushed>>

TimerNext ==
    \/ TimePasses
    \/ TimerClose
    \/ \E t \in Flushers : TimerFlush(t)
    \/ \E t \in Waiters : TimerWait(t) \/ TimerCheck(t)

-----------------------------------------------------------------------------
(* What the channel promises                                               *)

\* Ticks used up by time now.
Used == delivered + flushed

\* However late the waiters are, tick number n belongs to n intervals after
\* the construction, and the channel closes with the last one.
NoDrift ==
    /\ next_tick_ = Delta * (1 + Used)
    /\ Used + count_ = Count
    /\ Used = Count /\ Count > 0 => ~open_

\* Whatever the races, the ticks are ahead of the time by no more than one
\* interval for each waiter that can be asleep for a tick already used up.
AheadBounded == Delta * Used <= now + Delta * Cardinality(Waiters)

\* flush() leaves no tick pending.
FlushCatchesUp == [][flushed' # flushed => next_tick_' > now \/ ~open_']_timerVars

\* Every tick that a wait has given is handled, but for one of each waiter that
\* has not looked at the channel yet, or found it closed when it did; and the
\* handler is called for nothing but ticks.
TicksHandled ==
    /\ handled <= delivered
    /\ delivered <= handled + Cardinality({t \in Waiters : cpc[t] \in {"check", "done"}})

\* Ticks neither run ahead of the time by more than the waiters account for nor
\* pass unhandled, and flush() leaves none pending.
TicksKept == [](AheadBounded /\ TicksHandled) /\ FlushCatchesUp
=============================================================================
