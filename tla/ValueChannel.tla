---------------------------- MODULE ValueChannel ----------------------------
(***************************************************************************)
(* The single-value channel of channel.hpp.  One int, status, says that    *)
(* there is a new value (+1), that there is none (0) or that the channel   *)
(* is closed (-1).                                                         *)
(***************************************************************************)
EXTENDS Integers, CondVar

CONSTANTS
    Values,         \* the values of type T
    NoValue         \* not a value

ASSUME ValuesAssumption == NoValue \notin Values

VARIABLES
    value_,
    status,
    wrote,      \* history: the last value a write() accepted
    seen        \* history: the last value read, at first the constructor's

valueVars == <<value_, status, wrote, seen>>

ValueTypeOK ==
    /\ CondVarType
    /\ value_ \in Values
    /\ status \in {-1, 0, 1}
    /\ wrote \in Values \cup {NoValue}
    /\ seen \in Values \cup {NoValue}

\* The creator knows the value that it gave to the constructor.  Without an
\* argument value_ is uninitialised if T is a scalar: whatever is in memory,
\* which nobody has been told of.
ValueInit ==
    /\ CondVarInit
    /\ value_ \in Values
    /\ status = 0
    /\ wrote = NoValue
    /\ seen \in {value_, NoValue}

ValueReady == status # 0

ValueClose(t) ==
    /\ wpc[t] = "idle"
    /\ status' = -1
    /\ NotifyAll
    /\ UNCHANGED <<value_, wrote, seen>>

\* Mutant: read() looks only for the absence of a change.
ValueReadClosed(t) ==
    /\ wpc[t] = "idle"
    /\ status # 0
    /\ seen' = value_
    /\ status' = 0
    /\ UNCHANGED <<wpc, value_, wrote>>

\* Without a new value read() returns false.
ValueRead(t) ==
    /\ wpc[t] = "idle"
    /\ status = 1
    /\ seen' = value_
    /\ status' = 0
    /\ UNCHANGED <<wpc, value_, wrote>>

\* Mutant: a value that was only just read is taken for no change.
ValueWriteMissed(t, v) ==
    /\ wpc[t] = "idle"
    /\ status # -1
    /\ wrote' = v
    /\ IF v = value_ \/ wrote = seen
       THEN UNCHANGED <<wpc, value_, status>>
       ELSE value_' = v /\ status' = 1 /\ NotifyAll
    /\ UNCHANGED seen

\* Both overloads; a write to a closed channel returns false.
ValueWrite(t, v) ==
    /\ wpc[t] = "idle"
    /\ status # -1
    /\ wrote' = v
    /\ IF v = value_
       THEN UNCHANGED <<wpc, value_, status>>
       ELSE value_' = v /\ status' = 1 /\ NotifyAll
    /\ UNCHANGED seen

ValueWait(t) ==
    /\ FallAsleep(t, ValueReady) \/ TimeOut(t) \/ WakeSpuriously(t)
    /\ UNCHANGED valueVars

ValueWaitResumes(t) ==
    /\ Resume(t, ValueReady)
    /\ UNCHANGED valueVars

ValueNext ==
    \E t \in Threads :
        \/ ValueClose(t) \/ ValueRead(t) \/ ValueWait(t) \/ ValueWaitResumes(t)
        \/ \E v \in Values : ValueWrite(t, v)

ValueSpec == ValueInit /\ [][ValueNext]_<<wpc, valueVars>>

-----------------------------------------------------------------------------
(* What the channel promises                                               *)

\* When the channel says that nothing has changed, the readers have the value
\* that was written last, however writes and reads overtook each other.  The
\* exception is a default-constructed channel nobody has read from: if the
\* value written happens to be what is in memory, no reader is told of it.
NothingMissed == status = 0 /\ wrote # NoValue => seen \in {wrote, NoValue}

=============================================================================
