--------------------------- MODULE DispatchProofs ---------------------------
(***************************************************************************)
(* The dispatch controller for any number of channels, messages and adds.  *)
(* The set is all synchronous or all asynchronous, and only synchronous    *)
(* channels are destroyed while they are in it: the two restrictions under *)
(* which the controller keeps its promises.                                *)
(***************************************************************************)
EXTENDS Dispatch, SequenceTheorems, WellFoundedInduction, TLAPS

\* The sets the promises are about.
Alike ==
    /\ \A S \in SyncSets : S = {} \/ S = Chans
    /\ MayDestroy \subseteq {"sync"}

\* A message waits only if it was written.
PendingWritten == \A c \in Chans : pending[c] <= written[c]

\* The asynchronous members of the set, and no other channels, have a thread.
ThreadOfTask == \A c \in Chans : tpc[c] # "none" <=> (c \in tasks_ /\ c \notin sync)

\* What the main thread knows at each place.
MainKnows ==
    /\ mpc \in {"check", "call"} =>
          current \in sync /\ current \in tasks_ /\ current \notin todo
    /\ mpc = "join" =>
          /\ faults_ # <<>>
          /\ current = faults_[1].channel
          /\ tpc[current] = "ended"
    /\ mpc = "drop" => current \in tasks_ /\ current \in sync
    /\ mpc \in {"out", "drop", "gone", "faults", "join"} => todo = {}
    /\ mpc = "gone" => tasks_ = {}
    /\ stopping => mpc \in {"close", "scan", "check", "call", "faults", "join"}
    /\ dying => stopping \/ mpc = "gone"

\* Asynchronous channels live on; with synchronous ones run() returns each
\* fault before it polls the next channel.
OneAtATime ==
    /\ sync = {} => \A c \in Chans : alive[c]
    /\ sync = Chans /\ faults_ # <<>> => mpc = "faults" /\ Len(faults_) = 1

\* A fault is an error if and only if the handler threw, and a handler that
\* threw has left its fault or is about to.
ThrowsKnown ==
    /\ \A i \in DOMAIN faults_ : faults_[i].error = threw[faults_[i].channel]
    /\ \A c \in Chans :
          /\ tpc[c] \in {"wait", "check", "read", "handler", "closing"} => ~threw[c]
          /\ tpc[c] = "throwing" => threw[c]
          /\ c \in tasks_ /\ c \in sync /\ threw[c] =>
                faults_ # <<>> /\ faults_[1].channel = c

Inv ==
    /\ TypeOK
    /\ PendingWritten
    /\ ThreadOfTask
    /\ MainKnows
    /\ OneAtATime
    /\ FaultsAreFinal
    /\ ThrowsKnown
    /\ ResultPerAdd

\* A non-empty set of natural numbers has a least element.
LEMMA Least ==
    ASSUME NEW S, S \subseteq Nat, S # {}
    PROVE  \E x \in S : \A y \in S : x <= y
<1> DEFINE R == {p \in Nat \X Nat : p[1] < p[2]}
<1>1. IsWellFoundedOn(R, Nat)
  BY NatLessThanWellFounded DEF OpToRel
<1>2. PICK x \in S : \A y \in S : <<y, x>> \notin R
  <2> HIDE DEF R
  <2> QED
    BY <1>1, WFMin
<1>3. ASSUME NEW y \in S PROVE x <= y
  <2>1. <<y, x>> \in Nat \X Nat /\ <<y, x>>[1] = y /\ <<y, x>>[2] = x
    OBVIOUS
  <2>2. ~(y < x)
    BY <1>2, <2>1
  <2>3. QED
    BY <2>2
<1>4. QED
  BY <1>3

\* The loop over tasks_ reaches one of the channels that are left.
LEMMA FirstIn ==
    ASSUME NEW S, S \subseteq Chans, S # {}
    PROVE  First(S) \in S
<1> DEFINE A == {Address[c] : c \in S}
<1>1. A \subseteq Nat /\ A # {}
  BY AddressAssumption
<1>2. PICK x \in A : \A y \in A : x <= y
  BY <1>1, Least
<1>3. \E c \in S : \A d \in S : Address[c] <= Address[d]
  BY <1>2
<1>4. QED
  BY <1>3 DEF First

\* All channels are synchronous or none is.
LEMMA Modes == ASSUME Alike, TypeOK PROVE sync = {} \/ sync = Chans
  BY DEF Alike, TypeOK

\* A queued fault names a channel.
LEMMA FaultType ==
    ASSUME TypeOK, NEW i \in DOMAIN faults_
    PROVE  /\ faults_[i].channel \in Chans
           /\ faults_[i].error \in BOOLEAN
           /\ i \in 1 .. Len(faults_)
<1>1. faults_ \in Seq(Results)
  BY DEF TypeOK
<1>2. faults_[i] \in Results /\ i \in 1 .. Len(faults_)
  BY <1>1
<1>3. QED
  BY <1>2 DEF Results

\* The first fault, if there is one.
LEMMA FirstFault ==
    ASSUME TypeOK, faults_ # <<>>
    PROVE  1 \in DOMAIN faults_ /\ Head(faults_) = faults_[1] /\ faults_[1].channel \in Chans
<1>1. faults_ \in Seq(Results) /\ Len(faults_) \in Nat /\ Len(faults_) # 0
  BY EmptySeq DEF TypeOK
<1>2. 1 \in DOMAIN faults_ /\ Head(faults_) = faults_[1]
  BY <1>1
<1>3. QED
  BY <1>2, FaultType

\* Faults stay final in a step that leaves them, their channels' membership
\* and the end of their threads alone and opens none of them.
LEMMA FaultsFrame ==
    ASSUME TypeOK, FaultsAreFinal, UNCHANGED faults_,
           \A i \in DOMAIN faults_ :
              /\ faults_[i].channel \in tasks_'
              /\ ~open'[faults_[i].channel]
              /\ tpc'[faults_[i].channel] \in {"none", "ended"}
    PROVE  FaultsAreFinal'
  BY DEF FaultsAreFinal

\* Appending a fault that names a closed member, not named so far, whose
\* thread is done.
LEMMA FaultAppended ==
    ASSUME Inv, NEW c \in Chans, NEW e \in BOOLEAN, set_fault(c, e),
           c \in tasks_, UNCHANGED tasks_,
           \A i \in DOMAIN faults_ : faults_[i].channel # c,
           tpc'[c] \in {"none", "ended"},
           \A d \in Chans \ {c} : tpc'[d] = tpc[d]
    PROVE  /\ FaultsAreFinal'
           /\ faults_' \in Seq(Results)
           /\ DOMAIN faults_' = 1 .. Len(faults_) + 1
           /\ faults_'[Len(faults_) + 1] = [channel |-> c, error |-> e]
           /\ \A i \in DOMAIN faults_ : i \in 1 .. Len(faults_) /\ faults_'[i] = faults_[i]
<1> DEFINE r == [channel |-> c, error |-> e]
           n == Len(faults_)
<1>1. faults_ \in Seq(Results) /\ r \in Results
  BY DEF Inv, TypeOK, Results
<1>2. faults_' = Append(faults_, r)
  BY DEF set_fault
<1>3. n \in Nat /\ DOMAIN faults_ = 1 .. n
  BY <1>1
<1>4. /\ faults_' \in Seq(Results)
      /\ DOMAIN faults_' = 1 .. n + 1
      /\ faults_'[n + 1] = r
      /\ \A i \in 1 .. n : faults_'[i] = faults_[i]
  BY <1>1, <1>2, <1>3, AppendProperties
<1>5. r.channel = c
  OBVIOUS
<1>6. ASSUME NEW i \in 1 .. n
      PROVE  LET d == faults_[i].channel IN
             d \in Chans /\ d # c /\ d \in tasks_ /\ ~open[d] /\ tpc[d] \in {"none", "ended"}
  BY <1>3, FaultType DEF Inv, FaultsAreFinal
<1>7. open' = [open EXCEPT ![c] = FALSE] /\ open \in [Chans -> BOOLEAN]
  BY DEF set_fault, Inv, TypeOK
<1>8. ASSUME NEW i \in DOMAIN faults_'
      PROVE  LET d == faults_'[i].channel IN
             d \in tasks_' /\ ~open'[d] /\ tpc'[d] \in {"none", "ended"}
  <2>1. CASE i = n + 1
    BY <1>4, <1>5, <1>7, <2>1
  <2>2. CASE i \in 1 .. n
    <3> DEFINE d == faults_[i].channel
    <3>1. faults_'[i].channel = d
      BY <1>4, <2>2
    <3>2. d \in Chans /\ d # c /\ d \in tasks_ /\ ~open[d] /\ tpc[d] \in {"none", "ended"}
      BY <1>6, <2>2
    <3>3. ~open'[d] /\ tpc'[d] = tpc[d]
      BY <1>7, <3>2
    <3>4. QED
      BY <3>1, <3>2, <3>3
  <2>3. QED
    BY <1>3, <1>4, <1>8, <2>1, <2>2
<1>9. ASSUME NEW i \in DOMAIN faults_', NEW k \in DOMAIN faults_',
             faults_'[i].channel = faults_'[k].channel
      PROVE  i = k
  <2>1. \A j \in 1 .. n : faults_[j].channel # c
    BY <1>3
  <2>2. i \in 1 .. n /\ k \in 1 .. n => i = k
    BY <1>3, <1>4, <1>9 DEF Inv, FaultsAreFinal
  <2>3. i \in 1 .. n => k # n + 1
    BY <1>4, <1>5, <1>9, <2>1
  <2>4. k \in 1 .. n => i # n + 1
    BY <1>4, <1>5, <1>9, <2>1
  <2>5. QED
    BY <1>3, <1>4, <2>2, <2>3, <2>4
<1>10. FaultsAreFinal'
  BY <1>8, <1>9 DEF FaultsAreFinal
<1>11. QED
  BY <1>3, <1>4, <1>10

\* Taking the first fault and its channel away.
LEMMA FaultPopped ==
    ASSUME Inv, faults_ # <<>>, faults_' = Tail(faults_),
           tasks_' = tasks_ \ {faults_[1].channel},
           UNCHANGED open,
           \A d \in Chans \ {faults_[1].channel} : tpc'[d] = tpc[d]
    PROVE  /\ Head(faults_) = faults_[1]
           /\ 1 \in DOMAIN faults_
           /\ FaultsAreFinal'
           /\ faults_' \in Seq(Results)
           /\ Len(faults_') = Len(faults_) - 1
           /\ \A i \in DOMAIN faults_' :
                 /\ i + 1 \in DOMAIN faults_
                 /\ faults_'[i] = faults_[i + 1]
                 /\ faults_'[i].channel # faults_[1].channel
<1> DEFINE n == Len(faults_)
           c == faults_[1].channel
<1>1. faults_ \in Seq(Results) /\ n \in Nat /\ n # 0 /\ DOMAIN faults_ = 1 .. n
  BY EmptySeq DEF Inv, TypeOK
<1>2. /\ faults_' \in Seq(Results)
      /\ Len(faults_') = n - 1
      /\ DOMAIN faults_' = 1 .. n - 1
      /\ \A i \in 1 .. n - 1 : faults_'[i] = faults_[i + 1]
      /\ Head(faults_) = faults_[1]
  BY <1>1, HeadTailProperties
<1>3. 1 \in DOMAIN faults_
  BY <1>1
<1>4. ASSUME NEW i \in DOMAIN faults_'
      PROVE  /\ i + 1 \in DOMAIN faults_
             /\ faults_'[i] = faults_[i + 1]
             /\ faults_'[i].channel # c
  <2>1. i + 1 \in DOMAIN faults_ /\ faults_'[i] = faults_[i + 1] /\ i + 1 # 1
    BY <1>1, <1>2, <1>4
  <2>2. faults_[i + 1].channel # faults_[1].channel
    BY <1>3, <2>1 DEF Inv, FaultsAreFinal
  <2>3. QED
    BY <2>1, <2>2
<1>5. ASSUME NEW i \in DOMAIN faults_'
      PROVE  LET d == faults_'[i].channel IN
             d \in tasks_' /\ ~open'[d] /\ tpc'[d] \in {"none", "ended"}
  <2> DEFINE d == faults_[i + 1].channel
  <2>1. i + 1 \in DOMAIN faults_ /\ faults_'[i].channel = d /\ d # c
    BY <1>4, <1>5
  <2>2. d \in Chans /\ d \in tasks_ /\ ~open[d] /\ tpc[d] \in {"none", "ended"}
    BY <2>1, FaultType DEF Inv, FaultsAreFinal
  <2>3. tpc'[d] = tpc[d]
    BY <2>1, <2>2
  <2>4. QED
    BY <2>1, <2>2, <2>3
<1>6. ASSUME NEW i \in DOMAIN faults_', NEW k \in DOMAIN faults_',
             faults_'[i].channel = faults_'[k].channel
      PROVE  i = k
  <2>1. /\ i + 1 \in DOMAIN faults_ /\ k + 1 \in DOMAIN faults_
        /\ faults_[i + 1].channel = faults_[k + 1].channel
    BY <1>4, <1>6
  <2>2. i + 1 = k + 1
    BY <2>1 DEF Inv, FaultsAreFinal
  <2>3. QED
    BY <1>2, <2>2
<1>7. FaultsAreFinal'
  BY <1>5, <1>6 DEF FaultsAreFinal
<1>8. QED
  BY <1>2, <1>3, <1>4, <1>7

\* The invariant holds before anything is added.
LEMMA InitInv == ASSUME Alike PROVE Init => Inv
<1> SUFFICES ASSUME Init PROVE Inv
  OBVIOUS
<1>1. TypeOK
  <2>1. 0 \in 0 .. MaxMessages /\ 0 \in 0 .. MaxAdds /\ <<>> \in Seq(Results)
    BY BoundsAssumption
  <2>2. QED
    BY <2>1 DEF Init, TypeOK, MainPc, ThreadPc
<1>2. PendingWritten /\ ThreadOfTask /\ MainKnows /\ ResultPerAdd
  BY DEF Init, PendingWritten, ThreadOfTask, MainKnows, ResultPerAdd
<1>3. OneAtATime /\ FaultsAreFinal /\ ThrowsKnown
  <2>1. faults_ = <<>> /\ DOMAIN faults_ = {}
    BY DEF Init
  <2>2. QED
    BY <2>1 DEF Init, OneAtATime, FaultsAreFinal, ThrowsKnown
<1>4. QED
  BY <1>1, <1>2, <1>3 DEF Inv

\* A message is written to a channel, or its user closes it.
LEMMA UserInv ==
    ASSUME Inv, NEW c \in Chans, Write(c) \/ Close(c)
    PROVE  Inv'
<1>1. UNCHANGED <<mainVars, faults_, tpc, alive, sync, history>>
  BY DEF Write, Close
<1>2. \A d \in Chans : open'[d] => open[d]
  BY DEF Write, Close, Inv, TypeOK
<1>3. /\ pending' \in [Chans -> 0 .. MaxMessages]
      /\ written' \in [Chans -> 0 .. MaxMessages]
      /\ \A d \in Chans : pending'[d] <= written'[d]
  <2>1. CASE Close(c)
    BY <2>1 DEF Close, Inv, TypeOK, PendingWritten
  <2>2. CASE Write(c)
    <3>1. pending[c] <= written[c] /\ written[c] < MaxMessages
      BY <2>2 DEF Write, Inv, PendingWritten
    <3>2. pending[c] + 1 \in 0 .. MaxMessages /\ written[c] + 1 \in 0 .. MaxMessages
      BY <3>1, BoundsAssumption DEF Inv, TypeOK
    <3>3. QED
      BY <2>2, <3>2 DEF Write, Inv, TypeOK, PendingWritten
  <2>3. QED
    BY <2>1, <2>2
<1>4. open' \in [Chans -> BOOLEAN]
  BY DEF Write, Close, Inv, TypeOK
<1>5. TypeOK' /\ PendingWritten'
  BY <1>1, <1>3, <1>4 DEF Inv, TypeOK, PendingWritten, mainVars, history
<1>6. ThreadOfTask' /\ MainKnows' /\ OneAtATime' /\ ThrowsKnown' /\ ResultPerAdd'
  BY <1>1 DEF Inv, ThreadOfTask, MainKnows, OneAtATime, ThrowsKnown, ResultPerAdd,
              mainVars, history
<1>7. FaultsAreFinal'
  <2>1. ASSUME NEW i \in DOMAIN faults_ PROVE ~open'[faults_[i].channel]
    BY <1>2, FaultType DEF Inv, FaultsAreFinal
  <2>2. QED
    BY <1>1, <2>1, FaultsFrame DEF Inv, FaultsAreFinal, mainVars
<1>8. QED
  BY <1>5, <1>6, <1>7 DEF Inv

\* A thread waits, checks, reads and calls the handler, which may throw: what
\* changes is where the thread is, what it has read and whether it threw.
LEMMA ThreadInv ==
    ASSUME Inv, NEW c \in Chans,
           \/ ThreadWait(c) \/ ThreadCheck(c) \/ ThreadRead(c)
           \/ ThreadHandlerReturns(c) \/ ThreadHandlerThrows(c)
    PROVE  Inv'
<1>1. UNCHANGED <<mainVars, faults_, open, written, alive, sync, added, reported>>
  BY DEF ThreadWait, ThreadCheck, ThreadRead, ThreadHandlerReturns, ThreadHandlerThrows,
         chanVars, history
<1>2. PICK label \in ThreadPc \ {"none", "ended"} :
          /\ tpc[c] \in {"wait", "check", "read", "handler"}
          /\ tpc' = [tpc EXCEPT ![c] = label]
          /\ IF label = "throwing"
             THEN threw' = [threw EXCEPT ![c] = TRUE]
             ELSE UNCHANGED threw
  BY DEF ThreadWait, ThreadCheck, ThreadRead, ThreadHandlerReturns, ThreadHandlerThrows,
         ThreadGoto, ThreadPc, history
<1>3. c \in tasks_ /\ c \notin sync /\ ~threw[c]
  BY <1>2 DEF Inv, ThreadOfTask, ThrowsKnown
<1>4. /\ pending' \in [Chans -> 0 .. MaxMessages]
      /\ \A d \in Chans : pending'[d] <= pending[d]
  <2>1. CASE UNCHANGED pending
    BY <2>1 DEF Inv, TypeOK
  <2>2. CASE pending[c] > 0 /\ pending' = [pending EXCEPT ![c] = @ - 1]
    BY <2>2, BoundsAssumption DEF Inv, TypeOK
  <2>3. QED
    BY <2>1, <2>2 DEF ThreadWait, ThreadCheck, ThreadRead, ThreadHandlerReturns,
                      ThreadHandlerThrows, CanRead, chanVars
<1>5. threw' \in [Chans -> BOOLEAN] /\ tpc' \in [Chans -> ThreadPc]
  BY <1>2 DEF Inv, TypeOK
<1>6. TypeOK'
  BY <1>1, <1>4, <1>5 DEF Inv, TypeOK, mainVars
<1>7. PendingWritten'
  BY <1>1, <1>4, BoundsAssumption DEF Inv, TypeOK, PendingWritten
<1>8. \A d \in Chans : d # c => tpc'[d] = tpc[d] /\ threw'[d] = threw[d]
  BY <1>2 DEF Inv, TypeOK
<1>9. tpc'[c] = label /\ tpc[c] \notin {"none", "ended"} /\ label \notin {"none", "ended"}
  BY <1>2 DEF Inv, TypeOK
<1>10. ASSUME NEW i \in DOMAIN faults_
       PROVE  LET d == faults_[i].channel IN
              d # c /\ d \in Chans /\ tpc'[d] = tpc[d] /\ threw'[d] = threw[d]
  BY <1>8, <1>9, FaultType DEF Inv, FaultsAreFinal
<1>11. ThreadOfTask'
  BY <1>1, <1>3, <1>8, <1>9 DEF Inv, ThreadOfTask, mainVars
<1>12. MainKnows'
  <2>1. mpc = "join" => current # c
    BY <1>9 DEF Inv, MainKnows
  <2>2. mpc = "join" => current \in Chans
    BY FirstFault DEF Inv, MainKnows
  <2>3. mpc = "join" => tpc'[current] = tpc[current]
    BY <1>8, <2>1, <2>2
  <2>4. QED
    BY <1>1, <2>3 DEF Inv, MainKnows, mainVars
<1>13. OneAtATime' /\ ResultPerAdd'
  BY <1>1 DEF Inv, OneAtATime, ResultPerAdd, mainVars
<1>14. FaultsAreFinal'
  BY <1>1, <1>10, FaultsFrame DEF Inv, FaultsAreFinal, mainVars
<1>15. ThrowsKnown'
  <2>1. \A i \in DOMAIN faults_' : faults_'[i].error = threw'[faults_'[i].channel]
    BY <1>1, <1>10 DEF Inv, ThrowsKnown
  <2>2. ASSUME NEW d \in Chans
        PROVE  /\ tpc'[d] \in {"wait", "check", "read", "handler", "closing"} => ~threw'[d]
               /\ tpc'[d] = "throwing" => threw'[d]
               /\ d \in tasks_' /\ d \in sync' /\ threw'[d] =>
                     faults_' # <<>> /\ faults_'[1].channel = d
    <3>1. CASE d = c
      <4>1. d \notin sync'
        BY <1>1, <1>3, <3>1
      <4>2. label = "throwing" => threw'[c]
        BY <1>2 DEF Inv, TypeOK
      <4>3. label # "throwing" => ~threw'[c]
        BY <1>2, <1>3
      <4>4. QED
        BY <1>9, <3>1, <4>1, <4>2, <4>3
    <3>2. CASE d # c
      BY <1>1, <1>8, <3>2 DEF Inv, ThrowsKnown, mainVars
    <3>3. QED
      BY <3>1, <3>2
  <2>3. QED
    BY <2>1, <2>2 DEF ThrowsKnown
<1>16. QED
  BY <1>6, <1>7, <1>11, <1>12, <1>13, <1>14, <1>15 DEF Inv

\* A thread that found its channel closed, or whose handler threw, leaves its
\* fault.
LEMMA ThreadFaultInv ==
    ASSUME Inv, NEW c \in Chans, ThreadFault(c)
    PROVE  Inv'
<1> DEFINE e == (tpc[c] = "throwing")
           n == Len(faults_)
<1>1. UNCHANGED <<mainVars, pending, written, alive, sync, history>>
  BY DEF ThreadFault
<1>2. mpc # "join" /\ tpc[c] \in {"closing", "throwing"} /\ set_fault(c, e)
  BY DEF ThreadFault, MutexFree
<1>3. tpc' = [tpc EXCEPT ![c] = "ended"]
  BY DEF ThreadFault, ThreadGoto
<1>4. c \in tasks_ /\ c \notin sync
  BY <1>2 DEF Inv, ThreadOfTask
<1>5. tpc'[c] = "ended" /\ \A d \in Chans \ {c} : tpc'[d] = tpc[d]
  BY <1>3 DEF Inv, TypeOK
<1>6. \A i \in DOMAIN faults_ : faults_[i].channel # c
  BY <1>2 DEF Inv, FaultsAreFinal
<1>7. /\ FaultsAreFinal'
      /\ faults_' \in Seq(Results)
      /\ DOMAIN faults_' = 1 .. n + 1
      /\ faults_'[n + 1] = [channel |-> c, error |-> e]
      /\ \A i \in DOMAIN faults_ : i \in 1 .. n /\ faults_'[i] = faults_[i]
  <2>1. e \in BOOLEAN /\ UNCHANGED tasks_
    BY <1>1 DEF mainVars
  <2>2. QED
    BY <1>2, <1>4, <1>5, <1>6, <2>1, FaultAppended
<1>8. open' \in [Chans -> BOOLEAN] /\ tpc' \in [Chans -> ThreadPc]
  BY <1>2, <1>3 DEF set_fault, Inv, TypeOK, ThreadPc
<1>9. TypeOK'
  BY <1>1, <1>7, <1>8 DEF Inv, TypeOK, mainVars, history
<1>10. PendingWritten' /\ ResultPerAdd'
  BY <1>1 DEF Inv, PendingWritten, ResultPerAdd, mainVars, history
<1>11. ThreadOfTask'
  BY <1>1, <1>4, <1>5 DEF Inv, ThreadOfTask, mainVars
<1>12. MainKnows'
  BY <1>1, <1>2 DEF Inv, MainKnows, mainVars
<1>13. OneAtATime'
  BY <1>1, <1>4 DEF Inv, OneAtATime
<1>14. ThrowsKnown'
  <2>1. e = threw[c]
    BY <1>2 DEF Inv, ThrowsKnown, TypeOK
  <2>2. ASSUME NEW i \in DOMAIN faults_' PROVE faults_'[i].error = threw'[faults_'[i].channel]
    <3>1. CASE i = n + 1
      BY <1>1, <1>7, <2>1, <3>1 DEF history
    <3>2. CASE i \in 1 .. n
      <4>1. i \in DOMAIN faults_
        BY <3>2 DEF Inv, TypeOK
      <4>2. QED
        BY <1>1, <1>7, <4>1 DEF Inv, ThrowsKnown, history
    <3>3. QED
      BY <1>7, <2>2, <3>1, <3>2 DEF Inv, TypeOK
  <2>3. ASSUME NEW d \in Chans
        PROVE  /\ tpc'[d] \in {"wait", "check", "read", "handler", "closing"} => ~threw'[d]
               /\ tpc'[d] = "throwing" => threw'[d]
               /\ d \in tasks_' /\ d \in sync' /\ threw'[d] =>
                     faults_' # <<>> /\ faults_'[1].channel = d
    <3>1. CASE d = c
      BY <1>1, <1>4, <1>5, <3>1
    <3>2. CASE d # c
      <4>1. d \in tasks_ /\ d \in sync /\ threw[d] =>
               1 \in DOMAIN faults_ /\ faults_[1].channel = d
        BY FirstFault DEF Inv, ThrowsKnown
      <4>2. d \in tasks_' /\ d \in sync' /\ threw'[d] =>
               1 \in DOMAIN faults_' /\ faults_'[1].channel = d
        BY <1>1, <1>7, <4>1 DEF mainVars, history, Inv, TypeOK
      <4>3. DOMAIN <<>> = {}
        OBVIOUS
      <4>4. QED
        BY <1>1, <1>5, <3>2, <4>2, <4>3 DEF Inv, ThrowsKnown, history
    <3>3. QED
      BY <3>1, <3>2
  <2>4. QED
    BY <2>2, <2>3 DEF ThrowsKnown
<1>15. QED
  BY <1>7, <1>9, <1>10, <1>11, <1>12, <1>13, <1>14 DEF Inv

\* A channel is added, with a thread if it is asynchronous.
LEMMA AddInv ==
    ASSUME Inv, NEW c \in Chans, Add(c)
    PROVE  Inv'
<1>1. UNCHANGED <<mpc, todo, current, stopping, dying, faults_, chanVars, reported>>
  BY DEF Add
<1>2. /\ mpc = "out" /\ c \notin tasks_ /\ tasks_' = tasks_ \cup {c}
      /\ added[c] < MaxAdds /\ added' = [added EXCEPT ![c] = @ + 1]
      /\ threw' = [threw EXCEPT ![c] = FALSE]
      /\ tpc' = [tpc EXCEPT ![c] = IF c \in sync THEN "none" ELSE "wait"]
  BY DEF Add, ThreadGoto
<1>3. \A d \in Chans : d # c =>
          tpc'[d] = tpc[d] /\ threw'[d] = threw[d] /\ added'[d] = added[d]
  BY <1>2 DEF Inv, TypeOK
<1>4. /\ tpc'[c] = (IF c \in sync THEN "none" ELSE "wait")
      /\ ~threw'[c]
      /\ added'[c] = added[c] + 1
  BY <1>2 DEF Inv, TypeOK
<1>5. TypeOK'
  <2>1. added' \in [Chans -> 0 .. MaxAdds]
    BY <1>2, BoundsAssumption DEF Inv, TypeOK
  <2>2. tpc' \in [Chans -> ThreadPc] /\ threw' \in [Chans -> BOOLEAN]
    BY <1>2 DEF Inv, TypeOK, ThreadPc
  <2>3. QED
    BY <1>1, <1>2, <2>1, <2>2 DEF Inv, TypeOK, chanVars
<1>6. PendingWritten' /\ OneAtATime'
  BY <1>1 DEF Inv, PendingWritten, OneAtATime, chanVars
<1>7. ThreadOfTask'
  BY <1>1, <1>2, <1>3, <1>4 DEF Inv, ThreadOfTask, chanVars
<1>8. MainKnows'
  BY <1>1, <1>2 DEF Inv, MainKnows
<1>9. ASSUME NEW i \in DOMAIN faults_
      PROVE  LET d == faults_[i].channel IN
             d # c /\ d \in Chans /\ tpc'[d] = tpc[d] /\ threw'[d] = threw[d]
  BY <1>2, <1>3, FaultType DEF Inv, FaultsAreFinal
<1>10. FaultsAreFinal'
  BY <1>1, <1>2, <1>9, FaultsFrame DEF Inv, FaultsAreFinal, chanVars
<1>11. ThrowsKnown'
  <2>1. \A i \in DOMAIN faults_' : faults_'[i].error = threw'[faults_'[i].channel]
    BY <1>1, <1>9 DEF Inv, ThrowsKnown
  <2>2. ASSUME NEW d \in Chans
        PROVE  /\ tpc'[d] \in {"wait", "check", "read", "handler", "closing"} => ~threw'[d]
               /\ tpc'[d] = "throwing" => threw'[d]
               /\ d \in tasks_' /\ d \in sync' /\ threw'[d] =>
                     faults_' # <<>> /\ faults_'[1].channel = d
    <3>1. CASE d = c
      BY <1>4, <3>1
    <3>2. CASE d # c
      BY <1>1, <1>2, <1>3, <3>2 DEF Inv, ThrowsKnown, chanVars
    <3>3. QED
      BY <3>1, <3>2
  <2>3. QED
    BY <2>1, <2>2 DEF ThrowsKnown
<1>12. ResultPerAdd'
  <2>1. added[c] = reported[c] + 0 /\ reported[c] \in Nat
    BY <1>2 DEF Inv, ResultPerAdd, TypeOK
  <2>2. ASSUME NEW d \in Chans
        PROVE  added'[d] = reported'[d] + (IF d \in tasks_' THEN 1 ELSE 0)
    <3>1. CASE d = c
      BY <1>1, <1>2, <1>4, <2>1, <3>1
    <3>2. CASE d # c
      <4>1. d \in tasks_' <=> d \in tasks_
        BY <1>2, <3>2
      <4>2. QED
        BY <1>1, <1>3, <3>2, <4>1 DEF Inv, ResultPerAdd
    <3>3. QED
      BY <3>1, <3>2
  <2>3. QED
    BY <2>2 DEF ResultPerAdd
<1>13. QED
  BY <1>5, <1>6, <1>7, <1>8, <1>10, <1>11, <1>12 DEF Inv

\* A synchronous channel is destroyed, or a new one takes its address.
LEMMA LifeInv ==
    ASSUME Alike, Inv, NEW c \in Chans, DestroyChannel(c) \/ Construct(c)
    PROVE  Inv'
<1>1. UNCHANGED <<tasks_, todo, stopping, dying, faults_, tpc, written, sync, history>>
  BY DEF DestroyChannel, Construct, mainVars
<1>2. mpc = "out" /\ sync = Chans
  <2>1. DestroyChannel(c) => c \in sync
    BY DEF DestroyChannel, Kind, Alike
  <2>2. Construct(c) => sync # {}
    BY DEF Construct, Inv, OneAtATime
  <2>3. QED
    BY <2>1, <2>2, Modes DEF Inv, DestroyChannel, Construct
<1>3. faults_ = <<>>
  BY <1>2 DEF Inv, OneAtATime
<1>4. \/ mpc' = mpc /\ current' = current
      \/ mpc' = "drop" /\ current' = c /\ c \in tasks_
  BY DEF DestroyChannel, Construct, mainVars
<1>5. /\ pending' \in [Chans -> 0 .. MaxMessages]
      /\ \A d \in Chans : pending'[d] <= written[d]
      /\ alive' \in [Chans -> BOOLEAN] /\ open' \in [Chans -> BOOLEAN]
  <2>1. CASE DestroyChannel(c)
    BY <2>1 DEF DestroyChannel, Inv, TypeOK, PendingWritten
  <2>2. CASE Construct(c)
    BY <2>2, BoundsAssumption DEF Construct, Inv, TypeOK, PendingWritten
  <2>3. QED
    BY <2>1, <2>2
<1>6. TypeOK' /\ PendingWritten'
  BY <1>1, <1>4, <1>5 DEF Inv, TypeOK, PendingWritten, MainPc, history
<1>7. ThreadOfTask' /\ ResultPerAdd'
  BY <1>1 DEF Inv, ThreadOfTask, ResultPerAdd, history
<1>8. MainKnows'
  BY <1>1, <1>2, <1>4 DEF Inv, MainKnows
<1>9. OneAtATime'
  BY <1>1, <1>2, <1>3 DEF OneAtATime
<1>10. FaultsAreFinal'
  <2>1. DOMAIN faults_' = {}
    BY <1>1, <1>3
  <2>2. QED
    BY <2>1 DEF FaultsAreFinal
<1>11. ThrowsKnown'
  BY <1>1 DEF Inv, ThrowsKnown, history
<1>12. QED
  BY <1>6, <1>7, <1>8, <1>9, <1>10, <1>11 DEF Inv

\* run() starts, finishes and repeats its scan, and finds a channel open:
\* only the main thread's place in the loop changes.
LEMMA ScanInv ==
    ASSUME Inv, Run \/ ScanDone \/ SyncOpen \/ NoFault \/ ScanPoll
    PROVE  Inv'
<1>1. UNCHANGED <<tasks_, stopping, dying, faults_, tpc, chanVars, history>>
  BY DEF Run, ScanDone, SyncOpen, NoFault, ScanPoll, StartScan
<1>2. todo # {} => First(todo) \in todo /\ First(todo) \in Chans
  BY FirstIn DEF Inv, TypeOK
<1>3. TypeOK'
  <2>1. mpc' \in MainPc /\ todo' \subseteq tasks_ /\ current' \in Chans \cup {NoChan}
    BY <1>2 DEF Run, ScanDone, SyncOpen, NoFault, ScanPoll, StartScan, Inv, TypeOK, MainPc
  <2>2. QED
    BY <1>1, <2>1 DEF Inv, TypeOK, chanVars, history
<1>4. PendingWritten' /\ ThreadOfTask' /\ FaultsAreFinal' /\ ThrowsKnown' /\ ResultPerAdd'
  BY <1>1 DEF Inv, PendingWritten, ThreadOfTask, FaultsAreFinal, ThrowsKnown,
              ResultPerAdd, chanVars, history
<1>5. MainKnows'
  <2>1. CASE Run
    BY <2>1 DEF Run, StartScan, Inv, MainKnows
  <2>2. CASE ScanDone
    BY <2>2 DEF ScanDone, Inv, MainKnows
  <2>3. CASE SyncOpen
    BY <2>3 DEF SyncOpen, Inv, MainKnows, chanVars
  <2>4. CASE NoFault
    BY <2>4 DEF NoFault, StartScan, Inv, MainKnows
  <2>5. CASE ScanPoll
    <3>1. mpc = "scan" /\ todo' = todo \ {First(todo)} /\ First(todo) \in tasks_
      BY <1>2, <2>5 DEF ScanPoll, Inv, TypeOK
    <3>2. \/ mpc' = "check" /\ current' = First(todo) /\ First(todo) \in sync
          \/ mpc' = "scan"
      BY <2>5, <3>1 DEF ScanPoll
    <3>3. UNCHANGED <<tasks_, stopping, dying, sync>>
      BY <1>1 DEF chanVars
    <3>4. stopping \/ ~dying
      BY <3>1 DEF Inv, MainKnows
    <3>5. QED
      BY <3>1, <3>2, <3>3, <3>4 DEF MainKnows, Inv, TypeOK
  <2>6. QED
    BY <2>1, <2>2, <2>3, <2>4, <2>5
<1>6. OneAtATime'
  BY <1>1 DEF Run, ScanDone, SyncOpen, NoFault, ScanPoll, Inv, OneAtATime, chanVars
<1>7. QED
  BY <1>3, <1>4, <1>5, <1>6 DEF Inv

\* A handler that run() called returns.
LEMMA SyncReturnsInv ==
    ASSUME Inv, SyncHandlerReturns
    PROVE  Inv'
<1>1. /\ UNCHANGED <<tasks_, todo, stopping, dying, faults_, tpc, open, written, alive, sync>>
      /\ UNCHANGED history
      /\ mpc = "call" /\ mpc' = "scan" /\ current' = NoChan
  BY DEF SyncHandlerReturns
<1>2. current \in sync /\ current \in tasks_ /\ current \in Chans
  BY <1>1 DEF Inv, MainKnows, TypeOK
<1>3. /\ pending' \in [Chans -> 0 .. MaxMessages]
      /\ \A d \in Chans : pending'[d] <= pending[d]
  <2>1. CASE UNCHANGED pending
    BY <2>1 DEF Inv, TypeOK
  <2>2. CASE pending[current] > 0 /\ pending' = [pending EXCEPT ![current] = @ - 1]
    BY <1>2, <2>2, BoundsAssumption DEF Inv, TypeOK
  <2>3. QED
    BY <2>1, <2>2 DEF SyncHandlerReturns, Takes, CanRead
<1>4. TypeOK'
  BY <1>1, <1>3 DEF Inv, TypeOK, MainPc, history
<1>5. PendingWritten'
  BY <1>1, <1>3, BoundsAssumption DEF Inv, TypeOK, PendingWritten
<1>6. ThreadOfTask' /\ FaultsAreFinal' /\ ThrowsKnown' /\ ResultPerAdd'
  BY <1>1 DEF Inv, ThreadOfTask, FaultsAreFinal, ThrowsKnown, ResultPerAdd, history
<1>7. MainKnows' /\ OneAtATime'
  BY <1>1 DEF Inv, MainKnows, OneAtATime
<1>8. QED
  BY <1>4, <1>5, <1>6, <1>7 DEF Inv

\* run() finds a synchronous channel closed, or its handler throws: there is
\* no other fault, so this one is first, and its channel had left none.
LEMMA SyncFaultInv ==
    ASSUME Alike, Inv, SyncClosed \/ SyncHandlerThrows
    PROVE  Inv'
<1> DEFINE c == current
<1>1. c \in sync /\ c \in tasks_ /\ c \in Chans /\ sync = Chans /\ mpc \in {"check", "call"}
  BY Modes DEF SyncClosed, SyncHandlerThrows, Inv, MainKnows, TypeOK
<1>2. faults_ = <<>>
  BY <1>1 DEF Inv, OneAtATime
<1>3. /\ UNCHANGED <<tasks_, stopping, dying, tpc, written, alive, sync, added, reported>>
      /\ mpc' = "faults" /\ todo' = {} /\ current' = NoChan
  BY DEF SyncClosed, SyncHandlerThrows, BreakScan, history
<1>4. PICK e \in BOOLEAN :
         /\ set_fault(c, e)
         /\ IF e THEN threw' = [threw EXCEPT ![c] = TRUE] ELSE UNCHANGED threw
  BY DEF SyncClosed, SyncHandlerThrows, history
<1>5. /\ pending' \in [Chans -> 0 .. MaxMessages]
      /\ \A d \in Chans : pending'[d] <= pending[d]
  <2>1. CASE UNCHANGED pending
    BY <2>1 DEF Inv, TypeOK
  <2>2. CASE pending[c] > 0 /\ pending' = [pending EXCEPT ![c] = @ - 1]
    BY <1>1, <2>2, BoundsAssumption DEF Inv, TypeOK
  <2>3. QED
    BY <2>1, <2>2 DEF SyncClosed, SyncHandlerThrows, Takes, CanRead
<1>6. tpc[c] = "none" /\ DOMAIN faults_ = {} /\ Len(faults_) = 0
  BY <1>1, <1>2 DEF Inv, ThreadOfTask
<1>7. /\ FaultsAreFinal'
      /\ faults_' \in Seq(Results)
      /\ DOMAIN faults_' = 1 .. 0 + 1
      /\ faults_'[0 + 1] = [channel |-> c, error |-> e]
  BY <1>1, <1>3, <1>4, <1>6, FaultAppended
<1>8. open' \in [Chans -> BOOLEAN] /\ threw' \in [Chans -> BOOLEAN]
  BY <1>4 DEF set_fault, Inv, TypeOK
<1>9. TypeOK'
  BY <1>3, <1>5, <1>7, <1>8 DEF Inv, TypeOK, MainPc
<1>10. PendingWritten'
  BY <1>3, <1>5, BoundsAssumption DEF Inv, TypeOK, PendingWritten
<1>11. ThreadOfTask' /\ ResultPerAdd'
  BY <1>3 DEF Inv, ThreadOfTask, ResultPerAdd
<1>12. MainKnows'
  BY <1>1, <1>3 DEF Inv, MainKnows
<1>13. OneAtATime'
  <2>1. Len(faults_') = 1
    BY <1>7
  <2>2. QED
    BY <1>3, <2>1 DEF Inv, OneAtATime
<1>14. ThrowsKnown'
  <2>1. ~threw[c]
    BY <1>1, <1>2 DEF Inv, ThrowsKnown
  <2>2. e = threw'[c]
    BY <1>1, <1>4, <2>1 DEF Inv, TypeOK
  <2>3. \A i \in DOMAIN faults_' : i = 1
    BY <1>7
  <2>4. faults_'[1].channel = c /\ faults_'[1].error = e
    BY <1>7
  <2>5. \A i \in DOMAIN faults_' : faults_'[i].error = threw'[faults_'[i].channel]
    BY <2>2, <2>3, <2>4
  <2>6. faults_' # <<>>
    <3>1. 1 \in DOMAIN faults_' /\ DOMAIN <<>> = {}
      BY <1>7
    <3>2. QED
      BY <3>1
  <2>7. ASSUME NEW d \in Chans
        PROVE  /\ tpc'[d] \in {"wait", "check", "read", "handler", "closing"} => ~threw'[d]
               /\ tpc'[d] = "throwing" => threw'[d]
               /\ d \in tasks_' /\ d \in sync' /\ threw'[d] =>
                     faults_' # <<>> /\ faults_'[1].channel = d
    <3>1. tpc'[d] = "none"
      BY <1>1, <1>3 DEF Inv, ThreadOfTask
    <3>2. d # c /\ d \in tasks_ => ~threw[d]
      BY <1>1, <1>2 DEF Inv, ThrowsKnown
    <3>3. d # c => threw'[d] = threw[d]
      BY <1>4 DEF Inv, TypeOK
    <3>4. QED
      BY <1>3, <2>4, <2>6, <3>1, <3>2, <3>3
  <2>8. QED
    BY <2>5, <2>7 DEF ThrowsKnown
<1>15. QED
  BY <1>7, <1>9, <1>10, <1>11, <1>12, <1>13, <1>14 DEF Inv

\* run() takes the first fault: it is about to join the thread of its channel,
\* or erases the task and returns, to its caller or to stop().
LEMMA TakeFaultInv ==
    ASSUME Alike, Inv, NEW c \in Chans,
           mpc \in {"faults", "join"}, faults_ # <<>>, c = faults_[1].channel,
           mpc = "faults" => tpc[c] = "none",
           tasks_' = tasks_ \ {c},
           faults_' = Tail(faults_),
           reported' = [reported EXCEPT ![c] = @ + 1],
           Return(tasks_ \ {c}),
           tpc' = [tpc EXCEPT ![c] = "none"],
           current' \in {current, NoChan},
           UNCHANGED <<dying, chanVars, added, threw>>
    PROVE  Inv' /\ (stopping /\ ~stopping' => tasks_' = {})
<1>1. /\ FaultsAreFinal'
      /\ 1 \in DOMAIN faults_
      /\ faults_' \in Seq(Results)
      /\ Len(faults_') = Len(faults_) - 1
      /\ \A i \in DOMAIN faults_' :
            /\ i + 1 \in DOMAIN faults_
            /\ faults_'[i] = faults_[i + 1]
            /\ faults_'[i].channel # c
  <2>1. \A d \in Chans \ {c} : tpc'[d] = tpc[d]
    BY DEF Inv, TypeOK
  <2>2. UNCHANGED open
    BY DEF chanVars
  <2>3. QED
    BY <2>1, <2>2, FaultPopped
<1>2. c \in tasks_
  BY <1>1 DEF Inv, FaultsAreFinal
<1>3. /\ stopping' = (stopping /\ tasks_' # {})
      /\ \/ stopping' /\ mpc' = "scan" /\ todo' = tasks_'
         \/ ~stopping' /\ mpc' = (IF dying THEN "gone" ELSE "out") /\ todo' = {}
  BY DEF Return, Inv, TypeOK
<1>4. stopping' \in BOOLEAN /\ (stopping /\ ~stopping' => tasks_' = {})
  BY <1>3 DEF Inv, TypeOK
<1>5. \A d \in Chans : tpc'[d] = (IF d = c THEN "none" ELSE tpc[d])
  BY DEF Inv, TypeOK
<1>6. \A d \in Chans : reported'[d] = (IF d = c THEN reported[d] + 1 ELSE reported[d])
  BY DEF Inv, TypeOK
<1>7. TypeOK'
  <2>1. reported' \in [Chans -> Nat] /\ tpc' \in [Chans -> ThreadPc]
    BY DEF Inv, TypeOK, ThreadPc
  <2>2. mpc' \in MainPc /\ todo' \subseteq tasks_' /\ tasks_' \subseteq Chans
    BY <1>3 DEF MainPc, Inv, TypeOK
  <2>3. current' \in Chans \cup {NoChan}
    BY DEF Inv, TypeOK
  <2>4. QED
    BY <1>1, <1>4, <2>1, <2>2, <2>3 DEF Inv, TypeOK, chanVars
<1>8. PendingWritten'
  BY DEF Inv, PendingWritten, chanVars
<1>9. ThreadOfTask'
  BY <1>5 DEF Inv, ThreadOfTask, chanVars
<1>10. MainKnows'
  <2>1. dying => stopping
    BY DEF Inv, MainKnows
  <2>2. mpc' = "gone" => dying /\ ~stopping'
    BY <1>3
  <2>3. mpc' = "gone" => tasks_' = {}
    BY <1>4, <2>1, <2>2
  <2>4. dying' => stopping' \/ mpc' = "gone"
    BY <1>3
  <2>5. QED
    BY <1>3, <2>3, <2>4 DEF MainKnows
<1>11. OneAtATime'
  <2>1. sync = Chans => Len(faults_) = 1
    BY DEF Inv, OneAtATime
  <2>2. sync = Chans => faults_' = <<>>
    BY <1>1, <2>1, EmptySeq
  <2>3. QED
    BY <2>2 DEF Inv, OneAtATime, chanVars
<1>12. ThrowsKnown'
  <2>1. \A i \in DOMAIN faults_' : faults_'[i].error = threw'[faults_'[i].channel]
    BY <1>1 DEF Inv, ThrowsKnown
  <2>2. ASSUME NEW d \in Chans
        PROVE  /\ tpc'[d] \in {"wait", "check", "read", "handler", "closing"} => ~threw'[d]
               /\ tpc'[d] = "throwing" => threw'[d]
               /\ d \in tasks_' /\ d \in sync' /\ threw'[d] =>
                     faults_' # <<>> /\ faults_'[1].channel = d
    <3>1. CASE d = c
      BY <1>5, <3>1
    <3>2. CASE d # c
      BY <1>5, <3>2 DEF Inv, ThrowsKnown, chanVars
    <3>3. QED
      BY <3>1, <3>2
  <2>3. QED
    BY <2>1, <2>2 DEF ThrowsKnown
<1>13. ResultPerAdd'
  <2>1. ASSUME NEW d \in Chans
        PROVE  added'[d] = reported'[d] + (IF d \in tasks_' THEN 1 ELSE 0)
    <3>1. added[d] = reported[d] + (IF d \in tasks_ THEN 1 ELSE 0) /\ reported[d] \in Nat
      BY DEF Inv, ResultPerAdd, TypeOK
    <3>2. CASE d = c
      BY <1>2, <1>6, <3>1, <3>2
    <3>3. CASE d # c
      BY <1>6, <3>1, <3>3
    <3>4. QED
      BY <3>2, <3>3
  <2>2. QED
    BY <2>1 DEF ResultPerAdd
<1>14. QED
  BY <1>1, <1>4, <1>7, <1>8, <1>9, <1>10, <1>11, <1>12, <1>13 DEF Inv

\* The first fault's task is erased at once if it has no thread.
LEMMA PopFaultInv ==
    ASSUME Alike, Inv, PopFault
    PROVE  Inv' /\ (stopping /\ ~stopping' => tasks_' = {})
<1> DEFINE c == faults_[1].channel
<1>1. mpc = "faults" /\ faults_ # <<>>
  BY DEF PopFault
<1>2. 1 \in DOMAIN faults_ /\ Head(faults_) = faults_[1] /\ c \in Chans
  BY <1>1, FirstFault DEF Inv
<1>3. c \in tasks_ /\ tpc[c] \in {"none", "ended"}
  BY <1>2 DEF Inv, FaultsAreFinal
<1>4. CASE tpc[c] = "none"
  <2>1. tpc' = [tpc EXCEPT ![c] = "none"]
    BY <1>2, <1>4 DEF PopFault, Inv, TypeOK
  <2>2. /\ tasks_' = tasks_ \ {c}
        /\ faults_' = Tail(faults_)
        /\ reported' = [reported EXCEPT ![c] = @ + 1]
        /\ Return(tasks_ \ {c})
        /\ current' \in {current, NoChan}
        /\ UNCHANGED <<dying, chanVars, added, threw>>
    BY <1>2, <1>4 DEF PopFault
  <2>3. QED
    BY <1>1, <1>2, <1>4, <2>1, <2>2, TakeFaultInv
<1>5. CASE tpc[c] = "ended"
  <2>1. /\ mpc' = "join" /\ current' = c
        /\ UNCHANGED <<tasks_, faults_, todo, stopping, reported, dying, tpc, chanVars,
                       added, threw>>
    BY <1>2, <1>3, <1>5 DEF PopFault
  <2>2. TypeOK'
    BY <1>2, <2>1 DEF Inv, TypeOK, MainPc, chanVars
  <2>3. /\ PendingWritten' /\ ThreadOfTask' /\ FaultsAreFinal' /\ ThrowsKnown'
        /\ ResultPerAdd'
    BY <2>1 DEF Inv, PendingWritten, ThreadOfTask, FaultsAreFinal, ThrowsKnown,
                ResultPerAdd, chanVars
  <2>4. MainKnows'
    BY <1>1, <1>5, <2>1 DEF Inv, MainKnows
  <2>5. sync # Chans
    BY <1>2, <1>5 DEF Inv, ThreadOfTask
  <2>6. OneAtATime'
    BY <2>1, <2>5 DEF Inv, OneAtATime, chanVars
  <2>7. QED
    BY <2>1, <2>2, <2>3, <2>4, <2>6 DEF Inv
<1>6. QED
  BY <1>3, <1>4, <1>5

\* The thread has ended: its task is erased.
LEMMA JoinFaultedInv ==
    ASSUME Alike, Inv, JoinFaulted
    PROVE  Inv' /\ (stopping /\ ~stopping' => tasks_' = {})
<1>1. mpc = "join" /\ faults_ # <<>> /\ current = faults_[1].channel
  BY DEF JoinFaulted, Inv, MainKnows
<1>2. current \in Chans
  BY <1>1, FirstFault DEF Inv
<1>3. QED
  BY <1>1, <1>2, TakeFaultInv DEF JoinFaulted

\* stop() closes the channels of the set one by one, then scans.
LEMMA StopInv ==
    ASSUME Inv, Stop \/ StopClose
    PROVE  Inv' /\ (stopping => stopping')
<1>1. /\ UNCHANGED <<tasks_, current, faults_, tpc, pending, written, alive, sync, history>>
      /\ mpc \in {"out", "close"}
  BY DEF Stop, StopClose, StartScan, chanVars
<1>2. todo # {} => First(todo) \in todo /\ First(todo) \in Chans
  BY FirstIn DEF Inv, TypeOK
<1>3. \A d \in Chans : open'[d] => open[d]
  BY <1>2 DEF Stop, StopClose, Inv, TypeOK, chanVars
<1>4. open' \in [Chans -> BOOLEAN]
  BY <1>2 DEF Stop, StopClose, Inv, TypeOK, chanVars
<1>5. /\ mpc' \in MainPc /\ todo' \subseteq tasks_
      /\ stopping' \in BOOLEAN /\ dying' \in BOOLEAN
  BY DEF Stop, StopClose, StartScan, Inv, TypeOK, MainPc
<1>6. TypeOK'
  BY <1>1, <1>4, <1>5 DEF Inv, TypeOK, history
<1>7. PendingWritten' /\ ThreadOfTask' /\ ThrowsKnown' /\ ResultPerAdd'
  BY <1>1 DEF Inv, PendingWritten, ThreadOfTask, ThrowsKnown, ResultPerAdd, history
<1>8. FaultsAreFinal'
  <2>1. ASSUME NEW i \in DOMAIN faults_ PROVE ~open'[faults_[i].channel]
    BY <1>3, FaultType DEF Inv, FaultsAreFinal
  <2>2. QED
    BY <1>1, <2>1, FaultsFrame DEF Inv, FaultsAreFinal
<1>9. MainKnows' /\ (stopping => stopping')
  <2>1. CASE Stop
    <3>1. mpc = "out" /\ ~stopping /\ ~dying /\ todo = {}
      BY <2>1 DEF Stop, Inv, MainKnows
    <3>2. QED
      BY <1>1, <2>1, <3>1 DEF Stop, MainKnows
  <2>2. CASE StopClose
    <3>1. /\ mpc = "close" /\ mpc' \in {"close", "scan"} /\ UNCHANGED <<stopping, dying>>
      BY <2>2 DEF StopClose, StartScan
    <3>2. QED
      BY <1>1, <3>1 DEF Inv, MainKnows
  <2>3. QED
    BY <2>1, <2>2
<1>10. OneAtATime'
  BY <1>1 DEF Inv, OneAtATime
<1>11. QED
  BY <1>6, <1>7, <1>8, <1>9, <1>10 DEF Inv

\* The task of a destroyed channel, which is synchronous, is erased.
LEMMA DropInv ==
    ASSUME Alike, Inv, DropDestroyed
    PROVE  Inv'
<1> DEFINE c == current
<1>1. mpc = "drop" /\ c \in tasks_ /\ c \in sync /\ c \in Chans
  BY DEF DropDestroyed, Inv, MainKnows, TypeOK
<1>2. /\ tasks_' = tasks_ \ {c} /\ added' = [added EXCEPT ![c] = @ - 1]
      /\ mpc' = "out" /\ current' = NoChan
      /\ UNCHANGED <<todo, stopping, dying, faults_, chanVars, reported, threw>>
  BY DEF DropDestroyed
<1>3. UNCHANGED tpc
  <2>1. tpc[c] = "none"
    BY <1>1 DEF Inv, ThreadOfTask
  <2>2. QED
    BY <2>1 DEF DropDestroyed, Inv, TypeOK
<1>4. faults_ = <<>> /\ todo = {}
  BY <1>1, Modes DEF Inv, OneAtATime, MainKnows
<1>5. added[c] = reported[c] + 1 /\ reported[c] \in Nat
  BY <1>1 DEF Inv, ResultPerAdd, TypeOK
<1>6. TypeOK'
  <2>1. added[c] - 1 \in 0 .. MaxAdds
    BY <1>1, <1>5, BoundsAssumption DEF Inv, TypeOK
  <2>2. added' \in [Chans -> 0 .. MaxAdds]
    BY <1>2, <2>1 DEF Inv, TypeOK
  <2>3. QED
    BY <1>2, <1>3, <1>4, <2>2 DEF Inv, TypeOK, MainPc, chanVars
<1>7. PendingWritten' /\ OneAtATime'
  BY <1>2, <1>4 DEF Inv, PendingWritten, OneAtATime, chanVars
<1>8. ThreadOfTask'
  BY <1>1, <1>2, <1>3 DEF Inv, ThreadOfTask, chanVars
<1>9. MainKnows'
  BY <1>1, <1>2, <1>4 DEF Inv, MainKnows
<1>10. FaultsAreFinal'
  <2>1. DOMAIN faults_' = {}
    BY <1>2, <1>4
  <2>2. QED
    BY <2>1 DEF FaultsAreFinal
<1>11. ThrowsKnown'
  BY <1>2, <1>3 DEF Inv, ThrowsKnown, chanVars
<1>12. ResultPerAdd'
  <2>1. ASSUME NEW d \in Chans
        PROVE  added'[d] = reported'[d] + (IF d \in tasks_' THEN 1 ELSE 0)
    <3>1. CASE d = c
      BY <1>2, <1>5, <3>1 DEF Inv, TypeOK
    <3>2. CASE d # c
      BY <1>2, <3>2 DEF Inv, ResultPerAdd, TypeOK
    <3>3. QED
      BY <3>1, <3>2
  <2>2. QED
    BY <2>1 DEF ResultPerAdd
<1>13. QED
  BY <1>6, <1>7, <1>8, <1>9, <1>10, <1>11, <1>12 DEF Inv

\* Every step of the main thread, of the channels' threads and of their users
\* preserves the invariant, and stop() ends only when the set is empty.
LEMMA NextInv ==
    ASSUME Alike, Inv, [Next]_vars
    PROVE  Inv' /\ (stopping /\ ~stopping' => tasks_' = {})
<1>1. CASE UNCHANGED vars
  <2>1. Inv'
    BY <1>1 DEF vars, mainVars, chanVars, history, Inv, TypeOK, PendingWritten,
                ThreadOfTask, MainKnows, OneAtATime, FaultsAreFinal, ThrowsKnown,
                ResultPerAdd
  <2>2. QED
    BY <1>1, <2>1 DEF vars, mainVars
<1>2. ASSUME NEW c \in Chans,
             Write(c) \/ Close(c) \/ Thread(c) \/ Add(c) \/ DestroyChannel(c) \/ Construct(c)
      PROVE  Inv' /\ UNCHANGED stopping
  <2>1. UNCHANGED stopping
    BY <1>2 DEF Write, Close, Thread, ThreadWait, ThreadCheck, ThreadRead,
                ThreadHandlerReturns, ThreadHandlerThrows, ThreadFault, Add,
                DestroyChannel, Construct, mainVars
  <2>2. QED
    BY <1>2, <2>1, UserInv, ThreadInv, ThreadFaultInv, AddInv, LifeInv DEF Thread
<1>3. CASE \/ Run \/ ScanDone \/ ScanPoll \/ SyncOpen \/ NoFault
           \/ SyncClosed \/ SyncHandlerReturns \/ SyncHandlerThrows \/ DropDestroyed
  <2>1. UNCHANGED stopping
    BY <1>3 DEF Run, ScanDone, ScanPoll, SyncOpen, NoFault, SyncClosed, SyncHandlerReturns,
                SyncHandlerThrows, DropDestroyed
  <2>2. QED
    BY <1>3, <2>1, ScanInv, SyncReturnsInv, SyncFaultInv, DropInv
<1>4. CASE PopFault \/ JoinFaulted
  BY <1>4, PopFaultInv, JoinFaultedInv
<1>5. CASE Stop \/ StopClose
  BY <1>5, StopInv
<1>6. QED
  BY <1>1, <1>2, <1>3, <1>4, <1>5 DEF Next, MainProceeds, RunEmpty, Gone

\* However adding, polling, closing, throwing, stopping, destroying and the
\* threads' steps interleave, the invariant holds.
THEOREM Invariance == ASSUME Alike PROVE Spec => []Inv
<1>1. Init => Inv
  BY InitInv
<1>2. Inv /\ [Next]_vars => Inv'
  BY NextInv
<1>3. QED
  BY <1>1, <1>2, PTL DEF Spec

\* Every queued fault is final when run() joins the thread it names under the
\* lock, and the task that holds a handler outlives every call of it.
THEOREM TasksAreSafe == ASSUME Alike PROVE Spec => []TasksSafe
<1>1. Inv => TasksSafe
  BY DEF Inv, TasksSafe, HandlerOutlivesCalls, ThreadOfTask, MainKnows
<1>2. QED
  BY <1>1, Invariance, PTL

\* Each add() is answered by exactly one result of run().
THEOREM OneResultPerAdd == ASSUME Alike PROVE Spec => []ResultPerAdd
<1>1. Inv => ResultPerAdd
  BY DEF Inv
<1>2. QED
  BY <1>1, Invariance, PTL

\* Only the front fault is reported: a result changes the count of the
\* channel that faults_.front() names and of no other.
LEMMA ReportsFirst ==
    ASSUME Inv, [Next]_vars, NEW c \in Chans, reported'[c] # reported[c]
    PROVE  faults_ # <<>> /\ c = faults_[1].channel
<1>1. PopFault \/ JoinFaulted
  BY DEF Next, vars, history, Write, Close, Thread, ThreadWait, ThreadCheck, ThreadRead,
         ThreadHandlerReturns, ThreadHandlerThrows, ThreadFault, Add, DestroyChannel,
         Construct, Run, RunEmpty, Stop, MainProceeds, ScanDone, ScanPoll, SyncClosed,
         SyncOpen, SyncHandlerReturns, SyncHandlerThrows, NoFault, StopClose,
         DropDestroyed, Gone
<1>2. CASE PopFault
  <2>1. faults_ # <<>> /\ Head(faults_) = faults_[1]
    BY <1>2, FirstFault DEF PopFault, Inv
  <2>2. QED
    BY <1>2, <2>1 DEF PopFault, Inv, TypeOK
<1>3. CASE JoinFaulted
  BY <1>3 DEF JoinFaulted, Inv, MainKnows, TypeOK
<1>4. QED
  BY <1>1, <1>2, <1>3

\* A result is an error exactly if the handler threw: no close() that races
\* with an exception masks it.
THEOREM ErrorsNotMasked == ASSUME Alike PROVE Spec => ErrorNotMasked
<1>1. ASSUME Inv, [Next]_vars
      PROVE  [\A c \in Chans : reported'[c] # reported[c] => Head(faults_).error = threw[c]]_vars
  <2>1. ASSUME NEW c \in Chans, reported'[c] # reported[c]
        PROVE  Head(faults_).error = threw[c]
    <3>1. faults_ # <<>> /\ c = faults_[1].channel
      BY <1>1, <2>1, ReportsFirst
    <3>2. 1 \in DOMAIN faults_ /\ Head(faults_) = faults_[1]
      BY <1>1, <3>1, FirstFault DEF Inv
    <3>3. QED
      BY <1>1, <3>1, <3>2 DEF Inv, ThrowsKnown
  <2>2. QED
    BY <2>1
<1>2. QED
  BY <1>1, Invariance, PTL DEF Spec, ErrorNotMasked

\* stop() returns with an empty set, every thread joined and no result left.
THEOREM StopIsQuiet == ASSUME Alike PROVE Spec => StopQuiesces
<1>1. ASSUME Inv, [Next]_vars
      PROVE  [stopping /\ ~stopping' =>
                /\ tasks_' = {}
                /\ faults_' = <<>>
                /\ \A c \in Chans : tpc'[c] = "none"]_vars
  <2>1. ASSUME stopping, ~stopping'
        PROVE  tasks_' = {} /\ faults_' = <<>> /\ \A c \in Chans : tpc'[c] = "none"
    <3>1. Inv' /\ tasks_' = {}
      BY <1>1, <2>1, NextInv
    <3>2. DOMAIN faults_' = {} /\ faults_' \in Seq(Results)
      BY <3>1 DEF Inv, FaultsAreFinal, TypeOK
    <3>3. Len(faults_') = 0
      BY <3>2
    <3>4. faults_' = <<>>
      BY <3>2, <3>3, EmptySeq
    <3>5. QED
      BY <3>1, <3>4 DEF Inv, ThreadOfTask
  <2>2. QED
    BY <2>1
<1>2. QED
  BY <1>1, Invariance, PTL DEF Spec, StopQuiesces
=============================================================================
