--------------------------- MODULE ChannelProofs ----------------------------
(***************************************************************************)
(* Proofs about the five classes of channel, for any threads, any number   *)
(* of messages, values, bytes, ticks and calls of a generator.             *)
(***************************************************************************)
EXTENDS Channel, SequenceTheorems, FiniteSetTheorems, TLAPS

USE MaxWritesAssumption, ValuesAssumption, BufferAssumption, TimerAssumption, MaxCallsAssumption

\* notify_all() leaves nobody asleep.
LEMMA NotifyAllType ==
    ASSUME CondVarType, NotifyAll
    PROVE  CondVarType' /\ \A t \in Threads : wpc'[t] # "asleep"
  BY DEF NotifyAll, Notified, CondVarType


-----------------------------------------------------------------------------
(* QueueChannel                                                            *)

QueueWakes == \A t \in Threads : wpc[t] = "asleep" => ~QueueReady

QueueInv == QueueTypeOK /\ QueueWakes /\ InOrderOnce

\* What a step of the sleeping and waking threads does to the invariant.
LEMMA QueueSleepStep ==
    ASSUME QueueInv, NEW t \in Threads, QueueWait(t) \/ QueueWaitResumes(t)
    PROVE  QueueInv'
  <1> USE DEF QueueInv, QueueWait, QueueWaitResumes, FallAsleep, TimeOut, WakeSpuriously, Resume,
              queueVars
  <1>1. QueueTypeOK'
    BY DEF QueueTypeOK, ChannelBaseType, CondVarType
  <1>2. QueueWakes'
    BY DEF QueueTypeOK, ChannelBaseType, CondVarType, QueueWakes, QueueReady
  <1>3. InOrderOnce'
    BY DEF InOrderOnce, Increasing, Elements
  <1> QED
    BY <1>1, <1>2, <1>3

\* close() leaves the messages of a QueueChannel alone.
LEMMA QueueCloseStep ==
    ASSUME QueueInv, NEW t \in Threads, QueueClose(t)
    PROVE  QueueInv'
  BY NotifyAllType
  DEF QueueInv, QueueClose, QueueTypeOK, ChannelBaseType, QueueWakes, QueueReady, InOrderOnce, Increasing, Elements

\* clear() drops what is queued; what was read stays in order.
LEMMA QueueClearStep ==
    ASSUME QueueInv, NEW t \in Threads, QueueClear(t)
    PROVE  QueueInv'
  <1> USE DEF QueueInv, QueueClear
  <1>1. QueueTypeOK'
    BY DEF QueueTypeOK, ChannelBaseType, CondVarType
  <1>2. QueueWakes'
    BY DEF QueueWakes, QueueReady
  <1>3. InOrderOnce'
    <2>1. dropped' = dropped \cup Elements(queue_) /\ Elements(queue_') = {}
      BY DEF Elements
    <2>2. Elements(got) \cap Elements(queue_) = {}
      <3> SUFFICES ASSUME NEW i \in DOMAIN got, NEW k \in DOMAIN queue_ PROVE got[i] # queue_[k]
        BY DEF Elements
      <3>1. got[i] < queue_[k] /\ got[i] \in Int /\ queue_[k] \in Int
        BY DEF QueueTypeOK, ChannelBaseType, InOrderOnce, Messages
      <3> QED
        BY <3>1
    <2>3. /\ Elements(got) \cup Elements(queue_') \cup dropped' = 1 .. written
          /\ dropped' \cap (Elements(got) \cup Elements(queue_')) = {}
      BY <2>1, <2>2 DEF InOrderOnce
    <2>4. Increasing(queue_') /\ \A i \in DOMAIN got, k \in DOMAIN queue_' : got[i] < queue_'[k]
      BY DEF Increasing
    <2> QED
      BY <2>3, <2>4 DEF InOrderOnce, Elements
  <1> QED
    BY <1>1, <1>2, <1>3

\* write() puts the next message, which no one has, at the end.
LEMMA QueueWriteStep ==
    ASSUME QueueInv, NEW t \in Threads, QueueWrite(t)
    PROVE  QueueInv'
  <1> DEFINE m == written + 1
  <1>1. m \in Messages /\ written \in Nat
    BY DEF QueueInv, QueueTypeOK, ChannelBaseType, QueueWrite, Messages
  <1>2. queue_ \in Seq(Messages) /\ queue_' = Append(queue_, m)
    BY DEF QueueInv, QueueTypeOK, ChannelBaseType, QueueWrite
  <1>3. /\ Len(queue_') = Len(queue_) + 1
        /\ DOMAIN queue_ = 1 .. Len(queue_)
        /\ DOMAIN queue_' = 1 .. Len(queue_) + 1
        /\ \A i \in DOMAIN queue_ : queue_'[i] = queue_[i]
        /\ queue_'[Len(queue_) + 1] = m
        /\ Len(queue_) \in Nat
    BY <1>1, <1>2
  <1>4. QueueTypeOK'
    BY <1>1, <1>2, NotifyAllType DEF QueueInv, QueueTypeOK, ChannelBaseType, QueueWrite, Messages
  <1>5. QueueWakes'
    BY NotifyAllType DEF QueueInv, QueueTypeOK, ChannelBaseType, QueueWakes, QueueReady, QueueWrite
  <1>6. InOrderOnce'
    <2>1. UNCHANGED <<got, dropped>> /\ written' = m
      BY DEF QueueWrite
    <2>2. /\ \A i \in DOMAIN got : got[i] \in 1 .. written
          /\ \A i \in DOMAIN queue_ : queue_[i] \in 1 .. written
          /\ dropped \subseteq 1 .. written
      BY DEF QueueInv, InOrderOnce, Elements
    <2>3. Increasing(queue_')
      BY <1>1, <1>3, <2>2 DEF QueueInv, InOrderOnce, Increasing
    <2>4. \A i \in DOMAIN got, k \in DOMAIN queue_' : got[i] < queue_'[k]
      BY <1>1, <1>3, <2>2 DEF QueueInv, InOrderOnce
    <2>5. Elements(queue_') = Elements(queue_) \cup {m}
      BY <1>3 DEF Elements
    <2>6. 1 .. m = (1 .. written) \cup {m} /\ m \notin 1 .. written
      BY <1>1
    <2>7. m \notin dropped
      BY <2>2, <2>6
    <2> HIDE DEF m
    <2>8. Elements(got) \cup Elements(queue_') \cup dropped = 1 .. m
      BY <2>5, <2>6 DEF QueueInv, InOrderOnce
    <2>9. dropped \cap (Elements(got) \cup Elements(queue_')) = {}
      BY <2>5, <2>7 DEF QueueInv, InOrderOnce
    <2> QED
      BY <2>1, <2>3, <2>4, <2>8, <2>9 DEF QueueInv, InOrderOnce, Elements
  <1> QED
    BY <1>4, <1>5, <1>6 DEF QueueInv

\* read() takes the oldest message, newer than all that were read.
LEMMA QueueReadStep ==
    ASSUME QueueInv, NEW t \in Threads, QueueRead(t)
    PROVE  QueueInv'
  <1> DEFINE m == Head(queue_)
  <1>1. /\ queue_ \in Seq(Messages) /\ queue_ # <<>> /\ got \in Seq(Messages)
        /\ queue_' = Tail(queue_) /\ got' = Append(got, m)
        /\ UNCHANGED <<open_, written, dropped>> /\ open_
    BY DEF QueueInv, QueueTypeOK, ChannelBaseType, QueueRead
  <1>2. /\ DOMAIN queue_ = 1 .. Len(queue_)
        /\ DOMAIN queue_' = 1 .. Len(queue_) - 1
        /\ \A i \in DOMAIN queue_' : queue_'[i] = queue_[i + 1]
        /\ m = queue_[1] /\ 1 \in DOMAIN queue_ /\ m \in Messages
        /\ Len(queue_) \in Nat
        /\ queue_' \in Seq(Messages)
    BY <1>1
  <1>3. /\ DOMAIN got = 1 .. Len(got)
        /\ DOMAIN got' = 1 .. Len(got) + 1
        /\ \A i \in DOMAIN got : got'[i] = got[i]
        /\ got'[Len(got) + 1] = m
        /\ Len(got) \in Nat
        /\ got' \in Seq(Messages)
    BY <1>1, <1>2
  <1> HIDE DEF m
  <1>4. CondVarType' /\ \A u \in Threads : wpc'[u] = "asleep" => queue_' = <<>>
    <2>1. CASE queue_' # <<>>
      BY <2>1, NotifyAllType DEF QueueInv, QueueTypeOK, ChannelBaseType, QueueRead
    <2>2. CASE queue_' = <<>>
      BY <2>2 DEF QueueRead, QueueInv, QueueTypeOK, ChannelBaseType, CondVarType
    <2> QED
      BY <2>1, <2>2
  <1>5. QueueTypeOK'
    BY <1>1, <1>2, <1>3, <1>4 DEF QueueInv, QueueTypeOK, ChannelBaseType
  <1>6. QueueWakes'
    BY <1>1, <1>4 DEF QueueWakes, QueueReady
  <1>7. InOrderOnce'
    <2>1. Increasing(got')
      BY <1>2, <1>3 DEF QueueInv, InOrderOnce, Increasing
    <2>2. Increasing(queue_')
      BY <1>2 DEF QueueInv, InOrderOnce, Increasing
    <2>3. \A i \in DOMAIN got', k \in DOMAIN queue_' : got'[i] < queue_'[k]
      <3> TAKE i \in DOMAIN got', k \in DOMAIN queue_'
      <3>1. k + 1 \in DOMAIN queue_ /\ queue_'[k] = queue_[k + 1] /\ 1 < k + 1
        BY <1>2
      <3>2. m < queue_[k + 1]
        BY <1>2, <3>1 DEF QueueInv, InOrderOnce, Increasing
      <3>3. CASE i \in DOMAIN got
        BY <1>3, <3>1, <3>3 DEF QueueInv, InOrderOnce
      <3>4. CASE i = Len(got) + 1
        BY <1>3, <3>1, <3>2, <3>4
      <3> QED
        BY <1>3, <3>3, <3>4
    <2>4. Elements(got') = Elements(got) \cup {m}
      BY <1>3 DEF Elements
    <2>5. Elements(queue_) = Elements(queue_') \cup {m}
      <3>1. \A i \in DOMAIN queue_ : i = 1 \/ (i - 1 \in DOMAIN queue_' /\ queue_[i] = queue_'[i - 1])
        BY <1>2
      <3>2. \A i \in DOMAIN queue_' : i + 1 \in DOMAIN queue_ /\ queue_'[i] = queue_[i + 1]
        BY <1>2
      <3> QED
        BY <1>2, <3>1, <3>2 DEF Elements
    <2> QED
      BY <1>1, <2>1, <2>2, <2>3, <2>4, <2>5 DEF QueueInv, InOrderOnce
  <1> QED
    BY <1>5, <1>6, <1>7 DEF QueueInv

\* Every step of a QueueChannel preserves its invariant.
LEMMA QueueStep ==
    ASSUME QueueInv, QueueNext
    PROVE  QueueInv'
  BY QueueCloseStep, QueueReadStep, QueueClearStep, QueueWriteStep, QueueSleepStep DEF QueueNext

-----------------------------------------------------------------------------
(* ValueChannel                                                            *)

ValueWakes == \A t \in Threads : wpc[t] = "asleep" => ~ValueReady

\* The value held is the last one written, and has been seen unless it is new.
ValueAgrees ==
    /\ wrote \in {value_, NoValue}
    /\ status = 0 => seen \in {value_, NoValue}

ValueInv == ValueTypeOK /\ ValueWakes /\ ValueAgrees

\* Every step of a ValueChannel preserves its invariant.
LEMMA ValueStep ==
    ASSUME ValueInv, ValueNext
    PROVE  ValueInv'
  <1> USE DEF ValueInv, ValueTypeOK, ValueWakes, ValueReady, ValueAgrees
  <1> PICK t \in Threads :
        \/ ValueClose(t) \/ ValueRead(t) \/ ValueWait(t) \/ ValueWaitResumes(t)
        \/ \E v \in Values : ValueWrite(t, v)
    BY DEF ValueNext
  <1>1. CASE ValueClose(t)
    BY <1>1, NotifyAllType DEF ValueClose
  <1>2. CASE ValueRead(t)
    BY <1>2 DEF ValueRead, CondVarType
  <1>3. CASE ValueWait(t) \/ ValueWaitResumes(t)
    BY <1>3
    DEF ValueWait, ValueWaitResumes, valueVars, FallAsleep, TimeOut, WakeSpuriously, Resume,
        CondVarType
  <1>4. ASSUME NEW v \in Values, ValueWrite(t, v) PROVE ValueInv'
    <2>1. CASE v = value_
      BY <1>4, <2>1 DEF ValueWrite, CondVarType
    <2>2. CASE v # value_
      BY <1>4, <2>2, NotifyAllType DEF ValueWrite
    <2> QED
      BY <2>1, <2>2
  <1> QED
    BY <1>1, <1>2, <1>3, <1>4

-----------------------------------------------------------------------------
(* BufferChannel                                                           *)

BufferWakes == \A t \in Threads : wpc[t] = "asleep" => ~BufferReady

BufferInv == BufferTypeOK /\ BufferWakes /\ WasteBounded

\* What read() leaves of the buffer.
LEMMA ConsumeType ==
    ASSUME BufferTypeOK, NEW n \in Nat, ofs_ + n <= Len(buf_), BufferConsume(ofs_ + n)
    PROVE  /\ buf_' \in Seq(Bytes)
           /\ ofs_' \in 0 .. Len(buf_')
           /\ ofs_' < Len(buf_') => ofs_ < Len(buf_)
           /\ WasteBounded'
  <1> DEFINE k == ofs_ + n
  <1>1. buf_ \in Seq(Bytes) /\ Len(buf_) \in Nat /\ k \in Nat /\ ofs_ \in Nat /\ ofs_ <= k
    BY DEF BufferTypeOK
  <1> HIDE DEF k
  <1>2. CASE k = Len(buf_) /\ buf_' = <<>> /\ ofs_' = 0
    BY <1>2 DEF WasteBounded
  <1>3. CASE k < Len(buf_) /\ buf_' = SubSeq(buf_, k + 1, Len(buf_)) /\ ofs_' = 0
    <2>1. k + 1 \in Int /\ k + 1 >= 1 /\ k + 1 <= Len(buf_) + 1
      BY <1>1, <1>3
    <2>2. SubSeq(buf_, k + 1, Len(buf_)) \in Seq(Bytes)
      BY <1>1, <2>1
    <2>3. Len(buf_') \in Nat
      BY <1>3, <2>2
    <2> QED
      BY <1>1, <1>3, <2>2, <2>3 DEF WasteBounded
  <1>4. CASE 2 * k < Len(buf_) /\ buf_' = buf_ /\ ofs_' = k
    BY <1>1, <1>4 DEF WasteBounded
  <1> QED
    BY <1>1, <1>2, <1>3, <1>4 DEF BufferConsume, k

\* Each branch at the end of read() leaves the offset in the buffer.
LEMMA BufferDoReadStep ==
    ASSUME BufferInv, NEW t \in Threads, NEW maxlen \in Nat, BufferDoRead(t, maxlen),
           rpc' \in [Threads -> {"none", "wait", "check", "append"}]
    PROVE  BufferInv'
  <1> DEFINE n == IF Len(buf_) - ofs_ < maxlen THEN Len(buf_) - ofs_ ELSE maxlen
             s == SubSeq(buf_, ofs_ + 1, ofs_ + n)
  <1>1. n \in Nat /\ ofs_ \in Nat /\ ofs_ + n <= Len(buf_)
    BY DEF BufferInv, BufferTypeOK
  <1>2. /\ BufferConsume(ofs_ + n)
        /\ received' = [received EXCEPT ![t] = @ \o s]
        /\ UNCHANGED <<wpc, open_, sent>>
    BY DEF BufferDoRead
  <1> HIDE DEF n
  <1>3. s \in Seq(Bytes)
    BY <1>1 DEF BufferInv, BufferTypeOK
  <1>4. received' \in [Threads -> Seq(Bytes)]
    BY <1>2, <1>3 DEF BufferInv, BufferTypeOK
  <1> QED
    BY <1>1, <1>2, <1>4, ConsumeType
    DEF BufferInv, BufferTypeOK, ChannelBaseType, CondVarType, BufferWakes, BufferReady

\* write() appends to the buffer and to what is to be read.
LEMMA BufferWriteStep ==
    ASSUME BufferInv, NEW t \in Threads, BufferWrite(t)
    PROVE  BufferInv'
  <1> PICK n \in 0 .. MaxLen :
        /\ open_
        /\ sent + n <= MaxBytes
        /\ buf_' = buf_ \o [i \in 1 .. n |-> sent + i]
        /\ sent' = sent + n
        /\ IF ofs_ < Len(buf_') THEN NotifyAll ELSE UNCHANGED wpc
        /\ UNCHANGED <<open_, ofs_, rpc, received>>
    BY DEF BufferWrite
  <1>1. n \in Nat /\ sent \in Nat /\ ofs_ \in Nat /\ Len(buf_) \in Nat /\ ofs_ <= Len(buf_)
    BY DEF BufferInv, BufferTypeOK
  <1>2. [i \in 1 .. n |-> sent + i] \in Seq(Bytes)
    BY <1>1 DEF Bytes
  <1>3. buf_' \in Seq(Bytes) /\ Len(buf_') = Len(buf_) + n
    BY <1>1, <1>2 DEF BufferInv, BufferTypeOK
  <1>4. CondVarType' /\ \A u \in Threads : wpc'[u] = "asleep" => ~BufferReady'
    <2>1. CASE ofs_ < Len(buf_')
      BY <2>1, NotifyAllType DEF BufferInv, BufferTypeOK, ChannelBaseType
    <2>2. CASE ~(ofs_ < Len(buf_'))
      BY <2>2 DEF BufferInv, BufferTypeOK, ChannelBaseType, CondVarType, BufferReady
    <2> QED
      BY <2>1, <2>2
  <1>5. WasteBounded'
    BY <1>1, <1>3 DEF BufferInv, WasteBounded
  <1> QED
    BY <1>1, <1>3, <1>4, <1>5 DEF BufferInv, BufferTypeOK, ChannelBaseType, BufferWakes

\* Every step of a BufferChannel preserves its invariant.
LEMMA BufferStep ==
    ASSUME BufferInv, BufferNext
    PROVE  BufferInv'
  <1> PICK t \in Threads :
        \/ BufferClose(t) \/ BufferRead(t) \/ BufferWrite(t) \/ BufferClear(t)
        \/ BufferWait(t) \/ BufferWaitResumes(t)
        \/ ReadAll(t) \/ ReadAllGoes(t)
    BY DEF BufferNext
  <1> USE DEF BufferInv, BufferTypeOK, ChannelBaseType
  <1>1. CASE BufferClose(t)
    <2>1. CondVarType' /\ BufferWakes'
      BY <1>1, NotifyAllType DEF BufferClose, BufferWakes
    <2>2. buf_' = <<>> /\ ofs_' = 0 /\ open_' \in BOOLEAN /\ UNCHANGED <<rpc, sent, received>>
      BY <1>1 DEF BufferClose
    <2>3. buf_' \in Seq(Bytes) /\ ofs_' \in 0 .. Len(buf_') /\ WasteBounded'
      BY <2>2 DEF WasteBounded
    <2> QED
      BY <2>1, <2>2, <2>3
  <1>2. CASE BufferRead(t)
    <2>1. PICK maxlen \in 1 .. MaxLen : BufferDoRead(t, maxlen)
      BY <1>2 DEF BufferRead
    <2>2. maxlen \in Nat /\ rpc' \in [Threads -> {"none", "wait", "check", "append"}]
      BY <1>2 DEF BufferRead
    <2> QED
      BY <2>1, <2>2, BufferDoReadStep
  <1>3. CASE BufferWrite(t)
    BY <1>3, BufferWriteStep
  <1>4. CASE BufferClear(t)
    BY <1>4 DEF BufferClear, BufferWakes, BufferReady, WasteBounded, CondVarType
  <1>5. CASE BufferWait(t) \/ BufferWaitResumes(t)
    BY <1>5
    DEF BufferWait, BufferWaitResumes, bufferVars, FallAsleep, TimeOut, WakeSpuriously, Resume,
        BufferWakes, BufferReady, WasteBounded, CondVarType
  <1>6. CASE ReadAll(t) \/ ReadAllWaited(t) \/ ReadAllCheck(t)
    BY <1>6
    DEF ReadAll, ReadAllWaited, ReadAllCheck, BufferWakes, BufferReady, WasteBounded, CondVarType
  <1>7. CASE BufferAppend(t)
    <2>1. rpc' \in [Threads -> {"none", "wait", "check", "append"}]
      BY <1>7 DEF BufferAppend
    <2>2. CASE BufferDoRead(t, Block)
      BY <2>1, <2>2, BufferDoReadStep
    <2>3. CASE UNCHANGED <<wpc, open_, buf_, ofs_, sent, received>>
      BY <2>1, <2>3 DEF BufferWakes, BufferReady, WasteBounded, CondVarType
    <2> QED
      BY <1>7, <2>2, <2>3 DEF BufferAppend
  <1> QED
    BY <1>1, <1>2, <1>3, <1>4, <1>5, <1>6, <1>7 DEF ReadAllGoes

-----------------------------------------------------------------------------
(* TimerChannel                                                            *)

TimerWakes == \A t \in Threads : wpc[t] = "asleep" => open_

TimerInv == TimerTypeOK /\ TimerWakes /\ NoDrift

\* step() uses up k ticks, moves the next tick by k intervals, and closes
\* the channel after the last.
LEMMA TimerStepType ==
    ASSUME TimerTypeOK, NEW n \in Nat,
           NEW w \in [Threads -> {"idle", "asleep", "woken"}],
           TimerStep(n, w)
    PROVE  /\ ChannelBaseType' /\ TimerWakes'
           /\ \E k \in 0 .. count_ : /\ count_' = count_ - k
                                    /\ next_tick_' = next_tick_ + k * Delta
           /\ count_' = 0 => ~open_'
  <1>1. Least(n, count_) \in 0 .. count_
    BY DEF Least, TimerTypeOK
  <1>2. ChannelBaseType' /\ TimerWakes'
    <2>1. CASE count_' = 0
      BY <2>1 DEF TimerStep, ChannelBaseType, CondVarType, TimerWakes, Notified
    <2>2. CASE count_' # 0
      BY <2>2 DEF TimerStep, ChannelBaseType, CondVarType, TimerWakes
    <2> QED
      BY <2>1, <2>2
  <1> QED
    BY <1>1, <1>2 DEF TimerStep

\* The one fact about products that the times of the ticks need.
LEMMA Distributes ==
    ASSUME NEW d \in Nat, NEW u \in Nat, NEW k \in Nat
    PROVE  d * (1 + (u + k)) = d * (1 + u) + k * d /\ k * d \in Nat
  OBVIOUS

\* The ticks that step() uses up are counted by its caller.
LEMMA TimerStepDrift ==
    ASSUME TimerTypeOK, NoDrift, NEW n \in Nat,
           NEW w \in [Threads -> {"idle", "asleep", "woken"}],
           TimerStep(n, w),
           \/ delivered' = delivered + count_ - count_' /\ flushed' = flushed
           \/ flushed' = flushed + count_ - count_' /\ delivered' = delivered
    PROVE  /\ next_tick_' \in Nat /\ count_' \in 0 .. Count
           /\ delivered' \in Nat /\ flushed' \in Nat
           /\ NoDrift'
  <1>0. /\ count_ \in Nat /\ Delta \in Nat /\ Count \in Nat /\ next_tick_ \in Nat
        /\ count_ <= Count /\ delivered \in Nat /\ flushed \in Nat
    BY DEF TimerTypeOK
  <1>1. PICK k \in 0 .. count_ : count_' = count_ - k /\ next_tick_' = next_tick_ + k * Delta
    BY TimerStepType
  <1>2. k \in Nat /\ count_' \in 0 .. Count /\ count_ - count_' = k
    BY <1>0, <1>1
  <1>3. /\ delivered' \in Nat /\ flushed' \in Nat
        /\ delivered' + flushed' = (delivered + flushed) + k
    BY <1>0, <1>1, <1>2
  <1>4. PICK u \in Nat : u = delivered + flushed
    BY <1>0
  <1>5. next_tick_ = Delta * (1 + u) /\ u + count_ = Count
    BY <1>4 DEF NoDrift, Used
  <1>6. next_tick_' = Delta * (1 + (u + k)) /\ next_tick_' \in Nat
    BY <1>0, <1>1, <1>2, <1>5, Distributes
  <1>7. (u + k) + count_' = Count /\ (u + k = Count => count_' = 0)
    BY <1>0, <1>1, <1>2, <1>5
  <1>8. Used' = u + k
    BY <1>3, <1>4 DEF Used
  <1> QED
    BY <1>2, <1>3, <1>6, <1>7, <1>8, TimerStepType DEF NoDrift

\* Every step of a TimerChannel preserves its invariant.
LEMMA TimerNextStep ==
    ASSUME TimerInv, TimerNext
    PROVE  TimerInv'
  <1> USE DEF TimerInv
  <1>1. CASE TimePasses
    BY <1>1 DEF TimePasses, TimerTypeOK, ChannelBaseType, CondVarType, TimerWakes, NoDrift, Used,
                ticks, waits, history
  <1>2. CASE TimerClose
    <2>1. CondVarType' /\ TimerWakes'
      BY <1>2, NotifyAllType DEF TimerClose, TimerWakes, TimerTypeOK, ChannelBaseType
    <2>2. TimerTypeOK'
      BY <1>2, <2>1 DEF TimerClose, TimerTypeOK, ChannelBaseType, waits, history
    <2>3. NoDrift'
      BY <1>2 DEF TimerClose, NoDrift, Used, history
    <2> QED
      BY <2>1, <2>2, <2>3
  <1>3. ASSUME NEW t \in Flushers, TimerFlush(t) PROVE TimerInv'
    <2> DEFINE n == (now - next_tick_) \div Delta + 1
    <2>1. now \in Nat /\ next_tick_ \in Nat /\ Delta \in Nat \ {0} /\ now >= next_tick_
      BY <1>3 DEF TimerFlush, TimerTypeOK
    <2>2. (now - next_tick_) \div Delta \in Nat
      BY <2>1
    <2>3. n \in Nat
      BY <2>2
    <2>4. TimerStep(n, wpc) /\ wpc \in [Threads -> {"idle", "asleep", "woken"}]
      BY <1>3 DEF TimerFlush, TimerTypeOK, ChannelBaseType, CondVarType
    <2> HIDE DEF n
    <2>5. /\ flushed' = flushed + count_ - count_' /\ delivered' = delivered
          /\ UNCHANGED <<now, cpc, until, forTick, handled>>
      BY <1>3 DEF TimerFlush, waits
    <2> QED
      BY <2>3, <2>4, <2>5, TimerStepType, TimerStepDrift DEF TimerTypeOK
  <1>4. ASSUME NEW t \in Waiters, TimerWait(t) \/ TimerCheck(t) PROVE TimerInv'
    <2>0. wpc \in [Threads -> {"idle", "asleep", "woken"}] /\ t \in Threads
      BY DEF TimerTypeOK, ChannelBaseType, CondVarType
    <2>1. CASE WaitClosed(t) \/ TimerCheck(t)
      BY <2>1 DEF WaitClosed, TimerCheck, TimerTypeOK, ChannelBaseType, CondVarType, TimerWakes,
                  NoDrift, Used, ticks, history
    <2>2. CASE WaitDue(t)
      <3>1. TimerStep(1, wpc) /\ delivered' = delivered + count_ - count_' /\ flushed' = flushed
            /\ UNCHANGED <<now, until, forTick, handled>>
            /\ cpc' \in [Waiters -> {"call", "check", "done"}]
        BY <2>2 DEF WaitDue, TimerTypeOK
      <3> QED
        BY <2>0, <3>1, TimerStepType, TimerStepDrift DEF TimerTypeOK
    <2>3. CASE WaitBrief(t) \/ WaitTick(t)
      <3>1. /\ until' \in [Waiters -> Nat] /\ forTick' \in [Waiters -> BOOLEAN]
            /\ UNCHANGED <<now, open_, next_tick_, count_, cpc, delivered, flushed, handled>>
        <4>1. CASE WaitBrief(t)
          <5>1. PICK u \in now + 1 .. next_tick_ - 1 : until' = [until EXCEPT ![t] = u]
            BY <4>1 DEF WaitBrief
          <5>2. u \in Nat
            BY <5>1 DEF TimerTypeOK
          <5> QED
            BY <4>1, <5>1, <5>2 DEF WaitBrief, TimerTypeOK, ticks, history
        <4>2. CASE WaitTick(t)
          BY <4>2 DEF WaitTick, TimerTypeOK, ticks, history
        <4> QED
          BY <2>3, <4>1, <4>2
      <3>2. open_ /\ wpc' = [wpc EXCEPT ![t] = "asleep"]
        BY <2>3 DEF WaitBrief, WaitTick, FallAsleep
      <3> QED
        BY <3>1, <3>2 DEF TimerTypeOK, ChannelBaseType, CondVarType, TimerWakes, NoDrift, Used
    <2>4. CASE TimerWaitResumes(t) \/ WaitDisturbed(t) \/ BriefOver(t)
      BY <2>0, <2>4
      DEF TimerWaitResumes, WaitDisturbed, BriefOver, Resume, WakeSpuriously, TimeOut,
          TimerTypeOK, ChannelBaseType, CondVarType, TimerWakes, NoDrift, Used,
          ticks, waits, history
    <2>5. CASE TickOver(t)
      <3>1. UNCHANGED <<now, until, forTick, flushed, handled>>
            /\ cpc' \in [Waiters -> {"call", "check", "done"}]
        BY <2>5 DEF TickOver, TimerTypeOK
      <3>2. CASE open_
        <4>1. /\ TimerStep(1, [wpc EXCEPT ![t] = "idle"])
              /\ delivered' = delivered + count_ - count_'
              /\ [wpc EXCEPT ![t] = "idle"] \in [Threads -> {"idle", "asleep", "woken"}]
          BY <2>0, <2>5, <3>2 DEF TickOver
        <4> QED
          BY <3>1, <4>1, TimerStepType, TimerStepDrift DEF TimerTypeOK
      <3>3. CASE ~open_
        BY <2>5, <3>1, <3>3
        DEF TickOver, TimeOut, TimerTypeOK, ChannelBaseType, CondVarType, TimerWakes, NoDrift, Used,
            ticks
      <3> QED
        BY <3>2, <3>3
    <2> QED
      BY <1>4, <2>1, <2>2, <2>3, <2>4, <2>5 DEF TimerWait
  <1> QED
    BY <1>1, <1>2, <1>3, <1>4 DEF TimerNext

-----------------------------------------------------------------------------
(* GeneratorChannel                                                        *)

\* A value is on its way only while a thread holds the mutex.
GeneratorCounts ==
    \A t \in Threads : /\ gpc[t] = "calls" => made = given
                       /\ gpc[t] = "made" => made = given + 1

GeneratorInv == GeneratorTypeOK /\ GeneratorServes /\ GeneratorCounts

\* Every step of a GeneratorChannel preserves its invariant.
LEMMA GeneratorStep ==
    ASSUME GeneratorInv, GeneratorNext
    PROVE  GeneratorInv' /\ wpc' = wpc
  <1> USE DEF GeneratorInv, GeneratorTypeOK, ChannelBaseType, CondVarType, GeneratorServes,
              GeneratorCounts, Unlocked
  <1> PICK t \in Threads : GeneratorClose(t) \/ GeneratorRead(t) \/ GeneratorGoes(t)
    BY DEF GeneratorNext
  <1>1. CASE GeneratorClose(t)
    BY <1>1 DEF GeneratorClose, generatorVars
  <1>2. CASE GeneratorRead(t)
    BY <1>2 DEF GeneratorRead
  <1>3. CASE Generates(t)
    <2>1. open_ /\ made = given /\ \A u \in Threads \ {t} : gpc[u] = "idle"
      BY <1>3 DEF Generates
    <2> QED
      BY <1>3, <2>1 DEF Generates
  <1>4. CASE GeneratorThrows(t)
    <2>1. open_ /\ made = given /\ \A u \in Threads \ {t} : gpc[u] = "idle"
      BY <1>4 DEF GeneratorThrows
    <2> QED
      BY <1>4, <2>1 DEF GeneratorThrows
  <1>5. CASE GeneratorReturns(t)
    <2>1. open_ /\ made = given + 1 /\ \A u \in Threads \ {t} : gpc[u] = "idle"
      BY <1>5 DEF GeneratorReturns
    <2> QED
      BY <1>5, <2>1 DEF GeneratorReturns
  <1> QED
    BY <1>1, <1>2, <1>3, <1>4, <1>5 DEF GeneratorGoes

-----------------------------------------------------------------------------
(* Channel                                                                 *)

\* The invariants of the five classes.  The sleepers matter only to the class
\* that the channel has.
Inv ==
    /\ TypeOK
    /\ NoLostWakeup
    /\ InOrderOnce
    /\ ValueAgrees
    /\ WasteBounded
    /\ NoDrift
    /\ GeneratorServes
    /\ GeneratorCounts
    /\ class # "GeneratorChannel" => Unlocked

\* A channel of any class starts in the invariant.
LEMMA InitInv == Init => Inv
  <1> SUFFICES ASSUME Init PROVE Inv
    OBVIOUS
  <1> USE DEF Init, ChannelBaseInit, CondVarInit
  <1>1. QueueTypeOK /\ InOrderOnce
    BY DEF QueueInit, QueueTypeOK, ChannelBaseType, CondVarType, InOrderOnce, Increasing,
           Elements, Messages
  <1>2. ValueTypeOK /\ ValueAgrees
    BY DEF ValueInit, ValueTypeOK, CondVarType, ValueAgrees
  <1>3. BufferTypeOK /\ WasteBounded
    BY DEF BufferInit, BufferTypeOK, ChannelBaseType, CondVarType, WasteBounded
  <1>4. TimerTypeOK /\ NoDrift
    BY DEF TimerInit, TimerTypeOK, ChannelBaseType, CondVarType, NoDrift, Used
  <1>5. NoLostWakeup
    BY DEF QueueInit, NoLostWakeup
  <1>6. GeneratorTypeOK /\ GeneratorServes /\ GeneratorCounts /\ Unlocked
    BY DEF GeneratorInit, GeneratorTypeOK, ChannelBaseType, CondVarType, GeneratorServes,
           GeneratorCounts, Unlocked
  <1> QED
    BY <1>1, <1>2, <1>3, <1>4, <1>5, <1>6 DEF Inv, TypeOK

\* The variables of the classes that the channel does not have.
LEMMA QueueFrame ==
    ASSUME QueueTypeOK, InOrderOnce, UNCHANGED queueVars, ChannelBaseType'
    PROVE  QueueTypeOK' /\ InOrderOnce'
  BY DEF queueVars, QueueTypeOK, InOrderOnce, Increasing, Elements

\* The other classes leave a ValueChannel's variables alone.
LEMMA ValueFrame ==
    ASSUME ValueTypeOK, ValueAgrees, UNCHANGED valueVars, CondVarType'
    PROVE  ValueTypeOK' /\ ValueAgrees'
  BY DEF valueVars, ValueTypeOK, ValueAgrees

\* The other classes leave a BufferChannel's variables alone.
LEMMA BufferFrame ==
    ASSUME BufferTypeOK, WasteBounded, UNCHANGED bufferVars, ChannelBaseType'
    PROVE  BufferTypeOK' /\ WasteBounded'
  BY DEF bufferVars, BufferTypeOK, WasteBounded

\* The last tick has closed a timer; a channel of another class has no ticks.
LEMMA TimerFrame ==
    ASSUME TimerTypeOK, NoDrift, UNCHANGED timerVars, ChannelBaseType', open_' => open_
    PROVE  TimerTypeOK' /\ NoDrift'
  BY DEF timerVars, ticks, waits, history, TimerTypeOK, NoDrift, Used

\* A channel of another class has no thread in a generator.
LEMMA GeneratorFrame ==
    ASSUME GeneratorTypeOK, GeneratorServes, GeneratorCounts, Unlocked,
           UNCHANGED generatorVars, ChannelBaseType'
    PROVE  GeneratorTypeOK' /\ GeneratorServes' /\ GeneratorCounts' /\ Unlocked'
  BY DEF generatorVars, GeneratorTypeOK, GeneratorServes, GeneratorCounts, Unlocked

\* A closed channel is not opened again.
LEMMA QueueStaysClosed ==
    ASSUME QueueNext
    PROVE  open_' => open_
  BY DEF QueueNext, QueueClose, QueueRead, QueueClear, QueueWrite, QueueWait, QueueWaitResumes

\* No step of a BufferChannel opens it again.
LEMMA BufferStaysClosed ==
    ASSUME BufferNext
    PROVE  open_' => open_
  BY DEF BufferNext, BufferClose, BufferRead, BufferDoRead, BufferClear, BufferWrite, BufferWait,
         BufferWaitResumes, ReadAll, ReadAllGoes, ReadAllWaited, ReadAllCheck, BufferAppend

\* No step of a TimerChannel opens it again.
LEMMA TimerStaysClosed ==
    ASSUME TimerNext
    PROVE  open_' => open_
  BY DEF TimerNext, TimePasses, TimerClose, TimerFlush, TimerWait, WaitClosed, WaitDue, WaitBrief,
         WaitTick, TimerWaitResumes, WaitDisturbed, BriefOver, TickOver, TimerCheck

\* No step of a GeneratorChannel opens it again.
LEMMA GeneratorStaysClosed ==
    ASSUME GeneratorNext
    PROVE  open_' => open_
  BY DEF GeneratorNext, GeneratorClose, GeneratorRead, GeneratorGoes, Generates, GeneratorThrows,
         GeneratorReturns

\* No step of a ValueChannel opens it again.
LEMMA ValueStaysClosed ==
    ASSUME ValueNext
    PROVE  status = -1 => status' = -1
  BY DEF ValueNext, ValueClose, ValueRead, ValueWrite, ValueWait, ValueWaitResumes, valueVars

\* The steps of a channel, whatever its class, preserve the invariant.
LEMMA InvStep ==
    ASSUME Inv, [Next]_vars
    PROVE  Inv'
  <1> USE DEF Inv, TypeOK
  <1>1. CASE UNCHANGED vars
    <2>1. UNCHANGED <<wpc, open_, queueVars, valueVars, bufferVars, timerVars, generatorVars>> /\ class' = class
      BY <1>1 DEF vars
    <2>2. ChannelBaseType' /\ CondVarType'
      BY <2>1 DEF QueueTypeOK, ChannelBaseType, CondVarType
    <2>3. QueueTypeOK' /\ ValueTypeOK' /\ BufferTypeOK' /\ TimerTypeOK' /\ InOrderOnce' /\ ValueAgrees' /\ WasteBounded' /\ NoDrift'
      BY <2>1, <2>2, QueueFrame, ValueFrame, BufferFrame, TimerFrame
    <2>4. NoLostWakeup'
      BY <2>1 DEF NoLostWakeup, Ready, QueueReady, ValueReady, BufferReady,
                  queueVars, valueVars, bufferVars
    <2>5. GeneratorTypeOK' /\ GeneratorServes' /\ GeneratorCounts' /\ (class' # "GeneratorChannel" => Unlocked')
      BY <2>1, <2>2 DEF generatorVars, GeneratorTypeOK, GeneratorServes, GeneratorCounts, Unlocked
    <2> QED
      BY <2>1, <2>3, <2>4, <2>5
  <1>2. CASE AsQueue(QueueNext)
    <2>1. class = "QueueChannel" /\ class' = class /\ QueueNext
          /\ UNCHANGED <<valueVars, bufferVars, timerVars, generatorVars>>
      BY <1>2 DEF AsQueue
    <2>2. QueueInv'
      <3>1. QueueInv
        BY <2>1 DEF QueueInv, QueueWakes, NoLostWakeup, Ready
      <3> QED
        BY <2>1, <3>1, QueueStep
    <2>3. ChannelBaseType' /\ CondVarType'
      BY <2>2 DEF QueueInv, QueueTypeOK, ChannelBaseType
    <2>4. NoLostWakeup'
      BY <2>1, <2>2 DEF QueueInv, QueueWakes, NoLostWakeup, Ready
    <2> QED
      BY <2>1, <2>2, <2>3, <2>4, ValueFrame, BufferFrame, TimerFrame, GeneratorFrame, QueueStaysClosed DEF QueueInv
  <1>3. CASE AsValue(ValueNext)
    <2>1. class = "ValueChannel" /\ class' = class /\ ValueNext
          /\ UNCHANGED <<open_, queueVars, bufferVars, timerVars, generatorVars>>
      BY <1>3 DEF AsValue
    <2>2. ValueInv'
      <3>1. ValueInv
        BY <2>1 DEF ValueInv, ValueWakes, NoLostWakeup, Ready
      <3> QED
        BY <2>1, <3>1, ValueStep
    <2>3. ChannelBaseType' /\ CondVarType'
      BY <2>1, <2>2 DEF ValueInv, ValueTypeOK, QueueTypeOK, ChannelBaseType
    <2>4. NoLostWakeup'
      BY <2>1, <2>2 DEF ValueInv, ValueWakes, NoLostWakeup, Ready
    <2> QED
      BY <2>1, <2>2, <2>3, <2>4, QueueFrame, BufferFrame, TimerFrame, GeneratorFrame DEF ValueInv
  <1>4. CASE AsBuffer(BufferNext)
    <2>1. class = "BufferChannel" /\ class' = class /\ BufferNext
          /\ UNCHANGED <<queueVars, valueVars, timerVars, generatorVars>>
      BY <1>4 DEF AsBuffer
    <2>2. BufferInv'
      <3>1. BufferInv
        BY <2>1 DEF BufferInv, BufferWakes, NoLostWakeup, Ready
      <3> QED
        BY <2>1, <3>1, BufferStep
    <2>3. ChannelBaseType' /\ CondVarType'
      BY <2>2 DEF BufferInv, BufferTypeOK, ChannelBaseType
    <2>4. NoLostWakeup'
      BY <2>1, <2>2 DEF BufferInv, BufferWakes, NoLostWakeup, Ready
    <2> QED
      BY <2>1, <2>2, <2>3, <2>4, QueueFrame, ValueFrame, TimerFrame, GeneratorFrame, BufferStaysClosed DEF BufferInv
  <1>5. CASE AsTimer(TimerNext)
    <2>1. class = "TimerChannel" /\ class' = class /\ TimerNext
          /\ UNCHANGED <<queueVars, valueVars, bufferVars, generatorVars>>
      BY <1>5 DEF AsTimer
    <2>2. TimerInv'
      <3>1. TimerInv
        BY <2>1 DEF TimerInv, TimerWakes, NoLostWakeup, Ready
      <3> QED
        BY <2>1, <3>1, TimerNextStep
    <2>3. ChannelBaseType' /\ CondVarType'
      BY <2>2 DEF TimerInv, TimerTypeOK, ChannelBaseType
    <2>4. NoLostWakeup'
      BY <2>1, <2>2 DEF TimerInv, TimerWakes, NoLostWakeup, Ready
    <2> QED
      BY <2>1, <2>2, <2>3, <2>4, QueueFrame, ValueFrame, BufferFrame, GeneratorFrame DEF TimerInv
  <1>6. CASE AsGenerator(GeneratorNext)
    <2>1. class = "GeneratorChannel" /\ class' = class /\ GeneratorNext
          /\ UNCHANGED <<queueVars, valueVars, bufferVars, timerVars>>
      BY <1>6 DEF AsGenerator
    <2>2. GeneratorInv' /\ wpc' = wpc
      BY <2>1, GeneratorStep DEF GeneratorInv
    <2>3. ChannelBaseType' /\ CondVarType'
      BY <2>2 DEF GeneratorInv, GeneratorTypeOK, ChannelBaseType
    <2>4. NoLostWakeup'
      BY <2>1, <2>2 DEF NoLostWakeup, Ready
    <2> QED
      BY <2>1, <2>2, <2>3, <2>4, QueueFrame, ValueFrame, BufferFrame, TimerFrame, GeneratorStaysClosed
      DEF GeneratorInv
  <1> QED
    BY <1>1, <1>2, <1>3, <1>4, <1>5, <1>6 DEF Next

\* Every class keeps its part of the invariant, whatever the threads do.
THEOREM Invariance == Spec => []Inv
  BY InitInv, InvStep, PTL DEF Spec

\* Whatever the class of the channel, nobody who makes it ready or closes it
\* leaves a thread asleep.
THEOREM NeverLosesWakeup == Spec => []NoLostWakeup
  <1>1. Inv => NoLostWakeup
    BY DEF Inv
  <1> QED
    BY <1>1, Invariance, PTL

\* QueueChannel: messages are read in the order of the writes, at most once,
\* and only clear() discards one.
THEOREM ReadsInOrder == Spec => []InOrderOnce
  <1>1. Inv => InOrderOnce
    BY DEF Inv
  <1> QED
    BY <1>1, Invariance, PTL

\* ValueChannel: when nothing is new, the last value written has been seen.
THEOREM MissesNothing == Spec => []NothingMissed
  <1>1. Inv => NothingMissed
    BY DEF Inv, TypeOK, ValueTypeOK, ValueAgrees, NothingMissed
  <1> QED
    BY <1>1, Invariance, PTL

\* TimerChannel: tick n belongs to n intervals after the construction, in
\* whatever order and however late waiters and flush() use the ticks up.
THEOREM NeverDrifts == Spec => []NoDrift
  <1>1. Inv => NoDrift
    BY DEF Inv
  <1> QED
    BY <1>1, Invariance, PTL

\* BufferChannel: less than half of the buffer has been read already.
THEOREM WastesLittle == Spec => []WasteBounded
  <1>1. Inv => WasteBounded
    BY DEF Inv
  <1> QED
    BY <1>1, Invariance, PTL

\* GeneratorChannel: one thread at a time, and no value is lost to a close().
THEOREM GeneratorsServe == Spec => []GeneratorServes
  <1>1. Inv => GeneratorServes
    BY DEF Inv
  <1> QED
    BY <1>1, Invariance, PTL

\* What each of the five classes promises about what is written to it or, for
\* ticks, when; and every variable keeps its type.
THEOREM DeliversAlways == Spec => []Delivers
  <1>1. Inv => TypeOK
    BY DEF Inv
  <1>2. TypeOK /\ InOrderOnce /\ NothingMissed /\ WasteBounded /\ NoDrift /\ GeneratorServes => Delivers
    BY DEF Delivers
  <1> QED
    BY <1>1, <1>2, Invariance, ReadsInOrder, MissesNothing, WastesLittle, NeverDrifts, GeneratorsServe, PTL

\* No operation of any class opens a closed channel again.
THEOREM StaysClosed == Spec => ClosedForGood
  <1>1. ASSUME [Next]_vars PROVE Closed => Closed'
    <2>1. CASE UNCHANGED vars
      BY <2>1 DEF vars, valueVars, Closed
    <2>2. CASE AsQueue(QueueNext)
      BY <2>2, QueueStaysClosed DEF AsQueue, Closed
    <2>3. CASE AsValue(ValueNext)
      BY <2>3, ValueStaysClosed DEF AsValue, Closed
    <2>4. CASE AsBuffer(BufferNext)
      BY <2>4, BufferStaysClosed DEF AsBuffer, Closed
    <2>5. CASE AsTimer(TimerNext)
      BY <2>5, TimerStaysClosed DEF AsTimer, Closed
    <2>6. CASE AsGenerator(GeneratorNext)
      BY <2>6, GeneratorStaysClosed DEF AsGenerator, Closed
    <2> QED
      BY <1>1, <2>1, <2>2, <2>3, <2>4, <2>5, <2>6 DEF Next
  <1> QED
    BY <1>1, PTL DEF Spec, ClosedForGood

-----------------------------------------------------------------------------
(* The ticks of a timer                                                    *)

\* The waiters that sleep for a tick that belongs to interval j or earlier.
Expecting(j) == {t \in Waiters : wpc[t] # "idle" /\ forTick[t] /\ until[t] <= j * Delta}

\* At any time before the end of interval j, the ticks of the intervals before
\* it may be used up, and one for each waiter that is not still asleep for one
\* of them.
InTime ==
    \A j \in Nat : j * Delta > now => Used <= (j - 1) + Cardinality(Waiters \ Expecting(j))

\* The waiters that have been given a tick, or found the channel closed.
Returned == {t \in Waiters : cpc[t] \in {"check", "done"}}

\* While the channel is open every waiter that has returned has a tick that is
\* not handled; and no waiter has returned that still waits.
Balance ==
    /\ \A t \in Waiters : wpc[t] # "idle" => cpc[t] = "call"
    /\ TicksHandled
    /\ open_ => delivered = handled + Cardinality(Returned)

\* A channel of another class has no ticks.
TicksInv ==
    IF class = "TimerChannel" THEN InTime /\ Balance
                              ELSE delivered = 0 /\ flushed = 0 /\ handled = 0

\* Ticks that are multiples of the interval are in the order of their numbers.
LEMMA TimesLess ==
    ASSUME NEW d \in Nat \ {0}, NEW a \in Nat, NEW b \in Nat, d * a < d * b
    PROVE  a < b
<1> SUFFICES ASSUME a >= b PROVE FALSE
  OBVIOUS
<1>1. PICK k \in Nat : a = b + k
  BY a - b \in Nat
<1>2. d * (b + k) = d * b + d * k /\ d * k \in Nat /\ d * b \in Nat
  OBVIOUS
<1>3. QED
  BY <1>1, <1>2

\* The quotient of a time by the interval is the number of whole intervals in it.
LEMMA DivBounds ==
    ASSUME NEW d \in Nat \ {0}, NEW n \in Nat
    PROVE  /\ n \div d \in Nat
           /\ d * (n \div d) <= n
           /\ n < d * (n \div d + 1)
<1>1. n \div d \in Nat /\ d * (n \div d) <= n
  OBVIOUS
<1>2. n < d * (n \div d) + d
  OBVIOUS
<1>3. PICK q \in Nat : q = n \div d
  BY <1>1
<1>4. d * (q + 1) = d * q + d
  OBVIOUS
<1>5. QED
  BY <1>1, <1>2, <1>3, <1>4

\* The waiters are finitely many, and so are those that are in some place.
LEMMA WaitersFinite ==
    ASSUME NEW S, S \subseteq Waiters
    PROVE  IsFiniteSet(S) /\ Cardinality(S) \in Nat
  BY FS_Subset, FS_CardinalityType

\* A larger set of waiters has at least as many members.
LEMMA MoreWaiters ==
    ASSUME NEW S, NEW T, T \subseteq Waiters, S \subseteq T
    PROVE  Cardinality(S) <= Cardinality(T)
  BY FS_Subset

\* A step that uses up no tick and sends nobody to sleep for one.
LEMMA InTimeKept ==
    ASSUME TimerTypeOK, TimerTypeOK', InTime, Used' = Used, now <= now',
           \A t \in Waiters : wpc'[t] # "idle" /\ forTick'[t] =>
              wpc[t] # "idle" /\ forTick[t] /\ until'[t] = until[t]
    PROVE  InTime'
<1> SUFFICES ASSUME NEW j \in Nat, j * Delta > now'
             PROVE  Used' <= (j - 1) + Cardinality(Waiters \ Expecting(j)')
  BY DEF InTime, Expecting
<1>1. Used <= (j - 1) + Cardinality(Waiters \ Expecting(j))
  <2>1. j * Delta \in Nat /\ now \in Nat /\ now' \in Nat
    BY DEF TimerTypeOK
  <2>2. QED
    BY <2>1 DEF InTime
<1>2. Expecting(j)' \subseteq Expecting(j)
  BY DEF Expecting
<1>3. Cardinality(Waiters \ Expecting(j)) <= Cardinality(Waiters \ Expecting(j)')
  BY <1>2, MoreWaiters
<1>4. /\ Cardinality(Waiters \ Expecting(j)) \in Nat
      /\ Cardinality(Waiters \ Expecting(j)') \in Nat
      /\ Used \in Nat
  BY WaitersFinite DEF Used, TimerTypeOK
<1>5. QED
  BY <1>1, <1>3, <1>4

\* A step after which no tick is used up that is not due.
LEMMA InTimeDue ==
    ASSUME NEW u \in Nat, Used' = u, TimerTypeOK', Delta * u <= now'
    PROVE  InTime'
<1> SUFFICES ASSUME NEW j \in Nat, j * Delta > now'
             PROVE  Used' <= (j - 1) + Cardinality(Waiters \ Expecting(j)')
  BY DEF InTime, Expecting
<1>1. now' \in Nat
  BY DEF TimerTypeOK
<1>2. Delta * u < Delta * j
  <2>1. j * Delta = Delta * j /\ Delta * j \in Nat /\ Delta * u \in Nat
    OBVIOUS
  <2>2. QED
    BY <1>1, <2>1
<1>3. u < j
  BY <1>2, TimesLess
<1>4. Cardinality(Waiters \ Expecting(j)') \in Nat
  BY WaitersFinite
<1>5. QED
  BY <1>3, <1>4

\* step() on a timer in order: what it uses up, and who still sleeps.
LEMMA TimerStepUses ==
    ASSUME TimerTypeOK, NEW n \in Nat,
           NEW w \in [Threads -> {"idle", "asleep", "woken"}],
           TimerStep(n, w),
           \/ delivered' = delivered + count_ - count_' /\ flushed' = flushed
           \/ flushed' = flushed + count_ - count_' /\ delivered' = delivered
    PROVE  /\ Used' = Used + Least(n, count_)
           /\ Least(n, count_) \in Nat /\ Least(n, count_) <= n
           /\ count_' = count_ - Least(n, count_)
           /\ \A t \in Threads : wpc'[t] # "idle" <=> w[t] # "idle"
<1>1. count_' = count_ - Least(n, count_) /\ Least(n, count_) \in 0 .. count_
  BY DEF TimerStep, Least, TimerTypeOK
<1>2. Least(n, count_) <= n
  BY DEF Least, TimerTypeOK
<1>3. Used' = Used + Least(n, count_)
  BY <1>1 DEF Used, TimerTypeOK
<1>4. \A t \in Threads : wpc'[t] # "idle" <=> w[t] # "idle"
  BY DEF TimerStep, Notified
<1>5. QED
  BY <1>1, <1>2, <1>3, <1>4 DEF TimerTypeOK

\* A waiter that slept up to the tick uses one up, due or not: it is one of
\* those that were still asleep for a tick.
LEMMA InTimeTick ==
    ASSUME TimerTypeOK, TimerTypeOK', InTime, NEW t \in Waiters,
           now' = now, Used' \in {Used, Used + 1},
           wpc[t] # "idle", forTick[t], until[t] <= now, wpc'[t] = "idle",
           UNCHANGED <<until, forTick>>,
           \A u \in Waiters \ {t} : wpc'[u] # "idle" <=> wpc[u] # "idle"
    PROVE  InTime'
<1> SUFFICES ASSUME NEW j \in Nat, j * Delta > now'
             PROVE  Used' <= (j - 1) + Cardinality(Waiters \ Expecting(j)')
  BY DEF InTime, Expecting
<1> DEFINE S == Waiters \ Expecting(j)
<1>1. j * Delta \in Nat /\ now \in Nat /\ until[t] \in Nat /\ Used \in Nat
  BY DEF TimerTypeOK, Used
<1>2. Used <= (j - 1) + Cardinality(S)
  BY <1>1 DEF InTime
<1>3. t \in Expecting(j)
  BY <1>1 DEF Expecting
<1>4. Waiters \ Expecting(j)' = S \cup {t}
  BY DEF Expecting
<1>5. IsFiniteSet(S) /\ Cardinality(S) \in Nat /\ t \notin S
  BY <1>3, WaitersFinite
<1>6. Cardinality(S \cup {t}) = Cardinality(S) + 1
  BY <1>5, FS_AddElement
<1>7. Cardinality(Waiters \ Expecting(j)') = Cardinality(S) + 1
  BY <1>4, <1>6
<1> HIDE DEF S
<1>8. QED
  BY <1>1, <1>2, <1>5, <1>7

\* A waiter goes to sleep for the next tick.
LEMMA InTimeSleep ==
    ASSUME TimerTypeOK, TimerTypeOK', NoDrift, InTime, NEW t \in Waiters,
           now' = now, Used' = Used, wpc[t] = "idle", until'[t] = next_tick_,
           \A u \in Waiters \ {t} :
              wpc'[u] = wpc[u] /\ until'[u] = until[u] /\ forTick'[u] = forTick[u]
    PROVE  InTime'
<1> SUFFICES ASSUME NEW j \in Nat, j * Delta > now'
             PROVE  Used' <= (j - 1) + Cardinality(Waiters \ Expecting(j)')
  BY DEF InTime, Expecting
<1>1. /\ j * Delta \in Nat /\ now \in Nat /\ Used \in Nat
      /\ Cardinality(Waiters \ Expecting(j)) \in Nat
      /\ Cardinality(Waiters \ Expecting(j)') \in Nat
  BY WaitersFinite DEF TimerTypeOK, Used
<1>2. Used <= (j - 1) + Cardinality(Waiters \ Expecting(j))
  BY <1>1 DEF InTime
<1>3. CASE t \in Expecting(j)'
  <2>1. Delta * (1 + Used) <= j * Delta
    BY <1>3 DEF Expecting, NoDrift
  <2>2. j * Delta = Delta * j /\ Delta * (1 + Used) = Delta * Used + Delta
    BY <1>1
  <2>3. Delta * Used < Delta * j
    BY <1>1, <2>1, <2>2
  <2>4. Used < j
    BY <1>1, <2>3, TimesLess
  <2>5. QED
    BY <1>1, <2>4
<1>4. CASE t \notin Expecting(j)'
  <2>1. Expecting(j)' \subseteq Expecting(j)
    BY <1>4 DEF Expecting
  <2>2. Cardinality(Waiters \ Expecting(j)) <= Cardinality(Waiters \ Expecting(j)')
    BY <2>1, MoreWaiters
  <2>3. QED
    BY <1>1, <1>2, <2>2
<1>5. QED
  BY <1>3, <1>4

\* The ticks are ahead of the time by no more than the waiters account for.
LEMMA InTimeBounds ==
    ASSUME TimerTypeOK, InTime
    PROVE  AheadBounded
<1> DEFINE q == now \div Delta
           j == q + 1
           W == Cardinality(Waiters)
<1>1. now \in Nat /\ Used \in Nat /\ Delta \in Nat \ {0}
  BY DEF TimerTypeOK, Used
<1>2. q \in Nat /\ Delta * q <= now /\ now < Delta * (q + 1)
  BY <1>1, DivBounds
<1> HIDE DEF q
<1>3. j \in Nat /\ j * Delta > now
  <2>1. (q + 1) * Delta = Delta * (q + 1)
    BY <1>1, <1>2
  <2>2. QED
    BY <1>1, <1>2, <2>1
<1>4. Used <= (j - 1) + Cardinality(Waiters \ Expecting(j))
  BY <1>3 DEF InTime
<1>5. Cardinality(Waiters \ Expecting(j)) <= W
  BY MoreWaiters
<1>6. Cardinality(Waiters \ Expecting(j)) \in Nat /\ W \in Nat
  BY WaitersFinite
<1>7. Used <= q + W
  BY <1>1, <1>2, <1>4, <1>5, <1>6
<1> HIDE DEF W
<1>8. Delta * Used <= Delta * q + Delta * W
  <2>1. PICK k \in Nat : q + W = Used + k
    BY <1>1, <1>2, <1>6, <1>7, (q + W) - Used \in Nat
  <2>2. Delta * (q + W) = Delta * q + Delta * W
    BY <1>1, <1>2, <1>6
  <2>3. Delta * (Used + k) = Delta * Used + Delta * k /\ Delta * k \in Nat
    BY <1>1
  <2>4. Delta * Used \in Nat /\ Delta * q \in Nat /\ Delta * W \in Nat
    BY <1>1, <1>2, <1>6
  <2>5. QED
    BY <2>1, <2>2, <2>3, <2>4
<1>9. Delta * Used \in Nat /\ Delta * q \in Nat /\ Delta * W \in Nat
  BY <1>1, <1>2, <1>6
<1>10. QED
  BY <1>1, <1>2, <1>8, <1>9 DEF AheadBounded, W

\* Neither the waiters that have returned nor the ticks change.
LEMMA BalanceKept ==
    ASSUME Balance, UNCHANGED <<cpc, delivered, handled>>, open_' => open_,
           \A t \in Waiters : wpc'[t] # "idle" => cpc[t] = "call"
    PROVE  Balance'
<1>1. Returned' = Returned
  BY DEF Returned
<1>2. QED
  BY <1>1 DEF Balance, TicksHandled, Returned

\* A waiter returns from its wait, with a tick or because the channel is closed.
LEMMA BalanceReturns ==
    ASSUME TimerTypeOK, Balance, NEW t \in Waiters, cpc[t] = "call",
           cpc' = [cpc EXCEPT ![t] = "check"],
           handled' = handled,
           \/ delivered' = delivered + 1 /\ open_
           \/ delivered' = delivered /\ ~open_',
           \A u \in Waiters : wpc'[u] # "idle" => u # t /\ wpc[u] # "idle"
    PROVE  Balance'
<1>1. Returned' = Returned \cup {t} /\ t \notin Returned
  BY DEF Returned, TimerTypeOK
<1>2. IsFiniteSet(Returned) /\ Cardinality(Returned) \in Nat
  BY WaitersFinite DEF Returned
<1>3. Cardinality(Returned') = Cardinality(Returned) + 1
  BY <1>1, <1>2, FS_AddElement
<1>4. handled <= delivered /\ delivered <= handled + Cardinality(Returned)
  BY DEF Balance, TicksHandled, Returned
<1>5. open_ => delivered = handled + Cardinality(Returned)
  BY DEF Balance
<1>6. handled \in Nat /\ delivered \in Nat
  BY DEF TimerTypeOK
<1>7. /\ handled' <= delivered'
      /\ delivered' <= handled' + Cardinality(Returned')
      /\ open_' => delivered' = handled' + Cardinality(Returned')
  BY <1>2, <1>3, <1>4, <1>5, <1>6
<1>8. \A u \in Waiters : wpc'[u] # "idle" => cpc'[u] = "call"
  BY DEF Balance, TimerTypeOK
<1>9. QED
  BY <1>7, <1>8 DEF Balance, TicksHandled, Returned

\* A waiter handles its tick, or gives up.
LEMMA BalanceCheck ==
    ASSUME TimerTypeOK, Balance, NEW t \in Waiters, TimerCheck(t)
    PROVE  Balance'
<1>1. IsFiniteSet(Returned) /\ Cardinality(Returned) \in Nat /\ t \in Returned
  BY WaitersFinite DEF Returned, TimerCheck
<1>2. wpc[t] = "idle" /\ UNCHANGED <<wpc, open_, delivered>>
  BY DEF TimerCheck, Balance
<1>3. \A u \in Waiters : wpc'[u] # "idle" => cpc'[u] = "call"
  BY <1>2 DEF TimerCheck, Balance, TimerTypeOK
<1>4. CASE open_
  <2>1. Returned' = Returned \ {t} /\ handled' = handled + 1
    BY <1>4 DEF TimerCheck, Returned, TimerTypeOK
  <2>2. Cardinality(Returned') = Cardinality(Returned) - 1
    BY <1>1, <2>1, FS_RemoveElement
  <2>3. Cardinality(Returned') \in Nat
    BY WaitersFinite DEF Returned
  <2>4. delivered = handled + Cardinality(Returned) /\ handled \in Nat
    BY <1>4 DEF Balance, TimerTypeOK
  <2>5. /\ handled' <= delivered'
        /\ delivered' = handled' + Cardinality(Returned')
        /\ delivered' <= handled' + Cardinality(Returned')
    BY <1>1, <1>2, <2>1, <2>2, <2>3, <2>4
  <2>6. QED
    BY <1>3, <2>5 DEF Balance, TicksHandled, Returned
<1>5. CASE ~open_
  <2>1. Returned' = Returned /\ handled' = handled
    BY <1>5 DEF TimerCheck, Returned, TimerTypeOK
  <2>2. QED
    BY <1>2, <1>3, <1>5, <2>1 DEF Balance, TicksHandled, Returned
<1>6. QED
  BY <1>4, <1>5

\* The ticks that a flush() finds due are used up, and no more.
LEMMA FlushUses ==
    ASSUME TimerInv, NEW t \in Flushers, TimerFlush(t)
    PROVE  /\ \E u \in Nat : Used' = u /\ Delta * u <= now
           /\ next_tick_' > now \/ ~open_'
           /\ \A u \in Threads : wpc'[u] # "idle" <=> wpc[u] # "idle"
<1> DEFINE m == now - next_tick_
           q == m \div Delta
           n == q + 1
           k == Least(n, count_)
<1>1. /\ now \in Nat /\ next_tick_ \in Nat /\ Delta \in Nat \ {0} /\ now >= next_tick_
      /\ count_ \in Nat
  BY DEF TimerFlush, TimerInv, TimerTypeOK
<1>2. m \in Nat
  BY <1>1
<1>3. q \in Nat /\ Delta * q <= m /\ m < Delta * (q + 1)
  <2> HIDE DEF m
  <2> QED
    BY <1>2, DivBounds
<1>4. TimerStep(n, wpc) /\ wpc \in [Threads -> {"idle", "asleep", "woken"}]
  BY DEF TimerFlush, TimerInv, TimerTypeOK, ChannelBaseType, CondVarType
<1> HIDE DEF q
<1>5. n \in Nat
  BY <1>3
<1>6. /\ Used' = Used + k
      /\ k \in Nat /\ k <= n
      /\ count_' = count_ - k
      /\ \A u \in Threads : wpc'[u] # "idle" <=> wpc[u] # "idle"
  <2> HIDE DEF n
  <2>1. flushed' = flushed + count_ - count_' /\ delivered' = delivered
    BY DEF TimerFlush
  <2>2. QED
    BY <1>4, <1>5, <2>1, TimerStepUses DEF TimerInv
<1>7. PICK v \in Nat : v = Used
  BY DEF Used, TimerInv, TimerTypeOK
<1>8. next_tick_ = Delta * (1 + v)
  BY <1>7 DEF TimerInv, NoDrift
<1>9. Delta * (v + k) <= now
  <2> HIDE DEF k
  <2>1. PICK l \in Nat : q + 1 = k + l
    BY <1>3, <1>6, (q + 1) - k \in Nat
  <2>2. Delta * (1 + v) = Delta * v + Delta /\ Delta * v \in Nat
    BY <1>1
  <2>3. Delta * (q + 1) = Delta * q + Delta /\ Delta * q \in Nat
    BY <1>1, <1>3
  <2>4. Delta * (k + l) = Delta * k + Delta * l /\ Delta * k \in Nat /\ Delta * l \in Nat
    BY <1>1, <1>6
  <2>5. Delta * (v + k) = Delta * v + Delta * k
    BY <1>1, <1>6
  <2>6. Delta * k <= Delta * q + Delta
    BY <1>1, <2>1, <2>3, <2>4
  <2>7. Delta * v + Delta + Delta * q <= now
    BY <1>1, <1>3, <1>8, <2>2, <2>3
  <2>8. QED
    BY <1>1, <2>2, <2>3, <2>4, <2>5, <2>6, <2>7
<1>10. next_tick_' > now \/ ~open_'
  <2>1. CASE k = n
    <3>1. next_tick_' = next_tick_ + n * Delta
      BY <1>4, <2>1 DEF TimerStep
    <3>2. n * Delta = Delta * (q + 1) /\ n * Delta \in Nat
      BY <1>1, <1>3
    <3>3. next_tick_' > now
      BY <1>1, <1>3, <3>1, <3>2
    <3>4. QED
      BY <3>3
  <2>2. CASE k # n
    <3>1. k = count_
      BY <2>2 DEF Least
    <3>2. count_' = 0
      BY <1>1, <1>6, <3>1
    <3>3. QED
      BY <1>4, <3>2 DEF TimerStep
  <2>3. QED
    BY <2>1, <2>2
<1>11. v + k \in Nat /\ Used' = v + k
  BY <1>6, <1>7
<1>12. QED
  BY <1>6, <1>9, <1>10, <1>11

\* A tick that a wait finds due.
LEMMA DueUses ==
    ASSUME TimerInv, NEW t \in Waiters, WaitDue(t)
    PROVE  /\ \E u \in Nat : Used' = u /\ Delta * u <= now
           /\ \/ delivered' = delivered + 1
              \/ delivered' = delivered /\ ~open_'
           /\ \A u \in Threads : wpc'[u] # "idle" <=> wpc[u] # "idle"
<1>1. /\ now \in Nat /\ next_tick_ <= now /\ count_ \in Nat /\ delivered \in Nat
      /\ flushed \in Nat /\ Delta \in Nat
  BY DEF WaitDue, TimerInv, TimerTypeOK
<1>2. /\ TimerStep(1, wpc) /\ wpc \in [Threads -> {"idle", "asleep", "woken"}]
      /\ delivered' = delivered + count_ - count_' /\ flushed' = flushed
  BY DEF WaitDue, TimerInv, TimerTypeOK, ChannelBaseType, CondVarType
<1>3. /\ Used' = Used + Least(1, count_)
      /\ count_' = count_ - Least(1, count_)
      /\ \A u \in Threads : wpc'[u] # "idle" <=> wpc[u] # "idle"
  BY <1>2, TimerStepUses DEF TimerInv
<1>4. Least(1, count_) \in {0, 1} /\ (Least(1, count_) = 0 => count_' = 0)
  BY <1>1, <1>3 DEF Least
<1>5. PICK v \in Nat : v = Used
  BY <1>1 DEF Used
<1>6. Delta * (1 + v) <= now
  BY <1>1, <1>5 DEF TimerInv, NoDrift
<1>7. Used' \in {v, 1 + v}
  BY <1>3, <1>4, <1>5
<1>8. Delta * v <= now
  <2>1. Delta * (1 + v) = Delta + Delta * v /\ Delta * v \in Nat
    BY <1>1
  <2>2. QED
    BY <1>1, <1>6, <2>1
<1>9. \E u \in Nat : Used' = u /\ Delta * u <= now
  BY <1>6, <1>7, <1>8
<1>10. \/ delivered' = delivered + 1
       \/ delivered' = delivered /\ ~open_'
  <2>1. count_' = 0 => ~open_'
    BY <1>2 DEF TimerStep
  <2>2. QED
    BY <1>1, <1>2, <1>3, <1>4, <2>1
<1>11. QED
  BY <1>3, <1>9, <1>10

\* The wait functions and the checks after them keep the ticks in time and
\* accounted for.
LEMMA WaiterKeeps ==
    ASSUME TimerInv, TimerInv', InTime, Balance, NEW t \in Waiters,
           TimerWait(t) \/ TimerCheck(t)
    PROVE  InTime' /\ Balance'
<1>1. TimerTypeOK /\ TimerTypeOK' /\ NoDrift /\ t \in Threads
  BY DEF TimerInv
<1>2. wpc \in [Threads -> {"idle", "asleep", "woken"}] /\ now \in Nat
  BY <1>1 DEF TimerTypeOK, ChannelBaseType, CondVarType
<1>3. CASE TimerCheck(t)
  <2>1. UNCHANGED <<now, wpc, until, forTick, delivered, flushed>>
    BY <1>3 DEF TimerCheck
  <2>2. InTime'
    BY <1>1, <1>2, <2>1, InTimeKept DEF Used
  <2>3. QED
    BY <1>1, <1>3, <2>2, BalanceCheck
<1>4. CASE WaitClosed(t)
  <2>1. UNCHANGED <<now, open_, wpc, until, forTick, delivered, flushed, handled>>
    BY <1>4 DEF WaitClosed, history
  <2>2. InTime'
    BY <1>1, <1>2, <2>1, InTimeKept DEF Used
  <2>3. /\ cpc[t] = "call" /\ wpc[t] = "idle" /\ ~open_
        /\ cpc' = [cpc EXCEPT ![t] = "check"]
    BY <1>4 DEF WaitClosed, Calls
  <2>4. \A u \in Waiters : wpc'[u] # "idle" => u # t /\ wpc[u] # "idle"
    BY <2>1, <2>3
  <2>5. Balance'
    BY <1>1, <2>1, <2>3, <2>4, BalanceReturns
  <2>6. QED
    BY <2>2, <2>5
<1>5. CASE WaitDue(t)
  <2>1. /\ \E u \in Nat : Used' = u /\ Delta * u <= now
        /\ \/ delivered' = delivered + 1
           \/ delivered' = delivered /\ ~open_'
        /\ \A u \in Threads : wpc'[u] # "idle" <=> wpc[u] # "idle"
    BY <1>5, DueUses
  <2>2. /\ now' = now /\ handled' = handled /\ open_ /\ cpc[t] = "call" /\ wpc[t] = "idle"
        /\ cpc' = [cpc EXCEPT ![t] = "check"]
    BY <1>5 DEF WaitDue, Calls
  <2>3. InTime'
    BY <1>1, <2>1, <2>2, InTimeDue
  <2>4. \A u \in Waiters : wpc'[u] # "idle" => u # t /\ wpc[u] # "idle"
    BY <2>1, <2>2
  <2>5. Balance'
    BY <1>1, <2>1, <2>2, <2>4, BalanceReturns
  <2>6. QED
    BY <2>3, <2>5
<1>6. CASE WaitBrief(t)
  <2>1. /\ UNCHANGED <<now, open_, cpc, delivered, flushed, handled>>
        /\ wpc' = [wpc EXCEPT ![t] = "asleep"] /\ wpc[t] = "idle" /\ cpc[t] = "call"
        /\ forTick' = [forTick EXCEPT ![t] = FALSE]
    BY <1>6 DEF WaitBrief, FallAsleep, Calls, history
  <2>2. \A u \in Waiters \ {t} : until'[u] = until[u]
    BY <1>1, <1>6 DEF WaitBrief, TimerTypeOK
  <2>3. \A u \in Waiters : wpc'[u] # "idle" /\ forTick'[u] =>
           wpc[u] # "idle" /\ forTick[u] /\ until'[u] = until[u]
    BY <1>1, <1>2, <2>1, <2>2 DEF TimerTypeOK
  <2>4. InTime'
    BY <1>1, <1>2, <2>1, <2>3, InTimeKept DEF Used
  <2>5. Balance'
    BY <1>2, <2>1, BalanceKept DEF Balance
  <2>6. QED
    BY <2>4, <2>5
<1>7. CASE WaitTick(t)
  <2>1. /\ UNCHANGED <<now, open_, cpc, delivered, flushed, handled>>
        /\ wpc' = [wpc EXCEPT ![t] = "asleep"] /\ wpc[t] = "idle" /\ cpc[t] = "call"
        /\ forTick' = [forTick EXCEPT ![t] = TRUE]
        /\ until' = [until EXCEPT ![t] = next_tick_]
    BY <1>7 DEF WaitTick, FallAsleep, Calls, history
  <2>2. /\ until'[t] = next_tick_
        /\ \A u \in Waiters \ {t} :
              wpc'[u] = wpc[u] /\ until'[u] = until[u] /\ forTick'[u] = forTick[u]
    BY <1>1, <1>2, <2>1 DEF TimerTypeOK
  <2>3. InTime'
    BY <1>1, <2>1, <2>2, InTimeSleep DEF Used
  <2>4. Balance'
    BY <1>2, <2>1, BalanceKept DEF Balance
  <2>5. QED
    BY <2>3, <2>4
<1>8. CASE TimerWaitResumes(t) \/ BriefOver(t)
  <2>1. /\ UNCHANGED <<now, open_, until, forTick, delivered, flushed, handled>>
        /\ wpc[t] # "idle" /\ cpc[t] = "call"
        /\ cpc' = [cpc EXCEPT ![t] = IF open_ THEN "call" ELSE "check"]
        /\ ~open_ => wpc'[t] = "idle"
        /\ \A u \in Threads \ {t} : wpc'[u] = wpc[u]
    BY <1>1, <1>2, <1>8 DEF TimerWaitResumes, BriefOver, Resume, TimeOut, history, Balance
  <2>2. InTime'
    BY <1>1, <1>2, <2>1, InTimeKept DEF Used
  <2>3. CASE open_
    <3>1. UNCHANGED cpc
      BY <1>1, <2>1, <2>3 DEF TimerTypeOK
    <3>2. QED
      BY <2>1, <2>2, <3>1, BalanceKept DEF Balance
  <2>4. CASE ~open_
    BY <1>1, <2>1, <2>2, <2>4, BalanceReturns
  <2>5. QED
    BY <2>3, <2>4
<1>9. CASE WaitDisturbed(t)
  <2>1. /\ UNCHANGED <<now, open_, cpc, until, forTick, delivered, flushed, handled>>
        /\ wpc[t] # "idle"
        /\ \A u \in Threads \ {t} : wpc'[u] = wpc[u]
    BY <1>1, <1>2, <1>9 DEF WaitDisturbed, WakeSpuriously, waits, history
  <2>2. InTime'
    BY <1>1, <1>2, <2>1, InTimeKept DEF Used
  <2>3. Balance'
    BY <2>1, BalanceKept DEF Balance
  <2>4. QED
    BY <2>2, <2>3
<1>10. CASE TickOver(t)
  <2>1. /\ UNCHANGED <<now, until, forTick, flushed, handled>>
        /\ wpc[t] # "idle" /\ cpc[t] = "call" /\ forTick[t] /\ now >= until[t]
        /\ cpc' = [cpc EXCEPT ![t] = "check"]
    BY <1>10 DEF TickOver, Balance
  <2>2. /\ Used' \in {Used, Used + 1}
        /\ \/ delivered' = delivered + 1 /\ open_
           \/ delivered' = delivered /\ ~open_'
        /\ wpc'[t] = "idle"
        /\ \A u \in Waiters \ {t} : wpc'[u] # "idle" <=> wpc[u] # "idle"
    <3>1. CASE open_
      <4> DEFINE w == [wpc EXCEPT ![t] = "idle"]
      <4>1. /\ TimerStep(1, w) /\ w \in [Threads -> {"idle", "asleep", "woken"}]
            /\ delivered' = delivered + count_ - count_'
        BY <1>1, <1>2, <1>10, <3>1 DEF TickOver
      <4>2. w[t] = "idle" /\ \A u \in Threads \ {t} : w[u] = wpc[u]
        BY <1>1, <1>2
      <4> HIDE DEF w
      <4>3. /\ Used' = Used + Least(1, count_)
            /\ count_' = count_ - Least(1, count_)
            /\ \A u \in Threads : wpc'[u] # "idle" <=> w[u] # "idle"
        BY <1>1, <2>1, <4>1, TimerStepUses
      <4>4. count_ \in Nat /\ delivered \in Nat /\ Used \in Nat
        BY <1>1 DEF TimerTypeOK, Used
      <4>5. Least(1, count_) \in {0, 1} /\ (Least(1, count_) = 0 => count_' = 0)
        BY <4>3, <4>4 DEF Least
      <4>6. \/ delivered' = delivered + 1
            \/ delivered' = delivered /\ ~open_'
        <5>1. count_' = 0 => ~open_'
          BY <4>1 DEF TimerStep
        <5>2. QED
          BY <4>1, <4>3, <4>4, <4>5, <5>1
      <4>7. wpc'[t] = "idle" /\ \A u \in Waiters \ {t} : wpc'[u] # "idle" <=> wpc[u] # "idle"
        BY <1>1, <4>2, <4>3
      <4>8. QED
        BY <3>1, <4>3, <4>4, <4>5, <4>6, <4>7
    <3>2. CASE ~open_
      <4>1. UNCHANGED <<open_, delivered>> /\ wpc' = [wpc EXCEPT ![t] = "idle"]
        BY <1>10, <3>2 DEF TickOver, TimeOut
      <4>2. QED
        BY <1>1, <1>2, <2>1, <3>2, <4>1 DEF Used
    <3>3. QED
      BY <3>1, <3>2
  <2>3. until[t] <= now
    BY <1>1, <1>2, <2>1 DEF TimerTypeOK
  <2>4. InTime'
    BY <1>1, <2>1, <2>2, <2>3, InTimeTick
  <2>5. \A u \in Waiters : wpc'[u] # "idle" => u # t /\ wpc[u] # "idle"
    BY <2>2
  <2>6. Balance'
    BY <1>1, <2>1, <2>2, <2>5, BalanceReturns
  <2>7. QED
    BY <2>4, <2>6
<1>11. QED
  BY <1>3, <1>4, <1>5, <1>6, <1>7, <1>8, <1>9, <1>10 DEF TimerWait

\* Every step of a timer keeps its ticks in time and accounted for.
LEMMA TimerKeeps ==
    ASSUME TimerInv, TimerInv', InTime, Balance, TimerNext
    PROVE  InTime' /\ Balance'
<1>1. TimerTypeOK /\ TimerTypeOK' /\ now \in Nat
  BY DEF TimerInv, TimerTypeOK
<1>2. CASE TimePasses
  <2>1. /\ UNCHANGED <<wpc, open_, cpc, until, forTick, delivered, flushed, handled>>
        /\ now' = now + 1
    BY <1>2 DEF TimePasses, waits, history
  <2>2. InTime'
    BY <1>1, <2>1, InTimeKept DEF Used
  <2>3. Balance'
    BY <2>1, BalanceKept DEF Balance
  <2>4. QED
    BY <2>2, <2>3
<1>3. CASE TimerClose
  <2>1. /\ UNCHANGED <<now, cpc, until, forTick, delivered, flushed, handled>>
        /\ ~open_'
        /\ \A t \in Threads : wpc'[t] # "idle" <=> wpc[t] # "idle"
    BY <1>3 DEF TimerClose, NotifyAll, Notified, waits, history
  <2>2. InTime'
    BY <1>1, <2>1, InTimeKept DEF Used
  <2>3. Balance'
    BY <2>1, BalanceKept DEF Balance
  <2>4. QED
    BY <2>2, <2>3
<1>4. ASSUME NEW t \in Flushers, TimerFlush(t) PROVE InTime' /\ Balance'
  <2>1. UNCHANGED <<now, cpc, until, forTick, delivered, handled>> /\ open_
    BY <1>4 DEF TimerFlush, waits
  <2>2. /\ \E u \in Nat : Used' = u /\ Delta * u <= now
        /\ \A u \in Threads : wpc'[u] # "idle" <=> wpc[u] # "idle"
    BY <1>4, FlushUses
  <2>3. InTime'
    BY <1>1, <2>1, <2>2, InTimeDue
  <2>4. Balance'
    BY <2>1, <2>2, BalanceKept DEF Balance
  <2>5. QED
    BY <2>3, <2>4
<1>5. QED
  BY <1>2, <1>3, <1>4, WaiterKeeps DEF TimerNext

\* A new timer has used no ticks.
LEMMA InitTicks == Init => TicksInv
<1> SUFFICES ASSUME Init PROVE TicksInv
  OBVIOUS
<1>1. /\ now = 0 /\ delivered = 0 /\ flushed = 0 /\ handled = 0
      /\ \A t \in Waiters : wpc[t] = "idle" /\ cpc[t] = "call"
  BY DEF Init, TimerInit, ChannelBaseInit, CondVarInit
<1>2. InTime
  <2> SUFFICES ASSUME NEW j \in Nat, j * Delta > 0
               PROVE  0 <= (j - 1) + Cardinality(Waiters \ Expecting(j))
    BY <1>1 DEF InTime, Used
  <2>1. j # 0
    OBVIOUS
  <2>2. QED
    BY <2>1, WaitersFinite
<1>3. Balance
  <2>1. Returned = {}
    BY <1>1 DEF Returned
  <2>2. Cardinality(Returned) = 0
    BY <2>1, FS_EmptySet
  <2>3. QED
    BY <1>1, <2>2 DEF Balance, TicksHandled, Returned
<1>4. QED
  BY <1>1, <1>2, <1>3 DEF TicksInv

\* No step of any class of channel breaks the account of the ticks.
LEMMA NextTicks ==
    ASSUME Inv, Inv', TicksInv, [Next]_vars
    PROVE  TicksInv'
<1>1. CASE AsTimer(TimerNext)
  <2>1. class = "TimerChannel" /\ class' = class /\ TimerNext
    BY <1>1 DEF AsTimer
  <2>2. TimerInv /\ TimerInv'
    BY <2>1 DEF Inv, TypeOK, TimerInv, TimerWakes, NoLostWakeup, Ready
  <2>3. QED
    BY <2>1, <2>2, TimerKeeps DEF TicksInv
<1>2. CASE \/ AsQueue(QueueNext) \/ AsValue(ValueNext) \/ AsBuffer(BufferNext)
           \/ AsGenerator(GeneratorNext)
  <2>1. class # "TimerChannel" /\ class' = class /\ UNCHANGED <<delivered, flushed, handled>>
    BY <1>2 DEF AsQueue, AsValue, AsBuffer, AsGenerator, timerVars, history
  <2>2. QED
    BY <2>1 DEF TicksInv
<1>3. CASE UNCHANGED vars
  <2>1. UNCHANGED <<class, wpc, open_, now, cpc, until, forTick, delivered, flushed, handled>>
    BY <1>3 DEF vars, timerVars, waits, history
  <2>2. QED
    BY <2>1 DEF TicksInv, InTime, Balance, Used, Expecting, Returned, TicksHandled
<1>4. QED
  BY <1>1, <1>2, <1>3 DEF Next

\* Only flush() discards ticks.
LEMMA FlushStep ==
    ASSUME Inv, [Next]_vars, flushed' # flushed
    PROVE  next_tick_' > now \/ ~open_'
<1>1. AsTimer(TimerNext)
  BY DEF Next, AsQueue, AsValue, AsBuffer, AsGenerator, vars, timerVars, history
<1>2. TimerInv /\ TimerNext
  BY <1>1 DEF AsTimer, Inv, TypeOK, TimerInv, TimerWakes, NoLostWakeup, Ready
<1>3. PICK t \in Flushers : TimerFlush(t)
  BY <1>2 DEF TimerNext, TimePasses, TimerClose, TimerWait, WaitClosed, WaitDue, WaitBrief,
              WaitTick, TimerWaitResumes, WaitDisturbed, BriefOver, TickOver, TimerCheck, history
<1>4. QED
  BY <1>2, <1>3, FlushUses

\* TimerChannel: whatever the waiters, flush(), close() and the time do, ticks
\* run ahead of the time by no more than one interval for each waiter, each
\* tick given is handled or still with its waiter, and flush() leaves no tick
\* pending.
THEOREM TicksAreKept == Spec => TicksKept
<1>1. Inv /\ TicksInv => AheadBounded /\ TicksHandled
  <2> SUFFICES ASSUME Inv, TicksInv PROVE AheadBounded /\ TicksHandled
    OBVIOUS
  <2>1. TimerTypeOK
    BY DEF Inv, TypeOK
  <2>2. CASE class = "TimerChannel"
    BY <2>1, <2>2, InTimeBounds DEF TicksInv, Balance
  <2>3. CASE class # "TimerChannel"
    <3>1. delivered = 0 /\ flushed = 0 /\ handled = 0 /\ now \in Nat
      BY <2>1, <2>3 DEF TicksInv, TimerTypeOK
    <3>2. /\ Cardinality(Waiters) \in Nat
          /\ Cardinality({t \in Waiters : cpc[t] \in {"check", "done"}}) \in Nat
      BY WaitersFinite
    <3>3. Delta * Cardinality(Waiters) \in Nat /\ Delta * 0 = 0
      BY <3>2
    <3>4. AheadBounded
      BY <3>1, <3>3 DEF AheadBounded, Used
    <3>5. TicksHandled
      BY <3>1, <3>2 DEF TicksHandled
    <3>6. QED
      BY <3>4, <3>5
  <2>4. QED
    BY <2>2, <2>3
<1>2. Inv /\ [Next]_vars => [flushed' # flushed => next_tick_' > now \/ ~open_']_timerVars
  BY FlushStep
<1>3. Inv /\ Inv' /\ TicksInv /\ [Next]_vars => TicksInv'
  BY NextTicks
<1>4. QED
  BY <1>1, <1>2, <1>3, InitTicks, Invariance, PTL DEF Spec, TicksKept, FlushCatchesUp

-----------------------------------------------------------------------------
(* BufferChannel as a pipe                                                 *)

\* The bytes of b after the first o.
After(b, o) == SubSeq(b, o + 1, Len(b))

\* The bytes after an offset are bytes, and their number is what remains.
LEMMA AfterType ==
    ASSUME NEW S, NEW b \in Seq(S), NEW o \in 0 .. Len(b)
    PROVE  /\ After(b, o) \in Seq(S)
           /\ Len(After(b, o)) = Len(b) - o
           /\ \A i \in 1 .. Len(b) - o : After(b, o)[i] = b[o + i]
<1>1. Len(b) \in Nat /\ \A i \in o + 1 .. Len(b) : b[i] \in S
  OBVIOUS
<1>2. /\ SubSeq(b, o + 1, Len(b)) \in Seq(S)
      /\ Len(SubSeq(b, o + 1, Len(b))) = IF o + 1 <= Len(b) THEN Len(b) - (o + 1) + 1 ELSE 0
      /\ \A i \in 1 .. Len(b) - (o + 1) + 1 : SubSeq(b, o + 1, Len(b))[i] = b[(o + 1) + i - 1]
  BY <1>1, SubSeqProperties
<1>3. QED
  BY <1>1, <1>2 DEF After

\* The first n of the bytes after o, and the bytes after those.
LEMMA AfterFront ==
    ASSUME NEW S, NEW b \in Seq(S), NEW o \in 0 .. Len(b), NEW n \in 0 .. Len(b) - o
    PROVE  SubSeq(After(b, o), 1, n) = SubSeq(b, o + 1, o + n)
<1> DEFINE d == After(b, o)
           l == SubSeq(d, 1, n)
           r == SubSeq(b, o + 1, o + n)
<1>0. Len(b) \in Nat /\ o \in Nat /\ n \in Nat /\ n <= Len(b) - o
  OBVIOUS
<1>1. /\ d \in Seq(S) /\ Len(d) = Len(b) - o
      /\ \A i \in 1 .. Len(b) - o : d[i] = b[o + i]
  BY AfterType, Zenon
<1> HIDE DEF d
<1>2. l \in Seq(S) /\ Len(l) = n /\ \A i \in 1 .. n : l[i] = d[i]
  BY <1>0, <1>1
<1>3. r \in Seq(S) /\ Len(r) = n /\ \A i \in 1 .. n : r[i] = b[o + i]
  BY <1>0, <1>1
<1> HIDE DEF l, r
<1>4. ASSUME NEW i \in 1 .. n PROVE l[i] = r[i]
  <2>1. i \in 1 .. Len(b) - o
    BY <1>0
  <2>2. QED
    BY <1>1, <1>2, <1>3, <2>1
<1>5. l = r
  BY <1>2, <1>3, <1>4, SeqEqual
<1>6. QED
  BY <1>5 DEF l, r, d

\* Dropping o bytes and then n more drops o + n.
LEMMA AfterAfter ==
    ASSUME NEW S, NEW b \in Seq(S), NEW o \in 0 .. Len(b), NEW n \in 0 .. Len(b) - o
    PROVE  After(After(b, o), n) = After(b, o + n)
<1> DEFINE d == After(b, o)
           l == After(d, n)
           r == After(b, o + n)
<1>0. Len(b) \in Nat /\ o \in Nat /\ n \in Nat /\ n <= Len(b) - o
  OBVIOUS
<1>1. /\ d \in Seq(S) /\ Len(d) = Len(b) - o
      /\ \A i \in 1 .. Len(b) - o : d[i] = b[o + i]
  BY AfterType, Zenon
<1> HIDE DEF d
<1>2. n \in 0 .. Len(d) /\ o + n \in 0 .. Len(b)
  BY <1>0, <1>1
<1>3. l \in Seq(S) /\ Len(l) = Len(d) - n /\ \A i \in 1 .. Len(d) - n : l[i] = d[n + i]
  BY <1>1, <1>2, AfterType
<1>4. /\ r \in Seq(S) /\ Len(r) = Len(b) - (o + n)
      /\ \A i \in 1 .. Len(b) - (o + n) : r[i] = b[(o + n) + i]
  BY <1>2, AfterType
<1> HIDE DEF l, r
<1>5. Len(l) = Len(r) /\ Len(l) = Len(b) - (o + n)
  BY <1>0, <1>1, <1>3, <1>4
<1>6. ASSUME NEW i \in 1 .. Len(l) PROVE l[i] = r[i]
  <2>1. n + i \in 1 .. Len(b) - o /\ i \in 1 .. Len(d) - n /\ o + (n + i) = (o + n) + i
    BY <1>0, <1>1, <1>5
  <2>2. QED
    BY <1>1, <1>3, <1>4, <1>5, <2>1
<1>7. l = r
  BY <1>3, <1>4, <1>5, <1>6, SeqEqual
<1>8. QED
  BY <1>7 DEF l, r, d

\* Bytes written at the end are at the end of those after the offset.
LEMMA AfterConcat ==
    ASSUME NEW S, NEW b \in Seq(S), NEW o \in 0 .. Len(b), NEW s \in Seq(S)
    PROVE  After(b \o s, o) = After(b, o) \o s
<1> DEFINE c == b \o s
           d == After(b, o)
           l == After(c, o)
           r == d \o s
<1>1. /\ d \in Seq(S) /\ Len(d) = Len(b) - o /\ Len(b) \in Nat /\ Len(s) \in Nat
      /\ \A i \in 1 .. Len(b) - o : d[i] = b[o + i]
  BY AfterType
<1>2. /\ c \in Seq(S) /\ Len(c) = Len(b) + Len(s)
      /\ \A i \in 1 .. Len(b) + Len(s) : c[i] = IF i <= Len(b) THEN b[i] ELSE s[i - Len(b)]
  BY ConcatProperties
<1> HIDE DEF c, d
<1>3. o \in 0 .. Len(c)
  BY <1>1, <1>2
<1>4. l \in Seq(S) /\ Len(l) = Len(c) - o /\ \A i \in 1 .. Len(c) - o : l[i] = c[o + i]
  BY <1>2, <1>3, AfterType
<1>5. /\ r \in Seq(S) /\ Len(r) = Len(d) + Len(s)
      /\ \A i \in 1 .. Len(d) + Len(s) : r[i] = IF i <= Len(d) THEN d[i] ELSE s[i - Len(d)]
  BY <1>1, ConcatProperties
<1> HIDE DEF l, r
<1>6. Len(l) = Len(r)
  BY <1>1, <1>2, <1>4, <1>5
<1>7. ASSUME NEW i \in 1 .. Len(l) PROVE l[i] = r[i]
  <2>1. i \in 1 .. Len(c) - o /\ o + i \in 1 .. Len(b) + Len(s) /\ i \in 1 .. Len(d) + Len(s)
    BY <1>1, <1>2, <1>4, <1>5, <1>6
  <2>2. CASE i <= Len(d)
    BY <1>1, <1>2, <1>4, <1>5, <2>1, <2>2
  <2>3. CASE ~(i <= Len(d))
    <3>1. ~(o + i <= Len(b)) /\ (o + i) - Len(b) = i - Len(d)
      BY <1>1, <2>1, <2>3
    <3>2. QED
      BY <1>2, <1>4, <1>5, <2>1, <2>3, <3>1
  <2>4. QED
    BY <2>2, <2>3
<1>8. l = r
  BY <1>4, <1>5, <1>6, <1>7, SeqEqual
<1>9. QED
  BY <1>8 DEF l, r, c, d

\* Whether read() clears the buffer, erases its front or leaves it, the bytes
\* that remain unread are those after the ones read.
LEMMA ConsumeAfter ==
    ASSUME NEW S, buf_ \in Seq(S), NEW k \in 0 .. Len(buf_), BufferConsume(k)
    PROVE  After(buf_', ofs_') = After(buf_, k)
<1>1. /\ After(buf_, k) \in Seq(S) /\ Len(After(buf_, k)) = Len(buf_) - k
      /\ Len(buf_) \in Nat
  BY AfterType
<1>2. CASE k = Len(buf_) /\ buf_' = <<>> /\ ofs_' = 0
  <2>1. After(buf_, k) = <<>>
    BY <1>1, <1>2, EmptySeq
  <2>2. After(<<>>, 0) = <<>>
    BY DEF After
  <2>3. QED
    BY <1>2, <2>1, <2>2
<1>3. CASE k < Len(buf_) /\ buf_' = SubSeq(buf_, k + 1, Len(buf_)) /\ ofs_' = 0
  <2>1. buf_' = After(buf_, k)
    BY <1>3 DEF After
  <2>2. SubSeq(buf_', 1, Len(buf_')) = buf_'
    BY <1>1, <2>1, SubSeqFull
  <2>3. QED
    BY <1>3, <2>1, <2>2 DEF After
<1>4. CASE buf_' = buf_ /\ ofs_' = k
  BY <1>4
<1>5. QED
  BY <1>2, <1>3, <1>4 DEF BufferConsume

\* A channel of another class has an empty buffer.
NoBytes == class # "BufferChannel" => buf_ = <<>> /\ ofs_ = 0

\* A read of some number of bytes is a Get of the pipe.
LEMMA ReadIsGet ==
    ASSUME BufferInv, NEW t \in Threads, NEW maxlen \in 1 .. MaxLen, BufferDoRead(t, maxlen)
    PROVE  Stream!Get
<1> DEFINE d == After(buf_, ofs_)
           n == IF Len(buf_) - ofs_ < maxlen THEN Len(buf_) - ofs_ ELSE maxlen
<1>1. buf_ \in Seq(Bytes) /\ ofs_ \in 0 .. Len(buf_) /\ Len(buf_) \in Nat
  BY DEF BufferInv, BufferTypeOK
<1>2. d \in Seq(Bytes) /\ Len(d) = Len(buf_) - ofs_
  BY <1>1, AfterType
<1>3. n \in 0 .. Len(buf_) - ofs_ /\ ofs_ + n \in 0 .. Len(buf_)
  BY <1>1
<1>4. /\ received' = [received EXCEPT ![t] = @ \o SubSeq(buf_, ofs_ + 1, ofs_ + n)]
      /\ BufferConsume(ofs_ + n)
      /\ open_ /\ UNCHANGED <<open_, sent>>
  BY DEF BufferDoRead
<1>5. n = IF Len(d) < maxlen THEN Len(d) ELSE maxlen
  BY <1>2
<1> HIDE DEF n, d
<1>6. SubSeq(d, 1, n) = SubSeq(buf_, ofs_ + 1, ofs_ + n)
  BY <1>1, <1>3, AfterFront DEF d
<1>7. After(buf_', ofs_') = After(buf_, ofs_ + n)
  BY <1>1, <1>3, <1>4, ConsumeAfter
<1>8. After(d, n) = After(buf_, ofs_ + n)
  BY <1>1, <1>3, AfterAfter DEF d
<1>9. /\ received' = [received EXCEPT ![t] = @ \o SubSeq(d, 1, n)]
      /\ SubSeq(buf_', ofs_' + 1, Len(buf_')) = SubSeq(d, n + 1, Len(d))
  BY <1>4, <1>6, <1>7, <1>8 DEF After
<1>10. LET k == IF Len(d) < maxlen THEN Len(d) ELSE maxlen
       IN  /\ open_
           /\ received' = [received EXCEPT ![t] = @ \o SubSeq(d, 1, k)]
           /\ SubSeq(buf_', ofs_' + 1, Len(buf_')) = SubSeq(d, k + 1, Len(d))
           /\ UNCHANGED <<open_, sent>>
  BY <1>4, <1>5, <1>9
<1>11. QED
  BY <1>10 DEF Stream!Get, d, After

\* A write of n bytes is a Put of the pipe.
LEMMA WriteIsPut ==
    ASSUME BufferInv, NEW t \in Threads, BufferWrite(t)
    PROVE  Stream!Put
<1>1. PICK n \in 0 .. MaxLen :
        /\ open_
        /\ sent + n <= MaxBytes
        /\ buf_' = buf_ \o [i \in 1 .. n |-> sent + i]
        /\ sent' = sent + n
        /\ UNCHANGED <<open_, ofs_, received>>
  BY DEF BufferWrite
<1>2. /\ buf_ \in Seq(Bytes) /\ ofs_ \in 0 .. Len(buf_) /\ n \in Nat /\ sent \in Nat
      /\ MaxBytes \in Nat
  BY DEF BufferInv, BufferTypeOK
<1>3. [i \in 1 .. n |-> sent + i] \in Seq(Bytes)
  BY <1>1, <1>2 DEF Bytes
<1>4. After(buf_', ofs_') = After(buf_, ofs_) \o [i \in 1 .. n |-> sent + i]
  BY <1>1, <1>2, <1>3, AfterConcat
<1>5. QED
  BY <1>1, <1>4 DEF Stream!Put, After

\* Every step of a buffer is a step of the pipe or changes nothing of it.
LEMMA BufferIsStream ==
    ASSUME BufferInv, BufferNext
    PROVE  Stream!StreamNext \/ UNCHANGED <<buf_, ofs_, open_, sent, received>>
<1>1. PICK t \in Threads :
        \/ BufferClose(t) \/ BufferRead(t) \/ BufferWrite(t) \/ BufferClear(t)
        \/ BufferWait(t) \/ BufferWaitResumes(t)
        \/ ReadAll(t) \/ ReadAllGoes(t)
  BY DEF BufferNext
<1>2. SubSeq(<<>>, 0 + 1, Len(<<>>)) = <<>>
  OBVIOUS
<1>3. CASE BufferClose(t)
  <2>1. Stream!Shut
    BY <1>2, <1>3 DEF BufferClose, Stream!Shut
  <2>2. QED
    BY <2>1 DEF Stream!StreamNext
<1>4. CASE BufferClear(t)
  <2>1. Stream!Discard
    BY <1>2, <1>4 DEF BufferClear, Stream!Discard
  <2>2. QED
    BY <2>1 DEF Stream!StreamNext
<1>5. CASE BufferRead(t)
  <2>1. Stream!Get
    BY <1>5, ReadIsGet DEF BufferRead
  <2>2. QED
    BY <2>1 DEF Stream!StreamNext
<1>6. CASE BufferWrite(t)
  <2>1. Stream!Put
    BY <1>6, WriteIsPut
  <2>2. QED
    BY <2>1 DEF Stream!StreamNext
<1>7. CASE BufferAppend(t)
  <2>1. CASE BufferDoRead(t, Block)
    <3>1. Stream!Get
      BY <2>1, ReadIsGet
    <3>2. QED
      BY <3>1 DEF Stream!StreamNext
  <2>2. CASE UNCHANGED <<wpc, open_, buf_, ofs_, sent, received>>
    BY <2>2
  <2>3. QED
    BY <1>7, <2>1, <2>2 DEF BufferAppend
<1>8. CASE \/ BufferWait(t) \/ BufferWaitResumes(t) \/ ReadAll(t)
           \/ ReadAllWaited(t) \/ ReadAllCheck(t)
  BY <1>8 DEF BufferWait, BufferWaitResumes, ReadAll, ReadAllWaited, ReadAllCheck, bufferVars
<1>9. QED
  BY <1>1, <1>3, <1>4, <1>5, <1>6, <1>7, <1>8 DEF ReadAllGoes

\* A step of a channel of another class closes the empty pipe, or leaves it.
LEMMA OtherIsStream ==
    ASSUME Inv, Inv', NoBytes, class # "BufferChannel", UNCHANGED bufferVars,
           open_' => open_
    PROVE  Stream!StreamNext \/ UNCHANGED <<buf_, ofs_, open_, sent, received>>
<1>1. buf_' = <<>> /\ ofs_' = 0 /\ SubSeq(<<>>, 0 + 1, Len(<<>>)) = <<>>
  BY DEF NoBytes, bufferVars
<1>2. CASE ~open_'
  <2>1. open_' = FALSE
    BY <1>2 DEF Inv, TypeOK, QueueTypeOK, ChannelBaseType
  <2>2. Stream!Shut
    BY <1>1, <2>1 DEF bufferVars, Stream!Shut
  <2>3. QED
    BY <2>2 DEF Stream!StreamNext
<1>3. CASE open_'
  BY <1>3 DEF bufferVars, Inv, TypeOK, QueueTypeOK, ChannelBaseType
<1>4. QED
  BY <1>2, <1>3

\* Every step of a channel is a step of the pipe, or leaves it alone.
LEMMA NextIsStream ==
    ASSUME Inv, Inv', NoBytes, [Next]_vars
    PROVE  NoBytes' /\ [Stream!StreamNext]_(Stream!streamVars)
<1> SUFFICES
      NoBytes' /\ (Stream!StreamNext \/ UNCHANGED <<buf_, ofs_, open_, sent, received>>)
  BY DEF Stream!streamVars
<1>1. CASE UNCHANGED vars
  BY <1>1 DEF vars, bufferVars, NoBytes
<1>2. CASE AsBuffer(BufferNext)
  <2>1. class = "BufferChannel" /\ class' = class /\ BufferNext
    BY <1>2 DEF AsBuffer
  <2>2. BufferInv
    BY <2>1 DEF Inv, TypeOK, BufferInv, BufferWakes, NoLostWakeup, Ready
  <2>3. QED
    BY <2>1, <2>2, BufferIsStream DEF NoBytes
<1>3. CASE \/ AsQueue(QueueNext) \/ AsValue(ValueNext) \/ AsTimer(TimerNext)
           \/ AsGenerator(GeneratorNext)
  <2>1. class # "BufferChannel" /\ class' = class /\ UNCHANGED bufferVars
    BY <1>3 DEF AsQueue, AsValue, AsTimer, AsGenerator
  <2>2. open_' => open_
    BY <1>3, QueueStaysClosed, TimerStaysClosed, GeneratorStaysClosed
    DEF AsQueue, AsValue, AsTimer, AsGenerator
  <2>3. NoBytes'
    BY <2>1 DEF NoBytes, bufferVars
  <2>4. QED
    BY <2>1, <2>2, <2>3, OtherIsStream
<1>4. QED
  BY <1>1, <1>2, <1>3 DEF Next

\* BufferChannel implements the pipe of ByteStream: the unread bytes are what
\* is in it, whatever the offset, the erasures and the threads do.
THEOREM ImplementsStream == Spec => IsAStream
<1>1. Init => Stream!StreamInit /\ NoBytes
  <2> SUFFICES ASSUME Init PROVE Stream!StreamInit /\ NoBytes
    OBVIOUS
  <2>1. /\ buf_ = <<>> /\ ofs_ = 0 /\ open_ = TRUE /\ sent = 0
        /\ received = [t \in Threads |-> <<>>]
    BY DEF Init, BufferInit, ChannelBaseInit
  <2>2. SubSeq(<<>>, 0 + 1, Len(<<>>)) = <<>>
    OBVIOUS
  <2>3. QED
    BY <2>1, <2>2 DEF Stream!StreamInit, NoBytes
<1>2. Inv /\ Inv' /\ NoBytes /\ [Next]_vars
         => NoBytes' /\ [Stream!StreamNext]_(Stream!streamVars)
  BY NextIsStream
<1>3. QED
  BY <1>1, <1>2, Invariance, PTL DEF Spec, IsAStream, Stream!StreamSpec

=============================================================================
