---------------------------- MODULE BufferChannel ----------------------------
(***************************************************************************)
(* The byte buffer of channel.hpp and channel.cpp, and the read_all() of   *)
(* its base class.  The bytes before offset ofs_ have been read; they are  *)
(* erased once they are half of the buffer or more.                        *)
(*                                                                         *)
(* A byte is the number of its arrival: 1, 2, 3...  A thread that calls    *)
(* read_all() is where rpc says: about to wait(), to ask is_closed() or to *)
(* append(); otherwise rpc is "none".                                      *)
(***************************************************************************)
EXTENDS Integers, Sequences, ChannelBase

CONSTANTS
    MaxBytes,       \* bound on the number of bytes ever written
    MaxLen,         \* bound on the length of a write and of a read
    Block           \* block_, the length of the reads of append()

ASSUME BufferAssumption ==
    /\ MaxBytes \in Nat
    /\ MaxLen \in Nat
    /\ Block \in 1 .. MaxLen

VARIABLES
    buf_,
    ofs_,
    rpc,        \* where each thread's read_all() is
    sent,       \* history: number of bytes written
    received    \* history: the bytes that each thread has read

bufferVars == <<buf_, ofs_, rpc, sent, received>>

Bytes == 1 .. MaxBytes

BufferTypeOK ==
    /\ ChannelBaseType
    /\ buf_ \in Seq(Bytes)
    /\ ofs_ \in 0 .. Len(buf_)
    /\ rpc \in [Threads -> {"none", "wait", "check", "append"}]
    /\ sent \in 0 .. MaxBytes
    /\ received \in [Threads -> Seq(Bytes)]

BufferInit ==
    /\ ChannelBaseInit
    /\ buf_ = <<>>
    /\ ofs_ = 0
    /\ rpc = [t \in Threads |-> "none"]
    /\ sent = 0
    /\ received = [t \in Threads |-> <<>>]

\* The predicate of the wait, and the result of do_wait_for().
BufferReady == ~open_ \/ ofs_ < Len(buf_)

\* Thread t may call a member function.
BufferFree(t) == wpc[t] = "idle" /\ rpc[t] = "none"

BufferClose(t) ==
    /\ BufferFree(t)
    /\ buf_' = <<>>
    /\ ofs_' = 0
    /\ open_' = FALSE
    /\ NotifyAll
    /\ UNCHANGED <<rpc, sent, received>>

\* Mutant: the erasure takes one byte too many.
BufferConsumeOneMore(ofs) ==
    \/ /\ ofs = Len(buf_)
       /\ buf_' = <<>>
       /\ ofs_' = 0
    \/ /\ ofs < Len(buf_)
       /\ 2 * ofs >= Len(buf_)
       /\ buf_' = SubSeq(buf_, ofs + 2, Len(buf_))
       /\ ofs_' = 0
    \/ /\ 2 * ofs < Len(buf_)
       /\ buf_' = buf_
       /\ ofs_' = ofs

\* The end of read(), when ofs bytes have been read: the buffer is cleared,
\* or loses its front, or is left as it is.
BufferConsume(ofs) ==
    \/ /\ ofs = Len(buf_)
       /\ buf_' = <<>>
       /\ ofs_' = 0
    \/ /\ ofs < Len(buf_)
       /\ 2 * ofs >= Len(buf_)
       /\ buf_' = SubSeq(buf_, ofs + 1, Len(buf_))
       /\ ofs_' = 0
    \/ /\ 2 * ofs < Len(buf_)
       /\ buf_' = buf_
       /\ ofs_' = ofs

\* On a closed channel, or with no room, read() returns 0.
BufferDoRead(t, maxlen) ==
    LET n == IF Len(buf_) - ofs_ < maxlen THEN Len(buf_) - ofs_ ELSE maxlen
    IN  /\ open_
        /\ received' = [received EXCEPT ![t] = @ \o SubSeq(buf_, ofs_ + 1, ofs_ + n)]
        /\ BufferConsume(ofs_ + n)
        /\ UNCHANGED <<wpc, open_, sent>>

BufferRead(t) ==
    /\ BufferFree(t)
    /\ \E maxlen \in 1 .. MaxLen : BufferDoRead(t, maxlen)
    /\ UNCHANGED rpc

\* A write to a closed channel returns false.
BufferWrite(t) ==
    \E n \in 0 .. MaxLen :
        /\ BufferFree(t)
        /\ open_
        /\ sent + n <= MaxBytes
        /\ buf_' = buf_ \o [i \in 1 .. n |-> sent + i]
        /\ sent' = sent + n
        /\ IF ofs_ < Len(buf_') THEN NotifyAll ELSE UNCHANGED wpc
        /\ UNCHANGED <<open_, ofs_, rpc, received>>

BufferClear(t) ==
    /\ BufferFree(t)
    /\ buf_' = <<>>
    /\ ofs_' = 0
    /\ UNCHANGED <<wpc, open_, rpc, sent, received>>

\* do_wait_for() in a thread that sleeps or is about to.  With the predicate
\* true, or no time to wait, it returns at once and changes nothing.
BufferWait(t) ==
    /\ rpc[t] \in {"none", "wait"}
    /\ FallAsleep(t, BufferReady) \/ TimeOut(t) \/ WakeSpuriously(t)
    /\ UNCHANGED <<open_, bufferVars>>

BufferWaitResumes(t) ==
    /\ Resume(t, BufferReady)
    /\ UNCHANGED <<open_, bufferVars>>

-----------------------------------------------------------------------------
(* StreamChannel::read_all()                                               *)

ReadAll(t) ==
    /\ BufferFree(t)
    /\ rpc' = [rpc EXCEPT ![t] = "wait"]
    /\ UNCHANGED <<wpc, open_, buf_, ofs_, sent, received>>

\* wait() returns when do_wait_for() says that the channel is ready.
ReadAllWaited(t) ==
    /\ rpc[t] = "wait"
    /\ wpc[t] = "idle"
    /\ BufferReady
    /\ rpc' = [rpc EXCEPT ![t] = "check"]
    /\ UNCHANGED <<wpc, open_, buf_, ofs_, sent, received>>

ReadAllCheck(t) ==
    /\ rpc[t] = "check"
    /\ rpc' = [rpc EXCEPT ![t] = IF open_ THEN "append" ELSE "none"]
    /\ UNCHANGED <<wpc, open_, buf_, ofs_, sent, received>>

\* append(): a read() of one block, whose result may be nothing if another
\* thread has read, cleared or closed in the meantime.
BufferAppend(t) ==
    /\ rpc[t] = "append"
    /\ rpc' = [rpc EXCEPT ![t] = "wait"]
    /\ \/ BufferDoRead(t, Block)
       \/ ~open_ /\ UNCHANGED <<wpc, open_, buf_, ofs_, sent, received>>

ReadAllGoes(t) == ReadAllWaited(t) \/ ReadAllCheck(t) \/ BufferAppend(t)

-----------------------------------------------------------------------------

BufferNext ==
    \E t \in Threads :
        \/ BufferClose(t) \/ BufferRead(t) \/ BufferWrite(t) \/ BufferClear(t)
        \/ BufferWait(t) \/ BufferWaitResumes(t)
        \/ ReadAll(t) \/ ReadAllGoes(t)

BufferSpec == BufferInit /\ [][BufferNext]_<<wpc, open_, bufferVars>>

-----------------------------------------------------------------------------
(* What the channel promises                                               *)

\* The unread bytes behave as a pipe: whatever the offset and the erasures,
\* reads deliver every byte in order and once, and nothing after a close.
Stream == INSTANCE ByteStream WITH
    data <- SubSeq(buf_, ofs_ + 1, Len(buf_)),
    isOpen <- open_,
    got <- received
IsAStream == Stream!StreamSpec

\* Bytes that have been read are less than half of the buffer: memory is in
\* proportion to what is still to be read.
WasteBounded == ofs_ = 0 \/ 2 * ofs_ < Len(buf_)

\* After a close every read_all() returns.
ReadAllReturns == \A t \in Threads : (~open_ /\ rpc[t] # "none") ~> rpc[t] = "none"
=============================================================================
