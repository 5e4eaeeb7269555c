----------------------------- MODULE ByteStream -----------------------------
(***************************************************************************)
(* What a BufferChannel promises its users: a pipe.  Bytes go in at one    *)
(* end, each read() takes from the other end as much as it has room for,   *)
(* clear() and close() throw away what is in between, and a closed stream  *)
(* stays closed and empty.  How the bytes are kept is not said.            *)
(***************************************************************************)
EXTENDS Integers, Sequences

CONSTANTS
    Threads,
    MaxBytes,       \* bound on the number of bytes ever written
    MaxLen          \* bound on the length of a write and of a read

VARIABLES
    data,       \* unread bytes; a byte is the number of its arrival
    isOpen,
    sent,       \* number of bytes written
    got         \* the bytes that each thread has read

streamVars == <<data, isOpen, sent, got>>

StreamInit ==
    /\ data = <<>>
    /\ isOpen = TRUE
    /\ sent = 0
    /\ got = [t \in Threads |-> <<>>]

Put ==
    \E n \in 0 .. MaxLen :
        /\ isOpen
        /\ sent + n <= MaxBytes
        /\ data' = data \o [i \in 1 .. n |-> sent + i]
        /\ sent' = sent + n
        /\ UNCHANGED <<isOpen, got>>

Get ==
    \E t \in Threads, maxlen \in 1 .. MaxLen :
        LET n == IF Len(data) < maxlen THEN Len(data) ELSE maxlen
        IN  /\ isOpen
            /\ got' = [got EXCEPT ![t] = @ \o SubSeq(data, 1, n)]
            /\ data' = SubSeq(data, n + 1, Len(data))
            /\ UNCHANGED <<isOpen, sent>>

Discard == data' = <<>> /\ UNCHANGED <<isOpen, sent, got>>

Shut == data' = <<>> /\ isOpen' = FALSE /\ UNCHANGED <<sent, got>>

StreamNext == Put \/ Get \/ Discard \/ Shut

StreamSpec == StreamInit /\ [][StreamNext]_streamVars
=============================================================================
