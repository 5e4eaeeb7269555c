------------------------------ MODULE Sockets -------------------------------
(***************************************************************************)
(* The sockets of net.hpp and net.cpp: TcpServer, TcpClient and Socket,    *)
(* which keep a handle of the system, and SocketSet, which keeps channels  *)
(* and copies of their handles and calls select() on the copies.           *)
(*                                                                         *)
(* The system gives the lowest number that is free, so the handle of a     *)
(* closed socket is soon that of another.  A step is a system call; a      *)
(* thread's frame holds the call of this library it is in, and pc what it  *)
(* does next.  Peers connect, send, receive and close at any time.         *)
(***************************************************************************)
EXTENDS Integers, FiniteSets, SequencesExt

CONSTANTS Threads,    \* the threads of the program
          Server,     \* a TcpServer
          Clients,    \* TcpClients
          SetUser,    \* the thread that uses the SocketSet
          Handles,    \* the numbers of handles
          Conns,      \* connections
          Message,    \* the number of bytes of a write
          MaxWrites,  \* writes to a connection
          Room,       \* bytes that a connection holds before send() must wait
          SizeMod,    \* size_t counts modulo this
          MaxMembers, \* entries of the SocketSet
          Scenes,     \* the threads and the channels of a behaviour, the bytes that
                      \* a peer may send, and whether it writes and uses the SocketSet
          MaxArrived, \* bytes that may reach a peer
          NoOne       \* the null pointer

ASSUME SocketAssumptions ==
    /\ Handles \subseteq Nat \ {0} /\ Server \notin Clients /\ SetUser \in Threads
    /\ Conns \cap {"free", "new", "listener"} = {}
    /\ NoOne \notin Conns \cup Clients \cup {Server, "listener"}
    /\ {Message, MaxWrites, Room, SizeMod} \subseteq Nat
    /\ Room > 0 /\ Message > 0 /\ SizeMod > 2 * Message

VARIABLES table,      \* what each handle stands for
          backlog,    \* connections that wait for accept()
          peer,       \* the other end of each connection
          sent,       \* the bytes its peer has sent
          inbound,    \* those that have not been received
          arrived,    \* the bytes that have reached the peer
          held,       \* how many of them it has not taken yet
          sock_,      \* the handle of each channel
          made,       \* what each channel was made for
          got,        \* the bytes each channel has read
          asked,      \* the bytes it has been asked to write, by calls that have returned
          channels_, natives_, current_, open_,   \* the SocketSet
          frame,      \* the call each thread is in
          scene       \* one of Scenes

kernel == <<table, backlog, peer, sent, inbound, arrived, held>>
objects == <<sock_, made, got, asked>>
set == <<channels_, natives_, current_, open_>>
vars == <<kernel, objects, set, frame, scene>>

Chans == Clients \cup {Server}
no_socket == 0

Idle == [pc |-> "idle", ch |-> NoOne, written |-> 0]

At(t, pc) == frame[t].pc = pc
Goto(t, pc) == frame' = [frame EXCEPT ![t].pc = pc]
Return(t) == frame' = [frame EXCEPT ![t] = Idle]

\* A socket has no lock: it is used by one thread at a time.
Call(t, ch, pc) ==
    /\ t \in scene.threads /\ ch \in scene.chans
    /\ At(t, "idle") /\ \A u \in Threads : frame[u].ch # ch
    /\ frame' = [frame EXCEPT ![t] = [Idle EXCEPT !.pc = pc, !.ch = ch]]

-----------------------------------------------------------------------------
(* The system                                                              *)

Lowest(S) == CHOOSE h \in S : \A g \in S : h <= g
Free == {h \in Handles : table[h] = "free"}

Unused == {c \in Conns : peer[c] = "none"}

\* What select() finds readable.
Readable(x) ==
    \/ x = "listener" /\ backlog # <<>>
    \/ x \in Conns /\ (inbound[x] # <<>> \/ peer[x] = "closed")

ClosesHandle(h) ==
    /\ table' = [table EXCEPT ![h] = "free"]
    /\ inbound' = IF table[h] \in Conns THEN [inbound EXCEPT ![table[h]] = <<>>] ELSE inbound
    /\ backlog' = IF table[h] = "listener" THEN <<>> ELSE backlog

PeerConnects ==
    /\ \E h \in Handles : table[h] = "listener"
    /\ Unused # {}
    /\ LET c == CHOOSE x \in Unused : TRUE
       IN  backlog' = Append(backlog, c) /\ peer' = [peer EXCEPT ![c] = "open"]
    /\ UNCHANGED <<table, sent, inbound, arrived, held, objects, set, frame>>

PeerSends(c) ==
    /\ peer[c] = "open" /\ Len(sent[c]) < scene.sends
    /\ LET byte == <<c, Len(sent[c]) + 1>>
       IN  /\ sent' = [sent EXCEPT ![c] = Append(@, byte)]
           /\ inbound' = [inbound EXCEPT ![c] = Append(@, byte)]
    /\ UNCHANGED <<table, backlog, peer, arrived, held, objects, set, frame>>

PeerTakes(c) ==
    /\ held[c] > 0
    /\ held' = [held EXCEPT ![c] = 0]
    /\ UNCHANGED <<table, backlog, peer, sent, inbound, arrived, objects, set, frame>>

PeerCloses(c) ==
    /\ peer[c] = "open"
    /\ peer' = [peer EXCEPT ![c] = "closed"]
    /\ UNCHANGED <<table, backlog, sent, inbound, arrived, held, objects, set, frame>>

-----------------------------------------------------------------------------
(* Making sockets                                                          *)

Unmade(ch) == made[ch] = NoOne /\ \A t \in Threads : frame[t].ch # ch

\* The constructor Socket(domain, type): the first step of the others.
Construct(t, ch) ==
    /\ Unmade(ch) /\ ch \in scene.makes /\ Free # {}
    /\ Call(t, ch, IF ch = Server THEN "listen" ELSE "connect")
    /\ table' = [table EXCEPT ![Lowest(Free)] = "new"]
    /\ sock_' = [sock_ EXCEPT ![ch] = Lowest(Free)]
    /\ UNCHANGED <<backlog, peer, sent, inbound, arrived, held, made, got, asked, set>>

\* Mutant: nothing closes the socket when the constructor fails.
FailsLeaving(t, ch) == sock_' = [sock_ EXCEPT ![ch] = no_socket] /\ UNCHANGED <<table, inbound, backlog>>

\* An exception leaves the constructor: the base or member Socket is destroyed.
Fails(t, ch) == ClosesHandle(sock_[ch]) /\ sock_' = [sock_ EXCEPT ![ch] = no_socket]

\* bind(), connect() or listen() gives an error, or succeeds.
Listen(t) ==
    /\ At(t, "listen") /\ Return(t)
    /\ \/ Fails(t, Server) /\ UNCHANGED made
       \/ /\ table' = [table EXCEPT ![sock_[Server]] = "listener"]
          /\ made' = [made EXCEPT ![Server] = "listener"]
          /\ UNCHANGED <<sock_, inbound, backlog>>
    /\ UNCHANGED <<peer, sent, arrived, held, got, asked, set>>

Connect(t) ==
    LET ch == frame[t].ch
    IN  /\ At(t, "connect") /\ Return(t)
        /\ \/ Fails(t, ch) /\ UNCHANGED <<made, peer>>
           \/ /\ Unused # {}
              /\ LET c == CHOOSE x \in Unused : TRUE
                 IN  /\ table' = [table EXCEPT ![sock_[ch]] = c]
                     /\ peer' = [peer EXCEPT ![c] = "open"]
                     /\ made' = [made EXCEPT ![ch] = c]
              /\ UNCHANGED <<sock_, inbound, backlog>>
        /\ UNCHANGED <<sent, arrived, held, got, asked, set>>

-----------------------------------------------------------------------------
(* Using them                                                              *)

\* Looks at the handle, closes it and forgets it; the destructor does no more.
do_close(t) ==
    LET ch == frame[t].ch
    IN  \/ /\ At(t, "close")
           /\ IF sock_[ch] = no_socket
              THEN Return(t) /\ UNCHANGED <<table, inbound, backlog>>
              ELSE Goto(t, "closed") /\ ClosesHandle(sock_[ch])
           /\ UNCHANGED <<peer, sent, arrived, held, objects, set>>
        \/ /\ At(t, "closed")
           /\ sock_' = [sock_ EXCEPT ![ch] = no_socket]
           /\ Return(t)
           /\ UNCHANGED <<kernel, made, got, asked, set>>

close(t, ch) ==
    /\ made[ch] # NoOne
    /\ Call(t, ch, "close")
    /\ UNCHANGED <<kernel, objects, set>>

\* The result of do_select() on one socket: 1, 0 or, when it is closed, -1.
SelectsOne(h) == CASE table[h] = "free" -> -1 [] Readable(table[h]) -> 1 [] OTHER -> 0

\* Mutant: a socket on which nothing has come is taken for closed.
do_readEager(t) ==
    LET ch == frame[t].ch
        c == table[sock_[ch]]
    IN  \/ /\ At(t, "read?")
           /\ IF sock_[ch] = no_socket THEN Return(t) ELSE Goto(t, "recv")
           /\ UNCHANGED <<kernel, objects, set>>
        \/ /\ At(t, "recv")
           /\ \/ /\ inbound[c] # <<>>
                 /\ \E n \in 1..Len(inbound[c]) :
                       /\ got' = [got EXCEPT ![ch] = @ \o SubSeq(inbound[c], 1, n)]
                       /\ inbound' = [inbound EXCEPT ![c] = SubSeq(@, n + 1, Len(@))]
                 /\ Return(t)
              \/ /\ inbound[c] = <<>>
                 /\ Goto(t, "close") /\ UNCHANGED <<got, inbound>>
           /\ UNCHANGED <<table, backlog, peer, sent, arrived, held, sock_, made, asked, set>>

\* select() and recv(), which may throw; nothing more from a peer that has
\* closed closes the socket.
do_read(t) ==
    LET ch == frame[t].ch
        c == table[sock_[ch]]
    IN  \/ /\ At(t, "read?")
           /\ IF sock_[ch] = no_socket \/ SelectsOne(sock_[ch]) # 1 THEN Return(t) ELSE Goto(t, "recv")
           /\ UNCHANGED <<kernel, objects, set>>
        \/ /\ At(t, "recv")
           /\ \/ /\ inbound[c] # <<>>
                 /\ \E n \in 1..Len(inbound[c]) :
                       /\ got' = [got EXCEPT ![ch] = @ \o SubSeq(inbound[c], 1, n)]
                       /\ inbound' = [inbound EXCEPT ![c] = SubSeq(@, n + 1, Len(@))]
                 /\ Return(t)
              \/ /\ inbound[c] = <<>>
                 /\ Goto(t, "close") /\ UNCHANGED <<got, inbound>>
              \/ Return(t) /\ UNCHANGED <<got, inbound>>
           /\ UNCHANGED <<table, backlog, peer, sent, arrived, held, sock_, made, asked, set>>

read(t, ch) ==
    /\ ch \in Clients /\ made[ch] # NoOne
    /\ Call(t, ch, "read?")
    /\ UNCHANGED <<kernel, objects, set>>

\* send() of the whole message from its beginning, until as many bytes as it
\* has are counted as written; a send() that cannot take any counts as -1.
do_write(t) ==
    LET ch == frame[t].ch
        c == table[sock_[ch]]
        bytes == [i \in 1..Message |-> Len(asked[ch]) + i]
        Counts(n) ==
            LET written == (frame[t].written + n) % SizeMod
            IN  IF written < Message
                THEN frame' = [frame EXCEPT ![t].written = written] /\ UNCHANGED asked
                ELSE Return(t) /\ asked' = [asked EXCEPT ![ch] = @ \o bytes]
        n == Lowest({Message, Room - held[c]})
    IN  /\ At(t, "send") /\ Len(arrived[c]) < MaxArrived
        /\ \/ /\ arrived' = [arrived EXCEPT ![c] = @ \o SubSeq(bytes, 1, n)]
              /\ held' = [held EXCEPT ![c] = @ + n]
              /\ Counts(IF n > 0 THEN n ELSE SizeMod - 1)
           \/ peer[c] = "closed" /\ Return(t) /\ UNCHANGED <<arrived, held, asked>>
        /\ UNCHANGED <<table, backlog, peer, sent, inbound, sock_, made, got, set>>

write(t, ch) ==
    /\ ch \in Clients /\ sock_[ch] # no_socket /\ made[ch] # NoOne
    /\ scene.writes /\ Len(asked[ch]) < MaxWrites * Message
    /\ Call(t, ch, "send")
    /\ UNCHANGED <<kernel, objects, set>>

\* TcpServer::read(): a connection becomes a TcpClient.
AcceptCall(t) ==
    /\ sock_[Server] # no_socket /\ made[Server] # NoOne
    /\ SelectsOne(sock_[Server]) = 1
    /\ Call(t, Server, "accept")
    /\ UNCHANGED <<kernel, objects, set>>

Accept(t) ==
    /\ At(t, "accept") /\ Return(t)
    /\ \/ Free = {} /\ UNCHANGED <<table, backlog, sock_, made>>
       \/ \E ch \in Clients :
             /\ Unmade(ch) /\ Free # {}
             /\ table' = [table EXCEPT ![Lowest(Free)] = Head(backlog)]
             /\ backlog' = Tail(backlog)
             /\ sock_' = [sock_ EXCEPT ![ch] = Lowest(Free)]
             /\ made' = [made EXCEPT ![ch] = Head(backlog)]
    /\ UNCHANGED <<peer, sent, inbound, arrived, held, got, asked, set>>

-----------------------------------------------------------------------------
(* SocketSet                                                               *)

SetCall == scene.set /\ open_ /\ At(SetUser, "idle") /\ UNCHANGED <<kernel, objects, frame>>

\* do_select() on the copies of the handles: -1 if one of them is closed,
\* otherwise the first that is readable, or 0.
Selects ==
    LET at == {i \in DOMAIN natives_ : natives_[i] # no_socket}
        ready == {i \in at : Readable(table[natives_[i]])}
    IN  IF \E i \in at : table[natives_[i]] = "free" THEN -1
        ELSE IF ready = {} THEN 0 ELSE Lowest(ready)

insert(ch) ==
    /\ SetCall /\ made[ch] # NoOne /\ Len(channels_) < MaxMembers
    /\ channels_' = Append(channels_, ch)
    /\ natives_' = Append(natives_, sock_[ch])
    /\ UNCHANGED <<current_, open_>>

\* Mutant: does not look at current_.
eraseKeeps(ch) ==
    /\ SetCall /\ ch \in Range(channels_)
    /\ LET i == Lowest({j \in DOMAIN channels_ : channels_[j] = ch})
       IN  channels_' = RemoveAt(channels_, i) /\ natives_' = RemoveAt(natives_, i)
    /\ UNCHANGED <<current_, open_>>

erase(ch) ==
    /\ SetCall /\ ch \in Range(channels_)
    /\ LET i == Lowest({j \in DOMAIN channels_ : channels_[j] = ch})
       IN  channels_' = RemoveAt(channels_, i) /\ natives_' = RemoveAt(natives_, i)
    /\ current_' = IF current_ = ch THEN NoOne ELSE current_
    /\ UNCHANGED open_

clear ==
    /\ SetCall /\ channels_ # <<>>
    /\ channels_' = <<>> /\ natives_' = <<>> /\ current_' = NoOne
    /\ UNCHANGED open_

CloseSet == SetCall /\ open_' = FALSE /\ UNCHANGED <<channels_, natives_, current_>>

do_wait_for ==
    /\ SetCall /\ current_ = NoOne
    /\ current_' = IF Selects > 0 THEN channels_[Selects] ELSE NoOne
    /\ UNCHANGED <<channels_, natives_, open_>>

\* Gives what the wait found, or what select() finds now (Selects).
ReadSet ==
    /\ SetCall /\ channels_ # <<>>
    /\ current_' = NoOne
    /\ UNCHANGED <<channels_, natives_, open_>>

-----------------------------------------------------------------------------

Init ==
    /\ table = [h \in Handles |-> "free"] /\ backlog = <<>>
    /\ peer = [c \in Conns |-> "none"]
    /\ sent = [c \in Conns |-> <<>>] /\ inbound = sent /\ arrived = sent
    /\ held = [c \in Conns |-> 0]
    /\ sock_ = [ch \in Chans |-> no_socket] /\ made = [ch \in Chans |-> NoOne]
    /\ got = [ch \in Chans |-> <<>>] /\ asked = got
    /\ channels_ = <<>> /\ natives_ = <<>> /\ current_ = NoOne /\ open_ = TRUE
    /\ frame = [t \in Threads |-> Idle] /\ scene \in Scenes

GoesOn(t) == Listen(t) \/ Connect(t) \/ do_close(t) \/ do_read(t) \/ do_write(t) \/ Accept(t)

Calls(t) ==
    \/ \E ch \in Chans : Construct(t, ch) \/ close(t, ch) \/ read(t, ch) \/ write(t, ch)
    \/ AcceptCall(t)

UsesSet ==
    \/ \E ch \in Chans : insert(ch) \/ erase(ch)
    \/ clear \/ CloseSet \/ do_wait_for \/ ReadSet

Peers == PeerConnects \/ \E c \in Conns : PeerSends(c) \/ PeerTakes(c) \/ PeerCloses(c)

Next == ((\E t \in Threads : GoesOn(t) \/ Calls(t)) \/ UsesSet \/ Peers) /\ UNCHANGED scene

Spec == Init /\ [][Next]_vars

-----------------------------------------------------------------------------
(* Properties                                                              *)

\* What a channel that is being closed has left to do.
Closing(ch) == \E t \in Threads : frame[t].ch = ch /\ At(t, "closed")

IsOpen(ch) == sock_[ch] # no_socket /\ ~Closing(ch)

(* Whatever the order in which sockets are made, fail to be made, end and  *)
(* are closed, and although numbers are used again at once: the handle of  *)
(* an open socket stands for what it was made for, no other socket has it, *)
(* and every handle in use belongs to a socket.                            *)
HandleIsOwn ==
    /\ \A ch \in Chans : made[ch] # NoOne /\ IsOpen(ch) => table[sock_[ch]] = made[ch]
    /\ \A ch, d \in Chans : IsOpen(ch) /\ IsOpen(d) /\ sock_[ch] = sock_[d] => ch = d
    /\ \A h \in Handles \ Free : \E ch \in Chans : sock_[ch] = h

(* A socket reads what its own peer has sent, however it is cut into       *)
(* reads: what has been read and what waits are all of it in order, and a  *)
(* read closes the socket only when everything is read and the peer gone.  *)
OwnBytes ==
    \A ch \in Clients : made[ch] # NoOne =>
        LET c == made[ch]
        IN  /\ IsPrefix(got[ch], sent[c])
            /\ IsOpen(ch) => got[ch] \o inbound[c] = sent[c]
            /\ (\E t \in Threads : frame[t].ch = ch /\ At(t, "recv")) => Readable(c)

(* The channel that SocketSet::do_wait_for() keeps for the next read() is  *)
(* in the set: erase() and clear() never leave a pointer behind that the   *)
(* caller may have made invalid.                                           *)
NoDangling == current_ # NoOne => current_ \in Range(channels_)

Deserves(ch) == ch \in Range(channels_) /\ (IsOpen(ch) => Readable(made[ch]))

(* A channel that a SocketSet chooses is readable or closed, although its  *)
(* handle is a copy whose number may stand for another socket by then.     *)
SetTellsTruth == Selects > 0 => Deserves(channels_[Selects])

(* write() returns true when the whole message has been sent, once.        *)
WriteDelivers == \A ch \in Clients : made[ch] # NoOne => IsPrefix(asked[ch], arrived[made[ch]])

(* A SocketSet names only members, and only those with something to say.   *)
SetTruthful == NoDangling /\ SetTellsTruth
=============================================================================
