--------------------------- MODULE SocketsProofs ----------------------------
(***************************************************************************)
(* Proofs about the sockets and the SocketSet, for any number of threads,  *)
(* clients, handles, connections and bytes.                                *)
(***************************************************************************)
EXTENDS Sockets, SequenceTheorems, WellFoundedInduction, TLAPS

USE SocketAssumptions

Bytes == Conns \X Nat

\* Where a thread may be in a call: making a socket, or using one.
Making == {"listen", "connect"}
Using == {"close", "closed", "read?", "recv", "send", "accept"}

HandleTypes ==
    /\ table \in [Handles -> {"free", "new", "listener"} \cup Conns]
    /\ sock_ \in [Chans -> Handles \cup {no_socket}]
    /\ made \in [Chans -> Conns \cup {"listener", NoOne}]
    /\ made[Server] \in {"listener", NoOne}
    /\ \A ch \in Clients : made[ch] # "listener"

FrameTypes ==
    /\ frame \in [Threads -> [pc : {"idle"} \cup Making \cup Using,
                              ch : Chans \cup {NoOne}, written : Nat]]
    /\ \A t \in Threads : frame[t].pc = "idle" <=> frame[t].ch = NoOne
    /\ \A t \in Threads : frame[t].pc \in {"listen", "accept"} => frame[t].ch = Server
    /\ \A t \in Threads : frame[t].pc \in {"connect", "read?", "recv", "send"} => frame[t].ch \in Clients

\* A socket is used by one thread at a time.
OneUser ==
    \A t, u \in Threads : frame[t].ch = frame[u].ch /\ frame[t].ch # NoOne => t = u

\* What a thread that is in a call knows of its socket.
Knows(t) ==
    LET ch == frame[t].ch
    IN  /\ frame[t].pc \in Making => made[ch] = NoOne /\ sock_[ch] # no_socket
        /\ frame[t].pc \in Using => made[ch] # NoOne
        /\ frame[t].pc \in {"closed", "recv", "send", "accept"} => sock_[ch] # no_socket
        /\ frame[t].pc = "accept" => backlog # <<>>

\* A socket that is not made yet has a handle only while its constructor runs.
Unborn ==
    \A ch \in Chans : made[ch] = NoOne /\ sock_[ch] # no_socket =>
        \E t \in Threads : frame[t].ch = ch

Frames == OneUser /\ (\A t \in Threads : Knows(t)) /\ Unborn

\* The handle of an open socket stands for what it was made for, or for
\* nothing yet; it is its own; and each handle in use is that of an open one.
Handled ==
    /\ \A ch \in Chans : IsOpen(ch) =>
          table[sock_[ch]] = IF made[ch] = NoOne THEN "new" ELSE made[ch]
    /\ \A ch, d \in Chans : IsOpen(ch) /\ IsOpen(d) /\ sock_[ch] = sock_[d] => ch = d
    /\ \A h \in Handles : table[h] # "free" => \E ch \in Chans : IsOpen(ch) /\ sock_[ch] = h

\* A connection waits, once, or is that of one client, or has not begun.
Connected ==
    /\ peer \in [Conns -> {"none", "open", "closed"}]
    /\ backlog \in Seq(Conns)
    /\ \A i, j \in DOMAIN backlog : backlog[i] = backlog[j] => i = j
    /\ \A i \in DOMAIN backlog : peer[backlog[i]] # "none"
    /\ \A i \in DOMAIN backlog : \A ch \in Chans : made[ch] # backlog[i]
    /\ \A ch \in Chans : made[ch] \in Conns => peer[made[ch]] # "none"
    /\ \A ch, d \in Chans : made[ch] = made[d] /\ made[ch] # NoOne => ch = d

\* The bytes of a connection, before and after it has a client.
Carried ==
    /\ sent \in [Conns -> Seq(Bytes)] /\ inbound \in [Conns -> Seq(Bytes)]
    /\ got \in [Chans -> Seq(Bytes)]
    /\ \A ch \in Chans : made[ch] = NoOne => got[ch] = <<>>
    /\ \A c \in Conns : (\A ch \in Chans : made[ch] # c) => inbound[c] = sent[c]
    /\ OwnBytes

\* A copy of a handle is out of date only if the socket is closed.
Copied ==
    /\ channels_ \in Seq(Chans) /\ natives_ \in Seq(Handles \cup {no_socket})
    /\ Len(channels_) = Len(natives_)
    /\ \A i \in DOMAIN channels_ : \A ch \in Chans : channels_[i] = ch =>
          made[ch] # NoOne /\ (natives_[i] = sock_[ch] \/ ~IsOpen(ch))
    /\ NoDangling

HandleInv == HandleTypes /\ FrameTypes /\ Frames /\ Connected /\ Handled
Inv == HandleInv /\ Carried /\ Copied

-----------------------------------------------------------------------------
(* Numbers, calls and frames                                               *)

\* A non-empty set of natural numbers has a least element, which Lowest() is.
LEMMA LowestIn ==
    ASSUME NEW S, S \subseteq Nat, S # {}
    PROVE  Lowest(S) \in S /\ \A x \in S : Lowest(S) <= x
<1> DEFINE R == {p \in Nat \X Nat : p[1] < p[2]}
<1>1. IsWellFoundedOn(R, Nat)
  BY NatLessThanWellFounded DEF OpToRel
<1>2. PICK x \in S : \A y \in S : <<y, x>> \notin R
  <2> HIDE DEF R
  <2> QED
    BY <1>1, WFMin
<1>3. ASSUME NEW y \in S PROVE x <= y
  <2>1. <<y, x>> \in Nat \X Nat /\ <<y, x>>[1] = y /\ <<y, x>>[2] = x
    OBVIOUS
  <2>2. QED
    BY <1>2, <2>1
<1>4. QED
  BY <1>2, <1>3 DEF Lowest

\* A new handle is one that was free.
LEMMA FreeHandle ==
    ASSUME Free # {}
    PROVE  Lowest(Free) \in Handles /\ table[Lowest(Free)] = "free"
  BY LowestIn DEF Free

Frame == [pc : {"idle"} \cup Making \cup Using, ch : Chans \cup {NoOne}, written : Nat]

\* A frame in which the call and the socket belong together.
Fits(f) ==
    /\ f \in Frame
    /\ f.pc = "idle" <=> f.ch = NoOne
    /\ f.pc \in {"listen", "accept"} => f.ch = Server
    /\ f.pc \in {"connect", "read?", "recv", "send"} => f.ch \in Clients

\* Every frame of the invariant is one of these.
LEMMA FrameFits ==
    ASSUME FrameTypes, NEW t \in Threads
    PROVE  Fits(frame[t])
  BY DEF FrameTypes, Fits, Frame

\* A thread goes on with its call, returns from it, or begins one on a socket
\* that nobody uses.
Moves(t, f) ==
    /\ frame' = [frame EXCEPT ![t] = f]
    /\ f.ch = NoOne \/ f.ch = frame[t].ch \/ \A u \in Threads : frame[u].ch # f.ch

\* Such a move keeps the frames and the users of sockets as they must be.
LEMMA MovesFrames ==
    ASSUME FrameTypes, OneUser, NEW t \in Threads, NEW f, Fits(f), Moves(t, f)
    PROVE  FrameTypes' /\ OneUser' /\ frame'[t] = f /\ \A u \in Threads \ {t} : frame'[u] = frame[u]
<1>1. frame'[t] = f /\ \A u \in Threads \ {t} : frame'[u] = frame[u]
  BY DEF FrameTypes, Moves
<1>2. frame' \in [Threads -> Frame]
  BY DEF FrameTypes, Moves, Fits, Frame
<1>3. ASSUME NEW u \in Threads PROVE Fits(frame'[u])
  BY <1>1, FrameFits
<1>4. FrameTypes'
  BY <1>2, <1>3 DEF FrameTypes, Fits, Frame
<1>5. OneUser'
  <2> SUFFICES ASSUME NEW u \in Threads, NEW v \in Threads,
                      frame'[u].ch = frame'[v].ch, frame'[u].ch # NoOne
               PROVE  u = v
    BY DEF OneUser
  <2>1. CASE u # t /\ v # t
    BY <1>1, <2>1 DEF OneUser
  <2>2. CASE u = t /\ v # t
    BY <1>1, <2>2 DEF OneUser, Moves
  <2>3. CASE u # t /\ v = t
    BY <1>1, <2>3 DEF OneUser, Moves
  <2>4. QED
    BY <2>1, <2>2, <2>3
<1>6. QED
  BY <1>1, <1>4, <1>5

\* Only a step to or from "closed" matters for which sockets are closing.
LEMMA MovesClosing ==
    ASSUME FrameTypes, OneUser, NEW t \in Threads, NEW f, Fits(f), Moves(t, f),
           f.pc # "closed", frame[t].pc # "closed"
    PROVE  \A ch \in Chans : Closing(ch)' <=> Closing(ch)
  BY MovesFrames DEF Closing, At

\* The first step of a call.
LEMMA CallMoves ==
    ASSUME FrameTypes, NEW t \in Threads, NEW ch \in Chans, NEW pc \in Making \cup Using,
           Call(t, ch, pc),
           pc \in {"listen", "accept"} => ch = Server,
           pc \in {"connect", "read?", "recv", "send"} => ch \in Clients
    PROVE  /\ \E f : Fits(f) /\ Moves(t, f) /\ f.pc = pc /\ f.ch = ch /\ f.written = 0
           /\ frame[t].pc = "idle" /\ \A u \in Threads : frame[u].ch # ch
<1>1. ch # NoOne
  BY DEF Chans
<1>2. PICK f : f = [Idle EXCEPT !.pc = pc, !.ch = ch]
  OBVIOUS
<1>3. Fits(f) /\ Moves(t, f) /\ f.pc = pc /\ f.ch = ch /\ f.written = 0
  BY <1>1, <1>2 DEF Fits, Frame, Moves, Call, Idle, At, Making, Using
<1>4. QED
  BY <1>3 DEF Call, At

\* A call that returns.
LEMMA ReturnMoves ==
    ASSUME FrameTypes, NEW t \in Threads, Return(t)
    PROVE  Fits(Idle) /\ Moves(t, Idle) /\ Idle.pc = "idle" /\ Idle.ch = NoOne
  BY DEF Fits, Frame, Moves, Return, Idle, Making, Using

\* A call that goes on with the same socket.
LEMMA GotoMoves ==
    ASSUME FrameTypes, NEW t \in Threads, NEW pc \in Using, Goto(t, pc), frame[t].pc # "idle",
           pc = "accept" => frame[t].ch = Server,
           pc \in {"read?", "recv", "send"} => frame[t].ch \in Clients
    PROVE  \E f : Fits(f) /\ Moves(t, f) /\ f.pc = pc /\ f.ch = frame[t].ch
<1> DEFINE f == [frame[t] EXCEPT !.pc = pc]
<1>1. frame[t] \in Frame /\ pc \in {"idle"} \cup Making \cup Using /\ frame[t].ch # NoOne
  BY DEF FrameTypes, Frame
<1>2. f \in Frame /\ f.pc = pc /\ f.ch = frame[t].ch
  BY <1>1 DEF Frame
<1>3. frame' = [frame EXCEPT ![t] = f]
  BY DEF Goto
<1>4. Fits(f)
  BY <1>1, <1>2 DEF Fits, Using
<1>5. Moves(t, f)
  BY <1>2, <1>3 DEF Moves
<1>6. QED
  BY <1>2, <1>4, <1>5

-----------------------------------------------------------------------------
(* What a step does to the handles                                         *)

\* The open sockets and their handles stay as they are.
LEMMA HandledKept ==
    ASSUME HandleTypes, Handled, UNCHANGED <<table, made>>,
           \A ch \in Chans : IsOpen(ch)' <=> IsOpen(ch),
           \A ch \in Chans : IsOpen(ch) => sock_'[ch] = sock_[ch]
    PROVE  Handled'
  BY DEF Handled

\* A socket takes a free handle.
LEMMA HandledTaken ==
    ASSUME HandleTypes, Handled, NEW ch \in Chans, NEW h \in Handles, NEW x, NEW m,
           table[h] = "free", sock_[ch] = no_socket, ~Closing(ch),
           table' = [table EXCEPT ![h] = x],
           sock_' = [sock_ EXCEPT ![ch] = h],
           made' = [made EXCEPT ![ch] = m],
           x = IF m = NoOne THEN "new" ELSE m,
           \A d \in Chans : Closing(d)' <=> Closing(d)
    PROVE  Handled'
<1>1. \A d \in Chans \ {ch} : /\ IsOpen(d)' <=> IsOpen(d)
                              /\ sock_'[d] = sock_[d] /\ made'[d] = made[d]
  BY DEF HandleTypes, IsOpen
<1>2. IsOpen(ch)' /\ sock_'[ch] = h /\ made'[ch] = m /\ ~IsOpen(ch)
  BY DEF HandleTypes, IsOpen, no_socket
<1>3. \A d \in Chans \ {ch} : IsOpen(d) => sock_[d] # h /\ sock_[d] \in Handles
  <2> SUFFICES ASSUME NEW d \in Chans \ {ch}, IsOpen(d)
               PROVE  sock_[d] # h /\ sock_[d] \in Handles
    OBVIOUS
  <2>1. sock_[d] \in Handles
    BY DEF HandleTypes, IsOpen
  <2>2. table[sock_[d]] # "free"
    BY DEF Handled, HandleTypes
  <2>3. QED
    BY <2>1, <2>2
<1>4. table'[h] = x /\ \A g \in Handles \ {h} : table'[g] = table[g]
  BY DEF HandleTypes
<1> HIDE DEF IsOpen
<1>5. \A d \in Chans : IsOpen(d)' =>
          table'[sock_'[d]] = IF made'[d] = NoOne THEN "new" ELSE made'[d]
  BY <1>1, <1>2, <1>3, <1>4 DEF Handled
<1>6. \A d, e \in Chans : IsOpen(d)' /\ IsOpen(e)' /\ sock_'[d] = sock_'[e] => d = e
  BY <1>1, <1>2, <1>3 DEF Handled
<1>7. ASSUME NEW g \in Handles, table'[g] # "free"
      PROVE  \E d \in Chans : IsOpen(d)' /\ sock_'[d] = g
  <2>1. CASE g = h
    BY <2>1, <1>2
  <2>2. CASE g # h
    <3>1. PICK d \in Chans : IsOpen(d) /\ sock_[d] = g
      BY <1>4, <1>7, <2>2 DEF Handled
    <3>2. QED
      BY <1>1, <1>2, <3>1
  <2>3. QED
    BY <2>1, <2>2
<1>8. QED
  BY <1>5, <1>6, <1>7 DEF Handled

\* A socket that has its handle is made.
LEMMA HandledMade ==
    ASSUME HandleTypes, Handled, NEW ch \in Chans, NEW x, IsOpen(ch), made[ch] = NoOne,
           x # NoOne, x # "free",
           table' = [table EXCEPT ![sock_[ch]] = x],
           made' = [made EXCEPT ![ch] = x],
           sock_' = sock_,
           \A d \in Chans : Closing(d)' <=> Closing(d)
    PROVE  Handled'
<1>1. \A d \in Chans : IsOpen(d)' <=> IsOpen(d)
  BY DEF IsOpen
<1>2. \A d \in Chans : IsOpen(d) => sock_[d] \in Handles
  BY DEF HandleTypes, IsOpen
<1>3. /\ table'[sock_[ch]] = x /\ \A g \in Handles \ {sock_[ch]} : table'[g] = table[g]
      /\ made'[ch] = x /\ \A d \in Chans \ {ch} : made'[d] = made[d]
  BY <1>2 DEF HandleTypes
<1> HIDE DEF IsOpen
<1>4. \A d \in Chans : IsOpen(d)' =>
          table'[sock_'[d]] = IF made'[d] = NoOne THEN "new" ELSE made'[d]
  <2> SUFFICES ASSUME NEW d \in Chans, IsOpen(d)
               PROVE  table'[sock_[d]] = IF made'[d] = NoOne THEN "new" ELSE made'[d]
    BY <1>1
  <2>1. CASE d = ch
    BY <2>1, <1>3
  <2>2. CASE d # ch
    <3>1. sock_[d] # sock_[ch]
      BY <2>2 DEF Handled
    <3>2. QED
      BY <2>2, <3>1, <1>2, <1>3 DEF Handled
  <2>3. QED
    BY <2>1, <2>2
<1>5. \A d, e \in Chans : IsOpen(d)' /\ IsOpen(e)' /\ sock_'[d] = sock_'[e] => d = e
  BY <1>1 DEF Handled
<1>6. ASSUME NEW g \in Handles, table'[g] # "free"
      PROVE  \E d \in Chans : IsOpen(d)' /\ sock_'[d] = g
  BY <1>1, <1>3, <1>6 DEF Handled
<1>7. QED
  BY <1>4, <1>5, <1>6 DEF Handled

\* A handle is closed, and its socket is open no more.
LEMMA HandledFreed ==
    ASSUME HandleTypes, Handled, NEW ch \in Chans, IsOpen(ch),
           table' = [table EXCEPT ![sock_[ch]] = "free"],
           made' = made, ~IsOpen(ch)',
           \A d \in Chans \ {ch} : sock_'[d] = sock_[d] /\ (IsOpen(d)' <=> IsOpen(d))
    PROVE  Handled'
<1>2. \A d \in Chans : IsOpen(d) => sock_[d] \in Handles
  BY DEF HandleTypes, IsOpen
<1>3. /\ table'[sock_[ch]] = "free" /\ \A g \in Handles \ {sock_[ch]} : table'[g] = table[g]
  BY <1>2 DEF HandleTypes
<1> HIDE DEF IsOpen
<1>4. \A d \in Chans : IsOpen(d)' =>
          table'[sock_'[d]] = IF made'[d] = NoOne THEN "new" ELSE made'[d]
  <2> SUFFICES ASSUME NEW d \in Chans \ {ch}, IsOpen(d)
               PROVE  table'[sock_[d]] = IF made[d] = NoOne THEN "new" ELSE made[d]
    OBVIOUS
  <2>1. sock_[d] # sock_[ch]
    BY DEF Handled
  <2>2. QED
    BY <2>1, <1>2, <1>3 DEF Handled
<1>5. \A d, e \in Chans : IsOpen(d)' /\ IsOpen(e)' /\ sock_'[d] = sock_'[e] => d = e
  BY DEF Handled
<1>6. ASSUME NEW g \in Handles, table'[g] # "free"
      PROVE  \E d \in Chans : IsOpen(d)' /\ sock_'[d] = g
  <2>1. g # sock_[ch]
    BY <1>3, <1>6
  <2>2. PICK d \in Chans : IsOpen(d) /\ sock_[d] = g
    BY <1>3, <1>6, <2>1 DEF Handled
  <2>3. QED
    BY <2>1, <2>2
<1>7. QED
  BY <1>4, <1>5, <1>6 DEF Handled

-----------------------------------------------------------------------------
(* What a step does to the frames and to the connections                   *)

\* The step of a thread leaves what the others know, and it knows its own.
LEMMA FramesStep ==
    ASSUME FrameTypes, Frames, NEW t \in Threads, NEW f, Fits(f), Moves(t, f),
           \A u \in Threads \ {t} : frame[u].pc # "idle" =>
              /\ made'[frame[u].ch] = made[frame[u].ch]
              /\ sock_'[frame[u].ch] = sock_[frame[u].ch]
              /\ frame[u].pc = "accept" => backlog' # <<>>,
           Knows(t)', Unborn'
    PROVE  FrameTypes' /\ Frames'
<1>1. FrameTypes' /\ OneUser' /\ \A u \in Threads \ {t} : frame'[u] = frame[u]
  BY MovesFrames DEF Frames
<1>2. ASSUME NEW u \in Threads \ {t} PROVE Knows(u)'
  <2>1. Knows(u) /\ frame'[u] = frame[u]
    BY <1>1 DEF Frames
  <2>2. CASE frame[u].pc = "idle"
    BY <2>1, <2>2 DEF Knows, Making, Using
  <2>3. CASE frame[u].pc # "idle"
    BY <2>1, <2>3 DEF Knows
  <2>4. QED
    BY <2>2, <2>3
<1>3. QED
  BY <1>1, <1>2 DEF Frames

\* The others are not at the socket of the thread that steps.
LEMMA OtherSockets ==
    ASSUME FrameTypes, OneUser, NEW t \in Threads, NEW u \in Threads \ {t}, frame[u].pc # "idle"
    PROVE  frame[u].ch # frame[t].ch /\ frame[u].ch \in Chans
  BY DEF FrameTypes, OneUser

\* A step of a thread that uses a socket, or of none, leaves a socket that is
\* being made to its constructor.
LEMMA UnbornKept ==
    ASSUME FrameTypes, Frames, NEW t \in Threads, NEW f, Fits(f), Moves(t, f),
           frame[t].pc \in Using \cup {"idle"},
           \A ch \in Chans : made'[ch] = NoOne => made[ch] = NoOne,
           \A ch \in Chans : sock_'[ch] # no_socket /\ made'[ch] = NoOne => sock_[ch] # no_socket
    PROVE  Unborn'
<1> SUFFICES ASSUME NEW ch \in Chans, made'[ch] = NoOne, sock_'[ch] # no_socket
             PROVE  \E u \in Threads : frame'[u].ch = ch
  BY DEF Unborn
<1>1. made[ch] = NoOne /\ sock_[ch] # no_socket
  OBVIOUS
<1>2. PICK u \in Threads : frame[u].ch = ch
  BY <1>1 DEF Frames, Unborn
<1>3. u # t
  BY <1>1, <1>2 DEF Frames, Knows, FrameTypes, Chans
<1>4. QED
  BY <1>2, <1>3, MovesFrames DEF Frames

\* A connection begins that waits for accept(), or ends, or none does.
LEMMA ConnectedPeers ==
    ASSUME Connected, HandleTypes, UNCHANGED made,
           \/ backlog' = backlog /\ peer' = peer
           \/ backlog' = <<>> /\ peer' = peer
           \/ \E c \in Conns : backlog' = backlog /\ peer' = [peer EXCEPT ![c] = "closed"]
           \/ \E c \in Unused : backlog' = Append(backlog, c) /\ peer' = [peer EXCEPT ![c] = "open"]
    PROVE  Connected'
<1>1. CASE backlog' = backlog /\ peer' = peer
  BY <1>1 DEF Connected
<1>5. CASE backlog' = <<>> /\ peer' = peer
  <2>1. backlog' \in Seq(Conns) /\ DOMAIN backlog' = {}
    BY <1>5
  <2>2. QED
    BY <1>5, <2>1 DEF Connected
<1>2. ASSUME NEW c \in Conns, backlog' = backlog, peer' = [peer EXCEPT ![c] = "closed"]
      PROVE  Connected'
  BY <1>2 DEF Connected
<1>3. ASSUME NEW c \in Unused, backlog' = Append(backlog, c), peer' = [peer EXCEPT ![c] = "open"]
      PROVE  Connected'
  <2>1. c \in Conns /\ peer[c] = "none"
    BY DEF Unused
  <2>2. /\ backlog' \in Seq(Conns) /\ peer' \in [Conns -> {"none", "open", "closed"}]
        /\ Len(backlog') = Len(backlog) + 1 /\ Len(backlog) \in Nat
        /\ backlog'[Len(backlog) + 1] = c
        /\ \A i \in DOMAIN backlog : backlog'[i] = backlog[i] /\ backlog[i] # c
        /\ DOMAIN backlog' = DOMAIN backlog \cup {Len(backlog) + 1}
        /\ Len(backlog) + 1 \notin DOMAIN backlog
    BY <1>3, <2>1 DEF Connected
  <2>3. \A d \in Conns : peer[d] # "none" => peer'[d] # "none"
    BY <1>3, <2>1 DEF Connected
  <2>4. peer'[c] # "none"
    BY <1>3, <2>1 DEF Connected
  <2>5. \A ch \in Chans : made[ch] # c
    BY <2>1 DEF Connected
  <2>6. \A i \in DOMAIN backlog : backlog[i] \in Conns
    BY DEF Connected
  <2>7. \A i, j \in DOMAIN backlog' : backlog'[i] = backlog'[j] => i = j
    BY <2>2 DEF Connected
  <2>8. \A i \in DOMAIN backlog' : peer'[backlog'[i]] # "none"
    BY <2>2, <2>3, <2>4, <2>6 DEF Connected
  <2>9. \A i \in DOMAIN backlog' : \A ch \in Chans : made'[ch] # backlog'[i]
    BY <2>2, <2>5 DEF Connected
  <2>10. \A ch \in Chans : made'[ch] \in Conns => peer'[made'[ch]] # "none"
    BY <2>3 DEF Connected
  <2>11. QED
    BY <2>2, <2>7, <2>8, <2>9, <2>10 DEF Connected
<1>4. QED
  BY <1>1, <1>2, <1>3, <1>5

\* A socket is made for a listener, for a new connection, or for the first of
\* those that wait.
LEMMA ConnectedMade ==
    ASSUME Connected, HandleTypes, NEW ch \in Chans, NEW x, made[ch] = NoOne,
           made' = [made EXCEPT ![ch] = x],
           \/ x = "listener" /\ ch = Server /\ peer' = peer /\ backlog' = backlog
           \/ x \in Unused /\ peer' = [peer EXCEPT ![x] = "open"] /\ backlog' = backlog
           \/ backlog # <<>> /\ x = Head(backlog) /\ backlog' = Tail(backlog) /\ peer' = peer
    PROVE  Connected'
<1>1. made'[ch] = x /\ \A d \in Chans \ {ch} : made'[d] = made[d]
  BY DEF HandleTypes
<1>2. CASE x = "listener" /\ ch = Server /\ peer' = peer /\ backlog' = backlog
  <2>1. \A d \in Chans \ {ch} : made[d] # "listener"
    BY <1>2 DEF HandleTypes, Chans
  <2>2. x \notin Conns
    BY <1>2
  <2>3. \A i \in DOMAIN backlog : backlog[i] \in Conns
    BY DEF Connected
  <2>4. QED
    BY <1>1, <1>2, <2>1, <2>2, <2>3 DEF Connected
<1>3. CASE x \in Unused /\ peer' = [peer EXCEPT ![x] = "open"] /\ backlog' = backlog
  <2>1. x \in Conns /\ peer[x] = "none"
    BY <1>3 DEF Unused
  <2>2. \A d \in Conns : peer[d] # "none" => peer'[d] # "none"
    BY <1>3, <2>1 DEF Connected
  <2>3. peer'[x] # "none" /\ peer' \in [Conns -> {"none", "open", "closed"}]
    BY <1>3, <2>1 DEF Connected
  <2>4. \A d \in Chans : made[d] # x
    BY <2>1 DEF Connected
  <2>5. \A i \in DOMAIN backlog : backlog[i] \in Conns /\ backlog[i] # x
    BY <2>1 DEF Connected
  <2>6. \A d, e \in Chans : made'[d] = made'[e] /\ made'[d] # NoOne => d = e
    BY <1>1, <2>4 DEF Connected
  <2>7. \A i \in DOMAIN backlog : \A d \in Chans : made'[d] # backlog[i]
    BY <1>1, <2>5 DEF Connected
  <2>8. \A d \in Chans : made'[d] \in Conns => peer'[made'[d]] # "none"
    BY <1>1, <2>2, <2>3 DEF Connected
  <2>9. \A i \in DOMAIN backlog : peer'[backlog[i]] # "none"
    BY <2>2, <2>5 DEF Connected
  <2>10. QED
    BY <1>3, <2>3, <2>6, <2>7, <2>8, <2>9 DEF Connected
<1>4. CASE backlog # <<>> /\ x = Head(backlog) /\ backlog' = Tail(backlog) /\ peer' = peer
  <2>1. /\ backlog' \in Seq(Conns) /\ x = backlog[1] /\ x \in Conns /\ 1 \in DOMAIN backlog
        /\ \A i \in DOMAIN backlog' : /\ i \in Nat /\ i + 1 \in DOMAIN backlog /\ i + 1 # 1
                                      /\ backlog'[i] = backlog[i + 1]
    BY <1>4 DEF Connected
  <2>2. \A d \in Chans : made[d] # x
    BY <2>1 DEF Connected
  <2>3. peer[x] # "none"
    BY <2>1 DEF Connected
  <2>4. \A i \in DOMAIN backlog' : backlog'[i] # x
    BY <2>1 DEF Connected
  <2>5. \A d, e \in Chans : made'[d] = made'[e] /\ made'[d] # NoOne => d = e
    BY <1>1, <2>2 DEF Connected
  <2>6. \A i \in DOMAIN backlog' : \A d \in Chans : made'[d] # backlog'[i]
    <3> SUFFICES ASSUME NEW i \in DOMAIN backlog', NEW d \in Chans PROVE made'[d] # backlog'[i]
      OBVIOUS
    <3>1. CASE d = ch
      BY <3>1, <1>1, <2>4
    <3>2. CASE d # ch
      <4>1. i + 1 \in DOMAIN backlog /\ backlog'[i] = backlog[i + 1] /\ made'[d] = made[d]
        BY <3>2, <1>1, <2>1
      <4>2. QED
        BY <4>1 DEF Connected
    <3>3. QED
      BY <3>1, <3>2
  <2>7. \A d \in Chans : made'[d] \in Conns => peer'[made'[d]] # "none"
    BY <1>1, <1>4, <2>3 DEF Connected
  <2>8. \A i \in DOMAIN backlog' : peer'[backlog'[i]] # "none"
    BY <1>4, <2>1 DEF Connected
  <2>9. \A i, j \in DOMAIN backlog' : backlog'[i] = backlog'[j] => i = j
    <3> SUFFICES ASSUME NEW i \in DOMAIN backlog', NEW j \in DOMAIN backlog', backlog'[i] = backlog'[j]
                 PROVE  i = j
      OBVIOUS
    <3>1. i + 1 = j + 1
      BY <2>1 DEF Connected
    <3>2. QED
      BY <2>1, <3>1
  <2>10. backlog' \in Seq(Conns) /\ peer' \in [Conns -> {"none", "open", "closed"}]
    BY <1>4, <2>1 DEF Connected
  <2>11. QED
    BY <2>5, <2>6, <2>7, <2>8, <2>9, <2>10 DEF Connected
<1>5. QED
  BY <1>2, <1>3, <1>4

-----------------------------------------------------------------------------
(* The steps of the program                                                *)

\* A socket that is made stays what it is, and is not opened again.
Stable ==
    \A ch \in Chans : made[ch] # NoOne =>
        /\ made'[ch] = made[ch]
        /\ IsOpen(ch)' => IsOpen(ch) /\ sock_'[ch] = sock_[ch]

\* A thread that uses a socket, or begins to, and leaves the handles alone.
LEMMA UsingStep ==
    ASSUME HandleInv, NEW t \in Threads, NEW f, Fits(f), Moves(t, f),
           frame[t].pc \in (Using \cup {"idle"}) \ {"closed"},
           f.pc \in (Using \cup {"idle"}) \ {"closed"},
           UNCHANGED <<table, sock_, made, peer, backlog>>,
           f.pc # "idle" => made[f.ch] # NoOne,
           f.pc \in {"recv", "send", "accept"} => sock_[f.ch] # no_socket,
           f.pc = "accept" => backlog # <<>>
    PROVE  HandleInv' /\ Stable
<1>1. \A ch \in Chans : IsOpen(ch)' <=> IsOpen(ch)
  BY MovesClosing DEF HandleInv, Frames, IsOpen
<1>2. Handled' /\ HandleTypes' /\ Stable
  BY <1>1, HandledKept DEF HandleInv, HandleTypes, Stable
<1>3. Connected'
  BY DEF HandleInv, Connected
<1>4. frame'[t] = f
  BY MovesFrames DEF HandleInv, Frames
<1>5. Knows(t)'
  BY <1>4 DEF Knows, Making, Using
<1>6. Unborn'
  BY UnbornKept DEF HandleInv
<1>7. \A u \in Threads \ {t} : frame[u].pc = "accept" => backlog' # <<>>
  BY DEF HandleInv, Frames, Knows
<1>8. FrameTypes' /\ Frames'
  BY <1>5, <1>6, <1>7, FramesStep DEF HandleInv
<1>9. QED
  BY <1>2, <1>3, <1>8 DEF HandleInv

\* A socket that a thread is making, or that it closes, is an open one.
LEMMA OpenAt ==
    ASSUME HandleInv, NEW t \in Threads, frame[t].pc \in (Making \cup Using) \ {"closed"},
           sock_[frame[t].ch] # no_socket
    PROVE  IsOpen(frame[t].ch) /\ frame[t].ch \in Chans /\ sock_[frame[t].ch] \in Handles
<1>1. frame[t].ch \in Chans /\ frame[t].pc # "idle"
  BY DEF HandleInv, FrameTypes, Making, Using
<1>2. ~Closing(frame[t].ch)
  BY <1>1 DEF HandleInv, FrameTypes, Frames, OneUser, Closing, At
<1>3. QED
  BY <1>1, <1>2 DEF HandleInv, HandleTypes, IsOpen

\* A socket that is made takes a handle that was free.
LEMMA ConstructStep ==
    ASSUME HandleInv, NEW t \in Threads, NEW ch \in Chans, Construct(t, ch)
    PROVE  HandleInv' /\ Stable
<1> DEFINE h == Lowest(Free)
<1>0. PICK pc \in Making :
        /\ Call(t, ch, pc)
        /\ pc \in {"listen", "accept"} => ch = Server
        /\ pc \in {"connect", "read?", "recv", "send"} => ch \in Clients
  BY DEF Construct, Making, Chans
<1>1. /\ made[ch] = NoOne /\ \A u \in Threads : frame[u].ch # ch
      /\ table' = [table EXCEPT ![h] = "new"] /\ sock_' = [sock_ EXCEPT ![ch] = h]
      /\ UNCHANGED <<made, peer, backlog>>
  BY DEF Construct, Unmade
<1>2. h \in Handles /\ table[h] = "free"
  BY FreeHandle DEF Construct
<1>3. FrameTypes
  BY DEF HandleInv
<1>4. PICK f : Fits(f) /\ Moves(t, f) /\ f.pc = pc /\ f.ch = ch /\ frame[t].pc = "idle"
  BY <1>0, <1>3, CallMoves
<1> HIDE DEF h
<1>5. /\ sock_[ch] = no_socket /\ ~Closing(ch)
  BY <1>1 DEF HandleInv, Frames, Unborn, Closing
<1>6. \A d \in Chans : Closing(d)' <=> Closing(d)
  BY <1>4, MovesClosing DEF HandleInv, Frames, Making
<1>7. Handled'
  <2>1. made' = [made EXCEPT ![ch] = NoOne]
    BY <1>1 DEF HandleInv, HandleTypes
  <2>2. QED
    BY <1>1, <1>2, <1>5, <1>6, <2>1, HandledTaken DEF HandleInv
<1>8. HandleTypes' /\ Stable
  BY <1>1, <1>2, <1>6 DEF HandleInv, HandleTypes, Stable, IsOpen
<1>9. Connected'
  BY <1>1 DEF HandleInv, Connected
<1>10. frame'[t] = f /\ (\A u \in Threads \ {t} : frame'[u] = frame[u])
  BY <1>4, MovesFrames DEF HandleInv, Frames
<1>11. sock_'[ch] = h /\ h # no_socket /\ \A d \in Chans \ {ch} : sock_'[d] = sock_[d]
  BY <1>1, <1>2 DEF HandleInv, HandleTypes, no_socket
<1>12. Knows(t)'
  BY <1>1, <1>4, <1>10, <1>11 DEF Knows, Making, Using
<1>13. Unborn'
  <2> SUFFICES ASSUME NEW d \in Chans, made[d] = NoOne, sock_'[d] # no_socket
               PROVE  \E u \in Threads : frame'[u].ch = d
    BY <1>1 DEF Unborn
  <2>1. CASE d = ch
    BY <2>1, <1>4, <1>10
  <2>2. CASE d # ch
    <3>1. PICK u \in Threads : frame[u].ch = d
      BY <2>2, <1>11 DEF HandleInv, Frames, Unborn
    <3>2. u # t
      BY <3>1, <1>4 DEF HandleInv, FrameTypes, Chans
    <3>3. QED
      BY <3>1, <3>2, <1>10
  <2>3. QED
    BY <2>1, <2>2
<1>14. ASSUME NEW u \in Threads \ {t}, frame[u].pc # "idle"
       PROVE  /\ made'[frame[u].ch] = made[frame[u].ch]
              /\ sock_'[frame[u].ch] = sock_[frame[u].ch]
              /\ frame[u].pc = "accept" => backlog' # <<>>
  <2>1. frame[u].ch \in Chans /\ frame[u].ch # ch
    BY <1>1, <1>14 DEF HandleInv, FrameTypes
  <2>2. QED
    BY <2>1, <1>1, <1>11 DEF HandleInv, Frames, Knows
<1>15. FrameTypes' /\ Frames'
  BY <1>4, <1>12, <1>13, <1>14, FramesStep DEF HandleInv
<1>16. QED
  BY <1>7, <1>8, <1>9, <1>15 DEF HandleInv

\* A constructor that ends, well or with an exception.
LEMMA MakerFrames ==
    ASSUME HandleInv, NEW t \in Threads, frame[t].pc \in Making, Return(t),
           \A ch \in Chans \ {frame[t].ch} : made'[ch] = made[ch] /\ sock_'[ch] = sock_[ch],
           made'[frame[t].ch] # NoOne \/ sock_'[frame[t].ch] = no_socket,
           backlog' = backlog
    PROVE  /\ FrameTypes' /\ Frames'
           /\ \A ch \in Chans : Closing(ch)' <=> Closing(ch)
<1>1. Fits(Idle) /\ Moves(t, Idle) /\ Idle.pc = "idle" /\ Idle.ch = NoOne
  BY ReturnMoves DEF HandleInv
<1>2. frame'[t] = Idle /\ \A u \in Threads \ {t} : frame'[u] = frame[u]
  BY <1>1, MovesFrames DEF HandleInv, Frames
<1>3. \A ch \in Chans : Closing(ch)' <=> Closing(ch)
  BY <1>1, MovesClosing DEF HandleInv, Frames, Making
<1>4. Knows(t)'
  BY <1>1, <1>2 DEF Knows, Making, Using
<1>5. Unborn'
  <2> SUFFICES ASSUME NEW d \in Chans, made'[d] = NoOne, sock_'[d] # no_socket
               PROVE  \E u \in Threads : frame'[u].ch = d
    BY DEF Unborn
  <2>1. d # frame[t].ch /\ made[d] = NoOne /\ sock_[d] # no_socket
    OBVIOUS
  <2>2. PICK u \in Threads : frame[u].ch = d
    BY <2>1 DEF HandleInv, Frames, Unborn
  <2>3. QED
    BY <2>1, <2>2, <1>2
<1>6. ASSUME NEW u \in Threads \ {t}, frame[u].pc # "idle"
      PROVE  /\ made'[frame[u].ch] = made[frame[u].ch]
             /\ sock_'[frame[u].ch] = sock_[frame[u].ch]
             /\ frame[u].pc = "accept" => backlog' # <<>>
  <2>1. frame[u].ch \in Chans \ {frame[t].ch}
    BY <1>6, OtherSockets DEF HandleInv, Frames
  <2>2. QED
    BY <2>1 DEF HandleInv, Frames, Knows
<1>7. QED
  BY <1>1, <1>3, <1>4, <1>5, <1>6, FramesStep DEF HandleInv

\* A socket that could not be made gives its handle back.
LEMMA FailsStep ==
    ASSUME HandleInv, NEW t \in Threads, frame[t].pc \in Making, Return(t),
           Fails(t, frame[t].ch), UNCHANGED <<made, peer>>
    PROVE  HandleInv' /\ Stable /\ UNCHANGED <<inbound, backlog>>
<1>0. PICK ch \in Chans : ch = frame[t].ch
  BY DEF HandleInv, FrameTypes, Making
<1>1. made[ch] = NoOne /\ sock_[ch] # no_socket
  BY <1>0 DEF HandleInv, Frames, Knows
<1>2. IsOpen(ch) /\ sock_[ch] \in Handles
  BY <1>0, <1>1, OpenAt DEF Making, Using
<1>3. table[sock_[ch]] = "new"
  BY <1>1, <1>2 DEF HandleInv, Handled
<1>4. /\ table' = [table EXCEPT ![sock_[ch]] = "free"]
      /\ sock_' = [sock_ EXCEPT ![ch] = no_socket]
      /\ UNCHANGED <<inbound, backlog>>
  BY <1>0, <1>3 DEF Fails, ClosesHandle
<1>5. sock_'[ch] = no_socket /\ \A d \in Chans \ {ch} : sock_'[d] = sock_[d]
  BY <1>2, <1>4 DEF HandleInv, HandleTypes
<1>6. FrameTypes' /\ Frames' /\ \A d \in Chans : Closing(d)' <=> Closing(d)
  BY <1>0, <1>4, <1>5, MakerFrames
<1>7. ~IsOpen(ch)' /\ \A d \in Chans \ {ch} : IsOpen(d)' <=> IsOpen(d)
  BY <1>5, <1>6 DEF IsOpen
<1>8. Handled'
  BY <1>2, <1>4, <1>5, <1>7, HandledFreed DEF HandleInv
<1>9. HandleTypes'
  BY <1>2, <1>4 DEF HandleInv, HandleTypes
<1>10. Stable
  BY <1>1, <1>5, <1>7 DEF Stable
<1>11. Connected'
  BY <1>4 DEF HandleInv, Connected
<1>12. QED
  BY <1>4, <1>6, <1>8, <1>9, <1>10, <1>11 DEF HandleInv

\* A socket that has been made: its handle stands for what it was made for.
LEMMA SucceedsStep ==
    ASSUME HandleInv, NEW t \in Threads, frame[t].pc \in Making, Return(t), NEW x,
           table' = [table EXCEPT ![sock_[frame[t].ch]] = x],
           made' = [made EXCEPT ![frame[t].ch] = x],
           UNCHANGED <<sock_, backlog>>,
           \/ x = "listener" /\ frame[t].ch = Server /\ peer' = peer
           \/ x \in Unused /\ frame[t].ch \in Clients /\ peer' = [peer EXCEPT ![x] = "open"]
    PROVE  HandleInv' /\ Stable
<1> DEFINE ch == frame[t].ch
<1>1. made[ch] = NoOne /\ sock_[ch] # no_socket
  BY DEF HandleInv, Frames, Knows
<1>2. ch \in Chans /\ IsOpen(ch) /\ sock_[ch] \in Handles
  BY <1>1, OpenAt DEF Making, Using
<1>3. x # NoOne /\ x # "free" /\ x \in {"listener"} \cup Conns
  BY DEF Unused
<1> HIDE DEF ch
<1>4. made'[ch] = x /\ \A d \in Chans \ {ch} : made'[d] = made[d]
  BY <1>2 DEF HandleInv, HandleTypes, ch
<1>5. FrameTypes' /\ Frames' /\ \A d \in Chans : Closing(d)' <=> Closing(d)
  BY <1>3, <1>4, MakerFrames DEF ch
<1>6. Handled'
  BY <1>1, <1>2, <1>3, <1>5, HandledMade DEF HandleInv, ch
<1>7. HandleTypes'
  <2>1. made'[Server] \in {"listener", NoOne}
    BY <1>4 DEF HandleInv, HandleTypes, ch, Chans
  <2>2. \A d \in Clients : made'[d] # "listener"
    BY <1>4 DEF HandleInv, HandleTypes, ch, Chans, Unused
  <2>3. QED
    BY <1>2, <1>3, <2>1, <2>2 DEF HandleInv, HandleTypes, ch
<1>8. Stable
  BY <1>1, <1>4, <1>5 DEF Stable, IsOpen
<1>9. Connected'
  BY <1>1, <1>2, <1>3, ConnectedMade DEF HandleInv, ch
<1>10. QED
  BY <1>5, <1>6, <1>7, <1>8, <1>9 DEF HandleInv

\* The system closes the handle of a socket, and the thread goes on to forget it.
LEMMA ClosesStep ==
    ASSUME HandleInv, NEW t \in Threads, frame[t].pc = "close", sock_[frame[t].ch] # no_socket,
           Goto(t, "closed"), ClosesHandle(sock_[frame[t].ch]),
           UNCHANGED <<peer, sock_, made>>
    PROVE  /\ HandleInv' /\ Stable
           /\ inbound' = IF made[frame[t].ch] \in Conns
                         THEN [inbound EXCEPT ![made[frame[t].ch]] = <<>>] ELSE inbound
           /\ \A d \in Chans : d = frame[t].ch => ~IsOpen(d)'
<1>1. PICK ch \in Chans : ch = frame[t].ch
  BY DEF HandleInv, FrameTypes, Using
<1>2. IsOpen(ch) /\ sock_[ch] \in Handles /\ sock_[ch] # no_socket /\ made[ch] # NoOne
  BY <1>1, OpenAt DEF Making, Using, HandleInv, Frames, Knows
<1>3. table[sock_[ch]] = made[ch]
  BY <1>2 DEF HandleInv, Handled
<1>4. /\ table' = [table EXCEPT ![sock_[ch]] = "free"]
      /\ inbound' = IF made[ch] \in Conns THEN [inbound EXCEPT ![made[ch]] = <<>>] ELSE inbound
      /\ backlog' = IF made[ch] = "listener" THEN <<>> ELSE backlog
  BY <1>1, <1>3 DEF ClosesHandle
<1>5. FrameTypes /\ OneUser
  BY DEF HandleInv, Frames
<1>6. PICK f : Fits(f) /\ Moves(t, f) /\ f.pc = "closed" /\ f.ch = ch
  BY <1>1, <1>5, GotoMoves DEF Using
<1>7. frame'[t] = f /\ \A u \in Threads \ {t} : frame'[u] = frame[u]
  BY <1>5, <1>6, MovesFrames
<1>8. Closing(ch)' /\ \A d \in Chans \ {ch} : Closing(d)' <=> Closing(d)
  BY <1>1, <1>6, <1>7 DEF Closing, At
<1>9. ~IsOpen(ch)' /\ \A d \in Chans \ {ch} : sock_'[d] = sock_[d] /\ (IsOpen(d)' <=> IsOpen(d))
  BY <1>8 DEF IsOpen
<1>10. Handled'
  BY <1>2, <1>4, <1>9, HandledFreed DEF HandleInv
<1>11. HandleTypes'
  BY <1>2, <1>4 DEF HandleInv, HandleTypes
<1>12. Stable
  BY <1>9 DEF Stable
<1>13. Connected'
  BY <1>4, ConnectedPeers DEF HandleInv
<1>14. Knows(t)'
  BY <1>2, <1>6, <1>7 DEF Knows, Making, Using
<1>15. Unborn'
  BY <1>6, UnbornKept DEF HandleInv, Using
<1>16. ASSUME NEW u \in Threads \ {t}, frame[u].pc = "accept" PROVE backlog' # <<>>
  <2>1. frame[u].ch = Server /\ frame[u].ch # ch /\ backlog # <<>>
    BY <1>1, <1>16, OtherSockets DEF HandleInv, FrameTypes, Frames, Knows
  <2>2. made[ch] # "listener"
    BY <2>1 DEF HandleInv, HandleTypes, Chans
  <2>3. QED
    BY <2>1, <2>2, <1>4
<1>17. FrameTypes' /\ Frames'
  BY <1>6, <1>14, <1>15, <1>16, FramesStep DEF HandleInv
<1>18. QED
  BY <1>1, <1>4, <1>9, <1>10, <1>11, <1>12, <1>13, <1>17 DEF HandleInv

\* The thread forgets the handle.
LEMMA ForgetsStep ==
    ASSUME HandleInv, NEW t \in Threads, frame[t].pc = "closed", Return(t),
           sock_' = [sock_ EXCEPT ![frame[t].ch] = no_socket],
           UNCHANGED <<table, made, peer, backlog>>
    PROVE  HandleInv' /\ Stable
<1>1. PICK ch \in Chans : ch = frame[t].ch
  BY DEF HandleInv, FrameTypes, Using
<1>2. made[ch] # NoOne /\ ~IsOpen(ch)
  BY <1>1 DEF HandleInv, Frames, Knows, Using, IsOpen, Closing, At
<1>3. sock_'[ch] = no_socket /\ \A d \in Chans \ {ch} : sock_'[d] = sock_[d]
  BY <1>1 DEF HandleInv, HandleTypes
<1>4. Fits(Idle) /\ Moves(t, Idle) /\ Idle.pc = "idle" /\ Idle.ch = NoOne
  BY ReturnMoves DEF HandleInv
<1>5. frame'[t] = Idle /\ \A u \in Threads \ {t} : frame'[u] = frame[u]
  BY <1>4, MovesFrames DEF HandleInv, Frames
<1>6. \A d \in Chans \ {ch} : Closing(d)' <=> Closing(d)
  BY <1>1, <1>4, <1>5 DEF Closing, At
<1>7. \A d \in Chans : IsOpen(d)' <=> IsOpen(d)
  BY <1>2, <1>3, <1>6 DEF IsOpen
<1>8. \A d \in Chans : IsOpen(d) => sock_'[d] = sock_[d]
  BY <1>2, <1>3
<1>9. Handled' /\ Stable
  BY <1>7, <1>8, HandledKept DEF HandleInv, Stable
<1>10. HandleTypes' /\ Connected'
  BY <1>1 DEF HandleInv, HandleTypes, Connected
<1>11. Knows(t)'
  BY <1>4, <1>5 DEF Knows, Making, Using
<1>12. Unborn'
  BY <1>3, <1>4, UnbornKept DEF HandleInv, Using
<1>13. ASSUME NEW u \in Threads \ {t}, frame[u].pc # "idle"
       PROVE  sock_'[frame[u].ch] = sock_[frame[u].ch] /\ (frame[u].pc = "accept" => backlog' # <<>>)
  BY <1>1, <1>3, <1>13, OtherSockets DEF HandleInv, Frames, Knows
<1>14. FrameTypes' /\ Frames'
  BY <1>4, <1>11, <1>12, <1>13, FramesStep DEF HandleInv
<1>15. QED
  BY <1>9, <1>10, <1>14 DEF HandleInv

\* The server's thread takes a connection for a new client.
LEMMA AcceptStep ==
    ASSUME HandleInv, NEW t \in Threads, Accept(t)
    PROVE  /\ HandleInv' /\ Stable
           /\ \/ made' = made
              \/ \E ch \in Clients : /\ made[ch] = NoOne /\ Head(backlog) \in Conns
                                     /\ \A d \in Chans : made[d] # Head(backlog)
                                     /\ made' = [made EXCEPT ![ch] = Head(backlog)]
<1>1. /\ frame[t].pc = "accept" /\ frame[t].ch = Server /\ backlog # <<>> /\ Return(t)
      /\ peer' = peer
  BY DEF Accept, At, HandleInv, FrameTypes, Frames, Knows, kernel
<1>2. Fits(Idle) /\ Moves(t, Idle) /\ Idle.pc = "idle" /\ Idle.ch = NoOne
  BY <1>1, ReturnMoves DEF HandleInv
<1>3. CASE UNCHANGED <<table, backlog, sock_, made>>
  <2>1. HandleInv' /\ Stable
    BY <1>1, <1>2, <1>3, UsingStep DEF Using
  <2>2. QED
    BY <2>1, <1>3
<1>4. ASSUME NEW ch \in Clients, Unmade(ch), Free # {},
             table' = [table EXCEPT ![Lowest(Free)] = Head(backlog)],
             backlog' = Tail(backlog),
             sock_' = [sock_ EXCEPT ![ch] = Lowest(Free)],
             made' = [made EXCEPT ![ch] = Head(backlog)]
      PROVE  /\ HandleInv' /\ Stable
             /\ Head(backlog) \in Conns /\ \A d \in Chans : made[d] # Head(backlog)
  <2> DEFINE h == Lowest(Free)
             x == Head(backlog)
  <2>1. h \in Handles /\ table[h] = "free" /\ h # no_socket
    BY <1>4, FreeHandle DEF no_socket
  <2>2. x \in Conns /\ x = backlog[1] /\ 1 \in DOMAIN backlog
    BY <1>1 DEF HandleInv, Connected
  <2>3. \A d \in Chans : made[d] # x
    BY <2>2 DEF HandleInv, Connected
  <2>4. x # NoOne /\ x # "free" /\ ch \in Chans /\ ch # Server
    BY <2>2 DEF Chans
  <2>5. made[ch] = NoOne /\ sock_[ch] = no_socket /\ ~Closing(ch) /\ \A u \in Threads : frame[u].ch # ch
    BY <1>4, <2>4 DEF Unmade, HandleInv, Frames, Unborn, Closing
  <2>6. \A d \in Chans : Closing(d)' <=> Closing(d)
    BY <1>1, <1>2, MovesClosing DEF HandleInv, Frames
  <2>7. HandleTypes'
    <3>1. made' \in [Chans -> Conns \cup {"listener", NoOne}] /\ made'[Server] = made[Server]
      BY <1>4, <2>2, <2>4 DEF HandleInv, HandleTypes
    <3>2. \A d \in Clients : made'[d] # "listener"
      BY <1>4, <2>2, <2>4 DEF HandleInv, HandleTypes, Chans
    <3>3. sock_' \in [Chans -> Handles \cup {no_socket}]
      BY <1>4, <2>1 DEF HandleInv, HandleTypes
    <3>4. table' \in [Handles -> {"free", "new", "listener"} \cup Conns]
      BY <1>4, <2>1, <2>2 DEF HandleInv, HandleTypes
    <3>5. QED
      BY <3>1, <3>2, <3>3, <3>4 DEF HandleInv, HandleTypes
  <2>8. Handled'
    BY <1>4, <2>1, <2>4, <2>5, <2>6, HandledTaken DEF HandleInv
  <2>9. Connected'
    BY <1>1, <1>4, <2>4, <2>5, ConnectedMade DEF HandleInv
  <2>10. /\ sock_'[ch] = h /\ made'[ch] = x
         /\ \A d \in Chans \ {ch} : sock_'[d] = sock_[d] /\ made'[d] = made[d]
    BY <1>4, <2>4 DEF HandleInv, HandleTypes
  <2> HIDE DEF h, x
  <2>11. Stable
    BY <2>5, <2>6, <2>10 DEF Stable, IsOpen
  <2>12. Knows(t)'
    BY <1>2, MovesFrames DEF Knows, Making, Using, HandleInv, Frames
  <2>13. Unborn'
    BY <1>1, <1>2, <2>4, <2>10, UnbornKept DEF HandleInv, Using
  <2>14. ASSUME NEW u \in Threads \ {t}, frame[u].pc # "idle"
         PROVE  /\ made'[frame[u].ch] = made[frame[u].ch] /\ sock_'[frame[u].ch] = sock_[frame[u].ch]
                /\ frame[u].pc # "accept"
    BY <1>1, <2>5, <2>10, <2>14, OtherSockets DEF HandleInv, FrameTypes, Frames
  <2>15. FrameTypes' /\ Frames'
    BY <1>2, <2>12, <2>13, <2>14, FramesStep DEF HandleInv
  <2>16. QED
    BY <2>2, <2>3, <2>7, <2>8, <2>9, <2>11, <2>15 DEF HandleInv, x
<1>5. CASE \E ch \in Clients :
             /\ Unmade(ch) /\ Free # {}
             /\ table' = [table EXCEPT ![Lowest(Free)] = Head(backlog)]
             /\ backlog' = Tail(backlog)
             /\ sock_' = [sock_ EXCEPT ![ch] = Lowest(Free)]
             /\ made' = [made EXCEPT ![ch] = Head(backlog)]
  BY <1>4, <1>5 DEF Unmade
<1>6. QED
  BY <1>3, <1>5 DEF Accept

-----------------------------------------------------------------------------
(* What a step does to the bytes                                           *)

\* A sequence is what is taken from its front and what is left.
LEMMA SplitAt ==
    ASSUME NEW S, NEW s \in Seq(S), NEW n \in 0 .. Len(s)
    PROVE  /\ SubSeq(s, 1, n) \in Seq(S) /\ SubSeq(s, n + 1, Len(s)) \in Seq(S)
           /\ SubSeq(s, 1, n) \o SubSeq(s, n + 1, Len(s)) = s
<1>1. SubSeq(s, 1, n) \o SubSeq(s, n + 1, Len(s)) = SubSeq(s, 1, Len(s))
  <2>1. Len(s) \in Nat /\ 1 \in 1 .. Len(s) + 1 /\ n \in 1 - 1 .. Len(s) /\ Len(s) \in n .. Len(s)
    OBVIOUS
  <2>2. QED
    BY <2>1, ConcatAdjacentSubSeq
<1>2. SubSeq(s, 1, Len(s)) = s
  BY SubSeqFull
<1>3. SubSeq(s, 1, n) \in Seq(S) /\ SubSeq(s, n + 1, Len(s)) \in Seq(S)
  OBVIOUS
<1>4. QED
  BY <1>1, <1>2, <1>3

\* What is added behind a sequence leaves it a prefix.
LEMMA PrefixOfConcat ==
    ASSUME NEW S, NEW s \in Seq(S), NEW t \in Seq(S)
    PROVE  IsPrefix(s, s \o t)
<1>1. Len(s) \in Nat /\ Len(t) \in Nat /\ s \o t \in Seq(S) /\ Len(s \o t) = Len(s) + Len(t)
  OBVIOUS
<1>2. SubSeq(s, 1, Len(s)) = s
  BY SubSeqFull
<1>3. SubSeq(s \o t, 1, Len(s)) = s
  <2>1. CASE Len(s) = 0
    BY <2>1
  <2>2. CASE Len(s) # 0
    <3>1. 1 \in 1 .. Len(s) /\ Len(s) \in 1 .. Len(s)
      BY <1>1, <2>2
    <3>2. QED
      BY <1>2, <3>1, SubSeqOfConcat1
  <2>3. QED
    BY <2>1, <2>2
<1>4. QED
  BY <1>1, <1>2, <1>3 DEF IsPrefix

\* A prefix is one of whatever is added to the sequence.
LEMMA PrefixStays ==
    ASSUME NEW S, NEW s \in Seq(S), NEW t \in Seq(S), NEW u \in Seq(S), IsPrefix(s, t)
    PROVE  IsPrefix(s, t \o u)
<1>1. Len(s) \in Nat /\ Len(s) <= Len(t) /\ SubSeq(s, 1, Len(s)) = SubSeq(t, 1, Len(s))
  BY DEF IsPrefix
<1>2. SubSeq(t \o u, 1, Len(s)) = SubSeq(t, 1, Len(s)) /\ Len(t \o u) = Len(t) + Len(u) /\ Len(u) \in Nat
  BY <1>1
<1>3. QED
  BY <1>1, <1>2 DEF IsPrefix

\* The prefixes that every sequence has.
LEMMA PrefixOfItself ==
    ASSUME NEW S, NEW s \in Seq(S)
    PROVE  IsPrefix(s, s) /\ IsPrefix(<<>>, s)
  BY DEF IsPrefix

\* Bytes put together in either order are the same.
LEMMA Associative ==
    ASSUME NEW S, NEW a \in Seq(S), NEW b \in Seq(S), NEW c \in Seq(S)
    PROVE  (a \o b) \o c = a \o (b \o c)
  BY ONLY ConcatAssociative

\* The same, for all sequences of bytes.
LEMMA BytesAssociative ==
    \A a, b, c \in Seq(Bytes) : (a \o b) \o c = a \o (b \o c)
  BY ONLY Associative

\* A thread that has found its socket readable.
Receiving(ch) == \E t \in Threads : frame[t].ch = ch /\ At(t, "recv")

\* What is known of a client's connection.
Own(ch) ==
    LET c == made[ch]
    IN  /\ IsPrefix(got[ch], sent[c])
        /\ IsOpen(ch) => got[ch] \o inbound[c] = sent[c]
        /\ Receiving(ch) => inbound[c] # <<>> \/ peer[c] = "closed"

\* Own() is what OwnBytes says of one socket.
LEMMA OwnIsOwn ==
    ASSUME HandleTypes
    PROVE  OwnBytes <=> \A ch \in Clients : made[ch] # NoOne => Own(ch)
<1>1. \A ch \in Clients : made[ch] # NoOne => made[ch] \in Conns /\ made[ch] # "listener"
  BY DEF HandleTypes, Chans
<1>2. QED
  BY <1>1 DEF OwnBytes, Own, Readable, Receiving

\* The same of the next state.
LEMMA OwnIsOwnNext ==
    ASSUME HandleTypes'
    PROVE  OwnBytes' <=> \A ch \in Clients : made'[ch] # NoOne => Own(ch)'
<1>1. \A ch \in Clients : made'[ch] # NoOne => made'[ch] \in Conns /\ made'[ch] # "listener"
  BY DEF HandleTypes, Chans
<1>2. QED
  BY <1>1 DEF OwnBytes, Own, Readable, Receiving

\* Nothing moves on any connection.
LEMMA CarriedKept ==
    ASSUME HandleTypes, HandleTypes', Connected, Carried, Stable, UNCHANGED <<sent, inbound, got, made>>,
           \A c \in Conns : peer[c] = "closed" => peer'[c] = "closed",
           \A ch \in Clients : Receiving(ch)' /\ made[ch] \in Conns =>
                Receiving(ch) \/ inbound[made[ch]] # <<>> \/ peer[made[ch]] = "closed"
    PROVE  Carried'
<1>1. ASSUME NEW ch \in Clients, made[ch] # NoOne PROVE Own(ch)'
  <2>1. Own(ch) /\ made[ch] \in Conns /\ ch \in Chans
    BY <1>1, OwnIsOwn DEF Carried, HandleTypes, Chans
  <2>2. QED
    BY <1>1, <2>1 DEF Own, Stable
<1>2. OwnBytes'
  BY <1>1, OwnIsOwnNext
<1>3. QED
  BY <1>2 DEF Carried

\* A socket is made for a connection that has no other.
LEMMA CarriedMade ==
    ASSUME HandleInv, HandleTypes', Carried, Stable, UNCHANGED <<sent, inbound, got>>,
           NEW ch \in Chans, NEW x, made[ch] = NoOne,
           made' = [made EXCEPT ![ch] = x],
           \/ x = "listener" /\ ch = Server
           \/ x \in Conns /\ ch \in Clients /\ \A d \in Chans : made[d] # x,
           \A c \in Conns : peer[c] = "closed" => peer'[c] = "closed",
           \A d \in Clients : Receiving(d)' => Receiving(d)
    PROVE  Carried'
<1>1. made'[ch] = x /\ \A d \in Chans \ {ch} : made'[d] = made[d]
  BY DEF HandleInv, HandleTypes
<1>2. ~Receiving(ch)
  BY DEF Receiving, At, HandleInv, Frames, Knows, Using
<1>3. ASSUME NEW d \in Clients, made'[d] # NoOne PROVE Own(d)'
  <2>1. CASE d = ch
    <3>1. x \in Conns /\ got[ch] = <<>> /\ inbound[x] = sent[x] /\ sent[x] \in Seq(Bytes)
      BY <2>1 DEF Carried
    <3>2. <<>> \o sent[x] = sent[x]
      BY <3>1
    <3>3. IsPrefix(<<>>, sent[x])
      BY <3>1, PrefixOfItself
    <3>4. QED
      BY <1>1, <1>2, <2>1, <3>1, <3>2, <3>3 DEF Own
  <2>2. CASE d # ch
    <3>1. made'[d] = made[d] /\ Own(d) /\ made[d] \in Conns /\ d \in Chans
      BY <1>1, <1>3, <2>2, OwnIsOwn DEF HandleInv, Carried, HandleTypes, Chans
    <3>2. QED
      BY <1>3, <3>1 DEF Own, Stable
  <2>3. QED
    BY <2>1, <2>2
<1>4. OwnBytes'
  BY <1>3, OwnIsOwnNext
<1>5. \A d \in Chans : made'[d] = NoOne => made[d] = NoOne
  BY <1>1
<1>6. ASSUME NEW c \in Conns, \A d \in Chans : made'[d] # c PROVE \A d \in Chans : made[d] # c
  BY <1>1, <1>6
<1>7. QED
  BY <1>4, <1>5, <1>6 DEF Carried

\* A socket is closed, and what it has not read is lost.
LEMMA CarriedClosed ==
    ASSUME HandleTypes, HandleTypes', Connected, Carried, Stable, NEW ch \in Chans, made[ch] # NoOne,
           UNCHANGED <<sent, got, made, peer>>,
           inbound' = IF made[ch] \in Conns THEN [inbound EXCEPT ![made[ch]] = <<>>] ELSE inbound,
           ~IsOpen(ch)',
           \A d \in Clients : Receiving(d)' => Receiving(d) /\ d # ch
    PROVE  Carried'
<1>1. ASSUME NEW d \in Clients, made[d] # NoOne PROVE Own(d)'
  <2>1. Own(d) /\ made[d] \in Conns /\ d \in Chans
    BY <1>1, OwnIsOwn DEF Carried, HandleTypes, Chans
  <2>2. CASE d = ch
    BY <2>1, <2>2 DEF Own
  <2>3. CASE d # ch
    <3>1. made[d] # made[ch]
      BY <1>1, <2>1, <2>3 DEF Connected
    <3>2. inbound'[made[d]] = inbound[made[d]]
      BY <2>1, <3>1 DEF Carried
    <3>3. QED
      BY <1>1, <2>1, <3>2 DEF Own, Stable
  <2>4. QED
    BY <2>2, <2>3
<1>2. OwnBytes'
  BY <1>1, OwnIsOwnNext
<1>3. inbound' \in [Conns -> Seq(Bytes)]
  BY DEF Carried
<1>4. \A c \in Conns : (\A d \in Chans : made[d] # c) => inbound'[c] = inbound[c]
  BY DEF Carried
<1>5. QED
  BY <1>2, <1>3, <1>4 DEF Carried

\* A socket receives some of the bytes that are there.
LEMMA CarriedReceives ==
    ASSUME HandleTypes, HandleTypes', Connected, Carried, Stable, NEW ch \in Clients, made[ch] # NoOne, IsOpen(ch),
           UNCHANGED <<sent, made, peer>>,
           NEW n \in 1 .. Len(inbound[made[ch]]),
           got' = [got EXCEPT ![ch] = @ \o SubSeq(inbound[made[ch]], 1, n)],
           inbound' = [inbound EXCEPT ![made[ch]] = SubSeq(@, n + 1, Len(@))],
           \A d \in Clients : Receiving(d)' => Receiving(d) /\ d # ch
    PROVE  Carried'
<1>1. PICK c \in Conns : c = made[ch]
  BY DEF HandleTypes, Chans
<1>2. /\ inbound[c] \in Seq(Bytes) /\ sent[c] \in Seq(Bytes) /\ got[ch] \in Seq(Bytes)
      /\ ch \in Chans /\ n \in 0 .. Len(inbound[c])
  BY <1>1 DEF Carried, Chans
<1> DEFINE a == SubSeq(inbound[c], 1, n)
           b == SubSeq(inbound[c], n + 1, Len(inbound[c]))
<1>3. a \in Seq(Bytes) /\ b \in Seq(Bytes) /\ a \o b = inbound[c]
  BY <1>1, <1>2, SplitAt
<1>13. got[ch] \o a \in Seq(Bytes)
  BY <1>2, <1>3, ConcatProperties
<1>4. /\ got'[ch] = got[ch] \o a /\ inbound'[c] = b
      /\ got' \in [Chans -> Seq(Bytes)] /\ inbound' \in [Conns -> Seq(Bytes)]
      /\ \A d \in Chans \ {ch} : got'[d] = got[d]
      /\ \A x \in Conns \ {c} : inbound'[x] = inbound[x]
  BY <1>1, <1>2, <1>3, <1>13 DEF Carried
<1> HIDE DEF a, b
<1>5. got[ch] \o inbound[c] = sent[c]
  BY <1>1, OwnIsOwn DEF Carried, Own
<1>6. (got[ch] \o a) \o b = sent[c]
  <2>1. (got[ch] \o a) \o b = got[ch] \o (a \o b)
    BY ONLY <1>2, <1>3, BytesAssociative
  <2>2. QED
    BY <1>3, <1>5, <2>1
<1>7. IsPrefix(got[ch] \o a, sent[c])
  <2>1. PICK g \in Seq(Bytes), r \in Seq(Bytes) : g = got[ch] \o a /\ r = b
    BY ONLY <1>3, <1>13
  <2>2. IsPrefix(g, g \o r)
    BY ONLY PrefixOfConcat
  <2>3. QED
    BY ONLY <1>6, <2>1, <2>2
<1>8. ASSUME NEW d \in Clients, made[d] # NoOne PROVE Own(d)'
  <2>1. Own(d) /\ made[d] \in Conns /\ d \in Chans
    BY <1>8, OwnIsOwn DEF Carried, HandleTypes, Chans
  <2>2. CASE d = ch
    BY <1>1, <1>4, <1>6, <1>7, <2>1, <2>2 DEF Own
  <2>3. CASE d # ch
    <3>1. made[d] # c
      BY <1>1, <1>2, <1>8, <2>1, <2>3 DEF Connected
    <3>2. inbound'[made[d]] = inbound[made[d]] /\ got'[d] = got[d]
      BY <1>4, <2>1, <2>3, <3>1
    <3>3. QED
      BY <1>8, <2>1, <2>3, <3>2 DEF Own, Stable
  <2>4. QED
    BY <2>2, <2>3
<1>9. OwnBytes'
  BY <1>8, OwnIsOwnNext
<1>10. \A x \in Conns : (\A d \in Chans : made[d] # x) => inbound'[x] = inbound[x]
  BY <1>1, <1>2, <1>4
<1>11. \A d \in Chans : made[d] = NoOne => got'[d] = got[d]
  BY <1>4
<1>12. QED
  BY <1>4, <1>9, <1>10, <1>11 DEF Carried

\* A peer sends a byte.
LEMMA CarriedSent ==
    ASSUME HandleTypes, HandleTypes', Connected, Carried, Stable, NEW c \in Conns, PeerSends(c),
           \A d \in Clients : Receiving(d)' => Receiving(d)
    PROVE  Carried'
<1> DEFINE byte == <<c, Len(sent[c]) + 1>>
<1>1. /\ sent' = [sent EXCEPT ![c] = Append(@, byte)]
      /\ inbound' = [inbound EXCEPT ![c] = Append(@, byte)]
      /\ UNCHANGED <<made, got, peer>>
  BY DEF PeerSends, objects
<1>2. sent[c] \in Seq(Bytes) /\ inbound[c] \in Seq(Bytes) /\ byte \in Bytes
  BY DEF Carried, Bytes
<1> HIDE DEF byte
<1>10. <<byte>> \in Seq(Bytes)
  BY <1>2
<1>9. PICK more \in Seq(Bytes) : more = <<byte>>
  BY <1>10
<1>3. /\ sent'[c] = sent[c] \o more /\ inbound'[c] = inbound[c] \o more
      /\ sent' \in [Conns -> Seq(Bytes)] /\ inbound' \in [Conns -> Seq(Bytes)]
      /\ \A x \in Conns \ {c} : sent'[x] = sent[x] /\ inbound'[x] = inbound[x]
  BY <1>1, <1>2, <1>9, AppendIsConcat DEF Carried
<1>4. inbound'[c] # <<>>
  BY <1>2, <1>3, <1>9
<1>5. ASSUME NEW d \in Clients, made[d] # NoOne PROVE Own(d)'
  <2>1. Own(d) /\ made[d] \in Conns /\ d \in Chans /\ got[d] \in Seq(Bytes)
    BY <1>5, OwnIsOwn DEF Carried, HandleTypes, Chans
  <2>2. CASE made[d] = c
    <3>1. IsPrefix(got[d], sent'[c])
      BY <1>2, <1>3, <2>1, <2>2, PrefixStays DEF Own
    <3>2. IsOpen(d)' => got[d] \o inbound'[c] = sent'[c]
      <4>1. (got[d] \o inbound[c]) \o more = got[d] \o (inbound[c] \o more)
        <5>1. more \in Seq(Bytes)
          OBVIOUS
        <5>2. QED
          BY ONLY <1>2, <2>1, <5>1, BytesAssociative
      <4>2. QED
        BY <1>3, <1>5, <2>1, <2>2, <4>1 DEF Own, Stable
    <3>3. QED
      BY <1>1, <1>4, <2>2, <3>1, <3>2 DEF Own
  <2>3. CASE made[d] # c
    BY <1>1, <1>3, <1>5, <2>1, <2>3 DEF Own, Stable
  <2>4. QED
    BY <2>2, <2>3
<1>6. OwnBytes'
  BY <1>1, <1>5, OwnIsOwnNext
<1>7. \A x \in Conns : (\A d \in Chans : made[d] # x) => inbound'[x] = sent'[x]
  BY <1>3 DEF Carried
<1>8. QED
  BY <1>1, <1>3, <1>6, <1>7 DEF Carried

\* A thread is receiving only after the step that goes to "recv".
LEMMA ReceivingKept ==
    ASSUME FrameTypes, OneUser, NEW t \in Threads,
           \/ \E ch \in Chans, pc \in Making \cup Using : pc # "recv" /\ Call(t, ch, pc)
           \/ Return(t)
           \/ \E pc \in Using : pc # "recv" /\ Goto(t, pc)
           \/ frame' = frame /\ frame[t].pc # "recv"
    PROVE  \A d \in Clients : Receiving(d)' => Receiving(d) /\ d # frame[t].ch
<1>1. \A u \in Threads \ {t} : frame'[u] = frame[u]
  BY DEF FrameTypes, Call, Return, Goto
<1>2. frame'[t].pc # "recv"
  <2>1. ASSUME NEW ch \in Chans, NEW pc \in Making \cup Using, pc # "recv", Call(t, ch, pc)
        PROVE  frame'[t].pc # "recv"
    <3>1. frame'[t] = [Idle EXCEPT !.pc = pc, !.ch = ch]
      BY <2>1 DEF FrameTypes, Call
    <3>2. QED
      BY <2>1, <3>1 DEF Idle
  <2>2. CASE Return(t)
    BY <2>2 DEF FrameTypes, Return, Idle
  <2>3. ASSUME NEW pc \in Using, pc # "recv", Goto(t, pc) PROVE frame'[t].pc # "recv"
    BY <2>3 DEF FrameTypes, Goto
  <2>4. QED
    BY <2>1, <2>2, <2>3
<1>3. \A d \in Clients : d # NoOne
  OBVIOUS
<1>4. QED
  BY <1>1, <1>2, <1>3 DEF Receiving, At, OneUser

-----------------------------------------------------------------------------
(* The SocketSet                                                           *)

\* A SocketSet that is not used while sockets only close or are made.
LEMMA CopiedKept ==
    ASSUME HandleTypes, Copied, Stable, UNCHANGED <<channels_, natives_, current_>>
    PROVE  Copied'
<1>1. NoDangling'
  BY DEF Copied, NoDangling
<1>2. ASSUME NEW i \in DOMAIN channels_, NEW ch \in Chans, channels_[i] = ch
      PROVE  made'[ch] # NoOne /\ (natives_[i] = sock_'[ch] \/ ~IsOpen(ch)')
  BY <1>2 DEF Copied, Stable
<1> HIDE DEF IsOpen
<1>3. QED
  BY <1>1, <1>2 DEF Copied

\* What is left when an element is removed.
LEMMA RemoveAtType ==
    ASSUME NEW S, NEW s \in Seq(S), NEW i \in 1 .. Len(s)
    PROVE  /\ RemoveAt(s, i) \in Seq(S) /\ Len(RemoveAt(s, i)) = Len(s) - 1
           /\ \A j \in 1 .. Len(s) - 1 : RemoveAt(s, i)[j] = IF j < i THEN s[j] ELSE s[j + 1]
<1> DEFINE a == SubSeq(s, 1, i - 1)
           b == SubSeq(s, i + 1, Len(s))
<1>1. a \in Seq(S) /\ Len(a) = i - 1 /\ \A j \in 1 .. i - 1 : a[j] = s[j]
  OBVIOUS
<1>2. b \in Seq(S) /\ Len(b) = Len(s) - i /\ \A j \in 1 .. Len(s) - i : b[j] = s[i + j]
  OBVIOUS
<1> HIDE DEF a, b
<1>3. /\ a \o b \in Seq(S) /\ Len(a \o b) = Len(s) - 1
      /\ \A j \in 1 .. Len(s) - 1 : (a \o b)[j] = IF j <= i - 1 THEN a[j] ELSE b[j - (i - 1)]
  <2>1. Len(s) \in Nat /\ i \in 1 .. Len(s)
    OBVIOUS
  <2>2. /\ a \o b \in Seq(S) /\ Len(a \o b) = Len(a) + Len(b)
        /\ \A j \in 1 .. Len(a) + Len(b) : (a \o b)[j] = IF j <= Len(a) THEN a[j] ELSE b[j - Len(a)]
    BY ONLY <1>1, <1>2, ConcatProperties
  <2>3. Len(a) + Len(b) = Len(s) - 1
    BY ONLY <2>1, <1>1, <1>2
  <2>4. QED
    BY ONLY <1>1, <2>2, <2>3
<1>4. ASSUME NEW j \in 1 .. Len(s) - 1 PROVE (a \o b)[j] = IF j < i THEN s[j] ELSE s[j + 1]
  <2>1. CASE j < i
    BY <2>1, <1>1, <1>3
  <2>2. CASE j >= i
    <3>1. j - (i - 1) \in 1 .. Len(s) - i /\ i + (j - (i - 1)) = j + 1
      BY <2>2
    <3>2. b[j - (i - 1)] = s[j + 1]
      <4>1. PICK k \in 1 .. Len(s) - i : k = j - (i - 1)
        BY <3>1
      <4>2. b[k] = s[i + k] /\ i + k = j + 1
        BY <1>2, <3>1, <4>1
      <4>3. QED
        BY <4>1, <4>2
    <3>3. (a \o b)[j] = b[j - (i - 1)]
      BY <2>2, <1>3
    <3>4. QED
      BY <2>2, <3>2, <3>3
  <2>3. i \in Int /\ j \in Int
    OBVIOUS
  <2>4. j < i \/ j >= i
    BY <2>3
  <2>5. QED
    BY ONLY <2>1, <2>2, <2>4
<1>5. QED
  BY <1>3, <1>4 DEF RemoveAt, a, b

\* The channel that select() finds has a handle that is readable.
LEMMA SelectsReady ==
    ASSUME Copied, Selects > 0
    PROVE  /\ Selects \in DOMAIN channels_ /\ Selects \in DOMAIN natives_
           /\ natives_[Selects] # no_socket /\ Readable(table[natives_[Selects]])
<1> DEFINE at == {i \in DOMAIN natives_ : natives_[i] # no_socket}
           ready == {i \in at : Readable(table[natives_[i]])}
<1>1. DOMAIN channels_ = DOMAIN natives_ /\ DOMAIN natives_ \subseteq Nat
  BY DEF Copied
<1>2. ready # {} /\ Selects = Lowest(ready)
  <2> DEFINE x == Lowest(ready)
             some == \E i \in at : table[natives_[i]] = "free"
  <2>1. Selects = IF some THEN -1 ELSE IF ready = {} THEN 0 ELSE x
    BY DEF Selects
  <2> HIDE DEF x, some, ready
  <2>2. ready # {} /\ Selects = x
    BY <2>1
  <2>3. QED
    BY <2>2 DEF x
<1>3. ready \subseteq Nat
  BY <1>1
<1> HIDE DEF ready
<1>4. Selects \in ready
  BY <1>2, <1>3, LowestIn
<1>5. QED
  BY <1>1, <1>4 DEF ready

\* The copy h of the handle of ch is right, or the socket is closed.
Right(h, ch) == made[ch] # NoOne /\ (h = sock_[ch] \/ ~IsOpen(ch))

\* The operations of a SocketSet keep its copies and its pointer right.
LEMMA SetCopied ==
    ASSUME UNCHANGED <<sock_, made, frame>>,
           channels_' \in Seq(Chans), natives_' \in Seq(Handles \cup {no_socket}),
           Len(channels_') = Len(natives_'), NoDangling',
           \A i \in DOMAIN channels_' : Right(natives_'[i], channels_'[i])
    PROVE  Copied'
<1>1. \A ch \in Chans : IsOpen(ch)' <=> IsOpen(ch)
  BY DEF IsOpen, Closing, At
<1>2. ASSUME NEW i \in DOMAIN channels_', NEW ch \in Chans, channels_'[i] = ch
      PROVE  made'[ch] # NoOne /\ (natives_'[i] = sock_'[ch] \/ ~IsOpen(ch)')
  BY <1>1, <1>2 DEF Right
<1>3. QED
  BY <1>2 DEF Copied

\* What is added, removed, found and forgotten.
LEMMA SetStep ==
    ASSUME HandleTypes, Copied, UsesSet
    PROVE  Copied' /\ UNCHANGED <<kernel, objects, frame>>
<1>1. UNCHANGED <<kernel, objects, frame>>
  BY DEF UsesSet, insert, erase, clear, CloseSet, do_wait_for, ReadSet, SetCall
<1>2. \A ch \in Chans : made'[ch] = made[ch] /\ sock_'[ch] = sock_[ch] /\ (IsOpen(ch)' <=> IsOpen(ch))
  BY <1>1 DEF objects, IsOpen, Closing, At
<1>3. \A i \in DOMAIN channels_ :
         channels_[i] \in Chans /\ natives_[i] \in Handles \cup {no_socket} /\ Right(natives_[i], channels_[i])
  <2> SUFFICES ASSUME NEW i \in DOMAIN channels_
               PROVE  /\ channels_[i] \in Chans /\ natives_[i] \in Handles \cup {no_socket}
                      /\ Right(natives_[i], channels_[i])
    OBVIOUS
  <2>1. PICK ch \in Chans : channels_[i] = ch
    BY DEF Copied
  <2>2. Right(natives_[i], ch)
    BY <2>1 DEF Copied, Right
  <2>3. natives_[i] \in Handles \cup {no_socket}
    BY DEF Copied
  <2>4. QED
    BY <2>1, <2>2, <2>3
<1>4. ASSUME channels_' \in Seq(Chans), natives_' \in Seq(Handles \cup {no_socket}),
             Len(channels_') = Len(natives_'), NoDangling',
             \A i \in DOMAIN channels_' : Right(natives_'[i], channels_'[i])
      PROVE  Copied'
  BY <1>1, <1>4, SetCopied DEF objects
<1>5. DOMAIN channels_ = 1 .. Len(channels_) /\ DOMAIN natives_ = 1 .. Len(channels_) /\ Len(channels_) \in Nat
  BY DEF Copied
<1>6. ASSUME NEW ch \in Chans, insert(ch) PROVE Copied'
  <2>1. /\ channels_' = Append(channels_, ch) /\ natives_' = Append(natives_, sock_[ch])
        /\ current_' = current_ /\ made[ch] # NoOne
    BY <1>6 DEF insert
  <2>2. sock_[ch] \in Handles \cup {no_socket}
    BY DEF HandleTypes
  <2>3. /\ channels_' \in Seq(Chans) /\ natives_' \in Seq(Handles \cup {no_socket})
        /\ Len(channels_') = Len(channels_) + 1 /\ Len(natives_') = Len(channels_) + 1
        /\ \A i \in DOMAIN channels_ : channels_'[i] = channels_[i] /\ natives_'[i] = natives_[i]
        /\ channels_'[Len(channels_) + 1] = ch /\ natives_'[Len(channels_) + 1] = sock_[ch]
    BY <2>1, <2>2, <1>5 DEF Copied
  <2>4. DOMAIN channels_' = DOMAIN channels_ \cup {Len(channels_) + 1}
    BY <2>3, <1>5
  <2>5. Right(sock_[ch], ch)
    BY <2>1 DEF Right
  <2>6. \A i \in DOMAIN channels_' : Right(natives_'[i], channels_'[i])
    BY <2>3, <2>4, <2>5, <1>3
  <2>7. NoDangling'
    BY <2>1, <2>3, <2>4 DEF Copied, NoDangling, Range
  <2>8. QED
    BY <2>3, <2>6, <2>7, <1>4
<1>7. ASSUME NEW ch \in Chans, erase(ch) PROVE Copied'
  <2> DEFINE D == {j \in DOMAIN channels_ : channels_[j] = ch}
  <2>1. D # {} /\ D \subseteq Nat
    BY <1>5, <1>7 DEF erase, Range
  <2>2. PICK i \in DOMAIN channels_ :
          /\ channels_[i] = ch
          /\ channels_' = RemoveAt(channels_, i) /\ natives_' = RemoveAt(natives_, i)
          /\ current_' = IF current_ = ch THEN NoOne ELSE current_
    BY <2>1, <1>7, LowestIn DEF erase
  <2> HIDE DEF D
  <2>3. /\ channels_' \in Seq(Chans) /\ Len(channels_') = Len(channels_) - 1
        /\ \A j \in 1 .. Len(channels_) - 1 :
              channels_'[j] = IF j < i THEN channels_[j] ELSE channels_[j + 1]
    <3>1. channels_ \in Seq(Chans) /\ i \in 1 .. Len(channels_)
      BY <2>2, <1>5 DEF Copied
    <3>2. QED
      BY <2>2, <3>1, RemoveAtType
  <2>4. /\ natives_' \in Seq(Handles \cup {no_socket}) /\ Len(natives_') = Len(channels_) - 1
        /\ \A j \in 1 .. Len(channels_) - 1 :
              natives_'[j] = IF j < i THEN natives_[j] ELSE natives_[j + 1]
    <3>1. natives_ \in Seq(Handles \cup {no_socket}) /\ Len(natives_) = Len(channels_) /\ i \in 1 .. Len(natives_)
      BY <2>2, <1>5 DEF Copied
    <3>2. QED
      BY <2>2, <3>1, RemoveAtType
  <2>5. DOMAIN channels_' = 1 .. Len(channels_) - 1
    BY <2>3
  <2>6. ASSUME NEW j \in DOMAIN channels_' PROVE Right(natives_'[j], channels_'[j])
    <3>1. j \in DOMAIN channels_ /\ j + 1 \in DOMAIN channels_ /\ j \in 1 .. Len(channels_) - 1
      BY <2>5, <1>5
    <3>2. QED
      BY <3>1, <2>3, <2>4, <1>3
  <2>7. NoDangling'
    <3> SUFFICES ASSUME current_ # ch, current_ # NoOne, current_' = current_
                 PROVE  \E j \in DOMAIN channels_' : channels_'[j] = current_
      BY <2>2 DEF NoDangling, Range
    <3>1. PICK k \in 1 .. Len(channels_) : channels_[k] = current_
      BY <1>5 DEF Copied, NoDangling, Range
    <3>2. k # i /\ i \in 1 .. Len(channels_)
      BY <2>2, <3>1, <1>5
    <3>3. CASE k < i
      <4>1. k \in 1 .. Len(channels_) - 1
        BY <3>2, <3>3
      <4>2. QED
        BY <4>1, <3>1, <3>3, <2>3, <2>5
    <3>4. CASE k > i
      <4>1. k - 1 \in 1 .. Len(channels_) - 1 /\ ~(k - 1 < i) /\ (k - 1) + 1 = k
        BY <3>2, <3>4
      <4>2. QED
        BY <4>1, <3>1, <2>3, <2>5
    <3>5. QED
      BY <3>2, <3>3, <3>4
  <2>8. QED
    BY <2>3, <2>4, <2>6, <2>7, <1>4
<1>8. CASE clear
  <2>1. channels_' = <<>> /\ natives_' = <<>> /\ current_' = NoOne
    BY <1>8 DEF clear
  <2>2. /\ <<>> \in Seq(Chans) /\ <<>> \in Seq(Handles \cup {no_socket})
        /\ DOMAIN <<>> = {}
    OBVIOUS
  <2>3. NoDangling'
    BY <2>1 DEF NoDangling
  <2>4. \A i \in DOMAIN channels_' : Right(natives_'[i], channels_'[i])
    BY <2>1, <2>2
  <2>5. Len(channels_') = Len(natives_')
    BY <2>1
  <2>6. QED
    BY <1>1, <2>1, <2>2, <2>3, <2>4, <2>5, <1>4
<1>9. CASE CloseSet \/ do_wait_for \/ ReadSet
  <2>1. UNCHANGED <<channels_, natives_>>
    BY <1>9 DEF CloseSet, do_wait_for, ReadSet
  <2>2. NoDangling'
    <3>1. CASE CloseSet \/ ReadSet
      BY <3>1, <2>1 DEF CloseSet, ReadSet, Copied, NoDangling
    <3>2. CASE do_wait_for
      <4>1. Selects > 0 => Selects \in DOMAIN channels_
        BY SelectsReady
      <4>2. QED
        BY <2>1, <3>2, <4>1 DEF do_wait_for, NoDangling, Range
    <3>3. QED
      BY <1>9, <3>1, <3>2
  <2>3. /\ channels_' \in Seq(Chans) /\ natives_' \in Seq(Handles \cup {no_socket})
        /\ Len(channels_') = Len(natives_')
    BY <2>1 DEF Copied
  <2>4. \A i \in DOMAIN channels_' : Right(natives_'[i], channels_'[i])
    BY <2>1, <1>3
  <2>5. QED
    BY <1>1, <2>2, <2>3, <2>4, <1>4
<1>10. QED
  BY <1>1, <1>6, <1>7, <1>8, <1>9 DEF UsesSet

-----------------------------------------------------------------------------
(* The invariant                                                           *)

\* A step after which no other thread than before is receiving.
LEMMA CarriedUsing ==
    ASSUME Inv, HandleInv', Stable, UNCHANGED <<sent, inbound, got, made, peer, channels_, natives_, current_>>,
           \A d \in Clients : Receiving(d)' => Receiving(d)
    PROVE  Inv'
<1>1. HandleTypes /\ HandleTypes' /\ Connected
  BY DEF Inv, HandleInv
<1>2. Carried'
  BY <1>1, CarriedKept DEF Inv
<1>3. Copied'
  BY <1>1, CopiedKept DEF Inv
<1>4. QED
  BY <1>2, <1>3 DEF Inv

\* The first steps of the calls.
LEMMA CallStep ==
    ASSUME Inv, NEW t \in Threads, Calls(t)
    PROVE  Inv'
<1>1. HandleInv /\ FrameTypes /\ OneUser /\ HandleTypes
  BY DEF Inv, HandleInv, Frames
<1>2. ASSUME NEW ch \in Chans, NEW pc \in {"close", "read?", "send", "accept"}, Call(t, ch, pc),
             made[ch] # NoOne,
             pc = "accept" => ch = Server /\ backlog # <<>>,
             pc \in {"read?", "send"} => ch \in Clients,
             pc \in {"send", "accept"} => sock_[ch] # no_socket,
             UNCHANGED <<kernel, objects, set>>
      PROVE  Inv'
  <2>1. pc \in Making \cup Using /\ pc \in Using /\ pc \notin {"recv", "listen", "connect", "closed", "idle"}
    BY DEF Using
  <2>2. PICK f : Fits(f) /\ Moves(t, f) /\ f.pc = pc /\ f.ch = ch /\ frame[t].pc = "idle"
    BY <1>1, <1>2, <2>1, CallMoves
  <2>3. UNCHANGED <<table, sock_, made, peer, backlog>>
    BY <1>2 DEF kernel, objects
  <2>4. HandleInv' /\ Stable
    BY <1>1, <1>2, <2>1, <2>2, <2>3, UsingStep
  <2>5. \A d \in Clients : Receiving(d)' => Receiving(d)
    BY <1>1, <1>2, <2>1, ReceivingKept
  <2>6. QED
    BY <1>2, <2>4, <2>5, CarriedUsing DEF kernel, objects, set
<1>3. ASSUME NEW ch \in Chans, Construct(t, ch) PROVE Inv'
  <2>1. HandleInv' /\ Stable
    BY <1>1, <1>3, ConstructStep
  <2>2. \A d \in Clients : Receiving(d)' => Receiving(d)
    <3>1. \E pc \in Making \cup Using : pc # "recv" /\ Call(t, ch, pc)
      BY <1>3 DEF Construct, Making
    <3>2. QED
      BY <1>1, <3>1, ReceivingKept
  <2>3. QED
    BY <1>3, <2>1, <2>2, CarriedUsing DEF Construct, set
<1>4. ASSUME NEW ch \in Chans, close(t, ch) PROVE Inv'
  BY <1>2, <1>4 DEF close
<1>5. ASSUME NEW ch \in Chans, read(t, ch) PROVE Inv'
  BY <1>2, <1>5 DEF read
<1>6. ASSUME NEW ch \in Chans, write(t, ch) PROVE Inv'
  BY <1>2, <1>6 DEF write
<1>7. CASE AcceptCall(t)
  <2>1. /\ Call(t, Server, "accept") /\ made[Server] # NoOne /\ sock_[Server] # no_socket
        /\ SelectsOne(sock_[Server]) = 1 /\ UNCHANGED <<kernel, objects, set>>
    BY <1>7 DEF AcceptCall
  <2>2. Server \in Chans /\ frame[t].pc = "idle" /\ \A u \in Threads : frame[u].ch # Server
    BY <2>1 DEF Chans, Call, At
  <2>3. IsOpen(Server) /\ made[Server] = "listener"
    BY <1>1, <2>1, <2>2 DEF IsOpen, Closing, HandleTypes
  <2>4. table[sock_[Server]] = "listener"
    BY <1>1, <2>1, <2>2, <2>3 DEF HandleInv, Handled
  <2>5. Readable("listener")
    BY <2>1, <2>4 DEF SelectsOne
  <2>6. backlog # <<>>
    BY <2>5 DEF Readable
  <2>7. QED
    BY <2>1, <2>2, <2>6, <1>2
<1>8. QED
  BY <1>3, <1>4, <1>5, <1>6, <1>7 DEF Calls

\* The steps that make a socket and do not.
LEMMA MakeStep ==
    ASSUME Inv, NEW t \in Threads, Listen(t) \/ Connect(t)
    PROVE  Inv'
<1>1. HandleInv /\ FrameTypes /\ OneUser /\ HandleTypes
  BY DEF Inv, HandleInv, Frames
<1>2. Return(t) /\ frame[t].pc \in Making /\ UNCHANGED <<sent, got, set>>
  BY DEF Listen, Connect, At, Making
<1>3. \A d \in Clients : Receiving(d)' => Receiving(d)
  BY <1>1, <1>2, ReceivingKept
<1>4. PICK ch \in Chans : ch = frame[t].ch
  BY <1>1, <1>2 DEF FrameTypes, Making
<1>5. CASE Fails(t, ch) /\ UNCHANGED <<made, peer>>
  <2>1. HandleInv' /\ Stable /\ UNCHANGED <<inbound, backlog>>
    BY <1>1, <1>2, <1>4, <1>5, FailsStep
  <2>2. QED
    BY <1>2, <1>3, <1>5, <2>1, CarriedUsing DEF set
<1>6. ASSUME NEW x, table' = [table EXCEPT ![sock_[ch]] = x],
             made' = [made EXCEPT ![ch] = x],
             UNCHANGED <<sock_, backlog, inbound>>,
             \/ x = "listener" /\ ch = Server /\ peer' = peer
             \/ x \in Unused /\ ch \in Clients /\ peer' = [peer EXCEPT ![x] = "open"]
      PROVE  Inv'
  <2>1. HandleInv' /\ Stable
    BY <1>1, <1>2, <1>4, <1>6, SucceedsStep
  <2>2. made[ch] = NoOne /\ HandleTypes'
    BY <1>2, <1>4, <2>1 DEF Inv, HandleInv, Frames, Knows
  <2>3. x \in Unused => x \in Conns /\ peer[x] = "none" /\ \A d \in Chans : made[d] # x
    BY DEF Unused, Inv, HandleInv, Connected
  <2>4. \A c \in Conns : peer[c] = "closed" => peer'[c] = "closed"
    <3>1. peer \in [Conns -> {"none", "open", "closed"}]
      BY DEF Inv, HandleInv, Connected
    <3>2. QED
      BY <1>6, <2>3, <3>1
  <2>5. Carried'
    <3>1. Carried
      BY DEF Inv
    <3>2. \/ x = "listener" /\ ch = Server
          \/ x \in Conns /\ ch \in Clients /\ \A d \in Chans : made[d] # x
      BY <1>6, <2>3
    <3>3. UNCHANGED <<sent, inbound, got>>
      BY <1>2, <1>6
    <3>4. QED
      BY <1>1, <1>3, <1>6, <2>1, <2>2, <2>4, <3>1, <3>2, <3>3, CarriedMade
  <2>6. Copied'
    BY <1>1, <1>2, <2>1, CopiedKept DEF Inv, set
  <2>7. QED
    BY <2>1, <2>5, <2>6 DEF Inv
<1>7. CASE Listen(t)
  <2>1. ch = Server
    BY <1>1, <1>4, <1>7 DEF Listen, At, FrameTypes
  <2>2. CASE Fails(t, Server) /\ UNCHANGED made
    BY <1>5, <1>7, <2>1, <2>2 DEF Listen
  <2>3. CASE /\ table' = [table EXCEPT ![sock_[Server]] = "listener"]
             /\ made' = [made EXCEPT ![Server] = "listener"]
             /\ UNCHANGED <<sock_, inbound, backlog>>
    BY <1>6, <1>7, <2>1, <2>3 DEF Listen
  <2>4. QED
    BY <1>7, <2>2, <2>3 DEF Listen
<1>8. CASE Connect(t)
  <2>1. ch \in Clients
    BY <1>1, <1>4, <1>8 DEF Connect, At, FrameTypes
  <2>2. CASE Fails(t, ch) /\ UNCHANGED <<made, peer>>
    BY <1>5, <2>2
  <2>3. CASE /\ Unused # {}
             /\ LET c == CHOOSE x \in Unused : TRUE
                IN  /\ table' = [table EXCEPT ![sock_[ch]] = c]
                    /\ peer' = [peer EXCEPT ![c] = "open"]
                    /\ made' = [made EXCEPT ![ch] = c]
             /\ UNCHANGED <<sock_, inbound, backlog>>
    <3>1. PICK c \in Unused : c = CHOOSE x \in Unused : TRUE
      BY <2>3
    <3>2. /\ table' = [table EXCEPT ![sock_[ch]] = c]
          /\ peer' = [peer EXCEPT ![c] = "open"]
          /\ made' = [made EXCEPT ![ch] = c]
          /\ UNCHANGED <<sock_, inbound, backlog>>
      BY <2>3, <3>1
    <3>3. QED
      BY <1>6, <2>1, <3>2
  <2>4. QED
    BY <1>4, <1>8, <2>2, <2>3 DEF Connect
<1>9. QED
  BY <1>7, <1>8

\* The steps of close(), and of the read that finds that the peer has gone.
LEMMA CloseStep ==
    ASSUME Inv, NEW t \in Threads, do_close(t)
    PROVE  Inv'
<1>1. HandleInv /\ FrameTypes /\ OneUser /\ HandleTypes /\ Connected
  BY DEF Inv, HandleInv, Frames
<1>2. frame[t].pc \in Using /\ UNCHANGED <<sent, got, made, peer, set>>
  BY DEF do_close, At, Using, objects, kernel
<1>3. PICK ch \in Chans : ch = frame[t].ch
  BY <1>1, <1>2 DEF FrameTypes, Using
<1>4. made[ch] # NoOne
  BY <1>1, <1>2, <1>3 DEF HandleInv, Frames, Knows
<1>5. CASE frame[t].pc = "close" /\ Return(t) /\ UNCHANGED <<table, backlog, sock_, inbound>>
  <2>1. Fits(Idle) /\ Moves(t, Idle) /\ Idle.pc = "idle" /\ Idle.ch = NoOne
    BY <1>1, <1>5, ReturnMoves
  <2>2. HandleInv' /\ Stable
    BY <1>1, <1>2, <1>5, <2>1, UsingStep DEF Using
  <2>3. \A d \in Clients : Receiving(d)' => Receiving(d)
    BY <1>1, <1>5, ReceivingKept
  <2>4. QED
    BY <1>2, <1>5, <2>2, <2>3, CarriedUsing DEF set
<1>6. CASE /\ frame[t].pc = "close" /\ sock_[ch] # no_socket
           /\ Goto(t, "closed") /\ ClosesHandle(sock_[ch]) /\ UNCHANGED sock_
  <2>1. /\ HandleInv' /\ Stable /\ ~IsOpen(ch)'
        /\ inbound' = IF made[ch] \in Conns THEN [inbound EXCEPT ![made[ch]] = <<>>] ELSE inbound
    BY <1>1, <1>2, <1>3, <1>6, ClosesStep
  <2>2. \A d \in Clients : Receiving(d)' => Receiving(d) /\ d # ch
    BY <1>1, <1>3, <1>6, ReceivingKept DEF Using
  <2>3. Carried'
    BY <1>1, <1>2, <1>4, <2>1, <2>2, CarriedClosed DEF Inv, HandleInv
  <2>4. Copied'
    BY <1>1, <1>2, <2>1, CopiedKept DEF Inv, set
  <2>5. QED
    BY <2>1, <2>3, <2>4 DEF Inv
<1>7. CASE /\ frame[t].pc = "closed" /\ Return(t)
           /\ sock_' = [sock_ EXCEPT ![ch] = no_socket] /\ UNCHANGED <<table, backlog, inbound>>
  <2>1. HandleInv' /\ Stable
    BY <1>1, <1>2, <1>3, <1>7, ForgetsStep
  <2>2. \A d \in Clients : Receiving(d)' => Receiving(d)
    BY <1>1, <1>7, ReceivingKept
  <2>3. QED
    BY <1>2, <1>7, <2>1, <2>2, CarriedUsing DEF set
<1>8. \/ frame[t].pc = "close" /\ Return(t) /\ UNCHANGED <<table, backlog, sock_, inbound>>
      \/ /\ frame[t].pc = "close" /\ sock_[ch] # no_socket
         /\ Goto(t, "closed") /\ ClosesHandle(sock_[ch]) /\ UNCHANGED sock_
      \/ /\ frame[t].pc = "closed" /\ Return(t)
         /\ sock_' = [sock_ EXCEPT ![ch] = no_socket] /\ UNCHANGED <<table, backlog, inbound>>
  BY <1>3 DEF do_close, At, objects, kernel
<1>9. QED
  BY <1>5, <1>6, <1>7, <1>8

\* The steps of read().
LEMMA ReadStep ==
    ASSUME Inv, NEW t \in Threads, do_read(t)
    PROVE  Inv'
<1>1. HandleInv /\ FrameTypes /\ OneUser /\ HandleTypes /\ Connected
  BY DEF Inv, HandleInv, Frames
<1>2. /\ frame[t].pc \in {"read?", "recv"} /\ frame[t].pc \in (Using \cup {"idle"}) \ {"closed"}
      /\ UNCHANGED <<table, backlog, peer, sent, sock_, made, set>>
  BY DEF do_read, At, Using, objects, kernel
<1>3. PICK ch \in Clients : ch = frame[t].ch
  BY <1>1, <1>2 DEF FrameTypes
<1>4. ch \in Chans /\ ch # NoOne /\ made[ch] # NoOne /\ made[ch] \in Conns
  BY <1>1, <1>2, <1>3 DEF HandleInv, Frames, Knows, HandleTypes, Chans
<1>5. CASE Return(t)
  <2>1. Fits(Idle) /\ Moves(t, Idle) /\ Idle.pc = "idle" /\ Idle.ch = NoOne
    BY <1>1, <1>5, ReturnMoves
  <2>2. HandleInv' /\ Stable
    BY <1>1, <1>2, <1>5, <2>1, UsingStep
  <2>3. \A d \in Clients : Receiving(d)' => Receiving(d) /\ d # ch
    BY <1>1, <1>3, <1>5, ReceivingKept
  <2>4. CASE UNCHANGED <<got, inbound>>
    BY <1>2, <2>2, <2>3, <2>4, CarriedUsing DEF set
  <2>5. CASE frame[t].pc = "recv" /\ ~UNCHANGED <<got, inbound>>
    <3>1. IsOpen(ch)
      <4>1. sock_[ch] # no_socket /\ frame[t].pc \in (Making \cup Using) \ {"closed"}
        BY <1>1, <1>3, <2>5 DEF HandleInv, Frames, Knows, Using
      <4>2. QED
        BY <1>1, <1>3, <4>1, OpenAt
    <3>2. table[sock_[ch]] = made[ch]
      BY <1>1, <1>4, <3>1 DEF HandleInv, Handled
    <3>3. PICK n \in 1 .. Len(inbound[made[ch]]) :
            /\ got' = [got EXCEPT ![ch] = @ \o SubSeq(inbound[made[ch]], 1, n)]
            /\ inbound' = [inbound EXCEPT ![made[ch]] = SubSeq(@, n + 1, Len(@))]
      BY <1>3, <2>5, <3>2 DEF do_read, At
    <3>4. Carried'
      BY <1>1, <1>2, <1>4, <2>2, <2>3, <3>1, <3>3, CarriedReceives DEF Inv, HandleInv
    <3>5. Copied'
      BY <1>1, <1>2, <2>2, CopiedKept DEF Inv, set
    <3>6. QED
      BY <2>2, <3>4, <3>5 DEF Inv
  <2>6. frame[t].pc = "read?" => UNCHANGED <<got, inbound>>
    BY DEF do_read, At, kernel, objects
  <2>7. QED
    BY <1>2, <2>4, <2>5, <2>6
<1>6. CASE /\ frame[t].pc = "read?" /\ Goto(t, "recv")
           /\ sock_[ch] # no_socket /\ SelectsOne(sock_[ch]) = 1
           /\ UNCHANGED <<got, inbound>>
  <2>1. PICK f : Fits(f) /\ Moves(t, f) /\ f.pc = "recv" /\ f.ch = ch
    BY <1>1, <1>3, <1>6, GotoMoves DEF Using
  <2>2. HandleInv' /\ Stable
    BY <1>1, <1>2, <1>4, <1>6, <2>1, UsingStep DEF Using
  <2>3. \A u \in Threads \ {t} : frame'[u] = frame[u]
    BY <1>1, <2>1, MovesFrames
  <2>4. inbound[made[ch]] # <<>> \/ peer[made[ch]] = "closed"
    <3>1. IsOpen(ch)
      BY <1>1, <1>3, <1>6, OpenAt DEF Using
    <3>2. table[sock_[ch]] = made[ch]
      BY <1>1, <1>4, <3>1 DEF HandleInv, Handled
    <3>3. Readable(made[ch])
      BY <1>6, <3>2 DEF SelectsOne
    <3>4. made[ch] # "listener"
      BY <1>1 DEF HandleTypes
    <3>5. QED
      BY <3>3, <3>4 DEF Readable
  <2>5. ASSUME NEW d \in Clients, Receiving(d)'
        PROVE  Receiving(d) \/ inbound[made[d]] # <<>> \/ peer[made[d]] = "closed"
    <3>1. CASE d = ch
      BY <2>4, <3>1
    <3>2. CASE d # ch
      <4>1. frame'[t].ch = ch
        BY <1>1, <2>1, MovesFrames
      <4>2. QED
        BY <2>3, <2>5, <3>2, <4>1 DEF Receiving, At
    <3>3. QED
      BY <3>1, <3>2
  <2>6. Carried'
    <3>1. Carried /\ HandleTypes'
      BY <2>2 DEF Inv, HandleInv
    <3>2. QED
      BY <1>1, <1>2, <1>6, <2>2, <2>5, <3>1, CarriedKept
  <2>7. Copied'
    BY <1>1, <1>2, <2>2, CopiedKept DEF Inv, set
  <2>8. QED
    BY <2>2, <2>6, <2>7 DEF Inv
<1>7. CASE frame[t].pc = "recv" /\ Goto(t, "close") /\ UNCHANGED <<got, inbound>>
  <2>1. PICK f : Fits(f) /\ Moves(t, f) /\ f.pc = "close" /\ f.ch = ch
    BY <1>1, <1>3, <1>7, GotoMoves DEF Using
  <2>2. HandleInv' /\ Stable
    BY <1>1, <1>2, <1>4, <2>1, UsingStep DEF Using
  <2>3. \A d \in Clients : Receiving(d)' => Receiving(d)
    BY <1>1, <1>7, ReceivingKept DEF Using
  <2>4. QED
    BY <1>2, <1>7, <2>2, <2>3, CarriedUsing DEF set
<1>8. \/ Return(t)
      \/ /\ frame[t].pc = "read?" /\ Goto(t, "recv")
         /\ sock_[ch] # no_socket /\ SelectsOne(sock_[ch]) = 1
         /\ UNCHANGED <<got, inbound>>
      \/ frame[t].pc = "recv" /\ Goto(t, "close") /\ UNCHANGED <<got, inbound>>
  BY <1>3 DEF do_read, At, kernel, objects
<1>9. QED
  BY <1>5, <1>6, <1>7, <1>8

\* A connection never holds more than it has room for.
Held == held \in [Conns -> 0 .. Room]

\* What a send() takes is some of the message, and there is room for it.
LEMMA SendsSome ==
    ASSUME Held, NEW c \in Conns
    PROVE  LET n == Lowest({Message, Room - held[c]})
           IN  n \in Nat /\ n <= Message /\ n <= Room - held[c] /\ n \in {Message, Room - held[c]}
<1>1. {Message, Room - held[c]} \subseteq Nat
  BY DEF Held
<1>2. QED
  BY <1>1, LowestIn

\* A count that wraps is a number.
LEMMA ModNat == \A x \in Int : x % SizeMod \in Nat
  OBVIOUS

\* A connection never holds more than it has room for.
LEMMA HeldStep ==
    ASSUME Held, [Next]_vars
    PROVE  Held'
<1>1. ASSUME NEW t \in Threads, do_write(t) PROVE Held'
  <2> DEFINE c == table[sock_[frame[t].ch]]
             n == Lowest({Message, Room - held[c]})
  <2>1. held' = held \/ held' = [held EXCEPT ![c] = @ + n]
    BY <1>1 DEF do_write
  <2>2. CASE c \in Conns
    <3>1. n \in Nat /\ n <= Room - held[c]
      BY <2>2, SendsSome
    <3> HIDE DEF n, c
    <3>2. QED
      BY <2>1, <2>2, <3>1 DEF Held
  <2>3. CASE c \notin Conns
    <3> HIDE DEF n, c
    <3>1. QED
      BY <2>1, <2>3 DEF Held
  <2>4. QED
    BY <2>2, <2>3
<1>2. ASSUME NEW c \in Conns, PeerTakes(c) PROVE Held'
  BY <1>2 DEF PeerTakes, Held
<1>3. CASE UNCHANGED held
  BY <1>3 DEF Held
<1>4. ASSUME NEW t \in Threads, GoesOn(t) PROVE Held'
  BY <1>1, <1>3, <1>4 DEF GoesOn, Listen, Connect, do_close, do_read, Accept, kernel
<1>5. ASSUME NEW t \in Threads, Calls(t) PROVE Held'
  BY <1>3, <1>5 DEF Calls, Construct, close, read, write, AcceptCall, kernel
<1>6. CASE UsesSet
  BY <1>3, <1>6 DEF UsesSet, insert, erase, clear, CloseSet, do_wait_for, ReadSet, SetCall, kernel
<1>7. CASE Peers
  BY <1>2, <1>3, <1>7 DEF Peers, PeerConnects, PeerSends, PeerCloses
<1>8. QED
  BY <1>3, <1>4, <1>5, <1>6, <1>7 DEF Next, vars, kernel

\* The connection that a send() goes to is the client's own.
LEMMA SendsTo ==
    ASSUME Inv, NEW t \in Threads, frame[t].pc = "send"
    PROVE  /\ frame[t].ch \in Clients /\ made[frame[t].ch] \in Conns
           /\ table[sock_[frame[t].ch]] = made[frame[t].ch]
<1>1. PICK ch \in Clients : ch = frame[t].ch
  BY DEF Inv, HandleInv, FrameTypes
<1>2. made[ch] # NoOne /\ sock_[ch] # no_socket
  BY <1>1 DEF Inv, HandleInv, Frames, Knows, Using
<1>3. IsOpen(ch)
  BY <1>1, <1>2, OpenAt DEF Inv, Making, Using
<1>4. ch \in Chans
  BY DEF Chans
<1>5. table[sock_[ch]] = made[ch] /\ made[ch] \in Conns
  BY <1>2, <1>3, <1>4 DEF Inv, HandleInv, Handled, HandleTypes
<1>6. QED
  BY <1>1, <1>5

\* A send() changes what has arrived and what was asked for, and no handle.
LEMMA WriteStep ==
    ASSUME Inv, Held, NEW t \in Threads, do_write(t)
    PROVE  Inv'
<1>1. HandleInv /\ FrameTypes /\ OneUser /\ HandleTypes
  BY DEF Inv, HandleInv, Frames
<1>2. /\ frame[t].pc = "send" /\ frame[t].pc \in (Using \cup {"idle"}) \ {"closed"}
      /\ UNCHANGED <<table, backlog, peer, sent, inbound, sock_, made, got, set>>
  BY DEF do_write, At, Using
<1>3. frame[t].ch \in Chans /\ frame[t].ch # NoOne /\ made[frame[t].ch] # NoOne /\ sock_[frame[t].ch] # no_socket
  BY <1>1, <1>2 DEF HandleInv, FrameTypes, Frames, Knows
<1>4. Return(t) \/ \E w \in Nat : frame' = [frame EXCEPT ![t].written = w]
  <2>1. PICK c \in Conns : c = table[sock_[frame[t].ch]]
    BY <1>1, <1>2, <1>3, SendsTo DEF Making, Using
  <2>2. PICK n \in Int : n = Lowest({Message, Room - held[c]})
    BY SendsSome
  <2>3. PICK m \in Int : m = IF n > 0 THEN n ELSE SizeMod - 1
    OBVIOUS
  <2>4. frame[t].written \in Nat
    BY <1>1 DEF FrameTypes
  <2>5. PICK w \in Nat : w = (frame[t].written + m) % SizeMod
    BY <2>4, ModNat
  <2>6. \/ frame' = [frame EXCEPT ![t].written = w]
        \/ Return(t)
    BY <2>1, <2>2, <2>3, <2>5 DEF do_write
  <2>7. QED
    BY <2>6
<1>5. \E f : Fits(f) /\ Moves(t, f) /\ (f = Idle \/ (f.pc = "send" /\ f.ch = frame[t].ch))
  <2>1. CASE Return(t)
    <3>1. Fits(Idle) /\ Moves(t, Idle)
      BY <1>1, <2>1, ReturnMoves
    <3>2. QED
      BY <3>1
  <2>2. ASSUME NEW w \in Nat, frame' = [frame EXCEPT ![t].written = w]
        PROVE  \E f : Fits(f) /\ Moves(t, f) /\ f.pc = "send" /\ f.ch = frame[t].ch
    <3> DEFINE f == [frame[t] EXCEPT !.written = w]
    <3>1. Fits(frame[t]) /\ frame[t] \in Frame
      BY <1>1, FrameFits DEF Fits
    <3>2. f \in Frame /\ f.pc = frame[t].pc /\ f.ch = frame[t].ch
      BY <3>1 DEF Frame
    <3>3. Fits(f)
      BY <3>1, <3>2 DEF Fits
    <3>4. Moves(t, f)
      BY <2>2, <3>2 DEF Moves
    <3>5. QED
      BY <1>2, <3>2, <3>3, <3>4
  <2>3. QED
    BY <1>4, <2>1, <2>2
<1>6. PICK f : Fits(f) /\ Moves(t, f) /\ (f = Idle \/ (f.pc = "send" /\ f.ch = frame[t].ch))
  BY <1>5
<1>7. Idle.pc = "idle"
  BY DEF Idle
<1>8. HandleInv' /\ Stable
  BY <1>1, <1>2, <1>3, <1>6, <1>7, UsingStep DEF Using
<1>9. \A d \in Clients : Receiving(d)' => Receiving(d)
  BY <1>1, <1>6, <1>7, MovesFrames DEF Receiving, At
<1>10. QED
  BY <1>2, <1>8, <1>9, CarriedUsing DEF set

\* Peers come, send, take and go.
LEMMA PeersStep ==
    ASSUME Inv, Peers
    PROVE  Inv'
<1>1. HandleInv /\ FrameTypes /\ OneUser /\ HandleTypes /\ Connected
  BY DEF Inv, HandleInv, Frames
<1>2. UNCHANGED <<table, sock_, made, got, frame, channels_, natives_, current_>>
  BY DEF Peers, PeerConnects, PeerSends, PeerTakes, PeerCloses, objects, set
<1>3. \A ch \in Chans : (IsOpen(ch)' <=> IsOpen(ch))
  BY <1>2 DEF IsOpen, Closing, At
<1>4. HandleTypes' /\ FrameTypes' /\ Stable /\ Handled'
  BY <1>1, <1>2, <1>3, HandledKept DEF HandleInv, HandleTypes, FrameTypes, Stable
<1>5. \A d \in Clients : Receiving(d)' <=> Receiving(d)
  BY <1>2 DEF Receiving, At
<1>6. backlog # <<>> => backlog' # <<>>
  <2>1. \A c \in Conns : Append(backlog, c) # <<>>
    BY <1>1 DEF Connected
  <2>2. CASE PeerConnects
    <3>1. PICK c \in Unused : backlog' = Append(backlog, c)
      BY <2>2 DEF PeerConnects
    <3>2. QED
      BY <2>1, <3>1 DEF Unused
  <2>3. CASE UNCHANGED backlog
    BY <2>3
  <2>4. QED
    BY <2>2, <2>3 DEF Peers, PeerSends, PeerTakes, PeerCloses
<1>7. Frames'
  BY <1>1, <1>2, <1>6 DEF HandleInv, Frames, OneUser, Knows, Unborn
<1>8. \/ \E c \in Unused : /\ backlog' = Append(backlog, c) /\ peer' = [peer EXCEPT ![c] = "open"]
                           /\ UNCHANGED <<sent, inbound>>
      \/ \E c \in Conns : PeerSends(c) /\ UNCHANGED <<backlog, peer>>
      \/ \E c \in Conns : /\ peer' = [peer EXCEPT ![c] = "closed"]
                          /\ UNCHANGED <<backlog, sent, inbound>>
      \/ UNCHANGED <<backlog, peer, sent, inbound>>
  <2>1. CASE PeerConnects
    <3>1. PICK c \in Unused : c = CHOOSE x \in Unused : TRUE
      BY <2>1 DEF PeerConnects
    <3>2. QED
      BY <2>1, <3>1 DEF PeerConnects
  <2>2. QED
    BY <2>1 DEF Peers, PeerSends, PeerTakes, PeerCloses
<1>9. Connected'
  BY <1>1, <1>2, <1>8, ConnectedPeers
<1>10. \A c \in Conns : peer[c] = "closed" => peer'[c] = "closed"
  <2>1. peer \in [Conns -> {"none", "open", "closed"}]
    BY <1>1 DEF Connected
  <2>2. ASSUME NEW c \in Unused, peer' = [peer EXCEPT ![c] = "open"]
        PROVE  \A d \in Conns : peer[d] = "closed" => peer'[d] = "closed"
    BY <2>1, <2>2 DEF Unused
  <2>3. ASSUME NEW c \in Conns, peer' = [peer EXCEPT ![c] = "closed"]
        PROVE  \A d \in Conns : peer[d] = "closed" => peer'[d] = "closed"
    BY <2>1, <2>3
  <2>4. QED
    BY <1>8, <2>2, <2>3
<1>11. Carried'
  <2>1. Carried
    BY DEF Inv
  <2>2. CASE \E c \in Conns : PeerSends(c)
    BY <1>1, <1>4, <1>5, <2>1, <2>2, CarriedSent
  <2>3. CASE UNCHANGED <<sent, inbound>>
    BY <1>1, <1>2, <1>4, <1>5, <1>10, <2>1, <2>3, CarriedKept
  <2>4. QED
    BY <1>8, <2>2, <2>3
<1>12. Copied'
  BY <1>1, <1>2, <1>4, CopiedKept DEF Inv
<1>13. QED
  BY <1>4, <1>7, <1>9, <1>11, <1>12 DEF Inv, HandleInv

\* A connection that the server takes has its client from then on.
LEMMA TakeStep ==
    ASSUME Inv, NEW t \in Threads, Accept(t)
    PROVE  Inv'
<1>1. HandleInv /\ FrameTypes /\ OneUser /\ HandleTypes
  BY DEF Inv, HandleInv, Frames
<1>2. Return(t) /\ UNCHANGED <<peer, sent, inbound, got, set>>
  BY DEF Accept
<1>3. \A d \in Clients : Receiving(d)' => Receiving(d)
  BY <1>1, <1>2, ReceivingKept
<1>4. /\ HandleInv' /\ Stable
      /\ \/ made' = made
         \/ \E ch \in Clients : /\ made[ch] = NoOne /\ Head(backlog) \in Conns
                                /\ \A d \in Chans : made[d] # Head(backlog)
                                /\ made' = [made EXCEPT ![ch] = Head(backlog)]
  BY <1>1, AcceptStep
<1>5. CASE made' = made
  BY <1>2, <1>3, <1>4, <1>5, CarriedUsing DEF set
<1>6. ASSUME NEW ch \in Clients, made[ch] = NoOne, Head(backlog) \in Conns,
             \A d \in Chans : made[d] # Head(backlog),
             made' = [made EXCEPT ![ch] = Head(backlog)]
      PROVE  Inv'
  <2>1. Carried /\ HandleTypes' /\ ch \in Chans
    BY <1>4 DEF Inv, HandleInv, Chans
  <2>2. Carried'
    BY <1>1, <1>2, <1>3, <1>4, <1>6, <2>1, CarriedMade
  <2>3. Copied'
    BY <1>1, <1>2, <1>4, CopiedKept DEF Inv, set
  <2>4. QED
    BY <1>4, <2>2, <2>3 DEF Inv
<1>7. QED
  BY <1>4, <1>5, <1>6

\* Every step keeps the invariant.
LEMMA InvStep ==
    ASSUME Inv, Held, [Next]_vars
    PROVE  Inv'
<1>7. ASSUME Copied', UNCHANGED <<kernel, objects, frame>> PROVE Inv'
  <2>1. Copied' /\ UNCHANGED <<kernel, objects, frame>>
    BY <1>7
  <2>2. \A ch \in Chans : IsOpen(ch)' <=> IsOpen(ch)
    BY <2>1 DEF objects, IsOpen, Closing, At
  <2>3. HandleTypes' /\ FrameTypes' /\ Frames' /\ Connected'
    BY <2>1 DEF kernel, objects, Inv, HandleInv, HandleTypes, FrameTypes, Frames, OneUser, Knows,
       Unborn, Connected
  <2>4. Handled' /\ Stable
    BY <2>1, <2>2, HandledKept DEF kernel, objects, Inv, HandleInv, Stable
  <2>5. Carried'
    <3>1. \A d \in Clients : Receiving(d)' => Receiving(d)
      BY <2>1 DEF Receiving, At
    <3>2. Carried /\ HandleTypes /\ Connected
      BY DEF Inv, HandleInv
    <3>3. UNCHANGED <<sent, inbound, got, made, peer>>
      BY <2>1 DEF kernel, objects
    <3>4. QED
      BY <2>3, <2>4, <3>1, <3>2, <3>3, CarriedKept
  <2>6. QED
    BY <2>1, <2>3, <2>4, <2>5 DEF Inv, HandleInv
<1>1. CASE UNCHANGED vars
  <2>1. \A ch \in Chans : IsOpen(ch)' <=> IsOpen(ch)
    BY <1>1 DEF vars, objects, IsOpen, Closing, At
  <2>2. Stable
    BY <1>1, <2>1 DEF vars, objects, Stable
  <2>3. Copied'
    BY <1>1, <2>2, CopiedKept DEF Inv, HandleInv, vars, set
  <2>4. QED
    BY <1>1, <1>7, <2>3 DEF vars
<1>2. ASSUME NEW t \in Threads, GoesOn(t) PROVE Inv'
  BY <1>2, MakeStep, CloseStep, ReadStep, WriteStep, TakeStep DEF GoesOn
<1>3. ASSUME NEW t \in Threads, Calls(t) PROVE Inv'
  BY <1>3, CallStep
<1>4. CASE UsesSet
  BY <1>4, <1>7, SetStep DEF Inv, HandleInv
<1>5. CASE Peers
  BY <1>5, PeersStep
<1>6. QED
  BY <1>1, <1>2, <1>3, <1>4, <1>5 DEF Next

\* At first there is nothing.
LEMMA InitInv == Init => Inv /\ Held
<1> SUFFICES ASSUME Init PROVE Inv /\ Held
  OBVIOUS
<1>1. /\ table = [h \in Handles |-> "free"] /\ backlog = <<>> /\ peer = [c \in Conns |-> "none"]
      /\ sent = [c \in Conns |-> <<>>] /\ inbound = sent /\ held = [c \in Conns |-> 0]
      /\ sock_ = [ch \in Chans |-> no_socket] /\ made = [ch \in Chans |-> NoOne]
      /\ got = [ch \in Chans |-> <<>>]
      /\ channels_ = <<>> /\ natives_ = <<>> /\ current_ = NoOne
      /\ frame = [t \in Threads |-> Idle]
  BY DEF Init
<1>2. \A S : <<>> \in Seq(S)
  OBVIOUS
<1>3. HandleTypes
  BY <1>1 DEF HandleTypes, Chans
<1>4. FrameTypes
  BY <1>1 DEF FrameTypes, Idle, Making, Using
<1>5. Frames
  BY <1>1 DEF Frames, OneUser, Knows, Unborn, Idle, Making, Using
<1>6. Connected
  BY <1>1, <1>2 DEF Connected
<1>7. Handled
  BY <1>1 DEF Handled, IsOpen
<1>8. Carried
  <2>1. OwnBytes
    BY <1>1 DEF OwnBytes, Chans
  <2>2. QED
    BY <1>1, <1>2, <2>1 DEF Carried
<1>9. Copied
  BY <1>1, <1>2 DEF Copied, NoDangling
<1>10. Held
  BY <1>1 DEF Held
<1>11. QED
  BY <1>3, <1>4, <1>5, <1>6, <1>7, <1>8, <1>9, <1>10 DEF Inv, HandleInv

\* However sockets are made, used, closed and made again, the invariant holds.
THEOREM Invariance == Spec => [](Inv /\ Held)
<1>1. Inv /\ Held /\ [Next]_vars => Inv' /\ Held'
  BY InvStep, HeldStep
<1>2. QED
  BY <1>1, InitInv, PTL DEF Spec

\* A handle that is open stands for its own socket and nothing else has it,
\* although the system gives the number of a closed socket to the next.
THEOREM HandlesAreOwn == Spec => []HandleIsOwn
<1>1. Inv => HandleIsOwn
  <2> SUFFICES ASSUME Inv PROVE HandleIsOwn
    OBVIOUS
  <2>1. HandleTypes /\ Handled
    BY DEF Inv, HandleInv
  <2>2. \A h \in Handles \ Free : table[h] # "free"
    BY DEF Free
  <2> HIDE DEF IsOpen
  <2>3. \A ch \in Chans : made[ch] # NoOne /\ IsOpen(ch) => table[sock_[ch]] = made[ch]
    BY <2>1 DEF Handled
  <2>4. \A h \in Handles \ Free : \E ch \in Chans : sock_[ch] = h
    BY <2>1, <2>2 DEF Handled
  <2>5. QED
    BY <2>1, <2>3, <2>4 DEF HandleIsOwn, Handled
<1>2. QED
  BY <1>1, Invariance, PTL

\* A socket reads the bytes of its own peer, in order, each once.
THEOREM ReadsItsOwn == Spec => []OwnBytes
<1>1. Inv => OwnBytes
  BY DEF Inv, Carried
<1>2. QED
  BY <1>1, Invariance, PTL

\* A SocketSet keeps no pointer to a channel that has left it, and chooses a
\* channel only if it is readable or closed, though its handles are copies.
THEOREM SetsAreTruthful == Spec => []SetTruthful
<1>1. Inv => SetTruthful
  <2> SUFFICES ASSUME Inv PROVE SetTruthful
    OBVIOUS
  <2>1. HandleTypes /\ Handled /\ Copied
    BY DEF Inv, HandleInv
  <2>2. SetTellsTruth
    <3> SUFFICES ASSUME Selects > 0 PROVE Deserves(channels_[Selects])
      BY DEF SetTellsTruth
    <3>1. /\ Selects \in DOMAIN channels_ /\ natives_[Selects] # no_socket
          /\ Readable(table[natives_[Selects]])
      BY <2>1, SelectsReady
    <3>2. PICK ch \in Chans : ch = channels_[Selects]
      BY <2>1, <3>1 DEF Copied
    <3>3. made[ch] # NoOne /\ (natives_[Selects] = sock_[ch] \/ ~IsOpen(ch))
      BY <2>1, <3>1, <3>2 DEF Copied
    <3>4. IsOpen(ch) => Readable(made[ch])
      BY <2>1, <3>1, <3>3 DEF Handled
    <3>5. QED
      BY <3>1, <3>2, <3>4 DEF Deserves, Range
  <2>3. QED
    BY <2>1, <2>2 DEF SetTruthful, Copied
<1>2. QED
  BY <1>1, Invariance, PTL
=============================================================================
