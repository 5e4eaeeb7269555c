------------------------------ MODULE IoStream ------------------------------
(***************************************************************************)
(* The reading and writing of text that IoBase builds on read() and write()*)
(* (stdio.hpp, stdio.cpp), and Cstdio::read_line(), which has a loop of    *)
(* its own around fgets().  A thread writes to a pipe (Fdio::pipe())       *)
(* through one object while another reads from it through another.  The    *)
(* pipe holds few bytes; write() moves bytes while there is room and       *)
(* returns early if a signal comes, and read() returns what there is.      *)
(***************************************************************************)
EXTENDS TextLines

CONSTANTS Nul,        \* the character '\0'
          block_size, small_block,
          PipeSize,   \* what the pipe holds
          Scripts,    \* the calls the writer makes
          Readers     \* how the reader reads: "read_line", "fgets", "read_all", "reads"

\* The characters that are written.
Chars == {LF} \cup UNION {UNION {Range(s[i].s) : i \in DOMAIN s} : s \in Scripts}

\* write_chars() gets one character.
ASSUME IoAssumptions ==
    /\ {block_size, small_block, PipeSize} \subseteq Nat /\ block_size > 0 /\ small_block > 1 /\ PipeSize > 0
    /\ Scripts \subseteq Seq([op : {"writes", "write_line", "write_chars"}, s : Seq(Chars)])
    /\ \A s \in Scripts : \A i \in DOMAIN s :
          s[i].op = "write_chars" => \A j, k \in DOMAIN s[i].s : s[i].s[j] = s[i].s[k]

VARIABLES script,     \* the writer's calls
          todo,       \* those it has not made yet
          writing,    \* the write() calls that the present call has still to make
          ofs,        \* bytes of the first of them that are written
          pipe, wopen,
          written,    \* all that has gone into the pipe
          cut, failed,   \* a write() that is not repeated was incomplete; a call threw
          reader, rpc,
          str,        \* what the present call has read
          chunk,      \* what fgets() has read
          given       \* what the calls have returned

ioVars == <<script, todo, writing, ofs, pipe, wopen, written, cut, failed, reader, rpc, str, chunk, given>>
writerVars == <<script, todo, writing, ofs, wopen, written, cut, failed>>
readerVars == <<reader, rpc, str, chunk, given>>

IoInit(S, R) ==
    /\ script \in S /\ reader \in R
    /\ todo = script /\ writing = <<>> /\ ofs = 0
    /\ pipe = <<>> /\ wopen = TRUE /\ written = <<>> /\ cut = FALSE /\ failed = FALSE
    /\ rpc = "read" /\ str = <<>> /\ chunk = <<>> /\ given = <<>>

-----------------------------------------------------------------------------
(* Writing                                                                 *)

\* The calls, and the write() calls each of them makes: the bytes, and
\* whether the rest is written if the call is incomplete.
writes(s) == [op |-> "writes", s |-> s]
write_line(s) == [op |-> "write_line", s |-> s]
write_chars(n, c) == [op |-> "write_chars", s |-> [i \in 1..n |-> c]]

Once(s) == [s |-> s, repeat |-> FALSE]
Repeat(s) == [s |-> s, repeat |-> TRUE]

EndsLine(s) == s # <<>> /\ s[Len(s)] = LF

Blocks(s) ==
    LET n == Len(s)
        quo == n \div block_size
        rem == n % block_size
    IN  [i \in 1..quo |-> Once(SubSeq(s, 1, block_size))]
            \o (IF rem # 0 THEN <<Once(SubSeq(s, 1, rem))>> ELSE <<>>)

WriteCalls(call) ==
    CASE call.op = "writes" -> <<Repeat(call.s)>>
      [] call.op = "write_line" /\ call.s = <<>> -> <<Once(<<LF>>)>>
      [] call.op = "write_line" /\ call.s # <<>> -> <<Repeat(IF EndsLine(call.s) THEN call.s ELSE Append(call.s, LF))>>
      [] call.op = "write_chars" -> Blocks(call.s)

Call ==
    /\ todo # <<>> /\ writing = <<>>
    /\ writing' = WriteCalls(Head(todo)) /\ todo' = Tail(todo) /\ ofs' = 0
    /\ UNCHANGED <<script, pipe, wopen, written, cut, failed, readerVars>>

\* write() moves a byte into the pipe, or has moved all of them.
Write ==
    /\ writing # <<>>
    /\ LET s == writing[1].s
       IN  \/ /\ ofs < Len(s) /\ Len(pipe) < PipeSize
              /\ pipe' = Append(pipe, s[ofs + 1]) /\ written' = Append(written, s[ofs + 1])
              /\ ofs' = ofs + 1 /\ UNCHANGED writing
           \/ /\ ofs = Len(s)
              /\ writing' = Tail(writing) /\ ofs' = 0
              /\ UNCHANGED <<pipe, written>>
    /\ UNCHANGED <<script, todo, wopen, cut, failed, readerVars>>

\* A signal: write() returns what it has moved, and is called again for the
\* rest, or not; if it has moved nothing it fails.
Interrupted ==
    /\ writing # <<>> /\ ofs < Len(writing[1].s)
    /\ \/ ofs > 0 /\ writing[1].repeat /\ UNCHANGED <<todo, writing, ofs, cut, failed>>
       \/ /\ ofs > 0 /\ ~writing[1].repeat
          /\ writing' = Tail(writing) /\ ofs' = 0 /\ cut' = TRUE /\ UNCHANGED <<todo, failed>>
       \/ ofs = 0 /\ failed' = TRUE /\ todo' = <<>> /\ writing' = <<>> /\ UNCHANGED <<ofs, cut>>
    /\ UNCHANGED <<script, pipe, wopen, written, readerVars>>

\* Mutant: a copy of the descriptor stays open.
WriterKeeps ==
    /\ wopen /\ todo = <<>> /\ writing = <<>>
    /\ UNCHANGED ioVars

\* The object that is written to is closed or destroyed.
WriterCloses ==
    /\ wopen /\ todo = <<>> /\ writing = <<>> /\ wopen' = FALSE
    /\ UNCHANGED <<script, todo, writing, ofs, pipe, written, cut, failed, readerVars>>

-----------------------------------------------------------------------------
(* Reading                                                                 *)

AtEnd == pipe = <<>> /\ ~wopen

\* A call returns; an empty result means the end (LineIterator, read_all()).
Returns(s) ==
    /\ str' = <<>> /\ chunk' = <<>>
    /\ IF s = <<>> THEN rpc' = "end" /\ UNCHANGED given ELSE given' = Append(given, s) /\ UNCHANGED rpc

\* IoBase::read_line(), with getc() for each character.
ReadLine ==
    /\ reader = "read_line" /\ rpc = "read"
    /\ \/ /\ pipe # <<>> /\ pipe' = Tail(pipe)
          /\ IF Head(pipe) = LF THEN Returns(Append(str, LF))
             ELSE str' = Append(str, Head(pipe)) /\ UNCHANGED <<rpc, chunk, given>>
       \/ AtEnd /\ Returns(str) /\ UNCHANGED pipe
    /\ UNCHANGED <<writerVars, reader>>

\* fgets() goes on to a line feed, to small_block - 1 characters or to the end.
FgetsDone == Len(chunk) = small_block - 1 \/ (chunk # <<>> /\ chunk[Len(chunk)] = LF) \/ AtEnd

Fgets ==
    /\ reader = "fgets" /\ rpc = "read" /\ ~FgetsDone /\ pipe # <<>>
    /\ chunk' = Append(chunk, Head(pipe)) /\ pipe' = Tail(pipe)
    /\ UNCHANGED <<writerVars, reader, rpc, str, given>>

Nuls(n) == [i \in 1..n |-> Nul]

\* The string up to its last character that is not '\0'.
Trimmed(s) == SubSeq(s, 1, Max({0} \cup {i \in DOMAIN s : s[i] # Nul}))

\* Mutant: takes a chunk that fills its space for the whole line.
CstdioReadLineOnce ==
    /\ reader = "fgets" /\ rpc = "read" /\ FgetsDone
    /\ IF chunk = <<>> THEN Returns(str) ELSE Returns(str \o chunk)
    /\ UNCHANGED <<writerVars, pipe, reader>>

\* Cstdio::read_line() when fgets() has returned: str is the part of buf that
\* was there before, and buf what it is after the resize and fgets().
CstdioReadLine ==
    LET buf == str \o chunk \o Nuls(small_block - Len(chunk))
    IN  /\ reader = "fgets" /\ rpc = "read" /\ FgetsDone
        /\ CASE chunk = <<>> -> Returns(str)
             [] HasFeed(chunk) -> Returns(str \o chunk)
             [] ~HasFeed(chunk) /\ chunk # <<>> /\ Len(Trimmed(buf)) < small_block - 1 -> Returns(Trimmed(buf))
             [] OTHER -> str' = Front(buf) /\ chunk' = <<>> /\ UNCHANGED <<rpc, given>>
        /\ UNCHANGED <<writerVars, pipe, reader>>

\* Fdio::read(): how many characters it may get of what there is, none at the
\* end, and what is left then.
Read(n) == IF AtEnd THEN {0} ELSE 1..Min({n, Len(pipe)})

Taken(k) == pipe' = SubSeq(pipe, k + 1, Len(pipe))

\* read_all(), with read_some(); and reads().
IoReadAll ==
    /\ reader = "read_all" /\ rpc = "read"
    /\ \E k \in Read(block_size) :
          /\ Taken(k)
          /\ IF k = 0 THEN Returns(str)
             ELSE str' = str \o SubSeq(pipe, 1, k) /\ UNCHANGED <<rpc, chunk, given>>
    /\ UNCHANGED <<writerVars, reader>>

Reads ==
    /\ reader = "reads" /\ rpc = "read"
    /\ \E k \in Read(2) : Taken(k) /\ Returns(SubSeq(pipe, 1, k))
    /\ UNCHANGED <<writerVars, reader>>

-----------------------------------------------------------------------------

WriterSteps == Call \/ Write \/ WriterCloses
ReaderSteps == ReadLine \/ Fgets \/ CstdioReadLine \/ IoReadAll \/ Reads

IoNext == WriterSteps \/ Interrupted \/ ReaderSteps

IoSpec == IoInit(Scripts, Readers) /\ [][IoNext]_ioVars

IoFairness == WF_ioVars(WriterSteps) /\ WF_ioVars(ReaderSteps)

-----------------------------------------------------------------------------
(* Properties                                                              *)

TextOf(call) == IF call.op = "write_line" /\ ~EndsLine(call.s) THEN Append(call.s, LF) ELSE call.s

(* What writes() and write_line() are given arrives in the pipe, once and  *)
(* in order, however write() is interrupted; so does what write_chars() is *)
(* asked for, unless one of its write() calls was incomplete.              *)
WritesWhole ==
    LET text == Concat([i \in DOMAIN script |-> TextOf(script[i])])
    IN  ~cut => IsPrefix(written, text) /\ (~wopen /\ ~failed => written = text)

\* Whether the last line is ended, or short enough for one fgets().
ShortTail ==
    LET ls == Cut(written)
    IN  ls # <<>> /\ ~EndsLine(ls[Len(ls)]) => Len(ls[Len(ls)]) < small_block

(* lines() gives the lines of the text, whole and in order, and ends with  *)
(* the text: through IoBase::read_line() always, through                   *)
(* Cstdio::read_line() if the last line is ended or short.                 *)
LinesWhole ==
    reader = "read_line" \/ (reader = "fgets" /\ (wopen \/ ShortTail)) =>
        /\ rpc # "end" => \A i \in DOMAIN given : EndsLine(given[i]) \/ ~wopen
        /\ rpc = "end" => given = Cut(written)

(* read_all(), and reads() called until it gives nothing, give all that    *)
(* was written.                                                            *)
AllRead == reader \in {"read_all", "reads"} /\ rpc = "end" => Concat(given) = written

(* The reader comes to the end if the writer does: neither waits for the   *)
(* other for ever.                                                         *)
StreamEnds == <>(rpc = "end")

(* Text is written and read whole, whatever the sizes of the pieces.       *)
TextWhole == WritesWhole /\ LinesWhole /\ AllRead
=============================================================================
