------------------------------ MODULE Process -------------------------------
(***************************************************************************)
(* StreamProcess and TextProcess (process.hpp, process.cpp, on Unix): a    *)
(* command run by popen(), whose output comes as bytes or as lines.        *)
(*                                                                         *)
(* The command writes its output a byte at a time and ends when it likes.  *)
(* fread() waits until it has the whole block that it was asked for or the *)
(* command has closed its output; a signal may make it stop early.  The    *)
(* caller does what Dispatch does with a channel: it waits, stops if the   *)
(* channel is closed, and reads.  pc is what it does next.                 *)
(***************************************************************************)
EXTENDS TextLines

CONSTANTS Block,    \* StreamChannel::block_size()
          Outputs,  \* what commands write
          Uses      \* what is done: "lines", "all" (read_all() or shell()), "close" (closed early)

\* The bytes of all outputs.
Letters == UNION {Range(o) : o \in Outputs}

ASSUME ProcessAssumptions == Outputs \subseteq Seq(Letters)

VARIABLES output,   \* what the command writes
          done,     \* how much of it is written
          child,    \* Runs, or what pclose() gives
          pipe_,    \* what has not been read from the pipe
          fp_,      \* whether the stream is open; "closing" in pclose()
          status_,
          buf_,     \* TextProcess::buf_, or the result of read_all()
          block,    \* what fread() has so far
          lines,    \* the lines that read() has given
          use, pc

processVars == <<output, done, child, pipe_, fp_, status_, buf_, block, lines, use, pc>>

Runs == -2

\* What is left as it is by most steps of the caller.
Command == <<output, done, child, use>>

ProcessInit(S, U) ==
    /\ output \in S /\ use \in U
    /\ done = 0 /\ child = Runs /\ pipe_ = <<>>
    /\ fp_ = "open" /\ status_ = -1
    /\ buf_ = <<>> /\ block = <<>> /\ lines = <<>>
    /\ pc = "wait"

-----------------------------------------------------------------------------
(* The command                                                             *)

\* It writes; if nobody can read any more it gets SIGPIPE.
CommandWrites ==
    /\ child = Runs /\ done < Len(output)
    /\ IF fp_ = "open"
       THEN done' = done + 1 /\ pipe_' = Append(pipe_, output[done + 1]) /\ UNCHANGED child
       ELSE child' = 1 /\ UNCHANGED <<done, pipe_>>
    /\ UNCHANGED <<output, fp_, status_, buf_, block, lines, use, pc>>

CommandEnds ==
    /\ child = Runs /\ done = Len(output)
    /\ child' = 0
    /\ UNCHANGED <<output, done, pipe_, fp_, status_, buf_, block, lines, use, pc>>

-----------------------------------------------------------------------------
(* StreamProcess                                                           *)

\* do_close(): pclose() closes the pipe and waits for the command.
DoClose(then) ==
    /\ fp_ = "open" /\ fp_' = "closing" /\ pipe_' = <<>>
    /\ pc' = then
    /\ UNCHANGED <<Command, status_, buf_, block, lines>>

\* Mutant: drops the status.
PcloseForgets ==
    /\ fp_ = "closing" /\ child # Runs
    /\ fp_' = "closed"
    /\ UNCHANGED <<Command, status_, pipe_, buf_, block, lines, pc>>

Pclose ==
    /\ fp_ = "closing" /\ child # Runs
    /\ fp_' = "closed"
    /\ status_' = IF status_ = -1 THEN child ELSE status_
    /\ UNCHANGED <<Command, pipe_, buf_, block, lines, pc>>

\* fread() takes another byte.
FreadTakes ==
    /\ pc = "fread" /\ pipe_ # <<>> /\ Len(block) < Block
    /\ block' = Append(block, Head(pipe_)) /\ pipe_' = Tail(pipe_)
    /\ UNCHANGED <<Command, fp_, status_, buf_, lines, pc>>

\* It returns something: the block is full, the output has ended, or a signal
\* came; append() puts it behind the buffer.
FreadReturns ==
    /\ pc = "fread" /\ block # <<>>
    /\ buf_' = buf_ \o block /\ block' = <<>> /\ pc' = "appended"
    /\ UNCHANGED <<Command, pipe_, fp_, status_, lines>>

\* Mutant: does not close the stream.
FreadNothingOpen ==
    /\ pc = "fread" /\ block = <<>>
    /\ pc' = "wait" /\ UNCHANGED <<Command, pipe_, fp_, status_, buf_, block, lines>>

\* It returns nothing.  If a signal came that is an exception, after which the
\* caller waits again and shell() destroys its process; otherwise the end.
FreadNothing ==
    /\ pc = "fread" /\ block = <<>>
    /\ \/ use # "all" /\ pc' = "wait" /\ UNCHANGED <<Command, pipe_, fp_, status_, buf_, block, lines>>
       \/ use = "all" /\ DoClose("failed")
       \/ pipe_ = <<>> /\ child # Runs /\ DoClose("appended")

StreamRead == FreadTakes \/ FreadReturns \/ FreadNothing

-----------------------------------------------------------------------------
(* TextProcess                                                             *)

is_closed == fp_ = "closed" /\ buf_ = <<>>

\* Mutant: returns with whatever there is.
TextWaitAnything ==
    \/ /\ pc = "wait" /\ use # "all" /\ fp_ # "closing"
       /\ pc' = IF fp_ = "closed" THEN "ready" ELSE "fread"
       /\ UNCHANGED <<Command, pipe_, fp_, status_, buf_, block, lines>>
    \/ /\ pc = "appended" /\ fp_ # "closing" /\ use # "all"
       /\ pc' = "ready"
       /\ UNCHANGED <<Command, pipe_, fp_, status_, buf_, block, lines>>

\* do_wait_for(): whatever its first wait gives, it reads unless the stream is
\* closed, and returns when there is a line or nothing more, or it is late.
TextWait ==
    \/ /\ pc = "wait" /\ use # "all" /\ fp_ # "closing"
       /\ pc' = IF fp_ = "closed" THEN "ready" ELSE "fread"
       /\ UNCHANGED <<Command, pipe_, fp_, status_, buf_, block, lines>>
    \/ /\ pc = "appended" /\ fp_ # "closing" /\ use # "all"
       /\ \/ (fp_ = "closed" \/ HasFeed(buf_)) /\ pc' = "ready"
          \/ fp_ = "open" /\ ~HasFeed(buf_) /\ pc' \in {"wait", "fread"}
       /\ UNCHANGED <<Command, pipe_, fp_, status_, buf_, block, lines>>

\* read(): the first line of the buffer, or all of it.
TextRead ==
    /\ pc = "ready" /\ ~is_closed /\ pc' = "wait"
    /\ LET n == IF HasFeed(buf_) THEN FirstFeed(buf_) ELSE Len(buf_)
       IN  /\ lines' = Append(lines, Stripped(SubSeq(buf_, 1, n)))
           /\ buf_' = SubSeq(buf_, n + 1, Len(buf_))
    /\ UNCHANGED <<Command, pipe_, fp_, status_, block>>

TextEnds ==
    /\ pc = "ready" /\ is_closed /\ pc' = "end"
    /\ UNCHANGED <<Command, pipe_, fp_, status_, buf_, block, lines>>

\* close(), at any time between two calls: what is buffered goes too.
TextClose ==
    /\ use = "close" /\ pc \in {"wait", "ready"} /\ pc' = "end"
    /\ IF fp_ = "open" THEN fp_' = "closing" /\ pipe_' = <<>> ELSE UNCHANGED <<fp_, pipe_>>
    /\ buf_' = <<>>
    /\ UNCHANGED <<Command, status_, block, lines>>

-----------------------------------------------------------------------------
(* StreamChannel::read_all(), and shell(), of a StreamProcess              *)

\* do_wait_for() of the stream: closed, or select() finds something or the end.
StreamReady == fp_ = "closed" \/ pipe_ # <<>> \/ child # Runs

\* wait() returns when there is something to read or the stream is closed.
ReadAll ==
    /\ use = "all" /\ fp_ # "closing"
    /\ pc \in {"wait", "appended"} /\ StreamReady
    /\ pc' = IF fp_ = "closed" THEN "end" ELSE "fread"
    /\ UNCHANGED <<Command, pipe_, fp_, status_, buf_, block, lines>>

\* A signal comes in select(): an exception, which destroys the process.
ReadAllFails == use = "all" /\ pc \in {"wait", "appended"} /\ DoClose("failed")

-----------------------------------------------------------------------------

CallerSteps == StreamRead \/ Pclose \/ TextWait \/ TextRead \/ TextEnds \/ ReadAll

CommandSteps == CommandWrites \/ CommandEnds

ProcessNext == CallerSteps \/ TextClose \/ ReadAllFails \/ CommandSteps

ProcessSpec == ProcessInit(Outputs, Uses) /\ [][ProcessNext]_processVars

\* Both processes run; signals do not interrupt every fread() for ever.
ProcessFairness ==
    /\ WF_processVars(CommandSteps)
    /\ WF_processVars(CallerSteps)
    /\ SF_processVars(FreadTakes)
    /\ SF_processVars(FreadNothing /\ fp_' # fp_)

-----------------------------------------------------------------------------
(* Properties                                                              *)

(* However the output is cut into blocks, by the size of a block, the      *)
(* pace of the command and signals: the lines that wait() and read() give  *)
(* are the lines of the output, in order and whole, each once, and when    *)
(* the channel is closed of itself there are all of them.                  *)
LinesOfOutput ==
    LET all == [k \in DOMAIN Cut(output) |-> Stripped(Cut(output)[k])]
    IN  /\ IsPrefix(lines, all)
        /\ use = "lines" /\ pc = "end" => lines = all

(* read_all() and shell() give the whole output, whatever the process does *)
(* between the wait, the test and the read.                                *)
AllOfOutput == use = "all" /\ pc = "end" => buf_ = output

(* status() changes once, from -1 to what the command left, and is no more *)
(* -1 when close() has come back from pclose().                            *)
StatusOnce ==
    [][ /\ status_' # status_ => status_ = -1 /\ status_' = child
        /\ fp_' = "closed" => status_' # -1 ]_processVars

(* A caller that goes on waiting and reading comes to the end of the       *)
(* output and to the status of the command.                                *)
ProcessDrains == (use # "close" \/ fp_ = "closing") ~> (status_ # -1)

(* Whether it is read by lines or all at once, the output comes whole.     *)
OutputWhole == LinesOfOutput /\ AllOfOutput
=============================================================================
