----------------------------- MODULE MCStreams ------------------------------
(***************************************************************************)
(* The streams that one thread reads while another, or the system, writes: *)
(* the channels of processes and signals and the text of an IoBase; and    *)
(* the descriptors of the files below them.  Each behaviour is about one   *)
(* of them; the others are over from the beginning.                        *)
(***************************************************************************)
EXTENDS Process, PosixSignal, IoStream, Descriptors

VARIABLE part    \* the one it is about

ProcessOver ==
    /\ output = <<>> /\ use = "close" /\ done = 0 /\ child = 0 /\ pipe_ = <<>>
    /\ fp_ = "closed" /\ status_ = 0 /\ buf_ = <<>> /\ block = <<>> /\ lines = <<>> /\ pc = "end"

SignalOver ==
    /\ mask = [t \in {Main, Worker} |-> {}] /\ oldmask_ = {} /\ process = {} /\ thread = mask
    /\ queue_ = <<>> /\ open_ = FALSE /\ main = "gone" /\ worker = "none"
    /\ snapshot = {} /\ left = 0 /\ killed = FALSE
    /\ sent = [s \in Signals |-> 0] /\ reads = sent /\ dropped = sent

IoOver ==
    /\ script = <<>> /\ reader = "reads" /\ todo = <<>> /\ writing = <<>> /\ ofs = 0
    /\ pipe = <<>> /\ wopen = FALSE /\ written = <<>> /\ cut = FALSE /\ failed = FALSE
    /\ rpc = "end" /\ str = <<>> /\ chunk = <<>> /\ given = <<>>

Init ==
    /\ DescriptorInit
    /\ \/ ProcessInit(Outputs, Uses) /\ SignalOver /\ IoOver /\ part = "process"
       \/ ProcessOver /\ SignalInit /\ IoOver /\ part = "signal"
       \/ ProcessOver /\ SignalOver /\ IoInit(Scripts, Readers) /\ part = "io"
       \/ ProcessOver /\ SignalOver /\ IoOver /\ part = "descriptors"

Next ==
    /\ UNCHANGED part
    /\ \/ ProcessNext /\ UNCHANGED <<signalVars, ioVars, descriptorVars>>
       \/ SignalNext /\ UNCHANGED <<processVars, ioVars, descriptorVars>>
       \/ IoNext /\ UNCHANGED <<processVars, signalVars, descriptorVars>>
       \/ part = "descriptors" /\ DescriptorNext /\ UNCHANGED <<processVars, signalVars, ioVars>>

vars == <<processVars, signalVars, ioVars, descriptorVars, part>>

Spec == Init /\ [][Next]_vars /\ ProcessFairness /\ SignalFairness /\ IoFairness

-----------------------------------------------------------------------------
(* The instance                                                            *)

\* Outputs of commands: with no line, an unfinished line, empty lines, CR and
\* LF across the blocks of two bytes.
Texts == {<<>>, <<"a">>, <<LF>>, <<"a", LF, "b">>, <<"a", CR, LF, CR, "b", LF>>, <<LF, LF, "a", LF>>}

TheList == <<"sigint", "sigterm">>

\* Calls of a writer: empty texts and lines, texts longer than the pipe and
\* than what fgets() is given, an unfinished last line.
Long == <<"a", "b", "c", "d">>
TheScripts ==
    { <<>>,
      <<writes(<<>>), write_line(<<>>), write_line(<<"a">>)>>,
      <<write_line(Long), writes(<<"a">>)>>,
      <<write_chars(3, "a"), write_line(<<"b", LF>>)>>,
      <<writes(<<"a", LF, LF, "b", "c", "d">>)>>,
      <<writes(Long \o <<LF, "a", "b">>)>> }
=============================================================================
