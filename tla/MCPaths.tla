------------------------------ MODULE MCPaths -------------------------------
(***************************************************************************)
(* A Path in its two roles: a name that is taken apart and put together,   *)
(* and the files that its functions change.  Each behaviour is about one   *)
(* of them; of the other there is nothing to do.                           *)
(***************************************************************************)
EXTENDS MCFileOps, PathName

VARIABLE part    \* the one it is about

NoFiles ==
    /\ tree = <<>> /\ content = Contents /\ before = <<>>
    /\ call = [x \in Procs |-> NoCall]
    /\ stack = [x \in Procs |-> <<>>] /\ result = [x \in Procs |-> "none"]
    /\ buffer = stack /\ unflushed = {}
    /\ search = NoSearch /\ phase = "none" /\ seen = <<>>
    /\ impl = [ranges |-> <<>>, revisit |-> FALSE]

NoName == arg = <<>> /\ filename_ = <<>> /\ other = <<>>

PathInit ==
    \/ SearchInit /\ NoName /\ part = "files"
    \/ NoFiles /\ NameInit /\ part = "names"

PathNext ==
    /\ UNCHANGED part
    /\ \/ SearchNext /\ UNCHANGED nameVars
       \/ part = "names" /\ NameNext /\ UNCHANGED <<vars, searchVars>>

PathSpec ==
    /\ PathInit /\ [][PathNext]_<<vars, searchVars, nameVars, part>>
    /\ SearchFairness

-----------------------------------------------------------------------------
(* The instance: every name of up to six characters of three kinds, with   *)
(* every other of up to three, and two more.                               *)

Upto(n) == UNION {[1..k -> {"a", "/", "."}] : k \in 0..n}

AllStrings == Upto(6)
SomeStrings == Upto(3) \cup {<<"a", "/", ".", ".">>, <<"/", "a", "/", "a">>}
SomeExtensions == {<<>>, <<"a">>, <<".", "a">>}
=============================================================================
