----------------------------- MODULE MCFileOps ------------------------------
(* The instance of FileOps that TLC checks.                                *)
EXTENDS DeepSearch

CONSTANTS p1, p2   \* processes

Dir(i) == Node("dir", i, <<>>)
File(i) == Node("file", i, <<>>)
Link(i, p) == Node("link", i, p)

a == <<"a">>
b == <<"b">>
c == <<"c">>
lost == <<"g">>
loop == <<"s">>

\* A directory with a file and a link in it, and one with a directory in it;
\* m is on another device, g is a link that leads nowhere and s one that leads
\* to itself.
Flat ==
    (a :> Dir(1)) @@ (<<"a", "x">> :> File(2)) @@ (<<"a", "l">> :> Link(3, b))
        @@ (b :> File(4)) @@ (<<"m">> :> Dir(5)) @@ (lost :> Link(6, c)) @@ (loop :> Link(7, loop))
Nested ==
    (a :> Dir(1)) @@ (<<"a", "d">> :> Dir(2)) @@ (<<"a", "d", "x">> :> File(3))
        @@ (b :> Link(4, a)) @@ (<<"m">> :> Dir(5))

\* Directories beside other members, one below the other, one of them empty.
Wide ==
    (a :> Dir(1)) @@ (<<"a", "d">> :> Dir(2)) @@ (<<"a", "d", "c">> :> Dir(3)) @@ (<<"a", "d", "c", "x">> :> File(4))
        @@ (<<"a", "d", "y">> :> File(5)) @@ (<<"a", "e">> :> Dir(6)) @@ (<<"a", "x">> :> File(7))

AllTrees == {Flat, Nested, Wide}
Numbers == 1..16
Blocks == [i \in Numbers |-> IF i = 2 THEN <<"u", "v">> ELSE IF i = 3 THEN <<"w">> ELSE IF i = 4 THEN <<"y">> ELSE <<>>]
NewBlocks == <<"s", "t">>

Single ==
    {RemoveCall(a, {"recurse"}), RemoveCall(a, {}), RemoveCall(<<"a", "d">>, {"recurse"}), RemoveCall(b, {"recurse"}),
     MakeDirectoryCall(<<"c", "d">>, {"recurse"}), MakeDirectoryCall(c, {}), MakeDirectoryCall(b, {"overwrite"}),
     MakeDirectoryCall(<<"a", "x", "d">>, {"recurse"}),
     MakeSymlinkCall(a, b, {}), MakeSymlinkCall(b, c, {"overwrite"}), MakeSymlinkCall(a, b, {"may_copy"}),
     CopyToCall(a, c, {"recurse"}), CopyToCall(a, c, {}), CopyToCall(a, b, {"recurse", "overwrite"}),
     CopyToCall(b, c, {}), CopyToCall(a, <<"a", "x">>, {"recurse"}), CopyToCall(a, a, {"recurse"}),
     MoveToCall(a, <<"m", "c">>, {"may_copy"}), MoveToCall(a, c, {}), MoveToCall(b, a, {"overwrite"}),
     MoveToCall(a, <<"m">>, {"may_copy", "overwrite"}), MoveToCall(b, b, {}), MoveToCall(b, a, {}), MakeDirectoryCall(a, {"recurse"}),
     SaveCall(b, {"overwrite"}), SaveCall(c, {}), SaveCall(b, {"append"}), SaveCall(c, {"append"}), CreateCall(c),
     MoveToCall(b, lost, {}), MoveToCall(<<"a", "l">>, b, {}), CopyToCall(b, lost, {}), SaveCall(lost, {}), SaveCall(loop, {}),
     RemoveCall(<<>>, {"recurse"}), MakeDirectoryCall(<<>>, {"recurse"}), MoveToCall(<<>>, c, {}), CopyToCall(a, <<>>, {"recurse"}), CreateCall(<<>>),
     RemoveCall(<<"a", "x", "d">>, {"recurse"}), MakeDirectoryCall(<<"c", "d", "x", "d", "x">>, {"recurse"})}
Removers == {RemoveCall(a, {"recurse"}), RemoveCall(<<"a", "d">>, {"recurse"}), RemoveCall(b, {"recurse"})}
Makers ==
    {MakeDirectoryCall(<<"c", "d">>, {"recurse"}), MakeDirectoryCall(<<"c", "x">>, {"recurse"}), MakeDirectoryCall(c, {}),
     MakeDirectoryCall(<<"a", "x", "d">>, {"recurse"})}
Appenders == {SaveCall(b, {"append"}), SaveCall(c, {"append"}), SaveCall(lost, {"append"})}
Movers == {MoveToCall(a, <<"m", "c">>, {"may_copy"}), MoveToCall(b, a, {"overwrite"})}
Quick == {CreateCall(<<"m", "c">>), MakeSymlinkCall(a, b, {"overwrite"})}
Builders == Quick \cup {CopyToCall(a, b, {"recurse", "overwrite"})}

\* One call of each kind alone; calls of one kind at the same time; and some
\* of different kinds that get in each other's way.
AllCalls ==
    LET both(C, D) == {(p1 :> f) @@ (p2 :> g) : f \in C, g \in D}
    IN  both(Single \cup {NoCall}, {NoCall}) \cup both(Removers, Removers) \cup both(Makers, Makers)
            \cup both(Appenders, Appenders) \cup both(Movers, Removers \cup Quick)
            \cup both(Makers \cup Builders, Removers)

Walks ==
    {[dir |-> p, flags |-> f, removes |-> r] :
        p \in {a, c}, f \in {{}, {"bottom_up"}, {"no_hidden", "no_follow"}}, r \in BOOLEAN}

\* Alone, and with a process that removes or adds what is being searched.
\* (Wide is there to be searched.)
AllSearches ==
    [t \in AllTrees, f \in AllCalls |->
        {w \in Walks :
            /\ f[p2] = NoCall
            /\ \/ f[p1] = NoCall
               \/ f[p1] = RemoveCall(a, {"recurse"}) /\ t # Wide
               \/ f[p1] = CopyToCall(a, c, {"recurse"}) /\ t # Wide /\ ~w.removes
               \/ f[p1] = RemoveCall(<<"a", "d">>, {"recurse"}) /\ t = Wide /\ ~w.removes}
        \cup IF t = Wide THEN {} ELSE {NoSearch}]
=============================================================================
