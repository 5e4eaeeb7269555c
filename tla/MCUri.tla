------------------------------- MODULE MCUri --------------------------------
(* The instance of Uri that TLC checks.                                    *)
EXTENDS UriQuery

Letters == {"a", "mailto"}
Digits == {"1"}

a == <<"a">>
Nil == <<>>

\* Delimiters in keys and values, lone and empty ones first, last and between.
AllForms ==
    {<< << << <<"&", "=">>, <<";">> >>, <<a, Nil>> >>, ";", TRUE>>,
     << << <<Nil, Nil>>, <<a, <<"#", "&">> >>, <<a, a>> >>, "&", FALSE>>,
     << << <<a, <<"1">> >>, <<Nil, Nil>>, <<Nil, a>> >>, ";", TRUE>>,
     << << <<a, Nil>> >>, "&", TRUE>>}

Arguments ==
    [scheme |-> {<<"a", 0, TRUE>>, <<"a", 1, FALSE>>, <<"mailto", 0, TRUE>>, <<"a", 3, FALSE>>},
     user |-> {<<>>, <<"a">>, <<"@", ":">>},
     password |-> {<<>>, <<":">>},
     host |-> {<<>>, <<"1">>},
     port |-> {<<>>, <<"1">>},
     path |-> {<<>>, <<"/">>, <<"a">>, <<"a", "/">>, <<"/", "?">>, <<"/", "/">>},
     query |-> {<<>>, <<"#", "/">>} \cup {make_query(f[1], f[2], f[3]) : f \in AllForms},
     fragment |-> {<<>>, <<"#">>}]

\* With a "@" but no host, with two slashes twice, with a query behind the
\* host, and no URI at all.
Literals ==
    {<<"a", ":", "/", "/", "@">>,
     <<"a", ":", "/", "/", "/", "/", "a">>,
     <<"a", ":", "a", ":", "a", "@", "1", ":", "1", "?">>,
     <<"a", ":", "/", "/", "a", "?", "a", ":", "%2F", "#", "a">>,
     <<"a", "/", ":">>}
=============================================================================
