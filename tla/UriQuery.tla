------------------------------ MODULE UriQuery ------------------------------
(***************************************************************************)
(* Uri::make_query() and parse_query(): a form, which is a sequence of     *)
(* pairs of a key and a value, as the text of a query and back; and a Uri  *)
(* whose callers set such queries among everything else.                   *)
(***************************************************************************)
EXTENDS Uri, SequencesExt

CONSTANTS Forms,   \* what callers make queries of: forms, each with the
                   \* delimiter and whether lone_keys is set
          NoForm   \* the query is none, or is not one that was made

VARIABLE carried   \* history: the form that the query was made of

\* Mutant: the value is not escaped.
EntryRaw(pair, delimiter, lone) == encode(pair[1], {}) \o <<"=">> \o pair[2] \o <<delimiter>>

\* A pair and the delimiter behind it; with lone_keys, no "=" before nothing.
Entry(pair, delimiter, lone) ==
    encode(pair[1], {}) \o (IF lone /\ pair[2] = <<>> THEN <<>> ELSE <<"=">>)
        \o encode(pair[2], {}) \o <<delimiter>>

make_query(form, delimiter, lone) ==
    IF form = <<>> THEN <<>>
    ELSE Front(FlattenSeq([i \in 1..Len(form) |-> Entry(form[i], delimiter, lone)]))

\* split() of the formatting library: the stretches between the delimiters
\* that are not empty.
split(q, delimiter) ==
    LET cuts == SetToSortSeq({0, Len(q) + 1} \cup {k \in 1..Len(q) : q[k] = delimiter}, <)
    IN  SelectSeq([i \in 1..(Len(cuts) - 1) |-> SubSeq(q, cuts[i] + 1, cuts[i + 1] - 1)],
                  LAMBDA e : e # <<>>)

\* partition_at(): what is before the first "=", and what is behind it.
partition(e) ==
    LET k == Before(e, {"="}, 0, Len(e))
    IN  <<SubSeq(e, 1, k), SubSeq(e, k + 2, Len(e))>>

\* The first of "&" and ";" is taken as the delimiter.
parse_query(q) ==
    LET first == Before(q, {"&", ";"}, 0, Len(q)) + 1
        entries == split(q, IF first > Len(q) THEN "&" ELSE q[first])
    IN  [i \in 1..Len(entries) |-> LET kv == partition(entries[i])
                                   IN  <<decode(kv[1]), decode(kv[2])>>]

-----------------------------------------------------------------------------
(* A Uri that carries forms.                                               *)

\* With lone_keys, a pair of an empty key and an empty value leaves nothing.
Sent(m, lone) == SelectSeq(m, LAMBDA pair : ~lone \/ pair # << <<>>, <<>> >>)

Texts == {make_query(f[1], f[2], f[3]) : f \in Forms}

ASSUME FormAssumption ==
    /\ Texts \subseteq Args["query"] \ {<<>>}
    /\ \A f \in Forms : NoForm # f[1]

SetsForm ==
    \E f \in Forms : set_query(make_query(f[1], f[2], f[3])) /\ carried' = Sent(f[1], f[3])

\* The calls that are about other elements.
SetsOther ==
    /\ \/ \E a \in Args["scheme"] : set_scheme(a[1], a[2], a[3])
       \/ \E v \in Args["user"] : set_user(v)
       \/ \E v \in Args["password"] : set_password(v)
       \/ \E v \in Args["host"] : set_host(v)
       \/ \E v \in Args["port"] : set_port(v)
       \/ \E v \in Args["path"] : set_path(v) \/ append_path(v)
       \/ \E v \in Args["fragment"] : set_fragment(v)
       \/ clear_user \/ clear_password \/ clear_host \/ clear_port \/ clear_path \/ clear_fragment
       \/ text_ # <<>> /\ doc
    /\ UNCHANGED carried

\* The calls that replace the query, or take it away.
DropsForm ==
    /\ \/ \E v \in Args["query"] \ Texts : set_query(v)
       \/ clear_query
       \/ text_ # <<>> /\ (clear \/ base \/ parent \/ root)
       \/ \E s \in Strings : try_parse(s)
    /\ carried' = NoForm

FormInit == Init /\ carried = NoForm

FormNext == SetsForm \/ SetsOther \/ DropsForm

FormSpec == FormInit /\ [][FormNext]_<<vars, carried>>

-----------------------------------------------------------------------------

\* The query of the text, as who is sent str() cuts it out.
SentQuery ==
    LET q == Before(text_, {"?"}, 0, Len(text_)) + 1
    IN  SubSeq(text_, q + 1, Before(text_, {"#"}, q, Len(text_)))

Undelimited(m) == \A pair \in Range(m) : In(pair[1] \o pair[2], Plain)

\* A form that was made into the query of a URI is still in it after any
\* calls on other elements, and who gets str() and parses the query of it has
\* every pair, whatever delimiters keys and values hold and whichever stands
\* between them.  The getter query() decodes what make_query() encoded, and
\* parse_query() decodes again: that way only forms without delimiters arrive.
FormArrives ==
    carried # NoForm =>
        /\ parse_query(SentQuery) = carried
        /\ Undelimited(carried) => parse_query(Elements(text_, ofs).query) = carried
=============================================================================
