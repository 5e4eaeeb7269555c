-------------------------------- MODULE Uri ---------------------------------
(***************************************************************************)
(* Uri (uri.hpp, uri.cpp): the text of a URI and seven offsets into it,    *)
(* which every setter has to keep in step with the text.                   *)
(*                                                                         *)
(* A text is a sequence of units.  A unit is a word or a number, one of    *)
(* the characters that delimit elements, or such a character in its        *)
(* escaped form %hh, which no operation takes apart.  A call that throws   *)
(* leaves the object as it was, and is no step.                            *)
(***************************************************************************)
EXTENDS Integers, Sequences

CONSTANTS Words,     \* units that are never escaped and are not numbers
          Numbers,   \* units made of digits, that as a port fit 16 bits
          Args,      \* Args[n]: the arguments of the setter of element n
          Strings,   \* the arguments of try_parse()
          MaxPath    \* bound on the length of a path

VARIABLES text_, ofs

vars == <<text_, ofs>>

Delimiters == {":", "/", "@", "?", "#", "=", "&", ";"}

Escape(c) ==
    CASE c = ":" -> "%3A" [] c = "/" -> "%2F" [] c = "@" -> "%40"
      [] c = "?" -> "%3F" [] c = "#" -> "%23" [] c = "=" -> "%3D"
      [] c = "&" -> "%26" [] c = ";" -> "%3B"

Plain == Words \cup Numbers

Units == Plain \cup Delimiters \cup {Escape(c) : c \in Delimiters}

\* The arguments are texts as the caller sees them, with nothing escaped;
\* only a query, and a string to parse, may hold escapes.
ASSUME UriAssumption ==
    /\ Words \cap Numbers = {}
    /\ Plain \cap (Delimiters \cup {Escape(c) : c \in Delimiters}) = {}
    /\ \A n \in {"user", "password", "host", "path", "fragment"} :
            Args[n] \subseteq Seq(Plain \cup Delimiters)
    /\ Args["query"] \subseteq Seq(Units)
    /\ Args["port"] \subseteq Seq(Numbers)
    /\ Args["scheme"] \subseteq (Words \X {0, 1, 3} \X BOOLEAN)
    /\ Strings \subseteq Seq(Units)
    /\ MaxPath \in Nat

encode(s, exempt) ==
    [i \in 1..Len(s) |-> IF s[i] \in Plain \cup exempt THEN s[i] ELSE Escape(s[i])]

decode(s) ==
    [i \in 1..Len(s) |->
        IF s[i] \in Plain \cup Delimiters THEN s[i] ELSE CHOOSE c \in Delimiters : Escape(c) = s[i]]

-----------------------------------------------------------------------------
(* The parts of the text.  Part 0 is the scheme with its punctuation.      *)

User == 1
Password == 2
Host == 3
Port == 4
Path == 5
Query == 6
Fragment == 7

Start(o, i) == IF i = 0 THEN 0 ELSE o[i]

End(s, o, i) == IF i = 7 THEN Len(s) ELSE o[i + 1]

Part(s, o, i) == SubSeq(s, Start(o, i) + 1, End(s, o, i))

\* has_user() and the others: a password part may be a bare "@", a path a
\* bare "/".
Has(i) ==
    /\ text_ # <<>>
    /\ Len(Part(text_, ofs, i)) > (IF i \in {Password, Path} THEN 1 ELSE 0)

In(s, set) == \A i \in 1..Len(s) : s[i] \in set

Begins(s, c, set) == s = <<>> \/ (s[1] = c /\ In(Tail(s), set))

Ordered(s, o) ==
    /\ o \in [1..7 -> 0..Len(s)]
    /\ \A i \in 1..6 : o[i] <= o[i + 1]

SchemeText(s, o) ==
    LET p == Part(s, o, 0)
    IN  /\ Len(p) \in {2, 4}
        /\ p[1] \in Words
        /\ Tail(p) \in {<<":">>, <<":", "/", "/">>}

\* Each part has the characters and the punctuation of its element, so the
\* getters, which cut fixed numbers of characters off it, return its value.
Sliced(s, o) ==
    LET name == Units \ {"/", ":", "@"}
        user == Part(s, o, User)
        pass == Part(s, o, Password)
        port == Part(s, o, Port)
    IN  /\ Ordered(s, o)
        /\ SchemeText(s, o)
        /\ In(user, name)
        /\ (user = <<>>) = (pass = <<>>)
        /\ pass # <<>> => /\ pass[Len(pass)] = "@"
                          /\ In(SubSeq(pass, 1, Len(pass) - 1), Units \ {"/", "@"})
                          /\ Len(pass) > 1 => pass[1] = ":"
        /\ In(Part(s, o, Host), name)
        /\ port = <<>> \/ (Len(port) > 1 /\ Begins(port, ":", Numbers))
        /\ Begins(Part(s, o, Path), "/", Units \ {"#", "?"})
        /\ Begins(Part(s, o, Query), "?", Units)
        /\ Begins(Part(s, o, Fragment), "#", Units)

-----------------------------------------------------------------------------
(* Parsing                                                                 *)

\* The regular expression asks for a host after a user and before a port,
\* and keeps "#" out of the query.
Matches(s, o) ==
    /\ Sliced(s, o)
    /\ Part(s, o, Host) = <<>> => Part(s, o, User) = <<>> /\ Part(s, o, Port) = <<>>
    /\ In(Part(s, o, Query), Units \ {"#"})

\* The last position before the first unit of the set, in from + 1 .. to.
Before(s, set, from, to) ==
    LET found == {k \in (from + 1)..to : s[k] \in set}
    IN  IF found = {} THEN to ELSE (CHOOSE k \in found : \A m \in found : k <= m) - 1

\* The offsets if the scheme ends at i and the port at e: the groups between
\* them, and the ones behind, can match in one way only.
Cut(s, i, e) ==
    LET at == LET k == Before(s, {"@"}, i, e) IN IF k = e THEN i ELSE k + 1
        path == IF e < Len(s) /\ s[e + 1] = "/" THEN Before(s, {"?", "#"}, e, Len(s)) ELSE e
        query == IF path < Len(s) /\ s[path + 1] = "?" THEN Before(s, {"#"}, path, Len(s)) ELSE path
    IN  <<i, IF at = i THEN i ELSE Before(s, {":", "@"}, i, at), at,
          Before(s, {":"}, at, e), e, path, query>>

Matchings(s) ==
    {o \in {Cut(s, i, e) : i \in {2, 4} \cap 0..Len(s), e \in 2..Len(s)} : Matches(s, o)}

\* The expression is greedy: slashes before a host, and the longest host.
Greediest(M) ==
    CHOOSE o \in M : \A q \in M : q[1] < o[1] \/ (q[1] = o[1] /\ q[5] <= o[5])

Parsings == [s \in Strings |-> Matchings(s)]

try_parse(s) ==
    /\ Parsings[s] # {}
    /\ text_' = s
    /\ ofs' = Greediest(Parsings[s])

-----------------------------------------------------------------------------
(* The setters                                                             *)

\* Replaces a part, and moves the offsets behind it.
Splice(i, new) ==
    LET b == Start(ofs, i)
        e == End(text_, ofs, i)
    IN  /\ text_' = SubSeq(text_, 1, b) \o new \o SubSeq(text_, e + 1, Len(text_))
        /\ ofs' = [k \in 1..7 |-> IF k > i THEN ofs[k] + Len(new) - (e - b) ELSE ofs[k]]

\* A name, how much of "://" comes with it, and the argument smart.
set_scheme(word, given, smart) ==
    Splice(0, IF given = 3 \/ (smart /\ word # "mailto") THEN <<word, ":", "/", "/">> ELSE <<word, ":">>)

\* Erases user and password.
clear_user ==
    /\ Has(User)
    /\ text_' = SubSeq(text_, 1, ofs[User]) \o SubSeq(text_, ofs[Host] + 1, Len(text_))
    /\ ofs' = [k \in 1..7 |-> IF k <= Host THEN ofs[User] ELSE ofs[k] - (ofs[Host] - ofs[User])]

clear_password == Has(Password) /\ Splice(Password, <<"@">>)

clear_host == Has(Host) /\ Splice(Host, <<>>)

clear_port == Has(Port) /\ Splice(Port, <<>>)

clear_path == Has(Path) /\ Splice(Path, <<>>)

clear_query == Has(Query) /\ Splice(Query, <<>>)

clear_fragment == Has(Fragment) /\ Splice(Fragment, <<>>)

\* Mutant: the "@" is not counted.
set_userOffByOne(v) ==
    LET t == encode(v, {})
    IN  /\ text_ # <<>>
        /\ \/ v = <<>> /\ clear_user
           \/ v # <<>> /\ Has(Host) /\ Has(User) /\ Splice(User, t)
           \/ /\ v # <<>> /\ Has(Host) /\ ~Has(User)
              /\ text_' = SubSeq(text_, 1, ofs[User]) \o t \o <<"@">>
                              \o SubSeq(text_, ofs[Password] + 1, Len(text_))
              /\ ofs' = [k \in 1..7 |-> ofs[k] + (IF k >= Host THEN Len(t)
                                                  ELSE IF k = Password THEN Len(t) ELSE 0)]

set_user(v) ==
    LET t == encode(v, {})
    IN  /\ text_ # <<>>
        /\ \/ v = <<>> /\ clear_user
           \/ v # <<>> /\ Has(Host) /\ Has(User) /\ Splice(User, t)
           \/ /\ v # <<>> /\ Has(Host) /\ ~Has(User)
              /\ text_' = SubSeq(text_, 1, ofs[User]) \o t \o <<"@">>
                              \o SubSeq(text_, ofs[Password] + 1, Len(text_))
              /\ ofs' = [k \in 1..7 |-> ofs[k] + (IF k >= Host THEN Len(t) + 1
                                                  ELSE IF k = Password THEN Len(t) ELSE 0)]

set_password(v) ==
    /\ text_ # <<>>
    /\ \/ v = <<>> /\ clear_password
       \/ v # <<>> /\ Has(User) /\ Splice(Password, <<":">> \o encode(v, {}) \o <<"@">>)

set_host(v) ==
    /\ text_ # <<>>
    /\ \/ v = <<>> /\ clear_host
       \/ v # <<>> /\ Splice(Host, encode(v, {}))

\* The port as its digits, with none for 0.
set_port(v) ==
    /\ text_ # <<>>
    /\ \/ v = <<>> /\ clear_port
       \/ v # <<>> /\ Has(Host) /\ Splice(Port, <<":">> \o v)

NoDoubleSlash(v) == \A k \in 1..(Len(v) - 1) : <<v[k], v[k + 1]>> # <<"/", "/">>

PathText(v) ==
    LET t == encode(v, {":", "/"})
    IN  IF t[1] = "/" THEN t ELSE <<"/">> \o t

set_path(v) ==
    /\ text_ # <<>>
    /\ \/ v = <<>> /\ clear_path
       \/ v # <<>> /\ NoDoubleSlash(v) /\ Splice(Path, PathText(v))

\* The query is stored as it is given.
set_query(v) ==
    /\ text_ # <<>>
    /\ \/ v = <<>> /\ clear_query
       \/ v # <<>> /\ Splice(Query, <<"?">> \o v)

set_fragment(v) ==
    /\ text_ # <<>>
    /\ \/ v = <<>> /\ clear_fragment
       \/ v # <<>> /\ Splice(Fragment, <<"#">> \o encode(v, {}))

append_path(v) ==
    LET p == Part(text_, ofs, Path)
        t == encode(v, {":", "/"})
    IN  /\ text_ # <<>> /\ v # <<>>
        /\ Len(p) + Len(v) < MaxPath
        /\ \/ (v[1] = "/" \/ ~Has(Path)) /\ set_path(v)
           \/ /\ v[1] # "/" /\ Has(Path) /\ NoDoubleSlash(v)
              /\ Splice(Path, p \o (IF p[Len(p)] = "/" THEN t ELSE <<"/">> \o t))

clear ==
    /\ text_' = <<>>
    /\ ofs' = [k \in 1..7 |-> 0]

-----------------------------------------------------------------------------
(* The related URIs: the variable is assigned what they return.            *)

\* Keeps n units, and ends the parts from i on there.
Resize(n, i) ==
    /\ text_' = SubSeq(text_, 1, n)
    /\ ofs' = [k \in 1..7 |-> IF k >= i THEN n ELSE ofs[k]]

doc == text_' = SubSeq(text_, 1, ofs[Fragment]) /\ UNCHANGED ofs

base == Resize(ofs[Query], Fragment)

\* Mutant: the "/" is cut off too.
parentShort ==
    LET last == ofs[Query] - (IF text_[ofs[Query]] = "/" THEN 1 ELSE 0)
        slash == {k \in (ofs[Path] + 1)..last : text_[k] = "/"}
    IN  IF ofs[Query] - ofs[Path] > 1
        THEN Resize((CHOOSE k \in slash : \A m \in slash : m <= k) - 1, Query)
        ELSE base

\* Goes back from the end of the path, over a last "/", to the "/" before.
parent ==
    LET last == ofs[Query] - (IF text_[ofs[Query]] = "/" THEN 1 ELSE 0)
        slash == {k \in (ofs[Path] + 1)..last : text_[k] = "/"}
    IN  IF ofs[Query] - ofs[Path] > 1
        THEN Resize(CHOOSE k \in slash : \A m \in slash : m <= k, Query)
        ELSE base

root ==
    /\ text_' = SubSeq(text_, 1, ofs[Path]) \o (IF ofs[Query] > ofs[Path] THEN <<"/">> ELSE <<>>)
    /\ ofs' = [k \in 1..7 |-> IF k >= Query THEN Len(text_') ELSE ofs[k]]

-----------------------------------------------------------------------------

Init == text_ = <<>> /\ ofs = [k \in 1..7 |-> 0]

Setters ==
    \/ \E a \in Args["scheme"] : set_scheme(a[1], a[2], a[3])
    \/ \E v \in Args["user"] : set_user(v)
    \/ \E v \in Args["password"] : set_password(v)
    \/ \E v \in Args["host"] : set_host(v)
    \/ \E v \in Args["port"] : set_port(v)
    \/ \E v \in Args["path"] : set_path(v) \/ append_path(v)
    \/ \E v \in Args["query"] : set_query(v)
    \/ \E v \in Args["fragment"] : set_fragment(v)

Clearers ==
    \/ clear_user \/ clear_password \/ clear_host \/ clear_port
    \/ clear_path \/ clear_query \/ clear_fragment

Related == text_ # <<>> /\ (clear \/ doc \/ base \/ parent \/ root)

Next == Setters \/ Clearers \/ Related \/ \E s \in Strings : try_parse(s)

Spec == Init /\ [][Next]_vars

-----------------------------------------------------------------------------

\* After any sequence of calls every element still has its own part of the
\* text with its own punctuation, although each setter moves up to seven
\* offsets by a difference it computes before or after it replaces the text.
PartsInPlace == IF text_ = <<>> THEN ofs = [k \in 1..7 |-> 0] ELSE Sliced(text_, ofs)

\* str() parses back to the same elements, unless an element that the
\* grammar requires was cleared, or never set: a host before a port or
\* behind a user, a path before a query, and with a path that begins with
\* two slashes a host or slashes.
Reparses ==
    LET part(i) == Part(text_, ofs, i)
    IN  (/\ text_ # <<>>
         /\ Matches(text_, ofs)
         /\ part(Path) = <<>> => part(Query) = <<>> /\ part(Fragment) = <<>>
         /\ Len(part(Path)) > 1 /\ part(Path)[2] = "/" => part(Host) # <<>>)
        => Greediest(Matchings(text_)) = ofs

\* Text and offsets are in step: each element has its own part of the text, and
\* the text alone gives the same parts again.
TextInStep == PartsInPlace /\ Reparses

\* The getters.  A scheme loses its ":" or "://", a password its ":" and "@".
\* (The port is given by its digits: a number that set_port() writes fits its
\* 16 bits, and a port of a text that does not is left out.)
Elements(s, o) ==
    LET value(i, cut) == IF s = <<>> THEN <<>>
                         ELSE decode(SubSeq(Part(s, o, i), cut + 1, Len(Part(s, o, i))))
        pass == value(Password, 1)
    IN  [scheme |-> IF s = <<>> THEN <<>> ELSE SubSeq(s, 1, o[1] - (IF s[o[1]] = "/" THEN 3 ELSE 1)),
         user |-> value(User, 0),
         password |-> IF pass = <<>> THEN <<>> ELSE SubSeq(pass, 1, Len(pass) - 1),
         host |-> value(Host, 0),
         port |-> value(Port, 1),
         path |-> value(Path, 0),
         query |-> value(Query, 1),
         fragment |-> value(Fragment, 1)]

ElementValues ==
    [n \in {"scheme", "user", "password", "host", "port", "path", "query", "fragment"} |->
        CASE n = "scheme" -> {<<a[1]>> : a \in Args["scheme"]}
          [] n = "path" -> {IF v[1] = "/" THEN v ELSE <<"/">> \o v : v \in Args["path"] \ {<<>>}}
          [] n = "query" -> {decode(v) : v \in Args["query"]}
          [] OTHER -> Args[n]]

ParsedElements == {Elements(s, Greediest(Parsings[s])) : s \in {t \in Strings : Parsings[t] # {}}}

Promise ==
    INSTANCE UriElements
        WITH elements <- Elements(text_, ofs),
             Values <- ElementValues,
             Appends <- Args["path"] \ {<<>>},
             Parsed <- ParsedElements

\* Every setter changes the element it names, to the value it is given, and
\* no other; what the getters return is what was set, although the text holds
\* the escaped form.
EachItsOwn == Promise!Spec
=============================================================================
