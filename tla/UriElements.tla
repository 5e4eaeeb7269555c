---------------------------- MODULE UriElements -----------------------------
(***************************************************************************)
(* What a Uri promises (uri.hpp): eight elements, each with a value of its *)
(* own.  A call sets one of them and leaves the others alone.              *)
(***************************************************************************)
EXTENDS Integers, Sequences

CONSTANTS Values,    \* for each element, the values a caller may give it
          Appends,   \* the paths a caller may append
          Parsed     \* the elements of the strings a caller may parse

VARIABLE elements

Names == {"scheme", "user", "password", "host", "port", "path", "query", "fragment"}

None == [n \in Names |-> <<>>]

\* The path up to its last element, or up to the one before a last "/".
Parent(p) ==
    LET inner == {k \in 1..(Len(p) - 1) : p[k] = "/"}
    IN  IF inner = {} THEN p ELSE SubSeq(p, 1, CHOOSE k \in inner : \A m \in inner : m <= k)

\* An absolute path replaces the old one, another is put after it.
Appended(p, v) ==
    IF v[1] = "/" \/ Len(p) <= 1 THEN (IF v[1] = "/" THEN v ELSE <<"/">> \o v)
    ELSE IF p[Len(p)] = "/" THEN p \o v ELSE p \o <<"/">> \o v

\* The values that a call may give to element n of e.
Settable(e, n) ==
    CASE n = "path" -> Values.path \cup {Appended(e.path, v) : v \in Appends}
                           \cup (IF Len(e.path) > 1 THEN {<<>>} ELSE {})
      [] n \in {"scheme", "user"} -> Values[n]
      [] OTHER -> Values[n] \cup {<<>>}

\* A call on a URI with elements e may leave it with elements f.
Call(e, f) ==
    \/ \E n \in Names : f[n] \in Settable(e, n) /\ f = [e EXCEPT ![n] = f[n]]
    \/ f = [e EXCEPT !.user = <<>>, !.password = <<>>]
    \/ \E p \in {e.path, Parent(e.path), IF e.path = <<>> THEN <<>> ELSE <<"/">>} :
           f = [e EXCEPT !.path = p, !.query = <<>>, !.fragment = <<>>]
    \/ f \in Parsed
    \/ f = None

Init == elements = None

Next == \E e \in {elements}, f \in {elements'} : Call(e, f)

Spec == Init /\ [][Next]_elements
=============================================================================
