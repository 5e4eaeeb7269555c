------------------------------ MODULE PathName ------------------------------
(***************************************************************************)
(* The names of Path (path.hpp, path.cpp, on Unix): how the constructor    *)
(* brings a name into canonical form, and the functions that take names    *)
(* apart and put them together.  A name is a sequence of characters.       *)
(*                                                                         *)
(* A program holds two paths.  Every function that returns a path makes a  *)
(* string and passes it to the constructor; the result is assigned to      *)
(* filename_, and arg is the string it was made of.  A call that throws is *)
(* no step.                                                                *)
(***************************************************************************)
EXTENDS Integers, SequencesExt

CONSTANTS Strings,      \* the arguments of the constructor
          Others,       \* the strings the second path is made of
          Extensions,   \* the arguments of change_ext()
          MaxLength     \* bound on the length of a name

VARIABLES arg, filename_, other

nameVars == <<arg, filename_, other>>

\* The position of the first character that is not a slash, and of the last
\* one that is c.
FirstOther(s) == Min({k \in 1..Len(s) : s[k] # "/"} \cup {Len(s) + 1})

LastOf(s, c) == Max({k \in 1..Len(s) : s[k] = c} \cup {0})

get_root(s) == SubSeq(s, 1, FirstOther(s) - 1)

is_absolute(s) == s # <<>> /\ s[1] = "/"

path_form(s) ==
    CASE s = <<>> -> "empty" [] is_absolute(s) -> "absolute" [] OTHER -> "relative"

-----------------------------------------------------------------------------
(* The constructor                                                         *)

\* Mutant: goes on behind what it has replaced.
DropDotsOnce(s) ==
    LET found == {k \in 1..(Len(s) - 2) : SubSeq(s, k, k + 2) = <<"/", ".", "/">>}
    IN  IF found = {} THEN s ELSE SubSeq(s, 1, Min(found) - 1) \o SubSeq(s, Min(found) + 2, Len(s))

\* Replaces "/./" by "/", from the left and as often as it is there.
RECURSIVE DropDots(_)
DropDots(s) ==
    LET found == {k \in 1..(Len(s) - 2) : SubSeq(s, k, k + 2) = <<"/", ".", "/">>}
    IN  IF found = {} THEN s
        ELSE DropDots(SubSeq(s, 1, Min(found) - 1) \o SubSeq(s, Min(found) + 2, Len(s)))

\* Keeps one of several slashes, behind the ones at the beginning.
DropSlashes(s) ==
    FoldLeft(LAMBDA t, c : IF c = "/" /\ FirstOther(t) <= Len(t) /\ Last(t) = "/" THEN t ELSE Append(t, c),
             <<>>, s)

\* Drops "/" and "/." at the end, down to a root or to one character.
RECURSIVE DropTail(_, _)
DropTail(s, least) ==
    IF Len(s) > least /\ (Last(s) = "/" \/ (Last(s) = "." /\ s[Len(s) - 1] = "/"))
    THEN DropTail(Front(s), least)
    ELSE s

\* (The check of the whole name that the flag legal_name asks for throws or
\* changes nothing, and is left out.)
make_canonical(s) ==
    LET trimmed == SubSeq(s, IF FirstOther(s) > 2 THEN FirstOther(s) - 1 ELSE 1, Len(s))
        single == DropSlashes(DropDots(trimmed))
        root == Len(get_root(single))
    IN  DropTail(single, IF root > 1 THEN root ELSE 1)

Path(s) == make_canonical(s)

-----------------------------------------------------------------------------
(* Taking names apart                                                      *)

\* What is between the slashes.
Pieces(s) ==
    FoldLeft(LAMBDA v, c : IF c = "/" THEN Append(v, <<>>) ELSE Append(Front(v), Append(Last(v), c)),
             << <<>> >>, s)

\* The root, if there is one, and the elements behind it.
os_breakdown(s) ==
    LET root == get_root(s)
        parts == Pieces(SubSeq(s, Len(root) + 1, Len(s)))
    IN  (IF root = <<>> THEN <<>> ELSE <<root>>) \o (IF Last(parts) = <<>> THEN Front(parts) ELSE parts)

get_leaf(s) == SubSeq(s, LastOf(s, "/") + 1, Len(s))

\* The strings of which the two paths of split_path() are made.
split_path(s) == <<SubSeq(s, 1, LastOf(s, "/")), get_leaf(s)>>

\* The extension begins at the last "." if that is neither the first nor the
\* last character of the leaf.
get_base_ext(s) ==
    LET start == LastOf(s, "/") + 1
        dot == LastOf(s, ".")
        ext == start <= Len(s) /\ dot > start /\ dot < Len(s)
    IN  IF ext THEN <<SubSeq(s, start, dot - 1), SubSeq(s, dot, Len(s))>>
        ELSE <<SubSeq(s, start, Len(s)), <<>>>>

-----------------------------------------------------------------------------
(* Putting names together: the strings the results are made of             *)

join(l, r) ==
    IF l = <<>> \/ is_absolute(r) THEN r
    ELSE IF Len(get_root(l)) < Len(l) /\ Last(l) # "/" /\ r # <<>> THEN l \o <<"/">> \o r
    ELSE l \o r

\* do_combine() with join(), over strings that are made into paths first.
join_all(parts) ==
    IF parts = <<>> THEN <<>>
    ELSE FoldLeft(LAMBDA p, part : Path(join(p, Path(part))), Path(parts[1]), Tail(parts))

change_ext(s, e) ==
    LET prefix == SubSeq(s, 1, Len(s) - Len(get_base_ext(s)[2]))
    IN  prefix \o (IF e # <<>> /\ e[1] # "." THEN <<".">> ELSE <<>>) \o e

Agree(v, w) == Max({0} \cup {k \in 1..Len(v) : k <= Len(w) /\ SubSeq(v, 1, k) = SubSeq(w, 1, k)})

\* Mutant: one ".." too few.
relative_toShort(s, b) ==
    LET base_vec == os_breakdown(b)
        this_vec == os_breakdown(s)
        cut == Agree(base_vec, this_vec)
        ups == Len(base_vec) - cut - 1
        prefix == [k \in 1..(3 * ups - 1) |-> IF k % 3 = 0 THEN "/" ELSE "."]
        rel_path == join(IF ups > 0 THEN prefix ELSE <<>>,
                         join_all(SubSeq(this_vec, cut + 1, Len(this_vec))))
    IN  IF is_absolute(s) /\ base_vec[1] # this_vec[1] THEN s
        ELSE IF rel_path = <<>> THEN <<".">> ELSE rel_path

relative_to(s, b) ==
    LET base_vec == os_breakdown(b)
        this_vec == os_breakdown(s)
        cut == Agree(base_vec, this_vec)
        ups == Len(base_vec) - cut
        prefix == [k \in 1..(3 * ups - 1) |-> IF k % 3 = 0 THEN "/" ELSE "."]
        rel_path == join(IF ups > 0 THEN prefix ELSE <<>>,
                         join_all(SubSeq(this_vec, cut + 1, Len(this_vec))))
    IN  IF is_absolute(s) /\ base_vec[1] # this_vec[1] THEN s
        ELSE IF rel_path = <<>> THEN <<".">> ELSE rel_path

\* Where the names differ, or the last "/" before that.
common(l, r) ==
    LET root == Len(get_root(l))
        cut == Agree(l, r)
        whole(s) == cut = Len(s) \/ s[cut + 1] = "/"
        slashes == {k \in (root + 1)..(cut - 1) : l[k + 1] = "/"}
    IN  IF get_root(l) # get_root(r) THEN <<>>
        ELSE IF cut = root \/ (whole(l) /\ whole(r)) THEN SubSeq(l, 1, cut)
        ELSE SubSeq(l, 1, Max({root} \cup slashes))

-----------------------------------------------------------------------------

Assign(s) ==
    /\ Len(s) <= MaxLength
    /\ arg' = s
    /\ filename_' = Path(s)
    /\ UNCHANGED other

Join == Assign(join(filename_, other))

ChangeExt ==
    /\ filename_ # <<>> /\ get_root(filename_) # filename_
    /\ \E e \in Extensions : Assign(change_ext(filename_, e))

SplitPath == \E half \in {1, 2} : Assign(split_path(filename_)[half])

RelativeTo ==
    /\ path_form(filename_) = path_form(other) /\ filename_ # <<>>
    /\ Assign(relative_to(filename_, other))

Common == Assign(common(filename_, other))

NameInit == arg \in Strings /\ filename_ = Path(arg) /\ other \in {Path(s) : s \in Others}

NameNext == Join \/ ChangeExt \/ SplitPath \/ RelativeTo \/ Common

-----------------------------------------------------------------------------
(* What a name means to the operating system: where it starts, and the     *)
(* elements that lead on from there.                                       *)

Elements(s) == SelectSeq(Pieces(s), LAMBDA e : e \notin {<<>>, <<".">>})

Meaning(s) == [absolute |-> is_absolute(s), elements |-> Elements(s)]

\* Follows the elements, each ".." back to where the one before it started.
Resolved(s) ==
    LET up == <<".", ".">>
        follow(done, e) ==
            IF e # up THEN Append(done, e)
            ELSE IF done # <<>> /\ Last(done) # up THEN Front(done)
            ELSE IF is_absolute(s) THEN done ELSE Append(done, e)
    IN  [absolute |-> is_absolute(s), elements |-> FoldLeft(follow, <<>>, Elements(s))]

Doubled(s) == Len(get_root(s)) > 1

\* The constructor leaves no slash at the end and no empty or "." element
\* but a first: removing one kind of redundancy never leaves, or makes,
\* one that an earlier pass was to remove.
Canonical ==
    LET s == filename_
        root == Len(get_root(s))
        parts == Pieces(SubSeq(s, root + 1, Len(s)))
    IN  \A k \in 1..Len(parts) : /\ parts[k] = <<>> => root = Len(s)
                                 /\ parts[k] = <<".">> => k = 1 /\ root = 0

\* No function changes the file a name stands for by making it canonical.
SameFile == Meaning(filename_) = Meaning(arg)

\* A name that is taken apart, into all its elements or into directory and
\* leaf, and put together again is the same name.  (A root that kept two
\* slashes is made into one.)
TakenApart ==
    LET halves == split_path(filename_)
    IN  ~Doubled(filename_) =>
            /\ join_all(os_breakdown(filename_)) = filename_
            /\ Path(join(Path(halves[1]), Path(halves[2]))) = filename_

\* common() is the longest leading part that the names have in common, in
\* whole elements and whichever order they are given in.
CommonIsLongest ==
    LET c == Path(common(filename_, other))
        v == os_breakdown(filename_)
        w == os_breakdown(other)
    IN  ~Doubled(filename_) =>
            /\ os_breakdown(c) = SubSeq(v, 1, Agree(v, w))
            /\ c = Path(common(other, filename_))

\* relative_to() leads from the base to the file, if the part of the base
\* that has to be left again has no "." and no "..".
LeadsBack ==
    LET v == os_breakdown(filename_)
        w == os_breakdown(other)
        left == SubSeq(w, Agree(w, v) + 1, Len(w))
        there == join(other, Path(relative_to(filename_, other)))
    IN  path_form(filename_) = path_form(other) /\ filename_ # <<>>
        /\ ~Doubled(filename_) /\ Range(left) \cap {<<".">>, <<".", ".">>} = {}
        => Resolved(there) = Resolved(filename_)

\* A new extension leaves the directory and the base of the name alone, and
\* is the extension of the result.
ExtensionOnly ==
    [][\A e \in Extensions \ {<<>>} :
        ~Doubled(filename_) /\ arg' = change_ext(filename_, e) /\ ChangeExt =>
            /\ get_base_ext(filename_')[1] = get_base_ext(filename_)[1]
            /\ split_path(filename_')[1] = split_path(filename_)[1]
            /\ get_base_ext(filename_')[2] \in {e, <<".">> \o e}]_nameVars

\* The constructor of a Path removes all that is redundant and nothing else.
NormalForm == Canonical /\ SameFile

\* The functions that take names apart, put them together, compare them and
\* replace an extension agree with each other.
NamesRelate == [](TakenApart /\ CommonIsLongest /\ LeadsBack) /\ ExtensionOnly
=============================================================================
