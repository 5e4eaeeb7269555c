----------------------------- MODULE DeepSearch -----------------------------
(***************************************************************************)
(* Path::deep_search() (path.cpp): an iterator over all that is below a    *)
(* directory, with a stack of ranges of directory members.  A program goes *)
(* through it, and may remove each file when it gets to it; the processes  *)
(* of FileOps change the tree meanwhile.  Each turn of the iterator's loops*)
(* is a step.  No directory that is searched contains a link to another.   *)
(***************************************************************************)
EXTENDS FileOps

CONSTANTS Searches,   \* Searches[tree, call]: the searches made along with the calls
          Hidden      \* names that begin with a "."

VARIABLES search,     \* the directory, the flags, and if the files are removed
          impl,       \* the ranges, the innermost last, and revisit
          phase,      \* where the program is in its loop, or the iterator in one
          seen        \* the files it got so far

searchVars == <<search, impl, phase, seen>>

NoSearch == [dir |-> <<>>, flags |-> {}, removes |-> FALSE]

BottomUp == "bottom_up" \in search.flags

IsDirectory(p, flags) == (IF "no_follow" \in flags THEN Kind(tree, p) ELSE Stat(tree, p)) = "dir"

\* directory(): the members in any order, but not "." and "..".
Ranges(p) ==
    SetToSeqs({q \in Children(tree, Follow(tree, p)) : "no_hidden" \in search.flags => Last(q) \notin Hidden})

Current(i) == Head(Last(i.ranges))

\* The program gets the file the iterator is at, or leaves its loop.
Arrive(i) ==
    /\ phase' = IF i.ranges = <<>> THEN "end" ELSE "body"
    /\ seen' = IF i.ranges = <<>> THEN seen ELSE Append(seen, Current(i))

Push(i, range) == [ranges |-> Append(i.ranges, range), revisit |-> FALSE]

\* The constructor; bottom up, it goes down first members to one that has none.
Begin ==
    /\ phase = "begin"
    /\ \E range \in IF IsDirectory(search.dir, search.flags) THEN Ranges(search.dir) ELSE {<<>>} :
          /\ impl' = IF range = <<>> THEN impl ELSE Push(impl, range)
          /\ IF BottomUp /\ range # <<>> THEN phase' = "descend" /\ UNCHANGED seen ELSE Arrive(impl')
    /\ UNCHANGED <<search, vars>>

\* Mutant: does not leave the loop.
DescendForever ==
    /\ phase = "descend"
    /\ \E range \in Ranges(Current(impl)) \ {<<>>} : impl' = Push(impl, range)
    /\ UNCHANGED <<phase, seen, search, vars>>

Descend ==
    /\ phase = "descend"
    /\ \E range \in Ranges(Current(impl)) :
          \/ range # <<>> /\ impl' = Push(impl, range) /\ UNCHANGED <<phase, seen>>
          \/ /\ range = <<>>
             /\ impl' = [impl EXCEPT !.revisit = IsDirectory(Current(impl), {})]
             /\ Arrive(impl')
    /\ UNCHANGED <<search, vars>>

\* Mutant: back from a directory it does not reset the flag.
TurnedStale(i, range) ==
    LET rest == Tail(Last(i.ranges))
    IN  IF IsDirectory(Current(i), search.flags) /\ ~i.revisit
        THEN IF range = <<>> THEN [i EXCEPT !.revisit = TRUE] ELSE Push(i, range)
        ELSE [ranges |-> Front(i.ranges) \o (IF rest = <<>> THEN <<>> ELSE <<rest>>), revisit |-> i.revisit \/ rest = <<>>]

\* The loop of the increment: into a directory, of which range is the members,
\* or on to the next member, or out to the directory it is in.
Turned(i, range) ==
    LET rest == Tail(Last(i.ranges))
    IN  IF IsDirectory(Current(i), search.flags) /\ ~i.revisit
        THEN IF range = <<>> THEN [i EXCEPT !.revisit = TRUE] ELSE Push(i, range)
        ELSE [ranges |-> Front(i.ranges) \o (IF rest = <<>> THEN <<>> ELSE <<rest>>), revisit |-> rest = <<>>]

\* Top down it does not stop where it comes back to, bottom up where it comes.
GoesOn(i) == i.ranges # <<>> /\ IsDirectory(Current(i), search.flags) /\ i.revisit # BottomUp

Increment ==
    /\ phase = "next"
    /\ \E range \in Ranges(Current(impl)) : impl' = Turned(impl, range)
    /\ IF GoesOn(impl') THEN UNCHANGED <<phase, seen>> ELSE Arrive(impl')
    /\ UNCHANGED <<search, vars>>

\* The body of the program's loop; remove() throws if a directory has members.
Body ==
    LET p == Current(impl)
        error == RemoveError(tree, p)
    IN  /\ phase = "body"
        /\ tree' = IF search.removes /\ error = "ok" THEN Without(tree, p) ELSE tree
        /\ phase' = IF search.removes /\ error \notin {"ok", "ENOENT"} THEN "thrown" ELSE "next"
        /\ UNCHANGED <<search, impl, seen, content, stack, result, call, before, stdio>>

SearchInit ==
    /\ Init
    /\ search \in Searches[tree, call]
    /\ impl = [ranges |-> <<>>, revisit |-> FALSE]
    /\ phase = IF search = NoSearch THEN "none" ELSE "begin"
    /\ seen = <<>>

SearchStep == Begin \/ Descend \/ Increment \/ Body

SearchNext == SearchStep \/ (\E x \in Procs : Step(x) /\ UNCHANGED searchVars)

\* Every process makes its next system call, and the program its next step.
SearchFairness ==
    /\ \A x \in Procs : WF_<<vars, searchVars>>(Step(x) /\ UNCHANGED searchVars)
    /\ WF_<<vars, searchVars>>(SearchStep)

SearchSpec == SearchInit /\ [][SearchNext]_<<vars, searchVars>> /\ SearchFairness

-----------------------------------------------------------------------------

Undisturbed == \A x \in Procs : call[x] = NoCall

\* What is below the directory and not hidden, nor in a hidden directory.
Visible ==
    {q \in DOMAIN before : /\ Inside(q, search.dir) /\ q # search.dir
                           /\ "no_hidden" \in search.flags =>
                                 \A k \in (Len(search.dir) + 1)..Len(q) : q[k] \notin Hidden}

\* The ranges lead down from the directory, each to members of the current
\* member of the one before, and none is empty: the iterator is never read
\* past the end, though what it points to may be gone.
RangesLeadDown ==
    \A k \in 1..Len(impl.ranges) :
        /\ impl.ranges[k] # <<>>
        /\ \A q \in Range(impl.ranges[k]) :
              Front(q) = IF k = 1 THEN search.dir ELSE Head(impl.ranges[k - 1])

\* A search gives every file once, in whatever order the directories give
\* their members, a directory before its members or, bottom up, behind them;
\* and bottom up a program that removes what it is given removes all.
VisitsAll ==
    /\ Undisturbed \/ BottomUp => \A i, j \in 1..Len(seen) : seen[i] = seen[j] => i = j
    /\ Undisturbed /\ ~search.removes =>
          /\ Range(seen) \subseteq Visible
          /\ phase = "end" => Visible = Range(seen) /\ (IsDirectory(search.dir, {}) \/ seen = <<>>)
          /\ \A i, j \in 1..Len(seen) : seen[i] # seen[j] /\ Inside(seen[j], seen[i]) => (i < j) = ~BottomUp
    /\ Undisturbed /\ BottomUp /\ search.removes /\ phase = "end" => Children(tree, search.dir) = {}

\* A search comes to an end, whatever happens to the files meanwhile.
SearchEnds == <>(phase \in {"none", "end", "thrown"})

\* A search never reads past the end of a directory, and misses and repeats
\* nothing.
SearchComplete == RangesLeadDown /\ VisitsAll

\* Calls and searches come to an end, whatever happens to their files.
AllEnd == CallsEnd /\ SearchEnds
=============================================================================
