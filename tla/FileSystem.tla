----------------------------- MODULE FileSystem -----------------------------
(***************************************************************************)
(* The file system that Path works on: external, as the calls of path.cpp  *)
(* use it.  A path is a sequence of names; the empty one is the directory  *)
(* everything happens in.  A tree maps each existing path to a node: its   *)
(* kind, its inode number and, for a symbolic link, the path it points to. *)
(* Paths that lead through a link are not used.                            *)
(***************************************************************************)
EXTENDS Integers, Sequences, FiniteSets, SequencesExt

CONSTANTS MaxDepth,   \* the longest path (PATH_MAX)
          Mounted,    \* first names of the paths on another device
          Inodes      \* inode numbers

ASSUME FileSystemAssumption == MaxDepth \in Nat /\ Inodes \subseteq Nat \ {0}

Paths == Seq(STRING)

Node(kind, ino, to) == [kind |-> kind, ino |-> ino, to |-> to]

IsNode(n) == n.kind \in {"file", "dir", "link"} /\ n.ino \in Inodes /\ n.to \in Paths /\ n = Node(n.kind, n.ino, n.to)

\* lstat(), readlink() and stat(): the last follows links, but not many.
Kind(t, p) == IF p \in DOMAIN t THEN t[p].kind ELSE "none"

ReadLink(t, p) == IF Kind(t, p) = "link" THEN t[p].to ELSE p

Follow(t, p) == ReadLink(t, ReadLink(t, ReadLink(t, p)))

Stat(t, p) == IF Kind(t, Follow(t, p)) = "link" THEN "none" ELSE Kind(t, Follow(t, p))

\* The file's identity, 0 if there is no such file.
Id(t, p) == IF Stat(t, p) = "none" THEN 0 ELSE t[Follow(t, p)].ino

Inside(p, q) == IsPrefix(q, p)

Children(t, p) == {q \in DOMAIN t : Len(q) = Len(p) + 1 /\ Inside(q, p)}

\* The errors that the path itself can cause.
PathError(t, p) ==
    IF p = <<>> THEN "ENOENT"
    ELSE IF Len(p) > MaxDepth THEN "ENAMETOOLONG"
    ELSE IF Len(p) = 1 \/ Kind(t, Front(p)) = "dir" THEN "ok"
    ELSE IF Kind(t, Front(p)) = "none" THEN "ENOENT" ELSE "ENOTDIR"

MakeError(t, p) == IF PathError(t, p) = "ok" /\ p \in DOMAIN t THEN "EEXIST" ELSE PathError(t, p)

RemoveError(t, p) ==
    IF PathError(t, p) # "ok" THEN PathError(t, p)
    ELSE IF p \notin DOMAIN t THEN "ENOENT"
    ELSE IF Children(t, p) # {} THEN "ENOTEMPTY" ELSE "ok"

RenameError(t, p, q) ==
    IF PathError(t, q) # "ok" THEN PathError(t, q)
    ELSE IF (p[1] \in Mounted) # (q[1] \in Mounted) THEN "EXDEV"
    ELSE IF p \notin DOMAIN t THEN "ENOENT"
    ELSE IF Inside(q, p) THEN "EINVAL"
    ELSE IF Children(t, q) # {} THEN "ENOTEMPTY"
    ELSE IF q \in DOMAIN t /\ (t[p].kind = "dir") # (t[q].kind = "dir") THEN "ENOTDIR" ELSE "ok"

With(t, p, node) == [q \in DOMAIN t \cup {p} |-> IF q = p THEN node ELSE t[q]]

Without(t, p) == [q \in DOMAIN t \ {p} |-> t[q]]

\* Everything below the one path is below the other.
Moved(t, p, q) ==
    LET to(r) == q \o SubSeq(r, Len(p) + 1, Len(r))
        rest == {r \in DOMAIN t : ~Inside(r, p) /\ r # q}
        goes == {r \in DOMAIN t : Inside(r, p)}
    IN  [s \in rest \cup {to(r) : r \in goes} |->
            IF s \in rest THEN t[s] ELSE t[CHOOSE r \in goes : to(r) = s]]

\* Writes a block at a position; a gap before it is filled with nothing.
Put(content, n, block) ==
    [i \in 1..(IF Len(content) > n THEN Len(content) ELSE n + 1) |->
        IF i = n + 1 THEN block ELSE IF i <= Len(content) THEN content[i] ELSE "gap"]
=============================================================================
