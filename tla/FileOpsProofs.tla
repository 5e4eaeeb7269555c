--------------------------- MODULE FileOpsProofs ---------------------------
(***************************************************************************)
(* Proofs about the functions of Path that change the file system, for any *)
(* number of processes and any trees.                                      *)
(***************************************************************************)
EXTENDS FileOps, FiniteSetTheorems, SequenceTheorems, WellFoundedInduction, TLAPS

-----------------------------------------------------------------------------
(* Paths and trees                                                         *)

\* A leading part of a path.
UpTo(p, k) == SubSeq(p, 1, k)

\* A leading part of a leading part.
LEMMA UpToUpTo ==
    ASSUME NEW p \in Paths, NEW n \in 0 .. Len(p), NEW k \in 0 .. n
    PROVE  UpTo(UpTo(p, n), k) = UpTo(p, k) /\ UpTo(p, n) \in Paths /\ Len(UpTo(p, n)) = n
<1>1. Len(p) \in Nat /\ p \in [1 .. Len(p) -> STRING]
  BY LenProperties DEF Paths
<1>2. UpTo(p, n) \in Seq(STRING) /\ Len(UpTo(p, n)) = n /\ \A i \in 1 .. n : UpTo(p, n)[i] = p[i]
  BY <1>1, SubSeqProperties DEF UpTo
<1>3. UpTo(p, k) \in Seq(STRING) /\ Len(UpTo(p, k)) = k /\ \A i \in 1 .. k : UpTo(p, k)[i] = p[i]
  BY <1>1, SubSeqProperties DEF UpTo
<1>4. UpTo(UpTo(p, n), k) \in Seq(STRING) /\ Len(UpTo(UpTo(p, n), k)) = k
      /\ \A i \in 1 .. k : UpTo(UpTo(p, n), k)[i] = UpTo(p, n)[i]
  BY <1>1, <1>2, SubSeqProperties DEF UpTo
<1>5. UpTo(UpTo(p, n), k) = UpTo(p, k)
  BY <1>1, <1>2, <1>3, <1>4, SeqEqual
<1>6. QED
  BY <1>2, <1>5 DEF Paths

\* What it is to be below a path.
LEMMA InsideUpTo ==
    ASSUME NEW p \in Paths, NEW q \in Paths
    PROVE  Inside(p, q) <=> Len(q) <= Len(p) /\ UpTo(p, Len(q)) = q
<1>1. UpTo(q, Len(q)) = q
  BY SubSeqFull DEF UpTo, Paths
<1>2. QED
  BY <1>1 DEF Inside, IsPrefix, UpTo

LEMMA InsideSelf == \A p \in Paths : Inside(p, p)
  BY DEF Inside, IsPrefix, Paths

LEMMA InsideUp ==
    ASSUME NEW p \in Paths, NEW q \in Paths, NEW r \in Paths, Inside(p, q), Inside(q, r)
    PROVE  Inside(p, r)
<1>1. Len(p) \in Nat /\ Len(q) \in Nat /\ Len(r) \in Nat
  BY DEF Paths
<1>2. Len(r) <= Len(q) /\ UpTo(q, Len(r)) = r /\ Len(q) <= Len(p) /\ UpTo(p, Len(q)) = q
  BY InsideUpTo
<1>3. UpTo(p, Len(r)) = r
  BY <1>1, <1>2, UpToUpTo
<1>4. QED
  BY <1>1, <1>2, <1>3, InsideUpTo

\* (The prover does not compare a length with 1 by itself.)
LEMMA NumberOne ==
    \A n, m, k \in Nat : /\ n # 0 => n >= 1 /\ (n = 1 <=> ~(n > 1))
                         /\ (~(n > m) => n <= m) /\ (1 <= k /\ k < n => n # 1)
  OBVIOUS

\* When a path can be used, and when it leads nowhere.
LEMMA PathErrors ==
    ASSUME NEW t, NEW p \in Paths
    PROVE  /\ PathError(t, p) = "ok" <=>
                 Len(p) >= 1 /\ Len(p) <= MaxDepth /\ (Len(p) = 1 \/ Kind(t, Front(p)) = "dir")
           /\ PathError(t, p) = "ENOENT" <=>
                 p = <<>> \/ (Len(p) > 1 /\ Len(p) <= MaxDepth /\ Kind(t, Front(p)) = "none")
           /\ Len(p) \in Nat /\ (p = <<>> <=> Len(p) = 0)
<1>1. Len(p) \in Nat /\ (p = <<>> <=> Len(p) = 0)
  BY EmptySeq DEF Paths
<1>2. MaxDepth \in Nat
  BY FileSystemAssumption
<1>3. CASE p = <<>>
  <2>1. PathError(t, p) = "ENOENT"
    BY <1>3 DEF PathError
  <2>2. QED
    BY <1>1, <1>3, <2>1
<1>4. CASE p # <<>> /\ Len(p) > MaxDepth
  <2>1. PathError(t, p) = "ENAMETOOLONG"
    BY <1>4 DEF PathError
  <2>2. QED
    BY <1>1, <1>2, <1>4, <2>1
<1>5. CASE p # <<>> /\ ~(Len(p) > MaxDepth) /\ (Len(p) = 1 \/ Kind(t, Front(p)) = "dir")
  <2>1. PathError(t, p) = "ok"
    BY <1>5 DEF PathError
  <2>2. Len(p) >= 1 /\ Len(p) <= MaxDepth /\ (Len(p) = 1 <=> ~(Len(p) > 1))
    BY <1>1, <1>2, <1>5, NumberOne, Zenon
  <2>3. "ok" # "ENOENT" /\ "dir" # "none"
    OBVIOUS
  <2>4. QED
    BY <1>1, <1>5, <2>1, <2>2, <2>3, Zenon
<1>6. CASE p # <<>> /\ ~(Len(p) > MaxDepth) /\ ~(Len(p) = 1 \/ Kind(t, Front(p)) = "dir")
  <2>1. PathError(t, p) = IF Kind(t, Front(p)) = "none" THEN "ENOENT" ELSE "ENOTDIR"
    BY <1>6, Zenon DEF PathError
  <2>2. Len(p) >= 1 /\ Len(p) <= MaxDepth /\ (Len(p) = 1 <=> ~(Len(p) > 1))
    BY <1>1, <1>2, <1>6, NumberOne, Zenon
  <2>3. "ok" # "ENOENT" /\ "ok" # "ENOTDIR" /\ "ENOTDIR" # "ENOENT"
    OBVIOUS
  <2>4. PathError(t, p) # "ok" /\ (PathError(t, p) = "ENOENT" <=> Kind(t, Front(p)) = "none")
    BY <2>1, <2>3
  <2>5. QED
    BY <1>1, <1>6, <2>2, <2>4, Zenon
<1>7. QED
  BY <1>3, <1>4, <1>5, <1>6

\* A tree as the system keeps it.
GoodTree(t) ==
    /\ IsFiniteSet(DOMAIN t) /\ \A p \in DOMAIN t : p \in Paths /\ p # <<>> /\ IsNode(t[p])
    /\ OwnInodes(t) /\ InDirectories(t)

LEMMA FoundGood ==
    ASSUME NEW t \in Trees
    PROVE  GoodTree(t) /\ \A p \in DOMAIN t : PathError(t, p) = "ok"
<1>1. \A p \in DOMAIN t : p \in Paths /\ PathError(t, p) = "ok" /\ IsNode(t[p])
  BY FileOpsAssumption
<1>2. PathError(t, <<>>) # "ok"
  BY EmptySeq, Zenon DEF PathError
<1>3. QED
  BY <1>1, <1>2, FileOpsAssumption DEF GoodTree

\* All the names on the way to a usable path are directories.
LEMMA WayThere ==
    ASSUME NEW t, GoodTree(t), NEW p \in Paths, PathError(t, p) = "ok", NEW k \in 1 .. (Len(p) - 1)
    PROVE  Kind(t, UpTo(p, k)) = "dir" /\ UpTo(p, k) \in DOMAIN t
<1>1. Len(p) \in Nat /\ k \in Nat /\ 1 <= k /\ k < Len(p)
  BY DEF Paths
<1>2. Front(p) = UpTo(p, Len(p) - 1)
  BY DEF Front, UpTo
<1>3. Kind(t, Front(p)) = "dir"
  <2>1. Len(p) = 1 \/ Kind(t, Front(p)) = "dir"
    BY PathErrors
  <2>2. Len(p) # 1
    BY <1>1, NumberOne, Zenon
  <2>3. QED
    BY <2>1, <2>2, Zenon
<1>4. Front(p) \in DOMAIN t /\ Front(p) \in Paths /\ Len(Front(p)) = Len(p) - 1
  BY <1>1, <1>2, <1>3, UpToUpTo DEF Kind
<1>5. UpTo(Front(p), k) = UpTo(p, k)
  BY <1>1, <1>2, UpToUpTo
<1>6. CASE k = Len(p) - 1
  BY <1>2, <1>3, <1>4, <1>6
<1>7. CASE k # Len(p) - 1
  <2>1. k \in 1 .. (Len(Front(p)) - 1)
    BY <1>1, <1>4, <1>7
  <2>2. Kind(t, UpTo(Front(p), k)) = "dir"
    BY <1>4, <2>1 DEF GoodTree, InDirectories, UpTo
  <2>3. QED
    BY <1>5, <2>2 DEF Kind
<1>8. QED
  BY <1>6, <1>7

\* A new node at a usable path.
LEMMA WithNew ==
    ASSUME NEW t, GoodTree(t), NEW p \in Paths, p \notin DOMAIN t, PathError(t, p) = "ok",
           NEW node, IsNode(node), \A q \in DOMAIN t : t[q].ino # node.ino
    PROVE  GoodTree(With(t, p, node))
<1> DEFINE u == With(t, p, node)
<1>1. DOMAIN u = DOMAIN t \cup {p} /\ u[p] = node /\ \A q \in DOMAIN t : q # p /\ u[q] = t[q]
  BY DEF With
<1>3. IsFiniteSet(DOMAIN u)
  BY <1>1, FS_AddElement DEF GoodTree
<1>4. \A q \in DOMAIN u : q \in Paths /\ q # <<>> /\ IsNode(u[q])
  <2>1. p # <<>>
    BY Zenon, EmptySeq DEF PathError
  <2>2. QED
    BY <1>1, <2>1 DEF GoodTree
<1>5. OwnInodes(u)
  BY <1>1 DEF GoodTree, OwnInodes
<1>6. ASSUME NEW q \in DOMAIN u, NEW k \in 1 .. (Len(q) - 1) PROVE Kind(u, SubSeq(q, 1, k)) = "dir"
  <2>1. Kind(t, UpTo(q, k)) = "dir"
    <3>1. CASE q = p
      BY <3>1, WayThere
    <3>2. CASE q # p
      BY <1>1, <3>2 DEF GoodTree, InDirectories, UpTo
    <3>3. QED
      BY <3>1, <3>2
  <2>2. QED
    BY <1>1, <2>1 DEF Kind, UpTo
<1> HIDE DEF u
<1>7. GoodTree(u)
  BY <1>3, <1>4, <1>5, <1>6 DEF GoodTree, InDirectories
<1>8. QED
  BY <1>7 DEF u

\* A file that gets new contents is the same node.
LEMMA WithSame ==
    ASSUME NEW t, GoodTree(t), NEW p \in DOMAIN t, t[p].kind = "file"
    PROVE  /\ GoodTree(With(t, p, Node("file", t[p].ino, <<>>)))
           /\ \A q \in Paths : Kind(With(t, p, Node("file", t[p].ino, <<>>)), q) = Kind(t, q)
<1> DEFINE n == Node("file", t[p].ino, <<>>)
<1> DEFINE u == With(t, p, n)
<1>1. DOMAIN u = DOMAIN t /\ u[p] = n /\ \A q \in DOMAIN t : q # p => u[q] = t[q]
  BY DEF With
<1>3. n.kind = "file" /\ n.ino = t[p].ino /\ IsNode(n)
  <2>1. IsNode(t[p]) /\ <<>> \in Paths
    BY DEF GoodTree, Paths
  <2>2. QED
    BY <2>1 DEF IsNode, Node
<1>4. \A q \in DOMAIN t : u[q].kind = t[q].kind /\ u[q].ino = t[q].ino
  BY <1>1, <1>3
<1> HIDE DEF u, n
<1>5. \A q \in Paths : Kind(u, q) = Kind(t, q)
  BY <1>1, <1>4 DEF Kind
<1>6. ASSUME NEW q \in DOMAIN u, NEW k \in 1 .. (Len(q) - 1) PROVE Kind(u, SubSeq(q, 1, k)) = "dir"
  <2>1. Kind(t, SubSeq(q, 1, k)) = "dir"
    BY <1>1 DEF GoodTree, InDirectories
  <2>2. QED
    BY <2>1, <1>1, <1>4 DEF Kind
<1>7. OwnInodes(u)
  BY <1>1, <1>4 DEF GoodTree, OwnInodes
<1>8. \A q \in DOMAIN u : q \in Paths /\ q # <<>> /\ IsNode(u[q])
  BY <1>1, <1>3 DEF GoodTree
<1>9. GoodTree(u)
  BY <1>1, <1>6, <1>7, <1>8 DEF GoodTree, InDirectories
<1>10. QED
  BY <1>5, <1>9 DEF u, n

\* What has no children has nothing below it.
LEMMA Childless ==
    ASSUME NEW t, GoodTree(t), NEW p \in Paths, Children(t, p) = {}, NEW r \in DOMAIN t, Inside(r, p)
    PROVE  r = p
<1>1. r \in Paths /\ Len(r) \in Nat /\ Len(p) \in Nat
  BY DEF GoodTree, Paths
<1>2. Len(p) <= Len(r) /\ UpTo(r, Len(p)) = p /\ UpTo(r, Len(r)) = r
  <2>1. UpTo(r, Len(r)) = r
    BY <1>1, SubSeqFull DEF UpTo, Paths
  <2>2. QED
    BY <1>1, <2>1, InsideUpTo
<1>3. SUFFICES ASSUME Len(p) < Len(r) PROVE FALSE
  BY <1>1, <1>2
<1> DEFINE c == UpTo(r, Len(p) + 1)
<1>4. c \in Paths /\ Len(c) = Len(p) + 1 /\ UpTo(c, Len(p)) = p
  BY <1>1, <1>2, <1>3, UpToUpTo
<1>5. Inside(c, p)
  BY <1>1, <1>4, InsideUpTo
<1>6. c \in DOMAIN t
  <2>1. CASE Len(r) = Len(p) + 1
    BY <1>2, <2>1
  <2>2. CASE Len(r) # Len(p) + 1
    <3>1. Len(p) + 1 \in 1 .. (Len(r) - 1)
      BY <1>1, <1>3, <2>2
    <3>2. Kind(t, c) = "dir"
      BY <3>1 DEF GoodTree, InDirectories, UpTo
    <3>3. QED
      BY <3>2 DEF Kind
  <2>3. QED
    BY <2>1, <2>2
<1>7. QED
  BY <1>4, <1>5, <1>6 DEF Children

\* A tree without a node that has nothing below it.
LEMMA WithoutGood ==
    ASSUME NEW t, GoodTree(t), NEW p \in Paths, Children(t, p) = {}
    PROVE  GoodTree(Without(t, p))
<1> DEFINE u == Without(t, p)
<1>1. DOMAIN u = DOMAIN t \ {p} /\ \A q \in DOMAIN u : u[q] = t[q]
  BY DEF Without
<1> HIDE DEF u
<1>3. IsFiniteSet(DOMAIN u)
  BY <1>1, FS_RemoveElement DEF GoodTree
<1>4. \A q \in DOMAIN u : q \in Paths /\ q # <<>> /\ IsNode(u[q])
  BY <1>1 DEF GoodTree
<1>5. OwnInodes(u)
  BY <1>1 DEF GoodTree, OwnInodes
<1>6. ASSUME NEW q \in DOMAIN u, NEW k \in 1 .. (Len(q) - 1) PROVE Kind(u, SubSeq(q, 1, k)) = "dir"
  <2>1. Kind(t, SubSeq(q, 1, k)) = "dir" /\ q \in DOMAIN t /\ q \in Paths /\ q # p /\ Len(q) \in Nat
    BY <1>1, <1>4 DEF GoodTree, InDirectories, Paths
  <2>2. UpTo(q, k) # p
    <3>1. SUFFICES ASSUME UpTo(q, k) = p PROVE FALSE
      OBVIOUS
    <3>2. Len(p) = k /\ k <= Len(q)
      BY <2>1, <3>1, UpToUpTo
    <3>3. Inside(q, p)
      BY <2>1, <3>1, <3>2, InsideUpTo
    <3>4. QED
      BY <2>1, <3>3, Childless
  <2>3. QED
    BY <1>1, <2>1, <2>2 DEF Kind, UpTo
<1>7. GoodTree(u)
  BY <1>3, <1>4, <1>5, <1>6 DEF GoodTree, InDirectories
<1>8. QED
  BY <1>7 DEF u

\* There is always a new inode number if there is no end of them.
LEMMA LeastOf ==
    ASSUME NEW T, T \subseteq Nat, T # {}
    PROVE  \E x \in T : \A y \in T : x <= y
<1> DEFINE Below == {e \in Nat \X Nat : e[1] < e[2]}
<1>1. IsWellFoundedOn(Below, Nat)
  BY NatLessThanWellFounded DEF OpToRel, Below
<1>2. PICK x \in T : \A y \in T : ~ (<<y, x>> \in Below)
  BY <1>1, WFMin
<1>3. ASSUME NEW y \in T PROVE x <= y
  <2>1. x \in Nat /\ y \in Nat /\ <<y, x>> \notin Below
    BY <1>2
  <2>2. <<y, x>> \in Below <=> y < x
    BY <2>1 DEF Below
  <2>3. QED
    BY <2>1, <2>2
<1>4. QED
  BY <1>3

LEMMA FreshIsNew ==
    ASSUME ~IsFiniteSet(Inodes), IsFiniteSet(DOMAIN tree)
    PROVE  Fresh \in Inodes /\ (\A p \in DOMAIN tree : tree[p].ino # Fresh)
           /\ \A x \in Running : Top(x).in # Fresh /\ Top(x).out # Fresh
<1> DEFINE A == {tree[p].ino : p \in DOMAIN tree}
<1> DEFINE B == {Top(x).in : x \in Running}
<1> DEFINE C == {Top(x).out : x \in Running}
<1> DEFINE used == A \cup B \cup C
<1>1. IsFiniteSet(A)
  <2>1. [p \in DOMAIN tree |-> tree[p].ino] \in Surjection(DOMAIN tree, A)
    BY DEF Surjection
  <2>2. QED
    BY <2>1, FS_Surjection
<1>2. IsFiniteSet(Running)
  BY FileOpsAssumption, FS_Subset DEF Running
<1>3. IsFiniteSet(B)
  <2>1. [x \in Running |-> Top(x).in] \in Surjection(Running, B)
    BY DEF Surjection
  <2>2. QED
    BY <1>2, <2>1, FS_Surjection
<1>4. IsFiniteSet(C)
  <2>1. [x \in Running |-> Top(x).out] \in Surjection(Running, C)
    BY DEF Surjection
  <2>2. QED
    BY <1>2, <2>1, FS_Surjection
<1>5. IsFiniteSet(used)
  BY <1>1, <1>3, <1>4, FS_Union
<1>6. Inodes \ used # {}
  BY <1>5, FS_Subset
<1>7. Inodes \ used \subseteq Nat
  BY FileSystemAssumption
<1>8. \E i \in Inodes \ used : \A j \in Inodes \ used : i <= j
  BY <1>6, <1>7, LeastOf
<1>9. Fresh \in Inodes \ used
  BY <1>8 DEF Fresh
<1>10. QED
  BY <1>9

\* Where a path below p is found when p has moved to q.
To(p, q, r) == q \o SubSeq(r, Len(p) + 1, Len(r))

LEMMA ToPath ==
    ASSUME NEW p \in Paths, NEW q \in Paths, NEW r \in Paths, Inside(r, p)
    PROVE  /\ To(p, q, r) \in Paths /\ Len(To(p, q, r)) = Len(q) + Len(r) - Len(p)
           /\ Len(p) \in Nat /\ Len(q) \in Nat /\ Len(r) \in Nat /\ Len(p) <= Len(r)
           /\ \A i \in 1 .. (Len(q) + Len(r) - Len(p)) :
                 To(p, q, r)[i] = IF i <= Len(q) THEN q[i] ELSE r[i - Len(q) + Len(p)]
           /\ Inside(To(p, q, r), q)
<1>1. Len(p) \in Nat /\ Len(q) \in Nat /\ Len(r) \in Nat /\ Len(p) <= Len(r)
  BY InsideUpTo DEF Paths
<1> DEFINE s == SubSeq(r, Len(p) + 1, Len(r))
<1>2. s \in Seq(STRING) /\ Len(s) = Len(r) - Len(p) /\ \A i \in 1 .. (Len(r) - Len(p)) : s[i] = r[Len(p) + i]
  <2>1. \A i \in (Len(p) + 1) .. Len(r) : r[i] \in STRING
    BY <1>1, ElementOfSeq DEF Paths
  <2>2. Len(p) + 1 \in Int /\ Len(r) \in Int
    BY <1>1
  <2>3. s \in Seq(STRING) /\ Len(s) = (IF Len(p) + 1 <= Len(r) THEN Len(r) - (Len(p) + 1) + 1 ELSE 0)
        /\ \A i \in 1 .. (Len(r) - (Len(p) + 1) + 1) : s[i] = r[Len(p) + 1 + i - 1]
    BY <2>1, <2>2, SubSeqProperties
  <2>4. QED
    BY <1>1, <2>3
<1> HIDE DEF s
<1>3. To(p, q, r) = q \o s
  BY DEF To, s
<1>4. q \o s \in Seq(STRING) /\ Len(q \o s) = Len(q) + Len(s)
      /\ \A i \in 1 .. (Len(q) + Len(s)) : (q \o s)[i] = IF i <= Len(q) THEN q[i] ELSE s[i - Len(q)]
  BY <1>2, ConcatProperties DEF Paths
<1>5. \A i \in 1 .. (Len(q) + Len(r) - Len(p)) :
         (q \o s)[i] = IF i <= Len(q) THEN q[i] ELSE r[i - Len(q) + Len(p)]
  <2>1. SUFFICES ASSUME NEW i \in 1 .. (Len(q) + Len(r) - Len(p))
                 PROVE  (q \o s)[i] = IF i <= Len(q) THEN q[i] ELSE r[i - Len(q) + Len(p)]
    OBVIOUS
  <2>2. (q \o s)[i] = IF i <= Len(q) THEN q[i] ELSE s[i - Len(q)]
    BY <1>1, <1>2, <1>4
  <2>3. CASE i <= Len(q)
    BY <2>2, <2>3
  <2>4. CASE ~(i <= Len(q))
    <3>1. i - Len(q) \in 1 .. (Len(r) - Len(p)) /\ Len(p) + (i - Len(q)) = i - Len(q) + Len(p)
      BY <1>1, <2>4
    <3>2. s[i - Len(q)] = r[Len(p) + (i - Len(q))]
      BY <1>2, <3>1
    <3>3. QED
      BY <2>2, <2>4, <3>1, <3>2
  <2>5. QED
    BY <2>3, <2>4
<1>6. UpTo(To(p, q, r), Len(q)) = q
  <2>1. UpTo(To(p, q, r), Len(q)) \in Seq(STRING) /\ Len(UpTo(To(p, q, r), Len(q))) = Len(q)
        /\ \A i \in 1 .. Len(q) : UpTo(To(p, q, r), Len(q))[i] = To(p, q, r)[i]
    <3>1. \A i \in 1 .. Len(q) : To(p, q, r)[i] \in STRING
      BY <1>1, <1>2, <1>3, <1>4, ElementOfSeq
    <3>2. QED
      BY <1>1, <3>1, SubSeqProperties DEF UpTo
  <2>2. \A i \in 1 .. Len(q) : UpTo(To(p, q, r), Len(q))[i] = q[i]
    BY <1>1, <1>3, <1>5, <2>1
  <2>3. QED
    BY <2>1, <2>2, SeqEqual DEF Paths
<1>7. To(p, q, r) \in Paths /\ Len(To(p, q, r)) = Len(q) + Len(r) - Len(p)
  BY <1>1, <1>2, <1>3, <1>4 DEF Paths
<1>8. Inside(To(p, q, r), q)
  BY <1>1, <1>6, <1>7, InsideUpTo
<1>9. QED
  BY <1>1, <1>3, <1>5, <1>7, <1>8

\* Different paths are found in different places.
LEMMA ToOne ==
    ASSUME NEW p \in Paths, NEW q \in Paths, NEW r \in Paths, NEW s \in Paths,
           Inside(r, p), Inside(s, p), To(p, q, r) = To(p, q, s)
    PROVE  r = s
<1>0. ASSUME NEW u \in Paths, Inside(u, p)
      PROVE  /\ Len(To(p, q, u)) = Len(q) + Len(u) - Len(p) /\ Len(u) \in Nat
             /\ \A i \in 1 .. (Len(q) + Len(u) - Len(p)) :
                   To(p, q, u)[i] = IF i <= Len(q) THEN q[i] ELSE u[i - Len(q) + Len(p)]
  BY <1>0, ToPath
<1>1. Len(p) \in Nat /\ Len(q) \in Nat /\ Len(r) = Len(s) /\ Len(p) <= Len(r) /\ Len(r) \in Nat
  <2>1. Len(To(p, q, r)) = Len(q) + Len(r) - Len(p) /\ Len(p) \in Nat /\ Len(q) \in Nat /\ Len(r) \in Nat
        /\ Len(p) <= Len(r)
    BY ToPath
  <2>2. Len(To(p, q, s)) = Len(q) + Len(s) - Len(p) /\ Len(s) \in Nat
    BY <1>0
  <2>3. QED
    BY <2>1, <2>2
<1>2. UpTo(r, Len(p)) = p /\ UpTo(s, Len(p)) = p
  BY InsideUpTo
<1>3. ASSUME NEW i \in 1 .. Len(r) PROVE r[i] = s[i]
  <2>1. CASE i <= Len(p)
    <3>1. UpTo(r, Len(p))[i] = r[i] /\ UpTo(s, Len(p))[i] = s[i]
      BY <1>1, <2>1, SubSeqProperties, ElementOfSeq DEF UpTo, Paths
    <3>2. QED
      BY <1>2, <3>1
  <2>2. CASE i > Len(p)
    <3> DEFINE j == i - Len(p) + Len(q)
    <3>1. j \in 1 .. (Len(q) + Len(r) - Len(p)) /\ j > Len(q) /\ j - Len(q) + Len(p) = i
      BY <1>1, <2>2
    <3>2. To(p, q, r)[j] = r[i] /\ To(p, q, s)[j] = s[i]
      <4> HIDE DEF j
      <4>1. To(p, q, r)[j] = IF j <= Len(q) THEN q[j] ELSE r[j - Len(q) + Len(p)]
        BY <3>1, ToPath
      <4>2. To(p, q, s)[j] = IF j <= Len(q) THEN q[j] ELSE s[j - Len(q) + Len(p)]
        <5>1. j \in 1 .. (Len(q) + Len(s) - Len(p))
          BY <1>1, <3>1
        <5>2. QED
          BY <5>1, <1>0
      <4>3. ~(j <= Len(q))
        BY <1>1, <3>1
      <4>4. QED
        BY <3>1, <4>1, <4>2, <4>3
    <3>3. QED
      BY <3>2
  <2>3. QED
    BY <1>1, <2>1, <2>2
<1>4. QED
  BY <1>1, <1>3, SeqEqual DEF Paths

\* The leading parts of such a place.
LEMMA ToUpTo ==
    ASSUME NEW p \in Paths, NEW q \in Paths, NEW r \in Paths, Inside(r, p),
           NEW k \in 0 .. (Len(q) + Len(r) - Len(p))
    PROVE  /\ k <= Len(q) => UpTo(To(p, q, r), k) = UpTo(q, k)
           /\ k >= Len(q) => /\ UpTo(To(p, q, r), k) = To(p, q, UpTo(r, k - Len(q) + Len(p)))
                             /\ Inside(UpTo(r, k - Len(q) + Len(p)), p)
<1> DEFINE t == To(p, q, r)
<1>1. /\ t \in Paths /\ Len(t) = Len(q) + Len(r) - Len(p) /\ Inside(t, q)
      /\ Len(p) \in Nat /\ Len(q) \in Nat /\ Len(r) \in Nat /\ Len(p) <= Len(r) /\ Len(q) <= Len(t)
      /\ \A i \in 1 .. Len(t) : t[i] = IF i <= Len(q) THEN q[i] ELSE r[i - Len(q) + Len(p)]
  <2>1. /\ t \in Paths /\ Len(t) = Len(q) + Len(r) - Len(p) /\ Inside(t, q)
        /\ Len(p) \in Nat /\ Len(q) \in Nat /\ Len(r) \in Nat /\ Len(p) <= Len(r)
        /\ \A i \in 1 .. (Len(q) + Len(r) - Len(p)) :
              t[i] = IF i <= Len(q) THEN q[i] ELSE r[i - Len(q) + Len(p)]
    BY ToPath
  <2> HIDE DEF t
  <2>2. QED
    BY <2>1
<1>2. UpTo(t, Len(q)) = q
  BY <1>1, InsideUpTo
<1> HIDE DEF t
<1>3. ASSUME k <= Len(q) PROVE UpTo(t, k) = UpTo(q, k)
  BY <1>1, <1>2, <1>3, UpToUpTo
<1>4. ASSUME k >= Len(q)
      PROVE  UpTo(t, k) = To(p, q, UpTo(r, k - Len(q) + Len(p))) /\ Inside(UpTo(r, k - Len(q) + Len(p)), p)
  <2> DEFINE j == k - Len(q) + Len(p)
  <2> DEFINE s == UpTo(r, j)
  <2>1. j \in Len(p) .. Len(r) /\ j \in 0 .. Len(r) /\ Len(p) \in 0 .. j
    BY <1>1, <1>4
  <2> HIDE DEF j
  <2>2. s \in Paths /\ Len(s) = j /\ UpTo(s, Len(p)) = UpTo(r, Len(p))
    BY <2>1, UpToUpTo
  <2>3. UpTo(r, Len(p)) = p
    BY InsideUpTo
  <2>4. Inside(s, p)
    BY <1>1, <2>1, <2>2, <2>3, InsideUpTo
  <2>5. \A i \in 1 .. j : s[i] = r[i]
    BY <1>1, <2>1, SubSeqProperties, ElementOfSeq DEF UpTo, Paths
  <2> HIDE DEF s
  <2>6. To(p, q, s) \in Paths /\ Len(To(p, q, s)) = Len(q) + j - Len(p)
        /\ \A i \in 1 .. (Len(q) + j - Len(p)) :
              To(p, q, s)[i] = IF i <= Len(q) THEN q[i] ELSE s[i - Len(q) + Len(p)]
    BY <2>2, <2>4, ToPath
  <2>7. Len(q) + j - Len(p) = k
    BY <1>1 DEF j
  <2>8. UpTo(t, k) \in Paths /\ Len(UpTo(t, k)) = k
    BY <1>1, UpToUpTo
  <2>9. ASSUME NEW i \in 1 .. k PROVE UpTo(t, k)[i] = To(p, q, s)[i]
    <3>1. UpTo(t, k)[i] = t[i]
      BY <1>1, SubSeqProperties, ElementOfSeq DEF UpTo, Paths
    <3>2. i \in 1 .. Len(t) /\ i \in 1 .. (Len(q) + j - Len(p))
      BY <1>1, <2>7
    <3>3. CASE i <= Len(q)
      BY <1>1, <2>6, <3>1, <3>2, <3>3
    <3>4. CASE ~(i <= Len(q))
      <4>1. i - Len(q) + Len(p) \in 1 .. j
        BY <1>1, <3>4 DEF j
      <4>2. t[i] = r[i - Len(q) + Len(p)]
        BY <1>1, <3>2, <3>4
      <4>3. To(p, q, s)[i] = s[i - Len(q) + Len(p)]
        BY <2>6, <3>2, <3>4
      <4>4. QED
        BY <2>5, <3>1, <4>1, <4>2, <4>3
    <3>5. QED
      BY <3>3, <3>4
  <2>10. UpTo(t, k) = To(p, q, s)
    <3>1. Len(UpTo(t, k)) = Len(To(p, q, s)) /\ \A i \in 1 .. Len(UpTo(t, k)) : UpTo(t, k)[i] = To(p, q, s)[i]
      BY <2>6, <2>7, <2>8, <2>9
    <3>2. QED
      BY <2>6, <2>8, <3>1, SeqEqual DEF Paths
  <2>11. QED
    BY <2>4, <2>10 DEF s, j
<1>5. QED
  BY <1>3, <1>4 DEF t

\* The tree after a rename.
LEMMA MovedGood ==
    ASSUME NEW t, GoodTree(t), NEW p \in Paths, NEW q \in Paths, RenameError(t, p, q) = "ok"
    PROVE  GoodTree(Moved(t, p, q))
<1>1. /\ PathError(t, q) = "ok" /\ p \in DOMAIN t /\ ~Inside(q, p) /\ Children(t, q) = {}
  BY Zenon DEF RenameError
<1> DEFINE rest == {r \in DOMAIN t : ~Inside(r, p) /\ r # q}
<1> DEFINE goes == {r \in DOMAIN t : Inside(r, p)}
<1> DEFINE gone == {To(p, q, r) : r \in goes}
<1> DEFINE u == Moved(t, p, q)
<1>2. DOMAIN u = rest \cup gone
  BY DEF Moved, To
<1>4. \A s \in rest : u[s] = t[s]
  BY DEF Moved
<1>5. \A r \in DOMAIN t : r \in Paths /\ Len(r) \in Nat
  BY DEF GoodTree, Paths
<1>6. ASSUME NEW r \in goes PROVE To(p, q, r) \notin rest
  <2>1. Inside(To(p, q, r), q)
    BY <1>5, ToPath
  <2>2. QED
    BY <1>1, <2>1, Childless
<1>7. ASSUME NEW r \in goes PROVE u[To(p, q, r)] = t[r] /\ To(p, q, r) \in DOMAIN u
  <2>1. To(p, q, r) \in gone /\ To(p, q, r) \notin rest
    BY <1>6
  <2>2. u[To(p, q, r)] = t[CHOOSE v \in goes : To(p, q, v) = To(p, q, r)]
    BY <2>1 DEF Moved, To
  <2>3. (CHOOSE v \in goes : To(p, q, v) = To(p, q, r)) = r
    <3>1. \A v \in goes : To(p, q, v) = To(p, q, r) => v = r
      BY <1>5, ToOne
    <3>2. QED
      BY <3>1
  <2>4. QED
    BY <1>2, <2>1, <2>2, <2>3
<1> HIDE DEF u
<1>8. IsFiniteSet(DOMAIN u)
  <2>1. IsFiniteSet(rest) /\ IsFiniteSet(goes)
    BY FS_Subset DEF GoodTree
  <2>2. [r \in goes |-> To(p, q, r)] \in Surjection(goes, gone)
    BY DEF Surjection
  <2>3. IsFiniteSet(gone)
    BY <2>1, <2>2, FS_Surjection
  <2>4. QED
    BY <1>2, <2>1, <2>3, FS_Union
<1>9. \A s \in DOMAIN u : s \in rest \/ \E r \in goes : s = To(p, q, r)
  BY <1>2
<1>10. \A s \in DOMAIN u : s \in Paths /\ s # <<>> /\ IsNode(u[s])
  <2>0. q # <<>>
    BY <1>1, Zenon, EmptySeq DEF PathError
  <2>1. \A s \in rest : s \in Paths /\ s # <<>> /\ IsNode(u[s])
    BY <1>4 DEF GoodTree
  <2>2. ASSUME NEW r \in goes PROVE To(p, q, r) \in Paths /\ To(p, q, r) # <<>> /\ IsNode(u[To(p, q, r)])
    <3>1. To(p, q, r) \in Paths /\ IsNode(u[To(p, q, r)])
      BY <1>5, <1>7, ToPath DEF GoodTree
    <3>2. Inside(To(p, q, r), q)
      BY <1>5, ToPath
    <3>3. To(p, q, r) # <<>>
      BY <2>0, <3>2, EmptySeq DEF Inside, IsPrefix, Paths
    <3>4. QED
      BY <3>1, <3>3
  <2>3. QED
    BY <1>9, <2>1, <2>2
<1>11. OwnInodes(u)
  <2>1. \A s \in DOMAIN u : \E r \in DOMAIN t : u[s] = t[r] /\ (s \in rest => r = s /\ r \notin goes)
                                             /\ (s \notin rest => r \in goes /\ s = To(p, q, r))
    BY <1>4, <1>7, <1>9
  <2>2. SUFFICES ASSUME NEW s \in DOMAIN u, NEW v \in DOMAIN u, s # v PROVE u[s].ino # u[v].ino
    BY DEF OwnInodes
  <2>3. PICK r \in DOMAIN t : u[s] = t[r] /\ (s \in rest => r = s /\ r \notin goes)
                              /\ (s \notin rest => r \in goes /\ s = To(p, q, r))
    BY <2>1
  <2>4. PICK w \in DOMAIN t : u[v] = t[w] /\ (v \in rest => w = v /\ w \notin goes)
                              /\ (v \notin rest => w \in goes /\ v = To(p, q, w))
    BY <2>1
  <2>5. r # w
    BY <2>2, <2>3, <2>4
  <2>6. QED
    BY <2>3, <2>4, <2>5 DEF GoodTree, OwnInodes
\* Strictly leading parts of what stays, stay.
<1>12. ASSUME NEW r \in DOMAIN t, ~Inside(r, p), NEW k \in 1 .. (Len(r) - 1)
       PROVE  UpTo(r, k) \in rest /\ t[UpTo(r, k)].kind = "dir"
  <2>1. Kind(t, UpTo(r, k)) = "dir" /\ UpTo(r, k) \in DOMAIN t
    BY DEF GoodTree, InDirectories, UpTo, Kind
  <2>2. r \in Paths /\ UpTo(r, k) \in Paths /\ Len(UpTo(r, k)) = k /\ Len(r) \in Nat /\ k <= Len(r) /\ k # Len(r)
    BY <1>5, UpToUpTo
  <2>3. Inside(r, UpTo(r, k))
    BY <2>2, InsideUpTo
  <2>4. ~Inside(UpTo(r, k), p)
    BY <1>12, <2>2, <2>3, InsideUp
  <2>5. UpTo(r, k) # q
    BY <1>1, <2>2, <2>3, Childless
  <2>6. QED
    BY <2>1, <2>4, <2>5 DEF Kind
<1>13. ASSUME NEW s \in DOMAIN u, NEW k \in 1 .. (Len(s) - 1) PROVE Kind(u, SubSeq(s, 1, k)) = "dir"
  <2>1. CASE s \in rest
    <3>1. UpTo(s, k) \in rest /\ t[UpTo(s, k)].kind = "dir"
      BY <1>12, <2>1
    <3>2. QED
      BY <1>2, <1>4, <3>1 DEF Kind, UpTo
  <2>2. ASSUME NEW r \in goes, s = To(p, q, r) PROVE Kind(u, SubSeq(s, 1, k)) = "dir"
    <3>1. /\ r \in Paths /\ Inside(r, p) /\ Len(p) \in Nat /\ Len(q) \in Nat /\ Len(r) \in Nat /\ Len(p) <= Len(r)
          /\ Len(s) = Len(q) + Len(r) - Len(p) /\ k \in Nat /\ 1 <= k /\ k < Len(s)
      <4>1. r \in Paths /\ Inside(r, p)
        BY <1>5
      <4>2. /\ Len(p) \in Nat /\ Len(q) \in Nat /\ Len(r) \in Nat /\ Len(p) <= Len(r)
            /\ Len(s) = Len(q) + Len(r) - Len(p)
        BY <2>2, <4>1, ToPath
      <4>3. QED
        BY <4>1, <4>2
    <3>2. k \in 0 .. (Len(q) + Len(r) - Len(p))
      BY <3>1
    <3>3. CASE k < Len(q)
      <4>1. UpTo(s, k) = UpTo(q, k) /\ k \in 1 .. (Len(q) - 1) /\ k \in 0 .. Len(q) /\ k # Len(q)
        BY <2>2, <3>1, <3>2, <3>3, ToUpTo
      <4>2. Kind(t, UpTo(q, k)) = "dir" /\ UpTo(q, k) \in DOMAIN t
        BY <1>1, <4>1, WayThere
      <4>3. UpTo(q, k) \in Paths /\ Len(UpTo(q, k)) = k
        BY <4>1, UpToUpTo
      <4>4. Inside(q, UpTo(q, k)) /\ UpTo(q, k) # q
        BY <4>1, <4>3, <3>1, <3>3, InsideUpTo
      <4>5. ~Inside(UpTo(q, k), p)
        BY <1>1, <4>3, <4>4, InsideUp
      <4>6. UpTo(s, k) \in rest /\ t[UpTo(s, k)].kind = "dir"
        BY <4>1, <4>2, <4>4, <4>5 DEF Kind
      <4>7. QED
        BY <1>2, <1>4, <4>6 DEF Kind, UpTo
    <3>4. CASE ~(k < Len(q))
      <4> DEFINE j == k - Len(q) + Len(p)
      <4>1. UpTo(s, k) = To(p, q, UpTo(r, j)) /\ Inside(UpTo(r, j), p)
        BY <2>2, <3>1, <3>2, <3>4, ToUpTo
      <4>2. j < Len(r) /\ j \in Nat
        BY <3>1, <3>4
      <4>3. Len(p) <= j
        BY <3>1, <3>4
      <4> HIDE DEF j
      <4>4. UpTo(r, j) \in DOMAIN t /\ t[UpTo(r, j)].kind = "dir"
        <5>1. CASE j = 0
          <6>1. p = <<>>
            BY <3>1, <4>2, <4>3, <5>1, EmptySeq DEF Paths
          <6>2. FALSE
            BY <1>1, <6>1, InsideUpTo DEF Inside, IsPrefix, Paths
          <6>3. QED
            BY <6>2
        <5>2. CASE j # 0
          <6>1. j \in 1 .. (Len(r) - 1)
            BY <3>1, <4>2, <5>2
          <6>2. Kind(t, UpTo(r, j)) = "dir"
            BY <6>1 DEF GoodTree, InDirectories, UpTo
          <6>3. QED
            BY <6>2 DEF Kind
        <5>3. QED
          BY <5>1, <5>2
      <4>5. UpTo(r, j) \in goes
        BY <4>1, <4>4
      <4>6. u[UpTo(s, k)] = t[UpTo(r, j)] /\ UpTo(s, k) \in DOMAIN u
        BY <1>7, <4>1, <4>5
      <4>7. QED
        BY <4>4, <4>6 DEF Kind, UpTo
    <3>5. QED
      BY <3>3, <3>4
  <2>3. QED
    BY <1>9, <2>1, <2>2
<1>14. GoodTree(u)
  BY <1>8, <1>10, <1>11, <1>13 DEF GoodTree, InDirectories
<1>15. QED
  BY <1>14 DEF u

-----------------------------------------------------------------------------
(* The calls in progress                                                   *)

Ops == {"remove", "make_directory", "make_symlink", "copy_to", "move_to", "create", "save", "none"}

Places ==
    {"isdir", "remove", "islink", "opendir", "kids", "mkdir", "again", "readlink", "exists", "symlink", "id", "flat",
     "dst", "in", "out", "data", "rename", "copied", "check", "open", ""}

Frames ==
    [op : Ops, pc : Places, p : Paths, q : Paths, flags : SUBSET Flags, kids : SUBSET (Paths \ {<<>>}),
     in : Nat, out : Nat, n : Nat]

StackType == stack \in [Procs -> Seq(Frames)]

LEMMA CallFrames ==
    ASSUME NEW p \in Paths, NEW q \in Paths, NEW flags \in SUBSET Flags
    PROVE  /\ RemoveCall(p, flags) \in Frames /\ MakeDirectoryCall(p, flags) \in Frames
           /\ MakeSymlinkCall(p, q, flags) \in Frames /\ CopyToCall(p, q, flags) \in Frames
           /\ MoveToCall(p, q, flags) \in Frames /\ SaveCall(p, flags) \in Frames /\ CreateCall(p) \in Frames
<1>1. <<>> \in Paths
  BY DEF Paths
<1>2. \A o \in Ops, pc \in Places : Frame(o, pc, p, q, flags) \in Frames /\ Frame(o, pc, p, <<>>, flags) \in Frames
                                   /\ Frame(o, pc, p, <<>>, {}) \in Frames
  BY <1>1 DEF Frame, Frames
<1>3. RemoveCall(p, flags) \in Frames
  <2>1. (IF "recurse" \in flags THEN "isdir" ELSE "remove") \in Places /\ "remove" \in Ops
    BY DEF Places, Ops
  <2>2. QED
    BY <1>2, <2>1, Zenon DEF RemoveCall
<1>4. SaveCall(p, flags) \in Frames
  <2>1. (IF flags = {} THEN "check" ELSE "open") \in Places /\ "save" \in Ops
    BY DEF Places, Ops
  <2>2. QED
    BY <1>2, <2>1, Zenon DEF SaveCall
<1>5. /\ "make_directory" \in Ops /\ "mkdir" \in Places /\ "make_symlink" \in Ops /\ "islink" \in Places
      /\ "copy_to" \in Ops /\ "move_to" \in Ops /\ "exists" \in Places /\ "create" \in Ops
  BY DEF Places, Ops
<1>6. MakeDirectoryCall(p, flags) \in Frames /\ MakeSymlinkCall(p, q, flags) \in Frames
      /\ CopyToCall(p, q, flags) \in Frames /\ MoveToCall(p, q, flags) \in Frames /\ CreateCall(p) \in Frames
  BY <1>2, <1>5, Zenon DEF MakeDirectoryCall, MakeSymlinkCall, CopyToCall, MoveToCall, CreateCall
<1>7. QED
  BY <1>3, <1>4, <1>6

LEMMA TopOf ==
    ASSUME StackType, NEW x \in Procs, stack[x] # <<>>
    PROVE  /\ Top(x) \in Frames /\ stack[x] \in Seq(Frames) /\ Tail(stack[x]) \in Seq(Frames)
           /\ Len(stack[x]) \in Nat /\ Len(stack[x]) >= 1 /\ Len(Tail(stack[x])) = Len(stack[x]) - 1
           /\ \A i \in 1 .. (Len(stack[x]) - 1) : Tail(stack[x])[i] = stack[x][i + 1]
<1>1. stack[x] \in Seq(Frames)
  BY DEF StackType
<1>2. QED
  BY <1>1 DEF Top

\* What the steps do to the calls of a process.
LEMMA StackMoves ==
    ASSUME StackType, NEW x \in Procs, stack[x] # <<>>
    PROVE  /\ \A f \in Frames : stack' = [stack EXCEPT ![x][1] = f] =>
                 /\ StackType' /\ stack'[x] # <<>> /\ stack'[x][1] = f /\ Len(stack'[x]) = Len(stack[x])
                 /\ \A i \in 2 .. Len(stack[x]) : stack'[x][i] = stack[x][i]
                 /\ \A y \in Procs \ {x} : stack'[y] = stack[y]
           /\ \A f, g \in Frames : stack' = [stack EXCEPT ![x] = <<f, g>> \o Tail(@)] =>
                 /\ StackType' /\ stack'[x] # <<>> /\ stack'[x][1] = f /\ stack'[x][2] = g
                 /\ Len(stack'[x]) = Len(stack[x]) + 1
                 /\ \A i \in 3 .. (Len(stack[x]) + 1) : stack'[x][i] = stack[x][i - 1]
                 /\ \A y \in Procs \ {x} : stack'[y] = stack[y]
           /\ stack' = [stack EXCEPT ![x] = Tail(@)] =>
                 /\ StackType' /\ stack'[x] = Tail(stack[x]) /\ \A y \in Procs \ {x} : stack'[y] = stack[y]
           /\ stack' = [stack EXCEPT ![x] = <<>>] =>
                 /\ StackType' /\ stack'[x] = <<>> /\ \A y \in Procs \ {x} : stack'[y] = stack[y]
<1>1. /\ stack[x] \in Seq(Frames) /\ Tail(stack[x]) \in Seq(Frames)
      /\ Len(stack[x]) \in Nat /\ Len(stack[x]) >= 1 /\ Len(Tail(stack[x])) = Len(stack[x]) - 1
      /\ \A i \in 1 .. (Len(stack[x]) - 1) : Tail(stack[x])[i] = stack[x][i + 1]
  BY TopOf
<1>2. ASSUME NEW s \in Seq(Frames), stack' = [stack EXCEPT ![x] = s]
      PROVE  StackType' /\ stack'[x] = s /\ \A y \in Procs \ {x} : stack'[y] = stack[y]
  BY <1>2 DEF StackType
<1>3. ASSUME NEW f \in Frames, stack' = [stack EXCEPT ![x][1] = f]
      PROVE  /\ StackType' /\ stack'[x] # <<>> /\ stack'[x][1] = f /\ Len(stack'[x]) = Len(stack[x])
             /\ \A i \in 2 .. Len(stack[x]) : stack'[x][i] = stack[x][i]
             /\ \A y \in Procs \ {x} : stack'[y] = stack[y]
  <2> DEFINE s == [stack[x] EXCEPT ![1] = f]
  <2>1. stack' = [stack EXCEPT ![x] = s]
    BY <1>3
  <2>2. s \in Seq(Frames) /\ Len(s) = Len(stack[x])
        /\ \A i \in 1 .. Len(stack[x]) : s[i] = IF i = 1 THEN f ELSE stack[x][i]
    BY <1>1, ExceptSeq
  <2> HIDE DEF s
  <2>3. StackType' /\ stack'[x] = s /\ \A y \in Procs \ {x} : stack'[y] = stack[y]
    BY <1>2, <2>1, <2>2
  <2>4. s # <<>> /\ s[1] = f /\ \A i \in 2 .. Len(stack[x]) : s[i] = stack[x][i]
    BY <1>1, <2>2
  <2>5. QED
    BY <2>2, <2>3, <2>4
<1>4. ASSUME NEW f \in Frames, NEW g \in Frames, stack' = [stack EXCEPT ![x] = <<f, g>> \o Tail(@)]
      PROVE  /\ StackType' /\ stack'[x] # <<>> /\ stack'[x][1] = f /\ stack'[x][2] = g
             /\ Len(stack'[x]) = Len(stack[x]) + 1
             /\ \A i \in 3 .. (Len(stack[x]) + 1) : stack'[x][i] = stack[x][i - 1]
             /\ \A y \in Procs \ {x} : stack'[y] = stack[y]
  <2> DEFINE s == <<f, g>> \o Tail(stack[x])
  <2>1. stack' = [stack EXCEPT ![x] = s]
    BY <1>4
  <2>2. <<f, g>> \in Seq(Frames) /\ Len(<<f, g>>) = 2 /\ <<f, g>>[1] = f /\ <<f, g>>[2] = g
    OBVIOUS
  <2>3. s \in Seq(Frames) /\ Len(s) = 2 + Len(Tail(stack[x]))
        /\ \A i \in 1 .. (2 + Len(Tail(stack[x]))) : s[i] = IF i <= 2 THEN <<f, g>>[i] ELSE Tail(stack[x])[i - 2]
    BY <1>1, <2>2, ConcatProperties
  <2> HIDE DEF s
  <2>4. StackType' /\ stack'[x] = s /\ \A y \in Procs \ {x} : stack'[y] = stack[y]
    BY <1>2, <2>1, <2>3
  <2>5. s # <<>> /\ s[1] = f /\ s[2] = g /\ Len(s) = Len(stack[x]) + 1
    BY <1>1, <2>2, <2>3
  <2>6. ASSUME NEW i \in 3 .. (Len(stack[x]) + 1) PROVE s[i] = stack[x][i - 1]
    <3>1. i \in 1 .. (2 + Len(Tail(stack[x]))) /\ ~(i <= 2) /\ i - 2 \in 1 .. (Len(stack[x]) - 1) /\ i - 2 + 1 = i - 1
      BY <1>1
    <3>2. QED
      BY <1>1, <2>3, <3>1
  <2>7. QED
    BY <2>4, <2>5, <2>6
<1>5. <<>> \in Seq(Frames)
  OBVIOUS
<1>6. QED
  BY <1>1, <1>2, <1>3, <1>4, <1>5

LEMMA TypeMoves ==
    ASSUME StackType, NEW x \in Procs, stack[x] # <<>>
    PROVE  /\ \A pc \in Places : Goto(x, pc) => StackType'
           /\ \A f \in Frames : Becomes(x, f) => StackType'
           /\ \A f \in Frames, pc \in Places : Invoke(x, f, pc) => StackType'
           /\ Return(x) => StackType'
           /\ \A e : Throw(x, e) => StackType'
<1>1. Top(x) \in Frames
  BY TopOf
<1>2. \A pc \in Places : [Top(x) EXCEPT !.pc = pc] \in Frames
  BY <1>1 DEF Frames
<1>3. \A f \in Frames : stack' = [stack EXCEPT ![x][1] = f] => StackType'
  BY StackMoves
<1>4. \A f, g \in Frames : stack' = [stack EXCEPT ![x] = <<f, g>> \o Tail(@)] => StackType'
  BY StackMoves
<1>5. stack' = [stack EXCEPT ![x] = Tail(@)] => StackType'
  BY StackMoves
<1>6. stack' = [stack EXCEPT ![x] = <<>>] => StackType'
  BY StackMoves
<1>7. QED
  BY <1>2, <1>3, <1>4, <1>5, <1>6 DEF Goto, Becomes, Invoke, Return, Throw

LEMMA AtRuns == \A x, o, pc : At(x, o, pc) => stack[x] # <<>> /\ Top(x).op = o /\ Top(x).pc = pc
  BY DEF At

LEMMA LinkPath ==
    ASSUME NEW t, GoodTree(t), NEW p \in Paths
    PROVE  ReadLink(t, p) \in Paths /\ Follow(t, p) \in Paths
<1>1. \A q \in Paths : ReadLink(t, q) \in Paths
  BY DEF ReadLink, Kind, GoodTree, IsNode
<1>2. QED
  BY <1>1 DEF Follow

\* What all steps preserve.
WellTyped == GoodTree(tree) /\ StackType

LEMMA ListingType ==
    ASSUME WellTyped, NEW x \in Procs, stack[x] # <<>>, OpenDirectory(x)
    PROVE  WellTyped'
<1>1. Top(x) \in Frames /\ Children(tree, Follow(tree, Top(x).p)) \in SUBSET (Paths \ {<<>>})
  <2>1. Top(x) \in Frames /\ Top(x).p \in Paths
    BY TopOf DEF WellTyped, Frames
  <2>2. Follow(tree, Top(x).p) \in Paths
    BY <2>1, LinkPath DEF WellTyped
  <2>3. Len(Follow(tree, Top(x).p)) \in Nat /\ Len(<<>>) = 0
    BY <2>2 DEF Paths
  <2>4. QED
    BY <2>1, <2>3 DEF WellTyped, Children, GoodTree
<1>2. [Top(x) EXCEPT !.pc = "kids", !.kids = Children(tree, Follow(tree, Top(x).p))] \in Frames
  BY <1>1 DEF Frames, Places
<1>3. QED
  BY <1>2, TypeMoves DEF OpenDirectory, WellTyped, Same

LEMMA RemoveType ==
    ASSUME WellTyped, NEW x \in Procs, remove(x)
    PROVE  WellTyped'
<1>1. stack[x] # <<>>
  BY AtRuns DEF remove, RemoveAsks, RemoveChild, RemoveItself
<1>2. Top(x) \in Frames /\ Top(x).p \in Paths /\ Top(x).kids \in SUBSET (Paths \ {<<>>})
  BY <1>1, TopOf DEF WellTyped, Frames
<1>3. CASE RemoveAsks(x)
  <2>1. CASE At(x, "remove", "opendir") /\ OpenDirectory(x)
    BY <1>1, <2>1, ListingType
  <2>2. CASE Same /\ \E pc \in Places : Goto(x, pc)
    BY <1>1, <2>2, TypeMoves DEF WellTyped, Same
  <2>3. QED
    BY <1>3, <2>1, <2>2 DEF RemoveAsks, Places
<1>4. CASE RemoveChild(x)
  <2>1. CASE Goto(x, "remove")
    BY <1>1, <1>4, <2>1, TypeMoves DEF RemoveChild, WellTyped, Same, Places
  <2>2. ASSUME NEW k \in Top(x).kids,
               stack' = [stack EXCEPT ![x] = <<RemoveCall(k, {"recurse"}), [Top(x) EXCEPT !.kids = @ \ {k}]>> \o Tail(@)]
        PROVE  WellTyped'
    <3>1. RemoveCall(k, {"recurse"}) \in Frames
      BY <1>2, CallFrames DEF Flags
    <3>2. [Top(x) EXCEPT !.kids = @ \ {k}] \in Frames
      BY <1>2 DEF Frames
    <3>3. StackType'
      BY <1>1, <2>2, <3>1, <3>2, StackMoves DEF WellTyped
    <3>4. QED
      BY <1>4, <3>3 DEF RemoveChild, Same, WellTyped
  <2>3. QED
    BY <1>4, <2>1, <2>2 DEF RemoveChild
<1>5. CASE RemoveItself(x)
  <2>1. StackType'
    BY <1>1, <1>5, TypeMoves DEF RemoveItself, WellTyped
  <2>2. CASE RemoveError(tree, Top(x).p) = "ok"
    <3>1. tree' = Without(tree, Top(x).p)
      BY <1>5, <2>2 DEF RemoveItself
    <3>2. Children(tree, Top(x).p) = {}
      BY <2>2, Zenon DEF RemoveError
    <3>3. QED
      BY <1>2, <2>1, <3>1, <3>2, WithoutGood DEF WellTyped
  <2>3. CASE RemoveError(tree, Top(x).p) # "ok"
    BY <1>5, <2>1, <2>3 DEF RemoveItself, WellTyped
  <2>4. QED
    BY <2>2, <2>3
<1>6. QED
  BY <1>3, <1>4, <1>5, <1>1 DEF remove

\* A new directory or link.
LEMMA MadeGood ==
    ASSUME ~IsFiniteSet(Inodes), GoodTree(tree), NEW p \in Paths, NEW to \in Paths, NEW kind \in {"dir", "link"},
           MakeError(tree, p) = "ok"
    PROVE  GoodTree(With(tree, p, Node(kind, Fresh, to)))
<1>1. PathError(tree, p) = "ok" /\ p \notin DOMAIN tree
  BY Zenon DEF MakeError
<1>2. Fresh \in Inodes /\ \A q \in DOMAIN tree : tree[q].ino # Fresh
  BY FreshIsNew DEF GoodTree
<1>3. IsNode(Node(kind, Fresh, to)) /\ Node(kind, Fresh, to).ino = Fresh
  BY <1>2 DEF IsNode, Node
<1>4. QED
  BY <1>1, <1>2, <1>3, WithNew

LEMMA MkdirGood ==
    ASSUME ~IsFiniteSet(Inodes), GoodTree(tree), NEW p \in Paths, Mkdir(p)
    PROVE  GoodTree(tree)'
<1>1. <<>> \in Paths
  BY DEF Paths
<1>2. CASE MakeError(tree, p) = "ok"
  BY <1>1, <1>2, MadeGood DEF Mkdir
<1>3. CASE MakeError(tree, p) # "ok"
  BY <1>3 DEF Mkdir
<1>4. QED
  BY <1>2, <1>3

LEMMA MakeDirectoryType ==
    ASSUME ~IsFiniteSet(Inodes), WellTyped, NEW x \in Procs, make_directory(x)
    PROVE  WellTyped'
<1>1. stack[x] # <<>>
  BY AtRuns DEF make_directory
<1>2. Top(x) \in Frames /\ Top(x).p \in Paths /\ Top(x).flags \in SUBSET Flags
  BY <1>1, TopOf DEF WellTyped, Frames
<1>3. CASE At(x, "make_directory", "mkdir")
  <2>1. Mkdir(Top(x).p)
    BY <1>3 DEF make_directory, At
  <2>2. \/ Return(x) \/ \E pc \in Places : Goto(x, pc)
        \/ Len(Top(x).p) > 1 /\ Invoke(x, MakeDirectoryCall(Front(Top(x).p), Top(x).flags), "again")
    <3>1. "isdir" \in Places /\ "again" \in Places
      BY DEF Places
    <3>2. MakeError(tree, Top(x).p) = "ENOENT" /\ Top(x).p # <<>> => Len(Top(x).p) > 1
      <4>1. MakeError(tree, Top(x).p) = "ENOENT" => Len(Top(x).p) = 0 \/ Len(Top(x).p) > 1
        BY <1>2, PathErrors DEF MakeError
      <4>2. QED
        BY <1>2, <4>1, EmptySeq DEF Paths
    <3>3. QED
      BY <1>3, <3>1, <3>2 DEF make_directory, At
  <2>3. StackType'
    <3>1. CASE Len(Top(x).p) > 1 /\ Invoke(x, MakeDirectoryCall(Front(Top(x).p), Top(x).flags), "again")
      <4>1. Front(Top(x).p) \in Paths
        <5>1. Len(Top(x).p) \in Nat
          BY <1>2 DEF Paths
        <5>2. QED
          BY <1>2, <3>1, <5>1, UpToUpTo DEF Front, UpTo
      <4>2. MakeDirectoryCall(Front(Top(x).p), Top(x).flags) \in Frames /\ "again" \in Places
        BY <1>2, <4>1, CallFrames DEF Places
      <4>3. QED
        BY <1>1, <3>1, <4>2, TypeMoves DEF WellTyped
    <3>2. CASE Return(x) \/ \E pc \in Places : Goto(x, pc)
      BY <1>1, <3>2, TypeMoves DEF WellTyped
    <3>3. QED
      BY <2>2, <3>1, <3>2
  <2>4. QED
    BY <1>2, <2>1, <2>3, MkdirGood DEF WellTyped
<1>4. CASE At(x, "make_directory", "isdir")
  <2>1. RemoveCall(Top(x).p, {}) \in Frames /\ "again" \in Places
    BY <1>2, CallFrames DEF Places
  <2>2. UNCHANGED tree /\ (Return(x) \/ Throw(x, "EEXIST") \/ Invoke(x, RemoveCall(Top(x).p, {}), "again"))
    BY <1>4 DEF make_directory, At
  <2>3. StackType'
    BY <1>1, <2>1, <2>2, TypeMoves DEF WellTyped
  <2>4. QED
    BY <2>2, <2>3 DEF WellTyped
<1>5. CASE At(x, "make_directory", "again")
  <2>1. Mkdir(Top(x).p) /\ (Return(x) \/ \E e : Throw(x, e))
    BY <1>5 DEF make_directory, At
  <2>2. StackType'
    BY <1>1, <2>1, TypeMoves DEF WellTyped
  <2>3. QED
    BY <1>2, <2>1, <2>2, MkdirGood DEF WellTyped
<1>6. QED
  BY <1>3, <1>4, <1>5 DEF make_directory

LEMMA MakeSymlinkType ==
    ASSUME ~IsFiniteSet(Inodes), WellTyped, NEW x \in Procs, make_symlink(x)
    PROVE  WellTyped'
<1>1. stack[x] # <<>>
  BY AtRuns DEF make_symlink
<1>2. Top(x) \in Frames /\ Top(x).p \in Paths /\ Top(x).q \in Paths /\ Top(x).flags \in SUBSET Flags
  BY <1>1, TopOf DEF WellTyped, Frames
<1>3. CASE At(x, "make_symlink", "islink") \/ At(x, "make_symlink", "readlink") \/ At(x, "make_symlink", "exists")
  <2>1. UNCHANGED tree /\ \/ Return(x) \/ \E pc \in Places : Goto(x, pc)
                          \/ Invoke(x, RemoveCall(Top(x).q, Top(x).flags), "symlink")
    <3>1. "readlink" \in Places /\ "exists" \in Places /\ "symlink" \in Places
      BY DEF Places
    <3>2. QED
      BY <1>3, <3>1 DEF make_symlink, At
  <2>2. RemoveCall(Top(x).q, Top(x).flags) \in Frames /\ "symlink" \in Places
    BY <1>2, CallFrames DEF Places
  <2>3. StackType'
    BY <1>1, <2>1, <2>2, TypeMoves DEF WellTyped
  <2>4. QED
    BY <2>1, <2>3 DEF WellTyped
<1>4. CASE At(x, "make_symlink", "symlink")
  <2> DEFINE new == With(tree, Top(x).q, Node("link", Fresh, Top(x).p))
  <2>1. /\ tree' = IF MakeError(tree, Top(x).q) = "ok" THEN new ELSE tree
        /\ Return(x) \/ Becomes(x, CopyToCall(Top(x).p, Top(x).q, {"recurse"})) \/ \E e : Throw(x, e)
    BY <1>4 DEF make_symlink, At
  <2>2. CopyToCall(Top(x).p, Top(x).q, {"recurse"}) \in Frames
    BY <1>2, CallFrames DEF Flags
  <2>3. StackType'
    BY <1>1, <2>1, <2>2, TypeMoves DEF WellTyped
  <2>4. GoodTree(tree')
    <3>1. CASE MakeError(tree, Top(x).q) = "ok"
      <4>1. GoodTree(new)
        BY <1>2, <3>1, MadeGood DEF WellTyped
      <4>2. QED
        BY <2>1, <3>1, <4>1
    <3>2. CASE MakeError(tree, Top(x).q) # "ok"
      BY <2>1, <3>2 DEF WellTyped
    <3>3. QED
      BY <3>1, <3>2
  <2>5. QED
    BY <2>3, <2>4 DEF WellTyped
<1>5. QED
  BY <1>3, <1>4 DEF make_symlink

\* The tree when a file has been opened for writing.
LEMMA OpenedGood ==
    ASSUME ~IsFiniteSet(Inodes), WellTyped, NEW x \in Procs, stack[x] # <<>>, NEW p \in Paths, NEW append,
           OpenToWrite(x, p, append)
    PROVE  WellTyped'
<1> DEFINE f == Follow(tree, p)
<1> DEFINE ino == IF f \in DOMAIN tree THEN tree[f].ino ELSE Fresh
<1>1. Top(x) \in Frames /\ f \in Paths
  BY TopOf, LinkPath DEF WellTyped
<1>2. CASE \E e : Throw(x, e) /\ UNCHANGED tree
  BY <1>2, TypeMoves DEF WellTyped
<1>3. CASE /\ PathError(tree, f) = "ok" /\ Kind(tree, f) \notin {"dir", "link"}
           /\ tree' = With(tree, f, Node("file", ino, <<>>))
           /\ Becomes(x, [Top(x) EXCEPT !.pc = "data", !.out = ino])
  <2>1. Fresh \in Inodes /\ \A q \in DOMAIN tree : tree[q].ino # Fresh
    BY FreshIsNew DEF WellTyped, GoodTree
  <2>2. ino \in Nat
    BY <2>1, FileSystemAssumption DEF WellTyped, GoodTree, IsNode
  <2>3. [Top(x) EXCEPT !.pc = "data", !.out = ino] \in Frames
    BY <1>1, <2>2 DEF Frames, Places
  <2>4. StackType'
    BY <1>3, <2>3, TypeMoves DEF WellTyped
  <2>5. GoodTree(tree')
    <3>1. CASE f \in DOMAIN tree
      <4>1. tree[f].kind = "file"
        BY <1>3, <3>1 DEF Kind, WellTyped, GoodTree, IsNode
      <4>2. QED
        BY <1>3, <3>1, <4>1, WithSame DEF WellTyped
    <3>2. CASE f \notin DOMAIN tree
      <4>1. <<>> \in Paths
        BY DEF Paths
      <4>2. IsNode(Node("file", Fresh, <<>>)) /\ Node("file", Fresh, <<>>).ino = Fresh
        BY <2>1, <4>1 DEF IsNode, Node
      <4>3. GoodTree(With(tree, f, Node("file", Fresh, <<>>)))
        BY <1>1, <1>3, <2>1, <3>2, <4>2, WithNew DEF WellTyped
      <4>4. QED
        BY <1>3, <3>2, <4>3
    <3>3. QED
      BY <3>1, <3>2
  <2>6. QED
    BY <2>4, <2>5 DEF WellTyped
<1>4. QED
  BY <1>2, <1>3, Zenon DEF OpenToWrite

LEMMA WriteType ==
    ASSUME WellTyped, NEW x \in Procs, stack[x] # <<>>, NEW blocks, NEW append,
           WriteBlocks(x, blocks, append) \/ DataFails(x, append)
    PROVE  WellTyped'
<1>1. Top(x) \in Frames
  BY TopOf DEF WellTyped
<1>2. [Top(x) EXCEPT !.n = Top(x).n + 1] \in Frames
  BY <1>1 DEF Frames
<1>3. tree' = tree /\ \/ Return(x) \/ (\E e : Throw(x, e)) \/ stack' = stack
                      \/ Becomes(x, [Top(x) EXCEPT !.n = Top(x).n + 1])
  BY DEF WriteBlocks, DataFails, Same
<1>4. StackType'
  BY <1>2, <1>3, TypeMoves DEF WellTyped, StackType
<1>5. QED
  BY <1>3, <1>4 DEF WellTyped

LEMMA CopyToType ==
    ASSUME ~IsFiniteSet(Inodes), WellTyped, NEW x \in Procs, copy_to(x)
    PROVE  WellTyped'
<1>1. stack[x] # <<>>
  BY AtRuns DEF copy_to, CopyChecks, CopySpecial, CopyListing, CopyOpens, CopyData
<1>2. Top(x) \in Frames /\ Top(x).p \in Paths /\ Top(x).q \in Paths /\ Top(x).flags \in SUBSET Flags
      /\ Top(x).kids \in SUBSET (Paths \ {<<>>})
  BY <1>1, TopOf DEF WellTyped, Frames
<1>3. CASE CopyChecks(x)
  <2>1. UNCHANGED tree /\ \/ \E e : Throw(x, e)
                          \/ \E pc \in Places : Goto(x, pc)
                          \/ Invoke(x, RemoveCall(Top(x).q, {"recurse"}), "islink")
    <3>1. "id" \in Places /\ "flat" \in Places /\ "dst" \in Places /\ "islink" \in Places
      BY DEF Places
    <3>2. QED
      BY <1>3, <3>1 DEF CopyChecks, At, Same
  <2>2. RemoveCall(Top(x).q, {"recurse"}) \in Frames /\ "islink" \in Places
    BY <1>2, CallFrames DEF Places, Flags
  <2>3. StackType'
    BY <1>1, <2>1, <2>2, TypeMoves DEF WellTyped
  <2>4. QED
    BY <2>1, <2>3 DEF WellTyped
<1>4. CASE CopySpecial(x)
  <2> DEFINE to == ReadLink(tree, Top(x).p)
  <2>1. "readlink" \in Places /\ "isdir" \in Places /\ "opendir" \in Places /\ "in" \in Places
    BY DEF Places
  <2>2. to \in Paths
    BY <1>2, LinkPath DEF WellTyped
  <2>3. MakeSymlinkCall(to, Top(x).q, {}) \in Frames /\ MakeDirectoryCall(Top(x).q, {}) \in Frames
    BY <1>2, <2>2, CallFrames
  <2>4. UNCHANGED tree /\ \/ \E pc \in Places : Goto(x, pc)
                          \/ Becomes(x, MakeSymlinkCall(to, Top(x).q, {}))
                          \/ Invoke(x, MakeDirectoryCall(Top(x).q, {}), "opendir")
                          \/ Return(x)
                          \/ \E k \in Top(x).kids :
                                stack' = [stack EXCEPT ![x] = <<CopyToCall(k, Append(Top(x).q, Last(k)), {"recurse"}),
                                                                [Top(x) EXCEPT !.kids = @ \ {k}]>> \o Tail(@)]
    BY <1>4, <2>1 DEF CopySpecial, Same
  <2>5. ASSUME NEW k \in Top(x).kids,
               stack' = [stack EXCEPT ![x] = <<CopyToCall(k, Append(Top(x).q, Last(k)), {"recurse"}),
                                               [Top(x) EXCEPT !.kids = @ \ {k}]>> \o Tail(@)]
        PROVE  StackType'
    <3>1. Append(Top(x).q, Last(k)) \in Paths
      <4>1. k \in Seq(STRING) /\ k # <<>> /\ Top(x).q \in Seq(STRING)
        BY <1>2 DEF Paths
      <4>2. Len(k) \in 1 .. Len(k)
        BY <4>1, EmptySeq
      <4>3. Last(k) \in STRING
        BY <4>1, <4>2, ElementOfSeq DEF Last
      <4>4. QED
        BY <4>1, <4>3 DEF Paths
    <3>2. CopyToCall(k, Append(Top(x).q, Last(k)), {"recurse"}) \in Frames
      BY <1>2, <3>1, CallFrames DEF Flags
    <3>3. [Top(x) EXCEPT !.kids = @ \ {k}] \in Frames
      BY <1>2 DEF Frames
    <3>4. QED
      BY <1>1, <2>5, <3>2, <3>3, StackMoves DEF WellTyped
  <2>6. StackType'
    BY <1>1, <2>1, <2>3, <2>4, <2>5, TypeMoves DEF WellTyped
  <2>7. QED
    BY <2>4, <2>6 DEF WellTyped
<1>5. CASE CopyListing(x)
  BY <1>1, <1>5, ListingType DEF CopyListing
<1>6. CASE CopyOpens(x)
  <2>1. CASE OpenToWrite(x, Top(x).q, FALSE)
    BY <1>1, <1>2, <2>1, OpenedGood
  <2>2. CASE Same /\ ((\E e : Throw(x, e)) \/ Becomes(x, [Top(x) EXCEPT !.pc = "out", !.in = Id(tree, Top(x).p)]))
    <3>1. Id(tree, Top(x).p) \in Nat
      <4>1. CASE Stat(tree, Top(x).p) = "none"
        BY <4>1 DEF Id
      <4>2. CASE Stat(tree, Top(x).p) # "none"
        <5>1. Follow(tree, Top(x).p) \in DOMAIN tree
          BY <4>2 DEF Stat, Kind
        <5>2. QED
          BY <4>2, <5>1, FileSystemAssumption DEF Id, WellTyped, GoodTree, IsNode
      <4>3. QED
        BY <4>1, <4>2
    <3>2. [Top(x) EXCEPT !.pc = "out", !.in = Id(tree, Top(x).p)] \in Frames
      BY <1>2, <3>1 DEF Frames, Places
    <3>3. QED
      BY <1>1, <2>2, <3>2, TypeMoves DEF WellTyped, Same
  <2>3. QED
    BY <1>6, <2>1, <2>2 DEF CopyOpens
<1>7. CASE CopyData(x)
  BY <1>1, <1>7, WriteType DEF CopyData
<1>8. QED
  BY <1>3, <1>4, <1>5, <1>6, <1>7 DEF copy_to

LEMMA MoveToType ==
    ASSUME WellTyped, NEW x \in Procs, move_to(x)
    PROVE  WellTyped'
<1>1. stack[x] # <<>>
  BY AtRuns DEF move_to, MoveChecks, MoveRenames
<1>2. Top(x) \in Frames /\ Top(x).p \in Paths /\ Top(x).q \in Paths
  BY <1>1, TopOf DEF WellTyped, Frames
<1>3. /\ RemoveCall(Top(x).p, {"recurse"}) \in Frames /\ RemoveCall(Top(x).q, {"recurse"}) \in Frames
      /\ CopyToCall(Top(x).p, Top(x).q, {"recurse"}) \in Frames
      /\ "dst" \in Places /\ "rename" \in Places /\ "copied" \in Places
  BY <1>2, CallFrames DEF Places, Flags
<1>4. CASE MoveChecks(x)
  <2>1. UNCHANGED tree /\ \/ Return(x)
                          \/ \E e : Throw(x, e)
                          \/ \E pc \in Places : Goto(x, pc)
                          \/ Invoke(x, RemoveCall(Top(x).q, {"recurse"}), "rename")
                          \/ Becomes(x, RemoveCall(Top(x).p, {"recurse"}))
    BY <1>3, <1>4 DEF MoveChecks, At, Same
  <2>2. StackType'
    BY <1>1, <1>3, <2>1, TypeMoves DEF WellTyped
  <2>3. QED
    BY <2>1, <2>2 DEF WellTyped
<1>5. CASE MoveRenames(x)
  <2> DEFINE error == RenameError(tree, Top(x).p, Top(x).q)
  <2>1. /\ tree' = IF error = "ok" THEN Moved(tree, Top(x).p, Top(x).q) ELSE tree
        /\ Return(x) \/ (\E e : Throw(x, e)) \/ Invoke(x, CopyToCall(Top(x).p, Top(x).q, {"recurse"}), "copied")
    BY <1>5 DEF MoveRenames
  <2>2. StackType'
    BY <1>1, <1>3, <2>1, TypeMoves DEF WellTyped
  <2>3. GoodTree(tree')
    BY <1>2, <2>1, MovedGood DEF WellTyped
  <2>4. QED
    BY <2>2, <2>3 DEF WellTyped
<1>6. QED
  BY <1>4, <1>5 DEF move_to

LEMMA CreateType ==
    ASSUME WellTyped, NEW x \in Procs, create(x)
    PROVE  WellTyped'
<1>1. stack[x] # <<>>
  BY AtRuns DEF create
<1>2. Top(x) \in Frames /\ Top(x).p \in Paths
  BY <1>1, TopOf DEF WellTyped, Frames
<1>3. SaveCall(Top(x).p, {}) \in Frames
  BY <1>2, CallFrames
<1>4. UNCHANGED tree /\ (Return(x) \/ Becomes(x, SaveCall(Top(x).p, {})))
  BY DEF create, Same
<1>5. QED
  BY <1>1, <1>3, <1>4, TypeMoves DEF WellTyped

LEMMA SaveType ==
    ASSUME ~IsFiniteSet(Inodes), WellTyped, NEW x \in Procs, save(x)
    PROVE  WellTyped'
<1>1. stack[x] # <<>>
  BY AtRuns DEF save
<1>2. Top(x) \in Frames /\ Top(x).p \in Paths
  BY <1>1, TopOf DEF WellTyped, Frames
<1>3. CASE Same /\ (Return(x) \/ (\E e : Throw(x, e)) \/ \E pc \in Places : Goto(x, pc))
  BY <1>1, <1>3, TypeMoves DEF WellTyped, Same
<1>4. CASE \E append : OpenToWrite(x, Top(x).p, append)
  BY <1>1, <1>2, <1>4, OpenedGood
<1>5. CASE \E blocks, append : WriteBlocks(x, blocks, append)
  BY <1>1, <1>5, WriteType
<1>6. "open" \in Places
  BY DEF Places
<1>7. QED
  BY <1>3, <1>4, <1>5, <1>6 DEF save

\* No step changes what the calls are or what was there before.
LEMMA StepKeeps ==
    ASSUME NEW x \in Procs, Step(x)
    PROVE  UNCHANGED <<call, before>>
<1>1. remove(x) => UNCHANGED <<call, before>>
  BY DEF remove, RemoveAsks, RemoveChild, RemoveItself, OpenDirectory, Same
<1>2. make_directory(x) => UNCHANGED <<call, before>>
  BY Zenon DEF make_directory
<1>3. make_symlink(x) => UNCHANGED <<call, before>>
  BY Zenon DEF make_symlink
<1>4. copy_to(x) => UNCHANGED <<call, before>>
  BY DEF copy_to, CopyChecks, CopySpecial, CopyListing, CopyOpens, CopyData, OpenDirectory, OpenToWrite, WriteBlocks, DataFails, Same
<1>5. move_to(x) => UNCHANGED <<call, before>>
  BY DEF move_to, MoveChecks, MoveRenames, Same
<1>6. create(x) => UNCHANGED <<call, before>>
  BY DEF create, Same
<1>7. save(x) => UNCHANGED <<call, before>>
  BY DEF save, OpenToWrite, WriteBlocks, DataFails, Same
<1>8. QED
  BY <1>1, <1>2, <1>3, <1>4, <1>5, <1>6, <1>7 DEF Step

\* What is given and never changes.
Given == call \in Calls /\ before \in Trees

LEMMA CallTypes ==
    ASSUME Given, NEW x \in Procs
    PROVE  /\ call[x] \in Frames
           /\ call[x].op = "remove" => call[x] = RemoveCall(call[x].p, call[x].flags)
           /\ call[x].op = "make_directory" => call[x] = MakeDirectoryCall(call[x].p, call[x].flags)
           /\ call[x].op = "save" => call[x] = SaveCall(call[x].p, call[x].flags)
           /\ GoodTree(before) /\ \A p \in DOMAIN before : PathError(before, p) = "ok"
<1>1. IsCall(call[x])
  BY FileOpsAssumption DEF Given
<1>2. GoodTree(before) /\ \A p \in DOMAIN before : PathError(before, p) = "ok"
  BY FoundGood DEF Given
<1>3. CASE call[x] = NoCall
  <2>1. NoCall \in Frames /\ NoCall.op = "none"
    BY DEF NoCall, Frame, Frames, Ops, Places, Paths
  <2>2. QED
    BY <1>2, <1>3, <2>1
<1>4. CASE call[x] # NoCall
  <2> DEFINE c == call[x]
  <2>1. /\ c.p \in Paths /\ c.q \in Paths /\ c.flags \in SUBSET Flags
        /\ c \in {RemoveCall(c.p, c.flags), MakeDirectoryCall(c.p, c.flags), MakeSymlinkCall(c.p, c.q, c.flags),
                  CopyToCall(c.p, c.q, c.flags), MoveToCall(c.p, c.q, c.flags), SaveCall(c.p, c.flags), CreateCall(c.p)}
    BY <1>1, <1>4 DEF IsCall
  <2>2. c \in Frames
    BY <2>1, CallFrames
  <2>3. /\ RemoveCall(c.p, c.flags).op = "remove" /\ MakeDirectoryCall(c.p, c.flags).op = "make_directory"
        /\ MakeSymlinkCall(c.p, c.q, c.flags).op = "make_symlink" /\ CopyToCall(c.p, c.q, c.flags).op = "copy_to"
        /\ MoveToCall(c.p, c.q, c.flags).op = "move_to" /\ SaveCall(c.p, c.flags).op = "save"
        /\ CreateCall(c.p).op = "create"
    BY DEF Frame, RemoveCall, MakeDirectoryCall, MakeSymlinkCall, CopyToCall, MoveToCall, SaveCall, CreateCall
  <2> HIDE DEF c
  <2>4. /\ c.op = "remove" => c = RemoveCall(c.p, c.flags)
        /\ c.op = "make_directory" => c = MakeDirectoryCall(c.p, c.flags)
        /\ c.op = "save" => c = SaveCall(c.p, c.flags)
    BY <2>1, <2>3
  <2>5. QED
    BY <1>2, <2>2, <2>4 DEF c
<1>5. QED
  BY <1>3, <1>4

\* Each process has made its call and nothing else.
LEMMA InitTypes ==
    ASSUME Init
    PROVE  Given /\ WellTyped
<1>1. Given
  BY DEF Init, Given
<1>2. \A x \in Procs : call[x] \in Frames
  BY <1>1, CallTypes
<1>3. StackType
  BY <1>2 DEF Init, StackType
<1>4. GoodTree(tree)
  BY FoundGood DEF Init
<1>5. QED
  BY <1>1, <1>3, <1>4 DEF WellTyped

LEMMA TypedStep ==
    ASSUME ~IsFiniteSet(Inodes), WellTyped, Given, [Next]_vars
    PROVE  WellTyped' /\ Given'
<1>1. CASE Next
  <2>1. PICK x \in Procs : Step(x)
    BY <1>1 DEF Next
  <2>2. Given'
    BY <2>1, StepKeeps DEF Given
  <2>3. WellTyped'
    BY <2>1, RemoveType, MakeDirectoryType, MakeSymlinkType, CopyToType, MoveToType, CreateType, SaveType DEF Step
  <2>4. QED
    BY <2>2, <2>3
<1>2. CASE UNCHANGED vars
  BY <1>2 DEF vars, WellTyped, Given, StackType
<1>3. QED
  BY <1>1, <1>2

-----------------------------------------------------------------------------
(* Processes that remove trees                                             *)

Removing ==
    \A x \in Procs : \/ call[x] = NoCall
                     \/ /\ call[x].op = "remove" /\ "recurse" \in call[x].flags
                        /\ PathError(before, call[x].p) \in {"ok", "ENOENT"}

\* There is nothing new.
Shrunk(t, old) == DOMAIN t \subseteq DOMAIN old /\ \A p \in DOMAIN t : t[p] = old[p]

RemoverFrame(x, f) ==
    /\ call[x] # NoCall /\ f.op = "remove" /\ "recurse" \in f.flags
    /\ Inside(f.p, call[x].p) /\ PathError(before, f.p) \in {"ok", "ENOENT"}
    /\ f.pc \in {"isdir", "islink", "opendir", "kids", "remove"}
    /\ f.pc = "kids" => \A k \in f.kids : k \in DOMAIN before /\ Inside(k, f.p)

\* A call waits for the one above it, which removes one of its members; the
\* others are still to come or gone.
RemoverStack(x) ==
    \A i \in 1 .. Len(stack[x]) :
        /\ RemoverFrame(x, stack[x][i])
        /\ i = Len(stack[x]) => stack[x][i].p = call[x].p
        /\ i > 1 => /\ stack[x][i].pc = "kids"
                    /\ Children(tree, stack[x][i].p) \subseteq stack[x][i].kids \cup {stack[x][i - 1].p}

RemoverTop(x) ==
    stack[x] # <<>> =>
        /\ Top(x).pc = "opendir" => Kind(tree, Top(x).p) # "link"
        /\ Top(x).pc = "kids" => Children(tree, Top(x).p) \subseteq Top(x).kids
        /\ Top(x).pc = "remove" /\ Top(x).p \in DOMAIN tree => Children(tree, Top(x).p) = {}

RemoverResult(x) ==
    result[x] \in {"none", "running", "ok"} /\ (result[x] = "ok" => call[x].p \notin DOMAIN tree)

OnlyAsked ==
    \A r \in DOMAIN before : r \in DOMAIN tree \/ \E x \in Procs : call[x] # NoCall /\ Inside(r, call[x].p)

Removers == Shrunk(tree, before) /\ OnlyAsked /\ \A x \in Procs : RemoverStack(x) /\ RemoverTop(x) /\ RemoverResult(x)

\* A usable path stays usable or is gone.
LEMMA PathShrinks ==
    ASSUME Shrunk(tree, before), NEW p \in Paths, PathError(before, p) \in {"ok", "ENOENT"}
    PROVE  PathError(tree, p) \in {"ok", "ENOENT"}
<1>1. Kind(tree, Front(p)) \in {"none", Kind(before, Front(p))}
  BY DEF Shrunk, Kind
<1>2. QED
  BY <1>1 DEF PathError

\* Only a directory has members.
LEMMA FileChildless ==
    ASSUME NEW t, GoodTree(t), NEW p \in DOMAIN t, t[p].kind # "dir"
    PROVE  Children(t, p) = {}
<1>1. SUFFICES ASSUME NEW q \in Children(t, p) PROVE FALSE
  OBVIOUS
<1>2. q \in DOMAIN t /\ q \in Paths /\ p \in Paths /\ p # <<>> /\ Len(q) = Len(p) + 1 /\ Inside(q, p)
  BY DEF Children, GoodTree
<1>3. Len(p) \in Nat /\ Len(p) # 0 /\ UpTo(q, Len(p)) = p
  BY <1>2, InsideUpTo, EmptySeq DEF Paths
<1>4. Len(p) \in 1 .. (Len(q) - 1)
  BY <1>2, <1>3
<1>5. Kind(t, p) = "dir"
  BY <1>2, <1>3, <1>4 DEF GoodTree, InDirectories, UpTo
<1>6. QED
  BY <1>5 DEF Kind

\* A path that cannot be used is not there.
LEMMA NoWayNoFile ==
    ASSUME NEW t, GoodTree(t), NEW p \in Paths, PathError(t, p) = "ENOENT"
    PROVE  p \notin DOMAIN t
<1>1. Len(p) = 0 \/ (Len(p) > 1 /\ Kind(t, Front(p)) = "none")
  BY PathErrors
<1>2. CASE Len(p) = 0
  BY <1>2, EmptySeq DEF GoodTree, Paths
<1>3. ASSUME Len(p) > 1, Kind(t, Front(p)) = "none", p \in DOMAIN t PROVE FALSE
  <2>1. Len(p) \in Nat
    BY DEF Paths
  <2>2. Len(p) - 1 \in 1 .. (Len(p) - 1)
    BY <1>3, <2>1
  <2>3. Kind(t, Front(p)) = "dir"
    BY <1>3, <2>2 DEF GoodTree, InDirectories, Front
  <2>4. QED
    BY <1>3, <2>3
<1>4. QED
  BY <1>1, <1>2, <1>3

\* What is not a link is not followed.
LEMMA NoLink ==
    ASSUME NEW t, NEW p, Kind(t, p) # "link"
    PROVE  Follow(t, p) = p /\ Stat(t, p) = Kind(t, p)
BY DEF Follow, ReadLink, Stat

\* Calls of which no frame changes stay as they are when something goes.
LEMMA RemoverStays ==
    ASSUME NEW y \in Procs, RemoverStack(y), RemoverTop(y), stack'[y] = stack[y], UNCHANGED <<call, before>>,
           DOMAIN tree' \subseteq DOMAIN tree, \A p \in DOMAIN tree' : tree'[p] = tree[p]
    PROVE  RemoverStack(y)' /\ RemoverTop(y)'
<1>1. \A p : Children(tree', p) \subseteq Children(tree, p)
  BY DEF Children
<1>2. \A p : Kind(tree', p) = "link" => Kind(tree, p) = "link"
  BY DEF Kind
<1>3. \A f : RemoverFrame(y, f)' <=> RemoverFrame(y, f)
  BY DEF RemoverFrame
<1>4. RemoverStack(y)'
  <2>1. SUFFICES ASSUME NEW i \in 1 .. Len(stack[y])
                 PROVE  /\ RemoverFrame(y, stack[y][i])
                        /\ i = Len(stack[y]) => stack[y][i].p = call[y].p
                        /\ i > 1 => /\ stack[y][i].pc = "kids"
                                    /\ Children(tree', stack[y][i].p) \subseteq stack[y][i].kids \cup {stack[y][i - 1].p}
    BY <1>3 DEF RemoverStack, RemoverFrame
  <2>2. QED
    BY <1>1 DEF RemoverStack
<1>5. RemoverTop(y)'
  <2>1. SUFFICES ASSUME stack[y] # <<>>
                 PROVE  /\ Top(y).pc = "opendir" => Kind(tree', Top(y).p) # "link"
                        /\ Top(y).pc = "kids" => Children(tree', Top(y).p) \subseteq Top(y).kids
                        /\ Top(y).pc = "remove" /\ Top(y).p \in DOMAIN tree' => Children(tree', Top(y).p) = {}
    BY DEF RemoverTop, Top
  <2>2. QED
    BY <1>1, <1>2, <2>1 DEF RemoverTop
<1>6. QED
  BY <1>4, <1>5

\* The innermost call goes on.
LEMMA RemoverGoesOn ==
    ASSUME WellTyped, Given, NEW x \in Procs, RemoverStack(x), stack[x] # <<>>, UNCHANGED <<tree, call, before>>,
           NEW f \in Frames, stack' = [stack EXCEPT ![x][1] = f], RemoverFrame(x, f), f.p = Top(x).p,
           f.pc = "opendir" => Kind(tree, f.p) # "link",
           f.pc = "kids" => Children(tree, f.p) \subseteq f.kids,
           f.pc = "remove" /\ f.p \in DOMAIN tree => Children(tree, f.p) = {}
    PROVE  RemoverStack(x)' /\ RemoverTop(x)'
<1>1. /\ StackType' /\ stack'[x] # <<>> /\ stack'[x][1] = f /\ Len(stack'[x]) = Len(stack[x])
      /\ \A i \in 2 .. Len(stack[x]) : stack'[x][i] = stack[x][i]
  BY StackMoves DEF WellTyped
<1>2. Len(stack[x]) \in Nat /\ Len(stack[x]) >= 1 /\ Top(x) = stack[x][1]
  BY TopOf DEF WellTyped, Top
<1>3. \A g : RemoverFrame(x, g)' <=> RemoverFrame(x, g)
  BY DEF RemoverFrame
<1>4. ASSUME NEW i \in 1 .. Len(stack[x])
      PROVE  /\ RemoverFrame(x, stack'[x][i])
             /\ i = Len(stack[x]) => stack'[x][i].p = call[x].p
             /\ i > 1 => /\ stack'[x][i].pc = "kids"
                         /\ Children(tree, stack'[x][i].p) \subseteq stack'[x][i].kids \cup {stack'[x][i - 1].p}
  <2>1. /\ RemoverFrame(x, stack[x][i])
        /\ i = Len(stack[x]) => stack[x][i].p = call[x].p
        /\ i > 1 => /\ stack[x][i].pc = "kids"
                    /\ Children(tree, stack[x][i].p) \subseteq stack[x][i].kids \cup {stack[x][i - 1].p}
    BY DEF RemoverStack
  <2>2. CASE i = 1
    BY <1>1, <1>2, <2>1, <2>2
  <2>3. CASE i > 1
    <3>1. stack'[x][i] = stack[x][i]
      BY <1>1, <2>3
    <3>2. stack'[x][i - 1].p = stack[x][i - 1].p
      <4>1. CASE i = 2
        BY <1>1, <1>2, <4>1
      <4>2. CASE i > 2
        <5>1. i - 1 \in 2 .. Len(stack[x])
          BY <1>2, <4>2
        <5>2. QED
          BY <1>1, <5>1
      <4>3. QED
        BY <2>3, <4>1, <4>2
    <3>3. QED
      BY <2>1, <3>1, <3>2
  <2>4. QED
    BY <2>2, <2>3
<1>5. RemoverStack(x)'
  BY <1>1, <1>3, <1>4 DEF RemoverStack
<1>6. RemoverTop(x)'
  BY <1>1 DEF RemoverTop, Top
<1>7. QED
  BY <1>5, <1>6

\* What a step does to the call of the process that takes it.
LEMMA RemoverAsks ==
    ASSUME WellTyped, Given, NEW x \in Procs, RemoverStack(x), RemoverTop(x), Shrunk(tree, before), RemoveAsks(x)
    PROVE  RemoverStack(x)' /\ RemoverTop(x)' /\ UNCHANGED <<tree, call, before, result>>
           /\ \A y \in Procs \ {x} : stack'[y] = stack[y]
<1> DEFINE f == Top(x)
<1>1. stack[x] # <<>> /\ f \in Frames /\ RemoverFrame(x, f) /\ f.p \in Paths /\ f.op = "remove"
  <2>1. stack[x] # <<>> /\ f.op = "remove"
    BY AtRuns DEF RemoveAsks
  <2>2. f \in Frames /\ 1 \in 1 .. Len(stack[x])
    BY <2>1, TopOf DEF WellTyped
  <2>3. QED
    BY <2>1, <2>2 DEF RemoverStack, Top, Frames
<1>2. UNCHANGED <<tree, call, before>>
  BY DEF RemoveAsks, Same, OpenDirectory
<1>3. GoodTree(tree)
  BY DEF WellTyped
<1>4. ASSUME NEW pc \in {"islink", "opendir", "remove"}, Goto(x, pc),
             pc = "opendir" => Kind(tree, f.p) # "link",
             pc = "remove" /\ f.p \in DOMAIN tree => Children(tree, f.p) = {}
      PROVE  RemoverStack(x)' /\ RemoverTop(x)' /\ UNCHANGED <<tree, call, before, result>>
             /\ \A y \in Procs \ {x} : stack'[y] = stack[y]
  <2> DEFINE g == [f EXCEPT !.pc = pc]
  <2>1. g \in Frames /\ g.p = f.p /\ g.pc = pc /\ g.op = f.op /\ g.flags = f.flags
    BY <1>1 DEF Frames, Places
  <2>2. stack' = [stack EXCEPT ![x][1] = g] /\ UNCHANGED result
    BY <1>4 DEF Goto, Becomes
  <2>3. RemoverFrame(x, g)
    BY <1>1, <2>1 DEF RemoverFrame
  <2> HIDE DEF g
  <2>4. RemoverStack(x)' /\ RemoverTop(x)'
    BY <1>1, <1>2, <1>4, <2>1, <2>2, <2>3, RemoverGoesOn
  <2>5. \A y \in Procs \ {x} : stack'[y] = stack[y]
    BY <1>1, <2>1, <2>2, StackMoves DEF WellTyped
  <2>6. QED
    BY <1>2, <2>2, <2>4, <2>5
<1>5. CASE At(x, "remove", "isdir") /\ Same /\ Goto(x, IF Stat(tree, f.p) = "dir" THEN "islink" ELSE "remove")
  <2>1. ASSUME Stat(tree, f.p) # "dir", f.p \in DOMAIN tree PROVE Children(tree, f.p) = {}
    <3>1. tree[f.p].kind # "dir"
      BY <2>1, NoLink DEF Kind
    <3>2. QED
      BY <1>3, <2>1, <3>1, FileChildless
  <2>2. CASE Stat(tree, f.p) = "dir"
    BY <1>4, <1>5, <2>2
  <2>3. CASE Stat(tree, f.p) # "dir"
    <3>1. Goto(x, "remove")
      BY <1>5, <2>3
    <3>2. QED
      BY <1>4, <2>1, <2>3, <3>1
  <2>4. QED
    BY <2>2, <2>3
<1>6. CASE At(x, "remove", "islink") /\ Same /\ Goto(x, IF Kind(tree, f.p) = "link" THEN "remove" ELSE "opendir")
  <2>1. CASE Kind(tree, f.p) = "link"
    <3>1. f.p \in DOMAIN tree => Children(tree, f.p) = {}
      BY <1>3, <2>1, FileChildless DEF Kind
    <3>2. Goto(x, "remove")
      BY <1>6, <2>1
    <3>3. QED
      BY <1>4, <3>1, <3>2
  <2>2. CASE Kind(tree, f.p) # "link"
    BY <1>4, <1>6, <2>2
  <2>3. QED
    BY <2>1, <2>2
<1>7. CASE At(x, "remove", "opendir") /\ OpenDirectory(x)
  <2> DEFINE kids == Children(tree, Follow(tree, f.p))
             g == [f EXCEPT !.pc = "kids", !.kids = kids]
  <2>1. Kind(tree, f.p) # "link"
    BY <1>1, <1>7, AtRuns DEF RemoverTop
  <2>2. kids = Children(tree, f.p)
    BY <2>1, NoLink
  <2>3. \A k \in kids : k \in DOMAIN before /\ Inside(k, f.p) /\ k \in Paths /\ k # <<>>
    BY <2>2, <1>3 DEF Children, Shrunk, GoodTree
  <2> HIDE DEF kids
  <2>4. g \in Frames /\ g.p = f.p /\ g.pc = "kids" /\ g.op = f.op /\ g.flags = f.flags /\ g.kids = kids
    BY <1>1, <2>3 DEF Frames, Places
  <2>5. stack' = [stack EXCEPT ![x][1] = g] /\ UNCHANGED result
    BY <1>7 DEF OpenDirectory, Becomes, kids
  <2>6. RemoverFrame(x, g)
    BY <1>1, <2>3, <2>4 DEF RemoverFrame
  <2> HIDE DEF g
  <2>7. RemoverStack(x)' /\ RemoverTop(x)'
    BY <1>1, <1>2, <2>2, <2>4, <2>5, <2>6, RemoverGoesOn
  <2>8. \A y \in Procs \ {x} : stack'[y] = stack[y]
    BY <1>1, <2>4, <2>5, StackMoves DEF WellTyped
  <2>9. QED
    BY <1>2, <2>5, <2>7, <2>8
<1>8. QED
  BY <1>5, <1>6, <1>7 DEF RemoveAsks

LEMMA RemoverChild ==
    ASSUME WellTyped, Given, NEW x \in Procs, RemoverStack(x), RemoverTop(x), Shrunk(tree, before), RemoveChild(x)
    PROVE  RemoverStack(x)' /\ RemoverTop(x)' /\ UNCHANGED <<tree, call, before, result>>
           /\ \A y \in Procs \ {x} : stack'[y] = stack[y]
<1> DEFINE f == Top(x)
<1>1. /\ stack[x] # <<>> /\ f \in Frames /\ RemoverFrame(x, f) /\ f.p \in Paths /\ f.op = "remove" /\ f.pc = "kids"
      /\ Len(stack[x]) \in Nat /\ Len(stack[x]) >= 1 /\ f = stack[x][1]
      /\ 1 = Len(stack[x]) => f.p = call[x].p
  <2>1. stack[x] # <<>> /\ f.op = "remove" /\ f.pc = "kids"
    BY AtRuns DEF RemoveChild
  <2>2. f \in Frames /\ 1 \in 1 .. Len(stack[x]) /\ Len(stack[x]) \in Nat
    BY <2>1, TopOf DEF WellTyped
  <2>3. QED
    BY <2>1, <2>2 DEF RemoverStack, Top, Frames
<1>2. UNCHANGED <<tree, call, before>>
  BY DEF RemoveChild, Same
<1>3. Children(tree, f.p) \subseteq f.kids
  BY <1>1 DEF RemoverTop
<1>4. CASE f.kids = {} /\ Goto(x, "remove")
  <2> DEFINE g == [f EXCEPT !.pc = "remove"]
  <2>1. g \in Frames /\ g.p = f.p /\ g.pc = "remove" /\ g.op = f.op /\ g.flags = f.flags
    BY <1>1 DEF Frames, Places
  <2>2. stack' = [stack EXCEPT ![x][1] = g] /\ UNCHANGED result
    BY <1>4 DEF Goto, Becomes
  <2>3. RemoverFrame(x, g)
    BY <1>1, <2>1 DEF RemoverFrame
  <2>4. Children(tree, f.p) = {}
    BY <1>3, <1>4
  <2> HIDE DEF g
  <2>5. RemoverStack(x)' /\ RemoverTop(x)'
    BY <1>1, <1>2, <2>1, <2>2, <2>3, <2>4, RemoverGoesOn
  <2>6. \A y \in Procs \ {x} : stack'[y] = stack[y]
    BY <1>1, <2>1, <2>2, StackMoves DEF WellTyped
  <2>7. QED
    BY <1>2, <2>2, <2>5, <2>6
<1>5. ASSUME NEW k \in f.kids, UNCHANGED result,
             stack' = [stack EXCEPT ![x] = <<RemoveCall(k, {"recurse"}), [f EXCEPT !.kids = @ \ {k}]>> \o Tail(@)]
      PROVE  RemoverStack(x)' /\ RemoverTop(x)' /\ UNCHANGED <<tree, call, before, result>>
             /\ \A y \in Procs \ {x} : stack'[y] = stack[y]
  <2> DEFINE g == RemoveCall(k, {"recurse"})
             h == [f EXCEPT !.kids = @ \ {k}]
  <2>1. h \in Frames /\ h.p = f.p /\ h.pc = "kids" /\ h.op = f.op /\ h.flags = f.flags /\ h.kids = f.kids \ {k}
    BY <1>1 DEF Frames
  <2>2. k \in DOMAIN before /\ Inside(k, f.p) /\ k \in Paths /\ PathError(before, k) = "ok"
    BY <1>1, CallTypes DEF RemoverFrame, Frames
  <2>3. g \in Frames /\ g.p = k /\ g.pc = "isdir" /\ g.op = "remove" /\ g.flags = {"recurse"}
    BY <2>2, CallFrames DEF RemoveCall, Frame, Flags
  <2>4. call[x].p \in Paths
    BY CallTypes DEF Frames
  <2>5. RemoverFrame(x, g)
    BY <1>1, <2>2, <2>3, <2>4, InsideUp DEF RemoverFrame
  <2>6. RemoverFrame(x, h)
    BY <1>1, <2>1 DEF RemoverFrame
  <2>7. stack' = [stack EXCEPT ![x] = <<g, h>> \o Tail(@)]
    BY <1>5
  <2> HIDE DEF g, h
  <2>8. /\ StackType' /\ stack'[x] # <<>> /\ stack'[x][1] = g /\ stack'[x][2] = h
        /\ Len(stack'[x]) = Len(stack[x]) + 1
        /\ \A i \in 3 .. (Len(stack[x]) + 1) : stack'[x][i] = stack[x][i - 1]
        /\ \A y \in Procs \ {x} : stack'[y] = stack[y]
    BY <1>1, <2>1, <2>3, <2>7, StackMoves DEF WellTyped
  <2>9. \A e : RemoverFrame(x, e)' <=> RemoverFrame(x, e)
    BY <1>2 DEF RemoverFrame
  <2>10. ASSUME NEW i \in 1 .. (Len(stack[x]) + 1)
         PROVE  /\ RemoverFrame(x, stack'[x][i])
                /\ i = Len(stack[x]) + 1 => stack'[x][i].p = call[x].p
                /\ i > 1 => /\ stack'[x][i].pc = "kids"
                            /\ Children(tree, stack'[x][i].p) \subseteq stack'[x][i].kids \cup {stack'[x][i - 1].p}
    <3>1. CASE i = 1
      BY <1>1, <2>5, <2>8, <3>1
    <3>2. CASE i = 2
      <4>1. Children(tree, h.p) \subseteq h.kids \cup {g.p}
        BY <1>3, <2>1, <2>3
      <4>2. i = Len(stack[x]) + 1 => h.p = call[x].p
        <5>1. \A n \in Nat : 2 = n + 1 => 1 = n
          OBVIOUS
        <5>2. QED
          BY <1>1, <2>1, <3>2, <5>1, Zenon
      <4>3. QED
        BY <2>1, <2>6, <2>8, <3>2, <4>1, <4>2
    <3>3. CASE i > 2
      <4>1. i \in 3 .. (Len(stack[x]) + 1) /\ i - 1 \in 1 .. Len(stack[x]) /\ i - 1 > 1
            /\ (i = Len(stack[x]) + 1 => i - 1 = Len(stack[x]))
        BY <1>1, <3>3
      <4>2. /\ RemoverFrame(x, stack[x][i - 1])
            /\ i - 1 = Len(stack[x]) => stack[x][i - 1].p = call[x].p
            /\ stack[x][i - 1].pc = "kids"
            /\ Children(tree, stack[x][i - 1].p) \subseteq stack[x][i - 1].kids \cup {stack[x][i - 1 - 1].p}
        BY <4>1 DEF RemoverStack
      <4>3. stack'[x][i] = stack[x][i - 1]
        BY <2>8, <4>1
      <4>4. stack'[x][i - 1].p = stack[x][i - 1 - 1].p
        <5>1. CASE i = 3
          BY <1>1, <2>1, <2>8, <5>1
        <5>2. CASE i > 3
          <6>1. i - 1 \in 3 .. (Len(stack[x]) + 1)
            BY <4>1, <5>2
          <6>2. QED
            BY <2>8, <6>1
        <5>3. QED
          BY <3>3, <5>1, <5>2
      <4>5. QED
        BY <4>1, <4>2, <4>3, <4>4
    <3>4. QED
      BY <3>1, <3>2, <3>3
  <2>11. RemoverStack(x)'
    <3>1. \A i \in 1 .. Len(stack'[x]) :
             /\ RemoverFrame(x, stack'[x][i])
             /\ i = Len(stack'[x]) => stack'[x][i].p = call'[x].p
             /\ i > 1 => /\ stack'[x][i].pc = "kids"
                         /\ Children(tree', stack'[x][i].p) \subseteq stack'[x][i].kids \cup {stack'[x][i - 1].p}
      BY <1>2, <2>8, <2>10, Zenon
    <3>2. QED
      BY <1>2, <3>1 DEF RemoverStack, RemoverFrame
  <2>12. RemoverTop(x)'
    BY <2>3, <2>8 DEF RemoverTop, Top
  <2>13. QED
    BY <1>2, <1>5, <2>8, <2>11, <2>12
<1>6. QED
  BY <1>4, <1>5 DEF RemoveChild

LEMMA RemoverItself ==
    ASSUME WellTyped, Given, NEW x \in Procs, RemoverStack(x), RemoverTop(x), RemoverResult(x), Shrunk(tree, before),
           RemoveItself(x)
    PROVE  /\ RemoverStack(x)' /\ RemoverTop(x)' /\ RemoverResult(x)' /\ UNCHANGED <<call, before>>
           /\ DOMAIN tree' \subseteq DOMAIN tree /\ \A p \in DOMAIN tree' : tree'[p] = tree[p]
           /\ \A p \in DOMAIN tree \ DOMAIN tree' : call[x] # NoCall /\ Inside(p, call[x].p)
           /\ \A y \in Procs \ {x} : stack'[y] = stack[y] /\ (result'[y] = result[y])
<1> DEFINE f == Top(x)
           error == RemoveError(tree, f.p)
<1>1. /\ stack[x] # <<>> /\ f \in Frames /\ RemoverFrame(x, f) /\ f.p \in Paths /\ f.op = "remove" /\ f.pc = "remove"
      /\ Len(stack[x]) \in Nat /\ Len(stack[x]) >= 1 /\ f = stack[x][1]
      /\ 1 = Len(stack[x]) => f.p = call[x].p
  <2>1. stack[x] # <<>> /\ f.op = "remove" /\ f.pc = "remove"
    BY AtRuns DEF RemoveItself
  <2>2. f \in Frames /\ 1 \in 1 .. Len(stack[x]) /\ Len(stack[x]) \in Nat
    BY <2>1, TopOf DEF WellTyped
  <2>3. QED
    BY <2>1, <2>2 DEF RemoverStack, Top, Frames
<1>2. UNCHANGED <<call, before>>
  BY DEF RemoveItself
<1>3. f.p \in DOMAIN tree => Children(tree, f.p) = {}
  BY <1>1 DEF RemoverTop
<1>4. PathError(tree, f.p) \in {"ok", "ENOENT"}
  BY <1>1, PathShrinks DEF RemoverFrame
<1>5. error = IF f.p \in DOMAIN tree THEN "ok" ELSE "ENOENT"
  <2>1. CASE PathError(tree, f.p) = "ok"
    BY <1>3, <2>1, Zenon DEF RemoveError
  <2>2. CASE PathError(tree, f.p) = "ENOENT"
    <3>1. f.p \notin DOMAIN tree
      BY <1>1, <2>2, NoWayNoFile DEF WellTyped
    <3>2. error = "ENOENT"
      BY <2>2 DEF RemoveError
    <3>3. QED
      BY <3>1, <3>2
  <2>3. QED
    BY <1>4, <2>1, <2>2
<1>6. tree' = (IF error = "ok" THEN Without(tree, f.p) ELSE tree) /\ Return(x)
  BY <1>5, Zenon DEF RemoveItself
<1>7. /\ DOMAIN tree' = DOMAIN tree \ {f.p} /\ \A p \in DOMAIN tree' : tree'[p] = tree[p]
  BY <1>5, <1>6 DEF Without
<1>8. \A p \in DOMAIN tree \ DOMAIN tree' : call[x] # NoCall /\ Inside(p, call[x].p)
  BY <1>1, <1>7 DEF RemoverFrame
<1>9. /\ StackType' /\ stack'[x] = Tail(stack[x]) /\ \A y \in Procs \ {x} : stack'[y] = stack[y]
  BY <1>1, <1>6, StackMoves DEF Return, WellTyped
<1>10. /\ Len(Tail(stack[x])) = Len(stack[x]) - 1
       /\ \A i \in 1 .. (Len(stack[x]) - 1) : Tail(stack[x])[i] = stack[x][i + 1]
  BY <1>1, TopOf DEF WellTyped
<1>11. \A e : RemoverFrame(x, e)' <=> RemoverFrame(x, e)
  BY <1>2 DEF RemoverFrame
<1>12. \A p : Children(tree', p) = Children(tree, p) \ {f.p}
  BY <1>7 DEF Children
<1>13. ASSUME NEW i \in 1 .. (Len(stack[x]) - 1)
       PROVE  /\ RemoverFrame(x, stack'[x][i])
              /\ i = Len(stack[x]) - 1 => stack'[x][i].p = call[x].p
              /\ i > 1 => Children(tree', stack'[x][i].p) \subseteq stack'[x][i].kids \cup {stack'[x][i - 1].p}
              /\ i = 1 => Children(tree', stack'[x][i].p) \subseteq stack'[x][i].kids
              /\ stack'[x][i].pc = "kids"
  <2>1. i + 1 \in 1 .. Len(stack[x]) /\ i + 1 > 1 /\ (i = Len(stack[x]) - 1 => i + 1 = Len(stack[x])) /\ i + 1 - 1 = i
    BY <1>1
  <2>2. /\ RemoverFrame(x, stack[x][i + 1])
        /\ i + 1 = Len(stack[x]) => stack[x][i + 1].p = call[x].p
        /\ stack[x][i + 1].pc = "kids"
        /\ Children(tree, stack[x][i + 1].p) \subseteq stack[x][i + 1].kids \cup {stack[x][i].p}
    BY <2>1 DEF RemoverStack
  <2>3. stack'[x][i] = stack[x][i + 1] /\ (i > 1 => stack'[x][i - 1] = stack[x][i])
    <3>1. i > 1 => i - 1 \in 1 .. (Len(stack[x]) - 1) /\ i - 1 + 1 = i
      BY <1>1
    <3>2. QED
      BY <1>9, <1>10, <3>1
  <2>4. QED
    BY <1>1, <1>12, <2>1, <2>2, <2>3
<1>14. RemoverStack(x)'
  <2>1. \A i \in 1 .. Len(stack'[x]) :
           /\ RemoverFrame(x, stack'[x][i])
           /\ i = Len(stack'[x]) => stack'[x][i].p = call'[x].p
           /\ i > 1 => /\ stack'[x][i].pc = "kids"
                       /\ Children(tree', stack'[x][i].p) \subseteq stack'[x][i].kids \cup {stack'[x][i - 1].p}
    BY <1>2, <1>9, <1>10, <1>13, Zenon
  <2>2. QED
    BY <1>2, <2>1 DEF RemoverStack, RemoverFrame
<1>15. RemoverTop(x)'
  <2>1. SUFFICES ASSUME Tail(stack[x]) # <<>>
                 PROVE  /\ Tail(stack[x])[1].pc = "kids"
                        /\ Children(tree', Tail(stack[x])[1].p) \subseteq Tail(stack[x])[1].kids
    BY <1>9 DEF RemoverTop, Top
  <2>2. 1 \in 1 .. (Len(stack[x]) - 1)
    BY <1>1, <1>10, <2>1, TopOf, EmptySeq DEF WellTyped
  <2>3. QED
    BY <1>9, <1>13, <2>2
<1>16. RemoverResult(x)' /\ \A y \in Procs \ {x} : result'[y] = result[y]
  <2>1. result' = IF Len(stack[x]) = 1 THEN [result EXCEPT ![x] = "ok"] ELSE result
    BY <1>6 DEF Return
  <2>2. CASE Len(stack[x]) = 1
    <3>1. call[x].p \notin DOMAIN tree'
      BY <1>1, <1>7, <2>2
    <3>2. result'[x] \in {"ok", result[x]} /\ \A y \in Procs \ {x} : result'[y] = result[y]
      BY <2>1, <2>2
    <3>3. QED
      BY <1>2, <3>1, <3>2 DEF RemoverResult
  <2>3. CASE Len(stack[x]) # 1
    BY <1>2, <1>7, <2>1, <2>3 DEF RemoverResult
  <2>4. QED
    BY <2>2, <2>3
<1>17. QED
  BY <1>2, <1>7, <1>8, <1>9, <1>14, <1>15, <1>16

\* A step is one of the innermost call.
LEMMA StepOp ==
    ASSUME NEW x \in Procs, Step(x)
    PROVE  /\ stack[x] # <<>>
           /\ Top(x).op = "remove" => remove(x)
           /\ Top(x).op = "make_directory" => make_directory(x)
           /\ Top(x).op = "save" => save(x)
<1>1. remove(x) => stack[x] # <<>> /\ Top(x).op = "remove"
  BY AtRuns DEF remove, RemoveAsks, RemoveChild, RemoveItself
<1>2. make_directory(x) => stack[x] # <<>> /\ Top(x).op = "make_directory"
  BY AtRuns, Zenon DEF make_directory
<1>3. make_symlink(x) => stack[x] # <<>> /\ Top(x).op = "make_symlink"
  BY AtRuns, Zenon DEF make_symlink
<1>4. copy_to(x) => stack[x] # <<>> /\ Top(x).op = "copy_to"
  BY AtRuns, Zenon DEF copy_to, CopyChecks, CopySpecial, CopyListing, CopyOpens, CopyData
<1>5. move_to(x) => stack[x] # <<>> /\ Top(x).op = "move_to"
  BY AtRuns, Zenon DEF move_to, MoveChecks, MoveRenames
<1>6. create(x) => stack[x] # <<>> /\ Top(x).op = "create"
  BY AtRuns, Zenon DEF create
<1>7. save(x) => stack[x] # <<>> /\ Top(x).op = "save"
  BY AtRuns, Zenon DEF save
<1>8. QED
  BY <1>1, <1>2, <1>3, <1>4, <1>5, <1>6, <1>7 DEF Step

LEMMA RemoversStart == Init /\ Removing => Removers
<1> SUFFICES ASSUME Init, Removing PROVE Removers
  OBVIOUS
<1>1. Given /\ WellTyped
  BY InitTypes
<1>2. Shrunk(tree, before) /\ OnlyAsked
  BY DEF Init, Shrunk, OnlyAsked
<1>3. ASSUME NEW x \in Procs PROVE RemoverStack(x) /\ RemoverTop(x) /\ RemoverResult(x)
  <2>1. RemoverResult(x)
    BY DEF Init, RemoverResult
  <2>2. CASE call[x] = NoCall
    <3>1. stack[x] = <<>> /\ Len(stack[x]) = 0
      BY <2>2 DEF Init
    <3>2. QED
      BY <2>1, <3>1 DEF RemoverStack, RemoverTop
  <2>3. CASE call[x] # NoCall
    <3> DEFINE c == call[x]
    <3>1. c.op = "remove" /\ "recurse" \in c.flags /\ PathError(before, c.p) \in {"ok", "ENOENT"}
      BY <2>3 DEF Removing
    <3>2. c = RemoveCall(c.p, c.flags) /\ c.p \in Paths
      BY <1>1, <3>1, CallTypes DEF Frames
    <3>3. RemoveCall(c.p, c.flags).pc = "isdir"
      BY <3>1 DEF RemoveCall, Frame
    <3>4. c.pc = "isdir"
      BY <3>2, <3>3
    <3>5. RemoverFrame(x, c)
      BY <2>3, <3>1, <3>2, <3>4, InsideSelf DEF RemoverFrame
    <3>6. stack[x] = <<c>>
      BY <2>3 DEF Init
    <3>7. Len(stack[x]) = 1 /\ stack[x][1] = c
      BY <3>6
    <3> HIDE DEF c
    <3>8. RemoverStack(x)
      BY <3>5, <3>7 DEF RemoverStack, c
    <3>9. RemoverTop(x)
      BY <3>4, <3>7 DEF RemoverTop, Top
    <3>10. QED
      BY <2>1, <3>8, <3>9
  <2>4. QED
    BY <2>2, <2>3
<1>4. QED
  BY <1>2, <1>3 DEF Removers

LEMMA RemoversStep ==
    ASSUME WellTyped, Given, Removing => Removers, [Next]_vars
    PROVE  (Removing => Removers)'
<1>1. CASE UNCHANGED vars
  <2>1. UNCHANGED <<tree, content, stack, result, call, before>>
    BY <1>1 DEF vars
  <2>2. Removing' <=> Removing
    BY <2>1 DEF Removing
  <2>3. ASSUME Removers PROVE Removers'
    <3>1. \A x \in Procs : RemoverStack(x)' /\ RemoverTop(x)'
      BY <2>1, <2>3, RemoverStays DEF Removers
    <3>2. QED
      BY <2>1, <2>3, <3>1 DEF Removers, Shrunk, OnlyAsked, RemoverResult
  <2>4. QED
    BY <2>2, <2>3
<1>2. ASSUME NEW x \in Procs, Step(x) PROVE (Removing => Removers)'
  <2>1. UNCHANGED <<call, before>>
    BY <1>2, StepKeeps
  <2>2. Removing' <=> Removing
    BY <2>1 DEF Removing
  <2>3. SUFFICES ASSUME Removing PROVE Removers'
    BY <2>2
  <2>4. Removers
    BY <2>3
  <2>5. stack[x] # <<>> /\ Top(x).op = "remove"
    <3>1. stack[x] # <<>>
      BY <1>2, StepOp
    <3>2. 1 \in 1 .. Len(stack[x])
      BY <3>1, TopOf DEF WellTyped
    <3>3. QED
      BY <2>4, <3>1, <3>2 DEF Removers, RemoverStack, RemoverFrame, Top
  <2>6. remove(x)
    BY <1>2, <2>5, StepOp
  <2>7. /\ RemoverStack(x)' /\ RemoverTop(x)' /\ RemoverResult(x)'
        /\ DOMAIN tree' \subseteq DOMAIN tree /\ \A p \in DOMAIN tree' : tree'[p] = tree[p]
        /\ \A p \in DOMAIN tree \ DOMAIN tree' : call[x] # NoCall /\ Inside(p, call[x].p)
        /\ \A y \in Procs \ {x} : stack'[y] = stack[y] /\ (result'[y] = result[y])
    <3>1. RemoverStack(x) /\ RemoverTop(x) /\ RemoverResult(x) /\ Shrunk(tree, before)
      BY <2>4 DEF Removers
    <3>2. CASE RemoveAsks(x)
      BY <3>1, <3>2, RemoverAsks DEF RemoverResult
    <3>3. CASE RemoveChild(x)
      BY <3>1, <3>3, RemoverChild DEF RemoverResult
    <3>4. CASE RemoveItself(x)
      BY <3>1, <3>4, RemoverItself
    <3>5. QED
      BY <2>6, <3>2, <3>3, <3>4 DEF remove
  <2>8. \A y \in Procs \ {x} : RemoverStack(y)' /\ RemoverTop(y)' /\ RemoverResult(y)'
    BY <2>1, <2>4, <2>7, RemoverStays DEF Removers, RemoverResult
  <2>9. Shrunk(tree, before)' /\ OnlyAsked'
    BY <2>1, <2>4, <2>7 DEF Removers, Shrunk, OnlyAsked
  <2>10. QED
    BY <2>7, <2>8, <2>9 DEF Removers
<1>3. QED
  BY <1>1, <1>2 DEF Next

\* Processes that remove the same trees.
LEMMA RemoversEnd ==
    ASSUME Removing => Removers
    PROVE  RemoversAgree
<1>1. SUFFICES ASSUME Removing
               PROVE  /\ \A x \in Procs : result[x] \in {"none", "running", "ok"}
                      /\ \A x \in Procs : result[x] = "ok" => call[x].p \notin DOMAIN tree
                      /\ \A r \in DOMAIN before :
                            (\A x \in Procs : call[x] = NoCall \/ ~Inside(r, call[x].p)) => r \in DOMAIN tree
  BY DEF RemoversAgree, Removing
<1>2. QED
  BY <1>1 DEF Removers, RemoverResult, OnlyAsked

-----------------------------------------------------------------------------
(* Processes that make directories                                         *)

Making == \A x \in Procs : call[x] = NoCall \/ (call[x].op = "make_directory" /\ "overwrite" \notin call[x].flags)

\* There is nothing new but directories.
Grown(t, u) == (\A p \in DOMAIN t : p \in DOMAIN u /\ u[p] = t[p]) /\ \A p \in DOMAIN u \ DOMAIN t : u[p].kind = "dir"

InTheWay(x) ==
    \/ Len(call[x].p) \notin 1 .. MaxDepth
    \/ \E k \in 1 .. Len(call[x].p) : Kind(before, UpTo(call[x].p, k)) \in {"file", "link"}

Explained(x) ==
    \/ InTheWay(x)
    \/ /\ ~Alone(x)
       /\ \E k \in 1 .. Len(call[x].p) :
             Kind(before, UpTo(call[x].p, k)) = "none" /\ Kind(tree, UpTo(call[x].p, k)) = "dir"

MakerFrame(x, f) ==
    /\ call[x] # NoCall /\ f.op = "make_directory" /\ f.flags = call[x].flags
    /\ Len(f.p) <= Len(call[x].p) /\ f.p = UpTo(call[x].p, Len(f.p)) /\ (f.p = <<>> => call[x].p = <<>>)
    /\ f.pc \in {"mkdir", "isdir", "again"} /\ (f.pc = "isdir" => f.p \in DOMAIN tree)

\* The directory was not there, and is not unless another process made it.
Waits(x, f) ==
    /\ Len(f.p) > 1 /\ Len(f.p) <= MaxDepth /\ f.p \notin DOMAIN before
    /\ Alone(x) => f.p \notin DOMAIN tree

\* A call waits for the one above it, which makes its parent.
MakerStack(x) ==
    /\ call[x] = NoCall => stack[x] = <<>>
    /\ \A i \in 1 .. Len(stack[x]) :
          /\ MakerFrame(x, stack[x][i])
          /\ i = Len(stack[x]) => stack[x][i].p = call[x].p
          /\ i > 1 => /\ stack[x][i].pc = "again" /\ Waits(x, stack[x][i])
                      /\ stack[x][i - 1].p = Front(stack[x][i].p)
          /\ \A j \in 1 .. (i - 1) : Len(stack[x][j].p) < Len(stack[x][i].p)

MakerTop(x) ==
    stack[x] # <<>> /\ Top(x).pc = "again" /\ "recurse" \in call[x].flags =>
        InTheWay(x) \/ (Waits(x, Top(x)) /\ Kind(tree, Front(Top(x).p)) = "dir")

MakerResult(x) ==
    Ended(x) /\ "recurse" \in call[x].flags =>
        IF result[x] = "ok" THEN Stat(tree, call[x].p) = "dir" ELSE Explained(x)

Maker(x) == MakerStack(x) /\ MakerTop(x) /\ MakerResult(x)

Makers == Grown(before, tree) /\ \A x \in Procs : Maker(x)

\* Directories stay, and links lead where they led.
LEMMA GrownKinds ==
    ASSUME NEW t, NEW u, Grown(t, u)
    PROVE  /\ \A p : Kind(u, p) = Kind(t, p) \/ (Kind(t, p) = "none" /\ Kind(u, p) = "dir")
           /\ \A p : Stat(t, p) = "dir" => Stat(u, p) = "dir"
<1>1. \A p : Kind(u, p) = Kind(t, p) \/ (Kind(t, p) = "none" /\ Kind(u, p) = "dir")
  BY DEF Kind, Grown
<1>2. \A p : ReadLink(u, p) = ReadLink(t, p)
  <2>1. TAKE p
  <2>2. CASE Kind(t, p) = "link"
    <3>1. Kind(u, p) = "link" /\ p \in DOMAIN t
      BY <1>1, <2>2 DEF Kind
    <3>2. QED
      BY <2>2, <3>1 DEF ReadLink, Grown
  <2>3. CASE Kind(t, p) # "link"
    <3>1. Kind(u, p) # "link"
      BY <1>1, <2>3
    <3>2. QED
      BY <2>3, <3>1 DEF ReadLink
  <2>4. QED
    BY <2>2, <2>3
<1>3. \A p : Follow(u, p) = Follow(t, p)
  BY <1>2, Zenon DEF Follow
<1>4. ASSUME NEW p, Stat(t, p) = "dir" PROVE Stat(u, p) = "dir"
  <2>1. Kind(t, Follow(t, p)) = "dir"
    BY <1>4 DEF Stat
  <2>2. Kind(u, Follow(u, p)) = "dir"
    BY <1>1, <1>3, <2>1
  <2>3. QED
    BY <2>2 DEF Stat
<1>5. QED
  BY <1>1, <1>4

\* What has a name is one of the parents.
LEMMA MakerPath ==
    ASSUME Given, NEW x \in Procs, NEW f \in Frames, MakerFrame(x, f)
    PROVE  /\ f.p \in Paths /\ call[x].p \in Paths /\ Len(f.p) \in Nat /\ Len(call[x].p) \in Nat
           /\ Len(f.p) <= Len(call[x].p) /\ f.p = UpTo(call[x].p, Len(f.p))
           /\ f.p # <<>> => Len(f.p) \in 1 .. Len(call[x].p)
           /\ Len(f.p) > 1 => /\ Front(f.p) = UpTo(call[x].p, Len(f.p) - 1) /\ Front(f.p) \in Paths
                              /\ Len(Front(f.p)) = Len(f.p) - 1
<1>1. f.p \in Paths /\ call[x].p \in Paths
  BY CallTypes DEF Frames
<1>2. Len(f.p) \in Nat /\ Len(call[x].p) \in Nat /\ (f.p = <<>> <=> Len(f.p) = 0)
  BY <1>1, EmptySeq DEF Paths
<1>3. Len(f.p) <= Len(call[x].p) /\ f.p = UpTo(call[x].p, Len(f.p))
  BY DEF MakerFrame
<1>4. ASSUME Len(f.p) > 1
      PROVE  Front(f.p) = UpTo(call[x].p, Len(f.p) - 1) /\ Front(f.p) \in Paths /\ Len(Front(f.p)) = Len(f.p) - 1
  <2>1. Front(f.p) = UpTo(f.p, Len(f.p) - 1)
    BY DEF Front, UpTo
  <2>2. Len(f.p) \in 0 .. Len(call[x].p) /\ Len(f.p) - 1 \in 0 .. Len(f.p)
    BY <1>2, <1>3, <1>4
  <2>3. UpTo(UpTo(call[x].p, Len(f.p)), Len(f.p) - 1) = UpTo(call[x].p, Len(f.p) - 1)
    BY <1>1, <2>2, UpToUpTo
  <2>4. UpTo(f.p, Len(f.p) - 1) \in Paths /\ Len(UpTo(f.p, Len(f.p) - 1)) = Len(f.p) - 1
    BY <1>1, <1>2, <2>2, UpToUpTo
  <2>5. QED
    BY <1>3, <2>1, <2>3, <2>4
<1>5. QED
  BY <1>1, <1>2, <1>3, <1>4

\* Another process makes a directory.
LEMMA MakerStays ==
    ASSUME NEW y \in Procs, Maker(y), Grown(before, tree), Grown(tree, tree'), UNCHANGED <<call, before>>,
           stack'[y] = stack[y], result'[y] = result[y], ~Alone(y) \/ tree' = tree
    PROVE  Maker(y)'
<1>1. \A p : Kind(tree', p) = Kind(tree, p) \/ (Kind(tree, p) = "none" /\ Kind(tree', p) = "dir")
  BY GrownKinds
<1>2. DOMAIN tree \subseteq DOMAIN tree'
  BY DEF Grown
<1>3. Alone(y)' <=> Alone(y)
  BY DEF Alone
<1>4. InTheWay(y)' <=> InTheWay(y)
  BY DEF InTheWay
<1>5. \A f : MakerFrame(y, f) => MakerFrame(y, f)'
  BY <1>2 DEF MakerFrame
<1>6. \A f : Waits(y, f) => Waits(y, f)'
  BY <1>3 DEF Waits
<1>7. MakerStack(y)'
  <2>1. ASSUME NEW i \in 1 .. Len(stack[y])
        PROVE  /\ MakerFrame(y, stack[y][i])'
               /\ i = Len(stack[y]) => stack[y][i].p = call[y].p
               /\ i > 1 => /\ stack[y][i].pc = "again" /\ Waits(y, stack[y][i])'
                           /\ stack[y][i - 1].p = Front(stack[y][i].p)
               /\ \A j \in 1 .. (i - 1) : Len(stack[y][j].p) < Len(stack[y][i].p)
    BY <1>5, <1>6 DEF MakerStack, Maker
  <2>2. QED
    BY <2>1 DEF MakerStack, Maker
<1>8. MakerTop(y)'
  BY <1>1, <1>4, <1>6 DEF MakerTop, Maker, Top
<1>9. MakerResult(y)'
  <2>1. Explained(y) => Explained(y)'
    BY <1>1, <1>3, <1>4 DEF Explained
  <2>2. \A p : Stat(tree, p) = "dir" => Stat(tree', p) = "dir"
    BY GrownKinds
  <2>3. QED
    BY <2>1, <2>2 DEF MakerResult, Maker, Ended
<1>10. QED
  BY <1>7, <1>8, <1>9 DEF Maker

\* What is known of the call that is about to go on.
LEMMA MakerNow ==
    ASSUME WellTyped, Given, NEW x \in Procs, MakerStack(x), stack[x] # <<>>
    PROVE  /\ Top(x) \in Frames /\ MakerFrame(x, Top(x)) /\ Top(x) = stack[x][1]
           /\ Len(stack[x]) \in Nat /\ Len(stack[x]) >= 1 /\ 1 \in 1 .. Len(stack[x])
           /\ 1 = Len(stack[x]) => Top(x).p = call[x].p
<1>1. Top(x) \in Frames /\ Len(stack[x]) \in Nat /\ Len(stack[x]) >= 1 /\ 1 \in 1 .. Len(stack[x])
  BY TopOf DEF WellTyped
<1>2. QED
  BY <1>1 DEF MakerStack, Top

LEMMA MakerReturns ==
    ASSUME WellTyped, Given, NEW x \in Procs, Maker(x), stack[x] # <<>>, UNCHANGED <<call, before>>, Return(x),
           Grown(before, tree), Grown(tree, tree'), DOMAIN tree' \subseteq DOMAIN tree \cup {Top(x).p},
           Stat(tree', Top(x).p) = "dir", Kind(tree', Top(x).p) = "dir" \/ InTheWay(x)
    PROVE  Maker(x)'
<1> DEFINE f == Top(x)
<1>1. /\ f \in Frames /\ MakerFrame(x, f) /\ f = stack[x][1] /\ Len(stack[x]) \in Nat /\ Len(stack[x]) >= 1
      /\ 1 = Len(stack[x]) => f.p = call[x].p
  BY MakerNow DEF Maker
<1>2. /\ StackType' /\ stack'[x] = Tail(stack[x])
      /\ Len(Tail(stack[x])) = Len(stack[x]) - 1
      /\ \A i \in 1 .. (Len(stack[x]) - 1) : Tail(stack[x])[i] = stack[x][i + 1]
  BY StackMoves, TopOf DEF Return, WellTyped
<1>3. \A p : Kind(tree', p) = Kind(tree, p) \/ (Kind(tree, p) = "none" /\ Kind(tree', p) = "dir")
  BY GrownKinds
<1>4. (Alone(x)' <=> Alone(x)) /\ (InTheWay(x)' <=> InTheWay(x))
  BY DEF Alone, InTheWay
<1>5. \A e : MakerFrame(x, e) => MakerFrame(x, e)'
  BY DEF MakerFrame, Grown
<1>6. ASSUME NEW i \in 1 .. (Len(stack[x]) - 1)
      PROVE  /\ MakerFrame(x, stack'[x][i]) /\ Len(stack'[x][i].p) \in Nat
             /\ i = Len(stack[x]) - 1 => stack'[x][i].p = call[x].p
             /\ stack'[x][i].pc = "again" /\ Waits(x, stack'[x][i])
             /\ i > 1 => stack'[x][i - 1].p = Front(stack'[x][i].p)
             /\ i = 1 => f.p = Front(stack'[x][i].p)
             /\ Len(f.p) < Len(stack'[x][i].p) /\ stack'[x][i].p \notin {f.p}
  <2>1. i + 1 \in 1 .. Len(stack[x]) /\ i + 1 > 1 /\ (i = Len(stack[x]) - 1 => i + 1 = Len(stack[x])) /\ i + 1 - 1 = i
    BY <1>1
  <2>2. /\ MakerFrame(x, stack[x][i + 1])
        /\ i + 1 = Len(stack[x]) => stack[x][i + 1].p = call[x].p
        /\ stack[x][i + 1].pc = "again" /\ Waits(x, stack[x][i + 1])
        /\ stack[x][i].p = Front(stack[x][i + 1].p) /\ Len(stack[x][1].p) < Len(stack[x][i + 1].p)
    <3>1. \A k \in 1 .. Len(stack[x]) :
             /\ MakerFrame(x, stack[x][k])
             /\ k = Len(stack[x]) => stack[x][k].p = call[x].p
             /\ k > 1 => /\ stack[x][k].pc = "again" /\ Waits(x, stack[x][k])
                         /\ stack[x][k - 1].p = Front(stack[x][k].p)
             /\ \A j \in 1 .. (k - 1) : Len(stack[x][j].p) < Len(stack[x][k].p)
      BY DEF Maker, MakerStack
    <3>2. 1 \in 1 .. (i + 1 - 1)
      BY <1>1
    <3>3. QED
      BY <2>1, <3>1, <3>2
  <2>3. stack'[x][i] = stack[x][i + 1] /\ (i > 1 => stack'[x][i - 1] = stack[x][i])
    <3>1. i > 1 => i - 1 \in 1 .. (Len(stack[x]) - 1) /\ i - 1 + 1 = i
      BY <1>1
    <3>2. QED
      BY <1>2, <3>1
  <2>4. stack[x][i + 1] \in Frames
    BY <2>1 DEF WellTyped, StackType
  <2>5. Len(stack[x][i + 1].p) \in Nat /\ Len(f.p) \in Nat
    <3>1. \A e \in Frames : Len(e.p) \in Nat
      BY DEF Frames, Paths
    <3>2. QED
      BY <1>1, <2>4, <3>1
  <2>6. i = 1 => stack[x][i] = f
    BY <1>1
  <2>7. stack[x][i + 1].p # f.p /\ Len(f.p) < Len(stack[x][i + 1].p)
    BY <1>1, <2>2, <2>5
  <2>8. QED
    BY <2>1, <2>2, <2>3, <2>5, <2>6, <2>7
<1>7. \A e : Waits(x, e) /\ e.p # f.p => Waits(x, e)'
  BY <1>4 DEF Waits
<1>8. MakerStack(x)'
  <2>1. ASSUME NEW i \in 1 .. (Len(stack[x]) - 1), NEW e, e = stack'[x][i]
        PROVE  /\ MakerFrame(x, e)' /\ Waits(x, e)' /\ e.pc = "again"
               /\ i = Len(stack[x]) - 1 => e.p = call'[x].p
               /\ i > 1 => stack'[x][i - 1].p = Front(e.p)
    BY <1>5, <1>6, <1>7, <2>1
  <2>2. ASSUME NEW i \in 1 .. (Len(stack[x]) - 1), NEW j \in 1 .. (i - 1)
        PROVE  Len(stack'[x][j].p) < Len(stack'[x][i].p)
    <3>1. i + 1 \in 1 .. Len(stack[x]) /\ j + 1 \in 1 .. (i + 1 - 1) /\ j \in 1 .. (Len(stack[x]) - 1)
      BY <1>1
    <3>2. Len(stack[x][j + 1].p) < Len(stack[x][i + 1].p)
      BY <3>1 DEF Maker, MakerStack
    <3>3. QED
      BY <1>2, <3>1, <3>2
  <2>3. call'[x] = NoCall => stack'[x] = <<>>
    BY <1>1 DEF MakerFrame
  <2>4. Len(stack'[x]) = Len(stack[x]) - 1
    BY <1>2
  <2>5. ASSUME NEW i \in 1 .. (Len(stack[x]) - 1)
        PROVE  /\ MakerFrame(x, stack[x][i])' /\ Waits(x, stack[x][i])' /\ stack'[x][i].pc = "again"
               /\ i = Len(stack'[x]) => stack'[x][i].p = call'[x].p
               /\ i > 1 => stack'[x][i - 1].p = Front(stack'[x][i].p)
               /\ \A j \in 1 .. (i - 1) : Len(stack'[x][j].p) < Len(stack'[x][i].p)
    <3>1. MakerFrame(x, stack[x][i])'
      BY <2>1 DEF MakerFrame
    <3>2. Waits(x, stack[x][i])'
      BY <2>1 DEF Waits
    <3>3. QED
      BY <2>1, <2>2, <2>4, <3>1, <3>2
  <2>6. QED
    BY <2>3, <2>4, <2>5 DEF MakerStack
<1>9. MakerTop(x)'
  <2>1. SUFFICES ASSUME stack'[x] # <<>>
                 PROVE  InTheWay(x) \/ (Waits(x, stack'[x][1]) /\ stack'[x][1].p # f.p
                                          /\ Kind(tree', Front(stack'[x][1].p)) = "dir")
    BY <1>4 DEF MakerTop, Top, Waits
  <2>2. 1 \in 1 .. (Len(stack[x]) - 1)
    BY <1>1, <1>2, <2>1, EmptySeq
  <2>3. QED
    BY <1>6, <2>2
<1>10. MakerResult(x)'
  <2>1. Explained(x) => Explained(x)'
    BY <1>3, <1>4 DEF Explained
  <2>2. \A p : Stat(tree, p) = "dir" => Stat(tree', p) = "dir"
    BY GrownKinds
  <2>3. result' = IF Len(stack[x]) = 1 THEN [result EXCEPT ![x] = "ok"] ELSE result
    BY DEF Return
  <2>4. CASE Len(stack[x]) = 1
    <3>1. Stat(tree', call'[x].p) = "dir"
      BY <1>1, <2>4
    <3>2. result'[x] \in {"ok", result[x]}
      BY <2>3, <2>4
    <3>3. QED
      BY <2>1, <2>2, <3>1, <3>2 DEF MakerResult, Maker, Ended
  <2>5. CASE Len(stack[x]) # 1
    BY <2>1, <2>2, <2>3, <2>5 DEF MakerResult, Maker, Ended
  <2>6. QED
    BY <2>4, <2>5
<1>11. QED
  BY <1>8, <1>9, <1>10 DEF Maker

LEMMA MakerThrows ==
    ASSUME NEW x \in Procs, Maker(x), UNCHANGED <<tree, call, before>>,
           stack'[x] = <<>>, result'[x] # "ok" \/ result'[x] = result[x], "recurse" \in call[x].flags => Explained(x)
    PROVE  Maker(x)'
<1>1. Explained(x)' <=> Explained(x)
  BY DEF Explained, InTheWay, Alone
<1>2. MakerStack(x)'
  <2>1. Len(stack'[x]) = 0
    OBVIOUS
  <2>2. QED
    BY <2>1 DEF MakerStack
<1>3. MakerTop(x)'
  BY DEF MakerTop
<1>4. MakerResult(x)'
  BY <1>1 DEF MakerResult, Maker, Ended
<1>5. QED
  BY <1>2, <1>3, <1>4 DEF Maker

LEMMA MakerGoesOn ==
    ASSUME WellTyped, Given, NEW x \in Procs, Maker(x), stack[x] # <<>>, UNCHANGED <<tree, call, before>>,
           NEW pc \in {"isdir", "again"}, Goto(x, pc), pc = "isdir" => Top(x).p \in DOMAIN tree,
           pc = "again" /\ "recurse" \in call[x].flags => InTheWay(x)
    PROVE  Maker(x)'
<1> DEFINE f == Top(x)
           g == [f EXCEPT !.pc = pc]
<1>1. /\ f \in Frames /\ MakerFrame(x, f) /\ f = stack[x][1] /\ Len(stack[x]) \in Nat /\ Len(stack[x]) >= 1
      /\ 1 \in 1 .. Len(stack[x])
  BY MakerNow DEF Maker
<1>2. g \in Frames /\ g.p = f.p /\ g.pc = pc /\ g.op = f.op /\ g.flags = f.flags
  BY <1>1 DEF Frames, Places
<1>3. stack' = [stack EXCEPT ![x][1] = g] /\ UNCHANGED result
  BY DEF Goto, Becomes
<1>4. MakerFrame(x, g)
  BY <1>1, <1>2 DEF MakerFrame
<1> HIDE DEF g
<1>5. /\ StackType' /\ stack'[x] # <<>> /\ stack'[x][1] = g /\ Len(stack'[x]) = Len(stack[x])
      /\ \A i \in 2 .. Len(stack[x]) : stack'[x][i] = stack[x][i]
  BY <1>2, <1>3, StackMoves DEF WellTyped
<1>6. \A i \in 1 .. Len(stack[x]) : stack'[x][i].p = stack[x][i].p
  BY <1>1, <1>2, <1>5
<1>7. (InTheWay(x)' <=> InTheWay(x)) /\ (Explained(x)' <=> Explained(x))
  BY DEF Explained, InTheWay, Alone
<1>8. MakerStack(x)'
  <2>1. ASSUME NEW i \in 1 .. Len(stack[x])
        PROVE  /\ MakerFrame(x, stack[x][i])'
               /\ i = Len(stack'[x]) => stack'[x][i].p = call'[x].p
               /\ i > 1 => /\ stack'[x][i].pc = "again" /\ Waits(x, stack[x][i])'
                           /\ stack'[x][i - 1].p = Front(stack'[x][i].p)
               /\ \A j \in 1 .. (i - 1) : Len(stack'[x][j].p) < Len(stack'[x][i].p)
    <3>1. /\ MakerFrame(x, stack[x][i])
          /\ i = Len(stack[x]) => stack[x][i].p = call[x].p
          /\ i > 1 => /\ stack[x][i].pc = "again" /\ Waits(x, stack[x][i])
                      /\ stack[x][i - 1].p = Front(stack[x][i].p)
          /\ \A j \in 1 .. (i - 1) : Len(stack[x][j].p) < Len(stack[x][i].p)
      BY DEF Maker, MakerStack
    <3>2. MakerFrame(x, stack[x][i])'
      <4>1. CASE i = 1
        BY <1>4, <1>5, <4>1 DEF MakerFrame
      <4>2. CASE i > 1
        <5>1. stack'[x][i] = stack[x][i]
          BY <1>5, <4>2
        <5>2. QED
          BY <3>1, <5>1 DEF MakerFrame
      <4>3. QED
        BY <4>1, <4>2
    <3>3. i > 1 => stack'[x][i].pc = "again" /\ Waits(x, stack[x][i])'
      <4>1. SUFFICES ASSUME i > 1 PROVE stack'[x][i].pc = "again" /\ Waits(x, stack[x][i])'
        OBVIOUS
      <4>2. stack'[x][i] = stack[x][i]
        BY <1>5, <4>1
      <4>3. QED
        BY <3>1, <4>1, <4>2 DEF Waits, Alone
    <3>4. i > 1 => i - 1 \in 1 .. Len(stack[x])
      BY <1>1
    <3>5. \A j \in 1 .. (i - 1) : j \in 1 .. Len(stack[x])
      BY <1>1
    <3>6. QED
      BY <1>5, <1>6, <3>1, <3>2, <3>3, <3>4, <3>5
  <2>2. call'[x] # NoCall
    BY <1>1 DEF MakerFrame
  <2>3. QED
    BY <1>5, <2>1, <2>2 DEF MakerStack
<1>9. MakerTop(x)'
  BY <1>2, <1>5, <1>7 DEF MakerTop, Top
<1>10. MakerResult(x)'
  BY <1>3, <1>7 DEF MakerResult, Maker, Ended
<1>11. QED
  BY <1>8, <1>9, <1>10 DEF Maker

LEMMA MakerInvokes ==
    ASSUME WellTyped, Given, NEW x \in Procs, Maker(x), stack[x] # <<>>, UNCHANGED <<tree, call, before>>,
           Waits(x, Top(x)), Invoke(x, MakeDirectoryCall(Front(Top(x).p), Top(x).flags), "again")
    PROVE  Maker(x)'
<1> DEFINE f == Top(x)
           g == MakeDirectoryCall(Front(f.p), f.flags)
           h == [f EXCEPT !.pc = "again"]
<1>1. /\ f \in Frames /\ MakerFrame(x, f) /\ f = stack[x][1] /\ Len(stack[x]) \in Nat /\ Len(stack[x]) >= 1
      /\ 1 \in 1 .. Len(stack[x]) /\ (1 = Len(stack[x]) => f.p = call[x].p)
  BY MakerNow DEF Maker
<1>2. /\ f.p \in Paths /\ Len(f.p) \in Nat /\ Len(call[x].p) \in Nat /\ Len(f.p) > 1 /\ Len(f.p) <= Len(call[x].p)
      /\ Front(f.p) = UpTo(call[x].p, Len(f.p) - 1) /\ Front(f.p) \in Paths /\ Len(Front(f.p)) = Len(f.p) - 1
  BY <1>1, MakerPath DEF Waits
<1>3. /\ h \in Frames /\ h.p = f.p /\ h.pc = "again" /\ h.op = f.op /\ h.flags = f.flags
  BY <1>1 DEF Frames, Places
<1>4. /\ g \in Frames /\ g.p = Front(f.p) /\ g.pc = "mkdir" /\ g.op = "make_directory" /\ g.flags = f.flags
  <2>1. f.flags \in SUBSET Flags
    BY <1>1 DEF Frames
  <2>2. QED
    BY <1>2, <2>1, CallFrames DEF MakeDirectoryCall, Frame
<1>5. MakerFrame(x, g)
  <2>1. Len(g.p) <= Len(call[x].p) /\ g.p = UpTo(call[x].p, Len(g.p)) /\ g.p # <<>>
    BY <1>2, <1>4, EmptySeq
  <2>2. QED
    BY <1>1, <1>4, <2>1 DEF MakerFrame
<1>6. MakerFrame(x, h)
  BY <1>1, <1>3 DEF MakerFrame
<1>7. stack' = [stack EXCEPT ![x] = <<g, h>> \o Tail(@)] /\ UNCHANGED result
  BY DEF Invoke
<1>8. Waits(x, h)
  BY <1>3 DEF Waits
<1> HIDE DEF g, h
<1>9. /\ StackType' /\ stack'[x] # <<>> /\ stack'[x][1] = g /\ stack'[x][2] = h
      /\ Len(stack'[x]) = Len(stack[x]) + 1
      /\ \A i \in 3 .. (Len(stack[x]) + 1) : stack'[x][i] = stack[x][i - 1]
      /\ \A y \in Procs \ {x} : stack'[y] = stack[y]
  BY <1>3, <1>4, <1>7, StackMoves DEF WellTyped
<1>10. (InTheWay(x)' <=> InTheWay(x)) /\ (Explained(x)' <=> Explained(x))
  BY DEF Explained, InTheWay, Alone
<1>11. \A e : (MakerFrame(x, e) => MakerFrame(x, e)') /\ (Waits(x, e) => Waits(x, e)')
  BY DEF MakerFrame, Waits, Alone
<1>12. \A i \in 2 .. (Len(stack[x]) + 1) : stack'[x][i].p = stack[x][i - 1].p
  <2>1. TAKE i \in 2 .. (Len(stack[x]) + 1)
  <2>2. CASE i = 2
    BY <1>1, <1>3, <1>9, <2>2
  <2>3. CASE i > 2
    BY <1>1, <1>9, <2>3
  <2>4. QED
    BY <2>2, <2>3
<1>13. ASSUME NEW i \in 1 .. (Len(stack[x]) + 1), NEW e, e = stack'[x][i]
       PROVE  /\ MakerFrame(x, e)
              /\ i = Len(stack[x]) + 1 => e.p = call[x].p
              /\ i > 1 => e.pc = "again" /\ Waits(x, e) /\ stack'[x][i - 1].p = Front(e.p)
              /\ \A j \in 1 .. (i - 1) : Len(stack'[x][j].p) < Len(e.p)
  <2>1. CASE i = 1
    BY <1>1, <1>5, <1>9, <1>13, <2>1
  <2>2. CASE i = 2
    <3>1. e = h
      BY <1>9, <1>13, <2>2
    <3>2. i = Len(stack[x]) + 1 => e.p = call[x].p
      <4>1. \A n \in Nat : 2 = n + 1 => 1 = n
        OBVIOUS
      <4>2. QED
        BY <1>1, <1>3, <2>2, <3>1, <4>1, Zenon
    <3>3. stack'[x][i - 1].p = Front(e.p)
      BY <1>3, <1>4, <1>9, <2>2, <3>1
    <3>4. Len(g.p) < Len(h.p)
      BY <1>2, <1>3, <1>4
    <3>5. \A j \in 1 .. (i - 1) : Len(stack'[x][j].p) < Len(e.p)
      <4>1. \A j \in 1 .. (i - 1) : j = 1
        BY <2>2
      <4>2. QED
        BY <1>9, <3>1, <3>4, <4>1, Zenon
    <3>6. QED
      BY <1>3, <1>6, <1>8, <3>1, <3>2, <3>3, <3>5
  <2>3. CASE i > 2
    <3>1. i \in 3 .. (Len(stack[x]) + 1) /\ i - 1 \in 1 .. Len(stack[x]) /\ i - 1 > 1
          /\ (i = Len(stack[x]) + 1 => i - 1 = Len(stack[x])) /\ i - 1 \in 2 .. (Len(stack[x]) + 1)
      BY <1>1, <2>3
    <3>2. e = stack[x][i - 1]
      BY <1>9, <1>13, <3>1
    <3>3. /\ MakerFrame(x, e)
          /\ i - 1 = Len(stack[x]) => e.p = call[x].p
          /\ e.pc = "again" /\ Waits(x, e) /\ stack[x][i - 1 - 1].p = Front(e.p)
          /\ \A j \in 1 .. (i - 1 - 1) : Len(stack[x][j].p) < Len(e.p)
      BY <3>1, <3>2 DEF Maker, MakerStack
    <3>4. stack'[x][i - 1].p = stack[x][i - 1 - 1].p
      BY <1>12, <3>1
    <3>5. ASSUME NEW j \in 1 .. (i - 1) PROVE Len(stack'[x][j].p) < Len(e.p)
      <4>1. CASE j = 1
        <5>1. Len(stack[x][1].p) < Len(e.p)
          BY <3>1, <3>3
        <5>2. Len(e.p) \in Nat
          <6>1. e \in Frames
            BY <3>1, <3>2 DEF WellTyped, StackType
          <6>2. QED
            BY <6>1 DEF Frames, Paths
        <5>3. Len(g.p) < Len(f.p)
          BY <1>2, <1>4
        <5>4. QED
          BY <1>1, <1>2, <1>4, <1>9, <4>1, <5>1, <5>2, <5>3
      <4>2. CASE j > 1
        <5>1. j \in 2 .. (Len(stack[x]) + 1) /\ j - 1 \in 1 .. (i - 1 - 1)
          BY <1>1, <4>2
        <5>2. QED
          BY <1>12, <3>3, <5>1
      <4>3. QED
        BY <4>1, <4>2
    <3>6. QED
      BY <3>1, <3>3, <3>4, <3>5
  <2>4. QED
    BY <2>1, <2>2, <2>3
<1>14. MakerStack(x)'
  <2>1. ASSUME NEW i \in 1 .. (Len(stack[x]) + 1)
        PROVE  /\ MakerFrame(x, stack[x][i])'
               /\ i = Len(stack'[x]) => stack'[x][i].p = call'[x].p
               /\ i > 1 => /\ stack'[x][i].pc = "again" /\ Waits(x, stack[x][i])'
                           /\ stack'[x][i - 1].p = Front(stack'[x][i].p)
               /\ \A j \in 1 .. (i - 1) : Len(stack'[x][j].p) < Len(stack'[x][i].p)
    <3>1. MakerFrame(x, stack[x][i])'
      BY <1>13 DEF MakerFrame
    <3>2. i > 1 => Waits(x, stack[x][i])'
      BY <1>13 DEF Waits, Alone
    <3>3. QED
      BY <1>9, <1>13, <3>1, <3>2
  <2>2. call'[x] # NoCall
    BY <1>1 DEF MakerFrame
  <2>3. QED
    BY <1>9, <2>1, <2>2 DEF MakerStack
<1>15. MakerTop(x)'
  BY <1>4, <1>9 DEF MakerTop, Top
<1>16. MakerResult(x)'
  BY <1>7, <1>10 DEF MakerResult, Maker, Ended
<1>17. QED
  BY <1>14, <1>15, <1>16 DEF Maker

\* What is there and is no directory was there before.
LEMMA OldThing ==
    ASSUME Given, GoodTree(tree), Grown(before, tree), NEW x \in Procs, NEW k \in 1 .. Len(call[x].p),
           Kind(tree, UpTo(call[x].p, k)) \notin {"dir", "none"}
    PROVE  InTheWay(x)
<1> DEFINE r == UpTo(call[x].p, k)
<1>1. r \in DOMAIN tree /\ Kind(tree, r) \in {"file", "link"}
  BY DEF Kind, GoodTree, IsNode
<1>2. Kind(before, r) = Kind(tree, r)
  BY <1>1, GrownKinds
<1>3. QED
  BY <1>1, <1>2 DEF InTheWay

LEMMA MadeGrown ==
    ASSUME NEW p, NEW i, p \notin DOMAIN tree, tree' = With(tree, p, Node("dir", i, <<>>))
    PROVE  /\ Grown(tree, tree') /\ DOMAIN tree' = DOMAIN tree \cup {p}
           /\ Kind(tree', p) = "dir" /\ Stat(tree', p) = "dir"
<1>1. DOMAIN tree' = DOMAIN tree \cup {p} /\ tree'[p].kind = "dir" /\ \A q \in DOMAIN tree : tree'[q] = tree[q]
  BY DEF With, Node
<1>2. Kind(tree', p) = "dir"
  BY <1>1 DEF Kind
<1>3. Stat(tree', p) = "dir"
  BY <1>2, NoLink
<1>4. QED
  BY <1>1, <1>2, <1>3 DEF Grown

\* A path that cannot be used for another reason than a missing parent.
LEMMA MakerBlocked ==
    ASSUME WellTyped, Given, Grown(before, tree), NEW x \in Procs, NEW f \in Frames, MakerFrame(x, f),
           PathError(tree, f.p) # "ok", PathError(tree, f.p) # "ENOENT" \/ f.p = <<>>
    PROVE  InTheWay(x)
<1>1. /\ f.p \in Paths /\ call[x].p \in Paths /\ Len(f.p) \in Nat /\ Len(call[x].p) \in Nat
      /\ Len(f.p) <= Len(call[x].p)
      /\ f.p # <<>> => Len(f.p) \in 1 .. Len(call[x].p)
      /\ Len(f.p) > 1 => Front(f.p) = UpTo(call[x].p, Len(f.p) - 1)
  BY MakerPath
<1>2. MaxDepth \in Nat /\ (call[x].p = <<>> <=> Len(call[x].p) = 0)
  BY <1>1, EmptySeq, FileSystemAssumption DEF Paths
<1>3. CASE f.p = <<>>
  <2>1. Len(call[x].p) \notin 1 .. MaxDepth
    BY <1>2, <1>3 DEF MakerFrame
  <2>2. QED
    BY <2>1 DEF InTheWay
<1>4. CASE f.p # <<>> /\ Len(f.p) > MaxDepth
  <2>1. Len(call[x].p) \notin 1 .. MaxDepth
    BY <1>1, <1>2, <1>4
  <2>2. QED
    BY <2>1 DEF InTheWay
<1>5. CASE f.p # <<>> /\ ~(Len(f.p) > MaxDepth)
  <2>1. Len(f.p) >= 1 /\ Len(f.p) <= MaxDepth
    BY <1>1, <1>2, <1>5
  <2>2. ~(Len(f.p) = 1 \/ Kind(tree, Front(f.p)) = "dir")
    <3>1. Len(f.p) >= 1 /\ Len(f.p) <= MaxDepth /\ (Len(f.p) = 1 \/ Kind(tree, Front(f.p)) = "dir") =>
              PathError(tree, f.p) = "ok"
      BY <1>1, PathErrors
    <3>2. QED
      BY <2>1, <3>1, Zenon
  <2>3. Len(f.p) > 1
    <3>1. Len(f.p) # 0
      BY <1>1, <2>1
    <3>2. QED
      BY <1>1, <2>2, <3>1, NumberOne, Zenon
  <2>4. Kind(tree, Front(f.p)) # "none"
    BY <1>1, <1>5, <2>1, <2>3, PathErrors, Zenon
  <2>5. Len(f.p) - 1 \in 1 .. Len(call[x].p)
    BY <1>1, <2>3
  <2>6. Kind(tree, UpTo(call[x].p, Len(f.p) - 1)) \notin {"dir", "none"}
    BY <1>1, <2>2, <2>3, <2>4
  <2>7. QED
    BY <2>5, <2>6, OldThing DEF WellTyped
<1>6. QED
  BY <1>3, <1>4, <1>5

\* What making a directory can come to.
LEMMA MakeErrors ==
    ASSUME NEW t, NEW p
    PROVE  /\ MakeError(t, p) = "ok" => PathError(t, p) = "ok" /\ p \notin DOMAIN t
           /\ MakeError(t, p) = "EEXIST" => p \in DOMAIN t
           /\ MakeError(t, p) \notin {"ok", "EEXIST"} => PathError(t, p) # "ok" /\ MakeError(t, p) = PathError(t, p)
           /\ PathError(t, p) = "ok" /\ MakeError(t, p) # "ok" => p \in DOMAIN t
<1>1. CASE PathError(t, p) = "ok" /\ p \in DOMAIN t
  <2>1. MakeError(t, p) = "EEXIST"
    BY <1>1 DEF MakeError
  <2>2. QED
    BY <1>1, <2>1
<1>2. CASE ~(PathError(t, p) = "ok" /\ p \in DOMAIN t)
  <2>1. MakeError(t, p) = PathError(t, p)
    BY <1>2 DEF MakeError
  <2>2. PathError(t, p) # "EEXIST"
    <3>1. PathError(t, p) \in {"ok", "ENOENT", "ENAMETOOLONG", "ENOTDIR"}
      BY Zenon DEF PathError
    <3>2. QED
      BY <3>1
  <2>3. QED
    BY <1>2, <2>1, <2>2
<1>3. QED
  BY <1>1, <1>2

LEMMA MakersMove ==
    ASSUME WellTyped, Given, NEW x \in Procs, Maker(x), Grown(before, tree), stack[x] # <<>>,
           "overwrite" \notin call[x].flags, make_directory(x)
    PROVE  /\ Maker(x)' /\ Grown(before, tree)' /\ Grown(tree, tree') /\ UNCHANGED <<call, before>>
           /\ \A y \in Procs \ {x} : stack'[y] = stack[y] /\ (result'[y] = result[y])
<1> DEFINE f == Top(x)
           e == MakeError(tree, f.p)
           Goal == /\ Maker(x)' /\ Grown(before, tree)' /\ Grown(tree, tree')
                   /\ \A y \in Procs \ {x} : stack'[y] = stack[y] /\ (result'[y] = result[y])
<1>1. /\ f \in Frames /\ MakerFrame(x, f) /\ f = stack[x][1] /\ Len(stack[x]) \in Nat /\ Len(stack[x]) >= 1
      /\ f.p \in Paths
  BY MakerNow DEF Maker, Frames
<1>2. UNCHANGED <<call, before>>
  BY Zenon DEF make_directory
<1>3. GoodTree(tree)
  BY DEF WellTyped
<1>4. /\ f.p # <<>> => Len(f.p) \in 1 .. Len(call[x].p) /\ f.p = UpTo(call[x].p, Len(f.p))
      /\ Len(f.p) > 1 => Front(f.p) = UpTo(call[x].p, Len(f.p) - 1)
  BY <1>1, MakerPath
<1>5. /\ \A g \in Frames : stack' = [stack EXCEPT ![x][1] = g] => \A y \in Procs \ {x} : stack'[y] = stack[y]
      /\ \A g, h \in Frames : stack' = [stack EXCEPT ![x] = <<g, h>> \o Tail(@)] =>
             \A y \in Procs \ {x} : stack'[y] = stack[y]
      /\ stack' = [stack EXCEPT ![x] = Tail(@)] => \A y \in Procs \ {x} : stack'[y] = stack[y]
      /\ stack' = [stack EXCEPT ![x] = <<>>] => stack'[x] = <<>> /\ \A y \in Procs \ {x} : stack'[y] = stack[y]
  BY StackMoves DEF WellTyped
<1>6. tree' = tree => Grown(before, tree)' /\ Grown(tree, tree')
  BY <1>2 DEF Grown
<1>7. ASSUME Grown(tree, tree') PROVE Grown(before, tree)'
  BY <1>2, <1>7 DEF Grown
<1>8. ASSUME Return(x), Grown(tree, tree'), DOMAIN tree' \subseteq DOMAIN tree \cup {f.p},
             Stat(tree', f.p) = "dir", Kind(tree', f.p) = "dir" \/ InTheWay(x)
      PROVE  Goal
  <2>1. Maker(x)'
    BY <1>2, <1>8, MakerReturns
  <2>2. \A y \in Procs \ {x} : stack'[y] = stack[y] /\ (result'[y] = result[y])
    BY <1>5, <1>8 DEF Return
  <2>3. QED
    BY <1>7, <1>8, <2>1, <2>2
<1>9. ASSUME Mkdir(f.p), e = "ok", Return(x) PROVE Goal
  <2>1. f.p \notin DOMAIN tree
    BY <1>9, MakeErrors
  <2>2. tree' = With(tree, f.p, Node("dir", Fresh, <<>>))
    BY <1>9 DEF Mkdir
  <2>3. Grown(tree, tree') /\ DOMAIN tree' = DOMAIN tree \cup {f.p} /\ Kind(tree', f.p) = "dir" /\ Stat(tree', f.p) = "dir"
    BY <2>1, <2>2, MadeGrown
  <2>4. QED
    BY <1>8, <1>9, <2>3
<1>10. ASSUME UNCHANGED tree, NEW error, error # "ok", Throw(x, error),
              "recurse" \in call[x].flags => Explained(x)
       PROVE  Goal
  <2>1. stack'[x] = <<>> /\ \A y \in Procs \ {x} : stack'[y] = stack[y]
    BY <1>5, <1>10 DEF Throw
  <2>2. result'[x] \in {error, result[x]} /\ \A y \in Procs \ {x} : result'[y] = result[y]
    BY <1>10 DEF Throw
  <2>3. QED
    BY <1>2, <1>6, <1>10, <2>1, <2>2, MakerThrows
<1>11. ASSUME Mkdir(f.p), e # "ok" PROVE UNCHANGED tree
  BY <1>11 DEF Mkdir
<1>12. ASSUME UNCHANGED tree, NEW pc \in {"isdir", "again"}, Goto(x, pc), pc = "isdir" => f.p \in DOMAIN tree,
              pc = "again" /\ "recurse" \in call[x].flags => InTheWay(x)
       PROVE  Goal
  <2>1. Maker(x)'
    BY <1>2, <1>12, MakerGoesOn
  <2>2. [f EXCEPT !.pc = pc] \in Frames
    BY <1>1 DEF Frames, Places
  <2>3. \A y \in Procs \ {x} : stack'[y] = stack[y] /\ (result'[y] = result[y])
    BY <1>5, <1>12, <2>2 DEF Goto, Becomes
  <2>4. QED
    BY <1>6, <1>12, <2>1, <2>3
<1> HIDE DEF Goal
<1>13. ASSUME At(x, "make_directory", "mkdir") PROVE Goal
  <2>1. Mkdir(f.p) /\ (e = "ok" => Return(x)) /\ (e = "EEXIST" => Goto(x, "isdir"))
        /\ (e = "ENOENT" /\ "recurse" \in f.flags /\ f.p # <<>> =>
                Invoke(x, MakeDirectoryCall(Front(f.p), f.flags), "again"))
        /\ (e \notin {"ok", "EEXIST"} /\ ~(e = "ENOENT" /\ "recurse" \in f.flags /\ f.p # <<>>) => Goto(x, "again"))
    <3>1. /\ Mkdir(f.p)
          /\ CASE e = "ok" -> Return(x)
               [] e = "EEXIST" -> Goto(x, "isdir")
               [] e = "ENOENT" /\ "recurse" \in f.flags /\ f.p # <<>> ->
                      Invoke(x, MakeDirectoryCall(Front(f.p), f.flags), "again")
               [] OTHER -> Goto(x, "again")
      BY <1>13 DEF make_directory, At
    <3> HIDE DEF e
    <3>2. QED
      BY <3>1
  <2>2. CASE e = "ok"
    BY <1>9, <2>1, <2>2
  <2>3. CASE e = "EEXIST"
    <3>1. f.p \in DOMAIN tree /\ UNCHANGED tree
      BY <1>11, <2>1, <2>3, MakeErrors
    <3>2. QED
      BY <1>12, <2>1, <2>3, <3>1
  <2>4. CASE e = "ENOENT" /\ "recurse" \in f.flags /\ f.p # <<>>
    <3>1. PathError(tree, f.p) = "ENOENT" /\ UNCHANGED tree
      BY <1>11, <2>1, <2>4, MakeErrors
    <3>2. f.p \notin DOMAIN tree /\ f.p \notin DOMAIN before
      BY <1>1, <1>3, <3>1, NoWayNoFile DEF Grown
    <3>3. Len(f.p) > 1 /\ Len(f.p) <= MaxDepth
      <4>1. f.p = <<>> \/ (Len(f.p) > 1 /\ Len(f.p) <= MaxDepth /\ Kind(tree, Front(f.p)) = "none")
        BY <1>1, <3>1, PathErrors
      <4>2. QED
        BY <2>4, <4>1
    <3>4. Waits(x, f)
      BY <3>2, <3>3 DEF Waits
    <3>5. Invoke(x, MakeDirectoryCall(Front(f.p), f.flags), "again")
      BY <2>1, <2>4
    <3>6. Maker(x)'
      BY <1>2, <3>1, <3>4, <3>5, MakerInvokes
    <3>7. MakeDirectoryCall(Front(f.p), f.flags) \in Frames /\ [f EXCEPT !.pc = "again"] \in Frames
      <4>1. Front(f.p) \in Paths
        BY <1>1, <3>3, MakerPath
      <4>2. f.flags \in SUBSET Flags
        BY <1>1 DEF Frames
      <4>3. MakeDirectoryCall(Front(f.p), f.flags) \in Frames
        BY <4>1, <4>2, CallFrames
      <4>4. [f EXCEPT !.pc = "again"] \in Frames
        BY <1>1 DEF Frames, Places
      <4>5. QED
        BY <4>3, <4>4
    <3>8. \A y \in Procs \ {x} : stack'[y] = stack[y] /\ (result'[y] = result[y])
      BY <1>5, <3>5, <3>7 DEF Invoke
    <3>9. QED
      BY <1>6, <3>1, <3>6, <3>8 DEF Goal
  <2>5. CASE e \notin {"ok", "EEXIST"} /\ ~(e = "ENOENT" /\ "recurse" \in f.flags /\ f.p # <<>>)
    <3>1. UNCHANGED tree
      BY <1>11, <2>1, <2>5
    <3>2. ASSUME "recurse" \in call[x].flags PROVE InTheWay(x)
      <4>1. "recurse" \in f.flags
        BY <1>1, <3>2 DEF MakerFrame
      <4>2. PathError(tree, f.p) = e /\ e # "ok"
        BY <2>5, MakeErrors
      <4>3. e # "ENOENT" \/ f.p = <<>>
        BY <2>5, <4>1
      <4>4. QED
        BY <1>1, <4>2, <4>3, MakerBlocked
    <3>3. Goto(x, "again")
      BY <2>1, <2>5
    <3>4. QED
      BY <1>12, <3>1, <3>2, <3>3
  <2>6. QED
    BY <2>2, <2>3, <2>4, <2>5
<1>14. ASSUME At(x, "make_directory", "isdir") PROVE Goal
  <2>1. UNCHANGED tree /\ IF Stat(tree, f.p) = "dir" THEN Return(x) ELSE Throw(x, "EEXIST")
    <3>1. "overwrite" \notin f.flags
      BY <1>1 DEF MakerFrame
    <3>2. QED
      BY <1>14, <3>1 DEF make_directory, At
  <2>2. f.p \in DOMAIN tree /\ Len(f.p) \in 1 .. Len(call[x].p) /\ f.p = UpTo(call[x].p, Len(f.p))
    <3>1. f.p \in DOMAIN tree /\ f.p # <<>>
      BY <1>1, <1>3, <1>14 DEF MakerFrame, At, GoodTree
    <3>2. QED
      BY <1>4, <3>1
  <2>3. Kind(tree, f.p) # "none"
    BY <1>3, <2>2 DEF Kind, GoodTree, IsNode
  <2>4. Kind(tree, f.p) # "dir" => InTheWay(x)
    BY <1>3, <2>2, <2>3, OldThing
  <2>5. CASE Stat(tree, f.p) = "dir"
    BY <1>6, <1>8, <2>1, <2>4, <2>5
  <2>6. CASE Stat(tree, f.p) # "dir"
    <3>1. InTheWay(x)
      BY <2>4, <2>6, NoLink
    <3>2. Throw(x, "EEXIST")
      BY <2>1, <2>6
    <3>3. QED
      BY <1>10, <2>1, <3>1, <3>2 DEF Explained
  <2>7. QED
    BY <2>5, <2>6
<1>15. ASSUME At(x, "make_directory", "again") PROVE Goal
  <2>1. Mkdir(f.p) /\ IF e = "ok" THEN Return(x) ELSE Throw(x, e)
    BY <1>15, Zenon DEF make_directory, At
  <2>2. CASE e = "ok"
    BY <1>9, <2>1, <2>2
  <2>3. CASE e # "ok"
    <3>1. UNCHANGED tree /\ Throw(x, e)
      BY <1>11, <2>1, <2>3
    <3>2. ASSUME "recurse" \in call[x].flags PROVE Explained(x)
      <4>1. InTheWay(x) \/ (Waits(x, f) /\ Kind(tree, Front(f.p)) = "dir")
        BY <1>15, <3>2 DEF Maker, MakerTop, At
      <4>2. CASE InTheWay(x)
        BY <4>2 DEF Explained
      <4>3. CASE Waits(x, f) /\ Kind(tree, Front(f.p)) = "dir"
        <5>1. Len(f.p) > 1 /\ Len(f.p) <= MaxDepth /\ f.p \notin DOMAIN before /\ (Alone(x) => f.p \notin DOMAIN tree)
          BY <4>3 DEF Waits
        <5>2. PathError(tree, f.p) = "ok"
          <6>1. Len(f.p) >= 1 /\ Len(f.p) <= MaxDepth /\ (Len(f.p) = 1 \/ Kind(tree, Front(f.p)) = "dir") =>
                    PathError(tree, f.p) = "ok"
            BY <1>1, PathErrors
          <6>2. Len(f.p) >= 1
            BY <1>4, <5>1, <1>1, PathErrors
          <6>3. QED
            BY <4>3, <5>1, <6>1, <6>2, Zenon
        <5>3. f.p \in DOMAIN tree
          BY <2>3, <5>2, MakeErrors
        <5>4. Kind(before, f.p) = "none" /\ Kind(tree, f.p) = "dir" /\ f.p # <<>>
          BY <1>3, <5>1, <5>3 DEF Kind, Grown, GoodTree
        <5>5. QED
          BY <1>4, <5>1, <5>3, <5>4 DEF Explained
      <4>4. QED
        BY <4>1, <4>2, <4>3
    <3>3. QED
      BY <1>10, <2>3, <3>1, <3>2
  <2>4. QED
    BY <2>2, <2>3
<1>16. Goal
  BY <1>13, <1>14, <1>15 DEF make_directory
<1>17. QED
  BY <1>2, <1>16 DEF Goal

LEMMA MakersStart == Init /\ Making => Makers
<1> SUFFICES ASSUME Init, Making PROVE Makers
  OBVIOUS
<1>1. Given /\ WellTyped
  BY InitTypes
<1>2. Grown(before, tree)
  BY DEF Init, Grown
<1>3. ASSUME NEW x \in Procs PROVE Maker(x)
  <2>1. MakerResult(x)
    BY DEF Init, MakerResult, Ended
  <2>2. CASE call[x] = NoCall
    <3>1. stack[x] = <<>> /\ Len(stack[x]) = 0
      BY <2>2 DEF Init
    <3>2. QED
      BY <2>1, <3>1 DEF Maker, MakerStack, MakerTop
  <2>3. CASE call[x] # NoCall
    <3> DEFINE c == call[x]
    <3>1. c.op = "make_directory"
      BY <2>3 DEF Making
    <3>2. c = MakeDirectoryCall(c.p, c.flags) /\ c.p \in Paths
      BY <1>1, <3>1, CallTypes DEF Frames
    <3>3. MakeDirectoryCall(c.p, c.flags).pc = "mkdir"
      BY DEF MakeDirectoryCall, Frame
    <3>4. c.pc = "mkdir"
      BY <3>2, <3>3
    <3>5. c.p = UpTo(c.p, Len(c.p)) /\ Len(c.p) \in Nat
      BY <3>2, SubSeqFull DEF UpTo, Paths
    <3>6. MakerFrame(x, c)
      BY <2>3, <3>1, <3>4, <3>5 DEF MakerFrame
    <3>7. stack[x] = <<c>>
      BY <2>3 DEF Init
    <3>8. Len(stack[x]) = 1 /\ stack[x][1] = c
      BY <3>7
    <3> HIDE DEF c
    <3>9. MakerStack(x)
      BY <2>3, <3>6, <3>8 DEF MakerStack, c
    <3>10. MakerTop(x)
      BY <3>4, <3>8 DEF MakerTop, Top
    <3>11. QED
      BY <2>1, <3>9, <3>10 DEF Maker
  <2>4. QED
    BY <2>2, <2>3
<1>4. QED
  BY <1>2, <1>3 DEF Makers

LEMMA MakersStep ==
    ASSUME WellTyped, Given, Making => Makers, [Next]_vars
    PROVE  (Making => Makers)'
<1>1. CASE UNCHANGED vars
  <2>1. UNCHANGED <<tree, content, stack, result, call, before>>
    BY <1>1 DEF vars
  <2>2. Making' <=> Making
    BY <2>1 DEF Making
  <2>3. ASSUME Makers PROVE Makers'
    <3>1. Grown(before, tree)' /\ Grown(tree, tree')
      BY <2>1, <2>3 DEF Makers, Grown
    <3>2. \A x \in Procs : Maker(x)'
      BY <2>1, <2>3, <3>1, MakerStays DEF Makers
    <3>3. QED
      BY <3>1, <3>2 DEF Makers
  <2>4. QED
    BY <2>2, <2>3
<1>2. ASSUME NEW x \in Procs, Step(x) PROVE (Making => Makers)'
  <2>1. UNCHANGED <<call, before>>
    BY <1>2, StepKeeps
  <2>2. Making' <=> Making
    BY <2>1 DEF Making
  <2>3. SUFFICES ASSUME Making PROVE Makers'
    BY <2>2
  <2>4. Makers
    BY <2>3
  <2>5. stack[x] # <<>> /\ Top(x).op = "make_directory" /\ call[x] # NoCall
    <3>1. stack[x] # <<>>
      BY <1>2, StepOp
    <3>2. MakerFrame(x, Top(x))
      BY <2>4, <3>1, MakerNow DEF Makers, Maker
    <3>3. QED
      BY <3>1, <3>2 DEF MakerFrame
  <2>6. make_directory(x) /\ "overwrite" \notin call[x].flags
    BY <1>2, <2>3, <2>5, StepOp DEF Making
  <2>7. /\ Maker(x)' /\ Grown(before, tree)' /\ Grown(tree, tree')
        /\ \A y \in Procs \ {x} : stack'[y] = stack[y] /\ (result'[y] = result[y])
    BY <2>4, <2>5, <2>6, MakersMove DEF Makers
  <2>8. ASSUME NEW y \in Procs \ {x} PROVE Maker(y)'
    <3>1. ~Alone(y)
      BY <2>5 DEF Alone
    <3>2. QED
      BY <2>1, <2>4, <2>7, <3>1, MakerStays DEF Makers
  <2>9. QED
    BY <2>7, <2>8 DEF Makers
<1>3. QED
  BY <1>1, <1>2 DEF Next

LEMMA MakersEnd ==
    ASSUME Given, Making => Makers
    PROVE  MakersAgree
<1>1. ASSUME Making, NEW x \in Procs, Ended(x), "recurse" \in call[x].flags
      PROVE  LET p == call[x].p
                 parents == {SubSeq(p, 1, k) : k \in 1 .. Len(p)}
             IN  IF result[x] = "ok" THEN Stat(tree, p) = "dir"
                 ELSE \/ Len(p) \notin 1 .. MaxDepth
                      \/ \E r \in parents : Kind(before, r) \in {"file", "link"}
                      \/ ~Alone(x) /\ \E r \in parents : Kind(before, r) = "none" /\ Kind(tree, r) = "dir"
  <2>1. IF result[x] = "ok" THEN Stat(tree, call[x].p) = "dir" ELSE Explained(x)
    BY <1>1 DEF Makers, Maker, MakerResult
  <2>2. QED
    BY <2>1 DEF Explained, InTheWay, UpTo
<1>2. QED
  BY <1>1, Zenon DEF MakersAgree, Making

-----------------------------------------------------------------------------
(* Processes that append to a file                                         *)

Appending(p) ==
    \A x \in Procs : call[x] = NoCall \/ (call[x].op = "save" /\ call[x].flags = {"append"} /\ call[x].p = p)

Old(f) == IF Kind(before, f) = "file" THEN Contents[before[f].ino] ELSE <<>>

Now(f) == IF Kind(tree, f) = "file" THEN content[tree[f].ino] ELSE <<>>

Added(old, now) == SubSeq(now, Len(old) + 1, Len(now))

PlacesOf(b, added) == {i \in 1 .. Len(added) : added[i] = b}

\* How many blocks of a call are stored, at least.
Wrote(x) ==
    IF result[x] = "ok" THEN (IF x \in unflushed THEN 0 ELSE Len(Saved))
    ELSE IF stack[x] = <<>> \/ Top(x).pc # "data" THEN 0
    ELSE IF buffer[x] = <<>> THEN Top(x).n ELSE Top(x).n - 1

Writers(j) == {x \in Procs : Wrote(x) >= j}

Appender(x, p) ==
    /\ call[x] = NoCall => stack[x] = <<>>
    /\ stack[x] # <<>> =>
          /\ Len(stack[x]) <= 1 /\ result[x] # "ok"
          /\ Top(x).op = "save" /\ Top(x).p = p /\ Top(x).flags = {"append"} /\ Top(x).pc \in {"open", "data"}
          /\ Top(x).pc = "open" => Top(x).n = 0 /\ buffer[x] = <<>>
          /\ Top(x).pc = "data" =>
                /\ Kind(tree, Follow(before, p)) = "file" /\ Top(x).out = tree[Follow(before, p)].ino
                /\ Top(x).n <= Len(Saved)
                /\ buffer[x] # <<>> => Top(x).n >= 1 /\ buffer[x] = <<Saved[Top(x).n]>>

\* A step that is not the process's own.
Untouched(y) ==
    /\ stack'[y] = stack[y] /\ (result'[y] = result[y]) /\ (buffer'[y] = buffer[y])
    /\ y \in unflushed' <=> y \in unflushed

\* Links lead where they led, and a file stays what it is.
Kept(t, u) ==
    /\ \A q : ReadLink(u, q) = ReadLink(t, q)
    /\ \A q : Kind(t, q) = "file" => Kind(u, q) = "file" /\ u[q].ino = t[q].ino

ContentType ==
    /\ DOMAIN content = Inodes /\ \A i \in Inodes : content[i] \in Seq(STRING)
    /\ DOMAIN buffer = Procs

\* Each block that somebody wrote is at a place of its own.
Counted(old, now) ==
    \A j \in 1 .. Len(Saved) : Cardinality(Writers(j)) <= Cardinality(PlacesOf(Saved[j], Added(old, now)))

Appenders(p) ==
    LET f == Follow(before, p)
    IN  /\ Kept(before, tree) /\ ContentType
        /\ IsPrefix(Old(f), Now(f)) /\ Counted(Old(f), Now(f))
        /\ \A x \in Procs : Appender(x, p)

LEMMA PlacesFinite ==
    ASSUME NEW old \in Seq(STRING), NEW s \in Seq(STRING), IsPrefix(old, s)
    PROVE  /\ Added(old, s) \in Seq(STRING) /\ Len(Added(old, s)) = Len(s) - Len(old)
           /\ \A c : IsFiniteSet(PlacesOf(c, Added(old, s)))
<1>1. Len(old) \in Nat /\ Len(s) \in Nat /\ Len(old) <= Len(s)
  BY DEF IsPrefix
<1>2. Added(old, s) \in Seq(STRING) /\ Len(Added(old, s)) = Len(s) - Len(old)
  <2>1. \A i \in Len(old) + 1 .. Len(s) : s[i] \in STRING
    BY <1>1, ElementOfSeq
  <2>2. QED
    BY <1>1, <2>1, SubSeqProperties DEF Added
<1>3. IsFiniteSet(1 .. Len(Added(old, s)))
  BY <1>1, <1>2, FS_Interval
<1>4. \A c : PlacesOf(c, Added(old, s)) \subseteq 1 .. Len(Added(old, s))
  BY DEF PlacesOf
<1>5. QED
  BY <1>2, <1>3, <1>4, FS_Subset

\* One more block at the end.
LEMMA OneMore ==
    ASSUME NEW old \in Seq(STRING), NEW s \in Seq(STRING), NEW b \in STRING, IsPrefix(old, s)
    PROVE  /\ IsPrefix(old, Append(s, b)) /\ IsFiniteSet(PlacesOf(b, Added(old, s)))
           /\ Cardinality(PlacesOf(b, Added(old, Append(s, b)))) = Cardinality(PlacesOf(b, Added(old, s))) + 1
           /\ \A c : /\ IsFiniteSet(PlacesOf(c, Added(old, Append(s, b))))
                     /\ PlacesOf(c, Added(old, s)) \subseteq PlacesOf(c, Added(old, Append(s, b)))
<1> DEFINE u == Append(s, b)
           t == Added(old, s)
           v == Added(old, u)
<1>1. Len(old) \in Nat /\ Len(s) \in Nat /\ Len(old) <= Len(s) /\ SubSeq(s, 1, Len(old)) = SubSeq(old, 1, Len(old))
  BY DEF IsPrefix
<1>2. /\ u \in Seq(STRING) /\ Len(u) = Len(s) + 1
      /\ \A i \in 1 .. Len(s) : u[i] = s[i]
      /\ u[Len(s) + 1] = b
  <2>1. u \in Seq(STRING) /\ Len(u) = Len(s) + 1
    BY <1>1, AppendProperties
  <2>2. \A i \in 1 .. Len(s) : u[i] = s[i]
    BY <1>1, AppendProperties
  <2>3. u[Len(s) + 1] = b
    BY <1>1, AppendProperties
  <2>4. QED
    BY <2>1, <2>2, <2>3
<1> HIDE DEF u
<1>3. t \in Seq(STRING) /\ Len(t) = Len(s) - Len(old) /\ \A i \in 1 .. Len(t) : t[i] = s[Len(old) + i]
  <2>1. \A i \in Len(old) + 1 .. Len(s) : s[i] \in STRING
    BY <1>1, ElementOfSeq
  <2>2. QED
    BY <1>1, <2>1, SubSeqProperties DEF Added
<1>4. v \in Seq(STRING) /\ Len(v) = Len(t) + 1 /\ \A i \in 1 .. Len(v) : v[i] = u[Len(old) + i]
  <2>1. \A i \in Len(old) + 1 .. Len(u) : u[i] \in STRING
    BY <1>1, <1>2, ElementOfSeq
  <2>2. QED
    BY <1>1, <1>2, <1>3, <2>1, SubSeqProperties DEF Added
<1> HIDE DEF t, v
<1>5. /\ Len(t) \in Nat /\ Len(t) + 1 \in 1 .. Len(v)
      /\ \A i \in 1 .. Len(t) : v[i] = t[i] /\ i \in 1 .. Len(v)
      /\ v[Len(t) + 1] = b
      /\ \A i \in 1 .. Len(v) : i \in 1 .. Len(t) \/ i = Len(t) + 1
  <2>1. Len(t) \in Nat
    BY <1>3
  <2>2. ASSUME NEW i \in 1 .. Len(t) PROVE v[i] = t[i] /\ i \in 1 .. Len(v)
    <3>1. i \in 1 .. Len(v) /\ Len(old) + i \in 1 .. Len(s)
      BY <1>1, <1>3, <1>4, <2>1
    <3>2. QED
      BY <1>2, <1>3, <1>4, <3>1
  <2>3. v[Len(t) + 1] = b /\ Len(t) + 1 \in 1 .. Len(v)
    <3>1. Len(t) + 1 \in 1 .. Len(v) /\ Len(old) + (Len(t) + 1) = Len(s) + 1
      BY <1>1, <1>3, <1>4, <2>1
    <3>2. v[Len(t) + 1] = u[Len(old) + (Len(t) + 1)]
      BY <1>4, <3>1
    <3>3. QED
      BY <1>2, <3>1, <3>2
  <2>4. \A i \in 1 .. Len(v) : i \in 1 .. Len(t) \/ i = Len(t) + 1
    BY <1>4, <2>1
  <2>5. QED
    BY <2>1, <2>2, <2>3, <2>4
<1>6. \A c : IsFiniteSet(PlacesOf(c, t)) /\ IsFiniteSet(PlacesOf(c, v))
  <2>1. IsFiniteSet(1 .. Len(t)) /\ IsFiniteSet(1 .. Len(v))
    BY <1>4, <1>5, FS_Interval
  <2>2. \A c : PlacesOf(c, t) \subseteq 1 .. Len(t) /\ PlacesOf(c, v) \subseteq 1 .. Len(v)
    BY DEF PlacesOf
  <2>3. QED
    BY <2>1, <2>2, FS_Subset
<1>7. PlacesOf(b, v) = PlacesOf(b, t) \cup {Len(t) + 1} /\ Len(t) + 1 \notin PlacesOf(b, t)
  <2>1. Len(t) + 1 \notin 1 .. Len(t)
    BY <1>5
  <2>2. QED
    BY <1>5, <2>1 DEF PlacesOf
<1>8. Cardinality(PlacesOf(b, v)) = Cardinality(PlacesOf(b, t)) + 1
  <2>1. IsFiniteSet(PlacesOf(b, t))
    BY <1>6
  <2>2. QED
    BY <1>7, <2>1, FS_AddElement
<1>9. \A c : PlacesOf(c, t) \subseteq PlacesOf(c, v)
  BY <1>5 DEF PlacesOf
<1>10. IsPrefix(old, u)
  <2>1. SubSeq(u, 1, Len(old)) = SubSeq(s, 1, Len(old))
    <3>1. SubSeq(u, 1, Len(old)) \in Seq(STRING) /\ Len(SubSeq(u, 1, Len(old))) = Len(old)
          /\ \A i \in 1 .. Len(old) : SubSeq(u, 1, Len(old))[i] = u[i]
      <4>1. \A i \in 1 .. Len(old) : u[i] \in STRING
        BY <1>1, <1>2, ElementOfSeq
      <4>2. QED
        BY <1>1, <4>1, SubSeqProperties
    <3>2. SubSeq(s, 1, Len(old)) \in Seq(STRING) /\ Len(SubSeq(s, 1, Len(old))) = Len(old)
          /\ \A i \in 1 .. Len(old) : SubSeq(s, 1, Len(old))[i] = s[i]
      BY <1>1, SubSeqProperties
    <3>3. \A i \in 1 .. Len(old) : u[i] = s[i]
      BY <1>1, <1>2
    <3>4. QED
      BY <3>1, <3>2, <3>3, SeqEqual
  <2>2. QED
    BY <1>1, <1>2, <2>1 DEF IsPrefix
<1>11. QED
  BY <1>6, <1>8, <1>9, <1>10 DEF t, u, v

LEMMA KeptFollow ==
    ASSUME NEW t, NEW u, Kept(t, u)
    PROVE  \A p : Follow(u, p) = Follow(t, p)
  BY Zenon DEF Kept, Follow

LEMMA KeptOn ==
    ASSUME NEW t, NEW u, NEW v, Kept(t, u), Kept(u, v)
    PROVE  Kept(t, v)
  BY DEF Kept

\* Opening a file for writing.
LEMMA OpenKept ==
    ASSUME GoodTree(tree), NEW f, Kind(tree, f) \notin {"dir", "link"}, NEW ino, f \in DOMAIN tree => ino = tree[f].ino,
           tree' = With(tree, f, Node("file", ino, <<>>))
    PROVE  Kept(tree, tree') /\ Kind(tree', f) = "file" /\ tree'[f].ino = ino
           /\ (f \in DOMAIN tree <=> Kind(tree, f) = "file")
<1>1. /\ DOMAIN tree' = DOMAIN tree \cup {f} /\ tree'[f].kind = "file" /\ tree'[f].ino = ino
      /\ \A q \in DOMAIN tree : q # f => tree'[q] = tree[q]
  BY DEF With, Node
<1>2. f \in DOMAIN tree <=> Kind(tree, f) = "file"
  BY DEF Kind, GoodTree, IsNode
<1>3. Kind(tree', f) = "file"
  BY <1>1 DEF Kind
<1>4. \A q : q # f => Kind(tree', q) = Kind(tree, q)
  BY <1>1 DEF Kind
<1>5. \A q : ReadLink(tree', q) = ReadLink(tree, q)
  <2>1. TAKE q
  <2>2. CASE q = f
    BY <1>3, <2>2 DEF ReadLink
  <2>3. CASE q # f
    <3>1. Kind(tree, q) = "link" => tree'[q] = tree[q]
      BY <1>1, <2>3 DEF Kind
    <3>2. QED
      BY <1>4, <2>3, <3>1 DEF ReadLink
  <2>4. QED
    BY <2>2, <2>3
<1>6. ASSUME NEW q, Kind(tree, q) = "file" PROVE Kind(tree', q) = "file" /\ tree'[q].ino = tree[q].ino
  <2>1. q \in DOMAIN tree
    BY <1>6 DEF Kind
  <2>2. CASE q = f
    BY <1>1, <1>3, <2>1, <2>2
  <2>3. CASE q # f
    BY <1>1, <1>4, <1>6, <2>1, <2>3
  <2>4. QED
    BY <2>2, <2>3
<1>7. QED
  BY <1>1, <1>2, <1>3, <1>5, <1>6 DEF Kept

LEMMA WroteType ==
    ASSUME StackType, NEW x \in Procs
    PROVE  Wrote(x) \in Int /\ Len(Saved) \in Nat
<1>1. Len(Saved) \in Nat
  BY FileOpsAssumption
<1>2. stack[x] # <<>> => Top(x).n \in Nat
  BY TopOf DEF Frames
<1>3. QED
  BY <1>1, <1>2 DEF Wrote

LEMMA WroteNext ==
    ASSUME StackType', NEW x \in Procs
    PROVE  Wrote(x)' \in Int
<1>1. Len(Saved) \in Nat
  BY FileOpsAssumption
<1>2. stack'[x] # <<>> => stack'[x][1].n \in Nat
  <2>1. stack'[x] \in Seq(Frames)
    BY DEF StackType
  <2>2. \A s \in Seq(Frames) : s # <<>> => s[1] \in Frames
    OBVIOUS
  <2>3. QED
    BY <2>1, <2>2 DEF Frames
<1>3. QED
  BY <1>1, <1>2 DEF Wrote, Top

LEMMA AppenderStays ==
    ASSUME NEW y \in Procs, NEW p, Appender(y, p), Kept(tree, tree'), UNCHANGED <<call, before>>,
           Untouched(y)
    PROVE  Appender(y, p)' /\ Wrote(y)' = Wrote(y)
<1>1. Wrote(y)' = Wrote(y)
  BY DEF Wrote, Top, Untouched
<1>2. Appender(y, p)'
  BY DEF Appender, Top, Kept, Untouched
<1>3. QED
  BY <1>1, <1>2

\* A step that writes nothing.
LEMMA CountStays ==
    ASSUME StackType, StackType', NEW old \in Seq(STRING), NEW now \in Seq(STRING), IsPrefix(old, now),
           Counted(old, now), \A y \in Procs : Wrote(y)' <= Wrote(y)
    PROVE  \A j \in 1 .. Len(Saved) : Cardinality(Writers(j)') <= Cardinality(PlacesOf(Saved[j], Added(old, now)))
<1>1. TAKE j \in 1 .. Len(Saved)
<1>2. j \in Int /\ IsFiniteSet(Procs)
  BY FileOpsAssumption
<1>3. \A y \in Procs : Wrote(y) \in Int /\ Wrote(y)' \in Int
  <2>1. \A y \in Procs : Wrote(y) \in Int
    BY WroteType
  <2>2. \A y \in Procs : Wrote(y)' \in Int
    BY WroteNext
  <2>3. QED
    BY <2>1, <2>2
<1>4. Writers(j)' \subseteq Writers(j)
  BY <1>2, <1>3 DEF Writers
<1>5. IsFiniteSet(Writers(j))
  BY <1>2, FS_Subset DEF Writers
<1>6. Cardinality(Writers(j)') <= Cardinality(Writers(j)) /\ Cardinality(Writers(j)) \in Nat
      /\ Cardinality(Writers(j)') \in Nat
  BY <1>4, <1>5, FS_Subset, FS_CardinalityType
<1>7. Cardinality(Writers(j)) <= Cardinality(PlacesOf(Saved[j], Added(old, now)))
  BY DEF Counted
<1>8. Cardinality(PlacesOf(Saved[j], Added(old, now))) \in Nat
  BY PlacesFinite, FS_CardinalityType
<1>9. QED
  BY <1>6, <1>7, <1>8

LEMMA AppendersMove ==
    ASSUME ~IsFiniteSet(Inodes), WellTyped, WellTyped', Given, NEW p \in Paths, Appending(p), Appenders(p),
           NEW x \in Procs, save(x), stack[x] # <<>>
    PROVE  Appenders(p)'
<1> DEFINE f == Follow(before, p)
           t == Top(x)
           old == Old(f)
           now == Now(f)
<1>1. /\ Kept(before, tree) /\ ContentType /\ IsPrefix(old, now) /\ Counted(old, now)
      /\ \A y \in Procs : Appender(y, p)
  BY DEF Appenders
<1>2. /\ t.op = "save" /\ t.p = p /\ t.flags = {"append"} /\ t.pc \in {"open", "data"}
      /\ (t.pc = "open" => t.n = 0 /\ buffer[x] = <<>>) /\ Len(stack[x]) <= 1 /\ call[x] # NoCall /\ result[x] # "ok"
      /\ t.pc = "data" => /\ Kind(tree, f) = "file" /\ t.out = tree[f].ino /\ t.n <= Len(Saved)
                          /\ buffer[x] # <<>> => t.n >= 1 /\ buffer[x] = <<Saved[t.n]>>
  BY <1>1 DEF Appender
<1>3. call[x].op = "save"
  BY <1>2 DEF Appending
<1>4. t \in Frames /\ t.n \in Nat /\ Len(Saved) \in Nat /\ GoodTree(tree) /\ GoodTree(before) /\ StackType /\ StackType'
  BY TopOf, CallTypes, FileOpsAssumption DEF WellTyped, Frames
<1>5. UNCHANGED <<call, before>>
  BY DEF save, OpenToWrite, WriteBlocks, DataFails, Same
<1>6. Follow(tree, p) = f
  BY <1>1, KeptFollow
<1>7. old \in Seq(STRING) /\ now \in Seq(STRING)
  <2>1. ASSUME Kind(before, f) = "file" PROVE Contents[before[f].ino] \in Seq(STRING)
    BY <1>4, <2>1, FileOpsAssumption DEF Kind, GoodTree, IsNode
  <2>2. ASSUME Kind(tree, f) = "file" PROVE content[tree[f].ino] \in Seq(STRING)
    BY <1>1, <1>4, <2>2 DEF Kind, GoodTree, IsNode, ContentType
  <2>3. <<>> \in Seq(STRING)
    OBVIOUS
  <2>4. QED
    BY <2>1, <2>2, <2>3 DEF Old, Now
<1>8. Old(f)' = old
  BY <1>5 DEF Old
<1>9. f' = f
  BY <1>5
\* What is left to show of a step that writes nothing.
<1>10. ASSUME Kept(tree, tree'), ContentType', Now(f)' = now, \A y \in Procs : Wrote(y)' <= Wrote(y),
              Appender(x, p)', \A y \in Procs \ {x} : Untouched(y)
       PROVE  Appenders(p)'
  <2>1. Kept(before, tree')
    BY <1>1, <1>10, KeptOn
  <2>2. \A j \in 1 .. Len(Saved) : Cardinality(Writers(j)') <= Cardinality(PlacesOf(Saved[j], Added(old, now)))
    BY <1>1, <1>4, <1>7, <1>10, CountStays
  <2>3. \A y \in Procs : Appender(y, p)'
    BY <1>1, <1>5, <1>10, AppenderStays
  <2> HIDE DEF old, now
  <2>4. Counted(Old(f), Now(f))'
    BY <1>8, <1>9, <1>10, <2>2 DEF Counted
  <2>5. IsPrefix(Old(f), Now(f))'
    BY <1>1, <1>8, <1>9, <1>10
  <2>6. QED
    BY <1>5, <1>10, <2>1, <2>3, <2>4, <2>5 DEF Appenders
<1>11. \A y \in Procs : Wrote(y) \in Int
  BY <1>4, WroteType
<1>12. CASE At(x, "save", "open") /\ OpenToWrite(x, p, TRUE)
  <2>1. /\ t.pc = "open" /\ t.n = 0 /\ Wrote(x) = 0
        /\ UNCHANGED <<buffer, unflushed>> /\ buffer[x] = <<>>
    BY <1>2, <1>12 DEF At, Wrote, OpenToWrite, stdio
  <2>2. CASE Throw(x, "EIO") /\ UNCHANGED <<tree, content>>
    <3>1. /\ stack'[x] = <<>> /\ result'[x] \in {"EIO", result[x]}
          /\ \A y \in Procs \ {x} : Untouched(y)
      BY <1>4, <2>1, <2>2 DEF Throw, StackType, Untouched
    <3>2. Wrote(x)' = 0 /\ Appender(x, p)'
      BY <1>2, <3>1 DEF Wrote, Appender
    <3>3. Now(f)' = now /\ Kept(tree, tree') /\ ContentType'
      BY <1>1, <1>9, <2>1, <2>2 DEF Now, Kept, ContentType
    <3>4. \A y \in Procs : Wrote(y)' <= Wrote(y)
      BY <1>1, <1>5, <1>11, <2>1, <3>1, <3>2, <3>3, AppenderStays
    <3>5. QED
      BY <1>10, <3>1, <3>2, <3>3, <3>4
  <2>3. CASE ~(Throw(x, "EIO") /\ UNCHANGED <<tree, content>>)
    <3> DEFINE ino == IF f \in DOMAIN tree THEN tree[f].ino ELSE Fresh
               g == [t EXCEPT !.pc = "data", !.out = ino]
    <3>1. /\ Kind(tree, f) \notin {"dir", "link"}
          /\ tree' = With(tree, f, Node("file", ino, <<>>))
          /\ content' = IF f \in DOMAIN tree THEN content ELSE [content EXCEPT ![ino] = <<>>]
          /\ Becomes(x, g)
      <4> DEFINE error == CASE Kind(tree, f) = "dir" -> "EISDIR"
                            [] Kind(tree, f) = "link" -> "ELOOP"
                            [] OTHER -> PathError(tree, f)
      <4>1. /\ error = "ok"
            /\ tree' = With(tree, f, Node("file", ino, <<>>))
            /\ content' = IF f \in DOMAIN tree THEN content ELSE [content EXCEPT ![ino] = <<>>]
            /\ Becomes(x, g)
        BY <1>6, <1>12, <2>3, Zenon DEF OpenToWrite
      <4>2. Kind(tree, f) = "dir" => error = "EISDIR"
        OBVIOUS
      <4>3. Kind(tree, f) = "link" => error = "ELOOP"
        OBVIOUS
      <4>4. Kind(tree, f) \notin {"dir", "link"}
        BY <4>1, <4>2, <4>3
      <4>5. QED
        BY <4>1, <4>4
    <3>2. ino \in Inodes /\ ino \in Nat
      <4>1. Fresh \in Inodes
        BY <1>4, FreshIsNew DEF GoodTree
      <4>2. QED
        BY <1>4, <4>1, FileSystemAssumption DEF GoodTree, IsNode
    <3>3. Kept(tree, tree') /\ Kind(tree', f) = "file" /\ tree'[f].ino = ino /\ (f \in DOMAIN tree <=> Kind(tree, f) = "file")
      <4>1. f \in DOMAIN tree => ino = tree[f].ino
        OBVIOUS
      <4> HIDE DEF ino
      <4>2. QED
        BY <1>4, <3>1, <4>1, OpenKept
    <3>4. ContentType'
      <4>1. <<>> \in Seq(STRING)
        OBVIOUS
      <4>2. content' = content \/ content' = [content EXCEPT ![ino] = <<>>]
        BY <3>1
      <4> HIDE DEF ino
      <4>3. QED
        BY <1>1, <2>1, <3>2, <4>1, <4>2 DEF ContentType
    <3>5. Now(f)' = now
      <4>1. Now(f)' = content'[ino]
        BY <1>9, <3>3 DEF Now
      <4>2. CASE f \in DOMAIN tree
        BY <3>1, <3>3, <4>1, <4>2 DEF Now
      <4>3. CASE f \notin DOMAIN tree
        BY <1>1, <3>1, <3>2, <3>3, <4>1, <4>3 DEF Now, ContentType
      <4>4. QED
        BY <4>2, <4>3
    <3>6. g \in Frames /\ g.pc = "data" /\ g.out = ino /\ g.n = 0 /\ g.op = t.op /\ g.p = t.p /\ g.flags = t.flags
      BY <1>4, <2>1, <3>2 DEF Frames, Places
    <3> HIDE DEF g, ino
    <3>7. /\ stack'[x] # <<>> /\ stack'[x][1] = g /\ Len(stack'[x]) = Len(stack[x]) /\ result' = result
          /\ \A y \in Procs \ {x} : Untouched(y)
      BY <1>4, <2>1, <3>1, <3>6, StackMoves DEF Becomes, Untouched
    <3>8. Wrote(x)' = 0
      BY <1>2, <2>1, <3>6, <3>7 DEF Wrote, Top
    <3>9. Appender(x, p)'
      BY <1>2, <1>4, <1>5, <2>1, <3>3, <3>6, <3>7 DEF Appender, Top
    <3>10. \A y \in Procs : Wrote(y)' <= Wrote(y)
      BY <1>1, <1>5, <1>11, <2>1, <3>3, <3>7, <3>8, AppenderStays
    <3>11. QED
      BY <1>10, <3>3, <3>4, <3>5, <3>7, <3>9, <3>10
  <2>4. QED
    BY <2>2, <2>3
\* fwrite() takes a block.
<1>13. CASE /\ t.pc = "data" /\ buffer[x] = <<>> /\ ~(t.n >= Len(Saved))
            /\ buffer' = [buffer EXCEPT ![x] = <<Saved[t.n + 1]>>]
            /\ Becomes(x, [t EXCEPT !.n = t.n + 1])
            /\ UNCHANGED <<tree, content, call, before, unflushed>>
  <2> DEFINE g == [t EXCEPT !.n = t.n + 1]
  <2>1. g \in Frames /\ g.pc = t.pc /\ g.out = t.out /\ g.n = t.n + 1 /\ g.op = t.op /\ g.p = t.p /\ g.flags = t.flags
    BY <1>4 DEF Frames
  <2>2. Becomes(x, g)
    BY <1>13
  <2> HIDE DEF g
  <2>3. buffer'[x] = <<Saved[t.n + 1]>> /\ buffer'[x] # <<>> /\ \A y \in Procs \ {x} : buffer'[y] = buffer[y]
    BY <1>1, <1>13 DEF ContentType
  <2>4. /\ stack'[x] # <<>> /\ stack'[x][1] = g /\ Len(stack'[x]) = Len(stack[x]) /\ result' = result
        /\ \A y \in Procs \ {x} : stack'[y] = stack[y]
    BY <1>4, <2>1, <2>2, StackMoves DEF Becomes
  <2>5. \A y \in Procs \ {x} : Untouched(y)
    BY <1>13, <2>3, <2>4 DEF Untouched
  <2>6. Wrote(x)' = Wrote(x)
    BY <1>2, <1>4, <1>13, <2>1, <2>3, <2>4 DEF Wrote, Top
  <2>7. Now(f)' = now /\ Kept(tree, tree') /\ ContentType'
    BY <1>1, <1>9, <1>13 DEF Now, Kept, ContentType
  <2>8. Appender(x, p)'
    BY <1>2, <1>4, <1>5, <1>13, <2>1, <2>3, <2>4 DEF Appender, Top
  <2>9. \A y \in Procs : Wrote(y)' <= Wrote(y)
    BY <1>1, <1>5, <1>11, <2>5, <2>6, <2>7, AppenderStays
  <2>10. QED
    BY <1>10, <2>5, <2>7, <2>8, <2>9
\* What is left to show of a step that stores the block in the buffer.
<1>14. ASSUME t.pc = "data", buffer[x] # <<>>, content' = Stored(x, TRUE), tree' = tree, DOMAIN buffer' = Procs,
              \A y \in Procs \ {x} : Untouched(y), Appender(x, p)', Wrote(x)' <= t.n
       PROVE  Appenders(p)'
  <2> DEFINE b == Saved[t.n]
  <2>1. t.n \in 1 .. Len(Saved) /\ b \in STRING /\ Wrote(x) = t.n - 1 /\ buffer[x] = <<b>> /\ buffer[x][1] = b
    <3>1. t.n \in 1 .. Len(Saved) /\ buffer[x] = <<b>>
      BY <1>2, <1>4, <1>14
    <3>2. b \in STRING
      BY <3>1, FileOpsAssumption, ElementOfSeq
    <3>3. Wrote(x) = t.n - 1
      BY <1>2, <1>14 DEF Wrote
    <3>4. QED
      BY <3>1, <3>2, <3>3
  <2>2. Kind(tree, f) = "file" /\ t.out = tree[f].ino /\ t.out \in Inodes /\ now = content[t.out]
    <3>1. Kind(tree, f) = "file" /\ t.out = tree[f].ino
      BY <1>2, <1>14
    <3>2. QED
      BY <1>4, <3>1 DEF Kind, GoodTree, IsNode, Now
  <2>3. content' = [content EXCEPT ![t.out] = Append(@, b)]
    BY <1>14, <2>1 DEF Stored
  <2>4. Append(now, b) \in Seq(STRING)
    BY <1>7, <2>1, AppendProperties
  <2> HIDE DEF b
  <2>5. Now(f)' = Append(now, b)
    BY <1>1, <1>9, <1>14, <2>2, <2>3 DEF Now, ContentType
  <2>6. ContentType'
    BY <1>1, <1>14, <2>2, <2>3, <2>4 DEF ContentType
  <2>7. Kept(tree, tree')
    BY <1>14 DEF Kept
  <2>8. \A y \in Procs \ {x} : Appender(y, p)' /\ Wrote(y)' = Wrote(y)
    BY <1>1, <1>5, <1>14, <2>7, AppenderStays
  <2>9. Wrote(x)' \in Int /\ Wrote(x)' <= t.n
    BY <1>4, <1>14, WroteNext
  <2> HIDE DEF old, now
  <2>10. ASSUME NEW j \in 1 .. Len(Saved)
         PROVE  Cardinality(Writers(j)') <= Cardinality(PlacesOf(Saved[j], Added(old, Append(now, b))))
    <3> DEFINE N == Cardinality(Writers(j))
               P == PlacesOf(Saved[j], Added(old, now))
               Q == PlacesOf(Saved[j], Added(old, Append(now, b)))
    <3>1. /\ IsFiniteSet(P) /\ IsFiniteSet(Q) /\ P \subseteq Q
          /\ Saved[j] = b => Cardinality(Q) = Cardinality(P) + 1
      BY <1>1, <1>7, <2>1, OneMore, PlacesFinite
    <3>2. Cardinality(P) \in Nat /\ Cardinality(Q) \in Nat /\ Cardinality(P) <= Cardinality(Q)
      BY <3>1, FS_Subset, FS_CardinalityType
    <3>3. IsFiniteSet(Writers(j)) /\ N \in Nat /\ IsFiniteSet(Writers(j)') /\ Cardinality(Writers(j)') \in Nat
      <4>1. Writers(j) \subseteq Procs /\ Writers(j)' \subseteq Procs
        BY DEF Writers
      <4>2. QED
        BY <4>1, FileOpsAssumption, FS_Subset, FS_CardinalityType
    <3>4. N <= Cardinality(P)
      BY <1>1 DEF Counted
    <3>5. CASE j = t.n
      <4>1. x \notin Writers(j)
        BY <1>4, <2>1, <3>5 DEF Writers
      <4>2. Cardinality(Writers(j) \cup {x}) = N + 1 /\ IsFiniteSet(Writers(j) \cup {x})
        BY <3>3, <4>1, FS_AddElement
      <4>3. Writers(j)' \subseteq Writers(j) \cup {x}
        BY <2>8 DEF Writers
      <4>4. Cardinality(Writers(j)') <= N + 1
        BY <4>2, <4>3, FS_Subset
      <4>5. Saved[j] = b
        BY <3>5 DEF b
      <4>6. QED
        BY <3>1, <3>2, <3>3, <3>4, <4>4, <4>5
    <3>6. CASE j # t.n
      <4>1. ASSUME NEW y \in Procs, Wrote(y)' >= j PROVE Wrote(y) >= j
        <5>1. CASE y = x
          BY <1>4, <2>1, <2>9, <3>6, <4>1, <5>1
        <5>2. CASE y # x
          BY <2>8, <4>1, <5>2
        <5>3. QED
          BY <5>1, <5>2
      <4>2. Writers(j)' \subseteq Writers(j)
        BY <4>1 DEF Writers
      <4>3. Cardinality(Writers(j)') <= N
        BY <3>3, <4>2, FS_Subset
      <4>4. QED
        BY <3>2, <3>3, <3>4, <4>3
    <3>7. QED
      BY <3>5, <3>6
  <2>11. Counted(Old(f), Now(f))'
    BY <1>8, <1>9, <2>5, <2>10 DEF Counted
  <2>12. IsPrefix(Old(f), Now(f))'
    BY <1>1, <1>7, <1>8, <1>9, <2>1, <2>5, OneMore
  <2>13. Kept(before, tree)'
    BY <1>1, <1>5, <1>14
  <2>14. QED
    BY <1>5, <1>14, <2>6, <2>8, <2>11, <2>12, <2>13 DEF Appenders
\* The block in the buffer is stored.
<1>15. CASE /\ t.pc = "data" /\ buffer[x] # <<>> /\ content' = Stored(x, TRUE)
            /\ buffer' = [buffer EXCEPT ![x] = <<>>]
            /\ UNCHANGED <<tree, stack, result, call, before, unflushed>>
  <2>1. buffer'[x] = <<>> /\ DOMAIN buffer' = Procs /\ \A y \in Procs \ {x} : buffer'[y] = buffer[y]
    BY <1>1, <1>15 DEF ContentType
  <2>2. \A y \in Procs \ {x} : Untouched(y)
    BY <1>15, <2>1 DEF Untouched
  <2>3. Wrote(x)' = t.n
    BY <1>2, <1>15, <2>1 DEF Wrote, Top
  <2>4. Appender(x, p)'
    BY <1>2, <1>5, <1>15, <2>1 DEF Appender, Top
  <2>5. QED
    BY <1>4, <1>14, <1>15, <2>1, <2>2, <2>3, <2>4
\* fwrite() fails.
<1>16. CASE t.pc = "data" /\ DataFails(x, TRUE)
  <2>1. /\ stack'[x] = <<>> /\ result'[x] \in {"EIO", result[x]}
        /\ \A y \in Procs \ {x} : stack'[y] = stack[y] /\ (result'[y] = result[y])
    BY <1>4, <1>16 DEF DataFails, Throw, StackType
  <2>2. /\ buffer' = [buffer EXCEPT ![x] = <<>>] /\ UNCHANGED <<tree, call, before, unflushed>>
        /\ content' = content \/ (buffer[x] # <<>> /\ content' = Stored(x, TRUE))
    BY <1>16 DEF DataFails
  <2>3. buffer'[x] = <<>> /\ DOMAIN buffer' = Procs /\ \A y \in Procs \ {x} : buffer'[y] = buffer[y]
    BY <1>1, <2>2 DEF ContentType
  <2>4. \A y \in Procs \ {x} : Untouched(y)
    BY <2>1, <2>2, <2>3 DEF Untouched
  <2>5. Wrote(x)' = 0 /\ Appender(x, p)'
    BY <1>2, <2>1 DEF Wrote, Appender
  <2>6. CASE content' = content
    <3>1. Now(f)' = now /\ Kept(tree, tree') /\ ContentType'
      BY <1>1, <1>9, <2>2, <2>3, <2>6 DEF Now, Kept, ContentType
    <3>2. Wrote(x) >= 0
      BY <1>2, <1>4, <1>16 DEF Wrote
    <3>3. \A y \in Procs : Wrote(y)' <= Wrote(y)
      BY <1>1, <1>5, <1>11, <2>4, <2>5, <3>1, <3>2, AppenderStays
    <3>4. QED
      BY <1>10, <2>4, <2>5, <3>1, <3>3
  <2>7. CASE buffer[x] # <<>> /\ content' = Stored(x, TRUE)
    <3>1. Wrote(x)' <= t.n
      BY <1>4, <2>5
    <3>2. QED
      BY <1>14, <1>16, <2>2, <2>3, <2>4, <2>5, <2>7, <3>1
  <2>8. QED
    BY <2>2, <2>6, <2>7
\* All blocks are taken and the file is closed, with an error or without.
<1>17. CASE /\ t.pc = "data" /\ t.n >= Len(Saved) /\ Return(x) /\ UNCHANGED <<tree, content, call, before>>
            /\ \/ /\ buffer[x] # <<>> /\ unflushed' = unflushed \cup {x} /\ buffer' = [buffer EXCEPT ![x] = <<>>]
               \/ buffer[x] = <<>> /\ UNCHANGED <<buffer, unflushed>>
  <2>1. /\ stack'[x] = <<>> /\ result'[x] \in {"ok", result[x]}
        /\ \A y \in Procs \ {x} : stack'[y] = stack[y] /\ (result'[y] = result[y])
    <3>1. stack'[x] = Tail(stack[x]) /\ Tail(stack[x]) \in Seq(Frames) /\ Len(Tail(stack[x])) = Len(stack[x]) - 1
          /\ \A y \in Procs \ {x} : stack'[y] = stack[y]
      BY <1>4, <1>17, StackMoves, TopOf DEF Return
    <3>2. Len(stack[x]) \in Nat /\ Len(stack[x]) >= 1
      BY <1>4, TopOf
    <3>3. Tail(stack[x]) = <<>>
      BY <1>2, <3>1, <3>2, EmptySeq
    <3>4. result'[x] \in {"ok", result[x]} /\ \A y \in Procs \ {x} : result'[y] = result[y]
      BY <1>17 DEF Return
    <3>5. QED
      BY <3>1, <3>3, <3>4
  <2>2. DOMAIN buffer' = Procs /\ \A y \in Procs \ {x} : Untouched(y)
    <3>1. DOMAIN buffer' = Procs /\ \A y \in Procs \ {x} : buffer'[y] = buffer[y] /\ (y \in unflushed' <=> y \in unflushed)
      BY <1>1, <1>17 DEF ContentType
    <3>2. QED
      BY <2>1, <3>1 DEF Untouched
  <2>3. Wrote(x)' <= Wrote(x)
    <3>1. CASE buffer[x] # <<>> /\ unflushed' = unflushed \cup {x}
      <4>1. Wrote(x) = t.n - 1 /\ t.n >= 1
        BY <1>2, <1>17, <3>1 DEF Wrote
      <4>2. Wrote(x)' = 0
        BY <2>1, <3>1 DEF Wrote
      <4>3. QED
        BY <1>4, <4>1, <4>2
    <3>2. CASE buffer[x] = <<>>
      <4>1. Wrote(x) = t.n
        BY <1>2, <1>17, <3>2 DEF Wrote
      <4>2. Wrote(x)' \in {0, Len(Saved)}
        BY <2>1 DEF Wrote
      <4>3. QED
        BY <1>4, <1>17, <4>1, <4>2
    <3>3. QED
      BY <1>17, <3>1, <3>2
  <2>4. Appender(x, p)'
    BY <2>1 DEF Appender
  <2>5. Now(f)' = now /\ Kept(tree, tree') /\ ContentType'
    BY <1>1, <1>9, <1>17, <2>2 DEF Now, Kept, ContentType
  <2>6. \A y \in Procs : Wrote(y)' <= Wrote(y)
    BY <1>1, <1>5, <1>11, <2>2, <2>3, <2>5, AppenderStays
  <2>7. QED
    BY <1>10, <2>2, <2>4, <2>5, <2>6
<1>18. QED
  <2>1. "append" \in t.flags /\ ~At(x, "save", "check")
    BY <1>2 DEF At
  <2>2. CASE At(x, "save", "open")
    BY <1>2, <1>12, <2>1, <2>2 DEF save, At
  <2>3. CASE At(x, "save", "data")
    <3>1. WriteBlocks(x, Saved, TRUE) /\ t.pc = "data"
      BY <1>3, <2>1, <2>3 DEF save, At
    <3>2. QED
      BY <1>13, <1>15, <1>16, <1>17, <3>1 DEF WriteBlocks, Same, stdio
  <2>4. QED
    BY <2>1, <2>2, <2>3 DEF save

LEMMA AppendersStart ==
    ASSUME Init, NEW p \in Paths, Appending(p)
    PROVE  Appenders(p)
<1> DEFINE f == Follow(before, p)
<1>1. Given /\ WellTyped
  BY InitTypes
<1>2. Kept(before, tree)
  BY DEF Init, Kept
<1>3. ContentType /\ \A x \in Procs : buffer[x] = <<>>
  BY FileOpsAssumption DEF Init, ContentType
<1>4. Now(f) = Old(f)
  BY DEF Init, Now, Old
<1>5. Old(f) \in Seq(STRING)
  <2>1. ASSUME Kind(before, f) = "file" PROVE Contents[before[f].ino] \in Seq(STRING)
    <3>1. GoodTree(before)
      BY <1>1, FoundGood DEF Given
    <3>2. QED
      BY <2>1, <3>1, FileOpsAssumption DEF Kind, GoodTree, IsNode
  <2>2. <<>> \in Seq(STRING)
    OBVIOUS
  <2>3. QED
    BY <2>1, <2>2 DEF Old
<1> HIDE DEF f
<1>6. IsPrefix(Old(f), Now(f))
  <2>1. \A s \in Seq(STRING) : Len(s) <= Len(s)
    OBVIOUS
  <2>2. QED
    BY <1>4, <1>5, <2>1 DEF IsPrefix
<1>7. ASSUME NEW x \in Procs PROVE Appender(x, p) /\ Wrote(x) = 0
  <2>1. result[x] # "ok"
    BY DEF Init
  <2>2. CASE call[x] = NoCall
    <3>1. stack[x] = <<>>
      BY <2>2 DEF Init
    <3>2. QED
      BY <2>1, <3>1 DEF Appender, Wrote
  <2>3. CASE call[x] # NoCall
    <3> DEFINE c == call[x]
    <3>1. c.op = "save" /\ c.flags = {"append"} /\ c.p = p
      BY <2>3 DEF Appending
    <3>2. c = SaveCall(c.p, c.flags)
      BY <1>1, <3>1, CallTypes
    <3>3. SaveCall(p, {"append"}).pc = "open" /\ SaveCall(p, {"append"}).n = 0
      BY DEF SaveCall, Frame
    <3>4. c.pc = "open" /\ c.n = 0
      BY <3>1, <3>2, <3>3
    <3>5. stack[x] = <<c>>
      BY <2>3 DEF Init
    <3>6. Len(stack[x]) = 1 /\ stack[x][1] = c
      BY <3>5
    <3> HIDE DEF c
    <3>7. QED
      BY <1>3, <2>1, <2>3, <3>1, <3>4, <3>6 DEF Appender, Wrote, Top
  <2>4. QED
    BY <2>2, <2>3
<1>8. Counted(Old(f), Now(f))
  <2>1. ASSUME NEW j \in 1 .. Len(Saved)
        PROVE  Cardinality(Writers(j)) <= Cardinality(PlacesOf(Saved[j], Added(Old(f), Now(f))))
    <3>1. Writers(j) = {}
      BY <1>7, FileOpsAssumption DEF Writers
    <3>2. Cardinality(Writers(j)) = 0
      BY <3>1, FS_EmptySet
    <3>3. Cardinality(PlacesOf(Saved[j], Added(Old(f), Now(f)))) \in Nat
      BY <1>4, <1>5, <1>6, PlacesFinite, FS_CardinalityType
    <3>4. QED
      BY <3>2, <3>3
  <2>2. QED
    BY <2>1 DEF Counted
<1>9. QED
  BY <1>2, <1>3, <1>6, <1>7, <1>8 DEF Appenders, f

LEMMA AppendersStep ==
    ASSUME ~IsFiniteSet(Inodes), WellTyped, Given, [Next]_vars,
           \A p \in Paths : Appending(p) => Appenders(p)
    PROVE  (\A p \in Paths : Appending(p) => Appenders(p))'
<1>1. SUFFICES ASSUME NEW p \in Paths, Appending(p), Appenders(p) PROVE Appenders(p)'
  <2>1. UNCHANGED <<call, before>>
    BY StepKeeps DEF Next, vars
  <2>2. \A p \in Paths : Appending(p)' <=> Appending(p)
    BY <2>1 DEF Appending
  <2>3. QED
    BY <2>2
<1>2. WellTyped'
  BY TypedStep
<1>3. CASE UNCHANGED vars
  <2>1. UNCHANGED <<tree, content, stack, result, call, before, buffer, unflushed>>
    BY <1>3 DEF vars, stdio
  <2>2. Kept(before, tree)' /\ ContentType' /\ Kept(tree, tree')
    BY <1>1, <2>1 DEF Appenders, Kept, ContentType
  <2>3. \A y \in Procs : Appender(y, p)' /\ Wrote(y)' = Wrote(y)
    BY <1>1, <2>1, <2>2, AppenderStays DEF Appenders, Untouched
  <2>4. \A j \in 1 .. Len(Saved) : Writers(j)' = Writers(j)
    BY <2>3 DEF Writers
  <2>5. \A f : Old(f)' = Old(f) /\ Now(f)' = Now(f)
    BY <2>1 DEF Old, Now
  <2>6. (Counted(Old(Follow(before, p)), Now(Follow(before, p))))'
    BY <1>1, <2>1, <2>4, <2>5 DEF Appenders, Counted
  <2>7. QED
    BY <1>1, <2>1, <2>2, <2>3, <2>5, <2>6 DEF Appenders
<1>4. ASSUME NEW x \in Procs, Step(x) PROVE Appenders(p)'
  <2>1. stack[x] # <<>>
    BY <1>4, StepOp
  <2>2. Top(x).op = "save"
    BY <1>1, <2>1 DEF Appenders, Appender
  <2>3. save(x)
    BY <1>4, <2>2, StepOp
  <2>4. QED
    BY <1>1, <1>2, <2>1, <2>3, AppendersMove
<1>5. QED
  BY <1>3, <1>4 DEF Next

LEMMA AppendersEnd ==
    ASSUME WellTyped, Given, \A p \in Paths : Appending(p) => Appenders(p)
    PROVE  AppendersKeep
<1>1. \A x \in Procs : call[x].p \in Paths
  BY CallTypes DEF Frames
<1>2. ASSUME NEW p \in Paths, Appending(p)
      PROVE  LET f == Follow(before, p)
             IN  /\ IsPrefix(Old(f), Now(f))
                 /\ \A b \in Range(Saved) : Cardinality(PlacesOf(b, Added(Old(f), Now(f)))) >=
                                                Cardinality({x \in Procs \ unflushed : result[x] = "ok"})
  <2> DEFINE f == Follow(before, p)
             added == Added(Old(f), Now(f))
  <2>1. IsPrefix(Old(f), Now(f)) /\ Counted(Old(f), Now(f)) /\ ContentType
    BY <1>2 DEF Appenders
  <2>2. Old(f) \in Seq(STRING) /\ Now(f) \in Seq(STRING)
    <3>1. GoodTree(before) /\ GoodTree(tree)
      BY FoundGood DEF Given, WellTyped
    <3>2. ASSUME Kind(before, f) = "file" PROVE Contents[before[f].ino] \in Seq(STRING)
      BY <3>1, <3>2, FileOpsAssumption DEF Kind, GoodTree, IsNode
    <3>3. ASSUME Kind(tree, f) = "file" PROVE content[tree[f].ino] \in Seq(STRING)
      BY <2>1, <3>1, <3>3 DEF Kind, GoodTree, IsNode, ContentType
    <3>4. <<>> \in Seq(STRING)
      OBVIOUS
    <3>5. QED
      BY <3>2, <3>3, <3>4 DEF Old, Now
  <2> HIDE DEF f
  <2>3. ASSUME NEW b \in Range(Saved)
        PROVE  Cardinality(PlacesOf(b, added)) >= Cardinality({x \in Procs \ unflushed : result[x] = "ok"})
    <3>1. PICK j \in 1 .. Len(Saved) : Saved[j] = b
      <4>1. DOMAIN Saved = 1 .. Len(Saved)
        BY FileOpsAssumption
      <4>2. QED
        BY <4>1 DEF Range
    <3>2. IsFiniteSet(Procs) /\ Len(Saved) \in Nat
      BY FileOpsAssumption
    <3>3. {x \in Procs \ unflushed : result[x] = "ok"} \subseteq Writers(j)
      BY <3>2 DEF Writers, Wrote
    <3>4. IsFiniteSet(Writers(j))
      BY <3>2, FS_Subset DEF Writers
    <3>5. /\ Cardinality({x \in Procs \ unflushed : result[x] = "ok"}) <= Cardinality(Writers(j))
          /\ Cardinality({x \in Procs \ unflushed : result[x] = "ok"}) \in Nat /\ Cardinality(Writers(j)) \in Nat
      BY <3>3, <3>4, FS_Subset, FS_CardinalityType
    <3>6. Cardinality(Writers(j)) <= Cardinality(PlacesOf(b, added))
      BY <2>1, <3>1 DEF Counted
    <3>7. Cardinality(PlacesOf(b, added)) \in Nat
      BY <2>1, <2>2, PlacesFinite, FS_CardinalityType
    <3>8. QED
      BY <3>5, <3>6, <3>7
  <2>4. QED
    BY <2>1, <2>3 DEF f
<1>3. ASSUME NEW p \in Paths, Appending(p)
      PROVE  LET f == Follow(before, p)
                 old == IF Kind(before, f) = "file" THEN Contents[before[f].ino] ELSE <<>>
                 now == IF Kind(tree, f) = "file" THEN content[tree[f].ino] ELSE <<>>
                 added == SubSeq(now, Len(old) + 1, Len(now))
             IN  /\ IsPrefix(old, now)
                 /\ \A b \in Range(Saved) : Cardinality({i \in 1 .. Len(added) : added[i] = b}) >=
                                                Cardinality({x \in Procs \ unflushed : result[x] = "ok"})
  BY <1>2, <1>3, Zenon DEF PlacesOf, Added, Old, Now
<1> DEFINE Keeps(p) ==
             LET f == Follow(before, p)
                 old == IF Kind(before, f) = "file" THEN Contents[before[f].ino] ELSE <<>>
                 now == IF Kind(tree, f) = "file" THEN content[tree[f].ino] ELSE <<>>
                 added == SubSeq(now, Len(old) + 1, Len(now))
             IN  /\ IsPrefix(old, now)
                 /\ \A b \in Range(Saved) : Cardinality({i \in 1 .. Len(added) : added[i] = b}) >=
                                                Cardinality({x \in Procs \ unflushed : result[x] = "ok"})
<1>4. \A p \in Paths : Appending(p) => Keeps(p)
  BY <1>3, Zenon
<1>5. \A p \in {call[x].p : x \in Procs} : Appending(p) => Keeps(p)
  <2> HIDE DEF Keeps
  <2>1. QED
    BY <1>1, <1>4
<1>6. QED
  BY <1>5, Zenon DEF AppendersKeep, Appending

-----------------------------------------------------------------------------
(* All of it                                                               *)

PeersInv ==
    /\ WellTyped /\ Given
    /\ Removing => Removers
    /\ Making => Makers
    /\ \A p \in Paths : Appending(p) => Appenders(p)

LEMMA PeersInvStart ==
    ASSUME Init
    PROVE  PeersInv
  BY InitTypes, RemoversStart, MakersStart, AppendersStart DEF PeersInv

LEMMA PeersInvStep ==
    ASSUME ~IsFiniteSet(Inodes), PeersInv, [Next]_vars
    PROVE  PeersInv'
<1>1. WellTyped' /\ Given'
  BY TypedStep DEF PeersInv
<1>2. (Removing => Removers)'
  BY RemoversStep DEF PeersInv
<1>3. (Making => Makers)'
  BY MakersStep DEF PeersInv
<1>4. (\A p \in Paths : Appending(p) => Appenders(p))'
  BY AppendersStep DEF PeersInv
<1>5. QED
  BY <1>1, <1>2, <1>3, <1>4 DEF PeersInv

LEMMA PeersInvEnds ==
    ASSUME PeersInv
    PROVE  TypeOK /\ PeersAgree
<1>1. TypeOK
  BY DEF PeersInv, WellTyped, GoodTree, IsNode, TypeOK
<1>2. RemoversAgree
  BY RemoversEnd DEF PeersInv
<1>3. MakersAgree
  BY MakersEnd DEF PeersInv
<1>4. AppendersKeep
  BY AppendersEnd DEF PeersInv
<1>5. QED
  BY <1>1, <1>2, <1>3, <1>4 DEF PeersAgree

\* As long as there are inode numbers left: any number of processes that all
\* remove(), all make_directory() or all save() in append mode at the same
\* time, one system call at a time and stopping anywhere, do not harm each
\* other.  Trees are removed without an error and nothing but what was asked
\* for; a directory that was made is there, and one that was not has a reason
\* in its path; what was in the file that is appended to is still there, also
\* if writing fails, and every block of a call that returned is behind it,
\* unless fclose() failed to store the last of them and nobody asked.  And whatever the calls of the processes are, the tree stays
\* one in which every file is in a directory and has an inode of its own.
THEOREM PeersDoNoHarm ==
    ASSUME ~IsFiniteSet(Inodes)
    PROVE  Spec => []PeersAgree
<1>1. Init => PeersInv
  BY PeersInvStart
<1>2. PeersInv /\ [Next]_vars => PeersInv'
  BY PeersInvStep
<1>3. PeersInv => PeersAgree
  BY PeersInvEnds
<1>4. QED
  BY <1>1, <1>2, <1>3, PTL DEF Spec
=============================================================================
