------------------------------ MODULE UriProofs -----------------------------
(***************************************************************************)
(* The text of a Uri and its seven offsets agree after any sequence of     *)
(* calls, for any units, arguments and texts to parse.  The invariant says *)
(* that the offsets are in order and each part has the form that the       *)
(* pattern gives it; each operation replaces one part or cuts the text, so *)
(* that the others keep their form, and such a text has no other match     *)
(* that the pattern prefers.                                               *)
(*                                                                         *)
(* What the getters return is then read from the parts, one by one, so     *)
(* that a call which replaces one part sets one element: the text with its *)
(* offsets implements the eight values of UriElements.                     *)
(***************************************************************************)
EXTENDS Uri, SequenceTheorems, WellFoundedInduction, TLAPS

(* Sequences, behind names of their own: what is known of them is what the *)
(* lemmas say, and a step is not searched for in their definitions.        *)

Joined(s, t) == s \o t
Piece(s, a, z) == SubSeq(s, a + 1, z)
Texts(S) == Seq(S)

Size(s) == Len(s)

\* What is at a + 1 .. z in s is in t behind c.
Copied(s, a, z, t, c) == \A k \in (a + 1) .. z, m \in Int : m = c + (k - a) => t[m] = s[k]

\* The units of the first text come first in the joined one.
LEMMA JoinedAt ==
    ASSUME NEW S, NEW s \in Texts(S), NEW t \in Texts(S)
    PROVE  /\ Joined(s, t) \in Texts(S)
           /\ Size(s) \in Nat /\ Size(t) \in Nat
           /\ Size(Joined(s, t)) = Size(s) + Size(t)
           /\ \A k \in 1 .. Size(s) : Joined(s, t)[k] = s[k]
  BY DEF Texts, Joined, Size

\* and those of the second after them.
LEMMA JoinedTail ==
    ASSUME NEW S, NEW s \in Texts(S), NEW t \in Texts(S)
    PROVE  \A k \in 1 .. Size(t), m \in Int : m = Size(s) + k => Joined(s, t)[m] = t[k]
  BY DEF Texts, Joined, Size

\* The order in which texts are joined does not matter.
LEMMA JoinedJoined ==
    ASSUME NEW S, NEW x \in Texts(S), NEW y \in Texts(S), NEW z \in Texts(S)
    PROVE  Joined(Joined(x, y), z) = Joined(x, Joined(y, z))
  BY ConcatAssociative DEF Joined, Texts

\* A piece of a text, by its ends, and the units in it.
LEMMA PieceAt ==
    ASSUME NEW S, NEW s \in Texts(S), NEW a \in Nat, NEW z \in Nat, a <= z, z <= Size(s)
    PROVE  /\ Piece(s, a, z) \in Texts(S)
           /\ Size(Piece(s, a, z)) = z - a
           /\ \A k \in 1 .. (z - a), m \in Int : m = a + k => Piece(s, a, z)[k] = s[m]
  BY DEF Texts, Piece, Size

\* Two texts with the same units are one.
LEMMA SameText ==
    ASSUME NEW S, NEW s \in Texts(S), NEW t \in Texts(S), NEW n \in Nat, Size(s) = n, Size(t) = n,
           \A k \in 1 .. n : s[k] = t[k]
    PROVE  s = t
  BY SeqEqual DEF Texts, Size

\* Each of two texts is copied whole into the text they make.
LEMMA JoinedCopies ==
    ASSUME NEW S, NEW u \in Texts(S), NEW w \in Texts(S), NEW a \in Nat, NEW n \in Nat,
           Size(u) = a, Size(w) = n, NEW t, t = Joined(u, w)
    PROVE  t \in Texts(S) /\ Size(t) = a + n /\ Copied(u, 0, a, t, 0) /\ Copied(w, 0, n, t, a)
<1>1. t \in Texts(S) /\ Size(t) = a + n /\ \A k \in 1 .. a : t[k] = u[k]
  BY JoinedAt
<1>2. \A k \in 1 .. n, m \in Int : m = a + k => t[m] = w[k]
  BY JoinedTail
<1>3. Copied(u, 0, a, t, 0)
  BY <1>1 DEF Copied
<1>4. Copied(w, 0, n, t, a)
  BY <1>2 DEF Copied
<1>5. QED
  BY <1>1, <1>3, <1>4

\* So is each of three, the third behind the other two.
LEMMA ThreeCopies ==
    ASSUME NEW S, NEW u \in Texts(S), NEW w \in Texts(S), NEW v \in Texts(S),
           NEW a \in Nat, NEW n \in Nat, NEW c \in Nat, Size(u) = a, Size(w) = n, Size(v) = c,
           NEW t, t = Joined(Joined(u, w), v)
    PROVE  /\ t \in Texts(S) /\ Size(t) = a + n + c
           /\ Copied(u, 0, a, t, 0) /\ Copied(w, 0, n, t, a) /\ Copied(v, 0, c, t, a + n)
<1>1. PICK x : x = Joined(u, w)
  OBVIOUS
<1>2. x \in Texts(S) /\ Size(x) = a + n /\ Copied(u, 0, a, x, 0) /\ Copied(w, 0, n, x, a)
  BY <1>1, JoinedCopies
<1>3. t = Joined(x, v) /\ a + n \in Nat
  BY <1>1
<1>4. t \in Texts(S) /\ Size(t) = (a + n) + c /\ Copied(x, 0, a + n, t, 0) /\ Copied(v, 0, c, t, a + n)
  BY <1>2, <1>3, JoinedCopies
<1>5. ASSUME NEW k \in (0 + 1) .. a, NEW m \in Int, m = 0 + (k - 0) PROVE t[m] = u[k]
  <2>1. m \in (0 + 1) .. (a + n) /\ m = k
    BY <1>5
  <2>2. x[k] = u[k] /\ t[m] = x[m]
    BY <1>2, <1>4, <1>5, <2>1 DEF Copied
  <2>3. QED
    BY <2>1, <2>2
<1>6. ASSUME NEW k \in (0 + 1) .. n, NEW m \in Int, m = a + (k - 0) PROVE t[m] = w[k]
  <2>1. m \in (0 + 1) .. (a + n) /\ m = 0 + (m - 0)
    BY <1>6
  <2>2. x[m] = w[k] /\ t[m] = x[m]
    BY <1>2, <1>4, <1>6, <2>1 DEF Copied
  <2>3. QED
    BY <2>2
<1>7. Copied(u, 0, a, t, 0) /\ Copied(w, 0, n, t, a)
  BY <1>5, <1>6 DEF Copied
<1>8. QED
  BY <1>4, <1>7

\* text_.replace(b, e - b, w): what was before b and behind e is copied, with w in between.
LEMMA ThreeParts ==
    ASSUME NEW S, NEW s \in Texts(S), NEW w \in Texts(S), NEW b \in Nat, NEW e \in Nat,
           NEW L \in Nat, NEW n \in Nat, Size(s) = L, Size(w) = n, b <= e, e <= L,
           NEW t, t = Joined(Joined(Piece(s, 0, b), w), Piece(s, e, L))
    PROVE  /\ t \in Texts(S) /\ Size(t) = L + n - (e - b)
           /\ Copied(s, 0, b, t, 0) /\ Copied(w, 0, n, t, b) /\ Copied(s, e, L, t, b + n)
<1>1. PICK u : u = Piece(s, 0, b)
  OBVIOUS
<1>2. u \in Texts(S) /\ Size(u) = b /\ \A k \in 1 .. (b - 0), m \in Int : m = 0 + k => u[k] = s[m]
  BY <1>1, PieceAt
<1>3. PICK v : v = Piece(s, e, L)
  OBVIOUS
<1>4. v \in Texts(S) /\ Size(v) = L - e /\ \A k \in 1 .. (L - e), m \in Int : m = e + k => v[k] = s[m]
  BY <1>3, PieceAt
<1>5. PICK c \in Nat : c = L - e
  OBVIOUS
<1>6. /\ t \in Texts(S) /\ Size(t) = b + n + c
      /\ Copied(u, 0, b, t, 0) /\ Copied(w, 0, n, t, b) /\ Copied(v, 0, c, t, b + n)
  BY <1>1, <1>2, <1>3, <1>4, <1>5, ThreeCopies
<1>7. ASSUME NEW k \in (e + 1) .. L, NEW m \in Int, m = (b + n) + (k - e) PROVE t[m] = s[k]
  <2>1. k - e \in (0 + 1) .. c /\ m = (b + n) + ((k - e) - 0) /\ k = e + (k - e)
    BY <1>5, <1>7
  <2>2. t[m] = v[k - e]
    BY <1>6, <2>1 DEF Copied
  <2>3. v[k - e] = s[k]
    BY <1>4, <1>5, <2>1
  <2>4. QED
    BY <2>2, <2>3
<1>8. ASSUME NEW k \in (0 + 1) .. b, NEW m \in Int, m = 0 + (k - 0) PROVE t[m] = s[k]
  <2>1. t[m] = u[k]
    BY <1>6, <1>8 DEF Copied
  <2>2. u[k] = s[k]
    BY <1>2
  <2>3. QED
    BY <2>1, <2>2
<1>9. Copied(s, 0, b, t, 0) /\ Copied(s, e, L, t, b + n)
  BY <1>7, <1>8 DEF Copied
<1>10. QED
  BY <1>5, <1>6, <1>9

-----------------------------------------------------------------------------
(* Parts                                                                   *)

Ofs == [1..7 -> Nat]

InOrder(s, o) ==
    /\ s \in Texts(Units) /\ o \in Ofs
    /\ \A k \in 1..7 : o[k] <= Size(s)
    /\ \A k, l \in 1..7 : k <= l => o[k] <= o[l]

\* The offsets r come of o when the parts from i to j, which are at b + 1 .. e,
\* give way to n units.
Moved(o, r, i, j, b, e, n) ==
    /\ r \in [1..7 -> Int]
    /\ \A k \in 1..7 : k <= i => r[k] = o[k]
    /\ \A k \in 1..7 : k > i /\ k <= j => b <= r[k] /\ r[k] <= b + n
    /\ \A k, l \in 1..7 : k > i /\ k <= l /\ l <= j => r[k] <= r[l]
    /\ \A k \in 1..7 : k > j => r[k] = o[k] + n - (e - b)

\* The parts from i to j of the text s give way to new, and the offsets in new
\* are those of r.
Replaced(s, o, t, r, i, j, new) ==
    LET b == Start(o, i)
        e == End(s, o, j)
    IN  /\ t = Joined(Joined(Piece(s, 0, b), new), Piece(s, e, Size(s)))
        /\ Moved(o, r, i, j, b, e, Size(new))

\* The parts i .. j of an ordered text lie between two ends in it.
LEMMA Between ==
    ASSUME NEW s, NEW o, InOrder(s, o), NEW i \in 0..7, NEW j \in 0..7, i <= j
    PROVE  /\ Start(o, i) \in Nat /\ End(s, o, j) \in Nat
           /\ Start(o, i) <= End(s, o, j) /\ End(s, o, j) <= Size(s)
<1>1. s \in Texts(Units) /\ Size(s) \in Nat
  BY JoinedAt DEF InOrder
<1>2. \A k \in 1..7 : o[k] \in Nat /\ o[k] <= Size(s)
  BY DEF InOrder, Ofs
<1>3. \A k, l \in 1..7 : k <= l => o[k] <= o[l]
  BY DEF InOrder
<1>4. CASE i = 0 /\ j = 7
  BY <1>1, <1>4 DEF Start, End, Size
<1>5. CASE i = 0 /\ j # 7
  <2>1. j + 1 \in 1..7 /\ Start(o, i) = 0 /\ End(s, o, j) = o[j + 1]
    BY <1>5 DEF Start, End, Size
  <2>2. QED
    BY <1>1, <1>2, <2>1
<1>6. CASE i # 0 /\ j = 7
  <2>1. i \in 1..7 /\ Start(o, i) = o[i] /\ End(s, o, j) = Size(s)
    BY <1>6 DEF Start, End, Size
  <2>2. QED
    BY <1>1, <1>2, <2>1
<1>7. CASE i # 0 /\ j # 7
  <2>1. i \in 1..7 /\ j + 1 \in 1..7 /\ i <= j + 1 /\ Start(o, i) = o[i] /\ End(s, o, j) = o[j + 1]
    BY <1>7 DEF Start, End, Size
  <2>2. o[i] <= o[j + 1]
    BY <1>3, <2>1
  <2>3. QED
    BY <1>1, <1>2, <2>1, <2>2
<1>8. QED
  BY <1>4, <1>5, <1>6, <1>7

\* Offsets moved with a replaced stretch stay in order and inside the longer or shorter text.
LEMMA MovedOrder ==
    ASSUME NEW o \in Ofs, NEW r, NEW i \in 0..7, NEW j \in 0..7, i <= j,
           NEW b \in Nat, NEW e \in Nat, NEW n \in Nat, NEW L \in Nat, b <= e, e <= L,
           \A k \in 1..7 : o[k] <= L,
           \A k \in 1..7 : k <= i => o[k] <= b,
           \A k \in 1..7 : k > j => e <= o[k],
           \A k, l \in 1..7 : k <= l => o[k] <= o[l],
           Moved(o, r, i, j, b, e, n)
    PROVE  /\ r \in Ofs
           /\ \A k \in 1..7 : r[k] <= L + n - (e - b)
           /\ \A k, l \in 1..7 : k <= l => r[k] <= r[l]
<1>1. ASSUME NEW k \in 1..7 PROVE r[k] \in Nat /\ r[k] <= L + n - (e - b)
  <2>1. o[k] \in Nat /\ r[k] \in Int /\ o[k] <= L
    BY DEF Ofs, Moved
  <2>2. k <= i => r[k] = o[k] /\ o[k] <= b
    BY DEF Moved
  <2>3. k > i /\ k <= j => b <= r[k] /\ r[k] <= b + n
    BY DEF Moved
  <2>4. k > j => r[k] = o[k] + n - (e - b) /\ e <= o[k]
    BY DEF Moved
  <2>5. QED
    BY <2>1, <2>2, <2>3, <2>4
<1>2. ASSUME NEW k \in 1..7, NEW l \in 1..7, k <= l PROVE r[k] <= r[l]
  <2>1. o[k] \in Nat /\ o[l] \in Nat /\ r[k] \in Int /\ r[l] \in Int /\ o[k] <= o[l]
    BY <1>2 DEF Ofs, Moved
  <2>2. /\ k <= i => r[k] = o[k] /\ o[k] <= b
        /\ l <= i => r[l] = o[l] /\ o[l] <= b
    BY DEF Moved
  <2>3. /\ k > i /\ k <= j => b <= r[k] /\ r[k] <= b + n
        /\ l > i /\ l <= j => b <= r[l] /\ r[l] <= b + n
    BY DEF Moved
  <2>4. /\ k > j => r[k] = o[k] + n - (e - b) /\ e <= o[k]
        /\ l > j => r[l] = o[l] + n - (e - b) /\ e <= o[l]
    BY DEF Moved
  <2>5. k > i /\ l <= j => r[k] <= r[l]
    BY <1>2 DEF Moved
  <2>6. QED
    BY <1>2, <2>1, <2>2, <2>3, <2>4, <2>5
<1>3. QED
  BY <1>1, <1>2 DEF Moved, Ofs

\* A stretch copied elsewhere is the same text there.
LEMMA SamePart ==
    ASSUME NEW s \in Texts(Units), NEW t \in Texts(Units),
           NEW a \in Nat, NEW z \in Nat, a <= z, z <= Size(s),
           NEW c \in Nat, NEW y \in Nat, y - c = z - a, y <= Size(t),
           Copied(s, a, z, t, c)
    PROVE  Piece(t, c, y) = Piece(s, a, z)
<1>1. PICK u : u = Piece(s, a, z)
  OBVIOUS
<1>2. u \in Texts(Units) /\ Size(u) = z - a /\ \A k \in 1 .. (z - a), m \in Int : m = a + k => u[k] = s[m]
  BY <1>1, PieceAt
<1>3. PICK v : v = Piece(t, c, y)
  OBVIOUS
<1>4. v \in Texts(Units) /\ Size(v) = y - c /\ \A k \in 1 .. (y - c), m \in Int : m = c + k => v[k] = t[m]
  BY <1>3, PieceAt
<1>5. PICK n \in Nat : n = z - a
  OBVIOUS
<1>6. ASSUME NEW k \in 1 .. n PROVE u[k] = v[k]
  <2>1. PICK l \in Int, m \in Int : l = a + k /\ m = c + k /\ m = c + (l - a) /\ l \in (a + 1) .. z
    BY <1>5
  <2>2. u[k] = s[l] /\ v[k] = t[m]
    BY <1>2, <1>4, <1>5, <2>1
  <2>3. t[m] = s[l]
    BY <2>1 DEF Copied
  <2>4. QED
    BY <2>2, <2>3
<1>7. u = v
  BY <1>2, <1>4, <1>5, <1>6, SameText
<1>8. QED
  BY <1>1, <1>3, <1>7

\* A part of what was copied was copied too.
LEMMA CopiedPart ==
    ASSUME NEW s, NEW t, NEW a \in Nat, NEW z \in Nat, NEW c \in Nat, Copied(s, a, z, t, c),
           NEW d \in Nat, NEW y \in Nat, NEW x \in Nat, a <= d, y <= z, x = c + (d - a)
    PROVE  Copied(s, d, y, t, x)
  BY DEF Copied

\* The offsets up to part i are at or before its start, those behind part j at or after its end.
LEMMA Bounds ==
    ASSUME NEW s, NEW o, InOrder(s, o), NEW i \in 0..7, NEW j \in 0..7, i <= j,
           NEW b, NEW e, b = Start(o, i), e = End(s, o, j)
    PROVE  /\ b \in Nat /\ e \in Nat /\ Size(s) \in Nat /\ b <= e /\ e <= Size(s)
           /\ \A k \in 1..7 : k <= i => o[k] <= b
           /\ \A k \in 1..7 : k > j => e <= o[k]
<1>1. /\ \A k \in 1..7 : o[k] <= Size(s) /\ o[k] \in Nat
      /\ \A k, l \in 1..7 : k <= l => o[k] <= o[l]
  BY DEF InOrder, Ofs
<1>2. ASSUME NEW k \in 1..7, k <= i PROVE o[k] <= b
  BY <1>1, <1>2 DEF Start
<1>3. ASSUME NEW k \in 1..7, k > j PROVE e <= o[k]
  <2>1. j + 1 \in 1..7 /\ e = o[j + 1] /\ j + 1 <= k
    BY <1>3 DEF End
  <2>2. QED
    BY <1>1, <2>1
<1>4. Size(s) \in Nat
  BY JoinedAt DEF InOrder
<1>5. QED
  BY <1>2, <1>3, <1>4, Between

\* All of it: what is copied from where, and that the offsets are in order.
Carried(s, o, t, r, i, j, new, b, e, n, L) ==
    /\ b \in Nat /\ e \in Nat /\ n \in Nat /\ L \in Nat
    /\ b = Start(o, i) /\ e = End(s, o, j) /\ n = Size(new) /\ L = Size(s) /\ b <= e /\ e <= L
    /\ InOrder(t, r) /\ t \in Texts(Units) /\ s \in Texts(Units) /\ Size(t) = L + n - (e - b)
    /\ Moved(o, r, i, j, b, e, n)
    /\ Copied(s, 0, b, t, 0) /\ Copied(new, 0, n, t, b) /\ Copied(s, e, L, t, b + n)

\* Replacing a part leaves the numbers a replacement is described by: its ends, the new length.
LEMMA ReplacedOrder ==
    ASSUME NEW s, NEW o, InOrder(s, o), NEW t, NEW r, NEW i \in 0..7, NEW j \in 0..7, i <= j,
           NEW new \in Texts(Units), Replaced(s, o, t, r, i, j, new)
    PROVE  \E b, e, n, L : Carried(s, o, t, r, i, j, new, b, e, n, L)
<1>0. PICK b, e, n, L : b = Start(o, i) /\ e = End(s, o, j) /\ n = Size(new) /\ L = Size(s)
  OBVIOUS
<1>1. /\ b \in Nat /\ e \in Nat /\ L \in Nat /\ b <= e /\ e <= L
      /\ \A k \in 1..7 : k <= i => o[k] <= b
      /\ \A k \in 1..7 : k > j => e <= o[k]
  BY <1>0, Bounds
<1>n. n \in Nat
  BY <1>0, JoinedAt
<1>2. /\ o \in Ofs /\ s \in Texts(Units)
      /\ \A k \in 1..7 : o[k] <= L
      /\ \A k, l \in 1..7 : k <= l => o[k] <= o[l]
  BY <1>0 DEF InOrder
<1>3. Moved(o, r, i, j, b, e, n) /\ t = Joined(Joined(Piece(s, 0, b), new), Piece(s, e, L))
  BY <1>0 DEF Replaced
<1>4. /\ t \in Texts(Units) /\ Size(t) = L + n - (e - b)
      /\ Copied(s, 0, b, t, 0) /\ Copied(new, 0, n, t, b) /\ Copied(s, e, L, t, b + n)
  <2>1. s \in Texts(Units) /\ b \in Nat /\ e \in Nat /\ L \in Nat /\ b <= e /\ e <= L
    BY <1>1, <1>2
  <2>2. Size(s) = L /\ Size(new) = n /\ t = Joined(Joined(Piece(s, 0, b), new), Piece(s, e, L))
    BY <1>0, <1>3
  <2>3. QED
    BY ONLY <1>n, <2>1, <2>2, new \in Texts(Units), ThreeParts
<1>5. /\ r \in Ofs
      /\ \A k \in 1..7 : r[k] <= L + n - (e - b)
      /\ \A k, l \in 1..7 : k <= l => r[k] <= r[l]
  BY <1>n, <1>1, <1>2, <1>3, MovedOrder
<1>6. InOrder(t, r)
  BY <1>4, <1>5 DEF InOrder
<1>7. QED
  BY <1>0, <1>n, <1>1, <1>2, <1>3, <1>4, <1>6 DEF Carried

\* A part is the piece between its two offsets.
LEMMA PartIs ==
    ASSUME NEW s, NEW o, NEW m
    PROVE  Part(s, o, m) = Piece(s, Start(o, m), End(s, o, m))
  BY DEF Part, Piece

\* The parts that are not replaced are as they were.
LEMMA OtherParts ==
    ASSUME NEW s, NEW o, InOrder(s, o), NEW t, NEW r, NEW i \in 0..7, NEW j \in 0..7, i <= j,
           NEW new \in Texts(Units), Replaced(s, o, t, r, i, j, new),
           NEW m \in 0..7, m < i \/ m > j
    PROVE  Part(t, r, m) = Part(s, o, m)
<1>0. PICK b, e, n, L : Carried(s, o, t, r, i, j, new, b, e, n, L)
  BY ReplacedOrder
<1>1. /\ b \in Nat /\ e \in Nat /\ n \in Nat /\ L \in Nat
      /\ b = Start(o, i) /\ e = End(s, o, j) /\ n = Size(new) /\ L = Size(s) /\ b <= e /\ e <= L
      /\ InOrder(t, r) /\ t \in Texts(Units) /\ s \in Texts(Units) /\ Size(t) = L + n - (e - b)
      /\ Moved(o, r, i, j, b, e, n)
      /\ Copied(s, 0, b, t, 0) /\ Copied(new, 0, n, t, b) /\ Copied(s, e, L, t, b + n)
  BY <1>0 DEF Carried
<1>2. /\ \A k \in 1..7 : k <= i => o[k] <= b
      /\ \A k \in 1..7 : k > j => e <= o[k]
  BY <1>1, Bounds
<1>4. PICK a, z : a = Start(o, m) /\ z = End(s, o, m)
  OBVIOUS
<1>5. a \in Nat /\ z \in Nat /\ a <= z /\ z <= L
  BY <1>1, <1>4, Between
<1>6. PICK c, y : c = Start(r, m) /\ y = End(t, r, m)
  OBVIOUS
<1>7. c \in Nat /\ y \in Nat /\ c <= y /\ y <= Size(t)
  BY <1>1, <1>6, Between
<1>8. CASE m < i
  <2>1. c = a
    BY <1>1, <1>4, <1>6, <1>8 DEF Start, Moved
  <2>2. m + 1 \in 1..7 /\ z = o[m + 1] /\ y = r[m + 1] /\ m + 1 <= i
    BY <1>4, <1>6, <1>8 DEF End
  <2>3. z <= b /\ y = z
    BY <1>1, <1>2, <2>2 DEF Moved
  <2>4. Copied(s, a, z, t, c)
    <3>1. a \in Nat /\ z \in Nat /\ 0 <= a /\ z <= b /\ c = 0 + (a - 0) /\ c \in Nat
      BY <1>5, <2>1, <2>3
    <3>2. QED
      BY <1>1, <3>1, CopiedPart
  <2>5. y - c = z - a
    BY <2>1, <2>3
  <2>6. QED
    BY <1>1, <1>4, <1>5, <1>6, <1>7, <2>4, <2>5, SamePart, PartIs
<1>9. CASE m > j
  <2>1. c = a + n - (e - b) /\ e <= a
    BY <1>1, <1>2, <1>4, <1>6, <1>9 DEF Start, Moved
  <2>2. y = z + n - (e - b)
    <3>1. CASE m = 7
      BY <1>1, <1>2, <1>4, <1>6, <3>1 DEF End, Size
    <3>2. CASE m # 7
      <4>1. m + 1 \in 1..7 /\ z = o[m + 1] /\ y = r[m + 1] /\ m + 1 > j
        BY <1>4, <1>6, <1>9, <3>2 DEF End
      <4>2. QED
        BY <1>1, <4>1 DEF Moved
    <3>3. QED
      BY <3>1, <3>2
  <2>3. c = (b + n) + (a - e) /\ b + n \in Nat
    BY <1>1, <1>5, <2>1
  <2>4. Copied(s, a, z, t, c)
    BY <1>1, <1>5, <1>7, <2>1, <2>3, CopiedPart
  <2>5. y - c = z - a
    BY <1>1, <1>5, <2>1, <2>2
  <2>6. QED
    BY <1>1, <1>4, <1>5, <1>6, <1>7, <2>4, <2>5, SamePart, PartIs
<1>10. QED
  BY <1>8, <1>9

\* Part m is a piece of what comes for the parts from i to j, behind b.
Within(o, t, r, i, j, new, m, b) ==
    /\ b \in Nat /\ b = Start(o, i)
    /\ Part(t, r, m) = Piece(new, Start(r, m) - b, End(t, r, m) - b)
    /\ Start(r, m) \in Nat /\ End(t, r, m) \in Nat
    /\ b <= Start(r, m) /\ Start(r, m) <= End(t, r, m) /\ End(t, r, m) <= b + Size(new)
    /\ m = i => Start(r, m) = b
    /\ m = j => End(t, r, m) = b + Size(new)

\* The parts that are replaced are the pieces of what comes instead.
LEMMA NewParts ==
    ASSUME NEW s, NEW o, InOrder(s, o), NEW t, NEW r, NEW i \in 0..7, NEW j \in 0..7, i <= j,
           NEW new \in Texts(Units), Replaced(s, o, t, r, i, j, new),
           NEW m \in 0..7, i <= m, m <= j
    PROVE  \E b : Within(o, t, r, i, j, new, m, b)
<1>0. PICK b, e, n, L : Carried(s, o, t, r, i, j, new, b, e, n, L)
  BY ReplacedOrder
<1>1. /\ b \in Nat /\ e \in Nat /\ n \in Nat /\ L \in Nat
      /\ b = Start(o, i) /\ e = End(s, o, j) /\ n = Size(new) /\ L = Size(s) /\ b <= e /\ e <= L
      /\ InOrder(t, r) /\ t \in Texts(Units) /\ s \in Texts(Units) /\ Size(t) = L + n - (e - b)
      /\ Moved(o, r, i, j, b, e, n)
      /\ Copied(s, 0, b, t, 0) /\ Copied(new, 0, n, t, b) /\ Copied(s, e, L, t, b + n)
  BY <1>0 DEF Carried
<1>6. PICK c, y : c = Start(r, m) /\ y = End(t, r, m)
  OBVIOUS
<1>7. c \in Nat /\ y \in Nat /\ c <= y /\ y <= Size(t)
  BY <1>1, <1>6, Between
<1>8. b <= c /\ (m = i => c = b)
  BY <1>1, <1>6 DEF Start, Moved
<1>9. y <= b + n /\ (m = j => y = b + n)
  <2>1. CASE m = 7
    BY <1>1, <1>6, <2>1 DEF End, Size
  <2>2. CASE m # 7 /\ m = j
    <3>1. m + 1 \in 1..7 /\ y = r[m + 1] /\ e = o[m + 1] /\ r[m + 1] = o[m + 1] + n - (e - b)
      BY <1>1, <1>6, <2>2 DEF End, Moved
    <3>2. QED
      BY <1>1, <3>1
  <2>3. CASE m # 7 /\ m # j
    <3>1. m + 1 \in 1..7 /\ y = r[m + 1] /\ m + 1 > i /\ m + 1 <= j
      BY <1>6, <2>3 DEF End
    <3>2. QED
      BY <1>1, <2>3, <3>1 DEF Moved
  <2>4. QED
    BY <2>1, <2>2, <2>3
<1>10. PICK a \in Nat, z \in Nat : a = c - b /\ z = y - b /\ a <= z /\ z <= Size(new) /\ y - c = z - a
  BY <1>1, <1>7, <1>8, <1>9
<1>11. Copied(new, a, z, t, c)
  <2>1. 0 <= a /\ z <= n /\ c = b + (a - 0)
    BY <1>1, <1>7, <1>10
  <2>2. QED
    BY <1>1, <1>7, <1>10, <2>1, CopiedPart
<1>12. Piece(t, c, y) = Piece(new, a, z)
  BY <1>1, <1>7, <1>10, <1>11, SamePart
<1>13. QED
  BY <1>1, <1>6, <1>7, <1>8, <1>9, <1>10, <1>12, PartIs DEF Within

-----------------------------------------------------------------------------
(* What a part looks like, unit by unit                                    *)

NameUnits == Units \ {"/", ":", "@"}

PathUnits == Units \ {"#", "?"}

NameOk(p) == \A k \in 1 .. Size(p) : p[k] \in NameUnits

PassOk(p) ==
    Size(p) > 0 =>
        /\ p[Size(p)] = "@"
        /\ \A k \in 1 .. (Size(p) - 1) : p[k] \in Units \ {"/", "@"}
        /\ Size(p) > 1 => p[1] = ":"

Opens(p, c, set) == Size(p) > 0 => p[1] = c /\ \A k \in 2 .. Size(p) : p[k] \in set

PortOk(p) == Opens(p, ":", Numbers) /\ Size(p) # 1

SchemeOk(p) ==
    /\ Size(p) \in {2, 4} /\ p[1] \in Words /\ p[2] = ":"
    /\ Size(p) = 4 => p[3] = "/" /\ p[4] = "/"

LoginOk(u, p) == NameOk(u) /\ PassOk(p) /\ (Size(u) = 0 <=> Size(p) = 0)

\* All but the scheme.
Elems(s, o) ==
    /\ LoginOk(Part(s, o, 1), Part(s, o, 2))
    /\ NameOk(Part(s, o, 3))
    /\ PortOk(Part(s, o, 4))
    /\ Opens(Part(s, o, 5), "/", PathUnits)
    /\ Opens(Part(s, o, 6), "?", Units)
    /\ Opens(Part(s, o, 7), "#", Units)

\* The empty text is the one of no units.
LEMMA EmptyText ==
    ASSUME NEW S, NEW s \in Texts(S)
    PROVE  Size(s) \in Nat /\ (Size(s) = 0 <=> s = <<>>)
  BY EmptySeq DEF Texts, Size

\* It is a text of any units, these too.
LEMMA NoUnits == <<>> \in Texts(Units) /\ Size(<<>>) = 0
  BY DEF Texts, Size

\* A text of one unit.
LEMMA OneUnit ==
    ASSUME NEW S, NEW c \in S
    PROVE  <<c>> \in Texts(S) /\ Size(<<c>>) = 1 /\ <<c>>[1] = c
  BY DEF Texts, Size

\* An optional part: empty, or its mark and then units of its set only.
LEMMA BeginsIs ==
    ASSUME NEW s \in Texts(Units), NEW c, NEW set
    PROVE  Begins(s, c, set) <=> Opens(s, c, set)
<1>1. CASE s = <<>>
  BY <1>1, EmptyText DEF Begins, Opens
<1>2. CASE s # <<>>
  <2>1. Size(s) \in Nat /\ Size(s) > 0
    BY <1>2, EmptyText
  <2>2. PICK t : t = Tail(s)
    OBVIOUS
  <2>3. Len(t) = Size(s) - 1 /\ \A k \in 1 .. (Size(s) - 1) : t[k] = s[k + 1]
    BY <1>2, <2>2, HeadTailProperties DEF Texts, Size
  <2>4. ASSUME \A k \in 2 .. Size(s) : s[k] \in set PROVE \A k \in 1 .. Len(t) : t[k] \in set
    <3>1. ASSUME NEW k \in 1 .. Len(t) PROVE t[k] \in set
      <4>1. k + 1 \in 2 .. Size(s) /\ k \in 1 .. (Size(s) - 1)
        BY <2>1, <2>3
      <4>2. QED
        BY <2>3, <2>4, <4>1
    <3>2. QED
      BY <3>1
  <2>5. ASSUME \A k \in 1 .. Len(t) : t[k] \in set PROVE \A k \in 2 .. Size(s) : s[k] \in set
    <3>1. ASSUME NEW k \in 2 .. Size(s) PROVE s[k] \in set
      <4>1. k - 1 \in 1 .. Len(t) /\ k - 1 \in 1 .. (Size(s) - 1) /\ (k - 1) + 1 = k
        BY <2>1, <2>3
      <4>2. t[k - 1] = s[(k - 1) + 1] /\ t[k - 1] \in set
        BY <2>3, <2>5, <4>1
      <4>3. QED
        BY <4>1, <4>2
    <3>2. QED
      BY <3>1
  <2>6. QED
    BY <1>2, <2>1, <2>2, <2>4, <2>5 DEF Begins, Opens, In
<1>3. QED
  BY <1>1, <1>2

\* The password part, read unit by unit.
LEMMA PassIs ==
    ASSUME NEW s \in Texts(Units)
    PROVE  PassOk(s) <=> (s # <<>> => /\ s[Len(s)] = "@"
                                      /\ In(SubSeq(s, 1, Len(s) - 1), Units \ {"/", "@"})
                                      /\ Len(s) > 1 => s[1] = ":")
<1>1. CASE s = <<>>
  BY <1>1, EmptyText DEF PassOk
<1>2. CASE s # <<>>
  <2>1. Size(s) \in Nat /\ Size(s) > 0 /\ Len(s) = Size(s)
    BY <1>2, EmptyText DEF Size
  <2>2. PICK n \in Nat : n = Size(s) - 1
    BY <2>1
  <2>3. PICK u : u = Piece(s, 0, n)
    OBVIOUS
  <2>4. Size(u) = n - 0 /\ \A k \in 1 .. (n - 0), m \in Int : m = 0 + k => u[k] = s[m]
    <3>1. 0 \in Nat /\ 0 <= n /\ n <= Size(s)
      BY <2>1, <2>2
    <3>2. QED
      BY ONLY <3>1, <2>3, n \in Nat, s \in Texts(Units), PieceAt
  <2>5. \A k \in 1 .. n : u[k] = s[k]
    BY <2>4
  <2>6. u = SubSeq(s, 1, Len(s) - 1) /\ Len(u) = n
    BY <2>1, <2>2, <2>3, <2>4 DEF Piece, Size
  <2>7. In(u, Units \ {"/", "@"}) <=> \A k \in 1 .. n : s[k] \in Units \ {"/", "@"}
    BY <2>5, <2>6 DEF In
  <2>8. QED
    BY <1>2, <2>1, <2>2, <2>6, <2>7 DEF PassOk
<1>3. QED
  BY <1>1, <1>2

\* The port part: never a lone colon.
LEMMA PortIs ==
    ASSUME NEW s \in Texts(Units)
    PROVE  PortOk(s) <=> (s = <<>> \/ (Len(s) > 1 /\ Begins(s, ":", Numbers)))
<1>1. Begins(s, ":", Numbers) <=> Opens(s, ":", Numbers)
  BY BeginsIs
<1>2. Size(s) \in Nat /\ (Size(s) = 0 <=> s = <<>>) /\ Len(s) = Size(s)
  BY EmptyText DEF Size
<1>3. s = <<>> => Begins(s, ":", Numbers)
  BY DEF Begins
<1>4. QED
  BY <1>1, <1>2, <1>3 DEF PortOk

\* A user or host: no slash, colon or at sign in it.
LEMMA NameIs ==
    ASSUME NEW s
    PROVE  NameOk(s) <=> In(s, Units \ {"/", ":", "@"})
  BY DEF NameOk, In, NameUnits, Size

\* The scheme part: a word and a colon, with two slashes or none.
LEMMA SchemeIs ==
    ASSUME NEW s \in Texts(Units)
    PROVE  SchemeOk(s) <=> (Len(s) \in {2, 4} /\ s[1] \in Words /\ Tail(s) \in {<<":">>, <<":", "/", "/">>})
<1>1. CASE Len(s) \in {2, 4}
  <2>1. PICK t : t = Tail(s)
    OBVIOUS
  <2>2. s # <<>> /\ s \in Seq(Units)
    BY <1>1 DEF Texts
  <2>3. t \in Seq(Units) /\ Len(t) = Len(s) - 1 /\ \A k \in 1 .. (Len(s) - 1) : t[k] = s[k + 1]
    BY <2>1, <2>2, HeadTailProperties
  <2>4. CASE Len(s) = 2
    <3>1. Len(t) = 1 /\ t[1] = s[2]
      BY <2>3, <2>4
    <3>2. t = <<":">> <=> t[1] = ":"
      BY <2>3, <3>1
    <3>3. t # <<":", "/", "/">>
      BY <3>1
    <3>4. QED
      BY <2>1, <2>4, <3>1, <3>2, <3>3 DEF SchemeOk, Size
  <2>5. CASE Len(s) = 4
    <3>1. Len(t) = 3 /\ t[1] = s[2] /\ t[2] = s[3] /\ t[3] = s[4]
      BY <2>3, <2>5
    <3>2. t = <<":", "/", "/">> <=> t[1] = ":" /\ t[2] = "/" /\ t[3] = "/"
      BY <2>3, <3>1
    <3>3. t # <<":">>
      BY <3>1
    <3>4. QED
      BY <2>1, <2>5, <3>1, <3>2, <3>3 DEF SchemeOk, Size
  <2>6. QED
    BY <1>1, <2>4, <2>5
<1>2. CASE Len(s) \notin {2, 4}
  BY <1>2 DEF SchemeOk, Size
<1>3. QED
  BY <1>1, <1>2

\* Each part of an ordered text is a text, as long as its ends are apart.
LEMMA PartText ==
    ASSUME NEW s, NEW o, InOrder(s, o), NEW m \in 0..7
    PROVE  Part(s, o, m) \in Texts(Units) /\ Size(Part(s, o, m)) = End(s, o, m) - Start(o, m)
<1>1. PICK a, z : a = Start(o, m) /\ z = End(s, o, m)
  OBVIOUS
<1>2. a \in Nat /\ z \in Nat /\ a <= z /\ z <= Size(s)
  BY <1>1, Between
<1>3. s \in Texts(Units)
  BY DEF InOrder
<1>4. Piece(s, a, z) \in Texts(Units) /\ Size(Piece(s, a, z)) = z - a
  BY <1>2, <1>3, PieceAt
<1>5. QED
  BY <1>1, <1>4, PartIs

\* Ordered offsets, in the names used here.
LEMMA OrderedIs ==
    ASSUME NEW s \in Texts(Units), NEW o
    PROVE  Ordered(s, o) <=> InOrder(s, o)
<1>0. Size(s) \in Nat /\ Size(s) = Len(s)
  BY EmptyText DEF Size
<1>1. ASSUME InOrder(s, o) PROVE Ordered(s, o)
  <2>1. o \in [1..7 -> 0 .. Len(s)]
    BY <1>0, <1>1 DEF InOrder, Ofs
  <2>2. ASSUME NEW i \in 1..6 PROVE o[i] <= o[i + 1]
    <3>1. i \in 1..7 /\ i + 1 \in 1..7 /\ i <= i + 1
      OBVIOUS
    <3>2. QED
      BY <1>1, <3>1 DEF InOrder
  <2>3. QED
    BY <2>1, <2>2 DEF Ordered
<1>2. ASSUME Ordered(s, o) PROVE InOrder(s, o)
  <2>1. /\ o[1] \in Nat /\ o[2] \in Nat /\ o[3] \in Nat /\ o[4] \in Nat /\ o[5] \in Nat
        /\ o[6] \in Nat /\ o[7] \in Nat /\ o \in Ofs /\ \A k \in 1..7 : o[k] <= Size(s)
    BY <1>0, <1>2 DEF Ordered, Ofs
  <2>2. /\ o[1] <= o[1 + 1] /\ o[2] <= o[2 + 1] /\ o[3] <= o[3 + 1] /\ o[4] <= o[4 + 1]
        /\ o[5] <= o[5 + 1] /\ o[6] <= o[6 + 1]
    BY <1>2 DEF Ordered
  <2>3. /\ o[1] <= o[2] /\ o[2] <= o[3] /\ o[3] <= o[4] /\ o[4] <= o[5]
        /\ o[5] <= o[6] /\ o[6] <= o[7]
    BY <2>2
  <2>4. ASSUME NEW k \in 1..7, NEW l \in 1..7, k <= l PROVE o[k] <= o[l]
    BY <2>1, <2>3, <2>4
  <2>5. QED
    BY <2>1, <2>4 DEF InOrder
<1>3. QED
  BY <1>1, <1>2

\* A sliced text: offsets in order, a scheme, and each other part in its own form.
LEMMA SlicedIs ==
    ASSUME NEW s \in Texts(Units), NEW o
    PROVE  Sliced(s, o) <=> InOrder(s, o) /\ SchemeOk(Part(s, o, 0)) /\ Elems(s, o)
<1>1. Ordered(s, o) <=> InOrder(s, o)
  BY OrderedIs
<1>2. CASE ~InOrder(s, o)
  BY <1>1, <1>2 DEF Sliced
<1>3. CASE InOrder(s, o)
  <2>1. /\ Part(s, o, 0) \in Texts(Units) /\ Part(s, o, 1) \in Texts(Units) /\ Part(s, o, 2) \in Texts(Units)
        /\ Part(s, o, 3) \in Texts(Units) /\ Part(s, o, 4) \in Texts(Units) /\ Part(s, o, 5) \in Texts(Units)
        /\ Part(s, o, 6) \in Texts(Units) /\ Part(s, o, 7) \in Texts(Units)
    BY <1>3, PartText
  <2>2. SchemeText(s, o) <=> SchemeOk(Part(s, o, 0))
    BY <2>1, SchemeIs DEF SchemeText
  <2>3. /\ Begins(Part(s, o, 5), "/", PathUnits) <=> Opens(Part(s, o, 5), "/", PathUnits)
        /\ Begins(Part(s, o, 6), "?", Units) <=> Opens(Part(s, o, 6), "?", Units)
        /\ Begins(Part(s, o, 7), "#", Units) <=> Opens(Part(s, o, 7), "#", Units)
    BY <2>1, BeginsIs
  <2>4. PortOk(Part(s, o, 4)) <=>
          (Part(s, o, 4) = <<>> \/ (Len(Part(s, o, 4)) > 1 /\ Begins(Part(s, o, 4), ":", Numbers)))
    BY <2>1, PortIs
  <2>5. PassOk(Part(s, o, 2)) <=>
          (Part(s, o, 2) # <<>> =>
              /\ Part(s, o, 2)[Len(Part(s, o, 2))] = "@"
              /\ In(SubSeq(Part(s, o, 2), 1, Len(Part(s, o, 2)) - 1), Units \ {"/", "@"})
              /\ Len(Part(s, o, 2)) > 1 => Part(s, o, 2)[1] = ":")
    BY <2>1, PassIs
  <2>6. /\ NameOk(Part(s, o, 1)) <=> In(Part(s, o, 1), Units \ {"/", ":", "@"})
        /\ NameOk(Part(s, o, 3)) <=> In(Part(s, o, 3), Units \ {"/", ":", "@"})
    BY NameIs
  <2>7. /\ Size(Part(s, o, 1)) = 0 <=> Part(s, o, 1) = <<>>
        /\ Size(Part(s, o, 2)) = 0 <=> Part(s, o, 2) = <<>>
    BY <2>1, EmptyText
  <2>8. QED
    BY <1>1, <1>3, <2>2, <2>3, <2>4, <2>5, <2>6, <2>7
       DEF Sliced, Elems, LoginOk, User, Password, Host, Port, Path, Query, Fragment, PathUnits
<1>4. QED
  BY <1>2, <1>3

-----------------------------------------------------------------------------
(* The invariant                                                           *)

InStep ==
    /\ InOrder(text_, ofs) /\ Elems(text_, ofs)
    /\ IF text_ = <<>> THEN ofs = [k \in 1..7 |-> 0] ELSE SchemeOk(Part(text_, ofs, 0))

\* The inductive invariant puts every part in its place (PartsInPlace).
LEMMA InPlace ==
    ASSUME InStep
    PROVE  PartsInPlace
<1>1. text_ \in Texts(Units)
  BY DEF InStep, InOrder
<1>2. QED
  BY <1>1, SlicedIs DEF InStep, PartsInPlace

\* A text with a scheme is not empty.
LEMMA HasScheme ==
    ASSUME NEW s, NEW o, InOrder(s, o), SchemeOk(Part(s, o, 0))
    PROVE  s # <<>>
<1>1. PICK p : p = Part(s, o, 0)
  OBVIOUS
<1>2. Size(p) > 0
  BY <1>1 DEF SchemeOk
<1>3. Size(p) = End(s, o, 0) - Start(o, 0)
  BY <1>1, PartText
<1>4. Start(o, 0) \in Nat /\ End(s, o, 0) \in Nat /\ End(s, o, 0) <= Size(s)
  BY Between
<1>5. Size(s) # 0
  BY <1>2, <1>3, <1>4
<1>6. QED
  BY <1>5, NoUnits

\* A step that leaves offsets in order, a scheme and well-formed parts leaves the text in step.
LEMMA Closing ==
    ASSUME InOrder(text_', ofs'), SchemeOk(Part(text_', ofs', 0)), Elems(text_', ofs')
    PROVE  InStep'
<1>1. text_' # <<>>
  BY HasScheme
<1>2. QED
  BY <1>1 DEF InStep

\* The piece from end to end is the text.
LEMMA WholePiece ==
    ASSUME NEW s \in Texts(Units)
    PROVE  Piece(s, 0, Size(s)) = s
<1>1. s \in Seq(Units)
  BY DEF Texts
<1>2. SubSeq(s, 1, Len(s)) = s
  BY <1>1, SubSeqFull
<1>3. QED
  BY <1>2 DEF Piece, Size

\* Replacing one part changes that part and no other: the insertions of the setters.
LEMMA OnePart ==
    ASSUME NEW s, NEW o, InOrder(s, o), NEW t, NEW r, NEW i \in 0..7,
           NEW new \in Texts(Units), Replaced(s, o, t, r, i, i, new)
    PROVE  /\ InOrder(t, r) /\ Part(t, r, i) = new
           /\ \A m \in 0..7 : m # i => Part(t, r, m) = Part(s, o, m)
<1>1. PICK b, e, n, L : Carried(s, o, t, r, i, i, new, b, e, n, L)
  BY ReplacedOrder
<1>2. InOrder(t, r)
  BY <1>1 DEF Carried
<1>3. PICK c : Within(o, t, r, i, i, new, i, c)
  <2>1. i <= i
    OBVIOUS
  <2>2. QED
    BY <2>1, NewParts
<1>4. Size(new) \in Nat
  BY EmptyText
<1>5. Start(r, i) - c = 0 /\ End(t, r, i) - c = Size(new)
  BY <1>3, <1>4 DEF Within
<1>6. Part(t, r, i) = new
  BY <1>3, <1>5, WholePiece DEF Within
<1>7. ASSUME NEW m \in 0..7, m # i PROVE Part(t, r, m) = Part(s, o, m)
  <2>1. m < i \/ m > i
    BY <1>7
  <2>2. QED
    BY <2>1, OtherParts
<1>8. QED
  BY <1>2, <1>6, <1>7

\* The model's Splice replaces one part.
LEMMA SpliceIs ==
    ASSUME InOrder(text_, ofs), NEW i \in 0..7, NEW new \in Texts(Units), Splice(i, new)
    PROVE  Replaced(text_, ofs, text_', ofs', i, i, new)
<1>1. PICK b, e, n, L : b = Start(ofs, i) /\ e = End(text_, ofs, i) /\ n = Size(new) /\ L = Size(text_)
  OBVIOUS
<1>2. b \in Nat /\ e \in Nat /\ L \in Nat /\ n \in Nat
  <2>1. i <= i /\ text_ \in Texts(Units)
    BY DEF InOrder
  <2>2. QED
    BY <1>1, <2>1, Between, EmptyText
<1>3. /\ text_' = SubSeq(text_, 1, b) \o new \o SubSeq(text_, e + 1, Len(text_))
      /\ ofs' = [k \in 1..7 |-> IF k > i THEN ofs[k] + Len(new) - (e - b) ELSE ofs[k]]
  BY <1>1 DEF Splice
<1>4. Piece(text_, 0, b) = SubSeq(text_, 1, b) /\ Piece(text_, e, L) = SubSeq(text_, e + 1, Len(text_))
  BY <1>1 DEF Piece, Size
<1>5. text_' = Joined(Joined(Piece(text_, 0, b), new), Piece(text_, e, L))
  BY <1>3, <1>4 DEF Joined
<1>6. \A k \in 1..7 : ofs[k] \in Nat
  BY DEF InOrder, Ofs
<1>7. ofs' = [k \in 1..7 |-> IF k > i THEN ofs[k] + n - (e - b) ELSE ofs[k]]
  BY <1>1, <1>3 DEF Size
<1>8. Moved(ofs, ofs', i, i, b, e, n)
  BY <1>2, <1>6, <1>7 DEF Moved
<1>9. QED
  BY <1>1, <1>5, <1>8 DEF Replaced

\* A part is replaced, and the others stay as they are.
LEMMA SpliceParts ==
    ASSUME InOrder(text_, ofs), NEW i \in 0..7, NEW new \in Texts(Units), Splice(i, new)
    PROVE  /\ InOrder(text_', ofs') /\ Part(text_', ofs', i) = new
           /\ \A m \in 0..7 : m # i => Part(text_', ofs', m) = Part(text_, ofs, m)
  BY SpliceIs, OnePart

-----------------------------------------------------------------------------
(* Texts that setters store                                                *)

Escapes == {Escape(c) : c \in Delimiters}

\* The units: plain ones, delimiters and escapes, all apart (UriAssumption).
LEMMA UnitsAre ==
    /\ Units = Plain \cup Delimiters \cup Escapes
    /\ Plain \cap Delimiters = {} /\ Plain \cap Escapes = {} /\ Delimiters \cap Escapes = {}
<1>1. Plain \cap Delimiters = {} /\ Plain \cap Escapes = {}
  BY UriAssumption DEF Escapes
<1>2. Delimiters \cap Escapes = {}
  BY DEF Escapes, Delimiters, Escape
<1>3. QED
  BY <1>1, <1>2 DEF Units, Escapes

\* Which units each part may hold.
LEMMA UnitSets ==
    /\ Plain \subseteq NameUnits /\ Escapes \subseteq NameUnits
    /\ NameUnits \subseteq Units \ {"/", "@"} /\ Plain \cup Escapes \subseteq PathUnits
    /\ ":" \in PathUnits /\ "/" \in PathUnits /\ ":" \in Units \ {"/", "@"} /\ Numbers \subseteq Plain
    /\ {":", "/", "@", "?", "#"} \subseteq Units /\ Words \subseteq Plain
  BY UnitsAre DEF NameUnits, PathUnits, Delimiters, Plain

\* encode() gives one unit for each of the value's, with no delimiter but those it was told to leave.
LEMMA EncodeAt ==
    ASSUME NEW v \in Seq(Plain \cup Delimiters), NEW x \in SUBSET Delimiters
    PROVE  /\ encode(v, x) \in Texts(Units) /\ Size(encode(v, x)) = Len(v)
           /\ \A k \in 1 .. Len(v) : encode(v, x)[k] \in Plain \cup Escapes \cup x
<1>1. PICK w : w = encode(v, x)
  OBVIOUS
<1>2. Len(v) \in Nat
  OBVIOUS
<1>3. ASSUME NEW k \in 1 .. Len(v) PROVE w[k] \in Plain \cup Escapes \cup x
  <2>1. w[k] = IF v[k] \in Plain \cup x THEN v[k] ELSE Escape(v[k])
    BY <1>1 DEF encode
  <2>2. v[k] \in Plain \cup Delimiters
    OBVIOUS
  <2>3. QED
    BY <2>1, <2>2 DEF Escapes
<1>4. Plain \cup Escapes \cup x \subseteq Units
  BY UnitsAre
<1>5. w \in [1 .. Len(v) -> Units]
  BY <1>1, <1>3, <1>4 DEF encode
<1>6. w \in Seq(Units) /\ Len(w) = Len(v)
  BY <1>2, <1>5
<1>7. QED
  BY <1>1, <1>3, <1>6 DEF Texts, Size

\* An encoded name is fit to be a user, host or password.
LEMMA EncodedName ==
    ASSUME NEW v \in Seq(Plain \cup Delimiters)
    PROVE  /\ encode(v, {}) \in Texts(Units) /\ Size(encode(v, {})) = Len(v)
           /\ \A k \in 1 .. Len(v) : encode(v, {})[k] \in Plain \cup Escapes
           /\ NameOk(encode(v, {}))
<1>1. PICK w : w = encode(v, {})
  OBVIOUS
<1>2. w \in Texts(Units) /\ Size(w) = Len(v) /\ \A k \in 1 .. Len(v) : w[k] \in Plain \cup Escapes
  BY <1>1, EncodeAt
<1>3. NameOk(w)
  BY <1>2, UnitSets DEF NameOk
<1>4. QED
  BY <1>1, <1>2, <1>3

\* A mark put before a text.
LEMMA Prefixed ==
    ASSUME NEW c \in Units, NEW v \in Texts(Units), NEW t, t = Joined(<<c>>, v)
    PROVE  /\ t \in Texts(Units) /\ Size(v) \in Nat /\ Size(t) = 1 + Size(v) /\ t[1] = c
           /\ Copied(v, 0, Size(v), t, 1)
<1>1. PICK u : u = <<c>>
  OBVIOUS
<1>2. u \in Texts(Units) /\ Size(u) = 1 /\ u[1] = c
  BY <1>1, OneUnit
<1>3. t = Joined(u, v)
  BY <1>1
<1>4. PICK n \in Nat : n = Size(v)
  BY EmptyText
<1>5. t \in Texts(Units) /\ Size(t) = 1 + n /\ Copied(u, 0, 1, t, 0) /\ Copied(v, 0, n, t, 1)
  BY <1>2, <1>3, <1>4, JoinedCopies
<1>6. t[1] = u[1]
  BY <1>5 DEF Copied
<1>7. QED
  BY <1>2, <1>4, <1>5, <1>6

\* A text behind its mark has the form of an optional part.
LEMMA PrefixedOpens ==
    ASSUME NEW c \in Units, NEW v \in Texts(Units), NEW set, \A k \in 1 .. Size(v) : v[k] \in set
    PROVE  Joined(<<c>>, v) \in Texts(Units) /\ Opens(Joined(<<c>>, v), c, set)
<1>1. PICK t : t = Joined(<<c>>, v)
  OBVIOUS
<1>2. /\ t \in Texts(Units) /\ Size(v) \in Nat /\ Size(t) = 1 + Size(v) /\ t[1] = c
      /\ Copied(v, 0, Size(v), t, 1)
  BY <1>1, Prefixed
<1>3. ASSUME NEW m \in 2 .. Size(t) PROVE t[m] \in set
  <2>1. m - 1 \in (0 + 1) .. Size(v) /\ m = 1 + ((m - 1) - 0)
    BY <1>2
  <2>2. t[m] = v[m - 1]
    BY <1>2, <2>1 DEF Copied
  <2>3. QED
    BY <2>1, <2>2
<1>4. QED
  BY <1>1, <1>2, <1>3 DEF Opens

\* What set_password() writes is a password part.
LEMMA PasswordText ==
    ASSUME NEW v \in Seq(Plain \cup Delimiters), NEW t, t = <<":">> \o encode(v, {}) \o <<"@">>
    PROVE  t \in Texts(Units) /\ PassOk(t) /\ Size(t) > 0
<1>1. PICK a, w, z : a = <<":">> /\ w = encode(v, {}) /\ z = <<"@">>
  OBVIOUS
<1>2. a \in Texts(Units) /\ Size(a) = 1 /\ a[1] = ":" /\ z \in Texts(Units) /\ Size(z) = 1 /\ z[1] = "@"
  BY <1>1, OneUnit, UnitSets
<1>3. /\ w \in Texts(Units) /\ \A k \in 1 .. Size(w) : w[k] \in Units \ {"/", "@"}
  BY <1>1, EncodedName, UnitSets DEF NameOk
<1>4. PICK n \in Nat : n = Size(w)
  BY <1>3, EmptyText
<1>5. t = Joined(Joined(a, w), z)
  BY <1>1 DEF Joined
<1>6. /\ t \in Texts(Units) /\ Size(t) = 1 + n + 1
      /\ Copied(a, 0, 1, t, 0) /\ Copied(w, 0, n, t, 1) /\ Copied(z, 0, 1, t, 1 + n)
  <2>1. a \in Texts(Units) /\ w \in Texts(Units) /\ z \in Texts(Units)
    BY <1>2, <1>3
  <2>2. 1 \in Nat /\ n \in Nat /\ Size(a) = 1 /\ Size(w) = n /\ Size(z) = 1
    BY <1>2, <1>4
  <2>3. QED
    BY ONLY <1>5, <2>1, <2>2, ThreeCopies
<1>7. t[1] = ":" /\ t[Size(t)] = "@"
  <2>1. t[1] = a[1]
    BY <1>6 DEF Copied
  <2>2. t[1 + n + 1] = z[1]
    <3>1. 1 \in (0 + 1) .. 1 /\ 1 + n + 1 \in Int /\ 1 + n + 1 = (1 + n) + (1 - 0)
      OBVIOUS
    <3>2. QED
      BY <1>6, <3>1 DEF Copied
  <2>3. QED
    BY <1>2, <1>6, <2>1, <2>2
<1>8. ASSUME NEW k \in 1 .. (Size(t) - 1) PROVE t[k] \in Units \ {"/", "@"}
  <2>1. CASE k = 1
    BY <1>7, <2>1, UnitSets
  <2>2. CASE k # 1
    <3>1. k - 1 \in (0 + 1) .. n /\ k = 1 + ((k - 1) - 0)
      BY <1>4, <1>6, <2>2
    <3>2. t[k] = w[k - 1]
      <4>1. k \in Int /\ Copied(w, 0, n, t, 1)
        BY <1>6
      <4>2. QED
        BY ONLY <3>1, <4>1 DEF Copied
    <3>3. k - 1 \in 1 .. Size(w)
      BY <1>4, <3>1
    <3>4. w[k - 1] \in Units \ {"/", "@"}
      BY <1>3, <3>3
    <3>5. QED
      BY <3>2, <3>4
  <2>3. QED
    BY <2>1, <2>2
<1>9. QED
  BY <1>4, <1>6, <1>7, <1>8 DEF PassOk

\* What set_path() writes is a path part: a slash is put before it if it has none.
LEMMA PathTextIs ==
    ASSUME NEW v \in Seq(Plain \cup Delimiters), v # <<>>
    PROVE  PathText(v) \in Texts(Units) /\ Opens(PathText(v), "/", PathUnits)
<1>1. PICK w : w = encode(v, {":", "/"})
  OBVIOUS
<1>2. {":", "/"} \in SUBSET Delimiters
  BY DEF Delimiters
<1>3. w \in Texts(Units) /\ Size(w) = Len(v) /\ \A k \in 1 .. Size(w) : w[k] \in PathUnits
  BY <1>1, <1>2, EncodeAt, UnitSets
<1>4. CASE w[1] = "/"
  <2>1. Opens(w, "/", PathUnits)
    BY <1>3, <1>4 DEF Opens
  <2>2. QED
    BY <1>1, <1>3, <1>4, <2>1 DEF PathText
<1>5. CASE w[1] # "/"
  <2>1. PathText(v) = Joined(<<"/">>, w)
    BY <1>1, <1>5 DEF PathText, Joined
  <2>2. "/" \in Units
    BY UnitSets
  <2>3. QED
    BY <1>3, <2>1, <2>2, PrefixedOpens
<1>6. QED
  BY <1>4, <1>5

\* A path with more units of a path behind it is a path: append_path().
LEMMA LongerPath ==
    ASSUME NEW p \in Texts(Units), Opens(p, "/", PathUnits), Size(p) > 0,
           NEW w \in Texts(Units), \A k \in 1 .. Size(w) : w[k] \in PathUnits
    PROVE  Joined(p, w) \in Texts(Units) /\ Opens(Joined(p, w), "/", PathUnits)
<1>1. PICK t, a, n : t = Joined(p, w) /\ a = Size(p) /\ n = Size(w)
  OBVIOUS
<1>2. a \in Nat /\ n \in Nat
  BY <1>1, EmptyText
<1>3. t \in Texts(Units) /\ Size(t) = a + n /\ Copied(p, 0, a, t, 0) /\ Copied(w, 0, n, t, a)
  BY <1>1, <1>2, JoinedCopies
<1>4. \A k \in 1 .. a : t[k] = p[k]
  BY <1>3 DEF Copied
<1>5. ASSUME NEW k \in 2 .. Size(t) PROVE t[k] \in PathUnits
  <2>1. CASE k <= a
    <3>1. k \in 2 .. a /\ k \in 1 .. a
      BY <1>2, <1>3, <2>1
    <3>2. p[k] \in PathUnits
      BY <1>1, <3>1 DEF Opens
    <3>3. QED
      BY <1>4, <3>1, <3>2
  <2>2. CASE k > a
    <3>1. k - a \in (0 + 1) .. n /\ k = a + ((k - a) - 0)
      BY <1>2, <1>3, <2>2
    <3>2. t[k] = w[k - a]
      BY <1>3, <3>1 DEF Copied
    <3>3. QED
      BY <1>1, <3>1, <3>2
  <2>3. QED
    BY <1>2, <2>1, <2>2
<1>6. t[1] = p[1] /\ p[1] = "/"
  BY <1>1, <1>2, <1>4 DEF Opens
<1>7. QED
  BY <1>1, <1>3, <1>5, <1>6 DEF Opens

-----------------------------------------------------------------------------
(* The setters                                                             *)

\* A setter of one element, whose part gets a form of its own.
LEMMA SpliceKeeps ==
    ASSUME InStep, text_ # <<>>, NEW i \in 1..7, NEW new \in Texts(Units), Splice(i, new),
           i = 1 => LoginOk(new, Part(text_, ofs, 2)),
           i = 2 => LoginOk(Part(text_, ofs, 1), new),
           i = 3 => NameOk(new),
           i = 4 => PortOk(new),
           i = 5 => Opens(new, "/", PathUnits),
           i = 6 => Opens(new, "?", Units),
           i = 7 => Opens(new, "#", Units)
    PROVE  InStep'
<1>1. InOrder(text_, ofs) /\ Elems(text_, ofs) /\ SchemeOk(Part(text_, ofs, 0))
  BY DEF InStep
<1>2. PICK t, r : t = text_' /\ r = ofs'
  OBVIOUS
<1>3. /\ InOrder(t, r) /\ Part(t, r, i) = new
      /\ \A m \in 0..7 : m # i => Part(t, r, m) = Part(text_, ofs, m)
  BY <1>1, <1>2, SpliceParts
<1>4. SchemeOk(Part(t, r, 0))
  BY <1>1, <1>3
<1>5. LoginOk(Part(t, r, 1), Part(t, r, 2))
  BY <1>1, <1>3 DEF Elems
<1>6. NameOk(Part(t, r, 3)) /\ PortOk(Part(t, r, 4))
  BY <1>1, <1>3 DEF Elems
<1>7. /\ Opens(Part(t, r, 5), "/", PathUnits)
      /\ Opens(Part(t, r, 6), "?", Units)
      /\ Opens(Part(t, r, 7), "#", Units)
  BY <1>1, <1>3 DEF Elems
<1>8. QED
  BY <1>2, <1>3, <1>4, <1>5, <1>6, <1>7, Closing DEF Elems

\* What set_scheme() writes is a scheme part.
LEMMA SchemeWord ==
    ASSUME NEW word \in Words, NEW t \in {<<word, ":", "/", "/">>, <<word, ":">>}
    PROVE  t \in Texts(Units) /\ SchemeOk(t)
<1>1. word \in Units /\ ":" \in Units /\ "/" \in Units
  BY UnitSets, UnitsAre
<1>2. CASE t = <<word, ":">>
  <2>1. t \in Seq(Units) /\ Len(t) = 2 /\ t[1] = word /\ t[2] = ":"
    BY <1>1, <1>2
  <2>2. QED
    BY <2>1 DEF Texts, SchemeOk, Size
<1>3. CASE t = <<word, ":", "/", "/">>
  <2>1. t \in Seq(Units) /\ Len(t) = 4 /\ t[1] = word /\ t[2] = ":" /\ t[3] = "/" /\ t[4] = "/"
    BY <1>1, <1>3
  <2>2. QED
    BY <2>1 DEF Texts, SchemeOk, Size
<1>4. QED
  BY <1>2, <1>3

\* set_scheme() keeps the text in step, whether it was empty or not.
LEMMA SchemeStep ==
    ASSUME InStep, NEW word \in Words, NEW given, NEW smart, set_scheme(word, given, smart)
    PROVE  InStep'
<1>1. PICK new : new \in {<<word, ":", "/", "/">>, <<word, ":">>} /\ Splice(0, new)
  BY DEF set_scheme
<1>2. new \in Texts(Units) /\ SchemeOk(new)
  BY <1>1, SchemeWord
<1>3. InOrder(text_, ofs) /\ Elems(text_, ofs)
  BY DEF InStep
<1>4. PICK t, r : t = text_' /\ r = ofs'
  OBVIOUS
<1>5. /\ InOrder(t, r) /\ Part(t, r, 0) = new
      /\ \A m \in 0..7 : m # 0 => Part(t, r, m) = Part(text_, ofs, m)
  BY <1>1, <1>2, <1>3, <1>4, SpliceParts
<1>6. Elems(t, r)
  BY <1>3, <1>5 DEF Elems
<1>7. QED
  BY <1>2, <1>4, <1>5, <1>6, Closing

\* has_query() and the like count the units of the part; a lone mark is not a query or a password.
LEMMA HasIs ==
    ASSUME InStep, NEW i \in 0..7
    PROVE  Has(i) <=> /\ text_ # <<>>
                      /\ Size(Part(text_, ofs, i)) > (IF i \in {2, 5} THEN 1 ELSE 0)
  BY DEF Has, Size, Password, Path

\* An empty part has every form but a scheme's.
LEMMA NothingOk ==
    /\ <<>> \in Texts(Units) /\ Size(<<>>) = 0 /\ NameOk(<<>>) /\ PortOk(<<>>)
    /\ Opens(<<>>, "/", PathUnits) /\ Opens(<<>>, "?", Units) /\ Opens(<<>>, "#", Units)
  BY NoUnits DEF NameOk, PortOk, Opens

\* One part of several is cleared.
LEMMA ClearStep ==
    ASSUME InStep, clear_host \/ clear_port \/ clear_path \/ clear_query \/ clear_fragment
    PROVE  InStep'
<1>1. text_ # <<>>
  BY DEF clear_host, clear_port, clear_path, clear_query, clear_fragment, Has
<1>2. \E i \in {3, 4, 5, 6, 7} : Splice(i, <<>>)
  BY DEF clear_host, clear_port, clear_path, clear_query, clear_fragment,
         Host, Port, Path, Query, Fragment
<1>3. PICK i \in {3, 4, 5, 6, 7} : Splice(i, <<>>)
  BY <1>2
<1>4. QED
  BY <1>1, <1>3, NothingOk, SpliceKeeps

\* clear_password() keeps the text in step; without a user it takes the at sign too.
LEMMA ClearPasswordStep ==
    ASSUME InStep, clear_password
    PROVE  InStep'
<1>1. text_ # <<>> /\ Size(Part(text_, ofs, 2)) > 1 /\ Splice(2, <<"@">>)
  BY HasIs DEF clear_password, Password
<1>2. PICK p : p = <<"@">>
  OBVIOUS
<1>3. p \in Texts(Units) /\ Size(p) = 1 /\ p[1] = "@"
  BY <1>2, OneUnit, UnitSets
<1>4. PassOk(p)
  BY <1>3 DEF PassOk
<1>5. LoginOk(Part(text_, ofs, 1), Part(text_, ofs, 2))
  BY DEF InStep, Elems
<1>6. LoginOk(Part(text_, ofs, 1), p)
  BY <1>1, <1>3, <1>4, <1>5 DEF LoginOk
<1>7. QED
  BY <1>1, <1>2, <1>3, <1>6, SpliceKeeps

\* What a call does to the parts: it changes one; user and password; or the
\* last of them, of which the first gets a text and the others none.
OneNow(i, new) ==
    /\ Part(text_', ofs', i) = new
    /\ \A m \in 0..7 : m # i => Part(text_', ofs', m) = Part(text_, ofs, m)

LoginNow(u, p) ==
    /\ Part(text_', ofs', 1) = u /\ Part(text_', ofs', 2) = p
    /\ \A m \in {0, 3, 4, 5, 6, 7} : Part(text_', ofs', m) = Part(text_, ofs, m)

TailNow(i, new) ==
    \A m \in 0..7 : \/ m < i /\ Part(text_', ofs', m) = Part(text_, ofs, m)
                    \/ m = i /\ Part(text_', ofs', m) = new
                    \/ m > i /\ Part(text_', ofs', m) = <<>>

\* User and password are replaced together, and the user takes a units.
LEMMA LoginKeeps ==
    ASSUME InStep, text_ # <<>>, NEW new \in Texts(Units),
           Replaced(text_, ofs, text_', ofs', 1, 2, new),
           NEW a \in Nat, a <= Size(new), ofs'[2] = ofs[1] + a,
           LoginOk(Piece(new, 0, a), Piece(new, a, Size(new)))
    PROVE  InStep' /\ LoginNow(Piece(new, 0, a), Piece(new, a, Size(new)))
<1>1. InOrder(text_, ofs) /\ Elems(text_, ofs) /\ SchemeOk(Part(text_, ofs, 0))
  BY DEF InStep
<1>2. PICK s, o, t, r : s = text_ /\ o = ofs /\ t = text_' /\ r = ofs'
  OBVIOUS
<1>3. InOrder(s, o) /\ Replaced(s, o, t, r, 1, 2, new)
  BY <1>1, <1>2
<1>0. 1 \in 0..7 /\ 2 \in 0..7 /\ 1 <= 2 /\ 1 <= 1 /\ 2 <= 2
  OBVIOUS
<1>4. InOrder(t, r)
  <2>1. PICK b, e, n, L : Carried(s, o, t, r, 1, 2, new, b, e, n, L)
    BY <1>0, <1>3, ReplacedOrder
  <2>2. QED
    BY <2>1 DEF Carried
<1>5. \A m \in {0, 3, 4, 5, 6, 7} : Part(t, r, m) = Part(s, o, m)
  <2>1. ASSUME NEW m \in 0..7, m < 1 \/ m > 2 PROVE Part(t, r, m) = Part(s, o, m)
    BY <1>3, <2>1, OtherParts
  <2>2. QED
    BY <2>1
<1>6. Size(new) \in Nat
  BY EmptyText
<1>7. Part(t, r, 1) = Piece(new, 0, a)
  <2>1. PICK c : Within(o, t, r, 1, 2, new, 1, c)
    BY <1>0, <1>3, NewParts
  <2>2. c \in Nat /\ c = o[1] /\ Start(r, 1) = c /\ Part(t, r, 1) = Piece(new, Start(r, 1) - c, End(t, r, 1) - c)
    BY <2>1 DEF Within, Start
  <2>3. End(t, r, 1) = c + a
    BY <1>2, <2>2 DEF End
  <2>4. Start(r, 1) - c = 0 /\ End(t, r, 1) - c = a
    BY <2>2, <2>3
  <2>5. QED
    BY <2>2, <2>4
<1>8. Part(t, r, 2) = Piece(new, a, Size(new))
  <2>1. PICK c : Within(o, t, r, 1, 2, new, 2, c)
    BY <1>0, <1>3, NewParts
  <2>2. /\ c \in Nat /\ c = o[1] /\ End(t, r, 2) = c + Size(new)
        /\ Part(t, r, 2) = Piece(new, Start(r, 2) - c, End(t, r, 2) - c)
    BY <2>1 DEF Within, Start
  <2>3. Start(r, 2) = c + a
    BY <1>2, <2>2 DEF Start
  <2>4. Start(r, 2) - c = a /\ End(t, r, 2) - c = Size(new)
    BY <1>6, <2>2, <2>3
  <2>5. QED
    BY <2>2, <2>4
<1>9. Elems(t, r)
  BY <1>1, <1>2, <1>5, <1>7, <1>8 DEF Elems
<1>10. SchemeOk(Part(t, r, 0))
  BY <1>1, <1>2, <1>5
<1>11. InStep'
  BY <1>2, <1>4, <1>9, <1>10, Closing
<1>12. LoginNow(Piece(new, 0, a), Piece(new, a, Size(new)))
  BY <1>2, <1>5, <1>7, <1>8 DEF LoginNow
<1>13. QED
  BY <1>11, <1>12

\* What ordered offsets are.
LEMMA OfsAre ==
    ASSUME InOrder(text_, ofs)
    PROVE  /\ ofs \in [1..7 -> Nat] /\ Size(text_) \in Nat /\ text_ \in Texts(Units)
           /\ \A k, l \in 1..7 : k <= l => ofs[k] <= ofs[l]
           /\ \A k \in 1..7 : ofs[k] <= Size(text_)
  BY EmptyText DEF InOrder, Ofs

\* clear_user() takes the user and the password.
LEMMA ClearUserStep ==
    ASSUME InStep, clear_user
    PROVE  InStep' /\ LoginNow(<<>>, <<>>)
<1>1. InOrder(text_, ofs)
  BY DEF InStep
<1>2. /\ text_ # <<>>
      /\ text_' = SubSeq(text_, 1, ofs[1]) \o SubSeq(text_, ofs[3] + 1, Len(text_))
      /\ ofs' = [k \in 1..7 |-> IF k <= 3 THEN ofs[1] ELSE ofs[k] - (ofs[3] - ofs[1])]
  BY DEF clear_user, Has, User, Host
<1>3. /\ ofs \in [1..7 -> Nat] /\ Size(text_) \in Nat /\ text_ \in Texts(Units)
      /\ \A k, l \in 1..7 : k <= l => ofs[k] <= ofs[l]
      /\ \A k \in 1..7 : ofs[k] <= Size(text_)
  BY <1>1, OfsAre
<1>4. PICK b \in Nat, e \in Nat, L \in Nat :
         b = ofs[1] /\ e = ofs[3] /\ L = Size(text_) /\ b <= e /\ e <= L
  BY <1>3
<1>5. PICK u, v : u = Piece(text_, 0, b) /\ v = Piece(text_, e, L)
  OBVIOUS
<1>6. u \in Seq(Units)
  <2>1. 0 \in Nat /\ 0 <= b /\ b <= Size(text_)
    BY <1>4
  <2>2. QED
    BY <1>3, <1>5, <2>1, PieceAt DEF Texts
<1>7. u = SubSeq(text_, 1, ofs[1]) /\ v = SubSeq(text_, ofs[3] + 1, Len(text_))
  BY <1>4, <1>5 DEF Piece, Size
<1>8. u \o <<>> = u
  BY <1>6, ConcatEmptySeq
<1>9. text_' = Joined(Joined(u, <<>>), v)
  BY <1>2, <1>7, <1>8 DEF Joined
<1>10. Moved(ofs, ofs', 1, 2, b, e, 0)
  <2>1. PICK o, r : o = ofs /\ r = ofs'
    OBVIOUS
  <2>2. o \in [1..7 -> Nat] /\ o[1] = b /\ o[3] = e
    BY <1>3, <1>4, <2>1
  <2>3. r = [k \in 1..7 |-> IF k <= 3 THEN b ELSE o[k] - (e - b)]
    BY <1>2, <2>1, <2>2
  <2>4. Moved(o, r, 1, 2, b, e, 0)
    BY ONLY b \in Nat, e \in Nat, <2>2, <2>3 DEF Moved
  <2>5. QED
    BY <2>1, <2>4
<1>11. Start(ofs, 1) = b /\ End(text_, ofs, 2) = e /\ Size(<<>>) = 0
  BY <1>4, NoUnits DEF Start, End
<1>12. Replaced(text_, ofs, text_', ofs', 1, 2, <<>>)
  BY <1>4, <1>5, <1>9, <1>10, <1>11 DEF Replaced
<1>13. Piece(<<>>, 0, 0) = <<>>
  BY NoUnits, WholePiece
<1>14. LoginOk(<<>>, <<>>)
  BY NoUnits DEF LoginOk, NameOk, PassOk
<1>15. ofs'[2] = ofs[1] + 0
  BY <1>2, <1>3
<1>16. <<>> \in Texts(Units) /\ 0 \in Nat /\ 0 <= Size(<<>>)
  BY <1>11, NoUnits
<1>17. LoginOk(Piece(<<>>, 0, 0), Piece(<<>>, 0, Size(<<>>)))
  BY <1>11, <1>13, <1>14
<1>18. InStep' /\ LoginNow(Piece(<<>>, 0, 0), Piece(<<>>, 0, Size(<<>>)))
  BY ONLY InStep, <1>2, <1>12, <1>15, <1>16, <1>17, LoginKeeps
<1>19. QED
  BY <1>11, <1>13, <1>18 DEF LoginNow

\* set_user() puts an at sign behind the first user, unless a password brings its own.
LEMMA SetUserStep ==
    ASSUME InStep, NEW v \in Seq(Plain \cup Delimiters), set_user(v)
    PROVE  /\ InStep'
           /\ v = <<>> => LoginNow(<<>>, <<>>)
           /\ v # <<>> => \/ OneNow(1, encode(v, {}))
                          \/ LoginNow(encode(v, {}), <<"@">>) /\ Part(text_, ofs, 2) = <<>>
<1>1. PICK w : w = encode(v, {})
  OBVIOUS
<1>2. w \in Texts(Units) /\ Size(w) = Len(v) /\ NameOk(w)
  BY <1>1, EncodedName
<1>3. InOrder(text_, ofs) /\ LoginOk(Part(text_, ofs, 1), Part(text_, ofs, 2)) /\ text_ # <<>>
  BY DEF InStep, Elems, set_user
<1>4. CASE v = <<>> /\ clear_user
  BY <1>4, ClearUserStep
<1>5. v # <<>> => Size(w) \in Nat /\ Size(w) # 0
  BY <1>2, EmptyText DEF Texts
<1>6. CASE v # <<>> /\ Has(User) /\ Splice(User, w)
  <2>1. Size(Part(text_, ofs, 1)) > 0
    BY <1>6, HasIs DEF User
  <2>2. LoginOk(w, Part(text_, ofs, 2))
    <3>1. Size(Part(text_, ofs, 1)) # 0
      BY <2>1
    <3>2. QED
      BY <1>2, <1>3, <1>5, <1>6, <3>1 DEF LoginOk
  <2>3. InStep'
    BY <1>2, <1>3, <1>6, <2>2, SpliceKeeps DEF User
  <2>4. OneNow(1, encode(v, {}))
    <3>1. Splice(1, w) /\ 1 \in 0..7
      BY <1>6 DEF User
    <3>2. /\ Part(text_', ofs', 1) = w
          /\ \A m \in 0..7 : m # 1 => Part(text_', ofs', m) = Part(text_, ofs, m)
      BY <1>2, <1>3, <3>1, SpliceParts
    <3>3. QED
      BY <1>1, <3>2 DEF OneNow
  <2>5. QED
    BY <1>6, <2>3, <2>4
<1>7. CASE /\ v # <<>> /\ ~Has(User)
           /\ text_' = SubSeq(text_, 1, ofs[1]) \o w \o <<"@">> \o SubSeq(text_, ofs[2] + 1, Len(text_))
           /\ ofs' = [k \in 1..7 |-> ofs[k] + (IF k >= 3 THEN Len(w) + 1 ELSE IF k = 2 THEN Len(w) ELSE 0)]
  <2>1. PICK n \in Nat, L \in Nat : n = Size(w) /\ L = Size(text_) /\ n > 0 /\ Len(w) = n /\ Len(text_) = L
    <3>1. Size(text_) \in Nat
      BY <1>3, OfsAre
    <3>2. Size(w) \in Nat /\ Size(w) > 0
      BY <1>5, <1>7
    <3>3. QED
      BY <3>1, <3>2 DEF Size
  <2>2. /\ ofs \in [1..7 -> Nat] /\ text_ \in Texts(Units)
        /\ \A k, l \in 1..7 : k <= l => ofs[k] <= ofs[l]
        /\ \A k \in 1..7 : ofs[k] <= L
    BY <1>3, <2>1, OfsAre
  <2>3. ofs[1] = ofs[2] /\ ofs[2] = ofs[3]
    <3>1. PICK u, p : u = Part(text_, ofs, 1) /\ p = Part(text_, ofs, 2)
      OBVIOUS
    <3>2. Size(u) = ofs[2] - ofs[1] /\ Size(p) = ofs[3] - ofs[2]
      BY <1>3, <3>1, PartText DEF Start, End
    <3>3. ~(Size(u) > 0)
      BY <1>3, <1>7, <3>1, HasIs DEF User
    <3>4. Size(u) = 0
      <4>1. ofs[1] \in Nat /\ ofs[2] \in Nat /\ ofs[1] <= ofs[2]
        BY <2>2
      <4>2. QED
        BY ONLY <3>2, <3>3, <4>1
    <3>5. Size(p) = 0
      BY <1>3, <3>1, <3>4 DEF LoginOk
    <3>6. QED
      <4>1. ofs[1] \in Nat /\ ofs[2] \in Nat /\ ofs[3] \in Nat
        BY <2>2
      <4>2. QED
        BY ONLY <3>2, <3>4, <3>5, <4>1
  <2>4. PICK b \in Nat : b = ofs[1] /\ b = ofs[2] /\ b = ofs[3] /\ b <= L
    BY <2>2, <2>3
  <2>5. PICK x, y, z, c : /\ x = Piece(text_, 0, b) /\ y = <<"@">> /\ z = Piece(text_, b, L) /\ c = Joined(w, y)
    OBVIOUS
  <2>6. y \in Texts(Units) /\ Size(y) = 1 /\ y[1] = "@"
    BY <2>5, OneUnit, UnitSets
  <2>7. x \in Texts(Units)
    <3>1. 0 \in Nat /\ 0 <= b /\ b <= Size(text_)
      BY <2>1, <2>4
    <3>2. QED
      BY <2>2, <2>5, <3>1, PieceAt
  <2>8. x = SubSeq(text_, 1, ofs[1]) /\ z = SubSeq(text_, ofs[2] + 1, Len(text_))
    BY <2>1, <2>4, <2>5 DEF Piece
  <2>9. (x \o w) \o y = x \o (w \o y)
    <3>1. Joined(Joined(x, w), y) = Joined(x, Joined(w, y))
      BY <1>2, <2>6, <2>7, JoinedJoined
    <3>2. QED
      BY ONLY <3>1 DEF Joined
  <2>10. text_' = Joined(Joined(x, c), z)
    BY <1>7, <2>5, <2>8, <2>9 DEF Joined
  <2>11. c \in Texts(Units) /\ Size(c) = n + 1 /\ Copied(w, 0, n, c, 0) /\ Copied(y, 0, 1, c, n)
    BY <1>2, <2>1, <2>5, <2>6, JoinedCopies
  <2>12. Moved(ofs, ofs', 1, 2, b, b, n + 1) /\ ofs'[2] = ofs[1] + n
    <3>1. PICK o, r : o = ofs /\ r = ofs'
      OBVIOUS
    <3>2. o \in [1..7 -> Nat] /\ o[1] = b /\ o[2] = b
      BY <2>2, <2>4, <3>1
    <3>3. r = [k \in 1..7 |-> o[k] + (IF k >= 3 THEN n + 1 ELSE IF k = 2 THEN n ELSE 0)]
      BY <1>7, <2>1, <3>1
    <3>4. Moved(o, r, 1, 2, b, b, n + 1) /\ r[2] = o[1] + n
      <4>1. r \in [1..7 -> Int]
        <5>1. ASSUME NEW k \in 1..7
              PROVE  o[k] + (IF k >= 3 THEN n + 1 ELSE IF k = 2 THEN n ELSE 0) \in Int
          <6>1. o[k] \in Nat
            BY <3>2
          <6>2. QED
            BY ONLY <6>1, n \in Nat
        <5>2. QED
          BY ONLY <3>3, <5>1
      <4>2. r[1] = o[1] /\ r[2] = b + n
        BY ONLY b \in Nat, n \in Nat, <3>2, <3>3
      <4>3. \A k \in 1..7 : k > 2 => r[k] = o[k] + (n + 1) - (b - b)
        BY ONLY b \in Nat, n \in Nat, <3>2, <3>3
      <4>4. \A k \in 1..7 : k <= 1 => r[k] = o[k]
        BY ONLY <4>2
      <4>5. \A k \in 1..7 : k > 1 /\ k <= 2 => b <= r[k] /\ r[k] <= b + (n + 1)
        BY ONLY b \in Nat, n \in Nat, <4>2
      <4>6. \A k, l \in 1..7 : k > 1 /\ k <= l /\ l <= 2 => r[k] <= r[l]
        BY ONLY b \in Nat, n \in Nat, <4>2
      <4>7. QED
        BY <3>2, <4>1, <4>2, <4>3, <4>4, <4>5, <4>6 DEF Moved
    <3>5. QED
      BY <3>1, <3>4
  <2>13. Replaced(text_, ofs, text_', ofs', 1, 2, c)
    <3>1. Start(ofs, 1) = b /\ End(text_, ofs, 2) = b
      BY <2>4 DEF Start, End
    <3>2. QED
      BY <2>1, <2>5, <2>10, <2>11, <2>12, <3>1 DEF Replaced
  <2>14. Piece(c, 0, n) = w
    <3>1. Piece(c, 0, n) = Piece(w, 0, n)
      <4>1. 0 \in Nat /\ 0 <= n /\ n <= Size(w) /\ n - 0 = n - 0 /\ n <= Size(c)
        BY <2>1, <2>11
      <4>2. QED
        BY <1>2, <2>11, <4>1, SamePart
    <3>2. QED
      BY <1>2, <2>1, <3>1, WholePiece
  <2>15. Piece(c, n, Size(c)) = y
    <3>1. Piece(c, n, n + 1) = Piece(y, 0, 1)
      <4>1. 0 \in Nat /\ 1 \in Nat /\ 0 <= 1 /\ 1 <= Size(y) /\ (n + 1) - n = 1 - 0 /\ n + 1 <= Size(c) /\ n + 1 \in Nat
        BY <2>6, <2>11
      <4>2. QED
        BY <2>6, <2>11, <4>1, SamePart
    <3>2. QED
      BY <2>6, <2>11, <3>1, WholePiece
  <2>16. PassOk(y)
    BY <2>6 DEF PassOk
  <2>17. LoginOk(w, y)
    BY <1>2, <2>1, <2>6, <2>16 DEF LoginOk
  <2>18. n <= Size(c) /\ ofs'[2] = ofs[1] + n
    BY <2>11, <2>12
  <2>19. InStep' /\ LoginNow(w, y)
    BY <1>3, <2>11, <2>13, <2>14, <2>15, <2>17, <2>18, LoginKeeps
  <2>20. Part(text_, ofs, 2) = <<>>
    <3>1. PICK p : p = Part(text_, ofs, 2)
      OBVIOUS
    <3>2. p \in Texts(Units) /\ Size(p) = ofs[3] - ofs[2]
      BY <1>3, <3>1, PartText DEF Start, End
    <3>3. Size(p) = b - b
      BY <2>4, <3>2
    <3>4. Size(p) = 0
      BY ONLY <3>3, b \in Nat
    <3>5. QED
      BY <3>1, <3>2, <3>4, EmptyText
  <2>21. QED
    BY <1>1, <1>7, <2>5, <2>19, <2>20
<1>8. QED
  BY <1>1, <1>4, <1>6, <1>7 DEF set_user, User, Password, Host

\* The setters of one part keep the text in step.
LEMMA SetOneStep ==
    ASSUME InStep,
           \/ \E v \in Seq(Plain \cup Delimiters) : set_password(v) \/ set_host(v) \/ set_path(v) \/ set_fragment(v)
           \/ \E v \in Seq(Numbers) : set_port(v)
           \/ \E v \in Seq(Units) : set_query(v)
    PROVE  InStep'
<1>0. text_ # <<>>
  BY DEF set_password, set_host, set_path, set_fragment, set_port, set_query
<1>1. CASE clear_password
  BY <1>1, ClearPasswordStep
<1>2. CASE clear_host \/ clear_port \/ clear_path \/ clear_query \/ clear_fragment
  BY <1>2, ClearStep
<1>3. ASSUME NEW v \in Seq(Plain \cup Delimiters), Has(User), Splice(Password, <<":">> \o encode(v, {}) \o <<"@">>)
      PROVE  InStep'
  <2>1. PICK t : t = <<":">> \o encode(v, {}) \o <<"@">>
    OBVIOUS
  <2>2. t \in Texts(Units) /\ PassOk(t) /\ Size(t) > 0
    BY <2>1, PasswordText
  <2>3. PICK u : u = Part(text_, ofs, 1)
    OBVIOUS
  <2>4. Size(u) > 0 /\ NameOk(u)
    BY <1>3, <2>3, HasIs DEF InStep, Elems, LoginOk, User
  <2>5. Size(u) # 0 /\ Size(t) # 0
    BY <2>2, <2>4
  <2>6. LoginOk(u, t)
    BY <2>2, <2>4, <2>5 DEF LoginOk
  <2>7. QED
    BY <1>0, <1>3, <2>1, <2>2, <2>3, <2>6, SpliceKeeps DEF Password
<1>4. ASSUME NEW v \in Seq(Plain \cup Delimiters), Splice(Host, encode(v, {}))
      PROVE  InStep'
  <2>1. encode(v, {}) \in Texts(Units) /\ NameOk(encode(v, {}))
    BY EncodedName
  <2>2. QED
    BY <1>0, <1>4, <2>1, SpliceKeeps DEF Host
<1>5. ASSUME NEW v \in Seq(Numbers), v # <<>>, Splice(Port, <<":">> \o v)
      PROVE  InStep'
  <2>1. v \in Texts(Units) /\ \A k \in 1 .. Size(v) : v[k] \in Numbers
    <3>1. Numbers \subseteq Units
      BY UnitSets, UnitsAre
    <3>2. \A k \in 1 .. Len(v) : v[k] \in Numbers
      OBVIOUS
    <3>3. v \in Seq(Units)
      BY <3>1
    <3>4. QED
      BY <3>2, <3>3 DEF Texts, Size
  <2>2. PICK t : t = Joined(<<":">>, v)
    OBVIOUS
  <2>3. t \in Texts(Units) /\ Opens(t, ":", Numbers) /\ Size(v) \in Nat /\ Size(t) = 1 + Size(v)
    BY <2>1, <2>2, PrefixedOpens, Prefixed, UnitSets
  <2>4. Size(v) # 0
    BY <1>5, <2>1, EmptyText
  <2>5. PortOk(t)
    BY <2>3, <2>4 DEF PortOk
  <2>6. Splice(4, t)
    BY <1>5, <2>2 DEF Joined, Port
  <2>7. QED
    BY <1>0, <2>3, <2>5, <2>6, SpliceKeeps
<1>6. ASSUME NEW v \in Seq(Plain \cup Delimiters), v # <<>>, Splice(Path, PathText(v))
      PROVE  InStep'
  <2>1. PathText(v) \in Texts(Units) /\ Opens(PathText(v), "/", PathUnits)
    BY <1>6, PathTextIs
  <2>2. QED
    BY <1>0, <1>6, <2>1, SpliceKeeps DEF Path
<1>7. ASSUME NEW v \in Seq(Units), Splice(Query, <<"?">> \o v)
      PROVE  InStep'
  <2>1. v \in Texts(Units) /\ \A k \in 1 .. Size(v) : v[k] \in Units
    BY DEF Texts, Size
  <2>2. PICK t : t = Joined(<<"?">>, v)
    OBVIOUS
  <2>3. t \in Texts(Units) /\ Opens(t, "?", Units)
    BY <2>1, <2>2, PrefixedOpens, UnitSets
  <2>4. Splice(6, t)
    BY <1>7, <2>2 DEF Joined, Query
  <2>5. QED
    BY <1>0, <2>3, <2>4, SpliceKeeps
<1>8. ASSUME NEW v \in Seq(Plain \cup Delimiters), Splice(Fragment, <<"#">> \o encode(v, {}))
      PROVE  InStep'
  <2>1. PICK w : w = encode(v, {})
    OBVIOUS
  <2>2. w \in Texts(Units) /\ \A k \in 1 .. Size(w) : w[k] \in Units
    <3>1. w \in Texts(Units)
      BY <2>1, EncodedName
    <3>2. QED
      BY <3>1 DEF Texts, Size
  <2>3. PICK t : t = Joined(<<"#">>, w)
    OBVIOUS
  <2>4. t \in Texts(Units) /\ Opens(t, "#", Units)
    BY <2>2, <2>3, PrefixedOpens, UnitSets
  <2>5. Splice(7, t)
    BY <1>8, <2>1, <2>3 DEF Joined, Fragment
  <2>6. QED
    BY <1>0, <2>4, <2>5, SpliceKeeps
<1>9. QED
  BY <1>1, <1>2, <1>3, <1>4, <1>5, <1>6, <1>7, <1>8
     DEF set_password, set_host, set_path, set_fragment, set_port, set_query

\* append_path() puts its text behind the path, with a slash between when the path ends in none.
LEMMA AppendStep ==
    ASSUME InStep, NEW v \in Seq(Plain \cup Delimiters), append_path(v)
    PROVE  InStep'
<1>1. PICK p, w : p = Part(text_, ofs, 5) /\ w = encode(v, {":", "/"})
  OBVIOUS
<1>2. text_ # <<>> /\ p \in Texts(Units) /\ Opens(p, "/", PathUnits)
  <2>1. InOrder(text_, ofs) /\ Opens(Part(text_, ofs, 5), "/", PathUnits)
    BY DEF InStep, Elems
  <2>2. QED
    BY <1>1, <2>1, PartText DEF append_path
<1>3. CASE set_path(v)
  BY <1>3, SetOneStep
<1>4. CASE Has(Path) /\ Splice(Path, p \o (IF p[Len(p)] = "/" THEN w ELSE <<"/">> \o w))
  <2>1. Size(p) > 0
    <3>1. Size(p) > 1 /\ Size(p) \in Nat
      BY <1>1, <1>2, <1>4, HasIs, EmptyText DEF Path
    <3>2. QED
      BY <3>1
  <2>2. w \in Texts(Units) /\ \A k \in 1 .. Size(w) : w[k] \in PathUnits
    <3>1. {":", "/"} \in SUBSET Delimiters
      BY DEF Delimiters
    <3>2. QED
      BY <1>1, <3>1, EncodeAt, UnitSets
  <2>3. PICK x : x \in {w, Joined(<<"/">>, w)} /\ Splice(5, Joined(p, x))
    BY <1>4 DEF Joined, Path
  <2>4. x \in Texts(Units) /\ \A k \in 1 .. Size(x) : x[k] \in PathUnits
    <3>1. CASE x = w
      BY <2>2, <3>1
    <3>2. CASE x = Joined(<<"/">>, w)
      <4>1. x \in Texts(Units) /\ Opens(x, "/", PathUnits)
        BY <2>2, <3>2, PrefixedOpens, UnitSets
      <4>2. Size(x) \in Nat
        BY <4>1, EmptyText
      <4>3. ASSUME NEW k \in 1 .. Size(x) PROVE x[k] \in PathUnits
        <5>1. Size(x) > 0 /\ (k = 1 \/ k \in 2 .. Size(x))
          BY <4>2, <4>3
        <5>2. QED
          BY <4>1, <5>1, UnitSets DEF Opens
      <4>4. QED
        BY <4>1, <4>3
    <3>3. QED
      BY <2>3, <3>1, <3>2
  <2>5. Joined(p, x) \in Texts(Units) /\ Opens(Joined(p, x), "/", PathUnits)
    BY <1>2, <2>1, <2>4, LongerPath
  <2>6. QED
    BY <1>2, <2>3, <2>5, SpliceKeeps
<1>5. QED
  BY <1>1, <1>3, <1>4 DEF append_path, Path

-----------------------------------------------------------------------------
(* The related URIs                                                        *)

\* A set of numbers has a least one, and with a bound a greatest one.
LEMMA Least ==
    ASSUME NEW S, S \subseteq Nat, S # {}
    PROVE  \E x \in S : \A y \in S : x <= y
<1> DEFINE R == {p \in Nat \X Nat : p[1] < p[2]}
<1>1. IsWellFoundedOn(R, Nat)
  BY NatLessThanWellFounded DEF OpToRel
<1>2. PICK x \in S : \A y \in S : <<y, x>> \notin R
  <2> HIDE DEF R
  <2> QED
    BY <1>1, WFMin
<1>3. ASSUME NEW y \in S PROVE x <= y
  <2>1. <<y, x>> \in Nat \X Nat /\ <<y, x>>[1] = y /\ <<y, x>>[2] = x
    OBVIOUS
  <2>2. ~(y < x)
    BY <1>2, <2>1
  <2>3. QED
    BY <2>2
<1>4. QED
  BY <1>3

\* A set of numbers below n has a greatest.
LEMMA Greatest ==
    ASSUME NEW S, S # {}, NEW n \in Nat, \A x \in S : x \in Nat /\ x <= n
    PROVE  \E x \in S : \A y \in S : y <= x
<1>1. PICK T : T = {n - x : x \in S}
  OBVIOUS
<1>2. T \subseteq Nat /\ T # {}
  BY <1>1
<1>3. PICK z \in T : \A y \in T : z <= y
  BY <1>2, Least
<1>4. PICK x \in S : z = n - x
  BY <1>1, <1>3
<1>5. ASSUME NEW y \in S PROVE y <= x
  <2>1. n - y \in T
    BY <1>1
  <2>2. n - x <= n - y /\ x \in Nat /\ y \in Nat
    BY <1>3, <1>4, <2>1
  <2>3. QED
    BY <2>2
<1>6. QED
  BY <1>5

\* Two pieces that meet make one.
LEMMA JoinedPieces ==
    ASSUME NEW s \in Texts(Units), NEW b \in Nat, NEW n \in Nat, b <= n, n <= Size(s)
    PROVE  Joined(Piece(s, 0, b), Piece(s, b, n)) = Piece(s, 0, n)
<1>0. Size(s) \in Nat /\ 0 \in Nat /\ 0 <= b /\ b <= Size(s) /\ 0 <= n
  BY EmptyText
<1>1. PICK u : u = Piece(s, 0, b)
  OBVIOUS
<1>2. u \in Texts(Units) /\ Size(u) = b - 0 /\ \A k \in 1 .. (b - 0), m \in Int : m = 0 + k => u[k] = s[m]
  BY <1>0, <1>1, PieceAt
<1>3. PICK v : v = Piece(s, b, n)
  OBVIOUS
<1>4. v \in Texts(Units) /\ Size(v) = n - b /\ \A k \in 1 .. (n - b), m \in Int : m = b + k => v[k] = s[m]
  BY <1>0, <1>3, PieceAt
<1>5. PICK w : w = Piece(s, 0, n)
  OBVIOUS
<1>6. w \in Texts(Units) /\ Size(w) = n - 0 /\ \A k \in 1 .. (n - 0), m \in Int : m = 0 + k => w[k] = s[m]
  BY <1>0, <1>5, PieceAt
<1>7. PICK c \in Nat : c = n - b
  OBVIOUS
<1>8. PICK t : t = Joined(u, v)
  OBVIOUS
<1>9. t \in Texts(Units) /\ Size(t) = b + c /\ Copied(u, 0, b, t, 0) /\ Copied(v, 0, c, t, b)
  BY <1>2, <1>4, <1>7, <1>8, JoinedCopies
<1>10. ASSUME NEW k \in 1 .. n PROVE t[k] = w[k]
  <2>1. w[k] = s[k]
    BY <1>6
  <2>2. CASE k <= b
    <3>1. t[k] = u[k] /\ u[k] = s[k]
      BY <1>2, <1>9, <2>2 DEF Copied
    <3>2. QED
      BY <2>1, <3>1
  <2>3. CASE k > b
    <3>1. k - b \in (0 + 1) .. c /\ k = b + ((k - b) - 0) /\ k - b \in 1 .. (n - b) /\ k = b + (k - b)
      BY <1>7, <2>3
    <3>2. t[k] = v[k - b]
      BY <1>9, <3>1 DEF Copied
    <3>3. v[k - b] = s[k]
      BY <1>4, <3>1
    <3>4. QED
      BY <2>1, <3>2, <3>3
  <2>4. QED
    BY <2>2, <2>3
<1>11. Size(t) = n /\ Size(w) = n
  BY <1>6, <1>7, <1>9
<1>12. t = w
  BY <1>6, <1>9, <1>10, <1>11, SameText
<1>13. QED
  BY <1>1, <1>3, <1>5, <1>8, <1>12

\* The text ends with a new part i.
LEMMA TailKeeps ==
    ASSUME InStep, text_ # <<>>, NEW i \in {5, 6, 7}, NEW new \in Texts(Units), NEW b, b = ofs[i],
           text_' = Joined(Piece(text_, 0, b), new),
           ofs' = [k \in 1..7 |-> IF k > i THEN b + Size(new) ELSE ofs[k]],
           i = 5 => Opens(new, "/", PathUnits),
           i = 6 => Opens(new, "?", Units),
           i = 7 => Opens(new, "#", Units)
    PROVE  InStep' /\ TailNow(i, new)
<1>1. InOrder(text_, ofs) /\ Elems(text_, ofs) /\ SchemeOk(Part(text_, ofs, 0))
  BY DEF InStep
<1>2. PICK s, o, t, r, L, n : /\ s = text_ /\ o = ofs /\ t = text_' /\ r = ofs' /\ L = Size(s) /\ n = Size(new)
  OBVIOUS
<1>3. /\ o \in [1..7 -> Nat] /\ L \in Nat /\ s \in Texts(Units)
      /\ \A k, l \in 1..7 : k <= l => o[k] <= o[l]
      /\ \A k \in 1..7 : o[k] <= L
  BY <1>1, <1>2, OfsAre
<1>4. b \in Nat /\ b <= L /\ n \in Nat /\ b = o[i] /\ Start(o, i) = b /\ End(s, o, 7) = L
  <2>1. b \in Nat /\ b <= L /\ b = o[i]
    <3>1. i \in 1..7 /\ b = o[i]
      BY <1>2
    <3>2. QED
      BY ONLY <1>3, <3>1
  <2>2. n \in Nat
    BY <1>2, EmptyText
  <2>3. Start(o, i) = b /\ End(s, o, 7) = L
    BY <1>2, <2>1 DEF Start, End, Size
  <2>4. QED
    BY <2>1, <2>2, <2>3
<1>5. PICK x : x = Joined(Piece(s, 0, b), new)
  OBVIOUS
<1>6. x \in Seq(Units)
  <2>1. 0 \in Nat /\ 0 <= b
    BY <1>4
  <2>2. Piece(s, 0, b) \in Texts(Units)
    <3>1. b <= Size(s)
      BY <1>2, <1>4
    <3>2. QED
      BY ONLY <1>3, <1>4, <2>1, <3>1, PieceAt
  <2>3. QED
    BY <1>5, <2>2, JoinedAt DEF Texts
<1>7. Piece(s, L, L) = <<>>
  <2>1. PICK p : p = Piece(s, L, L)
    OBVIOUS
  <2>2. L \in Nat /\ L <= L /\ L <= Size(s)
    BY <1>2, <1>3
  <2>3. p \in Texts(Units) /\ Size(p) = L - L
    BY <1>3, <2>1, <2>2, PieceAt
  <2>4. Size(p) = 0
    BY <1>3, <2>3
  <2>5. QED
    BY <2>1, <2>3, <2>4, EmptyText
<1>8. t = Joined(x, Piece(s, L, L))
  <2>1. x \o <<>> = x
    BY <1>6, ConcatEmptySeq
  <2>2. QED
    BY <1>2, <1>5, <1>7, <2>1 DEF Joined
<1>9. r = [k \in 1..7 |-> IF k > i THEN b + n ELSE o[k]]
  BY <1>2
<1>10. Moved(o, r, i, 7, b, L, n)
  <2>1. ASSUME NEW k \in 1..7 PROVE r[k] \in Int
    <3>1. r[k] = IF k > i THEN b + n ELSE o[k]
      BY <1>9
    <3>2. o[k] \in Int /\ b + n \in Int
      <4>1. o[k] \in Nat
        BY ONLY <1>3, k \in 1..7
      <4>2. b \in Nat /\ n \in Nat
        BY <1>4
      <4>3. QED
        BY ONLY <4>1, <4>2
    <3>3. CASE k > i
      BY <3>1, <3>2, <3>3
    <3>4. CASE ~(k > i)
      BY <3>1, <3>2, <3>4
    <3>5. QED
      BY <3>3, <3>4
  <2>2. r \in [1..7 -> Int]
    BY <1>9, <2>1
  <2>3. \A k \in 1..7 : r[k] = IF k > i THEN b + n ELSE o[k]
    BY <1>9
  <2>4. \A k \in 1..7 : k > i => r[k] = b + n
    BY <2>3
  <2>5. \A k \in 1..7 : k > i /\ k <= 7 => b <= r[k] /\ r[k] <= b + n
    <3>1. b <= b + n /\ b + n <= b + n
      BY <1>4
    <3>2. QED
      BY <2>4, <3>1
  <2>6. \A k, l \in 1..7 : k > i /\ k <= l /\ l <= 7 => r[k] <= r[l]
    <3>1. ASSUME NEW k \in 1..7, NEW l \in 1..7, k > i, k <= l PROVE r[k] <= r[l]
      <4>1. l > i /\ b + n <= b + n
        BY <1>4, <3>1
      <4>2. r[k] = b + n /\ r[l] = b + n
        BY <2>4, <3>1, <4>1
      <4>3. QED
        BY <4>1, <4>2
    <3>2. QED
      BY <3>1
  <2>7. \A k \in 1..7 : k <= i => r[k] = o[k]
    BY <2>3
  <2>8. \A k \in 1..7 : ~(k > 7)
    OBVIOUS
  <2>9. QED
    BY ONLY <2>2, <2>5, <2>6, <2>7, <2>8 DEF Moved
<1>11. Replaced(s, o, t, r, i, 7, new)
  BY <1>2, <1>4, <1>5, <1>8, <1>10 DEF Replaced
<1>12. i \in 0..7 /\ 7 \in 0..7 /\ i <= 7 /\ i <= i
  OBVIOUS
<1>13. InOrder(t, r)
  <2>1. PICK b1, e1, n1, L1 : Carried(s, o, t, r, i, 7, new, b1, e1, n1, L1)
    BY <1>1, <1>2, <1>11, <1>12, ReplacedOrder
  <2>2. QED
    BY <2>1 DEF Carried
<1>14. \A m \in 0..7 : m < i => Part(t, r, m) = Part(s, o, m)
  BY <1>1, <1>2, <1>11, <1>12, OtherParts
<1>15. ASSUME NEW m \in 5..7, i <= m PROVE Part(t, r, m) = IF m = i THEN new ELSE <<>>
  <2>1. m \in 0..7 /\ m <= 7
    OBVIOUS
  <2>2. PICK c : Within(o, t, r, i, 7, new, m, c)
    BY <1>1, <1>2, <1>11, <1>12, <1>15, <2>1, NewParts
  <2>3. /\ c = b /\ Part(t, r, m) = Piece(new, Start(r, m) - b, End(t, r, m) - b)
        /\ m = 7 => End(t, r, m) = b + n
        /\ m = i => Start(r, m) = b
    BY <1>2, <1>4, <2>2 DEF Within
  <2>4. End(t, r, m) = b + n
    <3>1. CASE m = 7
      BY <2>3, <3>1
    <3>2. CASE m # 7
      <4>1. m + 1 \in 1..7 /\ m + 1 > i /\ End(t, r, m) = r[m + 1]
        BY <1>15, <3>2 DEF End
      <4>2. QED
        BY <1>9, <4>1
    <3>3. QED
      BY <3>1, <3>2
  <2>5. CASE m = i
    <3>1. Start(r, m) - b = 0 /\ End(t, r, m) - b = n
      BY <1>4, <2>3, <2>4, <2>5
    <3>2. QED
      BY <1>2, <2>3, <2>5, <3>1, WholePiece
  <2>6. CASE m # i
    <3>1. Start(r, m) = b + n
      BY <1>9, <1>15, <2>6 DEF Start
    <3>2. Start(r, m) - b = n /\ End(t, r, m) - b = n
      BY <1>4, <2>4, <3>1
    <3>3. PICK p : p = Piece(new, n, n)
      OBVIOUS
    <3>4. n \in Nat /\ n <= n /\ n <= Size(new)
      BY <1>2, <1>4
    <3>5. p \in Texts(Units) /\ Size(p) = n - n
      BY <3>3, <3>4, PieceAt
    <3>6. Size(p) = 0
      BY <1>4, <3>5
    <3>7. QED
      BY <2>3, <2>6, <3>2, <3>3, <3>5, <3>6, EmptyText
  <2>7. QED
    BY <2>5, <2>6
<1>16. Part(t, r, 0) = Part(s, o, 0) /\ \A m \in 1..4 : Part(t, r, m) = Part(s, o, m)
  BY <1>14
<1>17. \A m \in 5..7 : \/ m < i /\ Part(t, r, m) = Part(s, o, m)
                       \/ m = i /\ Part(t, r, m) = new
                       \/ Part(t, r, m) = <<>>
  BY <1>14, <1>15
<1>18. /\ Opens(Part(t, r, 5), "/", PathUnits)
       /\ Opens(Part(t, r, 6), "?", Units)
       /\ Opens(Part(t, r, 7), "#", Units)
  BY <1>1, <1>2, <1>17, NothingOk DEF Elems
<1>19. Elems(t, r) /\ SchemeOk(Part(t, r, 0))
  BY <1>1, <1>2, <1>16, <1>18 DEF Elems
<1>20. InStep'
  BY <1>2, <1>13, <1>19, Closing
<1>21. TailNow(i, new)
  <2>1. \A m \in 0..7 : m >= i => m \in 5..7 /\ i <= m
    OBVIOUS
  <2>2. QED
    BY <1>2, <1>14, <1>15, <2>1 DEF TailNow
<1>22. QED
  BY <1>20, <1>21

\* clear() leaves no text.
LEMMA ClearAllStep ==
    ASSUME InStep, clear
    PROVE  InStep'
<1>1. PICK s, o : s = text_' /\ o = ofs'
  OBVIOUS
<1>2. s = <<>> /\ o = [k \in 1..7 |-> 0]
  BY <1>1 DEF clear
<1>3. s \in Texts(Units) /\ Size(s) = 0
  BY <1>2, NoUnits
<1>4. InOrder(s, o)
  BY <1>2, <1>3 DEF InOrder, Ofs
<1>5. ASSUME NEW m \in 0..7 PROVE Part(s, o, m) = <<>>
  <2>1. PICK p : p = Part(s, o, m)
    OBVIOUS
  <2>2. p \in Texts(Units) /\ Size(p) = End(s, o, m) - Start(o, m)
    BY <1>4, <2>1, PartText
  <2>3. /\ Start(o, m) \in Nat /\ End(s, o, m) \in Nat
        /\ Start(o, m) <= End(s, o, m) /\ End(s, o, m) <= Size(s)
    BY <1>4, Between
  <2>4. Size(p) = 0
    BY <1>3, <2>2, <2>3
  <2>5. QED
    BY <2>1, <2>2, <2>4, EmptyText
<1>6. Elems(s, o)
  <2>1. PassOk(<<>>)
    BY NoUnits DEF PassOk
  <2>2. QED
    BY <1>5, <2>1, NothingOk DEF Elems, LoginOk
<1>7. QED
  BY <1>1, <1>2, <1>4, <1>6 DEF InStep

\* base() keeps the text before its query.
LEMMA BaseStep ==
    ASSUME InStep, text_ # <<>>, base
    PROVE  InStep' /\ TailNow(6, <<>>)
<1>1. /\ ofs \in [1..7 -> Nat] /\ text_ \in Texts(Units) /\ ofs[6] <= Size(text_)
  BY OfsAre DEF InStep
<1>2. text_' = SubSeq(text_, 1, ofs[6]) /\ ofs' = [k \in 1..7 |-> IF k >= 7 THEN ofs[6] ELSE ofs[k]]
  BY DEF base, Resize, Query, Fragment
<1>3. PICK b, u : b \in Nat /\ b = ofs[6] /\ u = Piece(text_, 0, b)
  BY <1>1
<1>4. text_' = u
  BY <1>2, <1>3 DEF Piece
<1>5. u \in Seq(Units)
  <2>1. 0 \in Nat /\ 0 <= b /\ b <= Size(text_)
    BY <1>1, <1>3
  <2>2. QED
    BY <1>1, <1>3, <2>1, PieceAt DEF Texts
<1>6. text_' = Joined(u, <<>>)
  <2>1. u \o <<>> = u
    BY <1>5, ConcatEmptySeq
  <2>2. QED
    BY <1>4, <2>1 DEF Joined
<1>7. ofs' = [k \in 1..7 |-> IF k > 6 THEN b + Size(<<>>) ELSE ofs[k]]
  <2>1. b + Size(<<>>) = b
    BY <1>3, NoUnits
  <2>2. QED
    BY <1>2, <1>3, <2>1
<1>8. QED
  BY <1>3, <1>6, <1>7, NothingOk, TailKeeps

\* doc() keeps the text before its fragment.
LEMMA DocStep ==
    ASSUME InStep, text_ # <<>>, doc
    PROVE  InStep' /\ TailNow(7, <<>>)
<1>1. /\ ofs \in [1..7 -> Nat] /\ text_ \in Texts(Units) /\ ofs[7] <= Size(text_)
  BY OfsAre DEF InStep
<1>2. text_' = SubSeq(text_, 1, ofs[7]) /\ ofs' = ofs
  BY DEF doc, Fragment
<1>3. PICK b, u : b \in Nat /\ b = ofs[7] /\ u = Piece(text_, 0, b)
  BY <1>1
<1>4. text_' = u
  BY <1>2, <1>3 DEF Piece
<1>5. u \in Seq(Units)
  <2>1. 0 \in Nat /\ 0 <= b /\ b <= Size(text_)
    BY <1>1, <1>3
  <2>2. QED
    BY <1>1, <1>3, <2>1, PieceAt DEF Texts
<1>6. text_' = Joined(u, <<>>)
  <2>1. u \o <<>> = u
    BY <1>5, ConcatEmptySeq
  <2>2. QED
    BY <1>4, <2>1 DEF Joined
<1>7. ofs' = [k \in 1..7 |-> IF k > 7 THEN b + Size(<<>>) ELSE ofs[k]]
  BY <1>1, <1>2
<1>8. QED
  BY <1>3, <1>6, <1>7, NothingOk, TailKeeps

\* root() keeps the text before its path, and a slash for a path that had one.
LEMMA RootStep ==
    ASSUME InStep, text_ # <<>>, root
    PROVE  /\ InStep'
           /\ \E new \in {<<>>, <<"/">>} : TailNow(5, new) /\ (new = <<>> <=> Part(text_, ofs, 5) = <<>>)
<1>1. /\ ofs \in [1..7 -> Nat] /\ text_ \in Texts(Units) /\ ofs[5] <= Size(text_)
  BY OfsAre DEF InStep
<1>2. PICK new : /\ new \in {<<>>, <<"/">>}
                 /\ new = <<>> <=> ~(ofs[6] > ofs[5])
                 /\ text_' = SubSeq(text_, 1, ofs[5]) \o new
                 /\ ofs' = [k \in 1..7 |-> IF k >= 6 THEN Len(text_') ELSE ofs[k]]
  BY DEF root, Query, Path
<1>3. new \in Texts(Units) /\ Opens(new, "/", PathUnits)
  <2>1. CASE new = <<>>
    BY <2>1, NothingOk
  <2>2. CASE new = <<"/">>
    <3>1. new \in Texts(Units) /\ Size(new) = 1 /\ new[1] = "/"
      BY <2>2, OneUnit, UnitSets
    <3>2. QED
      BY <3>1 DEF Opens
  <2>3. QED
    BY <1>2, <2>1, <2>2
<1>4. PICK b, u, t : b \in Nat /\ b = ofs[5] /\ u = Piece(text_, 0, b) /\ t = text_'
  BY <1>1
<1>5. t = Joined(u, new)
  BY <1>2, <1>4 DEF Piece, Joined
<1>6. u \in Texts(Units) /\ Size(u) = b
  <2>1. 0 \in Nat /\ 0 <= b /\ b <= Size(text_)
    BY <1>1, <1>4
  <2>2. u \in Texts(Units) /\ Size(u) = b - 0
    BY <1>1, <1>4, <2>1, PieceAt
  <2>3. QED
    BY <1>4, <2>2
<1>7. Size(t) = b + Size(new)
  BY <1>3, <1>5, <1>6, JoinedAt
<1>8. ofs' = [k \in 1..7 |-> IF k > 5 THEN b + Size(new) ELSE ofs[k]]
  <2>1. Len(text_') = b + Size(new)
    BY <1>4, <1>7 DEF Size
  <2>2. ofs' = [k \in 1..7 |-> IF k >= 6 THEN b + Size(new) ELSE ofs[k]]
    BY <1>2, <2>1
  <2>3. \A k \in 1..7 : k >= 6 <=> k > 5
    OBVIOUS
  <2>4. QED
    BY ONLY <2>2, <2>3
<1>9. InStep' /\ TailNow(5, new)
  BY <1>3, <1>4, <1>5, <1>8, TailKeeps
<1>10. Part(text_, ofs, 5) = <<>> <=> ~(ofs[6] > ofs[5])
  <2>1. PICK p : p = Part(text_, ofs, 5)
    OBVIOUS
  <2>2. p \in Texts(Units) /\ Size(p) = ofs[6] - ofs[5] /\ ofs[5] <= ofs[6]
    BY <2>1, PartText, OfsAre DEF InStep, Start, End
  <2>3. Size(p) = 0 <=> ~(ofs[6] > ofs[5])
    BY <1>1, <2>2
  <2>4. QED
    BY <2>1, <2>2, <2>3, EmptyText
<1>11. QED
  BY <1>2, <1>9, <1>10

\* A path cut behind the slash before its last element.
Upper(p, new) ==
    \E c \in 1 .. (Size(p) - 1) :
        /\ p[c] = "/" /\ \A m \in 1 .. (Size(p) - 1) : p[m] = "/" => m <= c
        /\ new = Piece(p, 0, c)

\* parent() keeps the text up to the slash before the last element of its path.
LEMMA ParentStep ==
    ASSUME InStep, text_ # <<>>, parent
    PROVE  /\ InStep'
           /\ \/ TailNow(6, <<>>)
              \/ \E new : TailNow(5, new) /\ Upper(Part(text_, ofs, 5), new)
<1>0. InOrder(text_, ofs) /\ Opens(Part(text_, ofs, 5), "/", PathUnits)
  BY DEF InStep, Elems
<1>1. /\ ofs \in [1..7 -> Nat] /\ text_ \in Texts(Units) /\ Size(text_) \in Nat
      /\ ofs[6] <= Size(text_) /\ ofs[5] <= ofs[6]
  BY <1>0, OfsAre
<1>2. CASE ~(ofs[6] - ofs[5] > 1)
  <2>1. base
    BY <1>2 DEF parent, Query, Path
  <2>2. QED
    BY <2>1, BaseStep
<1>3. CASE ofs[6] - ofs[5] > 1
  <2>1. PICK b \in Nat, e \in Nat : b = ofs[5] /\ e = ofs[6] /\ e - b > 1 /\ e <= Size(text_)
    BY <1>1, <1>3
  <2>2. PICK last \in Nat : last = e - (IF text_[e] = "/" THEN 1 ELSE 0) /\ last > b /\ last <= e
    BY <2>1
  <2>3. PICK slash : slash = {k \in (b + 1)..last : text_[k] = "/"}
    OBVIOUS
  <2>4. Resize(CHOOSE k \in slash : \A m \in slash : m <= k, 6)
    BY <1>3, <2>1, <2>2, <2>3 DEF parent, Query, Path
  <2>5. PICK p : p = Part(text_, ofs, 5)
    OBVIOUS
  <2>6. p \in Texts(Units) /\ Size(p) = e - b /\ p = Piece(text_, b, e) /\ Opens(p, "/", PathUnits)
    <3>1. Start(ofs, 5) = b /\ End(text_, ofs, 5) = e
      BY <2>1 DEF Start, End
    <3>2. QED
      BY <1>0, <2>5, <3>1, PartText, PartIs
  <2>7. \A k \in 1 .. (e - b), m \in Int : m = b + k => p[k] = text_[m]
    <3>1. b <= e /\ e <= Size(text_)
      BY <2>1
    <3>2. QED
      BY ONLY <1>1, <2>6, <3>1, b \in Nat, e \in Nat, PieceAt
  <2>8. b + 1 \in slash
    <3>1. p[1] = "/" /\ 1 \in 1 .. (e - b) /\ b + 1 \in Int
      BY <2>1, <2>6 DEF Opens
    <3>2. text_[b + 1] = "/"
      BY <2>7, <3>1
    <3>3. QED
      BY <2>2, <2>3, <3>2
  <2>9. PICK n \in slash : n = CHOOSE k \in slash : \A m \in slash : m <= k
    <3>1. \A x \in slash : x \in Nat /\ x <= last
      BY <2>2, <2>3
    <3>2. \E x \in slash : \A y \in slash : y <= x
      BY <2>2, <2>8, <3>1, Greatest
    <3>3. QED
      BY <3>2
  <2>10. n \in Nat /\ b <= n /\ n <= e
    BY <2>2, <2>3, <2>9
  <2>11. text_' = SubSeq(text_, 1, n) /\ ofs' = [k \in 1..7 |-> IF k >= 6 THEN n ELSE ofs[k]]
    BY <2>4, <2>9 DEF Resize
  <2>12. PICK new : new = Piece(text_, b, n)
    OBVIOUS
  <2>13. new \in Texts(Units) /\ Size(new) = n - b /\ \A k \in 1 .. (n - b), m \in Int : m = b + k => new[k] = text_[m]
    <3>1. n <= Size(text_)
      <4>1. Size(text_) \in Nat /\ e <= Size(text_)
        BY <1>1, <2>1
      <4>2. QED
        BY ONLY <2>10, <4>1, e \in Nat
    <3>2. QED
      BY ONLY <1>1, <2>10, <2>12, <3>1, b \in Nat, PieceAt
  <2>14. \A k \in 1 .. (n - b) : new[k] = p[k]
    <3>1. ASSUME NEW k \in 1 .. (n - b) PROVE new[k] = p[k]
      <4>1. k \in 1 .. (e - b) /\ b + k \in Int
        BY <2>1, <2>10
      <4>2. QED
        BY <2>7, <2>13, <4>1
    <3>2. QED
      BY <3>1
  <2>15. Opens(new, "/", PathUnits)
    <3>1. ASSUME NEW k \in 2 .. Size(new) PROVE new[k] \in PathUnits
      <4>1. k \in 1 .. (n - b) /\ k \in 2 .. Size(p) /\ Size(p) > 0
        BY <2>6, <2>10, <2>13
      <4>2. QED
        BY <2>6, <2>14, <4>1 DEF Opens
    <3>2. Size(new) > 0 => new[1] = "/"
      <4>1. ASSUME Size(new) > 0 PROVE new[1] = "/"
        <5>1. 1 \in 1 .. (n - b) /\ Size(p) > 0
          BY <2>1, <2>6, <2>10, <2>13, <4>1
        <5>2. QED
          BY <2>6, <2>14, <5>1 DEF Opens
      <4>2. QED
        BY <4>1
    <3>3. QED
      BY <3>1, <3>2 DEF Opens
  <2>16. text_' = Joined(Piece(text_, 0, b), new)
    <3>1. n <= Size(text_)
      <4>1. Size(text_) \in Nat /\ e <= Size(text_)
        BY <1>1, <2>1
      <4>2. QED
        BY ONLY <2>10, <4>1, e \in Nat
    <3>2. Joined(Piece(text_, 0, b), new) = Piece(text_, 0, n)
      BY <1>1, <2>10, <2>12, <3>1, JoinedPieces
    <3>3. QED
      BY <2>11, <3>2 DEF Piece
  <2>17. ofs' = [k \in 1..7 |-> IF k > 5 THEN b + Size(new) ELSE ofs[k]]
    <3>1. b + Size(new) = n
      BY <2>10, <2>13
    <3>2. QED
      BY <2>11, <3>1
  <2>18. InStep' /\ TailNow(5, new)
    BY <2>1, <2>13, <2>15, <2>16, <2>17, TailKeeps
  <2>19. PICK c \in Nat : n = b + c /\ c > 0 /\ c < e - b
    <3>1. n > b /\ n <= last
      BY <2>3, <2>9
    <3>2. n < e
      <4>1. CASE text_[e] = "/"
        BY <2>2, <2>10, <3>1, <4>1
      <4>2. CASE text_[e] # "/"
        <5>1. text_[n] = "/"
          BY <2>3, <2>9
        <5>2. n # e
          BY ONLY <4>2, <5>1
        <5>3. QED
          BY <2>10, <5>2
      <4>3. QED
        BY <4>1, <4>2
    <3>3. n - b \in Nat /\ n = b + (n - b) /\ n - b > 0 /\ n - b < e - b
      BY <2>10, <3>1, <3>2
    <3>4. QED
      BY <3>3
  <2>20. p[c] = "/"
    <3>1. text_[n] = "/" /\ c \in 1 .. (e - b) /\ n \in Int
      BY <2>3, <2>9, <2>10, <2>19
    <3>2. QED
      BY <2>7, <2>19, <3>1
  <2>21. ASSUME NEW m \in 1 .. (e - b - 1), p[m] = "/" PROVE m <= c
    <3>1. b + m \in Int /\ m \in 1 .. (e - b)
      OBVIOUS
    <3>2. text_[b + m] = "/"
      BY <2>7, <2>21, <3>1
    <3>3. b + m \in slash
      <4>1. b + m >= b + 1 /\ b + m <= e - 1
        BY ONLY b \in Nat, e \in Nat, m \in 1 .. (e - b - 1)
      <4>2. b + m \in (b + 1) .. last
        BY <2>2, <4>1
      <4>3. QED
        BY <2>3, <3>2, <4>2
    <3>4. b + m <= n
      <4>1. \A x \in slash : x \in Nat /\ x <= last
        BY <2>2, <2>3
      <4>2. \E x \in slash : \A y \in slash : y <= x
        BY <2>2, <2>8, <4>1, Greatest
      <4>3. QED
        BY <2>9, <3>3, <4>2
    <3>5. QED
      BY <2>19, <3>4
  <2>22. new = Piece(p, 0, c)
    <3>1. PICK q : q = Piece(p, 0, c)
      OBVIOUS
    <3>2. 0 \in Nat /\ 0 <= c /\ c <= Size(p)
      BY <2>6, <2>19
    <3>3. q \in Texts(Units) /\ Size(q) = c - 0 /\ \A k \in 1 .. (c - 0), m \in Int : m = 0 + k => q[k] = p[m]
      BY <2>6, <3>1, <3>2, PieceAt
    <3>4. Size(q) = c /\ Size(new) = c
      BY <2>13, <2>19, <3>3
    <3>5. ASSUME NEW k \in 1 .. c PROVE new[k] = q[k]
      <4>1. k \in 1 .. (n - b) /\ k \in 1 .. (c - 0) /\ k \in Int /\ k = 0 + k
        BY <2>19
      <4>2. QED
        BY <2>14, <3>3, <4>1
    <3>6. QED
      BY <2>13, <3>1, <3>3, <3>4, <3>5, SameText
  <2>23. Upper(p, new)
    <3>1. c \in 1 .. (Size(p) - 1) /\ Size(p) - 1 = e - b - 1
      BY <2>6, <2>19
    <3>2. QED
      BY <2>20, <2>21, <2>22, <3>1 DEF Upper
  <2>24. QED
    BY <2>5, <2>18, <2>23
<1>4. QED
  BY <1>2, <1>3

-----------------------------------------------------------------------------
(* Parsing                                                                 *)

\* A matching of the expression, by the units at its offsets.
Layout(s, o) ==
    /\ o[1] \in {2, 4} /\ (o[1] = 4 => s[3] = "/" /\ s[4] = "/")
    /\ \A k \in (o[1] + 1) .. o[2] : s[k] \notin {"/", ":", "@"}
    /\ (o[1] = o[2]) = (o[2] = o[3])
    /\ o[2] < o[3] => s[o[3]] = "@" /\ \A k \in (o[2] + 1) .. (o[3] - 1) : s[k] \notin {"/", "@"}
    /\ o[2] + 1 < o[3] => s[o[2] + 1] = ":"
    /\ \A k \in (o[3] + 1) .. o[4] : s[k] \notin {"/", ":", "@"}
    /\ o[3] = o[4] => o[1] = o[2] /\ o[4] = o[5]
    /\ o[4] < o[5] => s[o[4] + 1] = ":" /\ \A k \in (o[4] + 2) .. o[5] : s[k] \notin {"/", ":", "@"}
    /\ o[5] < o[6] => s[o[5] + 1] = "/" /\ \A k \in (o[5] + 2) .. o[6] : s[k] \notin {"#", "?"}
    /\ o[6] < o[7] => s[o[6] + 1] = "?"
    /\ \A k \in (o[6] + 1) .. o[7] : s[k] # "#"
    /\ o[7] < Size(s) => s[o[7] + 1] = "#"

\* A unit of a part is a unit of the text, behind the part's start.
LEMMA UnitAt ==
    ASSUME NEW s, NEW o, InOrder(s, o), NEW m \in 0..7, NEW p, p = Part(s, o, m),
           NEW a, a = Start(o, m), NEW z, z = End(s, o, m)
    PROVE  /\ a \in Nat /\ z \in Nat /\ a <= z /\ z <= Size(s) /\ Size(p) = z - a
           /\ \A k \in 1 .. (z - a), l \in Int : l = a + k => p[k] = s[l]
<1>1. a \in Nat /\ z \in Nat /\ a <= z /\ z <= Size(s) /\ s \in Texts(Units)
  BY Between DEF InOrder
<1>2. p = Piece(s, a, z)
  BY PartIs
<1>3. /\ Piece(s, a, z) \in Texts(Units) /\ Size(Piece(s, a, z)) = z - a
      /\ \A k \in 1 .. (z - a), l \in Int : l = a + k => Piece(s, a, z)[k] = s[l]
  BY ONLY <1>1, PieceAt
<1>4. QED
  BY <1>1, <1>2, <1>3

\* The same from a unit of the text.
LEMMA PartOf ==
    ASSUME NEW s, NEW o, InOrder(s, o), NEW m \in 0..7, NEW p, p = Part(s, o, m),
           NEW a, a = Start(o, m), NEW z, z = End(s, o, m)
    PROVE  \A l \in (a + 1) .. z : l - a \in 1 .. Size(p) /\ s[l] = p[l - a]
<1>1. /\ a \in Nat /\ z \in Nat /\ a <= z /\ z <= Size(s) /\ Size(p) = z - a
      /\ \A k \in 1 .. (z - a), l \in Int : l = a + k => p[k] = s[l]
  BY UnitAt
<1>2. ASSUME NEW l \in (a + 1) .. z PROVE l - a \in 1 .. Size(p) /\ s[l] = p[l - a]
  <2>1. l - a \in 1 .. (z - a) /\ l = a + (l - a) /\ l \in Int
    BY <1>1
  <2>2. QED
    BY <1>1, <2>1
<1>3. QED
  BY <1>2

\* What a match of the pattern says of the text, unit by unit.
LEMMA LayoutOf ==
    ASSUME NEW s \in Texts(Units), NEW o, Matches(s, o)
    PROVE  InOrder(s, o) /\ Layout(s, o)
<1>1. InOrder(s, o) /\ SchemeOk(Part(s, o, 0)) /\ Elems(s, o)
  BY SlicedIs DEF Matches
<1>2. /\ o \in [1..7 -> Nat] /\ Size(s) \in Nat
      /\ \A k, l \in 1..7 : k <= l => o[k] <= o[l]
      /\ \A k \in 1..7 : o[k] <= Size(s)
  BY <1>1, EmptyText DEF InOrder, Ofs
<1>3. PICK L \in Nat : L = Size(s)
  BY <1>2
<1>4. /\ o[1] \in Nat /\ o[2] \in Nat /\ o[3] \in Nat /\ o[4] \in Nat /\ o[5] \in Nat /\ o[6] \in Nat /\ o[7] \in Nat
      /\ o[1] <= o[2] /\ o[2] <= o[3] /\ o[3] <= o[4] /\ o[4] <= o[5] /\ o[5] <= o[6] /\ o[6] <= o[7] /\ o[7] <= L
  BY <1>2, <1>3
<1>5. /\ Start(o, 0) = 0 /\ End(s, o, 0) = o[1] /\ Start(o, 1) = o[1] /\ End(s, o, 1) = o[2]
      /\ Start(o, 2) = o[2] /\ End(s, o, 2) = o[3] /\ Start(o, 3) = o[3] /\ End(s, o, 3) = o[4]
      /\ Start(o, 4) = o[4] /\ End(s, o, 4) = o[5] /\ Start(o, 5) = o[5] /\ End(s, o, 5) = o[6]
      /\ Start(o, 6) = o[6] /\ End(s, o, 6) = o[7] /\ Start(o, 7) = o[7] /\ End(s, o, 7) = L
  BY <1>3 DEF Start, End, Size
<1>6. o[1] \in {2, 4} /\ (o[1] = 4 => s[3] = "/" /\ s[4] = "/")
  <2>1. PICK p : p = Part(s, o, 0)
    OBVIOUS
  <2>2. Size(p) = o[1] - 0 /\ \A k \in 1 .. (o[1] - 0), l \in Int : l = 0 + k => p[k] = s[l]
    BY <1>1, <1>5, <2>1, UnitAt
  <2>3. Size(p) = o[1]
    BY <1>4, <2>2
  <2>4. o[1] \in {2, 4} /\ (o[1] = 4 => p[3] = "/" /\ p[4] = "/")
    BY <1>1, <2>1, <2>3 DEF SchemeOk
  <2>5. o[1] = 4 => p[3] = s[3] /\ p[4] = s[4]
    BY <2>2
  <2>6. QED
    BY <2>4, <2>5
<1>7. PICK u, p : u = Part(s, o, 1) /\ p = Part(s, o, 2)
  OBVIOUS
<1>8. Size(u) = o[2] - o[1] /\ Size(p) = o[3] - o[2] /\ LoginOk(u, p)
  BY <1>1, <1>5, <1>7, PartText DEF Elems
<1>9. (o[1] = o[2]) = (o[2] = o[3])
  <2>1. Size(u) = 0 <=> o[1] = o[2]
    BY <1>4, <1>8
  <2>2. Size(p) = 0 <=> o[2] = o[3]
    BY <1>4, <1>8
  <2>3. QED
    BY <1>8, <2>1, <2>2 DEF LoginOk
<1>10. \A k \in (o[1] + 1) .. o[2] : s[k] \notin {"/", ":", "@"}
  <2>1. \A l \in (o[1] + 1) .. o[2] : l - o[1] \in 1 .. Size(u) /\ s[l] = u[l - o[1]]
    BY <1>1, <1>5, <1>7, PartOf
  <2>2. QED
    BY <1>8, <2>1 DEF LoginOk, NameOk, NameUnits
<1>11. \A l \in (o[2] + 1) .. o[3] : l - o[2] \in 1 .. Size(p) /\ s[l] = p[l - o[2]]
  BY <1>1, <1>5, <1>7, PartOf
<1>12. o[2] < o[3] => s[o[3]] = "@" /\ \A k \in (o[2] + 1) .. (o[3] - 1) : s[k] \notin {"/", "@"}
  <2>1. ASSUME o[2] < o[3] PROVE s[o[3]] = "@"
    <3>1. o[3] \in (o[2] + 1) .. o[3] /\ o[3] - o[2] = Size(p) /\ Size(p) > 0
      BY <1>4, <1>8, <2>1
    <3>2. QED
      BY <1>8, <1>11, <3>1 DEF LoginOk, PassOk
  <2>2. ASSUME o[2] < o[3], NEW k \in (o[2] + 1) .. (o[3] - 1) PROVE s[k] \notin {"/", "@"}
    <3>1. k \in (o[2] + 1) .. o[3] /\ k - o[2] \in 1 .. (Size(p) - 1) /\ Size(p) > 0
      BY <1>4, <1>8, <2>2
    <3>2. QED
      BY <1>8, <1>11, <3>1 DEF LoginOk, PassOk
  <2>3. QED
    BY <2>1, <2>2
<1>13. o[2] + 1 < o[3] => s[o[2] + 1] = ":"
  <2>1. ASSUME o[2] + 1 < o[3] PROVE s[o[2] + 1] = ":"
    <3>1. o[2] + 1 \in (o[2] + 1) .. o[3] /\ (o[2] + 1) - o[2] = 1 /\ Size(p) > 0 /\ Size(p) > 1
      BY <1>4, <1>8, <2>1
    <3>2. QED
      BY <1>8, <1>11, <3>1 DEF LoginOk, PassOk
  <2>2. QED
    BY <2>1
<1>14. PICK h, t : h = Part(s, o, 3) /\ t = Part(s, o, 4)
  OBVIOUS
<1>15. Size(h) = o[4] - o[3] /\ Size(t) = o[5] - o[4] /\ NameOk(h) /\ PortOk(t)
  BY <1>1, <1>5, <1>14, PartText DEF Elems
<1>16. \A k \in (o[3] + 1) .. o[4] : s[k] \notin {"/", ":", "@"}
  <2>1. \A l \in (o[3] + 1) .. o[4] : l - o[3] \in 1 .. Size(h) /\ s[l] = h[l - o[3]]
    BY <1>1, <1>5, <1>14, PartOf
  <2>2. QED
    BY <1>15, <2>1 DEF NameOk, NameUnits
<1>17. o[3] = o[4] => o[1] = o[2] /\ o[4] = o[5]
  <2>1. ASSUME o[3] = o[4] PROVE o[1] = o[2] /\ o[4] = o[5]
    <3>1. Size(h) = 0
      BY <1>4, <1>15, <2>1
    <3>2. h \in Texts(Units) /\ u \in Texts(Units) /\ t \in Texts(Units)
      BY <1>1, <1>7, <1>14, PartText
    <3>3. h = <<>>
      BY <3>1, <3>2, EmptyText
    <3>4. u = <<>> /\ t = <<>>
      BY <1>7, <1>14, <3>3 DEF Matches, Host, User, Port
    <3>5. Size(u) = 0 /\ Size(t) = 0
      BY <3>4, NoUnits
    <3>6. o[2] - o[1] = 0 /\ o[5] - o[4] = 0
      BY <1>8, <1>15, <3>5
    <3>7. QED
      BY ONLY <1>4, <3>6
  <2>2. QED
    BY <2>1
<1>18. o[4] < o[5] => s[o[4] + 1] = ":" /\ \A k \in (o[4] + 2) .. o[5] : s[k] \notin {"/", ":", "@"}
  <2>1. \A l \in (o[4] + 1) .. o[5] : l - o[4] \in 1 .. Size(t) /\ s[l] = t[l - o[4]]
    BY <1>1, <1>5, <1>14, PartOf
  <2>2. ASSUME o[4] < o[5] PROVE s[o[4] + 1] = ":"
    <3>1. o[4] + 1 \in (o[4] + 1) .. o[5] /\ (o[4] + 1) - o[4] = 1 /\ Size(t) > 0
      BY <1>4, <1>15, <2>2
    <3>2. QED
      BY <1>15, <2>1, <3>1 DEF PortOk, Opens
  <2>3. ASSUME o[4] < o[5], NEW k \in (o[4] + 2) .. o[5] PROVE s[k] \notin {"/", ":", "@"}
    <3>1. k \in (o[4] + 1) .. o[5] /\ k - o[4] \in 2 .. Size(t) /\ Size(t) > 0
      BY <1>4, <1>15, <2>3
    <3>2. s[k] \in Numbers
      BY <1>15, <2>1, <3>1 DEF PortOk, Opens
    <3>3. QED
      BY <3>2, UnitSets DEF NameUnits
  <2>4. QED
    BY <2>2, <2>3
<1>19. o[5] < o[6] => s[o[5] + 1] = "/" /\ \A k \in (o[5] + 2) .. o[6] : s[k] \notin {"#", "?"}
  <2>1. PICK x : x = Part(s, o, 5)
    OBVIOUS
  <2>2. Size(x) = o[6] - o[5] /\ Opens(x, "/", PathUnits)
    BY <1>1, <1>5, <2>1, PartText DEF Elems
  <2>3. \A l \in (o[5] + 1) .. o[6] : l - o[5] \in 1 .. Size(x) /\ s[l] = x[l - o[5]]
    BY <1>1, <1>5, <2>1, PartOf
  <2>4. ASSUME o[5] < o[6] PROVE s[o[5] + 1] = "/"
    <3>1. o[5] + 1 \in (o[5] + 1) .. o[6] /\ (o[5] + 1) - o[5] = 1 /\ Size(x) > 0
      BY <1>4, <2>2, <2>4
    <3>2. QED
      BY <2>2, <2>3, <3>1 DEF Opens
  <2>5. ASSUME o[5] < o[6], NEW k \in (o[5] + 2) .. o[6] PROVE s[k] \notin {"#", "?"}
    <3>1. k \in (o[5] + 1) .. o[6] /\ k - o[5] \in 2 .. Size(x) /\ Size(x) > 0
      BY <1>4, <2>2, <2>5
    <3>2. QED
      BY <2>2, <2>3, <3>1 DEF Opens, PathUnits
  <2>6. QED
    BY <2>4, <2>5
<1>20. (o[6] < o[7] => s[o[6] + 1] = "?") /\ \A k \in (o[6] + 1) .. o[7] : s[k] # "#"
  <2>1. PICK x : x = Part(s, o, 6)
    OBVIOUS
  <2>2. Size(x) = o[7] - o[6] /\ Opens(x, "?", Units)
    BY <1>1, <1>5, <2>1, PartText DEF Elems
  <2>3. \A l \in (o[6] + 1) .. o[7] : l - o[6] \in 1 .. Size(x) /\ s[l] = x[l - o[6]]
    BY <1>1, <1>5, <2>1, PartOf
  <2>4. \A k \in 1 .. Size(x) : x[k] # "#"
    BY <2>1 DEF Matches, In, Query, Size
  <2>5. ASSUME o[6] < o[7] PROVE s[o[6] + 1] = "?"
    <3>1. o[6] + 1 \in (o[6] + 1) .. o[7] /\ (o[6] + 1) - o[6] = 1 /\ Size(x) > 0
      BY <1>4, <2>2, <2>5
    <3>2. QED
      BY <2>2, <2>3, <3>1 DEF Opens
  <2>6. QED
    BY <2>3, <2>4, <2>5
<1>21. o[7] < Size(s) => s[o[7] + 1] = "#"
  <2>1. PICK x : x = Part(s, o, 7)
    OBVIOUS
  <2>2. Size(x) = L - o[7] /\ Opens(x, "#", Units)
    BY <1>1, <1>5, <2>1, PartText DEF Elems
  <2>3. \A l \in (o[7] + 1) .. L : l - o[7] \in 1 .. Size(x) /\ s[l] = x[l - o[7]]
    BY <1>1, <1>5, <2>1, PartOf
  <2>4. ASSUME o[7] < L PROVE s[o[7] + 1] = "#"
    <3>1. o[7] + 1 \in (o[7] + 1) .. L /\ (o[7] + 1) - o[7] = 1 /\ Size(x) > 0
      BY <1>4, <2>2, <2>4
    <3>2. QED
      BY <2>2, <2>3, <3>1 DEF Opens
  <2>5. QED
    BY <1>3, <2>4
<1>22. QED
  BY <1>1, <1>6, <1>9, <1>10, <1>12, <1>13, <1>16, <1>17, <1>18, <1>19, <1>20, <1>21 DEF Layout

\* Before() is the first place where a unit of the set stands.
LEMMA BeforeIs ==
    ASSUME NEW s, NEW set, NEW a \in Nat, NEW z \in Nat, NEW x \in a .. z,
           \A k \in (a + 1) .. x : s[k] \notin set,
           x < z => s[x + 1] \in set
    PROVE  Before(s, set, a, z) = x
<1>1. PICK found : found = {k \in (a + 1) .. z : s[k] \in set}
  OBVIOUS
<1>2. Before(s, set, a, z) = IF found = {} THEN z ELSE (CHOOSE k \in found : \A m \in found : k <= m) - 1
  BY <1>1 DEF Before
<1>3. CASE x = z
  <2>1. found = {}
    BY <1>1, <1>3
  <2>2. QED
    BY <1>2, <1>3, <2>1
<1>4. CASE x < z
  <2>1. x + 1 \in found
    BY <1>1, <1>4
  <2>2. ASSUME NEW m \in found PROVE x + 1 <= m
    <3>1. m \in (a + 1) .. z /\ s[m] \in set
      BY <1>1
    <3>2. m \notin (a + 1) .. x
      BY <3>1
    <3>3. QED
      BY <3>1, <3>2
  <2>3. PICK c : c = CHOOSE k \in found : \A m \in found : k <= m
    OBVIOUS
  <2>4. c \in found /\ \A m \in found : c <= m
    BY <2>1, <2>2, <2>3
  <2>5. c <= x + 1 /\ x + 1 <= c /\ c \in Int
    BY <1>1, <2>1, <2>2, <2>4
  <2>6. c = x + 1
    BY <2>5
  <2>7. found # {} /\ (x + 1) - 1 = x
    BY <2>1
  <2>8. Before(s, set, a, z) = c - 1
    BY <1>2, <2>3, <2>7
  <2>9. QED
    BY <2>6, <2>7, <2>8
<1>5. QED
  BY <1>3, <1>4

\* The offsets of a matching follow from the first and the fifth, and those
\* cut the text into the same parts.
LEMMA CutIs ==
    ASSUME NEW s \in Texts(Units), NEW o, Matches(s, o)
    PROVE  o = Cut(s, o[1], o[5]) /\ o[1] \in {2, 4} \cap 0 .. Len(s) /\ o[5] \in 2 .. Len(s)
<1>1. InOrder(s, o) /\ Layout(s, o)
  BY LayoutOf
<1>2. PICK L \in Nat : L = Size(s) /\ L = Len(s)
  BY EmptyText DEF Size
<1>3. PICK o1 \in Nat, o2 \in Nat, o3 \in Nat, o4 \in Nat, o5 \in Nat, o6 \in Nat, o7 \in Nat :
        /\ o1 = o[1] /\ o2 = o[2] /\ o3 = o[3] /\ o4 = o[4] /\ o5 = o[5] /\ o6 = o[6] /\ o7 = o[7]
        /\ o1 <= o2 /\ o2 <= o3 /\ o3 <= o4 /\ o4 <= o5 /\ o5 <= o6 /\ o6 <= o7 /\ o7 <= L
  <2>1. /\ o \in [1..7 -> Nat]
        /\ \A k, l \in 1..7 : k <= l => o[k] <= o[l]
        /\ \A k \in 1..7 : o[k] <= L
    BY <1>1, <1>2 DEF InOrder, Ofs
  <2>2. /\ o[1] \in Nat /\ o[2] \in Nat /\ o[3] \in Nat /\ o[4] \in Nat
        /\ o[5] \in Nat /\ o[6] \in Nat /\ o[7] \in Nat
    BY <2>1
  <2>3. /\ o[1] <= o[2] /\ o[2] <= o[3] /\ o[3] <= o[4] /\ o[4] <= o[5]
        /\ o[5] <= o[6] /\ o[6] <= o[7] /\ o[7] <= L
    BY <2>1
  <2>4. QED
    BY <2>2, <2>3
<1>4. /\ o1 \in {2, 4}
      /\ \A k \in (o1 + 1) .. o2 : s[k] \notin {"/", ":", "@"}
      /\ o1 = o2 <=> o2 = o3
      /\ o2 < o3 => s[o3] = "@" /\ \A k \in (o2 + 1) .. (o3 - 1) : s[k] \notin {"/", "@"}
      /\ o2 + 1 < o3 => s[o2 + 1] = ":"
      /\ \A k \in (o3 + 1) .. o4 : s[k] \notin {"/", ":", "@"}
      /\ o4 < o5 => s[o4 + 1] = ":" /\ \A k \in (o4 + 2) .. o5 : s[k] \notin {"/", ":", "@"}
  BY <1>1, <1>3 DEF Layout
<1>5. /\ o5 < o6 => s[o5 + 1] = "/" /\ \A k \in (o5 + 2) .. o6 : s[k] \notin {"#", "?"}
      /\ o6 < o7 => s[o6 + 1] = "?"
      /\ \A k \in (o6 + 1) .. o7 : s[k] # "#"
      /\ o7 < L => s[o7 + 1] = "#"
  BY <1>1, <1>2, <1>3 DEF Layout
<1>6. \A k \in (o3 + 1) .. o5 : s[k] # "@"
  <2>1. ASSUME NEW k \in (o3 + 1) .. o5 PROVE s[k] # "@"
    <3>1. CASE k <= o4
      BY <1>4, <3>1
    <3>2. CASE k = o4 + 1
      <4>1. s[k] = ":"
        BY <1>4, <3>2
      <4>2. QED
        BY <4>1
    <3>3. CASE k > o4 + 1
      <4>1. k \in (o4 + 2) .. o5 /\ o4 < o5
        BY <3>3
      <4>2. QED
        BY <1>4, <4>1
    <3>4. QED
      BY <3>1, <3>2, <3>3
  <2>2. QED
    BY <2>1
<1>7. PICK at : at = LET k == Before(s, {"@"}, o1, o5) IN IF k = o5 THEN o1 ELSE k + 1
  OBVIOUS
<1>8. at = o3
  <2>1. CASE o2 = o3
    <3>1. o1 = o3
      BY <1>4, <2>1
    <3>2. \A k \in (o1 + 1) .. o5 : s[k] \notin {"@"}
      BY <1>6, <3>1
    <3>3. o5 \in o1 .. o5 /\ ~(o5 < o5)
      BY <1>3
    <3>4. Before(s, {"@"}, o1, o5) = o5
      BY <3>2, <3>3, BeforeIs
    <3>5. QED
      BY <1>7, <3>1, <3>4
  <2>2. CASE o2 # o3
    <3>1. o2 < o3 /\ o3 - 1 \in o1 .. o5 /\ o3 - 1 < o5 /\ (o3 - 1) + 1 = o3
      BY <1>3, <2>2
    <3>2. ASSUME NEW k \in (o1 + 1) .. (o3 - 1) PROVE s[k] \notin {"@"}
      <4>1. CASE k <= o2
        BY <1>4, <4>1
      <4>2. CASE k > o2
        BY <1>4, <3>1, <4>2
      <4>3. QED
        BY <4>1, <4>2
    <3>3. s[(o3 - 1) + 1] \in {"@"}
      BY <1>4, <3>1
    <3>4. Before(s, {"@"}, o1, o5) = o3 - 1
      BY <3>1, <3>2, <3>3, BeforeIs
    <3>5. o3 - 1 # o5
      BY <3>1
    <3>6. QED
      BY <1>7, <3>1, <3>4, <3>5
  <2>3. QED
    BY <2>1, <2>2
<1>9. (IF at = o1 THEN o1 ELSE Before(s, {":", "@"}, o1, at)) = o2
  <2>1. CASE o1 = o3
    BY <1>3, <1>8, <2>1
  <2>2. CASE o1 # o3
    <3>1. o2 < o3 /\ o2 \in o1 .. o3
      BY <1>3, <1>4, <2>2
    <3>2. \A k \in (o1 + 1) .. o2 : s[k] \notin {":", "@"}
      BY <1>4
    <3>3. s[o2 + 1] \in {":", "@"}
      <4>1. CASE o2 + 1 < o3
        BY <1>4, <4>1
      <4>2. CASE o2 + 1 = o3
        BY <1>4, <3>1, <4>2
      <4>3. QED
        BY <3>1, <4>1, <4>2
    <3>4. Before(s, {":", "@"}, o1, o3) = o2
      BY <3>1, <3>2, <3>3, BeforeIs
    <3>5. QED
      BY <1>8, <2>2, <3>4
  <2>3. QED
    BY <2>1, <2>2
<1>10. Before(s, {":"}, at, o5) = o4
  <2>1. o4 \in o3 .. o5
    BY <1>3
  <2>2. \A k \in (o3 + 1) .. o4 : s[k] \notin {":"}
    BY <1>4
  <2>3. o4 < o5 => s[o4 + 1] \in {":"}
    BY <1>4
  <2>4. QED
    BY <1>8, <2>1, <2>2, <2>3, BeforeIs
<1>11. PICK path : path = IF o5 < L /\ s[o5 + 1] = "/" THEN Before(s, {"?", "#"}, o5, L) ELSE o5
  OBVIOUS
<1>12. path = o6
  <2>1. CASE o5 < o6
    <3>1. o6 \in o5 .. L /\ o5 < L
      BY <1>3, <2>1
    <3>2. ASSUME NEW k \in (o5 + 1) .. o6 PROVE s[k] \notin {"?", "#"}
      <4>1. CASE k = o5 + 1
        <5>1. s[k] = "/"
          BY <1>5, <2>1, <4>1
        <5>2. QED
          BY <5>1
      <4>2. CASE k # o5 + 1
        <5>1. k \in (o5 + 2) .. o6
          BY <4>2
        <5>2. QED
          BY <1>5, <2>1, <5>1
      <4>3. QED
        BY <4>1, <4>2
    <3>3. o6 < L => s[o6 + 1] \in {"?", "#"}
      <4>1. CASE o6 < o7
        BY <1>5, <4>1
      <4>2. CASE o6 = o7
        BY <1>5, <4>2
      <4>3. QED
        BY <1>3, <4>1, <4>2
    <3>4. Before(s, {"?", "#"}, o5, L) = o6
      BY <3>1, <3>2, <3>3, BeforeIs
    <3>5. QED
      BY <1>5, <1>11, <2>1, <3>1, <3>4
  <2>2. CASE o5 = o6
    <3>1. ~(o5 < L /\ s[o5 + 1] = "/")
      <4>1. CASE o6 < o7
        <5>1. s[o5 + 1] = "?"
          BY <1>5, <2>2, <4>1
        <5>2. QED
          BY <5>1
      <4>2. CASE o6 = o7
        <5>1. o5 < L => s[o5 + 1] = "#"
          BY <1>5, <2>2, <4>2
        <5>2. QED
          BY <5>1
      <4>3. QED
        BY <1>3, <4>1, <4>2
    <3>2. QED
      BY <1>11, <2>2, <3>1
  <2>3. QED
    BY <1>3, <2>1, <2>2
<1>13. (IF path < L /\ s[path + 1] = "?" THEN Before(s, {"#"}, path, L) ELSE path) = o7
  <2>1. CASE o6 < o7
    <3>1. o7 \in o6 .. L /\ o6 < L
      BY <1>3, <2>1
    <3>2. (\A k \in (o6 + 1) .. o7 : s[k] \notin {"#"}) /\ (o7 < L => s[o7 + 1] \in {"#"})
      BY <1>5
    <3>3. Before(s, {"#"}, o6, L) = o7
      BY <3>1, <3>2, BeforeIs
    <3>4. QED
      BY <1>5, <1>12, <2>1, <3>1, <3>3
  <2>2. CASE o6 = o7
    <3>1. ~(o6 < L /\ s[o6 + 1] = "?")
      <4>1. o6 < L => s[o6 + 1] = "#"
        BY <1>5, <2>2
      <4>2. QED
        BY <4>1
    <3>2. QED
      BY <1>12, <2>2, <3>1
  <2>3. QED
    BY <1>3, <2>1, <2>2
<1>14. Cut(s, o1, o5) = <<o1, o2, o3, o4, o5, o6, o7>>
  BY <1>2, <1>7, <1>8, <1>9, <1>10, <1>11, <1>12, <1>13 DEF Cut
<1>15. o = <<o1, o2, o3, o4, o5, o6, o7>>
  <2>1. o \in [1..7 -> Nat]
    BY <1>1 DEF InOrder, Ofs
  <2>2. QED
    BY <1>3, <2>1
<1>16. QED
  <2>1. o1 \in 0 .. L /\ o5 \in 2 .. L
    BY <1>3, <1>4
  <2>2. QED
    BY <1>2, <1>3, <1>4, <1>14, <1>15, <2>1

\* The model's set of matches is the set of offset rows that match.
LEMMA MatchingsAre ==
    ASSUME NEW s \in Texts(Units), NEW o
    PROVE  o \in Matchings(s) <=> Matches(s, o)
<1>1. ASSUME Matches(s, o) PROVE o \in Matchings(s)
  BY <1>1, CutIs DEF Matchings
<1>2. QED
  BY <1>1 DEF Matchings

\* The order in which the expression prefers matchings.
Prefers(o, q) == q[1] < o[1] \/ (q[1] = o[1] /\ q[5] <= o[5])

\* The first choices of a match are numbers in the text.
LEMMA MatchNumbers ==
    ASSUME NEW s \in Texts(Units), NEW q \in Matchings(s)
    PROVE  q[1] \in Nat /\ q[5] \in Nat /\ q[1] <= Size(s) /\ q[5] <= Size(s)
<1>1. InOrder(s, q)
  BY MatchingsAre, LayoutOf
<1>2. QED
  BY <1>1 DEF InOrder, Ofs

\* The matching that try_parse() takes is there.
LEMMA GreediestIs ==
    ASSUME NEW s \in Texts(Units), Matchings(s) # {}
    PROVE  Greediest(Matchings(s)) \in Matchings(s) /\ \A q \in Matchings(s) : Prefers(Greediest(Matchings(s)), q)
<1>1. PICK M : M = Matchings(s)
  OBVIOUS
<1>2. PICK L \in Nat : L = Size(s)
  BY EmptyText
<1>3. \A q \in M : q[1] \in Nat /\ q[5] \in Nat /\ q[1] <= L /\ q[5] <= L
  BY <1>1, <1>2, MatchNumbers
<1>4. PICK a \in M : \A q \in M : q[1] <= a[1]
  <2>1. PICK S : S = {q[1] : q \in M}
    OBVIOUS
  <2>2. S # {} /\ \A x \in S : x \in Nat /\ x <= L
    BY <1>1, <1>3, <2>1
  <2>3. PICK x \in S : \A y \in S : y <= x
    BY <2>2, Greatest
  <2>4. QED
    BY <2>1, <2>3
<1>5. PICK T : T = {q \in M : q[1] = a[1]}
  OBVIOUS
<1>6. PICK o \in T : \A q \in T : q[5] <= o[5]
  <2>1. PICK S : S = {q[5] : q \in T}
    OBVIOUS
  <2>2. S # {} /\ \A x \in S : x \in Nat /\ x <= L
    BY <1>3, <1>5, <2>1
  <2>3. PICK x \in S : \A y \in S : y <= x
    BY <2>2, Greatest
  <2>4. QED
    BY <2>1, <2>3
<1>7. o \in M /\ \A q \in M : Prefers(o, q)
  <2>1. ASSUME NEW q \in M PROVE Prefers(o, q)
    <3>1. q[1] <= a[1] /\ o[1] = a[1] /\ q[1] \in Nat /\ a[1] \in Nat
      BY <1>3, <1>4, <1>5
    <3>2. CASE q[1] = a[1]
      BY <1>5, <1>6, <3>1, <3>2 DEF Prefers
    <3>3. CASE q[1] # a[1]
      BY <3>1, <3>3 DEF Prefers
    <3>4. QED
      BY <3>2, <3>3
  <2>2. QED
    BY <1>5, <2>1
<1>8. Greediest(M) = CHOOSE x \in M : \A q \in M : Prefers(x, q)
  BY DEF Greediest, Prefers
<1>9. QED
  BY <1>1, <1>7, <1>8

\* A text that has what the grammar asks for matches best where it is cut.
LEMMA BestMatch ==
    ASSUME NEW s \in Texts(Units), NEW o, Matches(s, o), NEW q, Matches(s, q),
           o[5] = o[6] => o[6] = Size(s),
           o[5] + 1 < o[6] /\ s[o[5] + 2] = "/" => o[3] # o[4]
    PROVE  Prefers(o, q)
<1>1. InOrder(s, o) /\ Layout(s, o) /\ InOrder(s, q) /\ Layout(s, q)
  BY LayoutOf
<1>2. PICK L \in Nat : L = Size(s)
  BY EmptyText
<1>3. /\ o[1] \in Nat /\ o[2] \in Nat /\ o[3] \in Nat /\ o[4] \in Nat /\ o[5] \in Nat /\ o[6] \in Nat
      /\ o[1] <= o[2] /\ o[2] <= o[3] /\ o[3] <= o[4] /\ o[4] <= o[5] /\ o[5] <= o[6] /\ o[6] <= L
      /\ o[7] \in Nat /\ o[6] <= o[7] /\ o[7] <= L
  BY <1>1, <1>2 DEF InOrder, Ofs
<1>4. /\ q[1] \in Nat /\ q[2] \in Nat /\ q[3] \in Nat /\ q[4] \in Nat /\ q[5] \in Nat
      /\ q[1] <= q[2] /\ q[2] <= q[3] /\ q[3] <= q[4] /\ q[4] <= q[5] /\ q[5] <= L
  BY <1>1, <1>2 DEF InOrder, Ofs
<1>5. o[1] \in {2, 4} /\ q[1] \in {2, 4} /\ (q[1] = 4 => s[3] = "/" /\ s[4] = "/")
  BY <1>1 DEF Layout
<1>6. o[5] < L => o[5] < o[6] /\ s[o[5] + 1] = "/"
  BY <1>1, <1>2, <1>3 DEF Layout
<1>7. ASSUME NEW k \in (q[1] + 1) .. q[5] PROVE s[k] # "/"
  <2>1. CASE k <= q[2]
    BY <1>1, <2>1 DEF Layout
  <2>2. CASE k > q[2] /\ k < q[3]
    <3>1. q[2] < q[3] /\ k \in (q[2] + 1) .. (q[3] - 1)
      BY <1>4, <2>2
    <3>2. QED
      BY <1>1, <3>1 DEF Layout
  <2>3. CASE k > q[2] /\ k = q[3]
    <3>1. s[k] = "@"
      BY <1>1, <2>3 DEF Layout
    <3>2. QED
      BY <3>1
  <2>4. CASE k > q[3] /\ k <= q[4]
    BY <1>1, <1>4, <2>4 DEF Layout
  <2>5. CASE k = q[4] + 1
    <3>1. q[4] < q[5]
      BY <1>4, <1>7, <2>5
    <3>2. s[k] = ":"
      BY <1>1, <2>5, <3>1 DEF Layout
    <3>3. QED
      BY <3>2
  <2>6. CASE k > q[4] + 1
    <3>1. q[4] < q[5] /\ k \in (q[4] + 2) .. q[5]
      BY <1>4, <1>7, <2>6
    <3>2. QED
      BY <1>1, <3>1 DEF Layout
  <2>7. QED
    BY <1>4, <1>7, <2>1, <2>2, <2>3, <2>4, <2>5, <2>6
<1>8. CASE q[1] = o[1]
  <2>1. ASSUME o[5] < q[5] PROVE FALSE
    <3>1. o[5] + 1 \in (q[1] + 1) .. q[5] /\ o[5] < L
      BY <1>3, <1>4, <1>8, <2>1
    <3>2. QED
      BY <1>6, <1>7, <3>1
  <2>2. QED
    BY <1>3, <1>4, <1>8, <2>1 DEF Prefers
<1>9. CASE q[1] = 4 /\ o[1] = 2
  <2>1. s[3] = "/" /\ s[4] = "/" /\ 4 <= L
    BY <1>4, <1>5, <1>9
  <2>2. o[2] = 2
    <3>1. ASSUME o[2] > 2 PROVE FALSE
      <4>1. 3 \in (o[1] + 1) .. o[2]
        BY <1>3, <1>9, <3>1
      <4>2. QED
        BY <1>1, <2>1, <4>1 DEF Layout
    <3>2. QED
      BY <1>3, <1>9, <3>1
  <2>3. o[3] = 2
    BY <1>1, <1>9, <2>2 DEF Layout
  <2>4. o[4] = 2
    <3>1. ASSUME o[4] > 2 PROVE FALSE
      <4>1. 3 \in (o[3] + 1) .. o[4]
        BY <1>3, <2>3, <3>1
      <4>2. QED
        BY <1>1, <2>1, <4>1 DEF Layout
    <3>2. QED
      BY <1>3, <2>3, <3>1
  <2>5. o[5] = 2
    BY <1>1, <2>3, <2>4 DEF Layout
  <2>6. o[6] > 2
    BY <1>2, <1>6, <2>1, <2>5
  <2>7. o[6] # 3
    <3>1. ASSUME o[6] = 3 PROVE FALSE
      <4>1. CASE o[6] < o[7]
        <5>1. s[4] = "?"
          BY <1>1, <3>1, <4>1 DEF Layout
        <5>2. QED
          BY <2>1, <5>1
      <4>2. CASE o[7] = 3
        <5>1. s[4] = "#"
          BY <1>1, <1>2, <2>1, <4>2 DEF Layout
        <5>2. QED
          BY <2>1, <5>1
      <4>3. QED
        BY <1>3, <3>1, <4>1, <4>2
    <3>2. QED
      BY <3>1
  <2>8. o[5] + 1 < o[6] /\ s[o[5] + 2] = "/"
    BY <1>3, <2>1, <2>5, <2>6, <2>7
  <2>9. QED
    BY <2>3, <2>4, <2>8
<1>10. QED
  BY <1>5, <1>8, <1>9 DEF Prefers

\* The text gives the offsets again.
LEMMA ParsesBack ==
    ASSUME NEW s \in Texts(Units), NEW o, Matches(s, o),
           o[5] = o[6] => o[6] = Size(s),
           o[5] + 1 < o[6] /\ s[o[5] + 2] = "/" => o[3] # o[4]
    PROVE  Greediest(Matchings(s)) = o
<1>1. o \in Matchings(s)
  BY MatchingsAre
<1>2. PICK g : g = Greediest(Matchings(s))
  OBVIOUS
<1>3. g \in Matchings(s) /\ Prefers(g, o)
  BY <1>1, <1>2, GreediestIs
<1>4. Matches(s, g)
  BY <1>3, MatchingsAre
<1>5. Prefers(o, g)
  BY <1>4, BestMatch
<1>6. o[1] \in Nat /\ o[5] \in Nat /\ g[1] \in Nat /\ g[5] \in Nat
  BY <1>1, <1>3, MatchNumbers
<1>7. g[1] = o[1] /\ g[5] = o[5]
  BY <1>3, <1>5, <1>6 DEF Prefers
<1>8. g = Cut(s, g[1], g[5]) /\ o = Cut(s, o[1], o[5])
  BY <1>4, CutIs
<1>9. QED
  BY <1>2, <1>7, <1>8

\* Text and offsets that are in step parse back.
LEMMA StepReparses ==
    ASSUME InStep
    PROVE  Reparses
<1>1. InOrder(text_, ofs) /\ text_ \in Texts(Units)
  BY DEF InStep, InOrder
<1>2. PICK x, y, z, h : /\ x = Part(text_, ofs, 5) /\ y = Part(text_, ofs, 6) /\ z = Part(text_, ofs, 7)
                        /\ h = Part(text_, ofs, 3)
  OBVIOUS
<1>3. SUFFICES ASSUME Matches(text_, ofs), x = <<>> => y = <<>> /\ z = <<>>,
                      Len(x) > 1 /\ x[2] = "/" => h # <<>>
               PROVE  Greediest(Matchings(text_)) = ofs
  BY <1>2 DEF Reparses, Path, Query, Fragment, Host
<1>4. PICK o, L : o = ofs /\ L = Size(text_)
  OBVIOUS
<1>5. /\ o[3] \in Nat /\ o[4] \in Nat /\ o[5] \in Nat /\ o[6] \in Nat /\ o[7] \in Nat /\ L \in Nat
      /\ o[3] <= o[4] /\ o[5] <= o[6] /\ o[6] <= o[7] /\ o[7] <= L
  BY <1>1, <1>4, OfsAre
<1>6. /\ Size(x) = o[6] - o[5] /\ Size(y) = o[7] - o[6] /\ Size(z) = L - o[7] /\ Size(h) = o[4] - o[3]
      /\ x \in Texts(Units) /\ y \in Texts(Units) /\ z \in Texts(Units) /\ h \in Texts(Units)
  <2>1. /\ Start(o, 5) = o[5] /\ End(text_, o, 5) = o[6] /\ Start(o, 6) = o[6] /\ End(text_, o, 6) = o[7]
        /\ Start(o, 7) = o[7] /\ End(text_, o, 7) = L /\ Start(o, 3) = o[3] /\ End(text_, o, 3) = o[4]
    BY <1>4 DEF Start, End, Size
  <2>2. QED
    BY <1>1, <1>2, <1>4, <2>1, PartText
<1>7. o[5] = o[6] => o[6] = L
  <2>1. ASSUME o[5] = o[6] PROVE o[6] = L
    <3>1. Size(x) = 0
      BY <1>5, <1>6, <2>1
    <3>2. y = <<>> /\ z = <<>>
      BY <1>3, <1>6, <3>1, EmptyText
    <3>3. o[7] - o[6] = 0 /\ L - o[7] = 0
      BY <1>6, <3>2, NoUnits
    <3>4. QED
      BY <1>5, <3>3
  <2>2. QED
    BY <2>1
<1>8. ASSUME o[5] + 1 < o[6], text_[o[5] + 2] = "/" PROVE o[3] # o[4]
  <2>1. Start(o, 5) = o[5] /\ End(text_, o, 5) = o[6]
    BY DEF Start, End
  <2>2. \A l \in (o[5] + 1) .. o[6] : l - o[5] \in 1 .. Size(x) /\ text_[l] = x[l - o[5]]
    BY <1>1, <1>2, <1>4, <2>1, PartOf
  <2>3. o[5] + 2 \in (o[5] + 1) .. o[6] /\ (o[5] + 2) - o[5] = 2
    BY <1>5, <1>8
  <2>4. x[2] = "/"
    BY <1>8, <2>2, <2>3
  <2>5. Size(x) > 1
    BY <1>5, <1>6, <1>8
  <2>50. Len(x) > 1
    BY ONLY <2>5 DEF Size
  <2>6. h # <<>>
    BY <1>3, <2>4, <2>50
  <2>7. Size(h) # 0
    BY <1>6, <2>6, EmptyText
  <2>8. QED
    BY <1>5, <1>6, <2>7
<1>9. QED
  BY <1>1, <1>3, <1>4, <1>7, <1>8, ParsesBack

-----------------------------------------------------------------------------
(* The theorem                                                             *)

\* try_parse() takes the offsets of the greediest match of the pattern.
LEMMA ParseStep ==
    ASSUME NEW s \in Strings, try_parse(s)
    PROVE  InStep'
<1>1. s \in Texts(Units)
  BY UriAssumption DEF Texts
<1>2. PICK o : o = Greediest(Matchings(s))
  OBVIOUS
<1>3. Matchings(s) # {} /\ text_' = s /\ ofs' = o
  BY <1>2 DEF try_parse, Parsings
<1>4. Matches(s, o)
  BY <1>1, <1>2, <1>3, GreediestIs, MatchingsAre
<1>5. InOrder(s, o) /\ SchemeOk(Part(s, o, 0)) /\ Elems(s, o)
  BY <1>1, <1>4, SlicedIs DEF Matches
<1>6. QED
  BY <1>3, <1>5, Closing

\* Initially there is no text.
LEMMA UriInit == Init => InStep
<1>1. ASSUME Init PROVE InStep
  <2>1. text_ = <<>> /\ ofs = [k \in 1..7 |-> 0]
    BY <1>1 DEF Init
  <2>2. InOrder(text_, ofs)
    BY <2>1, NoUnits DEF InOrder, Ofs
  <2>3. ASSUME NEW m \in 0..7 PROVE Part(text_, ofs, m) = <<>>
    <3>1. PICK p : p = Part(text_, ofs, m)
      OBVIOUS
    <3>2. p \in Texts(Units) /\ Size(p) = End(text_, ofs, m) - Start(ofs, m)
      BY <2>2, <3>1, PartText
    <3>3. /\ Start(ofs, m) \in Nat /\ End(text_, ofs, m) \in Nat
          /\ Start(ofs, m) <= End(text_, ofs, m) /\ End(text_, ofs, m) <= Size(text_)
      BY <2>2, Between
    <3>4. Size(p) = 0
      BY <2>1, <3>2, <3>3, NoUnits
    <3>5. QED
      BY <3>1, <3>2, <3>4, EmptyText
  <2>4. PassOk(<<>>)
    BY NoUnits DEF PassOk
  <2>5. Elems(text_, ofs)
    BY <2>3, <2>4, NothingOk DEF Elems, LoginOk
  <2>6. QED
    BY <2>1, <2>2, <2>5 DEF InStep
<1>2. QED
  BY <1>1

\* Every operation keeps the text in step.
LEMMA UriStep ==
    ASSUME InStep, [Next]_vars
    PROVE  InStep'
<1>1. CASE UNCHANGED vars
  BY <1>1 DEF vars, InStep
<1>2. CASE Setters
  <2>1. /\ \A n \in {"user", "password", "host", "path", "fragment"} : Args[n] \subseteq Seq(Plain \cup Delimiters)
        /\ Args["query"] \subseteq Seq(Units) /\ Args["port"] \subseteq Seq(Numbers)
        /\ Args["scheme"] \subseteq (Words \X {0, 1, 3} \X BOOLEAN)
    BY UriAssumption
  <2>2. ASSUME NEW a \in Args["scheme"], set_scheme(a[1], a[2], a[3]) PROVE InStep'
    <3>1. a[1] \in Words
      BY <2>1
    <3>2. QED
      BY <2>2, <3>1, SchemeStep
  <2>3. ASSUME NEW v \in Args["user"], set_user(v) PROVE InStep'
    <3>1. v \in Seq(Plain \cup Delimiters)
      BY <2>1
    <3>2. QED
      BY <2>3, <3>1, SetUserStep
  <2>4. ASSUME NEW v \in Args["path"], append_path(v) PROVE InStep'
    <3>1. v \in Seq(Plain \cup Delimiters)
      BY <2>1
    <3>2. QED
      BY <2>4, <3>1, AppendStep
  <2>5. ASSUME \/ \E v \in Args["password"] : set_password(v)
               \/ \E v \in Args["host"] : set_host(v)
               \/ \E v \in Args["port"] : set_port(v)
               \/ \E v \in Args["path"] : set_path(v)
               \/ \E v \in Args["query"] : set_query(v)
               \/ \E v \in Args["fragment"] : set_fragment(v)
        PROVE  InStep'
    <3>1. /\ Args["password"] \subseteq Seq(Plain \cup Delimiters)
          /\ Args["host"] \subseteq Seq(Plain \cup Delimiters)
          /\ Args["path"] \subseteq Seq(Plain \cup Delimiters)
          /\ Args["fragment"] \subseteq Seq(Plain \cup Delimiters)
      BY <2>1
    <3>2. \/ \E v \in Seq(Plain \cup Delimiters) : set_password(v) \/ set_host(v) \/ set_path(v) \/ set_fragment(v)
          \/ \E v \in Seq(Numbers) : set_port(v)
          \/ \E v \in Seq(Units) : set_query(v)
      BY <2>1, <2>5, <3>1
    <3>3. QED
      BY <3>2, SetOneStep
  <2>6. QED
    BY <1>2, <2>2, <2>3, <2>4, <2>5 DEF Setters
<1>3. CASE Clearers
  BY <1>3, ClearUserStep, ClearPasswordStep, ClearStep DEF Clearers
<1>4. CASE Related
  BY <1>4, ClearAllStep, DocStep, BaseStep, ParentStep, RootStep DEF Related
<1>5. ASSUME NEW s \in Strings, try_parse(s) PROVE InStep'
  BY <1>5, ParseStep
<1>6. QED
  BY <1>1, <1>2, <1>3, <1>4, <1>5 DEF Next

\* After any sequence of calls the text and the offsets agree: every element has
\* its own part of the text, with its own punctuation, and a text that the grammar
\* admits gives the same parts when it is parsed again.
THEOREM UriTextInStep == Spec => []TextInStep
<1>1. InStep => TextInStep
  BY InPlace, StepReparses DEF TextInStep
<1>2. InStep /\ [Next]_vars => InStep'
  BY UriStep
<1>3. QED
  BY <1>1, <1>2, UriInit, PTL DEF Spec


-----------------------------------------------------------------------------
(* The values of the elements                                              *)

Characters == Plain \cup Delimiters

\* What a unit stands for.
Meant(u) == IF u \in Characters THEN u ELSE CHOOSE c \in Delimiters : Escape(c) = u

\* No two characters have the same escape.
LEMMA EscapeOne ==
    ASSUME NEW c \in Delimiters
    PROVE  Escape(c) \notin Characters /\ Meant(Escape(c)) = c
<1>1. Escape(c) \in Escapes
  BY DEF Escapes
<1>2. Escape(c) \notin Characters
  BY <1>1, UnitsAre DEF Characters
<1>3. \A d \in Delimiters : Escape(d) = Escape(c) => d = c
  BY DEF Escape, Delimiters
<1>4. (CHOOSE d \in Delimiters : Escape(d) = Escape(c)) = c
  BY <1>3
<1>5. QED
  BY <1>2, <1>4 DEF Meant

\* decode() puts what it stands for in the place of each unit.
LEMMA DecodeAt ==
    ASSUME NEW s \in Texts(Units)
    PROVE  /\ decode(s) \in Texts(Characters) /\ Size(decode(s)) = Size(s) /\ Size(s) \in Nat
           /\ \A k \in 1 .. Size(s) : decode(s)[k] = Meant(s[k])
<1>1. Len(s) \in Nat /\ \A k \in 1 .. Len(s) : s[k] \in Units
  BY DEF Texts
<1>2. PICK f : f = [i \in 1 .. Len(s) |-> Meant(s[i])]
  OBVIOUS
<1>3. decode(s) = f
  BY <1>2 DEF decode, Meant, Characters
<1>4. ASSUME NEW k \in 1 .. Len(s) PROVE Meant(s[k]) \in Characters
  <2>1. s[k] \in Plain \cup Delimiters \cup Escapes
    BY <1>1, UnitsAre
  <2>2. CASE s[k] \in Plain \cup Delimiters
    BY <2>2 DEF Meant, Characters
  <2>3. CASE s[k] \in Escapes
    <3>1. PICK c \in Delimiters : s[k] = Escape(c)
      BY <2>3 DEF Escapes
    <3>2. Meant(s[k]) = c
      BY <3>1, EscapeOne
    <3>3. QED
      BY <3>2 DEF Characters
  <2>4. QED
    BY <2>1, <2>2, <2>3
<1>5. f \in [1 .. Len(s) -> Characters]
  BY <1>2, <1>4
<1>6. f \in Seq(Characters) /\ Len(f) = Len(s)
  BY <1>1, <1>5
<1>7. \A k \in 1 .. Len(s) : f[k] = Meant(s[k])
  BY <1>2
<1>8. QED
  BY <1>1, <1>3, <1>6, <1>7 DEF Texts, Size

\* decode() undoes encode(), whatever is left as it was.
LEMMA DecodeEncode ==
    ASSUME NEW v \in Seq(Plain \cup Delimiters), NEW x \in SUBSET Delimiters
    PROVE  decode(encode(v, x)) = v
<1>1. PICK w : w = encode(v, x)
  OBVIOUS
<1>2. w \in Texts(Units) /\ Size(w) = Len(v)
  BY <1>1, EncodeAt
<1>3. v \in Texts(Characters) /\ Size(v) = Len(v) /\ Len(v) \in Nat
  BY DEF Texts, Characters, Size
<1>4. ASSUME NEW k \in 1 .. Len(v) PROVE Meant(w[k]) = v[k]
  <2>1. w[k] = IF v[k] \in Plain \cup x THEN v[k] ELSE Escape(v[k])
    BY <1>1 DEF encode
  <2>2. v[k] \in Plain \cup Delimiters
    BY <1>3
  <2>3. CASE v[k] \in Plain \cup x
    BY <2>1, <2>2, <2>3 DEF Meant, Characters
  <2>4. CASE v[k] \notin Plain \cup x
    BY <2>1, <2>2, <2>4, EscapeOne
  <2>5. QED
    BY <2>3, <2>4
<1>5. /\ decode(w) \in Texts(Characters) /\ Size(decode(w)) = Len(v)
      /\ \A k \in 1 .. Len(v) : decode(w)[k] = v[k]
  BY <1>2, <1>4, DecodeAt
<1>6. decode(w) = v
  BY <1>3, <1>5, SameText
<1>7. QED
  BY <1>1, <1>6

\* The text of a value is decoded to the value.
LEMMA DecodeValue ==
    ASSUME NEW v \in Texts(Units), \A k \in 1 .. Size(v) : v[k] \in Characters
    PROVE  decode(v) = v
<1>1. /\ decode(v) \in Texts(Characters) /\ Size(decode(v)) = Size(v) /\ Size(v) \in Nat
      /\ \A k \in 1 .. Size(v) : decode(v)[k] = Meant(v[k])
  BY DecodeAt
<1>2. \A k \in 1 .. Size(v) : decode(v)[k] = v[k]
  BY <1>1 DEF Meant
<1>3. v \in Texts(Characters)
  <2>1. v \in Seq(Units) /\ \A k \in 1 .. Len(v) : v[k] \in Characters
    BY DEF Texts, Size
  <2>2. v \in [1 .. Len(v) -> Characters] /\ Len(v) \in Nat
    BY <2>1
  <2>3. QED
    BY <2>2 DEF Texts
<1>4. QED
  BY <1>1, <1>2, <1>3, SameText

\* What a getter returns that cuts n units off the front.
Bare(p, n) == decode(Piece(p, n, Size(p)))

\* The getter of the password cuts one more off the end.
Secret(p) == LET x == Bare(p, 1) IN IF x = <<>> THEN <<>> ELSE SubSeq(x, 1, Len(x) - 1)

Word(p) == IF p = <<>> THEN <<>> ELSE <<p[1]>>

\* No units, no value.
LEMMA NothingMeant ==
    /\ decode(<<>>) = <<>> /\ Bare(<<>>, 0) = <<>> /\ Bare(<<>>, 1) = <<>>
    /\ Secret(<<>>) = <<>> /\ Secret(<<"@">>) = <<>> /\ Bare(<<"/">>, 0) = <<"/">>
<1>1. decode(<<>>) = <<>>
  BY NoUnits, DecodeAt, EmptyText
<1>2. Piece(<<>>, 0, Size(<<>>)) = <<>> /\ Piece(<<>>, 1, Size(<<>>)) = <<>>
  BY NoUnits DEF Piece
<1>3. PICK a : a = <<"@">>
  OBVIOUS
<1>4. a \in Texts(Units) /\ Size(a) = 1
  BY <1>3, OneUnit, UnitSets
<1>5. Piece(a, 1, 1) = <<>>
  <2>1. 1 \in Nat /\ 1 <= 1 /\ 1 <= Size(a)
    BY <1>4
  <2>2. PICK q : q = Piece(a, 1, 1)
    OBVIOUS
  <2>3. q \in Texts(Units) /\ Size(q) = 1 - 1
    BY <1>4, <2>1, <2>2, PieceAt
  <2>4. QED
    BY <2>2, <2>3, EmptyText
<1>6. PICK b : b = <<"/">>
  OBVIOUS
<1>7. b \in Texts(Units) /\ Size(b) = 1 /\ b[1] = "/"
  BY <1>6, OneUnit, UnitSets
<1>8. \A k \in 1 .. Size(b) : b[k] \in Characters
  <2>1. "/" \in Characters /\ \A k \in 1 .. 1 : k = 1
    BY DEF Characters, Delimiters
  <2>2. QED
    BY <1>7, <2>1
<1>9. Piece(b, 0, Size(b)) = b /\ decode(b) = b
  BY <1>7, <1>8, WholePiece, DecodeValue
<1>10. Bare(<<>>, 0) = <<>> /\ Bare(<<>>, 1) = <<>>
  BY <1>1, <1>2 DEF Bare
<1>11. Bare(a, 1) = <<>>
  BY <1>1, <1>4, <1>5 DEF Bare
<1>12. Bare(b, 0) = b
  BY <1>9 DEF Bare
<1>13. QED
  BY <1>1, <1>3, <1>6, <1>10, <1>11, <1>12 DEF Secret

\* Behind its mark, a text is decoded whole.
LEMMA BareOf ==
    ASSUME NEW c \in Units, NEW w \in Texts(Units)
    PROVE  Bare(Joined(<<c>>, w), 1) = decode(w)
<1>1. PICK t, n : t = Joined(<<c>>, w) /\ n = Size(w)
  OBVIOUS
<1>2. t \in Texts(Units) /\ n \in Nat /\ Size(t) = 1 + n /\ Copied(w, 0, n, t, 1)
  BY <1>1, Prefixed
<1>3. Piece(t, 1, 1 + n) = Piece(w, 0, n)
  <2>1. 0 \in Nat /\ 1 \in Nat /\ 1 + n \in Nat /\ 0 <= n /\ n <= Size(w) /\ (1 + n) - 1 = n - 0 /\ 1 + n <= Size(t)
    BY <1>1, <1>2
  <2>2. QED
    BY <1>2, <2>1, SamePart
<1>4. Piece(w, 0, n) = w
  BY <1>1, WholePiece
<1>5. QED
  BY <1>1, <1>2, <1>3, <1>4 DEF Bare

\* With no mark, too.
LEMMA BareWhole ==
    ASSUME NEW w \in Texts(Units)
    PROVE  Bare(w, 0) = decode(w)
  BY WholePiece DEF Bare

\* The password is what is between the colon and the at sign.
LEMMA SecretOf ==
    ASSUME NEW v \in Seq(Plain \cup Delimiters)
    PROVE  Secret(<<":">> \o encode(v, {}) \o <<"@">>) = v
<1>1. PICK w, y, c : w = encode(v, {}) /\ y = <<"@">> /\ c = Joined(w, y)
  OBVIOUS
<1>2. w \in Texts(Units) /\ Size(w) = Len(v) /\ decode(w) = v
  BY <1>1, EncodedName, DecodeEncode
<1>3. y \in Texts(Units) /\ Size(y) = 1 /\ y[1] = "@"
  BY <1>1, OneUnit, UnitSets
<1>4. v \in Texts(Characters) /\ Size(v) = Len(v) /\ Len(v) \in Nat
  BY DEF Texts, Characters, Size
<1>5. PICK n \in Nat : n = Size(v) /\ n = Size(w)
  BY <1>2, <1>4
<1>6. c \in Texts(Units) /\ Size(c) = n + 1 /\ Copied(w, 0, n, c, 0) /\ Copied(y, 0, 1, c, n)
  BY <1>1, <1>2, <1>3, <1>5, JoinedCopies
<1>7. PICK x : x = decode(c)
  OBVIOUS
<1>8. /\ x \in Texts(Characters) /\ Size(x) = n + 1
      /\ \A k \in 1 .. (n + 1) : x[k] = Meant(c[k])
  BY <1>6, <1>7, DecodeAt
<1>9. ASSUME NEW k \in 1 .. n PROVE x[k] = v[k]
  <2>1. k \in (0 + 1) .. n /\ k \in Int /\ k = 0 + (k - 0) /\ k \in 1 .. (n + 1)
    OBVIOUS
  <2>2. c[k] = w[k]
    BY <1>6, <2>1 DEF Copied
  <2>3. decode(w)[k] = Meant(w[k])
    BY <1>2, <1>5, DecodeAt
  <2>4. QED
    BY <1>2, <1>8, <2>1, <2>2, <2>3
<1>10. Piece(x, 0, n) = v
  <2>1. PICK q : q = Piece(x, 0, n)
    OBVIOUS
  <2>2. 0 \in Nat /\ 0 <= n /\ n <= Size(x)
    BY <1>8
  <2>3. q \in Texts(Characters) /\ Size(q) = n - 0 /\ \A k \in 1 .. (n - 0), m \in Int : m = 0 + k => q[k] = x[m]
    BY <1>8, <2>1, <2>2, PieceAt
  <2>4. ASSUME NEW k \in 1 .. n PROVE q[k] = v[k]
    <3>1. k \in 1 .. (n - 0) /\ k \in Int /\ k = 0 + k
      OBVIOUS
    <3>2. QED
      BY <1>9, <2>3, <3>1
  <2>5. Size(q) = n
    BY <2>3
  <2>6. QED
    BY <1>4, <1>5, <2>1, <2>3, <2>4, <2>5, SameText
<1>11. x # <<>> /\ Len(x) - 1 = n
  <2>1. Size(x) # 0 /\ Size(x) - 1 = n
    BY <1>8
  <2>2. QED
    BY ONLY <2>1 DEF Size
<1>12. <<":">> \o w \o <<"@">> = Joined(<<":">>, c)
  <2>1. PICK a : a = <<":">>
    OBVIOUS
  <2>2. a \in Texts(Units)
    BY <2>1, OneUnit, UnitSets
  <2>3. Joined(Joined(a, w), y) = Joined(a, Joined(w, y))
    BY <1>2, <1>3, <2>2, JoinedJoined
  <2>4. QED
    BY <1>1, <2>1, <2>3 DEF Joined
<1>13. Bare(Joined(<<":">>, c), 1) = x
  BY <1>6, <1>7, BareOf, UnitSets
<1>14. Secret(Joined(<<":">>, c)) = v
  BY <1>10, <1>11, <1>13 DEF Secret, Piece
<1>15. QED
  BY <1>1, <1>12, <1>14

\* The elements, by the parts they are read from.
Read(s, o) ==
    [scheme |-> Word(Part(s, o, 0)), user |-> Bare(Part(s, o, 1), 0), password |-> Secret(Part(s, o, 2)),
     host |-> Bare(Part(s, o, 3), 0), port |-> Bare(Part(s, o, 4), 1), path |-> Bare(Part(s, o, 5), 0),
     query |-> Bare(Part(s, o, 6), 1), fragment |-> Bare(Part(s, o, 7), 1)]

\* The getter of the scheme cuts the colon off, or the colon and the slashes.
LEMMA WordIs ==
    ASSUME NEW s, NEW o, InOrder(s, o), SchemeOk(Part(s, o, 0))
    PROVE  SubSeq(s, 1, o[1] - (IF s[o[1]] = "/" THEN 3 ELSE 1)) = Word(Part(s, o, 0))
<1>1. PICK p, n : p = Part(s, o, 0) /\ n = o[1]
  OBVIOUS
<1>2. /\ 0 \in 0..7 /\ Start(o, 0) = 0 /\ End(s, o, 0) = n
  BY <1>1 DEF Start, End
<1>3. /\ n \in Nat /\ n <= Size(s) /\ Size(p) = n - 0
      /\ \A k \in 1 .. (n - 0), l \in Int : l = 0 + k => p[k] = s[l]
  BY <1>1, <1>2, UnitAt
<1>4. Size(p) = n /\ \A k \in 1 .. n : p[k] = s[k]
  <2>1. \A k \in 1 .. n : k \in 1 .. (n - 0) /\ k \in Int /\ k = 0 + k
    BY <1>3
  <2>2. QED
    BY <1>3, <2>1
<1>5. n \in {2, 4} /\ p[1] \in Words /\ p[2] = ":" /\ (n = 4 => p[3] = "/" /\ p[4] = "/")
  BY <1>1, <1>4 DEF SchemeOk
<1>6. s[n] = "/" <=> n = 4
  <2>1. CASE n = 2
    BY <1>4, <1>5, <2>1
  <2>2. CASE n = 4
    BY <1>4, <1>5, <2>2
  <2>3. QED
    BY <1>5, <2>1, <2>2
<1>7. n - (IF s[n] = "/" THEN 3 ELSE 1) = 1
  BY <1>5, <1>6
<1>8. SubSeq(s, 1, 1) = <<p[1]>>
  <2>1. s \in Texts(Units) /\ Size(s) \in Nat
    BY EmptyText DEF InOrder
  <2>2. 1 \in 1 .. n /\ 0 \in Nat /\ 1 \in Nat /\ 0 <= 1 /\ 1 <= Size(s)
    BY <1>3, <1>5, <2>1
  <2>3. PICK q, r : q = Piece(s, 0, 1) /\ r = <<p[1]>>
    OBVIOUS
  <2>4. q \in Texts(Units) /\ Size(q) = 1 - 0 /\ \A k \in 1 .. (1 - 0), m \in Int : m = 0 + k => q[k] = s[m]
    BY <2>1, <2>2, <2>3, PieceAt
  <2>5. q[1] = p[1] /\ Size(q) = 1
    <3>1. 1 \in 1 .. (1 - 0) /\ 1 \in Int /\ 1 = 0 + 1 /\ 1 - 0 = 1
      OBVIOUS
    <3>2. QED
      BY <1>4, <2>2, <2>4, <3>1
  <2>6. p[1] \in Units
    BY <1>5, UnitSets, UnitsAre
  <2>7. r \in Texts(Units) /\ Size(r) = 1 /\ r[1] = p[1]
    BY <2>3, <2>6, OneUnit
  <2>8. \A k \in 1 .. 1 : q[k] = r[k]
    BY <2>5, <2>7
  <2>9. q = r
    BY <2>4, <2>5, <2>7, <2>8, SameText
  <2>10. Piece(s, 0, 1) = SubSeq(s, 1, 1)
    <3>1. 0 + 1 = 1
      OBVIOUS
    <3>2. QED
      BY ONLY <3>1 DEF Piece
  <2>11. QED
    BY ONLY <2>3, <2>9, <2>10
<1>9. p # <<>>
  BY <1>4, <1>5, NoUnits
<1>10. QED
  BY <1>1, <1>7, <1>8, <1>9 DEF Word

\* No text, no parts.
LEMMA NoParts ==
    ASSUME NEW o, InOrder(<<>>, o), NEW m \in 0..7
    PROVE  Part(<<>>, o, m) = <<>>
<1>1. PICK p, a, z : p = Part(<<>>, o, m) /\ a = Start(o, m) /\ z = End(<<>>, o, m)
  OBVIOUS
<1>2. p \in Texts(Units) /\ Size(p) = z - a
  BY <1>1, PartText
<1>3. a \in Nat /\ z \in Nat /\ a <= z /\ z <= 0
  <2>1. m \in 0..7 /\ m <= m
    OBVIOUS
  <2>2. QED
    BY <1>1, <2>1, Between, NoUnits
<1>4. Size(p) = 0
  BY <1>2, <1>3
<1>5. QED
  BY <1>1, <1>2, <1>4, EmptyText

\* The getters read the parts, of an empty text too.
LEMMA ReadIs ==
    ASSUME NEW s, NEW o, InOrder(s, o), s # <<>> => SchemeOk(Part(s, o, 0))
    PROVE  /\ Elements(s, o) = Read(s, o)
           /\ s = <<>> => Elements(s, o) = Promise!None
<1>1. CASE s # <<>>
  <2>1. SubSeq(s, 1, o[1] - (IF s[o[1]] = "/" THEN 3 ELSE 1)) = Word(Part(s, o, 0))
    BY <1>1, WordIs
  <2>2. QED
    BY <1>1, <2>1 DEF Elements, Read, Bare, Secret, Piece, Size, User, Password, Host, Port, Path, Query, Fragment
<1>2. CASE s = <<>>
  <2>1. PICK z : z = [scheme |-> <<>>, user |-> <<>>, password |-> <<>>, host |-> <<>>, port |-> <<>>,
                      path |-> <<>>, query |-> <<>>, fragment |-> <<>>]
    OBVIOUS
  <2>2. \A m \in 0..7 : Part(s, o, m) = <<>>
    BY <1>2, NoParts
  <2>3. Read(s, o) = z
    BY <2>1, <2>2, NothingMeant DEF Read, Word
  <2>4. Elements(s, o) = z
    BY <1>2, <2>1 DEF Elements
  <2>5. z = [n \in Promise!Names |-> <<>>]
    BY <2>1 DEF Promise!Names
  <2>6. QED
    BY <2>3, <2>4, <2>5 DEF Promise!None
<1>3. QED
  BY <1>1, <1>2

-----------------------------------------------------------------------------
(* Paths, as the caller sees them                                          *)

\* No slash is escaped.
Unescaped(p) == \A k \in 1 .. Size(p) : p[k] # "%2F"

\* Then a slash is meant where a slash stands.
LEMMA SlashMeant ==
    ASSUME NEW u \in Units, u # "%2F"
    PROVE  Meant(u) = "/" <=> u = "/"
<1>1. CASE u \in Characters
  BY <1>1 DEF Meant
<1>2. CASE u \notin Characters
  <2>1. u \in Escapes
    BY <1>2, UnitsAre DEF Characters
  <2>2. PICK c \in Delimiters : u = Escape(c)
    BY <2>1 DEF Escapes
  <2>3. c # "/"
    BY <2>2 DEF Escape
  <2>4. Meant(u) = c
    BY <2>2, EscapeOne
  <2>5. "/" \in Characters
    BY DEF Characters, Delimiters
  <2>6. QED
    BY <1>2, <2>3, <2>4, <2>5
<1>3. QED
  BY <1>1, <1>2

\* The encoded text of a path keeps its slashes, and escapes none.
LEMMA PathUnitsOf ==
    ASSUME NEW v \in Seq(Plain \cup Delimiters), NEW w, w = encode(v, {":", "/"})
    PROVE  /\ w \in Texts(Units) /\ Size(w) = Len(v) /\ decode(w) = v /\ Unescaped(w)
           /\ \A k \in 1 .. Len(v) : w[k] = "/" <=> v[k] = "/"
<1>1. {":", "/"} \in SUBSET Delimiters
  BY DEF Delimiters
<1>2. w \in Texts(Units) /\ Size(w) = Len(v) /\ decode(w) = v
  BY <1>1, EncodeAt, DecodeEncode
<1>3. ASSUME NEW k \in 1 .. Len(v) PROVE w[k] # "%2F" /\ (w[k] = "/" <=> v[k] = "/")
  <2>1. w[k] = IF v[k] \in Plain \cup {":", "/"} THEN v[k] ELSE Escape(v[k])
    BY DEF encode
  <2>2. v[k] \in Plain \cup Delimiters
    OBVIOUS
  <2>3. "/" \in Delimiters /\ "%2F" = Escape("/") /\ "%2F" \in Escapes
    BY DEF Delimiters, Escape, Escapes
  <2>4. CASE v[k] \in Plain \cup {":", "/"}
    <3>1. v[k] \in Characters
      BY <2>2 DEF Characters
    <3>2. "%2F" \notin Characters
      BY <2>3, EscapeOne
    <3>3. QED
      BY <2>1, <2>4, <3>1, <3>2
  <2>5. CASE v[k] \notin Plain \cup {":", "/"}
    <3>1. v[k] \in Delimiters /\ v[k] # "/"
      BY <2>2, <2>5
    <3>2. w[k] = Escape(v[k]) /\ w[k] \notin Characters /\ Meant(w[k]) = v[k]
      BY <2>1, <2>5, <3>1, EscapeOne
    <3>3. Meant("%2F") = "/" /\ "/" \in Characters
      BY <2>3, EscapeOne DEF Characters
    <3>4. QED
      BY <3>1, <3>2, <3>3
  <2>6. QED
    BY <2>4, <2>5
<1>4. QED
  BY <1>2, <1>3 DEF Unescaped

\* Joined texts are decoded one by one, and escape a slash only if one of them does.
LEMMA DecodeJoined ==
    ASSUME NEW a \in Texts(Units), NEW b \in Texts(Units), NEW t, t = Joined(a, b)
    PROVE  /\ decode(t) = Joined(decode(a), decode(b))
           /\ Unescaped(a) /\ Unescaped(b) => Unescaped(t)
<1>1. PICK n, m : n = Size(a) /\ m = Size(b)
  OBVIOUS
<1>2. n \in Nat /\ m \in Nat
  BY <1>1, EmptyText
<1>3. t \in Texts(Units) /\ Size(t) = n + m /\ Copied(a, 0, n, t, 0) /\ Copied(b, 0, m, t, n)
  BY <1>1, <1>2, JoinedCopies
<1>4. PICK x, y, z : x = decode(a) /\ y = decode(b) /\ z = Joined(x, y)
  OBVIOUS
<1>5. /\ x \in Texts(Characters) /\ Size(x) = n /\ \A k \in 1 .. n : x[k] = Meant(a[k])
      /\ y \in Texts(Characters) /\ Size(y) = m /\ \A k \in 1 .. m : y[k] = Meant(b[k])
  BY <1>1, <1>4, DecodeAt
<1>6. z \in Texts(Characters) /\ Size(z) = n + m /\ Copied(x, 0, n, z, 0) /\ Copied(y, 0, m, z, n)
  BY <1>2, <1>4, <1>5, JoinedCopies
<1>7. /\ decode(t) \in Texts(Characters) /\ Size(decode(t)) = n + m
      /\ \A k \in 1 .. (n + m) : decode(t)[k] = Meant(t[k])
  BY <1>3, DecodeAt
<1>8. ASSUME NEW k \in 1 .. (n + m)
      PROVE  /\ z[k] = Meant(t[k])
             /\ \/ \E l \in 1 .. n : t[k] = a[l]
                \/ \E l \in 1 .. m : t[k] = b[l]
  <2>1. CASE k \in 1 .. n
    <3>1. k \in (0 + 1) .. n /\ k \in Int /\ k = 0 + (k - 0)
      BY <2>1
    <3>2. t[k] = a[k] /\ z[k] = x[k]
      BY <1>3, <1>6, <3>1 DEF Copied
    <3>3. QED
      BY <1>5, <2>1, <3>2
  <2>2. CASE k \notin 1 .. n
    <3>1. PICK l : l = k - n /\ l \in 1 .. m /\ l \in (0 + 1) .. m /\ k \in Int /\ k = n + (l - 0)
      BY <1>2, <2>2
    <3>2. t[k] = b[l] /\ z[k] = y[l]
      BY <1>3, <1>6, <3>1 DEF Copied
    <3>3. QED
      BY <1>5, <3>1, <3>2
  <2>3. QED
    BY <2>1, <2>2
<1>9. n + m \in Nat
  BY <1>2
<1>10. decode(t) = z
  BY <1>6, <1>7, <1>8, <1>9, SameText
<1>11. Unescaped(a) /\ Unescaped(b) => Unescaped(t)
  BY <1>1, <1>3, <1>8 DEF Unescaped
<1>12. QED
  BY <1>4, <1>10, <1>11

\* A piece of a text is decoded to the piece of what the text is decoded to.
LEMMA DecodePiece ==
    ASSUME NEW s \in Texts(Units), NEW n \in Nat, n <= Size(s), NEW q, q = Piece(s, 0, n)
    PROVE  decode(q) = Piece(decode(s), 0, n) /\ (Unescaped(s) => Unescaped(q)) /\ q \in Texts(Units)
<1>1. PICK x, y : x = decode(s) /\ y = Piece(x, 0, n)
  OBVIOUS
<1>2. /\ x \in Texts(Characters) /\ Size(x) = Size(s) /\ Size(s) \in Nat
      /\ \A k \in 1 .. Size(s) : x[k] = Meant(s[k])
  BY <1>1, DecodeAt
<1>3. 0 \in Nat /\ 0 <= n /\ n <= Size(x) /\ n - 0 = n
  BY <1>2
<1>4. q \in Texts(Units) /\ Size(q) = n - 0 /\ \A k \in 1 .. (n - 0), m \in Int : m = 0 + k => q[k] = s[m]
  BY <1>3, PieceAt
<1>5. y \in Texts(Characters) /\ Size(y) = n - 0 /\ \A k \in 1 .. (n - 0), m \in Int : m = 0 + k => y[k] = x[m]
  BY <1>1, <1>2, <1>3, PieceAt
<1>6. \A k \in 1 .. n : k \in 1 .. (n - 0) /\ k \in Int /\ k = 0 + k /\ k \in 1 .. Size(s)
  BY <1>2
<1>7. \A k \in 1 .. n : q[k] = s[k] /\ y[k] = x[k] /\ y[k] = Meant(q[k])
  BY <1>2, <1>4, <1>5, <1>6
<1>8. Size(q) = n /\ Size(y) = n
  BY <1>3, <1>4, <1>5
<1>9. decode(q) \in Texts(Characters) /\ Size(decode(q)) = n /\ \A k \in 1 .. n : decode(q)[k] = Meant(q[k])
  BY <1>4, <1>8, DecodeAt
<1>10. decode(q) = y
  BY <1>5, <1>7, <1>8, <1>9, SameText
<1>11. Unescaped(s) => Unescaped(q)
  BY <1>6, <1>7, <1>8 DEF Unescaped
<1>12. QED
  BY <1>1, <1>4, <1>10, <1>11

\* What set_path() stores is the path, with a slash before it if it had none.
LEMMA PathTextValue ==
    ASSUME NEW v \in Seq(Plain \cup Delimiters), v # <<>>
    PROVE  /\ decode(PathText(v)) = IF v[1] = "/" THEN v ELSE <<"/">> \o v
           /\ Unescaped(PathText(v))
<1>1. PICK w, a : w = encode(v, {":", "/"}) /\ a = <<"/">>
  OBVIOUS
<1>2. /\ w \in Texts(Units) /\ Size(w) = Len(v) /\ decode(w) = v /\ Unescaped(w)
      /\ \A k \in 1 .. Len(v) : w[k] = "/" <=> v[k] = "/"
  BY <1>1, PathUnitsOf
<1>3. 1 \in 1 .. Len(v)
  BY EmptyText
<1>4. PathText(v) = IF v[1] = "/" THEN w ELSE Joined(a, w)
  BY <1>1, <1>2, <1>3 DEF PathText, Joined
<1>5. a \in Texts(Units) /\ Size(a) = 1 /\ a[1] = "/"
  BY <1>1, OneUnit, UnitSets
<1>6. decode(a) = a /\ Unescaped(a)
  <2>1. Bare(a, 0) = a
    BY <1>1, NothingMeant
  <2>2. \A k \in 1 .. Size(a) : k = 1
    BY <1>5
  <2>3. Unescaped(a)
    BY <1>5, <2>2 DEF Unescaped
  <2>4. QED
    BY <1>5, <2>1, <2>3, BareWhole
<1>7. decode(Joined(a, w)) = Joined(a, v) /\ Unescaped(Joined(a, w))
  BY <1>2, <1>5, <1>6, DecodeJoined
<1>8. QED
  BY <1>1, <1>2, <1>4, <1>7 DEF Joined

\* What append_path() stores is the old path and the new one behind it.
LEMMA AppendValue ==
    ASSUME NEW p \in Texts(Units), Unescaped(p), Size(p) > 1,
           NEW v \in Seq(Plain \cup Delimiters), v # <<>>, v[1] # "/",
           NEW w, w = encode(v, {":", "/"}),
           NEW q, q = p \o (IF p[Len(p)] = "/" THEN w ELSE <<"/">> \o w)
    PROVE  decode(q) = Promise!Appended(decode(p), v) /\ Unescaped(q) /\ q \in Texts(Units)
<1>1. PICK a, x : a = <<"/">> /\ x = decode(p)
  OBVIOUS
<1>2. w \in Texts(Units) /\ decode(w) = v /\ Unescaped(w)
  BY PathUnitsOf
<1>3. a \in Texts(Units) /\ Size(a) = 1 /\ a[1] = "/"
  BY <1>1, OneUnit, UnitSets
<1>4. decode(a) = a /\ Unescaped(a)
  <2>1. Bare(a, 0) = a
    BY <1>1, NothingMeant
  <2>2. \A k \in 1 .. Size(a) : k = 1
    BY <1>3
  <2>3. Unescaped(a)
    BY <1>3, <2>2 DEF Unescaped
  <2>4. QED
    BY <1>3, <2>1, <2>3, BareWhole
<1>5. Size(x) = Size(p) /\ Size(p) \in Nat /\ \A k \in 1 .. Size(p) : x[k] = Meant(p[k])
  BY <1>1, DecodeAt
<1>6. p[Size(p)] \in Units /\ p[Size(p)] # "%2F" /\ Size(p) \in 1 .. Size(p)
  <2>1. Size(p) \in 1 .. Size(p)
    BY <1>5
  <2>2. p[Size(p)] \in Units
    BY <2>1 DEF Texts, Size
  <2>3. QED
    BY <2>1, <2>2 DEF Unescaped
<1>7. x[Size(x)] = "/" <=> p[Size(p)] = "/"
  BY <1>5, <1>6, SlashMeant
<1>8. ~(Len(x) <= 1)
  BY <1>5 DEF Size
<1>9. PICK b : b = IF p[Size(p)] = "/" THEN w ELSE Joined(a, w)
  OBVIOUS
<1>10. q = Joined(p, b)
  BY <1>1, <1>9 DEF Joined, Size
<1>11. /\ b \in Texts(Units) /\ Unescaped(b)
       /\ decode(b) = IF p[Size(p)] = "/" THEN v ELSE Joined(a, v)
  <2>1. Joined(a, w) \in Texts(Units)
    BY <1>2, <1>3, JoinedAt
  <2>2. decode(Joined(a, w)) = Joined(a, v) /\ Unescaped(Joined(a, w))
    BY <1>2, <1>3, <1>4, DecodeJoined
  <2>3. QED
    BY <1>2, <1>9, <2>1, <2>2
<1>12. decode(q) = Joined(x, decode(b)) /\ Unescaped(q) /\ q \in Texts(Units)
  BY <1>1, <1>10, <1>11, DecodeJoined, JoinedAt
<1>13. Promise!Appended(x, v) = Joined(x, decode(b))
  <2>1. CASE p[Size(p)] = "/"
    <3>1. x[Len(x)] = "/"
      BY <1>7, <2>1 DEF Size
    <3>2. Promise!Appended(x, v) = x \o v
      BY <1>8, <3>1 DEF Promise!Appended
    <3>3. QED
      BY <1>11, <2>1, <3>2 DEF Joined
  <2>2. CASE p[Size(p)] # "/"
    <3>1. x[Len(x)] # "/"
      BY <1>7, <2>2 DEF Size
    <3>2. Promise!Appended(x, v) = x \o <<"/">> \o v
      BY <1>8, <3>1 DEF Promise!Appended
    <3>3. x \in Texts(Characters) /\ v \in Texts(Characters) /\ a \in Texts(Characters)
      <4>1. "/" \in Characters
        BY DEF Characters, Delimiters
      <4>2. QED
        BY <1>1, <4>1, DecodeAt, OneUnit DEF Texts, Characters
    <3>4. Joined(Joined(x, a), v) = Joined(x, Joined(a, v))
      BY <3>3, JoinedJoined
    <3>5. QED
      BY <1>1, <1>11, <2>2, <3>2, <3>4 DEF Joined
  <2>3. QED
    BY <2>1, <2>2
<1>14. QED
  BY <1>1, <1>12, <1>13

\* What parent() keeps of the path is the path of the parent.
LEMMA ParentValue ==
    ASSUME NEW p \in Texts(Units), Unescaped(p), NEW q, Upper(p, q)
    PROVE  decode(q) = Promise!Parent(decode(p)) /\ Unescaped(q)
<1>1. PICK x : x = decode(p)
  OBVIOUS
<1>2. Size(x) = Size(p) /\ Size(p) \in Nat /\ \A k \in 1 .. Size(p) : x[k] = Meant(p[k])
  BY <1>1, DecodeAt
<1>3. PICK c \in 1 .. (Size(p) - 1) :
          /\ p[c] = "/" /\ \A m \in 1 .. (Size(p) - 1) : p[m] = "/" => m <= c
          /\ q = Piece(p, 0, c)
  BY DEF Upper
<1>4. ASSUME NEW k \in 1 .. (Size(p) - 1) PROVE x[k] = "/" <=> p[k] = "/"
  <2>1. k \in 1 .. Size(p)
    BY <1>2
  <2>2. p[k] \in Units /\ p[k] # "%2F"
    BY <2>1 DEF Texts, Size, Unescaped
  <2>3. QED
    BY <1>2, <2>1, <2>2, SlashMeant
<1>5. PICK inner : inner = {k \in 1 .. (Size(p) - 1) : x[k] = "/"}
  OBVIOUS
<1>6. c \in inner /\ \A m \in inner : m <= c
  BY <1>3, <1>4, <1>5
<1>7. (CHOOSE k \in inner : \A m \in inner : m <= k) = c
  <2>1. \A k \in inner : k \in Int
    BY <1>5
  <2>2. \A k \in inner : (\A m \in inner : m <= k) => k = c
    BY <1>6, <2>1
  <2>3. QED
    BY <1>6, <2>2
<1>8. Len(x) - 1 = Size(p) - 1
  BY <1>2 DEF Size
<1>9. Promise!Parent(x) = SubSeq(x, 1, c)
  BY <1>5, <1>6, <1>7, <1>8 DEF Promise!Parent
<1>10. c \in Nat /\ c <= Size(p)
  BY <1>2
<1>11. decode(q) = Piece(x, 0, c) /\ Unescaped(q)
  BY <1>1, <1>3, <1>10, DecodePiece
<1>12. Piece(x, 0, c) = SubSeq(x, 1, c)
  <2>1. 0 + 1 = 1
    OBVIOUS
  <2>2. QED
    BY ONLY <2>1 DEF Piece
<1>13. QED
  BY <1>1, <1>9, <1>11, <1>12

-----------------------------------------------------------------------------
(* Every call is one of those that UriElements allows                      *)

\* The values that a call may set.
LEMMA SettableIs ==
    ASSUME NEW e
    PROVE  /\ Promise!Settable(e, "scheme") = {<<a[1]>> : a \in Args["scheme"]}
           /\ Promise!Settable(e, "user") = Args["user"]
           /\ \A n \in {"password", "host", "port", "fragment"} : Promise!Settable(e, n) = Args[n] \cup {<<>>}
           /\ Promise!Settable(e, "query") = {decode(v) : v \in Args["query"]} \cup {<<>>}
           /\ Promise!Settable(e, "path") =
                  {IF v[1] = "/" THEN v ELSE <<"/">> \o v : v \in Args["path"] \ {<<>>}}
                      \cup {Promise!Appended(e.path, v) : v \in Args["path"] \ {<<>>}}
                      \cup (IF Len(e.path) > 1 THEN {<<>>} ELSE {})
<1>1. /\ ElementValues["scheme"] = {<<a[1]>> : a \in Args["scheme"]}
      /\ ElementValues["user"] = Args["user"]
      /\ \A n \in {"password", "host", "port", "fragment"} : ElementValues[n] = Args[n]
      /\ ElementValues["query"] = {decode(v) : v \in Args["query"]}
      /\ ElementValues["path"] = {IF v[1] = "/" THEN v ELSE <<"/">> \o v : v \in Args["path"] \ {<<>>}}
  BY DEF ElementValues
<1>2. Promise!Settable(e, "scheme") = {<<a[1]>> : a \in Args["scheme"]}
  BY <1>1 DEF Promise!Settable
<1>3. Promise!Settable(e, "user") = Args["user"]
  BY <1>1 DEF Promise!Settable
<1>4. \A n \in {"password", "host", "port", "fragment"} : Promise!Settable(e, n) = Args[n] \cup {<<>>}
  BY <1>1 DEF Promise!Settable
<1>5. Promise!Settable(e, "query") = {decode(v) : v \in Args["query"]} \cup {<<>>}
  BY <1>1 DEF Promise!Settable
<1>6. Promise!Settable(e, "path") =
          {IF v[1] = "/" THEN v ELSE <<"/">> \o v : v \in Args["path"] \ {<<>>}}
              \cup {Promise!Appended(e.path, v) : v \in Args["path"] \ {<<>>}}
              \cup (IF Len(e.path) > 1 THEN {<<>>} ELSE {})
  BY <1>1 DEF Promise!Settable
<1>7. QED
  BY <1>2, <1>3, <1>4, <1>5, <1>6

\* A call that sets one element to a value it may have.
LEMMA CallOne ==
    ASSUME NEW s, NEW o, NEW n \in Promise!Names, NEW x, x \in Promise!Settable(Read(s, o), n),
           NEW f, f = [Read(s, o) EXCEPT ![n] = x]
    PROVE  Promise!Call(Read(s, o), f)
<1>1. n \in DOMAIN Read(s, o)
  BY DEF Read, Promise!Names
<1>2. f[n] = x
  BY <1>1
<1>3. QED
  BY <1>2 DEF Promise!Call

\* A part that is replaced is one element that is set.
LEMMA OneField ==
    ASSUME NEW s, NEW o, NEW t, NEW r, NEW i \in 0..7, NEW new, Part(t, r, i) = new,
           \A m \in 0..7 : m # i => Part(t, r, m) = Part(s, o, m)
    PROVE  /\ i = 0 => Read(t, r) = [Read(s, o) EXCEPT !["scheme"] = Word(new)]
           /\ i = 1 => Read(t, r) = [Read(s, o) EXCEPT !["user"] = Bare(new, 0)]
           /\ i = 2 => Read(t, r) = [Read(s, o) EXCEPT !["password"] = Secret(new)]
           /\ i = 3 => Read(t, r) = [Read(s, o) EXCEPT !["host"] = Bare(new, 0)]
           /\ i = 4 => Read(t, r) = [Read(s, o) EXCEPT !["port"] = Bare(new, 1)]
           /\ i = 5 => Read(t, r) = [Read(s, o) EXCEPT !["path"] = Bare(new, 0)]
           /\ i = 6 => Read(t, r) = [Read(s, o) EXCEPT !["query"] = Bare(new, 1)]
           /\ i = 7 => Read(t, r) = [Read(s, o) EXCEPT !["fragment"] = Bare(new, 1)]
<1>1. CASE i = 0
  BY <1>1 DEF Read
<1>2. CASE i = 1
  BY <1>2 DEF Read
<1>3. CASE i = 2
  BY <1>3 DEF Read
<1>4. CASE i = 3
  BY <1>4 DEF Read
<1>5. CASE i = 4
  BY <1>5 DEF Read
<1>6. CASE i = 5
  BY <1>6 DEF Read
<1>7. CASE i = 6
  BY <1>7 DEF Read
<1>8. CASE i = 7
  BY <1>8 DEF Read
<1>9. QED
  BY <1>1, <1>2, <1>3, <1>4, <1>5, <1>6, <1>7, <1>8

\* What a step may do to the elements.
Calls(s, o, t, r) == Promise!Call(Read(s, o), Read(t, r)) /\ Unescaped(Part(t, r, 5))

\* A step that replaces a part, and what it may put there.
LEMMA SpliceCalls ==
    ASSUME InOrder(text_, ofs), Unescaped(Part(text_, ofs, 5)),
           NEW i \in 0..7, NEW new \in Texts(Units), Splice(i, new),
           NEW e, e = Read(text_, ofs),
           i = 0 => Word(new) \in Promise!Settable(e, "scheme"),
           i = 1 => Bare(new, 0) \in Promise!Settable(e, "user"),
           i = 2 => Secret(new) \in Promise!Settable(e, "password"),
           i = 3 => Bare(new, 0) \in Promise!Settable(e, "host"),
           i = 4 => Bare(new, 1) \in Promise!Settable(e, "port"),
           i = 5 => Bare(new, 0) \in Promise!Settable(e, "path") /\ Unescaped(new),
           i = 6 => Bare(new, 1) \in Promise!Settable(e, "query"),
           i = 7 => Bare(new, 1) \in Promise!Settable(e, "fragment")
    PROVE  Calls(text_, ofs, text_', ofs')
<1>1. PICK s, o, t, r : s = text_ /\ o = ofs /\ t = text_' /\ r = ofs'
  OBVIOUS
<1>2. Part(t, r, i) = new /\ \A m \in 0..7 : m # i => Part(t, r, m) = Part(s, o, m)
  BY <1>1, SpliceParts
<1>3. Unescaped(Part(t, r, 5))
  BY <1>1, <1>2
<1>4. e = Read(s, o)
  BY <1>1
<1>5. \E n \in Promise!Names : \E x \in Promise!Settable(Read(s, o), n) : Read(t, r) = [Read(s, o) EXCEPT ![n] = x]
  <2>1. {"scheme", "user", "password", "host", "port", "path", "query", "fragment"} \subseteq Promise!Names
    BY DEF Promise!Names
  <2>2. CASE i = 0
    BY <1>2, <1>4, <2>1, <2>2, OneField
  <2>3. CASE i = 1
    BY <1>2, <1>4, <2>1, <2>3, OneField
  <2>4. CASE i = 2
    BY <1>2, <1>4, <2>1, <2>4, OneField
  <2>5. CASE i = 3
    BY <1>2, <1>4, <2>1, <2>5, OneField
  <2>6. CASE i = 4
    BY <1>2, <1>4, <2>1, <2>6, OneField
  <2>7. CASE i = 5
    BY <1>2, <1>4, <2>1, <2>7, OneField
  <2>8. CASE i = 6
    BY <1>2, <1>4, <2>1, <2>8, OneField
  <2>9. CASE i = 7
    BY <1>2, <1>4, <2>1, <2>9, OneField
  <2>10. QED
    BY <2>2, <2>3, <2>4, <2>5, <2>6, <2>7, <2>8, <2>9
<1>6. Promise!Call(Read(s, o), Read(t, r))
  BY <1>5, CallOne
<1>7. QED
  BY <1>1, <1>3, <1>6 DEF Calls

\* set_scheme().
LEMMA SchemeCalls ==
    ASSUME InStep, Unescaped(Part(text_, ofs, 5)),
           NEW a \in Args["scheme"], set_scheme(a[1], a[2], a[3])
    PROVE  Calls(text_, ofs, text_', ofs')
<1>1. PICK word : word = a[1]
  OBVIOUS
<1>2. word \in Words
  BY <1>1, UriAssumption
<1>3. PICK new : new \in {<<word, ":", "/", "/">>, <<word, ":">>} /\ Splice(0, new)
  BY <1>1 DEF set_scheme
<1>4. new \in Texts(Units)
  BY <1>2, <1>3, SchemeWord
<1>5. Word(new) = <<word>>
  BY <1>3 DEF Word
<1>6. Word(new) \in Promise!Settable(Read(text_, ofs), "scheme")
  BY <1>1, <1>5, SettableIs
<1>7. QED
  BY <1>3, <1>4, <1>6, SpliceCalls DEF InStep

\* The password, host and fragment setters, with something to set.
LEMMA NameCalls ==
    ASSUME InStep, Unescaped(Part(text_, ofs, 5)),
           \/ \E v \in Args["password"] : v # <<>> /\ Splice(Password, <<":">> \o encode(v, {}) \o <<"@">>)
           \/ \E v \in Args["host"] : v # <<>> /\ Splice(Host, encode(v, {}))
           \/ \E v \in Args["fragment"] : v # <<>> /\ Splice(Fragment, <<"#">> \o encode(v, {}))
           \/ \E v \in Args["user"] : v # <<>> /\ Splice(User, encode(v, {}))
    PROVE  Calls(text_, ofs, text_', ofs')
<1>0. \A n \in {"user", "password", "host", "path", "fragment"} : Args[n] \subseteq Seq(Plain \cup Delimiters)
  BY UriAssumption
<1>00. InOrder(text_, ofs) /\ {} \in SUBSET Delimiters
  BY DEF InStep
<1>1. ASSUME NEW v \in Args["password"], Splice(Password, <<":">> \o encode(v, {}) \o <<"@">>)
      PROVE  Calls(text_, ofs, text_', ofs')
  <2>1. v \in Seq(Plain \cup Delimiters)
    BY <1>0
  <2>2. PICK t : t = <<":">> \o encode(v, {}) \o <<"@">>
    OBVIOUS
  <2>3. t \in Texts(Units) /\ Secret(t) = v
    BY <2>1, <2>2, PasswordText, SecretOf
  <2>4. Secret(t) \in Promise!Settable(Read(text_, ofs), "password")
    BY <2>3, SettableIs
  <2>5. Splice(2, t)
    BY <1>1, <2>2 DEF Password
  <2>6. QED
    BY <1>00, <2>3, <2>4, <2>5, SpliceCalls
<1>2. ASSUME NEW v \in Args["host"], Splice(Host, encode(v, {}))
      PROVE  Calls(text_, ofs, text_', ofs')
  <2>1. v \in Seq(Plain \cup Delimiters)
    BY <1>0
  <2>2. PICK t : t = encode(v, {})
    OBVIOUS
  <2>3. t \in Texts(Units) /\ Bare(t, 0) = v
    BY <1>00, <2>1, <2>2, EncodedName, BareWhole, DecodeEncode
  <2>4. Bare(t, 0) \in Promise!Settable(Read(text_, ofs), "host")
    BY <2>3, SettableIs
  <2>5. Splice(3, t)
    BY <1>2, <2>2 DEF Host
  <2>6. QED
    BY <1>00, <2>3, <2>4, <2>5, SpliceCalls
<1>3. ASSUME NEW v \in Args["fragment"], Splice(Fragment, <<"#">> \o encode(v, {}))
      PROVE  Calls(text_, ofs, text_', ofs')
  <2>1. v \in Seq(Plain \cup Delimiters)
    BY <1>0
  <2>2. PICK w, t : w = encode(v, {}) /\ t = Joined(<<"#">>, w)
    OBVIOUS
  <2>3. w \in Texts(Units) /\ decode(w) = v
    BY <1>00, <2>1, <2>2, EncodedName, DecodeEncode
  <2>4. t \in Texts(Units) /\ Bare(t, 1) = v
    BY <2>2, <2>3, BareOf, Prefixed, UnitSets
  <2>5. Bare(t, 1) \in Promise!Settable(Read(text_, ofs), "fragment")
    BY <2>4, SettableIs
  <2>6. Splice(7, t)
    BY <1>3, <2>2 DEF Fragment, Joined
  <2>7. QED
    BY <1>00, <2>4, <2>5, <2>6, SpliceCalls
<1>4. ASSUME NEW v \in Args["user"], Splice(User, encode(v, {}))
      PROVE  Calls(text_, ofs, text_', ofs')
  <2>1. v \in Seq(Plain \cup Delimiters)
    BY <1>0
  <2>2. PICK t : t = encode(v, {})
    OBVIOUS
  <2>3. t \in Texts(Units) /\ Bare(t, 0) = v
    BY <1>00, <2>1, <2>2, EncodedName, BareWhole, DecodeEncode
  <2>4. Bare(t, 0) \in Promise!Settable(Read(text_, ofs), "user")
    BY <2>3, SettableIs
  <2>5. Splice(1, t)
    BY <1>4, <2>2 DEF User
  <2>6. QED
    BY <1>00, <2>3, <2>4, <2>5, SpliceCalls
<1>5. QED
  BY <1>1, <1>2, <1>3, <1>4

\* The port and query setters, with something to set.
LEMMA PlainCalls ==
    ASSUME InStep, Unescaped(Part(text_, ofs, 5)),
           \/ \E v \in Args["port"] : v # <<>> /\ Splice(Port, <<":">> \o v)
           \/ \E v \in Args["query"] : v # <<>> /\ Splice(Query, <<"?">> \o v)
    PROVE  Calls(text_, ofs, text_', ofs')
<1>0. InOrder(text_, ofs)
  BY DEF InStep
<1>1. ASSUME NEW v \in Args["port"], Splice(Port, <<":">> \o v)
      PROVE  Calls(text_, ofs, text_', ofs')
  <2>1. v \in Seq(Numbers)
    BY UriAssumption
  <2>2. v \in Texts(Units) /\ \A k \in 1 .. Size(v) : v[k] \in Characters
    <3>1. Numbers \subseteq Units /\ Numbers \subseteq Characters
      BY UnitSets, UnitsAre DEF Characters
    <3>2. \A k \in 1 .. Len(v) : v[k] \in Numbers
      BY <2>1
    <3>3. v \in Seq(Units)
      BY <2>1, <3>1
    <3>4. QED
      BY <3>1, <3>2, <3>3 DEF Texts, Size
  <2>3. PICK t : t = Joined(<<":">>, v)
    OBVIOUS
  <2>4. t \in Texts(Units) /\ Bare(t, 1) = v
    BY <2>2, <2>3, BareOf, DecodeValue, Prefixed, UnitSets
  <2>5. Bare(t, 1) \in Promise!Settable(Read(text_, ofs), "port")
    BY <2>4, SettableIs
  <2>6. Splice(4, t)
    BY <1>1, <2>3 DEF Port, Joined
  <2>7. QED
    BY <1>0, <2>4, <2>5, <2>6, SpliceCalls
<1>2. ASSUME NEW v \in Args["query"], Splice(Query, <<"?">> \o v)
      PROVE  Calls(text_, ofs, text_', ofs')
  <2>1. v \in Texts(Units)
    BY UriAssumption DEF Texts
  <2>2. PICK t : t = Joined(<<"?">>, v)
    OBVIOUS
  <2>3. t \in Texts(Units) /\ Bare(t, 1) = decode(v)
    BY <2>1, <2>2, BareOf, Prefixed, UnitSets
  <2>4. Bare(t, 1) \in Promise!Settable(Read(text_, ofs), "query")
    BY <2>3, SettableIs
  <2>5. Splice(6, t)
    BY <1>2, <2>2 DEF Query, Joined
  <2>6. QED
    BY <1>0, <2>3, <2>4, <2>5, SpliceCalls
<1>3. QED
  BY <1>1, <1>2

\* set_path() and append_path(), with something to set.
LEMMA PathCalls ==
    ASSUME InStep, Unescaped(Part(text_, ofs, 5)), NEW v \in Args["path"], v # <<>>,
           \/ Splice(Path, PathText(v))
           \/ v[1] # "/" /\ Has(Path) /\ append_path(v)
    PROVE  Calls(text_, ofs, text_', ofs')
<1>0. InOrder(text_, ofs) /\ v \in Seq(Plain \cup Delimiters)
  BY UriAssumption DEF InStep
<1>1. CASE Splice(Path, PathText(v))
  <2>1. PICK t : t = PathText(v)
    OBVIOUS
  <2>2. t \in Texts(Units) /\ decode(t) = (IF v[1] = "/" THEN v ELSE <<"/">> \o v) /\ Unescaped(t)
    BY <1>0, <2>1, PathTextIs, PathTextValue
  <2>3. Bare(t, 0) = IF v[1] = "/" THEN v ELSE <<"/">> \o v
    BY <2>2, BareWhole
  <2>4. Bare(t, 0) \in Promise!Settable(Read(text_, ofs), "path")
    BY <2>3, SettableIs
  <2>5. Splice(5, t)
    BY <1>1, <2>1 DEF Path
  <2>6. QED
    BY <1>0, <2>2, <2>4, <2>5, SpliceCalls
<1>2. CASE ~Splice(Path, PathText(v))
  <2>1. PICK p, w : p = Part(text_, ofs, 5) /\ w = encode(v, {":", "/"})
    OBVIOUS
  <2>2. PICK q : q = p \o (IF p[Len(p)] = "/" THEN w ELSE <<"/">> \o w)
    OBVIOUS
  <2>3. v[1] # "/" /\ Has(Path) /\ Splice(5, q)
    BY <1>2, <2>1, <2>2 DEF append_path, set_path, Path
  <2>4. p \in Texts(Units) /\ Size(p) > 1 /\ Unescaped(p)
    BY <1>0, <2>1, <2>3, PartText, HasIs DEF Path
  <2>5. decode(q) = Promise!Appended(decode(p), v) /\ Unescaped(q) /\ q \in Texts(Units)
    BY <1>0, <2>1, <2>2, <2>3, <2>4, AppendValue
  <2>6. Read(text_, ofs).path = decode(p)
    <3>1. Read(text_, ofs).path = Bare(p, 0)
      BY <2>1 DEF Read
    <3>2. QED
      BY <2>4, <3>1, BareWhole
  <2>7. Bare(q, 0) = Promise!Appended(Read(text_, ofs).path, v)
    BY <2>5, <2>6, BareWhole
  <2>8. Bare(q, 0) \in Promise!Settable(Read(text_, ofs), "path")
    BY <2>7, SettableIs
  <2>9. QED
    BY <1>0, <2>3, <2>5, <2>8, SpliceCalls
<1>3. QED
  BY <1>1, <1>2

\* The clearers of one element, which leave nothing to read in its part.
LEMMA ClearCalls ==
    ASSUME InStep, Unescaped(Part(text_, ofs, 5)),
           clear_password \/ clear_host \/ clear_port \/ clear_path \/ clear_query \/ clear_fragment
    PROVE  Calls(text_, ofs, text_', ofs')
<1>1. PICK e : e = Read(text_, ofs)
  OBVIOUS
<1>2. InOrder(text_, ofs)
  BY DEF InStep
<1>3. /\ \A n \in {"password", "host", "port", "fragment"} : <<>> \in Promise!Settable(e, n)
      /\ <<>> \in Promise!Settable(e, "query")
  BY SettableIs
<1>4. CASE clear_password
  <2>1. PICK p : p = <<"@">>
    OBVIOUS
  <2>2. p \in Texts(Units) /\ Secret(p) = <<>> /\ Splice(2, p)
    BY <1>4, <2>1, OneUnit, UnitSets, NothingMeant DEF clear_password, Password
  <2>3. Secret(p) \in Promise!Settable(e, "password")
    BY <1>3, <2>2
  <2>4. QED
    BY <1>1, <1>2, <2>2, <2>3, SpliceCalls
<1>5. CASE clear_path
  <2>1. PICK p : p = Part(text_, ofs, 5)
    OBVIOUS
  <2>2. p \in Texts(Units) /\ Size(p) > 1 /\ Splice(5, <<>>)
    BY <1>2, <1>5, <2>1, HasIs, PartText DEF clear_path, Path
  <2>3. e.path = decode(p)
    BY <1>1, <2>1, <2>2, BareWhole DEF Read
  <2>4. Len(e.path) > 1
    BY <2>2, <2>3, DecodeAt DEF Size
  <2>5. <<>> \in Promise!Settable(e, "path")
    BY <2>4, SettableIs
  <2>6. Unescaped(<<>>)
    BY NoUnits DEF Unescaped
  <2>7. QED
    BY <1>1, <1>2, <2>2, <2>5, <2>6, NoUnits, NothingMeant, SpliceCalls
<1>6. CASE clear_host \/ clear_port \/ clear_query \/ clear_fragment
  <2>1. PICK i \in {3, 4, 6, 7} : Splice(i, <<>>)
    BY <1>6 DEF clear_host, clear_port, clear_query, clear_fragment, Host, Port, Query, Fragment
  <2>2. QED
    BY <1>1, <1>2, <1>3, <2>1, NoUnits, NothingMeant, SpliceCalls
<1>7. QED
  BY <1>4, <1>5, <1>6

\* Each setter of one part, given a value or none.
LEMMA SetCalls ==
    ASSUME InStep, Unescaped(Part(text_, ofs, 5)),
           \/ \E v \in Args["password"] : set_password(v)
           \/ \E v \in Args["host"] : set_host(v)
           \/ \E v \in Args["port"] : set_port(v)
           \/ \E v \in Args["path"] : set_path(v) \/ append_path(v)
           \/ \E v \in Args["query"] : set_query(v)
           \/ \E v \in Args["fragment"] : set_fragment(v)
    PROVE  Calls(text_, ofs, text_', ofs')
<1>1. ASSUME NEW v \in Args["password"], set_password(v) PROVE Calls(text_, ofs, text_', ofs')
  <2>1. clear_password \/ (v # <<>> /\ Splice(Password, <<":">> \o encode(v, {}) \o <<"@">>))
    BY <1>1 DEF set_password
  <2>2. QED
    BY <2>1, ClearCalls, NameCalls
<1>2. ASSUME NEW v \in Args["host"], set_host(v) PROVE Calls(text_, ofs, text_', ofs')
  <2>1. clear_host \/ (v # <<>> /\ Splice(Host, encode(v, {})))
    BY <1>2 DEF set_host
  <2>2. QED
    BY <2>1, ClearCalls, NameCalls
<1>3. ASSUME NEW v \in Args["port"], set_port(v) PROVE Calls(text_, ofs, text_', ofs')
  <2>1. clear_port \/ (v # <<>> /\ Splice(Port, <<":">> \o v))
    BY <1>3 DEF set_port
  <2>2. QED
    BY <2>1, ClearCalls, PlainCalls
<1>4. ASSUME NEW v \in Args["path"], set_path(v) \/ append_path(v) PROVE Calls(text_, ofs, text_', ofs')
  <2>1. \/ clear_path
        \/ v # <<>> /\ Splice(Path, PathText(v))
        \/ v # <<>> /\ v[1] # "/" /\ Has(Path) /\ append_path(v)
    BY <1>4 DEF set_path, append_path
  <2>2. QED
    BY <2>1, ClearCalls, PathCalls
<1>5. ASSUME NEW v \in Args["query"], set_query(v) PROVE Calls(text_, ofs, text_', ofs')
  <2>1. clear_query \/ (v # <<>> /\ Splice(Query, <<"?">> \o v))
    BY <1>5 DEF set_query
  <2>2. QED
    BY <2>1, ClearCalls, PlainCalls
<1>6. ASSUME NEW v \in Args["fragment"], set_fragment(v) PROVE Calls(text_, ofs, text_', ofs')
  <2>1. clear_fragment \/ (v # <<>> /\ Splice(Fragment, <<"#">> \o encode(v, {})))
    BY <1>6 DEF set_fragment
  <2>2. QED
    BY <2>1, ClearCalls, NameCalls
<1>7. QED
  BY <1>1, <1>2, <1>3, <1>4, <1>5, <1>6

\* A call that leaves no user and no password.
LEMMA CallLogin ==
    ASSUME NEW e, NEW f, f = [e EXCEPT !.user = <<>>], NEW g, g = [f EXCEPT !.password = <<>>]
    PROVE  Promise!Call(e, g)
<1>1. g = [e EXCEPT !.user = <<>>, !.password = <<>>]
  BY Zenon
<1>2. QED
  BY <1>1, Zenon DEF Promise!Call

\* A call that leaves the path or goes up in it, with nothing behind it.
LEMMA CallTail ==
    ASSUME NEW e, NEW p \in {e.path, Promise!Parent(e.path), IF e.path = <<>> THEN <<>> ELSE <<"/">>},
           NEW f, f = [e EXCEPT !.path = p], NEW g, g = [f EXCEPT !.query = <<>>],
           NEW h, h = [g EXCEPT !.fragment = <<>>]
    PROVE  Promise!Call(e, h)
<1>1. h = [e EXCEPT !.path = p, !.query = <<>>, !.fragment = <<>>]
  BY Zenon
<1>2. QED
  BY <1>1, Zenon DEF Promise!Call

\* clear_user() and set_user(), which writes "@" with the first user.
LEMMA UserCalls ==
    ASSUME InStep, Unescaped(Part(text_, ofs, 5)),
           clear_user \/ \E v \in Args["user"] : set_user(v)
    PROVE  Calls(text_, ofs, text_', ofs')
<1>1. PICK s, o, t, r : s = text_ /\ o = ofs /\ t = text_' /\ r = ofs'
  OBVIOUS
<1>2. ASSUME LoginNow(<<>>, <<>>) PROVE Calls(text_, ofs, text_', ofs')
  <2>1. /\ Part(t, r, 1) = <<>> /\ Part(t, r, 2) = <<>>
        /\ \A m \in {0, 3, 4, 5, 6, 7} : Part(t, r, m) = Part(s, o, m)
    BY <1>1, <1>2 DEF LoginNow
  <2>2. Bare(Part(t, r, 1), 0) = <<>> /\ Secret(Part(t, r, 2)) = <<>>
    BY <2>1, NothingMeant
  <2>3. Promise!Call(Read(s, o), Read(t, r))
    <3>1. PICK e, f, g : e = Read(s, o) /\ f = [e EXCEPT !.user = <<>>] /\ g = [f EXCEPT !.password = <<>>]
      OBVIOUS
    <3>2. Promise!Call(e, g)
      BY ONLY <3>1, CallLogin
    <3>3. Read(t, r) = g
      <4>1. f = [Read(s, o) EXCEPT !.user = <<>>]
        BY <3>1
      <4>2. f = [scheme |-> Word(Part(s, o, 0)), user |-> <<>>, password |-> Secret(Part(s, o, 2)),
                 host |-> Bare(Part(s, o, 3), 0), port |-> Bare(Part(s, o, 4), 1),
                 path |-> Bare(Part(s, o, 5), 0), query |-> Bare(Part(s, o, 6), 1),
                 fragment |-> Bare(Part(s, o, 7), 1)]
        BY <4>1 DEF Read
      <4>3. Read(t, r) = [scheme |-> Word(Part(s, o, 0)), user |-> <<>>, password |-> <<>>,
                 host |-> Bare(Part(s, o, 3), 0), port |-> Bare(Part(s, o, 4), 1),
                 path |-> Bare(Part(s, o, 5), 0), query |-> Bare(Part(s, o, 6), 1),
                 fragment |-> Bare(Part(s, o, 7), 1)]
        BY <2>1, <2>2 DEF Read
      <4>4. g = [f EXCEPT !.password = <<>>]
        BY <3>1
      <4>5. QED
        BY ONLY <4>2, <4>3, <4>4
    <3>4. QED
      BY <3>1, <3>2, <3>3
  <2>4. Unescaped(Part(t, r, 5))
    BY <1>1, <2>1
  <2>5. QED
    BY <1>1, <2>3, <2>4 DEF Calls
<1>3. ASSUME NEW v \in Args["user"], set_user(v), v # <<>> PROVE Calls(text_, ofs, text_', ofs')
  <2>1. v \in Seq(Plain \cup Delimiters) /\ {} \in SUBSET Delimiters
    BY UriAssumption
  <2>2. PICK w : w = encode(v, {})
    OBVIOUS
  <2>3. w \in Texts(Units) /\ Bare(w, 0) = v
    BY <2>1, <2>2, EncodedName, BareWhole, DecodeEncode
  <2>4. OneNow(1, encode(v, {})) \/ (LoginNow(encode(v, {}), <<"@">>) /\ Part(text_, ofs, 2) = <<>>)
    BY <1>3, <2>1, SetUserStep
  <2>5. /\ Part(t, r, 1) = w
        /\ \A m \in {0, 3, 4, 5, 6, 7} : Part(t, r, m) = Part(s, o, m)
        /\ Part(t, r, 2) = Part(s, o, 2) \/ (Part(t, r, 2) = <<"@">> /\ Part(s, o, 2) = <<>>)
    BY <1>1, <2>2, <2>4 DEF OneNow, LoginNow
  <2>6. Secret(Part(t, r, 2)) = Secret(Part(s, o, 2))
    BY <2>5, NothingMeant
  <2>7. Read(t, r) = [Read(s, o) EXCEPT !["user"] = v]
    BY <2>3, <2>5, <2>6 DEF Read
  <2>8. v \in Promise!Settable(Read(s, o), "user") /\ "user" \in Promise!Names
    BY SettableIs DEF Promise!Names
  <2>9. Promise!Call(Read(s, o), Read(t, r))
    BY <2>7, <2>8, CallOne
  <2>10. Unescaped(Part(t, r, 5))
    BY <1>1, <2>5
  <2>11. QED
    BY <1>1, <2>9, <2>10 DEF Calls
<1>4. ASSUME NEW v \in Args["user"], set_user(v), v = <<>> PROVE LoginNow(<<>>, <<>>)
  <2>1. v \in Seq(Plain \cup Delimiters)
    BY UriAssumption
  <2>2. QED
    BY <1>4, <2>1, SetUserStep
<1>5. QED
  BY <1>2, <1>3, <1>4, ClearUserStep

\* A path cut short, with nothing behind it, is read as one.
LEMMA TailRead ==
    ASSUME NEW s, NEW o, NEW t, NEW r,
           \A m \in 0..4 : Part(t, r, m) = Part(s, o, m),
           Part(t, r, 6) = <<>>, Part(t, r, 7) = <<>>, NEW e, e = Read(s, o),
           NEW p \in {e.path, Promise!Parent(e.path), IF e.path = <<>> THEN <<>> ELSE <<"/">>},
           Bare(Part(t, r, 5), 0) = p
    PROVE  Promise!Call(Read(s, o), Read(t, r))
<1>1. PICK f, g, h : /\ f = [e EXCEPT !.path = p] /\ g = [f EXCEPT !.query = <<>>]
                     /\ h = [g EXCEPT !.fragment = <<>>]
  OBVIOUS
<1>2. Promise!Call(e, h)
  BY ONLY <1>1, p \in {e.path, Promise!Parent(e.path), IF e.path = <<>> THEN <<>> ELSE <<"/">>}, CallTail
<1>3. /\ Part(t, r, 0) = Part(s, o, 0) /\ Part(t, r, 1) = Part(s, o, 1) /\ Part(t, r, 2) = Part(s, o, 2)
      /\ Part(t, r, 3) = Part(s, o, 3) /\ Part(t, r, 4) = Part(s, o, 4)
  OBVIOUS
<1>4. Read(t, r) = h
  <2>1. f = [Read(s, o) EXCEPT !.path = p]
    BY <1>1
  <2>2. Read(t, r) = [scheme |-> Word(Part(s, o, 0)), user |-> Bare(Part(s, o, 1), 0),
                      password |-> Secret(Part(s, o, 2)), host |-> Bare(Part(s, o, 3), 0),
                      port |-> Bare(Part(s, o, 4), 1), path |-> p, query |-> <<>>, fragment |-> <<>>]
    BY <1>3, NothingMeant DEF Read
  <2>3. f = [scheme |-> Word(Part(s, o, 0)), user |-> Bare(Part(s, o, 1), 0),
             password |-> Secret(Part(s, o, 2)), host |-> Bare(Part(s, o, 3), 0),
             port |-> Bare(Part(s, o, 4), 1), path |-> p, query |-> Bare(Part(s, o, 6), 1),
             fragment |-> Bare(Part(s, o, 7), 1)]
    BY <2>1 DEF Read
  <2>4. g = [scheme |-> Word(Part(s, o, 0)), user |-> Bare(Part(s, o, 1), 0),
             password |-> Secret(Part(s, o, 2)), host |-> Bare(Part(s, o, 3), 0),
             port |-> Bare(Part(s, o, 4), 1), path |-> p, query |-> <<>>,
             fragment |-> Bare(Part(s, o, 7), 1)]
    <3>1. g = [f EXCEPT !.query = <<>>]
      BY <1>1
    <3>2. QED
      BY ONLY <2>3, <3>1
  <2>5. QED
    <3>1. h = [g EXCEPT !.fragment = <<>>]
      BY <1>1
    <3>2. QED
      BY ONLY <2>2, <2>4, <3>1
<1>5. QED
  BY <1>2, <1>4

\* doc(), base(), parent() and root() keep the front of the text.
LEMMA RelatedCalls ==
    ASSUME InStep, Unescaped(Part(text_, ofs, 5)), text_ # <<>>, doc \/ base \/ parent \/ root
    PROVE  Calls(text_, ofs, text_', ofs')
<1>1. PICK s, o, t, r, e, x : s = text_ /\ o = ofs /\ t = text_' /\ r = ofs' /\ e = Read(s, o) /\ x = Part(s, o, 5)
  OBVIOUS
<1>2. x \in Texts(Units) /\ Unescaped(x) /\ e.path = decode(x)
  <2>1. x \in Texts(Units) /\ Unescaped(x)
    BY <1>1, PartText DEF InStep
  <2>2. e.path = Bare(x, 0)
    BY <1>1 DEF Read
  <2>3. QED
    BY <2>1, <2>2, BareWhole
<1>3. x = <<>> <=> e.path = <<>>
  <2>1. Size(decode(x)) = Size(x) /\ decode(x) \in Texts(Characters)
    BY <1>2, DecodeAt
  <2>2. QED
    BY <1>2, <2>1, EmptyText
<1>4. ASSUME TailNow(7, <<>>) PROVE Calls(text_, ofs, text_', ofs')
  <2>1. Part(t, r, 7) = <<>> /\ \A m \in 0..7 : m # 7 => Part(t, r, m) = Part(s, o, m)
    BY <1>1, <1>4 DEF TailNow
  <2>2. Read(t, r) = [Read(s, o) EXCEPT !["fragment"] = <<>>]
    BY <2>1, OneField, NothingMeant
  <2>3. <<>> \in Promise!Settable(Read(s, o), "fragment") /\ "fragment" \in Promise!Names
    BY SettableIs DEF Promise!Names
  <2>4. Promise!Call(Read(s, o), Read(t, r))
    BY <2>2, <2>3, CallOne
  <2>5. Unescaped(Part(t, r, 5))
    BY <1>1, <1>2, <2>1
  <2>6. QED
    BY <1>1, <2>4, <2>5 DEF Calls
<1>5. ASSUME TailNow(6, <<>>) PROVE Calls(text_, ofs, text_', ofs')
  <2>1. Part(t, r, 6) = <<>> /\ Part(t, r, 7) = <<>> /\ \A m \in 0..5 : Part(t, r, m) = Part(s, o, m)
    BY <1>1, <1>5 DEF TailNow
  <2>2. Bare(Part(t, r, 5), 0) = e.path /\ Unescaped(Part(t, r, 5))
    BY <1>1, <1>2, <2>1, BareWhole
  <2>3. Promise!Call(Read(s, o), Read(t, r))
    BY <1>1, <2>1, <2>2, TailRead
  <2>4. QED
    BY <1>1, <2>2, <2>3 DEF Calls
<1>6. ASSUME NEW new \in Texts(Units), TailNow(5, new), Unescaped(new),
             Bare(new, 0) \in {e.path, Promise!Parent(e.path), IF e.path = <<>> THEN <<>> ELSE <<"/">>}
      PROVE  Calls(text_, ofs, text_', ofs')
  <2>1. Part(t, r, 5) = new /\ Part(t, r, 6) = <<>> /\ Part(t, r, 7) = <<>> /\ \A m \in 0..4 : Part(t, r, m) = Part(s, o, m)
    BY <1>1, <1>6 DEF TailNow
  <2>2. Promise!Call(Read(s, o), Read(t, r))
    BY <1>1, <1>6, <2>1, TailRead
  <2>3. QED
    BY <1>1, <1>6, <2>1, <2>2 DEF Calls
<1>7. CASE doc
  BY <1>4, <1>7, DocStep
<1>8. CASE base
  BY <1>5, <1>8, BaseStep
<1>9. CASE parent
  <2>1. CASE TailNow(6, <<>>)
    BY <1>5, <2>1
  <2>2. ASSUME NEW new, TailNow(5, new), Upper(x, new) PROVE Calls(text_, ofs, text_', ofs')
    <3>1. decode(new) = Promise!Parent(e.path) /\ Unescaped(new)
      BY <1>2, <2>2, ParentValue
    <3>2. new \in Texts(Units)
      <4>1. PICK c \in 1 .. (Size(x) - 1) : new = Piece(x, 0, c)
        BY <2>2 DEF Upper
      <4>2. 0 \in Nat /\ c \in Nat /\ 0 <= c /\ c <= Size(x)
        BY <1>2, EmptyText
      <4>3. QED
        BY <1>2, <4>1, <4>2, PieceAt
    <3>3. Bare(new, 0) = Promise!Parent(e.path)
      BY <3>1, <3>2, BareWhole
    <3>4. QED
      BY <1>6, <2>2, <3>1, <3>2, <3>3
  <2>3. QED
    BY <1>1, <1>9, <2>1, <2>2, ParentStep
<1>10. CASE root
  <2>1. PICK new \in {<<>>, <<"/">>} : TailNow(5, new) /\ (new = <<>> <=> x = <<>>)
    BY <1>1, <1>10, RootStep
  <2>2. new = IF e.path = <<>> THEN <<>> ELSE <<"/">>
    BY <1>3, <2>1
  <2>3. Bare(new, 0) = new
    BY <2>1, NothingMeant
  <2>4. new \in Texts(Units) /\ Unescaped(new)
    <3>1. CASE new = <<>>
      BY <3>1, NoUnits DEF Unescaped
    <3>2. CASE new = <<"/">>
      <4>1. new \in Texts(Units) /\ Size(new) = 1 /\ new[1] = "/"
        BY <3>2, OneUnit, UnitSets
      <4>2. QED
        BY <4>1 DEF Unescaped
    <3>3. QED
      BY <2>1, <3>1, <3>2
  <2>5. QED
    BY <1>6, <2>1, <2>2, <2>3, <2>4
<1>11. QED
  BY <1>7, <1>8, <1>9, <1>10

\* The strings to parse hold no escaped slash in a path.  The getter of the path
\* decodes it, but parent() and append_path() look for a slash in the text.
SlashesPlain == \A s \in Strings : Parsings[s] # {} => Unescaped(Part(s, Greediest(Parsings[s]), 5))

\* What try_parse() leaves is what it read.
LEMMA ParseCalls ==
    ASSUME SlashesPlain, NEW s \in Strings, try_parse(s)
    PROVE  Elements(text_', ofs') \in ParsedElements /\ Unescaped(Part(text_', ofs', 5))
<1>1. PICK o : o = Greediest(Parsings[s])
  OBVIOUS
<1>2. Parsings[s] # {} /\ text_' = s /\ ofs' = o
  BY <1>1 DEF try_parse
<1>3. Elements(s, o) \in ParsedElements
  BY <1>1, <1>2 DEF ParsedElements
<1>4. Unescaped(Part(s, o, 5))
  BY <1>1, <1>2 DEF SlashesPlain
<1>5. QED
  BY <1>2, <1>3, <1>4

\* No call does to the elements what the specification of a Uri forbids.
LEMMA EveryCall ==
    ASSUME SlashesPlain, InStep, Unescaped(Part(text_, ofs, 5)), Next
    PROVE  Promise!Call(Elements(text_, ofs), Elements(text_', ofs')) /\ Unescaped(Part(text_', ofs', 5))
<1>1. PICK s, o, t, r : s = text_ /\ o = ofs /\ t = text_' /\ r = ofs'
  OBVIOUS
<1>2. Elements(s, o) = Read(s, o)
  BY <1>1, ReadIs DEF InStep
<1>3. InStep'
  BY UriStep
<1>4. Elements(t, r) = Read(t, r) /\ (t = <<>> => Elements(t, r) = Promise!None)
  <2>1. InOrder(t, r) /\ (t # <<>> => SchemeOk(Part(t, r, 0)))
    BY <1>1, <1>3 DEF InStep
  <2>2. QED
    BY <2>1, ReadIs
<1>5. ASSUME Calls(text_, ofs, text_', ofs')
      PROVE  Promise!Call(Elements(s, o), Elements(t, r)) /\ Unescaped(Part(t, r, 5))
  BY <1>1, <1>2, <1>4, <1>5 DEF Calls
<1>6. ASSUME NEW a \in Args["scheme"], set_scheme(a[1], a[2], a[3])
      PROVE  Calls(text_, ofs, text_', ofs')
  BY <1>6, SchemeCalls
<1>7. Setters => Calls(text_, ofs, text_', ofs')
  <2>1. (\E v \in Args["user"] : set_user(v)) => Calls(text_, ofs, text_', ofs')
    BY UserCalls
  <2>2. (\/ \E v \in Args["password"] : set_password(v)
         \/ \E v \in Args["host"] : set_host(v)
         \/ \E v \in Args["port"] : set_port(v)
         \/ \E v \in Args["path"] : set_path(v) \/ append_path(v)
         \/ \E v \in Args["query"] : set_query(v)
         \/ \E v \in Args["fragment"] : set_fragment(v)) => Calls(text_, ofs, text_', ofs')
    BY SetCalls
  <2>3. QED
    BY ONLY <1>6, <2>1, <2>2 DEF Setters
<1>8. Clearers => Calls(text_, ofs, text_', ofs')
  <2>1. clear_user => Calls(text_, ofs, text_', ofs')
    BY UserCalls
  <2>2. (clear_password \/ clear_host \/ clear_port \/ clear_path \/ clear_query \/ clear_fragment)
          => Calls(text_, ofs, text_', ofs')
    BY ClearCalls
  <2>3. QED
    BY ONLY <2>1, <2>2 DEF Clearers
<1>9. Related => clear \/ Calls(text_, ofs, text_', ofs')
  <2>1. text_ # <<>> /\ (doc \/ base \/ parent \/ root) => Calls(text_, ofs, text_', ofs')
    BY RelatedCalls
  <2>2. QED
    BY ONLY <2>1 DEF Related
<1>10. ASSUME clear PROVE Promise!Call(Elements(s, o), Elements(t, r)) /\ Unescaped(Part(t, r, 5))
  <2>1. t = <<>>
    BY <1>1, <1>10 DEF clear
  <2>2. Promise!Call(Elements(s, o), Elements(t, r))
    BY <1>4, <2>1 DEF Promise!Call
  <2>3. Part(t, r, 5) = <<>>
    <3>1. InOrder(<<>>, r)
      BY <1>1, <1>3, <2>1 DEF InStep
    <3>2. QED
      BY <2>1, <3>1, NoParts
  <2>4. Unescaped(Part(t, r, 5))
    BY <2>3, NoUnits DEF Unescaped
  <2>5. QED
    BY <2>2, <2>4
<1>11. ASSUME NEW w \in Strings, try_parse(w)
       PROVE  Promise!Call(Elements(s, o), Elements(t, r)) /\ Unescaped(Part(t, r, 5))
  <2>1. Elements(t, r) \in ParsedElements /\ Unescaped(Part(t, r, 5))
    BY <1>1, <1>11, ParseCalls
  <2>2. QED
    BY <2>1 DEF Promise!Call
<1>12. Promise!Call(Elements(s, o), Elements(t, r)) /\ Unescaped(Part(t, r, 5))
  <2>1. Setters \/ Clearers \/ Related \/ \E w \in Strings : try_parse(w)
    BY DEF Next
  <2>2. QED
    BY ONLY <1>5, <1>7, <1>8, <1>9, <1>10, <1>11, <2>1
<1>13. QED
  BY <1>1, <1>12

\* Every setter changes the element it names and no other, the related URIs go
\* up in the path or cut it off, and what a getter returns is what was set: the
\* text with its offsets implements eight independent values.
THEOREM UriEachItsOwn ==
    ASSUME SlashesPlain
    PROVE  Spec => EachItsOwn
<1>1. Init => InStep /\ Unescaped(Part(text_, ofs, 5)) /\ Promise!Init
  <2>1. ASSUME Init PROVE InStep /\ Unescaped(Part(text_, ofs, 5)) /\ Promise!Init
    <3>1. text_ = <<>> /\ InStep /\ InOrder(text_, ofs)
      BY <2>1, UriInit DEF Init, InStep
    <3>2. Part(text_, ofs, 5) = <<>>
      <4>1. InOrder(<<>>, ofs)
        BY <3>1
      <4>2. QED
        BY <3>1, <4>1, NoParts
    <3>3. Unescaped(Part(text_, ofs, 5))
      BY <3>2, NoUnits DEF Unescaped
    <3>4. Elements(text_, ofs) = Promise!None
      BY <3>1, ReadIs
    <3>5. QED
      BY <3>1, <3>3, <3>4 DEF Promise!Init
  <2>2. QED
    BY <2>1
<1>2. InStep /\ Unescaped(Part(text_, ofs, 5)) /\ [Next]_vars
          => /\ (InStep /\ Unescaped(Part(text_, ofs, 5)))'
             /\ [Promise!Next]_(Elements(text_, ofs))
  <2>1. ASSUME InStep, Unescaped(Part(text_, ofs, 5)), Next
        PROVE  Unescaped(Part(text_', ofs', 5)) /\ Promise!Next
    BY <2>1, EveryCall DEF Promise!Next
  <2>2. ASSUME InStep, Unescaped(Part(text_, ofs, 5)), UNCHANGED vars
        PROVE  Unescaped(Part(text_', ofs', 5)) /\ Elements(text_', ofs') = Elements(text_, ofs)
    BY <2>2 DEF vars
  <2>3. QED
    BY <2>1, <2>2, UriStep
<1>3. QED
  BY <1>1, <1>2, PTL DEF Spec, EachItsOwn, Promise!Spec
=============================================================================
