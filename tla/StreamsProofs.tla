---------------------------- MODULE StreamsProofs ---------------------------
(***************************************************************************)
(* Proofs about the process channels, the descriptors and temporary files, *)
(* the signal channel and the text of an IoBase: the systems that          *)
(* MCStreams runs side by side.                                            *)
(* Each has its own specification and its own inductive invariant.  What   *)
(* the operators of TextLines do comes first: where the lines of a text    *)
(* end, what stands behind a position, and texts put together.             *)
(***************************************************************************)
EXTENDS Process, Descriptors, PosixSignal, IoStream, FiniteSetTheorems,
        SequenceTheorems, WellFoundedInduction, TLAPS

-----------------------------------------------------------------------------
(* Texts and their lines                                                   *)

\* What is below what.
Below == {e \in Nat \X Nat : e[1] < e[2]}

\* Some numbers have a least.
LEMMA LeastOf ==
    ASSUME NEW T, T \subseteq Nat, T # {}
    PROVE  \E x \in T : \A y \in T : x <= y
<1>1. IsWellFoundedOn(Below, Nat)
  BY NatLessThanWellFounded DEF OpToRel, Below
<1>2. PICK x \in T : \A y \in T : ~ (<<y, x>> \in Below)
  BY <1>1, WFMin
<1>3. ASSUME NEW y \in T PROVE x <= y
  <2>1. x \in Nat /\ y \in Nat /\ <<y, x>> \notin Below
    BY <1>2
  <2>2. <<y, x>> \in Below <=> y < x
    BY <2>1 DEF Below
  <2>3. QED
    BY <2>1, <2>2
<1>4. QED
  BY <1>3

\* A text ends within itself.
LEMMA EndsIn ==
    ASSUME NEW S, NEW s \in Seq(S)
    PROVE  Ends(s) \subseteq 1 .. Len(s) /\ Len(s) \in Nat /\ \A j \in Ends(s) : j \in Nat /\ 0 < j
<1>1. Len(s) \in Nat /\ DOMAIN s = 1 .. Len(s)
  OBVIOUS
<1>2. QED
  BY <1>1 DEF Ends

\* The lines up to a position can be counted.
LEMMA EndsCount ==
    ASSUME NEW S, NEW s \in Seq(S), NEW i \in Nat
    PROVE  IsFiniteSet({j \in Ends(s) : j <= i}) /\ LinesTo(s, i) \in Nat
<1>1. IsFiniteSet(1 .. Len(s))
  BY EndsIn, FS_Interval
<1>2. {j \in Ends(s) : j <= i} \in SUBSET (1 .. Len(s))
  BY EndsIn
<1>3. IsFiniteSet({j \in Ends(s) : j <= i})
  BY <1>1, <1>2, FS_Subset
<1>4. QED
  BY <1>3, FS_CardinalityType DEF LinesTo

\* There are none up to 0, and more up to a later end.
LEMMA EndsGrow ==
    ASSUME NEW S, NEW s \in Seq(S)
    PROVE  /\ LinesTo(s, 0) = 0
           /\ \A i \in Nat, k \in Ends(s) : i < k => LinesTo(s, i) < LinesTo(s, k)
           /\ \A i, k \in Nat : i <= k => LinesTo(s, i) <= LinesTo(s, k)
<1>1. LinesTo(s, 0) = 0
  <2>1. {j \in Ends(s) : j <= 0} = {}
    BY EndsIn
  <2>2. QED
    BY <2>1, FS_EmptySet DEF LinesTo
<1>2. ASSUME NEW i \in Nat, NEW k \in Ends(s), i < k PROVE LinesTo(s, i) < LinesTo(s, k)
  <2>1. PICK I, K : I = {j \in Ends(s) : j <= i} /\ K = {j \in Ends(s) : j <= k}
    OBVIOUS
  <2>2. \A j \in Ends(s) : j \in Nat
    BY EndsIn
  <2>3. IsFiniteSet(I) /\ IsFiniteSet(K) /\ LinesTo(s, i) \in Nat /\ LinesTo(s, k) \in Nat
    BY <2>1, <2>2, EndsCount
  <2>4. I \in SUBSET K /\ k \in K /\ k \notin I
    BY <1>2, <2>1, <2>2
  <2>5. Cardinality(I) <= Cardinality(K) /\ Cardinality(I) # Cardinality(K)
    BY <2>3, <2>4, FS_Subset
  <2>6. LinesTo(s, i) = Cardinality(I) /\ LinesTo(s, k) = Cardinality(K)
    BY <2>1 DEF LinesTo
  <2>7. QED
    BY <2>3, <2>5, <2>6
<1>3. ASSUME NEW i \in Nat, NEW k \in Nat, i <= k PROVE LinesTo(s, i) <= LinesTo(s, k)
  <2>1. PICK I, K : I = {j \in Ends(s) : j <= i} /\ K = {j \in Ends(s) : j <= k}
    OBVIOUS
  <2>2. \A j \in Ends(s) : j \in Nat
    BY EndsIn
  <2>3. IsFiniteSet(I) /\ IsFiniteSet(K)
    BY <2>1, EndsCount
  <2>4. I \in SUBSET K
    BY <1>3, <2>1, <2>2
  <2>5. Cardinality(I) <= Cardinality(K)
    BY <2>3, <2>4, FS_Subset
  <2>6. QED
    BY <2>1, <2>5 DEF LinesTo
<1>4. QED
  BY <1>1, <1>2, <1>3

\* An end is known by the number of lines up to it.
LEMMA EndOne ==
    ASSUME NEW S, NEW s \in Seq(S), NEW i \in Ends(s)
    PROVE  (CHOOSE k \in Ends(s) : LinesTo(s, k) = LinesTo(s, i)) = i
<1>1. \A k \in Ends(s) : k \in Nat
  BY EndsIn
<1>2. ASSUME NEW k \in Ends(s), LinesTo(s, k) = LinesTo(s, i) PROVE k = i
  <2>1. i \in Nat /\ k \in Nat /\ LinesTo(s, i) \in Nat /\ LinesTo(s, k) \in Nat
    BY <1>1, EndsCount
  <2>2. ~(i < k) /\ ~(k < i)
    BY <1>2, <2>1, EndsGrow
  <2>3. QED
    BY <2>1, <2>2
<1>3. QED
  BY <1>2

\* From one end to the next is one line.
LEMMA NextLine ==
    ASSUME NEW S, NEW s \in Seq(S), NEW p \in Nat, p = 0 \/ p \in Ends(s), NEW q \in Ends(s), p < q,
           \A j \in Ends(s) : j <= p \/ q <= j
    PROVE  /\ LinesTo(s, q) = LinesTo(s, p) + 1 /\ LinesTo(s, p) \in Nat
           /\ LinesTo(s, q) \in 1 .. LinesTo(s, Len(s))
           /\ Cut(s)[LinesTo(s, q)] = SubSeq(s, p + 1, q)
<1>1. PICK I, K : I = {j \in Ends(s) : j <= p} /\ K = {j \in Ends(s) : j <= q}
  OBVIOUS
<1>2. q \in Nat /\ q <= Len(s) /\ Len(s) \in Nat /\ \A j \in Ends(s) : j \in Nat
  BY EndsIn
<1>3. K = I \cup {q} /\ q \notin I
  <2>1. ASSUME NEW j \in Ends(s) PROVE j <= q <=> j <= p \/ j = q
    <3>1. j \in Nat /\ q \in Nat /\ p \in Nat /\ p < q /\ (j <= p \/ q <= j)
      BY <1>2
    <3>2. QED
      BY ONLY <3>1
  <2>2. ~(q <= p)
    BY <1>2
  <2>3. \A j : j \in K <=> j \in I \cup {q}
    BY <1>1, <2>1, Zenon
  <2>4. QED
    BY <1>1, <2>2, <2>3
<1>4. IsFiniteSet(I) /\ LinesTo(s, p) \in Nat
  BY <1>1, EndsCount
<1>5. LinesTo(s, q) = LinesTo(s, p) + 1
  <2>1. Cardinality(K) = Cardinality(I) + 1
    BY <1>3, <1>4, FS_AddElement
  <2>2. QED
    BY <1>1, <2>1 DEF LinesTo
<1>6. LinesTo(s, q) <= LinesTo(s, Len(s)) /\ LinesTo(s, Len(s)) \in Nat
  BY <1>2, EndsGrow, EndsCount
<1>7. PICK k, n : k = LinesTo(s, q) /\ n = LinesTo(s, Len(s))
  OBVIOUS
<1>8. k \in 1 .. n /\ k - 1 = LinesTo(s, p)
  BY <1>4, <1>5, <1>6, <1>7
<1>9. (CHOOSE i \in Ends(s) : LinesTo(s, i) = k) = q
  BY <1>7, EndOne
<1>10. (IF k = 1 THEN 1 ELSE (CHOOSE i \in Ends(s) : LinesTo(s, i) = k - 1) + 1) = p + 1
  <2>1. CASE p = 0
    <3>1. LinesTo(s, p) = 0
      BY <2>1, EndsGrow
    <3>2. k = 1
      BY <1>5, <1>7, <3>1
    <3>3. QED
      BY <2>1, <3>2
  <2>2. CASE p # 0
    <3>1. p \in Ends(s) /\ 0 < p
      BY <2>2
    <3>2. LinesTo(s, 0) < LinesTo(s, p) /\ LinesTo(s, 0) = 0
      BY <3>1, EndsGrow
    <3>3. k # 1
      BY <1>4, <1>8, <3>2
    <3>4. (CHOOSE i \in Ends(s) : LinesTo(s, i) = k - 1) = p
      BY <1>8, <3>1, EndOne
    <3>5. QED
      BY <3>3, <3>4
  <2>3. QED
    BY <2>1, <2>2
<1>11. Cut(s)[k] = SubSeq(s, p + 1, q)
  BY <1>7, <1>8, <1>9, <1>10 DEF Cut
<1>12. QED
  BY <1>4, <1>5, <1>7, <1>8, <1>11

\* What stands in a text behind a position.
Follows(s, p, t) == \A i \in 1 .. Len(t) : t[i] = s[p + i]

\* All of it that there is between two positions.
LEMMA FollowsAll ==
    ASSUME NEW S, NEW s \in Seq(S), NEW t \in Seq(S), NEW p \in Nat, NEW n \in 0 .. Len(t),
           Follows(s, p, t), p + n <= Len(s)
    PROVE  SubSeq(t, 1, n) = SubSeq(s, p + 1, p + n)
<1>1. Len(s) \in Nat /\ Len(t) \in Nat /\ n \in Nat
  OBVIOUS
<1>2. /\ SubSeq(t, 1, n) \in Seq(S) /\ Len(SubSeq(t, 1, n)) = n
      /\ \A i \in 1 .. n : SubSeq(t, 1, n)[i] = t[i]
  BY <1>1
<1>3. PICK m \in Nat : m = p + n
  BY <1>1
<1>4. /\ SubSeq(s, p + 1, m) \in Seq(S) /\ Len(SubSeq(s, p + 1, m)) = n
      /\ \A i \in 1 .. n : SubSeq(s, p + 1, m)[i] = s[p + i]
  <2>1. \A i \in (p + 1) .. m : s[i] \in S
    BY <1>1, <1>3
  <2>2. /\ SubSeq(s, p + 1, m) \in Seq(S)
        /\ Len(SubSeq(s, p + 1, m)) = IF p + 1 <= m THEN m - (p + 1) + 1 ELSE 0
        /\ \A i \in 1 .. m - (p + 1) + 1 : SubSeq(s, p + 1, m)[i] = s[(p + 1) + i - 1]
    BY <2>1, SubSeqProperties
  <2>3. m - (p + 1) + 1 = n /\ (p + 1 <= m <=> n > 0)
    BY <1>1, <1>3
  <2>4. \A i \in 1 .. n : (p + 1) + i - 1 = p + i
    OBVIOUS
  <2>5. QED
    BY <1>1, <2>2, <2>3, <2>4
<1>5. \A i \in 1 .. n : t[i] = s[p + i]
  BY <1>1 DEF Follows
<1>6. QED
  BY <1>2, <1>3, <1>4, <1>5, SeqEqual
\* The first line feed of a text.
LEMMA FirstFeedIs ==
    ASSUME NEW S, NEW t \in Seq(S), HasFeed(t)
    PROVE  /\ FirstFeed(t) \in 1 .. Len(t) /\ t[FirstFeed(t)] = LF
           /\ \A j \in 1 .. (FirstFeed(t) - 1) : t[j] # LF
<1>1. Len(t) \in Nat /\ DOMAIN t = 1 .. Len(t)
  OBVIOUS
<1>2. PICK T : T = {i \in DOMAIN t : t[i] = LF}
  OBVIOUS
<1>3. PICK x \in T : \A y \in T : x <= y
  BY <1>1, <1>2, LeastOf DEF HasFeed
<1>4. x \in DOMAIN t /\ t[x] = LF /\ x \in Nat
  BY <1>1, <1>2, <1>3
<1>5. \A j \in 1 .. (x - 1) : t[j] # LF
  <2> SUFFICES ASSUME NEW j \in 1 .. (x - 1), t[j] = LF PROVE FALSE
    OBVIOUS
  <2>1. j \in DOMAIN t /\ ~(x <= j)
    BY <1>1, <1>4
  <2>2. QED
    BY <1>2, <1>3, <2>1
<1>6. \E i \in DOMAIN t : t[i] = LF /\ \A j \in 1 .. (i - 1) : t[j] # LF
  BY <1>4, <1>5
<1>7. QED
  BY <1>1, <1>6 DEF FirstFeed

\* What read() takes from a buffer: up to the first line feed, or all of it.
LEMMA ReadTakes ==
    ASSUME NEW S, NEW t \in Seq(S), t # <<>>
    PROVE  \E n \in 1 .. Len(t) :
             /\ n = (IF HasFeed(t) THEN FirstFeed(t) ELSE Len(t))
             /\ \A j \in 1 .. (n - 1) : t[j] # LF
             /\ t[n] = LF \/ (n = Len(t) /\ ~HasFeed(t))
<1>1. CASE HasFeed(t)
  BY <1>1, FirstFeedIs
<1>2. CASE ~HasFeed(t)
  <2>1. Len(t) \in Nat /\ Len(t) # 0
    BY EmptySeq
  <2>2. PICK n \in Nat : n = Len(t) /\ n \in 1 .. n
    BY <2>1
  <2>3. \A j \in 1 .. (n - 1) : j \in DOMAIN t
    BY <2>2
  <2>4. \A j \in 1 .. (n - 1) : t[j] # LF
    BY <1>2, <2>3 DEF HasFeed
  <2>5. n = (IF HasFeed(t) THEN FirstFeed(t) ELSE Len(t))
    BY <1>2, <2>2
  <2>6. QED
    BY <1>2, <2>2, <2>4, <2>5
<1>3. QED
  BY <1>1, <1>2

\* That is up to the next end, if the buffer follows the lines before it.
LEMMA ReadsToEnd ==
    ASSUME NEW S, NEW s \in Seq(S), NEW t \in Seq(S), NEW p \in Nat, Follows(s, p, t),
           p + Len(t) <= Len(s), NEW n \in 1 .. Len(t), \A j \in 1 .. (n - 1) : t[j] # LF,
           t[n] = LF \/ p + n = Len(s)
    PROVE  p + n \in Ends(s) /\ \A j \in Ends(s) : j <= p \/ p + n <= j
<1>1. Len(t) \in Nat /\ Len(s) \in Nat /\ n \in Nat
  OBVIOUS
<1>2. p + n \in 1 .. Len(s) /\ t[n] = s[p + n]
  BY <1>1 DEF Follows
<1>3. p + n \in Ends(s)
  BY <1>2 DEF Ends
<1>4. ASSUME NEW j \in Ends(s), ~(j <= p \/ p + n <= j) PROVE FALSE
  <2>1. j \in 1 .. Len(s) /\ (s[j] = LF \/ j = Len(s))
    BY DEF Ends
  <2>2. PICK i \in Int : i = j - p
    BY <2>1
  <2>3. PICK m \in Nat, l \in Nat : m = Len(t) /\ l = Len(s) /\ j \in 1 .. l /\ n \in 1 .. m /\ p + n <= l
    BY <1>1, <1>2, <2>1
  <2>4. p < j /\ j < p + n
    BY <1>4, <2>3
  <2>5. i \in 1 .. (n - 1) /\ i \in 1 .. m /\ j = p + i /\ j # l
    BY ONLY <2>2, <2>3, <2>4, p \in Nat
  <2>6. QED
    BY <2>1, <2>3, <2>5 DEF Follows
<1>5. QED
  BY <1>3, <1>4

\* One more of the values of a function.
LEMMA AppendOne ==
    ASSUME NEW f, NEW n \in Nat
    PROVE  Append([k \in 1 .. n |-> f[k]], f[n + 1]) = [k \in 1 .. n + 1 |-> f[k]]
<1>1. PICK T : \A k \in 1 .. n + 1 : f[k] \in T
  <2>1. \A k \in 1 .. n + 1 : f[k] \in {f[i] : i \in 1 .. n + 1}
    OBVIOUS
  <2>2. QED
    BY <2>1
<1>2. PICK a \in Seq(T), b \in Seq(T) : a = [k \in 1 .. n |-> f[k]] /\ b = [k \in 1 .. n + 1 |-> f[k]]
  <2>1. \A k \in 1 .. n : f[k] \in T
    BY <1>1
  <2>2. [k \in 1 .. n |-> f[k]] \in Seq(T)
    BY <2>1
  <2>3. [k \in 1 .. n + 1 |-> f[k]] \in Seq(T)
    BY <1>1
  <2>4. QED
    BY <2>2, <2>3
<1>3. Len(a) = n /\ Len(b) = n + 1 /\ \A k \in 1 .. n + 1 : b[k] = f[k] /\ (k # n + 1 => a[k] = f[k])
  BY <1>2
<1>4. f[n + 1] \in T
  BY <1>1
<1>5. PICK c \in Seq(T) : c = Append(a, f[n + 1])
  BY <1>4, AppendProperties
<1>6. Len(c) = n + 1 /\ c[n + 1] = f[n + 1] /\ \A k \in 1 .. n : c[k] = a[k]
  BY <1>3, <1>4, <1>5, AppendProperties
<1>7. c = b
  <2>1. Len(c) = Len(b)
    BY <1>3, <1>6
  <2>2. ASSUME NEW k \in 1 .. Len(c) PROVE c[k] = b[k]
    <3>1. k \in 1 .. n + 1 /\ (k # n + 1 => k \in 1 .. n)
      BY <1>6
    <3>2. b[k] = f[k] /\ (k # n + 1 => a[k] = f[k])
      BY <1>3, <3>1
    <3>3. QED
      BY <1>6, <3>1, <3>2
  <2>3. QED
    BY <2>1, <2>2, SeqEqual
<1>8. QED
  BY <1>2, <1>5, <1>7

\* The first of the values of a function are a prefix of more of them.
LEMMA FirstOnes ==
    ASSUME NEW f, NEW n \in Nat, NEW m \in Nat, n <= m
    PROVE  IsPrefix([k \in 1 .. n |-> f[k]], [k \in 1 .. m |-> f[k]])
<1>1. PICK T : \A k \in 1 .. m : f[k] \in T
  <2>1. \A k \in 1 .. m : f[k] \in {f[i] : i \in 1 .. m}
    OBVIOUS
  <2>2. QED
    BY <2>1
<1>2. PICK a \in Seq(T), b \in Seq(T) : a = [k \in 1 .. n |-> f[k]] /\ b = [k \in 1 .. m |-> f[k]]
  <2>1. \A k \in 1 .. n : f[k] \in T
    BY <1>1
  <2>2. [k \in 1 .. n |-> f[k]] \in Seq(T)
    BY <2>1
  <2>3. [k \in 1 .. m |-> f[k]] \in Seq(T)
    BY <1>1
  <2>4. QED
    BY <2>2, <2>3
<1>3. Len(a) = n /\ Len(b) = m /\ (\A k \in 1 .. m : b[k] = f[k]) /\ (\A k \in 1 .. n : a[k] = f[k])
  BY <1>2
<1>4. SubSeq(a, 1, n) = a
  BY <1>3, SubSeqFull
<1>5. SubSeq(b, 1, n) \in Seq(T) /\ Len(SubSeq(b, 1, n)) = n /\ \A k \in 1 .. n : SubSeq(b, 1, n)[k] = b[k]
  BY <1>3
<1>6. SubSeq(b, 1, n) = a
  BY <1>3, <1>5, SeqEqual
<1>7. QED
  BY <1>2, <1>3, <1>4, <1>6 DEF IsPrefix

\* A sequence follows one that follows.
LEMMA FollowsBoth ==
    ASSUME NEW S, NEW s, NEW p \in Nat, NEW a \in Seq(S), NEW b \in Seq(S),
           Follows(s, p, a), Follows(s, p + Len(a), b)
    PROVE  Follows(s, p, a \o b)
<1>1. /\ Len(a) \in Nat /\ Len(b) \in Nat /\ Len(a \o b) = Len(a) + Len(b)
      /\ \A i \in 1 .. Len(a) + Len(b) : (a \o b)[i] = IF i <= Len(a) THEN a[i] ELSE b[i - Len(a)]
  BY ConcatProperties
<1>2. ASSUME NEW i \in 1 .. Len(a) + Len(b) PROVE (a \o b)[i] = s[p + i]
  <2>1. CASE i <= Len(a)
    BY <1>1, <2>1 DEF Follows
  <2>2. CASE ~(i <= Len(a))
    <3>1. PICK j \in Nat : j = i - Len(a) /\ j \in 1 .. Len(b) /\ (p + Len(a)) + j = p + i
      BY <1>1, <2>2
    <3>2. (a \o b)[i] = b[j]
      BY <1>1, <2>2, <3>1
    <3>3. b[j] = s[(p + Len(a)) + j]
      BY <3>1 DEF Follows
    <3>4. QED
      BY <3>1, <3>2, <3>3
  <2>3. QED
    BY <2>1, <2>2
<1>3. QED
  BY <1>1, <1>2 DEF Follows

\* One that is taken from its front.
LEMMA FollowsRest ==
    ASSUME NEW S, NEW s, NEW p \in Nat, NEW t \in Seq(S), NEW n \in 0 .. Len(t), Follows(s, p, t)
    PROVE  /\ SubSeq(t, n + 1, Len(t)) \in Seq(S) /\ Len(SubSeq(t, n + 1, Len(t))) = Len(t) - n
           /\ Follows(s, p + n, SubSeq(t, n + 1, Len(t)))
<1>1. PICK m \in Nat : m = Len(t)
  OBVIOUS
<1>2. \A i \in (n + 1) .. m : t[i] \in S
  BY <1>1
<1>3. PICK r : r = SubSeq(t, n + 1, m)
  OBVIOUS
<1>4. n + 1 \in Int /\ m \in Int
  BY <1>1
<1>5. /\ r \in Seq(S) /\ Len(r) = IF n + 1 <= m THEN m - (n + 1) + 1 ELSE 0
      /\ \A i \in 1 .. m - (n + 1) + 1 : r[i] = t[(n + 1) + i - 1]
  BY <1>2, <1>3, <1>4, SubSeqProperties
<1>6. Len(r) = m - n
  BY <1>1, <1>5
<1>7. ASSUME NEW i \in 1 .. m - n PROVE r[i] = s[(p + n) + i]
  <2>1. (n + 1) + i - 1 = n + i /\ (p + n) + i = p + (n + i) /\ n + i \in 1 .. m /\ i \in 1 .. m - (n + 1) + 1
    BY <1>1
  <2>2. r[i] = t[n + i]
    BY <1>5, <2>1
  <2>3. t[n + i] = s[p + (n + i)]
    BY <1>1, <2>1 DEF Follows
  <2>4. QED
    BY <2>1, <2>2, <2>3
<1>8. QED
  BY <1>1, <1>3, <1>5, <1>6, <1>7 DEF Follows

\* One that gets the next of the text.
LEMMA FollowsMore ==
    ASSUME NEW S, NEW s, NEW p \in Nat, NEW t \in Seq(S), NEW x \in S, x = s[p + Len(t) + 1], Follows(s, p, t)
    PROVE  Follows(s, p, Append(t, x))
<1>1. /\ Len(t) \in Nat /\ Len(Append(t, x)) = Len(t) + 1
      /\ \A i \in 1 .. Len(t) + 1 : Append(t, x)[i] = IF i = Len(t) + 1 THEN x ELSE t[i]
  BY AppendProperties
<1>2. ASSUME NEW i \in 1 .. Len(t) + 1 PROVE Append(t, x)[i] = s[p + i]
  <2>1. CASE i = Len(t) + 1
    <3>1. p + i = p + Len(t) + 1
      BY <1>1, <2>1
    <3>2. QED
      BY <1>1, <2>1, <3>1
  <2>2. CASE i # Len(t) + 1
    BY <1>1, <2>2 DEF Follows
  <2>3. QED
    BY <2>1, <2>2
<1>3. QED
  BY <1>1, <1>2 DEF Follows

-----------------------------------------------------------------------------
(* Texts put together                                                      *)

\* A set that has 0, and with a number the next, has all of them up to a limit.
LEMMA UpTo ==
    ASSUME NEW N \in Nat, NEW G, 0 \in G, \A m \in 0 .. (N - 1) : m \in G => m + 1 \in G
    PROVE  \A m \in 0 .. N : m \in G
<1> SUFFICES ASSUME NEW k \in 0 .. N, k \notin G PROVE FALSE
  OBVIOUS
<1>1. PICK T : T = {m \in 0 .. N : m \notin G}
  OBVIOUS
<1>2. PICK x \in T : \A y \in T : x <= y
  BY <1>1, LeastOf
<1>3. x \in 0 .. N /\ x \notin G /\ x # 0
  BY <1>1, <1>2
<1>4. x - 1 \in 0 .. (N - 1) /\ x - 1 \in 0 .. N /\ (x - 1) + 1 = x
  BY <1>3
<1>5. x - 1 \notin G
  BY <1>3, <1>4
<1>6. x - 1 \in T
  BY <1>1, <1>4, <1>5
<1>7. QED
  BY <1>2, <1>3, <1>6

\* Texts can be put together, one after the other.
LEMMA TogetherIs ==
    ASSUME NEW S, NEW texts \in Seq(Seq(S))
    PROVE  /\ Together(texts) \in [0 .. Len(texts) -> Seq(S)]
           /\ Together(texts)[0] = <<>>
           /\ \A n \in 1 .. Len(texts) : Together(texts)[n] = Together(texts)[n - 1] \o texts[n]
<1>1. PICK N \in Nat : N = Len(texts)
  OBVIOUS
<1>2. PICK G : G = {m \in 0 .. N : \E g \in [0 .. m -> Seq(S)] :
                                     \A n \in 0 .. m : g[n] = IF n = 0 THEN <<>> ELSE g[n - 1] \o texts[n]}
  OBVIOUS
<1>3. 0 \in G
  <2>1. PICK g : g = [n \in 0 .. 0 |-> <<>>]
    OBVIOUS
  <2>2. g \in [0 .. 0 -> Seq(S)] /\ \A n \in 0 .. 0 : g[n] = IF n = 0 THEN <<>> ELSE g[n - 1] \o texts[n]
    BY <2>1
  <2>3. QED
    BY <1>2, <2>2
<1>4. ASSUME NEW m \in 0 .. (N - 1), m \in G PROVE m + 1 \in G
  <2>1. PICK g \in [0 .. m -> Seq(S)] : \A n \in 0 .. m : g[n] = IF n = 0 THEN <<>> ELSE g[n - 1] \o texts[n]
    BY <1>2, <1>4
  <2>2. m \in Nat /\ m + 1 \in 1 .. N /\ m \in 0 .. m
    OBVIOUS
  <2>3. texts[m + 1] \in Seq(S) /\ g[m] \in Seq(S)
    BY <1>1, <2>2, ElementOfSeq
  <2>4. PICK x \in Seq(S) : x = g[m] \o texts[m + 1]
    BY <2>3, ConcatProperties
  <2>5. PICK h : h = [n \in 0 .. m + 1 |-> IF n = m + 1 THEN x ELSE g[n]]
    OBVIOUS
  <2>6. h \in [0 .. m + 1 -> Seq(S)]
    BY <2>2, <2>4, <2>5
  <2>7. ASSUME NEW n \in 0 .. m + 1 PROVE h[n] = IF n = 0 THEN <<>> ELSE h[n - 1] \o texts[n]
    <3>1. CASE n = m + 1
      <4>1. n # 0 /\ n - 1 = m /\ m # m + 1 /\ m \in 0 .. m + 1
        BY <2>2, <3>1
      <4>2. h[n] = x /\ h[m] = g[m]
        BY <2>5, <3>1, <4>1
      <4>3. QED
        BY <2>4, <3>1, <4>1, <4>2
    <3>2. CASE n # m + 1
      <4>1. n \in 0 .. m /\ (n # 0 => n - 1 \in 0 .. m /\ n - 1 # m + 1 /\ n - 1 \in 0 .. m + 1)
        BY <2>2, <3>2
      <4>2. h[n] = g[n] /\ (n # 0 => h[n - 1] = g[n - 1])
        BY <2>5, <3>2, <4>1
      <4>3. g[n] = IF n = 0 THEN <<>> ELSE g[n - 1] \o texts[n]
        BY <2>1, <4>1
      <4>4. QED
        BY <4>2, <4>3
    <3>3. QED
      BY <3>1, <3>2
  <2>8. PICK k : k = m + 1 /\ k \in 0 .. N
    BY <2>2
  <2>9. \E i \in [0 .. k -> Seq(S)] : \A n \in 0 .. k : i[n] = IF n = 0 THEN <<>> ELSE i[n - 1] \o texts[n]
    BY <2>6, <2>7, <2>8, Zenon
  <2>10. k \in G
    BY <1>2, <2>8, <2>9, Zenon
  <2>11. QED
    BY <2>8, <2>10
<1>5. N \in G
  <2>1. \A m \in 0 .. N : m \in G
    BY <1>3, <1>4, UpTo
  <2>2. QED
    BY <2>1
<1>6. PICK g \in [0 .. N -> Seq(S)] : \A n \in 0 .. N : g[n] = IF n = 0 THEN <<>> ELSE g[n - 1] \o texts[n]
  BY <1>2, <1>5
<1>7. g = [n \in 0 .. N |-> IF n = 0 THEN <<>> ELSE g[n - 1] \o texts[n]]
  BY <1>6
<1>8. PICK f : f = Together(texts) /\ f = [n \in 0 .. N |-> IF n = 0 THEN <<>> ELSE f[n - 1] \o texts[n]]
  BY <1>1, <1>7 DEF Together
<1>9. f \in [0 .. N -> Seq(S)]
  <2>1. PICK E : E = {m \in 0 .. N : f[m] = g[m]}
    OBVIOUS
  <2>2. 0 \in E
    <3>1. 0 \in 0 .. N
      OBVIOUS
    <3>2. f[0] = <<>> /\ g[0] = <<>>
      BY <1>6, <1>8, <3>1
    <3>3. QED
      BY <2>1, <3>1, <3>2
  <2>3. ASSUME NEW m \in 0 .. (N - 1), m \in E PROVE m + 1 \in E
    <3>1. m + 1 \in 0 .. N /\ m + 1 # 0 /\ (m + 1) - 1 = m
      OBVIOUS
    <3>2. f[m + 1] = f[m] \o texts[m + 1]
      BY <1>8, <3>1
    <3>3. g[m + 1] = g[m] \o texts[m + 1]
      BY <1>6, <3>1
    <3>4. QED
      BY <2>1, <2>3, <3>1, <3>2, <3>3
  <2>4. \A m \in 0 .. N : f[m] = g[m]
    BY <2>1, <2>2, <2>3, UpTo
  <2>5. f = [n \in 0 .. N |-> g[n]]
    <3>1. \A n \in 0 .. N : g[n] = IF n = 0 THEN <<>> ELSE f[n - 1] \o texts[n]
      <4>1. \A n \in 0 .. N : n # 0 => n - 1 \in 0 .. N
        OBVIOUS
      <4>2. QED
        BY <1>6, <2>4, <4>1, Zenon
    <3>2. QED
      BY <1>8, <3>1, Zenon
  <2>6. [n \in 0 .. N |-> g[n]] \in [0 .. N -> Seq(S)]
    BY <1>6
  <2>7. QED
    BY <2>5, <2>6, Zenon
<1>10. f[0] = <<>> /\ \A n \in 1 .. N : f[n] = f[n - 1] \o texts[n]
  <2>1. 0 \in 0 .. N /\ \A n \in 1 .. N : n \in 0 .. N /\ n # 0
    OBVIOUS
  <2>2. QED
    BY <1>8, <2>1, Zenon
<1>11. QED
  BY <1>1, <1>8, <1>9, <1>10, Zenon

\* Where each of the texts ends when they are put together.
PlacesIn(texts, P) ==
    /\ P \in [0 .. Len(texts) -> Nat]
    /\ P[0] = 0 /\ P[Len(texts)] = Len(Concat(texts))
    /\ \A k \in 1 .. Len(texts) : /\ P[k] = P[k - 1] + Len(texts[k])
                                /\ Follows(Concat(texts), P[k - 1], texts[k])
    /\ \A k \in 0 .. Len(texts) : P[k] <= Len(Concat(texts))

\* Each of them has its place.
LEMMA Places ==
    ASSUME NEW S, NEW texts \in Seq(Seq(S))
    PROVE  Concat(texts) \in Seq(S) /\ \E P : PlacesIn(texts, P)
<1>0. PICK N \in Nat : N = Len(texts)
  OBVIOUS
<1>1. PICK f \in [0 .. N -> Seq(S)] : f = Together(texts) /\ f[0] = <<>> /\ \A n \in 1 .. N : f[n] = f[n - 1] \o texts[n]
  BY <1>0, TogetherIs
<1>2. PICK P \in [0 .. N -> Nat] : \A k \in 0 .. N : P[k] = Len(f[k])
  <2>1. \A k \in 0 .. N : Len(f[k]) \in Nat
    BY <1>1
  <2>2. [k \in 0 .. N |-> Len(f[k])] \in [0 .. N -> Nat]
    BY <2>1
  <2>3. QED
    BY <2>2
<1>3. P[0] = 0 /\ 0 \in 0 .. N
  <2>1. 0 \in 0 .. N /\ Len(f[0]) = 0
    BY <1>1
  <2>2. QED
    BY <1>2, <2>1
<1>4. ASSUME NEW k \in 1 .. N
      PROVE  /\ k - 1 \in 0 .. N /\ k \in 0 .. N /\ texts[k] \in Seq(S) /\ f[k] \in Seq(S) /\ f[k - 1] \in Seq(S)
             /\ f[k] = f[k - 1] \o texts[k] /\ P[k] = P[k - 1] + Len(texts[k]) /\ P[k] = Len(f[k]) /\ P[k - 1] = Len(f[k - 1])
             /\ P[k] \in Nat /\ P[k - 1] \in Nat /\ Len(texts[k]) \in Nat
  <2>1. k - 1 \in 0 .. N /\ k \in 0 .. N
    OBVIOUS
  <2>2. texts[k] \in Seq(S)
    BY <1>0
  <2>3. f[k] \in Seq(S) /\ f[k - 1] \in Seq(S) /\ f[k] = f[k - 1] \o texts[k]
    BY <1>1, <2>1
  <2>4. Len(f[k]) = Len(f[k - 1]) + Len(texts[k])
    BY <2>2, <2>3, ConcatProperties
  <2>5. P[k] = Len(f[k]) /\ P[k - 1] = Len(f[k - 1]) /\ P[k] \in Nat /\ P[k - 1] \in Nat
    BY <1>2, <2>1
  <2>6. Len(texts[k]) \in Nat
    BY <2>2
  <2>7. P[k] = P[k - 1] + Len(texts[k])
    BY <2>4, <2>5
  <2>8. QED
    BY <2>1, <2>2, <2>3, <2>5, <2>6, <2>7, Zenon
<1>5. PICK G : G = {m \in 0 .. N : \A k \in 1 .. N : k <= m => Follows(f[m], P[k - 1], texts[k]) /\ P[k] <= P[m]}
  OBVIOUS
<1>6. 0 \in G
  BY <1>5
<1>7. ASSUME NEW m \in 0 .. (N - 1), m \in G PROVE m + 1 \in G
  <2>1. PICK n \in 1 .. N : n = m + 1 /\ n - 1 = m /\ n \in 0 .. N
    OBVIOUS
  <2>2. /\ f[n] = f[m] \o texts[n] /\ f[m] \in Seq(S) /\ texts[n] \in Seq(S) /\ f[n] \in Seq(S)
        /\ P[n] = P[m] + Len(texts[n]) /\ P[m] = Len(f[m]) /\ Len(texts[n]) \in Nat /\ P[m] \in Nat
    BY <1>4, <2>1
  <2>3. PICK u \in Nat, l \in Nat : u = P[m] /\ l = Len(texts[n]) /\ u + l = P[n]
    BY <2>2
  <2>4. \A i \in 1 .. u + l : f[n][i] = IF i <= u THEN f[m][i] ELSE texts[n][i - u]
    BY <2>2, <2>3, ConcatProperties
  <2>5. ASSUME NEW k \in 1 .. N, k <= n PROVE Follows(f[n], P[k - 1], texts[k]) /\ P[k] <= P[n]
    <3>1. CASE k = n
      <4>1. ASSUME NEW i \in 1 .. l PROVE texts[n][i] = f[n][u + i]
        <5>1. PICK j \in Nat : j = u + i
          OBVIOUS
        <5>2. j - u = i /\ ~(j <= u) /\ j \in 1 .. u + l
          BY <5>1
        <5>3. QED
          BY <2>4, <5>1, <5>2
      <4>2. P[n] <= P[n]
        BY <2>3
      <4>3. Follows(f[n], P[m], texts[n])
        BY <2>3, <4>1 DEF Follows
      <4>4. QED
        BY <2>1, <3>1, <4>2, <4>3
    <3>2. CASE k # n
      <4>1. k <= m
        BY <2>1, <2>5, <3>2
      <4>2. Follows(f[m], P[k - 1], texts[k]) /\ P[k] <= P[m]
        BY <1>5, <1>7, <4>1
      <4>3. PICK v \in Nat, w \in Nat : v = P[k - 1] /\ w = Len(texts[k]) /\ v + w = P[k]
        BY <1>4
      <4>4. v + w <= u
        BY <2>3, <4>2, <4>3
      <4>5. ASSUME NEW i \in 1 .. w PROVE texts[k][i] = f[n][v + i]
        <5>1. PICK j \in Nat : j = v + i
          OBVIOUS
        <5>2. j <= u /\ j \in 1 .. u + l
          BY <4>4, <5>1
        <5>3. f[n][j] = f[m][j]
          BY <2>4, <5>2
        <5>4. texts[k][i] = f[m][j]
          BY <4>2, <4>3, <5>1 DEF Follows
        <5>5. QED
          BY <5>1, <5>3, <5>4
      <4>6. P[k] <= P[n]
        <5>1. v + w <= u + l
          BY <4>4
        <5>2. QED
          BY <2>3, <4>3, <5>1, Zenon
      <4>7. Follows(f[n], P[k - 1], texts[k])
        BY <4>3, <4>5 DEF Follows
      <4>8. QED
        BY <4>6, <4>7
    <3>3. QED
      BY <3>1, <3>2
  <2>6. n \in G
    BY <1>5, <2>1, <2>5
  <2>7. QED
    BY <2>1, <2>6
<1>8. N \in G
  <2>1. \A m \in 0 .. N : m \in G
    BY <1>6, <1>7, UpTo
  <2>2. QED
    BY <2>1
<1>9. Concat(texts) = f[N] /\ f[N] \in Seq(S) /\ P[N] = Len(f[N])
  BY <1>0, <1>1, <1>2 DEF Concat
<1>10. ASSUME NEW k \in 0 .. N PROVE P[k] <= P[N]
  <2>1. CASE k = 0
    <3>1. P[N] \in Nat /\ P[k] = 0
      BY <1>3, <2>1
    <3>2. QED
      BY <3>1
  <2>2. CASE k # 0
    <3>1. k \in 1 .. N /\ k <= N
      BY <2>2
    <3>2. QED
      BY <1>5, <1>8, <3>1
  <2>3. QED
    BY <2>1, <2>2
<1>11. \A k \in 1 .. N : P[k] = P[k - 1] + Len(texts[k]) /\ Follows(f[N], P[k - 1], texts[k])
  <2>1. \A k \in 1 .. N : k <= N
    OBVIOUS
  <2>2. QED
    BY <1>4, <1>5, <1>8, <2>1, Zenon
<1>12. QED
  BY <1>0, <1>3, <1>9, <1>10, <1>11 DEF PlacesIn

\* No texts make the empty one.
LEMMA ConcatNone == Concat(<<>>) = <<>>
<1>1. <<>> \in Seq(Seq({})) /\ Len(<<>>) = 0
  OBVIOUS
<1>2. Together(<<>>)[0] = <<>>
  BY <1>1, TogetherIs
<1>3. QED
  BY <1>1, <1>2 DEF Concat

\* One more comes behind.
LEMMA ConcatMore ==
    ASSUME NEW S, NEW texts \in Seq(Seq(S)), NEW x \in Seq(S)
    PROVE  /\ Concat(texts) \in Seq(S)
           /\ Concat(Append(texts, x)) = Concat(texts) \o x
<1>0. PICK N \in Nat : N = Len(texts)
  OBVIOUS
<1>1. PICK more \in Seq(Seq(S)) : more = Append(texts, x)
  BY AppendProperties
<1>1a. PICK M \in Nat : M = Len(more)
  BY <1>1
<1>1b. M = N + 1 /\ more[N + 1] = x /\ \A k \in 1 .. N : more[k] = texts[k]
  BY <1>0, <1>1, <1>1a, AppendProperties
<1>2. PICK f \in [0 .. N -> Seq(S)] : f = Together(texts) /\ f[0] = <<>> /\ \A n \in 1 .. N : f[n] = f[n - 1] \o texts[n]
  BY <1>0, TogetherIs
<1>3. PICK h \in [0 .. M -> Seq(S)] : h = Together(more) /\ h[0] = <<>> /\ \A n \in 1 .. M : h[n] = h[n - 1] \o more[n]
  BY <1>1a, TogetherIs
<1>4. PICK G : G = {m \in 0 .. N : h[m] = f[m]}
  OBVIOUS
<1>5. 0 \in G
  BY <1>2, <1>3, <1>4
<1>6. ASSUME NEW m \in 0 .. (N - 1), m \in G PROVE m + 1 \in G
  <2>1. PICK n \in 1 .. N : n = m + 1 /\ n - 1 = m /\ n \in 0 .. N /\ n \in 1 .. M
    <3>1. M = N + 1
      BY <1>1b
    <3>2. m + 1 \in 1 .. N /\ m + 1 \in 0 .. N /\ m + 1 \in 1 .. M /\ (m + 1) - 1 = m
      BY ONLY <3>1, N \in Nat, m \in 0 .. (N - 1)
    <3>3. QED
      BY <3>2
  <2>2. h[n] = h[m] \o more[n] /\ f[n] = f[m] \o texts[n] /\ more[n] = texts[n]
    BY <1>1b, <1>2, <1>3, <2>1
  <2>3. h[m] = f[m]
    BY <1>4, <1>6
  <2>4. QED
    BY <1>4, <2>1, <2>2, <2>3
<1>7. N \in G
  <2>1. \A m \in 0 .. N : m \in G
    BY <1>5, <1>6, UpTo
  <2>2. QED
    BY <2>1
<1>8. h[M] = h[N] \o x
  <2>1. PICK n \in 1 .. M : n = M /\ n = N + 1 /\ n - 1 = N
    BY <1>1b
  <2>2. h[n] = h[N] \o more[n]
    BY <1>3, <2>1
  <2>3. QED
    BY <1>1b, <2>1, <2>2
<1>9. Concat(texts) = f[N] /\ f[N] \in Seq(S) /\ h[N] = f[N]
  BY <1>0, <1>2, <1>4, <1>7 DEF Concat
<1>10. Concat(more) = h[M]
  BY <1>1a, <1>3 DEF Concat
<1>11. QED
  BY <1>1, <1>8, <1>9, <1>10


-----------------------------------------------------------------------------
(* A text gets one more line                                               *)

\* Each number of a line is the number of one.
Numbered(a) == \A k \in 1 .. LinesTo(a, Len(a)) : \E i \in Ends(a) : LinesTo(a, i) = k

\* No line has begun behind a text.
AtStart(a) == a = <<>> \/ a[Len(a)] = LF

\* A line of a text, by its number.
TheLine(a, k) ==
    SubSeq(a, IF k = 1 THEN 1 ELSE (CHOOSE i \in Ends(a) : LinesTo(a, i) = k - 1) + 1,
              CHOOSE i \in Ends(a) : LinesTo(a, i) = k)

\* The text without a line.
LEMMA CutNone == Cut(<<>>) = <<>> /\ Numbered(<<>>) /\ AtStart(<<>>)
<1>1. <<>> \in Seq({}) /\ Len(<<>>) = 0
  OBVIOUS
<1>2. LinesTo(<<>>, 0) = 0
  BY <1>1, EndsGrow
<1>3. 1 .. 0 = {}
  OBVIOUS
<1>4. Cut(<<>>) = <<>>
  BY <1>1, <1>2, <1>3 DEF Cut
<1>5. QED
  BY <1>1, <1>2, <1>3, <1>4 DEF Numbered, AtStart

\* The lines of a text are as many as its ends, and each is known by where it
\* and the one before it end.
LEMMA CutIs ==
    ASSUME NEW S, NEW a \in Seq(S), Numbered(a), NEW n \in Nat, n = LinesTo(a, Len(a))
    PROVE  /\ Cut(a) = [k \in 1 .. n |-> Cut(a)[k]]
           /\ \A k \in 1 .. n, i \in Ends(a) : LinesTo(a, i) = k =>
                  /\ k = 1 => Cut(a)[k] = SubSeq(a, 1, i)
                  /\ \A p \in Ends(a) : LinesTo(a, p) = k - 1 /\ k # 1 => Cut(a)[k] = SubSeq(a, p + 1, i)
<1>1. Cut(a) = [k \in 1 .. n |-> Cut(a)[k]]
  <2>1. Cut(a) = [k \in 1 .. n |-> TheLine(a, k)]
    BY DEF Cut, TheLine
  <2>2. PICK f : f = Cut(a)
    OBVIOUS
  <2>3. f = [k \in 1 .. n |-> f[k]]
    BY <2>1, <2>2
  <2>4. QED
    BY <2>2, <2>3
<1>2. ASSUME NEW k \in 1 .. n
      PROVE  Cut(a)[k] = SubSeq(a, IF k = 1 THEN 1 ELSE (CHOOSE i \in Ends(a) : LinesTo(a, i) = k - 1) + 1,
                                   CHOOSE i \in Ends(a) : LinesTo(a, i) = k)
  BY DEF Cut
<1>3. ASSUME NEW k \in 1 .. n, NEW i \in Ends(a), LinesTo(a, i) = k
      PROVE  /\ k = 1 => Cut(a)[k] = SubSeq(a, 1, i)
             /\ \A p \in Ends(a) : LinesTo(a, p) = k - 1 /\ k # 1 => Cut(a)[k] = SubSeq(a, p + 1, i)
  <2>1. (CHOOSE j \in Ends(a) : LinesTo(a, j) = k) = i
    BY <1>3, EndOne
  <2>2. k = 1 => Cut(a)[k] = SubSeq(a, 1, i)
    BY <1>2, <2>1
  <2>3. ASSUME NEW p \in Ends(a), LinesTo(a, p) = k - 1, k # 1 PROVE Cut(a)[k] = SubSeq(a, p + 1, i)
    <3>1. (CHOOSE j \in Ends(a) : LinesTo(a, j) = k - 1) = p
      BY <2>3, EndOne
    <3>2. QED
      BY <1>2, <2>1, <2>3, <3>1
  <2>4. QED
    BY <2>2, <2>3
<1>4. QED
  BY <1>1, <1>3

\* The ends of a text that has got one more line.
LEMMA EndsMore ==
    ASSUME NEW S, NEW a \in Seq(S), NEW b \in Seq(S), AtStart(a), b # <<>>,
           \A j \in 1 .. (Len(b) - 1) : b[j] # LF
    PROVE  /\ Ends(a \o b) = Ends(a) \cup {Len(a) + Len(b)}
           /\ \A i \in Nat : i <= Len(a) => LinesTo(a \o b, i) = LinesTo(a, i)
<1>1. PICK m \in Nat, l \in Nat, n \in Nat : m = Len(a) /\ l = Len(b) /\ n = m + l /\ l > 0
  <2>1. Len(b) \in Nat \ {0}
    BY EmptySeq
  <2>2. QED
    BY <2>1
<1>1a. /\ a \o b \in Seq(S) /\ Len(a \o b) = m + l
       /\ \A i \in 1 .. m + l : (a \o b)[i] = IF i <= m THEN a[i] ELSE b[i - m]
  BY <1>1, ConcatProperties
<1>1b. PICK s \in Seq(S) : s = a \o b
  BY <1>1a
<1>2. Len(s) = n /\ DOMAIN s = 1 .. n /\ \A i \in 1 .. n : s[i] = IF i <= m THEN a[i] ELSE b[i - m]
  <2>1. Len(s) = n
    BY <1>1, <1>1a, <1>1b
  <2>2. DOMAIN s = 1 .. n
    BY <2>1
  <2>3. \A i \in 1 .. n : s[i] = IF i <= m THEN a[i] ELSE b[i - m]
    BY <1>1, <1>1a, <1>1b
  <2>4. QED
    BY <2>1, <2>2, <2>3
<1>3. DOMAIN a = 1 .. m /\ (m = 0 <=> a = <<>>)
  BY <1>1
<1>4. ASSUME NEW i \in 1 .. n PROVE i \in Ends(s) <=> i \in Ends(a) \/ i = n
  <2>1. CASE i <= m
    <3>1. i \in 1 .. m /\ i # n /\ s[i] = a[i] /\ (i = m => a[i] = LF)
      BY <1>1, <1>2, <1>3, <2>1 DEF AtStart
    <3>2. i \in Ends(s) <=> s[i] = LF
      BY <1>2, <3>1 DEF Ends
    <3>3. i \in Ends(a) <=> a[i] = LF
      BY <1>1, <1>3, <3>1 DEF Ends
    <3>4. QED
      BY <3>1, <3>2, <3>3
  <2>2. CASE ~(i <= m)
    <3>1. i \notin Ends(a)
      BY <1>1, <1>3, <2>2 DEF Ends
    <3>2. CASE i = n
      BY <1>2, <3>2 DEF Ends
    <3>3. CASE i # n
      <4>1. PICK j \in 1 .. (l - 1) : j = i - m
        <5>1. n = m + l
          BY <1>1
        <5>2. i - m \in 1 .. (l - 1)
          BY <2>2, <3>3, <5>1
        <5>3. QED
          BY <5>2
      <4>2. s[i] # LF
        BY <1>1, <1>2, <2>2, <4>1
      <4>3. i \notin Ends(s)
        BY <1>2, <3>3, <4>2 DEF Ends
      <4>4. QED
        BY <3>1, <3>3, <4>3
    <3>4. QED
      BY <3>2, <3>3
  <2>3. QED
    BY <2>1, <2>2
<1>5. Ends(s) \subseteq 1 .. n /\ Ends(a) \subseteq 1 .. n /\ n \in 1 .. n /\ \A j \in Ends(a) : j \in Nat /\ j <= m
  <2>1. Ends(s) \subseteq 1 .. Len(s) /\ Ends(a) \subseteq 1 .. Len(a)
    BY EndsIn
  <2>2. QED
    BY <1>1, <1>2, <2>1
<1>6. Ends(s) = Ends(a) \cup {n}
  BY <1>4, <1>5
<1>7. ASSUME NEW i \in Nat, i <= m PROVE LinesTo(s, i) = LinesTo(a, i)
  <2>1. ~(n <= i)
    BY <1>1, <1>7
  <2>2. {j \in Ends(s) : j <= i} = {j \in Ends(a) : j <= i}
    BY <1>6, <2>1
  <2>3. QED
    BY <2>2 DEF LinesTo
<1>8. QED
  BY <1>1, <1>1b, <1>6, <1>7

\* The lines of a text and one line more.
LEMMA CutMore ==
    ASSUME NEW S, NEW a \in Seq(S), NEW b \in Seq(S), AtStart(a), Numbered(a), b # <<>>,
           \A j \in 1 .. (Len(b) - 1) : b[j] # LF
    PROVE  Numbered(a \o b) /\ Cut(a \o b) = Append(Cut(a), b)
<1>1. PICK m \in Nat, l \in Nat, n \in Nat : m = Len(a) /\ l = Len(b) /\ n = m + l /\ l > 0
  <2>1. Len(b) \in Nat \ {0}
    BY EmptySeq
  <2>2. QED
    BY <2>1
<1>1a. a \o b \in Seq(S) /\ Len(a \o b) = m + l
       /\ \A i \in 1 .. m + l : (a \o b)[i] = IF i <= m THEN a[i] ELSE b[i - m]
  BY <1>1, ConcatProperties
<1>1b. PICK s \in Seq(S) : s = a \o b
  BY <1>1a
<1>2. s = a \o b /\ Len(s) = n
  BY <1>1, <1>1a, <1>1b
<1>3. Ends(s) = Ends(a) \cup {n} /\ \A i \in Nat : i <= m => LinesTo(s, i) = LinesTo(a, i)
  <2>1. /\ Ends(a \o b) = Ends(a) \cup {Len(a) + Len(b)}
        /\ \A i \in Nat : i <= Len(a) => LinesTo(a \o b, i) = LinesTo(a, i)
    BY EndsMore
  <2>2. QED
    BY <1>1, <1>1b, <2>1
<1>4. Ends(a) \subseteq 1 .. m
  BY <1>1, EndsIn
<1>5. PICK K \in Nat : K = LinesTo(a, m) /\ K = LinesTo(s, m) /\ K = LinesTo(a, Len(a))
  <2>1. LinesTo(a, m) \in Nat
    BY <1>1, EndsCount
  <2>2. LinesTo(s, m) = LinesTo(a, m)
    BY <1>3
  <2>3. QED
    BY <1>1, <2>1, <2>2
<1>6. LinesTo(s, n) = K + 1 /\ Cut(s)[K + 1] = SubSeq(s, m + 1, n)
  <2>1. m = 0 \/ m \in Ends(s)
    <3>1. ASSUME m # 0 PROVE m \in Ends(a)
      <4>1. m \in DOMAIN a
        BY <1>1, <3>1
      <4>2. QED
        BY <1>1, <4>1 DEF Ends
    <3>2. QED
      BY <1>3, <3>1
  <2>2. n \in Ends(s) /\ m < n
    BY <1>1, <1>3
  <2>3. \A j \in Ends(s) : j <= m \/ n <= j
    BY <1>1, <1>3, <1>4
  <2>4. /\ LinesTo(s, n) = LinesTo(s, m) + 1
        /\ Cut(s)[LinesTo(s, n)] = SubSeq(s, m + 1, n)
    BY <2>1, <2>2, <2>3, NextLine
  <2>5. QED
    BY <1>5, <2>4
<1>7. SubSeq(s, m + 1, n) = b
  <2>1. \A i \in 1 .. m + l : s[i] = IF i <= m THEN a[i] ELSE b[i - m]
    BY <1>1a, <1>1b
  <2>2. ASSUME NEW i \in 1 .. l PROVE b[i] = s[m + i]
    <3>1. PICK j \in 1 .. m + l : j = m + i /\ j - m = i /\ ~(j <= m)
      OBVIOUS
    <3>2. QED
      BY <2>1, <3>1
  <2>3. Follows(s, m, b)
    BY <1>1, <2>2 DEF Follows
  <2>4. l \in 0 .. Len(b) /\ m + l <= Len(s)
    BY <1>1, <1>2
  <2>5. SubSeq(b, 1, l) = SubSeq(s, m + 1, m + l)
    BY <2>3, <2>4, FollowsAll
  <2>6. SubSeq(b, 1, l) = b
    BY <1>1, SubSeqFull
  <2>7. QED
    BY <1>1, <2>5, <2>6
<1>8. \A k \in 1 .. K : \E i \in Ends(a) : LinesTo(a, i) = k
  BY <1>5 DEF Numbered
<1>9. \A i \in Ends(a) : i \in Nat /\ i <= m /\ i \in Ends(s) /\ LinesTo(s, i) = LinesTo(a, i)
  BY <1>3, <1>4
<1>10. Numbered(s)
  <2>1. ASSUME NEW k \in 1 .. K + 1 PROVE \E i \in Ends(s) : LinesTo(s, i) = k
    <3>1. CASE k = K + 1
      BY <1>3, <1>6, <3>1
    <3>2. CASE k # K + 1
      <4>1. k \in 1 .. K
        BY <3>2
      <4>2. QED
        BY <1>8, <1>9, <4>1
    <3>3. QED
      BY <3>1, <3>2
  <2>2. QED
    BY <1>2, <1>6, <2>1 DEF Numbered
<1>11. ASSUME NEW k \in 1 .. K PROVE Cut(s)[k] = Cut(a)[k]
  <2>1. PICK i \in Ends(a) : LinesTo(a, i) = k
    BY <1>8
  <2>2. k \in 1 .. K + 1 /\ LinesTo(s, i) = k /\ i \in Ends(s) /\ i \in 1 .. Len(a)
    BY <1>1, <1>4, <1>9, <2>1
  <2>3. K + 1 \in Nat /\ K + 1 = LinesTo(s, Len(s))
    BY <1>2, <1>6
  <2>4. CASE k = 1
    <3>1. Cut(a)[k] = SubSeq(a, 1, i)
      BY <1>5, <2>1, <2>4, CutIs
    <3>2. Cut(s)[k] = SubSeq(s, 1, i)
      BY <1>10, <2>2, <2>3, <2>4, CutIs
    <3>3. 1 \in 1 .. Len(a)
      BY <2>2
    <3>4. SubSeq(a \o b, 1, i) = SubSeq(a, 1, i)
      BY <2>2, <3>3, SubSeqOfConcat1
    <3>5. QED
      BY <1>2, <3>1, <3>2, <3>4
  <2>5. CASE k # 1
    <3>1. k - 1 \in 1 .. K
      BY <2>5
    <3>2. PICK p \in Ends(a) : LinesTo(a, p) = k - 1
      BY <1>8, <3>1
    <3>3. LinesTo(s, p) = k - 1 /\ p \in Ends(s)
      BY <1>9, <3>2
    <3>4. Cut(a)[k] = SubSeq(a, p + 1, i)
      BY <1>5, <2>1, <2>5, <3>2, CutIs
    <3>5. Cut(s)[k] = SubSeq(s, p + 1, i)
      BY <1>10, <2>2, <2>3, <2>5, <3>3, CutIs
    <3>6. p \in Nat /\ i \in Nat /\ p < i
      <4>1. p \in Nat /\ i \in Nat /\ LinesTo(a, p) = k - 1 /\ LinesTo(a, i) = k
        BY <1>9, <2>1, <3>2
      <4>2. ~(i <= p)
        <5>1. i <= p => LinesTo(a, i) <= LinesTo(a, p)
          BY <4>1, EndsGrow
        <5>2. QED
          BY <4>1, <5>1
      <4>3. QED
        BY <4>1, <4>2
    <3>7. p + 1 \in 1 .. Len(a)
      BY <2>2, <3>6
    <3>8. SubSeq(a \o b, p + 1, i) = SubSeq(a, p + 1, i)
      BY <2>2, <3>7, SubSeqOfConcat1
    <3>9. QED
      BY <1>2, <3>4, <3>5, <3>8
  <2>6. QED
    BY <2>4, <2>5
<1>12. Cut(s) = Append(Cut(a), b)
  <2>1. Cut(a) = [k \in 1 .. K |-> Cut(a)[k]]
    BY <1>5, CutIs
  <2>2. Cut(a) = [k \in 1 .. K |-> Cut(s)[k]]
    <3>1. [k \in 1 .. K |-> Cut(a)[k]] = [k \in 1 .. K |-> Cut(s)[k]]
      BY <1>11
    <3>2. QED
      BY <2>1, <3>1
  <2>3. K + 1 \in Nat /\ K + 1 = LinesTo(s, Len(s))
    BY <1>2, <1>6
  <2>4. Cut(s) = [k \in 1 .. K + 1 |-> Cut(s)[k]]
    BY <1>10, <2>3, CutIs
  <2>5. Append([k \in 1 .. K |-> Cut(s)[k]], Cut(s)[K + 1]) = [k \in 1 .. K + 1 |-> Cut(s)[k]]
    BY AppendOne
  <2>6. Cut(s)[K + 1] = b
    BY <1>6, <1>7
  <2>7. QED
    BY <2>2, <2>4, <2>5, <2>6
<1>13. QED
  BY <1>2, <1>10, <1>12

-----------------------------------------------------------------------------

(* The process channels, for any outputs and any block size.                *)

\* The stream is open until somebody closes it, and the status comes with the
\* end of pclose(); a command is cut short only when nobody can read.
Stream ==
    /\ fp_ \in {"open", "closing", "closed"} /\ child \in {Runs, 0, 1}
    /\ fp_ = "closed" => status_ # -1 /\ child # Runs
    /\ fp_ # "closed" => status_ = -1
    /\ fp_ = "open" => child # 1

ProcessTypes ==
    /\ output \in Outputs /\ done \in 0 .. Len(output)
    /\ pipe_ \in Seq(Letters) /\ block \in Seq(Letters)
    /\ child = 0 => done = Len(output)

\* What read_all() has read, what fread() has so far and what is in the pipe
\* are what the command has written; once the stream is closed, of itself,
\* the result is the whole output.
Whole ==
    use = "all" =>
        /\ buf_ \in Seq(Letters)
        /\ pc \in {"wait", "fread", "appended", "failed", "end"}
        /\ pc # "fread" => block = <<>>
        /\ pc \in {"wait", "fread"} => fp_ = "open"
        /\ pc = "end" => fp_ = "closed"
        /\ fp_ = "open" => pc \in {"wait", "fread", "appended"}
        /\ fp_ = "open" => (buf_ \o block) \o pipe_ = SubSeq(output, 1, done)
        /\ fp_ # "open" /\ pc # "failed" => buf_ = output

ProcessInv == Stream /\ ProcessTypes /\ Whole

-----------------------------------------------------------------------------
(* Sequences                                                               *)

\* One more of a sequence.
LEMMA OneMore ==
    ASSUME NEW S, NEW s \in Seq(S), NEW n \in Nat, n < Len(s),
           NEW g \in Seq(S), NEW p \in Seq(S), g \o p = SubSeq(s, 1, n)
    PROVE  /\ Append(p, s[n + 1]) \in Seq(S)
           /\ g \o Append(p, s[n + 1]) = SubSeq(s, 1, n + 1)
<1>1. n + 1 \in 1 .. Len(s) /\ 1 \in 1 .. Len(s) /\ n + 1 \in 1 .. Len(s) /\ (n + 1) - 1 = n
  OBVIOUS
<1>2. PICK x \in S, y \in Seq(S) : x = s[n + 1] /\ y = <<x>>
  <2>1. s[n + 1] \in S
    BY <1>1, ElementOfSeq
  <2>2. <<s[n + 1]>> \in Seq(S)
    BY <2>1
  <2>3. QED
    BY <2>1, <2>2
<1>3. SubSeq(s, 1, n + 1) = SubSeq(s, 1, (n + 1) - 1) \o <<s[n + 1]>>
  BY <1>1, SubSeqRecursiveSecond
<1>4. SubSeq(s, 1, n + 1) = (g \o p) \o y
  BY <1>1, <1>2, <1>3
<1>5. Append(p, x) = p \o y /\ p \o y \in Seq(S)
  <2>1. Append(p, x) = p \o <<x>>
    OBVIOUS
  <2>2. QED
    BY <1>2, <2>1, ConcatProperties
<1>6. (g \o p) \o y = g \o (p \o y)
  BY ONLY ConcatAssociative, g \in Seq(S), p \in Seq(S), y \in Seq(S), SMTT(30)
<1>7. QED
  BY <1>2, <1>4, <1>5, <1>6

-----------------------------------------------------------------------------
(* The invariant, step by step                                             *)

\* What a command writes is a sequence of letters.
LEMMA OutputSeq ==
    ASSUME ProcessInv
    PROVE  output \in Seq(Letters) /\ Len(output) \in Nat /\ done \in Nat /\ done <= Len(output)
  BY ProcessAssumptions DEF ProcessInv, ProcessTypes

\* The command writes a byte, ends, or is cut short.
LEMMA CommandStep ==
    ASSUME ProcessInv, CommandSteps
    PROVE  ProcessInv'
<1>0. /\ output \in Seq(Letters) /\ Len(output) \in Nat /\ done \in Nat /\ done <= Len(output)
      /\ child = Runs /\ UNCHANGED <<output, fp_, status_, buf_, block, lines, use, pc>>
  BY OutputSeq DEF CommandSteps, CommandWrites, CommandEnds
<1>1. CASE CommandEnds
  <2>1. child' = 0 /\ done = Len(output) /\ UNCHANGED <<done, pipe_>>
    BY <1>1 DEF CommandEnds
  <2>2. QED
    BY <1>0, <2>1 DEF ProcessInv, Stream, ProcessTypes, Whole, Runs
<1>2. CASE CommandWrites /\ fp_ # "open"
  <2>1. child' = 1 /\ UNCHANGED <<done, pipe_>>
    BY <1>2 DEF CommandWrites
  <2>2. QED
    BY <1>0, <1>2, <2>1 DEF ProcessInv, Stream, ProcessTypes, Whole, Runs
<1>3. CASE CommandWrites /\ fp_ = "open"
  <2>1. /\ done < Len(output) /\ done' = done + 1 /\ pipe_' = Append(pipe_, output[done + 1])
        /\ UNCHANGED child
    BY <1>3 DEF CommandWrites
  <2>2. output[done + 1] \in Letters
    BY <1>0, <2>1, ElementOfSeq
  <2>3. pipe_ \in Seq(Letters) /\ pipe_' \in Seq(Letters)
    BY <2>1, <2>2 DEF ProcessInv, ProcessTypes
  <2>4. Stream' /\ ProcessTypes'
    BY <1>0, <2>1, <2>3 DEF ProcessInv, Stream, ProcessTypes, Runs
  <2>5. ASSUME use = "all" PROVE (buf_ \o block) \o pipe_' = SubSeq(output, 1, done')
    <3>1. PICK g \in Seq(Letters) : g = buf_ \o block
      BY <2>5, ConcatProperties DEF ProcessInv, ProcessTypes, Whole
    <3>2. g \o pipe_ = SubSeq(output, 1, done)
      BY <1>3, <2>5, <3>1 DEF ProcessInv, Whole
    <3>3. g \o Append(pipe_, output[done + 1]) = SubSeq(output, 1, done + 1)
      BY ONLY <1>0, <2>1, <2>3, <3>2, g \in Seq(Letters), OneMore
    <3>4. QED
      BY <2>1, <3>1, <3>3
  <2>6. Whole'
    BY <1>0, <1>3, <2>5 DEF ProcessInv, Whole
  <2>7. QED
    BY <2>4, <2>6 DEF ProcessInv
<1>4. QED
  BY <1>1, <1>2, <1>3 DEF CommandSteps

\* Somebody closes the stream: the result is whole, or the caller has an exception.
LEMMA CloseStep ==
    ASSUME ProcessInv, NEW then, DoClose(then), UNCHANGED <<buf_, block>>,
           use = "all" => then = "failed" \/ (then = "appended" /\ buf_ = output),
           use = "all" => block = <<>>
    PROVE  ProcessInv'
<1>1. /\ fp_ = "open" /\ fp_' = "closing" /\ pipe_' = <<>> /\ pc' = then
      /\ UNCHANGED <<output, done, child, use, status_, buf_, block, lines>>
  BY DEF DoClose, Command
<1>2. <<>> \in Seq(Letters)
  OBVIOUS
<1>3. QED
  BY <1>1, <1>2 DEF ProcessInv, Stream, ProcessTypes, Whole

\* fread() takes bytes and returns, with some or with none.
LEMMA FreadStep ==
    ASSUME ProcessInv, StreamRead
    PROVE  ProcessInv'
<1>1. CASE FreadTakes
  <2>1. /\ pc = "fread" /\ pipe_ # <<>> /\ block' = Append(block, Head(pipe_)) /\ pipe_' = Tail(pipe_)
        /\ UNCHANGED <<output, done, child, use, fp_, status_, buf_, lines, pc>>
    BY <1>1 DEF FreadTakes, Command
  <2>2. pipe_ \in Seq(Letters) /\ block \in Seq(Letters) /\ <<>> \in Seq(Letters)
    BY DEF ProcessInv, ProcessTypes
  <2>3. block' \in Seq(Letters) /\ pipe_' \in Seq(Letters)
    BY <2>1, <2>2, HeadTailProperties, AppendProperties
  <2>4. ASSUME use = "all" PROVE (buf_ \o block') \o pipe_' = (buf_ \o block) \o pipe_
    <3>1. PICK g \in Seq(Letters), b \in Seq(Letters), p \in Seq(Letters) :
             g = buf_ /\ b = block /\ p = pipe_ /\ p # <<>>
      BY <2>1, <2>2, <2>4 DEF ProcessInv, Whole
    <3>2. (g \o Append(b, Head(p))) \o Tail(p) = (g \o b) \o p
      <4>1. PICK x \in Letters, r \in Seq(Letters), y \in Seq(Letters) : x = Head(p) /\ r = Tail(p) /\ y = <<x>>
        <5>1. Head(p) \in Letters /\ Tail(p) \in Seq(Letters)
          BY <3>1, HeadTailProperties
        <5>2. <<Head(p)>> \in Seq(Letters)
          BY <5>1
        <5>3. QED
          BY <5>1, <5>2
      <4>2. p = y \o r
        <5>1. y \o r \in Seq(Letters) /\ Len(y) = 1 /\ Len(r) = Len(p) - 1 /\ Len(p) \in Nat
          BY <4>1, ConcatProperties, HeadTailProperties
        <5>2. Len(y \o r) = Len(p)
          BY <4>1, <5>1, ConcatProperties
        <5>3. \A i \in 1 .. Len(p) : (y \o r)[i] = p[i]
          BY <4>1, <5>1, ConcatProperties, HeadTailProperties
        <5>4. QED
          BY <5>1, <5>2, <5>3, SeqEqual
      <4>3. Append(b, x) = b \o y /\ b \o y \in Seq(Letters)
        <5>1. Append(b, x) = b \o <<x>>
          OBVIOUS
        <5>2. QED
          BY <4>1, <5>1, ConcatProperties
      <4>4. (g \o (b \o y)) \o r = ((g \o b) \o y) \o r
        <5>1. (g \o b) \o y = g \o (b \o y)
          BY ONLY ConcatAssociative, g \in Seq(Letters), b \in Seq(Letters), y \in Seq(Letters), SMTT(30)
        <5>2. QED
          BY ONLY <5>1, Zenon
      <4>5. ((g \o b) \o y) \o r = (g \o b) \o (y \o r)
        <5>1. g \o b \in Seq(Letters)
          BY ConcatProperties
        <5>2. QED
          BY ONLY <5>1, <4>1, ConcatAssociative
      <4>6. QED
        BY <4>1, <4>2, <4>3, <4>4, <4>5
    <3>3. QED
      BY <2>1, <3>1, <3>2
  <2>5. Whole'
    BY <2>1, <2>4 DEF ProcessInv, Whole
  <2>6. QED
    BY <2>1, <2>3, <2>5 DEF ProcessInv, Stream, ProcessTypes
<1>2. CASE FreadReturns
  <2>1. /\ pc = "fread" /\ buf_' = buf_ \o block /\ block' = <<>> /\ pc' = "appended"
        /\ UNCHANGED <<output, done, child, use, pipe_, fp_, status_, lines>>
    BY <1>2 DEF FreadReturns, Command
  <2>2. <<>> \in Seq(Letters)
    OBVIOUS
  <2>3. ASSUME use = "all" PROVE buf_' \in Seq(Letters) /\ buf_' \o block' = buf_ \o block
    <3>1. PICK g \in Seq(Letters) : g = buf_ \o block
      BY <2>3, ConcatProperties DEF ProcessInv, ProcessTypes, Whole
    <3>2. g \o <<>> = g
      BY ConcatEmptySeq
    <3>3. QED
      BY <2>1, <3>1, <3>2
  <2>4. Whole'
    BY <2>1, <2>3 DEF ProcessInv, Whole
  <2>5. QED
    BY <2>1, <2>2, <2>4 DEF ProcessInv, Stream, ProcessTypes
<1>3. CASE FreadNothing
  <2>1. pc = "fread" /\ block = <<>>
    BY <1>3 DEF FreadNothing
  <2>2. CASE use # "all" /\ pc' = "wait" /\ UNCHANGED <<Command, pipe_, fp_, status_, buf_, block, lines>>
    BY <2>2 DEF ProcessInv, Stream, ProcessTypes, Whole, Command
  <2>3. CASE use = "all" /\ DoClose("failed")
    BY <2>1, <2>3, CloseStep DEF DoClose
  <2>4. CASE pipe_ = <<>> /\ child # Runs /\ DoClose("appended")
    <3>1. ASSUME use = "all" PROVE buf_ = output
      <4>1. /\ fp_ = "open" /\ child = 0 /\ done = Len(output) /\ buf_ \in Seq(Letters)
            /\ (buf_ \o block) \o pipe_ = SubSeq(output, 1, done)
        BY <2>4, <3>1 DEF ProcessInv, Stream, ProcessTypes, Whole, DoClose
      <4>2. (buf_ \o <<>>) \o <<>> = buf_
        BY <4>1, ConcatEmptySeq
      <4>3. SubSeq(output, 1, Len(output)) = output
        BY OutputSeq, SubSeqFull
      <4>4. QED
        BY <2>1, <2>4, <4>1, <4>2, <4>3
    <3>2. QED
      BY <2>1, <2>4, <3>1, CloseStep DEF DoClose
  <2>5. QED
    BY <1>3, <2>2, <2>3, <2>4 DEF FreadNothing
<1>4. QED
  BY <1>1, <1>2, <1>3 DEF StreamRead

\* The other steps of a caller.
LEMMA CallerStep ==
    ASSUME ProcessInv, Pclose \/ TextWait \/ TextRead \/ TextEnds \/ ReadAll \/ TextClose \/ ReadAllFails
    PROVE  ProcessInv'
<1>0. <<>> \in Seq(Letters)
  OBVIOUS
<1>1. CASE Pclose
  BY <1>1 DEF Pclose, Command, ProcessInv, Stream, ProcessTypes, Whole, Runs
<1>2. CASE TextWait
  <2>1. use # "all" /\ UNCHANGED <<Command, pipe_, fp_, status_, buf_, block, lines>>
    BY <1>2 DEF TextWait
  <2>2. QED
    BY <2>1 DEF Command, ProcessInv, Stream, ProcessTypes, Whole
<1>3. CASE TextRead \/ TextEnds
  <2>1. pc = "ready" /\ UNCHANGED <<Command, pipe_, fp_, status_, block>>
    BY <1>3 DEF TextRead, TextEnds
  <2>2. use # "all"
    BY <2>1 DEF ProcessInv, Whole
  <2>3. QED
    BY <2>1, <2>2 DEF Command, ProcessInv, Stream, ProcessTypes, Whole
<1>4. CASE ReadAll
  BY <1>4 DEF ReadAll, Command, ProcessInv, Stream, ProcessTypes, Whole
<1>5. CASE TextClose
  <2>1. /\ use = "close" /\ UNCHANGED <<Command, status_, block, lines>>
        /\ IF fp_ = "open" THEN fp_' = "closing" /\ pipe_' = <<>> ELSE UNCHANGED <<fp_, pipe_>>
    BY <1>5 DEF TextClose
  <2>2. QED
    BY <1>0, <2>1 DEF Command, ProcessInv, Stream, ProcessTypes, Whole
<1>6. CASE ReadAllFails
  <2>1. use = "all" /\ pc \in {"wait", "appended"} /\ DoClose("failed") /\ UNCHANGED <<buf_, block>>
    BY <1>6 DEF ReadAllFails, DoClose
  <2>2. block = <<>>
    BY <2>1 DEF ProcessInv, Whole
  <2>3. QED
    BY <2>1, <2>2, CloseStep
<1>7. QED
  BY <1>1, <1>2, <1>3, <1>4, <1>5, <1>6

\* Every step keeps the invariant.
LEMMA ProcessInvStep ==
    ASSUME ProcessInv, [ProcessNext]_processVars
    PROVE  ProcessInv'
<1>1. CASE UNCHANGED processVars
  BY <1>1 DEF processVars, ProcessInv, Stream, ProcessTypes, Whole
<1>2. QED
  BY <1>1, CommandStep, FreadStep, CallerStep DEF ProcessNext, CallerSteps

\* At first the command runs and has written nothing.
LEMMA ProcessInitInv ==
    ASSUME ProcessInit(Outputs, Uses)
    PROVE  ProcessInv
<1>1. output \in Seq(Letters) /\ <<>> \in Seq(Letters) /\ 0 \in 0 .. Len(output)
  BY ProcessAssumptions DEF ProcessInit
<1>2. SubSeq(output, 1, 0) = <<>> /\ (<<>> \o <<>>) \o <<>> = <<>>
  BY <1>1, SubSeqEmpty, ConcatEmptySeq
<1>3. QED
  BY <1>1, <1>2 DEF ProcessInit, ProcessInv, Stream, ProcessTypes, Whole, Runs

\* The invariant of the process channels.
THEOREM ProcessInvariance == ProcessSpec => []ProcessInv
  BY ProcessInitInv, ProcessInvStep, PTL DEF ProcessSpec

\* status() changes once, from -1 to what the command left, at the latest when
\* pclose() returns.
THEOREM StatusComesOnce == ProcessSpec => StatusOnce
<1>1. ASSUME ProcessInv, [ProcessNext]_processVars
      PROVE  [/\ status_' # status_ => status_ = -1 /\ status_' = child
              /\ fp_' = "closed" => status_' # -1]_processVars
  <2>1. ProcessInv'
    BY <1>1, ProcessInvStep
  <2>2. fp_' = "closed" => status_' # -1
    BY <2>1 DEF ProcessInv, Stream
  <2>3. status_' # status_ => status_ = -1 /\ status_' = child
    BY <1>1 DEF ProcessNext, CallerSteps, CommandSteps, CommandWrites, CommandEnds, StreamRead,
       FreadTakes, FreadReturns, FreadNothing, DoClose, Pclose, TextWait, TextRead, TextEnds,
       ReadAll, ReadAllFails, TextClose, processVars
  <2>4. QED
    BY <2>2, <2>3
<1>2. QED
  BY <1>1, ProcessInvariance, PTL DEF ProcessSpec, StatusOnce

-----------------------------------------------------------------------------
(* The lines that read() gives are those of the output: they are the lines *)
(* up to a position where one ends, and what the buffer, the block and the *)
(* pipe hold is what follows it in the output.                             *)

\* The lines up to position p.
Shown(p) == [k \in 1 .. LinesTo(output, p) |-> Stripped(Cut(output)[k])]

\* What follows position p, while it is read by lines.
Buffered(p) ==
    /\ buf_ \in Seq(Letters) /\ Follows(output, p, buf_)
    /\ Follows(output, p + Len(buf_), block)
    /\ pc \in {"wait", "fread", "appended", "ready"}
    /\ IF pc = "fread" THEN fp_ = "open" ELSE block = <<>>
    /\ pc = "ready" => HasFeed(buf_) \/ fp_ = "closed"
    /\ IF fp_ = "open"
       THEN /\ Follows(output, p + Len(buf_) + Len(block), pipe_)
            /\ p + Len(buf_) + Len(block) + Len(pipe_) = done
       ELSE p + Len(buf_) = Len(output)

\* The lines so far end at position p.
ReadTo(p) ==
    /\ p \in 0 .. Len(output) /\ (p = 0 \/ p \in Ends(output))
    /\ lines = Shown(p)
    /\ use # "all" /\ pc # "end" => Buffered(p)
    /\ use = "lines" /\ pc = "end" => p = Len(output)

LinesInv == \E p \in Nat : ReadTo(p)

\* The lines stay as they are when nothing is read.
LEMMA SameLines ==
    ASSUME NEW p \in Nat, ReadTo(p), UNCHANGED <<output, lines, use>>,
           use # "all" /\ pc' # "end" => Buffered(p)',
           use = "lines" /\ pc' = "end" => p = Len(output)
    PROVE  LinesInv'
  BY DEF LinesInv, ReadTo, Shown

\* The command writes what follows.
LEMMA CommandLines ==
    ASSUME ProcessInv, LinesInv, CommandSteps
    PROVE  LinesInv'
<1>0. PICK p \in Nat : ReadTo(p)
  BY DEF LinesInv
<1>1. UNCHANGED <<output, lines, use, fp_, status_, buf_, block, pc>>
  BY DEF CommandSteps, CommandWrites, CommandEnds
<1>2. ASSUME use # "all" /\ pc' # "end" PROVE Buffered(p)'
  <2>1. Buffered(p)
    BY <1>0, <1>1, <1>2 DEF ReadTo
  <2>2. CASE UNCHANGED <<done, pipe_>>
    BY <1>1, <2>1, <2>2 DEF Buffered, Follows, HasFeed
  <2>3. CASE fp_ = "open" /\ done < Len(output) /\ done' = done + 1 /\ pipe_' = Append(pipe_, output[done + 1])
    <3>1. PICK q \in Nat, x \in Letters : /\ q = p + Len(buf_) + Len(block) /\ x = output[done + 1]
                                          /\ q + Len(pipe_) = done /\ Follows(output, q, pipe_)
      <4>1. output[done + 1] \in Letters
        BY <2>3, OutputSeq, ElementOfSeq
      <4>2. Len(buf_) \in Nat /\ Len(block) \in Nat
        BY <2>1 DEF Buffered, ProcessInv, ProcessTypes
      <4>3. QED
        BY <2>1, <2>3, <4>1, <4>2 DEF Buffered
    <3>2. pipe_ \in Seq(Letters) /\ pipe_' = Append(pipe_, x) /\ done' = done + 1 /\ done \in Nat /\ Len(pipe_) \in Nat
      BY <2>3, <3>1, OutputSeq DEF ProcessInv, ProcessTypes
    <3>3. Follows(output, q, Append(pipe_, x)) /\ Len(Append(pipe_, x)) = Len(pipe_) + 1
      BY <3>1, <3>2, FollowsMore, AppendProperties
    <3>4. Follows(output, q, pipe_') /\ q + Len(pipe_') = done'
      BY <3>1, <3>2, <3>3
    <3>5. QED
      BY <1>1, <2>1, <2>3, <3>1, <3>4 DEF Buffered, Follows, HasFeed
  <2>4. QED
    BY <2>2, <2>3 DEF CommandSteps, CommandWrites, CommandEnds
<1>3. QED
  BY <1>0, <1>1, <1>2, SameLines DEF ReadTo

\* fread() takes it and returns, with some or with none.
LEMMA FreadLines ==
    ASSUME ProcessInv, LinesInv, StreamRead
    PROVE  LinesInv'
<1>0. PICK p \in Nat : ReadTo(p)
  BY DEF LinesInv
<1>1. /\ UNCHANGED <<output, done, child, lines, use>> /\ pc = "fread"
      /\ pc' \in {"fread", "appended", "wait", "failed"}
  BY DEF StreamRead, FreadTakes, FreadReturns, FreadNothing, DoClose, Command
<1>2. ASSUME use # "all" PROVE Buffered(p)'
  <2>1. /\ Buffered(p) /\ fp_ = "open" /\ buf_ \in Seq(Letters) /\ block \in Seq(Letters) /\ pipe_ \in Seq(Letters)
        /\ Len(buf_) \in Nat /\ Len(block) \in Nat /\ Len(pipe_) \in Nat
    BY <1>0, <1>1, <1>2 DEF ReadTo, Buffered, ProcessInv, ProcessTypes
  <2>2. PICK q \in Nat : /\ q = p + Len(buf_) /\ Follows(output, q, block)
                         /\ Follows(output, q + Len(block), pipe_)
                         /\ q + Len(block) + Len(pipe_) = done
    BY <2>1 DEF Buffered
  <2>3. CASE FreadTakes
    <3>1. /\ pipe_ # <<>> /\ block' = Append(block, Head(pipe_)) /\ pipe_' = Tail(pipe_)
          /\ UNCHANGED <<fp_, status_, buf_, pc>>
      BY <2>3 DEF FreadTakes
    <3>2. PICK x \in Letters, r \in Seq(Letters) : x = Head(pipe_) /\ r = Tail(pipe_)
      BY <2>1, <3>1, HeadTailProperties
    <3>3. Len(r) = Len(pipe_) - 1 /\ Len(pipe_) >= 1 /\ x = pipe_[1] /\ \A i \in 1 .. Len(r) : r[i] = pipe_[i + 1]
      BY <2>1, <3>1, <3>2, HeadTailProperties
    <3>4. x = output[q + Len(block) + 1]
      <4>1. 1 \in 1 .. Len(pipe_)
        BY <2>1, <3>3
      <4>2. pipe_[1] = output[(q + Len(block)) + 1]
        BY <2>2, <4>1 DEF Follows
      <4>3. QED
        BY <3>3, <4>2
    <3>5. PICK b \in Seq(Letters) : b = Append(block, x) /\ Len(b) = Len(block) + 1 /\ Follows(output, q, b)
      <4>1. Follows(output, q, Append(block, x))
        BY <2>1, <2>2, <3>4, FollowsMore
      <4>2. QED
        BY <2>1, <4>1, AppendProperties
    <3>6. Follows(output, q + Len(b), r)
      <4>1. ASSUME NEW i \in 1 .. Len(r) PROVE r[i] = output[q + Len(b) + i]
        <5>1. i + 1 \in 1 .. Len(pipe_) /\ q + Len(b) + i = (q + Len(block)) + (i + 1)
          BY <2>1, <3>2, <3>3, <3>5
        <5>2. pipe_[i + 1] = output[(q + Len(block)) + (i + 1)]
          BY <2>2, <5>1 DEF Follows
        <5>3. QED
          BY <3>3, <5>1, <5>2
      <4>2. QED
        BY <4>1 DEF Follows
    <3>7. q + Len(b) + Len(r) = done
      BY <2>1, <2>2, <3>2, <3>3, <3>5
    <3>8. block' = b /\ pipe_' = r
      BY <3>1, <3>2, <3>5
    <3>9. /\ Follows(output, q, block') /\ Follows(output, q + Len(block'), pipe_')
          /\ q + Len(block') + Len(pipe_') = done
      BY <3>5, <3>6, <3>7, <3>8
    <3>10. QED
      BY <1>1, <2>1, <2>2, <3>1, <3>9 DEF Buffered, Follows, HasFeed
  <2>4. CASE FreadReturns
    <3>1. /\ buf_' = buf_ \o block /\ block' = <<>> /\ pc' = "appended" /\ UNCHANGED <<pipe_, fp_, status_>>
      BY <2>4 DEF FreadReturns
    <3>2. Follows(output, p, buf_)
      BY <2>1 DEF Buffered
    <3>3. PICK b \in Seq(Letters) : b = buf_ \o block /\ Len(b) = Len(buf_) + Len(block)
      BY <2>1, ConcatProperties
    <3>4. Follows(output, p, b)
      BY <2>1, <2>2, <3>2, <3>3, FollowsBoth
    <3>5. p + Len(b) = q + Len(block)
      BY <2>1, <2>2, <3>3
    <3>6. PICK e \in Seq(Letters) : e = <<>> /\ Len(e) = 0 /\ Follows(output, p + Len(b), e)
      <4>1. <<>> \in Seq(Letters) /\ Len(<<>>) = 0
        OBVIOUS
      <4>2. Follows(output, p + Len(b), <<>>)
        BY <4>1 DEF Follows
      <4>3. QED
        BY <4>1, <4>2
    <3>7. p + Len(b) + Len(e) = q + Len(block)
      BY <2>1, <2>2, <3>5, <3>6
    <3>8. buf_' = b /\ block' = e
      BY <3>1, <3>3, <3>6
    <3>9. /\ buf_' \in Seq(Letters) /\ Follows(output, p, buf_') /\ Follows(output, p + Len(buf_'), block')
          /\ p + Len(buf_') + Len(block') = q + Len(block)
      BY <3>4, <3>6, <3>7, <3>8
    <3>10. QED
      BY <1>1, <2>1, <2>2, <3>1, <3>9 DEF Buffered, Follows
  <2>5. CASE FreadNothing /\ pc' = "wait" /\ UNCHANGED <<Command, pipe_, fp_, status_, buf_, block, lines>>
    BY <1>1, <2>1, <2>5 DEF Buffered, Follows, FreadNothing
  <2>6. CASE FreadNothing /\ pipe_ = <<>> /\ child # Runs /\ DoClose("appended")
    <3>1. block = <<>> /\ fp_' = "closing" /\ pc' = "appended" /\ UNCHANGED <<output, buf_, block>>
      BY <2>6 DEF FreadNothing, DoClose, Command
    <3>2. done = Len(output)
      BY <2>1, <2>6 DEF ProcessInv, Stream, ProcessTypes
    <3>3. p + Len(buf_) = Len(output)
      BY <2>1, <2>2, <2>6, <3>1, <3>2
    <3>4. QED
      BY <2>1, <3>1, <3>3 DEF Buffered, Follows
  <2>7. QED
    BY <1>2, <2>3, <2>4, <2>5, <2>6 DEF StreamRead, FreadNothing
<1>3. QED
  BY <1>0, <1>1, <1>2, SameLines

\* read() gives the line that follows.
LEMMA GivesLine ==
    ASSUME ProcessInv, LinesInv, TextRead
    PROVE  LinesInv'
<1>0. PICK p \in Nat : ReadTo(p)
  BY DEF LinesInv
<1>1. /\ pc = "ready" /\ pc' = "wait" /\ ~is_closed
      /\ UNCHANGED <<output, done, child, use, pipe_, fp_, status_, block>>
  BY DEF TextRead, Command
<1>2. use # "all"
  BY <1>1 DEF ProcessInv, Whole
<1>3. /\ Buffered(p) /\ buf_ \in Seq(Letters) /\ Follows(output, p, buf_) /\ block = <<>>
      /\ (HasFeed(buf_) \/ fp_ = "closed")
  BY <1>0, <1>1, <1>2 DEF ReadTo, Buffered
<1>4. output \in Seq(Letters) /\ Len(output) \in Nat /\ done \in Nat /\ done <= Len(output) /\ Len(buf_) \in Nat
      /\ pipe_ \in Seq(Letters) /\ Len(pipe_) \in Nat /\ Len(block) = 0
  BY <1>3, OutputSeq DEF ProcessInv, ProcessTypes
<1>5. p + Len(buf_) <= Len(output) /\ (fp_ = "closed" => p + Len(buf_) = Len(output))
  BY <1>3, <1>4 DEF Buffered
<1>6. buf_ # <<>>
  <2>1. CASE HasFeed(buf_)
    BY <2>1 DEF HasFeed
  <2>2. CASE fp_ = "closed"
    BY <1>1, <2>2 DEF is_closed
  <2>3. QED
    BY <1>3, <2>1, <2>2
<1>7. PICK n \in 1 .. Len(buf_) :
         /\ n = (IF HasFeed(buf_) THEN FirstFeed(buf_) ELSE Len(buf_))
         /\ \A j \in 1 .. (n - 1) : buf_[j] # LF
         /\ buf_[n] = LF \/ (n = Len(buf_) /\ ~HasFeed(buf_))
  BY <1>3, <1>6, ReadTakes
<1>8. buf_[n] = LF \/ p + n = Len(output)
  BY <1>3, <1>5, <1>7
<1>9. PICK q \in Nat : q = p + n
  BY <1>4, <1>7
<1>10. q \in Ends(output) /\ \A j \in Ends(output) : j <= p \/ q <= j
  BY <1>3, <1>4, <1>5, <1>7, <1>8, <1>9, ReadsToEnd
<1>11. p < q /\ n \in Nat /\ q <= Len(output)
  BY <1>4, <1>5, <1>7, <1>9
<1>12. p = 0 \/ p \in Ends(output)
  BY <1>0 DEF ReadTo
<1>13. /\ LinesTo(output, q) = LinesTo(output, p) + 1 /\ LinesTo(output, p) \in Nat
       /\ Cut(output)[LinesTo(output, q)] = SubSeq(output, p + 1, q)
  BY <1>4, <1>10, <1>11, <1>12, NextLine
<1>14. /\ lines' = Append(lines, Stripped(SubSeq(buf_, 1, n)))
       /\ buf_' = SubSeq(buf_, n + 1, Len(buf_))
  BY <1>7 DEF TextRead
<1>15. SubSeq(buf_, 1, n) = SubSeq(output, p + 1, q)
  <2>1. n \in 0 .. Len(buf_) /\ p + n <= Len(output)
    BY <1>4, <1>7, <1>9, <1>11
  <2>2. SubSeq(buf_, 1, n) = SubSeq(output, p + 1, p + n)
    BY <1>3, <1>4, <2>1, FollowsAll
  <2>3. QED
    BY <1>9, <2>2
<1>16. lines' = Shown(q)
  <2>0. PICK m \in Nat : m = LinesTo(output, p)
    BY <1>13
  <2>1. PICK f : f = [k \in 1 .. m + 1 |-> Stripped(Cut(output)[k])]
    OBVIOUS
  <2>2. f[m + 1] = Stripped(Cut(output)[m + 1]) /\ \A k \in 1 .. m : f[k] = Stripped(Cut(output)[k])
    BY <2>1
  <2>3. lines = [k \in 1 .. m |-> f[k]]
    BY <1>0, <2>0, <2>2 DEF ReadTo, Shown
  <2>4. Stripped(SubSeq(buf_, 1, n)) = f[m + 1]
    BY <1>13, <1>15, <2>0, <2>2
  <2>5. lines' = [k \in 1 .. m + 1 |-> f[k]]
    BY <1>14, <2>3, <2>4, AppendOne
  <2>6. Shown(q) = f
    BY <1>13, <2>0, <2>1 DEF Shown
  <2>7. QED
    BY <2>1, <2>5, <2>6
<1>17. Shown(q)' = Shown(q)
  BY <1>1 DEF Shown
<1>18. Buffered(q)'
  <2>1. /\ buf_' \in Seq(Letters) /\ Len(buf_') = Len(buf_) - n /\ Follows(output, q, buf_')
    <3>0. n \in 0 .. Len(buf_)
      BY <1>4, <1>7
    <3>1. PICK r : r = SubSeq(buf_, n + 1, Len(buf_))
      OBVIOUS
    <3>2. r \in Seq(Letters) /\ Len(r) = Len(buf_) - n /\ Follows(output, p + n, r)
      BY <1>3, <3>0, <3>1, FollowsRest
    <3>3. QED
      BY <1>9, <1>14, <3>1, <3>2
  <2>2. q + Len(buf_') = p + Len(buf_)
    BY <1>4, <1>7, <1>9, <2>1
  <2>3. /\ Follows(output, q + Len(buf_'), block')
        /\ fp_ = "open" => /\ Follows(output, q + Len(buf_') + Len(block'), pipe_')
                           /\ q + Len(buf_') + Len(block') + Len(pipe_') = done'
        /\ fp_ # "open" => q + Len(buf_') = Len(output')
    BY <1>1, <1>3, <2>2 DEF Buffered
  <2>4. QED
    BY <1>1, <1>3, <2>1, <2>3 DEF Buffered
<1>19. ReadTo(q)'
  BY <1>1, <1>10, <1>11, <1>16, <1>17, <1>18 DEF ReadTo
<1>20. QED
  BY <1>19 DEF LinesInv

\* The other steps of a caller give no line.
LEMMA CallerLines ==
    ASSUME ProcessInv, LinesInv, Pclose \/ TextWait \/ TextEnds \/ ReadAll \/ TextClose \/ ReadAllFails
    PROVE  LinesInv'
<1>0. PICK p \in Nat : ReadTo(p)
  BY DEF LinesInv
<1>1. UNCHANGED <<output, done, lines, use, block>>
  BY DEF Pclose, TextWait, TextEnds, ReadAll, TextClose, ReadAllFails, DoClose, Command
<1>2. CASE Pclose
  <2>1. fp_ = "closing" /\ fp_' = "closed" /\ UNCHANGED <<pc, buf_, pipe_>>
    BY <1>2 DEF Pclose
  <2>2. use # "all" /\ pc' # "end" => Buffered(p)'
    BY <1>0, <1>1, <2>1 DEF ReadTo, Buffered, Follows, HasFeed
  <2>3. QED
    BY <1>0, <1>1, <2>1, <2>2, SameLines DEF ReadTo
<1>3. CASE TextWait
  <2>1. /\ use # "all" /\ UNCHANGED <<fp_, buf_, pipe_>> /\ pc \in {"wait", "appended"}
        /\ pc' \in {"wait", "fread", "ready"} /\ fp_ \in {"open", "closing", "closed"}
        /\ pc' = "fread" => fp_ = "open"
        /\ pc' = "ready" => HasFeed(buf_) \/ fp_ = "closed"
    BY <1>3 DEF TextWait, ProcessInv, Stream
  <2>2. Buffered(p)'
    BY <1>0, <1>1, <2>1 DEF ReadTo, Buffered, Follows, HasFeed
  <2>3. QED
    BY <1>0, <1>1, <2>1, <2>2, SameLines
<1>4. CASE TextEnds
  <2>1. pc = "ready" /\ pc' = "end" /\ fp_ = "closed" /\ buf_ = <<>>
    BY <1>4 DEF TextEnds, is_closed
  <2>2. use # "all" => p = Len(output)
    <3>1. use # "all" => p + Len(buf_) = Len(output)
      BY <1>0, <2>1 DEF ReadTo, Buffered
    <3>2. Len(buf_) = 0
      BY <2>1
    <3>3. QED
      BY <3>1, <3>2
  <2>3. QED
    BY <1>0, <1>1, <2>1, <2>2, SameLines
<1>5. CASE TextClose
  BY <1>0, <1>1, <1>5, SameLines DEF TextClose
<1>6. CASE ReadAll \/ ReadAllFails
  <2>1. use = "all"
    BY <1>6 DEF ReadAll, ReadAllFails
  <2>2. QED
    BY <1>0, <1>1, <2>1, SameLines
<1>7. QED
  BY <1>2, <1>3, <1>4, <1>5, <1>6

\* Every step keeps the lines.
LEMMA LinesInvStep ==
    ASSUME ProcessInv, LinesInv, [ProcessNext]_processVars
    PROVE  LinesInv'
<1>1. CASE UNCHANGED processVars
  <2>1. PICK p \in Nat : ReadTo(p)
    BY DEF LinesInv
  <2>2. ReadTo(p)'
    BY <1>1, <2>1 DEF processVars, ReadTo, Buffered, Follows, HasFeed, Shown
  <2>3. QED
    BY <2>2 DEF LinesInv
<1>2. QED
  BY <1>1, CommandLines, FreadLines, GivesLine, CallerLines DEF ProcessNext, CallerSteps

\* At first no line is read, and nothing has come.
LEMMA LinesInitInv ==
    ASSUME ProcessInit(Outputs, Uses)
    PROVE  LinesInv
<1>1. output \in Seq(Letters) /\ Len(output) \in Nat /\ <<>> \in Seq(Letters) /\ Len(<<>>) = 0
  BY ProcessAssumptions DEF ProcessInit
<1>2. LinesTo(output, 0) = 0
  BY <1>1, EndsGrow
<1>3. lines = Shown(0)
  <2>1. 1 .. 0 = {}
    OBVIOUS
  <2>2. lines = <<>> /\ Shown(0) = <<>>
    BY <1>2, <2>1 DEF ProcessInit, Shown
  <2>3. QED
    BY <2>2
<1>4. \A q : Follows(output, q, <<>>)
  BY <1>1 DEF Follows
<1>5. Buffered(0)
  BY <1>1, <1>4 DEF ProcessInit, Buffered
<1>6. ReadTo(0)
  BY <1>1, <1>3, <1>5 DEF ProcessInit, ReadTo
<1>7. QED
  BY <1>6 DEF LinesInv

\* What has been read is the first of the lines.
LEMMA LinesAreRight ==
    ASSUME ProcessInv, LinesInv
    PROVE  LinesOfOutput
<1>1. PICK p \in Nat : ReadTo(p)
  BY DEF LinesInv
<1>2. PICK n \in Nat, m \in Nat : n = LinesTo(output, p) /\ m = LinesTo(output, Len(output)) /\ n <= m
  <2>1. p <= Len(output)
    BY <1>1, OutputSeq DEF ReadTo
  <2>2. QED
    BY <2>1, OutputSeq, EndsCount, EndsGrow
<1>3. PICK f : f = [k \in 1 .. m |-> Stripped(Cut(output)[k])]
  OBVIOUS
<1>4. DOMAIN Cut(output) = 1 .. m
  BY <1>2 DEF Cut
<1>5. [k \in DOMAIN Cut(output) |-> Stripped(Cut(output)[k])] = f
  BY <1>3, <1>4
<1>6. lines = [k \in 1 .. n |-> f[k]] /\ f = [k \in 1 .. m |-> f[k]]
  <2>1. \A k \in 1 .. n : k \in 1 .. m /\ f[k] = Stripped(Cut(output)[k])
    BY <1>2, <1>3
  <2>2. lines = [k \in 1 .. n |-> Stripped(Cut(output)[k])]
    BY <1>1, <1>2 DEF ReadTo, Shown
  <2>3. QED
    BY <1>3, <2>1, <2>2
<1>7. IsPrefix(lines, f)
  BY <1>2, <1>6, FirstOnes
<1>8. use = "lines" /\ pc = "end" => lines = f
  BY <1>1, <1>2, <1>3, <1>6 DEF ReadTo
<1>9. QED
  BY <1>5, <1>7, <1>8 DEF LinesOfOutput

\* The lines that wait() and read() give are those of the output, in order,
\* each once and without its end, and all of them when the channel closes of
\* itself; read_all() and shell() give the whole output.  So it is however the
\* output is cut into blocks, by their size, by the pace of the command and by
\* signals.
THEOREM OutputComesWhole == ProcessSpec => []OutputWhole
<1>1. ProcessInit(Outputs, Uses) => LinesInv
  BY LinesInitInv
<1>2. ProcessInv /\ LinesInv /\ [ProcessNext]_processVars => LinesInv'
  BY LinesInvStep
<1>3. ProcessInv /\ LinesInv => OutputWhole
  BY LinesAreRight DEF OutputWhole, ProcessInv, Stream, Whole, AllOfOutput
<1>4. QED
  BY <1>1, <1>2, <1>3, ProcessInvariance, PTL DEF ProcessSpec

-----------------------------------------------------------------------------
(* Descriptors and temporary files have one owner each: FilesOwned is an   *)
(* invariant for any number of objects, descriptors and names.  It is      *)
(* inductive once the types are added, and each expression is one of five  *)
(* changes to the owners (Assigns, MoveAssign, reset, and those of Pipe    *)
(* and Release), which have a lemma each.                                  *)

FdInv ==
    /\ value_ \in [All -> Numbers \cup {null}]
    /\ opened \subseteq Numbers
    /\ raw \subseteq opened \ Standard
    /\ OneOwner /\ StandardStay

TempInv ==
    /\ exists \subseteq Temps
    /\ where_ \in [Temps -> Names \cup {NoName}]
    /\ disk \in [Names -> {"none", "own", "other"}]
    /\ TempsOwn

(* The deleter spares the standard descriptors.                            *)
LEMMA DeleterSpares ==
    ASSUME NEW v \in Numbers \cup {null}
    PROVE  /\ deleter(v) \cap Standard = {}
           /\ \A k \in deleter(v) : k = v
<1>1. v \in Int
  BY DescriptorAssumptions DEF Numbers, null
<1> QED BY <1>1 DEF deleter, Standard

(* An object takes over a descriptor that no object has: it is new, or the *)
(* caller's, or standard.                                                  *)
LEMMA AssignsOwns ==
    ASSUME FdInv, NEW o \in All, NEW n \in Numbers,
           n \in Standard \/ \A x \in All : value_[x] # n,
           Assigns(o, n), raw' = raw \ {n}
    PROVE  FdInv'
<1> USE DescriptorAssumptions
<1>1. value_' \in [All -> Numbers \cup {null}] /\ value_'[o] = n
      /\ \A x \in All \ {o} : value_'[x] = value_[x]
  BY DEF FdInv, Assigns
<1>2. opened' \subseteq Numbers /\ Standard \subseteq opened' /\ n \in opened'
  <2>1. value_[o] \in Numbers \cup {null}
    BY DEF FdInv
  <2>2. deleter(value_[o]) \cap Standard = {} /\ n \notin deleter(value_[o])
    BY <2>1, DeleterSpares
  <2>3. Standard \subseteq opened /\ opened \subseteq Numbers
    BY DEF FdInv, StandardStay
  <2> QED BY <2>2, <2>3 DEF Assigns
<1>3. raw' \subseteq opened' \ Standard
  <2>1. deleter(value_[o]) \cap raw = {}
    BY DEF FdInv, deleter, OneOwner
  <2> QED BY <2>1 DEF FdInv, Assigns
<1>4. \A x \in All : value_'[x] \in opened' \cup {null} /\ value_'[x] \notin raw'
  <2> TAKE x \in All
  <2>1. CASE x = o
    BY <2>1, <1>1, <1>2
  <2>2. CASE x # o
    BY <2>2, <1>1 DEF FdInv, OneOwner, Assigns, deleter, Standard, null
  <2> QED BY <2>1, <2>2
<1>5. \A x, y \in All : value_'[x] = value_'[y] => x = y \/ value_'[x] \in Standard \cup {null}
  BY <1>1 DEF FdInv, OneOwner
<1>6. \A m \in opened' \ Standard : m \in raw' \/ \E x \in All : value_'[x] = m
  <2> TAKE m \in opened' \ Standard
  <2>1. CASE m = n
    BY <2>1, <1>1
  <2>2. CASE m # n
    <3>1. m \in opened \ Standard /\ m \notin deleter(value_[o])
      BY <2>2 DEF Assigns
    <3>2. m # value_[o]
      BY <3>1 DEF deleter, Standard, FdInv, Numbers
    <3> QED BY <3>1, <3>2, <2>2, <1>1 DEF FdInv, OneOwner
  <2> QED BY <2>1, <2>2
<1> QED BY <1>1, <1>2, <1>3, <1>4, <1>5, <1>6 DEF FdInv, OneOwner, StandardStay

(* The right side of an assignment opens a descriptor.                     *)
LEMMA OpensOwn ==
    ASSUME FdInv, NEW o \in All, NEW n \in Numbers, Lowest(n), Assigns(o, n), raw' = raw
    PROVE  FdInv'
<1>1. n \notin opened /\ n \notin raw
  BY DEF Lowest, Unopened, FdInv
<1>2. \A x \in All : value_[x] # n
  BY <1>1, DescriptorAssumptions DEF FdInv, OneOwner, Numbers, null
<1> QED BY <1>1, <1>2, AssignsOwns

(* A move leaves no second owner, and a move to itself changes nothing.    *)
LEMMA MoveOwns ==
    ASSUME FdInv, NEW o \in All, NEW p \in All, MoveAssign(o, p), raw' = raw
    PROVE  FdInv'
<1> USE DescriptorAssumptions
<1>a. CASE o = p
  BY <1>a DEF MoveAssign, FdInv, OneOwner, StandardStay
<1>b. CASE o # p
  <2>1. /\ value_' \in [All -> Numbers \cup {null}]
        /\ value_'[o] = value_[p] /\ value_'[p] = null
        /\ \A x \in All \ {o, p} : value_'[x] = value_[x]
    BY <1>b DEF FdInv, MoveAssign
  <2>2. opened' = opened \ deleter(value_[o])
    BY <1>b DEF MoveAssign
  <2>3. opened' \subseteq Numbers /\ Standard \subseteq opened'
    <3>1. deleter(value_[o]) \cap Standard = {}
      BY DeleterSpares DEF FdInv
    <3> QED BY <3>1, <2>2 DEF FdInv, StandardStay
  <2>4. raw' \subseteq opened' \ Standard
    <3>1. deleter(value_[o]) \cap raw = {}
      BY <2>2 DEF FdInv, deleter, OneOwner
    <3> QED BY <3>1, <2>2 DEF FdInv
  <2>5. \A x \in All : value_'[x] \in opened' \cup {null} /\ value_'[x] \notin raw'
    <3>1. \A x \in All \ {o} : value_[x] \in opened' \cup {null}
      BY <2>2 DEF FdInv, OneOwner, deleter, Standard, null
    <3>2. null \notin raw
      BY DEF FdInv, null, Numbers
    <3> QED BY <3>1, <3>2, <2>1, <1>b DEF FdInv, OneOwner
  <2>6. \A x, y \in All : value_'[x] = value_'[y] => x = y \/ value_'[x] \in Standard \cup {null}
    BY <2>1, <1>b DEF FdInv, OneOwner
  <2>7. \A m \in opened' \ Standard : m \in raw' \/ \E x \in All : value_'[x] = m
    <3> TAKE m \in opened' \ Standard
    <3>1. m \in opened \ Standard /\ m \in Numbers /\ m # value_[o]
      BY <2>2 DEF deleter, Standard, FdInv, Numbers
    <3>2. CASE m \in raw
      BY <3>2
    <3>3. CASE m \notin raw
      <4>1. PICK x \in All : value_[x] = m
        BY <3>1, <3>3 DEF FdInv, OneOwner
      <4> QED BY <4>1, <3>1, <2>1
    <3> QED BY <3>2, <3>3
  <2> QED BY <2>1, <2>3, <2>4, <2>5, <2>6, <2>7 DEF FdInv, OneOwner, StandardStay
<1> QED BY <1>a, <1>b

(* An object that is closed or destroyed closes what it alone has.         *)
LEMMA ResetOwns ==
    ASSUME FdInv, NEW o \in All, reset(o), raw' = raw
    PROVE  FdInv'
<1> USE DescriptorAssumptions
<1>1. /\ value_' \in [All -> Numbers \cup {null}]
      /\ value_'[o] = null /\ \A x \in All \ {o} : value_'[x] = value_[x]
  BY DEF FdInv, reset
<1>2. opened' = opened \ deleter(value_[o])
  BY DEF reset
<1>3. opened' \subseteq Numbers /\ Standard \subseteq opened'
  <2>1. deleter(value_[o]) \cap Standard = {}
    BY DeleterSpares DEF FdInv
  <2> QED BY <2>1, <1>2 DEF FdInv, StandardStay
<1>4. raw' \subseteq opened' \ Standard
  <2>1. deleter(value_[o]) \cap raw = {}
    BY <1>2 DEF FdInv, deleter, OneOwner
  <2> QED BY <2>1, <1>2 DEF FdInv
<1>5. \A x \in All : value_'[x] \in opened' \cup {null} /\ value_'[x] \notin raw'
  <2>1. \A x \in All \ {o} : value_[x] \in opened' \cup {null}
    BY <1>2 DEF FdInv, OneOwner, deleter, Standard, null
  <2>2. null \notin raw
    BY DEF FdInv, null, Numbers
  <2> QED BY <2>1, <2>2, <1>1 DEF FdInv, OneOwner
<1>6. \A x, y \in All : value_'[x] = value_'[y] => x = y \/ value_'[x] \in Standard \cup {null}
  BY <1>1 DEF FdInv, OneOwner
<1>7. \A m \in opened' \ Standard : m \in raw' \/ \E x \in All : value_'[x] = m
  <2> TAKE m \in opened' \ Standard
  <2>1. m \in opened \ Standard /\ m # value_[o]
    BY <1>2 DEF deleter, Standard, FdInv, Numbers
  <2> QED BY <2>1, <1>1 DEF FdInv, OneOwner
<1> QED BY <1>1, <1>3, <1>4, <1>5, <1>6, <1>7 DEF FdInv, OneOwner, StandardStay

(* Both ends of a pipe have an owner, and they are different.              *)
LEMMA PipeOwns ==
    ASSUME FdInv, NEW o \in Objects, NEW p \in Objects, Pipe(o, p)
    PROVE  FdInv'
<1> USE DescriptorAssumptions
<1> PICK m \in Numbers, n \in Numbers :
       /\ Lowest2(m, n)
       /\ value_' = [value_ EXCEPT ![o] = m, ![p] = n]
       /\ opened' = (opened \cup {m, n}) \ (deleter(value_[o]) \cup deleter(value_[p]))
  BY DEF Pipe
<1>0. o \in All /\ p \in All /\ o # p /\ raw' = raw
  BY DEF Pipe, All
<1>1. m \notin opened /\ n \notin opened /\ m # n
  BY DEF Lowest2, Lowest, Unopened
<1>2. /\ value_' \in [All -> Numbers \cup {null}]
      /\ value_'[o] = m /\ value_'[p] = n
      /\ \A x \in All \ {o, p} : value_'[x] = value_[x]
  BY <1>0 DEF FdInv
<1>3. m \in opened' /\ n \in opened'
  BY <1>0, <1>1 DEF deleter, FdInv, OneOwner, Numbers, null
<1>4. opened' \subseteq Numbers /\ Standard \subseteq opened'
  <2>1. deleter(value_[o]) \cap Standard = {} /\ deleter(value_[p]) \cap Standard = {}
    BY <1>0, DeleterSpares DEF FdInv
  <2> QED BY <2>1 DEF FdInv, StandardStay
<1>5. raw' \subseteq opened' \ Standard
  <2>1. (deleter(value_[o]) \cup deleter(value_[p])) \cap raw = {}
    BY <1>0 DEF FdInv, deleter, OneOwner
  <2> QED BY <2>1, <1>0 DEF FdInv
<1>6. \A x \in All : value_'[x] \in opened' \cup {null} /\ value_'[x] \notin raw'
  <2>1. \A x \in All \ {o, p} : value_[x] \in opened' \cup {null}
    BY <1>0 DEF FdInv, OneOwner, deleter, Standard, null
  <2>2. m \notin raw /\ n \notin raw
    BY <1>1 DEF FdInv
  <2> QED BY <2>1, <2>2, <1>0, <1>2, <1>3 DEF FdInv, OneOwner
<1>7. \A x, y \in All : value_'[x] = value_'[y] => x = y \/ value_'[x] \in Standard \cup {null}
  <2>1. \A x \in All : value_[x] # m /\ value_[x] # n
    BY <1>1 DEF FdInv, OneOwner, Numbers, null
  <2> QED BY <2>1, <1>0, <1>1, <1>2 DEF FdInv, OneOwner
<1>8. \A k \in opened' \ Standard : k \in raw' \/ \E x \in All : value_'[x] = k
  <2> TAKE k \in opened' \ Standard
  <2>1. CASE k \in {m, n}
    BY <2>1, <1>0, <1>2
  <2>2. CASE k \notin {m, n}
    <3>1. k \in opened \ Standard /\ k # value_[o] /\ k # value_[p]
      BY <2>2 DEF deleter, Standard, FdInv, Numbers
    <3> QED BY <3>1, <1>0, <1>2 DEF FdInv, OneOwner
  <2> QED BY <2>1, <2>2
<1> QED BY <1>2, <1>4, <1>5, <1>6, <1>7, <1>8 DEF FdInv, OneOwner, StandardStay

(* release() hands the descriptor over.                                    *)
LEMMA ReleaseOwns ==
    ASSUME FdInv, NEW o \in Objects, Release(o)
    PROVE  FdInv'
<1> USE DescriptorAssumptions
<1>0. o \in All /\ opened' = opened /\ raw' = raw \cup ({value_[o]} \ Standard) /\ value_[o] # null
  BY DEF Release, All
<1>1. /\ value_' \in [All -> Numbers \cup {null}]
      /\ value_'[o] = null /\ \A x \in All \ {o} : value_'[x] = value_[x]
  BY <1>0 DEF FdInv, Release
<1>2. raw' \subseteq opened' \ Standard
  BY <1>0 DEF FdInv, OneOwner
<1>3. \A x \in All : value_'[x] \in opened' \cup {null} /\ value_'[x] \notin raw'
  <2>1. null \notin raw'
    BY <1>0 DEF FdInv, null, Numbers
  <2>2. \A x \in All \ {o} : value_[x] \in opened \cup {null} /\ value_[x] \notin raw'
    <3> TAKE x \in All \ {o}
    <3>1. value_[x] = value_[o] => value_[o] \in Standard
      BY <1>0 DEF FdInv, OneOwner
    <3> QED BY <3>1, <1>0 DEF FdInv, OneOwner
  <2> QED BY <2>1, <2>2, <1>0, <1>1
<1>4. \A x, y \in All : value_'[x] = value_'[y] => x = y \/ value_'[x] \in Standard \cup {null}
  BY <1>1 DEF FdInv, OneOwner
<1>5. \A m \in opened' \ Standard : m \in raw' \/ \E x \in All : value_'[x] = m
  BY <1>0, <1>1 DEF FdInv, OneOwner
<1> QED BY <1>0, <1>1, <1>2, <1>3, <1>4, <1>5 DEF FdInv, OneOwner, StandardStay

(* The steps of Fdio objects.                                              *)
LEMMA FdioStep ==
    ASSUME FdInv, TempInv, FdioSteps
    PROVE  FdInv' /\ TempInv'
<1>1. UNCHANGED tempVars
  BY DEF FdioSteps, Open, OpenStandard, Close, Release, Adopt, Move, Dup, Pipe, Dup2
<1>2. TempInv'
  BY <1>1 DEF TempInv, TempsOwn, tempVars
<1>3. FdInv'
  <2> Objects \subseteq All
    BY DEF All
  <2> Standard \subseteq Numbers
    BY DescriptorAssumptions DEF Standard, Numbers
  <2>s. raw = raw \ Standard
    BY DEF FdInv
  <2>1. ASSUME NEW o \in Objects, Open(o) PROVE FdInv'
    BY <2>1, OpensOwn DEF Open
  <2>2. ASSUME NEW o \in Objects, OpenStandard(o) PROVE FdInv'
    <3>1. PICK n \in Standard : Assigns(o, n) /\ raw' = raw
      BY <2>2 DEF OpenStandard
    <3>2. raw' = raw \ {n}
      BY <3>1, <2>s
    <3> QED BY <3>1, <3>2, AssignsOwns
  <2>3. ASSUME NEW o \in Objects, Close(o) PROVE FdInv'
    BY <2>3, ResetOwns DEF Close
  <2>4. ASSUME NEW o \in Objects, Adopt(o) PROVE FdInv'
    <3>1. PICK n \in raw : Assigns(o, n) /\ raw' = raw \ {n}
      BY <2>4 DEF Adopt
    <3>2. n \in Numbers /\ \A x \in All : value_[x] # n
      BY <3>1 DEF FdInv, OneOwner
    <3> QED BY <3>1, <3>2, AssignsOwns
  <2>5. ASSUME NEW o \in Objects, NEW p \in Objects, Move(o, p) PROVE FdInv'
    BY <2>5, MoveOwns DEF Move
  <2>6. ASSUME NEW o \in Objects, NEW p \in Objects, Dup(o, p) PROVE FdInv'
    BY <2>6, OpensOwn DEF Dup
  <2>7. ASSUME NEW o \in Objects, NEW p \in Objects, NEW n \in Numbers, Dup2(o, n, p) PROVE FdInv'
    BY <2>7, AssignsOwns DEF Dup2
  <2> QED BY <2>1, <2>2, <2>3, <2>4, <2>5, <2>6, <2>7, PipeOwns, ReleaseOwns DEF FdioSteps
<1> QED BY <1>2, <1>3

(* The steps of TempFile objects, and of other programs.                   *)
LEMMA TempStep ==
    ASSUME FdInv, TempInv, TempSteps
    PROVE  FdInv' /\ TempInv'
<1> Temps \subseteq All
  BY DEF All
<1> USE DescriptorAssumptions DEF NoName
<1>1. ASSUME NEW t \in Temps, TempNameless(t) PROVE FdInv' /\ TempInv'
  <2>1. FdInv'
    BY <1>1, OpensOwn DEF TempNameless
  <2>2. TempInv'
    BY <1>1 DEF TempNameless, TempInv, TempsOwn
  <2> QED BY <2>1, <2>2
<1>2. ASSUME NEW t \in Temps, TempConstruct(t) PROVE FdInv' /\ TempInv'
  <2>1. FdInv'
    BY <1>2, OpensOwn DEF TempConstruct
  <2>2. TempInv'
    <3>1. PICK x \in Names : disk[x] = "none" /\ where_' = [where_ EXCEPT ![t] = x]
                             /\ disk' = [disk EXCEPT ![x] = "own"]
      BY <1>2 DEF TempConstruct
    <3>2. exists' = exists \cup {t}
      BY <1>2 DEF TempConstruct
    <3>3. \A u \in Temps : where_[u] # x
      BY <3>1 DEF TempInv, TempsOwn
    <3> QED BY <3>1, <3>2, <3>3 DEF TempInv, TempsOwn
  <2> QED BY <2>1, <2>2
<1>3. ASSUME NEW t \in Temps, TempClose(t) PROVE FdInv' /\ TempInv'
  <2>1. FdInv'
    BY <1>3, ResetOwns DEF TempClose
  <2>2. TempInv'
    BY <1>3 DEF TempClose, TempInv, TempsOwn, tempVars
  <2> QED BY <2>1, <2>2
<1>4. ASSUME NEW t \in Temps, TempDestroy(t) PROVE FdInv' /\ TempInv'
  <2>1. FdInv'
    BY <1>4, ResetOwns DEF TempDestroy
  <2>2. TempInv'
    BY <1>4 DEF TempDestroy, TempInv, TempsOwn
  <2> QED BY <2>1, <2>2
<1>5. ASSUME NEW t \in Temps, NEW u \in Temps, TempMove(t, u) PROVE FdInv' /\ TempInv'
  <2>1. FdInv'
    BY <1>5, MoveOwns DEF TempMove
  <2>2. TempInv'
    <3>1. CASE t = u
      BY <3>1, <1>5 DEF TempMove, TempInv, TempsOwn
    <3>2. CASE t # u
      BY <3>2, <1>5 DEF TempMove, TempInv, TempsOwn
    <3> QED BY <3>1, <3>2
  <2> QED BY <2>1, <2>2
<1>6. ASSUME OtherMakes PROVE FdInv' /\ TempInv'
  <2>1. FdInv'
    BY <1>6 DEF OtherMakes, FdInv, OneOwner, StandardStay
  <2>2. TempInv'
    BY <1>6 DEF OtherMakes, TempInv, TempsOwn
  <2> QED BY <2>1, <2>2
<1> QED BY <1>1, <1>2, <1>3, <1>4, <1>5, <1>6 DEF TempSteps

(* Every descriptor that the objects open has one owner and is closed once *)
(* (utility.hpp, Resource), the standard ones stay open, and a TempFile    *)
(* removes only a file that it made: for any number of objects and names.  *)
THEOREM FilesAreOwned == DescriptorSpec => []FilesOwned
<1>1. DescriptorInit => FdInv /\ TempInv
  <2> SUFFICES ASSUME DescriptorInit PROVE FdInv /\ TempInv
    OBVIOUS
  <2>1. FdInv
    BY DescriptorAssumptions DEF DescriptorInit, FdInv, OneOwner, StandardStay, Standard, Numbers, null
  <2>2. TempInv
    BY DEF DescriptorInit, TempInv, TempsOwn
  <2> QED BY <2>1, <2>2
<1>2. (FdInv /\ TempInv) /\ [DescriptorNext]_descriptorVars => (FdInv /\ TempInv)'
  <2> SUFFICES ASSUME FdInv, TempInv, [DescriptorNext]_descriptorVars PROVE FdInv' /\ TempInv'
    OBVIOUS
  <2>1. CASE UNCHANGED descriptorVars
    BY <2>1 DEF descriptorVars, FdInv, TempInv, OneOwner, StandardStay, TempsOwn
  <2> QED BY <2>1, FdioStep, TempStep DEF DescriptorNext
<1>3. FdInv /\ TempInv => FilesOwned
  BY DEF FdInv, TempInv, FilesOwned
<1> QED BY <1>1, <1>2, <1>3, PTL DEF DescriptorSpec

-----------------------------------------------------------------------------
(* The signal channel, for any list of signals and any number of them sent. *)

SignalThreads == {Main, Worker}

SignalTypes ==
    /\ mask \in [SignalThreads -> SUBSET Signals] /\ oldmask_ \subseteq Signals
    /\ process \subseteq Asked /\ thread \in [SignalThreads -> SUBSET {Usr1}]
    /\ queue_ \in Seq(Signals) /\ open_ \in BOOLEAN
    /\ main \in {"new", "out", "join", "destroy", "sigwait", "gone"}
    /\ worker \in {"none", "wait", "sigtimedwait", "ready", "ended"}
    /\ left \in Nat
    /\ sent \in [Signals -> Nat] /\ reads \in [Signals -> Nat] /\ dropped \in [Signals -> Nat]

\* Before the constructor nothing has happened.
Untouched ==
    main = "new" => /\ worker = "none" /\ ~open_ /\ process = {}
                    /\ \A t \in SignalThreads : thread[t] = {}
                    /\ \A s \in Signals : sent[s] = 0 /\ reads[s] = 0

\* A thread that runs while signals can come blocks all of them.
Masked ==
    /\ main \in {"out", "join", "destroy", "sigwait"} => mask[Main] = Signals
    /\ worker \notin {"none", "ended"} => mask[Worker] = Signals /\ main \in {"out", "join"}

\* SIGUSR1 comes from close() only, and nothing but Main opens the channel.
Raised == open_ => main = "out" /\ \A t \in SignalThreads : thread[t] = {}

\* The destructor waits at least as often as there are signals pending.
Waited == main = "sigwait" => Cardinality(process) + Cardinality(thread[Main]) <= left

SignalInv == SignalTypes /\ Untouched /\ Masked /\ Raised /\ Waited /\ SignalsSafe

-----------------------------------------------------------------------------
(* Signals and how many of them there are                                  *)

\* What Append() gives.
LEMMA Appended ==
    ASSUME NEW S, NEW q \in Seq(S), NEW x \in S
    PROVE  /\ Len(q) \in Nat /\ DOMAIN q = 1 .. Len(q)
           /\ DOMAIN Append(q, x) = 1 .. Len(q) + 1 /\ Append(q, x)[Len(q) + 1] = x
           /\ \A i \in 1 .. Len(q) : Append(q, x)[i] = q[i]
  OBVIOUS

\* SIGUSR1 is the last of the signals of the channel; the others are the list's.
LEMMA SignalSets ==
    /\ Asked \subseteq Signals /\ Usr1 \in Signals /\ Signals \subseteq Asked \cup {Usr1}
    /\ IsFiniteSet(Asked)
    /\ Len(List) \in Nat /\ DOMAIN signals_ = 1 .. Len(List) + 1 /\ signals_[Len(List) + 1] = Usr1
    /\ \A i \in 1 .. Len(List) : signals_[i] = List[i] /\ List[i] \in Asked
<1>1. List \in Seq(STRING) /\ Usr1 \in STRING
  BY SignalAssumptions
<1>2. /\ Len(List) \in Nat /\ DOMAIN List = 1 .. Len(List)
      /\ DOMAIN signals_ = 1 .. Len(List) + 1 /\ signals_[Len(List) + 1] = Usr1
      /\ \A i \in 1 .. Len(List) : signals_[i] = List[i]
  <2>1. PICK S : List \in Seq(S) /\ Usr1 \in S
    BY <1>1
  <2>2. /\ Len(List) \in Nat /\ DOMAIN List = 1 .. Len(List)
        /\ DOMAIN Append(List, Usr1) = 1 .. Len(List) + 1
        /\ Append(List, Usr1)[Len(List) + 1] = Usr1
        /\ \A i \in 1 .. Len(List) : Append(List, Usr1)[i] = List[i]
    BY <2>1, Appended
  <2>3. QED
    BY <2>2 DEF signals_
<1>3. \A i \in 1 .. Len(List) : i \in 1 .. Len(List) + 1
  BY <1>2
<1>4. Len(List) + 1 \in 1 .. Len(List) + 1
  BY <1>2
<1>5. \A i \in 1 .. Len(List) + 1 : i \in 1 .. Len(List) \/ i = Len(List) + 1
  BY <1>2
<1>6. Asked = {List[i] : i \in 1 .. Len(List)} /\ Signals = {signals_[i] : i \in 1 .. Len(List) + 1}
  BY <1>2 DEF Asked, Signals, Range
<1>7. Asked \subseteq Signals /\ Usr1 \in Signals /\ Signals \subseteq Asked \cup {Usr1}
  BY <1>2, <1>3, <1>4, <1>5, <1>6
<1>8. IsFiniteSet(Asked)
  <2>1. IsFiniteSet(1 .. Len(List))
    BY <1>2, FS_Interval
  <2>2. PICK f : f = [i \in 1 .. Len(List) |-> List[i]]
    OBVIOUS
  <2>3. f \in Surjection(1 .. Len(List), Asked)
    BY <1>6, <2>2 DEF Surjection
  <2>4. QED
    BY <2>1, <2>3, FS_Surjection
<1>9. QED
  BY <1>2, <1>6, <1>7, <1>8

\* Sets of pending signals are finite.
LEMMA PendingFinite ==
    ASSUME NEW P, P \subseteq Asked, NEW T, T \subseteq {Usr1}
    PROVE  /\ IsFiniteSet(P) /\ IsFiniteSet(T)
           /\ Cardinality(P) \in Nat /\ Cardinality(T) \in Nat
<1>1. IsFiniteSet({Usr1}) /\ P \in SUBSET Asked /\ T \in SUBSET {Usr1}
  BY FS_Singleton
<1>2. IsFiniteSet(P) /\ IsFiniteSet(T)
  BY <1>1, SignalSets, FS_Subset
<1>3. QED
  BY <1>2, FS_CardinalityType

\* The entries of the list that are pending are at least as many as the
\* signals that are pending for the process and for the thread.
LEMMA EnoughWaits ==
    ASSUME NEW P, P \subseteq Asked, NEW T, T \subseteq {Usr1}
    PROVE  LET I == {i \in DOMAIN signals_ : signals_[i] \in P \cup T}
           IN  Cardinality(P) + Cardinality(T) <= Cardinality(I) /\ Cardinality(I) \in Nat
<1> DEFINE n == Len(List)
           I == {i \in DOMAIN signals_ : signals_[i] \in P \cup T}
           J == {i \in 1 .. n : List[i] \in P}
           K == {i \in {n + 1} : Usr1 \in T}
<1>1. n \in Nat /\ IsFiniteSet(1 .. n) /\ IsFiniteSet(1 .. n + 1)
  BY SignalSets, FS_Interval
<1>2. IsFiniteSet(J) /\ IsFiniteSet(I) /\ J \subseteq I /\ K \subseteq I
  <2>1. J \in SUBSET (1 .. n) /\ I \in SUBSET (1 .. n + 1)
    BY SignalSets
  <2>2. \A i \in 1 .. n : i \in 1 .. n + 1
    BY <1>1
  <2>3. n + 1 \in 1 .. n + 1
    BY <1>1
  <2>4. J \subseteq I /\ K \subseteq I
    BY <2>2, <2>3, SignalSets
  <2>5. IsFiniteSet(J) /\ IsFiniteSet(I)
    BY <1>1, <2>1, FS_Subset
  <2>6. QED
    BY <2>4, <2>5
<1>3. Cardinality(P) <= Cardinality(J)
  <2>1. PICK f : f = [i \in J |-> List[i]]
    OBVIOUS
  <2>2. \A s \in P : \E i \in J : List[i] = s
    <3>1. Asked = {List[i] : i \in 1 .. n}
      BY SignalAssumptions DEF Asked, Range
    <3>2. QED
      BY <3>1
  <2>3. f \in Surjection(J, P)
    BY <2>1, <2>2 DEF Surjection
  <2>4. QED
    BY <1>2, <2>3, FS_Surjection
<1>4. IsFiniteSet(K) /\ Cardinality(T) <= Cardinality(K)
  <2>1. CASE Usr1 \in T
    <3>1. K = {n + 1} /\ T = {Usr1}
      BY <2>1
    <3>2. Cardinality({n + 1}) = 1 /\ Cardinality({Usr1}) = 1 /\ IsFiniteSet({n + 1})
      BY FS_Singleton
    <3> HIDE DEF K
    <3>3. QED
      BY <3>1, <3>2
  <2>2. CASE Usr1 \notin T
    <3>1. K = {} /\ T = {}
      BY <2>2
    <3> HIDE DEF K
    <3>2. QED
      BY <3>1, FS_EmptySet
  <2>3. QED
    BY <2>1, <2>2
<1>5. Cardinality(J \cup K) = Cardinality(J) + Cardinality(K)
  <2>1. J \cap K = {}
    BY <1>1
  <2>2. /\ Cardinality(J \cup K) = Cardinality(J) + Cardinality(K) - Cardinality(J \cap K)
        /\ Cardinality(J) \in Nat /\ Cardinality(K) \in Nat
    BY <1>2, <1>4, FS_Union, FS_CardinalityType
  <2>3. Cardinality(J \cap K) = 0
    BY <2>1, FS_EmptySet
  <2>4. QED
    BY <2>2, <2>3
<1>6. Cardinality(J \cup K) <= Cardinality(I)
  <2>1. J \cup K \in SUBSET I
    BY <1>2
  <2>2. QED
    BY <1>2, <2>1, FS_Subset
<1>7. /\ Cardinality(J) \in Nat /\ Cardinality(K) \in Nat /\ Cardinality(I) \in Nat
      /\ Cardinality(P) \in Nat /\ Cardinality(T) \in Nat
  BY <1>2, <1>4, FS_CardinalityType, PendingFinite
<1> HIDE DEF I, J, K
<1>8. Cardinality(P) + Cardinality(T) <= Cardinality(I)
  BY <1>3, <1>4, <1>5, <1>6, <1>7
<1>9. QED
  BY <1>7, <1>8 DEF I

\* How often a signal is in a sequence.
CountOf(q, s) == Cardinality({i \in DOMAIN q : q[i] = s})

\* The positions of a signal are finitely many.
LEMMA CountNat ==
    ASSUME NEW q \in Seq(Signals), NEW s
    PROVE  IsFiniteSet({i \in DOMAIN q : q[i] = s}) /\ CountOf(q, s) \in Nat
<1>1. DOMAIN q = 1 .. Len(q) /\ Len(q) \in Nat
  OBVIOUS
<1>2. IsFiniteSet(1 .. Len(q))
  BY <1>1, FS_Interval
<1>3. {i \in DOMAIN q : q[i] = s} \in SUBSET (1 .. Len(q))
  BY <1>1
<1>4. IsFiniteSet({i \in DOMAIN q : q[i] = s})
  BY <1>2, <1>3, FS_Subset
<1>5. QED
  BY <1>4, FS_CardinalityType DEF CountOf

\* A signal that goes in at the end counts for itself.
LEMMA CountAppend ==
    ASSUME NEW q \in Seq(Signals), NEW x \in Signals, NEW s
    PROVE  CountOf(Append(q, x), s) = CountOf(q, s) + (IF s = x THEN 1 ELSE 0)
<1> DEFINE I == {i \in DOMAIN q : q[i] = s}
           J == {i \in DOMAIN Append(q, x) : Append(q, x)[i] = s}
           m == Len(q) + 1
<1>1. /\ DOMAIN q = 1 .. Len(q) /\ Len(q) \in Nat
      /\ DOMAIN Append(q, x) = 1 .. m /\ Append(q, x)[m] = x
      /\ \A i \in 1 .. Len(q) : Append(q, x)[i] = q[i]
  OBVIOUS
<1>2. \A i : i \in 1 .. m <=> i \in 1 .. Len(q) \/ i = m
  BY <1>1
<1>3. IsFiniteSet(I) /\ CountOf(q, s) \in Nat /\ m \notin I
  <2>1. m \notin 1 .. Len(q)
    BY <1>1
  <2>2. QED
    BY <1>1, <2>1, CountNat
<1>4. CASE s = x
  <2>1. J = I \cup {m}
    BY <1>1, <1>2, <1>4
  <2>2. Cardinality(I \cup {m}) = Cardinality(I) + 1
    BY <1>3, FS_AddElement
  <2>3. QED
    BY <1>4, <2>1, <2>2 DEF CountOf
<1>5. CASE s # x
  <2>1. J = I
    BY <1>1, <1>2, <1>5
  <2>2. CountOf(Append(q, x), s) = Cardinality(J) /\ CountOf(q, s) = Cardinality(I)
    BY DEF CountOf
  <2> HIDE DEF I, J
  <2>3. QED
    BY <1>3, <1>5, <2>1, <2>2
<1>6. QED
  BY <1>4, <1>5

\* A signal that is read no longer counts.
LEMMA CountTail ==
    ASSUME NEW q \in Seq(Signals), q # <<>>, NEW s
    PROVE  CountOf(q, s) = CountOf(Tail(q), s) + (IF s = Head(q) THEN 1 ELSE 0)
<1> DEFINE I == {i \in DOMAIN q : q[i] = s}
           J == {i \in DOMAIN Tail(q) : Tail(q)[i] = s}
<1>1. /\ DOMAIN q = 1 .. Len(q) /\ Len(q) \in Nat /\ Len(q) > 0 /\ Head(q) = q[1]
      /\ Tail(q) \in Seq(Signals) /\ DOMAIN Tail(q) = 1 .. Len(q) - 1
      /\ \A i \in 1 .. Len(q) - 1 : Tail(q)[i] = q[i + 1]
  OBVIOUS
<1>2. IsFiniteSet(I) /\ IsFiniteSet(J) /\ CountOf(q, s) \in Nat /\ CountOf(Tail(q), s) \in Nat
  BY <1>1, CountNat
<1>3. Cardinality(I \ {1}) = Cardinality(J)
  <2>1. PICK f : f = [i \in J |-> i + 1]
    OBVIOUS
  <2>2. \A i \in J : i \in Nat /\ i + 1 \in I \ {1}
    BY <1>1
  <2>3. \A k \in I \ {1} : k - 1 \in J /\ (k - 1) + 1 = k
    BY <1>1
  <2>4. f \in Bijection(J, I \ {1})
    <3>1. f \in [J -> I \ {1}]
      BY <2>1, <2>2
    <3>2. \A i, k \in J : f[i] = f[k] => i = k
      BY <2>1, <2>2
    <3>3. \A k \in I \ {1} : \E i \in J : f[i] = k
      BY <2>1, <2>3
    <3>4. QED
      <4> HIDE DEF I, J
      <4>1. f \in Surjection(J, I \ {1})
        BY <3>1, <3>3 DEF Surjection
      <4>2. f \in Injection(J, I \ {1})
        BY <3>1, <3>2 DEF Injection, IsInjective
      <4>3. QED
        BY <4>1, <4>2 DEF Bijection
  <2>5. QED
    BY <1>2, <2>4, FS_Bijection DEF ExistsBijection
<1>4. Cardinality(I \ {1}) = IF 1 \in I THEN Cardinality(I) - 1 ELSE Cardinality(I)
  BY <1>2, FS_RemoveElement
<1>5. 1 \in I <=> s = Head(q)
  BY <1>1
<1>6. CountOf(q, s) = Cardinality(I) /\ CountOf(Tail(q), s) = Cardinality(J)
  BY DEF CountOf
<1> HIDE DEF I, J
<1>7. QED
  BY <1>2, <1>3, <1>4, <1>5, <1>6

-----------------------------------------------------------------------------
(* The invariant, step by step                                             *)

\* The thread that waits for signals blocks them all, and the channel lives.
LEMMA WorkerRuns ==
    ASSUME SignalInv, worker \notin {"none", "ended"}
    PROVE  main \in {"out", "join"} /\ mask[Worker] = Signals
  BY DEF SignalInv, Masked

\* The books are closed or agree as before.
LEMMA KeptSame ==
    ASSUME SignalsKept, UNCHANGED <<process, queue_, sent, reads>>, open_' => open_, killed' = killed
    PROVE  SignalsKept'
  BY DEF SignalsKept, QueuedCount, PendingCount

\* Nothing is kept for a channel that is closed.
LEMMA KeptClosed ==
    ASSUME ~open_'
    PROVE  SignalsKept'
  BY DEF SignalsKept

\* Every thread blocks a signal that is sent: it becomes pending, or is already.
LEMMA SendStep ==
    ASSUME SignalInv, NEW s \in Asked, Send(s)
    PROVE  SignalInv'
<1>1. s \in Signals /\ Main \in SignalThreads /\ Worker \in SignalThreads
  BY SignalSets DEF SignalThreads
<1>2. \A t \in Alive : s \in mask[t]
  <2>1. main \in {"out", "join"} /\ mask[Main] = Signals
    BY DEF Send, SignalInv, Masked
  <2>2. worker \notin {"none", "ended"} => mask[Worker] = Signals
    BY DEF SignalInv, Masked
  <2>3. QED
    BY <1>1, <2>1, <2>2 DEF Alive
<1>3. /\ process' = process \cup {s} /\ UNCHANGED killed
      /\ sent' = IF s \in process THEN sent ELSE [sent EXCEPT ![s] = @ + 1]
      /\ UNCHANGED <<mask, oldmask_, thread, queue_, open_, main, worker, snapshot, left, reads, dropped>>
      /\ main \in {"out", "join"}
  BY <1>2 DEF Send
<1>4. SignalTypes'
  <2>1. sent' \in [Signals -> Nat]
    BY <1>1, <1>3 DEF SignalInv, SignalTypes
  <2>2. QED
    BY <1>3, <2>1 DEF SignalInv, SignalTypes
<1>5. Untouched' /\ Masked' /\ Raised' /\ Waited'
  BY <1>3 DEF SignalInv, Untouched, Masked, Raised, Waited
<1>6. SignalsKept'
  <2> SUFFICES ASSUME open_', ~killed', NEW r \in Signals
               PROVE  sent'[r] = reads'[r] + QueuedCount(r)' + PendingCount(r)'
    BY DEF SignalsKept
  <2>1. sent[r] = reads[r] + QueuedCount(r) + PendingCount(r)
    BY <1>3 DEF SignalInv, SignalsSafe, SignalsKept
  <2>2. QueuedCount(r)' = QueuedCount(r) /\ reads'[r] = reads[r]
    BY <1>3 DEF QueuedCount
  <2>3. QueuedCount(r) \in Nat /\ reads[r] \in Nat /\ sent \in [Signals -> Nat]
    BY CountNat DEF SignalInv, SignalTypes, QueuedCount, CountOf
  <2>4. CASE r = s /\ s \notin process
    <3>1. PendingCount(r) = 0 /\ PendingCount(r)' = 1 /\ sent'[r] = sent[r] + 1
      BY <1>1, <1>3, <2>3, <2>4 DEF PendingCount
    <3>2. QED
      BY <2>1, <2>2, <2>3, <3>1
  <2>5. CASE ~(r = s /\ s \notin process)
    <3>1. PendingCount(r)' = PendingCount(r) /\ sent'[r] = sent[r]
      BY <1>1, <1>3, <2>3, <2>5 DEF PendingCount
    <3>2. QED
      BY <2>1, <2>2, <3>1
  <2>6. QED
    BY <2>4, <2>5
<1>7. QED
  BY <1>3, <1>4, <1>5, <1>6 DEF SignalInv, SignalsSafe, NotKilled

\* The constructor blocks the signals before there can be any.
LEMMA ConstructStep ==
    ASSUME SignalInv, Construct
    PROVE  SignalInv'
<1>1. /\ main = "new" /\ worker = "none" /\ process = {} /\ ~open_
      /\ thread[Main] = {} /\ thread[Worker] = {} /\ \A s \in Signals : sent[s] = 0 /\ reads[s] = 0
      /\ Main \in SignalThreads /\ Worker \in SignalThreads
  BY DEF Construct, SignalInv, Untouched, SignalThreads
<1>2. /\ main' = "out" /\ queue_' = <<>> /\ open_' = TRUE /\ oldmask_' = mask[Main]
      /\ mask' = [mask EXCEPT ![Main] = mask[Main] \cup Signals]
      /\ killed' = (killed \/ PendingFor(Main) \ (mask[Main] \cup Signals) # {})
      /\ UNCHANGED <<process, thread, worker, snapshot, left, sent, reads, dropped>>
  BY DEF Construct, SetMask, Counts
<1>3. ~killed'
  <2>1. PendingFor(Main) = {} /\ ~killed
    BY <1>1 DEF PendingFor, SignalInv, SignalsSafe, NotKilled
  <2>2. QED
    BY <1>2, <2>1
<1>4. mask' \in [SignalThreads -> SUBSET Signals] /\ mask'[Main] = Signals /\ oldmask_' \subseteq Signals
  BY <1>1, <1>2 DEF SignalInv, SignalTypes
<1>5. SignalTypes'
  <2>1. <<>> \in Seq(Signals)
    OBVIOUS
  <2>2. QED
    BY <1>2, <1>4, <2>1 DEF SignalInv, SignalTypes
<1>6. Untouched' /\ Masked' /\ Raised' /\ Waited'
  BY <1>1, <1>2, <1>4 DEF SignalInv, Untouched, Masked, Raised, Waited, SignalThreads
<1>7. SignalsKept'
  <2> SUFFICES ASSUME NEW r \in Signals
               PROVE  sent'[r] = reads'[r] + QueuedCount(r)' + PendingCount(r)'
    BY DEF SignalsKept
  <2>1. PendingCount(r)' = 0 /\ sent'[r] = 0 /\ reads'[r] = 0
    BY <1>1, <1>2 DEF PendingCount
  <2>2. QueuedCount(r)' = 0
    <3>1. {i \in DOMAIN queue_' : queue_'[i] = r} = {}
      BY <1>2
    <3>2. QED
      BY <3>1, FS_EmptySet DEF QueuedCount
  <2>3. QED
    BY <2>1, <2>2
<1>8. QED
  BY <1>3, <1>5, <1>6, <1>7 DEF SignalInv, SignalsSafe, NotKilled

\* Worker inherits the mask.
LEMMA StartStep ==
    ASSUME SignalInv, StartWorker
    PROVE  SignalInv'
<1>1. /\ main = "out" /\ worker' = "wait" /\ mask[Main] = Signals
      /\ mask' = [mask EXCEPT ![Worker] = Signals]
      /\ UNCHANGED <<oldmask_, process, thread, queue_, open_, main, snapshot, left, killed, sent, reads, dropped>>
  BY DEF StartWorker, SignalInv, Masked, Counts
<1>2. /\ mask' \in [SignalThreads -> SUBSET Signals] /\ mask'[Worker] = Signals /\ mask'[Main] = Signals
  BY <1>1 DEF SignalInv, SignalTypes, SignalThreads, Main, Worker
<1>3. SignalTypes' /\ Untouched' /\ Masked' /\ Raised' /\ Waited'
  BY <1>1, <1>2 DEF SignalInv, SignalTypes, Untouched, Masked, Raised, Waited
<1>4. QED
  BY <1>1, <1>3, KeptSame DEF SignalInv, SignalsSafe, NotKilled

\* A thread that has begun to wait or sees that the time is up.
LEMMA WaitStep ==
    ASSUME SignalInv, WaitBegins(Worker) \/ WaitTimesOut(Worker)
    PROVE  SignalInv'
<1>1. Worker # Main
  BY DEF Worker, Main
<1>2. /\ worker \in {"wait", "sigtimedwait"} /\ worker' \in {"wait", "sigtimedwait", "ready"}
      /\ UNCHANGED <<mask, oldmask_, process, thread, queue_, open_, main, snapshot, left, killed, sent, reads, dropped>>
  BY <1>1 DEF WaitBegins, WaitTimesOut, At, Goto, Counts
<1>3. main \in {"out", "join"} /\ mask[Worker] = Signals
  BY <1>2, WorkerRuns
<1>4. SignalTypes' /\ Untouched' /\ Masked' /\ Raised' /\ Waited'
  BY <1>2, <1>3 DEF SignalInv, SignalTypes, Untouched, Masked, Raised, Waited
<1>5. QED
  BY <1>2, <1>4, KeptSame DEF SignalInv, SignalsSafe, NotKilled

\* sigtimedwait() takes a signal, into the queue while the channel is open.
LEMMA TakesStep ==
    ASSUME SignalInv, WaitTakes(Worker)
    PROVE  SignalInv'
<1>1. Worker # Main /\ Worker \in SignalThreads /\ Main \in SignalThreads
  BY DEF Worker, Main, SignalThreads
<1>2. PICK s \in Signals :
         /\ s \in PendingFor(Worker) /\ Take(Worker, s)
         /\ IF open_ THEN queue_' = Append(queue_, s) /\ UNCHANGED dropped
            ELSE dropped' = [dropped EXCEPT ![s] = @ + 1] /\ UNCHANGED queue_
  BY DEF WaitTakes
<1>3. /\ worker = "sigtimedwait" /\ worker' = "ready"
      /\ UNCHANGED <<mask, oldmask_, open_, main, snapshot, left, killed, sent, reads>>
  BY <1>1 DEF WaitTakes, At, Goto
<1>4. main \in {"out", "join"} /\ mask[Worker] = Signals
  BY <1>3, WorkerRuns
<1>5. process' \subseteq process /\ thread' \in [SignalThreads -> SUBSET {Usr1}]
  BY <1>1, <1>2 DEF Take, SignalInv, SignalTypes
<1>6. queue_' \in Seq(Signals) /\ dropped' \in [Signals -> Nat]
  <2>1. Append(queue_, s) \in Seq(Signals) /\ [dropped EXCEPT ![s] = @ + 1] \in [Signals -> Nat]
    BY DEF SignalInv, SignalTypes
  <2>2. QED
    BY <1>2, <2>1 DEF SignalInv, SignalTypes
<1>7. SignalTypes'
  BY <1>3, <1>5, <1>6 DEF SignalInv, SignalTypes
<1>8. CASE open_
  <2>1. /\ thread[Worker] = {} /\ s \in process
    BY <1>1, <1>2, <1>8 DEF SignalInv, Raised, PendingFor
  <2>2. process' = process \ {s} /\ thread' = thread /\ queue_' = Append(queue_, s)
    BY <1>2, <1>8, <2>1 DEF Take
  <2>3. Untouched' /\ Masked' /\ Raised' /\ Waited'
    BY <1>3, <1>4, <2>2 DEF SignalInv, Untouched, Masked, Raised, Waited
  <2>4. SignalsKept'
    <3> SUFFICES ASSUME NEW r \in Signals
                 PROVE  sent'[r] = reads'[r] + QueuedCount(r)' + PendingCount(r)'
      BY DEF SignalsKept
    <3>1. sent[r] = reads[r] + QueuedCount(r) + PendingCount(r) /\ sent'[r] = sent[r] /\ reads'[r] = reads[r]
      BY <1>3, <1>8 DEF SignalInv, SignalsSafe, SignalsKept, NotKilled
    <3>2. QueuedCount(r)' = QueuedCount(r) + (IF r = s THEN 1 ELSE 0)
      <4>1. CountOf(Append(queue_, s), r) = CountOf(queue_, r) + (IF r = s THEN 1 ELSE 0)
        BY CountAppend DEF SignalInv, SignalTypes
      <4>2. QED
        BY <2>2, <4>1 DEF QueuedCount, CountOf
    <3>3. PendingCount(r) = PendingCount(r)' + (IF r = s THEN 1 ELSE 0)
      BY <2>1, <2>2 DEF PendingCount
    <3>4. QueuedCount(r) \in Nat /\ reads[r] \in Nat /\ sent[r] \in Nat /\ PendingCount(r)' \in Nat
      BY CountNat DEF SignalInv, SignalTypes, QueuedCount, CountOf, PendingCount
    <3>5. QED
      BY <3>1, <3>2, <3>3, <3>4
  <2>5. QED
    BY <1>3, <1>7, <2>3, <2>4 DEF SignalInv, SignalsSafe, NotKilled
<1>9. CASE ~open_
  <2>1. Untouched' /\ Masked' /\ Raised' /\ Waited'
    BY <1>3, <1>4, <1>9 DEF SignalInv, Untouched, Masked, Raised, Waited
  <2>2. QED
    BY <1>3, <1>7, <1>9, <2>1, KeptClosed DEF SignalInv, SignalsSafe, NotKilled
<1>10. QED
  BY <1>8, <1>9

\* A signal is read from the queue.
LEMMA ReadStep ==
    ASSUME SignalInv, read(Worker)
    PROVE  SignalInv'
<1>1. Worker # Main
  BY DEF Worker, Main
<1>2. /\ worker = "ready" /\ worker' = "wait" /\ open_ /\ queue_ # <<>> /\ queue_' = Tail(queue_)
      /\ reads' = [reads EXCEPT ![Head(queue_)] = @ + 1]
      /\ UNCHANGED <<mask, oldmask_, process, thread, open_, main, snapshot, left, killed, sent, dropped>>
  BY <1>1 DEF read, At, Goto
<1>3. main \in {"out", "join"} /\ mask[Worker] = Signals
  BY <1>2, WorkerRuns
<1>4. PICK x \in Signals : x = Head(queue_) /\ Tail(queue_) \in Seq(Signals)
  BY <1>2 DEF SignalInv, SignalTypes
<1>5. reads' \in [Signals -> Nat]
  BY <1>2, <1>4 DEF SignalInv, SignalTypes
<1>6. SignalTypes' /\ Untouched' /\ Masked' /\ Raised' /\ Waited'
  BY <1>2, <1>3, <1>4, <1>5 DEF SignalInv, SignalTypes, Untouched, Masked, Raised, Waited
<1>7. SignalsKept'
  <2> SUFFICES ASSUME NEW r \in Signals
               PROVE  sent'[r] = reads'[r] + QueuedCount(r)' + PendingCount(r)'
    BY DEF SignalsKept
  <2>1. /\ sent[r] = reads[r] + QueuedCount(r) + PendingCount(r) /\ sent'[r] = sent[r]
        /\ PendingCount(r)' = PendingCount(r)
    BY <1>2 DEF SignalInv, SignalsSafe, SignalsKept, NotKilled, PendingCount
  <2>2. CountOf(queue_, r) = CountOf(Tail(queue_), r) + (IF r = x THEN 1 ELSE 0)
    BY <1>2, <1>4, CountTail DEF SignalInv, SignalTypes
  <2>3. QueuedCount(r) = CountOf(queue_, r) /\ QueuedCount(r)' = CountOf(Tail(queue_), r)
    BY <1>2 DEF QueuedCount, CountOf
  <2>4. reads'[r] = reads[r] + (IF r = x THEN 1 ELSE 0)
    BY <1>2, <1>4 DEF SignalInv, SignalTypes
  <2>5. CountOf(Tail(queue_), r) \in Nat /\ reads[r] \in Nat /\ PendingCount(r) \in Nat
    BY <1>4, CountNat DEF SignalInv, SignalTypes, PendingCount
  <2>6. QED
    BY <2>1, <2>2, <2>3, <2>4, <2>5
<1>8. QED
  BY <1>2, <1>6, <1>7 DEF SignalInv, SignalsSafe, NotKilled

\* close(), in a thread that blocks SIGUSR1.
LEMMA CloseKept ==
    ASSUME SignalInv, NEW t \in SignalThreads, close(t), mask[t] = Signals,
           UNCHANGED <<mask, oldmask_, process, queue_, snapshot, left, Counts>>,
           main' \in {"out", "join", "destroy"}, main \in {"out", "join"},
           worker' \in {worker, "ended"}, worker' \notin {"none", "ended"} => main' \in {"out", "join"}
    PROVE  SignalInv'
<1>1. Usr1 \in mask[t]
  BY SignalSets
<1>2. /\ open_' = FALSE /\ UNCHANGED killed
      /\ thread' = thread \/ thread' = [thread EXCEPT ![t] = @ \cup {Usr1}]
  BY <1>1 DEF close
<1>3. thread' \in [SignalThreads -> SUBSET {Usr1}]
  BY <1>2 DEF SignalInv, SignalTypes
<1>4. SignalTypes'
  BY <1>2, <1>3 DEF SignalInv, SignalTypes, Counts
<1>5. Untouched' /\ Masked' /\ Raised' /\ Waited'
  BY <1>2 DEF SignalInv, Untouched, Masked, Raised, Waited
<1>6. QED
  BY <1>2, <1>4, <1>5, KeptClosed DEF SignalInv, SignalsSafe, NotKilled

\* The thread ends, or its handler throws; Main closes the channel.
LEMMA ClosesStep ==
    ASSUME SignalInv, WorkerEnds \/ WorkerThrows \/ MainCloses
    PROVE  SignalInv'
<1>1. Main \in SignalThreads /\ Worker \in SignalThreads
  BY DEF SignalThreads
<1>2. CASE WorkerEnds \/ WorkerThrows
  <2>1. /\ worker = "ready" /\ worker' = "ended" /\ close(Worker)
        /\ UNCHANGED <<mask, oldmask_, process, queue_, main, snapshot, left, Counts>>
    BY <1>2 DEF WorkerEnds, WorkerThrows
  <2>2. main \in {"out", "join"} /\ mask[Worker] = Signals
    BY <2>1, WorkerRuns
  <2>3. QED
    BY <1>1, <2>1, <2>2, CloseKept
<1>3. CASE MainCloses
  <2>1. /\ main = "out" /\ main' = (IF worker = "none" THEN "destroy" ELSE "join") /\ close(Main)
        /\ UNCHANGED <<mask, oldmask_, process, queue_, worker, snapshot, left, Counts>>
    BY <1>3 DEF MainCloses
  <2>2. mask[Main] = Signals
    BY <2>1 DEF SignalInv, Masked
  <2>3. QED
    BY <1>1, <2>1, <2>2, CloseKept
<1>4. QED
  BY <1>2, <1>3

\* Main goes on when the thread has ended, and the destructor looks at what is
\* pending; the list has an entry for each.
LEMMA DestroyStep ==
    ASSUME SignalInv, Joined \/ DestroyBegins
    PROVE  SignalInv'
<1>1. worker \in {"none", "ended"} /\ Main \in SignalThreads /\ ~open_
  BY DEF SignalInv, Joined, DestroyBegins, Masked, Raised, SignalThreads
<1>2. /\ main \in {"join", "destroy"} /\ main' \in {"destroy", "sigwait"}
      /\ UNCHANGED <<mask, oldmask_, process, thread, queue_, open_, worker, killed, Counts>>
  BY DEF Joined, DestroyBegins
<1>3. left' \in Nat /\ (main' = "sigwait" => Cardinality(process) + Cardinality(thread[Main]) <= left')
  <2>1. CASE Joined
    BY <2>1 DEF Joined, SignalInv, SignalTypes
  <2>2. CASE DestroyBegins
    <3>1. PICK P, T : P = process /\ T = thread[Main] /\ P \subseteq Asked /\ T \subseteq {Usr1}
      BY <1>1 DEF SignalInv, SignalTypes
    <3>2. left' = Cardinality({i \in DOMAIN signals_ : signals_[i] \in P \cup T})
      BY <2>2, <3>1 DEF DestroyBegins, PendingFor
    <3>3. QED
      BY <3>1, <3>2, EnoughWaits
  <2>3. QED
    BY <2>1, <2>2
<1>4. SignalTypes'
  BY <1>2, <1>3 DEF SignalInv, SignalTypes, Counts
<1>5. Untouched' /\ Masked' /\ Raised' /\ Waited'
  BY <1>1, <1>2, <1>3 DEF SignalInv, Untouched, Masked, Raised, Waited
<1>6. QED
  BY <1>1, <1>2, <1>4, <1>5, KeptClosed DEF SignalInv, SignalsSafe, NotKilled

\* sigwait() takes one of the signals that are pending.
LEMMA DestroyTakesStep ==
    ASSUME SignalInv, DestroyTakes
    PROVE  SignalInv'
<1>1. Main \in SignalThreads /\ ~open_
  BY DEF SignalInv, DestroyTakes, Raised, SignalThreads
<1>2. PICK s : /\ s \in PendingFor(Main) /\ Take(Main, s)
               /\ dropped' = [dropped EXCEPT ![s] = @ + 1]
  BY DEF DestroyTakes
<1>3. /\ main = "sigwait" /\ left > 0 /\ left' = left - 1 /\ left' \in Nat
      /\ UNCHANGED <<mask, oldmask_, queue_, open_, main, worker, snapshot, killed, sent, reads>>
  BY DEF DestroyTakes, SignalInv, SignalTypes
<1>4. PICK P, T : P = process /\ T = thread[Main] /\ P \subseteq Asked /\ T \subseteq {Usr1}
  BY <1>1 DEF SignalInv, SignalTypes
<1>5. /\ IsFiniteSet(P) /\ IsFiniteSet(T) /\ Cardinality(P) \in Nat /\ Cardinality(T) \in Nat
      /\ Cardinality(P) + Cardinality(T) <= left /\ left \in Nat /\ s \in P \cup T
  BY <1>2, <1>3, <1>4, PendingFinite DEF SignalInv, SignalTypes, Waited, PendingFor
<1>6. s \in Signals
  BY <1>4, <1>5, SignalSets
<1>7. CASE s \in T
  <2>1. process' = P /\ thread' = [thread EXCEPT ![Main] = T \ {s}]
    BY <1>2, <1>4, <1>7 DEF Take
  <2>2. Cardinality(T \ {s}) = Cardinality(T) - 1
    BY <1>5, <1>7, FS_RemoveElement
  <2>3. thread'[Main] = T \ {s} /\ thread' \in [SignalThreads -> SUBSET {Usr1}]
    BY <1>1, <1>4, <2>1 DEF SignalInv, SignalTypes
  <2>4. Cardinality(process') + Cardinality(thread'[Main]) <= left'
    BY <1>3, <1>5, <2>1, <2>2, <2>3
  <2>5. SignalTypes' /\ Waited'
    BY <1>3, <1>4, <1>6, <1>2, <2>1, <2>3, <2>4 DEF SignalInv, SignalTypes, Waited
  <2>6. Untouched' /\ Masked' /\ Raised'
    BY <1>1, <1>3 DEF SignalInv, Untouched, Masked, Raised
  <2>7. QED
    BY <1>1, <1>3, <2>5, <2>6, KeptClosed DEF SignalInv, SignalsSafe, NotKilled
<1>8. CASE s \notin T
  <2>1. process' = P \ {s} /\ thread' = thread /\ s \in P
    BY <1>2, <1>4, <1>5, <1>8 DEF Take
  <2>2. Cardinality(P \ {s}) = Cardinality(P) - 1
    BY <1>5, <2>1, FS_RemoveElement
  <2>3. Cardinality(process') + Cardinality(thread'[Main]) <= left'
    BY <1>3, <1>4, <1>5, <2>1, <2>2
  <2>4. SignalTypes' /\ Waited'
    BY <1>3, <1>4, <1>6, <1>2, <2>1, <2>3 DEF SignalInv, SignalTypes, Waited
  <2>5. Untouched' /\ Masked' /\ Raised'
    BY <1>1, <1>3 DEF SignalInv, Untouched, Masked, Raised
  <2>6. QED
    BY <1>1, <1>3, <2>4, <2>5, KeptClosed DEF SignalInv, SignalsSafe, NotKilled
<1>9. QED
  BY <1>7, <1>8

\* No signal is pending when the destructor restores the mask.
LEMMA DestroyEndsStep ==
    ASSUME SignalInv, DestroyEnds
    PROVE  SignalInv'
<1>1. Main \in SignalThreads /\ ~open_ /\ worker \in {"none", "ended"}
  BY DEF SignalInv, DestroyEnds, Masked, Raised, SignalThreads
<1>2. /\ main = "sigwait" /\ left = 0 /\ main' = "gone"
      /\ mask' = [mask EXCEPT ![Main] = oldmask_]
      /\ killed' = (killed \/ PendingFor(Main) \ oldmask_ # {})
      /\ UNCHANGED <<oldmask_, process, thread, queue_, open_, worker, snapshot, left, Counts>>
  BY DEF DestroyEnds, SetMask
<1>3. PICK P, T : P = process /\ T = thread[Main] /\ P \subseteq Asked /\ T \subseteq {Usr1}
  BY <1>1 DEF SignalInv, SignalTypes
<1>4. /\ IsFiniteSet(P) /\ IsFiniteSet(T) /\ Cardinality(P) \in Nat /\ Cardinality(T) \in Nat
      /\ Cardinality(P) + Cardinality(T) <= 0
  BY <1>2, <1>3, PendingFinite DEF SignalInv, Waited
<1>5. Cardinality(P) = 0 /\ Cardinality(T) = 0
  BY <1>4
<1>6. P = {} /\ T = {}
  BY <1>4, <1>5, FS_EmptySet
<1>7. ~killed'
  <2>1. PendingFor(Main) = {} /\ ~killed
    BY <1>3, <1>6 DEF PendingFor, SignalInv, SignalsSafe, NotKilled
  <2>2. QED
    BY <1>2, <2>1
<1>8. SignalTypes'
  BY <1>2 DEF SignalInv, SignalTypes, Counts
<1>9. Untouched' /\ Masked' /\ Raised' /\ Waited'
  BY <1>1, <1>2 DEF SignalInv, Untouched, Masked, Raised, Waited
<1>10. QED
  BY <1>1, <1>2, <1>7, <1>8, <1>9, KeptClosed DEF SignalInv, SignalsSafe, NotKilled

\* Every step keeps the invariant.
LEMMA SignalInvStep ==
    ASSUME SignalInv, [SignalNext]_signalVars
    PROVE  SignalInv'
<1>1. CASE UNCHANGED signalVars
  <2>1. SignalTypes' /\ Untouched' /\ Masked' /\ Raised' /\ Waited'
    BY <1>1 DEF signalVars, SignalInv, SignalTypes, Untouched, Masked, Raised, Waited
  <2>2. QED
    BY <1>1, <2>1, KeptSame DEF signalVars, SignalInv, SignalsSafe, NotKilled
<1>2. CASE \E s \in Asked : Send(s)
  BY <1>2, SendStep
<1>3. CASE Construct \/ StartWorker \/ MainCloses \/ WorkerThrows
  BY <1>3, ConstructStep, StartStep, ClosesStep
<1>4. CASE WorkerSteps
  BY <1>4, WaitStep, TakesStep, ReadStep, ClosesStep DEF WorkerSteps
<1>5. CASE MainProceeds
  BY <1>5, DestroyStep, DestroyTakesStep, DestroyEndsStep DEF MainProceeds
<1>6. QED
  BY <1>1, <1>2, <1>3, <1>4, <1>5 DEF SignalNext

\* At first nothing is blocked, pending or open.
LEMMA SignalInitInv ==
    ASSUME SignalInit
    PROVE  SignalInv
<1>1. <<>> \in Seq(Signals)
  OBVIOUS
<1>2. SignalTypes /\ Untouched
  BY <1>1 DEF SignalInit, SignalTypes, Untouched, SignalThreads
<1>3. Masked /\ Raised /\ Waited /\ SignalsSafe
  BY DEF SignalInit, Masked, Raised, Waited, SignalsSafe, SignalsKept, NotKilled
<1>4. QED
  BY <1>2, <1>3 DEF SignalInv

\* The signals' channel keeps its books, and its masks, whatever happens.
THEOREM SignalInvariance == SignalSpec => []SignalInv
  BY SignalInitInv, SignalInvStep, PTL DEF SignalSpec

\* A signal of an open channel is read once or still waits to be; and neither
\* it nor the SIGUSR1 of close() ends the process: the destructor waits for
\* every one that is pending before it restores the mask.
THEOREM SignalsAreSafe == SignalSpec => []SignalsSafe
<1>1. SignalInv => SignalsSafe
  BY DEF SignalInv
<1>2. QED
  BY <1>1, SignalInvariance, PTL

-----------------------------------------------------------------------------
(* The destructor, for a list that names no signal twice                   *)

\* No signal is in the list twice, and SIGUSR1 is not in it.
Distinct == \A i, j \in DOMAIN signals_ : signals_[i] = signals_[j] => i = j

\* The destructor has to wait for each signal that it found, and no more.
Owed ==
    main = "sigwait" => /\ left = Cardinality(process) + Cardinality(thread[Main])
                        /\ PendingFor(Main) \subseteq snapshot

\* A sigwait() that is called finds its signal.
NoVainWait == main = "sigwait" /\ left > 0 => PendingFor(Main) \cap snapshot # {}

\* The entries of the list that are pending are as many as the signals that are.
LEMMA JustEnoughWaits ==
    ASSUME Distinct, NEW P, P \subseteq Asked, NEW T, T \subseteq {Usr1}
    PROVE  Cardinality({i \in DOMAIN signals_ : signals_[i] \in P \cup T}) = Cardinality(P) + Cardinality(T)
<1> DEFINE I == {i \in DOMAIN signals_ : signals_[i] \in P \cup T}
           U == P \cup T
<1>1. Usr1 \notin Asked
  <2> SUFFICES ASSUME Usr1 \in Asked PROVE FALSE
    OBVIOUS
  <2>1. PICK i \in 1 .. Len(List) : List[i] = Usr1
    <3>1. Asked = {List[i] : i \in 1 .. Len(List)}
      BY SignalAssumptions DEF Asked, Range
    <3>2. QED
      BY <3>1
  <2>2. i \in DOMAIN signals_ /\ Len(List) + 1 \in DOMAIN signals_ /\ i # Len(List) + 1
    BY <2>1, SignalSets
  <2>3. signals_[i] = signals_[Len(List) + 1]
    BY <2>1, SignalSets
  <2>4. QED
    BY <2>2, <2>3 DEF Distinct
<1>2. IsFiniteSet(P) /\ IsFiniteSet(T) /\ Cardinality(P) \in Nat /\ Cardinality(T) \in Nat
  BY PendingFinite
<1>3. IsFiniteSet(U) /\ Cardinality(U) = Cardinality(P) + Cardinality(T)
  <2>1. P \cap T = {}
    BY <1>1
  <2>2. Cardinality(P \cap T) = 0
    BY <2>1, FS_EmptySet
  <2>3. IsFiniteSet(U) /\ Cardinality(U) = Cardinality(P) + Cardinality(T) - Cardinality(P \cap T)
    BY <1>2, FS_Union
  <2>4. QED
    BY <1>2, <2>2, <2>3
<1>4. \A s \in U : \E i \in I : signals_[i] = s
  <2>1. U \subseteq Signals
    BY SignalSets
  <2>2. QED
    BY <2>1 DEF Signals, Range
<1>5. PICK f : f = [i \in I |-> signals_[i]]
  OBVIOUS
<1>6. f \in Bijection(I, U)
  <2>1. f \in [I -> U]
    BY <1>5
  <2>2. \A i, j \in I : f[i] = f[j] => i = j
    BY <1>5 DEF Distinct
  <2>3. \A s \in U : \E i \in I : f[i] = s
    BY <1>4, <1>5
  <2> HIDE DEF I, U
  <2>4. f \in Surjection(I, U)
    BY <2>1, <2>3 DEF Surjection
  <2>5. f \in Injection(I, U)
    BY <2>1, <2>2 DEF Injection, IsInjective
  <2>6. QED
    BY <2>4, <2>5 DEF Bijection
<1>7. IsFiniteSet(I)
  <2>1. IsFiniteSet(1 .. Len(List) + 1)
    BY SignalSets, FS_Interval
  <2>2. I \in SUBSET (1 .. Len(List) + 1)
    BY SignalSets
  <2>3. QED
    BY <2>1, <2>2, FS_Subset
<1> HIDE DEF I, U
<1>8. Cardinality(U) = Cardinality(I)
  BY <1>6, <1>7, FS_Bijection DEF ExistsBijection
<1>9. QED
  BY <1>3, <1>8 DEF I

\* What the destructor waits for is what is still pending.
LEMMA OwedStep ==
    ASSUME Distinct, SignalInv, Owed, [SignalNext]_signalVars
    PROVE  Owed'
<1>1. CASE main' # "sigwait"
  BY <1>1 DEF Owed
<1>2. CASE UNCHANGED <<main, left, process, thread, snapshot>>
  BY <1>2 DEF Owed, PendingFor
<1>3. CASE DestroyBegins
  <2>1. PICK P, T : P = process /\ T = thread[Main] /\ P \subseteq Asked /\ T \subseteq {Usr1}
    BY DEF SignalInv, SignalTypes, SignalThreads
  <2>2. /\ left' = Cardinality({i \in DOMAIN signals_ : signals_[i] \in P \cup T})
        /\ snapshot' = P \cup T /\ UNCHANGED <<process, thread>>
    BY <1>3, <2>1 DEF DestroyBegins, PendingFor
  <2>3. left' = Cardinality(P) + Cardinality(T)
    BY <2>1, <2>2, JustEnoughWaits
  <2>4. QED
    BY <2>1, <2>2, <2>3 DEF Owed, PendingFor
<1>4. CASE DestroyTakes
  <2>1. PICK s : s \in PendingFor(Main) /\ Take(Main, s)
    BY <1>4 DEF DestroyTakes
  <2>2. /\ main = "sigwait" /\ left' = left - 1 /\ UNCHANGED snapshot /\ Main \in SignalThreads
    BY <1>4 DEF DestroyTakes, SignalThreads
  <2>3. PICK P, T : P = process /\ T = thread[Main] /\ P \subseteq Asked /\ T \subseteq {Usr1}
    BY DEF SignalInv, SignalTypes, SignalThreads
  <2>4. /\ IsFiniteSet(P) /\ IsFiniteSet(T) /\ Cardinality(P) \in Nat /\ Cardinality(T) \in Nat
        /\ left = Cardinality(P) + Cardinality(T) /\ P \cup T \subseteq snapshot /\ s \in P \cup T
    BY <2>1, <2>2, <2>3, PendingFinite DEF Owed, PendingFor
  <2>5. CASE s \in T
    <3>1. process' = P /\ thread' = [thread EXCEPT ![Main] = T \ {s}]
      BY <2>1, <2>3, <2>5 DEF Take
    <3>2. thread'[Main] = T \ {s}
      BY <2>2, <3>1 DEF SignalInv, SignalTypes
    <3>3. Cardinality(T \ {s}) = Cardinality(T) - 1
      BY <2>4, <2>5, FS_RemoveElement
    <3>4. left' = Cardinality(process') + Cardinality(thread'[Main])
      BY <2>2, <2>4, <3>1, <3>2, <3>3
    <3>5. QED
      BY <2>2, <2>4, <3>1, <3>2, <3>4 DEF Owed, PendingFor
  <2>6. CASE s \notin T
    <3>1. process' = P \ {s} /\ thread' = thread /\ s \in P
      BY <2>1, <2>3, <2>4, <2>6 DEF Take
    <3>2. Cardinality(P \ {s}) = Cardinality(P) - 1
      BY <2>4, <3>1, FS_RemoveElement
    <3>3. left' = Cardinality(process') + Cardinality(thread'[Main])
      BY <2>2, <2>3, <2>4, <3>1, <3>2
    <3>4. QED
      BY <2>2, <2>3, <2>4, <3>1, <3>3 DEF Owed, PendingFor
  <2>7. QED
    BY <2>5, <2>6
<1>5. CASE main = "sigwait" /\ ~DestroyTakes /\ ~DestroyEnds /\ SignalNext
  <2>1. main = "sigwait" /\ worker \in {"none", "ended"}
    BY <1>5 DEF SignalInv, Masked
  <2>2. FALSE
    BY <1>5, <2>1 DEF SignalInv, Raised, SignalNext, WorkerSteps, MainProceeds, Send, Construct, StartWorker,
       MainCloses, WorkerThrows, WaitBegins, WaitTakes, WaitTimesOut, read, WorkerEnds, Joined,
       DestroyBegins, At, Main, Worker
  <2>3. QED
    BY <2>2
<1>6. CASE main # "sigwait" /\ ~DestroyBegins /\ SignalNext
  <2>1. main' # "sigwait"
    BY <1>6 DEF SignalNext, WorkerSteps, MainProceeds, Send, Construct, StartWorker,
       MainCloses, WorkerThrows, WaitBegins, WaitTakes, WaitTimesOut, read, WorkerEnds, Joined,
       DestroyTakes, DestroyEnds, At, Goto, Main, Worker
  <2>2. QED
    BY <1>1, <2>1
<1>7. CASE DestroyEnds
  BY <1>1, <1>7 DEF DestroyEnds
<1>8. QED
  BY <1>2, <1>3, <1>4, <1>5, <1>6, <1>7 DEF signalVars

\* Signals that come together, or are raised by close() as well, or are taken
\* by the thread before: as long as the list names no signal twice, no
\* sigwait() of the destructor waits for one that is no longer pending.
THEOREM DestructorGoesOn ==
    ASSUME Distinct
    PROVE  SignalSpec => []NoVainWait
<1>1. SignalInit => Owed
  BY DEF SignalInit, Owed
<1>2. SignalInv /\ Owed /\ [SignalNext]_signalVars => Owed'
  BY OwedStep
<1>3. SignalInv /\ Owed => NoVainWait
  <2> SUFFICES ASSUME SignalInv, Owed, main = "sigwait", left > 0
               PROVE  PendingFor(Main) \cap snapshot # {}
    BY DEF NoVainWait
  <2>1. ASSUME PendingFor(Main) = {} PROVE FALSE
    <3>1. process = {} /\ thread[Main] = {}
      BY <2>1 DEF PendingFor
    <3>2. left = 0 + 0
      BY <3>1, FS_EmptySet DEF Owed
    <3>3. QED
      BY <3>2
  <2>2. QED
    BY <2>1 DEF Owed
<1>4. QED
  BY <1>1, <1>2, <1>3, SignalInvariance, PTL DEF SignalSpec

-----------------------------------------------------------------------------
(* Writing: what the calls are given arrives in the pipe, as long as no    *)
(* call that is not repeated was incomplete.                               *)

\* The calls a script can have, and the write() calls of one of them.
CallSet == {c \in [op : {"writes", "write_line", "write_chars"}, s : Seq(Chars)] :
              c.op = "write_chars" => \A j, k \in DOMAIN c.s : c.s[j] = c.s[k]}
Pieces == [s : Seq(Chars), repeat : BOOLEAN]

\* The text of each call of the writer, and all of them.
CallTexts == [i \in DOMAIN script |-> TextOf(script[i])]
AllText == Concat(CallTexts)

WriterTypes ==
    /\ script \in Scripts /\ todo \in Seq(CallSet) /\ writing \in Seq(Pieces)
    /\ ofs \in Nat /\ written \in Seq(Chars)
    /\ IF writing = <<>> THEN ofs = 0 ELSE ofs <= Len(writing[1].s)
    /\ wopen \in BOOLEAN /\ cut \in BOOLEAN /\ failed \in BOOLEAN
    /\ ~wopen \/ failed => todo = <<>> /\ writing = <<>>

\* Where the write() calls of a call begin and end in a text, from one place
\* to another.
Parts(pieces, text, from, to, B) ==
    /\ B \in [1 .. Len(pieces) + 1 -> Nat]
    /\ B[1] = from /\ B[Len(pieces) + 1] = to
    /\ \A i \in 1 .. Len(pieces) : /\ B[i + 1] = B[i] + Len(pieces[i].s) /\ B[i + 1] <= to
                                 /\ Follows(text, B[i], pieces[i].s)

\* The first k calls are made, but for what is left of the last one's writing.
Made(P, k) ==
    /\ PlacesIn(CallTexts, P) /\ k \in 0 .. Len(script)
    /\ Follows(script, k, todo) /\ k + Len(todo) = Len(script)
    /\ \E from \in Nat : from + ofs = Len(written) /\ \E B : Parts(writing, AllText, from, P[k], B)

Arrives ==
    ~cut => /\ Follows(AllText, 0, written) /\ Len(written) <= Len(AllText)
            /\ ~failed => \E P, k : Made(P, k)

WriterInv == WriterTypes /\ Arrives

\* The constants, and the calls of a script.
LEMMA IoTypes ==
           /\ block_size \in Nat /\ small_block \in Nat /\ PipeSize \in Nat
           /\ block_size > 0 /\ small_block > 1 /\ PipeSize > 0
           /\ Scripts \subseteq Seq(CallSet) /\ LF \in Chars
<1>1. ASSUME NEW f \in Scripts PROVE f \in Seq(CallSet)
  <2>1. f \in Seq([op : {"writes", "write_line", "write_chars"}, s : Seq(Chars)])
    BY IoAssumptions
  <2>2. \A i \in DOMAIN f : f[i].op = "write_chars" => \A j, k \in DOMAIN f[i].s : f[i].s[j] = f[i].s[k]
    BY IoAssumptions
  <2>3. PICK n \in Nat : n = Len(f) /\ DOMAIN f = 1 .. n
    BY <2>1
  <2>4. ASSUME NEW i \in 1 .. n PROVE f[i] \in CallSet
    <3>1. f[i] \in [op : {"writes", "write_line", "write_chars"}, s : Seq(Chars)]
      BY <2>1, <2>3, ElementOfSeq
    <3>2. f[i].op = "write_chars" => \A j, k \in DOMAIN f[i].s : f[i].s[j] = f[i].s[k]
      BY <2>2, <2>3
    <3>3. QED
      BY <3>1, <3>2, Zenon DEF CallSet
  <2>5. QED
    BY <2>1, <2>3, <2>4
<1>2. LF \in Chars
  BY DEF Chars
<1>3. /\ block_size \in Nat /\ small_block \in Nat /\ PipeSize \in Nat
      /\ block_size > 0 /\ small_block > 1 /\ PipeSize > 0
  BY IoAssumptions
<1>4. QED
  BY <1>1, <1>2, <1>3

\* What a call writes is a text.
LEMMA TextIs ==
    ASSUME NEW c \in CallSet
    PROVE  TextOf(c) \in Seq(Chars) /\ c.s \in Seq(Chars)
  BY IoTypes DEF TextOf, CallSet

\* So are all the calls of the writer together.
LEMMA AllTextIs ==
    ASSUME script \in Scripts
    PROVE  /\ script \in Seq(CallSet) /\ CallTexts \in Seq(Seq(Chars)) /\ Len(CallTexts) = Len(script)
           /\ AllText \in Seq(Chars)
<1>1. script \in Seq(CallSet)
  BY IoTypes
<1>2. PICK n \in Nat : n = Len(script) /\ DOMAIN script = 1 .. n
  BY <1>1
<1>3. \A i \in 1 .. n : TextOf(script[i]) \in Seq(Chars)
  BY <1>1, <1>2, TextIs
<1>4. CallTexts = [i \in 1 .. n |-> TextOf(script[i])]
  BY <1>2 DEF CallTexts
<1>5. CallTexts \in Seq(Seq(Chars)) /\ Len(CallTexts) = n
  BY <1>3, <1>4
<1>6. QED
  BY <1>1, <1>2, <1>5, Places DEF AllText

\* A call that is one write() call writes its text.
LEMMA OnePart ==
    ASSUME NEW c \in CallSet, c.op # "write_chars"
    PROVE  \E r \in BOOLEAN : WriteCalls(c) = <<[s |-> TextOf(c), repeat |-> r]>>
<1>1. CASE c.op = "writes"
  <2>1. TextOf(c) = c.s
    BY <1>1 DEF TextOf
  <2>2. WriteCalls(c) = <<Repeat(c.s)>>
    BY <1>1 DEF WriteCalls
  <2>3. QED
    BY <2>1, <2>2 DEF Repeat
<1>2. CASE c.op = "write_line" /\ c.s = <<>>
  <2>1. TextOf(c) = <<LF>>
    BY <1>2 DEF TextOf, EndsLine
  <2>2. WriteCalls(c) = <<Once(<<LF>>)>>
    BY <1>2 DEF WriteCalls
  <2>3. QED
    BY <2>1, <2>2 DEF Once
<1>3. CASE c.op = "write_line" /\ c.s # <<>>
  <2>1. TextOf(c) = IF EndsLine(c.s) THEN c.s ELSE Append(c.s, LF)
    BY <1>3 DEF TextOf
  <2>2. WriteCalls(c) = <<Repeat(IF EndsLine(c.s) THEN c.s ELSE Append(c.s, LF))>>
    BY <1>3 DEF WriteCalls
  <2>3. QED
    BY <2>1, <2>2 DEF Repeat
<1>4. QED
  BY <1>1, <1>2, <1>3 DEF CallSet

\* It has one part.
LEMMA OneFits ==
    ASSUME NEW t \in Seq(Chars), NEW r \in BOOLEAN, NEW text, NEW from \in Nat, Follows(text, from, t)
    PROVE  /\ <<[s |-> t, repeat |-> r]>> \in Seq(Pieces)
           /\ \E B : Parts(<<[s |-> t, repeat |-> r]>>, text, from, from + Len(t), B)
<1>1. PICK p \in Pieces : p = [s |-> t, repeat |-> r]
  BY DEF Pieces
<1>2. PICK l \in Nat : l = Len(t)
  OBVIOUS
<1>3. PICK B : B = [i \in 1 .. 2 |-> IF i = 1 THEN from ELSE from + l]
  OBVIOUS
<1>4. B \in [1 .. 2 -> Nat] /\ B[1] = from /\ B[2] = from + l
  BY <1>3
<1>5. <<p>> \in Seq(Pieces) /\ Len(<<p>>) = 1 /\ <<p>>[1] = p /\ p.s = t
  BY <1>1
<1>6. Parts(<<p>>, text, from, from + l, B)
  BY <1>2, <1>4, <1>5 DEF Parts
<1>7. QED
  BY <1>1, <1>2, <1>5, <1>6

\* A piece of a text of one character is found everywhere in it.
LEMMA BlockFits ==
    ASSUME NEW s \in Seq(Chars), \A j, k \in DOMAIN s : s[j] = s[k],
           NEW text, NEW from \in Nat, Follows(text, from, s),
           NEW v \in Nat, NEW l \in Nat, v + l <= Len(s)
    PROVE  /\ Once(SubSeq(s, 1, l)) \in Pieces
           /\ Once(SubSeq(s, 1, l)).s = SubSeq(s, 1, l) /\ Len(SubSeq(s, 1, l)) = l
           /\ Follows(text, from + v, SubSeq(s, 1, l))
<1>1. PICK n \in Nat : n = Len(s) /\ DOMAIN s = 1 .. n
  OBVIOUS
<1>2. /\ SubSeq(s, 1, l) \in Seq(Chars) /\ Len(SubSeq(s, 1, l)) = l
      /\ \A i \in 1 .. l : SubSeq(s, 1, l)[i] = s[i]
  BY <1>1
<1>3. PICK t : t = SubSeq(s, 1, l)
  OBVIOUS
<1>4. ASSUME NEW i \in 1 .. l PROVE t[i] = text[(from + v) + i]
  <2>1. PICK j \in Nat : j = v + i
    OBVIOUS
  <2>2. j \in 1 .. n /\ i \in 1 .. n /\ from + j = (from + v) + i
    BY <1>1, <2>1
  <2>3. s[i] = s[j]
    BY <1>1, <2>2
  <2>4. s[j] = text[from + j]
    BY <1>1, <2>2 DEF Follows
  <2>5. QED
    BY <1>2, <1>3, <2>2, <2>3, <2>4
<1>5. Follows(text, from + v, t)
  BY <1>2, <1>3, <1>4 DEF Follows
<1>6. QED
  BY <1>2, <1>3, <1>5 DEF Once, Pieces

\* How many blocks and how much of one there are.
LEMMA Division ==
    ASSUME NEW n \in Nat, NEW b \in Nat, b > 0
    PROVE  \E q, r \in Nat : /\ q = n \div b /\ r = n % b /\ n = q * b + r
                             /\ \A i \in 1 .. q : /\ (i - 1) * b \in Nat /\ i * b \in Nat
                                                  /\ i * b = (i - 1) * b + b /\ i * b <= q * b
<1>1. n \div b \in Nat /\ n % b \in Nat /\ n = b * (n \div b) + (n % b)
  OBVIOUS
<1>2. PICK q, r \in Nat : q = n \div b /\ r = n % b
  BY <1>1
<1>3. n = q * b + r
  BY <1>1, <1>2
<1>4. ASSUME NEW i \in 1 .. q
      PROVE  (i - 1) * b \in Nat /\ i * b \in Nat /\ i * b = (i - 1) * b + b /\ i * b <= q * b
  <2>1. i \in Nat /\ i - 1 \in Nat /\ i <= q
    OBVIOUS
  <2>2. (i - 1) * b \in Nat /\ i * b \in Nat
    BY <2>1
  <2>3. i * b = (i - 1) * b + b
    BY <2>1
  <2>4. i * b <= q * b
    BY <2>1
  <2>5. QED
    BY <2>2, <2>3, <2>4
<1>5. QED
  BY <1>2, <1>3, <1>4

\* The blocks that write_chars() writes are its text.
LEMMA BlocksFit ==
    ASSUME NEW s \in Seq(Chars), \A j, k \in DOMAIN s : s[j] = s[k],
           NEW text, NEW from \in Nat, Follows(text, from, s)
    PROVE  /\ Blocks(s) \in Seq(Pieces)
           /\ \E B : Parts(Blocks(s), text, from, from + Len(s), B)
<1>1. PICK n \in Nat : n = Len(s)
  OBVIOUS
<1>2. PICK b \in Nat : b = block_size /\ b > 0
  BY IoTypes
<1>3. PICK q, r \in Nat : /\ q = n \div b /\ r = n % b /\ n = q * b + r
                          /\ \A i \in 1 .. q : /\ (i - 1) * b \in Nat /\ i * b \in Nat
                                               /\ i * b = (i - 1) * b + b /\ i * b <= q * b
  BY <1>2, Division
<1>4. q * b \in Nat /\ q * b <= n /\ q * b + r <= n
  BY <1>2, <1>3
<1>5. PICK whole : whole = [i \in 1 .. q |-> Once(SubSeq(s, 1, b))]
  OBVIOUS
<1>6. ASSUME NEW i \in 1 .. q
      PROVE  /\ whole[i] \in Pieces /\ Len(whole[i].s) = b
             /\ Follows(text, from + (i - 1) * b, whole[i].s)
  <2>1. PICK v \in Nat : v = (i - 1) * b /\ v + b <= n
    BY <1>3, <1>4
  <2>2. /\ Once(SubSeq(s, 1, b)) \in Pieces /\ Once(SubSeq(s, 1, b)).s = SubSeq(s, 1, b) /\ Len(SubSeq(s, 1, b)) = b
        /\ Follows(text, from + v, SubSeq(s, 1, b))
    BY <1>1, <2>1, BlockFits
  <2>3. whole[i] = Once(SubSeq(s, 1, b))
    BY <1>5
  <2>4. QED
    BY <2>1, <2>2, <2>3
<1>7. whole \in Seq(Pieces) /\ Len(whole) = q
  <2>1. \A i \in 1 .. q : Once(SubSeq(s, 1, b)) \in Pieces
    BY <1>5, <1>6
  <2>2. QED
    BY <1>5, <2>1
<1>8. PICK B : B = [i \in 1 .. q + 1 |-> from + (i - 1) * b]
  OBVIOUS
<1>9. B \in [1 .. q + 1 -> Nat] /\ B[1] = from /\ B[q + 1] = from + q * b
  <2>1. ASSUME NEW i \in 1 .. q + 1 PROVE from + (i - 1) * b \in Nat
    <3>1. i - 1 \in Nat
      OBVIOUS
    <3>2. (i - 1) * b \in Nat
      BY <1>2, <3>1
    <3>3. QED
      BY <3>2
  <2>2. B \in [1 .. q + 1 -> Nat]
    BY <1>8, <2>1
  <2>3. (1 - 1) * b = 0 /\ (q + 1) - 1 = q /\ 1 \in 1 .. q + 1 /\ q + 1 \in 1 .. q + 1
    BY <1>2
  <2>4. B[1] = from + (1 - 1) * b /\ B[q + 1] = from + ((q + 1) - 1) * b
    BY <1>8, <2>3
  <2>5. QED
    BY <2>2, <2>3, <2>4
<1>10. ASSUME NEW i \in 1 .. q
       PROVE  B[i + 1] = B[i] + b /\ B[i + 1] <= from + q * b /\ B[i] = from + (i - 1) * b
  <2>1. i \in 1 .. q + 1 /\ i + 1 \in 1 .. q + 1 /\ (i + 1) - 1 = i
    OBVIOUS
  <2>2. B[i] = from + (i - 1) * b /\ B[i + 1] = from + i * b
    BY <1>8, <2>1
  <2>3. PICK v \in Nat, w \in Nat : v = (i - 1) * b /\ w = i * b /\ w = v + b /\ w <= q * b
    BY <1>3
  <2>4. QED
    BY <1>4, <2>2, <2>3
<1>11. CASE r = 0
  <2>1. Blocks(s) = whole \o <<>>
    BY <1>1, <1>2, <1>3, <1>5, <1>11 DEF Blocks
  <2>2. Blocks(s) = whole
    BY <1>7, <2>1
  <2>3. q * b = n
    BY <1>3, <1>4, <1>11
  <2>4. Parts(whole, text, from, from + n, B)
    BY <1>6, <1>7, <1>9, <1>10, <2>3 DEF Parts
  <2>5. QED
    BY <1>1, <1>7, <2>2, <2>4
<1>12. CASE r # 0
  <2>1. PICK last : last = Once(SubSeq(s, 1, r))
    OBVIOUS
  <2>2. last \in Pieces /\ Len(last.s) = r /\ Follows(text, from + q * b, last.s)
    <3>1. PICK v \in Nat : v = q * b /\ v + r <= n
      BY <1>4
    <3>2. /\ Once(SubSeq(s, 1, r)) \in Pieces /\ Once(SubSeq(s, 1, r)).s = SubSeq(s, 1, r) /\ Len(SubSeq(s, 1, r)) = r
          /\ Follows(text, from + v, SubSeq(s, 1, r))
      BY <1>1, <3>1, BlockFits
    <3>3. QED
      BY <2>1, <3>1, <3>2
  <2>3. PICK all : all = whole \o <<last>>
    OBVIOUS
  <2>4. Blocks(s) = all
    BY <1>1, <1>2, <1>3, <1>5, <1>12, <2>1, <2>3 DEF Blocks
  <2>5. /\ all \in Seq(Pieces) /\ Len(all) = q + 1 /\ all[q + 1] = last
        /\ \A i \in 1 .. q : all[i] = whole[i]
    BY <1>7, <2>2, <2>3
  <2>6. PICK C : C = [i \in 1 .. q + 2 |-> IF i = q + 2 THEN from + n ELSE B[i]]
    OBVIOUS
  <2>7. C \in [1 .. q + 2 -> Nat] /\ C[q + 2] = from + n /\ \A i \in 1 .. q + 1 : C[i] = B[i]
    <3>1. \A i \in 1 .. q + 2 : i # q + 2 => i \in 1 .. q + 1
      OBVIOUS
    <3>2. \A i \in 1 .. q + 2 : (IF i = q + 2 THEN from + n ELSE B[i]) \in Nat
      BY <1>9, <3>1
    <3>3. \A i \in 1 .. q + 1 : i # q + 2 /\ i \in 1 .. q + 2
      OBVIOUS
    <3>4. q + 2 \in 1 .. q + 2
      OBVIOUS
    <3>5. QED
      BY <2>6, <3>2, <3>3, <3>4
  <2>8. C[1] = from
    BY <1>9, <2>7
  <2>9. ASSUME NEW i \in 1 .. q + 1
        PROVE  /\ C[i + 1] = C[i] + Len(all[i].s) /\ C[i + 1] <= from + n
               /\ Follows(text, C[i], all[i].s)
    <3>1. CASE i = q + 1
      <4>1. i + 1 = q + 2
        BY <3>1
      <4>2. C[i + 1] = from + n /\ C[i] = from + q * b /\ all[i] = last
        BY <1>9, <2>5, <2>7, <3>1, <4>1
      <4>3. from + n = (from + q * b) + r
        BY <1>3, <1>4
      <4>4. from + n <= from + n
        OBVIOUS
      <4>5. QED
        BY <2>2, <4>2, <4>3, <4>4, Zenon
    <3>2. CASE i # q + 1
      <4>1. i \in 1 .. q /\ i + 1 \in 1 .. q + 1
        BY <3>2
      <4>2. C[i + 1] = B[i + 1] /\ C[i] = B[i] /\ all[i] = whole[i]
        BY <2>5, <2>7, <4>1
      <4>3. B[i + 1] = B[i] + b /\ B[i + 1] <= from + q * b /\ B[i] = from + (i - 1) * b
        BY <1>10, <4>1
      <4>4. Len(whole[i].s) = b /\ Follows(text, B[i], whole[i].s)
        BY <1>6, <4>1, <4>3
      <4>5. C[i + 1] <= from + n
        <5>1. B[i + 1] \in Nat /\ q * b <= n /\ q * b \in Nat
          BY <1>4, <1>9, <4>1
        <5>2. QED
          BY <4>2, <4>3, <5>1
      <4>6. QED
        BY <4>2, <4>3, <4>4, <4>5, Zenon
    <3>3. QED
      BY <3>1, <3>2
  <2>10. Parts(all, text, from, from + n, C)
    <3>1. Len(all) = q + 1 /\ (q + 1) + 1 = q + 2
      BY <2>5
    <3>2. QED
      BY <2>7, <2>8, <2>9, <3>1 DEF Parts
  <2>11. QED
    BY <1>1, <2>4, <2>5, <2>10
<1>13. QED
  BY <1>11, <1>12

\* What a call writes is its text.
LEMMA CallFits ==
    ASSUME NEW c \in CallSet, NEW text, NEW from \in Nat, Follows(text, from, TextOf(c))
    PROVE  /\ WriteCalls(c) \in Seq(Pieces)
           /\ \E B : Parts(WriteCalls(c), text, from, from + Len(TextOf(c)), B)
<1>1. TextOf(c) \in Seq(Chars) /\ c.s \in Seq(Chars)
  BY TextIs
<1>2. CASE c.op = "write_chars"
  <2>1. TextOf(c) = c.s /\ WriteCalls(c) = Blocks(c.s)
    <3>1. WriteCalls(c) = Blocks(c.s)
      BY <1>2 DEF WriteCalls
    <3>2. TextOf(c) = c.s
      BY <1>2 DEF TextOf
    <3>3. QED
      BY <3>1, <3>2
  <2>2. \A j, k \in DOMAIN c.s : c.s[j] = c.s[k]
    BY <1>2 DEF CallSet
  <2>3. QED
    BY <1>1, <2>1, <2>2, BlocksFit
<1>3. CASE c.op # "write_chars"
  <2>1. PICK r \in BOOLEAN : WriteCalls(c) = <<[s |-> TextOf(c), repeat |-> r]>>
    BY <1>3, OnePart
  <2>2. QED
    BY <1>1, <2>1, OneFits
<1>4. QED
  BY <1>2, <1>3

\* The types of the writer at each step.
LEMMA WriterTypesStep ==
    ASSUME WriterTypes, [IoNext]_ioVars
    PROVE  WriterTypes'
<1>1. CASE UNCHANGED writerVars
  BY <1>1 DEF WriterTypes, writerVars
<1>2. CASE Call
  <2>1. Head(todo) \in CallSet /\ Tail(todo) \in Seq(CallSet)
    BY <1>2 DEF Call, WriterTypes
  <2>2. writing' \in Seq(Pieces)
    <3>1. PICK t \in Seq(Chars) : t = TextOf(Head(todo))
      BY <2>1, TextIs
    <3>2. Follows(t, 0, t)
      BY DEF Follows
    <3>3. WriteCalls(Head(todo)) \in Seq(Pieces)
      BY <2>1, <3>1, <3>2, CallFits
    <3>4. QED
      BY <1>2, <3>3 DEF Call
  <2>3. ofs' = 0 /\ (writing' # <<>> => 0 <= Len(writing'[1].s))
    <3>1. ASSUME writing' # <<>> PROVE 0 <= Len(writing'[1].s)
      <4>1. writing'[1] \in Pieces
        BY <2>2, <3>1
      <4>2. QED
        BY <4>1 DEF Pieces
    <3>2. QED
      BY <1>2, <3>1 DEF Call
  <2>4. todo' = Tail(todo) /\ wopen /\ ~failed
    BY <1>2 DEF Call, WriterTypes
  <2>5. UNCHANGED <<script, wopen, written, cut, failed>>
    BY <1>2 DEF Call
  <2>6. QED
    BY <2>1, <2>2, <2>3, <2>4, <2>5 DEF WriterTypes
<1>3. CASE Write
  <2>1. /\ writing \in Seq(Pieces) /\ writing # <<>> /\ ofs \in Nat /\ ofs <= Len(writing[1].s)
        /\ written \in Seq(Chars) /\ wopen /\ ~failed
    BY <1>3 DEF Write, WriterTypes
  <2>2. PICK s \in Seq(Chars) : s = writing[1].s
    <3>1. writing[1] \in Pieces
      BY <2>1
    <3>2. QED
      BY <3>1 DEF Pieces
  <2>3. UNCHANGED <<script, todo, wopen, cut, failed>>
    BY <1>3 DEF Write
  <2>4. CASE ofs < Len(s) /\ written' = Append(written, s[ofs + 1]) /\ ofs' = ofs + 1 /\ UNCHANGED writing
    <3>1. ofs' \in Nat /\ ofs' <= Len(s) /\ s[ofs + 1] \in Chars
      BY <2>1, <2>2, <2>4
    <3>2. written' \in Seq(Chars)
      BY <2>1, <2>4, <3>1
    <3>3. QED
      BY <2>1, <2>2, <2>3, <2>4, <3>1, <3>2 DEF WriterTypes
  <2>5. CASE ofs = Len(s) /\ writing' = Tail(writing) /\ ofs' = 0 /\ UNCHANGED written
    <3>1. writing' \in Seq(Pieces)
      BY <2>1, <2>5
    <3>2. writing' # <<>> => 0 <= Len(writing'[1].s)
      <4>1. writing' # <<>> => writing'[1] \in Pieces
        BY <3>1
      <4>2. QED
        BY <4>1 DEF Pieces
    <3>3. QED
      BY <2>1, <2>3, <2>5, <3>1, <3>2 DEF WriterTypes
  <2>6. QED
    BY <1>3, <2>2, <2>4, <2>5 DEF Write
<1>4. CASE Interrupted
  <2>1. /\ writing \in Seq(Pieces) /\ writing # <<>> /\ wopen /\ ~failed
    BY <1>4 DEF Interrupted, WriterTypes
  <2>2. UNCHANGED <<script, wopen, written>>
    BY <1>4 DEF Interrupted
  <2>3. CASE UNCHANGED <<todo, writing, ofs, cut, failed>>
    BY <2>2, <2>3 DEF WriterTypes
  <2>4. CASE writing' = Tail(writing) /\ ofs' = 0 /\ cut' = TRUE /\ UNCHANGED <<todo, failed>>
    <3>1. writing' \in Seq(Pieces)
      BY <2>1, <2>4
    <3>2. writing' # <<>> => 0 <= Len(writing'[1].s)
      <4>1. writing' # <<>> => writing'[1] \in Pieces
        BY <3>1
      <4>2. QED
        BY <4>1 DEF Pieces
    <3>3. QED
      BY <2>1, <2>2, <2>4, <3>1, <3>2 DEF WriterTypes
  <2>5. CASE ofs = 0 /\ failed' = TRUE /\ todo' = <<>> /\ writing' = <<>> /\ UNCHANGED <<ofs, cut>>
    BY <2>2, <2>5 DEF WriterTypes
  <2>6. QED
    BY <1>4, <2>3, <2>4, <2>5 DEF Interrupted
<1>5. CASE WriterCloses
  BY <1>5 DEF WriterCloses, WriterTypes
<1>6. QED
  BY <1>1, <1>2, <1>3, <1>4, <1>5
  DEF IoNext, WriterSteps, ReaderSteps, ReadLine, Fgets, CstdioReadLine, IoReadAll, Reads, ioVars, writerVars

\* A step keeps what has arrived the first of what the writer was given.
LEMMA ArrivesStep ==
    ASSUME WriterInv, [IoNext]_ioVars
    PROVE  Arrives'
<1>1. script \in Scripts /\ script \in Seq(CallSet) /\ AllText \in Seq(Chars) /\ CallTexts \in Seq(Seq(Chars))
      /\ Len(CallTexts) = Len(script)
  BY AllTextIs DEF WriterInv, WriterTypes
<1>2. PICK N \in Nat, L \in Nat, W \in Nat : N = Len(script) /\ L = Len(AllText) /\ W = Len(written)
  BY <1>1 DEF WriterInv, WriterTypes
<1>3. CASE UNCHANGED writerVars
  <2>1. UNCHANGED <<script, todo, writing, ofs, written, cut, failed>>
    BY <1>3 DEF writerVars
  <2>2. CallTexts' = CallTexts /\ AllText' = AllText
    BY <2>1 DEF CallTexts, AllText
  <2>3. QED
    BY <2>1, <2>2 DEF WriterInv, Arrives, Made
<1>4. CASE Call
  <2>1. UNCHANGED <<script, written, cut, failed>> /\ ofs' = 0 /\ todo # <<>> /\ writing = <<>>
        /\ writing' = WriteCalls(Head(todo)) /\ todo' = Tail(todo)
    BY <1>4 DEF Call
  <2>2. CallTexts' = CallTexts /\ AllText' = AllText
    BY <2>1 DEF CallTexts, AllText
  <2>3. SUFFICES ASSUME ~cut, ~failed PROVE \E P, k : Made(P, k)'
    BY <2>1, <2>2, <2>3 DEF WriterInv, Arrives
  <2>4. PICK P, k : Made(P, k)
    BY <2>3 DEF WriterInv, Arrives
  <2>5. PICK T \in Nat : T = Len(todo) /\ T > 0 /\ k \in 0 .. N /\ k + T = N
    BY <1>2, <2>1, <2>4 DEF Made, WriterInv, WriterTypes
  <2>6. PICK m \in 1 .. N : m = k + 1 /\ m - 1 = k /\ k \in 0 .. N
    BY <2>5
  <2>7. Head(todo) = script[m] /\ Head(todo) \in CallSet
    <3>1. todo[1] = script[k + 1]
      BY <2>4, <2>5 DEF Made, Follows
    <3>2. QED
      BY <2>1, <2>6, <3>1 DEF WriterInv, WriterTypes
  <2>8. PICK from \in Nat : from = P[k] /\ from + ofs = Len(written)
    <3>1. PICK v \in Nat : v + ofs = Len(written) /\ \E B : Parts(writing, AllText, v, P[k], B)
      BY <2>4 DEF Made
    <3>2. PICK B : Parts(<<>>, AllText, v, P[k], B)
      BY <2>1, <3>1
    <3>3. B[1] = v /\ B[0 + 1] = P[k]
      BY <3>2 DEF Parts
    <3>4. QED
      BY <3>1, <3>3
  <2>9. ofs = 0
    BY <2>1 DEF WriterInv, WriterTypes
  <2>10. PICK t \in Seq(Chars) : t = CallTexts[m] /\ t = TextOf(Head(todo))
    <3>1. DOMAIN script = 1 .. N
      BY <1>1, <1>2
    <3>2. CallTexts[m] = TextOf(script[m])
      BY <2>6, <3>1 DEF CallTexts
    <3>3. QED
      BY <2>7, <3>2, TextIs
  <2>11. PICK to \in Nat : to = P[m] /\ to = from + Len(t) /\ Follows(AllText, from, t)
    <3>1. PlacesIn(CallTexts, P)
      BY <2>4 DEF Made
    <3>2. /\ P \in [0 .. N -> Nat]
          /\ \A j \in 1 .. N : P[j] = P[j - 1] + Len(CallTexts[j]) /\ Follows(Concat(CallTexts), P[j - 1], CallTexts[j])
      BY <1>1, <1>2, <3>1, Zenon DEF PlacesIn
    <3>3. P[m] = P[m - 1] + Len(CallTexts[m]) /\ Follows(Concat(CallTexts), P[m - 1], CallTexts[m])
      BY <3>2
    <3>4. P[m] \in Nat
      BY <3>2
    <3>5. P[m] = from + Len(t) /\ Follows(AllText, from, t)
      BY <2>6, <2>8, <2>10, <3>3, Zenon DEF AllText
    <3>6. QED
      BY <3>4, <3>5
  <2>12. \E B : Parts(writing', AllText, from, to, B)
    <3>1. \E B : Parts(WriteCalls(Head(todo)), AllText, from, from + Len(t), B)
      BY <2>7, <2>10, <2>11, CallFits
    <3>2. QED
      BY <2>1, <2>11, <3>1
  <2>13. Follows(script, m, Tail(todo)) /\ m + Len(Tail(todo)) = N
    <3>1. Len(Tail(todo)) = T - 1 /\ \A i \in 1 .. T - 1 : Tail(todo)[i] = todo[i + 1]
      BY <2>1, <2>5 DEF WriterInv, WriterTypes
    <3>2. ASSUME NEW i \in 1 .. T - 1 PROVE Tail(todo)[i] = script[m + i]
      <4>1. PICK j \in 1 .. T : j = i + 1 /\ k + j = m + i
        BY <2>5, <2>6
      <4>2. todo[j] = script[k + j]
        BY <2>4, <2>5, <4>1 DEF Made, Follows
      <4>3. QED
        BY <3>1, <4>1, <4>2
    <3>3. m + (T - 1) = N
      BY <2>5, <2>6
    <3>4. QED
      BY <3>1, <3>2, <3>3 DEF Follows
  <2>14. Made(P, m)'
    <3>1. PlacesIn(CallTexts, P)
      BY <2>4 DEF Made
    <3>2. \E v \in Nat : v + 0 = Len(written) /\ \E B : Parts(writing', AllText, v, P[m], B)
      BY <2>8, <2>9, <2>11, <2>12
    <3>3. m \in 0 .. N
      BY <2>6
    <3>4. QED
      BY <1>2, <2>1, <2>2, <2>13, <3>1, <3>2, <3>3 DEF Made
  <2>15. QED
    BY <2>14
<1>5. CASE Write
  <2>1. /\ writing \in Seq(Pieces) /\ writing # <<>> /\ ofs \in Nat /\ ofs <= Len(writing[1].s)
        /\ written \in Seq(Chars) /\ wopen /\ ~failed
    BY <1>5 DEF Write, WriterInv, WriterTypes
  <2>2. PICK s \in Seq(Chars), l \in Nat : s = writing[1].s /\ l = Len(s)
    <3>1. writing[1] \in Pieces
      BY <2>1
    <3>2. QED
      BY <3>1 DEF Pieces
  <2>3. UNCHANGED <<script, todo, wopen, cut, failed>>
    BY <1>5 DEF Write
  <2>4. CallTexts' = CallTexts /\ AllText' = AllText
    BY <2>3 DEF CallTexts, AllText
  <2>5. SUFFICES ASSUME ~cut
                 PROVE  Follows(AllText, 0, written') /\ Len(written') <= Len(AllText) /\ \E P, k : Made(P, k)'
    BY <2>3, <2>4, <2>5 DEF Arrives
  <2>6. Follows(AllText, 0, written) /\ W <= L
    BY <1>2, <2>5 DEF WriterInv, Arrives
  <2>7. PICK P, k : Made(P, k)
    BY <2>1, <2>5 DEF WriterInv, Arrives
  <2>8. PICK to \in Nat : to = P[k] /\ to <= L
    <3>1. P \in [0 .. N -> Nat] /\ k \in 0 .. N /\ \A j \in 0 .. N : P[j] <= Len(Concat(CallTexts))
      BY <1>1, <1>2, <2>7 DEF Made, PlacesIn
    <3>2. QED
      BY <1>2, <3>1 DEF AllText
  <2>8a. PICK from \in Nat : from + ofs = W /\ \E B : Parts(writing, AllText, from, to, B)
    BY <1>2, <2>7, <2>8 DEF Made
  <2>9. from + ofs = W /\ \E B : Parts(writing, AllText, from, to, B)
    BY <2>8a
  <2>9a. PICK B : Parts(writing, AllText, from, to, B)
    BY <2>9
  <2>10. PICK n \in Nat : n = Len(writing) /\ n > 0
    BY <2>1
  <2>11. /\ B \in [1 .. n + 1 -> Nat] /\ B[1] = from /\ B[n + 1] = to
         /\ \A i \in 1 .. n : /\ B[i + 1] = B[i] + Len(writing[i].s) /\ B[i + 1] <= to
                              /\ Follows(AllText, B[i], writing[i].s)
    BY <2>9a, <2>10 DEF Parts
  <2>12. PICK next \in Nat : next = B[2] /\ next = from + l /\ next <= to /\ Follows(AllText, from, s)
    <3>1. 1 \in 1 .. n /\ 1 + 1 = 2 /\ 2 \in 1 .. n + 1
      BY <2>10
    <3>2. QED
      BY <2>2, <2>11, <3>1
  <2>13. CASE ofs < l /\ written' = Append(written, s[ofs + 1]) /\ ofs' = ofs + 1 /\ UNCHANGED writing
    <3>1. PICK o \in 1 .. l : o = ofs + 1
      BY <2>1, <2>13
    <3>2. s[o] \in Chars /\ s[o] = AllText[from + o] /\ from + o = W + 1 /\ from + o <= L
      <4>1. s[o] \in Chars
        BY <2>2, <3>1
      <4>2. s[o] = AllText[from + o]
        BY <2>2, <2>12, <3>1 DEF Follows
      <4>3. from + o = W + 1
        BY <2>1, <2>9, <3>1
      <4>4. from + o <= next
        BY <2>12, <3>1
      <4>5. from + o <= L
        BY <2>8, <2>12, <3>1, <4>4
      <4>6. QED
        BY <4>1, <4>2, <4>3, <4>5
    <3>3. 0 + Len(written) + 1 = W + 1
      BY <1>2
    <3>4. Follows(AllText, 0, written')
      BY <2>1, <2>6, <2>13, <3>1, <3>2, <3>3, FollowsMore
    <3>5. Len(written') = W + 1
      BY <1>2, <2>1, <2>13, <3>1, <3>2
    <3>6. \E v \in Nat : v + ofs' = Len(written') /\ \E C : Parts(writing', AllText, v, P[k], C)
      <4>1. from + ofs' = Len(written')
        BY <2>9, <2>13, <3>5, <2>1
      <4>2. Parts(writing', AllText, from, P[k], B)
        BY <2>8, <2>9a, <2>13
      <4>3. QED
        BY <4>1, <4>2
    <3>7. Made(P, k)'
      BY <2>3, <2>4, <2>7, <3>6 DEF Made
    <3>8. QED
      BY <1>2, <3>2, <3>4, <3>5, <3>7
  <2>14. CASE ofs = l /\ writing' = Tail(writing) /\ ofs' = 0 /\ UNCHANGED written
    <3>1. next + ofs' = Len(written')
      BY <1>2, <2>9, <2>12, <2>14
    <3>1a. Tail(writing) \in Seq(Pieces) /\ Len(Tail(writing)) = Len(writing) - 1
           /\ \A i \in 1 .. Len(writing) - 1 : Tail(writing)[i] = writing[i + 1]
      BY <2>1
    <3>2. PICK rest \in Seq(Pieces) : rest = Tail(writing) /\ Len(rest) = n - 1 /\ \A i \in 1 .. n - 1 : rest[i] = writing[i + 1]
      BY <2>10, <3>1a
    <3>3. PICK C : C = [i \in 1 .. n |-> B[i + 1]]
      OBVIOUS
    <3>4. C \in [1 .. n -> Nat] /\ C[1] = next /\ C[n] = to
      <4>1. \A i \in 1 .. n : i + 1 \in 1 .. n + 1
        BY <2>10
      <4>2. 1 \in 1 .. n /\ n \in 1 .. n /\ 1 + 1 = 2
        BY <2>10
      <4>3. QED
        BY <2>11, <2>12, <3>3, <4>1, <4>2
    <3>5. ASSUME NEW i \in 1 .. n - 1
          PROVE  /\ C[i + 1] = C[i] + Len(rest[i].s) /\ C[i + 1] <= to
                 /\ Follows(AllText, C[i], rest[i].s)
      <4>1. PICK j \in 1 .. n : j = i + 1 /\ i \in 1 .. n
        BY <2>10
      <4>2. C[i] = B[j] /\ C[j] = B[j + 1] /\ rest[i] = writing[j]
        BY <3>2, <3>3, <4>1
      <4>3. /\ B[j + 1] = B[j] + Len(writing[j].s) /\ B[j + 1] <= to
            /\ Follows(AllText, B[j], writing[j].s)
        BY <2>11
      <4>4. QED
        BY <4>1, <4>2, <4>3, Zenon
    <3>6. Parts(rest, AllText, next, to, C)
      <4>1. Len(rest) + 1 = n
        BY <2>10, <3>2
      <4>2. QED
        BY <3>2, <3>4, <3>5, <4>1 DEF Parts
    <3>7. \E v \in Nat : v + ofs' = Len(written') /\ \E D : Parts(writing', AllText, v, P[k], D)
      BY <2>8, <2>14, <3>1, <3>2, <3>6
    <3>8. Made(P, k)'
      BY <2>3, <2>4, <2>7, <3>7 DEF Made
    <3>9. QED
      BY <1>2, <2>6, <2>14, <3>8
  <2>15. QED
    BY <1>5, <2>2, <2>13, <2>14 DEF Write
<1>6. CASE Interrupted
  <2>1. UNCHANGED <<script, wopen, written>>
    BY <1>6 DEF Interrupted
  <2>2. CallTexts' = CallTexts /\ AllText' = AllText
    BY <2>1 DEF CallTexts, AllText
  <2>3. CASE UNCHANGED <<todo, writing, ofs, cut, failed>>
    BY <2>1, <2>2, <2>3 DEF WriterInv, Arrives, Made
  <2>4. CASE cut' = TRUE
    BY <2>4 DEF Arrives
  <2>5. CASE failed' = TRUE /\ UNCHANGED cut
    BY <2>1, <2>2, <2>5 DEF WriterInv, Arrives
  <2>6. QED
    BY <1>6, <2>3, <2>4, <2>5 DEF Interrupted
<1>7. CASE WriterCloses
  <2>1. UNCHANGED <<script, todo, writing, ofs, written, cut, failed>>
    BY <1>7 DEF WriterCloses
  <2>2. CallTexts' = CallTexts /\ AllText' = AllText
    BY <2>1 DEF CallTexts, AllText
  <2>3. QED
    BY <2>1, <2>2 DEF WriterInv, Arrives, Made
<1>8. QED
  BY <1>3, <1>4, <1>5, <1>6, <1>7
  DEF IoNext, WriterSteps, ReaderSteps, ReadLine, Fgets, CstdioReadLine, IoReadAll, Reads, ioVars, writerVars

\* At the beginning nothing has arrived.
LEMMA WriterStarts ==
    ASSUME IoInit(Scripts, Readers)
    PROVE  WriterInv
<1>1. script \in Scripts /\ todo = script /\ writing = <<>> /\ ofs = 0 /\ wopen = TRUE /\ written = <<>>
      /\ cut = FALSE /\ failed = FALSE
  BY DEF IoInit
<1>2. script \in Seq(CallSet) /\ CallTexts \in Seq(Seq(Chars)) /\ Len(CallTexts) = Len(script)
      /\ AllText \in Seq(Chars)
  BY <1>1, AllTextIs
<1>3. WriterTypes
  <2>1. <<>> \in Seq(Pieces) /\ <<>> \in Seq(Chars) /\ 0 \in Nat
    OBVIOUS
  <2>2. QED
    BY <1>1, <1>2, <2>1, Zenon DEF WriterTypes
<1>4. PICK P : PlacesIn(CallTexts, P)
  BY <1>2, Places
<1>5. PICK N \in Nat : N = Len(script) /\ 0 \in 0 .. N
  BY <1>2
<1>6. Follows(script, 0, todo) /\ 0 + Len(todo) = N
  BY <1>1, <1>5 DEF Follows
<1>7. \E from \in Nat : from + ofs = Len(written) /\ \E B : Parts(writing, AllText, from, P[0], B)
  <2>1. P[0] = 0
    BY <1>4 DEF PlacesIn
  <2>2. PICK B : B = [i \in 1 .. 1 |-> 0]
    OBVIOUS
  <2>3. B \in [1 .. 0 + 1 -> Nat] /\ B[1] = 0 /\ B[0 + 1] = 0
    BY <2>2
  <2>4. Len(<<>>) = 0 /\ \A i \in 1 .. 0 : FALSE
    OBVIOUS
  <2>5. Parts(<<>>, AllText, 0, 0, B)
    BY <2>3, <2>4 DEF Parts
  <2>6. 0 + ofs = Len(written)
    BY <1>1
  <2>7. QED
    BY <1>1, <2>1, <2>5, <2>6
<1>8. Made(P, 0)
  BY <1>4, <1>5, <1>6, <1>7 DEF Made
<1>9. Follows(AllText, 0, written) /\ Len(written) <= Len(AllText)
  <2>1. Len(AllText) \in Nat /\ Len(written) = 0
    BY <1>1, <1>2
  <2>2. QED
    BY <2>1 DEF Follows
<1>10. QED
  BY <1>3, <1>8, <1>9 DEF WriterInv, Arrives

\* What has arrived is what the writer was given, once and in order.
LEMMA ArrivesWhole ==
    ASSUME WriterInv
    PROVE  WritesWhole
<1>1. script \in Seq(CallSet) /\ CallTexts \in Seq(Seq(Chars)) /\ Len(CallTexts) = Len(script)
      /\ AllText \in Seq(Chars) /\ written \in Seq(Chars)
  BY AllTextIs DEF WriterInv, WriterTypes
<1>2. PICK N \in Nat, L \in Nat, W \in Nat : N = Len(script) /\ L = Len(AllText) /\ W = Len(written)
  BY <1>1
<1>3. ASSUME ~cut PROVE IsPrefix(written, AllText)
  <2>1. Follows(AllText, 0, written) /\ W <= L
    BY <1>2, <1>3 DEF WriterInv, Arrives
  <2>2. W \in 0 .. Len(written) /\ 0 + W <= Len(AllText) /\ 0 + 1 = 1 /\ 0 + W = W
    BY <1>2, <2>1
  <2>3. SubSeq(written, 1, W) = SubSeq(AllText, 0 + 1, 0 + W)
    BY <1>1, <2>1, <2>2, FollowsAll
  <2>4. SubSeq(written, 1, W) = SubSeq(AllText, 1, W)
    BY <2>2, <2>3
  <2>5. SubSeq(written, 1, W) = written
    BY <1>1, <1>2, SubSeqFull
  <2>6. QED
    BY <1>2, <2>1, <2>4, <2>5 DEF IsPrefix
<1>4. ASSUME ~cut, ~wopen, ~failed PROVE written = AllText
  <2>1. todo = <<>> /\ writing = <<>> /\ ofs = 0
    BY <1>4 DEF WriterInv, WriterTypes
  <2>2. PICK P, k : Made(P, k)
    BY <1>4 DEF WriterInv, Arrives
  <2>3. k = N
    <3>1. k \in 0 .. N /\ k + Len(<<>>) = N
      BY <1>2, <2>1, <2>2 DEF Made
    <3>2. QED
      BY <3>1
  <2>4. P[k] = L
    <3>1. P[N] = Len(Concat(CallTexts))
      BY <1>1, <1>2, <2>2, Zenon DEF Made, PlacesIn
    <3>2. QED
      BY <1>2, <2>3, <3>1 DEF AllText
  <2>5. PICK from \in Nat : from + ofs = Len(written) /\ \E B : Parts(writing, AllText, from, P[k], B)
    BY <2>2 DEF Made
  <2>6. from = P[k]
    <3>1. PICK B : Parts(<<>>, AllText, from, P[k], B)
      BY <2>1, <2>5
    <3>2. B[1] = from /\ B[0 + 1] = P[k]
      BY <3>1 DEF Parts
    <3>3. QED
      BY <3>2
  <2>7. W = L
    BY <1>2, <2>1, <2>4, <2>5, <2>6
  <2>8. IsPrefix(written, AllText)
    BY <1>3, <1>4
  <2>9. SubSeq(written, 1, W) = SubSeq(AllText, 1, W)
    BY <1>2, <2>8 DEF IsPrefix
  <2>10. SubSeq(written, 1, W) = written /\ SubSeq(AllText, 1, W) = AllText
    BY <1>1, <1>2, <2>7, SubSeqFull
  <2>11. QED
    BY <2>9, <2>10
<1>5. AllText = Concat([i \in DOMAIN script |-> TextOf(script[i])])
  BY DEF AllText, CallTexts
<1>6. QED
  BY <1>3, <1>4, <1>5 DEF WritesWhole

\* The next element goes from the front of one sequence behind another.
LEMMA NextGoes ==
    ASSUME NEW S, NEW h \in Seq(S), NEW p \in Seq(S), p # <<>>
    PROVE  /\ Head(p) \in S /\ Tail(p) \in Seq(S)
           /\ h \o p = Append(h, Head(p)) \o Tail(p)
<1>1. PICK l \in Nat : l = Len(p) /\ 1 \in 1 .. l /\ l \in 1 .. l
  <2>1. Len(p) \in Nat \ {0}
    BY EmptySeq
  <2>2. QED
    BY <2>1
<1>2. SubSeq(p, 1, l) = <<p[1]>> \o SubSeq(p, 1 + 1, l)
  BY <1>1, SubSeqRecursiveFirst
<1>3. SubSeq(p, 1, l) = p /\ SubSeq(p, 1 + 1, l) = Tail(p)
  <2>1. Tail(p) = SubSeq(p, 2, l)
    BY <1>1, TailIsSubSeq
  <2>2. SubSeq(p, 1, l) = p
    BY <1>1, SubSeqFull
  <2>3. QED
    BY <2>1, <2>2
<1>4. Head(p) = p[1] /\ Head(p) \in S /\ Tail(p) \in Seq(S)
  BY HeadTailProperties
<1>5. p = <<Head(p)>> \o Tail(p)
  BY <1>2, <1>3, <1>4
<1>6. <<Head(p)>> \in Seq(S)
  BY <1>4
<1>7. h \o (<<Head(p)>> \o Tail(p)) = (h \o <<Head(p)>>) \o Tail(p)
  BY <1>4, <1>6, ConcatAssociative
<1>8. h \o <<Head(p)>> = Append(h, Head(p))
  BY <1>4
<1>9. QED
  BY <1>4, <1>5, <1>7, <1>8

\* What comes behind the second of two sequences comes behind both.
LEMMA BehindBoth ==
    ASSUME NEW h \in Seq(Chars), NEW p \in Seq(Chars), NEW x \in Chars
    PROVE  /\ Append(p, x) \in Seq(Chars) /\ Append(p, x) # <<>>
           /\ Append(h \o p, x) = h \o Append(p, x)
<1>1. <<x>> \in Seq(Chars)
  OBVIOUS
<1>2. (h \o p) \o <<x>> = h \o (p \o <<x>>)
  BY <1>1, ConcatAssociative
<1>3. h \o p \in Seq(Chars)
  BY ConcatProperties
<1>4. p \o <<x>> = Append(p, x)
  OBVIOUS
<1>5. (h \o p) \o <<x>> = Append(h \o p, x)
  BY <1>3
<1>6. Append(p, x) \in Seq(Chars) /\ Append(p, x) # <<>>
  BY AppendProperties
<1>7. QED
  BY <1>2, <1>4, <1>5, <1>6

\* What is appended comes last.
LEMMA LastOne ==
    ASSUME NEW S, NEW g \in Seq(S), NEW x \in S
    PROVE  Append(g, x) \in Seq(S) /\ Append(g, x) # <<>> /\ Append(g, x)[Len(Append(g, x))] = x
<1>1. PICK n \in Nat : n = Len(g)
  OBVIOUS
<1>2. Append(g, x) \in Seq(S) /\ Len(Append(g, x)) = n + 1 /\ Append(g, x)[n + 1] = x
  BY <1>1, AppendProperties
<1>3. QED
  BY <1>2

\* Three of them are put together in either order.
LEMMA Regroup ==
    ASSUME NEW s \in Seq(Chars), NEW t \in Seq(Chars), NEW u \in Seq(Chars)
    PROVE  (s \o t) \o u = s \o (t \o u)
  BY ConcatAssociative

\* What is read moves from what is not read behind what is.
LEMMA SomeGo ==
    ASSUME NEW S, NEW h \in Seq(S), NEW p \in Seq(S), NEW k \in 0 .. Len(p)
    PROVE  /\ SubSeq(p, 1, k) \in Seq(S) /\ SubSeq(p, k + 1, Len(p)) \in Seq(S)
           /\ h \o p = (h \o SubSeq(p, 1, k)) \o SubSeq(p, k + 1, Len(p))
<1>1. PICK l \in Nat : l = Len(p)
  OBVIOUS
<1>2. 1 \in 1 .. Len(p) + 1 /\ k \in 1 - 1 .. Len(p) /\ Len(p) \in k .. Len(p)
  BY <1>1
<1>3. SubSeq(p, 1, k) \o SubSeq(p, k + 1, Len(p)) = SubSeq(p, 1, Len(p))
  BY <1>2, ConcatAdjacentSubSeq
<1>4. SubSeq(p, 1, Len(p)) = p
  BY SubSeqFull
<1>5. SubSeq(p, 1, k) \in Seq(S)
  BY <1>1
<1>6. SubSeq(p, k + 1, Len(p)) \in Seq(S)
  <2>1. \A i \in (k + 1) .. l : p[i] \in S
    BY <1>1
  <2>2. k + 1 \in Int /\ l \in Int
    BY <1>1
  <2>3. QED
    BY <1>1, <2>1, <2>2, SubSeqProperties
<1>7. (h \o SubSeq(p, 1, k)) \o SubSeq(p, k + 1, Len(p)) = h \o (SubSeq(p, 1, k) \o SubSeq(p, k + 1, Len(p)))
  <2>1. PICK u \in Seq(S), v \in Seq(S) : u = SubSeq(p, 1, k) /\ v = SubSeq(p, k + 1, Len(p))
    BY <1>5, <1>6
  <2>2. (h \o u) \o v = h \o (u \o v)
    BY ConcatAssociative
  <2>3. QED
    BY <2>1, <2>2
<1>8. QED
  BY <1>3, <1>4, <1>5, <1>6, <1>7

-----------------------------------------------------------------------------
(* Reading: what the calls have returned, what the present one has read and*)
(* what is in the pipe are all that was written.                           *)

NoFeed(s, n) == \A j \in 1 .. n : s[j] # LF

\* The reader that gets whole lines: Cstdio's does if it can tell the text
\* from what it has put behind it, and the last line is ended or short.
LineReader == reader = "read_line" \/ (reader = "fgets" /\ Nul \notin Chars /\ (wopen \/ ShortTail))

\* It has got the lines of a text; the present line begins behind it.
Held(a) ==
    /\ given = Cut(a) /\ Numbered(a)
    /\ written = ((a \o str) \o chunk) \o pipe
    /\ AtStart(a) \/ (AtEnd /\ str = <<>> /\ chunk = <<>>)

LinesHeld ==
    /\ str \in Seq(Chars) /\ chunk \in Seq(Chars) /\ given \in Seq(Seq(Chars))
    /\ NoFeed(str, Len(str)) /\ NoFeed(chunk, Len(chunk) - 1)
    /\ Len(chunk) <= small_block - 1
    /\ reader = "read_line" => chunk = <<>>
    /\ reader = "fgets" => str = <<>> \/ small_block - 1 <= Len(str)
    /\ wopen => \A i \in 1 .. Len(given) : EndsLine(given[i])
    /\ rpc = "end" => AtEnd /\ str = <<>> /\ chunk = <<>>
    /\ \E a \in Seq(Chars) : Held(a)

\* The readers that get all of it.
AllHeld ==
    /\ str \in Seq(Chars) /\ given \in Seq(Seq(Chars))
    /\ reader = "reads" => str = <<>>
    /\ rpc = "end" => AtEnd /\ str = <<>>
    /\ written = (Concat(given) \o str) \o pipe

ReaderInv ==
    /\ pipe \in Seq(Chars)
    /\ LineReader => LinesHeld
    /\ reader \in {"read_all", "reads"} => AllHeld

TextInv == WriterInv /\ ReaderInv

\* At the beginning nothing has been read.
LEMMA ReaderStarts ==
    ASSUME IoInit(Scripts, Readers)
    PROVE  ReaderInv
<1>1. pipe = <<>> /\ wopen = TRUE /\ written = <<>> /\ rpc = "read" /\ str = <<>> /\ chunk = <<>> /\ given = <<>>
  BY DEF IoInit
<1>2. <<>> \in Seq(Chars) /\ <<>> \in Seq(Seq(Chars)) /\ Len(<<>>) = 0 /\ <<>> \o <<>> = <<>>
  OBVIOUS
<1>3. Held(<<>>)
  BY <1>1, <1>2, CutNone DEF Held
<1>4. NoFeed(<<>>, 0) /\ NoFeed(<<>>, 0 - 1) /\ 0 <= small_block - 1 /\ \A i \in 1 .. 0 : FALSE
  BY IoTypes DEF NoFeed
<1>5. LinesHeld
  BY <1>1, <1>2, <1>3, <1>4, Zenon DEF LinesHeld
<1>6. AllHeld
  BY <1>1, <1>2, ConcatNone, Zenon DEF AllHeld
<1>7. QED
  BY <1>1, <1>2, <1>5, <1>6, Zenon DEF ReaderInv

\* The writer's steps leave the reader what it has read, and may put one more
\* character into the pipe.
LEMMA WriterKeepsReader ==
    ASSUME WriterTypes, ReaderInv, wopen, UNCHANGED readerVars, wopen' => wopen,
           \/ UNCHANGED <<pipe, written>>
           \/ \E x \in Chars : pipe' = Append(pipe, x) /\ written' = Append(written, x) /\ wopen'
    PROVE  ReaderInv'
<1>1. reader' = reader /\ rpc' = rpc /\ str' = str /\ chunk' = chunk /\ given' = given
  BY DEF readerVars
<1>2. pipe \in Seq(Chars) /\ written \in Seq(Chars)
  BY DEF ReaderInv, WriterTypes
<1>3. pipe' \in Seq(Chars)
  BY <1>2
<1>4. ASSUME NEW h \in Seq(Chars), written = h \o pipe PROVE written' = h \o pipe'
  <2>1. CASE UNCHANGED <<pipe, written>>
    BY <1>4, <2>1
  <2>2. ASSUME NEW x \in Chars, pipe' = Append(pipe, x), written' = Append(written, x) PROVE written' = h \o pipe'
    <3>1. PICK p \in Seq(Chars) : p = pipe
      BY <1>2
    <3>2. Append(h \o p, x) = h \o Append(p, x)
      BY BehindBoth
    <3>3. QED
      BY <1>4, <2>2, <3>1, <3>2
  <2>3. QED
    BY <2>1, <2>2
<1>5. ~AtEnd
  BY DEF AtEnd
<1>6. ASSUME LineReader' PROVE LinesHeld'
  <2>1. LineReader
    BY <1>1, <1>6 DEF LineReader
  <2>2. LinesHeld
    BY <2>1 DEF ReaderInv
  <2>3. PICK a \in Seq(Chars) : Held(a)
    BY <2>2 DEF LinesHeld
  <2>4. (a \o str) \o chunk \in Seq(Chars)
    BY <2>2, ConcatProperties DEF LinesHeld
  <2>5. written' = ((a \o str) \o chunk) \o pipe'
    BY <1>4, <2>3, <2>4 DEF Held
  <2>6. Held(a)'
    BY <1>1, <1>5, <2>3, <2>5 DEF Held
  <2>7. rpc # "end"
    BY <1>5, <2>2 DEF LinesHeld
  <2>8. QED
    BY <1>1, <2>2, <2>6, <2>7, Zenon DEF LinesHeld
<1>7. ASSUME reader' \in {"read_all", "reads"} PROVE AllHeld'
  <2>1. AllHeld
    BY <1>1, <1>7 DEF ReaderInv
  <2>2. Concat(given) \o str \in Seq(Chars)
    BY <2>1, Places, ConcatProperties DEF AllHeld
  <2>3. written' = (Concat(given) \o str) \o pipe'
    BY <1>4, <2>1, <2>2 DEF AllHeld
  <2>4. rpc # "end"
    BY <1>5, <2>1 DEF AllHeld
  <2>5. QED
    BY <1>1, <2>1, <2>3, <2>4, Zenon DEF AllHeld
<1>8. QED
  BY <1>3, <1>6, <1>7, Zenon DEF ReaderInv

\* A call returns a line.
LEMMA LineGiven ==
    ASSUME LinesHeld, NEW a \in Seq(Chars), Held(a), AtStart(a),
           NEW x \in Seq(Chars), x # <<>>, NoFeed(x, Len(x) - 1), x[Len(x)] = LF \/ AtEnd',
           pipe' \in Seq(Chars), written = (a \o x) \o pipe', given' = Append(given, x), str' = <<>>, chunk' = <<>>,
           rpc # "end", UNCHANGED <<written, wopen, reader, rpc>>
    PROVE  LinesHeld'
<1>1. PICK b \in Seq(Chars) : b = a \o x
  BY ConcatProperties
<1>2. Numbered(b) /\ Cut(b) = Append(Cut(a), x)
  BY <1>1, CutMore DEF Held, NoFeed
<1>3. given' = Cut(b)
  BY <1>2 DEF Held
<1>4. written' = ((b \o str') \o chunk') \o pipe'
  <2>1. (b \o <<>>) \o <<>> = b
    BY <1>1, ConcatEmptySeq
  <2>2. QED
    BY <1>1, <2>1
<1>5. PICK l \in Nat : l = Len(x) /\ l # 0
  BY EmptySeq
<1>6. AtStart(b) \/ AtEnd'
  <2>1. ASSUME x[l] = LF PROVE b[Len(b)] = LF
    <3>1. PICK m \in Nat : m = Len(a)
      OBVIOUS
    <3>2. /\ Len(b) = m + l
          /\ \A i \in 1 .. m + l : b[i] = IF i <= m THEN a[i] ELSE x[i - m]
      BY <1>1, <1>5, <3>1, ConcatProperties
    <3>3. m + l \in 1 .. m + l /\ ~(m + l <= m) /\ (m + l) - m = l
      BY <1>5
    <3>4. b[m + l] = x[l]
      BY <3>2, <3>3
    <3>5. QED
      BY <2>1, <3>2, <3>4
  <2>2. QED
    BY <1>5, <2>1 DEF AtStart
<1>7. Held(b)'
  BY <1>2, <1>3, <1>4, <1>6 DEF Held
<1>8. given \in Seq(Seq(Chars)) /\ (wopen => \A i \in 1 .. Len(given) : EndsLine(given[i]))
  BY DEF LinesHeld
<1>9. given' \in Seq(Seq(Chars))
  BY <1>8
<1>10. wopen' => \A i \in 1 .. Len(given') : EndsLine(given'[i])
  <2> SUFFICES ASSUME wopen', NEW i \in 1 .. Len(given') PROVE EndsLine(given'[i])
    OBVIOUS
  <2>1. ~AtEnd'
    BY DEF AtEnd
  <2>2. EndsLine(x)
    BY <2>1 DEF EndsLine
  <2>3. PICK n \in Nat : n = Len(given)
    BY <1>8
  <2>4. Len(given') = n + 1 /\ given'[n + 1] = x /\ \A j \in 1 .. n : given'[j] = given[j]
    BY <1>8, <2>3, AppendProperties
  <2>5. CASE i = n + 1
    BY <2>2, <2>4, <2>5
  <2>6. CASE i # n + 1
    <3>1. i \in 1 .. n
      BY <2>4, <2>6
    <3>2. QED
      BY <1>8, <2>3, <2>4, <3>1
  <2>7. QED
    BY <2>5, <2>6
<1>11. <<>> \in Seq(Chars) /\ NoFeed(<<>>, Len(<<>>)) /\ NoFeed(<<>>, Len(<<>>) - 1) /\ Len(<<>>) <= small_block - 1
  BY IoTypes DEF NoFeed
<1>12. QED
  BY <1>1, <1>7, <1>9, <1>10, <1>11, Zenon DEF LinesHeld

\* A call finds the end.
LEMMA LinesOver ==
    ASSUME LinesHeld, AtEnd, str = <<>>, chunk = <<>>, rpc' = "end", UNCHANGED <<pipe, written, wopen, reader, given, str, chunk>>
    PROVE  LinesHeld'
<1>1. AtEnd'
  BY DEF AtEnd
<1>2. \A a : Held(a) => Held(a)'
  BY DEF Held, AtEnd
<1>3. QED
  BY <1>1, <1>2, Zenon DEF LinesHeld

\* IoBase::read_line() gets whole lines.
LEMMA ReadLineStep ==
    ASSUME WriterTypes, ReaderInv, ReadLine
    PROVE  LinesHeld'
<1>1. /\ reader = "read_line" /\ rpc = "read"
      /\ UNCHANGED <<written, wopen, reader>> /\ pipe \in Seq(Chars)
  BY DEF ReadLine, ReaderInv, writerVars
<1>2. LinesHeld
  BY <1>1 DEF ReaderInv, LineReader
<1>3. PICK a \in Seq(Chars) : Held(a)
  BY <1>2 DEF LinesHeld
<1>4. /\ str \in Seq(Chars) /\ NoFeed(str, Len(str)) /\ chunk = <<>> /\ rpc # "end"
  BY <1>1, <1>2 DEF LinesHeld
<1>5. PICK t \in Seq(Chars), p \in Seq(Chars), n \in Nat : t = str /\ p = pipe /\ n = Len(t)
  BY <1>1, <1>4
<1>6. written = (a \o t) \o p
  <2>1. PICK b \in Seq(Chars) : b = a \o t
    BY ConcatProperties
  <2>2. b \o <<>> = b
    BY ConcatEmptySeq
  <2>3. QED
    BY <1>3, <1>4, <1>5, <2>1, <2>2 DEF Held
<1>7. CASE AtEnd /\ Returns(str) /\ UNCHANGED pipe
  <2>1. CASE t = <<>>
    <3>1. rpc' = "end" /\ given' = given /\ str' = <<>> /\ chunk' = <<>>
      BY <1>5, <1>7, <2>1 DEF Returns
    <3>2. QED
      BY <1>1, <1>2, <1>4, <1>5, <1>7, <2>1, <3>1, LinesOver
  <2>2. CASE t # <<>>
    <3>1. given' = Append(given, t) /\ str' = <<>> /\ chunk' = <<>> /\ rpc' = rpc
      BY <1>5, <1>7, <2>2 DEF Returns
    <3>2. AtStart(a)
      BY <1>3, <1>5, <2>2 DEF Held
    <3>3. AtEnd' /\ pipe' = p
      BY <1>1, <1>5, <1>7 DEF AtEnd
    <3>4. NoFeed(t, Len(t) - 1)
      BY <1>4, <1>5 DEF NoFeed
    <3>5. QED
      BY <1>1, <1>2, <1>3, <1>4, <1>6, <2>2, <3>1, <3>2, <3>3, <3>4, LineGiven
  <2>3. QED
    BY <2>1, <2>2
<1>8. CASE pipe # <<>> /\ pipe' = Tail(pipe)
           /\ IF Head(pipe) = LF THEN Returns(Append(str, LF))
              ELSE str' = Append(str, Head(pipe)) /\ UNCHANGED <<rpc, chunk, given>>
  <2>1. AtStart(a)
    BY <1>3, <1>8 DEF Held, AtEnd
  <2>2. PICK c \in Chars, u \in Seq(Chars), h \in Seq(Chars) : c = Head(p) /\ u = Tail(p) /\ h = a \o t /\ written = Append(h, c) \o u
    <3>1. PICK h \in Seq(Chars) : h = a \o t
      BY ConcatProperties
    <3>2. Head(p) \in Chars /\ Tail(p) \in Seq(Chars) /\ h \o p = Append(h, Head(p)) \o Tail(p)
      BY <1>5, <1>8, NextGoes
    <3>3. QED
      BY <1>6, <3>1, <3>2
  <2>3. PICK x \in Seq(Chars) : x = Append(t, c) /\ x # <<>> /\ written = (a \o x) \o u
    <3>1. Append(t, c) \in Seq(Chars) /\ Append(t, c) # <<>> /\ Append(a \o t, c) = a \o Append(t, c)
      BY BehindBoth
    <3>2. QED
      BY <2>2, <3>1
  <2>4. Len(x) = n + 1 /\ x[n + 1] = c /\ \A j \in 1 .. n : x[j] = t[j]
    BY <1>5, <2>3, AppendProperties
  <2>5. NoFeed(x, n)
    BY <1>4, <1>5, <2>4 DEF NoFeed
  <2>6. CASE c = LF
    <3>1. Returns(x)
      BY <1>5, <1>8, <2>2, <2>3, <2>6
    <3>2. given' = Append(given, x) /\ str' = <<>> /\ chunk' = <<>> /\ rpc' = rpc
      BY <2>3, <3>1 DEF Returns
    <3>3. NoFeed(x, Len(x) - 1) /\ x[Len(x)] = LF
      <4>1. (n + 1) - 1 = n
        OBVIOUS
      <4>2. QED
        BY <2>4, <2>5, <2>6, <4>1
    <3>4. pipe' = u
      BY <1>5, <1>8, <2>2
    <3>5. QED
      BY <1>1, <1>2, <1>3, <1>4, <2>1, <2>3, <3>2, <3>3, <3>4, LineGiven
  <2>7. CASE c # LF
    <3>1. str' = x /\ chunk' = <<>> /\ rpc' = rpc /\ given' = given /\ pipe' = u
      BY <1>4, <1>5, <1>8, <2>2, <2>3, <2>7
    <3>2. NoFeed(x, Len(x))
      <4>1. ASSUME NEW j \in 1 .. n + 1 PROVE x[j] # LF
        <5>1. CASE j = n + 1
          BY <2>4, <2>7, <5>1
        <5>2. CASE j # n + 1
          BY <2>5, <5>2 DEF NoFeed
        <5>3. QED
          BY <5>1, <5>2
      <4>2. QED
        BY <2>4, <4>1 DEF NoFeed
    <3>3. written' = ((a \o str') \o chunk') \o pipe'
      <4>1. PICK b \in Seq(Chars) : b = a \o x
        BY ConcatProperties
      <4>2. b \o <<>> = b
        BY ConcatEmptySeq
      <4>3. QED
        BY <1>1, <2>3, <3>1, <4>1, <4>2
    <3>4. Held(a)'
      BY <1>3, <2>1, <3>1, <3>3 DEF Held
    <3>5. reader' = "read_line" /\ rpc' # "end" /\ wopen' = wopen
      BY <1>1, <3>1
    <3>6. QED
      BY <1>2, <1>4, <3>1, <3>2, <3>4, <3>5, Zenon DEF LinesHeld
  <2>8. QED
    BY <2>6, <2>7
<1>9. QED
  BY <1>7, <1>8 DEF ReadLine

\* fgets() goes on with its chunk.
LEMMA FgetsStep ==
    ASSUME WriterTypes, ReaderInv, Fgets, LineReader
    PROVE  LinesHeld'
<1>1. /\ reader = "fgets" /\ rpc = "read" /\ ~FgetsDone /\ pipe # <<>>
      /\ UNCHANGED <<written, wopen, reader, rpc, str, given>> /\ pipe \in Seq(Chars)
      /\ chunk' = Append(chunk, Head(pipe)) /\ pipe' = Tail(pipe)
  BY DEF Fgets, ReaderInv, writerVars
<1>2. LinesHeld
  BY DEF ReaderInv
<1>3. PICK a \in Seq(Chars) : Held(a)
  BY <1>2 DEF LinesHeld
<1>4. str \in Seq(Chars) /\ chunk \in Seq(Chars) /\ NoFeed(chunk, Len(chunk) - 1) /\ Len(chunk) <= small_block - 1
  BY <1>2 DEF LinesHeld
<1>5. PICK t \in Seq(Chars), p \in Seq(Chars), n \in Nat : t = chunk /\ p = pipe /\ n = Len(t) /\ p # <<>>
  BY <1>1, <1>4
<1>6. PICK h \in Seq(Chars) : h = a \o str
  BY <1>4, ConcatProperties
<1>7. PICK c \in Chars, u \in Seq(Chars) : c = Head(p) /\ u = Tail(p) /\ written = Append(h \o t, c) \o u
  <2>1. PICK b \in Seq(Chars) : b = h \o t
    BY ConcatProperties
  <2>2. Head(p) \in Chars /\ Tail(p) \in Seq(Chars) /\ b \o p = Append(b, Head(p)) \o Tail(p)
    BY <1>5, NextGoes
  <2>3. QED
    BY <1>3, <1>5, <1>6, <2>1, <2>2 DEF Held
<1>8. PICK x \in Seq(Chars) : x = Append(t, c) /\ written = (h \o x) \o u
  <2>1. Append(t, c) \in Seq(Chars) /\ Append(h \o t, c) = h \o Append(t, c)
    BY BehindBoth
  <2>2. QED
    BY <1>7, <2>1
<1>9. Len(x) = n + 1 /\ \A j \in 1 .. n : x[j] = t[j]
  BY <1>5, <1>8, AppendProperties
<1>10. n # small_block - 1 /\ (n # 0 => t[n] # LF)
  <2>1. t # <<>> <=> n # 0
    BY <1>5
  <2>2. QED
    BY <1>1, <1>5, <2>1 DEF FgetsDone
<1>11. NoFeed(x, Len(x) - 1)
  <2>1. ASSUME NEW j \in 1 .. n PROVE x[j] # LF
    <3>1. CASE j = n
      BY <1>9, <1>10, <3>1
    <3>2. CASE j # n
      <4>1. j \in 1 .. (n - 1)
        BY <3>2
      <4>2. QED
        BY <1>4, <1>5, <1>9, <4>1 DEF NoFeed
    <3>3. QED
      BY <3>1, <3>2
  <2>2. (n + 1) - 1 = n
    OBVIOUS
  <2>3. QED
    BY <1>9, <2>1, <2>2 DEF NoFeed
<1>12. Len(x) <= small_block - 1
  BY <1>4, <1>5, <1>9, <1>10, IoTypes
<1>13. AtStart(a)
  BY <1>1, <1>3 DEF Held, AtEnd
<1>14. chunk' = x /\ pipe' = u
  BY <1>1, <1>5, <1>7, <1>8
<1>15. Held(a)'
  BY <1>1, <1>3, <1>6, <1>8, <1>13, <1>14 DEF Held
<1>16. reader' = "fgets" /\ rpc' # "end" /\ rpc # "end"
  BY <1>1
<1>17. QED
  BY <1>1, <1>2, <1>8, <1>11, <1>12, <1>14, <1>15, <1>16, Zenon DEF LinesHeld

\* What is trimmed from a text without '\0' is the '\0's behind it.
LEMMA TrimmedIs ==
    ASSUME Nul \notin Chars, NEW t \in Seq(Chars), NEW k \in Nat
    PROVE  /\ Trimmed(t \o Nuls(k)) = t
           /\ k = 1 => Front(t \o Nuls(k)) = t
<1>0. PICK T : T = Chars \cup {Nul}
  OBVIOUS
<1>1. Chars \subseteq T /\ Nul \in T
  BY <1>0
<1>2. t \in Seq(T) /\ Nuls(k) \in Seq(T) /\ Len(Nuls(k)) = k /\ \A i \in 1 .. k : Nuls(k)[i] = Nul
  <2>1. t \in Seq(T)
    BY <1>1, SeqMonotonic
  <2>2. PICK f : f = [i \in 1 .. k |-> Nul]
    OBVIOUS
  <2>3. f \in Seq(T) /\ Len(f) = k /\ \A i \in 1 .. k : f[i] = Nul
    BY <1>1, <2>2
  <2>4. QED
    BY <2>1, <2>2, <2>3 DEF Nuls
<1>3. PICK n \in Nat, nuls \in Seq(T) : n = Len(t) /\ nuls = Nuls(k)
  BY <1>2
<1>4. PICK s \in Seq(T) : s = t \o nuls
  BY <1>2, <1>3, ConcatProperties
<1>5. Len(s) = n + k /\ \A i \in 1 .. n + k : s[i] = IF i <= n THEN t[i] ELSE nuls[i - n]
  BY <1>2, <1>3, <1>4, ConcatProperties
<1>6. ASSUME NEW i \in 1 .. n + k PROVE s[i] # Nul <=> i <= n
  <2>1. CASE i <= n
    <3>1. i \in 1 .. Len(t)
      BY <1>3, <2>1
    <3>2. t[i] \in Chars
      BY <3>1, ElementOfSeq
    <3>3. QED
      BY <1>5, <2>1, <3>2
  <2>2. CASE ~(i <= n)
    <3>1. PICK j \in 1 .. k : j = i - n
      BY <2>2
    <3>2. QED
      BY <1>2, <1>3, <1>5, <2>2, <3>1
  <2>3. QED
    BY <2>1, <2>2
<1>7. {0} \cup {i \in DOMAIN s : s[i] # Nul} = 0 .. n
  <2>1. DOMAIN s = 1 .. n + k
    BY <1>5
  <2>2. {i \in DOMAIN s : s[i] # Nul} = 1 .. n
    <3>1. \A i : i \in 1 .. n <=> i \in 1 .. n + k /\ i <= n
      OBVIOUS
    <3>2. QED
      BY <1>6, <2>1, <3>1
  <2>3. QED
    BY <2>2
<1>8. Max(0 .. n) = n
  <2>1. n \in 0 .. n /\ \A y \in 0 .. n : n >= y
    OBVIOUS
  <2>2. \A x \in 0 .. n : (\A y \in 0 .. n : x >= y) => x = n
    <3>1. \A x \in 0 .. n : x >= n => x = n
      OBVIOUS
    <3>2. QED
      BY <2>1, <3>1
  <2>3. QED
    BY <2>1, <2>2 DEF Max
<1>9. SubSeq(s, 1, n) = t
  <2>1. n \in 0 .. Len(s) /\ n <= n + k
    BY <1>5
  <2>2. SubSeq(s, 1, n) \in Seq(T) /\ Len(SubSeq(s, 1, n)) = n /\ \A i \in 1 .. n : SubSeq(s, 1, n)[i] = s[i]
    BY <1>5, <2>1
  <2>3. \A i \in 1 .. n : s[i] = t[i]
    BY <1>5
  <2>4. QED
    BY <1>2, <1>3, <2>2, <2>3, SeqEqual
<1>10. Trimmed(s) = t
  BY <1>7, <1>8, <1>9 DEF Trimmed
<1>11. k = 1 => Front(s) = t
  <2>1. ASSUME k = 1 PROVE Len(s) - 1 = n
    BY <1>5, <2>1
  <2>2. QED
    BY <1>9, <2>1 DEF Front
<1>12. QED
  BY <1>3, <1>4, <1>10, <1>11

\* A chunk that goes on to a line feed ends with it.
LEMMA FeedLast ==
    ASSUME NEW t \in Seq(Chars), NoFeed(t, Len(t) - 1)
    PROVE  /\ HasFeed(t) => t # <<>> /\ t[Len(t)] = LF
           /\ ~HasFeed(t) => NoFeed(t, Len(t))
<1>1. PICK n \in Nat : n = Len(t) /\ DOMAIN t = 1 .. n
  OBVIOUS
<1>2. ASSUME HasFeed(t) PROVE t # <<>> /\ t[Len(t)] = LF
  <2>1. PICK i \in 1 .. n : t[i] = LF
    BY <1>1, <1>2 DEF HasFeed
  <2>2. i \notin 1 .. (n - 1)
    BY <1>1, <2>1 DEF NoFeed
  <2>3. i = n /\ n # 0
    BY <2>2
  <2>4. QED
    BY <1>1, <2>1, <2>3
<1>3. ~HasFeed(t) => NoFeed(t, Len(t))
  BY <1>1 DEF HasFeed, NoFeed
<1>4. QED
  BY <1>2, <1>3

\* Two texts without a line feed have none together, nor before the last
\* character if the second has none before its last.
LEMMA NoFeedBoth ==
    ASSUME NEW t \in Seq(Chars), NEW c \in Seq(Chars), NoFeed(t, Len(t)), NoFeed(c, Len(c) - 1), c # <<>>
    PROVE  /\ t \o c \in Seq(Chars) /\ t \o c # <<>> /\ Len(t \o c) = Len(t) + Len(c)
           /\ NoFeed(t \o c, Len(t \o c) - 1) /\ (t \o c)[Len(t \o c)] = c[Len(c)]
           /\ NoFeed(c, Len(c)) => NoFeed(t \o c, Len(t \o c))
<1>1. PICK n \in Nat, l \in Nat : n = Len(t) /\ l = Len(c) /\ l # 0
  BY EmptySeq
<1>2. t \o c \in Seq(Chars) /\ Len(t \o c) = n + l
      /\ \A i \in 1 .. n + l : (t \o c)[i] = IF i <= n THEN t[i] ELSE c[i - n]
  BY <1>1, ConcatProperties
<1>3. PICK x \in Seq(Chars) : x = t \o c
  BY <1>2
<1>4. x # <<>>
  <2>1. n + l # 0
    BY <1>1
  <2>2. Len(<<>>) = 0
    OBVIOUS
  <2>3. QED
    BY <1>2, <1>3, <2>1, <2>2
<1>5. ASSUME NEW i \in 1 .. n + l PROVE x[i] = LF => ~(i <= n) /\ c[i - n] = LF
  <2>1. CASE i <= n
    <3>1. x[i] = t[i] /\ i \in 1 .. n
      BY <1>2, <1>3, <2>1
    <3>2. QED
      BY <1>1, <3>1 DEF NoFeed
  <2>2. CASE ~(i <= n)
    BY <1>2, <1>3, <2>2
  <2>3. QED
    BY <2>1, <2>2
<1>6. ASSUME NEW i \in 1 .. n + l - 1 PROVE x[i] # LF
  <2> SUFFICES ASSUME x[i] = LF PROVE FALSE
    OBVIOUS
  <2>1. i \in 1 .. n + l
    OBVIOUS
  <2>2. ~(i <= n) /\ c[i - n] = LF
    BY <1>5, <2>1
  <2>3. PICK j \in 1 .. (l - 1) : j = i - n
    BY <2>2
  <2>4. QED
    BY <1>1, <2>2, <2>3 DEF NoFeed
<1>7. x[n + l] = c[l]
  <2>1. n + l \in 1 .. n + l /\ ~(n + l <= n) /\ (n + l) - n = l
    BY <1>1
  <2>2. QED
    BY <1>2, <1>3, <2>1
<1>8. ASSUME NoFeed(c, l) PROVE NoFeed(x, n + l)
  <2>1. ASSUME NEW i \in 1 .. n + l, x[i] = LF PROVE FALSE
    <3>1. ~(i <= n) /\ c[i - n] = LF
      BY <1>5, <2>1
    <3>2. PICK j \in 1 .. l : j = i - n
      BY <3>1
    <3>3. QED
      BY <1>8, <3>1, <3>2 DEF NoFeed
  <2>2. QED
    BY <2>1 DEF NoFeed
<1>9. NoFeed(x, n + l - 1)
  BY <1>6 DEF NoFeed
<1>10. QED
  BY <1>1, <1>2, <1>3, <1>4, <1>7, <1>8, <1>9

\* Cstdio::read_line() goes on with the line or gives it.
LEMMA CstdioStep ==
    ASSUME WriterTypes, ReaderInv, CstdioReadLine, LineReader
    PROVE  LinesHeld'
<1>0. Nul \notin Chars
  BY DEF CstdioReadLine, LineReader
<1>1. /\ reader = "fgets" /\ rpc = "read" /\ FgetsDone
      /\ UNCHANGED <<written, wopen, reader, pipe>> /\ pipe \in Seq(Chars)
  BY DEF CstdioReadLine, ReaderInv, writerVars
<1>2. LinesHeld
  BY DEF ReaderInv
<1>3. PICK a \in Seq(Chars) : Held(a)
  BY <1>2 DEF LinesHeld
<1>4. PICK t \in Seq(Chars), c \in Seq(Chars), p \in Seq(Chars) : t = str /\ c = chunk /\ p = pipe
  BY <1>1, <1>2 DEF LinesHeld
<1>5. PICK n \in Nat, l \in Nat, b \in Nat : n = Len(t) /\ l = Len(c) /\ b = small_block /\ b > 1
  BY IoTypes
<1>6. NoFeed(t, n) /\ NoFeed(c, l - 1) /\ l <= b - 1 /\ (t = <<>> \/ b - 1 <= n) /\ (c = <<>> <=> l = 0)
  <2>1. c = <<>> <=> l = 0
    BY <1>5
  <2>2. QED
    BY <1>1, <1>2, <1>4, <1>5, <2>1 DEF LinesHeld
<1>7. PICK x \in Seq(Chars) : x = t \o c
  BY ConcatProperties
<1>8. written = (a \o x) \o p
  <2>1. (a \o t) \o c = a \o (t \o c)
    BY Regroup
  <2>2. QED
    BY <1>3, <1>4, <1>7, <2>1 DEF Held
<1>9. c # <<>> => /\ x # <<>> /\ Len(x) = n + l /\ NoFeed(x, Len(x) - 1) /\ x[Len(x)] = c[l]
                  /\ NoFeed(c, l) => NoFeed(x, Len(x))
  BY <1>5, <1>6, <1>7, NoFeedBoth
<1>10. AtEnd' <=> AtEnd
  BY <1>1 DEF AtEnd
<1>11. (t # <<>> \/ c # <<>>) => AtStart(a)
  BY <1>3, <1>4 DEF Held
<1>12. rpc # "end"
  BY <1>1
<1>13. CASE c = <<>>
  <2>1. AtEnd
    <3>1. l = 0 /\ l # b - 1
      BY <1>5, <1>6, <1>13
    <3>2. QED
      BY <1>1, <1>4, <1>5, <1>13, <3>1 DEF FgetsDone
  <2>2. Returns(t)
    BY <1>4, <1>13 DEF CstdioReadLine
  <2>3. CASE t = <<>>
    <3>1. rpc' = "end" /\ given' = given /\ str' = <<>> /\ chunk' = <<>>
      BY <2>2, <2>3 DEF Returns
    <3>2. QED
      BY <1>1, <1>2, <1>4, <1>13, <2>1, <2>3, <3>1, LinesOver
  <2>4. CASE t # <<>>
    <3>1. given' = Append(given, t) /\ str' = <<>> /\ chunk' = <<>> /\ rpc' = rpc
      BY <2>2, <2>4 DEF Returns
    <3>2. x = t
      BY <1>7, <1>13, ConcatEmptySeq
    <3>3. NoFeed(t, Len(t) - 1)
      BY <1>5, <1>6 DEF NoFeed
    <3>4. written = (a \o t) \o pipe' /\ pipe' \in Seq(Chars) /\ AtEnd' /\ AtStart(a)
      BY <1>1, <1>4, <1>8, <1>10, <1>11, <2>1, <2>4, <3>2
    <3>5. QED
      BY <1>1, <1>2, <1>3, <1>12, <2>4, <3>1, <3>3, <3>4, LineGiven
  <2>5. QED
    BY <2>3, <2>4
<1>14. CASE c # <<>>
  <2>1. x # <<>> /\ Len(x) = n + l /\ NoFeed(x, Len(x) - 1) /\ x[Len(x)] = c[l] /\ (NoFeed(c, l) => NoFeed(x, Len(x)))
        /\ AtStart(a)
    BY <1>9, <1>11, <1>14
  <2>2. PICK k \in Nat : k = b - l /\ k > 0
    <3>1. l <= b - 1
      BY <1>6
    <3>2. b - l \in Nat /\ b - l > 0
      BY <3>1
    <3>3. QED
      BY <3>2
  <2>3. Trimmed(x \o Nuls(k)) = x /\ (k = 1 => Front(x \o Nuls(k)) = x)
    BY <1>0, TrimmedIs
  <2>4. ASSUME Returns(x), c[l] = LF \/ AtEnd PROVE LinesHeld'
    <3>1. given' = Append(given, x) /\ str' = <<>> /\ chunk' = <<>> /\ rpc' = rpc
      BY <2>1, <2>4 DEF Returns
    <3>2. written = (a \o x) \o pipe' /\ pipe' \in Seq(Chars) /\ (x[Len(x)] = LF \/ AtEnd')
      BY <1>1, <1>4, <1>8, <1>10, <2>1, <2>4
    <3>3. QED
      BY <1>1, <1>2, <1>3, <1>12, <2>1, <3>1, <3>2, LineGiven
  <2>5. CASE HasFeed(c)
    <3>1. c[l] = LF
      BY <1>5, <1>6, <2>5, FeedLast
    <3>2. Returns(str \o chunk)
      BY <1>4, <1>14, <2>5 DEF CstdioReadLine
    <3>3. QED
      BY <1>4, <1>7, <2>4, <3>1, <3>2
  <2>6. CASE ~HasFeed(c)
    <3>1. NoFeed(c, l) /\ c[l] # LF
      <4>1. NoFeed(c, l)
        BY <1>5, <1>6, <2>6, FeedLast
      <4>2. l \in 1 .. l
        BY <1>6, <1>14
      <4>3. QED
        BY <4>1, <4>2 DEF NoFeed
    <3>2. l = b - 1 \/ AtEnd
      BY <1>1, <1>4, <1>5, <3>1 DEF FgetsDone
    <3>3. PICK buf : buf = str \o chunk \o Nuls(small_block - Len(chunk)) /\ buf = x \o Nuls(k)
      BY <1>4, <1>5, <1>7, <2>2
    <3>4. Len(Trimmed(buf)) = n + l /\ Trimmed(buf) = x
      BY <2>1, <2>3, <3>3
    <3>5. CASE n + l < b - 1
      <4>1. Returns(x)
        BY <1>4, <1>5, <1>14, <2>6, <3>3, <3>4, <3>5 DEF CstdioReadLine
      <4>2. l # b - 1
        BY <3>5
      <4>3. QED
        BY <2>4, <3>2, <4>1, <4>2
    <3>6. CASE ~(n + l < b - 1)
      <4>1. str' = Front(buf) /\ chunk' = <<>> /\ UNCHANGED <<rpc, given>>
        BY <1>4, <1>5, <1>14, <2>6, <3>3, <3>4, <3>6 DEF CstdioReadLine
      <4>2. l = b - 1
        <5> SUFFICES ASSUME l # b - 1 PROVE FALSE
          OBVIOUS
        <5>1. AtEnd /\ ShortTail
          BY <1>1, <3>2 DEF AtEnd, LineReader
        <5>2. written = a \o x
          <6>1. PICK y \in Seq(Chars) : y = a \o x
            BY ConcatProperties
          <6>2. y \o <<>> = y
            BY ConcatEmptySeq
          <6>3. QED
            BY <1>4, <1>8, <5>1, <6>1, <6>2 DEF AtEnd
        <5>3. Cut(written) = Append(given, x)
          BY <1>3, <2>1, <5>2, CutMore DEF Held, NoFeed
        <5>4. PICK ls \in Seq(Seq(Chars)) : ls = Cut(written) /\ ls # <<>> /\ ls[Len(ls)] = x
          <6>1. given \in Seq(Seq(Chars))
            BY <1>2 DEF LinesHeld
          <6>2. /\ Append(given, x) \in Seq(Seq(Chars)) /\ Append(given, x) # <<>>
                /\ Append(given, x)[Len(Append(given, x))] = x
            BY <6>1, LastOne
          <6>3. QED
            BY <5>3, <6>2
        <5>5. ~EndsLine(x)
          BY <2>1, <3>1 DEF EndsLine
        <5>6. Len(x) < small_block
          BY <5>1, <5>4, <5>5 DEF ShortTail
        <5>7. n + l < b
          BY <1>5, <2>1, <5>6
        <5>8. l < b - 1 /\ l # 0
          BY <1>6, <1>14
        <5>9. n # 0
          BY <3>6, <5>8
        <5>10. b - 1 <= n
          BY <1>5, <1>6, <5>9
        <5>11. QED
          BY <5>7, <5>8, <5>10
      <4>3. str' = x
        <5>1. k = 1
          BY <2>2, <4>2
        <5>2. QED
          BY <2>3, <3>3, <4>1, <5>1
      <4>4. NoFeed(x, Len(x)) /\ b - 1 <= Len(x)
        BY <2>1, <3>1, <3>6
      <4>5. written' = ((a \o str') \o chunk') \o pipe'
        <5>1. PICK y \in Seq(Chars) : y = a \o x
          BY ConcatProperties
        <5>2. y \o <<>> = y
          BY ConcatEmptySeq
        <5>3. QED
          BY <1>1, <1>4, <1>8, <4>1, <4>3, <5>1, <5>2
      <4>6. Held(a)'
        BY <1>3, <2>1, <4>1, <4>5 DEF Held
      <4>7. <<>> \in Seq(Chars) /\ NoFeed(<<>>, Len(<<>>) - 1) /\ Len(<<>>) <= small_block - 1
        BY IoTypes DEF NoFeed
      <4>8. reader' = "fgets" /\ rpc' # "end" /\ wopen' = wopen /\ given' = given /\ chunk' = <<>> /\ small_block - 1 <= Len(x)
        BY <1>1, <1>5, <4>1, <4>4
      <4>9. QED
        BY <1>2, <4>3, <4>4, <4>6, <4>7, <4>8, Zenon DEF LinesHeld
    <3>7. QED
      BY <3>5, <3>6
  <2>7. QED
    BY <2>5, <2>6
<1>15. QED
  BY <1>13, <1>14

\* The smaller of two numbers is one of them and no more than each.
LEMMA MinTwo ==
    ASSUME NEW m \in Nat, NEW n \in Nat
    PROVE  Min({m, n}) \in Nat /\ Min({m, n}) <= n
<1>1. \E x \in {m, n} : \A y \in {m, n} : x <= y
  <2>1. CASE m <= n
    BY <2>1
  <2>2. CASE ~(m <= n)
    BY <2>2
  <2>3. QED
    BY <2>1, <2>2
<1>2. Min({m, n}) \in {m, n} /\ \A y \in {m, n} : Min({m, n}) <= y
  BY <1>1 DEF Min
<1>3. QED
  BY <1>2

\* What read() gets of the pipe: nothing at the end, and something before it.
LEMMA ReadGets ==
    ASSUME pipe \in Seq(Chars), NEW n \in Nat, NEW k \in Read(n), Taken(k)
    PROVE  /\ k \in 0 .. Len(pipe)
           /\ SubSeq(pipe, 1, k) \in Seq(Chars) /\ pipe' \in Seq(Chars)
           /\ \A h \in Seq(Chars) : h \o pipe = (h \o SubSeq(pipe, 1, k)) \o pipe'
           /\ IF k = 0 THEN AtEnd /\ pipe' = <<>> /\ SubSeq(pipe, 1, k) = <<>> ELSE SubSeq(pipe, 1, k) # <<>>
<1>1. PICK p \in Seq(Chars), l \in Nat : p = pipe /\ l = Len(p)
  OBVIOUS
<1>2. k \in 0 .. l /\ (k = 0 => AtEnd)
  <2>1. CASE AtEnd
    <3>1. k = 0
      BY <2>1 DEF Read
    <3>2. QED
      BY <2>1, <3>1
  <2>2. CASE ~AtEnd
    <3>1. PICK m \in Nat : m = Min({n, l}) /\ m <= l
      BY MinTwo
    <3>2. k \in 1 .. m
      BY <1>1, <2>2, <3>1 DEF Read
    <3>3. QED
      BY <3>1, <3>2
  <2>3. QED
    BY <2>1, <2>2
<1>3. pipe' = SubSeq(p, k + 1, Len(p))
  BY <1>1 DEF Taken
<1>4. SubSeq(p, 1, k) \in Seq(Chars) /\ SubSeq(p, k + 1, Len(p)) \in Seq(Chars)
      /\ \A h \in Seq(Chars) : h \o p = (h \o SubSeq(p, 1, k)) \o SubSeq(p, k + 1, Len(p))
  <2>1. k \in 0 .. Len(p) /\ <<>> \in Seq(Chars)
    BY <1>1, <1>2
  <2>2. ASSUME NEW h \in Seq(Chars)
        PROVE  /\ SubSeq(p, 1, k) \in Seq(Chars) /\ SubSeq(p, k + 1, Len(p)) \in Seq(Chars)
               /\ h \o p = (h \o SubSeq(p, 1, k)) \o SubSeq(p, k + 1, Len(p))
    BY <2>1, SomeGo
  <2>3. QED
    BY <2>1, <2>2, Zenon
<1>5. CASE k = 0
  <2>1. p = <<>> /\ AtEnd
    BY <1>1, <1>2, <1>5 DEF AtEnd
  <2>2. SubSeq(p, 1, k) = <<>>
    BY <1>5, SubSeqEmpty
  <2>3. pipe' = <<>>
    <3>1. Len(p) < k + 1 /\ k + 1 \in Int /\ Len(p) \in Int
      BY <1>5, <2>1
    <3>2. QED
      BY <1>3, <3>1, SubSeqEmpty
  <2>4. QED
    BY <1>1, <1>2, <1>3, <1>4, <1>5, <2>1, <2>2, <2>3
<1>6. CASE k # 0
  <2>1. PICK q \in Seq(Chars) : q = SubSeq(p, 1, k)
    BY <1>4
  <2>2. q # <<>>
    <3>1. Len(q) = k
      BY <1>1, <1>2, <2>1
    <3>2. QED
      BY <1>6, <3>1
  <2>3. QED
    BY <1>1, <1>2, <1>3, <1>4, <1>6, <2>1, <2>2
<1>7. QED
  BY <1>5, <1>6

\* A call returns what it has read of the whole.
LEMMA SomeGiven ==
    ASSUME AllHeld, NEW x \in Seq(Chars), x # <<>>, pipe' \in Seq(Chars), written = (Concat(given) \o x) \o pipe',
           Returns(x), rpc # "end", UNCHANGED <<written, wopen, reader>>
    PROVE  AllHeld'
<1>1. given' = Append(given, x) /\ str' = <<>> /\ rpc' = rpc
  BY DEF Returns
<1>2. given \in Seq(Seq(Chars))
  BY DEF AllHeld
<1>3. PICK c \in Seq(Chars) : c = Concat(given') /\ c = Concat(given) \o x
  BY <1>1, <1>2, ConcatMore, ConcatProperties
<1>4. given' \in Seq(Seq(Chars))
  BY <1>1, <1>2, LastOne
<1>5. written' = (Concat(given') \o str') \o pipe'
  <2>1. c \o <<>> = c
    BY ConcatEmptySeq
  <2>2. QED
    BY <1>1, <1>3, <2>1
<1>6. <<>> \in Seq(Chars)
  OBVIOUS
<1>7. QED
  BY <1>1, <1>4, <1>5, <1>6, Zenon DEF AllHeld

\* A call finds the end.
LEMMA AllOver ==
    ASSUME AllHeld, AtEnd, pipe' = <<>>, str = <<>>, Returns(<<>>), UNCHANGED <<written, wopen, reader>>
    PROVE  AllHeld'
<1>1. given' = given /\ str' = <<>> /\ rpc' = "end"
  BY DEF Returns
<1>2. AtEnd' /\ pipe' = pipe
  BY DEF AtEnd
<1>3. QED
  BY <1>1, <1>2, Zenon DEF AllHeld

\* read_all() and reads() get all that is written.
LEMMA ReadAllStep ==
    ASSUME WriterTypes, ReaderInv, IoReadAll \/ Reads
    PROVE  pipe' \in Seq(Chars) /\ AllHeld'
<1>1. /\ rpc = "read" /\ reader \in {"read_all", "reads"}
      /\ UNCHANGED <<written, wopen, reader>> /\ pipe \in Seq(Chars)
  BY DEF IoReadAll, Reads, ReaderInv, writerVars
<1>2. AllHeld
  BY <1>1 DEF ReaderInv
<1>3. PICK t \in Seq(Chars), c \in Seq(Chars) : t = str /\ c = Concat(given)
  BY <1>2, Places DEF AllHeld
<1>4. PICK h \in Seq(Chars) : h = c \o t /\ written = h \o pipe
  BY <1>2, <1>3, ConcatProperties DEF AllHeld
<1>5. CASE IoReadAll
  <2>1. PICK k \in Read(block_size) :
          /\ Taken(k)
          /\ IF k = 0 THEN Returns(str)
             ELSE str' = str \o SubSeq(pipe, 1, k) /\ UNCHANGED <<rpc, chunk, given>>
    BY <1>5 DEF IoReadAll
  <2>2. block_size \in Nat
    BY IoTypes
  <2>3. /\ SubSeq(pipe, 1, k) \in Seq(Chars) /\ pipe' \in Seq(Chars)
        /\ \A g \in Seq(Chars) : g \o pipe = (g \o SubSeq(pipe, 1, k)) \o pipe'
        /\ IF k = 0 THEN AtEnd /\ pipe' = <<>> /\ SubSeq(pipe, 1, k) = <<>> ELSE SubSeq(pipe, 1, k) # <<>>
    BY <1>1, <2>1, <2>2, ReadGets
  <2>4. reader = "read_all"
    BY <1>5 DEF IoReadAll
  <2>5. CASE k = 0 /\ t = <<>>
    BY <1>1, <1>2, <1>3, <2>1, <2>3, <2>5, AllOver
  <2>6. CASE k = 0 /\ t # <<>>
    <3>1. written = (Concat(given) \o t) \o pipe'
      <4>1. h \o <<>> = h
        BY ConcatEmptySeq
      <4>2. written = (h \o <<>>) \o pipe'
        BY <1>4, <2>3, <2>6
      <4>3. QED
        BY <1>3, <1>4, <4>1, <4>2
    <3>2. Returns(t) /\ rpc # "end"
      BY <1>1, <1>3, <2>1, <2>6
    <3>3. QED
      BY <1>1, <1>2, <2>3, <2>6, <3>1, <3>2, SomeGiven
  <2>7. CASE k # 0
    <3>1. PICK q \in Seq(Chars) : q = SubSeq(pipe, 1, k)
      BY <2>3
    <3>2. str' = t \o q /\ given' = given /\ rpc' = rpc
      BY <1>3, <2>1, <2>7, <3>1
    <3>3. str' \in Seq(Chars)
      BY <3>2, ConcatProperties
    <3>4. written' = (Concat(given') \o str') \o pipe'
      <4>1. (c \o t) \o q = c \o (t \o q)
        BY Regroup
      <4>2. written = (h \o q) \o pipe'
        BY <1>4, <2>3, <3>1
      <4>3. QED
        BY <1>1, <1>3, <1>4, <3>2, <4>1, <4>2
    <3>5. rpc' # "end" /\ reader' # "reads"
      BY <1>1, <2>4, <3>2
    <3>6. QED
      BY <1>2, <2>3, <3>2, <3>3, <3>4, <3>5, Zenon DEF AllHeld
  <2>8. QED
    BY <2>3, <2>5, <2>6, <2>7
<1>6. CASE Reads
  <2>1. PICK k \in Read(2) : Taken(k) /\ Returns(SubSeq(pipe, 1, k))
    BY <1>6 DEF Reads
  <2>2. /\ SubSeq(pipe, 1, k) \in Seq(Chars) /\ pipe' \in Seq(Chars)
        /\ \A g \in Seq(Chars) : g \o pipe = (g \o SubSeq(pipe, 1, k)) \o pipe'
        /\ IF k = 0 THEN AtEnd /\ pipe' = <<>> /\ SubSeq(pipe, 1, k) = <<>> ELSE SubSeq(pipe, 1, k) # <<>>
    BY <1>1, <2>1, ReadGets
  <2>3. t = <<>>
    BY <1>2, <1>3, <1>6 DEF AllHeld, Reads
  <2>4. h = c
    BY <1>4, <2>3, ConcatEmptySeq
  <2>5. CASE k = 0
    <3>1. Returns(<<>>) /\ AtEnd /\ pipe' = <<>>
      BY <2>1, <2>2, <2>5
    <3>2. QED
      BY <1>1, <1>2, <1>3, <2>2, <2>3, <3>1, AllOver
  <2>6. CASE k # 0
    <3>1. PICK q \in Seq(Chars) : q = SubSeq(pipe, 1, k) /\ q # <<>> /\ Returns(q)
      BY <2>1, <2>2, <2>6
    <3>2. written = (Concat(given) \o q) \o pipe'
      BY <1>3, <1>4, <2>2, <2>4, <3>1
    <3>3. rpc # "end"
      BY <1>1
    <3>4. QED
      BY <1>1, <1>2, <2>2, <3>1, <3>2, <3>3, SomeGiven
  <2>7. QED
    BY <2>2, <2>5, <2>6
<1>7. QED
  BY <1>5, <1>6

\* Each step keeps what the reader holds.
LEMMA ReaderStep ==
    ASSUME TextInv, [IoNext]_ioVars
    PROVE  ReaderInv'
<1>1. WriterTypes /\ ReaderInv /\ pipe \in Seq(Chars)
  BY DEF TextInv, WriterInv, ReaderInv
<1>2. ASSUME UNCHANGED writerVars PROVE (LineReader' <=> LineReader) \/ reader' # reader
  <2>1. UNCHANGED <<written, wopen>>
    BY <1>2 DEF writerVars
  <2>2. ShortTail' <=> ShortTail
    BY <2>1 DEF ShortTail
  <2>3. QED
    BY <2>1, <2>2 DEF LineReader
<1>3. CASE UNCHANGED ioVars
  <2>1. UNCHANGED <<script, todo, writing, ofs, pipe, wopen, written, cut, failed, reader, rpc, str, chunk, given>>
    BY <1>3 DEF ioVars
  <2>2. LineReader' <=> LineReader
    BY <1>2, <2>1 DEF writerVars
  <2>3. LinesHeld' <=> LinesHeld
    BY <2>1 DEF LinesHeld, Held, AtEnd
  <2>4. AllHeld' <=> AllHeld
    BY <2>1 DEF AllHeld, AtEnd
  <2>5. QED
    BY <1>1, <2>1, <2>2, <2>3, <2>4 DEF ReaderInv
<1>4. CASE Call
  <2>1. wopen /\ UNCHANGED readerVars /\ wopen' = wopen /\ UNCHANGED <<pipe, written>>
    BY <1>1, <1>4 DEF Call, WriterTypes
  <2>2. QED
    BY <1>1, <2>1, WriterKeepsReader
<1>5. CASE Write
  <2>1. wopen /\ UNCHANGED readerVars /\ wopen' = wopen
    BY <1>1, <1>5 DEF Write, WriterTypes
  <2>2. PICK s \in Seq(Chars) : s = writing[1].s
    <3>1. writing \in Seq(Pieces) /\ writing # <<>>
      BY <1>1, <1>5 DEF Write, WriterTypes
    <3>2. writing[1] \in Pieces
      BY <3>1
    <3>3. QED
      BY <3>2 DEF Pieces
  <2>3. \/ UNCHANGED <<pipe, written>>
        \/ \E x \in Chars : pipe' = Append(pipe, x) /\ written' = Append(written, x) /\ wopen'
    <3>1. ofs \in Nat
      BY <1>1 DEF WriterTypes
    <3>2. ofs < Len(s) => s[ofs + 1] \in Chars
      <4>1. ofs < Len(s) => ofs + 1 \in 1 .. Len(s)
        BY <3>1
      <4>2. QED
        BY <4>1, ElementOfSeq
    <3>3. QED
      BY <1>5, <2>1, <2>2, <3>2 DEF Write
  <2>4. QED
    BY <1>1, <2>1, <2>3, WriterKeepsReader
<1>6. CASE Interrupted
  <2>1. wopen /\ UNCHANGED readerVars /\ wopen' = wopen /\ UNCHANGED <<pipe, written>>
    BY <1>1, <1>6 DEF Interrupted, WriterTypes
  <2>2. QED
    BY <1>1, <2>1, WriterKeepsReader
<1>7. CASE WriterCloses
  <2>1. wopen /\ UNCHANGED readerVars /\ (wopen' => wopen) /\ UNCHANGED <<pipe, written>>
    BY <1>1, <1>7 DEF WriterCloses
  <2>2. QED
    BY <1>1, <2>1, WriterKeepsReader
<1>8. CASE ReadLine
  <2>1. reader' = "read_line" /\ LinesHeld'
    BY <1>1, <1>8, ReadLineStep DEF ReadLine
  <2>2. pipe' \in Seq(Chars)
    BY <1>1, <1>8 DEF ReadLine
  <2>3. QED
    BY <2>1, <2>2 DEF ReaderInv
<1>9. CASE Fgets \/ CstdioReadLine
  <2>1. reader' = "fgets" /\ reader' = reader /\ UNCHANGED writerVars
    BY <1>9 DEF Fgets, CstdioReadLine
  <2>2. LineReader => LinesHeld'
    BY <1>1, <1>9, FgetsStep, CstdioStep
  <2>3. pipe' \in Seq(Chars)
    BY <1>1, <1>9 DEF Fgets, CstdioReadLine
  <2>4. QED
    BY <1>2, <2>1, <2>2, <2>3 DEF ReaderInv
<1>10. CASE IoReadAll \/ Reads
  <2>1. reader' \in {"read_all", "reads"}
    BY <1>10 DEF IoReadAll, Reads
  <2>2. pipe' \in Seq(Chars) /\ AllHeld'
    BY <1>1, <1>10, ReadAllStep
  <2>3. ~LineReader'
    BY <2>1 DEF LineReader
  <2>4. QED
    BY <2>2, <2>3 DEF ReaderInv
<1>11. QED
  BY <1>3, <1>4, <1>5, <1>6, <1>7, <1>8, <1>9, <1>10 DEF IoNext, WriterSteps, ReaderSteps

\* TextInv is an inductive invariant.
LEMMA TextInvariant == IoSpec => []TextInv
<1>1. IoInit(Scripts, Readers) => TextInv
  BY WriterStarts, ReaderStarts DEF TextInv
<1>2. TextInv /\ [IoNext]_ioVars => TextInv'
  BY WriterTypesStep, ArrivesStep, ReaderStep DEF TextInv, WriterInv
<1>3. QED
  BY <1>1, <1>2, PTL DEF IoSpec

\* The readers give what was written.
LEMMA HeldWhole ==
    ASSUME TextInv
    PROVE  AllRead /\ (Nul \notin Chars => LinesWhole)
<1>1. ReaderInv
  BY DEF TextInv
<1>2. ASSUME reader \in {"read_all", "reads"}, rpc = "end" PROVE Concat(given) = written
  <2>1. AllHeld
    BY <1>1, <1>2 DEF ReaderInv
  <2>2. str = <<>> /\ pipe = <<>> /\ given \in Seq(Seq(Chars)) /\ written = (Concat(given) \o str) \o pipe
    BY <1>2, <2>1 DEF AllHeld, AtEnd
  <2>3. PICK c \in Seq(Chars) : c = Concat(given)
    BY <2>2, Places
  <2>4. (c \o <<>>) \o <<>> = c
    BY ConcatEmptySeq
  <2>5. QED
    BY <2>2, <2>3, <2>4
<1>3. ASSUME Nul \notin Chars, reader = "read_line" \/ (reader = "fgets" /\ (wopen \/ ShortTail))
      PROVE  /\ rpc # "end" => \A i \in DOMAIN given : EndsLine(given[i]) \/ ~wopen
             /\ rpc = "end" => given = Cut(written)
  <2>1. LinesHeld
    BY <1>1, <1>3 DEF ReaderInv, LineReader
  <2>2. PICK a \in Seq(Chars) : Held(a)
    BY <2>1 DEF LinesHeld
  <2>3. given \in Seq(Seq(Chars)) /\ (wopen => \A i \in 1 .. Len(given) : EndsLine(given[i]))
    BY <2>1 DEF LinesHeld
  <2>4. DOMAIN given = 1 .. Len(given)
    BY <2>3
  <2>5. ASSUME rpc = "end" PROVE given = Cut(written)
    <3>1. str = <<>> /\ chunk = <<>> /\ pipe = <<>>
      BY <2>1, <2>5 DEF LinesHeld, AtEnd
    <3>2. ((a \o <<>>) \o <<>>) \o <<>> = a
      BY ConcatEmptySeq
    <3>3. QED
      BY <2>2, <3>1, <3>2 DEF Held
  <2>6. QED
    BY <2>3, <2>4, <2>5
<1>4. AllRead
  BY <1>2 DEF AllRead
<1>5. Nul \notin Chars => LinesWhole
  BY <1>3 DEF LinesWhole
<1>6. QED
  BY <1>4, <1>5

\* Whatever is written, with '\0' or without: it arrives once and in order,
\* however write() is interrupted, and read_all() and reads() give all of it.
THEOREM AnyTextArrives == IoSpec => [](WritesWhole /\ AllRead)
<1>1. TextInv => WritesWhole /\ AllRead
  BY ArrivesWhole, HeldWhole DEF TextInv
<1>2. QED
  BY <1>1, TextInvariant, PTL

\* Text without '\0' is also given whole by lines: by IoBase::read_line(), and
\* by Cstdio::read_line() if the last line is ended or short.
THEOREM TextComesWhole ==
    ASSUME Nul \notin Chars
    PROVE  IoSpec => []TextWhole
<1>1. TextInv => TextWhole
  BY ArrivesWhole, HeldWhole DEF TextInv, TextWhole
<1>2. QED
  BY <1>1, TextInvariant, PTL
=============================================================================
