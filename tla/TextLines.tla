----------------------------- MODULE TextLines ------------------------------
(* Texts and their lines, by the positions where they end.                 *)
EXTENDS Integers, SequencesExt

CONSTANTS LF, CR    \* line feed and carriage return

HasFeed(text) == \E i \in DOMAIN text : text[i] = LF

FirstFeed(text) == CHOOSE i \in DOMAIN text : text[i] = LF /\ \A j \in 1..(i - 1) : text[j] # LF

\* Where the lines of a text end: at each line feed, and where the text does.
Ends(text) == {i \in DOMAIN text : text[i] = LF \/ i = Len(text)}

\* The lines up to position i.
LinesTo(text, i) == Cardinality({j \in Ends(text) : j <= i})

\* A text cut behind each line feed.
Cut(text) ==
    LET end(k) == CHOOSE i \in Ends(text) : LinesTo(text, i) = k
    IN  [k \in 1..LinesTo(text, Len(text)) |-> SubSeq(text, IF k = 1 THEN 1 ELSE end(k - 1) + 1, end(k))]

\* A line without the LF or the CR and LF at its end.
Stripped(line) ==
    LET n == Len(line)
    IN  IF line[n] # LF THEN line
        ELSE IF n > 1 /\ line[n - 1] = CR THEN SubSeq(line, 1, n - 2) ELSE SubSeq(line, 1, n - 1)

\* The first texts one behind the other, by how many they are; and all of them.
Together(texts) == LET f[n \in 0..Len(texts)] == IF n = 0 THEN <<>> ELSE f[n - 1] \o texts[n] IN f

Concat(texts) == Together(texts)[Len(texts)]
=============================================================================
