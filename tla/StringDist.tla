----------------------------- MODULE StringDist ------------------------------
(***************************************************************************)
(* Distances of words (src/forest/string_dist.py), which the bot chooses   *)
(* the command by that a mistyped message means.  A word is a sequence of  *)
(* letters, numbered in the order of their code points.                    *)
(***************************************************************************)
EXTENDS Integers, Sequences, SequencesExt

\* bug: a substitution costs an insertion and a deletion
RowOfTwo(letter, target, i, above) ==
  LET row[j \in 1..(Len(target) + 1)] ==
        IF j = 1 THEN i
        ELSE Min({above[j] + 1, row[j-1] + 1,
                  above[j-1] + IF letter = target[j-1] THEN 0 ELSE 2})
  IN row \o <<>>

\* A row of the matrix, from the one above it and the i-th letter of the source.
\* (\o <<>> changes nothing: TLC computes a row once instead of at each use.)
Row(letter, target, i, above) ==
  LET row[j \in 1..(Len(target) + 1)] ==
        IF j = 1 THEN i
        ELSE Min({above[j] + 1, row[j-1] + 1,
                  above[j-1] + IF letter = target[j-1] THEN 0 ELSE 1})
  IN row \o <<>>

\* matrix[i][j + 1]: the distance of the prefixes of lengths i and j
Matrix(source, target) ==
  LET matrix[i \in 0..Len(source)] ==
        IF i = 0 THEN [j \in 1..(Len(target) + 1) |-> j - 1]
        ELSE Row(source[i], target, i, matrix[i-1])
  IN matrix

Levenshtein(source, target) == Matrix(source, target)[Len(source)][Len(target) + 1]

LongerOf(s, t) == IF Len(s) > Len(t) THEN Len(s) ELSE Len(t)

Before(s, t) ==
  \E n \in 0..(Len(t) - 1) : /\ IsPrefix(SubSeq(t, 1, n), s)
                             /\ n < Len(s) => s[n + 1] < t[n + 1]

\* sorted by normalised distance (fractions compared by their cross products),
\* then by name
Match(word, targets) ==
  CHOOSE c \in targets : \A d \in targets \ {c} :
    LET mine == Levenshtein(word, c) * LongerOf(word, d)
        its == Levenshtein(word, d) * LongerOf(word, c)
    IN mine < its \/ (mine = its /\ Before(c, d))

------------------------------------------------------------------------------
\* The words one edit of a letter away: a deletion, a substitution, an insertion.
Deleted(w, i) == SubSeq(w, 1, i - 1) \o SubSeq(w, i + 1, Len(w))
Substituted(w, i, l) == [w EXCEPT ![i] = l]
Inserted(w, i, l) == SubSeq(w, 1, i) \o <<l>> \o SubSeq(w, i + 1, Len(w))
Edits(w, letters) ==
  {Deleted(w, i) : i \in 1..Len(w)}
    \cup {Substituted(w, i, l) : i \in 1..Len(w), l \in letters}
    \cup {Inserted(w, i, l) : i \in 0..Len(w), l \in letters}
==============================================================================
