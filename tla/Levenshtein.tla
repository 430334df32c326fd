----------------------------- MODULE Levenshtein -----------------------------
(***************************************************************************)
(* Edit distances between words, as fuzzy.cpp means them: a word is a      *)
(* sequence of bytes, an edit inserts, deletes or replaces one of them.    *)
(***************************************************************************)
EXTENDS Integers, SequencesExt

Smaller(x, y) == IF x <= y THEN x ELSE y

\* cost: 0 when the two bytes agree.
Cost(x, y) == IF x = y THEN 0 ELSE 1

\* Mutant: a replacement is never free.
CellAlwaysPaid(left, above, diagonal, cost) ==
    Smaller(Smaller(left + 1, above + 1), diagonal + 1)

\* One cell of the table, from its neighbours.
Cell(left, above, diagonal, cost) ==
    Smaller(Smaller(left + 1, above + 1), diagonal + cost)

\* levenshtein_distance by its recurrence, the whole table at once: cell
\* <<i, j>> is for the first i bytes of x and the first j of y.  Module
\* EditDistance has the two rows the code keeps of it.
DistanceTable(x, y) ==
    LET table[c \in (0 .. Len(x)) \X (0 .. Len(y))] ==
            IF c[1] = 0 THEN c[2]
            ELSE IF c[2] = 0 THEN c[1]
            ELSE Cell(table[<<c[1], c[2] - 1>>],
                      table[<<c[1] - 1, c[2]>>],
                      table[<<c[1] - 1, c[2] - 1>>],
                      Cost(x[c[1]], y[c[2]]))
    IN  table

Distance(x, y) == DistanceTable(x, y)[<<Len(x), Len(y)>>]

\* Mutant: terms of the largest length difference allowed are dropped.
LengthsStrictlyWithin(x, y, max_edits) ==
    /\ Len(y) - Len(x) < max_edits
    /\ Len(x) - Len(y) < max_edits

\* The filter that spares find_similar_terms most of the distances.
LengthsWithin(x, y, max_edits) ==
    /\ Len(y) - Len(x) <= max_edits
    /\ Len(x) - Len(y) <= max_edits

\* find_similar_terms over a vocabulary; the order of its answer, which only
\* decides the order of additions, is left out.
SimilarTerms(word, max_edits, vocabulary) ==
    {term \in vocabulary \ {word} :
        LengthsWithin(word, term, max_edits) /\ Distance(word, term) <= max_edits}

-----------------------------------------------------------------------------
\* What the distance should be: the fewest edits, counted by making them.
\* The words one edit over the given symbols away from w, or none.
OneEdit(w, symbols) ==
    {w} \union {RemoveAt(w, i) : i \in DOMAIN w}
        \union {InsertAt(w, i, s) : i \in 1 .. Len(w) + 1, s \in symbols}
        \union {ReplaceAt(w, i, s) : i \in DOMAIN w, s \in symbols}

Within(w, k, symbols) ==
    LET ball[n \in 0 .. k] ==
            IF n = 0 THEN {w} ELSE UNION {OneEdit(v, symbols) : v \in ball[n - 1]}
    IN  ball[k]

=============================================================================
