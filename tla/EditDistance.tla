---------------------------- MODULE EditDistance ----------------------------
(***************************************************************************)
(* levenshtein_distance of fuzzy.cpp, step by step: of the table of        *)
(* distances between the prefixes of a and the prefixes of b the function  *)
(* keeps two rows, fills one from the other and swaps them.                *)
(*                                                                         *)
(* Words are spelled in letters; a letter is the bytes UTF-8 gives it, and *)
(* the function compares bytes.                                            *)
(***************************************************************************)
EXTENDS Levenshtein

CONSTANTS
    Words,      \* the words compared: sequences of bytes
    Letter,     \* the letters they are spelled in: sequences of bytes
    MaxLetters, \* bound on the letters of a word
    MaxEdits    \* bound on fuzzy_max_edits: the handler clamps it to 3

ASSUME WordsAssumption == Words \subseteq Seq(Nat)

Spellings == BoundedSeq(Letter, MaxLetters)
Bytes(spelling) == FlattenSeq(spelling)
Byte == UNION {ToSet(l) : l \in Letter}

VARIABLES
    pc,     \* idle, row (between two rows) or cell (within one)
    a, b,   \* the words compared
    i, j,   \* the prefix of a the next row is for, the cell of that row
    prev, curr, \* the two rows, indexed from 0
    result  \* the value last returned, -1 before the first call

vars == <<pc, a, b, i, j, prev, curr, result>>

Row(n) == [0 .. n -> Nat]

Init ==
    /\ pc = "idle"
    /\ a = << >> /\ b = << >>
    /\ i = 0 /\ j = 0
    /\ prev = [k \in 0 .. 0 |-> 0] /\ curr = [k \in 0 .. 0 |-> 0]
    /\ result = -1

\* One of the words is empty: the length of the other is returned at once.
CallEmpty(x, y) ==
    /\ pc = "idle"
    /\ x = << >> \/ y = << >>
    /\ a' = x /\ b' = y
    /\ result' = IF x = << >> THEN Len(y) ELSE Len(x)
    /\ UNCHANGED <<pc, i, j, prev, curr>>

Call(x, y) ==
    /\ pc = "idle"
    /\ x # << >> /\ y # << >>
    /\ a' = x /\ b' = y
    /\ pc' = "row"
    /\ i' = 1
    /\ prev' = [k \in 0 .. Len(y) |-> k]
    /\ curr' = [k \in 0 .. Len(y) |-> 0]
    /\ UNCHANGED <<j, result>>

\* Mutant: the loop over the rows runs once too often.
BeginRowPastEnd ==
    /\ pc = "row"
    /\ i <= Len(a) + 1
    /\ curr' = [curr EXCEPT ![0] = i]
    /\ j' = 1
    /\ pc' = "cell"
    /\ UNCHANGED <<a, b, i, prev, result>>

BeginRow ==
    /\ pc = "row"
    /\ i <= Len(a)
    /\ curr' = [curr EXCEPT ![0] = i]
    /\ j' = 1
    /\ pc' = "cell"
    /\ UNCHANGED <<a, b, i, prev, result>>

FillCell ==
    /\ pc = "cell"
    /\ j <= Len(b)
    /\ curr' = [curr EXCEPT ![j] =
                   Cell(curr[j - 1], prev[j], prev[j - 1], Cost(a[i], b[j]))]
    /\ j' = j + 1
    /\ UNCHANGED <<pc, a, b, i, prev, result>>

SwapRows ==
    /\ pc = "cell"
    /\ j > Len(b)
    /\ prev' = curr /\ curr' = prev
    /\ i' = i + 1
    /\ pc' = "row"
    /\ UNCHANGED <<a, b, j, result>>

\* Mutant: the answer is read from the row that was swapped out.
ReturnCurr ==
    /\ pc = "row"
    /\ i > Len(a)
    /\ result' = curr[Len(b)]
    /\ pc' = "idle"
    /\ UNCHANGED <<a, b, i, j, prev, curr>>

Return ==
    /\ pc = "row"
    /\ i > Len(a)
    /\ result' = prev[Len(b)]
    /\ pc' = "idle"
    /\ UNCHANGED <<a, b, i, j, prev, curr>>

Work == BeginRow \/ FillCell \/ SwapRows \/ Return
Next == Work \/ \E x, y \in Words : CallEmpty(x, y) \/ Call(x, y)

Spec == Init /\ [][Next]_vars

-----------------------------------------------------------------------------
\* The rows have one cell more than b and no index leaves them: the loops of
\* levenshtein_distance never read beside prev and curr.
TypeOK ==
    /\ pc \in {"idle", "row", "cell"}
    /\ a \in Seq(Nat) /\ b \in Seq(Nat)
    /\ i \in Nat /\ j \in Nat
    /\ result \in Nat \union {-1}
    /\ pc # "idle" =>
        /\ a # << >> /\ b # << >>
        /\ prev \in Row(Len(b)) /\ curr \in Row(Len(b))
        /\ i \in 1 .. Len(a) + 1
    /\ pc = "cell" => i <= Len(a) /\ j \in 1 .. Len(b) + 1

Returned == pc = "idle" /\ result # -1

\* A call answers the value of the recurrence: keeping two rows of the table
\* and swapping them loses nothing (fuzzy.cpp, "two rows").
AnswersRecurrence == Returned => result = Distance(a, b)

\* That value is the fewest insertions, deletions and replacements of a byte
\* that turn one word into the other (README.md:249), for every number of
\* edits a request may allow.
FewestEdits ==
    Returned => \A k \in 0 .. MaxEdits : (result <= k) <=> (b \in Within(a, k, Byte))

\* The length filter of find_similar_terms drops no term within the allowed
\* number of edits.
FilterKeepsSimilar ==
    Returned => \A k \in 0 .. MaxEdits : result <= k => LengthsWithin(a, b, k)

\* A word one letter inserted, deleted or replaced away is within one edit
\* (README.md:249, "edits: insertion, deletion, replacement of a symbol").
LetterIsOneEdit ==
    Returned =>
        \A p, q \in Spellings :
            (Bytes(p) = a /\ Bytes(q) = b /\ q \in OneEdit(p, Letter)) => result <= 1

=============================================================================
