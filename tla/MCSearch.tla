------------------------------ MODULE MCSearch ------------------------------
(***************************************************************************)
(* Small collections: words that are parts of each other and one edit from *)
(* each other, an upper-case and an inflected form, a stop word, a word    *)
(* over the length limit, a document without tokens, equal documents;      *)
(* queries that are blank, begin with a byte order mark or have blanks     *)
(* around them.                                                            *)
(***************************************************************************)
EXTENDS Search

Cat == <<"c", "a", "t">>
CatUpper == <<"C", "a", "t">>
Cats == <<"c", "a", "t", "s">>
Cart == <<"c", "a", "r", "t">>
Dog == <<"d", "o", "g">>
At == <<"a", "t">>
Of == <<"o", "f">>
Cattle == <<"c", "a", "t", "t", "l", "e">>

\* Words joined by blanks.
Say(ws) == FoldLeft(LAMBDA text, w : IF text = << >> THEN w ELSE text \o <<Blank>> \o w, << >>, ws)

MCLower == [l \in {"C", "a", "c", "d", "e", "f", "g", "l", "o", "r", "s", "t", Blank, "bom"} |->
               IF l = "C" THEN "c" ELSE l]

MCWidth == [l \in DOMAIN MCLower |-> IF l = "bom" THEN 3 ELSE 1]

\* A stemmer that takes the final s away.
MCStem(word) == IF word # << >> /\ Last(word) = "s" THEN Front(word) ELSE word

MCStopWords == {Of}

MCCorpora ==
    { << >>,
      <<Say(<<Of>>), Say(<<Cattle>>)>>,
      <<Say(<<Cat>>)>>,
      <<Say(<<CatUpper, Dog>>), Say(<<Dog, Of, Cats>>), Say(<<Cart, Cart>>)>>,
      <<Say(<<Dog, Dog>>), Say(<<Cats, Dog>>), Say(<<Dog, Cat>>), Say(<<Of>>)>>,
      <<Say(<<Cart, Dog>>), Say(<<Cart, Cattle>>), Say(<<Dog, Cart, Cat, Dog>>)>> }

MCQueries ==
    {<< >>, Say(<<Cat>>), Say(<<Cats, Dog>>), Say(<<Dog, Of, CatUpper>>), Say(<<At>>),
     Say(<<Dog, Dog>>), Say(<<Cattle>>), Say(<<Cart, Cat, Dog>>),
     <<Blank>>, <<"bom">> \o CatUpper, <<Blank>> \o Say(<<Cattle, Of>>) \o <<Blank>>}

MCModes ==
    [phrase : {FALSE}, partial : BOOLEAN, fuzzy : {TRUE}, max_edits : {0, 1, 5}]
        \union [phrase : BOOLEAN, partial : BOOLEAN, fuzzy : {FALSE}, max_edits : {2}]

MCLimits == {0, 2, 9}

\* 1000 * ln((N - n + 0.5) / (n + 0.5) + 1)
MCLogIdf ==
    <<<< >>, <<693>>, <<980, 470>>, <<1203, 693, 356>>, <<1386, 875, 538, 287>>,
      <<1540, 1029, 693, 441, 241>>>>

=============================================================================
