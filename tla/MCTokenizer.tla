---------------------------- MODULE MCTokenizer -----------------------------
(***************************************************************************)
(* Letters of one to four bytes: Latin A, a, s, the first and the last of  *)
(* the Cyrillic capitals and IO with their small forms, a capital whose    *)
(* small form is longer (U+023A, left as it is), the euro sign, U+1F600,   *)
(* the tab, the blank.  Bytes: letters, parts of letters, an overlong      *)
(* letter (E0 81 81), numbers past the last code point (F4 90 ..).         *)
(***************************************************************************)
EXTENDS Tokenizer

Small == {97, 115, 1072, 1103, 1105, 570, 8364, 128512, 9, 32, 35}

MCLower ==
    [l \in Small \union {65, 1040, 1071, 1025} |->
        CASE l = 65 -> 97 [] l = 1040 -> 1072 [] l = 1071 -> 1103 [] l = 1025 -> 1105
          [] OTHER -> l]

\* A stemmer that takes the final s away, of the word "s" too.
MCStem(w) == IF w # << >> /\ Last(w) = 115 THEN Front(w) ELSE w

\* It is the same in letters and in bytes.
ASSUME StemsInBytes == StemsAs(SeqOf(Letter, 2))

MCTexts ==
    SeqOf({65, 115, 1071, 8364, 32}, 4)
        \union {<<97, l, 32, l, 65>> : l \in DOMAIN MCLower}
        \union {<<128512, 32, 1025, 115, 32, 1105, 32, 1040>>}

MCStopLists ==
    { << >>,
      <<<<35, 97>>, <<9, 97, 115, 32>>>>,            \* a comment; "as" between spaces
      <<<<>>, <<1071, 115>>, <<97, 32, 115>>>> }     \* a blank line; two words on a line

MCRawLines == SeqOf({65, 32, 208, 159, 224, 129, 244, 144}, 5)

=============================================================================
