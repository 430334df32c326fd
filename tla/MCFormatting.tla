---------------------------- MODULE MCFormatting ----------------------------
(***************************************************************************)
(* Fields of up to five words over a Latin letter, of one byte, and a      *)
(* Cyrillic one, of two ("ya"), blanks doubled and at the ends; the tags   *)
(* are <em> and </em>.                                                     *)
(***************************************************************************)
EXTENDS Formatting

K == <<"k">>
Ya == <<"ya">>
KYa == <<"k", "ya">>

MCLower == [l \in {"K", "k", "ya", ".", Blank} |-> IF l = "K" THEN "k" ELSE l]
MCStem(word) == word

MCTexts ==
    { << >>,
      <<Blank>> \o Ya \o <<Blank, Blank>> \o K \o <<Blank>>,
      <<"K">>,
      Ya \o <<Blank>> \o Ya \o <<Blank>> \o KYa \o <<Blank>> \o Ya \o <<Blank>> \o <<"K">>,
      K \o <<Blank>> \o Ya \o <<Blank>> \o Ya \o <<Blank>> \o Ya \o <<Blank>> \o KYa }

MCMarker == <<".">>
MCTermSets == {{K}, {KYa, K}, {<<"k", "k">>}}
MCWidth == [l \in DOMAIN MCLower \union {"<em>", "</em>"} |->
               CASE l = "ya" -> 2 [] l = "<em>" -> 4 [] l = "</em>" -> 5 [] OTHER -> 1]

=============================================================================
