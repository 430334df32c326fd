--------------------------- MODULE MCEditDistance ---------------------------
(***************************************************************************)
(* Small instances of EditDistance: two Latin letters, of one byte each,   *)
(* and three Cyrillic ones, of two bytes (be, ve and ya; the first two     *)
(* share their lead byte).                                                 *)
(***************************************************************************)
EXTENDS EditDistance

MCWords == {Bytes(p) : p \in Spellings}
MCLatin == {<<97>>, <<98>>}
MCCyrillic == {<<208, 177>>, <<208, 178>>, <<209, 143>>}

=============================================================================
