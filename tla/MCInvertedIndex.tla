--------------------------- MODULE MCInvertedIndex ---------------------------
(***************************************************************************)
(* Small instances of InvertedIndex.  Two keys, three terms; among the     *)
(* documents one without any term (stop words only), one that shares no    *)
(* term with the other version of its key, and one that carries a field    *)
(* outside the schema, which docs.dat does not keep.                       *)
(***************************************************************************)
EXTENDS InvertedIndex

MCKey == {1, 2}
MCTerm == {"cat", "dog", "fox"}

MCWordCount ==
    [d \in {"cat1", "catdog1", "catdog1extra", "dogfox2", "empty2"} |->
        CASE d = "cat1" -> [cat |-> 2]
          [] d \in {"catdog1", "catdog1extra"} -> [cat |-> 1, dog |-> 1]
          [] d = "dogfox2" -> [dog |-> 1, fox |-> 1]
          [] d = "empty2" -> << >>]

MCDoc == DOMAIN MCWordCount
MCKeyOf == [d \in MCDoc |-> IF d \in {"dogfox2", "empty2"} THEN 2 ELSE 1]
MCStored == [d \in MCDoc |-> IF d = "catdog1extra" THEN "catdog1" ELSE d]

\* Bulk loads of nothing, of distinct keys, and of a key twice; upserts that
\* replace, insert, and do both within one batch.
MCBatches ==
    { << >>,
      <<"cat1">>,
      <<"empty2">>,
      <<"catdog1extra">>,
      <<"dogfox2", "cat1">>,
      <<"cat1", "dogfox2", "catdog1">> }

=============================================================================
