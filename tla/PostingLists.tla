---------------------------- MODULE PostingLists ----------------------------
(***************************************************************************)
(* The data structures of class InvertedIndex and the private helpers that *)
(* edit them.  A dictionary (freq_dictionary_) is a function from the      *)
(* terms it holds to posting lists; a posting list is a sequence of        *)
(* Entry records kept in order of doc_id.  The forward index               *)
(* (doc_term_freqs_) gives every document its bag of terms.                *)
(*                                                                         *)
(* Documents are numbered from 1 here and from 0 in the code.              *)
(***************************************************************************)
EXTENDS Integers, SequencesExt

\* struct Entry: one posting.
Entry(doc_id, count) == [doc_id |-> doc_id, count |-> count]

\* The postings of a term; GetWordCount answers a shared empty list for a
\* term the dictionary does not hold.
GetWordCount(dict, term) ==
    IF term \in DOMAIN dict THEN dict[term] ELSE << >>

\* std::lower_bound on doc_id: the first position whose doc_id is not below.
LowerBound(list, doc_id) ==
    CHOOSE i \in 1 .. Len(list) + 1 :
        /\ \A j \in 1 .. i - 1 : list[j].doc_id < doc_id
        /\ i <= Len(list) => list[i].doc_id >= doc_id

ErasePostingForDoc(list, doc_id) ==
    LET it == LowerBound(list, doc_id)
    IN  IF it <= Len(list) /\ list[it].doc_id = doc_id
        THEN RemoveAt(list, it)
        ELSE list

InsertPostingSorted(list, doc_id, count) ==
    InsertAt(list, LowerBound(list, doc_id), Entry(doc_id, count))

\* A dictionary of its own for one thread: local[word].push_back(entry).
PushPostings(dict, doc_id, bag) ==
    [t \in DOMAIN dict \union DOMAIN bag |->
        IF t \in DOMAIN bag
        THEN Append(GetWordCount(dict, t), Entry(doc_id, bag[t]))
        ELSE dict[t]]

\* The dictionary of the documents of an order, indexed one after the other:
\* bags gives every document its terms.
PushAll(bags, order) ==
    LET dict[n \in 0 .. Len(order)] ==
            IF n = 0 THEN << >> ELSE PushPostings(dict[n - 1], order[n], bags[order[n]])
    IN  dict[Len(order)]

\* Mutant: the lists of the workers are joined and left as they are.
SortListSkipped(list) == list

\* std::ranges::sort(list, {}, &Entry::doc_id): the same postings, rearranged
\* in order of doc_id.
SortList(list) ==
    LET Places == DOMAIN list
        order == CHOOSE p \in Bijection(Places, Places) :
                    \A i, j \in Places : i < j => list[p[i]].doc_id <= list[p[j]].doc_id
    IN  [i \in Places |-> list[order[i]]]

\* Every list of the dictionary sorted.
SortPostings(dict) == [t \in DOMAIN dict |-> SortList(dict[t])]

(***************************************************************************)
(* removeDocumentPostings: every term of the forward index loses its       *)
(* posting of the document, and a term with no posting left its entry.     *)
(***************************************************************************)
DictWithout(dict, forward, doc_id) ==
    LET Left(t) == IF t \in DOMAIN forward[doc_id]
                   THEN ErasePostingForDoc(dict[t], doc_id)
                   ELSE dict[t]
        emptied == {t \in DOMAIN dict \cap DOMAIN forward[doc_id] : Left(t) = << >>}
    IN  [t \in DOMAIN dict \ emptied |-> Left(t)]

\* addDocumentPostings, the dictionary's part.
DictWith(dict, doc_id, bag) ==
    [t \in DOMAIN dict \union DOMAIN bag |->
        IF t \in DOMAIN bag
        THEN InsertPostingSorted(GetWordCount(dict, t), doc_id, bag[t])
        ELSE dict[t]]

(***************************************************************************)
(* rebuildDocTermFreqsAndIdMap, its first loop: the forward index of       *)
(* num_docs documents, read back from the posting lists.                   *)
(***************************************************************************)
PositionsOf(list, doc_id) == {i \in DOMAIN list : list[i].doc_id = doc_id}

ForwardOf(dict, num_docs) ==
    [d \in 1 .. num_docs |->
        [t \in {u \in DOMAIN dict : PositionsOf(dict[u], d) # {}} |->
            MapThenSumSet(LAMBDA i : dict[t][i].count, PositionsOf(dict[t], d))]]

\* Load, when doc_lengths.dat is of no use: lengths summed over the postings.
LengthsOf(dict, num_docs) ==
    [d \in 1 .. num_docs |->
        MapThenSumSet(
            LAMBDA t : MapThenSumSet(LAMBDA i : dict[t][i].count, PositionsOf(dict[t], d)),
            DOMAIN dict)]

=============================================================================
