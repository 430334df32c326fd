------------------------------- MODULE Search -------------------------------
(***************************************************************************)
(* A search over one collection: handleSearch of api_handlers.cpp, class   *)
(* Search and process_one_query of search.cpp.  The collection does not    *)
(* change here; a client asks a query page by page until a page comes back *)
(* short, then may ask another.                                            *)
(*                                                                         *)
(*   idle -> phrase -> answer                    phrase queries            *)
(*   idle -> words (once per word) -> whole -> rank -> answer   the others *)
(*   answer -> more, with the next page to ask for, or end -> idle         *)
(*                                                                         *)
(* The words of a query are taken in any order (they are the keys of an    *)
(* unordered_map).  Scores are BM25's, in integers; dividing them by the   *)
(* largest, which gives the rank in [0, 1], keeps their order and is left  *)
(* out.  Documents are numbered from 1, from 0 in the code.                *)
(***************************************************************************)
EXTENDS Text, PostingLists, Levenshtein

CONSTANTS
    Corpora,   \* the collections searched: sequences of searchable texts
    Queries,   \* texts
    ByteOrderMark, \* a letter
    Modes,     \* [phrase, partial, fuzzy : BOOLEAN, max_edits : Int] of a request
    Limits,    \* page sizes a client asks for
    MaxLimit, MaxOffset, \* api.max_limit and api.max_offset
    LogIdf     \* [N][n_t], the logarithm of bm25_idf in thousandths, for n_t < N

ASSUME LimitAssumption ==
    Limits \subseteq Int /\ MaxLimit \in Nat \ {0} /\ MaxOffset \in Nat

\* Texts are finite, and collections too.
ASSUME TextAssumption ==
    /\ \A texts \in Corpora : IsList(texts) /\ \A d \in DOMAIN texts : IsList(texts[d])
    /\ \A q \in Queries : IsList(q)

ASSUME ModeAssumption ==
    Modes \subseteq [phrase : BOOLEAN, partial : BOOLEAN, fuzzy : BOOLEAN, max_edits : Int]

\* Blanks and the byte order mark have no case.
ASSUME CaseAssumption == Lower[Blank] = Blank /\ Lower[ByteOrderMark] = ByteOrderMark

VARIABLES
    pc,
    docs, index,  \* the texts; their dictionary and lengths
    query, mode, limit, offset, \* the request
    words,        \* query words still to look up
    doc_score,    \* what the documents found have scored
    matched,      \* out_matched_terms
    full_list,    \* the ranking, cut at request_size
    total,        \* out_total
    seen          \* ghost: the pages the client has had of this query, joined

request == <<query, mode, limit, offset>>
collection == <<docs, index>>
vars == <<pc, collection, request, words, doc_score, matched, full_list, total, seen>>

-----------------------------------------------------------------------------
\* The dictionary and the lengths a bulk load makes of the texts.
IndexOf(texts) ==
    [dict |-> PushAll([d \in DOMAIN texts |-> WordCount(texts[d])], [d \in DOMAIN texts |-> d]),
     lengths |-> [d \in DOMAIN texts |-> Len(Tokens(texts[d]))]]

NoRequest == [phrase |-> FALSE, partial |-> TRUE, fuzzy |-> FALSE, max_edits |-> 0]

Init ==
    /\ pc = "idle"
    /\ docs \in Corpora
    /\ index = IndexOf(docs)
    /\ query = << >> /\ mode = NoRequest /\ limit = 1 /\ offset = 0
    /\ words = {} /\ doc_score = << >> /\ matched = {}
    /\ full_list = << >> /\ total = 0 /\ seen = << >>

Vocabulary == DOMAIN index.dict
N == Len(docs)
TotalLength == SumFunction(index.lengths)

\* Mutant: a term that all documents but one hold is thrown away too.
IdfOneLess(num_docs, n_t) == IF n_t + 1 >= num_docs THEN 0 ELSE LogIdf[num_docs][n_t]

\* bm25_idf.
Idf(num_docs, n_t) == IF n_t = 0 \/ n_t >= num_docs THEN 0 ELSE LogIdf[num_docs][n_t]

IdfOf(term) == Idf(N, Len(GetWordCount(index.dict, term)))

\* factor * idf * tf * (k1 + 1) / (tf + k1 * (1 - b + b * doc_len / avgdl)), the
\* factor in hundredths, k1 = 1.2, b = 0.75, avgdl = TotalLength / N.
TermScore(term, entry, factor) ==
    (factor * IdfOf(term) * 22 * entry.count * TotalLength)
        \div ((10 * entry.count + 3) * TotalLength + 9 * index.lengths[entry.doc_id] * N)

\* The documents on the posting list of a term.
IdsOf(term) ==
    LET postings == GetWordCount(index.dict, term)
    IN  [i \in DOMAIN postings |-> postings[i].doc_id]

\* add_postings_to_score, for one document.
Gain(term, factor, d) ==
    LET postings == GetWordCount(index.dict, term)
    IN  SumFunction([i \in PositionsOf(postings, d) |-> TermScore(term, postings[i], factor)])

\* add_postings_to_score, for several terms, each with its factor: [terms ->
\* factors].  A term without idf adds nothing.
AddTerms(factor) ==
    LET telling == {t \in DOMAIN factor : IdfOf(t) > 0}
        Old(d) == IF d \in DOMAIN doc_score THEN doc_score[d] ELSE 0
        found == UNION {ToSet(IdsOf(t)) : t \in telling}
    IN  /\ doc_score' = [d \in DOMAIN doc_score \union found |->
                            Old(d) + SumFunction([t \in telling |-> Gain(t, factor[t], d)])]
        /\ matched' = matched \union telling

PartialMatchFactor == 85
FuzzyFactor(distance) == 100 - 25 * distance

\* request_size: enough of the ranking to cut the page out of it.
RequestSize == Smaller(offset + limit, MaxOffset + MaxLimit)

-----------------------------------------------------------------------------
\* std::clamp
Clamp(value, low, high) == IF value < low THEN low ELSE Smaller(value, high)

\* handleSearch up to the search itself, and the head of process_one_query:
\* nothing is looked up in a collection without documents or without tokens.
Begin(q, m, lim, off) ==
    /\ query' = q
    /\ mode' = [m EXCEPT !.max_edits = Clamp(m.max_edits, 0, 3)]
    /\ limit' = Clamp(lim, 1, MaxLimit)
    /\ offset' = Clamp(off, 0, MaxOffset)
    /\ words' = ToSet(Tokens(q))
    /\ doc_score' = << >> /\ matched' = {}
    /\ full_list' = << >> /\ total' = 0
    /\ pc' = IF m.phrase THEN "phrase"
             ELSE IF N = 0 \/ TotalLength = 0 THEN "answer" ELSE "words"
    /\ UNCHANGED collection

Ask(q, m, lim) == pc = "idle" /\ Begin(q, m, lim, 0) /\ seen' = << >>

\* The client goes on where its last page ended.
AskNextPage == pc = "more" /\ Begin(query, mode, limit, offset + limit) /\ UNCHANGED seen

\* process_phrase_query: the documents on the shortest posting list that are
\* on the others too and hold the tokens in a row, in the order of the list.
PhraseQuery ==
    /\ pc = "phrase"
    /\ LET phrase == Tokens(query)
           shortest == CHOOSE n \in DOMAIN phrase :
                          \A k \in DOMAIN phrase :
                             Len(IdsOf(phrase[n])) <= Len(IdsOf(phrase[k]))
           ids == IdsOf(phrase[shortest])
           holding == {i \in DOMAIN ids :
                         /\ \A n \in DOMAIN phrase : ids[i] \in ToSet(IdsOf(phrase[n]))
                         /\ ContainsPhrase(Tokens(docs[ids[i]]), phrase)}
           found == InOrder(Restrict(ids, holding), Len(ids))
       IN  IF phrase = << >> THEN UNCHANGED <<full_list, total>>
           ELSE /\ total' = Len(found)
                /\ full_list' = SubSeq(found, 1, Smaller(RequestSize, Len(found)))
    /\ pc' = "answer"
    /\ UNCHANGED <<collection, request, words, doc_score, matched, seen>>

Taken(w) ==
    /\ pc = "words" /\ w \in words
    /\ words' = words \ {w}
    /\ UNCHANGED <<pc, collection, request, full_list, total, seen>>

ExactWord(w) ==
    /\ Taken(w)
    /\ w \in Vocabulary
    /\ AddTerms([t \in {w} |-> 100])

\* Terms the word is a part of.
Holders(w) == {t \in Vocabulary : HasSubstring(t, w)}

PartialWord(w) ==
    /\ Taken(w)
    /\ w \notin Vocabulary /\ mode.partial /\ Holders(w) # {}
    /\ AddTerms([t \in Holders(w) |-> PartialMatchFactor])

\* Mutant: the terms found by distance are not told to the highlighter.
OtherWordUntold(w) ==
    /\ Taken(w)
    /\ w \notin Vocabulary /\ (mode.partial => Holders(w) = {})
    /\ LET similar == IF mode.fuzzy THEN SimilarTerms(w, mode.max_edits, Vocabulary) ELSE {}
           found == UNION {ToSet(IdsOf(t)) : t \in {u \in similar : IdfOf(u) > 0}}
       IN  doc_score' = [d \in DOMAIN doc_score \union found |->
                           IF d \in DOMAIN doc_score THEN doc_score[d] ELSE 1]
    /\ UNCHANGED matched

\* Similar terms, when the request asks for them; nothing otherwise.
OtherWord(w) ==
    /\ Taken(w)
    /\ w \notin Vocabulary /\ (mode.partial => Holders(w) = {})
    /\ IF mode.fuzzy /\ mode.max_edits > 0
       THEN AddTerms([t \in SimilarTerms(w, mode.max_edits, Vocabulary) |->
                        FuzzyFactor(Distance(w, t))])
       ELSE UNCHANGED <<doc_score, matched>>

\* Mutant: a query of blanks is trimmed to the empty text, which all texts hold.
WholeQueryTrimmed(text) ==
    LET solid == {i \in DOMAIN text : text[i] # Blank}
        start == IF text[1] = ByteOrderMark THEN 2 ELSE Min(solid \union {Len(text) + 1})
        end == Max(solid \union {start - 1})
    IN  Lowered(SubSeq(text, start, end))

\* The query without blanks at its ends and without a byte order mark, in lower
\* case; as it is when nothing else is left of it.  Behind a mark blanks stay.
WholeQueryText(text) ==
    LET solid == {i \in DOMAIN text : text[i] # Blank}
        start == IF text[1] = ByteOrderMark THEN 2 ELSE Min(solid \union {Len(text) + 1})
        end == Max(solid \union {0})
    IN  IF start <= end THEN Lowered(SubSeq(text, start, end)) ELSE text

\* All words taken.  If nothing was found and parts of words count, the whole
\* query is looked for, in the terms and then in the documents' text.
WholeQuery ==
    /\ pc = "words" /\ words = {}
    /\ LET whole == WholeQueryText(query)
           telling == {t \in Holders(whole) : IdfOf(t) > 0}
           holding == {d \in DOMAIN docs : HasSubstring(Lowered(docs[d]), whole)}
       IN  IF doc_score # << >> \/ ~mode.partial \/ query = << >>
           THEN UNCHANGED <<doc_score, matched>>
           ELSE IF telling # {} THEN AddTerms([t \in telling |-> PartialMatchFactor])
           ELSE /\ doc_score' = [d \in holding |-> PartialMatchFactor]
                /\ matched' = IF holding # {} THEN matched \union {whole} ELSE matched
    /\ pc' = "rank"
    /\ UNCHANGED <<collection, request, words, full_list, total, seen>>

\* Higher scores first, equal ones by doc_id.
Ahead(d, e) == doc_score[d] > doc_score[e] \/ (doc_score[d] = doc_score[e] /\ d < e)

\* Mutant: documents of equal score come in the order of the hash table.
RankAnyTies ==
    /\ pc = "rank"
    /\ \E ranking \in SetToSeqs(DOMAIN doc_score) :
          /\ \A i, k \in DOMAIN ranking : i < k => doc_score[ranking[i]] >= doc_score[ranking[k]]
          /\ total' = Len(ranking)
          /\ full_list' = SubSeq(ranking, 1, Smaller(RequestSize, Len(ranking)))
    /\ pc' = "answer"
    /\ UNCHANGED <<collection, request, words, doc_score, matched, seen>>

Rank ==
    /\ pc = "rank"
    /\ LET Place(d) == 1 + Cardinality({e \in DOMAIN doc_score : Ahead(e, d)})
           ranking == [n \in 1 .. Cardinality(DOMAIN doc_score) |->
                          CHOOSE d \in DOMAIN doc_score : Place(d) = n]
       IN  /\ total' = Len(ranking)
           /\ full_list' = SubSeq(ranking, 1, Smaller(RequestSize, Len(ranking)))
    /\ pc' = "answer"
    /\ UNCHANGED <<collection, request, words, doc_score, matched, seen>>

\* The page: full_list from offset, at most limit documents.  The client goes
\* on while pages come back full, and no further than the largest offset: what
\* it asks for beyond would be clamped back to a page it has had.
Page == SubSeq(full_list, offset + 1, Smaller(offset + limit, Len(full_list)))

Answer ==
    /\ pc = "answer"
    /\ seen' = seen \o Page
    /\ pc' = IF Len(Page) < limit \/ offset + limit > MaxOffset THEN "end" ELSE "more"
    /\ UNCHANGED <<collection, request, words, doc_score, matched, full_list, total>>

\* Nothing of a request outlives it.
Close ==
    /\ pc = "end" /\ pc' = "idle"
    /\ query' = << >> /\ mode' = NoRequest /\ limit' = 1 /\ offset' = 0
    /\ words' = {} /\ doc_score' = << >> /\ matched' = {}
    /\ full_list' = << >> /\ total' = 0 /\ seen' = << >>
    /\ UNCHANGED collection

Step == \/ PhraseQuery
        \/ \E w \in words : ExactWord(w) \/ PartialWord(w) \/ OtherWord(w)
        \/ WholeQuery \/ Rank \/ Answer \/ Close

Next == \/ \E q \in Queries, m \in Modes, lim \in Limits : Ask(q, m, lim)
        \/ AskNextPage
        \/ Step

Spec == Init /\ [][Next]_vars

-----------------------------------------------------------------------------
Answered == pc \in {"end", "more"}
Found == ToSet(full_list)
QueryTokens == ToSet(Tokens(query))
TokensOf(d) == ToSet(Tokens(docs[d]))

\* The pages of a query, asked one after the other, are the whole answer, as
\* many documents as every page's total says, or what the largest offset and a
\* page more let a client have of it: no document twice, none left out
\* (handleSearch, offset and limit; the order must be the same for every
\* request, and request_size long enough for the page).
PagesAreTheAnswer ==
    pc = "end" =>
        /\ Len(seen) = Smaller(offset + limit, total)
        /\ IsInjective(seen)
        /\ ~mode.phrase => /\ ToSet(seen) \subseteq DOMAIN doc_score
                           /\ total <= offset + limit => ToSet(seen) = DOMAIN doc_score

\* A phrase query finds the documents that hold its tokens in a row and no
\* other (README.md:251), though it only looks at the shortest posting list.
PhraseIsExact ==
    (Answered /\ mode.phrase /\ Tokens(query) # << >>) =>
        LET holders == {d \in DOMAIN docs : HasSubstring(Tokens(docs[d]), Tokens(query))}
        IN  Found \subseteq holders /\ total = Cardinality(holders)

\* A document that holds a word of the query is found, unless all documents
\* hold that word; what else the query asks for does not matter.
HeldWordIsFound ==
    (Answered /\ ~mode.phrase) =>
        \A w \in QueryTokens :
            LET holders == {d \in DOMAIN docs : w \in TokensOf(d)}
            IN  holders # DOMAIN docs => holders \subseteq DOMAIN doc_score

\* Without parts of words and similar words, only documents that hold a word of
\* the query are found; with parts of words, only those that hold one as a part
\* of a token, or the whole query, less blanks and a byte order mark around it
\* and never less all of it, as a part of a token or of their text
\* (README.md:247; a token is a stem, and need not be in the text as it is).
FoundHoldsQuery ==
    (Answered /\ ~mode.phrase /\ ~mode.fuzzy) =>
        \A d \in DOMAIN doc_score :
            \/ TokensOf(d) \cap QueryTokens # {}
            \/ /\ mode.partial
               /\ \/ \E t \in TokensOf(d), w \in QueryTokens : HasSubstring(t, w)
                  \/ \E i \in DOMAIN query : \E k \in i .. Len(query) :
                        /\ \A n \in DOMAIN query \ (i .. k) : query[n] \in {Blank, ByteOrderMark}
                        /\ \E t \in TokensOf(d) \union {Lowered(docs[d])} :
                              HasSubstring(t, Lowered(SubSeq(query, i, k)))

\* handleSearch: the terms to highlight.
QueryTerms ==
    IF (mode.partial \/ mode.fuzzy) /\ matched # {} THEN matched ELSE QueryTokens

\* Every document found by terms of the index, and not by the text of the whole
\* query, has a word to highlight (README.md:249: the highlighter is given the
\* terms actually found).
ResultsHighlighted ==
    (Answered /\ matched \subseteq Vocabulary) =>
        \A d \in Found : \E w \in ToSet(SplitWords(docs[d])) : WordMatches(w, QueryTerms)

\* A document that holds a word of the query is found (README.md:247, "to
\* search by exact words only"; ARCHITECTURE.md:65, whose IDF is positive for
\* every term of the collection).
EveryHolderIsFound ==
    (Answered /\ ~mode.phrase) =>
        \A w \in QueryTokens : {d \in DOMAIN docs : w \in TokensOf(d)} \subseteq DOMAIN doc_score

=============================================================================
