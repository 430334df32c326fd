-------------------------------- MODULE Text --------------------------------
(***************************************************************************)
(* What the service makes of a text: words, tokens, substrings and the     *)
(* words it highlights (tokenizer.cpp, utils.cpp, highlight.cpp).  A text  *)
(* is a sequence of letters, the blank among them.                         *)
(***************************************************************************)
EXTENDS Listing

CONSTANTS
    Blank,         \* the letter between words
    Width,         \* [letters -> bytes]
    Lower,         \* [letters -> letters]: ToLowerCodepoint
    Stem(_),       \* libstemmer: the stem of a word in lower case, maybe empty
    StopWords,     \* tokens that are dropped
    MaxWordLength  \* longer words, in bytes, are dropped

\* std::string::size, in bytes.
Size(letters) == SumFunction([n \in DOMAIN letters |-> Width[letters[n]]])

\* ToLowerUtf8, letter by letter.
Lowered(text) == [i \in DOMAIN text |-> Lower[text[i]]]

\* text.find(part) != npos.
HasSubstring(text, part) ==
    \E i \in 0 .. Len(text) - Len(part) : SubSeq(text, i + 1, i + Len(part)) = part

\* The runs of letters between blanks, in order.
SplitWords(text) == RunsBetween(text, Blank)

\* The key of a word: its stem, or the word itself when the stem is empty.
Normalized(word) ==
    LET low == Lowered(word) IN IF Stem(low) = << >> THEN low ELSE Stem(low)

\* tokenizeToSequence: long words are passed over, then stop words.
Tokens(text) ==
    LET words == SplitWords(text)
        short == {n \in DOMAIN words : Size(words[n]) <= MaxWordLength}
        kept == {n \in short : Normalized(words[n]) \notin StopWords}
    IN  InOrder([n \in kept |-> Normalized(words[n])], Len(words))

\* tokenize: the tokens with their counts.
WordCount(text) ==
    LET tokens == Tokens(text)
    IN  [t \in ToSet(tokens) |-> Cardinality({n \in DOMAIN tokens : tokens[n] = t})]

\* Mutant: the last place a phrase could be at is not tried.
ContainsPhraseBeforeEnd(doc_terms, phrase) ==
    /\ phrase # << >>
    /\ \E i \in 0 .. Len(doc_terms) - Len(phrase) - 1 :
          SubSeq(doc_terms, i + 1, i + Len(phrase)) = phrase

\* containsPhrase: the phrase is a run of the document's tokens.
ContainsPhrase(doc_terms, phrase) ==
    /\ phrase # << >>
    /\ \E i \in 0 .. Len(doc_terms) - Len(phrase) :
          SubSeq(doc_terms, i + 1, i + Len(phrase)) = phrase

\* wordMatches, the test highlightInString makes of a word too.
WordMatches(word, terms) ==
    Stem(Lowered(word)) # << >> /\ Stem(Lowered(word)) \in terms

=============================================================================
