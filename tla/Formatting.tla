----------------------------- MODULE Formatting -----------------------------
(***************************************************************************)
(* What a search answers of a document it found (highlight.cpp): the       *)
(* fields it was asked to crop, cut to some words around the first match;  *)
(* if it was asked to highlight, all fields with every matching word       *)
(* between Pre and Post, and the snippet, these fields joined and cut to a *)
(* number of bytes.                                                        *)
(***************************************************************************)
EXTENDS Text, Levenshtein

CONSTANTS
    Texts,       \* values of a string field
    MaxFields,   \* bound on the string fields of a document
    TermSets,    \* the terms of a query: sets of keys
    CropLengths, \* crop_length as the handler passes it on
    MaxLengths,  \* snippet_length
    Marker,      \* crop_marker
    Pre, Post    \* the tags, each a symbol that is no letter, with a Width

ASSUME FormattingAssumption ==
    /\ MaxFields \in Nat
    /\ CropLengths \subseteq Nat \ {0} /\ MaxLengths \subseteq Nat \ {0}
    /\ Texts \subseteq Seq(DOMAIN Lower) /\ Blank \in DOMAIN Lower
    /\ Marker \in Seq(DOMAIN Lower)
    /\ {Pre, Post} \cap DOMAIN Lower = {} /\ Pre # Post /\ {Pre, Post} \subseteq DOMAIN Width

VARIABLES
    fields, terms,                      \* a document, and the query's terms
    crop_fields, crop_length, highlight, max_length, \* a request
    formatted, \* the fields answered under _formatted, by number
    snippet    \* [body, cut: BOOLEAN, torn: BOOLEAN]

request == <<crop_fields, crop_length, highlight, max_length>>
vars == <<fields, terms, request, formatted, snippet>>

-----------------------------------------------------------------------------
\* Mutant: a word the text begins with is not seen.
WordStartsAfterBlank(text) ==
    {i \in DOMAIN text : text[i] # Blank /\ i # 1 /\ text[i - 1] = Blank}

WordStarts(text) ==
    {i \in DOMAIN text : text[i] # Blank /\ (i = 1 \/ text[i - 1] = Blank)}
WordEnds(text) ==
    {i \in DOMAIN text : text[i] # Blank /\ (i = Len(text) \/ text[i + 1] = Blank)}

\* highlightInString: tags around every word that matches.
HighlightInString(text, ts) ==
    LET EndOf(i) == CHOOSE e \in WordEnds(text) :
                       e >= i /\ \A k \in WordEnds(text) : k >= i => e <= k
        opened == {i \in WordStarts(text) : WordMatches(SubSeq(text, i, EndOf(i)), ts)}
        closed == {EndOf(i) : i \in opened}
    IN  FlattenSeq([i \in DOMAIN text |->
            (IF i \in opened THEN <<Pre>> ELSE << >>)
                \o <<text[i]>> \o
            (IF i \in closed THEN <<Post>> ELSE << >>)])

\* Texts put side by side with a blank between them.
SideBySide(texts) ==
    FlattenSeq([n \in DOMAIN texts |-> IF n = 1 THEN texts[n] ELSE <<Blank>> \o texts[n]])

\* Mutant: the two alternatives are swapped.
FirstWordSwapped(match, crop) ==
    LET half == crop \div 2 IN IF match - 1 >= half THEN 0 ELSE match - 1

\* The words before the window: half a window is left before the match.
FirstWord(match, crop) ==
    LET half == crop \div 2 IN IF match - 1 >= half THEN match - 1 - half ELSE 0

\* cropField.  The window ends with the text; it is not moved back then (the
\* test in the code that would move it cannot be true).
CropField(text, ts, crop) ==
    LET words == SplitWords(text)
        matches == {n \in DOMAIN words : WordMatches(words[n], ts)}
        match == CHOOSE n \in matches : \A k \in matches : n <= k
        start == FirstWord(match, crop)
        end == Smaller(start + crop, Len(words))
    IN  IF matches = {} THEN text
        ELSE SideBySide((IF start > 0 THEN <<Marker>> ELSE << >>)
                        \o SubSeq(words, start + 1, end)
                        \o (IF end < Len(words) THEN <<Marker>> ELSE << >>))

\* Mutant: the cut is made though the text fits.
FitsTight(full, bytes) == Size(full) < bytes

\* full.size() <= max_length
Fits(full, bytes) == Size(full) <= bytes

\* buildSnippet.  substr cuts between two bytes: what is left are the symbols
\* that lie before the cut, and maybe the first bytes of the next one.
BuildSnippet(texts, ts, bytes) ==
    LET full == SideBySide([n \in DOMAIN texts |-> HighlightInString(texts[n], ts)])
        sizes == [n \in 0 .. Len(full) |-> Size(SubSeq(full, 1, n))]
        whole == CHOOSE n \in DOMAIN sizes :
                    sizes[n] <= bytes /\ \A k \in DOMAIN sizes : sizes[k] <= bytes => k <= n
    IN  IF Fits(full, bytes)
        THEN [body |-> full, cut |-> FALSE, torn |-> FALSE]
        ELSE [body |-> SubSeq(full, 1, whole),
              cut |-> TRUE,
              torn |-> sizes[whole] < bytes /\ full[whole + 1] \notin {Pre, Post}]

-----------------------------------------------------------------------------
Nothing == [body |-> << >>, cut |-> FALSE, torn |-> FALSE]

Init ==
    /\ fields = << >> /\ terms = {}
    /\ crop_fields = {} /\ crop_length = 15 /\ highlight = FALSE /\ max_length = 255
    /\ formatted = << >> /\ snippet = Nothing

\* buildFormattedContent.
FormattedContent(fs, ts, cropping, crop, highlighting) ==
    [n \in IF highlighting THEN DOMAIN fs ELSE cropping |->
        LET text == IF n \in cropping THEN CropField(fs[n], ts, crop) ELSE fs[n]
        IN  IF highlighting THEN HighlightInString(text, ts) ELSE text]

\* One result of a search is formatted, if the request asks for anything of it.
\* Fields without text add nothing to the snippet, not even a blank.
FormatResult(fs, ts, cropping, crop, highlighting, max) ==
    /\ fields = << >>
    /\ fs # << >> /\ ts # {} /\ (highlighting \/ cropping # {})
    /\ fields' = fs /\ terms' = ts
    /\ crop_fields' = cropping /\ crop_length' = crop
    /\ highlight' = highlighting /\ max_length' = max
    /\ formatted' = FormattedContent(fs, ts, cropping, crop, highlighting)
    /\ snippet' = IF highlighting
                  THEN BuildSnippet(OnlyFrom(fs, Texts \ {<< >>}), ts, max)
                  ELSE Nothing

\* It is sent, and the next one taken.
SendResult ==
    /\ fields # << >>
    /\ fields' = << >> /\ terms' = {}
    /\ crop_fields' = {} /\ crop_length' = 15 /\ highlight' = FALSE /\ max_length' = 255
    /\ formatted' = << >> /\ snippet' = Nothing

Next ==
    \/ \E fs \in BoundedSeq(Texts, MaxFields), ts \in TermSets, crop \in CropLengths,
          highlighting \in BOOLEAN, max \in MaxLengths :
          \E cropping \in SUBSET DOMAIN fs :
             FormatResult(fs, ts, cropping, crop, highlighting, max)
    \/ SendResult

Spec == Init /\ [][Next]_vars

-----------------------------------------------------------------------------
Untagged(symbols) == OnlyFrom(symbols, DOMAIN Lower)
MatchesOf(text) == {n \in DOMAIN SplitWords(text) : WordMatches(SplitWords(text)[n], terms)}

\* A cropped field holds the first matching word of the field, in a run of at
\* most crop_length of its words; the words of the marker stand exactly where
\* words are missing; a field without a match is not cropped (README.md:259).
CropAroundMatch ==
    \A n \in crop_fields :
        LET words == SplitWords(fields[n])
            matches == MatchesOf(fields[n])
            shown == SplitWords(Untagged(formatted[n]))
        IN  IF matches = {} THEN formatted[n] = fields[n]
            ELSE \E from, to \in DOMAIN words :
                    /\ \E m \in matches : m \in from .. to /\ \A k \in matches : m <= k
                    /\ to - from < crop_length
                    /\ shown = (IF from > 1 THEN SplitWords(Marker) ELSE << >>)
                                   \o SubSeq(words, from, to)
                                   \o (IF to < Len(words) THEN SplitWords(Marker) ELSE << >>)

Tagged(word, ts) == IF WordMatches(word, ts) THEN <<Pre>> \o word \o <<Post>> ELSE word
AllTagged(words, ts) == [k \in DOMAIN words |-> Tagged(words[k], ts)]

\* Of the words answered of a field, those of the query and no others are
\* highlighted, each between tags of its own and else as it was.  A field that
\* is not cropped is answered letter by letter.  One that is shows the words
\* CropAroundMatch says, all of them highlighted that match, so that a field
\* with a match still shows one: cropping comes first and finds it without tags.
MatchesHighlighted ==
    \A n \in DOMAIN formatted :
        LET words == SplitWords(Untagged(formatted[n]))
        IN  /\ SplitWords(formatted[n]) = IF highlight THEN AllTagged(words, terms) ELSE words
            /\ MatchesOf(fields[n]) # {} => \E k \in DOMAIN words : WordMatches(words[k], terms)
            /\ n \notin crop_fields => Untagged(formatted[n]) = fields[n]

\* The snippet is the highlighted text of the fields, or a beginning of it when
\* that is longer than snippet_length; without its tags it is the fields' text,
\* letter by letter (buildSnippet, README.md:266 and 269).
SnippetWithinLength ==
    highlight =>
    LET texts == OnlyFrom(fields, Texts \ {<< >>})
        full == SideBySide([n \in DOMAIN texts |-> HighlightInString(texts[n], terms)])
    IN  /\ IsPrefix(snippet.body, full)
        /\ Untagged(full) = SideBySide(texts)
        /\ snippet.cut <=> snippet.body # full
        /\ Size(snippet.body) <= max_length

\* A field with enough words is cropped to crop_length of them (README.md:259,
\* "cropped to crop_length words around the first match").
CropIsFull ==
    \A n \in crop_fields :
        (MatchesOf(fields[n]) # {} /\ Len(SplitWords(fields[n])) >= crop_length) =>
            LET shown == SplitWords(Untagged(formatted[n]))
            IN  Len(OnlyFrom(shown, ToSet(shown) \ ToSet(SplitWords(Marker)))) = crop_length

\* The snippet is cut between two characters (README.md:266, its length is one
\* "in characters"); half a character is no UTF-8 and cannot be sent as JSON.
SnippetIsText == ~snippet.torn

=============================================================================
