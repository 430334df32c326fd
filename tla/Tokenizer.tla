----------------------------- MODULE Tokenizer ------------------------------
(***************************************************************************)
(* Words in bytes: the list of stop words is loaded (stop_words.cpp) and a *)
(* text is tokenized with it (tokenizer.cpp), every word put into lower    *)
(* case in its own buffer (ToLowerUtf8 of utils.cpp).  Module Text says    *)
(* what comes of it, in letters; a letter is a Unicode code point here.    *)
(*                                                                         *)
(*   read -> stop_word | token -> read ... -> done                         *)
(*                                                                         *)
(* A text reaches the program as JSON and is valid UTF-8; a line of the    *)
(* stop word file is any bytes.                                            *)
(***************************************************************************)
EXTENDS Listing

CONSTANTS
    Texts,          \* texts to tokenize: sequences of letters
    StopLists,      \* stop words: sequences of texts, one a line
    RawLines,       \* lines that are bytes
    MaxWordLength,  \* longer words, in bytes, are dropped
    Lower,          \* [letters -> letters]: what is documented as lower case
    Stem(_),        \* libstemmer, of a word in letters
    StemBytes(_)    \* libstemmer, of a word in bytes

\* The counts of words are bags.
Counts == INSTANCE BagsExt

Byte == 0 .. 255
CodePoints == {cp \in Nat : cp < 1114112}

VARIABLES
    pc,
    lines,           \* lines with stop words still to be read
    text,            \* bytes still to be tokenized
    word,            \* the word in its buffer
    i, write_pos,    \* bytes of it read and written
    stop_words,      \* the keys that are dropped
    out,             \* the bag of the tokens
    letters, stop_list, \* ghosts: what the program was given, in letters
    original         \* ghost: the word before it was put into lower case

vars == <<pc, lines, text, word, i, write_pos, stop_words, out, letters, stop_list, original>>
given == <<letters, stop_list>>

-----------------------------------------------------------------------------
\* The bytes of the letter that begins with b0, 0 if none does.
Announced(b0) ==
    IF b0 < 128 THEN 1
    ELSE IF b0 < 194 \/ b0 > 244 THEN 0
    ELSE IF b0 < 224 THEN 2
    ELSE IF b0 < 240 THEN 3 ELSE 4

\* DecodeUtf8's result: the length of the letter at the head of p, 0 if there
\* is none.
DecodedLength(p) ==
    LET n == Announced(p[1])
    IN  IF n <= Len(p) /\ \A k \in 2 .. n : p[k] \in 128 .. 191 THEN n ELSE 0

\* DecodeUtf8's out_cp.
CodePoint(p, n) ==
    IF n = 1 THEN p[1]
    ELSE IF n = 2 THEN 64 * (p[1] % 32) + (p[2] % 64)
    ELSE IF n = 3 THEN 4096 * (p[1] % 16) + 64 * (p[2] % 64) + (p[3] % 64)
    ELSE 262144 * (p[1] % 8) + 4096 * (p[2] % 64) + 64 * (p[3] % 64) + (p[4] % 64)

\* Mutant: the last Cyrillic capital is left out.
ToLowerCodepointShort(cp) ==
    IF cp \in 65 .. 90 \/ cp \in 1040 .. 1070 THEN cp + 32
    ELSE IF cp = 1025 THEN 1105 ELSE cp

\* Mutant: one more letter, whose small form has three bytes, not two.
ToLowerCodepointWide(cp) ==
    IF cp \in 65 .. 90 \/ cp \in 1040 .. 1071 THEN cp + 32
    ELSE IF cp = 1025 THEN 1105 ELSE IF cp = 570 THEN 11365 ELSE cp

ToLowerCodepoint(cp) ==
    IF cp \in 65 .. 90 \/ cp \in 1040 .. 1071 THEN cp + 32
    ELSE IF cp = 1025 THEN 1105 ELSE cp

\* EncodeUtf8: what it writes, nothing for a number past the last code point.
EncodeUtf8(cp) ==
    LET Continuation(unit) == 128 + ((cp \div unit) % 64)
    IN  IF cp < 128 THEN <<cp>>
        ELSE IF cp < 2048 THEN <<192 + cp \div 64, Continuation(1)>>
        ELSE IF cp < 65536 THEN <<224 + cp \div 4096, Continuation(64), Continuation(1)>>
        ELSE IF cp < 1114112
        THEN <<240 + cp \div 262144, Continuation(4096), Continuation(64), Continuation(1)>>
        ELSE << >>

\* A text of letters in bytes.
Utf8(symbols) == FlattenSeq([n \in DOMAIN symbols |-> EncodeUtf8(symbols[n])])

InBytes(list) == [n \in DOMAIN list |-> Utf8(list[n])]

\* What the program is given is made of code points, or of bytes.
ASSUME GivenAssumption ==
    /\ DOMAIN Lower \subseteq CodePoints
    /\ Texts \subseteq Seq(DOMAIN Lower)
    /\ \A list \in StopLists : list \in Seq(Seq(DOMAIN Lower))
    /\ RawLines \subseteq Seq(Byte)
    /\ MaxWordLength \in Nat

\* isspace.
Spaces == 9 .. 13 \union {32}

\* trimInPlace.
Trimmed(line) ==
    LET solid == {k \in DOMAIN line : line[k] \notin Spaces}
    IN  IF solid = {} THEN << >> ELSE SubSeq(line, Min(solid), Max(solid))

IsStopWord(line) == Trimmed(line) # << >> /\ Trimmed(line)[1] # 35

-----------------------------------------------------------------------------
Init ==
    /\ pc = "read"
    /\ \/ /\ letters \in Texts /\ stop_list \in StopLists
          /\ lines = InBytes(stop_list)
       \/ letters = << >> /\ stop_list = << >> /\ lines \in {<<raw>> : raw \in RawLines}
    /\ text = Utf8(letters)
    /\ word = << >> /\ original = << >> /\ i = 0 /\ write_pos = 0
    /\ stop_words = {} /\ out = EmptyBag

\* A word is copied to its buffer, to become a stop word or a token.
Take(bytes, use) ==
    /\ word' = bytes /\ original' = bytes
    /\ i' = 0 /\ write_pos' = 0
    /\ pc' = use

\* loadLinesFromFile, the loop over index.stop_words: a blank line and a
\* comment are passed over.
NextLine ==
    /\ pc = "read" /\ lines # << >>
    /\ lines' = Tail(lines)
    /\ IF IsStopWord(Head(lines)) THEN Take(Trimmed(Head(lines)), "stop_word")
       ELSE UNCHANGED <<pc, word, original, i, write_pos>>
    /\ UNCHANGED <<text, stop_words, out, given>>

\* text | std::views::split(' '): an empty word and a long one are passed over.
NextWord ==
    /\ pc = "read" /\ lines = << >> /\ text # << >>
    /\ LET blanks == {k \in DOMAIN text : text[k] = 32}
           end == Min(blanks \union {Len(text) + 1})
           next == SubSeq(text, 1, end - 1)
       IN  /\ text' = SubSeq(text, end + 1, Len(text))
           /\ IF next # << >> /\ Len(next) <= MaxWordLength THEN Take(next, "token")
              ELSE UNCHANGED <<pc, word, original, i, write_pos>>
    /\ UNCHANGED <<lines, stop_words, out, given>>

Rest == SubSeq(word, i + 1, Len(word))

\* Bytes written into the buffer, behind the first at bytes.
Overwritten(buffer, at, bytes) ==
    [k \in DOMAIN buffer |-> IF k \in at + 1 .. at + Len(bytes) THEN bytes[k - at] ELSE buffer[k]]

\* The loop of ToLowerUtf8: the letter at i goes, in lower case, to write_pos
\* of the same buffer; a byte that begins no letter goes there as it is.
LowerLetter ==
    /\ pc \in {"stop_word", "token"} /\ i < Len(word)
    /\ LET n == DecodedLength(Rest)
           bytes == IF n = 0 THEN <<Rest[1]>>
                    ELSE EncodeUtf8(ToLowerCodepoint(CodePoint(Rest, n)))
       IN  /\ word' = Overwritten(word, write_pos, bytes)
           /\ write_pos' = write_pos + Len(bytes)
           /\ i' = i + (IF n = 0 THEN 1 ELSE n)
    /\ UNCHANGED <<pc, lines, text, stop_words, out, given, original>>

\* The word cut to what was written (s.resize), and its stem unless empty.
Lowered == SubSeq(word, 1, write_pos)
Key == IF StemBytes(Lowered) = << >> THEN Lowered ELSE StemBytes(Lowered)

\* addNormalizedStopWord.
AddStopWord ==
    /\ pc = "stop_word" /\ i = Len(word)
    /\ stop_words' = stop_words \union ({Key} \ {<< >>})
    /\ pc' = "read"
    /\ UNCHANGED <<lines, text, word, i, write_pos, out, given, original>>

\* tokenize: ++out[key].
CountToken ==
    /\ pc = "token" /\ i = Len(word)
    /\ out' = IF Key = << >> \/ Key \in stop_words THEN out ELSE Counts!BagAdd(out, Key)
    /\ pc' = "read"
    /\ UNCHANGED <<lines, text, word, i, write_pos, stop_words, given, original>>

Finish ==
    /\ pc = "read" /\ lines = << >> /\ text = << >>
    /\ pc' = "done"
    /\ UNCHANGED <<lines, text, word, i, write_pos, stop_words, out, given, original>>

Next == NextLine \/ NextWord \/ LowerLetter \/ AddStopWord \/ CountToken \/ Finish

Spec == Init /\ [][Next]_vars

-----------------------------------------------------------------------------
InLetters ==
    INSTANCE Text WITH
        Blank <- 32,
        Width <- [l \in DOMAIN Lower |-> Len(EncodeUtf8(l))],
        StopWords <- {}

\* What CountsTheTokens takes for granted of libstemmer, and of the lower case
\* documented: the stem of a word is the same in letters and in bytes; the lower
\* case of every letter is the one ToLowerCodepoint makes (utils.cpp:73-90).
Letter == DOMAIN Lower
LowersAsTheCode ==
    \A l \in Letter : Lower[l] = ToLowerCodepoint(l) /\ Lower[l] \in Letter
StemsAs(words) ==
    \A w \in words : Stem(w) \in Seq(Letter) /\ StemBytes(Utf8(w)) = Utf8(Stem(w))
StemsLetters == StemsAs(Seq(Letter))

\* The letters' keys of the lines with stop words.
StopKeys ==
    {InLetters!Normalized(Trimmed(line)) : line \in {l \in ToSet(stop_list) : IsStopWord(l)}}

\* The tokens counted are those of the text's letters, without the words that
\* have the key of a line of stop words (utils.hpp:13, stop_words.hpp:10): the
\* bytes, the buffer and the separate loading of the stop words do not show.
CountsTheTokens ==
    pc = "done" =>
        LET all == InLetters!Tokens(letters)
            tokens == OnlyFrom(all, ToSet(all) \ StopKeys)
            keys == [n \in DOMAIN tokens |-> Utf8(tokens[n])]
        IN  out = [k \in ToSet(keys) |-> Cardinality({n \in DOMAIN keys : keys[n] = k})]

\* Lower case is written into the buffer it is read from (utils.cpp:129-155):
\* whatever the bytes, the writing stays behind the reading and within the
\* word, and no byte is changed before it has been read.
UnreadBytesKept ==
    /\ write_pos <= i /\ i <= Len(word) /\ Len(word) = Len(original)
    /\ \A k \in i + 1 .. Len(word) : word[k] = original[k]

=============================================================================
