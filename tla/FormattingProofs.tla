-------------------------- MODULE FormattingProofs --------------------------
(***************************************************************************)
(* Theorems about what a search answers of a document, for any texts, any  *)
(* terms and any stemmer: a crop holds the first match, of the words of a  *)
(* highlighted field exactly the matching ones stand between tags, and the *)
(* snippet is a beginning of the highlighted text.                         *)
(***************************************************************************)
EXTENDS Formatting, PostingListsProofs

\* Letters s to e of a text are a word: no blank among them, none left out.
WordAt(text, s, e) == RunAt(text, Blank, s, e)
StartOf(text, e) == RunStart(text, Blank, e)
EndOf(text, s) == RunEnd(text, Blank, s)

-----------------------------------------------------------------------------
(***************************************************************************)
(* The words of a text.                                                    *)
(***************************************************************************)
LEMMA WordsApart ==
    ASSUME NEW T, NEW text \in Seq(T), NEW s, NEW e, NEW t, NEW d,
           WordAt(text, s, e), WordAt(text, t, d), t <= e, s <= d
    PROVE  s = t /\ e = d
  BY RunsApart DEF WordAt

LEMMA StartsAndEnds ==
    ASSUME NEW text
    PROVE  WordStarts(text) = RunStarts(text, Blank) /\ WordEnds(text) = RunEnds(text, Blank)
  BY DEF WordStarts, RunStarts, WordEnds, RunEnds

\* Every start and every end is that of one word.
LEMMA WordOf ==
    ASSUME NEW T, NEW text \in Seq(T)
    PROVE  /\ \A s \in WordStarts(text) : WordAt(text, s, EndOf(text, s))
           /\ \A e \in WordEnds(text) : WordAt(text, StartOf(text, e), e)
           /\ \A s, e : WordAt(text, s, e) =>
                 /\ s \in WordStarts(text) /\ e \in WordEnds(text)
                 /\ EndOf(text, s) = e /\ StartOf(text, e) = s
  BY RunOf, StartsAndEnds DEF WordAt, StartOf, EndOf

\* SplitWords lists the words by the letters they end with.
LEMMA SplitByEnds ==
    ASSUME NEW T, NEW text \in Seq(T)
    PROVE  SplitWords(text) =
              InOrder([e \in WordEnds(text) |-> SubSeq(text, StartOf(text, e), e)], Len(text))
  BY RunsByEnds, StartsAndEnds DEF SplitWords, StartOf

\* A text without blanks is a word.
LEMMA OneWord ==
    ASSUME NEW T, NEW w \in Seq(T), w # << >>, \A j \in 1 .. Len(w) : w[j] # Blank
    PROVE  SplitWords(w) = <<w>>
  BY OneRun DEF SplitWords

\* A blank keeps the words before it and those behind it apart.
LEMMA SplitWordsApart ==
    ASSUME NEW T, Blank \in T, NEW text \in Seq(T), NEW w \in Seq(T)
    PROVE  SplitWords(text \o (<<Blank>> \o w)) = SplitWords(text) \o SplitWords(w)
  BY RunsSideBySide DEF SplitWords

LEMMA SideBySideSteps ==
    ASSUME NEW T, Blank \in T, NEW texts \in Seq(Seq(T))
    PROVE  \E f \in [0 .. Len(texts) -> Seq(T)] :
              /\ f[0] = << >> /\ f[Len(texts)] = SideBySide(texts)
              /\ \A k \in 1 .. Len(texts) :
                    f[k] = f[k - 1] \o ((IF k = 1 THEN << >> ELSE <<Blank>>) \o texts[k])
<1> DEFINE parts == [n \in DOMAIN texts |-> IF n = 1 THEN texts[n] ELSE <<Blank>> \o texts[n]]
<1>1. /\ Len(texts) \in Nat /\ DOMAIN texts = 1 .. Len(texts)
      /\ \A n \in 1 .. Len(texts) : texts[n] \in Seq(T)
  BY LenProperties, ElementOfSeq
<1>2. <<Blank>> \in Seq(T) /\ << >> \in Seq(T)
  BY EmptySeq
<1>3. ASSUME NEW n \in 1 .. Len(texts)
      PROVE  /\ parts[n] \in Seq(T)
             /\ parts[n] = (IF n = 1 THEN << >> ELSE <<Blank>>) \o texts[n]
  <2>1. texts[n] \in Seq(T) /\ <<Blank>> \o texts[n] \in Seq(T) /\ << >> \o texts[n] = texts[n]
    BY <1>1, <1>2, ConcatProperties, ConcatEmptySeq
  <2> QED
    BY <1>1, <2>1
<1>4. DOMAIN parts = 1 .. Len(texts)
  BY <1>1
<1>5. parts = [n \in 1 .. Len(texts) |-> parts[n]]
  BY <1>1
<1>6. SideBySide(texts) = FlattenSeq(parts)
  BY DEF SideBySide
<1> HIDE DEF parts
<1>7. parts \in Seq(Seq(T)) /\ Len(parts) = Len(texts)
  <2>1. parts \in [1 .. Len(texts) -> Seq(T)]
    BY <1>3, <1>5
  <2> QED
    BY <1>1, <2>1, FunctionIsSeq
<1>8. PICK f \in [0 .. Len(parts) -> Seq(T)] :
         /\ f[0] = << >> /\ f[Len(parts)] = FlattenSeq(parts)
         /\ \A k \in 1 .. Len(parts) : f[k] = f[k - 1] \o parts[k]
  BY <1>7, FlattenSteps
<1>9. \A k \in 1 .. Len(texts) : f[k] = f[k - 1] \o ((IF k = 1 THEN << >> ELSE <<Blank>>) \o texts[k])
  BY <1>3, <1>7, <1>8
<1> QED
  BY <1>6, <1>7, <1>8, <1>9

\* What is left of texts side by side are their rests side by side.
LEMMA OnlyFromSideBySide ==
    ASSUME NEW T, Blank \in T, NEW texts \in Seq(Seq(T)), NEW S, Blank \in S
    PROVE  OnlyFrom(SideBySide(texts), S) = SideBySide([n \in DOMAIN texts |-> OnlyFrom(texts[n], S)])
<1> DEFINE rests == [n \in DOMAIN texts |-> OnlyFrom(texts[n], S)]
<1>0. /\ rests \in Seq(Seq(T)) /\ Len(rests) = Len(texts)
      /\ \A n \in 1 .. Len(texts) : rests[n] = OnlyFrom(texts[n], S)
  <2>1. Len(texts) \in Nat /\ DOMAIN texts = 1 .. Len(texts) /\ \A n \in 1 .. Len(texts) : texts[n] \in Seq(T)
    BY LenProperties, ElementOfSeq
  <2>2. ASSUME NEW u \in Seq(T) PROVE OnlyFrom(u, S) \in Seq(T)
    <3>1. OnlyFrom(u, S) \in Seq(T \cap S) /\ T \cap S \subseteq T
      BY OnlyFromIsList
    <3> QED
      BY <3>1, SeqMonotonic
  <2>3. rests \in [1 .. Len(texts) -> Seq(T)] /\ \A n \in 1 .. Len(texts) : rests[n] = OnlyFrom(texts[n], S)
    BY <2>1, <2>2
  <2> HIDE DEF rests
  <2> QED
    BY <2>1, <2>3, FunctionIsSeq
<1> HIDE DEF rests
<1>1. PICK f \in [0 .. Len(texts) -> Seq(T)] :
         /\ f[0] = << >> /\ f[Len(texts)] = SideBySide(texts)
         /\ \A k \in 1 .. Len(texts) :
               f[k] = f[k - 1] \o ((IF k = 1 THEN << >> ELSE <<Blank>>) \o texts[k])
  BY SideBySideSteps
<1>2. PICK g \in [0 .. Len(texts) -> Seq(T)] :
         /\ g[0] = << >> /\ g[Len(texts)] = SideBySide(rests)
         /\ \A k \in 1 .. Len(texts) :
               g[k] = g[k - 1] \o ((IF k = 1 THEN << >> ELSE <<Blank>>) \o rests[k])
  <2>1. \E g \in [0 .. Len(rests) -> Seq(T)] :
           /\ g[0] = << >> /\ g[Len(rests)] = SideBySide(rests)
           /\ \A k \in 1 .. Len(rests) :
                 g[k] = g[k - 1] \o ((IF k = 1 THEN << >> ELSE <<Blank>>) \o rests[k])
    BY <1>0, SideBySideSteps
  <2> QED
    BY <1>0, <2>1
<1>3. /\ Len(texts) \in Nat
      /\ \A n \in 1 .. Len(texts) : texts[n] \in Seq(T) /\ rests[n] = OnlyFrom(texts[n], S)
  BY <1>0, LenProperties, ElementOfSeq
<1> DEFINE G == {k \in Nat : k <= Len(texts) => OnlyFrom(f[k], S) = g[k]}
<1>4. 0 \in G
  BY <1>1, <1>2, OnlyFromNothing
<1>5. ASSUME NEW k \in Nat, k \in G PROVE k + 1 \in G
  <2>1. ASSUME k + 1 <= Len(texts) PROVE OnlyFrom(f[k + 1], S) = g[k + 1]
    <3> DEFINE sep == IF k + 1 = 1 THEN << >> ELSE <<Blank>>
               t == texts[k + 1]
               before == f[k]
    <3>1. k <= Len(texts) /\ k + 1 \in 1 .. Len(texts) /\ (k + 1) - 1 = k /\ k \in 0 .. Len(texts)
      BY <1>3, <2>1
    <3>2. OnlyFrom(before, S) = g[k]
      BY <1>5, <3>1
    <3> HIDE DEF G
    <3>3. f[k + 1] = before \o (sep \o t) /\ g[k + 1] = g[k] \o (sep \o OnlyFrom(t, S))
      BY <1>1, <1>2, <1>3, <3>1
    <3>4. before \in Seq(T) /\ t \in Seq(T)
      BY <1>1, <1>3, <3>1
    <3>5. sep \in Seq({Blank}) /\ {Blank} \subseteq S /\ {Blank} \subseteq T
      <4>1. << >> \in Seq({Blank}) /\ <<Blank>> \in Seq({Blank})
        BY EmptySeq
      <4>2. sep = << >> \/ sep = <<Blank>>
        OBVIOUS
      <4> HIDE DEF sep
      <4> QED
        BY <4>1, <4>2
    <3> HIDE DEF sep, t, before
    <3>6. sep \in Seq(T)
      BY <3>5, SeqMonotonic
    <3>9. OnlyFrom(sep, S) = sep
      BY <3>5, OnlyFromAllOrNone
    <3>7. OnlyFrom(sep \o t, S) = OnlyFrom(sep, S) \o OnlyFrom(t, S)
      BY <3>4, <3>6, OnlyFromConcat
    <3>8. OnlyFrom(before \o (sep \o t), S) = OnlyFrom(before, S) \o OnlyFrom(sep \o t, S)
      <4> DEFINE u == sep \o t
      <4>1. u \in Seq(T)
        BY <3>4, <3>6, ConcatProperties
      <4> HIDE DEF u
      <4>2. OnlyFrom(before \o u, S) = OnlyFrom(before, S) \o OnlyFrom(u, S)
        BY <3>4, <4>1, OnlyFromConcat
      <4> QED
        BY <4>2 DEF u
    <3> QED
      BY <3>2, <3>3, <3>7, <3>8, <3>9
  <2> QED
    BY <2>1
<1> HIDE DEF G
<1>6. Len(texts) \in G /\ Len(texts) <= Len(texts)
  <2>1. Len(texts) \in G
    BY <1>3, <1>4, <1>5, FromZero
  <2> QED
    BY <1>3, <2>1
<1> QED
  BY <1>1, <1>2, <1>6 DEF G, rests

-----------------------------------------------------------------------------
(***************************************************************************)
(* A highlighted text, letter by letter and word by word.                 *)
(***************************************************************************)
Openings(text, ts) ==
    {i \in WordStarts(text) : WordMatches(SubSeq(text, i, EndOf(text, i)), ts)}
Closings(text, ts) == {EndOf(text, i) : i \in Openings(text, ts)}

Before(i, text, ts) == IF i \in Openings(text, ts) THEN <<Pre>> ELSE << >>
After(i, text, ts) == IF i \in Closings(text, ts) THEN <<Post>> ELSE << >>

\* The loop of highlightInString, letter by letter.
LEMMA HighlightSteps ==
    ASSUME NEW T, NEW text \in Seq(T), NEW ts, NEW U, T \subseteq U,
           Openings(text, ts) = {} \/ {Pre, Post} \subseteq U
    PROVE  \E f \in [0 .. Len(text) -> Seq(U)] :
              /\ f[0] = << >> /\ f[Len(text)] = HighlightInString(text, ts)
              /\ \A k \in 1 .. Len(text) :
                    /\ Before(k, text, ts) \in Seq(U) /\ After(k, text, ts) \in Seq(U)
                    /\ f[k] = f[k - 1] \o ((Before(k, text, ts) \o <<text[k]>>) \o After(k, text, ts))
<1> DEFINE End(i) == CHOOSE e \in WordEnds(text) :
                        e >= i /\ \A k \in WordEnds(text) : k >= i => e <= k
           opened == {i \in WordStarts(text) : WordMatches(SubSeq(text, i, End(i)), ts)}
           closed == {End(i) : i \in opened}
           parts == [i \in DOMAIN text |->
                        (IF i \in opened THEN <<Pre>> ELSE << >>)
                            \o <<text[i]>> \o
                        (IF i \in closed THEN <<Post>> ELSE << >>)]
           Part(i) == (Before(i, text, ts) \o <<text[i]>>) \o After(i, text, ts)
<1>1. /\ Len(text) \in Nat /\ DOMAIN text = 1 .. Len(text)
      /\ \A i \in 1 .. Len(text) : text[i] \in T
  BY LenProperties, ElementOfSeq
<1>2. ASSUME NEW i \in WordStarts(text) PROVE End(i) = EndOf(text, i)
  <2> DEFINE Ends(e) == e >= i /\ \A k \in WordEnds(text) : k >= i => e <= k
  <2>1. WordAt(text, i, EndOf(text, i)) /\ EndOf(text, i) \in WordEnds(text)
    BY WordOf
  <2>2. /\ EndOf(text, i) \in Nat /\ i \in Nat /\ i <= EndOf(text, i)
        /\ EndOf(text, i) \in 1 .. Len(text) /\ EndOf(text, i) <= Len(text)
    <3>1. EndOf(text, i) \in 1 .. Len(text) /\ i \in 1 .. EndOf(text, i)
      BY <2>1 DEF WordAt, RunAt
    <3> QED
      BY <1>1, <3>1, InInterval
  <2>3. \A k \in i .. EndOf(text, i) : text[k] # Blank
    BY <2>1 DEF WordAt, RunAt
  <2>4. WordEnds(text) \subseteq 1 .. Len(text)
    BY <1>1 DEF WordEnds
  <2>5. ASSUME NEW k \in WordEnds(text), k >= i, k < EndOf(text, i) PROVE FALSE
    <3>1. k \in Nat
      BY <2>4
    <3> DEFINE end == EndOf(text, i)
    <3>4. end \in Nat /\ i \in Nat /\ Len(text) \in Nat /\ end <= Len(text) /\ i <= k /\ k < end
      BY <1>1, <2>2, <2>5
    <3> HIDE DEF end
    <3>5. k + 1 \in i .. end /\ k # Len(text)
      BY ONLY <3>1, <3>4
    <3>2. k + 1 \in i .. EndOf(text, i) /\ k # Len(text)
      BY <3>5 DEF end
    <3>3. text[k + 1] = Blank
      BY <3>2 DEF WordEnds
    <3> QED
      BY <2>3, <3>2, <3>3
  <2>6. \A k \in WordEnds(text) : k >= i => EndOf(text, i) <= k
    <3>1. \A k \in WordEnds(text) : k \in Nat
      BY <2>4
    <3> QED
      BY <2>2, <2>5, <3>1
  <2>7. Ends(EndOf(text, i))
    BY <2>2, <2>6
  <2>8. End(i) \in WordEnds(text) /\ Ends(End(i))
    BY <2>1, <2>7
  <2>9. End(i) \in Nat
    BY <2>4, <2>8
  <2>10. End(i) <= EndOf(text, i) /\ EndOf(text, i) <= End(i)
    BY <2>1, <2>2, <2>6, <2>8
  <2> HIDE DEF End
  <2> QED
    BY <2>2, <2>9, <2>10
<1>3. opened = Openings(text, ts)
  BY <1>2 DEF Openings
<1>4. closed = Closings(text, ts)
  <2> HIDE DEF opened, End
  <2>1. \A i \in Openings(text, ts) : i \in WordStarts(text)
    BY DEF Openings
  <2>2. closed = {End(i) : i \in Openings(text, ts)}
    BY <1>3
  <2>3. \A i \in Openings(text, ts) : End(i) = EndOf(text, i)
    BY <1>2, <2>1
  <2> QED
    BY ONLY <2>2, <2>3 DEF Closings
<1>5. HighlightInString(text, ts) = FlattenSeq(parts)
  BY DEF HighlightInString
<1> HIDE DEF opened, closed, End
<1>6. \A i \in 1 .. Len(text) : parts[i] = Part(i)
  BY <1>1, <1>3, <1>4 DEF Before, After
<1>7. ASSUME NEW i \in 1 .. Len(text)
      PROVE  Before(i, text, ts) \in Seq(U) /\ After(i, text, ts) \in Seq(U) /\ Part(i) \in Seq(U)
  <2>1. << >> \in Seq(U) /\ <<text[i]>> \in Seq(U)
    BY <1>1, EmptySeq
  <2>2. Openings(text, ts) = {} => Closings(text, ts) = {}
    BY DEF Closings
  <2>3. {Pre, Post} \subseteq U => <<Pre>> \in Seq(U) /\ <<Post>> \in Seq(U)
    OBVIOUS
  <2>4. Before(i, text, ts) \in Seq(U) /\ After(i, text, ts) \in Seq(U)
    BY <2>1, <2>2, <2>3 DEF Before, After
  <2>5. Before(i, text, ts) \o <<text[i]>> \in Seq(U)
    BY <2>1, <2>4, ConcatProperties
  <2> QED
    BY <2>4, <2>5, ConcatProperties
<1>8. parts \in [1 .. Len(text) -> Seq(U)]
  <2>1. parts = [i \in 1 .. Len(text) |-> parts[i]]
    BY <1>1
  <2> HIDE DEF parts, Part
  <2> QED
    BY <1>6, <1>7, <2>1
<1> HIDE DEF parts, Part
<1>9. parts \in Seq(Seq(U)) /\ Len(parts) = Len(text)
  BY <1>1, <1>8, FunctionIsSeq
<1>10. PICK f \in [0 .. Len(parts) -> Seq(U)] :
          /\ f[0] = << >> /\ f[Len(parts)] = FlattenSeq(parts)
          /\ \A k \in 1 .. Len(parts) : f[k] = f[k - 1] \o parts[k]
  BY <1>9, FlattenSteps
<1>11. \A k \in 1 .. Len(text) : f[k] = f[k - 1] \o Part(k)
  BY <1>6, <1>9, <1>10
<1> QED
  BY <1>5, <1>7, <1>9, <1>10, <1>11 DEF Part

\* Without its tags a highlighted text is the text.
LEMMA HighlightKeepsLetters ==
    ASSUME NEW T, NEW text \in Seq(T), NEW ts, NEW S, T \subseteq S, {Pre, Post} \cap S = {}
    PROVE  /\ OnlyFrom(HighlightInString(text, ts), S) = text
           /\ Openings(text, ts) = {} => HighlightInString(text, ts) = text
<1>1. /\ Len(text) \in Nat /\ \A i \in 1 .. Len(text) : text[i] \in T
  BY LenProperties, ElementOfSeq
<1> DEFINE P(k) == SubSeq(text, 1, k)
<1>2. P(0) = << >> /\ P(Len(text)) = text
  BY PrefixByPrefix
<1>3. \A k \in Nat : k <= Len(text) => P(k) \in Seq(T)
  BY PrefixByPrefix
<1>4. \A k \in Nat : k + 1 <= Len(text) => P(k + 1) = Append(P(k), text[k + 1])
  BY PrefixByPrefix
<1> HIDE DEF P
<1>5. ASSUME NEW U, T \subseteq U, Openings(text, ts) = {} \/ {Pre, Post} \subseteq U
      PROVE  /\ HighlightInString(text, ts) \in Seq(U)
             /\ OnlyFrom(HighlightInString(text, ts), S) = text
  <2>1. PICK f \in [0 .. Len(text) -> Seq(U)] :
           /\ f[0] = << >> /\ f[Len(text)] = HighlightInString(text, ts)
           /\ \A k \in 1 .. Len(text) :
                 /\ Before(k, text, ts) \in Seq(U) /\ After(k, text, ts) \in Seq(U)
                 /\ f[k] = f[k - 1] \o ((Before(k, text, ts) \o <<text[k]>>) \o After(k, text, ts))
    BY <1>5, HighlightSteps
  <2>6. \A x, y \in Seq(U) : /\ x \o y \in Seq(U)
                              /\ OnlyFrom(x \o y, S) = OnlyFrom(x, S) \o OnlyFrom(y, S)
    BY ConcatProperties, OnlyFromConcat
  <2> DEFINE G == {k \in Nat : k <= Len(text) => OnlyFrom(f[k], S) = P(k)}
  <2>2. 0 \in G
    BY <1>2, <2>1, OnlyFromNothing
  <2>3. ASSUME NEW k \in Nat, k \in G PROVE k + 1 \in G
    <3>1. ASSUME k + 1 <= Len(text) PROVE OnlyFrom(f[k + 1], S) = P(k + 1)
      <4> DEFINE a == Before(k + 1, text, ts)
                 b == <<text[k + 1]>>
                 c == After(k + 1, text, ts)
                 t == f[k]
      <4>1. k <= Len(text) /\ k + 1 \in 1 .. Len(text) /\ (k + 1) - 1 = k /\ k \in 0 .. Len(text)
        BY <1>1, <3>1
      <4>2. OnlyFrom(t, S) = P(k)
        BY <2>3, <4>1
      <4> HIDE DEF G
      <4>3. f[k + 1] = t \o ((a \o b) \o c)
        BY <2>1, <4>1
      <4>13. a \in Seq(U) /\ c \in Seq(U) /\ t \in Seq(U)
        BY <2>1, <4>1
      <4>14. text[k + 1] \in T /\ text[k + 1] \in U
        BY <1>1, <1>5, <4>1
      <4>15. b \in Seq(T) /\ b \in Seq(U)
        BY <4>14
      <4>4. a \in Seq(U) /\ b \in Seq(U) /\ c \in Seq(U) /\ t \in Seq(U)
        BY <4>13, <4>15
      <4>5. a \in Seq({Pre}) /\ b \in Seq(T) /\ c \in Seq({Post})
        <5>1. /\ << >> \in Seq({Pre}) /\ << >> \in Seq({Post})
              /\ <<Pre>> \in Seq({Pre}) /\ <<Post>> \in Seq({Post})
          BY EmptySeq
        <5>2. a \in Seq({Pre}) /\ c \in Seq({Post})
          BY <5>1 DEF Before, After
        <5> QED
          BY <4>15, <5>2
      <4>6. P(k + 1) = P(k) \o b
        <5>1. P(k) \in Seq(T) /\ text[k + 1] \in T /\ P(k + 1) = Append(P(k), text[k + 1])
          BY <1>1, <1>3, <1>4, <3>1, <4>1
        <5> QED
          BY <5>1, AppendIsConcat
      <4> HIDE DEF a, b, c, t
      <4>7. OnlyFrom(a, S) = << >> /\ OnlyFrom(c, S) = << >> /\ OnlyFrom(b, S) = b
        <5>1. {Pre} \cap S = {} /\ {Post} \cap S = {}
          OBVIOUS
        <5>2. OnlyFrom(a, S) = << >>
          BY <4>5, <5>1, OnlyFromAllOrNone
        <5>3. OnlyFrom(c, S) = << >>
          BY <4>5, <5>1, OnlyFromAllOrNone
        <5>4. OnlyFrom(b, S) = b
          BY <4>5, OnlyFromAllOrNone
        <5> QED
          BY <5>2, <5>3, <5>4
      <4> DEFINE ab == a \o b
                 abc == ab \o c
      <4>8. ab \in Seq(U) /\ OnlyFrom(ab, S) = OnlyFrom(a, S) \o OnlyFrom(b, S)
        BY <2>6, <4>4
      <4>9. f[k + 1] = t \o abc
        BY <4>3
      <4> HIDE DEF ab
      <4>10. abc \in Seq(U) /\ OnlyFrom(abc, S) = OnlyFrom(ab, S) \o OnlyFrom(c, S)
        BY <2>6, <4>4, <4>8
      <4> HIDE DEF abc
      <4>11. OnlyFrom(t \o abc, S) = OnlyFrom(t, S) \o OnlyFrom(abc, S)
        BY <2>6, <4>4, <4>10
      <4>12. (<< >> \o b) \o << >> = b
        BY <4>5, ConcatEmptySeq
      <4> QED
        BY <4>2, <4>6, <4>7, <4>8, <4>9, <4>10, <4>11, <4>12
    <3> QED
      BY <3>1
  <2> HIDE DEF G
  <2>4. Len(text) \in G /\ Len(text) <= Len(text) /\ Len(text) \in 0 .. Len(text)
    <3>1. Len(text) \in G
      BY <1>1, <2>2, <2>3, FromZero
    <3> QED
      BY <1>1, <3>1
  <2>5. OnlyFrom(f[Len(text)], S) = P(Len(text))
    BY <2>4 DEF G
  <2> QED
    BY <1>2, <2>1, <2>4, <2>5
<1>6. OnlyFrom(HighlightInString(text, ts), S) = text
  <2>1. T \subseteq T \union {Pre, Post} /\ {Pre, Post} \subseteq T \union {Pre, Post}
    OBVIOUS
  <2> QED
    BY <1>5, <2>1
<1>7. ASSUME Openings(text, ts) = {} PROVE HighlightInString(text, ts) = text
  <2>1. HighlightInString(text, ts) \in Seq(T)
    BY <1>5, <1>7
  <2>2. OnlyFrom(HighlightInString(text, ts), S) = HighlightInString(text, ts)
    BY <2>1, OnlyFromAllOrNone
  <2> QED
    BY <1>6, <2>2
<1> QED
  BY <1>6, <1>7

\* What the loop of highlightInString has written after each letter.
Loops(text, ts, T) ==
    {f \in [0 .. Len(text) -> Seq(T \union {Pre, Post})] :
        /\ f[0] = << >> /\ f[Len(text)] = HighlightInString(text, ts)
        /\ \A k \in 1 .. Len(text) :
              f[k] = f[k - 1] \o ((Before(k, text, ts) \o <<text[k]>>) \o After(k, text, ts))}

\* A blank is copied.
LEMMA LoopAtBlank ==
    ASSUME NEW T, NEW text \in Seq(T), NEW ts, NEW f \in Loops(text, ts, T),
           NEW k \in 1 .. Len(text), text[k] = Blank
    PROVE  f[k] = f[k - 1] \o <<Blank>>
<1>1. k \notin WordStarts(text) /\ k \notin WordEnds(text)
  BY DEF WordStarts, WordEnds
<1>2. k \notin Openings(text, ts)
  BY <1>1 DEF Openings
<1>3. k \notin Closings(text, ts)
  <2>1. \A i \in Openings(text, ts) : EndOf(text, i) \in WordEnds(text)
    BY WordOf DEF Openings
  <2> QED
    BY <1>1, <2>1 DEF Closings
<1>4. Before(k, text, ts) = << >> /\ After(k, text, ts) = << >>
  BY <1>2, <1>3 DEF Before, After
<1>5. <<Blank>> \in Seq({Blank}) /\ (<< >> \o <<Blank>>) \o << >> = <<Blank>>
  <2>1. <<Blank>> \in Seq({Blank})
    OBVIOUS
  <2> QED
    BY <2>1, ConcatEmptySeq
<1> QED
  BY <1>4, <1>5 DEF Loops

\* The tags of the letters of a word are those of the word.
LEMMA TagsOfWord ==
    ASSUME NEW T, NEW text \in Seq(T), NEW ts, NEW s, NEW e, WordAt(text, s, e),
           NEW k \in s .. e
    PROVE  /\ k \in Openings(text, ts) <=> k = s /\ WordMatches(SubSeq(text, s, e), ts)
           /\ k \in Closings(text, ts) <=> k = e /\ WordMatches(SubSeq(text, s, e), ts)
<1>1. Len(text) \in Nat /\ s \in 1 .. e /\ e \in 1 .. Len(text)
  BY LenProperties DEF WordAt, RunAt
<1>2. s \in Nat /\ e \in Nat /\ k \in Nat /\ s <= k /\ k <= e /\ s <= e
  BY <1>1
<1>3. s \in WordStarts(text) /\ e \in WordEnds(text) /\ EndOf(text, s) = e
  BY WordOf
<1>4. ASSUME k \in Openings(text, ts) PROVE k = s /\ WordMatches(SubSeq(text, s, e), ts)
  <2> DEFINE d == EndOf(text, k)
  <2>1. WordAt(text, k, d) /\ WordMatches(SubSeq(text, k, d), ts)
    BY <1>4, WordOf DEF Openings
  <2>2. k \in 1 .. d /\ d \in 1 .. Len(text)
    BY <2>1 DEF WordAt, RunAt
  <2> HIDE DEF d
  <2>3. s <= d
    BY ONLY <1>1, <1>2, <2>2
  <2>4. s = k /\ e = d
    BY <1>2, <2>1, <2>3, WordsApart
  <2> QED
    BY <2>1, <2>4
<1>5. ASSUME k \in Closings(text, ts) PROVE k = e /\ WordMatches(SubSeq(text, s, e), ts)
  <2>1. PICK i \in Openings(text, ts) : k = EndOf(text, i)
    BY <1>5 DEF Closings
  <2>2. WordAt(text, i, k) /\ WordMatches(SubSeq(text, i, k), ts)
    BY <2>1, WordOf DEF Openings
  <2>3. i \in 1 .. k
    BY <2>2 DEF WordAt, RunAt
  <2>4. i <= e
    BY ONLY <1>2, <2>3
  <2>5. s = i /\ e = k
    BY <1>2, <2>2, <2>4, WordsApart
  <2> QED
    BY <2>2, <2>5
<1>6. ASSUME WordMatches(SubSeq(text, s, e), ts)
      PROVE  s \in Openings(text, ts) /\ e \in Closings(text, ts)
  <2>1. s \in Openings(text, ts)
    BY <1>3, <1>6 DEF Openings
  <2> QED
    BY <1>3, <2>1 DEF Closings
<1> QED
  BY <1>4, <1>5, <1>6

\* A word is copied, between tags if it matches.
LEMMA LoopInWord ==
    \A T, ts : \A text \in Seq(T) : \A f \in Loops(text, ts, T) : \A s, e :
       WordAt(text, s, e) => f[e] = f[s - 1] \o Tagged(SubSeq(text, s, e), ts)
<1> SUFFICES ASSUME NEW T, NEW ts, NEW text \in Seq(T), NEW f \in Loops(text, ts, T),
                    NEW s, NEW e, WordAt(text, s, e)
             PROVE  f[e] = f[s - 1] \o Tagged(SubSeq(text, s, e), ts)
  OBVIOUS
<1> DEFINE U == T \union {Pre, Post}
           w == SubSeq(text, s, e)
           A == f[s - 1] \o Before(s, text, ts)
           C == After(e, text, ts)
           P(m) == SubSeq(text, s, s + m)
           Rest(m) == IF s + m = e THEN C ELSE << >>
<1>1. /\ Len(text) \in Nat /\ s \in 1 .. e /\ e \in 1 .. Len(text)
      /\ \A i \in 1 .. Len(text) : text[i] \in T
  BY LenProperties, ElementOfSeq DEF WordAt, RunAt
<1>2. /\ T \subseteq U /\ Pre \in U /\ Post \in U
       /\ f \in [0 .. Len(text) -> Seq(U)]
       /\ \A k \in 1 .. Len(text) :
             f[k] = f[k - 1] \o ((Before(k, text, ts) \o <<text[k]>>) \o After(k, text, ts))
  BY DEF Loops
<1> HIDE DEF U
<1>3. \A k : Before(k, text, ts) \in Seq(U) /\ After(k, text, ts) \in Seq(U)
  <2>1. << >> \in Seq(U) /\ <<Pre>> \in Seq(U) /\ <<Post>> \in Seq(U)
    BY <1>2, EmptySeq
  <2> QED
    BY <2>1 DEF Before, After
<1>4. /\ s \in Nat /\ e \in Nat /\ 1 <= s /\ s <= e /\ e <= Len(text)
      /\ s - 1 \in 0 .. Len(text) /\ e - s \in Nat /\ s + (e - s) = e
      /\ s \in s .. e /\ e \in s .. e
  BY <1>1
<1>5. ASSUME NEW k \in s .. e
      PROVE  /\ k \in 1 .. Len(text) /\ text[k] \in U /\ <<text[k]>> \in Seq(U)
             /\ k # s => Before(k, text, ts) = << >>
             /\ k # e => After(k, text, ts) = << >>
  <2>1. k \in 1 .. Len(text)
    BY <1>4
  <2>2. text[k] \in U
    BY <1>1, <1>2, <2>1
  <2>3. <<text[k]>> \in Seq(U)
    BY <2>2
  <2>4. (k # s => k \notin Openings(text, ts)) /\ (k # e => k \notin Closings(text, ts))
    <3>1. /\ k \in Openings(text, ts) <=> k = s /\ WordMatches(SubSeq(text, s, e), ts)
          /\ k \in Closings(text, ts) <=> k = e /\ WordMatches(SubSeq(text, s, e), ts)
      BY TagsOfWord
    <3> QED
      BY <3>1, Zenon
  <2> HIDE DEF A, C
  <2>5. (k # s => Before(k, text, ts) = << >>) /\ (k # e => After(k, text, ts) = << >>)
    BY <2>4 DEF Before, After
  <2> QED
    BY <2>1, <2>2, <2>3, <2>5
<1>6. A \in Seq(U) /\ C \in Seq(U) /\ f[s - 1] \in Seq(U) /\ Before(s, text, ts) \in Seq(U)
  <2>1. f[s - 1] \in Seq(U) /\ Before(s, text, ts) \in Seq(U) /\ C \in Seq(U)
    BY <1>2, <1>3, <1>4
  <2> QED
    BY <2>1, ConcatProperties
<1>7. \A x, y \in Seq(U) : x \o y \in Seq(U) /\ x \o << >> = x /\ << >> \o x = x
  BY ConcatProperties, ConcatEmptySeq
<1>8. \A x, y, z \in Seq(U) : (x \o y) \o z = x \o (y \o z)
  BY ConcatAssociative
<1>9. << >> \in Seq(U)
  BY EmptySeq
<1>10. ASSUME NEW m \in Nat, s + m <= e
      PROVE  P(m) \in Seq(U) /\ Rest(m) \in Seq(U)
  <2>1. \A i \in s .. s + m : text[i] \in U
    BY <1>4, <1>5, <1>10
  <2>2. s \in Int /\ s + m \in Int
    BY <1>4
  <2>3. P(m) \in Seq(U)
    BY <2>1, <2>2, SubSeqProperties
  <2> QED
    BY <1>6, <1>9, <2>3
<1>11. P(0) = <<text[s]>>
  <2>1. s \in s .. Len(text) /\ s \in 1 .. Len(text) /\ s + 0 = s /\ s - 1 < s /\ s \in Int /\ s - 1 \in Int
    BY <1>4
  <2>2. P(0) = SubSeq(text, s, s - 1) \o <<text[s]>>
    BY <2>1, SubSeqRecursiveSecond
  <2>3. SubSeq(text, s, s - 1) = << >>
    BY <2>1, SubSeqEmpty
  <2> QED
    BY <1>4, <1>5, <1>7, <2>2, <2>3
<1>12. ASSUME NEW m \in Nat, s + (m + 1) <= e
      PROVE  P(m + 1) = P(m) \o <<text[s + (m + 1)]>>
  <2>1. s + (m + 1) \in s .. Len(text) /\ s \in 1 .. Len(text) /\ s + (m + 1) - 1 = s + m
    BY <1>4, <1>12
  <2> QED
    BY <2>1, SubSeqRecursiveSecond
<1> DEFINE G == {m \in Nat : s + m <= e => f[s + m] = (A \o P(m)) \o Rest(m)}
<1> HIDE DEF P
<1>13. 0 \in G
  <2> DEFINE a == Before(s, text, ts)
             x == <<text[s]>>
             c == After(s, text, ts)
             q == f[s - 1]
  <2>1. f[s] = q \o ((a \o x) \o c)
    BY <1>2, <1>4, <1>5
  <2>2. s + 0 = s /\ c = Rest(0)
    BY <1>4, <1>5
  <2>3. a \in Seq(U) /\ x \in Seq(U) /\ c \in Seq(U) /\ q \in Seq(U)
    BY <1>4, <1>5, <1>6, <1>10, <2>2
  <2>4. A = q \o a
    OBVIOUS
  <2> HIDE DEF a, x, c, q, A, Rest
  <2>5. (q \o a) \o x = q \o (a \o x)
    BY <1>8, <2>3
  <2> DEFINE ax == a \o x
  <2>6. A \o x = q \o ax /\ f[s] = q \o (ax \o c)
    BY <2>1, <2>4, <2>5
  <2>10. ax \in Seq(U)
    BY <1>7, <2>3
  <2> HIDE DEF ax
  <2>7. (q \o ax) \o c = q \o (ax \o c)
    BY <1>8, <2>3, <2>10
  <2>8. P(0) = x
    BY <1>11 DEF x
  <2>9. f[s + 0] = (A \o P(0)) \o Rest(0)
    BY <2>2, <2>6, <2>7, <2>8
  <2> QED
    BY <2>9
<1>14. ASSUME NEW m \in Nat, m \in G PROVE m + 1 \in G
  <2>1. ASSUME s + (m + 1) <= e PROVE f[s + (m + 1)] = (A \o P(m + 1)) \o Rest(m + 1)
    <3> DEFINE k == s + (m + 1)
               x == <<text[k]>>
               c == Rest(m + 1)
               ap == A \o P(m)
    <3>1. /\ s + m <= e /\ s + m # e /\ k - 1 = s + m /\ k # s /\ k \in s .. e
      BY <1>4, <2>1
    <3>2. f[s + m] = ap \o << >>
      BY <1>14, <3>1
    <3> HIDE DEF G
    <3>3. P(m) \in Seq(U) /\ c \in Seq(U) /\ x \in Seq(U) /\ A \in Seq(U)
      BY <1>5, <1>6, <1>10, <2>1, <3>1
    <3>4. Before(k, text, ts) = << >> /\ After(k, text, ts) = c
      BY <1>5, <3>1
    <3>5. f[k] = f[k - 1] \o ((<< >> \o x) \o c)
      BY <1>2, <1>5, <3>1, <3>4
    <3>6. P(m + 1) = P(m) \o x
      BY <1>12, <2>1
    <3> HIDE DEF A, x, c, Rest, k
    <3> DEFINE p == P(m)
    <3>11. p \in Seq(U)
      BY <3>3
    <3> HIDE DEF p
    <3>12. (A \o p) \o x = A \o (p \o x)
      BY <1>8, <3>3, <3>11
    <3>14. A \o p \in Seq(U) /\ << >> \o x = x
      BY <1>7, <3>3, <3>11
    <3>7. << >> \o x = x /\ ap \o x = A \o (P(m) \o x)
      BY <3>12, <3>14 DEF p
    <3>13. ap \in Seq(U)
      BY <3>14 DEF p
    <3> HIDE DEF ap
    <3>15. (ap \o x) \o c = ap \o (x \o c)
      BY <1>8, <3>3, <3>13
    <3>8. (ap \o x) \o c = ap \o (x \o c) /\ ap \o << >> = ap
      BY <1>7, <3>13, <3>15
    <3>9. f[k] = ap \o (x \o c)
      BY <3>1, <3>2, <3>5, <3>7, <3>8
    <3>10. f[k] = (A \o P(m + 1)) \o c
      BY <3>6, <3>7, <3>8, <3>9
    <3> QED
      BY <3>10 DEF k, c
  <2> HIDE DEF P, Rest, A
  <2>2. m + 1 \in Nat
    OBVIOUS
  <2> QED
    BY <2>1, <2>2
<1> HIDE DEF G
<1>15. e - s \in G
  BY <1>4, <1>13, <1>14, FromZero
<1>16. f[e] = (A \o w) \o C /\ w \in Seq(U)
  <2>1. P(e - s) = w /\ Rest(e - s) = C
    BY <1>4 DEF P
  <2>2. s + (e - s) <= e
    BY <1>4
  <2> HIDE DEF w, A, C, Rest
  <2> QED
    BY <1>4, <1>10, <1>15, <2>1, <2>2 DEF G
<1> DEFINE q == f[s - 1]
           a == Before(s, text, ts)
<1>17. (a \o w) \o C = Tagged(w, ts)
  <2>1. CASE WordMatches(w, ts)
    <3>1. a = <<Pre>> /\ C = <<Post>>
      BY <1>4, <2>1, TagsOfWord DEF Before, After
    <3> QED
      BY <2>1, <3>1 DEF Tagged
  <2>2. CASE ~WordMatches(w, ts)
    <3>1. a = << >> /\ C = << >>
      BY <1>4, <2>2, TagsOfWord DEF Before, After
    <3>2. (<< >> \o w) \o << >> = w
      <4> HIDE DEF w
      <4> QED
        BY <1>7, <1>16
    <3> QED
      BY <2>2, <3>1, <3>2 DEF Tagged
  <2> QED
    BY <2>1, <2>2
<1>18. A = q \o a /\ q \in Seq(U) /\ a \in Seq(U)
  BY <1>6
<1> HIDE DEF A, C, q, a, w
<1>19. a \o w \in Seq(U) /\ (q \o a) \o w = q \o (a \o w)
  <2>1. a \o w \in Seq(U)
    BY <1>7, <1>16, <1>18
  <2>2. (q \o a) \o w = q \o (a \o w)
    BY <1>8, <1>16, <1>18
  <2> QED
    BY <2>1, <2>2
<1>20. (q \o (a \o w)) \o C = q \o ((a \o w) \o C)
  <2> DEFINE aw == a \o w
  <2>1. aw \in Seq(U)
    BY <1>19
  <2>3. q \in Seq(U) /\ C \in Seq(U)
    BY <1>6, <1>18
  <2> HIDE DEF aw
  <2>2. (q \o aw) \o C = q \o (aw \o C)
    BY <1>8, <2>1, <2>3
  <2> QED
    BY <2>2 DEF aw
<1>21. f[e] = q \o Tagged(w, ts)
  BY <1>16, <1>17, <1>18, <1>19, <1>20
<1> QED
  BY <1>21 DEF q, w

-----------------------------------------------------------------------------
(***************************************************************************)
(* The words of a text and the places they end at.                         *)
(***************************************************************************)
Matches(words, ts) == {n \in DOMAIN words : WordMatches(words[n], ts)}

LEMMA WordsAndEnds ==
    ASSUME NEW T, NEW text \in Seq(T)
    PROVE  /\ SplitWords(text) \in Seq(Seq(T))
           /\ \A n \in 1 .. Len(SplitWords(text)) :
                 /\ SplitWords(text)[n] # << >>
                 /\ \A j \in 1 .. Len(SplitWords(text)[n]) : SplitWords(text)[n][j] # Blank
           /\ \E places \in Bijection(1 .. Len(SplitWords(text)), WordEnds(text)) :
                 \A n \in 1 .. Len(SplitWords(text)) :
                    SplitWords(text)[n] = SubSeq(text, StartOf(text, places[n]), places[n])
<1> DEFINE value == [e \in WordEnds(text) |-> SubSeq(text, StartOf(text, e), e)]
           words == SplitWords(text)
<1>1. /\ Len(text) \in Nat /\ DOMAIN text = 1 .. Len(text)
      /\ \A i \in 1 .. Len(text) : text[i] \in T
  BY LenProperties, ElementOfSeq
<1>2. words = InOrder(value, Len(text)) /\ DOMAIN value = WordEnds(text)
      /\ DOMAIN value \subseteq 1 .. Len(text)
  BY <1>1, SplitByEnds DEF WordEnds
<1>3. ASSUME NEW e \in WordEnds(text)
      PROVE  /\ value[e] \in Seq(T) /\ value[e] # << >>
             /\ \A j \in 1 .. Len(value[e]) : value[e][j] # Blank
  <2> DEFINE s == StartOf(text, e)
             w == SubSeq(text, s, e)
  <2>1. WordAt(text, s, e)
    BY WordOf
  <2>2. s \in 1 .. e /\ e \in 1 .. Len(text) /\ \A k \in s .. e : text[k] # Blank
    BY <2>1 DEF WordAt, RunAt
  <2>3. value[e] = w
    OBVIOUS
  <2> HIDE DEF s, value
  <2>4. e \in Nat /\ s \in Nat /\ 1 <= s /\ s <= e /\ e <= Len(text)
    <3>1. e \in Nat
      BY <1>1, <2>2, InInterval
    <3> QED
      BY <1>1, <2>2, <3>1, InInterval
  <2>5. \A k \in s .. e : k \in 1 .. Len(text)
    BY ONLY <1>1, <2>4
  <2>6. /\ w \in Seq(T) /\ Len(w) = IF s <= e THEN e - s + 1 ELSE 0
        /\ \A j \in 1 .. e - s + 1 : w[j] = text[s + j - 1]
    <3>1. \A k \in s .. e : text[k] \in T
      BY <1>1, <2>5
    <3>2. s \in Int /\ e \in Int
      BY <2>4
    <3> QED
      BY <3>1, <3>2, SubSeqProperties
  <2> HIDE DEF w
  <2>7. e - s + 1 \in Nat \ {0} /\ \A j \in 1 .. e - s + 1 : s + j - 1 \in s .. e
    BY ONLY <2>4
  <2>8. Len(w) = e - s + 1 /\ Len(w) # 0
    BY <2>4, <2>6, <2>7
  <2>9. \A j \in 1 .. Len(w) : w[j] # Blank
    BY <2>2, <2>6, <2>7, <2>8
  <2> QED
    BY <2>3, <2>6, <2>8, <2>9, EmptySeq
<1> HIDE DEF value, words
<1>4. words \in Seq(Seq(T)) /\ \E places : Lists(words, places, value, Len(text))
  BY <1>1, <1>2, <1>3, InOrderLists
<1>5. PICK places : Lists(words, places, value, Len(text))
  BY <1>4
<1>6. /\ Len(words) \in Nat /\ DOMAIN places = 1 .. Len(words) /\ places \in Seq(Nat)
      /\ \A n \in 1 .. Len(words) : places[n] \in WordEnds(text) /\ words[n] = value[places[n]]
  BY <1>2, <1>4, <1>5, LenProperties DEF Lists
<1>7. places \in [1 .. Len(words) -> WordEnds(text)]
  BY <1>6, LenProperties
<1>8. \A i, j \in 1 .. Len(words) : places[i] = places[j] => i = j
  <2> SUFFICES ASSUME NEW i \in 1 .. Len(words), NEW j \in 1 .. Len(words), i # j
               PROVE  places[i] # places[j]
    OBVIOUS
  <2>1. i < j \/ j < i
    BY <1>6
  <2>2. places[i] \in Nat /\ places[j] \in Nat
    BY <1>2, <1>6
  <2>3. places[i] < places[j] \/ places[j] < places[i]
    BY <1>5, <2>1 DEF Lists
  <2> QED
    BY <2>2, <2>3
<1>9. \A e \in WordEnds(text) : \E n \in 1 .. Len(words) : places[n] = e
  <2>1. \A e \in 1 .. Len(text) : e <= Len(text)
    BY <1>1, InInterval
  <2> QED
    BY <1>2, <1>5, <2>1 DEF Lists
<1>10. places \in Bijection(1 .. Len(words), WordEnds(text))
  BY <1>7, <1>8, <1>9 DEF Bijection, Injection, Surjection, IsInjective
<1>11. \A n \in 1 .. Len(words) : words[n] = SubSeq(text, StartOf(text, places[n]), places[n])
  BY <1>6 DEF value
<1>12. \A n \in 1 .. Len(words) : words[n] # << >> /\ \A j \in 1 .. Len(words[n]) : words[n][j] # Blank
  BY <1>3, <1>6
<1>13. \E f \in Bijection(1 .. Len(words), WordEnds(text)) :
          \A n \in 1 .. Len(words) : words[n] = SubSeq(text, StartOf(text, f[n]), f[n])
  BY <1>10, <1>11
<1> QED
  BY <1>4, <1>12, <1>13 DEF words

\* No word is tagged in a text without a match.
LEMMA NothingToTag ==
    ASSUME NEW T, NEW text \in Seq(T), NEW ts, Matches(SplitWords(text), ts) = {}
    PROVE  Openings(text, ts) = {}
<1> DEFINE words == SplitWords(text)
<1>1. PICK places \in Bijection(1 .. Len(words), WordEnds(text)) :
         \A k \in 1 .. Len(words) : words[k] = SubSeq(text, StartOf(text, places[k]), places[k])
  BY WordsAndEnds
<1>2. DOMAIN words = 1 .. Len(words)
  BY WordsAndEnds, LenProperties
<1>3. \A e \in WordEnds(text) : \E k \in 1 .. Len(words) : places[k] = e
  BY <1>1 DEF Bijection, Surjection
<1> SUFFICES ASSUME NEW i \in Openings(text, ts) PROVE FALSE
  OBVIOUS
<1> DEFINE e == EndOf(text, i)
<1>4. WordAt(text, i, e) /\ WordMatches(SubSeq(text, i, e), ts)
  BY WordOf DEF Openings
<1> HIDE DEF e
<1>5. e \in WordEnds(text) /\ StartOf(text, e) = i
  BY <1>4, WordOf
<1>6. PICK k \in 1 .. Len(words) : words[k] = SubSeq(text, i, e)
  BY <1>1, <1>3, <1>5
<1>7. k \in Matches(words, ts)
  BY <1>2, <1>4, <1>6 DEF Matches
<1> QED
  BY <1>7

LEMMA NoWords ==
    SplitWords(<< >>) = << >>
<1>1. Len(<< >>) = 0 /\ << >> \in Seq({})
  BY EmptySeq
<1> QED
  BY <1>1, SplitByEnds, InOrderNext

\* A word between tags is one word.
LEMMA TaggedWord ==
    ASSUME NEW T, NEW w \in Seq(T), w # << >>, \A j \in 1 .. Len(w) : w[j] # Blank,
           NEW ts, Blank \notin {Pre, Post}
    PROVE  /\ Tagged(w, ts) \in Seq(T \union {Pre, Post})
           /\ SplitWords(Tagged(w, ts)) = <<Tagged(w, ts)>>
<1> DEFINE V == (T \union {Pre, Post}) \ {Blank}
           t == Tagged(w, ts)
<1>1. w \in Seq(V)
  <2>1. Len(w) \in Nat /\ w \in [1 .. Len(w) -> T]
    BY LenProperties
  <2>2. w \in [1 .. Len(w) -> V]
    BY <2>1
  <2> QED
    BY <2>1, <2>2, FunctionIsSeq
<1>2. <<Pre>> \in Seq(V) /\ <<Post>> \in Seq(V)
  <2>1. Pre \in V /\ Post \in V
    OBVIOUS
  <2> HIDE DEF V
  <2> QED
    BY <2>1
<1> DEFINE pw == <<Pre>> \o w
<1>3. pw \in Seq(V) /\ pw # << >>
  <2> HIDE DEF V
  <2> QED
    BY <1>1, <1>2, ConcatProperties, ConcatEqualIffEmpty
<1>4. t = (IF WordMatches(w, ts) THEN pw \o <<Post>> ELSE w)
  BY DEF Tagged
<1> HIDE DEF pw, t
<1>5. pw \o <<Post>> \in Seq(V) /\ pw \o <<Post>> # << >>
  <2> HIDE DEF V
  <2> QED
    BY <1>2, <1>3, ConcatProperties, ConcatEqualIffEmpty
<1>6. t \in Seq(V) /\ t # << >>
  BY <1>1, <1>4, <1>5
<1>7. \A j \in 1 .. Len(t) : t[j] # Blank
  <2>1. \A j \in 1 .. Len(t) : t[j] \in V
    BY <1>6, ElementOfSeq
  <2> QED
    BY <2>1
<1>8. t \in Seq(T \union {Pre, Post})
  <2>1. V \subseteq T \union {Pre, Post}
    OBVIOUS
  <2> HIDE DEF V
  <2> QED
    BY <1>6, <2>1, SeqMonotonic
<1>9. SplitWords(t) = <<t>>
  BY <1>6, <1>7, <1>8, OneWord
<1> QED
  BY <1>8, <1>9 DEF t

\* Words are tagged one by one.
LEMMA TaggedOneByOne ==
    \A T, ts : \A words \in Seq(Seq(T)) : \A w \in Seq(T) :
       /\ AllTagged(<< >>, ts) = << >> /\ AllTagged(<<w>>, ts) = <<Tagged(w, ts)>>
       /\ AllTagged(words \o <<w>>, ts) = AllTagged(words, ts) \o <<Tagged(w, ts)>>
<1> SUFFICES ASSUME NEW T, NEW ts, NEW words \in Seq(Seq(T)), NEW w \in Seq(T)
             PROVE  /\ AllTagged(<< >>, ts) = << >> /\ AllTagged(<<w>>, ts) = <<Tagged(w, ts)>>
                    /\ AllTagged(words \o <<w>>, ts) = AllTagged(words, ts) \o <<Tagged(w, ts)>>
  OBVIOUS
<1>1. AllTagged(<< >>, ts) = << >> /\ AllTagged(<<w>>, ts) = <<Tagged(w, ts)>>
  BY DEF AllTagged
<1> DEFINE R == {Tagged(v, ts) : v \in Seq(T)}
           all == AllTagged(words, ts)
           t == Tagged(w, ts)
           longer == words \o <<w>>
           lhs == AllTagged(longer, ts)
           rhs == all \o <<t>>
<1>2. /\ Len(words) \in Nat /\ DOMAIN words = 1 .. Len(words)
      /\ \A i \in 1 .. Len(words) : words[i] \in Seq(T)
  BY LenProperties, ElementOfSeq
<1>3. <<w>> \in Seq(Seq(T)) /\ Len(<<w>>) = 1 /\ <<w>>[1] = w
  OBVIOUS
<1>4. /\ longer \in Seq(Seq(T)) /\ Len(longer) = Len(words) + 1
      /\ \A i \in 1 .. Len(words) + 1 : longer[i] = IF i <= Len(words) THEN words[i] ELSE w
  <2>1. /\ longer \in Seq(Seq(T)) /\ Len(longer) = Len(words) + 1
        /\ \A i \in 1 .. Len(words) + 1 : longer[i] = IF i <= Len(words) THEN words[i] ELSE <<w>>[i - Len(words)]
    BY <1>3, ConcatProperties
  <2>2. \A i \in 1 .. Len(words) + 1 : ~(i <= Len(words)) => i - Len(words) = 1
    BY <1>2
  <2> QED
    BY <1>3, <2>1, <2>2
<1>5. DOMAIN longer = 1 .. Len(words) + 1
  BY <1>4, LenProperties
<1> HIDE DEF longer
<1>6. all \in Seq(R) /\ Len(all) = Len(words) /\ \A i \in 1 .. Len(words) : all[i] = Tagged(words[i], ts)
  <2>1. all = [i \in 1 .. Len(words) |-> Tagged(words[i], ts)]
    BY <1>2 DEF AllTagged
  <2>2. all \in [1 .. Len(words) -> R] /\ \A i \in 1 .. Len(words) : all[i] = Tagged(words[i], ts)
    BY <1>2, <2>1
  <2> HIDE DEF all, R
  <2> QED
    BY <1>2, <2>2, FunctionIsSeq
<1>7. /\ lhs \in Seq(R) /\ Len(lhs) = Len(words) + 1
      /\ \A i \in 1 .. Len(words) + 1 : lhs[i] = IF i <= Len(words) THEN all[i] ELSE t
  <2>1. lhs = [i \in 1 .. Len(words) + 1 |-> Tagged(longer[i], ts)]
    BY <1>5 DEF AllTagged
  <2>2. \A i \in 1 .. Len(words) + 1 : i <= Len(words) => i \in 1 .. Len(words)
    BY <1>2
  <2>3. \A i \in 1 .. Len(words) + 1 : longer[i] \in Seq(T)
    BY <1>2, <1>4, <2>2
  <2>4. lhs \in [1 .. Len(words) + 1 -> R]
    BY <2>1, <2>3
  <2>5. \A i \in 1 .. Len(words) + 1 : lhs[i] = IF i <= Len(words) THEN all[i] ELSE t
    <3> HIDE DEF all, R
    <3> QED
      BY <1>4, <1>6, <2>1, <2>2
  <2>6. Len(words) + 1 \in Nat
    BY <1>2
  <2> HIDE DEF lhs, R, all, t
  <2> QED
    BY <2>4, <2>5, <2>6, FunctionIsSeq
<1>8. <<t>> \in Seq(R) /\ Len(<<t>>) = 1 /\ <<t>>[1] = t
  <2>1. t \in R
    OBVIOUS
  <2> HIDE DEF t, R
  <2> QED
    BY <2>1
<1>9. /\ rhs \in Seq(R) /\ Len(rhs) = Len(words) + 1
      /\ \A i \in 1 .. Len(words) + 1 : rhs[i] = IF i <= Len(words) THEN all[i] ELSE t
  <2> HIDE DEF all, t, R
  <2>1. /\ rhs \in Seq(R) /\ Len(rhs) = Len(words) + 1
        /\ \A i \in 1 .. Len(words) + 1 : rhs[i] = IF i <= Len(words) THEN all[i] ELSE <<t>>[i - Len(words)]
    BY <1>6, <1>8, ConcatProperties
  <2>2. \A i \in 1 .. Len(words) + 1 : ~(i <= Len(words)) => i - Len(words) = 1
    BY <1>2
  <2> QED
    BY <1>8, <2>1, <2>2
<1>10. lhs = rhs
  <2> HIDE DEF lhs, rhs, all, t, R
  <2> QED
    BY <1>7, <1>9, SeqEqual
<1> QED
  BY <1>1, <1>10 DEF longer

\* The words of a highlighted text are those of the text, the matching ones
\* between tags.
LEMMA WordsHighlighted ==
    ASSUME NEW T, Blank \in T, {Pre, Post} \cap T = {}, NEW text \in Seq(T), NEW ts
    PROVE  SplitWords(HighlightInString(text, ts)) = AllTagged(SplitWords(text), ts)
<1> DEFINE U == T \union {Pre, Post}
           P(k) == SubSeq(text, 1, k)
<1>1. T \subseteq U /\ {Pre, Post} \subseteq U /\ Blank \in U /\ Blank \notin {Pre, Post}
  OBVIOUS
<1>2. /\ Len(text) \in Nat /\ DOMAIN text = 1 .. Len(text)
      /\ \A i \in 1 .. Len(text) : text[i] \in T
  BY LenProperties, ElementOfSeq
<1> HIDE DEF U
<1>3. PICK f \in Loops(text, ts, T) : TRUE
  <2>1. PICK f \in [0 .. Len(text) -> Seq(U)] :
           /\ f[0] = << >> /\ f[Len(text)] = HighlightInString(text, ts)
           /\ \A k \in 1 .. Len(text) :
                 /\ Before(k, text, ts) \in Seq(U) /\ After(k, text, ts) \in Seq(U)
                 /\ f[k] = f[k - 1] \o ((Before(k, text, ts) \o <<text[k]>>) \o After(k, text, ts))
    BY <1>1, HighlightSteps
  <2>2. f \in Loops(text, ts, T)
    BY <2>1 DEF Loops, U
  <2> QED
    BY <2>2
<1>4. /\ f[0] = << >> /\ f[Len(text)] = HighlightInString(text, ts)
      /\ \A k \in 0 .. Len(text) : f[k] \in Seq(U)
  BY DEF Loops, U
<1>5. P(0) = << >> /\ P(Len(text)) = text
  BY PrefixByPrefix
<1>6. \A k \in Nat : k <= Len(text) => P(k) \in Seq(T)
  BY PrefixByPrefix
<1>7. \A k \in Nat : k + 1 <= Len(text) => P(k + 1) = P(k) \o <<text[k + 1]>>
  <2> SUFFICES ASSUME NEW k \in Nat, k + 1 <= Len(text) PROVE P(k + 1) = P(k) \o <<text[k + 1]>>
    OBVIOUS
  <2>1. P(k + 1) = Append(P(k), text[k + 1]) /\ text[k + 1] \in T
    BY PrefixByPrefix
  <2>2. P(k) \in Seq(T)
    BY <1>2, <1>6
  <2> HIDE DEF P
  <2> QED
    BY <2>1, <2>2, AppendIsConcat
<1>8. ASSUME NEW s \in 1 .. Len(text), NEW e \in s .. Len(text)
      PROVE  P(e) = P(s - 1) \o SubSeq(text, s, e)
  <2>1. 1 \in 1 .. Len(text) + 1 /\ s - 1 \in 1 - 1 .. Len(text) /\ e \in s - 1 .. Len(text) /\ (s - 1) + 1 = s
    BY <1>2
  <2> QED
    BY <2>1, ConcatAdjacentSubSeq
<1>9. ASSUME NEW k \in 1 .. Len(text), text[k] = Blank
       PROVE  /\ f[k] = f[k - 1] \o <<Blank>> /\ P(k) = P(k - 1) \o <<Blank>>
              /\ k - 1 \in 0 .. Len(text) /\ (k - 1) + 1 = k
  <2> DEFINE i == k - 1
  <2>1. i \in Nat /\ i + 1 = k /\ k <= Len(text) /\ i \in 0 .. Len(text)
    BY <1>2
  <2>2. f[k] = f[k - 1] \o <<Blank>>
    BY <1>9, LoopAtBlank
  <2> HIDE DEF P, i
  <2>3. P(i + 1) = P(i) \o <<text[i + 1]>>
    BY <1>7, <2>1
  <2>4. P(k) = P(i) \o <<Blank>>
    BY <1>9, <2>1, <2>3
  <2> QED
    BY <2>1, <2>2, <2>4 DEF i
<1>10. \A s, e : WordAt(text, s, e) => f[e] = f[s - 1] \o Tagged(SubSeq(text, s, e), ts)
  BY LoopInWord, Zenon
<1>11. ASSUME NEW u \in Seq(U), NEW w \in Seq(U)
       PROVE  /\ SplitWords(u \o (<<Blank>> \o w)) = SplitWords(u) \o SplitWords(w)
              /\ (u \o <<Blank>>) \o w = u \o (<<Blank>> \o w)
  <2>1. <<Blank>> \in Seq(U)
    BY <1>1
  <2>2. SplitWords(u \o (<<Blank>> \o w)) = SplitWords(u) \o SplitWords(w)
    BY <1>1, SplitWordsApart
  <2>3. (u \o <<Blank>>) \o w = u \o (<<Blank>> \o w)
    BY <2>1, ConcatAssociative
  <2> QED
    BY <2>2, <2>3
<1>12. ASSUME NEW u \in Seq(T), NEW w \in Seq(T)
       PROVE  /\ SplitWords(u \o (<<Blank>> \o w)) = SplitWords(u) \o SplitWords(w)
              /\ (u \o <<Blank>>) \o w = u \o (<<Blank>> \o w)
  <2>1. <<Blank>> \in Seq(T)
    OBVIOUS
  <2>2. SplitWords(u \o (<<Blank>> \o w)) = SplitWords(u) \o SplitWords(w)
    BY SplitWordsApart
  <2>3. (u \o <<Blank>>) \o w = u \o (<<Blank>> \o w)
    BY <2>1, ConcatAssociative
  <2> QED
    BY <2>2, <2>3
<1>13. ASSUME NEW words \in Seq(Seq(T)), NEW w \in Seq(T)
       PROVE  AllTagged(words \o <<w>>, ts) = AllTagged(words, ts) \o <<Tagged(w, ts)>>
  BY TaggedOneByOne
<1> HIDE DEF P
<1> DEFINE Holds(k) == k = Len(text) \/ text[k + 1] = Blank =>
                          SplitWords(f[k]) = AllTagged(SplitWords(P(k)), ts)
           G == {n \in Nat : n <= Len(text) => \A k \in 0 .. n : Holds(k)}
<1>14. Holds(0)
  BY <1>4, <1>5, NoWords, TaggedOneByOne, EmptySeq
<1>15. ASSUME NEW k \in 1 .. Len(text), text[k] = Blank, Holds(k - 1) PROVE Holds(k)
  <2>1. k - 1 \in Nat /\ (k - 1) + 1 = k /\ k <= Len(text) /\ k - 1 <= Len(text) /\ k - 1 \in 0 .. Len(text)
    BY <1>2
  <2>2. SplitWords(f[k - 1]) = AllTagged(SplitWords(P(k - 1)), ts)
    BY <1>15, <2>1
  <2> HIDE DEF Holds
  <2>3. f[k] = f[k - 1] \o <<Blank>> /\ P(k) = P(k - 1) \o <<Blank>>
    BY <1>9, <1>15
  <2>4. f[k - 1] \in Seq(U) /\ P(k - 1) \in Seq(T) /\ << >> \in Seq(U) /\ << >> \in Seq(T)
    BY <1>4, <1>6, <2>1, EmptySeq
  <2>5. <<Blank>> \o << >> = <<Blank>>
    <3>1. <<Blank>> \in Seq({Blank})
      OBVIOUS
    <3> QED
      BY <3>1, ConcatEmptySeq
  <2>6. SplitWords(f[k]) = SplitWords(f[k - 1]) \o << >>
    <3>1. SplitWords(f[k - 1] \o (<<Blank>> \o << >>)) = SplitWords(f[k - 1]) \o SplitWords(<< >>)
      BY <1>11, <2>4
    <3> QED
      BY <2>3, <2>5, <3>1, NoWords
  <2>7. SplitWords(P(k)) = SplitWords(P(k - 1)) \o << >>
    <3>1. SplitWords(P(k - 1) \o (<<Blank>> \o << >>)) = SplitWords(P(k - 1)) \o SplitWords(<< >>)
      BY <1>12, <2>4
    <3> QED
      BY <2>3, <2>5, <3>1, NoWords
  <2>8. SplitWords(f[k - 1]) \in Seq(Seq(U)) /\ SplitWords(P(k - 1)) \in Seq(Seq(T))
    BY <2>4, WordsAndEnds
  <2>9. SplitWords(f[k]) = SplitWords(f[k - 1]) /\ SplitWords(P(k)) = SplitWords(P(k - 1))
    BY <2>6, <2>7, <2>8, ConcatEmptySeq
  <2> QED
    BY <2>2, <2>9 DEF Holds
<1>16. ASSUME NEW s, NEW e, WordAt(text, s, e), s > 1 => Holds(s - 2) PROVE Holds(e)
  <2> DEFINE w == SubSeq(text, s, e)
             t == Tagged(w, ts)
  <2>1. /\ s \in 1 .. e /\ e \in 1 .. Len(text)
        /\ s = 1 \/ text[s - 1] = Blank
        /\ \A k \in s .. e : text[k] # Blank
    BY <1>16 DEF WordAt, RunAt
  <2>2. /\ s \in Nat /\ e \in Nat /\ 1 <= s /\ s <= e /\ e <= Len(text)
        /\ s \in 1 .. Len(text) /\ e \in s .. Len(text) /\ s - 1 \in 0 .. Len(text) /\ s - 1 \in Nat
    BY <1>2, <2>1
  <2>3. f[e] = f[s - 1] \o t /\ P(e) = P(s - 1) \o w
    BY <1>8, <1>10, <1>16, <2>2
  <2>4. w \in Seq(T) /\ w # << >> /\ \A j \in 1 .. Len(w) : w[j] # Blank
    <3>1. \A k \in s .. e : text[k] \in T
      BY <1>2, <2>2
    <3>2. s \in Int /\ e \in Int
      BY <2>2
    <3>3. /\ w \in Seq(T) /\ Len(w) = IF s <= e THEN e - s + 1 ELSE 0
          /\ \A j \in 1 .. e - s + 1 : w[j] = text[s + j - 1]
      BY <3>1, <3>2, SubSeqProperties
    <3> HIDE DEF w
    <3>4. e - s + 1 \in Nat \ {0} /\ \A j \in 1 .. e - s + 1 : s + j - 1 \in s .. e
      BY ONLY <2>2
    <3>5. Len(w) = e - s + 1 /\ Len(w) # 0
      BY <2>2, <3>3, <3>4
    <3> QED
      BY <2>1, <3>3, <3>4, <3>5, EmptySeq
  <2> HIDE DEF w, Holds
  <2>5. t \in Seq(U) /\ SplitWords(t) = <<t>> /\ SplitWords(w) = <<w>>
    BY <1>1, <2>4, TaggedWord, OneWord DEF U
  <2>6. CASE s = 1
    <3>1. s - 1 = 0
      BY <2>6
    <3>2. f[e] = t /\ P(e) = w
      <4>1. f[e] = << >> \o t /\ P(e) = << >> \o w
        BY <1>4, <1>5, <2>3, <3>1
      <4> HIDE DEF t
      <4> QED
        BY <2>4, <2>5, <4>1, ConcatEmptySeq
    <3>3. AllTagged(<<w>>, ts) = <<t>>
      <4>1. << >> \in Seq(Seq(T))
        BY EmptySeq
      <4> HIDE DEF t
      <4> QED
        BY <2>4, <4>1, TaggedOneByOne DEF t
    <3> QED
      BY <2>5, <3>2, <3>3 DEF Holds
  <2>7. CASE s # 1
    <3> DEFINE q == f[s - 2]
               p == P(s - 2)
    <3>1. /\ s > 1 /\ s - 2 \in Nat /\ s - 2 \in 0 .. Len(text) /\ (s - 2) + 1 = s - 1 /\ s - 1 \in 1 .. Len(text)
          /\ s - 1 <= Len(text) /\ s - 2 <= Len(text) /\ (s - 1) - 1 = s - 2 /\ text[s - 1] = Blank
      BY <1>2, <2>1, <2>2, <2>7
    <3>2. SplitWords(q) = AllTagged(SplitWords(p), ts)
      BY <1>16, <3>1 DEF Holds
    <3>3. f[s - 1] = q \o <<Blank>> /\ P(s - 1) = p \o <<Blank>>
      BY <1>9, <3>1
    <3>4. q \in Seq(U) /\ p \in Seq(T)
      BY <1>4, <1>6, <3>1
    <3> HIDE DEF q, p, t
    <3>6. f[e] = q \o (<<Blank>> \o t) /\ P(e) = p \o (<<Blank>> \o w)
      <4>1. (q \o <<Blank>>) \o t = q \o (<<Blank>> \o t)
        BY <1>11, <2>5, <3>4
      <4>2. (p \o <<Blank>>) \o w = p \o (<<Blank>> \o w)
        BY <1>12, <2>4, <3>4
      <4> QED
        BY <2>3, <3>3, <4>1, <4>2
    <3>7. SplitWords(f[e]) = SplitWords(q) \o <<t>>
      BY <1>11, <2>5, <3>4, <3>6
    <3>8. SplitWords(P(e)) = SplitWords(p) \o <<w>>
      <4>1. SplitWords(p \o (<<Blank>> \o w)) = SplitWords(p) \o SplitWords(w)
        BY <1>12, <2>4, <3>4
      <4> QED
        BY <2>5, <3>6, <4>1
    <3>9. AllTagged(SplitWords(p) \o <<w>>, ts) = AllTagged(SplitWords(p), ts) \o <<t>>
      <4> DEFINE words == SplitWords(p)
      <4>1. words \in Seq(Seq(T))
        BY <3>4, WordsAndEnds
      <4> HIDE DEF words
      <4>3. w \in Seq(T)
        BY <2>4
      <4>2. AllTagged(words \o <<w>>, ts) = AllTagged(words, ts) \o <<Tagged(w, ts)>>
        BY <1>13, <4>1, <4>3
      <4> QED
        BY <4>2 DEF t, words
    <3> QED
      BY <3>2, <3>7, <3>8, <3>9 DEF Holds
  <2> QED
    BY <2>6, <2>7
<1>17. 0 \in G
  BY <1>14
<1>18. ASSUME NEW n \in Nat, n \in G PROVE n + 1 \in G
  <2>1. ASSUME n + 1 <= Len(text) PROVE \A k \in 0 .. n + 1 : Holds(k)
    <3> DEFINE e == n + 1
    <3>1. /\ n <= Len(text) /\ e \in 1 .. Len(text) /\ e - 1 = n /\ n \in 0 .. n
          /\ \A k \in 0 .. n + 1 : k \in 0 .. n \/ k = e
      BY <1>2, <2>1
    <3>2. \A k \in 0 .. n : Holds(k)
      BY <1>18, <3>1
    <3> HIDE DEF G, Holds
    <3>3. CASE text[e] = Blank
      BY <1>15, <3>1, <3>2, <3>3
    <3>4. CASE text[e] # Blank /\ (e = Len(text) \/ text[e + 1] = Blank)
      <4> DEFINE s == StartOf(text, e)
      <4>1. e \in WordEnds(text)
        BY <1>2, <3>1, <3>4 DEF WordEnds
      <4>2. WordAt(text, s, e)
        BY <4>1, WordOf
      <4>3. s \in 1 .. e
        BY <4>2 DEF WordAt, RunAt
      <4> HIDE DEF s
      <4>4. s > 1 => s - 2 \in 0 .. n
        BY <4>3
      <4> HIDE DEF e
      <4>5. Holds(e)
        BY <1>16, <3>2, <4>2, <4>4
      <4> QED
        BY <3>1, <3>2, <4>5
    <3>5. CASE ~(e = Len(text) \/ text[e + 1] = Blank)
      BY <3>1, <3>2, <3>5 DEF Holds
    <3> QED
      BY <3>1, <3>2, <3>3, <3>4, <3>5
  <2> QED
    BY <2>1
<1> HIDE DEF G, Holds
<1>19. Len(text) \in G /\ Len(text) \in 0 .. Len(text) /\ Len(text) <= Len(text)
  <2>1. Len(text) \in G
    BY <1>2, <1>17, <1>18, FromZero
  <2> QED
    BY <1>2, <2>1
<1>20. Holds(Len(text))
  BY <1>19 DEF G
<1> QED
  BY <1>4, <1>5, <1>20 DEF Holds

-----------------------------------------------------------------------------
(***************************************************************************)
(* The words of texts put side by side.                                    *)
(***************************************************************************)
\* The words of texts, one text after the other.
WordsOf(texts) == FlattenSeq([n \in DOMAIN texts |-> SplitWords(texts[n])])

LEMMA WordsOfIsMap ==
    ASSUME NEW T, NEW texts \in Seq(Seq(T))
    PROVE  LET parts == [n \in DOMAIN texts |-> SplitWords(texts[n])]
           IN  /\ parts \in Seq(Seq(Seq(T))) /\ Len(parts) = Len(texts)
               /\ DOMAIN parts = 1 .. Len(texts)
<1> DEFINE parts == [n \in DOMAIN texts |-> SplitWords(texts[n])]
<1>1. Len(texts) \in Nat /\ DOMAIN texts = 1 .. Len(texts) /\ \A n \in 1 .. Len(texts) : texts[n] \in Seq(T)
  BY LenProperties, ElementOfSeq
<1>2. \A text \in Seq(T) : SplitWords(text) \in Seq(Seq(T))
  BY WordsAndEnds
<1>3. parts \in [1 .. Len(texts) -> Seq(Seq(T))]
  BY <1>1, <1>2
<1> HIDE DEF parts
<1>4. parts \in Seq(Seq(Seq(T))) /\ Len(parts) = Len(texts) /\ DOMAIN parts = 1 .. Len(texts)
  BY <1>1, <1>3, FunctionIsSeq
<1> QED
  BY <1>4 DEF parts

\* Texts put side by side keep their words.
LEMMA WordsSideBySide ==
    ASSUME NEW T, Blank \in T, NEW texts \in Seq(Seq(T))
    PROVE  SideBySide(texts) \in Seq(T) /\ SplitWords(SideBySide(texts)) = WordsOf(texts)
<1> DEFINE parts == [n \in DOMAIN texts |-> SplitWords(texts[n])]
           size == Len(texts)
<1>1. PICK f \in [0 .. size -> Seq(T)] :
         /\ f[0] = << >> /\ f[size] = SideBySide(texts)
         /\ \A k \in 1 .. size : f[k] = f[k - 1] \o ((IF k = 1 THEN << >> ELSE <<Blank>>) \o texts[k])
  BY SideBySideSteps
<1>2. /\ size \in Nat /\ DOMAIN texts = 1 .. size
      /\ \A n \in 1 .. size : texts[n] \in Seq(T) /\ parts[n] = SplitWords(texts[n])
  BY LenProperties, ElementOfSeq
<1>3. parts \in Seq(Seq(Seq(T))) /\ Len(parts) = size
  BY WordsOfIsMap
<1>4. WordsOf(texts) = FlattenSeq(parts)
  BY DEF WordsOf
<1> HIDE DEF parts, size
<1>5. PICK g \in [0 .. size -> Seq(Seq(T))] :
         /\ g[0] = << >> /\ g[size] = FlattenSeq(parts)
         /\ \A k \in 1 .. size : g[k] = g[k - 1] \o parts[k]
  <2>1. \E g \in [0 .. Len(parts) -> Seq(Seq(T))] :
           /\ g[0] = << >> /\ g[Len(parts)] = FlattenSeq(parts)
           /\ \A k \in 1 .. Len(parts) : g[k] = g[k - 1] \o parts[k]
    BY <1>3, FlattenSteps
  <2> QED
    BY <1>3, <2>1
<1> DEFINE G == {k \in Nat : k <= size => SplitWords(f[k]) = g[k]}
<1>6. 0 \in G
  <2>1. Len(<< >>) = 0 /\ << >> \in Seq(T)
    BY EmptySeq
  <2>2. SplitWords(<< >>) = << >>
    BY <2>1, SplitByEnds, InOrderNext
  <2> QED
    BY <1>1, <1>5, <2>2
<1>7. ASSUME NEW k \in Nat, k \in G PROVE k + 1 \in G
  <2>1. ASSUME k + 1 <= size PROVE SplitWords(f[k + 1]) = g[k + 1]
    <3> DEFINE w == texts[k + 1]
               text == f[k]
               words == g[k]
    <3>1. /\ k <= size /\ k + 1 \in 1 .. size /\ (k + 1) - 1 = k /\ k \in 0 .. size
          /\ (k + 1 = 1 <=> k = 0)
      BY <1>2, <2>1
    <3>2. SplitWords(text) = words
      BY <1>7, <3>1
    <3> HIDE DEF G
    <3>3. f[k + 1] = text \o ((IF k = 0 THEN << >> ELSE <<Blank>>) \o w)
      BY <1>1, <3>1
    <3>4. text \in Seq(T) /\ w \in Seq(T) /\ words \in Seq(Seq(T)) /\ SplitWords(w) \in Seq(Seq(T))
      <4>1. text \in Seq(T) /\ w \in Seq(T) /\ words \in Seq(Seq(T))
        BY <1>1, <1>2, <1>5, <3>1
      <4> QED
        BY <4>1, WordsAndEnds
    <3>5. g[k + 1] = words \o SplitWords(w)
      BY <1>2, <1>5, <3>1
    <3>6. k = 0 => text = << >> /\ words = << >>
      BY <1>1, <1>5
    <3> HIDE DEF w, text, words
    <3>7. CASE k = 0
      <4>1. << >> \o (<< >> \o w) = w /\ << >> \o SplitWords(w) = SplitWords(w)
        BY <3>4, ConcatEmptySeq
      <4> QED
        BY <3>3, <3>5, <3>6, <3>7, <4>1
    <3>8. CASE k # 0
      <4>1. SplitWords(text \o (<<Blank>> \o w)) = SplitWords(text) \o SplitWords(w)
        BY <3>4, SplitWordsApart
      <4> QED
        BY <3>2, <3>3, <3>5, <3>8, <4>1
    <3> QED
      BY <3>7, <3>8
  <2> QED
    BY <2>1
<1> HIDE DEF G
<1>8. size \in G /\ size <= size /\ size \in 0 .. size
  <2>1. size \in G
    BY <1>2, <1>6, <1>7, FromZero
  <2> QED
    BY <1>2, <2>1
<1> QED
  BY <1>1, <1>4, <1>5, <1>8 DEF G

\* The words of a text are their own words.
LEMMA WordsOfWords ==
    ASSUME NEW T, NEW words \in Seq(Seq(T)),
           \A n \in 1 .. Len(words) :
              words[n] # << >> /\ \A j \in 1 .. Len(words[n]) : words[n][j] # Blank
    PROVE  WordsOf(words) = words
<1> DEFINE parts == [n \in DOMAIN words |-> SplitWords(words[n])]
           size == Len(words)
           P(k) == SubSeq(words, 1, k)
<1>1. size \in Nat /\ DOMAIN words = 1 .. size /\ \A n \in 1 .. size : words[n] \in Seq(T)
  BY LenProperties, ElementOfSeq
<1>2. ASSUME NEW n \in 1 .. size PROVE parts[n] = <<words[n]>>
  <2> DEFINE w == words[n]
  <2>1. w \in Seq(T) /\ w # << >> /\ \A j \in 1 .. Len(w) : w[j] # Blank
    BY <1>1
  <2>2. parts[n] = SplitWords(w)
    BY <1>1
  <2> HIDE DEF w, parts
  <2>3. SplitWords(w) = <<w>>
    BY <2>1, OneWord
  <2> QED
    BY <2>2, <2>3 DEF w
<1>3. parts \in Seq(Seq(Seq(T))) /\ Len(parts) = size
  BY WordsOfIsMap
<1>4. WordsOf(words) = FlattenSeq(parts)
  BY DEF WordsOf
<1>5. P(0) = << >> /\ P(size) = words
  BY PrefixByPrefix
<1>6. \A k \in Nat : k + 1 <= size => P(k + 1) = Append(P(k), words[k + 1])
  BY PrefixByPrefix
<1>7. \A k \in Nat : k <= size => P(k) \in Seq(Seq(T))
  BY PrefixByPrefix
<1> HIDE DEF parts, size, P
<1>8. PICK g \in [0 .. size -> Seq(Seq(T))] :
         /\ g[0] = << >> /\ g[size] = FlattenSeq(parts)
         /\ \A k \in 1 .. size : g[k] = g[k - 1] \o parts[k]
  <2>1. \E g \in [0 .. Len(parts) -> Seq(Seq(T))] :
           /\ g[0] = << >> /\ g[Len(parts)] = FlattenSeq(parts)
           /\ \A k \in 1 .. Len(parts) : g[k] = g[k - 1] \o parts[k]
    BY <1>3, FlattenSteps
  <2> QED
    BY <1>3, <2>1
<1> DEFINE G == {k \in Nat : k <= size => g[k] = P(k)}
<1>9. 0 \in G
  BY <1>5, <1>8
<1>10. ASSUME NEW k \in Nat, k \in G PROVE k + 1 \in G
  <2>1. ASSUME k + 1 <= size PROVE g[k + 1] = P(k + 1)
    <3> DEFINE w == words[k + 1]
               p == P(k)
    <3>1. k <= size /\ k + 1 \in 1 .. size /\ (k + 1) - 1 = k
      BY <1>1, <2>1
    <3>2. g[k] = p /\ p \in Seq(Seq(T)) /\ w \in Seq(T)
      BY <1>1, <1>7, <1>10, <3>1
    <3> HIDE DEF G
    <3>3. g[k + 1] = p \o <<w>> /\ P(k + 1) = Append(p, w)
      BY <1>2, <1>6, <1>8, <2>1, <3>1, <3>2
    <3> HIDE DEF p, w
    <3>4. Append(p, w) = p \o <<w>>
      BY <3>2, AppendIsConcat
    <3> QED
      BY <3>3, <3>4
  <2> QED
    BY <2>1
<1> HIDE DEF G
<1>11. size \in G /\ size <= size
  <2>1. size \in G
    BY <1>1, <1>9, <1>10, FromZero
  <2> QED
    BY <1>1, <2>1
<1> QED
  BY <1>4, <1>5, <1>8, <1>11 DEF G

LEMMA WordsOfConcat ==
    ASSUME NEW T, NEW s \in Seq(Seq(T)), NEW t \in Seq(Seq(T))
    PROVE  WordsOf(s \o t) = WordsOf(s) \o WordsOf(t)
<1> DEFINE parts(x) == [n \in DOMAIN x |-> SplitWords(x[n])]
           st == s \o t
<1>1. /\ parts(s) \in Seq(Seq(Seq(T))) /\ Len(parts(s)) = Len(s)
      /\ parts(t) \in Seq(Seq(Seq(T))) /\ Len(parts(t)) = Len(t)
  BY WordsOfIsMap
<1>2. /\ Len(s) \in Nat /\ Len(t) \in Nat /\ DOMAIN s = 1 .. Len(s) /\ DOMAIN t = 1 .. Len(t)
      /\ st \in Seq(Seq(T)) /\ Len(st) = Len(s) + Len(t)
      /\ \A i \in 1 .. Len(s) + Len(t) : st[i] = IF i <= Len(s) THEN s[i] ELSE t[i - Len(s)]
  BY LenProperties, ConcatProperties
<1> HIDE DEF st
<1>3. parts(st) \in Seq(Seq(Seq(T))) /\ Len(parts(st)) = Len(s) + Len(t) /\ DOMAIN st = 1 .. Len(s) + Len(t)
  <2>1. parts(st) \in Seq(Seq(Seq(T))) /\ Len(parts(st)) = Len(st)
    BY <1>2, WordsOfIsMap
  <2>2. DOMAIN st = 1 .. Len(st)
    BY <1>2, LenProperties
  <2> QED
    BY <1>2, <2>1, <2>2
<1> DEFINE ps == parts(s)
           pt == parts(t)
           pst == parts(st)
<1>4. ASSUME NEW i \in 1 .. Len(s) + Len(t)
      PROVE  pst[i] = IF i <= Len(s) THEN ps[i] ELSE pt[i - Len(s)]
  <2>1. (i <= Len(s) => i \in 1 .. Len(s)) /\ (~(i <= Len(s)) => i - Len(s) \in 1 .. Len(t))
    BY <1>2
  <2> QED
    BY <1>2, <1>3, <2>1
<1>5. /\ ps \in Seq(Seq(Seq(T))) /\ pt \in Seq(Seq(Seq(T))) /\ pst \in Seq(Seq(Seq(T)))
      /\ Len(ps) = Len(s) /\ Len(pt) = Len(t) /\ Len(pst) = Len(s) + Len(t)
  BY <1>1, <1>3
<1>6. WordsOf(st) = FlattenSeq(pst) /\ WordsOf(s) = FlattenSeq(ps) /\ WordsOf(t) = FlattenSeq(pt)
  BY DEF WordsOf
<1> HIDE DEF ps, pt, pst
<1>7. pst = ps \o pt
  <2> DEFINE both == ps \o pt
             X == Seq(Seq(T))
  <2>1. ps \in Seq(X) /\ pt \in Seq(X) /\ pst \in Seq(X)
    BY <1>5
  <2> HIDE DEF X
  <2>2. both \in Seq(X) /\ Len(both) = Len(ps) + Len(pt)
    BY <2>1, ConcatProperties
  <2>3. \A i \in 1 .. Len(ps) + Len(pt) : both[i] = IF i <= Len(ps) THEN ps[i] ELSE pt[i - Len(ps)]
    BY <2>1, ConcatProperties
  <2> HIDE DEF both
  <2>4. Len(both) = Len(pst) /\ \A i \in 1 .. Len(pst) : both[i] = pst[i]
    BY <1>4, <1>5, <2>2, <2>3
  <2>5. both = pst
    BY <2>1, <2>2, <2>4, SeqEqual
  <2> QED
    BY <2>5 DEF both
<1>8. FlattenSeq(ps \o pt) = FlattenSeq(ps) \o FlattenSeq(pt)
  BY <1>5, FlattenConcat
<1> QED
  BY <1>6, <1>7, <1>8 DEF st

-----------------------------------------------------------------------------
(***************************************************************************)
(* A cropped field.                                                        *)
(***************************************************************************)
Letters == DOMAIN Lower

\* Words that can be told apart again when they are put side by side.
Solid == {w \in Seq(Letters) : w # << >> /\ \A j \in 1 .. Len(w) : w[j] # Blank}

\* Words from to to, the marker's words where some are left out.
Window(words, from, to) ==
    (IF from > 1 THEN SplitWords(Marker) ELSE << >>)
        \o SubSeq(words, from, to)
        \o (IF to < Len(words) THEN SplitWords(Marker) ELSE << >>)

\* The texts cropField puts side by side for it.
Pieces(words, from, to) ==
    (IF from > 1 THEN <<Marker>> ELSE << >>)
        \o SubSeq(words, from, to)
        \o (IF to < Len(words) THEN <<Marker>> ELSE << >>)

LEMMA SolidWords ==
    /\ Blank \in Letters /\ Marker \in Seq(Letters) /\ Solid \subseteq Seq(Letters)
    /\ \A text \in Seq(Letters) : SplitWords(text) \in Seq(Solid)
    /\ \A words \in Seq(Solid) : words \in Seq(Seq(Letters)) /\ WordsOf(words) = words
<1>1. Blank \in Letters /\ Marker \in Seq(Letters)
  BY FormattingAssumption DEF Letters
<1>2. Solid \subseteq Seq(Letters)
  BY DEF Solid
<1>3. ASSUME NEW text \in Seq(Letters) PROVE SplitWords(text) \in Seq(Solid)
  <2> DEFINE words == SplitWords(text)
  <2>1. /\ words \in Seq(Seq(Letters))
        /\ \A n \in 1 .. Len(words) : words[n] # << >> /\ \A j \in 1 .. Len(words[n]) : words[n][j] # Blank
    BY WordsAndEnds
  <2> HIDE DEF words
  <2>2. Len(words) \in Nat /\ words \in [1 .. Len(words) -> Seq(Letters)]
    BY <2>1, LenProperties
  <2>3. words \in [1 .. Len(words) -> Solid]
    BY <2>1, <2>2 DEF Solid
  <2>4. words \in Seq(Solid)
    BY <2>2, <2>3, FunctionIsSeq
  <2> QED
    BY <2>4 DEF words
<1>4. ASSUME NEW words \in Seq(Solid)
      PROVE  words \in Seq(Seq(Letters)) /\ WordsOf(words) = words
  <2>1. words \in Seq(Seq(Letters))
    BY <1>2, SeqMonotonic
  <2>2. \A n \in 1 .. Len(words) :
           words[n] # << >> /\ \A j \in 1 .. Len(words[n]) : words[n][j] # Blank
    BY ElementOfSeq DEF Solid
  <2> QED
    BY <2>1, <2>2, WordsOfWords
<1> QED
  BY <1>1, <1>2, <1>3, <1>4

\* A window is made of words and shows each word of its range.
LEMMA WindowShows ==
    ASSUME NEW words \in Seq(Solid), NEW from \in 1 .. Len(words), NEW to \in from .. Len(words)
    PROVE  /\ Window(words, from, to) \in Seq(Solid)
           /\ \A m \in from .. to :
                 \E n \in DOMAIN Window(words, from, to) : Window(words, from, to)[n] = words[m]
<1> DEFINE a == IF from > 1 THEN SplitWords(Marker) ELSE << >>
           seg == SubSeq(words, from, to)
           c == IF to < Len(words) THEN SplitWords(Marker) ELSE << >>
           as == a \o seg
           all == as \o c
<1>1. Len(words) \in Nat /\ \A i \in 1 .. Len(words) : words[i] \in Solid
  BY LenProperties, ElementOfSeq
<1>2. from \in Nat /\ to \in Nat /\ 1 <= from /\ from <= to /\ to <= Len(words)
  BY <1>1
<1>3. SplitWords(Marker) \in Seq(Solid) /\ << >> \in Seq(Solid)
  BY SolidWords, EmptySeq
<1>4. a \in Seq(Solid) /\ c \in Seq(Solid) /\ Len(a) \in Nat /\ Len(c) \in Nat
  <2>1. a \in Seq(Solid) /\ c \in Seq(Solid)
    BY <1>3
  <2> HIDE DEF a, c
  <2> QED
    BY <2>1, LenProperties
<1>5. /\ seg \in Seq(Solid) /\ Len(seg) = to - from + 1
      /\ \A i \in 1 .. to - from + 1 : seg[i] = words[from + i - 1]
  <2>1. \A i \in from .. to : words[i] \in Solid
    BY <1>1, <1>2
  <2>2. /\ seg \in Seq(Solid) /\ Len(seg) = IF from <= to THEN to - from + 1 ELSE 0
        /\ \A i \in 1 .. to - from + 1 : seg[i] = words[from + i - 1]
    <3>1. from \in Int /\ to \in Int
      BY <1>2
    <3> QED
      BY <2>1, <3>1, SubSeqProperties
  <2> QED
    BY <1>2, <2>2
<1> HIDE DEF a, seg, c
<1>6. /\ as \in Seq(Solid) /\ Len(as) = Len(a) + Len(seg)
      /\ \A i \in 1 .. Len(a) + Len(seg) : as[i] = IF i <= Len(a) THEN a[i] ELSE seg[i - Len(a)]
  BY <1>4, <1>5, ConcatProperties
<1> HIDE DEF as
<1>7. /\ all \in Seq(Solid) /\ Len(all) = Len(as) + Len(c)
      /\ \A i \in 1 .. Len(as) + Len(c) : all[i] = IF i <= Len(as) THEN as[i] ELSE c[i - Len(as)]
  <2>1. as \in Seq(Solid) /\ c \in Seq(Solid)
    BY <1>4, <1>6
  <2> QED
    BY <2>1, ConcatProperties
<1>8. all = Window(words, from, to)
  BY DEF Window, as, a, seg, c
<1> HIDE DEF all
<1>9. DOMAIN all = 1 .. Len(all)
  BY <1>7, LenProperties
<1>10. ASSUME NEW m \in from .. to PROVE \E n \in DOMAIN all : all[n] = words[m]
  <2> DEFINE i == m - from + 1
             n == Len(a) + i
  <2>1. /\ i \in 1 .. to - from + 1 /\ from + i - 1 = m
        /\ n \in 1 .. Len(a) + (to - from + 1) /\ ~(n <= Len(a)) /\ n - Len(a) = i
        /\ n <= Len(a) + (to - from + 1)
        /\ n \in 1 .. (Len(a) + (to - from + 1)) + Len(c)
    BY ONLY <1>2, <1>4, m \in from .. to
  <2> HIDE DEF i, n
  <2>2. seg[i] = words[m]
    BY <1>5, <2>1
  <2>3. as[n] = words[m]
    BY <1>5, <1>6, <2>1, <2>2
  <2>4. all[n] = words[m] /\ n \in 1 .. Len(all)
    BY <1>5, <1>6, <1>7, <2>1, <2>3
  <2> QED
    BY <1>9, <2>4
<1> QED
  BY <1>7, <1>8, <1>10

\* The pieces put side by side have the words of the window.
LEMMA PiecesShowWindow ==
    ASSUME NEW words \in Seq(Solid), NEW from \in 1 .. Len(words), NEW to \in from .. Len(words)
    PROVE  LET text == SideBySide(Pieces(words, from, to))
           IN  text \in Seq(Letters) /\ SplitWords(text) = Window(words, from, to)
<1> DEFINE L == Seq(Seq(Letters))
           a == IF from > 1 THEN <<Marker>> ELSE << >>
           seg == SubSeq(words, from, to)
           c == IF to < Len(words) THEN <<Marker>> ELSE << >>
           as == a \o seg
           all == as \o c
<1>1. Blank \in Letters /\ Marker \in Seq(Letters)
  BY SolidWords
<1>2. <<Marker>> \in L /\ << >> \in L
  BY <1>1, EmptySeq
<1>3. seg \in Seq(Solid)
  <2>1. Len(words) \in Nat /\ \A i \in 1 .. Len(words) : words[i] \in Solid
    BY LenProperties, ElementOfSeq
  <2>2. from \in Int /\ to \in Int /\ \A i \in from .. to : i \in 1 .. Len(words)
    BY <2>1
  <2>3. \A i \in from .. to : words[i] \in Solid
    BY <2>1, <2>2
  <2> QED
    BY <2>2, <2>3, SubSeqProperties
<1>4. seg \in L /\ WordsOf(seg) = seg
  <2> HIDE DEF seg
  <2> QED
    BY <1>3, SolidWords
<1>5. WordsOf(<< >>) = << >> /\ WordsOf(<<Marker>>) = SplitWords(Marker)
  <2> DEFINE marks == SplitWords(Marker)
             one == [n \in DOMAIN <<Marker>> |-> SplitWords(<<Marker>>[n])]
             none == [n \in DOMAIN << >> |-> SplitWords(<< >>[n])]
  <2>1. marks \in Seq(Seq(Letters))
    BY <1>1, WordsAndEnds
  <2>2. DOMAIN <<Marker>> = 1 .. 1 /\ <<Marker>>[1] = Marker /\ DOMAIN << >> = {}
    BY EmptySeq
  <2>3. none = << >>
    BY <2>2
  <2>4. one = <<marks>>
    <3>1. <<marks>> = [n \in 1 .. 1 |-> marks]
      OBVIOUS
    <3>2. \A n \in 1 .. 1 : n = 1
      OBVIOUS
    <3> QED
      BY <2>2, <3>1, <3>2
  <2>5. FlattenSeq(<< >>) = << >>
    BY EmptySeq DEF FlattenSeq
  <2> HIDE DEF marks
  <2>6. FlattenSeq(<<marks>>) = marks
    <3>1. << >> \in Seq(Seq(Seq(Letters))) /\ Append(<< >>, marks) = <<marks>>
      BY EmptySeq
    <3>2. FlattenSeq(Append(<< >>, marks)) = FlattenSeq(<< >>) \o marks
      BY <2>1, <3>1, FlattenAppend
    <3>3. << >> \o marks = marks
      BY <2>1, ConcatEmptySeq
    <3> QED
      BY <2>5, <3>1, <3>2, <3>3
  <2>7. WordsOf(<< >>) = FlattenSeq(none) /\ WordsOf(<<Marker>>) = FlattenSeq(one)
    BY DEF WordsOf
  <2> HIDE DEF one, none
  <2> QED
    BY <2>3, <2>4, <2>5, <2>6, <2>7 DEF marks
<1>6. a \in L /\ WordsOf(a) = IF from > 1 THEN SplitWords(Marker) ELSE << >>
  BY <1>2, <1>5
<1>7. c \in L /\ WordsOf(c) = IF to < Len(words) THEN SplitWords(Marker) ELSE << >>
  BY <1>2, <1>5
<1>8. Window(words, from, to) = (WordsOf(a) \o WordsOf(seg)) \o WordsOf(c)
  <2>1. seg = SubSeq(words, from, to)
    OBVIOUS
  <2> HIDE DEF a, c, seg
  <2> QED
    BY <1>4, <1>6, <1>7, <2>1 DEF Window
<1>9. all = Pieces(words, from, to)
  BY DEF Pieces
<1> HIDE DEF a, seg, c
<1>10. as \in L /\ WordsOf(as) = WordsOf(a) \o WordsOf(seg)
  BY <1>4, <1>6, ConcatProperties, WordsOfConcat
<1> HIDE DEF as
<1>11. all \in L /\ WordsOf(all) = WordsOf(as) \o WordsOf(c)
  BY <1>7, <1>10, ConcatProperties, WordsOfConcat
<1> HIDE DEF all
<1>12. SideBySide(all) \in Seq(Letters) /\ SplitWords(SideBySide(all)) = WordsOf(all)
  BY <1>1, <1>11, WordsSideBySide
<1> QED
  BY <1>8, <1>9, <1>10, <1>11, <1>12

\* What cropField makes of a text.
LEMMA CropShows ==
    ASSUME NEW text \in Seq(Letters), NEW ts, NEW crop \in Nat \ {0}
    PROVE  LET words == SplitWords(text)
               matches == Matches(words, ts)
               cropped == CropField(text, ts, crop)
           IN  /\ cropped \in Seq(Letters)
               /\ matches = {} => cropped = text
               /\ matches # {} =>
                     /\ Matches(SplitWords(cropped), ts) # {}
                     /\ \E from, to \in DOMAIN words :
                           /\ \E m \in matches : m \in from .. to /\ \A k \in matches : m <= k
                           /\ to - from < crop
                           /\ SplitWords(cropped) = Window(words, from, to)
<1> DEFINE words == SplitWords(text)
           matches == Matches(words, ts)
           match == CHOOSE n \in matches : \A k \in matches : n <= k
           start == FirstWord(match, crop)
           end == Smaller(start + crop, Len(words))
           window == Window(words, start + 1, end)
           cropped == CropField(text, ts, crop)
<1>1. words \in Seq(Solid) /\ Len(words) \in Nat /\ DOMAIN words = 1 .. Len(words)
  BY SolidWords, LenProperties
<1>2. cropped = IF matches = {} THEN text
                ELSE SideBySide((IF start > 0 THEN <<Marker>> ELSE << >>)
                                    \o SubSeq(words, start + 1, end)
                                    \o (IF end < Len(words) THEN <<Marker>> ELSE << >>))
  BY DEF CropField, Matches
<1> HIDE DEF words, cropped
<1>3. CASE matches = {}
  BY <1>2, <1>3 DEF words, cropped
<1>4. CASE matches # {}
  <2>1. matches \subseteq 1 .. Len(words)
    BY <1>1 DEF Matches
  <2>2. match \in matches /\ \A k \in matches : match <= k
    <3>1. matches \subseteq Nat
      BY <1>1, <2>1
    <3>2. Min(matches) \in matches /\ \A k \in matches : Min(matches) <= k
      BY <1>4, <3>1, SmallestExists
    <3> HIDE DEF matches
    <3> QED
      BY <3>2
  <2> HIDE DEF match, matches
  <2>3. match \in Nat /\ 1 <= match /\ match <= Len(words)
    BY <1>1, <2>1, <2>2, InInterval
  <2>4. start \in Nat /\ start + 1 <= match /\ match <= start + crop
    <3>1. crop \div 2 \in Nat /\ crop \div 2 < crop
      BY ONLY crop \in Nat \ {0}
    <3>2. start = IF match - 1 >= crop \div 2 THEN (match - 1) - (crop \div 2) ELSE 0
      BY DEF FirstWord
    <3> HIDE DEF start
    <3> DEFINE half == crop \div 2
    <3>3. half \in Nat /\ half < crop /\ start = IF match - 1 >= half THEN (match - 1) - half ELSE 0
      BY <3>1, <3>2
    <3> HIDE DEF half
    <3> QED
      BY ONLY <2>3, <3>3, crop \in Nat \ {0}
  <2>5. end = IF start + crop <= Len(words) THEN start + crop ELSE Len(words)
    BY DEF Smaller
  <2> HIDE DEF start, end
  <2>6. /\ start + 1 \in 1 .. Len(words) /\ end \in start + 1 .. Len(words) /\ end \in 1 .. Len(words)
        /\ match \in start + 1 .. end /\ end - (start + 1) < crop /\ (start > 0 <=> start + 1 > 1)
    <3> DEFINE size == Len(words)
    <3>1. /\ size \in Nat /\ match \in Nat /\ match <= size
          /\ start \in Nat /\ start + 1 <= match /\ match <= start + crop
          /\ end = IF start + crop <= size THEN start + crop ELSE size
      BY <1>1, <2>3, <2>4, <2>5
    <3> HIDE DEF size
    <3>2. end \in Nat /\ match <= end /\ end <= size /\ end <= start + crop
      BY ONLY <3>1, crop \in Nat \ {0}
    <3>3. /\ start + 1 \in 1 .. size /\ end \in start + 1 .. size /\ end \in 1 .. size
          /\ match \in start + 1 .. end
      BY ONLY <3>1, <3>2
    <3>4. end - (start + 1) < crop /\ (start > 0 <=> start + 1 > 1)
      BY ONLY <3>1, <3>2, crop \in Nat \ {0}
    <3> QED
      BY <3>3, <3>4 DEF size
  <2>7. window \in Seq(Solid) /\ \E n \in DOMAIN window : window[n] = words[match]
    BY <1>1, <2>6, WindowShows
  <2>8. cropped = SideBySide(Pieces(words, start + 1, end))
    BY <1>2, <1>4, <2>6 DEF Pieces
  <2>9. cropped \in Seq(Letters) /\ SplitWords(cropped) = window
    BY <1>1, <2>6, <2>8, PiecesShowWindow
  <2> HIDE DEF window
  <2>10. Matches(SplitWords(cropped), ts) # {}
    <3>1. WordMatches(words[match], ts)
      BY <2>2 DEF matches, Matches
    <3> QED
      BY <2>7, <2>9, <3>1 DEF Matches
  <2>11. \E from, to \in DOMAIN words :
            /\ \E m \in matches : m \in from .. to /\ \A k \in matches : m <= k
            /\ to - from < crop
            /\ SplitWords(cropped) = Window(words, from, to)
    <3>1. /\ \E m \in matches : m \in start + 1 .. end /\ \A k \in matches : m <= k
          /\ end - (start + 1) < crop
          /\ SplitWords(cropped) = Window(words, start + 1, end)
      BY <2>2, <2>6, <2>9 DEF window
    <3> QED
      BY <1>1, <2>6, <3>1
  <2> QED
    BY <1>4, <2>9, <2>10, <2>11 DEF words, cropped, matches
<1> QED
  BY <1>3, <1>4

-----------------------------------------------------------------------------
(***************************************************************************)
(* The answer.                                                             *)
(***************************************************************************)
\* A field that is not highlighted has no tags.
LEMMA PlainField ==
    ASSUME NEW text \in Seq(Letters)
    PROVE  Untagged(text) = text /\ OnlyFrom(text, {Pre, Post}) = << >>
<1>1. Letters \cap {Pre, Post} = {} /\ Letters \subseteq Letters
  BY FormattingAssumption DEF Letters
<1>2. OnlyFrom(text, Letters) = text /\ OnlyFrom(text, {Pre, Post}) = << >>
  BY <1>1, OnlyFromAllOrNone
<1> QED
  BY <1>2 DEF Untagged, Letters

\* A field that is: its letters, and its words, the matching ones between tags.
LEMMA HighlightedField ==
    ASSUME NEW text \in Seq(Letters), NEW ts
    PROVE  LET shown == HighlightInString(text, ts)
           IN  /\ Untagged(shown) = text
               /\ SplitWords(shown) = AllTagged(SplitWords(text), ts)
               /\ Matches(SplitWords(text), ts) = {} => shown = text
<1> DEFINE shown == HighlightInString(text, ts)
<1>1. {Pre, Post} \cap Letters = {} /\ Letters \subseteq Letters /\ Blank \in Letters
  BY FormattingAssumption DEF Letters
<1>2. /\ OnlyFrom(shown, Letters) = text
      /\ Openings(text, ts) = {} => shown = text
  BY <1>1, HighlightKeepsLetters
<1>3. SplitWords(shown) = AllTagged(SplitWords(text), ts)
  BY <1>1, WordsHighlighted
<1>4. Matches(SplitWords(text), ts) = {} => Openings(text, ts) = {}
  BY NothingToTag
<1> QED
  BY <1>2, <1>3, <1>4 DEF Untagged, Letters

LEMMA SizeOfNothing == Size(<< >>) = 0
<1> DEFINE widths == [n \in DOMAIN << >> |-> Width[<< >>[n]]]
<1>1. DOMAIN widths = {}
  BY EmptySeq
<1>2. Size(<< >>) = SumFunction(widths)
  BY DEF Size
<1> HIDE DEF widths
<1> QED
  BY <1>1, <1>2, SumOfNothing

\* The fields as buildSnippet highlights them, side by side.
AllHighlighted(texts, ts) ==
    SideBySide([n \in DOMAIN texts |-> HighlightInString(texts[n], ts)])

\* Without its tags the highlighted text of the fields is their text.
LEMMA AllLettersKept ==
    ASSUME NEW texts \in Seq(Seq(Letters)), NEW ts
    PROVE  /\ AllHighlighted(texts, ts) \in Seq(Letters \union {Pre, Post})
           /\ Untagged(AllHighlighted(texts, ts)) = SideBySide(texts)
<1> DEFINE U == Letters \union {Pre, Post}
           shown == [n \in DOMAIN texts |-> HighlightInString(texts[n], ts)]
           size == Len(texts)
<1>1. /\ Blank \in Letters /\ Blank \in U /\ Letters \subseteq U /\ {Pre, Post} \subseteq U
  BY FormattingAssumption DEF Letters
<1>2. size \in Nat /\ DOMAIN texts = 1 .. size /\ \A n \in 1 .. size : texts[n] \in Seq(Letters)
  BY LenProperties, ElementOfSeq
<1>3. ASSUME NEW n \in 1 .. size
      PROVE  HighlightInString(texts[n], ts) \in Seq(U) /\ OnlyFrom(HighlightInString(texts[n], ts), Letters) = texts[n]
  <2> DEFINE text == texts[n]
             marked == HighlightInString(text, ts)
  <2>1. text \in Seq(Letters)
    BY <1>2
  <2>2. Len(text) \in Nat
    BY <2>1, LenProperties
  <2> HIDE DEF text, U
  <2>3. \E f \in [0 .. Len(text) -> Seq(U)] :
           /\ f[0] = << >> /\ f[Len(text)] = HighlightInString(text, ts)
           /\ \A k \in 1 .. Len(text) :
                 /\ Before(k, text, ts) \in Seq(U) /\ After(k, text, ts) \in Seq(U)
                 /\ f[k] = f[k - 1] \o ((Before(k, text, ts) \o <<text[k]>>) \o After(k, text, ts))
    BY <1>1, <2>1, HighlightSteps
  <2>4. marked \in Seq(U)
    <3>1. Len(text) \in 0 .. Len(text)
      BY <2>2
    <3> QED
      BY <2>3, <3>1
  <2>5. OnlyFrom(marked, Letters) = text
    BY <2>1, HighlightedField DEF Untagged, Letters
  <2> QED
    BY <2>4, <2>5 DEF text
<1>4. /\ shown \in Seq(Seq(U)) /\ Len(shown) = size
      /\ \A n \in 1 .. size : texts[n] = OnlyFrom(shown[n], Letters)
  <2>1. shown \in [1 .. size -> Seq(U)] /\ \A n \in 1 .. size : texts[n] = OnlyFrom(shown[n], Letters)
    BY <1>2, <1>3
  <2> HIDE DEF shown, U, size
  <2> QED
    BY <1>2, <2>1, FunctionIsSeq
<1> DEFINE full == SideBySide(shown)
<1>6. full \in Seq(U) /\ OnlyFrom(full, Letters) = SideBySide(texts)
  <2> HIDE DEF shown, U
  <2>1. OnlyFrom(full, Letters) = SideBySide(texts)
    <3> DEFINE rests == [n \in DOMAIN shown |-> OnlyFrom(shown[n], Letters)]
    <3>1. OnlyFrom(full, Letters) = SideBySide(rests)
      BY <1>1, <1>4, OnlyFromSideBySide
    <3>2. DOMAIN shown = 1 .. size /\ texts = [n \in 1 .. size |-> texts[n]]
      BY <1>2, <1>4, LenProperties
    <3>3. rests = texts
      BY <1>4, <3>2
    <3> HIDE DEF rests
    <3> QED
      BY <3>1, <3>3
  <2>2. PICK f \in [0 .. Len(shown) -> Seq(U)] : f[Len(shown)] = full
    BY <1>1, <1>4, SideBySideSteps
  <2>3. Len(shown) \in 0 .. Len(shown)
    BY <1>2, <1>4
  <2> QED
    BY <2>1, <2>2, <2>3
<1>7. full = AllHighlighted(texts, ts)
  BY DEF AllHighlighted
<1> HIDE DEF full
<1> QED
  BY <1>6, <1>7 DEF Untagged, Letters

\* The snippet is the longest beginning that fits, and the whole if that fits.
LEMMA SnippetIsPrefix ==
    ASSUME NEW texts, NEW ts, NEW T, AllHighlighted(texts, ts) \in Seq(T), NEW bytes \in Nat
    PROVE  LET answer == BuildSnippet(texts, ts, bytes)
           IN  /\ IsPrefix(answer.body, AllHighlighted(texts, ts))
               /\ answer.cut <=> answer.body # AllHighlighted(texts, ts)
               /\ Size(answer.body) <= bytes
<1> DEFINE full == AllHighlighted(texts, ts)
           sizes == [n \in 0 .. Len(full) |-> Size(SubSeq(full, 1, n))]
           Longest(n) == sizes[n] <= bytes /\ \A k \in DOMAIN sizes : sizes[k] <= bytes => k <= n
           whole == CHOOSE n \in DOMAIN sizes : Longest(n)
           answer == BuildSnippet(texts, ts, bytes)
<1>1. answer = IF Fits(full, bytes)
               THEN [body |-> full, cut |-> FALSE, torn |-> FALSE]
               ELSE [body |-> SubSeq(full, 1, whole),
                     cut |-> TRUE,
                     torn |-> sizes[whole] < bytes /\ full[whole + 1] \notin {Pre, Post}]
  BY DEF BuildSnippet, AllHighlighted
<1>2. full \in Seq(T) /\ Len(full) \in Nat
  BY LenProperties
<1> HIDE DEF full, answer
<1>3. CASE Fits(full, bytes)
  <2>1. answer.body = full /\ answer.cut = FALSE
    BY <1>1, <1>3
  <2>2. IsPrefix(full, full)
    BY <1>2 DEF IsPrefix
  <2>3. Size(full) <= bytes
    BY <1>3 DEF Fits
  <2> QED
    BY <2>1, <2>2, <2>3 DEF full, answer
<1>4. CASE ~Fits(full, bytes)
  <2>1. /\ SubSeq(full, 1, 0) = << >> /\ SubSeq(full, 1, Len(full)) = full
        /\ \A n \in Nat : n <= Len(full) =>
              SubSeq(full, 1, n) \in Seq(T) /\ Len(SubSeq(full, 1, n)) = n
    BY <1>2, PrefixByPrefix
  <2>2. \E n \in DOMAIN sizes : Longest(n)
    <3> DEFINE S == {n \in DOMAIN sizes : sizes[n] <= bytes}
    <3>1. 0 \in S /\ S \subseteq 0 .. Len(full)
      <4>1. 0 \in 0 .. Len(full) /\ 0 <= bytes
        BY <1>2
      <4>2. sizes[0] = 0
        BY <2>1, <4>1, SizeOfNothing
      <4> QED
        BY <4>1, <4>2
    <3>2. Max(S) \in S /\ \A k \in S : Max(S) >= k
      <4> HIDE DEF S
      <4> QED
        BY <1>2, <3>1, LargestExists
    <3>3. \A k \in S : k \in Nat
      BY <1>2, <3>1
    <3> DEFINE m == Max(S)
    <3>4. m \in S /\ m \in Nat /\ \A k \in S : k <= m
      BY <3>2, <3>3
    <3> HIDE DEF m
    <3>5. Longest(m)
      BY <3>4
    <3> QED
      BY <3>4, <3>5
  <2>3. whole \in DOMAIN sizes /\ Longest(whole)
    <3> HIDE DEF Longest
    <3> QED
      BY <2>2
  <2> DEFINE body == SubSeq(full, 1, whole)
  <2>4. whole \in Nat /\ whole <= Len(full) /\ Size(body) <= bytes
    BY <1>2, <2>3
  <2> HIDE DEF whole
  <2>5. Len(body) = whole /\ body \in Seq(T)
    BY <2>1, <2>4
  <2> HIDE DEF body
  <2>6. body = SubSeq(full, 1, whole)
    BY DEF body
  <2>7. SubSeq(body, 1, Len(body)) = body
    BY <2>5, PrefixByPrefix
  <2>8. IsPrefix(body, full)
    BY <2>4, <2>5, <2>6, <2>7 DEF IsPrefix
  <2>9. body # full
    BY <1>4, <2>4 DEF Fits
  <2>10. answer.body = body /\ answer.cut = TRUE
    BY <1>1, <1>4, <2>6
  <2> QED
    BY <2>4, <2>8, <2>9, <2>10 DEF full, answer
<1> QED
  BY <1>3, <1>4

-----------------------------------------------------------------------------
(***************************************************************************)
(* The answer is what the fields, the terms and the request make of them.  *)
(***************************************************************************)
Answered ==
    /\ fields \in Seq(Texts) /\ crop_fields \subseteq DOMAIN fields
    /\ crop_length \in Nat \ {0} /\ max_length \in Nat \ {0} /\ highlight \in BOOLEAN
    /\ formatted = FormattedContent(fields, terms, crop_fields, crop_length, highlight)
    /\ snippet = IF highlight THEN BuildSnippet(OnlyFrom(fields, Texts \ {<< >>}), terms, max_length)
                 ELSE Nothing

LEMMA NothingAnswered ==
    /\ << >> \in Seq(Texts) /\ {} \subseteq DOMAIN << >>
    /\ \A ts, crop, highlighting : << >> = FormattedContent(<< >>, ts, {}, crop, highlighting)
<1>1. << >> \in Seq(Texts) /\ DOMAIN << >> = {}
  BY EmptySeq
<1>2. ASSUME NEW ts, NEW crop, NEW highlighting
      PROVE  FormattedContent(<< >>, ts, {}, crop, highlighting) = << >>
  <2>1. DOMAIN FormattedContent(<< >>, ts, {}, crop, highlighting) = {}
    BY DEF FormattedContent
  <2> QED
    BY <1>1, <2>1 DEF FormattedContent
<1> QED
  BY <1>1, <1>2

LEMMA AnswersAreMade ==
    /\ Init => Answered
    /\ Answered /\ [Next]_vars => Answered'
<1>1. ASSUME Init PROVE Answered
  <2>1. fields = << >> /\ crop_fields = {} /\ formatted = << >> /\ snippet = Nothing
    BY <1>1 DEF Init
  <2>2. ~highlight /\ highlight \in BOOLEAN
    BY <1>1 DEF Init
  <2>3. crop_length \in Nat \ {0} /\ max_length \in Nat \ {0}
    BY <1>1 DEF Init
  <2>4. formatted = FormattedContent(fields, terms, crop_fields, crop_length, highlight)
    BY <2>1, NothingAnswered
  <2> QED
    BY <2>1, <2>2, <2>3, <2>4, NothingAnswered DEF Answered
<1>2. ASSUME Answered, [Next]_vars PROVE Answered'
  <2>1. ASSUME NEW fs \in BoundedSeq(Texts, MaxFields), NEW ts \in TermSets, NEW crop \in CropLengths,
               NEW highlighting \in BOOLEAN, NEW max \in MaxLengths, NEW cropping \in SUBSET DOMAIN fs,
               FormatResult(fs, ts, cropping, crop, highlighting, max)
        PROVE  Answered'
    <3>1. fs \in Seq(Texts)
      <4>1. PICK m \in 0 .. MaxFields : fs \in [1 .. m -> Texts]
        BY DEF BoundedSeq, SeqOf
      <4>2. m \in Nat
        BY <4>1, FormattingAssumption
      <4> QED
        BY <4>1, <4>2, FunctionIsSeq
    <3>2. crop \in Nat \ {0} /\ max \in Nat \ {0}
      BY FormattingAssumption
    <3> QED
      BY <2>1, <3>1, <3>2 DEF FormatResult, Answered
  <2>2. CASE SendResult
    <3>1. fields' = << >> /\ crop_fields' = {} /\ formatted' = << >> /\ snippet' = Nothing
      BY <2>2 DEF SendResult
    <3>2. ~highlight' /\ highlight' \in BOOLEAN
      BY <2>2 DEF SendResult
    <3>3. crop_length' \in Nat \ {0} /\ max_length' \in Nat \ {0}
      BY <2>2 DEF SendResult
    <3>4. formatted' = FormattedContent(fields', terms', crop_fields', crop_length', highlight')
      BY <3>1, NothingAnswered
    <3> QED
      BY <3>1, <3>2, <3>3, <3>4, NothingAnswered DEF Answered
  <2>3. CASE UNCHANGED vars
    BY <1>2, <2>3 DEF vars, request, Answered
  <2> QED
    BY <1>2, <2>1, <2>2, <2>3 DEF Next
<1> QED
  BY <1>1, <1>2

\* What is answered of a field.
LEMMA FieldAnswered ==
    ASSUME Answered
    PROVE  /\ DOMAIN formatted = IF highlight THEN DOMAIN fields ELSE crop_fields
           /\ \A n \in DOMAIN fields : fields[n] \in Seq(Letters)
           /\ \A n \in DOMAIN formatted :
                 /\ n \in DOMAIN fields
                 /\ LET text == IF n \in crop_fields THEN CropField(fields[n], terms, crop_length)
                                ELSE fields[n]
                    IN  formatted[n] = IF highlight THEN HighlightInString(text, terms) ELSE text
           /\ \A n \in DOMAIN fields : MatchesOf(fields[n]) = Matches(SplitWords(fields[n]), terms)
<1>1. DOMAIN fields = 1 .. Len(fields) /\ \A n \in 1 .. Len(fields) : fields[n] \in Texts
  BY LenProperties, ElementOfSeq DEF Answered
<1>2. Texts \subseteq Seq(Letters)
  BY FormattingAssumption DEF Letters
<1>3. formatted = FormattedContent(fields, terms, crop_fields, crop_length, highlight) /\ crop_fields \subseteq DOMAIN fields
  BY DEF Answered
<1> QED
  BY <1>1, <1>2, <1>3 DEF FormattedContent, MatchesOf, Matches

LEMMA AnswersCropped == Answered => CropAroundMatch
<1> SUFFICES ASSUME Answered, NEW n \in crop_fields
             PROVE  LET words == SplitWords(fields[n])
                        matches == MatchesOf(fields[n])
                        shown == SplitWords(Untagged(formatted[n]))
                    IN  IF matches = {} THEN formatted[n] = fields[n]
                        ELSE \E from, to \in DOMAIN words :
                                /\ \E m \in matches : m \in from .. to /\ \A k \in matches : m <= k
                                /\ to - from < crop_length
                                /\ shown = (IF from > 1 THEN SplitWords(Marker) ELSE << >>)
                                               \o SubSeq(words, from, to)
                                               \o (IF to < Len(words) THEN SplitWords(Marker) ELSE << >>)
  BY DEF CropAroundMatch
<1> DEFINE text == fields[n]
           words == SplitWords(text)
           matches == Matches(words, terms)
           cropped == CropField(text, terms, crop_length)
<1>1. n \in DOMAIN fields /\ n \in DOMAIN formatted
  BY FieldAnswered DEF Answered
<1>2. /\ text \in Seq(Letters) /\ MatchesOf(text) = matches
      /\ formatted[n] = IF highlight THEN HighlightInString(cropped, terms) ELSE cropped
  BY <1>1, FieldAnswered
<1>3. crop_length \in Nat \ {0}
  BY DEF Answered
<1> HIDE DEF text
<1>4. /\ cropped \in Seq(Letters)
      /\ matches = {} => cropped = text
      /\ matches # {} =>
            \E from, to \in DOMAIN words :
               /\ \E m \in matches : m \in from .. to /\ \A k \in matches : m <= k
               /\ to - from < crop_length
               /\ SplitWords(cropped) = Window(words, from, to)
  BY <1>2, <1>3, CropShows
<1> HIDE DEF cropped
<1>5. Untagged(formatted[n]) = cropped
  BY <1>2, <1>4, PlainField, HighlightedField
<1>6. CASE matches = {}
  <2>1. cropped = text
    BY <1>4, <1>6
  <2>2. HighlightInString(text, terms) = text
    BY <1>2, <1>6, HighlightedField
  <2> QED
    BY <1>2, <1>6, <2>1, <2>2 DEF text
<1>7. CASE matches # {}
  <2> HIDE DEF matches
  <2>1. PICK from \in DOMAIN words, to \in DOMAIN words :
           /\ \E m \in matches : m \in from .. to /\ \A k \in matches : m <= k
           /\ to - from < crop_length
           /\ SplitWords(cropped) = Window(words, from, to)
    BY <1>4, <1>7
  <2>2. SplitWords(Untagged(formatted[n])) = Window(words, from, to)
    BY <1>5, <2>1
  <2> QED
    BY <1>2, <1>7, <2>1, <2>2 DEF Window, text
<1> QED
  BY <1>6, <1>7

LEMMA AnswersHighlighted == Answered => MatchesHighlighted
<1> SUFFICES ASSUME Answered, NEW n \in DOMAIN formatted
             PROVE  LET words == SplitWords(Untagged(formatted[n]))
                    IN  /\ SplitWords(formatted[n]) = IF highlight THEN AllTagged(words, terms) ELSE words
                        /\ MatchesOf(fields[n]) # {} => \E k \in DOMAIN words : WordMatches(words[k], terms)
                        /\ n \notin crop_fields => Untagged(formatted[n]) = fields[n]
  BY DEF MatchesHighlighted
<1> DEFINE text == IF n \in crop_fields THEN CropField(fields[n], terms, crop_length) ELSE fields[n]
           words == SplitWords(text)
           shown == formatted[n]
<1>1. /\ n \in DOMAIN fields /\ fields[n] \in Seq(Letters)
      /\ MatchesOf(fields[n]) = Matches(SplitWords(fields[n]), terms)
      /\ shown = IF highlight THEN HighlightInString(text, terms) ELSE text
  BY FieldAnswered DEF Answered
<1>2. /\ text \in Seq(Letters)
      /\ MatchesOf(fields[n]) # {} => Matches(words, terms) # {}
      /\ n \notin crop_fields => text = fields[n]
  <2>1. CASE n \in crop_fields
    <3> DEFINE field == fields[n]
    <3>1. crop_length \in Nat \ {0} /\ field \in Seq(Letters)
      BY <1>1 DEF Answered
    <3> HIDE DEF field
    <3>2. /\ CropField(field, terms, crop_length) \in Seq(Letters)
          /\ Matches(SplitWords(field), terms) # {} =>
                Matches(SplitWords(CropField(field, terms, crop_length)), terms) # {}
      BY <3>1, CropShows
    <3> QED
      BY <1>1, <2>1, <3>2 DEF field
  <2>2. CASE n \notin crop_fields
    BY <1>1, <2>2
  <2> QED
    BY <2>1, <2>2
<1> HIDE DEF text, shown
<1>3. /\ Untagged(shown) = text
      /\ SplitWords(shown) = IF highlight THEN AllTagged(words, terms) ELSE words
  BY <1>1, <1>2, HighlightedField, PlainField
<1>4. Matches(words, terms) # {} => \E k \in DOMAIN words : WordMatches(words[k], terms)
  BY DEF Matches
<1> QED
  BY <1>2, <1>3, <1>4 DEF shown

LEMMA AnswersSnippet == Answered => SnippetWithinLength
<1> SUFFICES ASSUME Answered, highlight
             PROVE  LET texts == OnlyFrom(fields, Texts \ {<< >>})
                        full == AllHighlighted(texts, terms)
                    IN  /\ IsPrefix(snippet.body, full)
                        /\ Untagged(full) = SideBySide(texts)
                        /\ snippet.cut <=> snippet.body # full
                        /\ Size(snippet.body) <= max_length
  BY DEF SnippetWithinLength, AllHighlighted
<1> DEFINE texts == OnlyFrom(fields, Texts \ {<< >>})
<1>1. texts \in Seq(Seq(Letters))
  <2>1. texts \in Seq(Texts \cap (Texts \ {<< >>}))
    BY OnlyFromIsList DEF Answered
  <2>2. Texts \cap (Texts \ {<< >>}) \subseteq Seq(Letters)
    BY FormattingAssumption DEF Letters
  <2> HIDE DEF texts
  <2> QED
    BY <2>1, <2>2, SeqMonotonic
<1>2. snippet = BuildSnippet(texts, terms, max_length) /\ max_length \in Nat
  BY DEF Answered
<1> HIDE DEF texts
<1>3. /\ AllHighlighted(texts, terms) \in Seq(Letters \union {Pre, Post})
      /\ Untagged(AllHighlighted(texts, terms)) = SideBySide(texts)
  BY <1>1, AllLettersKept
<1>4. /\ IsPrefix(snippet.body, AllHighlighted(texts, terms))
      /\ snippet.cut <=> snippet.body # AllHighlighted(texts, terms)
      /\ Size(snippet.body) <= max_length
  BY <1>2, <1>3, SnippetIsPrefix
<1> QED
  BY <1>3, <1>4 DEF texts

-----------------------------------------------------------------------------
LEMMA AlwaysAnswered == Spec => []Answered
  BY AnswersAreMade, PTL DEF Spec

\* A cropped field shows a run of at most crop_length of its words with the
\* first match among them, and a marker exactly where words are missing; a field
\* without a match stays whole: for any texts, terms and lengths, and whether or
\* not the crop is highlighted (cropField, highlight.cpp).
THEOREM CropsAroundMatch == Spec => []CropAroundMatch
  BY AlwaysAnswered, AnswersCropped, PTL

\* Of the words answered of a field exactly those that match the query stand
\* between tags, each between its own two, and nothing else is changed by the
\* tags; a field that is not cropped is answered letter by letter, and one that
\* is still shows a match if it has one.  Which words it shows is the matter of
\* CropsAroundMatch (highlightInString, buildFormattedContent).
THEOREM HighlightsMatches == Spec => []MatchesHighlighted
  BY AlwaysAnswered, AnswersHighlighted, PTL

\* The snippet is a beginning of the highlighted fields of at most
\* snippet_length bytes, said to be cut exactly when something is missing, and
\* without its tags that text is the fields' (buildSnippet).
THEOREM SnippetFits == Spec => []SnippetWithinLength
  BY AlwaysAnswered, AnswersSnippet, PTL

=============================================================================
