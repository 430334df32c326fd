------------------------- MODULE PostingListsProofs -------------------------
(***************************************************************************)
(* What the helpers of class InvertedIndex do to posting lists and         *)
(* dictionaries, for lists of any length: a list in order of doc_id stays  *)
(* in order and gains or loses exactly one document.                       *)
(***************************************************************************)
EXTENDS PostingLists, Listing, WellFoundedInduction, FiniteSetTheorems, SequenceTheorems, TLAPS

Posting == [doc_id : Nat \ {0}, count : Nat \ {0}]

\* In order of doc_id, each document once.
Ascending(list) ==
    \A i, j \in DOMAIN list : i < j => list[i].doc_id < list[j].doc_id

\* Each document once, in any order: what the workers of a bulk load make.
Distinct(list) ==
    \A i, j \in DOMAIN list : list[i].doc_id = list[j].doc_id => i = j

-----------------------------------------------------------------------------
(***************************************************************************)
(* The least and the greatest of some numbers: Min and Max of the          *)
(* community modules choose an element of the set.                         *)
(***************************************************************************)
LEMMA SmallestExists ==
    ASSUME NEW S, S \subseteq Nat, S # {}
    PROVE  Min(S) \in S /\ \A k \in S : Min(S) <= k
<1>1. PICK m \in S : \A k \in S : <<k, m>> \notin OpToRel(<, Nat)
  BY NatLessThanWellFounded, WFMin
<1>2. \A k \in S : ~(k < m)
  BY <1>1 DEF OpToRel
<1>3. \A k \in S : m <= k
    BY <1>2
<1>4. QED
    BY <1>3 DEF Min

LEMMA LargestExists ==
    ASSUME NEW top \in Nat, NEW S, S \subseteq 0 .. top, S # {}
    PROVE  Max(S) \in S /\ \A k \in S : Max(S) >= k
<1> DEFINE Mirror == {k \in 0 .. top : top - k \in S}
<1>1. Mirror \subseteq Nat /\ Mirror # {}
  <2>1. PICK k \in S : TRUE
      OBVIOUS
  <2>2. top - k \in Mirror
      BY <2>1
  <2>3. QED
      BY <2>2
<1>2. Min(Mirror) \in Mirror /\ \A k \in Mirror : Min(Mirror) <= k
  <2> HIDE DEF Mirror
  <2>1. QED
      BY <1>1, SmallestExists
<1> DEFINE m == top - Min(Mirror)
<1>3. m \in S /\ \A k \in S : m >= k
  <2>1. \A k \in S : top - k \in Mirror
      OBVIOUS
  <2>2. m \in S /\ Min(Mirror) \in Nat
      BY <1>2
  <2>3. \A k \in S : Min(Mirror) <= top - k /\ k \in Int
      BY <1>2, <2>1
  <2>4. QED
      BY <2>2, <2>3
<1> HIDE DEF m
<1>4. QED
    BY <1>3 DEF Max

-----------------------------------------------------------------------------
(***************************************************************************)
(* Positions of a sequence.                                                *)
(***************************************************************************)
LEMMA ExceptKeepsSeq ==
    ASSUME NEW S, NEW s \in Seq(S), NEW i, NEW e \in S
    PROVE  [s EXCEPT ![i] = e] \in Seq(S) /\ DOMAIN [s EXCEPT ![i] = e] = DOMAIN s
<1> DEFINE t == [s EXCEPT ![i] = e]
<1>1. t = [j \in 1 .. Len(s) |-> IF j = i THEN e ELSE s[j]] /\ Len(s) \in Nat
  OBVIOUS
<1>2. ASSUME NEW j \in 1 .. Len(s) PROVE (IF j = i THEN e ELSE s[j]) \in S
  OBVIOUS
<1>3. t \in [1 .. Len(s) -> S]
  BY <1>1, <1>2
<1> QED
  BY <1>1, <1>3

LEMMA FunctionIsSeq ==
    ASSUME NEW n \in Nat, NEW A, NEW f \in [1 .. n -> A]
    PROVE  f \in Seq(A) /\ Len(f) = n /\ DOMAIN f = 1 .. n
OBVIOUS

LEMMA AppendIsFunction ==
    ASSUME NEW S, NEW s \in Seq(S), NEW e
    PROVE  Append(s, e) = [i \in 1 .. Len(s) + 1 |-> IF i = Len(s) + 1 THEN e ELSE s[i]]
<1> DEFINE T == S \union {e}
<1>1. s \in Seq(T) /\ e \in T
  OBVIOUS
<1> DEFINE longer == Append(s, e)
<1>2. /\ longer \in Seq(T) /\ Len(longer) = Len(s) + 1 /\ longer[Len(s) + 1] = e
      /\ \A i \in 1 .. Len(s) : longer[i] = s[i]
  BY <1>1, AppendProperties
<1> HIDE DEF longer
<1>3. longer = [i \in 1 .. Len(s) + 1 |-> longer[i]] /\ Len(s) \in Nat
  BY <1>2, LenProperties
<1>4. \A i \in 1 .. Len(s) + 1 : i = Len(s) + 1 \/ i \in 1 .. Len(s)
  BY <1>3
<1>5. \A i \in 1 .. Len(s) + 1 : longer[i] = IF i = Len(s) + 1 THEN e ELSE s[i]
  BY <1>2, <1>4
<1> QED
  BY <1>3, <1>5 DEF longer

LEMMA StrictlyInside ==
    ASSUME NEW S, NEW V \in SUBSET S, NEW U \in SUBSET V, NEW x \in V, x \notin U
    PROVE  <<U, V>> \in StrictSubsetOrdering(S)
  BY DEF StrictSubsetOrdering

\* A nonempty set of positions of a sequence has a last element.
LEMMA LastPosition ==
    ASSUME NEW n \in Nat, NEW S, S \subseteq 1 .. n, S # {}
    PROVE  \E i \in S : \A j \in S : j <= i
<1> DEFINE After(i) == {j \in S : i < j}
           T == {After(i) : i \in S}
           R == StrictSubsetOrdering(S)
<1>1. IsFiniteSet(S)
  <2>1. IsFiniteSet(1 .. n)
    BY FS_Interval
  <2> QED
    BY <2>1, FS_Subset
<1>2. T \subseteq FiniteSubsetsOf(S) /\ T # {}
  <2>1. \A U \in SUBSET S : IsFiniteSet(U)
    BY <1>1, FS_Subset
  <2> QED
    BY <2>1 DEF FiniteSubsetsOf
<1>3. IsWellFoundedOn(R, FiniteSubsetsOf(S))
  BY FS_StrictSubsetOrderingWellFounded
<1>4. PICK m \in T : \A k \in T : <<k, m>> \notin R
  BY <1>2, <1>3, WFMin
<1>5. PICK i \in S : m = After(i)
  OBVIOUS
<1>6. ASSUME NEW k \in S, i < k PROVE FALSE
  <2>1. i \in Int /\ \A l \in S : l \in Int
    OBVIOUS
  <2>2. k \in After(i) /\ k \notin After(k)
    BY <1>6, <2>1
  <2>3. \A l \in After(k) : l \in After(i)
    BY <1>6, <2>1
  <2>4. <<After(k), m>> \in R
    BY <1>5, <2>2, <2>3, StrictlyInside
  <2> QED
    BY <1>4, <2>4
<1> QED
  BY <1>6

-----------------------------------------------------------------------------
(***************************************************************************)
(* ErasePostingForDoc and InsertPostingSorted.                             *)
(***************************************************************************)
LEMMA PostingsOfList ==
    ASSUME NEW list \in Seq(Posting)
    PROVE  /\ Len(list) \in Nat /\ DOMAIN list = 1 .. Len(list)
           /\ \A j \in 1 .. Len(list) : list[j] \in Posting /\ list[j].doc_id \in Nat \ {0}
<1>1. \A j \in 1 .. Len(list) : list[j] \in Posting
  BY ElementOfSeq
<1>2. \A e \in Posting : e.doc_id \in Nat \ {0}
  BY DEF Posting
<1> QED
  BY <1>1, <1>2, LenProperties

\* std::lower_bound on a list in order: all before it are smaller, all from
\* it on are not.
LEMMA LowerBoundFound ==
    ASSUME NEW list \in Seq(Posting), Ascending(list), NEW d \in Nat
    PROVE  LET it == LowerBound(list, d)
           IN  /\ it \in 1 .. Len(list) + 1
               /\ \A j \in 1 .. Len(list) : list[j].doc_id < d <=> j < it
<1> DEFINE Fits(i) == /\ \A j \in 1 .. i - 1 : list[j].doc_id < d
                      /\ i <= Len(list) => list[i].doc_id >= d
           Below == {j \in 1 .. Len(list) : list[j].doc_id < d}
<1>1. /\ Len(list) \in Nat /\ DOMAIN list = 1 .. Len(list)
      /\ \A j \in 1 .. Len(list) : list[j].doc_id \in Nat
  BY PostingsOfList
<1>2. \E i \in 1 .. Len(list) + 1 : Fits(i)
  <2>1. CASE Below = {}
    <3>1. Fits(1)
      BY <1>1, <2>1
    <3> QED
      BY <1>1, <3>1
  <2>2. CASE Below # {}
    <3>1. PICK i \in Below : \A j \in Below : j <= i
      BY <1>1, <2>2, LastPosition
    <3>2. i \in 1 .. Len(list) /\ list[i].doc_id < d
      OBVIOUS
    <3>3. \A j \in 1 .. i : list[j].doc_id < d
      BY <1>1, <3>2 DEF Ascending
    <3>4. ASSUME i + 1 <= Len(list) PROVE list[i + 1].doc_id >= d
      BY <1>1, <3>1, <3>2, <3>4
    <3>5. Fits(i + 1)
      BY <1>1, <3>2, <3>3, <3>4
    <3> QED
      BY <1>1, <3>2, <3>5
  <2> QED
    BY <2>1, <2>2
<1>3. LowerBound(list, d) \in 1 .. Len(list) + 1 /\ Fits(LowerBound(list, d))
  BY <1>2 DEF LowerBound
<1> QED
  BY <1>1, <1>3 DEF Ascending

\* vector::insert
LEMMA InsertAtFact ==
    ASSUME NEW S, NEW s \in Seq(S), NEW i \in 1 .. Len(s) + 1, NEW e \in S
    PROVE  /\ InsertAt(s, i, e) \in Seq(S)
           /\ Len(InsertAt(s, i, e)) = Len(s) + 1
           /\ \A j \in 1 .. Len(s) + 1 :
                 InsertAt(s, i, e)[j] = IF j < i THEN s[j] ELSE IF j = i THEN e ELSE s[j - 1]
<1> DEFINE a == SubSeq(s, 1, i - 1)
           b == SubSeq(s, i, Len(s))
           c == a \o <<e>>
<1>1. Len(s) \in Nat /\ \A j \in 1 .. Len(s) : s[j] \in S
  BY LenProperties, ElementOfSeq
<1>2. a \in Seq(S) /\ Len(a) = i - 1 /\ \A j \in 1 .. i - 1 : a[j] = s[j]
  BY <1>1, SubSeqProperties
<1>3. b \in Seq(S) /\ Len(b) = Len(s) - i + 1 /\ \A j \in 1 .. Len(b) : b[j] = s[j + i - 1]
  BY <1>1, SubSeqProperties
<1>4. <<e>> \in Seq(S) /\ Len(<<e>>) = 1 /\ <<e>>[1] = e
  OBVIOUS
<1> HIDE DEF a, b
<1>5. /\ c \in Seq(S) /\ Len(c) = i
      /\ \A j \in 1 .. i : c[j] = IF j < i THEN s[j] ELSE e
  BY <1>2, <1>4, ConcatProperties
<1> HIDE DEF c
<1>6. /\ c \o b \in Seq(S) /\ Len(c \o b) = Len(s) + 1
      /\ \A j \in 1 .. Len(s) + 1 : (c \o b)[j] = IF j <= i THEN c[j] ELSE b[j - i]
  BY <1>1, <1>3, <1>5, ConcatProperties
<1>7. InsertAt(s, i, e) = c \o b
  BY DEF InsertAt, a, b, c
<1> QED
  BY <1>1, <1>3, <1>5, <1>6, <1>7

\* vector::erase
LEMMA RemoveAtFact ==
    ASSUME NEW S, NEW s \in Seq(S), NEW i \in 1 .. Len(s)
    PROVE  /\ RemoveAt(s, i) \in Seq(S)
           /\ Len(RemoveAt(s, i)) = Len(s) - 1
           /\ \A j \in 1 .. Len(s) - 1 :
                 RemoveAt(s, i)[j] = IF j < i THEN s[j] ELSE s[j + 1]
<1> DEFINE a == SubSeq(s, 1, i - 1)
           b == SubSeq(s, i + 1, Len(s))
<1>1. Len(s) \in Nat /\ \A j \in 1 .. Len(s) : s[j] \in S
  BY LenProperties, ElementOfSeq
<1>2. a \in Seq(S) /\ Len(a) = i - 1 /\ \A j \in 1 .. i - 1 : a[j] = s[j]
  BY <1>1, SubSeqProperties
<1>3. b \in Seq(S) /\ Len(b) = Len(s) - i /\ \A j \in 1 .. Len(b) : b[j] = s[j + i]
  BY <1>1, SubSeqProperties
<1> HIDE DEF a, b
<1>4. /\ a \o b \in Seq(S) /\ Len(a \o b) = Len(a) + Len(b)
      /\ \A j \in 1 .. Len(a) + Len(b) :
            (a \o b)[j] = IF j <= Len(a) THEN a[j] ELSE b[j - Len(a)]
  BY <1>2, <1>3, ConcatProperties
<1>5. RemoveAt(s, i) = a \o b
  BY DEF RemoveAt, a, b
<1>6. Len(a) + Len(b) = Len(s) - 1
  BY <1>1, <1>2, <1>3
<1>7. ASSUME NEW j \in 1 .. Len(s) - 1
      PROVE  (a \o b)[j] = IF j < i THEN s[j] ELSE s[j + 1]
  <2>1. CASE j < i
    BY <1>1, <1>2, <1>4, <1>6, <2>1
  <2>2. CASE ~(j < i)
    <3>1. j - Len(a) \in 1 .. Len(b) /\ (j - Len(a)) + i = j + 1 /\ ~(j <= Len(a))
      BY <1>1, <1>2, <1>3, <2>2
    <3> QED
      BY <1>3, <1>4, <1>6, <2>2, <3>1
  <2> QED
    BY <2>1, <2>2
<1> QED
  BY <1>4, <1>5, <1>6, <1>7

\* removeDocumentPostings, one list: the document's posting is gone, the
\* others are left, in their order.
LEMMA Erased ==
    ASSUME NEW list \in Seq(Posting), Ascending(list), NEW d \in Nat
    PROVE  LET left == ErasePostingForDoc(list, d)
           IN  /\ left \in Seq(Posting) /\ Ascending(left)
               /\ ToSet(left) = {e \in ToSet(list) : e.doc_id # d}
<1> DEFINE it == LowerBound(list, d)
<1>1. /\ it \in 1 .. Len(list) + 1
      /\ \A j \in 1 .. Len(list) : list[j].doc_id < d <=> j < it
  BY LowerBoundFound
<1>2. /\ Len(list) \in Nat /\ DOMAIN list = 1 .. Len(list)
      /\ \A j \in 1 .. Len(list) : list[j].doc_id \in Nat
      /\ \A j, k \in 1 .. Len(list) : j < k => list[j].doc_id < list[k].doc_id
  BY PostingsOfList DEF Ascending
<1> HIDE DEF it
<1>3. CASE it <= Len(list) /\ list[it].doc_id = d
  <2> DEFINE left == RemoveAt(list, it)
  <2>1. it \in 1 .. Len(list)
    BY <1>1, <1>2, <1>3
  <2>2. /\ left \in Seq(Posting) /\ Len(left) = Len(list) - 1
        /\ \A j \in 1 .. Len(list) - 1 : left[j] = IF j < it THEN list[j] ELSE list[j + 1]
    BY <2>1, RemoveAtFact
  <2>3. ErasePostingForDoc(list, d) = left
    BY <1>3 DEF ErasePostingForDoc, it
  <2> HIDE DEF left
  <2>4. DOMAIN left = 1 .. Len(list) - 1
    BY <2>2, LenProperties
  <2> DEFINE Old(j) == IF j < it THEN j ELSE j + 1
  <2>5. \A j \in 1 .. Len(list) - 1 :
           Old(j) \in 1 .. Len(list) /\ Old(j) # it /\ left[j] = list[Old(j)]
    BY <1>2, <2>1, <2>2
  <2>6. \A j, k \in 1 .. Len(list) - 1 : j < k => Old(j) < Old(k)
    BY <1>2, <2>1
  <2> HIDE DEF Old
  <2>7. Ascending(left)
    BY <1>2, <2>4, <2>5, <2>6 DEF Ascending
  <2>8. \A k \in 1 .. Len(list) : k # it => list[k].doc_id # d
    BY <1>2, <1>3, <2>1
  <2>9. ASSUME NEW j \in DOMAIN left PROVE \E i \in DOMAIN list : list[i] = left[j] /\ list[i].doc_id # d
    BY <1>2, <2>4, <2>5, <2>8
  <2>10. ASSUME NEW i \in DOMAIN list, list[i].doc_id # d PROVE \E j \in DOMAIN left : left[j] = list[i]
    <3>1. CASE i < it
      <4>1. i \in 1 .. Len(list) - 1
        BY ONLY <1>2, <2>1, <3>1, i \in DOMAIN list
      <4>2. left[i] = list[i]
        BY ONLY <2>2, <3>1, <4>1
      <4> QED
        BY ONLY <2>4, <4>1, <4>2
    <3>2. CASE i > it
      <4>1. i - 1 \in 1 .. Len(list) - 1 /\ ~(i - 1 < it) /\ (i - 1) + 1 = i
        BY ONLY <1>2, <2>1, <3>2, i \in DOMAIN list
      <4>2. left[i - 1] = list[i]
        BY ONLY <2>2, <4>1
      <4> QED
        BY ONLY <2>4, <4>1, <4>2
    <3>3. i # it
      BY <1>3, <2>10
    <3>4. i < it \/ i > it
      BY ONLY <1>2, <2>1, <3>3, i \in DOMAIN list
    <3> QED
      BY ONLY <3>1, <3>2, <3>4
  <2>11. ToSet(left) = {e \in ToSet(list) : e.doc_id # d}
    BY <2>10, <2>9 DEF ToSet
  <2> QED
    BY <2>2, <2>3, <2>11, <2>7
<1>4. CASE ~(it <= Len(list) /\ list[it].doc_id = d)
  <2>1. ErasePostingForDoc(list, d) = list
    BY <1>4 DEF ErasePostingForDoc, it
  <2>2. ASSUME NEW i \in DOMAIN list PROVE list[i].doc_id # d
    BY <1>1, <1>2, <1>4 DEF Ascending
  <2> QED
    BY <2>1, <2>2 DEF ToSet
<1> QED
  BY <1>3, <1>4

\* addDocumentPostings, one list that has no posting of the document yet.
LEMMA Inserted ==
    ASSUME NEW list \in Seq(Posting), Ascending(list), NEW d \in Nat \ {0}, NEW n \in Nat \ {0},
           \A i \in DOMAIN list : list[i].doc_id # d
    PROVE  LET longer == InsertPostingSorted(list, d, n)
           IN  /\ longer \in Seq(Posting) /\ Ascending(longer)
               /\ ToSet(longer) = ToSet(list) \union {Entry(d, n)}
<1> DEFINE it == LowerBound(list, d)
           longer == InsertAt(list, it, Entry(d, n))
<1>1. /\ it \in 1 .. Len(list) + 1
      /\ \A j \in 1 .. Len(list) : list[j].doc_id < d <=> j < it
  BY LowerBoundFound
<1>2. /\ Len(list) \in Nat /\ DOMAIN list = 1 .. Len(list)
      /\ \A j \in 1 .. Len(list) : list[j].doc_id \in Nat
      /\ \A j, k \in 1 .. Len(list) : j < k => list[j].doc_id < list[k].doc_id
  BY PostingsOfList DEF Ascending
<1>3. Entry(d, n) \in Posting /\ Entry(d, n).doc_id = d
  BY DEF Entry, Posting
<1> HIDE DEF it
<1>4. /\ longer \in Seq(Posting) /\ Len(longer) = Len(list) + 1
      /\ \A j \in 1 .. Len(list) + 1 :
            longer[j] = IF j < it THEN list[j] ELSE IF j = it THEN Entry(d, n) ELSE list[j - 1]
  BY <1>1, <1>3, InsertAtFact
<1>5. InsertPostingSorted(list, d, n) = longer
  BY DEF InsertPostingSorted, it
<1> HIDE DEF longer
<1>6. DOMAIN longer = 1 .. Len(list) + 1
  BY <1>4, LenProperties
<1>7. \A j \in 1 .. Len(list) : j >= it => list[j].doc_id > d
  BY <1>1, <1>2
<1>8. Ascending(longer)
  <2> SUFFICES ASSUME NEW i \in 1 .. Len(list) + 1, NEW j \in 1 .. Len(list) + 1, i < j
               PROVE  longer[i].doc_id < longer[j].doc_id
    BY <1>6 DEF Ascending
  <2>1. CASE j < it
    <3>1. /\ i \in 1 .. Len(list) /\ j \in 1 .. Len(list)
          /\ longer[i] = list[i] /\ longer[j] = list[j]
      BY <1>1, <1>2, <1>4, <2>1
    <3> QED
      BY <1>2, <3>1
  <2>2. CASE j = it
    BY <1>1, <1>2, <1>3, <1>4, <2>2
  <2>3. CASE j > it
    <3>1. j - 1 \in 1 .. Len(list) /\ j - 1 >= it /\ longer[j] = list[j - 1]
      BY <1>1, <1>2, <1>4, <2>3
    <3>2. CASE i = it
      BY <1>3, <1>4, <1>7, <3>1, <3>2
    <3>3. CASE i < it
      <4>1. i \in 1 .. Len(list) /\ longer[i] = list[i] /\ i < j - 1
        BY <1>1, <1>2, <1>4, <3>1, <3>3
      <4> QED
        BY <1>2, <3>1, <4>1
    <3>4. CASE i > it
      <4>1. i - 1 \in 1 .. Len(list) /\ longer[i] = list[i - 1] /\ i - 1 < j - 1
        BY <1>1, <1>2, <1>4, <3>1, <3>4
      <4> QED
        BY <1>2, <3>1, <4>1
    <3> QED
      BY <1>1, <3>2, <3>3, <3>4
  <2> QED
    BY <1>1, <2>1, <2>2, <2>3
<1>9. ASSUME NEW j \in DOMAIN longer PROVE longer[j] \in ToSet(list) \union {Entry(d, n)}
  <2>1. CASE j = it
    BY <1>4, <1>6, <2>1
  <2>2. CASE j # it
    <3>1. \E i \in 1 .. Len(list) : longer[j] = list[i]
      <4>1. CASE j < it
        BY <1>1, <1>2, <1>4, <1>6, <4>1
      <4>2. CASE j > it
        <5>1. j - 1 \in 1 .. Len(list) /\ longer[j] = list[j - 1]
          BY <1>1, <1>2, <1>4, <1>6, <4>2
        <5> QED
          BY <5>1
      <4> QED
        BY <1>1, <1>2, <1>6, <2>2, <4>1, <4>2
    <3> QED
      BY <1>2, <3>1 DEF ToSet
  <2> QED
    BY <2>1, <2>2
<1>10. ASSUME NEW i \in DOMAIN list PROVE list[i] \in ToSet(longer)
  <2>1. CASE i < it
    BY <1>2, <1>4, <1>6, <2>1 DEF ToSet
  <2>2. CASE i >= it
    <3>1. i + 1 \in 1 .. Len(list) + 1 /\ ~(i + 1 < it) /\ i + 1 # it /\ (i + 1) - 1 = i
      BY <1>1, <1>2, <2>2
    <3> QED
      BY <1>4, <1>6, <3>1 DEF ToSet
  <2> QED
    BY <1>1, <1>2, <2>1, <2>2
<1>11. Entry(d, n) \in ToSet(longer)
  BY <1>1, <1>4, <1>6 DEF ToSet
<1>12. ToSet(longer) = ToSet(list) \union {Entry(d, n)}
  BY <1>9, <1>10, <1>11 DEF ToSet
<1> QED
  BY <1>4, <1>5, <1>8, <1>12

-----------------------------------------------------------------------------
(***************************************************************************)
(* std::ranges::sort on a list that has each document once.  The place of  *)
(* a posting in the sorted list is the number of postings up to it.        *)
(***************************************************************************)
LEMMA OrderExists ==
    ASSUME NEW list \in Seq(Posting), Distinct(list)
    PROVE  \E p \in Bijection(DOMAIN list, DOMAIN list) :
              \A i, j \in DOMAIN list : i < j => list[p[i]].doc_id <= list[p[j]].doc_id
<1> DEFINE P == DOMAIN list
           UpTo(i) == {j \in P : list[j].doc_id <= list[i].doc_id}
           rank == [i \in P |-> Cardinality(UpTo(i))]
<1>1. /\ Len(list) \in Nat /\ P = 1 .. Len(list)
      /\ \A j \in P : list[j].doc_id \in Nat
      /\ IsFiniteSet(P) /\ Cardinality(P) = Len(list)
  <2>1. /\ Len(list) \in Nat /\ P = 1 .. Len(list)
        /\ \A j \in P : list[j].doc_id \in Nat
    BY PostingsOfList
  <2>2. IsFiniteSet(1 .. Len(list)) /\ Cardinality(1 .. Len(list)) = Len(list)
    <3>1. 1 \in Int /\ Len(list) \in Int /\ (1 > Len(list) => Len(list) = 0)
          /\ Len(list) - 1 + 1 = Len(list)
      BY <2>1
    <3> QED
      BY <3>1, FS_Interval
  <2> QED
    BY <2>1, <2>2
<1>2. \A i \in P : /\ IsFiniteSet(UpTo(i))
                   /\ Cardinality(UpTo(i)) \in P /\ Cardinality(UpTo(i)) \in Nat
  <2> TAKE i \in P
  <2>1. IsFiniteSet(UpTo(i)) /\ Cardinality(UpTo(i)) <= Len(list) /\ Cardinality(UpTo(i)) \in Nat
    BY <1>1, FS_Subset, FS_CardinalityType
  <2>2. i \in UpTo(i)
    BY <1>1
  <2>3. Cardinality(UpTo(i)) # 0
    BY <2>1, <2>2, FS_EmptySet
  <2> QED
    BY <1>1, <2>1, <2>3
<1>3. \A i, j \in P : list[i].doc_id < list[j].doc_id => rank[i] < rank[j]
  <2> SUFFICES ASSUME NEW i \in P, NEW j \in P, list[i].doc_id < list[j].doc_id
               PROVE  Cardinality(UpTo(i)) < Cardinality(UpTo(j))
    OBVIOUS
  <2>1. UpTo(i) \subseteq UpTo(j)
    BY <1>1
  <2>2. j \in UpTo(j) /\ j \notin UpTo(i)
    BY <1>1
  <2>3. Cardinality(UpTo(i)) <= Cardinality(UpTo(j)) /\ Cardinality(UpTo(i)) # Cardinality(UpTo(j))
    BY <1>2, <2>1, <2>2, FS_Subset
  <2>4. Cardinality(UpTo(i)) \in Nat /\ Cardinality(UpTo(j)) \in Nat
    BY <1>2
  <2> HIDE DEF UpTo
  <2> QED
    BY <2>3, <2>4
<1>4. rank \in [P -> P]
  BY <1>2
<1> HIDE DEF rank
<1>5. rank \in Injection(P, P)
  BY <1>1, <1>3, <1>4 DEF Distinct, Injection, IsInjective
<1>6. rank \in Surjection(P, P)
  BY <1>1, <1>5, FS_Injection
<1> DEFINE p == [k \in P |-> CHOOSE i \in P : rank[i] = k]
<1>7. \A k \in P : p[k] \in P /\ rank[p[k]] = k
  BY <1>6 DEF Surjection
<1>8. \A i \in P : p[rank[i]] = i
  BY <1>4, <1>5, <1>7 DEF Injection, IsInjective
<1>9. p \in Bijection(P, P)
  <2>1. p \in [P -> P]
    BY <1>7
  <2>2. p \in Injection(P, P)
    BY <1>7, <2>1 DEF Injection, IsInjective
  <2>3. p \in Surjection(P, P)
    BY <1>4, <1>8, <2>1 DEF Surjection
  <2> QED
    BY <2>2, <2>3 DEF Bijection
<1>10. ASSUME NEW k \in P, NEW l \in P, k < l PROVE list[p[k]].doc_id <= list[p[l]].doc_id
  <2>1. p[k] \in P /\ p[l] \in P /\ rank[p[k]] < rank[p[l]]
    BY <1>7, <1>10
  <2>2. ~(list[p[l]].doc_id < list[p[k]].doc_id)
    BY <1>1, <1>3, <1>4, <2>1
  <2> QED
    BY <1>1, <2>1, <2>2
<1> QED
  BY <1>9, <1>10

\* Sorted, a list has the postings it had, in order.
LEMMA Sorted ==
    ASSUME NEW list \in Seq(Posting), Distinct(list)
    PROVE  /\ SortList(list) \in Seq(Posting) /\ Ascending(SortList(list))
           /\ ToSet(SortList(list)) = ToSet(list)
<1> DEFINE P == DOMAIN list
           Orders(p) == \A i, j \in P : i < j => list[p[i]].doc_id <= list[p[j]].doc_id
           order == CHOOSE p \in Bijection(P, P) : Orders(p)
           sorted == [i \in P |-> list[order[i]]]
<1>1. /\ Len(list) \in Nat /\ P = 1 .. Len(list)
      /\ \A j \in P : list[j] \in Posting /\ list[j].doc_id \in Nat
  BY PostingsOfList
<1>2. order \in Bijection(P, P) /\ Orders(order)
  BY OrderExists
<1>3. SortList(list) = sorted
  BY DEF SortList
<1> HIDE DEF order
<1>4. /\ order \in [P -> P]
      /\ \A i, j \in P : order[i] = order[j] => i = j
      /\ \A k \in P : \E i \in P : order[i] = k
  BY <1>2 DEF Bijection, Injection, Surjection, IsInjective
<1>5. sorted \in [1 .. Len(list) -> Posting]
  BY <1>1, <1>4
<1>6. sorted \in Seq(Posting)
  BY <1>1, <1>5
<1>7. Ascending(sorted)
  <2> SUFFICES ASSUME NEW i \in P, NEW j \in P, i < j
               PROVE  list[order[i]].doc_id < list[order[j]].doc_id
    BY DEF Ascending
  <2>1. order[i] \in P /\ order[j] \in P /\ order[i] # order[j]
    BY <1>1, <1>4
  <2>2. list[order[i]].doc_id <= list[order[j]].doc_id
    BY <1>2
  <2>3. list[order[i]].doc_id # list[order[j]].doc_id
    BY <2>1 DEF Distinct
  <2> QED
    BY <1>1, <2>1, <2>2, <2>3
<1>8. ToSet(sorted) = ToSet(list)
  BY <1>4 DEF ToSet
<1> QED
  BY <1>3, <1>6, <1>7, <1>8

-----------------------------------------------------------------------------
(***************************************************************************)
(* Dictionaries.  Bags gives every document its bag of terms; a dictionary *)
(* is its inverse when it holds exactly the terms of the documents and     *)
(* lists for each of them exactly the documents that have it.              *)
(***************************************************************************)
IsBagOf(bag) == bag \in [DOMAIN bag -> Nat \ {0}]

AreBags(bags) ==
    /\ bags = [d \in DOMAIN bags |-> bags[d]]
    /\ DOMAIN bags \subseteq Nat \ {0} /\ \A d \in DOMAIN bags : IsBagOf(bags[d])

HoldersIn(bags, t) == {d \in DOMAIN bags : t \in DOMAIN bags[d]}
TermsOf(bags) == UNION {DOMAIN bags[d] : d \in DOMAIN bags}
PostingsIn(bags, t) == {Entry(d, bags[d][t]) : d \in HoldersIn(bags, t)}

Inverts(dict, bags) ==
    /\ DOMAIN dict = TermsOf(bags)
    /\ \A t \in DOMAIN dict : dict[t] \in Seq(Posting) /\ ToSet(dict[t]) = PostingsIn(bags, t)

AllAscending(dict) == \A t \in DOMAIN dict : Ascending(dict[t])
AllDistinct(dict) == \A t \in DOMAIN dict : Distinct(dict[t])

With(bags, d, bag) == [e \in DOMAIN bags \union {d} |-> IF e = d THEN bag ELSE bags[e]]
Without(bags, d) == [e \in DOMAIN bags \ {d} |-> bags[e]]

\* A document is in a list of an inverse iff it has the term.
LEMMA Listed ==
    ASSUME NEW dict, NEW bags, Inverts(dict, bags), NEW t \in DOMAIN dict
    PROVE  /\ \A i \in DOMAIN dict[t] :
                 dict[t][i].doc_id \in HoldersIn(bags, t) /\ dict[t][i].count = bags[dict[t][i].doc_id][t]
           /\ \A d \in HoldersIn(bags, t) : \E i \in DOMAIN dict[t] : dict[t][i] = Entry(d, bags[d][t])
<1>1. \A i \in DOMAIN dict[t] : dict[t][i] \in PostingsIn(bags, t)
  BY DEF Inverts, ToSet
<1>2. \A e \in PostingsIn(bags, t) : e.doc_id \in HoldersIn(bags, t) /\ e.count = bags[e.doc_id][t]
  BY DEF PostingsIn, Entry
<1>3. \A d \in HoldersIn(bags, t) : Entry(d, bags[d][t]) \in ToSet(dict[t])
  BY DEF Inverts, PostingsIn
<1> QED
  BY <1>1, <1>2, <1>3 DEF ToSet

LEMMA EmptyList == << >> \in Seq(Posting) /\ Ascending(<< >>) /\ Distinct(<< >>) /\ ToSet(<< >>) = {}
  BY DEF Ascending, Distinct, ToSet

LEMMA EmptyOrListed ==
    ASSUME NEW list \in Seq(Posting)
    PROVE  list = << >> <=> ToSet(list) = {}
<1>1. Len(list) \in Nat /\ DOMAIN list = 1 .. Len(list)
  BY LenProperties
<1>2. CASE Len(list) = 0
  <2>1. list = << >>
    BY <1>2, EmptySeq
  <2> QED
    BY <2>1 DEF ToSet
<1>3. CASE Len(list) # 0
  <2>1. 1 \in DOMAIN list
    BY <1>1, <1>3
  <2> QED
    BY <2>1 DEF ToSet
<1> QED
  BY <1>2, <1>3

\* An ascending list has each document once.
LEMMA AscendingIsDistinct ==
    ASSUME NEW list \in Seq(Posting), Ascending(list)
    PROVE  Distinct(list)
<1>1. /\ DOMAIN list = 1 .. Len(list) /\ Len(list) \in Nat
      /\ \A j \in 1 .. Len(list) : list[j].doc_id \in Nat
  BY PostingsOfList
<1> QED
  BY <1>1 DEF Ascending, Distinct

\* removeDocumentPostings: the dictionary is the inverse of the documents
\* that are left.
LEMMA DictWithoutInverts ==
    ASSUME NEW dict, NEW bags, AreBags(bags), Inverts(dict, bags), AllAscending(dict),
           NEW d \in DOMAIN bags
    PROVE  LET left == DictWithout(dict, bags, d)
           IN  Inverts(left, Without(bags, d)) /\ AllAscending(left)
<1> DEFINE Left(t) == IF t \in DOMAIN bags[d] THEN ErasePostingForDoc(dict[t], d) ELSE dict[t]
           emptied == {t \in DOMAIN dict \cap DOMAIN bags[d] : Left(t) = << >>}
           left == [t \in DOMAIN dict \ emptied |-> Left(t)]
           rest == Without(bags, d)
<1>1. DictWithout(dict, bags, d) = left
  BY DEF DictWithout
<1>2. \A t : HoldersIn(rest, t) = HoldersIn(bags, t) \ {d} /\ DOMAIN rest = DOMAIN bags \ {d}
  BY DEF HoldersIn, Without
<1>3. \A t : \A e \in HoldersIn(rest, t) : rest[e] = bags[e]
  BY DEF HoldersIn, Without
<1>4. \A t : t \in TermsOf(bags) <=> HoldersIn(bags, t) # {}
  BY DEF TermsOf, HoldersIn
<1>5. \A t : t \in TermsOf(rest) <=> HoldersIn(rest, t) # {}
  BY DEF TermsOf, HoldersIn
<1>6. \A t : PostingsIn(rest, t) = {e \in PostingsIn(bags, t) : e.doc_id # d}
  BY <1>2, <1>3 DEF PostingsIn, Entry
<1>7. ASSUME NEW t \in DOMAIN dict
      PROVE  Left(t) \in Seq(Posting) /\ Ascending(Left(t)) /\ ToSet(Left(t)) = PostingsIn(rest, t)
  <2>1. dict[t] \in Seq(Posting) /\ Ascending(dict[t]) /\ ToSet(dict[t]) = PostingsIn(bags, t)
    BY DEF Inverts, AllAscending
  <2>2. CASE t \in DOMAIN bags[d]
    BY <1>6, <2>1, <2>2, Erased DEF AreBags
  <2>3. CASE t \notin DOMAIN bags[d]
    <3>1. \A e \in PostingsIn(bags, t) : e.doc_id # d
      BY <2>3 DEF PostingsIn, HoldersIn, Entry
    <3> QED
      BY <1>6, <2>1, <2>3, <3>1
  <2> QED
    BY <2>2, <2>3
<1>8. \A t \in DOMAIN dict : t \in emptied <=> HoldersIn(rest, t) = {}
  <2> TAKE t \in DOMAIN dict
  <2> HIDE DEF Left
  <2>1. Left(t) = << >> <=> ToSet(Left(t)) = {}
    BY <1>7, EmptyOrListed
  <2>2. ToSet(Left(t)) = {} <=> HoldersIn(rest, t) = {}
    <3>1. PostingsIn(rest, t) = {} <=> HoldersIn(rest, t) = {}
      BY DEF PostingsIn
    <3> QED
      BY <1>7, <3>1
  <2> USE DEF Left
  <2>3. t \notin DOMAIN bags[d] => HoldersIn(rest, t) # {}
    BY <1>2, <1>4 DEF Inverts, HoldersIn
  <2> QED
    BY <2>1, <2>2, <2>3
<1> HIDE DEF Left, emptied, rest
<1>9. DOMAIN left = TermsOf(rest)
  BY <1>2, <1>4, <1>5, <1>8 DEF Inverts
<1> QED
  BY <1>1, <1>7, <1>9 DEF Inverts, AllAscending, rest

\* What adding a document to the documents of a dictionary adds to a list.
LEMMA WithPostings ==
    ASSUME NEW bags, NEW d, d \notin DOMAIN bags, NEW bag, NEW t
    PROVE  /\ t \in DOMAIN bag =>
                 PostingsIn(With(bags, d, bag), t) = PostingsIn(bags, t) \union {Entry(d, bag[t])}
           /\ t \notin DOMAIN bag => PostingsIn(With(bags, d, bag), t) = PostingsIn(bags, t)
<1> DEFINE more == With(bags, d, bag)
<1>1. /\ t \in DOMAIN bag => HoldersIn(more, t) = HoldersIn(bags, t) \union {d}
      /\ t \notin DOMAIN bag => HoldersIn(more, t) = HoldersIn(bags, t)
  BY DEF HoldersIn, With
<1>2. \A e \in HoldersIn(bags, t) : more[e] = bags[e]
  BY DEF HoldersIn, With
<1>3. more[d] = bag
  BY DEF With
<1> HIDE DEF more
<1>4. /\ t \in DOMAIN bag => PostingsIn(more, t) = PostingsIn(bags, t) \union {Entry(d, bag[t])}
      /\ t \notin DOMAIN bag => PostingsIn(more, t) = PostingsIn(bags, t)
  BY <1>1, <1>2, <1>3 DEF PostingsIn
<1> QED
  BY <1>4 DEF more

\* The list of a term before a document is added: no posting of it yet.
LEMMA ListBefore ==
    ASSUME NEW dict, NEW bags, AreBags(bags), Inverts(dict, bags),
           NEW d \in Nat \ {0}, d \notin DOMAIN bags, NEW t
    PROVE  LET list == GetWordCount(dict, t)
           IN  /\ list \in Seq(Posting) /\ ToSet(list) = PostingsIn(bags, t)
               /\ \A i \in DOMAIN list : list[i].doc_id # d
               /\ AllAscending(dict) => Ascending(list)
               /\ AllDistinct(dict) => Distinct(list)
<1>1. CASE t \in DOMAIN dict
  <2>1. \A i \in DOMAIN dict[t] : dict[t][i].doc_id \in DOMAIN bags
    BY <1>1, Listed DEF HoldersIn
  <2> QED
    BY <1>1, <2>1 DEF GetWordCount, Inverts, AllAscending, AllDistinct
<1>2. CASE t \notin DOMAIN dict
  <2>1. PostingsIn(bags, t) = {}
    BY <1>2 DEF Inverts, PostingsIn, HoldersIn, TermsOf
  <2> QED
    BY <1>2, <2>1, EmptyList DEF GetWordCount
<1> QED
  BY <1>1, <1>2

LEMMA WithTerms ==
    ASSUME NEW bags, NEW d, d \notin DOMAIN bags, NEW bag
    PROVE  TermsOf(With(bags, d, bag)) = TermsOf(bags) \union DOMAIN bag
  BY DEF TermsOf, With

\* addDocumentPostings, for a document the dictionary does not hold.
LEMMA DictWithInverts ==
    ASSUME NEW dict, NEW bags, AreBags(bags), Inverts(dict, bags), AllAscending(dict),
           NEW d \in Nat \ {0}, d \notin DOMAIN bags, NEW bag, IsBagOf(bag)
    PROVE  LET more == DictWith(dict, d, bag)
           IN  Inverts(more, With(bags, d, bag)) /\ AllAscending(more)
<1> DEFINE more == DictWith(dict, d, bag)
<1>1. DOMAIN more = TermsOf(With(bags, d, bag))
  BY WithTerms DEF DictWith, Inverts
<1>2. ASSUME NEW t \in DOMAIN more
      PROVE  /\ more[t] \in Seq(Posting) /\ Ascending(more[t])
             /\ ToSet(more[t]) = PostingsIn(With(bags, d, bag), t)
  <2>1. CASE t \in DOMAIN bag
    <3>1. more[t] = InsertPostingSorted(GetWordCount(dict, t), d, bag[t]) /\ bag[t] \in Nat \ {0}
      BY <2>1 DEF DictWith, IsBagOf
    <3>2. /\ GetWordCount(dict, t) \in Seq(Posting) /\ Ascending(GetWordCount(dict, t))
          /\ ToSet(GetWordCount(dict, t)) = PostingsIn(bags, t)
          /\ \A i \in DOMAIN GetWordCount(dict, t) : GetWordCount(dict, t)[i].doc_id # d
      BY ListBefore
    <3> HIDE DEF more
    <3>3. /\ more[t] \in Seq(Posting) /\ Ascending(more[t])
          /\ ToSet(more[t]) = PostingsIn(bags, t) \union {Entry(d, bag[t])}
      BY <3>1, <3>2, Inserted
    <3> QED
      BY <2>1, <3>3, WithPostings
  <2>2. CASE t \notin DOMAIN bag
    <3>1. t \in DOMAIN dict /\ more[t] = dict[t]
      BY <2>2 DEF DictWith, Inverts
    <3>2. dict[t] \in Seq(Posting) /\ ToSet(dict[t]) = PostingsIn(bags, t) /\ Ascending(dict[t])
      BY <3>1 DEF Inverts, AllAscending
    <3>3. PostingsIn(With(bags, d, bag), t) = PostingsIn(bags, t)
      BY <2>2, WithPostings
    <3> HIDE DEF more
    <3> QED
      BY <3>1, <3>2, <3>3
  <2> QED
    BY <2>1, <2>2
<1> QED
  BY <1>1, <1>2 DEF Inverts, AllAscending

\* vector::push_back of a posting of a document the list does not hold.
LEMMA Pushed ==
    ASSUME NEW list \in Seq(Posting), Distinct(list), NEW d \in Nat \ {0}, NEW n \in Nat \ {0},
           \A i \in DOMAIN list : list[i].doc_id # d
    PROVE  LET longer == Append(list, Entry(d, n))
           IN  /\ longer \in Seq(Posting) /\ Distinct(longer)
               /\ ToSet(longer) = ToSet(list) \union {Entry(d, n)}
<1> DEFINE longer == Append(list, Entry(d, n))
<1>1. /\ Len(list) \in Nat /\ DOMAIN list = 1 .. Len(list)
      /\ \A j \in 1 .. Len(list) : list[j].doc_id \in Nat
  BY PostingsOfList
<1>2. Entry(d, n) \in Posting /\ Entry(d, n).doc_id = d
  BY DEF Entry, Posting
<1>3. /\ longer \in Seq(Posting) /\ Len(longer) = Len(list) + 1
      /\ \A i \in 1 .. Len(list) : longer[i] = list[i]
      /\ longer[Len(list) + 1] = Entry(d, n)
  BY <1>2, AppendProperties
<1> HIDE DEF longer
<1>4. DOMAIN longer = 1 .. Len(list) + 1
  BY <1>3, LenProperties
<1>5. \A i \in DOMAIN longer : i \in DOMAIN list \/ i = Len(list) + 1
  BY <1>1, <1>4
<1>6. Distinct(longer)
  BY <1>1, <1>2, <1>3, <1>5 DEF Distinct
<1>7. DOMAIN list \subseteq DOMAIN longer /\ Len(list) + 1 \in DOMAIN longer
  BY <1>1, <1>4
<1>8. ToSet(longer) = ToSet(list) \union {Entry(d, n)}
  BY <1>1, <1>3, <1>5, <1>7 DEF ToSet
<1> QED
  BY <1>3, <1>6, <1>8 DEF longer

\* A worker indexes a document that none has indexed.
LEMMA PushPostingsInverts ==
    ASSUME NEW dict, NEW bags, AreBags(bags), Inverts(dict, bags), AllDistinct(dict),
           NEW d \in Nat \ {0}, d \notin DOMAIN bags, NEW bag, IsBagOf(bag)
    PROVE  LET more == PushPostings(dict, d, bag)
           IN  Inverts(more, With(bags, d, bag)) /\ AllDistinct(more)
<1> DEFINE more == PushPostings(dict, d, bag)
<1>1. DOMAIN more = TermsOf(With(bags, d, bag))
  BY WithTerms DEF PushPostings, Inverts
<1>2. ASSUME NEW t \in DOMAIN more
      PROVE  /\ more[t] \in Seq(Posting) /\ Distinct(more[t])
             /\ ToSet(more[t]) = PostingsIn(With(bags, d, bag), t)
  <2>1. CASE t \in DOMAIN bag
    <3>1. more[t] = Append(GetWordCount(dict, t), Entry(d, bag[t])) /\ bag[t] \in Nat \ {0}
      BY <2>1 DEF PushPostings, IsBagOf
    <3>2. /\ GetWordCount(dict, t) \in Seq(Posting) /\ Distinct(GetWordCount(dict, t))
          /\ ToSet(GetWordCount(dict, t)) = PostingsIn(bags, t)
          /\ \A i \in DOMAIN GetWordCount(dict, t) : GetWordCount(dict, t)[i].doc_id # d
      BY ListBefore
    <3> HIDE DEF more
    <3>3. /\ more[t] \in Seq(Posting) /\ Distinct(more[t])
          /\ ToSet(more[t]) = PostingsIn(bags, t) \union {Entry(d, bag[t])}
      BY <3>1, <3>2, Pushed
    <3> QED
      BY <2>1, <3>3, WithPostings
  <2>2. CASE t \notin DOMAIN bag
    <3>1. t \in DOMAIN dict /\ more[t] = dict[t]
      BY <2>2 DEF PushPostings, Inverts
    <3>2. dict[t] \in Seq(Posting) /\ ToSet(dict[t]) = PostingsIn(bags, t) /\ Distinct(dict[t])
      BY <3>1 DEF Inverts, AllDistinct
    <3>3. PostingsIn(With(bags, d, bag), t) = PostingsIn(bags, t)
      BY <2>2, WithPostings
    <3> HIDE DEF more
    <3> QED
      BY <3>1, <3>2, <3>3
  <2> QED
    BY <2>1, <2>2
<1> QED
  BY <1>1, <1>2 DEF Inverts, AllDistinct

\* The lists of the workers, joined and sorted.
LEMMA SortPostingsInverts ==
    ASSUME NEW dict, NEW bags, Inverts(dict, bags), AllDistinct(dict)
    PROVE  Inverts(SortPostings(dict), bags) /\ AllAscending(SortPostings(dict))
  BY Sorted DEF Inverts, AllDistinct, AllAscending, SortPostings

-----------------------------------------------------------------------------
(***************************************************************************)
(* Dictionaries of a bulk load: parts of one, and two joined.              *)
(***************************************************************************)
\* The bags as far as the terms of W go, and the lists of these terms.
Only(bags, W) == [d \in DOMAIN bags |-> [t \in DOMAIN bags[d] \cap W |-> bags[d][t]]]
OnlyOf(dict, W) == [t \in DOMAIN dict \cap W |-> dict[t]]

LEMMA OnlyInverts ==
    ASSUME NEW dict, NEW bags, NEW W, Inverts(dict, bags), AllDistinct(dict)
    PROVE  Inverts(OnlyOf(dict, W), Only(bags, W)) /\ AllDistinct(OnlyOf(dict, W))
<1>1. \A t : t \in W => /\ HoldersIn(Only(bags, W), t) = HoldersIn(bags, t)
                        /\ \A d \in HoldersIn(bags, t) : Only(bags, W)[d][t] = bags[d][t]
  BY DEF HoldersIn, Only
<1>2. \A t : t \in W => PostingsIn(Only(bags, W), t) = PostingsIn(bags, t)
  BY <1>1 DEF PostingsIn
<1>3. TermsOf(Only(bags, W)) = TermsOf(bags) \cap W
  BY DEF TermsOf, Only
<1> QED
  BY <1>2, <1>3 DEF Inverts, AllDistinct, OnlyOf

\* Two lists with no document in common, one behind the other.
LEMMA ListsJoined ==
    ASSUME NEW a \in Seq(Posting), NEW b \in Seq(Posting), Distinct(a), Distinct(b),
           \A i \in DOMAIN a, j \in DOMAIN b : a[i].doc_id # b[j].doc_id
    PROVE  /\ a \o b \in Seq(Posting) /\ Distinct(a \o b)
           /\ ToSet(a \o b) = ToSet(a) \union ToSet(b)
<1> DEFINE c == a \o b
           n == Len(a)
           m == Len(b)
<1>1. /\ n \in Nat /\ m \in Nat /\ DOMAIN a = 1 .. n /\ DOMAIN b = 1 .. m
  BY LenProperties
<1>2. /\ c \in Seq(Posting) /\ Len(c) = n + m
      /\ \A i \in 1 .. n + m : c[i] = IF i <= n THEN a[i] ELSE b[i - n]
  BY ConcatProperties
<1> HIDE DEF c, n, m
<1>3. DOMAIN c = 1 .. n + m
  BY <1>2, LenProperties
<1>4. \A i \in DOMAIN c : \/ i \in DOMAIN a /\ c[i] = a[i]
                          \/ i - n \in DOMAIN b /\ c[i] = b[i - n] /\ i > n
  BY <1>1, <1>2, <1>3
<1>5. ASSUME NEW i \in DOMAIN c, NEW j \in DOMAIN c, c[i].doc_id = c[j].doc_id PROVE i = j
  <2>1. CASE i \in DOMAIN a /\ c[i] = a[i] /\ j \in DOMAIN a /\ c[j] = a[j]
    BY <1>5, <2>1 DEF Distinct
  <2>2. CASE i - n \in DOMAIN b /\ c[i] = b[i - n] /\ j - n \in DOMAIN b /\ c[j] = b[j - n]
    <3>1. i - n = j - n
      BY <1>5, <2>2 DEF Distinct
    <3> QED
      BY <1>1, <1>3, <3>1
  <2> QED
    BY <1>4, <1>5, <2>1, <2>2
<1>6. \A i \in DOMAIN a : i \in DOMAIN c /\ c[i] = a[i]
  BY <1>1, <1>2, <1>3
<1>7. \A j \in DOMAIN b : n + j \in DOMAIN c /\ c[n + j] = b[j]
  <2> TAKE j \in DOMAIN b
  <2>1. n + j \in 1 .. n + m /\ ~(n + j <= n) /\ (n + j) - n = j
    BY <1>1
  <2> QED
    BY <1>2, <1>3, <2>1
<1>8. ToSet(c) = ToSet(a) \union ToSet(b)
  BY <1>4, <1>6, <1>7 DEF ToSet
<1> QED
  BY <1>2, <1>5, <1>8 DEF Distinct, c

\* The documents of two disjoint sets.
Both(p, q) == [d \in DOMAIN p \union DOMAIN q |-> IF d \in DOMAIN p THEN p[d] ELSE q[d]]

Joined(dict, more) ==
    [t \in DOMAIN dict \union DOMAIN more |-> GetWordCount(dict, t) \o GetWordCount(more, t)]

\* Every list of a dictionary, the empty one of an unknown term included, has
\* the postings of the documents.
LEMMA ListOfTerm ==
    ASSUME NEW dict, NEW bags, Inverts(dict, bags), AllDistinct(dict), NEW t
    PROVE  LET list == GetWordCount(dict, t)
           IN  /\ list \in Seq(Posting) /\ Distinct(list) /\ ToSet(list) = PostingsIn(bags, t)
               /\ \A i \in DOMAIN list : list[i].doc_id \in DOMAIN bags
<1>1. CASE t \in DOMAIN dict
  BY <1>1, Listed DEF GetWordCount, Inverts, AllDistinct, HoldersIn
<1>2. CASE t \notin DOMAIN dict
  <2>1. PostingsIn(bags, t) = {}
    BY <1>2 DEF Inverts, PostingsIn, HoldersIn, TermsOf
  <2> QED
    BY <1>2, <2>1, EmptyList DEF GetWordCount
<1> QED
  BY <1>1, <1>2

LEMMA JoinedInverts ==
    ASSUME NEW dict, NEW p, Inverts(dict, p), AllDistinct(dict),
           NEW more, NEW q, Inverts(more, q), AllDistinct(more),
           DOMAIN p \cap DOMAIN q = {}
    PROVE  Inverts(Joined(dict, more), Both(p, q)) /\ AllDistinct(Joined(dict, more))
<1>1. ASSUME NEW t PROVE PostingsIn(Both(p, q), t) = PostingsIn(p, t) \union PostingsIn(q, t)
  <2>1. HoldersIn(Both(p, q), t) = HoldersIn(p, t) \union HoldersIn(q, t)
    BY DEF HoldersIn, Both
  <2>2. \A d \in HoldersIn(p, t) : Both(p, q)[d] = p[d]
    BY DEF HoldersIn, Both
  <2>3. \A d \in HoldersIn(q, t) : Both(p, q)[d] = q[d]
    BY DEF HoldersIn, Both
  <2> QED
    BY <2>1, <2>2, <2>3 DEF PostingsIn
<1>2. TermsOf(Both(p, q)) = TermsOf(p) \union TermsOf(q)
  BY DEF TermsOf, Both
<1>3. ASSUME NEW t \in DOMAIN Joined(dict, more)
      PROVE  /\ Joined(dict, more)[t] \in Seq(Posting) /\ Distinct(Joined(dict, more)[t])
             /\ ToSet(Joined(dict, more)[t]) = PostingsIn(Both(p, q), t)
  <2> DEFINE a == GetWordCount(dict, t)
             b == GetWordCount(more, t)
  <2>1. /\ a \in Seq(Posting) /\ Distinct(a) /\ ToSet(a) = PostingsIn(p, t)
        /\ \A i \in DOMAIN a : a[i].doc_id \in DOMAIN p
    BY ListOfTerm
  <2>2. /\ b \in Seq(Posting) /\ Distinct(b) /\ ToSet(b) = PostingsIn(q, t)
        /\ \A i \in DOMAIN b : b[i].doc_id \in DOMAIN q
    BY ListOfTerm
  <2>3. Joined(dict, more)[t] = a \o b
    BY DEF Joined
  <2> HIDE DEF a, b
  <2>4. \A i \in DOMAIN a, j \in DOMAIN b : a[i].doc_id # b[j].doc_id
    BY <2>1, <2>2
  <2> QED
    BY <1>1, <2>1, <2>2, <2>3, <2>4, ListsJoined
<1>4. DOMAIN Joined(dict, more) = TermsOf(Both(p, q))
  BY <1>2 DEF Joined, Inverts
<1> QED
  BY <1>3, <1>4 DEF Inverts, AllDistinct

\* One list sorted, as one step of a sorting thread.
LEMMA SortOneInverts ==
    ASSUME NEW dict, NEW bags, Inverts(dict, bags), AllDistinct(dict), NEW k \in DOMAIN dict,
           dict = [t \in DOMAIN dict |-> dict[t]]
    PROVE  LET more == [dict EXCEPT ![k] = SortList(@)]
           IN  /\ Inverts(more, bags) /\ AllDistinct(more)
               /\ DOMAIN more = DOMAIN dict /\ Ascending(more[k])
               /\ \A t \in DOMAIN dict : Ascending(dict[t]) => Ascending(more[t])
<1> DEFINE more == [dict EXCEPT ![k] = SortList(@)]
<1>1. /\ DOMAIN more = DOMAIN dict /\ more[k] = SortList(dict[k])
      /\ \A t \in DOMAIN dict : t # k => more[t] = dict[t]
  OBVIOUS
<1> HIDE DEF more
<1>2. dict[k] \in Seq(Posting) /\ Distinct(dict[k]) /\ ToSet(dict[k]) = PostingsIn(bags, k)
  BY DEF Inverts, AllDistinct
<1>3. /\ more[k] \in Seq(Posting) /\ Ascending(more[k]) /\ ToSet(more[k]) = PostingsIn(bags, k)
  BY <1>1, <1>2, Sorted
<1>4. Distinct(more[k])
  BY <1>3, AscendingIsDistinct
<1>5. Inverts(more, bags)
  BY <1>1, <1>3 DEF Inverts
<1>6. AllDistinct(more)
  BY <1>1, <1>4 DEF AllDistinct
<1>7. \A t \in DOMAIN dict : Ascending(dict[t]) => Ascending(more[t])
  BY <1>1, <1>3
<1> QED
  BY <1>1, <1>3, <1>5, <1>6, <1>7 DEF more

-----------------------------------------------------------------------------
(***************************************************************************)
(* The forward index, read back from the posting lists.                    *)
(***************************************************************************)
\* The sum over one position is the count there.
LEMMA SumOfOne ==
    ASSUME NEW list, NEW i, list[i].count \in Nat
    PROVE  MapThenSumSet(LAMBDA j : list[j].count, {i}) = list[i].count
<1> DEFINE Pick(s) == CHOOSE x \in s : TRUE
           Body(iter) == [s \in SUBSET {i} |->
                             IF s = {} THEN 0 ELSE list[Pick(s)].count + iter[s \ {Pick(s)}]]
           total == [s \in SUBSET {i} |-> IF s = {} THEN 0 ELSE list[i].count]
           sum == CHOOSE iter : iter = Body(iter)
<1>1. \A s \in SUBSET {i} : s = {} \/ (s = {i} /\ Pick(s) = i /\ s \ {Pick(s)} = {})
  OBVIOUS
<1>2. total = Body(total)
  BY <1>1
<1>3. sum = Body(sum)
  BY <1>2
<1> HIDE DEF sum
<1>4. sum[{}] = 0
  BY <1>3
<1>5. sum[{i}] = list[i].count + sum[{i} \ {Pick({i})}]
  BY <1>3
<1>6. sum[{i}] = list[i].count
  <2>1. {i} \ {Pick({i})} = {}
    OBVIOUS
  <2>2. sum[{i}] = list[i].count + 0
    BY ONLY <1>4, <1>5, <2>1
  <2> QED
    BY ONLY <2>2, list[i].count \in Nat
<1>7. MapThenSumSet(LAMBDA j : list[j].count, {i}) = sum[{i}]
  BY ONLY TRUE DEF MapThenSumSet, MapThenFoldSet, sum
<1> QED
  BY <1>6, <1>7

\* rebuildDocTermFreqsAndIdMap: the bags of the documents a dictionary is
\* the inverse of are read back from it.
LEMMA ForwardOfInverse ==
    ASSUME NEW dict, NEW n \in Nat, NEW bags, DOMAIN bags = 1 .. n, AreBags(bags),
           Inverts(dict, bags), AllDistinct(dict)
    PROVE  ForwardOf(dict, n) = bags
<1> DEFINE Sum(t, d) == MapThenSumSet(LAMBDA i : dict[t][i].count, PositionsOf(dict[t], d))
           Terms(d) == {u \in DOMAIN dict : PositionsOf(dict[u], d) # {}}
<1>1. ForwardOf(dict, n) = [d \in 1 .. n |-> [t \in Terms(d) |-> Sum(t, d)]]
  BY DEF ForwardOf
<1>2. ASSUME NEW d \in 1 .. n, NEW t \in DOMAIN bags[d]
      PROVE  t \in Terms(d) /\ Sum(t, d) = bags[d][t]
  <2>1. d \in HoldersIn(bags, t) /\ t \in DOMAIN dict
    BY <1>2 DEF HoldersIn, Inverts, TermsOf
  <2>2. PICK i \in DOMAIN dict[t] : dict[t][i] = Entry(d, bags[d][t])
    BY <2>1, Listed
  <2>3. dict[t][i].doc_id = d /\ dict[t][i].count = bags[d][t] /\ bags[d][t] \in Nat
    BY <1>2, <2>2 DEF Entry, AreBags, IsBagOf
  <2>4. PositionsOf(dict[t], d) = {i}
    BY <2>1, <2>3 DEF PositionsOf, AllDistinct, Distinct
  <2>5. Sum(t, d) = dict[t][i].count
    BY <2>3, <2>4, SumOfOne
  <2> QED
    BY <2>1, <2>3, <2>4, <2>5
<1>3. ASSUME NEW d \in 1 .. n, NEW t \in Terms(d)
      PROVE  t \in DOMAIN bags[d]
  BY <1>3, Listed DEF PositionsOf, HoldersIn
<1>4. \A d \in 1 .. n : Terms(d) = DOMAIN bags[d]
  BY <1>2, <1>3
<1> HIDE DEF Sum, Terms
<1>5. ASSUME NEW d \in 1 .. n PROVE [t \in Terms(d) |-> Sum(t, d)] = bags[d]
  <2>1. bags[d] = [t \in DOMAIN bags[d] |-> bags[d][t]]
    BY DEF AreBags, IsBagOf
  <2> QED
    BY <1>2, <1>4, <2>1
<1>6. bags = [d \in 1 .. n |-> bags[d]]
  BY DEF AreBags
<1> QED
  BY <1>1, <1>5, <1>6

-----------------------------------------------------------------------------
(***************************************************************************)
(* What is reached from zero, one step at a time.  The induction theorems  *)
(* of the library take a predicate as a parameter; a set of numbers does.  *)
(***************************************************************************)
\* Every natural number is reached from zero.
LEMMA FromZero ==
    ASSUME NEW G, 0 \in G, \A n \in Nat : n \in G => n + 1 \in G
    PROVE  \A n \in Nat : n \in G
<1> DEFINE S == Nat \ G
<1>1. ASSUME S # {} PROVE FALSE
  <2>1. Min(S) \in S /\ \A k \in S : Min(S) <= k
    BY <1>1, SmallestExists
  <2>2. PICK n \in S : \A k \in S : n <= k
    BY <2>1
  <2>3. n \in Nat /\ n # 0 /\ n - 1 \in Nat /\ ~(n <= n - 1) /\ n = (n - 1) + 1
    OBVIOUS
  <2>4. n - 1 \in G
    BY <2>2, <2>3
  <2> QED
    BY <2>3, <2>4
<1> QED
  BY <1>1

\* A function on 0 .. n defined step by step: each value from the one before.
StepsOn(n, A) == [1 .. n -> [A -> A]]

StepByStepFrom(f, n, A, base, step) ==
    f \in [0 .. n -> A] /\ f[0] = base /\ \A k \in 1 .. n : f[k] = step[k][f[k - 1]]

LEMMA StepByStep ==
    ASSUME NEW n \in Nat, NEW A, NEW base \in A, NEW step \in StepsOn(n, A)
    PROVE  \E f : StepByStepFrom(f, n, A, base, step)
<1> USE DEF StepsOn
<1> DEFINE Reaches(m, f) == StepByStepFrom(f, m, A, base, step)
           G == {m \in Nat : m <= n => \E f : Reaches(m, f)}
<1> USE DEF StepByStepFrom
<1>1. 0 \in G
  <2> DEFINE f == [k \in 0 .. 0 |-> base]
  <2>1. Reaches(0, f)
    <3>1. f \in [0 .. 0 -> A] /\ f[0] = base /\ 1 .. 0 = {}
      OBVIOUS
    <3> QED
      BY <3>1
  <2> QED
    BY <2>1
<1>2. ASSUME NEW m \in Nat, m \in G PROVE m + 1 \in G
  <2>1. ASSUME m + 1 <= n PROVE \E f : Reaches(m + 1, f)
    <3>1. m <= n /\ m + 1 \in 1 .. n
      BY <2>1
    <3>2. PICK f : Reaches(m, f)
      BY <1>2, <3>1
    <3> DEFINE next == step[m + 1][f[m]]
               g == [k \in 0 .. m + 1 |-> IF k = m + 1 THEN next ELSE f[k]]
    <3>3. next \in A
      <4>1. f[m] \in A
        BY <3>2
      <4> QED
        BY <3>1, <4>1
    <3>4. /\ \A k \in 0 .. m + 1 : k = m + 1 \/ k \in 0 .. m
          /\ \A k \in 0 .. m : k # m + 1 /\ k \in 0 .. m + 1
          /\ \A k \in 1 .. m + 1 : k = m + 1 \/ k \in 1 .. m
          /\ \A k \in 1 .. m + 1 : k - 1 \in 0 .. m
          /\ (m + 1) - 1 = m /\ m + 1 \in 0 .. m + 1 /\ 0 \in 0 .. m
          /\ \A k \in 1 .. m : k \in 0 .. m
      OBVIOUS
    <3>5. \A k \in 0 .. m : g[k] = f[k]
      BY <3>4
    <3>6. g[m + 1] = next
      BY <3>4
    <3>7. g \in [0 .. m + 1 -> A]
      <4>1. \A k \in 0 .. m + 1 : (IF k = m + 1 THEN next ELSE f[k]) \in A
        BY <3>2, <3>3, <3>4
      <4> QED
        BY <4>1
    <3> HIDE DEF g
    <3>8. g[0] = base
      BY <3>2, <3>4, <3>5
    <3>9. ASSUME NEW k \in 1 .. m + 1 PROVE g[k] = step[k][g[k - 1]]
      <4>1. g[k - 1] = f[k - 1]
        BY <3>4, <3>5
      <4>2. CASE k = m + 1
        BY <3>4, <3>6, <4>1, <4>2
      <4>3. CASE k \in 1 .. m
        BY <3>2, <3>4, <3>5, <4>1, <4>3
      <4> QED
        BY <3>4, <4>2, <4>3
    <3> QED
      BY <3>7, <3>8, <3>9
  <2> QED
    BY <2>1
<1> HIDE DEF G
<1>3. n \in G
  BY <1>1, <1>2, FromZero
<1>4. n <= n
  OBVIOUS
<1> QED
  BY <1>3, <1>4 DEF G

-----------------------------------------------------------------------------
(***************************************************************************)
(* A bulk load, document after document.                                   *)
(***************************************************************************)
Pushing(f, bags, order) ==
    [n \in 0 .. Len(order) |->
        IF n = 0 THEN << >> ELSE PushPostings(f[n - 1], order[n], bags[order[n]])]

LEMMA PushingExists ==
    ASSUME NEW bags, NEW order, Len(order) \in Nat
    PROVE  \E f : f = Pushing(f, bags, order)
<1> DEFINE Push(n, x) == PushPostings(x, order[n], bags[order[n]])
           Made(m, f) == f = [n \in 0 .. m |-> IF n = 0 THEN << >> ELSE Push(n, f[n - 1])]
           G == {m \in Nat : \E f : Made(m, f)}
<1>1. 0 \in G
  <2> DEFINE f == [n \in 0 .. 0 |-> << >>]
  <2>1. \A n \in 0 .. 0 : n = 0
    OBVIOUS
  <2>2. Made(0, f)
    BY <2>1
  <2> QED
    BY <2>2
<1>2. ASSUME NEW m \in Nat, m \in G PROVE m + 1 \in G
  <2>1. PICK f : Made(m, f)
    BY <1>2
  <2> DEFINE last == Push(m + 1, f[m])
             g == [n \in 0 .. m + 1 |-> IF n = m + 1 THEN last ELSE f[n]]
  <2> HIDE DEF Push
  <2>2. /\ \A n \in 0 .. m + 1 : n = m + 1 \/ n \in 0 .. m
        /\ \A n \in 0 .. m : n # m + 1 /\ n \in 0 .. m + 1
        /\ \A n \in 0 .. m : n # 0 => n - 1 \in 0 .. m
        /\ (m + 1) - 1 = m /\ m + 1 \in 0 .. m + 1 /\ m \in 0 .. m /\ m + 1 # 0
    OBVIOUS
  <2>3. g[m + 1] = last /\ \A n \in 0 .. m : g[n] = f[n]
    BY <2>2
  <2>4. \A n \in 0 .. m : f[n] = IF n = 0 THEN << >> ELSE Push(n, f[n - 1])
    BY <2>1
  <2>5. g = [n \in 0 .. m + 1 |-> g[n]]
    OBVIOUS
  <2> HIDE DEF g
  <2>6. ASSUME NEW n \in 0 .. m + 1
        PROVE  g[n] = IF n = 0 THEN << >> ELSE Push(n, g[n - 1])
    <3>1. CASE n = m + 1
      BY <2>2, <2>3, <3>1
    <3>2. CASE n \in 0 .. m
      BY <2>2, <2>3, <2>4, <3>2
    <3> QED
      BY <2>2, <3>1, <3>2
  <2>7. Made(m + 1, g)
    BY <2>5, <2>6
  <2> QED
    BY <2>7
<1> HIDE DEF G
<1>3. \A m \in Nat : m \in G
  BY <1>1, <1>2, FromZero
<1> HIDE DEF Push
<1>4. \E f : Made(Len(order), f)
  BY <1>3 DEF G
<1> QED
  BY <1>4 DEF Pushing, Push

\* The dictionaries on the way, from none of the documents to all of them.
LEMMA PushAllSteps ==
    ASSUME NEW bags, NEW order, Len(order) \in Nat
    PROVE  \E f : /\ f[0] = << >> /\ PushAll(bags, order) = f[Len(order)]
                  /\ \A n \in 1 .. Len(order) :
                        f[n] = PushPostings(f[n - 1], order[n], bags[order[n]])
<1> DEFINE f == CHOOSE g : g = Pushing(g, bags, order)
<1>1. f = Pushing(f, bags, order)
  BY PushingExists
<1>2. PushAll(bags, order) = f[Len(order)]
  BY DEF PushAll, Pushing
<1> HIDE DEF f
<1>3. \A n \in 0 .. Len(order) :
         f[n] = IF n = 0 THEN << >> ELSE PushPostings(f[n - 1], order[n], bags[order[n]])
  BY <1>1 DEF Pushing
<1>4. 0 \in 0 .. Len(order) /\ \A n \in 1 .. Len(order) : n \in 0 .. Len(order) /\ n # 0
  OBVIOUS
<1> QED
  BY <1>2, <1>3, <1>4

LEMMA PushAllOfNone == ASSUME NEW bags PROVE PushAll(bags, << >>) = << >>
<1>1. Len(<< >>) = 0
  OBVIOUS
<1> QED
  BY <1>1, PushAllSteps

LEMMA PushAllAppends ==
    ASSUME NEW bags, NEW S, NEW order \in Seq(S), NEW d
    PROVE  PushAll(bags, Append(order, d)) = PushPostings(PushAll(bags, order), d, bags[d])
<1> DEFINE longer == Append(order, d)
           n == Len(order)
<1>1. /\ n \in Nat /\ Len(longer) = n + 1 /\ longer[n + 1] = d
      /\ \A i \in 1 .. n : longer[i] = order[i]
  <2>1. longer = [i \in 1 .. n + 1 |-> IF i = n + 1 THEN d ELSE order[i]] /\ n \in Nat
    BY AppendIsFunction
  <2>2. Len(longer) = n + 1 /\ \A i \in 1 .. n : i # n + 1 /\ i \in 1 .. n + 1
    BY <2>1
  <2> HIDE DEF longer
  <2> QED
    BY <2>1, <2>2
<1> HIDE DEF longer, n
<1>2. PICK f : /\ f[0] = << >> /\ PushAll(bags, order) = f[n]
               /\ \A i \in 1 .. n : f[i] = PushPostings(f[i - 1], order[i], bags[order[i]])
  BY <1>1, PushAllSteps DEF n
<1>3. PICK g : /\ g[0] = << >> /\ PushAll(bags, longer) = g[n + 1]
               /\ \A i \in 1 .. n + 1 : g[i] = PushPostings(g[i - 1], longer[i], bags[longer[i]])
  <2>1. Len(longer) \in Nat
    BY <1>1
  <2> QED
    BY <1>1, <2>1, PushAllSteps
<1> DEFINE G == {i \in Nat : i <= n => g[i] = f[i]}
<1>4. 0 \in G
  BY <1>2, <1>3
<1>5. ASSUME NEW i \in Nat, i \in G PROVE i + 1 \in G
  <2>1. ASSUME i + 1 <= n PROVE g[i + 1] = f[i + 1]
    <3>1. i <= n /\ i + 1 \in 1 .. n /\ i + 1 \in 1 .. n + 1 /\ (i + 1) - 1 = i
      BY <1>1, <2>1
    <3>2. g[i] = f[i]
      BY <1>5, <3>1
    <3> QED
      BY <1>1, <1>2, <1>3, <3>1, <3>2
  <2> QED
    BY <2>1
<1> HIDE DEF G
<1>6. n \in G /\ n <= n
  BY <1>1, <1>4, <1>5, FromZero
<1>7. g[n] = f[n]
  BY <1>6 DEF G
<1>8. n + 1 \in 1 .. n + 1 /\ (n + 1) - 1 = n
  BY <1>1
<1> QED
  BY <1>1, <1>2, <1>3, <1>7, <1>8 DEF longer

\* The bags of some of the documents.
BagsAt(bags, D) == [d \in D |-> bags[d]]

\* Documents pushed in any order, each once, make a dictionary that inverts
\* their bags.
LEMMA PushAllInverts ==
    ASSUME NEW bags, AreBags(bags), NEW order \in Seq(DOMAIN bags),
           \A i, j \in DOMAIN order : order[i] = order[j] => i = j
    PROVE  /\ Inverts(PushAll(bags, order), BagsAt(bags, ToSet(order)))
           /\ AllDistinct(PushAll(bags, order))
<1> DEFINE n == Len(order)
           UpTo(i) == {order[k] : k \in 1 .. i}
<1>1. n \in Nat /\ DOMAIN order = 1 .. n /\ \A i \in 1 .. n : order[i] \in DOMAIN bags
  BY LenProperties, ElementOfSeq
<1>2. UpTo(n) = ToSet(order)
  BY <1>1 DEF ToSet
<1>3. PICK f : /\ f[0] = << >> /\ PushAll(bags, order) = f[n]
               /\ \A i \in 1 .. n : f[i] = PushPostings(f[i - 1], order[i], bags[order[i]])
  BY <1>1, PushAllSteps
<1> HIDE DEF n
<1> DEFINE Good(i) == Inverts(f[i], BagsAt(bags, UpTo(i))) /\ AllDistinct(f[i])
           G == {i \in Nat : i <= n => Good(i)}
<1>4. 0 \in G
  <2>1. UpTo(0) = {} /\ DOMAIN f[0] = {}
    BY <1>3
  <2>2. DOMAIN BagsAt(bags, UpTo(0)) = {}
    BY <2>1 DEF BagsAt
  <2>3. Good(0)
    BY <2>1, <2>2 DEF Inverts, AllDistinct, TermsOf
  <2> QED
    BY <2>3
<1>5. ASSUME NEW i \in Nat, i \in G PROVE i + 1 \in G
  <2>1. ASSUME i + 1 <= n PROVE Good(i + 1)
    <3> DEFINE d == order[i + 1]
               before == BagsAt(bags, UpTo(i))
    <3>1. /\ i <= n /\ i + 1 \in 1 .. n /\ (i + 1) - 1 = i /\ i + 1 \notin 1 .. i
          /\ 1 .. i + 1 = (1 .. i) \union {i + 1} /\ \A k \in 1 .. i : k \in 1 .. n
      BY <1>1, <2>1
    <3>2. Inverts(f[i], before) /\ AllDistinct(f[i])
      BY <1>5, <3>1
    <3>3. d \in DOMAIN bags /\ d \in Nat \ {0} /\ IsBagOf(bags[d])
      BY <1>1, <3>1 DEF AreBags
    <3>4. UpTo(i) \subseteq DOMAIN bags /\ d \notin UpTo(i) /\ UpTo(i + 1) = UpTo(i) \union {d}
      BY <1>1, <3>1
    <3>5. AreBags(before) /\ d \notin DOMAIN before
      BY <3>4 DEF AreBags, BagsAt
    <3>6. f[i + 1] = PushPostings(f[i], d, bags[d])
      BY <1>3, <3>1
    <3>7. With(before, d, bags[d]) = BagsAt(bags, UpTo(i + 1))
      BY <3>4 DEF With, BagsAt
    <3> HIDE DEF d, before, UpTo, G
    <3>8. Inverts(f[i + 1], With(before, d, bags[d])) /\ AllDistinct(f[i + 1])
      BY <3>2, <3>3, <3>5, <3>6, PushPostingsInverts
    <3> QED
      BY <3>7, <3>8
  <2> QED
    BY <2>1
<1> HIDE DEF G, Good
<1>6. n \in G
  BY <1>1, <1>4, <1>5, FromZero
<1>7. n <= n
  BY <1>1
<1>8. Good(n)
  BY <1>6, <1>7 DEF G
<1> QED
  BY <1>2, <1>3, <1>8 DEF Good

\* There is one list in order with given postings.
LEMMA OneAscendingList ==
    ASSUME NEW p \in Seq(Posting), NEW q \in Seq(Posting), Ascending(p), Ascending(q),
           ToSet(p) = ToSet(q)
    PROVE  p = q
<1>1. /\ Len(p) \in Nat /\ DOMAIN p = 1 .. Len(p) /\ \A i \in 1 .. Len(p) : p[i].doc_id \in Nat
      /\ Len(q) \in Nat /\ DOMAIN q = 1 .. Len(q) /\ \A i \in 1 .. Len(q) : q[i].doc_id \in Nat
  BY PostingsOfList
<1>2. /\ \A i \in 1 .. Len(p) : \E j \in 1 .. Len(q) : q[j] = p[i]
      /\ \A j \in 1 .. Len(q) : \E i \in 1 .. Len(p) : p[i] = q[j]
  BY <1>1 DEF ToSet
<1>3. /\ \A i, j \in 1 .. Len(p) : i < j => p[i].doc_id < p[j].doc_id
      /\ \A i, j \in 1 .. Len(q) : i < j => q[i].doc_id < q[j].doc_id
  BY <1>1 DEF Ascending
<1> DEFINE Same(i) == i <= Len(p) => i <= Len(q) /\ p[i] = q[i]
           G == {n \in Nat : \A i \in 1 .. n : Same(i) /\ (i <= Len(q) => i <= Len(p))}
<1>4. 0 \in G
  OBVIOUS
<1>5. ASSUME NEW n \in Nat, n \in G PROVE n + 1 \in G
  <2> DEFINE m == n + 1
  <2>1. \A i \in 1 .. n : Same(i) /\ (i <= Len(q) => i <= Len(p))
    BY <1>5
  <2>2. ASSUME m <= Len(p) PROVE m <= Len(q) /\ p[m] = q[m]
    <3>1. m \in 1 .. Len(p) /\ \A i \in 1 .. n : i \in 1 .. Len(p) /\ i < m
      BY <1>1, <2>2
    <3>2. \A i \in 1 .. n : i \in 1 .. Len(q) /\ p[i] = q[i]
      BY <2>1, <1>1, <3>1
    <3>3. PICK j \in 1 .. Len(q) : q[j] = p[m]
      BY <1>2, <3>1
    <3>4. j \notin 1 .. n
      BY <1>1, <1>3, <3>1, <3>2, <3>3
    <3>5. m \in 1 .. Len(q) /\ m <= j
      BY <1>1, <3>3, <3>4
    <3>6. CASE m = j
      BY <3>3, <3>5, <3>6
    <3>7. CASE m < j
      <4>1. q[m].doc_id < p[m].doc_id
        BY <1>3, <3>3, <3>5, <3>7
      <4>2. PICK i \in 1 .. Len(p) : p[i] = q[m]
        BY <1>2, <3>5
      <4>3. i < m
        <5>1. i = m \/ m < i \/ i < m
          BY <3>1
        <5>2. i # m /\ ~(m < i)
          BY <1>1, <1>3, <3>1, <3>5, <4>1, <4>2
        <5> QED
          BY <5>1, <5>2
      <4>4. i \in 1 .. n /\ q[i] = q[m] /\ i \in 1 .. Len(q)
        BY <3>2, <4>2, <4>3
      <4>5. q[i].doc_id < q[m].doc_id /\ q[i].doc_id \in Nat
        BY <1>1, <1>3, <3>5, <4>3, <4>4
      <4> QED
        BY <4>4, <4>5
    <3> QED
      BY <3>5, <3>6, <3>7
  <2>3. ASSUME m <= Len(q) PROVE m <= Len(p)
    <3>1. m \in 1 .. Len(q) /\ \A i \in 1 .. n : i \in 1 .. Len(q) /\ i < m
      BY <1>1, <2>3
    <3>2. PICK i \in 1 .. Len(p) : p[i] = q[m]
      BY <1>2, <3>1
    <3>3. ASSUME i \in 1 .. n PROVE FALSE
      <4>1. q[i] = q[m] /\ i < m /\ i \in 1 .. Len(q)
        BY <2>1, <3>1, <3>2, <3>3
      <4>2. q[i].doc_id < q[m].doc_id /\ q[i].doc_id \in Nat
        BY <1>1, <1>3, <3>1, <4>1
      <4> QED
        BY <4>1, <4>2
    <3> QED
      BY <1>1, <3>2, <3>3
  <2>4. \A i \in 1 .. m : i \in 1 .. n \/ i = m
    OBVIOUS
  <2> QED
    BY <2>1, <2>2, <2>3, <2>4
<1>6. \A n \in Nat : n \in G
  <2> HIDE DEF G
  <2> QED
    BY <1>4, <1>5, FromZero
<1>7. /\ \A i \in 1 .. Len(p) : i <= Len(q) /\ p[i] = q[i]
      /\ \A i \in 1 .. Len(q) : i <= Len(p)
  <2>1. \A n \in Nat : \A i \in 1 .. n : Same(i) /\ (i <= Len(q) => i <= Len(p))
    BY <1>6
  <2>2. Len(p) \in Nat /\ Len(q) \in Nat
    BY <1>1
  <2> QED
    BY <2>1, <2>2
<1> HIDE DEF G, Same
<1>8. Len(p) = Len(q)
  <2> DEFINE lp == Len(p)
             lq == Len(q)
  <2>1. /\ lp \in Nat /\ lq \in Nat
        /\ \A i \in 1 .. lp : i <= lq
        /\ \A i \in 1 .. lq : i <= lp
    BY <1>1, <1>7
  <2> HIDE DEF lp, lq
  <2>2. lp <= lq
    <3>1. lp = 0 \/ lp \in 1 .. lp
      BY ONLY <2>1
    <3> QED
      BY ONLY <2>1, <3>1
  <2>3. lq <= lp
    <3>1. lq = 0 \/ lq \in 1 .. lq
      BY ONLY <2>1
    <3> QED
      BY ONLY <2>1, <3>1
  <2>4. lp = lq
    BY ONLY <2>1, <2>2, <2>3
  <2> QED
    BY <2>4 DEF lp, lq
<1> QED
  BY <1>7, <1>8, SeqEqual

\* There is one dictionary in order that inverts given bags.
LEMMA OneAscendingDict ==
    ASSUME NEW dict, NEW other, NEW bags, Inverts(dict, bags), Inverts(other, bags),
           AllAscending(dict), AllAscending(other),
           dict = [t \in DOMAIN dict |-> dict[t]], other = [t \in DOMAIN other |-> other[t]]
    PROVE  dict = other
<1>1. DOMAIN dict = DOMAIN other
  BY DEF Inverts
<1>2. ASSUME NEW t \in DOMAIN dict PROVE dict[t] = other[t]
  BY <1>1, OneAscendingList DEF Inverts, AllAscending
<1> QED
  BY <1>1, <1>2

-----------------------------------------------------------------------------
(***************************************************************************)
(* Sums of finitely many numbers, taken in any order: SumFunction of the   *)
(* community modules takes the one that CHOOSE gives.                      *)
(***************************************************************************)
Some(s) == CHOOSE x \in s : TRUE
SumStep(f, g, s) == IF s = {} THEN 0 ELSE g[Some(s)] + f[s \ {Some(s)}]
Summing(f, S, g) == [s \in SUBSET S |-> SumStep(f, g, s)]
SumOn(S, g) == CHOOSE f : f = Summing(f, S, g)

LEMMA SomeIsIn ==
    ASSUME NEW s, IsFiniteSet(s), s # {}
    PROVE  /\ Some(s) \in s /\ IsFiniteSet(s \ {Some(s)})
           /\ Cardinality(s) \in Nat /\ Cardinality(s) # 0
           /\ Cardinality(s \ {Some(s)}) = Cardinality(s) - 1
<1>1. Some(s) \in s
  BY DEF Some
<1> QED
  BY <1>1, FS_RemoveElement, FS_CardinalityType, FS_EmptySet

LEMMA SumOnExists ==
    ASSUME NEW S, IsFiniteSet(S), NEW g
    PROVE  SumOn(S, g) = Summing(SumOn(S, g), S, g)
<1> DEFINE Right(n, f) == /\ f = [s \in SUBSET S |-> f[s]]
                          /\ \A s \in SUBSET S : Cardinality(s) <= n => f[s] = SumStep(f, g, s)
           G == {n \in Nat : \E f : Right(n, f)}
<1>1. \A s \in SUBSET S : IsFiniteSet(s) /\ Cardinality(s) \in Nat /\ Cardinality(s) <= Cardinality(S)
  BY FS_Subset, FS_CardinalityType
<1>2. 0 \in G
  <2> DEFINE f == [s \in SUBSET S |-> 0]
  <2>1. \A s \in SUBSET S : Cardinality(s) <= 0 => s = {}
    BY <1>1, FS_EmptySet
  <2>2. Right(0, f)
    BY <2>1 DEF SumStep
  <2> QED
    BY <2>2
<1>3. ASSUME NEW n \in Nat, n \in G PROVE n + 1 \in G
  <2>1. PICK f : Right(n, f)
    BY <1>3
  <2> DEFINE h == [s \in SUBSET S |-> IF Cardinality(s) = n + 1 THEN SumStep(f, g, s) ELSE f[s]]
  <2>2. \A s \in SUBSET S : Cardinality(s) <= n => h[s] = f[s]
    <3>1. \A k \in Nat : k <= n => k # n + 1
      OBVIOUS
    <3> QED
      BY <1>1, <3>1
  <2>3. \A s \in SUBSET S : Cardinality(s) = n + 1 => h[s] = SumStep(f, g, s)
    OBVIOUS
  <2>4. h = [s \in SUBSET S |-> h[s]]
    OBVIOUS
  <2> HIDE DEF h
  <2>5. ASSUME NEW s \in SUBSET S, Cardinality(s) <= n + 1
        PROVE  h[s] = SumStep(f, g, s) /\ SumStep(h, g, s) = SumStep(f, g, s)
    <3>1. SumStep(h, g, s) = SumStep(f, g, s)
      <4>1. CASE s = {}
        BY <4>1 DEF SumStep
      <4>2. CASE s # {}
        <5>1. /\ Cardinality(s) \in Nat /\ s \ {Some(s)} \in SUBSET S
              /\ Cardinality(s \ {Some(s)}) = Cardinality(s) - 1
          BY <1>1, <4>2, SomeIsIn
        <5>2. Cardinality(s \ {Some(s)}) <= n
          BY ONLY <2>5, <5>1, n \in Nat
        <5>3. h[s \ {Some(s)}] = f[s \ {Some(s)}]
          BY <2>2, <5>1, <5>2
        <5> QED
          BY <4>2, <5>3 DEF SumStep
      <4> QED
        BY <4>1, <4>2
    <3>2. Cardinality(s) <= n \/ Cardinality(s) = n + 1
      <4>1. Cardinality(s) \in Nat
        BY <1>1
      <4> QED
        BY ONLY <2>5, <4>1, n \in Nat
    <3>3. h[s] = SumStep(f, g, s)
      BY <2>1, <2>2, <2>3, <3>2
    <3> QED
      BY <3>1, <3>3
  <2>6. Right(n + 1, h)
    BY <2>4, <2>5
  <2> HIDE DEF Right
  <2> QED
    BY <2>6
<1> HIDE DEF G
<1>4. Cardinality(S) \in G
  BY <1>2, <1>3, FromZero, FS_CardinalityType
<1>5. PICK f : Right(Cardinality(S), f)
  BY <1>4 DEF G
<1>6. f = Summing(f, S, g)
  BY <1>1, <1>5 DEF Summing
<1> QED
  BY <1>6 DEF SumOn

LEMMA SumOnSubset ==
    ASSUME NEW S, IsFiniteSet(S), NEW g, NEW s \in SUBSET S
    PROVE  SumOn(S, g)[s] = SumStep(SumOn(S, g), g, s)
<1> DEFINE f == SumOn(S, g)
<1>1. f = Summing(f, S, g)
  BY SumOnExists
<1> HIDE DEF f
<1>2. f[s] = SumStep(f, g, s)
  BY <1>1 DEF Summing
<1> QED
  BY <1>2 DEF f

LEMMA SumOnSteps ==
    ASSUME NEW S, IsFiniteSet(S), NEW g, NEW s \in SUBSET S
    PROVE  /\ s = {} => SumOn(S, g)[s] = 0
           /\ s # {} => SumOn(S, g)[s] = g[Some(s)] + SumOn(S, g)[s \ {Some(s)}]
<1>1. SumOn(S, g)[s] = SumStep(SumOn(S, g), g, s)
  BY SumOnSubset
<1>2. s = {} => SumStep(SumOn(S, g), g, s) = 0
  BY DEF SumStep
<1>3. s # {} => SumStep(SumOn(S, g), g, s) = g[Some(s)] + SumOn(S, g)[s \ {Some(s)}]
  BY DEF SumStep
<1> QED
  BY <1>1, <1>2, <1>3

\* A sum depends on the numbers that are summed alone.
LEMMA SumsAgree ==
    ASSUME NEW S, IsFiniteSet(S), NEW g, NEW T, IsFiniteSet(T), NEW h,
           NEW U, U \subseteq S, U \subseteq T, \A x \in U : g[x] = h[x]
    PROVE  SumOn(S, g)[U] = SumOn(T, h)[U]
<1> DEFINE Sets(n) == {s \in SUBSET U : Cardinality(s) = n}
           G == {n \in Nat : \A s \in Sets(n) : SumOn(S, g)[s] = SumOn(T, h)[s]}
<1>1. \A s \in SUBSET U : s \in SUBSET S /\ s \in SUBSET T /\ IsFiniteSet(s) /\ Cardinality(s) \in Nat
  BY FS_Subset, FS_CardinalityType
<1>2. 0 \in G
  <2>1. \A s \in Sets(0) : s = {}
    BY <1>1, FS_EmptySet
  <2>2. ASSUME NEW s \in Sets(0) PROVE SumOn(S, g)[s] = 0
    <3>1. s = {} /\ s \in SUBSET S
      BY <1>1, <2>1
    <3> QED
      BY ONLY <3>1, IsFiniteSet(S), SumOnSteps
  <2>3. ASSUME NEW s \in Sets(0) PROVE SumOn(T, h)[s] = 0
    <3>1. s = {} /\ s \in SUBSET T
      BY <1>1, <2>1
    <3> QED
      BY ONLY <3>1, IsFiniteSet(T), SumOnSteps
  <2> QED
    BY <2>2, <2>3
<1>3. ASSUME NEW n \in Nat, n \in G PROVE n + 1 \in G
  <2>1. ASSUME NEW s \in Sets(n + 1) PROVE SumOn(S, g)[s] = SumOn(T, h)[s]
    <3>1. s # {} /\ IsFiniteSet(s) /\ s \in SUBSET S /\ s \in SUBSET T /\ Cardinality(s) = n + 1
      BY <1>1, FS_EmptySet
    <3>2. Some(s) \in s /\ s \ {Some(s)} \in Sets(n)
      BY <3>1, SomeIsIn
    <3>3. SumOn(S, g)[s \ {Some(s)}] = SumOn(T, h)[s \ {Some(s)}]
      BY <1>3, <3>2
    <3>4. g[Some(s)] = h[Some(s)]
      BY <3>2
    <3>5. /\ SumOn(S, g)[s] = g[Some(s)] + SumOn(S, g)[s \ {Some(s)}]
          /\ SumOn(T, h)[s] = h[Some(s)] + SumOn(T, h)[s \ {Some(s)}]
      BY <3>1, SumOnSteps
    <3> QED
      BY <3>3, <3>4, <3>5
  <2> QED
    BY <2>1
<1> HIDE DEF G
<1>4. IsFiniteSet(U)
  BY FS_Subset
<1>5. Cardinality(U) \in G /\ U \in Sets(Cardinality(U))
  BY <1>2, <1>3, <1>4, FromZero, FS_CardinalityType
<1> QED
  BY <1>5 DEF G

LEMMA SumOnType ==
    ASSUME NEW S, IsFiniteSet(S), NEW g, \A x \in S : g[x] \in Int
    PROVE  \A s \in SUBSET S : SumOn(S, g)[s] \in Int
<1> DEFINE Sets(n) == {s \in SUBSET S : Cardinality(s) = n}
           G == {n \in Nat : \A s \in Sets(n) : SumOn(S, g)[s] \in Int}
<1>1. \A s \in SUBSET S : IsFiniteSet(s) /\ Cardinality(s) \in Nat
  BY FS_Subset, FS_CardinalityType
<1>2. 0 \in G
  <2>1. \A s \in Sets(0) : s = {}
    BY <1>1, FS_EmptySet
  <2>2. \A s \in Sets(0) : SumOn(S, g)[s] = 0
    BY <1>1, <2>1, SumOnSteps
  <2> QED
    BY <2>2
<1>3. ASSUME NEW n \in Nat, n \in G PROVE n + 1 \in G
  <2>1. ASSUME NEW s \in Sets(n + 1) PROVE SumOn(S, g)[s] \in Int
    <3>1. s # {} /\ IsFiniteSet(s) /\ s \in SUBSET S /\ Cardinality(s) = n + 1
      BY <1>1, FS_EmptySet
    <3>2. Some(s) \in s /\ s \ {Some(s)} \in Sets(n)
      BY <3>1, SomeIsIn
    <3>3. SumOn(S, g)[s \ {Some(s)}] \in Int /\ g[Some(s)] \in Int
      BY <1>3, <3>1, <3>2
    <3>4. SumOn(S, g)[s] = g[Some(s)] + SumOn(S, g)[s \ {Some(s)}]
      BY <3>1, SumOnSteps
    <3> QED
      BY <3>3, <3>4
  <2> QED
    BY <2>1
<1> HIDE DEF G
<1>4. \A n \in Nat : n \in G
  BY <1>2, <1>3, FromZero
<1> QED
  BY <1>1, <1>4 DEF G

\* Any of the numbers may be taken first.
LEMMA SumOnTakes ==
    ASSUME NEW S, IsFiniteSet(S), NEW g, \A x \in S : g[x] \in Int
    PROVE  \A s \in SUBSET S : \A x \in s : SumOn(S, g)[s] = g[x] + SumOn(S, g)[s \ {x}]
<1> DEFINE sum == SumOn(S, g)
           Sets(n) == {s \in SUBSET S : Cardinality(s) = n}
           G == {n \in Nat : \A s \in Sets(n) : \A x \in s : sum[s] = g[x] + sum[s \ {x}]}
<1>1. \A s \in SUBSET S : IsFiniteSet(s) /\ Cardinality(s) \in Nat
  BY FS_Subset, FS_CardinalityType
<1>2. \A s \in SUBSET S :
         sum[s] \in Int /\ (s # {} => sum[s] = g[Some(s)] + sum[s \ {Some(s)}])
  <2>1. ASSUME NEW s \in SUBSET S, s # {} PROVE sum[s] = g[Some(s)] + sum[s \ {Some(s)}]
    BY <2>1, SumOnSteps
  <2>2. \A s \in SUBSET S : sum[s] \in Int
    BY SumOnType
  <2> HIDE DEF sum
  <2> QED
    BY <2>1, <2>2
<1> HIDE DEF sum
<1>3. 0 \in G
  <2>1. \A s \in Sets(0) : s = {}
    BY <1>1, FS_EmptySet
  <2> QED
    BY <2>1
<1>4. ASSUME NEW n \in Nat, n \in G PROVE n + 1 \in G
  <2>1. ASSUME NEW s \in Sets(n + 1), NEW x \in s PROVE sum[s] = g[x] + sum[s \ {x}]
    <3> DEFINE y == Some(s)
               rest == (s \ {x}) \ {y}
    <3>1. s # {} /\ IsFiniteSet(s) /\ s \in SUBSET S /\ Cardinality(s) = n + 1
      BY <1>1, FS_EmptySet
    <3>2. y \in s /\ Cardinality(s \ {y}) = n /\ Cardinality(s \ {x}) = n
      <4>1. y \in s
        BY <3>1, SomeIsIn
      <4>2. /\ Cardinality(s \ {y}) = Cardinality(s) - 1
            /\ Cardinality(s \ {x}) = Cardinality(s) - 1
        BY <3>1, <4>1, FS_RemoveElement
      <4>3. (n + 1) - 1 = n
        BY ONLY n \in Nat
      <4> QED
        BY <3>1, <4>1, <4>2, <4>3
    <3>3. sum[s] = g[y] + sum[s \ {y}]
      BY <1>2, <3>1
    <3> HIDE DEF y
    <3>4. CASE x = y
      BY <3>3, <3>4
    <3>5. CASE x # y
      <4>1. x \in s \ {y} /\ y \in s \ {x} /\ (s \ {y}) \ {x} = rest
        BY <3>2, <3>5
      <4>2. s \ {y} \in Sets(n) /\ s \ {x} \in Sets(n) /\ rest \in SUBSET S
        BY <3>1, <3>2
      <4>3. sum[s \ {y}] = g[x] + sum[rest] /\ sum[s \ {x}] = g[y] + sum[rest]
        BY <1>4, <4>1, <4>2
      <4>4. g[x] \in Int /\ g[y] \in Int /\ sum[rest] \in Int
        BY <1>2, <3>1, <3>2, <4>2
      <4> HIDE DEF rest
      <4> QED
        BY ONLY <3>3, <4>3, <4>4
    <3> QED
      BY <3>4, <3>5
  <2> QED
    BY <2>1
<1> HIDE DEF G
<1>5. \A n \in Nat : n \in G
  BY <1>3, <1>4, FromZero
<1>6. \A s \in SUBSET S : \A x \in s : sum[s] = g[x] + sum[s \ {x}]
  BY <1>1, <1>5 DEF G
<1> QED
  BY <1>6 DEF sum

LEMMA SumIsSumOn ==
    ASSUME NEW g
    PROVE  SumFunction(g) = SumOn(DOMAIN g, g)[DOMAIN g]
  BY DEF SumFunction, SumFunctionOnSet, FoldFunctionOnSet, MapThenFoldSet, SumOn, Summing, SumStep, Some

LEMMA SumOfNothing ==
    ASSUME NEW g, DOMAIN g = {}
    PROVE  SumFunction(g) = 0
<1>1. IsFiniteSet(DOMAIN g) /\ DOMAIN g \in SUBSET DOMAIN g
  BY FS_EmptySet
<1> QED
  BY <1>1, SumIsSumOn, SumOnSteps

LEMMA SumTakes ==
    ASSUME NEW g, IsFiniteSet(DOMAIN g), \A y \in DOMAIN g : g[y] \in Int, NEW x \in DOMAIN g
    PROVE  SumFunction(g) = g[x] + SumFunction([y \in DOMAIN g \ {x} |-> g[y]])
<1> DEFINE rest == [y \in DOMAIN g \ {x} |-> g[y]]
           S == DOMAIN g
<1>1. SumFunction(g) = g[x] + SumOn(S, g)[S \ {x}]
  BY SumIsSumOn, SumOnTakes
<1>2. SumFunction(rest) = SumOn(S \ {x}, rest)[S \ {x}]
  BY SumIsSumOn
<1>3. IsFiniteSet(S \ {x}) /\ \A y \in S \ {x} : g[y] = rest[y]
  BY FS_RemoveElement
<1> HIDE DEF rest
<1>4. SumOn(S, g)[S \ {x}] = SumOn(S \ {x}, rest)[S \ {x}]
  <2> DEFINE U == S \ {x}
  <2>1. U \subseteq S /\ U \subseteq S \ {x}
    OBVIOUS
  <2> QED
    BY <1>3, <2>1, SumsAgree
<1> QED
  BY <1>1, <1>2, <1>4 DEF rest

LEMMA SumIsInt ==
    ASSUME NEW g, IsFiniteSet(DOMAIN g), \A y \in DOMAIN g : g[y] \in Int
    PROVE  SumFunction(g) \in Int
  BY SumIsSumOn, SumOnType

\* The sum of numbers that are not negative is not, and as large as any of them.
LEMMA SumAtLeast ==
    ASSUME NEW g, IsFiniteSet(DOMAIN g), \A y \in DOMAIN g : g[y] \in Nat
    PROVE  SumFunction(g) \in Nat /\ \A x \in DOMAIN g : g[x] <= SumFunction(g)
<1> DEFINE S == DOMAIN g
           sum == SumOn(S, g)
           Sets(n) == {s \in SUBSET S : Cardinality(s) = n}
           G == {n \in Nat : \A s \in Sets(n) : sum[s] \in Nat}
<1>1. \A s \in SUBSET S : IsFiniteSet(s) /\ Cardinality(s) \in Nat
  BY FS_Subset, FS_CardinalityType
<1>2. \A s \in SUBSET S : /\ s = {} => sum[s] = 0
                          /\ s # {} => sum[s] = g[Some(s)] + sum[s \ {Some(s)}]
  <2>1. ASSUME NEW s \in SUBSET S, s # {} PROVE sum[s] = g[Some(s)] + sum[s \ {Some(s)}]
    BY <2>1, SumOnSteps
  <2>2. ASSUME NEW s \in SUBSET S, s = {} PROVE sum[s] = 0
    BY <2>2, SumOnSteps
  <2> HIDE DEF sum
  <2> QED
    BY <2>1, <2>2
<1>3. \A y \in S : g[y] \in Int
  OBVIOUS
<1>4. \A x \in S : sum[S] = g[x] + sum[S \ {x}]
  BY <1>3, SumOnTakes
<1> HIDE DEF sum
<1>5. 0 \in G
  <2>1. \A s \in Sets(0) : s = {}
    BY <1>1, FS_EmptySet
  <2>2. \A s \in Sets(0) : sum[s] = 0
    BY <1>2, <2>1
  <2> QED
    BY <2>2
<1>6. ASSUME NEW n \in Nat, n \in G PROVE n + 1 \in G
  <2>1. ASSUME NEW s \in Sets(n + 1) PROVE sum[s] \in Nat
    <3>1. s # {} /\ IsFiniteSet(s) /\ s \in SUBSET S /\ Cardinality(s) = n + 1
      BY <1>1, FS_EmptySet
    <3>2. Some(s) \in s /\ s \ {Some(s)} \in Sets(n)
      BY <3>1, SomeIsIn
    <3>3. sum[s] = g[Some(s)] + sum[s \ {Some(s)}]
      BY <1>2, <3>1
    <3>4. g[Some(s)] \in Nat /\ sum[s \ {Some(s)}] \in Nat
      BY <1>6, <3>1, <3>2
    <3> QED
      BY <3>3, <3>4
  <2> QED
    BY <2>1
<1> HIDE DEF G
<1>7. \A n \in Nat : n \in G
  BY <1>5, <1>6, FromZero
<1>8. \A s \in SUBSET S : sum[s] \in Nat
  BY <1>1, <1>7 DEF G
<1>9. ASSUME NEW x \in S PROVE g[x] <= sum[S]
  <2>1. sum[S] = g[x] + sum[S \ {x}] /\ sum[S \ {x}] \in Nat /\ g[x] \in Nat
    BY <1>4, <1>8
  <2> QED
    BY ONLY <2>1
<1>10. SumFunction(g) = sum[S] /\ sum[S] \in Nat
  BY <1>8, SumIsSumOn DEF sum
<1> QED
  BY <1>9, <1>10

LEMMA SumOfZeros ==
    ASSUME NEW g, IsFiniteSet(DOMAIN g), \A y \in DOMAIN g : g[y] = 0
    PROVE  SumFunction(g) = 0
<1>0. PICK S : S = DOMAIN g
  OBVIOUS
<1>10. IsFiniteSet(S) /\ \A y \in S : g[y] = 0
  BY <1>0
<1> DEFINE sum == SumOn(S, g)
           Sets(n) == {s \in SUBSET S : Cardinality(s) = n}
           G == {n \in Nat : \A s \in Sets(n) : sum[s] = 0}
<1>1. \A s \in SUBSET S : IsFiniteSet(s) /\ Cardinality(s) \in Nat
  BY <1>10, FS_Subset, FS_CardinalityType
<1>2. \A s \in SUBSET S : /\ s = {} => sum[s] = 0
                          /\ s # {} => sum[s] = g[Some(s)] + sum[s \ {Some(s)}]
  <2>1. ASSUME NEW s \in SUBSET S, s # {} PROVE sum[s] = g[Some(s)] + sum[s \ {Some(s)}]
    BY ONLY <2>1, <1>10, SumOnSteps
  <2>2. ASSUME NEW s \in SUBSET S, s = {} PROVE sum[s] = 0
    BY ONLY <2>2, <1>10, SumOnSteps
  <2> HIDE DEF sum
  <2> QED
    BY <2>1, <2>2
<1> HIDE DEF sum
<1>4. 0 \in G
  <2>1. \A s \in Sets(0) : s = {}
    BY <1>1, FS_EmptySet
  <2> QED
    BY <1>2, <2>1
<1>5. ASSUME NEW n \in Nat, n \in G PROVE n + 1 \in G
  <2>1. ASSUME NEW s \in Sets(n + 1) PROVE sum[s] = 0
    <3>1. s # {} /\ IsFiniteSet(s) /\ s \in SUBSET S /\ Cardinality(s) = n + 1
      BY <1>1, FS_EmptySet
    <3>2. Some(s) \in s /\ s \ {Some(s)} \in Sets(n)
      <4>1. Some(s) \in s /\ Cardinality(s \ {Some(s)}) = Cardinality(s) - 1
        BY ONLY <3>1, SomeIsIn
      <4>2. Cardinality(s) - 1 = n
        BY ONLY <3>1, n \in Nat
      <4> QED
        BY <3>1, <4>1, <4>2
    <3>3. sum[s] = g[Some(s)] + sum[s \ {Some(s)}]
      BY <1>2, <3>1
    <3>4. g[Some(s)] = 0 /\ sum[s \ {Some(s)}] = 0
      BY <1>5, <1>10, <3>1, <3>2
    <3> QED
      BY <3>3, <3>4
  <2> QED
    BY <2>1
<1> HIDE DEF G
<1>6. Cardinality(S) \in G
  BY <1>4, <1>5, <1>10, FromZero, FS_CardinalityType
<1>7. sum[S] = 0
  BY <1>1, <1>6 DEF G
<1> QED
  BY <1>0, <1>7, SumIsSumOn DEF sum

-----------------------------------------------------------------------------
(***************************************************************************)
(* InOrder: the values, one after the other.                               *)
(***************************************************************************)
\* The steps by which the values are listed.
ListedBy(f, value, n) ==
    /\ f[0] = << >>
    /\ \A k \in 1 .. n :
          f[k] = IF k \in DOMAIN value THEN Append(f[k - 1], value[k]) ELSE f[k - 1]
    /\ f[n] = InOrder(value, n)

LEMMA InOrderSteps ==
    ASSUME NEW n \in Nat, NEW T, NEW value, \A k \in DOMAIN value : value[k] \in T
    PROVE  \E f \in [0 .. n -> Seq(T)] : ListedBy(f, value, n)
<1> DEFINE Longer(k, x) == IF k \in DOMAIN value THEN Append(x, value[k]) ELSE x
           step == [k \in 1 .. n |-> [x \in Seq(T) |-> Longer(k, x)]]
           Made(f) == f = [k \in 0 .. n |-> IF k = 0 THEN << >> ELSE Longer(k, f[k - 1])]
           upto == CHOOSE f : Made(f)
<1>1. ASSUME NEW k \in 1 .. n, NEW x \in Seq(T) PROVE Longer(k, x) \in Seq(T)
  BY <1>1, AppendProperties
<1>2. step \in [1 .. n -> [Seq(T) -> Seq(T)]]
  BY <1>1
<1>3. << >> \in Seq(T)
  BY EmptySeq
<1>4. PICK f \in [0 .. n -> Seq(T)] : f[0] = << >> /\ \A k \in 1 .. n : f[k] = step[k][f[k - 1]]
  <2>1. step \in StepsOn(n, Seq(T))
    BY <1>2 DEF StepsOn
  <2> HIDE DEF step
  <2>2. \E f : StepByStepFrom(f, n, Seq(T), << >>, step)
    BY <1>3, <2>1, StepByStep
  <2> QED
    BY <2>2 DEF StepByStepFrom
<1>5. /\ \A k \in 1 .. n : k - 1 \in 0 .. n /\ k # 0 /\ k \in 0 .. n
      /\ \A k \in 0 .. n : k = 0 \/ k \in 1 .. n
      /\ 0 \in 0 .. n /\ n \in 0 .. n /\ 0 \notin 1 .. n
  OBVIOUS
<1>6. \A k \in 1 .. n : f[k] = Longer(k, f[k - 1])
  <2> SUFFICES ASSUME NEW k \in 1 .. n PROVE f[k] = Longer(k, f[k - 1])
    OBVIOUS
  <2>1. f[k - 1] \in Seq(T)
    BY <1>5
  <2>2. step[k] = [x \in Seq(T) |-> Longer(k, x)]
    OBVIOUS
  <2> HIDE DEF step, Longer
  <2> QED
    BY <1>4, <2>1, <2>2
<1>7. Made(f)
  <2>1. f = [k \in 0 .. n |-> f[k]]
    OBVIOUS
  <2>2. \A k \in 0 .. n : f[k] = IF k = 0 THEN << >> ELSE Longer(k, f[k - 1])
    BY <1>4, <1>5, <1>6
  <2> HIDE DEF Longer
  <2> QED
    BY <2>1, <2>2
<1>8. Made(upto)
  <2> HIDE DEF Made
  <2> QED
    BY <1>7
<1> HIDE DEF upto
<1>9. upto[0] = << >> /\ \A k \in 1 .. n : upto[k] = Longer(k, upto[k - 1])
  BY <1>5, <1>8
<1>10. \A k \in 0 .. n : upto[k] \in Seq(T)
  <2> DEFINE G == {k \in Nat : k <= n => upto[k] \in Seq(T)}
  <2>1. 0 \in G
    BY <1>3, <1>9
  <2>2. ASSUME NEW k \in Nat, k \in G PROVE k + 1 \in G
    <3>1. ASSUME k + 1 <= n PROVE upto[k + 1] \in Seq(T)
      <4>1. k <= n /\ k + 1 \in 1 .. n /\ (k + 1) - 1 = k
        BY <3>1
      <4>2. upto[k] \in Seq(T)
        BY <2>2, <4>1
      <4>3. upto[k + 1] = Longer(k + 1, upto[k])
        BY <1>9, <4>1
      <4> HIDE DEF G, Longer
      <4> QED
        BY <1>1, <4>1, <4>2, <4>3
    <3> QED
      BY <3>1
  <2> HIDE DEF G
  <2>3. \A k \in Nat : k \in G
    BY <2>1, <2>2, FromZero
  <2>4. \A k \in 0 .. n : k \in Nat /\ k <= n
    OBVIOUS
  <2> QED
    BY <2>3, <2>4 DEF G
<1>11. InOrder(value, n) = upto[n]
  BY DEF InOrder, upto
<1>12. upto \in [0 .. n -> Seq(T)]
  <2>1. upto = [k \in 0 .. n |-> IF k = 0 THEN << >> ELSE Longer(k, upto[k - 1])]
    BY <1>8
  <2> HIDE DEF Longer, Made
  <2>2. DOMAIN upto = 0 .. n /\ upto = [k \in 0 .. n |-> upto[k]]
    BY <2>1
  <2> QED
    BY <1>10, <2>2
<1>13. ListedBy(upto, value, n)
  BY <1>9, <1>11 DEF ListedBy
<1> QED
  BY <1>12, <1>13

\* What is listed up to n only depends on the values up to n.
LEMMA SameUpTo ==
    ASSUME NEW n \in Nat, NEW m \in Nat, n <= m, NEW value, NEW other,
           \A k \in 1 .. n : /\ k \in DOMAIN value <=> k \in DOMAIN other
                             /\ k \in DOMAIN value => value[k] = other[k],
           NEW f, ListedBy(f, other, m)
    PROVE  f[n] = InOrder(value, n)
<1> DEFINE T == {value[k] : k \in DOMAIN value}
<1>1. \A k \in DOMAIN value : value[k] \in T
  OBVIOUS
<1> HIDE DEF T
<1>2. PICK g : ListedBy(g, value, n)
  BY <1>1, InOrderSteps
<1> DEFINE G == {k \in Nat : k <= n => f[k] = g[k]}
<1>3. 0 \in G
  BY <1>2 DEF ListedBy
<1>4. ASSUME NEW k \in Nat, k \in G PROVE k + 1 \in G
  <2>1. ASSUME k + 1 <= n PROVE f[k + 1] = g[k + 1]
    <3>1. k <= n /\ k + 1 \in 1 .. n /\ k + 1 \in 1 .. m /\ (k + 1) - 1 = k
      BY <2>1
    <3>2. f[k] = g[k]
      BY <1>4, <3>1
    <3> HIDE DEF G
    <3>3. /\ f[k + 1] = IF k + 1 \in DOMAIN other THEN Append(f[k], other[k + 1]) ELSE f[k]
          /\ g[k + 1] = IF k + 1 \in DOMAIN value THEN Append(g[k], value[k + 1]) ELSE g[k]
      BY <1>2, <3>1 DEF ListedBy
    <3> QED
      BY <3>1, <3>2, <3>3
  <2> QED
    BY <2>1
<1> HIDE DEF G
<1>5. n \in G /\ n <= n
  BY <1>3, <1>4, FromZero
<1> QED
  BY <1>2, <1>5 DEF G, ListedBy

LEMMA InOrderAgrees ==
    ASSUME NEW n \in Nat, NEW value, NEW other,
           \A k \in 1 .. n : /\ k \in DOMAIN value <=> k \in DOMAIN other
                             /\ k \in DOMAIN value => value[k] = other[k]
    PROVE  InOrder(value, n) = InOrder(other, n)
<1> DEFINE T == {other[k] : k \in DOMAIN other}
<1>1. \A k \in DOMAIN other : other[k] \in T
  OBVIOUS
<1> HIDE DEF T
<1>2. PICK f : ListedBy(f, other, n)
  BY <1>1, InOrderSteps
<1>3. n <= n
  OBVIOUS
<1>4. f[n] = InOrder(value, n)
  BY <1>2, <1>3, SameUpTo
<1> QED
  BY <1>2, <1>4 DEF ListedBy

\* One number more.
LEMMA InOrderNext ==
    ASSUME NEW n \in Nat, NEW value
    PROVE  /\ InOrder(value, n + 1) = IF n + 1 \in DOMAIN value
                                      THEN Append(InOrder(value, n), value[n + 1])
                                      ELSE InOrder(value, n)
           /\ InOrder(value, 0) = << >>
<1> DEFINE T == {value[k] : k \in DOMAIN value}
<1>1. \A k \in DOMAIN value : value[k] \in T
  OBVIOUS
<1> HIDE DEF T
<1>2. n + 1 \in Nat /\ n <= n + 1 /\ 0 <= n + 1 /\ n + 1 \in 1 .. n + 1 /\ (n + 1) - 1 = n /\ 0 \in Nat
  OBVIOUS
<1>3. PICK f : ListedBy(f, value, n + 1)
  BY <1>1, <1>2, InOrderSteps
<1>4. f[n] = InOrder(value, n)
  BY <1>2, <1>3, SameUpTo
<1>5. \A k \in 1 .. 0 : FALSE
  OBVIOUS
<1>6. f[0] = InOrder(value, 0)
  BY <1>2, <1>3, <1>5, SameUpTo
<1> QED
  BY <1>2, <1>3, <1>4, <1>6 DEF ListedBy

\* Numbers without a value are passed over.
LEMMA InOrderSkips ==
    ASSUME NEW n \in Nat, NEW m \in Nat, n <= m, NEW value,
           \A k \in n + 1 .. m : k \notin DOMAIN value
    PROVE  InOrder(value, m) = InOrder(value, n)
<1> DEFINE G == {d \in Nat : n + d <= m => InOrder(value, n + d) = InOrder(value, n)}
<1>1. 0 \in G
  BY n + 0 = n
<1>2. ASSUME NEW d \in Nat, d \in G PROVE d + 1 \in G
  <2>1. ASSUME n + (d + 1) <= m PROVE InOrder(value, n + (d + 1)) = InOrder(value, n)
    <3>1. n + d \in Nat /\ n + d <= m /\ (n + d) + 1 = n + (d + 1) /\ (n + d) + 1 \in n + 1 .. m
      BY <2>1
    <3>2. InOrder(value, n + d) = InOrder(value, n)
      BY <1>2, <3>1
    <3> HIDE DEF G
    <3>3. (n + d) + 1 \notin DOMAIN value
      BY <3>1
    <3> QED
      BY <3>1, <3>2, <3>3, InOrderNext
  <2> QED
    BY <2>1
<1> HIDE DEF G
<1>3. m - n \in Nat /\ n + (m - n) = m /\ n + (m - n) <= m
  OBVIOUS
<1>4. m - n \in G
  BY <1>1, <1>2, <1>3, FromZero
<1> QED
  BY <1>3, <1>4 DEF G

\* The numbers of some of 1 .. n in order, and the values at them.
Lists(s, places, value, k) ==
    /\ places \in Seq(Nat) /\ Len(places) = Len(s)
    /\ \A i \in 1 .. Len(s) : /\ places[i] \in DOMAIN value /\ places[i] <= k
                              /\ s[i] = value[places[i]]
    /\ \A i, j \in 1 .. Len(s) : i < j => places[i] < places[j]
    /\ \A m \in DOMAIN value : m <= k => \E i \in 1 .. Len(s) : places[i] = m

LEMMA OneMoreListed ==
    ASSUME NEW T, NEW s \in Seq(T), NEW value, DOMAIN value \subseteq Nat \ {0}, NEW k \in Nat,
           NEW places, Lists(s, places, value, k), k + 1 \in DOMAIN value, value[k + 1] \in T
    PROVE  Lists(Append(s, value[k + 1]), Append(places, k + 1), value, k + 1)
<1> DEFINE longer == Append(s, value[k + 1])
           more == Append(places, k + 1)
<1>1. places \in Seq(Nat) /\ Len(places) = Len(s) /\ Len(s) \in Nat
  BY LenProperties DEF Lists
<1>2. /\ longer \in Seq(T) /\ Len(longer) = Len(s) + 1 /\ longer[Len(s) + 1] = value[k + 1]
      /\ \A i \in 1 .. Len(s) : longer[i] = s[i]
  BY AppendProperties
<1>3. /\ more \in Seq(Nat) /\ Len(more) = Len(s) + 1 /\ more[Len(s) + 1] = k + 1
      /\ \A i \in 1 .. Len(s) : more[i] = places[i]
  BY <1>1, AppendProperties
<1> HIDE DEF longer, more
<1>4. /\ \A i \in 1 .. Len(s) + 1 : i \in 1 .. Len(s) \/ i = Len(s) + 1
      /\ \A i \in 1 .. Len(s) : i \in 1 .. Len(s) + 1 /\ ~(Len(s) + 1 < i)
      /\ Len(s) + 1 \in 1 .. Len(s) + 1 /\ ~(Len(s) + 1 < Len(s) + 1) /\ k + 1 <= k + 1
  BY <1>1
<1>5. \A i \in 1 .. Len(s) : /\ places[i] \in DOMAIN value /\ places[i] <= k /\ places[i] \in Nat
                             /\ s[i] = value[places[i]]
  BY DEF Lists
<1>6. \A m \in Nat : (m <= k => m <= k + 1 /\ m < k + 1) /\ (m <= k + 1 => m <= k \/ m = k + 1)
  OBVIOUS
<1>7. ASSUME NEW i \in 1 .. Len(s) + 1
      PROVE  more[i] \in DOMAIN value /\ more[i] <= k + 1 /\ longer[i] = value[more[i]]
  <2>1. CASE i \in 1 .. Len(s)
    <3>1. more[i] = places[i] /\ longer[i] = s[i]
      BY <1>2, <1>3, <2>1
    <3> QED
      BY <1>5, <1>6, <2>1, <3>1
  <2>2. CASE i = Len(s) + 1
    BY <1>2, <1>3, <1>4, <2>2
  <2> QED
    BY <1>4, <2>1, <2>2
<1>8. \A i, j \in 1 .. Len(s) + 1 : i < j => more[i] < more[j]
  <2> SUFFICES ASSUME NEW i \in 1 .. Len(s) + 1, NEW j \in 1 .. Len(s) + 1, i < j
               PROVE  more[i] < more[j]
    OBVIOUS
  <2>1. i \in 1 .. Len(s)
    BY <1>1
  <2>2. CASE j \in 1 .. Len(s)
    BY <1>3, <2>1, <2>2 DEF Lists
  <2>3. CASE j = Len(s) + 1
    BY <1>3, <1>5, <1>6, <2>1, <2>3
  <2> QED
    BY <1>4, <2>2, <2>3
<1>9. ASSUME NEW m \in DOMAIN value, m <= k + 1 PROVE \E i \in 1 .. Len(s) + 1 : more[i] = m
  <2>1. CASE m = k + 1
    BY <1>3, <1>4, <2>1
  <2>2. CASE m <= k
    <3>1. PICK i \in 1 .. Len(s) : places[i] = m
      BY <2>2 DEF Lists
    <3> QED
      BY <1>3, <1>4, <3>1
  <2> QED
    BY <1>6, <1>9, <2>1, <2>2
<1>10. Lists(longer, more, value, k + 1)
  BY <1>2, <1>3, <1>7, <1>8, <1>9 DEF Lists
<1> QED
  BY <1>10 DEF longer, more

LEMMA InOrderLists ==
    ASSUME NEW n \in Nat, NEW T, NEW value, DOMAIN value \subseteq 1 .. n,
           \A k \in DOMAIN value : value[k] \in T
    PROVE  /\ InOrder(value, n) \in Seq(T)
           /\ \E places : Lists(InOrder(value, n), places, value, n)
<1>1. PICK upto \in [0 .. n -> Seq(T)] : ListedBy(upto, value, n)
  BY InOrderSteps
<1> DEFINE Longer(k, x) == IF k \in DOMAIN value THEN Append(x, value[k]) ELSE x
<1>2. upto[0] = << >> /\ \A k \in 1 .. n : upto[k] = Longer(k, upto[k - 1])
  BY <1>1 DEF ListedBy
<1> DEFINE G == {k \in Nat : k <= n => /\ upto[k] \in Seq(T)
                                       /\ \E places : Lists(upto[k], places, value, k)}
<1> DEFINE empty == << >>
<1>3. 0 \in G
  <2>1. empty \in Seq(T) /\ empty \in Seq(Nat) /\ Len(empty) = 0 /\ 1 .. 0 = {}
    BY EmptySeq
  <2>2. \A m \in DOMAIN value : ~(m <= 0)
    OBVIOUS
  <2>3. Lists(empty, empty, value, 0)
    BY <2>1, <2>2 DEF Lists
  <2> QED
    BY <1>2, <2>1, <2>3
<1>4. ASSUME NEW k \in Nat, k \in G PROVE k + 1 \in G
  <2>1. ASSUME k + 1 <= n
        PROVE  upto[k + 1] \in Seq(T) /\ \E places : Lists(upto[k + 1], places, value, k + 1)
    <3>1. k <= n /\ k + 1 \in 1 .. n /\ (k + 1) - 1 = k
      BY <2>1
    <3>2. upto[k] \in Seq(T) /\ \E places : Lists(upto[k], places, value, k)
      BY <1>4, <3>1
    <3>3. PICK places : Lists(upto[k], places, value, k)
      BY <3>2
    <3>4. upto[k + 1] = Longer(k + 1, upto[k])
      BY <1>2, <3>1
    <3> HIDE DEF G
    <3>5. CASE k + 1 \in DOMAIN value
      <4>1. upto[k + 1] = Append(upto[k], value[k + 1])
        BY <3>4, <3>5
      <4>2. Append(upto[k], value[k + 1]) \in Seq(T)
        BY <3>2, <3>5, AppendProperties
      <4>3. DOMAIN value \subseteq Nat \ {0}
        OBVIOUS
      <4>4. Lists(Append(upto[k], value[k + 1]), Append(places, k + 1), value, k + 1)
        BY <3>2, <3>3, <3>5, <4>3, OneMoreListed
      <4> QED
        BY <4>1, <4>2, <4>4
    <3>6. CASE k + 1 \notin DOMAIN value
      <4>1. upto[k + 1] = upto[k]
        BY <3>4, <3>6
      <4>2. \A m \in DOMAIN value : m \in Nat /\ m # k + 1
        BY <3>6
      <4>3. \A m \in Nat : (m <= k => m <= k + 1) /\ (m <= k + 1 /\ m # k + 1 => m <= k)
        OBVIOUS
      <4>4. Lists(upto[k], places, value, k + 1)
        BY <3>3, <4>2, <4>3 DEF Lists
      <4> QED
        BY <3>2, <4>1, <4>4
    <3> QED
      BY <3>5, <3>6
  <2> QED
    BY <2>1
<1> HIDE DEF G
<1>5. n \in G
  BY <1>3, <1>4, FromZero
<1>6. InOrder(value, n) = upto[n]
  BY <1>1 DEF ListedBy
<1>7. n <= n
  OBVIOUS
<1> QED
  BY <1>5, <1>6, <1>7 DEF G

\* As many as there are values, each of them, and none twice if none is twice.
LEMMA InOrderHasAll ==
    ASSUME NEW n \in Nat, NEW T, NEW value, DOMAIN value \subseteq 1 .. n,
           \A k \in DOMAIN value : value[k] \in T
    PROVE  LET s == InOrder(value, n)
           IN  /\ s \in Seq(T) /\ Len(s) \in Nat /\ DOMAIN s = 1 .. Len(s)
               /\ IsFiniteSet(DOMAIN value) /\ Len(s) = Cardinality(DOMAIN value)
               /\ ToSet(s) = {value[k] : k \in DOMAIN value}
<1> DEFINE s == InOrder(value, n)
<1>1. s \in Seq(T) /\ \E places : Lists(s, places, value, n)
  BY InOrderLists
<1> HIDE DEF s
<1>2. PICK places : Lists(s, places, value, n)
  BY <1>1
<1>3. Len(s) \in Nat /\ DOMAIN s = 1 .. Len(s)
  BY <1>1, LenProperties
<1>4. DOMAIN places = 1 .. Len(s) /\ places \in Seq(Nat)
  BY <1>2, LenProperties DEF Lists
<1>5. places \in [1 .. Len(s) -> DOMAIN value]
  BY <1>2, <1>4 DEF Lists
<1>6. \A i, j \in 1 .. Len(s) : places[i] = places[j] => i = j
  <2> SUFFICES ASSUME NEW i \in 1 .. Len(s), NEW j \in 1 .. Len(s), i # j
               PROVE  places[i] # places[j]
    OBVIOUS
  <2>1. i < j \/ j < i
    BY <1>3
  <2>2. places[i] \in Nat /\ places[j] \in Nat
    BY <1>4
  <2>3. places[i] < places[j] \/ places[j] < places[i]
    BY <1>2, <2>1 DEF Lists
  <2> QED
    BY <2>2, <2>3
<1>7. \A m \in DOMAIN value : \E i \in 1 .. Len(s) : places[i] = m
  BY <1>2 DEF Lists
<1>8. places \in Bijection(1 .. Len(s), DOMAIN value)
  BY <1>5, <1>6, <1>7 DEF Bijection, Injection, Surjection, IsInjective
<1>9. IsFiniteSet(DOMAIN value) /\ Len(s) = Cardinality(DOMAIN value)
  <2>1. /\ IsFiniteSet(1 .. Len(s))
        /\ Cardinality(1 .. Len(s)) = IF 1 > Len(s) THEN 0 ELSE Len(s) - 1 + 1
    BY <1>3, FS_Interval
  <2>3. (IF 1 > Len(s) THEN 0 ELSE Len(s) - 1 + 1) = Len(s)
    BY ONLY <1>3
  <2>2. ExistsBijection(1 .. Len(s), DOMAIN value)
    BY <1>8 DEF ExistsBijection
  <2> QED
    BY <2>1, <2>2, <2>3, FS_Bijection
<1>10. \A i \in 1 .. Len(s) : s[i] = value[places[i]]
  BY <1>2 DEF Lists
<1>11. ToSet(s) = {value[k] : k \in DOMAIN value}
  BY <1>3, <1>5, <1>7, <1>10 DEF ToSet
<1> QED
  BY <1>1, <1>3, <1>9, <1>11 DEF s

LEMMA PrefixByPrefix ==
    ASSUME NEW T, NEW s \in Seq(T)
    PROVE  /\ SubSeq(s, 1, 0) = << >> /\ SubSeq(s, 1, Len(s)) = s
           /\ \A k \in Nat : k <= Len(s) =>
                 SubSeq(s, 1, k) \in Seq(T) /\ Len(SubSeq(s, 1, k)) = k
           /\ \A k \in Nat : k + 1 <= Len(s) =>
                 s[k + 1] \in T /\ SubSeq(s, 1, k + 1) = Append(SubSeq(s, 1, k), s[k + 1])
<1>1. Len(s) \in Nat /\ \A i \in 1 .. Len(s) : s[i] \in T
  BY LenProperties, ElementOfSeq
<1>2. SubSeq(s, 1, 0) = << >> /\ SubSeq(s, 1, Len(s)) = s
  BY SubSeqEmpty, SubSeqFull
<1>3. ASSUME NEW k \in Nat, k <= Len(s)
      PROVE  SubSeq(s, 1, k) \in Seq(T) /\ Len(SubSeq(s, 1, k)) = k
  <2>1. \A i \in 1 .. k : s[i] \in T
    BY <1>1, <1>3
  <2>2. SubSeq(s, 1, k) \in Seq(T) /\ Len(SubSeq(s, 1, k)) = IF 1 <= k THEN k - 1 + 1 ELSE 0
    BY <2>1, SubSeqProperties
  <2> QED
    BY <2>2
<1>4. ASSUME NEW k \in Nat, k + 1 <= Len(s)
      PROVE  s[k + 1] \in T /\ SubSeq(s, 1, k + 1) = Append(SubSeq(s, 1, k), s[k + 1])
  <2>1. 1 \in 1 .. Len(s) /\ k + 1 \in 1 .. Len(s) /\ (k + 1) - 1 = k /\ k <= Len(s)
    BY <1>1, <1>4
  <2>2. SubSeq(s, 1, k + 1) = SubSeq(s, 1, k) \o <<s[k + 1]>>
    BY <2>1, SubSeqRecursiveSecond
  <2>3. SubSeq(s, 1, k) \in Seq(T) /\ s[k + 1] \in T
    BY <1>1, <1>3, <2>1
  <2> QED
    BY <2>2, <2>3, AppendIsConcat
<1> QED
  BY <1>2, <1>3, <1>4

LEMMA ConcatAppend ==
    ASSUME NEW T, NEW s \in Seq(T), NEW t \in Seq(T), NEW x \in T
    PROVE  s \o Append(t, x) = Append(s \o t, x)
<1>1. <<x>> \in Seq(T) /\ s \o t \in Seq(T)
  BY ConcatProperties
<1> QED
  BY <1>1, AppendIsConcat, ConcatAssociative

LEMMA OnlyFromIsList ==
    ASSUME NEW T, NEW s \in Seq(T), NEW S
    PROVE  OnlyFrom(s, S) \in Seq(T \cap S)
<1> DEFINE value == Restrict(s, {n \in DOMAIN s : s[n] \in S})
<1>1. Len(s) \in Nat /\ DOMAIN s = 1 .. Len(s) /\ \A i \in 1 .. Len(s) : s[i] \in T
  BY LenProperties, ElementOfSeq
<1>2. DOMAIN value \subseteq 1 .. Len(s) /\ \A k \in DOMAIN value : value[k] \in T \cap S
  BY <1>1 DEF Restrict
<1> HIDE DEF value
<1>3. InOrder(value, Len(s)) \in Seq(T \cap S)
  BY <1>1, <1>2, InOrderLists
<1> QED
  BY <1>3 DEF OnlyFrom, value

LEMMA OnlyFromNothing == ASSUME NEW S PROVE OnlyFrom(<< >>, S) = << >>
<1>1. Len(<< >>) = 0
  BY EmptySeq
<1> QED
  BY <1>1, InOrderNext DEF OnlyFrom

LEMMA OnlyFromNext ==
    ASSUME NEW T, NEW s \in Seq(T), NEW x \in T, NEW S
    PROVE  OnlyFrom(Append(s, x), S) =
              IF x \in S THEN Append(OnlyFrom(s, S), x) ELSE OnlyFrom(s, S)
<1> DEFINE longer == Append(s, x)
           value == Restrict(s, {n \in DOMAIN s : s[n] \in S})
           more == Restrict(longer, {n \in DOMAIN longer : longer[n] \in S})
<1>1. Len(s) \in Nat /\ DOMAIN s = 1 .. Len(s)
  BY LenProperties
<1>2. /\ longer \in Seq(T) /\ Len(longer) = Len(s) + 1 /\ DOMAIN longer = 1 .. Len(s) + 1
      /\ longer[Len(s) + 1] = x /\ \A i \in 1 .. Len(s) : longer[i] = s[i]
  <2>1. longer \in Seq(T) /\ Len(longer) = Len(s) + 1
    BY AppendProperties
  <2> QED
    BY <2>1, AppendProperties, LenProperties
<1> HIDE DEF longer
<1>3. \A k \in 1 .. Len(s) : k \in 1 .. Len(s) + 1 /\ Len(s) + 1 \in 1 .. Len(s) + 1
  BY <1>1
<1>4. \A k \in 1 .. Len(s) : /\ k \in DOMAIN value <=> k \in DOMAIN more
                             /\ k \in DOMAIN value => value[k] = more[k]
  BY <1>1, <1>2, <1>3 DEF Restrict
<1>5. Len(s) + 1 \in 1 .. Len(s) + 1
  BY <1>1
<1>6. (Len(s) + 1 \in DOMAIN more <=> x \in S) /\ (x \in S => more[Len(s) + 1] = x)
  BY <1>2, <1>5 DEF Restrict
<1> HIDE DEF value, more
<1>7. InOrder(value, Len(s)) = InOrder(more, Len(s))
  BY <1>1, <1>4, InOrderAgrees
<1>8. InOrder(more, Len(s) + 1) =
         IF x \in S THEN Append(InOrder(more, Len(s)), x) ELSE InOrder(more, Len(s))
  BY <1>1, <1>6, InOrderNext
<1>9. OnlyFrom(longer, S) = InOrder(more, Len(s) + 1) /\ OnlyFrom(s, S) = InOrder(value, Len(s))
  BY <1>2 DEF OnlyFrom, more, value
<1> QED
  BY <1>7, <1>8, <1>9 DEF longer

LEMMA OnlyFromConcat ==
    ASSUME NEW T, NEW s \in Seq(T), NEW t \in Seq(T), NEW S
    PROVE  OnlyFrom(s \o t, S) = OnlyFrom(s, S) \o OnlyFrom(t, S)
<1> DEFINE P(k) == SubSeq(t, 1, k)
           G == {k \in Nat : k <= Len(t) =>
                    OnlyFrom(s \o P(k), S) = OnlyFrom(s, S) \o OnlyFrom(P(k), S)}
<1>1. Len(t) \in Nat
  BY LenProperties
<1>2. P(0) = << >> /\ P(Len(t)) = t
  BY PrefixByPrefix
<1>3. \A k \in Nat : k <= Len(t) => P(k) \in Seq(T)
  BY PrefixByPrefix
<1>4. \A k \in Nat : k + 1 <= Len(t) => t[k + 1] \in T /\ P(k + 1) = Append(P(k), t[k + 1])
  BY PrefixByPrefix
<1>5. OnlyFrom(s, S) \in Seq(T) /\ OnlyFrom(<< >>, S) = << >>
      /\ \A u \in Seq(T) : OnlyFrom(u, S) \in Seq(T)
  <2>1. OnlyFrom(<< >>, S) = << >>
    BY OnlyFromNothing
  <2>2. ASSUME NEW u \in Seq(T) PROVE OnlyFrom(u, S) \in Seq(T)
    <3>1. OnlyFrom(u, S) \in Seq(T \cap S) /\ T \cap S \subseteq T
      BY OnlyFromIsList
    <3> QED
      BY <3>1, SeqMonotonic
  <2> QED
    BY <2>1, <2>2
<1> HIDE DEF P
<1>6. 0 \in G
  <2>1. s \o << >> = s /\ OnlyFrom(s, S) \o << >> = OnlyFrom(s, S)
    BY <1>5, ConcatEmptySeq
  <2> QED
    BY <1>2, <1>5, <2>1
<1>7. ASSUME NEW k \in Nat, k \in G PROVE k + 1 \in G
  <2>1. ASSUME k + 1 <= Len(t)
        PROVE  OnlyFrom(s \o P(k + 1), S) = OnlyFrom(s, S) \o OnlyFrom(P(k + 1), S)
    <3> DEFINE x == t[k + 1]
    <3>1. k <= Len(t)
      BY <1>1, <2>1
    <3>2. OnlyFrom(s \o P(k), S) = OnlyFrom(s, S) \o OnlyFrom(P(k), S)
      BY <1>7, <3>1
    <3> HIDE DEF G
    <3>3. P(k) \in Seq(T) /\ x \in T /\ P(k + 1) = Append(P(k), x)
      BY <1>3, <1>4, <2>1, <3>1
    <3> HIDE DEF x
    <3>4. s \o P(k) \in Seq(T) /\ s \o P(k + 1) = Append(s \o P(k), x)
      <4> DEFINE p == P(k)
      <4>1. p \in Seq(T) /\ x \in T /\ P(k + 1) = Append(p, x)
        BY <3>3
      <4> HIDE DEF p
      <4>2. s \o p \in Seq(T)
        BY <4>1, ConcatProperties
      <4>3. s \o Append(p, x) = Append(s \o p, x)
        BY <4>1, ConcatAppend
      <4> QED
        BY <4>1, <4>2, <4>3 DEF p
    <3>5. OnlyFrom(s \o P(k + 1), S) =
             IF x \in S THEN Append(OnlyFrom(s \o P(k), S), x) ELSE OnlyFrom(s \o P(k), S)
      <4> DEFINE u == s \o P(k)
      <4>1. u \in Seq(T) /\ x \in T /\ s \o P(k + 1) = Append(u, x)
        BY <3>3, <3>4
      <4> HIDE DEF u
      <4>2. OnlyFrom(Append(u, x), S) = IF x \in S THEN Append(OnlyFrom(u, S), x) ELSE OnlyFrom(u, S)
        BY <4>1, OnlyFromNext
      <4> QED
        BY <4>1, <4>2 DEF u
    <3>6. OnlyFrom(P(k + 1), S) =
             IF x \in S THEN Append(OnlyFrom(P(k), S), x) ELSE OnlyFrom(P(k), S)
      <4> DEFINE p == P(k)
      <4>1. p \in Seq(T) /\ x \in T /\ P(k + 1) = Append(p, x)
        BY <3>3
      <4> HIDE DEF p
      <4>2. OnlyFrom(Append(p, x), S) = IF x \in S THEN Append(OnlyFrom(p, S), x) ELSE OnlyFrom(p, S)
        BY <4>1, OnlyFromNext
      <4> QED
        BY <4>1, <4>2 DEF p
    <3>7. OnlyFrom(s, S) \o Append(OnlyFrom(P(k), S), x) =
             Append(OnlyFrom(s, S) \o OnlyFrom(P(k), S), x)
      BY <1>5, <3>3, ConcatAppend
    <3> QED
      BY <3>2, <3>5, <3>6, <3>7
  <2> QED
    BY <2>1
<1> HIDE DEF G
<1>8. Len(t) \in G /\ Len(t) <= Len(t)
  <2>1. Len(t) \in G
    BY <1>1, <1>6, <1>7, FromZero
  <2> QED
    BY <1>1, <2>1
<1> QED
  BY <1>2, <1>8 DEF G

\* The values behind a number, counted from there.
Behind(value, n, m) == [k \in {j \in 1 .. m : n + j \in DOMAIN value} |-> value[n + k]]

LEMMA InOrderConcat ==
    ASSUME NEW n \in Nat, NEW m \in Nat, NEW T, NEW value, value \in [DOMAIN value -> T]
    PROVE  InOrder(value, n + m) = InOrder(value, n) \o InOrder(Behind(value, n, m), m)
<1> DEFINE more == Behind(value, n, m)
<1>0. /\ \A k \in DOMAIN value : value[k] \in T
      /\ \A k \in DOMAIN more : more[k] \in T
      /\ \A k \in 1 .. m : \A i :
            i = n + k => (i \in DOMAIN value <=> k \in DOMAIN more)
                         /\ (k \in DOMAIN more => value[i] = more[k])
  <2>1. \A k \in DOMAIN value : value[k] \in T
    OBVIOUS
  <2>2. /\ DOMAIN more = {j \in 1 .. m : n + j \in DOMAIN value}
        /\ \A k \in DOMAIN more : more[k] = value[n + k]
    BY DEF Behind
  <2> HIDE DEF more
  <2>3. ASSUME NEW k \in DOMAIN more PROVE more[k] \in T
    BY <2>1, <2>2
  <2>4. ASSUME NEW k \in 1 .. m, NEW i, i = n + k
        PROVE  /\ i \in DOMAIN value <=> k \in DOMAIN more
               /\ k \in DOMAIN more => value[i] = more[k]
    BY <2>2, <2>4
  <2> QED
    BY <2>1, <2>3, <2>4
<1> HIDE DEF more
<1> DEFINE A == InOrder(value, n)
           M(k) == InOrder(more, k)
           V(k) == InOrder(value, n + k)
           G == {k \in Nat : k <= m => V(k) = A \o M(k)}
<1>1. A \in Seq(T)
  <2>1. PICK f \in [0 .. n -> Seq(T)] : ListedBy(f, value, n)
    BY <1>0, InOrderSteps
  <2> QED
    BY <2>1 DEF ListedBy
<1>2. ASSUME NEW k \in Nat PROVE M(k) \in Seq(T)
  <2>1. PICK f \in [0 .. k -> Seq(T)] : ListedBy(f, more, k)
    BY <1>0, InOrderSteps
  <2> QED
    BY <2>1 DEF ListedBy
<1>3. M(0) = << >> /\ V(0) = A
  BY n + 0 = n, InOrderNext
<1>4. ASSUME NEW k \in Nat
      PROVE  /\ M(k + 1) = IF k + 1 \in DOMAIN more THEN Append(M(k), more[k + 1]) ELSE M(k)
             /\ V(k + 1) = IF n + (k + 1) \in DOMAIN value THEN Append(V(k), value[n + (k + 1)]) ELSE V(k)
  <2>1. n + k \in Nat /\ n + (k + 1) = (n + k) + 1
    OBVIOUS
  <2>2. InOrder(value, (n + k) + 1) = IF (n + k) + 1 \in DOMAIN value
                                      THEN Append(InOrder(value, n + k), value[(n + k) + 1])
                                      ELSE InOrder(value, n + k)
    BY <2>1, InOrderNext
  <2> QED
    BY <2>1, <2>2, InOrderNext
<1> HIDE DEF A, M, V
<1>5. 0 \in G
  BY <1>1, <1>3, ConcatEmptySeq
<1>6. ASSUME NEW k \in Nat, k \in G PROVE k + 1 \in G
  <2>1. ASSUME k + 1 <= m PROVE V(k + 1) = A \o M(k + 1)
    <3>1. k <= m /\ k + 1 \in 1 .. m
      BY <2>1
    <3>2. V(k) = A \o M(k)
      BY <1>6, <3>1
    <3> HIDE DEF G
    <3> DEFINE j == k + 1
               i == n + j
               older == M(k)
    <3>3. j \in 1 .. m /\ i = n + j
      BY <3>1
    <3>4. /\ i \in DOMAIN value <=> j \in DOMAIN more
          /\ j \in DOMAIN more => value[i] = more[j]
      <4> HIDE DEF j, i
      <4> QED
        BY <1>0, <3>3
    <3>5. /\ M(j) = IF j \in DOMAIN more THEN Append(older, more[j]) ELSE older
          /\ V(j) = IF i \in DOMAIN value THEN Append(V(k), value[i]) ELSE V(k)
      BY <1>4
    <3>6. older \in Seq(T) /\ V(k) = A \o older
      BY <1>2, <3>2
    <3> HIDE DEF j, i, older
    <3>7. V(j) = A \o M(j)
      <4>1. CASE j \in DOMAIN more
        <5> DEFINE x == more[j]
        <5>1. x \in T /\ value[i] = x /\ i \in DOMAIN value
          BY <1>0, <3>4, <4>1
        <5> HIDE DEF x
        <5>2. A \o Append(older, x) = Append(A \o older, x)
          BY <1>1, <3>6, <5>1, ConcatAppend
        <5> QED
          BY <3>5, <3>6, <4>1, <5>1, <5>2 DEF x
      <4>2. CASE j \notin DOMAIN more
        BY <3>4, <3>5, <3>6, <4>2
      <4> QED
        BY <4>1, <4>2
    <3> QED
      BY <3>7 DEF j
  <2> QED
    BY <2>1
<1> HIDE DEF G
<1>7. m \in G /\ m <= m
  <2>1. m \in G
    BY <1>5, <1>6, FromZero
  <2> QED
    BY <2>1
<1> QED
  BY <1>7 DEF A, M, V, G, more

\* All elements are in the set, or none is.
LEMMA OnlyFromAllOrNone ==
    ASSUME NEW T, NEW s \in Seq(T), NEW S
    PROVE  /\ T \subseteq S => OnlyFrom(s, S) = s
           /\ T \cap S = {} => OnlyFrom(s, S) = << >>
<1> DEFINE P(k) == SubSeq(s, 1, k)
           G == {k \in Nat : k <= Len(s) => /\ T \subseteq S => OnlyFrom(P(k), S) = P(k)
                                            /\ T \cap S = {} => OnlyFrom(P(k), S) = << >>}
<1>1. Len(s) \in Nat
  BY LenProperties
<1>2. P(0) = << >> /\ P(Len(s)) = s
  BY PrefixByPrefix
<1>3. \A k \in Nat : k <= Len(s) => P(k) \in Seq(T)
  BY PrefixByPrefix
<1>4. \A k \in Nat : k + 1 <= Len(s) => s[k + 1] \in T /\ P(k + 1) = Append(P(k), s[k + 1])
  BY PrefixByPrefix
<1> HIDE DEF P
<1>5. 0 \in G
  BY <1>2, OnlyFromNothing
<1>6. ASSUME NEW k \in Nat, k \in G PROVE k + 1 \in G
  <2>1. ASSUME k + 1 <= Len(s)
        PROVE  /\ T \subseteq S => OnlyFrom(P(k + 1), S) = P(k + 1)
               /\ T \cap S = {} => OnlyFrom(P(k + 1), S) = << >>
    <3> DEFINE x == s[k + 1]
    <3>1. k <= Len(s)
      BY <1>1, <2>1
    <3>2. /\ T \subseteq S => OnlyFrom(P(k), S) = P(k)
          /\ T \cap S = {} => OnlyFrom(P(k), S) = << >>
      BY <1>6, <3>1
    <3> HIDE DEF G
    <3>3. P(k) \in Seq(T) /\ x \in T /\ P(k + 1) = Append(P(k), x)
      BY <1>3, <1>4, <2>1, <3>1
    <3> HIDE DEF x
    <3>4. OnlyFrom(P(k + 1), S) =
             IF x \in S THEN Append(OnlyFrom(P(k), S), x) ELSE OnlyFrom(P(k), S)
      <4> DEFINE p == P(k)
      <4>1. p \in Seq(T) /\ x \in T /\ P(k + 1) = Append(p, x)
        BY <3>3
      <4> HIDE DEF p
      <4>2. OnlyFrom(Append(p, x), S) = IF x \in S THEN Append(OnlyFrom(p, S), x) ELSE OnlyFrom(p, S)
        BY <4>1, OnlyFromNext
      <4> QED
        BY <4>1, <4>2 DEF p
    <3> QED
      BY <3>2, <3>3, <3>4
  <2> QED
    BY <2>1
<1> HIDE DEF G
<1>7. Len(s) \in G /\ Len(s) <= Len(s)
  <2>1. Len(s) \in G
    BY <1>1, <1>5, <1>6, FromZero
  <2> QED
    BY <1>1, <2>1
<1> QED
  BY <1>2, <1>7 DEF G

\* The steps of FlattenSeq.
LEMMA FlattenSteps ==
    ASSUME NEW T, NEW parts \in Seq(Seq(T))
    PROVE  \E f \in [0 .. Len(parts) -> Seq(T)] :
              /\ f[0] = << >> /\ f[Len(parts)] = FlattenSeq(parts)
              /\ \A k \in 1 .. Len(parts) : f[k] = f[k - 1] \o parts[k]
<1> DEFINE n == Len(parts)
           step == [k \in 1 .. n |-> [x \in Seq(T) |-> x \o parts[k]]]
           Made(f) == f = [i \in 1 .. n |-> IF i = 1 THEN parts[i] ELSE f[i - 1] \o parts[i]]
           flatten == CHOOSE f : Made(f)
<1>1. n \in Nat /\ DOMAIN parts = 1 .. n /\ \A k \in 1 .. n : parts[k] \in Seq(T)
  BY LenProperties, ElementOfSeq
<1> HIDE DEF n
<1>2. << >> \in Seq(T)
  BY EmptySeq
<1>3. step \in StepsOn(n, Seq(T))
  <2>1. ASSUME NEW k \in 1 .. n, NEW x \in Seq(T) PROVE x \o parts[k] \in Seq(T)
    BY <1>1, <2>1, ConcatProperties
  <2> QED
    BY <2>1 DEF StepsOn
<1>4. PICK f : StepByStepFrom(f, n, Seq(T), << >>, step)
  <2> HIDE DEF step
  <2> QED
    BY <1>1, <1>2, <1>3, StepByStep
<1>5. f \in [0 .. n -> Seq(T)] /\ f[0] = << >> /\ \A k \in 1 .. n : f[k] = f[k - 1] \o parts[k]
  <2>1. f \in [0 .. n -> Seq(T)] /\ f[0] = << >> /\ \A k \in 1 .. n : f[k] = step[k][f[k - 1]]
    BY <1>4 DEF StepByStepFrom
  <2>2. ASSUME NEW k \in 1 .. n PROVE f[k] = f[k - 1] \o parts[k]
    <3>1. k - 1 \in 0 .. n
      BY <1>1
    <3>2. f[k - 1] \in Seq(T)
      BY <2>1, <3>1
    <3> QED
      BY <2>1, <3>2
  <2> QED
    BY <2>1, <2>2
<1> HIDE DEF step
<1>6. CASE n = 0
  <2>1. parts = << >>
    BY <1>6, EmptySeq DEF n
  <2>2. FlattenSeq(parts) = parts
    BY <1>6 DEF FlattenSeq, n
  <2> QED
    BY <1>5, <1>6, <2>1, <2>2 DEF n
<1>7. CASE n # 0
  <2> DEFINE g == [i \in 1 .. n |-> f[i]]
  <2>1. Made(g)
    <3>1. \A i \in 1 .. n : (i = 1 \/ i - 1 \in 1 .. n) /\ 1 - 1 = 0
      BY <1>1
    <3>2. ASSUME NEW i \in 1 .. n PROVE g[i] = IF i = 1 THEN parts[i] ELSE g[i - 1] \o parts[i]
      <4>1. CASE i = 1
        <5>1. f[1] = << >> \o parts[1]
          BY <1>5, <3>1, <4>1
        <5>2. << >> \o parts[1] = parts[1]
          BY <1>1, <4>1, ConcatEmptySeq
        <5> QED
          BY <4>1, <5>1, <5>2
      <4>2. CASE i # 1
        BY <1>5, <3>1, <4>2
      <4> QED
        BY <4>1, <4>2
    <3>3. g = [i \in 1 .. n |-> g[i]]
      OBVIOUS
    <3> HIDE DEF g
    <3> QED
      BY <3>2, <3>3
  <2>2. Made(flatten)
    <3> HIDE DEF Made, g
    <3> QED
      BY <2>1
  <2> HIDE DEF flatten
  <2> DEFINE G == {k \in Nat : k \in 1 .. n => flatten[k] = f[k]}
  <2>3. 0 \in G
    OBVIOUS
  <2>4. ASSUME NEW k \in Nat, k \in G PROVE k + 1 \in G
    <3>1. ASSUME k + 1 \in 1 .. n PROVE flatten[k + 1] = f[k + 1]
      <4>1. (k + 1) - 1 = k
        OBVIOUS
      <4>2. flatten[k + 1] = IF k + 1 = 1 THEN parts[k + 1] ELSE flatten[k] \o parts[k + 1]
        BY <2>2, <3>1, <4>1
      <4>3. f[k + 1] = f[k] \o parts[k + 1]
        BY <1>5, <3>1, <4>1
      <4>4. CASE k = 0
        <5>1. << >> \o parts[1] = parts[1] /\ 0 + 1 = 1
          BY <1>1, <3>1, <4>4, ConcatEmptySeq
        <5> QED
          BY <1>5, <4>2, <4>3, <4>4, <5>1
      <4>5. CASE k # 0
        <5>1. k + 1 # 1 /\ k \in 1 .. n
          BY <1>1, <3>1, <4>5
        <5>2. flatten[k] = f[k]
          BY <2>4, <5>1
        <5> QED
          BY <4>2, <4>3, <5>1, <5>2
      <4> QED
        BY <4>4, <4>5
    <3> QED
      BY <3>1
  <2> HIDE DEF G
  <2>5. n \in G /\ n \in 1 .. n
    <3>1. n \in G
      BY <1>1, <2>3, <2>4, FromZero
    <3> QED
      BY <1>1, <1>7, <3>1
  <2>6. FlattenSeq(parts) = flatten[n]
    BY <1>7 DEF FlattenSeq, flatten, n
  <2>7. flatten[n] = f[n]
    BY <2>5 DEF G
  <2> QED
    BY <1>5, <2>6, <2>7 DEF n
<1> QED
  BY <1>6, <1>7

\* One part more.
LEMMA FlattenAppend ==
    ASSUME NEW T, NEW parts \in Seq(Seq(T)), NEW part \in Seq(T)
    PROVE  /\ FlattenSeq(parts) \in Seq(T)
           /\ FlattenSeq(Append(parts, part)) = FlattenSeq(parts) \o part
<1> DEFINE n == Len(parts)
           longer == Append(parts, part)
<1>1. n \in Nat /\ longer \in Seq(Seq(T)) /\ Len(longer) = n + 1 /\ longer[n + 1] = part
      /\ \A k \in 1 .. n : longer[k] = parts[k]
  BY AppendProperties, LenProperties
<1>2. PICK f \in [0 .. n -> Seq(T)] :
         /\ f[0] = << >> /\ f[n] = FlattenSeq(parts)
         /\ \A k \in 1 .. n : f[k] = f[k - 1] \o parts[k]
  BY FlattenSteps
<1> HIDE DEF longer, n
<1>3. PICK g \in [0 .. n + 1 -> Seq(T)] :
         /\ g[0] = << >> /\ g[n + 1] = FlattenSeq(longer)
         /\ \A k \in 1 .. n + 1 : g[k] = g[k - 1] \o longer[k]
  <2>1. \E g \in [0 .. Len(longer) -> Seq(T)] :
           /\ g[0] = << >> /\ g[Len(longer)] = FlattenSeq(longer)
           /\ \A k \in 1 .. Len(longer) : g[k] = g[k - 1] \o longer[k]
    BY <1>1, FlattenSteps
  <2> QED
    BY <1>1, <2>1
<1> DEFINE G == {k \in Nat : k <= n => f[k] = g[k]}
<1>4. 0 \in G
  BY <1>2, <1>3
<1>5. ASSUME NEW k \in Nat, k \in G PROVE k + 1 \in G
  <2>1. ASSUME k + 1 <= n PROVE f[k + 1] = g[k + 1]
    <3>1. k <= n /\ k + 1 \in 1 .. n /\ k + 1 \in 1 .. n + 1 /\ (k + 1) - 1 = k
      BY <1>1, <2>1
    <3>2. f[k] = g[k]
      BY <1>5, <3>1
    <3> QED
      BY <1>1, <1>2, <1>3, <3>1, <3>2
  <2> QED
    BY <2>1
<1> HIDE DEF G
<1>6. n \in G /\ n <= n /\ n + 1 \in 1 .. n + 1 /\ (n + 1) - 1 = n /\ n \in 0 .. n
  <2>1. n \in G
    BY <1>1, <1>4, <1>5, FromZero
  <2> QED
    BY <1>1, <2>1
<1>7. f[n] = g[n] /\ g[n + 1] = g[n] \o part
  BY <1>1, <1>3, <1>6 DEF G
<1> QED
  BY <1>2, <1>3, <1>6, <1>7 DEF longer

LEMMA FlattenConcat ==
    ASSUME NEW T, NEW s \in Seq(Seq(T)), NEW t \in Seq(Seq(T))
    PROVE  FlattenSeq(s \o t) = FlattenSeq(s) \o FlattenSeq(t)
<1> DEFINE P(k) == SubSeq(t, 1, k)
           F(x) == FlattenSeq(x)
           G == {k \in Nat : k <= Len(t) => F(s \o P(k)) = F(s) \o F(P(k))}
<1>1. Len(t) \in Nat
  BY LenProperties
<1>2. P(0) = << >> /\ P(Len(t)) = t
  BY PrefixByPrefix
<1>3. \A k \in Nat : k <= Len(t) => P(k) \in Seq(Seq(T))
  BY PrefixByPrefix
<1>4. \A k \in Nat : k + 1 <= Len(t) => t[k + 1] \in Seq(T) /\ P(k + 1) = Append(P(k), t[k + 1])
  BY PrefixByPrefix
<1>5. \A x \in Seq(Seq(T)) : \A y \in Seq(T) : F(x) \in Seq(T) /\ F(Append(x, y)) = F(x) \o y
  BY FlattenAppend
<1>6. F(<< >>) = << >> /\ << >> \in Seq(T)
  BY EmptySeq DEF FlattenSeq
<1>10. \A u, v, w \in Seq(T) : (u \o v) \o w = u \o (v \o w)
  BY ConcatAssociative
<1> HIDE DEF P, F
<1>7. 0 \in G
  <2>1. s \o << >> = s /\ F(s) \o << >> = F(s)
    BY <1>5, <1>6, ConcatEmptySeq
  <2> QED
    BY <1>2, <1>6, <2>1
<1>8. ASSUME NEW k \in Nat, k \in G PROVE k + 1 \in G
  <2>1. ASSUME k + 1 <= Len(t) PROVE F(s \o P(k + 1)) = F(s) \o F(P(k + 1))
    <3> DEFINE x == t[k + 1]
               p == P(k)
               sp == s \o p
    <3>1. k <= Len(t)
      BY <1>1, <2>1
    <3>2. F(sp) = F(s) \o F(p)
      BY <1>8, <3>1
    <3> HIDE DEF G
    <3>3. p \in Seq(Seq(T)) /\ x \in Seq(T) /\ P(k + 1) = Append(p, x)
      BY <1>3, <1>4, <2>1, <3>1
    <3> HIDE DEF x, p
    <3>4. sp \in Seq(Seq(T)) /\ s \o P(k + 1) = Append(sp, x)
      <4>1. sp \in Seq(Seq(T))
        BY <3>3, ConcatProperties
      <4>2. s \o Append(p, x) = Append(sp, x)
        <5> DEFINE U == Seq(T)
        <5>1. s \in Seq(U) /\ p \in Seq(U) /\ x \in U
          BY <3>3
        <5> HIDE DEF U
        <5> QED
          BY <5>1, ConcatAppend
      <4> QED
        BY <3>3, <4>1, <4>2
    <3> HIDE DEF sp
    <3>5. F(s \o P(k + 1)) = (F(s) \o F(p)) \o x /\ F(P(k + 1)) = F(p) \o x
      <4>1. F(Append(sp, x)) = F(sp) \o x /\ F(Append(p, x)) = F(p) \o x
        BY <1>5, <3>3, <3>4
      <4> QED
        BY <3>2, <3>3, <3>4, <4>1
    <3>6. (F(s) \o F(p)) \o x = F(s) \o (F(p) \o x)
      <4> DEFINE a == F(s)
                 b == F(p)
      <4>1. a \in Seq(T) /\ b \in Seq(T)
        BY <1>5, <1>6, <3>3
      <4> HIDE DEF a, b
      <4>2. (a \o b) \o x = a \o (b \o x)
        BY ONLY <1>10, <3>3, <4>1
      <4> QED
        BY <4>2 DEF a, b
    <3> QED
      BY <3>5, <3>6
  <2> QED
    BY <2>1
<1> HIDE DEF G
<1>9. Len(t) \in G /\ Len(t) <= Len(t)
  <2>1. Len(t) \in G
    BY <1>1, <1>7, <1>8, FromZero
  <2> QED
    BY <1>1, <2>1
<1> QED
  BY <1>2, <1>9 DEF G, F

LEMMA SeqIsList ==
    ASSUME NEW T, NEW s \in Seq(T)
    PROVE  IsList(s)
<1>1. Len(s) \in Nat /\ DOMAIN s = 1 .. Len(s) /\ s \in [1 .. Len(s) -> ToSet(s)]
  BY LenProperties DEF ToSet
<1> QED
  BY <1>1, IsASeq DEF IsList

LEMMA SizeOfInterval ==
    ASSUME NEW n \in Nat
    PROVE  IsFiniteSet(1 .. n) /\ Cardinality(1 .. n) = n
<1>1. IsFiniteSet(1 .. n) /\ Cardinality(1 .. n) = IF 1 > n THEN 0 ELSE n - 1 + 1
  BY FS_Interval
<1>2. (IF 1 > n THEN 0 ELSE n - 1 + 1) = n
  BY ONLY n \in Nat
<1> QED
  BY <1>1, <1>2

LEMMA ListsHaveLengths ==
    ASSUME NEW s, IsList(s)
    PROVE  Len(s) \in Nat /\ DOMAIN s = 1 .. Len(s) /\ \A i \in 1 .. Len(s) : s[i] \in ToSet(s)
  BY LenProperties, ElementOfSeq DEF IsList

LEMMA InOrderIsList ==
    ASSUME NEW n \in Nat, NEW value, DOMAIN value \subseteq 1 .. n
    PROVE  IsList(InOrder(value, n))
<1> DEFINE T == {value[k] : k \in DOMAIN value}
<1>1. \A k \in DOMAIN value : value[k] \in T
  OBVIOUS
<1> HIDE DEF T
<1>2. InOrder(value, n) \in Seq(T) /\ ToSet(InOrder(value, n)) = {value[k] : k \in DOMAIN value}
  BY <1>1, InOrderHasAll
<1> QED
  BY <1>2 DEF IsList, T

-----------------------------------------------------------------------------
(***************************************************************************)
(* RunsBetween: what is between the gaps.                                  *)
(***************************************************************************)
\* Elements s to e of a list are a run: no gap among them, none left out.
RunAt(list, gap, s, e) ==
    /\ s \in 1 .. e /\ e \in 1 .. Len(list)
    /\ \A k \in s .. e : list[k] # gap
    /\ s = 1 \/ list[s - 1] = gap
    /\ e = Len(list) \/ list[e + 1] = gap

RunStarts(list, gap) == {i \in DOMAIN list : list[i] # gap /\ (i = 1 \/ list[i - 1] = gap)}
RunEnds(list, gap) == {i \in DOMAIN list : list[i] # gap /\ (i = Len(list) \/ list[i + 1] = gap)}
RunStart(list, gap, e) == CHOOSE s \in 1 .. e : RunAt(list, gap, s, e)
RunEnd(list, gap, s) == CHOOSE e \in 1 .. Len(list) : RunAt(list, gap, s, e)

LEMMA InInterval ==
    \A n \in Nat : \A i \in 1 .. n :
        /\ i \in Nat /\ 1 <= i /\ i <= n /\ i <= i /\ i \in i .. i
        /\ i + 1 \in 1 .. n <=> i # n
        /\ i - 1 \in 1 .. n <=> i # 1
  OBVIOUS

LEMMA RunOn ==
    ASSUME NEW T, NEW gap, NEW text \in Seq(T), NEW s \in RunStarts(text, gap)
    PROVE  \E e \in 1 .. Len(text) : RunAt(text, gap, s, e)
<1>1. Len(text) \in Nat /\ DOMAIN text = 1 .. Len(text)
  BY LenProperties
<1>2. s \in 1 .. Len(text) /\ text[s] # gap /\ (s = 1 \/ text[s - 1] = gap)
  BY <1>1 DEF RunStarts
<1> DEFINE Found == \E e \in 1 .. Len(text) : RunAt(text, gap, s, e)
           G == {d \in Nat : s + d <= Len(text) => Found \/ \A k \in s .. s + d : text[k] # gap}
<1>3. 0 \in G
  <2>1. s + 0 = s /\ \A k \in s .. s : k = s
    BY <1>2
  <2> QED
    BY <1>2, <2>1
<1>4. ASSUME NEW d \in Nat, d \in G PROVE d + 1 \in G
  <2>1. ASSUME s + (d + 1) <= Len(text), ~Found
        PROVE  \A k \in s .. s + (d + 1) : text[k] # gap
    <3>1. /\ s + d <= Len(text) /\ s + d \in 1 .. Len(text) /\ s \in 1 .. s + d
          /\ (s + d) + 1 = s + (d + 1)
          /\ \A k \in s .. s + (d + 1) : k \in s .. s + d \/ k = s + (d + 1)
      BY <1>1, <1>2, <2>1
    <3>2. \A k \in s .. s + d : text[k] # gap
      BY <1>4, <2>1, <3>1
    <3>3. ASSUME text[s + (d + 1)] = gap PROVE FALSE
      <4>1. RunAt(text, gap, s, s + d)
        BY <1>2, <3>1, <3>2, <3>3 DEF RunAt
      <4> QED
        BY <2>1, <3>1, <4>1
    <3> QED
      BY <3>1, <3>2, <3>3
  <2> QED
    BY <2>1
<1> HIDE DEF G
<1>5. /\ Len(text) - s \in Nat /\ s + (Len(text) - s) = Len(text)
      /\ s + (Len(text) - s) <= Len(text) /\ s \in 1 .. Len(text) /\ Len(text) \in 1 .. Len(text)
  BY <1>1, <1>2
<1>6. Len(text) - s \in G
  BY <1>3, <1>4, <1>5, FromZero
<1>7. Found \/ \A k \in s .. Len(text) : text[k] # gap
  BY <1>5, <1>6 DEF G
<1>8. ASSUME \A k \in s .. Len(text) : text[k] # gap PROVE Found
  <2>1. RunAt(text, gap, s, Len(text))
    BY <1>2, <1>5, <1>8 DEF RunAt
  <2> QED
    BY <1>5, <2>1
<1> QED
  BY <1>7, <1>8

LEMMA RunBack ==
    ASSUME NEW T, NEW gap, NEW text \in Seq(T), NEW e \in RunEnds(text, gap)
    PROVE  \E s \in 1 .. e : RunAt(text, gap, s, e)
<1>1. Len(text) \in Nat /\ DOMAIN text = 1 .. Len(text)
  BY LenProperties
<1>2. e \in 1 .. Len(text) /\ text[e] # gap /\ (e = Len(text) \/ text[e + 1] = gap)
  BY <1>1 DEF RunEnds
<1>9. e \in Nat /\ 1 <= e
  BY ONLY <1>1, <1>2, InInterval
<1> DEFINE Found == \E s \in 1 .. e : RunAt(text, gap, s, e)
           G == {d \in Nat : d < e => Found \/ \A k \in e - d .. e : text[k] # gap}
<1>3. 0 \in G
  <2>1. \A k \in e - 0 .. e : k = e
    BY <1>2
  <2> QED
    BY <1>2, <2>1
<1>4. ASSUME NEW d \in Nat, d \in G PROVE d + 1 \in G
  <2>1. ASSUME d + 1 < e, ~Found
        PROVE  \A k \in e - (d + 1) .. e : text[k] # gap
    <3>1. /\ d < e /\ e - d \in 1 .. e /\ (e - d) - 1 = e - (d + 1)
          /\ \A k \in e - (d + 1) .. e : k \in e - d .. e \/ k = e - (d + 1)
      BY ONLY <1>9, <2>1, d \in Nat
    <3>2. \A k \in e - d .. e : text[k] # gap
      BY <1>4, <2>1, <3>1
    <3>3. ASSUME text[e - (d + 1)] = gap PROVE FALSE
      <4>1. RunAt(text, gap, e - d, e)
        BY <1>2, <3>1, <3>2, <3>3 DEF RunAt
      <4> QED
        BY <2>1, <3>1, <4>1
    <3> QED
      BY <3>1, <3>2, <3>3
  <2> QED
    BY <2>1
<1> HIDE DEF G
<1>5. e - 1 \in Nat /\ e - 1 < e /\ e - (e - 1) = 1 /\ 1 \in 1 .. e
  BY ONLY <1>1, <1>9
<1>6. e - 1 \in G
  BY <1>3, <1>4, <1>5, FromZero
<1>7. Found \/ \A k \in 1 .. e : text[k] # gap
  BY <1>5, <1>6 DEF G
<1>8. ASSUME \A k \in 1 .. e : text[k] # gap PROVE Found
  <2>1. RunAt(text, gap, 1, e)
    BY <1>2, <1>5, <1>8 DEF RunAt
  <2> QED
    BY <1>5, <2>1
<1> QED
  BY <1>7, <1>8

\* Words that share a letter are one.
LEMMA RunsApart ==
    ASSUME NEW T, NEW gap, NEW text \in Seq(T), NEW s, NEW e, NEW t, NEW d,
           RunAt(text, gap, s, e), RunAt(text, gap, t, d), t <= e, s <= d
    PROVE  s = t /\ e = d
<1>1. Len(text) \in Nat
  BY LenProperties
<1>2. /\ s \in Nat /\ e \in Nat /\ 1 <= s /\ s <= e /\ e <= Len(text)
      /\ t \in Nat /\ d \in Nat /\ 1 <= t /\ t <= d /\ d <= Len(text)
  BY <1>1 DEF RunAt
<1>3. /\ \A k \in s .. e : text[k] # gap
      /\ \A k \in t .. d : text[k] # gap
      /\ s = 1 \/ text[s - 1] = gap
      /\ t = 1 \/ text[t - 1] = gap
      /\ e = Len(text) \/ text[e + 1] = gap
      /\ d = Len(text) \/ text[d + 1] = gap
  BY DEF RunAt
<1>4. ASSUME s < t PROVE FALSE
  <2>1. t - 1 \in s .. e /\ t # 1
    BY <1>2, <1>4
  <2> QED
    BY <1>3, <2>1
<1>5. ASSUME t < s PROVE FALSE
  <2>1. s - 1 \in t .. d /\ s # 1
    BY <1>2, <1>5
  <2> QED
    BY <1>3, <2>1
<1>6. ASSUME e < d PROVE FALSE
  <2>1. e + 1 \in t .. d /\ e # Len(text)
    BY <1>2, <1>6
  <2> QED
    BY <1>3, <2>1
<1>7. ASSUME d < e PROVE FALSE
  <2>1. d + 1 \in s .. e /\ d # Len(text)
    BY <1>2, <1>7
  <2> QED
    BY <1>3, <2>1
<1> QED
  BY ONLY <1>2, <1>4, <1>5, <1>6, <1>7

\* Every start and every end is that of one word.
LEMMA RunOf ==
    ASSUME NEW T, NEW gap, NEW text \in Seq(T)
    PROVE  /\ \A s \in RunStarts(text, gap) : RunAt(text, gap, s, RunEnd(text, gap, s))
           /\ \A e \in RunEnds(text, gap) : RunAt(text, gap, RunStart(text, gap, e), e)
           /\ \A s, e : RunAt(text, gap, s, e) =>
                 /\ s \in RunStarts(text, gap) /\ e \in RunEnds(text, gap)
                 /\ RunEnd(text, gap, s) = e /\ RunStart(text, gap, e) = s
<1>1. \A s \in RunStarts(text, gap) : RunAt(text, gap, s, RunEnd(text, gap, s))
  BY RunOn DEF RunEnd
<1>2. \A e \in RunEnds(text, gap) : RunAt(text, gap, RunStart(text, gap, e), e)
  BY RunBack DEF RunStart
<1>3. Len(text) \in Nat /\ DOMAIN text = 1 .. Len(text)
  BY LenProperties
<1>4. ASSUME NEW s, NEW e, RunAt(text, gap, s, e)
      PROVE  /\ s \in RunStarts(text, gap) /\ e \in RunEnds(text, gap)
             /\ RunEnd(text, gap, s) = e /\ RunStart(text, gap, e) = s
  <2>1. /\ s \in 1 .. e /\ e \in 1 .. Len(text) /\ \A k \in s .. e : text[k] # gap
        /\ s = 1 \/ text[s - 1] = gap
        /\ e = Len(text) \/ text[e + 1] = gap
    BY <1>4 DEF RunAt
  <2>6. s \in Nat /\ e \in Nat /\ s <= e /\ e <= Len(text) /\ 1 <= s
    BY <1>3, <2>1, InInterval
  <2>2. s \in s .. e /\ e \in s .. e /\ s \in 1 .. Len(text) /\ s <= e /\ e <= e /\ s <= s
    BY ONLY <1>3, <2>6
  <2>3. s \in RunStarts(text, gap) /\ e \in RunEnds(text, gap)
    BY <1>3, <2>1, <2>2 DEF RunStarts, RunEnds
  <2>4. RunAt(text, gap, s, RunEnd(text, gap, s)) /\ RunAt(text, gap, RunStart(text, gap, e), e)
    BY <1>1, <1>2, <2>3
  <2>5. /\ RunEnd(text, gap, s) \in 1 .. Len(text) /\ s \in 1 .. RunEnd(text, gap, s)
        /\ RunStart(text, gap, e) \in 1 .. e
    BY <2>4 DEF RunAt
  <2>7. s <= RunEnd(text, gap, s) /\ RunStart(text, gap, e) <= e
    BY ONLY <1>3, <2>5, <2>6
  <2>8. RunEnd(text, gap, s) = e
    BY <1>4, <2>2, <2>4, <2>7, RunsApart
  <2>9. RunStart(text, gap, e) = s
    BY <1>4, <2>2, <2>4, <2>7, RunsApart
  <2> QED
    BY <2>3, <2>8, <2>9
<1> QED
  BY <1>1, <1>2, <1>4

\* RunsBetween lists the words by the letters they end with.
LEMMA RunsByEnds ==
    ASSUME NEW T, NEW gap, NEW text \in Seq(T)
    PROVE  RunsBetween(text, gap) =
              InOrder([e \in RunEnds(text, gap) |-> SubSeq(text, RunStart(text, gap, e), e)], Len(text))
<1> DEFINE Inside(i) == i \in DOMAIN text /\ text[i] # gap
           ends == {i \in DOMAIN text : Inside(i) /\ ~Inside(i + 1)}
           Start(e) == CHOOSE s \in 1 .. e : ~Inside(s - 1) /\ \A k \in s .. e : Inside(k)
<1>1. Len(text) \in Nat /\ DOMAIN text = 1 .. Len(text)
  BY LenProperties
<1>2. ends = RunEnds(text, gap)
  <2>1. \A i \in 1 .. Len(text) : i + 1 \in 1 .. Len(text) <=> i # Len(text)
    BY <1>1, InInterval
  <2> QED
    BY <1>1, <2>1 DEF RunEnds
<1>3. ASSUME NEW e \in RunEnds(text, gap) PROVE Start(e) = RunStart(text, gap, e)
  <2> DEFINE Begins(s) == ~Inside(s - 1) /\ \A k \in s .. e : Inside(k)
  <2>1. e \in 1 .. Len(text)
    BY <1>1 DEF RunEnds
  <2>2. \A s \in 1 .. e : /\ s - 1 \in 1 .. Len(text) <=> s # 1
                          /\ \A k \in s .. e : k \in 1 .. Len(text)
    BY <1>1, <2>1
  <2>3. \A s \in 1 .. e : Begins(s) <=> RunAt(text, gap, s, e)
    <3>1. e = Len(text) \/ text[e + 1] = gap
      BY DEF RunEnds
    <3> QED
      BY <1>1, <2>1, <2>2, <3>1 DEF RunAt
  <2>4. RunAt(text, gap, RunStart(text, gap, e), e)
    BY RunOf
  <2>5. RunStart(text, gap, e) \in 1 .. e
    BY <2>4 DEF RunAt
  <2> HIDE DEF Inside
  <2>6. Start(e) \in 1 .. e /\ Begins(Start(e))
    BY <2>3, <2>4, <2>5
  <2>7. RunAt(text, gap, Start(e), e)
    BY <2>3, <2>6
  <2> DEFINE s == Start(e)
  <2>8. RunAt(text, gap, s, e)
    BY <2>7
  <2> HIDE DEF Start, s
  <2>9. \A t, d : RunAt(text, gap, t, d) =>
                 /\ t \in RunStarts(text, gap) /\ d \in RunEnds(text, gap)
                 /\ RunEnd(text, gap, t) = d /\ RunStart(text, gap, d) = t
    BY RunOf
  <2>10. RunStart(text, gap, e) = s
    BY <2>8, <2>9, Zenon
  <2> QED
    BY <2>10 DEF s
<1>4. RunsBetween(text, gap) = InOrder([e \in ends |-> SubSeq(text, Start(e), e)], Len(text))
  BY DEF RunsBetween
<1> HIDE DEF ends, Start
<1>5. [e \in ends |-> SubSeq(text, Start(e), e)] =
         [e \in RunEnds(text, gap) |-> SubSeq(text, RunStart(text, gap, e), e)]
  BY <1>2, <1>3
<1> QED
  BY <1>4, <1>5

\* A text without blanks is a word.
LEMMA OneRun ==
    ASSUME NEW T, NEW gap, NEW w \in Seq(T), w # << >>, \A j \in 1 .. Len(w) : w[j] # gap
    PROVE  RunsBetween(w, gap) = <<w>>
<1> DEFINE m == Len(w)
           value == [e \in RunEnds(w, gap) |-> SubSeq(w, RunStart(w, gap, e), e)]
<1>1. m \in Nat /\ m # 0 /\ DOMAIN w = 1 .. m
  BY LenProperties, EmptySeq
<1>2. /\ 1 \in 1 .. m /\ m \in 1 .. m /\ m - 1 \in Nat /\ (m - 1) + 1 = m
      /\ \A e \in 1 .. m - 1 : e \in 1 .. m /\ e # m /\ e + 1 \in 1 .. m
  <2>1. m \in Nat \ {0}
    BY <1>1
  <2> HIDE DEF m
  <2>2. 1 \in 1 .. m /\ m \in 1 .. m /\ m - 1 \in Nat /\ (m - 1) + 1 = m
    BY ONLY <2>1
  <2>3. ASSUME NEW e \in 1 .. m - 1 PROVE e \in 1 .. m /\ e # m /\ e + 1 \in 1 .. m
    BY ONLY <2>1, <2>3
  <2> QED
    BY <2>2, <2>3
<1>3. RunAt(w, gap, 1, m)
  BY <1>2 DEF RunAt
<1>4. m \in RunEnds(w, gap) /\ RunStart(w, gap, m) = 1
  <2>1. \A t, d : RunAt(w, gap, t, d) =>
                 /\ t \in RunStarts(w, gap) /\ d \in RunEnds(w, gap)
                 /\ RunEnd(w, gap, t) = d /\ RunStart(w, gap, d) = t
    BY RunOf
  <2> QED
    BY <1>3, <2>1, Zenon
<1>5. \A e \in 1 .. m - 1 : e \notin RunEnds(w, gap)
  BY <1>2 DEF RunEnds
<1>6. m \in DOMAIN value /\ value[m] = w
  BY <1>4, SubSeqFull
<1>7. RunsBetween(w, gap) = InOrder(value, m)
  BY RunsByEnds
<1>8. \A e \in 1 .. m - 1 : e \notin DOMAIN value
  BY <1>5
<1> HIDE DEF value, m
<1>9. InOrder(value, m - 1) = << >>
  <2>1. InOrder(value, 0) = << >>
    BY InOrderNext
  <2>2. 0 \in Nat /\ 0 <= m - 1 /\ 0 + 1 = 1
    BY <1>2
  <2>3. InOrder(value, m - 1) = InOrder(value, 0)
    BY <1>2, <1>8, <2>2, InOrderSkips
  <2> QED
    BY <2>1, <2>3
<1>10. InOrder(value, m) = Append(<< >>, w)
  <2>1. InOrder(value, (m - 1) + 1) = Append(InOrder(value, m - 1), value[(m - 1) + 1])
    BY <1>2, <1>6, InOrderNext
  <2> QED
    BY <1>2, <1>6, <1>9, <2>1
<1> QED
  BY <1>7, <1>10

\* A blank keeps the words before it and those behind it apart.
LEMMA RunsSideBySide ==
    ASSUME NEW T, NEW gap, gap \in T, NEW text \in Seq(T), NEW w \in Seq(T)
    PROVE  RunsBetween(text \o (<<gap>> \o w), gap) = RunsBetween(text, gap) \o RunsBetween(w, gap)
<1> DEFINE tail == <<gap>> \o w
           long == text \o tail
           head == text \o <<gap>>
           L == Len(text)
           D == L + 1
           m == Len(w)
           N == D + m
<1>1. L \in Nat /\ m \in Nat /\ DOMAIN text = 1 .. L /\ DOMAIN w = 1 .. m
  BY LenProperties
<1>2. <<gap>> \in Seq(T) /\ Len(<<gap>>) = 1 /\ <<gap>>[1] = gap
  OBVIOUS
<1>3. /\ tail \in Seq(T) /\ Len(tail) = 1 + m
      /\ \A k \in 1 .. 1 + m : tail[k] = IF k <= 1 THEN <<gap>>[k] ELSE w[k - 1]
  BY <1>2, ConcatProperties
<1>4. head \in Seq(T) /\ Len(head) = D
  BY <1>2, ConcatProperties
<1>5. long = head \o w
  BY <1>2, ConcatAssociative
<1>6. /\ long \in Seq(T) /\ Len(long) = L + (1 + m)
      /\ \A k \in 1 .. L + (1 + m) : long[k] = IF k <= L THEN text[k] ELSE tail[k - L]
  <2> HIDE DEF tail
  <2>1. /\ long \in Seq(T) /\ Len(long) = Len(text) + Len(tail)
        /\ \A k \in 1 .. Len(text) + Len(tail) : long[k] = IF k <= Len(text) THEN text[k] ELSE tail[k - Len(text)]
    BY <1>3, ConcatProperties
  <2> QED
    BY <1>3, <2>1
<1>7. /\ Len(long) = N /\ N \in Nat /\ D \in Nat /\ D = L + 1
      /\ \A k \in 1 .. L : long[k] = text[k]
      /\ long[D] = gap
      /\ \A j \in 1 .. m : long[D + j] = w[j]
  <2> HIDE DEF tail, long, head, L, m
  <2>1. /\ L + (1 + m) = N /\ N \in Nat /\ D \in Nat
        /\ \A k \in 1 .. L : k \in 1 .. L + (1 + m) /\ k <= L
        /\ D \in 1 .. L + (1 + m) /\ ~(D <= L) /\ D - L = 1 /\ 1 \in 1 .. 1 + m /\ 1 <= 1
    BY ONLY <1>1
  <2>2. \A j \in 1 .. m : /\ D + j \in 1 .. L + (1 + m) /\ ~(D + j <= L) /\ (D + j) - L = 1 + j
                          /\ 1 + j \in 1 .. 1 + m /\ ~(1 + j <= 1) /\ (1 + j) - 1 = j
    BY ONLY <1>1
  <2>3. \A k \in 1 .. L : long[k] = text[k]
    BY <1>6, <2>1
  <2>4. long[D] = gap
    BY <1>2, <1>3, <1>6, <2>1
  <2>5. ASSUME NEW j \in 1 .. m PROVE long[D + j] = w[j]
    <3>1. long[D + j] = tail[1 + j]
      BY <1>6, <2>2
    <3>2. tail[1 + j] = w[j]
      BY <1>3, <2>2
    <3> QED
      BY <3>1, <3>2
  <2> QED
    BY <1>6, <2>1, <2>3, <2>4, <2>5
<1>8. DOMAIN long = 1 .. N
  BY <1>6, <1>7, LenProperties
<1> HIDE DEF long, head, tail, L, D, m, N
<1>9. N = D + m
  BY DEF N
\* A word before the blank is one of the text.
<1>10. ASSUME NEW s, NEW e \in 1 .. L
       PROVE  RunAt(long, gap, s, e) <=> RunAt(text, gap, s, e)
  <2>1. e \in 1 .. N /\ e # N /\ \A k \in s .. e : s \in 1 .. e => k \in 1 .. L
    BY ONLY <1>1, <1>7, <1>9, <1>10
  <2>2. e = L => e + 1 = D
    BY ONLY <1>1, <1>7, <1>10
  <2>3. e # L => e + 1 \in 1 .. L
    BY ONLY <1>1, <1>10
  <2>4. s \in 1 .. e /\ s # 1 => s - 1 \in 1 .. L
    BY ONLY <1>1, <1>10
  <2>5. ASSUME s \in 1 .. e
        PROVE  /\ (\A k \in s .. e : long[k] # gap) <=> (\A k \in s .. e : text[k] # gap)
               /\ (s = 1 \/ long[s - 1] = gap) <=> (s = 1 \/ text[s - 1] = gap)
    BY <1>7, <2>1, <2>4, <2>5
  <2>6. (e = N \/ long[e + 1] = gap) <=> (e = L \/ text[e + 1] = gap)
    BY <1>7, <2>1, <2>2, <2>3
  <2>7. Len(long) = N /\ Len(text) = L
    BY <1>7 DEF L
  <2> QED
    BY <2>1, <2>5, <2>6, <2>7 DEF RunAt
\* A word behind it is one of the other text.
<1>11. ASSUME NEW s \in 1 .. m, NEW e \in s .. m
       PROVE  RunAt(long, gap, D + s, D + e) <=> RunAt(w, gap, s, e)
  <2>1. /\ e \in 1 .. m /\ s \in 1 .. e /\ D + s \in 1 .. D + e /\ D + e \in 1 .. N
        /\ (D + e = N <=> e = m) /\ D + s # 1 /\ (s = 1 => (D + s) - 1 = D)
        /\ (s # 1 => s - 1 \in 1 .. m /\ D + (s - 1) = (D + s) - 1)
        /\ (e # m => e + 1 \in 1 .. m /\ D + (e + 1) = (D + e) + 1)
    BY ONLY <1>1, <1>7, <1>9, <1>11
  <2>2. ASSUME NEW k \in s .. e PROVE k \in 1 .. m /\ D + k \in D + s .. D + e
    BY ONLY <1>1, <1>7, <1>11, <2>2
  <2>3. ASSUME NEW k \in D + s .. D + e PROVE k - D \in s .. e /\ D + (k - D) = k /\ k - D \in 1 .. m
    BY ONLY <1>1, <1>7, <1>11, <2>3
  <2>4. (\A k \in D + s .. D + e : long[k] # gap) <=> (\A k \in s .. e : w[k] # gap)
    <3>1. ASSUME \A k \in D + s .. D + e : long[k] # gap, NEW k \in s .. e PROVE w[k] # gap
      BY <1>7, <2>2, <3>1
    <3>2. ASSUME \A k \in s .. e : w[k] # gap, NEW k \in D + s .. D + e PROVE long[k] # gap
      <4>1. long[D + (k - D)] = w[k - D] /\ w[k - D] # gap
        BY <1>7, <2>3, <3>2
      <4> QED
        BY <2>3, <4>1
    <3> QED
      BY <3>1, <3>2
  <2>5. (D + s = 1 \/ long[(D + s) - 1] = gap) <=> (s = 1 \/ w[s - 1] = gap)
    <3>1. CASE s = 1
      BY <1>7, <2>1, <3>1
    <3>2. CASE s # 1
      <4>1. long[(D + s) - 1] = w[s - 1]
        BY <1>7, <2>1, <3>2
      <4> QED
        BY <2>1, <3>2, <4>1
    <3> QED
      BY <3>1, <3>2
  <2>6. (D + e = N \/ long[(D + e) + 1] = gap) <=> (e = m \/ w[e + 1] = gap)
    <3>1. CASE e = m
      BY <2>1, <3>1
    <3>2. CASE e # m
      <4>1. long[(D + e) + 1] = w[e + 1]
        BY <1>7, <2>1, <3>2
      <4> QED
        BY <2>1, <3>2, <4>1
    <3> QED
      BY <3>1, <3>2
  <2>7. Len(long) = N /\ Len(w) = m
    BY <1>7 DEF m
  <2> QED
    BY <2>1, <2>4, <2>5, <2>6, <2>7 DEF RunAt
<1> DEFINE value == [e \in RunEnds(text, gap) |-> SubSeq(text, RunStart(text, gap, e), e)]
           more == [e \in RunEnds(w, gap) |-> SubSeq(w, RunStart(w, gap, e), e)]
           all == [e \in RunEnds(long, gap) |-> SubSeq(long, RunStart(long, gap, e), e)]
<1>12. ASSUME NEW e \in 1 .. L
       PROVE  /\ e \in DOMAIN value <=> e \in DOMAIN all
              /\ e \in DOMAIN value => value[e] = all[e]
  <2>1. e \in RunEnds(text, gap) => RunAt(text, gap, RunStart(text, gap, e), e)
    BY RunOf
  <2>2. e \in RunEnds(long, gap) => RunAt(long, gap, RunStart(long, gap, e), e)
    BY <1>6, RunOf
  <2>3. e \in RunEnds(text, gap) => /\ RunAt(long, gap, RunStart(text, gap, e), e)
                                /\ e \in RunEnds(long, gap) /\ RunStart(long, gap, e) = RunStart(text, gap, e)
    <3> DEFINE t == RunStart(text, gap, e)
    <3>1. SUFFICES ASSUME e \in RunEnds(text, gap)
                   PROVE  RunAt(long, gap, t, e) /\ e \in RunEnds(long, gap) /\ RunStart(long, gap, e) = t
      OBVIOUS
    <3>2. RunAt(text, gap, t, e)
      BY <2>1, <3>1
    <3>3. t \in Nat
      <4>1. t \in 1 .. e
        BY <3>2 DEF RunAt
      <4> HIDE DEF t
      <4> QED
        BY ONLY <1>12, <4>1
    <3> HIDE DEF t
    <3>4. RunAt(long, gap, t, e)
      BY <1>10, <3>2, <3>3
    <3>5. \A p, d : RunAt(long, gap, p, d) =>
                 /\ p \in RunStarts(long, gap) /\ d \in RunEnds(long, gap)
                 /\ RunEnd(long, gap, p) = d /\ RunStart(long, gap, d) = p
      BY <1>6, RunOf
    <3> QED
      BY <3>4, <3>5, Zenon
  <2>4. e \in RunEnds(long, gap) => e \in RunEnds(text, gap)
    BY <1>10, <2>2, RunOf
  <2>5. ASSUME e \in RunEnds(text, gap)
        PROVE  SubSeq(text, RunStart(text, gap, e), e) = SubSeq(long, RunStart(text, gap, e), e)
    <3>1. RunStart(text, gap, e) \in 1 .. e
      BY <2>1, <2>5 DEF RunAt
    <3>2. RunStart(text, gap, e) \in 1 .. L
      BY ONLY <1>1, <1>12, <3>1
    <3>3. SubSeq(text \o tail, RunStart(text, gap, e), e) = SubSeq(text, RunStart(text, gap, e), e)
      BY <1>3, <1>12, <3>2, SubSeqOfConcat1 DEF L
    <3> QED
      BY <3>3 DEF long
  <2> QED
    BY <2>3, <2>4, <2>5
<1>13. D \notin DOMAIN all
  BY <1>7 DEF RunEnds
<1>14. ASSUME NEW e \in 1 .. m
       PROVE  /\ D + e \in DOMAIN all <=> e \in DOMAIN more
              /\ e \in DOMAIN more => all[D + e] = more[e]
  <2>1. e \in RunEnds(w, gap) => RunAt(w, gap, RunStart(w, gap, e), e)
    BY RunOf
  <2>2. ASSUME e \in RunEnds(w, gap)
        PROVE  /\ RunStart(w, gap, e) \in 1 .. e
               /\ D + e \in RunEnds(long, gap) /\ RunStart(long, gap, D + e) = D + RunStart(w, gap, e)
    <3>1. RunStart(w, gap, e) \in 1 .. e
      BY <2>1, <2>2 DEF RunAt
    <3> DEFINE s == RunStart(w, gap, e)
    <3>2. s \in 1 .. m /\ e \in s .. m
      <4>1. s \in 1 .. e
        BY <3>1
      <4> HIDE DEF s
      <4> QED
        BY ONLY <1>1, <1>14, <4>1
    <3>3. RunAt(long, gap, D + s, D + e)
      BY <1>11, <2>1, <2>2, <3>2
    <3>4. /\ D + e \in RunEnds(long, gap) /\ RunStart(long, gap, D + e) = D + s
      <4> HIDE DEF s
      <4>1. \A p, d : RunAt(long, gap, p, d) =>
                 /\ p \in RunStarts(long, gap) /\ d \in RunEnds(long, gap)
                 /\ RunEnd(long, gap, p) = d /\ RunStart(long, gap, d) = p
        BY <1>6, RunOf
      <4> QED
        BY <3>3, <4>1, Zenon
    <3> QED
      BY <3>1, <3>4
  <2>3. ASSUME D + e \in RunEnds(long, gap) PROVE e \in RunEnds(w, gap)
    <3> DEFINE t == RunStart(long, gap, D + e)
    <3>1. RunAt(long, gap, t, D + e)
      BY <1>6, <2>3, RunOf
    <3>2. t \in 1 .. D + e /\ \A k \in t .. D + e : long[k] # gap
      BY <3>1 DEF RunAt
    <3> HIDE DEF t
    <3>3. D \notin t .. D + e
      BY <1>7, <3>2
    <3>4. t - D \in 1 .. m /\ e \in t - D .. m /\ D + (t - D) = t
      BY ONLY <1>1, <1>7, <1>14, <3>2, <3>3
    <3> DEFINE s == t - D
    <3>5. s \in 1 .. m /\ e \in s .. m /\ RunAt(long, gap, D + s, D + e)
      BY <3>1, <3>4
    <3> HIDE DEF s
    <3>6. RunAt(w, gap, s, e)
      BY <1>11, <3>5
    <3> QED
      BY <3>6, RunOf
  <2>4. ASSUME e \in RunEnds(w, gap) PROVE SubSeq(long, D + RunStart(w, gap, e), D + e) = SubSeq(w, RunStart(w, gap, e), e)
    <3> DEFINE s == RunStart(w, gap, e)
               a == D + s
               b == D + e
    <3>1. s \in 1 .. e
      BY <2>2, <2>4
    <3> HIDE DEF s
    <3>2. a \in D + 1 .. D + m /\ b \in D + 1 .. D + m /\ a - D = s /\ b - D = e
      BY ONLY <1>1, <1>7, <1>14, <3>1
    <3> HIDE DEF a, b
    <3>3. a \in Len(head) + 1 .. Len(head) + Len(w) /\ b \in Len(head) + 1 .. Len(head) + Len(w)
      BY <1>4, <3>2 DEF m
    <3>4. SubSeq(head \o w, a, b) = SubSeq(w, a - Len(head), b - Len(head))
      BY <1>4, <3>3, SubSeqOfConcat2
    <3>5. SubSeq(long, a, b) = SubSeq(w, s, e)
      BY <1>4, <1>5, <3>2, <3>4
    <3> QED
      BY <3>5 DEF a, b, s
  <2> QED
    BY <2>2, <2>3, <2>4
<1>15. /\ RunsBetween(text, gap) = InOrder(value, L) /\ RunsBetween(long, gap) = InOrder(all, N)
       /\ RunsBetween(w, gap) = InOrder(more, m)
  <2>1. RunsBetween(text, gap) = InOrder(value, L)
    BY RunsByEnds DEF L
  <2>2. RunsBetween(w, gap) = InOrder(more, m)
    BY RunsByEnds DEF m
  <2>3. RunsBetween(long, gap) = InOrder(all, Len(long))
    BY <1>6, RunsByEnds
  <2> QED
    BY <1>7, <2>1, <2>2, <2>3
<1>16. /\ \A e \in DOMAIN all : all[e] \in Seq(T)
       /\ all = [e \in DOMAIN all |-> all[e]] /\ more = [e \in DOMAIN more |-> more[e]]
       /\ DOMAIN more \subseteq 1 .. m
  <2>1. ASSUME NEW x \in Seq(T), NEW e \in RunEnds(x, gap) PROVE SubSeq(x, RunStart(x, gap, e), e) \in Seq(T)
    <3> DEFINE s == RunStart(x, gap, e)
    <3>1. RunAt(x, gap, s, e)
      BY RunOf
    <3>2. Len(x) \in Nat /\ \A i \in 1 .. Len(x) : x[i] \in T
      BY LenProperties, ElementOfSeq
    <3>3. s \in 1 .. e /\ e \in 1 .. Len(x)
      BY <3>1 DEF RunAt
    <3> HIDE DEF s
    <3>4. s \in Int /\ e \in Int /\ \A i \in s .. e : i \in 1 .. Len(x)
      BY ONLY <3>2, <3>3
    <3>5. \A i \in s .. e : x[i] \in T
      BY <3>2, <3>4
    <3>6. SubSeq(x, s, e) \in Seq(T)
      BY <3>4, <3>5, SubSeqProperties
    <3> QED
      BY <3>6 DEF s
  <2> QED
    BY <1>1, <1>6, <2>1 DEF RunEnds
<1> HIDE DEF value, more, all
<1>17. InOrder(value, L) = InOrder(all, L)
  BY <1>1, <1>12, InOrderAgrees
<1>18. InOrder(all, D) = InOrder(all, L)
  BY <1>1, <1>7, <1>13, InOrderNext
<1>19. InOrder(all, D + m) = InOrder(all, D) \o InOrder(more, m)
  <2>1. all \in [DOMAIN all -> Seq(T)] /\ D \in Nat /\ m \in Nat
    BY <1>1, <1>7, <1>16
  <2>2. DOMAIN more = {j \in 1 .. m : D + j \in DOMAIN all} /\ more = [e \in DOMAIN more |-> more[e]]
    BY <1>14, <1>16
  <2>3. Behind(all, D, m) = more
    BY <1>14, <2>2 DEF Behind
  <2>4. InOrder(all, D + m) = InOrder(all, D) \o InOrder(Behind(all, D, m), m)
    BY <2>1, InOrderConcat
  <2> QED
    BY <2>3, <2>4
<1> QED
  BY <1>9, <1>15, <1>17, <1>18, <1>19 DEF long, tail

=============================================================================
