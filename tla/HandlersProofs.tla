--------------------------- MODULE HandlersProofs ---------------------------
(***************************************************************************)
(* A batch is applied as a whole or not at all, and a client that lists    *)
(* the documents page by page has each of them once: for any schemas,      *)
(* bodies of batches, limits of pages and number of changes.  A search     *)
(* finds what it should, its pages are one answer, and what it finds is    *)
(* highlighted: for any texts, queries, modes and limits.                  *)
(***************************************************************************)
EXTENDS Handlers, PostingListsProofs

\* KeyOf, HasKey and ValidContent of a list of fields.
IntsOf(fs) == {n \in DOMAIN fs : fs[n].type = "int"}
KeyIn(fs, content) == Int64(content[fs[Min(IntsOf(fs))].name].value)
HasKeyIn(fs) == IntsOf(fs) # {}
ValidIn(fs, content) ==
    \A n \in DOMAIN fs : /\ fs[n].name \in DOMAIN content
                         /\ content[fs[n].name].type = fs[n].type

-----------------------------------------------------------------------------
(***************************************************************************)
(* The documents of a batch are put in one after the other: the fold of    *)
(* UpsertDocuments, position by position.                                  *)
(***************************************************************************)
Upserting(f, n, cs, batch) ==
    [s \in SUBSET (1 .. n) |->
        IF s = {} THEN cs ELSE UpsertOne(f[s \ {Max(s)}], batch[Max(s)])]

LEMMA UpsertingExists ==
    ASSUME NEW cs, NEW batch
    PROVE  \A n \in Nat : \E f : f = Upserting(f, n, cs, batch)
<1> DEFINE G == {n \in Nat : \E f : f = Upserting(f, n, cs, batch)}
<1>1. 0 \in G
  <2> DEFINE f == [s \in SUBSET (1 .. 0) |-> cs]
  <2>1. \A s \in SUBSET (1 .. 0) : s = {}
    OBVIOUS
  <2>2. f = Upserting(f, 0, cs, batch)
    BY <2>1 DEF Upserting
  <2> QED
    BY <2>2
<1>2. ASSUME NEW n \in Nat, n \in G PROVE n + 1 \in G
  <2>1. PICK f : f = Upserting(f, n, cs, batch)
    BY <1>2
  <2> DEFINE g == [s \in SUBSET (1 .. n + 1) |->
                      IF n + 1 \in s THEN UpsertOne(f[s \ {n + 1}], batch[n + 1]) ELSE f[s]]
  <2>2. ASSUME NEW s \in SUBSET (1 .. n + 1)
        PROVE  g[s] = IF s = {} THEN cs ELSE UpsertOne(g[s \ {Max(s)}], batch[Max(s)])
    <3>1. CASE n + 1 \in s
      <4>1. Max(s) = n + 1
        <5>1. \A y \in s : y \in Nat /\ n + 1 >= y /\ (y >= n + 1 => y = n + 1)
          OBVIOUS
        <5> QED
          BY <3>1, <5>1 DEF Max
      <4>2. s \ {n + 1} \in SUBSET (1 .. n + 1) /\ n + 1 \notin s \ {n + 1} /\ s # {}
        BY <3>1
      <4>3. g[s] = UpsertOne(f[s \ {n + 1}], batch[n + 1]) /\ g[s \ {n + 1}] = f[s \ {n + 1}]
        BY <3>1, <4>2
      <4> HIDE DEF g
      <4> QED
        BY <4>1, <4>2, <4>3
    <3>2. CASE n + 1 \notin s
      <4>1. s \in SUBSET (1 .. n)
        BY <3>2
      <4>2. g[s] = f[s] /\ g[s \ {Max(s)}] = f[s \ {Max(s)}]
        BY <3>2
      <4>3. f[s] = IF s = {} THEN cs ELSE UpsertOne(f[s \ {Max(s)}], batch[Max(s)])
        BY <2>1, <4>1 DEF Upserting
      <4> HIDE DEF g
      <4> QED
        BY <4>2, <4>3
    <3> QED
      BY <3>1, <3>2
  <2>3. g = [s \in SUBSET (1 .. n + 1) |-> g[s]]
    OBVIOUS
  <2>4. g = Upserting(g, n + 1, cs, batch)
    <3> HIDE DEF g
    <3> QED
      BY <2>2, <2>3 DEF Upserting
  <2> QED
    BY <2>4
<1> HIDE DEF G
<1>3. \A n \in Nat : n \in G
  BY <1>1, <1>2, FromZero
<1> QED
  BY <1>3 DEF G

LEMMA UpsertsInTurn ==
    ASSUME NEW S, NEW batch \in Seq(S), NEW cs
    PROVE  \E F : /\ F[0] = cs
                  /\ \A k \in 0 .. Len(batch) - 1 : F[k + 1] = UpsertOne(F[k], batch[k + 1])
                  /\ F[Len(batch)] = FoldLeft(UpsertOne, cs, batch)
<1> DEFINE n == Len(batch)
           f == CHOOSE fold : fold = Upserting(fold, n, cs, batch)
           F == [k \in 0 .. n |-> f[1 .. k]]
<1>1. n \in Nat /\ DOMAIN batch = 1 .. n
  BY LenProperties
<1>2. f = Upserting(f, n, cs, batch)
  BY <1>1, UpsertingExists
<1>3. FoldLeft(UpsertOne, cs, batch) = f[1 .. n]
  <2>1. FoldLeft(UpsertOne, cs, batch)
          = (CHOOSE fold : fold = [s \in SUBSET (DOMAIN batch) |->
                IF s = {} THEN cs ELSE UpsertOne(fold[s \ {Max(s)}], batch[Max(s)])])[DOMAIN batch]
    BY DEF FoldLeft, MapThenFoldSet
  <2> QED
    BY <1>1, <2>1 DEF Upserting
<1> HIDE DEF f
<1>4. F[0] = cs
  <2>1. 1 .. 0 = {} /\ {} \in SUBSET (1 .. n)
    OBVIOUS
  <2>2. f[{}] = cs
    BY <1>2, <2>1 DEF Upserting
  <2> QED
    BY <1>1, <2>1, <2>2
<1>5. ASSUME NEW k \in 0 .. n - 1 PROVE F[k + 1] = UpsertOne(F[k], batch[k + 1])
  <2>0. k \in Nat /\ k + 1 \in Nat /\ k + 1 <= n /\ k \in 0 .. n /\ k + 1 \in 0 .. n
    BY ONLY <1>1, k \in 0 .. n - 1
  <2>1. /\ 1 .. k + 1 \in SUBSET (1 .. n) /\ (1 .. k + 1) \ {k + 1} = 1 .. k
        /\ k + 1 \in 1 .. k + 1 /\ 1 .. k + 1 # {}
    <3>1. k + 1 \in 1 .. k + 1
      BY ONLY <2>0
    <3>2. \A j \in 1 .. k + 1 : j \in 1 .. n
      BY ONLY <1>1, <2>0
    <3>3. \A j \in 1 .. k + 1 : j # k + 1 => j \in 1 .. k
      BY ONLY <2>0
    <3>4. \A j \in 1 .. k : j \in 1 .. k + 1 /\ j # k + 1
      BY ONLY <2>0
    <3> QED
      BY ONLY <3>1, <3>2, <3>3, <3>4
  <2>2. Max(1 .. k + 1) = k + 1
    <3>1. \A y \in 1 .. k + 1 : y \in Nat /\ k + 1 >= y /\ (y >= k + 1 => y = k + 1)
      BY ONLY <2>0
    <3> QED
      BY <2>1, <3>1 DEF Max
  <2>3. f[1 .. k + 1] = UpsertOne(f[(1 .. k + 1) \ {Max(1 .. k + 1)}], batch[Max(1 .. k + 1)])
    BY <1>2, <2>1 DEF Upserting
  <2>4. F[k + 1] = f[1 .. k + 1] /\ F[k] = f[1 .. k]
    BY <2>0
  <2> HIDE DEF F
  <2> QED
    BY <2>1, <2>2, <2>3, <2>4
<1>6. F[n] = f[1 .. n]
  BY <1>1
<1> HIDE DEF F
<1> QED
  BY <1>3, <1>4, <1>5, <1>6

-----------------------------------------------------------------------------
(***************************************************************************)
(* One document of a batch: it takes the place of one with its key, or, if *)
(* there is none, the place behind all others.                             *)
(***************************************************************************)
\* What upsert_one may make of the collection old with document c.
TookPlace(old, c, new) ==
    \/ /\ \A d \in 1 .. Len(old) : KeyIn(fields, old[d]) # KeyIn(fields, c)
       /\ Len(new) = Len(old) + 1
       /\ \A d \in 1 .. Len(old) : new[d] = old[d]
       /\ new[Len(old) + 1] = c
    \/ /\ Len(new) = Len(old)
       /\ \E h \in 1 .. Len(old) :
             /\ KeyIn(fields, old[h]) = KeyIn(fields, c)
             /\ new[h] = c
             /\ \A d \in 1 .. Len(old) : d # h => new[d] = old[d]

LEMMA UpsertedOne ==
    ASSUME NEW S, NEW all \in Seq(S), NEW c \in S
    PROVE  UpsertOne(all, c) \in Seq(S) /\ TookPlace(all, c, UpsertOne(all, c))
<1> USE DEF TookPlace
<1> DEFINE holders == {d \in DOMAIN all : KeyOf(all[d]) = KeyOf(c)}
<1>0. \A e : KeyOf(e) = KeyIn(fields, e)
  BY DEF KeyOf, KeyIn, Number, IntFields, IntsOf
<1>1. Len(all) \in Nat /\ DOMAIN all = 1 .. Len(all)
  BY LenProperties
<1>2. CASE holders = {}
  <2>1. UpsertOne(all, c) = Append(all, c)
    BY <1>2 DEF UpsertOne
  <2>2. \A d \in 1 .. Len(all) : KeyIn(fields, all[d]) # KeyIn(fields, c)
    BY <1>0, <1>1, <1>2
  <2>3. /\ Append(all, c) \in Seq(S) /\ Len(Append(all, c)) = Len(all) + 1
        /\ \A d \in 1 .. Len(all) : Append(all, c)[d] = all[d]
        /\ Append(all, c)[Len(all) + 1] = c
    BY AppendProperties
  <2> QED
    BY <2>1, <2>2, <2>3
<1>3. CASE holders # {}
  <2> DEFINE h == Max(holders)
  <2>1. h \in holders
    <3>1. holders \subseteq 0 .. Len(all)
      BY <1>1
    <3> QED
      BY <1>1, <1>3, <3>1, LargestExists
  <2>2. h \in 1 .. Len(all) /\ KeyIn(fields, all[h]) = KeyIn(fields, c)
    BY <1>0, <1>1, <2>1
  <2>3. UpsertOne(all, c) = [all EXCEPT ![h] = c]
    BY <1>3 DEF UpsertOne
  <2> HIDE DEF h
  <2>4. [all EXCEPT ![h] = c] \in Seq(S) /\ DOMAIN [all EXCEPT ![h] = c] = DOMAIN all
    BY ExceptKeepsSeq
  <2>5. /\ [all EXCEPT ![h] = c][h] = c
        /\ \A d \in 1 .. Len(all) : d # h => [all EXCEPT ![h] = c][d] = all[d]
    BY <1>1, <2>2
  <2>6. Len([all EXCEPT ![h] = c]) = Len(all)
    BY <1>1, <2>4, LenProperties
  <2> QED
    BY <2>2, <2>3, <2>4, <2>5, <2>6
<1> QED
  BY <1>2, <1>3

-----------------------------------------------------------------------------
(***************************************************************************)
(* What a collection cs has become after the first k documents of a batch. *)
(***************************************************************************)
Keys(fs, s, n) == {KeyIn(fs, s[d]) : d \in 1 .. n}

NewestOf(fs, batch, n, k) == \A m \in n + 1 .. k : KeyIn(fs, batch[m]) # KeyIn(fs, batch[n])

\* Places keep their keys, and the ones behind have keys that came later.
Grown(fs, cs, new) ==
    /\ Len(new) >= Len(cs)
    /\ \A d \in 1 .. Len(cs) : KeyIn(fs, new[d]) = KeyIn(fs, cs[d])
    /\ \A d \in Len(cs) + 1 .. Len(new) : \A e \in 1 .. d - 1 : KeyIn(fs, new[e]) # KeyIn(fs, new[d])

NewestIn(fs, batch, k, new) ==
    \A n \in 1 .. k : NewestOf(fs, batch, n, k) => \E d \in 1 .. Len(new) : new[d] = batch[n]

KeysCounted(fs, cs, batch, k, new) ==
    /\ Keys(fs, new, Len(new)) = Keys(fs, cs, Len(cs)) \union Keys(fs, batch, k)
    /\ IsFiniteSet(Keys(fs, batch, k) \ Keys(fs, cs, Len(cs)))
    /\ Cardinality(Keys(fs, batch, k) \ Keys(fs, cs, Len(cs))) = Len(new) - Len(cs)

LEMMA KeysOneMore ==
    ASSUME NEW s, NEW k \in Nat
    PROVE  Keys(fields, s, k + 1) = Keys(fields, s, k) \union {KeyIn(fields, s[k + 1])}
<1>1. \A d \in 1 .. k + 1 : d \in 1 .. k \/ d = k + 1
  OBVIOUS
<1>2. \A d \in 1 .. k : d \in 1 .. k + 1
  OBVIOUS
<1>3. k + 1 \in 1 .. k + 1
  OBVIOUS
<1> QED
  BY <1>1, <1>2, <1>3 DEF Keys

LEMMA GrownByOne ==
    ASSUME NEW S, NEW cs \in Seq(S), NEW old \in Seq(S), NEW c \in S, Grown(fields, cs, old)
    PROVE  Grown(fields, cs, UpsertOne(old, c))
<1> DEFINE new == UpsertOne(old, c)
<1>1. /\ Len(cs) \in Nat /\ Len(old) \in Nat /\ Len(old) >= Len(cs)
      /\ \A d \in 1 .. Len(cs) : KeyIn(fields, old[d]) = KeyIn(fields, cs[d])
      /\ \A d \in Len(cs) + 1 .. Len(old) : \A e \in 1 .. d - 1 : KeyIn(fields, old[e]) # KeyIn(fields, old[d])
  BY LenProperties DEF Grown
<1>2. TookPlace(old, c, new)
  BY UpsertedOne
<1> USE DEF TookPlace
<1> HIDE DEF new
<1>3. \A d \in 1 .. Len(old) : KeyIn(fields, new[d]) = KeyIn(fields, old[d])
  BY <1>2
<1>4. Len(new) \in Nat /\ Len(new) >= Len(cs)
  BY ONLY <1>1, <1>2
<1>5. ASSUME NEW d \in 1 .. Len(cs) PROVE KeyIn(fields, new[d]) = KeyIn(fields, cs[d])
  <2>1. d \in 1 .. Len(old)
    BY ONLY <1>1, d \in 1 .. Len(cs)
  <2> QED
    BY ONLY <1>1, <1>3, <2>1, d \in 1 .. Len(cs)
<1>6. ASSUME NEW d \in Len(cs) + 1 .. Len(new), NEW e \in 1 .. d - 1
      PROVE  KeyIn(fields, new[e]) # KeyIn(fields, new[d])
  <2>1. CASE d \in 1 .. Len(old)
    <3>1. d \in Len(cs) + 1 .. Len(old) /\ e \in 1 .. Len(old)
      BY ONLY <1>1, <2>1, d \in Len(cs) + 1 .. Len(new), e \in 1 .. d - 1
    <3> QED
      BY ONLY <1>1, <1>3, <2>1, <3>1, e \in 1 .. d - 1
  <2>2. CASE d \notin 1 .. Len(old)
    <3>0. d \in Nat /\ d >= 1 /\ d <= Len(new) /\ d > Len(old)
      BY ONLY <1>1, <1>4, <2>2, d \in Len(cs) + 1 .. Len(new)
    <3>1. Len(new) # Len(old)
      BY ONLY <1>1, <1>4, <3>0
    <3>2. /\ \A j \in 1 .. Len(old) : KeyIn(fields, old[j]) # KeyIn(fields, c)
          /\ Len(new) = Len(old) + 1
          /\ new[Len(old) + 1] = c
      BY ONLY <1>2, <3>1
    <3>3. d = Len(old) + 1 /\ e \in 1 .. Len(old)
      BY ONLY <1>1, <3>0, <3>2, e \in 1 .. d - 1
    <3> QED
      BY ONLY <1>3, <3>2, <3>3
  <2> QED
    BY ONLY <2>1, <2>2
<1> QED
  BY ONLY <1>4, <1>5, <1>6 DEF Grown, new

LEMMA NewestByOne ==
    ASSUME NEW S, NEW batch \in Seq(S), NEW k \in Nat, k + 1 <= Len(batch), NEW old \in Seq(S),
           NewestIn(fields, batch, k, old)
    PROVE  NewestIn(fields, batch, k + 1, UpsertOne(old, batch[k + 1]))
<1> DEFINE c == batch[k + 1]
           new == UpsertOne(old, c)
<1>1. Len(old) \in Nat /\ Len(batch) \in Nat /\ c \in S
  <2>1. k + 1 \in 1 .. Len(batch)
    BY LenProperties
  <2> QED
    BY <2>1, LenProperties, ElementOfSeq
<1>2. TookPlace(old, c, new)
  BY <1>1, UpsertedOne
<1> USE DEF TookPlace
<1> HIDE DEF new
<1>3. \A d \in 1 .. Len(old) : d \in 1 .. Len(new)
  BY ONLY <1>1, <1>2
<1>4. \E d \in 1 .. Len(new) : new[d] = c
  <2>1. Len(old) + 1 \in 1 .. Len(old) + 1
    BY ONLY <1>1
  <2> QED
    BY ONLY <1>2, <2>1
<1>5. \A d \in 1 .. Len(old) : new[d] = old[d] \/ KeyIn(fields, old[d]) = KeyIn(fields, c)
  BY ONLY <1>2
<1>6. ASSUME NEW n \in 1 .. k + 1, NewestOf(fields, batch, n, k + 1)
      PROVE  \E d \in 1 .. Len(new) : new[d] = batch[n]
  <2>1. CASE n = k + 1
    BY ONLY <1>4, <2>1 DEF c
  <2>2. CASE n # k + 1
    <3>1. n \in 1 .. k /\ k + 1 \in n + 1 .. k + 1 /\ \A m \in n + 1 .. k : m \in n + 1 .. k + 1
      BY ONLY <2>2, k \in Nat, n \in 1 .. k + 1
    <3>2. NewestOf(fields, batch, n, k) /\ KeyIn(fields, c) # KeyIn(fields, batch[n])
      BY ONLY <1>6, <3>1 DEF NewestOf, c
    <3>3. PICK d \in 1 .. Len(old) : old[d] = batch[n]
      BY ONLY <3>1, <3>2, NewestIn(fields, batch, k, old) DEF NewestIn
    <3>4. new[d] = batch[n]
      BY ONLY <1>5, <3>2, <3>3
    <3> QED
      BY ONLY <1>3, <3>3, <3>4
  <2> QED
    BY ONLY <2>1, <2>2
<1> HIDE DEF c
<1> QED
  BY ONLY <1>6 DEF NewestIn, new, c

LEMMA CountedByOne ==
    ASSUME NEW S, NEW cs \in Seq(S), NEW batch \in Seq(S), NEW k \in Nat, k + 1 <= Len(batch),
           NEW old \in Seq(S), KeysCounted(fields, cs, batch, k, old)
    PROVE  KeysCounted(fields, cs, batch, k + 1, UpsertOne(old, batch[k + 1]))
<1> DEFINE c == batch[k + 1]
           new == UpsertOne(old, c)
           then == Keys(fields, batch, k) \ Keys(fields, cs, Len(cs))
           now == Keys(fields, batch, k + 1) \ Keys(fields, cs, Len(cs))
<1>1. Len(cs) \in Nat /\ Len(old) \in Nat /\ Len(batch) \in Nat /\ c \in S
  <2>1. k + 1 \in 1 .. Len(batch)
    BY LenProperties
  <2> QED
    BY <2>1, LenProperties, ElementOfSeq
<1>2. TookPlace(old, c, new)
  BY <1>1, UpsertedOne
<1> USE DEF TookPlace
<1>3. /\ Keys(fields, old, Len(old)) = Keys(fields, cs, Len(cs)) \union Keys(fields, batch, k)
      /\ IsFiniteSet(then) /\ Cardinality(then) = Len(old) - Len(cs)
  BY DEF KeysCounted
<1>4. Keys(fields, batch, k + 1) = Keys(fields, batch, k) \union {KeyIn(fields, c)}
  BY KeysOneMore
<1> HIDE DEF c, new
<1>5. CASE \A d \in 1 .. Len(old) : KeyIn(fields, old[d]) # KeyIn(fields, c)
  <2>1. KeyIn(fields, c) \notin Keys(fields, old, Len(old))
    BY ONLY <1>5 DEF Keys
  <2>2. /\ Len(new) = Len(old) + 1 /\ new[Len(old) + 1] = c
        /\ \A d \in 1 .. Len(old) : new[d] = old[d]
    BY ONLY <1>2, <1>5
  <2>3. Keys(fields, new, Len(new)) = Keys(fields, old, Len(old)) \union {KeyIn(fields, c)}
    <3>1. Keys(fields, new, Len(old) + 1) = Keys(fields, new, Len(old)) \union {KeyIn(fields, c)}
      BY <1>1, <2>2, KeysOneMore
    <3>2. Keys(fields, new, Len(old)) = Keys(fields, old, Len(old))
      BY ONLY <2>2 DEF Keys
    <3> QED
      BY ONLY <2>2, <3>1, <3>2
  <2>4. now = then \union {KeyIn(fields, c)} /\ KeyIn(fields, c) \notin then
    BY ONLY <1>3, <1>4, <2>1
  <2>5. IsFiniteSet(now) /\ Cardinality(now) = Cardinality(then) + 1
    <3> HIDE DEF now, then
    <3> QED
      BY <1>3, <2>4, FS_AddElement
  <2>6. Cardinality(now) = Len(new) - Len(cs)
    <3> HIDE DEF now, then
    <3> QED
      BY ONLY <1>1, <1>3, <2>2, <2>5
  <2>7. Keys(fields, new, Len(new)) = Keys(fields, cs, Len(cs)) \union Keys(fields, batch, k + 1)
    BY ONLY <1>3, <1>4, <2>3
  <2> QED
    BY ONLY <2>5, <2>6, <2>7 DEF KeysCounted, new, c
<1>6. CASE ~(\A d \in 1 .. Len(old) : KeyIn(fields, old[d]) # KeyIn(fields, c))
  <2>1. KeyIn(fields, c) \in Keys(fields, old, Len(old))
    BY ONLY <1>6 DEF Keys
  <2>2. Len(new) = Len(old) /\ \A d \in 1 .. Len(old) : KeyIn(fields, new[d]) = KeyIn(fields, old[d])
    BY ONLY <1>2, <1>6
  <2>3. Keys(fields, new, Len(new)) = Keys(fields, old, Len(old))
    BY ONLY <2>2 DEF Keys
  <2>4. now = then
    BY ONLY <1>3, <1>4, <2>1
  <2>5. Keys(fields, new, Len(new)) = Keys(fields, cs, Len(cs)) \union Keys(fields, batch, k + 1)
    BY ONLY <1>3, <1>4, <2>1, <2>3
  <2> QED
    BY ONLY <1>3, <2>2, <2>4, <2>5 DEF KeysCounted, new, c
<1> QED
  BY ONLY <1>5, <1>6

\* UpsertDocuments, a whole batch of documents of S.
LEMMA UpsertedBatch ==
    ASSUME NEW S, NEW cs \in Seq(S), NEW batch \in Seq(S)
    PROVE  LET new == FoldLeft(UpsertOne, cs, batch)
           IN  /\ new \in Seq(S) /\ Grown(fields, cs, new)
               /\ NewestIn(fields, batch, Len(batch), new)
               /\ KeysCounted(fields, cs, batch, Len(batch), new)
<1>1. PICK F : /\ F[0] = cs
               /\ \A k \in 0 .. Len(batch) - 1 : F[k + 1] = UpsertOne(F[k], batch[k + 1])
               /\ F[Len(batch)] = FoldLeft(UpsertOne, cs, batch)
  BY UpsertsInTurn
<1>2. /\ Len(batch) \in Nat /\ Len(cs) \in Nat
      /\ \A k \in 1 .. Len(batch) : batch[k] \in S
  BY LenProperties, ElementOfSeq
<1> DEFINE Good(k, new) == /\ new \in Seq(S) /\ Grown(fields, cs, new)
                           /\ NewestIn(fields, batch, k, new) /\ KeysCounted(fields, cs, batch, k, new)
           G == {k \in Nat : k <= Len(batch) => Good(k, F[k])}
<1>3. 0 \in G
  <2>1. Grown(fields, cs, cs)
    BY <1>2 DEF Grown
  <2>2. NewestIn(fields, batch, 0, cs)
    BY DEF NewestIn
  <2>3. KeysCounted(fields, cs, batch, 0, cs)
    <3>1. Keys(fields, batch, 0) = {}
      BY DEF Keys
    <3>2. Keys(fields, batch, 0) \ Keys(fields, cs, Len(cs)) = {}
      BY <3>1
    <3>3. IsFiniteSet({}) /\ Cardinality({}) = 0
      BY FS_EmptySet
    <3> QED
      <4>1. Keys(fields, cs, Len(cs)) = Keys(fields, cs, Len(cs)) \union Keys(fields, batch, 0)
        BY ONLY <3>1
      <4>2. Cardinality(Keys(fields, batch, 0) \ Keys(fields, cs, Len(cs))) = Len(cs) - Len(cs)
        <5>1. Len(cs) - Len(cs) = 0
          BY ONLY <1>2
        <5> QED
          BY ONLY <3>2, <3>3, <5>1
      <4> QED
        BY ONLY <3>2, <3>3, <4>1, <4>2 DEF KeysCounted
  <2> QED
    BY <1>1, <2>1, <2>2, <2>3
<1>4. ASSUME NEW k \in Nat, k \in G PROVE k + 1 \in G
  <2> SUFFICES ASSUME k + 1 <= Len(batch) PROVE Good(k + 1, F[k + 1])
    OBVIOUS
  <2>1. k <= Len(batch) /\ k \in 0 .. Len(batch) - 1 /\ k + 1 \in 1 .. Len(batch)
    BY ONLY <1>2, k \in Nat, k + 1 <= Len(batch)
  <2>2. F[k + 1] = UpsertOne(F[k], batch[k + 1])
    BY ONLY <1>1, <2>1
  <2>3. Good(k, F[k]) /\ batch[k + 1] \in S
    BY <1>2, <1>4, <2>1
  <2> DEFINE old == F[k]
  <2> HIDE DEF old, G
  <2>4. /\ old \in Seq(S) /\ Grown(fields, cs, old)
        /\ NewestIn(fields, batch, k, old) /\ KeysCounted(fields, cs, batch, k, old)
    BY <2>3 DEF old
  <2> HIDE DEF Good
  <2>5. UpsertOne(old, batch[k + 1]) \in Seq(S)
    BY <2>3, <2>4, UpsertedOne
  <2>6. Grown(fields, cs, UpsertOne(old, batch[k + 1]))
    BY <2>3, <2>4, GrownByOne
  <2>7. NewestIn(fields, batch, k + 1, UpsertOne(old, batch[k + 1]))
    BY <2>4, NewestByOne
  <2>8. KeysCounted(fields, cs, batch, k + 1, UpsertOne(old, batch[k + 1]))
    BY <2>4, CountedByOne
  <2> QED
    BY ONLY <2>2, <2>5, <2>6, <2>7, <2>8 DEF Good, old
<1> HIDE DEF G
<1>5. \A k \in Nat : k \in G
  BY <1>3, <1>4, FromZero
<1>6. Good(Len(batch), F[Len(batch)])
  <2>1. Len(batch) <= Len(batch)
    BY <1>2
  <2> QED
    BY <1>2, <1>5, <2>1 DEF G
<1> QED
  BY <1>1, <1>6

-----------------------------------------------------------------------------
(***************************************************************************)
(* The documents a collection may hold, and the states of a batch and of a *)
(* list of documents.                                                      *)
(***************************************************************************)
PostedIn(body) == {body[n].content : n \in {k \in DOMAIN body : body[k].type = "object"}}
FirstIn(texts) == {Contents(d, texts[d]) : d \in DOMAIN texts}

PostedContents == UNION {PostedIn(body) : body \in Bodies}
FirstContents == UNION {FirstIn(texts) : texts \in Corpora}
AllContents == PostedContents \union FirstContents

\* Those with all of the fields.
Valid(fs) == {c \in AllContents : ValidIn(fs, c)}

PostingsOn(fs) ==
    [status : {"none", "400", "checked in part", "202"}, body : Bodies \union {<< >>},
     incremental : BOOLEAN, documents : Seq(Valid(fs)), before : Seq(Valid(fs)),
     inserted : Int, updated : Int]

Listings ==
    [status : {"none", "more", "end", "too far"}, limit : Nat \ {0}, offset : Nat,
     shown : Seq(AllContents), first : Seq(AllContents), steady : BOOLEAN]

HandlersTyped ==
    /\ fields \in Schemas
    /\ contents \in Seq(Valid(fields))
    /\ posting \in PostingsOn(fields)
    /\ listing \in Listings

\* The batch posted last: the documents checked are those of its items, from the
\* first on; nothing is applied before all are, and then everything is.
Followed(fs, p, cs) ==
    /\ p.status \in {"checked in part", "400"} => cs = p.before
    /\ p.status \in {"checked in part", "202"} =>
          /\ p.incremental => HasKeyIn(fs)
          /\ Len(p.documents) <= Len(p.body)
          /\ \A n \in 1 .. Len(p.documents) : p.documents[n] = p.body[n].content
    /\ p.status = "202" =>
          /\ Len(p.documents) = Len(p.body)
          /\ ~p.incremental => cs = p.documents
          /\ p.incremental =>
                /\ Grown(fs, p.before, cs)
                /\ NewestIn(fs, p.documents, Len(p.documents), cs)
                /\ KeysCounted(fs, p.before, p.documents, Len(p.documents), cs)
                /\ p.inserted = Len(cs) - Len(p.before)
                /\ p.updated = Len(p.documents) - p.inserted

\* One document is another or a later one with its key.
Stands(fs, c, for) == c = for \/ (HasKeyIn(fs) /\ KeyIn(fs, c) = KeyIn(fs, for))

\* The list of documents: unless it is spoilt, its pages are the first places of
\* the collection, which has only grown since the list was begun.
PagesFollow(fs, l, cs) ==
    (l.steady /\ l.status # "none") =>
        /\ cs = l.first \/ (HasKeyIn(fs) /\ Grown(fs, l.first, cs))
        /\ Len(l.shown) <= Len(cs)
        /\ \A d \in 1 .. Len(l.shown) : Stands(fs, l.shown[d], cs[d])
        /\ l.status = "more" => l.offset = Len(l.shown) /\ l.offset <= MaxOffset
        /\ l.status = "end" => Len(l.shown) >= Len(l.first)

HandlersInvariant ==
    HandlersTyped /\ Followed(fields, posting, contents) /\ PagesFollow(fields, listing, contents)

LEMMA FieldsOf ==
    /\ HasKey <=> HasKeyIn(fields)
    /\ \A c : ValidContent(c) <=> ValidIn(fields, c)
    /\ \A c : KeyOf(c) = KeyIn(fields, c)
<1>1. HasKey <=> HasKeyIn(fields)
  BY DEF HasKey, HasKeyIn, IntFields, IntsOf
<1>2. \A c : ValidContent(c) <=> ValidIn(fields, c)
  BY DEF ValidContent, ValidIn
<1>3. \A c : KeyOf(c) = KeyIn(fields, c)
  BY DEF KeyOf, KeyIn, Number, IntFields, IntsOf
<1> QED
  BY <1>1, <1>2, <1>3

LEMMA NothingYet ==
    ASSUME NEW fs
    PROVE  << >> \in Seq(Valid(fs)) /\ NoBatch \in PostingsOn(fs) /\ NotListing \in Listings
<1>1. << >> \in Seq(Valid(fs)) /\ << >> \in Seq(AllContents)
  BY EmptySeq
<1>2. NoBatch \in PostingsOn(fs)
  BY <1>1 DEF NoBatch, PostingsOn
<1>3. NotListing \in Listings
  BY <1>1 DEF NotListing, Listings
<1> QED
  BY <1>1, <1>2, <1>3

LEMMA HandlersInitially ==
    ASSUME HandlersInit
    PROVE  HandlersInvariant
<1>1. docs \in Corpora /\ docs \in Seq(ToSet(docs)) /\ fields \in Schemas
  BY TextAssumption DEF HandlersInit, Init, IsList
<1>2. Len(docs) \in Nat /\ DOMAIN docs = 1 .. Len(docs)
  BY <1>1, LenProperties
<1>3. ASSUME NEW d \in DOMAIN docs PROVE Contents(d, docs[d]) \in Valid(fields)
  <2>1. contents[d] = Contents(d, docs[d]) /\ ValidContent(contents[d])
    BY DEF HandlersInit
  <2>2. Contents(d, docs[d]) \in AllContents
    <3>1. Contents(d, docs[d]) \in FirstIn(docs)
      BY DEF FirstIn
    <3>2. docs \in Corpora
      BY <1>1
    <3>3. FirstIn(docs) \subseteq FirstContents
      BY ONLY <3>2 DEF FirstContents
    <3> QED
      BY ONLY <3>1, <3>3 DEF AllContents
  <2> QED
    BY <2>1, <2>2, FieldsOf DEF Valid
<1>4. contents \in [1 .. Len(docs) -> Valid(fields)]
  BY <1>2, <1>3 DEF HandlersInit
<1>5. contents \in Seq(Valid(fields))
  BY <1>2, <1>4, IsASeq
<1>6. posting = NoBatch /\ listing = NotListing
  BY DEF HandlersInit
<1>7. HandlersTyped
  BY <1>1, <1>5, <1>6, NothingYet DEF HandlersTyped
<1>8. Followed(fields, posting, contents)
  BY <1>6 DEF Followed, NoBatch
<1>9. PagesFollow(fields, listing, contents)
  BY <1>6 DEF PagesFollow, NotListing
<1> QED
  BY <1>7, <1>8, <1>9 DEF HandlersInvariant

-----------------------------------------------------------------------------
(***************************************************************************)
(* Every request keeps the invariant.                                      *)
(***************************************************************************)
LEMMA PostDocumentsKeeps ==
    ASSUME HandlersInvariant,
           NEW body \in Bodies, NEW incremental \in BOOLEAN, PostDocuments(body, incremental)
    PROVE  HandlersInvariant'
<1>1. /\ HandlersTyped /\ Followed(fields, posting, contents)
      /\ PagesFollow(fields, listing, contents)
  BY DEF HandlersInvariant
<1>2. UNCHANGED <<fields, contents, listing>>
  BY DEF PostDocuments
<1> DEFINE status == IF incremental /\ ~HasKey THEN "400" ELSE "checked in part"
<1>3. posting' = [status |-> status, body |-> body, incremental |-> incremental,
                  documents |-> << >>, before |-> contents, inserted |-> 0, updated |-> 0]
  BY DEF PostDocuments, NoBatch
<1>4. posting' \in PostingsOn(fields)
  <2>1. contents \in Seq(Valid(fields)) /\ << >> \in Seq(Valid(fields))
    BY <1>1, NothingYet DEF HandlersTyped
  <2>2. status \in {"none", "400", "checked in part", "202"} /\ body \in Bodies \union {<< >>}
    OBVIOUS
  <2> HIDE DEF status
  <2>3. incremental \in BOOLEAN /\ 0 \in Int
    OBVIOUS
  <2> QED
    BY ONLY <1>3, <2>1, <2>2, <2>3 DEF PostingsOn
<1>5. HandlersTyped'
  BY <1>1, <1>2, <1>4 DEF HandlersTyped
<1>6. Len(body) \in Nat /\ Len(<< >>) = 0
  BY LenProperties, ListAssumption DEF IsList
<1>7. Followed(fields, posting', contents)
  <2>1. /\ posting'.status = status /\ posting'.body = body /\ posting'.documents = << >>
        /\ posting'.before = contents /\ posting'.incremental = incremental
    BY <1>3
  <2>2. status # "202" /\ (status = "checked in part" => (incremental => HasKeyIn(fields)))
    BY FieldsOf
  <2>3. Len(<< >>) <= Len(body) /\ \A n \in 1 .. Len(<< >>) : << >>[n] = body[n].content
    BY <1>6
  <2> HIDE DEF status
  <2> QED
    BY ONLY <2>1, <2>2, <2>3 DEF Followed
<1> QED
  BY <1>1, <1>2, <1>5, <1>7 DEF HandlersInvariant

LEMMA CheckItemKeeps ==
    ASSUME HandlersInvariant, CheckItem
    PROVE  HandlersInvariant'
<1> DEFINE n == Len(posting.documents)
<1>1. /\ HandlersTyped /\ Followed(fields, posting, contents)
      /\ PagesFollow(fields, listing, contents)
  BY DEF HandlersInvariant
<1>2. UNCHANGED <<fields, contents, listing>>
  BY DEF CheckItem
<1>3. posting.status = "checked in part" /\ n < Len(posting.body)
  BY DEF CheckItem
<1>4. posting \in PostingsOn(fields) /\ posting.documents \in Seq(Valid(fields)) /\ n \in Nat
  <2>1. posting \in PostingsOn(fields)
    BY <1>1 DEF HandlersTyped
  <2>2. posting.documents \in Seq(Valid(fields))
    BY <2>1 DEF PostingsOn
  <2> QED
    BY <2>1, <2>2, LenProperties
<1>5. /\ posting.body \in Bodies /\ Len(posting.body) \in Nat
      /\ DOMAIN posting.body = 1 .. Len(posting.body)
  <2>1. posting.body \in Bodies \/ posting.body = << >>
    BY <1>4 DEF PostingsOn
  <2>2. posting.body # << >>
    <3>1. Len(<< >>) = 0
      OBVIOUS
    <3>2. ASSUME posting.body = << >> PROVE FALSE
      <4>1. n < Len(<< >>)
        BY ONLY <1>3, <3>2
      <4> QED
        BY ONLY <1>4, <3>1, <4>1
    <3> QED
      BY <3>2
  <2>3. posting.body \in Bodies
    BY <2>1, <2>2
  <2> QED
    BY <2>3, LenProperties, ListAssumption DEF IsList
<1>6. n + 1 \in DOMAIN posting.body /\ n + 1 <= Len(posting.body)
  <2> DEFINE m == Len(posting.body)
  <2>1. n \in Nat /\ m \in Nat /\ n < m
    BY <1>3, <1>4, <1>5
  <2> HIDE DEF n, m
  <2>2. n + 1 \in 1 .. m /\ n + 1 <= m
    BY ONLY <2>1
  <2> QED
    BY <1>5, <2>2 DEF m
<1>7. CASE ValidItem(Item)
  <2>1. Item.content \in Valid(fields)
    <3>1. Item = posting.body[n + 1] /\ Item.type = "object" /\ ValidContent(Item.content)
      BY <1>7 DEF Item, ValidItem
    <3>2. Item.content \in PostedIn(posting.body)
      BY <1>6, <3>1 DEF PostedIn
    <3>3. Item.content \in AllContents
      BY <1>5, <3>2 DEF AllContents, PostedContents
    <3> QED
      BY <3>1, <3>3, FieldsOf DEF Valid
  <2> DEFINE more == Append(posting.documents, Item.content)
  <2>2. posting' = [posting EXCEPT !.documents = more]
    BY <1>7 DEF CheckItem
  <2>3. /\ more \in Seq(Valid(fields)) /\ Len(more) = n + 1
        /\ \A k \in 1 .. n : more[k] = posting.documents[k]
        /\ more[n + 1] = posting.body[n + 1].content
    BY <1>4, <2>1, AppendProperties DEF Item
  <2> HIDE DEF more
  <2>4. posting' \in PostingsOn(fields)
    BY <1>4, <2>2, <2>3 DEF PostingsOn
  <2>5. HandlersTyped'
    BY <1>1, <1>2, <2>4 DEF HandlersTyped
  <2>6. /\ posting'.status = "checked in part" /\ posting'.before = posting.before
        /\ posting'.incremental = posting.incremental /\ posting'.body = posting.body
        /\ posting'.documents = more
    BY <1>3, <1>4, <2>2 DEF PostingsOn
  <2>7. ASSUME NEW k \in 1 .. n + 1 PROVE more[k] = posting.body[k].content
    <3>1. CASE k = n + 1
      BY <2>3, <3>1
    <3>2. CASE k # n + 1
      <4>1. k \in 1 .. n
        BY ONLY <1>4, <3>2, k \in 1 .. n + 1
      <4>2. posting.documents[k] = posting.body[k].content
        BY <1>1, <1>3, <4>1 DEF Followed
      <4> QED
        BY ONLY <2>3, <4>1, <4>2
    <3> QED
      BY <3>1, <3>2
  <2>8. Followed(fields, posting', contents)
    BY <1>1, <1>3, <1>6, <2>3, <2>6, <2>7 DEF Followed
  <2> QED
    BY <1>1, <1>2, <2>5, <2>8 DEF HandlersInvariant
<1>8. CASE ~ValidItem(Item)
  <2>1. posting' = [posting EXCEPT !.status = "400"]
    BY <1>8 DEF CheckItem
  <2>2. posting' \in PostingsOn(fields)
    BY <1>4, <2>1 DEF PostingsOn
  <2>3. HandlersTyped'
    BY <1>1, <1>2, <2>2 DEF HandlersTyped
  <2>4. posting'.status = "400" /\ posting'.before = posting.before
    BY <1>4, <2>1 DEF PostingsOn
  <2>5. Followed(fields, posting', contents)
    BY <1>1, <1>3, <2>4 DEF Followed
  <2> QED
    BY <1>1, <1>2, <2>3, <2>5 DEF HandlersInvariant
<1> QED
  BY <1>7, <1>8

LEMMA ReplaceDocumentsKeeps ==
    ASSUME HandlersInvariant, ReplaceDocuments
    PROVE  HandlersInvariant'
<1>1. HandlersTyped /\ Followed(fields, posting, contents)
  BY DEF HandlersInvariant
<1>2. /\ posting.status = "checked in part" /\ ~posting.incremental
      /\ Len(posting.documents) = Len(posting.body)
      /\ fields' = fields /\ contents' = posting.documents
      /\ posting' = [posting EXCEPT !.status = "202"]
      /\ listing' = [listing EXCEPT !.steady = FALSE]
  BY DEF ReplaceDocuments, Checked, Install
<1>3. posting \in PostingsOn(fields) /\ listing \in Listings
  BY <1>1 DEF HandlersTyped
<1>4. posting' \in PostingsOn(fields) /\ posting.documents \in Seq(Valid(fields))
  BY <1>2, <1>3 DEF PostingsOn
<1>5. listing' \in Listings /\ ~listing'.steady
  BY <1>2, <1>3 DEF Listings
<1>6. HandlersTyped'
  BY <1>1, <1>2, <1>4, <1>5 DEF HandlersTyped
<1>7. /\ posting'.status = "202" /\ posting'.documents = posting.documents
      /\ posting'.body = posting.body /\ posting'.incremental = posting.incremental
  BY <1>2, <1>3 DEF PostingsOn
<1>8. Followed(fields, posting', contents')
  BY <1>1, <1>2, <1>7 DEF Followed
<1>9. PagesFollow(fields, listing', contents')
  BY <1>5 DEF PagesFollow
<1> QED
  BY <1>2, <1>6, <1>8, <1>9 DEF HandlersInvariant

LEMMA PostCollectionKeeps ==
    ASSUME HandlersInvariant, NEW fs \in Schemas, PostCollection(fs)
    PROVE  HandlersInvariant'
<1>1. /\ fields' = fs /\ contents' = << >> /\ posting' = NoBatch
      /\ listing' = [listing EXCEPT !.steady = FALSE]
  BY DEF PostCollection, Install
<1>2. listing' \in Listings /\ ~listing'.steady
  BY <1>1 DEF HandlersInvariant, HandlersTyped, Listings
<1>3. HandlersTyped'
  BY <1>1, <1>2, NothingYet DEF HandlersTyped
<1>4. Followed(fs, NoBatch, << >>)
  BY DEF Followed, NoBatch
<1>5. PagesFollow(fs, listing', << >>)
  BY <1>2 DEF PagesFollow
<1> QED
  BY <1>1, <1>3, <1>4, <1>5 DEF HandlersInvariant

LEMMA GrowsOn ==
    ASSUME NEW fs, NEW S, NEW a \in Seq(S), NEW b \in Seq(S), NEW c \in Seq(S),
           Grown(fs, a, b), Grown(fs, b, c)
    PROVE  Grown(fs, a, c)
<1>1. Len(a) \in Nat /\ Len(b) \in Nat /\ Len(c) \in Nat /\ Len(b) >= Len(a) /\ Len(c) >= Len(b)
  BY LenProperties DEF Grown
<1>2. /\ \A d \in 1 .. Len(a) : KeyIn(fs, b[d]) = KeyIn(fs, a[d])
      /\ \A d \in 1 .. Len(b) : KeyIn(fs, c[d]) = KeyIn(fs, b[d])
      /\ \A d \in Len(a) + 1 .. Len(b) : \A e \in 1 .. d - 1 : KeyIn(fs, b[e]) # KeyIn(fs, b[d])
      /\ \A d \in Len(b) + 1 .. Len(c) : \A e \in 1 .. d - 1 : KeyIn(fs, c[e]) # KeyIn(fs, c[d])
  BY DEF Grown
<1>3. ASSUME NEW d \in 1 .. Len(a) PROVE KeyIn(fs, c[d]) = KeyIn(fs, a[d])
  <2>1. d \in 1 .. Len(b)
    BY ONLY <1>1, d \in 1 .. Len(a)
  <2> QED
    BY ONLY <1>2, <2>1, d \in 1 .. Len(a)
<1>4. ASSUME NEW d \in Len(a) + 1 .. Len(c), NEW e \in 1 .. d - 1
      PROVE  KeyIn(fs, c[e]) # KeyIn(fs, c[d])
  <2>1. CASE d <= Len(b)
    <3>1. d \in Len(a) + 1 .. Len(b) /\ d \in 1 .. Len(b) /\ e \in 1 .. Len(b)
      BY ONLY <1>1, <2>1, d \in Len(a) + 1 .. Len(c), e \in 1 .. d - 1
    <3> QED
      BY ONLY <1>2, <3>1, e \in 1 .. d - 1
  <2>2. CASE ~(d <= Len(b))
    <3>1. d \in Len(b) + 1 .. Len(c)
      BY ONLY <1>1, <2>2, d \in Len(a) + 1 .. Len(c)
    <3> QED
      BY ONLY <1>2, <3>1, e \in 1 .. d - 1
  <2> QED
    BY <2>1, <2>2
<1>5. Len(c) >= Len(a)
  BY ONLY <1>1
<1> QED
  BY ONLY <1>3, <1>4, <1>5 DEF Grown

LEMMA UpsertDocumentsKeeps ==
    ASSUME HandlersInvariant, UpsertDocuments
    PROVE  HandlersInvariant'
<1> DEFINE cs == FoldLeft(UpsertOne, contents, posting.documents)
           n == Len(cs) - Len(contents)
<1>1. /\ HandlersTyped /\ Followed(fields, posting, contents)
      /\ PagesFollow(fields, listing, contents)
  BY DEF HandlersInvariant
<1>2. /\ posting.status = "checked in part" /\ posting.incremental
      /\ Len(posting.documents) = Len(posting.body)
      /\ fields' = fields /\ contents' = cs /\ listing' = listing
      /\ posting' = [posting EXCEPT !.status = "202", !.inserted = n,
                                    !.updated = Len(posting.documents) - n]
  BY DEF UpsertDocuments, Checked, Install
<1>3. posting \in PostingsOn(fields) /\ listing \in Listings /\ contents \in Seq(Valid(fields))
  BY <1>1 DEF HandlersTyped
<1>4. posting.documents \in Seq(Valid(fields)) /\ posting.before \in Seq(Valid(fields))
  BY <1>3 DEF PostingsOn
<1>5. /\ cs \in Seq(Valid(fields)) /\ Grown(fields, contents, cs)
      /\ NewestIn(fields, posting.documents, Len(posting.documents), cs)
      /\ KeysCounted(fields, contents, posting.documents, Len(posting.documents), cs)
  BY ONLY <1>3, <1>4, UpsertedBatch
<1> HIDE DEF cs
<1>6. n \in Int /\ Len(posting.documents) - n \in Int
  BY <1>3, <1>4, <1>5, LenProperties
<1> HIDE DEF n
<1>7. posting' \in PostingsOn(fields)
  BY ONLY <1>2, <1>3, <1>6 DEF PostingsOn
<1>8. HandlersTyped'
  BY <1>1, <1>2, <1>5, <1>7 DEF HandlersTyped
<1>9. /\ posting'.status = "202" /\ posting'.documents = posting.documents
      /\ posting'.body = posting.body /\ posting'.incremental = posting.incremental
      /\ posting'.before = posting.before /\ posting'.inserted = n
      /\ posting'.updated = Len(posting.documents) - n
  BY ONLY <1>2, <1>3 DEF PostingsOn
<1>10. contents = posting.before /\ HasKeyIn(fields)
  BY <1>1, <1>2 DEF Followed
<1>11. Followed(fields, posting', cs)
  <2>1. \A k \in 1 .. Len(posting.documents) : posting.documents[k] = posting.body[k].content
    BY <1>1, <1>2 DEF Followed
  <2>2. Len(posting.documents) <= Len(posting.body)
    BY <1>1, <1>2 DEF Followed
  <2> QED
    BY ONLY <1>2, <1>5, <1>9, <1>10, <2>1, <2>2 DEF Followed, n
<1>12. PagesFollow(fields, listing, cs)
  <2> DEFINE l == listing
  <2> SUFFICES ASSUME l.steady, l.status # "none"
               PROVE  PagesFollow(fields, l, cs)
    BY DEF PagesFollow
  <2>1. l.shown \in Seq(AllContents) /\ l.first \in Seq(AllContents)
    BY <1>3 DEF Listings
  <2> HIDE DEF l
  <2>2. /\ contents = l.first \/ (HasKeyIn(fields) /\ Grown(fields, l.first, contents))
        /\ Len(l.shown) <= Len(contents)
        /\ \A d \in 1 .. Len(l.shown) : Stands(fields, l.shown[d], contents[d])
        /\ l.status = "more" => l.offset = Len(l.shown) /\ l.offset <= MaxOffset
        /\ l.status = "end" => Len(l.shown) >= Len(l.first)
    BY <1>1 DEF PagesFollow, l
  <2>3. /\ contents \in Seq(AllContents) /\ cs \in Seq(AllContents)
    <3>1. Valid(fields) \subseteq AllContents
      BY DEF Valid
    <3> QED
      BY <1>3, <1>5, <3>1, SeqMonotonic
  <2>4. Grown(fields, l.first, cs)
    <3>1. CASE contents = l.first
      BY <1>5, <3>1
    <3>2. CASE Grown(fields, l.first, contents)
      BY ONLY <1>5, <2>1, <2>3, <3>2, GrowsOn
    <3> QED
      BY <2>2, <3>1, <3>2
  <2>5. /\ Len(cs) \in Nat /\ Len(contents) \in Nat /\ Len(l.shown) \in Nat
        /\ Len(cs) >= Len(contents)
        /\ \A d \in 1 .. Len(contents) : KeyIn(fields, cs[d]) = KeyIn(fields, contents[d])
    BY <1>5, <2>1, <2>3, LenProperties DEF Grown
  <2>6. Len(l.shown) <= Len(cs)
    BY ONLY <2>2, <2>5
  <2>7. ASSUME NEW d \in 1 .. Len(l.shown) PROVE Stands(fields, l.shown[d], cs[d])
    <3>1. d \in 1 .. Len(contents)
      BY ONLY <2>2, <2>5, d \in 1 .. Len(l.shown)
    <3>2. Stands(fields, l.shown[d], contents[d])
      BY ONLY <2>2, d \in 1 .. Len(l.shown)
    <3> QED
      BY ONLY <1>10, <2>5, <3>1, <3>2 DEF Stands
  <2> QED
    BY ONLY <1>10, <2>2, <2>4, <2>6, <2>7 DEF PagesFollow
<1> QED
  BY <1>2, <1>8, <1>11, <1>12 DEF HandlersInvariant

LEMMA StartListingKeeps ==
    ASSUME HandlersInvariant, NEW param \in ListLimits, StartListing(param)
    PROVE  HandlersInvariant'
<1> DEFINE size == QueryInt(param, DefaultLimit, 1, MaxLimit)
<1>1. /\ HandlersTyped /\ Followed(fields, posting, contents)
  BY DEF HandlersInvariant
<1>2. size \in Nat \ {0}
  <2>1. CASE param = << >>
    BY <2>1, HandlersAssumption DEF QueryInt
  <2>2. CASE param # << >>
    <3>1. param[1] \in Int /\ MaxLimit \in Nat \ {0}
      BY <2>2, LimitAssumption, ListAssumption
    <3>2. size = Clamp(param[1], 1, MaxLimit)
      BY <2>2 DEF QueryInt
    <3> HIDE DEF size
    <3> QED
      BY ONLY <3>1, <3>2 DEF Clamp, Smaller
  <2> QED
    BY <2>1, <2>2
<1> HIDE DEF size
<1>3. /\ UNCHANGED <<fields, contents, posting>>
      /\ listing' = [status |-> "more", limit |-> size, offset |-> 0, shown |-> << >>,
                     first |-> contents, steady |-> TRUE]
  BY DEF StartListing, NotListing, size
<1>4. contents \in Seq(AllContents) /\ << >> \in Seq(AllContents) /\ Len(contents) \in Nat
  <2>1. contents \in Seq(Valid(fields)) /\ Valid(fields) \subseteq AllContents
    BY <1>1 DEF HandlersTyped, Valid
  <2> QED
    BY <2>1, SeqMonotonic, EmptySeq, LenProperties
<1>5. listing' \in Listings
  BY ONLY <1>2, <1>3, <1>4 DEF Listings
<1>6. HandlersTyped'
  BY <1>1, <1>3, <1>5 DEF HandlersTyped
<1>7. PagesFollow(fields, listing', contents)
  <2>1. Len(<< >>) = 0 /\ 0 <= Len(contents) /\ 0 <= MaxOffset
    BY <1>4, LimitAssumption
  <2>2. /\ listing'.first = contents /\ listing'.shown = << >> /\ listing'.status = "more"
        /\ listing'.offset = 0
    BY ONLY <1>3
  <2>3. \A d \in 1 .. Len(<< >>) : FALSE
    BY ONLY <2>1
  <2> QED
    BY ONLY <2>1, <2>2, <2>3 DEF PagesFollow
<1> QED
  BY <1>1, <1>3, <1>6, <1>7 DEF HandlersInvariant

LEMMA GetDocumentsKeeps ==
    ASSUME HandlersInvariant, GetDocuments
    PROVE  HandlersInvariant'
<1> DEFINE l == listing
           start == QueryInt(<<l.offset>>, 0, 0, MaxOffset)
           last == Smaller(start + l.limit, Len(contents))
           page == SubSeq(contents, start + 1, last)
           status == IF Len(page) < l.limit THEN "end"
                     ELSE IF start + Len(page) > MaxOffset THEN "too far" ELSE "more"
<1>1. /\ HandlersTyped /\ Followed(fields, posting, contents)
      /\ PagesFollow(fields, l, contents)
  BY DEF HandlersInvariant
<1>2. /\ UNCHANGED <<fields, contents, posting>> /\ l.status = "more"
      /\ listing' = [l EXCEPT !.shown = @ \o page, !.offset = @ + Len(page), !.status = status]
  BY DEF GetDocuments
<1>3. /\ l \in Listings /\ l.limit \in Nat \ {0} /\ l.offset \in Nat
      /\ l.shown \in Seq(AllContents) /\ Len(l.shown) \in Nat
      /\ contents \in Seq(AllContents) /\ Len(contents) \in Nat
      /\ \A d \in 1 .. Len(contents) : contents[d] \in AllContents
  <2>1. l \in Listings
    BY <1>1 DEF HandlersTyped
  <2>2. l.limit \in Nat \ {0} /\ l.offset \in Nat /\ l.shown \in Seq(AllContents)
    BY <2>1 DEF Listings
  <2>3. contents \in Seq(AllContents)
    <3>1. contents \in Seq(Valid(fields)) /\ Valid(fields) \subseteq AllContents
      BY <1>1 DEF HandlersTyped, Valid
    <3> QED
      BY <3>1, SeqMonotonic
  <2> QED
    BY <2>1, <2>2, <2>3, LenProperties, ElementOfSeq
<1>4. start = IF l.offset > MaxOffset THEN MaxOffset ELSE l.offset
  <2>1. start = Clamp(l.offset, 0, MaxOffset)
    BY DEF QueryInt
  <2> HIDE DEF start, l
  <2> QED
    BY ONLY <1>3, <2>1, LimitAssumption DEF Clamp, Smaller
<1>5. start \in Nat
  BY ONLY <1>3, <1>4, LimitAssumption
<1>6. last \in Nat /\ last <= Len(contents) /\ (last = start + l.limit \/ last = Len(contents))
  <2> HIDE DEF start, l
  <2> QED
    BY ONLY <1>3, <1>5 DEF Smaller, last
<1> HIDE DEF start, last
<1>7. /\ page \in Seq(AllContents)
      /\ Len(page) = IF start + 1 <= last THEN last - (start + 1) + 1 ELSE 0
      /\ \A k \in 1 .. last - (start + 1) + 1 : page[k] = contents[start + 1 + k - 1]
  <2>1. \A k \in start + 1 .. last : contents[k] \in AllContents
    <3>1. \A k \in start + 1 .. last : k \in 1 .. Len(contents)
      BY ONLY <1>3, <1>5, <1>6
    <3> QED
      BY ONLY <1>3, <3>1
  <2>2. start + 1 \in Int /\ last \in Int
    BY ONLY <1>5, <1>6
  <2> QED
    BY ONLY <2>1, <2>2, SubSeqProperties DEF page
<1>8. Len(page) \in Nat
  BY ONLY <1>7, LenProperties
<1> DEFINE more == l.shown \o page
<1>9. /\ more \in Seq(AllContents) /\ Len(more) = Len(l.shown) + Len(page)
      /\ \A k \in 1 .. Len(l.shown) + Len(page) :
            more[k] = IF k <= Len(l.shown) THEN l.shown[k] ELSE page[k - Len(l.shown)]
  BY ONLY <1>3, <1>7, ConcatProperties
<1>10. status \in {"end", "too far", "more"}
  OBVIOUS
<1> HIDE DEF more, page, status, l
<1>11. listing' = [l EXCEPT !.shown = more, !.offset = l.offset + Len(page), !.status = status]
  BY ONLY <1>2, <1>3 DEF more, Listings
<1>12. listing' \in Listings
  <2>1. l.offset + Len(page) \in Nat
    BY ONLY <1>3, <1>8
  <2>2. l \in Listings /\ more \in Seq(AllContents)
    BY ONLY <1>3, <1>9
  <2> QED
    BY ONLY <1>10, <1>11, <2>1, <2>2 DEF Listings
<1>13. HandlersTyped'
  BY <1>1, <1>2, <1>12 DEF HandlersTyped
<1>14. PagesFollow(fields, listing', contents)
  <2>1. /\ listing'.shown = more /\ listing'.offset = l.offset + Len(page)
        /\ listing'.status = status /\ listing'.first = l.first /\ listing'.steady = l.steady
    BY ONLY <1>3, <1>11 DEF Listings
  <2> SUFFICES ASSUME l.steady PROVE PagesFollow(fields, listing', contents)
    BY <2>1 DEF PagesFollow
  <2>2. /\ contents = l.first \/ (HasKeyIn(fields) /\ Grown(fields, l.first, contents))
        /\ Len(l.shown) <= Len(contents)
        /\ \A d \in 1 .. Len(l.shown) : Stands(fields, l.shown[d], contents[d])
        /\ l.offset = Len(l.shown) /\ l.offset <= MaxOffset
    BY <1>1, <1>2 DEF PagesFollow
  <2>3. start = Len(l.shown)
    BY ONLY <1>3, <1>4, <2>2, LimitAssumption
  <2>4. Len(page) = last - Len(l.shown)
    <3>1. start <= last
      BY ONLY <1>3, <1>5, <1>6, <2>2, <2>3
    <3>2. (IF start + 1 <= last THEN last - (start + 1) + 1 ELSE 0) = last - start
      BY ONLY <1>5, <1>6, <3>1
    <3>3. Len(page) = IF start + 1 <= last THEN last - (start + 1) + 1 ELSE 0
      BY ONLY <1>7
    <3> QED
      BY ONLY <2>3, <3>2, <3>3
  <2>5. Len(more) = last /\ Len(more) <= Len(contents)
    BY ONLY <1>3, <1>6, <1>9, <2>4
  <2>6. ASSUME NEW d \in 1 .. Len(more) PROVE Stands(fields, more[d], contents[d])
    <3>1. CASE d <= Len(l.shown)
      <4>1. d \in 1 .. Len(l.shown) /\ d \in 1 .. Len(l.shown) + Len(page)
        BY ONLY <1>3, <1>8, <3>1, d \in 1 .. Len(more)
      <4> QED
        BY ONLY <1>9, <2>2, <3>1, <4>1
    <3>2. CASE ~(d <= Len(l.shown))
      <4> DEFINE k == d - Len(l.shown)
      <4>0. /\ d \in Nat /\ d > start /\ d <= last /\ start \in Nat /\ last \in Nat
            /\ k = d - start
        <5>1. d \in 1 .. last
          BY ONLY <2>5, d \in 1 .. Len(more)
        <5>2. ~(d <= start)
          BY ONLY <2>3, <3>2
        <5> QED
          BY ONLY <1>5, <1>6, <2>3, <5>1, <5>2
      <4>1. /\ d \in 1 .. Len(l.shown) + Len(page)
            /\ k \in 1 .. last - (start + 1) + 1 /\ start + 1 + k - 1 = d
        <5> HIDE DEF k
        <5>1. k \in 1 .. last - (start + 1) + 1 /\ start + 1 + k - 1 = d
          BY ONLY <4>0
        <5>2. 1 .. Len(l.shown) + Len(page) = 1 .. Len(more)
          BY ONLY <1>9
        <5> QED
          BY ONLY <5>1, <5>2, d \in 1 .. Len(more)
      <4>2. more[d] = page[k]
        BY ONLY <1>9, <3>2, <4>1
      <4>3. page[k] = contents[d]
        <5> HIDE DEF k
        <5> QED
          BY ONLY <1>7, <4>1
      <4> QED
        BY ONLY <4>2, <4>3 DEF Stands
    <3> QED
      BY ONLY <3>1, <3>2
  <2>7. status = "more" => l.offset + Len(page) = Len(more) /\ l.offset + Len(page) <= MaxOffset
    <3>1. status = "more" => ~(start + Len(page) > MaxOffset)
      BY ONLY TRUE DEF status
    <3>2. l.offset + Len(page) = Len(more)
      BY ONLY <1>9, <2>2
    <3>3. start + Len(page) = Len(more) /\ Len(more) \in Nat
      BY ONLY <1>6, <1>9, <2>3, <2>5
    <3> QED
      BY ONLY <3>1, <3>2, <3>3, LimitAssumption
  <2>8. status = "end" => Len(more) >= Len(l.first)
    <3>1. status = "end" => Len(page) < l.limit
      BY ONLY TRUE DEF status
    <3>2. Len(page) < l.limit => last = Len(contents)
      BY ONLY <1>3, <1>6, <2>3, <2>4
    <3>3. Len(contents) >= Len(l.first)
      BY ONLY <1>3, <2>2 DEF Grown
    <3> QED
      BY ONLY <2>5, <3>1, <3>2, <3>3
  <2> QED
    BY ONLY <2>1, <2>2, <2>5, <2>6, <2>7, <2>8 DEF PagesFollow
<1> QED
  BY <1>1, <1>2, <1>13, <1>14 DEF HandlersInvariant

LEMMA RequestKeeps ==
    ASSUME HandlersInvariant, HandlersNext
    PROVE  HandlersInvariant'
<1>1. CASE Searching
  <2>1. UNCHANGED <<fields, contents, posting, listing>>
    BY <1>1 DEF Searching, handlerVars
  <2> QED
    BY <2>1 DEF HandlersInvariant, HandlersTyped
<1>2. CASE \E body \in Bodies, incremental \in BOOLEAN : PostDocuments(body, incremental)
  BY <1>2, PostDocumentsKeeps
<1>3. CASE CheckItem
  BY <1>3, CheckItemKeeps
<1>4. CASE ReplaceDocuments
  BY <1>4, ReplaceDocumentsKeeps
<1>5. CASE UpsertDocuments
  BY <1>5, UpsertDocumentsKeeps
<1>6. CASE \E fs \in Schemas : PostCollection(fs)
  BY <1>6, PostCollectionKeeps
<1>7. CASE \E param \in ListLimits : StartListing(param)
  BY <1>7, StartListingKeeps
<1>8. CASE GetDocuments
  BY <1>8, GetDocumentsKeeps
<1> QED
  BY <1>1, <1>2, <1>3, <1>4, <1>5, <1>6, <1>7, <1>8 DEF HandlersNext

LEMMA InvariantHolds ==
    HandlersSpec => []HandlersInvariant
<1>1. HandlersInit => HandlersInvariant
  BY HandlersInitially
<1>2. HandlersInvariant /\ [HandlersNext]_<<vars, handlerVars>> => HandlersInvariant'
  <2>1. CASE HandlersNext
    BY <2>1, RequestKeeps
  <2>2. CASE UNCHANGED <<vars, handlerVars>>
    <3>1. UNCHANGED <<fields, contents, posting, listing>>
      BY <2>2 DEF handlerVars
    <3> QED
      BY <3>1 DEF HandlersInvariant, HandlersTyped
  <2> QED
    BY <2>1, <2>2
<1> QED
  BY <1>1, <1>2, PTL DEF HandlersSpec

-----------------------------------------------------------------------------
(***************************************************************************)
(* The list of documents.                                                  *)
(***************************************************************************)
\* handleGetDocuments: a client that asks for page after page has every
\* document that was there when it began, in its place, and behind them only
\* documents with keys of their own, whatever batches of documents are put in
\* between its pages; for any collection, batches and sizes of pages.
THEOREM ListedCorrectly ==
    HandlersSpec => []ListedOnce
<1>1. HandlersInvariant => ListedOnce
  <2> DEFINE l == listing
             shown == listing.shown
             first == listing.first
  <2> SUFFICES ASSUME HandlersInvariant, l.status = "end", l.steady
               PROVE  /\ Len(shown) >= Len(first)
                      /\ \A d \in DOMAIN shown :
                            /\ d \in DOMAIN first =>
                                  \/ shown[d] = first[d]
                                  \/ HasKey /\ KeyOf(shown[d]) = KeyOf(first[d])
                            /\ d \notin DOMAIN first =>
                                  HasKey /\ \A e \in 1 .. d - 1 : KeyOf(shown[e]) # KeyOf(shown[d])
    BY DEF ListedOnce
  <2>1. /\ contents = first \/ (HasKeyIn(fields) /\ Grown(fields, first, contents))
        /\ Len(shown) <= Len(contents)
        /\ \A d \in 1 .. Len(shown) : Stands(fields, shown[d], contents[d])
        /\ Len(shown) >= Len(first)
    BY DEF HandlersInvariant, PagesFollow
  <2>2. /\ shown \in Seq(AllContents) /\ first \in Seq(AllContents)
        /\ contents \in Seq(Valid(fields))
    BY DEF HandlersInvariant, HandlersTyped, Listings
  <2>3. /\ Len(shown) \in Nat /\ Len(first) \in Nat /\ Len(contents) \in Nat
        /\ DOMAIN shown = 1 .. Len(shown) /\ DOMAIN first = 1 .. Len(first)
    BY <2>2, LenProperties
  <2> HIDE DEF l, shown, first
  <2>4. ASSUME NEW d \in 1 .. Len(shown), d \in 1 .. Len(first)
        PROVE  Stands(fields, shown[d], first[d])
    <3>1. Stands(fields, shown[d], contents[d])
      BY ONLY <2>1, <2>4
    <3>2. CASE contents = first
      BY ONLY <3>1, <3>2
    <3>3. CASE HasKeyIn(fields) /\ Grown(fields, first, contents)
      <4>1. KeyIn(fields, contents[d]) = KeyIn(fields, first[d])
        BY ONLY <2>4, <3>3 DEF Grown
      <4> QED
        BY ONLY <3>1, <3>3, <4>1 DEF Stands
    <3> QED
      BY <2>1, <3>2, <3>3
  <2>5. ASSUME NEW d \in 1 .. Len(shown), d \notin 1 .. Len(first)
        PROVE  /\ HasKeyIn(fields)
               /\ \A e \in 1 .. d - 1 : KeyIn(fields, shown[e]) # KeyIn(fields, shown[d])
    <3>1. d \in Len(first) + 1 .. Len(contents)
      BY ONLY <2>1, <2>3, <2>5
    <3>2. contents # first
      <4>1. ASSUME contents = first PROVE FALSE
        <5>1. Len(contents) = Len(first)
          BY ONLY <4>1
        <5> QED
          BY ONLY <2>3, <3>1, <5>1
      <4> QED
        BY <4>1
    <3>3. /\ HasKeyIn(fields)
          /\ \A e \in 1 .. d - 1 : KeyIn(fields, contents[e]) # KeyIn(fields, contents[d])
      BY ONLY <2>1, <3>1, <3>2 DEF Grown
    <3>4. ASSUME NEW e \in 1 .. d - 1
          PROVE  KeyIn(fields, shown[e]) # KeyIn(fields, shown[d])
      <4>1. e \in 1 .. Len(shown)
        BY ONLY <2>3, d \in 1 .. Len(shown), e \in 1 .. d - 1
      <4>2. Stands(fields, shown[e], contents[e]) /\ Stands(fields, shown[d], contents[d])
        BY ONLY <2>1, <4>1, d \in 1 .. Len(shown)
      <4> QED
        BY ONLY <3>3, <4>2, e \in 1 .. d - 1 DEF Stands
    <3> QED
      BY <3>3, <3>4
  <2> QED
    BY <2>1, <2>3, <2>4, <2>5, FieldsOf DEF Stands
<1> QED
  BY <1>1, InvariantHolds, PTL

-----------------------------------------------------------------------------
(***************************************************************************)
(* Batches of documents.                                                   *)
(***************************************************************************)
\* The numbers given fit int64_t: get<int64_t>() leaves them as they are.
NumbersFit ==
    \A c \in AllContents : \A name \in DOMAIN c :
       c[name].type = "int" => Int64(c[name].value) = c[name].value

LEMMA KeyIsNumber ==
    ASSUME NumbersFit, HandlersTyped, HasKeyIn(fields), NEW c \in Valid(fields)
    PROVE  KeyIn(fields, c) = Number(c)
<1> DEFINE n == Min(IntFields)
<1>1. n \in IntFields
  <2>1. fields \in Seq(ToSet(fields))
    BY ListAssumption DEF HandlersTyped, IsList
  <2>2. DOMAIN fields \subseteq Nat
    BY <2>1, LenProperties
  <2>3. IntFields \subseteq Nat /\ IntFields # {}
    BY <2>2 DEF IntFields, HasKeyIn, IntsOf
  <2> QED
    BY ONLY <2>3, SmallestExists
<1>2. n \in DOMAIN fields /\ fields[n].type = "int"
  BY <1>1 DEF IntFields
<1>3. c \in AllContents /\ fields[n].name \in DOMAIN c /\ c[fields[n].name].type = "int"
  BY <1>2 DEF Valid, ValidIn
<1>4. Int64(c[fields[n].name].value) = c[fields[n].name].value
  BY ONLY <1>3, NumbersFit DEF NumbersFit
<1> QED
  BY <1>4 DEF KeyIn, Number, IntFields, IntsOf

\* handlePostDocuments: a batch that is refused, even for its last document,
\* has changed nothing; one that is accepted is the collection, or, incremental,
\* has put the newest document of each of its numbers in, in the place of the one
\* that had it or behind all others, left the rest alone and counted right; for
\* any batch of numbers that fit int64_t.
THEOREM BatchCorrect ==
    ASSUME NumbersFit
    PROVE  HandlersSpec => []BatchIsWhole
<1>1. HandlersInvariant => BatchIsWhole
  <2> DEFINE p == posting
             given == [n \in DOMAIN p.body |-> p.body[n].content]
  <2> SUFFICES ASSUME HandlersInvariant PROVE BatchIsWhole
    OBVIOUS
  <2>1. HandlersTyped /\ Followed(fields, p, contents)
    BY DEF HandlersInvariant
  <2>2. p.status = "400" => contents = p.before
    BY <2>1 DEF Followed
  <2>3. /\ p.documents \in Seq(Valid(fields)) /\ p.before \in Seq(Valid(fields))
        /\ contents \in Seq(Valid(fields)) /\ p.inserted \in Int
        /\ p.body \in Bodies \union {<< >>}
    BY <2>1 DEF HandlersTyped, PostingsOn
  <2>4. /\ Len(p.documents) \in Nat /\ DOMAIN p.documents = 1 .. Len(p.documents)
        /\ Len(p.before) \in Nat /\ DOMAIN p.before = 1 .. Len(p.before)
        /\ Len(contents) \in Nat /\ DOMAIN contents = 1 .. Len(contents)
        /\ DOMAIN p.body = 1 .. Len(p.body)
    <3>1. p.body \in Seq(ToSet(p.body))
      <4>1. << >> \in Seq(ToSet(<< >>))
        BY EmptySeq
      <4> QED
        BY <2>3, <4>1, ListAssumption DEF IsList
    <3> QED
      BY <2>3, <3>1, LenProperties
  <2>5. ASSUME p.status = "202"
        PROVE  /\ given = p.documents
               /\ ~p.incremental => contents = p.documents
               /\ p.incremental =>
                     /\ HasKeyIn(fields)
                     /\ Grown(fields, p.before, contents)
                     /\ NewestIn(fields, p.documents, Len(p.documents), contents)
                     /\ KeysCounted(fields, p.before, p.documents, Len(p.documents), contents)
                     /\ p.inserted = Len(contents) - Len(p.before)
                     /\ p.updated = Len(p.documents) - p.inserted
    <3>1. /\ Len(p.documents) = Len(p.body)
          /\ \A n \in 1 .. Len(p.documents) : p.documents[n] = p.body[n].content
      BY <2>1, <2>5 DEF Followed
    <3>2. p.documents = [n \in 1 .. Len(p.documents) |-> p.documents[n]]
      BY <2>3, <2>4
    <3>3. given = p.documents
      BY ONLY <2>4, <3>1, <3>2
    <3> HIDE DEF given
    <3> QED
      BY <2>1, <2>5, <3>3 DEF Followed
  <2> DEFINE Newest(n) == \A k \in n + 1 .. Len(given) : Number(given[k]) # Number(given[n])
             numbers == {Number(given[n]) : n \in DOMAIN given}
             old == {Number(p.before[d]) : d \in DOMAIN p.before}
  <2>6. ASSUME p.status = "202", p.incremental
        PROVE  /\ \A n \in DOMAIN given : Newest(n) => given[n] \in ToSet(contents)
               /\ \A d \in DOMAIN p.before : Number(contents[d]) = Number(p.before[d])
               /\ p.inserted = Len(contents) - Len(p.before)
               /\ p.inserted = Cardinality(numbers \ old)
               /\ p.inserted + p.updated = Len(given)
    <3> DEFINE batch == p.documents
    <3>1. \A c \in Valid(fields) : KeyIn(fields, c) = Number(c)
      BY <2>1, <2>5, <2>6, KeyIsNumber
    <3>2. /\ given = batch
          /\ Grown(fields, p.before, contents)
          /\ NewestIn(fields, batch, Len(batch), contents)
          /\ KeysCounted(fields, p.before, batch, Len(batch), contents)
          /\ p.inserted = Len(contents) - Len(p.before)
          /\ p.updated = Len(batch) - p.inserted
      BY <2>5, <2>6
    <3>3. /\ \A n \in 1 .. Len(batch) : KeyIn(fields, batch[n]) = Number(batch[n])
          /\ \A d \in 1 .. Len(p.before) : KeyIn(fields, p.before[d]) = Number(p.before[d])
          /\ \A d \in 1 .. Len(contents) : KeyIn(fields, contents[d]) = Number(contents[d])
      BY ONLY <2>3, <3>1, ElementOfSeq
    <3>4. /\ DOMAIN batch = 1 .. Len(batch) /\ Len(batch) \in Nat
      BY <2>4
    <3> HIDE DEF given, batch
    <3>5. ASSUME NEW n \in DOMAIN given, Newest(n) PROVE given[n] \in ToSet(contents)
      <4>1. n \in 1 .. Len(batch)
        BY ONLY <3>2, <3>4, n \in DOMAIN given
      <4>2. NewestOf(fields, batch, n, Len(batch))
        <5>1. ASSUME NEW m \in n + 1 .. Len(batch)
              PROVE  KeyIn(fields, batch[m]) # KeyIn(fields, batch[n])
          <6>1. m \in 1 .. Len(batch)
            BY ONLY <3>4, <4>1, m \in n + 1 .. Len(batch)
          <6>2. Number(batch[m]) # Number(batch[n])
            BY ONLY <3>2, <3>5, m \in n + 1 .. Len(batch)
          <6> QED
            BY ONLY <3>3, <4>1, <6>1, <6>2
        <5> QED
          BY ONLY <5>1 DEF NewestOf
      <4>3. \E d \in 1 .. Len(contents) : contents[d] = batch[n]
        BY ONLY <3>2, <4>1, <4>2 DEF NewestIn
      <4> QED
        BY ONLY <2>4, <3>2, <4>3 DEF ToSet
    <3>6. ASSUME NEW d \in DOMAIN p.before PROVE Number(contents[d]) = Number(p.before[d])
      <4>1. d \in 1 .. Len(p.before)
        BY <2>4
      <4>2. Len(contents) >= Len(p.before) /\ KeyIn(fields, contents[d]) = KeyIn(fields, p.before[d])
        BY ONLY <3>2, <4>1 DEF Grown
      <4>3. d \in 1 .. Len(contents)
        BY ONLY <2>4, <4>1, <4>2
      <4> QED
        BY ONLY <3>3, <4>1, <4>2, <4>3
    <3>7. p.inserted = Cardinality(numbers \ old)
      <4>1. numbers = Keys(fields, batch, Len(batch))
        BY ONLY <3>2, <3>3, <3>4 DEF Keys
      <4>2. old = Keys(fields, p.before, Len(p.before))
        BY ONLY <2>4, <3>3 DEF Keys
      <4>3. Cardinality(Keys(fields, batch, Len(batch)) \ Keys(fields, p.before, Len(p.before)))
               = Len(contents) - Len(p.before)
        BY ONLY <3>2 DEF KeysCounted
      <4> HIDE DEF numbers, old
      <4> QED
        BY ONLY <3>2, <4>1, <4>2, <4>3
    <3>8. p.inserted + p.updated = Len(given)
      <4> DEFINE i == p.inserted
                 u == p.updated
                 k == Len(batch)
      <4>1. i \in Int /\ k \in Nat /\ u = k - i
        BY ONLY <2>3, <3>2, <3>4
      <4>2. Len(given) = k
        BY ONLY <3>2
      <4> HIDE DEF i, u, k
      <4>3. i + u = k
        BY ONLY <4>1
      <4> QED
        BY ONLY <4>2, <4>3 DEF i, u
    <3> QED
      BY ONLY <3>2, <3>5, <3>6, <3>7, <3>8
  <2> QED
    BY ONLY <2>2, <2>5, <2>6 DEF BatchIsWhole
<1> QED
  BY <1>1, InvariantHolds, PTL

-----------------------------------------------------------------------------
(***************************************************************************)
(* Search.  Five theorems about handleSearch end this module, each with    *)
(* an invariant of the steps of a request that the ones before it help to  *)
(* keep.  They are about any constants of which these hypotheses hold,     *)
(* where a theorem names them.                                             *)
(***************************************************************************)
\* bm25_idf is the logarithm of a number above 1 where a term is in some of
\* the documents and not in all.
IdfIsPositive == \A num \in Nat : \A n \in 1 .. num - 1 : LogIdf[num][n] \in Nat \ {0}

\* libstemmer makes words of words.
StemsAreLists == \A word : IsList(word) => IsList(Stem(word))

\* libstemmer leaves something of every word.
StemsAreNotEmpty == \A word : IsList(word) /\ word # << >> => Stem(word) # << >>

-----------------------------------------------------------------------------
(***************************************************************************)
(* The words and the tokens of a text, and the dictionary made of texts.   *)
(***************************************************************************)
LEMMA TokensAreList ==
    ASSUME NEW text, IsList(text)
    PROVE  IsList(SplitWords(text)) /\ IsList(Tokens(text))
<1>1. IsList(SplitWords(text))
  <2> DEFINE InWord(i) == i \in DOMAIN text /\ text[i] # Blank
             Start(e) == CHOOSE s \in 1 .. e : ~InWord(s - 1) /\ \A k \in s .. e : InWord(k)
             value == [e \in {i \in DOMAIN text : InWord(i) /\ ~InWord(i + 1)} |->
                          SubSeq(text, Start(e), e)]
  <2>1. SplitWords(text) = InOrder(value, Len(text))
    BY DEF SplitWords, RunsBetween
  <2>2. DOMAIN value \subseteq 1 .. Len(text) /\ Len(text) \in Nat
    BY ListsHaveLengths
  <2> HIDE DEF value
  <2> QED
    BY <2>1, <2>2, InOrderIsList
<1>2. IsList(Tokens(text))
  <2> DEFINE split == SplitWords(text)
             short == {n \in DOMAIN split : Size(split[n]) <= MaxWordLength}
             value == [n \in {m \in short : Normalized(split[m]) \notin StopWords} |->
                          Normalized(split[n])]
  <2>1. Tokens(text) = InOrder(value, Len(split))
    BY DEF Tokens
  <2>2. DOMAIN value \subseteq DOMAIN split
    OBVIOUS
  <2> HIDE DEF split, value
  <2>3. Len(split) \in Nat /\ DOMAIN split = 1 .. Len(split)
    BY <1>1, ListsHaveLengths DEF split
  <2> QED
    BY <2>1, <2>2, <2>3, InOrderIsList
<1> QED
  BY <1>1, <1>2

LEMMA CountsOfText ==
    ASSUME NEW text, IsList(text)
    PROVE  DOMAIN WordCount(text) = ToSet(Tokens(text)) /\ IsBagOf(WordCount(text))
<1> DEFINE tokens == Tokens(text)
           Places(t) == {n \in DOMAIN tokens : tokens[n] = t}
           bag == [t \in ToSet(tokens) |-> Cardinality(Places(t))]
<1>1. WordCount(text) = bag
  BY DEF WordCount
<1>2. IsList(tokens)
  BY TokensAreList
<1>3. Len(tokens) \in Nat /\ DOMAIN tokens = 1 .. Len(tokens)
  BY <1>2, ListsHaveLengths
<1> HIDE DEF tokens
<1>4. ASSUME NEW t \in ToSet(tokens) PROVE Cardinality(Places(t)) \in Nat \ {0}
  <2>1. Places(t) # {} /\ Places(t) \subseteq DOMAIN tokens
    BY DEF ToSet
  <2>2. IsFiniteSet(DOMAIN tokens)
    BY <1>3, FS_Interval
  <2> HIDE DEF Places
  <2>3. IsFiniteSet(Places(t))
    BY <2>1, <2>2, FS_Subset
  <2> QED
    BY <2>1, <2>3, FS_CardinalityType, FS_EmptySet
<1> HIDE DEF Places
<1>5. DOMAIN bag = ToSet(tokens) /\ bag \in [DOMAIN bag -> Nat \ {0}]
  BY <1>4
<1> HIDE DEF bag
<1> QED
  BY <1>1, <1>5 DEF IsBagOf, tokens

\* The bags of the first texts of a collection.
BagsTo(texts, n) == [d \in 1 .. n |-> WordCount(texts[d])]
TextsAreLists(texts) == IsList(texts) /\ \A d \in DOMAIN texts : IsList(texts[d])

\* The dictionary of a collection is the inverse of its texts.
LEMMA IndexInverts ==
    ASSUME NEW texts, TextsAreLists(texts)
    PROVE  /\ Inverts(IndexOf(texts).dict, BagsTo(texts, Len(texts)))
           /\ AllDistinct(IndexOf(texts).dict)
<1> DEFINE n == Len(texts)
           bags == BagsTo(texts, n)
           order == [d \in DOMAIN texts |-> d]
<1>1. n \in Nat /\ DOMAIN texts = 1 .. n
  BY ListsHaveLengths DEF TextsAreLists
<1>2. \A d \in 1 .. n : d \in Nat \ {0} /\ IsBagOf(WordCount(texts[d]))
  BY <1>1, CountsOfText DEF TextsAreLists
<1>3. AreBags(bags) /\ DOMAIN bags = 1 .. n
  BY <1>2 DEF AreBags, BagsTo
<1>4. IndexOf(texts).dict = PushAll(bags, order)
  BY <1>1 DEF IndexOf, BagsTo
<1>5. order \in Seq(DOMAIN bags) /\ DOMAIN order = 1 .. n /\ \A d \in 1 .. n : order[d] = d
  <2>1. order \in [1 .. n -> 1 .. n]
    BY <1>1
  <2> QED
    BY <1>1, <1>3, <2>1
<1> HIDE DEF n, order
<1>6. ToSet(order) = DOMAIN bags
  BY <1>3, <1>5 DEF ToSet
<1>7. BagsAt(bags, DOMAIN bags) = bags
  BY <1>3 DEF BagsAt, AreBags
<1> HIDE DEF bags
<1>8. \A i, j \in DOMAIN order : order[i] = order[j] => i = j
  BY <1>5
<1>9. Inverts(PushAll(bags, order), BagsAt(bags, ToSet(order))) /\ AllDistinct(PushAll(bags, order))
  BY ONLY <1>3, <1>5, <1>8, PushAllInverts
<1> QED
  BY <1>4, <1>6, <1>7, <1>9 DEF bags, n

\* The posting list of a term: the documents that have it, each once.
LEMMA ListOfHolders ==
    ASSUME TextsAreLists(docs), index = IndexOf(docs), NEW t
    PROVE  LET ids == IdsOf(t)
           IN  /\ IsList(ids)
               /\ ToSet(ids) = {d \in DOMAIN docs : t \in TokensOf(d)}
               /\ \A i, k \in DOMAIN ids : ids[i] = ids[k] => i = k
<1> DEFINE dict == index.dict
           bags == BagsTo(docs, Len(docs))
           postings == GetWordCount(dict, t)
           ids == [i \in DOMAIN postings |-> postings[i].doc_id]
           holders == {d \in DOMAIN docs : t \in TokensOf(d)}
<1>1. IdsOf(t) = ids
  BY DEF IdsOf
<1>2. Inverts(dict, bags) /\ AllDistinct(dict)
  BY IndexInverts
<1>3. DOMAIN docs = 1 .. Len(docs) /\ Len(docs) \in Nat
  BY ListsHaveLengths DEF TextsAreLists
<1>4. HoldersIn(bags, t) = holders
  <2>1. \A d \in DOMAIN docs : DOMAIN WordCount(docs[d]) = TokensOf(d)
    BY CountsOfText DEF TextsAreLists, TokensOf
  <2> QED
    BY <1>3, <2>1 DEF HoldersIn, BagsTo
<1> HIDE DEF bags, dict, holders
<1>5. /\ postings \in Seq(Posting) /\ Distinct(postings)
      /\ {postings[i].doc_id : i \in DOMAIN postings} = holders
  <2>1. CASE t \in DOMAIN dict
    <3>1. postings = dict[t]
      BY <2>1 DEF GetWordCount
    <3> HIDE DEF postings
    <3>2. postings \in Seq(Posting) /\ Distinct(postings)
      BY <1>2, <2>1, <3>1 DEF Inverts, AllDistinct
    <3>3. \A i \in DOMAIN postings : postings[i].doc_id \in holders
      BY <1>2, <1>4, <2>1, <3>1, Listed
    <3>4. \A d \in holders : \E i \in DOMAIN postings : postings[i].doc_id = d
      BY <1>2, <1>4, <2>1, <3>1, Listed DEF Entry
    <3> QED
      BY <3>2, <3>3, <3>4
  <2>2. CASE t \notin DOMAIN dict
    <3>1. postings = << >>
      BY <2>2 DEF GetWordCount
    <3>2. HoldersIn(bags, t) = {}
      BY <1>2, <2>2 DEF Inverts, TermsOf, HoldersIn
    <3> QED
      BY <1>4, <3>1, <3>2, EmptyList
  <2> QED
    BY <2>1, <2>2
<1> HIDE DEF postings
<1>6. DOMAIN postings = 1 .. Len(postings) /\ Len(postings) \in Nat
  BY <1>5, LenProperties
<1>7. ToSet(ids) = holders
  BY <1>5 DEF ToSet
<1>8. IsList(ids)
  <2>1. ids \in [1 .. Len(postings) -> ToSet(ids)]
    BY <1>6 DEF ToSet
  <2> HIDE DEF ids
  <2> QED
    BY <1>6, <2>1, IsASeq DEF IsList
<1>9. \A i, k \in DOMAIN ids : ids[i] = ids[k] => i = k
  BY <1>5 DEF Distinct
<1> HIDE DEF ids
<1> QED
  BY <1>1, <1>7, <1>8, <1>9 DEF holders

-----------------------------------------------------------------------------
(***************************************************************************)
(* The searchable text of a document.                                      *)
(***************************************************************************)
LEMMA StringsOfDocument ==
    ASSUME NEW c \in AllContents
    PROVE  StringsAreLists(c)
<1>1. CASE c \in PostedContents
  <2>1. PICK body \in Bodies : c \in PostedIn(body)
    BY <1>1 DEF PostedContents
  <2> QED
    BY <2>1, ContentAssumption DEF PostedIn
<1>2. CASE c \in FirstContents
  <2>1. PICK texts \in Corpora : c \in FirstIn(texts)
    BY <1>2 DEF FirstContents
  <2> QED
    BY <2>1, ContentAssumption DEF FirstIn
<1> QED
  BY <1>1, <1>2 DEF AllContents

LEMMA SearchableTextIsList ==
    ASSUME fields \in Schemas, NEW c \in Valid(fields)
    PROVE  IsList(SearchableText(c))
<1> DEFINE n == Len(fields)
           Value(k) == c[fields[k].name].value
           strings == {k \in 1 .. n : fields[k].type = "string"}
           letters == {Blank} \union UNION {ToSet(Value(k)) : k \in strings}
           Longer(k, x) == IF fields[k].type # "string" THEN x
                           ELSE IF x = << >> THEN Value(k) ELSE x \o <<Blank>> \o Value(k)
           step == [k \in 1 .. n |-> [x \in Seq(letters) |-> Longer(k, x)]]
           Made(f) == f = [k \in 0 .. n |-> IF k = 0 THEN << >> ELSE Longer(k, f[k - 1])]
           text == CHOOSE f : Made(f)
<1>1. n \in Nat /\ DOMAIN fields = 1 .. n
  BY ListAssumption, ListsHaveLengths
<1>2. ASSUME NEW k \in strings PROVE Value(k) \in Seq(letters)
  <2>1. k \in DOMAIN fields /\ fields[k].type = "string"
    BY <1>1
  <2>2. c \in AllContents /\ fields[k].name \in DOMAIN c /\ c[fields[k].name].type = "string"
    BY <2>1 DEF Valid, ValidIn
  <2>3. IsList(Value(k))
    BY <2>2, StringsOfDocument DEF StringsAreLists
  <2>4. ToSet(Value(k)) \subseteq letters
    OBVIOUS
  <2> HIDE DEF Value, letters
  <2> QED
    BY <2>3, <2>4, SeqMonotonic DEF IsList
<1> HIDE DEF Value
<1>3. Blank \in letters
  OBVIOUS
<1> HIDE DEF letters
<1>4. ASSUME NEW k \in 1 .. n, NEW x \in Seq(letters) PROVE Longer(k, x) \in Seq(letters)
  <2>1. CASE k \in strings
    <3>1. Value(k) \in Seq(letters) /\ <<Blank>> \in Seq(letters)
      BY <1>2, <1>3, <2>1
    <3>2. x \o <<Blank>> \in Seq(letters)
      BY <3>1, ConcatProperties
    <3>3. (x \o <<Blank>>) \o Value(k) \in Seq(letters)
      BY <3>1, <3>2, ConcatProperties
    <3> QED
      BY <3>1, <3>3
  <2>2. CASE k \notin strings
    BY <2>2
  <2> QED
    BY <2>1, <2>2
<1>5. step \in StepsOn(n, Seq(letters)) /\ << >> \in Seq(letters)
  BY <1>4, EmptySeq DEF StepsOn
<1>6. PICK f : StepByStepFrom(f, n, Seq(letters), << >>, step)
  <2> HIDE DEF step
  <2> QED
    BY <1>1, <1>5, StepByStep
<1>7. /\ \A k \in 1 .. n : k - 1 \in 0 .. n /\ k # 0 /\ k \in 0 .. n
      /\ \A k \in 0 .. n : k = 0 \/ k \in 1 .. n
      /\ 0 \in 0 .. n /\ n \in 0 .. n
  BY <1>1
<1> HIDE DEF Longer
<1>8. \A k \in 1 .. n : f[k] = Longer(k, f[k - 1])
  BY <1>6, <1>7 DEF StepByStepFrom
<1>9. Made(f)
  <2>1. f = [k \in 0 .. n |-> f[k]] /\ f[0] = << >>
    BY <1>6 DEF StepByStepFrom
  <2> QED
    BY <1>7, <1>8, <2>1
<1>10. Made(text)
  <2> HIDE DEF Made
  <2> QED
    BY <1>9
<1>11. SearchableText(c) = text[n]
  BY DEF SearchableText, Longer, Value
<1> HIDE DEF text
<1>12. text[0] = << >> /\ \A k \in 1 .. n : text[k] = Longer(k, text[k - 1])
  BY <1>7, <1>10
<1> DEFINE G == {k \in Nat : k <= n => text[k] \in Seq(letters)}
<1>13. 0 \in G
  BY <1>5, <1>12
<1>14. ASSUME NEW k \in Nat, k \in G PROVE k + 1 \in G
  <2>1. ASSUME k + 1 <= n PROVE text[k + 1] \in Seq(letters)
    <3>1. k <= n /\ k + 1 \in 1 .. n /\ (k + 1) - 1 = k
      BY <1>1, <2>1
    <3>2. text[k] \in Seq(letters)
      BY <1>14, <3>1
    <3> HIDE DEF G
    <3>3. text[k + 1] = Longer(k + 1, text[k])
      BY <1>12, <3>1
    <3> QED
      BY <1>4, <3>1, <3>2, <3>3
  <2> QED
    BY <2>1
<1> HIDE DEF G
<1>15. n \in G /\ n <= n
  BY <1>1, <1>13, <1>14, FromZero
<1>16. text[n] \in Seq(letters)
  BY <1>15 DEF G
<1> HIDE DEF letters
<1> QED
  BY <1>11, <1>16, SeqIsList

\* The texts of documents that fit the fields.
LEMMA TextsOfDocuments ==
    ASSUME fields \in Schemas, NEW cs \in Seq(Valid(fields))
    PROVE  TextsAreLists([d \in DOMAIN cs |-> SearchableText(cs[d])])
<1> DEFINE texts == [d \in DOMAIN cs |-> SearchableText(cs[d])]
<1>1. Len(cs) \in Nat /\ DOMAIN cs = 1 .. Len(cs) /\ \A d \in 1 .. Len(cs) : cs[d] \in Valid(fields)
  BY LenProperties, ElementOfSeq
<1>2. texts \in [1 .. Len(cs) -> ToSet(texts)]
  BY <1>1 DEF ToSet
<1>3. \A d \in DOMAIN texts : IsList(texts[d])
  BY <1>1, SearchableTextIsList
<1> HIDE DEF texts
<1>4. IsList(texts)
  BY <1>1, <1>2, IsASeq DEF IsList
<1> QED
  BY <1>3, <1>4 DEF TextsAreLists, texts

-----------------------------------------------------------------------------
(***************************************************************************)
(* A phrase.                                                               *)
(***************************************************************************)
PhraseHolders(ds, q) == {d \in DOMAIN ds : HasSubstring(Tokens(ds[d]), Tokens(q))}

PhraseAnswered(ds, q, list, n) ==
    ToSet(list) \subseteq PhraseHolders(ds, q) /\ n = Cardinality(PhraseHolders(ds, q))

\* A document that holds the tokens in a row has each of them.
LEMMA HoldersHaveAll ==
    ASSUME NEW tokens, IsList(tokens), NEW phrase, IsList(phrase),
           HasSubstring(tokens, phrase), NEW n \in DOMAIN phrase
    PROVE  phrase[n] \in ToSet(tokens)
<1>1. /\ Len(tokens) \in Nat /\ DOMAIN tokens = 1 .. Len(tokens)
      /\ Len(phrase) \in Nat /\ DOMAIN phrase = 1 .. Len(phrase)
  BY ListsHaveLengths
<1>2. PICK i \in 0 .. Len(tokens) - Len(phrase) :
         SubSeq(tokens, i + 1, i + Len(phrase)) = phrase
  BY DEF HasSubstring
<1>3. /\ n \in 1 .. Len(phrase) /\ i + n \in 1 .. Len(tokens) /\ i + 1 \in Int
      /\ i + Len(phrase) \in Int /\ n \in 1 .. (i + Len(phrase)) - (i + 1) + 1
      /\ (i + 1) + n - 1 = i + n
  BY <1>1, <1>2
<1>4. \A k \in 1 .. (i + Len(phrase)) - (i + 1) + 1 :
         SubSeq(tokens, i + 1, i + Len(phrase))[k] = tokens[(i + 1) + k - 1]
  <2>1. tokens \in Seq(ToSet(tokens)) /\ i + 1 \in 1 .. Len(tokens) + 1 /\ i + Len(phrase) \in i .. Len(tokens)
    BY <1>1, <1>2 DEF IsList
  <2> QED
    BY <1>1, <1>3, <2>1, SubSeqProperties
<1>5. phrase[n] = tokens[i + n]
  <2>1. phrase[n] = tokens[(i + 1) + n - 1]
    BY ONLY <1>2, <1>3, <1>4
  <2> QED
    BY <1>3, <2>1
<1> QED
  BY <1>1, <1>3, <1>5 DEF ToSet

\* Any nonempty list has a term whose posting list is shortest.
LEMMA ShortestExists ==
    ASSUME TextsAreLists(docs), index = IndexOf(docs), NEW phrase, IsList(phrase), phrase # << >>
    PROVE  \E n \in DOMAIN phrase :
              \A k \in DOMAIN phrase : Len(IdsOf(phrase[n])) <= Len(IdsOf(phrase[k]))
<1> DEFINE Lengths == {Len(IdsOf(phrase[n])) : n \in DOMAIN phrase}
<1>1. DOMAIN phrase # {}
  <2>1. Len(phrase) \in Nat /\ DOMAIN phrase = 1 .. Len(phrase)
    BY ListsHaveLengths
  <2>2. Len(phrase) # 0
    BY EmptySeq DEF IsList
  <2> QED
    BY <2>1, <2>2
<1>2. \A n \in DOMAIN phrase : Len(IdsOf(phrase[n])) \in Nat
  BY ListOfHolders, ListsHaveLengths
<1>3. Lengths \subseteq Nat /\ Lengths # {}
  BY <1>1, <1>2
<1>4. Min(Lengths) \in Lengths /\ \A k \in Lengths : Min(Lengths) <= k
  <2> HIDE DEF Lengths
  <2> QED
    BY <1>3, SmallestExists
<1> QED
  BY <1>4

\* The documents found, in the order of the shortest posting list.
DocsOn(ix, t) ==
    LET postings == GetWordCount(ix.dict, t)
    IN  [i \in DOMAIN postings |-> postings[i].doc_id]

PhraseList(ds, ix, q) ==
    LET phrase == Tokens(q)
        shortest == CHOOSE n \in DOMAIN phrase :
                       \A k \in DOMAIN phrase :
                          Len(DocsOn(ix, phrase[n])) <= Len(DocsOn(ix, phrase[k]))
        ids == DocsOn(ix, phrase[shortest])
        holding == {i \in DOMAIN ids :
                      /\ \A n \in DOMAIN phrase : ids[i] \in ToSet(DocsOn(ix, phrase[n]))
                      /\ ContainsPhrase(Tokens(ds[ids[i]]), phrase)}
    IN  IF phrase = << >> THEN << >> ELSE InOrder(Restrict(ids, holding), Len(ids))

LEMMA PhraseListed ==
    ASSUME TextsAreLists(docs), index = IndexOf(docs), NEW q, IsList(q), Tokens(q) # << >>
    PROVE  LET found == PhraseList(docs, index, q)
           IN  /\ found \in Seq(PhraseHolders(docs, q))
               /\ Len(found) = Cardinality(PhraseHolders(docs, q))
               /\ \A i, k \in DOMAIN found : found[i] = found[k] => i = k
<1> DEFINE phrase == Tokens(q)
           shortest == CHOOSE n \in DOMAIN phrase :
                          \A k \in DOMAIN phrase :
                             Len(IdsOf(phrase[n])) <= Len(IdsOf(phrase[k]))
           ids == IdsOf(phrase[shortest])
           holding == {i \in DOMAIN ids :
                         /\ \A n \in DOMAIN phrase : ids[i] \in ToSet(IdsOf(phrase[n]))
                         /\ ContainsPhrase(Tokens(docs[ids[i]]), phrase)}
           value == Restrict(ids, holding)
           found == InOrder(value, Len(ids))
           holders == PhraseHolders(docs, q)
<1>1. PhraseList(docs, index, q) = found
  BY DEF PhraseList, IdsOf, DocsOn
<1>2. IsList(phrase)
  BY TokensAreList
<1>3. shortest \in DOMAIN phrase
  BY <1>2, ShortestExists
<1> HIDE DEF shortest, phrase
<1>4. /\ IsList(ids) /\ ToSet(ids) = {d \in DOMAIN docs : phrase[shortest] \in TokensOf(d)}
      /\ \A i, k \in DOMAIN ids : ids[i] = ids[k] => i = k
  BY ListOfHolders
<1> HIDE DEF ids
<1>5. Len(ids) \in Nat /\ DOMAIN ids = 1 .. Len(ids)
  BY <1>4, ListsHaveLengths
<1>6. DOMAIN value = holding /\ holding \subseteq 1 .. Len(ids)
      /\ \A i \in holding : value[i] = ids[i]
  BY <1>5 DEF Restrict
<1>7. {ids[i] : i \in holding} = holders
  <2>1. ASSUME NEW i \in holding PROVE ids[i] \in holders
    <3>1. ids[i] \in DOMAIN docs
      BY <1>4 DEF ToSet
    <3>2. HasSubstring(Tokens(docs[ids[i]]), phrase)
      BY DEF ContainsPhrase, HasSubstring
    <3> QED
      BY <3>1, <3>2 DEF PhraseHolders, phrase
  <2>2. ASSUME NEW d \in holders PROVE \E i \in holding : ids[i] = d
    <3>1. d \in DOMAIN docs /\ HasSubstring(Tokens(docs[d]), phrase)
      BY DEF PhraseHolders, phrase
    <3>2. IsList(Tokens(docs[d]))
      BY <3>1, TokensAreList DEF TextsAreLists
    <3>3. \A n \in DOMAIN phrase : phrase[n] \in TokensOf(d)
      BY <1>2, <3>1, <3>2, HoldersHaveAll DEF TokensOf
    <3>4. \A n \in DOMAIN phrase : d \in ToSet(IdsOf(phrase[n]))
      BY <3>1, <3>3, ListOfHolders
    <3>5. d \in ToSet(ids)
      BY <1>3, <1>4, <3>1, <3>3
    <3>6. PICK i \in DOMAIN ids : ids[i] = d
      BY <3>5 DEF ToSet
    <3>7. ContainsPhrase(Tokens(docs[d]), phrase)
      BY <3>1 DEF ContainsPhrase, HasSubstring, phrase
    <3> QED
      BY <3>4, <3>6, <3>7
  <2> QED
    BY <2>1, <2>2
<1> HIDE DEF holding, holders
<1>8. \A i \in DOMAIN value : value[i] \in holders
  BY <1>6, <1>7
<1> HIDE DEF value
<1>9. /\ found \in Seq(holders) /\ Len(found) \in Nat /\ DOMAIN found = 1 .. Len(found)
      /\ IsFiniteSet(DOMAIN value) /\ Len(found) = Cardinality(DOMAIN value)
      /\ ToSet(found) = {value[k] : k \in DOMAIN value}
  <2>1. DOMAIN value \subseteq 1 .. Len(ids)
    BY ONLY <1>6
  <2>2. Len(ids) \in Nat
    BY ONLY <1>5
  <2> HIDE DEF ids
  <2> QED
    BY ONLY <1>8, <2>1, <2>2, InOrderHasAll, ZenonT(30)
<1> HIDE DEF found
<1>10. Cardinality(holders) = Cardinality(holding)
  <2> DEFINE f == [i \in holding |-> ids[i]]
  <2>1. f \in [holding -> holders] /\ \A d \in holders : \E i \in holding : f[i] = d
    BY <1>7
  <2>2. \A i, k \in holding : f[i] = f[k] => i = k
    BY <1>4, <1>5, <1>6
  <2> HIDE DEF f
  <2>3. f \in Bijection(holding, holders)
    BY <2>1, <2>2 DEF Bijection, Injection, Surjection, IsInjective
  <2>4. ExistsBijection(holding, holders) /\ IsFiniteSet(holding)
    BY <1>6, <1>9, <2>3 DEF ExistsBijection
  <2> QED
    BY <2>4, FS_Bijection
<1>11. \A i, k \in DOMAIN found : found[i] = found[k] => i = k
  <2>1. ToSet(found) = holders
    <3>1. {value[k] : k \in DOMAIN value} = {ids[i] : i \in holding}
      BY <1>6
    <3> QED
      BY <1>7, <1>9, <3>1
  <2>2. found \in Surjection(1 .. Len(found), holders)
    BY <1>9, <2>1 DEF Surjection, ToSet
  <2>3. IsFiniteSet(1 .. Len(found)) /\ Cardinality(1 .. Len(found)) = Len(found)
    BY <1>9, SizeOfInterval
  <2>4. Cardinality(holders) = Cardinality(1 .. Len(found))
    BY <1>6, <1>9, <1>10, <2>3
  <2>5. found \in Injection(1 .. Len(found), holders)
    BY <2>2, <2>3, <2>4, FS_Surjection
  <2> QED
    BY <1>9, <2>5 DEF Injection, IsInjective
<1> QED
  BY <1>1, <1>6, <1>9, <1>10, <1>11 DEF holders

LEMMA FirstOfPhraseList ==
    ASSUME PhraseQuery
    PROVE  LET found == PhraseList(docs, index, query)
           IN  Tokens(query) # << >> =>
                  total' = Len(found) /\ full_list' = SubSeq(found, 1, Smaller(RequestSize, Len(found)))
  BY DEF PhraseQuery, PhraseList, IdsOf, DocsOn

LEMMA PhraseFound ==
    ASSUME TextsAreLists(docs), index = IndexOf(docs), IsList(query),
           limit \in Int, offset \in Int, Tokens(query) # << >>, PhraseQuery
    PROVE  PhraseAnswered(docs, query, full_list', total')
<1> DEFINE found == PhraseList(docs, index, query)
           holders == PhraseHolders(docs, query)
           size == Smaller(RequestSize, Len(found))
<1>1. total' = Len(found) /\ full_list' = SubSeq(found, 1, size)
  BY FirstOfPhraseList
<1>2. found \in Seq(holders) /\ Len(found) = Cardinality(holders)
  BY PhraseListed
<1> HIDE DEF found, holders
<1>3. Len(found) \in Nat /\ DOMAIN found = 1 .. Len(found)
  BY <1>2, LenProperties
<1>4. size \in Int /\ size <= Len(found)
  <2>1. MaxLimit \in Nat /\ MaxOffset \in Nat
    BY LimitAssumption
  <2>2. RequestSize \in Int
    BY <2>1 DEF RequestSize, Smaller
  <2> QED
    BY <1>3, <2>2 DEF Smaller
<1> HIDE DEF size
<1>5. full_list' \in Seq(holders)
  BY <1>1, <1>2, <1>3, <1>4, SubSeqProperties, ElementOfSeq
<1>6. ToSet(full_list') \subseteq holders
  BY <1>5, ElementOfSeq, LenProperties DEF ToSet
<1> QED
  BY <1>1, <1>2, <1>6 DEF PhraseAnswered, holders

-----------------------------------------------------------------------------
(***************************************************************************)
(* What holds between the steps of a search: the collection does not       *)
(* change under it, and a phrase query has the answer of the collection.   *)
(***************************************************************************)
AnyMode == [phrase : BOOLEAN, partial : BOOLEAN, fuzzy : BOOLEAN, max_edits : Int]

Collected == TextsAreLists(docs) /\ index = IndexOf(docs)

Requested == IsList(query) /\ mode \in AnyMode /\ limit \in Nat \ {0} /\ offset \in Nat

\* No documents are put in during a search.
OneAtATime == posting.status = "checked in part" => pc = "idle"

PhraseStands(p, ds, q, m, list, n) ==
    /\ p = "phrase" => m.phrase
    /\ p \in {"words", "rank"} => ~m.phrase
    /\ (p \in {"answer", "more", "end"} /\ m.phrase /\ Tokens(q) # << >>) =>
          PhraseAnswered(ds, q, list, n)

SearchInvariant ==
    /\ Collected /\ Requested /\ OneAtATime
    /\ PhraseStands(pc, docs, query, mode, full_list, total)

LEMMA NoRequestYet ==
    IsList(<< >>) /\ NoRequest \in AnyMode
<1>1. IsList(<< >>)
  BY EmptySeq, SeqIsList
<1>2. NoRequest \in AnyMode
  BY DEF NoRequest, AnyMode
<1> QED
  BY <1>1, <1>2

LEMMA SearchInitially ==
    ASSUME HandlersInit
    PROVE  SearchInvariant
<1>1. /\ pc = "idle" /\ docs \in Corpora /\ index = IndexOf(docs)
      /\ query = << >> /\ mode = NoRequest /\ limit = 1 /\ offset = 0 /\ posting = NoBatch
  BY DEF HandlersInit, Init
<1>2. Collected
  BY <1>1, TextAssumption DEF Collected, TextsAreLists
<1>3. Requested
  BY <1>1, NoRequestYet DEF Requested
<1>4. OneAtATime /\ PhraseStands(pc, docs, query, mode, full_list, total)
  BY <1>1 DEF OneAtATime, PhraseStands
<1> QED
  BY <1>2, <1>3, <1>4 DEF SearchInvariant

LEMMA ClampBetween ==
    ASSUME NEW value \in Int, NEW low \in Int, NEW high \in Int, low <= high
    PROVE  Clamp(value, low, high) \in low .. high
  BY DEF Clamp, Smaller

LEMMA BeginKeeps ==
    ASSUME SearchInvariant, NEW q, IsList(q), NEW m \in AnyMode, NEW lim \in Int, NEW off \in Int,
           Begin(q, m, lim, off), posting.status # "checked in part", UNCHANGED posting
    PROVE  SearchInvariant'
<1>1. /\ query' = q /\ mode' = [m EXCEPT !.max_edits = Clamp(m.max_edits, 0, 3)]
      /\ limit' = Clamp(lim, 1, MaxLimit) /\ offset' = Clamp(off, 0, MaxOffset)
      /\ docs' = docs /\ index' = index
      /\ pc' = IF m.phrase THEN "phrase"
               ELSE IF N = 0 \/ TotalLength = 0 THEN "answer" ELSE "words"
  BY DEF Begin, collection
<1>2. Collected'
  BY <1>1 DEF Collected, SearchInvariant
<1>3. mode' \in AnyMode /\ mode'.phrase = m.phrase
  <2>1. m.max_edits \in Int
    BY DEF AnyMode
  <2>2. Clamp(m.max_edits, 0, 3) \in Int
    BY ONLY <2>1 DEF Clamp, Smaller
  <2> QED
    BY <1>1, <2>2 DEF AnyMode
<1>4. limit' \in Nat \ {0} /\ offset' \in Nat
  <2>1. MaxLimit \in Nat \ {0} /\ MaxOffset \in Nat
    BY LimitAssumption
  <2>2. /\ Clamp(lim, 1, MaxLimit) \in 1 .. MaxLimit
        /\ Clamp(off, 0, MaxOffset) \in 0 .. MaxOffset
    BY ONLY <2>1, lim \in Int, off \in Int, ClampBetween
  <2> QED
    BY ONLY <1>1, <2>2
<1>5. Requested'
  BY <1>1, <1>3, <1>4 DEF Requested
<1>6. OneAtATime'
  BY DEF OneAtATime
<1>7. PhraseStands(pc', docs', query', mode', full_list', total')
  <2>1. (pc' \in {"words", "answer"} => ~m.phrase) /\ (pc' = "phrase" => m.phrase)
    BY <1>1
  <2>2. pc' \in {"phrase", "words", "answer"}
    BY <1>1
  <2> QED
    BY <1>3, <2>1, <2>2 DEF PhraseStands
<1> QED
  BY <1>2, <1>5, <1>6, <1>7 DEF SearchInvariant

LEMMA SearchKeeps ==
    ASSUME SearchInvariant, Searching
    PROVE  SearchInvariant'
<1>1. Next /\ UNCHANGED posting /\ posting.status # "checked in part"
  BY DEF Searching, handlerVars
<1>2. /\ Collected /\ Requested /\ OneAtATime
      /\ PhraseStands(pc, docs, query, mode, full_list, total)
  BY DEF SearchInvariant
<1>3. ASSUME NEW q \in Queries, NEW m \in Modes, NEW lim \in Limits, Ask(q, m, lim)
      PROVE  SearchInvariant'
  <2>1. IsList(q) /\ m \in AnyMode /\ lim \in Int /\ 0 \in Int
    BY TextAssumption, ModeAssumption, LimitAssumption DEF AnyMode
  <2>2. Begin(q, m, lim, 0)
    BY <1>3 DEF Ask
  <2> QED
    BY <1>1, <2>1, <2>2, BeginKeeps
<1>4. CASE AskNextPage
  <2>1. IsList(query) /\ mode \in AnyMode /\ limit \in Int /\ offset + limit \in Int
    BY <1>2 DEF Requested
  <2>2. Begin(query, mode, limit, offset + limit)
    BY <1>4 DEF AskNextPage
  <2> QED
    BY <1>1, <2>1, <2>2, BeginKeeps
<1>5. CASE PhraseQuery
  <2>1. UNCHANGED <<docs, index, query, mode, limit, offset>> /\ pc' = "answer"
    BY <1>5 DEF PhraseQuery, collection, request
  <2>2. Collected' /\ Requested' /\ OneAtATime'
    BY <1>1, <1>2, <2>1 DEF Collected, Requested, OneAtATime
  <2>3. Tokens(query) # << >> => PhraseAnswered(docs, query, full_list', total')
    <3>1. TextsAreLists(docs) /\ index = IndexOf(docs) /\ IsList(query) /\ limit \in Int /\ offset \in Int
      BY <1>2 DEF Collected, Requested
    <3> QED
      BY <1>5, <3>1, PhraseFound
  <2>4. PhraseStands(pc', docs', query', mode', full_list', total')
    BY <2>1, <2>3 DEF PhraseStands
  <2> QED
    BY <2>2, <2>4 DEF SearchInvariant
<1>6. ASSUME NEW w \in words, ExactWord(w) \/ PartialWord(w) \/ OtherWord(w)
      PROVE  SearchInvariant'
  <2>1. UNCHANGED <<pc, docs, index, query, mode, limit, offset, full_list, total>>
    BY <1>6 DEF ExactWord, PartialWord, OtherWord, Taken, collection, request
  <2> QED
    BY <1>1, <1>2, <2>1 DEF SearchInvariant, Collected, Requested, OneAtATime
<1>7. CASE WholeQuery \/ Rank
  <2>1. UNCHANGED <<docs, index, query, mode, limit, offset>> /\ pc \in {"words", "rank"}
        /\ pc' \in {"rank", "answer"}
    BY <1>7 DEF WholeQuery, Rank, collection, request
  <2>2. ~mode.phrase
    BY <1>2, <2>1 DEF PhraseStands
  <2>3. PhraseStands(pc', docs', query', mode', full_list', total')
    BY <2>1, <2>2 DEF PhraseStands
  <2>4. Collected' /\ Requested' /\ OneAtATime'
    BY <1>1, <1>2, <2>1 DEF Collected, Requested, OneAtATime
  <2> QED
    BY <2>3, <2>4 DEF SearchInvariant
<1>8. CASE Answer
  <2>1. UNCHANGED <<docs, index, query, mode, limit, offset, full_list, total>> /\ pc = "answer"
        /\ pc' \in {"end", "more"}
    BY <1>8 DEF Answer, collection, request
  <2>2. PhraseStands(pc', docs', query', mode', full_list', total')
    BY <1>2, <2>1 DEF PhraseStands
  <2>3. Collected' /\ Requested' /\ OneAtATime'
    BY <1>1, <1>2, <2>1 DEF Collected, Requested, OneAtATime
  <2> QED
    BY <2>2, <2>3 DEF SearchInvariant
<1>9. CASE Close
  <2>1. /\ UNCHANGED <<docs, index>> /\ pc' = "idle" /\ query' = << >> /\ mode' = NoRequest
        /\ limit' = 1 /\ offset' = 0
    BY <1>9 DEF Close, collection
  <2>2. Collected' /\ OneAtATime' /\ PhraseStands(pc', docs', query', mode', full_list', total')
    BY <1>2, <2>1 DEF Collected, OneAtATime, PhraseStands
  <2>3. Requested'
    BY <2>1, NoRequestYet DEF Requested
  <2> QED
    BY <2>2, <2>3 DEF SearchInvariant
<1> QED
  BY <1>1, <1>3, <1>4, <1>5, <1>6, <1>7, <1>8, <1>9 DEF Next, Step

\* The collection changes between searches.
LEMMA InstallKeeps ==
    ASSUME SearchInvariant, fields \in Schemas, pc = "idle",
           NEW cs \in Seq(Valid(fields)), Install(cs)
    PROVE  SearchInvariant'
<1>1. /\ docs' = [d \in DOMAIN cs |-> SearchableText(cs[d])]
      /\ index' = IndexOf(docs') /\ UNCHANGED <<pc, query, mode, limit, offset>>
  BY DEF Install, search, request
<1>2. TextsAreLists(docs')
  BY <1>1, TextsOfDocuments
<1>3. Collected'
  BY <1>1, <1>2 DEF Collected
<1>4. Requested' /\ OneAtATime'
  BY <1>1 DEF SearchInvariant, Requested, OneAtATime
<1>5. PhraseStands(pc', docs', query', mode', full_list', total')
  BY <1>1 DEF PhraseStands
<1> QED
  BY <1>3, <1>4, <1>5 DEF SearchInvariant

\* Requests that leave the collection and the search alone.
LEMMA OthersKeep ==
    ASSUME SearchInvariant, UNCHANGED vars, OneAtATime'
    PROVE  SearchInvariant'
  BY DEF SearchInvariant, vars, collection, request, Collected, Requested

\* What a request is for the search: a step of it, nothing, or, between
\* searches, new documents.
LEMMA RequestsSeen ==
    ASSUME SearchInvariant, HandlersInvariant, HandlersInvariant', HandlersNext
    PROVE  \/ Searching
           \/ UNCHANGED vars /\ OneAtATime'
           \/ pc = "idle" /\ \E cs \in Seq(Valid(fields)) : Install(cs)
<1>1. fields \in Schemas /\ OneAtATime
  BY DEF HandlersInvariant, HandlersTyped, SearchInvariant
<1>2. CASE \E body \in Bodies, incremental \in BOOLEAN : PostDocuments(body, incremental)
  <2>1. UNCHANGED vars /\ pc = "idle"
    BY <1>2 DEF PostDocuments, MayChange
  <2> QED
    BY <2>1 DEF OneAtATime, vars
<1>3. CASE CheckItem
  <2>1. UNCHANGED vars /\ posting.status = "checked in part"
    BY <1>3 DEF CheckItem
  <2> QED
    BY <1>1, <2>1 DEF OneAtATime, vars
<1>4. CASE ReplaceDocuments
  <2>1. Install(posting.documents) /\ pc = "idle"
    BY <1>1, <1>4 DEF ReplaceDocuments, Checked, OneAtATime
  <2>2. posting.documents \in Seq(Valid(fields))
    BY DEF HandlersInvariant, HandlersTyped, PostingsOn
  <2> QED
    BY <2>1, <2>2
<1>5. CASE UpsertDocuments
  <2> DEFINE cs == FoldLeft(UpsertOne, contents, posting.documents)
  <2>1. Install(cs) /\ pc = "idle" /\ fields' = fields /\ contents' = cs
    BY <1>1, <1>5 DEF UpsertDocuments, Checked, OneAtATime, Install
  <2> HIDE DEF cs
  <2>2. cs \in Seq(Valid(fields))
    BY <2>1 DEF HandlersInvariant, HandlersTyped
  <2> QED
    BY <2>1, <2>2
<1>6. CASE \E fs \in Schemas : PostCollection(fs)
  <2>1. Install(<< >>) /\ pc = "idle"
    BY <1>6 DEF PostCollection, MayChange
  <2> QED
    BY <2>1, NothingYet
<1>7. CASE (\E param \in ListLimits : StartListing(param)) \/ GetDocuments
  <2>1. UNCHANGED vars /\ UNCHANGED posting
    BY <1>7 DEF StartListing, GetDocuments
  <2> QED
    BY <1>1, <2>1 DEF OneAtATime, vars
<1> QED
  BY <1>2, <1>3, <1>4, <1>5, <1>6, <1>7 DEF HandlersNext

LEMMA RequestKeepsSearch ==
    ASSUME SearchInvariant, HandlersInvariant, HandlersInvariant', HandlersNext
    PROVE  SearchInvariant'
<1>1. fields \in Schemas
  BY DEF HandlersInvariant, HandlersTyped
<1>2. CASE Searching
  BY <1>2, SearchKeeps
<1>3. CASE UNCHANGED vars /\ OneAtATime'
  BY <1>3, OthersKeep
<1>4. ASSUME pc = "idle", NEW cs \in Seq(Valid(fields)), Install(cs) PROVE SearchInvariant'
  BY <1>1, <1>4, InstallKeeps
<1> QED
  BY <1>2, <1>3, <1>4, RequestsSeen

LEMMA SearchInvariantHolds ==
    HandlersSpec => [](HandlersInvariant /\ SearchInvariant)
<1>1. HandlersInit => SearchInvariant
  BY SearchInitially
<1>2. HandlersInvariant /\ HandlersInvariant' /\ SearchInvariant
      /\ [HandlersNext]_<<vars, handlerVars>> => SearchInvariant'
  <2>1. ASSUME HandlersInvariant, HandlersInvariant', SearchInvariant, HandlersNext
        PROVE  SearchInvariant'
    BY <2>1, RequestKeepsSearch
  <2>2. ASSUME SearchInvariant, UNCHANGED <<vars, handlerVars>> PROVE SearchInvariant'
    <3>1. OneAtATime' /\ UNCHANGED vars
      BY <2>2 DEF SearchInvariant, OneAtATime, vars, handlerVars
    <3> QED
      BY <2>2, <3>1, OthersKeep
  <2> QED
    BY <2>1, <2>2
<1> QED
  BY <1>1, <1>2, InvariantHolds, PTL DEF HandlersSpec

\* process_phrase_query: a phrase query finds the documents that hold its
\* tokens in a row and no other, and counts them all, though it looks only at
\* the shortest posting list; for any collection, query and page.
THEOREM PhraseCorrect ==
    HandlersSpec => []PhraseIsExact
<1>1. SearchInvariant => PhraseIsExact
  BY DEF SearchInvariant, PhraseStands, PhraseAnswered, PhraseHolders, PhraseIsExact,
         Answered, Found
<1> QED
  BY <1>1, SearchInvariantHolds, PTL

-----------------------------------------------------------------------------
(***************************************************************************)
(* The documents that hold a word of the query.                            *)
(***************************************************************************)
HoldersOf(ds, w) == {d \in DOMAIN ds : w \in ToSet(Tokens(ds[d]))}

\* The words of ws that not all documents hold: their holders are found.
AreFound(ds, ws, scored) ==
    \A w \in ws : HoldersOf(ds, w) # DOMAIN ds => HoldersOf(ds, w) \subseteq scored

LEMMA SameInterval ==
    ASSUME NEW a \in Nat, NEW b \in Nat, 1 .. a = 1 .. b
    PROVE  a = b
<1>1. a # 0 => a \in 1 .. b
  OBVIOUS
<1>2. b # 0 => b \in 1 .. a
  OBVIOUS
<1> QED
  BY ONLY <1>1, <1>2, a \in Nat, b \in Nat

LEMMA InjectiveList ==
    ASSUME NEW s, IsList(s), \A i, k \in DOMAIN s : s[i] = s[k] => i = k
    PROVE  IsFiniteSet(ToSet(s)) /\ Cardinality(ToSet(s)) = Len(s)
<1>1. Len(s) \in Nat /\ DOMAIN s = 1 .. Len(s) /\ s \in [1 .. Len(s) -> ToSet(s)]
  BY LenProperties DEF IsList
<1>2. \A x \in ToSet(s) : \E i \in 1 .. Len(s) : s[i] = x
  BY <1>1 DEF ToSet
<1>3. s \in Bijection(1 .. Len(s), ToSet(s))
  BY <1>1, <1>2 DEF Bijection, Injection, Surjection, IsInjective
<1>4. /\ IsFiniteSet(1 .. Len(s))
      /\ Cardinality(1 .. Len(s)) = IF 1 > Len(s) THEN 0 ELSE Len(s) - 1 + 1
  BY <1>1, FS_Interval
<1>5. (IF 1 > Len(s) THEN 0 ELSE Len(s) - 1 + 1) = Len(s)
  BY ONLY <1>1
<1>6. ExistsBijection(1 .. Len(s), ToSet(s))
  BY <1>3 DEF ExistsBijection
<1> QED
  BY <1>4, <1>5, <1>6, FS_Bijection

LEMMA HoldersCounted ==
    ASSUME TextsAreLists(docs), index = IndexOf(docs), NEW t
    PROVE  /\ ToSet(IdsOf(t)) = HoldersOf(docs, t)
           /\ IsFiniteSet(HoldersOf(docs, t))
           /\ Len(GetWordCount(index.dict, t)) = Cardinality(HoldersOf(docs, t))
           /\ t \in Vocabulary <=> HoldersOf(docs, t) # {}
<1> DEFINE ids == IdsOf(t)
           postings == GetWordCount(index.dict, t)
<1>1. /\ IsList(ids) /\ ToSet(ids) = HoldersOf(docs, t)
      /\ \A i, k \in DOMAIN ids : ids[i] = ids[k] => i = k
  BY ListOfHolders DEF HoldersOf, TokensOf
<1>2. IsFiniteSet(ToSet(ids)) /\ Cardinality(ToSet(ids)) = Len(ids)
  <2> HIDE DEF ids
  <2> QED
    BY <1>1, InjectiveList
<1>3. DOMAIN ids = DOMAIN postings
  BY DEF IdsOf
<1>4. Inverts(index.dict, BagsTo(docs, Len(docs))) /\ AllDistinct(index.dict)
  BY IndexInverts
<1>5. IsList(postings) /\ (postings # << >> <=> t \in Vocabulary)
  <2>1. CASE t \in DOMAIN index.dict
    <3>1. postings = index.dict[t]
      BY <2>1 DEF GetWordCount
    <3>2. postings \in Seq(Posting) /\ postings # << >>
      <4> DEFINE bags == BagsTo(docs, Len(docs))
      <4>1. postings \in Seq(Posting) /\ ToSet(postings) = PostingsIn(bags, t) /\ t \in TermsOf(bags)
        BY <1>4, <2>1, <3>1 DEF Inverts
      <4> HIDE DEF postings, bags
      <4>2. PICK d \in HoldersIn(bags, t) : TRUE
        BY <4>1 DEF TermsOf, HoldersIn
      <4>3. PostingsIn(bags, t) # {}
        BY <4>2 DEF PostingsIn
      <4> QED
        BY <4>1, <4>3, EmptyOrListed
    <3> HIDE DEF postings
    <3> QED
      BY <2>1, <3>2, SeqIsList DEF Vocabulary
  <2>2. CASE t \notin DOMAIN index.dict
    BY <2>2, NoRequestYet DEF GetWordCount, Vocabulary
  <2> QED
    BY <2>1, <2>2
<1> HIDE DEF ids, postings
<1>6. /\ Len(ids) \in Nat /\ DOMAIN ids = 1 .. Len(ids)
      /\ Len(postings) \in Nat /\ DOMAIN postings = 1 .. Len(postings)
  BY <1>1, <1>5, ListsHaveLengths
<1>7. Len(postings) = Len(ids)
  <2>1. 1 .. Len(postings) = 1 .. Len(ids)
    BY <1>3, <1>6
  <2> QED
    BY <1>6, <2>1, SameInterval
<1>8. t \in Vocabulary <=> ToSet(ids) # {}
  <2>1. postings # << >> <=> Len(postings) # 0
    BY <1>5, EmptySeq, LenProperties DEF IsList
  <2>2. Len(ids) # 0 <=> 1 .. Len(ids) # {}
    BY ONLY <1>6
  <2>3. ToSet(ids) # {} <=> 1 .. Len(ids) # {}
    BY <1>6 DEF ToSet
  <2> QED
    BY <1>5, <1>7, <2>1, <2>2, <2>3
<1> QED
  BY <1>1, <1>2, <1>7, <1>8 DEF postings, ids

LEMMA TermTells ==
    ASSUME TextsAreLists(docs), index = IndexOf(docs), IdfIsPositive, NEW t
    PROVE  /\ IdfOf(t) \in Nat
           /\ IdfOf(t) > 0 <=> HoldersOf(docs, t) \notin {{}, DOMAIN docs}
<1> DEFINE n == Cardinality(HoldersOf(docs, t))
           num == Len(docs)
<1>1. IsFiniteSet(HoldersOf(docs, t)) /\ Len(GetWordCount(index.dict, t)) = n
  BY HoldersCounted
<1>2. num \in Nat /\ DOMAIN docs = 1 .. num
  BY ListsHaveLengths DEF TextsAreLists
<1>3. IsFiniteSet(DOMAIN docs) /\ Cardinality(DOMAIN docs) = num
  <2>1. /\ IsFiniteSet(1 .. num) /\ Cardinality(1 .. num) = IF 1 > num THEN 0 ELSE num - 1 + 1
    BY <1>2, FS_Interval
  <2>2. (IF 1 > num THEN 0 ELSE num - 1 + 1) = num
    BY ONLY <1>2
  <2> QED
    BY <1>2, <2>1, <2>2
<1>4. n \in Nat /\ n <= num /\ (n = num <=> HoldersOf(docs, t) = DOMAIN docs)
  <2>1. HoldersOf(docs, t) \in SUBSET DOMAIN docs
    BY DEF HoldersOf
  <2> QED
    BY <1>1, <1>3, <2>1, FS_Subset, FS_CardinalityType
<1>5. n = 0 <=> HoldersOf(docs, t) = {}
  BY <1>1, FS_EmptySet
<1>6. IdfOf(t) = IF n = 0 \/ n >= num THEN 0 ELSE LogIdf[num][n]
  BY <1>1 DEF IdfOf, Idf, N
<1> HIDE DEF n, num
<1>7. CASE n = 0 \/ n >= num
  <2>1. IdfOf(t) = 0
    BY <1>6, <1>7
  <2>2. n = 0 \/ n = num
    BY ONLY <1>2, <1>4, <1>7
  <2> QED
    BY <1>4, <1>5, <2>1, <2>2
<1>8. CASE ~(n = 0 \/ n >= num)
  <2>1. IdfOf(t) = LogIdf[num][n]
    BY <1>6, <1>8
  <2>2. n \in 1 .. num - 1 /\ n # num /\ n # 0
    BY ONLY <1>2, <1>4, <1>8
  <2>3. LogIdf[num][n] \in Nat \ {0}
    BY <1>2, <2>2 DEF IdfIsPositive
  <2>4. HoldersOf(docs, t) \notin {{}, DOMAIN docs}
    BY <1>4, <1>5, <2>2
  <2>5. \A x \in Nat \ {0} : x \in Nat /\ x > 0
    OBVIOUS
  <2> QED
    BY <2>1, <2>3, <2>4, <2>5
<1> QED
  BY <1>7, <1>8

\* Terms add their holders to the documents found.
LEMMA TermsAdd ==
    ASSUME TextsAreLists(docs), index = IndexOf(docs), IdfIsPositive, NEW factor, AddTerms(factor)
    PROVE  LET telling == {t \in DOMAIN factor : HoldersOf(docs, t) \notin {{}, DOMAIN docs}}
           IN  /\ DOMAIN doc_score' = DOMAIN doc_score \union UNION {HoldersOf(docs, t) : t \in telling}
               /\ matched' = matched \union telling
<1> DEFINE telling == {t \in DOMAIN factor : IdfOf(t) > 0}
<1>1. telling = {t \in DOMAIN factor : HoldersOf(docs, t) \notin {{}, DOMAIN docs}}
  BY TermTells
<1>2. /\ DOMAIN doc_score' = DOMAIN doc_score \union UNION {ToSet(IdsOf(t)) : t \in telling}
      /\ matched' = matched \union telling
  BY DEF AddTerms
<1>3. \A t \in telling : ToSet(IdsOf(t)) = HoldersOf(docs, t)
  BY HoldersCounted
<1> HIDE DEF telling
<1>4. {ToSet(IdsOf(t)) : t \in telling} = {HoldersOf(docs, t) : t \in telling}
  BY <1>3
<1> QED
  BY <1>1, <1>2, <1>4

\* The lengths of the documents, and their sum.
LEMMA LengthsCounted ==
    ASSUME TextsAreLists(docs), index = IndexOf(docs)
    PROVE  /\ DOMAIN index.lengths = DOMAIN docs /\ IsFiniteSet(DOMAIN docs)
           /\ \A d \in DOMAIN docs : /\ index.lengths[d] \in Nat
                                     /\ index.lengths[d] = 0 => ToSet(Tokens(docs[d])) = {}
           /\ SumFunction(index.lengths) \in Nat
           /\ \A d \in DOMAIN docs : index.lengths[d] <= SumFunction(index.lengths)
<1> DEFINE lengths == index.lengths
<1>1. DOMAIN docs = 1 .. Len(docs) /\ Len(docs) \in Nat
  BY ListsHaveLengths DEF TextsAreLists
<1>2. DOMAIN lengths = DOMAIN docs /\ \A d \in DOMAIN docs : lengths[d] = Len(Tokens(docs[d]))
  BY DEF IndexOf
<1> HIDE DEF lengths
<1>3. ASSUME NEW d \in DOMAIN docs
      PROVE  lengths[d] \in Nat /\ (lengths[d] = 0 => ToSet(Tokens(docs[d])) = {})
  <2> DEFINE tokens == Tokens(docs[d])
  <2>1. IsList(tokens)
    BY TokensAreList DEF TextsAreLists
  <2> HIDE DEF tokens
  <2>2. Len(tokens) \in Nat /\ DOMAIN tokens = 1 .. Len(tokens)
    BY <2>1, ListsHaveLengths
  <2>3. Len(tokens) = 0 => ToSet(tokens) = {}
    BY <2>2 DEF ToSet
  <2> QED
    BY <1>2, <2>2, <2>3 DEF tokens
<1>4. IsFiniteSet(DOMAIN lengths) /\ \A e \in DOMAIN lengths : lengths[e] \in Nat
  BY <1>1, <1>2, <1>3, FS_Interval
<1>5. SumFunction(lengths) \in Nat /\ \A d \in DOMAIN lengths : lengths[d] <= SumFunction(lengths)
  BY <1>4, SumAtLeast
<1> QED
  BY <1>2, <1>3, <1>4, <1>5 DEF lengths

\* Documents without tokens hold no words.
LEMMA NothingHeld ==
    ASSUME TextsAreLists(docs), index = IndexOf(docs), N = 0 \/ TotalLength = 0, NEW w
    PROVE  HoldersOf(docs, w) = {}
<1>1. ASSUME NEW d \in DOMAIN docs PROVE ToSet(Tokens(docs[d])) = {}
  <2>1. DOMAIN docs = 1 .. Len(docs) /\ Len(docs) \in Nat
    BY ListsHaveLengths DEF TextsAreLists
  <2>2. N # 0
    BY <2>1 DEF N
  <2>3. SumFunction(index.lengths) = 0
    BY <2>2 DEF TotalLength
  <2>4. index.lengths[d] \in Nat /\ index.lengths[d] <= SumFunction(index.lengths)
    BY LengthsCounted
  <2>5. index.lengths[d] = 0
    BY ONLY <2>3, <2>4
  <2> QED
    BY <2>5, LengthsCounted
<1> QED
  BY <1>1 DEF HoldersOf

-----------------------------------------------------------------------------
(***************************************************************************)
(* A word that has been looked up has its holders among the documents      *)
(* found, and no later step of the request loses them.                     *)
(***************************************************************************)
HeldStands(p, ds, q, m, ws, scored) ==
    /\ p = "words" => AreFound(ds, ToSet(Tokens(q)) \ ws, scored)
    /\ (p \in {"rank", "answer", "more", "end"} /\ ~m.phrase) =>
          AreFound(ds, ToSet(Tokens(q)), scored)

HeldInvariant == HeldStands(pc, docs, query, mode, words, DOMAIN doc_score)

LEMMA BeginHeld ==
    ASSUME Collected, NEW q, NEW m \in AnyMode, NEW lim, NEW off, Begin(q, m, lim, off)
    PROVE  HeldInvariant'
<1>1. /\ query' = q /\ mode' = [m EXCEPT !.max_edits = Clamp(m.max_edits, 0, 3)]
      /\ words' = ToSet(Tokens(q)) /\ docs' = docs /\ index' = index
      /\ pc' = IF m.phrase THEN "phrase"
               ELSE IF N = 0 \/ TotalLength = 0 THEN "answer" ELSE "words"
  BY DEF Begin, collection
<1>2. mode'.phrase = m.phrase
  BY <1>1 DEF AnyMode
<1>3. CASE pc' = "phrase"
  BY <1>3 DEF HeldInvariant, HeldStands
<1>4. CASE pc' = "words"
  BY <1>1, <1>4 DEF HeldInvariant, HeldStands, AreFound
<1>5. CASE pc' = "answer" /\ (N = 0 \/ TotalLength = 0)
  <2>1. \A w : HoldersOf(docs, w) = {}
    BY <1>5, NothingHeld DEF Collected
  <2>2. AreFound(docs', ToSet(Tokens(query')), DOMAIN doc_score')
    BY <1>1, <2>1 DEF AreFound
  <2> QED
    BY <1>5, <2>2 DEF HeldInvariant, HeldStands
<1> QED
  BY <1>1, <1>3, <1>4, <1>5

LEMMA WordHeld ==
    ASSUME Collected, HeldInvariant, IdfIsPositive,
           NEW w \in words, ExactWord(w) \/ PartialWord(w) \/ OtherWord(w)
    PROVE  HeldInvariant'
<1>1. /\ pc = "words" /\ words' = words \ {w}
      /\ UNCHANGED <<pc, docs, index, query, mode>>
  BY DEF ExactWord, PartialWord, OtherWord, Taken, collection, request
<1>2. AreFound(docs, ToSet(Tokens(query)) \ words, DOMAIN doc_score)
  BY <1>1 DEF HeldInvariant, HeldStands
<1>3. TextsAreLists(docs) /\ index = IndexOf(docs)
  BY DEF Collected
<1>4. DOMAIN doc_score \subseteq DOMAIN doc_score'
  <2>1. ASSUME NEW factor, AddTerms(factor) PROVE DOMAIN doc_score \subseteq DOMAIN doc_score'
    BY <1>3, <2>1, TermsAdd
  <2> QED
    BY <2>1 DEF ExactWord, PartialWord, OtherWord
<1>5. HoldersOf(docs, w) # DOMAIN docs => HoldersOf(docs, w) \subseteq DOMAIN doc_score'
  <2>1. CASE ExactWord(w)
    <3> DEFINE factor == [t \in {w} |-> 100]
               telling == {t \in DOMAIN factor : HoldersOf(docs, t) \notin {{}, DOMAIN docs}}
    <3>1. AddTerms(factor)
      BY <2>1 DEF ExactWord
    <3>2. DOMAIN factor = {w}
      OBVIOUS
    <3> HIDE DEF factor
    <3>3. DOMAIN doc_score' = DOMAIN doc_score \union UNION {HoldersOf(docs, t) : t \in telling}
      BY <1>3, <3>1, TermsAdd
    <3>4. HoldersOf(docs, w) = {} \/ HoldersOf(docs, w) = DOMAIN docs \/ w \in telling
      BY <3>2
    <3> HIDE DEF telling
    <3> QED
      BY <3>3, <3>4
  <2>2. CASE w \notin Vocabulary
    <3>1. HoldersOf(docs, w) = {}
      BY <1>3, <2>2, HoldersCounted
    <3> QED
      BY <3>1
  <2>3. ExactWord(w) \/ w \notin Vocabulary
    BY DEF PartialWord, OtherWord
  <2> QED
    BY <2>1, <2>2, <2>3
<1>6. AreFound(docs, ToSet(Tokens(query)) \ words', DOMAIN doc_score')
  BY <1>1, <1>2, <1>4, <1>5 DEF AreFound
<1> QED
  BY <1>1, <1>6 DEF HeldInvariant, HeldStands

LEMMA WholeHeld ==
    ASSUME Collected, HeldInvariant, IdfIsPositive, WholeQuery
    PROVE  HeldInvariant'
<1>1. /\ pc = "words" /\ words = {} /\ pc' = "rank"
      /\ UNCHANGED <<docs, index, query, mode>>
  BY DEF WholeQuery, collection, request
<1>2. AreFound(docs, ToSet(Tokens(query)), DOMAIN doc_score)
  BY <1>1 DEF HeldInvariant, HeldStands
<1>3. DOMAIN doc_score \subseteq DOMAIN doc_score'
  <2>1. ASSUME NEW factor, AddTerms(factor) PROVE DOMAIN doc_score \subseteq DOMAIN doc_score'
    BY <2>1, TermsAdd DEF Collected
  <2>2. doc_score = << >> => DOMAIN doc_score = {}
    BY EmptySeq
  <2> QED
    BY <2>1, <2>2 DEF WholeQuery
<1>4. AreFound(docs, ToSet(Tokens(query)), DOMAIN doc_score')
  BY <1>2, <1>3 DEF AreFound
<1> QED
  BY <1>1, <1>4 DEF HeldInvariant, HeldStands

LEMMA SearchHeld ==
    ASSUME SearchInvariant, HeldInvariant, IdfIsPositive, Next
    PROVE  HeldInvariant'
<1>1. Collected /\ Requested
  BY DEF SearchInvariant
<1>2. CASE \E q \in Queries, m \in Modes, lim \in Limits : Ask(q, m, lim)
  BY <1>1, <1>2, BeginHeld, ModeAssumption DEF Ask, AnyMode
<1>3. CASE AskNextPage
  BY <1>1, <1>3, BeginHeld DEF AskNextPage, Requested
<1>4. CASE PhraseQuery
  <2>1. mode.phrase /\ pc' = "answer" /\ mode' = mode
    BY <1>4 DEF PhraseQuery, request, SearchInvariant, PhraseStands
  <2> QED
    BY <2>1 DEF HeldInvariant, HeldStands
<1>5. CASE \E w \in words : ExactWord(w) \/ PartialWord(w) \/ OtherWord(w)
  BY <1>1, <1>5, WordHeld
<1>6. CASE WholeQuery
  BY <1>1, <1>6, WholeHeld
<1>7. CASE Rank \/ Answer
  <2>1. /\ UNCHANGED <<docs, query, mode, words, doc_score>>
        /\ pc \in {"rank", "answer"} /\ pc' \in {"answer", "more", "end"}
    BY <1>7 DEF Rank, Answer, collection, request
  <2> QED
    BY <2>1 DEF HeldInvariant, HeldStands
<1>8. CASE Close
  BY <1>8 DEF Close, HeldInvariant, HeldStands
<1> QED
  BY <1>2, <1>3, <1>4, <1>5, <1>6, <1>7, <1>8 DEF Next, Step

LEMMA RequestKeepsHeld ==
    ASSUME HandlersInvariant, HandlersInvariant', SearchInvariant, HeldInvariant, IdfIsPositive,
           HandlersNext
    PROVE  HeldInvariant'
<1>1. CASE Searching
  BY <1>1, SearchHeld DEF Searching
<1>2. CASE UNCHANGED vars
  BY <1>2 DEF HeldInvariant, vars, collection, request
<1>3. CASE pc = "idle" /\ \E cs : Install(cs)
  BY <1>3 DEF Install, search, HeldInvariant, HeldStands
<1> QED
  BY <1>1, <1>2, <1>3, RequestsSeen

\* process_one_query: a document that holds a word of the query is found, unless
\* all documents hold that word and it has no idf; for any collection, query,
\* mode and order of the query's words.
THEOREM HeldWordsFound ==
    IdfIsPositive => (HandlersSpec => []HeldWordIsFound)
<1> SUFFICES ASSUME IdfIsPositive PROVE HandlersSpec => []HeldWordIsFound
  OBVIOUS
<1>1. HandlersInit => HeldInvariant
  BY DEF HandlersInit, Init, HeldInvariant, HeldStands
<1>2. HandlersInvariant /\ HandlersInvariant' /\ SearchInvariant /\ HeldInvariant
      /\ [HandlersNext]_<<vars, handlerVars>> => HeldInvariant'
  <2>1. ASSUME HandlersInvariant, HandlersInvariant', SearchInvariant, HeldInvariant, HandlersNext
        PROVE  HeldInvariant'
    BY <2>1, RequestKeepsHeld
  <2>2. ASSUME HeldInvariant, UNCHANGED <<vars, handlerVars>> PROVE HeldInvariant'
    BY <2>2 DEF HeldInvariant, vars, collection, request
  <2> QED
    BY <2>1, <2>2
<1>3. HeldInvariant => HeldWordIsFound
  BY DEF HeldInvariant, HeldStands, AreFound, HoldersOf, HeldWordIsFound, Answered,
         QueryTokens, TokensOf
<1> QED
  BY <1>1, <1>2, <1>3, SearchInvariantHolds, PTL DEF HandlersSpec

-----------------------------------------------------------------------------
(***************************************************************************)
(* The ranking: every document found has a place of its own.               *)
(***************************************************************************)
AheadIn(score, d, e) == score[d] > score[e] \/ (score[d] = score[e] /\ d < e)
PlaceIn(score, d) == 1 + Cardinality({e \in DOMAIN score : AheadIn(score, e, d)})
RankingOf(score) ==
    [n \in 1 .. Cardinality(DOMAIN score) |-> CHOOSE d \in DOMAIN score : PlaceIn(score, d) = n]

LEMMA PlacesDiffer ==
    ASSUME NEW score, IsFiniteSet(DOMAIN score), DOMAIN score \subseteq Int,
           \A d \in DOMAIN score : score[d] \in Int,
           NEW d \in DOMAIN score, NEW e \in DOMAIN score, AheadIn(score, d, e)
    PROVE  PlaceIn(score, d) \in Nat /\ PlaceIn(score, e) \in Nat /\ PlaceIn(score, d) < PlaceIn(score, e)
<1> DEFINE Before(x) == {y \in DOMAIN score : AheadIn(score, y, x)}
<1>1. ASSUME NEW x \in DOMAIN score
      PROVE  IsFiniteSet(Before(x)) /\ Cardinality(Before(x)) \in Nat
  <2>1. Before(x) \in SUBSET DOMAIN score
    OBVIOUS
  <2> HIDE DEF Before
  <2> QED
    BY <2>1, FS_Subset, FS_CardinalityType
<1>2. Before(d) \subseteq Before(e)
  <2> SUFFICES ASSUME NEW y \in DOMAIN score, AheadIn(score, y, d) PROVE AheadIn(score, y, e)
    OBVIOUS
  <2>1. /\ score[y] \in Int /\ score[d] \in Int /\ score[e] \in Int
        /\ y \in Int /\ d \in Int /\ e \in Int
    OBVIOUS
  <2> QED
    BY ONLY <2>1, AheadIn(score, y, d), AheadIn(score, d, e) DEF AheadIn
<1>3. d \in Before(e) /\ d \notin Before(d)
  <2>1. score[d] \in Int /\ d \in Int
    OBVIOUS
  <2>2. ~AheadIn(score, d, d)
    BY ONLY <2>1 DEF AheadIn
  <2> QED
    BY <2>2
<1>4. PlaceIn(score, d) = 1 + Cardinality(Before(d)) /\ PlaceIn(score, e) = 1 + Cardinality(Before(e))
  BY DEF PlaceIn
<1> HIDE DEF Before
<1>5. Cardinality(Before(d)) <= Cardinality(Before(e)) /\ Cardinality(Before(d)) # Cardinality(Before(e))
  <2>1. Before(d) \in SUBSET Before(e) /\ Before(d) # Before(e)
    BY <1>2, <1>3
  <2> QED
    BY <1>1, <2>1, FS_Subset
<1>6. Cardinality(Before(d)) \in Nat /\ Cardinality(Before(e)) \in Nat
  BY <1>1
<1> QED
  BY ONLY <1>4, <1>5, <1>6

LEMMA RankingFound ==
    ASSUME NEW score, IsFiniteSet(DOMAIN score), DOMAIN score \subseteq Int,
           \A d \in DOMAIN score : score[d] \in Int
    PROVE  LET s == RankingOf(score)
           IN  /\ s \in Seq(DOMAIN score) /\ Len(s) = Cardinality(DOMAIN score)
               /\ \A i, k \in DOMAIN s : s[i] = s[k] => i = k
               /\ ToSet(s) = DOMAIN score
<1> DEFINE D == DOMAIN score
           n == Cardinality(D)
           place == [d \in D |-> PlaceIn(score, d)]
           s == RankingOf(score)
<1>1. n \in Nat
  BY FS_CardinalityType
<1>2. ASSUME NEW d \in D PROVE PlaceIn(score, d) \in 1 .. n
  <2> DEFINE Before == {e \in D : AheadIn(score, e, d)}
  <2>1. score[d] \in Int /\ d \in Int
    OBVIOUS
  <2>2. ~AheadIn(score, d, d)
    BY ONLY <2>1 DEF AheadIn
  <2>3. Before \in SUBSET D /\ Before # D
    BY <2>2
  <2>4. PlaceIn(score, d) = 1 + Cardinality(Before)
    BY DEF PlaceIn
  <2> HIDE DEF Before
  <2>5. Cardinality(Before) \in Nat /\ Cardinality(Before) <= n /\ Cardinality(Before) # n
    BY <2>3, FS_Subset, FS_CardinalityType
  <2> QED
    BY ONLY <1>1, <2>4, <2>5
<1>3. ASSUME NEW d \in D, NEW e \in D, PlaceIn(score, d) = PlaceIn(score, e) PROVE d = e
  <2>1. ASSUME d # e PROVE AheadIn(score, d, e) \/ AheadIn(score, e, d)
    <3>1. score[d] \in Int /\ score[e] \in Int /\ d \in Int /\ e \in Int
      OBVIOUS
    <3> QED
      BY ONLY <2>1, <3>1 DEF AheadIn
  <2>2. ASSUME AheadIn(score, d, e) PROVE FALSE
    <3>1. PlaceIn(score, d) \in Nat /\ PlaceIn(score, d) < PlaceIn(score, e)
      BY <2>2, PlacesDiffer
    <3> QED
      BY ONLY <1>3, <3>1
  <2>3. ASSUME AheadIn(score, e, d) PROVE FALSE
    <3>1. PlaceIn(score, e) \in Nat /\ PlaceIn(score, e) < PlaceIn(score, d)
      BY <2>3, PlacesDiffer
    <3> QED
      BY ONLY <1>3, <3>1
  <2> QED
    BY <2>1, <2>2, <2>3
<1>4. \A k \in 1 .. n : \E d \in D : PlaceIn(score, d) = k
  <2>1. place \in [D -> 1 .. n] /\ \A d, e \in D : place[d] = place[e] => d = e
    BY <1>2, <1>3
  <2>2. \A d \in D : place[d] = PlaceIn(score, d)
    OBVIOUS
  <2> HIDE DEF place
  <2>3. place \in Injection(D, 1 .. n)
    BY <2>1 DEF Injection, IsInjective
  <2>4. IsFiniteSet(1 .. n) /\ Cardinality(1 .. n) = IF 1 > n THEN 0 ELSE n - 1 + 1
    BY <1>1, FS_Interval
  <2>5. (IF 1 > n THEN 0 ELSE n - 1 + 1) = n
    BY ONLY <1>1
  <2>6. Cardinality(D) = Cardinality(1 .. n)
    BY <2>4, <2>5
  <2> HIDE DEF n, D
  <2>7. place \in Surjection(D, 1 .. n)
    BY <2>3, <2>4, <2>6, FS_Injection
  <2> QED
    BY <2>2, <2>7 DEF Surjection
<1>5. s = [k \in 1 .. n |-> CHOOSE d \in D : PlaceIn(score, d) = k]
  BY DEF RankingOf
<1> HIDE DEF s, n
<1>6. \A k \in 1 .. n : s[k] \in D /\ PlaceIn(score, s[k]) = k
  BY <1>4, <1>5
<1>7. s \in [1 .. n -> D]
  BY <1>5, <1>6
<1>8. s \in Seq(D) /\ Len(s) = n /\ DOMAIN s = 1 .. n
  <2>1. s \in Seq(D)
    BY <1>1, <1>7, IsASeq
  <2>2. Len(s) \in Nat /\ DOMAIN s = 1 .. Len(s) /\ DOMAIN s = 1 .. n
    BY <1>7, <2>1, LenProperties
  <2> QED
    BY <1>1, <2>1, <2>2, SameInterval
<1>9. \A d \in D : \E k \in 1 .. n : s[k] = d
  <2>1. ASSUME NEW d \in D PROVE s[PlaceIn(score, d)] = d
    BY <1>2, <1>3, <1>6
  <2> QED
    BY <1>2, <2>1
<1>10. ToSet(s) = D
  BY <1>6, <1>8, <1>9 DEF ToSet
<1>11. \A i, k \in DOMAIN s : s[i] = s[k] => i = k
  BY <1>6, <1>8
<1> QED
  BY <1>8, <1>10, <1>11 DEF s, n

-----------------------------------------------------------------------------
(***************************************************************************)
(* Distances and scores are numbers.                                       *)
(***************************************************************************)
\* DistanceTable of words of lengths n and m.
Tabled(t, n, m, x, y) ==
    [c \in (0 .. n) \X (0 .. m) |->
        IF c[1] = 0 THEN c[2]
        ELSE IF c[2] = 0 THEN c[1]
        ELSE Cell(t[<<c[1], c[2] - 1>>], t[<<c[1] - 1, c[2]>>], t[<<c[1] - 1, c[2] - 1>>],
                  Cost(x[c[1]], y[c[2]]))]

\* One row of it from the row above: the k-th, or the first when k is 0.
RowStep(k, above, m, x, y) ==
    [q \in 1 .. m |-> [left \in Int |-> Cell(left, above[q], above[q - 1], Cost(x[k], y[q]))]]

LEMMA RowTaken ==
    ASSUME NEW m \in Nat, NEW k \in Nat, NEW above \in [0 .. m -> Int], NEW x, NEW y
    PROVE  \E row : StepByStepFrom(row, m, Int, k, RowStep(k, above, m, x, y))
<1> DEFINE step == RowStep(k, above, m, x, y)
<1>1. ASSUME NEW q \in 1 .. m, NEW left \in Int
      PROVE  Cell(left, above[q], above[q - 1], Cost(x[k], y[q])) \in Int
  <2>1. q \in 0 .. m /\ q - 1 \in 0 .. m
    OBVIOUS
  <2>2. above[q] \in Int /\ above[q - 1] \in Int
    BY <2>1
  <2> QED
    BY <2>2 DEF Cell, Smaller, Cost
<1>2. step \in StepsOn(m, Int)
  BY <1>1 DEF RowStep, StepsOn
<1> HIDE DEF step
<1>3. \E row : StepByStepFrom(row, m, Int, k, step)
  <2>1. k \in Int
    OBVIOUS
  <2> QED
    BY <1>2, <2>1, StepByStep
<1> QED
  BY <1>3 DEF step

LEMMA TableTaken ==
    ASSUME NEW n \in Nat, NEW m \in Nat, NEW x, NEW y
    PROVE  \E t : t = Tabled(t, n, m, x, y)
<1> DEFINE Rows == [0 .. m -> Int]
           Right(row, k, above) == StepByStepFrom(row, m, Int, k, RowStep(k, above, m, x, y))
           step == [k \in 1 .. n |-> [above \in Rows |-> CHOOSE row : Right(row, k, above)]]
           first == [q \in 0 .. m |-> q]
<1>1. ASSUME NEW k \in 1 .. n, NEW above \in Rows
      PROVE  LET row == CHOOSE r : Right(r, k, above) IN row \in Rows /\ Right(row, k, above)
  <2> DEFINE row == CHOOSE r : Right(r, k, above)
  <2>1. \E r : Right(r, k, above)
    BY RowTaken
  <2>2. Right(row, k, above)
    <3> HIDE DEF Right
    <3> QED
      BY <2>1
  <2> HIDE DEF row
  <2> QED
    BY <2>2 DEF StepByStepFrom
<1>2. first \in Rows
  OBVIOUS
<1>3. step \in StepsOn(n, Rows)
  <2> HIDE DEF Rows, Right
  <2> QED
    BY <1>1 DEF StepsOn
<1>4. PICK rows : StepByStepFrom(rows, n, Rows, first, step)
  <2> HIDE DEF Rows, step, first
  <2> QED
    BY <1>2, <1>3, StepByStep
<1>5. /\ rows \in [0 .. n -> Rows] /\ rows[0] = first
      /\ \A k \in 1 .. n : rows[k] = step[k][rows[k - 1]]
  <2> HIDE DEF Rows, step, first
  <2> QED
    BY <1>4 DEF StepByStepFrom
<1> DEFINE t == [c \in (0 .. n) \X (0 .. m) |-> rows[c[1]][c[2]]]
<1>6. ASSUME NEW k \in 1 .. n, NEW q \in 1 .. m
      PROVE  /\ t[<<k, q>>] = Cell(t[<<k, q - 1>>], t[<<k - 1, q>>], t[<<k - 1, q - 1>>],
                                   Cost(x[k], y[q]))
             /\ t[<<k, 0>>] = k
  <2> DEFINE above == rows[k - 1]
             row == rows[k]
  <2>1. k \in 0 .. n /\ k - 1 \in 0 .. n /\ q \in 0 .. m /\ q - 1 \in 0 .. m /\ 0 \in 0 .. m
    OBVIOUS
  <2>2. above \in Rows /\ row \in Rows
    BY <1>5, <2>1
  <2>3. row = CHOOSE r : Right(r, k, above)
    <3> HIDE DEF Rows, Right
    <3> QED
      BY <1>5, <2>2
  <2> HIDE DEF above, row
  <2>4. Right(row, k, above)
    BY <1>1, <2>2, <2>3
  <2>5. row[0] = k /\ row[q] = RowStep(k, above, m, x, y)[q][row[q - 1]]
    BY <2>4 DEF StepByStepFrom
  <2>6. row[q - 1] \in Int
    BY <2>1, <2>2
  <2>7. row[q] = Cell(row[q - 1], above[q], above[q - 1], Cost(x[k], y[q]))
    BY <2>5, <2>6 DEF RowStep
  <2>8. /\ t[<<k, q>>] = row[q] /\ t[<<k, q - 1>>] = row[q - 1] /\ t[<<k, 0>>] = row[0]
        /\ t[<<k - 1, q>>] = above[q] /\ t[<<k - 1, q - 1>>] = above[q - 1]
    BY <2>1 DEF row, above
  <2> QED
    BY ONLY <2>5, <2>7, <2>8
<1>7. \A q \in 0 .. m : t[<<0, q>>] = q
  BY <1>5
<1>8. \A k \in 0 .. n : t[<<k, 0>>] = k
  <2> SUFFICES ASSUME NEW k \in 0 .. n PROVE t[<<k, 0>>] = k
    OBVIOUS
  <2>1. CASE k = 0
    <3>1. 0 \in 0 .. m
      OBVIOUS
    <3> QED
      BY <1>7, <2>1, <3>1
  <2>2. CASE k \in 1 .. n
    <3>1. StepByStepFrom(rows[k], m, Int, k, RowStep(k, rows[k - 1], m, x, y))
      <4>1. k - 1 \in 0 .. n
        BY <2>2
      <4>2. rows[k - 1] \in Rows
        BY <1>5, <4>1
      <4>3. rows[k] = CHOOSE r : Right(r, k, rows[k - 1])
        <5> HIDE DEF Rows, Right
        <5> QED
          BY <1>5, <2>2, <4>2
      <4> QED
        BY <1>1, <2>2, <4>2, <4>3
    <3>2. rows[k][0] = k
      BY <3>1 DEF StepByStepFrom
    <3> QED
      BY <3>2
  <2> QED
    BY <2>1, <2>2
<1>9. t = [c \in (0 .. n) \X (0 .. m) |-> t[c]]
  OBVIOUS
<1> HIDE DEF t
<1>10. ASSUME NEW c \in (0 .. n) \X (0 .. m)
       PROVE  t[c] = IF c[1] = 0 THEN c[2]
                     ELSE IF c[2] = 0 THEN c[1]
                     ELSE Cell(t[<<c[1], c[2] - 1>>], t[<<c[1] - 1, c[2]>>],
                               t[<<c[1] - 1, c[2] - 1>>], Cost(x[c[1]], y[c[2]]))
  <2>1. PICK k \in 0 .. n, q \in 0 .. m : c = <<k, q>>
    OBVIOUS
  <2>2. c[1] = k /\ c[2] = q
    BY <2>1
  <2>3. CASE k = 0
    BY <1>7, <2>1, <2>2, <2>3
  <2>4. CASE k # 0 /\ q = 0
    BY <1>8, <2>1, <2>2, <2>4
  <2>5. CASE k # 0 /\ q # 0
    <3>1. k \in 1 .. n /\ q \in 1 .. m
      BY <2>5
    <3> QED
      <4>1. t[<<k, q>>] = Cell(t[<<k, q - 1>>], t[<<k - 1, q>>], t[<<k - 1, q - 1>>], Cost(x[k], y[q]))
        BY <1>6, <3>1
      <4> QED
        BY <2>1, <2>2, <2>5, <4>1
  <2> QED
    BY <2>3, <2>4, <2>5
<1>11. t = Tabled(t, n, m, x, y)
  BY <1>9, <1>10 DEF Tabled
<1> QED
  BY <1>11

LEMMA DistanceIsInt ==
    ASSUME NEW x, NEW y, Len(x) \in Nat, Len(y) \in Nat
    PROVE  Distance(x, y) \in Int
<1> DEFINE n == Len(x)
           m == Len(y)
           t == CHOOSE f : f = Tabled(f, n, m, x, y)
<1>1. Distance(x, y) = t[<<n, m>>]
  BY DEF Distance, DistanceTable, Tabled
<1>2. t = Tabled(t, n, m, x, y)
  BY TableTaken
<1>0. n \in Nat /\ m \in Nat
  OBVIOUS
<1> HIDE DEF t, n, m
<1> USE <1>0
<1>3. ASSUME NEW k \in 0 .. n, NEW q \in 0 .. m
      PROVE  t[<<k, q>>] = IF k = 0 THEN q
                           ELSE IF q = 0 THEN k
                           ELSE Cell(t[<<k, q - 1>>], t[<<k - 1, q>>], t[<<k - 1, q - 1>>],
                                     Cost(x[k], y[q]))
  <2> DEFINE c == <<k, q>>
  <2>1. c \in (0 .. n) \X (0 .. m) /\ c[1] = k /\ c[2] = q
    OBVIOUS
  <2> HIDE DEF c
  <2>2. t[c] = IF c[1] = 0 THEN c[2]
               ELSE IF c[2] = 0 THEN c[1]
               ELSE Cell(t[<<c[1], c[2] - 1>>], t[<<c[1] - 1, c[2]>>],
                         t[<<c[1] - 1, c[2] - 1>>], Cost(x[c[1]], y[c[2]]))
    BY <1>2, <2>1 DEF Tabled
  <2> QED
    BY <2>1, <2>2 DEF c
<1> DEFINE G == {k \in Nat : k <= n => \A q \in 0 .. m : t[<<k, q>>] \in Int}
<1>4. 0 \in G
  <2>1. ASSUME NEW q \in 0 .. m PROVE t[<<0, q>>] \in Int
    <3>1. 0 \in 0 .. n
      OBVIOUS
    <3>2. t[<<0, q>>] = q
      BY <1>3, <3>1
    <3> QED
      BY <3>2
  <2> QED
    BY <2>1
<1>5. ASSUME NEW k \in Nat, k \in G PROVE k + 1 \in G
  <2>1. ASSUME k + 1 <= n, NEW q \in 0 .. m PROVE t[<<k + 1, q>>] \in Int
    <3>1. k <= n /\ k + 1 \in 0 .. n /\ k \in 0 .. n /\ k + 1 # 0 /\ (k + 1) - 1 = k
      BY <2>1
    <3>2. \A p \in 0 .. m : t[<<k, p>>] \in Int
      BY <1>5, <3>1
    <3> DEFINE H == {p \in Nat : p <= m => t[<<k + 1, p>>] \in Int}
    <3>3. 0 \in H
      <4>1. 0 \in 0 .. m
        OBVIOUS
      <4>2. t[<<k + 1, 0>>] = k + 1
        BY <1>3, <3>1, <4>1
      <4> QED
        BY <4>2
    <3>4. ASSUME NEW p \in Nat, p \in H PROVE p + 1 \in H
      <4>1. ASSUME p + 1 <= m PROVE t[<<k + 1, p + 1>>] \in Int
        <5>1. p <= m /\ p + 1 \in 0 .. m /\ p \in 0 .. m /\ p + 1 # 0 /\ (p + 1) - 1 = p
          BY <4>1
        <5>2. t[<<k + 1, p>>] \in Int /\ t[<<k, p + 1>>] \in Int /\ t[<<k, p>>] \in Int
          BY <3>2, <3>4, <5>1
        <5>3. t[<<k + 1, p + 1>>] =
                 Cell(t[<<k + 1, p>>], t[<<k, p + 1>>], t[<<k, p>>], Cost(x[k + 1], y[p + 1]))
          BY <1>3, <3>1, <5>1
        <5> QED
          BY ONLY <5>2, <5>3 DEF Cell, Smaller, Cost
      <4> QED
        BY <4>1
    <3> HIDE DEF H
    <3>5. q \in H
      BY <3>3, <3>4, FromZero
    <3>6. q <= m
      OBVIOUS
    <3> QED
      BY <3>5, <3>6 DEF H
  <2> QED
    BY <2>1
<1> HIDE DEF G
<1>6. n \in G /\ n <= n /\ m \in 0 .. m
  BY <1>4, <1>5, FromZero
<1>7. t[<<n, m>>] \in Int
  BY <1>6 DEF G
<1> QED
  BY <1>1, <1>7

-----------------------------------------------------------------------------
(***************************************************************************)
(* The tokens of a query are words, so their distances and what a token    *)
(* adds to the score of a document are numbers.                            *)
(***************************************************************************)
LEMMA WordsOfText ==
    ASSUME NEW text, IsList(text), NEW w \in ToSet(SplitWords(text))
    PROVE  IsList(w) /\ w # << >>
<1> DEFINE InWord(i) == i \in DOMAIN text /\ text[i] # Blank
           ends == {i \in DOMAIN text : InWord(i) /\ ~InWord(i + 1)}
           Begins(s, e) == ~InWord(s - 1) /\ \A k \in s .. e : InWord(k)
           Start(e) == CHOOSE s \in 1 .. e : Begins(s, e)
           value == [e \in ends |-> SubSeq(text, Start(e), e)]
<1>1. SplitWords(text) = InOrder(value, Len(text))
  BY DEF SplitWords, RunsBetween
<1>2. Len(text) \in Nat /\ DOMAIN text = 1 .. Len(text) /\ text \in Seq(ToSet(text))
  BY ListsHaveLengths DEF IsList
<1>3. ASSUME NEW e \in ends PROVE Start(e) \in 1 .. e
  <2> DEFINE G == {n \in Nat : n < e => \/ \E s \in 1 .. e : Begins(s, e)
                                       \/ \A k \in e - n .. e : InWord(k)}
  <2>1. e \in 1 .. Len(text) /\ e \in Nat /\ InWord(e)
    BY <1>2
  <2>2. ~InWord(0)
    BY <1>2
  <2> HIDE DEF InWord
  <2>3. 0 \in G
    <3>1. \A k \in e - 0 .. e : k = e
      BY <2>1
    <3> QED
      BY <2>1, <3>1
  <2>4. ASSUME NEW n \in Nat, n \in G PROVE n + 1 \in G
    <3>1. ASSUME n + 1 < e, ~ \E s \in 1 .. e : Begins(s, e)
          PROVE  \A k \in e - (n + 1) .. e : InWord(k)
      <4>1. n < e /\ e - n \in 1 .. e /\ (e - n) - 1 = e - (n + 1)
        BY <2>1, <3>1
      <4>2. \A k \in e - n .. e : InWord(k)
        BY <2>4, <3>1, <4>1
      <4>3. InWord(e - (n + 1))
        BY <3>1, <4>1, <4>2
      <4>4. \A k \in e - (n + 1) .. e : k = e - (n + 1) \/ k \in e - n .. e
        BY <2>1
      <4> QED
        BY <4>2, <4>3, <4>4
    <3> QED
      BY <3>1
  <2> HIDE DEF G
  <2>5. e - 1 \in G /\ e - 1 < e /\ e - (e - 1) = 1 /\ 1 - 1 = 0 /\ 1 \in 1 .. e
    <3>1. e - 1 \in Nat /\ e - 1 < e /\ e - (e - 1) = 1 /\ 1 - 1 = 0 /\ 1 \in 1 .. e
      BY <2>1
    <3> QED
      BY <2>3, <2>4, <3>1, FromZero
  <2>6. (\E s \in 1 .. e : Begins(s, e)) \/ \A k \in 1 .. e : InWord(k)
    BY <2>5 DEF G
  <2>7. \E s \in 1 .. e : Begins(s, e)
    BY <2>2, <2>5, <2>6
  <2> HIDE DEF Begins
  <2> QED
    BY <2>7
<1>4. ASSUME NEW e \in ends PROVE IsList(value[e]) /\ value[e] # << >>
  <2> DEFINE s == Start(e)
  <2>1. s \in 1 .. e /\ e \in 1 .. Len(text)
    BY <1>2, <1>3
  <2>2. value[e] = SubSeq(text, s, e)
    OBVIOUS
  <2> HIDE DEF s, value
  <2>3. s \in 1 .. Len(text) + 1 /\ e \in s - 1 .. Len(text) /\ e - s + 1 # 0
    BY <1>2, <2>1
  <2>4. /\ SubSeq(text, s, e) \in Seq(ToSet(text)) /\ Len(SubSeq(text, s, e)) = e - s + 1
    BY <1>2, <2>3, SubSeqProperties
  <2> QED
    BY <2>2, <2>3, <2>4, SeqIsList, EmptySeq
<1>5. DOMAIN value \subseteq 1 .. Len(text)
  BY <1>2
<1>6. DOMAIN value = ends
  OBVIOUS
<1> HIDE DEF value, ends
<1>7. ToSet(SplitWords(text)) = {value[e] : e \in DOMAIN value}
  <2> DEFINE T == {value[e] : e \in DOMAIN value}
  <2>1. \A e \in DOMAIN value : value[e] \in T
    OBVIOUS
  <2> HIDE DEF T
  <2>2. ToSet(InOrder(value, Len(text))) = {value[e] : e \in DOMAIN value}
    BY <1>2, <1>5, <2>1, InOrderHasAll
  <2> QED
    BY <1>1, <2>2
<1> QED
  BY <1>4, <1>6, <1>7

\* A token is the key of a word of the text.
LEMMA TokensOfWords ==
    ASSUME NEW text, IsList(text), NEW t \in ToSet(Tokens(text))
    PROVE  \E w \in ToSet(SplitWords(text)) : t = Normalized(w)
<1> DEFINE split == SplitWords(text)
           short == {n \in DOMAIN split : Size(split[n]) <= MaxWordLength}
           value == [n \in {m \in short : Normalized(split[m]) \notin StopWords} |->
                        Normalized(split[n])]
<1>1. Tokens(text) = InOrder(value, Len(split))
  BY DEF Tokens
<1>2. DOMAIN value \subseteq DOMAIN split /\ \A n \in DOMAIN value : value[n] = Normalized(split[n])
  OBVIOUS
<1> HIDE DEF split, value
<1>3. Len(split) \in Nat /\ DOMAIN split = 1 .. Len(split)
  BY TokensAreList, ListsHaveLengths DEF split
<1>4. ToSet(InOrder(value, Len(split))) = {value[n] : n \in DOMAIN value}
  <2> DEFINE T == {value[e] : e \in DOMAIN value}
  <2>1. \A e \in DOMAIN value : value[e] \in T
    OBVIOUS
  <2>2. DOMAIN value \subseteq 1 .. Len(split)
    BY <1>2, <1>3
  <2> HIDE DEF T
  <2> QED
    BY <1>3, <2>1, <2>2, InOrderHasAll
<1>5. PICK n \in DOMAIN value : t = value[n]
  BY <1>1, <1>4
<1>6. split[n] \in ToSet(split)
  BY <1>2, <1>5 DEF ToSet
<1> QED
  BY <1>2, <1>5, <1>6 DEF split

LEMMA TokensAreWords ==
    ASSUME StemsAreLists, NEW text, IsList(text), NEW t \in ToSet(Tokens(text))
    PROVE  IsList(t) /\ Len(t) \in Nat
<1>1. PICK w \in ToSet(SplitWords(text)) : t = Normalized(w)
  BY TokensOfWords
<1>2. IsList(w)
  BY WordsOfText
<1>3. IsList(Lowered(w))
  <2> DEFINE low == Lowered(w)
  <2>1. Len(w) \in Nat /\ DOMAIN w = 1 .. Len(w)
    BY <1>2, ListsHaveLengths
  <2>2. low \in [1 .. Len(w) -> ToSet(low)]
    BY <2>1 DEF Lowered, ToSet
  <2> HIDE DEF low
  <2> QED
    BY <2>1, <2>2, IsASeq DEF IsList, low
<1>4. IsList(t)
  BY <1>1, <1>3 DEF Normalized, StemsAreLists
<1> QED
  BY <1>4, ListsHaveLengths

-----------------------------------------------------------------------------
(***************************************************************************)
(* What a word of the query adds to the scores, from the collection and    *)
(* the request alone.                                                      *)
(***************************************************************************)
IdfIn(ds, ix, t) == Idf(Len(ds), Len(GetWordCount(ix.dict, t)))

ScoreIn(ds, ix, t, entry, factor) ==
    (factor * IdfIn(ds, ix, t) * 22 * entry.count * SumFunction(ix.lengths))
        \div ((10 * entry.count + 3) * SumFunction(ix.lengths)
                + 9 * ix.lengths[entry.doc_id] * Len(ds))

GainIn(ds, ix, t, factor, d) ==
    LET postings == GetWordCount(ix.dict, t)
    IN  SumFunction([i \in PositionsOf(postings, d) |-> ScoreIn(ds, ix, t, postings[i], factor)])

TellingIn(ds, ix, terms) == {t \in terms : IdfIn(ds, ix, t) > 0}

\* The documents that have any of the terms, and what the terms add to one.
FoundBy(ds, ix, factor) ==
    UNION {ToSet(DocsOn(ix, t)) : t \in TellingIn(ds, ix, DOMAIN factor)}

GainBy(ds, ix, factor, d) ==
    SumFunction([t \in TellingIn(ds, ix, DOMAIN factor) |-> GainIn(ds, ix, t, factor[t], d)])

ScoreOr0(score, d) == IF d \in DOMAIN score THEN score[d] ELSE 0

Added(ds, ix, factor, score) ==
    [d \in DOMAIN score \union FoundBy(ds, ix, factor) |->
        ScoreOr0(score, d) + GainBy(ds, ix, factor, d)]

LEMMA TermsAdded ==
    ASSUME NEW factor, AddTerms(factor)
    PROVE  doc_score' = Added(docs, index, factor, doc_score)
  BY DEF AddTerms, Added, FoundBy, GainBy, GainIn, ScoreIn, TellingIn, IdfIn, DocsOn, ScoreOr0,
         IdsOf, Gain, TermScore, IdfOf, N, TotalLength

\* The terms a word of the query is looked up by, with their factors.
TermsWith(ix, w) == {t \in DOMAIN ix.dict : HasSubstring(t, w)}

FactorsOf(ix, m, w) ==
    IF w \in DOMAIN ix.dict THEN [t \in {w} |-> 100]
    ELSE IF m.partial /\ TermsWith(ix, w) # {}
         THEN [t \in TermsWith(ix, w) |-> PartialMatchFactor]
    ELSE IF m.fuzzy /\ m.max_edits > 0
         THEN [t \in SimilarTerms(w, m.max_edits, DOMAIN ix.dict) |-> FuzzyFactor(Distance(w, t))]
    ELSE [t \in {} |-> 0]

LEMMA WordAdds ==
    ASSUME NEW w \in words, ExactWord(w) \/ PartialWord(w) \/ OtherWord(w)
    PROVE  \/ doc_score' = Added(docs, index, FactorsOf(index, mode, w), doc_score)
           \/ doc_score' = doc_score /\ FactorsOf(index, mode, w) = [t \in {} |-> 0]
<1>1. CASE ExactWord(w)
  <2>1. AddTerms([t \in {w} |-> 100])
    BY <1>1 DEF ExactWord
  <2>2. FactorsOf(index, mode, w) = [t \in {w} |-> 100]
    BY <1>1 DEF ExactWord, FactorsOf, Vocabulary
  <2> QED
    BY <2>1, <2>2, TermsAdded
<1>2. CASE PartialWord(w)
  <2>1. AddTerms([t \in Holders(w) |-> PartialMatchFactor])
    BY <1>2 DEF PartialWord
  <2>2. FactorsOf(index, mode, w) = [t \in Holders(w) |-> PartialMatchFactor]
    BY <1>2 DEF PartialWord, FactorsOf, Vocabulary, Holders, TermsWith
  <2> QED
    BY <2>1, <2>2, TermsAdded
<1>3. CASE OtherWord(w)
  <2>1. w \notin DOMAIN index.dict /\ ~(mode.partial /\ TermsWith(index, w) # {})
    BY <1>3 DEF OtherWord, Vocabulary, Holders, TermsWith
  <2>2. CASE mode.fuzzy /\ mode.max_edits > 0
    <3> DEFINE factor == [t \in SimilarTerms(w, mode.max_edits, Vocabulary) |-> FuzzyFactor(Distance(w, t))]
    <3>1. AddTerms(factor)
      BY <1>3, <2>2 DEF OtherWord
    <3>2. FactorsOf(index, mode, w) = factor
      BY <2>1, <2>2 DEF FactorsOf, Vocabulary
    <3> HIDE DEF factor
    <3> QED
      BY <3>1, <3>2, TermsAdded
  <2>3. CASE ~(mode.fuzzy /\ mode.max_edits > 0)
    <3>1. doc_score' = doc_score
      BY <1>3, <2>3 DEF OtherWord
    <3>2. FactorsOf(index, mode, w) = [t \in {} |-> 0]
      BY <2>1, <2>3 DEF FactorsOf
    <3> QED
      BY <3>1, <3>2
  <2> QED
    BY <2>2, <2>3
<1> QED
  BY <1>1, <1>2, <1>3

LEMMA Divided ==
    ASSUME NEW c \in Nat \ {0}, NEW l \in Nat, NEW n \in Nat, NEW t \in Nat \ {0}, NEW p \in Int
    PROVE  p \div ((10 * c + 3) * t + 9 * l * n) \in Int
<1> DEFINE a == 10 * c + 3
           x == a * t
           y == 9 * l * n
<1>1. a \in Nat \ {0}
  OBVIOUS
<1> HIDE DEF a
<1>2. x \in Nat \ {0}
  BY <1>1
<1>3. y \in Nat
  OBVIOUS
<1> HIDE DEF x, y
<1>4. x + y \in Nat \ {0}
  BY ONLY <1>2, <1>3
<1>5. p \div (x + y) \in Int
  BY ONLY <1>4, p \in Int
<1> QED
  BY <1>5 DEF x, y, a

LEMMA GainTyped ==
    ASSUME Collected, IdfIsPositive, TotalLength # 0, NEW t, NEW factor \in Int, NEW d
    PROVE  /\ GainIn(docs, index, t, factor, d) \in Int
           /\ d \notin ToSet(DocsOn(index, t)) => GainIn(docs, index, t, factor, d) = 0
<1> DEFINE postings == GetWordCount(index.dict, t)
           places == PositionsOf(postings, d)
           gains == [i \in places |-> ScoreIn(docs, index, t, postings[i], factor)]
<1>1. GainIn(docs, index, t, factor, d) = SumFunction(gains)
  BY DEF GainIn
<1>2. TextsAreLists(docs) /\ index = IndexOf(docs)
  BY DEF Collected
<1>3. Inverts(index.dict, BagsTo(docs, Len(docs)))
  BY <1>2, IndexInverts
<1>4. postings \in Seq(Posting)
  BY <1>3, EmptyList DEF Inverts, GetWordCount
<1>5. DOMAIN DocsOn(index, t) = DOMAIN postings
      /\ \A i \in DOMAIN postings : DocsOn(index, t)[i] = postings[i].doc_id
  BY DEF DocsOn
<1>6. ToSet(DocsOn(index, t)) = HoldersOf(docs, t)
  BY <1>2, HoldersCounted DEF IdsOf, DocsOn
<1>7. IdfIn(docs, index, t) \in Nat
  BY <1>2, TermTells DEF IdfOf, IdfIn, N
<1>8. Len(docs) \in Nat
  BY <1>2, ListsHaveLengths DEF TextsAreLists
<1> HIDE DEF postings
<1>9. DOMAIN postings = 1 .. Len(postings) /\ Len(postings) \in Nat
  BY <1>4, LenProperties
<1>10. places \subseteq DOMAIN postings
  BY DEF PositionsOf
<1>11. ASSUME NEW i \in places PROVE ScoreIn(docs, index, t, postings[i], factor) \in Int
  <2> DEFINE c == postings[i].count
             l == index.lengths[postings[i].doc_id]
             sum == SumFunction(index.lengths)
             idf == IdfIn(docs, index, t)
             num == Len(docs)
  <2>1. postings[i] \in Posting
    BY <1>4, <1>9, <1>10, ElementOfSeq
  <2>2. c \in Nat \ {0}
    BY <2>1 DEF Posting
  <2>3. postings[i].doc_id \in DOMAIN docs
    BY <1>5, <1>6, <1>10 DEF ToSet, HoldersOf
  <2>4. l \in Nat /\ sum \in Nat \ {0}
    BY <1>2, <2>3, LengthsCounted DEF TotalLength
  <2>5. ScoreIn(docs, index, t, postings[i], factor) =
           (factor * idf * 22 * c * sum) \div ((10 * c + 3) * sum + 9 * l * num)
    BY DEF ScoreIn
  <2>6. idf \in Nat /\ num \in Nat
    BY <1>7, <1>8
  <2> HIDE DEF c, l, sum, idf, num
  <2>7. factor * idf * 22 * c * sum \in Int
    BY <2>2, <2>4, <2>6
  <2>8. (factor * idf * 22 * c * sum) \div ((10 * c + 3) * sum + 9 * l * num) \in Int
    BY ONLY <2>2, <2>4, <2>6, <2>7, Divided
  <2> QED
    BY <2>5, <2>8
<1>12. IsFiniteSet(places)
  <2>1. IsFiniteSet(DOMAIN postings) /\ places \in SUBSET DOMAIN postings
    BY <1>9, <1>10, SizeOfInterval
  <2> HIDE DEF places
  <2> QED
    BY <2>1, FS_Subset
<1> HIDE DEF places
<1>13. DOMAIN gains = places /\ \A i \in places : gains[i] \in Int
  BY <1>11
<1>14. d \notin ToSet(DocsOn(index, t)) => places = {}
  BY <1>5 DEF places, PositionsOf, ToSet
<1> HIDE DEF gains
<1>15. SumFunction(gains) \in Int
  BY <1>12, <1>13, SumIsInt
<1>16. places = {} => SumFunction(gains) = 0
  BY <1>13, SumOfNothing
<1> QED
  BY <1>1, <1>14, <1>15, <1>16

-----------------------------------------------------------------------------
(***************************************************************************)
(* What is added to the scores may be added in any order.                  *)
(***************************************************************************)
LEMMA ImageIsFinite ==
    ASSUME NEW f, IsFiniteSet(DOMAIN f)
    PROVE  IsFiniteSet({f[x] : x \in DOMAIN f})
<1> DEFINE S == DOMAIN f
           T == {f[x] : x \in S}
           g == [x \in S |-> f[x]]
<1>1. g \in Surjection(S, T)
  BY DEF Surjection
<1> QED
  BY <1>1, FS_Surjection

LEMMA VocabularyIsFinite ==
    ASSUME Collected
    PROVE  IsFiniteSet(Vocabulary)
<1> DEFINE held == [d \in DOMAIN docs |-> ToSet(Tokens(docs[d]))]
           all == {held[d] : d \in DOMAIN held}
<1>1. TextsAreLists(docs) /\ index = IndexOf(docs)
  BY DEF Collected
<1>2. IsFiniteSet(DOMAIN held)
  <2>1. DOMAIN held = 1 .. Len(docs) /\ Len(docs) \in Nat
    BY <1>1, ListsHaveLengths DEF TextsAreLists
  <2> HIDE DEF held
  <2> QED
    BY <2>1, SizeOfInterval
<1>3. ASSUME NEW d \in DOMAIN docs PROVE IsFiniteSet(ToSet(Tokens(docs[d])))
  <2> DEFINE tokens == Tokens(docs[d])
  <2>1. IsList(tokens)
    BY <1>1, TokensAreList DEF TextsAreLists
  <2> HIDE DEF tokens
  <2>2. DOMAIN tokens = 1 .. Len(tokens) /\ Len(tokens) \in Nat
    BY <2>1, ListsHaveLengths
  <2>3. IsFiniteSet(DOMAIN tokens)
    BY <2>2, SizeOfInterval
  <2>4. ToSet(tokens) = {tokens[i] : i \in DOMAIN tokens}
    BY DEF ToSet
  <2>5. IsFiniteSet(ToSet(tokens))
    BY <2>3, <2>4, ImageIsFinite
  <2> QED
    BY <2>5 DEF tokens
<1>4. \A T \in all : IsFiniteSet(T)
  BY <1>3
<1>5. Vocabulary \subseteq UNION all
  <2>1. ASSUME NEW t \in Vocabulary PROVE t \in UNION all
    <3>1. HoldersOf(docs, t) # {}
      BY <1>1, HoldersCounted
    <3>2. PICK d \in DOMAIN docs : t \in ToSet(Tokens(docs[d]))
      BY <3>1 DEF HoldersOf
    <3> QED
      BY <3>2
  <2> QED
    BY <2>1
<1> HIDE DEF held
<1>6. IsFiniteSet(all)
  BY <1>2, ImageIsFinite
<1> HIDE DEF all
<1>7. IsFiniteSet(UNION all)
  BY <1>4, <1>6, FS_UNION
<1> QED
  BY <1>5, <1>7, FS_Subset

\* Factors are numbers, one for each of some terms of the dictionary.
AreFactors(factor) ==
    DOMAIN factor \subseteq Vocabulary /\ \A t \in DOMAIN factor : factor[t] \in Int

LEMMA FactorsTyped ==
    ASSUME Collected, StemsAreLists, NEW q, IsList(q), NEW m, NEW w \in ToSet(Tokens(q))
    PROVE  AreFactors(FactorsOf(index, m, w))
<1>1. ASSUME NEW t \in Vocabulary PROVE FuzzyFactor(Distance(w, t)) \in Int
  <2>1. HoldersOf(docs, t) # {}
    BY HoldersCounted DEF Collected
  <2>2. PICK d \in DOMAIN docs : t \in ToSet(Tokens(docs[d]))
    BY <2>1 DEF HoldersOf
  <2>3. IsList(docs[d])
    BY DEF Collected, TextsAreLists
  <2>4. Len(t) \in Nat /\ Len(w) \in Nat
    BY <2>2, <2>3, TokensAreWords
  <2>5. Distance(w, t) \in Int
    BY <2>4, DistanceIsInt
  <2> QED
    BY ONLY <2>5 DEF FuzzyFactor
<1>2. CASE w \in DOMAIN index.dict
  <2>1. FactorsOf(index, m, w) = [t \in {w} |-> 100]
    BY <1>2 DEF FactorsOf
  <2> QED
    BY <1>2, <2>1 DEF AreFactors, Vocabulary
<1>3. CASE FactorsOf(index, m, w) = [t \in TermsWith(index, w) |-> PartialMatchFactor]
  BY <1>3 DEF AreFactors, Vocabulary, TermsWith, PartialMatchFactor
<1>4. CASE FactorsOf(index, m, w) =
             [t \in SimilarTerms(w, m.max_edits, DOMAIN index.dict) |-> FuzzyFactor(Distance(w, t))]
  <2>1. SimilarTerms(w, m.max_edits, DOMAIN index.dict) \subseteq Vocabulary
    BY DEF SimilarTerms, Vocabulary
  <2> QED
    BY <1>1, <1>4, <2>1 DEF AreFactors
<1>5. CASE FactorsOf(index, m, w) = [t \in {} |-> 0]
  BY <1>5 DEF AreFactors
<1> QED
  BY <1>2, <1>3, <1>4, <1>5 DEF FactorsOf

LEMMA GainByTyped ==
    ASSUME Collected, IdfIsPositive, TotalLength # 0, NEW factor, AreFactors(factor), NEW d
    PROVE  /\ GainBy(docs, index, factor, d) \in Int
           /\ d \notin FoundBy(docs, index, factor) => GainBy(docs, index, factor, d) = 0
<1> DEFINE telling == TellingIn(docs, index, DOMAIN factor)
           gains == [t \in telling |-> GainIn(docs, index, t, factor[t], d)]
<1>1. telling \subseteq DOMAIN factor /\ telling \subseteq Vocabulary
  BY DEF TellingIn, AreFactors
<1>2. IsFiniteSet(telling)
  <2> HIDE DEF telling
  <2> QED
    BY <1>1, VocabularyIsFinite, FS_Subset
<1>3. ASSUME NEW t \in telling
      PROVE  /\ GainIn(docs, index, t, factor[t], d) \in Int
             /\ d \notin ToSet(DocsOn(index, t)) => GainIn(docs, index, t, factor[t], d) = 0
  <2>1. factor[t] \in Int
    BY <1>1 DEF AreFactors
  <2> HIDE DEF telling
  <2> QED
    BY <2>1, GainTyped
<1>4. GainBy(docs, index, factor, d) = SumFunction(gains)
  BY DEF GainBy
<1>5. FoundBy(docs, index, factor) = UNION {ToSet(DocsOn(index, t)) : t \in telling}
  BY DEF FoundBy
<1> HIDE DEF telling
<1>6. DOMAIN gains = telling /\ \A t \in telling : gains[t] \in Int
  BY <1>3
<1>7. ASSUME d \notin FoundBy(docs, index, factor) PROVE \A t \in telling : gains[t] = 0
  BY <1>3, <1>5, <1>7
<1> HIDE DEF gains
<1>8. SumFunction(gains) \in Int
  BY <1>2, <1>6, SumIsInt
<1>9. ASSUME d \notin FoundBy(docs, index, factor) PROVE SumFunction(gains) = 0
  BY <1>2, <1>6, <1>7, <1>9, SumOfZeros
<1> QED
  BY <1>4, <1>8, <1>9

LEMMA FoundAreDocuments ==
    ASSUME Collected, NEW factor
    PROVE  FoundBy(docs, index, factor) \subseteq DOMAIN docs
<1>1. ASSUME NEW t PROVE ToSet(DocsOn(index, t)) \subseteq DOMAIN docs
  <2>1. ToSet(DocsOn(index, t)) = HoldersOf(docs, t)
    BY HoldersCounted DEF Collected, IdsOf, DocsOn
  <2> QED
    BY <2>1 DEF HoldersOf
<1> QED
  BY <1>1 DEF FoundBy

-----------------------------------------------------------------------------
(***************************************************************************)
(* The scores of a query, whatever the order its words are taken in.       *)
(***************************************************************************)
ScoreAfter(ds, ix, m, ws) ==
    [d \in UNION {FoundBy(ds, ix, FactorsOf(ix, m, w)) : w \in ws} |->
        SumFunction([w \in ws |-> GainBy(ds, ix, FactorsOf(ix, m, w), d)])]

\* Documents and their scores, numbers.
AreScores(score, ds) ==
    /\ score = [d \in DOMAIN score |-> score[d]]
    /\ DOMAIN score \subseteq DOMAIN ds /\ \A d \in DOMAIN score : score[d] \in Int

LEMMA TokensAreFinite ==
    ASSUME NEW q, IsList(q), NEW ws, ws \subseteq ToSet(Tokens(q))
    PROVE  IsFiniteSet(ws)
<1> DEFINE tokens == Tokens(q)
<1>1. IsList(tokens)
  BY TokensAreList
<1> HIDE DEF tokens
<1>2. DOMAIN tokens = 1 .. Len(tokens) /\ Len(tokens) \in Nat
  BY <1>1, ListsHaveLengths
<1>3. IsFiniteSet(DOMAIN tokens)
  BY <1>2, SizeOfInterval
<1>4. ToSet(tokens) = {tokens[i] : i \in DOMAIN tokens}
  BY DEF ToSet
<1>5. IsFiniteSet(ToSet(tokens)) /\ ws \in SUBSET ToSet(tokens)
  BY <1>3, <1>4, ImageIsFinite DEF tokens
<1> QED
  BY <1>5, FS_Subset

Scorable ==
    Collected /\ StemsAreLists /\ IdfIsPositive /\ TotalLength # 0

LEMMA SumOfWords ==
    ASSUME Scorable, NEW q, IsList(q), NEW m, NEW ws, ws \subseteq ToSet(Tokens(q)), NEW d
    PROVE  LET gains == [w \in ws |-> GainBy(docs, index, FactorsOf(index, m, w), d)]
               found == UNION {FoundBy(docs, index, FactorsOf(index, m, w)) : w \in ws}
           IN  /\ IsFiniteSet(ws) /\ \A w \in ws : gains[w] \in Int
               /\ SumFunction(gains) \in Int
               /\ d \notin found => SumFunction(gains) = 0
<1> DEFINE gains == [w \in ws |-> GainBy(docs, index, FactorsOf(index, m, w), d)]
           found == UNION {FoundBy(docs, index, FactorsOf(index, m, w)) : w \in ws}
<1>1. IsFiniteSet(ws)
  BY TokensAreFinite DEF Scorable
<1>2. ASSUME NEW w \in ws
      PROVE  /\ GainBy(docs, index, FactorsOf(index, m, w), d) \in Int
             /\ d \notin FoundBy(docs, index, FactorsOf(index, m, w)) =>
                   GainBy(docs, index, FactorsOf(index, m, w), d) = 0
  <2> DEFINE factor == FactorsOf(index, m, w)
  <2>1. AreFactors(factor)
    BY FactorsTyped DEF Scorable
  <2> HIDE DEF factor
  <2>2. /\ GainBy(docs, index, factor, d) \in Int
        /\ d \notin FoundBy(docs, index, factor) => GainBy(docs, index, factor, d) = 0
    BY <2>1, GainByTyped DEF Scorable
  <2> QED
    BY <2>2 DEF factor
<1>3. DOMAIN gains = ws /\ \A w \in ws : gains[w] \in Int
  BY <1>2
<1>4. ASSUME d \notin found PROVE \A w \in ws : gains[w] = 0
  BY <1>2, <1>4
<1> HIDE DEF gains, found
<1>5. SumFunction(gains) \in Int
  BY <1>1, <1>3, SumIsInt
<1>6. ASSUME d \notin found PROVE SumFunction(gains) = 0
  BY <1>1, <1>3, <1>4, <1>6, SumOfZeros
<1> QED
  BY <1>1, <1>3, <1>5, <1>6 DEF gains, found

LEMMA ScoresTyped ==
    ASSUME Scorable, NEW q, IsList(q), NEW m, NEW ws, ws \subseteq ToSet(Tokens(q))
    PROVE  AreScores(ScoreAfter(docs, index, m, ws), docs)
<1>1. ASSUME NEW w PROVE FoundBy(docs, index, FactorsOf(index, m, w)) \subseteq DOMAIN docs
  BY FoundAreDocuments DEF Scorable
<1>2. DOMAIN ScoreAfter(docs, index, m, ws) \subseteq DOMAIN docs
  BY <1>1 DEF ScoreAfter
<1>3. \A d \in DOMAIN ScoreAfter(docs, index, m, ws) :
         ScoreAfter(docs, index, m, ws)[d] =
            SumFunction([w \in ws |-> GainBy(docs, index, FactorsOf(index, m, w), d)])
  BY DEF ScoreAfter
<1>4. \A d : SumFunction([w \in ws |-> GainBy(docs, index, FactorsOf(index, m, w), d)]) \in Int
  BY SumOfWords
<1>5. ScoreAfter(docs, index, m, ws) =
         [d \in DOMAIN ScoreAfter(docs, index, m, ws) |-> ScoreAfter(docs, index, m, ws)[d]]
  BY DEF ScoreAfter
<1> QED
  BY <1>2, <1>3, <1>4, <1>5 DEF AreScores

LEMMA OneMoreWord ==
    ASSUME Scorable, NEW q, IsList(q), NEW m, NEW ws, ws \subseteq ToSet(Tokens(q)),
           NEW w \in ToSet(Tokens(q)) \ ws
    PROVE  Added(docs, index, FactorsOf(index, m, w), ScoreAfter(docs, index, m, ws)) =
              ScoreAfter(docs, index, m, ws \union {w})
<1> DEFINE By(v) == FactorsOf(index, m, v)
           before == ScoreAfter(docs, index, m, ws)
           more == ws \union {w}
           after == ScoreAfter(docs, index, m, more)
<1>1. DOMAIN after = DOMAIN before \union FoundBy(docs, index, By(w))
  BY DEF ScoreAfter
<1>2. ASSUME NEW d \in DOMAIN after
      PROVE  after[d] = ScoreOr0(before, d) + GainBy(docs, index, By(w), d)
  <2> DEFINE gains == [v \in ws |-> GainBy(docs, index, By(v), d)]
             all == [v \in more |-> GainBy(docs, index, By(v), d)]
  <2>1. after[d] = SumFunction(all)
    BY DEF ScoreAfter
  <2>2. IsFiniteSet(more) /\ \A v \in more : all[v] \in Int
    BY SumOfWords
  <2>3. DOMAIN all = more /\ w \in more /\ more \ {w} = ws /\ all[w] = GainBy(docs, index, By(w), d)
    OBVIOUS
  <2>4. [v \in ws |-> all[v]] = gains
    OBVIOUS
  <2> HIDE DEF all
  <2>5. SumFunction(all) = all[w] + SumFunction([v \in more \ {w} |-> all[v]])
    BY <2>2, <2>3, SumTakes
  <2>6. SumFunction([v \in more \ {w} |-> all[v]]) = SumFunction(gains)
    BY <2>3, <2>4
  <2>7. SumFunction(gains) \in Int /\ all[w] \in Int
    BY <2>2, <2>3, SumOfWords
  <2>8. ScoreOr0(before, d) = SumFunction(gains)
    <3>1. CASE d \in DOMAIN before
      BY <3>1 DEF ScoreOr0, ScoreAfter
    <3>2. CASE d \notin DOMAIN before
      <4>1. DOMAIN before = UNION {FoundBy(docs, index, FactorsOf(index, m, v)) : v \in ws}
        BY DEF ScoreAfter
      <4>2. SumFunction(gains) = 0
        BY <3>2, <4>1, SumOfWords
      <4> QED
        BY <3>2, <4>2 DEF ScoreOr0
    <3> QED
      BY <3>1, <3>2
  <2> HIDE DEF gains
  <2>9. SumFunction(gains) + all[w] = all[w] + SumFunction(gains)
    BY ONLY <2>7
  <2> QED
    BY <2>1, <2>3, <2>5, <2>6, <2>8, <2>9
<1>3. after = [d \in DOMAIN after |-> after[d]]
  BY DEF ScoreAfter
<1> HIDE DEF before, after, By
<1>4. Added(docs, index, By(w), before) =
         [d \in DOMAIN after |-> ScoreOr0(before, d) + GainBy(docs, index, By(w), d)]
  BY <1>1 DEF Added
<1>5. Added(docs, index, By(w), before) = after
  BY <1>2, <1>3, <1>4
<1> QED
  BY <1>5 DEF before, after, By, more

LEMMA NothingAdded ==
    ASSUME Scorable, NEW score, AreScores(score, docs)
    PROVE  Added(docs, index, [t \in {} |-> 0], score) = score
<1> DEFINE none == [t \in {} |-> 0]
<1>1. AreFactors(none) /\ FoundBy(docs, index, none) = {}
  BY DEF AreFactors, FoundBy, TellingIn
<1> HIDE DEF none
<1>2. ASSUME NEW d PROVE GainBy(docs, index, none, d) = 0
  BY <1>1, GainByTyped DEF Scorable
<1>3. Added(docs, index, none, score) =
         [d \in DOMAIN score |-> ScoreOr0(score, d) + GainBy(docs, index, none, d)]
  BY <1>1 DEF Added
<1>4. \A d \in DOMAIN score : ScoreOr0(score, d) + GainBy(docs, index, none, d) = score[d]
  BY <1>2 DEF ScoreOr0, AreScores
<1>5. score = [d \in DOMAIN score |-> score[d]]
  BY DEF AreScores
<1>6. Added(docs, index, none, score) = score
  BY <1>3, <1>4, <1>5
<1> QED
  BY <1>6 DEF none

LEMMA AddedTyped ==
    ASSUME Scorable, NEW factor, AreFactors(factor), NEW score, AreScores(score, docs)
    PROVE  AreScores(Added(docs, index, factor, score), docs)
<1>1. FoundBy(docs, index, factor) \subseteq DOMAIN docs
  BY FoundAreDocuments DEF Scorable
<1>2. ASSUME NEW d PROVE ScoreOr0(score, d) + GainBy(docs, index, factor, d) \in Int
  <2>1. ScoreOr0(score, d) \in Int
    BY DEF ScoreOr0, AreScores
  <2>2. GainBy(docs, index, factor, d) \in Int
    BY GainByTyped DEF Scorable
  <2> QED
    BY ONLY <2>1, <2>2
<1> QED
  BY <1>1, <1>2 DEF Added, AreScores

-----------------------------------------------------------------------------
(***************************************************************************)
(* The answer to a query, from the collection and the request alone.       *)
(***************************************************************************)
\* WholeQuery.
WholeFactor(ds, ix, q) ==
    [t \in TellingIn(ds, ix, TermsWith(ix, WholeQueryText(q))) |-> PartialMatchFactor]

WholeScore(ds, ix, m, q, score) ==
    IF score # << >> \/ ~m.partial \/ q = << >> THEN score
    ELSE IF DOMAIN WholeFactor(ds, ix, q) # {} THEN Added(ds, ix, WholeFactor(ds, ix, q), score)
    ELSE [d \in {e \in DOMAIN ds : HasSubstring(Lowered(ds[e]), WholeQueryText(q))} |->
             PartialMatchFactor]

FinalScore(ds, ix, m, q) == WholeScore(ds, ix, m, q, ScoreAfter(ds, ix, m, ToSet(Tokens(q))))

AnswerOf(ds, ix, m, q) ==
    IF m.phrase THEN PhraseList(ds, ix, q)
    ELSE IF Len(ds) = 0 \/ SumFunction(ix.lengths) = 0 THEN << >>
    ELSE RankingOf(FinalScore(ds, ix, m, q))

LEMMA WholeAdds ==
    ASSUME WholeQuery
    PROVE  doc_score' = WholeScore(docs, index, mode, query, doc_score)
<1> DEFINE telling == {t \in Holders(WholeQueryText(query)) : IdfOf(t) > 0}
           factor == [t \in telling |-> PartialMatchFactor]
<1>1. /\ (doc_score # << >> \/ ~mode.partial \/ query = << >>) => doc_score' = doc_score
      /\ ~(doc_score # << >> \/ ~mode.partial \/ query = << >>) =>
            IF telling # {} THEN AddTerms(factor)
            ELSE doc_score' = [d \in {e \in DOMAIN docs :
                                        HasSubstring(Lowered(docs[e]), WholeQueryText(query))} |->
                                  PartialMatchFactor]
  BY DEF WholeQuery
<1>2. telling = TellingIn(docs, index, TermsWith(index, WholeQueryText(query)))
  BY DEF Holders, TellingIn, TermsWith, Vocabulary, IdfOf, IdfIn, N
<1>3. factor = WholeFactor(docs, index, query) /\ DOMAIN factor = telling
  BY <1>2 DEF WholeFactor
<1> HIDE DEF telling, factor
<1>4. AddTerms(factor) => doc_score' = Added(docs, index, factor, doc_score)
  BY TermsAdded
<1> QED
  BY <1>1, <1>3, <1>4 DEF WholeScore

LEMMA WholeTyped ==
    ASSUME Scorable, NEW q, NEW m, NEW score, AreScores(score, docs)
    PROVE  AreScores(WholeScore(docs, index, m, q, score), docs)
<1> DEFINE factor == WholeFactor(docs, index, q)
           holding == {e \in DOMAIN docs : HasSubstring(Lowered(docs[e]), WholeQueryText(q))}
           scores == [d \in holding |-> PartialMatchFactor]
<1>1. AreFactors(factor)
  BY DEF AreFactors, WholeFactor, TellingIn, TermsWith, Vocabulary, PartialMatchFactor
<1>2. AreScores(scores, docs)
  BY DEF AreScores, PartialMatchFactor
<1>3. WholeScore(docs, index, m, q, score) \in {score, Added(docs, index, factor, score), scores}
  BY DEF WholeScore
<1>4. AreScores(Added(docs, index, factor, score), docs)
  BY <1>1, AddedTyped
<1> HIDE DEF scores, factor
<1> QED
  BY <1>2, <1>3, <1>4

LEMMA FinalTyped ==
    ASSUME Scorable, NEW q, IsList(q), NEW m
    PROVE  AreScores(FinalScore(docs, index, m, q), docs)
  BY ScoresTyped, WholeTyped DEF FinalScore

\* A list of some things, each at most once.
ListsOnce(s, T) ==
    /\ s \in Seq(T) /\ Len(s) \in Nat /\ DOMAIN s = 1 .. Len(s)
    /\ \A i, k \in DOMAIN s : s[i] = s[k] => i = k

LEMMA EmptyListed ==
    ASSUME NEW T
    PROVE  ListsOnce(<< >>, T) /\ Len(<< >>) = 0 /\ ToSet(<< >>) = {}
<1>1. << >> \in Seq(T) /\ Len(<< >>) = 0 /\ DOMAIN << >> = {}
  BY EmptySeq
<1> QED
  BY <1>1 DEF ListsOnce, ToSet

LEMMA ScoresRanked ==
    ASSUME Collected, NEW score, AreScores(score, docs)
    PROVE  ListsOnce(RankingOf(score), DOMAIN docs) /\ ToSet(RankingOf(score)) = DOMAIN score
<1> DEFINE s == RankingOf(score)
<1>1. DOMAIN docs = 1 .. Len(docs) /\ Len(docs) \in Nat
  BY ListsHaveLengths DEF Collected, TextsAreLists
<1>2. IsFiniteSet(DOMAIN docs)
  BY <1>1, SizeOfInterval
<1>3. DOMAIN score \in SUBSET DOMAIN docs /\ \A d \in DOMAIN score : score[d] \in Int
  BY DEF AreScores
<1>4. DOMAIN score \subseteq Int
  BY <1>1, <1>3
<1>5. IsFiniteSet(DOMAIN score)
  BY <1>2, <1>3, FS_Subset
<1>6. /\ s \in Seq(DOMAIN score) /\ \A i, k \in DOMAIN s : s[i] = s[k] => i = k
      /\ ToSet(s) = DOMAIN score
  BY <1>3, <1>4, <1>5, RankingFound
<1> HIDE DEF s
<1>7. Len(s) \in Nat /\ DOMAIN s = 1 .. Len(s) /\ s \in Seq(DOMAIN docs)
  BY <1>3, <1>6, LenProperties, SeqMonotonic
<1> QED
  BY <1>6, <1>7 DEF ListsOnce, s

LEMMA AnswerListed ==
    ASSUME Collected, StemsAreLists, IdfIsPositive, NEW q, IsList(q), NEW m
    PROVE  ListsOnce(AnswerOf(docs, index, m, q), DOMAIN docs)
<1>1. CASE m.phrase
  <2> DEFINE found == PhraseList(docs, index, q)
  <2>1. CASE Tokens(q) = << >>
    <3>1. found = << >>
      BY <2>1 DEF PhraseList
    <3> QED
      BY <1>1, <3>1, EmptyListed DEF AnswerOf
  <2>2. CASE Tokens(q) # << >>
    <3>1. /\ found \in Seq(PhraseHolders(docs, q))
          /\ \A i, k \in DOMAIN found : found[i] = found[k] => i = k
      BY <2>2, PhraseListed DEF Collected
    <3>2. PhraseHolders(docs, q) \subseteq DOMAIN docs
      BY DEF PhraseHolders
    <3> HIDE DEF found
    <3>3. Len(found) \in Nat /\ DOMAIN found = 1 .. Len(found) /\ found \in Seq(DOMAIN docs)
      BY <3>1, <3>2, LenProperties, SeqMonotonic
    <3> QED
      BY <1>1, <3>1, <3>3 DEF AnswerOf, ListsOnce, found
  <2> QED
    BY <2>1, <2>2
<1>2. CASE ~m.phrase /\ (Len(docs) = 0 \/ SumFunction(index.lengths) = 0)
  BY <1>2, EmptyListed DEF AnswerOf
<1>3. CASE ~m.phrase /\ ~(Len(docs) = 0 \/ SumFunction(index.lengths) = 0)
  <2>1. Scorable
    BY <1>3 DEF Scorable, TotalLength
  <2> QED
    BY <1>3, <2>1, FinalTyped, ScoresRanked DEF AnswerOf
<1> QED
  BY <1>1, <1>2, <1>3

-----------------------------------------------------------------------------
(***************************************************************************)
(* The pages a client has had are the first part of the answer.            *)
(***************************************************************************)
FirstOf(s, n) == SubSeq(s, 1, Smaller(n, Len(s)))

PageStands(p, ds, ix, q, m, lim, off, ws, score, list, n, sn) ==
    LET answer == AnswerOf(ds, ix, m, q)
    IN  /\ lim \in 1 .. MaxLimit /\ off \in 0 .. MaxOffset /\ m.max_edits \in 0 .. 3
        /\ p = "phrase" => list = << >> /\ n = 0
        /\ p \in {"words", "rank"} => Len(ds) # 0 /\ SumFunction(ix.lengths) # 0
        /\ p = "words" => /\ ws \subseteq ToSet(Tokens(q))
                          /\ score = ScoreAfter(ds, ix, m, ToSet(Tokens(q)) \ ws)
        /\ p = "rank" => score = FinalScore(ds, ix, m, q)
        /\ p \in {"answer", "more", "end"} =>
              /\ list = FirstOf(answer, off + lim) /\ n = Len(answer)
              /\ ~m.phrase => DOMAIN score = ToSet(answer)
        /\ p \in {"phrase", "words", "rank", "answer"} =>
              off <= Len(answer) /\ sn = SubSeq(answer, 1, off)
        /\ p = "more" => /\ off + lim <= MaxOffset /\ off + lim <= Len(answer)
                         /\ sn = SubSeq(answer, 1, off + lim)
        /\ p = "end" => sn = FirstOf(answer, off + lim)

PageInvariant ==
    PageStands(pc, docs, index, query, mode, limit, offset, words, doc_score, full_list, total, seen)

LEMMA FirstOfNone ==
    ASSUME NEW n \in Nat
    PROVE  FirstOf(<< >>, n) = << >>
<1>1. << >> \in Seq({}) /\ Len(<< >>) = 0
  BY EmptySeq
<1>2. Smaller(n, 0) = 0
  BY DEF Smaller
<1>3. SubSeq(<< >>, 1, 0) \in Seq({}) /\ Len(SubSeq(<< >>, 1, 0)) = 0 - 1 + 1
  BY <1>1, SubSeqProperties
<1>4. SubSeq(<< >>, 1, 0) = << >>
  BY <1>3, EmptySeq
<1> QED
  BY <1>1, <1>2, <1>4 DEF FirstOf

LEMMA NoneOf ==
    ASSUME NEW T, NEW s, ListsOnce(s, T)
    PROVE  SubSeq(s, 1, 0) = << >>
<1>1. s \in Seq(T) /\ Len(s) \in Nat /\ 1 \in 1 .. Len(s) + 1 /\ 0 \in 1 - 1 .. Len(s)
  BY DEF ListsOnce
<1>2. SubSeq(s, 1, 0) \in Seq(T) /\ Len(SubSeq(s, 1, 0)) = 0 - 1 + 1
  BY <1>1, SubSeqProperties
<1> QED
  BY <1>2, EmptySeq

\* What comes after the first off of the first n is a page.
LEMMA PageAppended ==
    ASSUME NEW T, NEW s, ListsOnce(s, T), NEW off \in Nat, NEW n \in Nat, off <= n, n <= Len(s)
    PROVE  LET first == SubSeq(s, 1, n)
               page == SubSeq(first, off + 1, n)
           IN  /\ Len(first) = n /\ Len(page) = n - off
               /\ SubSeq(s, 1, off) \o page = first
<1> DEFINE first == SubSeq(s, 1, n)
           page == SubSeq(first, off + 1, n)
           had == SubSeq(s, 1, off)
           all == had \o page
<1>1. s \in Seq(T) /\ Len(s) \in Nat
  BY DEF ListsOnce
<1>2. 1 \in 1 .. Len(s) + 1 /\ n \in 1 - 1 .. Len(s) /\ off \in 1 - 1 .. Len(s)
  BY <1>1
<1>3. first \in Seq(T) /\ Len(first) = n - 1 + 1 /\ \A i \in 1 .. n - 1 + 1 : first[i] = s[1 + i - 1]
  BY <1>1, <1>2, SubSeqProperties
<1>4. had \in Seq(T) /\ Len(had) = off - 1 + 1 /\ \A i \in 1 .. off - 1 + 1 : had[i] = s[1 + i - 1]
  BY <1>1, <1>2, SubSeqProperties
<1>5. n - 1 + 1 = n /\ off - 1 + 1 = off
  OBVIOUS
<1> HIDE DEF first, had
<1>6. off + 1 \in 1 .. Len(first) + 1 /\ n \in (off + 1) - 1 .. Len(first)
  BY <1>3, <1>5
<1>7. /\ page \in Seq(T) /\ Len(page) = n - (off + 1) + 1
      /\ \A i \in 1 .. n - (off + 1) + 1 : page[i] = first[(off + 1) + i - 1]
  BY <1>3, <1>6, SubSeqProperties
<1>8. n - (off + 1) + 1 = n - off /\ n - off \in Nat
  OBVIOUS
<1> HIDE DEF page
<1>9. /\ all \in Seq(T) /\ Len(all) = Len(had) + Len(page)
      /\ \A i \in 1 .. Len(had) : all[i] = had[i]
      /\ \A i \in Len(had) + 1 .. Len(had) + Len(page) : all[i] = page[i - Len(had)]
  BY <1>4, <1>7, ConcatProperties
<1>10. Len(had) = off /\ Len(page) = n - off /\ Len(first) = n /\ off + (n - off) = n
  BY <1>3, <1>4, <1>5, <1>7, <1>8
<1> HIDE DEF all
<1>11. ASSUME NEW i \in 1 .. n PROVE all[i] = first[i]
  <2>1. 1 + i - 1 = i /\ i \in Nat
    OBVIOUS
  <2>2. first[i] = s[i]
    BY <1>3, <1>5, <2>1
  <2>3. CASE i <= off
    <3>1. i \in 1 .. off
      BY <2>3
    <3>2. all[i] = had[i] /\ had[i] = s[i]
      BY <1>4, <1>5, <1>9, <1>10, <2>1, <3>1
    <3> QED
      BY <2>2, <3>2
  <2>4. CASE ~(i <= off)
    <3>1. i \in off + 1 .. n /\ i - off \in 1 .. n - off /\ (off + 1) + (i - off) - 1 = i
      BY <2>4
    <3>2. all[i] = page[i - off]
      BY <1>9, <1>10, <3>1
    <3>3. page[i - off] = first[i]
      BY <1>7, <1>8, <3>1
    <3> QED
      BY <3>2, <3>3
  <2> QED
    BY <2>3, <2>4
<1>12. all = first
  <2>1. Len(all) = n
    BY <1>9, <1>10
  <2> QED
    BY <1>3, <1>9, <1>10, <1>11, <2>1, SeqEqual
<1> QED
  BY <1>10, <1>12 DEF all, page, first, had

LEMMA WholeSequence ==
    ASSUME NEW T, NEW s \in Seq(T)
    PROVE  SubSeq(s, 1, Len(s)) = s
<1>1. Len(s) \in Nat /\ 1 \in 1 .. Len(s) + 1 /\ Len(s) \in 1 - 1 .. Len(s)
  BY LenProperties
<1>2. /\ SubSeq(s, 1, Len(s)) \in Seq(T) /\ Len(SubSeq(s, 1, Len(s))) = Len(s) - 1 + 1
      /\ \A i \in 1 .. Len(s) - 1 + 1 : SubSeq(s, 1, Len(s))[i] = s[1 + i - 1]
  BY <1>1, SubSeqProperties
<1>3. Len(s) - 1 + 1 = Len(s) /\ \A i \in 1 .. Len(s) : 1 + i - 1 = i
  BY <1>1
<1>4. Len(SubSeq(s, 1, Len(s))) = Len(s) /\ \A i \in 1 .. Len(s) : SubSeq(s, 1, Len(s))[i] = s[i]
  BY <1>2, <1>3
<1> QED
  BY <1>2, <1>4, SeqEqual

-----------------------------------------------------------------------------
(***************************************************************************)
(* Every step of a request, and every other of the handlers, keeps the     *)
(* pages the first part of the answer.                                     *)
(***************************************************************************)
LEMMA PagesInitially ==
    ASSUME HandlersInit
    PROVE  PageInvariant
<1>1. pc = "idle" /\ mode = NoRequest /\ limit = 1 /\ offset = 0
  BY DEF HandlersInit, Init
<1>2. 1 \in 1 .. MaxLimit /\ 0 \in 0 .. MaxOffset /\ NoRequest.max_edits \in 0 .. 3
  BY LimitAssumption DEF NoRequest
<1> QED
  BY <1>1, <1>2 DEF PageInvariant, PageStands

\* A request begins behind the pages the client has had.
LEMMA BeginPages ==
    ASSUME Collected, StemsAreLists, IdfIsPositive, NEW q, IsList(q), NEW m \in AnyMode,
           NEW lim \in Int, NEW off \in Int, Begin(q, m, lim, off),
           NEW edits, edits = [m EXCEPT !.max_edits = Clamp(m.max_edits, 0, 3)],
           NEW from, from = Clamp(off, 0, MaxOffset),
           from <= Len(AnswerOf(docs, index, edits, q)),
           seen' = SubSeq(AnswerOf(docs, index, edits, q), 1, from)
    PROVE  PageInvariant'
<1> DEFINE answer == AnswerOf(docs, index, edits, q)
           to == Clamp(lim, 1, MaxLimit)
<1>1. /\ query' = q /\ mode' = edits /\ limit' = to /\ offset' = from
      /\ docs' = docs /\ index' = index /\ words' = ToSet(Tokens(q))
      /\ doc_score' = << >> /\ full_list' = << >> /\ total' = 0
      /\ pc' = IF m.phrase THEN "phrase"
               ELSE IF N = 0 \/ TotalLength = 0 THEN "answer" ELSE "words"
  BY DEF Begin, collection
<1>2. MaxLimit \in Nat \ {0} /\ MaxOffset \in Nat
  BY LimitAssumption
<1>3. to \in 1 .. MaxLimit /\ from \in 0 .. MaxOffset
  <2>1. 1 <= MaxLimit /\ 0 <= MaxOffset /\ MaxLimit \in Int /\ MaxOffset \in Int /\ 0 \in Int /\ 1 \in Int
    BY ONLY <1>2
  <2>2. Clamp(lim, 1, MaxLimit) \in 1 .. MaxLimit
    BY ONLY <2>1, lim \in Int, ClampBetween
  <2>3. Clamp(off, 0, MaxOffset) \in 0 .. MaxOffset
    BY ONLY <2>1, off \in Int, ClampBetween
  <2> QED
    BY <2>2, <2>3
<1>4. edits.max_edits \in 0 .. 3 /\ edits.phrase = m.phrase
  <2>1. m.max_edits \in Int
    BY DEF AnyMode
  <2>2. Clamp(m.max_edits, 0, 3) \in 0 .. 3
    BY ONLY <2>1, 0 \in Int, 3 \in Int, 0 <= 3, ClampBetween
  <2> QED
    BY <2>2 DEF AnyMode
<1>5. ListsOnce(answer, DOMAIN docs)
  BY AnswerListed
<1>6. PageInvariant' <=> PageStands(pc', docs, index, q, edits, to, from, words', doc_score',
                                    full_list', total', seen')
  BY <1>1 DEF PageInvariant
<1> HIDE DEF to
<1>7. CASE pc' = "phrase"
  <2>1. PageStands("phrase", docs, index, q, edits, to, from, words', doc_score', << >>, 0, seen')
    BY <1>3, <1>4 DEF PageStands
  <2> QED
    BY <1>1, <1>6, <1>7, <2>1
<1>8. CASE pc' = "words"
  <2>1. Len(docs) # 0 /\ SumFunction(index.lengths) # 0
    BY <1>1, <1>8 DEF N, TotalLength
  <2>2. ScoreAfter(docs, index, edits, {}) = << >>
    <3>1. DOMAIN ScoreAfter(docs, index, edits, {}) = {}
      BY DEF ScoreAfter
    <3>2. ScoreAfter(docs, index, edits, {}) = [d \in {} |-> 0]
      BY DEF ScoreAfter
    <3>3. [d \in {} |-> 0] = << >>
      OBVIOUS
    <3> QED
      BY <3>2, <3>3
  <2>3. ToSet(Tokens(q)) \ words' = {} /\ words' \subseteq ToSet(Tokens(q))
    BY <1>1
  <2>4. PageStands("words", docs, index, q, edits, to, from, words', << >>, full_list', total', seen')
    BY <1>3, <1>4, <2>1, <2>2, <2>3 DEF PageStands
  <2> QED
    BY <1>1, <1>6, <1>8, <2>4
<1>9. CASE pc' = "answer" /\ ~edits.phrase /\ (N = 0 \/ TotalLength = 0)
  <2>1. N = 0 => TotalLength = TotalLength
    OBVIOUS
  <2>2. answer = << >>
    BY <1>9 DEF AnswerOf, N, TotalLength
  <2>3. Len(answer) = 0 /\ ToSet(answer) = {} /\ DOMAIN doc_score' = {}
    BY <1>1, <2>2, EmptyListed, EmptySeq
  <2>4. FirstOf(answer, from + to) = << >>
    <3>1. from + to \in Nat
      BY <1>2, <1>3
    <3> QED
      BY <2>2, <3>1, FirstOfNone
  <2>5. PageStands("answer", docs, index, q, edits, to, from, words', doc_score', << >>, 0, seen')
    BY <1>3, <1>4, <2>3, <2>4 DEF PageStands
  <2> QED
    BY <1>1, <1>6, <1>9, <2>5
<1> QED
  BY <1>1, <1>4, <1>7, <1>8, <1>9

LEMMA AskPages ==
    ASSUME Collected, StemsAreLists, IdfIsPositive, NEW q \in Queries, NEW m \in Modes, NEW lim \in Limits,
           Ask(q, m, lim)
    PROVE  PageInvariant'
<1> DEFINE edits == [m EXCEPT !.max_edits = Clamp(m.max_edits, 0, 3)]
           from == Clamp(0, 0, MaxOffset)
           answer == AnswerOf(docs, index, edits, q)
<1>1. IsList(q) /\ m \in AnyMode /\ lim \in Int /\ Begin(q, m, lim, 0) /\ seen' = << >>
  BY TextAssumption, ModeAssumption, LimitAssumption DEF Ask, AnyMode
<1>2. from = 0
  BY LimitAssumption DEF Clamp, Smaller
<1>3. ListsOnce(answer, DOMAIN docs)
  BY <1>1, AnswerListed
<1> HIDE DEF edits, from
<1>4. SubSeq(answer, 1, from) = << >> /\ from <= Len(answer)
  BY <1>2, <1>3, NoneOf DEF ListsOnce
<1>5. seen' = SubSeq(answer, 1, from)
  <2>1. seen' = << >>
    BY <1>1
  <2> HIDE DEF answer
  <2> QED
    BY ONLY <1>4, <2>1
<1>6. 0 \in Int
  OBVIOUS
<1> QED
  BY <1>1, <1>4, <1>5, <1>6, BeginPages DEF edits, from

LEMMA NextPages ==
    ASSUME SearchInvariant, PageInvariant, StemsAreLists, IdfIsPositive, AskNextPage
    PROVE  PageInvariant'
<1> DEFINE edits == [mode EXCEPT !.max_edits = Clamp(mode.max_edits, 0, 3)]
           from == Clamp(offset + limit, 0, MaxOffset)
<1>1. /\ Collected /\ IsList(query) /\ mode \in AnyMode
      /\ pc = "more" /\ Begin(query, mode, limit, offset + limit) /\ seen' = seen
  BY DEF AskNextPage, SearchInvariant, Requested
<1>2. /\ limit \in 1 .. MaxLimit /\ offset \in 0 .. MaxOffset /\ mode.max_edits \in 0 .. 3
      /\ offset + limit <= MaxOffset
      /\ offset + limit <= Len(AnswerOf(docs, index, mode, query))
      /\ seen = SubSeq(AnswerOf(docs, index, mode, query), 1, offset + limit)
  BY <1>1 DEF PageInvariant, PageStands
<1>3. MaxLimit \in Nat \ {0} /\ MaxOffset \in Nat
  BY LimitAssumption
<1>4. limit \in Int /\ offset + limit \in Int /\ from = offset + limit
  BY ONLY <1>2, <1>3 DEF Clamp, Smaller
<1>5. edits = mode
  <2>1. Clamp(mode.max_edits, 0, 3) = mode.max_edits
    BY ONLY <1>2 DEF Clamp, Smaller
  <2> QED
    BY <1>1, <2>1 DEF AnyMode
<1> HIDE DEF edits, from
<1>6. from <= Len(AnswerOf(docs, index, edits, query))
      /\ seen' = SubSeq(AnswerOf(docs, index, edits, query), 1, from)
  BY <1>1, <1>2, <1>4, <1>5
<1> QED
  BY <1>1, <1>4, <1>6, BeginPages DEF edits, from

LEMMA WordPages ==
    ASSUME SearchInvariant, PageInvariant, StemsAreLists, IdfIsPositive,
           NEW w \in words, ExactWord(w) \/ PartialWord(w) \/ OtherWord(w)
    PROVE  PageInvariant'
<1> DEFINE before == ToSet(Tokens(query)) \ words
<1>1. /\ pc = "words" /\ words' = words \ {w}
      /\ UNCHANGED <<pc, docs, index, query, mode, limit, offset, full_list, total, seen>>
  BY DEF ExactWord, PartialWord, OtherWord, Taken, collection, request
<1>2. /\ Len(docs) # 0 /\ SumFunction(index.lengths) # 0 /\ words \subseteq ToSet(Tokens(query))
      /\ doc_score = ScoreAfter(docs, index, mode, before)
  BY <1>1 DEF PageInvariant, PageStands
<1>3. Scorable /\ IsList(query)
  BY <1>2 DEF Scorable, SearchInvariant, Requested, TotalLength
<1>4. w \in ToSet(Tokens(query)) \ before /\ before \union {w} = ToSet(Tokens(query)) \ words'
  BY <1>1, <1>2
<1>5. before \subseteq ToSet(Tokens(query))
  OBVIOUS
<1> HIDE DEF before
<1>6. Added(docs, index, FactorsOf(index, mode, w), doc_score) =
         ScoreAfter(docs, index, mode, before \union {w})
  BY <1>2, <1>3, <1>4, <1>5, OneMoreWord
<1>7. doc_score' = ScoreAfter(docs, index, mode, before \union {w})
  <2>1. AreScores(doc_score, docs)
    BY <1>2, <1>3, <1>5, ScoresTyped
  <2>2. Added(docs, index, [t \in {} |-> 0], doc_score) = doc_score
    BY <1>3, <2>1, NothingAdded
  <2>3. \/ doc_score' = Added(docs, index, FactorsOf(index, mode, w), doc_score)
        \/ doc_score' = doc_score /\ FactorsOf(index, mode, w) = [t \in {} |-> 0]
    BY WordAdds
  <2> QED
    BY <1>6, <2>2, <2>3
<1>8. PageStands("words", docs, index, query, mode, limit, offset, words', doc_score', full_list, total, seen)
  <2>1. words' \subseteq ToSet(Tokens(query))
    BY <1>1, <1>2
  <2>2. doc_score' = ScoreAfter(docs, index, mode, ToSet(Tokens(query)) \ words')
    BY <1>4, <1>7
  <2> QED
    BY <1>1, <1>2, <2>1, <2>2 DEF PageInvariant, PageStands
<1> QED
  BY <1>1, <1>8 DEF PageInvariant

LEMMA WholePages ==
    ASSUME PageInvariant, WholeQuery
    PROVE  PageInvariant'
<1>1. /\ pc = "words" /\ words = {} /\ pc' = "rank"
      /\ UNCHANGED <<docs, index, query, mode, limit, offset, full_list, total, seen>>
  BY DEF WholeQuery, collection, request
<1>2. doc_score = ScoreAfter(docs, index, mode, ToSet(Tokens(query)))
  <2>1. doc_score = ScoreAfter(docs, index, mode, ToSet(Tokens(query)) \ words)
    BY <1>1 DEF PageInvariant, PageStands
  <2> QED
    BY <1>1, <2>1
<1>3. doc_score' = FinalScore(docs, index, mode, query)
  BY <1>2, WholeAdds DEF FinalScore
<1>4. PageStands("rank", docs, index, query, mode, limit, offset, words', doc_score', full_list, total, seen)
  BY <1>1, <1>3 DEF PageInvariant, PageStands
<1> QED
  BY <1>1, <1>4 DEF PageInvariant

\* The list a request makes is the first part of the answer.
LEMMA ListPages ==
    ASSUME PageInvariant, PhraseQuery \/ Rank, LET answer == AnswerOf(docs, index, mode, query)
           IN  /\ full_list' = SubSeq(answer, 1, Smaller(RequestSize, Len(answer)))
               /\ total' = Len(answer) /\ (~mode.phrase => DOMAIN doc_score = ToSet(answer))
    PROVE  PageInvariant'
<1>1. /\ pc \in {"phrase", "rank"} /\ pc' = "answer"
      /\ UNCHANGED <<docs, index, query, mode, limit, offset, words, doc_score, seen>>
  BY DEF PhraseQuery, Rank, collection, request
<1>2. limit \in 1 .. MaxLimit /\ offset \in 0 .. MaxOffset
  BY DEF PageInvariant, PageStands
<1>3. MaxLimit \in Nat \ {0} /\ MaxOffset \in Nat
  BY LimitAssumption
<1>4. RequestSize = offset + limit
  BY ONLY <1>2, <1>3 DEF RequestSize, Smaller
<1>5. full_list' = FirstOf(AnswerOf(docs, index, mode, query), offset + limit)
  BY <1>4 DEF FirstOf
<1>6. PageStands("answer", docs, index, query, mode, limit, offset, words, doc_score, full_list', total', seen)
  BY <1>1, <1>5 DEF PageInvariant, PageStands
<1> QED
  BY <1>1, <1>6 DEF PageInvariant

LEMMA PhrasePages ==
    ASSUME SearchInvariant, PageInvariant, PhraseQuery
    PROVE  PageInvariant'
<1> DEFINE answer == AnswerOf(docs, index, mode, query)
<1>1. pc = "phrase" /\ mode.phrase
  BY DEF PhraseQuery, SearchInvariant, PhraseStands
<1>2. answer = PhraseList(docs, index, query)
  BY <1>1 DEF AnswerOf
<1>3. CASE Tokens(query) = << >>
  <2>1. /\ full_list' = << >> /\ total' = 0 /\ pc' = "answer"
        /\ UNCHANGED <<docs, index, query, mode, limit, offset, words, doc_score, seen>>
    BY <1>1, <1>3 DEF PhraseQuery, PageInvariant, PageStands, collection, request
  <2>2. answer = << >>
    BY <1>2, <1>3 DEF PhraseList
  <2>3. limit \in 1 .. MaxLimit /\ offset \in 0 .. MaxOffset
    BY DEF PageInvariant, PageStands
  <2>4. offset + limit \in Nat
    BY <2>3, LimitAssumption
  <2>5. FirstOf(answer, offset + limit) = << >> /\ Len(answer) = 0
    BY <2>2, <2>4, FirstOfNone, EmptyListed
  <2> HIDE DEF answer
  <2>6. PageStands("answer", docs, index, query, mode, limit, offset, words, doc_score, << >>, 0, seen)
    BY <1>1, <2>5 DEF PageInvariant, PageStands, answer
  <2> QED
    BY <2>1, <2>6 DEF PageInvariant
<1>4. CASE Tokens(query) # << >>
  <2>1. total' = Len(answer) /\ full_list' = SubSeq(answer, 1, Smaller(RequestSize, Len(answer)))
    BY <1>2, <1>4, FirstOfPhraseList
  <2> QED
    BY <1>1, <2>1, ListPages
<1> QED
  BY <1>3, <1>4

LEMMA RankPages ==
    ASSUME SearchInvariant, PageInvariant, StemsAreLists, IdfIsPositive, Rank
    PROVE  PageInvariant'
<1> DEFINE answer == AnswerOf(docs, index, mode, query)
<1>1. pc = "rank" /\ ~mode.phrase /\ Collected /\ IsList(query)
  BY DEF Rank, SearchInvariant, PhraseStands, Requested
<1>2. /\ Len(docs) # 0 /\ SumFunction(index.lengths) # 0
      /\ doc_score = FinalScore(docs, index, mode, query)
  BY <1>1 DEF PageInvariant, PageStands
<1>3. answer = RankingOf(doc_score)
  BY <1>1, <1>2 DEF AnswerOf
<1>4. /\ total' = Len(RankingOf(doc_score))
      /\ full_list' = SubSeq(RankingOf(doc_score), 1, Smaller(RequestSize, Len(RankingOf(doc_score))))
  BY DEF Rank, RankingOf, PlaceIn, AheadIn, Ahead
<1>5. ToSet(RankingOf(doc_score)) = DOMAIN doc_score
  <2>1. Scorable
    BY <1>1, <1>2 DEF Scorable, TotalLength
  <2>2. AreScores(doc_score, docs)
    BY <1>1, <1>2, <2>1, FinalTyped
  <2> QED
    BY <1>1, <2>2, ScoresRanked
<1>6. /\ full_list' = SubSeq(answer, 1, Smaller(RequestSize, Len(answer)))
      /\ total' = Len(answer) /\ (~mode.phrase => DOMAIN doc_score = ToSet(answer))
  BY <1>3, <1>4, <1>5
<1> QED
  BY <1>6, ListPages

LEMMA AnswerPages ==
    ASSUME SearchInvariant, PageInvariant, StemsAreLists, IdfIsPositive, Answer
    PROVE  PageInvariant'
<1> DEFINE answer == AnswerOf(docs, index, mode, query)
           n == Smaller(offset + limit, Len(answer))
           first == SubSeq(answer, 1, n)
           page == SubSeq(first, offset + 1, n)
<1>1. /\ pc = "answer" /\ seen' = seen \o Page
      /\ pc' = IF Len(Page) < limit \/ offset + limit > MaxOffset THEN "end" ELSE "more"
      /\ UNCHANGED <<docs, index, query, mode, limit, offset, words, doc_score, full_list, total>>
  BY DEF Answer, collection, request
<1>2. /\ limit \in 1 .. MaxLimit /\ offset \in 0 .. MaxOffset
      /\ full_list = first /\ total = Len(answer) /\ (~mode.phrase => DOMAIN doc_score = ToSet(answer))
      /\ offset <= Len(answer) /\ seen = SubSeq(answer, 1, offset)
  BY <1>1 DEF PageInvariant, PageStands, FirstOf
<1>3. ListsOnce(answer, DOMAIN docs) /\ Len(answer) \in Nat
  BY AnswerListed DEF SearchInvariant, Requested, ListsOnce
<1>4. MaxLimit \in Nat \ {0} /\ MaxOffset \in Nat
  BY LimitAssumption
<1> HIDE DEF answer
<1>5. /\ offset \in Nat /\ limit \in Nat /\ n \in Nat /\ offset <= n /\ n <= Len(answer)
      /\ n = offset + limit \/ n = Len(answer)
      /\ n <= offset + limit
  BY ONLY <1>2, <1>3, <1>4 DEF Smaller
<1> HIDE DEF n
<1>6. Len(first) = n /\ Len(page) = n - offset /\ SubSeq(answer, 1, offset) \o page = first
  BY <1>3, <1>5, PageAppended
<1>7. Page = page
  <2>1. Smaller(offset + limit, n) = n
    BY ONLY <1>5 DEF Smaller
  <2>2. Len(full_list) = n
    BY <1>2, <1>6
  <2> QED
    BY <1>2, <2>1, <2>2 DEF Page
<1> HIDE DEF first, page
<1>8. seen' = first /\ Len(Page) = n - offset
  BY <1>1, <1>2, <1>6, <1>7
<1>9. CASE pc' = "more"
  <2>1. ~(n - offset < limit) /\ ~(offset + limit > MaxOffset)
    BY <1>1, <1>8, <1>9
  <2>2. n = offset + limit /\ offset + limit <= MaxOffset /\ offset + limit <= Len(answer)
    BY ONLY <1>2, <1>4, <1>5, <2>1
  <2>3. first = SubSeq(answer, 1, offset + limit)
    BY <2>2 DEF first
  <2>4. PageStands("more", docs, index, query, mode, limit, offset, words, doc_score, full_list, total, first)
    BY <1>1, <2>2, <2>3 DEF PageInvariant, PageStands, answer
  <2> QED
    BY <1>1, <1>8, <1>9, <2>4 DEF PageInvariant
<1>10. CASE pc' = "end"
  <2>1. first = FirstOf(answer, offset + limit)
    BY DEF first, n, FirstOf
  <2>2. PageStands("end", docs, index, query, mode, limit, offset, words, doc_score, full_list, total, first)
    BY <1>1, <2>1 DEF PageInvariant, PageStands, answer
  <2> QED
    BY <1>1, <1>8, <1>10, <2>2 DEF PageInvariant
<1> QED
  BY <1>1, <1>9, <1>10

LEMMA SearchPages ==
    ASSUME SearchInvariant, PageInvariant, StemsAreLists, IdfIsPositive, Next
    PROVE  PageInvariant'
<1>1. Collected
  BY DEF SearchInvariant
<1>2. CASE \E q \in Queries, m \in Modes, lim \in Limits : Ask(q, m, lim)
  BY <1>1, <1>2, AskPages
<1>3. CASE AskNextPage
  BY <1>3, NextPages
<1>4. CASE PhraseQuery
  BY <1>4, PhrasePages
<1>5. CASE \E w \in words : ExactWord(w) \/ PartialWord(w) \/ OtherWord(w)
  BY <1>5, WordPages
<1>6. CASE WholeQuery
  BY <1>6, WholePages
<1>7. CASE Rank
  BY <1>7, RankPages
<1>8. CASE Answer
  BY <1>8, AnswerPages
<1>9. CASE Close
  <2>1. pc' = "idle" /\ mode' = NoRequest /\ limit' = 1 /\ offset' = 0
    BY <1>9 DEF Close
  <2>2. 1 \in 1 .. MaxLimit /\ 0 \in 0 .. MaxOffset /\ NoRequest.max_edits \in 0 .. 3
    BY LimitAssumption DEF NoRequest
  <2> QED
    BY <2>1, <2>2 DEF PageInvariant, PageStands
<1> QED
  BY <1>2, <1>3, <1>4, <1>5, <1>6, <1>7, <1>8, <1>9 DEF Next, Step

LEMMA RequestKeepsPages ==
    ASSUME HandlersInvariant, HandlersInvariant', SearchInvariant, PageInvariant,
           StemsAreLists, IdfIsPositive, HandlersNext
    PROVE  PageInvariant'
<1>1. CASE Searching
  BY <1>1, SearchPages DEF Searching
<1>2. CASE UNCHANGED vars
  BY <1>2 DEF PageInvariant, vars, collection, request
<1>3. CASE pc = "idle" /\ \E cs : Install(cs)
  BY <1>3 DEF Install, search, request, PageInvariant, PageStands
<1> QED
  BY <1>1, <1>2, <1>3, RequestsSeen

LEMMA PageInvariantHolds ==
    (StemsAreLists /\ IdfIsPositive) => (HandlersSpec => []PageInvariant)
<1> SUFFICES ASSUME StemsAreLists, IdfIsPositive PROVE HandlersSpec => []PageInvariant
  OBVIOUS
<1>1. HandlersInit => PageInvariant
  BY PagesInitially
<1>2. HandlersInvariant /\ HandlersInvariant' /\ SearchInvariant /\ PageInvariant
      /\ [HandlersNext]_<<vars, handlerVars>> => PageInvariant'
  <2>1. ASSUME HandlersInvariant, HandlersInvariant', SearchInvariant, PageInvariant, HandlersNext
        PROVE  PageInvariant'
    BY <2>1, RequestKeepsPages
  <2>2. ASSUME PageInvariant, UNCHANGED <<vars, handlerVars>> PROVE PageInvariant'
    BY <2>2 DEF PageInvariant, vars, collection, request
  <2> QED
    BY <2>1, <2>2
<1> QED
  BY <1>1, <1>2, SearchInvariantHolds, PTL DEF HandlersSpec

\* handleSearch: the pages of a query, asked one after the other, are the whole
\* answer, each document once and as many as every page's total says, or as much
\* of it as the largest offset and a page more give; for any
\* collection, query, mode, page size and limits, and whatever the order the
\* words of the query are taken in, page by page.
THEOREM PagesCorrect ==
    (StemsAreLists /\ IdfIsPositive) => (HandlersSpec => []PagesAreTheAnswer)
<1> SUFFICES ASSUME StemsAreLists, IdfIsPositive PROVE HandlersSpec => []PagesAreTheAnswer
  OBVIOUS
<1>1. SearchInvariant /\ PageInvariant => PagesAreTheAnswer
  <2>1. ASSUME SearchInvariant, PageInvariant, pc = "end"
        PROVE  /\ Len(seen) = Smaller(offset + limit, total)
               /\ IsInjective(seen)
               /\ ~mode.phrase => /\ ToSet(seen) \subseteq DOMAIN doc_score
                                  /\ total <= offset + limit => ToSet(seen) = DOMAIN doc_score
    <3> DEFINE answer == AnswerOf(docs, index, mode, query)
               n == Smaller(offset + limit, Len(answer))
    <3>1. /\ seen = SubSeq(answer, 1, n) /\ total = Len(answer)
          /\ ~mode.phrase => DOMAIN doc_score = ToSet(answer)
          /\ limit \in 1 .. MaxLimit /\ offset \in 0 .. MaxOffset
      BY <2>1 DEF PageInvariant, PageStands, FirstOf
    <3>2. ListsOnce(answer, DOMAIN docs)
      BY <2>1, AnswerListed DEF SearchInvariant, Requested
    <3> HIDE DEF answer
    <3>3. /\ n \in Nat /\ n <= Len(answer) /\ Len(answer) \in Nat
          /\ total <= offset + limit => n = Len(answer)
      BY <3>1, <3>2, LimitAssumption DEF ListsOnce, Smaller
    <3> HIDE DEF n
    <3>4. Len(seen) = n /\ \A i \in 1 .. n : seen[i] = answer[i]
      <4>1. answer \in Seq(DOMAIN docs)
        BY <3>2 DEF ListsOnce
      <4> QED
        BY ONLY <3>1, <3>3, <4>1
    <3>5. n = Smaller(offset + limit, total)
      BY <3>1 DEF n
    <3>6. DOMAIN seen = 1 .. n /\ DOMAIN answer = 1 .. Len(answer)
      <4>1. answer \in Seq(DOMAIN docs) /\ DOMAIN answer = 1 .. Len(answer)
        BY <3>2 DEF ListsOnce
      <4> QED
        BY ONLY <3>1, <3>3, <4>1
    <3>7. IsInjective(seen)
      <4>1. \A i, k \in 1 .. Len(answer) : answer[i] = answer[k] => i = k
        BY <3>2, <3>6 DEF ListsOnce
      <4>2. \A i \in 1 .. n : i \in 1 .. Len(answer)
        BY ONLY <3>3
      <4>3. \A i, k \in DOMAIN seen : seen[i] = seen[k] => i = k
        BY ONLY <3>4, <3>6, <4>1, <4>2
      <4> QED
        BY <4>3 DEF IsInjective
    <3>8. ToSet(seen) \subseteq ToSet(answer)
      <4>1. \A i \in DOMAIN seen : i \in DOMAIN answer /\ seen[i] = answer[i]
        BY ONLY <3>3, <3>4, <3>6
      <4>2. ASSUME NEW d \in ToSet(seen) PROVE d \in ToSet(answer)
        <5>1. PICK i \in DOMAIN seen : d = seen[i]
          BY ONLY d \in ToSet(seen) DEF ToSet
        <5>2. i \in DOMAIN answer /\ d = answer[i]
          BY ONLY <4>1, <5>1
        <5> QED
          BY ONLY <5>2 DEF ToSet
      <4> QED
        BY ONLY <4>2
    <3>9. n = Len(answer) => ToSet(seen) = ToSet(answer)
      <4>1. ASSUME n = Len(answer)
            PROVE  DOMAIN seen = DOMAIN answer /\ \A i \in DOMAIN answer : seen[i] = answer[i]
        BY ONLY <3>4, <3>6, <4>1
      <4> QED
        BY ONLY <4>1 DEF ToSet
    <3> QED
      BY <3>1, <3>3, <3>4, <3>5, <3>7, <3>8, <3>9
  <2> QED
    BY <2>1 DEF PagesAreTheAnswer
<1> QED
  BY <1>1, SearchInvariantHolds, PageInvariantHolds, PTL

-----------------------------------------------------------------------------
(***************************************************************************)
(* The words to highlight.                                                 *)
(***************************************************************************)
\* Every document found holds one of the terms.
AreTold(ds, scored, terms) ==
    \A d \in scored : \E t \in terms : d \in HoldersOf(ds, t)

\* Without parts of words and similar words, the terms are words of the query.
AreAsked(m, q, terms) == (~m.partial /\ ~m.fuzzy) => terms \subseteq ToSet(Tokens(q))

TermsStand(p, ds, ix, q, m, ws, scored, terms) ==
    /\ (p \in {"phrase", "answer", "more", "end"} /\ m.phrase) => terms = {}
    /\ p = "words" => /\ ws \subseteq ToSet(Tokens(q))
                      /\ AreTold(ds, scored, terms) /\ AreAsked(m, q, terms)
    /\ (p \in {"rank", "answer", "more", "end"} /\ ~m.phrase) =>
          /\ terms \subseteq DOMAIN ix.dict => AreTold(ds, scored, terms)
          /\ AreAsked(m, q, terms)

TermsInvariant ==
    TermsStand(pc, docs, index, query, mode, words, DOMAIN doc_score, matched)

LEMMA BeginTerms ==
    ASSUME NEW q, NEW m \in AnyMode, NEW lim, NEW off, Begin(q, m, lim, off)
    PROVE  TermsInvariant'
<1>1. /\ query' = q /\ words' = ToSet(Tokens(q)) /\ matched' = {} /\ doc_score' = << >>
      /\ pc' = IF m.phrase THEN "phrase"
               ELSE IF N = 0 \/ TotalLength = 0 THEN "answer" ELSE "words"
  BY DEF Begin
<1>2. DOMAIN doc_score' = {} /\ words' \subseteq ToSet(Tokens(query'))
  BY <1>1, EmptySeq
<1>3. AreTold(docs', DOMAIN doc_score', matched') /\ AreAsked(mode', query', matched')
  BY <1>1, <1>2 DEF AreTold, AreAsked
<1> QED
  BY <1>1, <1>2, <1>3 DEF TermsInvariant, TermsStand

\* Terms that are added tell the documents they add.
LEMMA AddedAreTold ==
    ASSUME Collected, IdfIsPositive, NEW factor, AddTerms(factor),
           AreTold(docs, DOMAIN doc_score, matched)
    PROVE  /\ AreTold(docs, DOMAIN doc_score', matched')
           /\ matched' \subseteq matched \union DOMAIN factor
<1> DEFINE telling == {t \in DOMAIN factor : HoldersOf(docs, t) \notin {{}, DOMAIN docs}}
<1>1. /\ DOMAIN doc_score' = DOMAIN doc_score \union UNION {HoldersOf(docs, t) : t \in telling}
      /\ matched' = matched \union telling
  BY TermsAdd DEF Collected
<1>2. telling \subseteq DOMAIN factor
  OBVIOUS
<1> HIDE DEF telling
<1>3. \A d \in UNION {HoldersOf(docs, t) : t \in telling} : \E t \in telling : d \in HoldersOf(docs, t)
  OBVIOUS
<1> QED
  BY <1>1, <1>2, <1>3 DEF AreTold

LEMMA WordTerms ==
    ASSUME Collected, IdfIsPositive, TermsInvariant,
           NEW w \in words, ExactWord(w) \/ PartialWord(w) \/ OtherWord(w)
    PROVE  TermsInvariant'
<1>1. /\ pc = "words" /\ words' = words \ {w}
      /\ UNCHANGED <<pc, docs, index, query, mode>>
  BY DEF ExactWord, PartialWord, OtherWord, Taken, collection, request
<1>2. /\ words \subseteq ToSet(Tokens(query)) /\ AreTold(docs, DOMAIN doc_score, matched)
      /\ AreAsked(mode, query, matched)
  BY <1>1 DEF TermsInvariant, TermsStand
<1>3. AreTold(docs, DOMAIN doc_score', matched') /\ AreAsked(mode, query, matched')
  <2>1. CASE ExactWord(w)
    <3> DEFINE factor == [t \in {w} |-> 100]
    <3>1. AddTerms(factor)
      BY <2>1 DEF ExactWord
    <3>2. DOMAIN factor \subseteq ToSet(Tokens(query))
      BY <1>2
    <3> HIDE DEF factor
    <3>3. AreTold(docs, DOMAIN doc_score', matched') /\ matched' \subseteq matched \union DOMAIN factor
      BY <1>2, <3>1, AddedAreTold
    <3> QED
      BY <1>2, <3>2, <3>3 DEF AreAsked
  <2>2. CASE doc_score' = doc_score /\ matched' = matched
    BY <1>2, <2>2
  <2>3. ASSUME NEW factor, AddTerms(factor), mode.partial \/ mode.fuzzy
        PROVE  AreTold(docs, DOMAIN doc_score', matched') /\ AreAsked(mode, query, matched')
    <3>1. AreTold(docs, DOMAIN doc_score', matched')
      BY <1>2, <2>3, AddedAreTold
    <3> QED
      BY <2>3, <3>1 DEF AreAsked
  <2>4. CASE PartialWord(w)
    BY <2>3, <2>4 DEF PartialWord
  <2>5. CASE OtherWord(w)
    BY <2>2, <2>3, <2>5 DEF OtherWord
  <2> QED
    BY <2>1, <2>4, <2>5
<1>4. TermsStand("words", docs, index, query, mode, words', DOMAIN doc_score', matched')
  BY <1>1, <1>2, <1>3 DEF TermsStand
<1> QED
  BY <1>1, <1>4 DEF TermsInvariant

\* A term of the index that does not tell is in all documents.
LEMMA TermOfAll ==
    ASSUME Collected, IdfIsPositive, NEW t \in Vocabulary, ~(IdfOf(t) > 0), NEW d \in DOMAIN docs
    PROVE  d \in HoldersOf(docs, t)
<1>1. HoldersOf(docs, t) # {}
  BY HoldersCounted DEF Collected
<1>2. HoldersOf(docs, t) \in {{}, DOMAIN docs}
  BY TermTells DEF Collected
<1> QED
  BY <1>1, <1>2

LEMMA PartOfItself ==
    ASSUME Collected, StemsAreLists, NEW t \in Vocabulary
    PROVE  t \in Holders(t)
<1>1. HoldersOf(docs, t) # {}
  BY HoldersCounted DEF Collected
<1>2. PICK d \in DOMAIN docs : t \in ToSet(Tokens(docs[d]))
  BY <1>1 DEF HoldersOf
<1>3. IsList(docs[d])
  BY DEF Collected, TextsAreLists
<1>4. IsList(t) /\ Len(t) \in Nat
  BY <1>2, <1>3, TokensAreWords
<1>5. SubSeq(t, 1, Len(t)) = t
  BY <1>4, WholeSequence DEF IsList
<1>6. 0 \in 0 .. Len(t) - Len(t) /\ 0 + 1 = 1 /\ 0 + Len(t) = Len(t)
  BY <1>4
<1>7. HasSubstring(t, t)
  BY <1>5, <1>6 DEF HasSubstring
<1> QED
  BY <1>7 DEF Holders

LEMMA WholeTerms ==
    ASSUME Collected, IdfIsPositive, StemsAreLists, TermsInvariant, WholeQuery
    PROVE  TermsInvariant'
<1> DEFINE whole == WholeQueryText(query)
           telling == {t \in Holders(whole) : IdfOf(t) > 0}
           factor == [t \in telling |-> PartialMatchFactor]
           holding == {d \in DOMAIN docs : HasSubstring(Lowered(docs[d]), whole)}
<1>1. /\ pc = "words" /\ pc' = "rank" /\ UNCHANGED <<docs, index, query, mode>>
      /\ \/ doc_score' = doc_score /\ matched' = matched
         \/ /\ doc_score = << >> /\ mode.partial
            /\ \/ AddTerms(factor)
               \/ /\ telling = {} /\ DOMAIN doc_score' = holding
                  /\ matched' = IF holding # {} THEN matched \union {whole} ELSE matched
  BY DEF WholeQuery, collection, request
<1>2. AreTold(docs, DOMAIN doc_score, matched) /\ AreAsked(mode, query, matched)
  BY <1>1 DEF TermsInvariant, TermsStand
<1>3. AreAsked(mode, query, matched')
  BY <1>1, <1>2 DEF AreAsked
<1> HIDE DEF whole, factor
<1>4. ASSUME matched' \subseteq Vocabulary PROVE AreTold(docs, DOMAIN doc_score', matched')
  <2>1. CASE doc_score' = doc_score /\ matched' = matched
    BY <1>2, <2>1
  <2>2. CASE AddTerms(factor)
    BY <1>2, <2>2, AddedAreTold
  <2>3. CASE /\ telling = {} /\ DOMAIN doc_score' = holding
             /\ matched' = IF holding # {} THEN matched \union {whole} ELSE matched
    <3>1. ASSUME NEW d \in holding PROVE \E t \in matched' : d \in HoldersOf(docs, t)
      <4>1. whole \in matched' /\ whole \in Vocabulary
        BY <1>4, <2>3
      <4>2. ~(IdfOf(whole) > 0)
        BY <2>3, <4>1, PartOfItself
      <4>3. d \in HoldersOf(docs, whole)
        BY <4>1, <4>2, TermOfAll
      <4> QED
        BY <4>1, <4>3
    <3> QED
      BY <2>3, <3>1 DEF AreTold
  <2> QED
    BY <1>1, <2>1, <2>2, <2>3
<1>5. TermsStand("rank", docs, index, query, mode, words', DOMAIN doc_score', matched')
  BY <1>3, <1>4 DEF TermsStand, Vocabulary
<1> QED
  BY <1>1, <1>5 DEF TermsInvariant

LEMMA SearchTerms ==
    ASSUME SearchInvariant, TermsInvariant, StemsAreLists, IdfIsPositive, Next
    PROVE  TermsInvariant'
<1>1. Collected /\ mode \in AnyMode
  BY DEF SearchInvariant, Requested
<1>2. CASE \E q \in Queries, m \in Modes, lim \in Limits : Ask(q, m, lim)
  BY <1>2, BeginTerms, ModeAssumption DEF Ask, AnyMode
<1>3. CASE AskNextPage
  BY <1>1, <1>3, BeginTerms DEF AskNextPage
<1>4. CASE PhraseQuery
  <2>1. /\ pc = "phrase" /\ mode.phrase /\ pc' = "answer"
        /\ UNCHANGED <<docs, index, query, mode, words, doc_score, matched>>
    BY <1>4 DEF PhraseQuery, collection, request, SearchInvariant, PhraseStands
  <2>2. TermsStand("answer", docs, index, query, mode, words, DOMAIN doc_score, matched)
    BY <2>1 DEF TermsInvariant, TermsStand
  <2> QED
    BY <2>1, <2>2 DEF TermsInvariant
<1>5. CASE \E w \in words : ExactWord(w) \/ PartialWord(w) \/ OtherWord(w)
  BY <1>1, <1>5, WordTerms
<1>6. CASE WholeQuery
  BY <1>1, <1>6, WholeTerms
<1>7. CASE Rank
  <2>1. /\ pc = "rank" /\ ~mode.phrase /\ pc' = "answer"
        /\ UNCHANGED <<docs, index, query, mode, words, doc_score, matched>>
    BY <1>7 DEF Rank, collection, request, SearchInvariant, PhraseStands
  <2>2. TermsStand("answer", docs, index, query, mode, words, DOMAIN doc_score, matched)
    BY <2>1 DEF TermsInvariant, TermsStand
  <2> QED
    BY <2>1, <2>2 DEF TermsInvariant
<1>8. CASE Answer
  <2>1. /\ pc = "answer" /\ pc' \in {"more", "end"}
        /\ UNCHANGED <<docs, index, query, mode, words, doc_score, matched>>
    BY <1>8 DEF Answer, collection, request
  <2> QED
    BY <2>1 DEF TermsInvariant, TermsStand
<1>9. CASE Close
  BY <1>9 DEF Close, TermsInvariant, TermsStand
<1> QED
  BY <1>2, <1>3, <1>4, <1>5, <1>6, <1>7, <1>8, <1>9 DEF Next, Step

LEMMA RequestKeepsTerms ==
    ASSUME HandlersInvariant, HandlersInvariant', SearchInvariant, TermsInvariant,
           StemsAreLists, IdfIsPositive, HandlersNext
    PROVE  TermsInvariant'
<1>1. CASE Searching
  BY <1>1, SearchTerms DEF Searching
<1>2. CASE UNCHANGED vars
  BY <1>2 DEF TermsInvariant, vars, collection, request
<1>3. CASE pc = "idle" /\ \E cs : Install(cs)
  BY <1>3 DEF Install, search, TermsInvariant, TermsStand
<1> QED
  BY <1>1, <1>2, <1>3, RequestsSeen

\* A document with a token to highlight has a word that is highlighted.
LEMMA WordToMark ==
    ASSUME StemsAreNotEmpty, NEW text, IsList(text), NEW terms,
           NEW t \in ToSet(Tokens(text)), t \in terms
    PROVE  \E w \in ToSet(SplitWords(text)) : WordMatches(w, terms)
<1>1. PICK w \in ToSet(SplitWords(text)) : t = Normalized(w)
  BY TokensOfWords
<1>2. IsList(w) /\ w # << >>
  BY WordsOfText
<1>3. IsList(Lowered(w)) /\ Lowered(w) # << >>
  <2> DEFINE low == Lowered(w)
  <2>1. Len(w) \in Nat \ {0} /\ DOMAIN w = 1 .. Len(w)
    BY <1>2, ListsHaveLengths, EmptySeq DEF IsList
  <2>2. low \in [1 .. Len(w) -> ToSet(low)] /\ DOMAIN low = 1 .. Len(w)
    BY <2>1 DEF Lowered, ToSet
  <2> HIDE DEF low
  <2>3. IsList(low)
    BY <2>1, <2>2, IsASeq DEF IsList
  <2>4. 1 \in DOMAIN low
    BY <2>1, <2>2
  <2>5. low # << >>
    BY <2>4, EmptySeq
  <2> QED
    BY <2>3, <2>5 DEF low
<1>4. t = Stem(Lowered(w)) /\ t # << >>
  BY <1>1, <1>3 DEF StemsAreNotEmpty, Normalized
<1> QED
  BY <1>4 DEF WordMatches

LEMMA FirstPartOf ==
    ASSUME NEW T, NEW s, ListsOnce(s, T), NEW n \in Nat
    PROVE  ToSet(FirstOf(s, n)) \subseteq ToSet(s)
<1> DEFINE k == Smaller(n, Len(s))
           first == SubSeq(s, 1, k)
<1>0. FirstOf(s, n) = first
  BY DEF FirstOf
<1>1. s \in Seq(T) /\ Len(s) \in Nat /\ DOMAIN s = 1 .. Len(s)
  BY DEF ListsOnce
<1>2. k \in Nat /\ k <= Len(s)
  BY ONLY <1>1, n \in Nat DEF Smaller
<1> HIDE DEF k
<1>3. 1 \in 1 .. Len(s) + 1 /\ k \in 1 - 1 .. Len(s) /\ k - 1 + 1 = k
      /\ \A i \in 1 .. k : 1 + i - 1 = i /\ i \in 1 .. Len(s)
  BY <1>1, <1>2
<1>4. /\ first \in Seq(T) /\ Len(first) = k - 1 + 1
      /\ \A i \in 1 .. k - 1 + 1 : first[i] = s[1 + i - 1]
  BY <1>1, <1>3, SubSeqProperties
<1> HIDE DEF first
<1>5. DOMAIN first = 1 .. k /\ \A i \in 1 .. k : first[i] = s[i]
  BY <1>3, <1>4, LenProperties
<1>6. ToSet(first) \subseteq ToSet(s)
  BY <1>1, <1>3, <1>5 DEF ToSet
<1> QED
  BY <1>0, <1>6

\* What a page is cut out of is part of the answer.
LEMMA ListInAnswer ==
    ASSUME SearchInvariant, PageInvariant, StemsAreLists, IdfIsPositive,
           pc \in {"answer", "more", "end"}
    PROVE  ToSet(full_list) \subseteq ToSet(AnswerOf(docs, index, mode, query))
<1> DEFINE answer == AnswerOf(docs, index, mode, query)
           n == offset + limit
<1>1. ListsOnce(answer, DOMAIN docs)
  BY AnswerListed DEF SearchInvariant, Requested
<1>2. full_list = FirstOf(answer, n) /\ limit \in 1 .. MaxLimit /\ offset \in 0 .. MaxOffset
  BY DEF PageInvariant, PageStands
<1>3. n \in Nat
  BY <1>2, LimitAssumption
<1> HIDE DEF answer, n
<1>4. ToSet(full_list) \subseteq ToSet(answer)
  BY <1>1, <1>2, <1>3, FirstPartOf
<1> QED
  BY <1>4 DEF answer

\* Every document found has a token among the terms to highlight.
LEMMA TokenToMark ==
    ASSUME SearchInvariant, PageInvariant, TermsInvariant, StemsAreLists, IdfIsPositive,
           Answered, matched \subseteq Vocabulary, NEW d \in Found
    PROVE  d \in DOMAIN docs /\ \E t \in ToSet(Tokens(docs[d])) : t \in QueryTerms
<1>1. pc \in {"more", "end"} /\ Collected /\ IsList(query)
  BY DEF Answered, SearchInvariant, Requested
<1>2. d \in ToSet(AnswerOf(docs, index, mode, query))
  BY <1>1, ListInAnswer DEF Found
<1>3. CASE mode.phrase
  <2> DEFINE phrase == Tokens(query)
  <2>1. matched = {} /\ QueryTerms = ToSet(phrase)
    BY <1>1, <1>3 DEF TermsInvariant, TermsStand, QueryTerms, QueryTokens
  <2>2. phrase # << >>
    <3>1. ASSUME phrase = << >> PROVE FALSE
      <4>1. AnswerOf(docs, index, mode, query) = << >>
        BY <1>3, <3>1 DEF AnswerOf, PhraseList
      <4> QED
        BY <1>2, <4>1, EmptyListed
    <3> QED
      BY <3>1
  <2>3. IsList(phrase)
    BY <1>1, TokensAreList
  <2>4. d \in PhraseHolders(docs, query)
    <3>1. ToSet(full_list) \subseteq PhraseHolders(docs, query)
      BY <1>1, <1>3, <2>2 DEF SearchInvariant, PhraseStands, PhraseAnswered
    <3> QED
      BY <3>1 DEF Found
  <2>5. d \in DOMAIN docs /\ HasSubstring(Tokens(docs[d]), phrase)
    BY <2>4 DEF PhraseHolders
  <2> HIDE DEF phrase
  <2>6. 1 \in DOMAIN phrase
    <3>1. Len(phrase) \in Nat \ {0} /\ DOMAIN phrase = 1 .. Len(phrase)
      BY <2>2, <2>3, ListsHaveLengths, EmptySeq DEF IsList
    <3> QED
      BY <3>1
  <2>7. IsList(Tokens(docs[d]))
    BY <1>1, <2>5, TokensAreList DEF Collected, TextsAreLists
  <2>8. phrase[1] \in ToSet(Tokens(docs[d]))
    BY <2>3, <2>5, <2>6, <2>7, HoldersHaveAll
  <2>9. phrase[1] \in ToSet(phrase)
    BY <2>6 DEF ToSet
  <2> QED
    BY <2>1, <2>5, <2>8, <2>9
<1>4. CASE ~mode.phrase
  <2>1. d \in DOMAIN doc_score
    BY <1>1, <1>2, <1>4 DEF PageInvariant, PageStands
  <2>2. AreTold(docs, DOMAIN doc_score, matched) /\ AreAsked(mode, query, matched)
    BY <1>1, <1>4 DEF TermsInvariant, TermsStand, Vocabulary
  <2>3. PICK t \in matched : d \in HoldersOf(docs, t)
    BY <2>1, <2>2 DEF AreTold
  <2>4. t \in QueryTerms
    BY <2>2, <2>3 DEF QueryTerms, QueryTokens, AreAsked
  <2> QED
    BY <2>3, <2>4 DEF HoldersOf
<1> QED
  BY <1>3, <1>4

\* process_one_query and handleSearch: a document found by terms of the index
\* has a word the highlighter marks, whatever the query found it by: words of
\* the query, terms they are a part of, similar terms, a phrase or the whole
\* query; for any collection, query, mode and page.
THEOREM HighlightsCorrect ==
    (StemsAreLists /\ StemsAreNotEmpty /\ IdfIsPositive) =>
        (HandlersSpec => []ResultsHighlighted)
<1> SUFFICES ASSUME StemsAreLists, StemsAreNotEmpty, IdfIsPositive
             PROVE  HandlersSpec => []ResultsHighlighted
  OBVIOUS
<1>1. HandlersInit => TermsInvariant
  BY DEF HandlersInit, Init, TermsInvariant, TermsStand
<1>2. HandlersInvariant /\ HandlersInvariant' /\ SearchInvariant /\ TermsInvariant
      /\ [HandlersNext]_<<vars, handlerVars>> => TermsInvariant'
  <2>1. ASSUME HandlersInvariant, HandlersInvariant', SearchInvariant, TermsInvariant, HandlersNext
        PROVE  TermsInvariant'
    BY <2>1, RequestKeepsTerms
  <2>2. ASSUME TermsInvariant, UNCHANGED <<vars, handlerVars>> PROVE TermsInvariant'
    BY <2>2 DEF TermsInvariant, vars, collection, request
  <2> QED
    BY <2>1, <2>2
<1>3. SearchInvariant /\ PageInvariant /\ TermsInvariant => ResultsHighlighted
  <2>1. ASSUME SearchInvariant, PageInvariant, TermsInvariant, Answered, matched \subseteq Vocabulary,
               NEW d \in Found
        PROVE  \E w \in ToSet(SplitWords(docs[d])) : WordMatches(w, QueryTerms)
    <3>1. d \in DOMAIN docs /\ \E t \in ToSet(Tokens(docs[d])) : t \in QueryTerms
      BY <2>1, TokenToMark
    <3>2. IsList(docs[d])
      BY <2>1, <3>1 DEF SearchInvariant, Collected, TextsAreLists
    <3> QED
      BY <3>1, <3>2, WordToMark
  <2> QED
    BY <2>1 DEF ResultsHighlighted
<1> QED
  BY <1>1, <1>2, <1>3, SearchInvariantHolds, PageInvariantHolds, PTL DEF HandlersSpec

-----------------------------------------------------------------------------
(***************************************************************************)
(* Nothing is found that does not hold the query.                          *)
(***************************************************************************)
\* What is looked for of the whole query is the query in lower case, less
\* blanks and a byte order mark around it.
IsPartOfQuery(q, whole) ==
    \E i \in DOMAIN q : \E k \in i .. Len(q) :
        /\ \A n \in DOMAIN q \ (i .. k) : q[n] \in {Blank, ByteOrderMark}
        /\ whole = Lowered(SubSeq(q, i, k))

LEMMA WholeIsPart ==
    ASSUME NEW q, IsList(q), q # << >>
    PROVE  IsPartOfQuery(q, WholeQueryText(q))
<1> DEFINE solid == {i \in DOMAIN q : q[i] # Blank}
           start == IF q[1] = ByteOrderMark THEN 2 ELSE Min(solid \union {Len(q) + 1})
           end == Max(solid \union {0})
<1>1. Len(q) \in Nat \ {0} /\ DOMAIN q = 1 .. Len(q) /\ q \in Seq(ToSet(q))
  BY ListsHaveLengths, EmptySeq DEF IsList
<1>2. WholeQueryText(q) = IF start <= end THEN Lowered(SubSeq(q, start, end)) ELSE q
  BY DEF WholeQueryText
<1>3. end \in solid \union {0} /\ \A i \in solid : end >= i
  <2>1. solid \union {0} \subseteq 0 .. Len(q) /\ solid \union {0} # {}
    BY <1>1
  <2> HIDE DEF solid
  <2> QED
    BY <1>1, <2>1, LargestExists
<1>4. q[1] # ByteOrderMark => start \in solid \union {Len(q) + 1} /\ \A i \in solid : start <= i
  <2>1. solid \union {Len(q) + 1} \subseteq Nat /\ solid \union {Len(q) + 1} # {}
    BY <1>1
  <2> HIDE DEF solid
  <2> QED
    BY <2>1, SmallestExists
<1> HIDE DEF end, start
<1>5. solid \subseteq 1 .. Len(q) /\ \A n \in DOMAIN q : n \notin solid => q[n] = Blank
  BY <1>1
<1>6. q[1] = ByteOrderMark => start = 2
  BY DEF start
<1> HIDE DEF solid
<1>7. start \in 1 .. Len(q) + 1 /\ end \in 0 .. Len(q)
  <2>1. q[1] = ByteOrderMark => start \in 1 .. Len(q) + 1
    BY <1>1, <1>6
  <2>2. ASSUME q[1] # ByteOrderMark PROVE start \in 1 .. Len(q) + 1
    <3>1. start \in 1 .. Len(q) \/ start = Len(q) + 1
      BY <1>4, <1>5, <2>2
    <3>2. Len(q) \in Nat \ {0}
      BY <1>1
    <3> QED
      BY ONLY <3>1, <3>2
  <2> QED
    BY <1>1, <1>3, <1>5, <2>1, <2>2
<1>8. ASSUME NEW n \in DOMAIN q, n < start \/ n > end
      PROVE  q[n] \in {Blank, ByteOrderMark}
  <2>1. CASE n > end
    <3>1. n \notin solid
      BY <1>1, <1>3, <1>7, <2>1
    <3> QED
      BY <1>5, <3>1
  <2>2. CASE n < start /\ q[1] = ByteOrderMark
    <3>1. n = 1
      BY <1>1, <1>6, <2>2
    <3> QED
      BY <2>2, <3>1
  <2>3. CASE n < start /\ q[1] # ByteOrderMark
    <3>1. n \notin solid
      BY <1>1, <1>4, <1>7, <2>3
    <3> QED
      BY <1>5, <3>1
  <2> QED
    BY <1>8, <2>1, <2>2, <2>3
<1>9. CASE start <= end
  <2>1. start \in DOMAIN q /\ end \in start .. Len(q)
    BY <1>1, <1>7, <1>9
  <2>2. \A n \in DOMAIN q \ (start .. end) : n < start \/ n > end
    BY <1>1, <1>7
  <2>3. \A n \in DOMAIN q \ (start .. end) : q[n] \in {Blank, ByteOrderMark}
    BY <1>8, <2>2
  <2>4. WholeQueryText(q) = Lowered(SubSeq(q, start, end))
    BY <1>2, <1>9
  <2> QED
    BY <2>1, <2>3, <2>4 DEF IsPartOfQuery
<1>10. CASE ~(start <= end)
  <2>1. 1 \in DOMAIN q /\ Len(q) \in 1 .. Len(q) /\ DOMAIN q \ (1 .. Len(q)) = {}
    BY <1>1
  <2>2. \A n \in DOMAIN q : n < start \/ n > end
    BY <1>1, <1>7, <1>10
  <2>3. \A n \in DOMAIN q : Lower[q[n]] = q[n]
    BY <1>8, <2>2, CaseAssumption
  <2>4. SubSeq(q, 1, Len(q)) = q
    BY <1>1, WholeSequence
  <2>5. Lowered(q) = q
    <3>1. q = [n \in DOMAIN q |-> q[n]]
      <4>1. q \in [1 .. Len(q) -> ToSet(q)]
        BY <1>1, LenProperties
      <4> QED
        BY <1>1, <4>1
    <3> QED
      BY <2>3, <3>1 DEF Lowered
  <2>6. WholeQueryText(q) = Lowered(SubSeq(q, 1, Len(q)))
    BY <1>2, <1>10, <2>4, <2>5
  <2> QED
    BY <2>1, <2>6 DEF IsPartOfQuery
<1> QED
  BY <1>9, <1>10

HoldsQuery(ds, m, q, d) ==
    \/ ToSet(Tokens(ds[d])) \cap ToSet(Tokens(q)) # {}
    \/ /\ m.partial
       /\ \/ \E t \in ToSet(Tokens(ds[d])), w \in ToSet(Tokens(q)) : HasSubstring(t, w)
          \/ \E whole : /\ IsPartOfQuery(q, whole)
                        /\ \E t \in ToSet(Tokens(ds[d])) \union {Lowered(ds[d])} :
                              HasSubstring(t, whole)

AllHold(ds, m, q, scored) == \A d \in scored : HoldsQuery(ds, m, q, d)

FoundStands(p, ds, m, q, ws, scored) ==
    /\ p = "words" => ws \subseteq ToSet(Tokens(q))
    /\ (p \in {"words", "rank", "answer", "more", "end"} /\ ~m.phrase /\ ~m.fuzzy) =>
          AllHold(ds, m, q, scored)

FoundInvariant == FoundStands(pc, docs, mode, query, words, DOMAIN doc_score)

LEMMA BeginFound ==
    ASSUME NEW q, NEW m, NEW lim, NEW off, Begin(q, m, lim, off)
    PROVE  FoundInvariant'
<1>1. query' = q /\ words' = ToSet(Tokens(q)) /\ doc_score' = << >>
  BY DEF Begin
<1>2. DOMAIN doc_score' = {} /\ words' \subseteq ToSet(Tokens(query'))
  BY <1>1, EmptySeq
<1> QED
  BY <1>2 DEF FoundInvariant, FoundStands, AllHold

\* Terms whose holders hold the query add only such documents.
LEMMA AddedHold ==
    ASSUME Collected, IdfIsPositive, NEW factor, AddTerms(factor), AllHold(docs, mode, query, DOMAIN doc_score),
           \A t \in DOMAIN factor : \A d \in HoldersOf(docs, t) : HoldsQuery(docs, mode, query, d)
    PROVE  AllHold(docs, mode, query, DOMAIN doc_score')
<1> DEFINE telling == {t \in DOMAIN factor : HoldersOf(docs, t) \notin {{}, DOMAIN docs}}
<1>1. DOMAIN doc_score' = DOMAIN doc_score \union UNION {HoldersOf(docs, t) : t \in telling}
  BY TermsAdd DEF Collected
<1>2. telling \subseteq DOMAIN factor
  OBVIOUS
<1> HIDE DEF telling
<1>3. \A d \in UNION {HoldersOf(docs, t) : t \in telling} : \E t \in DOMAIN factor : d \in HoldersOf(docs, t)
  BY <1>2
<1> QED
  BY <1>1, <1>3 DEF AllHold

LEMMA WordFound ==
    ASSUME Collected, IdfIsPositive, SearchInvariant, FoundInvariant,
           NEW w \in words, ExactWord(w) \/ PartialWord(w) \/ OtherWord(w)
    PROVE  FoundInvariant'
<1>1. /\ pc = "words" /\ words' = words \ {w} /\ ~mode.phrase
      /\ UNCHANGED <<pc, docs, query, mode>>
  BY DEF ExactWord, PartialWord, OtherWord, Taken, collection, request, SearchInvariant, PhraseStands
<1>2. words \subseteq ToSet(Tokens(query)) /\ w \in ToSet(Tokens(query))
  BY <1>1 DEF FoundInvariant, FoundStands
<1>3. ASSUME ~mode.fuzzy PROVE AllHold(docs, mode, query, DOMAIN doc_score')
  <2>1. AllHold(docs, mode, query, DOMAIN doc_score)
    BY <1>1, <1>3 DEF FoundInvariant, FoundStands
  <2>2. CASE ExactWord(w)
    <3> DEFINE factor == [t \in {w} |-> 100]
    <3>1. AddTerms(factor)
      BY <2>2 DEF ExactWord
    <3>2. ASSUME NEW d \in HoldersOf(docs, w) PROVE HoldsQuery(docs, mode, query, d)
      BY <1>2 DEF HoldersOf, HoldsQuery
    <3>3. DOMAIN factor = {w}
      OBVIOUS
    <3> HIDE DEF factor
    <3> QED
      BY <2>1, <3>1, <3>2, <3>3, AddedHold
  <2>3. CASE PartialWord(w)
    <3> DEFINE factor == [t \in Holders(w) |-> PartialMatchFactor]
    <3>1. AddTerms(factor) /\ mode.partial
      BY <2>3 DEF PartialWord
    <3>2. ASSUME NEW t \in Holders(w), NEW d \in HoldersOf(docs, t) PROVE HoldsQuery(docs, mode, query, d)
      BY <1>2, <3>1 DEF Holders, HoldersOf, HoldsQuery
    <3>3. DOMAIN factor = Holders(w)
      OBVIOUS
    <3> HIDE DEF factor
    <3> QED
      BY <2>1, <3>1, <3>2, <3>3, AddedHold
  <2>4. CASE OtherWord(w)
    <3>1. doc_score' = doc_score
      BY <1>3, <2>4 DEF OtherWord
    <3> QED
      BY <2>1, <3>1
  <2> QED
    BY <2>2, <2>3, <2>4
<1> QED
  BY <1>1, <1>2, <1>3 DEF FoundInvariant, FoundStands

LEMMA WholeFound ==
    ASSUME SearchInvariant, IdfIsPositive, FoundInvariant, WholeQuery
    PROVE  FoundInvariant'
<1> DEFINE whole == WholeQueryText(query)
           telling == {t \in Holders(whole) : IdfOf(t) > 0}
           factor == [t \in telling |-> PartialMatchFactor]
           holding == {d \in DOMAIN docs : HasSubstring(Lowered(docs[d]), whole)}
<1>1. /\ pc = "words" /\ pc' = "rank" /\ UNCHANGED <<docs, query, mode, words>>
      /\ \/ doc_score' = doc_score
         \/ mode.partial /\ query # << >> /\ (AddTerms(factor) \/ DOMAIN doc_score' = holding)
  BY DEF WholeQuery, collection, request
<1>2. ~mode.phrase /\ Collected /\ IsList(query)
  BY <1>1 DEF SearchInvariant, PhraseStands, Requested
<1>3. DOMAIN factor \subseteq Holders(whole)
  OBVIOUS
<1>4. query # << >> => IsPartOfQuery(query, whole)
  BY <1>2, WholeIsPart
<1> HIDE DEF whole, factor
<1>5. ASSUME ~mode.fuzzy PROVE AllHold(docs, mode, query, DOMAIN doc_score')
  <2>1. AllHold(docs, mode, query, DOMAIN doc_score)
    BY <1>1, <1>2, <1>5 DEF FoundInvariant, FoundStands
  <2>2. CASE mode.partial /\ query # << >> /\ AddTerms(factor)
    <3>1. ASSUME NEW t \in DOMAIN factor, NEW d \in HoldersOf(docs, t) PROVE HoldsQuery(docs, mode, query, d)
      BY <1>3, <1>4, <2>2, <3>1 DEF Holders, HoldersOf, HoldsQuery
    <3> QED
      BY <1>2, <2>1, <2>2, <3>1, AddedHold
  <2>3. CASE mode.partial /\ query # << >> /\ DOMAIN doc_score' = holding
    <3>1. ASSUME NEW d \in holding PROVE HoldsQuery(docs, mode, query, d)
      BY <1>4, <2>3, <3>1 DEF HoldsQuery
    <3> QED
      BY <2>3, <3>1 DEF AllHold
  <2> QED
    BY <1>1, <2>1, <2>2, <2>3
<1> QED
  BY <1>1, <1>5 DEF FoundInvariant, FoundStands

LEMMA SearchFound ==
    ASSUME SearchInvariant, FoundInvariant, IdfIsPositive, Next
    PROVE  FoundInvariant'
<1>1. Collected
  BY DEF SearchInvariant
<1>2. CASE (\E q \in Queries, m \in Modes, lim \in Limits : Ask(q, m, lim)) \/ AskNextPage
  BY <1>2, BeginFound DEF Ask, AskNextPage
<1>3. CASE PhraseQuery
  <2>1. mode.phrase /\ pc' = "answer" /\ mode' = mode
    BY <1>3 DEF PhraseQuery, request, SearchInvariant, PhraseStands
  <2> QED
    BY <2>1 DEF FoundInvariant, FoundStands
<1>4. CASE \E w \in words : ExactWord(w) \/ PartialWord(w) \/ OtherWord(w)
  BY <1>1, <1>4, WordFound
<1>5. CASE WholeQuery
  BY <1>5, WholeFound
<1>6. CASE Rank \/ Answer
  <2>1. /\ UNCHANGED <<docs, query, mode, words, doc_score>>
        /\ pc \in {"rank", "answer"} /\ pc' \in {"answer", "more", "end"}
    BY <1>6 DEF Rank, Answer, collection, request
  <2> QED
    BY <2>1 DEF FoundInvariant, FoundStands
<1>7. CASE Close
  BY <1>7 DEF Close, FoundInvariant, FoundStands
<1> QED
  BY <1>2, <1>3, <1>4, <1>5, <1>6, <1>7 DEF Next, Step

LEMMA RequestKeepsFound ==
    ASSUME HandlersInvariant, HandlersInvariant', SearchInvariant, FoundInvariant,
           IdfIsPositive, HandlersNext
    PROVE  FoundInvariant'
<1>1. CASE Searching
  BY <1>1, SearchFound DEF Searching
<1>2. CASE UNCHANGED vars
  BY <1>2 DEF FoundInvariant, vars, collection, request
<1>3. CASE pc = "idle" /\ \E cs : Install(cs)
  BY <1>3 DEF Install, search, FoundInvariant, FoundStands
<1> QED
  BY <1>1, <1>2, <1>3, RequestsSeen

\* process_one_query: what is found holds a word of the query, or, with parts
\* of words, one as a part of a token or the whole query as a part of a token
\* or of the text; for any collection, query and mode without similar words.
THEOREM OnlyHoldersFound ==
    IdfIsPositive => (HandlersSpec => []FoundHoldsQuery)
<1> SUFFICES ASSUME IdfIsPositive PROVE HandlersSpec => []FoundHoldsQuery
  OBVIOUS
<1>1. HandlersInit => FoundInvariant
  <2>1. ASSUME HandlersInit PROVE pc = "idle"
    BY <2>1 DEF HandlersInit, Init
  <2> QED
    BY <2>1 DEF FoundInvariant, FoundStands
<1>2. HandlersInvariant /\ HandlersInvariant' /\ SearchInvariant /\ FoundInvariant
      /\ [HandlersNext]_<<vars, handlerVars>> => FoundInvariant'
  <2>1. ASSUME HandlersInvariant, HandlersInvariant', SearchInvariant, FoundInvariant, HandlersNext
        PROVE  FoundInvariant'
    BY <2>1, RequestKeepsFound
  <2>2. ASSUME FoundInvariant, UNCHANGED <<vars, handlerVars>> PROVE FoundInvariant'
    BY <2>2 DEF FoundInvariant, vars, collection, request
  <2> QED
    BY <2>1, <2>2
<1>3. FoundInvariant => FoundHoldsQuery
  <2>1. ASSUME FoundInvariant, Answered, ~mode.phrase, ~mode.fuzzy, NEW d \in DOMAIN doc_score
        PROVE  HoldsQuery(docs, mode, query, d)
    BY <2>1 DEF FoundInvariant, FoundStands, AllHold, Answered
  <2> QED
    BY <2>1 DEF HoldsQuery, IsPartOfQuery, FoundHoldsQuery, TokensOf, QueryTokens
<1> QED
  BY <1>1, <1>2, <1>3, SearchInvariantHolds, PTL DEF HandlersSpec

=============================================================================
