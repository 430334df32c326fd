------------------------- MODULE EditDistanceProofs -------------------------
(***************************************************************************)
(* The two rows of levenshtein_distance compute the recurrence, for words  *)
(* over any letters and of any length.                                     *)
(***************************************************************************)
EXTENDS EditDistance, WellFoundedInduction, SequenceTheorems, TLAPS

\* The recurrence of the distances, cell by cell.
IsCell(t, x, y, p, q) ==
    t[<<p, q>>] = IF p = 0 THEN q
                  ELSE IF q = 0 THEN p
                  ELSE Cell(t[<<p, q - 1>>], t[<<p - 1, q>>], t[<<p - 1, q - 1>>],
                            Cost(x[p], y[q]))

Cells(x, y) == (0 .. Len(x)) \X (0 .. Len(y))
IsTable(t, x, y) ==
    /\ t \in [Cells(x, y) -> Nat]
    /\ \A p \in 0 .. Len(x), q \in 0 .. Len(y) : IsCell(t, x, y, p, q)

\* A non-empty set of naturals has a least member.
LEMMA LeastNatural ==
    ASSUME NEW S, S \subseteq Nat, S # {}
    PROVE  \E n \in S : \A k \in S : ~(k < n)
<1>1. PICK n \in S : \A k \in S : <<k, n>> \notin OpToRel(<, Nat)
  BY NatLessThanWellFounded, WFMin
<1> QED
  BY <1>1 DEF OpToRel

\* The first k cells of a row, after its first, filled from the row above.
RowFilled(r, k, first, above, v, w) ==
    /\ r[0] = first
    /\ \A q \in 1 .. k : r[q] = Cell(r[q - 1], above[q], above[q - 1], Cost(v, w[q]))

LEMMA CellTyped ==
    ASSUME NEW l \in Nat, NEW u \in Nat, NEW d \in Nat, NEW v, NEW w
    PROVE  Cell(l, u, d, Cost(v, w)) \in Nat
  BY DEF Cell, Smaller, Cost

\* One row of the recurrence can be filled from the row above it.
LEMMA RowExists ==
    ASSUME NEW m \in Nat, NEW first \in Nat, NEW above \in [0 .. m -> Nat],
           NEW v, NEW w
    PROVE  \E r \in [0 .. m -> Nat] : RowFilled(r, m, first, above, v, w)
<1> USE DEF RowFilled
<1> DEFINE Filled(r, k) == RowFilled(r, k, first, above, v, w)
           S == {k \in 0 .. m : \A r \in [0 .. m -> Nat] : ~Filled(r, k)}
<1>1. CASE S = {}
  <2>1. m \in 0 .. m /\ m \notin S
    <3> HIDE DEF S
    <3> QED
      BY <1>1
  <2>2. \E r \in [0 .. m -> Nat] : Filled(r, m)
    BY <2>1
  <2> QED
    BY <2>2
<1>2. CASE S # {}
  <2>1. PICK k \in S : \A l \in S : ~(l < k)
    <3>1. S \subseteq Nat
      OBVIOUS
    <3> HIDE DEF S
    <3> QED
      BY <1>2, <3>1, LeastNatural
  <2>2. CASE k = 0
    <3>1. [q \in 0 .. m |-> first] \in [0 .. m -> Nat]
      OBVIOUS
    <3>2. Filled([q \in 0 .. m |-> first], 0)
      OBVIOUS
    <3> QED
      BY <2>1, <2>2, <3>1, <3>2
  <2>3. CASE k # 0
    <3>1. k \in 1 .. m /\ k - 1 \in 0 .. m /\ k - 1 \notin S
      <4>1. k \in 0 .. m
        OBVIOUS
      <4> HIDE DEF S
      <4> QED
        BY <2>1, <2>3, <4>1
    <3>2. PICK r \in [0 .. m -> Nat] : Filled(r, k - 1)
      BY <3>1
    <3> DEFINE c == Cell(r[k - 1], above[k], above[k - 1], Cost(v, w[k]))
               s == [q \in 0 .. m |-> IF q = k THEN c ELSE r[q]]
    <3>3. c \in Nat
      BY <3>1, CellTyped
    <3>4. s \in [0 .. m -> Nat]
      BY <3>3
    <3> HIDE DEF c
    <3>5. s[0] = first
      BY <3>1, <3>2
    <3>6. ASSUME NEW q \in 1 .. k
          PROVE  s[q] = Cell(s[q - 1], above[q], above[q - 1], Cost(v, w[q]))
      <4>1. q - 1 \in 0 .. m /\ q \in 0 .. m /\ q - 1 # k /\ s[q - 1] = r[q - 1]
        BY <3>1
      <4>2. CASE q = k
        BY <4>1, <4>2 DEF c
      <4>3. CASE q # k
        <5>1. q \in 1 .. k - 1
          BY <3>1, <4>3
        <5> QED
          BY <3>2, <4>1, <4>3, <5>1
      <4> QED
        BY <4>2, <4>3
    <3>7. Filled(s, k)
      BY <3>5, <3>6
    <3> QED
      BY <2>1, <3>4, <3>7
  <2> QED
    BY <2>2, <2>3
<1> QED
  BY <1>1, <1>2

\* The whole table exists.
LEMMA TableExists ==
    ASSUME NEW x \in Seq(Nat), NEW y \in Seq(Nat)
    PROVE  \E t : IsTable(t, x, y)
<1> DEFINE n == Len(x)
           m == Len(y)
           Filled(t, k) == \A p \in 0 .. k, q \in 0 .. m : IsCell(t, x, y, p, q)
           S == {k \in 0 .. n : \A t \in [Cells(x, y) -> Nat] : ~Filled(t, k)}
<1>0. n \in Nat /\ m \in Nat
  OBVIOUS
<1>1. CASE S = {}
  <2>1. n \in 0 .. n /\ n \notin S
    <3> HIDE DEF S
    <3> QED
      BY <1>0, <1>1
  <2>2. \E t \in [Cells(x, y) -> Nat] : Filled(t, n)
    BY <2>1
  <2> QED
    BY <2>2 DEF IsTable
<1>2. CASE S # {}
  <2>1. PICK k \in S : \A l \in S : ~(l < k)
    <3>1. S \subseteq Nat
      BY <1>0
    <3> HIDE DEF S
    <3> QED
      BY <1>2, <3>1, LeastNatural
  <2>2. k \in 0 .. n
    OBVIOUS
  <2>3. CASE k = 0
    <3> DEFINE t == [c \in Cells(x, y) |-> c[2]]
    <3>1. t \in [Cells(x, y) -> Nat]
      BY <1>0 DEF Cells
    <3>2. Filled(t, 0)
      BY <1>0 DEF Cells, IsCell
    <3> QED
      BY <2>1, <2>3, <3>1, <3>2
  <2>4. CASE k # 0
    <3>1. k \in 1 .. n /\ k - 1 \in 0 .. n /\ k - 1 \notin S
      <4> HIDE DEF S
      <4> QED
        BY <1>0, <2>1, <2>2, <2>4
    <3>2. PICK t \in [Cells(x, y) -> Nat] : Filled(t, k - 1)
      BY <3>1
    <3> DEFINE above == [q \in 0 .. m |-> t[<<k - 1, q>>]]
    <3>3. above \in [0 .. m -> Nat]
      BY <1>0, <3>1 DEF Cells
    <3>4. PICK r \in [0 .. m -> Nat] : RowFilled(r, m, k, above, x[k], y)
      <4> k \in Nat
        BY <1>0, <3>1
      <4> HIDE DEF above, m
      <4> QED
        BY <1>0, <3>3, RowExists
    <3> DEFINE s == [c \in Cells(x, y) |-> IF c[1] = k THEN r[c[2]] ELSE t[c]]
    <3>5. s \in [Cells(x, y) -> Nat]
      BY <1>0 DEF Cells
    <3>6. /\ \A q \in 0 .. m : s[<<k, q>>] = r[q]
          /\ \A p \in 0 .. k - 1, q \in 0 .. m : s[<<p, q>>] = t[<<p, q>>]
      BY <1>0, <3>1 DEF Cells
    <3> HIDE DEF s
    <3>7. ASSUME NEW p \in 0 .. k, NEW q \in 0 .. m
          PROVE  IsCell(s, x, y, p, q)
      <4>1. CASE p # k
        <5>1. p \in 0 .. k - 1 /\ (p # 0 => p - 1 \in 0 .. k - 1) /\ (q # 0 => q - 1 \in 0 .. m)
          BY <1>0, <3>1, <4>1
        <5>2. IsCell(t, x, y, p, q)
          BY <3>2, <5>1
        <5> QED
          BY <3>6, <5>1, <5>2 DEF IsCell
      <4>2. CASE p = k /\ q = 0
        BY <1>0, <3>1, <3>4, <3>6, <4>2 DEF IsCell, RowFilled
      <4>3. CASE p = k /\ q # 0
        <5>1. q \in 1 .. m /\ q - 1 \in 0 .. m /\ k - 1 \in 0 .. k - 1 /\ k # 0
          BY <1>0, <3>1, <4>3
        <5>2. /\ s[<<k, q>>] = Cell(r[q - 1], above[q], above[q - 1], Cost(x[k], y[q]))
              /\ s[<<k, q - 1>>] = r[q - 1]
              /\ s[<<k - 1, q>>] = above[q]
              /\ s[<<k - 1, q - 1>>] = above[q - 1]
          BY <3>4, <3>6, <5>1 DEF RowFilled
        <5> QED
          BY <4>3, <5>1, <5>2 DEF IsCell
      <4> QED
        BY <4>1, <4>2, <4>3
    <3>8. Filled(s, k)
      BY <3>7
    <3> QED
      BY <2>1, <3>5, <3>8
  <2> QED
    BY <2>3, <2>4
<1> QED
  BY <1>1, <1>2

\* The recursive definition of the table has a meaning, and it is the
\* recurrence.
Recurrence(t, x, y) ==
    [c \in (0 .. Len(x)) \X (0 .. Len(y)) |->
        IF c[1] = 0 THEN c[2]
        ELSE IF c[2] = 0 THEN c[1]
        ELSE Cell(t[<<c[1], c[2] - 1>>],
                  t[<<c[1] - 1, c[2]>>],
                  t[<<c[1] - 1, c[2] - 1>>],
                  Cost(x[c[1]], y[c[2]]))]

LEMMA TableIsRecurrence ==
    ASSUME NEW x \in Seq(Nat), NEW y \in Seq(Nat), NEW t, IsTable(t, x, y)
    PROVE  t = Recurrence(t, x, y)
<1>1. /\ DOMAIN Recurrence(t, x, y) = DOMAIN t
      /\ t = [c \in DOMAIN t |-> t[c]]
  BY DEF Recurrence, IsTable, Cells
<1>2. ASSUME NEW c \in DOMAIN t PROVE t[c] = Recurrence(t, x, y)[c]
  <2>1. PICK p \in 0 .. Len(x), q \in 0 .. Len(y) : c = <<p, q>>
    BY DEF IsTable, Cells
  <2>2. IsCell(t, x, y, p, q)
    BY DEF IsTable
  <2> QED
    BY <2>1, <2>2 DEF IsCell, Recurrence
<1> QED
  BY <1>1, <1>2 DEF Recurrence

LEMMA DistanceTableCells ==
    ASSUME NEW x \in Seq(Nat), NEW y \in Seq(Nat),
           NEW p \in 0 .. Len(x), NEW q \in 0 .. Len(y)
    PROVE  IsCell(DistanceTable(x, y), x, y, p, q)
<1> DEFINE T == CHOOSE t : t = Recurrence(t, x, y)
<1>1. \E t : t = Recurrence(t, x, y)
  BY TableExists, TableIsRecurrence
<1>2. T = Recurrence(T, x, y)
  BY <1>1
<1>3. DistanceTable(x, y) = T
  BY DEF DistanceTable, Recurrence
<1> HIDE DEF T
<1>4. /\ <<p, q>> \in (0 .. Len(x)) \X (0 .. Len(y))
      /\ <<p, q>>[1] = p /\ <<p, q>>[2] = q
  OBVIOUS
<1>5. T[<<p, q>>] = Recurrence(T, x, y)[<<p, q>>]
  BY <1>2
<1>6. IsCell(T, x, y, p, q)
  BY <1>4, <1>5 DEF Recurrence, IsCell
<1> QED
  BY <1>3, <1>6

-----------------------------------------------------------------------------
\* The rows have their length and no index leaves them.
THEOREM TypeCorrect == Spec => []TypeOK
<1>1. Init => TypeOK
  BY DEF Init, TypeOK
<1>2. TypeOK /\ [Next]_vars => TypeOK'
  <2> SUFFICES ASSUME TypeOK, [Next]_vars PROVE TypeOK'
    OBVIOUS
  <2> USE WordsAssumption DEF TypeOK, Row
  <2>1. CASE UNCHANGED vars
    BY <2>1 DEF vars
  <2>2. ASSUME NEW x \in Words, NEW y \in Words, CallEmpty(x, y) PROVE TypeOK'
    BY <2>2 DEF CallEmpty
  <2>3. ASSUME NEW x \in Words, NEW y \in Words, Call(x, y) PROVE TypeOK'
    <3>1. x \in Seq(Nat) /\ y \in Seq(Nat) /\ Len(x) \in Nat /\ Len(x) >= 1
      BY <2>3 DEF Call
    <3> QED
      BY <2>3, <3>1 DEF Call
  <2>4. CASE BeginRow
    BY <2>4 DEF BeginRow
  <2>5. CASE FillCell
    <3>0. /\ i \in 1 .. Len(a) /\ j \in 1 .. Len(b)
          /\ j \in 0 .. Len(b) /\ j - 1 \in 0 .. Len(b)
      <4>1. Len(a) \in Nat /\ Len(b) \in Nat
        OBVIOUS
      <4> QED
        BY <2>5, <4>1 DEF FillCell
    <3>1. curr[j - 1] \in Nat /\ prev[j] \in Nat /\ prev[j - 1] \in Nat
      BY <2>5, <3>0 DEF FillCell
    <3>2. Cell(curr[j - 1], prev[j], prev[j - 1], Cost(a[i], b[j])) \in Nat
      BY <3>1, CellTyped
    <3> QED
      BY <2>5, <3>0, <3>2 DEF FillCell
  <2>6. CASE SwapRows
    BY <2>6 DEF SwapRows
  <2>7. CASE Return
    BY <2>7 DEF Return
  <2> QED
    BY <2>1, <2>2, <2>3, <2>4, <2>5, <2>6, <2>7 DEF Next, Work
<1> QED
  BY <1>1, <1>2, PTL DEF Spec

(***************************************************************************)
(* What the rows hold between two steps: prev is the row of the table      *)
(* before row i, curr the cells of row i before cell j.                    *)
(***************************************************************************)
Table == DistanceTable(a, b)

RowsHoldTable ==
    /\ pc # "idle" => \A q \in 0 .. Len(b) : prev[q] = Table[<<i - 1, q>>]
    /\ pc = "cell" => \A q \in 0 .. j - 1 : curr[q] = Table[<<i, q>>]

\* A call answers the value of the recurrence, whatever the words.
THEOREM TwoRowsSuffice == Spec => []AnswersRecurrence
<1> DEFINE IInv == RowsHoldTable /\ AnswersRecurrence
<1>1. Init => IInv
  BY DEF Init, RowsHoldTable, AnswersRecurrence, Returned
<1>2. TypeOK /\ TypeOK' /\ IInv /\ [Next]_vars => IInv'
  <2> SUFFICES ASSUME TypeOK, TypeOK', IInv, [Next]_vars PROVE IInv'
    OBVIOUS
  <2> USE DEF RowsHoldTable, AnswersRecurrence, Returned, Table
  <2>0. /\ a \in Seq(Nat) /\ b \in Seq(Nat) /\ a' \in Seq(Nat) /\ b' \in Seq(Nat)
        /\ Len(a) \in Nat /\ Len(b) \in Nat
    BY DEF TypeOK
  <2>1. CASE UNCHANGED vars
    BY <2>1 DEF vars
  <2>2. ASSUME NEW x \in Words, NEW y \in Words, CallEmpty(x, y) PROVE IInv'
    <3>1. x \in Seq(Nat) /\ y \in Seq(Nat) /\ Len(x) \in Nat /\ Len(y) \in Nat
      BY WordsAssumption
    <3>2. IsCell(DistanceTable(x, y), x, y, Len(x), Len(y))
      BY <3>1, DistanceTableCells
    <3>3. Distance(x, y) = IF x = << >> THEN Len(y) ELSE Len(x)
      BY <2>2, <3>1, <3>2 DEF Distance, IsCell, CallEmpty
    <3> QED
      BY <2>2, <3>3 DEF CallEmpty
  <2>3. ASSUME NEW x \in Words, NEW y \in Words, Call(x, y) PROVE IInv'
    <3>1. x \in Seq(Nat) /\ y \in Seq(Nat) /\ Len(x) \in Nat /\ Len(y) \in Nat
      BY WordsAssumption
    <3>2. \A q \in 0 .. Len(y) : DistanceTable(x, y)[<<0, q>>] = q
      <4> TAKE q \in 0 .. Len(y)
      <4>0. 0 \in 0 .. Len(x)
        BY <3>1
      <4>1. IsCell(DistanceTable(x, y), x, y, 0, q)
        BY <3>1, <4>0, DistanceTableCells
      <4> QED
        BY <4>1 DEF IsCell
    <3> QED
      BY <2>3, <3>1, <3>2 DEF Call
  <2>4. CASE BeginRow
    <3>1. /\ i \in 0 .. Len(a) /\ 0 \in 0 .. Len(b) /\ i # 0
          /\ curr \in Row(Len(b))
      BY <2>0, <2>4 DEF BeginRow, TypeOK
    <3>2. IsCell(Table, a, b, i, 0)
      BY <2>0, <3>1, DistanceTableCells
    <3>3. Table[<<i, 0>>] = i /\ curr'[0] = i
      BY <2>0, <2>4, <3>1, <3>2 DEF IsCell, BeginRow, Row
    <3> QED
      BY <2>0, <2>4, <3>3 DEF BeginRow
  <2>5. CASE FillCell
    <3>1. /\ i \in 0 .. Len(a) /\ j \in 1 .. Len(b) /\ j - 1 \in 0 .. j - 1
          /\ j \in 0 .. Len(b) /\ j - 1 \in 0 .. Len(b) /\ i # 0 /\ j # 0
          /\ curr \in Row(Len(b))
      BY <2>0, <2>5 DEF FillCell, TypeOK
    <3>2. IsCell(Table, a, b, i, j)
      BY <2>0, <3>1, DistanceTableCells
    <3>3. Table[<<i, j>>] = Cell(curr[j - 1], prev[j], prev[j - 1], Cost(a[i], b[j]))
      BY <2>5, <3>1, <3>2 DEF IsCell, FillCell
    <3>4. curr'[j] = Table[<<i, j>>] /\ \A q \in 0 .. j - 1 : curr'[q] = curr[q]
      BY <2>5, <3>1, <3>3 DEF FillCell, Row
    <3>5. \A q \in 0 .. j' - 1 : q = j \/ q \in 0 .. j - 1
      BY <2>5, <3>1 DEF FillCell
    <3> QED
      BY <2>5, <3>1, <3>4, <3>5 DEF FillCell
  <2>6. CASE SwapRows
    <3>1. \A q \in 0 .. Len(b) : q \in 0 .. j - 1
      BY <2>0, <2>6 DEF SwapRows, TypeOK
    <3>2. i' - 1 = i
      BY <2>6 DEF SwapRows, TypeOK
    <3> QED
      BY <2>6, <3>1, <3>2 DEF SwapRows
  <2>7. CASE Return
    <3>1. i - 1 = Len(a) /\ Len(b) \in 0 .. Len(b)
      BY <2>0, <2>7 DEF Return, TypeOK
    <3> QED
      BY <2>7, <3>1 DEF Return, Distance
  <2> QED
    BY <2>1, <2>2, <2>3, <2>4, <2>5, <2>6, <2>7 DEF Next, Work
<1> QED
  BY <1>1, <1>2, TypeCorrect, PTL DEF Spec

-----------------------------------------------------------------------------
DistanceAtLeast(x, y, p, q) ==
    LET d == DistanceTable(x, y)[<<p, q>>]
    IN  d \in Nat /\ p - q <= d /\ q - p <= d

\* No two words are nearer to each other than their lengths: a least
\* counterexample, by p + q, would have a smaller one beside it.
LEMMA DistanceAboveLengths ==
    ASSUME NEW x \in Seq(Nat), NEW y \in Seq(Nat)
    PROVE  \A p \in 0 .. Len(x), q \in 0 .. Len(y) : DistanceAtLeast(x, y, p, q)
<1>0. Len(x) \in Nat /\ Len(y) \in Nat
  OBVIOUS
<1> DEFINE S == {n \in Nat : \E p \in 0 .. Len(x), q \in 0 .. Len(y) :
                                p + q = n /\ ~DistanceAtLeast(x, y, p, q)}
<1>1. CASE S = {}
  <2> TAKE p \in 0 .. Len(x), q \in 0 .. Len(y)
  <2>1. p + q \in Nat /\ p + q \notin S
    <3> HIDE DEF S
    <3> QED
      BY <1>1
  <2> QED
    BY <2>1
<1>2. CASE S # {}
  <2>1. PICK n \in S : \A k \in S : ~(k < n)
    <3>1. S \subseteq Nat
      OBVIOUS
    <3> HIDE DEF S
    <3> QED
      BY <1>2, <3>1, LeastNatural
  <2>2. PICK p \in 0 .. Len(x), q \in 0 .. Len(y) : p + q = n /\ ~DistanceAtLeast(x, y, p, q)
    OBVIOUS
  <2>3. IsCell(DistanceTable(x, y), x, y, p, q)
    BY DistanceTableCells
  <2>4. ASSUME NEW r \in 0 .. Len(x), NEW s \in 0 .. Len(y), r + s < n
        PROVE  DistanceAtLeast(x, y, r, s)
    <3>1. r + s \in Nat /\ r + s \notin S
      <4>1. r + s \in Nat
        BY <1>0
      <4> HIDE DEF S
      <4> QED
        BY <2>1, <2>4, <4>1
    <3> QED
      BY <3>1
  <2>5. CASE p = 0 \/ q = 0
    <3>1. /\ p \in Nat /\ q \in Nat
          /\ DistanceTable(x, y)[<<p, q>>] = IF p = 0 THEN q ELSE p
      BY <1>0, <2>3, <2>5 DEF IsCell
    <3>2. DistanceAtLeast(x, y, p, q)
      BY <2>5, <3>1 DEF DistanceAtLeast
    <3> QED
      BY <2>2, <3>2
  <2>6. CASE p # 0 /\ q # 0
    <3>1. /\ p - 1 \in 0 .. Len(x) /\ q - 1 \in 0 .. Len(y)
          /\ p + (q - 1) < n /\ (p - 1) + q < n /\ (p - 1) + (q - 1) < n
      BY <2>2, <2>6
    <3>2. /\ DistanceAtLeast(x, y, p, q - 1)
          /\ DistanceAtLeast(x, y, p - 1, q)
          /\ DistanceAtLeast(x, y, p - 1, q - 1)
      BY <2>4, <3>1
    <3>3. DistanceTable(x, y)[<<p, q>>] =
              Cell(DistanceTable(x, y)[<<p, q - 1>>], DistanceTable(x, y)[<<p - 1, q>>],
                   DistanceTable(x, y)[<<p - 1, q - 1>>], Cost(x[p], y[q]))
      BY <2>3, <2>6 DEF IsCell
    <3> DEFINE left == DistanceTable(x, y)[<<p, q - 1>>]
               above == DistanceTable(x, y)[<<p - 1, q>>]
               diagonal == DistanceTable(x, y)[<<p - 1, q - 1>>]
    <3>4. /\ left \in Nat /\ above \in Nat /\ diagonal \in Nat
          /\ p - (q - 1) <= left /\ (q - 1) - p <= left
          /\ (p - 1) - q <= above /\ q - (p - 1) <= above
          /\ (p - 1) - (q - 1) <= diagonal /\ (q - 1) - (p - 1) <= diagonal
      BY <3>2 DEF DistanceAtLeast
    <3> HIDE DEF left, above, diagonal
    <3>5. p \in Nat /\ q \in Nat
      BY <1>0
    <3>6. Cost(x[p], y[q]) \in {0, 1}
      BY DEF Cost
    <3>7. LET d == Cell(left, above, diagonal, Cost(x[p], y[q]))
          IN  d \in Nat /\ p - q <= d /\ q - p <= d
      BY <3>4, <3>5, <3>6 DEF Cell, Smaller
    <3>8. DistanceAtLeast(x, y, p, q)
      BY <3>3, <3>7 DEF DistanceAtLeast, left, above, diagonal
    <3> QED
      BY <2>2, <3>8
  <2> QED
    BY <2>5, <2>6
<1> QED
  BY <1>1, <1>2

\* The length filter of find_similar_terms loses no similar term, whatever the
\* words.
THEOREM FilterLosesNothing == MaxEdits \in Nat => (Spec => []FilterKeepsSimilar)
<1> SUFFICES ASSUME MaxEdits \in Nat PROVE Spec => []FilterKeepsSimilar
  OBVIOUS
<1>1. TypeOK /\ AnswersRecurrence => FilterKeepsSimilar
  <2> SUFFICES ASSUME TypeOK, AnswersRecurrence, Returned, NEW k \in 0 .. MaxEdits, result <= k
               PROVE  LengthsWithin(a, b, k)
    BY DEF FilterKeepsSimilar
  <2>1. a \in Seq(Nat) /\ b \in Seq(Nat) /\ Len(a) \in 0 .. Len(a) /\ Len(b) \in 0 .. Len(b)
    BY DEF TypeOK
  <2>2. DistanceAtLeast(a, b, Len(a), Len(b))
    BY <2>1, DistanceAboveLengths
  <2> QED
    BY <2>1, <2>2 DEF AnswersRecurrence, Distance, DistanceAtLeast, LengthsWithin
<1> QED
  BY <1>1, TypeCorrect, TwoRowsSuffice, PTL

-----------------------------------------------------------------------------
(***************************************************************************)
(* The distance is the fewest edits.  First, induction over a row of       *)
(* numbers and over the cells of a table, from a least counterexample.     *)
(***************************************************************************)
LEMMA FromZero ==
    ASSUME NEW G, 0 \in G, \A n \in Nat : n \in G => n + 1 \in G
    PROVE  \A n \in Nat : n \in G
<1> DEFINE S == Nat \ G
<1>1. ASSUME S # {} PROVE FALSE
  <2>1. PICK n \in S : \A k \in S : ~(k < n)
    BY <1>1, LeastNatural
  <2>2. n \in Nat /\ n # 0 /\ n - 1 \in Nat /\ n - 1 < n /\ n = (n - 1) + 1
    OBVIOUS
  <2>3. n - 1 \in G
    BY <2>1, <2>2
  <2> QED
    BY <2>2, <2>3
<1> QED
  BY <1>1

LEMMA FromCorner ==
    ASSUME NEW m \in Nat, NEW n \in Nat, NEW G,
           \A p \in 0 .. m, q \in 0 .. n :
              /\ p # 0 => <<p - 1, q>> \in G
              /\ q # 0 => <<p, q - 1>> \in G
              /\ p # 0 /\ q # 0 => <<p - 1, q - 1>> \in G
              => <<p, q>> \in G
    PROVE  \A p \in 0 .. m, q \in 0 .. n : <<p, q>> \in G
<1> DEFINE H == {d \in Nat : \A p \in 0 .. m, q \in 0 .. n : p + q <= d => <<p, q>> \in G}
<1>1. 0 \in H
  <2> SUFFICES ASSUME NEW p \in 0 .. m, NEW q \in 0 .. n, p + q <= 0 PROVE <<p, q>> \in G
    OBVIOUS
  <2>1. p = 0 /\ q = 0
    OBVIOUS
  <2> QED
    BY <2>1
<1>2. ASSUME NEW d \in Nat, d \in H PROVE d + 1 \in H
  <2> SUFFICES ASSUME NEW p \in 0 .. m, NEW q \in 0 .. n, p + q <= d + 1 PROVE <<p, q>> \in G
    OBVIOUS
  <2>1. \A r \in 0 .. m, t \in 0 .. n : r + t <= d => <<r, t>> \in G
    BY <1>2
  <2>2. p # 0 => <<p - 1, q>> \in G
    BY <2>1
  <2>3. q # 0 => <<p, q - 1>> \in G
    BY <2>1
  <2>4. p # 0 /\ q # 0 => <<p - 1, q - 1>> \in G
    BY <2>1
  <2> QED
    BY <2>2, <2>3, <2>4
<1> HIDE DEF H
<1>3. \A d \in Nat : d \in H
  BY <1>1, <1>2, FromZero
<1> QED
  <2> TAKE p \in 0 .. m, q \in 0 .. n
  <2>1. p + q \in Nat /\ p + q \in H
    BY <1>3
  <2> QED
    BY <2>1 DEF H

\* One cell of the table, without the cases of its edges: what it is at most,
\* and which neighbour it has its value from.
Dist(x, y, p, q) == DistanceTable(x, y)[<<p, q>>]

AtMost(x, y, p, q) ==
    /\ p # 0 => Dist(x, y, p, q) <= Dist(x, y, p - 1, q) + 1
    /\ q # 0 => Dist(x, y, p, q) <= Dist(x, y, p, q - 1) + 1
    /\ p # 0 /\ q # 0 =>
          /\ Dist(x, y, p, q) <= Dist(x, y, p - 1, q - 1) + 1
          /\ x[p] = y[q] => Dist(x, y, p, q) <= Dist(x, y, p - 1, q - 1)

Comes(x, y, p, q) ==
    \/ p = 0 /\ q = 0 /\ Dist(x, y, p, q) = 0
    \/ p # 0 /\ Dist(x, y, p, q) = Dist(x, y, p - 1, q) + 1
    \/ q # 0 /\ Dist(x, y, p, q) = Dist(x, y, p, q - 1) + 1
    \/ p # 0 /\ q # 0 /\ Dist(x, y, p, q) = Dist(x, y, p - 1, q - 1) + 1
    \/ p # 0 /\ q # 0 /\ x[p] = y[q] /\ Dist(x, y, p, q) = Dist(x, y, p - 1, q - 1)

LEMMA DistanceCell ==
    ASSUME NEW x \in Seq(Nat), NEW y \in Seq(Nat),
           NEW p \in 0 .. Len(x), NEW q \in 0 .. Len(y)
    PROVE  Dist(x, y, p, q) \in Nat /\ AtMost(x, y, p, q) /\ Comes(x, y, p, q)
<1>0. Len(x) \in Nat /\ Len(y) \in Nat
  OBVIOUS
<1>1. \A r \in 0 .. Len(x), t \in 0 .. Len(y) :
         /\ Dist(x, y, r, t) \in Nat
         /\ IsCell(DistanceTable(x, y), x, y, r, t)
  BY DistanceAboveLengths, DistanceTableCells DEF DistanceAtLeast, Dist
<1>2. CASE p = 0
  <2>1. q # 0 => q - 1 \in 0 .. Len(y)
    BY <1>0
  <2>2. Dist(x, y, p, q) = q /\ (q # 0 => Dist(x, y, p, q - 1) = q - 1)
    BY <1>1, <1>2, <2>1 DEF IsCell, Dist
  <2> QED
    BY <1>0, <1>2, <2>2 DEF AtMost, Comes
<1>3. CASE p # 0 /\ q = 0
  <2>1. p - 1 \in 0 .. Len(x)
    BY <1>0, <1>3
  <2>2. Dist(x, y, p, q) = p /\ Dist(x, y, p - 1, q) = p - 1
    BY <1>1, <1>3, <2>1 DEF IsCell, Dist
  <2> QED
    BY <1>0, <1>3, <2>2 DEF AtMost, Comes
<1>4. CASE p # 0 /\ q # 0
  <2>1. p - 1 \in 0 .. Len(x) /\ q - 1 \in 0 .. Len(y)
    BY <1>0, <1>4
  <2> DEFINE left == Dist(x, y, p, q - 1)
             above == Dist(x, y, p - 1, q)
             diagonal == Dist(x, y, p - 1, q - 1)
  <2>2. left \in Nat /\ above \in Nat /\ diagonal \in Nat
    BY <1>1, <2>1
  <2>3. Dist(x, y, p, q) = Cell(left, above, diagonal, Cost(x[p], y[q]))
    BY <1>1, <1>4 DEF IsCell, Dist
  <2> HIDE DEF left, above, diagonal
  <2>4. LET d == Cell(left, above, diagonal, Cost(x[p], y[q]))
        IN  /\ d \in Nat /\ d <= above + 1 /\ d <= left + 1 /\ d <= diagonal + 1
            /\ x[p] = y[q] => d <= diagonal
            /\ \/ d = above + 1 \/ d = left + 1 \/ d = diagonal + 1
               \/ x[p] = y[q] /\ d = diagonal
    BY <2>2 DEF Cell, Smaller, Cost
  <2> QED
    BY <1>4, <2>3, <2>4 DEF AtMost, Comes, left, above, diagonal
<1> QED
  BY <1>2, <1>3, <1>4

(***************************************************************************)
(* No more edits than the distance, one by one: an edit of y takes no cell *)
(* up by more than one.  An edit at place e leaves what is before e and    *)
(* moves what is behind it by d: 1 when a byte was inserted, -1 when one   *)
(* was removed, 0 when one was replaced.                                   *)
(***************************************************************************)
Unmoved(d, e) == IF d = 1 THEN e - 1 ELSE e

LEMMA EditIsOneFurther ==
    ASSUME NEW x \in Seq(Nat), NEW y \in Seq(Nat), NEW z \in Seq(Nat),
           NEW d \in {-1, 0, 1}, NEW e \in 1 .. Len(y) + 1,
           d # 1 => e <= Len(y),
           Len(z) = Len(y) + d,
           \A q \in 1 .. Len(y) : q < e => z[q] = y[q],
           \A q \in 1 .. Len(y) : q > Unmoved(d, e) => z[q + d] = y[q]
    PROVE  Distance(x, z) <= Distance(x, y) + 1
<1> DEFINE m == Len(x)
           n == Len(y)
           lo == Unmoved(d, e)
           G == {c \in (0 .. m) \X (0 .. n) :
                   /\ c[2] < e => Dist(x, z, c[1], c[2]) <= Dist(x, y, c[1], c[2])
                   /\ c[2] >= lo => Dist(x, z, c[1], c[2] + d) <= Dist(x, y, c[1], c[2]) + 1}
<1>0. /\ m \in Nat /\ n \in Nat /\ Len(z) = n + d /\ lo \in 0 .. n /\ d \in Int /\ e \in Nat
      /\ lo + d >= e - 1 /\ lo + d >= 0
  BY DEF Unmoved
<1>1. ASSUME NEW p \in 0 .. m, NEW q \in 0 .. n,
             p # 0 => <<p - 1, q>> \in G,
             q # 0 => <<p, q - 1>> \in G,
             p # 0 /\ q # 0 => <<p - 1, q - 1>> \in G
      PROVE  <<p, q>> \in G
  <2>1. Dist(x, y, p, q) \in Nat /\ Comes(x, y, p, q)
    BY ONLY x \in Seq(Nat), y \in Seq(Nat), p \in 0 .. m, q \in 0 .. n, DistanceCell
  <2>2. /\ p # 0 => p - 1 \in 0 .. m /\ Dist(x, y, p - 1, q) \in Nat
        /\ q # 0 => q - 1 \in 0 .. n /\ Dist(x, y, p, q - 1) \in Nat
        /\ p # 0 /\ q # 0 => Dist(x, y, p - 1, q - 1) \in Nat
    <3>1. p # 0 => p - 1 \in 0 .. m
      BY ONLY <1>0, p \in 0 .. m
    <3>2. q # 0 => q - 1 \in 0 .. n
      BY ONLY <1>0, q \in 0 .. n
    <3> QED
      BY <3>1, <3>2, DistanceCell
  <2>3. \A t \in 0 .. n + d : /\ Dist(x, z, p, t) \in Nat
                              /\ AtMost(x, z, p, t)
                              /\ p # 0 => Dist(x, z, p - 1, t) \in Nat
    BY <1>0, <2>2, DistanceCell
  <2>4. ASSUME q < e PROVE Dist(x, z, p, q) <= Dist(x, y, p, q)
    <3>1. q \in 0 .. n + d /\ (q # 0 => q - 1 < e /\ q - 1 \in 0 .. n + d)
      BY <1>0, <2>4
    <3>2. Dist(x, z, p, q) \in Nat /\ AtMost(x, z, p, q) /\ Comes(x, z, p, q)
      BY <3>1, <1>0, DistanceCell
    <3>3. /\ p # 0 => Dist(x, z, p - 1, q) <= Dist(x, y, p - 1, q)
          /\ q # 0 => Dist(x, z, p, q - 1) <= Dist(x, y, p, q - 1)
          /\ p # 0 /\ q # 0 => Dist(x, z, p - 1, q - 1) <= Dist(x, y, p - 1, q - 1)
      BY <1>1, <2>4, <3>1
    <3>4. q # 0 => z[q] = y[q]
      BY <2>4
    <3>5. /\ p # 0 => Dist(x, z, p - 1, q) \in Nat
          /\ q # 0 => Dist(x, z, p, q - 1) \in Nat
          /\ p # 0 /\ q # 0 => Dist(x, z, p - 1, q - 1) \in Nat
      BY <1>0, <2>3, <3>1
    <3>6. CASE p = 0 /\ q = 0
      BY <2>1, <3>2, <3>6 DEF Comes
    <3>7. CASE p # 0 /\ Dist(x, y, p, q) = Dist(x, y, p - 1, q) + 1
      BY <2>1, <2>2, <3>2, <3>3, <3>5, <3>7 DEF AtMost
    <3>8. CASE q # 0 /\ Dist(x, y, p, q) = Dist(x, y, p, q - 1) + 1
      BY <2>1, <2>2, <3>2, <3>3, <3>5, <3>8 DEF AtMost
    <3>9. CASE p # 0 /\ q # 0 /\ Dist(x, y, p, q) = Dist(x, y, p - 1, q - 1) + 1
      <4>1. Dist(x, z, p, q) <= Dist(x, z, p - 1, q - 1) + 1
        BY ONLY <3>2, <3>9 DEF AtMost
      <4>2. /\ Dist(x, y, p - 1, q - 1) \in Nat /\ Dist(x, z, p - 1, q - 1) \in Nat
            /\ Dist(x, z, p - 1, q - 1) <= Dist(x, y, p - 1, q - 1)
            /\ Dist(x, y, p, q) = Dist(x, y, p - 1, q - 1) + 1
        BY ONLY <2>2, <3>3, <3>5, <3>9
      <4>3. Dist(x, z, p, q) \in Nat
        BY ONLY <3>2
      <4> QED
        BY ONLY <4>1, <4>2, <4>3
    <3>10. CASE p # 0 /\ q # 0 /\ x[p] = y[q] /\ Dist(x, y, p, q) = Dist(x, y, p - 1, q - 1)
      <4>1. x[p] = z[q]
        BY ONLY <3>4, <3>10
      <4>2. Dist(x, z, p, q) <= Dist(x, z, p - 1, q - 1)
        BY ONLY <3>2, <3>10, <4>1 DEF AtMost
      <4>3. /\ Dist(x, y, p - 1, q - 1) \in Nat /\ Dist(x, z, p - 1, q - 1) \in Nat
            /\ Dist(x, z, p - 1, q - 1) <= Dist(x, y, p - 1, q - 1)
            /\ Dist(x, y, p, q) = Dist(x, y, p - 1, q - 1)
        BY ONLY <2>2, <3>3, <3>5, <3>10
      <4>4. Dist(x, z, p, q) \in Nat
        BY ONLY <3>2
      <4> QED
        BY ONLY <4>2, <4>3, <4>4
    <3> QED
      BY <2>1, <3>6, <3>7, <3>8, <3>9, <3>10 DEF Comes
  <2>5. ASSUME q >= lo PROVE Dist(x, z, p, q + d) <= Dist(x, y, p, q) + 1
    <3>1. q + d \in 0 .. n + d
      <4>1. q \in Nat /\ n \in Nat /\ lo \in Nat /\ d \in Int /\ lo + d >= 0 /\ q >= lo /\ q <= n
        BY ONLY q \in 0 .. n, <1>0, <2>5
      <4> HIDE DEF lo, n
      <4> QED
        BY ONLY <4>1
    <3>2. Dist(x, z, p, q + d) \in Nat /\ AtMost(x, z, p, q + d)
      BY <2>3, <3>1
    <3>3. p # 0 => /\ Dist(x, z, p - 1, q + d) \in Nat
                   /\ Dist(x, z, p - 1, q + d) <= Dist(x, y, p - 1, q) + 1
      BY <1>1, <2>3, <2>5, <3>1
    <3>4. CASE p # 0 /\ Dist(x, y, p, q) = Dist(x, y, p - 1, q) + 1
      BY <2>1, <2>2, <3>2, <3>3, <3>4 DEF AtMost
    <3>5. CASE q > lo /\ ~(p # 0 /\ Dist(x, y, p, q) = Dist(x, y, p - 1, q) + 1)
      <4>1. q # 0 /\ q - 1 \in 0 .. n /\ q - 1 >= lo /\ (q - 1) + d \in 0 .. n + d
            /\ (q - 1) + d = (q + d) - 1 /\ q + d # 0 /\ q \in 1 .. n
        <5>1. q \in Nat /\ n \in Nat /\ lo \in Nat /\ d \in Int /\ lo + d >= 0 /\ q > lo /\ q <= n
          BY ONLY q \in 0 .. n, <1>0, <3>5
        <5> HIDE DEF lo, n
        <5> QED
          BY ONLY <5>1
      <4>2. /\ Dist(x, z, p, (q + d) - 1) \in Nat
            /\ Dist(x, z, p, (q + d) - 1) <= Dist(x, y, p, q - 1) + 1
            /\ p # 0 => /\ Dist(x, z, p - 1, (q + d) - 1) \in Nat
                        /\ Dist(x, z, p - 1, (q + d) - 1) <= Dist(x, y, p - 1, q - 1) + 1
        BY <1>1, <2>3, <4>1
      <4>3. z[q + d] = y[q]
        BY <3>5, <4>1
      <4>4. CASE Dist(x, y, p, q) = Dist(x, y, p, q - 1) + 1
        <5>1. Dist(x, z, p, q + d) <= Dist(x, z, p, (q + d) - 1) + 1
          BY <3>2, <4>1 DEF AtMost
        <5> QED
          <6>1. /\ Dist(x, y, p, q) \in Nat
                /\ Dist(x, y, p, q - 1) \in Nat
                /\ p # 0 => Dist(x, y, p - 1, q - 1) \in Nat
            BY <2>1, <2>2, <4>1
          <6>2. Dist(x, z, p, q + d) \in Nat
            BY <3>2
          <6> HIDE DEF lo, n
          <6> QED
            BY ONLY <4>2, <4>4, <5>1, <6>1, <6>2
      <4>5. CASE p # 0 /\ Dist(x, y, p, q) = Dist(x, y, p - 1, q - 1) + 1
        <5>1. Dist(x, z, p, q + d) <= Dist(x, z, p - 1, (q + d) - 1) + 1
          BY <3>2, <4>1, <4>5 DEF AtMost
        <5> QED
          <6>1. /\ Dist(x, y, p, q) \in Nat
                /\ Dist(x, y, p, q - 1) \in Nat
                /\ p # 0 => Dist(x, y, p - 1, q - 1) \in Nat
            BY <2>1, <2>2, <4>1
          <6>2. Dist(x, z, p, q + d) \in Nat
            BY <3>2
          <6>3. /\ Dist(x, z, p - 1, (q + d) - 1) \in Nat
                /\ Dist(x, z, p - 1, (q + d) - 1) <= Dist(x, y, p - 1, q - 1) + 1
                /\ Dist(x, y, p - 1, q - 1) \in Nat
            BY <4>2, <4>5, <6>1
          <6>4. Dist(x, y, p, q) = Dist(x, y, p - 1, q - 1) + 1
            BY <4>5
          <6> QED
            BY ONLY <5>1, <6>2, <6>3, <6>4
      <4>6. CASE p # 0 /\ x[p] = y[q] /\ Dist(x, y, p, q) = Dist(x, y, p - 1, q - 1)
        <5>1. Dist(x, z, p, q + d) <= Dist(x, z, p - 1, (q + d) - 1)
          BY <3>2, <4>1, <4>3, <4>6 DEF AtMost
        <5> QED
          <6>1. /\ Dist(x, y, p, q) \in Nat
                /\ Dist(x, y, p, q - 1) \in Nat
                /\ p # 0 => Dist(x, y, p - 1, q - 1) \in Nat
            BY <2>1, <2>2, <4>1
          <6>2. Dist(x, z, p, q + d) \in Nat
            BY <3>2
          <6>3. /\ Dist(x, z, p - 1, (q + d) - 1) \in Nat
                /\ Dist(x, z, p - 1, (q + d) - 1) <= Dist(x, y, p - 1, q - 1) + 1
            BY <4>2, <4>6
          <6> HIDE DEF lo, n
          <6> QED
            BY ONLY <4>6, <5>1, <6>1, <6>2, <6>3
      <4> QED
        BY <2>1, <3>5, <4>1, <4>4, <4>5, <4>6 DEF Comes
    <3>6. CASE q = lo /\ d = 1
      <4>1. q < e /\ (q + d) - 1 = q /\ q \in 0 .. n + d /\ q + d # 0
        BY <3>6 DEF Unmoved
      <4>2. Dist(x, z, p, q) \in Nat /\ Dist(x, z, p, q) <= Dist(x, y, p, q)
        BY <2>3, <2>4, <4>1
      <4>3. Dist(x, z, p, q + d) <= Dist(x, z, p, q) + 1
        BY <3>2, <4>1 DEF AtMost
      <4> QED
        BY <2>1, <3>2, <4>2, <4>3
    <3>7. CASE q = lo /\ d # 1 /\ ~(p # 0 /\ Dist(x, y, p, q) = Dist(x, y, p - 1, q) + 1)
      <4>1. q # 0 /\ q - 1 < e /\ q - 1 \in 0 .. n + d /\ q = e
        BY <3>7 DEF Unmoved
      <4>2. /\ Dist(x, z, p, q - 1) \in Nat
            /\ Dist(x, z, p, q - 1) <= Dist(x, y, p, q - 1)
            /\ p # 0 => /\ Dist(x, z, p - 1, q - 1) \in Nat
                        /\ Dist(x, z, p - 1, q - 1) <= Dist(x, y, p - 1, q - 1)
        BY <1>1, <2>3, <4>1
      <4>3. CASE Dist(x, y, p, q) = Dist(x, y, p, q - 1) + 1
        <5>1. ASSUME d = 0 PROVE Dist(x, z, p, q + d) <= Dist(x, z, p, q - 1) + 1
          <6>1. q + d = q
            BY <1>0, <5>1
          <6>2. Dist(x, z, p, q) <= Dist(x, z, p, q - 1) + 1
            BY <3>2, <4>1, <6>1 DEF AtMost
          <6> QED
            BY <6>1, <6>2
        <5>2. ASSUME d = -1 PROVE Dist(x, z, p, q + d) <= Dist(x, z, p, q - 1) + 1
          <6>1. q + d = q - 1
            BY <1>0, <5>2
          <6> QED
            BY <4>2, <6>1
        <5>3. Dist(x, z, p, q + d) <= Dist(x, z, p, q - 1) + 1
          <6>1. d = 0 \/ d = -1
            BY ONLY d \in {-1, 0, 1}, <3>7
          <6> QED
            BY ONLY <5>1, <5>2, <6>1
        <5> QED
          <6>1. /\ Dist(x, y, p, q - 1) \in Nat /\ Dist(x, z, p, q - 1) \in Nat
                /\ Dist(x, z, p, q - 1) <= Dist(x, y, p, q - 1)
                /\ Dist(x, y, p, q) = Dist(x, y, p, q - 1) + 1
            BY ONLY <2>2, <4>1, <4>2, <4>3
          <6>2. Dist(x, y, p, q) \in Nat /\ Dist(x, z, p, q + d) \in Nat
            BY ONLY <2>1, <3>2
          <6> QED
            BY ONLY <5>3, <6>1, <6>2
      <4>4. CASE p # 0 /\ Dist(x, y, p, q) >= Dist(x, y, p - 1, q - 1)
        <5>1. ASSUME d = 0 PROVE Dist(x, z, p, q + d) <= Dist(x, z, p - 1, q - 1) + 1
          <6>1. q + d = q
            BY <1>0, <5>1
          <6>2. Dist(x, z, p, q) <= Dist(x, z, p - 1, q - 1) + 1
            BY <3>2, <4>1, <4>4, <6>1 DEF AtMost
          <6> QED
            BY <6>1, <6>2
        <5>2. ASSUME d = -1 PROVE Dist(x, z, p, q + d) <= Dist(x, z, p - 1, q - 1) + 1
          <6>1. q + d = q - 1
            BY <1>0, <5>2
          <6>2. Dist(x, z, p, q - 1) <= Dist(x, z, p - 1, q - 1) + 1
            BY <3>2, <4>4, <6>1 DEF AtMost
          <6> QED
            BY <6>1, <6>2
        <5>3. Dist(x, z, p, q + d) <= Dist(x, z, p - 1, q - 1) + 1
          <6>1. d = 0 \/ d = -1
            BY ONLY d \in {-1, 0, 1}, <3>7
          <6> QED
            BY ONLY <5>1, <5>2, <6>1
        <5> QED
          <6>1. /\ Dist(x, y, p - 1, q - 1) \in Nat /\ Dist(x, z, p - 1, q - 1) \in Nat
                /\ Dist(x, z, p - 1, q - 1) <= Dist(x, y, p - 1, q - 1)
                /\ Dist(x, y, p - 1, q - 1) <= Dist(x, y, p, q)
            BY <2>1, <2>2, <4>1, <4>2, <4>4
          <6>2. Dist(x, y, p, q) \in Nat /\ Dist(x, z, p, q + d) \in Nat
            BY ONLY <2>1, <3>2
          <6> QED
            BY ONLY <5>3, <6>1, <6>2
      <4>5. \/ Dist(x, y, p, q) = Dist(x, y, p, q - 1) + 1
            \/ p # 0 /\ Dist(x, y, p, q) = Dist(x, y, p - 1, q - 1) + 1
            \/ p # 0 /\ Dist(x, y, p, q) = Dist(x, y, p - 1, q - 1)
        BY <2>1, <3>7, <4>1 DEF Comes
      <4>6. p # 0 => Dist(x, y, p - 1, q - 1) \in Nat
        BY <2>2, <4>1
      <4> QED
        BY <4>3, <4>4, <4>5, <4>6
    <3> QED
      BY <1>0, <2>5, <3>4, <3>5, <3>6, <3>7
  <2> QED
    BY <2>4, <2>5
<1>2. \A p \in 0 .. m, q \in 0 .. n : <<p, q>> \in G
  <2> HIDE DEF G, m, n
  <2> QED
    BY <1>0, <1>1, FromCorner
<1>3. <<m, n>> \in G
  <2>1. m \in 0 .. m /\ n \in 0 .. n
    BY <1>0
  <2> HIDE DEF G, m, n
  <2> QED
    BY ONLY <1>2, <2>1
<1>4. m \in 0 .. m /\ n \in 0 .. n /\ n >= lo
  BY <1>0
<1> QED
  BY <1>0, <1>3, <1>4 DEF Distance, Dist

\* What the three edits make of a word, place by place.
LEMMA PartOf ==
    ASSUME NEW B, NEW v \in Seq(B), NEW i1 \in 1 .. Len(v) + 1, NEW i2 \in i1 - 1 .. Len(v)
    PROVE  /\ SubSeq(v, i1, i2) \in Seq(B)
           /\ Len(SubSeq(v, i1, i2)) = i2 - i1 + 1
           /\ \A q \in 1 .. i2 - i1 + 1 : SubSeq(v, i1, i2)[q] = v[i1 + q - 1]
<1>1. CASE i2 = i1 - 1
  <2>1. SubSeq(v, i1, i2) = << >>
    BY <1>1
  <2> QED
    BY <1>1, <2>1
<1>2. CASE i2 # i1 - 1
  <2>1. i1 \in 1 .. Len(v) /\ i2 \in i1 .. Len(v) /\ i1 \in Nat /\ i2 \in Nat
    BY <1>2
  <2> QED
    BY <2>1
<1> QED
  BY <1>1, <1>2

LEMMA Removed ==
    ASSUME NEW B, NEW v \in Seq(B), NEW e \in 1 .. Len(v)
    PROVE  /\ RemoveAt(v, e) \in Seq(B)
           /\ Len(RemoveAt(v, e)) = Len(v) - 1
           /\ \A q \in 1 .. Len(v) : q < e => RemoveAt(v, e)[q] = v[q]
           /\ \A q \in 1 .. Len(v) : q > e => RemoveAt(v, e)[q - 1] = v[q]
<1> DEFINE left == SubSeq(v, 1, e - 1)
           right == SubSeq(v, e + 1, Len(v))
<1>0. Len(v) \in Nat /\ e \in Nat
  OBVIOUS
<1>1. left \in Seq(B) /\ Len(left) = e - 1 /\ \A q \in 1 .. e - 1 : left[q] = v[q]
  BY <1>0, PartOf
<1>2. /\ right \in Seq(B) /\ Len(right) = Len(v) - e
      /\ \A q \in 1 .. Len(v) - e : right[q] = v[e + q]
  <2>1. e + 1 \in 1 .. Len(v) + 1 /\ Len(v) \in (e + 1) - 1 .. Len(v)
    BY <1>0
  <2> QED
    BY <1>0, <2>1, PartOf
<1>3. RemoveAt(v, e) = left \o right
  BY DEF RemoveAt
<1> HIDE DEF left, right
<1>4. /\ left \o right \in Seq(B)
      /\ Len(left \o right) = Len(v) - 1
      /\ \A q \in 1 .. e - 1 : (left \o right)[q] = left[q]
      /\ \A q \in e .. Len(v) - 1 : (left \o right)[q] = right[q - (e - 1)]
  <2>1. /\ left \o right \in Seq(B)
        /\ Len(left \o right) = Len(left) + Len(right)
        /\ \A q \in 1 .. Len(left) : (left \o right)[q] = left[q]
    <3>1. /\ left \o right \in Seq(B)
          /\ Len(left \o right) = Len(left) + Len(right)
          /\ \A q \in 1 .. Len(left) + Len(right) :
                (left \o right)[q] = IF q <= Len(left) THEN left[q] ELSE right[q - Len(left)]
      BY ONLY <1>1, <1>2, ConcatProperties
    <3>2. Len(left) \in Nat /\ Len(right) \in Nat
      BY <1>1, <1>2
    <3> QED
      BY ONLY <3>1, <3>2
  <2>2. ASSUME NEW q \in e .. Len(v) - 1 PROVE (left \o right)[q] = right[q - (e - 1)]
    <3>1. q \in Len(left) + 1 .. Len(left) + Len(right) /\ q - Len(left) = q - (e - 1)
      BY <1>0, <1>1, <1>2
    <3>2. (left \o right)[q] = right[q - Len(left)]
      BY <1>1, <1>2, <3>1
    <3> QED
      BY <3>1, <3>2
  <2>3. Len(left) = e - 1 /\ Len(left) + Len(right) = Len(v) - 1
    BY <1>0, <1>1, <1>2
  <2> QED
    BY <2>1, <2>2, <2>3
<1>5. ASSUME NEW q \in 1 .. Len(v), q > e PROVE RemoveAt(v, e)[q - 1] = v[q]
  <2>1. q - 1 \in e .. Len(v) - 1 /\ (q - 1) - (e - 1) = q - e /\ q - e \in 1 .. Len(v) - e
        /\ e + (q - e) = q
    BY <1>0, <1>5
  <2> QED
    BY <1>2, <1>3, <1>4, <2>1
<1>6. ASSUME NEW q \in 1 .. Len(v), q < e PROVE RemoveAt(v, e)[q] = v[q]
  <2>1. q \in 1 .. e - 1
    BY <1>0, <1>6
  <2> QED
    BY <1>1, <1>3, <1>4, <2>1
<1> QED
  BY <1>3, <1>4, <1>5, <1>6

LEMMA Inserted ==
    ASSUME NEW B, NEW v \in Seq(B), NEW e \in 1 .. Len(v) + 1, NEW s \in B
    PROVE  /\ InsertAt(v, e, s) \in Seq(B)
           /\ Len(InsertAt(v, e, s)) = Len(v) + 1
           /\ InsertAt(v, e, s)[e] = s
           /\ \A q \in 1 .. Len(v) : q < e => InsertAt(v, e, s)[q] = v[q]
           /\ \A q \in 1 .. Len(v) : q >= e => InsertAt(v, e, s)[q + 1] = v[q]
<1> DEFINE left == SubSeq(v, 1, e - 1)
           middle == left \o <<s>>
           right == SubSeq(v, e, Len(v))
<1>0. Len(v) \in Nat /\ e \in Nat /\ e >= 1 /\ e <= Len(v) + 1
  OBVIOUS
<1>1. left \in Seq(B) /\ Len(left) = e - 1 /\ \A q \in 1 .. e - 1 : left[q] = v[q]
  <2>1. 1 \in 1 .. Len(v) + 1 /\ e - 1 \in 1 - 1 .. Len(v)
    BY <1>0
  <2> QED
    BY <1>0, <2>1, PartOf
<1>2. /\ right \in Seq(B) /\ Len(right) = Len(v) - e + 1
      /\ \A q \in 1 .. Len(v) - e + 1 : right[q] = v[e + q - 1]
  <2>1. e \in 1 .. Len(v) + 1 /\ Len(v) \in e - 1 .. Len(v)
    BY <1>0
  <2> QED
    BY <1>0, <2>1, PartOf
<1>3. InsertAt(v, e, s) = middle \o right
  BY DEF InsertAt
<1>4. /\ middle \in Seq(B) /\ Len(middle) = e /\ middle[e] = s
      /\ \A q \in 1 .. e - 1 : middle[q] = left[q]
  <2> HIDE DEF left
  <2> QED
    BY <1>0, <1>1
<1> HIDE DEF left, middle, right
<1>5. /\ middle \o right \in Seq(B)
      /\ Len(middle \o right) = Len(v) + 1
      /\ \A q \in 1 .. e : (middle \o right)[q] = middle[q]
      /\ \A q \in e + 1 .. Len(v) + 1 : (middle \o right)[q] = right[q - e]
  BY <1>0, <1>2, <1>4
<1>6. ASSUME NEW q \in 1 .. Len(v), q >= e PROVE InsertAt(v, e, s)[q + 1] = v[q]
  <2>1. q + 1 \in e + 1 .. Len(v) + 1 /\ (q + 1) - e \in 1 .. Len(v) - e + 1
        /\ e + ((q + 1) - e) - 1 = q
    BY <1>0, <1>6
  <2> QED
    BY <1>2, <1>3, <1>5, <2>1
<1>7. ASSUME NEW q \in 1 .. Len(v), q < e PROVE InsertAt(v, e, s)[q] = v[q]
  <2>1. q \in 1 .. e - 1 /\ q \in 1 .. e
    BY <1>0, <1>7
  <2> QED
    BY <1>1, <1>3, <1>4, <1>5, <2>1
<1>8. e \in 1 .. e
  BY <1>0
<1> QED
  BY <1>3, <1>4, <1>5, <1>6, <1>7, <1>8

LEMMA Replaced ==
    ASSUME NEW B, NEW v \in Seq(B), NEW e \in 1 .. Len(v), NEW s \in B
    PROVE  /\ ReplaceAt(v, e, s) \in Seq(B)
           /\ Len(ReplaceAt(v, e, s)) = Len(v)
           /\ ReplaceAt(v, e, s)[e] = s
           /\ \A q \in 1 .. Len(v) : q # e => ReplaceAt(v, e, s)[q] = v[q]
  BY DEF ReplaceAt

\* One edit of v, over symbols that are bytes, is no further from x than one
\* more than v is.
LEMMA OneEditFurther ==
    ASSUME NEW x \in Seq(Nat), NEW S \in SUBSET Nat, NEW v \in Seq(S), NEW w \in OneEdit(v, S)
    PROVE  w \in Seq(S) /\ Distance(x, w) <= Distance(x, v) + 1
<1>0. Seq(S) \subseteq Seq(Nat)
  BY SeqMonotonic
<1>1. CASE w = v
  <2>1. Dist(x, v, Len(x), Len(v)) \in Nat
    <3>1. v \in Seq(Nat) /\ Len(x) \in 0 .. Len(x) /\ Len(v) \in 0 .. Len(v)
      BY <1>0, LenProperties
    <3> QED
      BY <3>1, DistanceCell
  <2> QED
    BY <1>1, <2>1 DEF Dist, Distance
<1>2. ASSUME NEW e \in DOMAIN v, w = RemoveAt(v, e)
      PROVE  w \in Seq(S) /\ Distance(x, w) <= Distance(x, v) + 1
  <2>1. e \in 1 .. Len(v) /\ Len(v) \in Nat
    OBVIOUS
  <2> DEFINE d == -1
  <2>2. /\ w \in Seq(S)
        /\ Len(w) = Len(v) - 1
        /\ \A q \in 1 .. Len(v) : q < e => w[q] = v[q]
        /\ \A q \in 1 .. Len(v) : q > e => w[q - 1] = v[q]
    BY <1>2, <2>1, Removed
  <2>3. d \in {-1, 0, 1} /\ e \in 1 .. Len(v) + 1 /\ Unmoved(d, e) = e /\ e <= Len(v)
    BY <2>1 DEF Unmoved
  <2>4. Len(w) = Len(v) + d /\ \A q \in 1 .. Len(v) : q > Unmoved(d, e) => w[q + d] = v[q]
    <3>1. \A q \in 1 .. Len(v) : q + d = q - 1
      OBVIOUS
    <3>2. Len(w) = Len(v) + d
      BY <2>1, <2>2
    <3> HIDE DEF d
    <3> QED
      BY <2>2, <2>3, <3>1, <3>2
  <2> HIDE DEF d
  <2> QED
    BY <2>2, <2>3, <2>4, <1>0, EditIsOneFurther
<1>3. ASSUME NEW e \in 1 .. Len(v) + 1, NEW s \in S, w = InsertAt(v, e, s)
      PROVE  w \in Seq(S) /\ Distance(x, w) <= Distance(x, v) + 1
  <2>1. Len(v) \in Nat /\ e \in Nat /\ s \in Nat
    OBVIOUS
  <2>2. /\ InsertAt(v, e, s) \in Seq(S)
        /\ Len(InsertAt(v, e, s)) = Len(v) + 1
        /\ \A q \in 1 .. Len(v) : q < e => InsertAt(v, e, s)[q] = v[q]
        /\ \A q \in 1 .. Len(v) : q >= e => InsertAt(v, e, s)[q + 1] = v[q]
    BY Inserted
  <2>3. Unmoved(1, e) = e - 1 /\ \A q \in 1 .. Len(v) : q > e - 1 => q >= e
    BY <2>1 DEF Unmoved
  <2>4. 1 \in {-1, 0, 1} /\ \A q \in 1 .. Len(v) : q > Unmoved(1, e) => w[q + 1] = v[q]
    BY <1>3, <2>2, <2>3
  <2> QED
    BY <1>3, <2>1, <2>2, <2>4, <1>0, EditIsOneFurther
<1>4. ASSUME NEW e \in 1 .. Len(v), NEW s \in S, w = ReplaceAt(v, e, s)
      PROVE  w \in Seq(S) /\ Distance(x, w) <= Distance(x, v) + 1
  <2>1. e \in 1 .. Len(v) /\ Len(v) \in Nat /\ s \in Nat
    OBVIOUS
  <2> DEFINE d == 0
  <2>2. /\ ReplaceAt(v, e, s) \in Seq(S)
        /\ Len(ReplaceAt(v, e, s)) = Len(v)
        /\ \A q \in 1 .. Len(v) : q # e => ReplaceAt(v, e, s)[q] = v[q]
    BY Replaced
  <2>3. d \in {-1, 0, 1} /\ e \in 1 .. Len(v) + 1 /\ Unmoved(d, e) = e /\ e <= Len(v)
    BY <2>1 DEF Unmoved
  <2>4. Len(w) = Len(v) + d /\ \A q \in 1 .. Len(v) : q > Unmoved(d, e) => w[q + d] = v[q]
    <3>1. \A q \in 1 .. Len(v) : q + d = q
      OBVIOUS
    <3>2. Len(w) = Len(v) + d
      BY <1>4, <2>1, <2>2
    <3>3. \A q \in 1 .. Len(v) : q > e => q # e
      BY <2>1
    <3> HIDE DEF d
    <3> QED
      BY <1>4, <2>2, <2>3, <3>1, <3>2, <3>3
  <2>5. w \in Seq(S) /\ \A q \in 1 .. Len(v) : q < e => w[q] = v[q]
    BY <1>4, <2>1, <2>2
  <2> HIDE DEF d
  <2> QED
    BY <2>3, <2>4, <2>5, <1>0, EditIsOneFurther
<1>5. DOMAIN v = 1 .. Len(v)
  OBVIOUS
<1>6. \/ w = v
      \/ \E e \in DOMAIN v : w = RemoveAt(v, e)
      \/ \E e \in 1 .. Len(v) + 1, s \in S : w = InsertAt(v, e, s)
      \/ \E e \in 1 .. Len(v), s \in S : w = ReplaceAt(v, e, s)
  <2>1. \/ w = v
        \/ w \in {RemoveAt(v, e) : e \in DOMAIN v}
        \/ w \in {InsertAt(v, e, s) : e \in 1 .. Len(v) + 1, s \in S}
        \/ w \in {ReplaceAt(v, e, s) : e \in DOMAIN v, s \in S}
    <3>1. OneEdit(v, S) = {v} \union {RemoveAt(v, e) : e \in DOMAIN v}
             \union {InsertAt(v, e, s) : e \in 1 .. Len(v) + 1, s \in S}
             \union {ReplaceAt(v, e, s) : e \in DOMAIN v, s \in S}
      BY DEF OneEdit
    <3> QED
      BY ONLY <3>1, w \in OneEdit(v, S)
  <2>2. w \in {InsertAt(v, e, s) : e \in 1 .. Len(v) + 1, s \in S}
        => \E e \in 1 .. Len(v) + 1, s \in S : w = InsertAt(v, e, s)
    OBVIOUS
  <2>3. w \in {ReplaceAt(v, e, s) : e \in DOMAIN v, s \in S}
        => \E e \in 1 .. Len(v), s \in S : w = ReplaceAt(v, e, s)
    BY <1>5
  <2> QED
    BY <2>1, <2>2, <2>3
<1> QED
  BY <1>1, <1>2, <1>3, <1>4, <1>6

-----------------------------------------------------------------------------
(***************************************************************************)
(* The words within k edits, one edit at a time.                           *)
(***************************************************************************)
Around(words, S) == UNION {OneEdit(v, S) : v \in words}

Ball(f, k, w, S) == [n \in 0 .. k |-> IF n = 0 THEN {w} ELSE Around(f[n - 1], S)]

LEMMA BallExists ==
    ASSUME NEW w, NEW S
    PROVE  \A k \in Nat : \E f : f = Ball(f, k, w, S)
<1> DEFINE G == {k \in Nat : \E f : f = Ball(f, k, w, S)}
<1>1. 0 \in G
  <2> DEFINE f == [n \in 0 .. 0 |-> {w}]
  <2>1. f = Ball(f, 0, w, S)
    BY DEF Ball
  <2> QED
    BY <2>1
<1>2. ASSUME NEW k \in Nat, k \in G PROVE k + 1 \in G
  <2>1. PICK f : f = Ball(f, k, w, S)
    BY <1>2
  <2> DEFINE g == [n \in 0 .. k + 1 |-> IF n = k + 1 THEN Around(f[k], S) ELSE f[n]]
  <2>2. ASSUME NEW n \in 0 .. k + 1
        PROVE  g[n] = IF n = 0 THEN {w} ELSE Around(g[n - 1], S)
    <3>1. CASE n = k + 1
      <4>1. n # 0 /\ n - 1 = k /\ k \in 0 .. k + 1 /\ k # k + 1
        BY <3>1
      <4>2. g[n] = Around(f[k], S) /\ g[k] = f[k]
        BY <3>1, <4>1
      <4> HIDE DEF g
      <4> QED
        BY <4>1, <4>2
    <3>2. CASE n # k + 1
      <4>1. n \in 0 .. k /\ (n # 0 => n - 1 \in 0 .. k + 1 /\ n - 1 # k + 1)
        BY <3>2
      <4>2. f[n] = IF n = 0 THEN {w} ELSE Around(f[n - 1], S)
        BY <2>1, <4>1 DEF Ball
      <4>3. g[n] = f[n] /\ (n # 0 => g[n - 1] = f[n - 1])
        BY <3>2, <4>1
      <4> HIDE DEF g
      <4> QED
        BY <4>1, <4>2, <4>3
    <3> QED
      BY <3>1, <3>2
  <2>3. g = [n \in 0 .. k + 1 |-> g[n]]
    OBVIOUS
  <2>4. g = Ball(g, k + 1, w, S)
    <3> HIDE DEF g
    <3> QED
      BY <2>2, <2>3 DEF Ball
  <2> QED
    BY <2>4
<1> HIDE DEF G
<1>3. \A k \in Nat : k \in G
  BY <1>1, <1>2, FromZero
<1> QED
  BY <1>3 DEF G

LEMMA BallsAgree ==
    ASSUME NEW w, NEW S, NEW k \in Nat, NEW l \in Nat, NEW f, NEW g,
           f = Ball(f, k, w, S), g = Ball(g, l, w, S)
    PROVE  \A n \in Nat : n <= k /\ n <= l => f[n] = g[n]
<1> DEFINE G == {n \in Nat : n <= k /\ n <= l => f[n] = g[n]}
<1>1. 0 \in G
  <2>1. f[0] = {w} /\ g[0] = {w}
    BY DEF Ball
  <2> QED
    BY <2>1
<1>2. ASSUME NEW n \in Nat, n \in G PROVE n + 1 \in G
  <2> SUFFICES ASSUME n + 1 <= k, n + 1 <= l PROVE f[n + 1] = g[n + 1]
    OBVIOUS
  <2>1. f[n] = g[n] /\ n + 1 \in 0 .. k /\ n + 1 \in 0 .. l /\ n + 1 # 0 /\ (n + 1) - 1 = n
    BY <1>2
  <2>2. f[n + 1] = Around(f[n], S) /\ g[n + 1] = Around(g[n], S)
    BY <2>1 DEF Ball
  <2> QED
    BY <2>1, <2>2
<1> HIDE DEF G
<1>3. \A n \in Nat : n \in G
  BY <1>1, <1>2, FromZero
<1> QED
  BY <1>3 DEF G

LEMMA WithinStep ==
    ASSUME NEW w, NEW S
    PROVE  /\ Within(w, 0, S) = {w}
           /\ \A k \in Nat : Within(w, k + 1, S) = Around(Within(w, k, S), S)
<1> DEFINE T(k) == CHOOSE f : f = Ball(f, k, w, S)
<1>1. ASSUME NEW k \in Nat PROVE T(k) = Ball(T(k), k, w, S)
  BY BallExists
<1>2. ASSUME NEW k \in Nat PROVE Within(w, k, S) = T(k)[k]
  BY DEF Within, Ball, Around
<1> HIDE DEF T
<1>3. Within(w, 0, S) = {w}
  <2>1. T(0) = Ball(T(0), 0, w, S) /\ Within(w, 0, S) = T(0)[0]
    BY <1>1, <1>2
  <2>2. T(0)[0] = {w}
    BY <2>1 DEF Ball
  <2> QED
    BY <2>1, <2>2
<1>4. ASSUME NEW k \in Nat PROVE Within(w, k + 1, S) = Around(Within(w, k, S), S)
  <2> DEFINE f == T(k)
             g == T(k + 1)
  <2>0. k + 1 \in Nat /\ k <= k /\ k <= k + 1 /\ k + 1 \in 0 .. k + 1 /\ k + 1 # 0 /\ (k + 1) - 1 = k
    OBVIOUS
  <2>1. f = Ball(f, k, w, S) /\ g = Ball(g, k + 1, w, S)
    BY <1>1, <2>0
  <2>2. Within(w, k, S) = f[k] /\ Within(w, k + 1, S) = g[k + 1]
    BY <1>2, <2>0
  <2> HIDE DEF f, g
  <2>3. f[k] = g[k]
    BY <2>0, <2>1, BallsAgree
  <2>4. g[k + 1] = Around(g[k], S)
    BY <2>0, <2>1 DEF Ball
  <2> QED
    BY <2>2, <2>3, <2>4
<1> QED
  BY <1>3, <1>4

-----------------------------------------------------------------------------
\* No word within k edits is further than k.
LEMMA WithinIsNear ==
    ASSUME NEW S \in SUBSET Nat, NEW w \in Seq(S)
    PROVE  \A k \in Nat : \A v \in Within(w, k, S) : v \in Seq(S) /\ Distance(w, v) <= k
<1>0. w \in Seq(Nat) /\ Len(w) \in Nat
  <2>1. Seq(S) \subseteq Seq(Nat)
    BY SeqMonotonic
  <2> QED
    BY <2>1
<1> DEFINE G == {k \in Nat : \A v \in Within(w, k, S) : v \in Seq(S) /\ Distance(w, v) <= k}
           Z == {k \in Nat : k <= Len(w) => Dist(w, w, k, k) = 0}
<1>1. 0 \in Z
  <2>1. 0 \in 0 .. Len(w)
    BY <1>0
  <2>2. Comes(w, w, 0, 0)
    BY <1>0, <2>1, DistanceCell
  <2> QED
    BY <2>2 DEF Comes
<1>2. ASSUME NEW k \in Nat, k \in Z PROVE k + 1 \in Z
  <2> SUFFICES ASSUME k + 1 <= Len(w) PROVE Dist(w, w, k + 1, k + 1) = 0
    OBVIOUS
  <2>1. k + 1 \in 0 .. Len(w) /\ k + 1 # 0 /\ (k + 1) - 1 = k /\ Dist(w, w, k, k) = 0
    BY <1>0, <1>2
  <2>2. Dist(w, w, k + 1, k + 1) \in Nat /\ AtMost(w, w, k + 1, k + 1)
    BY <1>0, <2>1, DistanceCell
  <2>3. Dist(w, w, k + 1, k + 1) <= Dist(w, w, k, k)
    BY <2>1, <2>2 DEF AtMost
  <2> QED
    BY <2>1, <2>2, <2>3
<1>3. Distance(w, w) = 0
  <2> HIDE DEF Z
  <2>1. \A k \in Nat : k \in Z
    BY <1>1, <1>2, FromZero
  <2> QED
    BY <1>0, <2>1 DEF Z, Dist, Distance
<1>4. 0 \in G
  BY <1>3, WithinStep
<1>5. ASSUME NEW k \in Nat, k \in G PROVE k + 1 \in G
  <2> SUFFICES ASSUME NEW u \in Within(w, k + 1, S) PROVE u \in Seq(S) /\ Distance(w, u) <= k + 1
    OBVIOUS
  <2>1. PICK v \in Within(w, k, S) : u \in OneEdit(v, S)
    <3>1. u \in Around(Within(w, k, S), S)
      BY WithinStep
    <3> QED
      BY ONLY <3>1 DEF Around
  <2>2. v \in Seq(S) /\ Distance(w, v) <= k
    BY <1>5
  <2>3. u \in Seq(S) /\ Distance(w, u) <= Distance(w, v) + 1
    BY <1>0, <2>1, <2>2, OneEditFurther
  <2>4. v \in Seq(Nat) /\ u \in Seq(Nat)
    BY <2>2, <2>3, SeqMonotonic
  <2>5. Distance(w, v) \in Nat /\ Distance(w, u) \in Nat
    BY <1>0, <2>4, DistanceCell DEF Dist, Distance
  <2> QED
    BY <2>2, <2>3, <2>5
<1> HIDE DEF G
<1>6. \A k \in Nat : k \in G
  BY <1>4, <1>5, FromZero
<1> QED
  BY <1>6 DEF G

\* What x has become when its first p bytes are replaced by the first q of y.
Mixed(x, y, p, q) ==
    [t \in 1 .. q + (Len(x) - p) |-> IF t <= q THEN y[t] ELSE x[(t - q) + p]]

LEMMA MixedWord ==
    ASSUME NEW S, NEW x \in Seq(S), NEW y \in Seq(S), NEW p \in 0 .. Len(x), NEW q \in 0 .. Len(y)
    PROVE  /\ Mixed(x, y, p, q) \in Seq(S)
           /\ Len(Mixed(x, y, p, q)) = q + (Len(x) - p)
           /\ \A t \in 1 .. q + (Len(x) - p) :
                 Mixed(x, y, p, q)[t] = IF t <= q THEN y[t] ELSE x[(t - q) + p]
<1>1. Len(x) \in Nat /\ Len(y) \in Nat /\ q + (Len(x) - p) \in Nat
  OBVIOUS
<1>2. ASSUME NEW t \in 1 .. q + (Len(x) - p)
      PROVE  (IF t <= q THEN y[t] ELSE x[(t - q) + p]) \in S
  <2>1. CASE t <= q
    <3>1. t \in 1 .. Len(y)
      BY <1>1, <2>1
    <3> QED
      BY <2>1, <3>1, ElementOfSeq
  <2>2. CASE ~(t <= q)
    <3>1. (t - q) + p \in 1 .. Len(x)
      BY <1>1, <2>2
    <3> QED
      BY <2>2, <3>1, ElementOfSeq
  <2> QED
    BY <2>1, <2>2
<1>3. Mixed(x, y, p, q) \in [1 .. q + (Len(x) - p) -> S]
  BY <1>2 DEF Mixed
<1>4. Mixed(x, y, p, q) \in Seq(S)
  BY <1>1, <1>3, SeqDef
<1> QED
  BY <1>1, <1>3, <1>4 DEF Mixed

\* Every word is as few edits away as the distance says: one cell of the table
\* after the other, from the word itself.
LEMMA MixedIsWithin ==
    ASSUME NEW S \in SUBSET Nat, NEW x \in Seq(S), NEW y \in Seq(S)
    PROVE  y \in Within(x, Distance(x, y), S)
<1> DEFINE m == Len(x)
           n == Len(y)
           G == {c \in (0 .. m) \X (0 .. n) :
                   Mixed(x, y, c[1], c[2]) \in Within(x, Dist(x, y, c[1], c[2]), S)}
<1>0. x \in Seq(Nat) /\ y \in Seq(Nat) /\ m \in Nat /\ n \in Nat
  <2>1. Seq(S) \subseteq Seq(Nat)
    BY SeqMonotonic
  <2> QED
    BY <2>1
<1>1. ASSUME NEW r \in 0 .. m, NEW t \in 0 .. n
      PROVE  LET N == Mixed(x, y, r, t)
             IN  /\ N \in Seq(S)
                 /\ Len(N) = t + (m - r)
                 /\ \A k \in 1 .. t + (m - r) : N[k] = IF k <= t THEN y[k] ELSE x[(k - t) + r]
  <2>1. r \in 0 .. Len(x) /\ t \in 0 .. Len(y)
    OBVIOUS
  <2>2. Mixed(x, y, r, t) \in Seq(S)
    BY ONLY x \in Seq(S), y \in Seq(S), <2>1, MixedWord
  <2>3. Len(Mixed(x, y, r, t)) = t + (m - r)
    BY ONLY x \in Seq(S), y \in Seq(S), <2>1, MixedWord
  <2>4. \A k \in 1 .. t + (m - r) :
           Mixed(x, y, r, t)[k] = IF k <= t THEN y[k] ELSE x[(k - t) + r]
    BY ONLY x \in Seq(S), y \in Seq(S), <2>1, MixedWord
  <2> QED
    BY <2>2, <2>3, <2>4
<1>2. ASSUME NEW p \in 0 .. m, NEW q \in 0 .. n,
             p # 0 => <<p - 1, q>> \in G,
             q # 0 => <<p, q - 1>> \in G,
             p # 0 /\ q # 0 => <<p - 1, q - 1>> \in G
      PROVE  <<p, q>> \in G
  <2> DEFINE M == Mixed(x, y, p, q)
  <2>0. /\ p \in Nat /\ q \in Nat /\ p <= m /\ q <= n
        /\ p # 0 => p - 1 \in 0 .. m
        /\ q # 0 => q - 1 \in 0 .. n
    BY <1>0
  <2>1. /\ M \in Seq(S)
        /\ Len(M) = q + (m - p)
        /\ \A t \in 1 .. q + (m - p) : M[t] = IF t <= q THEN y[t] ELSE x[(t - q) + p]
    BY <1>1
  <2>2. Dist(x, y, p, q) \in Nat /\ Comes(x, y, p, q)
    BY <1>0, DistanceCell
  <2>3. ASSUME NEW r \in 0 .. m, NEW t \in 0 .. n, <<r, t>> \in G,
               Dist(x, y, p, q) = Dist(x, y, r, t) + 1,
               M \in OneEdit(Mixed(x, y, r, t), S)
        PROVE  M \in Within(x, Dist(x, y, p, q), S)
    <3>1. Dist(x, y, r, t) \in Nat
      BY <1>0, DistanceCell
    <3>2. Mixed(x, y, r, t) \in Within(x, Dist(x, y, r, t), S)
      BY <2>3
    <3>3. M \in Around(Within(x, Dist(x, y, r, t), S), S)
      BY <2>3, <3>2 DEF Around
    <3>4. Within(x, Dist(x, y, r, t) + 1, S) = Around(Within(x, Dist(x, y, r, t), S), S)
      BY ONLY <3>1, WithinStep
    <3> QED
      BY <2>3, <3>3, <3>4
  <2>4. CASE p = 0 /\ q = 0 /\ Dist(x, y, p, q) = 0
    <3>1. \A t \in 1 .. m : M[t] = x[t]
      BY <2>1, <2>4
    <3>2. M = x
      BY <2>1, <2>4, <3>1, SeqEqual
    <3>3. Within(x, 0, S) = {x}
      BY ONLY WithinStep
    <3> QED
      BY ONLY <2>4, <3>2, <3>3
  <2>5. CASE p # 0 /\ Dist(x, y, p, q) = Dist(x, y, p - 1, q) + 1
    <3> DEFINE N == Mixed(x, y, p - 1, q)
               R == RemoveAt(N, q + 1)
    <3>1. /\ N \in Seq(S)
          /\ Len(N) = q + (m - (p - 1))
          /\ \A k \in 1 .. q + (m - (p - 1)) : N[k] = IF k <= q THEN y[k] ELSE x[(k - q) + (p - 1)]
      BY <2>0, <2>5, <1>1
    <3>2. q + 1 \in 1 .. Len(N) /\ Len(N) - 1 = q + (m - p)
      BY <1>0, <2>0, <2>5, <3>1
    <3> HIDE DEF N, M
    <3>3. /\ R \in Seq(S)
          /\ Len(R) = Len(N) - 1
          /\ \A k \in 1 .. Len(N) : k < q + 1 => R[k] = N[k]
          /\ \A k \in 1 .. Len(N) : k > q + 1 => R[k - 1] = N[k]
      BY <3>1, <3>2, Removed
    <3> HIDE DEF R
    <3>4. ASSUME NEW k \in 1 .. q + (m - p) PROVE M[k] = R[k]
      <4>1. CASE k <= q
        <5>1. k \in 1 .. Len(N) /\ k < q + 1 /\ k \in 1 .. q + (m - (p - 1))
          <6>1. Len(N) = q + (m - (p - 1))
            BY ONLY <3>1
          <6> HIDE DEF m, n
          <6> QED
            BY ONLY k \in 1 .. q + (m - p), <1>0, <2>0, <2>5, <4>1, <6>1
        <5> QED
          BY <2>1, <3>1, <3>3, <4>1, <5>1
      <4>2. CASE ~(k <= q)
        <5>1. /\ k + 1 \in 1 .. Len(N) /\ k + 1 > q + 1 /\ (k + 1) - 1 = k
              /\ k + 1 \in 1 .. q + (m - (p - 1)) /\ ~(k + 1 <= q)
              /\ ((k + 1) - q) + (p - 1) = (k - q) + p
          BY <1>0, <2>0, <2>5, <3>1, <4>2
        <5>2. R[k] = N[k + 1]
          BY <3>3, <5>1
        <5>3. N[k + 1] = x[(k - q) + p]
          BY <3>1, <5>1
        <5> QED
          BY <2>1, <4>2, <5>2, <5>3
      <4> QED
        BY <4>1, <4>2
    <3>5. M = R
      BY <2>1, <3>2, <3>3, <3>4, SeqEqual
    <3>6. q + 1 \in DOMAIN N
      BY <3>1, <3>2
    <3>7. M \in OneEdit(N, S)
      BY <3>5, <3>6 DEF OneEdit, R
    <3> QED
      BY <2>0, <2>3, <2>5, <1>2, <3>7 DEF N, M
  <2>6. CASE q # 0 /\ Dist(x, y, p, q) = Dist(x, y, p, q - 1) + 1
    <3> DEFINE N == Mixed(x, y, p, q - 1)
               R == InsertAt(N, q, y[q])
    <3>1. /\ N \in Seq(S)
          /\ Len(N) = (q - 1) + (m - p)
          /\ \A k \in 1 .. (q - 1) + (m - p) :
                N[k] = IF k <= q - 1 THEN y[k] ELSE x[(k - (q - 1)) + p]
      BY <2>0, <2>6, <1>1
    <3>2. q \in 1 .. Len(N) + 1 /\ Len(N) + 1 = q + (m - p) /\ q \in 1 .. n
      BY <1>0, <2>0, <2>6, <3>1
    <3>3. y[q] \in S
      BY <3>2, ElementOfSeq
    <3> HIDE DEF N, M
    <3>4. /\ R \in Seq(S)
          /\ Len(R) = Len(N) + 1
          /\ R[q] = y[q]
          /\ \A k \in 1 .. Len(N) : k < q => R[k] = N[k]
          /\ \A k \in 1 .. Len(N) : k >= q => R[k + 1] = N[k]
      <4>1. N \in Seq(S) /\ q \in 1 .. Len(N) + 1
        BY <3>1, <3>2
      <4> QED
        BY ONLY <3>3, <4>1, Inserted
    <3> HIDE DEF R
    <3>5. ASSUME NEW k \in 1 .. q + (m - p) PROVE M[k] = R[k]
      <4>1. CASE k < q
        <5>1. k \in 1 .. Len(N) /\ k \in 1 .. (q - 1) + (m - p) /\ k <= q - 1 /\ k <= q
          <6>1. Len(N) = (q - 1) + (m - p)
            BY ONLY <3>1
          <6> HIDE DEF m, n
          <6> QED
            BY ONLY k \in 1 .. q + (m - p), <1>0, <2>0, <2>6, <4>1, <6>1
        <5> QED
          BY <2>1, <3>1, <3>4, <4>1, <5>1
      <4>2. CASE k = q
        BY <2>0, <2>1, <3>4, <4>2
      <4>3. CASE k > q
        <5>1. /\ k - 1 \in 1 .. Len(N) /\ k - 1 >= q /\ (k - 1) + 1 = k
              /\ k - 1 \in 1 .. (q - 1) + (m - p) /\ ~(k - 1 <= q - 1) /\ ~(k <= q)
              /\ ((k - 1) - (q - 1)) + p = (k - q) + p
          BY <1>0, <2>0, <2>6, <3>1, <4>3
        <5>2. R[k] = N[k - 1]
          BY <3>4, <5>1
        <5>3. N[k - 1] = x[(k - q) + p]
          BY <3>1, <5>1
        <5> QED
          BY <2>1, <5>1, <5>2, <5>3
      <4> QED
        BY <2>0, <4>1, <4>2, <4>3
    <3>6. M = R
      BY <2>1, <3>2, <3>4, <3>5, SeqEqual
    <3>7. M \in OneEdit(N, S)
      BY <3>2, <3>3, <3>6 DEF OneEdit, R
    <3> QED
      BY <2>0, <2>3, <2>6, <1>2, <3>7 DEF N, M
  <2>7. CASE p # 0 /\ q # 0 /\ Dist(x, y, p, q) = Dist(x, y, p - 1, q - 1) + 1
    <3> DEFINE N == Mixed(x, y, p - 1, q - 1)
               R == ReplaceAt(N, q, y[q])
    <3>1. /\ N \in Seq(S)
          /\ Len(N) = (q - 1) + (m - (p - 1))
          /\ \A k \in 1 .. (q - 1) + (m - (p - 1)) :
                N[k] = IF k <= q - 1 THEN y[k] ELSE x[(k - (q - 1)) + (p - 1)]
      <4>1. p - 1 \in 0 .. m /\ q - 1 \in 0 .. n
        BY ONLY <2>0, <2>7
      <4> QED
        BY ONLY <1>1, <4>1
    <3>2. q \in 1 .. Len(N) /\ Len(N) = q + (m - p) /\ q \in 1 .. n
      <4>1. /\ (q - 1) + (m - (p - 1)) = q + (m - p)
            /\ q \in 1 .. q + (m - p) /\ q \in 1 .. n
        BY ONLY <1>0, <2>0, <2>7
      <4>2. Len(N) = (q - 1) + (m - (p - 1))
        BY ONLY <3>1
      <4> QED
        BY ONLY <4>1, <4>2
    <3>3. y[q] \in S
      BY <3>2, ElementOfSeq
    <3> HIDE DEF N, M
    <3>4. /\ R \in Seq(S)
          /\ Len(R) = Len(N)
          /\ R[q] = y[q]
          /\ \A k \in 1 .. Len(N) : k # q => R[k] = N[k]
      <4>1. N \in Seq(S) /\ q \in 1 .. Len(N)
        BY <3>1, <3>2
      <4> QED
        <5>1. R \in Seq(S)
          BY ONLY <3>3, <4>1, Replaced
        <5>2. Len(R) = Len(N) /\ R[q] = y[q] /\ \A k \in 1 .. Len(N) : k # q => R[k] = N[k]
          <6> USE DEF R
          <6>1. q \in DOMAIN N
            BY ONLY <4>1
          <6> QED
            BY ONLY <3>3, <4>1, <6>1 DEF ReplaceAt
        <5> QED
          BY <5>1, <5>2
    <3> HIDE DEF R
    <3>5. ASSUME NEW k \in 1 .. q + (m - p) PROVE M[k] = R[k]
      <4>1. CASE k < q
        <5>1. /\ k \in 1 .. Len(N) /\ k \in 1 .. (q - 1) + (m - (p - 1))
              /\ k <= q - 1 /\ k <= q /\ k # q
          <6>1. Len(N) = (q - 1) + (m - (p - 1))
            BY ONLY <3>1
          <6> HIDE DEF m, n
          <6> QED
            BY ONLY k \in 1 .. q + (m - p), <1>0, <2>0, <2>7, <4>1, <6>1
        <5> QED
          BY <2>1, <3>1, <3>4, <4>1, <5>1
      <4>2. CASE k = q
        BY <2>0, <2>1, <3>4, <4>2
      <4>3. CASE k > q
        <5>1. /\ k \in 1 .. Len(N) /\ k \in 1 .. (q - 1) + (m - (p - 1))
              /\ ~(k <= q - 1) /\ ~(k <= q) /\ k # q
              /\ (k - (q - 1)) + (p - 1) = (k - q) + p
          <6>1. Len(N) = (q - 1) + (m - (p - 1))
            BY ONLY <3>1
          <6> HIDE DEF m, n
          <6> QED
            BY ONLY k \in 1 .. q + (m - p), <1>0, <2>0, <2>7, <4>3, <6>1
        <5> QED
          BY <2>1, <3>1, <3>4, <5>1
      <4> QED
        BY <2>0, <4>1, <4>2, <4>3
    <3>6. M = R
      BY <2>1, <3>2, <3>4, <3>5, SeqEqual
    <3>7. q \in DOMAIN N
      BY <3>1, <3>2
    <3>8. M \in OneEdit(N, S)
      BY <3>3, <3>6, <3>7 DEF OneEdit, R
    <3> QED
      BY <2>0, <2>3, <2>7, <1>2, <3>8 DEF N, M
  <2>8. CASE p # 0 /\ q # 0 /\ x[p] = y[q] /\ Dist(x, y, p, q) = Dist(x, y, p - 1, q - 1)
    <3> DEFINE N == Mixed(x, y, p - 1, q - 1)
    <3>0. p # 0 /\ q # 0
      BY <2>8
    <3>1. /\ N \in Seq(S)
          /\ Len(N) = (q - 1) + (m - (p - 1))
          /\ \A k \in 1 .. (q - 1) + (m - (p - 1)) :
                N[k] = IF k <= q - 1 THEN y[k] ELSE x[(k - (q - 1)) + (p - 1)]
      BY <2>0, <2>8, <1>1
    <3>2. Len(N) = q + (m - p)
      <4>1. (q - 1) + (m - (p - 1)) = q + (m - p)
        BY <1>0, <2>0
      <4> QED
        BY <3>1, <4>1
    <3> HIDE DEF N, M
    <3>3. ASSUME NEW k \in 1 .. q + (m - p) PROVE M[k] = N[k]
      <4>0. k \in 1 .. (q - 1) + (m - (p - 1))
        BY <1>0, <2>0, <3>0
      <4>1. CASE k < q
        <5>1. k <= q - 1 /\ k <= q
          BY <1>0, <2>0, <3>0, <4>1
        <5> QED
          BY <2>1, <3>1, <4>0, <5>1
      <4>2. CASE k = q
        <5>1. ~(k <= q - 1) /\ (k - (q - 1)) + (p - 1) = p /\ k <= q
          BY <1>0, <2>0, <3>0, <4>2
        <5>2. N[k] = x[p]
          BY <3>1, <4>0, <5>1
        <5>3. M[k] = y[q]
          BY <2>1, <4>2, <5>1
        <5> QED
          BY <2>8, <5>2, <5>3
      <4>3. CASE k > q
        <5>1. /\ ~(k <= q - 1) /\ ~(k <= q)
              /\ (k - (q - 1)) + (p - 1) = (k - q) + p
          BY <1>0, <2>0, <3>0, <4>3
        <5> QED
          BY <2>1, <3>1, <4>0, <5>1
      <4> QED
        BY <2>0, <4>1, <4>2, <4>3
    <3>4. M = N
      BY <2>1, <3>1, <3>2, <3>3, SeqEqual
    <3> QED
      BY <2>0, <2>8, <1>2, <3>4 DEF N, M
  <2> QED
    BY <2>2, <2>4, <2>5, <2>6, <2>7, <2>8 DEF Comes
<1>3. \A p \in 0 .. m, q \in 0 .. n : <<p, q>> \in G
  <2> HIDE DEF G, m, n
  <2> QED
    BY <1>0, <1>2, FromCorner
<1>4. <<m, n>> \in G
  BY <1>0, <1>3
<1>5. Mixed(x, y, m, n) = y
  <2>1. m \in 0 .. m /\ n \in 0 .. n /\ n + (m - m) = n
    BY <1>0
  <2>3. /\ Mixed(x, y, m, n) \in Seq(S)
        /\ Len(Mixed(x, y, m, n)) = n + (m - m)
        /\ \A t \in 1 .. n + (m - m) :
              Mixed(x, y, m, n)[t] = IF t <= n THEN y[t] ELSE x[(t - n) + m]
    BY <1>1, <2>1
  <2>2. /\ Mixed(x, y, m, n) \in Seq(S)
        /\ Len(Mixed(x, y, m, n)) = n
        /\ \A t \in 1 .. n : Mixed(x, y, m, n)[t] = y[t]
    BY <1>0, <2>1, <2>3
  <2> QED
    BY <2>2, SeqEqual
<1> QED
  BY <1>4, <1>5 DEF Dist, Distance

\* A word within j edits is within any number more: an edit may be none.
LEMMA WithinGrows ==
    ASSUME NEW S, NEW w, NEW j0 \in Nat
    PROVE  \A d \in Nat : Within(w, j0, S) \subseteq Within(w, j0 + d, S)
<1> DEFINE G == {d \in Nat : Within(w, j0, S) \subseteq Within(w, j0 + d, S)}
<1>1. 0 \in G
  OBVIOUS
<1>2. ASSUME NEW d \in Nat, d \in G PROVE d + 1 \in G
  <2>1. j0 + d \in Nat /\ j0 + (d + 1) = (j0 + d) + 1
    OBVIOUS
  <2>2. Within(w, j0 + (d + 1), S) = Around(Within(w, j0 + d, S), S)
    BY <2>1, WithinStep
  <2>3. \A words : words \subseteq Around(words, S)
    BY DEF Around, OneEdit
  <2> QED
    BY <1>2, <2>2, <2>3
<1> HIDE DEF G
<1>3. \A d \in Nat : d \in G
  BY <1>1, <1>2, FromZero
<1> QED
  BY <1>3 DEF G

\* The distance is the fewest edits: the words within k edits are those at a
\* distance of at most k.
LEMMA WithinIsDistance ==
    ASSUME NEW S \in SUBSET Nat, NEW x \in Seq(S), NEW y \in Seq(S), NEW k \in Nat
    PROVE  Distance(x, y) <= k <=> y \in Within(x, k, S)
<1>1. ASSUME Distance(x, y) <= k PROVE y \in Within(x, k, S)
  <2>1. x \in Seq(Nat) /\ y \in Seq(Nat)
    BY SeqMonotonic
  <2>2. Distance(x, y) \in Nat
    BY <2>1, DistanceCell DEF Dist, Distance
  <2>3. k - Distance(x, y) \in Nat /\ Distance(x, y) + (k - Distance(x, y)) = k
    BY <1>1, <2>2
  <2> QED
    BY <2>2, <2>3, MixedIsWithin, WithinGrows
<1> QED
  BY <1>1, WithinIsNear

-----------------------------------------------------------------------------
\* The words a call compares are made of the bytes of the letters.
WordsOfBytes == a \in Seq(Byte) /\ b \in Seq(Byte)

LEMMA WordsCompared ==
    ASSUME Words \subseteq Seq(Byte) PROVE Spec => []WordsOfBytes
<1>1. Init => WordsOfBytes
  BY DEF Init, WordsOfBytes
<1>2. WordsOfBytes /\ [Next]_vars => WordsOfBytes'
  BY DEF WordsOfBytes, Next, Work, CallEmpty, Call, BeginRow, FillCell, SwapRows, Return, vars
<1> QED
  BY <1>1, <1>2, PTL DEF Spec

\* The distance a call answers is the fewest insertions, deletions and
\* replacements of a byte that make one word of the other (README.md:249), for
\* words of any length and any number of edits.
THEOREM DistanceIsFewest ==
    ASSUME MaxEdits \in Nat, Byte \subseteq Nat, Words \subseteq Seq(Byte)
    PROVE  Spec => []FewestEdits
<1>1. WordsOfBytes /\ AnswersRecurrence => FewestEdits
  <2> SUFFICES ASSUME WordsOfBytes, AnswersRecurrence, Returned, NEW k \in 0 .. MaxEdits
               PROVE  (result <= k) <=> (b \in Within(a, k, Byte))
    BY DEF FewestEdits
  <2>1. k \in Nat /\ Byte \in SUBSET Nat /\ a \in Seq(Byte) /\ b \in Seq(Byte)
    BY DEF WordsOfBytes
  <2>2. result = Distance(a, b)
    BY DEF AnswersRecurrence
  <2> QED
    BY <2>1, <2>2, WithinIsDistance
<1>2. Spec => []WordsOfBytes
  BY WordsCompared
<1> QED
  BY <1>1, <1>2, TwoRowsSuffice, PTL

=============================================================================
