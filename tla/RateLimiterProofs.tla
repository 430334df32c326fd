-------------------------- MODULE RateLimiterProofs --------------------------
(***************************************************************************)
(* Theorems about the rate limiter, for any threads, clients, quota and    *)
(* window duration, and for threads delayed by any time.                   *)
(***************************************************************************)
EXTENDS RateLimiter, FiniteSetTheorems, TLAPS

\* What try_consume does to the window of client c: it ends with start w.start
\* and count n, w being the window as it was, or a new and later one; w has not
\* run out at the time the thread has read, and is full if t is refused.
Effect(t, c, w, n) ==
    /\ c = deciding[t].client
    /\ deciding[t].now < w.start + WindowDuration
    /\ windows' = [d \in DOMAIN windows \union {c} |->
                      IF d = c THEN [count |-> n, start |-> w.start] ELSE windows[d]]
    /\ \/ c \in DOMAIN windows /\ w = windows[c]
       \/ /\ w.count = 0
          /\ c \in DOMAIN windows => w.start >= windows[c].start + WindowDuration
    /\ \/ n = w.count /\ n = RequestsPerMinute /\ admitted' = admitted
       \/ n = w.count + 1 /\ admitted' = admitted \union
             {[client |-> c, window |-> w.start, number |-> n, at |-> clock]}
    /\ deciding' = Restrict(deciding, DOMAIN deciding \ {t})
    /\ clock' = clock

LEMMA ConsumeEffect ==
    ASSUME TypeOK, NEW t \in DOMAIN deciding, Consume(t)
    PROVE  \E c \in Client, w \in [count : 0 .. RequestsPerMinute, start : 0 .. clock],
              n \in 0 .. RequestsPerMinute : Effect(t, c, w, n)
<1> DEFINE c == deciding[t].client
           now == deciding[t].now
           w == Renewed(WindowOf(c), now)
           n == IF Admits(w) THEN w.count + 1 ELSE w.count
<1> USE LimiterAssumption
<1>1. c \in Client /\ now \in 0 .. clock /\ clock \in Nat /\ RequestsPerMinute \in Nat \ {0}
  BY DEF TypeOK
<1>2. WindowOf(c) \in [count : 0 .. RequestsPerMinute, start : 0 .. clock]
  BY <1>1 DEF WindowOf, TypeOK
<1>3. /\ w \in [count : 0 .. RequestsPerMinute, start : 0 .. clock]
      /\ \/ w = WindowOf(c)
         \/ w.count = 0 /\ w.start >= WindowOf(c).start + WindowDuration
  BY <1>1, <1>2 DEF Renewed
<1>4. \/ c \in DOMAIN windows /\ w = windows[c]
      \/ w.count = 0 /\ (c \in DOMAIN windows => w.start >= windows[c].start + WindowDuration)
  BY <1>3 DEF WindowOf
<1>5. n \in 0 .. RequestsPerMinute
  BY <1>1, <1>3 DEF Admits
<1>6. now < w.start + WindowDuration
  BY <1>1, <1>2 DEF Renewed
<1>7. Effect(t, c, w, n)
  <2>1. \/ n = w.count /\ n = RequestsPerMinute /\ ~Admits(w)
        \/ n = w.count + 1 /\ Admits(w)
    BY <1>1, <1>3 DEF Admits
  <2> QED
    BY <1>4, <1>6, <2>1 DEF Effect, Consume
<1> QED
  BY <1>1, <1>3, <1>5, <1>7

\* The limiter's state is always of its type: no count is above the quota and
\* no window starts in the future.
THEOREM TypeCorrect == Spec => []TypeOK
<1>1. Init => TypeOK
  BY LimiterAssumption DEF Init, TypeOK
<1>2. TypeOK /\ [Next]_vars => TypeOK'
  <2> SUFFICES ASSUME TypeOK, [Next]_vars PROVE TypeOK'
    OBVIOUS
  <2> USE LimiterAssumption DEF TypeOK
  <2>1. CASE UNCHANGED vars
    BY <2>1 DEF vars
  <2>2. CASE Tick
    BY <2>2 DEF Tick
  <2>3. ASSUME NEW t \in Thread, NEW c \in Client, ReadClock(t, c) PROVE TypeOK'
    BY <2>3 DEF ReadClock
  <2>4. ASSUME NEW t \in DOMAIN deciding, Consume(t) PROVE TypeOK'
    <3> PICK c \in Client, w \in [count : 0 .. RequestsPerMinute, start : 0 .. clock],
             n \in 0 .. RequestsPerMinute : Effect(t, c, w, n)
      BY <2>4, ConsumeEffect
    <3>1. clock' = clock /\ DOMAIN deciding' \subseteq DOMAIN deciding
          /\ \A u \in DOMAIN deciding' : deciding'[u] = deciding[u]
      BY DEF Effect, Restrict
    <3>2. /\ DOMAIN windows' \subseteq Client
          /\ \A d \in DOMAIN windows' :
                windows'[d] \in [count : 0 .. RequestsPerMinute, start : 0 .. clock]
      BY DEF Effect
    <3> QED
      BY <3>1, <3>2
  <2> QED
    BY <2>1, <2>2, <2>3, <2>4 DEF Next
<1> QED
  BY <1>1, <1>2, PTL DEF Spec

-----------------------------------------------------------------------------
(***************************************************************************)
(* The count of the present window is the number of its records.  That is  *)
(* not inductive: to admit a request must add one to the number of records *)
(* of its window, so no record may have its number yet.  Numbers of the    *)
(* present window are up to its count, and no record is of a window that   *)
(* has not begun, or of a client never seen.                               *)
(***************************************************************************)
CountsAgree ==
    \A c \in DOMAIN windows :
        Cardinality(LetThrough(c, windows[c].start)) = windows[c].count

RecordsFit ==
    /\ IsFiniteSet(admitted)
    /\ \A a \in admitted :
          /\ a.client \in DOMAIN windows
          /\ a.window \in Nat /\ a.number \in Nat
          /\ a.window <= windows[a.client].start
          /\ a.window = windows[a.client].start => a.number <= windows[a.client].count

LEMMA CountsStep ==
    ASSUME TypeOK, RecordsFit, CountsAgree, [Next]_vars
    PROVE  RecordsFit' /\ CountsAgree'
<1>1. CASE UNCHANGED <<windows, admitted>>
  BY <1>1 DEF RecordsFit, CountsAgree, LetThrough
<1>2. ASSUME NEW t \in DOMAIN deciding, Consume(t) PROVE RecordsFit' /\ CountsAgree'
  <2> PICK c \in Client, w \in [count : 0 .. RequestsPerMinute, start : 0 .. clock],
           n \in 0 .. RequestsPerMinute : Effect(t, c, w, n)
    BY <1>2, ConsumeEffect
  <2> DEFINE a == [client |-> c, window |-> w.start, number |-> n, at |-> clock]
  <2>1. /\ IsFiniteSet(LetThrough(c, w.start))
        /\ Cardinality(LetThrough(c, w.start)) = w.count
        /\ \A b \in LetThrough(c, w.start) : b.number <= w.count
        /\ \A b \in admitted : b.client = c => b.window <= w.start
    <3>1. IsFiniteSet(LetThrough(c, w.start))
      BY FS_Subset DEF LetThrough, RecordsFit
    <3>2. CASE c \in DOMAIN windows /\ w = windows[c]
      BY <3>1, <3>2 DEF LetThrough, RecordsFit, CountsAgree
    <3>3. CASE w.count = 0 /\ (c \in DOMAIN windows => windows[c].start < w.start)
      <4>1. \A b \in admitted : b.client = c => b.window < w.start
        BY <3>3 DEF RecordsFit, TypeOK
      <4>2. LetThrough(c, w.start) = {}
        BY <4>1 DEF LetThrough, RecordsFit
      <4> QED
        BY <3>1, <3>3, <4>1, <4>2, FS_EmptySet DEF RecordsFit
    <3> QED
      BY <3>2, <3>3, LimiterAssumption DEF Effect, TypeOK
  <2>2. CASE n = w.count /\ admitted' = admitted
    <3>1. RecordsFit'
      BY <2>1, <2>2 DEF Effect, RecordsFit, LetThrough, TypeOK
    <3>2. \A d \in DOMAIN windows' :
            Cardinality(LetThrough(d, windows'[d].start)) = windows'[d].count
      <4>1. Cardinality(LetThrough(c, w.start)) = n
        BY <2>1, <2>2
      <4> QED
        BY <2>2, <4>1 DEF Effect, CountsAgree
    <3> QED
      BY <2>2, <3>1, <3>2 DEF CountsAgree, LetThrough
  <2>3. CASE n = w.count + 1 /\ admitted' = admitted \union {a}
    <3>1. a \notin LetThrough(c, w.start)
      BY <2>1, <2>3
    <3>2. Cardinality(LetThrough(c, w.start) \union {a}) = n
      BY <2>1, <2>3, <3>1, FS_AddElement
    <3>3. {b \in admitted' : b.client = c /\ b.window = w.start} = LetThrough(c, w.start) \union {a}
      BY <2>3 DEF LetThrough
    <3>4. \A d \in DOMAIN windows \ {c} :
            {b \in admitted' : b.client = d /\ b.window = windows[d].start}
              = {b \in admitted : b.client = d /\ b.window = windows[d].start}
      BY <2>3
    <3>5. IsFiniteSet(admitted')
      BY <2>3, FS_AddElement DEF RecordsFit
    <3>6. RecordsFit'
      <4> SUFFICES ASSUME NEW b \in admitted'
                   PROVE  /\ b.client \in DOMAIN windows'
                          /\ b.window \in Nat /\ b.number \in Nat
                          /\ b.window <= windows'[b.client].start
                          /\ b.window = windows'[b.client].start =>
                                b.number <= windows'[b.client].count
        BY <3>5 DEF RecordsFit
      <4>1. CASE b = a
        BY <4>1 DEF Effect, TypeOK
      <4>2. CASE b \in admitted /\ b.client = c
        BY <2>1, <2>3, <4>2 DEF Effect, RecordsFit, LetThrough
      <4>3. CASE b \in admitted /\ b.client # c
        BY <4>3 DEF Effect, RecordsFit
      <4> QED
        BY <2>3, <4>1, <4>2, <4>3
    <3>7. CountsAgree'
      <4>1. \A d \in DOMAIN windows' :
              Cardinality({b \in admitted' : b.client = d /\ b.window = windows'[d].start})
                = windows'[d].count
        <5>1. Cardinality({b \in admitted' : b.client = c /\ b.window = windows'[c].start})
                = windows'[c].count
          BY <3>2, <3>3 DEF Effect
        <5>2. \A d \in DOMAIN windows \ {c} :
                Cardinality({b \in admitted' : b.client = d /\ b.window = windows[d].start})
                  = windows[d].count
          BY <3>4 DEF CountsAgree, LetThrough
        <5>3. \A d \in DOMAIN windows' : d = c \/ (d \in DOMAIN windows \ {c} /\ windows'[d] = windows[d])
          BY DEF Effect
        <5> QED
          BY <5>1, <5>2, <5>3
      <4> QED
        BY <3>6, <4>1 DEF CountsAgree, LetThrough
    <3> QED
      BY <3>6, <3>7
  <2> QED
    BY <2>2, <2>3 DEF Effect
<1> QED
  BY <1>1, <1>2 DEF Next, Tick, ReadClock, vars

-----------------------------------------------------------------------------
(***************************************************************************)
(* When a request is admitted.  A thread decides within MaxDelay of the    *)
(* time it has read, and that time lies before the end of the window the   *)
(* request is counted in.  So a request is admitted in its window or       *)
(* MaxDelay later at most; windows of a client lie a window duration       *)
(* apart, and in a window every request has a number of its own.           *)
(***************************************************************************)
DelayBounded == \A t \in DOMAIN deciding : clock - deciding[t].now <= MaxDelay

RecordsTimed ==
    \A a \in admitted :
        /\ a.number \in 1 .. RequestsPerMinute
        /\ a.at \in a.window .. clock
        /\ a.at < a.window + WindowDuration + MaxDelay
        /\ \/ a.window = windows[a.client].start
           \/ a.window + WindowDuration <= windows[a.client].start

Apart(a, b) ==
    a.client = b.client =>
        \/ a.window + WindowDuration <= b.window
        \/ b.window + WindowDuration <= a.window
        \/ a.window = b.window /\ (a.number = b.number => a = b)

RecordsApart == \A a, b \in admitted : Apart(a, b)

TimesInv == DelayBounded /\ RecordsTimed /\ RecordsApart

LEMMA TimesStep ==
    ASSUME TypeOK, RecordsFit, TimesInv, [Next]_vars
    PROVE  TimesInv'
<1> USE LimiterAssumption
<1>1. CASE UNCHANGED vars
  BY <1>1 DEF vars, TimesInv, DelayBounded, RecordsTimed, RecordsApart, Apart
<1>2. CASE Tick
  <2>1. DelayBounded'
    BY <1>2 DEF Tick, TypeOK, TimesInv, DelayBounded
  <2>2. RecordsTimed' /\ RecordsApart'
    BY <1>2 DEF Tick, TypeOK, TimesInv, RecordsFit, RecordsTimed, RecordsApart, Apart
  <2> QED
    BY <2>1, <2>2 DEF TimesInv
<1>3. ASSUME NEW t \in Thread, NEW c \in Client, ReadClock(t, c) PROVE TimesInv'
  <2>1. DelayBounded'
    BY <1>3 DEF ReadClock, TypeOK, TimesInv, DelayBounded
  <2> QED
    BY <1>3, <2>1 DEF ReadClock, TimesInv, RecordsTimed, RecordsApart, Apart
<1>4. ASSUME NEW t \in DOMAIN deciding, Consume(t) PROVE TimesInv'
  <2> PICK c \in Client, w \in [count : 0 .. RequestsPerMinute, start : 0 .. clock],
           n \in 0 .. RequestsPerMinute : Effect(t, c, w, n)
    BY <1>4, ConsumeEffect
  <2> DEFINE a == [client |-> c, window |-> w.start, number |-> n, at |-> clock]
  <2>1. DelayBounded'
    BY DEF Effect, Restrict, TimesInv, DelayBounded
  <2>2. clock \in Nat /\ w.start \in 0 .. clock /\ w.count \in 0 .. RequestsPerMinute
    BY DEF TypeOK
  <2>3. clock < w.start + WindowDuration + MaxDelay
    BY <2>2 DEF Effect, TimesInv, DelayBounded, TypeOK
  <2>4. ASSUME NEW b \in admitted, b.client = c
        PROVE  \/ b.window = w.start /\ b.number <= w.count
               \/ b.window + WindowDuration <= w.start
    <3>1. /\ b.client \in DOMAIN windows /\ b.window \in Nat /\ b.number \in Nat
          /\ b.window <= windows[c].start
          /\ b.window = windows[c].start => b.number <= windows[c].count
      BY <2>4 DEF RecordsFit
    <3>2. b.window = windows[c].start \/ b.window + WindowDuration <= windows[c].start
      BY <2>4 DEF TimesInv, RecordsTimed
    <3>3. w = windows[c] \/ w.start >= windows[c].start + WindowDuration
      BY <2>4, <3>1 DEF Effect
    <3>4. windows[c].start \in Nat
      BY <2>4, <3>1 DEF TypeOK
    <3> QED
      BY <2>2, <3>1, <3>2, <3>3, <3>4
  <2>5. ASSUME NEW b \in admitted
        PROVE  /\ b.number \in 1 .. RequestsPerMinute
               /\ b.at \in b.window .. clock'
               /\ b.at < b.window + WindowDuration + MaxDelay
               /\ \/ b.window = windows'[b.client].start
                  \/ b.window + WindowDuration <= windows'[b.client].start
    <3>1. /\ b.number \in 1 .. RequestsPerMinute
          /\ b.at \in b.window .. clock'
          /\ b.at < b.window + WindowDuration + MaxDelay
      BY DEF Effect, TimesInv, RecordsTimed
    <3>2. CASE b.client = c
      BY <2>4, <3>1, <3>2 DEF Effect
    <3>3. CASE b.client # c
      BY <3>1, <3>3 DEF Effect, TimesInv, RecordsTimed, RecordsFit
    <3> QED
      BY <3>2, <3>3
  <2>6. CASE admitted' = admitted
    BY <2>1, <2>5, <2>6 DEF TimesInv, RecordsTimed, RecordsApart
  <2>7. CASE n = w.count + 1 /\ admitted' = admitted \union {a}
    <3>1. RecordsTimed'
      <4>1. windows'[c].start = w.start /\ clock' = clock
        BY DEF Effect
      <4>2. a.number \in 1 .. RequestsPerMinute /\ a.at \in a.window .. clock
        BY <2>2, <2>7
      <4> QED
        BY <2>3, <2>5, <2>7, <4>1, <4>2 DEF RecordsTimed
    <3>2. ASSUME NEW b \in admitted PROVE Apart(a, b) /\ Apart(b, a)
      <4>1. CASE b.client = c
        <5>1. b.number # n
              \/ b.window + WindowDuration <= w.start
          BY <2>2, <2>4, <2>7, <4>1
        <5> QED
          BY <2>4, <4>1, <5>1 DEF Apart
      <4> QED
        BY <4>1 DEF Apart
    <3>3. Apart(a, a)
      BY DEF Apart
    <3>4. RecordsApart'
      BY <2>7, <3>2, <3>3 DEF RecordsApart, TimesInv
    <3> QED
      BY <2>1, <3>1, <3>4 DEF TimesInv
  <2> QED
    BY <2>6, <2>7 DEF Effect
<1> QED
  BY <1>1, <1>2, <1>3, <1>4 DEF Next

LimiterInvariant == TypeOK /\ RecordsFit /\ CountsAgree /\ TimesInv

LEMMA LimiterInvariantHolds == Spec => []LimiterInvariant
<1>1. Init => RecordsFit /\ CountsAgree /\ TimesInv
  BY FS_EmptySet
  DEF Init, RecordsFit, CountsAgree, TimesInv, DelayBounded, RecordsTimed, RecordsApart
<1> QED
  BY <1>1, CountsStep, TimesStep, TypeCorrect, PTL DEF Spec, LimiterInvariant

\* No window admits more requests than the quota, present or past, and the
\* present one's count misses none, for any threads, clients, quota and delays:
\* requests of a window have different numbers, up to the quota.
THEOREM QuotaHolds == Spec => []WindowQuota
<1>1. LimiterInvariant => WindowQuota
  <2> SUFFICES ASSUME LimiterInvariant, NEW a \in admitted
               PROVE  Cardinality(LetThrough(a.client, a.window)) <= RequestsPerMinute
    BY DEF LimiterInvariant, CountsAgree, WindowQuota
  <2> DEFINE R == LetThrough(a.client, a.window)
             numberOf == [b \in R |-> b.number]
  <2>1. \A b \in R : b \in admitted /\ b.client = a.client /\ b.window = a.window
                    /\ b.number \in 1 .. RequestsPerMinute
    BY DEF LetThrough, LimiterInvariant, TimesInv, RecordsTimed
  <2>2. RequestsPerMinute \in Nat
    BY LimiterAssumption DEF LimiterInvariant, TimesInv, RecordsTimed
  <2>3. ASSUME NEW b \in R, NEW d \in R, numberOf[b] = numberOf[d] PROVE b = d
    <3>1. Apart(b, d) /\ a.window \in Nat
      BY <2>1 DEF LimiterInvariant, TimesInv, RecordsApart, RecordsFit
    <3> QED
      BY <2>1, <2>3, <3>1, LimiterAssumption DEF Apart
  <2>4. numberOf \in Injection(R, 1 .. RequestsPerMinute)
    BY <2>1, <2>3 DEF Injection, IsInjective
  <2>5. IsFiniteSet(1 .. RequestsPerMinute) /\ Cardinality(1 .. RequestsPerMinute) = RequestsPerMinute
    BY <2>2, FS_Interval
  <2> QED
    BY <2>4, <2>5, FS_Injection
<1> QED
  BY <1>1, LimiterInvariantHolds, PTL

\* A request is refused only when its client has had the quota within the last
\* window duration and the longest delay: a full window is one that lasts, and
\* it holds as many admitted requests of this client as its count says.
THEOREM RefusedAtQuota == Spec => RefusedOnlyAtQuota
<1>1. LimiterInvariant /\ [Next]_vars =>
        [\A t \in DOMAIN deciding :
            t \notin DOMAIN deciding' /\ admitted' = admitted =>
              Cardinality(AdmittedIn(deciding[t].client,
                                     clock - WindowDuration - MaxDelay + 1, clock))
                  >= RequestsPerMinute]_vars
  <2> SUFFICES ASSUME LimiterInvariant, Next, NEW t \in DOMAIN deciding,
                      t \notin DOMAIN deciding', admitted' = admitted
               PROVE  Cardinality(AdmittedIn(deciding[t].client,
                                     clock - WindowDuration - MaxDelay + 1, clock))
                        >= RequestsPerMinute
    BY DEF vars
  <2> USE LimiterAssumption
  <2>1. ~Tick /\ \A u \in Thread, c \in Client : ~ReadClock(u, c)
    BY DEF Tick, ReadClock
  <2>2. \A u \in DOMAIN deciding \ {t} : ~Consume(u)
    BY DEF Consume, Restrict
  <2>3. Consume(t)
    BY <2>1, <2>2 DEF Next
  <2> PICK c \in Client, w \in [count : 0 .. RequestsPerMinute, start : 0 .. clock],
           n \in 0 .. RequestsPerMinute : Effect(t, c, w, n)
    BY <2>3, ConsumeEffect DEF LimiterInvariant
  <2> DEFINE recent == AdmittedIn(c, clock - WindowDuration - MaxDelay + 1, clock)
  <2>4. n = w.count /\ n = RequestsPerMinute
    <3>1. ASSUME n = w.count + 1,
                 admitted' = admitted \union
                   {[client |-> c, window |-> w.start, number |-> n, at |-> clock]}
          PROVE  FALSE
      <4> DEFINE b == [client |-> c, window |-> w.start, number |-> n, at |-> clock]
      <4>1. b \in admitted
        BY <3>1
      <4>2. b.client \in DOMAIN windows /\ b.window <= windows[c].start
            /\ (b.window = windows[c].start => b.number <= windows[c].count)
        BY <4>1 DEF LimiterInvariant, RecordsFit
      <4>3. windows[c].start \in Nat
        BY <4>1, <4>2 DEF LimiterInvariant, TypeOK
      <4> QED
        BY <3>1, <4>2, <4>3 DEF Effect
    <3> QED
      BY <3>1 DEF Effect
  <2>5. c \in DOMAIN windows /\ w = windows[c]
    BY <2>4 DEF Effect, LimiterInvariant, TypeOK
  <2>6. Cardinality(LetThrough(c, w.start)) = RequestsPerMinute
    BY <2>4, <2>5 DEF LimiterInvariant, CountsAgree, LetThrough
  <2>7. clock < w.start + WindowDuration + MaxDelay
    BY DEF Effect, LimiterInvariant, TimesInv, DelayBounded, TypeOK
  <2>8. LetThrough(c, w.start) \subseteq recent
    <3> SUFFICES ASSUME NEW a \in admitted, a.client = c, a.window = w.start
                 PROVE  a.at \in clock - WindowDuration - MaxDelay + 1 .. clock
      BY DEF LetThrough, AdmittedIn
    <3>1. a.at \in w.start .. clock /\ clock \in Nat
      BY DEF LimiterInvariant, TimesInv, RecordsTimed, TypeOK
    <3> QED
      BY <2>7, <3>1
  <2>9. IsFiniteSet(recent)
    BY FS_Subset DEF AdmittedIn, LimiterInvariant, RecordsFit
  <2>10. Cardinality(LetThrough(c, w.start)) <= Cardinality(recent)
    BY <2>8, <2>9, FS_Subset
  <2> QED
    BY <2>6, <2>9, <2>10, FS_CardinalityType DEF Effect
<1> QED
  BY <1>1, LimiterInvariantHolds, PTL DEF Spec, RefusedOnlyAtQuota

(***************************************************************************)
(* BurstBounded counts by places.  The windows that can hold a request     *)
(* admitted in `first .. first + WindowDuration - 1' begin in a span of    *)
(* 2 * WindowDuration + MaxDelay - 1 ticks.  Cut into buckets of a window  *)
(* duration each, the span has WindowsInReach buckets with one window at   *)
(* most in each: a bucket and a number tell the requests apart.            *)
(***************************************************************************)
LEMMA Quotient ==
    ASSUME NEW d \in Nat \ {0}, NEW x \in Nat
    PROVE  x \div d \in Nat /\ d * (x \div d) <= x /\ x < d * (x \div d) + d
OBVIOUS

LEMMA QuotientMonotone ==
    ASSUME NEW d \in Nat \ {0}, NEW x \in Nat, NEW y \in Nat, x <= y
    PROVE  x \div d \in 0 .. y \div d
<1> DEFINE q == x \div d
           r == y \div d
<1>1. q \in Nat /\ r \in Nat /\ d * q <= x /\ y < d * r + d
  BY Quotient
<1> HIDE DEF q, r
<1>2. d * q < d * (r + 1)
  BY <1>1
<1>3. q < r + 1
  BY <1>1, <1>2
<1> QED
  BY <1>1, <1>3 DEF q, r

LEMMA OneWindowPerBucket ==
    ASSUME NEW d \in Nat \ {0}, NEW x \in Nat, NEW y \in Nat, x + d <= y
    PROVE  x \div d # y \div d
<1> DEFINE q == x \div d
           r == y \div d
<1>1. q \in Nat /\ r \in Nat /\ d * q <= x /\ y < d * r + d
  BY Quotient
<1> HIDE DEF q, r
<1>2. d * q + d < d * r + d
  BY <1>1
<1>3. q < r
  BY <1>1, <1>2
<1> QED
  BY <1>1, <1>3 DEF q, r

\* Within any window's length a client gets at most the quota of as many
\* windows as may reach into it: WindowsInReach, which is two without delays
\* and more with them.
THEOREM BurstsBounded == Spec => []BurstBounded
<1>1. LimiterInvariant => BurstBounded
  <2> SUFFICES ASSUME LimiterInvariant, RequestsPerMinute > 0,
                      NEW c \in Client, NEW first \in 0 .. clock
               PROVE  Cardinality(AdmittedIn(c, first, first + WindowDuration - 1))
                        <= WindowsInReach * RequestsPerMinute
    BY DEF BurstBounded
  <2> DEFINE burst == AdmittedIn(c, first, first + WindowDuration - 1)
             span == 2 * WindowDuration + MaxDelay - 2
             low == first - WindowDuration - MaxDelay + 1
             buckets == 0 .. span \div WindowDuration
             place == [a \in burst |-> <<(a.window - low) \div WindowDuration, a.number>>]
  <2> USE LimiterAssumption
  <2>1. /\ clock \in Nat /\ first \in Nat /\ RequestsPerMinute \in Nat /\ low \in Int
        /\ span \in Nat /\ span \div WindowDuration \in Nat
    BY DEF LimiterInvariant, TypeOK
  <2>2. ASSUME NEW a \in burst
        PROVE  /\ a \in admitted /\ a.client = c
               /\ a.number \in 1 .. RequestsPerMinute
               /\ a.window - low \in 0 .. span
    <3>1. a \in admitted /\ a.client = c /\ a.at \in first .. first + WindowDuration - 1
      BY DEF AdmittedIn
    <3>2. /\ a.window \in Nat
          /\ a.number \in 1 .. RequestsPerMinute
          /\ a.at \in a.window .. clock
          /\ a.at < a.window + WindowDuration + MaxDelay
      BY <3>1 DEF LimiterInvariant, RecordsFit, TimesInv, RecordsTimed
    <3> QED
      BY <2>1, <3>1, <3>2
  <2>3. ASSUME NEW x \in 0 .. span PROVE x \div WindowDuration \in buckets
    BY <2>1, <2>3, QuotientMonotone
  <2>4. place \in [burst -> buckets \X (1 .. RequestsPerMinute)]
    BY <2>2, <2>3
  <2>5. ASSUME NEW a \in burst, NEW b \in burst, place[a] = place[b] PROVE a = b
    <3>1. /\ a.number = b.number
          /\ (a.window - low) \div WindowDuration = (b.window - low) \div WindowDuration
      BY <2>5
    <3>2. /\ a \in admitted /\ b \in admitted /\ a.client = b.client
          /\ a.window - low \in Nat /\ b.window - low \in Nat
          /\ a.window \in Nat /\ b.window \in Nat
      BY <2>1, <2>2 DEF LimiterInvariant, RecordsFit
    <3>3. Apart(a, b)
      BY <3>2 DEF LimiterInvariant, TimesInv, RecordsApart
    <3>4. ASSUME a.window + WindowDuration <= b.window PROVE FALSE
      <4> DEFINE x == a.window - low
                 y == b.window - low
      <4>1. x \in Nat /\ y \in Nat /\ x + WindowDuration <= y
        BY <2>1, <3>2, <3>4
      <4>2. x \div WindowDuration = y \div WindowDuration
        BY <3>1
      <4> HIDE DEF x, y
      <4> QED
        BY <4>1, <4>2, OneWindowPerBucket
    <3>5. ASSUME b.window + WindowDuration <= a.window PROVE FALSE
      <4> DEFINE x == b.window - low
                 y == a.window - low
      <4>1. x \in Nat /\ y \in Nat /\ x + WindowDuration <= y
        BY <2>1, <3>2, <3>5
      <4>2. x \div WindowDuration = y \div WindowDuration
        BY <3>1
      <4> HIDE DEF x, y
      <4> QED
        BY <4>1, <4>2, OneWindowPerBucket
    <3> QED
      BY <3>1, <3>2, <3>3, <3>4, <3>5 DEF Apart
  <2>6. place \in Injection(burst, buckets \X (1 .. RequestsPerMinute))
    BY <2>4, <2>5 DEF Injection, IsInjective
  <2>7. /\ IsFiniteSet(buckets \X (1 .. RequestsPerMinute))
        /\ Cardinality(buckets \X (1 .. RequestsPerMinute))
             = WindowsInReach * RequestsPerMinute
    <3>1. IsFiniteSet(buckets) /\ Cardinality(buckets) = span \div WindowDuration + 1
      <4> DEFINE q == span \div WindowDuration
      <4>1. 0 \in Int /\ q \in Int /\ q \in Nat
        BY <2>1
      <4> HIDE DEF q
      <4>2. IsFiniteSet(0 .. q) /\ Cardinality(0 .. q) = q + 1
        BY <4>1, FS_Interval
      <4> QED
        BY <4>2 DEF q
    <3>2. IsFiniteSet(1 .. RequestsPerMinute) /\ Cardinality(1 .. RequestsPerMinute) = RequestsPerMinute
      BY <2>1, FS_Interval
    <3>3. WindowsInReach = Cardinality(buckets)
      BY <2>1, <3>1 DEF WindowsInReach
    <3> HIDE DEF buckets
    <3> QED
      BY <3>1, <3>2, <3>3, FS_Product
  <2> QED
    BY <2>6, <2>7, FS_Injection
<1> QED
  BY <1>1, LimiterInvariantHolds, PTL

=============================================================================
