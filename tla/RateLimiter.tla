----------------------------- MODULE RateLimiter -----------------------------
(***************************************************************************)
(* Class RateLimiter (rate_limiter.hpp/.cpp), called by every route of the *)
(* server before its handler.  Each client address has a fixed window of   *)
(* WindowDuration and a count of the requests admitted in it.  The clock   *)
(* is read before the mutex is locked, so a thread may decide with a time  *)
(* that has passed.  Time is counted in ticks of an arbitrary length.      *)
(***************************************************************************)
EXTENDS Integers, FiniteSets, Functions

CONSTANTS
    Thread,            \* threads of the server's pool
    Client,            \* addresses of clients
    RequestsPerMinute, \* requests_per_minute_; 0 and below switch the limiter off
    WindowDuration,    \* window_duration, in ticks
    MaxClock,          \* bound on the clock
    MaxDelay           \* bound on the ticks between reading the clock and deciding

ASSUME LimiterAssumption ==
    /\ RequestsPerMinute \in Int
    /\ WindowDuration \in Nat \ {0}
    /\ MaxClock \in Nat /\ MaxDelay \in Nat

VARIABLES
    clock,     \* steady_clock
    windows,   \* windows_: [clients seen -> [count, start]]
    deciding,  \* the threads in try_consume, with the client they serve and
               \* the time they have read: [Thread subset -> [client, now]]
    admitted   \* ghost: the requests admitted, [client, window, number, at]

vars == <<clock, windows, deciding, admitted>>

Init ==
    /\ clock = 0
    /\ windows = << >>
    /\ deciding = << >>
    /\ admitted = {}

Tick ==
    /\ clock < MaxClock
    /\ \A t \in DOMAIN deciding : clock - deciding[t].now < MaxDelay
    /\ clock' = clock + 1
    /\ UNCHANGED <<windows, deciding, admitted>>

\* Switched off, the limiter lets everything through and keeps nothing.
ReadClock(t, c) ==
    /\ RequestsPerMinute > 0
    /\ t \notin DOMAIN deciding
    /\ deciding' = [u \in DOMAIN deciding \union {t} |->
                        IF u = t THEN [client |-> c, now |-> clock] ELSE deciding[u]]
    /\ UNCHANGED <<clock, windows, admitted>>

\* windows_[client_ip]: a client not seen before gets a window that starts
\* when it is made, not at the time the thread has read.
WindowOf(c) ==
    IF c \in DOMAIN windows THEN windows[c] ELSE [count |-> 0, start |-> clock]

\* Mutant: no window ends.
RenewedNever(w, time) == w

Renewed(w, time) ==
    IF time - w.start >= WindowDuration THEN [count |-> 0, start |-> time] ELSE w

\* Mutant: one request too many.
AdmitsOneMore(w) == w.count <= RequestsPerMinute

Admits(w) == w.count < RequestsPerMinute

Consume(t) ==
    /\ LET c == deciding[t].client
           w == Renewed(WindowOf(c), deciding[t].now)
           n == IF Admits(w) THEN w.count + 1 ELSE w.count
       IN  /\ windows' = [d \in DOMAIN windows \union {c} |->
                             IF d = c THEN [count |-> n, start |-> w.start] ELSE windows[d]]
           /\ admitted' = IF Admits(w)
                          THEN admitted \union
                                 {[client |-> c, window |-> w.start, number |-> n, at |-> clock]}
                          ELSE admitted
    /\ deciding' = Restrict(deciding, DOMAIN deciding \ {t})
    /\ UNCHANGED clock

Next == \/ Tick
        \/ \E t \in Thread, c \in Client : ReadClock(t, c)
        \/ \E t \in DOMAIN deciding : Consume(t)

Spec == Init /\ [][Next]_vars

-----------------------------------------------------------------------------
\* Counts stay within the quota, and no window starts in the future.
TypeOK ==
    /\ clock \in 0 .. MaxClock
    /\ DOMAIN windows \subseteq Client
    /\ \A c \in DOMAIN windows :
          windows[c] \in [count : 0 .. RequestsPerMinute, start : 0 .. clock]
    /\ DOMAIN deciding \subseteq Thread
    /\ \A t \in DOMAIN deciding : /\ RequestsPerMinute > 0
                                  /\ deciding[t] \in [client : Client, now : 0 .. clock]

AdmittedIn(c, first, last) ==
    {a \in admitted : a.client = c /\ a.at \in first .. last}

LetThrough(c, start) == {a \in admitted : a.client = c /\ a.window = start}

\* However the threads interleave, and with whatever times they have read: no
\* window of a client, past or present, has let more requests through than the
\* quota, and the present one exactly as many as it has counted, so that what
\* it counts is all it has let through (mutex_ in try_consume).
WindowQuota ==
    /\ \A a \in admitted :
          Cardinality(LetThrough(a.client, a.window)) <= RequestsPerMinute
    /\ \A c \in DOMAIN windows :
          Cardinality(LetThrough(c, windows[c].start)) = windows[c].count

\* Windows begin at different times than minutes, and a delayed request counts
\* for a window that is over: within any window's length a client gets at most
\* the quota of as many windows as may reach into it, two when no thread is
\* delayed (the end of one and the start of the next), unless there is no quota.
WindowsInReach == 1 + (2 * WindowDuration + MaxDelay - 2) \div WindowDuration

BurstBounded ==
    RequestsPerMinute > 0 =>
        \A c \in Client : \A first \in 0 .. clock :
            Cardinality(AdmittedIn(c, first, first + WindowDuration - 1))
                <= WindowsInReach * RequestsPerMinute

\* A client is refused only after as many requests as the quota within the last
\* window duration and the longest delay; what other clients send does not
\* count.
RefusedOnlyAtQuota ==
    [][\A t \in DOMAIN deciding :
          t \notin DOMAIN deciding' /\ admitted' = admitted =>
              Cardinality(AdmittedIn(deciding[t].client,
                                     clock - WindowDuration - MaxDelay + 1, clock))
                  >= RequestsPerMinute]_vars

\* "At most this many requests a minute from one address" (config.hpp:58).
MinuteQuota ==
    \A c \in Client : \A first \in 0 .. clock :
        Cardinality(AdmittedIn(c, first, first + WindowDuration - 1)) <= RequestsPerMinute

=============================================================================
