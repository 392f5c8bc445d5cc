----------------------------- MODULE RateLimiter -----------------------------
(***************************************************************************)
(* SlidingWindowRateLimiter of one API server: a bucket of time stamps per *)
(* key, and the request threads that pass through it.  A thread reads the  *)
(* clock before it waits for the lock, so a bucket is not sorted when      *)
(* threads overtake each other.                                            *)
(***************************************************************************)
EXTENDS Integers, Sequences, FiniteSets

CONSTANTS
    Threads,       \* request threads
    Keys,          \* identities: user ids, or hosts of anonymous clients
    NoKey,         \* "serves no request"
    MaxRequests,   \* rate_limit_requests_per_minute
    Window,        \* window_seconds, in ticks
    MaxDelay,      \* environment: ticks a thread may wait for the lock
    MaxArrivals,   \* bound: requests
    MaxClock       \* bound: ticks of the clock

\* The limiter is disabled at MaxRequests = 0 and then has no state.
ASSUME LimiterAssumption ==
    /\ NoKey \notin Keys
    /\ {MaxRequests, Window} \subseteq Nat \ {0}
    /\ {MaxDelay, MaxArrivals, MaxClock} \subseteq Nat

VARIABLES
    clock,         \* time.monotonic()
    bucket,        \* _hits: the stamps of the requests let through
    waiting,       \* the request each thread takes to the lock: its key and stamp
    arrivals,
    admitted       \* history: the times at which requests were let through

vars == <<clock, bucket, waiting, arrivals, admitted>>

NoRequest == [key |-> NoKey, stamp |-> 0]

\* Type correctness.
TypeOK ==
    /\ clock \in Nat
    /\ bucket \in [Keys -> Seq(Nat)]
    /\ waiting \in [Threads -> [key : Keys \cup {NoKey}, stamp : Nat]]
    /\ arrivals \in Nat
    /\ admitted \in [Keys -> Seq(Nat)]

Init ==
    /\ clock = 0
    /\ bucket = [k \in Keys |-> <<>>]
    /\ waiting = [t \in Threads |-> NoRequest]
    /\ arrivals = 0
    /\ admitted = [k \in Keys |-> <<>>]

\* enforce_rate_limit calls allow(key), which reads the clock ...
Arrive(t, k) ==
    /\ waiting[t] = NoRequest
    /\ arrivals < MaxArrivals
    /\ arrivals' = arrivals + 1
    /\ waiting' = [waiting EXCEPT ![t] = [key |-> k, stamp |-> clock]]
    /\ UNCHANGED <<clock, bucket, admitted>>

PopsFromBack(b, current, n) ==
    n = IF b # <<>> /\ b[Len(b)] <= current - Window THEN Len(b) ELSE 0

\* popleft as long as the first stamp is outside the window: n times.
Pops(b, current, n) ==
    /\ \A i \in 1..n : b[i] <= current - Window
    /\ n < Len(b) => b[n + 1] > current - Window

FullAboveLimit(b) == Len(b) > MaxRequests
Full(b) == Len(b) >= MaxRequests

RecordedCutoff(b, current) == Append(b, current - Window)
Recorded(b, current) == Append(b, current)

\* ... and then takes the lock, drops what has expired, and refuses (429) or
\* records the request.
Admit(t) ==
    /\ waiting[t] # NoRequest
    /\ waiting' = [waiting EXCEPT ![t] = NoRequest]
    /\ LET k == waiting[t].key
           stamp == waiting[t].stamp IN
       \E n \in 0..Len(bucket[k]) :
         LET b == SubSeq(bucket[k], n + 1, Len(bucket[k])) IN
         /\ Pops(bucket[k], stamp, n)
         /\ IF Full(b)
              THEN /\ bucket' = [bucket EXCEPT ![k] = b]
                   /\ UNCHANGED admitted
              ELSE /\ bucket' = [bucket EXCEPT ![k] = Recorded(b, stamp)]
                   /\ admitted' = [admitted EXCEPT ![k] = Append(@, clock)]
    /\ UNCHANGED <<clock, arrivals>>

Tick ==
    /\ clock < MaxClock
    /\ \A t \in Threads : waiting[t] # NoRequest => clock < waiting[t].stamp + MaxDelay
    /\ clock' = clock + 1
    /\ UNCHANGED <<bucket, waiting, arrivals, admitted>>

Next ==
    \/ \E t \in Threads : Admit(t) \/ \E k \in Keys : Arrive(t, k)
    \/ Tick

Spec == Init /\ [][Next]_vars

-----------------------------------------------------------------------------
(* Properties.                                                             *)

\* However threads overtake each other on the way to the lock, at most
\* MaxRequests are let through in any stretch of time shorter than the window
\* by the longest wait.
WindowLimit ==
    \A k \in Keys : \A i \in DOMAIN admitted[k] :
        i + MaxRequests \in DOMAIN admitted[k] =>
            admitted[k][i + MaxRequests] >= admitted[k][i] + Window - MaxDelay

\* A request is refused only when MaxRequests were let through within the
\* window, give or take the longest wait: neither refused requests nor stamps
\* that expired behind a later one keep others out for longer.
RefusalJustified ==
    [][\A t \in Threads :
         waiting[t] # NoRequest /\ waiting'[t] = NoRequest /\ admitted' = admitted =>
           LET times == admitted[waiting[t].key] IN
           Cardinality({i \in DOMAIN times : times[i] > clock - Window - MaxDelay})
             >= MaxRequests]_vars
=============================================================================
