-------------------------- MODULE RateLimiterProofs --------------------------
(* Proofs about RateLimiter, for every set of threads and keys, every limit, *)
(* window and delay.                                                         *)
EXTENDS RateLimiter, SequenceTheorems, FiniteSetTheorems, TLAPS

-----------------------------------------------------------------------------
(* The invariant of one bucket q, the times a at which its requests were let *)
(* through, and the clock.  The bucket holds the stamps of the last of them, *)
(* in the order in which they held the lock; those popped before had left    *)
(* the window of some request that has held the lock since.                  *)

\* A stamp is at most MaxDelay older than the time its request held the lock.
Close(stamp, at) == stamp <= at /\ at <= stamp + MaxDelay

Popped(q, a) == Len(a) - Len(q)

IsSuffix(q, a) ==
    /\ Popped(q, a) \in Nat
    /\ \A i \in 1..Len(q) : Close(q[i], a[Popped(q, a) + i])

PoppedAreOld(q, a, now) == \A i \in 1..Popped(q, a) : a[i] + Window <= now + MaxDelay

InOrder(a, now) == \A i \in 1..Len(a) : a[i] <= now /\ \A j \in 1..i : a[j] <= a[i]

Limited(a) == \A i \in 1..Len(a) :
    i + MaxRequests <= Len(a) => a[i + MaxRequests] >= a[i] + Window - MaxDelay

BucketInv(q, a, now) ==
    IsSuffix(q, a) /\ PoppedAreOld(q, a, now) /\ InOrder(a, now) /\ Limited(a)

WaitsBounded ==
    \A t \in Threads : waiting[t] # NoRequest =>
        waiting[t].key \in Keys /\ Close(waiting[t].stamp, clock)

Inv == TypeOK /\ WaitsBounded /\ \A k \in Keys : BucketInv(bucket[k], admitted[k], clock)

-----------------------------------------------------------------------------
(* Lemmas about buckets.                                                     *)

\* The limit and the window are positive.
LEMMA Params == MaxRequests \in Nat \ {0} /\ Window \in Nat \ {0} /\ MaxDelay \in Nat
  BY LimiterAssumption DEF LimiterAssumption

\* Arithmetic of one pop: an entry let through at x with stamp y is old at n.
LEMMA Chain ==
    ASSUME NEW x \in Nat, NEW y \in Nat, NEW s \in Nat, NEW n \in Nat,
           y <= s - Window, x <= y + MaxDelay, s <= n
    PROVE  x + Window <= n + MaxDelay
  BY Params

\* The same bound read as a distance between two admissions.
LEMMA Shift ==
    ASSUME NEW x \in Nat, NEW n \in Nat, x + Window <= n + MaxDelay
    PROVE  n >= x + Window - MaxDelay
  BY Params

\* One more than a number is the only larger number it can be at most.
LEMMA AtMostNext ==
    ASSUME NEW x \in Nat, NEW y \in Nat, x <= y + 1 PROVE x <= y \/ x = y + 1
  OBVIOUS

\* What is left of a bucket after n pops, entry by entry.
LEMMA Rest ==
    ASSUME NEW q \in Seq(Nat), NEW n \in 0..Len(q)
    PROVE  LET b == SubSeq(q, n + 1, Len(q)) IN
           /\ b \in Seq(Nat) /\ Len(b) = Len(q) - n
           /\ \A i \in 1..Len(b) : b[i] = q[n + i]
  <1>1. /\ Len(q) \in Nat /\ n \in Nat
    OBVIOUS
  <1>2. \A i \in (n + 1)..Len(q) : q[i] \in Nat
    OBVIOUS
  <1>3. CASE n + 1 <= Len(q)
    <2>1. /\ SubSeq(q, n + 1, Len(q)) \in Seq(Nat)
          /\ Len(SubSeq(q, n + 1, Len(q))) = Len(q) - (n + 1) + 1
          /\ \A i \in 1..(Len(q) - (n + 1) + 1) : SubSeq(q, n + 1, Len(q))[i] = q[n + 1 + i - 1]
      BY <1>1, <1>3, SubSeqProperties
    <2> QED BY <2>1, <1>1, <1>3
  <1>4. CASE n = Len(q)
    <2>1. SubSeq(q, n + 1, Len(q)) = <<>>
      BY <1>1, <1>4, SubSeqEmpty
    <2> QED BY <2>1, <1>1, <1>4
  <1> QED BY <1>1, <1>3, <1>4

\* The pops stop at a stamp inside the window.
LEMMA RestIsInWindow ==
    ASSUME NEW q \in Seq(Nat), NEW stamp \in Nat, NEW n \in 0..Len(q), Pops(q, stamp, n),
           SubSeq(q, n + 1, Len(q)) # <<>>
    PROVE  SubSeq(q, n + 1, Len(q))[1] > stamp - Window
  <1> DEFINE b == SubSeq(q, n + 1, Len(q))
  <1>1. b \in Seq(Nat) /\ Len(b) = Len(q) - n /\ \A i \in 1..Len(b) : b[i] = q[n + i]
    BY Rest
  <1>2. Len(b) # 0
    BY <1>1, EmptySeq
  <1> HIDE DEF b
  <1>3. Len(q) \in Nat /\ Len(b) \in Nat /\ n \in Nat
    BY <1>1
  <1>4. 1 \in 1..Len(b) /\ n < Len(q)
    BY <1>1, <1>2, <1>3
  <1>5. b[1] = q[n + 1]
    BY <1>1, <1>4
  <1> QED BY <1>4, <1>5 DEF Pops, b

\* Popping what is outside the window of a request that is close to now.
LEMMA PopKeeps ==
    ASSUME NEW q \in Seq(Nat), NEW a \in Seq(Nat), NEW now \in Nat, NEW stamp \in Nat,
           NEW n \in 0..Len(q),
           BucketInv(q, a, now), Pops(q, stamp, n), Close(stamp, now)
    PROVE  BucketInv(SubSeq(q, n + 1, Len(q)), a, now)
  <1> USE Params
  <1> DEFINE b == SubSeq(q, n + 1, Len(q))
             d == Popped(q, a)
  <1>1. /\ b \in Seq(Nat) /\ Len(b) = Len(q) - n /\ Len(b) \in Nat
        /\ \A i \in 1..Len(b) : b[i] = q[n + i]
    BY Rest
  <1> HIDE DEF b
  <1>2. d \in Nat /\ Len(a) = d + Len(q) /\ Popped(b, a) = d + n /\ n \in Nat /\ Len(q) \in Nat
    BY <1>1 DEF BucketInv, IsSuffix, Popped
  <1>3. \A i \in 1..Len(q) : Close(q[i], a[d + i])
    BY DEF BucketInv, IsSuffix
  <1>4. \A i \in 1..d : a[i] + Window <= now + MaxDelay
    BY DEF BucketInv, PoppedAreOld
  <1> HIDE DEF d
  <1>5. IsSuffix(b, a)
    <2>1. ASSUME NEW i \in 1..Len(b) PROVE Close(b[i], a[(d + n) + i])
      <3>1. n + i \in 1..Len(q) /\ (d + n) + i = d + (n + i)
        BY <1>1, <1>2
      <3> QED BY <3>1, <1>1, <1>3
    <2> QED BY <2>1, <1>2 DEF IsSuffix
  <1>6. PoppedAreOld(b, a, now)
    <2>1. ASSUME NEW i \in 1..(d + n), i > d PROVE a[i] + Window <= now + MaxDelay
      <3>1. i - d \in 1..n /\ i - d \in 1..Len(q) /\ d + (i - d) = i
        BY <2>1, <1>2
      <3>2. q[i - d] <= stamp - Window
        BY <3>1 DEF Pops
      <3>3. Close(q[i - d], a[i])
        BY <3>1, <1>3
      <3>4. q[i - d] \in Nat /\ a[i] \in Nat
        BY <3>1, <1>2, SMTT(30)
      <3>5. a[i] <= q[i - d] + MaxDelay /\ stamp <= now
        BY <3>3 DEF Close
      <3> QED BY <3>2, <3>4, <3>5, Chain
    <2>2. \A i \in 1..(d + n) : i > d \/ i \in 1..d
      BY <1>2
    <2> QED BY <2>1, <2>2, <1>2, <1>4 DEF PoppedAreOld
  <1> QED BY <1>5, <1>6 DEF BucketInv, b

\* Recording a request in a bucket that is not full.
LEMMA RecordKeeps ==
    ASSUME NEW b \in Seq(Nat), NEW a \in Seq(Nat), NEW now \in Nat, NEW stamp \in Nat,
           BucketInv(b, a, now), ~Full(b), Close(stamp, now)
    PROVE  BucketInv(Append(b, stamp), Append(a, now), now)
  <1> USE Params
  <1> DEFINE c == Append(b, stamp)
             e == Append(a, now)
             d == Popped(b, a)
  <1>1. /\ Len(c) = Len(b) + 1 /\ Len(e) = Len(a) + 1
        /\ Len(a) \in Nat /\ Len(b) \in Nat
        /\ \A i \in 1..Len(b) : c[i] = b[i]
        /\ c[Len(b) + 1] = stamp
        /\ \A i \in 1..Len(a) : e[i] = a[i] /\ a[i] \in Nat
        /\ e[Len(a) + 1] = now
    OBVIOUS
  <1>2. d \in Nat /\ Len(a) = d + Len(b) /\ Popped(c, e) = d
    BY <1>1 DEF BucketInv, IsSuffix, Popped
  <1>3. Len(b) < MaxRequests
    BY <1>1 DEF Full
  <1>4. \A i \in 1..Len(b) : Close(b[i], a[d + i])
    BY DEF BucketInv, IsSuffix
  <1>5. \A i \in 1..d : a[i] + Window <= now + MaxDelay
    BY DEF BucketInv, PoppedAreOld
  <1> HIDE DEF c, e, d
  <1>6. IsSuffix(c, e)
    <2>1. ASSUME NEW i \in 1..(Len(b) + 1) PROVE Close(c[i], e[d + i])
      <3>1. CASE i <= Len(b)
        <4>1. i \in 1..Len(b) /\ d + i \in 1..Len(a)
          BY <3>1, <1>1, <1>2
        <4> QED BY <4>1, <1>1, <1>4
      <3>2. CASE i = Len(b) + 1
        <4>1. d + i = Len(a) + 1
          BY <3>2, <1>1, <1>2
        <4> QED BY <4>1, <3>2, <1>1
      <3> QED BY <3>1, <3>2, <1>1
    <2> QED BY <2>1, <1>1, <1>2 DEF IsSuffix
  <1>7. PoppedAreOld(c, e, now)
    <2>1. \A i \in 1..d : i \in 1..Len(a)
      BY <1>1, <1>2
    <2> QED BY <2>1, <1>1, <1>2, <1>5 DEF PoppedAreOld
  <1>8. InOrder(e, now)
    <2>1. \A i \in 1..Len(a) : a[i] <= now /\ \A j \in 1..i : a[j] <= a[i]
      BY DEF BucketInv, InOrder
    <2>2. ASSUME NEW i \in 1..(Len(a) + 1) PROVE e[i] <= now /\ \A j \in 1..i : e[j] <= e[i]
      <3>1. CASE i \in 1..Len(a)
        <4>1. \A j \in 1..i : j \in 1..Len(a)
          BY <3>1, <1>1
        <4> QED BY <3>1, <4>1, <2>1, <1>1
      <3>2. CASE i = Len(a) + 1
        <4>1. e[i] = now
          BY <3>2, <1>1
        <4>2. ASSUME NEW j \in 1..i PROVE e[j] <= now
          <5>1. CASE j \in 1..Len(a)
            BY <5>1, <2>1, <1>1
          <5>2. CASE j = i
            BY <5>2, <4>1
          <5> QED BY <5>1, <5>2, <3>2, <1>1
        <4> QED BY <4>1, <4>2
      <3> QED BY <3>1, <3>2, <1>1
    <2> QED BY <2>2, <1>1 DEF InOrder
  <1>9. Limited(e)
    <2>1. ASSUME NEW i \in 1..(Len(a) + 1), i + MaxRequests <= Len(a) + 1
          PROVE  e[i + MaxRequests] >= e[i] + Window - MaxDelay
      <3>1. CASE i + MaxRequests <= Len(a)
        <4>1. i \in 1..Len(a) /\ i + MaxRequests \in 1..Len(a)
          BY <3>1, <1>1
        <4>2. a[i + MaxRequests] >= a[i] + Window - MaxDelay
          BY <4>1, <3>1 DEF BucketInv, Limited
        <4> QED BY <4>1, <4>2, <1>1
      <3>2. CASE i + MaxRequests = Len(a) + 1
        <4>1. i \in 1..d /\ i \in 1..Len(a)
          <5>1. i = d + Len(b) + 1 - MaxRequests /\ i >= 1
            BY <3>2, <1>1, <1>2
          <5>2. i <= d
            BY <5>1, <1>1, <1>2, <1>3
          <5> QED BY <5>1, <5>2, <1>1, <1>2
        <4>2. e[i] = a[i] /\ e[i + MaxRequests] = now /\ a[i] \in Nat
          BY <4>1, <3>2, <1>1
        <4>3. a[i] + Window <= now + MaxDelay
          BY <4>1, <1>5
        <4>4. now >= a[i] + Window - MaxDelay
          BY <4>2, <4>3, Shift
        <4> QED BY <4>2, <4>4
      <3>3. i + MaxRequests <= Len(a) \/ i + MaxRequests = Len(a) + 1
        <4>1. i \in Nat /\ i + MaxRequests \in Nat /\ Len(a) \in Nat
          BY <1>1, Params
        <4>2. i + MaxRequests <= Len(a) + 1
          BY <2>1
        <4> QED BY <4>1, <4>2, AtMostNext
      <3> QED BY <3>1, <3>2, <3>3
    <2> QED BY <2>1, <1>1 DEF Limited
  <1> QED BY <1>6, <1>7, <1>8, <1>9 DEF BucketInv, c, e

\* Time only makes what was popped older.
LEMMA TimeKeeps ==
    ASSUME NEW q \in Seq(Nat), NEW a \in Seq(Nat), NEW now \in Nat, BucketInv(q, a, now)
    PROVE  BucketInv(q, a, now + 1)
  <1> USE Params
  <1>1. /\ Popped(q, a) \in Nat /\ Popped(q, a) <= Len(a) /\ Len(a) \in Nat
        /\ \A i \in 1..Len(a) : a[i] \in Nat
    BY DEF BucketInv, IsSuffix, Popped
  <1>2. PoppedAreOld(q, a, now + 1)
    BY <1>1 DEF BucketInv, PoppedAreOld
  <1>3. InOrder(a, now + 1)
    BY <1>1 DEF BucketInv, InOrder
  <1> QED BY <1>2, <1>3 DEF BucketInv

\* A full bucket whose first stamp is inside the window of a request.
LEMMA FullIsJustified ==
    ASSUME NEW b \in Seq(Nat), NEW a \in Seq(Nat), NEW now \in Nat, NEW stamp \in Nat,
           BucketInv(b, a, now), Full(b), Close(stamp, now),
           b # <<>> => b[1] > stamp - Window
    PROVE  Cardinality({i \in DOMAIN a : a[i] > now - Window - MaxDelay}) >= MaxRequests
  <1> DEFINE d == Popped(b, a)
             recent == {i \in DOMAIN a : a[i] > now - Window - MaxDelay}
  <1>1. /\ Len(a) \in Nat /\ Len(b) \in Nat /\ d \in Nat /\ Len(a) = d + Len(b)
        /\ DOMAIN a = 1..Len(a) /\ \A i \in 1..Len(a) : a[i] \in Nat
    BY DEF BucketInv, IsSuffix, Popped
  <1>2. Len(b) >= MaxRequests /\ Len(b) >= 1
    BY <1>1, Params DEF Full
  <1>3. b[1] \in Nat /\ b[1] > stamp - Window /\ b[1] <= a[d + 1]
    <2>1. 1 \in 1..Len(b)
      BY <1>1, <1>2
    <2>2. Close(b[1], a[d + 1])
      BY <2>1 DEF BucketInv, IsSuffix
    <2>3. b # <<>>
      BY <1>2, EmptySeq
    <2> QED BY <2>1, <2>2, <2>3 DEF Close
  <1>4. \A i \in (d + 1)..Len(a) : a[d + 1] <= a[i]
    <2>1. \A i \in (d + 1)..Len(a) : i \in 1..Len(a) /\ d + 1 \in 1..i
      BY <1>1
    <2> QED BY <2>1 DEF BucketInv, InOrder
  <1> HIDE DEF d
  <1>5. (d + 1)..Len(a) \subseteq recent
    <2>1. ASSUME NEW i \in (d + 1)..Len(a) PROVE a[i] > now - Window - MaxDelay
      <3>1. i \in 1..Len(a) /\ d + 1 \in 1..Len(a)
        BY <1>1
      <3>2. a[i] \in Nat /\ a[d + 1] \in Nat /\ a[d + 1] <= a[i]
        BY <3>1, <1>1, <1>4
      <3>3. now <= stamp + MaxDelay
        BY DEF Close
      <3> QED BY <3>2, <3>3, <1>3, Params, SMTT(30)
    <2> QED BY <2>1, <1>1
  <1>6. IsFiniteSet(recent) /\ Cardinality((d + 1)..Len(a)) <= Cardinality(recent)
    <2>1. IsFiniteSet(1..Len(a))
      BY <1>1, FS_Interval
    <2>2. IsFiniteSet(recent)
      BY <2>1, <1>1, FS_Subset
    <2> QED BY <2>2, <1>5, FS_Subset
  <1>7. Cardinality((d + 1)..Len(a)) = Len(b)
    <2>1. d + 1 \in Int /\ Len(a) \in Int /\ d + 1 <= Len(a)
      BY <1>1, <1>2
    <2>2. Cardinality((d + 1)..Len(a)) = Len(a) - (d + 1) + 1
      BY <2>1, FS_Interval
    <2> QED BY <2>2, <1>1
  <1>8. Cardinality(recent) \in Nat
    BY <1>6, FS_CardinalityType
  <1> QED BY <1>1, <1>2, <1>6, <1>7, <1>8, Params

-----------------------------------------------------------------------------
(* The invariant is kept, step by step.                                      *)

\* Initially nothing was let through.
LEMMA Start == Init => Inv
  <1> SUFFICES ASSUME Init PROVE Inv
    OBVIOUS
  <1>1. TypeOK /\ WaitsBounded
    BY DEF Init, TypeOK, WaitsBounded, NoRequest
  <1>2. \A k \in Keys : bucket[k] = <<>> /\ admitted[k] = <<>>
    BY DEF Init
  <1>3. BucketInv(<<>>, <<>>, clock)
    BY DEF BucketInv, IsSuffix, Popped, PoppedAreOld, InOrder, Limited
  <1> QED BY <1>1, <1>2, <1>3 DEF Inv

\* A request that arrives touches no bucket and waits from now on.
LEMMA ArriveKeeps == ASSUME Inv, NEW t \in Threads, NEW k \in Keys, Arrive(t, k) PROVE Inv'
  <1>1. TypeOK'
    BY DEF Inv, TypeOK, Arrive
  <1>2. WaitsBounded'
    BY Params DEF Inv, TypeOK, WaitsBounded, Arrive, Close, NoRequest
  <1> QED BY <1>1, <1>2 DEF Inv, Arrive

\* The clock only advances while every wait stays within its bound.
LEMMA TickKeeps == ASSUME Inv, Tick PROVE Inv'
  <1>1. TypeOK'
    BY DEF Inv, TypeOK, Tick
  <1>2. WaitsBounded'
    BY Params DEF Inv, TypeOK, WaitsBounded, Tick, Close, NoRequest
  <1>3. \A k \in Keys : BucketInv(bucket[k], admitted[k], clock + 1)
    BY TimeKeeps DEF Inv, TypeOK
  <1> QED BY <1>1, <1>2, <1>3 DEF Inv, Tick

\* The one step that touches a bucket.
LEMMA AdmitStep ==
    ASSUME Inv, NEW t \in Threads, Admit(t)
    PROVE  LET k == waiting[t].key
               stamp == waiting[t].stamp IN
           /\ k \in Keys /\ stamp \in Nat /\ Close(stamp, clock)
           /\ \E b \in Seq(Nat) :
                /\ BucketInv(b, admitted[k], clock)
                /\ b # <<>> => b[1] > stamp - Window
                /\ \/ /\ Full(b) /\ admitted' = admitted
                      /\ bucket' = [bucket EXCEPT ![k] = b]
                   \/ /\ ~Full(b)
                      /\ bucket' = [bucket EXCEPT ![k] = Append(b, stamp)]
                      /\ admitted' = [admitted EXCEPT ![k] = Append(@, clock)]
  <1> DEFINE k == waiting[t].key
             stamp == waiting[t].stamp
             q == bucket[k]
  <1>1. /\ k \in Keys /\ stamp \in Nat /\ Close(stamp, clock) /\ clock \in Nat
        /\ q \in Seq(Nat) /\ admitted[k] \in Seq(Nat) /\ BucketInv(q, admitted[k], clock)
    BY DEF Inv, TypeOK, WaitsBounded, Admit
  <1>2. PICK n \in 0..Len(q) :
          /\ Pops(q, stamp, n)
          /\ IF Full(SubSeq(q, n + 1, Len(q)))
               THEN /\ bucket' = [bucket EXCEPT ![k] = SubSeq(q, n + 1, Len(q))]
                    /\ UNCHANGED admitted
               ELSE /\ bucket' = [bucket EXCEPT ![k] =
                                     Append(SubSeq(q, n + 1, Len(q)), stamp)]
                    /\ admitted' = [admitted EXCEPT ![k] = Append(@, clock)]
    BY DEF Admit, Recorded
  <1> DEFINE b == SubSeq(q, n + 1, Len(q))
  <1>3. BucketInv(b, admitted[k], clock)
    BY <1>1, <1>2, PopKeeps
  <1>4. b \in Seq(Nat) /\ (b # <<>> => b[1] > stamp - Window)
    BY <1>1, <1>2, Rest, RestIsInWindow
  <1> QED BY <1>1, <1>2, <1>3, <1>4

\* Letting a request through or refusing it keeps the invariant.
LEMMA AdmitKeeps == ASSUME Inv, NEW t \in Threads, Admit(t) PROVE Inv'
  <1> DEFINE k == waiting[t].key
             stamp == waiting[t].stamp
  <1>1. k \in Keys /\ stamp \in Nat /\ Close(stamp, clock)
    BY AdmitStep
  <1>2. PICK b \in Seq(Nat) :
          /\ BucketInv(b, admitted[k], clock)
          /\ \/ /\ Full(b) /\ admitted' = admitted
                /\ bucket' = [bucket EXCEPT ![k] = b]
             \/ /\ ~Full(b)
                /\ bucket' = [bucket EXCEPT ![k] = Append(b, stamp)]
                /\ admitted' = [admitted EXCEPT ![k] = Append(@, clock)]
    BY AdmitStep
  <1>3. /\ clock' = clock /\ arrivals' = arrivals
        /\ waiting' = [waiting EXCEPT ![t] = NoRequest]
        /\ clock \in Nat /\ arrivals \in Nat
        /\ bucket \in [Keys -> Seq(Nat)] /\ admitted \in [Keys -> Seq(Nat)]
        /\ waiting \in [Threads -> [key : Keys \cup {NoKey}, stamp : Nat]]
        /\ \A m \in Keys : BucketInv(bucket[m], admitted[m], clock)
    BY DEF Admit, Inv, TypeOK
  <1>4. WaitsBounded'
    BY <1>3 DEF Inv, WaitsBounded
  <1>5. waiting' \in [Threads -> [key : Keys \cup {NoKey}, stamp : Nat]]
    BY <1>3 DEF NoRequest
  <1> HIDE DEF k, stamp
  <1>6. CASE Full(b) /\ admitted' = admitted /\ bucket' = [bucket EXCEPT ![k] = b]
    <2>1. TypeOK'
      BY <1>3, <1>5, <1>6 DEF TypeOK
    <2>2. \A m \in Keys : BucketInv(bucket'[m], admitted'[m], clock)
      BY <1>1, <1>2, <1>3, <1>6
    <2> QED BY <2>1, <2>2, <1>3, <1>4 DEF Inv
  <1>7. CASE /\ ~Full(b)
             /\ bucket' = [bucket EXCEPT ![k] = Append(b, stamp)]
             /\ admitted' = [admitted EXCEPT ![k] = Append(@, clock)]
    <2>1. Append(b, stamp) \in Seq(Nat) /\ Append(admitted[k], clock) \in Seq(Nat)
      BY <1>1, <1>3
    <2>2. TypeOK'
      BY <1>3, <1>5, <1>7, <2>1 DEF TypeOK
    <2>3. BucketInv(Append(b, stamp), Append(admitted[k], clock), clock)
      BY <1>1, <1>2, <1>3, <1>7, RecordKeeps
    <2>4. \A m \in Keys : BucketInv(bucket'[m], admitted'[m], clock)
      BY <2>3, <1>1, <1>3, <1>7
    <2> QED BY <2>2, <2>4, <1>3, <1>4 DEF Inv
  <1> QED BY <1>2, <1>6, <1>7

-----------------------------------------------------------------------------
(* The theorems.                                                             *)

\* The invariant holds of every behaviour.
THEOREM Invariance == Spec => []Inv
<1>1. Init => Inv
  BY Start
<1>2. Inv /\ [Next]_vars => Inv'
  <2> SUFFICES ASSUME Inv, [Next]_vars PROVE Inv'
    OBVIOUS
  <2>1. CASE UNCHANGED vars
    BY <2>1 DEF vars, Inv, TypeOK, WaitsBounded
  <2>2. CASE Tick
    BY <2>2, TickKeeps
  <2>3. ASSUME NEW t \in Threads, Admit(t) PROVE Inv'
    BY <2>3, AdmitKeeps
  <2>4. ASSUME NEW t \in Threads, NEW k \in Keys, Arrive(t, k) PROVE Inv'
    BY <2>4, ArriveKeeps
  <2> QED BY <2>1, <2>2, <2>3, <2>4 DEF Next
<1> QED BY <1>1, <1>2, PTL DEF Spec

\* Stamps, times and counters keep their types.
THEOREM BucketsTyped == Spec => []TypeOK
<1>1. Inv => TypeOK
  BY DEF Inv
<1> QED BY <1>1, Invariance, PTL

\* However threads overtake each other on the way to the lock, no more than
\* MaxRequests requests are let through in a window shortened by the longest
\* wait.
THEOREM LimitsEveryWindow == Spec => []WindowLimit
<1>1. Inv => WindowLimit
  <2> SUFFICES ASSUME Inv, NEW k \in Keys, NEW i \in DOMAIN admitted[k],
                      i + MaxRequests \in DOMAIN admitted[k]
               PROVE  admitted[k][i + MaxRequests] >= admitted[k][i] + Window - MaxDelay
    BY DEF WindowLimit
  <2>1. admitted[k] \in Seq(Nat) /\ Limited(admitted[k])
    BY DEF Inv, TypeOK, BucketInv
  <2>2. DOMAIN admitted[k] = 1..Len(admitted[k])
    BY <2>1
  <2> QED BY <2>1, <2>2 DEF Limited
<1> QED BY <1>1, Invariance, PTL

\* A request is refused only when MaxRequests were let through within the
\* window lengthened by the longest wait.
THEOREM RefusesOnlyFull == Spec => RefusalJustified
<1>1. Inv /\ [Next]_vars =>
        \A t \in Threads :
          waiting[t] # NoRequest /\ waiting'[t] = NoRequest /\ admitted' = admitted =>
            LET times == admitted[waiting[t].key] IN
            Cardinality({i \in DOMAIN times : times[i] > clock - Window - MaxDelay})
              >= MaxRequests
  <2> SUFFICES ASSUME Inv, [Next]_vars, NEW t \in Threads,
                      waiting[t] # NoRequest, waiting'[t] = NoRequest, admitted' = admitted
               PROVE  Cardinality({i \in DOMAIN admitted[waiting[t].key] :
                                     admitted[waiting[t].key][i] > clock - Window - MaxDelay})
                        >= MaxRequests
    OBVIOUS
  <2>1. Admit(t)
    <3>1. waiting' # waiting
      OBVIOUS
    <3>2. ASSUME NEW u \in Threads, NEW k \in Keys, Arrive(u, k) PROVE FALSE
      <4>1. waiting \in [Threads -> [key : Keys \cup {NoKey}, stamp : Nat]] /\ NoKey # k
        BY LimiterAssumption DEF Inv, TypeOK
      <4>2. waiting'[t] = IF u = t THEN [key |-> k, stamp |-> clock] ELSE waiting[t]
        BY <3>2, <4>1 DEF Arrive
      <4> QED BY <4>1, <4>2 DEF NoRequest
    <3>3. ASSUME NEW u \in Threads, Admit(u), u # t PROVE FALSE
      <4>1. waiting'[t] = waiting[t]
        BY <3>3 DEF Admit, Inv, TypeOK
      <4> QED BY <4>1
    <3> QED BY <3>1, <3>2, <3>3 DEF Next, Tick, vars
  <2> DEFINE k == waiting[t].key
             stamp == waiting[t].stamp
  <2>2. /\ k \in Keys /\ stamp \in Nat /\ Close(stamp, clock)
        /\ clock \in Nat /\ admitted \in [Keys -> Seq(Nat)]
    BY <2>1, AdmitStep DEF Inv, TypeOK
  <2>3. PICK b \in Seq(Nat) :
          /\ BucketInv(b, admitted[k], clock)
          /\ b # <<>> => b[1] > stamp - Window
          /\ Full(b) \/ admitted' = [admitted EXCEPT ![k] = Append(@, clock)]
    BY <2>1, AdmitStep
  <2> HIDE DEF k, stamp
  <2>4. admitted' # [admitted EXCEPT ![k] = Append(@, clock)]
    <3>1. admitted[k] \in Seq(Nat)
      BY <2>2
    <3>2. Len(Append(admitted[k], clock)) = Len(admitted[k]) + 1 /\ Len(admitted[k]) \in Nat
      BY <3>1, <2>2
    <3>3. Append(admitted[k], clock) # admitted[k]
      BY <3>2
    <3> QED BY <3>3, <2>2
  <2>5. Cardinality({i \in DOMAIN admitted[k] : admitted[k][i] > clock - Window - MaxDelay})
          >= MaxRequests
    BY <2>2, <2>3, <2>4, FullIsJustified
  <2> QED BY <2>5 DEF k
<1> QED BY <1>1, Invariance, PTL DEF Spec, RefusalJustified
=============================================================================
