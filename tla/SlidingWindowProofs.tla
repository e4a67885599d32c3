------------------------- MODULE SlidingWindowProofs -------------------------
(***************************************************************************)
(* What TLAPS proves about SlidingWindow for every limit, every window and *)
(* every number of calls.                                                  *)
(***************************************************************************)
EXTENDS SlidingWindow, SequenceTheorems, TLAPS

(***************************************************************************)
(* The strict window follows from DequeExact: the acquisition RateLimit    *)
(* places back is not in the deque any more, so it has expired.  That the  *)
(* deque is a suffix of the history needs the history to be in order.      *)
(***************************************************************************)
InOrder ==
    /\ Len(times) <= Len(granted)
    /\ \A i \in 1 .. Len(granted) : granted[i] <= now
    /\ \A i, j \in 1 .. Len(granted) : i <= j => granted[i] <= granted[j]

WindowOK ==
    /\ now \in Nat /\ times \in Seq(Nat) /\ granted \in Seq(Nat)
    /\ InOrder
    /\ DequeExact

LEMMA Shifted ==
    ASSUME NEW g \in Int, NEW t \in Int, NEW k \in Int, NEW i \in Int,
           NEW n \in Int, n = t - k
    PROVE  g - t + (k + i) = g - n + i
  OBVIOUS

LEMMA LengthFacts ==
    ASSUME WindowOK
    PROVE  /\ Len(times) \in Nat /\ Len(granted) \in Nat
           /\ DOMAIN times = 1 .. Len(times) /\ DOMAIN granted = 1 .. Len(granted)
           /\ \A i \in 1 .. Len(times) : times[i] \in Nat
           /\ \A i \in 1 .. Len(granted) : granted[i] \in Nat
           /\ RateLimit \in Nat /\ RateLimit > 0 /\ RateWindow \in Nat /\ RateWindow > 0
  BY LenProperties, ElementOfSeq, LimitAssumption DEF WindowOK

(***************************************************************************)
(* What is left of the deque once the expired times are popped: times of   *)
(* the window only, and the newest ones.                                   *)
(***************************************************************************)
Kept(k) == SubSeq(times, k + 1, Len(times))

LEMMA KeptFacts ==
    ASSUME WindowOK, NEW k \in 0 .. Len(times), Pops(k)
    PROVE  /\ Kept(k) \in Seq(Nat) /\ Len(Kept(k)) = Len(times) - k
           /\ \A i \in 1 .. Len(Kept(k)) : Kept(k)[i] = granted[Len(granted) - Len(Kept(k)) + i]
           /\ \A i \in 1 .. Len(granted) - Len(Kept(k)) : Expired(granted[i])
           /\ Kept(k) # <<>> => ~Expired(Kept(k)[1])
<1>1. /\ Len(times) \in Nat /\ Len(granted) \in Nat /\ Len(times) <= Len(granted)
      /\ times \in Seq(Nat)
      /\ DOMAIN times = 1 .. Len(times) /\ \A i \in 1 .. Len(times) : times[i] \in Nat
  BY LengthFacts DEF WindowOK, InOrder
<1>2. /\ Kept(k) \in Seq(Nat) /\ Len(Kept(k)) = Len(times) - k
      /\ \A i \in 1 .. Len(Kept(k)) : Kept(k)[i] = times[k + i]
  <2>1. k \in Nat /\ k <= Len(times) /\ k + 1 \in Int /\ Len(times) \in Int
    BY <1>1
  <2>2. \A i \in (k + 1) .. Len(times) : times[i] \in Nat
    BY <1>1, <2>1
  <2>3. /\ Kept(k) \in Seq(Nat)
        /\ Len(Kept(k)) = IF k + 1 <= Len(times) THEN Len(times) - (k + 1) + 1 ELSE 0
        /\ \A i \in 1 .. Len(times) - (k + 1) + 1 : Kept(k)[i] = times[(k + 1) + i - 1]
    BY <2>1, <2>2, SubSeqProperties DEF Kept
  <2>4. Len(Kept(k)) = Len(times) - k
    BY <2>1, <2>3
  <2>5. ASSUME NEW i \in 1 .. Len(Kept(k))
        PROVE  Kept(k)[i] = times[k + i]
    <3>1. i \in Nat /\ i \in 1 .. Len(times) - (k + 1) + 1 /\ (k + 1) + i - 1 = k + i
      BY <2>1, <2>4
    <3> QED
      BY <2>3, <3>1
  <2> QED
    BY <2>3, <2>4, <2>5
<1>3. \A i \in 1 .. Len(times) : times[i] = granted[Len(granted) - Len(times) + i]
  BY DEF WindowOK, DequeExact
<1>4. k \in Nat /\ k <= Len(times) /\ Len(times) \in Nat /\ Len(granted) \in Nat
  BY <1>1
<1>5. Len(Kept(k)) \in Nat /\ Len(Kept(k)) = Len(times) - k
  BY <1>2, <1>4
<1>6. ASSUME NEW i \in 1 .. Len(Kept(k))
      PROVE  Kept(k)[i] = granted[Len(granted) - Len(Kept(k)) + i]
  <2>1. i \in Int /\ 1 <= i /\ i <= Len(Kept(k))
    BY <1>5
  <2>2. k + i \in 1 .. Len(times)
    BY <1>4, <1>5, <2>1
  <2>3. Len(granted) - Len(times) + (k + i) = Len(granted) - Len(Kept(k)) + i
    <3>1. /\ Len(granted) \in Int /\ Len(times) \in Int /\ k \in Int /\ i \in Int
          /\ Len(Kept(k)) \in Int /\ Len(Kept(k)) = Len(times) - k
      BY <1>4, <1>5, <2>1
    <3> QED
      BY <3>1, Shifted
  <2>4. times[k + i] = granted[Len(granted) - Len(times) + (k + i)]
    BY <1>3, <2>2
  <2> QED
    BY <1>2, <2>3, <2>4
<1>7. ASSUME NEW i \in 1 .. Len(granted) - Len(Kept(k))
      PROVE  Expired(granted[i])
  <2>1. i \in Int /\ 1 <= i /\ i <= Len(granted) - Len(Kept(k))
    BY <1>4, <1>5
  <2>2. CASE i <= Len(granted) - Len(times)
    <3>1. i \in 1 .. Len(granted) - Len(times)
      BY <1>4, <2>1, <2>2
    <3> QED
      BY <3>1 DEF WindowOK, DequeExact
  <2>3. CASE ~(i <= Len(granted) - Len(times))
    <3> DEFINE j == i - (Len(granted) - Len(times))
    <3>1. /\ j \in 1 .. k /\ j \in 1 .. Len(times)
          /\ Len(granted) - Len(times) + j = i
      BY <1>4, <1>5, <2>1, <2>3
    <3> HIDE DEF j
    <3>2. times[j] = granted[i]
      BY <1>3, <3>1
    <3> QED
      BY <3>1, <3>2 DEF Pops
  <2> QED
    BY <2>2, <2>3
<1>8. Kept(k) # <<>> => ~Expired(Kept(k)[1])
  <2>1. ASSUME Kept(k) # <<>>
        PROVE  Kept(k)[1] = times[k + 1] /\ k < Len(times)
    <3>1. Len(Kept(k)) # 0
      BY <1>2, <2>1, EmptySeq
    <3>2. 1 \in 1 .. Len(Kept(k)) /\ k < Len(times)
      BY <1>4, <1>5, <3>1
    <3> QED
      BY <1>2, <3>2
  <2> QED
    BY <2>1 DEF Pops
<1> QED
  BY <1>2, <1>5, <1>6, <1>7, <1>8

(***************************************************************************)
(* A pass of acquire, as the provider limiter and the limiter's own calls  *)
(* make it: it keeps the window sound and stays within the quota.          *)
(***************************************************************************)
LEMMA PassKeepsWindow ==
    ASSUME WindowOK, NEW c, NEW through, Pass(c, through), now' = now
    PROVE  /\ WindowOK'
           /\ \/ granted' = granted
              \/ /\ granted' = Append(granted, now)
                 /\ Len(granted) >= RateLimit => Expired(granted[Len(granted) - RateLimit + 1])
<1>1. PICK k \in 0 .. Len(times) :
        /\ Pops(k)
        /\ IF HasRoom(Kept(k))
           THEN times' = Append(Kept(k), now) /\ granted' = Append(granted, now)
           ELSE times' = Kept(k) /\ granted' = granted
  BY DEF Pass, Kept
<1> DEFINE kept == Kept(k)
<1>2. /\ kept \in Seq(Nat) /\ Len(kept) = Len(times) - k
      /\ \A i \in 1 .. Len(kept) : kept[i] = granted[Len(granted) - Len(kept) + i]
      /\ \A i \in 1 .. Len(granted) - Len(kept) : Expired(granted[i])
  BY <1>1, KeptFacts
<1>3. /\ Len(times) \in Nat /\ Len(granted) \in Nat /\ Len(times) <= Len(granted)
      /\ RateLimit \in Nat /\ RateLimit > 0 /\ RateWindow \in Nat
      /\ now \in Nat /\ granted \in Seq(Nat) /\ Len(times) <= RateLimit
      /\ \A i \in 1 .. Len(granted) : granted[i] \in Nat /\ granted[i] <= now
      /\ \A i, j \in 1 .. Len(granted) : i <= j => granted[i] <= granted[j]
  BY LengthFacts DEF WindowOK, InOrder, DequeExact
<1>4. CASE HasRoom(kept)
  <2>1. times' = Append(kept, now) /\ granted' = Append(granted, now)
    BY <1>1, <1>4
  <2> HIDE DEF kept
  <2>2. /\ times' \in Seq(Nat) /\ granted' \in Seq(Nat)
        /\ Len(times') = Len(kept) + 1 /\ Len(granted') = Len(granted) + 1
        /\ \A i \in 1 .. Len(kept) : times'[i] = kept[i]
        /\ times'[Len(kept) + 1] = now
        /\ \A i \in 1 .. Len(granted) : granted'[i] = granted[i]
        /\ granted'[Len(granted) + 1] = now
    BY <1>2, <1>3, <2>1, AppendProperties, LenProperties
  <2>3. Len(kept) \in Nat /\ Len(kept) <= Len(granted) /\ Len(kept) < RateLimit
    BY <1>2, <1>3, <1>4 DEF HasRoom
  <2>4. InOrder'
    <3>1. Len(times') <= Len(granted')
      BY <1>3, <2>2, <2>3
    <3>2. ASSUME NEW i \in 1 .. Len(granted')
          PROVE  /\ granted'[i] <= now /\ granted'[i] \in Nat
                 /\ i \in 1 .. Len(granted) \/ i = Len(granted) + 1
      <4>1. i \in 1 .. Len(granted) \/ i = Len(granted) + 1
        BY <1>3, <2>2
      <4>2. CASE i \in 1 .. Len(granted)
        BY <1>3, <2>2, <4>2
      <4>3. CASE i = Len(granted) + 1
        BY <1>3, <2>2, <4>3
      <4> QED
        BY <4>1, <4>2, <4>3
    <3>3. ASSUME NEW i \in 1 .. Len(granted'), NEW j \in 1 .. Len(granted'), i <= j
          PROVE  granted'[i] <= granted'[j]
      <4>1. CASE j \in 1 .. Len(granted)
        <5>1. i \in 1 .. Len(granted)
          BY <1>3, <3>3, <4>1
        <5> QED
          BY <1>3, <2>2, <3>3, <4>1, <5>1
      <4>2. CASE j = Len(granted) + 1
        BY <2>2, <3>2, <4>2
      <4> QED
        BY <3>2, <4>1, <4>2
    <3> QED
      BY <3>1, <3>2, <3>3 DEF InOrder
  <2>5. DequeExact'
    <3>1. Len(times') <= RateLimit
      BY <1>3, <2>2, <2>3
    <3>2. Len(granted') - Len(times') = Len(granted) - Len(kept)
      BY <1>3, <2>2, <2>3
    <3>3. ASSUME NEW i \in 1 .. Len(times')
          PROVE  times'[i] = granted'[Len(granted) - Len(kept) + i]
      <4>1. CASE i \in 1 .. Len(kept)
        <5> DEFINE j == Len(granted) - Len(kept) + i
        <5>1. j \in 1 .. Len(granted)
          BY <1>3, <2>3, <4>1
        <5>2. kept[i] = granted[j]
          BY <1>2, <4>1
        <5> HIDE DEF j
        <5>3. times'[i] = granted'[j]
          BY <2>2, <4>1, <5>1, <5>2
        <5> QED
          BY <5>3 DEF j
      <4>2. CASE i = Len(kept) + 1
        <5>1. Len(granted) - Len(kept) + i = Len(granted) + 1
          BY <1>3, <2>3, <4>2
        <5> QED
          BY <2>2, <4>2, <5>1, Zenon
      <4> QED
        BY <2>2, <2>3, <4>1, <4>2
    <3>4. ASSUME NEW i \in 1 .. Len(granted) - Len(kept)
          PROVE  Expired(granted[i]) /\ granted'[i] = granted[i]
      <4>1. i \in 1 .. Len(granted)
        BY <1>3, <2>3
      <4> QED
        BY <1>2, <2>2, <4>1
    <3> QED
      BY <3>1, <3>2, <3>3, <3>4 DEF DequeExact, Expired
  <2>6. Len(granted) >= RateLimit => Expired(granted[Len(granted) - RateLimit + 1])
    BY <1>2, <1>3, <2>3
  <2> QED
    BY <1>3, <2>1, <2>2, <2>4, <2>5, <2>6 DEF WindowOK
<1>5. CASE ~HasRoom(kept)
  <2>1. times' = kept /\ granted' = granted
    BY <1>1, <1>5
  <2> HIDE DEF kept
  <2>2. Len(kept) \in Nat /\ Len(kept) <= Len(times)
    BY <1>1, <1>2, <1>3
  <2>3. InOrder'
    BY <1>3, <2>1, <2>2 DEF InOrder
  <2>4. DequeExact'
    <3>1. Len(kept) <= RateLimit
      BY <1>3, <2>2
    <3> QED
      BY <1>2, <2>1, <3>1 DEF DequeExact, Expired
  <2> QED
    BY <1>2, <1>3, <2>1, <2>3, <2>4 DEF WindowOK
<1> QED
  BY <1>4, <1>5
-----------------------------------------------------------------------------
TypeInv == TypeOK /\ WindowOK

LEMMA InitTypes == Init => TypeInv
<1> SUFFICES ASSUME Init
             PROVE  TypeInv
  OBVIOUS
<1>1. times = <<>> /\ granted = <<>> /\ Len(times) = 0 /\ Len(granted) = 0
      /\ times \in Seq(Nat) /\ granted \in Seq(Nat)
  BY EmptySeq DEF Init
<1>2. TypeOK
  BY <1>1 DEF Init, TypeOK
<1>3. InOrder
  BY <1>1 DEF InOrder
<1>4. DequeExact
  <2>1. 0 <= RateLimit
    BY LimitAssumption
  <2> QED
    BY <1>1, <2>1 DEF DequeExact
<1> QED
  BY <1>1, <1>2, <1>3, <1>4 DEF TypeInv, WindowOK, TypeOK

\* A pass lets its caller through at once, or puts it to sleep.
LEMMA PassEffect ==
    ASSUME WindowOK, NEW c, NEW through, Pass(c, through)
    PROVE  \/ stage' = [stage EXCEPT ![c] = through] /\ wake' = wake
           \/ \E until \in Nat : /\ stage' = [stage EXCEPT ![c] = "window"]
                                 /\ wake' = [wake EXCEPT ![c] = until]
<1>1. PICK k \in 0 .. Len(times) :
        /\ Pops(k)
        /\ \/ /\ stage' = [stage EXCEPT ![c] = through]
              /\ wake' = wake
           \/ /\ ~HasRoom(Kept(k))
              /\ stage' = [stage EXCEPT ![c] = "window"]
              /\ wake' = [wake EXCEPT ![c] = FreeAt(Kept(k))]
  BY DEF Pass, Kept
<1>2. ~HasRoom(Kept(k)) => FreeAt(Kept(k)) \in Nat
  <2>1. Kept(k) \in Seq(Nat) /\ Len(Kept(k)) \in Nat
    BY <1>1, KeptFacts, LenProperties
  <2>2. ~HasRoom(Kept(k)) => 1 \in 1 .. Len(Kept(k))
    BY <2>1, LimitAssumption DEF HasRoom
  <2> QED
    BY <2>1, <2>2, ElementOfSeq, LimitAssumption DEF FreeAt
<1> QED
  BY <1>1, <1>2

LEMMA PassKeepsTypes ==
    ASSUME TypeInv, NEW c \in Callers, Pass(c, "through"), now' = now
    PROVE  TypeInv'
<1>1. WindowOK'
  BY PassKeepsWindow DEF TypeInv
<1>2. \/ stage' = [stage EXCEPT ![c] = "through"] /\ wake' = wake
      \/ \E until \in Nat : /\ stage' = [stage EXCEPT ![c] = "window"]
                            /\ wake' = [wake EXCEPT ![c] = until]
  BY PassEffect DEF TypeInv
<1>3. stage' \in [Callers -> {"idle", "window", "through"}]
  BY <1>2 DEF TypeInv, TypeOK
<1>4. wake' \in [Callers -> Nat]
  BY <1>2 DEF TypeInv, TypeOK
<1> QED
  BY <1>1, <1>3, <1>4 DEF TypeInv, TypeOK, WindowOK

LEMMA TickKeepsTypes == TypeInv /\ Tick => TypeInv'
<1> SUFFICES ASSUME TypeInv, Tick
             PROVE  TypeInv'
  OBVIOUS
<1>1. now \in Nat /\ now' = now + 1 /\ UNCHANGED <<times, stage, wake, granted>>
  BY DEF Tick, TypeInv, TypeOK
<1>2. TypeOK'
  BY <1>1 DEF TypeInv, TypeOK
<1>3. /\ Len(granted) \in Nat /\ Len(times) \in Nat /\ RateWindow \in Nat
      /\ \A i \in 1 .. Len(granted) : granted[i] \in Nat
  BY LengthFacts DEF TypeInv
<1>4. InOrder'
  BY <1>1, <1>3 DEF TypeInv, WindowOK, InOrder
<1>5. DequeExact'
  <2>1. ASSUME NEW i \in 1 .. Len(granted) - Len(times)
        PROVE  Expired(granted[i])'
    <3>1. i \in 1 .. Len(granted)
      BY <1>3
    <3>2. Expired(granted[i])
      BY DEF TypeInv, WindowOK, DequeExact
    <3> QED
      BY <1>1, <1>3, <3>1, <3>2 DEF Expired
  <2>2. \A i \in 1 .. Len(granted) - Len(times) : Expired(granted[i])'
    BY <2>1
  <2> QED
    BY <1>1, <2>2 DEF TypeInv, WindowOK, DequeExact, Expired
<1> QED
  BY <1>2, <1>4, <1>5 DEF TypeInv, TypeOK, WindowOK

LEMMA NextKeepsTypes == TypeInv /\ [Next]_vars => TypeInv'
<1> SUFFICES ASSUME TypeInv, [Next]_vars
             PROVE  TypeInv'
  OBVIOUS
<1>1. CASE Tick
  BY <1>1, TickKeepsTypes
<1>2. CASE \E c \in Callers : Acquire(c) \/ PassAgain(c)
  BY <1>2, PassKeepsTypes DEF Acquire, PassAgain
<1>3. CASE UNCHANGED vars
  BY <1>3 DEF vars, TypeInv, TypeOK, WindowOK, InOrder, DequeExact, Expired
<1> QED
  BY <1>1, <1>2, <1>3 DEF Next

LEMMA TypesHold == Spec => []TypeInv
<1>1. Init => TypeInv
  BY InitTypes
<1>2. TypeInv /\ [Next]_vars => TypeInv'
  BY NextKeepsTypes
<1> QED
  BY <1>1, <1>2, PTL DEF Spec

\* Every variable keeps its type (StrictSlidingWindowLimiter.__init__, acquire).
THEOREM WindowTypeCorrect == Spec => []TypeOK
<1>1. TypeInv => TypeOK
  BY DEF TypeInv
<1> QED
  BY <1>1, TypesHold, PTL

\* The deque holds the newest acquisitions, all those of the window and at most
\* the limit: acquire pops what has left the window and nothing else.
THEOREM DequeCorrect == Spec => []DequeExact
<1>1. TypeInv => DequeExact
  BY DEF TypeInv, WindowOK
<1> QED
  BY <1>1, TypesHold, PTL
-----------------------------------------------------------------------------
(***************************************************************************)
(* The limiter implements RequestQuota: a pass that lets its caller through *)
(* is a grant within the quota, one that does not is a stutter.            *)
(***************************************************************************)
LEMMA PassIsGrant ==
    ASSUME TypeInv, NEW c, NEW through, Pass(c, through), now' = now
    PROVE  [Quota!Grant]_<<now, granted>>
<1>1. CASE granted' = granted
  BY <1>1
<1>2. CASE /\ granted' = Append(granted, now)
           /\ Len(granted) >= RateLimit => Expired(granted[Len(granted) - RateLimit + 1])
  BY <1>2 DEF Quota!Grant, Quota!WithinQuota, Expired
<1> QED
  BY <1>1, <1>2, PassKeepsWindow DEF TypeInv

LEMMA NextIsQuotaStep == TypeInv /\ [Next]_vars => [Quota!Next]_<<now, granted>>
<1> SUFFICES ASSUME TypeInv, [Next]_vars
             PROVE  [Quota!Next]_<<now, granted>>
  OBVIOUS
<1>1. CASE Tick
  BY <1>1 DEF Tick, Quota!Next, Quota!Tick
<1>2. CASE \E c \in Callers : Acquire(c) \/ PassAgain(c)
  <2>1. PICK c \in Callers : Pass(c, "through") /\ now' = now
    BY <1>2 DEF Acquire, PassAgain
  <2>2. [Quota!Grant]_<<now, granted>>
    BY <2>1, PassIsGrant
  <2> QED
    BY <2>2 DEF Quota!Next
<1>3. CASE UNCHANGED vars
  BY <1>3 DEF vars
<1> QED
  BY <1>1, <1>2, <1>3 DEF Next

\* The limiter implements the rolling quota for every limit, every window and
\* every number of calls, in whatever order they come and wake (acquire).
THEOREM QuotaCorrect == Spec => QuotaSpec
<1>1. Init => Quota!Init
  BY DEF Init, Quota!Init
<1>2. TypeInv /\ [Next]_vars => [Quota!Next]_<<now, granted>>
  BY NextIsQuotaStep
<1> QED
  BY <1>1, <1>2, TypesHold, PTL DEF Spec, QuotaSpec, Quota!Spec

-----------------------------------------------------------------------------
(***************************************************************************)
(* The docstring's guarantee.                                              *)
(***************************************************************************)
LEMMA PassKeepsStrict ==
    ASSUME TypeInv, StrictWindow, NEW c, NEW through, Pass(c, through), now' = now
    PROVE  StrictWindow'
<1>1. /\ Len(granted) \in Nat /\ RateLimit \in Nat /\ RateLimit > 0 /\ now \in Nat
      /\ granted \in Seq(Nat)
  BY LengthFacts DEF TypeInv, WindowOK
<1>2. CASE granted' = granted
  BY <1>2 DEF StrictWindow
<1>3. CASE /\ granted' = Append(granted, now)
           /\ Len(granted) >= RateLimit => Expired(granted[Len(granted) - RateLimit + 1])
  <2>1. /\ Len(granted') = Len(granted) + 1 /\ granted'[Len(granted) + 1] = now
        /\ \A i \in 1 .. Len(granted) : granted'[i] = granted[i]
    BY <1>1, <1>3, AppendProperties, LenProperties
  <2>2. ASSUME NEW i \in 1 .. Len(granted'), NEW j \in 1 .. Len(granted'), j = i + RateLimit
        PROVE  granted'[i] + RateWindow <= granted'[j]
    <3>1. i \in 1 .. Len(granted)
      BY <1>1, <2>1, <2>2
    <3>2. CASE j \in 1 .. Len(granted)
      BY <2>1, <2>2, <3>1, <3>2 DEF StrictWindow
    <3>3. CASE j = Len(granted) + 1
      <4>1. i = Len(granted) - RateLimit + 1 /\ Len(granted) >= RateLimit
        BY <1>1, <2>2, <3>1, <3>3
      <4> QED
        BY <1>3, <2>1, <3>1, <3>3, <4>1 DEF Expired
    <3> QED
      BY <1>1, <2>1, <3>2, <3>3
  <2> QED
    BY <2>2 DEF StrictWindow
<1> QED
  BY <1>2, <1>3, PassKeepsWindow DEF TypeInv

\* At most RateLimit acquisitions in any interval of length RateWindow, for every
\* number of competing calls (StrictSlidingWindowLimiter's docstring).
THEOREM StrictCorrect == Spec => []StrictWindow
<1>1. Init => StrictWindow
  <2>1. Init => Len(granted) = 0
    BY EmptySeq DEF Init
  <2> QED
    BY <2>1 DEF StrictWindow
<1>2. TypeInv /\ StrictWindow /\ [Next]_vars => StrictWindow'
  <2> SUFFICES ASSUME TypeInv, StrictWindow, [Next]_vars
               PROVE  StrictWindow'
    OBVIOUS
  <2>1. CASE Tick \/ UNCHANGED vars
    BY <2>1 DEF Tick, vars, StrictWindow
  <2>2. CASE \E c \in Callers : Acquire(c) \/ PassAgain(c)
    <3>1. PICK c \in Callers : Pass(c, "through") /\ now' = now
      BY <2>2 DEF Acquire, PassAgain
    <3> QED
      BY <3>1, PassKeepsStrict
  <2> QED
    BY <2>1, <2>2 DEF Next
<1> QED
  BY <1>1, <1>2, TypesHold, PTL DEF Spec
=============================================================================
