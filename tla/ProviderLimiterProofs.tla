------------------------ MODULE ProviderLimiterProofs ------------------------
(***************************************************************************)
(* What TLAPS proves about ProviderLimiter for every limit, window, number *)
(* of slots and finite set of requests: the upstream quota, the types, the *)
(* conservation of the slots and the bound on the calls that slip by a     *)
(* block.  A pass through the window is the one of SlidingWindow, whose    *)
(* lemmas do the work.                                                     *)
(***************************************************************************)
EXTENDS ProviderLimiter, FiniteSetTheorems, SequenceTheorems, TLAPS

Passes == INSTANCE SlidingWindowProofs WITH Callers <- Requests, MaxIdle <- 0

LEMMA PassInQuota ==
    ASSUME Passes!WindowOK, NEW r \in Requests, Window!Pass(r, "sending"), now' = now
    PROVE  Passes!WindowOK' /\ [Quota!Grant]_<<now, granted>>
<1>1. Passes!Pass(r, "sending")
  BY DEF Window!Pass, Window!Pops, Window!HasRoom, Window!FreeAt, Window!Expired,
         Passes!Pass, Passes!Pops, Passes!HasRoom, Passes!FreeAt, Passes!Expired
<1>2. /\ Passes!WindowOK'
      /\ \/ granted' = granted
         \/ /\ granted' = Append(granted, now)
            /\ Len(granted) >= RateLimit =>
                  Passes!Expired(granted[Len(granted) - RateLimit + 1])
  BY <1>1, RatesAssumption, Passes!PassKeepsWindow
<1> QED
  BY <1>2 DEF Quota!Grant, Quota!WithinQuota, Passes!Expired

\* wait_if_blocked, with or without its reactive check, is such a pass or leaves
\* the window alone.
LEMMA WaitInQuota ==
    ASSUME Passes!WindowOK, NEW r \in Requests, WaitIfBlocked(r) \/ AcquireWindow(r),
           now' = now
    PROVE  Passes!WindowOK' /\ [Quota!Next]_<<now, granted>>
<1>1. CASE Window!Pass(r, "sending")
  BY <1>1, PassInQuota DEF Quota!Next
<1>2. CASE UNCHANGED window
  BY <1>2 DEF window, Passes!WindowOK, Passes!InOrder, Passes!DequeExact, Passes!Expired
<1> QED
  BY <1>1, <1>2 DEF WaitIfBlocked, AcquireWindow

\* What no action but a call, a pass of the clock or a stutter does.
LEMMA OthersInQuota ==
    ASSUME Passes!WindowOK, UNCHANGED <<now, window>>
    PROVE  Passes!WindowOK' /\ [Quota!Next]_<<now, granted>>
  BY DEF window, Passes!WindowOK, Passes!InOrder, Passes!DequeExact, Passes!Expired

LEMMA TickInQuota ==
    ASSUME Passes!WindowOK, Tick
    PROVE  Passes!WindowOK' /\ [Quota!Next]_<<now, granted>>
<1>1. now \in Nat /\ now' = now + 1 /\ times' = times /\ granted' = granted
  BY DEF Tick, window, Passes!WindowOK
<1>2. /\ Len(granted) \in Nat /\ Len(times) \in Nat /\ RateWindow \in Nat
      /\ \A i \in 1 .. Len(granted) : granted[i] \in Nat
  BY RatesAssumption, Passes!LengthFacts
<1>3. Passes!InOrder'
  BY <1>1, <1>2 DEF Passes!WindowOK, Passes!InOrder
<1>4. \A i \in 1 .. Len(granted) - Len(times) : i \in 1 .. Len(granted) /\ Passes!Expired(granted[i])
  BY <1>2 DEF Passes!WindowOK, Passes!DequeExact
<1>5. \A i \in 1 .. Len(granted) - Len(times) : granted[i] + RateWindow <= now'
  BY <1>1, <1>2, <1>4 DEF Passes!Expired
<1>6. Passes!DequeExact'
  BY <1>1, <1>5 DEF Passes!WindowOK, Passes!DequeExact, Passes!Expired
<1> QED
  BY <1>1, <1>3, <1>6 DEF Passes!WindowOK, Quota!Next, Quota!Tick

LEMMA NextInQuota ==
    ASSUME Passes!WindowOK, [Next]_vars
    PROVE  Passes!WindowOK' /\ [Quota!Next]_<<now, granted>>
<1>1. CASE Tick
  BY <1>1, TickInQuota
<1>2. CASE UNCHANGED vars
  BY <1>2, OthersInQuota DEF vars
<1>3. ASSUME NEW r \in Requests, Arrive(r)
      PROVE  Passes!WindowOK' /\ [Quota!Next]_<<now, granted>>
  BY <1>3, WaitInQuota, OthersInQuota DEF Arrive
<1>4. ASSUME NEW r \in Requests, Answered(r)
      PROVE  Passes!WindowOK' /\ [Quota!Next]_<<now, granted>>
  <2>1. CASE RecoverAgain(r)
    BY <2>1, WaitInQuota DEF RecoverAgain
  <2> QED
    BY <1>4, <2>1, OthersInQuota DEF Answered, Opens, BacksOff, CallFails, Exhausted
<1>5. ASSUME NEW r \in Requests, Streams(r)
      PROVE  Passes!WindowOK' /\ [Quota!Next]_<<now, granted>>
  <2>1. CASE Recover(r)
    BY <2>1, WaitInQuota DEF Recover
  <2> QED
    BY <1>5, <2>1, OthersInQuota DEF Streams, StreamEnds, Breaks
<1>6. ASSUME NEW r \in Requests, Continues(r)
      PROVE  Passes!WindowOK' /\ [Quota!Next]_<<now, granted>>
  <2>1. CASE Finish(r)
    BY <2>1, OthersInQuota DEF Finish
  <2> QED
    BY <1>6, <2>1, WaitInQuota
       DEF Continues, Resume, Unblocked, WindowAgain, RetryCall, Reopen
<1>7. ASSUME NEW r \in Requests, Leaves(r)
      PROVE  Passes!WindowOK' /\ [Quota!Next]_<<now, granted>>
  BY <1>7, OthersInQuota DEF Leaves, DisconnectWaiting, Disconnect, DisconnectOpen
<1> QED
  BY <1>1, <1>2, <1>3, <1>4, <1>5, <1>6, <1>7 DEF Next

LEMMA WindowStarts == Init => Passes!WindowOK
<1>1. Init => /\ now = 0 /\ Len(times) = 0 /\ Len(granted) = 0
              /\ times \in Seq(Nat) /\ granted \in Seq(Nat) /\ granted = <<>>
  BY DEF Init
<1>2. 0 <= RateLimit
  BY RatesAssumption
<1>3. Init => Passes!DequeExact /\ Passes!InOrder
  BY <1>1, <1>2 DEF Passes!DequeExact, Passes!InOrder
<1> QED
  BY <1>1, <1>3 DEF Passes!WindowOK

\* Every call that reaches the upstream, retries, reopened streams and recoveries
\* included, is within the strict rolling quota, for any number of requests, slots
\* and any order of blocks, sleeps and disconnects (GlobalRateLimiter).
THEOREM UpstreamQuotaCorrect == Spec => QuotaSpec
<1>1. Init => Passes!WindowOK /\ Quota!Init
  BY WindowStarts DEF Init, Quota!Init
<1>2. Passes!WindowOK /\ [Next]_vars => Passes!WindowOK' /\ [Quota!Next]_<<now, granted>>
  BY NextInQuota
<1> QED
  BY <1>1, <1>2, PTL DEF Spec, QuotaSpec, Quota!Spec

-----------------------------------------------------------------------------
(***************************************************************************)
(* The semaphore.  Its value alone does not say that a slot is never lost: *)
(* the waiters are exactly the requests that queue or were handed a slot,  *)
(* each once, and a free slot is being passed on while anybody queues.     *)
(***************************************************************************)
WaitersDistinct == \A i, j \in DOMAIN waiters : waiters[i] = waiters[j] => i = j

WaitersExact ==
    \A r \in Requests :
        slot[r] \in {"queued", "handed"} <=> \E i \in DOMAIN waiters : waiters[i] = r

FreeIsPassedOn ==
    free > 0 /\ (\E r \in Requests : slot[r] = "queued")
        => \E r \in Requests : slot[r] = "handed"

SemaphoreSound ==
    /\ free \in Nat
    /\ waiters \in Seq(Requests)
    /\ slot \in [Requests -> {"none", "queued", "handed", "held"}]
    /\ WaitersDistinct
    /\ WaitersExact
    /\ free + Cardinality(HasSlot) = MaxConcurrency
    /\ FreeIsPassedOn

LEMMA SlotsFinite == IsFiniteSet(HasSlot) /\ Cardinality(HasSlot) \in Nat
<1>1. HasSlot \in SUBSET Requests
  BY DEF HasSlot
<1> QED
  BY <1>1, RequestsAssumption, FS_Subset, FS_CardinalityType

LEMMA RemoveAtFacts ==
    ASSUME NEW S, NEW s \in Seq(S), NEW i \in DOMAIN s
    PROVE  /\ RemoveAt(s, i) \in Seq(S)
           /\ Len(RemoveAt(s, i)) = Len(s) - 1
           /\ \A h \in 1 .. Len(s) - 1 :
                  RemoveAt(s, i)[h] = IF h < i THEN s[h] ELSE s[h + 1]
<1> DEFINE front == SubSeq(s, 1, i - 1)
           back  == SubSeq(s, i + 1, Len(s))
<1>1. Len(s) \in Nat /\ i \in 1 .. Len(s)
  BY LenProperties
<1>2. front \in Seq(S) /\ Len(front) = i - 1 /\ \A h \in 1 .. i - 1 : front[h] = s[h]
  BY <1>1
<1>3. /\ back \in Seq(S) /\ Len(back) = Len(s) - i
      /\ \A h \in 1 .. Len(s) - i : back[h] = s[i + h]
  BY <1>1
<1>4. RemoveAt(s, i) = front \o back
  BY DEF RemoveAt
<1> HIDE DEF front, back
<1>5. /\ front \o back \in Seq(S)
      /\ Len(front \o back) = Len(s) - 1
  BY <1>1, <1>2, <1>3, ConcatProperties
<1>6. \A h \in 1 .. Len(s) - 1 : (front \o back)[h] = IF h < i THEN s[h] ELSE s[h + 1]
  <2> SUFFICES ASSUME NEW h \in 1 .. Len(s) - 1
               PROVE  (front \o back)[h] = IF h < i THEN s[h] ELSE s[h + 1]
    OBVIOUS
  <2>1. (front \o back)[h] = IF h <= Len(front) THEN front[h] ELSE back[h - Len(front)]
    BY <1>1, <1>2, <1>3, ConcatProperties
  <2>2. CASE h < i
    BY <1>1, <1>2, <2>1, <2>2
  <2>3. CASE ~(h < i)
    <3>1. h - Len(front) \in 1 .. Len(s) - i /\ i + (h - Len(front)) = h + 1
      BY <1>1, <1>2, <2>3
    <3> QED
      BY <1>1, <1>2, <1>3, <2>1, <2>3, <3>1
  <2> QED
    BY <2>2, <2>3
<1> QED
  BY <1>4, <1>5, <1>6

\* What is left of a sequence without repetitions once an element is taken out.
LEMMA RemoveFirstFacts ==
    ASSUME NEW S, NEW s \in Seq(S), NEW r,
           \A i, j \in DOMAIN s : s[i] = s[j] => i = j
    PROVE  /\ RemoveFirst(s, r) \in Seq(S)
           /\ \A i, j \in DOMAIN RemoveFirst(s, r) :
                  RemoveFirst(s, r)[i] = RemoveFirst(s, r)[j] => i = j
           /\ \A x : (\E i \in DOMAIN RemoveFirst(s, r) : RemoveFirst(s, r)[i] = x)
                        <=> x # r /\ \E i \in DOMAIN s : s[i] = x
<1>1. Len(s) \in Nat /\ DOMAIN s = 1 .. Len(s)
  BY LenProperties
<1>2. CASE ~ \E i \in 1 .. Len(s) : s[i] = r
  <2>1. RemoveFirst(s, r) = s
    BY <1>2 DEF RemoveFirst
  <2> QED
    BY <1>1, <1>2, <2>1
<1>3. ASSUME NEW n \in 1 .. Len(s), s[n] = r
      PROVE  RemoveFirst(s, r) = RemoveAt(s, n)
  <2>1. {i \in 1 .. Len(s) : s[i] = r} = {n}
    BY <1>1, <1>3
  <2>2. SelectInSeq(s, LAMBDA v : v = r) = Min({n})
    BY <2>1 DEF SelectInSeq
  <2>3. Min({n}) = n
    BY DEF Min
  <2> QED
    BY <1>3, <2>2, <2>3 DEF RemoveFirst
<1>4. CASE \E i \in 1 .. Len(s) : s[i] = r
  <2>1. PICK n \in 1 .. Len(s) : s[n] = r
    BY <1>4
  <2> DEFINE t     == RemoveAt(s, n)
             at(h) == IF h < n THEN h ELSE h + 1
  <2>2. RemoveFirst(s, r) = t
    BY <1>3, <2>1
  <2>3. n \in DOMAIN s
    BY <1>1
  <2>4. t \in Seq(S) /\ Len(t) = Len(s) - 1 /\ \A h \in 1 .. Len(s) - 1 : t[h] = s[at(h)]
    BY <2>3, RemoveAtFacts
  <2>5. DOMAIN t = 1 .. Len(s) - 1
    BY <2>4, LenProperties
  <2>6. \A h \in 1 .. Len(s) - 1 : at(h) \in 1 .. Len(s) /\ at(h) # n
    BY <1>1
  <2>7. \A g, h \in 1 .. Len(s) - 1 : at(g) = at(h) => g = h
    BY <1>1
  <2>8. \A i \in 1 .. Len(s) : i # n => \E h \in 1 .. Len(s) - 1 : at(h) = i
    <3> SUFFICES ASSUME NEW i \in 1 .. Len(s), i # n
                 PROVE  \E h \in 1 .. Len(s) - 1 : at(h) = i
      OBVIOUS
    <3>1. CASE i < n
      <4>1. i \in 1 .. Len(s) - 1 /\ at(i) = i
        BY <1>1, <3>1
      <4> QED
        BY <4>1
    <3>2. CASE ~(i < n)
      <4>1. i - 1 \in 1 .. Len(s) - 1 /\ at(i - 1) = i
        BY <1>1, <3>2
      <4> QED
        BY <4>1
    <3> QED
      BY <3>1, <3>2
  <2> HIDE DEF at, t
  <2>9. \A i, j \in DOMAIN t : t[i] = t[j] => i = j
    BY <1>1, <2>4, <2>5, <2>6, <2>7
  <2>10. \A x : (\E i \in DOMAIN t : t[i] = x) <=> x # r /\ \E i \in DOMAIN s : s[i] = x
    <3>1. \A i \in DOMAIN t : t[i] # r /\ \E j \in DOMAIN s : s[j] = t[i]
      BY <1>1, <2>1, <2>4, <2>5, <2>6
    <3>2. \A i \in DOMAIN s : s[i] # r => \E h \in DOMAIN t : t[h] = s[i]
      BY <1>1, <2>1, <2>4, <2>5, <2>8
    <3> QED
      BY <3>1, <3>2
  <2> QED
    BY <2>2, <2>4, <2>9, <2>10
<1> QED
  BY <1>2, <1>4

\* An unlocked semaphore gives its slot at once.
LEMMA TakeKeepsSemaphore ==
    ASSUME SemaphoreSound, NEW r \in Requests, slot[r] = "none", SlotFree, TakeSlot(r)
    PROVE  SemaphoreSound'
<1>1. /\ free' = free - 1 /\ waiters' = waiters /\ waiters = <<>> /\ free > 0
      /\ slot' = [slot EXCEPT ![r] = "held"]
  BY DEF TakeSlot, SlotFree
<1>2. HasSlot' = HasSlot \cup {r} /\ r \notin HasSlot
  BY <1>1 DEF HasSlot, SemaphoreSound
<1>3. Cardinality(HasSlot') = Cardinality(HasSlot) + 1
  BY <1>2, SlotsFinite, FS_AddElement
<1>4. free' \in Nat /\ free' + Cardinality(HasSlot') = MaxConcurrency
  BY <1>1, <1>3, SlotsFinite, ConcurrencyAssumption DEF SemaphoreSound
<1>5. WaitersExact' /\ WaitersDistinct'
  BY <1>1 DEF SemaphoreSound, WaitersExact, WaitersDistinct
<1>6. \A w \in Requests : slot[w] # "queued" /\ slot'[w] # "queued"
  BY <1>1 DEF SemaphoreSound, WaitersExact
<1> QED
  BY <1>1, <1>4, <1>5, <1>6 DEF SemaphoreSound, FreeIsPassedOn

\* Others wait behind those who wait.
LEMMA QueueKeepsSemaphore ==
    ASSUME SemaphoreSound, NEW r \in Requests, slot[r] = "none", ~SlotFree,
           waiters' = Append(waiters, r), slot' = [slot EXCEPT ![r] = "queued"], free' = free
    PROVE  SemaphoreSound'
<1>1. Len(waiters) \in Nat /\ DOMAIN waiters = 1 .. Len(waiters)
  BY LenProperties DEF SemaphoreSound
<1>2. /\ waiters' \in Seq(Requests)
      /\ DOMAIN waiters' = 1 .. Len(waiters) + 1
      /\ \A i \in DOMAIN waiters : waiters'[i] = waiters[i]
      /\ waiters'[Len(waiters) + 1] = r
  BY <1>1, AppendProperties DEF SemaphoreSound
<1>3. \A i \in DOMAIN waiters : waiters[i] # r
  BY DEF SemaphoreSound, WaitersExact
<1>4. WaitersDistinct'
  BY <1>1, <1>2, <1>3 DEF SemaphoreSound, WaitersDistinct
<1>5. WaitersExact'
  <2>1. \A w : (\E i \in DOMAIN waiters' : waiters'[i] = w)
                  <=> w = r \/ \E i \in DOMAIN waiters : waiters[i] = w
    <3>1. Len(waiters) + 1 \in DOMAIN waiters'
      BY <1>1, <1>2
    <3>2. \A i \in DOMAIN waiters' : i = Len(waiters) + 1 \/ i \in DOMAIN waiters
      BY <1>1, <1>2
    <3>3. \A i \in DOMAIN waiters : i \in DOMAIN waiters'
      BY <1>1, <1>2
    <3> QED
      BY <1>2, <3>1, <3>2, <3>3
  <2>2. \A w \in Requests :
            slot'[w] \in {"queued", "handed"} <=> w = r \/ slot[w] \in {"queued", "handed"}
    BY DEF SemaphoreSound
  <2> QED
    BY <2>1, <2>2 DEF SemaphoreSound, WaitersExact
<1>6. HasSlot' = HasSlot
  BY DEF HasSlot, SemaphoreSound
<1>7. free > 0 => \E w \in Requests : slot'[w] = "handed"
  <2> SUFFICES ASSUME free > 0
               PROVE  \E w \in Requests : slot[w] = "handed"
    BY DEF SemaphoreSound
  <2>1. 1 \in DOMAIN waiters
    BY <1>1, EmptySeq DEF SlotFree, SemaphoreSound
  <2>2. waiters[1] \in Requests /\ slot[waiters[1]] \in {"queued", "handed"}
    BY <1>1, <2>1, ElementOfSeq DEF SemaphoreSound, WaitersExact
  <2> QED
    BY <2>2 DEF SemaphoreSound, FreeIsPassedOn
<1> QED
  BY <1>2, <1>4, <1>5, <1>6, <1>7 DEF SemaphoreSound, FreeIsPassedOn

\* r leaves, keeps what it claims, and what is free goes to those who queue: the
\* n slots and those that are kept are all there are.
LEMMA HandOverKeepsSemaphore ==
    ASSUME SemaphoreSound, NEW r \in Requests, NEW claim \in {"none", "held"},
           NEW n \in Nat, NEW most \in Nat, most > 0, HandOver(r, claim, n, most),
           n + Cardinality(IF claim = "held" THEN HasSlot \cup {r} ELSE HasSlot \ {r})
               = MaxConcurrency
    PROVE  /\ SemaphoreSound'
           /\ slot'[r] = claim
           /\ \A w \in Requests \ {r} :
                /\ slot'[w] = "held" <=> slot[w] = "held"
                /\ slot'[w] = "none" <=> slot[w] = "none"
<1> DEFINE others == Queued \ {r}
           kept   == IF claim = "held" THEN HasSlot \cup {r} ELSE HasSlot \ {r}
<1>1. PICK H \in SUBSET others :
        /\ Cardinality(H) = Min({n, most, Cardinality(others)})
        /\ free' = n - Cardinality(H)
        /\ waiters' = RemoveFirst(waiters, r)
        /\ slot' = [w \in Requests |->
                        IF w = r THEN claim ELSE IF w \in H THEN "handed" ELSE slot[w]]
  BY DEF HandOver
<1>2. /\ IsFiniteSet(others) /\ Cardinality(others) \in Nat
      /\ IsFiniteSet(H) /\ Cardinality(H) \in Nat
      /\ IsFiniteSet(kept) /\ Cardinality(kept) \in Nat
  <2>1. others \in SUBSET Requests /\ H \in SUBSET Requests /\ kept \in SUBSET Requests
    BY DEF Queued, HasSlot
  <2> QED
    BY <2>1, RequestsAssumption, FS_Subset, FS_CardinalityType
<1>3. \A w \in others : w \in Requests /\ w # r /\ slot[w] = "queued"
  BY DEF Queued
<1> HIDE DEF others, kept
<1>4. /\ Cardinality(H) <= n
      /\ Cardinality(H) = n \/ Cardinality(H) = most \/ Cardinality(H) = Cardinality(others)
  BY <1>1, <1>2 DEF Min
<1>5. free' \in Nat
  BY <1>1, <1>2, <1>4
<1>6. /\ slot' \in [Requests -> {"none", "queued", "handed", "held"}]
      /\ slot'[r] = claim
      /\ \A w \in Requests \ {r} : slot'[w] = IF w \in H THEN "handed" ELSE slot[w]
      /\ \A w \in H : slot[w] = "queued"
  BY <1>1, <1>3 DEF SemaphoreSound
<1>7. /\ waiters' \in Seq(Requests)
      /\ WaitersDistinct'
      /\ \A x : (\E i \in DOMAIN waiters' : waiters'[i] = x)
                   <=> x # r /\ \E i \in DOMAIN waiters : waiters[i] = x
  <2> DEFINE t == RemoveFirst(waiters, r)
  <2>1. waiters \in Seq(Requests) /\ \A i, j \in DOMAIN waiters : waiters[i] = waiters[j] => i = j
    BY DEF SemaphoreSound, WaitersDistinct
  <2>2. /\ t \in Seq(Requests)
        /\ \A i, j \in DOMAIN t : t[i] = t[j] => i = j
        /\ \A x : (\E i \in DOMAIN t : t[i] = x) <=> x # r /\ \E i \in DOMAIN waiters : waiters[i] = x
    BY <2>1, RemoveFirstFacts
  <2>3. waiters' = t
    BY <1>1
  <2> HIDE DEF t
  <2> QED
    BY <2>2, <2>3 DEF WaitersDistinct
<1>8. WaitersExact'
  <2> SUFFICES ASSUME NEW w \in Requests
               PROVE  slot'[w] \in {"queued", "handed"}
                         <=> w # r /\ slot[w] \in {"queued", "handed"}
    BY <1>7 DEF SemaphoreSound, WaitersExact
  <2> QED
    BY <1>6
<1>9. free' + Cardinality(HasSlot') = MaxConcurrency
  <2>1. HasSlot' = kept \cup H /\ kept \cap H = {}
    BY <1>1, <1>3, <1>6 DEF HasSlot, kept
  <2>2. Cardinality(kept \cup H) = Cardinality(kept) + Cardinality(H)
    <3>1. Cardinality(kept \cap H) = 0
      BY <2>1, FS_EmptySet
    <3>2. Cardinality(kept \cup H) = Cardinality(kept) + Cardinality(H) - Cardinality(kept \cap H)
      BY <1>2, FS_Union
    <3> QED
      BY <1>2, <3>1, <3>2
  <2>3. n + Cardinality(kept) = MaxConcurrency
    BY DEF kept
  <2> QED
    BY <1>1, <1>2, <1>4, <2>1, <2>2, <2>3, ConcurrencyAssumption
<1>10. FreeIsPassedOn'
  <2> SUFFICES ASSUME free' > 0, NEW w \in Requests, slot'[w] = "queued"
               PROVE  \E v \in Requests : slot'[v] = "handed"
    BY DEF FreeIsPassedOn
  <2>1. w \in others \ H
    BY <1>6 DEF Queued, others
  <2>2. Cardinality(H) # Cardinality(others)
    BY <1>2, <2>1, FS_Subset
  <2>3. Cardinality(H) > 0
    BY <1>1, <1>2, <1>4, <2>2
  <2>4. PICK v : v \in H
    BY <1>2, <2>3, FS_EmptySet
  <2> QED
    BY <1>3, <1>6, <2>4
<1> QED
  BY <1>5, <1>6, <1>7, <1>8, <1>9, <1>10 DEF SemaphoreSound

-----------------------------------------------------------------------------
(***************************************************************************)
(* The request: what it holds of the semaphore follows from where it       *)
(* stands, and it backs off only with a retry left.                        *)
(***************************************************************************)
Stages == {"idle", "blocked", "window", "sending", "backoff",
           "streaming", "reopening", "ending", "done"}

RequestSound ==
    /\ stage \in [Requests -> Stages]
    /\ wake \in [Requests -> Nat]
    /\ blocked_until \in Nat
    /\ leaks \in Nat
    /\ attempt \in [Requests -> 0 .. MaxRetries]
    /\ mode \in [Requests -> {"stream", "recovery"}]
    /\ reopens \in [Requests -> 0 .. MaxReopens]
    /\ \A r \in Requests :
        /\ stage[r] = "done" => slot[r] = "none"
        /\ stage[r] \notin {"idle", "done"} => slot[r] = "held"
        /\ stage[r] = "backoff" => attempt[r] < MaxRetries

(***************************************************************************)
(* The block.  A call that is let through during the block comes from a    *)
(* request that sleeps in the window, or that slept out an earlier block;  *)
(* they had a slot when the block was set, and once they are through they  *)
(* cannot slip by again.                                                   *)
(***************************************************************************)
Slipping ==
    {r \in Requests :
        \/ stage[r] = "window"
        \/ stage[r] = "blocked" /\ wake[r] < blocked_until}

LeaksSound ==
    /\ leaks < MaxConcurrency
    /\ Blocked => leaks + Cardinality(Slipping) < MaxConcurrency

Inv == Passes!WindowOK /\ SemaphoreSound /\ RequestSound /\ LeaksSound

LEMMA SlippingFinite == IsFiniteSet(Slipping) /\ Cardinality(Slipping) \in Nat
<1>1. Slipping \in SUBSET Requests
  BY DEF Slipping
<1> QED
  BY <1>1, RequestsAssumption, FS_Subset, FS_CardinalityType

\* A pass through the window: the call begins, or the request sleeps there.
LEMMA AcquireEffect ==
    ASSUME Passes!WindowOK, RequestSound, NEW r \in Requests, AcquireWindow(r)
    PROVE  \E to \in {"window", "sending"}, until \in Nat :
               /\ stage' = [stage EXCEPT ![r] = to]
               /\ wake' = [wake EXCEPT ![r] = until]
               /\ leaks' = IF Blocked /\ to = "sending" THEN leaks + 1 ELSE leaks
<1>1. Passes!Pass(r, "sending")
  BY DEF AcquireWindow, Window!Pass, Window!Pops, Window!HasRoom, Window!FreeAt,
         Window!Expired, Passes!Pass, Passes!Pops, Passes!HasRoom, Passes!FreeAt,
         Passes!Expired
<1>2. \/ stage' = [stage EXCEPT ![r] = "sending"] /\ wake' = wake
      \/ \E until \in Nat : /\ stage' = [stage EXCEPT ![r] = "window"]
                            /\ wake' = [wake EXCEPT ![r] = until]
  BY <1>1, RatesAssumption, Passes!PassEffect
<1>3. leaks' = IF Blocked /\ stage'[r] = "sending" THEN leaks + 1 ELSE leaks
  BY DEF AcquireWindow
<1>4. CASE stage' = [stage EXCEPT ![r] = "sending"] /\ wake' = wake
  <2>1. wake' = [wake EXCEPT ![r] = wake[r]] /\ wake[r] \in Nat /\ stage'[r] = "sending"
    BY <1>4 DEF RequestSound
  <2> QED
    BY <1>3, <1>4, <2>1
<1>5. ASSUME NEW until \in Nat, stage' = [stage EXCEPT ![r] = "window"],
             wake' = [wake EXCEPT ![r] = until]
      PROVE  leaks' = leaks
  BY <1>3, <1>5 DEF RequestSound
<1> QED
  BY <1>2, <1>4, <1>5

LEMMA WaitEffect ==
    ASSUME Passes!WindowOK, RequestSound, NEW r \in Requests, WaitIfBlocked(r)
    PROVE  \E to \in {"blocked", "window", "sending"}, until \in Nat :
               /\ stage' = [stage EXCEPT ![r] = to]
               /\ wake' = [wake EXCEPT ![r] = until]
               /\ leaks' = leaks
               /\ Blocked => to = "blocked" /\ until = blocked_until
<1>1. CASE Blocked
  BY <1>1 DEF WaitIfBlocked, Move, RequestSound
<1>2. CASE ~Blocked
  BY <1>2, AcquireEffect DEF WaitIfBlocked
<1> QED
  BY <1>1, <1>2

\* What the others have of the semaphore stays, but that a queued one may be handed a slot.
OthersKeep(r) ==
    \A w \in Requests \ {r} :
        /\ slot'[w] = "held" <=> slot[w] = "held"
        /\ slot'[w] = "none" <=> slot[w] = "none"

LEMMA GivenBack ==
    ASSUME SemaphoreSound, NEW r \in HasSlot
    PROVE  (free + 1) + Cardinality(HasSlot \ {r}) = MaxConcurrency
<1>1. Cardinality(HasSlot \ {r}) = Cardinality(HasSlot) - 1
  BY SlotsFinite, FS_RemoveElement
<1>2. free \in Nat /\ Cardinality(HasSlot) \in Nat /\ free + Cardinality(HasSlot) = MaxConcurrency
  BY SlotsFinite DEF SemaphoreSound
<1> QED
  BY <1>1, <1>2

LEMMA ReleaseKeepsSemaphore ==
    ASSUME SemaphoreSound, NEW r \in Requests, slot[r] = "held", Release(r)
    PROVE  SemaphoreSound' /\ slot'[r] = "none" /\ OthersKeep(r)
<1>1. r \in HasSlot /\ free \in Nat
  BY DEF HasSlot, SemaphoreSound
<1>2. (free + 1) + Cardinality(HasSlot \ {r}) = MaxConcurrency
  BY <1>1, GivenBack
<1> QED
  BY <1>1, <1>2, HandOverKeepsSemaphore DEF Release, OthersKeep

LEMMA WaiterFacts ==
    ASSUME SemaphoreSound, NEW r \in Requests, slot[r] \in {"queued", "handed"}
    PROVE  Len(waiters) \in Nat /\ Len(waiters) > 0
<1>1. PICK i \in DOMAIN waiters : waiters[i] = r
  BY DEF SemaphoreSound, WaitersExact
<1> QED
  BY <1>1, LenProperties DEF SemaphoreSound

LEMMA CancelKeepsSemaphore ==
    ASSUME SemaphoreSound, NEW r \in Requests, slot[r] \in {"queued", "handed"}, CancelWait(r)
    PROVE  SemaphoreSound' /\ slot'[r] = "none" /\ OthersKeep(r)
<1>1. CASE slot[r] = "handed"
  <2>1. r \in HasSlot /\ free \in Nat
    BY <1>1 DEF HasSlot, SemaphoreSound
  <2>2. (free + 1) + Cardinality(HasSlot \ {r}) = MaxConcurrency
    BY <2>1, GivenBack
  <2>3. HandOver(r, "none", free + 1, Len(waiters))
    BY <1>1 DEF CancelWait
  <2>4. free + 1 \in Nat
    BY <2>1
  <2> QED
    BY <2>2, <2>3, <2>4, WaiterFacts, HandOverKeepsSemaphore DEF OthersKeep
<1>2. CASE slot[r] = "queued"
  <2>1. HasSlot \ {r} = HasSlot /\ free \in Nat
    BY <1>2 DEF HasSlot, SemaphoreSound
  <2>2. free + Cardinality(HasSlot \ {r}) = MaxConcurrency
    BY <2>1 DEF SemaphoreSound
  <2> QED
    BY <1>2, <2>1, <2>2, WaiterFacts, HandOverKeepsSemaphore DEF CancelWait, OthersKeep
<1> QED
  BY <1>1, <1>2

LEMMA ResumeKeepsSemaphore ==
    ASSUME SemaphoreSound, NEW r \in Requests, slot[r] = "handed",
           HandOver(r, "held", free, Len(waiters))
    PROVE  SemaphoreSound' /\ slot'[r] = "held" /\ OthersKeep(r)
<1>1. HasSlot \cup {r} = HasSlot /\ free \in Nat
  BY DEF HasSlot, SemaphoreSound
<1>2. free + Cardinality(HasSlot \cup {r}) = MaxConcurrency
  BY <1>1 DEF SemaphoreSound
<1> QED
  BY <1>1, <1>2, WaiterFacts, HandOverKeepsSemaphore DEF OthersKeep

\* Every action leaves the semaphore alone or is one of these steps.
LEMMA SemaphoreStays ==
    ASSUME SemaphoreSound, UNCHANGED semaphore
    PROVE  SemaphoreSound' /\ slot' = slot
  BY DEF semaphore, SemaphoreSound, WaitersExact, WaitersDistinct, FreeIsPassedOn, HasSlot

LEMMA SemaphoreStep ==
    ASSUME SemaphoreSound, RequestSound, [Next]_vars
    PROVE  SemaphoreSound'
<1>1. CASE Tick \/ UNCHANGED vars
  BY <1>1, SemaphoreStays DEF Tick, vars
<1>2. ASSUME NEW r \in Requests, Arrive(r)
      PROVE  SemaphoreSound'
  BY <1>2, TakeKeepsSemaphore, QueueKeepsSemaphore DEF Arrive
<1>3. ASSUME NEW r \in Requests, Answered(r) \/ Streams(r)
      PROVE  SemaphoreSound'
  BY <1>3, SemaphoreStays
     DEF Answered, Opens, BacksOff, CallFails, RecoverAgain, Exhausted,
         Streams, StreamEnds, Breaks, Recover
<1>4. ASSUME NEW r \in Requests, Continues(r)
      PROVE  SemaphoreSound'
  <2>1. CASE Finish(r)
    <3>1. slot[r] = "held"
      BY <2>1 DEF Finish, RequestSound
    <3> QED
      BY <2>1, <3>1, ReleaseKeepsSemaphore DEF Finish
  <2>2. CASE Resume(r)
    BY <2>2, ResumeKeepsSemaphore DEF Resume
  <2> QED
    BY <1>4, <2>1, <2>2, SemaphoreStays DEF Continues, Unblocked, WindowAgain, RetryCall, Reopen
<1>5. ASSUME NEW r \in Requests, Leaves(r)
      PROVE  SemaphoreSound'
  <2>1. CASE Disconnect(r)
    <3>1. slot[r] = "held"
      BY <2>1 DEF Disconnect, RequestSound
    <3> QED
      BY <2>1, <3>1, ReleaseKeepsSemaphore DEF Disconnect
  <2>2. CASE DisconnectWaiting(r)
    BY <2>2, CancelKeepsSemaphore DEF DisconnectWaiting
  <2> QED
    BY <1>5, <2>1, <2>2, SemaphoreStays DEF Leaves, DisconnectOpen
<1> QED
  BY <1>1, <1>2, <1>3, <1>4, <1>5 DEF Next

\* A step of r: only r moves, to a stage that fits what it has of the semaphore.
LEMMA MoveKeepsRequest ==
    ASSUME RequestSound, SemaphoreSound, SemaphoreSound', NEW r \in Requests, OthersKeep(r),
           NEW to \in Stages, stage' = [stage EXCEPT ![r] = to],
           wake' \in [Requests -> Nat], blocked_until' \in Nat, leaks' \in Nat,
           attempt' \in [Requests -> 0 .. MaxRetries],
           mode' \in [Requests -> {"stream", "recovery"}],
           reopens' \in [Requests -> 0 .. MaxReopens],
           \A w \in Requests \ {r} : attempt'[w] = attempt[w],
           to = "done" => slot'[r] = "none",
           to \notin {"idle", "done"} => slot'[r] = "held",
           to = "backoff" => attempt'[r] < MaxRetries
    PROVE  RequestSound'
<1>1. stage' \in [Requests -> Stages] /\ stage'[r] = to
      /\ \A w \in Requests \ {r} : stage'[w] = stage[w]
  BY DEF RequestSound
<1>2. ASSUME NEW w \in Requests
      PROVE  /\ stage'[w] = "done" => slot'[w] = "none"
             /\ stage'[w] \notin {"idle", "done"} => slot'[w] = "held"
             /\ stage'[w] = "backoff" => attempt'[w] < MaxRetries
  <2>1. CASE w = r
    BY <1>1, <2>1
  <2>2. CASE w # r
    BY <1>1, <2>2 DEF OthersKeep, RequestSound
  <2> QED
    BY <2>1, <2>2
<1> QED
  BY <1>1, <1>2 DEF RequestSound

\* The same for a step whose stage is a literal, and for a wait, that ends in the
\* window, in a block or in a call: what is left is the slot of r.
LEMMA WaitKeepsRequest ==
    ASSUME Passes!WindowOK, RequestSound, SemaphoreSound, SemaphoreSound',
           NEW r \in Requests, OthersKeep(r), slot'[r] = "held",
           WaitIfBlocked(r) \/ AcquireWindow(r), blocked_until' = blocked_until,
           attempt' \in [Requests -> 0 .. MaxRetries],
           mode' \in [Requests -> {"stream", "recovery"}],
           reopens' \in [Requests -> 0 .. MaxReopens],
           \A w \in Requests \ {r} : attempt'[w] = attempt[w]
    PROVE  RequestSound'
<1>1. PICK to \in {"blocked", "window", "sending"}, until \in Nat :
        /\ stage' = [stage EXCEPT ![r] = to]
        /\ wake' = [wake EXCEPT ![r] = until]
        /\ leaks' \in {leaks, leaks + 1}
  BY AcquireEffect, WaitEffect
<1>2. wake' \in [Requests -> Nat] /\ leaks' \in Nat /\ blocked_until' \in Nat
  BY <1>1 DEF RequestSound
<1>3. to \in Stages /\ to \notin {"idle", "done", "backoff"}
  BY <1>1 DEF Stages
<1> QED
  BY <1>1, <1>2, <1>3, MoveKeepsRequest

\* The requests the semaphore does not move keep what they have.
LEMMA SlotsKept ==
    ASSUME UNCHANGED semaphore, NEW r
    PROVE  OthersKeep(r) /\ slot' = slot
  BY DEF semaphore, OthersKeep

LEMMA RequestTypes ==
    ASSUME RequestSound
    PROVE  /\ stage \in [Requests -> Stages] /\ wake \in [Requests -> Nat]
           /\ blocked_until \in Nat /\ leaks \in Nat
           /\ attempt \in [Requests -> 0 .. MaxRetries]
           /\ mode \in [Requests -> {"stream", "recovery"}]
           /\ reopens \in [Requests -> 0 .. MaxReopens]
           /\ 0 \in 0 .. MaxRetries /\ 0 \in 0 .. MaxReopens
  BY RetriesAssumption DEF RequestSound

LEMMA AnswerKeepsRequest ==
    ASSUME Passes!WindowOK, RequestSound, SemaphoreSound, SemaphoreSound',
           NEW r \in Requests, Answered(r)
    PROVE  RequestSound'
<1>1. CASE RecoverAgain(r)
  <2>1. UNCHANGED semaphore /\ blocked_until' = blocked_until /\ slot[r] = "held"
    BY <1>1 DEF RecoverAgain, RequestSound
  <2>2. /\ attempt' = [attempt EXCEPT ![r] = 0] /\ mode' = mode
        /\ reopens[r] < MaxReopens /\ reopens' = [reopens EXCEPT ![r] = @ + 1]
        /\ WaitIfBlocked(r)
    BY <1>1 DEF RecoverAgain
  <2>3. reopens[r] + 1 \in 0 .. MaxReopens
    BY <2>2, RequestTypes, RetriesAssumption
  <2> QED
    BY <2>1, <2>2, <2>3, RequestTypes, SlotsKept, WaitKeepsRequest
<1>2. CASE BacksOff(r)
  <2>1. PICK delay \in BackoffOf(attempt[r]) .. BackoffOf(attempt[r]) + Jitter :
          SetBlocked(delay) /\ wake' = [wake EXCEPT ![r] = now + delay]
    BY <1>2 DEF BacksOff
  <2>2. /\ BackoffOf(attempt[r]) \in Nat /\ Jitter \in Nat /\ now \in Nat
    BY RequestTypes, BackoffAssumption, DelaysAssumption DEF Passes!WindowOK
  <2>3. now + delay \in Nat
    BY <2>2
  <2>4. wake' \in [Requests -> Nat] /\ blocked_until' \in Nat /\ leaks' \in Nat
    BY <2>1, <2>3, RequestTypes DEF SetBlocked
  <2>5. /\ UNCHANGED semaphore /\ UNCHANGED locals /\ slot[r] = "held"
        /\ stage' = [stage EXCEPT ![r] = "backoff"] /\ attempt[r] < MaxRetries
    BY <1>2 DEF BacksOff, Move, RequestSound
  <2>6. "backoff" \in Stages /\ UNCHANGED <<attempt, mode, reopens>>
    BY <2>5 DEF Stages, locals
  <2> QED
    BY <2>4, <2>5, <2>6, RequestTypes, SlotsKept, MoveKeepsRequest
<1>3. CASE Opens(r) \/ CallFails(r) \/ \E st \in {429, 500} : Exhausted(r, st)
  <2>1. /\ UNCHANGED semaphore /\ UNCHANGED <<wake, attempt, mode, reopens>> /\ slot[r] = "held"
        /\ \E to \in {"streaming", "ending"} : stage' = [stage EXCEPT ![r] = to]
    BY <1>3 DEF Opens, CallFails, Exhausted, Move, locals, RequestSound
  <2>2. now + FinalBlock \in Nat
    BY DelaysAssumption DEF Passes!WindowOK
  <2>3. blocked_until' \in Nat /\ leaks' \in Nat
    BY <1>3, <2>2, RequestTypes DEF Opens, CallFails, Exhausted, SetBlocked, block
  <2>4. {"streaming", "ending"} \in SUBSET (Stages \ {"idle", "done", "backoff"})
    BY DEF Stages
  <2> QED
    BY <2>1, <2>3, <2>4, RequestTypes, SlotsKept, MoveKeepsRequest
<1> QED
  BY <1>1, <1>2, <1>3 DEF Answered

LEMMA StreamKeepsRequest ==
    ASSUME Passes!WindowOK, RequestSound, SemaphoreSound, SemaphoreSound',
           NEW r \in Requests, Streams(r)
    PROVE  RequestSound'
<1>1. slot[r] = "held" /\ UNCHANGED semaphore
  BY DEF Streams, StreamEnds, Breaks, Recover, RequestSound
<1>2. CASE Recover(r)
  <2>1. /\ attempt' = [attempt EXCEPT ![r] = 0] /\ mode' = [mode EXCEPT ![r] = "recovery"]
        /\ reopens' = [reopens EXCEPT ![r] = 0]
        /\ WaitIfBlocked(r) /\ blocked_until' = blocked_until
    BY <1>2 DEF Recover
  <2> QED
    BY <1>1, <2>1, RequestTypes, SlotsKept, WaitKeepsRequest
<1>3. CASE StreamEnds(r) \/ Breaks(r)
  <2>1. /\ UNCHANGED <<wake, blocked_until, leaks, attempt, mode>>
        /\ \E to \in {"ending", "reopening"} : stage' = [stage EXCEPT ![r] = to]
    BY <1>3 DEF StreamEnds, Breaks, Move, locals, block
  <2>2. reopens' \in [Requests -> 0 .. MaxReopens]
    <3>1. \/ reopens' = reopens
          \/ reopens[r] < MaxReopens /\ reopens' = [reopens EXCEPT ![r] = reopens[r] + 1]
      BY <1>3 DEF StreamEnds, Breaks, locals
    <3>2. reopens[r] < MaxReopens => reopens[r] + 1 \in 0 .. MaxReopens
      BY RequestTypes, RetriesAssumption
    <3> QED
      BY <3>1, <3>2, RequestTypes
  <2>3. {"ending", "reopening"} \in SUBSET (Stages \ {"idle", "done", "backoff"})
    BY DEF Stages
  <2> QED
    BY <1>1, <2>1, <2>2, <2>3, RequestTypes, SlotsKept, MoveKeepsRequest
<1> QED
  BY <1>2, <1>3 DEF Streams

LEMMA ContinueKeepsRequest ==
    ASSUME Passes!WindowOK, RequestSound, SemaphoreSound, SemaphoreSound',
           NEW r \in Requests, Continues(r)
    PROVE  RequestSound'
<1>1. CASE Finish(r)
  <2>1. /\ OthersKeep(r) /\ slot'[r] = "none"
    BY <1>1, ReleaseKeepsSemaphore DEF Finish, RequestSound
  <2>2. /\ UNCHANGED <<wake, blocked_until, leaks, attempt, mode, reopens>>
        /\ stage' = [stage EXCEPT ![r] = "done"] /\ "done" \in Stages
    BY <1>1 DEF Finish, Move, block, locals, Stages
  <2> QED
    BY <2>1, <2>2, RequestTypes, MoveKeepsRequest
<1>2. CASE Resume(r)
  <2>1. OthersKeep(r) /\ slot'[r] = "held"
    BY <1>2, ResumeKeepsSemaphore DEF Resume
  <2>2. WaitIfBlocked(r) /\ UNCHANGED <<blocked_until, attempt, mode, reopens>>
    BY <1>2 DEF Resume, locals
  <2> QED
    BY <2>1, <2>2, RequestTypes, WaitKeepsRequest
<1>3. CASE Unblocked(r) \/ WindowAgain(r)
  <2>1. /\ UNCHANGED semaphore /\ UNCHANGED <<blocked_until, attempt, mode, reopens>>
        /\ AcquireWindow(r) /\ slot[r] = "held"
    BY <1>3 DEF Unblocked, WindowAgain, locals, RequestSound
  <2> QED
    BY <2>1, RequestTypes, SlotsKept, WaitKeepsRequest
<1>4. CASE RetryCall(r) \/ Reopen(r)
  <2>1. /\ UNCHANGED semaphore /\ UNCHANGED <<blocked_until, mode, reopens>>
        /\ WaitIfBlocked(r) /\ slot[r] = "held"
    BY <1>4 DEF RetryCall, Reopen, RequestSound
  <2>2. /\ attempt' \in [Requests -> 0 .. MaxRetries]
        /\ \A w \in Requests \ {r} : attempt'[w] = attempt[w]
    <3>1. \/ attempt' = [attempt EXCEPT ![r] = 0]
          \/ attempt' = [attempt EXCEPT ![r] = attempt[r] + 1] /\ attempt[r] < MaxRetries
      BY <1>4 DEF RetryCall, Reopen, RequestSound
    <3>2. attempt[r] < MaxRetries => attempt[r] + 1 \in 0 .. MaxRetries
      BY RequestTypes, RetriesAssumption
    <3> QED
      BY <3>1, <3>2, RequestTypes
  <2> QED
    BY <2>1, <2>2, RequestTypes, SlotsKept, WaitKeepsRequest
<1> QED
  BY <1>1, <1>2, <1>3, <1>4 DEF Continues

LEMMA LeaveKeepsRequest ==
    ASSUME RequestSound, SemaphoreSound, SemaphoreSound', NEW r \in Requests, Leaves(r)
    PROVE  RequestSound'
<1>1. UNCHANGED <<wake, blocked_until, leaks, attempt, mode, reopens>>
  BY DEF Leaves, DisconnectWaiting, Disconnect, DisconnectOpen, block, locals
<1>2. CASE DisconnectOpen(r)
  <2>1. /\ UNCHANGED semaphore /\ slot[r] = "held"
        /\ stage' = [stage EXCEPT ![r] = "ending"] /\ "ending" \in Stages
    BY <1>2 DEF DisconnectOpen, Move, RequestSound, Stages
  <2> QED
    BY <1>1, <2>1, RequestTypes, SlotsKept, MoveKeepsRequest
<1>3. CASE DisconnectWaiting(r) \/ Disconnect(r)
  <2>1. OthersKeep(r) /\ slot'[r] = "none"
    BY <1>3, CancelKeepsSemaphore, ReleaseKeepsSemaphore
       DEF DisconnectWaiting, Disconnect, RequestSound
  <2>2. stage' = [stage EXCEPT ![r] = "done"] /\ "done" \in Stages
    BY <1>3 DEF DisconnectWaiting, Disconnect, Move, Stages
  <2> QED
    BY <1>1, <2>1, <2>2, RequestTypes, MoveKeepsRequest
<1> QED
  BY <1>2, <1>3 DEF Leaves

LEMMA ArriveKeepsRequest ==
    ASSUME Passes!WindowOK, RequestSound, SemaphoreSound, SemaphoreSound',
           NEW r \in Requests, Arrive(r)
    PROVE  RequestSound'
<1>1. UNCHANGED <<blocked_until, attempt, mode, reopens>>
  BY DEF Arrive, locals
<1>2. CASE SlotFree
  <2>1. WaitIfBlocked(r) /\ slot' = [slot EXCEPT ![r] = "held"]
    BY <1>2 DEF Arrive, TakeSlot
  <2>2. OthersKeep(r) /\ slot'[r] = "held"
    BY <2>1 DEF OthersKeep, SemaphoreSound
  <2> QED
    BY <1>1, <2>1, <2>2, RequestTypes, WaitKeepsRequest
<1>3. CASE ~SlotFree
  <2>1. /\ UNCHANGED <<stage, wake, leaks>> /\ slot' = [slot EXCEPT ![r] = "queued"]
        /\ stage[r] = "idle"
    BY <1>3 DEF Arrive
  <2> QED
    BY <1>1, <2>1 DEF RequestSound, SemaphoreSound
<1> QED
  BY <1>2, <1>3

LEMMA RequestStep ==
    ASSUME Passes!WindowOK, RequestSound, SemaphoreSound, SemaphoreSound', [Next]_vars
    PROVE  RequestSound'
<1>1. CASE Tick \/ UNCHANGED vars
  BY <1>1 DEF Tick, vars, semaphore, block, locals, RequestSound
<1> QED
  BY <1>1, ArriveKeepsRequest, AnswerKeepsRequest, StreamKeepsRequest, ContinueKeepsRequest,
     LeaveKeepsRequest DEF Next

-----------------------------------------------------------------------------
(* The leaks. *)

\* A step that lets nobody through and puts nobody into the window's sleep.
LEMMA NobodySlips ==
    ASSUME RequestSound, LeaksSound, UNCHANGED <<now, blocked_until, leaks>>,
           Slipping' \subseteq Slipping
    PROVE  LeaksSound'
<1>1. Slipping' \in SUBSET Slipping
  OBVIOUS
<1>2. Cardinality(Slipping') <= Cardinality(Slipping) /\ Cardinality(Slipping') \in Nat
  BY <1>1, SlippingFinite, FS_Subset, FS_CardinalityType
<1>3. Blocked' <=> Blocked
  BY DEF Blocked
<1>4. Blocked => leaks + Cardinality(Slipping') < MaxConcurrency
  <2> SUFFICES ASSUME Blocked
               PROVE  leaks + Cardinality(Slipping') < MaxConcurrency
    OBVIOUS
  <2>1. leaks + Cardinality(Slipping) < MaxConcurrency
    BY DEF LeaksSound
  <2> QED
    BY <1>2, <2>1, SlippingFinite, RequestTypes, ConcurrencyAssumption
<1> QED
  BY <1>3, <1>4 DEF LeaksSound

\* Who checks the block while it is on sleeps until it ends.
LEMMA WaitKeepsLeaks ==
    ASSUME Passes!WindowOK, RequestSound, LeaksSound, NEW r \in Requests, WaitIfBlocked(r),
           UNCHANGED <<now, blocked_until>>
    PROVE  LeaksSound'
<1>1. PICK to \in {"blocked", "window", "sending"}, until \in Nat :
        /\ stage' = [stage EXCEPT ![r] = to]
        /\ wake' = [wake EXCEPT ![r] = until]
        /\ leaks' = leaks
        /\ Blocked => to = "blocked" /\ until = blocked_until
  BY WaitEffect
<1>2. CASE Blocked
  <2>1. /\ stage' = [stage EXCEPT ![r] = "blocked"]
        /\ wake' = [wake EXCEPT ![r] = blocked_until]
    BY <1>1, <1>2
  <2>2. ASSUME NEW w \in Slipping'
        PROVE  w \in Slipping
    <3>1. w \in Requests /\ (stage'[w] = "window" \/ (stage'[w] = "blocked" /\ wake'[w] < blocked_until))
      BY <2>2 DEF Slipping
    <3>2. CASE w = r
      <4>1. stage'[r] = "blocked" /\ wake'[r] = blocked_until /\ blocked_until \in Nat
        BY <2>1, RequestTypes
      <4> QED
        BY <3>1, <3>2, <4>1
    <3>3. CASE w # r
      <4>1. stage'[w] = stage[w] /\ wake'[w] = wake[w]
        BY <2>1, <3>1, <3>3, RequestTypes
      <4> QED
        BY <3>1, <4>1 DEF Slipping
    <3> QED
      BY <3>2, <3>3
  <2> QED
    BY <1>1, <2>2, NobodySlips
<1>3. CASE ~Blocked
  BY <1>1, <1>3 DEF LeaksSound, Blocked
<1> QED
  BY <1>2, <1>3

\* Who is past the check may slip by once.
LEMMA PassKeepsLeaks ==
    ASSUME Passes!WindowOK, RequestSound, LeaksSound, NEW r \in Requests, AcquireWindow(r),
           UNCHANGED <<now, blocked_until>>, stage[r] \in {"blocked", "window"}, wake[r] <= now
    PROVE  LeaksSound'
<1>1. PICK to \in {"window", "sending"}, until \in Nat :
        /\ stage' = [stage EXCEPT ![r] = to]
        /\ wake' = [wake EXCEPT ![r] = until]
        /\ leaks' = IF Blocked /\ to = "sending" THEN leaks + 1 ELSE leaks
  BY AcquireEffect
<1>2. CASE ~Blocked
  BY <1>1, <1>2 DEF LeaksSound, Blocked
<1>3. CASE Blocked
  <2>1. r \in Slipping
    <3>1. now \in Nat /\ wake[r] \in Nat /\ blocked_until \in Nat
      BY RequestTypes DEF Passes!WindowOK
    <3> QED
      BY <1>3, <3>1 DEF Blocked, Slipping
  <2>2. \A w \in Requests \ {r} : w \in Slipping' => w \in Slipping
    <3> SUFFICES ASSUME NEW w \in Requests \ {r}
                 PROVE  w \in Slipping' => w \in Slipping
      OBVIOUS
    <3>1. stage'[w] = stage[w] /\ wake'[w] = wake[w]
      BY <1>1, RequestTypes
    <3> QED
      BY <3>1 DEF Slipping
  <2>3. Slipping' \subseteq Requests
    BY DEF Slipping
  <2>4. CASE to = "window"
    <3>1. Slipping' \subseteq Slipping
      BY <2>1, <2>2, <2>3
    <3> QED
      BY <1>1, <2>4, <3>1, NobodySlips
  <2>5. CASE to = "sending"
    <3>1. stage'[r] = "sending" /\ leaks' = leaks + 1
      BY <1>1, <1>3, <2>5, RequestTypes
    <3>2. r \notin Slipping'
      BY <3>1 DEF Slipping
    <3>3. Slipping' \in SUBSET (Slipping \ {r})
      BY <2>2, <2>3, <3>2
    <3>4. /\ IsFiniteSet(Slipping \ {r})
          /\ Cardinality(Slipping \ {r}) = Cardinality(Slipping) - 1
      BY <2>1, SlippingFinite, FS_RemoveElement
    <3>5. Cardinality(Slipping') <= Cardinality(Slipping) - 1 /\ Cardinality(Slipping') \in Nat
      BY <3>3, <3>4, FS_Subset, FS_CardinalityType
    <3>6. leaks + Cardinality(Slipping) < MaxConcurrency
      BY <1>3 DEF LeaksSound
    <3>7. leaks + 1 + Cardinality(Slipping') < MaxConcurrency /\ leaks + 1 < MaxConcurrency
      BY <3>5, <3>6, SlippingFinite, RequestTypes, ConcurrencyAssumption
    <3> QED
      BY <3>1, <3>7 DEF LeaksSound
  <2> QED
    BY <2>4, <2>5
<1> QED
  BY <1>2, <1>3

\* A new block: whoever may slip by has one of the other slots.
LEMMA BlockKeepsLeaks ==
    ASSUME RequestSound, SemaphoreSound, NEW r \in Requests, slot[r] = "held", leaks' = 0,
           NEW to, to \notin {"blocked", "window"}, stage' = [stage EXCEPT ![r] = to]
    PROVE  LeaksSound'
<1>1. Slipping' \in SUBSET (HasSlot \ {r})
  <2> SUFFICES ASSUME NEW w \in Slipping'
               PROVE  w \in HasSlot \ {r}
    OBVIOUS
  <2>1. w \in Requests /\ stage'[w] \in {"blocked", "window"}
    BY DEF Slipping
  <2>2. w # r /\ stage[w] \in {"blocked", "window"}
    BY <2>1, RequestTypes
  <2> QED
    BY <2>1, <2>2 DEF RequestSound, HasSlot
<1>2. r \in HasSlot
  BY DEF HasSlot
<1>3. IsFiniteSet(HasSlot \ {r}) /\ Cardinality(HasSlot \ {r}) = Cardinality(HasSlot) - 1
  BY <1>2, SlotsFinite, FS_RemoveElement
<1>4. Cardinality(Slipping') <= Cardinality(HasSlot) - 1 /\ Cardinality(Slipping') \in Nat
  BY <1>1, <1>3, FS_Subset, FS_CardinalityType
<1>5. free \in Nat /\ free + Cardinality(HasSlot) = MaxConcurrency
  BY DEF SemaphoreSound
<1>6. 0 < MaxConcurrency /\ 0 + Cardinality(Slipping') < MaxConcurrency
  BY <1>4, <1>5, SlotsFinite, ConcurrencyAssumption
<1> QED
  BY <1>6 DEF LeaksSound

\* A step that takes r out of its sleep, or elsewhere, and lets no call through.
LEMMA MoveKeepsLeaks ==
    ASSUME RequestSound, LeaksSound, NEW r \in Requests,
           NEW to, to \notin {"blocked", "window"}, stage' = [stage EXCEPT ![r] = to],
           UNCHANGED <<now, wake, block>>
    PROVE  LeaksSound'
<1>1. ASSUME NEW w \in Slipping'
      PROVE  w \in Slipping
  <2>1. w \in Requests /\ (stage'[w] = "window" \/ (stage'[w] = "blocked" /\ wake[w] < blocked_until))
    BY <1>1 DEF Slipping, block
  <2>2. stage'[w] = stage[w]
    BY <2>1, RequestTypes
  <2> QED
    BY <2>1, <2>2 DEF Slipping
<1> QED
  BY <1>1, NobodySlips DEF block

LEMMA TickKeepsLeaks ==
    ASSUME Passes!WindowOK, RequestSound, LeaksSound, Tick
    PROVE  LeaksSound'
<1>1. /\ now \in Nat /\ now' = now + 1 /\ blocked_until \in Nat
      /\ UNCHANGED <<stage, wake, blocked_until, leaks>>
  BY RequestTypes DEF Tick, block, Passes!WindowOK
<1>2. Slipping' = Slipping
  BY <1>1 DEF Slipping
<1>3. Blocked' => Blocked
  BY <1>1 DEF Blocked
<1> QED
  BY <1>1, <1>2, <1>3 DEF LeaksSound

LEMMA AnswerKeepsLeaks ==
    ASSUME Passes!WindowOK, RequestSound, SemaphoreSound, LeaksSound, NEW r \in Requests,
           Answered(r)
    PROVE  LeaksSound'
<1>1. CASE RecoverAgain(r)
  BY <1>1, WaitKeepsLeaks DEF RecoverAgain
<1>2. CASE BacksOff(r)
  <2>1. /\ leaks' = 0 /\ slot[r] = "held"
        /\ stage' = [stage EXCEPT ![r] = "backoff"]
    BY <1>2 DEF BacksOff, SetBlocked, Move, RequestSound
  <2> QED
    BY <2>1, BlockKeepsLeaks
<1>3. CASE Opens(r) \/ CallFails(r)
  BY <1>3, MoveKeepsLeaks DEF Opens, CallFails, Move
<1>4. CASE \E st \in {429, 500} : Exhausted(r, st)
  <2>1. /\ stage' = [stage EXCEPT ![r] = "ending"] /\ slot[r] = "held"
        /\ now' = now /\ wake' = wake
        /\ leaks' = 0 \/ UNCHANGED block
    BY <1>4 DEF Exhausted, Move, RequestSound, SetBlocked
  <2>2. CASE UNCHANGED block
    BY <2>1, <2>2, MoveKeepsLeaks
  <2>3. CASE leaks' = 0
    BY <2>1, <2>3, BlockKeepsLeaks
  <2> QED
    BY <2>1, <2>2, <2>3
<1> QED
  BY <1>1, <1>2, <1>3, <1>4 DEF Answered

LEMMA LeaksStep ==
    ASSUME Inv, [Next]_vars
    PROVE  LeaksSound'
<1> USE DEF Inv
<1>1. CASE Tick
  BY <1>1, TickKeepsLeaks
<1>2. CASE UNCHANGED vars
  BY <1>2 DEF vars, block, LeaksSound, Blocked, Slipping
<1>3. ASSUME NEW r \in Requests, Arrive(r)
      PROVE  LeaksSound'
  <2>1. CASE SlotFree
    BY <1>3, <2>1, WaitKeepsLeaks DEF Arrive
  <2>2. CASE ~SlotFree
    BY <1>3, <2>2 DEF Arrive, LeaksSound, Blocked, Slipping
  <2> QED
    BY <2>1, <2>2
<1>4. ASSUME NEW r \in Requests, Answered(r)
      PROVE  LeaksSound'
  BY <1>4, AnswerKeepsLeaks
<1>5. ASSUME NEW r \in Requests, Streams(r)
      PROVE  LeaksSound'
  BY <1>5, WaitKeepsLeaks, MoveKeepsLeaks DEF Streams, StreamEnds, Breaks, Recover, Move
<1>6. ASSUME NEW r \in Requests, Continues(r)
      PROVE  LeaksSound'
  <2>1. CASE Resume(r) \/ RetryCall(r) \/ Reopen(r)
    BY <2>1, WaitKeepsLeaks DEF Resume, RetryCall, Reopen
  <2>2. CASE Unblocked(r) \/ WindowAgain(r)
    BY <2>2, PassKeepsLeaks DEF Unblocked, WindowAgain
  <2>3. CASE Finish(r)
    BY <2>3, MoveKeepsLeaks DEF Finish, Move
  <2> QED
    BY <1>6, <2>1, <2>2, <2>3 DEF Continues
<1>7. ASSUME NEW r \in Requests, Leaves(r)
      PROVE  LeaksSound'
  BY <1>7, MoveKeepsLeaks DEF Leaves, DisconnectWaiting, Disconnect, DisconnectOpen, Move
<1> QED
  BY <1>1, <1>2, <1>3, <1>4, <1>5, <1>6, <1>7 DEF Next

-----------------------------------------------------------------------------
LEMMA InitInv == Init => Inv
<1> SUFFICES ASSUME Init
             PROVE  Inv
  OBVIOUS
<1>1. Passes!WindowOK
  BY WindowStarts
<1>2. HasSlot = {} /\ Slipping = {}
  BY DEF Init, HasSlot, Slipping
<1>3. Cardinality(HasSlot) = 0 /\ Cardinality(Slipping) = 0
  BY <1>2, FS_EmptySet
<1>4. SemaphoreSound
  <2>1. free = MaxConcurrency /\ MaxConcurrency + 0 = MaxConcurrency /\ MaxConcurrency \in Nat
    BY ConcurrencyAssumption DEF Init
  <2>2. waiters \in Seq(Requests) /\ DOMAIN waiters = {}
    <3>1. waiters = <<>> /\ <<>> \in Seq(Requests) /\ Len(<<>>) = 0
      BY EmptySeq DEF Init
    <3> QED
      BY <3>1, LenProperties
  <2>3. \A r \in Requests : slot[r] = "none"
    BY DEF Init
  <2>4. WaitersDistinct /\ WaitersExact /\ FreeIsPassedOn
    BY <2>2, <2>3 DEF WaitersDistinct, WaitersExact, FreeIsPassedOn
  <2>5. slot \in [Requests -> {"none", "queued", "handed", "held"}]
    BY DEF Init
  <2> QED
    BY <1>3, <2>1, <2>2, <2>4, <2>5 DEF SemaphoreSound
<1>5. RequestSound
  <2>1. 0 \in 0 .. MaxRetries /\ 0 \in 0 .. MaxReopens
    BY RetriesAssumption
  <2> QED
    BY <2>1 DEF Init, RequestSound, Stages
<1>6. LeaksSound
  <2>1. ~Blocked /\ leaks = 0 /\ 0 < MaxConcurrency
    BY ConcurrencyAssumption DEF Init, Blocked
  <2> QED
    BY <2>1 DEF LeaksSound
<1> QED
  BY <1>1, <1>4, <1>5, <1>6 DEF Inv

LEMMA InvAlways == Spec => []Inv
<1>1. Inv /\ [Next]_vars => Inv'
  BY NextInQuota, SemaphoreStep, RequestStep, LeaksStep DEF Inv
<1> QED
  BY <1>1, InitInv, PTL DEF Spec

\* Every variable keeps its type; in particular the semaphore never counts more
\* slots than there are (concurrency_slot, asyncio.Semaphore).
THEOREM LimiterTypeCorrect == Spec => []TypeOK
<1>1. Inv => TypeOK
  <2> SUFFICES ASSUME Inv
               PROVE  TypeOK
    OBVIOUS
  <2>1. free \in 0 .. MaxConcurrency
    BY SlotsFinite, ConcurrencyAssumption DEF Inv, SemaphoreSound
  <2> QED
    BY <2>1 DEF Inv, Passes!WindowOK, SemaphoreSound, RequestSound, Stages, TypeOK
<1> QED
  BY <1>1, InvAlways, PTL

\* No slot is lost or made up, whoever disconnects while it is handed over, and
\* nobody queues for a slot that nobody passes on (concurrency_slot).
THEOREM SlotsCorrect == Spec => []SlotsConserved
<1>1. Inv => SlotsConserved
  BY DEF Inv, SemaphoreSound, RequestSound, FreeIsPassedOn, SlotsConserved
<1> QED
  BY <1>1, InvAlways, PTL

\* At most one call slips by a block for each of the other slots, whatever the
\* order of blocks, sleeps and passes (wait_if_blocked, set_blocked).
THEOREM LeaksCorrect == Spec => []LeaksBounded
<1>1. Inv => LeaksBounded
  BY DEF Inv, LeaksSound, LeaksBounded
<1> QED
  BY <1>1, InvAlways, PTL
=============================================================================
