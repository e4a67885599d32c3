-------------------------- MODULE KeyRotationProofs --------------------------
(***************************************************************************)
(* What TLAPS proves about KeyRotation for every number of requests, every *)
(* key list and any number of attempts.                                    *)
(***************************************************************************)
EXTENDS KeyRotation, SequenceTheorems, TLAPS

(***************************************************************************)
(* The pool by itself: what an answer does to it keeps its types, and a    *)
(* rotation ends on an index of the pool.                                  *)
(***************************************************************************)
PoolOK ==
    /\ keys \in Seq(KeyIds)
    /\ current \in 1 .. MaxSends
    /\ healthy \in SUBSET KeySet
    /\ exhausted \in SUBSET KeySet

LEMMA PoolFacts ==
    ASSUME PoolOK
    PROVE  /\ Len(keys) \in Nat /\ MaxSends \in Nat \ {0}
           /\ KeySet \subseteq KeyIds
           /\ CurrentKey \in KeyIds \union {NoKey}
           /\ keys # <<>> => /\ current \in 1 .. Len(keys)
                             /\ CurrentKey = keys[current]
                             /\ CurrentKey \in KeySet
           /\ KeySet = {keys[i] : i \in 1 .. Len(keys)}
<1>1. keys \in Seq(KeyIds) /\ Len(keys) \in Nat /\ DOMAIN keys = 1 .. Len(keys)
  BY LenProperties DEF PoolOK
<1>2. KeySet = {keys[i] : i \in 1 .. Len(keys)}
  BY <1>1 DEF KeySet, ToSet
<1>3. \A i \in 1 .. Len(keys) : keys[i] \in KeyIds
  BY <1>1, ElementOfSeq
<1>4. keys # <<>> => Len(keys) > 0
  BY <1>1, EmptySeq
<1> QED
  BY <1>1, <1>2, <1>3, <1>4 DEF PoolOK, MaxSends, CurrentKey

LEMMA AheadFacts ==
    ASSUME PoolOK, keys # <<>>, NEW d \in 1 .. Len(keys)
    PROVE  /\ Ahead(d) \in 1 .. Len(keys)
           /\ Ahead(d) = current <=> d = Len(keys)
<1>1. Len(keys) \in Nat /\ current \in 1 .. Len(keys)
  BY PoolFacts
<1> QED
  BY <1>1 DEF Ahead

LEMMA BlameKeyTypes ==
    ASSUME PoolOK, NEW st \in Refusals, BlameKey(st), keys' = keys
    PROVE  /\ PoolOK'
           /\ healthy' \subseteq healthy /\ exhausted \subseteq exhausted'
           /\ keys # <<>> => CurrentKey \notin healthy'
           /\ keys # <<>> /\ st = "out_of_credit" => CurrentKey \in exhausted'
           /\ exhausted' \ exhausted \subseteq {CurrentKey}
<1>1. KeySet' = KeySet /\ MaxSends' = MaxSends
  BY DEF KeySet, MaxSends
<1>2. CASE keys = <<>>
  BY <1>1, <1>2 DEF PoolOK, BlameKey, MarkExhausted, RotateKey
<1>3. CASE keys # <<>> /\ st = "out_of_credit"
  BY <1>1, <1>3, PoolFacts DEF PoolOK, BlameKey, MarkExhausted
<1>4. CASE keys # <<>> /\ st # "out_of_credit"
  <2>1. /\ healthy' = healthy \ {CurrentKey} /\ exhausted' = exhausted
        /\ \E d \in 1 .. Len(keys) : current' = Ahead(d)
    BY <1>4 DEF BlameKey, RotateKey
  <2>2. current' \in 1 .. Len(keys)
    BY <1>4, <2>1, AheadFacts
  <2> QED
    BY <1>1, <1>4, <2>1, <2>2 DEF PoolOK, MaxSends
<1> QED
  BY <1>2, <1>3, <1>4

-----------------------------------------------------------------------------
RequestsOK ==
    /\ pc \in [Requests -> {"idle", "sending", "closing", "backoff", "streaming", "failed"}]
    /\ kind \in [Requests -> {"messages", "models"}]
    /\ sent \in [Requests -> KeyIds \union {NoKey}]
    /\ left \in [Requests -> Nat]
    /\ attempts \in [Requests -> Nat]
    /\ refusals \in [Requests -> SUBSET ((KeyIds \union {NoKey}) \X Refusals)]
    /\ disturbed \subseteq Requests

(***************************************************************************)
(* TypeOK alone is not inductive: a back-off must have an attempt left to  *)
(* count down.                                                             *)
(***************************************************************************)
BackoffCounts == \A r \in Requests : pc[r] = "backoff" => attempts[r] > 0

TypeInv == PoolOK /\ RequestsOK /\ BackoffCounts

LEMMA TypeInvIsTypeOK == TypeInv => TypeOK
  BY DEF TypeInv, TypeOK, PoolOK, RequestsOK

LEMMA TypeInvStep ==
    ASSUME TypeInv, NEW r \in Requests,
           (\E k \in {"messages", "models"} : Begin(r, k))
              \/ Answered(r) \/ Continues(r) \/ Done(r)
    PROVE  TypeInv'
<1> USE DEF RequestsOK, BackoffCounts
<1>1. PoolOK /\ RequestsOK /\ BackoffCounts
  BY DEF TypeInv
<1>2. ASSUME UNCHANGED pool, RequestsOK', BackoffCounts'
      PROVE  TypeInv'
  BY <1>1, <1>2 DEF pool, PoolOK, KeySet, MaxSends, TypeInv
<1>3. MaxSends \in Nat \ {0} /\ CurrentKey \in KeyIds \union {NoKey}
  BY <1>1, PoolFacts
<1>4. ASSUME NEW k \in {"messages", "models"}, Begin(r, k)
      PROVE  TypeInv'
  BY <1>1, <1>2, <1>3, <1>4, AttemptsAssumption DEF Begin, StartLoop
<1>5. ASSUME NEW st \in Refusals, Refused(r, st) \/ ListRefused(r, st)
      PROVE  TypeInv'
  <2>1. Refuse(r, st) /\ keys' = keys
    BY <1>5 DEF Refused, ListRefused, Refuse
  <2>2. PoolOK'
    BY <1>1, <2>1, BlameKeyTypes DEF Refuse
  <2>3. /\ refusals' \in [Requests -> SUBSET ((KeyIds \union {NoKey}) \X Refusals)]
        /\ disturbed' \subseteq Requests
        /\ UNCHANGED <<kind, attempts>>
    BY <1>1, <2>1 DEF Refuse
  <2>4. CASE Refused(r, st)
    BY <1>1, <2>2, <2>3, <2>4 DEF Refused, TypeInv
  <2>5. CASE ListRefused(r, st)
    <3>1. CurrentKey' \in KeyIds \union {NoKey}
      <4>1. CurrentKey' = IF keys = <<>> THEN NoKey ELSE keys[current']
        BY <2>1 DEF CurrentKey
      <4>2. keys # <<>> => current' \in 1 .. Len(keys)
        BY <2>1, <2>2 DEF PoolOK, MaxSends
      <4>3. keys \in Seq(KeyIds) /\ DOMAIN keys = 1 .. Len(keys)
        BY <1>1, LenProperties DEF PoolOK
      <4> QED
        BY <4>1, <4>2, <4>3, ElementOfSeq
    <3>2. CASE left[r] > 0
      <4>1. /\ pc' = [pc EXCEPT ![r] = "sending"]
            /\ sent' = [sent EXCEPT ![r] = CurrentKey']
            /\ left' = [left EXCEPT ![r] = left[r] - 1]
        BY <2>5, <3>2 DEF ListRefused, SendAgain
      <4>2. RequestsOK'
        BY <1>1, <2>3, <3>1, <3>2, <4>1
      <4>3. BackoffCounts'
        BY <1>1, <2>3, <4>1
      <4> QED
        BY <2>2, <4>2, <4>3 DEF TypeInv
    <3>3. CASE ~(left[r] > 0)
      BY <1>1, <2>2, <2>3, <2>5, <3>3 DEF ListRefused, TypeInv
    <3> QED
      BY <3>2, <3>3
  <2> QED
    BY <1>5, <2>4, <2>5
<1>6. CASE Accepted(r) \/ \E st \in Failures : Errs(r, st)
  BY <1>1, <1>2, <1>6 DEF Accepted, Errs, EndLoop
<1>7. CASE Resend(r)
  <2>1. CurrentKey' = CurrentKey
    BY <1>7 DEF Resend, pool, CurrentKey
  <2> QED
    BY <1>1, <1>2, <1>3, <1>7, <2>1 DEF Resend, SendAgain
<1>8. CASE GivesUp(r) \/ Done(r)
  BY <1>1, <1>2, <1>8 DEF GivesUp, Done, EndLoop
<1>9. CASE Retry(r)
  BY <1>1, <1>2, <1>3, <1>9 DEF Retry, StartLoop
<1> QED
  BY <1>4, <1>5, <1>6, <1>7, <1>8, <1>9 DEF Answered, Continues

LEMMA TypeInvInit == Init => TypeInv
<1> SUFFICES ASSUME Init
             PROVE  TypeInv
  OBVIOUS
<1>1. keys \in Seq(KeyIds) /\ Len(keys) \in Nat /\ (keys # <<>> => Len(keys) > 0)
  BY KeyFilesAssumption, LenProperties, EmptySeq DEF Init
<1>2. PoolOK
  BY <1>1 DEF Init, PoolOK, MaxSends
<1>3. RequestsOK /\ BackoffCounts
  BY DEF Init, RequestsOK, BackoffCounts, Refusals
<1> QED
  BY <1>2, <1>3 DEF TypeInv

LEMMA TypeInvAlways == Spec => []TypeInv
<1>1. TypeInv /\ [Next]_vars => TypeInv'
  <2> SUFFICES ASSUME TypeInv, [Next]_vars
               PROVE  TypeInv'
    OBVIOUS
  <2>1. CASE UNCHANGED vars
    BY <2>1 DEF TypeInv, PoolOK, RequestsOK, BackoffCounts, KeySet, MaxSends, vars, pool, requests
  <2>2. CASE Next
    BY <2>2, TypeInvStep DEF Next
  <2> QED
    BY <2>1, <2>2
<1> QED
  BY <1>1, TypeInvInit, PTL DEF Spec

(***************************************************************************)
(* Type correctness: whoever rotates when, the current index stays inside  *)
(* the pool, and the books are kept about keys of the pool.                *)
(***************************************************************************)
THEOREM PoolTypeCorrect == Spec => []TypeOK
  BY TypeInvAlways, TypeInvIsTypeOK, PTL

-----------------------------------------------------------------------------
(***************************************************************************)
(* A key is never counted both healthy and exhausted.                      *)
(***************************************************************************)
THEOREM StatusDisjointCorrect == Spec => []StatusDisjoint
<1>1. Init => StatusDisjoint
  BY DEF Init, StatusDisjoint
<1>2. StatusDisjoint /\ TypeInv /\ [Next]_vars => StatusDisjoint'
  <2> SUFFICES ASSUME StatusDisjoint, TypeInv, [Next]_vars
               PROVE  StatusDisjoint'
    OBVIOUS
  <2>1. CASE UNCHANGED <<healthy, exhausted>>
    BY <2>1 DEF StatusDisjoint
  <2>2. ASSUME NEW st \in Refusals, BlameKey(st)
        PROVE  StatusDisjoint'
    BY <2>2 DEF StatusDisjoint, BlameKey, MarkExhausted, RotateKey
  <2> QED
    BY <2>1, <2>2
       DEF vars, pool, Next, Begin, Answered, Accepted, Refused, ListRefused, Refuse, Errs,
           Continues, Resend, GivesUp, Retry, Done
<1>3. Spec => []TypeInv
  BY TypeInvAlways
<1> QED
  BY <1>1, <1>2, <1>3, PTL DEF Spec

(***************************************************************************)
(* The step that touches the pool is always one answer's.                  *)
(***************************************************************************)
LEMMA PoolSteps ==
    ASSUME [Next]_vars
    PROVE  \/ UNCHANGED pool
           \/ keys' = keys /\ \E st \in Refusals : BlameKey(st)
  BY DEF vars, pool, Next, Begin, Answered, Accepted, Refused, ListRefused, Refuse, Errs,
         Continues, Resend, GivesUp, Retry, Done

(***************************************************************************)
(* The pool moves only to a key that is not exhausted, and a rotation that *)
(* leaves the index where it was found every other key exhausted.          *)
(***************************************************************************)
THEOREM RotationCorrect == Spec => RotationSound
<1> DEFINE Sound ==
        /\ current' # current => CurrentKey' \notin exhausted
        /\ current' = current /\ healthy' # healthy /\ exhausted' = exhausted =>
              \A k \in KeySet \ {CurrentKey} : k \in exhausted
<1>1. ASSUME PoolOK, StatusDisjoint, [Next]_vars
      PROVE  Sound
  <2>1. CASE UNCHANGED pool
    BY <2>1 DEF pool
  <2>2. ASSUME NEW st \in Refusals, BlameKey(st), keys' = keys
        PROVE  Sound
    <3>1. CASE keys = <<>>
      BY <2>2, <3>1 DEF BlameKey, MarkExhausted, RotateKey
    <3>2. CASE keys # <<>> /\ st = "out_of_credit"
      BY <1>1, <2>2, <3>2 DEF BlameKey, MarkExhausted, StatusDisjoint
    <3>3. CASE keys # <<>> /\ st # "out_of_credit"
      <4>1. PICK d \in 1 .. Len(keys) :
              /\ keys[Ahead(d)] \notin exhausted \/ d = Len(keys)
              /\ \A e \in 1 .. d - 1 : keys[Ahead(e)] \in exhausted
              /\ current' = Ahead(d)
        BY <2>2, <3>3 DEF BlameKey, RotateKey
      <4>2. /\ Len(keys) \in Nat /\ current \in 1 .. Len(keys) /\ CurrentKey = keys[current]
            /\ KeySet = {keys[i] : i \in 1 .. Len(keys)}
        BY <1>1, <3>3, PoolFacts
      <4>3. Ahead(d) = current <=> d = Len(keys)
        BY <1>1, <3>3, AheadFacts
      <4>4. CurrentKey' = keys[current']
        BY <2>2, <3>3 DEF CurrentKey
      <4>5. ASSUME d = Len(keys), NEW i \in 1 .. Len(keys), i # current
            PROVE  keys[i] \in exhausted
        <5> DEFINE e == IF i > current THEN i - current ELSE i - current + Len(keys)
        <5>1. e \in 1 .. d - 1 /\ Ahead(e) = i
          BY <4>2, <4>5 DEF Ahead
        <5> QED
          BY <4>1, <5>1
      <4> QED
        BY <4>1, <4>2, <4>3, <4>4, <4>5
    <3> QED
      BY <3>1, <3>2, <3>3
  <2> QED
    BY <1>1, <2>1, <2>2, PoolSteps
<1>2. Spec => []PoolOK
  <2>1. TypeInv => PoolOK
    BY DEF TypeInv
  <2> QED
    BY <2>1, TypeInvAlways, PTL
<1>3. PoolOK /\ StatusDisjoint /\ [Next]_vars => [Sound]_vars
  BY <1>1
<1> QED
  BY <1>2, <1>3, StatusDisjointCorrect, PTL DEF Spec, RotationSound


-----------------------------------------------------------------------------
(***************************************************************************)
(* A request in whose loop nobody else moved the pool finds, when it is    *)
(* refused, the key it was sent with still current: the right key is       *)
(* blamed.  One refusal of another request is enough to break it, and      *)
(* marks the request as disturbed.                                         *)
(***************************************************************************)
SentIsCurrent ==
    \A r \in Requests \ disturbed : pc[r] = "sending" => sent[r] = CurrentKey
BlameInv == SentIsCurrent /\ RefusedAreBlamed

LEMMA BlameStep ==
    ASSUME NEW q \in Requests, TypeInv, BlameInv,
           (\E k \in {"messages", "models"} : Begin(q, k))
              \/ Answered(q) \/ Continues(q) \/ Done(q)
    PROVE  BlameInv'
<1>1. PoolOK /\ RequestsOK
  BY DEF TypeInv
<1>2. ASSUME UNCHANGED pool, refusals'[q] \subseteq refusals[q],
             q \notin disturbed' => q \notin disturbed \/ refusals'[q] = {},
             pc'[q] = "sending" /\ q \notin disturbed' => sent'[q] = CurrentKey,
             \A r \in Requests \ {q} :
                /\ UNCHANGED <<pc[r], sent[r], refusals[r]>>
                /\ r \in disturbed => r \in disturbed'
      PROVE  BlameInv'
  <2>1. CurrentKey' = CurrentKey
    BY <1>2 DEF pool, CurrentKey
  <2>2. SentIsCurrent'
    BY <1>2, <2>1 DEF BlameInv, SentIsCurrent
  <2>3. RefusedAreBlamed'
    BY <1>2 DEF pool, BlameInv, RefusedAreBlamed
  <2> QED
    BY <2>2, <2>3 DEF BlameInv
<1>3. CASE (\E k \in {"messages", "models"} : Begin(q, k)) \/ Retry(q)
  BY <1>1, <1>2, <1>3 DEF Begin, Retry, StartLoop, RequestsOK
<1>4. CASE Accepted(q) \/ \E st \in Failures : Errs(q, st)
  BY <1>1, <1>2, <1>4 DEF Accepted, Errs, EndLoop, RequestsOK
<1>5. CASE GivesUp(q) \/ Done(q)
  BY <1>1, <1>2, <1>5 DEF GivesUp, Done, EndLoop, RequestsOK
<1>6. CASE Resend(q)
  <2>1. CurrentKey' = CurrentKey
    BY <1>6 DEF Resend, pool, CurrentKey
  <2> QED
    BY <1>1, <1>2, <1>6, <2>1 DEF Resend, SendAgain, RequestsOK
<1>7. ASSUME NEW st \in Refusals, Refused(q, st) \/ ListRefused(q, st)
      PROVE  BlameInv'
  <2>1. /\ pc[q] = "sending" /\ BlameKey(st) /\ keys' = keys
        /\ refusals' = [refusals EXCEPT ![q] = @ \union {<<sent[q], st>>}]
        /\ disturbed' = disturbed \union {r \in Requests \ {q} : InLoop(r)}
    BY <1>7 DEF Refused, ListRefused, Refuse
  <2>2. q \notin disturbed => sent[q] = CurrentKey
    BY <2>1 DEF BlameInv, SentIsCurrent
  <2>3. /\ healthy' \subseteq healthy /\ exhausted \subseteq exhausted'
        /\ keys # <<>> => CurrentKey \notin healthy'
        /\ keys # <<>> /\ st = "out_of_credit" => CurrentKey \in exhausted'
    BY <1>1, <2>1, BlameKeyTypes
  <2>4. keys = <<>> => CurrentKey = NoKey
    BY DEF CurrentKey
  <2>5. ASSUME NEW r \in Requests, r \notin disturbed', NEW a \in refusals'[r], a[1] # NoKey
        PROVE  a[1] \notin healthy' /\ (a[2] = "out_of_credit" => a[1] \in exhausted')
    <3>1. r \notin disturbed
      BY <2>1, <2>5
    <3>2. CASE a \in refusals[r]
      BY <2>3, <2>5, <3>1, <3>2 DEF BlameInv, RefusedAreBlamed
    <3>3. CASE a \notin refusals[r]
      <4>1. r = q /\ a = <<CurrentKey, st>>
        BY <1>1, <2>1, <2>2, <2>5, <3>1, <3>3 DEF RequestsOK
      <4> QED
        BY <2>3, <2>4, <2>5, <4>1
    <3> QED
      BY <3>2, <3>3
  <2>6. RefusedAreBlamed'
    BY <2>5 DEF RefusedAreBlamed
  <2>7. ASSUME NEW r \in Requests, r \notin disturbed', pc'[r] = "sending"
        PROVE  sent'[r] = CurrentKey'
    <3>1. r = q
      BY <1>1, <1>7, <2>1, <2>7 DEF Refused, ListRefused, SendAgain, RequestsOK, InLoop
    <3> QED
      BY <1>1, <1>7, <2>7, <3>1 DEF Refused, ListRefused, SendAgain, RequestsOK
  <2>8. SentIsCurrent'
    BY <2>7 DEF SentIsCurrent
  <2> QED
    BY <2>6, <2>8 DEF BlameInv
<1> QED
  BY <1>3, <1>4, <1>5, <1>6, <1>7 DEF Answered, Continues

(***************************************************************************)
(* What the keys answered in a loop that nobody disturbed is what the pool *)
(* blames them for, over any list of keys, repeated ones included, and     *)
(* however many requests there are.                                        *)
(***************************************************************************)
THEOREM BlameCorrect == Spec => []RefusedAreBlamed
<1>1. Init => BlameInv
  BY DEF Init, BlameInv, SentIsCurrent, RefusedAreBlamed
<1>2. TypeInv /\ BlameInv /\ [Next]_vars => BlameInv'
  <2> SUFFICES ASSUME TypeInv, BlameInv, [Next]_vars
               PROVE  BlameInv'
    OBVIOUS
  <2>1. CASE UNCHANGED vars
    BY <2>1 DEF vars, pool, requests, BlameInv, SentIsCurrent, RefusedAreBlamed, CurrentKey
  <2>2. CASE Next
    BY <2>2, BlameStep DEF Next
  <2> QED
    BY <2>1, <2>2
<1>3. BlameInv => RefusedAreBlamed
  BY DEF BlameInv
<1> QED
  BY <1>1, <1>2, <1>3, TypeInvAlways, PTL DEF Spec

-----------------------------------------------------------------------------
(***************************************************************************)
(* Why AllKeysTried holds.  While only rotations answer the refusals of an *)
(* undisturbed loop, the keys of the places behind the current one, as     *)
(* many as the loop has sends behind it, are covered: exhausted, or asked  *)
(* in this loop.  The last send of the loop makes it all of them.          *)
(***************************************************************************)
Behind(e) == IF e < current THEN current - e ELSE current - e + Len(keys)
Covered(r, k) == k \in exhausted \/ \E st \in Refusals : <<k, st>> \in refusals[r]
OnlyRotated(r) == \A k \in KeySet : <<k, "out_of_credit">> \notin refusals[r]
SendsBehind(r) == MaxSends - left[r] - (IF pc[r] = "sending" THEN 1 ELSE 0)

SendsCounted == \A r \in Requests : InLoop(r) => left[r] < MaxSends
LoopCovers ==
    \A r \in Requests \ disturbed :
        InLoop(r) /\ keys # <<>> /\ OnlyRotated(r) =>
            \A e \in 1 .. SendsBehind(r) : Covered(r, keys[Behind(e)])
FailureCovers ==
    \A r \in Requests \ disturbed :
        pc[r] = "failed" /\ refusals[r] # {} /\ OnlyRotated(r) =>
            \A k \in KeySet : Covered(r, k)
TriedInv == SendsCounted /\ LoopCovers /\ FailureCovers

(***************************************************************************)
(* One rotation, however far it goes, adds the key it left to the covered  *)
(* places behind the current one: what it skipped is exhausted.            *)
(***************************************************************************)
LEMMA RotationCovers ==
    ASSUME PoolOK, keys # <<>>, RotateKey, keys' = keys, exhausted' = exhausted,
           NEW S, NEW m \in Nat, m < Len(keys),
           \A e \in 1 .. m : keys[Behind(e)] \in S,
           exhausted \subseteq S, CurrentKey \in S
    PROVE  \A e \in 1 .. m + 1 : keys[Behind(e)'] \in S
<1>1. /\ Len(keys) \in Nat /\ current \in 1 .. Len(keys) /\ CurrentKey = keys[current]
  BY PoolFacts
<1>2. PICK d \in 1 .. Len(keys) :
        /\ \A e \in 1 .. d - 1 : keys[Ahead(e)] \in exhausted
        /\ current' = Ahead(d)
  BY DEF RotateKey
<1> TAKE e \in 1 .. m + 1
<1>3. CASE e < d
  <2>1. Behind(e)' = Ahead(d - e) /\ d - e \in 1 .. d - 1
    BY <1>1, <1>2, <1>3 DEF Behind, Ahead
  <2> QED
    BY <1>2, <2>1
<1>4. CASE e = d
  <2>1. Behind(e)' = current
    BY <1>1, <1>2, <1>4 DEF Behind, Ahead
  <2> QED
    BY <1>1, <2>1
<1>5. CASE e > d
  <2>1. Behind(e)' = Behind(e - d) /\ e - d \in 1 .. m
    BY <1>1, <1>2, <1>5 DEF Behind, Ahead
  <2> QED
    BY <2>1
<1> QED
  BY <1>1, <1>2, <1>3, <1>4, <1>5

(***************************************************************************)
(* All the places behind the current one are all the places.               *)
(***************************************************************************)
LEMMA AllBehind ==
    ASSUME PoolOK, keys # <<>>, NEW S, \A e \in 1 .. Len(keys) : keys[Behind(e)] \in S
    PROVE  KeySet \subseteq S
<1>1. /\ Len(keys) \in Nat /\ current \in 1 .. Len(keys)
      /\ KeySet = {keys[i] : i \in 1 .. Len(keys)}
  BY PoolFacts
<1>2. ASSUME NEW i \in 1 .. Len(keys)
      PROVE  keys[i] \in S
  <2> DEFINE e == IF i < current THEN current - i ELSE current - i + Len(keys)
  <2>1. e \in 1 .. Len(keys) /\ Behind(e) = i
    BY <1>1 DEF Behind
  <2> QED
    BY <2>1
<1> QED
  BY <1>1, <1>2

(***************************************************************************)
(* A step that leaves the pool alone and starts, ends or only continues    *)
(* the loop of q.                                                          *)
(***************************************************************************)
LEMMA QuietKeepsTried ==
    ASSUME TypeInv, TriedInv, NEW q \in Requests, UNCHANGED pool,
           \A r \in Requests \ {q} :
               /\ UNCHANGED <<pc[r], left[r], refusals[r]>>
               /\ r \in disturbed => r \in disturbed',
           InLoop(q)' => /\ left'[q] < MaxSends
                         /\ \/ SendsBehind(q)' = 0
                            \/ InLoop(q) /\ UNCHANGED <<refusals[q], disturbed, SendsBehind(q)>>,
           pc'[q] = "failed" =>
               \/ refusals'[q] = {}
               \/ pc[q] = "closing" /\ left[q] = 0 /\ UNCHANGED <<refusals[q], disturbed>>
    PROVE  TriedInv'
<1>1. PoolOK /\ RequestsOK
  BY DEF TypeInv
<1>2. /\ KeySet' = KeySet /\ MaxSends' = MaxSends
      /\ \A e : Behind(e)' = Behind(e)
      /\ keys' = keys /\ exhausted' = exhausted
  BY DEF pool, KeySet, MaxSends, Behind
<1>3. SendsCounted'
  BY <1>2 DEF TriedInv, SendsCounted, InLoop
<1>4. ASSUME NEW r \in Requests, r \notin disturbed', r \notin disturbed,
             UNCHANGED refusals[r], OnlyRotated(r)'
      PROVE  /\ OnlyRotated(r)
             /\ \A k : Covered(r, k) => Covered(r, k)'
  BY <1>2, <1>4 DEF OnlyRotated, Covered
<1>5. ASSUME NEW r \in Requests, r \notin disturbed', InLoop(r)', keys # <<>>, OnlyRotated(r)',
             NEW e \in 1 .. SendsBehind(r)'
      PROVE  Covered(r, keys[Behind(e)])'
  <2>1. SendsBehind(r)' # 0
    BY DEF SendsBehind
  <2>2. r \notin disturbed /\ InLoop(r) /\ UNCHANGED <<refusals[r], SendsBehind(r)>>
    BY <1>2, <1>5, <2>1 DEF InLoop, SendsBehind
  <2>3. Covered(r, keys[Behind(e)])
    BY <1>4, <1>5, <2>2 DEF TriedInv, LoopCovers
  <2> QED
    BY <1>2, <1>4, <1>5, <2>2, <2>3
<1>6. ASSUME NEW r \in Requests, r \notin disturbed', pc'[r] = "failed", refusals'[r] # {},
             OnlyRotated(r)', NEW k \in KeySet
      PROVE  Covered(r, k)'
  <2>1. CASE r # q
    <3>1. OnlyRotated(r) /\ (Covered(r, k) => Covered(r, k)')
      BY <1>4, <1>6, <2>1
    <3> QED
      BY <1>6, <2>1, <3>1 DEF TriedInv, FailureCovers
  <2>2. CASE r = q
    <3>1. /\ pc[q] = "closing" /\ left[q] = 0 /\ q \notin disturbed /\ UNCHANGED refusals[q]
      BY <1>6, <2>2
    <3>2. OnlyRotated(q) /\ \A x : Covered(q, x) => Covered(q, x)'
      BY <1>4, <1>6, <2>2, <3>1
    <3>3. keys # <<>> /\ Len(keys) \in Nat /\ SendsBehind(q) = Len(keys)
      BY <1>1, <3>1, PoolFacts, EmptySeq DEF SendsBehind, MaxSends
    <3>4. \A e \in 1 .. Len(keys) : Covered(q, keys[Behind(e)])
      BY <3>1, <3>2, <3>3 DEF TriedInv, LoopCovers, InLoop
    <3> DEFINE S == {x \in KeySet : Covered(q, x)}
    <3>5. \A e \in 1 .. Len(keys) : keys[Behind(e)] \in S
      BY <1>1, <3>3, <3>4, PoolFacts DEF Behind
    <3>6. KeySet \subseteq S
      <4> HIDE DEF S
      <4> QED
        BY <1>1, <3>3, <3>5, AllBehind
    <3> QED
      BY <2>2, <3>2, <3>6
  <2> QED
    BY <2>1, <2>2
<1>7. LoopCovers'
  BY <1>2, <1>5 DEF LoopCovers
<1>8. FailureCovers'
  BY <1>2, <1>6 DEF FailureCovers
<1> QED
  BY <1>3, <1>7, <1>8 DEF TriedInv

(***************************************************************************)
(* A refused send of q: it disturbs the loops of the others, and in its    *)
(* own adds its key to the places behind the current one.                  *)
(***************************************************************************)
LEMMA RefusalKeepsTried ==
    ASSUME TypeInv, BlameInv, TriedInv, NEW q \in Requests, NEW st \in Refusals,
           Refused(q, st) \/ ListRefused(q, st)
    PROVE  TriedInv'
<1>1. PoolOK /\ RequestsOK
  BY DEF TypeInv
<1>2. /\ pc[q] = "sending" /\ BlameKey(st) /\ keys' = keys
      /\ refusals' = [refusals EXCEPT ![q] = @ \union {<<sent[q], st>>}]
      /\ disturbed' = disturbed \union {r \in Requests \ {q} : InLoop(r)}
  BY DEF Refused, ListRefused, Refuse
<1>3. /\ KeySet' = KeySet /\ MaxSends' = MaxSends /\ MaxSends \in Nat \ {0}
      /\ exhausted \subseteq exhausted'
  BY <1>1, <1>2, PoolFacts, BlameKeyTypes DEF KeySet, MaxSends
<1>4. /\ \A r \in Requests \ {q} : UNCHANGED <<pc[r], left[r], refusals[r]>>
      /\ left[q] \in Nat /\ left[q] < MaxSends
      /\ \/ pc'[q] = "closing" /\ left'[q] = left[q]
         \/ pc'[q] = "sending" /\ left'[q] = left[q] - 1 /\ left[q] > 0
         \/ pc'[q] = "failed" /\ left'[q] = left[q] /\ left[q] = 0
  BY <1>1, <1>2 DEF Refused, ListRefused, SendAgain, RequestsOK, TriedInv, SendsCounted, InLoop
<1>5. SendsCounted'
  BY <1>1, <1>3, <1>4 DEF TriedInv, SendsCounted, InLoop, RequestsOK
<1>6. ASSUME q \notin disturbed', keys # <<>>, OnlyRotated(q)', pc'[q] # "failed"
      PROVE  SendsBehind(q)' = MaxSends - left[q]
  BY <1>3, <1>4 DEF SendsBehind
<1>7. ASSUME q \notin disturbed', keys # <<>>, OnlyRotated(q)',
             NEW e \in 1 .. MaxSends - left[q]
      PROVE  Covered(q, keys[Behind(e)])'
  <2> DEFINE S == {x \in KeySet : Covered(q, x)'}
  <2>1. sent[q] = CurrentKey /\ q \notin disturbed
    BY <1>2, <1>7 DEF BlameInv, SentIsCurrent
  <2>2. CurrentKey \in KeySet /\ st # "out_of_credit" /\ <<CurrentKey, st>> \in refusals'[q]
    BY <1>1, <1>2, <1>3, <1>7, <2>1, PoolFacts DEF OnlyRotated, RequestsOK
  <2>3. RotateKey /\ exhausted' = exhausted
    BY <1>2, <2>2 DEF BlameKey
  <2>4. OnlyRotated(q) /\ \A k : Covered(q, k) => Covered(q, k)'
    BY <1>1, <1>2, <1>3, <1>7 DEF OnlyRotated, Covered, RequestsOK
  <2> DEFINE m == MaxSends - left[q] - 1
  <2>5. m \in Nat /\ m < Len(keys) /\ SendsBehind(q) = m /\ Len(keys) \in Nat
    BY <1>1, <1>2, <1>3, <1>4, <1>7, PoolFacts DEF SendsBehind, MaxSends
  <2>6. \A i \in 1 .. m : keys[Behind(i)] \in S
    <3>1. \A i \in 1 .. m : Covered(q, keys[Behind(i)])
      BY <1>2, <1>7, <2>1, <2>4, <2>5 DEF TriedInv, LoopCovers, InLoop
    <3>2. \A i \in 1 .. m : keys[Behind(i)] \in KeySet
      BY <1>1, <1>7, <2>5, PoolFacts DEF Behind
    <3> QED
      BY <2>4, <3>1, <3>2
  <2>7. exhausted \subseteq S /\ CurrentKey \in S
    BY <1>1, <2>2, <2>3 DEF Covered, PoolOK
  <2>8. \A i \in 1 .. m + 1 : keys[Behind(i)'] \in S
    <3> HIDE DEF S, m
    <3> QED
      BY <1>1, <1>2, <1>7, <2>3, <2>5, <2>6, <2>7, RotationCovers
  <2>9. e \in 1 .. m + 1
    BY <1>3, <1>4, <1>7
  <2>10. keys[Behind(e)'] \in S
    BY <2>8, <2>9
  <2> QED
    BY <1>2, <2>10
<1>8. LoopCovers'
  <2> SUFFICES ASSUME NEW r \in Requests, r \notin disturbed', InLoop(r)', keys' # <<>>,
                      OnlyRotated(r)', NEW e \in 1 .. SendsBehind(r)'
               PROVE  Covered(r, keys[Behind(e)])'
    BY DEF LoopCovers
  <2>1. r = q
    BY <1>2, <1>4 DEF InLoop
  <2> QED
    BY <1>2, <1>6, <1>7, <2>1 DEF InLoop
<1>9. FailureCovers'
  <2> SUFFICES ASSUME NEW r \in Requests, r \notin disturbed', pc'[r] = "failed",
                      refusals'[r] # {}, OnlyRotated(r)', NEW k \in KeySet
               PROVE  Covered(r, k)'
    BY <1>3 DEF FailureCovers
  <2>1. CASE r = q
    <3>1. keys # <<>> /\ left[q] = 0 /\ MaxSends = Len(keys) /\ Len(keys) \in Nat /\ PoolOK'
      BY <1>1, <1>2, <1>4, <2>1, PoolFacts, BlameKeyTypes, EmptySeq DEF MaxSends
    <3> DEFINE S == {x \in KeySet : Covered(q, x)'}
    <3>2. \A e \in 1 .. Len(keys) : keys[Behind(e)'] \in KeySet
      <4>1. /\ current' \in 1 .. Len(keys) /\ KeySet = {keys[i] : i \in 1 .. Len(keys)}
            /\ \A e : Behind(e)' = IF e < current' THEN current' - e ELSE current' - e + Len(keys)
        BY <1>1, <1>2, <3>1, PoolFacts DEF Behind, PoolOK, MaxSends
      <4>2. \A e \in 1 .. Len(keys) : Behind(e)' \in 1 .. Len(keys)
        BY <3>1, <4>1
      <4> QED
        BY <4>1, <4>2
    <3>3. \A e \in 1 .. Len(keys) : keys[Behind(e)'] \in S
      BY <1>2, <1>7, <2>1, <3>1, <3>2
    <3>4. KeySet \subseteq S
      <4> HIDE DEF S
      <4>1. ASSUME NEW i \in 1 .. Len(keys)
            PROVE  keys[i] \in S
        <5>1. PICK c \in 1 .. Len(keys) : c = current'
          BY <1>2, <3>1 DEF PoolOK, MaxSends
        <5>2. PICK e \in 1 .. Len(keys) : e = IF i < c THEN c - i ELSE c - i + Len(keys)
          <6>1. (IF i < c THEN c - i ELSE c - i + Len(keys)) \in 1 .. Len(keys)
            BY <3>1
          <6> QED
            BY <6>1
        <5>3. Behind(e)' = IF e < c THEN c - e ELSE c - e + Len(keys)
          BY <1>2, <5>1 DEF Behind
        <5>4. Behind(e)' = i
          BY <3>1, <5>2, <5>3
        <5> QED
          BY <3>3, <5>4
      <4> QED
        BY <1>1, <4>1, PoolFacts
    <3> QED
      BY <2>1, <3>4
  <2>2. CASE r # q
    <3>1. r \notin disturbed /\ pc[r] = "failed" /\ UNCHANGED refusals[r]
      BY <1>2, <1>4, <2>2
    <3>2. OnlyRotated(r) /\ Covered(r, k)
      BY <1>3, <3>1 DEF TriedInv, FailureCovers, OnlyRotated
    <3> QED
      BY <1>3, <3>1, <3>2 DEF Covered
  <2> QED
    BY <2>1, <2>2
<1> QED
  BY <1>5, <1>8, <1>9 DEF TriedInv

LEMMA TriedStep ==
    ASSUME NEW q \in Requests, TypeInv, BlameInv, TriedInv,
           (\E k \in {"messages", "models"} : Begin(q, k))
              \/ Answered(q) \/ Continues(q) \/ Done(q)
    PROVE  TriedInv'
<1>1. PoolOK /\ RequestsOK /\ MaxSends \in Nat \ {0}
  BY PoolFacts DEF TypeInv
<1>2. ASSUME UNCHANGED pool
      PROVE  MaxSends' = MaxSends
  BY <1>2 DEF pool, MaxSends
<1>3. CASE (\E k \in {"messages", "models"} : Begin(q, k)) \/ Retry(q)
  <2>1. /\ UNCHANGED pool /\ pc' = [pc EXCEPT ![q] = "sending"]
        /\ left' = [left EXCEPT ![q] = MaxSends - 1]
        /\ refusals' = [refusals EXCEPT ![q] = {}]
        /\ disturbed' = disturbed \ {q}
    BY <1>3 DEF Begin, Retry, StartLoop
  <2>2. SendsBehind(q)' = 0 /\ left'[q] < MaxSends /\ pc'[q] = "sending"
    BY <1>1, <1>2, <2>1 DEF SendsBehind, RequestsOK
  <2>3. \A r \in Requests \ {q} : /\ UNCHANGED <<pc[r], left[r], refusals[r]>>
                                  /\ r \in disturbed => r \in disturbed'
    BY <1>1, <2>1 DEF RequestsOK
  <2> QED
    BY <2>1, <2>2, <2>3, QuietKeepsTried
<1>4. CASE Accepted(q) \/ (\E st \in Failures : Errs(q, st)) \/ Done(q)
  <2>1. UNCHANGED pool
    BY <1>4 DEF Accepted, Errs, Done
  <2>2. /\ ~InLoop(q)' /\ refusals'[q] = {}
        /\ \A r \in Requests \ {q} : /\ UNCHANGED <<pc[r], left[r], refusals[r]>>
                                     /\ r \in disturbed => r \in disturbed'
    BY <1>1, <1>4 DEF Accepted, Errs, Done, EndLoop, InLoop, RequestsOK
  <2> QED
    BY <2>1, <2>2, QuietKeepsTried
<1>5. CASE Resend(q)
  <2>1. /\ UNCHANGED <<pool, refusals, disturbed>> /\ pc[q] = "closing" /\ left[q] \in Nat
        /\ pc' = [pc EXCEPT ![q] = "sending"]
        /\ left' = [left EXCEPT ![q] = left[q] - 1]
    BY <1>1, <1>5 DEF Resend, SendAgain, RequestsOK
  <2>2. /\ InLoop(q) /\ left'[q] < MaxSends /\ UNCHANGED SendsBehind(q)
        /\ pc'[q] # "failed"
    BY <1>1, <1>2, <2>1 DEF SendsBehind, InLoop, RequestsOK, TriedInv, SendsCounted
  <2>3. \A r \in Requests \ {q} : UNCHANGED <<pc[r], left[r], refusals[r]>>
    BY <1>1, <2>1 DEF RequestsOK
  <2> QED
    BY <2>1, <2>2, <2>3, QuietKeepsTried
<1>6. CASE GivesUp(q)
  <2>1. /\ UNCHANGED <<pool, refusals, disturbed, left>> /\ pc[q] = "closing" /\ left[q] = 0
        /\ ~InLoop(q)'
        /\ \A r \in Requests \ {q} : UNCHANGED pc[r]
    BY <1>1, <1>6 DEF GivesUp, InLoop, RequestsOK
  <2> QED
    BY <2>1, QuietKeepsTried
<1>7. CASE \E st \in Refusals : Refused(q, st) \/ ListRefused(q, st)
  BY <1>7, RefusalKeepsTried
<1> QED
  BY <1>3, <1>4, <1>5, <1>6, <1>7 DEF Answered, Continues

(***************************************************************************)
(* A request that gives up because its keys were refused asked every key   *)
(* with credit, over any list of keys, repeated ones included: unless      *)
(* another request moved the pool meanwhile, or one of its keys answered   *)
(* 402.                                                                    *)
(***************************************************************************)
THEOREM AllKeysTriedCorrect == Spec => []AllKeysTried
<1>1. Init => BlameInv /\ TriedInv
  BY DEF Init, BlameInv, SentIsCurrent, RefusedAreBlamed, TriedInv, SendsCounted, LoopCovers,
         FailureCovers, InLoop
<1>2. TypeInv /\ BlameInv /\ TriedInv /\ [Next]_vars => (BlameInv /\ TriedInv)'
  <2> SUFFICES ASSUME TypeInv, BlameInv, TriedInv, [Next]_vars
               PROVE  (BlameInv /\ TriedInv)'
    OBVIOUS
  <2>1. CASE UNCHANGED vars
    BY <2>1 DEF vars, pool, requests, BlameInv, SentIsCurrent, RefusedAreBlamed, CurrentKey,
                TriedInv, SendsCounted, LoopCovers, FailureCovers, InLoop, OnlyRotated,
                SendsBehind, Behind, Covered, MaxSends, KeySet
  <2>2. CASE Next
    BY <2>2, BlameStep, TriedStep DEF Next
  <2> QED
    BY <2>1, <2>2
<1>3. TriedInv => AllKeysTried
  BY DEF TriedInv, FailureCovers, AllKeysTried, OnlyRotated, Covered
<1> QED
  BY <1>1, <1>2, <1>3, TypeInvAlways, PTL DEF Spec

=============================================================================
