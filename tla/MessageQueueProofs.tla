------------------------- MODULE MessageQueueProofs -------------------------
(***************************************************************************)
(* What TLAPS proves about MessageQueue for any screens, sends and keys,   *)
(* any number of edits and retries: every variable has its type, nobody    *)
(* who waits for a result is lost, and the newest edit is the one shown.   *)
(*                                                                         *)
(* NoWaiterLost is not inductive by itself.  A caller that backs off will  *)
(* queue its function again, so it must not be in an entry already; it is  *)
(* not, because it is asleep once only, and because only an edit sleeps.   *)
(* NewestShown needs that the newest edit owns the function of the entry   *)
(* it waits in, and that nothing of its screen is queued behind it         *)
(* (NewestInv, below).                                                     *)
(***************************************************************************)
EXTENDS MessageQueue, FiniteSetTheorems, SequenceTheorems, TLAPS

\* Those who back off: each once, and none of them in an entry.
SleepersOK ==
    /\ \A i \in DOMAIN sleepers : call[sleepers[i]] = "asleep"
    /\ \A i, j \in DOMAIN sleepers : sleepers[i] = sleepers[j] => i = j

\* Sends and deletions are not tried again.
SendsOnce == \A s \in Sends : retries[s] = 0

\* The worker holds an entry only while it works on it.
HandFree == worker \in {"idle", "stopped"} => hand = Empty

Inv == TypeOK /\ NoWaiterLost /\ SleepersOK /\ SendsOnce /\ HandFree

(***************************************************************************)
(* Sequences.                                                              *)
(***************************************************************************)
LEMMA RemoveAtFacts ==
    ASSUME NEW S, NEW s \in Seq(S), NEW i \in DOMAIN s
    PROVE  /\ RemoveAt(s, i) \in Seq(S)
           /\ Len(RemoveAt(s, i)) = Len(s) - 1
           /\ \A h \in 1 .. Len(s) - 1 :
                  RemoveAt(s, i)[h] = IF h < i THEN s[h] ELSE s[h + 1]
<1> DEFINE front == SubSeq(s, 1, i - 1)
           back  == SubSeq(s, i + 1, Len(s))
<1>1. Len(s) \in Nat /\ i \in 1 .. Len(s)
  BY LenProperties
<1>2. front \in Seq(S) /\ Len(front) = i - 1 /\ \A h \in 1 .. i - 1 : front[h] = s[h]
  BY <1>1
<1>3. /\ back \in Seq(S) /\ Len(back) = Len(s) - i
      /\ \A h \in 1 .. Len(s) - i : back[h] = s[i + h]
  BY <1>1
<1>4. RemoveAt(s, i) = front \o back
  BY DEF RemoveAt
<1> HIDE DEF front, back
<1>5. /\ front \o back \in Seq(S)
      /\ Len(front \o back) = Len(s) - 1
  BY <1>1, <1>2, <1>3, ConcatProperties
<1>6. \A h \in 1 .. Len(s) - 1 : (front \o back)[h] = IF h < i THEN s[h] ELSE s[h + 1]
  <2> SUFFICES ASSUME NEW h \in 1 .. Len(s) - 1
               PROVE  (front \o back)[h] = IF h < i THEN s[h] ELSE s[h + 1]
    OBVIOUS
  <2>1. (front \o back)[h] = IF h <= Len(front) THEN front[h] ELSE back[h - Len(front)]
    BY <1>1, <1>2, <1>3, ConcatProperties
  <2>2. CASE h < i
    BY <1>1, <1>2, <2>1, <2>2
  <2>3. CASE ~(h < i)
    <3>1. h - Len(front) \in 1 .. Len(s) - i /\ i + (h - Len(front)) = h + 1
      BY <1>1, <1>2, <2>3
    <3> QED
      BY <1>1, <1>2, <1>3, <2>1, <2>3, <3>1
  <2> QED
    BY <2>2, <2>3
<1> QED
  BY <1>4, <1>5, <1>6

\* What is left of a sequence without repetitions once an element is taken out.
LEMMA RemoveAtDistinct ==
    ASSUME NEW S, NEW s \in Seq(S), NEW i \in DOMAIN s,
           \A g, h \in DOMAIN s : s[g] = s[h] => g = h
    PROVE  /\ \A g, h \in DOMAIN RemoveAt(s, i) : RemoveAt(s, i)[g] = RemoveAt(s, i)[h] => g = h
           /\ \A h \in DOMAIN RemoveAt(s, i) :
                  RemoveAt(s, i)[h] # s[i] /\ \E g \in DOMAIN s : RemoveAt(s, i)[h] = s[g]
<1> DEFINE t == RemoveAt(s, i)
           at(h) == IF h < i THEN h ELSE h + 1
<1>1. Len(s) \in Nat /\ i \in 1 .. Len(s) /\ DOMAIN s = 1 .. Len(s)
  BY LenProperties
<1>2. t \in Seq(S) /\ Len(t) = Len(s) - 1 /\ \A h \in 1 .. Len(s) - 1 : t[h] = s[at(h)]
  BY RemoveAtFacts
<1>3. DOMAIN t = 1 .. Len(s) - 1
  BY <1>2, LenProperties
<1>4. \A h \in 1 .. Len(s) - 1 : at(h) \in 1 .. Len(s) /\ at(h) # i
  BY <1>1
<1>5. \A g, h \in 1 .. Len(s) - 1 : at(g) = at(h) => g = h
  BY <1>1
<1> HIDE DEF t, at
<1>6. \A g, h \in DOMAIN t : t[g] = t[h] => g = h
  BY <1>1, <1>2, <1>3, <1>4, <1>5
<1>7. \A h \in DOMAIN t : t[h] # s[i] /\ \E g \in DOMAIN s : t[h] = s[g]
  BY <1>1, <1>2, <1>3, <1>4
<1> QED
  BY <1>6, <1>7 DEF t

LEMMA PermutationFacts ==
    ASSUME NEW S, IsFiniteSet(S), NEW p \in SetToSeqs(S)
    PROVE  /\ p \in Seq(S)
           /\ \A i, j \in DOMAIN p : p[i] = p[j] => i = j
<1>1. Cardinality(S) \in Nat
  BY FS_CardinalityType
<1>2. /\ p \in [1 .. Cardinality(S) -> S]
      /\ \A i, j \in 1 .. Cardinality(S) : i # j => p[i] # p[j]
  BY DEF SetToSeqs
<1> QED
  BY <1>1, <1>2, SeqDef

(***************************************************************************)
(* A function is queued.                                                   *)
(***************************************************************************)
LEMMA KeyOfJob == ASSUME NEW j \in Jobs PROVE KeyOf(j) \in Keys
  BY DEF KeyOf, Keys, Jobs, Edits

LEMMA EnqueueEntries ==
    ASSUME TypeOK, QueueExact, NEW j \in Jobs, Enqueue(j)
    PROVE  /\ queue' \in Seq(Keys)
           /\ func' \in [Keys -> Jobs \union {None}]
           /\ futures' \in [Keys -> SUBSET Jobs]
           /\ QueueExact'
<1> DEFINE k == KeyOf(j)
<1>1. k \in Keys
  BY KeyOfJob
<1> HIDE DEF k
<1>2. /\ queue' = IF futures[k] = {} THEN Append(queue, k) ELSE queue
      /\ func' = [func EXCEPT ![k] = j]
      /\ futures' = [futures EXCEPT ![k] = @ \union {j}]
  BY DEF Enqueue, k
<1>3. queue \in Seq(Keys) /\ futures \in [Keys -> SUBSET Jobs] /\ func \in [Keys -> Jobs \union {None}]
  BY DEF TypeOK
<1>4. {i \in Keys : futures'[i] # {}} = {i \in Keys : futures[i] # {}} \union {k}
  BY <1>1, <1>2, <1>3
<1>5. QueueExact'
  <2>1. CASE futures[k] = {}
    <3>1. k \notin ToSet(queue)
      BY <2>1 DEF QueueExact
    <3>2. /\ Len(queue) \in Nat /\ DOMAIN queue = 1 .. Len(queue)
          /\ DOMAIN queue' = 1 .. Len(queue) + 1
          /\ \A i \in 1 .. Len(queue) : queue'[i] = queue[i]
          /\ queue'[Len(queue) + 1] = k
      BY <1>1, <1>2, <1>3, <2>1
    <3>3. \A i \in DOMAIN queue : queue[i] # k
      BY <3>1 DEF ToSet
    <3>4. \A h, i \in DOMAIN queue' : queue'[h] = queue'[i] => h = i
      BY <3>2, <3>3 DEF QueueExact
    <3>5. ToSet(queue') = ToSet(queue) \union {k}
      <4>1. \A i \in DOMAIN queue' : queue'[i] \in ToSet(queue) \union {k}
        BY <3>2 DEF ToSet
      <4>2. \A x \in ToSet(queue) \union {k} : \E i \in DOMAIN queue' : queue'[i] = x
        BY <3>2 DEF ToSet
      <4> QED
        BY <4>1, <4>2 DEF ToSet
    <3> QED
      BY <1>4, <3>4, <3>5 DEF QueueExact
  <2>2. CASE futures[k] # {}
    BY <1>1, <1>2, <1>4, <2>2 DEF QueueExact
  <2> QED
    BY <2>1, <2>2
<1> QED
  BY <1>1, <1>2, <1>3, <1>5

LEMMA EnqueueWaiters ==
    ASSUME Inv, NEW j \in Jobs, call[j] \in {"none", "asleep"}, Enqueue(j),
           call' = [call EXCEPT ![j] = "waits"], UNCHANGED <<hand, worker>>
    PROVE  WaitersKept'
<1>1. KeyOf(j) \in Keys
  BY KeyOfJob
<1>2. futures' = [futures EXCEPT ![KeyOf(j)] = @ \union {j}]
  BY DEF Enqueue
<1>3. /\ call \in [Jobs -> {"none", "waits", "asleep", "done", "failed"}]
      /\ futures \in [Keys -> SUBSET Jobs] /\ WaitersKept
  BY DEF Inv, TypeOK, NoWaiterLost
<1>4. j \notin hand.futures /\ \A k \in Keys : j \notin futures[k]
  BY <1>3 DEF WaitersKept
<1> SUFFICES ASSUME NEW i \in Jobs
             PROVE  /\ i \in hand.futures => call'[i] = "waits" /\ i \notin futures'[KeyOf(i)]
                    /\ \A k \in Keys : i \in futures'[k] => call'[i] = "waits" /\ k = KeyOf(i)
                    /\ call'[i] = "waits" /\ ~down
                          => i \in hand.futures \union futures'[KeyOf(i)]
  BY DEF WaitersKept, down, KeyOf
<1>5. KeyOf(i) \in Keys
  BY KeyOfJob
<1>6. CASE i = j
  BY <1>1, <1>2, <1>3, <1>4, <1>6
<1>7. CASE i # j
  <2>1. \A k \in Keys : i \in futures'[k] <=> i \in futures[k]
    BY <1>1, <1>2, <1>3, <1>7
  <2>2. call'[i] = call[i]
    BY <1>3, <1>7
  <2> QED
    BY <1>3, <1>5, <2>1, <2>2 DEF WaitersKept
<1> QED
  BY <1>6, <1>7

(***************************************************************************)
(* The invariant.                                                          *)
(***************************************************************************)
LEMMA InvInit == Init => Inv
<1> SUFFICES ASSUME Init PROVE Inv
  OBVIOUS
<1>1. TypeOK
  <2>1. MaxRetries \in Nat /\ MaxEdits \in Nat
    BY RetriesAssumption
  <2>2. queue \in Seq(Keys) /\ sleepers \in Seq(Edits)
    BY DEF Init
  <2>3. /\ issued \in [Screens -> 0 .. MaxEdits] /\ shown \in [Screens -> 0 .. MaxEdits]
        /\ retries \in [Jobs -> 0 .. MaxRetries]
    BY <2>1 DEF Init
  <2>4. /\ call \in [Jobs -> {"none", "waits", "asleep", "done", "failed"}]
        /\ func \in [Keys -> Jobs \union {None}] /\ futures \in [Keys -> SUBSET Jobs]
    BY DEF Init
  <2>5. hand \in [func : Jobs \union {None}, futures : SUBSET Jobs]
    BY DEF Init, Empty
  <2>6. worker = "idle" /\ paused = FALSE /\ overtaken = {}
    BY DEF Init
  <2> QED
    BY <2>2, <2>3, <2>4, <2>5, <2>6 DEF TypeOK
<1>2. QueueExact
  BY DEF Init, QueueExact, ToSet
<1>3. WaitersKept
  BY DEF Init, WaitersKept, Empty
<1>4. SleepersOK
  BY DEF Init, SleepersOK
<1>5. SendsOnce
  BY DEF Init, SendsOnce, Jobs
<1>6. HandFree
  BY DEF Init, HandFree
<1> QED
  BY <1>1, <1>2, <1>3, <1>4, <1>5, <1>6 DEF Inv, NoWaiterLost

\* A job is asked for, r times to be tried again.
LEMMA AskKeeps ==
    ASSUME Inv, NEW j \in Jobs, NEW r \in 0 .. MaxRetries, Ask(j, r), j \in Edits \/ r = 0,
           issued' \in [Screens -> 0 .. MaxEdits]
    PROVE  Inv'
<1>1. /\ call[j] = "none" /\ Enqueue(j)
      /\ call' = [call EXCEPT ![j] = "waits"]
      /\ retries' = [retries EXCEPT ![j] = r]
      /\ UNCHANGED <<worker, hand, paused, sleepers, shown, overtaken>>
  BY DEF Ask
<1>2. TypeOK /\ QueueExact
  BY DEF Inv, NoWaiterLost
<1>3. /\ queue' \in Seq(Keys) /\ func' \in [Keys -> Jobs \union {None}]
      /\ futures' \in [Keys -> SUBSET Jobs] /\ QueueExact'
  BY <1>1, <1>2, EnqueueEntries
<1>4. WaitersKept'
  BY <1>1, EnqueueWaiters
<1>5. TypeOK'
  BY <1>1, <1>2, <1>3 DEF TypeOK
<1>6. SleepersOK'
  BY <1>1, <1>2 DEF Inv, SleepersOK, TypeOK
<1>7. SendsOnce'
  BY <1>1, <1>2, JobsAssumption DEF Inv, SendsOnce, TypeOK
<1>8. HandFree'
  BY <1>1 DEF Inv, HandFree, Empty
<1> QED
  BY <1>3, <1>4, <1>5, <1>6, <1>7, <1>8 DEF Inv, NoWaiterLost

LEMMA EditKeeps ==
    ASSUME Inv, NEW m \in Screens, Edit(m)
    PROVE  Inv'
<1>1. /\ issued[m] < MaxEdits /\ issued' = [issued EXCEPT ![m] = @ + 1]
      /\ issued \in [Screens -> 0 .. MaxEdits]
  BY DEF Edit, Inv, TypeOK
<1>2. MaxEdits \in Nat /\ MaxRetries \in Nat
  BY RetriesAssumption
<1>3. <<m, issued[m] + 1>> \in Edits /\ issued' \in [Screens -> 0 .. MaxEdits]
  BY <1>1, <1>2 DEF Edits
<1>4. PICK r \in {0, MaxRetries} : Ask(<<m, issued[m] + 1>>, r)
  BY DEF Edit
<1> QED
  BY <1>2, <1>3, <1>4, AskKeeps DEF Jobs

LEMMA SendKeeps ==
    ASSUME Inv, NEW s \in Sends, Send(s)
    PROVE  Inv'
<1>1. Ask(s, 0) /\ issued' = issued
  BY DEF Send
<1>2. 0 \in 0 .. MaxRetries /\ s \in Jobs
  BY RetriesAssumption DEF Jobs
<1> QED
  BY <1>1, <1>2, AskKeeps DEF Inv, TypeOK

LEMMA WakeKeeps ==
    ASSUME Inv, NEW i \in DOMAIN sleepers, Wake(i)
    PROVE  Inv'
<1> DEFINE e == sleepers[i]
<1>1. /\ Enqueue(e)
      /\ sleepers' = RemoveAt(sleepers, i)
      /\ call' = [call EXCEPT ![e] = "waits"]
      /\ overtaken' = IF issued[e[1]] > e[2] THEN overtaken \union {e[1]} ELSE overtaken
      /\ UNCHANGED <<issued, retries, worker, hand, paused, shown>>
  BY DEF Wake
<1>2. TypeOK /\ QueueExact /\ SleepersOK
  BY DEF Inv, NoWaiterLost
<1>3. sleepers \in Seq(Edits) /\ DOMAIN sleepers = 1 .. Len(sleepers)
  BY <1>2, LenProperties DEF TypeOK
<1>4. e \in Edits /\ e \in Jobs /\ e[1] \in Screens /\ call[e] = "asleep"
  BY <1>2, <1>3, ElementOfSeq DEF SleepersOK, Jobs, Edits
<1>5. /\ queue' \in Seq(Keys) /\ func' \in [Keys -> Jobs \union {None}]
      /\ futures' \in [Keys -> SUBSET Jobs] /\ QueueExact'
  BY <1>1, <1>2, <1>4, EnqueueEntries
<1>6. WaitersKept'
  BY <1>1, <1>4, EnqueueWaiters
<1>7. sleepers' \in Seq(Edits)
  BY <1>1, <1>3, RemoveAtFacts
<1>8. overtaken' \subseteq Screens
  BY <1>1, <1>2, <1>4 DEF TypeOK
<1> HIDE DEF e
<1>9. TypeOK'
  BY <1>1, <1>2, <1>5, <1>7, <1>8 DEF TypeOK
<1>10. SleepersOK'
  <2>1. /\ \A g, h \in DOMAIN sleepers' : sleepers'[g] = sleepers'[h] => g = h
        /\ \A h \in DOMAIN sleepers' :
               sleepers'[h] # e /\ \E g \in DOMAIN sleepers : sleepers'[h] = sleepers[g]
    BY <1>1, <1>2, <1>3, RemoveAtDistinct DEF SleepersOK, e
  <2>2. \A h \in DOMAIN sleepers' : sleepers'[h] \in Jobs /\ call[sleepers'[h]] = "asleep"
    BY <1>2, <1>3, <2>1, ElementOfSeq DEF SleepersOK, Jobs
  <2>3. \A h \in DOMAIN sleepers' : call'[sleepers'[h]] = "asleep"
    BY <1>1, <1>2, <2>1, <2>2 DEF TypeOK
  <2> QED
    BY <2>1, <2>3 DEF SleepersOK
<1>11. SendsOnce' /\ HandFree'
  BY <1>1 DEF Inv, SendsOnce, HandFree, Empty
<1> QED
  BY <1>5, <1>6, <1>9, <1>10, <1>11 DEF Inv, NoWaiterLost

LEMMA TakeKeeps ==
    ASSUME Inv, Take
    PROVE  Inv'
<1> DEFINE k == Head(queue)
<1>1. /\ worker = "idle" /\ queue # <<>> /\ queue' = Tail(queue)
      /\ hand' = [func |-> func[k], futures |-> futures[k]]
      /\ func' = [func EXCEPT ![k] = None]
      /\ futures' = [futures EXCEPT ![k] = {}]
      /\ worker' \in {"paused", "ready"}
      /\ UNCHANGED <<callVars, paused, shown, overtaken>>
  BY DEF Take
<1>2. TypeOK /\ QueueExact /\ WaitersKept
  BY DEF Inv, NoWaiterLost
<1>3. queue \in Seq(Keys) /\ futures \in [Keys -> SUBSET Jobs] /\ func \in [Keys -> Jobs \union {None}]
  BY <1>2 DEF TypeOK
<1>4. /\ Len(queue) \in Nat /\ Len(queue) > 0 /\ DOMAIN queue = 1 .. Len(queue)
      /\ k = queue[1] /\ k \in Keys
      /\ queue' \in Seq(Keys) /\ DOMAIN queue' = 1 .. Len(queue) - 1
      /\ \A i \in 1 .. Len(queue) - 1 : queue'[i] = queue[i + 1]
  BY <1>1, <1>3
<1> HIDE DEF k
<1>5. TypeOK'
  <2>1. hand' \in [func : Jobs \union {None}, futures : SUBSET Jobs]
    BY <1>1, <1>3, <1>4
  <2>2. func' \in [Keys -> Jobs \union {None}] /\ futures' \in [Keys -> SUBSET Jobs]
    BY <1>1, <1>3, <1>4
  <2> QED
    BY <1>1, <1>2, <1>4, <2>1, <2>2 DEF TypeOK, callVars
<1>6. QueueExact'
  <2>1. \A i, j \in DOMAIN queue' : queue'[i] = queue'[j] => i = j
    <3> SUFFICES ASSUME NEW i \in 1 .. Len(queue) - 1, NEW j \in 1 .. Len(queue) - 1,
                        queue'[i] = queue'[j]
                 PROVE  i = j
      BY <1>4
    <3>1. i + 1 \in DOMAIN queue /\ j + 1 \in DOMAIN queue /\ queue[i + 1] = queue[j + 1]
      BY <1>4
    <3>2. i + 1 = j + 1
      BY <1>2, <3>1 DEF QueueExact
    <3> QED
      BY <1>4, <3>2
  <2>2. ToSet(queue') = ToSet(queue) \ {k}
    <3>1. \A i \in DOMAIN queue' : queue'[i] \in ToSet(queue) /\ queue'[i] # k
      <4> SUFFICES ASSUME NEW i \in 1 .. Len(queue) - 1
                   PROVE  queue'[i] \in ToSet(queue) /\ queue'[i] # k
        BY <1>4
      <4>1. i + 1 \in DOMAIN queue /\ 1 \in DOMAIN queue /\ i + 1 # 1 /\ queue'[i] = queue[i + 1]
        BY <1>4
      <4> QED
        BY <1>2, <1>4, <4>1 DEF QueueExact, ToSet
    <3>2. \A i \in DOMAIN queue : queue[i] = k \/ \E h \in DOMAIN queue' : queue'[h] = queue[i]
      <4> SUFFICES ASSUME NEW i \in 1 .. Len(queue), i # 1
                   PROVE  \E h \in DOMAIN queue' : queue'[h] = queue[i]
        BY <1>4
      <4>1. i - 1 \in DOMAIN queue' /\ queue'[i - 1] = queue[i]
        BY <1>4
      <4> QED
        BY <4>1
    <3> QED
      BY <3>1, <3>2 DEF ToSet
  <2>3. {i \in Keys : futures'[i] # {}} = {i \in Keys : futures[i] # {}} \ {k}
    BY <1>1, <1>3, <1>4
  <2> QED
    BY <1>2, <2>1, <2>2, <2>3 DEF QueueExact
<1>7. WaitersKept'
  <2> SUFFICES ASSUME NEW j \in Jobs
               PROVE  /\ j \in hand'.futures => call'[j] = "waits" /\ j \notin futures'[KeyOf(j)]
                      /\ \A i \in Keys : j \in futures'[i] => call'[j] = "waits" /\ i = KeyOf(j)
                      /\ call'[j] = "waits" => j \in hand'.futures \union futures'[KeyOf(j)]
    BY DEF WaitersKept, down, KeyOf
  <2>1. KeyOf(j) \in Keys /\ call' = call /\ hand'.futures = futures[k]
    BY <1>1, KeyOfJob DEF callVars
  <2>2. \A i \in Keys : j \in futures'[i] <=> j \in futures[i] /\ i # k
    BY <1>1, <1>3, <1>4
  <2>3. j \notin hand.futures
    BY <1>1 DEF Inv, HandFree, Empty
  <2> QED
    BY <1>1, <1>2, <1>4, <2>1, <2>2, <2>3 DEF WaitersKept, down
<1>8. SleepersOK' /\ SendsOnce'
  BY <1>1 DEF Inv, SleepersOK, SendsOnce, callVars
<1>9. HandFree'
  BY <1>1 DEF HandFree
<1> QED
  BY <1>5, <1>6, <1>7, <1>8, <1>9 DEF Inv, NoWaiterLost

\* Those who wait for the entry in the worker's hand are answered.
LEMMA AnswerKeeps ==
    ASSUME Inv, NEW answer \in [Jobs -> {"done", "failed", "asleep"}], worker = "sending",
           call' = Answer(answer), hand' = Empty, worker' = "idle", UNCHANGED entryVars
    PROVE  /\ call' \in [Jobs -> {"none", "waits", "asleep", "done", "failed"}]
           /\ \A j \in Jobs : call'[j] = IF j \in hand.futures THEN answer[j] ELSE call[j]
           /\ NoWaiterLost'
           /\ \A j \in Jobs : call[j] = "asleep" => call'[j] = "asleep"
<1>1. TypeOK /\ QueueExact /\ WaitersKept
  BY DEF Inv, NoWaiterLost
<1>2. \A j \in Jobs : call'[j] = IF j \in hand.futures THEN answer[j] ELSE call[j]
  BY DEF Answer
<1>3. call' \in [Jobs -> {"none", "waits", "asleep", "done", "failed"}]
  BY <1>1 DEF Answer, TypeOK
<1>4. QueueExact'
  BY <1>1 DEF QueueExact, entryVars
<1>5. WaitersKept'
  <2> SUFFICES ASSUME NEW j \in Jobs
               PROVE  /\ \A k \in Keys : j \in futures[k] => call'[j] = "waits" /\ k = KeyOf(j)
                      /\ call'[j] = "waits" => j \in futures[KeyOf(j)]
    BY DEF WaitersKept, down, KeyOf, Empty, entryVars
  <2>1. CASE j \in hand.futures
    BY <1>1, <1>2, <2>1, KeyOfJob DEF WaitersKept
  <2>2. CASE j \notin hand.futures
    BY <1>1, <1>2, <2>2 DEF WaitersKept, down
  <2> QED
    BY <2>1, <2>2
<1>6. \A j \in Jobs : call[j] = "asleep" => call'[j] = "asleep"
  BY <1>1, <1>2 DEF WaitersKept
<1> QED
  BY <1>2, <1>3, <1>4, <1>5, <1>6 DEF NoWaiterLost

LEMMA AppliedTypes ==
    ASSUME TypeOK, NEW j
    PROVE  Applied(j) \in [Screens -> 0 .. MaxEdits]
<1>1. MaxEdits \in Nat
  BY RetriesAssumption
<1>2. CASE j \in Edits
  <2>1. j[1] \in Screens /\ j[2] \in 0 .. MaxEdits
    BY <1>1, <1>2 DEF Edits
  <2> QED
    BY <1>2, <2>1 DEF Applied, TypeOK
<1>3. CASE j \notin Edits
  BY <1>3 DEF Applied, TypeOK
<1> QED
  BY <1>2, <1>3

LEMMA SucceedsKeeps ==
    ASSUME Inv, Succeeds
    PROVE  Inv'
<1>1. /\ worker = "sending" /\ worker' = "idle" /\ hand' = Empty
      /\ shown' = Applied(hand.func)
      /\ call' = Answer([j \in Jobs |-> "done"])
      /\ UNCHANGED <<issued, retries, sleepers, entryVars, paused, overtaken>>
  BY DEF Succeeds
<1>2. TypeOK /\ SleepersOK
  BY DEF Inv
<1>3. /\ call' \in [Jobs -> {"none", "waits", "asleep", "done", "failed"}]
      /\ NoWaiterLost'
      /\ \A j \in Jobs : call[j] = "asleep" => call'[j] = "asleep"
  <2>1. [j \in Jobs |-> "done"] \in [Jobs -> {"done", "failed", "asleep"}]
    OBVIOUS
  <2> QED
    BY <1>1, <2>1, AnswerKeeps
<1>4. TypeOK'
  <2>1. shown' \in [Screens -> 0 .. MaxEdits]
    BY <1>1, <1>2, AppliedTypes
  <2>2. hand' \in [func : Jobs \union {None}, futures : SUBSET Jobs]
    BY <1>1 DEF Empty
  <2> QED
    BY <1>1, <1>2, <1>3, <2>1, <2>2 DEF TypeOK, entryVars
<1>5. SleepersOK'
  <2>1. \A i \in DOMAIN sleepers : sleepers[i] \in Jobs
    BY <1>2, LenProperties, ElementOfSeq DEF TypeOK, Jobs
  <2> QED
    BY <1>1, <1>2, <1>3, <2>1 DEF SleepersOK
<1>6. SendsOnce' /\ HandFree'
  BY <1>1 DEF Inv, SendsOnce, HandFree
<1> QED
  BY <1>3, <1>4, <1>5, <1>6 DEF Inv

\* Those who back off join the sleepers, in any order.
LEMMA SleepersJoin ==
    ASSUME TypeOK, SleepersOK, NEW again \in SUBSET Edits, NEW p \in SetToSeqs(again),
           sleepers' = sleepers \o p,
           \A e \in again : call[e] # "asleep" /\ call'[e] = "asleep",
           \A j \in Jobs : call[j] = "asleep" => call'[j] = "asleep"
    PROVE  sleepers' \in Seq(Edits) /\ SleepersOK'
<1>1. IsFiniteSet(again)
  BY JobsAssumption, FS_Subset DEF Jobs
<1>2. p \in Seq(again) /\ \A i, j \in DOMAIN p : p[i] = p[j] => i = j
  BY <1>1, PermutationFacts
<1>3. /\ Len(sleepers) \in Nat /\ DOMAIN sleepers = 1 .. Len(sleepers)
      /\ Len(p) \in Nat /\ DOMAIN p = 1 .. Len(p)
      /\ \A i \in 1 .. Len(sleepers) : sleepers[i] \in Edits
      /\ \A i \in 1 .. Len(p) : p[i] \in again
  BY <1>2, LenProperties, ElementOfSeq DEF TypeOK
<1>4. p \in Seq(Edits) /\ sleepers \in Seq(Edits)
  BY <1>2 DEF TypeOK
<1>5. /\ sleepers' \in Seq(Edits)
      /\ Len(sleepers') = Len(sleepers) + Len(p)
      /\ \A i \in 1 .. Len(sleepers) + Len(p) :
            sleepers'[i] = IF i <= Len(sleepers) THEN sleepers[i] ELSE p[i - Len(sleepers)]
  BY <1>4, ConcatProperties
<1>6. DOMAIN sleepers' = 1 .. Len(sleepers) + Len(p)
  BY <1>5, LenProperties
<1>7. \A i \in 1 .. Len(sleepers) : call[sleepers[i]] = "asleep"
  BY <1>3 DEF SleepersOK
<1>8. \A i \in 1 .. Len(sleepers) + Len(p) :
          \/ i <= Len(sleepers) /\ i \in DOMAIN sleepers /\ sleepers'[i] = sleepers[i]
          \/ /\ i > Len(sleepers) /\ i - Len(sleepers) \in DOMAIN p
             /\ sleepers'[i] = p[i - Len(sleepers)]
  BY <1>3, <1>5
<1>9. \A i \in DOMAIN sleepers' : call'[sleepers'[i]] = "asleep"
  BY <1>3, <1>6, <1>7, <1>8 DEF Jobs
<1>10. \A i, j \in DOMAIN sleepers' : sleepers'[i] = sleepers'[j] => i = j
  <2> SUFFICES ASSUME NEW i \in 1 .. Len(sleepers) + Len(p), NEW j \in 1 .. Len(sleepers) + Len(p),
                      sleepers'[i] = sleepers'[j]
               PROVE  i = j
    BY <1>6
  <2>1. CASE i <= Len(sleepers) /\ j <= Len(sleepers)
    BY <1>8, <2>1 DEF SleepersOK
  <2>2. CASE i > Len(sleepers) /\ j > Len(sleepers)
    <3>1. i - Len(sleepers) = j - Len(sleepers)
      BY <1>2, <1>3, <1>8, <2>2
    <3> QED
      BY <1>3, <3>1
  <2>3. CASE i <= Len(sleepers) /\ j > Len(sleepers)
    BY <1>3, <1>7, <1>8, <2>3
  <2>4. CASE i > Len(sleepers) /\ j <= Len(sleepers)
    BY <1>3, <1>7, <1>8, <2>4
  <2> QED
    BY <1>3, <2>1, <2>2, <2>3, <2>4
<1> QED
  BY <1>5, <1>9, <1>10 DEF SleepersOK

LEMMA FailsKeeps ==
    ASSUME Inv, Fails
    PROVE  Inv'
<1>1. /\ worker = "sending" /\ worker' = "idle" /\ hand' = Empty
      /\ UNCHANGED <<issued, entryVars, overtaken>>
  BY DEF Fails
<1>2. PICK flood, transient \in BOOLEAN :
        /\ paused' = flood
        /\ shown' \in IF transient THEN {shown, Applied(hand.func)} ELSE {shown}
        /\ LET again == Retrying(transient)
           IN  /\ call' = Answer([j \in Jobs |-> IF j \in again THEN "asleep" ELSE "failed"])
               /\ retries' = [j \in Jobs |-> IF j \in again THEN retries[j] - 1 ELSE retries[j]]
               /\ sleepers' \in {sleepers \o s : s \in SetToSeqs(again)}
  BY DEF Fails
<1> DEFINE again == Retrying(transient)
           answer == [j \in Jobs |-> IF j \in again THEN "asleep" ELSE "failed"]
<1>3. TypeOK /\ SleepersOK /\ SendsOnce /\ WaitersKept
  BY DEF Inv, NoWaiterLost
<1>4. /\ again \subseteq Jobs
      /\ \A j \in again : j \in hand.futures /\ retries[j] > 0
  BY <1>3 DEF Retrying, TypeOK
<1>5. again \subseteq Edits
  BY <1>3, <1>4 DEF SendsOnce, Jobs
<1> HIDE DEF again
<1>6. answer \in [Jobs -> {"done", "failed", "asleep"}]
  OBVIOUS
<1>7. call' = Answer(answer)
  BY <1>2 DEF again
<1> HIDE DEF answer
<1>8. /\ call' \in [Jobs -> {"none", "waits", "asleep", "done", "failed"}]
      /\ \A j \in Jobs : call'[j] = IF j \in hand.futures THEN answer[j] ELSE call[j]
      /\ NoWaiterLost'
      /\ \A j \in Jobs : call[j] = "asleep" => call'[j] = "asleep"
  BY <1>1, <1>6, <1>7, AnswerKeeps
<1>9. \A e \in again : call[e] # "asleep" /\ call'[e] = "asleep"
  BY <1>3, <1>4, <1>8 DEF WaitersKept, answer
<1>10. PICK p \in SetToSeqs(again) : sleepers' = sleepers \o p
  BY <1>2 DEF again
<1>11. sleepers' \in Seq(Edits) /\ SleepersOK'
  BY <1>3, <1>5, <1>8, <1>9, <1>10, SleepersJoin
<1>12. /\ retries' \in [Jobs -> 0 .. MaxRetries]
       /\ SendsOnce'
  <2>1. MaxRetries \in Nat
    BY RetriesAssumption
  <2>2. retries' = [j \in Jobs |-> IF j \in again THEN retries[j] - 1 ELSE retries[j]]
    BY <1>2 DEF again
  <2>3. \A j \in Jobs : retries[j] \in 0 .. MaxRetries
    BY <1>3 DEF TypeOK
  <2>4. retries' \in [Jobs -> 0 .. MaxRetries]
    BY <1>4, <2>1, <2>2, <2>3
  <2>5. SendsOnce'
    BY <1>3, <1>4, <2>2 DEF SendsOnce, Jobs
  <2> QED
    BY <2>4, <2>5
<1>13. TypeOK'
  <2>1. shown' \in [Screens -> 0 .. MaxEdits]
    BY <1>2, <1>3, AppliedTypes DEF TypeOK
  <2>2. hand' \in [func : Jobs \union {None}, futures : SUBSET Jobs]
    BY <1>1 DEF Empty
  <2>3. paused' \in BOOLEAN
    BY <1>2
  <2>4. /\ issued' \in [Screens -> 0 .. MaxEdits] /\ overtaken' \subseteq Screens
        /\ queue' \in Seq(Keys) /\ func' \in [Keys -> Jobs \union {None}]
        /\ futures' \in [Keys -> SUBSET Jobs] /\ worker' = "idle"
    BY <1>1, <1>3 DEF TypeOK, entryVars
  <2> QED
    BY <1>8, <1>11, <1>12, <2>1, <2>2, <2>3, <2>4 DEF TypeOK
<1>14. HandFree'
  BY <1>1 DEF HandFree
<1> QED
  BY <1>8, <1>11, <1>12, <1>13, <1>14 DEF Inv

LEMMA ShutdownKeeps ==
    ASSUME Inv, Shutdown
    PROVE  Inv'
<1>1. /\ worker' = "stopped" /\ hand' = Empty
      /\ shown' \in IF worker = "sending" THEN {shown, Applied(hand.func)} ELSE {shown}
      /\ UNCHANGED <<callVars, entryVars, paused, overtaken>>
  BY DEF Shutdown
<1>2. TypeOK /\ QueueExact /\ WaitersKept
  BY DEF Inv, NoWaiterLost
<1>3. TypeOK'
  <2>1. shown' \in [Screens -> 0 .. MaxEdits]
    BY <1>1, <1>2, AppliedTypes DEF TypeOK
  <2>2. hand' \in [func : Jobs \union {None}, futures : SUBSET Jobs]
    BY <1>1 DEF Empty
  <2> QED
    BY <1>1, <1>2, <2>1, <2>2 DEF TypeOK, callVars, entryVars
<1>4. QueueExact'
  BY <1>1, <1>2 DEF QueueExact, entryVars
<1>5. WaitersKept'
  BY <1>1, <1>2 DEF WaitersKept, down, KeyOf, Empty, callVars, entryVars
<1>6. SleepersOK' /\ SendsOnce' /\ HandFree'
  BY <1>1 DEF Inv, SleepersOK, SendsOnce, HandFree, callVars
<1> QED
  BY <1>3, <1>4, <1>5, <1>6 DEF Inv, NoWaiterLost

\* Calls, PauseEnds and stuttering move the worker at most, which keeps its entry.
LEMMA OthersKeep ==
    ASSUME Inv, Calls \/ PauseEnds \/ UNCHANGED vars
    PROVE  Inv'
<1>1. /\ UNCHANGED <<callVars, entryVars, hand, shown, overtaken>>
      /\ paused' \in BOOLEAN
      /\ worker' \in {"idle", "paused", "ready", "sending", "stopped"}
      /\ worker' \in {"idle", "stopped"} => worker' = worker
      /\ down' <=> down
  BY DEF Inv, TypeOK, Calls, PauseEnds, vars, down
<1>2. TypeOK'
  BY <1>1 DEF Inv, TypeOK, callVars, entryVars
<1>3. QueueExact'
  BY <1>1 DEF Inv, NoWaiterLost, QueueExact, entryVars
<1>4. WaitersKept'
  BY <1>1 DEF Inv, NoWaiterLost, WaitersKept, KeyOf, callVars, entryVars
<1>5. SleepersOK' /\ SendsOnce' /\ HandFree'
  BY <1>1 DEF Inv, SleepersOK, SendsOnce, HandFree, callVars
<1> QED
  BY <1>2, <1>3, <1>4, <1>5 DEF Inv, NoWaiterLost

LEMMA InvStep == Inv /\ [Next]_vars => Inv'
<1> SUFFICES ASSUME Inv, [Next]_vars PROVE Inv'
  OBVIOUS
<1>1. CASE \E m \in Screens : Edit(m)
  BY <1>1, EditKeeps
<1>2. CASE \E s \in Sends : Send(s)
  BY <1>2, SendKeeps
<1>3. CASE \E i \in DOMAIN sleepers : Wake(i)
  BY <1>3, WakeKeeps
<1>4. CASE Works
  BY <1>4, TakeKeeps, OthersKeep, SucceedsKeeps, FailsKeeps DEF Works
<1>5. CASE PauseEnds \/ UNCHANGED vars
  BY <1>5, OthersKeep
<1>6. CASE Shutdown
  BY <1>6, ShutdownKeeps
<1> QED
  BY <1>1, <1>2, <1>3, <1>4, <1>5, <1>6 DEF Next

LEMMA InvAlways == Spec => []Inv
  BY InvInit, InvStep, PTL DEF Spec

\* For any screens, sends, keys and retries every variable of the outgoing queue
\* has its type (MessagingRateLimiter).
THEOREM QueueTypeCorrect == Spec => []TypeOK
<1>1. Inv => TypeOK
  BY DEF Inv
<1> QED
  BY <1>1, InvAlways, PTL

\* The queue holds every key with waiters once, and a caller that waits is in the
\* one entry of its key, or in the worker's hand: whatever is merged, retried or
\* paused, for any screens, sends and keys (_enqueue_internal_multi, _worker).
THEOREM NoWaiterLostCorrect == Spec => []NoWaiterLost
<1>1. Inv => NoWaiterLost
  BY DEF Inv
<1> QED
  BY <1>1, InvAlways, PTL

-----------------------------------------------------------------------------
(***************************************************************************)
(* Why the newest edit is what the screen shows once it is done.  It owns  *)
(* the function of every entry it waits in; nothing of its screen is       *)
(* queued behind it while the worker holds it, nor after it; and what the  *)
(* worker takes from an entry belongs to the key of the entry.             *)
(***************************************************************************)
FuncKeyed == \A k \in Keys : func[k] # None => KeyOf(func[k]) = k
AskedOnly ==
    \A m \in Screens, n \in 1 .. MaxEdits : call[<<m, n>>] # "none" => n <= issued[m]

NewestAhead(m) ==
    LET e == <<m, issued[m]>>
    IN  /\ e \in futures[m] => func[m] = e
        /\ e \in hand.futures => hand.func = e /\ futures[m] = {}
        /\ call[e] = "done" => /\ shown[m] = issued[m]
                               /\ futures[m] = {}
                               /\ hand.func \in Edits => hand.func[1] # m

NewestInv ==
    /\ FuncKeyed
    /\ AskedOnly
    /\ \A m \in Screens \ overtaken : issued[m] > 0 => NewestAhead(m)

LEMMA NewestIsEdit ==
    ASSUME TypeOK, NEW m \in Screens, issued[m] > 0
    PROVE  /\ <<m, issued[m]>> \in Edits /\ <<m, issued[m]>> \in Jobs
           /\ KeyOf(<<m, issued[m]>>) = m /\ m \in Keys
<1>1. MaxEdits \in Nat /\ issued[m] \in 1 .. MaxEdits
  BY RetriesAssumption DEF TypeOK
<1> QED
  BY <1>1 DEF Edits, Jobs, KeyOf, Keys

(***************************************************************************)
(* A job j that was not waiting is queued under its key.  If it is an edit *)
(* of m it is the newest one, or m is overtaken from then on.              *)
(***************************************************************************)
LEMMA EnqueueNewest ==
    ASSUME Inv, NewestInv, NEW j \in Jobs, call[j] \in {"none", "asleep"}, Enqueue(j),
           call' = [call EXCEPT ![j] = "waits"], UNCHANGED <<hand, shown>>,
           \A m \in Screens \ overtaken' :
               /\ m \notin overtaken
               /\ KeyOf(j) = m => j = <<m, issued'[m]>>
               /\ KeyOf(j) # m => issued'[m] = issued[m],
           issued' \in [Screens -> 0 .. MaxEdits], AskedOnly'
    PROVE  NewestInv'
<1>1. KeyOf(j) \in Keys
  BY KeyOfJob
<1>2. /\ call \in [Jobs -> {"none", "waits", "asleep", "done", "failed"}]
      /\ futures \in [Keys -> SUBSET Jobs] /\ func \in [Keys -> Jobs \union {None}]
      /\ WaitersKept
  BY DEF Inv, TypeOK, NoWaiterLost
<1>3. /\ func' = [func EXCEPT ![KeyOf(j)] = j]
      /\ futures' = [futures EXCEPT ![KeyOf(j)] = @ \union {j}]
  BY DEF Enqueue
<1>4. FuncKeyed'
  BY <1>1, <1>2, <1>3 DEF NewestInv, FuncKeyed, KeyOf
<1>5. ASSUME NEW m \in Screens, m \notin overtaken', issued'[m] > 0
      PROVE  NewestAhead(m)'
  <2>1. m \in Keys /\ m \notin overtaken
    BY <1>5 DEF Keys
  <2>2. CASE KeyOf(j) = m
    <3>1. j = <<m, issued'[m]>>
      BY <1>5, <2>2
    <3>2. j \notin hand.futures /\ call'[j] = "waits" /\ func'[m] = j
      BY <1>2, <1>3, <2>1, <2>2 DEF WaitersKept
    <3> QED
      BY <3>1, <3>2 DEF NewestAhead
  <2>3. CASE KeyOf(j) # m
    <3>1. issued'[m] = issued[m] /\ NewestAhead(m) /\ <<m, issued[m]>> \in Jobs
      BY <1>5, <2>1, <2>3, NewestIsEdit DEF NewestInv, Inv
    <3>2. <<m, issued[m]>> # j
      BY <1>5, <2>3, <3>1, NewestIsEdit DEF Inv
    <3>3. func'[m] = func[m] /\ futures'[m] = futures[m]
      BY <1>1, <1>2, <1>3, <2>1, <2>3
    <3>4. call'[<<m, issued[m]>>] = call[<<m, issued[m]>>]
      BY <1>2, <3>1, <3>2
    <3> QED
      BY <3>1, <3>3, <3>4 DEF NewestAhead
  <2> QED
    BY <2>2, <2>3
<1> QED
  BY <1>4, <1>5 DEF NewestInv

LEMMA CallersKeepNewest ==
    ASSUME Inv, Inv', NewestInv,
           \/ \E m \in Screens : Edit(m)
           \/ \E s \in Sends : Send(s)
           \/ \E i \in DOMAIN sleepers : Wake(i)
    PROVE  NewestInv'
<1>1. /\ call \in [Jobs -> {"none", "waits", "asleep", "done", "failed"}]
      /\ issued \in [Screens -> 0 .. MaxEdits] /\ issued' \in [Screens -> 0 .. MaxEdits]
      /\ MaxEdits \in Nat /\ AskedOnly
  BY RetriesAssumption DEF Inv, TypeOK, NewestInv
<1>2. ASSUME NEW m \in Screens, Edit(m)
      PROVE  NewestInv'
  <2> DEFINE j == <<m, issued[m] + 1>>
  <2>1. /\ issued[m] < MaxEdits /\ issued' = [issued EXCEPT ![m] = @ + 1]
        /\ \E r \in {0, MaxRetries} : Ask(j, r)
    BY <1>2 DEF Edit
  <2>2. /\ call[j] = "none" /\ call' = [call EXCEPT ![j] = "waits"] /\ Enqueue(j)
        /\ UNCHANGED <<hand, shown, overtaken>>
    BY <2>1 DEF Ask
  <2>3. j \in Edits /\ j \in Jobs /\ KeyOf(j) = m /\ j = <<m, issued'[m]>>
    BY <1>1, <2>1 DEF Edits, Jobs, KeyOf
  <2>4. AskedOnly'
    <3> SUFFICES ASSUME NEW o \in Screens, NEW n \in 1 .. MaxEdits, call'[<<o, n>>] # "none"
                 PROVE  n <= issued'[o]
      BY DEF AskedOnly
    <3>1. CASE <<o, n>> = j
      BY <1>1, <2>1, <3>1
    <3>2. CASE <<o, n>> # j
      <4>1. call[<<o, n>>] # "none"
        BY <1>1, <2>2, <3>2 DEF Jobs, Edits
      <4>2. n <= issued[o] /\ issued[o] <= issued'[o]
        BY <1>1, <2>1, <4>1 DEF AskedOnly
      <4> QED
        BY <1>1, <4>2
    <3> QED
      BY <3>1, <3>2
  <2> HIDE DEF j
  <2> QED
    BY <1>1, <2>1, <2>2, <2>3, <2>4, EnqueueNewest
<1>3. ASSUME NEW s \in Sends, Send(s)
      PROVE  NewestInv'
  <2>1. /\ call[s] = "none" /\ call' = [call EXCEPT ![s] = "waits"] /\ Enqueue(s)
        /\ UNCHANGED <<hand, shown, overtaken, issued>>
    BY <1>3 DEF Send, Ask
  <2>2. s \in Jobs /\ KeyOf(s) \notin Screens
    BY JobsAssumption, KeysAssumption DEF Jobs, KeyOf
  <2>3. AskedOnly'
    BY <1>1, <2>1, JobsAssumption DEF AskedOnly, Jobs, Edits
  <2> QED
    BY <1>1, <2>1, <2>2, <2>3, EnqueueNewest
<1>4. ASSUME NEW i \in DOMAIN sleepers, Wake(i)
      PROVE  NewestInv'
  <2> DEFINE j == sleepers[i]
  <2>1. /\ call' = [call EXCEPT ![j] = "waits"] /\ Enqueue(j)
        /\ overtaken' = IF issued[j[1]] > j[2] THEN overtaken \union {j[1]} ELSE overtaken
        /\ UNCHANGED <<hand, shown, issued>>
    BY <1>4 DEF Wake
  <2>2. j \in Edits /\ call[j] = "asleep"
    BY LenProperties, ElementOfSeq DEF Inv, TypeOK, SleepersOK
  <2> HIDE DEF j
  <2>3. PICK m \in Screens, n \in 1 .. MaxEdits : j = <<m, n>>
    BY <2>2 DEF Edits
  <2>4. j \in Jobs /\ KeyOf(j) = m /\ n <= issued[m]
    BY <1>1, <2>2, <2>3 DEF Jobs, KeyOf, AskedOnly
  <2>5. m \notin overtaken' => j = <<m, issued[m]>>
    BY <1>1, <2>1, <2>3, <2>4
  <2>6. overtaken \subseteq overtaken'
    BY <2>1
  <2>7. AskedOnly'
    BY <1>1, <2>1, <2>2 DEF AskedOnly, Jobs, Edits
  <2> QED
    BY <1>1, <2>1, <2>2, <2>4, <2>5, <2>6, <2>7, EnqueueNewest
<1> QED
  BY <1>2, <1>3, <1>4

LEMMA TakeKeepsNewest ==
    ASSUME Inv, NewestInv, Take
    PROVE  NewestInv'
<1> DEFINE k == Head(queue)
<1>1. /\ worker = "idle" /\ queue # <<>> /\ queue \in Seq(Keys)
      /\ hand' = [func |-> func[k], futures |-> futures[k]]
      /\ func' = [func EXCEPT ![k] = None]
      /\ futures' = [futures EXCEPT ![k] = {}]
      /\ UNCHANGED <<issued, call, shown, overtaken>>
  BY DEF Take, callVars, Inv, TypeOK
<1>2. k \in Keys
  BY <1>1
<1> HIDE DEF k
<1>3. /\ futures \in [Keys -> SUBSET Jobs] /\ func \in [Keys -> Jobs \union {None}]
      /\ WaitersKept /\ FuncKeyed /\ None \notin Jobs
  BY JobsAssumption DEF Inv, TypeOK, NoWaiterLost, NewestInv
<1>4. FuncKeyed'
  BY <1>1, <1>2, <1>3 DEF FuncKeyed, KeyOf
<1>5. AskedOnly'
  BY <1>1 DEF NewestInv, AskedOnly
<1>6. ASSUME NEW m \in Screens, m \notin overtaken, issued[m] > 0
      PROVE  NewestAhead(m)'
  <2> DEFINE e == <<m, issued[m]>>
  <2>1. e \in Edits /\ e \in Jobs /\ KeyOf(e) = m /\ m \in Keys /\ NewestAhead(m)
    BY <1>6, NewestIsEdit DEF Inv, NewestInv
  <2> HIDE DEF e
  <2>2. e \in futures'[m] => func'[m] = e
    BY <1>1, <1>2, <1>3, <2>1 DEF NewestAhead, e
  <2>3. e \in futures[k] => k = m
    BY <1>2, <1>3, <2>1 DEF WaitersKept
  <2>4. e \in hand'.futures => hand'.func = e /\ futures'[m] = {}
    BY <1>1, <1>2, <1>3, <2>1, <2>3 DEF NewestAhead, e
  <2>5. ASSUME call[e] = "done"
        PROVE  /\ shown[m] = issued[m] /\ futures'[m] = {}
               /\ hand'.func \in Edits => hand'.func[1] # m
    <3>1. shown[m] = issued[m] /\ futures[m] = {}
      BY <2>1, <2>5 DEF NewestAhead, e
    <3>2. k # m
      <4>1. 1 \in DOMAIN queue /\ k = queue[1]
        BY <1>1 DEF k
      <4>2. futures[k] # {}
        BY <4>1 DEF Inv, NoWaiterLost, QueueExact, ToSet
      <4> QED
        BY <3>1, <4>2
    <3>3. func[k] \in Edits => func[k][1] = k
      BY <1>2, <1>3, JobsAssumption DEF FuncKeyed, KeyOf, Jobs
    <3> QED
      BY <1>1, <1>2, <1>3, <2>1, <3>1, <3>2, <3>3
  <2> QED
    BY <1>1, <2>2, <2>4, <2>5 DEF NewestAhead, e
<1> QED
  BY <1>1, <1>4, <1>5, <1>6 DEF NewestInv

(***************************************************************************)
(* The worker is done with the entry in its hand, or is stopped: whoever   *)
(* waited for it is answered or left, and the screen shows its edit only.  *)
(***************************************************************************)
LEMMA HandEmptied ==
    ASSUME Inv, NewestInv, hand' = Empty, UNCHANGED <<issued, entryVars, overtaken>>,
           NEW done \in BOOLEAN,
           shown' = Applied(hand.func) \/ (~done /\ shown' = shown),
           \A j \in Jobs :
               \/ call'[j] = call[j]
               \/ j \in hand.futures /\ call'[j] # "none" /\ (call'[j] = "done" => done)
    PROVE  NewestInv'
<1>1. None \notin Edits /\ WaitersKept /\ shown \in [Screens -> 0 .. MaxEdits]
  BY JobsAssumption DEF Jobs, Inv, NoWaiterLost, TypeOK
<1>2. FuncKeyed'
  BY DEF NewestInv, FuncKeyed, KeyOf, entryVars
<1>3. AskedOnly'
  <2> SUFFICES ASSUME NEW m \in Screens, NEW n \in 1 .. MaxEdits, call'[<<m, n>>] # "none"
               PROVE  n <= issued[m]
    BY DEF AskedOnly
  <2>1. <<m, n>> \in Jobs
    BY DEF Jobs, Edits
  <2>2. call[<<m, n>>] # "none"
    BY <1>1, <2>1 DEF WaitersKept
  <2> QED
    BY <2>2 DEF NewestInv, AskedOnly
<1>4. ASSUME NEW m \in Screens, m \notin overtaken, issued[m] > 0
      PROVE  NewestAhead(m)'
  <2> DEFINE e == <<m, issued[m]>>
  <2>1. e \in Edits /\ e \in Jobs /\ NewestAhead(m)
    BY <1>4, NewestIsEdit DEF Inv, NewestInv
  <2> HIDE DEF e
  <2>2. e \in futures'[m] => func'[m] = e
    BY <2>1 DEF NewestAhead, e, entryVars
  <2>3. e \notin hand'.futures /\ hand'.func \notin Edits
    BY <1>1 DEF Empty
  <2>4. ASSUME call'[e] = "done"
        PROVE  shown'[m] = issued[m] /\ futures[m] = {}
    <3>1. CASE e \in hand.futures
      <4>1. hand.func = e /\ futures[m] = {} /\ call[e] # "done"
        BY <1>1, <2>1, <3>1 DEF NewestAhead, e, WaitersKept
      <4>2. shown' = Applied(e)
        BY <2>1, <2>4, <4>1
      <4>3. e[1] = m /\ e[2] = issued[m]
        BY DEF e
      <4> QED
        BY <1>1, <2>1, <4>1, <4>2, <4>3 DEF Applied
    <3>2. CASE e \notin hand.futures
      <4>1. shown[m] = issued[m] /\ futures[m] = {} /\ (hand.func \in Edits => hand.func[1] # m)
        BY <2>1, <2>4, <3>2 DEF NewestAhead, e
      <4> QED
        BY <1>1, <4>1 DEF Applied
    <3> QED
      BY <3>1, <3>2
  <2> QED
    BY <2>2, <2>3, <2>4 DEF NewestAhead, e, entryVars
<1> QED
  BY <1>2, <1>3, <1>4 DEF NewestInv

LEMMA NewestStep == Inv /\ Inv' /\ NewestInv /\ [Next]_vars => NewestInv'
<1> SUFFICES ASSUME Inv, Inv', NewestInv, [Next]_vars PROVE NewestInv'
  OBVIOUS
<1>1. CASE \/ \E m \in Screens : Edit(m)
           \/ \E s \in Sends : Send(s)
           \/ \E i \in DOMAIN sleepers : Wake(i)
  BY <1>1, CallersKeepNewest
<1>2. CASE Take
  BY <1>2, TakeKeepsNewest
<1>3. CASE Calls \/ PauseEnds \/ UNCHANGED vars
  <2>1. UNCHANGED <<callVars, entryVars, hand, shown, overtaken>>
    BY <1>3 DEF Calls, PauseEnds, vars
  <2> QED
    BY <2>1 DEF NewestInv, FuncKeyed, AskedOnly, NewestAhead, KeyOf, callVars, entryVars
<1>4. CASE Succeeds
  <2>1. \A j \in Jobs : call'[j] = IF j \in hand.futures THEN "done" ELSE call[j]
    BY <1>4 DEF Succeeds, Answer
  <2> QED
    BY <1>4, <2>1, HandEmptied DEF Succeeds
<1>5. CASE Fails
  <2>1. PICK transient \in BOOLEAN :
          /\ shown' \in {shown, Applied(hand.func)}
          /\ call' = Answer([j \in Jobs |->
                                IF j \in Retrying(transient) THEN "asleep" ELSE "failed"])
    BY <1>5 DEF Fails
  <2>2. \A j \in Jobs :
          call'[j] = call[j] \/ (j \in hand.futures /\ call'[j] \in {"asleep", "failed"})
    BY <2>1 DEF Answer
  <2> QED
    BY <1>5, <2>1, <2>2, HandEmptied DEF Fails
<1>6. CASE Shutdown
  <2>1. /\ shown' \in {shown, Applied(hand.func)} /\ hand' = Empty
        /\ UNCHANGED <<issued, call, entryVars, overtaken>>
    BY <1>6 DEF Shutdown, callVars
  <2> QED
    BY <2>1, HandEmptied
<1> QED
  BY <1>1, <1>2, <1>3, <1>4, <1>5, <1>6 DEF Next, Works

\* The limiter merges the edits of a screen and tries failed ones again, and once
\* the newest one is done it is what the screen shows, unless an older one that
\* slept was queued after it: for any number of screens, edits and retries.
THEOREM NewestShownCorrect == Spec => []NewestShown
<1>1. Init => NewestInv
  <2> SUFFICES ASSUME Init PROVE NewestInv
    OBVIOUS
  <2>1. FuncKeyed /\ AskedOnly
    BY DEF Init, FuncKeyed, AskedOnly, Jobs, Edits
  <2>2. \A m \in Screens : ~(issued[m] > 0)
    BY DEF Init
  <2> QED
    BY <2>1, <2>2 DEF NewestInv
<1>2. NewestInv => NewestShown
  BY DEF NewestInv, NewestAhead, NewestShown
<1> QED
  BY <1>1, <1>2, InvAlways, NewestStep, PTL DEF Spec
=============================================================================
