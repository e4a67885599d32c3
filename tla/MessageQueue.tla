---------------------------- MODULE MessageQueue ----------------------------
(***************************************************************************)
(* The queue of outgoing chat messages (messaging/limiter.py).  Callers    *)
(* put a function under a key and wait for its result; a function put      *)
(* under a key that is queued already replaces the one there, and its      *)
(* caller joins those that wait.  One worker takes the keys in order.      *)
(*                                                                         *)
(* A screen is a chat message that is edited again and again, its id the   *)
(* key of every edit; the edits of a screen are numbered in the order they *)
(* are queued.  Sending and deleting are awaited by whoever asks.  What    *)
(* runs between two awaits of the event loop is one action.                *)
(***************************************************************************)
EXTENDS Integers, Sequences, SequencesExt

CONSTANTS
    Screens,      \* chat messages that are edited
    Sends,        \* awaited sends and deletions
    SendKey,      \* their keys; two deletions of the same messages share one
    MaxEdits,     \* bound: edits of one screen
    MaxRetries,   \* max_retries of fire_and_forget
    None          \* no function

Edits == Screens \X (1 .. MaxEdits)
Jobs  == Edits \union Sends
Keys  == Screens \union {SendKey[s] : s \in Sends}

ASSUME KeysAssumption == Screens \cap {SendKey[s] : s \in Sends} = {}
ASSUME JobsAssumption == Edits \cap Sends = {} /\ None \notin Jobs /\ IsFiniteSet(Jobs)
ASSUME RetriesAssumption == MaxRetries \in Nat /\ MaxEdits \in Nat

KeyOf(j) == IF j \in Edits THEN j[1] ELSE SendKey[j]

VARIABLES
    issued,      \* edits of screen m queued so far
    call,        \* what became of a job, as its caller sees it
    retries,     \* how often a job may still be queued again
    queue,       \* _queue_list
    func,        \* _queue_map: whose function is queued under a key ...
    futures,     \*     ... and who waits for its result
    worker,      \* where _worker stands
    hand,        \* the entry it took: function and waiters
    paused,      \* _paused_until is yet to come
    sleepers,    \* callers that back off, in the order they fell asleep
    shown,       \* the edit a screen shows, 0 for what was sent first
    overtaken    \* history: screens where an older edit was queued after a newer

callVars == <<issued, call, retries, sleepers>>
entryVars == <<queue, func, futures>>
vars == <<callVars, entryVars, worker, hand, paused, shown, overtaken>>

Empty == [func |-> None, futures |-> {}]
down == worker = "stopped"

Init ==
    /\ issued = [m \in Screens |-> 0]
    /\ call = [j \in Jobs |-> "none"]
    /\ retries = [j \in Jobs |-> 0]
    /\ queue = <<>>
    /\ func = [k \in Keys |-> None]
    /\ futures = [k \in Keys |-> {}]
    /\ worker = "idle"
    /\ hand = Empty
    /\ paused = FALSE
    /\ sleepers = <<>>
    /\ shown = [m \in Screens |-> 0]
    /\ overtaken = {}

-----------------------------------------------------------------------------
(* The callers. *)

\* _enqueue_internal_multi.  mutant: the function queued first stays.
KeepFirst(j) ==
    LET k == KeyOf(j)
    IN  /\ queue' = IF futures[k] = {} THEN Append(queue, k) ELSE queue
        /\ func' = [func EXCEPT ![k] = IF futures[k] = {} THEN j ELSE @]
        /\ futures' = [futures EXCEPT ![k] = @ \union {j}]

\* mutant: those who waited for the replaced function are forgotten.
ForgetWaiters(j) ==
    LET k == KeyOf(j)
    IN  /\ queue' = IF futures[k] = {} THEN Append(queue, k) ELSE queue
        /\ func' = [func EXCEPT ![k] = j]
        /\ futures' = [futures EXCEPT ![k] = {j}]

Enqueue(j) ==
    LET k == KeyOf(j)
    IN  /\ queue' = IF futures[k] = {} THEN Append(queue, k) ELSE queue
        /\ func' = [func EXCEPT ![k] = j]
        /\ futures' = [futures EXCEPT ![k] = @ \union {j}]

\* enqueue: job j may be queued r more times, an awaited one never is.
Ask(j, r) ==
    /\ call[j] = "none"
    /\ call' = [call EXCEPT ![j] = "waits"]
    /\ retries' = [retries EXCEPT ![j] = r]
    /\ Enqueue(j)
    /\ UNCHANGED <<worker, hand, paused, sleepers, shown, overtaken>>

\* queue_edit_message, fire_and_forget or awaited.
Edit(m) ==
    /\ issued[m] < MaxEdits
    /\ issued' = [issued EXCEPT ![m] = @ + 1]
    /\ \E r \in {0, MaxRetries} : Ask(<<m, issued[m] + 1>>, r)

\* queue_send_message and queue_delete_messages.
Send(s) ==
    /\ Ask(s, 0)
    /\ UNCHANGED issued

\* _wrapped queues its function once more.  Sleeps double, so whoever fell
\* asleep earlier and for no longer wakes first.
Wake(i) ==
    LET e == sleepers[i]
    IN  /\ \A h \in 1 .. i - 1 : retries[sleepers[h]] < retries[e]
        /\ sleepers' = RemoveAt(sleepers, i)
        /\ call' = [call EXCEPT ![e] = "waits"]
        /\ Enqueue(e)
        /\ overtaken' = IF issued[e[1]] > e[2] THEN overtaken \union {e[1]} ELSE overtaken
        /\ UNCHANGED <<issued, retries, worker, hand, paused, shown>>

-----------------------------------------------------------------------------
(* The worker. *)

\* The oldest key and all who wait for it; a pause is waited for.
Take ==
    /\ worker = "idle"
    /\ queue # <<>>
    /\ LET k == Head(queue)
       IN  /\ hand' = [func |-> func[k], futures |-> futures[k]]
           /\ func' = [func EXCEPT ![k] = None]
           /\ futures' = [futures EXCEPT ![k] = {}]
    /\ queue' = Tail(queue)
    /\ worker' = IF paused THEN "paused" ELSE "ready"
    /\ UNCHANGED <<callVars, paused, shown, overtaken>>

\* The pause ends, under the worker's sleep or while there is nothing to do.
PauseEnds ==
    /\ paused /\ ~down
    /\ paused' = FALSE
    /\ worker' = IF worker = "paused" THEN "ready" ELSE worker
    /\ UNCHANGED <<callVars, entryVars, hand, shown, overtaken>>

\* The rolling window has room and the function is called.
Calls ==
    /\ worker = "ready"
    /\ worker' = "sending"
    /\ UNCHANGED <<callVars, entryVars, hand, paused, shown, overtaken>>

\* The chat shows edit j; a send shows on no screen.
Applied(j) == IF j \in Edits THEN [shown EXCEPT ![j[1]] = j[2]] ELSE shown

\* All who wait get the answer.  mutant: only the function's own caller does.
AnswerOwn(answer) ==
    [j \in Jobs |-> IF j = hand.func THEN answer[j] ELSE call[j]]

Answer(answer) ==
    [j \in Jobs |-> IF j \in hand.futures THEN answer[j] ELSE call[j]]

Succeeds ==
    /\ worker = "sending"
    /\ worker' = "idle"
    /\ hand' = Empty
    /\ shown' = Applied(hand.func)
    /\ call' = Answer([j \in Jobs |-> "done"])
    /\ UNCHANGED <<issued, retries, sleepers, entryVars, paused, overtaken>>

\* Who of the waiters sleeps and tries again when the failure is a transient
\* one.  mutant: attempts are not counted.
AlwaysRetry(transient) ==
    IF transient THEN hand.futures \cap Edits ELSE {}

Retrying(transient) ==
    IF transient THEN {j \in hand.futures : retries[j] > 0} ELSE {}

\* The function fails.  A flood pauses the worker; a connection that breaks is
\* transient, and what was sent may be shown all the same.  One text may read
\* as both.
Fails ==
    /\ worker = "sending"
    /\ worker' = "idle"
    /\ hand' = Empty
    /\ \E flood, transient \in BOOLEAN :
        /\ paused' = flood
        /\ shown' \in IF transient THEN {shown, Applied(hand.func)} ELSE {shown}
        /\ LET again == Retrying(transient)
           IN  /\ call' = Answer([j \in Jobs |-> IF j \in again THEN "asleep" ELSE "failed"])
               /\ retries' = [j \in Jobs |-> IF j \in again THEN retries[j] - 1 ELSE retries[j]]
               /\ sleepers' \in {sleepers \o s : s \in SetToSeqs(again)}
    /\ UNCHANGED <<issued, entryVars, overtaken>>

\* shutdown: the worker is cancelled wherever it is, and a call on its way
\* to the chat may arrive.  Nobody answers those who wait.
Shutdown ==
    /\ ~down
    /\ worker' = "stopped"
    /\ hand' = Empty
    /\ shown' \in IF worker = "sending" THEN {shown, Applied(hand.func)} ELSE {shown}
    /\ UNCHANGED <<callVars, entryVars, paused, overtaken>>

-----------------------------------------------------------------------------
Works == Take \/ Calls \/ Succeeds \/ Fails

Next ==
    \/ \E m \in Screens : Edit(m)
    \/ \E s \in Sends : Send(s)
    \/ \E i \in DOMAIN sleepers : Wake(i)
    \/ Works
    \/ PauseEnds
    \/ Shutdown

Spec == Init /\ [][Next]_vars

\* The worker is scheduled, a call ends, time passes.
FairSpec ==
    /\ Spec
    /\ WF_vars(Works)
    /\ WF_vars(PauseEnds)
    /\ WF_vars(\E i \in DOMAIN sleepers : Wake(i))

-----------------------------------------------------------------------------
\* Every variable ranges over what its Python counterpart can hold.
TypeOK ==
    /\ issued \in [Screens -> 0 .. MaxEdits]
    /\ call \in [Jobs -> {"none", "waits", "asleep", "done", "failed"}]
    /\ retries \in [Jobs -> 0 .. MaxRetries]
    /\ queue \in Seq(Keys)
    /\ func \in [Keys -> Jobs \union {None}]
    /\ futures \in [Keys -> SUBSET Jobs]
    /\ worker \in {"idle", "paused", "ready", "sending", "stopped"}
    /\ hand \in [func : Jobs \union {None}, futures : SUBSET Jobs]
    /\ paused \in BOOLEAN
    /\ sleepers \in Seq(Edits)
    /\ shown \in [Screens -> 0 .. MaxEdits]
    /\ overtaken \subseteq Screens

\* The queue names every entry once, and no other key.
QueueExact ==
    /\ \A i, j \in DOMAIN queue : queue[i] = queue[j] => i = j
    /\ ToSet(queue) = {k \in Keys : futures[k] # {}}

\* Whoever is in an entry waits, and whoever waits is in exactly one, that of its
\* key or the one the worker holds, until a shutdown takes it from the worker.
WaitersKept ==
    \A j \in Jobs :
        /\ j \in hand.futures => call[j] = "waits" /\ j \notin futures[KeyOf(j)]
        /\ \A k \in Keys : j \in futures[k] => call[j] = "waits" /\ k = KeyOf(j)
        /\ call[j] = "waits" /\ ~down => j \in hand.futures \union futures[KeyOf(j)]

\* _enqueue_internal_multi and the worker lose nobody who waits for a result, and
\* no entry: merging edits of one key, retries and floods included.
NoWaiterLost == QueueExact /\ WaitersKept

\* "only the latest version of a message update is processed": once the newest
\* edit of a screen is done it is what the screen shows, unless an older edit
\* that slept was queued after it.
NewestShown ==
    \A m \in Screens \ overtaken :
        issued[m] > 0 /\ call[<<m, issued[m]>>] = "done" => shown[m] = issued[m]

\* Whoever asks is answered, whatever is queued after it and however its
\* function fails, unless the limiter is shut down.
Answered ==
    \A j \in Jobs : call[j] \in {"waits", "asleep"} ~> call[j] \in {"done", "failed"} \/ down
=============================================================================
