----------------------------- MODULE KeyRotation -----------------------------
(***************************************************************************)
(* The pool of OpenRouter API keys (OpenRouterKeyManager) and the requests *)
(* that share it: the send loop of _validated_stream_send inside the       *)
(* attempts of execute_with_retry, and the loop of                         *)
(* _send_model_list_request.                                               *)
(*                                                                         *)
(* The headers of a request take the current key when it is sent; its      *)
(* answer is handled when it arrives, and blames the key that is current   *)
(* then.  One action is the code between two awaits: a request in flight,  *)
(* the closing of a refused response, the back-off between two attempts.   *)
(*                                                                         *)
(* Time, the limiter's windows and the streamed body are left out here; a  *)
(* stream that ends and a request that starts over is a new request.       *)
(***************************************************************************)
EXTENDS Integers, Sequences, SequencesExt

CONSTANTS
    Requests,    \* the requests in progress at once
    KeyIds,      \* API keys
    KeyFiles,    \* the key lists the provider may have been configured with
    MaxAttempts  \* UPSTREAM_TRANSIENT_TOTAL_ATTEMPTS

ASSUME KeyFilesAssumption == KeyFiles \subseteq Seq(KeyIds)
ASSUME AttemptsAssumption == MaxAttempts \in Nat \ {0}

NoKey == "no key"     \* get_current_key of an empty pool
ASSUME NoKeyAssumption == NoKey \notin KeyIds

VARIABLES
    keys,       \* keys: one key may appear twice in a file
    current,    \* current_index, counted from 1
    healthy,    \* the keys whose KeyState.healthy is true
    exhausted,  \* the keys whose KeyState.exhausted is true
    pc,         \* where request r stands
    kind,       \* whether r streams messages or lists the models
    sent,       \* the key in the Authorization header of r
    left,       \* sends left in the loop of r after this one
    attempts,   \* attempts of execute_with_retry left after this one
    refusals,   \* history: what each key answered in the current loop of r
    disturbed   \* history: requests in whose loop another one changed the pool

pool     == <<keys, current, healthy, exhausted>>
requests == <<pc, kind, sent, left, attempts, refusals, disturbed>>
vars == <<pool, requests>>

\* 401 or 429, and 402; another client error or no response at all, and a server
\* error, end the loop.
Refusals == {"rejected", "out_of_credit"}
Failures == {"error", "server_error"}

KeySet == ToSet(keys)
CurrentKey == IF keys = <<>> THEN NoKey ELSE keys[current]

\* max(1, len(keys)) sends, the first one included.
MaxSends == IF keys = <<>> THEN 1 ELSE Len(keys)

-----------------------------------------------------------------------------
Init ==
    /\ keys \in KeyFiles
    /\ current = 1
    /\ healthy = KeySet
    /\ exhausted = {}
    /\ pc = [r \in Requests |-> "idle"]
    /\ kind = [r \in Requests |-> "messages"]
    /\ sent = [r \in Requests |-> NoKey]
    /\ left = [r \in Requests |-> 0]
    /\ attempts = [r \in Requests |-> 0]
    /\ refusals = [r \in Requests |-> {}]
    /\ disturbed = {}

-----------------------------------------------------------------------------
(* OpenRouterKeyManager. *)

\* The index d places further on, round the pool.
Ahead(d) == IF current + d > Len(keys) THEN current + d - Len(keys) ELSE current + d

\* rotate_key: the current key is unhealthy; on to the next key that is not
\* exhausted, or all the way round to the same one.
\* mutant: stops at the next key whatever its state.
RotateByOne ==
    IF keys = <<>> THEN UNCHANGED <<current, healthy>>
    ELSE /\ healthy' = healthy \ {CurrentKey}
         /\ current' = Ahead(1)

RotateKey ==
    IF keys = <<>> THEN UNCHANGED <<current, healthy>>
    ELSE /\ healthy' = healthy \ {CurrentKey}
         /\ \E d \in 1 .. Len(keys) :
                /\ keys[Ahead(d)] \notin exhausted \/ d = Len(keys)
                /\ \A e \in 1 .. d - 1 : keys[Ahead(e)] \in exhausted
                /\ current' = Ahead(d)

\* mark_key_exhausted: the current key keeps its turn.
MarkExhausted ==
    IF keys = <<>> THEN UNCHANGED <<healthy, exhausted>>
    ELSE /\ healthy' = healthy \ {CurrentKey}
         /\ exhausted' = exhausted \union {CurrentKey}

\* What the loop does to the pool for a refusal; mutant: 402 does not spoil the
\* health of its key.
BlameSoftly(st) ==
    IF st = "out_of_credit"
    THEN exhausted' = exhausted \union {CurrentKey} /\ UNCHANGED <<current, healthy>>
    ELSE RotateKey /\ UNCHANGED exhausted

BlameKey(st) ==
    IF st = "out_of_credit"
    THEN MarkExhausted /\ UNCHANGED current
    ELSE RotateKey /\ UNCHANGED exhausted

-----------------------------------------------------------------------------
(* The requests. *)

\* The request r goes out again, with the key that is current now.
SendAgain(r) ==
    /\ pc' = [pc EXCEPT ![r] = "sending"]
    /\ sent' = [sent EXCEPT ![r] = CurrentKey']
    /\ left' = [left EXCEPT ![r] = @ - 1]

\* The loop of r is over, and its locals are gone.
EndLoop(r) ==
    /\ sent' = [sent EXCEPT ![r] = NoKey]
    /\ left' = [left EXCEPT ![r] = 0]
    /\ refusals' = [refusals EXCEPT ![r] = {}]
    /\ disturbed' = disturbed \ {r}

\* The first send of a loop.  mutant: one send fewer than keys.
StartShort(r) ==
    /\ pc' = [pc EXCEPT ![r] = "sending"]
    /\ sent' = [sent EXCEPT ![r] = CurrentKey]
    /\ left' = [left EXCEPT ![r] = MaxSends - 2]
    /\ refusals' = [refusals EXCEPT ![r] = {}]
    /\ disturbed' = disturbed \ {r}

StartLoop(r) ==
    /\ pc' = [pc EXCEPT ![r] = "sending"]
    /\ sent' = [sent EXCEPT ![r] = CurrentKey]
    /\ left' = [left EXCEPT ![r] = MaxSends - 1]
    /\ refusals' = [refusals EXCEPT ![r] = {}]
    /\ disturbed' = disturbed \ {r}

Begin(r, k) ==
    /\ pc[r] = "idle"
    /\ kind' = [kind EXCEPT ![r] = k]
    /\ attempts' = [attempts EXCEPT ![r] = IF k = "messages" THEN MaxAttempts - 1 ELSE 0]
    /\ StartLoop(r)
    /\ UNCHANGED pool

\* 200: the response is streamed, or parsed.
Accepted(r) ==
    /\ pc[r] = "sending"
    /\ pc' = [pc EXCEPT ![r] = "streaming"]
    /\ EndLoop(r)
    /\ UNCHANGED <<pool, kind, attempts>>

InLoop(r) == pc[r] \in {"sending", "closing"}

Refuse(r, st) ==
    /\ pc[r] = "sending"
    /\ BlameKey(st)
    /\ refusals' = [refusals EXCEPT ![r] = @ \union {<<sent[r], st>>}]
    /\ disturbed' = disturbed \union {q \in Requests \ {r} : InLoop(q)}
    /\ UNCHANGED <<keys, kind, attempts>>

\* A refused message request closes its response before it goes on.
Refused(r, st) ==
    /\ kind[r] = "messages"
    /\ Refuse(r, st)
    /\ pc' = [pc EXCEPT ![r] = "closing"]
    /\ UNCHANGED <<sent, left>>

\* Closed: the loop sends again.
Resend(r) ==
    /\ pc[r] = "closing"
    /\ left[r] > 0
    /\ UNCHANGED <<pool, kind, attempts, refusals, disturbed>>
    /\ SendAgain(r)

\* Closed, and no send is left: _raise_for_status reads the body of a response
\* that is closed, so what leaves it is httpx.StreamClosed, which
\* execute_with_retry does not retry.
GivesUp(r) ==
    /\ pc[r] = "closing"
    /\ left[r] = 0
    /\ pc' = [pc EXCEPT ![r] = "failed"]
    /\ UNCHANGED <<pool, kind, sent, left, attempts, refusals, disturbed>>

\* The response of /models is read completely, hence closed already: the loop
\* sends again at once, or returns what it has.
ListRefused(r, st) ==
    /\ kind[r] = "models"
    /\ Refuse(r, st)
    /\ IF left[r] > 0
       THEN SendAgain(r)
       ELSE pc' = [pc EXCEPT ![r] = "failed"] /\ UNCHANGED <<sent, left>>

\* Any other answer ends the loop; a 5xx is retried by execute_with_retry.
Errs(r, st) ==
    /\ pc[r] = "sending"
    /\ pc' = [pc EXCEPT ![r] =
                IF st = "server_error" /\ attempts[r] > 0 THEN "backoff" ELSE "failed"]
    /\ EndLoop(r)
    /\ UNCHANGED <<pool, kind, attempts>>

\* The back-off is over.  mutant: the attempts are not counted.
RetryForever(r) ==
    /\ pc[r] = "backoff"
    /\ StartLoop(r)
    /\ UNCHANGED <<pool, kind, attempts>>

Retry(r) ==
    /\ pc[r] = "backoff"
    /\ attempts' = [attempts EXCEPT ![r] = @ - 1]
    /\ StartLoop(r)
    /\ UNCHANGED <<pool, kind>>

\* The stream or the error envelope is delivered, and the locals of the request
\* are gone; the client may come back.
Done(r) ==
    /\ pc[r] \in {"streaming", "failed"}
    /\ pc' = [pc EXCEPT ![r] = "idle"]
    /\ kind' = [kind EXCEPT ![r] = "messages"]
    /\ attempts' = [attempts EXCEPT ![r] = 0]
    /\ EndLoop(r)
    /\ UNCHANGED pool

\* Whatever the upstream answers.
Answered(r) ==
    \/ Accepted(r)
    \/ \E st \in Refusals : Refused(r, st) \/ ListRefused(r, st)
    \/ \E st \in Failures : Errs(r, st)

Continues(r) == Resend(r) \/ GivesUp(r) \/ Retry(r)

Next ==
    \E r \in Requests :
        \/ \E k \in {"messages", "models"} : Begin(r, k)
        \/ Answered(r)
        \/ Continues(r)
        \/ Done(r)

Spec == Init /\ [][Next]_vars

\* The HTTP client has read and connect timeouts, so every send is answered or
\* fails; the event loop resumes what is ready.  No client has to come back.
FairSpec == Spec /\ \A r \in Requests : WF_vars(Answered(r) \/ Continues(r))

-----------------------------------------------------------------------------
\* Every variable ranges over the values its Python counterpart can hold.
TypeOK ==
    /\ keys \in Seq(KeyIds)
    /\ current \in 1 .. MaxSends
    /\ healthy \in SUBSET KeySet
    /\ exhausted \in SUBSET KeySet
    /\ pc \in [Requests -> {"idle", "sending", "closing", "backoff", "streaming", "failed"}]
    /\ kind \in [Requests -> {"messages", "models"}]
    /\ sent \in [Requests -> KeyIds \union {NoKey}]
    /\ left \in [Requests -> Nat]
    /\ attempts \in [Requests -> Nat]
    /\ refusals \in [Requests -> SUBSET ((KeyIds \union {NoKey}) \X Refusals)]
    /\ disturbed \subseteq Requests

\* Whoever rotates, and however many do it at once: the pool moves on only to a
\* key that is not exhausted, and stays put only if all other keys are.
RotationSound ==
    [][/\ current' # current => CurrentKey' \notin exhausted
       /\ current' = current /\ healthy' # healthy /\ exhausted' = exhausted =>
            \A k \in KeySet \ {CurrentKey} : k \in exhausted]_vars

\* get_status: a key is never counted both healthy and exhausted, whatever the
\* order in which the answers of several requests arrive.
StatusDisjoint == healthy \intersect exhausted = {}

\* A request that gives up because its keys were refused asked every key that
\* still has credit, if no other request moved the pool in its loop, and unless a
\* key answered 402 in this loop: that answer does not move the pool on.
AllKeysTried ==
    \A r \in Requests \ disturbed :
        /\ pc[r] = "failed" /\ refusals[r] # {}
        /\ \A k \in KeySet : <<k, "out_of_credit">> \notin refusals[r]
        => \A k \in KeySet \ exhausted : \E st \in Refusals : <<k, st>> \in refusals[r]

\* The refusals a request gets concern the key that the pool blames for them, if
\* no other request moved the pool in its loop: a key it was refused with is
\* unhealthy, and exhausted after a 402.
RefusedAreBlamed ==
    \A r \in Requests \ disturbed : \A a \in refusals[r] :
        a[1] # NoKey =>
            a[1] \notin healthy /\ (a[2] = "out_of_credit" => a[1] \in exhausted)

\* Every request ends: it gets its stream or an error.
RequestEnds ==
    \A r \in Requests : pc[r] = "sending" ~> pc[r] \in {"streaming", "failed"}
=============================================================================
