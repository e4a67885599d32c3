--------------------------- MODULE ProviderLimiter ---------------------------
(***************************************************************************)
(* GlobalRateLimiter (providers/rate_limit.py) and the streamed requests   *)
(* of one provider that share it: the concurrency slot around a request,   *)
(* the reactive block and the rolling window before each upstream call,    *)
(* the retries of execute_with_retry, and the calls that reopen or recover *)
(* a broken stream while the slot is held (anthropic_messages.py).         *)
(*                                                                         *)
(* One action is the code between two awaits: the slot, a sleep, a call in *)
(* flight, the stream, the closing of a response.  The window is the one   *)
(* of SlidingWindow.  A request is one call of stream_response.            *)
(***************************************************************************)
EXTENDS Integers, Sequences, SequencesExt

CONSTANTS
    Requests,
    RateLimit, RateWindow,   \* the rolling window, in calls and in ticks
    MaxConcurrency,          \* _max_concurrency
    MaxRetries,              \* DEFAULT_UPSTREAM_MAX_RETRIES
    BaseDelay, MaxDelay,     \* base_delay and max_delay, in ticks
    Jitter,                  \* the largest jitter, in ticks
    FinalBlock,              \* the 60 s of map_error, in ticks
    MaxReopens               \* EARLY_TRANSPARENT_MAX_RETRIES, and MIDSTREAM_RECOVERY_ATTEMPTS - 1

ASSUME RequestsAssumption == IsFiniteSet(Requests)
ASSUME RatesAssumption == RateLimit \in Nat \ {0} /\ RateWindow \in Nat \ {0}
ASSUME ConcurrencyAssumption == MaxConcurrency \in Nat \ {0}
ASSUME RetriesAssumption == MaxRetries \in Nat /\ MaxReopens \in Nat
ASSUME DelaysAssumption ==
    BaseDelay \in Nat /\ MaxDelay \in Nat /\ Jitter \in Nat /\ FinalBlock \in Nat

VARIABLES
    \* --- the rolling window, as in SlidingWindow ---
    now,            \* time.monotonic, in ticks
    times,          \* _proactive_limiter._times
    stage,          \* where request r stands
    wake,           \* when the sleep of r is over
    granted,        \* history: when calls went to the upstream
    \* --- the reactive block ---
    blocked_until,  \* _blocked_until
    leaks,          \* history: calls made during the block that was set last
    \* --- the concurrency semaphore ---
    free,           \* its value
    waiters,        \* its waiters, oldest first
    slot,           \* what r has of it
    \* --- locals of the request ---
    attempt,        \* attempt of execute_with_retry
    mode,           \* whether r streams its answer, or recovers a broken one
    reopens         \* calls that reopened (or recovered) the stream of r

window    == <<times, granted>>
block     == <<blocked_until, leaks>>
semaphore == <<free, waiters, slot>>
locals    == <<attempt, mode, reopens>>
vars == <<now, window, stage, wake, block, semaphore, locals>>

Init ==
    /\ now = 0
    /\ times = <<>>
    /\ granted = <<>>
    /\ stage = [r \in Requests |-> "idle"]
    /\ wake = [r \in Requests |-> 0]
    /\ blocked_until = 0
    /\ leaks = 0
    /\ free = MaxConcurrency
    /\ waiters = <<>>
    /\ slot = [r \in Requests |-> "none"]
    /\ attempt = [r \in Requests |-> 0]
    /\ mode = [r \in Requests |-> "stream"]
    /\ reopens = [r \in Requests |-> 0]

Move(r, to) == stage' = [stage EXCEPT ![r] = to]

Blocked == now < blocked_until

-----------------------------------------------------------------------------
(* The concurrency slot: an asyncio.Semaphore.                             *)

\* A waiter that was handed the slot stays among the waiters until it resumes.
Queued == {w \in Requests : slot[w] = "queued"}

Before(v, w) == \E i, j \in DOMAIN waiters : i < j /\ waiters[i] = v /\ waiters[j] = w

\* r leaves the waiters, if it is one, with the given claim on a slot; of the n
\* slots that are free, as many as may go to the others that queue, oldest first.
HandOver(r, claim, n, most) ==
    LET others == Queued \ {r}
    IN  \E H \in SUBSET others :
            /\ Cardinality(H) = Min({n, most, Cardinality(others)})
            /\ \A v \in H, w \in others \ H : Before(v, w)
            /\ free' = n - Cardinality(H)
            /\ waiters' = RemoveFirst(waiters, r)
            /\ slot' = [w \in Requests |->
                            IF w = r THEN claim ELSE IF w \in H THEN "handed" ELSE slot[w]]

\* release: the slot goes to the first waiter.  mutants: it is not released on
\* the way out, or twice.
LeaveSilently(r) == HandOver(r, "none", free, 0)
ReleaseTwice(r) == HandOver(r, "none", free + 2, 2)
Release(r) == HandOver(r, "none", free + 1, 1)

\* A cancelled wait passes on what was handed to it.
CancelWait(r) ==
    HandOver(r, "none", IF slot[r] = "handed" THEN free + 1 ELSE free, Len(waiters))

-----------------------------------------------------------------------------
(* wait_if_blocked. *)

Window == INSTANCE SlidingWindow WITH Callers <- Requests, MaxIdle <- 0

\* acquire of the rolling window; once through, the call is made at once.
\* mutant: the call is made whether the window has room or not.
SendAnyway(r) ==
    /\ Move(r, "sending")
    /\ granted' = Append(granted, now)
    /\ leaks' = IF Blocked THEN leaks + 1 ELSE leaks
    /\ UNCHANGED <<times, wake>>

AcquireWindow(r) ==
    /\ Window!Pass(r, "sending")
    /\ leaks' = IF Blocked /\ stage'[r] = "sending" THEN leaks + 1 ELSE leaks

\* The reactive check comes first, once; mutant: it is skipped.
NoCheck(r) == AcquireWindow(r)
WaitIfBlocked(r) ==
    IF Blocked
    THEN /\ Move(r, "blocked")
         /\ wake' = [wake EXCEPT ![r] = blocked_until]
         /\ UNCHANGED <<window, leaks>>
    ELSE AcquireWindow(r)

\* The block is over; nothing looks at it again.
Unblocked(r) ==
    /\ stage[r] = "blocked"
    /\ wake[r] <= now
    /\ AcquireWindow(r)
    /\ UNCHANGED <<now, blocked_until, semaphore, locals>>

WindowAgain(r) ==
    /\ stage[r] = "window"
    /\ wake[r] <= now
    /\ AcquireWindow(r)
    /\ UNCHANGED <<now, blocked_until, semaphore, locals>>

-----------------------------------------------------------------------------
(* A request arrives and gets its slot. *)

TakeSlot(r) == free' = free - 1 /\ slot' = [slot EXCEPT ![r] = "held"] /\ UNCHANGED waiters

\* The semaphore is not locked.
SlotFree == free > 0 /\ waiters = <<>>

Arrive(r) ==
    /\ stage[r] = "idle"
    /\ slot[r] = "none"
    /\ IF SlotFree
       THEN TakeSlot(r) /\ WaitIfBlocked(r)
       ELSE /\ waiters' = Append(waiters, r)
            /\ slot' = [slot EXCEPT ![r] = "queued"]
            /\ UNCHANGED <<free, window, stage, wake, leaks>>
    /\ UNCHANGED <<now, blocked_until, locals>>

Resume(r) ==
    /\ slot[r] = "handed"
    /\ HandOver(r, "held", free, Len(waiters))
    /\ WaitIfBlocked(r)
    /\ UNCHANGED <<now, blocked_until, locals>>

-----------------------------------------------------------------------------
(* execute_with_retry around one upstream call. *)

\* set_blocked: whatever the block was.
SetBlocked(ticks) == blocked_until' = now + ticks /\ leaks' = 0

BackoffOf(n) == IF BaseDelay * 2 ^ n < MaxDelay THEN BaseDelay * 2 ^ n ELSE MaxDelay

\* Arithmetic, stated because the provers know nothing of exponents.
ASSUME BackoffAssumption == \A n \in 0 .. MaxRetries : BackoffOf(n) \in Nat

Opens(r) ==
    /\ stage[r] = "sending"
    /\ Move(r, "streaming")
    /\ UNCHANGED <<now, window, wake, block, semaphore, locals>>

\* 429 or 5xx, with a retry left: block everybody and back off.
BacksOff(r) ==
    /\ stage[r] = "sending"
    /\ attempt[r] < MaxRetries
    /\ \E delay \in BackoffOf(attempt[r]) .. BackoffOf(attempt[r]) + Jitter :
           SetBlocked(delay) /\ wake' = [wake EXCEPT ![r] = now + delay]
    /\ Move(r, "backoff")
    /\ UNCHANGED <<now, window, semaphore, locals>>

RetryCall(r) ==
    /\ stage[r] = "backoff"
    /\ wake[r] <= now
    /\ attempt' = [attempt EXCEPT ![r] = @ + 1]
    /\ WaitIfBlocked(r)
    /\ UNCHANGED <<now, blocked_until, semaphore, mode, reopens>>

\* The last attempt got a 429 or a 5xx: map_error blocks for a 429.
Exhausted(r, st) ==
    /\ stage[r] = "sending"
    /\ attempt[r] = MaxRetries
    /\ mode[r] = "stream"
    /\ IF st = 429 THEN SetBlocked(FinalBlock) ELSE UNCHANGED block
    /\ Move(r, "ending")
    /\ UNCHANGED <<now, window, wake, semaphore, locals>>

\* Any other failure of a call ends the request, or its recovery.
CallFails(r) ==
    /\ stage[r] = "sending"
    /\ Move(r, "ending")
    /\ UNCHANGED <<now, window, wake, block, semaphore, locals>>

\* A recovery whose call failed goes on to its next one, with a fresh execute_with_retry.
RecoverAgain(r) ==
    /\ stage[r] = "sending"
    /\ mode[r] = "recovery"
    /\ reopens[r] < MaxReopens
    /\ reopens' = [reopens EXCEPT ![r] = @ + 1]
    /\ attempt' = [attempt EXCEPT ![r] = 0]
    /\ WaitIfBlocked(r)
    /\ UNCHANGED <<now, blocked_until, semaphore, mode>>

-----------------------------------------------------------------------------
(* The stream. *)

\* It is complete, or it broke for good.
StreamEnds(r) ==
    /\ stage[r] = "streaming"
    /\ Move(r, "ending")
    /\ UNCHANGED <<now, window, wake, block, semaphore, locals>>

\* It broke before anything was committed, or it was a recovery: close it.
Breaks(r) ==
    /\ stage[r] = "streaming"
    /\ reopens[r] < MaxReopens
    /\ reopens' = [reopens EXCEPT ![r] = @ + 1]
    /\ Move(r, "reopening")
    /\ UNCHANGED <<now, window, wake, block, semaphore, attempt, mode>>

\* Closed: the stream is opened again, under the same slot.
Reopen(r) ==
    /\ stage[r] = "reopening"
    /\ attempt' = [attempt EXCEPT ![r] = 0]
    /\ WaitIfBlocked(r)
    /\ UNCHANGED <<now, blocked_until, semaphore, mode, reopens>>

\* It broke after output was committed: ask for the rest at once.
Recover(r) ==
    /\ stage[r] = "streaming"
    /\ mode[r] = "stream"
    /\ mode' = [mode EXCEPT ![r] = "recovery"]
    /\ attempt' = [attempt EXCEPT ![r] = 0]
    /\ reopens' = [reopens EXCEPT ![r] = 0]
    /\ WaitIfBlocked(r)
    /\ UNCHANGED <<now, blocked_until, semaphore>>

\* The last events are delivered and the response is closed.
Finish(r) ==
    /\ stage[r] = "ending"
    /\ Release(r)
    /\ Move(r, "done")
    /\ UNCHANGED <<now, window, wake, block, locals>>

-----------------------------------------------------------------------------
(* The client disconnects, and the request is cancelled where it waits. *)

DisconnectWaiting(r) ==
    /\ slot[r] \in {"queued", "handed"}
    /\ CancelWait(r)
    /\ Move(r, "done")
    /\ UNCHANGED <<now, window, wake, block, locals>>

\* No response is open: the slot is released at once.
Disconnect(r) ==
    /\ stage[r] \in {"blocked", "window", "sending", "backoff"}
    /\ mode[r] = "stream"
    /\ Release(r)
    /\ Move(r, "done")
    /\ UNCHANGED <<now, window, wake, block, locals>>

\* A response has to be closed first.
DisconnectOpen(r) ==
    /\ \/ stage[r] \in {"streaming", "reopening"}
       \/ mode[r] = "recovery" /\ stage[r] \in {"blocked", "window", "sending", "backoff"}
    /\ Move(r, "ending")
    /\ UNCHANGED <<now, window, wake, block, semaphore, locals>>

-----------------------------------------------------------------------------
Asleep(r) == stage[r] \in {"blocked", "window", "backoff"} /\ now < wake[r]

\* Time passes while it makes a difference: a sleep, the block, or a call that is
\* still in the window.
Tick ==
    /\ \/ \E r \in Requests : Asleep(r)
       \/ Blocked
       \/ \E i \in DOMAIN times : ~Window!Expired(times[i])
    /\ now' = now + 1
    /\ UNCHANGED <<window, stage, wake, block, semaphore, locals>>

Answered(r) == Opens(r) \/ BacksOff(r) \/ CallFails(r) \/ RecoverAgain(r)
    \/ \E st \in {429, 500} : Exhausted(r, st)

Streams(r) == StreamEnds(r) \/ Breaks(r) \/ Recover(r)

Continues(r) ==
    Resume(r) \/ Unblocked(r) \/ WindowAgain(r) \/ RetryCall(r) \/ Reopen(r) \/ Finish(r)

Leaves(r) == DisconnectWaiting(r) \/ Disconnect(r) \/ DisconnectOpen(r)

Next ==
    \/ Tick
    \/ \E r \in Requests : Arrive(r) \/ Answered(r) \/ Streams(r) \/ Continues(r) \/ Leaves(r)

Spec == Init /\ [][Next]_vars

\* Calls and streams have timeouts, sleeps end, and the event loop resumes what is
\* ready.  No client has to arrive, or to leave.
Fairness ==
    /\ WF_vars(Tick)
    /\ \A r \in Requests : WF_vars(Answered(r) \/ Streams(r) \/ Continues(r))

FairSpec == Spec /\ Fairness

-----------------------------------------------------------------------------
HasSlot == {r \in Requests : slot[r] \in {"handed", "held"}}

\* Every variable ranges over the values its Python counterpart can hold.
TypeOK ==
    /\ now \in Nat
    /\ times \in Seq(Nat)
    /\ granted \in Seq(Nat)
    /\ stage \in [Requests -> {"idle", "blocked", "window", "sending", "backoff",
                               "streaming", "reopening", "ending", "done"}]
    /\ wake \in [Requests -> Nat]
    /\ blocked_until \in Nat
    /\ leaks \in Nat
    /\ free \in 0 .. MaxConcurrency
    /\ waiters \in Seq(Requests)
    /\ slot \in [Requests -> {"none", "queued", "handed", "held"}]
    /\ attempt \in [Requests -> 0 .. MaxRetries]
    /\ mode \in [Requests -> {"stream", "recovery"}]
    /\ reopens \in [Requests -> 0 .. MaxReopens]

\* No slot is lost and none is made up, whoever disconnects in the moment the slot
\* is handed over: what is not free is with a request, which has not ended, and
\* nobody queues for a free slot unless a woken waiter is about to pass it on.
SlotsConserved ==
    /\ free + Cardinality(HasSlot) = MaxConcurrency
    /\ \A r \in Requests :
        /\ stage[r] = "done" => slot[r] = "none"
        /\ stage[r] \notin {"idle", "done"} => slot[r] = "held"
    /\ free > 0 /\ (\E r \in Requests : slot[r] = "queued")
        => \E r \in Requests : slot[r] = "handed"

\* The calls that reach the upstream are within the quota of a strict rolling
\* window: first calls, retries, reopened streams and recoveries together.
Quota == INSTANCE RequestQuota
QuotaSpec == Quota!Spec

\* What the reactive block lets through: a call that begins while the block is on
\* passed its check before the block was set, so there is at most one for each of
\* the other slots.
LeaksBounded == leaks < MaxConcurrency

\* A request that came, and that no client gave up, ends.
RequestEnds == \A r \in Requests : slot[r] # "none" ~> stage[r] = "done"
=============================================================================
