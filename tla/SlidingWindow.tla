---------------------------- MODULE SlidingWindow ----------------------------
(***************************************************************************)
(* StrictSlidingWindowLimiter (core/rate_limit.py), shared by the provider *)
(* limiter and the limiter of outgoing chat messages.                      *)
(*                                                                         *)
(* acquire never suspends while it holds its asyncio lock, so one pass of  *)
(* its loop is one action; a caller that found the window full sleeps and  *)
(* makes another pass, in no particular order with the others.  A caller   *)
(* of this module is one call of acquire.                                  *)
(***************************************************************************)
EXTENDS Integers, Sequences

CONSTANTS
    Callers,     \* calls of acquire
    RateLimit,   \* _rate_limit
    RateWindow,  \* _rate_window, in ticks
    MaxIdle      \* bound: how long time passes when no caller is asleep

ASSUME LimitAssumption == RateLimit \in Nat \ {0} /\ RateWindow \in Nat \ {0}
ASSUME IdleAssumption == MaxIdle \in Nat

VARIABLES
    now,      \* time.monotonic, in ticks
    times,    \* _times, oldest first
    stage,    \* where call c stands
    wake,     \* when the sleep of call c is over
    granted   \* history: the times of all acquisitions, in order

vars == <<now, times, stage, wake, granted>>

Init ==
    /\ now = 0
    /\ times = <<>>
    /\ stage = [c \in Callers |-> "idle"]
    /\ wake = [c \in Callers |-> 0]
    /\ granted = <<>>

-----------------------------------------------------------------------------
Expired(t) == t + RateWindow <= now

\* acquire pops the k oldest times, those that left the window.
\* mutants: a time is popped one tick too soon, or none is.
PopsEarly(k) ==
    /\ \A i \in 1 .. k : times[i] + RateWindow <= now + 1
    /\ k < Len(times) => now + 1 < times[k + 1] + RateWindow
PopsNothing(k) == k = 0

Pops(k) ==
    /\ \A i \in 1 .. k : Expired(times[i])
    /\ k < Len(times) => ~Expired(times[k + 1])

\* One more acquisition is allowed.
HasRoom(kept) == Len(kept) < RateLimit

\* The oldest time leaves the window.
FreeAt(kept) == kept[1] + RateWindow

\* One pass of acquire by c: it is let through, to the given stage, or sleeps
\* until the oldest time leaves the window.
Pass(c, through) ==
    \E k \in 0 .. Len(times) :
        LET kept == SubSeq(times, k + 1, Len(times))
        IN  /\ Pops(k)
            /\ IF HasRoom(kept)
               THEN /\ times' = Append(kept, now)
                    /\ granted' = Append(granted, now)
                    /\ stage' = [stage EXCEPT ![c] = through]
                    /\ UNCHANGED wake
               ELSE /\ times' = kept
                    /\ wake' = [wake EXCEPT ![c] = FreeAt(kept)]
                    /\ stage' = [stage EXCEPT ![c] = "window"]
                    /\ UNCHANGED granted

Acquire(c) ==
    /\ stage[c] = "idle"
    /\ Pass(c, "through")
    /\ UNCHANGED now

\* asyncio.sleep returned, on time or late.
PassAgain(c) ==
    /\ stage[c] = "window"
    /\ wake[c] <= now
    /\ Pass(c, "through")
    /\ UNCHANGED now

Asleep(c) == stage[c] = "window" /\ now < wake[c]

Tick ==
    /\ now < MaxIdle \/ \E c \in Callers : Asleep(c)
    /\ now' = now + 1
    /\ UNCHANGED <<times, stage, wake, granted>>

Next == Tick \/ \E c \in Callers : Acquire(c) \/ PassAgain(c)

Spec == Init /\ [][Next]_vars

\* Time passes and the event loop fires the timers that are due.
FairSpec == Spec /\ WF_vars(Tick) /\ \A c \in Callers : WF_vars(PassAgain(c))

-----------------------------------------------------------------------------
\* Every variable ranges over the values its Python counterpart can hold.
TypeOK ==
    /\ now \in Nat
    /\ times \in Seq(Nat)
    /\ stage \in [Callers -> {"idle", "window", "through"}]
    /\ wake \in [Callers -> Nat]
    /\ granted \in Seq(Nat)

\* The limiter implements the rolling quota, whatever the order in which its
\* callers come, sleep and wake.
Quota == INSTANCE RequestQuota
QuotaSpec == Quota!Spec

\* The guarantee of the limiter's docstring, spelled out: RateLimit + 1
\* acquisitions in a row span at least RateWindow.
StrictWindow ==
    \A i, j \in 1 .. Len(granted) :
        j = i + RateLimit => granted[i] + RateWindow <= granted[j]

\* The deque holds the newest acquisitions, all that are in the window, and never
\* more than the limit: it cannot grow with the age of the process.
DequeExact ==
    LET older == Len(granted) - Len(times)
    IN  /\ Len(times) <= RateLimit
        /\ \A i \in 1 .. Len(times) : times[i] = granted[older + i]
        /\ \A i \in 1 .. older : Expired(granted[i])

\* Every call gets through in the end, in competition with the others.
AllGetThrough == \A c \in Callers : stage[c] = "window" ~> stage[c] = "through"
=============================================================================
