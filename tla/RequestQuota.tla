----------------------------- MODULE RequestQuota -----------------------------
(***************************************************************************)
(* What a strict rolling window promises (core/rate_limit.py): at most     *)
(* RateLimit acquisitions in any interval of length RateWindow.  Who asks, *)
(* who waits and for how long is left open.                                *)
(***************************************************************************)
EXTENDS Naturals, Sequences

CONSTANTS RateLimit, RateWindow   \* both positive

VARIABLES
    now,      \* time.monotonic, in ticks
    granted   \* history: the times of all acquisitions, in order

\* One more acquisition leaves at most RateLimit of them in the window that ends
\* now: the one RateLimit places back has left it.
WithinQuota ==
    Len(granted) >= RateLimit => granted[Len(granted) - RateLimit + 1] + RateWindow <= now

Init == now = 0 /\ granted = <<>>

Grant == WithinQuota /\ granted' = Append(granted, now) /\ UNCHANGED now

Tick == now' = now + 1 /\ UNCHANGED granted

Next == Grant \/ Tick

Spec == Init /\ [][Next]_<<now, granted>>
=============================================================================
