-------------------------- MODULE MCProviderLimiter --------------------------
\* Instances of ProviderLimiter for TLC.
EXTENDS ProviderLimiter

CONSTANTS q1, q2, q3

ThreeStreams == {q1, q2, q3}

StreamSymmetry == Permutations(Requests)

\* Time enters every action as a difference only, and the history by its last
\* RateLimit entries; what passed longer ago than the window is one value.
Ago(t) == IF t + RateWindow <= now THEN RateWindow ELSE now - t
Ahead(t) == IF t <= now THEN 0 ELSE t - now

RelativeTime ==
    << [i \in DOMAIN times |-> Ago(times[i])],
       [i \in 1 .. Min({RateLimit, Len(granted)}) |-> Ago(granted[Len(granted) + 1 - i])],
       [r \in Requests |-> Ahead(wake[r])],
       Ahead(blocked_until), leaks, stage, semaphore, locals >>
=============================================================================
