---------------------------- MODULE MCCliSessions ----------------------------
\* An instance of CliSessions for TLC: a message, two replies to it, and the message
\* of another tree.
EXTENDS CliSessions, FiniteSets

CONSTANTS a1, a2, a3, b1

Fork == {a1, a2, a3, b1}
ForkParents == [t \in Fork |-> IF t \in {a1, b1} THEN None ELSE a1]
ForkTrees == [t \in Fork |-> IF t = b1 THEN b1 ELSE a1]

\* Bounds: the replies are alike, and a2 is the first; of the second reply, the other
\* tree and the calls of stop_all a behaviour has two; the other tree is there to hold
\* the lock, as the calls of stop_all do.
Bounded ==
    LET begun(T) == Cardinality({t \in T : stage[t] # "idle"})
        calls == Cardinality({c \in Stops : stop[c] # "idle"})
    IN  /\ stage[a3] # "idle" => stage[a2] # "idle"
        /\ begun({a3, b1}) + calls <= 2
        /\ stage[b1] # "idle" => calls = 0
=============================================================================
