--------------------------- MODULE MCMessageQueue ---------------------------
\* An instance of MessageQueue for TLC: one screen and two equal deletions.
EXTENDS MessageQueue

CONSTANTS m1, s1, s2, k1

TwoSends == {s1, s2}
OneKey == [s \in TwoSends |-> k1]
=============================================================================
