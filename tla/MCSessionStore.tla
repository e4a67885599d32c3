--------------------------- MODULE MCSessionStore ---------------------------
\* An instance of SessionStore for TLC: one tree, two messages, a log of one.
EXTENDS SessionStore

CONSTANTS r1, m1, m2, t1, t2, t3

OneTree == {r1}
TwoIds == {m1, m2}
ThreeTimers == {t1, t2, t3}
=============================================================================
