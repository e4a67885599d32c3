--------------------------- MODULE MCSlidingWindow ---------------------------
\* Instances of SlidingWindow for TLC.
EXTENDS SlidingWindow, TLC

CONSTANTS a, b, c, d

FourCalls == {a, b, c, d}
=============================================================================
