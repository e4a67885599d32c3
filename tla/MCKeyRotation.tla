---------------------------- MODULE MCKeyRotation ----------------------------
\* An instance of KeyRotation for TLC.
EXTENDS KeyRotation

CONSTANTS k1, k2, r1, r2

\* No key, one key, a pool, and a file that repeats a key.
Files == {<<>>, <<k1>>, <<k1, k2>>, <<k1, k1, k2>>}
=============================================================================
