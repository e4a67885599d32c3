--------------------------- MODULE MCNativeStream ---------------------------
\* An instance of NativeStream for TLC: two blocks of the provider, which may
\* overlap.
EXTENDS NativeStream

TwoBlocks == {0, 1}

\* Nothing happens once the client has left: those states are checked, and not
\* kept.
Watched == ~gone
=============================================================================
