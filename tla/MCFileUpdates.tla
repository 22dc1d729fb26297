--------------------------- MODULE MCFileUpdates ---------------------------
\* TLC instances of FileUpdates.
EXTENDS FileUpdates, TLC

CONSTANTS d1, d2

Symmetry == Permutations(Devices)

\* Two uploads meet no timer and share a second: one upload is enough for what
\* the clock and the timers do.
Bounded == Len(uploads) <= 1 \/ (clock = 1 /\ timers = 0)
=============================================================================
