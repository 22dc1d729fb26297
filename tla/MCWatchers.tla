----------------------------- MODULE MCWatchers -----------------------------
EXTENDS Watchers, TLC

\* A configuration of one group, whose client id is not its first server id.
OneGroup == {{2}}

\* Requests are alike.
RequestSymmetry == Permutations(Requests)
=============================================================================
