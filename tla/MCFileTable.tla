---------------------------- MODULE MCFileTable ----------------------------
\* TLC instances of FileTable.
EXTENDS FileTable, TLC

Symmetry == Permutations(Keys) \cup Permutations(Requests)
=============================================================================
