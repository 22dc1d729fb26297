----------------------------- MODULE MCFileData -----------------------------
(* Instances of FileData for TLC: requests are interchangeable. *)
EXTENDS FileData, TLC

RequestSymmetry == Permutations(Requests)
=============================================================================
