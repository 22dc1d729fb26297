----------------------------- MODULE MCDevices -----------------------------
(***************************************************************************)
(* An instance of Devices for TLC.                                         *)
(***************************************************************************)
EXTENDS Devices, TLC

\* No definition tells one account, device or request from another.
Symmetry ==
  {a @@ d @@ q : a \in Permutations(Accounts), d \in Permutations(Hashes),
                 q \in Permutations(Calls)}
=============================================================================
