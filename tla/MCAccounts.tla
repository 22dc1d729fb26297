----------------------------- MODULE MCAccounts -----------------------------
(***************************************************************************)
(* Instances of Accounts for TLC.                                          *)
(***************************************************************************)
EXTENDS Accounts, TLC

\* No definition tells one request or one user from another.
Symmetry ==
  {p @@ r : p \in Permutations(Requests), r \in Permutations(Emails)}
=============================================================================
