-------------------------- MODULE MCSubscriptions --------------------------
(***************************************************************************)
(* An instance of Subscriptions for TLC.  Liveness is checked, so there is *)
(* no symmetry.                                                            *)
(***************************************************************************)
EXTENDS Subscriptions
=============================================================================
