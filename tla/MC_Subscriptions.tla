-------------------------- MODULE MC_Subscriptions --------------------------
(* Constants of the TLC runs over Subscriptions. *)
EXTENDS Subscriptions, TLC

MCSymmetry == Permutations(Handlers)
=============================================================================
