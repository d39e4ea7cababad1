----------------------------- MODULE MC_Broadcast -----------------------------
(* Constants of the TLC run over Broadcast. *)
EXTENDS Broadcast, TLC

\* Users and the slots of requests are interchangeable.
MCSymmetry == Permutations(Users) \cup Permutations(Requests)
=============================================================================
