----------------------------- MODULE MC_Accounts -----------------------------
(* Constants of the TLC run over Accounts. *)
EXTENDS Accounts, TLC

\* The requests' slots are interchangeable, and so are the campaigns.
MCSymmetry == Permutations(Handlers) \cup Permutations(Campaigns)
=============================================================================
