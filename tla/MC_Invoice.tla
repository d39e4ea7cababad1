----------------------------- MODULE MC_Invoice ------------------------------
(* Constants of the TLC run over Invoice. *)
EXTENDS Invoice, TLC

\* The slots of webhook requests are interchangeable.
MCSymmetry == Permutations(Webhooks)
=============================================================================
