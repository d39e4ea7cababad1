--------------------------- MODULE MC_PaymentFlow ---------------------------
(* Constants of the TLC runs over PaymentFlow. *)
EXTENDS PaymentFlow, TLC

CONSTANT u1

MCUsers == {u1}

\* Every payment is one user's, so that handlers of different payments meet in
\* the user's vpn_users row.
MCUserOf == [p \in Payments |-> u1]

\* Webhook requests are interchangeable, and so are the payments of one user.
\* For invariants and action properties only.
MCSymmetry == Permutations(Webhooks) \cup Permutations(Payments)
=============================================================================
