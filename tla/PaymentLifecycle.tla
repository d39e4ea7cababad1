-------------------------- MODULE PaymentLifecycle --------------------------
(***************************************************************************)
(* What payment-service promises about one row of the payments table,      *)
(* whoever calls it, how often and in what order: the checkpoint machine   *)
(* of migration 003.  A checkpoint never runs ahead of the work it stands  *)
(* for, a final status is never left, and work once done stays done.       *)
(* PaymentFlow, the handlers that run concurrently and crash, implements   *)
(* this specification.                                                     *)
(***************************************************************************)
CONSTANTS Payments, \* rows of the payments table
          UserOf    \* payment |-> the user it belongs to

VARIABLES status,     \* payments.status
          subscribed, \* payments whose subscription has been created or extended
          served      \* users a vpn_users row was created for

vars == <<status, subscribed, served>>

Init == /\ status = [p \in Payments |-> "pending"]
        /\ subscribed = {}
        /\ served = {}

\* The provider confirmed the payment.
Confirm(p) == /\ status[p] = "pending"
              /\ status' = [status EXCEPT ![p] = "paid_db_only"]
              /\ UNCHANGED <<subscribed, served>>

\* The provider gave the payment up, or its charge failed.
Abandon(p) == /\ status[p] = "pending"
              /\ \E s \in {"cancelled", "failed"} :
                   status' = [status EXCEPT ![p] = s]
              /\ UNCHANGED <<subscribed, served>>

\* Subscription days are granted: never for a payment still unconfirmed.
Grant(p) == /\ status[p] # "pending"
            /\ subscribed' = subscribed \cup {p}
            /\ UNCHANGED <<status, served>>

\* The "subscription done" checkpoint, only after the days were granted.
CheckpointSubscription(p) ==
    /\ status[p] = "paid_db_only" /\ p \in subscribed
    /\ status' = [status EXCEPT ![p] = "paid_subscription_done"]
    /\ UNCHANGED <<subscribed, served>>

\* The user gets VPN credentials, only on behalf of a subscribed payment.
Serve(p) == /\ p \in subscribed
            /\ served' = served \cup {UserOf[p]}
            /\ UNCHANGED <<status, subscribed>>

\* The final checkpoint, only when the user can connect.
Complete(p) == /\ status[p] = "paid_subscription_done"
               /\ p \in subscribed /\ UserOf[p] \in served
               /\ status' = [status EXCEPT ![p] = "paid"]
               /\ UNCHANGED <<subscribed, served>>

Next == \E p \in Payments : \/ Confirm(p) \/ Abandon(p) \/ Grant(p)
                            \/ CheckpointSubscription(p)
                            \/ Serve(p) \/ Complete(p)

Spec == Init /\ [][Next]_vars
=============================================================================
