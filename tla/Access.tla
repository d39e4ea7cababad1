-------------------------------- MODULE Access --------------------------------
(***************************************************************************)
(* Who may use the VPN: subscription-service's table of subscriptions,     *)
(* vpn-service's table vpn_users, and what moves a user from one to the    *)
(* other and back.                                                         *)
(*                                                                         *)
(* A purchase writes a subscription and, in a later call that is retried   *)
(* until it succeeds, a row of vpn_users.  ExpireCron marks overdue        *)
(* subscriptions and calls DisableVPNUser for their owners, one by one,    *)
(* without a transaction or a retry.  A user may have several              *)
(* subscriptions (a trial beside a purchase, or two first purchases that   *)
(* raced: module Subscriptions), each with a row of vpn_users of its own.  *)
(* Module VpnRegistry has the lists of the Xray servers; here a            *)
(* subscription is served while it has a row.                              *)
(***************************************************************************)
EXTENDS Integers, Sequences, FiniteSets

CONSTANTS
    Users,
    UserOf,    \* subscriptions.user_id, of the subscriptions there are
    Servers,   \* rows of vpn_servers, numbered in the order of their names
    Plans,     \* the devices a plan may allow
    PlanTime,  \* the length of a plan
    MaxNow,    \* bound: time
    MaxCalls,  \* bound: calls of users and administrators, ticks of the other crons
    MaxFaults  \* bound: failures and crashes

ASSUME AccessAssumption == /\ IsFiniteSet(Users) /\ UserOf \in Seq(Users)
                           /\ IsFiniteSet(Servers)
                           /\ Servers \subseteq Nat \ {0}
                           /\ Plans \subseteq Nat /\ PlanTime \in Nat \ {0}
ASSUME AccessBounds == {MaxNow, MaxCalls, MaxFaults} \subseteq Nat

VARIABLES
    now,
    sub,      \* subscriptions
    row,      \* the row of vpn_users of each subscription, 0 if there is none
    drawn,    \* ids of vpn_users given out
    toServe,  \* subscriptions paid for, for which CreateVPNUser is still to be called
    overdue,  \* ExpireCron: users it has still to disable
    disabled, \* history: users who have lost a row
    calls,    \* calls so far
    faults    \* failures and crashes so far

accessVars == <<now, sub, row, drawn, toServe, overdue, disabled, calls, faults>>

Call == calls < MaxCalls /\ calls' = calls + 1
Fault == faults < MaxFaults /\ faults' = faults + 1

Subs == DOMAIN UserOf
SubsOf(u) == {i \in Subs : UserOf[i] = u}

\* status IN ('active', 'trial') AND expires_at > NOW()
Live(i) == sub[i].status = "active" /\ sub[i].until > now

\* SELECT ... FROM vpn_users WHERE user_id
RowsOf(u) == {row[i] : i \in SubsOf(u)} \ {0}

\* lapsed, raced and late are history: marked by ExpireCron and not paid for
\* since, paid for while the cron had the user on its list, served when the
\* subscription was not running.
Subscription == [status : {"active", "expired", "cancelled"}, until : Nat, max : Plans,
                 lapsed : BOOLEAN, raced : BOOLEAN, late : BOOLEAN]

\* All subscriptions run and are served, in the order they were made.
AccessInit ==
    /\ now = 0
    /\ \E m \in Plans :
          sub = [i \in Subs |-> [status |-> "active", until |-> 1, max |-> m,
                                 lapsed |-> FALSE, raced |-> FALSE, late |-> FALSE]]
    /\ row = [i \in Subs |-> i]
    /\ drawn = Len(UserOf)
    /\ toServe = {} /\ overdue = {} /\ disabled = {}
    /\ calls = 0 /\ faults = 0

Clock == /\ now < MaxNow /\ now' = now + 1
         /\ UNCHANGED <<sub, row, drawn, toServe, overdue, disabled, calls, faults>>

\* CreateSubscription: the subscription of the user that ends last gets the
\* plan; what is left of it is added if it is running.
Purchase(i, m) ==
    /\ Call
    /\ \A j \in SubsOf(UserOf[i]) : sub[j].until <= sub[i].until
    /\ LET from == IF Live(i) THEN sub[i].until ELSE now
       IN  sub' = [sub EXCEPT ![i] = [status |-> "active", until |-> from + PlanTime, max |-> m,
                                      lapsed |-> FALSE, raced |-> UserOf[i] \in overdue,
                                      late |-> FALSE]]
    /\ toServe' = toServe \cup {i}
    /\ UNCHANGED <<now, row, drawn, overdue, disabled, faults>>

\* INSERT ... ON CONFLICT (user_id, subscription_id) DO NOTHING.
CreateVPNUser(i) ==
    /\ i \in toServe
    /\ toServe' = toServe \ {i}
    /\ IF row[i] # 0 THEN UNCHANGED <<row, drawn>>
       ELSE row' = [row EXCEPT ![i] = drawn + 1] /\ drawn' = drawn + 1
    /\ sub' = [sub EXCEPT ![i].late = sub[i].status # "active"]
    /\ UNCHANGED <<now, overdue, disabled, calls, faults>>

\* Nothing but the status: nobody tells vpn-service.
CancelSubscription(i) ==
    /\ Call
    /\ sub[i].status # "cancelled"
    /\ sub' = [sub EXCEPT ![i].status = "cancelled"]
    /\ UNCHANGED <<now, row, drawn, toServe, overdue, disabled, faults>>

Overdue == {i \in Subs : sub[i].status = "active" /\ sub[i].until < now}
Expire(is) == sub' = [i \in Subs |-> IF i \in is
                                     THEN [sub[i] EXCEPT !.status = "expired", !.lapsed = TRUE]
                                     ELSE sub[i]]

BrokenExpireOverdueSubscriptions ==
    /\ overdue = {} /\ Overdue # {}
    /\ Expire(Overdue)
    /\ \E i \in Overdue : overdue' = {UserOf[i]}
    /\ UNCHANGED <<now, row, drawn, toServe, disabled, calls, faults>>

\* A tick of ExpireCron: UPDATE ... RETURNING user_id.
ExpireOverdueSubscriptions ==
    /\ overdue = {} /\ Overdue # {}
    /\ Expire(Overdue)
    /\ overdue' = {UserOf[i] : i \in Overdue}
    /\ UNCHANGED <<now, row, drawn, toServe, disabled, calls, faults>>

\* DELETE FROM vpn_users WHERE user_id: all his rows go, whichever of his
\* subscriptions has expired and whoever has paid in the meantime.
DisableVPNUser(u) ==
    /\ u \in overdue
    /\ overdue' = overdue \ {u}
    /\ row' = [i \in Subs |-> IF i \in SubsOf(u) THEN 0 ELSE row[i]]
    /\ disabled' = IF RowsOf(u) # {} THEN disabled \cup {u} ELSE disabled
    /\ UNCHANGED <<now, sub, drawn, toServe, calls, faults>>

\* The call fails and is only logged, or the service stops in between.
DisableFails == /\ \/ \E u \in overdue : overdue' = overdue \ {u}
                   \/ overdue # {} /\ overdue' = {}
                /\ Fault
                /\ UNCHANGED <<now, sub, row, drawn, toServe, disabled, calls>>

AccessTypeOK ==
    /\ now \in 0 .. MaxNow /\ calls \in 0 .. MaxCalls /\ faults \in 0 .. MaxFaults
    /\ sub \in [Subs -> Subscription]
    /\ drawn \in Nat /\ row \in [Subs -> 0 .. drawn]
    /\ \A i, j \in Subs : row[i] = row[j] => i = j \/ row[i] = 0
    /\ toServe \subseteq Subs /\ overdue \subseteq Users /\ disabled \subseteq Users

=============================================================================
