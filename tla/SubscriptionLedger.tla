------------------------- MODULE SubscriptionLedger -------------------------
(***************************************************************************)
(* What subscription-service promises about the days of its users: each    *)
(* request changes the ledger at once, as if it were alone, and the days   *)
(* it brings end up in a subscription or are kept for the next one.        *)
(* Subscriptions, the transactions that run concurrently and are rolled    *)
(* back, implements this specification.                                    *)
(***************************************************************************)
EXTENDS Integers, Sequences

CONSTANTS Users,       \* users.id
          PlanDays,    \* durations of the plans on sale
          TrialDays,   \* durations of a trial: the trial plan's, a campaign's
          BonusDays,   \* bonuses of the referral programme
          ChannelDays  \* the bonus for joining the channel

VARIABLES subs,      \* the subscriptions table, a sequence of rows by id
          pending,   \* users.pending_bonus_days
          trialUsed, \* users whose trial_used_at is set
          claimed,   \* users whose channel_bonus_claimed is set
          now        \* the clock, in days

vars == <<subs, pending, trialUsed, claimed, now>>

RowsOf(u) == {s \in DOMAIN subs : subs[s].user = u}
Current(s) == subs[s].status \in {"active", "trial"}
Live(s) == Current(s) /\ subs[s].expires > now

\* What a transaction that ends now may have for NOW(): the time it began.
Began == {now, now - 1} \cap Nat

Init == /\ subs = <<>>
        /\ pending = [u \in Users |-> 0]
        /\ trialUsed = {}
        /\ claimed = {}
        /\ now = 0

\* A row of user u is inserted and takes the pending days along.
Open(u, kind, expires) ==
    /\ subs' = Append(subs, [user |-> u, status |-> kind,
                             expires |-> expires + pending[u]])
    /\ pending' = [pending EXCEPT ![u] = 0]

\* A paid plan prolongs a live subscription from its end and any other from
\* today, or opens one; the pending days come on top and are used up.
Purchase(u, d) ==
    /\ \/ \E s \in RowsOf(u) :
          \E base \in IF Live(s) THEN {subs[s].expires} ELSE Began :
            /\ subs' = [subs EXCEPT ![s].status = "active",
                                    ![s].expires = base + d + pending[u]]
            /\ pending' = [pending EXCEPT ![u] = 0]
       \/ \E base \in Began : Open(u, "active", base + d)
    /\ UNCHANGED <<trialUsed, claimed, now>>

\* The trial, once per user.
StartTrial(u, d) ==
    /\ u \notin trialUsed
    /\ trialUsed' = trialUsed \cup {u}
    /\ \E base \in Began : Open(u, "trial", base + d)
    /\ UNCHANGED <<claimed, now>>

\* Bonus days go to a subscription not yet marked expired; they are put aside
\* only for a user who has no live one.
Bonus(u, d) ==
    /\ \/ \E s \in RowsOf(u) :
            /\ Current(s)
            /\ subs' = [subs EXCEPT ![s].expires = @ + d]
            /\ UNCHANGED pending
       \/ /\ \A s \in RowsOf(u) : ~Live(s)
          /\ pending' = [pending EXCEPT ![u] = @ + d]
          /\ UNCHANGED subs
    /\ UNCHANGED <<trialUsed, claimed, now>>

\* The channel bonus, once per user.  It alone does not lock the row it reads:
\* days that Extend adds meanwhile are overwritten.
ChannelBonus(u) ==
    /\ u \notin claimed
    /\ claimed' = claimed \cup {u}
    /\ \E s \in RowsOf(u) : \E read \in 0 .. subs[s].expires :
         subs' = [subs EXCEPT ![s].expires = read + ChannelDays]
    /\ UNCHANGED <<pending, trialUsed, now>>

Extend(s, d) == /\ subs' = [subs EXCEPT ![s].expires = @ + d]
                /\ UNCHANGED <<pending, trialUsed, claimed, now>>

Cancel(s) == /\ subs' = [subs EXCEPT ![s].status = "cancelled"]
             /\ UNCHANGED <<pending, trialUsed, claimed, now>>

\* Subscriptions that are over are marked, never a live one.
Expire(S) ==
    /\ \A s \in S : Current(s) /\ ~Live(s)
    /\ subs' = [s \in DOMAIN subs |->
                   IF s \in S THEN [subs[s] EXCEPT !.status = "expired"]
                   ELSE subs[s]]
    /\ UNCHANGED <<pending, trialUsed, claimed, now>>

Tick == now' = now + 1 /\ UNCHANGED <<subs, pending, trialUsed, claimed>>

Next == \/ \E u \in Users : \/ \E d \in PlanDays : Purchase(u, d)
                            \/ \E d \in TrialDays : StartTrial(u, d)
                            \/ \E d \in BonusDays : Bonus(u, d)
                            \/ ChannelBonus(u)
        \/ \E s \in DOMAIN subs :
             Cancel(s) \/ \E d \in BonusDays : Extend(s, d)
        \/ \E S \in SUBSET DOMAIN subs : Expire(S)
        \/ Tick

Spec == Init /\ [][Next]_vars
=============================================================================
