------------------------------- MODULE Referral -------------------------------
(***************************************************************************)
(* referral-service: rewards for invitations and for payments, and the     *)
(* partners' withdrawals (service/referral.go, repository/referral.go,     *)
(* repository/campaign.go).                                                *)
(*                                                                         *)
(* Every reward is first recorded, in a row whose unique key stops a       *)
(* repetition, then given (a remote call for days, an UPDATE of the        *)
(* balance for money), and then marked as applied, in three statements     *)
(* without a transaction.  Calls run concurrently, are repeated by their   *)
(* callers, and fail or are cut off at any step; each failure uses up one  *)
(* of MaxFaults.                                                           *)
(***************************************************************************)
EXTENDS Integers, FiniteSets, FiniteSetsExt

CONSTANTS
    Users,      \* users.id
    Partners,   \* users who are partners from the start
    Payments,   \* payments ApplyBonus is called for
    UserOf,     \* the user who paid
    CampaignOf, \* user |-> the partner his campaign pays a share to, or None
    Share,      \* channel |-> payment |-> the partner's share, in money
    Amounts,    \* amounts asked for in withdrawals
    Handlers,   \* RPC handlers that may be in progress at one time
    None,       \* nobody
    MaxCalls,   \* bound: RPCs in a behaviour
    MaxFaults   \* bound: statements that fail and calls that are cut off

Channels == {"referral", "campaign"}
Credits == Channels \X Payments
Gifts == Users \X Users

ASSUME UsersAssumption ==
    /\ None \notin Users
    /\ UserOf \in [Payments -> Users]
    /\ Partners \subseteq Users
    /\ CampaignOf \in [Users -> Users \cup {None}]
ASSUME MoneyAssumption == /\ Share \in [Channels -> [Payments -> Nat \ {0}]]
                          /\ Amounts \subseteq Nat \ {0}
ASSUME BoundsAssumption == MaxCalls \in Nat /\ MaxFaults \in Nat

VARIABLES
    role,       \* users.role
    inviter,    \* referral_relationships: invited |-> inviter or None
    purchased,  \* invited users whose relationship is marked purchased
    gifts,      \* referral_bonuses of type days: <<recipient, invited>>
    giftDone,   \* those that are marked is_applied
    given,      \* ApplyBonusDays carried out for <<recipient, invited>>
    credits,    \* referral_bonuses of type balance and campaign_payouts:
                \*   <<channel, payment>> |-> the partner or None
    creditDone, \* those that are marked is_applied
    balance,    \* users.balance
    withdrawn,  \* user |-> the sum of his withdrawal_requests
    proc,       \* the calls in progress
    calls,      \* RPCs so far
    faults      \* failures so far

people == <<role, inviter, purchased>>
days == <<gifts, giftDone, given>>
money == <<credits, creditDone, balance, withdrawn>>
vars == <<people, days, money, proc, calls, faults>>

Roles == {"user", "partner", "admin"}
Idle == [kind |-> "idle"]
\* RegisterReferral, between its statements: for whom the next bonus is, and
\* whether the inviter gets one after the invited.
Registering == [kind : {"register"}, from : Users, to : Users,
                recipient : Users, rewardInviter : BOOLEAN,
                pc : {"relate", "record", "give", "mark"}]
\* ApplyBonus: the payment, the channel and the partner it pays to.
Applying == [kind : {"apply"}, pay : Payments, channel : Channels,
             partner : Users \cup {None},
             pc : {"record", "give", "mark", "purchased", "campaign"}]
\* CreateWithdrawal, before its transaction and in it.
Withdrawing == [kind : {"withdraw"}, user : Users, amount : Amounts,
                pc : {"lock", "commit"}]
Process == {Idle} \cup Registering \cup Applying \cup Withdrawing

At(h, kind, pc) == proc[h].kind = kind /\ proc[h].pc = pc
Goto(h, pc) == proc' = [proc EXCEPT ![h].pc = pc]
End(h) == proc' = [proc EXCEPT ![h] = Idle]

Init == /\ role = [u \in Users |-> IF u \in Partners THEN "partner" ELSE "user"]
        /\ inviter = [u \in Users |-> None]
        /\ purchased = {}
        /\ gifts = {} /\ giftDone = {}
        /\ given = [g \in Gifts |-> 0]
        /\ credits = [c \in Credits |-> None] /\ creditDone = {}
        /\ balance = [u \in Users |-> 0]
        /\ withdrawn = [u \in Users |-> 0]
        /\ proc = [h \in Handlers |-> Idle]
        /\ calls = 0 /\ faults = 0

Call(h, p) == /\ proc[h] = Idle
              /\ calls < MaxCalls /\ calls' = calls + 1
              /\ proc' = [proc EXCEPT ![h] = p]

Fault == faults < MaxFaults /\ faults' = faults + 1

\* Operators named Broken... are the bugs the properties are tried against;
\* no action uses them.

-----------------------------------------------------------------------------
(* RegisterReferral.                                                        *)

\* The token is inviter u's, the invited user v is new, and u's role is read.
\* A self-invitation ends here, without effect.
RegisterReferral(h, u, v) ==
    /\ u # v
    /\ Call(h, [kind |-> "register", from |-> u, to |-> v, recipient |-> v,
                rewardInviter |-> role[u] # "partner", pc |-> "relate"])
    /\ UNCHANGED <<people, days, money, faults>>

\* The relationship is looked up and then inserted, unconstrained.
BrokenCreateRelationship(h) ==
    /\ At(h, "register", "relate")
    /\ inviter' = [inviter EXCEPT ![proc[h].to] = proc[h].from]
    /\ Goto(h, "record")
    /\ UNCHANGED <<role, purchased, days, money, calls, faults>>

\* INSERT, UNIQUE (invited_id): the first inviter wins.
CreateRelationship(h) ==
    /\ At(h, "register", "relate")
    /\ IF inviter[proc[h].to] = None
       THEN /\ inviter' = [inviter EXCEPT ![proc[h].to] = proc[h].from]
            /\ Goto(h, "record")
       ELSE End(h) /\ UNCHANGED inviter
    /\ UNCHANGED <<role, purchased, days, money, calls, faults>>

Gift(h) == <<proc[h].recipient, proc[h].to>>

\* applyDaysBonus is done for one recipient; the inviter's turn may be next.
NextRecipient(h) ==
    IF proc[h].recipient = proc[h].to /\ proc[h].rewardInviter
    THEN proc' = [proc EXCEPT ![h].recipient = proc[h].from, ![h].pc = "record"]
    ELSE End(h)

\* CreateBonus without a payment_id.
RecordGift(h) == /\ At(h, "register", "record")
                 /\ gifts' = gifts \cup {Gift(h)}
                 /\ Goto(h, "give")
                 /\ UNCHANGED <<people, giftDone, given, money, calls, faults>>

\* The days are given, and nothing is marked.
BrokenGiveDays(h) == /\ At(h, "register", "give")
                     /\ given' = [given EXCEPT ![Gift(h)] = @ + 1]
                     /\ NextRecipient(h)
                     /\ UNCHANGED <<people, gifts, giftDone, money, calls, faults>>

\* ApplyBonusDays is carried out; a lost reply is RegisterFails at "mark".
GiveDays(h) == /\ At(h, "register", "give")
               /\ given' = [given EXCEPT ![Gift(h)] = @ + 1]
               /\ Goto(h, "mark")
               /\ UNCHANGED <<people, gifts, giftDone, money, calls, faults>>

MarkGift(h) == /\ At(h, "register", "mark")
               /\ giftDone' = giftDone \cup {Gift(h)}
               /\ NextRecipient(h)
               /\ UNCHANGED <<people, gifts, given, money, calls, faults>>

\* A statement or the remote call of one bonus fails: the other one is tried.
RegisterFails(h) == /\ proc[h].kind = "register" /\ proc[h].pc # "relate"
                    /\ Fault
                    /\ NextRecipient(h)
                    /\ UNCHANGED <<people, days, money, calls>>

-----------------------------------------------------------------------------
(* ApplyBonus.                                                              *)

\* The relationship of the payer and the role of his inviter are read: a
\* partner gets a share; without an inviter only the campaign is left to do.
ApplyBonus(h, p) ==
    LET u == inviter[UserOf[p]]
        step == CASE u = None -> "campaign"
                  [] u # None /\ role[u] = "partner" -> "record"
                  [] OTHER -> "purchased"
    IN  /\ Call(h, [kind |-> "apply", pay |-> p, channel |-> "referral",
                    partner |-> u, pc |-> step])
        /\ UNCHANGED <<people, days, money, faults>>

Credit(h) == <<proc[h].channel, proc[h].pay>>
Recorded == {c \in Credits : credits[c] # None}

\* The end of one channel: the referral channel goes on, the campaign's is last.
NextChannel(h) == IF proc[h].channel = "referral" THEN Goto(h, "purchased")
                  ELSE End(h)

\* The row is inserted, ON CONFLICT DO NOTHING, and the handler goes on.
BrokenRecordCredit(h) ==
    /\ At(h, "apply", "record")
    /\ credits' = [credits EXCEPT ![Credit(h)] =
                       IF @ = None THEN proc[h].partner ELSE @]
    /\ Goto(h, "give")
    /\ UNCHANGED <<people, days, creditDone, balance, withdrawn, calls,
                   faults>>

\* CreateBonus or CreateCampaignPayout, UNIQUE (payment_id): a row that is
\* there counts as applied already.
RecordCredit(h) ==
    /\ At(h, "apply", "record")
    /\ IF credits[Credit(h)] = None
       THEN /\ credits' = [credits EXCEPT ![Credit(h)] = proc[h].partner]
            /\ Goto(h, "give")
       ELSE NextChannel(h) /\ UNCHANGED credits
    /\ UNCHANGED <<people, days, creditDone, balance, withdrawn, calls,
                   faults>>

\* SELECT balance FROM users ... FOR UPDATE, held by a withdrawal.
UserLocked(u) == \E h \in Handlers : At(h, "withdraw", "commit") /\ proc[h].user = u

\* The balance is read, and the sum is written back.
AddBalance(h) ==
    /\ At(h, "apply", "give")
    /\ ~UserLocked(proc[h].partner)
    /\ balance' = [balance EXCEPT ![proc[h].partner] =
                       @ + Share[proc[h].channel][proc[h].pay]]
    /\ Goto(h, "mark")
    /\ UNCHANGED <<people, days, credits, creditDone, withdrawn, calls, faults>>

MarkCredit(h) ==
    /\ At(h, "apply", "mark")
    /\ creditDone' = creditDone \cup {Credit(h)}
    /\ NextChannel(h)
    /\ UNCHANGED <<people, days, credits, balance, withdrawn, calls,
                   faults>>

MarkPurchased(h) ==
    /\ At(h, "apply", "purchased")
    /\ purchased' = purchased \cup {UserOf[proc[h].pay]}
    /\ Goto(h, "campaign")
    /\ UNCHANGED <<role, inviter, days, money, calls, faults>>

\* The partner of a user's campaign; None without a campaign, a partner or a
\* share.
GetCampaignAttribution(u) == CampaignOf[u]

\* applyCampaignPayout: the attribution of the payer is read.
ReadAttribution(h) ==
    LET partner == GetCampaignAttribution(UserOf[proc[h].pay])
    IN  /\ At(h, "apply", "campaign")
        /\ IF partner = None THEN End(h)
           ELSE proc' = [proc EXCEPT ![h].channel = "campaign",
                                     ![h].partner = partner, ![h].pc = "record"]
        /\ UNCHANGED <<people, days, money, calls, faults>>

\* Errors of MarkBonusApplied and MarkRelationshipPurchased are ignored.
IgnoredError(h) == IF At(h, "apply", "mark") THEN NextChannel(h)
                   ELSE At(h, "apply", "purchased") /\ Goto(h, "campaign")

ApplyFails(h) == /\ proc[h].kind = "apply"
                 /\ Fault
                 /\ IgnoredError(h)
                 /\ UNCHANGED <<people, days, money, calls>>

-----------------------------------------------------------------------------
(* CreateWithdrawal.                                                        *)

\* Only a partner or an administrator withdraws.
CreateWithdrawal(h, u, amount) ==
    /\ role[u] \in {"partner", "admin"}
    /\ Call(h, [kind |-> "withdraw", user |-> u, amount |-> amount, pc |-> "lock"])
    /\ UNCHANGED <<people, days, money, faults>>

\* The balance is read without FOR UPDATE.
BrokenLockBalance(h) ==
    /\ At(h, "withdraw", "lock")
    /\ IF balance[proc[h].user] < proc[h].amount THEN End(h) ELSE Goto(h, "commit")
    /\ UNCHANGED <<people, days, money, calls, faults>>

\* The row of users is locked, and a balance that is too small ends the
\* transaction.
LockBalance(h) ==
    /\ At(h, "withdraw", "lock")
    /\ ~UserLocked(proc[h].user)
    /\ IF balance[proc[h].user] < proc[h].amount THEN End(h) ELSE Goto(h, "commit")
    /\ UNCHANGED <<people, days, money, calls, faults>>

\* balance = balance - amount, the INSERT and COMMIT.
CommitWithdrawal(h) ==
    /\ At(h, "withdraw", "commit")
    /\ balance' = [balance EXCEPT ![proc[h].user] = @ - proc[h].amount]
    /\ withdrawn' = [withdrawn EXCEPT ![proc[h].user] = @ + proc[h].amount]
    /\ End(h)
    /\ UNCHANGED <<people, days, credits, creditDone, calls, faults>>

-----------------------------------------------------------------------------
\* The process dies, the caller's deadline passes, or a statement fails whose
\* error ends the call; an open transaction is rolled back.
CutOff(h) == /\ proc[h] # Idle
             /\ Fault
             /\ End(h)
             /\ UNCHANGED <<people, days, money, calls>>

\* UpdateUserRole and SelfUpdateRole of auth-service.
UpdateUserRole(u) ==
    \E r \in Roles \ {role[u]} :
        /\ calls < MaxCalls /\ calls' = calls + 1
        /\ role' = [role EXCEPT ![u] = r]
        /\ UNCHANGED <<inviter, purchased, days, money, proc, faults>>

Next == \/ \E h \in Handlers :
              \/ \E u, v \in Users : RegisterReferral(h, u, v)
              \/ CreateRelationship(h) \/ RecordGift(h)
              \/ GiveDays(h) \/ MarkGift(h) \/ RegisterFails(h)
              \/ \E p \in Payments : ApplyBonus(h, p)
              \/ RecordCredit(h) \/ AddBalance(h) \/ MarkCredit(h)
              \/ MarkPurchased(h) \/ ReadAttribution(h) \/ ApplyFails(h)
              \/ \E u \in Users, a \in Amounts : CreateWithdrawal(h, u, a)
              \/ LockBalance(h) \/ CommitWithdrawal(h) \/ CutOff(h)
        \/ \E u \in Users : UpdateUserRole(u)

Spec == Init /\ [][Next]_vars

-----------------------------------------------------------------------------
(* Properties.                                                              *)

TypeOK ==
    /\ role \in [Users -> Roles]
    /\ inviter \in [Users -> Users \cup {None}] /\ purchased \subseteq Users
    /\ giftDone \subseteq gifts /\ gifts \subseteq Gifts
    /\ given \in [Gifts -> Nat]
    /\ credits \in [Credits -> Users \cup {None}]
    /\ creditDone \subseteq Recorded
    /\ balance \in [Users -> Nat] /\ withdrawn \in [Users -> Nat]
    /\ proc \in [Handlers -> Process]
    /\ calls \in 0..MaxCalls /\ faults \in 0..MaxFaults

\* The money of a partner, on his balance and withdrawn, is the sum of some of
\* his recorded rewards, each taken once, with all those marked as applied
\* among them: no payment is credited twice, whatever is repeated, and no
\* withdrawal takes the same money twice.
MoneyIsBacked ==
    \A u \in Users :
        \E S \in SUBSET Recorded :
            /\ {c \in creditDone : credits[c] = u} \subseteq S
            /\ \A c \in S : credits[c] = u
            /\ balance[u] + withdrawn[u] =
                   MapThenSumSet(LAMBDA c : Share[c[1]][c[2]], S)

\* The call is about to give the reward or to mark it as applied.
GivesCredit(h, c) == /\ proc[h].kind = "apply" /\ Credit(h) = c
                     /\ proc[h].pc \in {"give", "mark"}
GivesGift(h, g) == /\ proc[h].kind = "register" /\ Gift(h) = g
                   /\ proc[h].pc \in {"give", "mark"}

\* Recorded rewards that are not marked as applied, with no call at work on them.
Stranded ==
    {c \in Recorded \ creditDone : \A h \in Handlers : ~GivesCredit(h, c)}
    \cup {g \in gifts \ giftDone : \A h \in Handlers : ~GivesGift(h, g)}

\* A reward that is recorded and not marked as applied, with nobody at work on
\* it, is the trace of one failure: only as many rewards wait for a hand as
\* there were failures, however the calls interleave.
StrandedByFailures == Cardinality(Stranded) <= faults

\* An invited user and his one inviter are rewarded with days, each once, when
\* several inviters claim him at the same time and calls are repeated.
OneInviterRewarded ==
    \A g \in Gifts : given[g] > 0 => given[g] = 1 /\ g[1] \in {g[2], inviter[g[2]]}
=============================================================================
