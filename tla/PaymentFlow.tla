---------------------------- MODULE PaymentFlow -----------------------------
(***************************************************************************)
(* payment-service: the handlers that carry a confirmed payment through    *)
(*                                                                         *)
(*   pending -> paid_db_only -> paid_subscription_done -> paid             *)
(*                                                                         *)
(* (service/payment.go, repository/payment.go, sentinel/sentinel.go).      *)
(*                                                                         *)
(* Every handler reads the row once, keeps a private copy of its status,   *)
(* and then alternates remote calls with conditional UPDATEs whose number  *)
(* of affected rows nobody looks at.  Several handlers run at once: a      *)
(* provider repeats its webhooks, and the sentinel resumes payments stuck  *)
(* in an intermediate status.  A remote call or a statement may fail, a    *)
(* reply may be lost after the call took effect, and the whole process may *)
(* crash between any two steps; each such event uses up one of MaxFaults.  *)
(***************************************************************************)
EXTENDS Naturals, FiniteSets

CONSTANTS
    Payments,      \* rows of the payments table, created by CreateInvoice
    Users,         \* internal user ids
    UserOf,        \* payments.user_id
    Webhooks,      \* webhook requests that may be in progress at one time
    Sentinels,     \* sentinel goroutines: a singleton, or empty to switch it off
    Events,        \* statuses the providers' webhooks are mapped to
    Hooks,         \* best-effort hooks that are configured: promo, referral
    BatchLimit,    \* sentinel Config.BatchLimit
    MaxFaults,     \* bound: failures, lost replies and crashes in a behaviour
    MaxDeliveries  \* bound: webhook requests in a behaviour

ASSUME UsersAssumption == UserOf \in [Payments -> Users]
ASSUME WorkersAssumption == /\ IsFiniteSet(Payments)
                            /\ IsFiniteSet(Webhooks \cup Sentinels)
                            /\ Webhooks \cap Sentinels = {}
ASSUME EventsAssumption ==
    Events \subseteq {"paid", "cancelled", "failed", "refunded"}
ASSUME HooksAssumption == Hooks \subseteq {"promo", "referral"}
ASSUME BoundsAssumption ==
    BatchLimit \in Nat \ {0} /\ MaxFaults \in Nat /\ MaxDeliveries \in Nat

VARIABLES
    status,      \* payments.status
    subIdKept,   \* payments whose metadata has a subscription_id
    paidAt,      \* payments.paid_at as a rank in order of time; 0 is NULL
    worker,      \* the handlers in progress: program counter and local copies
    batch,       \* the sentinel's list of stuck payments still to resume
    granted,     \* subscription-service: CreateSubscription commits per payment
    served,      \* vpn-service: users a vpn_users row was created for
    goroutines,  \* hooks and notifications started and not finished
    called,      \* hook and notification calls that were carried out
    acked,       \* webhooks answered with success: <<event, payment>>
    faults,      \* failures so far
    deliveries   \* webhook requests so far

rows == <<status, subIdKept, paidAt>>
ghosts == <<acked, faults, deliveries>>
vars == <<rows, worker, batch, granted, served, goroutines, called, ghosts>>

Workers == Webhooks \cup Sentinels
Calls == Hooks \cup {"notify"}
Intermediate == {"paid_db_only", "paid_subscription_done"}
Final == {"paid", "cancelled", "failed"}
Status == {"pending"} \cup Intermediate \cup Final

Steps == {"mark_paid", "create_sub", "mark_sub", "create_vpn", "mark_complete",
          "resolve_user", "mark_cancelled", "mark_failed"}

\* A handler in progress: the step it is at, its payment, and whether it
\* knows the plan name the notification needs.
Busy == [pc : Steps, pay : Payments, planKnown : BOOLEAN]
Idle == [pc |-> "idle"]

At(w, step) == worker[w].pc = step
Pay(w) == worker[w].pay
Goto(w, step) == worker' = [worker EXCEPT ![w].pc = step]

-----------------------------------------------------------------------------

Init == /\ status = [p \in Payments |-> "pending"]
        /\ subIdKept = {}
        /\ paidAt = [p \in Payments |-> 0]
        /\ worker = [w \in Workers |-> Idle]
        /\ batch = {}
        /\ granted = [p \in Payments |-> 0]
        /\ served = {}
        /\ goroutines = {}
        /\ called = [c \in Calls |-> [p \in Payments |-> 0]]
        /\ acked = {}
        /\ faults = 0
        /\ deliveries = 0

\* One more failure, while the bound allows it.
Fault == /\ faults < MaxFaults
         /\ faults' = faults + 1
         /\ UNCHANGED <<acked, deliveries>>

\* The handler returns an error.  The provider is told to retry; the sentinel
\* leaves the payment to a later tick.
Fail(w) == Fault /\ worker' = [worker EXCEPT ![w] = Idle]

\* The handler returns nil: the provider is told not to send event again.
Succeed(w, event, p) ==
    /\ worker' = [worker EXCEPT ![w] = Idle]
    /\ acked' = IF w \in Webhooks THEN acked \cup {<<event, p>>} ELSE acked

\* Operators named Broken... are the bugs the properties are tried against;
\* no action uses them.

\* Where a paid event starts, for the status the row was read with.
FirstStep == [pending |-> "mark_paid",
              paid_db_only |-> "create_sub",
              paid_subscription_done |-> "create_vpn"]

\* handleSuccessfulPayment from its SELECT to the first step it will run.
\* A payment that is paid, or already cancelled or failed, is left alone.
\* Resuming after paid_subscription_done needs the subscription_id kept in
\* metadata, and learns the plan name only if the subscription is still active.
ReadForPaid(w, p) ==
    \/ /\ status[p] \in Final
       /\ Succeed(w, "paid", p)
    \/ /\ status[p] \notin Final
       /\ status[p] = "paid_subscription_done" => p \in subIdKept
       /\ \E known \in BOOLEAN :
            /\ known => status[p] = "paid_subscription_done"
            /\ worker' = [worker EXCEPT ![w] = [pc |-> FirstStep[status[p]],
                                                pay |-> p, planKnown |-> known]]
       /\ UNCHANGED acked
    \/ /\ status[p] = "paid_subscription_done" /\ p \notin subIdKept
       /\ UNCHANGED <<worker, acked>>

\* HandleWebhook: a validated request for p.  "refunded" falls into the
\* default branch, which logs it and returns nil; a chargeback follows a
\* confirmed charge.
HandleWebhook(w, event, p) ==
    /\ worker[w] = Idle
    /\ deliveries < MaxDeliveries
    /\ deliveries' = deliveries + 1
    /\ \/ event = "paid" /\ ReadForPaid(w, p)
       \/ /\ event \in {"cancelled", "failed"}
          /\ worker' = [worker EXCEPT ![w] =
                 [pc |-> IF event = "cancelled" THEN "mark_cancelled"
                                                ELSE "mark_failed",
                  pay |-> p, planKnown |-> FALSE]]
          /\ UNCHANGED acked
       \/ /\ event = "refunded" /\ <<"paid", p>> \in acked
          /\ Succeed(w, event, p)
    /\ UNCHANGED <<rows, batch, granted, served, goroutines, called, faults>>

\* The sentinel looks at the first intermediate status only.
BrokenStuck(cutoff) == {p \in Payments : status[p] = "paid_db_only"
                                         /\ paidAt[p] <= cutoff}

\* ListStuckPaid: the oldest BatchLimit intermediate payments among those
\* paid no later than cutoff (paid_at < NOW() - StaleAfter).
OlderThan(q, p) == paidAt[q] < paidAt[p]
Stuck(cutoff) == {p \in Payments : status[p] \in Intermediate /\ paidAt[p] <= cutoff}
Oldest(S) == {p \in S : Cardinality({q \in S : OlderThan(q, p)}) < BatchLimit}

SentinelTick(w, cutoff) ==
    /\ worker[w] = Idle /\ batch = {}
    /\ batch' = Oldest(Stuck(cutoff))
    /\ UNCHANGED <<rows, worker, granted, served, goroutines, called, ghosts>>

\* The sentinel takes the payments of its list in the order of paid_at;
\* handleSuccessfulPayment reads each row again.
SentinelResume(w, p) ==
    /\ worker[w] = Idle /\ p \in batch
    /\ \A q \in batch : ~OlderThan(q, p)
    /\ batch' = batch \ {p}
    /\ ReadForPaid(w, p)
    /\ UNCHANGED <<rows, granted, served, goroutines, called, faults, deliveries>>

-----------------------------------------------------------------------------
(* One action per step of handleSuccessfulPayment.  The UPDATEs take effect *)
(* only on a row that is in the status they expect.                         *)

\* The UPDATE without its "AND status = from".
BrokenMoveStatus(p, from, to) == status' = [status EXCEPT ![p] = to]

\* UPDATE ... SET status = to WHERE id = p AND status = from.
MoveStatus(p, from, to) ==
    status' = IF status[p] = from THEN [status EXCEPT ![p] = to] ELSE status

\* Step 1: MarkPaidDBOnly replaces metadata and stamps paid_at.
MarkPaidDBOnly(w) ==
    /\ At(w, "mark_paid")
    /\ MoveStatus(Pay(w), "pending", "paid_db_only")
    /\ IF status[Pay(w)] = "pending"
       THEN /\ subIdKept' = subIdKept \ {Pay(w)}
            /\ paidAt' = [paidAt EXCEPT ![Pay(w)] =
                   1 + Cardinality({q \in Payments : paidAt[q] > 0})]
       ELSE UNCHANGED <<subIdKept, paidAt>>
    /\ Goto(w, "create_sub")
    /\ UNCHANGED <<batch, granted, served, goroutines, called, ghosts>>

\* Step 2: the CreateSubscription RPC commits and the reply arrives.  Every
\* call adds the plan's days to the user's subscription.
CreateSubscription(w) ==
    /\ At(w, "create_sub")
    /\ granted' = [granted EXCEPT ![Pay(w)] = @ + 1]
    /\ worker' = [worker EXCEPT ![w].pc = "mark_sub", ![w].planKnown = TRUE]
    /\ UNCHANGED <<rows, batch, served, goroutines, called, ghosts>>

\* ... or it commits and the reply is lost.
CreateSubscriptionReplyLost(w) ==
    /\ At(w, "create_sub")
    /\ granted' = [granted EXCEPT ![Pay(w)] = @ + 1]
    /\ Fail(w)
    /\ UNCHANGED <<rows, batch, served, goroutines, called>>

\* The checkpoint without the subscription_id a resumed payment needs.
BrokenMarkSubscriptionDone(w) ==
    /\ At(w, "mark_sub")
    /\ MoveStatus(Pay(w), "paid_db_only", "paid_subscription_done")
    /\ Goto(w, "create_vpn")
    /\ UNCHANGED <<subIdKept, paidAt, batch, granted, served, goroutines, called,
                   ghosts>>

\* The checkpoint in a status nobody reads (the Go constant's name).
MisspeltMarkSubscriptionDone(w) ==
    /\ At(w, "mark_sub")
    /\ MoveStatus(Pay(w), "paid_db_only", "paid_subscription")
    /\ Goto(w, "create_vpn")
    /\ UNCHANGED <<subIdKept, paidAt, batch, granted, served, goroutines, called,
                   ghosts>>

\* The checkpoint left out.
SkippedMarkSubscriptionDone(w) ==
    /\ At(w, "mark_sub")
    /\ Goto(w, "create_vpn")
    /\ UNCHANGED <<rows, batch, granted, served, goroutines, called, ghosts>>

MarkSubscriptionDone(w) ==
    /\ At(w, "mark_sub")
    /\ MoveStatus(Pay(w), "paid_db_only", "paid_subscription_done")
    /\ subIdKept' = IF status[Pay(w)] = "paid_db_only"
                    THEN subIdKept \cup {Pay(w)} ELSE subIdKept
    /\ Goto(w, "create_vpn")
    /\ UNCHANGED <<paidAt, batch, granted, served, goroutines, called, ghosts>>

\* An error of CreateVPNUser that is logged and forgotten.
BrokenCreateVPNUser(w) ==
    /\ At(w, "create_vpn")
    /\ \/ served' = served \cup {UserOf[Pay(w)]}
       \/ UNCHANGED served
    /\ Goto(w, "mark_complete")
    /\ UNCHANGED <<rows, batch, granted, goroutines, called, ghosts>>

\* Step 3: CreateVPNUser inserts the vpn_users row unless it is there and
\* registers it on at least one server.
CreateVPNUser(w) ==
    /\ At(w, "create_vpn")
    /\ served' = served \cup {UserOf[Pay(w)]}
    /\ Goto(w, "mark_complete")
    /\ UNCHANGED <<rows, batch, granted, goroutines, called, ghosts>>

\* ... or the row is there but every Xray server refused, or the reply is lost.
CreateVPNUserUnregistered(w) ==
    /\ At(w, "create_vpn")
    /\ served' = served \cup {UserOf[Pay(w)]}
    /\ Fail(w)
    /\ UNCHANGED <<rows, batch, granted, goroutines, called>>

\* The final checkpoint expects the wrong status, and does nothing.
BrokenMarkComplete(w) ==
    /\ At(w, "mark_complete")
    /\ goroutines' = goroutines \cup {<<h, Pay(w), w>> : h \in Hooks}
    /\ IF worker[w].planKnown
       THEN Goto(w, "resolve_user") /\ UNCHANGED acked
       ELSE Succeed(w, "paid", Pay(w))
    /\ UNCHANGED <<rows, batch, granted, served, called, faults, deliveries>>

\* MarkComplete, then the hooks are started in goroutines of their own and,
\* when the plan name is known, the handler goes on to the notification.
MarkComplete(w) ==
    /\ At(w, "mark_complete")
    /\ MoveStatus(Pay(w), "paid_subscription_done", "paid")
    /\ goroutines' = goroutines \cup {<<h, Pay(w), w>> : h \in Hooks}
    /\ IF worker[w].planKnown
       THEN Goto(w, "resolve_user") /\ UNCHANGED acked
       ELSE Succeed(w, "paid", Pay(w))
    /\ UNCHANGED <<subIdKept, paidAt, batch, granted, served, called, faults,
                   deliveries>>

\* auth.GetUser: without a telegram_id the notification is skipped.
ResolveUser(w) ==
    /\ At(w, "resolve_user")
    /\ \/ goroutines' = goroutines \cup {<<"notify", Pay(w), w>>}
       \/ UNCHANGED goroutines
    /\ Succeed(w, "paid", Pay(w))
    /\ UNCHANGED <<rows, batch, granted, served, called, faults, deliveries>>

MarkCancelled(w) ==
    /\ At(w, "mark_cancelled")
    /\ MoveStatus(Pay(w), "pending", "cancelled")
    /\ Succeed(w, "cancelled", Pay(w))
    /\ UNCHANGED <<subIdKept, paidAt, batch, granted, served, goroutines, called,
                   faults, deliveries>>

MarkFailed(w) ==
    /\ At(w, "mark_failed")
    /\ MoveStatus(Pay(w), "pending", "failed")
    /\ Succeed(w, "failed", Pay(w))
    /\ UNCHANGED <<subIdKept, paidAt, batch, granted, served, goroutines, called,
                   faults, deliveries>>

\* A statement or a remote call fails without effect, and the handler returns
\* the error.  GetUser is not among them: its failure skips the notification.
StepFails(w) ==
    /\ worker[w] # Idle /\ ~At(w, "resolve_user")
    /\ Fail(w)
    /\ UNCHANGED <<rows, batch, granted, served, goroutines, called>>

-----------------------------------------------------------------------------

\* A goroutine makes its call: promo.MarkUsed, referral.ApplyBonus, NotifyPaid.
GoroutineCalls(g) ==
    /\ called' = [called EXCEPT ![g[1]][g[2]] = @ + 1]
    /\ goroutines' = goroutines \ {g}
    /\ UNCHANGED <<rows, worker, batch, granted, served, ghosts>>

\* ... or gives up: an error or the 10 s timeout is logged and forgotten.
GoroutineGivesUp(g) ==
    /\ goroutines' = goroutines \ {g}
    /\ UNCHANGED <<rows, worker, batch, granted, served, called, ghosts>>

\* The process dies: handlers, the sentinel's list and goroutines are gone.
Crash == /\ Fault
         /\ worker' = [w \in Workers |-> Idle]
         /\ batch' = {}
         /\ goroutines' = {}
         /\ UNCHANGED <<rows, granted, served, called>>

\* The next step of handler w, when nothing goes wrong.
Advance(w) == \/ MarkPaidDBOnly(w) \/ CreateSubscription(w)
              \/ MarkSubscriptionDone(w) \/ CreateVPNUser(w) \/ MarkComplete(w)
              \/ ResolveUser(w) \/ MarkCancelled(w) \/ MarkFailed(w)

Next == \/ \E w \in Webhooks, e \in Events, p \in Payments : HandleWebhook(w, e, p)
        \/ \E w \in Sentinels, cutoff \in 1 .. Cardinality(Payments) :
             SentinelTick(w, cutoff)
        \/ \E w \in Sentinels, p \in Payments : SentinelResume(w, p)
        \/ \E w \in Workers : \/ Advance(w) \/ CreateSubscriptionReplyLost(w)
                              \/ CreateVPNUserUnregistered(w) \/ StepFails(w)
        \/ \E g \in goroutines : GoroutineCalls(g) \/ GoroutineGivesUp(g)
        \/ Crash

Spec == Init /\ [][Next]_vars

\* Go runs every handler and goes on ticking; ticks never stop, so a stuck
\* payment grows older than any StaleAfter.  Nothing makes a provider repeat a
\* webhook, a call fail or the process crash.
FairSpec == /\ Spec
            /\ \A w \in Workers : WF_vars(Advance(w))
            /\ \A w \in Sentinels :
                 /\ WF_vars(SentinelTick(w, Cardinality(Payments)))
                 /\ WF_vars(\E p \in Payments : SentinelResume(w, p))

-----------------------------------------------------------------------------
(* Properties.                                                              *)

\* The variables keep their types: the columns hold the statuses of
\* model/payment.go, a handler is idle or at one of its steps.
TypeOK ==
    /\ status \in [Payments -> Status]
    /\ subIdKept \subseteq Payments
    /\ paidAt \in [Payments -> Nat]
    /\ worker \in [Workers -> Busy \cup {Idle}]
    /\ batch \subseteq Payments
    /\ granted \in [Payments -> Nat]
    /\ served \subseteq Users
    /\ goroutines \subseteq Calls \X Payments \X Workers
    /\ called \in [Calls -> [Payments -> Nat]]
    /\ acked \subseteq {"paid", "cancelled", "failed", "refunded"} \X Payments
    /\ faults \in Nat /\ deliveries \in Nat

\* A checkpoint can be resumed from: a payment at paid_subscription_done has
\* the subscription_id that parseSubscriptionIDFromMetadata needs, whichever
\* handler wrote the checkpoint and whatever the others did to the row.
\* Without it every retry fails and the payment is stuck for good.
CheckpointRecoverable ==
    \A p \in Payments : status[p] \in {"paid_subscription_done", "paid"}
                            => p \in subIdKept /\ granted[p] > 0

\* The provider stops repeating a paid webhook only when the payment needs no
\* more work: an answer 200 is never given on behalf of another handler that
\* may still fail.
AckedPaidIsFinal ==
    \A p \in Payments : <<"paid", p>> \in acked => status[p] \in Final

\* Nobody is told of, rewarded or charged a promo token for a payment before
\* its days are granted and its user can connect.
CalledMeansProvisioned ==
    \A c \in Calls, p \in Payments :
        called[c][p] > 0 => granted[p] > 0 /\ UserOf[p] \in served

\* How often the days of one payment can be granted at most: once by every
\* handler that can hold a stale copy of the status, and once more by each of
\* them per failure.
GrantsBounded ==
    \A p \in Payments : granted[p] <= Cardinality(Workers) * (1 + faults)

\* The rows go through the life cycle of migration 003: the conditional
\* UPDATEs of any number of handlers, with their failures and crashes, amount
\* to the checkpoint machine of PaymentLifecycle.
Lifecycle == INSTANCE PaymentLifecycle
                 WITH subscribed <- {p \in Payments : granted[p] > 0}
RefinesLifecycle == Lifecycle!Spec

\* A payment that reached paid_db_only is completed without another webhook:
\* the sentinel finds it at either checkpoint and carries it to paid, however
\* the handlers before it ended.
StuckEventuallyPaid ==
    \A p \in Payments : status[p] \in Intermediate ~> status[p] = "paid"

\* "CreateSubscription is idempotent ... the next retry calls it again without
\* harm": a payment's days are granted once (service/payment.go:317-320).
GrantedAtMostOnce == \A p \in Payments : granted[p] <= 1
=============================================================================
