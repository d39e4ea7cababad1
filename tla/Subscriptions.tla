---------------------------- MODULE Subscriptions -----------------------------
(***************************************************************************)
(* subscription-service: its transactions (repository/subscription.go) at  *)
(* the level of PostgreSQL's row locks under READ COMMITTED.               *)
(*                                                                         *)
(* What a transaction writes is seen, by the others, at its commit, and    *)
(* until then it holds the locks it took; so a transaction here reads in   *)
(* one or more steps and writes in its last.  Locks are not variables:     *)
(* they follow from the step every transaction is at.  A lock that never   *)
(* comes free (a deadlock, a deadline) ends in a rollback.                 *)
(***************************************************************************)
EXTENDS Integers, Sequences

CONSTANTS
    Users,       \* users.id
    SameId,      \* users whose telegram_id is the same number as their id
    PlanDays,    \* durations of the plans on sale
    TrialDays,   \* durations of a trial: the trial plan's, a campaign's
    BonusDays,   \* days of a bonus or an extension
    ChannelDays, \* the bonus for joining the channel
    Handlers,    \* RPC handlers that may be in progress at one time
    MaxCalls,    \* bound: RPCs in a behaviour
    MaxTime      \* bound: days in a behaviour

ASSUME UsersAssumption == SameId \subseteq Users
ASSUME DaysAssumption ==
    /\ PlanDays \cup TrialDays \cup BonusDays \subseteq Nat
    /\ ChannelDays \in Nat
ASSUME BoundsAssumption == MaxCalls \in Nat /\ MaxTime \in Nat

VARIABLES
    subs,      \* the subscriptions table, a sequence of rows by id
    pending,   \* users.pending_bonus_days
    trialUsed, \* users whose trial_used_at is set
    claimed,   \* users whose channel_bonus_claimed is set
    now,       \* the clock, in days
    tx,        \* the transactions in progress
    calls      \* RPCs so far

ledger == <<subs, pending, trialUsed, claimed, now>>
vars == <<ledger, tx, calls>>

Status == {"active", "trial", "cancelled", "expired"}
Row == [user : Users, status : Status, expires : Nat]

RowsOf(u) == {s \in DOMAIN subs : subs[s].user = u}
Current(s) == subs[s].status \in {"active", "trial"}

\* A transaction: what it was called with, when it began (its NOW()), the step
\* it is at, the row it works on (0: none) and the expires_at it starts from.
Transaction == [kind : {"create", "trial", "bonus", "claim"}, user : Users,
                days : Nat, start : Nat, pc : {"open", "find", "lock", "commit"},
                sub : Nat, base : Nat]
Idle == [kind |-> "idle"]

At(h, kind, pc) == tx[h].kind = kind /\ tx[h].pc = pc
Goto(h, pc) == tx' = [tx EXCEPT ![h].pc = pc]
End(h) == tx' = [tx EXCEPT ![h] = Idle]

-----------------------------------------------------------------------------
(* Locks.                                                                   *)

\* SELECT ... FROM users ... FOR UPDATE, held to the end of the transaction.
\* CreateSubscription takes it last and commits at once.
HoldsUser(h, u) == /\ tx[h].kind \in {"trial", "bonus", "claim"}
                   /\ tx[h].pc # "open" /\ tx[h].user = u

\* The KEY SHARE an INSERT takes on the row its foreign key points to.
HoldsUserKey(h, u) == At(h, "create", "commit") /\ tx[h].sub = 0 /\ tx[h].user = u

\* SELECT ... FROM subscriptions ... FOR UPDATE.
HoldsSub(h, s) == /\ tx[h].kind \in {"create", "bonus"}
                  /\ tx[h].pc = "commit" /\ tx[h].sub = s

Others(h) == Handlers \ {h}
UserFree(h, u) == \A g \in Others(h) : ~HoldsUser(g, u) /\ ~HoldsUserKey(g, u)
UserKeyFree(h, u) == \A g \in Others(h) : ~HoldsUser(g, u)
SubFree(s) == \A g \in Handlers : ~HoldsSub(g, s)

-----------------------------------------------------------------------------

Init == /\ subs = <<>>
        /\ pending = [u \in Users |-> 0]
        /\ trialUsed = {}
        /\ claimed = {}
        /\ now = 0
        /\ tx = [h \in Handlers |-> Idle]
        /\ calls = 0

Call == calls < MaxCalls /\ calls' = calls + 1

\* db.Begin, for the four RPCs that run a transaction of several statements.
Begin(h, kind, u, d) ==
    /\ tx[h] = Idle
    /\ Call
    /\ tx' = [tx EXCEPT ![h] = [kind |-> kind, user |-> u, days |-> d,
                                start |-> now, pc |-> "open", sub |-> 0,
                                base |-> 0]]
    /\ UNCHANGED ledger

\* Operators named Broken... are the bugs the properties are tried against;
\* no action uses them.

\* The user's row s that expires last, or 0 if there is none in S.
Latest(S, s) == IF S = {} THEN s = 0
                ELSE s \in S /\ \A t \in S : subs[t].expires <= subs[s].expires

\* The rows a transaction of user u that began at start takes for active.
ActiveRows(u, start) ==
    {s \in RowsOf(u) : Current(s) /\ subs[s].expires > start}

-----------------------------------------------------------------------------
(* CreateSubscription.                                                      *)

\* SELECT ... ORDER BY expires_at DESC LIMIT 1 FOR UPDATE: the row is chosen,
\* and the transaction waits for its lock.
CreateFind(h) ==
    /\ At(h, "create", "open")
    /\ \E s \in 0 .. Len(subs) :
         /\ Latest(RowsOf(tx[h].user), s)
         /\ tx' = [tx EXCEPT ![h].sub = s, ![h].pc = "lock"]
    /\ UNCHANGED <<ledger, calls>>

\* The lock is granted, and the row is read again: a live subscription is
\* prolonged from its end, any other from NOW().
CreateLock(h) ==
    /\ At(h, "create", "lock") /\ tx[h].sub # 0
    /\ SubFree(tx[h].sub)
    /\ LET s == tx[h].sub
           base == IF Current(s) /\ subs[s].expires > now
                   THEN subs[s].expires ELSE tx[h].start
       IN  tx' = [tx EXCEPT ![h].base = base, ![h].pc = "commit"]
    /\ UNCHANGED <<ledger, calls>>

\* No row: INSERT.
CreateInsert(h) ==
    /\ At(h, "create", "lock") /\ tx[h].sub = 0
    /\ UserKeyFree(h, tx[h].user)
    /\ tx' = [tx EXCEPT ![h].base = tx[h].start, ![h].pc = "commit"]
    /\ UNCHANGED <<ledger, calls>>

\* The row written by h, opened or prolonged, with the pending days on top.
Write(h, kind) ==
    LET u == tx[h].user
        expires == tx[h].base + tx[h].days + pending[u]
    IN  subs' = IF tx[h].sub = 0
                THEN Append(subs, [user |-> u, status |-> kind,
                                   expires |-> expires])
                ELSE [subs EXCEPT ![tx[h].sub].status = kind,
                                  ![tx[h].sub].expires = expires]

\* The pending days are applied and left where they are.
BrokenCreateCommit(h) ==
    /\ At(h, "create", "commit")
    /\ UserFree(h, tx[h].user)
    /\ Write(h, "active")
    /\ End(h)
    /\ UNCHANGED <<pending, trialUsed, claimed, now, calls>>

\* consumePendingBonusDaysTx and COMMIT.
CreateCommit(h) ==
    /\ At(h, "create", "commit")
    /\ UserFree(h, tx[h].user)
    /\ Write(h, "active")
    /\ pending' = [pending EXCEPT ![tx[h].user] = 0]
    /\ End(h)
    /\ UNCHANGED <<trialUsed, claimed, now, calls>>

-----------------------------------------------------------------------------
(* StartTrial.                                                              *)

TrialLock(h) ==
    /\ At(h, "trial", "open")
    /\ UserFree(h, tx[h].user)
    /\ IF tx[h].user \in trialUsed THEN End(h)
       ELSE tx' = [tx EXCEPT ![h].base = tx[h].start, ![h].pc = "commit"]
    /\ UNCHANGED <<ledger, calls>>

\* The flag is set through the pool, on a connection of its own, and waits for
\* the lock of the very transaction it belongs to.
BrokenTrialCommit(h) ==
    /\ At(h, "trial", "commit")
    /\ \A g \in Handlers : ~HoldsUser(g, tx[h].user)
    /\ Write(h, "trial")
    /\ trialUsed' = trialUsed \cup {tx[h].user}
    /\ pending' = [pending EXCEPT ![tx[h].user] = 0]
    /\ End(h)
    /\ UNCHANGED <<claimed, now, calls>>

TrialCommit(h) ==
    /\ At(h, "trial", "commit")
    /\ Write(h, "trial")
    /\ trialUsed' = trialUsed \cup {tx[h].user}
    /\ pending' = [pending EXCEPT ![tx[h].user] = 0]
    /\ End(h)
    /\ UNCHANGED <<claimed, now, calls>>

-----------------------------------------------------------------------------
(* ApplyBonusDays.                                                          *)

BonusLockUser(h) ==
    /\ At(h, "bonus", "open")
    /\ UserFree(h, tx[h].user)
    /\ Goto(h, "find")
    /\ UNCHANGED <<ledger, calls>>

\* The active row is chosen; without one the days are put aside.
BonusFind(h) ==
    /\ At(h, "bonus", "find")
    /\ LET u == tx[h].user
           active == ActiveRows(u, tx[h].start)
       IN  IF active = {}
           THEN /\ pending' = [pending EXCEPT ![u] = @ + tx[h].days]
                /\ End(h)
           ELSE /\ \E s \in active :
                     /\ Latest(active, s)
                     /\ tx' = [tx EXCEPT ![h].sub = s, ![h].pc = "lock"]
                /\ UNCHANGED pending
    /\ UNCHANGED <<subs, trialUsed, claimed, now, calls>>

\* The row is read without FOR UPDATE.
BrokenBonusLock(h) ==
    /\ At(h, "bonus", "lock")
    /\ LET s == tx[h].sub
       IN  IF s \in ActiveRows(tx[h].user, tx[h].start)
           THEN tx' = [tx EXCEPT ![h].base = subs[s].expires, ![h].pc = "commit"]
           ELSE Goto(h, "find")
    /\ UNCHANGED <<ledger, calls>>

\* The lock is granted and the row is read again; one that is no longer active
\* is passed over.
BonusLock(h) ==
    /\ At(h, "bonus", "lock")
    /\ SubFree(tx[h].sub)
    /\ LET s == tx[h].sub
       IN  IF s \in ActiveRows(tx[h].user, tx[h].start)
           THEN tx' = [tx EXCEPT ![h].base = subs[s].expires, ![h].pc = "commit"]
           ELSE Goto(h, "find")
    /\ UNCHANGED <<ledger, calls>>

\* UPDATE subscriptions SET expires_at = base + days, and COMMIT.
BonusCommit(h) ==
    /\ At(h, "bonus", "commit")
    /\ subs' = [subs EXCEPT ![tx[h].sub].expires = tx[h].base + tx[h].days]
    /\ End(h)
    /\ UNCHANGED <<pending, trialUsed, claimed, now, calls>>

-----------------------------------------------------------------------------
(* ClaimChannelBonus.                                                       *)

\* A member of the channel asks for the bonus, in the Mini App or in the bot.
ClaimChannelBonus(h, u) == Begin(h, "claim", u, ChannelDays)

\* One number is looked up in users.telegram_id and in subscriptions.user_id:
\* for a user outside SameId one of the two finds nothing and nothing changes.
\* The active row is read without a lock.
ClaimLock(h) ==
    /\ At(h, "claim", "open")
    /\ LET u == tx[h].user
           active == ActiveRows(u, tx[h].start)
       IN  /\ u \in SameId => UserFree(h, u)
           /\ IF u \notin SameId \/ u \in claimed \/ active = {} THEN End(h)
              ELSE \E s \in active :
                     /\ Latest(active, s)
                     /\ tx' = [tx EXCEPT ![h].sub = s, ![h].pc = "commit",
                                         ![h].base = subs[s].expires]
    /\ UNCHANGED <<ledger, calls>>

ClaimCommit(h) ==
    /\ At(h, "claim", "commit")
    /\ SubFree(tx[h].sub)
    /\ subs' = [subs EXCEPT ![tx[h].sub].expires = tx[h].base + ChannelDays]
    /\ claimed' = claimed \cup {tx[h].user}
    /\ End(h)
    /\ UNCHANGED <<pending, trialUsed, now, calls>>

-----------------------------------------------------------------------------
(* Transactions of one statement, and what else happens.                    *)

ExtendSubscription(s, d) ==
    /\ Call
    /\ SubFree(s)
    /\ subs' = [subs EXCEPT ![s].expires = @ + d]
    /\ UNCHANGED <<pending, trialUsed, claimed, now, tx>>

\* A status that no CHECK constraint refuses and no query knows.
MisspeltCancelSubscription(s) ==
    /\ Call
    /\ SubFree(s)
    /\ subs' = [subs EXCEPT ![s].status = "canceled"]
    /\ UNCHANGED <<pending, trialUsed, claimed, now, tx>>

CancelSubscription(s) ==
    /\ Call
    /\ SubFree(s)
    /\ subs' = [subs EXCEPT ![s].status = "cancelled"]
    /\ UNCHANGED <<pending, trialUsed, claimed, now, tx>>

\* The expire cron's UPDATE, with the NOW() of its own start; it waits for rows
\* that are locked and looks at them again.
ExpireOverdueSubscriptions(start) ==
    LET overdue == {s \in DOMAIN subs : Current(s) /\ subs[s].expires < start}
    IN  /\ overdue # {}
        /\ \A s \in overdue : SubFree(s)
        /\ subs' = [s \in DOMAIN subs |->
                       IF s \in overdue THEN [subs[s] EXCEPT !.status = "expired"]
                       ELSE subs[s]]
        /\ UNCHANGED <<pending, trialUsed, claimed, now, tx, calls>>

\* An error, a deadline or a deadlock ends a transaction without effect.
Rollback(h) == /\ tx[h] # Idle
               /\ End(h)
               /\ UNCHANGED <<ledger, calls>>

\* A day passes.  A transaction is over before the clock moves twice.
Tick == /\ now < MaxTime
        /\ \A h \in Handlers : tx[h] # Idle => tx[h].start = now
        /\ now' = now + 1
        /\ UNCHANGED <<subs, pending, trialUsed, claimed, tx, calls>>

\* The next statement of the transaction of h.
Advance(h) == \/ CreateFind(h) \/ CreateLock(h) \/ CreateInsert(h) \/ CreateCommit(h)
              \/ TrialLock(h) \/ TrialCommit(h)
              \/ BonusLockUser(h) \/ BonusFind(h) \/ BonusLock(h) \/ BonusCommit(h)
              \/ ClaimLock(h) \/ ClaimCommit(h)

Next == \/ \E h \in Handlers, u \in Users :
             \/ \E d \in PlanDays : Begin(h, "create", u, d)
             \/ \E d \in TrialDays : Begin(h, "trial", u, d)
             \/ \E d \in BonusDays : Begin(h, "bonus", u, d)
             \/ ClaimChannelBonus(h, u)
        \/ \E h \in Handlers : Advance(h) \/ Rollback(h)
        \/ \E s \in DOMAIN subs :
             CancelSubscription(s) \/ \E d \in BonusDays : ExtendSubscription(s, d)
        \/ \E start \in {now, now - 1} \cap Nat : ExpireOverdueSubscriptions(start)
        \/ Tick

Spec == Init /\ [][Next]_vars

-----------------------------------------------------------------------------
(* Properties.                                                              *)

\* The variables keep their types: every status is one the queries know.
TypeOK ==
    /\ subs \in Seq(Row)
    /\ pending \in [Users -> Nat]
    /\ trialUsed \subseteq Users /\ claimed \subseteq Users
    /\ now \in Nat
    /\ tx \in [Handlers -> Transaction \cup {Idle}]
    /\ calls \in Nat

\* The transactions, interleaved statement by statement and rolled back at any
\* point, amount to requests that change the ledger of days one at a time: no
\* day paid for or given is lost, applied twice or applied to a stale date.
Ledger == INSTANCE SubscriptionLedger
RefinesLedger == Ledger!Spec

\* The next statement of the transaction of h needs a lock that another holds.
Waits(h) ==
    LET u == tx[h].user
        s == tx[h].sub
    IN  \/ At(h, "create", "lock") /\ IF s = 0 THEN ~UserKeyFree(h, u) ELSE ~SubFree(s)
        \/ At(h, "create", "commit") /\ ~UserFree(h, u)
        \/ At(h, "trial", "open") /\ ~UserFree(h, u)
        \/ At(h, "bonus", "open") /\ ~UserFree(h, u)
        \/ At(h, "bonus", "lock") /\ ~SubFree(s)
        \/ At(h, "claim", "open") /\ u \in SameId /\ ~UserFree(h, u)
        \/ At(h, "claim", "commit") /\ ~SubFree(s)

\* Nothing but a lock that another transaction holds keeps a transaction from
\* its next statement, whatever the tables have become since it began.
OnlyLocksStop ==
    \A h \in Handlers : tx[h] # Idle => (ENABLED Advance(h) <=> ~Waits(h))

\* Of the transactions of a user some waits for nobody, if none is a purchase.
OthersGoOn ==
    \A u \in Users :
       LET of == {h \in Handlers : tx[h] # Idle /\ tx[h].user = u}
       IN  of # {} /\ (\A h \in of : tx[h].kind # "create") => \E h \in of : ~Waits(h)

\* Only CreateSubscription, which locks a subscription before its user while
\* the others lock the user first, can be part of a deadlock: as long as no
\* purchase is in progress for a user, one of his transactions can go on.
OnlyPurchasesDeadlock == OnlyLocksStop /\ OthersGoOn

HasLive(u) == \E s \in RowsOf(u) : Current(s) /\ subs[s].expires > now

\* A bonus transaction that began before the subscription of its user ran out.
LateBonus(h) == tx[h].kind \in {"bonus", "claim"} /\ tx[h].start < now

\* Bonus days wait only for a user without a live subscription: whoever gets
\* one has his waiting days used up by the same transaction, however purchases,
\* trials and bonuses overtake each other.  The exceptions both revive a
\* subscription that ran out: ExtendSubscription, and a bonus that took it for
\* active because it began before.
PendingWithoutLive ==
    [][\A u \in Users :
         ~(pending[u] > 0 /\ HasLive(u)) /\ (pending[u] > 0 /\ HasLive(u))'
             => \/ \E s \in DOMAIN subs, d \in BonusDays : ExtendSubscription(s, d)
                \/ \E h \in Handlers : LateBonus(h) /\ tx'[h] = Idle]_vars

\* "CreateSubscription upserts by user_id: if the user has a subscription it
\* is updated in place" (repository/subscription.go:174-175): a purchase opens
\* a row only for a user that has none.
PurchaseUpserts ==
    [][\A h \in Handlers :
         CreateCommit(h) /\ Len(subs') > Len(subs) => RowsOf(tx[h].user) = {}]_vars
=============================================================================
