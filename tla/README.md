# A TLA+ model of the VPN service

This directory models the back end of the VPN shop in this repository: Go
micro-services that sell subscriptions over Telegram, provision VPN accounts on
Xray servers, hand out configurations, pay referral bonuses and write to their
users.  It holds TLA+ modules translated from the Go code, the TLC
configurations that check them on small instances, and TLAPS proofs of the
results that must hold for every instance.

Run everything in this directory:

    tlc -workers 2 -config PaymentFlow_safe.cfg MC_PaymentFlow.tla
    tlc -workers 2 -config VpnUsage_safe.cfg MC_VpnUsage.tla      # and so on: X_safe.cfg with MC_X.tla
    tlapm PaymentFlow_proofs.tla                                  # and so on: X_proofs.tla

`PROJECT.json` lists the components, the runs, the mutants each property was
tried against, the source lines behind each definition, the hazards and the
findings.

## 1. Inventory

| component | state it keeps | operations | what is hard |
|---|---|---|---|
| payment-service | `payments` rows (`status`, `external_id`, `paid_at`, `metadata`), the cached WATA key | CreateInvoice, HandleWebhook (paid / cancelled / failed / refunded), sentinel tick | repeated and racing webhooks, lost RPC replies, crashes between checkpoints, resuming; an id stored after the link exists; a key that is rotated |
| subscription-service | `subscriptions`, `users.pending_bonus_days`, `trial_used_at`, `channel_bonus_claimed` | CreateSubscription, StartTrial, ApplyBonusDays, ClaimChannelBonus, ExtendSubscription, CancelSubscription, expire cron | transactions that lock different rows in different orders; expire racing renewal |
| vpn-service | `vpn_users`, `vpn_servers`, `subscription_fetches`, `traffic_samples`, the lists and counters in every Xray process | CreateVPNUser, DisableVPNUser, ResyncServer, resync cron, start-up resync, GetVLESSLink with the device limit, RegisterDeviceTouch, load and traffic crons | a copied list that is pushed user by user, servers that restart and lose it; count-then-insert; counters reset before they are stored |
| referral-service | relationships, bonuses, balances, withdrawals, campaigns | RegisterReferral, ApplyBonus, CreateWithdrawal, links, clicks, campaigns | idempotence keys written before the effect they stand for |
| auth-service | `users`, roles, `bot_starts`, `user_attribution`, promo codes, `broadcast_drafts`, `broadcast_sends` | ValidateTelegramUser, RegisterFromBot, SelfUpdateRole, IssuePromo, LookupUser, MarkUsedByPayment, retention cron, Approve / Update / CancelBroadcast, Send | registration races, several administrators at one draft, a broadcast that stops in the middle |
| gateway | none of its own (rate limiter buckets) | HTTP and bot commands to gRPC, the subscription link | several RPCs per command without a transaction; configurations built twice in two formats |
| platform | Xray connection pool | GetOrConnect, Remove | dialling outside the lock |

How they interact.  The gateway forwards a provider's webhook to payment-service,
which calls subscription-service (days), vpn-service (account), auth-service
(promo code, Telegram id), referral-service (bonus) and Telegram (message), in
that order.  The expire cron of subscription-service calls vpn-service to remove
accounts.  referral-service calls subscription-service to grant bonus days.  A
newcomer's first request makes the gateway call auth-service, referral-service,
subscription-service and vpn-service one after the other.  A client that
follows its subscription link gets a configuration from the gateway, which asks
vpn-service for the servers and then has it record the client.  All services
have their tables in one PostgreSQL and some read or reference each other's;
no transaction spans two services and no call carries an idempotency key.

What makes each part correct:

* payments: no webhook, repetition, crash or race loses a paid payment or marks
  one complete before its work is done; how often days can be granted is bounded;
  a customer can only pay where the payment will be found;
* subscriptions: concurrent transactions amount to one-at-a-time changes of a
  ledger of days, none is lost;
* vpn: a server accepts exactly the accounts the table holds, again and again
  after every failure; whoever has a running subscription is served and nobody
  else; a limit on devices and a count of bytes that can be relied upon;
* configurations: both formats show the same servers, and no connection is sent
  to an outbound that does not exist;
* referrals, promo codes: one reward per event, and a recorded reward is a
  paid one; a discount is used up by its own payment;
* accounts: every newcomer is served once and keeps his first attribution;
* broadcasts: only what was approved is sent, as it was approved, once.

## 2. Modules

| module | models | status |
|---|---|---|
| `PaymentLifecycle` | the promise about a payment row: the checkpoint machine of migration 003 | checked, refined, proved |
| `PaymentFlow` | `handleSuccessfulPayment` and its siblings, the sentinel, hooks, failures, crashes | checked, proved |
| `Invoice` | CreateInvoice, the three providers, the check of webhooks, finding the row | checked, proved |
| `SubscriptionLedger` | the promise of subscription-service: a ledger of days changed by one request at a time | checked, refined, proved |
| `Subscriptions` | its transactions at the level of row locks, the expire UPDATE, passing days | checked, proved |
| `Referral` | rewards in days and money, withdrawals | checked, proved |
| `Accounts` | arrival by bot and Mini App, attribution, trial, roles, campaigns, promo codes | checked, proved |
| `DraftLifecycle` | the promise about a broadcast: the life of a draft, who gets it, what the log says | checked, refined, proved |
| `Broadcast` | the retention cron, drafts, administrators, senders | checked, proved |
| `VpnRegistry` | `vpn_users` and the lists in Xray | checked, proved |
| `Access` | subscriptions, `vpn_users`, the expire cron's loop in between | in `VpnUsage` |
| `ClientConfig` | the configurations a subscription link returns, pure operators | in `VpnUsage` |
| `Devices` | links, devices, the load of servers; extends `Access`, `ClientConfig` | in `VpnUsage` |
| `Traffic` | the traffic cron; extends `Access` | in `VpnUsage` |
| `VpnUsage` | composes `Devices` and `Traffic` over one table of rows | checked, proved |
| `X_proofs` | TLAPS proofs about module `X`, for eight `X` | |
| `MC_*` | constants for TLC | |

Three modules describe one thing at different grain: what happens between
`paid_db_only` and `paid` is one step of `Invoice` and all of `PaymentFlow`;
a purchase is one step of `Access` and a transaction with locks in
`Subscriptions`; an account is a row in `Access` and a row with its copies on
servers in `VpnRegistry`.  Operators called `Broken...` are the bugs the
properties are tried against; no action uses them.

### PaymentFlow

One record per payment row: `status`, whether `metadata` has the
`subscription_id` (`subIdKept`), and `paidAt`, the rank of `paid_at` among the
others.  A handler in progress (`worker[w]`) is a program counter, the payment
and whether it knows the plan name.  The fields of the row other than its
status that it copied do not change and are left out; the status it copied is
its program counter.

| code | action |
|---|---|
| `HandleWebhook`, `SELECT` of `handleSuccessfulPayment` | `HandleWebhook`, `ReadForPaid` |
| `MarkPaidDBOnly`, `MarkSubscriptionDone`, `MarkComplete`, `MarkCancelled`, `MarkFailed` (conditional UPDATEs) | the actions of the same names, through `MoveStatus` |
| `CreateSubscription` RPC | `CreateSubscription`, `CreateSubscriptionReplyLost` |
| `CreateVPNUser` RPC | `CreateVPNUser`, `CreateVPNUserUnregistered` |
| `auth.GetUser`, `go notifier.NotifyPaid`, hooks | `ResolveUser`, `GoroutineCalls`, `GoroutineGivesUp` |
| sentinel `tick`, `ListStuckPaid` | `SentinelTick`, `SentinelResume` |
| any error return | `StepFails` |
| process death | `Crash` |

`granted`, `served`, `called` are the effects of the calls in the other
services; `acked` is what the provider was told.  A failed call, lost reply or
crash uses up one of `MaxFaults`, so that a bound on failures can appear in a
property (`GrantsBounded`).

The promo hook also runs for payments without a token and the referral hook
for users nobody invited; both end in the callee without effect, which is the
same as `GoroutineGivesUp`.

### Invoice

One customer's way from an order to a webhook.  `row` is `payments`, `links`
and `txs` are what the providers keep, `held` the links whose URL a customer
has.  A CreateInvoice request (`call`) has three steps with a failure after
each; a webhook (`hook`) has the steps of `ValidateWebhook` and of the first
half of `HandleWebhook`.

| code | actions |
|---|---|
| `CreateInvoice`, `CreatePending` | `CreatePending`, then the provider's `WataCreateInvoice`, `PlategaCreateInvoice` or `TelegramCreateInvoice` (or `ProviderFails`), `UpdateExternalID`, `ReplyWithLink` |
| `wata.ValidateWebhook`, `getPublicKey`, `publicKeyTTL` | `ValidateWebhook`, `FetchPublicKey`, `StorePublicKey`, `KeyExpires` |
| `platega.ValidateWebhook`, the gateway's check of Telegram's token | `PlategaWebhook`, `TelegramWebhook`: what reaches payment-service has passed |
| `HandleWebhook`, `GetByExternalID` | `HandleWebhook`, with the mapping of states in `WataStatus`, `PlategaStatus`, `TelegramStatus` |
| the providers themselves | `Attempt`, `Settle`, `RotateKey` |
| process death | `Crash` |

`txs` is the history of what the providers have to say, one event after the
other.  A WATA link is ManyTime and may be tried, and paid, again; what WATA has
only authorised, which the adapter counts as paid, it may take or let go later.
Platega's link stands for one transaction, which may be charged back.  Telegram's
charge id is known only after the payment and no row has it, so that
`GetByExternalID` finds nothing for it, as in the code.  A row keeps as history
the event that made it paid (`by`), and an event names the transaction it is of,
which is how the properties tell whose money completed what.

`ValidateWebhook(i, s)` is the state of a webhook about event `i`, signed with key
`s`, after its check against the cached key: valid, or on its way to fetch one.

### Subscriptions

The table is a sequence of rows (`BIGSERIAL` ids); a row keeps its user, status
and `expires_at`, in days.  A handler runs a transaction, `tx[h]`: the RPC and
its arguments, the time it began (PostgreSQL's `NOW()` is that of the start of
the transaction, and the models care), its step, the row it chose and the
`expires_at` it computes from.  What a transaction writes is invisible to the
others before COMMIT and protected by its locks, so the writes are part of its
last step.  The locks are predicates over the steps: `HoldsUser` and `HoldsSub`
for `FOR UPDATE`, `HoldsUserKey` for the `KEY SHARE` an INSERT takes through its
foreign key.  Waiting for a lock is a guard; after the wait the row is read
again, as READ COMMITTED does.  `Rollback` stands for every error, deadline and
deadlock victim.

| code | actions |
|---|---|
| `CreateSubscription`, `consumePendingBonusDaysTx` | `CreateFind`, `CreateLock` or `CreateInsert`, `CreateCommit` |
| `StartTrialTx` | `TrialLock`, `TrialCommit` |
| `ApplyBonusDaysTx` | `BonusLockUser`, `BonusFind`, `BonusLock`, `BonusCommit` |
| `ClaimChannelBonusTx` | `ClaimLock`, `ClaimCommit` |
| `ExtendSubscription`, `CancelSubscription`, `ExpireOverdueSubscriptions` (one statement each) | the actions of the same names |

`ClaimChannelBonusTx` looks one number up in `users.telegram_id` and in
`subscriptions.user_id`.  The Mini App passes a Telegram id and the bot an
internal id (`telegram_bot.go:641`), so that unless the two coincide one of the
two lookups finds nothing and the claim has no effect.  `SameId` is the set of
users for whom they coincide; that the telegram_id of one user equals the id of
another is left out.

`SubscriptionLedger` says what this amounts to: purchases, trials, bonuses,
extensions, cancellations and expiries that each change the ledger at once.
Its `ChannelBonus` is weaker than the others, because the code reads the row
without a lock: days `ExtendSubscription` adds meanwhile are overwritten.

### Referral

Rows of `referral_bonuses` and `campaign_payouts` are kept by their unique key:
`credits` by channel and payment, `gifts` (days, without a key) by recipient and
invited user; `creditDone` and `giftDone` are their `is_applied`.  `given` counts
the `ApplyBonusDays` calls that took effect in subscription-service.  A call is
one record in `proc` with its step (`pc`); a withdrawal is a transaction and
holds the lock of the row of `users` until it commits.  Checks that end a call
without effect (bad token, self-invitation, an old account) are guards.
Percentages and rounding are in `Share`; whom a campaign pays is `CampaignOf`.
How campaigns come and go is in `Accounts`.

| code | actions |
|---|---|
| `RegisterReferral`, `applyDaysBonus` | `RegisterReferral`, `CreateRelationship`, then for the invited user and perhaps the inviter `RecordGift`, `GiveDays`, `MarkGift` |
| `ApplyBonus`, `applyCampaignPayout` | `ApplyBonus`, then per channel `RecordCredit`, `AddBalance`, `MarkCredit`; `MarkPurchased` and `ReadAttribution` in between |
| `CreateWithdrawal` | `CreateWithdrawal`, `LockBalance`, `CommitWithdrawal` |
| errors that are logged and ignored | `RegisterFails`, `ApplyFails` |
| errors that are returned, deadlines, process death | `CutOff` |
| `UpdateUserRole`, `SelfUpdateRole` of auth-service | `UpdateUserRole` |

### Accounts

One record per person for `users` with `user_attribution` and what the other
services hold for him (trial, account); `starts` is `bot_starts`, `campaigns` the
campaigns by slug, `invited` the RegisterReferral calls (whose effects are
`Referral`'s), `promo` and `pays` the promo codes and the payments opened
through them.  A request (`req`) does one call to another service, or one
statement, at a time.

| code | actions |
|---|---|
| bot `/start`, `RecordBotStart`, `RegisterFromBot` | `HandleStart`, `RecordBotStart`, `GetUserByTelegramID`, `CreateUser` |
| `ValidateTelegramUser` | `ValidateTelegramUser`, `GetUserByTelegramID`, `CreateUser`, `OpenApp` |
| the gateway's calls for a new user | `Attribute`, `StartTrial`, `CreateVPNUser` |
| `SelfUpdateRole`, `UpdateUserRole` | `SelfUpdateRole`, `WriteRole`, `UpdateUserRole` |
| `CreateCampaign`, `UpdateCampaign`, `ArchiveCampaign` | the actions of the same names |
| `/promo`: `LookupUser`, `IssuePromo` | `HandlePromo`, `LookupByTelegramID`, `LookupOrCreateByTelegramID`, `GetActiveByUserPlan`, `InsertPromo` |
| `GET /promo/p/<token>` | `Redeem`, `CreateInvoice`, `AttachPayment` |
| the promo hook of payment-service | `Pay`, `MarkUsedByPayment` |
| errors that are logged and ignored; any other | `BestEffortFails`; `RequestFails` |

### Broadcast

Users are what the selectors look at: the kind of subscription, when it began
and ends, the last traffic, the ban.  Time runs in units in which only the order of
`Day`, `ThreeDays`, `Week`, `TrialTime` and `PlanTime` matters.  A message that
reached a user is a record of `msgs`; `sends` is the log.

The selectors JOIN `users` with `subscriptions` without a DISTINCT.  A selection is
therefore one of `Places`, pairs of a user and the row of `subscriptions` he is
listed for (with `LIMIT`, any set of them of the size of the cap); of a place,
`recipient_ids` and the sender keep the user alone, and so do the filters on the
log and its `UNIQUE (broadcast_id, user_id)`.  A user has a second row when two
first purchases race, as `Subscriptions_upsert` shows, or when he bought before
his trial (`Buys`, `StartsTrial`).

`DraftLifecycle` says what this amounts to for whoever looks at the drafts, the
messages and the log: a draft is edited until it is approved or cancelled; an
approved one is sent once, each place of its list gets at most one message, with
the approved text, and none after the entry about it; a user has one entry, and
none says "sent" of a message that did not arrive, or "blocked" of one that did.

| code | actions |
|---|---|
| `RetentionCron.Run`, `processSegment`, the `Select...` queries | `Tick`, `SelectSegment`, `InsertBroadcastDraft`, `SegmentFails` |
| `ApproveBroadcast` (a read, an UPDATE with its condition, `go Send`) | `ApproveBroadcast`, `Approve` |
| `UpdateBroadcast`, `CancelBroadcast` | `UpdateDraftFields`, `CancelBroadcast` |
| `BroadcastSender.Send`, `sendOne`, `InsertSend` | `Send`, `SendOne`, `InsertSend`, `FinishSend` |
| errors; process death | `RequestFails`; `Crash` |
| what other services write | `UserMoves`, `BanUser` |

### VpnRegistry

`rows` is `vpn_users`; `registry[server][user]` is what the Xray process on a
server holds under the user's email.  The email is made from the user id
alone, so two rows of one user (two subscriptions) share it, and Xray's
refusal of a second account of that email counts as success: `AddUser` leaves
what is there.  `active` are the servers whose `is_active` is set, which the
administrator switches in the table: the loops of `CreateVPNUser` and
`DisableVPNUser` and both resyncs go over these.  Calls in progress (`proc`) push to one server, or one row, at a
time, in any order (the code ranges over a slice from an unordered query).
`down`, `ServerLost`, `ServerBack`, `XrayRestarts`, `DeadlinePasses` and
`ServiceRestarts` are the failures.  `missed` is a history variable: users for
whom `DisableVPNUser` skipped a server that was down or that had their
account and was switched off, or overlapped with an `AddUser`.  A user once
missed stays so: what becomes of him later is outside `NoForeignAccount`, as when
he pays again and the server that was missed still knows him by the UUID of the
row that is gone.

### Access, ClientConfig, Devices, Traffic and VpnUsage

`Access` has subscriptions, any number of them for a user (`UserOf` says whose each
is), with at most one row of `vpn_users` each, and what moves them: a purchase
renews the subscription of the user that ends last and, in a later call that is
retried until it succeeds (`toServe`; the sentinel of `PaymentFlow` sees to
that), writes its row; `ExpireCron` marks overdue subscriptions in one UPDATE and
calls `DisableVPNUser` for their owners afterwards, one by one (`overdue`), which
deletes all rows of the user; a cancellation changes the status and no row.  How
a user comes by a second subscription is in `Subscriptions`; here the
subscriptions are there from the start.

`Devices` has the devices of a row (`subscription_fetches`) and the servers;
`Traffic` the counters, the samples and the tick; `ClientConfig` is data without
state: how the list of servers is ordered, which is the default, what both
formats contain, and where each rule sends a connection.  Domains and networks
are classes (local, Apple, Russian, YouTube, other), and a server's pool of SNIs
is the set of their kinds.  `VpnUsage` puts them together: a deleted row takes
its devices and samples along (the foreign keys), and a restart of vpn-service
ends its requests and the tick.

| code | actions and operators |
|---|---|
| `CreateSubscription`, `CancelSubscription`, `CreateVPNUser`, `ExpireCron.tick`, `DisableVPNUser` | `Purchase`, `CancelSubscription`, `CreateVPNUser`, `ExpireOverdueSubscriptions`, `DisableVPNUser`, `DisableFails` |
| `GenerateVLESSLink` (four statements) | `GenerateVLESSLink`, `GetActiveConnections`, `CheckLimit`, `UpsertActiveConnection` |
| `GET /sub/<token>`, `RegisterDeviceTouch` in the background | `GetSubscriptionConfig`, `RegisterDeviceTouch`, `TouchTimesOut` |
| `DisconnectDevice`, `LoadCron`, edits of servers | `DisconnectDevice`, `UpdateServerLoad`, `EditServer` |
| `splitByPriority`, `pickDefaultServer`, `writeBase64Format`, `writeJSONFormat`, `buildAutoXrayConfig` | `PriorityServers`, `NormalServers`, `PickDefaultServer`, `WriteBase64Format`, `WriteJSONFormat`, `BuildAutoXrayConfig` |
| `buildRouting`, `buildAutoRouting`, the lists of `subscription_routing.go` | `BuildRouting`, `BuildAutoRouting`; Xray's reading of them is `Matches`, `Route` (external) |
| `TrafficCron.tick`, `QueryAllUserStats`, the baseline, `InsertTrafficSamplesBatch` | `StartTick`, `QueryAllUserStats`, `QueryFails`, `InsertTrafficSamplesBatch`, `InsertFails` |
| process death | `Restart` |

Histories: `how` says by which door a device got in and at which limit; `lapsed`,
`raced` and `late` say that ExpireCron marked a subscription which has not been paid
for since, that it was paid for while the cron had its user on its list, and that
it was served when it was over; `owed` counts bytes neither stored nor dropped on
purpose; `torn` says that a row came or went during a tick.

## 3. Runs

| run | question | expected |
|---|---|---|
| `PaymentFlow_safe` | are checkpoints resumable, acknowledgements final, calls preceded by provisioning, repeated grants bounded, and do the handlers implement `PaymentLifecycle`? | pass (1.1 M states) |
| `PaymentFlow_live` | does the sentinel complete every stuck payment? | pass |
| `PaymentFlow_grant_retry` | are the days of a payment granted once, as the comment at `service/payment.go:317-320` says? | violation |
| `Invoice_safe` | does everyone who pays on a link in hand have a row the webhook finds, is what is acknowledged honoured, does a rotated key lose a genuine webhook? | pass (2.0 M states) |
| `Subscriptions_safe` | do concurrent transactions implement the ledger, do bonus days ever wait next to a live subscription, who can deadlock, what stops a transaction? | pass (0.3 M states) |
| `Subscriptions_upsert` | is a purchase an upsert by user, as the comment at `subscription.go:174-175` says? | violation |
| `Referral_safe` | is every reward given once at most, is all money accounted for, what strands a reward? | pass (1.4 M states) |
| `Accounts_safe` | is every newcomer served, is the first attribution kept, do administrators stay so, does a promo code follow its payment? | pass (0.7 M states) |
| `Broadcast_safe` | who gets which message, how often, with which text, what does a failure lose, and do racing administrators and senders implement `DraftLifecycle`? | pass (2.2 M states) |
| `VpnRegistry_safe` | when can a server have an account without a row? | pass (0.9 M states) |
| `VpnRegistry_live` | does every row reach every server that is reachable and switched on? | pass |
| `VpnUsage_safe` | who is served, how do devices get in over the limit, which bytes are lost, and are the configurations complete and consistent? | pass (1.2 M states) |

Bounds.  Two payments of one user and three handlers (two webhooks and the
sentinel) are the smallest instance with two stale copies of a row, a row that
two kinds of handler resume, and a batch that is too small for the stuck
payments; two faults allow a failure during the recovery from a failure; three
deliveries allow a repetition after a race.  In `VpnRegistry_safe` one user with
two subscriptions (two rows, one email), two handlers and the cron over two
servers let one server be lost, or switched off, while the other is written, and let a removal
overlap with an addition and a resync; users meet only in the snapshot of a
resync, which pushes them one by one.  The live run of `VpnRegistry` has the
start-up resync as well.  `Subscriptions_safe` has one user, since
transactions of different users share no row (the expire UPDATE takes several,
but waits for each by itself), three transactions at once and four calls: every
pair of kinds overlaps, with a third to wait in between.  Two days pass, so that
a trial runs out and a plan is live or over.  In `Referral_safe` two users may
invite the third, who pays twice and whose campaign pays one of the two, so that
inviters compete and both channels credit one balance; four calls, role changes
among them, allow an invitation, a payment applied twice and a withdrawal.  The
shares are powers of two: a sum tells which rows were paid.

`Invoice_safe`: two orders of one user through any of the three providers, one
CreateInvoice and two webhooks at a time, two events (a declined attempt or an authorisation
and a charge of one link, two charges of one, or one each of two), two keys and one fault.  Two webhooks at
a time are what overwrites a newer key with an older one.  Customers differ in
nothing but the row, so one is enough; an offer without a price is there to be
refused.  `Accounts_safe`: a newcomer and an administrator, two requests at a
time and three in all, so that the bot, the Mini App and a `/promo` lookup meet at
the same person and one of them comes later; two campaigns (one is a later touch
or archived), two promo codes and payments, one fault.  `Broadcast_safe`: two
users, who begin with a trial or a plan and may come by one subscription more, and
a cap of one, a clock of four units with `Day` 2, `ThreeDays` 3, `Week` 4,
so that two runs of the cron take place within a week, trials and plans of five
units, so that trials enter and plans leave a segment while the clock runs, two
drafts, two requests, and one change of a user, edit, failure or crash.  The one
change is enough for a second subscription, by which a user stands twice in one
draft or in two of one run.  Once there are as many drafts as the bound allows,
nothing reads subscriptions and traffic any more, and users change in nothing but
the ban.  `VpnUsage_safe`: two users, who meet in the cron's list and in a batch of
samples, one with two subscriptions, of which one may be renewed while the other
runs out, and one with a single one; two servers that start alike, each of which
may become a German default, a Russian priority server or a demoted one that is
inactive; two devices over a limit of one; a clock of two units, in which the
subscriptions there are at the start expire and a renewed one does not; three
calls and one fault; the traffic cron past its first tick on one server and before
it on the other.  A change of plan (another limit) is in the module, but `Plans` has
one member here; of `PaymentFlow_safe` the same holds for the hooks (`Hooks` is
empty).  The proofs cover both.

Every bound is a constant, and the proofs assume nothing about its value but
that there is something to bound (a first key, a clock that reaches the first
day).
Symmetry is used where no liveness is checked: servers, UUIDs, handlers, users,
devices, requests and campaigns, as each MC module says.

Fairness.  `PaymentFlow!FairSpec` assumes that a running handler takes its next
step, that the sentinel ticks (`time.Ticker`, `sentinel.go:71`) with an ever
later cutoff, and that it works through its list.  It does not assume that a
provider repeats a webhook, and faults are finite.  `VpnRegistry!FairSpec`
assumes that calls in progress go on and that `periodicResync` comes round to
every server; strong fairness there because the one cron goroutine may be busy
with another server whenever we look, yet its loop visits all of them.  Nobody
promises that a server comes back or that a client calls again.

Deadlock is not checked: all these systems may rest (no request in progress).

What the properties of the newer runs say about the code:

* `PaidWasCharged`: whose order is completed is decided by the link alone, and no
  interleaving completes one order with another's money; but with WATA an
  authorisation is enough (`wata.go:312`), which is no charge yet.
* `HeldLinksAreKnown`, `AckedChargeIsHonoured`: there are three ways to pay and get
  nothing.  A link goes out although its UPDATE of `external_id` failed, and no
  webhook about it finds a row (the provider repeats it in vain; nothing is
  acknowledged); a WATA link that may be used again is charged after a declined
  attempt had cancelled the payment, or a second time after it had been paid,
  and either charge is acknowledged.  The property names the last two and excludes
  any other, for Platega without exception.
* `CurrentKeyIsAccepted`: the second chance in `ValidateWebhook` makes up for
  every interleaving of the cache; without it (the mutant) a rotation loses
  webhooks for as long as the cached key lives.
* `NewcomersAreServed`: the UNIQUE index on `telegram_id` picks one of two
  racing registrations, and the loser does not go on as if it were new; only
  failures leave a newcomer without trial or account.  Excepted are those whose row
  an administrator's lookup made: they can never log in (section 5).
* `FirstTouch`, `AdminsKeepTheirRole`, `PromoFollowsItsPayment`: the first
  campaign stays; one window in `SelfUpdateRole` demotes an administrator; a
  promo code is used up by the payment that is in it and no other.
* `SentOnceAndApproved` (with `TextIsTheApproved`), `RefinesDraftLifecycle`: the conditional
  UPDATEs of a draft serialise administrators and senders, so that a draft lives as
  if one person handled it, whatever fails; the log may lack an entry, but has
  no false one.  Nobody gets a draft more often than its list names him; but the list
  may name him twice, and then he has two subscriptions.  `CrowdingIsOldDrafts`: what the limit
  of one message a day rests on, and how it is broken.  `SegmentsAreDisjoint`:
  the four queries exclude each other for one subscription, but for what moves
  between them; of two subscriptions of a user each may be in a segment of its own.
  `LossesAreFaults`: only a failure or a crash leaves a draft half-sent.
* `OverLimitIsExplained`: the doors by which more devices than the plan allows get
  in.  `LossHasACause`: how bytes are lost.  `AccessFollowsSubscription`: how, in
  what `Access` models, a subscription that is over keeps its row (the cron is
  still to come, a failure, served after the end, cancelled) or one that runs is
  without it (paid for while the cron was at its user, or taken along by the expiry
  of another subscription of the user).
* `ConfigIsComplete`: the two formats, which are written out separately, list the
  same servers after any edit of them.
* `RoutesAgree`: the routes of the three builders of rules lead to outbounds that
  are in the configuration; the balanced entry tunnels what bypass does, full
  whatever another mode does.  It does not say that `full` tunnels only what the
  comments let it: they promise (`subscription_config.go:678-684`, "always";
  `subscription_routing.go:17-28`, "even in full") that local and Apple
  addresses stay direct, which the rules achieve for bare addresses only.  The
  property holds the code to that much, and section 5 has the disagreement.

## 4. Proofs

Every component has a module of proofs, `X_proofs` for module `X`.  What they
prove holds for any users, payments, servers, handlers, calls in progress and
values of the bounds, where the runs of section 3 try a few.  `theorems` in
`PROJECT.json` lists the results.  All have one shape: the property is not
inductive, so it is strengthened by what a handler may rely on between two of
its statements; each step of each handler then keeps the strengthening, its own
part because of its guard, the others' because the step cannot touch what they
rely on.

The assumptions are the ones the modules declare.  Those that go beyond naming
types: payments, handlers, users and servers are finite where something is counted
(`WorkersAssumption`, `AccessAssumption`, `ServersAssumption`); `None` is none of the values it stands
in for (`NoneAssumption` of `Invoice`, `Accounts` and `Broadcast`); ids of servers are
positive, amounts and shares too (`MoneyAssumption`); there is a first WATA key,
and the clock of `Broadcast` can come to the first run of its cron.

**PaymentFlow** — `TypeCorrect`, `Recoverable`, `AckedFinal`, `CalledProvisioned`,
`Granted`, and `Refinement`: the handlers implement `PaymentLifecycle`.  The
strengthening says what each handler may rely on while it holds its stale copy: a
handler past `mark_paid` has a payment that is no longer pending; past
`create_sub` its payment has been granted; past `mark_sub` the row, unless
abandoned, has reached `paid_subscription_done` and kept the subscription id;
past `create_vpn` the user is served; past `mark_complete` the status is final;
and a started hook or notification was started by a handler that had come that
far.  No handler's UPDATE can invalidate what another relies on, because every
UPDATE names the status it expects and those are ordered.  That is where the
mutant `BrokenMoveStatus` (the UPDATE without its condition) breaks.  `Granted` is an
accounting: the grants made of a payment, with the handlers that may still call
CreateSubscription for it, are never more than the handlers times the failures
plus one.  Before the checkpoint all handlers may but those that have just
called, after it only those already on their way; a failure lets all in again,
and nothing else does.

Four more theorems are the steps from which `StuckEventuallyPaid` follows under
fairness.  `SeesStuck`: the query of the sentinel leaves out a stuck payment only when
`BatchLimit` others stand before it, and returns nothing only when nothing is stuck.
It rests on `Stamps`, that a payment gets its `paid_at` once and no two the same, and
on a smallest element of a finite set.  `NoOvertaking`: who stands before a stuck payment
stood there already, so the queue in front of it only shrinks, and payments that
keep failing hold up others for as long as they fail but let nobody past.
`StuckIsResumed`: a payment whose turn comes is taken up at its checkpoint or is
complete; the branch for a checkpoint that cannot be resumed is never reached.
`HandlersEnd`: each step of a handler brings it nearer its end (`StepsLeft`), no other
handler takes it back, and without a failure its end is a final status.

**Referral** — `TypeCorrect`, in which `balance \in [Users -> Nat]` is the claim that no
balance is overdrawn, `OneInviter`, `Stranding` and `Money`.  `AtWork`: a call that
gives or marks a reward has recorded it.  `Solvent`: a withdrawal that holds the
lock of a row of `users` holds it alone and its amount is on the balance; others can
only add to it meanwhile.  `InviteInv`: a registration past its INSERT owns its
invited user (the UNIQUE index), and what it has still to give has not been
given.  `StrandedInv`: the stranded rewards are finitely many, and only a
failing step adds to them, the one reward its call was at work on.  `Owned` and
`Backed` are for the money: a reward being given is one call's own and not marked
yet; and for each partner there is a set of recorded rewards, none of them about
to be given and all the marked or just given ones among them, whose sum is what
he has and has drawn.  AddBalance puts its reward into that set, CommitWithdrawal
moves money between the two sides, every other step leaves both.

**Subscriptions** — `TypeCorrect`; `Refinement`: the transactions implement
`SubscriptionLedger`; `Waiting`, the action property `PendingWithoutLive`; `DaysAreKept`;
`OnlyPurchases` and `OnlyLocks`.  What a
transaction has read stays true while it holds the lock of the row it read:
`UserLocks`, `SubLocks` and `TxRow` say who holds which lock and which rows exist, and each
kind of transaction has a clause on the values it carries from SELECT to
COMMIT.  ClaimChannelBonus extends a subscription it has not locked, so its clause
is weaker, that the date can only have moved on.  A transaction is a stutter of
the ledger until it commits and one request of the ledger when it does; a
rollback is a stutter.  `Waiting` follows at the commits that change a
subscription: a new one takes the waiting days along, and only the revival of one
that had run out leaves some beside it.  `DaysAreKept` is what the customer is owed:
no interleaving takes a day from a subscription that counts, until it is
cancelled or the day comes, with the one exception of a channel bonus that
writes its date over an extension it had not read.  `OnlyPurchases` is the part of
`OnlyPurchasesDeadlock` that needs no `ENABLED`, `OthersGoOn`: of the
transactions of a user for whom no purchase is in progress, one waits for no lock
(`Waits`).  Whoever holds a lock that a user's transaction wants is at work for the
same user (`Holders`, from `TxRow`); what is past its first lock waits at most for the
row of a subscription, which then a bonus at its COMMIT holds, and that waits for
nobody.  `OnlyLocks` is the other part, `OnlyLocksStop`, up to the definition of
`ENABLED`: a transaction that waits does not move, and for one that does not wait a
state is written out without primes (`After`) to which its statement leads, so that
there is one.  It needs of a transaction only where it is (`PcInv`) and that the rows it
read are still there: whatever the others have done to the tables since,
no statement finds itself without a branch.

**Invoice** — `TypeCorrect`, `PaidIsCharged`, `LinksAreKnown`, `AckedIsHonoured`, and the
action property in `CurrentKey`.  The link is the thread: it is made for one row,
is known to one request until the row names it, and no second row names it.
`RowInv`: the event that made a row paid is one of the link the row names.  `TxInv`: an
event is of a link that exists, in a state its provider knows, and all those of a
link of Platega's are of one transaction.  `HookInv`: the key a webhook was signed with is no younger than the one fetched to
check it, which is no younger than the present.  `Lost`, the links that a failed
UPDATE left without a row, are no more than the failures.  `Honoured`: a charge
that was acknowledged stays with the row that it made paid, or that it found
paid or cancelled on a link of WATA's.

**Accounts** — `TypeCorrect`, `PromoFollows`, `Served`, and the action properties in
`FirstCampaign` and `AdminsStay`.  `OneNew`: of all requests for one person only the one
whose INSERT made the row goes on as that of a newcomer, so a person without his
trial has a request that will serve him or a failure that stopped it; the unserved are
counted against the failures.  `PromoInv`: a promo code has one payment, a payment one
code, and it was attached before it was paid.  `FirstCampaign` and `AdminsStay` go
through all steps and name the only ones that write a campaign or a role.

**Broadcast** — `TypeCorrect`, `SentOnce` with `ApprovedText`, `Crowding`, `Disjoint`, `Losses`,
and `Refinement`: cron, administrators and goroutines implement `DraftLifecycle`.
`OneSender`: the conditional UPDATEs let one goroutine send a draft; before it
nothing of the draft is sent or logged (`Untouched`), and whom it has still to
write to has had nothing (`SenderInv`, `MsgsOK`).  `SilentNow`, the recipients
passed over without an entry, are no more than the failures; `Tended`: without
failures a draft approved or half sent has its goroutine, and (`LogInv`) a message
has its entry or is about to get it.  `TickInv`: the places in the segments
already drafted in a run of the cron still meet their condition unless their user has
moved, which with `RowsAreDisjoint` (one subscription meets one condition at most)
gives `Disjoint`.  `Listed`: every place of a list or of a message is a row its user
has, and rows are never deleted, so whoever is listed twice has two
(`TwoPlaces`).  `SpacedInv`: whoever is selected has had no message that the log knows of in
the day before; the message that crowds him is one the log did not have yet, or
one whose entry is that of his other place (`Elsewhere`).
For `Refinement` the same knowledge is used: a goroutine that
is about to write to somebody has a draft whose row says sending, and has neither
written to him nor logged him.  One part is added, `TruthInv`: the entry a
goroutine holds in its hands until the INSERT tells what became of the message.
A reading of a draft, a lost INSERT, a crash and everything that happens to users are
stutters.

**VpnRegistry** — `TypeCorrect`, `AccountsHaveRows`, `RowsAreServed`, and as action properties
`CallsEnd`, `AccountsStay`, `ResyncRepairs`.  `Drawn`: a UUID is given out once.
`PushesRows`: a row that a call is still to push to a server is in the table, or its
user was missed.  `RemovalsHold`: the servers a DisableVPNUser is done with, or has
passed over, do not hold its user, or he was missed.  A resync copies the table and then pushes it user by user; the
invariant shows that this copy, and nothing else, is how an account outlives its row.

The other four are about the opposite, a row without its account, and are what
`RowsReachServers` is made of.  `RowsAreServed`: without failures, and as long as no server is switched off, everyone with a row is
known to every server, but for those a CreateVPNUser is still bringing there
(`Comes`) or a DisableVPNUser is removing; so where several calls race for one
user, a removal takes away no account of a row that outlives it.  After
a failure the resync has to help.  `ResyncRepairs`: it begins with everyone who has a row
and passes over nobody (`Covered`), until it returns with his account on its server,
unless the server is down, the call is cut off or the account is taken away.
`AccountsStay`: nothing takes it away but a DisableVPNUser of that user and a restart
of the server, and no call replaces its UUID.  `CallsEnd`: every call has finitely many
servers or rows before it and each step leaves it one less, whatever
the others do to the tables meanwhile; its loop ends with nothing left over.

**VpnUsage** — `TypeCorrect`, `AccessFollows`, `OverLimit`, `Loss`, `Configs`, `Routing`, over the composition of
`Devices` and `Traffic`, for any number of subscriptions of each user.  `Followed`: a
subscription that runs although its user is on ExpireCron's list, or although it has
lost its row, was paid for while the cron was at the user or stands beside another
that has lapsed (`Excused`).
`Counted` and `Limited`: a call that may still add a device counted fewer than its
limit, and those that undisturbed counts let in at one limit are never more than
it.  `ListFacts`: the order of ListServers is total, so a tick visits a server
once, and each sample has its server to itself (`ListedOnce`).  `LossInv`: until a
row comes or goes a tick works with the rows there are, and who is without a row
has lost it; so the bytes of a user in the counters and in the batch, with those
a step has dropped for a cause, are all the bytes he has used.

`Configs` and `Routing` are about the functions of `ClientConfig`, for any list of servers
in which no server is twice, and `GivenDistinct` is the invariant that clients are given
such lists.  A stable sort ranks its members by a total order, and by the pigeonhole
principle every rank is taken once (`Ranks`, `OrderFacts`); so the two blocks of
splitByPriority have every server once between them (`SplitFacts`).  Both formats are the same layout
of entries around the two blocks (`Layout`, `LinksAt`, `ConfigsAt`), from which it can be
read off where a server's own entry is and which server a mode uses (`PlaceFacts`,
`DefaultFacts`).  For the routes, the rules of each mode are written out in order
(`RulesFacts`) and the first that matches is found by cases (`FirstRule`, `RouteFacts`);
the tags of the routes and the outbounds of the entries then meet (`Tags`, `Somewhere`).

Sums, smallest elements and induction.  The prover cannot use the induction theorems of its library,
whose parameter is an operator, and `MapThenSumSet` is recursive.  `Money` and `Loss` need
its sums over sets of any size.  Both modules get induction from the pigeonhole
principle, which the library has as a theorem on injections of finite sets: a set of
numbers up to `N` that has 0 and every successor has all of them, or the successor
would map those below a gap one to one into themselves without hitting 0
(`Climb`).  From it follow that the recursive function exists (`SumsExist`), so that
the `CHOOSE` in `MapThenSumSet` is that function; that any member may be taken off first
(`SumsTake`); and that sums agree where their values do (`SumsAgree`).  That a finite
set has a smallest element (`Smallest` in `PaymentFlow_proofs` and `Subscriptions_proofs`) follows from the
library's theorem that the strict subsets of finite sets are well-founded.

Only model-checked: the liveness properties `StuckEventuallyPaid` and `RowsReachServers`, since the
prover has no fairness; of them the facts about single steps are proved, as said
above, and that fair behaviours take these steps is left to TLC.  `StuckEventuallyPaid` gives
every call a chance to succeed; a whole batch of payments that fail for ever (a deleted
plan) would keep the sentinel from any younger one, and no property says otherwise.  And in
`OnlyPurchasesDeadlock` the word `ENABLED`, which the prover cannot expand: both parts of
that invariant are proved without it, in `OnlyPurchases` and `OnlyLocks`.


## 5. What the checks found

Two places where the code does not do what a comment or document says have a
run that shows it and an entry in `findings`:

* the days of a payment are granted again when a retry follows a committed
  `CreateSubscription` (called idempotent in the comment);
* a purchase inserts a second subscription next to a trial or a purchase that
  was committed meanwhile (called an upsert in the comment).

The modules show more, which the properties state as exceptions or which a
reader of the code should know of.

Payments and rewards.  A user is notified of a payment whose row has been
cancelled meanwhile.  Refunds and charge-backs are acknowledged and dropped.  A
charge that follows a declined attempt on the same WATA link is refused and
acknowledged (`docs/services/wata-integration.md:158` expects it to be
processed), and so is a second charge on a link that has been paid, which the
comment at `wata.go:91-96` expects to be possible for as long as links are
ManyTime.  Money that WATA has only authorised completes a payment
(`wata.go:312`), which stays paid should WATA let it go.  A charge in Telegram Stars never finds its row.  The yoomoney
provider is never constructed.  A referral reward whose row is recorded and
whose money was not credited is reported as already applied for ever after.

Accounts.  The comment in `telegram_bot.go` that ValidateTelegramUser finishes an
interrupted /start does not hold: for a user whose row exists `IsNewUser` is false
and nobody gives him a trial.  A user made by an administrator's lookup of someone who
only sent /start can never log in: his `last_name` and `photo_url` are NULL, which
`GetUserByTelegramID` (`user.go:59-76`) cannot scan, so that every /start and every
login takes him for unknown and fails on the unique `telegram_id` (`promo.go:289-292`
expects him to be found as an existing user later).  He can redeem his promo link
and pay, and gets neither trial nor configuration in the Mini App.  `SelfUpdateRole` can downgrade an administrator appointed between its
read and its write (`auth.go:401-402` says never).  A second click on a promo
link makes a second payable invoice (migration 1777800000 calls the click
idempotent); an expired promo code that was not used blocks a new one for ever.
The campaign in `bot_starts` and the one in `user_attribution` may differ.  The
`pending_*` tables are read and filled by nobody.

Broadcasts.  A user with two subscriptions is listed, and written to, twice in one
draft: the selectors have no DISTINCT (`broadcast.go:100-102`), the sender goes
through the list, and the UNIQUE that `broadcast.go:407-409` relies on refuses the
second entry of the log, after the message went out.  With a trial and a plan he
is in two segments of one run (`broadcast.go:84-85` says that does not happen).
Drafts of different days that name one user, approved together,
send him two messages within a day (`broadcast.go:86-87` says he gets one).  A
crash leaves a draft approved or sending for good.  `opened_at` and `clicked_at`
are written by nobody.

VPN.  A resync brings back an account that `DisableVPNUser` removed, and a server
that is switched off keeps it (`service/vpn.go:342` lists the active ones; the
comment at 326 says all).  When one of a
user's two subscriptions expires, `DELETE ... WHERE user_id`
(`repository/vpn.go:482-485`) takes the rows of both, and nothing makes that of the
one that runs again before its next payment.  A cancelled subscription keeps its
row and account.  The device
limit does not hold for a device known from before, for clients of the
subscription link, or for two links at once (`service/vpn.go:318-321` speaks of an
atomic counter).  A user who pays between the expire cron's UPDATE and its
`DisableVPNUser` loses the row he paid for.  A failed
`DisableVPNUser`, or a `CreateVPNUser` that comes after the expiry, leaves a row
that nobody removes.  The subscription link dies with the row: a renewal after
the expiry makes another token (`docs/tasks/03-client-config-smart-routing.md:185`
asks for the same).  One row of `vpn_users` deleted during a tick makes the
batch of everybody fail after the counters were reset.  The first tick after a
restart drops what was counted when no sample was kept (`traffic_cron.go:61` says
a restart does not lead there).  The 90-day clean-up of samples that
`traffic.go:114` promises has no caller.

Configurations.  A Russian server is asked for names in the clear only as a
priority entry.  With `IPIfNonMatch` and a rule that takes everything last, the
rules on networks never apply to a connection under a domain: `full` tunnels a
connection to a local or Apple network that comes with a name no list of domains
has, where `subscription_config.go:678-684` says that they are always direct, Apple
in all profiles, and `subscription_routing.go:17-28` that they never go through the VPN.

## 6. Not modelled

* The rate limiter, JWT and initData validation: they let a request in or not,
  and the modules start behind them.
* The pool of Xray connections (`platform/pkg/xray/pool.go`): reuse of clients
  behind a lock; `VpnRegistry` and `Traffic` have the calls themselves fail or not.
* The text of VLESS links and remarks, the bot's menus and buttons, lists,
  statistics and health pages: formatting and reads.
* Referral links and clicks: one UPSERT each, no property depends on them.
* `yoomoney.go`, the `pending_*` tables, `SumTrafficSince` and
  `DeleteTrafficSamplesOlderThan`: nothing reaches them.
* Generated protocol buffers, the front end, scripts and deployment; the keys
  and defaults of the migrations are in the modules of their tables.

Left out inside the modules: two users of whom one's Telegram id is the other's
internal id; several subscriptions of one customer in `PaymentFlow`, `Invoice`,
`Referral` and `Accounts`, where none is told from another; an administrator's
dismissal; the wall clock differing between services; in `Traffic`, an Xray process
that restarts between two ticks and loses its counters, which would be one failure
more.

## 7. Open ends

Worth proving next: the two liveness properties, which need a prover that has
`ENABLED` and fairness; the invariants and the steps they rest on are proved.  Worth modelling next: the pool of Xray connections, a COMMIT whose
reply is lost, two processes of one service (every module has one, as the deployment
does), and an administrator's dismissal.
