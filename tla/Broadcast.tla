------------------------------- MODULE Broadcast -------------------------------
(***************************************************************************)
(* auth-service's retention broadcasts.                                    *)
(*                                                                         *)
(* Once a day RetentionCron selects the users of four segments, one after  *)
(* the other, and stores each selection as a draft with its recipients.    *)
(* An administrator edits, approves or cancels a draft, from a button in   *)
(* the bot, an /admin command or the web; approving starts a goroutine     *)
(* that sends the draft to its recipients one by one and logs each         *)
(* message.  Meanwhile the users' subscriptions, traffic and bans change,  *)
(* other requests run, and the service may crash.                          *)
(*                                                                         *)
(* A selection lists the rows of subscriptions that meet a condition, each *)
(* by its user: whoever has two such rows is listed twice.                 *)
(*                                                                         *)
(* Time runs in units in which Day, ThreeDays and Week stand for the       *)
(* intervals of the SQL; what matters of them is their order.              *)
(***************************************************************************)
EXTENDS Naturals, Sequences, FiniteSets

CONSTANTS
    Users,
    Requests,   \* calls and goroutines of auth-service that may run at a time
    None,       \* NULL, nothing in progress
    Day,        \* 24 hours
    ThreeDays,
    Week,       \* 7 days
    TrialTime,  \* the length of a trial
    PlanTime,   \* the length of a plan
    DailyCap,   \* recipients of a trial_never_connected draft
    MaxRows,    \* bound: subscriptions of a user
    MaxNow,     \* bound: time
    MaxDrafts,  \* bound: drafts
    MaxTrouble  \* bound: changes of users, edits, failures and crashes

ASSUME BroadcastAssumption ==
    /\ {Day, ThreeDays, Week, TrialTime, PlanTime, DailyCap} \subseteq Nat \ {0}
    /\ Day < ThreeDays /\ ThreeDays < Week
ASSUME BroadcastBounds == /\ {MaxNow, MaxDrafts, MaxTrouble} \subseteq Nat /\ Day <= MaxNow + 1
                          /\ MaxRows \in Nat \ {0}

VARIABLES
    now,
    users,    \* users with their subscriptions and their last traffic
    cron,     \* RetentionCron: which segment, what it selected, when it runs next
    drafts,   \* broadcast_drafts, by id
    sends,    \* broadcast_sends
    req,      \* requests and sender goroutines in progress
    inFlight, \* BroadcastSender.inFlight
    msgs,     \* messages that reached a user
    moves,    \* changes of users and edits so far
    faults    \* failures and crashes so far

vars == <<now, users, cron, drafts, sends, req, inFlight, msgs, moves, faults>>

Segments == <<"trial_never_connected", "trial_ending_idle",
              "trial_ending_active", "paid_churn_risk">>

Statuses == {"draft", "approved", "sending", "sent", "cancelled"}

\* A subscription that has expired or was cancelled is "over"; tried says that
\* trial_used_at is set.
Sub == [status : {"trial", "active", "over"}, since : Nat, until : Nat]
User == [subs : Seq(Sub), tried : BOOLEAN, traffic : Nat \cup {None}, banned : BOOLEAN]

\* A place in a list of recipients: a user and the row he is there for, of
\* which recipient_ids keeps the user alone.
Places == Users \X (1 .. MaxRows)
Recipients == (SUBSET Places) \ {{}}
Cron == [seg : 0 .. Len(Segments), picked : Recipients \cup {None}, at : Nat, due : Nat,
         moved : SUBSET Users]
Draft == [seg : 1 .. Len(Segments), to : Recipients, status : Statuses, text : Nat,
          at : Nat, tick : Nat, moved : SUBSET Users]
Result == [to : Places, status : {"sent", "blocked", "failed"}]
Request == [pc : {"approve", "send", "loop"}, draft : Nat, text : Nat,
            todo : SUBSET Places, row : Result \cup {None}]

ASSUME NoneAssumption == /\ None \notin Nat /\ None \notin Result /\ None \notin Request
                         /\ \A to \in SUBSET Places : to # None

\* The first run is the next time of day that matches, also after a restart.
NextRun(t) == t - (t % Day) + Day
Sleeping == [seg |-> 0, picked |-> None, at |-> 0, due |-> NextRun(now), moved |-> {}]

Trial == [status |-> "trial", since |-> now, until |-> now + TrialTime]
Paid == [status |-> "active", since |-> now, until |-> now + PlanTime]
Newcomer(s) == [subs |-> <<s>>, tried |-> s.status = "trial", traffic |-> None, banned |-> FALSE]

\* The service has started after one run and before the next; everybody has
\* begun a trial or, if StartTrial failed him, bought a plan.
Init == /\ now = Day - 1
        /\ users \in [Users -> {Newcomer(Trial), Newcomer(Paid)}]
        /\ cron = Sleeping
        /\ drafts = <<>>
        /\ sends = {} /\ msgs = {}
        /\ req = [h \in Requests |-> None]
        /\ inFlight = {}
        /\ moves = 0 /\ faults = 0

Fault == moves + faults < MaxTrouble /\ faults' = faults + 1
At(h, step) == req[h] # None /\ req[h].pc = step
Goto(h, step) == req' = [req EXCEPT ![h].pc = step]
Done(h) == req' = [req EXCEPT ![h] = None]

\* Operators named Broken... are the bugs the properties are tried against;
\* no action uses them.

-----------------------------------------------------------------------------
(* Time and users                                                          *)

\* History: the users that have changed since the cron began its tick.
Moved(us) == cron' = IF cron.seg = 0 THEN cron ELSE [cron EXCEPT !.moved = @ \cup us]

\* The timer of the cron fires on time; its queries take what they take.
Clock == /\ now < MaxNow
         /\ cron.seg = 0 => now < cron.due
         /\ now' = now + 1
         /\ Moved(Users)
         /\ UNCHANGED <<users, drafts, sends, req, inFlight, msgs, moves, faults>>

\* CreateSubscription renews the subscription that ends last; or it inserts
\* another, if it looked before the first of them was there, which takes it
\* less than a unit of time (module Subscriptions).
Buys(u) ==
    LET subs == users[u].subs
        Renewed(s) == [s EXCEPT !.status = "active",
                                !.until = PlanTime + IF s.status # "over" /\ s.until > now
                                                     THEN s.until ELSE now]
    IN  \/ \E i \in DOMAIN subs :
              /\ \A j \in DOMAIN subs : subs[j].until <= subs[i].until
              /\ users' = [users EXCEPT ![u].subs = [subs EXCEPT ![i] = Renewed(subs[i])]]
        \/ /\ \A i \in DOMAIN subs : subs[i].since = now
           /\ Len(subs) < MaxRows
           /\ users' = [users EXCEPT ![u].subs = Append(subs, Paid)]

\* StartTrialTx asks whether a trial was used, not whether there is a
\* subscription.
StartsTrial(u) ==
    /\ ~users[u].tried /\ Len(users[u].subs) < MaxRows
    /\ users' = [users EXCEPT ![u].subs = Append(users[u].subs, Trial), ![u].tried = TRUE]

\* ExpireOverdueSubscriptions, or CancelSubscription, at any time.
SubscriptionEnds(u) ==
    \E i \in DOMAIN users[u].subs :
       /\ users[u].subs[i].status # "over"
       /\ users' = [users EXCEPT ![u].subs = [users[u].subs EXCEPT ![i].status = "over"]]

\* What other services write about a user.  Only selections read it: it is of
\* no more interest, and a bound, once there are MaxDrafts drafts.
UserMoves(u) ==
    /\ moves + faults < MaxTrouble /\ moves' = moves + 1
    /\ Len(drafts) < MaxDrafts
    /\ \/ Buys(u) \/ StartsTrial(u) \/ SubscriptionEnds(u)
       \/ users' = [users EXCEPT ![u].traffic = now]
    /\ Moved({u})
    /\ UNCHANGED <<now, drafts, sends, req, inFlight, msgs, faults>>

BanUser(u) ==
    /\ ~users[u].banned
    /\ moves + faults < MaxTrouble /\ moves' = moves + 1
    /\ users' = [users EXCEPT ![u].banned = TRUE]
    /\ Moved({u})
    /\ UNCHANGED <<now, drafts, sends, req, inFlight, msgs, faults>>

-----------------------------------------------------------------------------
(* RetentionCron                                                           *)

\* The selectors, for user u and a subscription s of his.
BrokenSelectTrialNeverConnected(u, s) ==
    /\ s.status = "trial" /\ s.since < now /\ s.until >= now + Day
    /\ u.traffic = None

\* The trial began an hour ago or more: in the model, in an earlier unit.
SelectTrialNeverConnected(u, s) ==
    /\ s.status = "trial" /\ s.since < now /\ s.until > now + Day
    /\ u.traffic = None

TrialEnding(s) == s.status = "trial" /\ now <= s.until /\ s.until <= now + Day

SelectTrialEndingIdle(u, s) ==
    TrialEnding(s) /\ (u.traffic = None \/ u.traffic + Day < now)

SelectTrialEndingActive(u, s) ==
    TrialEnding(s) /\ u.traffic # None /\ u.traffic + Day >= now

SelectPaidChurnRisk(u, s) ==
    /\ s.status = "active" /\ s.until > now + ThreeDays
    /\ u.traffic = None \/ u.traffic + ThreeDays < now

InSegment(seg, u, s) == CASE seg = 1 -> SelectTrialNeverConnected(u, s)
                          [] seg = 2 -> SelectTrialEndingIdle(u, s)
                          [] seg = 3 -> SelectTrialEndingActive(u, s)
                          [] seg = 4 -> SelectPaidChurnRisk(u, s)

\* The row a place stands for, which is never deleted, meets the condition.
Meets(seg, p) == /\ p[2] \in DOMAIN users[p[1]].subs
                 /\ InSegment(seg, users[p[1]], users[p[1]].subs[p[2]])

BrokenRecentlySent(seg, u) ==
    \E s \in sends : s.to[1] = u /\ drafts[s.draft].seg = seg /\ s.at + Week > now

\* The two NOT EXISTS of every selector: a message of any segment within 24
\* hours, a row of this segment, sent or not, within 7 days.
RecentlySent(seg, u) ==
    \E s \in sends : /\ s.to[1] = u
                     /\ \/ s.status = "sent" /\ s.at + Day > now
                        \/ drafts[s.draft].seg = seg /\ s.at + Week > now

\* What a selector can return: users JOINed with subscriptions, without a
\* DISTINCT, all of it or as much as the cap allows.
Selections(seg) ==
    LET all == {p \in Places : /\ Meets(seg, p)
                               /\ ~users[p[1]].banned
                               /\ ~RecentlySent(seg, p[1])}
    IN  IF seg = 1 /\ Cardinality(all) > DailyCap
        THEN {s \in SUBSET all : Cardinality(s) = DailyCap} ELSE {all}

\* untilNextRun has elapsed.
Tick == /\ cron.seg = 0 /\ now >= cron.due
        /\ cron' = [cron EXCEPT !.seg = 1, !.moved = {}]
        /\ UNCHANGED <<now, users, drafts, sends, req, inFlight, msgs, moves, faults>>

NextSegment == cron' = IF cron.seg < Len(Segments)
                       THEN [cron EXCEPT !.seg = @ + 1, !.picked = None, !.at = 0]
                       ELSE Sleeping

\* processSegment: the query ...
SelectSegment ==
    /\ cron.seg # 0 /\ cron.picked = None
    /\ \E s \in Selections(cron.seg) :
          IF s = {} THEN NextSegment ELSE cron' = [cron EXCEPT !.picked = s, !.at = now]
    /\ UNCHANGED <<now, users, drafts, sends, req, inFlight, msgs, moves, faults>>

\* ... and the draft, which remembers (as history) when its query ran, in which
\* run of the cron, and who had changed by then.
InsertBroadcastDraft ==
    /\ cron.picked # None /\ Len(drafts) < MaxDrafts
    /\ drafts' = Append(drafts, [seg |-> cron.seg, to |-> cron.picked, status |-> "draft",
                                 text |-> 0, at |-> cron.at, tick |-> cron.due,
                                 moved |-> cron.moved])
    /\ NextSegment
    /\ UNCHANGED <<now, users, sends, req, inFlight, msgs, moves, faults>>

\* An error skips the segment for today.
SegmentFails ==
    /\ cron.seg # 0 /\ Fault /\ NextSegment
    /\ UNCHANGED <<now, users, drafts, sends, req, inFlight, msgs, moves>>

-----------------------------------------------------------------------------
(* The administrator                                                       *)

\* UPDATE ... WHERE status = from
UpdateDraftStatus(d, from, to) ==
    IF drafts[d].status = from THEN [drafts EXCEPT ![d].status = to] ELSE drafts

\* ApproveBroadcast reads the draft ...
ApproveBroadcast(h, d) ==
    /\ req[h] = None
    /\ drafts[d].status = "draft"
    /\ req' = [req EXCEPT ![h] = [pc |-> "approve", draft |-> d, text |-> 0,
                                  todo |-> {}, row |-> None]]
    /\ UNCHANGED <<now, users, cron, drafts, sends, inFlight, msgs, moves, faults>>

BrokenApprove(h) ==
    /\ At(h, "approve")
    /\ drafts' = [drafts EXCEPT ![req[h].draft].status = "approved"]
    /\ Goto(h, "send")
    /\ UNCHANGED <<now, users, cron, sends, inFlight, msgs, moves, faults>>

\* ... and, if it is still a draft, approves it and starts the goroutine.
Approve(h) ==
    /\ At(h, "approve")
    /\ drafts' = UpdateDraftStatus(req[h].draft, "draft", "approved")
    /\ IF drafts' # drafts THEN Goto(h, "send") ELSE Done(h)
    /\ UNCHANGED <<now, users, cron, sends, inFlight, msgs, moves, faults>>

CancelBroadcast(d) ==
    /\ drafts[d].status = "draft"
    /\ drafts' = UpdateDraftStatus(d, "draft", "cancelled")
    /\ UNCHANGED <<now, users, cron, sends, req, inFlight, msgs, moves, faults>>

BrokenUpdateDraftFields(d) ==
    /\ moves + faults < MaxTrouble /\ moves' = moves + 1
    /\ drafts' = [drafts EXCEPT ![d].text = @ + 1]
    /\ UNCHANGED <<now, users, cron, sends, req, inFlight, msgs, faults>>

\* UpdateBroadcast: one UPDATE, only of a draft.
UpdateDraftFields(d) ==
    /\ drafts[d].status = "draft"
    /\ moves + faults < MaxTrouble /\ moves' = moves + 1
    /\ drafts' = [drafts EXCEPT ![d].text = @ + 1]
    /\ UNCHANGED <<now, users, cron, sends, req, inFlight, msgs, faults>>

-----------------------------------------------------------------------------
(* BroadcastSender                                                         *)

\* Send: the slot in inFlight, GetDraft, and approved becomes sending; otherwise
\* nothing is sent.
Send(h) ==
    /\ At(h, "send")
    /\ LET d == req[h].draft
       IN  \/ /\ d \in inFlight \/ drafts[d].status # "approved"
              /\ Done(h) /\ UNCHANGED <<drafts, inFlight>>
           \/ /\ d \notin inFlight /\ drafts[d].status = "approved"
              /\ drafts' = UpdateDraftStatus(d, "approved", "sending")
              /\ inFlight' = inFlight \cup {d}
              /\ req' = [req EXCEPT ![h].pc = "loop", ![h].text = drafts[d].text,
                                    ![h].todo = drafts[d].to]
    /\ UNCHANGED <<now, users, cron, sends, msgs, moves, faults>>

\* Telegram takes the message, or says that the user has blocked the bot, or the
\* call fails, though the message may have arrived.
Outcome(status, arrives) == \/ status = "sent" /\ arrives
                            \/ status = "blocked" /\ ~arrives
                            \/ status = "failed"

\* sendOne: a banned user is passed over, a failed lookup or call logged too.
SendOne(h, p) ==
    /\ At(h, "loop") /\ req[h].row = None /\ p \in req[h].todo
    /\ \E r \in [to : {p}, status : {"sent", "blocked", "failed"}], arrives \in BOOLEAN :
          /\ IF users[p[1]].banned THEN r.status = "failed" /\ ~arrives
                                   ELSE Outcome(r.status, arrives)
          /\ IF r.status = "failed" /\ ~users[p[1]].banned THEN Fault ELSE UNCHANGED faults
          /\ msgs' = IF arrives
                     THEN LET n == Cardinality({m \in msgs : m.draft = req[h].draft /\ m.to = p})
                          IN  msgs \cup {[draft |-> req[h].draft, to |-> p, at |-> now,
                                          text |-> req[h].text, nr |-> n + 1]}
                     ELSE msgs
          /\ req' = [req EXCEPT ![h].row = r]
    /\ UNCHANGED <<now, users, cron, drafts, sends, inFlight, moves>>

\* INSERT into broadcast_sends, UNIQUE (broadcast_id, user_id): for a user's
\* second place it fails, and the log stays as it is.  An entry remembers, as
\* history, which place it is about.
Logs(d, r) == IF \E s \in sends : s.draft = d /\ s.to[1] = r.to[1]
              THEN sends
              ELSE sends \cup {[draft |-> d, to |-> r.to, status |-> r.status, at |-> now]}

BrokenInsertSend(h) ==
    /\ At(h, "loop") /\ req[h].row # None
    /\ sends' = IF req[h].row.status # "failed" THEN Logs(req[h].draft, req[h].row) ELSE sends
    /\ req' = [req EXCEPT ![h].todo = @ \ {req[h].row.to}, ![h].row = None]
    /\ UNCHANGED <<now, users, cron, drafts, inFlight, msgs, moves, faults>>

\* The row of the log; an error is passed over.
InsertSend(h) ==
    /\ At(h, "loop") /\ req[h].row # None
    /\ \/ sends' = Logs(req[h].draft, req[h].row) /\ UNCHANGED faults
       \/ Fault /\ UNCHANGED sends
    /\ req' = [req EXCEPT ![h].todo = @ \ {req[h].row.to}, ![h].row = None]
    /\ UNCHANGED <<now, users, cron, drafts, inFlight, msgs, moves>>

BrokenFinishSend(h) ==
    /\ At(h, "loop") /\ req[h].todo = {}
    /\ drafts' = UpdateDraftStatus(req[h].draft, "sending", "sent")
    /\ Done(h)
    /\ UNCHANGED <<now, users, cron, sends, inFlight, msgs, moves, faults>>

\* Everybody has been tried.
FinishSend(h) ==
    /\ At(h, "loop") /\ req[h].todo = {}
    /\ drafts' = UpdateDraftStatus(req[h].draft, "sending", "sent")
    /\ inFlight' = inFlight \ {req[h].draft}
    /\ Done(h)
    /\ UNCHANGED <<now, users, cron, sends, msgs, moves, faults>>

\* A statement outside the loop fails: the request or the goroutine ends, the
\* draft stays as it is.
RequestFails(h) ==
    /\ At(h, "approve") \/ At(h, "send") \/ (At(h, "loop") /\ req[h].todo = {})
    /\ Fault
    /\ inFlight' = IF At(h, "loop") THEN inFlight \ {req[h].draft} ELSE inFlight
    /\ Done(h)
    /\ UNCHANGED <<now, users, cron, drafts, sends, msgs, moves>>

\* auth-service stops and starts again; nothing looks for drafts in progress.
Crash ==
    /\ Fault
    /\ req' = [h \in Requests |-> None]
    /\ inFlight' = {}
    /\ cron' = Sleeping
    /\ UNCHANGED <<now, users, drafts, sends, msgs, moves>>

-----------------------------------------------------------------------------

Next == \/ Clock \/ Tick \/ SelectSegment \/ InsertBroadcastDraft \/ SegmentFails \/ Crash
        \/ \E u \in Users : UserMoves(u) \/ BanUser(u)
        \/ \E d \in DOMAIN drafts : \/ CancelBroadcast(d) \/ UpdateDraftFields(d)
                                    \/ \E h \in Requests : ApproveBroadcast(h, d)
        \/ \E h \in Requests : \/ Approve(h) \/ Send(h) \/ InsertSend(h)
                               \/ FinishSend(h) \/ RequestFails(h)
                               \/ \E p \in Places : SendOne(h, p)

Spec == Init /\ [][Next]_vars

-----------------------------------------------------------------------------
(* Properties                                                              *)

TypeOK ==
    /\ now \in 0 .. MaxNow /\ moves \in Nat /\ faults \in Nat /\ moves + faults <= MaxTrouble
    /\ users \in [Users -> User]
    /\ cron \in Cron
    /\ drafts \in Seq(Draft) /\ Len(drafts) <= MaxDrafts
    /\ sends \subseteq [draft : DOMAIN drafts, to : Places,
                        status : {"sent", "blocked", "failed"}, at : 0 .. now]
    /\ \A s \in sends : s.to \in drafts[s.draft].to
    /\ msgs \subseteq [draft : DOMAIN drafts, to : Places, at : 0 .. now, text : Nat, nr : Nat]
    /\ req \in [Requests -> Request \cup {None}]
    /\ \A h \in Requests : req[h] # None => /\ req[h].draft \in DOMAIN drafts
                                            /\ req[h].todo \subseteq drafts[req[h].draft].to
    /\ inFlight = {req[h].draft : h \in {g \in Requests : At(g, "loop")}}

\* Everybody gets the text that was approved: an edit that overtakes the
\* approval is refused.
TextIsTheApproved == \A m \in msgs : m.text = drafts[m.draft].text

\* Nobody gets a broadcast that is cancelled or not approved, or with another
\* text than the approved one, and nobody gets it more often than he is on its
\* list, however often and from wherever its buttons are pressed: whoever gets
\* it twice has two subscriptions.
SentOnceAndApproved ==
    /\ \A m \in msgs : m.nr = 1 /\ drafts[m.draft].status \in {"sending", "sent"}
    /\ \A m, n \in msgs : /\ m.draft = n.draft /\ m.to = n.to => m = n
                          /\ m.draft = n.draft /\ m.to[1] = n.to[1] /\ m # n
                               => Len(users[m.to[1]].subs) > 1
    /\ TextIsTheApproved

\* Two messages of two drafts reach a user within a day only if both drafts
\* were waiting at the same time: the second was selected no later than the
\* first was logged.  Otherwise the log says nothing of the first message: its
\* entry was lost or wrong, or he had it for a second subscription and the entry
\* is that of the first.  Approving old drafts together is how the limit of one
\* message a day is broken.
CrowdingIsOldDrafts ==
    \A m, n \in msgs :
       /\ m.to[1] = n.to[1] /\ m.draft # n.draft
       /\ m.at <= n.at /\ n.at < m.at + Day
       => \/ \E s \in sends : /\ s.draft = m.draft /\ s.to[1] = m.to[1]
                              /\ \/ s.status = "sent" /\ drafts[n.draft].at <= s.at
                                 \/ s.to # m.to /\ (s.status = "sent" => s.at < m.at)
          \/ \E h \in Requests : At(h, "loop") /\ req[h].draft = m.draft /\ req[h].row # None
          \/ faults > 0

\* The segments of one day exclude each other, although each is a query of its
\* own: a user is in two of them only if he changed, or time passed, between
\* the queries, or by two subscriptions of his.
SegmentsAreDisjoint ==
    \A c, d \in DOMAIN drafts :
       (c < d /\ drafts[c].tick = drafts[d].tick)
          => \A p \in drafts[c].to, q \in drafts[d].to :
                p[1] = q[1] => \/ p[1] \in drafts[d].moved
                               \/ p # q /\ Len(users[p[1]].subs) > 1

\* A broadcast that was approved gets sent, and a broadcast that was sent has a
\* log entry for everyone: every draft left half-way without a goroutine and
\* every place of a finished one whose user has no entry is the work of a
\* failure or a crash, which nothing repairs.
LossesAreFaults ==
    LET stuck == {d \in DOMAIN drafts : /\ drafts[d].status \in {"approved", "sending"}
                                        /\ ~\E h \in Requests : /\ req[h] # None
                                                                /\ req[h].draft = d
                                                                /\ req[h].pc # "approve"}
        silent == {x \in (DOMAIN drafts) \X Places :
                     /\ drafts[x[1]].status = "sent" /\ x[2] \in drafts[x[1]].to
                     /\ ~\E s \in sends : s.draft = x[1] /\ s.to[1] = x[2][1]}
    IN  Cardinality(silent) <= faults /\ (stuck # {} => faults > 0)

-----------------------------------------------------------------------------
(* The promise.                                                            *)

\* Seen from outside a broadcast is its draft, the messages that arrived and
\* the log; requests, goroutines and the time of day are not to be seen.
Lifecycle == INSTANCE DraftLifecycle WITH letters <- drafts, got <- msgs, log <- sends

\* However administrators, goroutines, failures and crashes interleave, each
\* draft goes its way from selection to "sent" or "cancelled" as if one person
\* handled it: nobody is written to before the approval or after the end, nobody
\* more often than he is on the list or again for a place that is logged, and no
\* entry says "sent" of a message that did not arrive.
RefinesDraftLifecycle == Lifecycle!Spec

=============================================================================
