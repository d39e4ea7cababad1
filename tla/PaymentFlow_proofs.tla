------------------------- MODULE PaymentFlow_proofs -------------------------
(***************************************************************************)
(* Theorems about PaymentFlow, for any payments, users, handlers, batch    *)
(* limit, and numbers of failures and webhook deliveries.                  *)
(*                                                                         *)
(* Handlers act on stale copies of the row, so what a handler knows at a   *)
(* step (StepInv) must be stable: nothing another handler can do makes it  *)
(* false.  Progress states that stability once; each action is then        *)
(* checked for the one handler that moved.                                 *)
(*                                                                         *)
(* The last parts are the steps that liveness is made of: the order in     *)
(* which the sentinel takes stuck payments, and the way of a handler to    *)
(* its end.                                                                *)
(***************************************************************************)
EXTENDS PaymentFlow, FiniteSetTheorems, TLAPS

\* A handler that is not idle is at one of its steps.
LEMMA BusyWorker ==
    ASSUME NEW w, worker[w] \in Busy \cup {Idle}
    PROVE  /\ worker[w] = Idle => worker[w].pc = "idle"
           /\ worker[w] # Idle => worker[w] \in Busy
           /\ worker[w].pc \in Steps => worker[w] \in Busy
BY DEF Busy, Idle, Steps

\* Goto moves one handler to another of its steps and keeps its payment.
LEMMA GotoFacts ==
    ASSUME TypeOK, NEW w \in Workers, NEW step \in Steps, worker[w] \in Busy,
           Goto(w, step)
    PROVE  /\ worker' \in [Workers -> Busy \cup {Idle}]
           /\ worker'[w].pc = step /\ worker'[w].pay = worker[w].pay
           /\ \A v \in Workers \ {w} : worker'[v] = worker[v]
BY DEF TypeOK, Goto, Busy

\* So does the reply of CreateSubscription, which also brings the plan name.
LEMMA ReplyFacts ==
    ASSUME TypeOK, NEW w \in Workers, worker[w] \in Busy, CreateSubscription(w)
    PROVE  /\ worker' \in [Workers -> Busy \cup {Idle}]
           /\ worker'[w].pc = "mark_sub" /\ worker'[w].pay = worker[w].pay
           /\ \A v \in Workers \ {w} : worker'[v] = worker[v]
BY DEF TypeOK, CreateSubscription, Busy, Steps

\* A handler that ends becomes idle and disturbs no other.
LEMMA IdleFacts ==
    ASSUME TypeOK, NEW w \in Workers, worker' = [worker EXCEPT ![w] = Idle]
    PROVE  /\ worker' \in [Workers -> Busy \cup {Idle}]
           /\ worker'[w].pc = "idle"
           /\ \A v \in Workers \ {w} : worker'[v] = worker[v]
BY DEF TypeOK, Idle

\* Reading the row for a paid event starts the handler or ends it at once.
LEMMA ReadFacts ==
    ASSUME TypeOK, NEW w \in Workers, NEW p \in Payments, ReadForPaid(w, p)
    PROVE  /\ worker' \in [Workers -> Busy \cup {Idle}]
           /\ acked' \subseteq {"paid", "cancelled", "failed", "refunded"} \X Payments
<1>1. CASE status[p] \in Final /\ Succeed(w, "paid", p)
  BY <1>1, IdleFacts DEF Succeed, TypeOK
<1>2. CASE status[p] \notin Final /\ \E known \in BOOLEAN :
             /\ worker' = [worker EXCEPT ![w] = [pc |-> FirstStep[status[p]],
                                                 pay |-> p, planKnown |-> known]]
             /\ UNCHANGED acked
  <2>1. FirstStep[status[p]] \in Steps
    BY <1>2 DEF TypeOK, FirstStep, Steps, Status, Intermediate, Final
  <2>2. PICK known \in BOOLEAN :
             worker' = [worker EXCEPT ![w] = [pc |-> FirstStep[status[p]],
                                              pay |-> p, planKnown |-> known]]
    BY <1>2
  <2> QED
    BY <1>2, <2>1, <2>2 DEF TypeOK, Busy
<1>3. CASE UNCHANGED <<worker, acked>>
  BY <1>3 DEF TypeOK
<1> QED
  BY <1>1, <1>2, <1>3 DEF ReadForPaid

-----------------------------------------------------------------------------

\* No step takes a variable out of its type.
LEMMA TypeStep == TypeOK /\ [Next]_vars => TypeOK'
<1> SUFFICES ASSUME TypeOK, [Next]_vars PROVE TypeOK'
  OBVIOUS
<1> USE UsersAssumption, HooksAssumption
<1>1. CASE \E w \in Webhooks, e \in Events, p \in Payments : HandleWebhook(w, e, p)
  <2> PICK w \in Webhooks, e \in Events, p \in Payments : HandleWebhook(w, e, p)
    BY <1>1
  <2>1. CASE ReadForPaid(w, p)
    BY <2>1, ReadFacts DEF HandleWebhook, TypeOK, Workers, rows
  <2>2. ASSUME NEW step \in {"mark_cancelled", "mark_failed"}, UNCHANGED acked,
               worker' = [worker EXCEPT ![w] =
                             [pc |-> step, pay |-> p, planKnown |-> FALSE]]
        PROVE  TypeOK'
    <3>1. [pc |-> step, pay |-> p, planKnown |-> FALSE] \in Busy
      BY <2>2 DEF Busy, Steps
    <3> QED
      BY <2>2, <3>1 DEF HandleWebhook, TypeOK, Workers, rows
  <2>3. CASE Succeed(w, e, p)
    BY <2>3, IdleFacts, EventsAssumption
       DEF HandleWebhook, TypeOK, Workers, rows, Succeed
  <2> QED
    BY <2>1, <2>2, <2>3 DEF HandleWebhook
<1>2. CASE \E w \in Sentinels, cutoff \in 1 .. Cardinality(Payments) :
             SentinelTick(w, cutoff)
  BY <1>2 DEF SentinelTick, TypeOK, rows, ghosts, Oldest, Stuck
<1>3. CASE \E w \in Sentinels, p \in Payments : SentinelResume(w, p)
  BY <1>3, ReadFacts DEF SentinelResume, TypeOK, rows, Workers
<1>4. ASSUME NEW w \in Workers, worker[w] # Idle, Fail(w),
             UNCHANGED <<status, subIdKept, paidAt, batch, goroutines, called>>,
             granted' \in [Payments -> Nat], served' \subseteq Users
      PROVE  TypeOK'
  BY <1>4, IdleFacts DEF Fail, Fault, TypeOK
<1>5. ASSUME NEW w \in Workers, Advance(w) PROVE TypeOK'
  <2>0. worker[w] \in Busy
    BY <1>5, BusyWorker DEF Advance, TypeOK, At, Steps, MarkPaidDBOnly,
       CreateSubscription, MarkSubscriptionDone, CreateVPNUser, MarkComplete,
       ResolveUser, MarkCancelled, MarkFailed
  <2>p. Pay(w) \in Payments
    BY <2>0 DEF Busy, Pay
  <2>1. CASE MarkPaidDBOnly(w)
    <3>1. Cardinality({q \in Payments : paidAt[q] > 0}) \in Nat
      BY FS_Subset, FS_CardinalityType, WorkersAssumption
    <3>2. worker' \in [Workers -> Busy \cup {Idle}]
      BY <2>0, <2>1, GotoFacts DEF MarkPaidDBOnly, Steps
    <3>3. status' \in [Payments -> Status]
      BY <2>1, <2>p DEF MarkPaidDBOnly, TypeOK, MoveStatus, Status, Intermediate
    <3>4. subIdKept' \subseteq Payments /\ paidAt' \in [Payments -> Nat]
      BY <2>1, <2>p, <3>1 DEF MarkPaidDBOnly, TypeOK
    <3> QED
      BY <2>1, <3>2, <3>3, <3>4 DEF MarkPaidDBOnly, TypeOK, ghosts
  <2>2. CASE CreateSubscription(w)
    <3>1. granted' \in [Payments -> Nat]
      BY <2>2, <2>p DEF CreateSubscription, TypeOK
    <3> QED
      BY <2>0, <2>2, <3>1, ReplyFacts DEF CreateSubscription, TypeOK, ghosts, rows
  <2>3. CASE MarkSubscriptionDone(w)
    <3>1. worker' \in [Workers -> Busy \cup {Idle}]
      BY <2>0, <2>3, GotoFacts DEF MarkSubscriptionDone, Steps
    <3> QED
      BY <2>3, <2>p, <3>1
         DEF MarkSubscriptionDone, TypeOK, MoveStatus, ghosts, Status, Intermediate
  <2>4. CASE CreateVPNUser(w)
    <3>1. worker' \in [Workers -> Busy \cup {Idle}]
      BY <2>0, <2>4, GotoFacts DEF CreateVPNUser, Steps
    <3> QED
      BY <2>4, <2>p, <3>1 DEF CreateVPNUser, TypeOK, ghosts, rows
  <2>5. CASE MarkComplete(w)
    <3>1. /\ worker' \in [Workers -> Busy \cup {Idle}]
          /\ acked' \subseteq {"paid", "cancelled", "failed", "refunded"} \X Payments
      <4>1. CASE Goto(w, "resolve_user") /\ UNCHANGED acked
        BY <2>0, <4>1, GotoFacts DEF Steps, TypeOK
      <4>2. CASE Succeed(w, "paid", Pay(w))
        BY <2>p, <4>2, IdleFacts DEF Succeed, TypeOK
      <4> QED
        BY <2>5, <4>1, <4>2 DEF MarkComplete
    <3>2. status' \in [Payments -> Status]
      BY <2>5, <2>p DEF MarkComplete, TypeOK, MoveStatus, Status, Final
    <3>3. goroutines' \subseteq Calls \X Payments \X Workers
      BY <2>5, <2>p DEF MarkComplete, TypeOK, Calls
    <3> QED
      BY <2>5, <3>1, <3>2, <3>3 DEF MarkComplete, TypeOK
  <2>6. CASE ResolveUser(w)
    BY <2>0, <2>6, <2>p, IdleFacts DEF ResolveUser, TypeOK, rows, Succeed, Calls
  <2>7. CASE MarkCancelled(w)
    BY <2>0, <2>7, <2>p, IdleFacts
       DEF MarkCancelled, TypeOK, MoveStatus, Status, Final, Succeed
  <2>8. CASE MarkFailed(w)
    BY <2>0, <2>8, <2>p, IdleFacts
       DEF MarkFailed, TypeOK, MoveStatus, Status, Final, Succeed
  <2> QED
    BY <1>5, <2>1, <2>2, <2>3, <2>4, <2>5, <2>6, <2>7, <2>8 DEF Advance
<1>6. CASE \E w \in Workers : StepFails(w)
  BY <1>4, <1>6 DEF StepFails, TypeOK, rows
<1>7. ASSUME NEW w \in Workers,
             CreateSubscriptionReplyLost(w) \/ CreateVPNUserUnregistered(w)
      PROVE  TypeOK'
  <2>0. worker[w] \in Busy /\ worker[w] # Idle
    BY <1>7, BusyWorker DEF CreateSubscriptionReplyLost, CreateVPNUserUnregistered,
       TypeOK, At, Steps, Idle
  <2>1. granted' \in [Payments -> Nat] /\ served' \subseteq Users
    BY <1>7, <2>0 DEF CreateSubscriptionReplyLost, CreateVPNUserUnregistered,
       TypeOK, Busy, Pay
  <2> QED
    BY <1>4, <1>7, <2>0, <2>1
       DEF CreateSubscriptionReplyLost, CreateVPNUserUnregistered, rows
<1>8. CASE \E g \in goroutines : GoroutineCalls(g) \/ GoroutineGivesUp(g)
  BY <1>8 DEF GoroutineCalls, GoroutineGivesUp, TypeOK, rows, ghosts
<1>9. CASE Crash
  BY <1>9 DEF Crash, Fault, TypeOK, rows
<1>10. CASE UNCHANGED vars
  BY <1>10 DEF vars, rows, ghosts, TypeOK
<1> QED
  BY <1>1, <1>2, <1>3, <1>5, <1>6, <1>7, <1>8, <1>9, <1>10 DEF Next

\* Every variable keeps its type.
THEOREM TypeCorrect == Spec => []TypeOK
<1>1. Init => TypeOK
  BY UsersAssumption DEF Init, TypeOK, Status, Calls, Workers
<1> QED
  BY <1>1, TypeStep, PTL DEF Spec

-----------------------------------------------------------------------------
(* The inductive invariant.                                                 *)

\* What a handler knows of its payment at each step, whatever the row says.
StepInv(w) ==
    /\ At(w, "create_sub") => status[Pay(w)] # "pending"
    /\ At(w, "mark_sub") => status[Pay(w)] # "pending" /\ granted[Pay(w)] > 0
    /\ At(w, "create_vpn") => /\ status[Pay(w)] \notin {"pending", "paid_db_only"}
                              /\ granted[Pay(w)] > 0
    /\ At(w, "mark_complete") => /\ status[Pay(w)] \notin {"pending", "paid_db_only"}
                                 /\ granted[Pay(w)] > 0
                                 /\ UserOf[Pay(w)] \in served
    /\ At(w, "resolve_user") => /\ status[Pay(w)] \in Final
                                /\ granted[Pay(w)] > 0
                                /\ UserOf[Pay(w)] \in served

\* A goroutine is started for a payment that is provisioned.
GoroutineInv ==
    \A g \in goroutines : granted[g[2]] > 0 /\ UserOf[g[2]] \in served

\* The final checkpoint is backed by VPN credentials.
PaidInv == \A p \in Payments : status[p] = "paid" => UserOf[p] \in served

IInv == /\ TypeOK
        /\ \A w \in Workers : StepInv(w)
        /\ GoroutineInv
        /\ PaidInv
        /\ CheckpointRecoverable
        /\ AckedPaidIsFinal
        /\ CalledMeansProvisioned

\* What no step takes back, with whatever copy of the row it works.
Progress ==
    /\ \A p \in Payments :
         /\ status[p] # "pending" => status'[p] # "pending"
         /\ status[p] \notin {"pending", "paid_db_only"}
                => status'[p] \notin {"pending", "paid_db_only"}
         /\ status[p] \in Final => status'[p] = status[p]
         /\ granted[p] > 0 => granted'[p] > 0
    /\ served \subseteq served'

\* The life of one row: its conditional UPDATEs and its CreateSubscription calls.
LEMMA MoveProgress ==
    ASSUME TypeOK, NEW p \in Payments, NEW from, NEW to, MoveStatus(p, from, to),
           <<from, to>> \in {<<"pending", "paid_db_only">>,
                             <<"paid_db_only", "paid_subscription_done">>,
                             <<"paid_subscription_done", "paid">>,
                             <<"pending", "cancelled">>, <<"pending", "failed">>},
           granted' = granted, served' = served
    PROVE  Progress
BY DEF MoveStatus, Progress, TypeOK, Final

\* A handler at a step holds a payment.
LEMMA StepPay ==
    ASSUME TypeOK, NEW w \in Workers, NEW step \in Steps, At(w, step)
    PROVE  worker[w] \in Busy /\ Pay(w) \in Payments
BY BusyWorker DEF TypeOK, At, Busy, Pay

\* Every step of the system is progress.
LEMMA NextProgress == TypeOK /\ [Next]_vars => Progress
<1> SUFFICES ASSUME TypeOK, [Next]_vars PROVE Progress
  OBVIOUS
<1>1. ASSUME UNCHANGED <<status, granted, served>> PROVE Progress
  BY <1>1 DEF Progress
<1>2. ASSUME NEW w \in Workers, Advance(w) PROVE Progress
  <2>1. CASE MarkPaidDBOnly(w)
    <3>1. Pay(w) \in Payments
      BY <2>1, StepPay DEF MarkPaidDBOnly, Steps
    <3> QED
      BY <2>1, <3>1, MoveProgress DEF MarkPaidDBOnly
  <2>2. CASE CreateSubscription(w)
    BY <2>2 DEF CreateSubscription, Progress, rows, TypeOK
  <2>3. CASE MarkSubscriptionDone(w)
    <3>1. Pay(w) \in Payments
      BY <2>3, StepPay DEF MarkSubscriptionDone, Steps
    <3> QED
      BY <2>3, <3>1, MoveProgress DEF MarkSubscriptionDone
  <2>4. CASE CreateVPNUser(w)
    BY <2>4 DEF CreateVPNUser, Progress, rows
  <2>5. CASE MarkComplete(w)
    <3>1. Pay(w) \in Payments
      BY <2>5, StepPay DEF MarkComplete, Steps
    <3> QED
      BY <2>5, <3>1, MoveProgress DEF MarkComplete
  <2>6. CASE ResolveUser(w)
    BY <2>6, <1>1 DEF ResolveUser, rows
  <2>7. CASE MarkCancelled(w)
    <3>1. Pay(w) \in Payments
      BY <2>7, StepPay DEF MarkCancelled, Steps
    <3> QED
      BY <2>7, <3>1, MoveProgress DEF MarkCancelled
  <2>8. CASE MarkFailed(w)
    <3>1. Pay(w) \in Payments
      BY <2>8, StepPay DEF MarkFailed, Steps
    <3> QED
      BY <2>8, <3>1, MoveProgress DEF MarkFailed
  <2> QED
    BY <1>2, <2>1, <2>2, <2>3, <2>4, <2>5, <2>6, <2>7, <2>8 DEF Advance
<1>3. ASSUME NEW w \in Workers, CreateSubscriptionReplyLost(w) PROVE Progress
  BY <1>3 DEF CreateSubscriptionReplyLost, Progress, rows, TypeOK
<1>4. ASSUME NEW w \in Workers, CreateVPNUserUnregistered(w) PROVE Progress
  BY <1>4 DEF CreateVPNUserUnregistered, Progress, rows
<1>5. CASE \/ \E w \in Webhooks, e \in Events, p \in Payments : HandleWebhook(w, e, p)
           \/ \E w \in Sentinels, cutoff \in 1 .. Cardinality(Payments) :
                SentinelTick(w, cutoff)
           \/ \E w \in Sentinels, p \in Payments : SentinelResume(w, p)
           \/ \E w \in Workers : StepFails(w)
           \/ \E g \in goroutines : GoroutineCalls(g) \/ GoroutineGivesUp(g)
           \/ Crash \/ UNCHANGED vars
  BY <1>1, <1>5 DEF HandleWebhook, SentinelTick, SentinelResume, StepFails,
     GoroutineCalls, GoroutineGivesUp, Crash, vars, rows
<1> QED
  BY <1>2, <1>3, <1>4, <1>5 DEF Next

\* What a handler knows stays true while it does not move.
LEMMA StepInvStable ==
    ASSUME TypeOK, Progress, NEW v \in Workers, StepInv(v), worker'[v] = worker[v]
    PROVE  StepInv(v)'
<1>1. ASSUME NEW step \in Steps, At(v, step) PROVE Pay(v) \in Payments
  BY <1>1, StepPay
<1>2. ~ (\E step \in Steps : At(v, step)) => StepInv(v)'
  BY DEF StepInv, At, Steps
<1>3. (\E step \in Steps : At(v, step)) => StepInv(v)'
  BY <1>1 DEF StepInv, At, Pay, Steps, Progress
<1> QED
  BY <1>2, <1>3

\* A handler that ends leaves every other handler with what it knows.
LEMMA EndedHandler ==
    ASSUME TypeOK, Progress, \A v \in Workers : StepInv(v),
           NEW w \in Workers, worker' = [worker EXCEPT ![w] = Idle]
    PROVE  \A v \in Workers : StepInv(v)'
<1>1. StepInv(w)'
  BY IdleFacts DEF StepInv, At
<1>2. \A v \in Workers \ {w} : StepInv(v)'
  BY IdleFacts, StepInvStable
<1> QED
  BY <1>1, <1>2

\* The parts of the invariant that a step cannot disturb if it calls no
\* goroutine, starts none and does not move the row of a payment.
LEMMA QuietStep ==
    ASSUME IInv, Progress
    PROVE  /\ called' = called => CalledMeansProvisioned'
           /\ goroutines' \subseteq goroutines => GoroutineInv'
           /\ UNCHANGED <<status, subIdKept>> => PaidInv' /\ CheckpointRecoverable'
           /\ acked' = acked => AckedPaidIsFinal'
<1>1. called' = called => CalledMeansProvisioned'
  BY DEF IInv, Progress, CalledMeansProvisioned
<1>2. goroutines' \subseteq goroutines => GoroutineInv'
  <2> SUFFICES ASSUME goroutines' \subseteq goroutines, NEW g \in goroutines
               PROVE  granted'[g[2]] > 0 /\ UserOf[g[2]] \in served'
    BY DEF GoroutineInv
  <2>1. g[2] \in Payments
    BY DEF IInv, TypeOK
  <2> QED
    BY <2>1 DEF IInv, GoroutineInv, Progress
<1>3. UNCHANGED <<status, subIdKept>> => PaidInv' /\ CheckpointRecoverable'
  BY DEF IInv, Progress, PaidInv, CheckpointRecoverable
<1>4. acked' = acked => AckedPaidIsFinal'
  BY DEF IInv, Progress, AckedPaidIsFinal
<1> QED
  BY <1>1, <1>2, <1>3, <1>4

\* The read of a paid event starts the handler with what the row says.
LEMMA ReadStep ==
    ASSUME IInv, Progress, NEW w \in Workers, NEW p \in Payments, ReadForPaid(w, p),
           UNCHANGED <<status, granted, served>>
    PROVE  /\ \A v \in Workers : StepInv(v)'
           /\ AckedPaidIsFinal'
<1>t. TypeOK
  BY DEF IInv
<1>1. CASE status[p] \in Final /\ Succeed(w, "paid", p)
  <2>1. \A v \in Workers : StepInv(v)'
    BY <1>t, <1>1, EndedHandler DEF Succeed, IInv
  <2>2. AckedPaidIsFinal'
    BY <1>1 DEF Succeed, IInv, AckedPaidIsFinal
  <2> QED
    BY <2>1, <2>2
<1>2. CASE /\ status[p] \notin Final
           /\ \E known \in BOOLEAN : worker' = [worker EXCEPT ![w] =
                 [pc |-> FirstStep[status[p]], pay |-> p, planKnown |-> known]]
           /\ UNCHANGED acked
  <2>1. worker'[w].pc = FirstStep[status[p]] /\ worker'[w].pay = p
    BY <1>2, <1>t DEF TypeOK
  <2>2. status[p] \in {"pending", "paid_db_only", "paid_subscription_done"}
    BY <1>2, <1>t DEF TypeOK, Status, Intermediate, Final
  <2>3. StepInv(w)'
    BY <1>2, <2>1, <2>2
       DEF StepInv, At, Pay, FirstStep, IInv, CheckpointRecoverable
  <2>4. \A v \in Workers \ {w} : worker'[v] = worker[v]
    BY <1>2, <1>t DEF TypeOK
  <2>5. \A v \in Workers : StepInv(v)'
    BY <1>t, <2>3, <2>4, StepInvStable DEF IInv
  <2> QED
    BY <1>2, <2>5, QuietStep
<1>3. CASE UNCHANGED <<worker, acked>>
  BY <1>t, <1>3, StepInvStable, QuietStep DEF IInv
<1> QED
  BY <1>1, <1>2, <1>3 DEF ReadForPaid

\* The invariant is kept by the steps of handleSuccessfulPayment and by the
\* cancellations.
LEMMA AdvanceStep ==
    ASSUME IInv, TypeOK', Progress, NEW w \in Workers, Advance(w)
    PROVE  IInv'
<1>t. TypeOK /\ \A v \in Workers : StepInv(v)
  BY DEF IInv
<1>0. worker[w] \in Busy /\ Pay(w) \in Payments
  BY <1>t, StepPay DEF Advance, Steps, MarkPaidDBOnly, CreateSubscription,
     MarkSubscriptionDone, CreateVPNUser, MarkComplete, ResolveUser,
     MarkCancelled, MarkFailed
<1>g. ASSUME NEW step \in Steps, Goto(w, step), StepInv(w)'
      PROVE  \A v \in Workers : StepInv(v)'
  <2>1. \A v \in Workers \ {w} : worker'[v] = worker[v]
    BY <1>t, <1>0, <1>g, GotoFacts
  <2> QED
    BY <1>t, <1>g, <2>1, StepInvStable
<1>1. CASE MarkPaidDBOnly(w)
  <2>1. Goto(w, "create_sub") /\ worker'[w].pc = "create_sub" /\ Pay(w)' = Pay(w)
    BY <1>t, <1>0, <1>1, GotoFacts DEF MarkPaidDBOnly, Steps, Pay
  <2>2. status'[Pay(w)] # "pending"
    BY <1>t, <1>0, <1>1 DEF MarkPaidDBOnly, MoveStatus, TypeOK
  <2>3. StepInv(w)'
    BY <2>1, <2>2 DEF StepInv, At
  <2>4. PaidInv' /\ CheckpointRecoverable'
    BY <1>t, <1>0, <1>1 DEF MarkPaidDBOnly, MoveStatus, TypeOK, IInv, PaidInv,
       CheckpointRecoverable
  <2> QED
    BY <1>1, <1>g, <2>1, <2>3, <2>4, QuietStep
       DEF MarkPaidDBOnly, IInv, Steps, ghosts
<1>2. CASE CreateSubscription(w)
  <2>1. worker'[w].pc = "mark_sub" /\ Pay(w)' = Pay(w)
    BY <1>t, <1>0, <1>2, ReplyFacts DEF Pay
  <2>2. granted'[Pay(w)] > 0
    BY <1>t, <1>0, <1>2 DEF CreateSubscription, TypeOK
  <2>3. StepInv(w)'
    BY <1>t, <1>0, <1>2, <2>1, <2>2 DEF StepInv, At, CreateSubscription, rows
  <2>4. \A v \in Workers : StepInv(v)'
    BY <1>t, <1>0, <1>2, <2>3, ReplyFacts, StepInvStable
  <2> QED
    BY <1>2, <2>4, QuietStep DEF CreateSubscription, IInv, rows, ghosts
<1>3. CASE MarkSubscriptionDone(w)
  <2>1. Goto(w, "create_vpn") /\ worker'[w].pc = "create_vpn" /\ Pay(w)' = Pay(w)
    BY <1>t, <1>0, <1>3, GotoFacts DEF MarkSubscriptionDone, Steps, Pay
  <2>2. status[Pay(w)] # "pending" /\ granted[Pay(w)] > 0 /\ granted' = granted
    BY <1>t, <1>3 DEF StepInv, MarkSubscriptionDone
  <2>3. status'[Pay(w)] \notin {"pending", "paid_db_only"}
    BY <1>t, <1>0, <1>3, <2>2 DEF MarkSubscriptionDone, MoveStatus, TypeOK
  <2>4. StepInv(w)'
    BY <2>1, <2>2, <2>3 DEF StepInv, At
  <2>5. PaidInv' /\ CheckpointRecoverable'
    BY <1>t, <1>0, <1>3, <2>2 DEF MarkSubscriptionDone, MoveStatus, TypeOK, IInv,
       PaidInv, CheckpointRecoverable
  <2> QED
    BY <1>3, <1>g, <2>1, <2>4, <2>5, QuietStep
       DEF MarkSubscriptionDone, IInv, Steps, ghosts
<1>4. CASE CreateVPNUser(w)
  <2>1. Goto(w, "mark_complete") /\ worker'[w].pc = "mark_complete" /\ Pay(w)' = Pay(w)
    BY <1>t, <1>0, <1>4, GotoFacts DEF CreateVPNUser, Steps, Pay
  <2>2. StepInv(w)'
    BY <1>t, <1>4, <2>1 DEF StepInv, At, CreateVPNUser, rows
  <2> QED
    BY <1>4, <1>g, <2>1, <2>2, QuietStep DEF CreateVPNUser, IInv, Steps, rows, ghosts
<1>5. CASE MarkComplete(w)
  <2>1. /\ status[Pay(w)] \notin {"pending", "paid_db_only"}
        /\ granted[Pay(w)] > 0 /\ UserOf[Pay(w)] \in served
        /\ granted' = granted /\ served' = served
    BY <1>t, <1>5 DEF StepInv, MarkComplete
  <2>2. status'[Pay(w)] \in Final
    BY <1>t, <1>0, <1>5, <2>1
       DEF MarkComplete, MoveStatus, TypeOK, Status, Intermediate, Final
  <2>3. PaidInv' /\ CheckpointRecoverable'
    BY <1>t, <1>0, <1>5, <2>1 DEF MarkComplete, MoveStatus, TypeOK, IInv,
       PaidInv, CheckpointRecoverable
  <2>4. GoroutineInv'
    BY <1>5, <2>1 DEF MarkComplete, GoroutineInv, IInv
  <2>5. (\A v \in Workers : StepInv(v)') /\ AckedPaidIsFinal'
    <3>1. CASE Goto(w, "resolve_user") /\ UNCHANGED acked
      <4>1. worker'[w].pc = "resolve_user" /\ Pay(w)' = Pay(w)
        BY <1>t, <1>0, <3>1, GotoFacts DEF Steps, Pay
      <4>2. StepInv(w)'
        BY <2>1, <2>2, <4>1 DEF StepInv, At
      <4> QED
        BY <1>g, <3>1, <4>2, QuietStep DEF Steps
    <3>2. CASE Succeed(w, "paid", Pay(w))
      BY <1>t, <2>2, <3>2, EndedHandler
         DEF Succeed, AckedPaidIsFinal, IInv, Progress
    <3> QED
      BY <1>5, <3>1, <3>2 DEF MarkComplete
  <2> QED
    BY <1>5, <2>3, <2>4, <2>5, QuietStep DEF MarkComplete, IInv
<1>6. CASE ResolveUser(w)
  <2>1. /\ status[Pay(w)] \in Final /\ status' = status
        /\ granted[Pay(w)] > 0 /\ UserOf[Pay(w)] \in served
        /\ granted' = granted /\ served' = served
    BY <1>t, <1>6 DEF StepInv, ResolveUser, rows
  <2>2. GoroutineInv'
    BY <1>6, <2>1 DEF ResolveUser, GoroutineInv, IInv
  <2>3. AckedPaidIsFinal'
    BY <1>6, <2>1 DEF ResolveUser, Succeed, AckedPaidIsFinal, IInv
  <2> QED
    BY <1>t, <1>6, <2>2, <2>3, EndedHandler, QuietStep
       DEF ResolveUser, Succeed, IInv, rows
<1>7. CASE MarkCancelled(w) \/ MarkFailed(w)
  <2>1. PaidInv' /\ CheckpointRecoverable'
    BY <1>t, <1>0, <1>7 DEF MarkCancelled, MarkFailed, MoveStatus, TypeOK, IInv,
       PaidInv, CheckpointRecoverable
  <2>2. AckedPaidIsFinal'
    BY <1>7 DEF MarkCancelled, MarkFailed, Succeed, AckedPaidIsFinal, IInv, Progress
  <2>3. worker' = [worker EXCEPT ![w] = Idle] /\ UNCHANGED <<goroutines, called>>
    BY <1>7 DEF MarkCancelled, MarkFailed, Succeed
  <2> QED
    BY <1>t, <2>1, <2>2, <2>3, EndedHandler, QuietStep DEF IInv
<1> QED
  BY <1>1, <1>2, <1>3, <1>4, <1>5, <1>6, <1>7 DEF Advance

\* The invariant is inductive.
LEMMA InvStep == IInv /\ [Next]_vars => IInv'
<1> SUFFICES ASSUME IInv, [Next]_vars PROVE IInv'
  OBVIOUS
<1>t. TypeOK /\ TypeOK' /\ Progress /\ \A v \in Workers : StepInv(v)
  BY TypeStep, NextProgress DEF IInv
<1>1. CASE \E w \in Webhooks, e \in Events, p \in Payments : HandleWebhook(w, e, p)
  <2> PICK w \in Webhooks, e \in Events, p \in Payments : HandleWebhook(w, e, p)
    BY <1>1
  <2>0. /\ UNCHANGED <<status, subIdKept, granted, served, goroutines, called>>
        /\ w \in Workers
    BY DEF HandleWebhook, rows, Workers
  <2>1. CASE ReadForPaid(w, p)
    BY <1>t, <2>0, <2>1, ReadStep, QuietStep DEF IInv
  <2>2. ASSUME NEW step \in {"mark_cancelled", "mark_failed"}, UNCHANGED acked,
               worker' = [worker EXCEPT ![w] =
                             [pc |-> step, pay |-> p, planKnown |-> FALSE]]
        PROVE  IInv'
    <3>1. /\ worker'[w].pc = step
          /\ \A v \in Workers \ {w} : worker'[v] = worker[v]
      BY <1>t, <2>0, <2>2 DEF TypeOK
    <3>2. StepInv(w)'
      BY <2>2, <3>1 DEF StepInv, At
    <3>3. \A v \in Workers : StepInv(v)'
      BY <1>t, <3>1, <3>2, StepInvStable
    <3> QED
      BY <1>t, <2>0, <2>2, <3>3, QuietStep DEF IInv
  <2>3. CASE e = "refunded" /\ Succeed(w, e, p)
    <3>1. AckedPaidIsFinal'
      BY <2>0, <2>3 DEF Succeed, AckedPaidIsFinal, IInv
    <3> QED
      BY <1>t, <2>0, <2>3, <3>1, EndedHandler, QuietStep DEF IInv, Succeed
  <2> QED
    BY <2>1, <2>2, <2>3 DEF HandleWebhook
<1>2. CASE \E w \in Sentinels, p \in Payments : SentinelResume(w, p)
  <2> PICK w \in Sentinels, p \in Payments : SentinelResume(w, p)
    BY <1>2
  <2>0. /\ UNCHANGED <<status, subIdKept, granted, served, goroutines, called>>
        /\ w \in Workers /\ ReadForPaid(w, p)
    BY DEF SentinelResume, rows, Workers
  <2> QED
    BY <1>t, <2>0, ReadStep, QuietStep DEF IInv
<1>3. CASE \E w \in Workers : Advance(w)
  BY <1>t, <1>3, AdvanceStep
<1>4. CASE \E w \in Workers : \/ CreateSubscriptionReplyLost(w)
                              \/ CreateVPNUserUnregistered(w) \/ StepFails(w)
  <2> PICK w \in Workers : \/ CreateSubscriptionReplyLost(w)
                           \/ CreateVPNUserUnregistered(w) \/ StepFails(w)
    BY <1>4
  <2>1. /\ worker' = [worker EXCEPT ![w] = Idle]
        /\ UNCHANGED <<status, subIdKept, goroutines, called, acked>>
    BY DEF CreateSubscriptionReplyLost, CreateVPNUserUnregistered, StepFails,
       Fail, Fault, rows
  <2> QED
    BY <1>t, <2>1, EndedHandler, QuietStep DEF IInv
<1>5. CASE \E g \in goroutines : GoroutineCalls(g) \/ GoroutineGivesUp(g)
  <2> PICK g \in goroutines : GoroutineCalls(g) \/ GoroutineGivesUp(g)
    BY <1>5
  <2>1. /\ UNCHANGED <<status, subIdKept, granted, served, worker, acked>>
        /\ goroutines' \subseteq goroutines
    BY DEF GoroutineCalls, GoroutineGivesUp, rows, ghosts
  <2>2. \A v \in Workers : StepInv(v)'
    BY <1>t, <2>1, StepInvStable
  <2>3. CalledMeansProvisioned'
    <3>1. CASE GoroutineGivesUp(g)
      BY <1>t, <3>1, QuietStep DEF GoroutineGivesUp
    <3>2. CASE GoroutineCalls(g)
      <4>1. granted[g[2]] > 0 /\ UserOf[g[2]] \in served
        BY DEF IInv, GoroutineInv
      <4>2. ASSUME NEW c \in Calls, NEW p \in Payments, called'[c][p] > 0
            PROVE  called[c][p] > 0 \/ p = g[2]
        <5>1. g[1] \in Calls /\ g[2] \in Payments
          BY <1>t DEF TypeOK
        <5> QED
          BY <1>t, <3>2, <4>2, <5>1 DEF GoroutineCalls, TypeOK
      <4> QED
        BY <2>1, <4>1, <4>2 DEF CalledMeansProvisioned, IInv
    <3> QED
      BY <3>1, <3>2
  <2> QED
    BY <1>t, <2>1, <2>2, <2>3, QuietStep DEF IInv
<1>6. CASE Crash
  <2>1. \A v \in Workers : StepInv(v)'
    BY <1>6 DEF Crash, StepInv, At, Idle
  <2> QED
    BY <1>t, <1>6, <2>1, QuietStep DEF Crash, Fault, IInv, rows
<1>7. CASE \/ \E w \in Sentinels, cutoff \in 1 .. Cardinality(Payments) :
                SentinelTick(w, cutoff)
           \/ UNCHANGED vars
  <2>1. UNCHANGED <<status, subIdKept, worker, acked, goroutines, called>>
    BY <1>7 DEF SentinelTick, vars, rows, ghosts
  <2>2. \A v \in Workers : StepInv(v)'
    BY <1>t, <2>1, StepInvStable
  <2> QED
    BY <1>t, <2>1, <2>2, QuietStep DEF IInv
<1> QED
  BY <1>1, <1>2, <1>3, <1>4, <1>5, <1>6, <1>7 DEF Next

LEMMA InvInit == Init => IInv
<1> SUFFICES ASSUME Init PROVE IInv
  OBVIOUS
<1>1. TypeOK
  BY UsersAssumption DEF Init, TypeOK, Status, Calls, Workers
<1>2. \A w \in Workers : StepInv(w)
  BY DEF Init, StepInv, At, Idle
<1> QED
  BY <1>1, <1>2 DEF Init, IInv, GoroutineInv, PaidInv, CheckpointRecoverable,
     AckedPaidIsFinal, CalledMeansProvisioned

LEMMA Invariant == Spec => []IInv
BY InvInit, InvStep, PTL DEF Spec

\* Every payment at paid_subscription_done can be resumed: its subscription_id
\* is kept and its days are granted, whatever the handlers interleave.
THEOREM Recoverable == Spec => []CheckpointRecoverable
BY Invariant, PTL DEF IInv

\* A paid webhook is acknowledged only when the payment needs no more work.
THEOREM AckedFinal == Spec => []AckedPaidIsFinal
BY Invariant, PTL DEF IInv

\* Hooks and notifications come only after days and VPN credentials.
THEOREM CalledProvisioned == Spec => []CalledMeansProvisioned
BY Invariant, PTL DEF IInv

-----------------------------------------------------------------------------
(* How often the days of a payment are granted.                             *)
(*                                                                          *)
(* A bound on granted alone is not inductive: what counts is who may still  *)
(* call CreateSubscription.  Before the checkpoint that is every handler    *)
(* but those which have just called it; after the checkpoint, only those    *)
(* already on their way to the call.  No step without a failure lets        *)
(* another handler in, and a failure lets in all of them once more.         *)

\* Handler w may call CreateSubscription for p without another failure.
MayGrant(w, p) ==
    IF status[p] \in {"pending", "paid_db_only"}
    THEN ~(At(w, "mark_sub") /\ Pay(w) = p)
    ELSE (At(w, "mark_paid") \/ At(w, "create_sub")) /\ Pay(w) = p

Granters(p) == {w \in Workers : MayGrant(w, p)}

\* The grants of p, made and still possible, are within what its failures allow.
Budget ==
    \A p \in Payments : granted[p] + Cardinality(Granters(p))
                            <= Cardinality(Workers) * (1 + faults)

\* A set of handlers is counted, and no larger than all of them.
LEMMA CountHandlers ==
    ASSUME NEW S \in SUBSET Workers
    PROVE  /\ IsFiniteSet(S)
           /\ Cardinality(S) \in Nat /\ Cardinality(Workers) \in Nat
           /\ Cardinality(S) <= Cardinality(Workers)
BY WorkersAssumption, FS_Subset, FS_CardinalityType DEF Workers

\* Each failure adds one more call by every handler.
LEMMA BudgetGrows ==
    ASSUME NEW n \in Nat, NEW f \in Nat
    PROVE  n * (1 + (f + 1)) = n * (1 + f) + n
OBVIOUS

\* A handler that does not move does not come back among the granters.
LEMMA StillGranter ==
    ASSUME Progress, NEW v \in Workers, worker'[v] = worker[v],
           NEW p \in Payments, MayGrant(v, p)'
    PROVE  MayGrant(v, p)
BY DEF Progress, MayGrant, At, Pay

\* A step without a failure keeps the budget if the handler that moves, if any,
\* was a granter wherever it is one afterwards, and its call, if it made one,
\* took it off the list.
LEMMA KeepsBudget ==
    ASSUME TypeOK, TypeOK', Progress, Budget, faults' = faults,
           granted' = granted, NEW w \in Workers,
           \A v \in Workers \ {w} : worker'[v] = worker[v],
           \A p \in Payments : MayGrant(w, p)' => MayGrant(w, p)
    PROVE  Budget'
<1> SUFFICES ASSUME NEW p \in Payments
             PROVE  granted'[p] + Cardinality(Granters(p)')
                        <= Cardinality(Workers) * (1 + faults')
  BY DEF Budget
<1>1. Granters(p)' \subseteq Granters(p)
  BY StillGranter DEF Granters
<1>2. Granters(p) \in SUBSET Workers /\ Granters(p)' \in SUBSET Workers
  BY DEF Granters
<1>3. Cardinality(Granters(p)') <= Cardinality(Granters(p))
  BY <1>1, <1>2, CountHandlers, FS_Subset
<1>4. granted[p] \in Nat /\ Cardinality(Granters(p)) \in Nat
      /\ Cardinality(Granters(p)') \in Nat /\ Cardinality(Workers) \in Nat
  BY <1>2, CountHandlers DEF TypeOK
<1>5. Cardinality(Workers) * (1 + faults) \in Nat
  BY <1>4 DEF TypeOK
<1>6. granted[p] + Cardinality(Granters(p)) <= Cardinality(Workers) * (1 + faults)
  BY DEF Budget
<1> QED
  BY <1>3, <1>4, <1>5, <1>6

\* A call takes one from the possible grants and adds one to those made.
LEMMA CallsOnce ==
    ASSUME TypeOK, TypeOK', Progress, Budget, faults' = faults,
           NEW w \in Workers, At(w, "create_sub"), At(w, "mark_sub")',
           Pay(w)' = Pay(w), StepInv(w), StepInv(w)', UNCHANGED status,
           \A v \in Workers \ {w} : worker'[v] = worker[v],
           granted' = [granted EXCEPT ![Pay(w)] = @ + 1]
    PROVE  Budget'
<1> SUFFICES ASSUME NEW p \in Payments
             PROVE  granted'[p] + Cardinality(Granters(p)')
                        <= Cardinality(Workers) * (1 + faults')
  BY DEF Budget
<1>2. Granters(p) \in SUBSET Workers /\ Granters(p)' \in SUBSET Workers
  BY DEF Granters
<1>4. granted[p] \in Nat /\ Cardinality(Granters(p)) \in Nat
      /\ Cardinality(Granters(p)') \in Nat /\ Cardinality(Workers) \in Nat
  BY <1>2, CountHandlers DEF TypeOK
<1>5. Cardinality(Workers) * (1 + faults) \in Nat
  BY <1>4 DEF TypeOK
<1>6. granted[p] + Cardinality(Granters(p)) <= Cardinality(Workers) * (1 + faults)
  BY DEF Budget
<1>7. CASE p = Pay(w)
  <2>1. w \in Granters(p) /\ w \notin Granters(p)'
    BY <1>7 DEF Granters, MayGrant, At, Pay
  <2>2. Granters(p)' \subseteq Granters(p) \ {w}
    BY <2>1, StillGranter DEF Granters
  <2>3. /\ IsFiniteSet(Granters(p) \ {w})
        /\ Cardinality(Granters(p) \ {w}) = Cardinality(Granters(p)) - 1
    BY <1>2, <2>1, CountHandlers, FS_RemoveElement
  <2>4. Cardinality(Granters(p)') <= Cardinality(Granters(p)) - 1
    BY <2>2, <2>3, FS_Subset
  <2>5. granted'[p] = granted[p] + 1
    BY <1>7 DEF TypeOK
  <2> QED
    BY <1>4, <1>5, <1>6, <2>4, <2>5
<1>8. CASE p # Pay(w)
  <2>1. Granters(p)' \subseteq Granters(p)
    BY <1>8, StillGranter DEF Granters, MayGrant, At, Pay
  <2>2. Cardinality(Granters(p)') <= Cardinality(Granters(p))
    BY <1>2, <2>1, CountHandlers, FS_Subset
  <2>3. granted'[p] = granted[p]
    BY <1>8 DEF TypeOK
  <2> QED
    BY <1>4, <1>5, <1>6, <2>2, <2>3
<1> QED
  BY <1>7, <1>8

\* A failure gives every handler one more call, whatever it does to the
\* handlers, also if it came after a call took effect.
LEMMA FailureAddsBudget ==
    ASSUME TypeOK, TypeOK', Budget, faults' = faults + 1,
           \/ granted' = granted
           \/ \E w \in Workers : /\ At(w, "create_sub") /\ Pay(w) \in Payments
                                 /\ granted' = [granted EXCEPT ![Pay(w)] = @ + 1]
    PROVE  Budget'
<1> SUFFICES ASSUME NEW p \in Payments
             PROVE  granted'[p] + Cardinality(Granters(p)')
                        <= Cardinality(Workers) * (1 + faults')
  BY DEF Budget
<1>2. Granters(p) \in SUBSET Workers /\ Granters(p)' \in SUBSET Workers
  BY DEF Granters
<1>4. granted[p] \in Nat /\ Cardinality(Granters(p)) \in Nat
      /\ Cardinality(Granters(p)') \in Nat /\ Cardinality(Workers) \in Nat
      /\ Cardinality(Granters(p)') <= Cardinality(Workers)
  BY <1>2, CountHandlers DEF TypeOK
<1>5. Cardinality(Workers) * (1 + faults) \in Nat
  BY <1>4 DEF TypeOK
<1>6. granted[p] + Cardinality(Granters(p)) <= Cardinality(Workers) * (1 + faults)
  BY DEF Budget
<1>7. Cardinality(Workers) * (1 + faults')
        = Cardinality(Workers) * (1 + faults) + Cardinality(Workers)
  BY <1>4, BudgetGrows DEF TypeOK
<1>8. \/ granted'[p] = granted[p]
      \/ granted'[p] = granted[p] + 1 /\ Cardinality(Granters(p)) # 0
  <2>1. ASSUME NEW w \in Workers, At(w, "create_sub"), Pay(w) = p
        PROVE  Cardinality(Granters(p)) # 0
    <3>1. w \in Granters(p)
      BY <2>1 DEF Granters, MayGrant, At, Pay
    <3> QED
      BY <1>2, <3>1, CountHandlers, FS_EmptySet
  <2>2. ASSUME NEW w \in Workers, Pay(w) \in Payments,
               granted' = [granted EXCEPT ![Pay(w)] = @ + 1]
        PROVE  \/ granted'[p] = granted[p]
               \/ granted'[p] = granted[p] + 1 /\ Pay(w) = p
    <3> DEFINE q == Pay(w)
    <3>1. granted' = [granted EXCEPT ![q] = @ + 1] /\ q \in Payments
      BY <2>2
    <3> HIDE DEF q
    <3>2. q = p \/ q # p
      OBVIOUS
    <3>3. granted'[p] = granted[p] \/ (granted'[p] = granted[p] + 1 /\ q = p)
      BY <3>1, <3>2 DEF TypeOK
    <3> QED
      BY <3>3 DEF q
  <2> QED
    BY <2>1, <2>2
<1>9. granted'[p] <= Cardinality(Workers) * (1 + faults)
  <2> QED
    BY <1>4, <1>5, <1>6, <1>8
<1>10. granted'[p] \in Nat
  BY DEF TypeOK
<1> QED
  BY <1>4, <1>5, <1>7, <1>9, <1>10

\* A handler that is not at the checkpoint and does not arrive before the call
\* was a granter if it is one.
LEMMA NoNewGranter ==
    ASSUME Progress, NEW w, NEW p \in Payments, ~At(w, "mark_sub"),
           ~At(w, "mark_paid")', ~At(w, "create_sub")', MayGrant(w, p)'
    PROVE  MayGrant(w, p)
BY DEF Progress, MayGrant, At

\* The read of a paid event starts a handler that was a granter already.
LEMMA ReadKeepsBudget ==
    ASSUME TypeOK, TypeOK', Progress, Budget, NEW w \in Workers, worker[w] = Idle,
           NEW p \in Payments, ReadForPaid(w, p),
           UNCHANGED <<status, granted, faults>>
    PROVE  Budget'
<1>0. worker[w].pc = "idle"
  BY DEF Idle
<1>1. CASE Succeed(w, "paid", p)
  <2>1. ~At(w, "mark_sub") /\ ~At(w, "mark_paid")' /\ ~At(w, "create_sub")'
    BY <1>0, <1>1, IdleFacts DEF Succeed, At
  <2> QED
    BY <1>1, <2>1, IdleFacts, NoNewGranter, KeepsBudget DEF Succeed
<1>2. CASE /\ status[p] \notin Final
           /\ \E known \in BOOLEAN : worker' = [worker EXCEPT ![w] =
                 [pc |-> FirstStep[status[p]], pay |-> p, planKnown |-> known]]
  <2>1. /\ worker'[w].pc = FirstStep[status[p]] /\ worker'[w].pay = p
        /\ \A v \in Workers \ {w} : worker'[v] = worker[v]
    BY <1>2 DEF TypeOK
  <2>2. ASSUME NEW q \in Payments, MayGrant(w, q)' PROVE MayGrant(w, q)
    <3>1. CASE status[q] \in {"pending", "paid_db_only"}
      BY <1>0, <3>1 DEF MayGrant, At
    <3>2. CASE status[q] \notin {"pending", "paid_db_only"}
      <4>1. q = p /\ worker'[w].pc \in {"mark_paid", "create_sub"}
        BY <2>1, <2>2, <3>2 DEF MayGrant, At, Pay
      <4>2. status[p] = "paid_subscription_done"
        BY <1>2, <3>2, <4>1 DEF TypeOK, Status, Intermediate
      <4> QED
        BY <2>1, <4>1, <4>2 DEF FirstStep
    <3> QED
      BY <3>1, <3>2
  <2> QED
    BY <2>1, <2>2, KeepsBudget
<1>3. CASE UNCHANGED worker
  BY <1>3, KeepsBudget DEF MayGrant, At, Pay
<1> QED
  BY <1>1, <1>2, <1>3 DEF ReadForPaid

\* So do the steps of a handler that goes on.
LEMMA AdvanceKeepsBudget ==
    ASSUME IInv, IInv', Progress, Budget, NEW w \in Workers, Advance(w)
    PROVE  Budget'
<1>t. TypeOK /\ TypeOK' /\ StepInv(w) /\ StepInv(w)'
  BY DEF IInv
<1>0. worker[w] \in Busy /\ Pay(w) \in Payments
  BY <1>t, StepPay DEF Advance, Steps, MarkPaidDBOnly, CreateSubscription,
     MarkSubscriptionDone, CreateVPNUser, MarkComplete, ResolveUser,
     MarkCancelled, MarkFailed
<1>1. CASE MarkPaidDBOnly(w)
  <2>1. /\ worker'[w].pc = "create_sub" /\ Pay(w)' = Pay(w)
        /\ \A v \in Workers \ {w} : worker'[v] = worker[v]
    BY <1>t, <1>0, <1>1, GotoFacts DEF MarkPaidDBOnly, Steps, Pay
  <2>2. \A p \in Payments : MayGrant(w, p)' => MayGrant(w, p)
    BY <1>1, <2>1 DEF MayGrant, At, MarkPaidDBOnly, Progress
  <2> QED
    BY <1>t, <1>1, <2>1, <2>2, KeepsBudget DEF MarkPaidDBOnly, ghosts
<1>2. CASE CreateSubscription(w)
  BY <1>t, <1>0, <1>2, ReplyFacts, CallsOnce
     DEF CreateSubscription, At, Pay, rows, ghosts
<1>3. CASE MarkSubscriptionDone(w)
  <2>1. /\ worker'[w].pc = "create_vpn" /\ Pay(w)' = Pay(w)
        /\ \A v \in Workers \ {w} : worker'[v] = worker[v]
    BY <1>t, <1>0, <1>3, GotoFacts DEF MarkSubscriptionDone, Steps, Pay
  <2>2. status'[Pay(w)] \notin {"pending", "paid_db_only"}
    BY <1>t, <2>1 DEF StepInv, At
  <2>3. \A p \in Payments : MayGrant(w, p)' => MayGrant(w, p)
    BY <2>1, <2>2 DEF MayGrant, At, Progress
  <2> QED
    BY <1>t, <1>3, <2>1, <2>3, KeepsBudget DEF MarkSubscriptionDone, ghosts
<1>4. CASE CreateVPNUser(w)
  <2>1. /\ worker'[w].pc = "mark_complete"
        /\ \A v \in Workers \ {w} : worker'[v] = worker[v]
    BY <1>t, <1>0, <1>4, GotoFacts DEF CreateVPNUser, Steps
  <2>2. ~At(w, "mark_sub") /\ ~At(w, "mark_paid")' /\ ~At(w, "create_sub")'
    BY <1>4, <2>1 DEF CreateVPNUser, At
  <2> QED
    BY <1>t, <1>4, <2>1, <2>2, NoNewGranter, KeepsBudget DEF CreateVPNUser, ghosts
<1>5. CASE MarkComplete(w) \/ ResolveUser(w) \/ MarkCancelled(w) \/ MarkFailed(w)
  <2>1. /\ worker'[w].pc \in {"idle", "resolve_user"}
        /\ \A v \in Workers \ {w} : worker'[v] = worker[v]
    <3>1. CASE Goto(w, "resolve_user")
      BY <1>t, <1>0, <3>1, GotoFacts DEF Steps
    <3>2. CASE worker' = [worker EXCEPT ![w] = Idle]
      BY <1>t, <3>2, IdleFacts
    <3> QED
      BY <1>5, <3>1, <3>2 DEF MarkComplete, ResolveUser, MarkCancelled, MarkFailed, Succeed
  <2>2. ~At(w, "mark_sub") /\ ~At(w, "mark_paid")' /\ ~At(w, "create_sub")'
    BY <1>5, <2>1 DEF MarkComplete, ResolveUser, MarkCancelled, MarkFailed, At
  <2>3. UNCHANGED <<granted, faults>>
    BY <1>5 DEF MarkComplete, ResolveUser, MarkCancelled, MarkFailed
  <2> QED
    BY <1>t, <2>1, <2>2, <2>3, NoNewGranter, KeepsBudget
<1> QED
  BY <1>1, <1>2, <1>3, <1>4, <1>5 DEF Advance

LEMMA BudgetStep ==
    ASSUME IInv, IInv', [Next]_vars, Budget PROVE Budget'
<1>t. TypeOK /\ TypeOK' /\ Progress
  BY NextProgress DEF IInv
<1>q. ASSUME UNCHANGED <<status, granted, worker, faults>> PROVE Budget'
  BY <1>q DEF Budget, Granters, MayGrant, At, Pay, Workers
<1>1. CASE \E w \in Webhooks, e \in Events, p \in Payments : HandleWebhook(w, e, p)
  <2> PICK w \in Webhooks, e \in Events, p \in Payments : HandleWebhook(w, e, p)
    BY <1>1
  <2>0. /\ UNCHANGED <<status, granted, faults>> /\ w \in Workers
        /\ worker[w] = Idle /\ ~At(w, "mark_sub")
    BY DEF HandleWebhook, rows, Workers, At, Idle
  <2>1. CASE ReadForPaid(w, p)
    BY <1>t, <2>0, <2>1, ReadKeepsBudget
  <2>2. CASE \E step \in {"mark_cancelled", "mark_failed"} :
                worker' = [worker EXCEPT ![w] =
                              [pc |-> step, pay |-> p, planKnown |-> FALSE]]
    <3>1. /\ worker'[w].pc \in {"mark_cancelled", "mark_failed"}
          /\ \A v \in Workers \ {w} : worker'[v] = worker[v]
      BY <1>t, <2>0, <2>2 DEF TypeOK
    <3> QED
      BY <1>t, <2>0, <3>1, NoNewGranter, KeepsBudget DEF At
  <2>3. CASE Succeed(w, e, p)
    <3>1. worker' = [worker EXCEPT ![w] = Idle]
      BY <2>3 DEF Succeed
    <3>2. /\ worker'[w].pc = "idle"
          /\ \A v \in Workers \ {w} : worker'[v] = worker[v]
      BY <1>t, <2>0, <3>1, IdleFacts
    <3> QED
      BY <1>t, <2>0, <3>2, NoNewGranter, KeepsBudget DEF At
  <2> QED
    BY <2>1, <2>2, <2>3 DEF HandleWebhook
<1>2. CASE \E w \in Sentinels, p \in Payments : SentinelResume(w, p)
  BY <1>t, <1>2, ReadKeepsBudget DEF SentinelResume, rows, Workers
<1>3. CASE \E w \in Workers : Advance(w)
  BY <1>t, <1>3, AdvanceKeepsBudget
<1>4. CASE \E w \in Workers : CreateSubscriptionReplyLost(w)
  <2> PICK w \in Workers : CreateSubscriptionReplyLost(w)
    BY <1>4
  <2>1. Pay(w) \in Payments
    BY <1>t, StepPay DEF CreateSubscriptionReplyLost, Steps
  <2> QED
    BY <1>t, <2>1, FailureAddsBudget DEF CreateSubscriptionReplyLost, Fail, Fault
<1>5. CASE \/ \E w \in Workers : CreateVPNUserUnregistered(w) \/ StepFails(w)
           \/ Crash
  BY <1>t, <1>5, FailureAddsBudget
     DEF CreateVPNUserUnregistered, StepFails, Crash, Fail, Fault
<1>6. CASE \/ \E w \in Sentinels, cutoff \in 1 .. Cardinality(Payments) :
                SentinelTick(w, cutoff)
           \/ \E g \in goroutines : GoroutineCalls(g) \/ GoroutineGivesUp(g)
           \/ UNCHANGED vars
  BY <1>q, <1>6 DEF SentinelTick, GoroutineCalls, GoroutineGivesUp, vars, rows, ghosts
<1> QED
  BY <1>1, <1>2, <1>3, <1>4, <1>5, <1>6 DEF Next

LEMMA BudgetInit == Init => Budget
<1> SUFFICES ASSUME Init, NEW p \in Payments
             PROVE  granted[p] + Cardinality(Granters(p))
                        <= Cardinality(Workers) * (1 + faults)
  BY DEF Budget
<1>1. granted[p] = 0 /\ faults = 0
  BY DEF Init
<1>2. Granters(p) \in SUBSET Workers
  BY DEF Granters
<1> QED
  BY <1>1, <1>2, CountHandlers

\* The days of one payment are granted at most once by every handler, and once
\* more by each of them for every failure, lost reply or crash: no interleaving
\* alone makes a handler call CreateSubscription for it twice.
THEOREM Granted == Spec => []GrantsBounded
<1>1. TypeOK /\ Budget => GrantsBounded
  <2> SUFFICES ASSUME TypeOK, Budget, NEW p \in Payments
               PROVE  granted[p] <= Cardinality(Workers) * (1 + faults)
    BY DEF GrantsBounded
  <2>1. Granters(p) \in SUBSET Workers
    BY DEF Granters
  <2>2. Cardinality(Granters(p)) \in Nat /\ Cardinality(Workers) \in Nat
    BY <2>1, CountHandlers
  <2>3. granted[p] \in Nat /\ Cardinality(Workers) * (1 + faults) \in Nat
    BY <2>2 DEF TypeOK
  <2>4. granted[p] + Cardinality(Granters(p)) <= Cardinality(Workers) * (1 + faults)
    BY DEF Budget
  <2> QED
    BY <2>2, <2>3, <2>4
<1>2. IInv => TypeOK
  BY DEF IInv
<1>3. IInv /\ IInv' /\ [Next]_vars /\ Budget => Budget'
  BY BudgetStep
<1> QED
  BY <1>1, <1>2, <1>3, BudgetInit, Invariant, PTL DEF Spec

-----------------------------------------------------------------------------
(* PaymentFlow implements PaymentLifecycle.                                 *)

\* A conditional UPDATE either moves the row from the expected status, or does
\* nothing.
LEMMA MoveCases ==
    ASSUME TypeOK, NEW p \in Payments, NEW from, NEW to, MoveStatus(p, from, to)
    PROVE  \/ status' = status
           \/ status[p] = from /\ status' = [status EXCEPT ![p] = to]
BY DEF MoveStatus

\* Each step of a handler is a step of the life cycle, or a stutter.
LEMMA AdvanceRefines ==
    ASSUME IInv, NEW w \in Workers, Advance(w)
    PROVE  Lifecycle!Next \/ UNCHANGED Lifecycle!vars
<1>t. TypeOK /\ StepInv(w)
  BY DEF IInv
<1>0. Pay(w) \in Payments
  BY <1>t, StepPay DEF Advance, Steps, MarkPaidDBOnly, CreateSubscription,
     MarkSubscriptionDone, CreateVPNUser, MarkComplete, ResolveUser,
     MarkCancelled, MarkFailed
<1>1. CASE MarkPaidDBOnly(w)
  BY <1>t, <1>0, <1>1, MoveCases
     DEF MarkPaidDBOnly, Lifecycle!Next, Lifecycle!Confirm, Lifecycle!vars
<1>2. CASE CreateSubscription(w)
  <2>1. {q \in Payments : granted'[q] > 0} = {q \in Payments : granted[q] > 0} \cup {Pay(w)}
    BY <1>t, <1>0, <1>2 DEF CreateSubscription, TypeOK
  <2>2. status[Pay(w)] # "pending"
    BY <1>t, <1>2 DEF StepInv, CreateSubscription
  <2> QED
    BY <1>0, <1>2, <2>1, <2>2
       DEF CreateSubscription, rows, Lifecycle!Next, Lifecycle!Grant
<1>3. CASE MarkSubscriptionDone(w)
  BY <1>t, <1>0, <1>3, MoveCases
     DEF MarkSubscriptionDone, StepInv, Lifecycle!Next,
         Lifecycle!CheckpointSubscription, Lifecycle!vars
<1>4. CASE CreateVPNUser(w)
  BY <1>t, <1>0, <1>4
     DEF CreateVPNUser, StepInv, rows, Lifecycle!Next, Lifecycle!Serve
<1>5. CASE MarkComplete(w)
  BY <1>t, <1>0, <1>5, MoveCases
     DEF MarkComplete, StepInv, Lifecycle!Next, Lifecycle!Complete, Lifecycle!vars
<1>6. CASE ResolveUser(w)
  BY <1>6 DEF ResolveUser, rows, Lifecycle!vars
<1>7. CASE MarkCancelled(w)
  BY <1>t, <1>0, <1>7, MoveCases
     DEF MarkCancelled, Lifecycle!Next, Lifecycle!Abandon, Lifecycle!vars
<1>8. CASE MarkFailed(w)
  BY <1>t, <1>0, <1>8, MoveCases
     DEF MarkFailed, Lifecycle!Next, Lifecycle!Abandon, Lifecycle!vars
<1> QED
  BY <1>1, <1>2, <1>3, <1>4, <1>5, <1>6, <1>7, <1>8 DEF Advance

\* So is every step of the system.
LEMMA StepRefines ==
    ASSUME IInv, [Next]_vars PROVE [Lifecycle!Next]_(Lifecycle!vars)
<1>t. TypeOK
  BY DEF IInv
<1>1. CASE \E w \in Workers : Advance(w)
  BY <1>1, AdvanceRefines
<1>2. CASE \E w \in Workers : CreateSubscriptionReplyLost(w)
  <2> PICK w \in Workers : CreateSubscriptionReplyLost(w)
    BY <1>2
  <2>1. Pay(w) \in Payments /\ status[Pay(w)] # "pending"
    BY <1>t, StepPay DEF CreateSubscriptionReplyLost, Steps, StepInv, IInv
  <2>2. {q \in Payments : granted'[q] > 0} = {q \in Payments : granted[q] > 0} \cup {Pay(w)}
    BY <1>t, <2>1 DEF CreateSubscriptionReplyLost, TypeOK
  <2> QED
    BY <2>1, <2>2 DEF CreateSubscriptionReplyLost, rows, Lifecycle!Next, Lifecycle!Grant
<1>3. CASE \E w \in Workers : CreateVPNUserUnregistered(w)
  <2> PICK w \in Workers : CreateVPNUserUnregistered(w)
    BY <1>3
  <2>1. Pay(w) \in Payments /\ granted[Pay(w)] > 0
    BY <1>t, StepPay DEF CreateVPNUserUnregistered, Steps, StepInv, IInv
  <2> QED
    BY <2>1 DEF CreateVPNUserUnregistered, rows, Lifecycle!Next, Lifecycle!Serve
<1>4. ASSUME UNCHANGED <<status, granted, served>> PROVE UNCHANGED Lifecycle!vars
  BY <1>4 DEF Lifecycle!vars
<1>5. CASE \/ \E w \in Webhooks, e \in Events, p \in Payments : HandleWebhook(w, e, p)
           \/ \E w \in Sentinels, cutoff \in 1 .. Cardinality(Payments) :
                SentinelTick(w, cutoff)
           \/ \E w \in Sentinels, p \in Payments : SentinelResume(w, p)
           \/ \E w \in Workers : StepFails(w)
           \/ \E g \in goroutines : GoroutineCalls(g) \/ GoroutineGivesUp(g)
           \/ Crash \/ UNCHANGED vars
  BY <1>4, <1>5 DEF HandleWebhook, SentinelTick, SentinelResume, StepFails,
     GoroutineCalls, GoroutineGivesUp, Crash, vars, rows
<1> QED
  BY <1>1, <1>2, <1>3, <1>5 DEF Next

\* The handlers, however many run, fail, crash and repeat each other's work,
\* implement the checkpoint machine.
THEOREM Refinement == Spec => RefinesLifecycle
<1>1. Init => Lifecycle!Init
  BY DEF Init, Lifecycle!Init
<1>2. IInv /\ [Next]_vars => [Lifecycle!Next]_(Lifecycle!vars)
  BY StepRefines
<1> QED
  BY <1>1, <1>2, Invariant, PTL DEF Spec, RefinesLifecycle, Lifecycle!Spec
-----------------------------------------------------------------------------
(* The sentinel.                                                             *)
(*                                                                          *)
(* ListStuckPaid has a LIMIT, so payments that keep failing may keep others *)
(* from the list.  The stamps in paid_at make a queue that nobody jumps:    *)
(* what stands before a payment when it is confirmed is all that ever will. *)

Stamped == {q \in Payments : paidAt[q] > 0}
StuckNow == {p \in Payments : status[p] \in Intermediate}

\* The stuck payments that ListStuckPaid has before p.
Ahead(p) == {q \in StuckNow : OlderThan(q, p)}

\* A payment is stamped once, when it is confirmed, and no two have one stamp.
Stamps ==
    /\ \A p \in Payments : paidAt[p] > 0 <=> status[p] \in Intermediate \cup {"paid"}
    /\ \A p, q \in Stamped : paidAt[p] = paidAt[q] => p = q
    /\ \A p \in Payments : paidAt[p] <= Cardinality(Stamped)

\* The sentinel's list: no more than BatchLimit payments, all of them confirmed.
BatchInv == /\ IsFiniteSet(batch) /\ Cardinality(batch) <= BatchLimit
            /\ \A p \in batch : paidAt[p] > 0

\* A set of payments is counted, and no larger than all of them.
LEMMA CountPayments ==
    ASSUME NEW S \in SUBSET Payments
    PROVE  /\ IsFiniteSet(S)
           /\ Cardinality(S) \in Nat /\ Cardinality(Payments) \in Nat
           /\ Cardinality(S) <= Cardinality(Payments)
BY WorkersAssumption, FS_Subset, FS_CardinalityType

\* In a finite set something is smallest: the strict subsets of a finite set are
\* well-founded, and what is below x grows with x.
LEMMA Smallest ==
    ASSUME NEW S, IsFiniteSet(S), S # {}, NEW f \in [S -> Int]
    PROVE  \E x \in S : \A y \in S : f[x] <= f[y]
<1> DEFINE Below(x) == {y \in S : f[y] < f[x]}
           T == {Below(x) : x \in S}
           R == StrictSubsetOrdering(S)
<1>1. \A x \in S : Below(x) \subseteq S /\ IsFiniteSet(Below(x))
  BY FS_Subset
<1>2. T \subseteq FiniteSubsetsOf(S) /\ T # {}
  <2> HIDE DEF Below
  <2>1. T # {}
    OBVIOUS
  <2>2. ASSUME NEW x \in S PROVE Below(x) \in FiniteSubsetsOf(S)
    BY <1>1 DEF FiniteSubsetsOf
  <2> QED
    BY <2>1, <2>2
<1>3. IsWellFoundedOn(R, FiniteSubsetsOf(S))
  BY FS_StrictSubsetOrderingWellFounded
<1>4. PICK X \in T : \A Y \in T : ~(<<Y, X>> \in R)
  <2> HIDE DEF T, R
  <2> QED
    BY <1>2, <1>3, WFMin
<1>5. PICK x \in S : X = Below(x)
  OBVIOUS
<1>6. ASSUME NEW y \in S, f[y] < f[x]
      PROVE  FALSE
  <2>1. Below(y) \subseteq Below(x) /\ y \in Below(x) /\ y \notin Below(y)
    BY <1>6
  <2>2. <<Below(y), Below(x)>> \in R
    BY <2>1 DEF StrictSubsetOrdering
  <2> QED
    BY <1>4, <1>5, <2>2
<1> QED
  BY <1>6

\* ORDER BY paid_at LIMIT BatchLimit: payments that are stamped differently come
\* in one order, and the list ends after BatchLimit of them.
LEMMA OldestFacts ==
    ASSUME TypeOK, NEW S \in SUBSET Stamped,
           \A p, q \in Stamped : paidAt[p] = paidAt[q] => p = q
    PROVE  /\ S # {} => Oldest(S) # {}
           /\ Oldest(S) \subseteq S /\ IsFiniteSet(Oldest(S))
           /\ Cardinality(Oldest(S)) <= BatchLimit
<1>1. S \subseteq Payments /\ Oldest(S) \subseteq S /\ Oldest(S) \in SUBSET Payments
  BY DEF Stamped, Oldest
<1>2. IsFiniteSet(S) /\ IsFiniteSet(Oldest(S)) /\ Cardinality(Oldest(S)) \in Nat
  BY <1>1, CountPayments
<1>3. BatchLimit \in Nat \ {0}
  BY BoundsAssumption
<1>4. ASSUME S # {} PROVE Oldest(S) # {}
  <2>1. [p \in S |-> paidAt[p]] \in [S -> Int]
    BY <1>1 DEF TypeOK
  <2>2. PICK p \in S : \A q \in S : paidAt[p] <= paidAt[q]
    BY <1>2, <1>4, <2>1, Smallest
  <2>3. \A q \in S : paidAt[q] \in Nat
    BY <1>1 DEF TypeOK
  <2>4. {q \in S : OlderThan(q, p)} = {}
    BY <2>2, <2>3 DEF OlderThan
  <2>5. Cardinality({q \in S : OlderThan(q, p)}) < BatchLimit
    BY <1>3, <2>4, FS_EmptySet
  <2> QED
    BY <2>5 DEF Oldest
<1>5. ASSUME Oldest(S) # {} PROVE Cardinality(Oldest(S)) <= BatchLimit
  <2> DEFINE O == Oldest(S)
  <2>0. \A q \in O : paidAt[q] \in Nat /\ q \in Stamped
    BY <1>1 DEF TypeOK
  <2>1. [p \in O |-> -paidAt[p]] \in [O -> Int]
    BY <2>0
  <2>2. PICK p \in O : \A q \in O : -paidAt[p] <= -paidAt[q]
    BY <1>2, <1>5, <2>1, Smallest
  <2>3. \A q \in O \ {p} : OlderThan(q, p)
    BY <2>0, <2>2 DEF OlderThan
  <2>4. Cardinality({q \in S : OlderThan(q, p)}) < BatchLimit
    BY DEF Oldest
  <2>5. O \ {p} \subseteq {q \in S : OlderThan(q, p)}
    BY <1>1, <2>3
  <2>6. {q \in S : OlderThan(q, p)} \in SUBSET Payments
    BY <1>1
  <2>7. /\ Cardinality(O \ {p}) <= Cardinality({q \in S : OlderThan(q, p)})
        /\ Cardinality({q \in S : OlderThan(q, p)}) \in Nat
    BY <2>5, <2>6, CountPayments, FS_Subset
  <2>8. Cardinality(O \ {p}) = Cardinality(O) - 1
    BY <1>2, FS_RemoveElement
  <2> QED
    BY <1>2, <1>3, <2>4, <2>7, <2>8
<1>6. Oldest(S) = {} => Cardinality(Oldest(S)) <= BatchLimit
  BY <1>3, FS_EmptySet
<1> QED
  BY <1>1, <1>2, <1>4, <1>5, <1>6

\* A payment that is stamped keeps its stamp, and who is stamped later comes
\* behind it.
QueueGrows ==
    \A p \in Stamped : /\ paidAt'[p] = paidAt[p]
                       /\ \A q \in Stamped' \ Stamped : OlderThan(p, q)'

\* A step that stamps nobody and leaves every payment confirmed or not.
LEMMA NoStamp ==
    ASSUME TypeOK, Stamps, paidAt' = paidAt,
           \A p \in Payments : status'[p] \in Intermediate \cup {"paid"}
                                   <=> status[p] \in Intermediate \cup {"paid"}
    PROVE  Stamps' /\ QueueGrows
<1>1. Stamped' = Stamped
  BY DEF Stamped
<1> QED
  BY <1>1 DEF Stamps, QueueGrows

\* A conditional UPDATE of a confirmed payment, or of one that is given up.
LEMMA MoveStamps ==
    ASSUME TypeOK, Stamps, NEW p \in Payments, NEW from, NEW to,
           MoveStatus(p, from, to), paidAt' = paidAt,
           from \in Intermediate \cup {"paid"} <=> to \in Intermediate \cup {"paid"}
    PROVE  Stamps' /\ QueueGrows
BY NoStamp DEF MoveStatus, TypeOK

\* The stamp is one more than the number of stamps, so it is the largest.
LEMMA NewStamp ==
    ASSUME TypeOK, Stamps, NEW w \in Workers, MarkPaidDBOnly(w)
    PROVE  Stamps' /\ QueueGrows
<1> DEFINE p == Pay(w)
           n == Cardinality(Stamped)
<1>1. p \in Payments
  BY StepPay DEF MarkPaidDBOnly, Steps
<1>2. CASE status[p] # "pending"
  <2>1. status' = status /\ paidAt' = paidAt
    BY <1>2 DEF MarkPaidDBOnly, MoveStatus
  <2> QED
    BY <2>1, NoStamp
<1>3. CASE status[p] = "pending"
  <2>1. /\ status' = [status EXCEPT ![p] = "paid_db_only"]
        /\ paidAt' = [paidAt EXCEPT ![p] = 1 + n]
    BY <1>3 DEF MarkPaidDBOnly, MoveStatus, Stamped
  <2>2. n \in Nat /\ IsFiniteSet(Stamped) /\ Stamped \subseteq Payments
    BY CountPayments DEF Stamped
  <2>3. p \notin Stamped
    BY <1>3 DEF Stamps, Stamped, Intermediate
  <2> HIDE DEF p, n
  <2>4. /\ paidAt'[p] = 1 + n
        /\ \A q \in Payments \ {p} : paidAt'[q] = paidAt[q] /\ status'[q] = status[q]
        /\ status'[p] = "paid_db_only"
        /\ \A q \in Payments : paidAt[q] \in Nat
    BY <1>1, <2>1 DEF TypeOK
  <2>5. Stamped' = Stamped \cup {p}
    BY <1>1, <2>2, <2>4 DEF Stamped
  <2>6. Cardinality(Stamped') = n + 1
    BY <2>2, <2>3, <2>5, FS_AddElement DEF n
  <2>7. \A q \in Stamped : /\ q \in Payments /\ q # p /\ paidAt'[q] = paidAt[q]
                           /\ paidAt[q] <= n /\ paidAt[q] \in Nat
    BY <2>2, <2>3, <2>4 DEF Stamps, n
  <2>8. \A q \in Payments : paidAt'[q] > 0 <=> status'[q] \in Intermediate \cup {"paid"}
    BY <2>2, <2>4 DEF Stamps, Intermediate
  <2>9. \A q, r \in Stamped' : paidAt'[q] = paidAt'[r] => q = r
    BY <2>2, <2>4, <2>5, <2>7 DEF Stamps
  <2>10. \A q \in Payments : paidAt'[q] <= Cardinality(Stamped')
    BY <2>2, <2>4, <2>6 DEF Stamps, n
  <2>11. QueueGrows
    BY <2>2, <2>4, <2>5, <2>7 DEF QueueGrows, OlderThan
  <2> QED
    BY <2>8, <2>9, <2>10, <2>11 DEF Stamps
<1> QED
  BY <1>2, <1>3

LEMMA StampStep == TypeOK /\ Stamps /\ [Next]_vars => Stamps' /\ QueueGrows
<1> SUFFICES ASSUME TypeOK, Stamps, [Next]_vars PROVE Stamps' /\ QueueGrows
  OBVIOUS
<1>1. ASSUME UNCHANGED rows PROVE Stamps' /\ QueueGrows
  BY <1>1, NoStamp DEF rows
<1>2. ASSUME NEW w \in Workers, Advance(w) PROVE Stamps' /\ QueueGrows
  <2>0. ASSUME NEW step \in Steps, At(w, step) PROVE Pay(w) \in Payments
    BY <2>0, StepPay
  <2>1. CASE MarkPaidDBOnly(w)
    BY <2>1, NewStamp
  <2>2. CASE MarkSubscriptionDone(w)
    <3>1. Pay(w) \in Payments
      BY <2>0, <2>2 DEF MarkSubscriptionDone, Steps
    <3> QED
      BY <2>2, <3>1, MoveStamps DEF MarkSubscriptionDone, Intermediate
  <2>3. CASE MarkComplete(w)
    <3>1. Pay(w) \in Payments
      BY <2>0, <2>3 DEF MarkComplete, Steps
    <3> QED
      BY <2>3, <3>1, MoveStamps DEF MarkComplete, Intermediate
  <2>4. CASE MarkCancelled(w)
    <3>1. Pay(w) \in Payments
      BY <2>0, <2>4 DEF MarkCancelled, Steps
    <3> QED
      BY <2>4, <3>1, MoveStamps DEF MarkCancelled, Intermediate
  <2>5. CASE MarkFailed(w)
    <3>1. Pay(w) \in Payments
      BY <2>0, <2>5 DEF MarkFailed, Steps
    <3> QED
      BY <2>5, <3>1, MoveStamps DEF MarkFailed, Intermediate
  <2>6. CASE CreateSubscription(w) \/ CreateVPNUser(w) \/ ResolveUser(w)
    BY <1>1, <2>6 DEF CreateSubscription, CreateVPNUser, ResolveUser
  <2> QED
    BY <1>2, <2>1, <2>2, <2>3, <2>4, <2>5, <2>6 DEF Advance
<1>3. CASE \/ \E w \in Webhooks, e \in Events, p \in Payments : HandleWebhook(w, e, p)
           \/ \E w \in Sentinels, cutoff \in 1 .. Cardinality(Payments) :
                SentinelTick(w, cutoff)
           \/ \E w \in Sentinels, p \in Payments : SentinelResume(w, p)
           \/ \E w \in Workers : \/ CreateSubscriptionReplyLost(w)
                                 \/ CreateVPNUserUnregistered(w) \/ StepFails(w)
           \/ \E g \in goroutines : GoroutineCalls(g) \/ GoroutineGivesUp(g)
           \/ Crash \/ UNCHANGED vars
  BY <1>1, <1>3 DEF HandleWebhook, SentinelTick, SentinelResume, StepFails,
     CreateSubscriptionReplyLost, CreateVPNUserUnregistered,
     GoroutineCalls, GoroutineGivesUp, Crash, vars
<1> QED
  BY <1>2, <1>3 DEF Next

\* The sentinel makes a list, takes from it or loses it in a crash.
LEMMA BatchStep ==
    ASSUME TypeOK, Stamps, BatchInv, QueueGrows, [Next]_vars
    PROVE  BatchInv'
<1>0. BatchLimit \in Nat \ {0} /\ batch \subseteq Payments
  BY BoundsAssumption DEF TypeOK
<1>1. \A p \in Payments : paidAt[p] > 0 => paidAt'[p] > 0
  BY DEF QueueGrows, Stamped
<1>2. ASSUME batch' \subseteq batch PROVE BatchInv'
  <2>1. /\ IsFiniteSet(batch') /\ Cardinality(batch') <= Cardinality(batch)
        /\ Cardinality(batch') \in Nat /\ Cardinality(batch) \in Nat
    BY <1>2, FS_Subset, FS_CardinalityType DEF BatchInv
  <2> QED
    BY <1>0, <1>1, <1>2, <2>1 DEF BatchInv
<1>3. CASE \E w \in Sentinels, cutoff \in 1 .. Cardinality(Payments) :
             SentinelTick(w, cutoff)
  <2> PICK w \in Sentinels, cutoff \in 1 .. Cardinality(Payments) :
             SentinelTick(w, cutoff)
    BY <1>3
  <2>1. batch' = Oldest(Stuck(cutoff)) /\ paidAt' = paidAt
    BY DEF SentinelTick, rows
  <2>2. Stuck(cutoff) \in SUBSET Stamped
    BY DEF Stuck, Stamped, Stamps
  <2>3. /\ Oldest(Stuck(cutoff)) \subseteq Stamped /\ IsFiniteSet(Oldest(Stuck(cutoff)))
        /\ Cardinality(Oldest(Stuck(cutoff))) <= BatchLimit
    BY <2>2, OldestFacts DEF Stamps
  <2> QED
    BY <2>1, <2>3 DEF BatchInv, Stamped
<1>4. CASE UNCHANGED batch
  BY <1>2, <1>4
<1>5. CASE \E w \in Sentinels, p \in Payments : SentinelResume(w, p)
  BY <1>2, <1>5 DEF SentinelResume
<1>6. CASE Crash
  BY <1>2, <1>6 DEF Crash
<1>7. CASE \/ \E w \in Webhooks, e \in Events, p \in Payments : HandleWebhook(w, e, p)
           \/ \E w \in Workers : \/ Advance(w) \/ CreateSubscriptionReplyLost(w)
                                 \/ CreateVPNUserUnregistered(w) \/ StepFails(w)
           \/ \E g \in goroutines : GoroutineCalls(g) \/ GoroutineGivesUp(g)
           \/ UNCHANGED vars
  BY <1>4, <1>7 DEF HandleWebhook, StepFails, CreateSubscriptionReplyLost,
     CreateVPNUserUnregistered, GoroutineCalls, GoroutineGivesUp, vars, Advance,
     MarkPaidDBOnly, CreateSubscription, MarkSubscriptionDone, CreateVPNUser,
     MarkComplete, ResolveUser, MarkCancelled, MarkFailed
<1> QED
  BY <1>3, <1>5, <1>6, <1>7 DEF Next

LEMMA QueueInvariant == Spec => [](TypeOK /\ Stamps /\ BatchInv)
<1>1. Init => TypeOK /\ Stamps /\ BatchInv
  <2> SUFFICES ASSUME Init PROVE TypeOK /\ Stamps /\ BatchInv
    OBVIOUS
  <2>1. TypeOK
    BY InvInit DEF IInv
  <2>2. BatchInv
    BY FS_EmptySet, BoundsAssumption DEF Init, BatchInv
  <2>3. Cardinality(Stamped) \in Nat
    BY CountPayments DEF Stamped
  <2>4. Stamps
    BY <2>3 DEF Init, Stamps, Stamped, Intermediate
  <2> QED
    BY <2>1, <2>2, <2>4
<1>2. (TypeOK /\ Stamps /\ BatchInv) /\ [Next]_vars => (TypeOK /\ Stamps /\ BatchInv)'
  BY TypeStep, StampStep, BatchStep
<1> QED
  BY <1>1, <1>2, PTL DEF Spec

\* ListStuckPaid, asked for payments of any age, knows every stuck payment; its
\* list leaves out those that have BatchLimit others before them, and is empty
\* only when nothing is stuck.
SentinelSees ==
    LET stuck == Stuck(Cardinality(Payments))
    IN  /\ stuck = StuckNow
        /\ \A p \in stuck : p \in Oldest(stuck) <=> Cardinality(Ahead(p)) < BatchLimit
        /\ stuck # {} => Oldest(stuck) # {}
        /\ Cardinality(Oldest(stuck)) <= BatchLimit /\ Cardinality(batch) <= BatchLimit

\* No stuck payment is out of the sentinel's sight.
THEOREM SeesStuck == Spec => []SentinelSees
<1>1. TypeOK /\ Stamps /\ BatchInv => SentinelSees
  <2> SUFFICES ASSUME TypeOK, Stamps, BatchInv PROVE SentinelSees
    OBVIOUS
  <2> DEFINE stuck == Stuck(Cardinality(Payments))
  <2>1. stuck = StuckNow
    <3>1. /\ Cardinality(Stamped) <= Cardinality(Payments)
          /\ Cardinality(Stamped) \in Nat /\ Cardinality(Payments) \in Nat
      BY CountPayments DEF Stamped
    <3>2. \A p \in Payments : paidAt[p] \in Nat /\ paidAt[p] <= Cardinality(Stamped)
      BY DEF Stamps, TypeOK
    <3>3. \A p \in Payments : paidAt[p] <= Cardinality(Payments)
      BY <3>1, <3>2
    <3> QED
      BY <3>3 DEF Stuck, StuckNow
  <2> HIDE DEF stuck
  <2>2. stuck \in SUBSET Stamped
    BY <2>1 DEF StuckNow, Stamped, Stamps
  <2>3. /\ stuck # {} => Oldest(stuck) # {}
        /\ Cardinality(Oldest(stuck)) <= BatchLimit
    BY <2>2, OldestFacts DEF Stamps
  <2>4. \A p \in stuck : p \in Oldest(stuck) <=> Cardinality(Ahead(p)) < BatchLimit
    BY <2>1 DEF Oldest, Ahead
  <2> QED
    BY <2>1, <2>3, <2>4 DEF SentinelSees, BatchInv, stuck
<1> QED
  BY <1>1, QueueInvariant, PTL

\* The payments that stand before a stuck one only become fewer: those that keep
\* failing hold up later ones for as long as they fail, and no newcomer adds to
\* that.
THEOREM NoOvertaking ==
    Spec => [][\A p \in Payments :
                 status[p] \in Intermediate => Ahead(p)' \subseteq Ahead(p)]_vars
<1>1. TypeOK /\ Stamps /\ [Next]_vars =>
        [\A p \in Payments : status[p] \in Intermediate => Ahead(p)' \subseteq Ahead(p)]_vars
  <2> SUFFICES ASSUME TypeOK, Stamps, [Next]_vars,
                      NEW p \in Payments, status[p] \in Intermediate,
                      NEW q \in Ahead(p)'
               PROVE  q \in Ahead(p)
    OBVIOUS
  <2>1. Stamps' /\ QueueGrows /\ TypeOK'
    BY StampStep, TypeStep
  <2>2. p \in Stamped
    BY DEF Stamps, Stamped
  <2>3. q \in Payments /\ status'[q] \in Intermediate /\ OlderThan(q, p)'
    BY DEF Ahead, StuckNow
  <2>4. q \in Stamped'
    BY <2>1, <2>3 DEF Stamps, Stamped
  <2>5. ~OlderThan(p, q)'
    <3>1. paidAt'[p] \in Nat /\ paidAt'[q] \in Nat
      BY <2>1, <2>3 DEF TypeOK
    <3> QED
      BY <2>3, <3>1 DEF OlderThan
  <2>6. q \in Stamped
    BY <2>1, <2>2, <2>4, <2>5 DEF QueueGrows
  <2>7. OlderThan(q, p)
    BY <2>1, <2>2, <2>3, <2>6 DEF QueueGrows, OlderThan
  <2>8. status[q] \in Intermediate
    <3>1. status[q] \in Intermediate \cup {"paid"}
      BY <2>3, <2>6 DEF Stamps, Stamped
    <3>2. status[q] = "paid" => status'[q] = "paid"
      BY <2>3, NextProgress DEF Progress, Final
    <3> QED
      BY <2>3, <3>1, <3>2 DEF Intermediate
  <2> QED
    BY <2>3, <2>7, <2>8 DEF Ahead, StuckNow
<1> QED
  BY <1>1, QueueInvariant, PTL DEF Spec

\* A payment whose turn comes is taken up where it stands, unless it has been
\* completed meanwhile: the branch of handleSuccessfulPayment for a checkpoint
\* that cannot be resumed from is never reached.
THEOREM StuckIsResumed ==
    Spec => [][\A w \in Sentinels, p \in Payments :
                 SentinelResume(w, p) =>
                    \/ status[p] = "paid"
                    \/ /\ status[p] \in Intermediate
                       /\ worker'[w].pc = FirstStep[status[p]]
                       /\ worker'[w].pay = p]_vars
<1>1. ASSUME TypeOK, Stamps, BatchInv, CheckpointRecoverable,
             NEW w \in Sentinels, NEW p \in Payments, SentinelResume(w, p)
      PROVE  \/ status[p] = "paid"
             \/ /\ status[p] \in Intermediate
                /\ worker'[w].pc = FirstStep[status[p]]
                /\ worker'[w].pay = p
  <2>1. status[p] \in Intermediate \cup {"paid"}
    BY <1>1 DEF SentinelResume, BatchInv, Stamps
  <2>2. CASE status[p] \in Intermediate
    <3>1. status[p] \notin Final /\ (status[p] = "paid_subscription_done" => p \in subIdKept)
      BY <1>1, <2>2 DEF Intermediate, Final, CheckpointRecoverable
    <3>2. PICK known \in BOOLEAN :
             worker' = [worker EXCEPT ![w] = [pc |-> FirstStep[status[p]],
                                              pay |-> p, planKnown |-> known]]
      BY <1>1, <3>1 DEF SentinelResume, ReadForPaid
    <3>3. worker'[w] = [pc |-> FirstStep[status[p]], pay |-> p, planKnown |-> known]
      BY <1>1, <3>2 DEF TypeOK, Workers
    <3> QED
      BY <2>2, <3>3
  <2> QED
    BY <2>1, <2>2
<1>2. TypeOK /\ Stamps /\ BatchInv /\ CheckpointRecoverable =>
        [\A w \in Sentinels, p \in Payments :
           SentinelResume(w, p) =>
              \/ status[p] = "paid"
              \/ /\ status[p] \in Intermediate
                 /\ worker'[w].pc = FirstStep[status[p]]
                 /\ worker'[w].pay = p]_vars
  BY <1>1
<1> QED
  BY <1>2, QueueInvariant, Recoverable, PTL DEF Spec

\* Steps that a handler has before it, at most.
StepsLeft == [mark_paid |-> 6, create_sub |-> 5, mark_sub |-> 4, create_vpn |-> 3,
              mark_complete |-> 2, resolve_user |-> 1, mark_cancelled |-> 1,
              mark_failed |-> 1]
PaidSteps == Steps \ {"mark_cancelled", "mark_failed"}

\* Handler w stays where it is, comes nearer its end, or ends: after a failure,
\* or with its paid event carried out.
Moves(w) ==
    \/ worker'[w] = worker[w]
    \/ /\ worker'[w] # Idle /\ worker'[w].pay = Pay(w)
       /\ StepsLeft[worker'[w].pc] < StepsLeft[worker[w].pc]
    \/ /\ worker'[w] = Idle
       /\ \/ faults' = faults + 1
          \/ worker[w].pc \in PaidSteps => status'[Pay(w)] \in Final

\* A handler moves by its own next step.
LEMMA AdvanceMoves ==
    ASSUME IInv, NEW w \in Workers, Advance(w)
    PROVE  Moves(w) /\ \A v \in Workers \ {w} : worker'[v] = worker[v]
<1>t. TypeOK /\ StepInv(w)
  BY DEF IInv
<1>0. ASSUME NEW step \in Steps, At(w, step) PROVE worker[w] \in Busy /\ Pay(w) \in Payments
  BY <1>t, <1>0, StepPay
<1>1. ASSUME NEW from \in Steps, At(w, from), NEW to \in Steps, Goto(w, to),
             StepsLeft[to] < StepsLeft[from]
      PROVE  Moves(w) /\ \A v \in Workers \ {w} : worker'[v] = worker[v]
  <2>1. worker[w] \in Busy
    BY <1>0, <1>1
  <2>2. /\ worker'[w].pc = to /\ worker'[w].pay = worker[w].pay
        /\ \A v \in Workers \ {w} : worker'[v] = worker[v]
    BY <1>t, <1>1, <2>1, GotoFacts
  <2>3. worker'[w] # Idle
    BY <2>2 DEF Idle, Steps
  <2> QED
    BY <1>1, <2>2, <2>3 DEF Moves, At, Pay
<1>2. ASSUME NEW event, NEW p, Succeed(w, event, p),
             worker[w].pc \in PaidSteps => status'[Pay(w)] \in Final
      PROVE  Moves(w) /\ \A v \in Workers \ {w} : worker'[v] = worker[v]
  BY <1>t, <1>2 DEF Succeed, Moves, TypeOK
<1>3. CASE MarkPaidDBOnly(w)
  BY <1>3, <1>1 DEF MarkPaidDBOnly, Steps, StepsLeft
<1>4. CASE CreateSubscription(w)
  <2>1. worker[w] \in Busy /\ At(w, "create_sub")
    BY <1>0, <1>4 DEF CreateSubscription, Steps
  <2>2. /\ worker'[w].pc = "mark_sub" /\ worker'[w].pay = worker[w].pay
        /\ \A v \in Workers \ {w} : worker'[v] = worker[v]
    BY <1>t, <1>4, <2>1, ReplyFacts
  <2>3. worker'[w] # Idle
    BY <2>2 DEF Idle
  <2> QED
    BY <2>1, <2>2, <2>3 DEF Moves, At, Pay, StepsLeft
<1>5. CASE MarkSubscriptionDone(w)
  BY <1>5, <1>1 DEF MarkSubscriptionDone, Steps, StepsLeft
<1>6. CASE CreateVPNUser(w)
  BY <1>6, <1>1 DEF CreateVPNUser, Steps, StepsLeft
<1>7. CASE MarkComplete(w)
  <2>1. At(w, "mark_complete") /\ Pay(w) \in Payments
    BY <1>0, <1>7 DEF MarkComplete, Steps
  <2>2. status'[Pay(w)] \in Final
    BY <1>t, <1>7, <2>1 DEF MarkComplete, MoveStatus, StepInv, TypeOK, Status, Final, Intermediate
  <2>3. CASE Goto(w, "resolve_user")
    BY <2>1, <2>3, <1>1 DEF Steps, StepsLeft
  <2>4. CASE Succeed(w, "paid", Pay(w))
    BY <2>2, <2>4, <1>2
  <2> QED
    BY <1>7, <2>3, <2>4 DEF MarkComplete
<1>8. CASE ResolveUser(w)
  <2>1. status'[Pay(w)] \in Final
    BY <1>t, <1>8 DEF ResolveUser, StepInv, rows
  <2> QED
    BY <1>8, <2>1, <1>2 DEF ResolveUser
<1>9. CASE MarkCancelled(w) \/ MarkFailed(w)
  <2>1. worker[w].pc \notin PaidSteps
    BY <1>9 DEF MarkCancelled, MarkFailed, At, PaidSteps
  <2> QED
    BY <1>9, <2>1, <1>2 DEF MarkCancelled, MarkFailed
<1> QED
  BY <1>3, <1>4, <1>5, <1>6, <1>7, <1>8, <1>9 DEF Advance

\* Every handler in progress comes nearer its end with each of its steps, is
\* disturbed by nobody but a crash, and, without a failure, ends with its payment
\* in a final status.
THEOREM HandlersEnd == Spec => [][\A w \in Workers : worker[w] # Idle => Moves(w)]_vars
<1>1. IInv /\ [Next]_vars => [\A w \in Workers : worker[w] # Idle => Moves(w)]_vars
  <2> SUFFICES ASSUME IInv, [Next]_vars, NEW w \in Workers, worker[w] # Idle
               PROVE  Moves(w)
    OBVIOUS
  <2>t. TypeOK
    BY DEF IInv
  <2>1. ASSUME worker'[w] = worker[w] PROVE Moves(w)
    BY <2>1 DEF Moves
  <2>2. ASSUME NEW v \in Workers, Advance(v) PROVE Moves(w)
    BY <2>1, <2>2, AdvanceMoves
  <2>3. ASSUME NEW v \in Workers, NEW x, worker' = [worker EXCEPT ![v] = x],
               worker[v] = Idle
        PROVE  Moves(w)
    BY <2>t, <2>1, <2>3 DEF TypeOK
  <2>4. ASSUME NEW v \in Workers, NEW p \in Payments, worker[v] = Idle, ReadForPaid(v, p)
        PROVE  Moves(w)
    BY <2>1, <2>3, <2>4 DEF ReadForPaid, Succeed
  <2>5. ASSUME NEW v \in Workers, Fail(v) PROVE Moves(w)
    BY <2>t, <2>1, <2>5 DEF Fail, Fault, Moves, TypeOK
  <2>6. CASE \E v \in Webhooks, e \in Events, p \in Payments : HandleWebhook(v, e, p)
    <3> PICK v \in Webhooks, e \in Events, p \in Payments : HandleWebhook(v, e, p)
      BY <2>6
    <3>1. v \in Workers /\ worker[v] = Idle
      BY DEF HandleWebhook, Workers
    <3> QED
      BY <3>1, <2>3, <2>4 DEF HandleWebhook, Succeed
  <2>7. CASE \E v \in Sentinels, p \in Payments : SentinelResume(v, p)
    BY <2>4, <2>7 DEF SentinelResume, Workers
  <2>8. CASE \E v \in Workers : \/ CreateSubscriptionReplyLost(v)
                                \/ CreateVPNUserUnregistered(v) \/ StepFails(v)
    BY <2>5, <2>8 DEF CreateSubscriptionReplyLost, CreateVPNUserUnregistered, StepFails
  <2>9. CASE Crash
    BY <2>9 DEF Crash, Fault, Moves
  <2>10. CASE \/ \E v \in Sentinels, cutoff \in 1 .. Cardinality(Payments) :
                   SentinelTick(v, cutoff)
              \/ \E g \in goroutines : GoroutineCalls(g) \/ GoroutineGivesUp(g)
              \/ UNCHANGED vars
    BY <2>1, <2>10 DEF SentinelTick, GoroutineCalls, GoroutineGivesUp, vars
  <2> QED
    BY <2>2, <2>6, <2>7, <2>8, <2>9, <2>10 DEF Next
<1> QED
  BY <1>1, Invariant, PTL DEF Spec
=============================================================================
