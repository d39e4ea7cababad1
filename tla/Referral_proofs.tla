--------------------------- MODULE Referral_proofs ---------------------------
(***************************************************************************)
(* Theorems about Referral, for any users, payments, shares, amounts,      *)
(* handlers, and numbers of calls and failures.                            *)
(***************************************************************************)
EXTENDS Referral, FiniteSetTheorems, FunctionTheorems, TLAPS

-----------------------------------------------------------------------------
(* What a handler may be, and what a move of one handler leaves alone.      *)

\* The kind of a process tells which record it is.
LEMMA KindTells ==
    ASSUME NEW p \in Process
    PROVE  /\ p.kind = "idle" <=> p = Idle
           /\ p.kind = "register" <=> p \in Registering
           /\ p.kind = "apply" <=> p \in Applying
           /\ p.kind = "withdraw" <=> p \in Withdrawing
           /\ p.kind \in {"idle", "register", "apply", "withdraw"}
BY DEF Process, Idle, Registering, Applying, Withdrawing

\* Moving a process to another step of its kind changes nothing else in it.
LEMMA GotoRegister ==
    ASSUME TypeOK, NEW h \in Handlers, proc[h].kind = "register",
           NEW pc \in {"record", "give", "mark"}, Goto(h, pc)
    PROVE  /\ proc' \in [Handlers -> Process]
           /\ proc'[h] \in Registering
           /\ proc'[h].pc = pc /\ proc'[h].from = proc[h].from
           /\ proc'[h].to = proc[h].to /\ proc'[h].recipient = proc[h].recipient
           /\ \A k \in Handlers \ {h} : proc'[k] = proc[k]
<1>1. proc[h] \in Registering
  BY KindTells DEF TypeOK
<1>2. [proc[h] EXCEPT !.pc = pc] \in Registering
  BY <1>1 DEF Registering
<1> QED
  BY <1>1, <1>2 DEF TypeOK, Goto, Process, Registering

LEMMA GotoApply ==
    ASSUME TypeOK, NEW h \in Handlers, proc[h].kind = "apply",
           NEW pc \in {"give", "mark", "purchased", "campaign"}, Goto(h, pc)
    PROVE  /\ proc' \in [Handlers -> Process]
           /\ proc'[h] \in Applying
           /\ proc'[h].pc = pc /\ proc'[h].pay = proc[h].pay
           /\ proc'[h].channel = proc[h].channel
           /\ proc'[h].partner = proc[h].partner
           /\ \A k \in Handlers \ {h} : proc'[k] = proc[k]
<1>1. proc[h] \in Applying
  BY KindTells DEF TypeOK
<1>2. [proc[h] EXCEPT !.pc = pc] \in Applying
  BY <1>1 DEF Applying
<1> QED
  BY <1>1, <1>2 DEF TypeOK, Goto, Process, Applying

LEMMA GotoCommit ==
    ASSUME TypeOK, NEW h \in Handlers, proc[h].kind = "withdraw", Goto(h, "commit")
    PROVE  /\ proc' \in [Handlers -> Process]
           /\ proc'[h] \in Withdrawing
           /\ proc'[h].pc = "commit" /\ proc'[h].user = proc[h].user
           /\ proc'[h].amount = proc[h].amount
           /\ \A k \in Handlers \ {h} : proc'[k] = proc[k]
<1>1. proc[h] \in Withdrawing
  BY KindTells DEF TypeOK
<1>2. [proc[h] EXCEPT !.pc = "commit"] \in Withdrawing
  BY <1>1 DEF Withdrawing
<1> QED
  BY <1>1, <1>2 DEF TypeOK, Goto, Process, Withdrawing

LEMMA EndFacts ==
    ASSUME TypeOK, NEW h \in Handlers, End(h)
    PROVE  /\ proc' \in [Handlers -> Process]
           /\ proc'[h] = Idle
           /\ \A k \in Handlers \ {h} : proc'[k] = proc[k]
BY DEF TypeOK, End, Process

LEMMA CallFacts ==
    ASSUME TypeOK, NEW h \in Handlers, NEW p \in Process, Call(h, p)
    PROVE  /\ proc' \in [Handlers -> Process]
           /\ proc[h] = Idle /\ proc'[h] = p
           /\ \A k \in Handlers \ {h} : proc'[k] = proc[k]
           /\ calls' \in 0..MaxCalls
BY BoundsAssumption DEF TypeOK, Call

LEMMA NextRecipientFacts ==
    ASSUME TypeOK, NEW h \in Handlers, proc[h].kind = "register", NextRecipient(h)
    PROVE  /\ proc' \in [Handlers -> Process]
           /\ \A k \in Handlers \ {h} : proc'[k] = proc[k]
           /\ \/ proc'[h] = Idle
              \/ /\ proc[h].recipient = proc[h].to
                 /\ proc'[h] \in Registering /\ proc'[h].pc = "record"
                 /\ proc'[h].from = proc[h].from /\ proc'[h].to = proc[h].to
                 /\ proc'[h].recipient = proc[h].from
<1>1. proc[h] \in Registering
  BY KindTells DEF TypeOK
<1>2. CASE End(h)
  BY <1>2, EndFacts
<1>3. CASE /\ proc[h].recipient = proc[h].to
           /\ proc' = [proc EXCEPT ![h].recipient = proc[h].from, ![h].pc = "record"]
  <2> DEFINE next == [proc[h] EXCEPT !.recipient = proc[h].from, !.pc = "record"]
  <2>1. /\ next \in Registering /\ next.pc = "record" /\ next.from = proc[h].from
        /\ next.to = proc[h].to /\ next.recipient = proc[h].from
    BY <1>1 DEF Registering
  <2>2. proc' = [proc EXCEPT ![h] = next]
    BY <1>1, <1>3 DEF TypeOK, Registering
  <2> HIDE DEF next
  <2> QED
    BY <1>3, <2>1, <2>2 DEF TypeOK, Process
<1> QED
  BY <1>2, <1>3 DEF NextRecipient

LEMMA NextChannelFacts ==
    ASSUME TypeOK, NEW h \in Handlers, proc[h].kind = "apply", NextChannel(h)
    PROVE  /\ proc' \in [Handlers -> Process]
           /\ \A k \in Handlers \ {h} : proc'[k] = proc[k]
           /\ \/ proc'[h] = Idle
              \/ proc'[h] \in Applying /\ proc'[h].pc = "purchased"
<1>1. CASE Goto(h, "purchased")
  BY <1>1, GotoApply
<1>2. CASE End(h)
  BY <1>2, EndFacts
<1> QED
  BY <1>1, <1>2 DEF NextChannel

LEMMA AttributionFacts ==
    ASSUME TypeOK, NEW h \in Handlers, ReadAttribution(h)
    PROVE  /\ proc' \in [Handlers -> Process]
           /\ \A k \in Handlers \ {h} : proc'[k] = proc[k]
           /\ \/ proc'[h] = Idle
              \/ /\ proc'[h] \in Applying /\ proc'[h].pc = "record"
                 /\ proc'[h].partner \in Users
<1> DEFINE partner == CampaignOf[UserOf[proc[h].pay]]
           next == [proc[h] EXCEPT !.channel = "campaign", !.partner = partner,
                                   !.pc = "record"]
<1>1. proc[h] \in Applying
  BY KindTells DEF TypeOK, ReadAttribution, At
<1>2. partner \in Users \cup {None}
  BY <1>1, UsersAssumption DEF Applying
<1>3. CASE partner = None
  BY <1>3, EndFacts DEF ReadAttribution, GetCampaignAttribution
<1>4. CASE partner # None
  <2>1. next \in Applying /\ next.pc = "record" /\ next.partner \in Users
    BY <1>1, <1>2, <1>4 DEF Applying, Channels
  <2>2. proc' = [proc EXCEPT ![h] = next]
    BY <1>1, <1>4 DEF ReadAttribution, GetCampaignAttribution, TypeOK, Applying
  <2> HIDE DEF next
  <2> QED
    BY <2>1, <2>2 DEF TypeOK, Process
<1> QED
  BY <1>3, <1>4

\* A call's own reward is one that can be recorded.
LEMMA OwnReward ==
    ASSUME TypeOK, NEW h \in Handlers
    PROVE  /\ proc[h].kind = "register" => Gift(h) \in Gifts
           /\ proc[h].kind = "apply" => Credit(h) \in Credits
<1>1. proc[h] \in Process
  BY DEF TypeOK
<1> QED
  BY <1>1, KindTells DEF Gift, Gifts, Credit, Credits, Registering, Applying

-----------------------------------------------------------------------------
(* Types, and with them that no balance is overdrawn.                       *)

\* A call at work on a reward has recorded it, for a user.
AtWork ==
    \A h \in Handlers :
        /\ proc[h].kind = "register" /\ proc[h].pc \in {"give", "mark"}
               => Gift(h) \in gifts
        /\ proc[h].kind = "apply" /\ proc[h].pc \in {"record", "give", "mark"}
               => proc[h].partner \in Users
        /\ proc[h].kind = "apply" /\ proc[h].pc \in {"give", "mark"}
               => Credit(h) \in Recorded

\* A withdrawal that holds the lock can be paid, and holds it alone.
Solvent ==
    \A h \in Handlers : At(h, "withdraw", "commit") =>
        /\ proc[h].amount <= balance[proc[h].user]
        /\ \A k \in Handlers : At(k, "withdraw", "commit")
                               /\ proc[k].user = proc[h].user => k = h

LEMMA TypeStep ==
    ASSUME TypeOK, AtWork, Solvent, [Next]_vars
    PROVE  TypeOK'
<1> USE DEF people, days, money
<1>1. ASSUME NEW h \in Handlers, NEW u \in Users, NEW v \in Users,
             RegisterReferral(h, u, v)
      PROVE  TypeOK'
  <2> DEFINE p == [kind |-> "register", from |-> u, to |-> v, recipient |-> v,
                   rewardInviter |-> role[u] # "partner", pc |-> "relate"]
  <2>1. p \in Process
    BY DEF Process, Registering
  <2> HIDE DEF p
  <2>2. Call(h, p)
    BY <1>1 DEF RegisterReferral, p
  <2> QED
    BY <1>1, <2>1, <2>2, CallFacts DEF RegisterReferral, TypeOK, Recorded
<1>2. ASSUME NEW h \in Handlers, CreateRelationship(h) PROVE TypeOK'
  <2>1. proc[h] \in Registering
    BY <1>2, KindTells DEF TypeOK, CreateRelationship, At
  <2>2. proc' \in [Handlers -> Process]
    BY <1>2, GotoRegister, EndFacts DEF CreateRelationship, At
  <2>3. inviter' \in [Users -> Users \cup {None}]
    BY <1>2, <2>1 DEF CreateRelationship, TypeOK, Registering
  <2> QED
    BY <1>2, <2>2, <2>3 DEF CreateRelationship, TypeOK, Recorded
<1>3. ASSUME NEW h \in Handlers, RecordGift(h) PROVE TypeOK'
  BY <1>3, GotoRegister, OwnReward DEF RecordGift, TypeOK, Recorded, At
<1>4. ASSUME NEW h \in Handlers, GiveDays(h) PROVE TypeOK'
  <2>1. given' \in [Gifts -> Nat]
    BY <1>4, OwnReward DEF GiveDays, TypeOK, At
  <2> QED
    BY <1>4, <2>1, GotoRegister DEF GiveDays, TypeOK, Recorded, At
<1>5. ASSUME NEW h \in Handlers, MarkGift(h) PROVE TypeOK'
  <2>1. Gift(h) \in gifts
    BY <1>5 DEF MarkGift, AtWork, At
  <2> QED
    BY <1>5, <2>1, NextRecipientFacts DEF MarkGift, TypeOK, Recorded, At
<1>6. ASSUME NEW h \in Handlers, RegisterFails(h) PROVE TypeOK'
  BY <1>6, NextRecipientFacts, BoundsAssumption
     DEF RegisterFails, TypeOK, Recorded, Fault
<1>7. ASSUME NEW h \in Handlers, NEW p \in Payments, ApplyBonus(h, p) PROVE TypeOK'
  <2>1. UserOf[p] \in Users
    BY UsersAssumption
  <2>2. PICK q \in Process : Call(h, q)
    <3> DEFINE u == inviter[UserOf[p]]
               step == CASE u = None -> "campaign"
                         [] u # None /\ role[u] = "partner" -> "record"
                         [] OTHER -> "purchased"
               q == [kind |-> "apply", pay |-> p, channel |-> "referral",
                     partner |-> u, pc |-> step]
    <3>1. u \in Users \cup {None}
      BY <2>1 DEF TypeOK
    <3>2. step \in {"record", "give", "mark", "purchased", "campaign"}
      OBVIOUS
    <3>3. q \in Process
      BY <3>1, <3>2 DEF Process, Applying, Channels
    <3> QED
      BY <1>7, <3>3 DEF ApplyBonus
  <2> QED
    BY <1>7, <2>2, CallFacts DEF ApplyBonus, TypeOK, Recorded
<1>8. ASSUME NEW h \in Handlers, RecordCredit(h) PROVE TypeOK'
  <2>1. proc' \in [Handlers -> Process]
    BY <1>8, GotoApply, NextChannelFacts DEF RecordCredit, At
  <2>2. proc[h].partner \in Users
    BY <1>8 DEF RecordCredit, AtWork, At
  <2>3. credits' \in [Credits -> Users \cup {None}]
    BY <1>8, <2>2 DEF RecordCredit, TypeOK
  <2>4. Recorded \subseteq Recorded'
    BY <1>8, <2>2, UsersAssumption DEF RecordCredit, TypeOK, Recorded
  <2> QED
    BY <1>8, <2>1, <2>3, <2>4 DEF RecordCredit, TypeOK
<1>9. ASSUME NEW h \in Handlers, AddBalance(h) PROVE TypeOK'
  <2>1. proc[h] \in Applying /\ proc[h].partner \in Users
    BY <1>9, KindTells DEF AddBalance, AtWork, At, TypeOK
  <2>2. Share[proc[h].channel][proc[h].pay] \in Nat
    BY <2>1, MoneyAssumption DEF Applying
  <2>3. balance' \in [Users -> Nat]
    BY <1>9, <2>1, <2>2 DEF AddBalance, TypeOK
  <2> QED
    BY <1>9, <2>3, GotoApply DEF AddBalance, TypeOK, Recorded, At
<1>10. ASSUME NEW h \in Handlers, MarkCredit(h) PROVE TypeOK'
  <2>1. Credit(h) \in Recorded
    BY <1>10 DEF MarkCredit, AtWork, At
  <2> QED
    BY <1>10, <2>1, NextChannelFacts DEF MarkCredit, TypeOK, Recorded, At
<1>11. ASSUME NEW h \in Handlers, MarkPurchased(h) PROVE TypeOK'
  <2>1. UserOf[proc[h].pay] \in Users
    BY <1>11, KindTells, UsersAssumption DEF MarkPurchased, TypeOK, At, Applying
  <2> QED
    BY <1>11, <2>1, GotoApply DEF MarkPurchased, TypeOK, Recorded, At
<1>12. ASSUME NEW h \in Handlers, ReadAttribution(h) PROVE TypeOK'
  BY <1>12, AttributionFacts DEF ReadAttribution, TypeOK, Recorded
<1>13. ASSUME NEW h \in Handlers, ApplyFails(h) PROVE TypeOK'
  <2>1. proc' \in [Handlers -> Process]
    BY <1>13, GotoApply, NextChannelFacts DEF ApplyFails, IgnoredError, At
  <2> QED
    BY <1>13, <2>1, BoundsAssumption DEF ApplyFails, TypeOK, Recorded, Fault
<1>14. ASSUME NEW h \in Handlers, NEW u \in Users, NEW a \in Amounts,
              CreateWithdrawal(h, u, a)
       PROVE  TypeOK'
  <2> DEFINE p == [kind |-> "withdraw", user |-> u, amount |-> a, pc |-> "lock"]
  <2>1. p \in Process
    BY DEF Process, Withdrawing
  <2> HIDE DEF p
  <2>2. Call(h, p)
    BY <1>14 DEF CreateWithdrawal, p
  <2> QED
    BY <1>14, <2>1, <2>2, CallFacts DEF CreateWithdrawal, TypeOK, Recorded
<1>15. ASSUME NEW h \in Handlers, LockBalance(h) PROVE TypeOK'
  BY <1>15, GotoCommit, EndFacts DEF LockBalance, TypeOK, Recorded, At
<1>16. ASSUME NEW h \in Handlers, CommitWithdrawal(h) PROVE TypeOK'
  <2>1. proc[h] \in Withdrawing /\ proc[h].amount <= balance[proc[h].user]
    BY <1>16, KindTells DEF CommitWithdrawal, Solvent, At, TypeOK
  <2>2. proc[h].user \in Users /\ proc[h].amount \in Nat
    BY <2>1, MoneyAssumption DEF Withdrawing
  <2>3. balance' \in [Users -> Nat] /\ withdrawn' \in [Users -> Nat]
    BY <1>16, <2>1, <2>2 DEF CommitWithdrawal, TypeOK
  <2> QED
    BY <1>16, <2>3, EndFacts DEF CommitWithdrawal, TypeOK, Recorded
<1>17. ASSUME NEW h \in Handlers, CutOff(h) PROVE TypeOK'
  BY <1>17, EndFacts, BoundsAssumption DEF CutOff, TypeOK, Recorded, Fault
<1>18. ASSUME NEW u \in Users, UpdateUserRole(u) PROVE TypeOK'
  BY <1>18, BoundsAssumption DEF UpdateUserRole, TypeOK, Recorded
<1>19. CASE UNCHANGED vars
  BY <1>19 DEF vars, TypeOK, Recorded
<1> QED
  BY <1>1, <1>2, <1>3, <1>4, <1>5, <1>6, <1>7, <1>8, <1>9, <1>10, <1>11, <1>12,
     <1>13, <1>14, <1>15, <1>16, <1>17, <1>18, <1>19 DEF Next

\* Whether a call is at work on a recorded reward is its own affair: rows are
\* never deleted.
LEMMA AtWorkStep ==
    ASSUME TypeOK, TypeOK', AtWork, [Next]_vars
    PROVE  AtWork'
<1> USE DEF people, days, money
<1> DEFINE Own(k) ==
        /\ proc[k].kind = "register" /\ proc[k].pc \in {"give", "mark"}
               => Gift(k) \in gifts
        /\ proc[k].kind = "apply" /\ proc[k].pc \in {"record", "give", "mark"}
               => proc[k].partner \in Users
        /\ proc[k].kind = "apply" /\ proc[k].pc \in {"give", "mark"}
               => Credit(k) \in Recorded
<1>a. ASSUME NEW h \in Handlers, Own(h)', gifts \subseteq gifts',
             Recorded \subseteq Recorded',
             \A k \in Handlers \ {h} : proc'[k] = proc[k]
      PROVE  AtWork'
  BY <1>a DEF AtWork, Gift, Credit
<1>b. ASSUME NEW h \in Handlers,
             \/ proc'[h].kind \notin {"register", "apply"}
             \/ proc'[h].kind = "register" /\ proc'[h].pc \in {"relate", "record"}
             \/ proc'[h].kind = "apply" /\ proc'[h].pc \in {"purchased", "campaign"},
             gifts \subseteq gifts', Recorded \subseteq Recorded',
             \A k \in Handlers \ {h} : proc'[k] = proc[k]
      PROVE  AtWork'
  BY <1>a, <1>b
<1>c. UNCHANGED credits => Recorded' = Recorded
  BY DEF Recorded
<1>1. ASSUME NEW h \in Handlers, NEW u \in Users, NEW v \in Users,
             RegisterReferral(h, u, v)
      PROVE  AtWork'
  <2>1. proc'[h].kind = "register" /\ proc'[h].pc = "relate"
        /\ \A k \in Handlers \ {h} : proc'[k] = proc[k]
    BY <1>1 DEF RegisterReferral, Call, TypeOK
  <2> QED
    BY <1>1, <1>b, <1>c, <2>1 DEF RegisterReferral
<1>2. ASSUME NEW h \in Handlers, CreateRelationship(h) PROVE AtWork'
  <2>1. CASE Goto(h, "record")
    <3>1. /\ proc'[h].kind = "register" /\ proc'[h].pc = "record"
          /\ \A k \in Handlers \ {h} : proc'[k] = proc[k]
      BY <1>2, <2>1, GotoRegister DEF CreateRelationship, At, Registering
    <3> QED
      BY <1>2, <1>b, <1>c, <3>1 DEF CreateRelationship
  <2>2. CASE End(h)
    BY <1>2, <1>b, <1>c, <2>2, EndFacts, KindTells DEF CreateRelationship, Idle
  <2> QED
    BY <1>2, <2>1, <2>2 DEF CreateRelationship
<1>3. ASSUME NEW h \in Handlers, RecordGift(h) PROVE AtWork'
  <2>1. Gift(h)' = Gift(h) /\ proc'[h].kind = "register"
        /\ \A k \in Handlers \ {h} : proc'[k] = proc[k]
    BY <1>3, GotoRegister DEF RecordGift, At, Gift, Registering
  <2>2. Own(h)'
    BY <1>3, <2>1 DEF RecordGift
  <2> QED
    BY <1>3, <1>a, <1>c, <2>1, <2>2 DEF RecordGift
<1>4. ASSUME NEW h \in Handlers, GiveDays(h) PROVE AtWork'
  <2>1. Gift(h)' = Gift(h) /\ proc'[h].kind = "register"
        /\ \A k \in Handlers \ {h} : proc'[k] = proc[k]
    BY <1>4, GotoRegister DEF GiveDays, At, Gift, Registering
  <2>2. Own(h)'
    BY <1>4, <2>1 DEF GiveDays, AtWork, At
  <2> QED
    BY <1>4, <1>a, <1>c, <2>1, <2>2 DEF GiveDays
<1>5. ASSUME NEW h \in Handlers, proc[h].kind = "register", NextRecipient(h),
             UNCHANGED <<gifts, credits>>
      PROVE  AtWork'
  <2>1. \/ proc'[h].kind = "idle"
        \/ proc'[h].kind = "register" /\ proc'[h].pc = "record"
    BY <1>5, NextRecipientFacts DEF Idle, Registering
  <2> QED
    BY <1>5, <1>b, <1>c, <2>1, NextRecipientFacts
<1>6. ASSUME NEW h \in Handlers, proc[h].kind = "apply", NextChannel(h),
             UNCHANGED <<gifts, credits>>
      PROVE  AtWork'
  <2>1. \/ proc'[h].kind = "idle"
        \/ proc'[h].kind = "apply" /\ proc'[h].pc = "purchased"
    BY <1>6, NextChannelFacts DEF Idle, Applying
  <2> QED
    BY <1>6, <1>b, <1>c, <2>1, NextChannelFacts
<1>7. ASSUME NEW h \in Handlers, NEW p \in Payments, ApplyBonus(h, p)
      PROVE  AtWork'
  <2> DEFINE u == inviter[UserOf[p]]
  <2>1. u \in Users \cup {None}
    BY UsersAssumption DEF TypeOK
  <2>2. /\ proc'[h].kind = "apply" /\ proc'[h].partner = u
        /\ proc'[h].pc \in {"record", "purchased", "campaign"}
        /\ proc'[h].pc = "record" => u # None
        /\ \A k \in Handlers \ {h} : proc'[k] = proc[k]
    BY <1>7 DEF ApplyBonus, Call, TypeOK
  <2>3. Own(h)'
    BY <2>1, <2>2
  <2> QED
    BY <1>7, <1>a, <1>c, <2>2, <2>3 DEF ApplyBonus
<1>8. ASSUME NEW h \in Handlers, RecordCredit(h) PROVE AtWork'
  <2>1. CASE credits[Credit(h)] # None
    BY <1>8, <1>6, <2>1 DEF RecordCredit, At
  <2>2. CASE credits[Credit(h)] = None
    <3>1. Credit(h) \in Credits /\ proc[h].partner \in Users
      BY <1>8, OwnReward DEF RecordCredit, AtWork, At
    <3>2. Recorded' = Recorded \cup {Credit(h)}
      BY <1>8, <2>2, <3>1, UsersAssumption DEF RecordCredit, Recorded, TypeOK
    <3>3. /\ proc'[h].kind = "apply" /\ Credit(h)' = Credit(h)
          /\ proc'[h].partner = proc[h].partner
          /\ \A k \in Handlers \ {h} : proc'[k] = proc[k]
      BY <1>8, <2>2, GotoApply DEF RecordCredit, At, Credit, Applying
    <3> QED
      BY <1>8, <1>a, <3>1, <3>2, <3>3 DEF RecordCredit
  <2> QED
    BY <2>1, <2>2
<1>9. ASSUME NEW h \in Handlers, AddBalance(h) PROVE AtWork'
  <2>1. /\ proc'[h].kind = "apply" /\ Credit(h)' = Credit(h)
        /\ proc'[h].partner = proc[h].partner
        /\ \A k \in Handlers \ {h} : proc'[k] = proc[k]
    BY <1>9, GotoApply DEF AddBalance, At, Credit, Applying
  <2>2. Own(h)'
    BY <1>9, <1>c, <2>1 DEF AddBalance, AtWork, At
  <2> QED
    BY <1>9, <1>a, <1>c, <2>1, <2>2 DEF AddBalance
<1>10. ASSUME NEW h \in Handlers, MarkPurchased(h) PROVE AtWork'
  BY <1>10, <1>b, <1>c, GotoApply DEF MarkPurchased, At, Applying
<1>11. ASSUME NEW h \in Handlers, ReadAttribution(h) PROVE AtWork'
  <2>1. CASE proc'[h] = Idle
    <3>1. proc'[h].kind = "idle"
      BY <2>1 DEF Idle
    <3> QED
      BY <1>11, <1>b, <1>c, <3>1, AttributionFacts DEF ReadAttribution
  <2>2. CASE proc'[h] \in Applying /\ proc'[h].pc = "record"
             /\ proc'[h].partner \in Users
    <3>1. Own(h)'
      BY <2>2 DEF Applying
    <3> QED
      BY <1>11, <1>a, <1>c, <3>1, AttributionFacts DEF ReadAttribution
  <2> QED
    BY <1>11, <2>1, <2>2, AttributionFacts
<1>12. ASSUME NEW h \in Handlers, ApplyFails(h) PROVE AtWork'
  <2>1. CASE NextChannel(h)
    BY <1>12, <1>6, <2>1 DEF ApplyFails
  <2>2. CASE Goto(h, "campaign")
    BY <1>12, <1>b, <1>c, <2>2, GotoApply DEF ApplyFails, Applying
  <2> QED
    BY <1>12, <2>1, <2>2 DEF ApplyFails, IgnoredError
<1>13. ASSUME NEW h \in Handlers, NEW u \in Users, NEW a \in Amounts,
              CreateWithdrawal(h, u, a)
       PROVE  AtWork'
  <2>1. proc'[h].kind = "withdraw" /\ \A k \in Handlers \ {h} : proc'[k] = proc[k]
    BY <1>13 DEF CreateWithdrawal, Call, TypeOK
  <2> QED
    BY <1>13, <1>b, <1>c, <2>1 DEF CreateWithdrawal
<1>14. ASSUME NEW h \in Handlers, LockBalance(h) PROVE AtWork'
  <2>1. CASE Goto(h, "commit")
    BY <1>14, <1>b, <1>c, <2>1, GotoCommit DEF LockBalance, At, Withdrawing
  <2>2. CASE End(h)
    BY <1>14, <1>b, <1>c, <2>2, EndFacts DEF LockBalance, Idle
  <2> QED
    BY <1>14, <2>1, <2>2 DEF LockBalance
<1>15. ASSUME NEW h \in Handlers, End(h), UNCHANGED <<gifts, credits>> PROVE AtWork'
  BY <1>15, <1>b, <1>c, EndFacts DEF Idle
<1>16. ASSUME UNCHANGED <<proc, gifts, credits>> PROVE AtWork'
  BY <1>16 DEF AtWork, Gift, Credit, Recorded
<1>17. ASSUME NEW h \in Handlers, MarkGift(h) \/ RegisterFails(h) PROVE AtWork'
  BY <1>17, <1>5 DEF MarkGift, RegisterFails, At
<1>18. ASSUME NEW h \in Handlers, MarkCredit(h) PROVE AtWork'
  BY <1>18, <1>6 DEF MarkCredit, At
<1>19. ASSUME NEW h \in Handlers, CommitWithdrawal(h) \/ CutOff(h) PROVE AtWork'
  BY <1>19, <1>15 DEF CommitWithdrawal, CutOff
<1> QED
  BY <1>1, <1>2, <1>3, <1>4, <1>7, <1>8, <1>9, <1>10, <1>11, <1>12, <1>13, <1>14,
     <1>16, <1>17, <1>18, <1>19 DEF Next, UpdateUserRole, vars

-----------------------------------------------------------------------------
(* A registration stays one or ends, and so does an ApplyBonus.             *)

RegisterStep(h) == \/ CreateRelationship(h) \/ RecordGift(h) \/ GiveDays(h)
                   \/ MarkGift(h) \/ RegisterFails(h)
ApplyStep(h) == \/ RecordCredit(h) \/ AddBalance(h) \/ MarkCredit(h)
                \/ MarkPurchased(h) \/ ReadAttribution(h) \/ ApplyFails(h)

LEMMA RegisterMoves ==
    ASSUME TypeOK, NEW h \in Handlers, RegisterStep(h)
    PROVE  /\ proc'[h].kind \in {"idle", "register"}
           /\ \A k \in Handlers \ {h} : proc'[k] = proc[k]
           /\ UNCHANGED balance
<1>0. UNCHANGED balance
  BY DEF RegisterStep, CreateRelationship, RecordGift, GiveDays, MarkGift,
         RegisterFails, money
<1>1. CASE \E pc \in {"record", "give", "mark"} :
             proc[h].kind = "register" /\ Goto(h, pc)
  BY <1>0, <1>1, GotoRegister DEF Registering
<1>2. CASE End(h)
  BY <1>0, <1>2, EndFacts DEF Idle
<1>3. CASE proc[h].kind = "register" /\ NextRecipient(h)
  BY <1>0, <1>3, NextRecipientFacts DEF Idle, Registering
<1>4. \/ \E pc \in {"record", "give", "mark"} :
             proc[h].kind = "register" /\ Goto(h, pc)
      \/ End(h)
      \/ proc[h].kind = "register" /\ NextRecipient(h)
  BY DEF RegisterStep, CreateRelationship, RecordGift, GiveDays, MarkGift,
         RegisterFails, At
<1> QED
  BY <1>1, <1>2, <1>3, <1>4

LEMMA ApplyMoves ==
    ASSUME TypeOK, NEW h \in Handlers, ApplyStep(h)
    PROVE  /\ proc'[h].kind \in {"idle", "apply"}
           /\ \A k \in Handlers \ {h} : proc'[k] = proc[k]
           /\ UNCHANGED <<inviter, gifts, giftDone, given>>
<1>0. UNCHANGED <<inviter, gifts, giftDone, given>>
  BY DEF ApplyStep, RecordCredit, AddBalance, MarkCredit, MarkPurchased,
         ReadAttribution, ApplyFails, people, days
<1>1. CASE \E pc \in {"give", "mark", "purchased", "campaign"} :
             proc[h].kind = "apply" /\ Goto(h, pc)
  BY <1>0, <1>1, GotoApply DEF Applying
<1>2. CASE proc[h].kind = "apply" /\ NextChannel(h)
  BY <1>0, <1>2, NextChannelFacts DEF Idle, Applying
<1>3. CASE ReadAttribution(h)
  BY <1>0, <1>3, AttributionFacts DEF Idle, Applying
<1>4. \/ \E pc \in {"give", "mark", "purchased", "campaign"} :
             proc[h].kind = "apply" /\ Goto(h, pc)
      \/ proc[h].kind = "apply" /\ NextChannel(h)
      \/ ReadAttribution(h)
  BY DEF ApplyStep, RecordCredit, AddBalance, MarkCredit, MarkPurchased,
         ApplyFails, IgnoredError, At
<1> QED
  BY <1>1, <1>2, <1>3, <1>4

\* Money leaves a balance only under the lock, and only what was checked.
LEMMA SolventStep ==
    ASSUME TypeOK, TypeOK', AtWork, Solvent, [Next]_vars
    PROVE  Solvent'
<1> USE DEF people, days, money
<1>a. ASSUME NEW h \in Handlers, ~At(h, "withdraw", "commit")',
             \A u \in Users : balance[u] <= balance'[u],
             \A k \in Handlers \ {h} : proc'[k] = proc[k]
      PROVE  Solvent'
  <2> SUFFICES ASSUME NEW k \in Handlers, At(k, "withdraw", "commit")'
               PROVE  /\ proc'[k].amount <= balance'[proc'[k].user]
                      /\ \A l \in Handlers :
                            At(l, "withdraw", "commit")'
                            /\ proc'[l].user = proc'[k].user => l = k
    BY DEF Solvent
  <2>1. k # h /\ proc'[k] = proc[k] /\ At(k, "withdraw", "commit")
    BY <1>a DEF At
  <2>2. proc[k].user \in Users /\ proc[k].amount \in Nat
    BY <2>1, KindTells, MoneyAssumption DEF TypeOK, At, Withdrawing
  <2>3. balance[proc[k].user] \in Nat /\ balance'[proc[k].user] \in Nat
    BY <2>2 DEF TypeOK
  <2>4. proc'[k].amount <= balance'[proc'[k].user]
    BY <1>a, <2>1, <2>2, <2>3 DEF Solvent
  <2>5. ASSUME NEW l \in Handlers, At(l, "withdraw", "commit")',
               proc'[l].user = proc'[k].user
        PROVE  l = k
    BY <1>a, <2>1, <2>5 DEF Solvent, At
  <2> QED
    BY <2>4, <2>5
<1>b. UNCHANGED balance => \A u \in Users : balance[u] <= balance'[u]
  BY DEF TypeOK
<1>1. ASSUME NEW h \in Handlers, NEW u \in Users, NEW v \in Users,
             RegisterReferral(h, u, v)
      PROVE  Solvent'
  <2>1. proc'[h].kind = "register" /\ \A k \in Handlers \ {h} : proc'[k] = proc[k]
    BY <1>1 DEF RegisterReferral, Call, TypeOK
  <2> QED
    BY <1>1, <1>a, <1>b, <2>1 DEF RegisterReferral, At
<1>2. ASSUME NEW h \in Handlers, RegisterStep(h) PROVE Solvent'
  BY <1>2, <1>a, <1>b, RegisterMoves DEF At
<1>3. ASSUME NEW h \in Handlers, NEW p \in Payments, ApplyBonus(h, p)
      PROVE  Solvent'
  <2>1. proc'[h].kind = "apply" /\ \A k \in Handlers \ {h} : proc'[k] = proc[k]
    BY <1>3 DEF ApplyBonus, Call, TypeOK
  <2> QED
    BY <1>3, <1>a, <1>b, <2>1 DEF ApplyBonus, At
<1>4. ASSUME NEW h \in Handlers, ApplyStep(h) PROVE Solvent'
  <2>1. CASE AddBalance(h)
    <3>1. proc[h] \in Applying /\ proc[h].partner \in Users
      BY <2>1, KindTells DEF AddBalance, AtWork, At, TypeOK
    <3>2. Share[proc[h].channel][proc[h].pay] \in Nat
      BY <3>1, MoneyAssumption DEF Applying
    <3>3. \A u \in Users : balance[u] <= balance'[u]
      BY <2>1, <3>1, <3>2 DEF AddBalance, TypeOK
    <3> QED
      BY <1>4, <1>a, <3>3, ApplyMoves DEF At
  <2>2. CASE ~AddBalance(h)
    <3>1. UNCHANGED balance
      BY <1>4, <2>2 DEF ApplyStep, RecordCredit, MarkCredit, MarkPurchased,
         ReadAttribution, ApplyFails
    <3> QED
      BY <1>4, <1>a, <1>b, <3>1, ApplyMoves DEF At
  <2> QED
    BY <2>1, <2>2
<1>5. ASSUME NEW h \in Handlers, NEW u \in Users, NEW a \in Amounts,
             CreateWithdrawal(h, u, a)
      PROVE  Solvent'
  <2>1. proc'[h].pc = "lock" /\ \A k \in Handlers \ {h} : proc'[k] = proc[k]
    BY <1>5 DEF CreateWithdrawal, Call, TypeOK
  <2> QED
    BY <1>5, <1>a, <1>b, <2>1 DEF CreateWithdrawal, At
<1>6. ASSUME NEW h \in Handlers, End(h), UNCHANGED balance PROVE Solvent'
  <2>1. proc'[h].kind = "idle"
    BY <1>6, EndFacts DEF Idle
  <2> QED
    BY <1>6, <1>a, <1>b, <2>1, EndFacts DEF At
<1>7. ASSUME NEW h \in Handlers, LockBalance(h) PROVE Solvent'
  <2>1. CASE balance[proc[h].user] < proc[h].amount
    BY <1>6, <1>7, <2>1 DEF LockBalance
  <2>2. CASE ~(balance[proc[h].user] < proc[h].amount)
    <3>1. /\ proc'[h].user = proc[h].user /\ proc'[h].amount = proc[h].amount
          /\ \A k \in Handlers \ {h} : proc'[k] = proc[k]
      BY <1>7, <2>2, GotoCommit DEF LockBalance, At
    <3>2. proc[h].user \in Users /\ proc[h].amount \in Nat
      BY <1>7, KindTells, MoneyAssumption DEF LockBalance, TypeOK, At, Withdrawing
    <3>3. proc[h].amount <= balance[proc[h].user]
      BY <2>2, <3>2 DEF TypeOK
    <3>4. \A k \in Handlers : ~(At(k, "withdraw", "commit")
                               /\ proc[k].user = proc[h].user)
      BY <1>7 DEF LockBalance, UserLocked
    <3> QED
      BY <1>7, <3>1, <3>3, <3>4 DEF LockBalance, Solvent, At
  <2> QED
    BY <2>1, <2>2
<1>8. ASSUME NEW h \in Handlers, CommitWithdrawal(h) PROVE Solvent'
  <2>1. /\ proc'[h].kind = "idle"
        /\ \A k \in Handlers \ {h} : proc'[k] = proc[k]
    BY <1>8, EndFacts DEF CommitWithdrawal, Idle
  <2>2. At(h, "withdraw", "commit")
    BY <1>8 DEF CommitWithdrawal
  <2>3. ASSUME NEW k \in Handlers, At(k, "withdraw", "commit")'
        PROVE  /\ At(k, "withdraw", "commit") /\ proc'[k] = proc[k]
               /\ proc[k].user # proc[h].user /\ proc[k].user \in Users
    <3>1. k # h /\ At(k, "withdraw", "commit") /\ proc'[k] = proc[k]
      BY <2>1, <2>3 DEF At
    <3> QED
      BY <2>2, <3>1, KindTells DEF Solvent, TypeOK, At, Withdrawing
  <2>4. \A u \in Users : u # proc[h].user => balance'[u] = balance[u]
    BY <1>8 DEF CommitWithdrawal, TypeOK
  <2> QED
    BY <2>3, <2>4 DEF Solvent
<1>9. ASSUME NEW h \in Handlers, CutOff(h) PROVE Solvent'
  BY <1>6, <1>9 DEF CutOff
<1>10. ASSUME UNCHANGED <<proc, balance>> PROVE Solvent'
  BY <1>10 DEF Solvent, At
<1> QED
  BY <1>1, <1>2, <1>3, <1>4, <1>5, <1>7, <1>8, <1>9, <1>10
     DEF Next, UpdateUserRole, vars, RegisterStep, ApplyStep

-----------------------------------------------------------------------------
(* One inviter per invited user, and each of the two rewarded once.         *)

\* A registration past its INSERT: it alone may reward for its invited user.
Claims(h) == proc[h].kind = "register" /\ proc[h].pc # "relate"

InviteInv ==
    /\ \A h \in Handlers : proc[h].kind = "register" =>
           /\ proc[h].from # proc[h].to
           /\ proc[h].recipient \in {proc[h].from, proc[h].to}
    /\ \A h \in Handlers : Claims(h) =>
           /\ inviter[proc[h].to] = proc[h].from
           /\ proc[h].pc \in {"record", "give"} => given[Gift(h)] = 0
           /\ proc[h].recipient = proc[h].to
                  => given[<<proc[h].from, proc[h].to>>] = 0
           /\ \A k \in Handlers : Claims(k) /\ proc[k].to = proc[h].to => k = h
    /\ \A g \in Gifts : given[g] > 0 => inviter[g[2]] # None
    /\ OneInviterRewarded

\* The UNIQUE index makes a claim exclusive, and an inviter is never replaced.
LEMMA InviteStep ==
    ASSUME TypeOK, TypeOK', InviteInv, [Next]_vars
    PROVE  InviteInv'
<1> USE DEF people, days, money
<1>a. ASSUME NEW h \in Handlers, ~Claims(h)', UNCHANGED <<inviter, given>>,
             proc'[h].kind = "register" =>
                 /\ proc'[h].from # proc'[h].to
                 /\ proc'[h].recipient \in {proc'[h].from, proc'[h].to},
             \A k \in Handlers \ {h} : proc'[k] = proc[k]
      PROVE  InviteInv'
  BY <1>a DEF InviteInv, Claims, Gift, OneInviterRewarded
<1>b. ASSUME NEW h \in Handlers, proc'[h].kind # "register",
             UNCHANGED <<inviter, given>>,
             \A k \in Handlers \ {h} : proc'[k] = proc[k]
      PROVE  InviteInv'
  BY <1>a, <1>b DEF Claims
<1>c. ASSUME NEW h \in Handlers, proc[h].kind = "register"
      PROVE  /\ proc[h] \in Registering /\ proc[h].from \in Users
             /\ proc[h].to \in Users /\ proc[h].recipient \in Users
  BY <1>c, KindTells DEF TypeOK, Registering
<1>1. ASSUME NEW h \in Handlers, NEW u \in Users, NEW v \in Users,
             RegisterReferral(h, u, v)
      PROVE  InviteInv'
  <2>1. /\ proc'[h].kind = "register" /\ proc'[h].pc = "relate"
        /\ proc'[h].from = u /\ proc'[h].to = v /\ proc'[h].recipient = v
        /\ \A k \in Handlers \ {h} : proc'[k] = proc[k]
    BY <1>1 DEF RegisterReferral, Call, TypeOK
  <2> QED
    BY <1>1, <1>a, <2>1 DEF RegisterReferral, Claims
<1>2. ASSUME NEW h \in Handlers, CreateRelationship(h) PROVE InviteInv'
  <2>1. CASE inviter[proc[h].to] # None
    BY <1>2, <1>b, <2>1, EndFacts DEF CreateRelationship, Idle
  <2>2. CASE inviter[proc[h].to] = None
    <3>1. /\ proc'[h] \in Registering /\ proc'[h].pc = "record"
          /\ proc'[h].from = proc[h].from /\ proc'[h].to = proc[h].to
          /\ proc'[h].recipient = proc[h].recipient
          /\ \A k \in Handlers \ {h} : proc'[k] = proc[k]
      BY <1>2, <2>2, GotoRegister DEF CreateRelationship, At
    <3>2. /\ proc[h].kind = "register" /\ proc[h].from \in Users
          /\ proc[h].to \in Users
      BY <1>2, <1>c DEF CreateRelationship, At
    <3>3. /\ inviter'[proc[h].to] = proc[h].from
          /\ \A u \in Users \ {proc[h].to} : inviter'[u] = inviter[u]
          /\ UNCHANGED given
      BY <1>2, <2>2, <3>2 DEF CreateRelationship, TypeOK
    <3>4. \A g \in Gifts : g[2] = proc[h].to => given[g] = 0
      BY <2>2 DEF InviteInv, TypeOK
    <3>5. \A k \in Handlers \ {h} : Claims(k) => proc[k].to # proc[h].to
                                                /\ proc[k].to \in Users
      BY <1>c, <2>2, UsersAssumption DEF InviteInv, Claims
    <3>6. /\ proc'[h].from # proc'[h].to
          /\ proc'[h].recipient \in {proc'[h].from, proc'[h].to}
          /\ given'[Gift(h)'] = 0 /\ given'[<<proc'[h].from, proc'[h].to>>] = 0
      BY <3>1, <3>2, <3>3, <3>4 DEF InviteInv, Gift, Gifts
    <3>7. \A k \in Handlers \ {h} : Claims(k)' => Claims(k) /\ Gift(k)' = Gift(k)
      BY <3>1 DEF Claims, Gift
    <3>8. \A g \in Gifts : given'[g] > 0 => /\ g[2] # proc[h].to
                                           /\ inviter'[g[2]] = inviter[g[2]]
      BY <3>3, <3>4 DEF Gifts
    <3>9. OneInviterRewarded' /\ \A g \in Gifts : given'[g] > 0 => inviter'[g[2]] # None
      BY <3>3, <3>8 DEF InviteInv, OneInviterRewarded
    <3>10. \A k \in Handlers : Claims(k)' =>
             /\ inviter'[proc'[k].to] = proc'[k].from
             /\ proc'[k].pc \in {"record", "give"} => given'[Gift(k)'] = 0
             /\ proc'[k].recipient = proc'[k].to
                    => given'[<<proc'[k].from, proc'[k].to>>] = 0
             /\ \A l \in Handlers : Claims(l)' /\ proc'[l].to = proc'[k].to => l = k
      BY <3>1, <3>3, <3>5, <3>6, <3>7 DEF InviteInv
    <3>11. \A k \in Handlers : proc'[k].kind = "register" =>
             /\ proc'[k].from # proc'[k].to
             /\ proc'[k].recipient \in {proc'[k].from, proc'[k].to}
      BY <3>1, <3>6 DEF InviteInv
    <3> QED
      BY <3>9, <3>10, <3>11 DEF InviteInv
  <2> QED
    BY <2>1, <2>2
<1>3. ASSUME NEW h \in Handlers, RecordGift(h) PROVE InviteInv'
  <2>1. /\ proc'[h] \in Registering /\ proc'[h].pc = "give"
        /\ proc'[h].from = proc[h].from /\ proc'[h].to = proc[h].to
        /\ proc'[h].recipient = proc[h].recipient
        /\ \A k \in Handlers \ {h} : proc'[k] = proc[k]
    BY <1>3, GotoRegister DEF RecordGift, At
  <2>2. \A k \in Handlers : (proc'[k].kind = "register") = (proc[k].kind = "register")
    BY <1>3, <2>1 DEF RecordGift, At, Registering
  <2>3. \A k \in Handlers : /\ Claims(k)' = Claims(k) /\ Gift(k)' = Gift(k)
                            /\ proc'[k].from = proc[k].from
                            /\ proc'[k].to = proc[k].to
                            /\ proc'[k].recipient = proc[k].recipient
    BY <1>3, <2>1, <2>2 DEF RecordGift, At, Claims, Gift
  <2>4. \A k \in Handlers : proc'[k].pc \in {"record", "give"}
                            => proc[k].pc \in {"record", "give"}
    BY <1>3, <2>1 DEF RecordGift, At
  <2> QED
    BY <1>3, <2>2, <2>3, <2>4 DEF RecordGift, InviteInv, OneInviterRewarded
<1>4. ASSUME NEW h \in Handlers, GiveDays(h) PROVE InviteInv'
  <2>1. /\ proc'[h] \in Registering /\ proc'[h].pc = "mark"
        /\ proc'[h].from = proc[h].from /\ proc'[h].to = proc[h].to
        /\ proc'[h].recipient = proc[h].recipient
        /\ \A k \in Handlers \ {h} : proc'[k] = proc[k]
    BY <1>4, GotoRegister DEF GiveDays, At
  <2>2. \A k \in Handlers : (proc'[k].kind = "register") = (proc[k].kind = "register")
    BY <1>4, <2>1 DEF GiveDays, At, Registering
  <2>3. \A k \in Handlers : /\ Claims(k)' = Claims(k) /\ Gift(k)' = Gift(k)
                            /\ proc'[k].from = proc[k].from
                            /\ proc'[k].to = proc[k].to
                            /\ proc'[k].recipient = proc[k].recipient
    BY <1>4, <2>1, <2>2 DEF GiveDays, At, Claims, Gift
  <2>4. Claims(h) /\ Gift(h) \in Gifts /\ given[Gift(h)] = 0
    BY <1>4, OwnReward DEF GiveDays, At, Claims, InviteInv
  <2>5. /\ given'[Gift(h)] = 1 /\ UNCHANGED inviter
        /\ \A g \in Gifts \ {Gift(h)} : given'[g] = given[g]
    BY <1>4, <2>4 DEF GiveDays, TypeOK
  <2>6. ASSUME NEW k \in Handlers \ {h}, Claims(k)
        PROVE  /\ given'[Gift(k)] = given[Gift(k)]
               /\ given'[<<proc[k].from, proc[k].to>>]
                      = given[<<proc[k].from, proc[k].to>>]
    <3>1. proc[k].to # proc[h].to
      BY <2>4, <2>6 DEF InviteInv
    <3>2. Gift(k) \in Gifts /\ <<proc[k].from, proc[k].to>> \in Gifts
      BY <1>c, <2>6 DEF Claims, Gift, Gifts
    <3> QED
      BY <2>5, <3>1, <3>2 DEF Gift
  <2>7. ASSUME proc[h].recipient = proc[h].to
        PROVE  given'[<<proc[h].from, proc[h].to>>] = 0
    <3>1. <<proc[h].from, proc[h].to>> \in Gifts /\ proc[h].from # proc[h].to
      BY <1>c, <2>4 DEF Claims, Gifts, InviteInv
    <3> QED
      BY <2>4, <2>5, <2>7, <3>1 DEF Gift, InviteInv
  <2>8. /\ inviter[Gift(h)[2]] = proc[h].from /\ proc[h].from # None
        /\ Gift(h)[1] \in {Gift(h)[2], proc[h].from}
    BY <1>c, <2>4, UsersAssumption DEF InviteInv, Claims, Gift
  <2>9. OneInviterRewarded' /\ \A g \in Gifts : given'[g] > 0 => inviter'[g[2]] # None
    BY <2>5, <2>8 DEF InviteInv, OneInviterRewarded
  <2>10. \A k \in Handlers : Claims(k)' =>
             /\ inviter'[proc'[k].to] = proc'[k].from
             /\ proc'[k].pc \in {"record", "give"} => given'[Gift(k)'] = 0
             /\ proc'[k].recipient = proc'[k].to
                    => given'[<<proc'[k].from, proc'[k].to>>] = 0
             /\ \A l \in Handlers : Claims(l)' /\ proc'[l].to = proc'[k].to => l = k
    BY <2>1, <2>3, <2>5, <2>6, <2>7 DEF InviteInv
  <2>11. \A k \in Handlers : proc'[k].kind = "register" =>
             /\ proc'[k].from # proc'[k].to
             /\ proc'[k].recipient \in {proc'[k].from, proc'[k].to}
    BY <2>2, <2>3 DEF InviteInv
  <2> QED
    BY <2>9, <2>10, <2>11 DEF InviteInv
<1>5. ASSUME NEW h \in Handlers, MarkGift(h) \/ RegisterFails(h) PROVE InviteInv'
  <2>1. Claims(h) /\ NextRecipient(h) /\ UNCHANGED <<inviter, given>>
    BY <1>5 DEF MarkGift, RegisterFails, Claims, At
  <2>2. CASE proc'[h] = Idle
    BY <1>b, <2>1, <2>2, NextRecipientFacts DEF Claims, Idle
  <2>3. CASE /\ proc[h].recipient = proc[h].to
             /\ proc'[h] \in Registering /\ proc'[h].pc = "record"
             /\ proc'[h].from = proc[h].from /\ proc'[h].to = proc[h].to
             /\ proc'[h].recipient = proc[h].from
    <3>1. \A k \in Handlers \ {h} : proc'[k] = proc[k]
      BY <2>1, NextRecipientFacts DEF Claims
    <3>2. /\ Claims(h)' /\ Gift(h)' = <<proc[h].from, proc[h].to>>
          /\ given[<<proc[h].from, proc[h].to>>] = 0
          /\ proc[h].from # proc[h].to
      BY <2>1, <2>3 DEF Claims, Gift, InviteInv, Registering
    <3>3. \A k \in Handlers \ {h} : Claims(k)' = Claims(k) /\ Gift(k)' = Gift(k)
      BY <3>1 DEF Claims, Gift
    <3> QED
      BY <2>1, <2>3, <3>1, <3>2, <3>3 DEF InviteInv, OneInviterRewarded
  <2> QED
    BY <2>1, <2>2, <2>3, NextRecipientFacts DEF Claims
<1>6. ASSUME NEW h \in Handlers, NEW p \in Payments, ApplyBonus(h, p) PROVE InviteInv'
  <2>1. proc'[h].kind = "apply" /\ \A k \in Handlers \ {h} : proc'[k] = proc[k]
    BY <1>6 DEF ApplyBonus, Call, TypeOK
  <2> QED
    BY <1>6, <1>b, <2>1 DEF ApplyBonus
<1>7. ASSUME NEW h \in Handlers, ApplyStep(h) PROVE InviteInv'
  BY <1>7, <1>b, ApplyMoves
<1>8. ASSUME NEW h \in Handlers, NEW u \in Users, NEW a \in Amounts,
             CreateWithdrawal(h, u, a)
      PROVE  InviteInv'
  <2>1. proc'[h].kind = "withdraw" /\ \A k \in Handlers \ {h} : proc'[k] = proc[k]
    BY <1>8 DEF CreateWithdrawal, Call, TypeOK
  <2> QED
    BY <1>8, <1>b, <2>1 DEF CreateWithdrawal
<1>9. ASSUME NEW h \in Handlers, End(h), UNCHANGED <<inviter, given>> PROVE InviteInv'
  BY <1>9, <1>b, EndFacts DEF Idle
<1>10. ASSUME NEW h \in Handlers, LockBalance(h) PROVE InviteInv'
  <2>1. CASE Goto(h, "commit")
    BY <1>10, <1>b, <2>1, GotoCommit DEF LockBalance, At, Withdrawing
  <2> QED
    BY <1>9, <1>10, <2>1 DEF LockBalance
<1>11. ASSUME NEW h \in Handlers, CommitWithdrawal(h) \/ CutOff(h) PROVE InviteInv'
  BY <1>9, <1>11 DEF CommitWithdrawal, CutOff
<1>12. ASSUME UNCHANGED <<proc, inviter, given>> PROVE InviteInv'
  BY <1>12 DEF InviteInv, Claims, Gift, OneInviterRewarded
<1> QED
  BY <1>1, <1>2, <1>3, <1>4, <1>5, <1>6, <1>7, <1>8, <1>10, <1>11, <1>12
     DEF Next, UpdateUserRole, vars, ApplyStep

-----------------------------------------------------------------------------
(* Every stranded reward is the trace of one failure.                       *)

StrandedInv == IsFiniteSet(Stranded) /\ StrandedByFailures

\* A step without failure strands nothing; a failure strands one reward at most,
\* the one its call was at work on.
LEMMA StrandedStep ==
    ASSUME TypeOK, TypeOK', StrandedInv, [Next]_vars
    PROVE  StrandedInv'
<1> USE DEF people, days, money
<1>a. ASSUME Stranded' \subseteq Stranded, faults <= faults' PROVE StrandedInv'
  BY <1>a, FS_Subset, FS_CardinalityType
     DEF StrandedInv, StrandedByFailures, TypeOK
<1>b. ASSUME NEW x, Stranded' \subseteq Stranded \cup {x}, faults' = faults + 1
      PROVE  StrandedInv'
  <2>1. /\ IsFiniteSet(Stranded \cup {x})
        /\ Cardinality(Stranded \cup {x}) <= Cardinality(Stranded) + 1
        /\ Cardinality(Stranded \cup {x}) \in Nat /\ Cardinality(Stranded) \in Nat
    BY FS_AddElement, FS_CardinalityType DEF StrandedInv
  <2>2. /\ IsFiniteSet(Stranded')
        /\ Cardinality(Stranded') <= Cardinality(Stranded \cup {x})
        /\ Cardinality(Stranded') \in Nat
    BY <1>b, <2>1, FS_Subset, FS_CardinalityType
  <2> QED
    BY <1>b, <2>1, <2>2 DEF StrandedInv, StrandedByFailures, TypeOK
<1>c. ASSUME NEW h \in Handlers, UNCHANGED faults,
             \A k \in Handlers \ {h} : proc'[k] = proc[k],
             creditDone \subseteq creditDone', giftDone \subseteq giftDone',
             \A c \in Recorded' \ creditDone' :
                 c \notin Recorded \/ GivesCredit(h, c) => GivesCredit(h, c)',
             \A g \in gifts' \ giftDone' :
                 g \notin gifts \/ GivesGift(h, g) => GivesGift(h, g)'
      PROVE  StrandedInv'
  <2>1. \A k \in Handlers \ {h}, r \in Recorded' \cup gifts' :
            /\ GivesCredit(k, r) => GivesCredit(k, r)'
            /\ GivesGift(k, r) => GivesGift(k, r)'
    BY <1>c DEF GivesCredit, GivesGift, Credit, Gift
  <2>2. Stranded' \subseteq Stranded
    BY <1>c, <2>1 DEF Stranded
  <2> QED
    BY <1>a, <1>c, <2>2 DEF TypeOK
\* A call that ends, or starts, and touches no reward.
<1>d. ASSUME NEW h \in Handlers, UNCHANGED <<faults, gifts, giftDone, credits, creditDone>>,
             \A k \in Handlers \ {h} : proc'[k] = proc[k],
             \A r : ~GivesCredit(h, r) /\ ~GivesGift(h, r)
      PROVE  StrandedInv'
  BY <1>c, <1>d DEF Recorded
<1>e. ASSUME NEW h \in Handlers, Fault,
             UNCHANGED <<gifts, giftDone, credits, creditDone>>,
             \A k \in Handlers \ {h} : proc'[k] = proc[k]
      PROVE  StrandedInv'
  <2>1. \A k \in Handlers \ {h}, r \in Recorded \cup gifts :
            /\ GivesCredit(k, r)' = GivesCredit(k, r)
            /\ GivesGift(k, r)' = GivesGift(k, r)
    BY <1>e DEF GivesCredit, GivesGift, Credit, Gift
  <2>2. PICK x : \A r \in Recorded \cup gifts :
                     GivesCredit(h, r) \/ GivesGift(h, r) => r = x
    <3>1. CASE proc[h].kind = "apply"
      BY <3>1 DEF GivesCredit, GivesGift
    <3>2. CASE proc[h].kind # "apply"
      BY <3>2 DEF GivesCredit, GivesGift
    <3> QED
      BY <3>1, <3>2
  <2>3. Recorded' = Recorded
    BY <1>e DEF Recorded
  <2>4. Stranded' \subseteq Stranded \cup {x}
    BY <1>e, <2>1, <2>2, <2>3 DEF Stranded
  <2> QED
    BY <1>b, <1>e, <2>4 DEF Fault
<1>1. ASSUME NEW h \in Handlers, NEW p, Call(h, p),
             UNCHANGED <<faults, gifts, giftDone, credits, creditDone>>
      PROVE  StrandedInv'
  <2>1. \A r : ~GivesCredit(h, r) /\ ~GivesGift(h, r)
    BY <1>1 DEF Call, GivesCredit, GivesGift, Idle
  <2>2. \A k \in Handlers \ {h} : proc'[k] = proc[k]
    BY <1>1 DEF Call, TypeOK
  <2> QED
    BY <1>1, <1>d, <2>1, <2>2
<1>2. ASSUME NEW h \in Handlers, CreateRelationship(h) PROVE StrandedInv'
  <2>1. \A r : ~GivesCredit(h, r) /\ ~GivesGift(h, r)
    BY <1>2 DEF CreateRelationship, At, GivesCredit, GivesGift
  <2> QED
    BY <1>2, <1>d, <2>1, RegisterMoves DEF RegisterStep, CreateRelationship
<1>3. ASSUME NEW h \in Handlers, RecordGift(h) PROVE StrandedInv'
  <2>1. \A r : ~GivesCredit(h, r) /\ ~GivesGift(h, r)
    BY <1>3 DEF RecordGift, At, GivesCredit, GivesGift
  <2>2. GivesGift(h, Gift(h))' /\ Gift(h)' = Gift(h) /\ Recorded' = Recorded
    BY <1>3, GotoRegister DEF RecordGift, At, GivesGift, Gift, Registering, Recorded
  <2> QED
    BY <1>3, <1>c, <2>1, <2>2, RegisterMoves DEF RegisterStep, RecordGift
<1>4. ASSUME NEW h \in Handlers, GiveDays(h) PROVE StrandedInv'
  <2>1. \A r : ~GivesCredit(h, r) /\ (GivesGift(h, r) => r = Gift(h))
    BY <1>4 DEF GiveDays, At, GivesCredit, GivesGift
  <2>2. GivesGift(h, Gift(h))' /\ Gift(h)' = Gift(h) /\ Recorded' = Recorded
    BY <1>4, GotoRegister DEF GiveDays, At, GivesGift, Gift, Registering, Recorded
  <2> QED
    BY <1>4, <1>c, <2>1, <2>2, RegisterMoves DEF RegisterStep, GiveDays
<1>5. ASSUME NEW h \in Handlers, MarkGift(h) PROVE StrandedInv'
  <2>1. \A r : ~GivesCredit(h, r) /\ (GivesGift(h, r) => r = Gift(h))
    BY <1>5 DEF MarkGift, At, GivesCredit, GivesGift
  <2>2. Recorded' = Recorded
    BY <1>5 DEF MarkGift, Recorded
  <2> QED
    BY <1>5, <1>c, <2>1, <2>2, RegisterMoves DEF RegisterStep, MarkGift
<1>6. ASSUME NEW h \in Handlers, RecordCredit(h) PROVE StrandedInv'
  <2>1. \A r : ~GivesCredit(h, r) /\ ~GivesGift(h, r)
    BY <1>6 DEF RecordCredit, At, GivesCredit, GivesGift
  <2>2. CASE credits[Credit(h)] # None
    BY <1>6, <1>d, <2>1, <2>2, ApplyMoves DEF ApplyStep, RecordCredit
  <2>3. CASE credits[Credit(h)] = None
    <3>1. GivesCredit(h, Credit(h))' /\ Credit(h)' = Credit(h)
      BY <1>6, <2>3, GotoApply DEF RecordCredit, At, GivesCredit, Credit, Applying
    <3>2. Recorded' \subseteq Recorded \cup {Credit(h)}
      BY <1>6, <2>3 DEF RecordCredit, Recorded, TypeOK
    <3> QED
      BY <1>6, <1>c, <2>1, <3>1, <3>2, ApplyMoves DEF ApplyStep, RecordCredit
  <2> QED
    BY <2>2, <2>3
<1>7. ASSUME NEW h \in Handlers, AddBalance(h) PROVE StrandedInv'
  <2>1. \A r : ~GivesGift(h, r) /\ (GivesCredit(h, r) => r = Credit(h))
    BY <1>7 DEF AddBalance, At, GivesCredit, GivesGift
  <2>2. GivesCredit(h, Credit(h))' /\ Credit(h)' = Credit(h) /\ Recorded' = Recorded
    BY <1>7, GotoApply DEF AddBalance, At, GivesCredit, Credit, Applying, Recorded
  <2> QED
    BY <1>7, <1>c, <2>1, <2>2, ApplyMoves DEF ApplyStep, AddBalance
<1>8. ASSUME NEW h \in Handlers, MarkCredit(h) PROVE StrandedInv'
  <2>1. \A r : ~GivesGift(h, r) /\ (GivesCredit(h, r) => r = Credit(h))
    BY <1>8 DEF MarkCredit, At, GivesCredit, GivesGift
  <2>2. Recorded' = Recorded
    BY <1>8 DEF MarkCredit, Recorded
  <2> QED
    BY <1>8, <1>c, <2>1, <2>2, ApplyMoves DEF ApplyStep, MarkCredit
<1>9. ASSUME NEW h \in Handlers, MarkPurchased(h) \/ ReadAttribution(h)
      PROVE  StrandedInv'
  <2>1. \A r : ~GivesCredit(h, r) /\ ~GivesGift(h, r)
    BY <1>9 DEF MarkPurchased, ReadAttribution, At, GivesCredit, GivesGift
  <2> QED
    BY <1>9, <1>d, <2>1, ApplyMoves DEF ApplyStep, MarkPurchased, ReadAttribution
<1>10. ASSUME NEW h \in Handlers, RegisterFails(h) PROVE StrandedInv'
  BY <1>10, <1>e, RegisterMoves DEF RegisterStep, RegisterFails
<1>11. ASSUME NEW h \in Handlers, ApplyFails(h) PROVE StrandedInv'
  BY <1>11, <1>e, ApplyMoves DEF ApplyStep, ApplyFails
<1>12. ASSUME NEW h \in Handlers, CutOff(h) PROVE StrandedInv'
  BY <1>12, <1>e, EndFacts DEF CutOff
<1>13. ASSUME NEW h \in Handlers, LockBalance(h) \/ CommitWithdrawal(h)
       PROVE  StrandedInv'
  <2>1. \A r : ~GivesCredit(h, r) /\ ~GivesGift(h, r)
    BY <1>13 DEF LockBalance, CommitWithdrawal, At, GivesCredit, GivesGift
  <2>2. \A k \in Handlers \ {h} : proc'[k] = proc[k]
    BY <1>13, EndFacts, GotoCommit DEF LockBalance, CommitWithdrawal, At
  <2> QED
    BY <1>13, <1>d, <2>1, <2>2 DEF LockBalance, CommitWithdrawal
<1>14. ASSUME UNCHANGED <<proc, faults, gifts, giftDone, credits, creditDone>>
       PROVE  StrandedInv'
  <2>1. Stranded' = Stranded
    BY <1>14 DEF Stranded, Recorded, GivesCredit, GivesGift, Credit, Gift
  <2> QED
    BY <1>14, <1>a, <2>1 DEF TypeOK
<1>15. ASSUME NEW h \in Handlers, NEW u \in Users, NEW v \in Users,
              RegisterReferral(h, u, v)
       PROVE  StrandedInv'
  BY <1>1, <1>15 DEF RegisterReferral
<1>16. ASSUME NEW h \in Handlers, NEW p \in Payments, ApplyBonus(h, p)
       PROVE  StrandedInv'
  BY <1>1, <1>16 DEF ApplyBonus
<1>17. ASSUME NEW h \in Handlers, NEW u \in Users, NEW a \in Amounts,
              CreateWithdrawal(h, u, a)
       PROVE  StrandedInv'
  BY <1>1, <1>17 DEF CreateWithdrawal
<1> QED
  BY <1>2, <1>3, <1>4, <1>5, <1>6, <1>7, <1>8, <1>9, <1>10, <1>11, <1>12, <1>13,
     <1>14, <1>15, <1>16, <1>17 DEF Next, UpdateUserRole, vars

-----------------------------------------------------------------------------
(* Sums over finite sets.  The library's induction theorems are out of the    *)
(* provers' reach; the pigeonhole principle does their work here.             *)

\* What holds at 0 and at a successor holds up to any number: else adding one
\* would map the numbers it holds of into themselves, one to one but not onto.
LEMMA Climb ==
    ASSUME NEW N \in Nat, NEW A \in SUBSET (0 .. N), 0 \in A,
           \A n \in A : n < N => n + 1 \in A
    PROVE  A = 0 .. N
<1> SUFFICES ASSUME NEW k \in 0 .. N, k \notin A PROVE FALSE
  OBVIOUS
<1> DEFINE B == {n \in A : n < k}
           f == [n \in B |-> n + 1]
<1>1. IsFiniteSet(B) /\ B \subseteq 0 .. N
  <2>1. IsFiniteSet(0 .. N)
    BY FS_Interval
  <2>2. B \in SUBSET (0 .. N)
    OBVIOUS
  <2> QED
    BY <2>1, <2>2, FS_Subset
<1>2. f \in Injection(B, B)
  <2>1. \A n \in B : n + 1 \in B
    BY DEF B
  <2> QED
    BY <2>1, <1>1 DEF Injection, IsInjective
<1>3. f \in Surjection(B, B)
  BY <1>1, <1>2, FS_Injection
<1>4. 0 \in B
  BY DEF B
<1>5. PICK n \in B : f[n] = 0
  BY <1>3, <1>4 DEF Surjection
<1> QED
  BY <1>5, <1>1

Pick(s) == CHOOSE x \in s : TRUE

LEMMA Picked == \A s : s # {} => Pick(s) \in s
BY DEF Pick

\* f adds up the values of a over each set of D.
Sums(f, a, D) == f = [s \in D |-> IF s = {} THEN 0 ELSE a[Pick(s)] + f[s \ {Pick(s)}]]

UpTo(U, n) == {s \in SUBSET U : Cardinality(s) <= n}

LEMMA SmallerSet ==
    ASSUME NEW U, IsFiniteSet(U), NEW s \in SUBSET U, NEW x \in s
    PROVE  /\ s \ {x} \in SUBSET U
           /\ Cardinality(s) \in 1 .. Cardinality(U) 
           /\ Cardinality(s \ {x}) = Cardinality(s) - 1
<1>1. IsFiniteSet(s) /\ Cardinality(s) <= Cardinality(U) /\ Cardinality(U) \in Nat
  BY FS_Subset, FS_CardinalityType
<1>2. Cardinality(s \ {x}) = Cardinality(s) - 1 /\ IsFiniteSet(s \ {x})
  BY <1>1, FS_RemoveElement
<1>3. Cardinality(s) \in Nat /\ Cardinality(s \ {x}) \in Nat
  BY <1>1, <1>2, FS_CardinalityType
<1> QED
  BY <1>1, <1>2, <1>3

LEMMA SumsExist ==
    ASSUME NEW U, IsFiniteSet(U), NEW a
    PROVE  \E f : Sums(f, a, SUBSET U)
<1> DEFINE N == Cardinality(U)
           A == {n \in 0 .. N : \E f : Sums(f, a, UpTo(U, n))}
<1>0. N \in Nat /\ \A s \in SUBSET U : IsFiniteSet(s) /\ Cardinality(s) \in Nat /\ Cardinality(s) <= N
  BY FS_Subset, FS_CardinalityType
<1>1. 0 \in A
  <2>1. UpTo(U, 0) = {{}}
    BY <1>0, FS_EmptySet DEF UpTo
  <2>2. Sums([s \in {{}} |-> 0], a, {{}})
    BY DEF Sums
  <2>3. \E f : Sums(f, a, UpTo(U, 0))
    BY <2>1, <2>2
  <2>4. 0 \in 0 .. N
    BY <1>0
  <2> QED
    BY <2>3, <2>4
<1>2. ASSUME NEW n \in A, n < N PROVE n + 1 \in A
  <2>1. PICK f : Sums(f, a, UpTo(U, n))
    OBVIOUS
  <2> DEFINE g == [s \in UpTo(U, n + 1) |-> IF s = {} THEN 0 ELSE a[Pick(s)] + f[s \ {Pick(s)}]]
  <2>2. n \in Nat /\ UpTo(U, n) \subseteq UpTo(U, n + 1)
    BY <1>0 DEF UpTo
  <2>3. ASSUME NEW s \in UpTo(U, n + 1), s # {} PROVE s \ {Pick(s)} \in UpTo(U, n)
    <3>1. s \in SUBSET U /\ Cardinality(s) <= n + 1 /\ Pick(s) \in s
      BY <2>3, Picked DEF UpTo
    <3>2. s \ {Pick(s)} \in SUBSET U /\ Cardinality(s \ {Pick(s)}) = Cardinality(s) - 1
      BY <3>1, SmallerSet
    <3> QED
      BY <3>1, <3>2, <2>2, <1>0 DEF UpTo
  <2>4. \A s \in UpTo(U, n) : g[s] = f[s]
    <3>1. \A s \in UpTo(U, n) : f[s] = IF s = {} THEN 0 ELSE a[Pick(s)] + f[s \ {Pick(s)}]
      BY <2>1 DEF Sums
    <3> QED
      BY <2>2, <3>1
  <2>5. \A s \in UpTo(U, n + 1) :
           (IF s = {} THEN 0 ELSE a[Pick(s)] + f[s \ {Pick(s)}])
             = (IF s = {} THEN 0 ELSE a[Pick(s)] + g[s \ {Pick(s)}])
    BY <2>3, <2>4
  <2> HIDE DEF g
  <2>6. g = [s \in UpTo(U, n + 1) |-> IF s = {} THEN 0 ELSE a[Pick(s)] + g[s \ {Pick(s)}]]
    BY <2>5 DEF g
  <2>7. Sums(g, a, UpTo(U, n + 1))
    BY <2>6 DEF Sums
  <2>8. n + 1 \in 0 .. N
    BY <1>2, <1>0
  <2> QED
    BY <2>7, <2>8
<1>3. A = 0 .. N
  BY <1>0, <1>1, <1>2, Climb
<1>4. PICK f : Sums(f, a, UpTo(U, N))
  BY <1>0, <1>3
<1>5. UpTo(U, N) = SUBSET U
  BY <1>0 DEF UpTo
<1> QED
  BY <1>4, <1>5

\* Sums are the same for the same sets, however large the universe.
LEMMA SumsAgree ==
    ASSUME NEW U, IsFiniteSet(U), NEW V \in SUBSET U, NEW a, NEW b, NEW f, NEW g,
           \A x \in V : a[x] = b[x],
           Sums(f, a, SUBSET U), Sums(g, b, SUBSET V)
    PROVE  f[V] = g[V]
<1> DEFINE N == Cardinality(V)
           A == {n \in 0 .. N : \A s \in UpTo(V, n) : f[s] = g[s]}
<1>0. IsFiniteSet(V) /\ N \in Nat
       /\ \A s \in SUBSET V : IsFiniteSet(s) /\ Cardinality(s) \in Nat /\ Cardinality(s) <= N
  BY FS_Subset, FS_CardinalityType
<1>f. \A s \in SUBSET V : f[s] = IF s = {} THEN 0 ELSE a[Pick(s)] + f[s \ {Pick(s)}]
  BY DEF Sums
<1>g. \A s \in SUBSET V : g[s] = IF s = {} THEN 0 ELSE b[Pick(s)] + g[s \ {Pick(s)}]
  BY DEF Sums
<1>1. 0 \in A
  <2>1. UpTo(V, 0) = {{}}
    BY <1>0, FS_EmptySet DEF UpTo
  <2>2. f[{}] = 0 /\ g[{}] = 0
    BY <1>f, <1>g
  <2>3. 0 \in 0 .. N
    BY <1>0
  <2> QED
    BY <2>1, <2>2, <2>3
<1>2. ASSUME NEW n \in A, n < N PROVE n + 1 \in A
  <2>1. ASSUME NEW s \in UpTo(V, n + 1), s # {} PROVE f[s] = g[s]
    <3>1. s \in SUBSET V /\ Cardinality(s) <= n + 1 /\ Pick(s) \in s
      BY <2>1, Picked DEF UpTo
    <3>2. s \ {Pick(s)} \in SUBSET V /\ Cardinality(s \ {Pick(s)}) = Cardinality(s) - 1
      BY <3>1, <1>0, SmallerSet
    <3>3. s \ {Pick(s)} \in UpTo(V, n)
      BY <3>1, <3>2, <1>0 DEF UpTo
    <3>4. a[Pick(s)] = b[Pick(s)]
      BY <3>1
    <3> QED
      BY <3>1, <3>3, <3>4, <2>1, <1>f, <1>g
  <2>2. \A s \in UpTo(V, n + 1) : f[s] = g[s]
    BY <2>1, <1>f, <1>g DEF UpTo
  <2>3. n + 1 \in 0 .. N
    BY <1>2, <1>0
  <2> QED
    BY <2>2, <2>3
<1>3. A = 0 .. N
  BY <1>0, <1>1, <1>2, Climb
<1>4. V \in UpTo(V, N)
  BY <1>0 DEF UpTo
<1> QED
  BY <1>0, <1>3, <1>4

\* Any member may be taken off first.
LEMMA SumsTake ==
    ASSUME NEW U, IsFiniteSet(U), NEW a \in [U -> Int], NEW f, Sums(f, a, SUBSET U)
    PROVE  /\ f[{}] = 0
           /\ \A s \in SUBSET U : /\ f[s] \in Int
                                  /\ \A x \in s : f[s] = a[x] + f[s \ {x}]
<1> DEFINE N == Cardinality(U)
           P(s) == f[s] \in Int /\ \A x \in s : f[s] = a[x] + f[s \ {x}]
           A == {n \in 0 .. N : \A s \in UpTo(U, n) : P(s)}
<1>0. N \in Nat
       /\ \A s \in SUBSET U : IsFiniteSet(s) /\ Cardinality(s) \in Nat /\ Cardinality(s) <= N
  BY FS_Subset, FS_CardinalityType
<1>f. \A s \in SUBSET U : f[s] = IF s = {} THEN 0 ELSE a[Pick(s)] + f[s \ {Pick(s)}]
  BY DEF Sums
<1>e. f[{}] = 0
  BY <1>f
<1>1. 0 \in A
  <2>1. UpTo(U, 0) = {{}}
    BY <1>0, FS_EmptySet DEF UpTo
  <2>2. P({})
    BY <1>e
  <2>3. \A s \in UpTo(U, 0) : P(s)
    BY <2>1, <2>2
  <2>4. 0 \in 0 .. N
    BY <1>0
  <2> QED
    BY <2>3, <2>4
<1>2. ASSUME NEW n \in A, n < N PROVE n + 1 \in A
  <2>0. n \in Nat /\ \A s \in UpTo(U, n) : P(s)
    BY <1>0
  <2> HIDE DEF P, A
  <2>1. ASSUME NEW s \in UpTo(U, n + 1), s # {} PROVE P(s)
    <3> DEFINE p == Pick(s)
    <3>1. s \in SUBSET U /\ Cardinality(s) <= n + 1 /\ p \in s
      BY <2>1, Picked DEF UpTo
    <3>2. \A x \in s : s \ {x} \in UpTo(U, n)
      <4> SUFFICES ASSUME NEW x \in s PROVE s \ {x} \in UpTo(U, n)
        OBVIOUS
      <4>1. s \ {x} \in SUBSET U /\ Cardinality(s \ {x}) = Cardinality(s) - 1
        BY <3>1, <1>0, SmallerSet
      <4> QED
        BY <4>1, <3>1, <2>0, <1>0 DEF UpTo
    <3>3. f[s] = a[p] + f[s \ {p}]
      BY <3>1, <2>1, <1>f
    <3>4. \A x \in s : P(s \ {x})
      BY <3>2, <2>0
    <3> HIDE DEF p
    <3>5. f[s] \in Int
      <4>1. f[s \ {p}] \in Int /\ a[p] \in Int
        BY <3>1, <3>4 DEF P
      <4> QED
        BY <3>3, <4>1
    <3>6. ASSUME NEW x \in s, x # p PROVE f[s] = a[x] + f[s \ {x}]
      <4>1. f[s \ {p}] = a[x] + f[(s \ {p}) \ {x}]
        BY <3>1, <3>4, <3>6 DEF P
      <4>2. f[s \ {x}] = a[p] + f[(s \ {x}) \ {p}]
        BY <3>1, <3>4, <3>6 DEF P
      <4>3. (s \ {p}) \ {x} = (s \ {x}) \ {p}
        OBVIOUS
      <4>4. f[s \ {p}] \in Int /\ f[s \ {x}] \in Int /\ a[x] \in Int /\ a[p] \in Int
        BY <3>1, <3>4 DEF P
      <4>5. f[(s \ {p}) \ {x}] \in Int
        <5>1. s \ {p} \in UpTo(U, n) /\ x \in s \ {p}
          BY <3>1, <3>2, <3>6
        <5>2. (s \ {p}) \ {x} \in SUBSET U /\ Cardinality((s \ {p}) \ {x}) = Cardinality(s \ {p}) - 1
          BY <5>1, SmallerSet DEF UpTo
        <5>3. (s \ {p}) \ {x} \in UpTo(U, n)
          BY <5>1, <5>2, <2>0, <1>0 DEF UpTo
        <5> QED
          BY <5>3, <2>0 DEF P
      <4> DEFINE r == f[(s \ {p}) \ {x}]
                 ax == a[x]
                 ap == a[p]
                 fx == f[s \ {x}]
                 fp == f[s \ {p}]
      <4>6. f[s] = ap + fp /\ fp = ax + r /\ fx = ap + r
        BY <3>3, <4>1, <4>2, <4>3
      <4>7. ax \in Int /\ ap \in Int /\ r \in Int
        BY <4>4, <4>5
      <4> HIDE DEF r, ax, ap, fx, fp
      <4>8. f[s] = ax + fx
        BY <4>6, <4>7
      <4> QED
        BY <4>8 DEF ax, fx
    <3> QED
      BY <3>3, <3>5, <3>6 DEF P
  <2>2. P({})
    BY <1>e DEF P
  <2>3. \A s \in UpTo(U, n + 1) : P(s)
    BY <2>1, <2>2
  <2>4. n + 1 \in 0 .. N
    BY <1>2, <1>0 DEF A
  <2> QED
    BY <2>3, <2>4 DEF A
<1>3. A = 0 .. N
  BY <1>0, <1>1, <1>2, Climb
<1>5. UpTo(U, N) = SUBSET U
  BY <1>0 DEF UpTo
<1> QED
  BY <1>0, <1>3, <1>5, <1>e

\* The money of a set of rewards, the property's sum.
Total(S) == MapThenSumSet(LAMBDA c : Share[c[1]][c[2]], S)

LEMMA TotalIsSum ==
    ASSUME NEW S, IsFiniteSet(S)
    PROVE  \E f : Sums(f, [c \in S |-> Share[c[1]][c[2]]], SUBSET S) /\ Total(S) = f[S]
<1> DEFINE a == [c \in S |-> Share[c[1]][c[2]]]
           R(f) == f = [s \in SUBSET S |-> IF s = {} THEN 0
                        ELSE Share[(CHOOSE x \in s : TRUE)[1]][(CHOOSE x \in s : TRUE)[2]]
                             + f[s \ {CHOOSE x \in s : TRUE}]]
<1>1. \A f : R(f) <=> Sums(f, a, SUBSET S)
  <2>1. \A f : \A s \in SUBSET S :
          (IF s = {} THEN 0
           ELSE Share[(CHOOSE x \in s : TRUE)[1]][(CHOOSE x \in s : TRUE)[2]]
                + f[s \ {CHOOSE x \in s : TRUE}])
           = (IF s = {} THEN 0 ELSE a[Pick(s)] + f[s \ {Pick(s)}])
    BY Picked DEF Pick
  <2> QED
    BY <2>1 DEF Sums
<1>2. \E f : R(f)
  <2>1. \E f : Sums(f, a, SUBSET S)
    BY SumsExist
  <2> HIDE DEF R, a
  <2> QED
    BY <1>1, <2>1
<1>3. Total(S) = (CHOOSE f : R(f))[S]
  BY DEF Total, MapThenSumSet, MapThenFoldSet
<1>4. R(CHOOSE f : R(f))
  BY <1>2
<1> HIDE DEF R, a
<1> QED
  BY <1>1, <1>3, <1>4 DEF a

\* One more reward, and its share is added.
LEMMA TotalAdds ==
    ASSUME NEW S \in SUBSET Credits, IsFiniteSet(S), NEW c \in Credits, c \notin S
    PROVE  /\ Total(S) \in Int
           /\ Total(S \cup {c}) = Total(S) + Share[c[1]][c[2]]
<1> DEFINE U == S \cup {c}
           a == [x \in U |-> Share[x[1]][x[2]]]
           b == [x \in S |-> Share[x[1]][x[2]]]
<1>1. IsFiniteSet(U) /\ S \in SUBSET U /\ U \ {c} = S /\ U \in SUBSET U /\ c \in U
  BY FS_AddElement
<1>2. a \in [U -> Int] /\ a[c] = Share[c[1]][c[2]]
  BY MoneyAssumption DEF Credits
<1>7. \A x \in S : a[x] = b[x]
  OBVIOUS
<1>3. PICK f : Sums(f, a, SUBSET U) /\ Total(U) = f[U]
  BY <1>1, TotalIsSum
<1>4. PICK g : Sums(g, b, SUBSET S) /\ Total(S) = g[S]
  BY <1>1, TotalIsSum
<1> HIDE DEF U, a, b
<1>5. f[S] = g[S]
  BY <1>1, <1>7, <1>3, <1>4, SumsAgree
<1>6. f[U] = a[c] + f[U \ {c}] /\ f[S] \in Int
  <2>1. \A s \in SUBSET U : /\ f[s] \in Int
                           /\ \A x \in s : f[s] = a[x] + f[s \ {x}]
    BY <1>1, <1>2, <1>3, SumsTake
  <2> QED
    BY <2>1, <1>1
<1>8. Total(U) = a[c] + Total(S)
  BY <1>1, <1>3, <1>4, <1>5, <1>6
<1>9. a[c] \in Int /\ Total(S) \in Int
  BY <1>1, <1>2, <1>4, <1>5, <1>6
<1>10. Total(U) = Total(S) + a[c]
  BY <1>8, <1>9
<1> QED
  BY <1>2, <1>9, <1>10 DEF U

LEMMA TotalOfNothing == Total({}) = 0
<1>1. PICK f : /\ Sums(f, [c \in {} |-> Share[c[1]][c[2]]], SUBSET {})
               /\ Total({}) = f[{}]
  BY FS_EmptySet, TotalIsSum
<1> QED
  BY <1>1 DEF Sums

-----------------------------------------------------------------------------
(* The money.  A reward is in a partner's sum from the UPDATE of his balance *)
(* on; which rewards that are is not a variable, so the invariant says that  *)
(* there is such a set.                                                      *)

\* A credit that is being given is its call's own, and not marked; the money
\* moves between "give" and "mark".
Owned ==
    \A h \in Handlers : \A c \in Credits : GivesCredit(h, c) =>
        /\ credits[c] = proc[h].partner
        /\ \A k \in Handlers : GivesCredit(k, c) => k = h
        /\ proc[h].pc = "give" => c \notin creditDone

Giving(c) == \E h \in Handlers : GivesCredit(h, c) /\ proc[h].pc = "give"
Given(c) == \E h \in Handlers : GivesCredit(h, c) /\ proc[h].pc = "mark"

PaidBy(S, u) ==
    /\ S \subseteq Recorded /\ IsFiniteSet(S)
    /\ \A c \in S : credits[c] = u /\ ~Giving(c)
    /\ \A c \in Recorded : credits[c] = u /\ (c \in creditDone \/ Given(c)) => c \in S
    /\ balance[u] + withdrawn[u] = Total(S)

Backed == \A u \in Users : \E S \in SUBSET Credits : PaidBy(S, u)

LEMMA MoneyStep ==
    ASSUME TypeOK, TypeOK', AtWork, Owned, Backed, [Next]_vars
    PROVE  Owned' /\ Backed'
<1> USE DEF people, days, money
\* A step that starts to give nothing, and leaves what was given.
<1>a. ASSUME NEW h \in Handlers, UNCHANGED <<credits, creditDone>>,
             \A u \in Users : balance'[u] + withdrawn'[u] = balance[u] + withdrawn[u],
             \A k \in Handlers \ {h} : proc'[k] = proc[k],
             \A c \in Credits : ~GivesCredit(h, c)'
      PROVE  Owned' /\ Backed'
  <2>1. \A k \in Handlers, c \in Credits :
            GivesCredit(k, c)' => GivesCredit(k, c) /\ proc'[k] = proc[k]
    BY <1>a DEF GivesCredit, Credit
  <2>2. Owned'
    BY <1>a, <2>1 DEF Owned
  <2>3. \A c \in Credits : (Giving(c)' => Giving(c)) /\ (Given(c)' => Given(c))
    BY <2>1 DEF Giving, Given
  <2>4. Recorded' = Recorded /\ Recorded \subseteq Credits
    BY <1>a DEF Recorded
  <2>5. \A u \in Users, S \in SUBSET Credits : PaidBy(S, u) => PaidBy(S, u)'
    BY <1>a, <2>3, <2>4 DEF PaidBy
  <2> QED
    BY <2>2, <2>5 DEF Backed
<1>b. ASSUME NEW h \in Handlers, RecordCredit(h), credits[Credit(h)] = None
      PROVE  Owned' /\ Backed'
  <2>0. PICK d : d = Credit(h)
    OBVIOUS
  <2>1. d \in Credits /\ d \notin Recorded /\ proc[h].kind = "apply"
    BY <1>b, <2>0, OwnReward DEF RecordCredit, At, Recorded
  <2>2. /\ proc'[h].kind = "apply" /\ proc'[h].pc = "give" /\ Credit(h)' = d
        /\ proc'[h].partner = proc[h].partner
        /\ \A k \in Handlers \ {h} : proc'[k] = proc[k]
    BY <1>b, <2>0, GotoApply DEF RecordCredit, At, Credit, Applying
  <2>3. credits'[d] = proc[h].partner
        /\ \A c \in Credits \ {d} : credits'[c] = credits[c]
    BY <1>b, <2>0, <2>1 DEF RecordCredit, TypeOK
  <2>4. UNCHANGED <<creditDone, balance, withdrawn>>
    BY <1>b DEF RecordCredit
  <2>5. \A k \in Handlers : ~GivesCredit(k, d)
    BY <2>1 DEF AtWork, GivesCredit
  <2>6. \A c \in Credits, k \in Handlers :
            GivesCredit(k, c)' =>
                IF k = h THEN c = d
                ELSE c # d /\ GivesCredit(k, c) /\ proc'[k] = proc[k]
    BY <2>2, <2>5 DEF GivesCredit, Credit
  <2>7. d \notin creditDone
    BY <2>1 DEF TypeOK
  <2>8. Owned'
    BY <2>2, <2>3, <2>4, <2>6, <2>7 DEF Owned
  <2>9. \A c \in Credits \ {d} : (Giving(c)' => Giving(c)) /\ (Given(c)' => Given(c))
    BY <2>6 DEF Giving, Given
  <2>10. ~Given(d)'
    BY <2>1, <2>2, <2>6 DEF Given
  <2>11. Recorded \subseteq Recorded' /\ Recorded' \subseteq Recorded \cup {d}
         /\ Recorded' \subseteq Credits
    BY <2>1, <2>3 DEF Recorded
  <2>12. ASSUME NEW u \in Users, NEW S \in SUBSET Credits, PaidBy(S, u)
         PROVE  PaidBy(S, u)'
    <3>1. d \notin S
      BY <2>1, <2>12 DEF PaidBy
    <3>2. S \subseteq Recorded' /\ \A c \in S : credits'[c] = u /\ ~Giving(c)'
      BY <2>3, <2>9, <2>11, <2>12, <3>1 DEF PaidBy
    <3>3. \A c \in Recorded' : credits'[c] = u /\ (c \in creditDone' \/ Given(c)') => c \in S
      BY <2>3, <2>4, <2>7, <2>9, <2>10, <2>11, <2>12 DEF PaidBy
    <3> QED
      BY <2>4, <2>12, <3>2, <3>3 DEF PaidBy
  <2> QED
    BY <2>8, <2>12 DEF Backed
<1>c. ASSUME NEW h \in Handlers, AddBalance(h) PROVE Owned' /\ Backed'
  <2>0. PICK d, w : d = Credit(h) /\ w = proc[h].partner
    OBVIOUS
  <2>1. /\ d \in Credits /\ GivesCredit(h, d) /\ w \in Users /\ d \in Recorded
        /\ proc[h].kind = "apply" /\ proc[h].pc = "give"
    BY <1>c, <2>0, OwnReward DEF AddBalance, At, GivesCredit, AtWork
  <2>2. /\ proc'[h].kind = "apply" /\ proc'[h].pc = "mark" /\ Credit(h)' = d
        /\ proc'[h].partner = w
        /\ \A k \in Handlers \ {h} : proc'[k] = proc[k]
    BY <1>c, <2>0, GotoApply DEF AddBalance, At, Credit, Applying
  <2>3. UNCHANGED <<credits, creditDone, withdrawn>> /\ Recorded' = Recorded
    BY <1>c DEF AddBalance, Recorded
  <2>4. /\ balance'[w] = balance[w] + Share[d[1]][d[2]]
        /\ \A u \in Users \ {w} : balance'[u] = balance[u]
    BY <1>c, <2>0, <2>1 DEF AddBalance, TypeOK, Credit
  <2>5. credits[d] = w /\ d \notin creditDone
        /\ \A k \in Handlers : GivesCredit(k, d) => k = h
    BY <2>0, <2>1 DEF Owned
  <2>6. \A c \in Credits, k \in Handlers :
            GivesCredit(k, c)' <=> GivesCredit(k, c)
    BY <2>0, <2>1, <2>2 DEF GivesCredit, Credit
  <2>7. \A c \in Credits, k \in Handlers :
            GivesCredit(k, c)' /\ proc'[k].pc = "give"
                => GivesCredit(k, c) /\ proc[k].pc = "give" /\ k # h
    BY <2>2, <2>6
  <2>8. Owned'
    <3>1. \A k \in Handlers : proc'[k].partner = proc[k].partner
      BY <2>0, <2>2
    <3> QED
      BY <2>3, <2>6, <2>7, <3>1 DEF Owned
  <2>9. \A c \in Credits : (Giving(c)' => Giving(c) /\ c # d)
    BY <2>5, <2>7 DEF Giving
  <2>10. \A c \in Credits \ {d} : (Given(c)' => Given(c))
    <3>1. \A c \in Credits \ {d} : ~GivesCredit(h, c)
      BY <2>0 DEF GivesCredit
    <3> QED
      BY <2>2, <2>6, <3>1 DEF Given
  <2>11. ASSUME NEW u \in Users \ {w}, NEW S \in SUBSET Credits, PaidBy(S, u)
         PROVE  PaidBy(S, u)'
    <3>1. \A c \in Recorded : credits[c] = u => c # d /\ c \in Credits
      BY <2>5 DEF Recorded
    <3>2. balance'[u] + withdrawn'[u] = Total(S)
      BY <2>3, <2>4, <2>11 DEF PaidBy
    <3>3. \A c \in Recorded : credits[c] = u /\ (c \in creditDone \/ Given(c)') => c \in S
      BY <2>10, <2>11, <3>1 DEF PaidBy
    <3>4. \A c \in S : credits[c] = u /\ ~Giving(c)'
      BY <2>9, <2>11 DEF PaidBy
    <3> QED
      BY <2>3, <2>11, <3>2, <3>3, <3>4 DEF PaidBy
  <2>12. ASSUME NEW S \in SUBSET Credits, PaidBy(S, w)
         PROVE  PaidBy(S \cup {d}, w)'
    <3>1. Giving(d)
      BY <2>1 DEF Giving
    <3>2. d \notin S /\ IsFiniteSet(S)
      BY <2>12, <3>1 DEF PaidBy
    <3>3. Total(S) \in Int /\ Total(S \cup {d}) = Total(S) + Share[d[1]][d[2]]
      BY <2>1, <3>2, TotalAdds
    <3>4. balance[w] + withdrawn[w] = Total(S)
      BY <2>12 DEF PaidBy
    <3>5. balance[w] \in Int /\ withdrawn[w] \in Int /\ Share[d[1]][d[2]] \in Int
      BY <2>1, MoneyAssumption DEF TypeOK, Credits
    <3>6. balance'[w] + withdrawn'[w] = Total(S \cup {d})
      <4> DEFINE t == Total(S)
                 tt == Total(S \cup {d})
                 x == Share[d[1]][d[2]]
      <4>1. tt = t + x /\ t = balance[w] + withdrawn[w] /\ t \in Int
        BY <3>3, <3>4
      <4>2. balance'[w] = balance[w] + x /\ withdrawn'[w] = withdrawn[w] /\ x \in Int
        BY <2>3, <2>4, <3>5
      <4> HIDE DEF t, tt, x
      <4>3. balance'[w] + withdrawn'[w] = tt
        BY <4>1, <4>2, <3>5
      <4> QED
        BY <4>3 DEF tt
    <3>7. IsFiniteSet(S \cup {d})
      BY <3>2, FS_AddElement
    <3>8. \A c \in S \cup {d} : credits[c] = w /\ ~Giving(c)'
      BY <2>1, <2>5, <2>9, <2>12 DEF PaidBy
    <3>9. \A c \in Recorded : credits[c] = w /\ (c \in creditDone \/ Given(c)')
                                 => c \in S \cup {d}
      BY <2>10, <2>12 DEF PaidBy, Recorded
    <3>10. S \cup {d} \subseteq Recorded
      BY <2>1, <2>12 DEF PaidBy
    <3> QED
      BY <2>3, <3>6, <3>7, <3>8, <3>9, <3>10 DEF PaidBy
  <2>13. ASSUME NEW u \in Users PROVE \E S \in SUBSET Credits : PaidBy(S, u)'
    <3>1. PICK S \in SUBSET Credits : PaidBy(S, u)
      BY DEF Backed
    <3>2. CASE u = w
      <4>1. PaidBy(S \cup {d}, w)' /\ S \cup {d} \in SUBSET Credits
        BY <2>1, <2>12, <3>1, <3>2
      <4> QED
        BY <3>2, <4>1
    <3>3. CASE u # w
      BY <2>11, <3>1, <3>3
    <3> QED
      BY <3>2, <3>3
  <2> QED
    BY <2>8, <2>13 DEF Backed
<1>d. ASSUME NEW h \in Handlers, MarkCredit(h) PROVE Owned' /\ Backed'
  <2>0. PICK d : d = Credit(h)
    OBVIOUS
  <2>1. /\ d \in Credits /\ d \in Recorded /\ GivesCredit(h, d) /\ proc[h].pc = "mark"
        /\ proc[h].kind = "apply"
    BY <1>d, <2>0, OwnReward DEF MarkCredit, At, GivesCredit, AtWork
  <2>2. /\ \A c \in Credits : ~GivesCredit(h, c)'
        /\ \A k \in Handlers \ {h} : proc'[k] = proc[k]
    BY <1>d, <2>1, NextChannelFacts DEF MarkCredit, GivesCredit, Idle
  <2>3. /\ UNCHANGED <<credits, balance, withdrawn>> /\ creditDone' = creditDone \cup {d}
        /\ Recorded' = Recorded
    BY <1>d, <2>0 DEF MarkCredit, Recorded
  <2>4. \A k \in Handlers, c \in Credits :
            GivesCredit(k, c)' => k # h /\ GivesCredit(k, c) /\ proc'[k] = proc[k]
    BY <2>2 DEF GivesCredit, Credit
  <2>5. \A k \in Handlers : ~GivesCredit(k, d)'
    BY <2>1, <2>4 DEF Owned
  <2>6. Owned'
    BY <2>3, <2>4, <2>5 DEF Owned
  <2>7. \A c \in Credits : (Giving(c)' => Giving(c)) /\ (Given(c)' => Given(c))
    BY <2>4 DEF Giving, Given
  <2>8. Given(d)
    BY <2>1 DEF Given
  <2>9. \A u \in Users, S \in SUBSET Credits : PaidBy(S, u) => PaidBy(S, u)'
    BY <2>1, <2>3, <2>7, <2>8 DEF PaidBy, Recorded
  <2> QED
    BY <2>6, <2>9 DEF Backed
<1>e. ASSUME NEW h \in Handlers, CommitWithdrawal(h) PROVE Owned' /\ Backed'
  <2>1. proc[h] \in Withdrawing
    BY <1>e, KindTells DEF CommitWithdrawal, At, TypeOK
  <2>2. proc[h].user \in Users /\ proc[h].amount \in Nat
    BY <2>1, MoneyAssumption DEF Withdrawing
  <2>3. \A u \in Users : balance'[u] + withdrawn'[u] = balance[u] + withdrawn[u]
    BY <1>e, <2>2 DEF CommitWithdrawal, TypeOK
  <2>4. \A c \in Credits : ~GivesCredit(h, c)'
    BY <1>e, EndFacts DEF CommitWithdrawal, GivesCredit, Idle
  <2> QED
    BY <1>a, <1>e, <2>3, <2>4, EndFacts DEF CommitWithdrawal
\* A step of a call that gives no credit after it.
<1>f. ASSUME NEW h \in Handlers, UNCHANGED money,
             \A k \in Handlers \ {h} : proc'[k] = proc[k],
             \/ proc'[h].kind # "apply"
             \/ proc'[h].pc \notin {"give", "mark"}
      PROVE  Owned' /\ Backed'
  <2>1. \A c \in Credits : ~GivesCredit(h, c)'
    BY <1>f DEF GivesCredit
  <2> QED
    BY <1>a, <1>f, <2>1
<1>1. ASSUME NEW h \in Handlers, NEW u \in Users, NEW v \in Users, RegisterReferral(h, u, v)
      PROVE  Owned' /\ Backed'
  <2>1. proc'[h].kind = "register" /\ \A k \in Handlers \ {h} : proc'[k] = proc[k]
    BY <1>1 DEF RegisterReferral, Call, TypeOK
  <2> QED
    BY <1>1, <1>f, <2>1 DEF RegisterReferral
<1>2. ASSUME NEW h \in Handlers, RegisterStep(h) PROVE Owned' /\ Backed'
  <2>1. UNCHANGED money
    BY <1>2 DEF RegisterStep, CreateRelationship, RecordGift, GiveDays, MarkGift,
                RegisterFails
  <2> QED
    BY <1>2, <1>f, <2>1, RegisterMoves
<1>3. ASSUME NEW h \in Handlers, NEW p \in Payments, ApplyBonus(h, p)
      PROVE  Owned' /\ Backed'
  <2>1. proc'[h].pc \notin {"give", "mark"} /\ \A k \in Handlers \ {h} : proc'[k] = proc[k]
    BY <1>3 DEF ApplyBonus, Call, TypeOK
  <2> QED
    BY <1>3, <1>f, <2>1 DEF ApplyBonus
<1>4. ASSUME NEW h \in Handlers, proc[h].kind = "apply", UNCHANGED money,
             \/ NextChannel(h) \/ Goto(h, "campaign")
      PROVE  Owned' /\ Backed'
  <2>1. CASE NextChannel(h)
    BY <1>4, <1>f, <2>1, NextChannelFacts DEF Idle
  <2>2. CASE Goto(h, "campaign")
    BY <1>4, <1>f, <2>2, GotoApply
  <2> QED
    BY <1>4, <2>1, <2>2
<1>5. ASSUME NEW h \in Handlers, RecordCredit(h), credits[Credit(h)] # None
      PROVE  Owned' /\ Backed'
  BY <1>4, <1>5 DEF RecordCredit, At
<1>6. ASSUME NEW h \in Handlers, MarkPurchased(h) \/ ApplyFails(h)
      PROVE  Owned' /\ Backed'
  BY <1>4, <1>6 DEF MarkPurchased, ApplyFails, IgnoredError, At
<1>7. ASSUME NEW h \in Handlers, ReadAttribution(h) PROVE Owned' /\ Backed'
  <2>1. UNCHANGED money
    BY <1>7 DEF ReadAttribution
  <2> QED
    BY <1>7, <1>f, <2>1, AttributionFacts DEF Idle
<1>8. ASSUME NEW h \in Handlers, NEW u \in Users, NEW a \in Amounts,
             CreateWithdrawal(h, u, a)
      PROVE  Owned' /\ Backed'
  <2>1. proc'[h].kind = "withdraw" /\ \A k \in Handlers \ {h} : proc'[k] = proc[k]
    BY <1>8 DEF CreateWithdrawal, Call, TypeOK
  <2> QED
    BY <1>8, <1>f, <2>1 DEF CreateWithdrawal
<1>9. ASSUME NEW h \in Handlers, LockBalance(h) PROVE Owned' /\ Backed'
  <2>1. CASE Goto(h, "commit")
    BY <1>9, <1>f, <2>1, GotoCommit DEF LockBalance, At, Withdrawing
  <2>2. CASE End(h)
    BY <1>9, <1>f, <2>2, EndFacts DEF LockBalance, Idle
  <2> QED
    BY <1>9, <2>1, <2>2 DEF LockBalance
<1>10. ASSUME NEW h \in Handlers, CutOff(h) PROVE Owned' /\ Backed'
  BY <1>10, <1>f, EndFacts DEF CutOff, Idle
<1>11. ASSUME UNCHANGED <<proc, money>> PROVE Owned' /\ Backed'
  BY <1>11 DEF Owned, Backed, PaidBy, Giving, Given, GivesCredit, Credit, Recorded
<1> QED
  BY <1>b, <1>c, <1>d, <1>e, <1>1, <1>2, <1>3, <1>5, <1>6, <1>7, <1>8, <1>9, <1>10, <1>11
     DEF Next, UpdateUserRole, vars, RegisterStep

LEMMA BackedIsMoney == TypeOK /\ Backed => MoneyIsBacked
<1> SUFFICES ASSUME TypeOK, Backed, NEW u \in Users
             PROVE  \E S \in SUBSET Recorded :
                        /\ {c \in creditDone : credits[c] = u} \subseteq S
                        /\ \A c \in S : credits[c] = u
                        /\ balance[u] + withdrawn[u] = Total(S)
  BY DEF MoneyIsBacked, Total
<1>1. PICK S \in SUBSET Credits : PaidBy(S, u)
  BY DEF Backed
<1>2. S \in SUBSET Recorded /\ {c \in creditDone : credits[c] = u} \subseteq S
  BY <1>1 DEF PaidBy, TypeOK
<1> QED
  BY <1>1, <1>2 DEF PaidBy

LEMMA MoneyInit == Init => Owned /\ Backed
<1> SUFFICES ASSUME Init PROVE Owned /\ Backed
  OBVIOUS
<1>1. Recorded = {} /\ \A h \in Handlers, c \in Credits : ~GivesCredit(h, c)
  BY DEF Init, Recorded, GivesCredit, Idle
<1>2. \A u \in Users : PaidBy({}, u)
  BY <1>1, TotalOfNothing, FS_EmptySet DEF Init, PaidBy
<1> QED
  BY <1>1, <1>2 DEF Owned, Backed

-----------------------------------------------------------------------------
(* The theorems.                                                            *)

IInv == TypeOK /\ AtWork /\ Solvent /\ InviteInv /\ StrandedInv /\ Owned /\ Backed

LEMMA InitInv == Init => IInv
<1> SUFFICES ASSUME Init PROVE IInv
  OBVIOUS
<1>1. TypeOK
  BY UsersAssumption, BoundsAssumption DEF Init, TypeOK, Roles, Recorded, Process
<1>2. \A h \in Handlers : proc[h].kind = "idle"
  BY DEF Init, Idle
<1>3. Stranded = {}
  BY DEF Init, Stranded, Recorded
<1>4. StrandedInv
  BY <1>3, FS_EmptySet DEF Init, StrandedInv, StrandedByFailures
<1>5. AtWork /\ Solvent /\ InviteInv
  BY <1>2 DEF Init, AtWork, Solvent, At, InviteInv, Claims, OneInviterRewarded
<1> QED
  BY <1>1, <1>4, <1>5, MoneyInit DEF IInv

\* Whatever calls interleave, are repeated or fail, IInv holds.
LEMMA Invariance == Spec => []IInv
<1>1. IInv /\ [Next]_vars => IInv'
  BY TypeStep, AtWorkStep, SolventStep, InviteStep, StrandedStep, MoneyStep DEF IInv
<1> QED
  BY InitInv, <1>1, PTL DEF Spec

\* The variables keep their types.  Since balance is a function to Nat, this
\* says that withdrawals, credits and failures never overdraw a balance.
THEOREM TypeCorrect == Spec => []TypeOK
BY Invariance, PTL DEF IInv

\* However many inviters claim one new user, and however often: he and one of
\* them are rewarded, each once.
THEOREM OneInviter == Spec => []OneInviterRewarded
BY Invariance, PTL DEF IInv, InviteInv

\* There are never more rewards waiting for a hand than there were failures.
THEOREM Stranding == Spec => []StrandedByFailures
BY Invariance, PTL DEF IInv, StrandedInv

\* What a partner has, with what he has drawn, is to the last unit the sum of
\* rewards recorded for him, every reward marked as paid among them: whatever
\* calls of ApplyBonus and CreateWithdrawal overlap, fail or are repeated, no
\* reward is paid twice and none is marked without its money.
THEOREM Money == Spec => []MoneyIsBacked
BY Invariance, BackedIsMoney, PTL DEF IInv
=============================================================================
