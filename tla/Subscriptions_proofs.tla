------------------------- MODULE Subscriptions_proofs -------------------------
(***************************************************************************)
(* Theorems about Subscriptions, for any users, plans, bonuses, handlers   *)
(* and numbers of calls and days.                                          *)
(*                                                                         *)
(* A transaction writes what it computed from a row it read some           *)
(* statements ago.  The argument is the one of the code: what it read is   *)
(* still so, because of the locks it holds (Respects), and what may move   *)
(* under it, the clock, moves once at most.                                *)
(*                                                                         *)
(* At the end: which transactions a deadlock can hold, that a lock is all  *)
(* that a transaction ever waits for, and that the days of a subscription  *)
(* that counts are not taken away.                                         *)
(***************************************************************************)
EXTENDS Subscriptions, SequenceTheorems, FiniteSetTheorems, TLAPS

\* The kind of a transaction tells whether there is one.
LEMMA KindTells ==
    ASSUME TypeOK, NEW h \in Handlers
    PROVE  /\ tx[h].kind = "idle" <=> tx[h] = Idle
           /\ tx[h] # Idle => tx[h] \in Transaction
           /\ tx[h].kind \in {"create", "trial", "bonus", "claim"} => tx[h] \in Transaction
BY DEF TypeOK, Transaction, Idle

\* A transaction moves to t; no other is disturbed.
LEMMA TxMoves ==
    ASSUME TypeOK, NEW h \in Handlers, NEW t \in Transaction \cup {Idle},
           tx' = [tx EXCEPT ![h] = t]
    PROVE  /\ tx' \in [Handlers -> Transaction \cup {Idle}]
           /\ tx'[h] = t
           /\ \A g \in Handlers \ {h} : tx'[g] = tx[g]
BY DEF TypeOK

\* The rows of a table, by their ids.
LEMMA TableFacts ==
    ASSUME NEW t \in Seq(Row)
    PROVE  /\ Len(t) \in Nat /\ DOMAIN t = 1 .. Len(t)
           /\ \A s \in DOMAIN t : /\ t[s] \in Row /\ t[s].user \in Users
                                  /\ t[s].status \in Status /\ t[s].expires \in Nat
<1>1. Len(t) \in Nat /\ DOMAIN t = 1 .. Len(t) /\ t \in [1 .. Len(t) -> Row]
  BY LenProperties
<1> QED
  BY <1>1 DEF Row

LEMMA RowFacts ==
    ASSUME TypeOK
    PROVE  /\ Len(subs) \in Nat /\ DOMAIN subs = 1 .. Len(subs)
           /\ \A s \in DOMAIN subs : /\ subs[s] \in Row /\ subs[s].user \in Users
                                     /\ subs[s].status \in Status /\ subs[s].expires \in Nat
BY TableFacts DEF TypeOK

\* UPDATE of one row.
LEMMA UpdateFacts ==
    ASSUME TypeOK, NEW s \in DOMAIN subs, NEW r \in Row, subs' = [subs EXCEPT ![s] = r]
    PROVE  /\ subs' \in Seq(Row) /\ Len(subs') = Len(subs) /\ DOMAIN subs' = DOMAIN subs
           /\ subs'[s] = r /\ \A t \in DOMAIN subs \ {s} : subs'[t] = subs[t]
<1>1. s \in 1 .. Len(subs) /\ subs \in Seq(Row) /\ DOMAIN subs = 1 .. Len(subs)
  BY RowFacts DEF TypeOK
<1>2. subs' \in Seq(Row) /\ Len(subs') = Len(subs)
  BY <1>1, ExceptSeq
<1> QED
  BY <1>1, <1>2, ExceptSeq

\* INSERT.
LEMMA InsertFacts ==
    ASSUME TypeOK, NEW r \in Row, subs' = Append(subs, r)
    PROVE  /\ subs' \in Seq(Row) /\ Len(subs') = Len(subs) + 1
           /\ subs'[Len(subs) + 1] = r /\ \A t \in DOMAIN subs : subs'[t] = subs[t]
           /\ DOMAIN subs' = DOMAIN subs \cup {Len(subs) + 1}
BY RowFacts DEF TypeOK

-----------------------------------------------------------------------------
(* The inductive invariant.                                                 *)

\* A subscription that counts.
Live(s) == Current(s) /\ subs[s].expires > now

\* No two transactions hold the lock of one row.
UserLocks == \A g, h \in Handlers, u \in Users :
                 HoldsUser(g, u) /\ HoldsUser(h, u) => g = h
SubLocks == \A g, h \in Handlers, s \in Nat \ {0} :
                HoldsSub(g, s) /\ HoldsSub(h, s) => g = h

\* A transaction began today or yesterday, and its row is its user's.
TxRow(h) ==
    tx[h] # Idle =>
        /\ tx[h].start <= now /\ now <= tx[h].start + 1
        /\ tx[h].sub # 0 => tx[h].sub \in DOMAIN subs /\ subs[tx[h].sub].user = tx[h].user

\* What a transaction that is ready to commit knows: the end it starts from is
\* the one the row has, or a day it may take for today.
CreateInv(h) ==
    tx[h].kind = "create" =>
        /\ tx[h].days \in PlanDays
        /\ tx[h].pc = "commit" =>
              /\ tx[h].sub = 0 => tx[h].base = tx[h].start
              /\ tx[h].sub # 0 => IF Live(tx[h].sub) THEN tx[h].base = subs[tx[h].sub].expires
                                  ELSE tx[h].start <= tx[h].base /\ tx[h].base <= now

TrialInv(h) ==
    tx[h].kind = "trial" =>
        /\ tx[h].days \in TrialDays /\ tx[h].sub = 0
        /\ tx[h].pc = "commit" => tx[h].base = tx[h].start /\ tx[h].user \notin trialUsed

BonusInv(h) ==
    tx[h].kind = "bonus" =>
        /\ tx[h].days \in BonusDays
        /\ tx[h].pc = "lock" => tx[h].sub # 0
        /\ tx[h].pc = "commit" => /\ tx[h].sub # 0 /\ Current(tx[h].sub)
                                  /\ tx[h].base = subs[tx[h].sub].expires
                                  /\ tx[h].start < tx[h].base

\* The channel bonus alone does not lock the row: it may have grown.
ClaimInv(h) ==
    tx[h].kind = "claim" /\ tx[h].pc = "commit" =>
        /\ tx[h].sub # 0 /\ tx[h].user \notin claimed
        /\ tx[h].base <= subs[tx[h].sub].expires
        /\ tx[h].start < tx[h].base

TxInv(h) == TxRow(h) /\ CreateInv(h) /\ TrialInv(h) /\ BonusInv(h) /\ ClaimInv(h)

IInv == TypeOK /\ UserLocks /\ SubLocks /\ \A h \in Handlers : TxInv(h)

\* The rows stay; what g has locked, nobody else changes; and of the rows of a
\* user whom g has locked, others may at most prolong one.
Respects(g) ==
    /\ DOMAIN subs \subseteq DOMAIN subs'
    /\ \A s \in DOMAIN subs : subs'[s].user = subs[s].user
    /\ \A s \in DOMAIN subs : HoldsSub(g, s) => subs'[s] = subs[s]
    /\ \A u \in Users : HoldsUser(g, u) =>
          /\ u \notin trialUsed => u \notin trialUsed'
          /\ u \notin claimed => u \notin claimed'
          /\ \A s \in RowsOf(u) : subs'[s].expires >= subs[s].expires

\* Time stands still, or a day passes and nothing else.
Passes == \/ now' = now
          \/ /\ now' = now + 1 /\ subs' = subs /\ tx' = tx
             /\ \A h \in Handlers : tx[h] # Idle => tx[h].start = now

\* What a transaction knows stays true while it waits.
LEMMA TxStable ==
    ASSUME IInv, TypeOK', NEW g \in Handlers, tx'[g] = tx[g], Respects(g), Passes
    PROVE  TxInv(g)'
<1>t. TypeOK /\ TxInv(g)
  BY DEF IInv
<1>0. CASE tx[g] = Idle
  BY <1>0 DEF TxInv, TxRow, CreateInv, TrialInv, BonusInv, ClaimInv, Idle
<1>1. CASE tx[g] # Idle
  <2>0. /\ tx[g] \in Transaction /\ tx[g].user \in Users /\ tx[g].start \in Nat
        /\ tx[g].sub \in Nat /\ tx[g].base \in Nat /\ now \in Nat
    BY <1>t, <1>1, KindTells DEF TypeOK, Transaction
  <2>1. TxRow(g)'
    <3>1. tx[g].start <= now' /\ now' <= tx[g].start + 1
      BY <1>t, <1>1, <2>0 DEF Passes, TxInv, TxRow
    <3> QED
      BY <1>t, <1>1, <3>1 DEF TxInv, TxRow, Respects
  <2>2. CreateInv(g)'
    <3> SUFFICES ASSUME tx[g].kind = "create", tx[g].pc = "commit", tx[g].sub # 0
                 PROVE  IF Live(tx[g].sub)' THEN tx[g].base = subs'[tx[g].sub].expires
                        ELSE tx[g].start <= tx[g].base /\ tx[g].base <= now'
      BY <1>t DEF TxInv, CreateInv
    <3> DEFINE s == tx[g].sub
    <3>1. s \in DOMAIN subs /\ subs'[s] = subs[s] /\ subs[s].expires \in Nat
      BY <1>t, <1>1, RowFacts DEF TxInv, TxRow, Respects, HoldsSub
    <3>2. IF Live(s) THEN tx[g].base = subs[s].expires
          ELSE tx[g].start <= tx[g].base /\ tx[g].base <= now
      BY <1>t DEF TxInv, CreateInv
    <3>3. tx[g].start <= now
      BY <1>t, <1>1 DEF TxInv, TxRow
    <3> HIDE DEF s
    <3>4. CASE now' = now
      BY <3>1, <3>2, <3>4 DEF s, Live, Current
    <3>5. CASE now' = now + 1 /\ tx[g].start = now
      BY <2>0, <3>1, <3>2, <3>5 DEF s, Live, Current
    <3> QED
      BY <1>1, <3>4, <3>5 DEF Passes
  <2>3. TrialInv(g)'
    BY <1>t, <2>0 DEF TxInv, TrialInv, Respects, HoldsUser
  <2>4. BonusInv(g)'
    BY <1>t, <1>1 DEF TxInv, TxRow, BonusInv, Respects, HoldsSub, Current
  <2>5. ClaimInv(g)'
    <3> SUFFICES ASSUME tx[g].kind = "claim", tx[g].pc = "commit"
                 PROVE  /\ tx[g].sub # 0 /\ tx[g].user \notin claimed'
                        /\ tx[g].base <= subs'[tx[g].sub].expires
                        /\ tx[g].start < tx[g].base
      BY DEF ClaimInv
    <3>1. /\ tx[g].sub # 0 /\ tx[g].user \notin claimed
          /\ tx[g].base <= subs[tx[g].sub].expires /\ tx[g].start < tx[g].base
      BY <1>t DEF TxInv, ClaimInv
    <3>2. /\ tx[g].sub \in RowsOf(tx[g].user) /\ HoldsUser(g, tx[g].user)
          /\ tx[g].sub \in DOMAIN subs
      BY <1>t, <1>1, <3>1 DEF TxInv, TxRow, RowsOf, HoldsUser
    <3>3. tx[g].user \notin claimed' /\ subs'[tx[g].sub].expires >= subs[tx[g].sub].expires
      BY <2>0, <3>1, <3>2 DEF Respects
    <3>4. subs[tx[g].sub].expires \in Nat /\ subs'[tx[g].sub].expires \in Nat
      BY <1>t, <3>2, TableFacts DEF TypeOK, Respects
    <3> QED
      BY <2>0, <3>1, <3>3, <3>4
  <2> QED
    BY <2>1, <2>2, <2>3, <2>4, <2>5 DEF TxInv
<1> QED
  BY <1>0, <1>1

\* The table and the flags stay as they are.
LEMMA QuietRespects ==
    ASSUME TypeOK, UNCHANGED <<subs, trialUsed, claimed>>, NEW g \in Handlers
    PROVE  Respects(g)
<1>1. \A s \in DOMAIN subs : subs[s].expires >= subs[s].expires
  BY RowFacts
<1> QED
  BY <1>1 DEF Respects, RowsOf

\* One transaction moves.  It may come into locks that are free.
LEMMA Moves ==
    ASSUME IInv, TypeOK', NEW h \in Handlers, now' = now,
           \A g \in Handlers \ {h} : tx'[g] = tx[g] /\ Respects(g),
           TxInv(h)',
           \A u \in Users : HoldsUser(h, u)' => HoldsUser(h, u) \/ UserFree(h, u),
           \A s \in Nat \ {0} : HoldsSub(h, s)' => HoldsSub(h, s) \/ SubFree(s)
    PROVE  IInv'
<1>1. \A g \in Handlers : TxInv(g)'
  BY TxStable DEF Passes
<1>2. UserLocks'
  BY DEF IInv, UserLocks, HoldsUser, UserFree, Others
<1>3. SubLocks'
  BY DEF IInv, SubLocks, HoldsSub, SubFree
<1> QED
  BY <1>1, <1>2, <1>3 DEF IInv

\* A transaction takes a step that only it can see.
LEMMA QuietMove ==
    ASSUME IInv, NEW h \in Handlers, NEW t \in Transaction \cup {Idle},
           tx' = [tx EXCEPT ![h] = t], UNCHANGED ledger, calls' \in Nat,
           TxInv(h)',
           \A u \in Users : HoldsUser(h, u)' => HoldsUser(h, u) \/ UserFree(h, u),
           \A s \in Nat \ {0} : HoldsSub(h, s)' => HoldsSub(h, s) \/ SubFree(s)
    PROVE  IInv'
<1>t. TypeOK
  BY DEF IInv
<1>1. TypeOK' /\ now' = now /\ \A g \in Handlers \ {h} : tx'[g] = tx[g]
  BY <1>t, TxMoves DEF TypeOK, ledger
<1>2. \A g \in Handlers \ {h} : Respects(g)
  BY <1>t, QuietRespects DEF ledger
<1> QED
  BY <1>1, <1>2, Moves

\* A transaction ends and holds nothing any more.
LEMMA EndFacts ==
    ASSUME TypeOK, NEW h \in Handlers, End(h)
    PROVE  /\ tx' \in [Handlers -> Transaction \cup {Idle}]
           /\ tx'[h] = Idle /\ TxInv(h)'
           /\ \A g \in Handlers \ {h} : tx'[g] = tx[g]
           /\ \A u \in Users : ~HoldsUser(h, u)'
           /\ \A s \in Nat \ {0} : ~HoldsSub(h, s)'
<1>1. /\ tx' \in [Handlers -> Transaction \cup {Idle}]
      /\ tx'[h] = Idle
      /\ \A g \in Handlers \ {h} : tx'[g] = tx[g]
  BY DEF TypeOK, End
<1>2. TxInv(h)'
  BY <1>1 DEF TxInv, TxRow, CreateInv, TrialInv, BonusInv, ClaimInv, Idle
<1> QED
  BY <1>1, <1>2 DEF HoldsUser, HoldsSub, Idle

LEMMA QuietEnd ==
    ASSUME IInv, NEW h \in Handlers, End(h), UNCHANGED <<ledger, calls>>
    PROVE  IInv'
<1>t. TypeOK
  BY DEF IInv
<1>1. Idle \in Transaction \cup {Idle} /\ calls' \in Nat
  BY <1>t DEF TypeOK
<1> QED
  BY <1>t, <1>1, EndFacts, QuietMove DEF End

-----------------------------------------------------------------------------
(* The steps of one transaction.                                            *)

\* A transaction that has just begun knows nothing.
LEMMA BeginStep ==
    ASSUME IInv, NEW h \in Handlers, NEW kind, NEW u \in Users, NEW d \in Nat,
           Begin(h, kind, u, d),
           \/ kind = "create" /\ d \in PlanDays
           \/ kind = "trial" /\ d \in TrialDays
           \/ kind = "bonus" /\ d \in BonusDays
           \/ kind = "claim"
    PROVE  IInv'
<1>t. TypeOK
  BY DEF IInv
<1> DEFINE t == [kind |-> kind, user |-> u, days |-> d, start |-> now, pc |-> "open",
                 sub |-> 0, base |-> 0]
<1>1. t \in Transaction /\ tx' = [tx EXCEPT ![h] = t] /\ now \in Nat
  BY <1>t DEF Transaction, Begin, TypeOK
<1>2. /\ t.kind = kind /\ t.pc = "open" /\ t.sub = 0 /\ t.start = now /\ t.days = d
  OBVIOUS
<1> HIDE DEF t
<1>3. tx'[h] = t
  BY <1>t, <1>1, TxMoves
<1>4. now' = now /\ calls' \in Nat /\ UNCHANGED ledger
  BY <1>t DEF Begin, Call, ledger, TypeOK
<1>5. TxInv(h)'
  BY <1>1, <1>2, <1>3, <1>4 DEF TxInv, TxRow, CreateInv, TrialInv, BonusInv, ClaimInv
<1>6. \A x \in Users : ~HoldsUser(h, x)'
  BY <1>2, <1>3 DEF HoldsUser
<1>7. \A s \in Nat \ {0} : ~HoldsSub(h, s)'
  BY <1>2, <1>3 DEF HoldsSub
<1> QED
  BY <1>1, <1>4, <1>5, <1>6, <1>7, QuietMove

\* The row is found or not; nothing is locked yet.
LEMMA CreateFindStep ==
    ASSUME IInv, NEW h \in Handlers, CreateFind(h) PROVE IInv'
<1>t. TypeOK /\ TxInv(h)
  BY DEF IInv
<1>0. tx[h] \in Transaction /\ tx[h] # Idle /\ tx[h].kind = "create"
  BY <1>t, KindTells DEF CreateFind, At
<1> PICK s \in 0 .. Len(subs) :
           /\ Latest(RowsOf(tx[h].user), s)
           /\ tx' = [tx EXCEPT ![h].sub = s, ![h].pc = "lock"]
  BY DEF CreateFind
<1>1. s \in Nat /\ (s # 0 => s \in RowsOf(tx[h].user))
  BY <1>t, RowFacts DEF Latest
<1> DEFINE t == [tx[h] EXCEPT !.sub = s, !.pc = "lock"]
<1>2. t \in Transaction /\ tx' = [tx EXCEPT ![h] = t]
  BY <1>t, <1>0, <1>1 DEF Transaction, TypeOK
<1>3. /\ t.kind = "create" /\ t.pc = "lock" /\ t.sub = s /\ t.start = tx[h].start
      /\ t.days = tx[h].days /\ t.user = tx[h].user
  BY <1>0 DEF Transaction
<1> HIDE DEF t
<1>4. tx'[h] = t
  BY <1>t, <1>2, TxMoves
<1>5. UNCHANGED ledger /\ calls' \in Nat
  BY <1>t DEF CreateFind, TypeOK
<1>6. TxInv(h)'
  BY <1>t, <1>0, <1>1, <1>3, <1>4, <1>5
     DEF TxInv, TxRow, CreateInv, TrialInv, BonusInv, ClaimInv, ledger, RowsOf
<1>7. \A x \in Users : ~HoldsUser(h, x)'
  BY <1>3, <1>4 DEF HoldsUser
<1>8. \A x \in Nat \ {0} : ~HoldsSub(h, x)'
  BY <1>3, <1>4 DEF HoldsSub
<1> QED
  BY <1>2, <1>5, <1>6, <1>7, <1>8, QuietMove

\* The lock comes free: the end of a live subscription is read under it.
LEMMA CreateLockStep ==
    ASSUME IInv, NEW h \in Handlers, CreateLock(h) \/ CreateInsert(h) PROVE IInv'
<1>t. TypeOK /\ TxInv(h)
  BY DEF IInv
<1>0. tx[h] \in Transaction /\ tx[h] # Idle /\ tx[h].kind = "create"
  BY <1>t, KindTells DEF CreateLock, CreateInsert, At
<1> DEFINE s == tx[h].sub
           live == Current(s) /\ subs[s].expires > now
<1>1. PICK base \in Nat :
         /\ tx' = [tx EXCEPT ![h].base = base, ![h].pc = "commit"]
         /\ s = 0 => base = tx[h].start
         /\ s # 0 => base = (IF live THEN subs[s].expires ELSE tx[h].start)
  <2>1. CASE CreateInsert(h)
    BY <1>0, <2>1 DEF CreateInsert, Transaction
  <2>2. CASE CreateLock(h)
    <3>1. s # 0 /\ s \in DOMAIN subs
      BY <1>t, <1>0, <2>2 DEF CreateLock, TxInv, TxRow
    <3>2. (IF live THEN subs[s].expires ELSE tx[h].start) \in Nat
      BY <1>t, <1>0, <3>1, RowFacts DEF Transaction
    <3> QED
      BY <2>2, <3>1, <3>2 DEF CreateLock
  <2> QED
    BY <2>1, <2>2
<1> DEFINE t == [tx[h] EXCEPT !.base = base, !.pc = "commit"]
<1>2. t \in Transaction /\ tx' = [tx EXCEPT ![h] = t]
  BY <1>t, <1>0, <1>1 DEF Transaction, TypeOK
<1>3. /\ t.kind = "create" /\ t.pc = "commit" /\ t.sub = s /\ t.start = tx[h].start
      /\ t.days = tx[h].days /\ t.user = tx[h].user /\ t.base = base
  BY <1>0 DEF Transaction
<1> HIDE DEF t
<1>4. tx'[h] = t
  BY <1>t, <1>2, TxMoves
<1>5. UNCHANGED ledger /\ calls' \in Nat
  BY <1>t DEF CreateLock, CreateInsert, TypeOK
<1>6. CreateInv(h)'
  <2>1. s = 0 \/ live \/ ~live
    OBVIOUS
  <2>2. tx[h].start <= now /\ tx[h].start \in Nat
    BY <1>t, <1>0 DEF TxInv, TxRow, Transaction
  <2> QED
    BY <1>t, <1>0, <1>1, <1>3, <1>4, <1>5, <2>1, <2>2
       DEF TxInv, CreateInv, ledger, Live, Current
<1>7. TxInv(h)'
  BY <1>t, <1>0, <1>3, <1>4, <1>5, <1>6
     DEF TxInv, TxRow, TrialInv, BonusInv, ClaimInv, ledger
<1>8. \A x \in Users : ~HoldsUser(h, x)'
  BY <1>3, <1>4 DEF HoldsUser
<1>9. \A x \in Nat \ {0} : HoldsSub(h, x)' => SubFree(x)
  BY <1>3, <1>4 DEF HoldsSub, CreateLock, CreateInsert
<1> QED
  BY <1>2, <1>5, <1>7, <1>8, <1>9, QuietMove

\* The trial locks its user.
LEMMA TrialLockStep ==
    ASSUME IInv, NEW h \in Handlers, TrialLock(h) PROVE IInv'
<1>t. TypeOK /\ TxInv(h)
  BY DEF IInv
<1>0. tx[h] \in Transaction /\ tx[h] # Idle /\ tx[h].kind = "trial"
  BY <1>t, KindTells DEF TrialLock, At
<1>1. CASE tx[h].user \in trialUsed
  BY <1>1, QuietEnd DEF TrialLock
<1>2. CASE tx[h].user \notin trialUsed
  <2> DEFINE t == [tx[h] EXCEPT !.base = tx[h].start, !.pc = "commit"]
  <2>1. t \in Transaction /\ tx' = [tx EXCEPT ![h] = t]
    BY <1>t, <1>0, <1>2 DEF Transaction, TypeOK, TrialLock
  <2>2. /\ t.kind = "trial" /\ t.pc = "commit" /\ t.sub = tx[h].sub
        /\ t.start = tx[h].start /\ t.base = tx[h].start
        /\ t.days = tx[h].days /\ t.user = tx[h].user
    BY <1>0 DEF Transaction
  <2> HIDE DEF t
  <2>3. tx'[h] = t
    BY <1>t, <2>1, TxMoves
  <2>4. UNCHANGED ledger /\ calls' \in Nat
    BY <1>t DEF TrialLock, TypeOK
  <2>5. TxInv(h)'
    BY <1>t, <1>0, <1>2, <2>2, <2>3, <2>4
       DEF TxInv, TxRow, CreateInv, TrialInv, BonusInv, ClaimInv, ledger
  <2>6. \A x \in Users : HoldsUser(h, x)' => UserFree(h, x)
    BY <2>2, <2>3 DEF HoldsUser, TrialLock
  <2>7. \A x \in Nat \ {0} : ~HoldsSub(h, x)'
    BY <2>2, <2>3 DEF HoldsSub
  <2> QED
    BY <2>1, <2>4, <2>5, <2>6, <2>7, QuietMove
<1> QED
  BY <1>1, <1>2

\* A bonus goes to another of its steps, keeping what it was called with: the
\* user is locked first, and a row that is no longer active is passed over.
LEMMA BonusGotoFind ==
    ASSUME IInv, NEW h \in Handlers, tx[h].kind = "bonus", Goto(h, "find"),
           UNCHANGED <<ledger, calls>>,
           tx[h].pc = "open" => UserFree(h, tx[h].user)
    PROVE  IInv'
<1>t. TypeOK /\ TxInv(h)
  BY DEF IInv
<1>0. tx[h] \in Transaction /\ tx[h] # Idle
  BY <1>t, KindTells
<1> DEFINE t == [tx[h] EXCEPT !.pc = "find"]
<1>1. t \in Transaction /\ tx' = [tx EXCEPT ![h] = t]
  BY <1>t, <1>0 DEF Transaction, TypeOK, Goto
<1>2. /\ t.kind = "bonus" /\ t.pc = "find" /\ t.sub = tx[h].sub
      /\ t.start = tx[h].start /\ t.days = tx[h].days /\ t.user = tx[h].user
  BY <1>0 DEF Transaction
<1> HIDE DEF t
<1>3. tx'[h] = t
  BY <1>t, <1>1, TxMoves
<1>4. UNCHANGED ledger /\ calls' \in Nat
  BY <1>t DEF TypeOK
<1>5. TxInv(h)'
  BY <1>t, <1>0, <1>2, <1>3, <1>4
     DEF TxInv, TxRow, CreateInv, TrialInv, BonusInv, ClaimInv, ledger
<1>6. \A x \in Users : HoldsUser(h, x)' => HoldsUser(h, x) \/ UserFree(h, x)
  BY <1>2, <1>3 DEF HoldsUser
<1>7. \A x \in Nat \ {0} : ~HoldsSub(h, x)'
  BY <1>2, <1>3 DEF HoldsSub
<1> QED
  BY <1>1, <1>4, <1>5, <1>6, <1>7, QuietMove

\* A transaction ends after a change that respects what the others know.
LEMMA Ends ==
    ASSUME IInv, TypeOK', NEW h \in Handlers, End(h), now' = now,
           \A g \in Handlers \ {h} : Respects(g)
    PROVE  IInv'
BY EndFacts, Moves DEF IInv

LEMMA BonusFindStep ==
    ASSUME IInv, NEW h \in Handlers, BonusFind(h) PROVE IInv'
<1>t. TypeOK /\ TxInv(h)
  BY DEF IInv
<1>0. /\ tx[h] \in Transaction /\ tx[h] # Idle /\ tx[h].kind = "bonus" /\ tx[h].pc = "find"
      /\ tx[h].user \in Users /\ tx[h].days \in Nat
  BY <1>t, KindTells DEF BonusFind, At, Transaction
<1> DEFINE active == ActiveRows(tx[h].user, tx[h].start)
<1>1. CASE active = {}
  <2>1. /\ pending' = [pending EXCEPT ![tx[h].user] = @ + tx[h].days] /\ End(h)
        /\ UNCHANGED <<subs, trialUsed, claimed, now, calls>>
    BY <1>1 DEF BonusFind
  <2>2. TypeOK'
    <3>1. pending' \in [Users -> Nat]
      BY <1>t, <1>0, <2>1 DEF TypeOK
    <3> QED
      BY <1>t, <2>1, <3>1, EndFacts DEF TypeOK
  <2> QED
    BY <1>t, <2>1, <2>2, QuietRespects, Ends
<1>2. CASE active # {}
  <2> PICK s \in active : tx' = [tx EXCEPT ![h].sub = s, ![h].pc = "lock"]
    BY <1>2 DEF BonusFind
  <2>1. s \in DOMAIN subs /\ s \in Nat /\ s # 0 /\ subs[s].user = tx[h].user
    BY <1>t, RowFacts DEF ActiveRows, RowsOf
  <2> DEFINE t == [tx[h] EXCEPT !.sub = s, !.pc = "lock"]
  <2>2. t \in Transaction /\ tx' = [tx EXCEPT ![h] = t]
    BY <1>t, <1>0, <2>1 DEF Transaction, TypeOK
  <2>3. /\ t.kind = "bonus" /\ t.pc = "lock" /\ t.sub = s
        /\ t.start = tx[h].start /\ t.days = tx[h].days /\ t.user = tx[h].user
    BY <1>0 DEF Transaction
  <2> HIDE DEF t
  <2>4. tx'[h] = t
    BY <1>t, <2>2, TxMoves
  <2>5. UNCHANGED ledger /\ calls' \in Nat
    BY <1>t, <1>2 DEF BonusFind, TypeOK, ledger
  <2>6. TxInv(h)'
    BY <1>t, <1>0, <2>1, <2>3, <2>4, <2>5
       DEF TxInv, TxRow, CreateInv, TrialInv, BonusInv, ClaimInv, ledger
  <2>7. \A x \in Users : HoldsUser(h, x)' => HoldsUser(h, x)
    BY <1>0, <2>3, <2>4 DEF HoldsUser
  <2>8. \A x \in Nat \ {0} : ~HoldsSub(h, x)'
    BY <2>3, <2>4 DEF HoldsSub
  <2> QED
    BY <2>2, <2>5, <2>6, <2>7, <2>8, QuietMove
<1> QED
  BY <1>1, <1>2

LEMMA BonusLockStep ==
    ASSUME IInv, NEW h \in Handlers, BonusLock(h) PROVE IInv'
<1>t. TypeOK /\ TxInv(h)
  BY DEF IInv
<1>0. /\ tx[h] \in Transaction /\ tx[h] # Idle /\ tx[h].kind = "bonus" /\ tx[h].pc = "lock"
  BY <1>t, KindTells DEF BonusLock, At
<1> DEFINE s == tx[h].sub
<1>1. CASE s \notin ActiveRows(tx[h].user, tx[h].start)
  BY <1>0, <1>1, BonusGotoFind DEF BonusLock
<1>2. CASE s \in ActiveRows(tx[h].user, tx[h].start)
  <2>1. /\ s \in DOMAIN subs /\ s # 0 /\ subs[s].expires \in Nat
        /\ Current(s) /\ tx[h].start < subs[s].expires
    BY <1>t, <1>0, <1>2, RowFacts DEF ActiveRows, RowsOf, Transaction
  <2> DEFINE t == [tx[h] EXCEPT !.base = subs[s].expires, !.pc = "commit"]
  <2>2. t \in Transaction /\ tx' = [tx EXCEPT ![h] = t]
    BY <1>t, <1>0, <1>2, <2>1 DEF Transaction, TypeOK, BonusLock
  <2>3. /\ t.kind = "bonus" /\ t.pc = "commit" /\ t.sub = s /\ t.base = subs[s].expires
        /\ t.start = tx[h].start /\ t.days = tx[h].days /\ t.user = tx[h].user
    BY <1>0 DEF Transaction
  <2> HIDE DEF t
  <2>4. tx'[h] = t
    BY <1>t, <2>2, TxMoves
  <2>5. UNCHANGED ledger /\ calls' \in Nat
    BY <1>t DEF BonusLock, TypeOK
  <2>6. TxInv(h)'
    BY <1>t, <1>0, <2>1, <2>3, <2>4, <2>5
       DEF TxInv, TxRow, CreateInv, TrialInv, BonusInv, ClaimInv, ledger, Current
  <2>7. \A x \in Users : HoldsUser(h, x)' => HoldsUser(h, x)
    BY <1>0, <2>3, <2>4 DEF HoldsUser
  <2>8. \A x \in Nat \ {0} : HoldsSub(h, x)' => SubFree(x)
    BY <2>3, <2>4 DEF HoldsSub, BonusLock
  <2> QED
    BY <2>2, <2>5, <2>6, <2>7, <2>8, QuietMove
<1> QED
  BY <1>1, <1>2

LEMMA ClaimLockStep ==
    ASSUME IInv, NEW h \in Handlers, ClaimLock(h) PROVE IInv'
<1>t. TypeOK /\ TxInv(h)
  BY DEF IInv
<1>0. /\ tx[h] \in Transaction /\ tx[h] # Idle /\ tx[h].kind = "claim"
  BY <1>t, KindTells DEF ClaimLock, At
<1> DEFINE u == tx[h].user
           active == ActiveRows(u, tx[h].start)
<1>1. CASE End(h)
  BY <1>1, QuietEnd DEF ClaimLock
<1>2. CASE u \in SameId /\ u \notin claimed /\ active # {}
  <2> PICK s \in active : tx' = [tx EXCEPT ![h].sub = s, ![h].pc = "commit",
                                           ![h].base = subs[s].expires]
    BY <1>2 DEF ClaimLock
  <2>1. /\ s \in DOMAIN subs /\ s \in Nat /\ s # 0 /\ subs[s].user = u
        /\ subs[s].expires \in Nat /\ tx[h].start < subs[s].expires
    BY <1>t, <1>0, RowFacts DEF ActiveRows, RowsOf, Transaction
  <2> DEFINE t == [tx[h] EXCEPT !.sub = s, !.pc = "commit", !.base = subs[s].expires]
  <2>2. t \in Transaction /\ tx' = [tx EXCEPT ![h] = t]
    BY <1>t, <1>0, <2>1 DEF Transaction, TypeOK
  <2>3. /\ t.kind = "claim" /\ t.pc = "commit" /\ t.sub = s /\ t.base = subs[s].expires
        /\ t.start = tx[h].start /\ t.days = tx[h].days /\ t.user = u
    BY <1>0 DEF Transaction
  <2> HIDE DEF t
  <2>4. tx'[h] = t
    BY <1>t, <2>2, TxMoves
  <2>5. UNCHANGED ledger /\ calls' \in Nat
    BY <1>t DEF ClaimLock, TypeOK
  <2>6. TxInv(h)'
    BY <1>t, <1>0, <1>2, <2>1, <2>3, <2>4, <2>5
       DEF TxInv, TxRow, CreateInv, TrialInv, BonusInv, ClaimInv, ledger
  <2>7. \A x \in Users : HoldsUser(h, x)' => UserFree(h, x)
    <3>1. UserFree(h, u)
      BY <1>2 DEF ClaimLock
    <3> QED
      BY <2>3, <2>4, <3>1 DEF HoldsUser
  <2>8. \A x \in Nat \ {0} : ~HoldsSub(h, x)'
    BY <2>3, <2>4 DEF HoldsSub
  <2> QED
    BY <2>2, <2>5, <2>6, <2>7, <2>8, QuietMove
<1> QED
  BY <1>1, <1>2 DEF ClaimLock

-----------------------------------------------------------------------------
(* Commits, and statements outside a transaction.                           *)

\* A purchase or a trial writes one row, of its own user.
LEMMA WriteFacts ==
    ASSUME IInv, NEW h \in Handlers, tx[h] # Idle, NEW kind \in {"active", "trial"},
           Write(h, kind)
    PROVE  /\ subs' \in Seq(Row) /\ DOMAIN subs \subseteq DOMAIN subs'
           /\ \A s \in DOMAIN subs : /\ subs'[s].user = subs[s].user
                                     /\ s # tx[h].sub => subs'[s] = subs[s]
<1>t. TypeOK /\ TxRow(h)
  BY DEF IInv, TxInv
<1>0. /\ tx[h] \in Transaction /\ tx[h].user \in Users
      /\ tx[h].base + tx[h].days + pending[tx[h].user] \in Nat
  BY <1>t, KindTells DEF Transaction, TypeOK
<1> DEFINE e == tx[h].base + tx[h].days + pending[tx[h].user]
           s == tx[h].sub
<1>1. CASE s = 0
  <2>1. [user |-> tx[h].user, status |-> kind, expires |-> e] \in Row
    BY <1>0 DEF Row, Status
  <2>2. subs' = Append(subs, [user |-> tx[h].user, status |-> kind, expires |-> e])
    BY <1>1 DEF Write
  <2> HIDE DEF e
  <2> QED
    BY <1>t, <2>1, <2>2, InsertFacts
<1>2. CASE s # 0
  <2>1. s \in DOMAIN subs
    BY <1>t, <1>2 DEF TxRow
  <2> DEFINE r == [subs[s] EXCEPT !.status = kind, !.expires = e]
  <2>2. r \in Row /\ r.user = subs[s].user
    BY <1>t, <1>0, <2>1, RowFacts DEF Row, Status
  <2>3. subs' = [subs EXCEPT ![s] = r]
    BY <1>2, <2>1 DEF Write
  <2> HIDE DEF r, e
  <2> QED
    BY <1>t, <2>1, <2>2, <2>3, UpdateFacts
<1> QED
  BY <1>1, <1>2

LEMMA CreateCommitStep ==
    ASSUME IInv, NEW h \in Handlers, CreateCommit(h) PROVE IInv'
<1>t. TypeOK /\ TxInv(h) /\ TxRow(h)
  BY DEF IInv, TxInv
<1>0. /\ tx[h] \in Transaction /\ tx[h] # Idle /\ tx[h].user \in Users
  BY <1>t, KindTells DEF CreateCommit, At, Transaction
<1>1. /\ subs' \in Seq(Row) /\ DOMAIN subs \subseteq DOMAIN subs'
      /\ \A s \in DOMAIN subs : /\ subs'[s].user = subs[s].user
                                /\ s # tx[h].sub => subs'[s] = subs[s]
  BY <1>0, WriteFacts DEF CreateCommit
<1>2. TypeOK'
  <2>1. pending' \in [Users -> Nat]
    BY <1>t DEF CreateCommit, TypeOK
  <2> QED
    BY <1>t, <1>1, <2>1, EndFacts DEF CreateCommit, TypeOK
<1>3. ASSUME NEW g \in Handlers \ {h} PROVE Respects(g)
  <2>1. ASSUME NEW s \in DOMAIN subs, HoldsSub(g, s) PROVE subs'[s] = subs[s]
    <3>1. s \in Nat \ {0}
      BY <1>t, RowFacts
    <3>2. HoldsSub(h, s) => FALSE
      BY <2>1, <3>1 DEF IInv, SubLocks
    <3>3. s # tx[h].sub
      BY <3>2 DEF HoldsSub, CreateCommit, At
    <3> QED
      BY <1>1, <3>3
  <2>2. ASSUME NEW u \in Users, HoldsUser(g, u), NEW s \in RowsOf(u)
        PROVE  subs'[s].expires >= subs[s].expires
    <3>1. u # tx[h].user
      BY <2>2 DEF CreateCommit, UserFree, Others
    <3>2. subs'[s] = subs[s] /\ s \in DOMAIN subs
      BY <1>t, <1>0, <1>1, <3>1 DEF RowsOf, TxRow
    <3> QED
      BY <1>t, <3>2, RowFacts
  <2> QED
    BY <1>1, <2>1, <2>2 DEF Respects, CreateCommit
<1> QED
  BY <1>2, <1>3, Ends DEF CreateCommit

LEMMA TrialCommitStep ==
    ASSUME IInv, NEW h \in Handlers, TrialCommit(h) PROVE IInv'
<1>t. TypeOK /\ TxInv(h) /\ TxRow(h)
  BY DEF IInv, TxInv
<1>0. /\ tx[h] \in Transaction /\ tx[h] # Idle /\ tx[h].user \in Users /\ tx[h].sub = 0
  BY <1>t, KindTells DEF TrialCommit, At, Transaction, TxInv, TrialInv
<1>1. /\ subs' \in Seq(Row) /\ DOMAIN subs \subseteq DOMAIN subs'
      /\ \A s \in DOMAIN subs : /\ subs'[s].user = subs[s].user
                                /\ s # tx[h].sub => subs'[s] = subs[s]
  BY <1>0, WriteFacts DEF TrialCommit
<1>2. \A s \in DOMAIN subs : subs'[s] = subs[s] /\ subs[s].expires >= subs[s].expires
  BY <1>t, <1>0, <1>1, RowFacts
<1>3. TypeOK'
  <2>1. pending' \in [Users -> Nat]
    BY <1>t DEF TrialCommit, TypeOK
  <2> QED
    BY <1>t, <1>0, <1>1, <2>1, EndFacts DEF TrialCommit, TypeOK
<1>4. ASSUME NEW g \in Handlers \ {h} PROVE Respects(g)
  <2>1. ASSUME NEW u \in Users, HoldsUser(g, u) PROVE u # tx[h].user
    <3>1. HoldsUser(h, tx[h].user)
      BY DEF HoldsUser, TrialCommit, At
    <3> QED
      BY <1>0, <2>1, <3>1 DEF IInv, UserLocks
  <2> QED
    BY <1>1, <1>2, <2>1 DEF Respects, TrialCommit, RowsOf
<1> QED
  BY <1>3, <1>4, Ends DEF TrialCommit

\* UPDATE of the end of one row.
LEMMA ProlongFacts ==
    ASSUME TypeOK, NEW s \in DOMAIN subs, NEW e \in Nat,
           subs' = [subs EXCEPT ![s].expires = e]
    PROVE  /\ subs' \in Seq(Row) /\ DOMAIN subs' = DOMAIN subs
           /\ subs'[s].user = subs[s].user /\ subs'[s].status = subs[s].status
           /\ subs'[s].expires = e
           /\ \A t \in DOMAIN subs \ {s} : subs'[t] = subs[t]
<1> DEFINE r == [subs[s] EXCEPT !.expires = e]
<1>1. r \in Row /\ r.user = subs[s].user /\ r.status = subs[s].status /\ r.expires = e
  BY RowFacts DEF Row
<1>2. subs' = [subs EXCEPT ![s] = r]
  OBVIOUS
<1> HIDE DEF r
<1> QED
  BY <1>1, <1>2, UpdateFacts

LEMMA BonusCommitStep ==
    ASSUME IInv, NEW h \in Handlers, BonusCommit(h) PROVE IInv'
<1>t. TypeOK /\ TxInv(h)
  BY DEF IInv
<1>0. /\ tx[h] \in Transaction /\ tx[h] # Idle
      /\ tx[h].sub \in DOMAIN subs /\ tx[h].base + tx[h].days \in Nat
      /\ tx[h].base = subs[tx[h].sub].expires /\ tx[h].days \in Nat
  BY <1>t, KindTells DEF BonusCommit, At, Transaction, TxInv, TxRow, BonusInv
<1>1. /\ subs' \in Seq(Row) /\ DOMAIN subs' = DOMAIN subs
      /\ subs'[tx[h].sub].user = subs[tx[h].sub].user
      /\ subs'[tx[h].sub].expires = tx[h].base + tx[h].days
      /\ \A t \in DOMAIN subs \ {tx[h].sub} : subs'[t] = subs[t]
  BY <1>t, <1>0, ProlongFacts DEF BonusCommit
<1>2. TypeOK'
  BY <1>t, <1>1, EndFacts DEF BonusCommit, TypeOK
<1>3. ASSUME NEW g \in Handlers \ {h} PROVE Respects(g)
  <2>1. ASSUME NEW s \in DOMAIN subs, HoldsSub(g, s) PROVE subs'[s] = subs[s]
    <3>1. s \in Nat \ {0}
      BY <1>t, RowFacts
    <3>2. ~HoldsSub(h, s)
      BY <2>1, <3>1 DEF IInv, SubLocks
    <3>3. s # tx[h].sub
      BY <3>2 DEF HoldsSub, BonusCommit, At
    <3> QED
      BY <1>1, <3>3
  <2>2. ASSUME NEW s \in DOMAIN subs PROVE subs'[s].expires >= subs[s].expires
    BY <1>t, <1>0, <1>1, RowFacts
  <2> QED
    BY <1>1, <2>1, <2>2 DEF Respects, BonusCommit, RowsOf
<1> QED
  BY <1>2, <1>3, Ends DEF BonusCommit

LEMMA ClaimCommitStep ==
    ASSUME IInv, NEW h \in Handlers, ClaimCommit(h) PROVE IInv'
<1> USE DaysAssumption
<1>t. TypeOK /\ TxInv(h)
  BY DEF IInv
<1>0. /\ tx[h] \in Transaction /\ tx[h] # Idle /\ tx[h].user \in Users
      /\ tx[h].sub \in DOMAIN subs /\ tx[h].base + ChannelDays \in Nat
      /\ subs[tx[h].sub].user = tx[h].user
  BY <1>t, KindTells DEF ClaimCommit, At, Transaction, TxInv, TxRow, ClaimInv
<1>1. /\ subs' \in Seq(Row) /\ DOMAIN subs' = DOMAIN subs
      /\ subs'[tx[h].sub].user = subs[tx[h].sub].user
      /\ \A t \in DOMAIN subs \ {tx[h].sub} : subs'[t] = subs[t]
  BY <1>t, <1>0, ProlongFacts DEF ClaimCommit
<1>2. TypeOK'
  BY <1>t, <1>0, <1>1, EndFacts DEF ClaimCommit, TypeOK
<1>3. ASSUME NEW g \in Handlers \ {h} PROVE Respects(g)
  <2>1. ASSUME NEW s \in DOMAIN subs, HoldsSub(g, s) PROVE subs'[s] = subs[s]
    BY <1>1, <2>1 DEF ClaimCommit, SubFree
  <2>2. ASSUME NEW u \in Users, HoldsUser(g, u) PROVE u # tx[h].user
    <3>1. HoldsUser(h, tx[h].user)
      BY DEF HoldsUser, ClaimCommit, At
    <3> QED
      BY <1>0, <2>2, <3>1 DEF IInv, UserLocks
  <2>3. ASSUME NEW u \in Users, HoldsUser(g, u), NEW s \in RowsOf(u)
        PROVE  subs'[s].expires >= subs[s].expires
    <3>1. subs'[s] = subs[s] /\ s \in DOMAIN subs
      BY <1>0, <1>1, <2>2, <2>3 DEF RowsOf
    <3> QED
      BY <1>t, <3>1, RowFacts
  <2> QED
    BY <1>1, <2>1, <2>2, <2>3 DEF Respects, ClaimCommit
<1> QED
  BY <1>2, <1>3, Ends DEF ClaimCommit

\* A statement of its own, or the clock, moves no transaction.
LEMMA Stays ==
    ASSUME IInv, TypeOK', tx' = tx, Passes, \A g \in Handlers : Respects(g)
    PROVE  IInv'
<1>1. \A g \in Handlers : TxInv(g)'
  BY TxStable
<1> QED
  BY <1>1 DEF IInv, UserLocks, SubLocks, HoldsUser, HoldsSub

LEMMA ExtendStep ==
    ASSUME IInv, NEW s \in DOMAIN subs, NEW d \in Nat, ExtendSubscription(s, d)
    PROVE  IInv'
<1>t. TypeOK
  BY DEF IInv
<1>0. subs[s].expires \in Nat /\ subs[s].expires + d \in Nat /\ s \in Nat \ {0}
  BY <1>t, RowFacts
<1>1. /\ subs' \in Seq(Row) /\ DOMAIN subs' = DOMAIN subs
      /\ subs'[s].user = subs[s].user /\ subs'[s].expires = subs[s].expires + d
      /\ \A t \in DOMAIN subs \ {s} : subs'[t] = subs[t]
  <2>1. subs' = [subs EXCEPT ![s].expires = subs[s].expires + d]
    BY DEF ExtendSubscription
  <2> QED
    BY <1>t, <1>0, <2>1, ProlongFacts
<1>2. TypeOK' /\ Passes
  BY <1>t, <1>1 DEF ExtendSubscription, Call, TypeOK, Passes
<1>3. ASSUME NEW t \in DOMAIN subs PROVE subs'[t].expires >= subs[t].expires
  BY <1>t, <1>0, <1>1, RowFacts
<1>4. \A g \in Handlers : Respects(g)
  BY <1>0, <1>1, <1>3 DEF Respects, ExtendSubscription, SubFree, RowsOf
<1> QED
  BY <1>2, <1>4, Stays DEF ExtendSubscription

LEMMA CancelStep ==
    ASSUME IInv, NEW s \in DOMAIN subs, CancelSubscription(s)
    PROVE  IInv'
<1>t. TypeOK
  BY DEF IInv
<1> DEFINE r == [subs[s] EXCEPT !.status = "cancelled"]
<1>0. r \in Row /\ r.user = subs[s].user /\ r.expires = subs[s].expires
  BY <1>t, RowFacts DEF Row, Status
<1>1. subs' = [subs EXCEPT ![s] = r]
  BY DEF CancelSubscription
<1> HIDE DEF r
<1>2. /\ subs' \in Seq(Row) /\ DOMAIN subs' = DOMAIN subs /\ subs'[s] = r
      /\ \A t \in DOMAIN subs \ {s} : subs'[t] = subs[t]
  BY <1>t, <1>0, <1>1, UpdateFacts
<1>3. TypeOK' /\ Passes
  BY <1>t, <1>2 DEF CancelSubscription, Call, TypeOK, Passes
<1>4. ASSUME NEW t \in DOMAIN subs
      PROVE  subs'[t].user = subs[t].user /\ subs'[t].expires >= subs[t].expires
  BY <1>t, <1>0, <1>2, RowFacts
<1>5. \A g \in Handlers : Respects(g)
  BY <1>2, <1>4 DEF Respects, CancelSubscription, SubFree, RowsOf
<1> QED
  BY <1>3, <1>5, Stays DEF CancelSubscription

\* The cron's UPDATE marks rows and moves no end.
LEMMA ExpireFacts ==
    ASSUME TypeOK, NEW start \in Nat, ExpireOverdueSubscriptions(start)
    PROVE  /\ subs' \in Seq(Row) /\ DOMAIN subs' = DOMAIN subs
           /\ \A s \in DOMAIN subs :
                 /\ subs'[s].user = subs[s].user /\ subs'[s].expires = subs[s].expires
                 /\ Current(s)' => Current(s)
                 /\ (\E g \in Handlers : HoldsSub(g, s)) => subs'[s] = subs[s]
<1> DEFINE overdue == {s \in DOMAIN subs : Current(s) /\ subs[s].expires < start}
           new(s) == IF s \in overdue THEN [subs[s] EXCEPT !.status = "expired"] ELSE subs[s]
<1>1. subs' = [s \in DOMAIN subs |-> new(s)] /\ \A s \in overdue : SubFree(s)
  BY DEF ExpireOverdueSubscriptions
<1>2. ASSUME NEW s \in DOMAIN subs
      PROVE  /\ new(s) \in Row /\ new(s).user = subs[s].user
             /\ new(s).expires = subs[s].expires
             /\ new(s).status \in {"active", "trial"} => Current(s)
             /\ s \notin overdue => new(s) = subs[s]
  BY RowFacts DEF Row, Status, Current
<1> HIDE DEF new
<1>3. subs' \in Seq(Row)
  <2>1. DOMAIN subs = 1 .. Len(subs) /\ Len(subs) \in Nat
    BY RowFacts
  <2> QED
    BY <1>1, <1>2, <2>1, IsASeq
<1>4. DOMAIN subs' = DOMAIN subs /\ \A s \in DOMAIN subs : subs'[s] = new(s)
  BY <1>1
<1>5. ASSUME NEW s \in DOMAIN subs, NEW g \in Handlers, HoldsSub(g, s)
      PROVE  subs'[s] = subs[s]
  BY <1>1, <1>2, <1>4, <1>5 DEF SubFree
<1> QED
  BY <1>2, <1>3, <1>4, <1>5 DEF Current

LEMMA ExpireStep ==
    ASSUME IInv, NEW start \in Nat, ExpireOverdueSubscriptions(start)
    PROVE  IInv'
<1>t. TypeOK
  BY DEF IInv
<1>1. TypeOK' /\ Passes /\ tx' = tx /\ UNCHANGED <<trialUsed, claimed>>
  BY <1>t, ExpireFacts DEF ExpireOverdueSubscriptions, TypeOK, Passes
<1>2. \A s \in DOMAIN subs : subs'[s].expires >= subs[s].expires
  BY <1>t, ExpireFacts, RowFacts
<1>3. \A g \in Handlers : Respects(g)
  BY <1>t, <1>1, <1>2, ExpireFacts DEF Respects, RowsOf
<1> QED
  BY <1>1, <1>3, Stays

LEMMA TickStep == ASSUME IInv, Tick PROVE IInv'
<1>t. TypeOK
  BY DEF IInv
<1>1. TypeOK' /\ Passes
  BY <1>t DEF Tick, TypeOK, Passes
<1>2. \A g \in Handlers : Respects(g)
  BY <1>t, QuietRespects DEF Tick
<1> QED
  BY <1>1, <1>2, Stays DEF Tick

LEMMA AdvanceStep == ASSUME IInv, NEW h \in Handlers, Advance(h) PROVE IInv'
<1>1. CASE BonusLockUser(h)
  BY <1>1, BonusGotoFind DEF BonusLockUser, At
<1> QED
  BY <1>1, CreateFindStep, CreateLockStep, CreateCommitStep, TrialLockStep,
     TrialCommitStep, BonusFindStep, BonusLockStep, BonusCommitStep, ClaimLockStep,
     ClaimCommitStep DEF Advance

LEMMA InvInit == Init => IInv
<1> SUFFICES ASSUME Init PROVE IInv
  OBVIOUS
<1>1. TypeOK
  BY EmptySeq DEF Init, TypeOK
<1>2. \A h \in Handlers : TxInv(h)
  BY DEF Init, TxInv, TxRow, CreateInv, TrialInv, BonusInv, ClaimInv, Idle
<1> QED
  BY <1>1, <1>2 DEF Init, IInv, UserLocks, SubLocks, HoldsUser, HoldsSub, Idle

LEMMA InvStep == IInv /\ [Next]_vars => IInv'
<1> SUFFICES ASSUME IInv, [Next]_vars PROVE IInv'
  OBVIOUS
<1> USE DaysAssumption
<1>t. TypeOK
  BY DEF IInv
<1>1. ASSUME NEW h \in Handlers, NEW u \in Users,
             \/ \E d \in PlanDays : Begin(h, "create", u, d)
             \/ \E d \in TrialDays : Begin(h, "trial", u, d)
             \/ \E d \in BonusDays : Begin(h, "bonus", u, d)
             \/ ClaimChannelBonus(h, u)
      PROVE  IInv'
  BY <1>1, BeginStep DEF ClaimChannelBonus
<1>2. CASE \E h \in Handlers : Advance(h) \/ Rollback(h)
  BY <1>2, AdvanceStep, QuietEnd DEF Rollback
<1>3. CASE \E s \in DOMAIN subs :
             CancelSubscription(s) \/ \E d \in BonusDays : ExtendSubscription(s, d)
  BY <1>3, CancelStep, ExtendStep
<1>4. CASE \E start \in {now, now - 1} \cap Nat : ExpireOverdueSubscriptions(start)
  BY <1>4, ExpireStep
<1>5. CASE Tick
  BY <1>5, TickStep
<1>6. CASE UNCHANGED vars
  <2>1. TypeOK' /\ Passes /\ tx' = tx /\ UNCHANGED <<subs, trialUsed, claimed>>
    BY <1>t, <1>6 DEF vars, ledger, TypeOK, Passes
  <2> QED
    BY <1>t, <2>1, QuietRespects, Stays
<1> QED
  BY <1>1, <1>2, <1>3, <1>4, <1>5, <1>6 DEF Next

LEMMA Invariant == Spec => []IInv
BY InvInit, InvStep, PTL DEF Spec

\* Every variable keeps its type: no transaction writes a status that no query
\* knows, an end that is no date, or a row that is not there.
THEOREM TypeCorrect == Spec => []TypeOK
BY Invariant, PTL DEF IInv

-----------------------------------------------------------------------------
(* Subscriptions implements SubscriptionLedger: each transaction takes      *)
(* effect at its last statement.                                            *)

LEMMA CreateCommitRefines ==
    ASSUME IInv, NEW h \in Handlers, CreateCommit(h)
    PROVE  \E u \in Users : \E d \in PlanDays : Ledger!Purchase(u, d)
<1>t. TypeOK /\ TxRow(h) /\ CreateInv(h)
  BY DEF IInv, TxInv
<1> DEFINE u == tx[h].user
           s == tx[h].sub
           d == tx[h].days
           base == tx[h].base
<1>0. /\ tx[h] \in Transaction /\ tx[h] # Idle /\ u \in Users /\ d \in PlanDays
      /\ base \in Nat /\ tx[h].start \in Nat /\ now \in Nat
  BY <1>t, KindTells DEF CreateCommit, At, Transaction, CreateInv, TypeOK
<1>1. tx[h].start \in Ledger!Began
  BY <1>t, <1>0 DEF TxRow, Ledger!Began
<1>2. /\ pending' = [pending EXCEPT ![u] = 0]
      /\ UNCHANGED <<trialUsed, claimed, now>>
  BY DEF CreateCommit
<1>3. CASE s = 0
  <2>1. base = tx[h].start
    BY <1>t, <1>3 DEF CreateCommit, At, CreateInv
  <2>2. subs' = Append(subs, [user |-> u, status |-> "active",
                              expires |-> base + d + pending[u]])
    BY <1>3 DEF CreateCommit, Write
  <2>3. Ledger!Open(u, "active", base + d)
    BY <1>2, <2>2 DEF Ledger!Open
  <2>4. Ledger!Purchase(u, d)
    BY <1>1, <1>2, <2>1, <2>3 DEF Ledger!Purchase
  <2> QED
    BY <1>0, <2>4
<1>4. CASE s # 0
  <2>1. s \in Ledger!RowsOf(u) /\ s \in DOMAIN subs
    BY <1>t, <1>0, <1>4 DEF TxRow, Ledger!RowsOf
  <2>2. base \in IF Ledger!Live(s) THEN {subs[s].expires} ELSE Ledger!Began
    <3>1. IF Live(s) THEN base = subs[s].expires ELSE tx[h].start <= base /\ base <= now
      BY <1>t, <1>4 DEF CreateCommit, At, CreateInv
    <3>2. Live(s) <=> Ledger!Live(s)
      BY DEF Live, Current, Ledger!Live, Ledger!Current
    <3>3. tx[h].start <= base /\ base <= now => base \in Ledger!Began
      BY <1>t, <1>0 DEF TxRow, Ledger!Began
    <3> QED
      BY <3>1, <3>2, <3>3
  <2>3. subs' = [subs EXCEPT ![s].status = "active",
                             ![s].expires = base + d + pending[u]]
    BY <1>4 DEF CreateCommit, Write
  <2>4. Ledger!Purchase(u, d)
    BY <1>2, <2>1, <2>2, <2>3 DEF Ledger!Purchase
  <2> QED
    BY <1>0, <2>4
<1> QED
  BY <1>3, <1>4

LEMMA TrialCommitRefines ==
    ASSUME IInv, NEW h \in Handlers, TrialCommit(h)
    PROVE  \E u \in Users : \E d \in TrialDays : Ledger!StartTrial(u, d)
<1>t. TypeOK /\ TxRow(h) /\ TrialInv(h)
  BY DEF IInv, TxInv
<1> DEFINE u == tx[h].user
           d == tx[h].days
           base == tx[h].base
<1>0. /\ tx[h] \in Transaction /\ tx[h] # Idle /\ u \in Users /\ d \in TrialDays
      /\ base \in Nat /\ now \in Nat /\ tx[h].sub = 0 /\ base = tx[h].start
      /\ u \notin trialUsed
  BY <1>t, KindTells DEF TrialCommit, At, Transaction, TrialInv, TypeOK
<1>1. base \in Ledger!Began
  BY <1>t, <1>0 DEF TxRow, Ledger!Began
<1>2. /\ pending' = [pending EXCEPT ![u] = 0] /\ trialUsed' = trialUsed \cup {u}
      /\ UNCHANGED <<claimed, now>>
  BY DEF TrialCommit
<1>3. subs' = Append(subs, [user |-> u, status |-> "trial", expires |-> base + d + pending[u]])
  BY <1>0 DEF TrialCommit, Write
<1>4. Ledger!Open(u, "trial", base + d)
  BY <1>2, <1>3 DEF Ledger!Open
<1>5. Ledger!StartTrial(u, d)
  BY <1>0, <1>1, <1>2, <1>4 DEF Ledger!StartTrial
<1> QED
  BY <1>0, <1>5

\* Days put aside: by the NOW() of the transaction no subscription counted, and
\* so none counts by a later one.
LEMMA BonusFindRefines ==
    ASSUME IInv, NEW h \in Handlers, BonusFind(h)
    PROVE  UNCHANGED ledger \/ \E u \in Users : \E d \in BonusDays : Ledger!Bonus(u, d)
<1>t. TypeOK /\ TxRow(h) /\ BonusInv(h)
  BY DEF IInv, TxInv
<1> DEFINE u == tx[h].user
           d == tx[h].days
<1>0. /\ tx[h] \in Transaction /\ tx[h] # Idle /\ u \in Users /\ d \in BonusDays
      /\ tx[h].start \in Nat /\ now \in Nat /\ tx[h].start <= now
  BY <1>t, KindTells DEF BonusFind, At, Transaction, BonusInv, TypeOK, TxRow
<1>1. CASE ActiveRows(u, tx[h].start) = {}
  <2>1. ASSUME NEW s \in Ledger!RowsOf(u) PROVE ~Ledger!Live(s)
    <3>1. s \notin ActiveRows(u, tx[h].start) /\ s \in RowsOf(u) /\ s \in DOMAIN subs
      BY <1>1 DEF Ledger!RowsOf, RowsOf
    <3>2. subs[s].expires \in Nat
      BY <1>t, <3>1, RowFacts
    <3> QED
      BY <1>0, <3>1, <3>2 DEF ActiveRows, Current, Ledger!Live, Ledger!Current
  <2>2. Ledger!Bonus(u, d)
    BY <1>1, <2>1 DEF BonusFind, Ledger!Bonus
  <2> QED
    BY <1>0, <2>2
<1>2. CASE ActiveRows(u, tx[h].start) # {}
  BY <1>2 DEF BonusFind, ledger
<1> QED
  BY <1>1, <1>2

LEMMA BonusCommitRefines ==
    ASSUME IInv, NEW h \in Handlers, BonusCommit(h)
    PROVE  \E u \in Users : \E d \in BonusDays : Ledger!Bonus(u, d)
<1>t. TypeOK /\ TxRow(h) /\ BonusInv(h)
  BY DEF IInv, TxInv
<1> DEFINE u == tx[h].user
           d == tx[h].days
           s == tx[h].sub
<1>0. /\ tx[h] \in Transaction /\ tx[h] # Idle /\ u \in Users /\ d \in BonusDays
      /\ s # 0 /\ Current(s) /\ tx[h].base = subs[s].expires
  BY <1>t, KindTells DEF BonusCommit, At, Transaction, BonusInv
<1>1. s \in Ledger!RowsOf(u) /\ Ledger!Current(s)
  BY <1>t, <1>0 DEF TxRow, Ledger!RowsOf, Ledger!Current, Current
<1>2. subs' = [subs EXCEPT ![s].expires = @ + d]
  BY <1>0 DEF BonusCommit
<1>3. Ledger!Bonus(u, d)
  BY <1>1, <1>2 DEF BonusCommit, Ledger!Bonus
<1> QED
  BY <1>0, <1>3

LEMMA ClaimCommitRefines ==
    ASSUME IInv, NEW h \in Handlers, ClaimCommit(h)
    PROVE  \E u \in Users : Ledger!ChannelBonus(u)
<1>t. TypeOK /\ TxRow(h) /\ ClaimInv(h)
  BY DEF IInv, TxInv
<1> DEFINE u == tx[h].user
           s == tx[h].sub
           read == tx[h].base
<1>0. /\ tx[h] \in Transaction /\ tx[h] # Idle /\ u \in Users /\ u \notin claimed
      /\ s # 0 /\ read \in Nat /\ read <= subs[s].expires
  BY <1>t, KindTells DEF ClaimCommit, At, Transaction, ClaimInv
<1>1. s \in Ledger!RowsOf(u) /\ subs[s].expires \in Nat
  BY <1>t, <1>0, RowFacts DEF TxRow, Ledger!RowsOf
<1>2. read \in 0 .. subs[s].expires
  BY <1>0, <1>1
<1>3. subs' = [subs EXCEPT ![s].expires = read + ChannelDays]
  BY DEF ClaimCommit
<1>4. Ledger!ChannelBonus(u)
  BY <1>0, <1>1, <1>2, <1>3 DEF ClaimCommit, Ledger!ChannelBonus
<1> QED
  BY <1>0, <1>4

\* The cron marks only what is over, by whatever clock it started with.
LEMMA ExpireRefines ==
    ASSUME IInv, NEW start \in {now, now - 1} \cap Nat, ExpireOverdueSubscriptions(start)
    PROVE  \E S \in SUBSET DOMAIN subs : Ledger!Expire(S)
<1>t. TypeOK
  BY DEF IInv
<1> DEFINE overdue == {s \in DOMAIN subs : Current(s) /\ subs[s].expires < start}
<1>1. ASSUME NEW s \in overdue PROVE Ledger!Current(s) /\ ~Ledger!Live(s)
  <2>1. subs[s].expires \in Nat /\ now \in Nat /\ start <= now
    BY <1>t, RowFacts DEF TypeOK
  <2> QED
    BY <2>1 DEF Current, Ledger!Current, Ledger!Live
<1>2. subs' = [s \in DOMAIN subs |->
                  IF s \in overdue THEN [subs[s] EXCEPT !.status = "expired"] ELSE subs[s]]
  BY DEF ExpireOverdueSubscriptions
<1>3. Ledger!Expire(overdue)
  BY <1>1, <1>2 DEF ExpireOverdueSubscriptions, Ledger!Expire
<1> QED
  BY <1>3

LEMMA StepRefines == ASSUME IInv, [Next]_vars PROVE [Ledger!Next]_(Ledger!vars)
<1>0. ASSUME UNCHANGED ledger PROVE UNCHANGED Ledger!vars
  BY <1>0 DEF ledger, Ledger!vars
<1>1. CASE \E h \in Handlers, u \in Users :
             \/ \E d \in PlanDays : Begin(h, "create", u, d)
             \/ \E d \in TrialDays : Begin(h, "trial", u, d)
             \/ \E d \in BonusDays : Begin(h, "bonus", u, d)
             \/ ClaimChannelBonus(h, u)
  BY <1>0, <1>1 DEF Begin, ClaimChannelBonus
<1>2. ASSUME NEW h \in Handlers, Advance(h) PROVE [Ledger!Next]_(Ledger!vars)
  <2>1. CASE \/ CreateFind(h) \/ CreateLock(h) \/ CreateInsert(h) \/ TrialLock(h)
             \/ BonusLockUser(h) \/ BonusLock(h) \/ ClaimLock(h)
    BY <1>0, <2>1 DEF CreateFind, CreateLock, CreateInsert, TrialLock, BonusLockUser,
       BonusLock, ClaimLock
  <2>2. CASE CreateCommit(h)
    BY <2>2, CreateCommitRefines DEF Ledger!Next
  <2>3. CASE TrialCommit(h)
    BY <2>3, TrialCommitRefines DEF Ledger!Next
  <2>4. CASE BonusFind(h)
    BY <1>0, <2>4, BonusFindRefines DEF Ledger!Next
  <2>5. CASE BonusCommit(h)
    BY <2>5, BonusCommitRefines DEF Ledger!Next
  <2>6. CASE ClaimCommit(h)
    BY <2>6, ClaimCommitRefines DEF Ledger!Next
  <2> QED
    BY <1>2, <2>1, <2>2, <2>3, <2>4, <2>5, <2>6 DEF Advance
<1>3. CASE \E h \in Handlers : Rollback(h)
  BY <1>0, <1>3 DEF Rollback
<1>4. CASE \E s \in DOMAIN subs :
             CancelSubscription(s) \/ \E d \in BonusDays : ExtendSubscription(s, d)
  BY <1>4 DEF CancelSubscription, ExtendSubscription, Ledger!Next, Ledger!Cancel,
     Ledger!Extend
<1>5. CASE \E start \in {now, now - 1} \cap Nat : ExpireOverdueSubscriptions(start)
  BY <1>5, ExpireRefines DEF Ledger!Next
<1>6. CASE Tick
  BY <1>6 DEF Tick, Ledger!Next, Ledger!Tick
<1>7. CASE UNCHANGED vars
  BY <1>0, <1>7 DEF vars
<1> QED
  BY <1>1, <1>2, <1>3, <1>4, <1>5, <1>6, <1>7 DEF Next

\* The transactions of any number of handlers, interleaved statement by
\* statement and rolled back at any point, change the ledger of days as if they
\* ran one at a time, each at its commit.
THEOREM Refinement == Spec => RefinesLedger
<1>1. Init => Ledger!Init
  BY DEF Init, Ledger!Init
<1>2. IInv /\ [Next]_vars => [Ledger!Next]_(Ledger!vars)
  BY StepRefines
<1> QED
  BY <1>1, <1>2, Invariant, PTL DEF Spec, RefinesLedger, Ledger!Spec

-----------------------------------------------------------------------------
(* Waiting days.                                                            *)

\* A subscription that comes to count for a user was in the table already and
\* had run out, unless the step took the user's waiting days.
LEMMA NoNewLive ==
    ASSUME TypeOK, NEW u \in Users, now' >= now, now' \in Nat,
           DOMAIN subs' = DOMAIN subs,
           \A s \in DOMAIN subs : subs'[s].user = subs[s].user,
           \A s \in RowsOf(u) : /\ Current(s)' => Current(s)
                                /\ subs'[s].expires = subs[s].expires,
           HasLive(u)'
    PROVE  HasLive(u)
<1> PICK s \in RowsOf(u)' : Current(s)' /\ subs'[s].expires > now'
  BY DEF HasLive
<1>1. s \in RowsOf(u) /\ s \in DOMAIN subs
  BY DEF RowsOf
<1>2. subs[s].expires \in Nat /\ now \in Nat
  BY <1>1, RowFacts DEF TypeOK
<1> QED
  BY <1>1, <1>2 DEF HasLive

\* A bonus that makes a subscription count again took it for active at a time
\* that has passed.
LEMMA RevivedLate ==
    ASSUME TypeOK, NEW u \in Users, NEW h \in Handlers, tx[h] # Idle,
           NEW s \in DOMAIN subs, now' = now,
           tx[h].kind \in {"bonus", "claim"}, tx[h].start < tx[h].base,
           tx[h].base <= subs[s].expires, NEW e \in Nat,
           subs' = [subs EXCEPT ![s].expires = e],
           ~HasLive(u), HasLive(u)'
    PROVE  LateBonus(h)
<1>0. tx[h].start \in Nat /\ tx[h].base \in Nat /\ now \in Nat /\ subs[s].expires \in Nat
  BY KindTells, RowFacts DEF Transaction, TypeOK
<1>1. /\ DOMAIN subs' = DOMAIN subs
      /\ subs'[s].user = subs[s].user /\ subs'[s].status = subs[s].status
      /\ \A t \in DOMAIN subs \ {s} : subs'[t] = subs[t]
  BY ProlongFacts
<1>2. PICK t \in RowsOf(u)' : Current(t)' /\ subs'[t].expires > now'
  BY DEF HasLive
<1>3. t \in DOMAIN subs
  BY <1>1 DEF RowsOf
<1>4. t = s
  <2> SUFFICES ASSUME t # s PROVE FALSE
    OBVIOUS
  <2>1. t \in RowsOf(u) /\ Current(t) /\ subs[t].expires > now
    BY <1>1, <1>2, <1>3 DEF RowsOf, Current
  <2> QED
    BY <2>1 DEF HasLive
<1>5. s \in RowsOf(u) /\ Current(s)
  BY <1>1, <1>2, <1>3, <1>4 DEF RowsOf, Current
<1>6. ~(subs[s].expires > now)
  BY <1>5 DEF HasLive
<1> QED
  BY <1>0, <1>6 DEF LateBonus

\* The statement of the property, for one user and one step.
Excepted == \/ \E s \in DOMAIN subs, d \in BonusDays : ExtendSubscription(s, d)
            \/ \E h \in Handlers : LateBonus(h) /\ tx'[h] = Idle

LEMMA WaitingStep ==
    ASSUME IInv, [Next]_vars, NEW u \in Users,
           ~(pending[u] > 0 /\ HasLive(u)), (pending[u] > 0 /\ HasLive(u))'
    PROVE  Excepted
<1>t. TypeOK /\ \A h \in Handlers : TxInv(h)
  BY DEF IInv
<1>q. ASSUME UNCHANGED ledger PROVE FALSE
  BY <1>q DEF ledger, HasLive, RowsOf, Current
<1>1. CASE \E h \in Handlers, v \in Users :
             \/ \E d \in PlanDays : Begin(h, "create", v, d)
             \/ \E d \in TrialDays : Begin(h, "trial", v, d)
             \/ \E d \in BonusDays : Begin(h, "bonus", v, d)
             \/ ClaimChannelBonus(h, v)
  BY <1>q, <1>1 DEF Begin, ClaimChannelBonus
<1>2. ASSUME NEW h \in Handlers, Advance(h) PROVE Excepted
  <2>1. CASE \/ CreateFind(h) \/ CreateLock(h) \/ CreateInsert(h) \/ TrialLock(h)
             \/ BonusLockUser(h) \/ BonusLock(h) \/ ClaimLock(h)
    BY <1>q, <2>1 DEF CreateFind, CreateLock, CreateInsert, TrialLock, BonusLockUser,
       BonusLock, ClaimLock
  <2>2. CASE CreateCommit(h) \/ TrialCommit(h)
    <3>1. /\ tx[h] # Idle /\ pending' = [pending EXCEPT ![tx[h].user] = 0] /\ now' = now
          /\ TxRow(h) /\ tx[h].user \in Users
      BY <1>t, <2>2, KindTells DEF CreateCommit, TrialCommit, At, TxInv, Transaction
    <3>2. u # tx[h].user /\ pending'[u] = pending[u]
      BY <1>t, <3>1 DEF TypeOK
    <3>3. PICK s \in RowsOf(u)' : Current(s)' /\ subs'[s].expires > now'
      BY DEF HasLive
    <3>4. s \in RowsOf(u) /\ subs'[s] = subs[s]
      <4>1. PICK kind \in {"active", "trial"} : Write(h, kind)
        BY <2>2 DEF CreateCommit, TrialCommit
      <4>2. s \in DOMAIN subs
        <5>1. CASE tx[h].sub = 0
          <6>1. PICK e : subs' = Append(subs, [user |-> tx[h].user, status |-> kind,
                                              expires |-> e])
            BY <4>1, <5>1 DEF Write
          <6>2. subs'[Len(subs) + 1].user = tx[h].user /\ DOMAIN subs' = DOMAIN subs \cup {Len(subs) + 1}
            BY <1>t, <6>1, RowFacts DEF TypeOK
          <6> QED
            BY <3>2, <3>3, <6>2 DEF RowsOf
        <5>2. CASE tx[h].sub # 0
          <6>1. DOMAIN subs' = DOMAIN subs
            BY <4>1, <5>2 DEF Write
          <6> QED
            BY <3>3, <6>1 DEF RowsOf
        <5> QED
          BY <5>1, <5>2
      <4>3. subs'[s].user = subs[s].user /\ (s # tx[h].sub => subs'[s] = subs[s])
        BY <3>1, <4>1, <4>2, WriteFacts
      <4>4. subs[s].user = u /\ s # tx[h].sub
        BY <1>t, <3>1, <3>2, <3>3, <4>2, <4>3, RowFacts DEF RowsOf, TxRow
      <4> QED
        BY <4>2, <4>3, <4>4 DEF RowsOf
    <3>5. HasLive(u)
      BY <3>1, <3>3, <3>4 DEF HasLive, Current
    <3> QED
      BY <3>2, <3>5
  <2>3. CASE BonusFind(h)
    <3>1. CASE ActiveRows(tx[h].user, tx[h].start) # {}
      BY <1>q, <2>3, <3>1 DEF BonusFind, ledger
    <3>2. CASE ActiveRows(tx[h].user, tx[h].start) = {}
      <4>1. /\ pending' = [pending EXCEPT ![tx[h].user] = @ + tx[h].days] /\ End(h)
            /\ UNCHANGED <<subs, now>> /\ tx[h].kind = "bonus"
        BY <2>3, <3>2 DEF BonusFind, At
      <4>2. HasLive(u) /\ ~(pending[u] > 0)
        BY <4>1 DEF HasLive, RowsOf, Current
      <4>3. u = tx[h].user
        BY <1>t, <4>1, <4>2 DEF TypeOK
      <4>4. PICK s \in RowsOf(u) : Current(s) /\ subs[s].expires > now
        BY <4>2 DEF HasLive
      <4>5. ~(subs[s].expires > tx[h].start)
        BY <3>2, <4>3, <4>4 DEF ActiveRows
      <4>6. /\ tx[h].start \in Nat /\ now \in Nat /\ subs[s].expires \in Nat
            /\ tx[h].start <= now
        BY <1>t, <4>1, <4>4, KindTells, RowFacts DEF Transaction, TypeOK, RowsOf, TxInv, TxRow
      <4> QED
        BY <4>4, <4>5, <4>6
    <3> QED
      BY <3>1, <3>2
  <2>4. CASE BonusCommit(h)
    <3>1. /\ tx[h] # Idle /\ tx[h] \in Transaction /\ tx[h].kind = "bonus"
          /\ tx[h].pc = "commit" /\ tx'[h] = Idle
          /\ UNCHANGED <<pending, now>>
      BY <1>t, <2>4, KindTells, EndFacts DEF BonusCommit, At
    <3>2. /\ tx[h].sub \in DOMAIN subs /\ tx[h].start < tx[h].base
          /\ tx[h].base = subs[tx[h].sub].expires /\ tx[h].base + tx[h].days \in Nat
          /\ tx[h].base <= subs[tx[h].sub].expires
      BY <1>t, <3>1, RowFacts DEF TxInv, TxRow, BonusInv, Transaction
    <3>3. LateBonus(h)
      BY <1>t, <2>4, <3>1, <3>2, RevivedLate DEF BonusCommit
    <3> QED
      BY <3>1, <3>3 DEF Excepted
  <2>5. CASE ClaimCommit(h)
    <3>1. /\ tx[h] # Idle /\ tx[h] \in Transaction /\ tx[h].kind = "claim"
          /\ tx[h].pc = "commit" /\ tx'[h] = Idle
          /\ UNCHANGED <<pending, now>>
      BY <1>t, <2>5, KindTells, EndFacts DEF ClaimCommit, At
    <3>2. /\ tx[h].sub \in DOMAIN subs /\ tx[h].start < tx[h].base
          /\ tx[h].base <= subs[tx[h].sub].expires /\ tx[h].base + ChannelDays \in Nat
      BY <1>t, <3>1, DaysAssumption DEF TxInv, TxRow, ClaimInv, Transaction
    <3>3. LateBonus(h)
      BY <1>t, <2>5, <3>1, <3>2, RevivedLate DEF ClaimCommit
    <3> QED
      BY <3>1, <3>3 DEF Excepted
  <2> QED
    BY <1>2, <2>1, <2>2, <2>3, <2>4, <2>5 DEF Advance
<1>3. CASE \E h \in Handlers : Rollback(h)
  BY <1>q, <1>3 DEF Rollback
<1>4. CASE \E s \in DOMAIN subs, d \in BonusDays : ExtendSubscription(s, d)
  BY <1>4 DEF Excepted
<1>5. CASE \E s \in DOMAIN subs : CancelSubscription(s)
  <2> PICK s \in DOMAIN subs : CancelSubscription(s)
    BY <1>5
  <2> DEFINE r == [subs[s] EXCEPT !.status = "cancelled"]
  <2>1. /\ r \in Row /\ r.user = subs[s].user /\ r.expires = subs[s].expires
        /\ r.status = "cancelled"
    BY <1>t, RowFacts DEF Row, Status
  <2>2. subs' = [subs EXCEPT ![s] = r] /\ UNCHANGED <<pending, now>>
    BY DEF CancelSubscription
  <2> HIDE DEF r
  <2>3. /\ DOMAIN subs' = DOMAIN subs /\ subs'[s] = r
        /\ \A t \in DOMAIN subs \ {s} : subs'[t] = subs[t]
    BY <1>t, <2>1, <2>2, UpdateFacts
  <2>4. \A t \in DOMAIN subs : /\ subs'[t].user = subs[t].user
                               /\ Current(t)' => Current(t)
                               /\ subs'[t].expires = subs[t].expires
    BY <2>1, <2>3 DEF Current
  <2>5. HasLive(u)
    BY <1>t, <2>2, <2>3, <2>4, NoNewLive DEF TypeOK, RowsOf
  <2> QED
    BY <2>2, <2>5
<1>6. CASE \E start \in {now, now - 1} \cap Nat : ExpireOverdueSubscriptions(start)
  <2>1. UNCHANGED <<pending, now>>
    BY <1>6 DEF ExpireOverdueSubscriptions
  <2>2. HasLive(u)
    BY <1>t, <1>6, <2>1, ExpireFacts, NoNewLive DEF TypeOK, RowsOf
  <2> QED
    BY <2>1, <2>2
<1>7. CASE Tick
  <2>1. now' = now + 1 /\ UNCHANGED <<subs, pending>>
    BY <1>7 DEF Tick
  <2>2. HasLive(u)
    BY <1>t, <2>1, NoNewLive DEF TypeOK, RowsOf, Current
  <2> QED
    BY <2>1, <2>2
<1>8. CASE UNCHANGED vars
  BY <1>q, <1>8 DEF vars
<1> QED
  BY <1>1, <1>2, <1>3, <1>4, <1>5, <1>6, <1>7, <1>8 DEF Next

\* Whoever gets a subscription has his waiting days used up by the transaction
\* that gives it to him; days wait beside a subscription that counts only after
\* one that had run out was revived.
THEOREM Waiting == Spec => PendingWithoutLive
<1>1. IInv /\ [Next]_vars =>
        [\A u \in Users :
           ~(pending[u] > 0 /\ HasLive(u)) /\ (pending[u] > 0 /\ HasLive(u))'
             => \/ \E s \in DOMAIN subs, d \in BonusDays : ExtendSubscription(s, d)
                \/ \E h \in Handlers : LateBonus(h) /\ tx'[h] = Idle]_vars
  BY WaitingStep DEF Excepted
<1> QED
  BY <1>1, Invariant, PTL DEF Spec, PendingWithoutLive

-----------------------------------------------------------------------------
(* Deadlocks.                                                               *)

\* A transaction of user u.
Of(h, u) == tx[h] # Idle /\ tx[h].user = u

\* Whoever keeps another waiting is at work for the same user.
LEMMA Holders ==
    ASSUME IInv, NEW h \in Handlers, NEW u \in Users, Of(h, u),
           \A g \in Handlers : Of(g, u) => tx[g].kind # "create"
    PROVE  /\ \A g \in Others(h) : ~HoldsUserKey(g, u)
           /\ \A g \in Others(h) : HoldsUser(g, u) => Of(g, u) /\ tx[g].pc # "open"
           /\ tx[h].sub # 0 => \A g \in Handlers : HoldsSub(g, tx[h].sub) =>
                 Of(g, u) /\ tx[g].kind = "bonus" /\ tx[g].pc = "commit"
<1>t. TypeOK /\ \A g \in Handlers : TxRow(g)
  BY DEF IInv, TxInv
<1>1. \A g \in Handlers : tx[g].kind \in {"create", "trial", "bonus", "claim"} => tx[g] # Idle
  BY <1>t, KindTells
<1>2. \A g \in Others(h) : ~HoldsUserKey(g, u)
  BY <1>1 DEF HoldsUserKey, At, Of, Others
<1>3. \A g \in Others(h) : HoldsUser(g, u) => Of(g, u) /\ tx[g].pc # "open"
  BY <1>1 DEF HoldsUser, Of, Others
<1>4. ASSUME tx[h].sub # 0, NEW g \in Handlers, HoldsSub(g, tx[h].sub)
      PROVE  Of(g, u) /\ tx[g].kind = "bonus" /\ tx[g].pc = "commit"
  <2>1. tx[g] # Idle /\ tx[g].sub = tx[h].sub
    BY <1>1, <1>4 DEF HoldsSub
  <2>2. subs[tx[h].sub].user = u /\ subs[tx[g].sub].user = tx[g].user
    BY <1>t, <1>4, <2>1 DEF TxRow, Of
  <2>3. Of(g, u)
    BY <2>1, <2>2 DEF Of
  <2> QED
    BY <1>4, <2>3 DEF HoldsSub
<1> QED
  BY <1>2, <1>3, <1>4

\* The subscription is the last lock a bonus takes; so whoever has it goes on.
LEMMA GoesOn ==
    ASSUME IInv, NEW u \in Users, NEW k \in Handlers, Of(k, u),
           \A g \in Handlers : Of(g, u) => tx[g].kind # "create"
    PROVE  \E h \in Handlers : Of(h, u) /\ ~Waits(h)
<1>t. TypeOK /\ \A h \in Handlers : BonusInv(h) /\ ClaimInv(h)
  BY DEF IInv, TxInv
<1>1. \A h \in Handlers : Of(h, u) => /\ tx[h].kind \in {"trial", "bonus", "claim"}
                                      /\ tx[h].pc \in {"open", "find", "lock", "commit"}
  BY <1>t, KindTells DEF Of, Transaction
<1>2. ASSUME NEW h \in Handlers, Of(h, u), tx[h].kind = "bonus", tx[h].pc = "commit"
      PROVE  ~Waits(h)
  BY <1>2 DEF Waits, At
<1>3. CASE \E h \in Handlers : Of(h, u) /\ tx[h].pc # "open"
  <2>1. PICK h \in Handlers : Of(h, u) /\ tx[h].pc # "open"
    BY <1>3
  <2>2. ASSUME Waits(h)
        PROVE  tx[h].sub # 0 /\ ~SubFree(tx[h].sub)
    BY <1>t, <1>1, <2>1, <2>2 DEF Waits, At, BonusInv, ClaimInv
  <2>3. CASE Waits(h)
    <3>1. PICK g \in Handlers : HoldsSub(g, tx[h].sub)
      BY <2>2, <2>3 DEF SubFree
    <3>2. Of(g, u) /\ tx[g].kind = "bonus" /\ tx[g].pc = "commit"
      BY <2>1, <2>2, <2>3, <3>1, Holders
    <3> QED
      BY <1>2, <3>2
  <2> QED
    BY <2>1, <2>3
<1>4. CASE \A h \in Handlers : Of(h, u) => tx[h].pc = "open"
  <2>1. UserFree(k, u)
    BY <1>4, Holders DEF UserFree, Others
  <2>2. tx[k].user = u /\ tx[k].pc = "open" /\ tx[k].kind # "create"
    BY <1>1, <1>4 DEF Of
  <2> QED
    BY <2>1, <2>2 DEF Waits, At
<1> QED
  BY <1>3, <1>4

\* A step is only taken by a transaction that does not wait: Waits names nothing
\* that the code does not wait for.
LEMMA NoStepWaits == ASSUME NEW h \in Handlers, Advance(h) PROVE ~Waits(h)
  BY DEF Advance, Waits, At, CreateFind, CreateLock, CreateInsert, CreateCommit, TrialLock,
         TrialCommit, BonusLockUser, BonusFind, BonusLock, BonusCommit, ClaimLock, ClaimCommit

\* Only CreateSubscription, which locks a subscription before its user while the
\* others lock the user first, can be part of a deadlock: of a user for whom no
\* purchase is in progress, some transaction waits for nobody, whatever goes on
\* for other users.
THEOREM OnlyPurchases == Spec => []OthersGoOn
<1>1. IInv => OthersGoOn
  <2> SUFFICES ASSUME IInv, NEW u \in Users, NEW k \in Handlers, Of(k, u),
                      \A h \in Handlers : Of(h, u) => tx[h].kind # "create"
               PROVE  \E h \in Handlers : Of(h, u) /\ ~Waits(h)
    BY DEF OthersGoOn, Of
  <2> QED
    BY GoesOn
<1> QED
  BY <1>1, Invariant, PTL
\* The row that ORDER BY expires_at DESC LIMIT 1 gives, or 0.
TheLatest(S) == CHOOSE s \in S \cup {0} : Latest(S, s)

\* The tables after the COMMIT of a transaction that sells or tries out a plan.
Written(h, kind) ==
    LET u == tx[h].user
        expires == tx[h].base + tx[h].days + pending[u]
    IN  IF tx[h].sub = 0
        THEN Append(subs, [user |-> u, status |-> kind, expires |-> expires])
        ELSE [subs EXCEPT ![tx[h].sub].status = kind, ![tx[h].sub].expires = expires]

Moved(h, s, base, pc) == [tx EXCEPT ![h].sub = s, ![h].base = base, ![h].pc = pc]
Ended(h) == [tx EXCEPT ![h] = Idle]

\* The state in which the next statement of h leaves the service, the value of vars.
After(h) ==
    LET u == tx[h].user
        s == tx[h].sub
        base == tx[h].base
        start == tx[h].start
        active == ActiveRows(u, start)
        used == [pending EXCEPT ![u] = 0]
        Only(t) == <<ledger, t, calls>>
        Commits(t, p, tried, c) == <<<<t, p, tried, c, now>>, Ended(h), calls>>
    IN  CASE At(h, "create", "open") -> Only(Moved(h, TheLatest(RowsOf(u)), base, "lock"))
          [] At(h, "create", "lock") ->
               Only(Moved(h, s, IF s # 0 /\ Live(s) THEN subs[s].expires ELSE start, "commit"))
          [] At(h, "create", "commit") ->
               Commits(Written(h, "active"), used, trialUsed, claimed)
          [] At(h, "trial", "open") ->
               Only(IF u \in trialUsed THEN Ended(h) ELSE Moved(h, s, start, "commit"))
          [] At(h, "trial", "commit") ->
               Commits(Written(h, "trial"), used, trialUsed \cup {u}, claimed)
          [] At(h, "bonus", "open") -> Only(Moved(h, s, base, "find"))
          [] At(h, "bonus", "find") ->
               IF active = {}
               THEN Commits(subs, [pending EXCEPT ![u] = @ + tx[h].days], trialUsed, claimed)
               ELSE Only(Moved(h, TheLatest(active), base, "lock"))
          [] At(h, "bonus", "lock") ->
               Only(IF s \in active THEN Moved(h, s, subs[s].expires, "commit")
                    ELSE Moved(h, s, base, "find"))
          [] At(h, "bonus", "commit") ->
               Commits([subs EXCEPT ![s].expires = base + tx[h].days], pending,
                       trialUsed, claimed)
          [] At(h, "claim", "open") ->
               Only(IF u \notin SameId \/ u \in claimed \/ active = {} THEN Ended(h)
                    ELSE Moved(h, TheLatest(active), subs[TheLatest(active)].expires, "commit"))
          [] At(h, "claim", "commit") ->
               Commits([subs EXCEPT ![s].expires = base + ChannelDays], pending,
                       trialUsed, claimed \cup {u})

\* In a finite set something is smallest: the strict subsets of a finite set are
\* well-founded, and what is below x grows with x.
LEMMA Smallest ==
    ASSUME NEW S, IsFiniteSet(S), S # {}, NEW f \in [S -> Int]
    PROVE  \E x \in S : \A y \in S : f[x] <= f[y]
<1> DEFINE Below(x) == {y \in S : f[y] < f[x]}
           T == {Below(x) : x \in S}
           R == StrictSubsetOrdering(S)
<1>1. \A x \in S : Below(x) \subseteq S /\ IsFiniteSet(Below(x))
  BY FS_Subset
<1>2. T \subseteq FiniteSubsetsOf(S) /\ T # {}
  <2> HIDE DEF Below
  <2>1. T # {}
    OBVIOUS
  <2>2. ASSUME NEW x \in S PROVE Below(x) \in FiniteSubsetsOf(S)
    BY <1>1 DEF FiniteSubsetsOf
  <2> QED
    BY <2>1, <2>2
<1>3. IsWellFoundedOn(R, FiniteSubsetsOf(S))
  BY FS_StrictSubsetOrderingWellFounded
<1>4. PICK X \in T : \A Y \in T : ~(<<Y, X>> \in R)
  <2> HIDE DEF T, R
  <2> QED
    BY <1>2, <1>3, WFMin
<1>5. PICK x \in S : X = Below(x)
  OBVIOUS
<1>6. ASSUME NEW y \in S, f[y] < f[x]
      PROVE  FALSE
  <2>1. Below(y) \subseteq Below(x) /\ y \in Below(x) /\ y \notin Below(y)
    BY <1>6
  <2>2. <<Below(y), Below(x)>> \in R
    BY <2>1 DEF StrictSubsetOrdering
  <2> QED
    BY <1>4, <1>5, <2>2
<1> QED
  BY <1>6

\* ORDER BY ... LIMIT 1 finds a row where there is one.
LEMMA TheLatestFacts ==
    ASSUME TypeOK, NEW S \in SUBSET DOMAIN subs
    PROVE  /\ Latest(S, TheLatest(S))
           /\ TheLatest(S) \in 0 .. Len(subs) /\ (S # {} => TheLatest(S) \in S)
<1>1. DOMAIN subs = 1 .. Len(subs) /\ Len(subs) \in Nat
  BY RowFacts
<1>2. IsFiniteSet(S)
  <2>1. IsFiniteSet(1 .. Len(subs))
    BY <1>1, FS_Interval
  <2> QED
    BY <1>1, <2>1, FS_Subset
<1>3. \A s \in S : s # 0 /\ subs[s].expires \in Int
  BY <1>1, RowFacts
<1>4. \E s \in S \cup {0} : Latest(S, s)
  <2>1. CASE S = {}
    BY <2>1 DEF Latest
  <2>2. CASE S # {}
    <3> DEFINE f == [s \in S |-> -subs[s].expires]
    <3>1. f \in [S -> Int] /\ \A s \in S : f[s] = -subs[s].expires
      BY <1>3
    <3> HIDE DEF f
    <3>2. PICK s \in S : \A t \in S : f[s] <= f[t]
      BY <1>2, <2>2, <3>1, Smallest
    <3>3. \A t \in S : subs[t].expires <= subs[s].expires
      BY <1>3, <3>1, <3>2
    <3> QED
      BY <2>2, <3>3 DEF Latest
  <2> QED
    BY <2>1, <2>2
<1>5. TheLatest(S) \in S \cup {0} /\ Latest(S, TheLatest(S))
  BY <1>4 DEF TheLatest
<1> QED
  BY <1>1, <1>5 DEF Latest

\* The statements that each kind of transaction has.
PcInv(h) ==
    /\ tx[h].kind = "create" => tx[h].pc \in {"open", "lock", "commit"}
    /\ tx[h].kind \in {"trial", "claim"} => tx[h].pc \in {"open", "commit"}

\* A transaction goes from statement to statement of its own kind.
LEMMA PcStep ==
    ASSUME TypeOK, NEW h \in Handlers, PcInv(h), [Next]_vars
    PROVE  PcInv(h)'
<1>1. ASSUME tx'[h] = tx[h] PROVE PcInv(h)'
  BY <1>1 DEF PcInv
<1>2. ASSUME NEW g \in Handlers, NEW kind \in {"create", "trial", "bonus", "claim"},
             NEW u, NEW d, Begin(g, kind, u, d)
      PROVE  PcInv(h)'
  BY <1>2 DEF Begin, PcInv, TypeOK
<1>3. ASSUME NEW g \in Handlers, End(g) PROVE PcInv(h)'
  <2>1. tx'[h] = IF h = g THEN Idle ELSE tx[h]
    BY <1>3 DEF End, TypeOK
  <2> QED
    BY <2>1 DEF PcInv, Idle
<1>4. ASSUME NEW g \in Handlers, tx[g].kind \in {"create", "trial", "bonus", "claim"},
             NEW s, NEW base, NEW pc, tx' = Moved(g, s, base, pc),
             \/ tx[g].kind = "create" /\ pc \in {"lock", "commit"}
             \/ tx[g].kind \in {"trial", "claim"} /\ pc = "commit"
             \/ tx[g].kind = "bonus"
      PROVE  PcInv(h)'
  <2>1. tx[g] \in Transaction
    BY <1>4, KindTells
  <2>2. CASE h = g
    <3>1. tx'[h].kind = tx[h].kind /\ tx'[h].pc = pc
      BY <1>4, <2>1, <2>2 DEF Moved, Transaction, TypeOK
    <3> QED
      BY <1>4, <2>2, <3>1 DEF PcInv
  <2>3. CASE h # g
    BY <1>1, <1>4, <2>3 DEF Moved, TypeOK
  <2> QED
    BY <2>2, <2>3
<1>5. ASSUME NEW g \in Handlers, Advance(g) PROVE PcInv(h)'
  <2>1. ASSUME tx[g].kind \in {"create", "trial", "bonus", "claim"}
        PROVE  tx[g] # Idle
    BY <2>1, KindTells
  <2>2. CASE CreateFind(g)
    <3> PICK s \in 0 .. Len(subs) : tx' = [tx EXCEPT ![g].sub = s, ![g].pc = "lock"]
      BY <2>2 DEF CreateFind
    <3>1. tx[g].kind = "create" /\ tx[g] # Idle
      BY <2>1, <2>2 DEF CreateFind, At
    <3>2. tx' = Moved(g, s, tx[g].base, "lock")
      BY <3>1, KindTells DEF Moved, Transaction, TypeOK
    <3> QED
      BY <3>1, <3>2, <1>4
  <2>3. CASE CreateLock(g) \/ CreateInsert(g)
    <3>1. PICK base : tx' = [tx EXCEPT ![g].base = base, ![g].pc = "commit"]
      BY <2>3 DEF CreateLock, CreateInsert
    <3>2. tx[g].kind = "create" /\ tx[g] # Idle
      BY <2>1, <2>3 DEF CreateLock, CreateInsert, At
    <3>3. tx' = Moved(g, tx[g].sub, base, "commit")
      BY <3>1, <3>2, KindTells DEF Moved, Transaction, TypeOK
    <3> QED
      BY <3>2, <3>3, <1>4
  <2>4. CASE TrialLock(g) /\ tx[g].user \notin trialUsed
    <3>1. /\ tx[g].kind = "trial" /\ tx[g] # Idle
          /\ tx' = [tx EXCEPT ![g].base = tx[g].start, ![g].pc = "commit"]
      BY <2>1, <2>4 DEF TrialLock, At
    <3>2. tx' = Moved(g, tx[g].sub, tx[g].start, "commit")
      BY <3>1, KindTells DEF Moved, Transaction, TypeOK
    <3> QED
      BY <3>1, <3>2, <1>4
  <2>5. CASE BonusLockUser(g)
    <3>1. tx' = Moved(g, tx[g].sub, tx[g].base, "find") /\ tx[g].kind = "bonus"
      BY <2>1, <2>5, KindTells DEF BonusLockUser, At, Goto, Moved, Transaction, TypeOK
    <3> QED
      BY <3>1, <1>4
  <2>6. CASE BonusFind(g) /\ ActiveRows(tx[g].user, tx[g].start) # {}
    <3> PICK s : tx' = [tx EXCEPT ![g].sub = s, ![g].pc = "lock"]
      BY <2>6 DEF BonusFind
    <3>1. tx[g].kind = "bonus" /\ tx[g] # Idle
      BY <2>1, <2>6 DEF BonusFind, At
    <3>2. tx' = Moved(g, s, tx[g].base, "lock")
      BY <3>1, KindTells DEF Moved, Transaction, TypeOK
    <3> QED
      BY <3>1, <3>2, <1>4
  <2>7. CASE BonusLock(g)
    <3>1. tx[g].kind = "bonus"
      BY <2>7 DEF BonusLock, At
    <3>2. \E base, pc : tx' = Moved(g, tx[g].sub, base, pc)
      <4>1. CASE tx[g].sub \in ActiveRows(tx[g].user, tx[g].start)
        <5>1. tx' = [tx EXCEPT ![g].base = subs[tx[g].sub].expires, ![g].pc = "commit"]
          BY <2>7, <4>1 DEF BonusLock
        <5>2. tx[g] # Idle
          BY <2>1, <3>1
        <5>3. tx' = Moved(g, tx[g].sub, subs[tx[g].sub].expires, "commit")
          BY <5>1, <5>2, KindTells DEF Moved, Transaction, TypeOK
        <5> QED
          BY <5>3
      <4>2. CASE tx[g].sub \notin ActiveRows(tx[g].user, tx[g].start)
        <5>1. tx' = Moved(g, tx[g].sub, tx[g].base, "find")
          BY <2>1, <2>7, <3>1, <4>2, KindTells
             DEF BonusLock, Goto, Moved, Transaction, TypeOK
        <5> QED
          BY <5>1
      <4> QED
        BY <4>1, <4>2
    <3> QED
      BY <3>1, <3>2, <1>4
  <2>8. CASE ClaimLock(g) /\ ~End(g)
    <3>1. tx[g].kind = "claim" /\ tx[g] \in Transaction
      BY <2>8, KindTells DEF ClaimLock, At
    <3>2. PICK s : tx' = [tx EXCEPT ![g].sub = s, ![g].pc = "commit",
                                    ![g].base = subs[s].expires]
      BY <2>8 DEF ClaimLock
    <3>3. tx' = Moved(g, s, subs[s].expires, "commit")
      BY <3>1, <3>2 DEF Moved, Transaction, TypeOK
    <3> QED
      BY <3>1, <3>3, <1>4
  <2>9. CASE End(g)
    BY <2>9, <1>3
  <2>10. CreateCommit(g) \/ TrialCommit(g) \/ BonusCommit(g) \/ ClaimCommit(g) => End(g)
    BY DEF CreateCommit, TrialCommit, BonusCommit, ClaimCommit
  <2>11. TrialLock(g) /\ tx[g].user \in trialUsed => End(g)
    BY DEF TrialLock
  <2>12. BonusFind(g) /\ ActiveRows(tx[g].user, tx[g].start) = {} => End(g)
    BY DEF BonusFind
  <2> QED
    BY <1>5, <2>2, <2>3, <2>4, <2>5, <2>6, <2>7, <2>8, <2>9, <2>10, <2>11, <2>12 DEF Advance
<1>6. CASE \E g \in Handlers, u \in Users :
             \/ \E d \in PlanDays : Begin(g, "create", u, d)
             \/ \E d \in TrialDays : Begin(g, "trial", u, d)
             \/ \E d \in BonusDays : Begin(g, "bonus", u, d)
             \/ ClaimChannelBonus(g, u)
  BY <1>2, <1>6 DEF ClaimChannelBonus
<1>7. CASE \E g \in Handlers : Rollback(g)
  BY <1>3, <1>7 DEF Rollback
<1>8. CASE \/ \E s \in DOMAIN subs :
                CancelSubscription(s) \/ \E d \in BonusDays : ExtendSubscription(s, d)
           \/ \E start \in {now, now - 1} \cap Nat : ExpireOverdueSubscriptions(start)
           \/ Tick \/ UNCHANGED vars
  BY <1>1, <1>8 DEF CancelSubscription, ExtendSubscription, ExpireOverdueSubscriptions,
     Tick, vars
<1> QED
  BY <1>5, <1>6, <1>7, <1>8 DEF Next

\* The next state of the tables, read off their tuple.
LEMMA Only ==
    ASSUME NEW t, vars' = <<ledger, t, calls>>
    PROVE  tx' = t /\ UNCHANGED <<ledger, calls>>
BY DEF vars

LEMMA Commits ==
    ASSUME NEW t, NEW p, NEW tried, NEW c, NEW e,
           vars' = <<<<t, p, tried, c, now>>, e, calls>>
    PROVE  /\ subs' = t /\ pending' = p /\ trialUsed' = tried /\ claimed' = c
           /\ now' = now /\ tx' = e /\ calls' = calls
BY DEF vars, ledger

\* CreateSubscription goes on if it does not wait.
LEMMA CreateGoes ==
    ASSUME IInv, NEW h \in Handlers, PcInv(h), tx[h].kind = "create", ~Waits(h),
           vars' = After(h)
    PROVE  Advance(h)
<1>t. TypeOK /\ TxRow(h)
  BY DEF IInv, TxInv
<1>0. tx[h] # Idle
  BY <1>t, KindTells
<1>1. CASE tx[h].pc = "open"
  <2> DEFINE s == TheLatest(RowsOf(tx[h].user))
  <2>1. Latest(RowsOf(tx[h].user), s) /\ s \in 0 .. Len(subs)
    BY <1>t, TheLatestFacts DEF RowsOf
  <2>2. vars' = <<ledger, Moved(h, s, tx[h].base, "lock"), calls>>
    BY <1>1 DEF After, At
  <2> HIDE DEF s
  <2>3. tx' = Moved(h, s, tx[h].base, "lock") /\ UNCHANGED <<ledger, calls>>
    BY <2>2, Only
  <2>4. tx' = [tx EXCEPT ![h].sub = s, ![h].pc = "lock"]
    BY <1>t, <1>0, <2>3, KindTells DEF Moved, Transaction, TypeOK
  <2> QED
    BY <1>1, <2>1, <2>3, <2>4 DEF Advance, CreateFind, At
<1>2. CASE tx[h].pc = "lock"
  <2> DEFINE s == tx[h].sub
             base == IF s # 0 /\ Live(s) THEN subs[s].expires ELSE tx[h].start
  <2>1. vars' = <<ledger, Moved(h, s, base, "commit"), calls>>
    BY <1>2 DEF After, At
  <2>2. tx' = [tx EXCEPT ![h].base = base, ![h].pc = "commit"] /\ UNCHANGED <<ledger, calls>>
    <3> HIDE DEF base
    <3>1. tx' = Moved(h, s, base, "commit") /\ UNCHANGED <<ledger, calls>>
      BY <2>1, Only
    <3> QED
      BY <1>t, <1>0, <3>1, KindTells DEF Moved, Transaction, TypeOK
  <2>3. CASE s = 0
    BY <1>2, <2>2, <2>3 DEF Advance, CreateInsert, Waits, At
  <2>4. CASE s # 0
    BY <1>2, <2>2, <2>4 DEF Advance, CreateLock, Waits, At, Live
  <2> QED
    BY <2>3, <2>4
<1>3. CASE tx[h].pc = "commit"
  <2>1. vars' = <<<<Written(h, "active"), [pending EXCEPT ![tx[h].user] = 0], trialUsed,
                    claimed, now>>, Ended(h), calls>>
    BY <1>3 DEF After, At
  <2>2. /\ subs' = Written(h, "active") /\ pending' = [pending EXCEPT ![tx[h].user] = 0]
        /\ tx' = Ended(h) /\ UNCHANGED <<trialUsed, claimed, now, calls>>
    BY <2>1, Commits
  <2>3. Write(h, "active") /\ End(h)
    BY <2>2 DEF Write, Written, End, Ended
  <2> QED
    BY <1>3, <2>2, <2>3 DEF Advance, CreateCommit, Waits, At
<1> QED
  BY <1>1, <1>2, <1>3 DEF PcInv

LEMMA TrialGoes ==
    ASSUME IInv, NEW h \in Handlers, PcInv(h), tx[h].kind = "trial", ~Waits(h),
           vars' = After(h)
    PROVE  Advance(h)
<1>t. TypeOK
  BY DEF IInv
<1>0. tx[h] # Idle
  BY <1>t, KindTells
<1>1. CASE tx[h].pc = "open"
  <2>1. vars' = <<ledger, IF tx[h].user \in trialUsed THEN Ended(h)
                          ELSE Moved(h, tx[h].sub, tx[h].start, "commit"), calls>>
    BY <1>1 DEF After, At
  <2>2. /\ tx' = IF tx[h].user \in trialUsed THEN Ended(h)
                 ELSE Moved(h, tx[h].sub, tx[h].start, "commit")
        /\ UNCHANGED <<ledger, calls>>
    BY <2>1, Only
  <2>3. IF tx[h].user \in trialUsed THEN End(h)
        ELSE tx' = [tx EXCEPT ![h].base = tx[h].start, ![h].pc = "commit"]
    BY <1>t, <1>0, <2>2, KindTells DEF Moved, Ended, End, Transaction, TypeOK
  <2> QED
    BY <1>1, <2>2, <2>3 DEF Advance, TrialLock, Waits, At
<1>2. CASE tx[h].pc = "commit"
  <2>1. vars' = <<<<Written(h, "trial"), [pending EXCEPT ![tx[h].user] = 0],
                    trialUsed \cup {tx[h].user}, claimed, now>>, Ended(h), calls>>
    BY <1>2 DEF After, At
  <2>2. /\ subs' = Written(h, "trial") /\ pending' = [pending EXCEPT ![tx[h].user] = 0]
        /\ trialUsed' = trialUsed \cup {tx[h].user}
        /\ tx' = Ended(h) /\ UNCHANGED <<claimed, now, calls>>
    BY <2>1, Commits
  <2>3. Write(h, "trial") /\ End(h)
    BY <2>2 DEF Write, Written, End, Ended
  <2> QED
    BY <1>2, <2>2, <2>3 DEF Advance, TrialCommit, At
<1> QED
  BY <1>1, <1>2 DEF PcInv

LEMMA BonusGoes ==
    ASSUME IInv, NEW h \in Handlers, tx[h].kind = "bonus", ~Waits(h), vars' = After(h)
    PROVE  Advance(h)
<1>t. TypeOK
  BY DEF IInv
<1>0. tx[h] # Idle /\ tx[h] \in Transaction
  BY <1>t, KindTells
<1> DEFINE u == tx[h].user
           s == tx[h].sub
           active == ActiveRows(u, tx[h].start)
<1>1. CASE tx[h].pc = "open"
  <2>1. vars' = <<ledger, Moved(h, s, tx[h].base, "find"), calls>>
    BY <1>1 DEF After, At
  <2>2. tx' = Moved(h, s, tx[h].base, "find") /\ UNCHANGED <<ledger, calls>>
    BY <2>1, Only
  <2>3. Goto(h, "find")
    BY <1>t, <1>0, <2>2 DEF Moved, Goto, Transaction, TypeOK
  <2> QED
    BY <1>1, <2>2, <2>3 DEF Advance, BonusLockUser, Waits, At
<1>2. CASE tx[h].pc = "find" /\ active = {}
  <2>1. vars' = <<<<subs, [pending EXCEPT ![u] = @ + tx[h].days], trialUsed, claimed, now>>,
                  Ended(h), calls>>
    BY <1>2 DEF After, At
  <2>2. /\ pending' = [pending EXCEPT ![u] = @ + tx[h].days] /\ tx' = Ended(h)
        /\ UNCHANGED <<subs, trialUsed, claimed, now, calls>>
    BY <2>1, Commits
  <2> QED
    BY <1>2, <2>2 DEF Advance, BonusFind, At, End, Ended
<1>3. CASE tx[h].pc = "find" /\ active # {}
  <2> DEFINE r == TheLatest(active)
  <2>1. active \in SUBSET DOMAIN subs
    BY DEF ActiveRows, RowsOf
  <2>2. r \in active /\ Latest(active, r)
    <3> HIDE DEF active
    <3> QED
      BY <1>t, <1>3, <2>1, TheLatestFacts
  <2>3. vars' = <<ledger, Moved(h, r, tx[h].base, "lock"), calls>>
    BY <1>3 DEF After, At
  <2> HIDE DEF r
  <2>4. tx' = Moved(h, r, tx[h].base, "lock") /\ UNCHANGED <<ledger, calls>>
    BY <2>3, Only
  <2>5. tx' = [tx EXCEPT ![h].sub = r, ![h].pc = "lock"]
    BY <1>t, <1>0, <2>4 DEF Moved, Transaction, TypeOK
  <2> QED
    BY <1>3, <2>2, <2>4, <2>5 DEF Advance, BonusFind, At, ledger
<1>4. CASE tx[h].pc = "lock"
  <2> DEFINE t == IF s \in active THEN Moved(h, s, subs[s].expires, "commit")
                  ELSE Moved(h, s, tx[h].base, "find")
  <2>1. vars' = <<ledger, t, calls>>
    BY <1>4 DEF After, At
  <2>2. tx' = t /\ UNCHANGED <<ledger, calls>>
    <3> HIDE DEF t
    <3> QED
      BY <2>1, Only
  <2>3. IF s \in active
        THEN tx' = [tx EXCEPT ![h].base = subs[s].expires, ![h].pc = "commit"]
        ELSE Goto(h, "find")
    <3> HIDE DEF active
    <3> QED
      BY <1>t, <1>0, <2>2 DEF Moved, Goto, Transaction, TypeOK
  <2> QED
    BY <1>4, <2>2, <2>3 DEF Advance, BonusLock, Waits, At
<1>5. CASE tx[h].pc = "commit"
  <2>1. vars' = <<<<[subs EXCEPT ![s].expires = tx[h].base + tx[h].days], pending, trialUsed,
                    claimed, now>>, Ended(h), calls>>
    BY <1>5 DEF After, At
  <2>2. /\ subs' = [subs EXCEPT ![s].expires = tx[h].base + tx[h].days] /\ tx' = Ended(h)
        /\ UNCHANGED <<pending, trialUsed, claimed, now, calls>>
    BY <2>1, Commits
  <2> QED
    BY <1>5, <2>2 DEF Advance, BonusCommit, At, End, Ended
<1> QED
  BY <1>0, <1>1, <1>2, <1>3, <1>4, <1>5 DEF Transaction

LEMMA ClaimGoes ==
    ASSUME IInv, NEW h \in Handlers, PcInv(h), tx[h].kind = "claim", ~Waits(h),
           vars' = After(h)
    PROVE  Advance(h)
<1>t. TypeOK
  BY DEF IInv
<1>0. tx[h] # Idle /\ tx[h] \in Transaction
  BY <1>t, KindTells
<1> DEFINE u == tx[h].user
           s == tx[h].sub
           active == ActiveRows(u, tx[h].start)
           none == u \notin SameId \/ u \in claimed \/ active = {}
           r == TheLatest(active)
<1>1. CASE tx[h].pc = "open"
  <2> DEFINE t == IF none THEN Ended(h) ELSE Moved(h, r, subs[r].expires, "commit")
  <2>1. vars' = <<ledger, t, calls>>
    BY <1>1 DEF After, At
  <2>2. tx' = t /\ UNCHANGED <<ledger, calls>>
    <3> HIDE DEF t
    <3> QED
      BY <2>1, Only
  <2>3. CASE none
    BY <1>1, <2>2, <2>3 DEF Advance, ClaimLock, Waits, At, End, Ended
  <2>4. CASE ~none
    <3>1. active \in SUBSET DOMAIN subs /\ active # {}
      BY <2>4 DEF ActiveRows, RowsOf
    <3>2. r \in active /\ Latest(active, r)
      <4> HIDE DEF active
      <4> QED
        BY <1>t, <3>1, TheLatestFacts
    <3>3. tx' = Moved(h, r, subs[r].expires, "commit")
      BY <2>2, <2>4
    <3> HIDE DEF r
    <3>4. tx' = [tx EXCEPT ![h].sub = r, ![h].pc = "commit", ![h].base = subs[r].expires]
      BY <1>t, <1>0, <3>3 DEF Moved, Transaction, TypeOK
    <3> QED
      BY <1>1, <2>2, <2>4, <3>2, <3>4 DEF Advance, ClaimLock, Waits, At
  <2> QED
    BY <2>3, <2>4
<1>2. CASE tx[h].pc = "commit"
  <2>1. vars' = <<<<[subs EXCEPT ![s].expires = tx[h].base + ChannelDays], pending, trialUsed,
                    claimed \cup {u}, now>>, Ended(h), calls>>
    BY <1>2 DEF After, At
  <2>2. /\ subs' = [subs EXCEPT ![s].expires = tx[h].base + ChannelDays]
        /\ claimed' = claimed \cup {u} /\ tx' = Ended(h)
        /\ UNCHANGED <<pending, trialUsed, now, calls>>
    BY <2>1, Commits
  <2> QED
    BY <1>2, <2>2 DEF Advance, ClaimCommit, Waits, At, End, Ended
<1> QED
  BY <1>1, <1>2 DEF PcInv

\* What OnlyLocks rests on, in every state a behaviour comes to.
GoInv == IInv /\ \A h \in Handlers : PcInv(h)

LEMMA GoInvariant == Spec => []GoInv
<1>1. Init => GoInv
  BY InvInit DEF Init, GoInv, PcInv, Idle
<1>2. GoInv /\ [Next]_vars => GoInv'
  BY InvStep, PcStep DEF GoInv, IInv
<1> QED
  BY <1>1, <1>2, PTL DEF Spec

\* A transaction in progress runs its next statement unless it waits for a lock
\* that another holds, whatever the tables have become since it began.  After(h)
\* has no primes: it names the state that the statement leads to, so there is one,
\* which is what ENABLED Advance(h) says.
THEOREM OnlyLocks ==
    ASSUME GoInv, NEW h \in Handlers, tx[h] # Idle
    PROVE  IF Waits(h) THEN ~Advance(h) ELSE vars' = After(h) => Advance(h)
<1>1. Waits(h) => ~Advance(h)
  BY NoStepWaits
<1>2. tx[h].kind \in {"create", "trial", "bonus", "claim"}
  BY KindTells DEF GoInv, IInv, Transaction
<1>3. ~Waits(h) /\ vars' = After(h) => Advance(h)
  BY <1>2, CreateGoes, TrialGoes, BonusGoes, ClaimGoes DEF GoInv
<1> QED
  BY <1>1, <1>3

-----------------------------------------------------------------------------
(* The days of a subscription that counts.                                  *)

\* Days that were added after a claim read the date, and before it wrote its own.
Overwritten(s) ==
    \E h \in Handlers : ClaimCommit(h) /\ tx[h].sub = s /\ tx[h].base < subs[s].expires

\* A subscription that counts keeps its days, and counts until it is cancelled or
\* a day passes.
Keeps(s) == /\ s \in DOMAIN subs' /\ subs'[s].user = subs[s].user
            /\ subs'[s].expires >= subs[s].expires
            /\ Live(s)' \/ CancelSubscription(s) \/ Tick

\* A row that is left alone keeps its days.
LEMMA KeepsRow ==
    ASSUME TypeOK, NEW s \in DOMAIN subs, Live(s), s \in DOMAIN subs', now' = now,
           subs'[s].user = subs[s].user, subs'[s].expires \in Nat,
           subs'[s].expires >= subs[s].expires,
           subs'[s].status = subs[s].status \/ subs'[s].status \in {"active", "trial"}
    PROVE  Keeps(s)
<1>1. now \in Nat /\ subs[s].expires \in Nat
  BY RowFacts DEF TypeOK
<1> QED
  BY <1>1 DEF Keeps, Live, Current

\* UPDATE ... SET expires_at of one row.
LEMMA KeepsProlonged ==
    ASSUME TypeOK, NEW s \in DOMAIN subs, Live(s), NEW t \in DOMAIN subs, NEW e \in Nat,
           subs' = [subs EXCEPT ![t].expires = e], now' = now,
           t = s => e >= subs[s].expires
    PROVE  Keeps(s)
<1>1. subs[t] \in Row /\ subs[s].expires \in Nat
  BY RowFacts
<1>2. /\ DOMAIN subs' = DOMAIN subs /\ subs'[s].user = subs[s].user
      /\ subs'[s].status = subs[s].status
      /\ subs'[s].expires = IF s = t THEN e ELSE subs[s].expires
  BY <1>1, RowFacts DEF Row
<1> QED
  BY <1>1, <1>2, KeepsRow

\* The COMMIT of a purchase or a trial.
LEMMA KeepsWritten ==
    ASSUME IInv, NEW h \in Handlers, tx[h] # Idle, tx[h].pc = "commit",
           tx[h].kind \in {"create", "trial"}, NEW kind \in {"active", "trial"},
           Write(h, kind), now' = now, NEW s \in DOMAIN subs, Live(s)
    PROVE  Keeps(s)
<1>t. TypeOK /\ TxInv(h)
  BY DEF IInv
<1>0. /\ subs' \in Seq(Row) /\ s \in DOMAIN subs'
      /\ subs'[s].user = subs[s].user /\ (s # tx[h].sub => subs'[s] = subs[s])
  BY WriteFacts
<1>1. /\ subs[s] \in Row /\ subs[s].expires \in Nat /\ subs'[s].expires \in Nat
      /\ s # 0
  BY <1>t, <1>0, RowFacts, TableFacts
<1>2. CASE s # tx[h].sub
  BY <1>t, <1>0, <1>1, <1>2, KeepsRow
<1>3. CASE s = tx[h].sub
  <2>1. tx[h].kind = "create" /\ tx[h].base = subs[s].expires
    BY <1>t, <1>1, <1>3 DEF TxInv, TrialInv, CreateInv
  <2>2. /\ tx[h].days \in Nat /\ pending[tx[h].user] \in Nat
    BY <1>t, KindTells DEF Transaction, TypeOK
  <2> DEFINE e == tx[h].base + tx[h].days + pending[tx[h].user]
  <2>3. subs' = [subs EXCEPT ![s].status = kind, ![s].expires = e]
    BY <1>1, <1>3 DEF Write
  <2>4. subs'[s].status = kind /\ subs'[s].expires = e
    BY <1>1, <2>3 DEF Row
  <2>5. subs'[s].expires >= subs[s].expires
    BY <1>1, <2>1, <2>2, <2>4
  <2> QED
    BY <1>t, <1>0, <1>1, <2>4, <2>5, KeepsRow
<1> QED
  BY <1>2, <1>3

\* A day of a subscription that counts is taken away by no interleaving of
\* purchases, trials, bonuses, extensions and the expire cron: such a row keeps
\* its date or gets a later one, and stops to count only when it is cancelled or
\* the day comes.  The channel bonus alone may put its date over an extension
\* that came after its read.
THEOREM DaysAreKept ==
    Spec => [][\A s \in DOMAIN subs : Live(s) => Keeps(s) \/ Overwritten(s)]_vars
<1>1. ASSUME IInv, [Next]_vars, NEW s \in DOMAIN subs, Live(s)
      PROVE  Keeps(s) \/ Overwritten(s)
  <2>t. TypeOK /\ \A h \in Handlers : TxInv(h)
    BY <1>1 DEF IInv
  <2>0. subs[s] \in Row /\ subs[s].expires \in Nat /\ subs[s].user \in Users /\ now \in Nat
    BY <2>t, RowFacts DEF TypeOK
  <2>1. ASSUME subs' = subs, now' = now PROVE Keeps(s)
    BY <1>1, <2>t, <2>0, <2>1, KeepsRow
  <2>2. ASSUME NEW h \in Handlers, Advance(h) PROVE Keeps(s) \/ Overwritten(s)
    <3>k. tx[h].kind \in {"create", "trial", "bonus", "claim"} => tx[h] # Idle /\ tx[h] \in Transaction
      BY <2>t, KindTells
    <3>1. CASE CreateCommit(h) \/ TrialCommit(h)
      <4>1. /\ tx[h] # Idle /\ tx[h].pc = "commit" /\ tx[h].kind \in {"create", "trial"}
            /\ now' = now
        BY <3>k, <3>1 DEF CreateCommit, TrialCommit, At
      <4>2. PICK kind \in {"active", "trial"} : Write(h, kind)
        BY <3>1 DEF CreateCommit, TrialCommit
      <4> QED
        BY <1>1, <4>1, <4>2, KeepsWritten
    <3>2. CASE BonusCommit(h)
      <4> DEFINE e == tx[h].base + tx[h].days
      <4>1. /\ tx[h] \in Transaction /\ tx[h] # Idle /\ tx[h].pc = "commit"
            /\ tx[h].kind = "bonus" /\ now' = now
        BY <3>k, <3>2 DEF BonusCommit, At
      <4>2. tx[h].sub \in DOMAIN subs /\ tx[h].base = subs[tx[h].sub].expires
        BY <2>t, <4>1 DEF TxInv, TxRow, BonusInv
      <4>3. e \in Nat /\ e >= tx[h].base
        BY <4>1 DEF Transaction
      <4>4. subs' = [subs EXCEPT ![tx[h].sub].expires = e]
        BY <3>2 DEF BonusCommit
      <4> HIDE DEF e
      <4> QED
        BY <1>1, <2>t, <4>1, <4>2, <4>3, <4>4, KeepsProlonged
    <3>3. CASE ClaimCommit(h)
      <4> DEFINE e == tx[h].base + ChannelDays
      <4>1. /\ tx[h] \in Transaction /\ tx[h] # Idle /\ tx[h].pc = "commit"
            /\ tx[h].kind = "claim" /\ now' = now
        BY <3>k, <3>3 DEF ClaimCommit, At
      <4>2. tx[h].sub \in DOMAIN subs /\ tx[h].base \in Nat
        BY <2>t, <4>1 DEF TxInv, TxRow, ClaimInv, Transaction
      <4>3. e \in Nat /\ e >= tx[h].base
        BY <4>2, DaysAssumption
      <4>4. subs' = [subs EXCEPT ![tx[h].sub].expires = e]
        BY <3>3 DEF ClaimCommit
      <4>5. CASE tx[h].sub = s /\ tx[h].base < subs[s].expires
        BY <3>3, <4>5 DEF Overwritten
      <4>6. CASE tx[h].sub # s \/ tx[h].base >= subs[s].expires
        <5>1. tx[h].sub = s => e >= subs[s].expires
          BY <2>0, <4>2, <4>3, <4>6
        <5> HIDE DEF e
        <5> QED
          BY <1>1, <2>t, <4>1, <4>2, <4>3, <4>4, <5>1, KeepsProlonged
      <4> QED
        BY <2>0, <4>2, <4>5, <4>6
    <3>4. CASE CreateFind(h) \/ CreateLock(h) \/ CreateInsert(h) \/ TrialLock(h)
               \/ BonusLockUser(h) \/ BonusFind(h) \/ BonusLock(h) \/ ClaimLock(h)
      BY <2>1, <3>4 DEF CreateFind, CreateLock, CreateInsert, TrialLock, BonusLockUser,
         BonusFind, BonusLock, ClaimLock, ledger
    <3> QED
      BY <2>2, <3>1, <3>2, <3>3, <3>4 DEF Advance
  <2>3. ASSUME NEW t \in DOMAIN subs, NEW d \in BonusDays, ExtendSubscription(t, d)
        PROVE  Keeps(s)
    <3> DEFINE e == subs[t].expires + d
    <3>1. subs[t].expires \in Nat /\ d \in Nat
      BY <2>t, RowFacts, DaysAssumption
    <3>2. e \in Nat /\ e >= subs[t].expires
      BY <3>1
    <3>3. subs' = [subs EXCEPT ![t].expires = e] /\ now' = now
      BY <2>3 DEF ExtendSubscription
    <3> HIDE DEF e
    <3> QED
      BY <1>1, <2>t, <3>2, <3>3, KeepsProlonged
  <2>4. ASSUME NEW t \in DOMAIN subs, CancelSubscription(t)
        PROVE  Keeps(s)
    <3>1. /\ DOMAIN subs' = DOMAIN subs /\ subs'[s].user = subs[s].user
          /\ subs'[s].expires = subs[s].expires /\ now' = now
          /\ s # t => subs'[s] = subs[s]
      BY <2>t, <2>0, <2>4, RowFacts DEF CancelSubscription, Row
    <3>2. CASE s = t
      BY <2>0, <2>4, <3>1, <3>2 DEF Keeps
    <3>3. CASE s # t
      BY <1>1, <2>t, <2>0, <3>1, <3>3, KeepsRow
    <3> QED
      BY <3>2, <3>3
  <2>5. ASSUME NEW start \in {now, now - 1} \cap Nat, ExpireOverdueSubscriptions(start)
        PROVE  Keeps(s)
    <3>1. ~(subs[s].expires < start)
      BY <1>1, <2>0 DEF Live
    <3>2. DOMAIN subs' = DOMAIN subs /\ subs'[s] = subs[s] /\ now' = now
      BY <2>5, <3>1 DEF ExpireOverdueSubscriptions
    <3> QED
      BY <1>1, <2>t, <2>0, <3>2, KeepsRow
  <2>6. CASE Tick
    BY <2>0, <2>6 DEF Keeps, Tick
  <2>7. CASE \/ \E h \in Handlers, u \in Users :
                  \/ \E d \in PlanDays : Begin(h, "create", u, d)
                  \/ \E d \in TrialDays : Begin(h, "trial", u, d)
                  \/ \E d \in BonusDays : Begin(h, "bonus", u, d)
                  \/ ClaimChannelBonus(h, u)
             \/ \E h \in Handlers : Rollback(h)
             \/ UNCHANGED vars
    BY <2>1, <2>7 DEF Begin, ClaimChannelBonus, Rollback, ledger, vars
  <2> QED
    BY <1>1, <2>2, <2>3, <2>4, <2>5, <2>6, <2>7 DEF Next
<1>2. IInv /\ [Next]_vars =>
        [\A s \in DOMAIN subs : Live(s) => Keeps(s) \/ Overwritten(s)]_vars
  BY <1>1
<1> QED
  BY <1>2, Invariant, PTL DEF Spec
=============================================================================
