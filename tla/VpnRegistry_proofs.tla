-------------------------- MODULE VpnRegistry_proofs --------------------------
(***************************************************************************)
(* Theorems about VpnRegistry, for any users, subscriptions, servers,      *)
(* UUIDs, processes and number of failures: what a list may hold, who may  *)
(* take an account away, and the facts about single steps that the         *)
(* liveness property RowsReachServers rests on.                            *)
(***************************************************************************)
EXTENDS VpnRegistry, FiniteSetTheorems, TLAPS

-----------------------------------------------------------------------------
(* What a call may be, and what one step of it leaves alone.                *)

\* The kind of a call tells which record it is.
LEMMA KindTells ==
    ASSUME NEW p \in {Idle} \cup Creating \cup Disabling \cup Resyncing
    PROVE  /\ p.kind = "idle" <=> p = Idle
           /\ p.kind = "create" <=> p \in Creating
           /\ p.kind = "disable" <=> p \in Disabling
           /\ p.kind = "resync" <=> p \in Resyncing
BY DEF Idle, Creating, Disabling, Resyncing

\* A call that has done one piece of its work keeps its kind and its subject.
LEMMA WorkFacts ==
    ASSUME TypeOK, NEW q \in Procs, NEW x, proc[q] # Idle,
           proc' = [proc EXCEPT ![q].todo = @ \ {x}]
    PROVE  /\ proc' \in [Procs -> {Idle} \cup Creating \cup Disabling \cup Resyncing]
           /\ proc'[q].kind = proc[q].kind
           /\ proc'[q].todo = proc[q].todo \ {x}
           /\ proc[q].kind = "create" => proc'[q].row = proc[q].row
           /\ proc[q].kind = "disable" => proc'[q].user = proc[q].user
           /\ \A p \in Procs \ {q} : proc'[p] = proc[p]
<1> DEFINE next == [proc[q] EXCEPT !.todo = @ \ {x}]
<1>1. CASE proc[q] \in Creating
  <2>1. next \in Creating /\ next.row = proc[q].row /\ next.kind = proc[q].kind
        /\ next.todo = proc[q].todo \ {x}
    BY <1>1 DEF Creating
  <2>2. proc' = [proc EXCEPT ![q] = next]
    BY <1>1 DEF Creating, TypeOK
  <2> HIDE DEF next
  <2> QED
    BY <1>1, <2>1, <2>2 DEF TypeOK, Creating
<1>2. CASE proc[q] \in Disabling
  <2>1. next \in Disabling /\ next.user = proc[q].user /\ next.kind = proc[q].kind
        /\ next.todo = proc[q].todo \ {x}
    BY <1>2 DEF Disabling
  <2>2. proc' = [proc EXCEPT ![q] = next]
    BY <1>2 DEF Disabling, TypeOK
  <2> HIDE DEF next
  <2> QED
    BY <1>2, <2>1, <2>2 DEF TypeOK, Disabling
<1>3. CASE proc[q] \in Resyncing
  <2>1. next \in Resyncing /\ next.kind = proc[q].kind /\ next.todo = proc[q].todo \ {x}
    BY <1>3 DEF Resyncing
  <2>2. proc' = [proc EXCEPT ![q] = next]
    BY <1>3 DEF Resyncing, TypeOK
  <2> HIDE DEF next
  <2> QED
    BY <1>3, <2>1, <2>2 DEF TypeOK, Resyncing
<1> QED
  BY <1>1, <1>2, <1>3 DEF TypeOK

\* A call that returns becomes idle and disturbs no other.
LEMMA ReturnFacts ==
    ASSUME TypeOK, NEW q \in Procs, Return(q)
    PROVE  /\ proc' \in [Procs -> {Idle} \cup Creating \cup Disabling \cup Resyncing]
           /\ proc'[q] = Idle
           /\ \A p \in Procs \ {q} : proc'[p] = proc[p]
BY DEF TypeOK, Return

\* A call starts where none was.
LEMMA StartFacts ==
    ASSUME TypeOK, NEW q \in Procs, NEW c \in Creating \cup Disabling \cup Resyncing,
           Start(q, c)
    PROVE  /\ proc' \in [Procs -> {Idle} \cup Creating \cup Disabling \cup Resyncing]
           /\ proc[q] = Idle /\ proc'[q] = c
           /\ \A p \in Procs \ {q} : proc'[p] = proc[p]
BY DEF TypeOK, Start

\* What Xray's AddUser does to the list of a server.
LEMMA AddUserFacts ==
    ASSUME TypeOK, NEW s \in Servers, NEW row \in Row, AddUser(s, row)
    PROVE  /\ registry' \in [Servers -> [Users -> Uuids \cup {None}]]
           /\ missed \subseteq missed' /\ missed' \subseteq Users
           /\ DisabledNow(row.user) => row.user \in missed'
           /\ \A t \in Servers, u \in Users :
                 \/ registry'[t][u] = registry[t][u]
                 \/ t = s /\ u = row.user /\ registry'[t][u] = row.uuid
BY DEF TypeOK, AddUser, Row

-----------------------------------------------------------------------------
(* Types, and with them the keys of vpn_users.                              *)

\* Every UUID in the table has been drawn, so that a fresh one is new there.
Drawn == \A r \in rows : r.uuid \in drawn

\* What a call pushes is a row of the right shape.
LEMMA CallTypes ==
    ASSUME TypeOK, NEW q \in Procs
    PROVE  /\ proc[q].kind = "create" => proc[q].row \in Row
           /\ proc[q].kind = "disable" => proc[q].user \in Users
           /\ proc[q].kind = "resync" => proc[q].server \in Servers /\ proc[q].todo \subseteq Row
BY KindTells DEF TypeOK, Creating, Disabling, Resyncing

LEMMA TypeInit == Init => TypeOK /\ Drawn
BY DEF Init, TypeOK, Drawn

LEMMA TypeStep ==
    ASSUME TypeOK, Drawn, [Next]_vars
    PROVE  TypeOK' /\ Drawn'
<1> USE DEF Procs
<1>1. ASSUME NEW h \in Handlers, NEW u \in Users, DisableVPNUser(h, u)
      PROVE  TypeOK' /\ Drawn'
  <2> DEFINE c == [kind |-> "disable", user |-> u, todo |-> active]
  <2>1. c \in Disabling
    BY DEF Disabling, TypeOK
  <2> HIDE DEF c
  <2>2. Start(h, c)
    BY <1>1 DEF DisableVPNUser, c
  <2> QED
    BY <1>1, <2>1, <2>2, StartFacts DEF DisableVPNUser, TypeOK, Drawn
<1>2. ASSUME NEW h \in Handlers, NEW u \in Users, NEW sub \in SubsOf[u],
             CreateVPNUser(h, u, sub)
      PROVE  TypeOK' /\ Drawn'
  <2>1. ASSUME NEW row \in Row, Start(h, [kind |-> "create", row |-> row, todo |-> active])
        PROVE  proc' \in [Procs -> {Idle} \cup Creating \cup Disabling \cup Resyncing]
    <3> DEFINE c == [kind |-> "create", row |-> row, todo |-> active]
    <3>1. c \in Creating
      BY DEF Creating, TypeOK
    <3> HIDE DEF c
    <3>2. Start(h, c)
      BY <2>1 DEF c
    <3> QED
      BY <3>1, <3>2, StartFacts
  <2>2. CASE \E row \in RowsOf(u) :
               /\ Start(h, [kind |-> "create", row |-> row, todo |-> active])
               /\ UNCHANGED <<rows, drawn>>
    BY <1>2, <2>1, <2>2 DEF CreateVPNUser, RowsOf, TypeOK, Drawn
  <2>3. CASE /\ \A row \in RowsOf(u) : row.sub # sub
             /\ \E x \in Uuids \ drawn :
                  LET row == [user |-> u, sub |-> sub, uuid |-> x]
                  IN  /\ Start(h, [kind |-> "create", row |-> row, todo |-> active])
                      /\ rows' = rows \cup {row}
                      /\ drawn' = drawn \cup {x}
    <3>1. PICK x \in Uuids \ drawn :
             LET row == [user |-> u, sub |-> sub, uuid |-> x]
             IN  /\ Start(h, [kind |-> "create", row |-> row, todo |-> active])
                 /\ rows' = rows \cup {row}
                 /\ drawn' = drawn \cup {x}
      BY <2>3
    <3> DEFINE row == [user |-> u, sub |-> sub, uuid |-> x]
    <3>2. row \in Row /\ row.user = u /\ row.sub = sub /\ row.uuid = x
      BY DEF Row
    <3> HIDE DEF row
    <3>3. /\ rows' = rows \cup {row} /\ drawn' = drawn \cup {x}
          /\ proc' \in [Procs -> {Idle} \cup Creating \cup Disabling \cup Resyncing]
      BY <2>1, <3>1, <3>2 DEF row
    <3>4. \A r \in rows : r.uuid # x /\ <<r.user, r.sub>> # <<u, sub>>
      BY <2>3 DEF Drawn, RowsOf
    <3>5. \A r1, r2 \in rows' :
             \/ r1 = r2
             \/ r1.uuid # r2.uuid /\ <<r1.user, r1.sub>> # <<r2.user, r2.sub>>
      BY <3>2, <3>3, <3>4 DEF TypeOK
    <3> QED
      BY <1>2, <3>2, <3>3, <3>5 DEF CreateVPNUser, TypeOK, Drawn
  <2> QED
    BY <1>2, <2>2, <2>3 DEF CreateVPNUser
<1>3. ASSUME NEW q \in Procs, NEW s \in Servers, ResyncServer(q, s)
      PROVE  proc' \in [Procs -> {Idle} \cup Creating \cup Disabling \cup Resyncing]
  <2> DEFINE c == [kind |-> "resync", server |-> s, todo |-> rows]
  <2>1. c \in Resyncing
    BY DEF Resyncing, TypeOK
  <2> HIDE DEF c
  <2>2. Start(q, c)
    BY <1>3 DEF ResyncServer, c
  <2> QED
    BY <2>1, <2>2, StartFacts
<1>4. ASSUME NEW h \in Handlers, NEW s \in Servers, ResyncRPC(h, s)
      PROVE  TypeOK' /\ Drawn'
  BY <1>3, <1>4 DEF ResyncRPC, TypeOK, Drawn
<1>5. ASSUME NEW c \in Cron, NEW s \in Servers, CheckHealth(c, s) \/ PeriodicResync(c, s)
      PROVE  TypeOK' /\ Drawn'
  BY <1>3, <1>5 DEF CheckHealth, PeriodicResync, TypeOK, Drawn
<1>6. ASSUME NEW g \in Startup, NEW s \in Servers, StartupResync(g, s)
      PROVE  TypeOK' /\ Drawn'
  BY <1>3, <1>6 DEF StartupResync, TypeOK, Drawn
<1>7. ASSUME NEW q \in Procs, NEW s \in Servers, CreateAddUser(q, s)
      PROVE  TypeOK' /\ Drawn'
  <2>1. proc[q].row \in Row /\ proc[q] # Idle
    BY <1>7, CallTypes DEF CreateAddUser, Idle
  <2> QED
    BY <1>7, <2>1, AddUserFacts, WorkFacts DEF CreateAddUser, TypeOK, Drawn
<1>8. ASSUME NEW q \in Procs, NEW s \in Servers, RemoveUser(q, s)
      PROVE  TypeOK' /\ Drawn'
  <2>1. proc[q].user \in Users /\ proc[q] # Idle
    BY <1>8, CallTypes DEF RemoveUser, Idle
  <2>2. registry' \in [Servers -> [Users -> Uuids \cup {None}]]
    BY <1>8, <2>1 DEF RemoveUser, TypeOK
  <2> QED
    BY <1>8, <2>1, <2>2, WorkFacts DEF RemoveUser, TypeOK, Drawn
<1>9. ASSUME NEW q \in Procs, CreateReturns(q) \/ ResyncReturns(q)
      PROVE  TypeOK' /\ Drawn'
  BY <1>9, ReturnFacts DEF CreateReturns, ResyncReturns, TypeOK, Drawn
<1>10. ASSUME NEW q \in Procs, DeleteVPNUser(q)
       PROVE  TypeOK' /\ Drawn'
  <2>1. proc[q].user \in Users
    BY <1>10, CallTypes DEF DeleteVPNUser
  <2> QED
    BY <1>10, <2>1, ReturnFacts DEF DeleteVPNUser, TypeOK, Drawn
<1>11. ASSUME NEW q \in Procs, NEW row \in Row, ResyncAddUser(q, row)
       PROVE  TypeOK' /\ Drawn'
  <2>1. proc[q].server \in Servers /\ proc[q] # Idle
    BY <1>11, CallTypes DEF ResyncAddUser, Idle
  <2> QED
    BY <1>11, <2>1, AddUserFacts, WorkFacts DEF ResyncAddUser, TypeOK, Drawn
<1>12. ASSUME NEW s \in Servers,
             \/ ServerLost(s) \/ ServerBack(s) \/ XrayRestarts(s)
             \/ SwitchOff(s) \/ SwitchOn(s)
       PROVE  TypeOK' /\ Drawn'
  <2>1. registry' \in [Servers -> [Users -> Uuids \cup {None}]]
    BY <1>12 DEF ServerLost, ServerBack, XrayRestarts, SwitchOff, SwitchOn, TypeOK
  <2> QED
    BY <1>12, <2>1
       DEF ServerLost, ServerBack, XrayRestarts, SwitchOff, SwitchOn, TypeOK, Drawn, Fault
<1>13. ASSUME NEW q \in Handlers \cup Startup, DeadlinePasses(q)
       PROVE  TypeOK' /\ Drawn'
  BY <1>13, ReturnFacts DEF DeadlinePasses, TypeOK, Drawn, Fault
<1>14. CASE ServiceRestarts
  BY <1>14 DEF ServiceRestarts, TypeOK, Drawn, Fault
<1>15. CASE UNCHANGED vars
  BY <1>15 DEF vars, TypeOK, Drawn
<1> QED
  BY <1>1, <1>2, <1>4, <1>5, <1>6, <1>7, <1>8, <1>9, <1>10, <1>11, <1>12, <1>13,
     <1>14, <1>15 DEF Next, Advance

\* The variables keep their types: a subscription has one row and a UUID belongs
\* to one row, whatever CreateVPNUser calls race for it.
THEOREM TypeCorrect == Spec => []TypeOK
<1>1. TypeOK /\ Drawn /\ [Next]_vars => TypeOK' /\ Drawn'
  BY TypeStep
<1> QED
  BY <1>1, TypeInit, PTL DEF Spec

-----------------------------------------------------------------------------
(* Accounts without a row.                                                  *)
(*                                                                         *)
(* NoForeignAccount alone is not inductive: a call pushes a copy of a row, *)
(* and a DELETE relies on what the calls of RemoveUser before it have      *)
(* done.                                                                   *)

\* A row that a call is still to push is there, unless the user is missed.
PushesRows ==
    \A q \in Procs :
        /\ proc[q].kind = "create" => proc[q].row \in rows \/ proc[q].row.user \in missed
        /\ proc[q].kind = "resync" => \A r \in proc[q].todo : r \in rows \/ r.user \in missed

\* From servers that a DisableVPNUser is done with the account is gone, and
\* nobody has put it back, unless the user is missed.
RemovalsHold ==
    \A q \in Procs :
        proc[q].kind = "disable" /\ proc[q].user \notin missed =>
            \A s \in Servers \ proc[q].todo : registry[s][proc[q].user] = None

\* How the rest of a step follows from what it does to the calls: the lists
\* lose accounts only, and no row goes.
LEMMA Quiet ==
    ASSUME TypeOK, TypeOK', PushesRows, RemovalsHold, NoForeignAccount,
           rows \subseteq rows', missed \subseteq missed',
           \A s \in Servers, u \in Users : registry'[s][u] \in {registry[s][u], None},
           \A q \in Procs :
              \/ proc'[q] = proc[q]
              \/ proc'[q] = Idle
              \/ proc'[q].kind = "create" /\ proc'[q].row \in rows'
              \/ proc'[q].kind = "resync" /\ proc'[q].todo \subseteq rows'
              \/ /\ proc'[q].kind = "disable" /\ proc'[q].user \in Users
                 /\ \/ proc'[q].user \in missed'
                    \/ \A s \in Servers \ proc'[q].todo : registry[s][proc'[q].user] = None
    PROVE  PushesRows' /\ RemovalsHold' /\ NoForeignAccount'
<1>1. PushesRows'
  BY DEF PushesRows, Idle
<1>2. RemovalsHold'
  <2> SUFFICES ASSUME NEW q \in Procs, proc'[q].kind = "disable", proc'[q].user \notin missed',
                      NEW s \in Servers \ proc'[q].todo
               PROVE  registry'[s][proc'[q].user] = None
    BY DEF RemovalsHold
  <2>1. CASE proc'[q] = proc[q]
    <3>1. proc[q].user \in Users
      BY <2>1, CallTypes
    <3> QED
      BY <2>1, <3>1 DEF RemovalsHold
  <2>2. CASE proc'[q] # proc[q]
    <3>1. proc'[q].user \in Users /\ registry[s][proc'[q].user] = None
      BY <2>2 DEF Idle
    <3> QED
      BY <3>1
  <2> QED
    BY <2>1, <2>2
<1>3. NoForeignAccount'
  BY DEF NoForeignAccount, RowsOf, Accepts
<1> QED
  BY <1>1, <1>2, <1>3

\* Pushing a row keeps to the table: either the row is there, or the user is
\* missed.
LEMMA Push ==
    ASSUME TypeOK, TypeOK', PushesRows, RemovalsHold, NoForeignAccount,
           NEW q \in Procs, NEW s \in Servers, NEW row \in Row, NEW x,
           AddUser(s, row), row \in rows \/ row.user \in missed,
           proc[q].kind \in {"create", "resync"},
           proc' = [proc EXCEPT ![q].todo = @ \ {x}], UNCHANGED rows
    PROVE  PushesRows' /\ RemovalsHold' /\ NoForeignAccount'
<1>1. proc[q] # Idle
  BY DEF Idle
<1>2. PushesRows'
  BY <1>1, WorkFacts, AddUserFacts DEF PushesRows
<1>3. RemovalsHold'
  <2> SUFFICES ASSUME NEW p \in Procs, proc'[p].kind = "disable", proc'[p].user \notin missed',
                      NEW t \in Servers \ proc'[p].todo
               PROVE  registry'[t][proc'[p].user] = None
    BY DEF RemovalsHold
  <2>1. proc'[p] = proc[p]
    BY <1>1, WorkFacts
  <2>2. proc[p].user \in Users /\ proc[p].user # row.user
    BY <2>1, CallTypes, AddUserFacts DEF DisabledNow
  <2> QED
    BY <2>1, <2>2, AddUserFacts DEF RemovalsHold
<1>4. NoForeignAccount'
  <2> SUFFICES ASSUME NEW t \in Servers, NEW u \in Users,
                      u \notin missed', registry'[t][u] # None
               PROVE  \E r \in rows : r.user = u /\ registry'[t][u] = r.uuid
    BY DEF NoForeignAccount, RowsOf, Accepts
  <2>1. CASE registry'[t][u] = registry[t][u]
    BY <2>1, AddUserFacts DEF NoForeignAccount, RowsOf, Accepts
  <2>2. CASE u = row.user /\ registry'[t][u] = row.uuid
    BY <2>2, AddUserFacts
  <2> QED
    BY <2>1, <2>2, AddUserFacts
<1> QED
  BY <1>2, <1>3, <1>4

LEMMA AccountStep ==
    ASSUME TypeOK, TypeOK', PushesRows, RemovalsHold, NoForeignAccount, [Next]_vars
    PROVE  PushesRows' /\ RemovalsHold' /\ NoForeignAccount'
<1> USE DEF Procs
<1>1. ASSUME NEW h \in Handlers, NEW u \in Users, DisableVPNUser(h, u)
      PROVE  PushesRows' /\ RemovalsHold' /\ NoForeignAccount'
  <2>1. /\ missed \subseteq missed'
        /\ u \in missed' \/ \A s \in Servers \ active : registry[s][u] = None
    BY <1>1 DEF DisableVPNUser
  <2>2. \A q \in Procs :
           \/ proc'[q] = proc[q]
           \/ proc'[q].kind = "disable" /\ proc'[q].user = u /\ proc'[q].todo = active
    BY <1>1 DEF DisableVPNUser, Start, TypeOK
  <2>3. \A q \in Procs :
           \/ proc'[q] = proc[q]
           \/ /\ proc'[q].kind = "disable" /\ proc'[q].user \in Users
              /\ \/ proc'[q].user \in missed'
                 \/ \A s \in Servers \ proc'[q].todo : registry[s][proc'[q].user] = None
    BY <2>1, <2>2
  <2> QED
    BY <1>1, <2>1, <2>3, Quiet DEF DisableVPNUser
<1>2. ASSUME NEW h \in Handlers, NEW u \in Users, NEW sub \in SubsOf[u],
             CreateVPNUser(h, u, sub)
      PROVE  PushesRows' /\ RemovalsHold' /\ NoForeignAccount'
  <2>1. /\ rows \subseteq rows'
        /\ \E row \in rows' :
              Start(h, [kind |-> "create", row |-> row, todo |-> active])
    BY <1>2 DEF CreateVPNUser, RowsOf
  <2>2. \A q \in Procs : \/ proc'[q] = proc[q]
                         \/ proc'[q].kind = "create" /\ proc'[q].row \in rows'
    BY <2>1 DEF Start, TypeOK
  <2> QED
    BY <1>2, <2>1, <2>2, Quiet DEF CreateVPNUser
<1>3. ASSUME NEW q \in Procs, NEW s \in Servers,
             ResyncServer(q, s) \/ UNCHANGED proc, UNCHANGED <<rows, registry, missed>>
      PROVE  PushesRows' /\ RemovalsHold' /\ NoForeignAccount'
  <2>1. \A p \in Procs : \/ proc'[p] = proc[p]
                         \/ proc'[p].kind = "resync" /\ proc'[p].todo \subseteq rows'
    BY <1>3 DEF ResyncServer, Start, TypeOK
  <2> QED
    BY <1>3, <2>1, Quiet
<1>4. ASSUME NEW h \in Handlers, NEW s \in Servers, ResyncRPC(h, s)
      PROVE  PushesRows' /\ RemovalsHold' /\ NoForeignAccount'
  BY <1>3, <1>4 DEF ResyncRPC
<1>5. ASSUME NEW c \in Cron, NEW s \in Servers, CheckHealth(c, s) \/ PeriodicResync(c, s)
      PROVE  PushesRows' /\ RemovalsHold' /\ NoForeignAccount'
  BY <1>3, <1>5 DEF CheckHealth, PeriodicResync
<1>6. ASSUME NEW g \in Startup, NEW s \in Servers, StartupResync(g, s)
      PROVE  PushesRows' /\ RemovalsHold' /\ NoForeignAccount'
  BY <1>3, <1>6 DEF StartupResync
<1>7. ASSUME NEW q \in Procs, NEW s \in Servers, CreateAddUser(q, s)
      PROVE  PushesRows' /\ RemovalsHold' /\ NoForeignAccount'
  <2>1. proc[q].row \in Row /\ (proc[q].row \in rows \/ proc[q].row.user \in missed)
    BY <1>7, CallTypes DEF CreateAddUser, PushesRows
  <2> QED
    BY <1>7, <2>1, Push DEF CreateAddUser
<1>8. ASSUME NEW q \in Procs, NEW s \in Servers, RemoveUser(q, s)
      PROVE  PushesRows' /\ RemovalsHold' /\ NoForeignAccount'
  <2> DEFINE u == proc[q].user
  <2>1. u \in Users /\ proc[q] # Idle /\ proc[q].kind = "disable"
    BY <1>8, CallTypes DEF RemoveUser, Idle
  <2>2. /\ proc'[q].kind = "disable" /\ proc'[q].user = u
        /\ proc'[q].todo = proc[q].todo \ {s}
        /\ \A p \in Procs \ {q} : proc'[p] = proc[p]
    BY <1>8, <2>1, WorkFacts DEF RemoveUser
  <2>3. /\ rows' = rows /\ missed \subseteq missed'
        /\ \A t \in Servers, v \in Users :
              registry'[t][v] = registry[t][v] \/ registry'[t][v] = None
        /\ u \notin missed' => registry'[s][u] = None
    BY <1>8, <2>1 DEF RemoveUser, TypeOK
  <2>4. PushesRows'
    BY <2>2, <2>3 DEF PushesRows
  <2>5. RemovalsHold'
    <3> SUFFICES ASSUME NEW p \in Procs, proc'[p].kind = "disable",
                        proc'[p].user \notin missed', NEW t \in Servers \ proc'[p].todo
                 PROVE  registry'[t][proc'[p].user] = None
      BY DEF RemovalsHold
    <3>1. proc[p].kind = "disable" /\ proc'[p].user = proc[p].user /\ proc[p].user \in Users
      BY <2>1, <2>2, CallTypes
    <3>2. CASE p = q /\ t = s
      BY <2>2, <2>3, <3>2
    <3>3. CASE p # q \/ t # s
      BY <2>2, <2>3, <3>1, <3>3 DEF RemovalsHold
    <3> QED
      BY <3>2, <3>3
  <2>6. NoForeignAccount'
    BY <2>3 DEF NoForeignAccount, RowsOf, Accepts
  <2> QED
    BY <2>4, <2>5, <2>6
<1>9. ASSUME NEW q \in Procs, Return(q), UNCHANGED <<rows, registry, missed>>
      PROVE  PushesRows' /\ RemovalsHold' /\ NoForeignAccount'
  BY <1>9, ReturnFacts, Quiet
<1>10. ASSUME NEW q \in Procs, DeleteVPNUser(q)
       PROVE  PushesRows' /\ RemovalsHold' /\ NoForeignAccount'
  <2> DEFINE u == proc[q].user
  <2>1. u \in Users /\ proc[q].kind = "disable" /\ proc[q].todo = {}
    BY <1>10, CallTypes DEF DeleteVPNUser
  <2>2. /\ rows' = {r \in rows : r.user # u} /\ registry' = registry
        /\ missed \subseteq missed' /\ (Pushing(u) => u \in missed')
        /\ \A p \in Procs : proc'[p] = proc[p] \/ proc'[p] = Idle
    BY <1>10, ReturnFacts DEF DeleteVPNUser, RowsOf
  <2>3. PushesRows'
    <3> SUFFICES ASSUME NEW p \in Procs
                 PROVE  /\ proc'[p].kind = "create" =>
                             proc'[p].row \in rows' \/ proc'[p].row.user \in missed'
                        /\ proc'[p].kind = "resync" =>
                             \A r \in proc'[p].todo : r \in rows' \/ r.user \in missed'
      BY DEF PushesRows
    <3>1. CASE proc'[p] = Idle
      BY <3>1 DEF Idle
    <3>2. CASE proc'[p] = proc[p] /\ proc[p].kind = "create"
      BY <2>2, <3>2 DEF PushesRows, Pushing
    <3>3. CASE proc'[p] = proc[p] /\ proc[p].kind = "resync"
      BY <2>2, <3>3 DEF PushesRows, Pushing
    <3> QED
      BY <2>2, <3>1, <3>2, <3>3
  <2>4. RemovalsHold'
    BY <2>2 DEF RemovalsHold, Idle
  <2>5. NoForeignAccount'
    <3> SUFFICES ASSUME NEW t \in Servers, NEW v \in Users,
                        v \notin missed', registry[t][v] # None
                 PROVE  \E r \in rows' : r.user = v /\ registry[t][v] = r.uuid
      BY <2>2 DEF NoForeignAccount, RowsOf, Accepts
    <3>1. v # u
      BY <2>1, <2>2 DEF RemovalsHold
    <3> QED
      BY <2>2, <3>1 DEF NoForeignAccount, RowsOf, Accepts
  <2> QED
    BY <2>3, <2>4, <2>5
<1>11. ASSUME NEW q \in Procs, NEW row \in Row, ResyncAddUser(q, row)
       PROVE  PushesRows' /\ RemovalsHold' /\ NoForeignAccount'
  <2>1. proc[q].server \in Servers /\ (row \in rows \/ row.user \in missed)
    BY <1>11, CallTypes DEF ResyncAddUser, PushesRows
  <2> QED
    BY <1>11, <2>1, Push DEF ResyncAddUser
<1>12. ASSUME NEW s \in Servers,
             \/ ServerLost(s) \/ ServerBack(s) \/ XrayRestarts(s)
             \/ SwitchOff(s) \/ SwitchOn(s)
       PROVE  PushesRows' /\ RemovalsHold' /\ NoForeignAccount'
  <2>1. \A t \in Servers, u \in Users : registry'[t][u] \in {registry[t][u], None}
    BY <1>12 DEF ServerLost, ServerBack, XrayRestarts, SwitchOff, SwitchOn, TypeOK
  <2> QED
    BY <1>12, <2>1, Quiet DEF ServerLost, ServerBack, XrayRestarts, SwitchOff, SwitchOn
<1>13. ASSUME NEW q \in Handlers \cup Startup, DeadlinePasses(q)
       PROVE  PushesRows' /\ RemovalsHold' /\ NoForeignAccount'
  BY <1>9, <1>13 DEF DeadlinePasses
<1>14. CASE ServiceRestarts
  BY <1>14, Quiet DEF ServiceRestarts
<1>15. CASE UNCHANGED vars
  BY <1>15, Quiet DEF vars
<1> QED
  BY <1>1, <1>2, <1>4, <1>5, <1>6, <1>7, <1>8, <1>9, <1>10, <1>11, <1>12, <1>13,
     <1>14, <1>15 DEF Next, Advance, CreateReturns, ResyncReturns

\* A server accepts an account without a row only for users whose DisableVPNUser
\* missed a server, one switched off among them, or overlapped with an AddUser;
\* every other account has the UUID of a row, whatever resyncs, restarts and
\* crashes do to the lists.
THEOREM AccountsHaveRows == Spec => []NoForeignAccount
<1> DEFINE IInv == TypeOK /\ Drawn /\ PushesRows /\ RemovalsHold /\ NoForeignAccount
<1>1. Init => IInv
  <2> SUFFICES ASSUME Init PROVE PushesRows /\ RemovalsHold /\ NoForeignAccount
    BY TypeInit
  <2> QED
    BY DEF Init, Idle, PushesRows, RemovalsHold, NoForeignAccount
<1>2. IInv /\ [Next]_vars => IInv'
  BY TypeStep, AccountStep
<1> QED
  BY <1>1, <1>2, PTL DEF Spec

-----------------------------------------------------------------------------
(* Calls come to their end, and what a resync promises.                     *)
(*                                                                         *)
(* RowsReachServers rests on three facts about single steps, which these   *)
(* theorems state: a call only ever has less to do, a resync does not pass *)
(* over anyone, and nobody's account is taken away but by those named.     *)

\* A call is cut off by a failure.
CutOff(q) == proc'[q] = Idle /\ faults' = faults + 1

\* A call starts; a resync starts with all rows there are.
Begins(q) ==
    /\ proc[q] = Idle
    /\ proc'[q].kind = "resync" => /\ proc'[q].todo = rows
                                   /\ UNCHANGED <<rows, registry>>

\* A call has done one server or one row of its loop.
Works(q) ==
    \/ \E s \in Servers : CreateAddUser(q, s) \/ RemoveUser(q, s)
    \/ \E row \in Row : ResyncAddUser(q, row)

\* A call has nothing left to do and returns; a DisableVPNUser deletes the rows.
Ends(q) == /\ proc[q].todo = {} /\ proc'[q] = Idle /\ UNCHANGED registry
           /\ proc[q].kind = "disable" => rows' = rows \ RowsOf(proc[q].user)

\* What a step may be for one call.
LEMMA CallStep ==
    ASSUME TypeOK, [Next]_vars, NEW q \in Procs
    PROVE  proc'[q] = proc[q] \/ Begins(q) \/ Works(q) \/ Ends(q) \/ CutOff(q)
<1> USE DEF Procs
<1>1. ASSUME NEW p \in Procs, NEW s \in Servers, ResyncServer(p, s),
             UNCHANGED <<rows, registry>>
      PROVE  proc'[q] = proc[q] \/ Begins(q)
  BY <1>1 DEF ResyncServer, Start, Begins, TypeOK
<1>2. ASSUME NEW h \in Handlers, NEW u \in Users,
             \/ DisableVPNUser(h, u)
             \/ \E sub \in SubsOf[u] : CreateVPNUser(h, u, sub)
      PROVE  proc'[q] = proc[q] \/ Begins(q)
  BY <1>2 DEF DisableVPNUser, CreateVPNUser, Start, Begins, TypeOK
<1>3. ASSUME NEW p \in Procs, NEW s \in Servers,
             \/ p \in Handlers /\ ResyncRPC(p, s)
             \/ p \in Cron /\ (CheckHealth(p, s) \/ PeriodicResync(p, s))
             \/ p \in Startup /\ StartupResync(p, s)
      PROVE  proc'[q] = proc[q] \/ Begins(q)
  BY <1>1, <1>3 DEF ResyncRPC, CheckHealth, PeriodicResync, StartupResync
<1>4. ASSUME NEW p \in Procs, Advance(p)
      PROVE  proc'[q] = proc[q] \/ Works(q) \/ Ends(q)
  <2>1. CASE p = q
    BY <1>4, <2>1, ReturnFacts
       DEF Advance, Works, Ends, CreateReturns, ResyncReturns, DeleteVPNUser
  <2>2. CASE p # q
    BY <1>4, <2>2
       DEF Advance, CreateAddUser, RemoveUser, ResyncAddUser, CreateReturns,
           ResyncReturns, DeleteVPNUser, Return, TypeOK
  <2> QED
    BY <2>1, <2>2
<1>5. ASSUME NEW s \in Servers,
             \/ ServerLost(s) \/ ServerBack(s) \/ XrayRestarts(s)
             \/ SwitchOff(s) \/ SwitchOn(s)
      PROVE  proc'[q] = proc[q]
  BY <1>5 DEF ServerLost, ServerBack, XrayRestarts, SwitchOff, SwitchOn
<1>6. ASSUME NEW p \in Handlers \cup Startup, DeadlinePasses(p)
      PROVE  proc'[q] = proc[q] \/ CutOff(q)
  BY <1>6, ReturnFacts DEF DeadlinePasses, Fault, CutOff
<1>7. CASE ServiceRestarts
  BY <1>7 DEF ServiceRestarts, Fault, CutOff
<1>8. CASE UNCHANGED vars
  BY <1>8 DEF vars
<1> QED
  BY <1>2, <1>3, <1>4, <1>5, <1>6, <1>7, <1>8 DEF Next

\* The table is finite, since rows are inserted one at a time.
LEMMA FiniteTable ==
    ASSUME TypeOK, IsFiniteSet(rows), [Next]_vars
    PROVE  IsFiniteSet(rows')
<1>1. \/ rows' \subseteq rows
      \/ \E row : rows' = rows \cup {row}
  BY DEF Next, vars, DisableVPNUser, CreateVPNUser, ResyncRPC, CheckHealth, PeriodicResync,
         StartupResync, Advance, CreateAddUser, RemoveUser, CreateReturns, DeleteVPNUser,
         ResyncAddUser, ResyncReturns, ServerLost, ServerBack, XrayRestarts, SwitchOff, SwitchOn,
         DeadlinePasses, ServiceRestarts
<1> QED
  BY <1>1, FS_Subset, FS_AddElement

\* A call that works is done with one server or row, and stays the same call.
LEMMA WorkStep ==
    ASSUME TypeOK, NEW q \in Procs, Works(q)
    PROVE  /\ proc[q] # Idle /\ proc'[q] # Idle
           /\ proc'[q].kind = proc[q].kind
           /\ \E x \in proc[q].todo : proc'[q].todo = proc[q].todo \ {x}
           /\ \A p \in Procs \ {q} : proc'[p] = proc[p]
<1>1. /\ proc[q] # Idle /\ proc[q].kind # "idle"
      /\ \E x \in proc[q].todo : proc' = [proc EXCEPT ![q].todo = @ \ {x}]
  BY DEF Works, CreateAddUser, RemoveUser, ResyncAddUser, Idle
<1>2. PICK x \in proc[q].todo : proc' = [proc EXCEPT ![q].todo = @ \ {x}]
  BY <1>1
<1>3. /\ proc'[q].kind = proc[q].kind /\ proc'[q].todo = proc[q].todo \ {x}
      /\ \A p \in Procs \ {q} : proc'[p] = proc[p]
  BY <1>1, <1>2, WorkFacts
<1>4. proc'[q] # Idle
  BY <1>1, <1>3 DEF Idle
<1> QED
  BY <1>1, <1>3, <1>4

\* What a call has still to do is finite.
FiniteWork == /\ IsFiniteSet(rows)
              /\ \A q \in Procs : proc[q] # Idle => IsFiniteSet(proc[q].todo)

LEMMA FiniteStep ==
    ASSUME TypeOK, TypeOK', FiniteWork, [Next]_vars
    PROVE  FiniteWork'
<1>1. IsFiniteSet(rows')
  BY FiniteTable DEF FiniteWork
<1>2. ASSUME NEW q \in Procs, proc'[q] # Idle
      PROVE  IsFiniteSet(proc'[q].todo)
  <2>1. CASE proc'[q] = proc[q]
    BY <1>2, <2>1 DEF FiniteWork
  <2>2. CASE Begins(q)
    <3>1. proc'[q] \in Creating \cup Disabling => proc'[q].todo \subseteq Servers
      BY DEF Creating, Disabling
    <3>2. proc'[q] \in Resyncing => proc'[q].todo = rows
      BY <2>2 DEF Begins, Resyncing
    <3> QED
      BY <1>2, <3>1, <3>2, ServersAssumption, FS_Subset DEF FiniteWork, TypeOK
  <2>3. CASE Works(q)
    BY <2>3, WorkStep, FS_RemoveElement DEF FiniteWork
  <2> QED
    BY <1>2, <2>1, <2>2, <2>3, CallStep DEF Ends, CutOff
<1> QED
  BY <1>1, <1>2 DEF FiniteWork

\* A call stays the same call with one server or row less to do.
Nearer(q) == /\ proc'[q].kind = proc[q].kind
             /\ proc'[q].todo \subseteq proc[q].todo
             /\ Cardinality(proc[q].todo) \in Nat \ {0}
             /\ Cardinality(proc'[q].todo) = Cardinality(proc[q].todo) - 1

\* Nothing that other calls, resyncs or the administrator do gives a call in
\* progress more to do or takes work from it: each step leaves it alone, brings
\* it one server or row nearer to its end, or is its end, with nothing left to
\* do; otherwise a deadline or a crash cuts it off.  So every loop over servers
\* and every resync of service/vpn.go ends if it is allowed to go on.
THEOREM CallsEnd ==
    Spec => [][\A q \in Procs : proc[q] # Idle =>
                  proc'[q] = proc[q] \/ Nearer(q) \/ Ends(q) \/ CutOff(q)]_vars
<1> DEFINE IInv == TypeOK /\ Drawn /\ FiniteWork
           Ending == \A q \in Procs : proc[q] # Idle =>
                        proc'[q] = proc[q] \/ Nearer(q) \/ Ends(q) \/ CutOff(q)
<1>1. Init => IInv
  BY TypeInit, FS_EmptySet DEF Init, FiniteWork
<1>2. IInv /\ [Next]_vars => IInv'
  BY TypeStep, FiniteStep
<1>3. ASSUME IInv, [Next]_vars
      PROVE  Ending
  <2> SUFFICES ASSUME NEW q \in Procs, proc[q] # Idle
               PROVE  proc'[q] = proc[q] \/ Nearer(q) \/ Ends(q) \/ CutOff(q)
    OBVIOUS
  <2>1. ASSUME Works(q)
        PROVE  Nearer(q)
    <3>1. PICK x \in proc[q].todo : proc'[q].todo = proc[q].todo \ {x}
      BY <2>1, <1>3, WorkStep
    <3>2. IsFiniteSet(proc[q].todo) /\ IsFiniteSet(proc'[q].todo)
      BY <1>3, <3>1, FS_RemoveElement DEF FiniteWork
    <3>3. /\ Cardinality(proc[q].todo) \in Nat /\ Cardinality(proc'[q].todo) \in Nat
          /\ Cardinality(proc'[q].todo) = Cardinality(proc[q].todo) - 1
      BY <3>1, <3>2, FS_RemoveElement, FS_CardinalityType
    <3> QED
      BY <2>1, <1>3, <3>1, <3>3, WorkStep DEF Nearer
  <2> QED
    BY <1>3, <2>1, CallStep DEF Begins
<1> QED
  <2>1. IInv /\ [Next]_vars => [Ending]_vars
    BY <1>3
  <2> QED
    BY <1>1, <1>2, <2>1, PTL DEF Spec

-----------------------------------------------------------------------------
(* Who may take an account away.                                            *)

\* The server forgets the account of a user.
Loses(s, u) == registry[s][u] # None /\ registry'[s][u] = None

\* It does so for a DisableVPNUser of that user, or because its Xray restarted.
LossIsCaused(s, u) ==
    \/ \E q \in Procs : RemoveUser(q, s) /\ proc[q].user = u
    \/ ServerBack(s) \/ XrayRestarts(s)

\* Only these steps write to a list.
LEMMA ListStep ==
    ASSUME TypeOK, [Next]_vars, NEW s \in Servers, NEW u \in Users
    PROVE  \/ registry'[s][u] = registry[s][u]
           \/ /\ registry[s][u] = None /\ s \notin down
              /\ \E row \in Row : row.user = u /\ registry'[s][u] = row.uuid
           \/ registry'[s][u] = None /\ LossIsCaused(s, u)
<1>1. ASSUME NEW q \in Procs, NEW t \in Servers, CreateAddUser(q, t)
      PROVE  \/ registry'[s][u] = registry[s][u]
             \/ /\ registry[s][u] = None /\ s \notin down
                /\ \E row \in Row : row.user = u /\ registry'[s][u] = row.uuid
  <2>1. proc[q].row \in Row
    BY <1>1, CallTypes DEF CreateAddUser
  <2> QED
    BY <1>1, <2>1 DEF CreateAddUser, AddUser, TypeOK, Row
<1>2. ASSUME NEW q \in Procs, NEW row \in Row, ResyncAddUser(q, row)
      PROVE  \/ registry'[s][u] = registry[s][u]
             \/ /\ registry[s][u] = None /\ s \notin down
                /\ row.user = u /\ registry'[s][u] = row.uuid
  <2>1. proc[q].server \in Servers
    BY <1>2, CallTypes DEF ResyncAddUser
  <2> QED
    BY <1>2, <2>1 DEF ResyncAddUser, AddUser, TypeOK, Row
<1>3. ASSUME NEW q \in Procs, NEW t \in Servers, RemoveUser(q, t)
      PROVE  \/ registry'[s][u] = registry[s][u]
             \/ registry'[s][u] = None /\ LossIsCaused(s, u)
  <2>1. proc[q].user \in Users
    BY <1>3, CallTypes DEF RemoveUser
  <2> QED
    BY <1>3, <2>1 DEF RemoveUser, TypeOK, LossIsCaused
<1>4. ASSUME NEW t \in Servers,
             \/ ServerLost(t) \/ ServerBack(t) \/ XrayRestarts(t)
             \/ SwitchOff(t) \/ SwitchOn(t)
      PROVE  \/ registry'[s][u] = registry[s][u]
             \/ registry'[s][u] = None /\ LossIsCaused(s, u)
  BY <1>4 DEF ServerLost, ServerBack, XrayRestarts, SwitchOff, SwitchOn, TypeOK, LossIsCaused
<1>5. CASE UNCHANGED registry
  BY <1>5
<1>6. [Next]_vars =>
        \/ UNCHANGED registry
        \/ \E q \in Procs, t \in Servers : CreateAddUser(q, t) \/ RemoveUser(q, t)
        \/ \E q \in Procs, row \in Row : ResyncAddUser(q, row)
        \/ \E t \in Servers :
              ServerLost(t) \/ ServerBack(t) \/ XrayRestarts(t) \/ SwitchOff(t) \/ SwitchOn(t)
  BY DEF Next, vars, DisableVPNUser, CreateVPNUser, ResyncRPC, CheckHealth, PeriodicResync,
         StartupResync, Advance, CreateReturns, DeleteVPNUser, ResyncReturns,
         DeadlinePasses, ServiceRestarts
<1> QED
  BY <1>1, <1>2, <1>3, <1>4, <1>5, <1>6

\* No call replaces the UUID under which a server knows a user, and nobody loses
\* the account but the user whom a DisableVPNUser is removing, or all users of a
\* server whose Xray restarted: not by a second subscription, not by a resync,
\* not by the DisableVPNUser of somebody else.
THEOREM AccountsStay ==
    Spec => [][\A s \in Servers, u \in Users : registry[s][u] # None =>
                  \/ registry'[s][u] = registry[s][u]
                  \/ Loses(s, u) /\ LossIsCaused(s, u)]_vars
<1> DEFINE Staying == \A s \in Servers, u \in Users : registry[s][u] # None =>
                         \/ registry'[s][u] = registry[s][u]
                         \/ Loses(s, u) /\ LossIsCaused(s, u)
<1>1. TypeOK /\ [Next]_vars => [Staying]_vars
  BY ListStep DEF Loses
<1> QED
  BY <1>1, TypeCorrect, PTL DEF Spec

-----------------------------------------------------------------------------
(* What a resync promises.                                                  *)

\* The resync q still has a row of the user to push, or its server has him.
Covered(q, u) == \/ \E row \in proc[q].todo : row.user = u
                 \/ registry[proc[q].server][u] # None

\* A resync ends with an account for the user on its server.
Repaired(q, u) == proc'[q] = Idle /\ registry'[proc[q].server][u] # None

\* A resync goes on, and the user has still to come or has his account.
StaysCovered(q, u) == /\ proc'[q].kind = "resync" /\ proc'[q].server = proc[q].server
                      /\ Covered(q, u)'

\* How a resync may fail a user: its server cannot be reached, it is cut off, or
\* the account is lost again.
Fails(q, u) == \/ proc[q].server \in down
               \/ CutOff(q)
               \/ LossIsCaused(proc[q].server, u)

\* A resync passes over nobody.  It starts covering all who have a row, and at
\* each step, whatever else goes on, it keeps covering them, until it returns
\* with an account for them on its server: unless the server was out of reach,
\* the call was cut off, or a DisableVPNUser of that user or a restart of the
\* server took the account away.
THEOREM ResyncRepairs ==
    Spec => [][\A q \in Procs, u \in Users :
                 /\ proc[q] = Idle /\ proc'[q].kind = "resync" /\ RowsOf(u) # {}
                      => Covered(q, u)'
                 /\ proc[q].kind = "resync" /\ Covered(q, u)
                      => StaysCovered(q, u) \/ Repaired(q, u) \/ Fails(q, u)]_vars
<1> DEFINE Starts(q, u) == proc[q] = Idle /\ proc'[q].kind = "resync" /\ RowsOf(u) # {}
                             => Covered(q, u)'
           Goes(q, u) == proc[q].kind = "resync" /\ Covered(q, u)
                           => StaysCovered(q, u) \/ Repaired(q, u) \/ Fails(q, u)
           Covering == \A q \in Procs, u \in Users :
                         /\ proc[q] = Idle /\ proc'[q].kind = "resync" /\ RowsOf(u) # {}
                              => Covered(q, u)'
                         /\ proc[q].kind = "resync" /\ Covered(q, u)
                              => StaysCovered(q, u) \/ Repaired(q, u) \/ Fails(q, u)
<1>1. ASSUME TypeOK, [Next]_vars, NEW q \in Procs, NEW u \in Users
      PROVE  Starts(q, u)
  <2> SUFFICES ASSUME proc[q] = Idle, proc'[q].kind = "resync", RowsOf(u) # {}
               PROVE  Covered(q, u)'
    OBVIOUS
  <2>1. proc'[q] # proc[q] /\ proc'[q] # Idle
    BY DEF Idle
  <2>2. Begins(q)
    BY <1>1, <2>1, CallStep, WorkStep DEF Ends, CutOff
  <2> QED
    BY <2>2 DEF Begins, Covered, RowsOf
<1>2. ASSUME TypeOK, [Next]_vars, NEW q \in Procs, NEW u \in Users
      PROVE  Goes(q, u)
  <2> SUFFICES ASSUME proc[q].kind = "resync", Covered(q, u), ~Fails(q, u)
               PROVE  StaysCovered(q, u) \/ Repaired(q, u)
    OBVIOUS
  <2> DEFINE s == proc[q].server
  <2>1. s \in Servers /\ proc[q].todo \subseteq Row /\ proc[q] # Idle
    BY <1>2, CallTypes DEF Idle
  <2>2. s \notin down /\ ~CutOff(q) /\ ~LossIsCaused(s, u)
    BY DEF Fails
  <2>3. registry[s][u] # None => registry'[s][u] # None
    BY <1>2, <2>1, <2>2, ListStep
  <2>4. CASE proc'[q] = proc[q]
    BY <2>3, <2>4 DEF StaysCovered, Covered
  <2>5. CASE Works(q)
    <3>1. PICK row \in Row : ResyncAddUser(q, row)
      BY <2>5 DEF Works, CreateAddUser, RemoveUser
    <3>2. /\ row \in proc[q].todo /\ AddUser(s, row)
          /\ proc' = [proc EXCEPT ![q].todo = @ \ {row}]
      BY <3>1 DEF ResyncAddUser
    <3>3. /\ proc'[q].kind = "resync" /\ proc'[q].todo = proc[q].todo \ {row}
          /\ proc'[q].server = s
      BY <1>2, <2>1, <3>2, WorkFacts, KindTells DEF TypeOK, Resyncing
    <3>4. row.user = u => registry'[s][u] # None
      BY <1>2, <2>1, <2>2, <3>2, UuidsAssumption DEF AddUser, TypeOK, Row
    <3> QED
      BY <2>3, <3>3, <3>4 DEF StaysCovered, Covered
  <2>6. CASE Ends(q)
    BY <2>3, <2>6 DEF Ends, Covered, Repaired
  <2> QED
    BY <1>2, <2>1, <2>2, <2>4, <2>5, <2>6, CallStep DEF Begins
<1>3. TypeOK /\ [Next]_vars => [Covering]_vars
  BY <1>1, <1>2
<1> QED
  BY <1>3, TypeCorrect, PTL DEF Spec

-----------------------------------------------------------------------------
(* Rows without an account.                                                 *)

\* A CreateVPNUser of the user has the server still to come.
Comes(s, u) == \E q \in Procs : /\ proc[q].kind = "create" /\ proc[q].row.user = u
                                /\ s \in proc[q].todo

\* While nothing has failed and no server was switched off, a server does not
\* know a user who has a row only because a CreateVPNUser of his is on its way
\* there, or a DisableVPNUser is removing him.
ServedUnlessFailed ==
    faults = 0 => /\ down = {} /\ active = Servers
                  /\ \A row \in rows, s \in Servers :
                        \/ registry[s][row.user] # None
                        \/ Comes(s, row.user) \/ DisabledNow(row.user)

\* A CreateVPNUser on its way to a server gets there.
LEMMA ComesStep ==
    ASSUME TypeOK, [Next]_vars, NEW s \in Servers, NEW u \in Users, Comes(s, u),
           s \notin down, faults' = 0
    PROVE  Comes(s, u)' \/ registry'[s][u] # None
<1>1. PICK q \in Procs : proc[q].kind = "create" /\ proc[q].row.user = u /\ s \in proc[q].todo
  BY DEF Comes
<1>2. CASE Works(q)
  <2>1. PICK t \in Servers : CreateAddUser(q, t)
    BY <1>1, <1>2 DEF Works, RemoveUser, ResyncAddUser
  <2>2. proc[q].row \in Row /\ proc[q] # Idle
    BY <1>1, CallTypes DEF Idle
  <2>3. CASE t = s
    BY <1>1, <2>1, <2>2, <2>3, UuidsAssumption DEF CreateAddUser, AddUser, TypeOK, Row
  <2>4. CASE t # s
    BY <1>1, <2>1, <2>2, <2>4, WorkFacts DEF CreateAddUser, Comes
  <2> QED
    BY <2>3, <2>4
<1>3. ~CutOff(q) /\ ~Ends(q) /\ ~Begins(q)
  BY <1>1 DEF CutOff, Ends, Begins, Idle, TypeOK
<1> QED
  BY <1>1, <1>2, <1>3, CallStep DEF Comes

\* A DisableVPNUser goes on until it has deleted the rows of its user.
LEMMA DisabledStep ==
    ASSUME TypeOK, [Next]_vars, NEW u \in Users, DisabledNow(u), faults' = 0
    PROVE  DisabledNow(u)' \/ rows' = rows \ RowsOf(u)
<1>1. PICK q \in Procs : proc[q].kind = "disable" /\ proc[q].user = u
  BY DEF DisabledNow
<1>2. CASE Works(q)
  <2>1. PICK t \in Servers : RemoveUser(q, t)
    BY <1>1, <1>2 DEF Works, CreateAddUser, ResyncAddUser
  <2> QED
    BY <1>1, <2>1, WorkFacts DEF RemoveUser, DisabledNow, Idle
<1>3. ~CutOff(q) /\ ~Begins(q)
  BY <1>1 DEF CutOff, Begins, Idle, TypeOK
<1> QED
  BY <1>1, <1>2, <1>3, CallStep DEF DisabledNow, Ends

\* A new row is that of a CreateVPNUser with all servers that are switched on
\* still to come.
LEMMA NewRow ==
    ASSUME TypeOK, [Next]_vars, NEW row \in rows' \ rows, NEW s \in active
    PROVE  Comes(s, row.user)'
<1>1. PICK h \in Handlers, u \in Users : \E sub \in SubsOf[u] : CreateVPNUser(h, u, sub)
  BY DEF Next, vars, DisableVPNUser, ResyncRPC, CheckHealth, PeriodicResync,
         StartupResync, Advance, CreateAddUser, RemoveUser, CreateReturns, DeleteVPNUser,
         ResyncAddUser, ResyncReturns, ServerLost, ServerBack, XrayRestarts, SwitchOff, SwitchOn,
         DeadlinePasses, ServiceRestarts
<1>2. Start(h, [kind |-> "create", row |-> row, todo |-> active])
  BY <1>1 DEF CreateVPNUser
<1> QED
  BY <1>2 DEF Start, Comes, Procs, TypeOK

LEMMA ServedStep ==
    ASSUME TypeOK, TypeOK', ServedUnlessFailed, [Next]_vars
    PROVE  ServedUnlessFailed'
<1> SUFFICES ASSUME faults' = 0
             PROVE  /\ down' = {} /\ active' = Servers
                    /\ \A row \in rows', s \in Servers :
                          \/ registry'[s][row.user] # None
                          \/ Comes(s, row.user)' \/ DisabledNow(row.user)'
  BY DEF ServedUnlessFailed
<1>1. /\ faults = 0 /\ down = {} /\ down' = {}
      /\ active = Servers /\ active' = Servers
      /\ \A s \in Servers : ~ServerBack(s) /\ ~XrayRestarts(s)
  <2>1. \/ /\ faults' = faults /\ down' \subseteq down
           /\ active \subseteq active' /\ active' \subseteq Servers
        \/ faults' = faults + 1
    BY DEF Next, vars, DisableVPNUser, CreateVPNUser, ResyncRPC, CheckHealth, PeriodicResync,
           StartupResync, Advance, CreateAddUser, RemoveUser, CreateReturns, DeleteVPNUser,
           ResyncAddUser, ResyncReturns, ServerLost, ServerBack, XrayRestarts, SwitchOff, SwitchOn,
           DeadlinePasses, ServiceRestarts, Fault, TypeOK
  <2>2. faults = 0 /\ faults' # faults + 1
    BY <2>1 DEF TypeOK
  <2> QED
    BY <2>1, <2>2 DEF ServedUnlessFailed, ServerBack, XrayRestarts, Fault
<1>2. ASSUME NEW row \in rows', NEW s \in Servers, row \in rows
      PROVE  \/ registry'[s][row.user] # None
             \/ Comes(s, row.user)' \/ DisabledNow(row.user)'
  <2>1. row.user \in Users /\ row \in RowsOf(row.user)
    BY <1>2 DEF TypeOK, Row, RowsOf
  <2>2. DisabledNow(row.user) => DisabledNow(row.user)'
    BY <1>2, <2>1, DisabledStep
  <2>3. LossIsCaused(s, row.user) => DisabledNow(row.user)
    BY <1>1 DEF LossIsCaused, RemoveUser, DisabledNow
  <2>4. registry[s][row.user] # None
           => registry'[s][row.user] # None \/ DisabledNow(row.user)
    BY <2>1, <2>3, ListStep
  <2>5. Comes(s, row.user) => Comes(s, row.user)' \/ registry'[s][row.user] # None
    BY <1>1, <2>1, ComesStep
  <2> QED
    BY <1>1, <1>2, <2>2, <2>4, <2>5 DEF ServedUnlessFailed
<1> QED
  BY <1>1, <1>2, NewRow

\* As long as nothing has failed and no server was switched off, everyone with a
\* row is known to every server, but for those whom a CreateVPNUser is still
\* bringing there or a DisableVPNUser is removing, however many of these race for
\* one user: a removal takes away no account of a row that outlives it.
THEOREM RowsAreServed == Spec => []ServedUnlessFailed
<1>1. Init => TypeOK /\ Drawn /\ ServedUnlessFailed
  BY TypeInit DEF Init, ServedUnlessFailed
<1>2. TypeOK /\ Drawn /\ ServedUnlessFailed /\ [Next]_vars
        => TypeOK' /\ Drawn' /\ ServedUnlessFailed'
  BY TypeStep, ServedStep
<1> QED
  BY <1>1, <1>2, PTL DEF Spec

=============================================================================
