---------------------------- MODULE VpnRegistry -----------------------------
(***************************************************************************)
(* vpn-service: the vpn_users table and the user lists that every Xray     *)
(* server keeps in memory (service/vpn.go, service/resync_cron.go,         *)
(* repository/vpn.go, app/app.go).                                         *)
(*                                                                         *)
(* The table is the truth; a list is a copy that is pushed user by user.   *)
(* An Xray server knows a user by email, which the service makes from the  *)
(* user id alone, and refuses a second user of the same email; the service *)
(* takes that refusal for a success.  Lists are lost when Xray restarts    *)
(* and are pushed again by the resync cron and at start-up.  Handlers, the *)
(* cron and the start-up goroutine run concurrently, without a lock.       *)
(***************************************************************************)
EXTENDS Naturals, FiniteSets

CONSTANTS
    Users,      \* internal user ids, one email each
    Servers,    \* rows of vpn_servers
    Uuids,      \* UUIDs the service may draw: bounds the rows ever inserted
    SubsOf,     \* user |-> subscription ids CreateVPNUser is called with
    Handlers,   \* RPC handlers that may be in progress at one time
    Cron,       \* the resync cron goroutine, or empty to switch it off
    Startup,    \* the start-up resync goroutine, or empty
    None,       \* no user of that email
    MaxFaults   \* bound: servers lost or switched off, Xray restarts, deadlines,
                \* crashes

ASSUME ProcessesAssumption == /\ Handlers \cap Cron = {}
                              /\ Handlers \cap Startup = {}
                              /\ Cron \cap Startup = {}
ASSUME ServersAssumption == IsFiniteSet(Servers)
ASSUME UuidsAssumption == None \notin Uuids
ASSUME FaultsAssumption == MaxFaults \in Nat

VARIABLES
    rows,      \* vpn_users: records of user, subscription and UUID
    drawn,     \* UUIDs drawn so far
    active,    \* servers whose is_active is set
    registry,  \* server |-> email (a user) |-> UUID or None
    down,      \* servers whose Xray API cannot be reached
    health,    \* ResyncCron.lastHealthy; "unseen" is absent from the map
    proc,      \* the calls in progress and what each has still to do
    booting,   \* servers the start-up goroutine has still to resync
    missed,    \* users whose DisableVPNUser missed a server or an AddUser
    faults     \* failures so far

vars == <<rows, drawn, active, registry, down, health, proc, booting, missed, faults>>

Procs == Handlers \cup Cron \cup Startup
Row == [user : Users, sub : UNION {SubsOf[u] : u \in Users}, uuid : Uuids]
RowsOf(u) == {r \in rows : r.user = u}

Idle == [kind |-> "idle"]
Creating == [kind : {"create"}, row : Row, todo : SUBSET Servers]
Disabling == [kind : {"disable"}, user : Users, todo : SUBSET Servers]
Resyncing == [kind : {"resync"}, server : Servers, todo : SUBSET Row]

Start(q, call) == proc[q] = Idle /\ proc' = [proc EXCEPT ![q] = call]
Return(q) == proc' = [proc EXCEPT ![q] = Idle]

Init == /\ rows = {}
        /\ drawn = {}
        /\ active = Servers
        /\ registry = [s \in Servers |-> [u \in Users |-> None]]
        /\ down = {}
        /\ health = [s \in Servers |-> "unseen"]
        /\ proc = [q \in Procs |-> Idle]
        /\ booting = {}
        /\ missed = {}
        /\ faults = 0

-----------------------------------------------------------------------------
(* CreateVPNUser.                                                           *)

\* Operators named Broken... are the bugs the properties are tried against;
\* no action uses them.

\* The row is there already and the UUID drawn for a new one is used.
BrokenCreateVPNUser(h, u, sub) ==
    \E x \in Uuids \ drawn :
        LET row == [user |-> u, sub |-> sub, uuid |-> x]
        IN  /\ Start(h, [kind |-> "create", row |-> row, todo |-> active])
            /\ rows' = IF \E r \in RowsOf(u) : r.sub = sub
                       THEN rows ELSE rows \cup {row}
            /\ drawn' = drawn \cup {x}
            /\ UNCHANGED <<active, registry, down, health, booting, missed, faults>>

\* The INSERT without its ON CONFLICT clause and without the key.
DuplicateCreateVPNUser(h, u, sub) ==
    \E x \in Uuids \ drawn :
        LET row == [user |-> u, sub |-> sub, uuid |-> x]
        IN  /\ Start(h, [kind |-> "create", row |-> row, todo |-> active])
            /\ rows' = rows \cup {row}
            /\ drawn' = drawn \cup {x}
            /\ UNCHANGED <<active, registry, down, health, booting, missed, faults>>

\* INSERT ... ON CONFLICT (user_id, subscription_id) DO NOTHING: a new row
\* takes a fresh UUID, an existing one is read back.
CreateVPNUser(h, u, sub) ==
    /\ \/ \E row \in RowsOf(u) :
            /\ row.sub = sub
            /\ Start(h, [kind |-> "create", row |-> row, todo |-> active])
            /\ UNCHANGED <<rows, drawn>>
       \/ /\ \A row \in RowsOf(u) : row.sub # sub
          /\ \E x \in Uuids \ drawn :
               LET row == [user |-> u, sub |-> sub, uuid |-> x]
               IN  /\ Start(h, [kind |-> "create", row |-> row,
                                todo |-> active])
                   /\ rows' = rows \cup {row}
                   /\ drawn' = drawn \cup {x}
    /\ UNCHANGED <<active, registry, down, health, booting, missed, faults>>

DisabledNow(u) == \E q \in Procs : proc[q].kind = "disable" /\ proc[q].user = u

\* Xray's AddUser: an email it has keeps the UUID it has, and the refusal
\* ("already exists") counts as success.
AddUser(s, row) ==
    /\ registry' = IF s \notin down /\ registry[s][row.user] = None
                   THEN [registry EXCEPT ![s][row.user] = row.uuid]
                   ELSE registry
    /\ missed' = IF DisabledNow(row.user) THEN missed \cup {row.user} ELSE missed

\* The loop of CreateVPNUser over the servers.
CreateAddUser(h, s) ==
    /\ proc[h].kind = "create" /\ s \in proc[h].todo
    /\ AddUser(s, proc[h].row)
    /\ proc' = [proc EXCEPT ![h].todo = @ \ {s}]
    /\ UNCHANGED <<rows, drawn, active, down, health, booting, faults>>

\* An error when every server refused, success otherwise; either way the row
\* stays.
CreateReturns(h) ==
    /\ proc[h].kind = "create" /\ proc[h].todo = {}
    /\ Return(h)
    /\ UNCHANGED <<rows, drawn, active, registry, down, health, booting, missed,
                   faults>>

-----------------------------------------------------------------------------
(* DisableVPNUser.                                                          *)

\* The newest row of the user, whose email is the email of all of them; a
\* user without a row is left alone, and so is a server that is switched off.
DisableVPNUser(h, u) ==
    /\ RowsOf(u) # {}
    /\ Start(h, [kind |-> "disable", user |-> u, todo |-> active])
    /\ missed' = IF \E s \in Servers \ active : registry[s][u] # None
                 THEN missed \cup {u} ELSE missed
    /\ UNCHANGED <<rows, drawn, active, registry, down, health, booting, faults>>

\* The server's "not found" counts as removed; a server that cannot be reached
\* is skipped.
RemoveUser(h, s) ==
    /\ proc[h].kind = "disable" /\ s \in proc[h].todo
    /\ registry' = IF s \in down THEN registry
                   ELSE [registry EXCEPT ![s][proc[h].user] = None]
    /\ missed' = IF s \in down THEN missed \cup {proc[h].user} ELSE missed
    /\ proc' = [proc EXCEPT ![h].todo = @ \ {s}]
    /\ UNCHANGED <<rows, drawn, active, down, health, booting, faults>>

\* A call in progress still has an account of user u to push.
Pushing(u) ==
    \E q \in Procs : \/ proc[q].kind = "create" /\ proc[q].row.user = u
                     \/ proc[q].kind = "resync" /\ \E r \in proc[q].todo : r.user = u

\* DELETE FROM vpn_users WHERE user_id = user, after the loop.
DeleteVPNUser(h) ==
    /\ proc[h].kind = "disable" /\ proc[h].todo = {}
    /\ rows' = rows \ RowsOf(proc[h].user)
    /\ missed' = IF Pushing(proc[h].user) THEN missed \cup {proc[h].user} ELSE missed
    /\ Return(h)
    /\ UNCHANGED <<drawn, active, registry, down, health, booting, faults>>

-----------------------------------------------------------------------------
(* ResyncServer and who calls it.                                           *)

\* ResyncServer(s): SELECT all rows, then push them one by one.
ResyncServer(q, s) ==
    Start(q, [kind |-> "resync", server |-> s, todo |-> rows])

\* A resync that pushes nothing to a server it has already seen healthy.
BrokenResyncAddUser(q, row) ==
    /\ proc[q].kind = "resync" /\ row \in proc[q].todo
    /\ IF health[proc[q].server] = "healthy" THEN UNCHANGED <<registry, missed>>
       ELSE AddUser(proc[q].server, row)
    /\ proc' = [proc EXCEPT ![q].todo = @ \ {row}]
    /\ UNCHANGED <<rows, drawn, active, down, health, booting, faults>>

ResyncAddUser(q, row) ==
    /\ proc[q].kind = "resync" /\ row \in proc[q].todo
    /\ AddUser(proc[q].server, row)
    /\ proc' = [proc EXCEPT ![q].todo = @ \ {row}]
    /\ UNCHANGED <<rows, drawn, active, down, health, booting, faults>>

ResyncReturns(q) ==
    /\ proc[q].kind = "resync" /\ proc[q].todo = {}
    /\ Return(q)
    /\ UNCHANGED <<rows, drawn, active, registry, down, health, booting, missed,
                   faults>>

\* The administrator's RPC.
ResyncRPC(h, s) ==
    /\ ResyncServer(h, s)
    /\ UNCHANGED <<rows, drawn, active, registry, down, health, booting, missed,
                   faults>>

\* checkHealth, for one server of its loop: a server that answers after it did
\* not is resynced; one that was never seen is not.
CheckHealth(c, s) ==
    /\ proc[c] = Idle /\ s \in active
    /\ IF s \in down
       THEN /\ health' = [health EXCEPT ![s] = "unhealthy"]
            /\ UNCHANGED proc
       ELSE /\ health' = [health EXCEPT ![s] = "healthy"]
            /\ IF health[s] = "unhealthy" THEN ResyncServer(c, s)
               ELSE UNCHANGED proc
    /\ UNCHANGED <<rows, drawn, active, registry, down, booting, missed, faults>>

\* periodicResync, for one server of its loop.  A list of active servers that
\* is out of date shows here as a ResyncRPC.
PeriodicResync(c, s) ==
    /\ s \in active
    /\ ResyncServer(c, s)
    /\ UNCHANGED <<rows, drawn, active, registry, down, health, booting, missed,
                   faults>>

\* resyncAllServersOnStartup, for one server of its loop.
StartupResync(g, s) ==
    /\ s \in booting
    /\ ResyncServer(g, s)
    /\ booting' = booting \ {s}
    /\ UNCHANGED <<rows, drawn, active, registry, down, health, missed, faults>>

-----------------------------------------------------------------------------
(* What goes wrong.                                                         *)

Fault == faults < MaxFaults /\ faults' = faults + 1

\* A server cannot be reached; its Xray goes on serving the users it has.
ServerLost(s) == /\ Fault /\ s \notin down
                 /\ down' = down \cup {s}
                 /\ UNCHANGED <<rows, drawn, active, registry, health, proc, booting,
                                missed>>

\* It can be reached again, with its list or without it.
ServerBack(s) == /\ s \in down
                 /\ down' = down \ {s}
                 /\ \/ UNCHANGED registry
                    \/ registry' = [registry EXCEPT ![s] = [u \in Users |-> None]]
                 /\ UNCHANGED <<rows, drawn, active, health, proc, booting, missed, faults>>

\* Xray restarts between two health checks, and nobody notices.
XrayRestarts(s) == /\ Fault /\ s \notin down
                   /\ registry' = [registry EXCEPT ![s] = [u \in Users |-> None]]
                   /\ UNCHANGED <<rows, drawn, active, down, health, proc, booting,
                                  missed>>

\* The administrator switches a server off in the table; its Xray serves on.
SwitchOff(s) == /\ Fault /\ s \in active
                /\ active' = active \ {s}
                /\ UNCHANGED <<rows, drawn, registry, down, health, proc, booting,
                               missed>>

\* He switches it on again, and nobody is told.
SwitchOn(s) == /\ s \in Servers \ active
               /\ active' = active \cup {s}
               /\ UNCHANGED <<rows, drawn, registry, down, health, proc, booting,
                              missed, faults>>

\* The caller's deadline passes, or the 30 seconds of the start-up resync: the
\* calls that are left all fail, a DELETE among them.
DeadlinePasses(q) == /\ Fault
                     /\ proc[q] # Idle \/ (q \in Startup /\ booting # {})
                     /\ Return(q)
                     /\ booting' = IF q \in Startup THEN {} ELSE booting
                     /\ UNCHANGED <<rows, drawn, active, registry, down, health, missed>>

\* vpn-service dies and starts again: calls are cut off, the cron forgets what
\* it saw, and every server is to be resynced.
ServiceRestarts == /\ Fault
                   /\ proc' = [q \in Procs |-> Idle]
                   /\ health' = [s \in Servers |-> "unseen"]
                   /\ booting' = IF Startup = {} THEN {} ELSE active
                   /\ UNCHANGED <<rows, drawn, active, registry, down, missed>>

-----------------------------------------------------------------------------

\* A call in progress goes on.
Advance(q) == \/ \E s \in Servers : CreateAddUser(q, s) \/ RemoveUser(q, s)
              \/ CreateReturns(q) \/ DeleteVPNUser(q)
              \/ \E row \in Row : ResyncAddUser(q, row)
              \/ ResyncReturns(q)

Next == \/ \E h \in Handlers, u \in Users :
             DisableVPNUser(h, u) \/ \E sub \in SubsOf[u] : CreateVPNUser(h, u, sub)
        \/ \E h \in Handlers, s \in Servers : ResyncRPC(h, s)
        \/ \E c \in Cron, s \in Servers : CheckHealth(c, s) \/ PeriodicResync(c, s)
        \/ \E g \in Startup, s \in Servers : StartupResync(g, s)
        \/ \E q \in Procs : Advance(q)
        \/ \E s \in Servers : ServerLost(s) \/ ServerBack(s) \/ XrayRestarts(s)
                                \/ SwitchOff(s) \/ SwitchOn(s)
        \/ \E q \in Handlers \cup Startup : DeadlinePasses(q)
        \/ ServiceRestarts

Spec == Init /\ [][Next]_vars

\* Go runs every call to its end and the cron goes on ticking over all servers;
\* nobody promises that a server comes back or that anyone calls an RPC.
FairSpec == /\ Spec
            /\ \A q \in Procs : WF_vars(Advance(q))
            /\ \A c \in Cron, s \in Servers : SF_vars(PeriodicResync(c, s))

-----------------------------------------------------------------------------
(* Properties.                                                              *)

\* The variables keep their types, and the keys of vpn_users hold.
TypeOK ==
    /\ rows \subseteq Row /\ drawn \subseteq Uuids
    /\ \A r1, r2 \in rows :
         \/ r1 = r2
         \/ r1.uuid # r2.uuid /\ <<r1.user, r1.sub>> # <<r2.user, r2.sub>>
    /\ registry \in [Servers -> [Users -> Uuids \cup {None}]]
    /\ active \subseteq Servers /\ down \subseteq Servers /\ booting \subseteq Servers
    /\ health \in [Servers -> {"unseen", "healthy", "unhealthy"}]
    /\ proc \in [Procs -> {Idle} \cup Creating \cup Disabling \cup Resyncing]
    /\ missed \subseteq Users
    /\ faults \in Nat

Accepts(s, row) == registry[s][row.user] = row.uuid

\* An account outlives its row in four ways only: DisableVPNUser could not
\* reach the server, or passed over it because it was switched off, an AddUser
\* for the user ran before DisableVPNUser was done, or one was still to come.
\* Every other account has the UUID of a row of its user, whatever handlers,
\* resyncs, restarts and crashes do to the lists (repository/vpn.go:243-245 asks
\* every caller to register the UUID that is stored, not the one it drew).
NoForeignAccount ==
    \A s \in Servers, u \in Users :
        u \notin missed /\ registry[s][u] # None
            => \E row \in RowsOf(u) : Accepts(s, row)

\* Xray's memory is repaired: a user that keeps a row gets an account on every
\* server that stays reachable and switched on, whatever restarted before and
\* however quietly.
RowsReachServers ==
    \A s \in Servers, u \in Users :
        <>[](RowsOf(u) # {} /\ s \in active \ down) => <>[](registry[s][u] # None)
=============================================================================
