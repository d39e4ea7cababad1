------------------------------- MODULE Devices --------------------------------
(***************************************************************************)
(* vpn-service: links, devices and the load of servers.                    *)
(*                                                                         *)
(* A device gets in by two doors.  GetVLESSLink counts the devices seen    *)
(* within the window, refuses a new one above the limit of the plan, and   *)
(* records it; count and record are statements of their own.  The public   *)
(* subscription link returns the configuration and records the client in   *)
(* the background, under a name made from its User-Agent, without a limit. *)
(***************************************************************************)
EXTENDS Access, ClientConfig

CONSTANTS
    Kinds,     \* what an administrator may make of a server
    NewServer, \* what the columns' defaults make of it
    Devices,   \* device ids the Mini App sends
    Agents,    \* User-Agents: [client, os, version]
    Requests,  \* requests and background calls that may run at a time
    Window,    \* DeviceActivityWindow
    Capacity   \* server_max_connections

\* The columns of vpn_servers; load is in percent.
ServerRow == [priority : Int, country : STRING, names : SUBSET STRING, active : BOOLEAN,
              load : 0 .. 100]

ASSUME DevicesAssumption == /\ Kinds \cup {NewServer} \subseteq ServerRow
                            /\ Window \in Nat /\ Capacity \in Nat \ {0}

VARIABLES
    servers, \* vpn_servers
    fetches, \* subscription_fetches
    req      \* requests in progress

deviceVars == <<servers, fetches, req>>

\* A call of GetVLESSLink: the row, the server, the device and the limit it
\* goes on with, whether the device was known, and the devices it counted.
LinkCall == [pc : {"known?", "count", "upsert"}, row : Nat \ {0}, server : Servers,
             device : Devices, max : Plans, how : {"new", "known"}, seen : Nat]

\* What ListServers returns of a server, and a call that records a client.
PbServers == [id : Servers, priority : Int, country : STRING, names : SUBSET STRING]
TouchCall == [pc : {"touch"}, row : Nat \ {0}, agent : Agents, given : Seq(PbServers)]
NoCall == [pc |-> "idle"]

DevicesInit ==
    /\ servers = [s \in Servers |-> NewServer]
    /\ fetches = {}
    /\ req = [h \in Requests |-> NoCall]

At(h, step) == req[h].pc = step
Start(h, call) == At(h, "idle") /\ req' = [req EXCEPT ![h] = call]
Done(h) == req' = [req EXCEPT ![h] = NoCall]

\* Operators named Broken... are the bugs the properties are tried against;
\* no action uses them.

FetchesOf(r) == {f \in fetches : f.row = r}
Fresh(f) == f.seen + Window > now
CountActiveDevices(r) == Cardinality({f \in FetchesOf(r) : Fresh(f)})

BrokenUpsert(r, device, server, how) ==
    fetches' = fetches \cup {[row |-> r, device |-> device, server |-> server,
                              seen |-> now, how |-> how]}

\* UPSERT by (vpn_user_id, device_identifier).  A device seen again keeps the
\* server it had if this call has none.  how is history: by which door the
\* device got in, at which limit.
Upsert(r, device, server, how) ==
    LET old == {f \in FetchesOf(r) : f.device = device}
        at == IF server = 0 /\ old # {} THEN (CHOOSE f \in old : TRUE).server ELSE server
    IN  fetches' = (fetches \ old) \cup {[row |-> r, device |-> device, server |-> at,
                                          seen |-> now, how |-> how]}

-----------------------------------------------------------------------------
(* GetVLESSLink                                                            *)

\* A user asks for a link to a server, for a device.  (Without a device id
\* nothing is recorded.)
GetVLESSLink(i, s, d) == [pc |-> "known?", row |-> row[i], server |-> s, device |-> d,
                          max |-> sub[i].max, how |-> "new", seen |-> 0]

\* The row of the user that was made last, the server and the limit, which a
\* running subscription alone has ...
GenerateVLESSLink(h, i, s, d) ==
    /\ Call
    /\ row[i] # 0 /\ \A j \in SubsOf(UserOf[i]) : row[j] <= row[i]
    /\ Live(i)
    /\ Start(h, GetVLESSLink(i, s, d))
    /\ UNCHANGED <<now, sub, row, drawn, toServe, overdue, disabled, faults,
                   servers, fetches>>

\* ... is the device there already, however old? ...
GetActiveConnections(h) ==
    /\ At(h, "known?")
    /\ LET known == \E f \in FetchesOf(req[h].row) : f.device = req[h].device
       IN  req' = [req EXCEPT ![h].pc = IF known THEN "upsert" ELSE "count",
                              ![h].how = IF known THEN "known" ELSE "new"]
    /\ UNCHANGED <<accessVars, servers, fetches>>

BrokenCheckLimit(h) ==
    /\ At(h, "count")
    /\ LET n == CountActiveDevices(req[h].row)
       IN  IF n > req[h].max THEN Done(h)
           ELSE req' = [req EXCEPT ![h].pc = "upsert", ![h].seen = n]
    /\ UNCHANGED <<accessVars, servers, fetches>>

\* ... if not, are there too many? ...
CheckLimit(h) ==
    /\ At(h, "count")
    /\ LET n == CountActiveDevices(req[h].row)
       IN  IF n >= req[h].max THEN Done(h)
           ELSE req' = [req EXCEPT ![h].pc = "upsert", ![h].seen = n]
    /\ UNCHANGED <<accessVars, servers, fetches>>

\* ... and record it, unless the row has gone.  A count that has changed since
\* is the work of another call.
UpsertActiveConnection(h) ==
    /\ At(h, "upsert")
    /\ LET r == req[h].row
           raced == req[h].how = "new" /\ CountActiveDevices(r) # req[h].seen
       IN  IF \E i \in Subs : row[i] = r
           THEN Upsert(r, req[h].device, req[h].server,
                       <<IF raced THEN "raced" ELSE req[h].how, req[h].max>>)
           ELSE UNCHANGED fetches
    /\ Done(h)
    /\ UNCHANGED <<accessVars, servers>>

DisconnectDevice(f) ==
    /\ Call
    /\ fetches' = fetches \ {f}
    /\ UNCHANGED <<now, sub, row, drawn, toServe, overdue, disabled, faults,
                   servers, req>>

-----------------------------------------------------------------------------
(* The subscription link                                                   *)

PbServer(s) == [id |-> s, priority |-> servers[s].priority,
                country |-> servers[s].country, names |-> servers[s].names]

\* ListServers(active_only): by load, then by name.
ListServers ==
    LET active == {s \in Servers : servers[s].active}
        order == InOrder(active, [s \in active |-> servers[s].load])
    IN  [n \in DOMAIN order |-> PbServer(order[n])]

\* The link of a row of vpn_users: its token, here its id.  It dies with the
\* row; a new row has another.
ByToken(r) == {i \in Subs : row[i] = r /\ Live(i)}

\* The token of a running subscription returns the servers; the client is
\* recorded in a call of its own that nobody waits for.  given is history.
GetSubscriptionConfig(h, r, agent) ==
    /\ Call
    /\ ByToken(r) # {}
    /\ Start(h, [pc |-> "touch", row |-> r, agent |-> agent, given |-> ListServers])
    /\ UNCHANGED <<now, sub, row, drawn, toServe, overdue, disabled, faults,
                   servers, fetches>>

\* The client and the system if they are known, or else the name as it is.
NormalizeUserAgent(agent) ==
    IF agent.client = "" /\ agent.os = "" THEN agent ELSE [agent EXCEPT !.version = ""]

\* RegisterDeviceTouch resolves the token again; it may not come to that.
RegisterDeviceTouch(h) ==
    /\ At(h, "touch")
    /\ IF ByToken(req[h].row) # {}
       THEN Upsert(req[h].row, NormalizeUserAgent(req[h].agent), 0, <<"touch", 0>>)
       ELSE UNCHANGED fetches
    /\ Done(h)
    /\ UNCHANGED <<accessVars, servers>>

TouchTimesOut(h) ==
    /\ At(h, "touch") /\ Fault
    /\ Done(h)
    /\ UNCHANGED <<now, sub, row, drawn, toServe, overdue, disabled, calls,
                   servers, fetches>>

-----------------------------------------------------------------------------
(* Servers                                                                 *)

\* A tick of LoadCron: COUNT(*) * 100 / server_max_connections, up to 100.
UpdateServerLoad ==
    /\ LET count(s) == Cardinality({f \in fetches : f.server = s /\ Fresh(f)})
           percent(s) == (count(s) * 100) \div Capacity
           load(s) == IF percent(s) > 100 THEN 100 ELSE percent(s)
       IN  servers' = [s \in Servers |-> IF servers[s].active
                                         THEN [servers[s] EXCEPT !.load = load(s)]
                                         ELSE servers[s]]
    /\ servers' # servers
    /\ Call
    /\ UNCHANGED <<now, sub, row, drawn, toServe, overdue, disabled, faults,
                   fetches, req>>

\* An administrator edits the row of a server.
EditServer(s, kind) ==
    /\ Call
    /\ servers' = [servers EXCEPT ![s] = [kind EXCEPT !.load = servers[s].load]]
    /\ servers' # servers
    /\ UNCHANGED <<now, sub, row, drawn, toServe, overdue, disabled, faults,
                   fetches, req>>

\* The foreign keys: the devices of a deleted row go with it.
CascadeFetches == fetches' = {f \in fetches : \E i \in Subs : row'[i] = f.row}

DevicesTypeOK ==
    /\ servers \in [Servers -> ServerRow]
    /\ req \in [Requests -> LinkCall \cup TouchCall \cup {NoCall}]
    /\ IsFiniteSet(fetches)
    /\ \A f \in fetches : /\ \E i \in Subs : row[i] = f.row
                          /\ f.seen \in 0 .. now /\ f.server \in Servers \cup {0}
    /\ \A f, g \in fetches : f.row = g.row /\ f.device = g.device => f = g

=============================================================================
