------------------------------- MODULE Traffic --------------------------------
(***************************************************************************)
(* vpn-service: TrafficCron, which carries the bytes that Xray counts for  *)
(* every user to the table traffic_samples.                                *)
(*                                                                         *)
(* A tick reads the ids of all users, reads and resets the counters of one *)
(* server after the other, and writes what it has in one transaction.      *)
(* From the reset to the commit the bytes are in memory only.              *)
(***************************************************************************)
EXTENDS Access, SequencesExt

CONSTANT Baselined \* servers that are past their first tick in the beginning

ASSUME TrafficAssumption == Baselined \subseteq Servers

VARIABLES
    counters,     \* at each server: bytes of each user since the last reset
    samples,      \* traffic_samples: <<row, server>> of what is stored
    tick,         \* the tick in progress
    baselineDone, \* servers that are past their first tick, in memory
    owed,         \* history: bytes of each user neither stored nor dropped on purpose
    torn          \* history: a row has come or gone during a tick

trafficVars == <<counters, samples, tick, baselineDone, owed, torn>>

\* The bytes of a user at a server that are to be stored for a row.
Sample == [user : Users, row : Nat \ {0}, server : Servers, bytes : Nat \ {0}]
Nobody == [u \in Users |-> 0]
Idle == [pc |-> "idle", ids |-> Nobody, todo |-> <<>>, batch |-> {}]

TrafficInit ==
    /\ counters = [s \in Servers |-> Nobody]
    /\ samples = {}
    /\ tick = Idle
    /\ baselineDone = Baselined
    /\ owed = Nobody
    /\ torn = FALSE

\* Xray counts a byte of a user who is on its list.
UserTraffic(u, s) ==
    /\ Call
    /\ RowsOf(u) # {}
    /\ counters' = [counters EXCEPT ![s][u] = @ + 1]
    /\ owed' = [owed EXCEPT ![u] = @ + 1]
    /\ UNCHANGED <<now, sub, row, drawn, toServe, overdue, disabled, faults,
                   samples, tick, baselineDone, torn>>

\* SELECT email, id FROM vpn_users: of several rows of a user, who has one
\* e-mail, the row that happens to come last.
IdsByEmail == {ids \in [Users -> {0} \cup {row[i] : i \in Subs}] :
                  \A u \in Users : IF RowsOf(u) = {} THEN ids[u] = 0 ELSE ids[u] \in RowsOf(u)}

\* A tick starts: the ids of all users by their e-mails, and the active servers.
StartTick(active) ==
    /\ Call
    /\ tick.pc = "idle"
    /\ \E u \in Users : RowsOf(u) # {}
    /\ active # <<>>
    /\ \E ids \in IdsByEmail :
          tick' = [pc |-> "query", ids |-> ids, todo |-> active, batch |-> {}]
    /\ UNCHANGED <<now, sub, row, drawn, toServe, overdue, disabled, faults,
                   counters, samples, baselineDone, owed, torn>>

\* What a server has counted for the users the tick knows; an unknown e-mail is
\* skipped.
Collected(s) ==
    {[user |-> u, row |-> tick.ids[u], server |-> s, bytes |-> counters[s][u]] :
        u \in {u \in Users : counters[s][u] > 0 /\ tick.ids[u] # 0}}

Server == Head(tick.todo)
Visited == tick' = [tick EXCEPT !.todo = Tail(@)]
Collect == tick' = [tick EXCEPT !.todo = Tail(@), !.batch = @ \cup Collected(Server)]
BrokenReset(s) == UNCHANGED counters
Reset(s) == counters' = [counters EXCEPT ![s] = Nobody]
HasTrafficSamples(s) == \E x \in samples : x[2] = s

\* One server: read and reset.  If nothing was ever stored of it, what it has
\* counted so far is dropped.
QueryAllUserStats ==
    /\ tick.todo # <<>>
    /\ Reset(Server)
    /\ baselineDone' = baselineDone \cup {Server}
    /\ IF Server \in baselineDone \/ HasTrafficSamples(Server)
       THEN Collect /\ UNCHANGED owed
       ELSE Visited /\ owed' = [u \in Users |-> owed[u] - counters[Server][u]]
    /\ UNCHANGED <<accessVars, samples, torn>>

\* The server does not answer, before or after it has reset its counters; or
\* the look for samples fails and the first tick is taken for any other.
QueryFails ==
    /\ tick.todo # <<>>
    /\ Fault
    /\ \/ Visited /\ (Reset(Server) \/ UNCHANGED counters)
       \/ Server \notin baselineDone /\ Reset(Server) /\ Collect
    /\ UNCHANGED <<now, sub, row, drawn, toServe, overdue, disabled, calls,
                   samples, baselineDone, owed, torn>>

Bytes(batch, u) ==
    MapThenSumSet(LAMBDA x : x.bytes, {x \in batch : x.user = u})

\* All samples or none, and none if the row of a single one has gone.
InsertTrafficSamplesBatch ==
    /\ tick.pc = "query" /\ tick.todo = <<>>
    /\ tick' = Idle
    /\ IF \A x \in tick.batch : \E i \in Subs : row[i] = x.row
       THEN /\ samples' = samples \cup {<<x.row, x.server>> : x \in tick.batch}
            /\ owed' = [u \in Users |-> owed[u] - Bytes(tick.batch, u)]
       ELSE UNCHANGED <<samples, owed>>
    /\ UNCHANGED <<accessVars, counters, baselineDone, torn>>

InsertFails ==
    /\ tick.pc = "query" /\ tick.todo = <<>>
    /\ Fault
    /\ tick' = Idle
    /\ UNCHANGED <<now, sub, row, drawn, toServe, overdue, disabled, calls,
                   counters, samples, baselineDone, owed, torn>>

\* The foreign keys: the samples of a deleted row go with it.
CascadeSamples == samples' = {x \in samples : \E i \in Subs : row'[i] = x[1]}
TearTick == torn' = (torn \/ (tick.pc # "idle" /\ row' # row))

AtXray(u) == MapThenSumSet(LAMBDA s : counters[s][u], Servers)
Missing(u) == owed[u] - AtXray(u) - Bytes(tick.batch, u)

TrafficTypeOK ==
    /\ counters \in [Servers -> [Users -> Nat]]
    /\ \A x \in samples : x[2] \in Servers /\ \E i \in Subs : row[i] = x[1]
    /\ tick \in [pc : {"idle", "query"}, ids : [Users -> Nat], todo : Seq(Servers),
                batch : SUBSET Sample]
    /\ tick.pc = "idle" => tick = Idle
    /\ \A x \in tick.batch : x.server \notin ToSet(tick.todo)
    /\ baselineDone \subseteq Servers /\ torn \in BOOLEAN

=============================================================================
