------------------------------- MODULE VpnUsage -------------------------------
(***************************************************************************)
(* Subscriptions, devices, links and traffic together: what the rows of    *)
(* vpn_users, which come and go with the subscriptions, do to the devices, *)
(* the samples and the configurations that depend on them.                 *)
(***************************************************************************)
EXTENDS Devices, Traffic

vars == <<accessVars, deviceVars, trafficVars>>

Init == AccessInit /\ DevicesInit /\ TrafficInit

\* Rows come and go under the devices, the samples and a tick.
Rows == /\ (\E i \in Subs : CreateVPNUser(i)) \/ (\E u \in Users : DisableVPNUser(u))
        /\ CascadeFetches /\ CascadeSamples /\ TearTick
        /\ UNCHANGED <<servers, req, counters, tick, baselineDone, owed>>

Subscriptions == /\ \/ Clock \/ ExpireOverdueSubscriptions \/ DisableFails
                    \/ \E i \in Subs : CancelSubscription(i) \/ \E m \in Plans : Purchase(i, m)
                 /\ UNCHANGED <<deviceVars, trafficVars>>

UseOfDevices ==
    /\ \/ \E h \in Requests :
             \/ \E i \in Subs, s \in Servers, d \in Devices : GenerateVLESSLink(h, i, s, d)
             \/ \E r \in 1 .. drawn, a \in Agents : GetSubscriptionConfig(h, r, a)
             \/ GetActiveConnections(h) \/ CheckLimit(h) \/ UpsertActiveConnection(h)
             \/ RegisterDeviceTouch(h) \/ TouchTimesOut(h)
       \/ \E f \in fetches : DisconnectDevice(f)
       \/ UpdateServerLoad
       \/ \E s \in Servers, k \in Kinds : EditServer(s, k)
    /\ UNCHANGED trafficVars

Active == LET list == ListServers IN [n \in DOMAIN list |-> list[n].id]

Counting ==
    /\ \/ StartTick(Active)
       \/ QueryAllUserStats \/ QueryFails
       \/ \E s \in Servers, u \in Users : UserTraffic(u, s)
       \/ InsertTrafficSamplesBatch \/ InsertFails
    /\ UNCHANGED deviceVars

\* vpn-service restarts: calls in progress end, TrafficCron forgets its tick
\* and its first ticks.  The touches are the gateway's.
Restart ==
    /\ Fault
    /\ req' = [h \in Requests |-> IF At(h, "touch") THEN req[h] ELSE NoCall]
    /\ tick' = Idle
    /\ baselineDone' = {}
    /\ UNCHANGED <<now, sub, row, drawn, toServe, overdue, disabled, calls,
                   servers, fetches, counters, samples, owed, torn>>

Next == Rows \/ Subscriptions \/ UseOfDevices \/ Counting \/ Restart

Spec == Init /\ [][Next]_vars

-----------------------------------------------------------------------------
(* Properties                                                              *)

\* The state of every table and of every process keeps its shape: no device and
\* no sample outlives its row, and a device is listed once per row.
TypeOK == AccessTypeOK /\ DevicesTypeOK /\ TrafficTypeOK

\* More devices than the plan allows are in use only if one of them got in by a
\* door without the limit: it was known from before, it used the subscription
\* link, another call was counting at the same time, or the plan was another.
OverLimitIsExplained ==
    \A i \in Subs :
       row[i] # 0 /\ CountActiveDevices(row[i]) > sub[i].max =>
          \E f \in FetchesOf(row[i]) : Fresh(f) /\ f.how # <<"new", sub[i].max>>

\* No byte is counted twice; and a byte of a user who always had his row is
\* lost only by a failure or because a row has come or gone during a tick.
LossHasACause ==
    \A u \in Users : /\ Missing(u) >= 0
                     /\ Missing(u) > 0 => faults > 0 \/ torn \/ u \in disabled

\* The list of explanations.  A running subscription for which the VPN has been
\* asked for has its row, unless it was paid for while ExpireCron was at its
\* user, or another subscription of the user has lapsed, with which all his rows
\* go.  A row whose subscription is over stays only while ExpireCron is still to
\* come to its user, after a failure, if it was made after the end, or if the
\* subscription was cancelled, which nobody tells vpn-service.
AccessFollowsSubscription ==
    \A i \in Subs :
       /\ Live(i) /\ i \notin toServe /\ row[i] = 0 =>
             \/ sub[i].raced
             \/ \E j \in SubsOf(UserOf[i]) \ {i} : sub[j].lapsed
       /\ row[i] # 0 /\ sub[i].status # "active" =>
             \/ UserOf[i] \in overdue \/ faults > 0 \/ sub[i].late
             \/ sub[i].status = "cancelled" /\ ~sub[i].lapsed

CompleteConfig(held) ==
    LET links == WriteBase64Format(held)
        configs == WriteJSONFormat(held)
        ids == {held[n].id : n \in DOMAIN held}
        of(id) == held[CHOOSE n \in DOMAIN held : held[n].id = id]
        leads(entry) == {o.server : o \in entry.outbounds}
        ordinary == {s \in {held[n] : n \in DOMAIN held} : s.priority = 0}
        pinned == {s \in ordinary : s.country = DefaultCountry /\ DefaultCountry # ""}
    IN  /\ DOMAIN links \subseteq DOMAIN configs
        /\ \A n \in DOMAIN links : /\ configs[n].remarks = links[n].remarks
                                   /\ leads(configs[n]) = {links[n].server}
        /\ \A n \in DOMAIN configs \ DOMAIN links :
              configs[n].remarks = Mode("auto") /\ leads(configs[n]) = ids
        /\ \A id \in ids : Cardinality({n \in DOMAIN links : links[n].remarks = Own(of(id))}) = 1
        /\ \A n \in DOMAIN links :
              LET s == of(links[n].server)
              IN  links[n].remarks # Own(s) =>
                     /\ ordinary # {} => s \in ordinary
                     /\ pinned # {} => s \in pinned
        /\ Len(configs) > Len(links) <=> Cardinality(ids) > 1
        /\ \A n \in DOMAIN configs : \A o \in configs[n].outbounds :
              ServerIsRussian(of(o.server)) => o.sid = 0
        /\ \A n \in DOMAIN configs :
              configs[n].dns = PlainDNS <=>
                 \E id \in ids : /\ configs[n].remarks = Own(of(id))
                                 /\ of(id).priority > 0 /\ ServerIsRussian(of(id))

\* A connection that no mode tunnels: bittorrent, and a bare local or Apple
\* address.
NeverTunnelled(c) == \/ c.protocol = "bittorrent"
                     \/ c.domain = "none" /\ c.net \in LocalIPNets \cup AppleIPNets

Tunnelled == [p \in DOMAIN Routes |-> {c \in Connections : Routes[p][c] # "direct"}]
Agreeing == {p \in DOMAIN Routes :
               /\ \A c \in Tunnelled[p] : ~NeverTunnelled(c)
               /\ Tunnelled[p] \subseteq Tunnelled["full"]
               /\ p = "auto" => Tunnelled[p] = Tunnelled["bypass"]}
TagsUsed == [p \in DOMAIN Routes |-> {Routes[p][c] : c \in Connections} \ {"direct"}]

\* Both formats of a client's configuration list the same servers under the
\* same names, each server once on its own, whatever its priority; the modes use
\* a server of priority 0, and of the gateway's country, when there is one; the
\* balanced entry is there from two servers on; and a server in disguise shows
\* no short id and is asked for names in the clear where it splits the tunnel.
ConfigIsComplete ==
    \A h \in Requests : At(h, "touch") => CompleteConfig(req[h].given)

\* The entries of one configuration agree, whatever its servers.  A connection
\* goes somewhere that exists; the balanced entry tunnels exactly what the mode
\* bypass does, built elsewhere; the mode full tunnels whatever another does; and
\* none tunnels bittorrent or a bare local or Apple address.  That these addresses
\* are direct under a domain too is what subscription_config.go:678-684 and
\* subscription_routing.go:17-28 say ("always", "in all profiles"), and not so:
\* see Matches.
RoutesAgree ==
    \A h \in Requests : At(h, "touch") =>
       LET configs == WriteJSONFormat(req[h].given)
       IN  \A n \in DOMAIN configs :
              /\ configs[n].profile \in Agreeing
              /\ \A tag \in TagsUsed[configs[n].profile] : Leads(configs[n], tag) # {}

=============================================================================
