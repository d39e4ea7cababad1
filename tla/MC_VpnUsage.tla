----------------------------- MODULE MC_VpnUsage ------------------------------
(***************************************************************************)
(* Constants of the TLC run over VpnUsage: two servers that start alike,    *)
(* and what an administrator may make of each.                             *)
(***************************************************************************)
EXTENDS VpnUsage, TLC

CONSTANTS u1, u2

MCUsers == {u1, u2}
MCUserOf == <<u1, u1, u2>>
MCServers == {1, 2}
MCKind(p, c, names, on) == [priority |-> p, country |-> c, names |-> names, active |-> on,
                            load |-> 0]
MCNewServer == MCKind(0, "NL", {"abroad"}, TRUE)
MCKinds == {MCKind(0, "DE", {"abroad"}, TRUE), MCKind(1, "RU", {"ru"}, TRUE),
            MCKind(-1, "RU", {"ru"}, FALSE)}
MCAgents == {[client |-> "happ", os |-> "ios", version |-> v] : v \in {1}}

\* Devices and requests are interchangeable; servers are not, their names order
\* the list, nor are users, one of whom has two subscriptions.
Symmetry == Permutations(Devices) \cup Permutations(Requests)

=============================================================================
