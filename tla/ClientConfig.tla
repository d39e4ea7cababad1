----------------------------- MODULE ClientConfig -----------------------------
(***************************************************************************)
(* gateway: what a subscription link returns to a VPN client.              *)
(*                                                                         *)
(* The active servers, in the order of the query, become a list of entries *)
(* that the client shows: three modes on a default server, every server on *)
(* its own, and, in the JSON format, one entry that balances over all of   *)
(* them.  The base64 format is a list of links, the JSON format a list of  *)
(* whole Xray configurations with DNS and routing rules.                   *)
(*                                                                         *)
(* A server is [id, priority, country, names]; names is its pool of SNIs,  *)
(* of which only whether one is Russian matters.                           *)
(***************************************************************************)
EXTENDS Integers, Sequences, FiniteSets

CONSTANT DefaultCountry \* of the gateway's configuration; "" is none

-----------------------------------------------------------------------------
(* The order of the servers                                                *)

\* The numbers in I by ascending key, those of one key by themselves.
InOrder(I, key) ==
    LET before(j, i) == \/ key[j] < key[i]
                        \/ key[j] = key[i] /\ j < i
        rank(i) == Cardinality({j \in I : before(j, i)}) + 1
    IN  [n \in 1 .. Cardinality(I) |-> CHOOSE i \in I : rank(i) = n]

\* sort.SliceStable of the servers at the places I.
SliceStable(servers, I, key) ==
    LET order == InOrder(I, key)
    IN  [n \in DOMAIN order |-> servers[order[n]]]

\* splitByPriority: the priority block, the smaller the higher ...
PriorityServers(servers) ==
    LET block == {i \in DOMAIN servers : servers[i].priority > 0}
    IN  SliceStable(servers, block, [i \in block |-> servers[i].priority])

\* ... and the others, those of negative priority last.
NormalServers(servers) ==
    LET block == {i \in DOMAIN servers : servers[i].priority <= 0}
    IN  SliceStable(servers, block, [i \in block |-> -servers[i].priority])

First(servers, I) == servers[CHOOSE i \in I : \A j \in I : i <= j]

BrokenPickDefaultServer(servers) ==
    LET pinned == {i \in DOMAIN servers : servers[i].country = DefaultCountry}
    IN  IF pinned # {} THEN First(servers, pinned) ELSE Head(servers)

\* Only a server of priority 0 is a default, if there is one.
PickDefaultServer(servers) ==
    LET normal == {i \in DOMAIN servers : servers[i].priority = 0}
        pinned == {i \in normal : servers[i].country = DefaultCountry}
    IN  IF DefaultCountry # "" /\ pinned # {} THEN First(servers, pinned)
        ELSE IF normal # {} THEN First(servers, normal)
        ELSE Head(servers)

-----------------------------------------------------------------------------
(* One entry                                                               *)

ServerIsRussian(s) == "ru" \in s.names

\* A server in disguise shows no short id of its own; 0 is none.
ClientShortID(s) == IF ServerIsRussian(s) THEN 0 ELSE s.id

BuildDNS(profile) == IF profile = "youtube" THEN "adguard DoH" ELSE "cloudflare DoH"
PlainDNS == "plain UDP"

\* An outbound of an entry: its tag, proxy or proxy-n, the server it leads to,
\* the short id shown.
Outbound(n, s) == [tag |-> <<"proxy", n>>, server |-> s.id, sid |-> ClientShortID(s)]

\* What the client shows of an entry: its mode or, of a server's own, the server.
Mode(m) == <<m, 0>>
Own(s) == <<"server", s.id>>

\* buildXrayConfig with the remarks of a mode or of a server.
BuildXrayConfig(remarks, s, profile) ==
    [remarks |-> remarks, dns |-> BuildDNS(profile), profile |-> profile,
     outbounds |-> {Outbound(0, s)}]

\* The rules of bypass, with a balancer over all the servers.
BuildAutoXrayConfig(servers) ==
    [remarks |-> Mode("auto"), dns |-> BuildDNS("bypass"), profile |-> "auto",
     outbounds |-> {Outbound(i, servers[i]) : i \in DOMAIN servers}]

\* A priority server splits the tunnel, and asks in the clear if DoH could not
\* get through where it is meant to be used.
PriorityConfig(s) ==
    LET c == BuildXrayConfig(Own(s), s, "bypass")
    IN  IF ServerIsRussian(s) THEN [c EXCEPT !.dns = PlainDNS] ELSE c

-----------------------------------------------------------------------------
(* The two formats                                                         *)

BuildVLESSLink(remarks, s) ==
    [remarks |-> remarks, server |-> s.id, sid |-> ClientShortID(s)]

WriteBase64Format(servers) ==
    LET own(list) == [i \in DOMAIN list |-> BuildVLESSLink(Own(list[i]), list[i])]
        mode(m) == IF servers = <<>> THEN <<>>
                   ELSE <<BuildVLESSLink(Mode(m), PickDefaultServer(servers))>>
    IN  mode("full") \o own(PriorityServers(servers))
        \o mode("bypass") \o mode("youtube") \o own(NormalServers(servers))

WriteJSONFormat(servers) ==
    LET split(list) == [i \in DOMAIN list |-> PriorityConfig(list[i])]
        full(list) == [i \in DOMAIN list |-> BuildXrayConfig(Own(list[i]), list[i], "full")]
        mode(m) == IF servers = <<>> THEN <<>>
                   ELSE <<BuildXrayConfig(Mode(m), PickDefaultServer(servers), m)>>
    IN  mode("full") \o split(PriorityServers(servers))
        \o mode("bypass") \o mode("youtube") \o full(NormalServers(servers))
        \o (IF Len(servers) >= 2 THEN <<BuildAutoXrayConfig(servers)>> ELSE <<>>)

-----------------------------------------------------------------------------
(* Routing inside the client                                               *)

\* The lists of subscription_routing.go, each by the class it stands for.  The
\* Russian domains include Apple's.
LocalIPNets == {"local"}
AppleIPNets == {"apple"}
RuDirectIPNets == {"ru"}
RuDirectDomains == {"ru", "apple"}
YoutubeProxyDomains == {"youtube"}

\* A connection: to a network, under a domain if the client or the sniffer
\* knows one, of the web or of bittorrent.
Connections == [net : {"local", "apple", "ru", "other"},
                domain : {"none", "ru", "apple", "youtube", "other"},
                protocol : {"web", "bittorrent"}]

Rule == [nets |-> {}, domains |-> {}, protocols |-> {}, all |-> FALSE, to |-> "direct"]
DirectNets(n) == [Rule EXCEPT !.nets = n]
DirectDomains(d) == [Rule EXCEPT !.domains = d]
Everything(tag) == [Rule EXCEPT !.all = TRUE, !.to = tag]

CommonRules == <<DirectNets(LocalIPNets), DirectNets(AppleIPNets),
                 [Rule EXCEPT !.protocols = {"bittorrent"}]>>
RuRules == <<DirectDomains(RuDirectDomains), DirectNets(RuDirectIPNets)>>

BuildRouting(profile) ==
    CommonRules \o
    CASE profile = "bypass"  -> Append(RuRules, Everything("proxy"))
      [] profile = "full"    -> <<Everything("proxy")>>
      [] profile = "youtube" -> <<[Rule EXCEPT !.domains = YoutubeProxyDomains, !.to = "proxy"]>>
                                \o Append(RuRules, Everything("direct"))

BrokenBuildAutoRouting == CommonRules \o Append(Tail(RuRules), Everything("Auto_Balancer"))

BuildAutoRouting == CommonRules \o Append(RuRules, Everything("Auto_Balancer"))

RulesOf(profile) == IF profile = "auto" THEN BuildAutoRouting ELSE BuildRouting(profile)

\* Xray takes the first rule that matches.  With IPIfNonMatch the networks are
\* compared with the address of a connection under a domain only when no rule
\* has matched without, and the last rule always does.
Matches(rule, c) == \/ rule.all
                    \/ c.domain \in rule.domains
                    \/ c.protocol \in rule.protocols
                    \/ c.domain = "none" /\ c.net \in rule.nets

Route(profile, c) ==
    LET rules == RulesOf(profile)
        hits == {i \in DOMAIN rules : Matches(rules[i], c)}
    IN  rules[CHOOSE i \in hits : \A j \in hits : i <= j].to

Routes == [p \in {"full", "bypass", "youtube", "auto"} |-> [c \in Connections |-> Route(p, c)]]

\* Where a tag leads: an outbound, all those the balancer chooses from, or out.
Leads(entry, tag) ==
    IF tag = "Auto_Balancer" THEN {o \in entry.outbounds : o.tag[1] = "proxy"}
    ELSE {o \in entry.outbounds : o.tag = <<tag, 0>>}

=============================================================================
