---------------------------- MODULE VpnUsage_proofs ----------------------------
(***************************************************************************)
(* Theorems about VpnUsage, for any users, plans, servers, devices, calls  *)
(* in progress and numbers of failures.                                    *)
(*                                                                         *)
(* A row of vpn_users dies under the devices, the samples and the calls    *)
(* that know it.  What depends on a row goes with it; a call in progress   *)
(* looks again.  The limit of devices is the work of one count: what it    *)
(* admits is never more than the limit, whatever came in by other doors.   *)
(* What a client is given is a fixed text around two blocks; a stable sort *)
(* is a total order, so the blocks take every server once between them.    *)
(***************************************************************************)
EXTENDS VpnUsage, FiniteSetTheorems, SequenceTheorems, TLAPS

-----------------------------------------------------------------------------
(* Order.                                                                    *)

\* A list that has every member of I once.
Lists(o, I) == /\ o \in Seq(I)
               /\ \A i \in I : \E n \in DOMAIN o : o[n] = i
               /\ \A m, n \in DOMAIN o : o[m] = o[n] => m = n

Rank(I, key, i) == Cardinality({j \in I : \/ key[j] < key[i]
                                          \/ key[j] = key[i] /\ j < i}) + 1

\* The order is total, so every place is one member's.
LEMMA Ranks ==
    ASSUME NEW I \in SUBSET Nat, IsFiniteSet(I), NEW key \in [I -> Int]
    PROVE  /\ \A i \in I : Rank(I, key, i) \in 1 .. Cardinality(I)
           /\ \A i, j \in I : Rank(I, key, i) = Rank(I, key, j) => i = j
           /\ \A n \in 1 .. Cardinality(I) : \E i \in I : Rank(I, key, i) = n
<1> DEFINE Before(j, i) == key[j] < key[i] \/ (key[j] = key[i] /\ j < i)
           Less(i) == {j \in I : Before(j, i)}
<1>1. Cardinality(I) \in Nat
  BY FS_CardinalityType
<1>2. \A i \in I : i \in Nat /\ key[i] \in Int
  OBVIOUS
<1>3. \A i \in I : /\ Less(i) \subseteq I /\ i \notin Less(i)
                   /\ IsFiniteSet(Less(i)) /\ Cardinality(Less(i)) \in Nat
  BY <1>2, FS_Subset, FS_CardinalityType
<1>r. \A i : Rank(I, key, i) = Cardinality(Less(i)) + 1
  BY DEF Rank
<1>4. \A i, j \in I : i # j => Before(i, j) \/ Before(j, i)
  BY <1>2
<1>5. \A i, j, k \in I : Before(i, j) /\ Before(j, k) => Before(i, k)
  BY <1>2
<1>6. \A i, j \in I : j \in Less(i) <=> Before(j, i)
  OBVIOUS
<1> HIDE DEF Less, Before
<1>7. ASSUME NEW i \in I PROVE Rank(I, key, i) \in 1 .. Cardinality(I)
  <2>1. Less(i) \subseteq I /\ Less(i) # I
    BY <1>3
  <2>2. Cardinality(Less(i)) <= Cardinality(I) /\ Cardinality(Less(i)) # Cardinality(I)
    BY <2>1, FS_Subset
  <2> QED
    BY <1>1, <1>3, <1>r, <2>2
<1>8. ASSUME NEW i \in I, NEW j \in I, Before(i, j)
      PROVE  Rank(I, key, i) < Rank(I, key, j)
  <2>1. Less(i) \subseteq Less(j) /\ i \in Less(j) /\ i \notin Less(i)
    BY <1>3, <1>5, <1>6, <1>8
  <2>2. Cardinality(Less(i)) <= Cardinality(Less(j)) /\ Cardinality(Less(i)) # Cardinality(Less(j))
    BY <1>3, <2>1, FS_Subset
  <2> QED
    BY <1>3, <1>r, <2>2
<1>9. \A i, j \in I : Rank(I, key, i) = Rank(I, key, j) => i = j
  <2> SUFFICES ASSUME NEW i \in I, NEW j \in I, Rank(I, key, i) = Rank(I, key, j), i # j
               PROVE  FALSE
    OBVIOUS
  <2>1. Rank(I, key, i) \in Nat /\ Rank(I, key, j) \in Nat
    BY <1>1, <1>7
  <2> QED
    BY <1>4, <1>8, <2>1
<1> DEFINE places == 1 .. Cardinality(I)
           rank == [i \in I |-> Rank(I, key, i)]
<1>10. rank \in Injection(I, places)
  BY <1>7, <1>9 DEF Injection, IsInjective
<1>11. IsFiniteSet(places) /\ Cardinality(places) = Cardinality(I)
  <2>1. Cardinality(I) \in Int /\ 1 \in Int
    BY <1>1
  <2>2. /\ IsFiniteSet(places)
        /\ Cardinality(places) = IF 1 > Cardinality(I) THEN 0 ELSE Cardinality(I) - 1 + 1
    BY <2>1, FS_Interval
  <2> QED
    BY <2>2, <1>1
<1>12. rank \in Surjection(I, places)
  BY <1>10, <1>11, FS_Injection
<1>13. \A n \in places : \E i \in I : Rank(I, key, i) = n
  BY <1>12 DEF Surjection
<1> QED
  BY <1>7, <1>9, <1>13

LEMMA OrderFacts ==
    ASSUME NEW I \in SUBSET Nat, IsFiniteSet(I), NEW key \in [I -> Int]
    PROVE  Lists(InOrder(I, key), I)
<1> DEFINE at(n) == CHOOSE i \in I : Rank(I, key, i) = n
<1>1. PICK k \in Nat : k = Cardinality(I)
  BY FS_CardinalityType
<1>2. InOrder(I, key) = [n \in 1 .. k |-> at(n)]
  BY <1>1 DEF InOrder, Rank
<1>3. \A n \in 1 .. k : at(n) \in I /\ Rank(I, key, at(n)) = n
  BY <1>1, Ranks
<1>4. \A i \in I : Rank(I, key, i) \in 1 .. k /\ at(Rank(I, key, i)) = i
  BY <1>1, <1>3, Ranks
<1> HIDE DEF at
<1>5. InOrder(I, key) \in [1 .. k -> I]
  BY <1>2, <1>3
<1>6. \A i \in I : \E n \in 1 .. k : InOrder(I, key)[n] = i
  BY <1>2, <1>4
<1>7. \A m, n \in 1 .. k : InOrder(I, key)[m] = InOrder(I, key)[n] => m = n
  BY <1>2, <1>3
<1> QED
  BY <1>5, <1>6, <1>7, SeqDef DEF Lists

\* ListServers(active_only) has every active server once.
LEMMA ListFacts ==
    ASSUME servers \in [Servers -> ServerRow]
    PROVE  /\ ListServers \in Seq(PbServers) /\ Active \in Seq(Servers)
           /\ \A i, j \in DOMAIN Active : Active[i] = Active[j] => i = j
           /\ \A i, j \in DOMAIN ListServers : ListServers[i].id = ListServers[j].id => i = j
<1> DEFINE On == {s \in Servers : servers[s].active}
<1>1. PICK order : /\ order = InOrder(On, [s \in On |-> servers[s].load])
                   /\ Lists(order, On)
  <2>1. On \in SUBSET Nat /\ IsFiniteSet(On)
    BY AccessAssumption, FS_Subset
  <2>2. [s \in On |-> servers[s].load] \in [On -> Int]
    BY DEF ServerRow
  <2> HIDE DEF On
  <2> QED
    BY <2>1, <2>2, OrderFacts
<1>2. PICK k \in Nat : order \in [1 .. k -> On]
  <2>1. order \in Seq(On)
    BY <1>1 DEF Lists
  <2>2. order \in [1 .. Len(order) -> On] /\ Len(order) \in Nat
    BY <2>1, LenProperties
  <2> QED
    BY <2>2
<1>3. ListServers = [n \in 1 .. k |-> PbServer(order[n])]
  BY <1>1, <1>2 DEF ListServers
<1>4. \A s \in On : PbServer(s) \in PbServers /\ PbServer(s).id = s /\ s \in Servers
  BY DEF PbServer, PbServers, ServerRow
<1>5. ListServers \in [1 .. k -> PbServers]
  BY <1>2, <1>3, <1>4
<1>6. Active = order /\ Active \in [1 .. k -> Servers]
  BY <1>2, <1>3, <1>4 DEF Active
<1>7. \A i, j \in 1 .. k : order[i] = order[j] => i = j
  BY <1>1, <1>2 DEF Lists
<1>8. \A i, j \in 1 .. k : ListServers[i].id = ListServers[j].id => i = j
  BY <1>2, <1>3, <1>4, <1>7
<1> QED
  BY <1>5, <1>6, <1>7, <1>8, SeqDef

-----------------------------------------------------------------------------
(* The invariant.                                                            *)

\* ExpireCron is at a user, or has been, for a subscription of his that has
\* lapsed or been paid for since: so one that runs has lost its row, or may lose
\* it, only if it was paid for like that or beside another.
Excused(i) == \/ sub[i].raced
              \/ \E j \in SubsOf(UserOf[i]) \ {i} : sub[j].lapsed

Followed ==
    \A i \in Subs :
       /\ sub[i].lapsed => sub[i].status # "active" /\ sub[i].until < now
       /\ Live(i) /\ UserOf[i] \in overdue => Excused(i)
       /\ Live(i) /\ i \notin toServe /\ row[i] = 0 => Excused(i)

\* What is left of a subscription that is over.
Leftover(i) == row[i] # 0 /\ sub[i].status # "active" =>
                  \/ UserOf[i] \in overdue \/ faults > 0 \/ sub[i].late
                  \/ sub[i].status = "cancelled" /\ ~sub[i].lapsed
Remains == \A i \in Subs : Leftover(i)

\* A call that may record a new device counted fewer than its limit.
Counted == \A h \in Requests : At(h, "upsert") /\ req[h].how = "new" => req[h].seen < req[h].max

\* The devices in use that a count let in at limit m; they never exceed it.
FreshOf(r) == {f \in FetchesOf(r) : Fresh(f)}
LetIn(r, m) == {f \in FreshOf(r) : f.how = <<"new", m>>}
Limited == \A r \in Nat, m \in Plans : Cardinality(LetIn(r, m)) <= m

\* A tick visits a server once.
ListedOnce == \A i, j \in DOMAIN tick.todo : tick.todo[i] = tick.todo[j] => i = j

AInv == AccessTypeOK /\ Followed /\ Remains
DInv == DevicesTypeOK /\ Counted /\ Limited
TInv == TrafficTypeOK /\ ListedOnce

IInv == AInv /\ DInv /\ TInv

-----------------------------------------------------------------------------
(* Subscriptions and rows.                                                   *)

LEMMA UserFacts ==
    /\ IsFiniteSet(Subs) /\ Subs \subseteq Nat \ {0}
    /\ \A i \in Subs : UserOf[i] \in Users /\ i \in SubsOf(UserOf[i])
    /\ \A u : SubsOf(u) \subseteq Subs
<1>1. Subs = 1 .. Len(UserOf) /\ Len(UserOf) \in Nat
  BY AccessAssumption, LenProperties DEF Subs
<1>2. IsFiniteSet(Subs)
  BY <1>1, FS_Interval
<1>3. \A i \in Subs : UserOf[i] \in Users
  BY <1>1, AccessAssumption, ElementOfSeq
<1> QED
  BY <1>1, <1>2, <1>3 DEF SubsOf

\* What the other steps do: time, subscriptions, rows and lists stay.
LEMMA AccessAside ==
    ASSUME AInv, UNCHANGED <<now, sub, row, drawn, toServe, overdue, disabled>>,
           calls' = calls \/ Call, faults' = faults \/ Fault
    PROVE  AInv'
<1>1. AccessTypeOK'
  BY AccessBounds DEF AInv, AccessTypeOK, Call, Fault
<1>2. faults' >= faults /\ faults \in Nat /\ faults' \in Nat
  BY AccessBounds DEF AInv, AccessTypeOK, Fault
<1> QED
  BY <1>1, <1>2 DEF AInv, Followed, Remains, Leftover, Excused, Live

LEMMA SubFacts ==
    ASSUME AccessTypeOK, NEW i \in Subs
    PROVE  /\ sub[i] \in Subscription /\ sub[i].status \in {"active", "expired", "cancelled"}
           /\ sub[i].until \in Nat /\ sub[i].max \in Plans /\ sub[i].lapsed \in BOOLEAN
           /\ sub[i].raced \in BOOLEAN /\ sub[i].late \in BOOLEAN
           /\ row[i] \in 0 .. drawn /\ row[i] \in Nat /\ drawn \in Nat /\ now \in Nat
BY AccessBounds DEF AccessTypeOK, Subscription

\* One subscription is written; nobody comes on ExpireCron's list.
LEMMA WriteStep ==
    ASSUME AInv, NEW i \in Subs, NEW s \in Subscription,
           sub' = [sub EXCEPT ![i] = s],
           UNCHANGED <<now, row, drawn, overdue, disabled, faults>>,
           toServe' = toServe \/ toServe' = toServe \cup {i},
           calls' = calls \/ Call
    PROVE  /\ AccessTypeOK'
           /\ sub'[i] = s /\ \A j \in Subs \ {i} : sub'[j] = sub[j] /\ Live(j)' = Live(j)
<1>1. AccessTypeOK' /\ sub'[i] = s /\ \A j \in Subs \ {i} : sub'[j] = sub[j]
  BY AccessBounds DEF AInv, AccessTypeOK, Call
<1> QED
  BY <1>1 DEF Live

LEMMA ClockStep ==
    ASSUME AInv, Clock
    PROVE  AInv'
<1>1. AccessTypeOK'
  BY AccessBounds DEF AInv, AccessTypeOK, Clock
<1>2. \A i \in Subs : (Live(i)' => Live(i)) /\ (sub[i].until < now => sub[i].until < now')
  BY SubFacts DEF AInv, Clock, Live
<1> QED
  BY <1>1, <1>2 DEF AInv, Followed, Remains, Leftover, Excused, Clock

\* A subscription that has lapsed ends before any other that runs, so it is not
\* the one a purchase takes.
LEMMA PurchaseStep ==
    ASSUME AInv, NEW i \in Subs, NEW m \in Plans, Purchase(i, m)
    PROVE  AInv'
<1>0. AccessTypeOK /\ now \in Nat
  BY SubFacts DEF AInv
<1>1. PICK from \in Nat : from = IF Live(i) THEN sub[i].until ELSE now
  BY <1>0, SubFacts
<1>2. PICK s \in Subscription : /\ sub' = [sub EXCEPT ![i] = s] /\ s.status = "active" /\ ~s.lapsed
                                /\ s.raced = (UserOf[i] \in overdue)
  <2> DEFINE s == [status |-> "active", until |-> from + PlanTime, max |-> m, lapsed |-> FALSE,
                   raced |-> UserOf[i] \in overdue, late |-> FALSE]
  <2>1. from + PlanTime \in Nat
    BY AccessAssumption
  <2>2. s \in Subscription
    BY <2>1 DEF Subscription
  <2>3. sub' = [sub EXCEPT ![i] = s]
    BY <1>1 DEF Purchase
  <2> QED
    BY <2>2, <2>3
<1>3. /\ UNCHANGED <<now, row, drawn, overdue, disabled, faults>>
      /\ toServe' = toServe \cup {i} /\ Call
      /\ \A j \in SubsOf(UserOf[i]) : sub[j].until <= sub[i].until
  BY DEF Purchase
<1>4. AccessTypeOK' /\ sub'[i] = s /\ \A j \in Subs \ {i} : sub'[j] = sub[j] /\ Live(j)' = Live(j)
  BY <1>2, <1>3, WriteStep
<1>5. ASSUME NEW j \in Subs \ {i}, Live(j), Excused(j) PROVE Excused(j)'
  <2>1. CASE sub[j].raced
    BY <1>4, <2>1 DEF Excused
  <2>2. ASSUME NEW k \in SubsOf(UserOf[j]) \ {j}, sub[k].lapsed PROVE Excused(j)'
    <3>1. k \in Subs /\ sub[k].until < now
      BY <2>2, UserFacts DEF AInv, Followed
    <3>2. k # i
      <4> SUFFICES ASSUME k = i PROVE FALSE
        OBVIOUS
      <4>1. j \in SubsOf(UserOf[i])
        BY <2>2 DEF SubsOf
      <4>2. sub[j].until <= sub[i].until /\ sub[j].until > now /\ sub[i].until < now
        BY <1>3, <1>5, <3>1, <4>1 DEF Live
      <4> QED
        BY <1>0, <4>2, SubFacts
    <3>3. sub'[k].lapsed
      BY <1>4, <2>2, <3>1, <3>2
    <3> QED
      BY <2>2, <3>3 DEF Excused
  <2> QED
    BY <1>5, <2>1, <2>2 DEF Excused
<1>6. ASSUME NEW j \in Subs
      PROVE  /\ sub'[j].lapsed => sub'[j].status # "active" /\ sub'[j].until < now'
             /\ Live(j)' /\ UserOf[j] \in overdue' => Excused(j)'
             /\ Live(j)' /\ j \notin toServe' /\ row'[j] = 0 => Excused(j)'
             /\ Leftover(j)'
  <2>1. CASE j = i
    BY <1>2, <1>3, <1>4, <2>1 DEF Excused, Leftover
  <2>2. CASE j # i
    BY <1>3, <1>4, <1>5, <2>2 DEF AInv, Followed, Remains, Leftover
  <2> QED
    BY <2>1, <2>2
<1> QED
  BY <1>4, <1>6 DEF AInv, Followed, Remains

LEMMA CancelStep ==
    ASSUME AInv, NEW i \in Subs, CancelSubscription(i)
    PROVE  AInv'
<1>0. AccessTypeOK
  BY DEF AInv
<1>1. PICK s \in Subscription : /\ sub' = [sub EXCEPT ![i] = s] /\ s.status = "cancelled"
                                /\ s.lapsed = sub[i].lapsed /\ s.raced = sub[i].raced
                                /\ s.late = sub[i].late /\ s.until = sub[i].until
  <2> DEFINE s == [sub[i] EXCEPT !.status = "cancelled"]
  <2>1. /\ s \in Subscription /\ s.status = "cancelled" /\ s.lapsed = sub[i].lapsed
        /\ s.raced = sub[i].raced /\ s.late = sub[i].late /\ s.until = sub[i].until
    BY <1>0, SubFacts DEF Subscription
  <2>2. sub' = [sub EXCEPT ![i] = s]
    BY <1>0 DEF CancelSubscription, AccessTypeOK
  <2> QED
    BY <2>1, <2>2
<1>2. /\ UNCHANGED <<now, row, drawn, overdue, disabled, faults, toServe>> /\ Call
  BY DEF CancelSubscription
<1>3. AccessTypeOK' /\ sub'[i] = s /\ \A j \in Subs \ {i} : sub'[j] = sub[j] /\ Live(j)' = Live(j)
  BY <1>1, <1>2, WriteStep
<1>4. ~Live(i)'
  BY <1>1, <1>3 DEF Live
<1>5. \A j \in Subs : sub'[j].lapsed = sub[j].lapsed /\ sub'[j].raced = sub[j].raced
  BY <1>1, <1>3
<1>6. \A j \in Subs : Excused(j) => Excused(j)'
  BY <1>5, UserFacts DEF Excused
<1>7. Followed'
  BY <1>1, <1>2, <1>3, <1>4, <1>6 DEF AInv, Followed
<1>8. ASSUME NEW j \in Subs PROVE Leftover(j)'
  <2>1. CASE j = i
    BY <1>1, <1>2, <1>3, <2>1 DEF AInv, Followed, Remains, Leftover
  <2>2. CASE j # i
    BY <1>2, <1>3, <2>2 DEF AInv, Remains, Leftover
  <2> QED
    BY <2>1, <2>2
<1> QED
  BY <1>3, <1>7, <1>8 DEF AInv, Remains

LEMMA CreateRowStep ==
    ASSUME AInv, NEW i \in Subs, CreateVPNUser(i)
    PROVE  AInv'
<1>0. AccessTypeOK /\ drawn \in Nat
  BY SubFacts DEF AInv
<1>1. /\ i \in toServe /\ toServe' = toServe \ {i} /\ now' = now
      /\ overdue' = overdue /\ disabled' = disabled /\ faults' = faults /\ calls' = calls
      /\ \/ row[i] # 0 /\ row' = row /\ drawn' = drawn
         \/ row[i] = 0 /\ row' = [row EXCEPT ![i] = drawn + 1] /\ drawn' = drawn + 1
  BY DEF CreateVPNUser
<1> DEFINE s == [sub[i] EXCEPT !.late = (sub[i].status # "active")]
<1>2. /\ s \in Subscription /\ s.status = sub[i].status /\ s.raced = sub[i].raced
      /\ s.late = (sub[i].status # "active") /\ s.until = sub[i].until /\ s.lapsed = sub[i].lapsed
  BY <1>0, SubFacts DEF Subscription
<1>3. sub' = [sub EXCEPT ![i] = s]
  BY <1>0 DEF CreateVPNUser, AccessTypeOK
<1> HIDE DEF s
<1>4. sub' \in [Subs -> Subscription] /\ sub'[i] = s /\ \A j \in Subs \ {i} : sub'[j] = sub[j]
  BY <1>0, <1>2, <1>3 DEF AccessTypeOK
<1>5. /\ drawn' \in Nat /\ row' \in [Subs -> 0 .. drawn'] /\ row'[i] # 0
      /\ \A j \in Subs \ {i} : row'[j] = row[j]
      /\ row'[i] = row[i] \/ row'[i] = drawn + 1
  BY <1>0, <1>1, AccessAssumption DEF AccessTypeOK
<1>6. \A j, k \in Subs : row'[j] = row'[k] => j = k \/ row'[j] = 0
  <2> SUFFICES ASSUME NEW j \in Subs, NEW k \in Subs, row'[j] = row'[k], j # k, row'[j] # 0 PROVE FALSE
    OBVIOUS
  <2>1. \A x \in Subs : row[x] \in 0 .. drawn
    BY <1>0, SubFacts
  <2>2. row[j] = row[k] => row[j] = 0
    BY <1>0 DEF AccessTypeOK
  <2> QED
    BY <1>0, <1>1, <1>5, <2>1, <2>2
<1>7. AccessTypeOK'
  BY <1>0, <1>1, <1>4, <1>5, <1>6 DEF AccessTypeOK
<1>8. \A j \in Subs : /\ sub'[j].lapsed = sub[j].lapsed /\ sub'[j].raced = sub[j].raced
                      /\ sub'[j].status = sub[j].status /\ sub'[j].until = sub[j].until
  BY <1>2, <1>4
<1>9. \A j \in Subs : Live(j)' = Live(j) /\ (Excused(j) => Excused(j)')
  BY <1>1, <1>8, UserFacts DEF Excused, Live
<1>10. Followed'
  BY <1>1, <1>5, <1>8, <1>9 DEF AInv, Followed
<1>11. ASSUME NEW j \in Subs PROVE Leftover(j)'
  <2>1. CASE j = i
    BY <1>1, <1>2, <1>4, <2>1 DEF Leftover
  <2>2. CASE j # i
    BY <1>1, <1>4, <1>5, <2>2 DEF AInv, Remains, Leftover
  <2> QED
    BY <2>1, <2>2
<1> QED
  BY <1>7, <1>10, <1>11 DEF AInv, Remains

LEMMA ExpireStep ==
    ASSUME AInv, ExpireOverdueSubscriptions
    PROVE  AInv'
<1>0. AccessTypeOK
  BY DEF AInv
<1>1. /\ overdue = {} /\ overdue' = {UserOf[i] : i \in Overdue} /\ Overdue \subseteq Subs
      /\ now' = now /\ row' = row /\ drawn' = drawn /\ toServe' = toServe /\ disabled' = disabled
      /\ calls' = calls /\ faults' = faults
  BY DEF ExpireOverdueSubscriptions, Overdue
<1>2. \A i \in Subs : LET s == [sub[i] EXCEPT !.status = "expired", !.lapsed = TRUE]
                      IN  s \in Subscription /\ s.status = "expired" /\ s.lapsed /\ s.until = sub[i].until
  BY <1>0, SubFacts DEF Subscription
<1>3. \A i \in Subs : sub'[i] = IF i \in Overdue THEN [sub[i] EXCEPT !.status = "expired", !.lapsed = TRUE]
                                ELSE sub[i]
  BY DEF ExpireOverdueSubscriptions, Expire
<1>4. sub' \in [Subs -> Subscription]
  <2>1. \A i \in Subs : sub[i] \in Subscription
    BY <1>0, SubFacts
  <2> QED
    BY <1>2, <2>1 DEF ExpireOverdueSubscriptions, Expire
<1>5. overdue' \subseteq Users
  BY <1>1, UserFacts
<1>6. AccessTypeOK'
  BY <1>0, <1>1, <1>4, <1>5 DEF AccessTypeOK
<1>7. \A i \in Overdue : /\ sub'[i].status = "expired" /\ sub'[i].lapsed /\ sub'[i].until < now
                         /\ UserOf[i] \in overdue' /\ ~Live(i)'
  BY <1>1, <1>2, <1>3 DEF Overdue, Live
<1>8. \A i \in Subs \ Overdue : sub'[i] = sub[i] /\ Live(i)' = Live(i)
  BY <1>1, <1>3 DEF Live
<1>9. \A i \in Subs \ Overdue : Excused(i) => Excused(i)'
  BY <1>1, <1>7, <1>8, UserFacts DEF Excused
<1>10. ASSUME NEW i \in Subs \ Overdue, UserOf[i] \in overdue' PROVE Excused(i)'
  <2>1. PICK j \in Overdue : UserOf[j] = UserOf[i]
    BY <1>1, <1>10
  <2>2. j \in SubsOf(UserOf[i]) \ {i} /\ sub'[j].lapsed
    BY <1>1, <1>7, <1>10, <2>1 DEF SubsOf
  <2> QED
    BY <2>2 DEF Excused
<1>11. Followed'
  BY <1>1, <1>7, <1>8, <1>9, <1>10 DEF AInv, Followed
<1>12. Remains'
  BY <1>1, <1>7, <1>8 DEF AInv, Remains, Leftover
<1> QED
  BY <1>6, <1>11, <1>12 DEF AInv

LEMMA DisableStep ==
    ASSUME AInv, NEW u \in Users, DisableVPNUser(u)
    PROVE  AInv'
<1>0. AccessTypeOK /\ drawn \in Nat
  BY AccessBounds DEF AInv, AccessTypeOK
<1>1. /\ u \in overdue /\ overdue' = overdue \ {u}
      /\ row' = [i \in Subs |-> IF i \in SubsOf(u) THEN 0 ELSE row[i]]
      /\ disabled' \subseteq disabled \cup {u}
      /\ now' = now /\ sub' = sub /\ drawn' = drawn /\ toServe' = toServe
      /\ calls' = calls /\ faults' = faults
  BY DEF DisableVPNUser
<1>2. \A i \in Subs : row'[i] = (IF UserOf[i] = u THEN 0 ELSE row[i]) /\ row[i] \in 0 .. drawn
  BY <1>0, <1>1 DEF AccessTypeOK, SubsOf
<1>3. row' \in [Subs -> 0 .. drawn]
  BY <1>0, <1>1, <1>2
<1>4. \A i, j \in Subs : row'[i] = row'[j] => i = j \/ row'[i] = 0
  BY <1>0, <1>2 DEF AccessTypeOK
<1>5. AccessTypeOK'
  BY <1>0, <1>1, <1>3, <1>4 DEF AccessTypeOK
<1>6. \A i \in Subs : Live(i)' = Live(i) /\ Excused(i)' = Excused(i)
  BY <1>1 DEF Live, Excused
<1>7. Followed'
  BY <1>1, <1>2, <1>6 DEF AInv, Followed
<1>8. Remains'
  BY <1>1, <1>2 DEF AInv, Remains, Leftover
<1> QED
  BY <1>5, <1>7, <1>8 DEF AInv

LEMMA DisableFailsStep ==
    ASSUME AInv, DisableFails
    PROVE  AInv'
<1>1. /\ overdue' \subseteq overdue /\ faults' > 0 /\ faults' \in 0 .. MaxFaults
      /\ now' = now /\ sub' = sub /\ row' = row /\ drawn' = drawn /\ toServe' = toServe
      /\ disabled' = disabled /\ calls' = calls
  BY AccessBounds DEF DisableFails, Fault, AInv, AccessTypeOK
<1> QED
  BY <1>1 DEF AInv, AccessTypeOK, Followed, Remains, Leftover, Excused, Live

-----------------------------------------------------------------------------
(* Devices.                                                                  *)

LEMMA ReqFacts ==
    ASSUME DevicesTypeOK, NEW h \in Requests
    PROVE  /\ req[h] \in LinkCall \cup TouchCall \cup {NoCall}
           /\ req[h].pc \in {"known?", "count", "upsert"} => req[h] \in LinkCall
           /\ req[h].pc = "touch" => req[h] \in TouchCall
BY DEF DevicesTypeOK, LinkCall, TouchCall, NoCall

LEMMA FreshFinite ==
    ASSUME DevicesTypeOK, NEW r
    PROVE  /\ IsFiniteSet(FreshOf(r)) /\ Cardinality(FreshOf(r)) \in Nat
           /\ CountActiveDevices(r) = Cardinality(FreshOf(r))
           /\ \A m : IsFiniteSet(LetIn(r, m)) /\ Cardinality(LetIn(r, m)) \in Nat
<1>1. FreshOf(r) \subseteq fetches /\ \A m : LetIn(r, m) \subseteq FreshOf(r)
  BY DEF FreshOf, FetchesOf, LetIn
<1>2. IsFiniteSet(FreshOf(r))
  BY <1>1, FS_Subset DEF DevicesTypeOK
<1>3. \A m : IsFiniteSet(LetIn(r, m))
  BY <1>1, <1>2, FS_Subset
<1> QED
  BY <1>2, <1>3, FS_CardinalityType DEF CountActiveDevices, FreshOf

\* Devices go, with their rows or on request, or grow old.
LEMMA FewerDevices ==
    ASSUME DevicesTypeOK, Limited, now \in Nat, now' \in Nat, now' >= now,
           fetches' \subseteq fetches, \A f \in fetches' : \E i \in Subs : row'[i] = f.row
    PROVE  /\ Limited' /\ IsFiniteSet(fetches')
           /\ \A f \in fetches' : /\ \E i \in Subs : row'[i] = f.row
                                  /\ f.seen \in 0 .. now' /\ f.server \in Servers \cup {0}
           /\ \A f, g \in fetches' : f.row = g.row /\ f.device = g.device => f = g
<1>1. IsFiniteSet(fetches')
  BY FS_Subset DEF DevicesTypeOK
<1>2. \A f \in fetches : f.seen \in 0 .. now /\ f.server \in Servers \cup {0}
  BY DEF DevicesTypeOK
<1>3. \A f \in fetches' : f.seen \in 0 .. now' /\ f.server \in Servers \cup {0}
  BY <1>2
<1>4. \A f, g \in fetches' : f.row = g.row /\ f.device = g.device => f = g
  BY DEF DevicesTypeOK
<1>5. ASSUME NEW r \in Nat, NEW m \in Plans PROVE Cardinality(LetIn(r, m)') <= m
  <2>1. \A f \in fetches' : Fresh(f)' => Fresh(f)
    BY <1>2, DevicesAssumption DEF Fresh
  <2>2. LetIn(r, m)' \subseteq LetIn(r, m)
    BY <2>1 DEF LetIn, FreshOf, FetchesOf
  <2>3. IsFiniteSet(LetIn(r, m)) /\ Cardinality(LetIn(r, m)) \in Nat
    BY FreshFinite
  <2>4. /\ Cardinality(LetIn(r, m)') <= Cardinality(LetIn(r, m)) /\ Cardinality(LetIn(r, m)') \in Nat
    BY <2>2, <2>3, FS_Subset, FS_CardinalityType
  <2> QED
    BY <2>3, <2>4, AccessAssumption DEF Limited
<1> QED
  BY <1>1, <1>3, <1>4, <1>5 DEF Limited

LEMMA DevicesGo ==
    ASSUME DInv, now \in Nat, now' \in Nat, now' >= now,
           servers' \in [Servers -> ServerRow],
           req' \in [Requests -> LinkCall \cup TouchCall \cup {NoCall}], Counted',
           fetches' \subseteq fetches, \A f \in fetches' : \E i \in Subs : row'[i] = f.row
    PROVE  DInv'
BY FewerDevices DEF DInv, DevicesTypeOK

\* A call comes, goes on or ends; the devices stay.
LEMMA CallMoves ==
    ASSUME DInv, now \in Nat, now' = now, row' = row, servers' = servers, fetches' = fetches,
           NEW h \in Requests, NEW c \in LinkCall \cup TouchCall \cup {NoCall},
           req' = [req EXCEPT ![h] = c],
           c.pc = "upsert" /\ c.how = "new" => c.seen < c.max
    PROVE  DInv'
<1>1. /\ req' \in [Requests -> LinkCall \cup TouchCall \cup {NoCall}] /\ req'[h] = c
      /\ \A g \in Requests \ {h} : req'[g] = req[g]
  BY DEF DInv, DevicesTypeOK
<1>2. Counted'
  BY <1>1 DEF DInv, Counted, At
<1>3. servers' \in [Servers -> ServerRow] /\ \A f \in fetches' : \E i \in Subs : row'[i] = f.row
  BY DEF DInv, DevicesTypeOK
<1> QED
  BY <1>1, <1>2, <1>3, DevicesGo

\* A device is recorded.
LEMMA UpsertStep ==
    ASSUME DInv, now \in Nat, now' = now, row' = row, servers' = servers,
           NEW h \in Requests, Done(h),
           NEW r \in Nat, NEW device, NEW server \in Servers \cup {0}, NEW how,
           \E i \in Subs : row[i] = r,
           Upsert(r, device, server, how),
           \A m \in Plans : how = <<"new", m>> => CountActiveDevices(r) < m
    PROVE  DInv'
<1>0. DevicesTypeOK /\ Counted /\ Limited
  BY DEF DInv
<1> DEFINE old == {f \in FetchesOf(r) : f.device = device}
<1>1. PICK at \in Servers \cup {0} :
         fetches' = (fetches \ old) \cup {[row |-> r, device |-> device, server |-> at,
                                           seen |-> now, how |-> how]}
  <2> DEFINE at == IF server = 0 /\ old # {} THEN (CHOOSE f \in old : TRUE).server ELSE server
  <2>1. old # {} => (CHOOSE f \in old : TRUE) \in old
    OBVIOUS
  <2>2. old \subseteq fetches
    BY DEF FetchesOf
  <2>3. at \in Servers \cup {0}
    BY <1>0, <2>1, <2>2 DEF DevicesTypeOK
  <2>4. fetches' = (fetches \ old) \cup {[row |-> r, device |-> device, server |-> at,
                                          seen |-> now, how |-> how]}
    BY DEF Upsert
  <2> QED
    BY <2>3, <2>4
<1>2. PICK n : n = [row |-> r, device |-> device, server |-> at, seen |-> now, how |-> how]
  OBVIOUS
<1>3. /\ n.row = r /\ n.device = device /\ n.server = at /\ n.seen = now /\ n.how = how
      /\ fetches' = (fetches \ old) \cup {n}
  BY <1>1, <1>2
<1>4. \A f \in fetches : f \in old <=> f.row = r /\ f.device = device
  BY DEF FetchesOf
<1>5. old \subseteq fetches
  BY DEF FetchesOf
<1> HIDE DEF old
<1>6. IsFiniteSet(fetches')
  <2>1. IsFiniteSet(fetches \ old)
    BY <1>0, FS_Subset DEF DevicesTypeOK
  <2> QED
    BY <1>3, <2>1, FS_AddElement
<1>7. \A f \in fetches' : /\ \E i \in Subs : row[i] = f.row
                          /\ f.seen \in 0 .. now /\ f.server \in Servers \cup {0}
  BY <1>0, <1>3 DEF DevicesTypeOK
<1>8. \A f, g \in fetches' : f.row = g.row /\ f.device = g.device => f = g
  BY <1>0, <1>3, <1>4 DEF DevicesTypeOK
<1>9. /\ req' \in [Requests -> LinkCall \cup TouchCall \cup {NoCall}] /\ req'[h].pc = "idle"
      /\ \A g \in Requests \ {h} : req'[g] = req[g]
  BY <1>0 DEF Done, DevicesTypeOK, NoCall
<1>10. DevicesTypeOK'
  BY <1>0, <1>6, <1>7, <1>8, <1>9 DEF DevicesTypeOK
<1>11. Counted'
  BY <1>0, <1>9 DEF Counted, At
<1>12. ASSUME NEW q \in Nat, NEW m \in Plans PROVE Cardinality(LetIn(q, m)') <= m
  <2>0. /\ IsFiniteSet(LetIn(q, m)) /\ Cardinality(LetIn(q, m)) \in Nat /\ Cardinality(LetIn(q, m)) <= m
        /\ IsFiniteSet(FreshOf(r)) /\ Cardinality(FreshOf(r)) \in Nat /\ m \in Nat
    BY <1>0, FreshFinite, AccessAssumption DEF Limited
  <2>1. \A f : Fresh(f)' = Fresh(f)
    BY DEF Fresh
  <2>2. CASE q = r /\ how = <<"new", m>>
    <3>1. LetIn(q, m)' \subseteq FreshOf(r) \cup {n}
      BY <1>3, <2>1, <2>2 DEF LetIn, FreshOf, FetchesOf
    <3>2. Cardinality(FreshOf(r)) < m
      BY <1>0, <2>2, FreshFinite
    <3>3. /\ IsFiniteSet(FreshOf(r) \cup {n}) /\ Cardinality(FreshOf(r) \cup {n}) <= Cardinality(FreshOf(r)) + 1
      <4>1. /\ IsFiniteSet(FreshOf(r) \cup {n})
            /\ Cardinality(FreshOf(r) \cup {n}) =
                  IF n \in FreshOf(r) THEN Cardinality(FreshOf(r)) ELSE Cardinality(FreshOf(r)) + 1
        BY <2>0, FS_AddElement
      <4> QED
        BY <2>0, <4>1
    <3>4. /\ Cardinality(LetIn(q, m)') <= Cardinality(FreshOf(r) \cup {n}) /\ IsFiniteSet(LetIn(q, m)')
      BY <3>1, <3>3, FS_Subset
    <3>5. Cardinality(LetIn(q, m)') \in Nat /\ Cardinality(FreshOf(r) \cup {n}) \in Nat
      BY <3>3, <3>4, FS_CardinalityType
    <3> QED
      BY <2>0, <3>2, <3>3, <3>4, <3>5
  <2>3. CASE q # r \/ how # <<"new", m>>
    <3>1. LetIn(q, m)' \subseteq LetIn(q, m)
      BY <1>3, <2>1, <2>3 DEF LetIn, FreshOf, FetchesOf
    <3>2. Cardinality(LetIn(q, m)') <= Cardinality(LetIn(q, m)) /\ IsFiniteSet(LetIn(q, m)')
      BY <2>0, <3>1, FS_Subset
    <3>3. Cardinality(LetIn(q, m)') \in Nat
      BY <3>2, FS_CardinalityType
    <3> QED
      BY <2>0, <3>2, <3>3
  <2> QED
    BY <2>2, <2>3
<1> QED
  BY <1>10, <1>11, <1>12 DEF DInv, Limited

\* The work on devices changes nothing of the subscriptions.
LEMMA UseKeepsAccess ==
    ASSUME AInv,
           \/ UNCHANGED accessVars
           \/ Call /\ UNCHANGED <<now, sub, row, drawn, toServe, overdue, disabled, faults>>
           \/ Fault /\ UNCHANGED <<now, sub, row, drawn, toServe, overdue, disabled, calls>>
    PROVE  AInv' /\ now \in Nat /\ now' = now /\ row' = row
<1>1. AInv'
  BY AccessAside DEF accessVars
<1> QED
  BY <1>1, AccessBounds DEF AInv, AccessTypeOK, accessVars

\* GetVLESSLink, one statement after the other.
LEMMA LinkStep ==
    ASSUME AInv, DInv, NEW h \in Requests,
           \/ \E i \in Subs, s \in Servers, d \in Devices : GenerateVLESSLink(h, i, s, d)
           \/ GetActiveConnections(h) \/ CheckLimit(h) \/ UpsertActiveConnection(h)
    PROVE  AInv' /\ DInv'
<1>0. AccessTypeOK /\ DevicesTypeOK
  BY DEF AInv, DInv
<1>1. AInv' /\ now \in Nat /\ now' = now /\ row' = row /\ servers' = servers
  BY UseKeepsAccess DEF GenerateVLESSLink, GetActiveConnections, CheckLimit, UpsertActiveConnection
<1>2. ASSUME NEW i \in Subs, NEW s \in Servers, NEW d \in Devices, GenerateVLESSLink(h, i, s, d) PROVE DInv'
  <2>1. row[i] \in Nat \ {0} /\ sub[i].max \in Plans
    BY <1>0, <1>2, SubFacts DEF GenerateVLESSLink
  <2>2. GetVLESSLink(i, s, d) \in LinkCall /\ GetVLESSLink(i, s, d).pc = "known?"
    BY <2>1 DEF GetVLESSLink, LinkCall
  <2>3. req' = [req EXCEPT ![h] = GetVLESSLink(i, s, d)] /\ fetches' = fetches
    BY <1>2 DEF GenerateVLESSLink, Start
  <2> QED
    BY <1>1, <2>2, <2>3, CallMoves
<1>3. CASE GetActiveConnections(h)
  <2>1. req[h] \in LinkCall
    BY <1>0, <1>3, ReqFacts DEF GetActiveConnections, At
  <2>2. PICK known \in BOOLEAN :
           req' = [req EXCEPT ![h].pc = IF known THEN "upsert" ELSE "count",
                              ![h].how = IF known THEN "known" ELSE "new"]
    BY <1>3 DEF GetActiveConnections
  <2> DEFINE c == [req[h] EXCEPT !.pc = IF known THEN "upsert" ELSE "count",
                                 !.how = IF known THEN "known" ELSE "new"]
  <2>3. c \in LinkCall /\ (c.pc = "upsert" => c.how = "known")
    BY <2>1 DEF LinkCall
  <2>4. req' = [req EXCEPT ![h] = c] /\ fetches' = fetches
    BY <1>0, <1>3, <2>2 DEF GetActiveConnections, DevicesTypeOK
  <2> HIDE DEF c
  <2> QED
    BY <1>1, <2>3, <2>4, CallMoves
<1>4. CASE CheckLimit(h)
  <2>1. req[h] \in LinkCall /\ fetches' = fetches
    BY <1>0, <1>4, ReqFacts DEF CheckLimit, At
  <2>2. PICK n \in Nat : n = CountActiveDevices(req[h].row)
    BY <1>0, FreshFinite
  <2>3. CASE Done(h)
    BY <1>1, <2>1, <2>3, CallMoves DEF Done, NoCall
  <2>4. CASE ~(n >= req[h].max) /\ req' = [req EXCEPT ![h].pc = "upsert", ![h].seen = n]
    <3> DEFINE c == [req[h] EXCEPT !.pc = "upsert", !.seen = n]
    <3>1. c \in LinkCall /\ c.seen = n /\ c.max = req[h].max /\ c.max \in Nat
      BY <2>1, AccessAssumption DEF LinkCall
    <3>2. req' = [req EXCEPT ![h] = c]
      BY <1>0, <2>4 DEF DevicesTypeOK
    <3> HIDE DEF c
    <3>3. c.seen < c.max
      BY <2>4, <3>1
    <3> QED
      BY <1>1, <2>1, <3>1, <3>2, <3>3, CallMoves
  <2> QED
    BY <1>4, <2>2, <2>3, <2>4 DEF CheckLimit
<1>5. CASE UpsertActiveConnection(h)
  <2>1. /\ req[h] \in LinkCall /\ req[h].pc = "upsert" /\ Done(h)
    BY <1>0, <1>5, ReqFacts DEF UpsertActiveConnection, At
  <2>2. CASE fetches' = fetches
    BY <1>1, <2>1, <2>2, CallMoves DEF Done, NoCall
  <2>3. CASE fetches' # fetches
    <3> DEFINE r == req[h].row
               raced == req[h].how = "new" /\ CountActiveDevices(r) # req[h].seen
               how == <<IF raced THEN "raced" ELSE req[h].how, req[h].max>>
    <3>1. (\E i \in Subs : row[i] = r) /\ Upsert(r, req[h].device, req[h].server, how)
      BY <1>5, <2>3 DEF UpsertActiveConnection
    <3>2. r \in Nat /\ req[h].server \in Servers \cup {0}
      BY <2>1 DEF LinkCall
    <3>3. ASSUME NEW m \in Plans, how = <<"new", m>> PROVE CountActiveDevices(r) < m
      <4>1. req[h].how = "new" /\ ~raced /\ req[h].max = m
        BY <3>3
      <4>2. req[h].seen < req[h].max
        BY <2>1, <4>1 DEF DInv, Counted, At
      <4> QED
        BY <4>1, <4>2
    <3> HIDE DEF r, how
    <3> QED
      BY <1>1, <2>1, <3>1, <3>2, <3>3, UpsertStep
  <2> QED
    BY <2>2, <2>3
<1> QED
  BY <1>1, <1>2, <1>3, <1>4, <1>5

\* The subscription link and the call that records its client.
LEMMA TouchStep ==
    ASSUME AInv, DInv, NEW h \in Requests,
           \/ \E r \in 1 .. drawn, a \in Agents : GetSubscriptionConfig(h, r, a)
           \/ RegisterDeviceTouch(h) \/ TouchTimesOut(h)
    PROVE  AInv' /\ DInv'
<1>0. AccessTypeOK /\ DevicesTypeOK /\ drawn \in Nat
  BY DEF AInv, DInv, AccessTypeOK
<1>1. AInv' /\ now \in Nat /\ now' = now /\ row' = row /\ servers' = servers
  BY UseKeepsAccess DEF GetSubscriptionConfig, RegisterDeviceTouch, TouchTimesOut
<1>2. ASSUME NEW r \in 1 .. drawn, NEW a \in Agents, GetSubscriptionConfig(h, r, a) PROVE DInv'
  <2> DEFINE c == [pc |-> "touch", row |-> r, agent |-> a, given |-> ListServers]
  <2>1. ListServers \in Seq(PbServers) /\ r \in Nat \ {0}
    BY <1>0, ListFacts DEF DevicesTypeOK
  <2>2. c \in TouchCall /\ c.pc = "touch"
    BY <2>1 DEF TouchCall
  <2>3. req' = [req EXCEPT ![h] = c] /\ fetches' = fetches
    BY <1>2 DEF GetSubscriptionConfig, Start
  <2> HIDE DEF c
  <2> QED
    BY <1>1, <2>2, <2>3, CallMoves
<1>3. CASE TouchTimesOut(h)
  BY <1>1, <1>3, CallMoves DEF TouchTimesOut, Done, NoCall
<1>4. CASE RegisterDeviceTouch(h)
  <2>1. req[h] \in TouchCall /\ Done(h)
    BY <1>0, <1>4, ReqFacts DEF RegisterDeviceTouch, At
  <2>2. CASE fetches' = fetches
    BY <1>1, <2>1, <2>2, CallMoves DEF Done, NoCall
  <2>3. CASE fetches' # fetches
    <3> DEFINE r == req[h].row
               device == NormalizeUserAgent(req[h].agent)
               how == <<"touch", 0>>
    <3>1. (\E i \in Subs : row[i] = r) /\ Upsert(r, device, 0, how)
      BY <1>4, <2>3 DEF RegisterDeviceTouch, ByToken
    <3>2. r \in Nat /\ \A m \in Plans : how # <<"new", m>>
      BY <2>1 DEF TouchCall
    <3> HIDE DEF r, device, how
    <3> QED
      BY <1>1, <2>1, <3>1, <3>2, UpsertStep
  <2> QED
    BY <2>2, <2>3
<1> QED
  BY <1>1, <1>2, <1>3, <1>4

\* A device is disconnected; the rows of servers are written.
LEMMA TableStep ==
    ASSUME AInv, DInv,
           \/ \E f \in fetches : DisconnectDevice(f)
           \/ UpdateServerLoad
           \/ \E s \in Servers, k \in Kinds : EditServer(s, k)
    PROVE  AInv' /\ DInv'
<1>0. DevicesTypeOK /\ Counted
  BY DEF DInv
<1>1. AInv' /\ now \in Nat /\ now' = now /\ row' = row /\ req' = req /\ fetches' \subseteq fetches
  BY UseKeepsAccess DEF DisconnectDevice, UpdateServerLoad, EditServer
<1>2. servers' \in [Servers -> ServerRow]
  <2>1. CASE UpdateServerLoad
    <3> DEFINE count(s) == Cardinality({f \in fetches : f.server = s /\ Fresh(f)})
               percent(s) == (count(s) * 100) \div Capacity
               load(s) == IF percent(s) > 100 THEN 100 ELSE percent(s)
    <3>1. \A s : count(s) \in Nat
      BY <1>0, FS_Subset, FS_CardinalityType DEF DevicesTypeOK
    <3>2. \A n \in Nat : (n * 100) \div Capacity \in Nat
      BY DevicesAssumption
    <3>3. \A s : percent(s) \in Nat
      BY <3>1, <3>2
    <3>4. \A s : load(s) \in 0 .. 100
      BY <3>3
    <3>5. servers' = [s \in Servers |-> IF servers[s].active THEN [servers[s] EXCEPT !.load = load(s)]
                                        ELSE servers[s]]
      BY <2>1 DEF UpdateServerLoad
    <3> HIDE DEF load
    <3>6. \A s \in Servers : [servers[s] EXCEPT !.load = load(s)] \in ServerRow /\ servers[s] \in ServerRow
      BY <1>0, <3>4 DEF DevicesTypeOK, ServerRow
    <3> QED
      BY <3>5, <3>6
  <2>2. ASSUME NEW s \in Servers, NEW k \in Kinds, EditServer(s, k) PROVE servers' \in [Servers -> ServerRow]
    <3>1. [k EXCEPT !.load = servers[s].load] \in ServerRow
      BY <1>0, DevicesAssumption DEF DevicesTypeOK, ServerRow
    <3> QED
      BY <1>0, <2>2, <3>1 DEF EditServer, DevicesTypeOK
  <2>3. CASE \E f \in fetches : DisconnectDevice(f)
    BY <1>0, <2>3 DEF DisconnectDevice, DevicesTypeOK
  <2> QED
    BY <2>1, <2>2, <2>3
<1>3. Counted' /\ req' \in [Requests -> LinkCall \cup TouchCall \cup {NoCall}]
  BY <1>0, <1>1 DEF Counted, At, DevicesTypeOK
<1>4. \A f \in fetches' : \E i \in Subs : row'[i] = f.row
  BY <1>0, <1>1 DEF DevicesTypeOK
<1> QED
  BY <1>1, <1>2, <1>3, <1>4, DevicesGo

-----------------------------------------------------------------------------
(* Traffic.                                                                  *)

LEMMA IdleFacts ==
    /\ Nobody \in [Users -> Nat]
    /\ Idle \in [pc : {"idle", "query"}, ids : [Users -> Nat], todo : Seq(Servers), batch : SUBSET Sample]
    /\ Idle.pc = "idle" /\ Idle.todo = <<>> /\ Idle.batch = {}
BY DEF Idle, Nobody

\* A tick knows a row of every user who has one.
LEMMA EmailFacts ==
    ASSUME AccessTypeOK
    PROVE  /\ IdsByEmail \subseteq [Users -> Nat]
           /\ \A u \in Users : \A ids \in IdsByEmail : ids[u] = 0 => RowsOf(u) = {}
           /\ \A u \in Users : \A ids \in IdsByEmail : ids[u] # 0 => \E i \in Subs : row[i] = ids[u]
<1>1. \A i \in Subs : row[i] \in Nat
  BY SubFacts
<1>2. IdsByEmail \subseteq [Users -> Nat]
  BY <1>1 DEF IdsByEmail
<1>3. ASSUME NEW ids \in IdsByEmail, NEW u \in Users
      PROVE  /\ ids[u] = 0 => RowsOf(u) = {}
             /\ ids[u] # 0 => \E i \in Subs : row[i] = ids[u]
  <2>1. IF RowsOf(u) = {} THEN ids[u] = 0 ELSE ids[u] \in RowsOf(u)
    BY DEF IdsByEmail
  <2>2. RowsOf(u) \subseteq {row[i] : i \in Subs} \ {0}
    BY UserFacts DEF RowsOf
  <2> QED
    BY <2>1, <2>2
<1> QED
  BY <1>2, <1>3

LEMMA RowsStay ==
    ASSUME row' = row
    PROVE  /\ \A u : RowsOf(u)' = RowsOf(u)
           /\ IdsByEmail' = IdsByEmail
  BY DEF RowsOf, IdsByEmail, SubsOf, Subs

\* Rows, samples and the rest of the tick.
LEMMA TickFacts ==
    ASSUME TInv, tick.todo # <<>>
    PROVE  /\ Server \in Servers /\ tick.pc = "query" /\ tick.ids \in [Users -> Nat]
           /\ tick.batch \subseteq Sample /\ Tail(tick.todo) \in Seq(Servers)
           /\ ToSet(Tail(tick.todo)) \subseteq ToSet(tick.todo)
           /\ Server \notin ToSet(Tail(tick.todo)) /\ Server \in ToSet(tick.todo)
           /\ \A i, j \in DOMAIN Tail(tick.todo) : Tail(tick.todo)[i] = Tail(tick.todo)[j] => i = j
<1>1. tick.todo \in Seq(Servers) /\ tick.batch \subseteq Sample /\ tick.ids \in [Users -> Nat]
  BY DEF TInv, TrafficTypeOK
<1>2. tick.pc = "query"
  BY IdleFacts DEF TInv, TrafficTypeOK
<1>3. PICK n \in Nat \ {0} : n = Len(tick.todo) /\ DOMAIN tick.todo = 1 .. n
  BY <1>1, LenProperties, EmptySeq
<1>4. /\ Server = tick.todo[1] /\ Server \in Servers /\ Tail(tick.todo) \in Seq(Servers)
      /\ DOMAIN Tail(tick.todo) = 1 .. n - 1
      /\ \A i \in 1 .. n - 1 : Tail(tick.todo)[i] = tick.todo[i + 1]
  <2>1. /\ Head(tick.todo) = tick.todo[1] /\ tick.todo[1] \in Servers /\ Tail(tick.todo) \in Seq(Servers)
        /\ Len(Tail(tick.todo)) = n - 1
        /\ \A i \in 1 .. n - 1 : Tail(tick.todo)[i] = tick.todo[i + 1]
    BY <1>1, <1>3, HeadTailProperties
  <2> QED
    BY <2>1, LenProperties DEF Server
<1>5. \A i \in 1 .. n - 1 : i + 1 \in 1 .. n /\ i + 1 # 1
  BY <1>3
<1>6. \A i, j \in 1 .. n : tick.todo[i] = tick.todo[j] => i = j
  BY <1>3 DEF TInv, ListedOnce
<1>7. ToSet(Tail(tick.todo)) \subseteq ToSet(tick.todo)
  BY <1>3, <1>4, <1>5 DEF ToSet
<1>8. Server \notin ToSet(Tail(tick.todo)) /\ Server \in ToSet(tick.todo)
  BY <1>3, <1>4, <1>5, <1>6 DEF ToSet
<1>9. \A i, j \in 1 .. n - 1 : Tail(tick.todo)[i] = Tail(tick.todo)[j] => i = j
  BY <1>3, <1>4, <1>5, <1>6
<1> QED
  BY <1>1, <1>2, <1>4, <1>7, <1>8, <1>9

\* A server of the tick is done with.
LEMMA VisitStep ==
    ASSUME TInv, row' = row, samples' = samples, torn' = torn, tick.todo # <<>>, Visited \/ Collect,
           counters' = counters \/ Reset(Server), baselineDone' \subseteq Servers
    PROVE  TInv'
<1>0. /\ counters \in [Servers -> [Users -> Nat]] /\ torn \in BOOLEAN
      /\ \A x \in samples : x[2] \in Servers /\ \E i \in Subs : row[i] = x[1]
      /\ tick \in [pc : {"idle", "query"}, ids : [Users -> Nat], todo : Seq(Servers), batch : SUBSET Sample]
      /\ \A x \in tick.batch : x.server \notin ToSet(tick.todo)
  BY DEF TInv, TrafficTypeOK
<1>1. Collected(Server) \subseteq Sample /\ \A x \in Collected(Server) : x.server = Server
  <2>1. counters[Server] \in [Users -> Nat] /\ tick.ids \in [Users -> Nat] /\ Server \in Servers
    BY <1>0, TickFacts
  <2> QED
    BY <2>1 DEF Collected, Sample
<1>2. PICK more \in SUBSET Sample : /\ tick' = [tick EXCEPT !.todo = Tail(@), !.batch = @ \cup more]
                                    /\ \A x \in more : x.server = Server
  <2>1. CASE Visited
    <3>1. tick' = [tick EXCEPT !.todo = Tail(@), !.batch = @ \cup {}]
      BY <1>0, <2>1 DEF Visited
    <3>2. {} \in SUBSET Sample /\ \A x \in {} : x.server = Server
      OBVIOUS
    <3> QED
      BY <3>1, <3>2, Zenon
  <2>2. CASE Collect
    BY <1>1, <2>2 DEF Collect
  <2> QED
    BY <2>1, <2>2
<1>3. /\ tick' \in [pc : {"idle", "query"}, ids : [Users -> Nat], todo : Seq(Servers), batch : SUBSET Sample]
      /\ tick'.pc = "query" /\ tick'.todo = Tail(tick.todo) /\ tick'.batch = tick.batch \cup more
  BY <1>0, <1>2, TickFacts
<1>4. \A x \in tick'.batch : x.server \notin ToSet(tick'.todo)
  BY <1>0, <1>2, <1>3, TickFacts
<1>5. counters' \in [Servers -> [Users -> Nat]]
  BY <1>0, IdleFacts DEF Reset
<1>6. TrafficTypeOK'
  BY <1>0, <1>3, <1>4, <1>5 DEF TrafficTypeOK
<1>7. ListedOnce'
  BY <1>3, TickFacts DEF ListedOnce
<1> QED
  BY <1>6, <1>7 DEF TInv

\* The tick is over.
LEMMA IdleStep ==
    ASSUME TInv, tick' = Idle, counters' = counters, torn' = torn, baselineDone' \subseteq Servers,
           \A x \in samples' : x[2] \in Servers /\ \E i \in Subs : row'[i] = x[1]
    PROVE  TInv'
<1>1. /\ tick' \in [pc : {"idle", "query"}, ids : [Users -> Nat], todo : Seq(Servers), batch : SUBSET Sample]
      /\ tick'.todo = <<>> /\ tick'.batch = {}
  BY IdleFacts
<1>2. TrafficTypeOK'
  BY <1>1 DEF TInv, TrafficTypeOK, Idle, Nobody
<1>3. ListedOnce'
  BY <1>1 DEF ListedOnce
<1> QED
  BY <1>2, <1>3 DEF TInv

LEMMA CountingStep ==
    ASSUME AInv, DInv, TInv, Counting
    PROVE  IInv'
<1>0. AccessTypeOK /\ TrafficTypeOK /\ ListedOnce
  BY DEF AInv, TInv
<1>1. AInv' /\ now \in Nat /\ now' = now /\ row' = row
  BY UseKeepsAccess DEF Counting, StartTick, QueryAllUserStats, QueryFails, UserTraffic,
     InsertTrafficSamplesBatch, InsertFails
<1>2. DInv'
  <2>1. servers' = servers /\ req' = req /\ fetches' = fetches
    BY DEF Counting, deviceVars
  <2>2. /\ Counted' /\ servers' \in [Servers -> ServerRow]
        /\ req' \in [Requests -> LinkCall \cup TouchCall \cup {NoCall}]
        /\ \A f \in fetches' : \E i \in Subs : row'[i] = f.row
    BY <1>1, <2>1 DEF DInv, Counted, At, DevicesTypeOK
  <2> QED
    BY <1>1, <2>1, <2>2, DevicesGo
<1>3. CASE StartTick(Active)
  <2>1. Active \in Seq(Servers) /\ \A i, j \in DOMAIN Active : Active[i] = Active[j] => i = j
    BY ListFacts DEF DInv, DevicesTypeOK
  <2>2. IdsByEmail \subseteq [Users -> Nat]
    BY <1>0, EmailFacts
  <2>3. PICK ids \in IdsByEmail :
           tick' = [pc |-> "query", ids |-> ids, todo |-> Active, batch |-> {}]
    BY <1>3 DEF StartTick
  <2>3a. /\ counters' = counters /\ samples' = samples /\ baselineDone' = baselineDone /\ torn' = torn
    BY <1>3 DEF StartTick
  <2>4. /\ tick' \in [pc : {"idle", "query"}, ids : [Users -> Nat], todo : Seq(Servers), batch : SUBSET Sample]
        /\ tick'.pc = "query" /\ tick'.todo = Active /\ tick'.batch = {}
    BY <2>1, <2>2, <2>3
  <2>5. TrafficTypeOK'
    BY <1>0, <1>1, <2>3a, <2>4 DEF TrafficTypeOK
  <2>6. ListedOnce'
    BY <2>1, <2>4 DEF ListedOnce
  <2> QED
    BY <1>1, <1>2, <2>5, <2>6 DEF IInv, TInv
<1>4. CASE QueryAllUserStats \/ QueryFails
  <2>1. /\ tick.todo # <<>> /\ (Visited \/ Collect) /\ (counters' = counters \/ Reset(Server))
        /\ samples' = samples /\ torn' = torn
        /\ baselineDone' = baselineDone \/ baselineDone' = baselineDone \cup {Server}
    BY <1>4 DEF QueryAllUserStats, QueryFails
  <2>2. baselineDone' \subseteq Servers
    BY <1>0, <2>1, TickFacts DEF TrafficTypeOK
  <2> QED
    BY <1>1, <1>2, <2>1, <2>2, VisitStep DEF IInv
<1>5. CASE InsertTrafficSamplesBatch \/ InsertFails
  <2>1. /\ tick' = Idle /\ counters' = counters /\ torn' = torn /\ baselineDone' = baselineDone
        /\ \/ samples' = samples
           \/ /\ \A x \in tick.batch : \E i \in Subs : row[i] = x.row
              /\ samples' = samples \cup {<<x.row, x.server>> : x \in tick.batch}
    BY <1>5 DEF InsertTrafficSamplesBatch, InsertFails
  <2>2. \A x \in tick.batch : x.server \in Servers
    BY <1>0 DEF TrafficTypeOK, Sample
  <2>3. \A x \in samples' : x[2] \in Servers /\ \E i \in Subs : row'[i] = x[1]
    <3> SUFFICES ASSUME NEW x \in samples', x \notin samples
                 PROVE  x[2] \in Servers /\ \E i \in Subs : row'[i] = x[1]
      BY <1>0, <1>1 DEF TrafficTypeOK
    <3>1. PICK y \in tick.batch : x = <<y.row, y.server>>
      BY <2>1
    <3>2. x[1] = y.row /\ x[2] = y.server
      BY <3>1
    <3> QED
      BY <1>1, <2>1, <2>2, <3>2
  <2>4. baselineDone' \subseteq Servers
    BY <1>0, <2>1 DEF TrafficTypeOK
  <2> QED
    BY <1>1, <1>2, <2>1, <2>3, <2>4, IdleStep DEF IInv
<1>6. ASSUME NEW s \in Servers, NEW u \in Users, UserTraffic(u, s) PROVE IInv'
  <2>1. /\ counters' = [counters EXCEPT ![s][u] = @ + 1] /\ samples' = samples /\ tick' = tick
        /\ baselineDone' = baselineDone /\ torn' = torn
    BY <1>6 DEF UserTraffic
  <2>2. counters' \in [Servers -> [Users -> Nat]]
    BY <1>0, <2>1 DEF TrafficTypeOK
  <2>3. TInv'
    BY <1>0, <1>1, <2>1, <2>2 DEF TrafficTypeOK, ListedOnce, TInv
  <2> QED
    BY <1>1, <1>2, <2>3 DEF IInv
<1> QED
  BY <1>3, <1>4, <1>5, <1>6 DEF Counting

-----------------------------------------------------------------------------
(* The invariant holds.                                                      *)

LEMMA InvInit == Init => IInv
<1> SUFFICES ASSUME Init PROVE IInv
  OBVIOUS
<1>0. AccessInit /\ DevicesInit /\ TrafficInit
  BY DEF Init
<1>1. Len(UserOf) \in Nat /\ Subs = 1 .. Len(UserOf)
  BY AccessAssumption, LenProperties DEF Subs
<1>2. AInv
  <2>1. PICK m \in Plans : sub = [i \in Subs |-> [status |-> "active", until |-> 1, max |-> m,
                                                  lapsed |-> FALSE, raced |-> FALSE, late |-> FALSE]]
    BY <1>0 DEF AccessInit
  <2>2. sub \in [Subs -> Subscription] /\ \A i \in Subs : sub[i].status = "active" /\ ~sub[i].lapsed
    BY <2>1 DEF Subscription
  <2>3. row = [i \in Subs |-> i] /\ drawn = Len(UserOf)
    BY <1>0 DEF AccessInit
  <2>4. \A i \in Subs : row[i] # 0
    BY <1>1, <2>3
  <2>5. AccessTypeOK
    <3>1. row \in [Subs -> 0 .. drawn] /\ drawn \in Nat
      BY <1>1, <2>3
    <3>2. now \in 0 .. MaxNow /\ calls \in 0 .. MaxCalls /\ faults \in 0 .. MaxFaults
      BY <1>0, AccessBounds DEF AccessInit
    <3>3. \A i, j \in Subs : row[i] = row[j] => i = j
      BY <2>3
    <3> QED
      BY <1>0, <2>2, <3>1, <3>2, <3>3 DEF AccessInit, AccessTypeOK
  <2> QED
    BY <1>0, <2>2, <2>4, <2>5 DEF AInv, AccessInit, Followed, Remains, Leftover
<1>3. DInv
  <2>1. DevicesTypeOK
    BY <1>0, DevicesAssumption, FS_EmptySet DEF DevicesInit, DevicesTypeOK
  <2>2. Counted
    BY <1>0 DEF DevicesInit, Counted, At, NoCall
  <2>3. \A r, m : LetIn(r, m) = {}
    BY <1>0 DEF DevicesInit, LetIn, FreshOf, FetchesOf
  <2>4. Limited
    <3>1. \A m \in Plans : m \in Nat
      BY AccessAssumption
    <3>2. Cardinality({}) = 0
      BY FS_EmptySet
    <3> QED
      BY <2>3, <3>1, <3>2 DEF Limited
  <2> QED
    BY <2>1, <2>2, <2>4 DEF DInv
<1>4. TInv
  <2>1. ListedOnce
    BY <1>0, IdleFacts DEF TrafficInit, ListedOnce
  <2> QED
    BY <1>0, <2>1, IdleFacts, TrafficAssumption DEF TrafficInit, TInv, TrafficTypeOK
<1> QED
  BY <1>2, <1>3, <1>4 DEF IInv

\* A row comes or goes, and what depends on it with it.
LEMMA RowsStep ==
    ASSUME AInv, DInv, TInv, Rows
    PROVE  IInv'
<1>1. (\E i \in Subs : CreateVPNUser(i)) \/ (\E u \in Users : DisableVPNUser(u))
  BY DEF Rows
<1>2. AInv' /\ now \in Nat /\ now' = now
  BY <1>1, CreateRowStep, DisableStep, AccessBounds DEF CreateVPNUser, DisableVPNUser, AInv, AccessTypeOK
<1>3. /\ servers' = servers /\ req' = req /\ counters' = counters /\ tick' = tick
      /\ baselineDone' = baselineDone
      /\ CascadeFetches /\ CascadeSamples /\ TearTick
  BY DEF Rows
<1>4. /\ fetches' \subseteq fetches /\ \A f \in fetches' : \E i \in Subs : row'[i] = f.row
  BY <1>3 DEF CascadeFetches
<1>5. /\ Counted' /\ servers' \in [Servers -> ServerRow]
      /\ req' \in [Requests -> LinkCall \cup TouchCall \cup {NoCall}]
  BY <1>3 DEF DInv, Counted, At, DevicesTypeOK
<1>6. DInv'
  BY <1>2, <1>4, <1>5, DevicesGo
<1>7. /\ \A x \in samples' : x[2] \in Servers /\ \E i \in Subs : row'[i] = x[1]
      /\ torn' \in BOOLEAN
  BY <1>3 DEF CascadeSamples, TearTick, TInv, TrafficTypeOK
<1>8. TInv'
  BY <1>3, <1>7 DEF TInv, TrafficTypeOK, ListedOnce
<1> QED
  BY <1>2, <1>6, <1>8 DEF IInv

LEMMA TrafficAside ==
    ASSUME TInv, row' = row, UNCHANGED trafficVars
    PROVE  TInv'
BY DEF TInv, TrafficTypeOK, ListedOnce, trafficVars

LEMMA SubscriptionsStep ==
    ASSUME AInv, DInv, TInv, Subscriptions
    PROVE  IInv'
<1>1. AInv'
  BY ClockStep, ExpireStep, DisableFailsStep, PurchaseStep, CancelStep DEF Subscriptions
<1>2. row' = row /\ now \in Nat /\ now' \in Nat /\ now' >= now
  <2>1. now \in Nat
    BY AccessBounds DEF AInv, AccessTypeOK
  <2> QED
    BY <2>1 DEF Subscriptions, Clock, ExpireOverdueSubscriptions, DisableFails, Purchase, CancelSubscription
<1>3. servers' = servers /\ req' = req /\ fetches' = fetches /\ UNCHANGED trafficVars
  BY DEF Subscriptions, deviceVars
<1>4. /\ Counted' /\ servers' \in [Servers -> ServerRow]
      /\ req' \in [Requests -> LinkCall \cup TouchCall \cup {NoCall}]
      /\ \A f \in fetches' : \E i \in Subs : row'[i] = f.row
  BY <1>2, <1>3 DEF DInv, Counted, At, DevicesTypeOK
<1>5. DInv'
  BY <1>2, <1>3, <1>4, DevicesGo
<1> QED
  BY <1>1, <1>2, <1>3, <1>5, TrafficAside DEF IInv

LEMMA UseStep ==
    ASSUME AInv, DInv, TInv, UseOfDevices
    PROVE  IInv'
<1>1. AInv' /\ DInv'
  BY LinkStep, TouchStep, TableStep DEF UseOfDevices
<1>2. row' = row /\ UNCHANGED trafficVars
  BY DEF UseOfDevices, accessVars, GenerateVLESSLink, GetSubscriptionConfig, GetActiveConnections, CheckLimit,
     UpsertActiveConnection, RegisterDeviceTouch, TouchTimesOut, DisconnectDevice, UpdateServerLoad, EditServer
<1> QED
  BY <1>1, <1>2, TrafficAside DEF IInv

LEMMA RestartStep ==
    ASSUME AInv, DInv, TInv, Restart
    PROVE  IInv'
<1>1. AInv' /\ now \in Nat /\ now' = now /\ row' = row
  BY UseKeepsAccess DEF Restart
<1>2. /\ req' = [h \in Requests |-> IF At(h, "touch") THEN req[h] ELSE NoCall]
      /\ servers' = servers /\ fetches' = fetches
  BY DEF Restart
<1>3. /\ req' \in [Requests -> LinkCall \cup TouchCall \cup {NoCall}] /\ servers' \in [Servers -> ServerRow]
      /\ \A f \in fetches' : \E i \in Subs : row'[i] = f.row
  BY <1>1, <1>2 DEF DInv, DevicesTypeOK
<1>4. Counted'
  BY <1>2 DEF Counted, At, NoCall
<1>5. DInv'
  BY <1>1, <1>2, <1>3, <1>4, DevicesGo
<1>6. TInv'
  BY <1>1, IdleStep DEF Restart, TInv, TrafficTypeOK
<1> QED
  BY <1>1, <1>5, <1>6 DEF IInv

LEMMA InvStep == IInv /\ [Next]_vars => IInv'
<1> SUFFICES ASSUME AInv, DInv, TInv, [Next]_vars PROVE IInv'
  BY DEF IInv
<1>1. CASE UNCHANGED vars
  <2>1. AInv' /\ now \in Nat /\ now' = now /\ row' = row
    BY <1>1, UseKeepsAccess DEF vars
  <2>2. servers' = servers /\ req' = req /\ fetches' = fetches /\ UNCHANGED trafficVars
    BY <1>1 DEF vars, deviceVars
  <2>3. /\ Counted' /\ servers' \in [Servers -> ServerRow]
        /\ req' \in [Requests -> LinkCall \cup TouchCall \cup {NoCall}]
        /\ \A f \in fetches' : \E i \in Subs : row'[i] = f.row
    BY <2>1, <2>2 DEF DInv, Counted, At, DevicesTypeOK
  <2>4. DInv'
    BY <2>1, <2>2, <2>3, DevicesGo
  <2> QED
    BY <2>1, <2>2, <2>4, TrafficAside DEF IInv
<1> QED
  BY <1>1, RowsStep, SubscriptionsStep, UseStep, CountingStep, RestartStep DEF Next

LEMMA Invariant == Spec => []IInv
BY InvInit, InvStep, PTL DEF Spec

-----------------------------------------------------------------------------
(* Sums over finite sets.  The library's induction theorems are out of the    *)
(* provers' reach; the pigeonhole principle does their work here, as it does  *)
(* in Referral_proofs.                                                        *)

\* What holds at 0 and at a successor holds up to any number: else adding one
\* would map the numbers it holds of into themselves, one to one but not onto.
LEMMA Climb ==
    ASSUME NEW N \in Nat, NEW A \in SUBSET (0 .. N), 0 \in A,
           \A n \in A : n < N => n + 1 \in A
    PROVE  A = 0 .. N
<1> SUFFICES ASSUME NEW k \in 0 .. N, k \notin A PROVE FALSE
  OBVIOUS
<1> DEFINE B == {n \in A : n < k}
           f == [n \in B |-> n + 1]
<1>1. IsFiniteSet(B) /\ B \subseteq 0 .. N
  <2>1. IsFiniteSet(0 .. N)
    BY FS_Interval
  <2>2. B \in SUBSET (0 .. N)
    OBVIOUS
  <2> QED
    BY <2>1, <2>2, FS_Subset
<1>2. f \in Injection(B, B)
  <2>1. \A n \in B : n + 1 \in B
    BY DEF B
  <2> QED
    BY <2>1, <1>1 DEF Injection, IsInjective
<1>3. f \in Surjection(B, B)
  BY <1>1, <1>2, FS_Injection
<1>4. 0 \in B
  BY DEF B
<1>5. PICK n \in B : f[n] = 0
  BY <1>3, <1>4 DEF Surjection
<1> QED
  BY <1>5, <1>1

Pick(s) == CHOOSE x \in s : TRUE

LEMMA Picked == \A s : s # {} => Pick(s) \in s
BY DEF Pick

\* f adds up the values of a over each set of D.
Sums(f, a, D) == f = [s \in D |-> IF s = {} THEN 0 ELSE a[Pick(s)] + f[s \ {Pick(s)}]]

UpTo(U, n) == {s \in SUBSET U : Cardinality(s) <= n}

LEMMA SmallerSet ==
    ASSUME NEW U, IsFiniteSet(U), NEW s \in SUBSET U, NEW x \in s
    PROVE  /\ s \ {x} \in SUBSET U
           /\ Cardinality(s) \in 1 .. Cardinality(U) 
           /\ Cardinality(s \ {x}) = Cardinality(s) - 1
<1>1. IsFiniteSet(s) /\ Cardinality(s) <= Cardinality(U) /\ Cardinality(U) \in Nat
  BY FS_Subset, FS_CardinalityType
<1>2. Cardinality(s \ {x}) = Cardinality(s) - 1 /\ IsFiniteSet(s \ {x})
  BY <1>1, FS_RemoveElement
<1>3. Cardinality(s) \in Nat /\ Cardinality(s \ {x}) \in Nat
  BY <1>1, <1>2, FS_CardinalityType
<1> QED
  BY <1>1, <1>2, <1>3

LEMMA SumsExist ==
    ASSUME NEW U, IsFiniteSet(U), NEW a
    PROVE  \E f : Sums(f, a, SUBSET U)
<1> DEFINE N == Cardinality(U)
           A == {n \in 0 .. N : \E f : Sums(f, a, UpTo(U, n))}
<1>0. N \in Nat /\ \A s \in SUBSET U : IsFiniteSet(s) /\ Cardinality(s) \in Nat /\ Cardinality(s) <= N
  BY FS_Subset, FS_CardinalityType
<1>1. 0 \in A
  <2>1. UpTo(U, 0) = {{}}
    BY <1>0, FS_EmptySet DEF UpTo
  <2>2. Sums([s \in {{}} |-> 0], a, {{}})
    BY DEF Sums
  <2>3. \E f : Sums(f, a, UpTo(U, 0))
    BY <2>1, <2>2
  <2>4. 0 \in 0 .. N
    BY <1>0
  <2> QED
    BY <2>3, <2>4
<1>2. ASSUME NEW n \in A, n < N PROVE n + 1 \in A
  <2>1. PICK f : Sums(f, a, UpTo(U, n))
    OBVIOUS
  <2> DEFINE g == [s \in UpTo(U, n + 1) |-> IF s = {} THEN 0 ELSE a[Pick(s)] + f[s \ {Pick(s)}]]
  <2>2. n \in Nat /\ UpTo(U, n) \subseteq UpTo(U, n + 1)
    BY <1>0 DEF UpTo
  <2>3. ASSUME NEW s \in UpTo(U, n + 1), s # {} PROVE s \ {Pick(s)} \in UpTo(U, n)
    <3>1. s \in SUBSET U /\ Cardinality(s) <= n + 1 /\ Pick(s) \in s
      BY <2>3, Picked DEF UpTo
    <3>2. s \ {Pick(s)} \in SUBSET U /\ Cardinality(s \ {Pick(s)}) = Cardinality(s) - 1
      BY <3>1, SmallerSet
    <3> QED
      BY <3>1, <3>2, <2>2, <1>0 DEF UpTo
  <2>4. \A s \in UpTo(U, n) : g[s] = f[s]
    <3>1. \A s \in UpTo(U, n) : f[s] = IF s = {} THEN 0 ELSE a[Pick(s)] + f[s \ {Pick(s)}]
      BY <2>1 DEF Sums
    <3> QED
      BY <2>2, <3>1
  <2>5. \A s \in UpTo(U, n + 1) :
           (IF s = {} THEN 0 ELSE a[Pick(s)] + f[s \ {Pick(s)}])
             = (IF s = {} THEN 0 ELSE a[Pick(s)] + g[s \ {Pick(s)}])
    BY <2>3, <2>4
  <2> HIDE DEF g
  <2>6. g = [s \in UpTo(U, n + 1) |-> IF s = {} THEN 0 ELSE a[Pick(s)] + g[s \ {Pick(s)}]]
    BY <2>5 DEF g
  <2>7. Sums(g, a, UpTo(U, n + 1))
    BY <2>6 DEF Sums
  <2>8. n + 1 \in 0 .. N
    BY <1>2, <1>0
  <2> QED
    BY <2>7, <2>8
<1>3. A = 0 .. N
  BY <1>0, <1>1, <1>2, Climb
<1>4. PICK f : Sums(f, a, UpTo(U, N))
  BY <1>0, <1>3
<1>5. UpTo(U, N) = SUBSET U
  BY <1>0 DEF UpTo
<1> QED
  BY <1>4, <1>5

\* The sum of a set is the same however large the universe.
Same(a, b, V) == \A x \in V : a[x] = b[x]

LEMMA SumsAgree ==
    ASSUME NEW U, IsFiniteSet(U), NEW V \in SUBSET U, NEW a, NEW b, NEW f, NEW g,
           Same(a, b, V),
           Sums(f, a, SUBSET U), Sums(g, b, SUBSET V)
    PROVE  f[V] = g[V]
<1> DEFINE N == Cardinality(V)
           A == {n \in 0 .. N : \A s \in UpTo(V, n) : f[s] = g[s]}
<1>0. IsFiniteSet(V) /\ N \in Nat
       /\ \A s \in SUBSET V : IsFiniteSet(s) /\ Cardinality(s) \in Nat /\ Cardinality(s) <= N
  BY FS_Subset, FS_CardinalityType
<1>f. \A s \in SUBSET V : f[s] = IF s = {} THEN 0 ELSE a[Pick(s)] + f[s \ {Pick(s)}]
  BY DEF Sums
<1>g. \A s \in SUBSET V : g[s] = IF s = {} THEN 0 ELSE b[Pick(s)] + g[s \ {Pick(s)}]
  BY DEF Sums
<1>1. 0 \in A
  <2>1. UpTo(V, 0) = {{}}
    BY <1>0, FS_EmptySet DEF UpTo
  <2>2. f[{}] = 0 /\ g[{}] = 0
    BY <1>f, <1>g
  <2>3. 0 \in 0 .. N
    BY <1>0
  <2> QED
    BY <2>1, <2>2, <2>3
<1>2. ASSUME NEW n \in A, n < N PROVE n + 1 \in A
  <2>1. ASSUME NEW s \in UpTo(V, n + 1), s # {} PROVE f[s] = g[s]
    <3>1. s \in SUBSET V /\ Cardinality(s) <= n + 1 /\ Pick(s) \in s
      BY <2>1, Picked DEF UpTo
    <3>2. s \ {Pick(s)} \in SUBSET V /\ Cardinality(s \ {Pick(s)}) = Cardinality(s) - 1
      BY <3>1, <1>0, SmallerSet
    <3>3. s \ {Pick(s)} \in UpTo(V, n)
      BY <3>1, <3>2, <1>0 DEF UpTo
    <3>4. a[Pick(s)] = b[Pick(s)]
      BY <3>1 DEF Same
    <3> QED
      BY <3>1, <3>3, <3>4, <2>1, <1>f, <1>g
  <2>2. \A s \in UpTo(V, n + 1) : f[s] = g[s]
    BY <2>1, <1>f, <1>g DEF UpTo
  <2>3. n + 1 \in 0 .. N
    BY <1>2, <1>0
  <2> QED
    BY <2>2, <2>3
<1>3. A = 0 .. N
  BY <1>0, <1>1, <1>2, Climb
<1>4. V \in UpTo(V, N)
  BY <1>0 DEF UpTo
<1> QED
  BY <1>0, <1>3, <1>4

\* Any member may be taken off first.
Adds(f, a, U) == /\ f[{}] = 0
                 /\ \A s \in SUBSET U : /\ f[s] \in Nat
                                        /\ \A x \in s : f[s] = a[x] + f[s \ {x}]

LEMMA SumsTake ==
    ASSUME NEW U, IsFiniteSet(U), NEW a \in [U -> Nat], NEW f, Sums(f, a, SUBSET U)
    PROVE  Adds(f, a, U)
<1> DEFINE N == Cardinality(U)
           P(s) == f[s] \in Nat /\ \A x \in s : f[s] = a[x] + f[s \ {x}]
           A == {n \in 0 .. N : \A s \in UpTo(U, n) : P(s)}
<1>0. N \in Nat
       /\ \A s \in SUBSET U : IsFiniteSet(s) /\ Cardinality(s) \in Nat /\ Cardinality(s) <= N
  BY FS_Subset, FS_CardinalityType
<1>f. \A s \in SUBSET U : f[s] = IF s = {} THEN 0 ELSE a[Pick(s)] + f[s \ {Pick(s)}]
  BY DEF Sums
<1>e. f[{}] = 0
  BY <1>f
<1>1. 0 \in A
  <2>1. UpTo(U, 0) = {{}}
    BY <1>0, FS_EmptySet DEF UpTo
  <2>2. P({})
    BY <1>e
  <2>3. \A s \in UpTo(U, 0) : P(s)
    BY <2>1, <2>2
  <2>4. 0 \in 0 .. N
    BY <1>0
  <2> QED
    BY <2>3, <2>4
<1>2. ASSUME NEW n \in A, n < N PROVE n + 1 \in A
  <2>0. n \in Nat /\ \A s \in UpTo(U, n) : P(s)
    BY <1>0
  <2> HIDE DEF P, A
  <2>1. ASSUME NEW s \in UpTo(U, n + 1), s # {} PROVE P(s)
    <3> DEFINE p == Pick(s)
    <3>1. s \in SUBSET U /\ Cardinality(s) <= n + 1 /\ p \in s
      BY <2>1, Picked DEF UpTo
    <3>2. \A x \in s : s \ {x} \in UpTo(U, n)
      <4> SUFFICES ASSUME NEW x \in s PROVE s \ {x} \in UpTo(U, n)
        OBVIOUS
      <4>1. s \ {x} \in SUBSET U /\ Cardinality(s \ {x}) = Cardinality(s) - 1
        BY <3>1, <1>0, SmallerSet
      <4> QED
        BY <4>1, <3>1, <2>0, <1>0 DEF UpTo
    <3>3. f[s] = a[p] + f[s \ {p}]
      BY <3>1, <2>1, <1>f
    <3>4. \A x \in s : P(s \ {x})
      BY <3>2, <2>0
    <3> HIDE DEF p
    <3>5. f[s] \in Nat
      <4>1. f[s \ {p}] \in Nat /\ a[p] \in Nat
        BY <3>1, <3>4 DEF P
      <4> QED
        BY <3>3, <4>1
    <3>6. ASSUME NEW x \in s, x # p PROVE f[s] = a[x] + f[s \ {x}]
      <4>1. f[s \ {p}] = a[x] + f[(s \ {p}) \ {x}]
        BY <3>1, <3>4, <3>6 DEF P
      <4>2. f[s \ {x}] = a[p] + f[(s \ {x}) \ {p}]
        BY <3>1, <3>4, <3>6 DEF P
      <4>3. (s \ {p}) \ {x} = (s \ {x}) \ {p}
        OBVIOUS
      <4>4. f[s \ {p}] \in Nat /\ f[s \ {x}] \in Nat /\ a[x] \in Nat /\ a[p] \in Nat
        BY <3>1, <3>4 DEF P
      <4>5. f[(s \ {p}) \ {x}] \in Nat
        <5>1. s \ {p} \in UpTo(U, n) /\ x \in s \ {p}
          BY <3>1, <3>2, <3>6
        <5>2. (s \ {p}) \ {x} \in SUBSET U /\ Cardinality((s \ {p}) \ {x}) = Cardinality(s \ {p}) - 1
          BY <5>1, SmallerSet DEF UpTo
        <5>3. (s \ {p}) \ {x} \in UpTo(U, n)
          BY <5>1, <5>2, <2>0, <1>0 DEF UpTo
        <5> QED
          BY <5>3, <2>0 DEF P
      <4> DEFINE r == f[(s \ {p}) \ {x}]
                 ax == a[x]
                 ap == a[p]
                 fx == f[s \ {x}]
                 fp == f[s \ {p}]
      <4>6. f[s] = ap + fp /\ fp = ax + r /\ fx = ap + r
        BY <3>3, <4>1, <4>2, <4>3
      <4>7. ax \in Nat /\ ap \in Nat /\ r \in Nat
        BY <4>4, <4>5
      <4> HIDE DEF r, ax, ap, fx, fp
      <4>8. f[s] = ax + fx
        BY <4>6, <4>7
      <4> QED
        BY <4>8 DEF ax, fx
    <3> QED
      BY <3>3, <3>5, <3>6 DEF P
  <2>2. P({})
    BY <1>e DEF P
  <2>3. \A s \in UpTo(U, n + 1) : P(s)
    BY <2>1, <2>2
  <2>4. n + 1 \in 0 .. N
    BY <1>2, <1>0 DEF A
  <2> QED
    BY <2>3, <2>4 DEF A
<1>3. A = 0 .. N
  BY <1>0, <1>1, <1>2, Climb
<1>4. \A s \in SUBSET U : s \in UpTo(U, N)
  BY <1>0 DEF UpTo
<1>5. \A s \in SUBSET U : P(s)
  BY <1>0, <1>3, <1>4
<1> QED
  BY <1>5, <1>e DEF Adds

\* One value changes, and the sum with it.
Moves(f, g, a, b, U, x) == \E r \in Nat : f[U] = a[x] + r /\ g[U] = b[x] + r

LEMMA SumsMove ==
    ASSUME NEW U, IsFiniteSet(U), NEW x \in U, NEW a, a \in [U -> Nat], NEW b, b \in [U -> Nat],
           Same(a, b, U \ {x}),
           NEW f, Sums(f, a, SUBSET U), NEW g, Sums(g, b, SUBSET U)
    PROVE  Moves(f, g, a, b, U, x)
<1>1. PICK V \in SUBSET U : V = U \ {x}
  OBVIOUS
<1>2. IsFiniteSet(V)
  BY FS_Subset
<1>3. PICK h : Sums(h, a, SUBSET V)
  BY <1>2, SumsExist
<1>4. Same(a, a, V) /\ Same(b, a, V)
  BY <1>1 DEF Same
<1>5. f[V] = h[V]
  BY <1>3, <1>4, SumsAgree
<1>6. g[V] = h[V]
  BY <1>3, <1>4, SumsAgree
<1>7. Adds(f, a, U) /\ Adds(g, b, U)
  BY SumsTake
<1>8. f[U] = a[x] + f[V] /\ g[U] = b[x] + g[V] /\ f[V] \in Nat
  BY <1>1, <1>7 DEF Adds
<1> QED
  BY <1>5, <1>6, <1>8 DEF Moves

\* Bytes of samples, and of a user at a set of servers.
BytesOf(S) == MapThenSumSet(LAMBDA x : x.bytes, S)
Held(cs, u) == MapThenSumSet(LAMBDA s : cs[s][u], Servers)
Of(batch, u) == {x \in batch : x.user = u}

LEMMA MissingSum ==
    \A u : Missing(u) = owed[u] - Held(counters, u) - BytesOf(Of(tick.batch, u))
BY DEF Missing, AtXray, Bytes, Held, BytesOf, Of

LEMMA MissingSumNext ==
    \A u : Missing(u)' = owed'[u] - Held(counters', u) - BytesOf(Of(tick'.batch, u))
<1>1. (\A u : Missing(u) = owed[u] - Held(counters, u) - BytesOf(Of(tick.batch, u)))'
  BY MissingSum, PTL
<1> QED
  BY <1>1 DEF Of

LEMMA BytesIsSum ==
    ASSUME NEW S, IsFiniteSet(S)
    PROVE  \E f : Sums(f, [x \in S |-> x.bytes], SUBSET S) /\ BytesOf(S) = f[S]
<1> DEFINE a == [x \in S |-> x.bytes]
           R(f) == f = [s \in SUBSET S |-> IF s = {} THEN 0
                        ELSE (CHOOSE x \in s : TRUE).bytes + f[s \ {CHOOSE x \in s : TRUE}]]
<1>1. \A f : R(f) <=> Sums(f, a, SUBSET S)
  <2>1. \A f : \A s \in SUBSET S :
          (IF s = {} THEN 0
           ELSE (CHOOSE x \in s : TRUE).bytes + f[s \ {CHOOSE x \in s : TRUE}])
           = (IF s = {} THEN 0 ELSE a[Pick(s)] + f[s \ {Pick(s)}])
    BY Picked DEF Pick
  <2> QED
    BY <2>1 DEF Sums
<1>2. \E f : R(f)
  <2>1. \E f : Sums(f, a, SUBSET S)
    BY SumsExist
  <2> HIDE DEF R, a
  <2> QED
    BY <1>1, <2>1
<1>3. BytesOf(S) = (CHOOSE f : R(f))[S]
  BY DEF BytesOf, MapThenSumSet, MapThenFoldSet
<1>4. R(CHOOSE f : R(f))
  BY <1>2
<1> HIDE DEF R, a
<1> QED
  BY <1>1, <1>3, <1>4 DEF a

\* One more sample, and its bytes are added.
LEMMA BytesAdd ==
    ASSUME NEW S \in SUBSET Sample, IsFiniteSet(S)
    PROVE  /\ BytesOf(S) \in Nat
           /\ \A x \in Sample \ S : BytesOf(S \cup {x}) = BytesOf(S) + x.bytes
<1> DEFINE b == [x \in S |-> x.bytes]
<1>1. PICK g : Sums(g, b, SUBSET S) /\ BytesOf(S) = g[S]
  BY BytesIsSum
<1>2. BytesOf(S) \in Nat
  <2>1. b \in [S -> Nat] /\ S \in SUBSET S
    BY DEF Sample
  <2> HIDE DEF b
  <2>2. Adds(g, b, S)
    BY <1>1, <2>1, SumsTake
  <2> QED
    BY <1>1, <2>1, <2>2 DEF Adds
<1>3. ASSUME NEW x \in Sample \ S PROVE BytesOf(S \cup {x}) = BytesOf(S) + x.bytes
  <2> DEFINE U == S \cup {x}
             a == [y \in U |-> y.bytes]
  <2>1. IsFiniteSet(U) /\ S \in SUBSET U /\ U \ {x} = S /\ U \in SUBSET U /\ x \in U
    BY <1>3, FS_AddElement
  <2>2. a \in [U -> Nat] /\ a[x] = x.bytes /\ x.bytes \in Nat
    BY DEF Sample
  <2>3. Same(a, b, S)
    BY DEF Same
  <2>4. PICK f : Sums(f, a, SUBSET U) /\ BytesOf(U) = f[U]
    BY <2>1, BytesIsSum
  <2> HIDE DEF U, a, b
  <2>5. f[S] = g[S]
    BY <1>1, <2>1, <2>3, <2>4, SumsAgree
  <2>6. f[U] = a[x] + f[U \ {x}]
    <3>1. Adds(f, a, U)
      BY <2>1, <2>2, <2>4, SumsTake
    <3> QED
      BY <2>1, <3>1 DEF Adds
  <2>7. BytesOf(U) = a[x] + BytesOf(S)
    BY <1>1, <2>1, <2>4, <2>5, <2>6
  <2>8. BytesOf(U) = BytesOf(S) + x.bytes
    BY <1>2, <2>2, <2>7
  <2> QED
    BY <2>8 DEF U
<1> QED
  BY <1>2, <1>3

LEMMA BytesOfNothing == BytesOf({}) = 0
<1>1. PICK f : Sums(f, [x \in {} |-> x.bytes], SUBSET {}) /\ BytesOf({}) = f[{}]
  BY FS_EmptySet, BytesIsSum
<1> QED
  BY <1>1 DEF Sums

LEMMA HeldIsSum ==
    ASSUME NEW cs, NEW u
    PROVE  \E f : Sums(f, [s \in Servers |-> cs[s][u]], SUBSET Servers) /\ Held(cs, u) = f[Servers]
<1> DEFINE a == [s \in Servers |-> cs[s][u]]
           R(f) == f = [s \in SUBSET Servers |-> IF s = {} THEN 0
                        ELSE cs[CHOOSE x \in s : TRUE][u] + f[s \ {CHOOSE x \in s : TRUE}]]
<1>1. \A f : R(f) <=> Sums(f, a, SUBSET Servers)
  <2>1. \A f : \A s \in SUBSET Servers :
          (IF s = {} THEN 0
           ELSE cs[CHOOSE x \in s : TRUE][u] + f[s \ {CHOOSE x \in s : TRUE}])
           = (IF s = {} THEN 0 ELSE a[Pick(s)] + f[s \ {Pick(s)}])
    BY Picked DEF Pick
  <2> QED
    BY <2>1 DEF Sums
<1>2. \E f : R(f)
  <2>1. \E f : Sums(f, a, SUBSET Servers)
    BY AccessAssumption, SumsExist
  <2> HIDE DEF R, a
  <2> QED
    BY <1>1, <2>1
<1>3. Held(cs, u) = (CHOOSE f : R(f))[Servers]
  BY DEF Held, MapThenSumSet, MapThenFoldSet
<1>4. R(CHOOSE f : R(f))
  BY <1>2
<1> HIDE DEF R, a
<1> QED
  BY <1>1, <1>3, <1>4 DEF a

\* The counter of one server changes, and the sum with it.
LEMMA HeldMoves ==
    ASSUME NEW cs \in [Servers -> [Users -> Nat]], NEW u \in Users
    PROVE  /\ Held(cs, u) \in Nat
           /\ \A ds \in [Servers -> [Users -> Nat]], s \in Servers :
                 (\A t \in Servers \ {s} : ds[t][u] = cs[t][u])
                    => Held(ds, u) = Held(cs, u) - cs[s][u] + ds[s][u]
<1>0. IsFiniteSet(Servers)
  BY AccessAssumption
<1> DEFINE a(es) == [t \in Servers |-> es[t][u]]
<1>1. \A es \in [Servers -> [Users -> Nat]] : a(es) \in [Servers -> Nat]
  OBVIOUS
<1>2. ASSUME NEW es \in [Servers -> [Users -> Nat]]
      PROVE  \E f : /\ Sums(f, a(es), SUBSET Servers) /\ Held(es, u) = f[Servers]
                    /\ Adds(f, a(es), Servers)
  <2>1. PICK f : Sums(f, a(es), SUBSET Servers) /\ Held(es, u) = f[Servers]
    BY HeldIsSum
  <2> DEFINE b == a(es)
  <2>2. Sums(f, b, SUBSET Servers) /\ b \in [Servers -> Nat]
    BY <1>1, <2>1
  <2> HIDE DEF b
  <2>3. Adds(f, b, Servers)
    BY <1>0, <2>2, SumsTake
  <2> QED
    BY <2>1, <2>3 DEF b
<1>3. Held(cs, u) \in Nat
  BY <1>2 DEF Adds
<1>4. ASSUME NEW ds \in [Servers -> [Users -> Nat]], NEW s \in Servers,
             \A t \in Servers \ {s} : ds[t][u] = cs[t][u]
      PROVE  Held(ds, u) = Held(cs, u) - cs[s][u] + ds[s][u]
  <2>0. PICK A, B : A = a(cs) /\ B = a(ds)
    OBVIOUS
  <2>1. PICK f : Sums(f, A, SUBSET Servers) /\ Held(cs, u) = f[Servers]
    BY <1>2, <2>0
  <2>2. PICK g : Sums(g, B, SUBSET Servers) /\ Held(ds, u) = g[Servers]
    BY <1>2, <2>0
  <2>3. Same(A, B, Servers \ {s})
    BY <1>4, <2>0 DEF Same
  <2>4. A[s] = cs[s][u] /\ B[s] = ds[s][u]
    BY <2>0
  <2>5. A \in [Servers -> Nat] /\ B \in [Servers -> Nat]
    BY <1>1, <2>0
  <2> HIDE DEF a
  <2>6. Moves(f, g, A, B, Servers, s)
    BY <1>0, <2>1, <2>2, <2>3, <2>5, SumsMove
  <2>7. PICK r \in Nat : Held(cs, u) = cs[s][u] + r /\ Held(ds, u) = ds[s][u] + r
    BY <2>1, <2>2, <2>4, <2>6 DEF Moves
  <2> QED
    BY <2>7
<1> QED
  BY <1>3, <1>4

LEMMA HeldOfNothing ==
    ASSUME NEW cs, NEW u, \A s \in Servers : cs[s][u] = 0
    PROVE  Held(cs, u) = 0
<1>0. IsFiniteSet(Servers)
  BY AccessAssumption
<1>1. PICK a : a = [s \in Servers |-> cs[s][u]]
  OBVIOUS
<1>2. PICK f : Sums(f, a, SUBSET Servers) /\ Held(cs, u) = f[Servers]
  BY <1>1, HeldIsSum
<1>3. PICK g : g = [z \in SUBSET Servers |-> 0]
  OBVIOUS
<1>4. Sums(g, a, SUBSET Servers)
  <2>1. \A z \in SUBSET Servers : z # {} => a[Pick(z)] = 0 /\ z \ {Pick(z)} \in SUBSET Servers
    BY <1>1, Picked
  <2>2. \A z \in SUBSET Servers : (IF z = {} THEN 0 ELSE a[Pick(z)] + g[z \ {Pick(z)}]) = 0
    BY <1>3, <2>1
  <2> QED
    BY <1>3, <2>2 DEF Sums
<1>5. Same(a, a, Servers) /\ Servers \in SUBSET Servers
  BY DEF Same
<1>6. f[Servers] = g[Servers]
  BY <1>0, <1>2, <1>4, <1>5, SumsAgree
<1> QED
  BY <1>2, <1>3, <1>6
-----------------------------------------------------------------------------
(* Bytes.  What a step takes from a counter is in the batch afterwards, or   *)
(* was dropped on purpose, or its loss has a cause.                          *)

Explained(u) == faults > 0 \/ torn \/ u \in disabled

\* A tick goes on with the rows it has read until one comes or goes; who has no
\* row has lost it, or never had one and no counter.
Quiet(u) == RowsOf(u) = {} => u \in disabled \/ \A s \in Servers : counters[s][u] = 0

LossInv ==
    /\ IsFiniteSet(tick.batch)
    /\ \A x \in tick.batch : x.row = tick.ids[x.user]
    /\ tick.pc = "query" /\ ~torn => tick.ids \in IdsByEmail
    /\ \A u \in Users : Quiet(u)
    /\ owed \in [Users -> Int]
    /\ LossHasACause

\* What is missing is a number, before the step and after it.
LEMMA MissingIs ==
    ASSUME TrafficTypeOK, IsFiniteSet(tick.batch), owed \in [Users -> Int], NEW u \in Users
    PROVE  \E o \in Int, h, b \in Nat :
              /\ o = owed[u] /\ h = Held(counters, u) /\ b = BytesOf(Of(tick.batch, u))
              /\ Missing(u) = o - h - b
<1>1. counters \in [Servers -> [Users -> Nat]] /\ tick.batch \subseteq Sample
  BY DEF TrafficTypeOK
<1>2. Held(counters, u) \in Nat
  BY <1>1, HeldMoves
<1>3. Of(tick.batch, u) \in SUBSET Sample /\ IsFiniteSet(Of(tick.batch, u))
  BY <1>1, FS_Subset DEF Of
<1>4. BytesOf(Of(tick.batch, u)) \in Nat
  BY <1>3, BytesAdd
<1> QED
  BY <1>2, <1>4, MissingSum DEF LossInv

\* A step that takes nothing anywhere.
LEMMA LossAside ==
    ASSUME LossInv, UNCHANGED <<counters, tick, owed>>, faults \in Nat, faults' \in Nat, faults' >= faults,
           torn => torn', disabled \subseteq disabled',
           tick.pc = "query" /\ ~torn' => row' = row,
           \A u \in Users : Quiet(u)'
    PROVE  LossInv'
<1>1. \A u \in Users : Missing(u)' = Missing(u)
  BY MissingSum, MissingSumNext
<1>2. LossHasACause'
  BY <1>1 DEF LossInv, LossHasACause
<1>3. tick'.pc = "query" /\ ~torn' => tick'.ids \in IdsByEmail'
  BY RowsStay DEF LossInv
<1> QED
  BY <1>2, <1>3 DEF LossInv

\* A step that loses d bytes of u, for which there is a cause if it is not none.
LEMMA LossMoves ==
    ASSUME TrafficTypeOK, LossInv, NEW u \in Users, faults \in Nat, faults' \in Nat, faults' >= faults,
           torn' = torn, disabled' = disabled, NEW d \in Nat, Missing(u)' = Missing(u) + d,
           d > 0 => Explained(u)'
    PROVE  /\ Missing(u)' >= 0
           /\ Missing(u)' > 0 => Explained(u)'
<1>1. Missing(u) \in Int
  BY MissingIs DEF LossInv
<1>2. Missing(u) >= 0 /\ (Missing(u) > 0 => Explained(u))
  BY DEF LossInv, LossHasACause, Explained
<1>3. Explained(u) => Explained(u)'
  BY DEF Explained
<1> QED
  BY <1>1, <1>2, <1>3

\* One server's counters go into the batch of those whom the tick knows.
LEMMA CollectedBytes ==
    ASSUME TInv, LossInv, tick.todo # <<>>
    PROVE  /\ IsFiniteSet(tick.batch \cup Collected(Server))
           /\ \A x \in Collected(Server) : x.row = tick.ids[x.user]
           /\ \A u \in Users :
                 BytesOf(Of(tick.batch \cup Collected(Server), u))
                   = BytesOf(Of(tick.batch, u))
                       + (IF tick.ids[u] # 0 THEN counters[Server][u] ELSE 0)
<1>1. /\ Server \in Servers /\ Server \in ToSet(tick.todo) /\ tick.ids \in [Users -> Nat]
      /\ tick.batch \subseteq Sample /\ counters[Server] \in [Users -> Nat]
      /\ \A x \in tick.batch : x.server # Server
  BY TickFacts DEF TInv, TrafficTypeOK
<1> DEFINE sample(u) == [user |-> u, row |-> tick.ids[u], server |-> Server,
                         bytes |-> counters[Server][u]]
           Known == {u \in Users : counters[Server][u] > 0 /\ tick.ids[u] # 0}
<1>2. Collected(Server) = {sample(u) : u \in Known}
  BY DEF Collected
<1>3. \A u \in Known : sample(u) \in Sample
  BY <1>1 DEF Sample
<1>4. IsFiniteSet(tick.batch \cup Collected(Server))
  <2>1. IsFiniteSet(Known)
    BY AccessAssumption, FS_Subset
  <2>2. IsFiniteSet({sample(u) : u \in Known})
    <3> DEFINE T == {sample(u) : u \in Known}
               image == [u \in Known |-> sample(u)]
    <3>1. image \in Surjection(Known, T)
      BY DEF Surjection
    <3> HIDE DEF T, image
    <3>2. IsFiniteSet(T)
      BY <2>1, <3>1, FS_Surjection
    <3> QED
      BY <3>2 DEF T
  <2> QED
    BY <1>2, <2>2, FS_Union DEF LossInv
<1>5. \A x \in Collected(Server) : x.row = tick.ids[x.user]
  BY <1>2
<1>6. ASSUME NEW u \in Users
      PROVE  BytesOf(Of(tick.batch \cup Collected(Server), u))
               = BytesOf(Of(tick.batch, u)) + (IF tick.ids[u] # 0 THEN counters[Server][u] ELSE 0)
  <2>1. Of(tick.batch, u) \in SUBSET Sample /\ IsFiniteSet(Of(tick.batch, u))
    BY <1>1, FS_Subset DEF Of, LossInv
  <2>2. BytesOf(Of(tick.batch, u)) \in Nat
    BY <2>1, BytesAdd
  <2>3. CASE u \in Known
    <3>1. sample(u) \in Sample \ Of(tick.batch, u)
      BY <1>1, <1>3, <2>3 DEF Of
    <3>2. Of(tick.batch \cup Collected(Server), u) = Of(tick.batch, u) \cup {sample(u)}
      <4>1. \A x : x \in Collected(Server) /\ x.user = u <=> x = sample(u)
        BY <1>2, <2>3
      <4> QED
        BY <4>1 DEF Of
    <3>3. sample(u).bytes = counters[Server][u] /\ tick.ids[u] # 0
      BY <2>3
    <3> HIDE DEF sample
    <3> QED
      BY <2>1, <3>1, <3>2, <3>3, BytesAdd
  <2>4. CASE u \notin Known
    <3>1. Of(tick.batch \cup Collected(Server), u) = Of(tick.batch, u)
      BY <1>2, <2>4 DEF Of
    <3>2. counters[Server][u] = 0 \/ tick.ids[u] = 0
      BY <1>1, <2>4
    <3> QED
      BY <2>2, <3>1, <3>2
  <2> QED
    BY <2>3, <2>4
<1> QED
  BY <1>4, <1>5, <1>6

\* A server has been asked.
LEMMA AskedStep ==
    ASSUME AccessTypeOK, TInv, LossInv, QueryAllUserStats \/ QueryFails
    PROVE  LossInv'
<1>0. /\ TrafficTypeOK /\ tick.todo # <<>> /\ IsFiniteSet(tick.batch) /\ owed \in [Users -> Int]
      /\ counters \in [Servers -> [Users -> Nat]] /\ Server \in Servers
      /\ tick.pc = "query" /\ tick.batch \subseteq Sample
  BY TickFacts DEF QueryAllUserStats, QueryFails, LossInv, TInv, TrafficTypeOK
<1>1. /\ row' = row /\ torn' = torn /\ disabled' = disabled
      /\ faults \in Nat /\ faults' \in Nat /\ faults' >= faults
  BY AccessBounds DEF QueryAllUserStats, QueryFails, accessVars, Fault, AccessTypeOK
<1>2. /\ tick'.pc = tick.pc /\ tick'.ids = tick.ids
      /\ \/ Visited /\ tick'.batch = tick.batch
         \/ Collect /\ tick'.batch = tick.batch \cup Collected(Server)
  <2>1. Visited \/ Collect
    BY DEF QueryAllUserStats, QueryFails
  <2>2. tick \in [pc : {"idle", "query"}, ids : [Users -> Nat], todo : Seq(Servers), batch : SUBSET Sample]
    BY <1>0 DEF TrafficTypeOK
  <2> QED
    BY <2>1, <2>2 DEF Visited, Collect
<1>3. /\ IsFiniteSet(tick'.batch)
      /\ \A x \in tick'.batch : x.row = tick'.ids[x.user]
  BY <1>0, <1>2, CollectedBytes DEF LossInv
<1>4. tick'.pc = "query" /\ ~torn' => tick'.ids \in IdsByEmail'
  BY <1>0, <1>1, <1>2, RowsStay DEF LossInv
<1>5. counters' \in [Servers -> [Users -> Nat]]
  BY <1>0, IdleFacts DEF QueryAllUserStats, QueryFails, Reset
<1>5a. \A u \in Users : Quiet(u)'
  <2>1. \A t \in Servers, u \in Users : counters[t][u] = 0 => counters'[t][u] = 0
    BY <1>0 DEF QueryAllUserStats, QueryFails, Reset, Nobody
  <2> QED
    BY <1>1, <2>1, RowsStay DEF LossInv, Quiet
<1>6. owed' \in [Users -> Int]
  <2>1. CASE owed' = owed
    BY <1>0, <2>1
  <2>2. CASE owed' = [u \in Users |-> owed[u] - counters[Server][u]]
    BY <1>0, <2>2
  <2> QED
    BY <2>1, <2>2 DEF QueryAllUserStats, QueryFails
<1>7. ASSUME NEW u \in Users
      PROVE  Missing(u)' >= 0 /\ (Missing(u)' > 0 => Explained(u)')
  <2>1. PICK c \in Nat : c = counters[Server][u]
    BY <1>0
  <2>2. PICK o \in Int, h \in Nat, b \in Nat :
           /\ o = owed[u] /\ h = Held(counters, u) /\ b = BytesOf(Of(tick.batch, u))
           /\ Missing(u) = o - h - b
    BY <1>0, MissingIs
  <2>3. Missing(u)' = owed'[u] - Held(counters', u) - BytesOf(Of(tick'.batch, u))
    BY MissingSumNext
  <2>4. Reset(Server) => Held(counters', u) = h - c
    <3>1. SUFFICES ASSUME Reset(Server) PROVE Held(counters', u) = h - c
      OBVIOUS
    <3>2. counters'[Server][u] = 0 /\ \A t \in Servers \ {Server} : counters'[t][u] = counters[t][u]
      BY <1>0, <3>1 DEF Reset, Nobody
    <3>3. Held(counters', u) = Held(counters, u) - counters[Server][u] + counters'[Server][u]
      BY <1>0, <1>5, <3>2, HeldMoves
    <3> QED
      BY <2>1, <2>2, <3>2, <3>3
  <2>5. /\ Visited => BytesOf(Of(tick'.batch, u)) = b \/ Collect
        /\ Collect => BytesOf(Of(tick'.batch, u)) = b + (IF tick.ids[u] # 0 THEN c ELSE 0)
    <3>1. Collect => tick'.batch = tick.batch \cup Collected(Server)
      BY <1>0 DEF Collect, TrafficTypeOK
    <3> QED
      BY <1>0, <1>2, <2>1, <2>2, <3>1, CollectedBytes
  <2>6. CASE QueryAllUserStats
    <3>1. CASE Collect /\ owed' = owed
      <4>1. Missing(u)' = Missing(u) + (IF tick.ids[u] # 0 THEN 0 ELSE c)
        <5>1. Held(counters', u) = h - c
          BY <2>4, <2>6 DEF QueryAllUserStats
        <5>2. BytesOf(Of(tick'.batch, u)) = b + (IF tick.ids[u] # 0 THEN c ELSE 0)
          BY <2>5, <3>1
        <5>3. Missing(u)' = o - (h - c) - (b + (IF tick.ids[u] # 0 THEN c ELSE 0))
          BY <2>2, <2>3, <3>1, <5>1, <5>2
        <5> QED
          BY <2>1, <2>2, <5>3
      <4>2. tick.ids[u] = 0 => torn' \/ u \in disabled' \/ c = 0
        <5>1. ~torn => tick.ids \in IdsByEmail
          BY <1>0 DEF LossInv
        <5>2. \A ids \in IdsByEmail : ids[u] = 0 => RowsOf(u) = {}
          BY EmailFacts
        <5>3. ~torn /\ tick.ids[u] = 0 => RowsOf(u) = {}
          BY <5>1, <5>2
        <5> QED
          BY <1>0, <1>1, <2>1, <5>3 DEF LossInv, Quiet
      <4>3. CASE tick.ids[u] = 0
        BY <1>0, <1>1, <2>1, <4>1, <4>2, <4>3, LossMoves DEF Explained
      <4>4. CASE tick.ids[u] # 0
        <5>1. Missing(u)' = Missing(u) + 0
          BY <4>1, <4>4
        <5> QED
          BY <1>0, <1>1, <5>1, LossMoves
      <4> QED
        BY <4>3, <4>4
    <3>2. CASE Visited /\ owed' = [v \in Users |-> owed[v] - counters[Server][v]]
      <4>1. owed'[u] = o - c
        BY <2>1, <2>2, <3>2
      <4>2. Collect => Collected(Server) \subseteq tick.batch
        <5>1. tick \in [pc : {"idle", "query"}, ids : [Users -> Nat], todo : Seq(Servers), batch : SUBSET Sample]
          BY <1>0 DEF TrafficTypeOK
        <5> QED
          BY <3>2, <5>1 DEF Visited, Collect
      <4>3. BytesOf(Of(tick'.batch, u)) = b
        <5>1. tick'.batch = tick.batch
          BY <1>2, <4>2
        <5> QED
          BY <2>2, <5>1
      <4>4. Missing(u)' = Missing(u) + 0
        BY <2>1, <2>2, <2>3, <2>4, <2>6, <4>1, <4>3 DEF QueryAllUserStats
      <4> QED
        BY <1>0, <1>1, <4>4, LossMoves
    <3> QED
      BY <2>6, <3>1, <3>2 DEF QueryAllUserStats
  <2>7. CASE QueryFails
    <3>1. Explained(u)' /\ owed' = owed
      BY <1>1, <2>7 DEF QueryFails, Fault, Explained
    <3>2. \E d \in Nat : Missing(u)' = Missing(u) + d
      <4>1. CASE Visited /\ tick'.batch = tick.batch /\ Reset(Server)
        <5>1. Missing(u)' = Missing(u) + c
          BY <2>1, <2>2, <2>3, <2>4, <3>1, <4>1
        <5> QED
          BY <5>1
      <4>2. CASE Visited /\ tick'.batch = tick.batch /\ counters' = counters
        <5>1. Missing(u)' = Missing(u) + 0
          BY <2>1, <2>2, <2>3, <3>1, <4>2
        <5> QED
          BY <5>1
      <4>3. CASE Collect /\ Reset(Server)
        <5>1. Missing(u)' = Missing(u) + (IF tick.ids[u] # 0 THEN 0 ELSE c)
          BY <2>1, <2>2, <2>3, <2>4, <2>5, <3>1, <4>3
        <5> QED
          BY <5>1
      <4>4. Collect /\ counters' = counters => Visited \/ Reset(Server)
        BY <2>7 DEF QueryFails
      <4>5. Visited => tick'.batch = tick.batch
        <5>1. tick \in [pc : {"idle", "query"}, ids : [Users -> Nat], todo : Seq(Servers), batch : SUBSET Sample]
          BY <1>0 DEF TrafficTypeOK
        <5> QED
          BY <5>1 DEF Visited
      <4> QED
        BY <2>7, <4>1, <4>2, <4>3, <4>5 DEF QueryFails
    <3> QED
      BY <1>0, <1>1, <3>1, <3>2, LossMoves
  <2> QED
    BY <2>6, <2>7
<1>8. LossHasACause'
  BY <1>7 DEF LossHasACause, Explained
<1> QED
  BY <1>3, <1>4, <1>5a, <1>6, <1>8 DEF LossInv

\* The tick ends; what it had in memory is stored, or lost.
LEMMA EndedStep ==
    ASSUME AccessTypeOK, TInv, LossInv,
           InsertTrafficSamplesBatch \/ InsertFails \/ Restart
    PROVE  LossInv'
<1>0. /\ TrafficTypeOK /\ IsFiniteSet(tick.batch) /\ owed \in [Users -> Int]
      /\ tick.batch \subseteq Sample
  BY DEF LossInv, TInv, TrafficTypeOK
<1>1. /\ row' = row /\ torn' = torn /\ disabled' = disabled /\ counters' = counters
      /\ faults \in Nat /\ faults' \in Nat /\ faults' >= faults
      /\ tick'.pc = "idle" /\ tick'.batch = {}
  BY AccessBounds, IdleFacts
     DEF InsertTrafficSamplesBatch, InsertFails, Restart, accessVars, Fault, AccessTypeOK
<1>2. ASSUME NEW u \in Users
      PROVE  owed'[u] \in Int /\ Missing(u)' >= 0 /\ (Missing(u)' > 0 => Explained(u)')
  <2>1. PICK o \in Int, h \in Nat, b \in Nat :
           /\ o = owed[u] /\ h = Held(counters, u) /\ b = BytesOf(Of(tick.batch, u))
           /\ Missing(u) = o - h - b
    BY <1>0, MissingIs
  <2>2. BytesOf(Of(tick'.batch, u)) = 0
    <3>1. Of(tick'.batch, u) = {}
      BY <1>1 DEF Of
    <3> QED
      BY <3>1, BytesOfNothing
  <2>3. Missing(u)' = owed'[u] - h - 0
    BY <1>1, <2>1, <2>2, MissingSumNext
  <2>4. CASE owed' = [v \in Users |-> owed[v] - Bytes(tick.batch, v)]
    <3>1. owed'[u] = o - b
      BY <2>1, <2>4 DEF Bytes, BytesOf, Of
    <3>2. Missing(u)' = Missing(u) + 0 /\ owed'[u] \in Int
      BY <2>1, <2>3, <3>1
    <3> QED
      BY <1>0, <1>1, <3>2, LossMoves
  <2>5. CASE owed' = owed
    <3>1. Missing(u)' = Missing(u) + b /\ owed'[u] \in Int
      BY <2>1, <2>3, <2>5
    <3>2. b > 0 => Explained(u)'
      <4>1. CASE InsertFails \/ Restart
        BY <1>1, <4>1 DEF InsertFails, Restart, Fault, Explained
      <4>2. CASE InsertTrafficSamplesBatch /\ \E x \in tick.batch : \A i \in Subs : row[i] # x.row
        <5>1. PICK x \in tick.batch : \A i \in Subs : row[i] # x.row
          BY <4>2
        <5>2. x.user \in Users /\ x.row # 0 /\ tick.ids[x.user] = x.row /\ tick.pc = "query"
          BY <1>0, <4>2 DEF LossInv, Sample, InsertTrafficSamplesBatch
        <5>3. tick.ids \notin IdsByEmail
          BY <5>1, <5>2, EmailFacts
        <5> QED
          BY <1>1, <5>2, <5>3 DEF LossInv, Explained
      <4>3. CASE InsertTrafficSamplesBatch /\ \A x \in tick.batch : \E i \in Subs : row[i] = x.row
        <5>1. o = o - b
          BY <2>1, <2>5, <4>3 DEF InsertTrafficSamplesBatch, Bytes, BytesOf, Of
        <5> QED
          BY <5>1
      <4> QED
        BY <4>1, <4>2, <4>3
    <3> QED
      BY <1>0, <1>1, <3>1, <3>2, LossMoves
  <2> QED
    BY <2>4, <2>5 DEF InsertTrafficSamplesBatch, InsertFails, Restart
<1>3. owed' \in [Users -> Int]
  <2>1. \/ owed' = owed
        \/ owed' = [v \in Users |-> owed[v] - Bytes(tick.batch, v)]
    BY DEF InsertTrafficSamplesBatch, InsertFails, Restart
  <2> QED
    BY <1>0, <1>2, <2>1
<1>4. LossHasACause'
  BY <1>2 DEF LossHasACause, Explained
<1>5. IsFiniteSet(tick'.batch) /\ \A x \in tick'.batch : x.row = tick'.ids[x.user]
  BY <1>1, FS_EmptySet
<1>6. \A u \in Users : Quiet(u)'
  BY <1>1, RowsStay DEF LossInv, Quiet
<1> QED
  BY <1>1, <1>3, <1>4, <1>5, <1>6 DEF LossInv

\* Xray counts a byte.
LEMMA CountedStep ==
    ASSUME AccessTypeOK, TInv, LossInv, NEW u \in Users, NEW s \in Servers, UserTraffic(u, s)
    PROVE  LossInv'
<1>0. /\ TrafficTypeOK /\ IsFiniteSet(tick.batch) /\ owed \in [Users -> Int]
      /\ counters \in [Servers -> [Users -> Nat]]
  BY DEF LossInv, TInv, TrafficTypeOK
<1>1. /\ row' = row /\ torn' = torn /\ disabled' = disabled /\ tick' = tick
      /\ faults \in Nat /\ faults' = faults
  BY AccessBounds DEF UserTraffic, AccessTypeOK
<1>2. /\ counters' \in [Servers -> [Users -> Nat]] /\ counters'[s][u] = counters[s][u] + 1
      /\ \A t \in Servers, v \in Users : t # s \/ v # u => counters'[t][v] = counters[t][v]
  BY <1>0 DEF UserTraffic
<1>3. owed' \in [Users -> Int] /\ owed'[u] = owed[u] + 1 /\ \A v \in Users \ {u} : owed'[v] = owed[v]
  BY <1>0 DEF UserTraffic
<1>4. ASSUME NEW v \in Users
      PROVE  Missing(v)' >= 0 /\ (Missing(v)' > 0 => Explained(v)')
  <2>1. PICK o \in Int, h \in Nat, b \in Nat :
           /\ o = owed[v] /\ h = Held(counters, v) /\ b = BytesOf(Of(tick.batch, v))
           /\ Missing(v) = o - h - b
    BY <1>0, MissingIs
  <2>2. Held(counters', v) = Held(counters, v) - counters[s][v] + counters'[s][v]
    <3>1. \A t \in Servers \ {s} : counters'[t][v] = counters[t][v]
      BY <1>2
    <3> QED
      BY <1>0, <1>2, <3>1, HeldMoves
  <2>3. PICK c \in Nat, d \in Nat : c = counters[s][v] /\ d = counters'[s][v]
    BY <1>0, <1>2
  <2>4. Missing(v)' = owed'[v] - (h - c + d) - b
    BY <1>1, <2>1, <2>2, <2>3, MissingSumNext
  <2>5. owed'[v] = o + (d - c)
    BY <1>2, <1>3, <2>1, <2>3
  <2>6. Missing(v)' = Missing(v) + 0
    BY <2>1, <2>3, <2>4, <2>5
  <2> QED
    BY <1>0, <1>1, <2>6, LossMoves
<1>5. LossHasACause'
  BY <1>4 DEF LossHasACause, Explained
<1>6. \A v \in Users : Quiet(v)'
  <2>1. RowsOf(u) # {}
    BY DEF UserTraffic
  <2> QED
    BY <1>1, <1>2, <2>1, RowsStay DEF LossInv, Quiet
<1>7. tick'.pc = "query" /\ ~torn' => tick'.ids \in IdsByEmail'
  BY <1>1, RowsStay DEF LossInv
<1> QED
  BY <1>1, <1>3, <1>5, <1>6, <1>7 DEF LossInv

\* A tick reads the rows.
LEMMA StartedStep ==
    ASSUME AccessTypeOK, TInv, LossInv, StartTick(Active)
    PROVE  LossInv'
<1>0. TrafficTypeOK /\ IsFiniteSet(tick.batch) /\ owed \in [Users -> Int]
  BY DEF LossInv, TInv
<1>1. /\ row' = row /\ torn' = torn /\ disabled' = disabled /\ counters' = counters /\ owed' = owed
      /\ faults \in Nat /\ faults' = faults /\ tick'.batch = {} /\ tick'.ids \in IdsByEmail /\ tick.pc = "idle"
  BY AccessBounds DEF StartTick, AccessTypeOK
<1>2. tick.batch = {}
  BY <1>0, <1>1, IdleFacts DEF TrafficTypeOK
<1>3. \A u \in Users : Missing(u)' = Missing(u)
  BY <1>1, <1>2, MissingSum, MissingSumNext
<1>4. LossHasACause'
  BY <1>1, <1>3 DEF LossInv, LossHasACause
<1>5. tick'.ids \in IdsByEmail' /\ \A u \in Users : Quiet(u)'
  BY <1>1, RowsStay DEF LossInv, Quiet
<1> QED
  BY <1>1, <1>4, <1>5, FS_EmptySet DEF LossInv

LEMMA LossInit == Init => LossInv
<1> SUFFICES ASSUME Init PROVE LossInv
  OBVIOUS
<1>0. AccessInit /\ TrafficInit /\ tick = Idle /\ counters = [s \in Servers |-> Nobody] /\ owed = Nobody
  BY DEF Init, TrafficInit
<1>2. /\ tick.batch = {} /\ tick.pc = "idle" /\ owed \in [Users -> Int]
      /\ counters \in [Servers -> [Users -> Nat]] /\ \A s \in Servers, u \in Users : counters[s][u] = 0
  BY <1>0, IdleFacts DEF Nobody
<1>3. ASSUME NEW u \in Users PROVE Missing(u) = 0
  <2>1. BytesOf(Of(tick.batch, u)) = 0
    <3>1. Of(tick.batch, u) = {}
      BY <1>2 DEF Of
    <3> QED
      BY <3>1, BytesOfNothing
  <2>2. Held(counters, u) = 0
    BY <1>2, HeldOfNothing
  <2>3. owed[u] = 0
    BY <1>0 DEF Nobody
  <2> QED
    BY <2>1, <2>2, <2>3, MissingSum
<1>4. LossHasACause
  BY <1>3 DEF LossHasACause
<1> QED
  BY <1>2, <1>4, FS_EmptySet DEF LossInv, Quiet

LEMMA LossStep ==
    ASSUME IInv, LossInv, [Next]_vars
    PROVE  LossInv'
<1>0. /\ AInv /\ TInv /\ AccessTypeOK /\ faults \in Nat /\ now \in Nat
      /\ \A u \in Users : Quiet(u)
  BY AccessBounds DEF IInv, AInv, AccessTypeOK, LossInv
<1>1. CASE Rows
  <2>1. (\E i \in Subs : CreateVPNUser(i)) \/ (\E u \in Users : DisableVPNUser(u))
    BY <1>1 DEF Rows
  <2>2. UNCHANGED <<counters, tick, owed>> /\ TearTick /\ tick.pc \in {"idle", "query"}
    BY <1>0, <1>1 DEF Rows, TInv, TrafficTypeOK
  <2>3. faults' = faults /\ disabled \subseteq disabled'
    BY <2>1 DEF CreateVPNUser, DisableVPNUser
  <2>4. torn => torn'
    BY <2>2 DEF TearTick
  <2>5. tick.pc = "query" /\ ~torn' => row' = row
    BY <2>2 DEF TearTick
  <2>6. \A v \in Users : Quiet(v)'
    <3>1. row \in [Subs -> 0 .. drawn] /\ drawn \in Nat
      BY <1>0 DEF AccessTypeOK
    <3>2. ASSUME NEW i \in Subs, CreateVPNUser(i) PROVE \A v \in Users : Quiet(v)'
      <4>1. \A j \in Subs : row[j] # 0 => row'[j] = row[j]
        BY <3>1, <3>2 DEF CreateVPNUser
      <4>2. \A v \in Users : RowsOf(v)' = {} => RowsOf(v) = {}
        BY <4>1, UserFacts DEF RowsOf, SubsOf
      <4> QED
        BY <1>0, <2>2, <3>2, <4>2 DEF Quiet, CreateVPNUser
    <3>3. ASSUME NEW u \in Users, DisableVPNUser(u) PROVE \A v \in Users : Quiet(v)'
      <4>1. u \in disabled' \/ RowsOf(u) = {}
        BY <3>3 DEF DisableVPNUser
      <4>2. \A v \in Users \ {u} : RowsOf(v)' = RowsOf(v)
        <5>1. \A v \in Users \ {u} : \A i \in SubsOf(v) : i \in Subs /\ row'[i] = row[i]
          BY <3>3, UserFacts DEF DisableVPNUser, SubsOf
        <5> QED
          BY <5>1 DEF RowsOf
      <4> QED
        BY <1>0, <2>2, <2>3, <4>1, <4>2 DEF Quiet
    <3> QED
      BY <2>1, <3>2, <3>3
  <2> QED
    BY <1>0, <2>2, <2>3, <2>4, <2>5, <2>6, LossAside
<1>2. CASE Subscriptions
  <2>0. UNCHANGED <<counters, tick, owed, torn, row, disabled>>
    BY <1>2 DEF Subscriptions, trafficVars, Clock, ExpireOverdueSubscriptions, DisableFails, Purchase, CancelSubscription
  <2>2. faults' = faults \/ Fault
    BY <1>2 DEF Subscriptions, Clock, ExpireOverdueSubscriptions, DisableFails, Purchase, CancelSubscription
  <2>1. \A u \in Users : Quiet(u)'
    BY <1>0, <2>0, RowsStay DEF Quiet
  <2> QED
    BY <1>0, <2>0, <2>1, <2>2, LossAside DEF Fault
<1>3. CASE UseOfDevices
  <2>1. UNCHANGED <<counters, tick, owed, torn, row, disabled>> /\ (faults' = faults \/ Fault)
    BY <1>3 DEF UseOfDevices, trafficVars, accessVars, GenerateVLESSLink, GetSubscriptionConfig, GetActiveConnections,
       CheckLimit, UpsertActiveConnection, RegisterDeviceTouch, TouchTimesOut, DisconnectDevice, UpdateServerLoad,
       EditServer
  <2>2. \A u \in Users : Quiet(u)'
    BY <1>0, <2>1, RowsStay DEF Quiet
  <2> QED
    BY <1>0, <2>1, <2>2, LossAside DEF Fault
<1>4. CASE Counting
  BY <1>0, <1>4, StartedStep, AskedStep, CountedStep, EndedStep DEF Counting
<1>5. CASE Restart
  BY <1>0, <1>5, EndedStep
<1>6. CASE UNCHANGED vars
  <2>1. UNCHANGED <<counters, tick, owed, torn, row, disabled, faults>>
    BY <1>6 DEF vars, accessVars, trafficVars
  <2>2. \A u \in Users : Quiet(u)'
    BY <1>0, <2>1, RowsStay DEF Quiet
  <2> QED
    BY <1>0, <2>1, <2>2, LossAside
<1> QED
  BY <1>1, <1>2, <1>3, <1>4, <1>5, <1>6 DEF Next

-----------------------------------------------------------------------------
(* Configurations.                                                           *)

Distinct(held) == \A m, n \in DOMAIN held : held[m].id = held[n].id => m = n

\* A list of the servers at the places I, each once.
Block(list, held, I) ==
    /\ list \in Seq(PbServers)
    /\ \A n \in DOMAIN list : \E i \in I : list[n] = held[i]
    /\ \A i \in I : \E n \in DOMAIN list : list[n] = held[i]
    /\ \A m, n \in DOMAIN list : list[m].id = list[n].id => m = n

LEMMA SliceFacts ==
    ASSUME NEW held \in Seq(PbServers), Distinct(held),
           NEW I \in SUBSET DOMAIN held, NEW key \in [I -> Int]
    PROVE  Block(SliceStable(held, I, key), held, I)
<1>1. DOMAIN held = 1 .. Len(held) /\ Len(held) \in Nat /\ held \in [1 .. Len(held) -> PbServers]
  BY LenProperties
<1>2. I \in SUBSET Nat /\ IsFiniteSet(I)
  <2>1. IsFiniteSet(1 .. Len(held))
    BY <1>1, FS_Interval
  <2> QED
    BY <1>1, <2>1, FS_Subset
<1>3. PICK order : order = InOrder(I, key) /\ Lists(order, I)
  BY <1>2, OrderFacts
<1>4. order \in [1 .. Len(order) -> I] /\ Len(order) \in Nat
  <2>1. order \in Seq(I)
    BY <1>3 DEF Lists
  <2> QED
    BY <2>1, LenProperties
<1>5. SliceStable(held, I, key) = [n \in 1 .. Len(order) |-> held[order[n]]]
  BY <1>3, <1>4 DEF SliceStable
<1>6. SliceStable(held, I, key) \in [1 .. Len(order) -> PbServers]
  BY <1>1, <1>4, <1>5
<1>7. SliceStable(held, I, key) \in Seq(PbServers)
  BY <1>4, <1>6, SeqDef
<1>8. \A i \in I : \E n \in 1 .. Len(order) : order[n] = i
  BY <1>3, <1>4 DEF Lists
<1>9. \A m, n \in 1 .. Len(order) : held[order[m]].id = held[order[n]].id => m = n
  <2>1. \A n \in 1 .. Len(order) : order[n] \in DOMAIN held
    BY <1>4
  <2>2. \A m, n \in 1 .. Len(order) : order[m] = order[n] => m = n
    BY <1>3, <1>4 DEF Lists
  <2> QED
    BY <2>1, <2>2 DEF Distinct
<1>10. PICK list : list = SliceStable(held, I, key)
  OBVIOUS
<1>11. DOMAIN list = 1 .. Len(order) /\ \A n \in 1 .. Len(order) : list[n] = held[order[n]]
  BY <1>5, <1>10
<1>12. \A n \in DOMAIN list : \E i \in I : list[n] = held[i]
  BY <1>4, <1>11
<1>13. \A i \in I : \E n \in DOMAIN list : list[n] = held[i]
  BY <1>8, <1>11
<1>14. \A m, n \in DOMAIN list : list[m].id = list[n].id => m = n
  BY <1>9, <1>11
<1> QED
  BY <1>7, <1>10, <1>12, <1>13, <1>14 DEF Block

\* The two blocks take every server once between them.
LEMMA SplitFacts ==
    ASSUME NEW held \in Seq(PbServers), Distinct(held)
    PROVE  /\ Block(PriorityServers(held), held, {i \in DOMAIN held : held[i].priority > 0})
           /\ Block(NormalServers(held), held, {i \in DOMAIN held : held[i].priority <= 0})
<1>1. \A i \in DOMAIN held : held[i].priority \in Int
  <2>1. DOMAIN held = 1 .. Len(held) /\ held \in [1 .. Len(held) -> PbServers]
    BY LenProperties
  <2> QED
    BY <2>1 DEF PbServers
<1> DEFINE P == {i \in DOMAIN held : held[i].priority > 0}
           Q == {i \in DOMAIN held : held[i].priority <= 0}
<1>2. [i \in P |-> held[i].priority] \in [P -> Int] /\ [i \in Q |-> -held[i].priority] \in [Q -> Int]
  BY <1>1
<1>3. Block(PriorityServers(held), held, P)
  BY <1>2, SliceFacts DEF PriorityServers
<1>4. Block(NormalServers(held), held, Q)
  BY <1>2, SliceFacts DEF NormalServers
<1> QED
  BY <1>3, <1>4

LEMMA Least ==
    ASSUME NEW I \in SUBSET Nat, IsFiniteSet(I), I # {}
    PROVE  \E i \in I : \A j \in I : i <= j
<1> DEFINE key == [i \in I |-> 0]
<1>1. Cardinality(I) \in Nat \ {0}
  BY FS_CardinalityType, FS_EmptySet
<1>2. key \in [I -> Int] /\ 1 \in 1 .. Cardinality(I)
  BY <1>1
<1>3. PICK i \in I : Rank(I, key, i) = 1
  BY <1>2, Ranks
<1> DEFINE less == {j \in I : key[j] < key[i] \/ (key[j] = key[i] /\ j < i)}
<1>4. IsFiniteSet(less) /\ Cardinality(less) \in Nat /\ Cardinality(less) + 1 = 1
  BY <1>3, FS_Subset, FS_CardinalityType DEF Rank
<1>5. less = {}
  BY <1>4, FS_EmptySet
<1>6. \A j \in I : ~(j < i)
  BY <1>5
<1> QED
  BY <1>6

\* PickDefaultServer: of priority 0, and of the gateway's country, if there is
\* such a server.
LEMMA DefaultFacts ==
    ASSUME NEW held \in Seq(PbServers), held # <<>>
    PROVE  \E d \in DOMAIN held :
              /\ PickDefaultServer(held) = held[d]
              /\ (\E i \in DOMAIN held : held[i].priority = 0) => held[d].priority = 0
              /\ DefaultCountry # "" =>
                    \A i \in DOMAIN held :
                       held[i].priority = 0 /\ held[i].country = DefaultCountry
                          => held[d].country = DefaultCountry
<1>1. DOMAIN held = 1 .. Len(held) /\ Len(held) \in Nat \ {0} /\ held \in [1 .. Len(held) -> PbServers]
  BY LenProperties, EmptySeq
<1> DEFINE normal == {i \in DOMAIN held : held[i].priority = 0}
           pinned == {i \in normal : held[i].country = DefaultCountry}
           first(I) == CHOOSE i \in I : \A j \in I : i <= j
<1>2. ASSUME NEW I \in SUBSET DOMAIN held, I # {} PROVE first(I) \in I /\ First(held, I) = held[first(I)]
  <2>1. I \in SUBSET Nat /\ IsFiniteSet(I)
    <3>1. IsFiniteSet(1 .. Len(held))
      BY <1>1, FS_Interval
    <3> QED
      BY <1>1, <3>1, FS_Subset
  <2>2. \E i \in I : \A j \in I : i <= j
    BY <1>2, <2>1, Least
  <2> QED
    BY <2>2 DEF First
<1>3. normal \in SUBSET DOMAIN held /\ pinned \in SUBSET DOMAIN held
  OBVIOUS
<1>4. PickDefaultServer(held) = IF DefaultCountry # "" /\ pinned # {} THEN First(held, pinned)
                                ELSE IF normal # {} THEN First(held, normal) ELSE Head(held)
  BY DEF PickDefaultServer
<1>5. \A i \in DOMAIN held : /\ i \in normal <=> held[i].priority = 0
                             /\ i \in pinned <=> i \in normal /\ held[i].country = DefaultCountry
  OBVIOUS
<1> HIDE DEF normal, pinned, first
<1>6. CASE DefaultCountry # "" /\ pinned # {}
  <2>1. first(pinned) \in pinned /\ PickDefaultServer(held) = held[first(pinned)]
    BY <1>2, <1>3, <1>4, <1>6
  <2> QED
    BY <2>1, <1>3, <1>5
<1>7. CASE ~(DefaultCountry # "" /\ pinned # {}) /\ normal # {}
  <2>1. first(normal) \in normal /\ PickDefaultServer(held) = held[first(normal)]
    BY <1>2, <1>3, <1>4, <1>7
  <2> QED
    BY <2>1, <1>3, <1>5, <1>7
<1>8. CASE ~(DefaultCountry # "" /\ pinned # {}) /\ normal = {}
  <2>1. Head(held) = held[1] /\ 1 \in DOMAIN held
    BY <1>1, SubSeqFull, HeadTailOfSubSeq
  <2>2. PickDefaultServer(held) = held[1]
    BY <1>4, <1>8, <2>1
  <2> QED
    BY <2>1, <2>2, <1>5, <1>8
<1> QED
  BY <1>6, <1>7, <1>8

\* s is X and then Y.
Joined(s, X, Y, S) ==
    /\ s \in Seq(S) /\ Len(s) = Len(X) + Len(Y)
    /\ \A i \in 1 .. Len(X) : s[i] = X[i]
    /\ \A i \in 1 .. Len(Y) : s[Len(X) + i] = Y[i]

LEMMA Join ==
    ASSUME NEW S, NEW X \in Seq(S), NEW Y \in Seq(S), NEW s, s = X \o Y
    PROVE  Joined(s, X, Y, S)
<1>0. Len(X) \in Nat /\ Len(Y) \in Nat
  BY LenProperties
<1>1. X \o Y \in Seq(S) /\ Len(X \o Y) = Len(X) + Len(Y)
  BY ConcatProperties
<1>2. ASSUME NEW i \in 1 .. Len(X) PROVE (X \o Y)[i] = X[i]
  BY <1>0, ConcatProperties
<1>3. ASSUME NEW i \in 1 .. Len(Y) PROVE (X \o Y)[Len(X) + i] = Y[i]
  BY <1>0, ConcatProperties
<1> QED
  BY <1>1, <1>2, <1>3 DEF Joined

\* Both formats: an entry, a list, two entries, a list.
Laid(s, S, a, B, c, d, E, b, e) ==
    /\ s \in Seq(S) /\ Len(s) = b + e + 3
    /\ s[1] = a /\ s[b + 2] = c /\ s[b + 3] = d
    /\ \A i \in 1 .. b : s[i + 1] = B[i]
    /\ \A i \in 1 .. e : s[b + 3 + i] = E[i]

LEMMA Layout ==
    ASSUME NEW S, NEW a \in S, NEW B \in Seq(S), NEW c \in S, NEW d \in S, NEW E \in Seq(S),
           NEW s, s = <<a>> \o B \o <<c>> \o <<d>> \o E,
           NEW b \in Nat, b = Len(B), NEW e \in Nat, e = Len(E)
    PROVE  Laid(s, S, a, B, c, d, E, b, e)
<1>2. PICK A, C, D : A = <<a>> /\ C = <<c>> /\ D = <<d>>
  OBVIOUS
<1>3. /\ A \in Seq(S) /\ C \in Seq(S) /\ D \in Seq(S)
      /\ Len(A) = 1 /\ Len(C) = 1 /\ Len(D) = 1
      /\ A[1] = a /\ C[1] = c /\ D[1] = d
  BY <1>2
<1>4. PICK s1, s2, s3 : s1 = A \o B /\ s2 = s1 \o C /\ s3 = s2 \o D /\ s = s3 \o E
  BY <1>2
<1>5. s1 \in Seq(S) /\ Len(s1) = b + 1 /\ s1[1] = a /\ \A i \in 1 .. b : s1[i + 1] = B[i]
  <2>1. Joined(s1, A, B, S)
    BY <1>3, <1>4, Join
  <2>2. /\ s1 \in Seq(S) /\ Len(s1) = 1 + b
        /\ \A i \in 1 .. 1 : s1[i] = A[i]
        /\ \A i \in 1 .. b : s1[1 + i] = B[i]
    BY <1>3, <2>1 DEF Joined
  <2>3. ASSUME NEW i \in 1 .. b PROVE s1[i + 1] = B[i]
    <3>1. i + 1 = 1 + i
      OBVIOUS
    <3>2. s1[1 + i] = B[i]
      BY <2>2
    <3> QED
      BY <3>1, <3>2
  <2>4. s1[1] = a /\ Len(s1) = b + 1
    BY <1>3, <2>2
  <2> QED
    BY <2>2, <2>3, <2>4
<1>6. /\ s2 \in Seq(S) /\ Len(s2) = b + 2 /\ s2[b + 2] = c
      /\ \A i \in 1 .. b + 1 : s2[i] = s1[i]
  <2>1. Joined(s2, s1, C, S)
    BY <1>3, <1>4, <1>5, Join
  <2>2. /\ s2 \in Seq(S) /\ Len(s2) = b + 1 + 1
        /\ \A i \in 1 .. b + 1 : s2[i] = s1[i]
        /\ \A i \in 1 .. 1 : s2[b + 1 + i] = C[i]
    BY <1>3, <1>5, <2>1 DEF Joined
  <2>3. s2[b + 1 + 1] = c /\ b + 1 + 1 = b + 2
    BY <1>3, <2>2
  <2> QED
    BY <2>2, <2>3
<1>7. /\ s3 \in Seq(S) /\ Len(s3) = b + 3 /\ s3[b + 3] = d
      /\ \A i \in 1 .. b + 2 : s3[i] = s2[i]
  <2>1. Joined(s3, s2, D, S)
    BY <1>3, <1>4, <1>6, Join
  <2>2. /\ s3 \in Seq(S) /\ Len(s3) = b + 2 + 1
        /\ \A i \in 1 .. b + 2 : s3[i] = s2[i]
        /\ \A i \in 1 .. 1 : s3[b + 2 + i] = D[i]
    BY <1>3, <1>6, <2>1 DEF Joined
  <2>3. s3[b + 2 + 1] = d /\ b + 2 + 1 = b + 3
    BY <1>3, <2>2
  <2> QED
    BY <2>2, <2>3
<1>8. /\ s \in Seq(S) /\ Len(s) = b + 3 + e
      /\ \A i \in 1 .. b + 3 : s[i] = s3[i]
      /\ \A i \in 1 .. e : s[b + 3 + i] = E[i]
  <2>1. Joined(s, s3, E, S)
    BY <1>4, <1>7, Join
  <2> QED
    BY <1>7, <2>1 DEF Joined
<1>9. s[1] = a /\ s[b + 2] = c /\ s[b + 3] = d
  <2>1. 1 \in 1 .. b + 1 /\ 1 \in 1 .. b + 2 /\ 1 \in 1 .. b + 3
        /\ b + 2 \in 1 .. b + 2 /\ b + 2 \in 1 .. b + 3 /\ b + 3 \in 1 .. b + 3
    OBVIOUS
  <2>2. s[1] = s3[1] /\ s[b + 2] = s3[b + 2] /\ s[b + 3] = s3[b + 3]
    BY <1>8, <2>1
  <2> QED
    BY <1>5, <1>6, <1>7, <2>1, <2>2
<1>10. ASSUME NEW i \in 1 .. b PROVE s[i + 1] = B[i]
  <2>1. i + 1 \in 1 .. b + 1 /\ i + 1 \in 1 .. b + 2 /\ i + 1 \in 1 .. b + 3
    OBVIOUS
  <2> QED
    BY <1>5, <1>6, <1>7, <1>8, <2>1
<1> QED
  BY <1>8, <1>9, <1>10 DEF Laid

\* The server of entry n, and what the client shows of it: the default server D
\* in three modes, around the priority servers P, and the others Q.
ServerAt(P, Q, D, n) == IF n \in 2 .. Len(P) + 1 THEN P[n - 1]
                        ELSE IF n > Len(P) + 3 THEN Q[n - (Len(P) + 3)]
                        ELSE D
RemarksAt(P, Q, n) == IF n = 1 THEN Mode("full")
                      ELSE IF n = Len(P) + 2 THEN Mode("bypass")
                      ELSE IF n = Len(P) + 3 THEN Mode("youtube")
                      ELSE IF n <= Len(P) + 1 THEN Own(P[n - 1])
                      ELSE Own(Q[n - (Len(P) + 3)])

LEMMA LinksAt ==
    ASSUME NEW held \in Seq(PbServers), held # <<>>, NEW P \in Seq(PbServers), NEW Q \in Seq(PbServers),
           P = PriorityServers(held), Q = NormalServers(held),
           NEW D, D = PickDefaultServer(held)
    PROVE  LET links == WriteBase64Format(held)
           IN  /\ DOMAIN links = 1 .. Len(P) + Len(Q) + 3 /\ Len(links) = Len(P) + Len(Q) + 3
               /\ \A n \in DOMAIN links :
                     links[n] = BuildVLESSLink(RemarksAt(P, Q, n), ServerAt(P, Q, D, n))
<1>1. PICK p \in Nat, q \in Nat : /\ p = Len(P) /\ q = Len(Q)
                                  /\ DOMAIN P = 1 .. p /\ DOMAIN Q = 1 .. q
  BY LenProperties
<1> DEFINE links == WriteBase64Format(held)
           B == [i \in 1 .. p |-> BuildVLESSLink(Own(P[i]), P[i])]
           E == [i \in 1 .. q |-> BuildVLESSLink(Own(Q[i]), Q[i])]
           a == BuildVLESSLink(Mode("full"), D)
           c == BuildVLESSLink(Mode("bypass"), D)
           d == BuildVLESSLink(Mode("youtube"), D)
           S == {a, c, d} \cup {B[i] : i \in 1 .. p} \cup {E[i] : i \in 1 .. q}
<1>2. links = <<a>> \o B \o <<c>> \o <<d>> \o E
  BY <1>1 DEF WriteBase64Format
<1>3. B \in Seq(S) /\ E \in Seq(S) /\ Len(B) = p /\ Len(E) = q
  <2>1. B \in [1 .. p -> S] /\ E \in [1 .. q -> S]
    OBVIOUS
  <2> HIDE DEF B, E, S
  <2>2. B \in Seq(S) /\ E \in Seq(S)
    BY <2>1, SeqDef
  <2> QED
    BY <2>1, <2>2, LenProperties
<1>4. a \in S /\ c \in S /\ d \in S
  OBVIOUS
<1>5. /\ \A i \in 1 .. p : B[i] = BuildVLESSLink(Own(P[i]), P[i])
      /\ \A i \in 1 .. q : E[i] = BuildVLESSLink(Own(Q[i]), Q[i])
  OBVIOUS
<1> HIDE DEF links, B, E, S, a, c, d
<1>6. /\ links \in Seq(S) /\ Len(links) = p + q + 3
      /\ links[1] = a /\ links[p + 2] = c /\ links[p + 3] = d
      /\ \A i \in 1 .. p : links[i + 1] = B[i]
      /\ \A i \in 1 .. q : links[p + 3 + i] = E[i]
  <2>1. Laid(links, S, a, B, c, d, E, p, q)
    BY <1>2, <1>3, <1>4, Layout
  <2> QED
    BY <2>1 DEF Laid
<1>7. DOMAIN links = 1 .. p + q + 3
  BY <1>6, LenProperties
<1>8. ASSUME NEW n \in 1 .. p + q + 3
      PROVE  links[n] = BuildVLESSLink(RemarksAt(P, Q, n), ServerAt(P, Q, D, n))
  <2>1. CASE n \in {1, p + 2, p + 3}
    BY <1>1, <1>6, <2>1 DEF RemarksAt, ServerAt, a, c, d
  <2>2. CASE n \in 2 .. p + 1
    <3>1. n - 1 \in 1 .. p /\ (n - 1) + 1 = n
      BY <2>2
    <3>2. links[n] = BuildVLESSLink(Own(P[n - 1]), P[n - 1])
      BY <1>5, <1>6, <3>1
    <3>3. RemarksAt(P, Q, n) = Own(P[n - 1]) /\ ServerAt(P, Q, D, n) = P[n - 1]
      BY <1>1, <2>2 DEF RemarksAt, ServerAt
    <3> QED
      BY <3>2, <3>3
  <2>3. CASE n > p + 3
    <3>1. n - (p + 3) \in 1 .. q /\ (p + 3) + (n - (p + 3)) = n
      BY <2>3
    <3>2. links[n] = BuildVLESSLink(Own(Q[n - (p + 3)]), Q[n - (p + 3)])
      BY <1>5, <1>6, <3>1
    <3>3. RemarksAt(P, Q, n) = Own(Q[n - (p + 3)]) /\ ServerAt(P, Q, D, n) = Q[n - (p + 3)]
      BY <1>1, <2>3 DEF RemarksAt, ServerAt
    <3> QED
      BY <3>2, <3>3
  <2> QED
    BY <2>1, <2>2, <2>3
<1> QED
  BY <1>1, <1>6, <1>7, <1>8 DEF links

\* An entry of the JSON format that leads to one server, under the same name.
EntryAt(c, P, Q, D, n) ==
    /\ c.remarks = RemarksAt(P, Q, n)
    /\ c.outbounds = {Outbound(0, ServerAt(P, Q, D, n))}
    /\ c.profile \in {"full", "bypass", "youtube"}
    /\ c.dns = PlainDNS <=> n \in 2 .. Len(P) + 1 /\ ServerIsRussian(P[n - 1])

LEMMA ConfigsAt ==
    ASSUME NEW held \in Seq(PbServers), held # <<>>, NEW P \in Seq(PbServers), NEW Q \in Seq(PbServers),
           P = PriorityServers(held), Q = NormalServers(held),
           NEW D, D = PickDefaultServer(held),
           NEW k \in Nat, k = Len(P) + Len(Q) + 3
    PROVE  LET configs == WriteJSONFormat(held)
           IN  /\ Len(configs) = (IF Len(held) >= 2 THEN k + 1 ELSE k)
               /\ DOMAIN configs = 1 .. Len(configs)
               /\ \A n \in 1 .. k : EntryAt(configs[n], P, Q, D, n)
               /\ Len(held) >= 2 => configs[k + 1] = BuildAutoXrayConfig(held)
<1>1. PICK p \in Nat, q \in Nat : /\ p = Len(P) /\ q = Len(Q)
                                  /\ DOMAIN P = 1 .. p /\ DOMAIN Q = 1 .. q
  BY LenProperties
<1> DEFINE configs == WriteJSONFormat(held)
           B == [i \in 1 .. p |-> PriorityConfig(P[i])]
           E == [i \in 1 .. q |-> BuildXrayConfig(Own(Q[i]), Q[i], "full")]
           a == BuildXrayConfig(Mode("full"), D, "full")
           c == BuildXrayConfig(Mode("bypass"), D, "bypass")
           d == BuildXrayConfig(Mode("youtube"), D, "youtube")
           z == BuildAutoXrayConfig(held)
           S == {a, c, d, z} \cup {B[i] : i \in 1 .. p} \cup {E[i] : i \in 1 .. q}
           base == <<a>> \o B \o <<c>> \o <<d>> \o E
<1>2. configs = base \o (IF Len(held) >= 2 THEN <<z>> ELSE <<>>)
  BY <1>1 DEF WriteJSONFormat
<1>3. B \in Seq(S) /\ E \in Seq(S) /\ Len(B) = p /\ Len(E) = q
  <2>1. B \in [1 .. p -> S] /\ E \in [1 .. q -> S]
    OBVIOUS
  <2> HIDE DEF B, E, S
  <2>2. B \in Seq(S) /\ E \in Seq(S)
    BY <2>1, SeqDef
  <2> QED
    BY <2>1, <2>2, LenProperties
<1>4. a \in S /\ c \in S /\ d \in S /\ z \in S
  OBVIOUS
<1>5. /\ \A i \in 1 .. p : B[i] = PriorityConfig(P[i])
      /\ \A i \in 1 .. q : E[i] = BuildXrayConfig(Own(Q[i]), Q[i], "full")
  OBVIOUS
<1> HIDE DEF configs, B, E, S, a, c, d, z
<1>6. /\ base \in Seq(S) /\ Len(base) = k
      /\ base[1] = a /\ base[p + 2] = c /\ base[p + 3] = d
      /\ \A i \in 1 .. p : base[i + 1] = B[i]
      /\ \A i \in 1 .. q : base[p + 3 + i] = E[i]
  <2>1. Laid(base, S, a, B, c, d, E, p, q)
    BY <1>3, <1>4, Layout
  <2> QED
    BY <2>1, <1>1 DEF Laid
<1> HIDE DEF base
<1>7. /\ configs \in Seq(S) /\ Len(configs) = (IF Len(held) >= 2 THEN k + 1 ELSE k)
      /\ \A n \in 1 .. k : configs[n] = base[n]
      /\ Len(held) >= 2 => configs[k + 1] = z
  <2>1. CASE Len(held) >= 2
    <3>1. PICK Y : Y = <<z>>
      OBVIOUS
    <3>2. Y \in Seq(S) /\ Len(Y) = 1 /\ Y[1] = z
      BY <1>4, <3>1
    <3>3. Joined(configs, base, Y, S)
      BY <1>2, <1>6, <2>1, <3>1, <3>2, Join
    <3>4. /\ configs \in Seq(S) /\ Len(configs) = k + 1
          /\ \A n \in 1 .. k : configs[n] = base[n]
          /\ \A n \in 1 .. 1 : configs[k + n] = Y[n]
      BY <1>6, <3>2, <3>3 DEF Joined
    <3>5. configs[k + 1] = z
      BY <3>2, <3>4
    <3> QED
      BY <2>1, <3>4, <3>5
  <2>2. CASE ~(Len(held) >= 2)
    <3>1. configs = base
      BY <1>2, <1>6, <2>2, ConcatEmptySeq
    <3> QED
      BY <1>6, <2>2, <3>1
  <2> QED
    BY <2>1, <2>2
<1>8. DOMAIN configs = 1 .. Len(configs)
  BY <1>7, LenProperties
<1>9. ASSUME NEW r, NEW s, NEW m \in {"full", "bypass", "youtube"}
      PROVE  LET x == BuildXrayConfig(r, s, m)
             IN  /\ x.remarks = r /\ x.outbounds = {Outbound(0, s)} /\ x.profile = m
                 /\ x.dns # PlainDNS
  BY DEF BuildXrayConfig, BuildDNS, PlainDNS
<1>10. ASSUME NEW s
       PROVE  LET x == PriorityConfig(s)
              IN  /\ x.remarks = Own(s) /\ x.outbounds = {Outbound(0, s)} /\ x.profile = "bypass"
                  /\ x.dns = PlainDNS <=> ServerIsRussian(s)
  BY DEF BuildXrayConfig, BuildDNS, PlainDNS, PriorityConfig
<1>11. ASSUME NEW n \in 1 .. k PROVE EntryAt(base[n], P, Q, D, n)
  <2>1. CASE n \in {1, p + 2, p + 3}
    <3>1. ServerAt(P, Q, D, n) = D /\ n \notin 2 .. Len(P) + 1
      BY <1>1, <2>1 DEF ServerAt
    <3>2. PICK m \in {"full", "bypass", "youtube"} :
             base[n] = BuildXrayConfig(Mode(m), D, m) /\ RemarksAt(P, Q, n) = Mode(m)
      BY <1>1, <1>6, <2>1 DEF RemarksAt, a, c, d
    <3> QED
      BY <1>9, <3>1, <3>2 DEF EntryAt
  <2>2. CASE n \in 2 .. p + 1
    <3>1. n - 1 \in 1 .. p /\ (n - 1) + 1 = n
      BY <2>2
    <3>2. base[n] = PriorityConfig(P[n - 1])
      BY <1>5, <1>6, <3>1
    <3>3. RemarksAt(P, Q, n) = Own(P[n - 1]) /\ ServerAt(P, Q, D, n) = P[n - 1]
      BY <1>1, <2>2 DEF RemarksAt, ServerAt
    <3> QED
      BY <1>1, <1>10, <2>2, <3>2, <3>3 DEF EntryAt
  <2>3. CASE n > p + 3
    <3>1. n - (p + 3) \in 1 .. q /\ (p + 3) + (n - (p + 3)) = n
      BY <2>3, <1>1
    <3>2. base[n] = BuildXrayConfig(Own(Q[n - (p + 3)]), Q[n - (p + 3)], "full")
      BY <1>5, <1>6, <3>1
    <3>3. /\ RemarksAt(P, Q, n) = Own(Q[n - (p + 3)]) /\ ServerAt(P, Q, D, n) = Q[n - (p + 3)]
          /\ n \notin 2 .. Len(P) + 1
      BY <1>1, <2>3 DEF RemarksAt, ServerAt
    <3> QED
      BY <1>9, <3>2, <3>3 DEF EntryAt
  <2> QED
    BY <2>1, <2>2, <2>3
<1>12. \A n \in 1 .. k : EntryAt(configs[n], P, Q, D, n)
  BY <1>7, <1>11
<1> QED
  BY <1>7, <1>8, <1>12 DEF configs, z

\* Every entry is a mode on the default server or a server's own; and every
\* server has one of its own.
Placed(P, Q, held, d, k) ==
    /\ \A n \in 1 .. k :
          \E i \in DOMAIN held :
             /\ ServerAt(P, Q, held[d], n) = held[i]
             /\ \/ /\ i = d /\ n \notin 2 .. Len(P) + 1
                   /\ \E m \in {"full", "bypass", "youtube"} : RemarksAt(P, Q, n) = Mode(m)
                \/ /\ RemarksAt(P, Q, n) = Own(held[i])
                   /\ n \in 2 .. Len(P) + 1 <=> held[i].priority > 0
    /\ \A i \in DOMAIN held : \E m \in 1 .. k : \A n \in 1 .. k :
          RemarksAt(P, Q, n) = Own(held[i]) <=> n = m

LEMMA PlaceFacts ==
    ASSUME NEW held \in Seq(PbServers), Distinct(held), NEW P, NEW Q,
           Block(P, held, {i \in DOMAIN held : held[i].priority > 0}),
           Block(Q, held, {i \in DOMAIN held : held[i].priority <= 0}),
           NEW d \in DOMAIN held, NEW k \in Nat, k = Len(P) + Len(Q) + 3
    PROVE  Placed(P, Q, held, d, k)
<1>1. PICK p \in Nat, q \in Nat : /\ p = Len(P) /\ q = Len(Q)
                                  /\ DOMAIN P = 1 .. p /\ DOMAIN Q = 1 .. q
  <2>1. P \in Seq(PbServers) /\ Q \in Seq(PbServers)
    BY DEF Block
  <2> QED
    BY <2>1, LenProperties
<1>2. /\ \A n \in 1 .. p : \E i \in DOMAIN held : held[i].priority > 0 /\ P[n] = held[i]
      /\ \A i \in DOMAIN held : held[i].priority > 0 => \E n \in 1 .. p : P[n] = held[i]
      /\ \A m, n \in 1 .. p : P[m].id = P[n].id => m = n
  <2>1. \A n \in 1 .. p : \E i \in DOMAIN held : held[i].priority > 0 /\ P[n] = held[i]
    BY <1>1 DEF Block
  <2>2. \A i \in DOMAIN held : held[i].priority > 0 => \E n \in 1 .. p : P[n] = held[i]
    BY <1>1 DEF Block
  <2>3. \A m, n \in 1 .. p : P[m].id = P[n].id => m = n
    BY <1>1 DEF Block
  <2> QED
    BY <2>1, <2>2, <2>3
<1>3. /\ \A n \in 1 .. q : \E i \in DOMAIN held : held[i].priority <= 0 /\ Q[n] = held[i]
      /\ \A i \in DOMAIN held : held[i].priority <= 0 => \E n \in 1 .. q : Q[n] = held[i]
      /\ \A m, n \in 1 .. q : Q[m].id = Q[n].id => m = n
  BY <1>1 DEF Block
<1>4. \A i \in DOMAIN held : held[i].priority \in Int
  <2>1. DOMAIN held = 1 .. Len(held) /\ held \in [1 .. Len(held) -> PbServers]
    BY LenProperties
  <2> QED
    BY <2>1 DEF PbServers
<1>5. \A m \in {"full", "bypass", "youtube"} : \A s : Mode(m) # Own(s)
  BY DEF Mode, Own
<1>6. \A s, t : Own(s) = Own(t) => s.id = t.id
  BY DEF Own
\* The three parts of the table.
<1>7. ASSUME NEW n \in {1, p + 2, p + 3}
      PROVE  /\ ServerAt(P, Q, held[d], n) = held[d] /\ n \notin 2 .. p + 1
             /\ \E m \in {"full", "bypass", "youtube"} : RemarksAt(P, Q, n) = Mode(m)
  BY <1>1 DEF ServerAt, RemarksAt
<1>8. ASSUME NEW n \in 2 .. p + 1
      PROVE  /\ n - 1 \in 1 .. p
             /\ ServerAt(P, Q, held[d], n) = P[n - 1] /\ RemarksAt(P, Q, n) = Own(P[n - 1])
  BY <1>1 DEF ServerAt, RemarksAt
<1>9. ASSUME NEW n \in 1 .. k, n > p + 3
      PROVE  /\ n - (p + 3) \in 1 .. q /\ n \notin 2 .. p + 1
             /\ ServerAt(P, Q, held[d], n) = Q[n - (p + 3)]
             /\ RemarksAt(P, Q, n) = Own(Q[n - (p + 3)])
  BY <1>1, <1>9 DEF ServerAt, RemarksAt
<1>10. \A n \in 1 .. k : n \in {1, p + 2, p + 3} \/ n \in 2 .. p + 1 \/ n > p + 3
  OBVIOUS
<1>11. ASSUME NEW n \in 1 .. k
       PROVE  \E i \in DOMAIN held :
                 /\ ServerAt(P, Q, held[d], n) = held[i]
                 /\ \/ /\ i = d /\ n \notin 2 .. Len(P) + 1
                       /\ \E m \in {"full", "bypass", "youtube"} : RemarksAt(P, Q, n) = Mode(m)
                    \/ /\ RemarksAt(P, Q, n) = Own(held[i])
                       /\ n \in 2 .. Len(P) + 1 <=> held[i].priority > 0
  <2>1. CASE n \in {1, p + 2, p + 3}
    BY <1>1, <1>7, <2>1
  <2>2. CASE n \in 2 .. p + 1
    <3>1. PICK i \in DOMAIN held : held[i].priority > 0 /\ P[n - 1] = held[i]
      BY <1>2, <1>8, <2>2
    <3> QED
      BY <1>1, <1>8, <2>2, <3>1
  <2>3. CASE n > p + 3
    <3>1. PICK i \in DOMAIN held : held[i].priority <= 0 /\ Q[n - (p + 3)] = held[i]
      BY <1>3, <1>9, <2>3
    <3>2. ~(held[i].priority > 0)
      BY <1>4, <3>1
    <3> QED
      BY <1>1, <1>9, <2>3, <3>1, <3>2
  <2> QED
    BY <1>10, <2>1, <2>2, <2>3
<1>12. ASSUME NEW i \in DOMAIN held
       PROVE  \E m \in 1 .. k : \A n \in 1 .. k : RemarksAt(P, Q, n) = Own(held[i]) <=> n = m
  <2>1. ASSUME NEW n \in {1, p + 2, p + 3} PROVE RemarksAt(P, Q, n) # Own(held[i])
    BY <1>5, <1>7
  <2>2. CASE held[i].priority > 0
    <3>1. PICK j \in 1 .. p : P[j] = held[i]
      BY <1>2, <2>2
    <3>2. ASSUME NEW n \in 2 .. p + 1 PROVE RemarksAt(P, Q, n) = Own(held[i]) <=> n = j + 1
      <4>1. RemarksAt(P, Q, n) = Own(P[n - 1]) /\ n - 1 \in 1 .. p
        BY <1>8
      <4>2. Own(P[n - 1]) = Own(P[j]) => n - 1 = j
        <5>1. PICK l \in 1 .. p : l = n - 1
          BY <4>1
        <5>2. Own(P[l]) = Own(P[j]) => P[l].id = P[j].id
          BY <1>6
        <5>3. P[l].id = P[j].id => l = j
          BY <1>2
        <5> QED
          BY <5>1, <5>2, <5>3
      <4>3. n - 1 = j <=> n = j + 1
        OBVIOUS
      <4> QED
        BY <3>1, <4>1, <4>2, <4>3
    <3>3. ASSUME NEW n \in 1 .. k, n > p + 3 PROVE RemarksAt(P, Q, n) # Own(held[i])
      <4>1. PICK h \in DOMAIN held : held[h].priority <= 0 /\ Q[n - (p + 3)] = held[h]
        BY <1>3, <1>9, <3>3
      <4>2. h # i
        BY <1>4, <2>2, <4>1
      <4>3. Own(held[h]) # Own(held[i])
        BY <1>6, <4>2 DEF Distinct
      <4> QED
        BY <1>9, <3>3, <4>1, <4>3
    <3>4. j + 1 \in 1 .. k /\ j + 1 \in 2 .. p + 1
      BY <1>1
    <3>5. \A n \in {1, p + 2, p + 3} : n # j + 1
      BY <3>1
    <3>6. \A n \in 1 .. k : n > p + 3 => n # j + 1
      BY <3>1
    <3>7. \A n \in 1 .. k : RemarksAt(P, Q, n) = Own(held[i]) <=> n = j + 1
      BY <1>10, <2>1, <3>2, <3>3, <3>5, <3>6
    <3> QED
      BY <3>4, <3>7
  <2>3. CASE held[i].priority <= 0
    <3>1. PICK j \in 1 .. q : Q[j] = held[i]
      BY <1>3, <2>3
    <3>2. ASSUME NEW n \in 1 .. k, n > p + 3 PROVE RemarksAt(P, Q, n) = Own(held[i]) <=> n = p + 3 + j
      <4>1. RemarksAt(P, Q, n) = Own(Q[n - (p + 3)]) /\ n - (p + 3) \in 1 .. q
        BY <1>9, <3>2
      <4>2. Own(Q[n - (p + 3)]) = Own(Q[j]) => n - (p + 3) = j
        <5>1. PICK l \in 1 .. q : l = n - (p + 3)
          BY <4>1
        <5>2. Own(Q[l]) = Own(Q[j]) => Q[l].id = Q[j].id
          BY <1>6
        <5>3. Q[l].id = Q[j].id => l = j
          BY <1>3
        <5> QED
          BY <5>1, <5>2, <5>3
      <4>3. n - (p + 3) = j <=> n = p + 3 + j
        OBVIOUS
      <4> QED
        BY <3>1, <4>1, <4>2, <4>3
    <3>3. ASSUME NEW n \in 2 .. p + 1 PROVE RemarksAt(P, Q, n) # Own(held[i])
      <4>1. PICK h \in DOMAIN held : held[h].priority > 0 /\ P[n - 1] = held[h]
        BY <1>2, <1>8
      <4>2. h # i
        BY <1>4, <2>3, <4>1
      <4>3. Own(held[h]) # Own(held[i])
        BY <1>6, <4>2 DEF Distinct
      <4> QED
        BY <1>8, <4>1, <4>3
    <3>4. p + 3 + j \in 1 .. k /\ p + 3 + j > p + 3
      BY <1>1
    <3>5. \A n \in {1, p + 2, p + 3} : n # p + 3 + j
      BY <3>1
    <3>6. \A n \in 2 .. p + 1 : n # p + 3 + j
      BY <3>1
    <3>7. \A n \in 1 .. k : RemarksAt(P, Q, n) = Own(held[i]) <=> n = p + 3 + j
      BY <1>10, <2>1, <3>2, <3>3, <3>5, <3>6
    <3> QED
      BY <3>4, <3>7
  <2>4. held[i].priority > 0 \/ held[i].priority <= 0
    <3>1. PICK r \in Int : r = held[i].priority
      BY <1>4
    <3> QED
      BY <3>1
  <2> QED
    BY <2>2, <2>3, <2>4
<1> QED
  BY <1>11, <1>12 DEF Placed

\* Without a server there is nothing to list.
LEMMA NothingGiven ==
    ASSUME NEW held \in Seq(PbServers), held = <<>>
    PROVE  WriteBase64Format(held) = <<>> /\ WriteJSONFormat(held) = <<>>
<1> DEFINE P == PriorityServers(held)
           Q == NormalServers(held)
           links == WriteBase64Format(held)
           configs == WriteJSONFormat(held)
<1>1. DOMAIN held = {} /\ Len(held) = 0
  BY EmptySeq, LenProperties
<1>2. P = <<>> /\ Q = <<>>
  <2>1. Block(P, held, {i \in DOMAIN held : held[i].priority > 0})
    BY <1>1, SplitFacts DEF Distinct
  <2>2. Block(Q, held, {i \in DOMAIN held : held[i].priority <= 0})
    BY <1>1, SplitFacts DEF Distinct
  <2> HIDE DEF P, Q
  <2>3. P \in Seq(PbServers) /\ Q \in Seq(PbServers) /\ DOMAIN P = {} /\ DOMAIN Q = {}
    BY <1>1, <2>1, <2>2 DEF Block
  <2> QED
    BY <2>3, LenProperties, EmptySeq
<1>3. links = <<>> \o <<>> \o <<>> \o <<>> \o <<>>
  BY <1>2 DEF WriteBase64Format
<1>4. configs = <<>> \o <<>> \o <<>> \o <<>> \o <<>> \o <<>>
  BY <1>1, <1>2 DEF WriteJSONFormat
<1> HIDE DEF links, configs
<1>5. links = <<>> /\ configs = <<>>
  BY <1>3, <1>4
<1> QED
  BY <1>5 DEF links, configs

\* Both formats are complete, whatever the servers.
LEMMA Complete ==
    ASSUME NEW held \in Seq(PbServers), Distinct(held)
    PROVE  CompleteConfig(held)
<1> DEFINE links == WriteBase64Format(held)
           configs == WriteJSONFormat(held)
           ids == {held[n].id : n \in DOMAIN held}
           of(id) == held[CHOOSE n \in DOMAIN held : held[n].id = id]
           leads(entry) == {o.server : o \in entry.outbounds}
           ordinary == {s \in {held[n] : n \in DOMAIN held} : s.priority = 0}
           pinned == {s \in ordinary : s.country = DefaultCountry /\ DefaultCountry # ""}
           P == PriorityServers(held)
           Q == NormalServers(held)
           D == PickDefaultServer(held)
           SameEntries == DOMAIN links \subseteq DOMAIN configs
           SameNames == \A n \in DOMAIN links : /\ configs[n].remarks = links[n].remarks
                                                /\ leads(configs[n]) = {links[n].server}
           Balanced == \A n \in DOMAIN configs \ DOMAIN links :
                          configs[n].remarks = Mode("auto") /\ leads(configs[n]) = ids
           Once == \A id \in ids :
                      Cardinality({n \in DOMAIN links : links[n].remarks = Own(of(id))}) = 1
           Modes == \A n \in DOMAIN links :
                       LET s == of(links[n].server)
                       IN  links[n].remarks # Own(s) =>
                              /\ ordinary # {} => s \in ordinary
                              /\ pinned # {} => s \in pinned
           Several == Len(configs) > Len(links) <=> Cardinality(ids) > 1
           Disguise == \A n \in DOMAIN configs : \A o \in configs[n].outbounds :
                          ServerIsRussian(of(o.server)) => o.sid = 0
           Clear == \A n \in DOMAIN configs :
                       configs[n].dns = PlainDNS <=>
                          \E id \in ids : /\ configs[n].remarks = Own(of(id))
                                          /\ of(id).priority > 0 /\ ServerIsRussian(of(id))
<1>1. \A i \in DOMAIN held : of(held[i].id) = held[i]
  <2> TAKE i \in DOMAIN held
  <2>1. \A j \in DOMAIN held : held[j].id = held[i].id => j = i
    BY DEF Distinct
  <2> QED
    BY <2>1
<1>2. \A id \in ids : \E i \in DOMAIN held : id = held[i].id /\ of(id) = held[i]
  BY <1>1
<1>3. \A i \in DOMAIN held : held[i].id \in ids
  OBVIOUS
<1>4. \A m \in {"full", "bypass", "youtube", "auto"} : \A s : Mode(m) # Own(s)
  BY DEF Mode, Own
<1>5. \A s, t : Own(s) = Own(t) => s.id = t.id
  BY DEF Own
\* The balancer is there from two servers on.
<1>6. IsFiniteSet(ids) /\ Cardinality(ids) = Len(held)
  <2>1. DOMAIN held = 1 .. Len(held) /\ Len(held) \in Nat
    BY LenProperties
  <2>2. IsFiniteSet(1 .. Len(held)) /\ Cardinality(1 .. Len(held)) = Len(held)
    BY <2>1, FS_Interval
  <2> DEFINE f == [n \in 1 .. Len(held) |-> held[n].id]
  <2>3. \A m, n \in 1 .. Len(held) : held[m].id = held[n].id => m = n
    BY <2>1 DEF Distinct
  <2>4. f \in Bijection(1 .. Len(held), ids)
    BY <2>1, <2>3 DEF Bijection, Injection, Surjection, IsInjective
  <2> QED
    BY <2>2, <2>4, FS_Bijection DEF ExistsBijection
<1>7. CASE held = <<>>
  <2>1. DOMAIN held = {} /\ Len(held) = 0
    BY <1>7, EmptySeq, LenProperties
  <2>3. links = <<>> /\ configs = <<>>
    BY <1>7, NothingGiven
  <2> HIDE DEF links, configs, ids
  <2>4. DOMAIN links = {} /\ DOMAIN configs = {} /\ ~(Len(configs) > Len(links))
    BY <2>3
  <2>5. ids = {}
    BY <2>1 DEF ids
  <2>6. ~(Cardinality(ids) > 1)
    BY <1>6, <2>1
  <2>7. SameEntries /\ SameNames /\ Balanced /\ Once /\ Modes /\ Several /\ Disguise /\ Clear
    BY <2>4, <2>5, <2>6
  <2> QED
    BY <2>7 DEF CompleteConfig, links, configs, ids
<1>8. CASE held # <<>>
  <2>1. /\ Block(P, held, {i \in DOMAIN held : held[i].priority > 0})
        /\ Block(Q, held, {i \in DOMAIN held : held[i].priority <= 0})
    BY SplitFacts
  <2>2. P \in Seq(PbServers) /\ Q \in Seq(PbServers)
    BY <2>1 DEF Block
  <2>3. Len(P) \in Nat /\ Len(Q) \in Nat
    BY <2>2, LenProperties
  <2>4. PICK k \in Nat : k = Len(P) + Len(Q) + 3
    BY <2>3
  <2>5. PICK d \in DOMAIN held :
              /\ D = held[d]
              /\ (\E i \in DOMAIN held : held[i].priority = 0) => held[d].priority = 0
              /\ DefaultCountry # "" =>
                    \A i \in DOMAIN held :
                       held[i].priority = 0 /\ held[i].country = DefaultCountry
                          => held[d].country = DefaultCountry
    BY <1>8, DefaultFacts
  <2>6. /\ DOMAIN links = 1 .. k /\ Len(links) = k
        /\ \A n \in 1 .. k : links[n] = BuildVLESSLink(RemarksAt(P, Q, n), ServerAt(P, Q, D, n))
    BY <1>8, <2>2, <2>4, LinksAt
  <2>7. /\ Len(configs) = (IF Len(held) >= 2 THEN k + 1 ELSE k)
        /\ DOMAIN configs = 1 .. Len(configs)
        /\ \A n \in 1 .. k : EntryAt(configs[n], P, Q, D, n)
        /\ Len(held) >= 2 => configs[k + 1] = BuildAutoXrayConfig(held)
    BY <1>8, <2>2, <2>4, ConfigsAt
  <2> HIDE DEF links, configs, P, Q, D, ids, of
  <2>8. /\ \A n \in 1 .. k :
              \E i \in DOMAIN held :
                 /\ ServerAt(P, Q, D, n) = held[i]
                 /\ \/ /\ i = d /\ n \notin 2 .. Len(P) + 1
                       /\ \E m \in {"full", "bypass", "youtube"} : RemarksAt(P, Q, n) = Mode(m)
                    \/ /\ RemarksAt(P, Q, n) = Own(held[i])
                       /\ n \in 2 .. Len(P) + 1 <=> held[i].priority > 0
        /\ \A i \in DOMAIN held : \E m \in 1 .. k : \A n \in 1 .. k :
              RemarksAt(P, Q, n) = Own(held[i]) <=> n = m
    <3>1. Placed(P, Q, held, d, k)
      BY <2>1, <2>4, PlaceFacts
    <3> QED
      BY <2>5, <3>1 DEF Placed
  \* What an entry of both formats is.
  <2>9. ASSUME NEW n \in 1 .. k
        PROVE  \E i \in DOMAIN held :
                  /\ links[n].remarks = RemarksAt(P, Q, n) /\ links[n].server = held[i].id
                  /\ configs[n].remarks = RemarksAt(P, Q, n)
                  /\ configs[n].outbounds = {Outbound(0, held[i])}
                  /\ configs[n].dns = PlainDNS <=> n \in 2 .. Len(P) + 1 /\ ServerIsRussian(held[i])
                  /\ \/ /\ i = d /\ n \notin 2 .. Len(P) + 1
                        /\ \E m \in {"full", "bypass", "youtube"} : RemarksAt(P, Q, n) = Mode(m)
                     \/ /\ RemarksAt(P, Q, n) = Own(held[i])
                        /\ n \in 2 .. Len(P) + 1 <=> held[i].priority > 0
    <3>1. PICK i \in DOMAIN held :
             /\ ServerAt(P, Q, D, n) = held[i]
             /\ \/ /\ i = d /\ n \notin 2 .. Len(P) + 1
                   /\ \E m \in {"full", "bypass", "youtube"} : RemarksAt(P, Q, n) = Mode(m)
                \/ /\ RemarksAt(P, Q, n) = Own(held[i])
                   /\ n \in 2 .. Len(P) + 1 <=> held[i].priority > 0
      BY <2>8
    <3>2. links[n].remarks = RemarksAt(P, Q, n) /\ links[n].server = held[i].id
      BY <2>6, <3>1 DEF BuildVLESSLink
    <3>3. EntryAt(configs[n], P, Q, D, n)
      BY <2>7
    <3>4. /\ configs[n].remarks = RemarksAt(P, Q, n)
          /\ configs[n].outbounds = {Outbound(0, held[i])}
          /\ configs[n].dns = PlainDNS <=> n \in 2 .. Len(P) + 1 /\ ServerIsRussian(P[n - 1])
      BY <3>1, <3>3 DEF EntryAt
    <3>5. n \in 2 .. Len(P) + 1 => P[n - 1] = held[i]
      BY <3>1 DEF ServerAt
    <3> QED
      BY <3>1, <3>2, <3>4, <3>5
  \* What an entry of the JSON format alone is.
  <2>10. ASSUME NEW n \in DOMAIN configs, n \notin DOMAIN links
         PROVE  configs[n] = BuildAutoXrayConfig(held)
    <3>1. n = k + 1 /\ Len(held) >= 2
      BY <2>6, <2>7, <2>10
    <3> QED
      BY <2>7, <3>1
  <2>11. SameEntries
    BY <2>6, <2>7
  <2>12. SameNames
    <3> TAKE n \in DOMAIN links
    <3>1. PICK i \in DOMAIN held :
             /\ links[n].remarks = RemarksAt(P, Q, n) /\ links[n].server = held[i].id
             /\ configs[n].remarks = RemarksAt(P, Q, n)
             /\ configs[n].outbounds = {Outbound(0, held[i])}
      BY <2>6, <2>9
    <3>2. Outbound(0, held[i]).server = held[i].id
      BY DEF Outbound
    <3> QED
      BY <3>1, <3>2
  <2>13. Balanced
    <3> TAKE n \in DOMAIN configs \ DOMAIN links
    <3>1. configs[n] = BuildAutoXrayConfig(held)
      BY <2>10
    <3>2. /\ configs[n].remarks = Mode("auto")
          /\ configs[n].outbounds = {Outbound(i, held[i]) : i \in DOMAIN held}
      BY <3>1 DEF BuildAutoXrayConfig
    <3>3. \A i : Outbound(i, held[i]).server = held[i].id
      BY DEF Outbound
    <3> QED
      BY <3>2, <3>3 DEF ids
  <2>14. Once
    <3> TAKE id \in ids
    <3>1. PICK i \in DOMAIN held : of(id) = held[i]
      BY <1>2
    <3>2. PICK m \in 1 .. k : \A n \in 1 .. k : RemarksAt(P, Q, n) = Own(held[i]) <=> n = m
      BY <2>8
    <3>3. \A n \in 1 .. k : links[n].remarks = RemarksAt(P, Q, n)
      BY <2>9
    <3>4. {n \in DOMAIN links : links[n].remarks = Own(of(id))} = {m}
      BY <2>6, <3>1, <3>2, <3>3
    <3> QED
      BY <3>4, FS_Singleton
  <2>15. Modes
    <3> TAKE n \in DOMAIN links
    <3>1. PICK i \in DOMAIN held :
             /\ links[n].remarks = RemarksAt(P, Q, n) /\ links[n].server = held[i].id
             /\ i = d \/ RemarksAt(P, Q, n) = Own(held[i])
      BY <2>6, <2>9
    <3>2. of(links[n].server) = held[i]
      BY <1>1, <3>1
    <3>3. links[n].remarks # Own(held[i]) => i = d
      BY <3>1
    <3>4. ordinary # {} => held[d] \in ordinary
      BY <2>5
    <3>5. pinned # {} => held[d] \in pinned
      BY <2>5, <3>4
    <3> QED
      BY <3>2, <3>3, <3>4, <3>5
  <2>16. Several
    <3>1. Len(held) \in Nat
      BY LenProperties
    <3> QED
      BY <1>6, <2>6, <2>7, <3>1
  <2>17. Disguise
    <3> TAKE n \in DOMAIN configs
    <3> TAKE o \in configs[n].outbounds
    <3>1. \E j, i : i \in DOMAIN held /\ o = Outbound(j, held[i])
      <4>1. CASE n \in DOMAIN links
        <5>1. PICK i \in DOMAIN held : configs[n].outbounds = {Outbound(0, held[i])}
          BY <2>6, <2>9, <4>1
        <5> QED
          BY <5>1
      <4>2. CASE n \notin DOMAIN links
        <5>1. configs[n].outbounds = {Outbound(i, held[i]) : i \in DOMAIN held}
          BY <2>10, <4>2 DEF BuildAutoXrayConfig
        <5> QED
          BY <5>1
      <4> QED
        BY <4>1, <4>2
    <3>2. PICK j, i : i \in DOMAIN held /\ o = Outbound(j, held[i])
      BY <3>1
    <3>3. o.server = held[i].id /\ o.sid = ClientShortID(held[i])
      BY <3>2 DEF Outbound
    <3>4. of(o.server) = held[i]
      BY <1>1, <3>2, <3>3
    <3> QED
      BY <3>3, <3>4 DEF ClientShortID
  <2>18. Clear
    <3> TAKE n \in DOMAIN configs
    <3>1. CASE n \in DOMAIN links
      <4>1. PICK i \in DOMAIN held :
                /\ configs[n].remarks = RemarksAt(P, Q, n)
                /\ configs[n].dns = PlainDNS <=> n \in 2 .. Len(P) + 1 /\ ServerIsRussian(held[i])
                /\ \/ /\ i = d /\ n \notin 2 .. Len(P) + 1
                      /\ \E m \in {"full", "bypass", "youtube"} : RemarksAt(P, Q, n) = Mode(m)
                   \/ /\ RemarksAt(P, Q, n) = Own(held[i])
                      /\ n \in 2 .. Len(P) + 1 <=> held[i].priority > 0
        BY <2>6, <2>9, <3>1
      <4>2. ASSUME configs[n].dns = PlainDNS
            PROVE  \E id \in ids : /\ configs[n].remarks = Own(of(id))
                                   /\ of(id).priority > 0 /\ ServerIsRussian(of(id))
        <5>1. /\ configs[n].remarks = Own(held[i]) /\ held[i].priority > 0
              /\ ServerIsRussian(held[i])
          BY <4>1, <4>2
        <5> QED
          BY <1>1, <1>3, <5>1
      <4>3. ASSUME NEW id \in ids, configs[n].remarks = Own(of(id)), of(id).priority > 0,
                   ServerIsRussian(of(id))
            PROVE  configs[n].dns = PlainDNS
        <5>1. PICK j \in DOMAIN held : of(id) = held[j]
          BY <1>2
        <5>2. RemarksAt(P, Q, n) = Own(held[j])
          BY <4>1, <4>3, <5>1
        <5>3. /\ RemarksAt(P, Q, n) = Own(held[i])
              /\ n \in 2 .. Len(P) + 1 <=> held[i].priority > 0
          BY <1>4, <4>1, <5>2
        <5>4. held[i].id = held[j].id
          BY <1>5, <5>2, <5>3
        <5>5. i = j
          BY <5>4 DEF Distinct
        <5>6. held[j].priority > 0 /\ ServerIsRussian(held[j])
          BY <4>3, <5>1
        <5> QED
          BY <4>1, <5>3, <5>5, <5>6
      <4> QED
        BY <4>2, <4>3
    <3>2. CASE n \notin DOMAIN links
      <4>1. configs[n].dns # PlainDNS /\ configs[n].remarks = Mode("auto")
        <5>1. configs[n] = BuildAutoXrayConfig(held)
          BY <2>10, <3>2
        <5>2. configs[n].dns = BuildDNS("bypass") /\ configs[n].remarks = Mode("auto")
          BY <5>1 DEF BuildAutoXrayConfig
        <5> QED
          BY <5>2 DEF BuildDNS, PlainDNS
      <4> QED
        BY <1>4, <4>1
    <3> QED
      BY <3>1, <3>2
  <2> QED
    BY <2>11, <2>12, <2>13, <2>14, <2>15, <2>16, <2>17, <2>18
       DEF CompleteConfig, links, configs, ids, of
<1> QED
  BY <1>7, <1>8

-----------------------------------------------------------------------------
(* Routing inside the client.                                                *)

\* What a rule matches.
LEMMA RuleFacts ==
    ASSUME NEW c \in Connections
    PROVE  /\ \A S : Matches(DirectNets(S), c) <=> c.domain = "none" /\ c.net \in S
           /\ \A S : Matches(DirectDomains(S), c) <=> c.domain \in S
           /\ \A t : Matches(Everything(t), c)
           /\ Matches([Rule EXCEPT !.protocols = {"bittorrent"}], c) <=> c.protocol = "bittorrent"
           /\ \A S, t : Matches([Rule EXCEPT !.domains = S, !.to = t], c) <=> c.domain \in S
  BY DEF Matches, DirectNets, DirectDomains, Everything, Rule

LEMMA TagFacts ==
    /\ \A S : DirectNets(S).to = "direct" /\ DirectDomains(S).to = "direct"
    /\ \A t : Everything(t).to = t
    /\ [Rule EXCEPT !.protocols = {"bittorrent"}].to = "direct"
    /\ \A S, t : [Rule EXCEPT !.domains = S, !.to = t].to = t
  BY DEF DirectNets, DirectDomains, Everything, Rule

\* The rules of the four modes, in order.
Common1 == DirectNets(LocalIPNets)
Common2 == DirectNets(AppleIPNets)
Common3 == [Rule EXCEPT !.protocols = {"bittorrent"}]
Ru1 == DirectDomains(RuDirectDomains)
Ru2 == DirectNets(RuDirectIPNets)
Youtube == [Rule EXCEPT !.domains = YoutubeProxyDomains, !.to = "proxy"]

\* The rules of a mode are these, and no others.
Are(rules, list) == /\ DOMAIN rules = DOMAIN list
                    /\ \A n \in DOMAIN list : rules[n] = list[n]

LEMMA RulesFacts ==
    /\ Are(RulesOf("full"), <<Common1, Common2, Common3, Everything("proxy")>>)
    /\ Are(RulesOf("bypass"), <<Common1, Common2, Common3, Ru1, Ru2, Everything("proxy")>>)
    /\ Are(RulesOf("youtube"),
           <<Common1, Common2, Common3, Youtube, Ru1, Ru2, Everything("direct")>>)
    /\ Are(RulesOf("auto"), <<Common1, Common2, Common3, Ru1, Ru2, Everything("Auto_Balancer")>>)
<1>1. ASSUME NEW a, NEW b, NEW c, NEW d
      PROVE  Are(<<a, b, c>> \o <<d>>, <<a, b, c, d>>)
  BY DEF Are
<1>2. ASSUME NEW a, NEW b, NEW c, NEW d, NEW e, NEW f
      PROVE  Are(<<a, b, c>> \o Append(<<d, e>>, f), <<a, b, c, d, e, f>>)
  BY DEF Are
<1>3. ASSUME NEW a, NEW b, NEW c, NEW d, NEW e, NEW f, NEW y
      PROVE  Are(<<a, b, c>> \o (<<y>> \o Append(<<d, e>>, f)), <<a, b, c, y, d, e, f>>)
  BY DEF Are
<1>4. RulesOf("full") = <<Common1, Common2, Common3>> \o <<Everything("proxy")>>
  BY DEF RulesOf, BuildRouting, CommonRules, Common1, Common2, Common3
<1>5. RulesOf("bypass") = <<Common1, Common2, Common3>> \o Append(<<Ru1, Ru2>>, Everything("proxy"))
  BY DEF RulesOf, BuildRouting, CommonRules, RuRules, Common1, Common2, Common3, Ru1, Ru2
<1>6. RulesOf("youtube") = <<Common1, Common2, Common3>>
                           \o (<<Youtube>> \o Append(<<Ru1, Ru2>>, Everything("direct")))
  BY DEF RulesOf, BuildRouting, CommonRules, RuRules, Common1, Common2, Common3, Ru1, Ru2, Youtube
<1>7. RulesOf("auto") = <<Common1, Common2, Common3>>
                        \o Append(<<Ru1, Ru2>>, Everything("Auto_Balancer"))
  BY DEF RulesOf, BuildAutoRouting, CommonRules, RuRules, Common1, Common2, Common3, Ru1, Ru2
<1> QED
  BY <1>1, <1>2, <1>3, <1>4, <1>5, <1>6, <1>7

\* The first rule that matches is the one taken, and the last always does.
LEMMA FirstRule ==
    ASSUME NEW p, NEW c, NEW k \in Nat \ {0}, DOMAIN RulesOf(p) = 1 .. k,
           Matches(RulesOf(p)[k], c)
    PROVE  \E i \in 1 .. k : /\ Route(p, c) = RulesOf(p)[i].to
                             /\ Matches(RulesOf(p)[i], c)
                             /\ \A j \in 1 .. k : Matches(RulesOf(p)[j], c) => i <= j
<1> DEFINE hits == {i \in DOMAIN RulesOf(p) : Matches(RulesOf(p)[i], c)}
           i == CHOOSE i \in hits : \A j \in hits : i <= j
<1>1. hits \in SUBSET Nat /\ hits # {}
  OBVIOUS
<1>2. IsFiniteSet(hits)
  <2>1. IsFiniteSet(1 .. k)
    BY FS_Interval
  <2>2. hits \subseteq 1 .. k
    OBVIOUS
  <2> HIDE DEF hits
  <2> QED
    BY <2>1, <2>2, FS_Subset
<1>3. \E m \in hits : \A j \in hits : m <= j
  <2> HIDE DEF hits
  <2> QED
    BY <1>1, <1>2, Least
<1>4. i \in hits /\ \A j \in hits : i <= j
  <2> HIDE DEF hits
  <2> QED
    BY <1>3
<1>5. Route(p, c) = RulesOf(p)[i].to
  BY DEF Route
<1> HIDE DEF i
<1> QED
  BY <1>4, <1>5

\* Where each mode takes a connection.
Ru(c) == \/ c.domain \in {"ru", "apple"}
         \/ c.domain = "none" /\ c.net = "ru"

LEMMA RouteFacts ==
    ASSUME NEW c \in Connections
    PROVE  /\ Route("full", c) = IF NeverTunnelled(c) THEN "direct" ELSE "proxy"
           /\ Route("bypass", c) = IF NeverTunnelled(c) \/ Ru(c) THEN "direct" ELSE "proxy"
           /\ Route("youtube", c) = IF ~NeverTunnelled(c) /\ c.domain = "youtube"
                                    THEN "proxy" ELSE "direct"
           /\ Route("auto", c) = IF NeverTunnelled(c) \/ Ru(c) THEN "direct" ELSE "Auto_Balancer"
<1>1. /\ Matches(Common1, c) <=> c.domain = "none" /\ c.net = "local"
      /\ Matches(Common2, c) <=> c.domain = "none" /\ c.net = "apple"
      /\ Matches(Common3, c) <=> c.protocol = "bittorrent"
      /\ Matches(Ru1, c) <=> c.domain \in {"ru", "apple"}
      /\ Matches(Ru2, c) <=> c.domain = "none" /\ c.net = "ru"
      /\ Matches(Youtube, c) <=> c.domain = "youtube"
      /\ \A t : Matches(Everything(t), c)
  BY RuleFacts DEF Common1, Common2, Common3, Ru1, Ru2, Youtube, LocalIPNets, AppleIPNets,
                   RuDirectDomains, RuDirectIPNets, YoutubeProxyDomains
<1>2. /\ Common1.to = "direct" /\ Common2.to = "direct" /\ Common3.to = "direct"
      /\ Ru1.to = "direct" /\ Ru2.to = "direct" /\ Youtube.to = "proxy"
      /\ \A t : Everything(t).to = t
  BY TagFacts DEF Common1, Common2, Common3, Ru1, Ru2, Youtube
<1>3. NeverTunnelled(c) <=> Matches(Common1, c) \/ Matches(Common2, c) \/ Matches(Common3, c)
  BY <1>1 DEF NeverTunnelled, LocalIPNets, AppleIPNets
<1>4. Ru(c) <=> Matches(Ru1, c) \/ Matches(Ru2, c)
  BY <1>1 DEF Ru
<1>5. Route("full", c) = IF NeverTunnelled(c) THEN "direct" ELSE "proxy"
  <2> DEFINE r == RulesOf("full")
  <2>1. /\ DOMAIN r = 1 .. 4
        /\ r[1] = Common1 /\ r[2] = Common2 /\ r[3] = Common3 /\ r[4] = Everything("proxy")
    BY RulesFacts DEF Are
  <2>2. Matches(r[4], c) /\ 4 \in Nat \ {0}
    BY <1>1, <2>1
  <2>3. PICK i \in 1 .. 4 : /\ Route("full", c) = r[i].to /\ Matches(r[i], c)
                            /\ \A j \in 1 .. 4 : Matches(r[j], c) => i <= j
    BY <2>1, <2>2, FirstRule, Zenon
  <2> HIDE DEF r
  <2>4. i \in {1, 2, 3, 4}
    OBVIOUS
  <2> QED
    BY <1>1, <1>2, <1>3, <2>1, <2>3, <2>4
<1>6. ASSUME NEW p \in {"bypass", "auto"}, NEW t, t = IF p = "auto" THEN "Auto_Balancer" ELSE "proxy"
      PROVE  Route(p, c) = IF NeverTunnelled(c) \/ Ru(c) THEN "direct" ELSE t
  <2> DEFINE r == RulesOf(p)
  <2>1. /\ DOMAIN r = 1 .. 6
        /\ r[1] = Common1 /\ r[2] = Common2 /\ r[3] = Common3
        /\ r[4] = Ru1 /\ r[5] = Ru2 /\ r[6] = Everything(t)
    BY <1>6, RulesFacts DEF Are
  <2>2. Matches(r[6], c) /\ 6 \in Nat \ {0}
    BY <1>1, <2>1
  <2>3. PICK i \in 1 .. 6 : /\ Route(p, c) = r[i].to /\ Matches(r[i], c)
                            /\ \A j \in 1 .. 6 : Matches(r[j], c) => i <= j
    BY <2>1, <2>2, FirstRule, Zenon
  <2> HIDE DEF r
  <2>4. i \in {1, 2, 3, 4, 5, 6}
    OBVIOUS
  <2> QED
    BY <1>1, <1>2, <1>3, <1>4, <2>1, <2>3, <2>4
<1>7. Route("youtube", c) = IF ~NeverTunnelled(c) /\ c.domain = "youtube" THEN "proxy" ELSE "direct"
  <2> DEFINE r == RulesOf("youtube")
  <2>1. /\ DOMAIN r = 1 .. 7
        /\ r[1] = Common1 /\ r[2] = Common2 /\ r[3] = Common3 /\ r[4] = Youtube
        /\ r[5] = Ru1 /\ r[6] = Ru2 /\ r[7] = Everything("direct")
    BY RulesFacts DEF Are
  <2>2. Matches(r[7], c) /\ 7 \in Nat \ {0}
    BY <1>1, <2>1
  <2>3. PICK i \in 1 .. 7 : /\ Route("youtube", c) = r[i].to /\ Matches(r[i], c)
                            /\ \A j \in 1 .. 7 : Matches(r[j], c) => i <= j
    BY <2>1, <2>2, FirstRule, Zenon
  <2> HIDE DEF r
  <2>4. i \in {1, 2, 3, 4, 5, 6, 7}
    OBVIOUS
  <2> QED
    BY <1>1, <1>2, <1>3, <2>1, <2>3, <2>4
<1>8. Route("bypass", c) = IF NeverTunnelled(c) \/ Ru(c) THEN "direct" ELSE "proxy"
  BY <1>6
<1>9. Route("auto", c) = IF NeverTunnelled(c) \/ Ru(c) THEN "direct" ELSE "Auto_Balancer"
  BY <1>6
<1> QED
  BY <1>5, <1>7, <1>8, <1>9

\* Every mode agrees with the others on every connection.
Profiles == {"full", "bypass", "youtube", "auto"}

LEMMA Agree == Profiles \subseteq Agreeing
<1>1. DOMAIN Routes = Profiles
  BY DEF Routes, Profiles
<1>2. \A p \in Profiles : /\ Tunnelled[p] \subseteq Connections
                           /\ \A c \in Connections : c \in Tunnelled[p] <=> Route(p, c) # "direct"
  BY <1>1 DEF Routes, Tunnelled, Profiles
<1>3. \A p \in Profiles : \A c \in Tunnelled[p] : ~NeverTunnelled(c)
  BY <1>2, RouteFacts DEF Profiles
<1>4. \A p \in Profiles : Tunnelled[p] \subseteq Tunnelled["full"]
  <2>1. \A p \in Profiles, c \in Connections : Route(p, c) # "direct" => Route("full", c) # "direct"
    BY RouteFacts DEF Profiles
  <2> QED
    BY <1>2, <2>1 DEF Profiles
<1>5. Tunnelled["auto"] = Tunnelled["bypass"]
  <2>1. \A c \in Connections : Route("auto", c) # "direct" <=> Route("bypass", c) # "direct"
    BY RouteFacts
  <2> QED
    BY <1>2, <2>1 DEF Profiles
<1> QED
  BY <1>1, <1>3, <1>4, <1>5 DEF Agreeing

\* Only the balanced entry sends through the balancer, and it has no other way.
LEMMA Tags ==
    /\ \A p \in {"full", "bypass", "youtube"} : TagsUsed[p] \subseteq {"proxy"}
    /\ TagsUsed["auto"] \subseteq {"Auto_Balancer"}
<1>1. \A p \in {"full", "bypass", "youtube", "auto"} :
         TagsUsed[p] = {Route(p, c) : c \in Connections} \ {"direct"}
  BY DEF TagsUsed, Routes
<1> QED
  BY <1>1, RouteFacts

\* So every entry has one of these modes, and every tag leads somewhere, whatever
\* the servers.
LEMMA Somewhere ==
    ASSUME NEW held \in Seq(PbServers), Distinct(held)
    PROVE  LET configs == WriteJSONFormat(held)
           IN  \A n \in DOMAIN configs :
                  /\ configs[n].profile \in Profiles
                  /\ \A tag \in TagsUsed[configs[n].profile] : Leads(configs[n], tag) # {}
<1> DEFINE configs == WriteJSONFormat(held)
           P == PriorityServers(held)
           Q == NormalServers(held)
           D == PickDefaultServer(held)
<1>1. Len(held) \in Nat /\ DOMAIN held = 1 .. Len(held)
  BY LenProperties
<1>2. P \in Seq(PbServers) /\ Q \in Seq(PbServers)
  BY SplitFacts DEF Block
<1>3. PICK k \in Nat : k = Len(P) + Len(Q) + 3
  BY <1>2, LenProperties
<1>4. CASE held # <<>>
  <2>1. /\ Len(configs) = (IF Len(held) >= 2 THEN k + 1 ELSE k)
        /\ DOMAIN configs = 1 .. Len(configs)
        /\ \A n \in 1 .. k : EntryAt(configs[n], P, Q, D, n)
        /\ Len(held) >= 2 => configs[k + 1] = BuildAutoXrayConfig(held)
    BY <1>2, <1>3, <1>4, ConfigsAt
  <2> HIDE DEF configs, P, Q, D
  <2>1a. \A n \in DOMAIN configs : configs[n].profile \in Profiles
    <3>1. \A n \in 1 .. k : configs[n].profile \in Profiles
      BY <2>1 DEF EntryAt, Profiles
    <3>2. BuildAutoXrayConfig(held).profile \in Profiles
      BY DEF BuildAutoXrayConfig, Profiles
    <3>3. \A n \in DOMAIN configs : n \in 1 .. k \/ (n = k + 1 /\ Len(held) >= 2)
      BY <1>1, <2>1
    <3> QED
      BY <2>1, <3>1, <3>2, <3>3
  <2> SUFFICES ASSUME NEW n \in DOMAIN configs, NEW tag \in TagsUsed[configs[n].profile]
               PROVE  Leads(configs[n], tag) # {}
    BY <2>1a DEF configs
  <2>2. CASE n \in 1 .. k
    <3>1. EntryAt(configs[n], P, Q, D, n)
      BY <2>1, <2>2
    <3>2. tag = "proxy"
      BY <3>1, Tags DEF EntryAt
    <3> DEFINE o == Outbound(0, ServerAt(P, Q, D, n))
    <3>3. o \in configs[n].outbounds
      BY <3>1 DEF EntryAt
    <3>4. o.tag = <<"proxy", 0>>
      BY DEF Outbound
    <3> HIDE DEF o
    <3> QED
      BY <3>2, <3>3, <3>4 DEF Leads
  <2>3. CASE n \notin 1 .. k
    <3>1. n = k + 1 /\ Len(held) >= 2
      BY <1>1, <2>1, <2>3
    <3>2. configs[n] = BuildAutoXrayConfig(held)
      BY <2>1, <3>1
    <3>3. /\ configs[n].profile = "auto"
          /\ configs[n].outbounds = {Outbound(i, held[i]) : i \in DOMAIN held}
      BY <3>2 DEF BuildAutoXrayConfig
    <3>4. tag = "Auto_Balancer"
      BY <3>3, Tags
    <3>5. Outbound(1, held[1]) \in configs[n].outbounds
      BY <1>1, <3>1, <3>3
    <3>6. Outbound(1, held[1]).tag[1] = "proxy"
      BY DEF Outbound
    <3> QED
      BY <3>4, <3>5, <3>6 DEF Leads
  <2> QED
    BY <2>2, <2>3
<1>5. CASE held = <<>>
  <2>1. configs = <<>>
    BY <1>5, NothingGiven
  <2> HIDE DEF configs
  <2>2. DOMAIN configs = {}
    BY <2>1
  <2> QED
    BY <2>2 DEF configs
<1> QED
  BY <1>4, <1>5

-----------------------------------------------------------------------------
(* What the clients were given.                                              *)

\* What a client was given has every server once.
GivenDistinct == \A h \in Requests : At(h, "touch") => Distinct(req[h].given)

LEMMA GivenAside ==
    ASSUME GivenDistinct,
           \A h \in Requests : \/ req'[h] = req[h] \/ req'[h].pc # "touch"
                               \/ Distinct(req'[h].given)
    PROVE  GivenDistinct'
<1> SUFFICES ASSUME NEW h \in Requests, At(h, "touch")' PROVE Distinct(req'[h].given)
  BY DEF GivenDistinct
<1>1. req'[h].pc = "touch"
  BY DEF At
<1>2. CASE req'[h] = req[h]
  <2>1. At(h, "touch") /\ Distinct(req[h].given)
    BY <1>1, <1>2 DEF At, GivenDistinct
  <2> QED
    BY <1>2, <2>1
<1> QED
  BY <1>1, <1>2

LEMMA GivenInit == Init => GivenDistinct
  BY DEF Init, DevicesInit, GivenDistinct, At, NoCall

LEMMA GivenStep == IInv /\ GivenDistinct /\ [Next]_vars => GivenDistinct'
<1> SUFFICES ASSUME IInv, GivenDistinct, [Next]_vars PROVE GivenDistinct'
  OBVIOUS
<1> USE DEF At
<1>1. servers \in [Servers -> ServerRow] /\ req \in [Requests -> LinkCall \cup TouchCall \cup {NoCall}]
  BY DEF IInv, DInv, DevicesTypeOK
\* A call that ends, or goes on as a call of GetVLESSLink.
<1>2. ASSUME NEW h \in Requests, NEW c, c.pc # "touch", req' = [req EXCEPT ![h] = c]
      PROVE  GivenDistinct'
  <2>1. \A g \in Requests : req'[g] = req[g] \/ req'[g].pc # "touch"
    BY <1>1, <1>2
  <2> QED
    BY <2>1, GivenAside
<1>3. ASSUME NEW h \in Requests, Done(h) PROVE GivenDistinct'
  BY <1>2, <1>3 DEF Done, NoCall
<1>4. CASE UNCHANGED req
  BY <1>4, GivenAside
<1>5. CASE Rows
  BY <1>4, <1>5 DEF Rows
<1>6. CASE Subscriptions
  BY <1>4, <1>6 DEF Subscriptions, deviceVars
<1>7. CASE Counting
  BY <1>4, <1>7 DEF Counting, deviceVars
<1>8. CASE Restart
  <2>1. \A g \in Requests : req'[g] = req[g] \/ req'[g].pc # "touch"
    BY <1>8 DEF Restart, NoCall
  <2> QED
    BY <2>1, GivenAside
<1>9. CASE UseOfDevices
  <2>1. ASSUME NEW h \in Requests, NEW i \in Subs, NEW s \in Servers, NEW d \in Devices,
               GenerateVLESSLink(h, i, s, d)
        PROVE  GivenDistinct'
    <3>1. GetVLESSLink(i, s, d).pc # "touch"
      BY DEF GetVLESSLink
    <3> QED
      BY <1>2, <2>1, <3>1 DEF GenerateVLESSLink, Start
  <2>2. ASSUME NEW h \in Requests, NEW r \in 1 .. drawn, NEW a \in Agents,
               GetSubscriptionConfig(h, r, a)
        PROVE  GivenDistinct'
    <3>1. Distinct(ListServers)
      BY <1>1, ListFacts DEF Distinct
    <3>2. \A g \in Requests : req'[g] = req[g] \/ req'[g].given = ListServers
      BY <1>1, <2>2 DEF GetSubscriptionConfig, Start
    <3> QED
      BY <3>1, <3>2, GivenAside
  <2>3. ASSUME NEW h \in Requests, GetActiveConnections(h) PROVE GivenDistinct'
    <3>1. req[h].pc = "known?"
      BY <2>3 DEF GetActiveConnections
    <3>2. \A g \in Requests : req'[g] = req[g] \/ req'[g].pc # "touch"
      BY <1>1, <2>3, <3>1 DEF GetActiveConnections, LinkCall, TouchCall, NoCall
    <3> QED
      BY <3>2, GivenAside
  <2>4. ASSUME NEW h \in Requests, CheckLimit(h) PROVE GivenDistinct'
    <3>1. \/ Done(h)
          \/ \A g \in Requests : req'[g] = req[g] \/ req'[g].pc # "touch"
      BY <1>1, <2>4 DEF CheckLimit, LinkCall, TouchCall, NoCall
    <3> QED
      BY <1>3, <3>1, GivenAside
  <2>5. ASSUME NEW h \in Requests,
               UpsertActiveConnection(h) \/ RegisterDeviceTouch(h) \/ TouchTimesOut(h)
        PROVE  GivenDistinct'
    BY <1>3, <2>5 DEF UpsertActiveConnection, RegisterDeviceTouch, TouchTimesOut
  <2>6. CASE \E f \in fetches : DisconnectDevice(f)
    BY <1>4, <2>6 DEF DisconnectDevice
  <2>7. CASE UpdateServerLoad
    BY <1>4, <2>7 DEF UpdateServerLoad
  <2>8. CASE \E s \in Servers, k \in Kinds : EditServer(s, k)
    BY <1>4, <2>8 DEF EditServer
  <2> QED
    BY <1>9, <2>1, <2>2, <2>3, <2>4, <2>5, <2>6, <2>7, <2>8 DEF UseOfDevices
<1>10. CASE UNCHANGED vars
  BY <1>4, <1>10 DEF vars, deviceVars
<1> QED
  BY <1>5, <1>6, <1>7, <1>8, <1>9, <1>10 DEF Next

LEMMA GivenAlways == Spec => [](IInv /\ GivenDistinct)
  BY GivenInit, GivenStep, Invariant, PTL DEF Spec

-----------------------------------------------------------------------------
(* What a reader should know of.                                             *)

\* Tables and calls keep their shape: the foreign keys leave no device and no
\* sample without its row, a device is listed once per row, no two users share
\* a row, and a tick has no samples of a server it is still to visit.
THEOREM TypeCorrect == Spec => []TypeOK
<1>1. IInv => TypeOK
  BY DEF IInv, AInv, DInv, TInv, TypeOK
<1> QED
  BY <1>1, Invariant, PTL

\* However many subscriptions a user has, and however purchases, cancellations,
\* calls of CreateVPNUser and ticks of ExpireCron interleave: a running
\* subscription whose row was made is without it only if it was paid for while
\* ExpireCron was at its user or another of his has lapsed; and a row outlives
\* its subscription only while the cron is to come, after a failure, if it was
\* made after the end, or after a cancellation.
THEOREM AccessFollows == Spec => []AccessFollowsSubscription
<1>1. IInv => AccessFollowsSubscription
  BY DEF IInv, AInv, Followed, Remains, Leftover, Excused, AccessFollowsSubscription
<1> QED
  BY <1>1, Invariant, PTL

\* However calls of GetVLESSLink, touches of the subscription link, edits of the
\* plan and deletions interleave: when more devices are in use than the plan
\* allows, one of them was not let in by an undisturbed count at this limit.
THEOREM OverLimit == Spec => []OverLimitIsExplained
<1>1. IInv => OverLimitIsExplained
  <2> SUFFICES ASSUME IInv, NEW i \in Subs, row[i] # 0, CountActiveDevices(row[i]) > sub[i].max,
                      \A f \in FetchesOf(row[i]) : Fresh(f) => f.how = <<"new", sub[i].max>>
               PROVE  FALSE
    BY DEF OverLimitIsExplained
  <2>1. row[i] \in Nat /\ sub[i].max \in Plans /\ sub[i].max \in Nat
    BY SubFacts, AccessAssumption DEF IInv, AInv
  <2>2. LetIn(row[i], sub[i].max) = FreshOf(row[i])
    BY DEF LetIn, FreshOf
  <2>3. CountActiveDevices(row[i]) \in Nat /\ CountActiveDevices(row[i]) <= sub[i].max
    BY <2>1, <2>2, FreshFinite DEF IInv, DInv, Limited
  <2> QED
    BY <2>1, <2>3
<1> QED
  BY <1>1, Invariant, PTL

\* No byte is counted twice; and a byte of a user who always had his row is only
\* lost by a failure, or because a row has come or gone during a tick: whatever
\* happens between the reset of a server's counters and the commit.
THEOREM Loss == Spec => []LossHasACause
<1>1. LossInv => LossHasACause
  BY DEF LossInv
<1>2. IInv /\ LossInv /\ [Next]_vars => LossInv'
  BY LossStep
<1> QED
  BY <1>1, <1>2, LossInit, Invariant, PTL DEF Spec

\* Whatever the servers were when a client asked, both formats of his
\* configuration list them all under the same names, each once on its own; the
\* modes use a server of priority 0, and of the gateway's country, when there is
\* one; the balanced entry is there from two servers on; and a server in disguise
\* shows no short id and is asked for names in the clear where it splits the
\* tunnel.
THEOREM Configs == Spec => []ConfigIsComplete
<1>1. IInv /\ GivenDistinct => ConfigIsComplete
  <2> SUFFICES ASSUME IInv, GivenDistinct, NEW h \in Requests, At(h, "touch")
               PROVE  CompleteConfig(req[h].given)
    BY DEF ConfigIsComplete
  <2>1. req[h] \in TouchCall
    BY DEF IInv, DInv, DevicesTypeOK, At, LinkCall, TouchCall, NoCall
  <2>2. req[h].given \in Seq(PbServers) /\ Distinct(req[h].given)
    BY <2>1 DEF TouchCall, GivenDistinct
  <2> QED
    BY <2>2, Complete
<1> QED
  BY <1>1, GivenAlways, PTL

\* Whatever the servers were when a client asked: a connection of his goes
\* somewhere that exists in the entry he has chosen; the balanced entry tunnels
\* exactly what the mode bypass does; the mode full tunnels whatever another
\* does; and none tunnels bittorrent or a bare local or Apple address.
THEOREM Routing == Spec => []RoutesAgree
<1>1. IInv /\ GivenDistinct => RoutesAgree
  <2> SUFFICES ASSUME IInv, GivenDistinct, NEW h \in Requests, At(h, "touch")
               PROVE  LET configs == WriteJSONFormat(req[h].given)
                      IN  \A n \in DOMAIN configs :
                             /\ configs[n].profile \in Agreeing
                             /\ \A tag \in TagsUsed[configs[n].profile] : Leads(configs[n], tag) # {}
    BY DEF RoutesAgree
  <2>1. req[h] \in TouchCall
    BY DEF IInv, DInv, DevicesTypeOK, At, LinkCall, TouchCall, NoCall
  <2>2. req[h].given \in Seq(PbServers) /\ Distinct(req[h].given)
    BY <2>1 DEF TouchCall, GivenDistinct
  <2> QED
    BY <2>2, Agree, Somewhere
<1> QED
  BY <1>1, GivenAlways, PTL
=============================================================================
