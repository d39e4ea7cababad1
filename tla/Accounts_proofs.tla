---------------------------- MODULE Accounts_proofs ----------------------------
(***************************************************************************)
(* Theorems about Accounts, for any people, links, campaigns, requests and *)
(* numbers of failures.                                                    *)
(*                                                                         *)
(* The rows of a person are written by several requests at once, but only  *)
(* the request whose INSERT made the user takes him for a newcomer: it is  *)
(* the only one that gives him his campaign and his trial.  A promo code   *)
(* takes one payment, which only the request that opened it can put there. *)
(***************************************************************************)
EXTENDS Accounts, SequenceTheorems, FiniteSetTheorems, TLAPS

-----------------------------------------------------------------------------
(* Requests.                                                                 *)

Requests == req \in [Handlers -> Request \cup {None}]

\* What a request may believe of the person it is about.
ReqInv(h) == req[h] # None =>
    /\ req[h].new => /\ users[req[h].who] # None
                     /\ req[h].pc \in {"opened", "attribute", "trial", "vpn"}
                     /\ req[h].pc = "vpn" <=> users[req[h].who].trial # "none"
    /\ req[h].pc \in {"attribute", "trial", "vpn"} => req[h].new
    /\ req[h].pc = "role" => users[req[h].who] # None /\ req[h].param \in {"user", "partner"}

\* Nobody is a newcomer for two requests.
OneNew == \A g, h \in Handlers :
    req[g] # None /\ req[h] # None /\ req[g].new /\ req[h].new /\ req[g].who = req[h].who => g = h

NewInv == OneNew /\ \A h \in Handlers : ReqInv(h)

\* Newcomers whom no request will serve: one failure each.
Unserved(t) ==
    /\ t \notin shadow /\ users[t] # None
    /\ users[t].trial = "none" \/ ~users[t].vpn
    /\ ~\E h \in Handlers : req[h] # None /\ req[h].who = t /\ req[h].new
UnservedNow == {t \in People : Unserved(t)}
ServedInv == IsFiniteSet(UnservedNow) /\ Cardinality(UnservedNow) <= faults

LEMMA None1 == /\ None \notin User /\ None \notin Campaign /\ None \notin BotStart
               /\ None \notin Request /\ None \notin Nat /\ None \notin Campaigns
BY NoneAssumption, AccountsAssumption

LEMMA ReqFacts ==
    ASSUME Requests, NEW h \in Handlers, req[h] # None
    PROVE  /\ req[h] \in Request /\ req[h].who \in People /\ req[h].new \in BOOLEAN
           /\ req[h].kind \in {"bot", "app", "role", "promo", "redeem"} /\ req[h].param \in Params
BY DEF Requests, Request

LEMMA ReqMoves ==
    ASSUME Requests, NEW h \in Handlers, NEW r \in Request \cup {None}, req' = [req EXCEPT ![h] = r]
    PROVE  /\ Requests' /\ req'[h] = r /\ \A g \in Handlers \ {h} : req'[g] = req[g]
BY DEF Requests

LEMMA GotoFacts ==
    ASSUME Requests, NEW h \in Handlers, req[h] # None, NEW step, Goto(h, step),
           step \in {"record", "find", "create", "opened", "attribute", "trial", "vpn", "role",
                     "lookup", "shadow", "issue", "insert", "invoice", "attach"}
    PROVE  /\ Requests' /\ req'[h] # None /\ \A g \in Handlers \ {h} : req'[g] = req[g]
           /\ req'[h].pc = step /\ req'[h].who = req[h].who /\ req'[h].param = req[h].param
           /\ req'[h].new = req[h].new /\ req'[h].kind = req[h].kind
<1> DEFINE r == [req[h] EXCEPT !.pc = step]
<1>1. req[h] \in Request
  BY ReqFacts
<1>2. /\ r \in Request /\ r.pc = step /\ r.who = req[h].who /\ r.param = req[h].param
      /\ r.new = req[h].new /\ r.kind = req[h].kind
  BY <1>1 DEF Request
<1>3. req' = [req EXCEPT ![h] = r]
  BY DEF Goto, Requests
<1> HIDE DEF r
<1>4. /\ Requests' /\ req'[h] = r /\ \A g \in Handlers \ {h} : req'[g] = req[g]
  BY <1>2, <1>3, ReqMoves
<1>5. r # None
  BY <1>2, None1
<1> QED
  BY <1>2, <1>4, <1>5

LEMMA DoneFacts ==
    ASSUME Requests, NEW h \in Handlers, Done(h)
    PROVE  Requests' /\ req'[h] = None /\ \A g \in Handlers \ {h} : req'[g] = req[g]
BY ReqMoves DEF Done

LEMMA BeginFacts ==
    ASSUME Requests, NEW h \in Handlers, NEW kind \in {"bot", "app", "role", "promo", "redeem"},
           NEW t \in People, NEW param \in Params,
           NEW step \in {"record", "find", "role", "lookup", "invoice"},
           Begin(h, kind, t, param, step), served \in 0 .. MaxRequests
    PROVE  /\ Requests' /\ req[h] = None /\ req'[h] # None
           /\ \A g \in Handlers \ {h} : req'[g] = req[g]
           /\ req'[h].kind = kind /\ req'[h].who = t /\ req'[h].param = param /\ req'[h].pc = step
           /\ ~req'[h].new /\ served' \in 0 .. MaxRequests
<1> DEFINE r == [kind |-> kind, who |-> t, param |-> param, pc |-> step, new |-> FALSE]
<1>1. r \in Request
  BY DEF Request
<1>2. /\ req[h] = None /\ req' = [req EXCEPT ![h] = r]
      /\ r.kind = kind /\ r.who = t /\ r.param = param /\ r.pc = step /\ r.new = FALSE
  BY DEF Begin
<1>3. served' \in 0 .. MaxRequests
  BY AccountsBounds DEF Begin
<1> HIDE DEF r
<1>4. /\ Requests' /\ req'[h] = r /\ \A g \in Handlers \ {h} : req'[g] = req[g]
  BY <1>1, <1>2, ReqMoves
<1>5. r # None
  BY <1>1, None1
<1> QED
  BY <1>2, <1>3, <1>4, <1>5

\* Requests move, users keep their trial, and nobody becomes a newcomer but by
\* the INSERT of his row.
LEMMA NewStays ==
    ASSUME Requests, NewInv, NEW h \in Handlers,
           \A g \in Handlers \ {h} : req'[g] = req[g],
           \A t \in People : users[t] # None => users'[t] # None,
           \A t \in People : users[t] # None /\ (req[h] # None => ~(req[h].new /\ req[h].who = t))
                                => users'[t].trial = users[t].trial,
           ReqInv(h)',
           req'[h] # None /\ req'[h].new =>
              \/ req[h] # None /\ req[h].new /\ req'[h].who = req[h].who
              \/ users[req'[h].who] = None
    PROVE  NewInv'
<1>1. ASSUME NEW g \in Handlers \ {h} PROVE ReqInv(g)'
  <2> SUFFICES ASSUME req[g] # None PROVE ReqInv(g)'
    BY DEF ReqInv
  <2>1. req'[g] = req[g] /\ ReqInv(g) /\ req[g].who \in People
    BY ReqFacts DEF NewInv
  <2>2. req[g].new => users[req[g].who] # None /\ (req[h] # None => ~(req[h].new /\ req[h].who = req[g].who))
    BY <2>1 DEF NewInv, OneNew, ReqInv
  <2>3. users[req[g].who] # None => users'[req[g].who] # None
    BY <2>1
  <2>4. req[g].new => users'[req[g].who].trial = users[req[g].who].trial
    BY <2>1, <2>2
  <2> QED
    BY <2>1, <2>2, <2>3, <2>4 DEF ReqInv
<1>2. OneNew'
  <2> SUFFICES ASSUME NEW g \in Handlers \ {h}, req'[h] # None, req[g] # None, req'[h].new, req[g].new,
                      req'[h].who = req[g].who
               PROVE  FALSE
    BY DEF NewInv, OneNew
  <2>1. users[req[g].who] # None
    BY DEF NewInv, ReqInv
  <2> QED
    BY <2>1 DEF NewInv, OneNew
<1> QED
  BY <1>1, <1>2 DEF NewInv

LEMMA ServedStays ==
    ASSUME ServedInv, faults \in Nat, faults' \in Nat, faults' >= faults,
           \A t \in People : Unserved(t)' => Unserved(t)
    PROVE  ServedInv'
<1>1. UnservedNow' \subseteq UnservedNow
  BY DEF UnservedNow
<1>2. IsFiniteSet(UnservedNow') /\ Cardinality(UnservedNow') <= Cardinality(UnservedNow)
  BY <1>1, FS_Subset DEF ServedInv
<1>3. Cardinality(UnservedNow') \in Nat /\ Cardinality(UnservedNow) \in Nat
  BY <1>2, FS_CardinalityType DEF ServedInv
<1> QED
  BY <1>2, <1>3 DEF ServedInv

LEMMA ServedOneLess ==
    ASSUME ServedInv, faults \in Nat, faults' = faults + 1, NEW v,
           \A t \in People : Unserved(t)' => Unserved(t) \/ t = v
    PROVE  ServedInv'
<1>1. UnservedNow' \subseteq UnservedNow \cup {v}
  BY DEF UnservedNow
<1>2. /\ IsFiniteSet(UnservedNow \cup {v})
      /\ Cardinality(UnservedNow \cup {v}) <= Cardinality(UnservedNow) + 1
      /\ Cardinality(UnservedNow) \in Nat
  <2>1. Cardinality(UnservedNow) \in Nat
    BY FS_CardinalityType DEF ServedInv
  <2> QED
    BY <2>1, FS_AddElement DEF ServedInv
<1>3. /\ IsFiniteSet(UnservedNow')
      /\ Cardinality(UnservedNow') <= Cardinality(UnservedNow \cup {v})
  BY <1>1, <1>2, FS_Subset
<1>4. Cardinality(UnservedNow') \in Nat /\ Cardinality(UnservedNow \cup {v}) \in Nat
  BY <1>2, <1>3, FS_CardinalityType
<1> QED
  BY <1>2, <1>3, <1>4 DEF ServedInv

-----------------------------------------------------------------------------
(* The invariant.                                                            *)

PeopleOK ==
    /\ users \in [People -> User \cup {None}]
    /\ starts \in [People -> BotStart \cup {None}]
    /\ campaigns \in [Campaigns -> Campaign \cup {None}]
    /\ invited \subseteq Refs \X People /\ shadow \subseteq People
    /\ served \in 0 .. MaxRequests /\ faults \in 0 .. MaxFaults

Payment == [promo : DOMAIN promo, link : BOOLEAN, paid : BOOLEAN,
            hook : {"none", "due", "done", "lost"}]
PromoOK ==
    /\ promo \in Seq(Promo) /\ Len(promo) <= MaxPromos
    /\ \A t \in People : Cardinality(ActivePromos(t)) <= 1
    /\ pays \in Seq(Payment) /\ Len(pays) <= MaxPays

\* A payment in a promo code was opened through it, is linked to before it is
\* paid, and is put there by one request, once.
PromoInv ==
    /\ \A p \in DOMAIN promo : promo[p].pay # None =>
          promo[p].pay \in DOMAIN pays /\ pays[promo[p].pay].promo = p
    /\ \A i \in DOMAIN pays : pays[i].hook # "none" => pays[i].link /\ pays[i].paid
    /\ \A h \in Handlers : At(h, "invoice") => req[h].param \in DOMAIN promo
    /\ \A h \in Handlers : At(h, "attach") => req[h].param \in DOMAIN pays /\ ~pays[req[h].param].link
    /\ \A g, h \in Handlers : At(g, "attach") /\ At(h, "attach") /\ req[g].param = req[h].param => g = h

PromoAll == PromoOK /\ PromoInv /\ PromoFollowsItsPayment

IInv == PeopleOK /\ Requests /\ NewInv /\ ServedInv /\ PromoAll

LEMMA TypeParts ==
    ASSUME IInv
    PROVE  TypeOK
<1>1. \A h \in Handlers : req[h] = None \/
          /\ DOMAIN req[h] = {"kind", "who", "param", "pc", "new"}
          /\ req[h].who \in People /\ req[h].new \in BOOLEAN
          /\ req[h].new => users[req[h].who] # None
  BY DEF IInv, Requests, Request, NewInv, ReqInv
<1> QED
  BY <1>1 DEF IInv, PeopleOK, PromoAll, PromoOK, Payment, TypeOK

LEMMA FaultFacts ==
    ASSUME PeopleOK
    PROVE  /\ faults \in Nat /\ served \in 0 .. MaxRequests
           /\ Fault => faults' = faults + 1 /\ faults' \in 0 .. MaxFaults /\ faults' \in Nat
BY AccountsBounds DEF PeopleOK, Fault

LEMMA UserFacts ==
    ASSUME PeopleOK, NEW t \in People, users[t] # None
    PROVE  /\ users[t] \in User /\ users[t].role \in Roles /\ users[t].attr \in Campaigns \cup {None}
           /\ users[t].trial \in {"none", "default", "campaign"} /\ users[t].vpn \in BOOLEAN
BY DEF PeopleOK, User

LEMMA UserWritten ==
    ASSUME PeopleOK, NEW t \in People, NEW u \in User, users' = [users EXCEPT ![t] = u]
    PROVE  /\ users' \in [People -> User \cup {None}]
           /\ users'[t] = u /\ users'[t] # None /\ \A v \in People \ {t} : users'[v] = users[v]
BY None1 DEF PeopleOK

\* Requests that have nothing to do with promo codes.
LEMMA PromoAside ==
    ASSUME PromoAll, promo' = promo, pays' = pays,
           \A g \in Handlers : \/ req'[g] = req[g] \/ req'[g] = None
                               \/ req'[g].pc \notin {"invoice", "attach"}
    PROVE  PromoAll'
<1>1. PromoOK' /\ PromoFollowsItsPayment'
  BY DEF PromoAll, PromoOK, Payment, ActivePromos, PromoFollowsItsPayment
<1>2. \A g \in Handlers : /\ At(g, "invoice")' => At(g, "invoice") /\ req'[g] = req[g]
                          /\ At(g, "attach")' => At(g, "attach") /\ req'[g] = req[g]
  BY DEF At
<1>3. PromoInv'
  BY <1>2 DEF PromoAll, PromoInv
<1> QED
  BY <1>1, <1>3 DEF PromoAll

\* A request moves and no user changes.
LEMMA QuietStep ==
    ASSUME IInv, NEW h \in Handlers, Requests', \A g \in Handlers \ {h} : req'[g] = req[g],
           users' = users, shadow' = shadow, ReqInv(h)', faults' \in Nat, faults' >= faults,
           req'[h] # None /\ req'[h].new =>
              req[h] # None /\ req[h].new /\ req'[h].who = req[h].who,
           req[h] # None /\ req[h].new =>
              req'[h] # None /\ req'[h].new /\ req'[h].who = req[h].who
    PROVE  NewInv' /\ ServedInv'
<1>1. NewInv'
  BY NewStays DEF IInv
<1>2. \A t \in People : Unserved(t)' => Unserved(t)
  BY DEF Unserved
<1>3. ServedInv'
  BY <1>2, FaultFacts, ServedStays DEF IInv
<1> QED
  BY <1>1, <1>3

-----------------------------------------------------------------------------
(* Requests that begin.                                                      *)

LEMMA BeginStep ==
    ASSUME IInv, NEW h \in Handlers, NEW kind \in {"bot", "app", "role", "promo"}, NEW t \in People,
           NEW param \in Params, NEW step \in {"record", "find", "role", "lookup"},
           Begin(h, kind, t, param, step), UNCHANGED <<people, campaigns, promos, faults>>,
           step = "role" => users[t] # None /\ param \in {"user", "partner"}
    PROVE  IInv'
<1>0. Requests /\ served \in 0 .. MaxRequests
  BY FaultFacts DEF IInv
<1>1. /\ Requests' /\ req[h] = None /\ req'[h] # None
      /\ \A g \in Handlers \ {h} : req'[g] = req[g]
      /\ req'[h].who = t /\ req'[h].param = param /\ req'[h].pc = step
      /\ ~req'[h].new /\ served' \in 0 .. MaxRequests
  <2>1. kind \in {"bot", "app", "role", "promo", "redeem"} /\ step \in {"record", "find", "role", "lookup", "invoice"}
    OBVIOUS
  <2> QED
    BY <1>0, <2>1, BeginFacts
<1>2. /\ users' = users /\ starts' = starts /\ invited' = invited /\ shadow' = shadow
      /\ campaigns' = campaigns /\ promo' = promo /\ pays' = pays /\ faults' = faults
  BY DEF people, promos
<1>3. ReqInv(h)'
  BY <1>1, <1>2 DEF ReqInv
<1>4. NewInv' /\ ServedInv'
  BY <1>1, <1>2, <1>3, FaultFacts, QuietStep DEF IInv
<1>5. PromoAll'
  BY <1>1, <1>2, PromoAside DEF IInv
<1>6. PeopleOK'
  BY <1>1, <1>2 DEF IInv, PeopleOK
<1> QED
  BY <1>1, <1>4, <1>5, <1>6 DEF IInv

LEMMA ArrivalStep ==
    ASSUME IInv, NEW h \in Handlers, NEW t \in People,
           \/ \E x \in Refs \cup Campaigns \cup {None} : HandleStart(h, t, x)
           \/ \E x \in Refs \cup {None} : ValidateTelegramUser(h, t, x)
           \/ \E role \in {"user", "partner"} : SelfUpdateRole(h, t, role)
           \/ \E a \in People : HandlePromo(h, a, t)
    PROVE  IInv'
<1>1. CASE \E x \in Refs \cup Campaigns \cup {None} : HandleStart(h, t, x)
  BY <1>1, BeginStep DEF HandleStart, Params
<1>2. CASE \E x \in Refs \cup {None} : ValidateTelegramUser(h, t, x)
  BY <1>2, BeginStep DEF ValidateTelegramUser, Params
<1>3. CASE \E role \in {"user", "partner"} : SelfUpdateRole(h, t, role)
  BY <1>3, BeginStep DEF SelfUpdateRole, Found, Params
<1>4. CASE \E a \in People : HandlePromo(h, a, t)
  BY <1>4, BeginStep DEF HandlePromo, Params
<1> QED
  BY <1>1, <1>2, <1>3, <1>4

-----------------------------------------------------------------------------
(* Requests that go on or end and leave the users as they are.               *)

LEMMA ResolveFacts == \A c : ResolveCampaignBySlug(c) \in Campaigns \cup {None}
BY DEF ResolveCampaignBySlug, Active

LEMMA BotStartFacts ==
    ASSUME PeopleOK, NEW t \in People, NEW c \in Campaigns \cup {None}, InsertBotStart(t, c)
    PROVE  starts' \in [People -> BotStart \cup {None}]
<1>1. [campaign |-> c] \in BotStart
  BY DEF BotStart
<1> QED
  BY <1>1 DEF PeopleOK, InsertBotStart

\* A request goes to a step that suits it, or ends before it makes a newcomer.
LEMMA DeskStep ==
    ASSUME IInv, NEW h \in Handlers, req[h] # None, NEW step,
           \/ Done(h) /\ ~req[h].new
           \/ Goto(h, step) /\ step \in {"attribute", "trial"} /\ req[h].new /\ req[h].pc # "vpn"
           \/ Goto(h, step) /\ step \in {"find", "create", "opened", "lookup", "shadow", "issue", "insert"}
              /\ ~req[h].new,
           UNCHANGED <<users, invited, shadow, campaigns, promos, served>>,
           starts' \in [People -> BotStart \cup {None}],
           faults' = faults \/ Fault
    PROVE  IInv'
<1>0. Requests /\ ReqInv(h) /\ PeopleOK
  BY DEF IInv, NewInv
<1>1. /\ users' = users /\ invited' = invited /\ shadow' = shadow
      /\ campaigns' = campaigns /\ promo' = promo /\ pays' = pays /\ served' = served
      /\ faults' \in Nat /\ faults' >= faults /\ faults' \in 0 .. MaxFaults
  <2>1. faults' \in Nat /\ faults' >= faults /\ faults' \in 0 .. MaxFaults
    BY <1>0, FaultFacts DEF PeopleOK
  <2> QED
    BY <2>1 DEF promos
<1>2. PeopleOK'
  BY <1>0, <1>1 DEF PeopleOK
<1>3. CASE Done(h) /\ ~req[h].new
  <2>1. Requests' /\ req'[h] = None /\ \A g \in Handlers \ {h} : req'[g] = req[g]
    BY <1>0, <1>3, DoneFacts
  <2>2. NewInv' /\ ServedInv'
    BY <1>1, <1>3, <2>1, QuietStep DEF ReqInv
  <2>3. PromoAll'
    BY <1>1, <2>1, PromoAside DEF IInv
  <2> QED
    BY <1>2, <2>1, <2>2, <2>3 DEF IInv
<1>4. CASE Goto(h, step) /\ step \in {"attribute", "trial"} /\ req[h].new /\ req[h].pc # "vpn"
  <2>1. /\ Requests' /\ req'[h] # None /\ \A g \in Handlers \ {h} : req'[g] = req[g]
        /\ req'[h].pc = step /\ req'[h].who = req[h].who /\ req'[h].new = req[h].new
    BY <1>0, <1>4, GotoFacts
  <2>2. ReqInv(h)'
    BY <1>0, <1>1, <1>4, <2>1 DEF ReqInv
  <2>3. NewInv' /\ ServedInv'
    BY <1>1, <1>4, <2>1, <2>2, QuietStep
  <2>4. PromoAll'
    BY <1>1, <1>4, <2>1, PromoAside DEF IInv
  <2> QED
    BY <1>2, <2>1, <2>3, <2>4 DEF IInv
<1>5. CASE /\ Goto(h, step) /\ step \in {"find", "create", "opened", "lookup", "shadow", "issue", "insert"}
           /\ ~req[h].new
  <2>1. /\ Requests' /\ req'[h] # None /\ \A g \in Handlers \ {h} : req'[g] = req[g]
        /\ req'[h].pc = step /\ req'[h].who = req[h].who /\ req'[h].new = req[h].new
    BY <1>0, <1>5, GotoFacts
  <2>2. ReqInv(h)'
    BY <1>0, <1>1, <1>5, <2>1 DEF ReqInv
  <2>3. NewInv' /\ ServedInv'
    BY <1>1, <1>5, <2>1, <2>2, QuietStep
  <2>4. PromoAll'
    BY <1>1, <1>5, <2>1, PromoAside DEF IInv
  <2> QED
    BY <1>2, <2>1, <2>3, <2>4 DEF IInv
<1> QED
  BY <1>3, <1>4, <1>5

LEMMA RecordStep ==
    ASSUME IInv, NEW h \in Handlers, RecordBotStart(h)
    PROVE  IInv'
<1>1. /\ req[h] # None /\ req[h].pc = "record" /\ Goto(h, "find")
      /\ UNCHANGED <<users, invited, shadow, campaigns, promos, served, faults>>
      /\ InsertBotStart(req[h].who, ResolveCampaignBySlug(req[h].param))
  BY DEF RecordBotStart, At
<1>2. ~req[h].new /\ req[h].who \in People /\ PeopleOK
  BY <1>1, ReqFacts DEF IInv, NewInv, ReqInv
<1>3. starts' \in [People -> BotStart \cup {None}]
  BY <1>1, <1>2, ResolveFacts, BotStartFacts
<1> QED
  BY <1>1, <1>2, <1>3, DeskStep

LEMMA FindStep ==
    ASSUME IInv, NEW h \in Handlers,
           GetUserByTelegramID(h) \/ LookupByTelegramID(h) \/ GetActiveByUserPlan(h)
    PROVE  IInv'
<1>1. /\ req[h] # None /\ req[h].pc \in {"find", "lookup", "issue"}
      /\ UNCHANGED <<users, starts, invited, shadow, campaigns, promos, served, faults>>
      /\ \/ Done(h)
         \/ \E step \in {"create", "opened", "issue", "shadow", "insert"} : Goto(h, step)
  BY DEF GetUserByTelegramID, LookupByTelegramID, GetActiveByUserPlan, At, people
<1>2. ~req[h].new /\ starts' \in [People -> BotStart \cup {None}]
  BY <1>1 DEF IInv, NewInv, ReqInv, PeopleOK
<1> QED
  BY <1>1, <1>2, DeskStep

LEMMA OpenStep ==
    ASSUME IInv, NEW h \in Handlers, OpenApp(h)
    PROVE  IInv'
<1>1. /\ req[h] # None /\ req[h].pc = "opened"
      /\ UNCHANGED <<users, invited, shadow, campaigns, promos, served, faults>>
      /\ InsertBotStart(req[h].who, None)
      /\ IF req[h].new THEN Goto(h, "attribute") ELSE Done(h)
  BY DEF OpenApp, At, MarkBotStartAppOpened
<1>2. req[h].who \in People /\ PeopleOK
  BY <1>1, ReqFacts DEF IInv
<1>3. starts' \in [People -> BotStart \cup {None}]
  BY <1>1, <1>2, BotStartFacts
<1> QED
  BY <1>1, <1>3, DeskStep

LEMMA BestEffortStep ==
    ASSUME IInv, NEW h \in Handlers, BestEffortFails(h)
    PROVE  IInv'
<1>1. /\ req[h] # None /\ Fault
      /\ UNCHANGED <<users, starts, invited, shadow, campaigns, promos, served>>
      /\ \/ req[h].pc = "record" /\ Goto(h, "find")
         \/ req[h].pc = "opened" /\ IF req[h].new THEN Goto(h, "attribute") ELSE Done(h)
         \/ req[h].pc = "attribute" /\ Goto(h, "trial")
  BY DEF BestEffortFails, At, people
<1>2. /\ starts' \in [People -> BotStart \cup {None}]
      /\ req[h].pc = "record" => ~req[h].new
      /\ req[h].pc = "attribute" => req[h].new
  BY <1>1 DEF IInv, NewInv, ReqInv, PeopleOK
<1> QED
  BY <1>1, <1>2, DeskStep

\* The newcomer of a request that fails is one more.
LEMMA FailStep ==
    ASSUME IInv, NEW h \in Handlers, RequestFails(h)
    PROVE  IInv'
<1>0. Requests /\ PeopleOK
  BY DEF IInv
<1>1. /\ req[h] # None /\ Requests' /\ req'[h] = None /\ \A g \in Handlers \ {h} : req'[g] = req[g]
      /\ users' = users /\ starts' = starts /\ invited' = invited /\ shadow' = shadow
      /\ campaigns' = campaigns /\ promo' = promo /\ pays' = pays /\ served' = served
      /\ faults' = faults + 1 /\ faults' \in 0 .. MaxFaults /\ faults \in Nat
  BY <1>0, DoneFacts, FaultFacts DEF RequestFails, people, promos
<1>2. NewInv'
  BY <1>0, <1>1, NewStays DEF IInv, ReqInv
<1>3. \A t \in People : Unserved(t)' => Unserved(t) \/ t = req[h].who
  BY <1>1 DEF Unserved
<1>4. ServedInv'
  BY <1>1, <1>3, ServedOneLess DEF IInv
<1>5. PromoAll'
  BY <1>1, PromoAside DEF IInv
<1> QED
  BY <1>0, <1>1, <1>2, <1>4, <1>5 DEF IInv, PeopleOK

-----------------------------------------------------------------------------
(* Requests that write a user.                                               *)

LEMMA UserStep ==
    ASSUME IInv, NEW h \in Handlers, NEW t \in People, NEW u \in User,
           req[h] # None, req[h].who = t, users' = [users EXCEPT ![t] = u],
           Requests', \A g \in Handlers \ {h} : req'[g] = req[g],
           req'[h] # None => req'[h].who = t /\ req'[h].pc \notin {"invoice", "attach"},
           starts' = starts, campaigns' = campaigns, promo' = promo, pays' = pays,
           served' = served, faults' = faults,
           invited' \subseteq Refs \X People,
           shadow' = shadow \/ shadow' = shadow \cup {t},
           ReqInv(h)',
           users[t] # None => u.trial = users[t].trial \/ req[h].new,
           req'[h] # None /\ req'[h].new => req[h].new \/ users[t] = None,
           Unserved(t)' => Unserved(t)
    PROVE  IInv'
<1>0. Requests /\ PeopleOK /\ NewInv /\ ServedInv /\ PromoAll
  BY DEF IInv
<1>1. /\ users' \in [People -> User \cup {None}]
      /\ users'[t] = u /\ users'[t] # None /\ \A v \in People \ {t} : users'[v] = users[v]
  BY <1>0, UserWritten
<1>2. NewInv'
  <2>1. \A v \in People : users[v] # None => users'[v] # None
    BY <1>1
  <2>2. \A v \in People : users[v] # None /\ (req[h] # None => ~(req[h].new /\ req[h].who = v))
                                => users'[v].trial = users[v].trial
    BY <1>1
  <2> QED
    BY <1>0, <2>1, <2>2, NewStays
<1>3. \A v \in People : Unserved(v)' => Unserved(v)
  <2> SUFFICES ASSUME NEW v \in People \ {t}, Unserved(v)' PROVE Unserved(v)
    OBVIOUS
  <2> QED
    BY <1>1 DEF Unserved
<1>4. ServedInv'
  BY <1>0, <1>3, FaultFacts, ServedStays
<1>5. PromoAll'
  BY <1>0, PromoAside
<1>6. PeopleOK'
  <2>1. shadow' \subseteq People
    BY <1>0 DEF PeopleOK
  <2> QED
    BY <1>0, <1>1, <2>1 DEF PeopleOK
<1> QED
  BY <1>2, <1>4, <1>5, <1>6 DEF IInv

\* INSERT INTO users: the request is the newcomer's; or it loses the race.
LEMMA CreateStep ==
    ASSUME IInv, NEW h \in Handlers, CreateUser(h)
    PROVE  IInv'
<1>0. Requests /\ PeopleOK /\ ReqInv(h)
  BY DEF IInv, NewInv
<1>1. /\ req[h] # None /\ req[h].pc = "create" /\ ~req[h].new /\ req[h] \in Request
      /\ starts' = starts /\ invited' = invited /\ shadow' = shadow /\ campaigns' = campaigns
      /\ promo' = promo /\ pays' = pays /\ served' = served /\ faults' = faults
  BY <1>0, ReqFacts DEF CreateUser, At, ReqInv, promos
<1>t. PICK t \in People : t = req[h].who
  BY <1>0, <1>1, ReqFacts
<1>2. CASE Done(h) /\ users' = users
  <2>1. starts' \in [People -> BotStart \cup {None}]
    BY <1>0, <1>1 DEF PeopleOK
  <2> QED
    BY <1>1, <1>2, <2>1, DeskStep DEF promos
<1>3. ASSUME users[t] = None, users' = [users EXCEPT ![t] = NewUser],
             NEW next \in {"attribute", "opened"},
             req' = [req EXCEPT ![h].new = TRUE, ![h].pc = next]
      PROVE  IInv'
  <2> DEFINE r == [req[h] EXCEPT !.new = TRUE, !.pc = next]
  <2>1. r \in Request /\ r.new /\ r.pc = next /\ r.who = t
    BY <1>1, <1>t DEF Request
  <2>2. req' = [req EXCEPT ![h] = r]
    BY <1>0, <1>3 DEF Requests
  <2> HIDE DEF r
  <2>3. /\ Requests' /\ req'[h] = r /\ \A g \in Handlers \ {h} : req'[g] = req[g]
    BY <1>0, <2>1, <2>2, ReqMoves
  <2>4. NewUser \in User /\ NewUser.trial = "none" /\ r # None
    BY <2>1, None1 DEF NewUser, User, Roles
  <2>5. users'[t] = NewUser /\ users'[t] # None
    BY <1>0, <1>3, <2>4, UserWritten
  <2>6. ReqInv(h)'
    BY <2>1, <2>3, <2>4, <2>5 DEF ReqInv
  <2>7. ~Unserved(t)'
    BY <2>1, <2>3, <2>4 DEF Unserved
  <2>8. invited' \subseteq Refs \X People
    BY <1>0, <1>1 DEF PeopleOK
  <2> QED
    BY <1>1, <1>3, <1>t, <2>1, <2>3, <2>4, <2>6, <2>7, <2>8, UserStep
<1> QED
  BY <1>2, <1>3, <1>t DEF CreateUser

LEMMA AttributeStep ==
    ASSUME IInv, NEW h \in Handlers, Attribute(h)
    PROVE  IInv'
<1>0. Requests /\ PeopleOK /\ ReqInv(h)
  BY DEF IInv, NewInv
<1>1. /\ req[h] # None /\ req[h].pc = "attribute" /\ req[h].new /\ Goto(h, "trial")
      /\ starts' = starts /\ shadow' = shadow /\ campaigns' = campaigns
      /\ promo' = promo /\ pays' = pays /\ served' = served /\ faults' = faults
  BY <1>0 DEF Attribute, At, ReqInv, promos
<1>t. PICK t \in People : t = req[h].who
  BY <1>0, <1>1, ReqFacts
<1>c. PICK c \in Campaigns \cup {None} : c = ResolveCampaignBySlug(req[h].param)
  BY ResolveFacts
<1>2. users[t] # None /\ users[t] \in User /\ users[t].trial = "none"
  BY <1>0, <1>1, <1>t, UserFacts DEF ReqInv
<1>3. PICK u \in User : u.trial = users[t].trial /\ u.vpn = users[t].vpn /\ users' = [users EXCEPT ![t] = u]
  <2>1. users = [users EXCEPT ![t] = users[t]]
    BY <1>0 DEF PeopleOK
  <2>2. CASE users[t].attr = None /\ c # None
    <3> DEFINE u == [users[t] EXCEPT !.attr = c]
    <3>1. u \in User /\ u.trial = users[t].trial /\ u.vpn = users[t].vpn
      BY <1>2 DEF User
    <3>2. users' = [users EXCEPT ![t] = u]
      BY <2>2, <1>t, <1>c DEF Attribute, InsertUserAttribution
    <3> QED
      BY <3>1, <3>2
  <2>3. CASE users[t].attr # None \/ c = None
    <3>1. users' = [users EXCEPT ![t] = users[t]]
      BY <2>1, <2>3, <1>t, <1>c DEF Attribute, InsertUserAttribution
    <3> QED
      BY <3>1, <1>2
  <2> QED
    BY <2>2, <2>3
<1>4. /\ Requests' /\ req'[h] # None /\ \A g \in Handlers \ {h} : req'[g] = req[g]
      /\ req'[h].pc = "trial" /\ req'[h].who = t /\ req'[h].new
  BY <1>0, <1>1, <1>t, GotoFacts
<1>5. users'[t] = u /\ users'[t] # None
  BY <1>0, <1>3, UserWritten
<1>6. ReqInv(h)' /\ ~Unserved(t)'
  BY <1>2, <1>3, <1>4, <1>5 DEF ReqInv, Unserved
<1>7. invited' \subseteq Refs \X People
  <2>1. invited \subseteq Refs \X People
    BY <1>0 DEF PeopleOK
  <2>2. invited' = invited \/ (req[h].param \in Refs /\ invited' = invited \cup {<<req[h].param, t>>})
    BY <1>t DEF Attribute
  <2> QED
    BY <2>1, <2>2
<1> QED
  BY <1>1, <1>3, <1>4, <1>6, <1>7, <1>t, UserStep

\* Only the newcomer's request starts the trial, which has not been started.
LEMMA TrialStep ==
    ASSUME IInv, NEW h \in Handlers, StartTrial(h)
    PROVE  IInv'
<1>0. Requests /\ PeopleOK /\ ReqInv(h)
  BY DEF IInv, NewInv
<1>1. /\ req[h] # None /\ req[h].pc = "trial" /\ req[h].new
      /\ starts' = starts /\ invited' = invited /\ shadow' = shadow /\ campaigns' = campaigns
      /\ promo' = promo /\ pays' = pays /\ served' = served /\ faults' = faults
  BY <1>0 DEF StartTrial, At, ReqInv, promos
<1>t. PICK t \in People : t = req[h].who
  BY <1>0, <1>1, ReqFacts
<1>2. users[t] # None /\ users[t] \in User /\ users[t].trial = "none"
  BY <1>0, <1>1, <1>t, UserFacts DEF ReqInv
<1>3. PICK length \in {"default", "campaign"} :
         users' = [users EXCEPT ![t].trial = length] /\ Goto(h, "vpn")
  BY <1>2, <1>t DEF StartTrial
<1> DEFINE u == [users[t] EXCEPT !.trial = length]
<1>4. u \in User /\ u.trial # "none"
  BY <1>2 DEF User
<1>5. users' = [users EXCEPT ![t] = u]
  BY <1>0, <1>3 DEF PeopleOK
<1> HIDE DEF u
<1>6. users'[t] = u /\ users'[t] # None
  BY <1>0, <1>4, <1>5, UserWritten
<1>7. /\ Requests' /\ req'[h] # None /\ \A g \in Handlers \ {h} : req'[g] = req[g]
      /\ req'[h].pc = "vpn" /\ req'[h].who = t /\ req'[h].new
  BY <1>0, <1>1, <1>3, <1>t, GotoFacts
<1>8. ReqInv(h)' /\ ~Unserved(t)'
  BY <1>4, <1>6, <1>7 DEF ReqInv, Unserved
<1>9. invited' \subseteq Refs \X People
  BY <1>0, <1>1 DEF PeopleOK
<1> QED
  BY <1>1, <1>4, <1>5, <1>7, <1>8, <1>9, <1>t, UserStep

LEMMA VpnStep ==
    ASSUME IInv, NEW h \in Handlers, CreateVPNUser(h)
    PROVE  IInv'
<1>0. Requests /\ PeopleOK /\ ReqInv(h)
  BY DEF IInv, NewInv
<1>1. /\ req[h] # None /\ req[h].pc = "vpn" /\ req[h].new /\ Done(h)
      /\ starts' = starts /\ invited' = invited /\ shadow' = shadow /\ campaigns' = campaigns
      /\ promo' = promo /\ pays' = pays /\ served' = served /\ faults' = faults
  BY <1>0 DEF CreateVPNUser, At, ReqInv, promos
<1>t. PICK t \in People : t = req[h].who
  BY <1>0, <1>1, ReqFacts
<1>2. users[t] # None /\ users[t] \in User /\ users[t].trial # "none"
  BY <1>0, <1>1, <1>t, UserFacts DEF ReqInv
<1> DEFINE u == [users[t] EXCEPT !.vpn = TRUE]
<1>4. u \in User /\ u.trial = users[t].trial /\ u.vpn
  BY <1>2 DEF User
<1>5. users' = [users EXCEPT ![t] = u]
  BY <1>0, <1>t DEF CreateVPNUser, PeopleOK
<1> HIDE DEF u
<1>6. users'[t] = u /\ users'[t] # None
  BY <1>0, <1>4, <1>5, UserWritten
<1>7. Requests' /\ req'[h] = None /\ \A g \in Handlers \ {h} : req'[g] = req[g]
  BY <1>0, <1>1, DoneFacts
<1>8. ReqInv(h)' /\ ~Unserved(t)'
  BY <1>2, <1>4, <1>6, <1>7 DEF ReqInv, Unserved
<1>9. invited' \subseteq Refs \X People
  BY <1>0, <1>1 DEF PeopleOK
<1> QED
  BY <1>1, <1>4, <1>5, <1>7, <1>8, <1>9, <1>t, UserStep

LEMMA RoleStep ==
    ASSUME IInv, NEW h \in Handlers, WriteRole(h)
    PROVE  IInv'
<1>0. Requests /\ PeopleOK /\ ReqInv(h)
  BY DEF IInv, NewInv
<1>1. /\ req[h] # None /\ req[h].pc = "role" /\ ~req[h].new /\ Done(h) /\ req[h].param \in Roles
      /\ starts' = starts /\ invited' = invited /\ shadow' = shadow /\ campaigns' = campaigns
      /\ promo' = promo /\ pays' = pays /\ served' = served /\ faults' = faults
  BY <1>0 DEF WriteRole, At, ReqInv, Roles, promos
<1>t. PICK t \in People : t = req[h].who
  BY <1>0, <1>1, ReqFacts
<1>2. users[t] # None /\ users[t] \in User
  BY <1>0, <1>1, <1>t, UserFacts DEF ReqInv
<1> DEFINE u == [users[t] EXCEPT !.role = req[h].param]
<1>4. u \in User /\ u.trial = users[t].trial /\ u.vpn = users[t].vpn
  BY <1>1, <1>2 DEF User
<1>5. users' = [users EXCEPT ![t] = u]
  BY <1>0, <1>t DEF WriteRole, PeopleOK
<1> HIDE DEF u
<1>6. users'[t] = u /\ users'[t] # None
  BY <1>0, <1>4, <1>5, UserWritten
<1>7. Requests' /\ req'[h] = None /\ \A g \in Handlers \ {h} : req'[g] = req[g]
  BY <1>0, <1>1, DoneFacts
<1>8. ReqInv(h)' /\ (Unserved(t)' => Unserved(t))
  BY <1>1, <1>2, <1>4, <1>6, <1>7 DEF ReqInv, Unserved
<1>9. invited' \subseteq Refs \X People
  BY <1>0, <1>1 DEF PeopleOK
<1> QED
  BY <1>1, <1>4, <1>5, <1>7, <1>8, <1>9, <1>t, UserStep

\* An administrator's lookup makes a user whom no request takes for a newcomer.
LEMMA ShadowStep ==
    ASSUME IInv, NEW h \in Handlers, LookupOrCreateByTelegramID(h)
    PROVE  IInv'
<1>0. Requests /\ PeopleOK /\ ReqInv(h)
  BY DEF IInv, NewInv
<1>1. /\ req[h] # None /\ req[h].pc = "shadow" /\ ~req[h].new
      /\ starts' = starts /\ invited' = invited /\ campaigns' = campaigns
      /\ promo' = promo /\ pays' = pays /\ served' = served /\ faults' = faults
  BY <1>0 DEF LookupOrCreateByTelegramID, At, ReqInv, promos
<1>t. PICK t \in People : t = req[h].who
  BY <1>0, <1>1, ReqFacts
<1>2. CASE Done(h) /\ users' = users /\ shadow' = shadow
  <2>1. starts' \in [People -> BotStart \cup {None}]
    BY <1>0, <1>1 DEF PeopleOK
  <2> QED
    BY <1>1, <1>2, <2>1, DeskStep DEF promos
<1>3. CASE /\ starts[t] # None /\ Goto(h, "issue")
           /\ LET w == IF users[t] = None THEN NewUser ELSE users[t]
              IN  users' = [users EXCEPT ![t] = InsertUserAttribution(w, starts[t].campaign)]
           /\ shadow' = IF users[t] = None THEN shadow \cup {t} ELSE shadow
  <2>1. PICK w \in User : w = (IF users[t] = None THEN NewUser ELSE users[t])
    BY <1>0, UserFacts, None1 DEF NewUser, User, Roles
  <2>2. starts[t].campaign \in Campaigns \cup {None}
    BY <1>0, <1>3 DEF PeopleOK, BotStart
  <2>3. PICK u \in User : u.trial = w.trial /\ u.vpn = w.vpn /\ users' = [users EXCEPT ![t] = u]
    <3>1. users' = [users EXCEPT ![t] = InsertUserAttribution(w, starts[t].campaign)]
      BY <1>3, <2>1
    <3>2. CASE w.attr = None
      <4>1. /\ [w EXCEPT !.attr = starts[t].campaign] \in User
            /\ [w EXCEPT !.attr = starts[t].campaign].trial = w.trial
            /\ [w EXCEPT !.attr = starts[t].campaign].vpn = w.vpn
        BY <2>2 DEF User
      <4> QED
        BY <3>1, <3>2, <4>1 DEF InsertUserAttribution
    <3>3. CASE w.attr # None
      BY <3>1, <3>3 DEF InsertUserAttribution
    <3> QED
      BY <3>2, <3>3
  <2>4. /\ Requests' /\ req'[h] # None /\ \A g \in Handlers \ {h} : req'[g] = req[g]
        /\ req'[h].pc = "issue" /\ req'[h].who = t /\ ~req'[h].new
    BY <1>0, <1>1, <1>3, <1>t, GotoFacts
  <2>5. users'[t] = u /\ users'[t] # None
    BY <1>0, <2>3, UserWritten
  <2>6. ReqInv(h)'
    BY <2>4 DEF ReqInv
  <2>7. Unserved(t)' => Unserved(t)
    BY <1>1, <1>3, <2>1, <2>3, <2>4, <2>5 DEF Unserved
  <2>8. invited' \subseteq Refs \X People
    BY <1>0, <1>1 DEF PeopleOK
  <2>9. shadow' = shadow \/ shadow' = shadow \cup {t}
    BY <1>3
  <2>10. users[t] # None => u.trial = users[t].trial
    BY <2>1, <2>3
  <2> QED
    BY <1>1, <1>t, <2>3, <2>4, <2>6, <2>7, <2>8, <2>9, <2>10, UserStep
<1> QED
  BY <1>2, <1>3, <1>t DEF LookupOrCreateByTelegramID

\* The gRPC method that appoints an administrator.
LEMMA AppointStep ==
    ASSUME IInv, NEW t \in People, UpdateUserRole(t)
    PROVE  IInv'
<1>0. Requests /\ PeopleOK /\ NewInv /\ ServedInv /\ PromoAll
  BY DEF IInv
<1>1. /\ users[t] # None /\ req' = req
      /\ starts' = starts /\ invited' = invited /\ shadow' = shadow /\ campaigns' = campaigns
      /\ promo' = promo /\ pays' = pays /\ served' = served /\ faults' = faults
  BY DEF UpdateUserRole, promos
<1> DEFINE u == [users[t] EXCEPT !.role = "admin"]
<1>2. u \in User /\ u.trial = users[t].trial /\ u.vpn = users[t].vpn
  BY <1>0, <1>1, UserFacts DEF User, Roles
<1>3. users' = [users EXCEPT ![t] = u]
  BY <1>0 DEF UpdateUserRole, PeopleOK
<1> HIDE DEF u
<1>4. /\ users' \in [People -> User \cup {None}]
      /\ users'[t] = u /\ users'[t] # None /\ \A v \in People \ {t} : users'[v] = users[v]
  BY <1>0, <1>2, <1>3, UserWritten
<1>5. \A v \in People : /\ users'[v] # None <=> users[v] # None
                        /\ users[v] # None => /\ users'[v].trial = users[v].trial
                                              /\ users'[v].vpn = users[v].vpn
  BY <1>1, <1>2, <1>4
<1>6. NewInv'
  <2>1. \A h \in Handlers : req[h] # None => req[h].who \in People
    BY <1>0, ReqFacts
  <2> QED
    BY <1>0, <1>1, <1>5, <2>1 DEF NewInv, OneNew, ReqInv
<1>7. \A v \in People : Unserved(v)' => Unserved(v)
  BY <1>1, <1>5 DEF Unserved
<1>8. ServedInv'
  BY <1>0, <1>1, <1>7, FaultFacts, ServedStays
<1>9. PromoAll'
  BY <1>0, <1>1, PromoAside
<1> QED
  BY <1>0, <1>1, <1>4, <1>6, <1>8, <1>9 DEF IInv, PeopleOK, Requests

LEMMA CampaignStep ==
    ASSUME IInv, NEW c \in Campaigns,
           \/ ArchiveCampaign(c)
           \/ \E o \in BOOLEAN : CreateCampaign(c, o) \/ UpdateCampaign(c, o)
    PROVE  IInv'
<1>0. Requests /\ PeopleOK /\ NewInv /\ ServedInv /\ PromoAll
  BY DEF IInv
<1>1. /\ users' = users /\ starts' = starts /\ invited' = invited /\ shadow' = shadow /\ req' = req
      /\ promo' = promo /\ pays' = pays /\ faults' = faults /\ served' \in 0 .. MaxRequests
  BY <1>0, AccountsBounds DEF ArchiveCampaign, CreateCampaign, UpdateCampaign, Administer, people,
                              promos, PeopleOK
<1>2. campaigns' \in [Campaigns -> Campaign \cup {None}]
  <2>1. \A o \in BOOLEAN : [active |-> TRUE, override |-> o] \in Campaign
    BY DEF Campaign
  <2>2. campaigns[c] # None => \A o \in BOOLEAN : /\ [campaigns[c] EXCEPT !.override = o] \in Campaign
                                                  /\ [campaigns[c] EXCEPT !.active = o] \in Campaign
    BY <1>0 DEF PeopleOK, Campaign
  <2>3. CASE ArchiveCampaign(c)
    <3>1. campaigns' = [campaigns EXCEPT ![c] = [campaigns[c] EXCEPT !.active = FALSE]]
      BY <2>3, <1>0 DEF ArchiveCampaign, PeopleOK
    <3> QED
      BY <3>1, <2>2, <2>3, <1>0 DEF PeopleOK, ArchiveCampaign
  <2>4. ASSUME NEW o \in BOOLEAN, CreateCampaign(c, o) PROVE campaigns' \in [Campaigns -> Campaign \cup {None}]
    BY <2>1, <2>4, <1>0 DEF CreateCampaign, PeopleOK
  <2>5. ASSUME NEW o \in BOOLEAN, UpdateCampaign(c, o) PROVE campaigns' \in [Campaigns -> Campaign \cup {None}]
    <3>1. campaigns' = [campaigns EXCEPT ![c] = [campaigns[c] EXCEPT !.override = o]]
      BY <2>5, <1>0 DEF UpdateCampaign, PeopleOK
    <3> QED
      BY <3>1, <2>2, <2>5, <1>0 DEF PeopleOK, UpdateCampaign
  <2> QED
    BY <2>3, <2>4, <2>5
<1>6. NewInv'
  BY <1>0, <1>1 DEF NewInv, OneNew, ReqInv
<1>7. ServedInv'
  BY <1>0, <1>1 DEF ServedInv, UnservedNow, Unserved
<1>9. PromoAll'
  BY <1>0, <1>1, PromoAside
<1> QED
  BY <1>0, <1>1, <1>2, <1>6, <1>7, <1>9 DEF IInv, PeopleOK, Requests

-----------------------------------------------------------------------------
(* Promo codes and their payments.                                           *)

LEMMA PromoFacts ==
    ASSUME PromoOK
    PROVE  /\ Len(promo) \in Nat /\ DOMAIN promo = 1 .. Len(promo) /\ IsFiniteSet(DOMAIN promo)
           /\ Len(pays) \in Nat /\ DOMAIN pays = 1 .. Len(pays) /\ DOMAIN pays \subseteq 1 .. MaxPays
           /\ \A p \in DOMAIN promo : /\ promo[p] \in Promo /\ p \in Nat /\ promo[p].who \in People
                                      /\ promo[p].pay \in 1 .. MaxPays \cup {None}
                                      /\ promo[p].used \in BOOLEAN /\ promo[p].expired \in BOOLEAN
           /\ \A i \in DOMAIN pays : /\ pays[i] \in Payment /\ i \in Nat /\ i # None
                                     /\ pays[i].promo \in DOMAIN promo
                                     /\ pays[i].link \in BOOLEAN /\ pays[i].paid \in BOOLEAN
                                     /\ pays[i].hook \in {"none", "due", "done", "lost"}
<1>1. promo \in Seq(Promo) /\ pays \in Seq(Payment) /\ Len(pays) <= MaxPays
  BY DEF PromoOK
<1>2. /\ Len(promo) \in Nat /\ DOMAIN promo = 1 .. Len(promo) /\ promo \in [1 .. Len(promo) -> Promo]
      /\ Len(pays) \in Nat /\ DOMAIN pays = 1 .. Len(pays) /\ pays \in [1 .. Len(pays) -> Payment]
  BY <1>1, LenProperties
<1>3. IsFiniteSet(DOMAIN promo)
  BY <1>2, FS_Interval
<1>4. DOMAIN pays \subseteq 1 .. MaxPays
  BY <1>1, <1>2, AccountsBounds
<1>5. \A p \in DOMAIN promo : /\ promo[p] \in Promo /\ p \in Nat /\ promo[p].who \in People
                             /\ promo[p].pay \in 1 .. MaxPays \cup {None}
                             /\ promo[p].used \in BOOLEAN /\ promo[p].expired \in BOOLEAN
  BY <1>2 DEF Promo
<1>6. \A i \in DOMAIN pays : /\ pays[i] \in Payment /\ i \in Nat /\ i # None
                            /\ pays[i].promo \in DOMAIN promo
                            /\ pays[i].link \in BOOLEAN /\ pays[i].paid \in BOOLEAN
                            /\ pays[i].hook \in {"none", "due", "done", "lost"}
  BY <1>2, None1 DEF Payment
<1> QED
  BY <1>2, <1>3, <1>4, <1>5, <1>6

\* Codes that are used up make room.
LEMMA ActiveFewer ==
    ASSUME PromoOK, DOMAIN promo' = DOMAIN promo,
           \A p \in DOMAIN promo : promo'[p].who = promo[p].who /\ (promo[p].used => promo'[p].used)
    PROVE  \A t \in People : Cardinality(ActivePromos(t)') <= 1
<1> SUFFICES ASSUME NEW t \in People PROVE Cardinality(ActivePromos(t)') <= 1
  OBVIOUS
<1>1. ActivePromos(t)' \subseteq ActivePromos(t) /\ ActivePromos(t) \subseteq DOMAIN promo
  BY DEF ActivePromos
<1>2. IsFiniteSet(ActivePromos(t))
  BY <1>1, PromoFacts, FS_Subset
<1>3. /\ Cardinality(ActivePromos(t)') <= Cardinality(ActivePromos(t)) /\ IsFiniteSet(ActivePromos(t)')
      /\ Cardinality(ActivePromos(t)) <= 1
  BY <1>1, <1>2, FS_Subset DEF PromoOK
<1>4. Cardinality(ActivePromos(t)') \in Nat /\ Cardinality(ActivePromos(t)) \in Nat
  BY <1>2, <1>3, FS_CardinalityType
<1> QED
  BY <1>3, <1>4

LEMMA PromoWritten ==
    ASSUME PromoOK, NEW p \in DOMAIN promo, NEW r \in Promo, promo' = [promo EXCEPT ![p] = r],
           r.who = promo[p].who, promo[p].used => r.used
    PROVE  /\ promo' \in Seq(Promo) /\ Len(promo') = Len(promo) /\ DOMAIN promo' = DOMAIN promo
           /\ promo'[p] = r /\ \A q \in DOMAIN promo \ {p} : promo'[q] = promo[q]
           /\ \A t \in People : Cardinality(ActivePromos(t)') <= 1
<1>1. p \in 1 .. Len(promo) /\ promo \in Seq(Promo) /\ DOMAIN promo = 1 .. Len(promo)
  BY PromoFacts DEF PromoOK
<1>2. /\ promo' \in Seq(Promo) /\ Len(promo') = Len(promo) /\ DOMAIN promo' = DOMAIN promo
      /\ promo'[p] = r /\ \A q \in DOMAIN promo \ {p} : promo'[q] = promo[q]
  BY <1>1, ExceptSeq
<1> QED
  BY <1>2, ActiveFewer

LEMMA PayWritten ==
    ASSUME PromoOK, NEW i \in DOMAIN pays, NEW r \in Payment, pays' = [pays EXCEPT ![i] = r],
           DOMAIN promo' = DOMAIN promo
    PROVE  /\ pays' \in Seq(Payment') /\ Len(pays') = Len(pays) /\ DOMAIN pays' = DOMAIN pays
           /\ pays'[i] = r /\ \A j \in DOMAIN pays \ {i} : pays'[j] = pays[j]
<1>1. i \in 1 .. Len(pays) /\ pays \in Seq(Payment) /\ DOMAIN pays = 1 .. Len(pays)
  BY PromoFacts DEF PromoOK
<1>2. Payment' = Payment
  BY DEF Payment
<1> QED
  BY <1>1, <1>2, ExceptSeq

\* A step about codes and payments that starts, moves or ends a request of nobody
\* new.
LEMMA CounterStep ==
    ASSUME IInv, NEW h \in Handlers, Requests', \A g \in Handlers \ {h} : req'[g] = req[g],
           UNCHANGED <<people, campaigns>>, served' \in 0 .. MaxRequests,
           faults' = faults \/ Fault,
           \/ req'[h] = req[h]
           \/ /\ req[h] = None \/ ~req[h].new
              /\ req'[h] = None \/ (~req'[h].new /\ req'[h].pc \in {"invoice", "attach"}),
           PromoAll'
    PROVE  IInv'
<1>0. Requests /\ PeopleOK /\ ReqInv(h)
  BY DEF IInv, NewInv
<1>1. /\ users' = users /\ starts' = starts /\ invited' = invited /\ shadow' = shadow
      /\ campaigns' = campaigns
      /\ faults' \in Nat /\ faults' >= faults /\ faults' \in 0 .. MaxFaults
  <2>1. faults' \in Nat /\ faults' >= faults /\ faults' \in 0 .. MaxFaults
    BY <1>0, FaultFacts DEF PeopleOK
  <2> QED
    BY <2>1 DEF people
<1>2. PeopleOK'
  BY <1>0, <1>1 DEF PeopleOK
<1>3. ReqInv(h)'
  BY <1>0, <1>1 DEF ReqInv
<1>4. NewInv' /\ ServedInv'
  <2>1. CASE req'[h] = req[h]
    BY <2>1, <1>1, <1>3, QuietStep
  <2>2. CASE /\ req[h] = None \/ ~req[h].new
             /\ req'[h] = None \/ (~req'[h].new /\ req'[h].pc \in {"invoice", "attach"})
    BY <2>2, <1>1, <1>3, QuietStep
  <2> QED
    BY <2>1, <2>2
<1> QED
  BY <1>2, <1>4 DEF IInv

\* INSERT INTO promo_codes; the index admits one code in use for a person.
LEMMA InsertPromoStep ==
    ASSUME IInv, NEW h \in Handlers, InsertPromo(h)
    PROVE  IInv'
<1>0. Requests /\ PeopleOK /\ ReqInv(h) /\ PromoOK /\ PromoInv /\ PromoFollowsItsPayment
  BY DEF IInv, NewInv, PromoAll
<1>1. /\ req[h] # None /\ req[h].pc = "insert" /\ ~req[h].new /\ req[h].who \in People
      /\ Done(h) /\ Len(promo) < MaxPromos
      /\ UNCHANGED <<people, campaigns>> /\ pays' = pays /\ served' = served /\ faults' = faults
  BY <1>0, ReqFacts DEF InsertPromo, At, ReqInv
<1>2. Requests' /\ req'[h] = None /\ \A g \in Handlers \ {h} : req'[g] = req[g]
  BY <1>0, <1>1, DoneFacts
<1>3. PromoAll'
  <2>1. CASE promo' = promo
    BY <1>1, <1>2, <2>1, PromoAside DEF IInv
  <2>2. CASE promo' # promo
    <3> DEFINE r == [who |-> req[h].who, pay |-> None, used |-> FALSE, expired |-> FALSE]
    <3>1. r \in Promo /\ r.who = req[h].who /\ r.pay = None /\ ~r.used
      BY <1>1 DEF Promo
    <3>2. promo' = Append(promo, r) /\ ActivePromos(req[h].who) = {}
      BY <2>2 DEF InsertPromo
    <3> HIDE DEF r
    <3>n. PICK n : n = Len(promo) + 1
      OBVIOUS
    <3>3. /\ promo' \in Seq(Promo) /\ Len(promo') = n /\ n <= MaxPromos
          /\ DOMAIN promo' = DOMAIN promo \cup {n} /\ n \notin DOMAIN promo
          /\ promo'[n] = r /\ \A p \in DOMAIN promo : promo'[p] = promo[p]
      <4>1. /\ promo' \in Seq(Promo) /\ Len(promo') = n
            /\ DOMAIN promo' = DOMAIN promo \cup {n} /\ n \notin DOMAIN promo
            /\ promo'[n] = r /\ \A p \in DOMAIN promo : promo'[p] = promo[p]
        BY <1>0, <3>1, <3>2, <3>n, PromoFacts DEF PromoOK
      <4> QED
        BY <4>1, <1>0, <1>1, <3>n, PromoFacts, AccountsBounds
    <3>4. ASSUME NEW t \in People PROVE Cardinality(ActivePromos(t)') <= 1
      <4>1. CASE t = req[h].who
        <5>1. ActivePromos(t)' \subseteq {n}
          BY <3>2, <3>3, <4>1 DEF ActivePromos
        <5>2. IsFiniteSet({n}) /\ Cardinality({n}) = 1
          BY FS_Singleton
        <5>3. Cardinality(ActivePromos(t)') <= 1
          BY <5>1, <5>2, FS_Subset
        <5> QED
          BY <5>3
      <4>2. CASE t # req[h].who
        <5>1. ActivePromos(t)' = ActivePromos(t)
          BY <3>1, <3>3, <4>2 DEF ActivePromos
        <5> QED
          BY <5>1, <1>0 DEF PromoOK
      <4> QED
        BY <4>1, <4>2
    <3>5. pays' \in Seq(Payment') /\ Len(pays') <= MaxPays
      <4>1. Payment \subseteq Payment'
        BY <3>3 DEF Payment
      <4>2. pays \in Seq(Payment) /\ Len(pays) <= MaxPays
        BY <1>0 DEF PromoOK
      <4> QED
        BY <4>1, <4>2, <1>1, SeqMonotonic
    <3>6. PromoOK'
      BY <3>3, <3>4, <3>5 DEF PromoOK
    <3>7. \A g \in Handlers : /\ At(g, "invoice")' => At(g, "invoice") /\ req'[g] = req[g]
                              /\ At(g, "attach")' => At(g, "attach") /\ req'[g] = req[g]
      BY <1>2 DEF At
    <3>8. PromoInv'
      BY <1>0, <1>1, <3>1, <3>3, <3>7 DEF PromoInv
    <3>9. PromoFollowsItsPayment'
      BY <1>0, <1>1, <3>1, <3>3 DEF PromoFollowsItsPayment
    <3> QED
      BY <3>6, <3>8, <3>9 DEF PromoAll
  <2> QED
    BY <2>1, <2>2
<1>4. served' \in 0 .. MaxRequests
  BY <1>0, <1>1 DEF PeopleOK
<1> QED
  BY <1>1, <1>2, <1>3, <1>4, CounterStep

LEMMA ExpireStep ==
    ASSUME IInv, NEW p \in DOMAIN promo, ExpirePromo(p)
    PROVE  IInv'
<1>0. Requests /\ PeopleOK /\ NewInv /\ ServedInv /\ PromoOK /\ PromoInv /\ PromoFollowsItsPayment
  BY DEF IInv, PromoAll
<1>1. /\ users' = users /\ starts' = starts /\ invited' = invited /\ shadow' = shadow
      /\ campaigns' = campaigns /\ req' = req /\ pays' = pays /\ served' = served /\ faults' = faults
  BY DEF ExpirePromo, people
<1> DEFINE r == [promo[p] EXCEPT !.expired = TRUE]
<1>2. r \in Promo /\ r.who = promo[p].who /\ r.pay = promo[p].pay /\ r.used = promo[p].used
  BY <1>0, PromoFacts DEF Promo
<1>3. promo' = [promo EXCEPT ![p] = r]
  BY DEF ExpirePromo
<1> HIDE DEF r
<1>4. /\ promo' \in Seq(Promo) /\ Len(promo') = Len(promo) /\ DOMAIN promo' = DOMAIN promo
      /\ promo'[p] = r /\ \A q \in DOMAIN promo \ {p} : promo'[q] = promo[q]
      /\ \A t \in People : Cardinality(ActivePromos(t)') <= 1
  BY <1>0, <1>2, <1>3, PromoWritten
<1>5. \A q \in DOMAIN promo : promo'[q].pay = promo[q].pay /\ promo'[q].used = promo[q].used
  BY <1>2, <1>4
<1>6. PromoOK'
  BY <1>0, <1>1, <1>4 DEF PromoOK, Payment
<1>7. PromoInv' /\ PromoFollowsItsPayment'
  BY <1>0, <1>1, <1>4, <1>5 DEF PromoInv, PromoFollowsItsPayment, At
<1>8. NewInv' /\ ServedInv'
  BY <1>0, <1>1 DEF NewInv, OneNew, ReqInv, ServedInv, UnservedNow, Unserved
<1> QED
  BY <1>0, <1>1, <1>6, <1>7, <1>8 DEF IInv, PeopleOK, PromoAll, Requests

LEMMA RedeemStep ==
    ASSUME IInv, NEW h \in Handlers, NEW p \in DOMAIN promo, Redeem(h, p)
    PROVE  IInv'
<1>0. Requests /\ PeopleOK /\ PromoOK /\ PromoInv /\ PromoFollowsItsPayment /\ served \in 0 .. MaxRequests
  BY DEF IInv, PromoAll, PeopleOK
<1>1. /\ UNCHANGED <<people, campaigns>> /\ promo' = promo /\ pays' = pays /\ faults' = faults
      /\ Begin(h, "redeem", promo[p].who, p, "invoice")
  BY DEF Redeem, promos
<1>2. PICK t \in People : t = promo[p].who
  BY <1>0, PromoFacts
<1>3. p \in Params
  BY <1>0, PromoFacts DEF Params
<1>4. /\ Requests' /\ req[h] = None /\ req'[h] # None
      /\ \A g \in Handlers \ {h} : req'[g] = req[g]
      /\ req'[h].param = p /\ req'[h].pc = "invoice" /\ ~req'[h].new /\ served' \in 0 .. MaxRequests
  BY <1>0, <1>1, <1>2, <1>3, BeginFacts
<1>5. PromoAll'
  <2>1. PromoOK' /\ PromoFollowsItsPayment'
    BY <1>0, <1>1 DEF PromoOK, Payment, ActivePromos, PromoFollowsItsPayment
  <2>2. PromoInv'
    BY <1>0, <1>1, <1>4 DEF PromoInv, At
  <2> QED
    BY <2>1, <2>2 DEF PromoAll
<1> QED
  BY <1>1, <1>4, <1>5, CounterStep

\* Another payment, which only this request knows of.
LEMMA InvoiceStep ==
    ASSUME IInv, NEW h \in Handlers, CreateInvoice(h)
    PROVE  IInv'
<1>0. Requests /\ PeopleOK /\ ReqInv(h) /\ PromoOK /\ PromoInv /\ PromoFollowsItsPayment
  BY DEF IInv, NewInv, PromoAll
<1>1. /\ req[h] # None /\ req[h].pc = "invoice" /\ ~req[h].new /\ req[h] \in Request
      /\ req[h].param \in DOMAIN promo /\ Len(pays) < MaxPays
      /\ UNCHANGED <<people, campaigns>> /\ promo' = promo /\ served' = served /\ faults' = faults
  BY <1>0, ReqFacts DEF CreateInvoice, At, ReqInv, PromoInv
<1>n. PICK n : n = Len(pays) + 1
  OBVIOUS
<1> DEFINE i == [promo |-> req[h].param, link |-> FALSE, paid |-> FALSE, hook |-> "none"]
<1>2. i \in Payment /\ ~i.link /\ i.hook = "none" /\ pays' = Append(pays, i)
  BY <1>1 DEF CreateInvoice, Payment
<1> HIDE DEF i
<1>3. /\ pays' \in Seq(Payment) /\ Len(pays') = n /\ n <= MaxPays /\ n \in Nat
      /\ DOMAIN pays' = DOMAIN pays \cup {n} /\ n \notin DOMAIN pays
      /\ pays'[n] = i /\ \A j \in DOMAIN pays : pays'[j] = pays[j]
  <2>1. /\ pays' \in Seq(Payment) /\ Len(pays') = n /\ n \in Nat
        /\ DOMAIN pays' = DOMAIN pays \cup {n} /\ n \notin DOMAIN pays
        /\ pays'[n] = i /\ \A j \in DOMAIN pays : pays'[j] = pays[j]
    BY <1>0, <1>2, <1>n, PromoFacts DEF PromoOK
  <2> QED
    BY <2>1, <1>0, <1>1, <1>n, PromoFacts, AccountsBounds
<1> DEFINE r == [req[h] EXCEPT !.pc = "attach", !.param = n]
<1>4. r \in Request /\ r.pc = "attach" /\ r.param = n /\ ~r.new
  BY <1>1, <1>3 DEF Request, Params
<1>5. req' = [req EXCEPT ![h] = r]
  BY <1>0, <1>3 DEF CreateInvoice, Requests
<1> HIDE DEF r
<1>6. /\ Requests' /\ req'[h] = r /\ r # None /\ \A g \in Handlers \ {h} : req'[g] = req[g]
  BY <1>0, <1>4, <1>5, ReqMoves, None1
<1>7. PromoAll'
  <2>1. Payment' = Payment
    BY <1>1 DEF Payment
  <2>2. PromoOK'
    BY <1>0, <1>1, <1>3, <2>1 DEF PromoOK, ActivePromos
  <2>3. PromoInv'
    <3>1. \A g \in Handlers : /\ At(g, "invoice")' => At(g, "invoice") /\ req'[g] = req[g]
                              /\ At(g, "attach")' => g = h \/ (At(g, "attach") /\ req'[g] = req[g])
      BY <1>4, <1>6 DEF At
    <3>2. req'[h].param = n
      BY <1>4, <1>6
    <3>3. \A p \in DOMAIN promo' : promo'[p].pay # None =>
            promo'[p].pay \in DOMAIN pays' /\ pays'[promo'[p].pay].promo = p
      BY <1>0, <1>1, <1>3 DEF PromoInv
    <3>4. \A j \in DOMAIN pays' : pays'[j].hook # "none" => pays'[j].link /\ pays'[j].paid
      BY <1>0, <1>2, <1>3 DEF PromoInv
    <3>5. \A g \in Handlers : At(g, "attach")' => req'[g].param \in DOMAIN pays' /\ ~pays'[req'[g].param].link
      BY <1>0, <1>2, <1>3, <3>1, <3>2 DEF PromoInv
    <3>6. \A g, k \in Handlers : At(g, "attach")' /\ At(k, "attach")' /\ req'[g].param = req'[k].param => g = k
      BY <1>0, <1>3, <3>1, <3>2 DEF PromoInv
    <3>7. \A g \in Handlers : At(g, "invoice")' => req'[g].param \in DOMAIN promo'
      BY <1>0, <1>1, <3>1 DEF PromoInv
    <3> QED
      BY <3>3, <3>4, <3>5, <3>6, <3>7 DEF PromoInv
  <2>4. PromoFollowsItsPayment'
    BY <1>0, <1>1, <1>3 DEF PromoFollowsItsPayment, PromoInv
  <2> QED
    BY <2>2, <2>3, <2>4 DEF PromoAll
<1>8. served' \in 0 .. MaxRequests
  BY <1>0, <1>1 DEF PeopleOK
<1> QED
  BY <1>1, <1>4, <1>6, <1>7, <1>8, CounterStep

\* The browser is sent to the invoice, whose payment the code takes if it is
\* still without one.
LEMMA AttachStep ==
    ASSUME IInv, NEW h \in Handlers, AttachPayment(h)
    PROVE  IInv'
<1>0. Requests /\ PeopleOK /\ ReqInv(h) /\ PromoOK /\ PromoInv /\ PromoFollowsItsPayment
  BY DEF IInv, NewInv, PromoAll
<1>1. PICK i : i = req[h].param
  OBVIOUS
<1>2. /\ req[h] # None /\ req[h].pc = "attach" /\ ~req[h].new /\ Done(h)
      /\ i \in DOMAIN pays /\ ~pays[i].link
      /\ UNCHANGED <<people, campaigns>> /\ served' = served /\ (faults' = faults \/ Fault)
  BY <1>0, <1>1 DEF AttachPayment, At, ReqInv, PromoInv
<1>3. PICK p : p = pays[i].promo
  OBVIOUS
<1>4. /\ p \in DOMAIN promo /\ pays[i] \in Payment /\ i \in 1 .. MaxPays /\ i # None
      /\ promo[p] \in Promo /\ pays[i].hook = "none"
  BY <1>0, <1>2, <1>3, PromoFacts DEF PromoInv
<1>5. Requests' /\ req'[h] = None /\ \A g \in Handlers \ {h} : req'[g] = req[g]
  BY <1>0, <1>2, DoneFacts
<1> DEFINE w == [pays[i] EXCEPT !.link = TRUE]
<1>6. /\ w \in Payment /\ w.link /\ w.promo = p /\ w.hook = "none"
      /\ pays' = [pays EXCEPT ![i] = w]
  BY <1>1, <1>3, <1>4 DEF AttachPayment, Payment
<1> HIDE DEF w
<1>7. /\ promo' \in Seq(Promo) /\ Len(promo') = Len(promo) /\ DOMAIN promo' = DOMAIN promo
      /\ \A t \in People : Cardinality(ActivePromos(t)') <= 1
      /\ \A q \in DOMAIN promo : promo'[q] = promo[q] \/
            (q = p /\ promo[q].pay = None /\ promo'[q].pay = i /\ promo'[q].used = promo[q].used)
  <2>1. CASE promo' = promo
    BY <2>1, <1>0 DEF PromoOK, ActivePromos
  <2>2. CASE promo' # promo
    <3> DEFINE c == [promo[p] EXCEPT !.pay = i]
    <3>1. /\ c \in Promo /\ c.pay = i /\ c.who = promo[p].who /\ c.used = promo[p].used
      BY <1>4 DEF Promo
    <3>2. promo[p].pay = None /\ promo' = [promo EXCEPT ![p] = c]
      BY <2>2, <1>1, <1>3 DEF AttachPayment
    <3> HIDE DEF c
    <3>3. /\ promo' \in Seq(Promo) /\ Len(promo') = Len(promo) /\ DOMAIN promo' = DOMAIN promo
          /\ promo'[p] = c /\ \A q \in DOMAIN promo \ {p} : promo'[q] = promo[q]
          /\ \A t \in People : Cardinality(ActivePromos(t)') <= 1
      BY <1>0, <1>4, <3>1, <3>2, PromoWritten
    <3> QED
      BY <3>1, <3>2, <3>3
  <2> QED
    BY <2>1, <2>2
<1>8. /\ pays' \in Seq(Payment') /\ Len(pays') = Len(pays) /\ DOMAIN pays' = DOMAIN pays
      /\ pays'[i] = w /\ \A j \in DOMAIN pays \ {i} : pays'[j] = pays[j]
  BY <1>0, <1>2, <1>6, <1>7, PayWritten
<1>9. PromoOK'
  BY <1>0, <1>7, <1>8 DEF PromoOK
<1>10. PromoInv'
  <2>1. \A g \in Handlers : /\ At(g, "invoice")' => At(g, "invoice") /\ req'[g] = req[g]
                            /\ At(g, "attach")' => g # h /\ At(g, "attach") /\ req'[g] = req[g]
    BY <1>5 DEF At
  <2>2. \A q \in DOMAIN promo' : promo'[q].pay # None =>
            promo'[q].pay \in DOMAIN pays' /\ pays'[promo'[q].pay].promo = q
    BY <1>0, <1>2, <1>3, <1>6, <1>7, <1>8 DEF PromoInv
  <2>3. \A j \in DOMAIN pays' : pays'[j].hook # "none" => pays'[j].link /\ pays'[j].paid
    BY <1>0, <1>6, <1>8 DEF PromoInv
  <2>4. \A g \in Handlers : At(g, "invoice")' => req'[g].param \in DOMAIN promo'
    BY <1>0, <1>7, <2>1 DEF PromoInv
  <2>5. At(h, "attach")
    BY <1>2 DEF At
  <2>6. \A g \in Handlers : At(g, "attach")' => req'[g].param \in DOMAIN pays' /\ ~pays'[req'[g].param].link
    BY <1>0, <1>1, <1>8, <2>1, <2>5 DEF PromoInv
  <2>7. \A g, k \in Handlers : At(g, "attach")' /\ At(k, "attach")' /\ req'[g].param = req'[k].param => g = k
    BY <1>0, <2>1 DEF PromoInv
  <2> QED
    BY <2>2, <2>3, <2>4, <2>6, <2>7 DEF PromoInv
<1>11. PromoFollowsItsPayment'
  <2> SUFFICES ASSUME NEW q \in DOMAIN promo
               PROVE  promo'[q].used <=> (promo'[q].pay # None /\ pays'[promo'[q].pay].hook = "done")
    BY <1>7 DEF PromoFollowsItsPayment
  <2>1. promo[q].used <=> (promo[q].pay # None /\ pays[promo[q].pay].hook = "done")
    BY <1>0 DEF PromoFollowsItsPayment
  <2>2. promo[q].pay # None => pays'[promo[q].pay].hook = pays[promo[q].pay].hook
    BY <1>0, <1>4, <1>6, <1>8 DEF PromoInv
  <2> QED
    BY <1>4, <1>6, <1>7, <1>8, <2>1, <2>2
<1>12. served' \in 0 .. MaxRequests
  BY <1>0, <1>2 DEF PeopleOK
<1> QED
  BY <1>2, <1>5, <1>9, <1>10, <1>11, <1>12, CounterStep DEF PromoAll

\* No request moves.
LEMMA PaymentStep ==
    ASSUME IInv, req' = req, UNCHANGED <<people, campaigns>>, served' = served,
           faults' = faults \/ Fault, PromoAll'
    PROVE  IInv'
<1>0. Requests /\ PeopleOK /\ NewInv /\ ServedInv
  BY DEF IInv
<1>1. /\ users' = users /\ starts' = starts /\ invited' = invited /\ shadow' = shadow
      /\ faults \in Nat /\ faults' \in Nat /\ faults' >= faults /\ faults' \in 0 .. MaxFaults
  <2>1. faults \in Nat /\ faults' \in Nat /\ faults' >= faults /\ faults' \in 0 .. MaxFaults
    BY <1>0, FaultFacts DEF PeopleOK
  <2> QED
    BY <2>1 DEF people
<1>2. NewInv'
  BY <1>0, <1>1 DEF NewInv, OneNew, ReqInv
<1>3. ServedInv'
  <2>1. \A t \in People : Unserved(t)' => Unserved(t)
    BY <1>1 DEF Unserved
  <2> QED
    BY <1>0, <1>1, <2>1, ServedStays
<1> QED
  BY <1>0, <1>1, <1>2, <1>3 DEF IInv, PeopleOK, Requests

LEMMA PayStep ==
    ASSUME IInv, NEW i \in DOMAIN pays, Pay(i)
    PROVE  IInv'
<1>0. PeopleOK /\ PromoOK /\ PromoInv /\ PromoFollowsItsPayment
  BY DEF IInv, PromoAll
<1>1. /\ pays[i].link /\ ~pays[i].paid /\ pays[i].hook = "none" /\ pays[i] \in Payment
      /\ req' = req /\ promo' = promo /\ served' = served /\ faults' = faults
      /\ UNCHANGED <<people, campaigns>>
  BY <1>0, PromoFacts DEF Pay, PromoInv
<1> DEFINE w == [pays[i] EXCEPT !.paid = TRUE, !.hook = "due"]
<1>2. /\ w \in Payment /\ w.link /\ w.paid /\ w.promo = pays[i].promo /\ w.hook = "due"
      /\ pays' = [pays EXCEPT ![i] = w]
  BY <1>1 DEF Pay, Payment
<1> HIDE DEF w
<1>3. /\ pays' \in Seq(Payment') /\ Len(pays') = Len(pays) /\ DOMAIN pays' = DOMAIN pays
      /\ pays'[i] = w /\ \A j \in DOMAIN pays \ {i} : pays'[j] = pays[j]
  BY <1>0, <1>1, <1>2, PayWritten
<1>4. PromoOK'
  BY <1>0, <1>1, <1>3 DEF PromoOK, ActivePromos
<1>5. PromoInv'
  BY <1>0, <1>1, <1>2, <1>3 DEF PromoInv, At
<1>6. PromoFollowsItsPayment'
  BY <1>0, <1>1, <1>2, <1>3 DEF PromoFollowsItsPayment, PromoInv
<1> QED
  BY <1>1, <1>4, <1>5, <1>6, PaymentStep DEF PromoAll

\* UPDATE promo_codes ... WHERE payment_id = ..., at most one row of them.
LEMMA MarkStep ==
    ASSUME IInv, NEW i \in DOMAIN pays, MarkUsedByPayment(i)
    PROVE  IInv'
<1>0. PeopleOK /\ PromoOK /\ PromoInv /\ PromoFollowsItsPayment
  BY DEF IInv, PromoAll
<1>1. /\ pays[i].hook = "due" /\ pays[i].link /\ pays[i].paid /\ pays[i] \in Payment /\ i # None
      /\ req' = req /\ served' = served /\ (faults' = faults \/ Fault)
      /\ UNCHANGED <<people, campaigns>>
  BY <1>0, PromoFacts DEF MarkUsedByPayment, PromoInv
<1>2. /\ promo' \in Seq(Promo) /\ Len(promo') = Len(promo) /\ DOMAIN promo' = DOMAIN promo
      /\ \A q \in DOMAIN promo : promo'[q].pay = promo[q].pay /\ promo'[q].who = promo[q].who
      /\ \/ /\ pays' = [pays EXCEPT ![i].hook = "done"]
            /\ \A q \in DOMAIN promo : promo'[q].used <=> (promo[q].used \/ promo[q].pay = i)
         \/ promo' = promo /\ pays' = [pays EXCEPT ![i].hook = "lost"]
  <2>1. CASE promo' = promo /\ pays' = [pays EXCEPT ![i].hook = "lost"]
    BY <2>1, <1>0 DEF PromoOK
  <2>2. CASE /\ promo' = [p \in DOMAIN promo |->
                            IF promo[p].pay = i THEN [promo[p] EXCEPT !.used = TRUE] ELSE promo[p]]
             /\ pays' = [pays EXCEPT ![i].hook = "done"]
    <3>1. \A q \in DOMAIN promo :
             /\ promo'[q] = IF promo[q].pay = i THEN [promo[q] EXCEPT !.used = TRUE] ELSE promo[q]
             /\ promo[q] \in Promo
      BY <2>2, <1>0, PromoFacts
    <3>2. \A q \in DOMAIN promo :
             /\ promo'[q] \in Promo /\ promo'[q].pay = promo[q].pay /\ promo'[q].who = promo[q].who
             /\ promo'[q].used <=> (promo[q].used \/ promo[q].pay = i)
      <4> SUFFICES ASSUME NEW q \in DOMAIN promo
                   PROVE  /\ promo'[q] \in Promo /\ promo'[q].pay = promo[q].pay /\ promo'[q].who = promo[q].who
                          /\ promo'[q].used <=> (promo[q].used \/ promo[q].pay = i)
        OBVIOUS
      <4>1. CASE promo[q].pay = i
        BY <3>1, <4>1 DEF Promo
      <4>2. CASE promo[q].pay # i
        BY <3>1, <4>2 DEF Promo
      <4> QED
        BY <4>1, <4>2
    <3>3. PICK n \in Nat : n = Len(promo) /\ DOMAIN promo = 1 .. n
      BY <1>0, PromoFacts
    <3>4. promo' \in [1 .. n -> Promo]
      BY <2>2, <3>2, <3>3
    <3>5. promo' \in Seq(Promo)
      BY <3>4, SeqDef
    <3>6. Len(promo') = n
      BY <3>3, <3>4, <3>5, LenProperties
    <3> QED
      BY <2>2, <3>2, <3>3, <3>4, <3>5, <3>6
  <2> QED
    BY <2>1, <2>2 DEF MarkUsedByPayment
<1>3. PICK s \in {"done", "lost"} :
         /\ pays' = [pays EXCEPT ![i].hook = s]
         /\ \A q \in DOMAIN promo : promo'[q].used <=> (promo[q].used \/ (s = "done" /\ promo[q].pay = i))
  BY <1>2
<1> DEFINE w == [pays[i] EXCEPT !.hook = s]
<1>4. /\ w \in Payment /\ w.link /\ w.paid /\ w.promo = pays[i].promo /\ w.hook = s
      /\ pays' = [pays EXCEPT ![i] = w]
  BY <1>1, <1>3 DEF Payment
<1> HIDE DEF w
<1>5. /\ pays' \in Seq(Payment') /\ Len(pays') = Len(pays) /\ DOMAIN pays' = DOMAIN pays
      /\ pays'[i] = w /\ \A j \in DOMAIN pays \ {i} : pays'[j] = pays[j]
  BY <1>0, <1>2, <1>4, PayWritten
<1>6. PromoOK'
  <2>1. \A q \in DOMAIN promo : promo[q].used => promo'[q].used
    BY <1>2
  <2> QED
    BY <2>1, <1>0, <1>2, <1>5, ActiveFewer DEF PromoOK
<1>7. PromoInv'
  BY <1>0, <1>1, <1>2, <1>4, <1>5 DEF PromoInv, At
<1>8. PromoFollowsItsPayment'
  <2> SUFFICES ASSUME NEW q \in DOMAIN promo
               PROVE  promo'[q].used <=> (promo'[q].pay # None /\ pays'[promo'[q].pay].hook = "done")
    BY <1>2 DEF PromoFollowsItsPayment
  <2>1. promo[q].used <=> (promo[q].pay # None /\ pays[promo[q].pay].hook = "done")
    BY <1>0 DEF PromoFollowsItsPayment
  <2>2. promo[q].pay # None => promo[q].pay \in DOMAIN pays
    BY <1>0 DEF PromoInv
  <2>3. CASE promo[q].pay = i
    <3>1. pays'[i].hook = s /\ promo'[q].pay = i /\ ~promo[q].used
      BY <1>1, <1>2, <1>4, <1>5, <2>1, <2>3
    <3> QED
      BY <1>1, <1>3, <2>3, <3>1
  <2>4. CASE promo[q].pay # i
    BY <1>2, <1>3, <1>5, <2>1, <2>2, <2>4
  <2> QED
    BY <2>3, <2>4
<1> QED
  BY <1>1, <1>6, <1>7, <1>8, PaymentStep DEF PromoAll

-----------------------------------------------------------------------------
(* The invariant holds.                                                      *)

LEMMA InvInit == Init => IInv
<1> SUFFICES ASSUME Init PROVE IInv
  OBVIOUS
<1> DEFINE root == [NewUser EXCEPT !.role = "admin", !.trial = "default", !.vpn = TRUE]
<1>1. root \in User /\ root.trial = "default" /\ root.vpn
  BY AccountsAssumption DEF NewUser, User, Roles
<1>2. users = [t \in People |-> IF t = Root THEN root ELSE None]
  BY DEF Init
<1> HIDE DEF root
<1>3. PeopleOK
  BY <1>1, <1>2, AccountsBounds DEF Init, PeopleOK
<1>4. req = [h \in Handlers |-> None] /\ Requests /\ NewInv
  BY DEF Init, Requests, NewInv, OneNew, ReqInv
<1>5. ServedInv
  <2>1. UnservedNow = {}
    BY <1>1, <1>2 DEF UnservedNow, Unserved
  <2> QED
    BY <2>1, <1>3, FS_EmptySet, AccountsBounds DEF ServedInv, PeopleOK
<1>6. PromoAll
  <2>1. promo = <<>> /\ pays = <<>> /\ DOMAIN promo = {} /\ Len(promo) = 0
    BY DEF Init
  <2>2. pays = <<>> /\ DOMAIN pays = {} /\ Len(pays) = 0
    BY DEF Init
  <2>3. \A t \in People : ActivePromos(t) = {}
    BY <2>1 DEF ActivePromos
  <2>4. PromoOK
    BY <2>1, <2>2, <2>3, FS_EmptySet, AccountsBounds DEF PromoOK
  <2>5. PromoInv /\ PromoFollowsItsPayment
    BY <1>4, <2>1, <2>2 DEF PromoInv, PromoFollowsItsPayment, At
  <2> QED
    BY <2>4, <2>5 DEF PromoAll
<1> QED
  BY <1>3, <1>4, <1>5, <1>6 DEF IInv

LEMMA InvStep == IInv /\ [Next]_vars => IInv'
<1> SUFFICES ASSUME IInv, [Next]_vars PROVE IInv'
  OBVIOUS
<1>1. CASE UNCHANGED vars
  <2>1. PromoAll'
    BY <1>1, PromoAside DEF vars, promos, IInv
  <2> QED
    BY <1>1, <2>1, PaymentStep DEF vars, people
<1>2. ASSUME NEW h \in Handlers, Step(h) PROVE IInv'
  <2>1. CASE RecordBotStart(h)
    BY <2>1, RecordStep
  <2>2. CASE GetUserByTelegramID(h) \/ LookupByTelegramID(h) \/ GetActiveByUserPlan(h)
    BY <2>2, FindStep
  <2>3. CASE CreateUser(h)
    BY <2>3, CreateStep
  <2>4. CASE OpenApp(h)
    BY <2>4, OpenStep
  <2>5. CASE Attribute(h)
    BY <2>5, AttributeStep
  <2>6. CASE StartTrial(h)
    BY <2>6, TrialStep
  <2>7. CASE CreateVPNUser(h)
    BY <2>7, VpnStep
  <2>8. CASE BestEffortFails(h)
    BY <2>8, BestEffortStep
  <2>9. CASE RequestFails(h)
    BY <2>9, FailStep
  <2>10. CASE WriteRole(h)
    BY <2>10, RoleStep
  <2>11. CASE LookupOrCreateByTelegramID(h)
    BY <2>11, ShadowStep
  <2>12. CASE InsertPromo(h)
    BY <2>12, InsertPromoStep
  <2>13. CASE CreateInvoice(h)
    BY <2>13, InvoiceStep
  <2>14. CASE AttachPayment(h)
    BY <2>14, AttachStep
  <2> QED
    BY <1>2, <2>1, <2>2, <2>3, <2>4, <2>5, <2>6, <2>7, <2>8, <2>9, <2>10, <2>11, <2>12, <2>13, <2>14
       DEF Step
<1>3. ASSUME NEW p \in DOMAIN promo, ExpirePromo(p) \/ \E h \in Handlers : Redeem(h, p) PROVE IInv'
  BY <1>3, ExpireStep, RedeemStep
<1>4. ASSUME NEW i \in DOMAIN pays, Pay(i) \/ MarkUsedByPayment(i) PROVE IInv'
  BY <1>4, PayStep, MarkStep
<1> QED
  BY <1>1, <1>2, <1>3, <1>4, ArrivalStep, AppointStep, CampaignStep DEF Next

LEMMA Invariant == Spec => []IInv
BY InvInit, InvStep, PTL DEF Spec

-----------------------------------------------------------------------------
(* What a reader should know of.                                             *)

\* Every row, request, promo code and payment stays what its table says, and
\* uniq_promo_codes_active keeps a person from holding two codes in use.
THEOREM TypeCorrect == Spec => []TypeOK
BY TypeParts, Invariant, PTL

\* A promo code is used exactly when the hook of the payment in it has run:
\* AttachPayment never replaces a payment, nor puts one there that has been paid.
THEOREM PromoFollows == Spec => []PromoFollowsItsPayment
<1>1. IInv => PromoFollowsItsPayment
  BY DEF IInv, PromoAll
<1> QED
  BY <1>1, Invariant, PTL

\* However RegisterFromBot and ValidateTelegramUser interleave, there are no
\* more newcomers left without a trial or a VPN account than failures.
THEOREM Served == Spec => []NewcomersAreServed
<1>1. IInv => NewcomersAreServed
  <2> SUFFICES ASSUME IInv PROVE NewcomersAreServed
    OBVIOUS
  <2>1. UnservedNow = {t \in People \ shadow :
                          /\ users[t] # None
                          /\ users[t].trial = "none" \/ ~users[t].vpn
                          /\ ~\E h \in Handlers : /\ req[h] # None
                                                  /\ req[h].who = t /\ req[h].new}
    BY DEF UnservedNow, Unserved
  <2> QED
    BY <2>1 DEF IInv, ServedInv, NewcomersAreServed
<1> QED
  BY <1>1, Invariant, PTL

-----------------------------------------------------------------------------
(* Who writes a user's role and campaign.                                    *)

\* A role changes to another than an administrator's by a request for that.
LEMMA RoleWriters ==
    ASSUME IInv, [Next]_vars, NEW t \in People, users[t] # None,
           users'[t].role # users[t].role, users'[t].role # "admin"
    PROVE  \E h \in Handlers : At(h, "role") /\ req[h].who = t
<1>0. PeopleOK /\ Requests /\ NewInv
  BY DEF IInv
<1>t. users[t] \in User /\ users' # users
  BY <1>0, UserFacts
<1>1. ASSUME NEW h \in Handlers, At(h, "create") \/ At(h, "attribute") \/ At(h, "trial") \/ At(h, "vpn")
                                 \/ At(h, "shadow"),
             NEW v \in People, v = req[h].who,
             CreateUser(h) \/ Attribute(h) \/ StartTrial(h) \/ CreateVPNUser(h) \/ LookupOrCreateByTelegramID(h)
      PROVE  FALSE
  <2>1. v # t => users'[t] = users[t]
    BY <1>0, <1>1 DEF CreateUser, Attribute, StartTrial, CreateVPNUser, LookupOrCreateByTelegramID, PeopleOK
  <2>2. v = t
    BY <2>1
  <2>3. CASE CreateUser(h)
    BY <2>2, <2>3, <1>1, <1>t DEF CreateUser
  <2>4. CASE Attribute(h)
    BY <2>2, <2>4, <1>0, <1>1, <1>t DEF Attribute, InsertUserAttribution, PeopleOK, User
  <2>5. CASE StartTrial(h)
    BY <2>2, <2>5, <1>0, <1>1, <1>t DEF StartTrial, PeopleOK, User
  <2>6. CASE CreateVPNUser(h)
    BY <2>2, <2>6, <1>0, <1>1, <1>t DEF CreateVPNUser, PeopleOK, User
  <2>7. CASE LookupOrCreateByTelegramID(h)
    BY <2>2, <2>7, <1>0, <1>1, <1>t DEF LookupOrCreateByTelegramID, InsertUserAttribution, PeopleOK, User
  <2> QED
    BY <1>1, <2>3, <2>4, <2>5, <2>6, <2>7
<1>2. ASSUME NEW v \in People, UpdateUserRole(v) PROVE FALSE
  BY <1>0, <1>2, <1>t DEF UpdateUserRole, PeopleOK, User
<1>3. ASSUME NEW h \in Handlers, WriteRole(h) PROVE At(h, "role") /\ req[h].who = t
  BY <1>0, <1>3 DEF WriteRole, PeopleOK
<1>4. ASSUME NEW h \in Handlers, Step(h) PROVE At(h, "role") /\ req[h].who = t
  <2>1. \/ CreateUser(h) \/ Attribute(h) \/ StartTrial(h) \/ CreateVPNUser(h)
        \/ LookupOrCreateByTelegramID(h) \/ WriteRole(h)
    BY <1>4, <1>t DEF Step, RecordBotStart, GetUserByTelegramID, OpenApp, BestEffortFails, RequestFails,
       LookupByTelegramID, GetActiveByUserPlan, InsertPromo, CreateInvoice, AttachPayment, people
  <2>2. CASE WriteRole(h)
    BY <1>3, <2>2
  <2>3. CASE ~WriteRole(h)
    <3>1. \/ At(h, "create") \/ At(h, "attribute") \/ At(h, "trial") \/ At(h, "vpn") \/ At(h, "shadow")
      BY <2>1, <2>3 DEF CreateUser, Attribute, StartTrial, CreateVPNUser, LookupOrCreateByTelegramID
    <3>2. req[h].who \in People
      BY <3>1, <1>0, ReqFacts DEF At
    <3> QED
      BY <1>1, <2>1, <2>3, <3>1, <3>2
  <2> QED
    BY <2>2, <2>3
<1>5. (\E h \in Handlers : Step(h)) \/ \E v \in People : UpdateUserRole(v)
  BY <1>t DEF Next, vars, people, HandleStart, ValidateTelegramUser, SelfUpdateRole, HandlePromo,
     ArchiveCampaign, CreateCampaign, UpdateCampaign, Administer, ExpirePromo, Redeem, Pay, MarkUsedByPayment
<1> QED
  BY <1>2, <1>4, <1>5

\* A campaign is written by the newcomer's request or by a lookup.
LEMMA CampaignWriters ==
    ASSUME IInv, [Next]_vars, NEW t \in People, NEW old, old = (IF users[t] = None THEN None ELSE users[t].attr),
           users'[t] # None, users'[t].attr # old
    PROVE  /\ old = None
           /\ \E h \in Handlers : /\ req[h] # None /\ req[h].who = t
                                  /\ req[h].new \/ req[h].pc = "shadow"
<1>0. PeopleOK /\ Requests /\ NewInv
  BY DEF IInv
<1>t. (users[t] # None => users[t] \in User) /\ users' # users
  BY <1>0, UserFacts
<1>1. ASSUME NEW h \in Handlers, Step(h)
      PROVE  old = None /\ req[h] # None /\ req[h].who = t /\ (req[h].new \/ req[h].pc = "shadow")
  <2>1. \/ CreateUser(h) \/ Attribute(h) \/ StartTrial(h) \/ CreateVPNUser(h)
        \/ LookupOrCreateByTelegramID(h) \/ WriteRole(h)
    BY <1>1, <1>t DEF Step, RecordBotStart, GetUserByTelegramID, OpenApp, BestEffortFails, RequestFails,
       LookupByTelegramID, GetActiveByUserPlan, InsertPromo, CreateInvoice, AttachPayment, people
  <2>2. req[h] # None /\ req[h].who \in People /\ ReqInv(h)
    BY <2>1, <1>0, ReqFacts DEF At, CreateUser, Attribute, StartTrial, CreateVPNUser,
       LookupOrCreateByTelegramID, WriteRole, NewInv
  <2>3. req[h].who = t
    BY <2>1, <1>0, <1>t DEF CreateUser, Attribute, StartTrial, CreateVPNUser,
       LookupOrCreateByTelegramID, WriteRole, PeopleOK
  <2>4. ~CreateUser(h)
    BY <2>3, <1>0 DEF CreateUser, PeopleOK, NewUser
  <2>5. CASE Attribute(h)
    <3>1. req[h].new /\ users[t] # None
      BY <2>2, <2>3, <2>5 DEF Attribute, At, ReqInv
    <3>2. users[t].attr = None
      BY <2>3, <2>5, <3>1, <1>0, <1>t DEF Attribute, InsertUserAttribution, PeopleOK
    <3> QED
      BY <2>2, <2>3, <3>1, <3>2
  <2>6. ~StartTrial(h)
    <3> SUFFICES ASSUME StartTrial(h) PROVE FALSE
      OBVIOUS
    <3>1. users[t] # None
      BY <2>2, <2>3 DEF StartTrial, At, ReqInv
    <3> QED
      BY <2>3, <3>1, <1>0, <1>t DEF StartTrial, PeopleOK, User
  <2>7. ~CreateVPNUser(h)
    <3> SUFFICES ASSUME CreateVPNUser(h) PROVE FALSE
      OBVIOUS
    <3>1. users[t] # None
      BY <2>2, <2>3 DEF CreateVPNUser, At, ReqInv
    <3> QED
      BY <2>3, <3>1, <1>0, <1>t DEF CreateVPNUser, PeopleOK, User
  <2>8. ~WriteRole(h)
    <3> SUFFICES ASSUME WriteRole(h) PROVE FALSE
      OBVIOUS
    <3>1. users[t] # None
      BY <2>2, <2>3 DEF WriteRole, At, ReqInv
    <3> QED
      BY <2>3, <3>1, <1>0, <1>t DEF WriteRole, PeopleOK, User
  <2>9. CASE LookupOrCreateByTelegramID(h)
    <3>1. req[h].pc = "shadow"
      BY <2>9 DEF LookupOrCreateByTelegramID, At
    <3>2. old = None
      <4>1. SUFFICES ASSUME users[t] # None, users[t].attr # None PROVE FALSE
        OBVIOUS
      <4> QED
        BY <2>3, <2>9, <4>1, <1>0, <1>t DEF LookupOrCreateByTelegramID, InsertUserAttribution, PeopleOK
    <3> QED
      BY <2>2, <2>3, <3>1, <3>2
  <2> QED
    BY <2>1, <2>4, <2>5, <2>6, <2>7, <2>8, <2>9
<1>2. ASSUME NEW v \in People, UpdateUserRole(v) PROVE FALSE
  BY <1>0, <1>2, <1>t DEF UpdateUserRole, PeopleOK, User
<1>3. (\E h \in Handlers : Step(h)) \/ \E v \in People : UpdateUserRole(v)
  BY <1>t DEF Next, vars, people, HandleStart, ValidateTelegramUser, SelfUpdateRole, HandlePromo,
     ArchiveCampaign, CreateCampaign, UpdateCampaign, Administer, ExpirePromo, Redeem, Pay, MarkUsedByPayment
<1> QED
  BY <1>1, <1>2, <1>3

\* A request is at the role's UPDATE only after a look at the role.
LEMMA RoleRequests ==
    ASSUME IInv, [Next]_vars, NEW h \in Handlers, ~At(h, "role"), At(h, "role")'
    PROVE  /\ req'[h].who \in People /\ users[req'[h].who] # None
           /\ users[req'[h].who].role # "admin"
<1>0. Requests /\ served \in 0 .. MaxRequests
  BY DEF IInv, PeopleOK
<1>1. req'[h] # req[h] /\ req'[h] # None /\ req'[h].pc = "role"
  BY DEF At
<1>2. ASSUME NEW g \in Handlers, Step(g) PROVE FALSE
  <2>1. \/ /\ req[g] # None
           /\ \/ Done(g)
              \/ \E step \in {"find", "create", "opened", "attribute", "trial", "vpn",
                               "issue", "shadow", "insert"} : Goto(g, step)
        \/ CreateUser(g) \/ CreateInvoice(g)
    BY <1>2 DEF Step, At, RecordBotStart, GetUserByTelegramID, OpenApp, BestEffortFails, RequestFails,
       Attribute, StartTrial, CreateVPNUser, WriteRole, LookupByTelegramID, LookupOrCreateByTelegramID,
       GetActiveByUserPlan, InsertPromo, AttachPayment
  <2>2. CASE Done(g)
    BY <2>2, <1>0, <1>1, DoneFacts
  <2>3. ASSUME req[g] # None, NEW step \in {"find", "create", "opened", "attribute", "trial", "vpn",
                                            "issue", "shadow", "insert"}, Goto(g, step) PROVE FALSE
    BY <2>3, <1>0, <1>1, GotoFacts
  <2>4. CASE CreateUser(g)
    <3>1. req[g] # None
      BY <2>4 DEF CreateUser, At
    <3>2. req[g] \in Request
      BY <3>1, <1>0, ReqFacts
    <3>3. PICK next \in {"attribute", "opened"} : req' = [req EXCEPT ![g].new = TRUE, ![g].pc = next]
      BY <2>2, <2>4 DEF CreateUser
    <3> QED
      BY <3>2, <3>3, <1>0, <1>1 DEF Requests, Request
  <2>5. CASE CreateInvoice(g)
    <3>1. req[g] # None
      BY <2>5 DEF CreateInvoice, At
    <3>2. req[g] \in Request
      BY <3>1, <1>0, ReqFacts
    <3> QED
      BY <2>5, <3>2, <1>0, <1>1 DEF CreateInvoice, Requests, Request
  <2> QED
    BY <2>1, <2>2, <2>3, <2>4, <2>5
<1>3. ASSUME NEW g \in Handlers, NEW kind, NEW t, NEW x, NEW step, Begin(g, kind, t, x, step)
      PROVE  g = h /\ step = "role" /\ req'[h].who = t
  BY <1>3, <1>0, <1>1 DEF Begin, Requests
<1>4. PICK g \in Handlers, t \in People, role \in {"user", "partner"} : SelfUpdateRole(g, t, role)
  <2>1. ASSUME NEW g \in Handlers, NEW t \in People, NEW x, HandleStart(g, t, x) PROVE FALSE
    BY <2>1, <1>3 DEF HandleStart
  <2>2. ASSUME NEW g \in Handlers, NEW t \in People, NEW x, ValidateTelegramUser(g, t, x) PROVE FALSE
    BY <2>2, <1>3 DEF ValidateTelegramUser
  <2>3. ASSUME NEW g \in Handlers, NEW t \in People, NEW a, HandlePromo(g, a, t) PROVE FALSE
    BY <2>3, <1>3 DEF HandlePromo
  <2>4. ASSUME NEW g \in Handlers, NEW p, Redeem(g, p) PROVE FALSE
    BY <2>4, <1>3 DEF Redeem
  <2>5. req' # req
    BY <1>1
  <2> QED
    BY <1>2, <2>1, <2>2, <2>3, <2>4, <2>5 DEF Next, vars, UpdateUserRole,
       ArchiveCampaign, CreateCampaign, UpdateCampaign, Administer, ExpirePromo, Pay, MarkUsedByPayment
<1>5. g = h /\ req'[h].who = t
  BY <1>3, <1>4 DEF SelfUpdateRole
<1> QED
  BY <1>4, <1>5 DEF SelfUpdateRole, Found

\* InsertUserAttribution keeps the first campaign, and nothing but it and the
\* newcomer's row writes one: a user who opens another link keeps his own.
THEOREM FirstCampaign == Spec => FirstTouch
<1> DEFINE A == \A t \in People :
          LET old == IF users[t] = None THEN None ELSE users[t].attr
          IN  (users'[t] # None /\ users'[t].attr # old) =>
                 /\ old = None
                 /\ \E h \in Handlers : /\ req[h] # None /\ req[h].who = t
                                        /\ req[h].new \/ req[h].pc = "shadow"
<1>1. IInv /\ [Next]_vars => [A]_vars
  BY CampaignWriters
<1>2. Spec => [][A]_vars
  BY <1>1, Invariant, PTL DEF Spec
<1> QED
  BY <1>2 DEF FirstTouch

\* Only a request that was past its look at the role takes an administrator's
\* role away, and none gets there while he is one.
THEOREM AdminsStay == Spec => AdminsKeepTheirRole
<1> DEFINE A == /\ \A t \in People :
                     (IsAdmin(t) /\ users'[t].role # "admin")
                        => \E h \in Handlers : At(h, "role") /\ req[h].who = t
                /\ \A h \in Handlers, t \in People :
                     (IsAdmin(t) /\ ~At(h, "role"))
                        => ~(req'[h] # None /\ req'[h].pc = "role" /\ req'[h].who = t)
<1>1. IInv /\ [Next]_vars => [A]_vars
  <2> SUFFICES ASSUME IInv, [Next]_vars PROVE A
    OBVIOUS
  <2>1. ASSUME NEW t \in People, IsAdmin(t), users'[t].role # "admin"
        PROVE  \E h \in Handlers : At(h, "role") /\ req[h].who = t
    BY <2>1, RoleWriters DEF IsAdmin
  <2>2. ASSUME NEW h \in Handlers, NEW t \in People, IsAdmin(t), ~At(h, "role"),
               req'[h] # None, req'[h].pc = "role", req'[h].who = t
        PROVE  FALSE
    BY <2>2, RoleRequests DEF IsAdmin, At
  <2> QED
    BY <2>1, <2>2
<1>2. Spec => [][A]_vars
  BY <1>1, Invariant, PTL DEF Spec
<1> QED
  BY <1>2 DEF AdminsKeepTheirRole

=============================================================================
