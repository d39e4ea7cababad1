------------------------------- MODULE Accounts -------------------------------
(***************************************************************************)
(* Who is a user of the service, where he came from, what he is given when *)
(* he arrives, and the discount links that administrators send him.        *)
(*                                                                         *)
(* A person arrives through the bot (/start, with or without a parameter)  *)
(* or through the Mini App.  The gateway has auth-service write the rows   *)
(* users, bot_starts and user_attribution, referral-service register the   *)
(* invitation, subscription-service start the trial and vpn-service make   *)
(* the VPN account, one call after the other; nothing ties them together.  *)
(* Telegram sends updates in parallel, and the Mini App calls meanwhile.   *)
(*                                                                         *)
(* An administrator's /promo finds the person, if need be by making a user *)
(* out of bot_starts, and issues a link.  Whoever opens the link gets an   *)
(* invoice (module Invoice); payment-service marks the promo code used     *)
(* after the payment (module PaymentFlow, its promo hook).                 *)
(***************************************************************************)
EXTENDS Naturals, Sequences, FiniteSets

CONSTANTS
    People,      \* Telegram ids
    Root,        \* the administrator the system starts with
    Refs,        \* tokens of referral links
    Campaigns,   \* slugs of campaigns, the src_ links
    Handlers,    \* requests that may be in progress at one time
    None,        \* NULL, no row, no parameter
    MaxRequests, \* bound: requests in a behaviour
    MaxPromos,   \* bound: promo codes issued
    MaxPays,     \* bound: payments opened through promo links
    MaxFaults    \* bound: failures and crashes

ASSUME AccountsAssumption == Root \in People /\ None \notin Campaigns
ASSUME AccountsBounds == {MaxRequests, MaxPromos, MaxPays, MaxFaults} \subseteq Nat

VARIABLES
    users,    \* users, with its user_attribution and the person's trial and VPN account
    starts,   \* bot_starts
    campaigns, \* campaigns, by slug
    invited,  \* RegisterReferral calls: <<token, person>>
    req,      \* requests in progress
    promo,    \* promo_codes, by id
    pays,     \* payments opened through promo links
    served,   \* requests so far
    faults,   \* failures so far
    shadow    \* people whose row an administrator's lookup made: last_name and photo_url are NULL

people == <<users, starts, invited, shadow>>
promos == <<promo, pays>>
vars == <<people, campaigns, req, promos, served, faults>>

Roles == {"user", "partner", "admin"}
User == [role : Roles, attr : Campaigns \cup {None},
         trial : {"none", "default", "campaign"}, vpn : BOOLEAN]
Campaign == [active : BOOLEAN, override : BOOLEAN] \* override: trial_duration_days
NewUser == [role |-> "user", attr |-> None, trial |-> "none", vpn |-> FALSE]
BotStart == [campaign : Campaigns \cup {None}]
Promo == [who : People, pay : 1 .. MaxPays \cup {None}, used : BOOLEAN, expired : BOOLEAN]

\* A request of a kind about a person; param is the start parameter, the role,
\* the promo code or the payment it carries, new is what auth-service calls
\* IsNewUser.
Params == Refs \cup Campaigns \cup {None, "user", "partner"} \cup Nat
Request == [kind : {"bot", "app", "role", "promo", "redeem"}, who : People, param : Params,
            pc : {"record", "find", "create", "opened", "attribute", "trial", "vpn", "role",
                  "lookup", "shadow", "issue", "insert", "invoice", "attach"},
            new : BOOLEAN]

ASSUME NoneAssumption == None \notin Nat \cup User \cup Campaign \cup BotStart \cup Request

Init == /\ users = [t \in People |-> IF t = Root
                      THEN [NewUser EXCEPT !.role = "admin", !.trial = "default", !.vpn = TRUE]
                      ELSE None]
        /\ starts = [t \in People |-> None]
        /\ campaigns \in [Campaigns -> {k \in Campaign : k.active} \cup {None}]
        /\ invited = {} /\ shadow = {}
        /\ req = [h \in Handlers |-> None]
        /\ promo = <<>> /\ pays = <<>>
        /\ served = 0 /\ faults = 0

Fault == faults < MaxFaults /\ faults' = faults + 1

Begin(h, kind, t, param, step) ==
    /\ req[h] = None /\ served < MaxRequests
    /\ served' = served + 1
    /\ req' = [req EXCEPT ![h] = [kind |-> kind, who |-> t, param |-> param,
                                  pc |-> step, new |-> FALSE]]
At(h, step) == req[h] # None /\ req[h].pc = step
Goto(h, step) == req' = [req EXCEPT ![h].pc = step]
Done(h) == req' = [req EXCEPT ![h] = None]

\* Operators named Broken... are the bugs the properties are tried against;
\* no action uses them.

-----------------------------------------------------------------------------
(* Statements of auth-service's repository                                 *)

Active(c) == c \in Campaigns /\ campaigns[c] # None /\ campaigns[c].active

\* SELECT id FROM campaigns WHERE slug = ... AND is_active
ResolveCampaignBySlug(c) == IF Active(c) THEN c ELSE None

\* ON CONFLICT DO NOTHING: the first /start stays.
InsertBotStart(t, c) ==
    starts' = IF starts[t] = None THEN [starts EXCEPT ![t] = [campaign |-> c]] ELSE starts

\* Opening the Mini App makes the row too, without a campaign.
MarkBotStartAppOpened(t) == InsertBotStart(t, None)

\* ON CONFLICT DO NOTHING: one campaign per user, the first.
InsertUserAttribution(u, c) ==
    IF u.attr = None THEN [u EXCEPT !.attr = c] ELSE u

\* What SELECT ... FROM users finds: the columns are scanned into Go strings,
\* which take no NULL, and any error passes for a user who is not there.
Found(t) == users[t] # None /\ t \notin shadow

-----------------------------------------------------------------------------
(* Arrival                                                                 *)

\* /start, /start ref_<token>, /start src_<slug>
HandleStart(h, t, param) ==
    /\ Begin(h, "bot", t, param, "record")
    /\ UNCHANGED <<people, campaigns, promos, faults>>

\* The Mini App logs in, with the token of startapp=ref_<token> if there is one.
ValidateTelegramUser(h, t, param) ==
    /\ Begin(h, "app", t, param, "find")
    /\ UNCHANGED <<people, campaigns, promos, faults>>

RecordBotStart(h) ==
    /\ At(h, "record")
    /\ InsertBotStart(req[h].who, ResolveCampaignBySlug(req[h].param))
    /\ Goto(h, "find")
    /\ UNCHANGED <<users, invited, shadow, campaigns, promos, served, faults>>

BrokenGetUserByTelegramID(h) ==
    /\ At(h, "find")
    /\ \/ ~Found(req[h].who) /\ Goto(h, "create")
       \/ Found(req[h].who) /\ req[h].kind = "bot" /\ Goto(h, "attribute")
       \/ Found(req[h].who) /\ req[h].kind = "app" /\ Goto(h, "opened")
    /\ UNCHANGED <<people, campaigns, promos, served, faults>>

\* A user who is found is brought up to date; that ends RegisterFromBot.
GetUserByTelegramID(h) ==
    /\ At(h, "find")
    /\ \/ ~Found(req[h].who) /\ Goto(h, "create")
       \/ Found(req[h].who) /\ req[h].kind = "bot" /\ Done(h)
       \/ Found(req[h].who) /\ req[h].kind = "app" /\ Goto(h, "opened")
    /\ UNCHANGED <<people, campaigns, promos, served, faults>>

BrokenCreateUser(h) ==
    /\ At(h, "create")
    /\ users' = IF users[req[h].who] = None
                THEN [users EXCEPT ![req[h].who] = NewUser] ELSE users
    /\ req' = [req EXCEPT ![h] = IF users[@.who] = None /\ @.kind = "bot"
                 THEN [@ EXCEPT !.new = TRUE, !.pc = "attribute"]
                 ELSE [@ EXCEPT !.pc = "opened"]]
    /\ UNCHANGED <<starts, invited, shadow, campaigns, promos, served, faults>>

\* INSERT; telegram_id is unique, so of two requests that found no user one
\* fails with its whole call, and so does every request of a user in shadow.
CreateUser(h) ==
    /\ At(h, "create")
    /\ LET t == req[h].who
           next == IF req[h].kind = "bot" THEN "attribute" ELSE "opened"
       IN  \/ /\ users[t] = None
              /\ users' = [users EXCEPT ![t] = NewUser]
              /\ req' = [req EXCEPT ![h].new = TRUE, ![h].pc = next]
           \/ users[t] # None /\ Done(h) /\ UNCHANGED users
    /\ UNCHANGED <<starts, invited, shadow, campaigns, promos, served, faults>>

\* For a user who is not new ValidateTelegramUser ends here.  What it pops from
\* pending_referrals and pending_campaigns is nothing: no component fills them.
OpenApp(h) ==
    /\ At(h, "opened")
    /\ MarkBotStartAppOpened(req[h].who)
    /\ IF req[h].new THEN Goto(h, "attribute") ELSE Done(h)
    /\ UNCHANGED <<users, invited, shadow, campaigns, promos, served, faults>>

\* Only for new users: the invitation, or the campaign.
Attribute(h) ==
    /\ At(h, "attribute")
    /\ LET t == req[h].who
           c == ResolveCampaignBySlug(req[h].param)
       IN  /\ invited' = IF req[h].param \in Refs
                         THEN invited \cup {<<req[h].param, t>>} ELSE invited
           /\ users' = IF c # None THEN [users EXCEPT ![t] = InsertUserAttribution(@, c)]
                       ELSE users
    /\ Goto(h, "trial")
    /\ UNCHANGED <<starts, shadow, campaigns, promos, served, faults>>

\* StartTrial, once in a user's life, for as long as his campaign says.
StartTrial(h) ==
    /\ At(h, "trial")
    /\ LET t == req[h].who
           c == users[t].attr
           length == IF Active(c) /\ campaigns[c].override THEN "campaign" ELSE "default"
       IN  \/ /\ users[t].trial = "none"
              /\ users' = [users EXCEPT ![t].trial = length]
              /\ Goto(h, "vpn")
           \/ users[t].trial # "none" /\ Done(h) /\ UNCHANGED users
    /\ UNCHANGED <<starts, invited, shadow, campaigns, promos, served, faults>>

CreateVPNUser(h) ==
    /\ At(h, "vpn")
    /\ users' = [users EXCEPT ![req[h].who].vpn = TRUE]
    /\ Done(h)
    /\ UNCHANGED <<starts, invited, shadow, campaigns, promos, served, faults>>

\* Failures that are logged and passed over.
BestEffortFails(h) ==
    /\ Fault
    /\ \/ At(h, "record") /\ Goto(h, "find")
       \/ At(h, "opened") /\ IF req[h].new THEN Goto(h, "attribute") ELSE Done(h)
       \/ At(h, "attribute") /\ Goto(h, "trial")
    /\ UNCHANGED <<people, campaigns, promos, served>>

\* Any other failure, a lost reply, a deadline or a crash ends the request
\* where it stands.
RequestFails(h) ==
    /\ req[h] # None
    /\ Fault
    /\ Done(h)
    /\ UNCHANGED <<people, campaigns, promos, served>>

-----------------------------------------------------------------------------
(* Roles                                                                   *)

BrokenSelfUpdateRole(h, t, role) ==
    /\ Found(t)
    /\ Begin(h, "role", t, role, "role")
    /\ UNCHANGED <<people, campaigns, promos, faults>>

\* A user turns himself into a partner or back.  An administrator is left as
\* he is (nothing more happens in that request).
SelfUpdateRole(h, t, role) ==
    /\ Found(t) /\ users[t].role # "admin"
    /\ Begin(h, "role", t, role, "role")
    /\ UNCHANGED <<people, campaigns, promos, faults>>

WriteRole(h) ==
    /\ At(h, "role")
    /\ users' = [users EXCEPT ![req[h].who].role = req[h].param]
    /\ Done(h)
    /\ UNCHANGED <<starts, invited, shadow, campaigns, promos, served, faults>>

\* The gRPC method an operator appoints administrators with; no component
\* calls it, and dismissing one with it is left out.
UpdateUserRole(t) ==
    /\ users[t] # None /\ users[t].role # "admin"
    /\ users' = [users EXCEPT ![t].role = "admin"]
    /\ UNCHANGED <<starts, invited, shadow, campaigns, req, promos, served, faults>>

IsAdmin(a) == users[a] # None /\ users[a].role = "admin"

-----------------------------------------------------------------------------
(* Campaigns, which administrators run in the web                          *)

\* A request of an administrator's that is one statement.  RequireAdmin looks
\* at the role in the token, and Root has one.
Administer == /\ served < MaxRequests /\ served' = served + 1
              /\ UNCHANGED <<people, req, promos, faults>>

\* The slug is unique.  Whom a campaign pays which share is module Referral's.
CreateCampaign(c, override) ==
    /\ campaigns[c] = None
    /\ campaigns' = [campaigns EXCEPT ![c] = [active |-> TRUE, override |-> override]]
    /\ Administer

\* Only what is sent is changed; an archived campaign can be changed too.
UpdateCampaign(c, override) ==
    /\ campaigns[c] # None /\ campaigns[c].override # override
    /\ campaigns' = [campaigns EXCEPT ![c].override = override]
    /\ Administer

\* For good: nothing sets is_active again.
ArchiveCampaign(c) ==
    /\ campaigns[c] # None /\ campaigns[c].active
    /\ campaigns' = [campaigns EXCEPT ![c].active = FALSE]
    /\ Administer

-----------------------------------------------------------------------------
(* Promo links                                                             *)

\* /promo: LookupUser, then IssuePromo.
HandlePromo(h, a, t) ==
    /\ IsAdmin(a)
    /\ Begin(h, "promo", t, None, "lookup")
    /\ UNCHANGED <<people, campaigns, promos, faults>>

\* LookupUser without a transaction: the user is there, or bot_starts knows
\* the person.
LookupByTelegramID(h) ==
    /\ At(h, "lookup")
    /\ \/ users[req[h].who] # None /\ Goto(h, "issue")
       \/ users[req[h].who] = None /\ Goto(h, "shadow")
    /\ UNCHANGED <<people, campaigns, promos, served, faults>>

\* The transaction makes the user out of bot_starts, or takes the one that was
\* made meanwhile, and gives him the campaign of his first /start.  What it
\* does not set is NULL and stays so.
LookupOrCreateByTelegramID(h) ==
    /\ At(h, "shadow")
    /\ LET t == req[h].who
       IN  \/ /\ starts[t] = None
              /\ Done(h) /\ UNCHANGED <<users, shadow>>
           \/ /\ starts[t] # None
              /\ LET u == IF users[t] = None THEN NewUser ELSE users[t]
                 IN  users' = [users EXCEPT ![t] = InsertUserAttribution(u, starts[t].campaign)]
              /\ shadow' = IF users[t] = None THEN shadow \cup {t} ELSE shadow
              /\ Goto(h, "issue")
    /\ UNCHANGED <<starts, invited, campaigns, promos, served, faults>>

ActivePromos(t) == {p \in DOMAIN promo : promo[p].who = t /\ ~promo[p].used}

\* A promo code in use is issued again, even an expired one.
GetActiveByUserPlan(h) ==
    /\ At(h, "issue")
    /\ \/ ActivePromos(req[h].who) # {} /\ Done(h)
       \/ ActivePromos(req[h].who) = {} /\ Goto(h, "insert")
    /\ UNCHANGED <<people, campaigns, promos, served, faults>>

BrokenInsertPromo(h) ==
    /\ At(h, "insert") /\ Len(promo) < MaxPromos
    /\ promo' = Append(promo, [who |-> req[h].who, pay |-> None,
                               used |-> FALSE, expired |-> FALSE])
    /\ Done(h)
    /\ UNCHANGED <<people, campaigns, pays, served, faults>>

\* uniq_promo_codes_active: the loser of a race answers with the winner's code.
InsertPromo(h) ==
    /\ At(h, "insert") /\ Len(promo) < MaxPromos
    /\ promo' = IF ActivePromos(req[h].who) = {}
                THEN Append(promo, [who |-> req[h].who, pay |-> None,
                                    used |-> FALSE, expired |-> FALSE])
                ELSE promo
    /\ Done(h)
    /\ UNCHANGED <<people, campaigns, pays, served, faults>>

\* expires_at, DefaultPromoTTL after the issue.
ExpirePromo(p) ==
    /\ ~promo[p].expired
    /\ promo' = [promo EXCEPT ![p].expired = TRUE]
    /\ UNCHANGED <<people, campaigns, req, pays, served, faults>>

\* GET /promo/p/<token>.  A payment that is attached already is not reused:
\* fetchExistingInvoiceLink always fails, and another invoice is made.
Redeem(h, p) ==
    /\ ~promo[p].used /\ ~promo[p].expired
    /\ Begin(h, "redeem", promo[p].who, p, "invoice")
    /\ UNCHANGED <<people, campaigns, promos, faults>>

CreateInvoice(h) ==
    /\ At(h, "invoice") /\ Len(pays) < MaxPays
    /\ pays' = Append(pays, [promo |-> req[h].param, link |-> FALSE, paid |-> FALSE,
                             hook |-> "none"])
    /\ req' = [req EXCEPT ![h].pc = "attach", ![h].param = Len(pays')]
    /\ UNCHANGED <<people, campaigns, promo, served, faults>>

BrokenAttachPayment(h) ==
    /\ At(h, "attach")
    /\ LET i == req[h].param
       IN  /\ pays' = [pays EXCEPT ![i].link = TRUE]
           /\ promo' = [promo EXCEPT ![pays[i].promo].pay = i]
    /\ Done(h)
    /\ UNCHANGED <<people, campaigns, served, faults>>

\* The payment goes into the promo code unless another one is there, and the
\* browser is sent to the invoice in any case.
AttachPayment(h) ==
    /\ At(h, "attach")
    /\ LET i == req[h].param
           p == pays[i].promo
       IN  /\ pays' = [pays EXCEPT ![i].link = TRUE]
           /\ \/ /\ promo' = IF promo[p].pay = None
                             THEN [promo EXCEPT ![p].pay = i] ELSE promo
                 /\ UNCHANGED faults
              \/ Fault /\ UNCHANGED promo
    /\ Done(h)
    /\ UNCHANGED <<people, campaigns, served>>

\* The customer pays an invoice he was sent to.
Pay(i) ==
    /\ pays[i].link /\ ~pays[i].paid
    /\ pays' = [pays EXCEPT ![i].paid = TRUE, ![i].hook = "due"]
    /\ UNCHANGED <<people, campaigns, req, promo, served, faults>>

\* payment-service's hook, called once and without a retry.
MarkUsedByPayment(i) ==
    /\ pays[i].hook = "due"
    /\ \/ /\ promo' = [p \in DOMAIN promo |->
                         IF promo[p].pay = i THEN [promo[p] EXCEPT !.used = TRUE] ELSE promo[p]]
          /\ pays' = [pays EXCEPT ![i].hook = "done"]
          /\ UNCHANGED faults
       \/ Fault /\ pays' = [pays EXCEPT ![i].hook = "lost"] /\ UNCHANGED promo
    /\ UNCHANGED <<people, campaigns, req, served>>

-----------------------------------------------------------------------------

Step(h) == \/ RecordBotStart(h) \/ GetUserByTelegramID(h) \/ CreateUser(h) \/ OpenApp(h)
           \/ Attribute(h) \/ StartTrial(h) \/ CreateVPNUser(h)
           \/ BestEffortFails(h) \/ RequestFails(h) \/ WriteRole(h)
           \/ LookupByTelegramID(h) \/ LookupOrCreateByTelegramID(h)
           \/ GetActiveByUserPlan(h) \/ InsertPromo(h)
           \/ CreateInvoice(h) \/ AttachPayment(h)

Next == \/ \E h \in Handlers : Step(h)
        \/ \E h \in Handlers, t \in People :
              \/ \E x \in Refs \cup Campaigns \cup {None} : HandleStart(h, t, x)
              \/ \E x \in Refs \cup {None} : ValidateTelegramUser(h, t, x)
              \/ \E role \in {"user", "partner"} : SelfUpdateRole(h, t, role)
              \/ \E a \in People : HandlePromo(h, a, t)
        \/ \E t \in People : UpdateUserRole(t)
        \/ \E c \in Campaigns : \/ ArchiveCampaign(c)
                               \/ \E o \in BOOLEAN : CreateCampaign(c, o) \/ UpdateCampaign(c, o)
        \/ \E p \in DOMAIN promo : ExpirePromo(p) \/ \E h \in Handlers : Redeem(h, p)
        \/ \E i \in DOMAIN pays : Pay(i) \/ MarkUsedByPayment(i)

Spec == Init /\ [][Next]_vars

-----------------------------------------------------------------------------
(* Properties                                                              *)

TypeOK ==
    /\ users \in [People -> User \cup {None}]
    /\ starts \in [People -> BotStart \cup {None}]
    /\ campaigns \in [Campaigns -> Campaign \cup {None}]
    /\ invited \subseteq Refs \X People /\ shadow \subseteq People
    /\ \A h \in Handlers : req[h] = None \/
          /\ DOMAIN req[h] = {"kind", "who", "param", "pc", "new"}
          /\ req[h].who \in People /\ req[h].new \in BOOLEAN
          /\ req[h].new => users[req[h].who] # None
    /\ promo \in Seq(Promo) /\ Len(promo) <= MaxPromos
    /\ \A t \in People : Cardinality(ActivePromos(t)) <= 1
    /\ pays \in Seq([promo : DOMAIN promo, link : BOOLEAN, paid : BOOLEAN,
                     hook : {"none", "due", "done", "lost"}])
    /\ Len(pays) <= MaxPays
    /\ served \in 0 .. MaxRequests /\ faults \in 0 .. MaxFaults

\* Whoever arrives, by the bot and the Mini App in any order and at the same
\* time, gets his trial and his VPN account, or is about to, unless something
\* failed: no interleaving leaves both requests believing that the other one
\* is the newcomer's.  The exception are the people whose row an administrator
\* made before they came: they get neither, and no later /start or login of
\* theirs ever gets past CreateUser.
NewcomersAreServed ==
    Cardinality({t \in People \ shadow :
                    /\ users[t] # None
                    /\ users[t].trial = "none" \/ ~users[t].vpn
                    /\ ~\E h \in Handlers : /\ req[h] # None
                                            /\ req[h].who = t /\ req[h].new})
        <= faults

\* First touch: a user's campaign is set once, while a request that made him or
\* an administrator's lookup that wants to make him is in progress, and never
\* because somebody who is a user already opens another campaign's link.
FirstTouch ==
    [][\A t \in People :
          LET old == IF users[t] = None THEN None ELSE users[t].attr
          IN  (users'[t] # None /\ users'[t].attr # old) =>
                 /\ old = None
                 /\ \E h \in Handlers : /\ req[h] # None /\ req[h].who = t
                                        /\ req[h].new \/ req[h].pc = "shadow"]_vars

\* Administrators keep their role, whatever buttons of the partner area they
\* press: one is demoted only by a request of his own that was already past
\* its look at the role when he was appointed.
AdminsKeepTheirRole ==
    [][/\ \A t \in People :
             (IsAdmin(t) /\ users'[t].role # "admin")
                => \E h \in Handlers : At(h, "role") /\ req[h].who = t
       /\ \A h \in Handlers, t \in People :
             (IsAdmin(t) /\ ~At(h, "role"))
                => ~(req'[h] # None /\ req'[h].pc = "role" /\ req'[h].who = t)]_vars

\* A promo code is used up exactly when the payment in it has been paid and
\* payment-service has said so: it is not lost to an invoice nobody paid, and
\* when its payment is reported it does not stay open for another one.
PromoFollowsItsPayment ==
    \A p \in DOMAIN promo :
        promo[p].used <=> (promo[p].pay # None /\ pays[promo[p].pay].hook = "done")

=============================================================================
