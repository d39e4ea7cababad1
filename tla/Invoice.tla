------------------------------- MODULE Invoice -------------------------------
(***************************************************************************)
(* payment-service: from the order of a plan to the provider's webhook.    *)
(*                                                                         *)
(* CreateInvoice inserts a pending row, has the provider make a payment    *)
(* link, stores the provider's id of the link in the row and only then     *)
(* hands the link to the customer (service/payment.go).  Webhooks carry    *)
(* the provider's id; WATA signs them with a key that it rotates and that  *)
(* payment-service caches (provider/wata), Platega sends its credentials.  *)
(*                                                                         *)
(* What happens between paid_db_only and paid is PaymentFlow's subject;    *)
(* here it is one step.                                                    *)
(***************************************************************************)
EXTENDS Naturals, Sequences, FiniteSets

CONSTANTS
    Users,      \* users.id
    Offers,     \* (plan_id, max_devices) pairs customers ask for
    Sold,       \* the offers device_addon_pricing has a price for
    Providers,  \* providers that initProviders registers
    Callers,    \* CreateInvoice requests that may be in progress at one time
    Webhooks,   \* webhook requests that may be in progress at one time
    None,       \* NULL, and the absence of a row, a request or a key
    MaxPayments, \* bound: rows of the payments table
    MaxLinks,   \* bound: payment links made by the providers
    MaxTxs,     \* bound: events of transactions at the providers
    MaxKey,     \* bound: WATA's keys are 1 .. MaxKey, used one after the other
    MaxFaults   \* bound: failures and crashes in a behaviour

ASSUME OffersAssumption == Sold \subseteq Offers
ASSUME ProvidersAssumption ==
    Providers \subseteq {"telegram_stars", "wata", "platega"}
ASSUME InvoiceBounds == /\ {MaxPayments, MaxLinks, MaxTxs, MaxFaults} \subseteq Nat
                        /\ MaxKey \in Nat \ {0}

VARIABLES
    row,     \* the payments table
    call,    \* CreateInvoice requests in progress
    links,   \* the providers' payment links; the index is the provider's id
    held,    \* links whose URL a customer has received
    txs,     \* what happened to transactions at the providers, in order
    acked,   \* the events of txs whose webhook was answered with 200
    hook,    \* webhook requests in progress
    key,     \* the key WATA signs with
    cache,   \* WataProvider.publicKey while younger than publicKeyTTL
    faults   \* failures so far

Payments == 1 .. MaxPayments

orders == <<row, call>>
outside == <<links, held, txs, key>>
webhooks == <<hook, acked, cache>>
vars == <<orders, outside, webhooks, faults>>

Status == {"pending", "paid_db_only", "paid", "cancelled"}
Row == [user : Users, offer : Sold, provider : Providers,
        ext : {None} \cup 1 .. MaxLinks, status : Status,
        by : {None} \cup 1 .. MaxTxs]  \* history: what made it paid
Link == [user : Users, offer : Sold, provider : Providers]
\* What a provider has to say of a transaction; of is the same in all that it
\* says of one.
Tx == [link : 1 .. MaxLinks, of : 1 .. MaxTxs,
       state : {"authorized", "confirmed", "declined", "chargeback"}]
Call == [pc : {"provider", "update", "reply"}, pay : Payments,
         link : {None} \cup 1 .. MaxLinks]
Hook == [pc : {"fetch", "store", "apply"}, tx : 1 .. MaxTxs,
         sig : {None} \cup 1 .. MaxKey, had : BOOLEAN,
         got : {None} \cup 1 .. MaxKey]

ASSUME NoneAssumption == None \notin Row /\ None \notin Call /\ None \notin Hook
                         /\ None \notin Nat

Init == /\ row = [p \in Payments |-> None]
        /\ call = [c \in Callers |-> None]
        /\ links = <<>> /\ held = {} /\ txs = <<>> /\ acked = {}
        /\ hook = [w \in Webhooks |-> None]
        /\ key = 1 /\ cache = None
        /\ faults = 0

Fault == faults < MaxFaults /\ faults' = faults + 1

\* Operators named Broken... are the bugs the properties are tried against;
\* no action uses them.

-----------------------------------------------------------------------------
(* CreateInvoice                                                           *)

\* payments.id is a serial.
NextId == {p \in Payments : row[p] = None /\ \A q \in 1 .. p - 1 : row[q] # None}
ToCall(c, step) == call' = [call EXCEPT ![c].pc = step]

BrokenCreatePending(c, u, o, pr) ==
    /\ call[c] = None
    /\ \E p \in NextId :
        /\ row' = [row EXCEPT ![p] = [user |-> u, offer |-> o, provider |-> pr,
                                      ext |-> None, status |-> "pending", by |-> None]]
        /\ call' = [call EXCEPT ![c] = [pc |-> "provider", pay |-> p, link |-> None]]
    /\ UNCHANGED <<outside, webhooks, faults>>

\* A known provider and an offer with a price: the pending row is inserted.
CreatePending(c, u, o, pr) ==
    /\ call[c] = None
    /\ o \in Sold
    /\ \E p \in NextId :
        /\ row' = [row EXCEPT ![p] = [user |-> u, offer |-> o, provider |-> pr,
                                      ext |-> None, status |-> "pending", by |-> None]]
        /\ call' = [call EXCEPT ![c] = [pc |-> "provider", pay |-> p, link |-> None]]
    /\ UNCHANGED <<outside, webhooks, faults>>

\* The provider makes a link for the row; next is CreateInvoice's next step.
MakeLink(c, pr, next) ==
    /\ call[c] # None /\ call[c].pc = "provider"
    /\ row[call[c].pay].provider = pr
    /\ Len(links) < MaxLinks
    /\ LET r == row[call[c].pay]
       IN  links' = Append(links, [user |-> r.user, offer |-> r.offer, provider |-> pr])
    /\ \/ /\ call' = [call EXCEPT ![c].link = Len(links'), ![c].pc = next]
          /\ UNCHANGED faults
       \/ Fault /\ call' = [call EXCEPT ![c] = None]  \* the reply is lost
    /\ UNCHANGED <<row, held, txs, key, webhooks>>

\* WATA and Platega return the id that their webhooks will carry; Telegram has
\* none before the customer has paid, and the row keeps NULL.
WataCreateInvoice(c) == MakeLink(c, "wata", "update")
PlategaCreateInvoice(c) == MakeLink(c, "platega", "update")
TelegramCreateInvoice(c) == MakeLink(c, "telegram_stars", "reply")

\* The provider refuses or cannot be reached: the row stays pending for ever.
ProviderFails(c) ==
    /\ call[c] # None /\ call[c].pc = "provider"
    /\ Fault
    /\ call' = [call EXCEPT ![c] = None]
    /\ UNCHANGED <<row, outside, webhooks>>

\* UPDATE payments SET external_id; when it fails there is a warning in the log
\* and CreateInvoice goes on.
UpdateExternalID(c) ==
    /\ call[c] # None /\ call[c].pc = "update"
    /\ \/ row' = [row EXCEPT ![call[c].pay].ext = call[c].link] /\ UNCHANGED faults
       \/ Fault /\ UNCHANGED row
    /\ ToCall(c, "reply")
    /\ UNCHANGED <<outside, webhooks>>

BrokenReplyWithLink(c) ==
    /\ call[c] # None /\ call[c].pc \in {"update", "reply"}
    /\ held' = held \cup {call[c].link}
    /\ call' = [call EXCEPT ![c] = IF @.pc = "update" THEN @ ELSE None]
    /\ UNCHANGED <<row, links, txs, key, webhooks, faults>>

\* The customer gets the link.
ReplyWithLink(c) ==
    /\ call[c] # None /\ call[c].pc = "reply"
    /\ held' = held \cup {call[c].link}
    /\ call' = [call EXCEPT ![c] = None]
    /\ UNCHANGED <<row, links, txs, key, webhooks, faults>>

-----------------------------------------------------------------------------
(* The providers, as far as the code knows them                            *)

\* A customer with the link pays, or tries to.  WATA's links are ManyTime:
\* further attempts may follow a declined or even a confirmed one.  Platega's
\* link stands for one transaction.
Attempt(l, state) ==
    /\ l \in held /\ Len(txs) < MaxTxs /\ state # "chargeback"
    /\ links[l].provider = "platega" => \A i \in DOMAIN txs : txs[i].link # l
    /\ txs' = Append(txs, [link |-> l, of |-> Len(txs) + 1, state |-> state])
    /\ UNCHANGED <<orders, links, held, key, webhooks, faults>>

\* The money that WATA has only authorised is taken or let go, and a payment by
\* Platega charged back.
Settle(i, state) ==
    /\ Len(txs) < MaxTxs
    /\ \/ txs[i].state = "authorized" /\ state \in {"confirmed", "declined"}
       \/ /\ links[txs[i].link].provider = "platega"
          /\ txs[i].state = "confirmed" /\ state = "chargeback"
    /\ \A j \in DOMAIN txs : txs[j].of = txs[i].of => j = i
    /\ txs' = Append(txs, [txs[i] EXCEPT !.state = state])
    /\ UNCHANGED <<orders, links, held, key, webhooks, faults>>

RotateKey == /\ key < MaxKey
             /\ key' = key + 1
             /\ UNCHANGED <<orders, links, held, txs, webhooks, faults>>

-----------------------------------------------------------------------------
(* HandleWebhook                                                           *)

At(w, step) == hook[w] # None /\ hook[w].pc = step
Drop(w) == hook' = [hook EXCEPT ![w] = None]

\* A webhook that has passed the check of its signature.
Valid(i) == [pc |-> "apply", tx |-> i, sig |-> None, had |-> FALSE, got |-> None]

\* ValidateWebhook of one signed with key s, against the cached key if there is
\* one; had says that a key has not fitted, after which a fresh one is fetched
\* whatever the cache holds.
ValidateWebhook(i, s) ==
    IF cache = s THEN Valid(i)
    ELSE [pc |-> "fetch", tx |-> i, sig |-> s, had |-> cache # None, got |-> None]

\* A request about event i arrives.
Deliver(w, i, pr, h) ==
    /\ hook[w] = None
    /\ i \in DOMAIN txs /\ links[txs[i].link].provider = pr
    /\ hook' = [hook EXCEPT ![w] = h]
    /\ UNCHANGED <<orders, outside, acked, cache, faults>>

\* WATA signs with the key of the moment, which may have been replaced when the
\* webhook arrives.
WataWebhook(w, i) == \E s \in 1 .. key : Deliver(w, i, "wata", ValidateWebhook(i, s))

\* Platega sends the credentials that payment-service is configured with.
PlategaWebhook(w, i) == Deliver(w, i, "platega", Valid(i))

\* Telegram's secret token is the gateway's to check.
TelegramWebhook(w, i) == Deliver(w, i, "telegram_stars", Valid(i))

\* The cached key, although it was asked for a fresh one.
BrokenFetchPublicKey(w) ==
    /\ At(w, "fetch")
    /\ hook' = [hook EXCEPT ![w].pc = "store", ![w].got = IF cache = None THEN key ELSE cache]
    /\ UNCHANGED <<orders, outside, acked, cache, faults>>

\* GET /public-key
FetchPublicKey(w) ==
    /\ At(w, "fetch")
    /\ \/ hook' = [hook EXCEPT ![w].pc = "store", ![w].got = key] /\ UNCHANGED faults
       \/ Fault /\ Drop(w)
    /\ UNCHANGED <<orders, outside, acked, cache>>

\* The fetched key goes into the cache, whatever another request has put there
\* meanwhile, and the signature is checked against it.  A key fetched because
\* the cache was empty gets a second chance; a fresh key that is the one that
\* failed, or that does not fit either, ends in an error.
StorePublicKey(w) ==
    /\ At(w, "store")
    /\ cache' = hook[w].got
    /\ LET fits == hook[w].sig = hook[w].got
           again == [hook[w] EXCEPT !.pc = "fetch", !.had = TRUE, !.got = None]
       IN  \/ fits /\ hook' = [hook EXCEPT ![w] = Valid(@.tx)]
           \/ ~fits /\ ~hook[w].had /\ hook' = [hook EXCEPT ![w] = again]
           \/ ~fits /\ hook[w].had /\ Drop(w)
    /\ UNCHANGED <<orders, outside, acked, faults>>

\* publicKeyTTL has passed.
KeyExpires == /\ cache # None
              /\ cache' = None
              /\ UNCHANGED <<orders, outside, hook, acked, faults>>

\* What a transaction means to payment-service, by the state the provider
\* reports: to WATA's adapter money that is only authorised is paid.  WATA's
\* Created and Platega's PENDING fall where Platega's chargebacks do, into
\* HandleWebhook's default branch, and are left out.
WataStatus == [authorized |-> "paid", confirmed |-> "paid", declined |-> "cancelled"]
BrokenPlategaStatus == [confirmed |-> "pending", declined |-> "cancelled", chargeback |-> "refunded"]
PlategaStatus == [confirmed |-> "paid", declined |-> "cancelled", chargeback |-> "refunded"]
TelegramStatus == [confirmed |-> "paid"]

StatusOf(pr) == CASE pr = "wata" -> WataStatus
                  [] pr = "platega" -> PlategaStatus
                  [] OTHER -> TelegramStatus

BrokenGetByExternalID(i) ==
    {p \in Payments : /\ row[p] # None
                      /\ row[p].user = links[txs[i].link].user}

\* SELECT ... WHERE external_id: WATA's webhook names the link, Platega's the
\* transaction the link stands for; Telegram's names the charge, which no row
\* has.
GetByExternalID(i) ==
    {p \in Payments : /\ row[p] # None /\ row[p].ext = txs[i].link
                      /\ links[txs[i].link].provider # "telegram_stars"}

\* UPDATE payments SET status; as history, the event that it is done for.
MarkPaid(p, i, status) ==
    row' = [row EXCEPT ![p].status = status, ![p].by = IF @ = None THEN i ELSE @]

\* handleSuccessfulPayment, which may fail after paid_db_only (PaymentFlow has
\* its steps), handleCancelledPayment, or the default branch.  Without a row
\* the provider is told to try again; a payment that is paid, or was cancelled,
\* is left alone and the webhook acknowledged.
HandleWebhook(w) ==
    /\ At(w, "apply") /\ Drop(w)
    /\ LET i == hook[w].tx
           event == StatusOf(links[txs[i].link].provider)[txs[i].state]
           found == GetByExternalID(i)
           Ack == acked' = acked \cup {i} /\ UNCHANGED faults
       IN  \/ event \notin {"paid", "cancelled"} /\ Ack /\ UNCHANGED row
           \/ event \in {"paid", "cancelled"} /\ found = {} /\ UNCHANGED <<row, acked, faults>>
           \/ /\ event = "cancelled"
              /\ \E p \in found :
                    row' = IF row[p].status = "pending"
                           THEN [row EXCEPT ![p].status = "cancelled"] ELSE row
              /\ Ack
           \/ /\ event = "paid"
              /\ \E p \in found :
                   \/ row[p].status \in {"paid", "cancelled"} /\ Ack /\ UNCHANGED row
                   \/ /\ row[p].status \in {"pending", "paid_db_only"}
                      /\ MarkPaid(p, i, "paid")
                      /\ Ack
                   \/ /\ row[p].status \in {"pending", "paid_db_only"}
                      /\ Fault
                      /\ MarkPaid(p, i, "paid_db_only")
                      /\ UNCHANGED acked
    /\ UNCHANGED <<call, outside, cache>>

\* payment-service restarts: requests and the cached key are gone.
Crash == /\ Fault
         /\ call' = [c \in Callers |-> None]
         /\ hook' = [w \in Webhooks |-> None]
         /\ cache' = None
         /\ UNCHANGED <<row, outside, acked>>

-----------------------------------------------------------------------------

HookStep(w) == FetchPublicKey(w) \/ StorePublicKey(w) \/ HandleWebhook(w)

Next == \/ \E c \in Callers, u \in Users, o \in Offers, pr \in Providers :
              CreatePending(c, u, o, pr)
        \/ \E c \in Callers : \/ WataCreateInvoice(c) \/ PlategaCreateInvoice(c)
                              \/ TelegramCreateInvoice(c) \/ ProviderFails(c)
                              \/ UpdateExternalID(c) \/ ReplyWithLink(c)
        \/ \E l \in held : \E s \in DOMAIN StatusOf(links[l].provider) : Attempt(l, s)
        \/ \E i \in DOMAIN txs : \E s \in DOMAIN StatusOf(links[txs[i].link].provider) :
              Settle(i, s)
        \/ RotateKey \/ KeyExpires
        \/ \E w \in Webhooks, i \in DOMAIN txs :
              WataWebhook(w, i) \/ PlategaWebhook(w, i) \/ TelegramWebhook(w, i)
        \/ \E w \in Webhooks : HookStep(w)
        \/ Crash

Spec == Init /\ [][Next]_vars

-----------------------------------------------------------------------------
(* Properties                                                              *)

TypeOK ==
    /\ row \in [Payments -> Row \cup {None}]
    /\ call \in [Callers -> {None} \cup Call]
    /\ links \in Seq(Link) /\ Len(links) <= MaxLinks
    /\ held \subseteq DOMAIN links
    /\ txs \in Seq(Tx) /\ Len(txs) <= MaxTxs
    /\ acked \subseteq DOMAIN txs
    /\ hook \in [Webhooks -> {None} \cup Hook]
    /\ key \in 1 .. MaxKey /\ cache \in {None} \cup 1 .. MaxKey
    /\ faults \in 0 .. MaxFaults

\* A payment that counts as paid was paid for on the link made for this very
\* payment, for its user, plan and provider: the provider confirmed a charge or,
\* with WATA and nobody else, had authorised one, which it may let go later.
\* Nobody's order is completed by somebody else's money.
PaidWasCharged ==
    \A p \in Payments :
        (row[p] # None /\ row[p].status \in {"paid_db_only", "paid"}) =>
            /\ row[p].by \in DOMAIN txs
            /\ LET t == txs[row[p].by]
               IN  /\ t.link = row[p].ext
                   /\ \/ t.state = "confirmed"
                      \/ t.state = "authorized" /\ row[p].provider = "wata"
            /\ links[row[p].ext] = [user |-> row[p].user, offer |-> row[p].offer,
                                   provider |-> row[p].provider]
            /\ \A q \in Payments \ {p} : row[q] = None \/ row[q].ext # row[p].ext

\* A customer can only pay on a link whose webhooks find their payment: links
\* handed out that no row names are at most as many as the UPDATEs of
\* external_id that failed.  (Telegram's rows never name anything.)
HeldLinksAreKnown ==
    Cardinality({l \in held : /\ links[l].provider # "telegram_stars"
                              /\ \A p \in Payments : row[p] = None \/ row[p].ext # l})
        <= faults

\* A confirmed charge whose webhook was answered with 200, and will not be
\* repeated, is what its payment was completed for.  The exceptions are charges
\* on WATA's links, which may be used again: a second one, after another
\* transaction had completed the payment, and one that comes after a declined
\* attempt had cancelled it.  For both the customer gets nothing.
AckedChargeIsHonoured ==
    \A i \in acked : txs[i].state = "confirmed" =>
        \E p \in GetByExternalID(i) :
            \/ row[p].status = "paid" /\ txs[row[p].by].of = txs[i].of
            \/ /\ row[p].provider = "wata"
               /\ \/ row[p].status = "paid" /\ txs[row[p].by].link = txs[i].link
                  \/ /\ row[p].status = "cancelled"
                     /\ \E j \in DOMAIN txs : /\ txs[j].link = txs[i].link
                                             /\ txs[j].state = "declined"

\* Whatever WATA does to its key, and although one request may overwrite a
\* newer key in the cache with the older one it has fetched, a webhook signed
\* with the key of the moment is turned away only by a failure: WATA stops
\* repeating a webhook after 32 hours, and its charge would be lost.
CurrentKeyIsAccepted ==
    [][\A w \in Webhooks :
          (/\ hook[w] # None /\ hook'[w] = None /\ hook[w].pc # "apply"
           /\ faults' = faults) => hook[w].sig # key]_vars

=============================================================================
