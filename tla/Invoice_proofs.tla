---------------------------- MODULE Invoice_proofs ----------------------------
(***************************************************************************)
(* Theorems about Invoice, for any users, offers, providers, requests,     *)
(* keys and numbers of failures.                                           *)
(*                                                                         *)
(* The link is the thread of the argument: it is made for one row, known   *)
(* to one request until the row names it, and named by no second row, so   *)
(* whatever a webhook finds by it is the payment it was made for.          *)
(***************************************************************************)
EXTENDS Invoice, SequenceTheorems, FiniteSetTheorems, TLAPS

LEMMA LinkFacts ==
    ASSUME TypeOK
    PROVE  /\ Len(links) \in Nat /\ DOMAIN links = 1 .. Len(links)
           /\ \A l \in DOMAIN links : links[l] \in Link /\ l \in 1 .. MaxLinks
           /\ Len(txs) \in Nat /\ DOMAIN txs = 1 .. Len(txs)
           /\ \A i \in DOMAIN txs : txs[i] \in Tx /\ i \in 1 .. MaxTxs
<1>1. links \in Seq(Link) /\ Len(links) <= MaxLinks /\ txs \in Seq(Tx) /\ Len(txs) <= MaxTxs
  BY DEF TypeOK
<1>2. Len(links) \in Nat /\ DOMAIN links = 1 .. Len(links) /\ links \in [1 .. Len(links) -> Link]
  BY <1>1, LenProperties
<1>3. Len(txs) \in Nat /\ DOMAIN txs = 1 .. Len(txs) /\ txs \in [1 .. Len(txs) -> Tx]
  BY <1>1, LenProperties
<1> QED
  BY <1>1, <1>2, <1>3, InvoiceBounds

\* The provider makes one more link.
LEMMA LinkAppended ==
    ASSUME TypeOK, NEW k \in Link, links' = Append(links, k)
    PROVE  /\ links' \in Seq(Link) /\ Len(links') = Len(links) + 1
           /\ DOMAIN links' = DOMAIN links \cup {Len(links) + 1}
           /\ Len(links) + 1 \notin DOMAIN links
           /\ links'[Len(links) + 1] = k /\ \A l \in DOMAIN links : links'[l] = links[l]
BY LinkFacts DEF TypeOK

\* One more transaction.
LEMMA TxAppended ==
    ASSUME TypeOK, NEW t \in Tx, txs' = Append(txs, t)
    PROVE  /\ txs' \in Seq(Tx) /\ Len(txs') = Len(txs) + 1
           /\ DOMAIN txs' = DOMAIN txs \cup {Len(txs) + 1}
           /\ txs'[Len(txs) + 1] = t /\ \A i \in DOMAIN txs : txs'[i] = txs[i]
BY LinkFacts DEF TypeOK

\* A request that has begun and a row that is there have their fields.
LEMMA FieldFacts ==
    ASSUME TypeOK
    PROVE  /\ \A p \in Payments : row[p] # None =>
                 /\ row[p] \in Row
                 /\ row[p].user \in Users /\ row[p].offer \in Sold
                 /\ row[p].provider \in Providers /\ row[p].status \in Status
                 /\ row[p].ext \in {None} \cup 1 .. MaxLinks
                 /\ row[p].by \in {None} \cup 1 .. MaxTxs
           /\ \A c \in Callers : call[c] # None =>
                 /\ call[c] \in Call /\ call[c].pay \in Payments
                 /\ call[c].link \in {None} \cup 1 .. MaxLinks
                 /\ call[c].pc \in {"provider", "update", "reply"}
           /\ \A w \in Webhooks : hook[w] # None =>
                 /\ hook[w] \in Hook /\ hook[w].tx \in 1 .. MaxTxs
                 /\ hook[w].sig \in {None} \cup 1 .. MaxKey
                 /\ hook[w].had \in BOOLEAN
                 /\ hook[w].got \in {None} \cup 1 .. MaxKey
BY DEF TypeOK, Row, Call, Hook

\* A request moves to t, a webhook to h, a row is written: nothing else is.
LEMMA CallMoves ==
    ASSUME TypeOK, NEW c \in Callers, NEW t \in {None} \cup Call, call' = [call EXCEPT ![c] = t]
    PROVE  /\ call' \in [Callers -> {None} \cup Call]
           /\ call'[c] = t /\ \A d \in Callers \ {c} : call'[d] = call[d]
BY DEF TypeOK

LEMMA HookMoves ==
    ASSUME TypeOK, NEW w \in Webhooks, NEW t \in {None} \cup Hook, hook' = [hook EXCEPT ![w] = t]
    PROVE  /\ hook' \in [Webhooks -> {None} \cup Hook]
           /\ hook'[w] = t /\ \A v \in Webhooks \ {w} : hook'[v] = hook[v]
BY DEF TypeOK

LEMMA RowWritten ==
    ASSUME TypeOK, NEW p \in Payments, NEW r \in Row, row' = [row EXCEPT ![p] = r]
    PROVE  /\ row' \in [Payments -> Row \cup {None}]
           /\ row'[p] = r /\ \A q \in Payments \ {p} : row'[q] = row[q]
BY DEF TypeOK

-----------------------------------------------------------------------------
(* What each step writes.                                                    *)

\* CreateInvoice inserts a pending row and goes to the provider.
LEMMA CreateEffect ==
    ASSUME TypeOK, NEW c \in Callers, NEW u \in Users, NEW o \in Offers, NEW pr \in Providers,
           CreatePending(c, u, o, pr)
    PROVE  \E p \in Payments, r \in Row, t \in Call :
              /\ row[p] = None /\ r.ext = None /\ r.status = "pending" /\ r.by = None
              /\ t.pc = "provider" /\ t.pay = p
              /\ row' = [row EXCEPT ![p] = r] /\ call' = [call EXCEPT ![c] = t]
<1>1. PICK p \in NextId :
        /\ row' = [row EXCEPT ![p] = [user |-> u, offer |-> o, provider |-> pr,
                                      ext |-> None, status |-> "pending", by |-> None]]
        /\ call' = [call EXCEPT ![c] = [pc |-> "provider", pay |-> p, link |-> None]]
  BY DEF CreatePending
<1> DEFINE r == [user |-> u, offer |-> o, provider |-> pr, ext |-> None, status |-> "pending",
                 by |-> None]
           t == [pc |-> "provider", pay |-> p, link |-> None]
<1>2. p \in Payments /\ row[p] = None
  BY DEF NextId
<1>3. r \in Row /\ r.ext = None /\ r.status = "pending" /\ r.by = None
  BY DEF Row, Status, CreatePending
<1>4. t \in Call /\ t.pc = "provider" /\ t.pay = p
  BY <1>2 DEF Call
<1> QED
  BY <1>1, <1>2, <1>3, <1>4

\* The provider's link is the order's; the request gets it or ends.
LEMMA MakeLinkEffect ==
    ASSUME TypeOK, NEW c \in Callers, NEW pr \in Providers, NEW next \in {"update", "reply"},
           MakeLink(c, pr, next), row[call[c].pay] # None
    PROVE  /\ call[c] # None /\ call[c].pc = "provider" /\ call[c].pay \in Payments
           /\ Len(links) < MaxLinks
           /\ LET r == row[call[c].pay]
                  k == [user |-> r.user, offer |-> r.offer, provider |-> r.provider]
              IN  r.provider = pr /\ k \in Link /\ links' = Append(links, k)
           /\ \/ call' = [call EXCEPT ![c] = None]
              \/ \E t \in Call : /\ t.pc = next /\ t.pay = call[c].pay /\ t.link = Len(links) + 1
                                 /\ call' = [call EXCEPT ![c] = t]
<1>1. /\ call[c] # None /\ call[c].pc = "provider" /\ call[c] \in Call
      /\ call[c].pay \in Payments /\ row[call[c].pay] \in Row
  BY FieldFacts DEF MakeLink
<1> DEFINE r == row[call[c].pay]
           k == [user |-> r.user, offer |-> r.offer, provider |-> r.provider]
           t == [call[c] EXCEPT !.link = Len(links) + 1, !.pc = next]
<1>2. r.provider = pr /\ k \in Link /\ links' = Append(links, k) /\ Len(links) < MaxLinks
  BY <1>1 DEF MakeLink, Row, Link
<1>3. Len(links') = Len(links) + 1 /\ Len(links) + 1 \in 1 .. MaxLinks
  BY <1>2, LinkAppended, LinkFacts, InvoiceBounds
<1>4. t \in Call /\ t.pc = next /\ t.pay = call[c].pay /\ t.link = Len(links) + 1
  BY <1>1, <1>3 DEF Call
<1>5. CASE call' = [call EXCEPT ![c].link = Len(links'), ![c].pc = next]
  <2>1. call' = [call EXCEPT ![c] = t]
    BY <1>1, <1>3, <1>5 DEF TypeOK
  <2> QED
    BY <2>1, <1>1, <1>2, <1>4
<1>6. CASE call' = [call EXCEPT ![c] = None]
  BY <1>1, <1>2, <1>6
<1> QED
  BY <1>5, <1>6 DEF MakeLink

\* UPDATE payments SET external_id, or a warning in the log.
LEMMA UpdateEffect ==
    ASSUME TypeOK, NEW c \in Callers, UpdateExternalID(c),
           row[call[c].pay] # None, call[c].link \in 1 .. MaxLinks
    PROVE  /\ call[c] # None /\ call[c].pc = "update" /\ call[c].pay \in Payments
           /\ \E t \in Call : /\ t.pc = "reply" /\ t.pay = call[c].pay /\ t.link = call[c].link
                              /\ call' = [call EXCEPT ![c] = t]
           /\ \/ Fault /\ UNCHANGED row
              \/ /\ UNCHANGED faults
                 /\ \E r \in Row : /\ r.user = row[call[c].pay].user
                                   /\ r.offer = row[call[c].pay].offer
                                   /\ r.provider = row[call[c].pay].provider
                                   /\ r.status = row[call[c].pay].status
                                   /\ r.ext = call[c].link /\ r.by = row[call[c].pay].by
                                   /\ row' = [row EXCEPT ![call[c].pay] = r]
<1>1. /\ call[c] # None /\ call[c].pc = "update" /\ call[c] \in Call
      /\ call[c].pay \in Payments /\ row[call[c].pay] \in Row
  BY FieldFacts DEF UpdateExternalID
<1> DEFINE p == call[c].pay
           r == [row[p] EXCEPT !.ext = call[c].link]
           t == [call[c] EXCEPT !.pc = "reply"]
<1>2. t \in Call /\ t.pc = "reply" /\ t.pay = p /\ t.link = call[c].link
  BY <1>1 DEF Call
<1>3. call' = [call EXCEPT ![c] = t]
  BY <1>1 DEF UpdateExternalID, ToCall, TypeOK
<1>4. /\ r \in Row /\ r.user = row[p].user /\ r.offer = row[p].offer
      /\ r.provider = row[p].provider /\ r.status = row[p].status /\ r.ext = call[c].link /\ r.by = row[p].by
  BY <1>1 DEF Row
<1>5. CASE row' = [row EXCEPT ![p].ext = call[c].link] /\ UNCHANGED faults
  <2>1. row' = [row EXCEPT ![p] = r]
    BY <1>5, <1>1 DEF TypeOK
  <2> QED
    BY <2>1, <1>1, <1>2, <1>3, <1>4, <1>5
<1>6. CASE Fault /\ UNCHANGED row
  BY <1>1, <1>2, <1>3, <1>6
<1> QED
  BY <1>5, <1>6 DEF UpdateExternalID

\* What HandleWebhook does to the rows: nothing, or one row gets a status that
\* the event it was told about justifies.
Event(i) == StatusOf(links[txs[i].link].provider)[txs[i].state]
Decides(i, p, r) ==
    /\ p \in GetByExternalID(i)
    /\ r \in Row /\ r.user = row[p].user /\ r.offer = row[p].offer
    /\ r.provider = row[p].provider /\ r.ext = row[p].ext
    /\ row' = [row EXCEPT ![p] = r]
    /\ \/ /\ Event(i) = "paid"
          /\ row[p].status \in {"pending", "paid_db_only"}
          /\ r.status \in {"paid", "paid_db_only"}
          /\ r.by = IF row[p].by = None THEN i ELSE row[p].by
       \/ /\ Event(i) = "cancelled"
          /\ row[p].status = "pending" /\ r.status = "cancelled" /\ r.by = row[p].by

LEMMA WebhookEffect ==
    ASSUME TypeOK, NEW w \in Webhooks, HandleWebhook(w)
    PROVE  /\ hook[w] # None /\ hook[w].tx \in 1 .. MaxTxs
           /\ hook' = [hook EXCEPT ![w] = None]
           /\ UNCHANGED row \/ \E p \in Payments, r \in Row : Decides(hook[w].tx, p, r)
<1> DEFINE i == hook[w].tx
           found == GetByExternalID(i)
<1>1. hook[w] # None /\ hook[w].tx \in 1 .. MaxTxs /\ hook' = [hook EXCEPT ![w] = None]
  BY FieldFacts DEF HandleWebhook, At, Drop
<1>p. \A p \in found : p \in Payments /\ row[p] # None /\ row[p] \in Row
  BY FieldFacts DEF GetByExternalID
<1>2. ASSUME NEW p \in found, NEW s \in {"paid", "paid_db_only"}, MarkPaid(p, i, s),
             Event(i) = "paid", row[p].status \in {"pending", "paid_db_only"}
      PROVE  \E r \in Row : p \in Payments /\ Decides(i, p, r)
  <2> DEFINE r == [row[p] EXCEPT !.status = s, !.by = IF @ = None THEN i ELSE @]
  <2>1. r \in Row /\ r.status = s /\ r.by = IF row[p].by = None THEN i ELSE row[p].by
    BY <1>1, <1>p DEF Row, Status
  <2>2. /\ r.user = row[p].user /\ r.offer = row[p].offer
        /\ r.provider = row[p].provider /\ r.ext = row[p].ext
    BY <1>p DEF Row
  <2>3. row' = [row EXCEPT ![p] = r]
    BY <1>2, <1>p DEF TypeOK, MarkPaid
  <2> QED
    BY <1>2, <1>p, <2>1, <2>2, <2>3 DEF Decides
<1>3. ASSUME NEW p \in found, row' = [row EXCEPT ![p].status = "cancelled"],
             Event(i) = "cancelled", row[p].status = "pending"
      PROVE  \E r \in Row : p \in Payments /\ Decides(i, p, r)
  <2> DEFINE r == [row[p] EXCEPT !.status = "cancelled"]
  <2>1. r \in Row /\ r.status = "cancelled" /\ r.by = row[p].by
    BY <1>p DEF Row, Status
  <2>2. /\ r.user = row[p].user /\ r.offer = row[p].offer
        /\ r.provider = row[p].provider /\ r.ext = row[p].ext
    BY <1>p DEF Row
  <2>3. row' = [row EXCEPT ![p] = r]
    BY <1>3, <1>p DEF TypeOK
  <2> QED
    BY <1>3, <1>p, <2>1, <2>2, <2>3 DEF Decides
<1>4. \/ UNCHANGED row
      \/ \E p \in found : /\ Event(i) = "cancelled" /\ row[p].status = "pending"
                          /\ row' = [row EXCEPT ![p].status = "cancelled"]
      \/ \E p \in found, s \in {"paid", "paid_db_only"} :
             /\ Event(i) = "paid" /\ row[p].status \in {"pending", "paid_db_only"}
             /\ MarkPaid(p, i, s)
  BY DEF HandleWebhook, Event
<1> QED
  BY <1>1, <1>2, <1>3, <1>4

-----------------------------------------------------------------------------
(* The inductive invariant.                                                  *)

External(l) == links[l].provider # "telegram_stars"
Names(p, l) == row[p] # None /\ row[p].ext = l

\* The link of an order is as ordered.
LinkFor(p, l) == links[l] = [user |-> row[p].user, offer |-> row[p].offer,
                             provider |-> row[p].provider]

\* Money was taken, or promised by WATA.
Pays(i) == \/ txs[i].state = "confirmed"
           \/ txs[i].state = "authorized" /\ links[txs[i].link].provider = "wata"

\* A row names a link made for it; it counts as paid after a payment on the
\* link, and is cancelled when an attempt on the link was declined.
RowInv(p) ==
    row[p] # None =>
        /\ row[p].ext # None =>
              row[p].ext \in DOMAIN links /\ LinkFor(p, row[p].ext) /\ External(row[p].ext)
        /\ row[p].by # None =>
              /\ row[p].ext # None /\ row[p].by \in DOMAIN txs
              /\ txs[row[p].by].link = row[p].ext /\ Pays(row[p].by)
        /\ row[p].status \in {"paid_db_only", "paid"} => row[p].by # None
        /\ row[p].status = "cancelled" =>
              /\ row[p].ext # None
              /\ \E j \in DOMAIN txs : txs[j].link = row[p].ext /\ txs[j].state = "declined"

\* No two rows name one link.
OneRow == \A p, q \in Payments : \A l \in DOMAIN links : Names(p, l) /\ Names(q, l) => p = q

\* Until the row names the link, only the request knows it.
CallInv(c) ==
    call[c] # None =>
        /\ row[call[c].pay] # None
        /\ call[c].pc \in {"provider", "update"} => row[call[c].pay].ext = None
        /\ call[c].pc \in {"update", "reply"} => call[c].link \in DOMAIN links
        /\ call[c].pc = "update" => /\ LinkFor(call[c].pay, call[c].link)
                                    /\ External(call[c].link)
                                    /\ \A p \in Payments : ~Names(p, call[c].link)

HasLink(c) == call[c] # None /\ call[c].pc \in {"update", "reply"}

\* No two requests work on one row or carry one link.
OwnCalls ==
    \A c, d \in Callers :
        /\ call[c] # None /\ call[d] # None /\ call[c].pay = call[d].pay => c = d
        /\ HasLink(c) /\ HasLink(d) /\ call[c].link = call[d].link => c = d

OrderInv == /\ \A p \in Payments : RowInv(p)
            /\ OneRow
            /\ \A c \in Callers : CallInv(c)
            /\ OwnCalls

\* An event is about a link, and one its provider knows; a link of Platega's
\* has one transaction, which is confirmed or declined.
TxInv == /\ \A i \in DOMAIN txs : /\ txs[i].link \in DOMAIN links
                                  /\ txs[i].state \in DOMAIN StatusOf(links[txs[i].link].provider)
         /\ \A i, j \in DOMAIN txs :
               txs[i].link = txs[j].link /\ links[txs[i].link].provider = "platega" =>
                  /\ txs[i].of = txs[j].of
                  /\ ~(txs[i].state = "confirmed" /\ txs[j].state = "declined")

\* The key a webhook was signed with is not newer than the one fetched for it,
\* and that one not newer than WATA's.
HookOK(h) ==
    /\ h.tx \in DOMAIN txs
    /\ h.pc # "apply" => h.sig \in Nat /\ h.sig <= key
    /\ h.pc = "store" => h.got \in Nat /\ h.sig <= h.got /\ h.got <= key
HookInv == \A w \in Webhooks : hook[w] # None => HookOK(hook[w])

\* Links in a customer's hand, or about to be, that no row names: one failed
\* UPDATE each.
InReply(l) == \E c \in Callers : call[c] # None /\ call[c].pc = "reply" /\ call[c].link = l
Lost == {l \in DOMAIN links : /\ External(l)
                              /\ \A p \in Payments : ~Names(p, l)
                              /\ l \in held \/ InReply(l)}
LostInv == Cardinality(Lost) <= faults

Honoured(i) ==
    txs[i].state = "confirmed" =>
        \E p \in GetByExternalID(i) :
            \/ row[p].status = "paid" /\ txs[row[p].by].of = txs[i].of
            \/ /\ row[p].provider = "wata"
               /\ \/ row[p].status = "paid" /\ txs[row[p].by].link = txs[i].link
                  \/ /\ row[p].status = "cancelled"
                     /\ \E j \in DOMAIN txs : /\ txs[j].link = txs[i].link
                                             /\ txs[j].state = "declined"

IInv == /\ TypeOK /\ OrderInv /\ TxInv /\ HookInv /\ LostInv
        /\ \A i \in acked : Honoured(i)

\* What is only ever added to.
LinksGrow == /\ DOMAIN links \subseteq DOMAIN links'
             /\ \A l \in DOMAIN links : links'[l] = links[l]
TxsGrow == /\ DOMAIN txs \subseteq DOMAIN txs'
           /\ \A i \in DOMAIN txs : txs'[i] = txs[i]
\* A row stays, is its provider's, and keeps the link it names and what paid it.
RowsStay == \A p \in Payments : row[p] # None =>
                /\ row'[p] # None /\ row'[p].provider = row[p].provider
                /\ row[p].ext # None => row'[p].ext = row[p].ext
                /\ row[p].by # None => row'[p].by = row[p].by
CallsEnd == \A c \in Callers : call'[c] \in {call[c], None}

-----------------------------------------------------------------------------
(* The orders.                                                               *)

\* Requests that end and new transactions disturb no order.
LEMMA OrdersQuiet ==
    ASSUME TypeOK, OrderInv, TypeOK', row' = row, links' = links, TxsGrow, CallsEnd
    PROVE  OrderInv'
<1>1. ASSUME NEW p \in Payments PROVE RowInv(p)'
  <2>1. RowInv(p)
    BY DEF OrderInv
  <2> QED
    BY <2>1 DEF RowInv, LinkFor, External, TxsGrow, Pays
<1>2. OneRow'
  BY DEF OrderInv, OneRow, Names
<1>3. ASSUME NEW c \in Callers PROVE CallInv(c)'
  <2>1. CallInv(c) /\ call'[c] \in {call[c], None}
    BY DEF OrderInv, CallsEnd
  <2> QED
    BY <2>1 DEF CallInv, LinkFor, External, Names
<1>4. OwnCalls'
  BY DEF OrderInv, OwnCalls, HasLink, CallsEnd
<1> QED
  BY <1>1, <1>2, <1>3, <1>4 DEF OrderInv

\* A new row names nothing, and is its request's alone.
LEMMA OrdersCreate ==
    ASSUME TypeOK, OrderInv, TypeOK', links' = links, txs' = txs,
           NEW c \in Callers, call[c] = None,
           NEW p \in Payments, NEW r \in Row, NEW t \in Call,
           row[p] = None, r.ext = None, r.status = "pending", r.by = None,
           t.pc = "provider", t.pay = p,
           row' = [row EXCEPT ![p] = r], call' = [call EXCEPT ![c] = t]
    PROVE  OrderInv' /\ RowsStay
<1>1. row'[p] = r /\ \A q \in Payments \ {p} : row'[q] = row[q]
  BY RowWritten
<1>2. call'[c] = t /\ \A d \in Callers \ {c} : call'[d] = call[d]
  BY CallMoves
<1>3. r # None
  BY NoneAssumption
<1>4. ASSUME NEW d \in Callers \ {c}, call[d] # None
      PROVE  call[d].pay \in Payments \ {p}
  BY <1>4, FieldFacts DEF OrderInv, CallInv
<1>n. None \notin DOMAIN links
  BY LinkFacts, NoneAssumption
<1>5. ASSUME NEW q \in Payments PROVE RowInv(q)'
  <2>1. CASE q = p
    BY <2>1, <1>1 DEF RowInv
  <2>2. CASE q # p
    BY <2>2, <1>1 DEF OrderInv, RowInv, LinkFor, External, Pays
  <2> QED
    BY <2>1, <2>2
<1>6. OneRow'
  BY <1>1, <1>n DEF OrderInv, OneRow, Names
<1>7. ASSUME NEW d \in Callers PROVE CallInv(d)'
  <2>1. CASE d = c
    BY <2>1, <1>1, <1>2, <1>3 DEF CallInv
  <2>2. CASE d # c /\ call[d] # None
    <3>1. row'[call[d].pay] = row[call[d].pay] /\ call'[d] = call[d] /\ CallInv(d)
      BY <2>2, <1>1, <1>2, <1>4 DEF OrderInv
    <3>2. call[d].pc = "update" => \A q \in Payments : ~Names(q, call[d].link)'
      BY <3>1, <2>2, <1>1, <1>n DEF CallInv, Names
    <3> QED
      BY <3>1, <3>2, <2>2 DEF CallInv, LinkFor, External, Names
  <2>3. CASE d # c /\ call[d] = None
    BY <2>3, <1>2 DEF CallInv
  <2> QED
    BY <2>1, <2>2, <2>3
<1>8. OwnCalls'
  <2>1. ~HasLink(c)'
    BY <1>2 DEF HasLink
  <2>2. \A d \in Callers \ {c} : HasLink(d)' = HasLink(d) /\ (call'[d] = call[d])
    BY <1>2 DEF HasLink
  <2> QED
    BY <2>1, <2>2, <1>2, <1>4 DEF OrderInv, OwnCalls
<1>9. RowsStay
  BY <1>1 DEF RowsStay
<1> QED
  BY <1>5, <1>6, <1>7, <1>8, <1>9 DEF OrderInv

\* The new link is known to its request alone.
LEMMA OrdersMakeLink ==
    ASSUME TypeOK, OrderInv, TypeOK', row' = row, txs' = txs,
           NEW c \in Callers, NEW pr \in Providers, NEW next \in {"update", "reply"},
           MakeLink(c, pr, next), next = "update" => pr # "telegram_stars"
    PROVE  OrderInv' /\ LinksGrow
<1> DEFINE r == row[call[c].pay]
           k == [user |-> r.user, offer |-> r.offer, provider |-> r.provider]
<1>n. PICK n \in Nat : n = Len(links) + 1
  BY LinkFacts
<1>p. PICK p \in Payments : p = call[c].pay
  BY FieldFacts DEF MakeLink
<1>c. CallInv(c) /\ call[c] # None /\ call[c].pc = "provider"
  BY DEF OrderInv, MakeLink
<1>e. /\ call[c].pay \in Payments /\ r.provider = pr /\ k \in Link /\ links' = Append(links, k)
      /\ \/ call' = [call EXCEPT ![c] = None]
         \/ \E t \in Call : /\ t.pc = next /\ t.pay = call[c].pay /\ t.link = n
                            /\ call' = [call EXCEPT ![c] = t]
  BY <1>c, <1>n, MakeLinkEffect DEF CallInv
<1>l. /\ DOMAIN links' = DOMAIN links \cup {n} /\ n \notin DOMAIN links
      /\ links'[n] = k /\ \A l \in DOMAIN links : links'[l] = links[l]
  BY <1>e, <1>n, LinkAppended
<1>g. LinksGrow
  BY <1>l DEF LinksGrow
<1>k. /\ links'[n].provider = pr
      /\ links'[n] = [user |-> row[p].user, offer |-> row[p].offer, provider |-> row[p].provider]
  BY <1>e, <1>l, <1>p
<1> HIDE DEF k
<1>r. ASSUME NEW q \in Payments, row[q] # None, row[q].ext # None
      PROVE  row[q].ext \in DOMAIN links
  BY <1>r DEF OrderInv, RowInv
<1>u. \A q \in Payments : ~Names(q, n)'
  BY <1>r, <1>l, NoneAssumption DEF Names
<1>1. ASSUME NEW q \in Payments PROVE RowInv(q)'
  BY <1>l DEF OrderInv, RowInv, LinkFor, External, Pays
<1>2. OneRow'
  <2>1. ASSUME NEW m \in DOMAIN links', NEW q \in Payments, Names(q, m)'
        PROVE  m \in DOMAIN links /\ Names(q, m)
    BY <2>1, <1>l, <1>u DEF Names
  <2> QED
    BY <2>1 DEF OrderInv, OneRow
<1>3. \A d \in Callers \ {c} : call'[d] = call[d]
  BY <1>e, CallMoves
<1>4. ASSUME NEW d \in Callers \ {c} PROVE CallInv(d)'
  <2>1. CallInv(d) /\ call'[d] = call[d]
    BY <1>3 DEF OrderInv
  <2> QED
    BY <2>1, <1>l DEF CallInv, LinkFor, External, Names
<1>5. ASSUME call' = [call EXCEPT ![c] = None]
      PROVE  CallInv(c)' /\ OwnCalls'
  <2>1. call'[c] = None
    BY <1>5, CallMoves
  <2> QED
    BY <2>1, <1>3 DEF CallInv, OrderInv, OwnCalls, HasLink
<1>6. ASSUME NEW t \in Call, t.pc = next, t.pay = call[c].pay, t.link = n,
             call' = [call EXCEPT ![c] = t]
      PROVE  CallInv(c)' /\ OwnCalls'
  <2>1. call'[c] = t /\ t # None
    BY <1>6, CallMoves, NoneAssumption
  <2>2. CallInv(c)'
    <3>1. next = "update" => External(n)'
      BY <1>k DEF External
    <3>2. LinkFor(p, n)'
      BY <1>k DEF LinkFor
    <3> QED
      BY <2>1, <1>6, <1>c, <1>l, <1>p, <1>u, <3>1, <3>2 DEF CallInv
  <2>3. ASSUME NEW d \in Callers \ {c}, HasLink(d)'
        PROVE  call'[d].link # n
    BY <2>3, <1>3, <1>l DEF HasLink, OrderInv, CallInv
  <2>4. OwnCalls'
    BY <2>1, <2>3, <1>3, <1>6, <1>c DEF OrderInv, OwnCalls, HasLink
  <2> QED
    BY <2>2, <2>4
<1> QED
  BY <1>1, <1>2, <1>4, <1>5, <1>6, <1>e, <1>g DEF OrderInv

\* The row names the link, unless the UPDATE fails.
LEMMA OrdersUpdate ==
    ASSUME TypeOK, OrderInv, TypeOK', links' = links, txs' = txs,
           NEW c \in Callers, UpdateExternalID(c)
    PROVE  OrderInv' /\ RowsStay
<1>b. /\ CallInv(c) /\ call[c] # None /\ call[c].pc = "update" /\ HasLink(c)
      /\ call[c].pay \in Payments /\ call[c].link \in DOMAIN links
  BY FieldFacts DEF OrderInv, UpdateExternalID, CallInv, HasLink
<1>p. PICK p \in Payments, l \in DOMAIN links : p = call[c].pay /\ l = call[c].link
  BY <1>b
<1>c. /\ CallInv(c) /\ call[c] # None /\ call[c].pc = "update" /\ HasLink(c)
      /\ p = call[c].pay /\ l = call[c].link
      /\ row[p] # None /\ l \in DOMAIN links /\ l \in 1 .. MaxLinks /\ row[p].ext = None
      /\ p \in Payments /\ LinkFor(p, l) /\ External(l) /\ \A q \in Payments : ~Names(q, l)
  BY <1>b, <1>p, LinkFacts DEF CallInv
<1>e. /\ \E t \in Call : /\ t.pc = "reply" /\ t.pay = p /\ t.link = l
                         /\ call' = [call EXCEPT ![c] = t]
      /\ \/ UNCHANGED row
         \/ \E r \in Row : /\ r.user = row[p].user /\ r.offer = row[p].offer
                           /\ r.provider = row[p].provider /\ r.status = row[p].status
                           /\ r.ext = l /\ r.by = row[p].by /\ row' = [row EXCEPT ![p] = r]
  BY <1>c, UpdateEffect
<1>1. PICK t \in Call : /\ t.pc = "reply" /\ t.pay = p /\ t.link = l
                        /\ call' = [call EXCEPT ![c] = t]
  BY <1>e
<1>2. call'[c] = t /\ t # None /\ \A d \in Callers \ {c} : call'[d] = call[d]
  BY <1>1, CallMoves, NoneAssumption
<1>3. OwnCalls'
  <2>1. \A d \in Callers : HasLink(d)' = HasLink(d) /\ call'[d].link = call[d].link
                           /\ call'[d].pay = call[d].pay /\ (call'[d] # None <=> call[d] # None)
    BY <1>1, <1>2, <1>c DEF HasLink
  <2> QED
    BY <2>1 DEF OrderInv, OwnCalls
<1>4. CASE UNCHANGED row
  <2>1. \A q \in Payments : RowInv(q)'
    BY <1>4 DEF OrderInv, RowInv, LinkFor, External, Pays
  <2>2. OneRow' /\ RowsStay
    BY <1>4 DEF OrderInv, OneRow, Names, RowsStay
  <2>3. ASSUME NEW d \in Callers PROVE CallInv(d)'
    <3>1. CASE d = c
      BY <3>1, <1>1, <1>2, <1>4, <1>c DEF CallInv
    <3>2. CASE d # c
      BY <3>2, <1>2, <1>4 DEF OrderInv, CallInv, LinkFor, External, Names
    <3> QED
      BY <3>1, <3>2
  <2> QED
    BY <2>1, <2>2, <2>3, <1>3 DEF OrderInv
<1>5. ASSUME NEW r \in Row, r.user = row[p].user, r.offer = row[p].offer,
             r.provider = row[p].provider, r.status = row[p].status,
             r.ext = l, r.by = row[p].by, row' = [row EXCEPT ![p] = r]
      PROVE  OrderInv' /\ RowsStay
  <2>1. row'[p] = r /\ r # None /\ \A q \in Payments \ {p} : row'[q] = row[q]
    BY <1>5, <1>c, RowWritten, NoneAssumption
  <2>2. RowsStay
    BY <2>1, <1>5, <1>c DEF RowsStay
  <2>3. ASSUME NEW q \in Payments PROVE RowInv(q)'
    <3>1. CASE q = p
      <4>1. LinkFor(p, l)' /\ External(l)'
        BY <2>1, <1>5, <1>c DEF LinkFor, External
      <4>2. row[p].status \notin {"paid_db_only", "paid", "cancelled"} /\ row[p].by = None
        BY <1>c DEF OrderInv, RowInv
      <4> QED
        BY <3>1, <4>1, <4>2, <2>1, <1>5, <1>c DEF RowInv
    <3>2. CASE q # p
      BY <3>2, <2>1 DEF OrderInv, RowInv, LinkFor, External, Pays
    <3> QED
      BY <3>1, <3>2
  <2>4. ASSUME NEW q \in Payments, NEW m \in DOMAIN links
        PROVE  Names(q, m)' <=> IF q = p THEN m = l ELSE Names(q, m)
    BY <2>1, <1>5 DEF Names
  <2>5. OneRow'
    BY <2>4, <1>c DEF OrderInv, OneRow
  <2>6. ASSUME NEW d \in Callers PROVE CallInv(d)'
    <3>1. CASE d = c
      BY <3>1, <1>1, <1>2, <2>1, <1>c DEF CallInv
    <3>2. CASE d # c /\ call[d] # None
      <4>1. /\ CallInv(d) /\ call'[d] = call[d] /\ call[d].pay # p /\ call[d].pay \in Payments
            /\ row'[call[d].pay] = row[call[d].pay]
        BY <3>2, <1>2, <1>c, <2>1, FieldFacts DEF OrderInv, OwnCalls
      <4>2. ASSUME call[d].pc = "update"
            PROVE  \A q \in Payments : ~Names(q, call[d].link)'
        <5>1. call[d].link # l /\ call[d].link \in DOMAIN links
          BY <4>2, <3>2, <4>1, <1>c DEF OrderInv, OwnCalls, HasLink, CallInv
        <5> QED
          BY <5>1, <4>1, <4>2, <3>2, <2>4 DEF CallInv
      <4> QED
        BY <4>1, <4>2, <3>2 DEF CallInv, LinkFor, External
    <3>3. CASE d # c /\ call[d] = None
      BY <3>3, <1>2 DEF CallInv
    <3> QED
      BY <3>1, <3>2, <3>3
  <2> QED
    BY <2>2, <2>3, <2>5, <2>6, <1>3 DEF OrderInv
<1> QED
  BY <1>e, <1>4, <1>5

\* A webhook changes the status of the row its link names, as the event says:
\* paid or declined.
LEMMA EventFacts ==
    ASSUME TypeOK, TxInv, NEW i \in DOMAIN txs
    PROVE  /\ Event(i) = "paid" <=> Pays(i)
           /\ Event(i) = "cancelled" <=> txs[i].state = "declined"
<1>1. /\ txs[i] \in Tx /\ txs[i].link \in DOMAIN links
      /\ links[txs[i].link].provider \in {"telegram_stars", "wata", "platega"}
      /\ txs[i].state \in DOMAIN StatusOf(links[txs[i].link].provider)
  BY LinkFacts, ProvidersAssumption DEF TxInv, Link
<1> QED
  BY <1>1 DEF Tx, Event, Pays, StatusOf, WataStatus, PlategaStatus, TelegramStatus

LEMMA OrdersDecide ==
    ASSUME TypeOK, OrderInv, TypeOK', TxInv, links' = links, txs' = txs, call' = call,
           NEW i \in DOMAIN txs, NEW p \in Payments, NEW r \in Row, Decides(i, p, r)
    PROVE  /\ OrderInv' /\ RowsStay
           /\ row' = [row EXCEPT ![p] = r] /\ row[p].status \notin {"paid", "cancelled"}
<1>1. /\ row[p] # None /\ row[p].ext = txs[i].link /\ row[p] \in Row
      /\ row' = [row EXCEPT ![p] = r]
  BY FieldFacts DEF Decides, GetByExternalID
<1>2. r.user = row[p].user /\ r.offer = row[p].offer /\ r.provider = row[p].provider /\ r.ext = row[p].ext
  BY DEF Decides
<1>3. row'[p] = r /\ r # None /\ \A q \in Payments \ {p} : row'[q] = row[q]
  BY <1>1, RowWritten, NoneAssumption
<1>4. RowsStay /\ row[p].status \notin {"paid", "cancelled"}
  BY <1>2, <1>3 DEF RowsStay, Decides
<1>e. row[p].ext \in DOMAIN links /\ row[p].ext # None /\ i # None
  BY <1>1, LinkFacts, NoneAssumption DEF TxInv
<1>5. ASSUME NEW q \in Payments PROVE RowInv(q)'
  <2>1. CASE q = p
    <3>1. LinkFor(p, row[p].ext)' /\ External(row[p].ext)'
      BY <1>1, <1>2, <1>3, <1>e DEF OrderInv, RowInv, LinkFor, External
    <3>i. RowInv(p)
      BY DEF OrderInv
    <3>2. CASE Event(i) = "paid"
      <4>1. /\ r.by # None /\ r.by \in DOMAIN txs /\ txs[r.by].link = row[p].ext /\ Pays(r.by)
            /\ r.status # "cancelled"
        BY <3>2, <3>i, <1>1, <1>e, EventFacts DEF Decides, RowInv
      <4> QED
        BY <2>1, <3>1, <4>1, <1>2, <1>3, <1>e DEF RowInv, Pays
    <3>3. CASE Event(i) = "cancelled"
      <4>1. /\ txs[i].link = row[p].ext /\ txs[i].state = "declined"
            /\ r.status = "cancelled" /\ r.by = row[p].by
        BY <3>3, <1>1, EventFacts DEF Decides
      <4> QED
        BY <2>1, <3>1, <3>i, <4>1, <1>1, <1>2, <1>3, <1>e DEF RowInv, Pays
    <3> QED
      BY <3>2, <3>3 DEF Decides
  <2>2. CASE q # p
    BY <2>2, <1>3 DEF OrderInv, RowInv, LinkFor, External, Pays
  <2> QED
    BY <2>1, <2>2
<1>6. \A q \in Payments : \A l : Names(q, l)' <=> Names(q, l)
  BY <1>1, <1>2, <1>3 DEF Names
<1>7. OneRow'
  BY <1>6 DEF OrderInv, OneRow
<1>8. ASSUME NEW c \in Callers PROVE CallInv(c)'
  <2>1. ASSUME NEW q \in Payments, row[q] # None
        PROVE  /\ row'[q] # None /\ row'[q].ext = row[q].ext
               /\ \A l : LinkFor(q, l)' <=> LinkFor(q, l)
    BY <2>1, <1>2, <1>3 DEF LinkFor
  <2> QED
    BY <2>1, <1>6, FieldFacts DEF OrderInv, CallInv, External
<1>9. OwnCalls'
  BY DEF OrderInv, OwnCalls, HasLink
<1> QED
  BY <1>1, <1>4, <1>5, <1>7, <1>8, <1>9 DEF OrderInv

-----------------------------------------------------------------------------
(* Transactions, webhooks and their keys.                                    *)

LEMMA TxsStable ==
    ASSUME TypeOK, TxInv, LinksGrow, txs' = txs
    PROVE  TxInv'
BY DEF TxInv, LinksGrow

TxHappens == \/ \E l \in held : \E s \in DOMAIN StatusOf(links[l].provider) : Attempt(l, s)
             \/ \E i \in DOMAIN txs : \E s \in DOMAIN StatusOf(links[txs[i].link].provider) :
                   Settle(i, s)

\* One more event; on a link of Platega's it is about the one transaction.
LEMMA TxAdded ==
    ASSUME TypeOK, TxInv, NEW t \in Tx, txs' = Append(txs, t), links' = links, Len(txs) < MaxTxs,
           t.link \in DOMAIN links, t.state \in DOMAIN StatusOf(links[t.link].provider),
           \A j \in DOMAIN txs :
               txs[j].link = t.link /\ links[t.link].provider = "platega" =>
                  /\ txs[j].of = t.of
                  /\ ~(txs[j].state = "confirmed" /\ t.state = "declined")
                  /\ ~(txs[j].state = "declined" /\ t.state = "confirmed")
    PROVE  TxInv' /\ TxsGrow /\ txs' \in Seq(Tx) /\ Len(txs') <= MaxTxs
<1>1. /\ txs' \in Seq(Tx) /\ Len(txs') = Len(txs) + 1
      /\ DOMAIN txs' = DOMAIN txs \cup {Len(txs) + 1}
      /\ txs'[Len(txs) + 1] = t /\ \A i \in DOMAIN txs : txs'[i] = txs[i]
  BY TxAppended
<1>2. Len(txs') <= MaxTxs
  BY <1>1, LinkFacts, InvoiceBounds
<1>3. TxInv'
  BY <1>1 DEF TxInv
<1> QED
  BY <1>1, <1>2, <1>3 DEF TxsGrow

LEMMA TransactEffect ==
    ASSUME TypeOK, TxInv, TxHappens
    PROVE  TxInv' /\ TxsGrow /\ txs' \in Seq(Tx) /\ Len(txs') <= MaxTxs
<1>n. Len(txs) < MaxTxs => Len(txs) + 1 \in 1 .. MaxTxs
  BY LinkFacts, InvoiceBounds
<1>1. ASSUME NEW l \in held, NEW s \in DOMAIN StatusOf(links[l].provider), Attempt(l, s)
      PROVE  TxInv' /\ TxsGrow /\ txs' \in Seq(Tx) /\ Len(txs') <= MaxTxs
  <2> DEFINE t == [link |-> l, of |-> Len(txs) + 1, state |-> s]
  <2>1. /\ l \in DOMAIN links /\ l \in 1 .. MaxLinks
        /\ links[l].provider \in {"telegram_stars", "wata", "platega"}
    BY LinkFacts, ProvidersAssumption DEF TypeOK, Link
  <2>2. s \in {"authorized", "confirmed", "declined", "chargeback"}
    BY <2>1 DEF StatusOf, WataStatus, PlategaStatus, TelegramStatus
  <2>3. /\ txs' = Append(txs, t) /\ links' = links /\ Len(txs) < MaxTxs
        /\ links[l].provider = "platega" => \A i \in DOMAIN txs : txs[i].link # l
    BY <1>1 DEF Attempt
  <2>4. t \in Tx /\ t.link = l /\ t.state = s
    BY <2>1, <2>2, <2>3, <1>n DEF Tx
  <2> HIDE DEF t
  <2> QED
    BY <2>1, <2>3, <2>4, TxAdded
<1>2. ASSUME NEW i \in DOMAIN txs, NEW s \in DOMAIN StatusOf(links[txs[i].link].provider),
             Settle(i, s)
      PROVE  TxInv' /\ TxsGrow /\ txs' \in Seq(Tx) /\ Len(txs') <= MaxTxs
  <2> DEFINE t == [txs[i] EXCEPT !.state = s]
  <2>1. /\ txs[i] \in Tx /\ txs[i].link \in DOMAIN links
        /\ txs[i].state \in DOMAIN StatusOf(links[txs[i].link].provider)
        /\ links[txs[i].link].provider \in {"telegram_stars", "wata", "platega"}
    BY LinkFacts, ProvidersAssumption DEF TxInv, Link
  <2>2. /\ txs' = Append(txs, t) /\ links' = links /\ Len(txs) < MaxTxs
        /\ s \in {"authorized", "confirmed", "declined", "chargeback"}
        /\ links[txs[i].link].provider = "platega" => s = "chargeback"
    BY <1>2, <2>1 DEF Settle, StatusOf, WataStatus, PlategaStatus, TelegramStatus
  <2>3. t \in Tx /\ t.link = txs[i].link /\ t.of = txs[i].of /\ t.state = s
    BY <2>1, <2>2 DEF Tx
  <2>4. ASSUME NEW j \in DOMAIN txs, txs[j].link = txs[i].link,
               links[txs[i].link].provider = "platega"
        PROVE  txs[j].of = txs[i].of
    BY <2>4 DEF TxInv
  <2> HIDE DEF t
  <2> QED
    BY <2>1, <2>2, <2>3, <2>4, TxAdded
<1> QED
  BY <1>1, <1>2 DEF TxHappens

\* One webhook moves; what the others carry is still so.
LEMMA HooksMove ==
    ASSUME TypeOK, HookInv, TxsGrow, key' = key,
           NEW w \in Webhooks, NEW h \in {None} \cup Hook, hook' = [hook EXCEPT ![w] = h],
           h # None => HookOK(h)
    PROVE  HookInv'
<1>1. hook'[w] = h /\ \A v \in Webhooks \ {w} : hook'[v] = hook[v]
  BY HookMoves
<1>2. ASSUME NEW g, HookOK(g) PROVE HookOK(g)'
  BY <1>2 DEF HookOK, TxsGrow
<1> QED
  BY <1>1, <1>2 DEF HookInv

\* WATA may have a new key, and webhooks may be lost.
LEMMA HooksStay ==
    ASSUME TypeOK, TypeOK', HookInv, TxsGrow, key' >= key,
           \A w \in Webhooks : hook'[w] \in {hook[w], None}
    PROVE  HookInv'
<1>1. key \in Nat /\ key' \in Nat
  BY InvoiceBounds DEF TypeOK
<1>2. ASSUME NEW h, HookOK(h) PROVE HookOK(h)'
  BY <1>1, <1>2 DEF HookOK, TxsGrow
<1> QED
  BY <1>2 DEF HookInv

HookArrives(w) == \E i \in DOMAIN txs : WataWebhook(w, i) \/ PlategaWebhook(w, i) \/ TelegramWebhook(w, i)

\* Where a webhook gets in one step.
LEMMA HookEffect ==
    ASSUME TypeOK, HookInv, NEW w \in Webhooks, HookArrives(w) \/ HookStep(w)
    PROVE  \E h \in {None} \cup Hook : /\ hook' = [hook EXCEPT ![w] = h]
                                       /\ h # None => HookOK(h)
<1>k. key \in 1 .. MaxKey /\ key \in Nat
  BY InvoiceBounds DEF TypeOK
<1>v. ASSUME NEW i \in DOMAIN txs PROVE Valid(i) \in Hook /\ HookOK(Valid(i))
  BY <1>v, LinkFacts DEF Valid, Hook, HookOK
<1>o. ASSUME hook[w] # None
      PROVE  /\ hook[w] \in Hook /\ HookOK(hook[w])
             /\ hook[w] = [pc |-> hook[w].pc, tx |-> hook[w].tx, sig |-> hook[w].sig,
                           had |-> hook[w].had, got |-> hook[w].got]
  BY <1>o, FieldFacts DEF HookInv, Hook
<1>1. ASSUME NEW i \in DOMAIN txs, WataWebhook(w, i)
      PROVE  \E h \in {None} \cup Hook : hook' = [hook EXCEPT ![w] = h] /\ (h # None => HookOK(h))
  <2>1. PICK s \in 1 .. key : hook' = [hook EXCEPT ![w] = ValidateWebhook(i, s)]
    BY <1>1 DEF WataWebhook, Deliver
  <2> DEFINE h == [pc |-> "fetch", tx |-> i, sig |-> s, had |-> cache # None, got |-> None]
  <2>2. s \in 1 .. MaxKey /\ s \in Nat /\ s <= key
    BY <1>k, InvoiceBounds
  <2>3. h \in Hook /\ HookOK(h)
    BY <2>2, LinkFacts DEF Hook, HookOK
  <2>4. ValidateWebhook(i, s) \in {h, Valid(i)}
    BY DEF ValidateWebhook
  <2> QED
    BY <2>1, <2>3, <2>4, <1>v
<1>2. CASE \E i \in DOMAIN txs : PlategaWebhook(w, i) \/ TelegramWebhook(w, i)
  BY <1>2, <1>v DEF PlategaWebhook, TelegramWebhook, Deliver
<1>4. CASE FetchPublicKey(w)
  <2> DEFINE h == [hook[w] EXCEPT !.pc = "store", !.got = key]
  <2>1. hook[w] # None /\ hook[w].pc = "fetch"
    BY <1>4 DEF FetchPublicKey, At
  <2>h. /\ h \in Hook /\ h.got = key /\ h.sig = hook[w].sig /\ h.tx = hook[w].tx
        /\ h.pc = "store"
    BY <2>1, <1>o, <1>k DEF Hook
  <2>2. HookOK(h)
    BY <2>1, <2>h, <1>o, <1>k DEF HookOK
  <2>3. hook' = [hook EXCEPT ![w] = None] \/ hook' = [hook EXCEPT ![w] = h]
    BY <1>4, <2>1 DEF FetchPublicKey, TypeOK, Drop
  <2> QED
    BY <2>h, <2>2, <2>3
<1>5. CASE StorePublicKey(w)
  <2> DEFINE h == [hook[w] EXCEPT !.pc = "fetch", !.had = TRUE, !.got = None]
  <2>1. hook[w] # None /\ hook[w].pc = "store"
    BY <1>5 DEF StorePublicKey, At
  <2>2. h \in Hook /\ HookOK(h)
    BY <2>1, <1>o DEF Hook, HookOK
  <2>3. \/ hook' = [hook EXCEPT ![w] = None] \/ hook' = [hook EXCEPT ![w] = h]
        \/ hook' = [hook EXCEPT ![w] = Valid(hook[w].tx)]
    BY <1>5 DEF StorePublicKey, TypeOK, Drop
  <2>4. hook[w].tx \in DOMAIN txs
    BY <2>1, <1>o DEF HookOK
  <2> QED
    BY <2>2, <2>3, <2>4, <1>v
<1>6. CASE HandleWebhook(w)
  BY <1>6 DEF HandleWebhook, Drop
<1> QED
  BY <1>1, <1>2, <1>4, <1>5, <1>6 DEF HookArrives, HookStep

-----------------------------------------------------------------------------
(* Lost links and acknowledged charges.                                      *)

\* Links that were not lost before are in X.
LEMMA LostBound ==
    ASSUME TypeOK, TypeOK', LinksGrow, RowsStay, NEW X,
           \A l \in DOMAIN links' :
               External(l)' /\ (l \in held' \/ InReply(l)') =>
                   l \in DOMAIN links /\ (l \in held \/ InReply(l) \/ l \in X)
    PROVE  Lost' \subseteq Lost \cup X
<1>1. ASSUME NEW l \in Lost' PROVE l \in Lost \cup X
  <2>1. /\ l \in DOMAIN links /\ (l \in held \/ InReply(l) \/ l \in X)
        /\ External(l)' /\ \A p \in Payments : ~Names(p, l)'
    BY <1>1 DEF Lost
  <2>2. External(l)
    BY <2>1 DEF External, LinksGrow
  <2>3. l # None
    BY <2>1, LinkFacts, NoneAssumption
  <2>4. \A p \in Payments : ~Names(p, l)
    BY <2>1, <2>3 DEF Names, RowsStay
  <2> QED
    BY <2>1, <2>2, <2>4 DEF Lost
<1> QED
  BY <1>1

LEMMA LostFinite ==
    ASSUME TypeOK
    PROVE  IsFiniteSet(Lost) /\ Cardinality(Lost) \in Nat
<1>1. IsFiniteSet(1 .. Len(links)) /\ Lost \in SUBSET (1 .. Len(links))
  BY LinkFacts, FS_Interval DEF Lost
<1>2. IsFiniteSet(Lost)
  BY <1>1, FS_Subset
<1> QED
  BY <1>2, FS_CardinalityType

LEMMA LostStays ==
    ASSUME TypeOK, TypeOK', LostInv, Lost' \subseteq Lost, faults' >= faults
    PROVE  LostInv'
<1>1. Cardinality(Lost') <= Cardinality(Lost)
  BY LostFinite, FS_Subset
<1>2. IsFiniteSet(Lost') /\ Cardinality(Lost') \in Nat
  BY LostFinite, FS_Subset, FS_CardinalityType
<1> QED
  BY <1>1, <1>2, LostFinite, InvoiceBounds DEF LostInv, TypeOK

\* A failure pays for one more.
LEMMA LostOneMore ==
    ASSUME TypeOK, TypeOK', LostInv, NEW l, Lost' \subseteq Lost \cup {l}, faults' = faults + 1
    PROVE  LostInv'
<1>1. /\ IsFiniteSet(Lost \cup {l})
      /\ Cardinality(Lost \cup {l}) = IF l \in Lost THEN Cardinality(Lost) ELSE Cardinality(Lost) + 1
  BY LostFinite, FS_AddElement
<1>2. IsFiniteSet(Lost') /\ Cardinality(Lost') <= Cardinality(Lost \cup {l})
  BY <1>1, FS_Subset
<1>3. Cardinality(Lost') \in Nat
  BY <1>2, FS_CardinalityType
<1>4. faults \in Nat
  BY InvoiceBounds DEF TypeOK
<1> QED
  BY <1>1, <1>2, <1>3, <1>4, LostFinite DEF LostInv

\* What was acknowledged stays honoured, because paid and cancelled are final.
LEMMA HonouredStays ==
    ASSUME TypeOK, TypeOK', OrderInv, LinksGrow, TxInv, TxsGrow, RowsStay, NEW i \in DOMAIN txs, Honoured(i),
           \A p \in Payments : row[p] # None /\ row[p].status \in {"paid", "cancelled"} =>
               row'[p].status = row[p].status
    PROVE  Honoured(i)'
<1> SUFFICES ASSUME txs[i].state = "confirmed" PROVE Honoured(i)'
  BY DEF Honoured, TxsGrow
<1>1. PICK p \in GetByExternalID(i) :
            \/ row[p].status = "paid" /\ txs[row[p].by].of = txs[i].of
            \/ /\ row[p].provider = "wata"
               /\ \/ row[p].status = "paid" /\ txs[row[p].by].link = txs[i].link
                  \/ /\ row[p].status = "cancelled"
                     /\ \E j \in DOMAIN txs : /\ txs[j].link = txs[i].link
                                             /\ txs[j].state = "declined"
  BY DEF Honoured
<1>2. txs[i].link \in DOMAIN links /\ txs[i].link # None
  BY LinkFacts, NoneAssumption DEF TxInv
<1>3. p \in GetByExternalID(i)'
  BY <1>2 DEF GetByExternalID, LinksGrow, TxsGrow, RowsStay
<1>4. /\ row[p] # None /\ p \in Payments
      /\ row'[p].status = row[p].status /\ row'[p].provider = row[p].provider
  BY <1>1 DEF GetByExternalID, RowsStay
<1>5. row[p].status = "paid" => row[p].by \in DOMAIN txs /\ row'[p].by = row[p].by
  BY <1>4 DEF OrderInv, RowInv, RowsStay
<1> QED
  BY <1>1, <1>3, <1>4, <1>5 DEF Honoured, TxsGrow

-----------------------------------------------------------------------------
(* Every step keeps the invariant.                                           *)

LEMMA FaultFacts ==
    ASSUME TypeOK, Fault
    PROVE  faults' \in 0 .. MaxFaults /\ faults' = faults + 1 /\ faults' >= faults
BY InvoiceBounds DEF TypeOK, Fault

LEMMA InvInit ==
    ASSUME Init
    PROVE  IInv
<1>1. links = <<>> /\ txs = <<>> /\ DOMAIN links = {} /\ DOMAIN txs = {} /\ Len(links) = 0 /\ Len(txs) = 0
  BY DEF Init
<1>2. links \in Seq(Link) /\ txs \in Seq(Tx)
  BY <1>1
<1>3. TypeOK
  BY <1>1, <1>2, InvoiceBounds DEF Init, TypeOK
<1>4. OrderInv /\ TxInv /\ HookInv
  BY <1>1 DEF Init, OrderInv, RowInv, OneRow, CallInv, OwnCalls, HasLink, TxInv, HookInv
<1>5. Lost = {}
  BY <1>1 DEF Lost
<1>6. LostInv
  BY <1>5, FS_EmptySet DEF LostInv, Init
<1> QED
  BY <1>3, <1>4, <1>6 DEF IInv, Init

LEMMA CreateStep ==
    ASSUME IInv, NEW c \in Callers, NEW u \in Users, NEW o \in Offers, NEW pr \in Providers,
           CreatePending(c, u, o, pr)
    PROVE  IInv'
<1>1. PICK p \in Payments, r \in Row, t \in Call :
              /\ row[p] = None /\ r.ext = None /\ r.status = "pending" /\ r.by = None
              /\ t.pc = "provider" /\ t.pay = p
              /\ row' = [row EXCEPT ![p] = r] /\ call' = [call EXCEPT ![c] = t]
  BY CreateEffect DEF IInv
<1>2. call[c] = None /\ UNCHANGED <<outside, webhooks, faults>>
  BY DEF CreatePending
<1>3. TypeOK'
  BY <1>1, <1>2, RowWritten, CallMoves DEF IInv, TypeOK, outside, webhooks
<1>4. OrderInv' /\ RowsStay
  BY <1>1, <1>2, <1>3, OrdersCreate DEF IInv, outside
<1>5. LinksGrow /\ TxsGrow
  BY <1>2 DEF LinksGrow, TxsGrow, outside
<1>6. TxInv' /\ HookInv'
  BY <1>2, <1>3, <1>5, TxsStable, HooksStay, InvoiceBounds DEF IInv, outside, webhooks, TypeOK
<1>7. Lost' \subseteq Lost \cup {}
  <2>1. call'[c] = t /\ \A d \in Callers \ {c} : call'[d] = call[d]
    BY <1>1, CallMoves DEF IInv
  <2>2. \A l : InReply(l)' => InReply(l)
    BY <2>1, <1>1 DEF InReply
  <2> QED
    BY <2>2, <1>2, <1>3, <1>4, <1>5, LostBound DEF IInv, outside
<1>8. LostInv'
  BY <1>2, <1>3, <1>7, LostStays, InvoiceBounds DEF IInv, TypeOK
<1>9. \A q \in Payments : row[q] # None => row'[q] = row[q]
  BY <1>1, RowWritten DEF IInv
<1>10. \A i \in acked' : Honoured(i)'
  BY <1>2, <1>3, <1>4, <1>5, <1>9, HonouredStays DEF IInv, TypeOK, webhooks
<1> QED
  BY <1>3, <1>4, <1>6, <1>8, <1>10 DEF IInv

LEMMA MakeLinkStep ==
    ASSUME IInv, NEW c \in Callers, NEW pr \in Providers, NEW next \in {"update", "reply"},
           MakeLink(c, pr, next), next = "update" <=> pr # "telegram_stars"
    PROVE  IInv'
<1>1. call[c] # None /\ row[call[c].pay] # None
  BY DEF IInv, OrderInv, CallInv, MakeLink
<1>n. PICK n \in Nat : n = Len(links) + 1
  BY LinkFacts DEF IInv
<1>2. PICK k \in Link, t \in {None} \cup Call :
        /\ Len(links) < MaxLinks /\ links' = Append(links, k) /\ k.provider = pr
        /\ call' = [call EXCEPT ![c] = t] /\ (t # None => t.pc = next /\ t.link = n)
  <2> DEFINE k == [user |-> row[call[c].pay].user, offer |-> row[call[c].pay].offer,
                   provider |-> row[call[c].pay].provider]
  <2>0. TypeOK
    BY DEF IInv
  <2>1. /\ k \in Link /\ Len(links) < MaxLinks /\ links' = Append(links, k) /\ k.provider = pr
        /\ \/ call' = [call EXCEPT ![c] = None]
           \/ \E t \in Call : /\ t.pc = next /\ t.pay = call[c].pay /\ t.link = Len(links) + 1
                              /\ call' = [call EXCEPT ![c] = t]
    BY <1>1, <2>0, MakeLinkEffect
  <2>2. PICK t \in {None} \cup Call :
           call' = [call EXCEPT ![c] = t] /\ (t # None => t.pc = next /\ t.link = n)
    BY <2>1, <1>n
  <2> QED
    BY <2>1, <2>2
<1>3. /\ UNCHANGED <<row, held, txs, key, webhooks>>
      /\ faults' \in 0 .. MaxFaults /\ faults' >= faults
  BY FaultFacts, InvoiceBounds DEF IInv, MakeLink, TypeOK
<1>4. /\ links' \in Seq(Link) /\ Len(links') = n /\ DOMAIN links' = DOMAIN links \cup {n}
      /\ n \notin DOMAIN links /\ links'[n] = k /\ LinksGrow
  BY <1>2, <1>n, LinkAppended DEF IInv, LinksGrow
<1>5. TypeOK'
  <2>1. Len(links') <= MaxLinks
    BY <1>2, <1>4, <1>n, LinkFacts, InvoiceBounds DEF IInv
  <2>2. call' \in [Callers -> {None} \cup Call]
    BY <1>2, CallMoves DEF IInv
  <2> QED
    BY <1>3, <1>4, <2>1, <2>2 DEF IInv, TypeOK, webhooks
<1>6. OrderInv' /\ TxsGrow /\ RowsStay
  BY <1>3, <1>5, OrdersMakeLink DEF IInv, TxsGrow, RowsStay
<1>7. TxInv' /\ HookInv'
  BY <1>3, <1>4, <1>5, <1>6, TxsStable, HooksStay, InvoiceBounds DEF IInv, TypeOK, webhooks
<1>8. Lost' \subseteq Lost \cup {}
  <2>1. call'[c] = t /\ \A d \in Callers \ {c} : call'[d] = call[d]
    BY <1>2, CallMoves DEF IInv
  <2>2. \A l \in DOMAIN links : InReply(l)' => InReply(l)
    BY <2>1, <1>2, <1>4 DEF InReply
  <2>3. ASSUME External(n)', n \in held \/ InReply(n)' PROVE FALSE
    <3>1. next = "update"
      BY <2>3, <1>2, <1>4 DEF External
    <3>2. n \notin held
      BY <1>4 DEF IInv, TypeOK
    <3>3. PICK d \in Callers : call'[d] # None /\ call'[d].pc = "reply" /\ call'[d].link = n
      BY <2>3, <3>2 DEF InReply
    <3>4. d # c
      BY <3>1, <3>3, <2>1, <1>2
    <3> QED
      BY <3>3, <3>4, <2>1, <1>4 DEF IInv, OrderInv, CallInv
  <2> QED
    BY <2>2, <2>3, <1>3, <1>4, <1>5, <1>6, LostBound DEF IInv
<1>9. LostInv'
  BY <1>3, <1>5, <1>8, LostStays DEF IInv
<1>10. \A i \in acked' : Honoured(i)'
  BY <1>3, <1>4, <1>5, <1>6, HonouredStays DEF IInv, TypeOK, webhooks
<1> QED
  BY <1>5, <1>6, <1>7, <1>9, <1>10 DEF IInv

LEMMA UpdateStep ==
    ASSUME IInv, NEW c \in Callers, UpdateExternalID(c)
    PROVE  IInv'
<1>1. /\ call[c] # None /\ call[c].pc = "update" /\ row[call[c].pay] # None
      /\ call[c].link \in DOMAIN links /\ call[c].link \in 1 .. MaxLinks
      /\ call[c].pay \in Payments
  BY LinkFacts, FieldFacts DEF IInv, OrderInv, CallInv, UpdateExternalID
<1>p. PICK p \in Payments, l \in DOMAIN links : p = call[c].pay /\ l = call[c].link
  BY <1>1
<1>2. PICK t \in Call : /\ t.pc = "reply" /\ t.pay = p /\ t.link = l
                        /\ call' = [call EXCEPT ![c] = t]
  BY <1>1, <1>p, UpdateEffect DEF IInv
<1>3. \/ Fault /\ UNCHANGED row
      \/ /\ UNCHANGED faults
         /\ \E r \in Row : /\ r.status = row[p].status /\ r.ext = l
                           /\ row' = [row EXCEPT ![p] = r]
  BY <1>1, <1>p, UpdateEffect DEF IInv
<1>4. UNCHANGED <<outside, webhooks>>
  BY DEF UpdateExternalID
<1>5. /\ row' \in [Payments -> Row \cup {None}]
      /\ \A q \in Payments : row[q] # None => row'[q].status = row[q].status
  BY <1>3, RowWritten DEF IInv, TypeOK
<1>6. faults' \in 0 .. MaxFaults
  BY <1>3, FaultFacts DEF IInv, TypeOK
<1>7. TypeOK'
  BY <1>2, <1>4, <1>5, <1>6, CallMoves DEF IInv, TypeOK, outside, webhooks
<1>8. OrderInv' /\ RowsStay
  BY <1>4, <1>7, OrdersUpdate DEF IInv, outside
<1>9. LinksGrow /\ TxsGrow
  BY <1>4 DEF LinksGrow, TxsGrow, outside
<1>10. TxInv' /\ HookInv'
  BY <1>4, <1>7, <1>9, TxsStable, HooksStay, InvoiceBounds DEF IInv, outside, webhooks, TypeOK
<1>11. call'[c] = t /\ \A d \in Callers \ {c} : call'[d] = call[d]
  BY <1>2, CallMoves DEF IInv
<1>12. Lost' \subseteq Lost \cup {l}
  <2>1. \A m : InReply(m)' => InReply(m) \/ m = l
    BY <1>2, <1>11 DEF InReply
  <2> QED
    BY <2>1, <1>4, <1>7, <1>8, <1>9, LostBound DEF IInv, outside
<1>13. LostInv'
  <2>1. CASE Fault
    BY <2>1, <1>7, <1>12, FaultFacts, LostOneMore DEF IInv
  <2>2. ASSUME UNCHANGED faults, NEW r \in Row, r.ext = l, row' = [row EXCEPT ![p] = r]
        PROVE  LostInv'
    <3>1. Names(p, l)'
      BY <2>2, RowWritten, NoneAssumption DEF Names, IInv
    <3>2. Lost' \subseteq Lost
      BY <3>1, <1>12 DEF Lost
    <3> QED
      BY <3>2, <2>2, <1>7, LostStays, InvoiceBounds DEF IInv, TypeOK
  <2> QED
    BY <2>1, <2>2, <1>3
<1>14. \A i \in acked' : Honoured(i)'
  BY <1>4, <1>5, <1>7, <1>8, <1>9, HonouredStays DEF IInv, TypeOK, webhooks
<1> QED
  BY <1>7, <1>8, <1>10, <1>13, <1>14 DEF IInv

\* A step that leaves the rows and links alone, and hands out no link but one
\* that a request was about to hand out.
LEMMA QuietStep ==
    ASSUME IInv, TypeOK', row' = row, links' = links, acked' = acked, TxsGrow, TxInv',
           CallsEnd, faults' >= faults, HookInv',
           \A l \in held' : l \in held \/ InReply(l)
    PROVE  IInv'
<1>1. OrderInv'
  BY OrdersQuiet DEF IInv
<1>2. LinksGrow /\ RowsStay
  BY DEF LinksGrow, RowsStay
<1>3. Lost' \subseteq Lost \cup {}
  <2>1. \A l : InReply(l)' => InReply(l)
    BY DEF InReply, CallsEnd
  <2> QED
    BY <2>1, <1>2, LostBound DEF IInv
<1>4. LostInv'
  BY <1>3, LostStays DEF IInv
<1>5. \A i \in acked' : Honoured(i)'
  BY <1>2, HonouredStays DEF IInv, TypeOK
<1> QED
  BY <1>1, <1>4, <1>5 DEF IInv

LEMMA ReplyStep ==
    ASSUME IInv, NEW c \in Callers, ReplyWithLink(c)
    PROVE  IInv'
<1>1. call[c] # None /\ call[c].pc = "reply" /\ call[c].link \in DOMAIN links
  BY DEF IInv, OrderInv, CallInv, ReplyWithLink
<1>2. held' = held \cup {call[c].link} /\ call' = [call EXCEPT ![c] = None]
      /\ UNCHANGED <<row, links, txs, key, webhooks, faults>>
  BY DEF ReplyWithLink
<1>3. call' \in [Callers -> {None} \cup Call] /\ CallsEnd
  BY <1>2, CallMoves DEF IInv, CallsEnd
<1>4. TypeOK'
  BY <1>1, <1>2, <1>3 DEF IInv, TypeOK, webhooks
<1>5. TxsGrow /\ TxInv'
  BY <1>2 DEF IInv, TxsGrow, TxInv
<1>6. HookInv' /\ faults' >= faults
  BY <1>2, <1>4, <1>5, HooksStay, InvoiceBounds DEF IInv, TypeOK, webhooks
<1>7. InReply(call[c].link)
  BY <1>1 DEF InReply
<1> QED
  BY <1>2, <1>3, <1>4, <1>5, <1>6, <1>7, QuietStep DEF webhooks

\* The provider refuses, or payment-service restarts.
LEMMA FailStep ==
    ASSUME IInv, Crash \/ \E c \in Callers : ProviderFails(c)
    PROVE  IInv'
<1>1. /\ UNCHANGED <<row, outside, acked>> /\ Fault
      /\ call' \in [Callers -> {None} \cup Call] /\ CallsEnd
      /\ hook' \in [Webhooks -> {None} \cup Hook] /\ cache' \in {None, cache}
      /\ \A w \in Webhooks : hook'[w] \in {hook[w], None}
  BY CallMoves DEF IInv, TypeOK, Crash, ProviderFails, CallsEnd, outside, webhooks
<1>2. TypeOK'
  BY <1>1, FaultFacts DEF IInv, TypeOK, outside
<1>3. TxsGrow /\ TxInv'
  BY <1>1 DEF IInv, TxsGrow, TxInv, outside
<1>4. HookInv' /\ faults' >= faults
  BY <1>1, <1>2, <1>3, HooksStay, FaultFacts, InvoiceBounds DEF IInv, TypeOK, outside
<1> QED
  BY <1>1, <1>2, <1>3, <1>4, QuietStep DEF outside

LEMMA OutsideStep ==
    ASSUME IInv, RotateKey \/ KeyExpires \/ TxHappens
    PROVE  IInv'
<1>1. /\ UNCHANGED <<orders, links, held, hook, acked, faults>>
      /\ key' \in 1 .. MaxKey /\ key' >= key /\ cache' \in {None, cache}
  <2>1. key \in 1 .. MaxKey /\ key \in Nat
    BY InvoiceBounds DEF IInv, TypeOK
  <2>2. CASE RotateKey
    BY <2>1, <2>2, InvoiceBounds DEF RotateKey, orders, webhooks
  <2>3. CASE KeyExpires
    BY <2>1, <2>3 DEF KeyExpires, orders, outside
  <2>4. CASE TxHappens
    <3>1. UNCHANGED <<orders, links, held, key, webhooks, faults>>
      BY <2>4 DEF TxHappens, Attempt, Settle
    <3> QED
      BY <2>1, <3>1 DEF orders, webhooks
  <2> QED
    BY <2>2, <2>3, <2>4
<1>2. TxsGrow /\ TxInv' /\ txs' \in Seq(Tx) /\ Len(txs') <= MaxTxs
  <2>1. CASE RotateKey \/ KeyExpires
    <3>1. txs' = txs /\ links' = links
      BY <2>1 DEF RotateKey, KeyExpires, outside
    <3> QED
      BY <3>1 DEF IInv, TypeOK, TxsGrow, TxInv
  <2>2. CASE TxHappens
    BY <2>2, TransactEffect DEF IInv
  <2> QED
    BY <2>1, <2>2
<1>3. TypeOK'
  BY <1>1, <1>2 DEF IInv, TypeOK, orders, TxsGrow
<1>4. HookInv' /\ faults' >= faults
  BY <1>1, <1>2, <1>3, HooksStay, InvoiceBounds DEF IInv, TypeOK
<1>5. CallsEnd
  BY <1>1 DEF CallsEnd, orders
<1> QED
  BY <1>1, <1>2, <1>3, <1>4, <1>5, QuietStep DEF orders

\* A webhook arrives, or is on the way to HandleWebhook.
LEMMA ValidationStep ==
    ASSUME IInv, NEW w \in Webhooks,
           HookArrives(w) \/ FetchPublicKey(w) \/ StorePublicKey(w)
    PROVE  IInv'
<1>1. PICK h \in {None} \cup Hook : hook' = [hook EXCEPT ![w] = h] /\ (h # None => HookOK(h))
  BY HookEffect DEF IInv, HookStep
<1>2. /\ UNCHANGED <<orders, outside, acked>>
      /\ faults' \in 0 .. MaxFaults /\ faults' >= faults /\ cache' \in {None} \cup 1 .. MaxKey
  BY FaultFacts, FieldFacts, InvoiceBounds
     DEF IInv, TypeOK, HookArrives, WataWebhook, PlategaWebhook, TelegramWebhook, Deliver,
         FetchPublicKey, StorePublicKey, At
<1>3. TypeOK'
  BY <1>1, <1>2, HookMoves DEF IInv, TypeOK, orders, outside
<1>4. TxsGrow /\ TxInv' /\ CallsEnd
  BY <1>2 DEF IInv, TxsGrow, TxInv, CallsEnd, orders, outside
<1>5. HookInv'
  BY <1>1, <1>2, <1>4, HooksMove DEF IInv, outside
<1> QED
  BY <1>2, <1>3, <1>4, <1>5, QuietStep DEF orders, outside

LEMMA WebhookStep ==
    ASSUME IInv, NEW w \in Webhooks, HandleWebhook(w)
    PROVE  IInv'
<1>1. /\ hook[w] # None /\ hook[w].tx \in DOMAIN txs
      /\ hook' = [hook EXCEPT ![w] = None]
      /\ UNCHANGED <<call, outside, cache>>
  BY WebhookEffect DEF IInv, HookInv, HookOK, HandleWebhook
<1>i. PICK i \in DOMAIN txs : i = hook[w].tx
  BY <1>1
<1>2. UNCHANGED row \/ \E p \in Payments, r \in Row : Decides(i, p, r)
  BY <1>i, WebhookEffect DEF IInv
<1>3. /\ faults' \in 0 .. MaxFaults /\ faults' >= faults
      /\ acked' \in {acked, acked \cup {i}}
  <2>1. acked' = acked \cup {i} \/ UNCHANGED acked
    BY <1>i DEF HandleWebhook
  <2>2. UNCHANGED faults \/ Fault
    BY DEF HandleWebhook
  <2>3. TypeOK /\ faults \in 0 .. MaxFaults
    BY DEF IInv, TypeOK
  <2>4. faults' \in 0 .. MaxFaults /\ faults' >= faults
    BY <2>2, <2>3, FaultFacts, InvoiceBounds
  <2> QED
    BY <2>1, <2>4
<1>4. row' \in [Payments -> Row \cup {None}]
  <2>1. CASE UNCHANGED row
    BY <2>1 DEF IInv, TypeOK
  <2>2. ASSUME NEW p \in Payments, NEW r \in Row, Decides(i, p, r)
        PROVE  row' \in [Payments -> Row \cup {None}]
    BY <2>2, RowWritten DEF Decides, IInv
  <2> QED
    BY <1>2, <2>1, <2>2
<1>5. TypeOK'
  BY <1>1, <1>3, <1>4, HookMoves DEF IInv, TypeOK, outside
<1>6. LinksGrow /\ TxsGrow /\ TxInv' /\ CallsEnd
  BY <1>1 DEF IInv, TxInv, LinksGrow, TxsGrow, CallsEnd, outside
<1>7. HookInv'
  BY <1>1, <1>6, HooksMove DEF IInv, outside
<1>8. /\ OrderInv' /\ RowsStay
      /\ \A p \in Payments : row[p] # None /\ row[p].status \in {"paid", "cancelled"} =>
            row'[p].status = row[p].status
  <2>1. CASE UNCHANGED row
    BY <2>1, <1>1, <1>5, <1>6, OrdersQuiet DEF IInv, RowsStay, outside
  <2>2. ASSUME NEW p \in Payments, NEW r \in Row, Decides(i, p, r)
        PROVE  /\ OrderInv' /\ RowsStay
               /\ \A q \in Payments : row[q] # None /\ row[q].status \in {"paid", "cancelled"} =>
                     row'[q].status = row[q].status
    <3>1. /\ OrderInv' /\ RowsStay
          /\ row' = [row EXCEPT ![p] = r] /\ row[p].status \notin {"paid", "cancelled"}
      BY <2>2, <1>1, <1>5, OrdersDecide DEF IInv, outside
    <3> QED
      BY <3>1, RowWritten DEF IInv
  <2> QED
    BY <1>2, <2>1, <2>2
<1>9. Lost' \subseteq Lost \cup {}
  BY <1>1, <1>5, <1>6, <1>8, LostBound DEF IInv, outside, InReply
<1>10. LostInv'
  BY <1>3, <1>5, <1>9, LostStays DEF IInv
<1>11. \A j \in acked : Honoured(j)'
  BY <1>5, <1>6, <1>8, HonouredStays DEF IInv, TypeOK
<1>12. ASSUME i \in acked', i \notin acked PROVE Honoured(i)'
  <2> SUFFICES ASSUME txs[i].state = "confirmed" PROVE Honoured(i)'
    BY <1>1 DEF Honoured, outside
  <2>1. StatusOf(links[txs[i].link].provider)[txs[i].state] = "paid"
    BY EventFacts DEF IInv, Event, Pays
  <2>2. PICK p \in GetByExternalID(i) :
           \/ row[p].status \in {"paid", "cancelled"} /\ UNCHANGED row
           \/ MarkPaid(p, i, "paid")
    BY <2>1, <1>i, <1>12 DEF HandleWebhook
  <2>3. /\ p \in Payments /\ row[p] # None /\ row[p] \in Row /\ row[p].ext = txs[i].link
        /\ links[txs[i].link].provider # "telegram_stars"
    BY <2>2, FieldFacts DEF GetByExternalID, IInv
  <2>4. row'[p].status \in {"paid", "cancelled"}
    BY <2>2, <2>3 DEF IInv, TypeOK, Row, MarkPaid
  <2>5. row[p].ext # None
    BY <2>3, LinkFacts, NoneAssumption DEF IInv, TxInv
  <2>6. row'[p] # None /\ row'[p].ext = txs[i].link /\ row'[p].ext # None /\ RowInv(p)'
    BY <2>3, <2>5, <1>8 DEF RowsStay, OrderInv
  <2>7. p \in GetByExternalID(i)' /\ links' = links /\ txs' = txs
    BY <2>3, <2>6, <1>1 DEF GetByExternalID, outside
  <2>8. /\ row'[p].provider = links[txs[i].link].provider
        /\ row'[p].provider \in {"wata", "platega"}
    <3>1. txs[i].link \in DOMAIN links /\ links[txs[i].link] \in Link
      BY LinkFacts DEF IInv, TxInv
    <3>2. links[txs[i].link].provider \in Providers
      BY <3>1 DEF Link
    <3>3. LinkFor(p, row[p].ext)'
      BY <2>6 DEF RowInv
    <3>4. row'[p].provider = links[txs[i].link].provider
      BY <3>3, <2>6, <2>7 DEF LinkFor
    <3> QED
      BY <3>2, <3>4, <2>3, ProvidersAssumption
  <2>9. CASE row'[p].status = "paid"
    <3>1. row'[p].by \in DOMAIN txs /\ txs[row'[p].by].link = txs[i].link
      BY <2>6, <2>7, <2>9 DEF RowInv
    <3>2. row'[p].provider = "platega" => txs[row'[p].by].of = txs[i].of
      BY <3>1, <2>8 DEF IInv, TxInv
    <3> QED
      BY <3>1, <3>2, <2>7, <2>8, <2>9 DEF Honoured
  <2>10. CASE row'[p].status = "cancelled"
    <3>1. PICK j \in DOMAIN txs : txs[j].link = txs[i].link /\ txs[j].state = "declined"
      BY <2>6, <2>7, <2>10 DEF RowInv
    <3>2. row'[p].provider # "platega"
      BY <3>1, <2>8 DEF IInv, TxInv
    <3> QED
      BY <3>1, <3>2, <2>7, <2>8, <2>10 DEF Honoured
  <2> QED
    BY <2>4, <2>9, <2>10
<1> QED
  BY <1>3, <1>5, <1>6, <1>7, <1>8, <1>10, <1>11, <1>12 DEF IInv

LEMMA InvStep ==
    ASSUME IInv, [Next]_vars
    PROVE  IInv'
<1>1. ASSUME NEW c \in Callers, NEW u \in Users, NEW o \in Offers, NEW pr \in Providers,
             CreatePending(c, u, o, pr)
      PROVE  IInv'
  BY <1>1, CreateStep
<1>2. ASSUME NEW c \in Callers,
             WataCreateInvoice(c) \/ PlategaCreateInvoice(c) \/ TelegramCreateInvoice(c)
      PROVE  IInv'
  <2>1. \A pr \in {"telegram_stars", "wata", "platega"}, next \in {"update", "reply"} :
           MakeLink(c, pr, next) => pr \in Providers
    BY FieldFacts DEF MakeLink, IInv, OrderInv, CallInv
  <2>2. CASE WataCreateInvoice(c)
    BY <2>1, <2>2, MakeLinkStep DEF WataCreateInvoice
  <2>3. CASE PlategaCreateInvoice(c)
    BY <2>1, <2>3, MakeLinkStep DEF PlategaCreateInvoice
  <2>4. CASE TelegramCreateInvoice(c)
    BY <2>1, <2>4, MakeLinkStep DEF TelegramCreateInvoice
  <2> QED
    BY <1>2, <2>2, <2>3, <2>4
<1>3. ASSUME NEW c \in Callers, ProviderFails(c) \/ UpdateExternalID(c) \/ ReplyWithLink(c)
      PROVE  IInv'
  BY <1>3, FailStep, UpdateStep, ReplyStep
<1>4. ASSUME RotateKey \/ KeyExpires \/ TxHappens
      PROVE  IInv'
  BY <1>4, OutsideStep
<1>5. ASSUME NEW w \in Webhooks, HookArrives(w) \/ HookStep(w)
      PROVE  IInv'
  BY <1>5, ValidationStep, WebhookStep DEF HookStep
<1>6. ASSUME Crash PROVE IInv'
  BY <1>6, FailStep
<1>7. ASSUME UNCHANGED vars PROVE IInv'
  <2>1. /\ UNCHANGED <<row, call, links, held, txs, key, hook, acked, cache, faults>>
    BY <1>7 DEF vars, orders, outside, webhooks
  <2>2. TypeOK'
    BY <2>1 DEF IInv, TypeOK
  <2> QED
    BY <2>1, <2>2, QuietStep, InvoiceBounds DEF IInv, TypeOK, TxsGrow, CallsEnd, TxInv, HookInv, HookOK
<1> QED
  BY <1>1, <1>2, <1>3, <1>4, <1>5, <1>6, <1>7 DEF Next, HookArrives, TxHappens

LEMMA Invariant == Spec => []IInv
<1>1. Init => IInv
  BY InvInit
<1>2. IInv /\ [Next]_vars => IInv'
  BY InvStep
<1> QED
  BY <1>1, <1>2, PTL DEF Spec

-----------------------------------------------------------------------------
(* The theorems.                                                             *)

\* Rows, links, requests, webhooks and transactions are what the code keeps.
THEOREM TypeCorrect == Spec => []TypeOK
BY Invariant, PTL DEF IInv

\* A payment that counts as paid was charged, or at WATA authorised, on the
\* link CreateInvoice had made for it, and for no other payment, whatever
\* requests, webhooks, failures and restarts come in between.
THEOREM PaidIsCharged == Spec => []PaidWasCharged
<1>1. IInv => PaidWasCharged
  <2> SUFFICES ASSUME IInv, NEW p \in Payments, row[p] # None,
                      row[p].status \in {"paid_db_only", "paid"}
               PROVE  /\ row[p].by \in DOMAIN txs
                      /\ txs[row[p].by].link = row[p].ext
                      /\ \/ txs[row[p].by].state = "confirmed"
                         \/ txs[row[p].by].state = "authorized" /\ row[p].provider = "wata"
                      /\ links[row[p].ext] = [user |-> row[p].user, offer |-> row[p].offer,
                                              provider |-> row[p].provider]
                      /\ \A q \in Payments \ {p} : row[q] = None \/ row[q].ext # row[p].ext
    BY DEF PaidWasCharged
  <2>1. /\ row[p].by \in DOMAIN txs /\ txs[row[p].by].link = row[p].ext /\ Pays(row[p].by)
        /\ LinkFor(p, row[p].ext) /\ row[p].ext \in DOMAIN links
    BY DEF IInv, OrderInv, RowInv
  <2>2. links[row[p].ext].provider = row[p].provider
    BY <2>1 DEF LinkFor
  <2> QED
    BY <2>1, <2>2 DEF IInv, OrderInv, OneRow, Names, LinkFor, Pays
<1> QED
  BY <1>1, Invariant, PTL

\* The links customers hold that no row names are at most as many as the
\* failures: CreateInvoice hands out a link after UPDATE external_id, whose
\* failure it only logs.
THEOREM LinksAreKnown == Spec => []HeldLinksAreKnown
<1>1. IInv => HeldLinksAreKnown
  <2> SUFFICES ASSUME IInv PROVE HeldLinksAreKnown
    OBVIOUS
  <2> DEFINE H == {l \in held : /\ links[l].provider # "telegram_stars"
                                /\ \A p \in Payments : row[p] = None \/ row[p].ext # l}
  <2>1. H \subseteq Lost
    BY DEF IInv, TypeOK, Lost, External, Names
  <2>2. Cardinality(H) <= Cardinality(Lost) /\ Cardinality(H) \in Nat /\ Cardinality(Lost) \in Nat
    BY <2>1, LostFinite, FS_Subset, FS_CardinalityType DEF IInv
  <2>3. Cardinality(H) <= faults
    BY <2>2, InvoiceBounds DEF IInv, LostInv, TypeOK
  <2> QED
    BY <2>3 DEF HeldLinksAreKnown
<1> QED
  BY <1>1, Invariant, PTL

\* A charge whose webhook HandleWebhook answered with 200 is what its payment
\* was completed for, or one of WATA's that found it completed by another, or
\* cancelled by a declined attempt; with Platega there is no such exception.
THEOREM AckedIsHonoured == Spec => []AckedChargeIsHonoured
<1>1. IInv => AckedChargeIsHonoured
  BY DEF IInv, Honoured, AckedChargeIsHonoured
<1> QED
  BY <1>1, Invariant, PTL

\* ValidateWebhook turns away a webhook signed with WATA's present key only
\* when a call fails: the key fetched for it cannot be older than its own.
THEOREM CurrentKey == Spec => CurrentKeyIsAccepted
<1> DEFINE A == \A w \in Webhooks :
                    (/\ hook[w] # None /\ hook'[w] = None /\ hook[w].pc # "apply"
                     /\ faults' = faults) => hook[w].sig # key
<1>1. IInv /\ [Next]_vars => [A]_vars
  <2> SUFFICES ASSUME IInv, [Next]_vars,
                      NEW w \in Webhooks, hook[w] # None, hook'[w] = None,
                      hook[w].pc # "apply", faults' = faults
               PROVE  hook[w].sig # key
    OBVIOUS
  <2>1. ~Fault
    BY InvoiceBounds DEF Fault, IInv, TypeOK
  <2>2. hook' # hook
    OBVIOUS
  <2>3. PICK v \in Webhooks : HookArrives(v) \/ HookStep(v)
    BY <2>1, <2>2 DEF Next, vars, orders, outside, webhooks, CreatePending, WataCreateInvoice,
         PlategaCreateInvoice, TelegramCreateInvoice, MakeLink, ProviderFails, UpdateExternalID,
         ReplyWithLink, Attempt, Settle, RotateKey, KeyExpires, Crash, HookArrives
  <2>4. PICK h \in {None} \cup Hook : hook' = [hook EXCEPT ![v] = h]
    BY <2>3, HookEffect DEF IInv
  <2>5. v = w /\ h = None
    BY <2>4, HookMoves DEF IInv
  <2>6. StorePublicKey(w)
    <3>1. ~HookArrives(w)
      BY DEF HookArrives, WataWebhook, PlategaWebhook, TelegramWebhook, Deliver
    <3>2. ~HandleWebhook(w)
      BY DEF HandleWebhook, At
    <3>3. ~FetchPublicKey(w)
      <4>1. SUFFICES ASSUME FetchPublicKey(w) PROVE FALSE
        OBVIOUS
      <4> DEFINE g == [hook[w] EXCEPT !.pc = "store", !.got = key]
      <4>a. hook[w] \in Hook /\ key \in 1 .. MaxKey
        BY FieldFacts DEF IInv, TypeOK
      <4>2. g \in Hook
        BY <4>a DEF Hook
      <4>3. hook' = [hook EXCEPT ![w] = g]
        BY <4>1, <2>1 DEF FetchPublicKey, IInv, TypeOK
      <4> QED
        BY <4>2, <4>3, HookMoves, NoneAssumption DEF IInv
    <3> QED
      BY <2>3, <2>5, <3>1, <3>2, <3>3 DEF HookStep
  <2>7. ~(hook[w].sig = hook[w].got)
    <3>1. SUFFICES ASSUME hook[w].sig = hook[w].got PROVE FALSE
      OBVIOUS
    <3>2. hook' = [hook EXCEPT ![w] = Valid(hook[w].tx)]
      BY <3>1, <2>6 DEF StorePublicKey, IInv, TypeOK
    <3>3. Valid(hook[w].tx) \in Hook
      BY FieldFacts DEF IInv, Hook, Valid
    <3> QED
      BY <3>2, <3>3, HookMoves, NoneAssumption DEF IInv
  <2>8. /\ hook[w].sig \in Nat /\ hook[w].got \in Nat
        /\ hook[w].sig <= hook[w].got /\ hook[w].got <= key
    BY <2>6 DEF StorePublicKey, At, IInv, HookInv, HookOK
  <2> QED
    BY <2>7, <2>8, InvoiceBounds DEF IInv, TypeOK
<1>2. Spec => [][A]_vars
  BY <1>1, Invariant, PTL DEF Spec
<1> QED
  BY <1>2 DEF CurrentKeyIsAccepted

=============================================================================
