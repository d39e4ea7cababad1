--------------------------- MODULE Broadcast_proofs ---------------------------
(***************************************************************************)
(* Theorems about Broadcast, for any users, requests, segments' intervals, *)
(* drafts and numbers of failures.                                         *)
(*                                                                         *)
(* A draft has one sender: its status moves one way, and each move is an   *)
(* UPDATE that only one request wins.  What the sender knows of its draft, *)
(* nobody else changes, so every claim about a recipient is settled when   *)
(* the sender has tried him.                                               *)
(***************************************************************************)
EXTENDS Broadcast, SequenceTheorems, FiniteSetTheorems, TLAPS

LEMMA PlaceFacts ==
    ASSUME NEW p \in Places
    PROVE  p[1] \in Users /\ p[2] \in 1 .. MaxRows
BY DEF Places

LEMMA FourSegments == Len(Segments) = 4
BY DEF Segments

LEMMA NowFacts ==
    ASSUME TypeOK
    PROVE  now \in Nat /\ now \in 0 .. now
BY BroadcastBounds DEF TypeOK

LEMMA DraftFacts ==
    ASSUME TypeOK
    PROVE  /\ Len(drafts) \in Nat /\ DOMAIN drafts = 1 .. Len(drafts)
           /\ None \notin DOMAIN drafts
           /\ \A d \in DOMAIN drafts :
                 /\ drafts[d] \in Draft /\ d \in Nat
                 /\ drafts[d].seg \in 1 .. 4 /\ drafts[d].to \in SUBSET Places
                 /\ drafts[d].to \in Recipients
                 /\ drafts[d].status \in Statuses /\ drafts[d].text \in Nat
                 /\ drafts[d].at \in Nat /\ drafts[d].tick \in Nat
                 /\ drafts[d].moved \in SUBSET Users
<1>1. drafts \in Seq(Draft)
  BY DEF TypeOK
<1>2. Len(drafts) \in Nat /\ DOMAIN drafts = 1 .. Len(drafts) /\ drafts \in [1 .. Len(drafts) -> Draft]
  BY <1>1, LenProperties
<1> QED
  BY <1>2, NoneAssumption, FourSegments DEF Draft, Recipients

\* UPDATE of one draft, INSERT of one.
LEMMA DraftWritten ==
    ASSUME TypeOK, NEW d \in DOMAIN drafts, NEW r \in Draft, drafts' = [drafts EXCEPT ![d] = r]
    PROVE  /\ drafts' \in Seq(Draft) /\ Len(drafts') = Len(drafts) /\ DOMAIN drafts' = DOMAIN drafts
           /\ drafts'[d] = r /\ \A c \in DOMAIN drafts \ {d} : drafts'[c] = drafts[c]
<1>1. d \in 1 .. Len(drafts) /\ drafts \in Seq(Draft) /\ DOMAIN drafts = 1 .. Len(drafts)
  BY DraftFacts DEF TypeOK
<1>2. drafts' \in Seq(Draft) /\ Len(drafts') = Len(drafts)
  BY <1>1, ExceptSeq
<1> QED
  BY <1>1, <1>2, ExceptSeq

LEMMA DraftAppended ==
    ASSUME TypeOK, NEW r \in Draft, drafts' = Append(drafts, r)
    PROVE  /\ drafts' \in Seq(Draft) /\ Len(drafts') = Len(drafts) + 1
           /\ DOMAIN drafts' = DOMAIN drafts \cup {Len(drafts) + 1}
           /\ Len(drafts) + 1 \notin DOMAIN drafts
           /\ drafts'[Len(drafts) + 1] = r /\ \A d \in DOMAIN drafts : drafts'[d] = drafts[d]
BY DraftFacts DEF TypeOK

\* UpdateDraftStatus writes one field of one draft, if it finds the status.
LEMMA StatusWritten ==
    ASSUME TypeOK, NEW d \in DOMAIN drafts, NEW from \in Statuses, NEW to \in Statuses,
           drafts' = UpdateDraftStatus(d, from, to), drafts[d].status = from
    PROVE  \E r \in Draft : /\ r.seg = drafts[d].seg /\ r.to = drafts[d].to /\ r.text = drafts[d].text
                            /\ r.at = drafts[d].at /\ r.tick = drafts[d].tick
                            /\ r.moved = drafts[d].moved /\ r.status = to
                            /\ drafts' = [drafts EXCEPT ![d] = r]
<1> DEFINE r == [drafts[d] EXCEPT !.status = to]
<1>1. drafts[d] \in Draft
  BY DraftFacts
<1>2. /\ r \in Draft /\ r.seg = drafts[d].seg /\ r.to = drafts[d].to /\ r.text = drafts[d].text
      /\ r.at = drafts[d].at /\ r.tick = drafts[d].tick
      /\ r.moved = drafts[d].moved /\ r.status = to
  BY <1>1 DEF Draft
<1>3. drafts' = [drafts EXCEPT ![d] = r]
  BY DEF UpdateDraftStatus
<1> QED
  BY <1>2, <1>3

LEMMA ReqFacts ==
    ASSUME TypeOK, NEW h \in Requests, req[h] # None
    PROVE  /\ req[h] \in Request /\ req[h].pc \in {"approve", "send", "loop"}
           /\ req[h].draft \in DOMAIN drafts /\ req[h].draft \in Nat /\ req[h].text \in Nat
           /\ req[h].todo \in SUBSET Places /\ req[h].todo \subseteq drafts[req[h].draft].to
           /\ req[h].row \in Result \cup {None}
           /\ req[h].row # None => /\ req[h].row.to \in Places
                                   /\ req[h].row.status \in {"sent", "blocked", "failed"}
                                   /\ req[h].row = [to |-> req[h].row.to,
                                                    status |-> req[h].row.status]
<1>1. req[h] \in Request /\ req[h].draft \in DOMAIN drafts /\ req[h].todo \subseteq drafts[req[h].draft].to
  BY DEF TypeOK
<1> QED
  BY <1>1 DEF Request, Result

LEMMA ReqMoves ==
    ASSUME TypeOK, NEW h \in Requests, NEW t \in Request \cup {None}, req' = [req EXCEPT ![h] = t]
    PROVE  /\ req' \in [Requests -> Request \cup {None}]
           /\ req'[h] = t /\ \A g \in Requests \ {h} : req'[g] = req[g]
BY DEF TypeOK

LEMMA InFlightFacts ==
    ASSUME TypeOK
    PROVE  \A d : d \in inFlight <=> \E h \in Requests : At(h, "loop") /\ req[h].draft = d
BY DEF TypeOK

\* The next run is later than now.
LEMMA NextRunFacts ==
    ASSUME NEW t \in Nat
    PROVE  NextRun(t) \in Nat /\ NextRun(t) > t
<1>1. Day \in Nat /\ Day > 0
  BY BroadcastAssumption
<1>2. t % Day \in 0 .. Day - 1
  BY <1>1
<1>3. t % Day <= t
  BY <1>1, SMTT(30)
<1> QED
  BY <1>1, <1>2, <1>3 DEF NextRun

LEMMA NextSegmentFacts ==
    ASSUME TypeOK, NextSegment, cron.seg # 0
    PROVE  /\ cron' \in Cron /\ cron'.picked = None
           /\ \/ cron'.seg = 0 /\ cron'.due = NextRun(now)
              \/ /\ cron'.seg = cron.seg + 1 /\ cron'.due = cron.due /\ cron'.moved = cron.moved
<1>1. cron \in Cron /\ now \in Nat /\ cron.seg \in 0 .. 4
  BY FourSegments, BroadcastBounds DEF TypeOK, Cron
<1>2. CASE cron.seg < 4
  <2> DEFINE c == [cron EXCEPT !.seg = cron.seg + 1, !.picked = None, !.at = 0]
  <2>0. cron.seg + 1 \in 0 .. Len(Segments) /\ 0 \in Nat /\ None \in Recipients \cup {None}
    BY <1>1, <1>2, FourSegments
  <2>1. /\ c \in Cron /\ c.picked = None /\ c.seg = cron.seg + 1 /\ c.due = cron.due
        /\ c.moved = cron.moved
    BY <1>1, <2>0 DEF Cron
  <2>2. cron' = c
    BY <1>1, <1>2, FourSegments DEF NextSegment
  <2> QED
    BY <2>1, <2>2
<1>3. CASE cron.seg = 4
  BY <1>1, <1>3, FourSegments, NextRunFacts DEF NextSegment, Sleeping, Cron
<1> QED
  BY <1>1, <1>2, <1>3

-----------------------------------------------------------------------------
(* One sender for a draft, and what it knows.                                *)

Sender(h) == req[h] # None /\ req[h].pc \in {"send", "loop"}
SentTo(d, p) == \E m \in msgs : m.draft = d /\ m.to = p
LoggedFor(d, p) == \E s \in sends : s.draft = d /\ s.to = p
HasEntry(d, u) == \E s \in sends : s.draft = d /\ s.to[1] = u
Begun(d) == drafts[d].status \in {"sending", "sent"}

OneSender == \A g, h \in Requests : Sender(g) /\ Sender(h) /\ req[g].draft = req[h].draft => g = h

\* A sender's draft is in the status that makes it its own, and a place still
\* to be tried has had no message and has no entry.
SenderInv(h) ==
    /\ At(h, "approve") \/ At(h, "send") => req[h].row = None
    /\ At(h, "send") => drafts[req[h].draft].status = "approved"
    /\ At(h, "loop") =>
          /\ drafts[req[h].draft].status = "sending"
          /\ req[h].text = drafts[req[h].draft].text
          /\ req[h].row # None => req[h].row.to \in req[h].todo
          /\ \A p \in req[h].todo :
                /\ ~LoggedFor(req[h].draft, p)
                /\ req[h].row = None \/ req[h].row.to # p => ~SentTo(req[h].draft, p)

Untouched == \A d \in DOMAIN drafts, p \in Places : ~Begun(d) => ~SentTo(d, p) /\ ~LoggedFor(d, p)

MsgsOK == /\ \A m \in msgs : /\ m.nr = 1 /\ Begun(m.draft) /\ m.text = drafts[m.draft].text
                             /\ m.to \in drafts[m.draft].to
          /\ \A m, n \in msgs : m.draft = n.draft /\ m.to = n.to => m = n

SendInv == OneSender /\ (\A h \in Requests : SenderInv(h)) /\ Untouched /\ MsgsOK

\* Requests end, or nothing about broadcasts happens.
LEMMA SendAside ==
    ASSUME TypeOK, TypeOK', SendInv, drafts' = drafts, sends' = sends, msgs' = msgs,
           \A h \in Requests : req'[h] \in {req[h], None}
    PROVE  SendInv'
<1>1. OneSender'
  BY DEF SendInv, OneSender, Sender
<1>2. ASSUME NEW h \in Requests PROVE SenderInv(h)'
  <2>1. SenderInv(h) /\ req'[h] \in {req[h], None}
    BY DEF SendInv
  <2> QED
    BY <2>1 DEF SenderInv, At, LoggedFor, SentTo
<1>3. Untouched' /\ MsgsOK'
  BY DEF SendInv, Untouched, MsgsOK, LoggedFor, SentTo, Begun
<1> QED
  BY <1>1, <1>2, <1>3 DEF SendInv

LEMMA SendInserted ==
    ASSUME TypeOK, TypeOK', SendInv, NEW r \in Draft, drafts' = Append(drafts, r),
           req' = req, sends' = sends, msgs' = msgs
    PROVE  SendInv'
<1>1. /\ DOMAIN drafts' = DOMAIN drafts \cup {Len(drafts) + 1}
      /\ Len(drafts) + 1 \notin DOMAIN drafts
      /\ \A d \in DOMAIN drafts : drafts'[d] = drafts[d]
  BY DraftAppended
<1>m. /\ \A m \in msgs : m.draft \in DOMAIN drafts
      /\ \A s \in sends : s.draft \in DOMAIN drafts
  BY DEF TypeOK
<1>2. OneSender'
  BY DEF SendInv, OneSender, Sender
<1>3. ASSUME NEW h \in Requests PROVE SenderInv(h)'
  <2>1. SenderInv(h) /\ (req[h] # None => req[h].draft \in DOMAIN drafts)
    BY ReqFacts DEF SendInv
  <2> QED
    BY <2>1, <1>1 DEF SenderInv, At, LoggedFor, SentTo
<1>4. Untouched'
  BY <1>1, <1>m DEF SendInv, Untouched, LoggedFor, SentTo, Begun
<1>5. MsgsOK'
  BY <1>1, <1>m DEF SendInv, MsgsOK, Begun
<1> QED
  BY <1>2, <1>3, <1>4, <1>5 DEF SendInv

\* An administrator edits or cancels a draft that is still a draft.
LEMMA SendEdited ==
    ASSUME TypeOK, TypeOK', SendInv, NEW d \in DOMAIN drafts, drafts[d].status = "draft",
           NEW r \in Draft, r.status \in {"draft", "cancelled"},
           drafts' = [drafts EXCEPT ![d] = r],
           req' = req, sends' = sends, msgs' = msgs
    PROVE  SendInv'
<1>1. /\ DOMAIN drafts' = DOMAIN drafts
      /\ drafts'[d] = r /\ \A c \in DOMAIN drafts \ {d} : drafts'[c] = drafts[c]
  BY DraftWritten
<1>m. \A m \in msgs : m.draft \in DOMAIN drafts /\ m.draft # d
  BY DEF TypeOK, SendInv, MsgsOK, Begun
<1>2. OneSender'
  BY DEF SendInv, OneSender, Sender
<1>3. ASSUME NEW h \in Requests PROVE SenderInv(h)'
  <2>1. SenderInv(h) /\ (req[h] # None => req[h].draft \in DOMAIN drafts)
    BY ReqFacts DEF SendInv
  <2>2. At(h, "send") \/ At(h, "loop") => drafts'[req[h].draft] = drafts[req[h].draft]
    BY <2>1, <1>1 DEF SenderInv, At
  <2> QED
    BY <2>1, <2>2 DEF SenderInv, At, LoggedFor, SentTo
<1>4. Untouched'
  BY <1>1 DEF SendInv, Untouched, LoggedFor, SentTo, Begun
<1>5. MsgsOK'
  BY <1>1, <1>m DEF SendInv, MsgsOK, Begun
<1> QED
  BY <1>2, <1>3, <1>4, <1>5 DEF SendInv

\* ApproveBroadcast begins.
LEMMA SendRead ==
    ASSUME TypeOK, TypeOK', SendInv, NEW h \in Requests, NEW t \in Request,
           t.pc = "approve", t.row = None, req' = [req EXCEPT ![h] = t], req[h] = None,
           drafts' = drafts, sends' = sends, msgs' = msgs
    PROVE  SendInv'
<1>1. req'[h] = t /\ \A g \in Requests \ {h} : req'[g] = req[g]
  BY ReqMoves
<1>2. OneSender'
  BY <1>1 DEF SendInv, OneSender, Sender
<1>3. ASSUME NEW g \in Requests PROVE SenderInv(g)'
  BY <1>1 DEF SendInv, SenderInv, At, LoggedFor, SentTo
<1>4. Untouched' /\ MsgsOK'
  BY DEF SendInv, Untouched, MsgsOK, LoggedFor, SentTo, Begun
<1> QED
  BY <1>2, <1>3, <1>4 DEF SendInv

\* The draft of a sender changes with it: from draft to approved, from approved
\* to sending, from sending to sent.
LEMMA SendAdvances ==
    ASSUME TypeOK, TypeOK', SendInv, NEW h \in Requests, NEW t \in Request \cup {None},
           NEW d \in DOMAIN drafts, NEW r \in Draft,
           req[h] # None, req[h].draft = d, t # None => t.draft = d /\ t.row = None,
           req' = [req EXCEPT ![h] = t], drafts' = [drafts EXCEPT ![d] = r],
           sends' = sends, msgs' = msgs, r.text = drafts[d].text, r.to = drafts[d].to,
           \/ /\ drafts[d].status = "draft" /\ r.status = "approved"
              /\ t # None /\ t.pc = "send"
           \/ /\ drafts[d].status = "approved" /\ r.status = "sending" /\ Sender(h)
              /\ t # None /\ t.pc = "loop" /\ t.text = drafts[d].text
           \/ /\ drafts[d].status = "sending" /\ r.status = "sent" /\ Sender(h) /\ t = None
    PROVE  SendInv'
<1>1. req'[h] = t /\ \A g \in Requests \ {h} : req'[g] = req[g]
  BY ReqMoves
<1>2. /\ DOMAIN drafts' = DOMAIN drafts
      /\ drafts'[d] = r /\ \A c \in DOMAIN drafts \ {d} : drafts'[c] = drafts[c]
  BY DraftWritten
<1>3. \A g \in Requests \ {h} : Sender(g) => req[g].draft # d
  BY DEF SendInv, OneSender, SenderInv, Sender, At
<1>4. OneSender'
  BY <1>1, <1>3 DEF SendInv, OneSender, Sender
<1>5. ASSUME NEW g \in Requests \ {h} PROVE SenderInv(g)'
  <2>1. SenderInv(g) /\ (req[g] # None => req[g].draft \in DOMAIN drafts) /\ req'[g] = req[g]
    BY <1>1, ReqFacts DEF SendInv
  <2>2. At(g, "send") \/ At(g, "loop") => drafts'[req[g].draft] = drafts[req[g].draft]
    BY <2>1, <1>2, <1>3 DEF Sender, At
  <2> QED
    BY <2>1, <2>2 DEF SenderInv, At, LoggedFor, SentTo
<1>6. SenderInv(h)'
  <2>1. CASE t = None
    BY <2>1, <1>1 DEF SenderInv, At
  <2>2. CASE t # None /\ t.pc = "send"
    BY <2>2, <1>1, <1>2 DEF SenderInv, At
  <2>3. CASE /\ drafts[d].status = "approved" /\ r.status = "sending"
             /\ t # None /\ t.pc = "loop" /\ t.text = drafts[d].text
    <3>1. \A p \in Places : ~SentTo(d, p) /\ ~LoggedFor(d, p)
      BY <2>3 DEF SendInv, Untouched, Begun
    <3>2. t.todo \in SUBSET Places
      BY <2>3 DEF Request
    <3>3. \A p \in Places : ~SentTo(d, p)' /\ ~LoggedFor(d, p)'
      BY <3>1 DEF SentTo, LoggedFor
    <3> QED
      BY <2>3, <3>2, <3>3, <1>1, <1>2 DEF SenderInv, At
  <2> QED
    BY <2>1, <2>2, <2>3
<1>7. Untouched'
  BY <1>2 DEF SendInv, Untouched, LoggedFor, SentTo, Begun
<1>8. MsgsOK'
  <2>1. \A m \in msgs : m.draft \in DOMAIN drafts
    BY DEF TypeOK
  <2> QED
    BY <2>1, <1>2 DEF SendInv, MsgsOK, Begun
<1> QED
  BY <1>4, <1>5, <1>6, <1>7, <1>8 DEF SendInv

\* sendOne: the sender gets a row to log; at most one message arrives.
LEMMA SendOneEffect ==
    ASSUME TypeOK, SendInv, NEW h \in Requests, NEW p \in Places, SendOne(h, p)
    PROVE  /\ req[h] # None /\ req[h].pc = "loop" /\ req[h].row = None /\ p \in req[h].todo
           /\ ~SentTo(req[h].draft, p) /\ ~LoggedFor(req[h].draft, p)
           /\ \E t \in Request, r \in Result :
                 /\ req' = [req EXCEPT ![h] = t]
                 /\ t.pc = "loop" /\ t.draft = req[h].draft /\ t.text = req[h].text
                 /\ t.todo = req[h].todo /\ t.row = r /\ r # None /\ r.to = p
                 /\ (faults' # faults \/ msgs' = msgs \/ r.status = "sent")
           /\ \/ msgs' = msgs
              \/ msgs' = msgs \cup {[draft |-> req[h].draft, to |-> p, at |-> now,
                                     text |-> req[h].text, nr |-> 1]}
           /\ faults' = faults \/ Fault
<1>1. /\ req[h] # None /\ req[h].pc = "loop" /\ req[h].row = None /\ p \in req[h].todo
      /\ req[h] \in Request
  BY ReqFacts DEF SendOne, At
<1>2. ~SentTo(req[h].draft, p) /\ ~LoggedFor(req[h].draft, p)
  BY <1>1 DEF SendInv, SenderInv, At
<1> DEFINE sent == {m \in msgs : m.draft = req[h].draft /\ m.to = p}
<1>3. Cardinality(sent) + 1 = 1
  <2>1. sent = {}
    BY <1>2 DEF SentTo
  <2> HIDE DEF sent
  <2>2. Cardinality(sent) = 0
    BY <2>1, FS_EmptySet
  <2> QED
    BY <2>2
<1> HIDE DEF sent
<1>4. PICK r \in Result, arrives \in BOOLEAN :
          /\ r.to = p
          /\ IF users[p[1]].banned THEN r.status = "failed" /\ ~arrives ELSE Outcome(r.status, arrives)
          /\ IF r.status = "failed" /\ ~users[p[1]].banned THEN Fault ELSE UNCHANGED faults
          /\ msgs' = IF arrives
                     THEN msgs \cup {[draft |-> req[h].draft, to |-> p, at |-> now,
                                      text |-> req[h].text, nr |-> Cardinality(sent) + 1]}
                     ELSE msgs
          /\ req' = [req EXCEPT ![h].row = r]
  BY DEF SendOne, Result, sent
<1>5. \/ msgs' = msgs
      \/ msgs' = msgs \cup {[draft |-> req[h].draft, to |-> p, at |-> now,
                             text |-> req[h].text, nr |-> 1]}
  BY <1>3, <1>4
<1>6. faults' # faults \/ msgs' = msgs \/ r.status = "sent"
  <2>1. Fault => faults' # faults
    BY DEF Fault, TypeOK
  <2> QED
    BY <1>4, <2>1 DEF Outcome
<1>7. faults' = faults \/ Fault
  BY <1>4
<1> DEFINE t == [req[h] EXCEPT !.row = r]
<1>8. /\ t \in Request /\ t.pc = "loop" /\ t.draft = req[h].draft /\ t.text = req[h].text
      /\ t.todo = req[h].todo /\ t.row = r
  BY <1>1 DEF Request
<1>9. req' = [req EXCEPT ![h] = t]
  BY <1>1, <1>4 DEF TypeOK
<1>10. r # None /\ r.to = p
  BY <1>4, NoneAssumption
<1> HIDE DEF t
<1>11. \E q \in Request, s \in Result :
                 /\ req' = [req EXCEPT ![h] = q]
                 /\ q.pc = "loop" /\ q.draft = req[h].draft /\ q.text = req[h].text
                 /\ q.todo = req[h].todo /\ q.row = s /\ s # None /\ s.to = p
                 /\ (faults' # faults \/ msgs' = msgs \/ s.status = "sent")
  BY <1>6, <1>8, <1>9, <1>10
<1> QED
  BY <1>1, <1>2, <1>5, <1>7, <1>11

LEMMA SendTries ==
    ASSUME TypeOK, TypeOK', SendInv, NEW h \in Requests, NEW p \in Places, SendOne(h, p)
    PROVE  SendInv'
<1>1. PICK t \in Request, r \in Result :
                 /\ req' = [req EXCEPT ![h] = t]
                 /\ t.pc = "loop" /\ t.draft = req[h].draft /\ t.text = req[h].text
                 /\ t.todo = req[h].todo /\ t.row = r /\ r # None /\ r.to = p
  BY SendOneEffect
<1>2. /\ req[h] # None /\ req[h].pc = "loop" /\ p \in req[h].todo
      /\ ~SentTo(req[h].draft, p) /\ ~LoggedFor(req[h].draft, p)
      /\ drafts' = drafts /\ sends' = sends
  <2>1. drafts' = drafts /\ sends' = sends
    BY DEF SendOne
  <2> QED
    BY <2>1, SendOneEffect
<1>3. req'[h] = t /\ t # None /\ \A g \in Requests \ {h} : req'[g] = req[g]
  BY <1>1, ReqMoves, NoneAssumption
<1>d. PICK d \in DOMAIN drafts : d = req[h].draft /\ p \in drafts[d].to
  BY <1>2, ReqFacts
<1>s. drafts[d].status = "sending" /\ SenderInv(h) /\ At(h, "loop") /\ req[h].text = drafts[d].text
  BY <1>2, <1>d DEF SendInv, SenderInv, At
<1>4. \A c, v : SentTo(c, v)' => SentTo(c, v) \/ (c = d /\ v = p)
  BY <1>d, SendOneEffect DEF SentTo
<1>5. OneSender'
  <2>1. \A g \in Requests : Sender(g)' = Sender(g) /\ (Sender(g) => req'[g].draft = req[g].draft)
    BY <1>1, <1>2, <1>3 DEF Sender
  <2> QED
    BY <2>1 DEF SendInv, OneSender
<1>6. ASSUME NEW g \in Requests \ {h} PROVE SenderInv(g)'
  <2>1. SenderInv(g) /\ req'[g] = req[g] /\ (At(g, "loop") => req[g].draft # d)
    BY <1>2, <1>3, <1>d DEF SendInv, OneSender, Sender, At
  <2> QED
    BY <2>1, <1>2, <1>4 DEF SenderInv, At, LoggedFor
<1>7. SenderInv(h)'
  <2>1. \A v \in t.todo : ~LoggedFor(d, v)' /\ (v # p => ~SentTo(d, v)')
    BY <1>1, <1>2, <1>4, <1>d, <1>s, SendOneEffect DEF SenderInv, LoggedFor
  <2> QED
    BY <2>1, <1>1, <1>2, <1>3, <1>d, <1>s DEF SenderInv, At
<1>8. Untouched'
  BY <1>2, <1>4, <1>s DEF SendInv, Untouched, LoggedFor, Begun
<1>9. MsgsOK'
  <2>1. CASE msgs' = msgs
    BY <2>1, <1>2 DEF SendInv, MsgsOK, Begun
  <2>2. CASE msgs' = msgs \cup {[draft |-> req[h].draft, to |-> p, at |-> now,
                                 text |-> req[h].text, nr |-> 1]}
    <3> DEFINE n == [draft |-> d, to |-> p, at |-> now, text |-> req[h].text, nr |-> 1]
    <3>1. msgs' = msgs \cup {n}
      BY <2>2, <1>d
    <3>2. n.draft = d /\ n.to = p /\ n.text = drafts[d].text /\ n.nr = 1
      BY <1>s
    <3> HIDE DEF n
    <3>3. \A m \in msgs : ~(m.draft = d /\ m.to = p)
      BY <1>2, <1>d DEF SentTo
    <3>4. \A m \in msgs' : /\ m.nr = 1 /\ Begun(m.draft) /\ m.text = drafts[m.draft].text
                           /\ m.to \in drafts[m.draft].to
      BY <3>1, <3>2, <1>d, <1>s DEF SendInv, MsgsOK, Begun
    <3>5. \A m, k \in msgs' : m.draft = k.draft /\ m.to = k.to => m = k
      BY <3>1, <3>2, <3>3 DEF SendInv, MsgsOK
    <3> QED
      BY <3>4, <3>5, <1>2 DEF MsgsOK, Begun
  <2> QED
    BY <2>1, <2>2, SendOneEffect
<1> QED
  BY <1>5, <1>6, <1>7, <1>8, <1>9 DEF SendInv

\* The entry in the log, or a failure, or the user has his entry for another
\* place; this one is not tried again.
LEMMA InsertSendEffect ==
    ASSUME TypeOK, SendInv, NEW h \in Requests, InsertSend(h)
    PROVE  /\ req[h] # None /\ req[h].pc = "loop" /\ req[h].row # None
           /\ req[h].row.to \in req[h].todo /\ ~LoggedFor(req[h].draft, req[h].row.to)
           /\ \E t \in Request :
                 /\ req' = [req EXCEPT ![h] = t]
                 /\ t.pc = "loop" /\ t.draft = req[h].draft /\ t.text = req[h].text
                 /\ t.todo = req[h].todo \ {req[h].row.to} /\ t.row = None
           /\ \/ Fault /\ sends' = sends
              \/ /\ faults' = faults /\ sends' = sends
                 /\ HasEntry(req[h].draft, req[h].row.to[1])
              \/ /\ faults' = faults /\ ~HasEntry(req[h].draft, req[h].row.to[1])
                 /\ sends' = sends \cup {[draft |-> req[h].draft, to |-> req[h].row.to,
                                          status |-> req[h].row.status, at |-> now]}
<1>1. /\ req[h] # None /\ req[h].pc = "loop" /\ req[h].row # None
      /\ req[h] \in Request
  BY ReqFacts DEF InsertSend, At
<1>2. req[h].row.to \in req[h].todo /\ ~LoggedFor(req[h].draft, req[h].row.to)
  BY <1>1 DEF SendInv, SenderInv, At
<1> DEFINE t == [req[h] EXCEPT !.todo = req[h].todo \ {req[h].row.to}, !.row = None]
<1>3. /\ t \in Request /\ t.pc = "loop" /\ t.draft = req[h].draft /\ t.text = req[h].text
      /\ t.todo = req[h].todo \ {req[h].row.to} /\ t.row = None
  BY <1>1 DEF Request
<1>4. req' = [req EXCEPT ![h] = t]
  BY <1>1 DEF InsertSend, TypeOK
<1> HIDE DEF t
<1>5. \/ Fault /\ sends' = sends
      \/ faults' = faults /\ sends' = sends /\ HasEntry(req[h].draft, req[h].row.to[1])
      \/ /\ faults' = faults /\ ~HasEntry(req[h].draft, req[h].row.to[1])
         /\ sends' = sends \cup {[draft |-> req[h].draft, to |-> req[h].row.to,
                                  status |-> req[h].row.status, at |-> now]}
  BY DEF InsertSend, Logs, HasEntry
<1> QED
  BY <1>1, <1>2, <1>3, <1>4, <1>5

LEMMA SendLogs ==
    ASSUME TypeOK, TypeOK', SendInv, NEW h \in Requests, InsertSend(h)
    PROVE  SendInv'
<1>1. PICK t \in Request :
                 /\ req' = [req EXCEPT ![h] = t]
                 /\ t.pc = "loop" /\ t.draft = req[h].draft /\ t.text = req[h].text
                 /\ t.todo = req[h].todo \ {req[h].row.to} /\ t.row = None
  BY InsertSendEffect
<1>2. /\ req[h] # None /\ req[h].pc = "loop" /\ req[h].row # None
      /\ drafts' = drafts /\ msgs' = msgs
  BY InsertSendEffect DEF InsertSend
<1>3. req'[h] = t /\ t # None /\ \A g \in Requests \ {h} : req'[g] = req[g]
  BY <1>1, ReqMoves, NoneAssumption
<1>d. PICK d \in DOMAIN drafts, p \in Places : d = req[h].draft /\ p = req[h].row.to
  BY <1>2, ReqFacts
<1>s. drafts[d].status = "sending" /\ SenderInv(h) /\ At(h, "loop") /\ req[h].text = drafts[d].text
  BY <1>2, <1>d DEF SendInv, SenderInv, At
<1>4. \A c, v : LoggedFor(c, v)' => LoggedFor(c, v) \/ (c = d /\ v = p)
  BY <1>d, InsertSendEffect DEF LoggedFor
<1>5. OneSender'
  <2>1. \A g \in Requests : Sender(g)' = Sender(g) /\ (Sender(g) => req'[g].draft = req[g].draft)
    BY <1>1, <1>2, <1>3 DEF Sender
  <2> QED
    BY <2>1 DEF SendInv, OneSender
<1>6. ASSUME NEW g \in Requests \ {h} PROVE SenderInv(g)'
  <2>1. SenderInv(g) /\ req'[g] = req[g] /\ (At(g, "loop") => req[g].draft # d)
    BY <1>2, <1>3, <1>d DEF SendInv, OneSender, Sender, At
  <2> QED
    BY <2>1, <1>2, <1>4 DEF SenderInv, At, SentTo
<1>7. SenderInv(h)'
  <2>1. \A v \in t.todo : ~LoggedFor(d, v)' /\ ~SentTo(d, v)'
    BY <1>1, <1>2, <1>4, <1>d, <1>s DEF SenderInv, SentTo
  <2> QED
    BY <2>1, <1>1, <1>2, <1>3, <1>d, <1>s DEF SenderInv, At
<1>8. Untouched'
  BY <1>2, <1>4, <1>s DEF SendInv, Untouched, SentTo, Begun
<1>9. MsgsOK'
  BY <1>2 DEF SendInv, MsgsOK, Begun
<1> QED
  BY <1>5, <1>6, <1>7, <1>8, <1>9 DEF SendInv

-----------------------------------------------------------------------------
(* The rest of the invariant.                                                *)

\* A place that is done with and whose user has no entry: one failure each.
Silent(d, p) ==
    /\ p \in drafts[d].to /\ ~HasEntry(d, p[1])
    /\ \/ drafts[d].status = "sent"
       \/ \E h \in Requests : At(h, "loop") /\ req[h].draft = d /\ p \notin req[h].todo
SilentNow == {x \in (DOMAIN drafts) \X Places : Silent(x[1], x[2])}
LossInv == IsFiniteSet(SilentNow) /\ Cardinality(SilentNow) <= faults

\* Without failures, an approved draft has its sender.
Tended == faults = 0 =>
    \A d \in DOMAIN drafts : drafts[d].status \in {"approved", "sending"} =>
        \E h \in Requests : Sender(h) /\ req[h].draft = d

\* The drafts of the run in progress come from earlier segments, whose
\* condition their recipients still meet unless they have changed.
ThisTick(d) == cron.seg # 0 /\ drafts[d].tick = cron.due
StillMeets(ps, seg) == \A p \in ps : p[1] \notin cron.moved => Meets(seg, p)
TickInv ==
    /\ \A d \in DOMAIN drafts : drafts[d].tick <= now
    /\ cron.seg = 0 => cron.picked = None /\ \A d \in DOMAIN drafts : drafts[d].tick < cron.due
    /\ cron.seg # 0 => cron.due <= now
    /\ \A d \in DOMAIN drafts : ThisTick(d) =>
          drafts[d].seg < cron.seg /\ StillMeets(drafts[d].to, drafts[d].seg)
    /\ cron.picked # None => StillMeets(cron.picked, cron.seg)

\* A row is in one segment of a run only, unless its user has changed.
RowsAreDisjoint ==
    \A c, d \in DOMAIN drafts :
       c < d /\ drafts[c].tick = drafts[d].tick
          => \A p \in drafts[c].to \cap drafts[d].to : p[1] \in drafts[d].moved

\* Nobody selected at a time had had a message in the day before it.
SpacedFrom(at, u) ==
    \A s \in sends : s.to[1] = u /\ s.status = "sent" /\ s.at < at => s.at + Day <= at
SpacedInv ==
    /\ \A d \in DOMAIN drafts : /\ drafts[d].at <= now
                                /\ \A p \in drafts[d].to : SpacedFrom(drafts[d].at, p[1])
    /\ cron.picked # None => /\ cron.at <= now
                             /\ \A p \in cron.picked : SpacedFrom(cron.at, p[1])
    /\ \A m \in msgs : drafts[m.draft].at <= m.at

\* Without failures, a message has its entry or is about to get it, or its user
\* has the entry of another place.
Logged(m) == \E s \in sends : /\ s.draft = m.draft /\ s.to[1] = m.to[1] /\ s.status = "sent"
                              /\ m.at <= s.at
Elsewhere(m) == \E s \in sends : s.draft = m.draft /\ s.to[1] = m.to[1] /\ s.to # m.to
AtHand(m) == \E h \in Requests : /\ At(h, "loop") /\ req[h].draft = m.draft /\ req[h].row # None
                                 /\ req[h].row.to = m.to /\ req[h].row.status = "sent"
LogInv == faults = 0 => \A m \in msgs : Logged(m) \/ Elsewhere(m) \/ AtHand(m)

IInv == /\ TypeOK /\ SendInv /\ LossInv /\ Tended
        /\ TickInv /\ RowsAreDisjoint /\ SpacedInv /\ LogInv

\* Only the status and the text of a draft change.
DraftsKeep ==
    /\ DOMAIN drafts' = DOMAIN drafts
    /\ \A d \in DOMAIN drafts : /\ drafts'[d].seg = drafts[d].seg /\ drafts'[d].to = drafts[d].to
                                /\ drafts'[d].at = drafts[d].at /\ drafts'[d].tick = drafts[d].tick
                                /\ drafts'[d].moved = drafts[d].moved

\* Entries and messages are dated.
Dated == /\ sends \subseteq sends' /\ \A s \in sends' \ sends : s.at = now
         /\ msgs \subseteq msgs' /\ \A m \in msgs' \ msgs : m.at = now /\ m.draft \in DOMAIN drafts

\* The conditions of the segments depend on the user and on the time alone.
LEMMA SegmentStill ==
    ASSUME now' = now, NEW s, NEW p, users'[p[1]] = users[p[1]]
    PROVE  Meets(s, p)' <=> Meets(s, p)
BY DEF Meets, InSegment, SelectTrialNeverConnected, TrialEnding, SelectTrialEndingIdle,
       SelectTrialEndingActive, SelectPaidChurnRisk

\* Whoever has not changed since still meets his condition.
LEMMA MeetsStays ==
    ASSUME now' = now, NEW ps, NEW seg, StillMeets(ps, seg),
           cron.moved \subseteq cron'.moved,
           \A p \in ps : p[1] \notin cron'.moved => users'[p[1]] = users[p[1]]
    PROVE  \A p \in ps : p[1] \notin cron'.moved => Meets(seg, p)'
BY SegmentStill DEF StillMeets

LEMMA CronStill ==
    ASSUME IInv, TypeOK', now' = now, users' = users, cron' = cron, DraftsKeep, Dated
    PROVE  TickInv' /\ RowsAreDisjoint' /\ SpacedInv'
<1>1. TickInv'
  <2>2. TickInv
    BY DEF IInv
  <2>3. \A d \in DOMAIN drafts' : drafts'[d].tick <= now'
    BY <2>2 DEF TickInv, DraftsKeep
  <2>m. \A ps, seg : StillMeets(ps, seg) => StillMeets(ps, seg)'
    BY MeetsStays DEF StillMeets
  <2>4. \A d \in DOMAIN drafts : ThisTick(d)' =>
          drafts'[d].seg < cron'.seg /\ StillMeets(drafts[d].to, drafts[d].seg)'
    BY <2>2, <2>m DEF TickInv, ThisTick, DraftsKeep
  <2>5. cron'.picked # None => StillMeets(cron.picked, cron.seg)'
    BY <2>2, <2>m DEF TickInv
  <2> QED
    BY <2>2, <2>3, <2>4, <2>5 DEF TickInv, DraftsKeep
<1>2. RowsAreDisjoint'
  BY DEF IInv, RowsAreDisjoint, DraftsKeep
<1>t. now \in Nat /\ cron.at \in Nat
  BY BroadcastBounds DEF IInv, TypeOK, Cron
<1>3. ASSUME NEW at \in Nat, at <= now, NEW u, SpacedFrom(at, u)
      PROVE  SpacedFrom(at, u)'
  BY <1>3, <1>t DEF SpacedFrom, Dated
<1>4. ASSUME NEW d \in DOMAIN drafts
      PROVE  drafts'[d].at <= now' /\ \A p \in drafts'[d].to : SpacedFrom(drafts[d].at, p[1])'
  <2>1. drafts[d].at \in Nat /\ drafts[d].at <= now
    BY DraftFacts DEF IInv, SpacedInv
  <2>2. \A p \in drafts[d].to : SpacedFrom(drafts[d].at, p[1])
    BY DEF IInv, SpacedInv
  <2>3. \A p \in drafts[d].to : SpacedFrom(drafts[d].at, p[1])'
    BY <2>1, <2>2, <1>3 DEF DraftsKeep
  <2> QED
    BY <2>1, <2>3 DEF DraftsKeep
<1>5. cron'.picked # None => /\ cron'.at <= now'
                             /\ \A p \in cron'.picked : SpacedFrom(cron.at, p[1])'
  BY <1>3, <1>t DEF IInv, SpacedInv
<1>6. \A m \in msgs' : drafts'[m.draft].at <= m.at
  <2>1. \A m \in msgs : m.draft \in DOMAIN drafts
    BY DEF IInv, TypeOK
  <2> QED
    BY <2>1 DEF IInv, SpacedInv, DraftsKeep, Dated
<1>7. SpacedInv'
  BY <1>4, <1>5, <1>6 DEF SpacedInv, DraftsKeep
<1> QED
  BY <1>1, <1>2, <1>7

LEMMA LossStays ==
    ASSUME TypeOK, TypeOK', LossInv, faults' >= faults,
           \A d \in DOMAIN drafts', p \in Places : Silent(d, p)' => d \in DOMAIN drafts /\ Silent(d, p)
    PROVE  LossInv'
<1>1. SilentNow' \subseteq SilentNow
  BY DEF SilentNow
<1>2. IsFiniteSet(SilentNow') /\ Cardinality(SilentNow') <= Cardinality(SilentNow)
  BY <1>1, FS_Subset DEF LossInv
<1>3. Cardinality(SilentNow') \in Nat /\ Cardinality(SilentNow) \in Nat
  BY <1>2, FS_CardinalityType DEF LossInv
<1>4. faults \in Nat /\ faults' \in Nat
  BY DEF TypeOK
<1> QED
  BY <1>2, <1>3, <1>4 DEF LossInv

LEMMA LossOneMore ==
    ASSUME TypeOK, TypeOK', LossInv, faults' = faults + 1, NEW c, NEW v,
           \A d \in DOMAIN drafts', p \in Places :
               Silent(d, p)' => (d \in DOMAIN drafts /\ Silent(d, p)) \/ (d = c /\ p = v)
    PROVE  LossInv'
<1>1. SilentNow' \subseteq SilentNow \cup {<<c, v>>}
  <2>1. ASSUME NEW x \in SilentNow' PROVE x \in SilentNow \cup {<<c, v>>}
    <3>1. PICK d \in DOMAIN drafts', p \in Places : x = <<d, p>> /\ Silent(d, p)'
      BY <2>1 DEF SilentNow
    <3> QED
      BY <3>1 DEF SilentNow
  <2> QED
    BY <2>1
<1>2. /\ IsFiniteSet(SilentNow \cup {<<c, v>>})
      /\ Cardinality(SilentNow \cup {<<c, v>>}) <= Cardinality(SilentNow) + 1
      /\ Cardinality(SilentNow) \in Nat
  <2>1. Cardinality(SilentNow) \in Nat
    BY FS_CardinalityType DEF LossInv
  <2> QED
    BY <2>1, FS_AddElement DEF LossInv
<1>3. /\ IsFiniteSet(SilentNow')
      /\ Cardinality(SilentNow') <= Cardinality(SilentNow \cup {<<c, v>>})
  BY <1>1, <1>2, FS_Subset
<1>4. Cardinality(SilentNow') \in Nat /\ Cardinality(SilentNow \cup {<<c, v>>}) \in Nat
  BY <1>2, <1>3, FS_CardinalityType
<1>5. faults \in Nat
  BY DEF TypeOK
<1> QED
  BY <1>2, <1>3, <1>4, <1>5 DEF LossInv

LEMMA FaultFacts ==
    ASSUME TypeOK, Fault
    PROVE  /\ faults' = faults + 1 /\ faults' \in Nat /\ faults' # 0 /\ faults' # faults
           /\ moves + faults' <= MaxTrouble
BY BroadcastBounds DEF TypeOK, Fault

-----------------------------------------------------------------------------
(* Every step of an administrator or a sender keeps the invariant.           *)

\* The senders in the loop are the drafts in flight; who enters or leaves the
\* loop takes or frees its slot.
LEMMA SlotsStay ==
    ASSUME TypeOK, req' \in [Requests -> Request \cup {None}],
           \A h \in Requests : At(h, "loop")' = At(h, "loop") /\
                               (At(h, "loop") => req'[h].draft = req[h].draft)
    PROVE  inFlight = {req'[h].draft : h \in {g \in Requests : At(g, "loop")'}}
BY DEF TypeOK

\* A request that no message or entry hangs on moves; sends and messages stay.
LEMMA DeskStep ==
    ASSUME IInv, TypeOK', SendInv', now' = now, users' = users, cron' = cron,
           sends' = sends, msgs' = msgs, faults' = faults, DraftsKeep,
           \A h \in Requests : At(h, "loop") /\ req[h].row # None => req'[h] = req[h],
           \A d \in DOMAIN drafts, p \in Places : Silent(d, p)' => Silent(d, p),
           \A d \in DOMAIN drafts : drafts'[d].status \in {"approved", "sending"} =>
               \/ \E h \in Requests : Sender(h)' /\ req'[h].draft = d
               \/ /\ drafts[d].status \in {"approved", "sending"}
                  /\ \A h \in Requests : Sender(h) /\ req[h].draft = d => req'[h] = req[h]
    PROVE  IInv'
<1>1. TickInv' /\ RowsAreDisjoint' /\ SpacedInv'
  BY CronStill DEF Dated
<1>2. LossInv'
  BY LossStays DEF IInv, DraftsKeep, TypeOK
<1>3. Tended'
  <2> SUFFICES ASSUME faults = 0, NEW d \in DOMAIN drafts,
                      drafts'[d].status \in {"approved", "sending"}
               PROVE  \E h \in Requests : Sender(h)' /\ req'[h].draft = d
    BY DEF Tended, DraftsKeep
  <2> QED
    BY DEF IInv, Tended, Sender
<1>4. LogInv'
  <2>1. \A m : (Logged(m)' <=> Logged(m)) /\ (Elsewhere(m)' <=> Elsewhere(m))
    BY DEF Logged, Elsewhere
  <2>2. \A m : AtHand(m) => AtHand(m)'
    BY DEF AtHand, At
  <2> QED
    BY <2>1, <2>2 DEF IInv, LogInv
<1> QED
  BY <1>1, <1>2, <1>3, <1>4 DEF IInv

LEMMA ReadStep ==
    ASSUME IInv, NEW h \in Requests, NEW d \in DOMAIN drafts, ApproveBroadcast(h, d)
    PROVE  IInv'
<1> DEFINE t == [pc |-> "approve", draft |-> d, text |-> 0, todo |-> {}, row |-> None]
<1>1. t \in Request /\ t.pc = "approve" /\ t.row = None /\ t.draft = d /\ t.todo = {}
  BY DraftFacts DEF Request, IInv
<1>2. /\ req[h] = None /\ req' = [req EXCEPT ![h] = t]
      /\ UNCHANGED <<now, users, cron, drafts, sends, inFlight, msgs, moves, faults>>
  BY DEF ApproveBroadcast
<1> HIDE DEF t
<1>3. /\ req' \in [Requests -> Request \cup {None}]
      /\ req'[h] = t /\ t # None /\ \A g \in Requests \ {h} : req'[g] = req[g]
  BY <1>1, <1>2, ReqMoves, NoneAssumption DEF IInv
<1>l. \A g \in Requests : At(g, "loop")' = At(g, "loop") /\ (At(g, "loop") => req'[g] = req[g])
  BY <1>1, <1>2, <1>3 DEF At
<1>4. TypeOK'
  <2>1. inFlight' = {req'[g].draft : g \in {k \in Requests : At(k, "loop")'}}
    BY <1>2, <1>3, <1>l, SlotsStay DEF IInv
  <2> QED
    BY <2>1, <1>1, <1>2, <1>3, <1>l DEF IInv, TypeOK
<1>5. SendInv'
  BY <1>1, <1>2, <1>4, SendRead DEF IInv
<1>6. \A c, p : Silent(c, p)' => Silent(c, p)
  BY <1>2, <1>l DEF Silent, HasEntry
<1>7. \A g \in Requests : Sender(g) => req'[g] = req[g]
  BY <1>2, <1>3 DEF Sender
<1> QED
  BY <1>2, <1>4, <1>5, <1>6, <1>7, <1>l, DeskStep DEF DraftsKeep

\* Cancelled or edited.
LEMMA EditStep ==
    ASSUME IInv, NEW d \in DOMAIN drafts, CancelBroadcast(d) \/ UpdateDraftFields(d)
    PROVE  IInv'
<1>1. /\ drafts[d].status = "draft"
      /\ UNCHANGED <<now, users, cron, sends, req, inFlight, msgs, faults>>
      /\ moves' \in Nat /\ moves' + faults <= MaxTrouble
  BY BroadcastBounds DEF CancelBroadcast, UpdateDraftFields, IInv, TypeOK
<1>2. PICK r \in Draft : /\ r.seg = drafts[d].seg /\ r.to = drafts[d].to
                         /\ r.at = drafts[d].at /\ r.tick = drafts[d].tick
                         /\ r.moved = drafts[d].moved /\ r.status \in {"draft", "cancelled"}
                         /\ drafts' = [drafts EXCEPT ![d] = r]
  <2>1. CASE CancelBroadcast(d)
    BY <2>1, <1>1, StatusWritten DEF CancelBroadcast, IInv, Statuses
  <2>2. CASE UpdateDraftFields(d)
    <3> DEFINE r == [drafts[d] EXCEPT !.text = drafts[d].text + 1]
    <3>1. drafts[d] \in Draft
      BY DraftFacts DEF IInv
    <3>2. /\ r \in Draft /\ r.seg = drafts[d].seg /\ r.to = drafts[d].to
          /\ r.at = drafts[d].at /\ r.tick = drafts[d].tick
          /\ r.moved = drafts[d].moved /\ r.status = "draft"
      BY <3>1, <1>1 DEF Draft
    <3>3. drafts' = [drafts EXCEPT ![d] = r]
      BY <2>2 DEF UpdateDraftFields
    <3> QED
      BY <3>2, <3>3
  <2> QED
    BY <2>1, <2>2
<1>3. /\ drafts' \in Seq(Draft) /\ Len(drafts') = Len(drafts) /\ DOMAIN drafts' = DOMAIN drafts
      /\ drafts'[d] = r /\ \A c \in DOMAIN drafts \ {d} : drafts'[c] = drafts[c]
  BY <1>2, DraftWritten DEF IInv
<1>k. DraftsKeep
  BY <1>2, <1>3 DEF DraftsKeep
<1>4. TypeOK'
  <2>1. TypeOK
    BY DEF IInv
  <2>2. \A g \in Requests : req'[g] # None => /\ req'[g].draft \in DOMAIN drafts'
                                              /\ req'[g].todo \subseteq drafts'[req'[g].draft].to
    BY <1>1, <1>k, <2>1, ReqFacts DEF DraftsKeep
  <2>3. \A s \in sends' : s.to \in drafts'[s.draft].to
    BY <1>1, <1>k, <2>1 DEF DraftsKeep, TypeOK
  <2>4. inFlight' = {req'[g].draft : g \in {k \in Requests : At(k, "loop")'}}
    BY <1>1, <2>1 DEF TypeOK, At
  <2> QED
    BY <1>1, <1>3, <2>1, <2>2, <2>3, <2>4 DEF TypeOK
<1>5. SendInv'
  BY <1>1, <1>2, <1>4, SendEdited DEF IInv
<1>6. \A c \in DOMAIN drafts, p \in Places : Silent(c, p)' => Silent(c, p)
  BY <1>1, <1>2, <1>3 DEF Silent, HasEntry, At
<1> QED
  BY <1>1, <1>2, <1>3, <1>4, <1>5, <1>6, <1>k, DeskStep

LEMMA ApproveStep ==
    ASSUME IInv, NEW h \in Requests, Approve(h)
    PROVE  IInv'
<1>1. /\ req[h] # None /\ req[h].pc = "approve" /\ req[h] \in Request /\ req[h].row = None
      /\ UNCHANGED <<now, users, cron, sends, inFlight, msgs, moves, faults>>
  BY ReqFacts DEF Approve, At, IInv, SendInv, SenderInv
<1>d. PICK d \in DOMAIN drafts : d = req[h].draft
  BY <1>1, ReqFacts DEF IInv
<1>2. CASE drafts[d].status = "draft"
  <2>1. PICK r \in Draft : /\ r.seg = drafts[d].seg /\ r.to = drafts[d].to /\ r.text = drafts[d].text
                           /\ r.at = drafts[d].at /\ r.tick = drafts[d].tick
                           /\ r.moved = drafts[d].moved /\ r.status = "approved"
                           /\ drafts' = [drafts EXCEPT ![d] = r]
    BY <1>2, <1>d, StatusWritten DEF Approve, IInv, Statuses
  <2>2. /\ drafts' \in Seq(Draft) /\ Len(drafts') = Len(drafts) /\ DOMAIN drafts' = DOMAIN drafts
        /\ drafts'[d] = r /\ \A c \in DOMAIN drafts \ {d} : drafts'[c] = drafts[c]
    BY <2>1, DraftWritten DEF IInv
  <2>k. DraftsKeep
    BY <2>1, <2>2 DEF DraftsKeep
  <2> DEFINE t == [req[h] EXCEPT !.pc = "send"]
  <2>3. t \in Request /\ t.pc = "send" /\ t.draft = d /\ t.todo = req[h].todo /\ t.row = None
    BY <1>1, <1>d DEF Request
  <2>4. req' = [req EXCEPT ![h] = t]
    <3>1. drafts' # drafts
      BY <2>1, <2>2, <1>2
    <3> QED
      BY <3>1, <1>1 DEF Approve, Goto, IInv, TypeOK
  <2> HIDE DEF t
  <2>5. /\ req' \in [Requests -> Request \cup {None}]
        /\ req'[h] = t /\ t # None /\ \A g \in Requests \ {h} : req'[g] = req[g]
    BY <2>3, <2>4, ReqMoves, NoneAssumption DEF IInv
  <2>l. \A g \in Requests : At(g, "loop")' = At(g, "loop") /\ (At(g, "loop") => req'[g] = req[g])
    BY <1>1, <2>3, <2>5 DEF At
  <2>6. TypeOK'
    <3>1. inFlight' = {req'[g].draft : g \in {k \in Requests : At(k, "loop")'}}
      BY <1>1, <2>5, <2>l, SlotsStay DEF IInv
    <3>2. \A g \in Requests : req'[g] # None => /\ req'[g].draft \in DOMAIN drafts'
                                                /\ req'[g].todo \subseteq drafts'[req'[g].draft].to
      <4>1. ASSUME NEW g \in Requests, req'[g] # None
            PROVE  /\ req[g] # None /\ req'[g].draft = req[g].draft
                   /\ req'[g].todo = req[g].todo /\ req[g].draft \in DOMAIN drafts
                   /\ req[g].todo \subseteq drafts[req[g].draft].to
        BY <4>1, <1>1, <1>d, <2>3, <2>5, ReqFacts DEF IInv
      <4> QED
        BY <4>1, <2>k DEF DraftsKeep
    <3> QED
      BY <3>1, <3>2, <1>1, <2>2, <2>5, <2>k DEF IInv, TypeOK, DraftsKeep
  <2>7. SendInv'
    BY <1>1, <1>2, <1>d, <2>1, <2>3, <2>4, <2>5, <2>6, SendAdvances DEF IInv
  <2>8. \A c \in DOMAIN drafts, p \in Places : Silent(c, p)' => Silent(c, p)
    BY <1>1, <1>2, <2>1, <2>2, <2>l DEF Silent, HasEntry
  <2>9. Sender(h)' /\ req'[h].draft = d
    BY <2>3, <2>5 DEF Sender
  <2>10. \A g \in Requests : Sender(g) => req'[g] = req[g]
    BY <1>1, <2>5 DEF Sender
  <2>11. \A c \in DOMAIN drafts : drafts'[c].status \in {"approved", "sending"} =>
            \/ \E g \in Requests : Sender(g)' /\ req'[g].draft = c
            \/ /\ drafts[c].status \in {"approved", "sending"}
               /\ \A g \in Requests : Sender(g) /\ req[g].draft = c => req'[g] = req[g]
    BY <2>2, <2>9, <2>10
  <2> QED
    BY <1>1, <2>6, <2>7, <2>8, <2>11, <2>k, <2>l, DeskStep
<1>3. CASE drafts[d].status # "draft"
  <2>1. drafts' = drafts /\ req' = [req EXCEPT ![h] = None]
    BY <1>3, <1>d DEF Approve, UpdateDraftStatus, Done
  <2>2. /\ req' \in [Requests -> Request \cup {None}]
        /\ req'[h] = None /\ \A g \in Requests \ {h} : req'[g] = req[g]
    BY <2>1, ReqMoves DEF IInv
  <2>l. \A g \in Requests : At(g, "loop")' = At(g, "loop") /\ (At(g, "loop") => req'[g] = req[g])
    BY <1>1, <2>2 DEF At
  <2>3. TypeOK'
    <3>1. inFlight' = {req'[g].draft : g \in {k \in Requests : At(k, "loop")'}}
      BY <1>1, <2>2, <2>l, SlotsStay DEF IInv
    <3> QED
      BY <3>1, <1>1, <2>1, <2>2 DEF IInv, TypeOK
  <2>4. SendInv'
    BY <1>1, <2>1, <2>2, <2>3, SendAside DEF IInv
  <2>5. \A c, p : Silent(c, p)' => Silent(c, p)
    BY <1>1, <2>1, <2>l DEF Silent, HasEntry
  <2>6. \A g \in Requests : Sender(g) => req'[g] = req[g]
    BY <1>1, <2>2 DEF Sender
  <2> QED
    BY <1>1, <2>1, <2>3, <2>4, <2>5, <2>6, <2>l, DeskStep DEF DraftsKeep
<1> QED
  BY <1>2, <1>3

LEMMA SendStep ==
    ASSUME IInv, NEW h \in Requests, Send(h)
    PROVE  IInv'
<1>1. /\ req[h] # None /\ req[h].pc = "send" /\ req[h] \in Request /\ req[h].row = None
      /\ UNCHANGED <<now, users, cron, sends, msgs, moves, faults>>
  BY ReqFacts DEF Send, At, IInv, SendInv, SenderInv
<1>d. PICK d \in DOMAIN drafts : d = req[h].draft
  BY <1>1, ReqFacts DEF IInv
<1>2. drafts[d].status = "approved"
  BY <1>1, <1>d DEF IInv, SendInv, SenderInv, At
<1>3. d \notin inFlight
  <2>1. \A g \in Requests : At(g, "loop") => req[g].draft # d
    BY <1>2 DEF IInv, SendInv, SenderInv
  <2> QED
    BY <2>1, InFlightFacts DEF IInv
<1>4. /\ drafts' = UpdateDraftStatus(d, "approved", "sending")
      /\ inFlight' = inFlight \cup {d}
      /\ req' = [req EXCEPT ![h].pc = "loop", ![h].text = drafts[d].text, ![h].todo = drafts[d].to]
  BY <1>2, <1>3, <1>d DEF Send
<1>5. PICK r \in Draft : /\ r.seg = drafts[d].seg /\ r.to = drafts[d].to /\ r.text = drafts[d].text
                         /\ r.at = drafts[d].at /\ r.tick = drafts[d].tick
                         /\ r.moved = drafts[d].moved /\ r.status = "sending"
                         /\ drafts' = [drafts EXCEPT ![d] = r]
  BY <1>2, <1>4, StatusWritten DEF IInv, Statuses
<1>6. /\ drafts' \in Seq(Draft) /\ Len(drafts') = Len(drafts) /\ DOMAIN drafts' = DOMAIN drafts
      /\ drafts'[d] = r /\ \A c \in DOMAIN drafts \ {d} : drafts'[c] = drafts[c]
  BY <1>5, DraftWritten DEF IInv
<1>k. DraftsKeep
  BY <1>5, <1>6 DEF DraftsKeep
<1>f. drafts[d].to \in SUBSET Places /\ drafts[d].text \in Nat
  BY DraftFacts DEF IInv
<1> DEFINE t == [req[h] EXCEPT !.pc = "loop", !.text = drafts[d].text, !.todo = drafts[d].to]
<1>7. /\ t \in Request /\ t.pc = "loop" /\ t.draft = d /\ t.todo = drafts[d].to
      /\ t.text = drafts[d].text /\ t.row = None
  BY <1>1, <1>d, <1>f DEF Request
<1>8. req' = [req EXCEPT ![h] = t]
  BY <1>1, <1>4 DEF IInv, TypeOK
<1> HIDE DEF t
<1>9. /\ req' \in [Requests -> Request \cup {None}]
      /\ req'[h] = t /\ t # None /\ \A g \in Requests \ {h} : req'[g] = req[g]
  BY <1>7, <1>8, ReqMoves, NoneAssumption DEF IInv
<1>10. TypeOK'
  <2>1. TypeOK
    BY DEF IInv
  <2>2. \A g \in Requests : req'[g] # None => /\ req'[g].draft \in DOMAIN drafts'
                                              /\ req'[g].todo \subseteq drafts'[req'[g].draft].to
    <3>1. \A g \in Requests \ {h} : req'[g] # None => /\ req'[g].draft \in DOMAIN drafts
                                                      /\ req'[g].todo \subseteq drafts[req'[g].draft].to
      BY <2>1, <1>9, ReqFacts
    <3>2. t.draft \in DOMAIN drafts /\ t.todo \subseteq drafts[t.draft].to
      BY <1>7
    <3> QED
      BY <3>1, <3>2, <1>9, <1>k DEF DraftsKeep
  <2>3. \A s \in sends' : s.to \in drafts'[s.draft].to
    BY <1>1, <1>k, <2>1 DEF DraftsKeep, TypeOK
  <2>4. inFlight' = {req'[g].draft : g \in {k \in Requests : At(k, "loop")'}}
    <3>1. {k \in Requests : At(k, "loop")'} = {k \in Requests : At(k, "loop")} \cup {h}
      BY <1>7, <1>9 DEF At
    <3>2. \A g \in Requests : At(g, "loop") => req'[g].draft = req[g].draft
      BY <1>1, <1>9 DEF At
    <3>3. req'[h].draft = d
      BY <1>7, <1>9
    <3> QED
      BY <3>1, <3>2, <3>3, <1>4, <2>1 DEF TypeOK
  <2> QED
    BY <1>1, <1>6, <1>9, <2>1, <2>2, <2>3, <2>4 DEF TypeOK
<1>11. SendInv'
  BY <1>1, <1>2, <1>d, <1>5, <1>7, <1>8, <1>9, <1>10, SendAdvances DEF IInv, Sender
<1>12. \A c \in DOMAIN drafts, p \in Places : Silent(c, p)' => Silent(c, p)
  <2> SUFFICES ASSUME NEW c \in DOMAIN drafts, NEW p \in Places, Silent(c, p)' PROVE Silent(c, p)
    OBVIOUS
  <2>1. p \in drafts[c].to /\ ~HasEntry(c, p[1])
    BY <1>1, <1>k DEF Silent, HasEntry, DraftsKeep
  <2>2. CASE drafts'[c].status = "sent"
    BY <2>1, <2>2, <1>5, <1>6 DEF Silent
  <2>3. ASSUME NEW g \in Requests, At(g, "loop")', req'[g].draft = c, p \notin req'[g].todo
        PROVE  Silent(c, p)
    <3>1. g # h
      BY <2>1, <2>3, <1>7, <1>9
    <3> QED
      BY <3>1, <2>1, <2>3, <1>9 DEF Silent, At
  <2> QED
    BY <2>2, <2>3 DEF Silent
<1>13. Sender(h)' /\ req'[h].draft = d
  BY <1>7, <1>9 DEF Sender
<1>14. \A c \in DOMAIN drafts : drafts'[c].status \in {"approved", "sending"} =>
          \/ \E g \in Requests : Sender(g)' /\ req'[g].draft = c
          \/ /\ drafts[c].status \in {"approved", "sending"}
             /\ \A g \in Requests : Sender(g) /\ req[g].draft = c => req'[g] = req[g]
  BY <1>6, <1>9, <1>13, <1>d
<1>15. \A g \in Requests : At(g, "loop") /\ req[g].row # None => req'[g] = req[g]
  BY <1>1, <1>9 DEF At
<1> QED
  BY <1>1, <1>10, <1>11, <1>12, <1>14, <1>15, <1>k, DeskStep

LEMMA FinishStep ==
    ASSUME IInv, NEW h \in Requests, FinishSend(h)
    PROVE  IInv'
<1>1. /\ req[h] # None /\ req[h].pc = "loop" /\ req[h] \in Request /\ req[h].todo = {}
      /\ UNCHANGED <<now, users, cron, sends, msgs, moves, faults>>
      /\ inFlight' = inFlight \ {req[h].draft} /\ req' = [req EXCEPT ![h] = None]
  BY ReqFacts DEF FinishSend, At, IInv, Done
<1>d. PICK d \in DOMAIN drafts : d = req[h].draft
  BY <1>1, ReqFacts DEF IInv
<1>2. drafts[d].status = "sending" /\ req[h].row = None
  BY <1>1, <1>d DEF IInv, SendInv, SenderInv, At
<1>5. PICK r \in Draft : /\ r.seg = drafts[d].seg /\ r.to = drafts[d].to /\ r.text = drafts[d].text
                         /\ r.at = drafts[d].at /\ r.tick = drafts[d].tick
                         /\ r.moved = drafts[d].moved /\ r.status = "sent"
                         /\ drafts' = [drafts EXCEPT ![d] = r]
  BY <1>2, <1>d, StatusWritten DEF FinishSend, IInv, Statuses
<1>6. /\ drafts' \in Seq(Draft) /\ Len(drafts') = Len(drafts) /\ DOMAIN drafts' = DOMAIN drafts
      /\ drafts'[d] = r /\ \A c \in DOMAIN drafts \ {d} : drafts'[c] = drafts[c]
  BY <1>5, DraftWritten DEF IInv
<1>k. DraftsKeep
  BY <1>5, <1>6 DEF DraftsKeep
<1>9. /\ req' \in [Requests -> Request \cup {None}]
      /\ req'[h] = None /\ \A g \in Requests \ {h} : req'[g] = req[g]
  BY <1>1, ReqMoves DEF IInv
<1>o. \A g \in Requests \ {h} : Sender(g) => req[g].draft # d
  BY <1>1, <1>d DEF IInv, SendInv, OneSender, Sender
<1>10. TypeOK'
  <2>1. TypeOK
    BY DEF IInv
  <2>2. \A g \in Requests : req'[g] # None => /\ req'[g].draft \in DOMAIN drafts'
                                              /\ req'[g].todo \subseteq drafts'[req'[g].draft].to
    <3>1. ASSUME NEW g \in Requests, req'[g] # None
          PROVE  /\ req'[g] = req[g] /\ req[g].draft \in DOMAIN drafts
                 /\ req[g].todo \subseteq drafts[req[g].draft].to
      BY <2>1, <3>1, <1>9, ReqFacts
    <3> QED
      BY <3>1, <1>k DEF DraftsKeep
  <2>3. \A s \in sends' : s.to \in drafts'[s.draft].to
    BY <1>1, <1>k, <2>1 DEF DraftsKeep, TypeOK
  <2>4. inFlight' = {req'[g].draft : g \in {k \in Requests : At(k, "loop")'}}
    <3>1. {k \in Requests : At(k, "loop")'} = {k \in Requests : At(k, "loop")} \ {h}
      BY <1>9 DEF At
    <3>2. \A g \in Requests \ {h} : At(g, "loop") => req'[g].draft = req[g].draft /\ req[g].draft # d
      BY <1>9, <1>o DEF At, Sender
    <3> QED
      BY <3>1, <3>2, <1>1, <1>d, <2>1 DEF TypeOK
  <2> QED
    BY <1>1, <1>6, <1>9, <2>1, <2>2, <2>3, <2>4 DEF TypeOK
<1>11. SendInv'
  BY <1>1, <1>2, <1>d, <1>5, <1>10, SendAdvances DEF IInv, Sender
<1>12. \A c \in DOMAIN drafts, p \in Places : Silent(c, p)' => Silent(c, p)
  <2> SUFFICES ASSUME NEW c \in DOMAIN drafts, NEW p \in Places, Silent(c, p)' PROVE Silent(c, p)
    OBVIOUS
  <2>1. p \in drafts[c].to /\ ~HasEntry(c, p[1])
    BY <1>1, <1>k DEF Silent, HasEntry, DraftsKeep
  <2>2. CASE c = d
    BY <2>1, <2>2, <1>1, <1>d DEF Silent, At
  <2>3. CASE c # d
    BY <2>1, <2>3, <1>6, <1>9 DEF Silent, At
  <2> QED
    BY <2>2, <2>3
<1>14. \A c \in DOMAIN drafts : drafts'[c].status \in {"approved", "sending"} =>
             /\ drafts[c].status \in {"approved", "sending"}
             /\ \A g \in Requests : Sender(g) /\ req[g].draft = c => req'[g] = req[g]
  BY <1>5, <1>6, <1>9, <1>d, <1>o
<1>15. \A g \in Requests : At(g, "loop") /\ req[g].row # None => req'[g] = req[g]
  BY <1>2, <1>9
<1> QED
  BY <1>1, <1>10, <1>11, <1>12, <1>14, <1>15, <1>k, DeskStep

\* A request ends with an error, or all of them with the service.
LEMMA FailStep ==
    ASSUME IInv, NEW h \in Requests, RequestFails(h)
    PROVE  IInv'
<1>1. /\ req[h] # None /\ req[h] \in Request
      /\ UNCHANGED <<now, users, cron, drafts, sends, msgs, moves>>
      /\ req' = [req EXCEPT ![h] = None]
      /\ faults' = faults + 1 /\ faults' \in Nat /\ faults' # 0 /\ moves + faults' <= MaxTrouble
  BY ReqFacts, FaultFacts DEF RequestFails, At, IInv, Done
<1>9. /\ req' \in [Requests -> Request \cup {None}]
      /\ req'[h] = None /\ \A g \in Requests \ {h} : req'[g] = req[g]
  BY <1>1, ReqMoves DEF IInv
<1>k. DraftsKeep
  BY <1>1 DEF DraftsKeep
<1>10. TypeOK'
  <2>1. TypeOK
    BY DEF IInv
  <2>4. inFlight' = {req'[g].draft : g \in {k \in Requests : At(k, "loop")'}}
    <3>1. CASE At(h, "loop")
      <4>1. \A g \in Requests \ {h} : At(g, "loop") => req'[g].draft = req[g].draft /\ req[g].draft # req[h].draft
        BY <3>1, <1>9 DEF IInv, SendInv, OneSender, Sender, At
      <4>2. {k \in Requests : At(k, "loop")'} = {k \in Requests : At(k, "loop")} \ {h}
        BY <1>9 DEF At
      <4>3. inFlight' = inFlight \ {req[h].draft}
        BY <3>1 DEF RequestFails
      <4> QED
        BY <3>1, <4>1, <4>2, <4>3, <2>1 DEF TypeOK
    <3>2. CASE ~At(h, "loop")
      <4>1. inFlight' = inFlight
        BY <3>2 DEF RequestFails
      <4> QED
        BY <4>1, <3>2, <1>9, <2>1, SlotsStay DEF At
    <3> QED
      BY <3>1, <3>2
  <2> QED
    BY <1>1, <1>9, <2>1, <2>4 DEF TypeOK
<1>11. SendInv'
  BY <1>1, <1>9, <1>10, SendAside DEF IInv
<1>12. \A c \in DOMAIN drafts', p \in Places : Silent(c, p)' => c \in DOMAIN drafts /\ Silent(c, p)
  BY <1>1, <1>9 DEF Silent, HasEntry, At
<1>13. LossInv'
  <2>1. faults' >= faults
    BY <1>1 DEF IInv, TypeOK
  <2> QED
    BY <2>1, <1>10, <1>12, LossStays DEF IInv
<1>14. Tended' /\ LogInv'
  BY <1>1 DEF Tended, LogInv
<1>15. TickInv' /\ RowsAreDisjoint' /\ SpacedInv'
  BY <1>1, <1>10, <1>k, CronStill DEF Dated
<1> QED
  BY <1>10, <1>11, <1>13, <1>14, <1>15 DEF IInv

LEMMA SendOneStep ==
    ASSUME IInv, NEW h \in Requests, NEW p \in Places, SendOne(h, p)
    PROVE  IInv'
<1>0. TypeOK /\ SendInv
  BY DEF IInv
<1>1. /\ req[h] # None /\ req[h].pc = "loop" /\ req[h].row = None /\ p \in req[h].todo
      /\ UNCHANGED <<now, users, cron, drafts, sends, inFlight, moves>>
  <2>1. UNCHANGED <<now, users, cron, drafts, sends, inFlight, moves>>
    BY DEF SendOne
  <2> QED
    BY <1>0, <2>1, SendOneEffect
<1>2. PICK t \in Request, r \in Result :
                 /\ req' = [req EXCEPT ![h] = t]
                 /\ t.pc = "loop" /\ t.draft = req[h].draft /\ t.text = req[h].text
                 /\ t.todo = req[h].todo /\ t.row = r /\ r # None /\ r.to = p
                 /\ (faults' # faults \/ msgs' = msgs \/ r.status = "sent")
  BY <1>0, SendOneEffect
<1>3. /\ req' \in [Requests -> Request \cup {None}]
      /\ req'[h] = t /\ t # None /\ \A g \in Requests \ {h} : req'[g] = req[g]
  BY <1>0, <1>2, ReqMoves, NoneAssumption
<1>d. PICK d \in DOMAIN drafts : d = req[h].draft
  BY <1>0, <1>1, ReqFacts
<1>f. /\ faults' \in Nat /\ moves + faults' <= MaxTrouble /\ faults' >= faults
      /\ faults' = 0 => faults = 0 /\ faults' = faults
  <2>1. CASE faults' = faults
    BY <2>1, <1>0 DEF TypeOK
  <2>2. CASE Fault
    BY <2>2, <1>0, FaultFacts DEF TypeOK
  <2> QED
    BY <1>0, <2>1, <2>2, SendOneEffect
<1>m. /\ msgs \subseteq msgs'
      /\ \A m \in msgs' \ msgs :
            /\ m \in [draft : DOMAIN drafts, to : Places, at : 0 .. now, text : Nat, nr : Nat]
            /\ m.draft = d /\ m.to = p /\ m.at = now
  <2>1. CASE msgs' = msgs
    BY <2>1
  <2>2. CASE msgs' = msgs \cup {[draft |-> req[h].draft, to |-> p, at |-> now,
                                 text |-> req[h].text, nr |-> 1]}
    <3>1. req[h].text \in Nat /\ now \in 0 .. now
      BY <1>0, <1>1, ReqFacts, NowFacts
    <3> QED
      BY <2>2, <3>1, <1>d
  <2> QED
    BY <1>0, <2>1, <2>2, SendOneEffect
<1>l. \A g \in Requests : /\ At(g, "loop")' = At(g, "loop") /\ Sender(g)' = Sender(g)
                          /\ req[g] # None => /\ req'[g] # None /\ req'[g].draft = req[g].draft
                                              /\ req'[g].todo = req[g].todo
                          /\ req'[g] # None => req[g] # None
  BY <1>1, <1>2, <1>3 DEF At, Sender
<1>k. DraftsKeep
  BY <1>1 DEF DraftsKeep
<1>4. TypeOK'
  <2>1. inFlight' = {req'[g].draft : g \in {k \in Requests : At(k, "loop")'}}
    <3>1. \A g \in Requests : At(g, "loop") => req'[g].draft = req[g].draft
      BY <1>l DEF At
    <3> QED
      BY <3>1, <1>0, <1>1, <1>3, <1>l, SlotsStay
  <2>2. \A g \in Requests : req'[g] # None => /\ req'[g].draft \in DOMAIN drafts'
                                              /\ req'[g].todo \subseteq drafts'[req'[g].draft].to
    BY <1>0, <1>1, <1>l, ReqFacts
  <2>3. msgs' \subseteq [draft : DOMAIN drafts, to : Places, at : 0 .. now, text : Nat, nr : Nat]
    BY <1>0, <1>m DEF TypeOK
  <2> QED
    BY <2>1, <2>2, <2>3, <1>0, <1>1, <1>3, <1>f DEF TypeOK
<1>5. SendInv'
  BY <1>0, <1>4, SendTries
<1>6. LossInv'
  <2>1. \A c \in DOMAIN drafts', v \in Places : Silent(c, v)' => c \in DOMAIN drafts /\ Silent(c, v)
    BY <1>1, <1>l DEF Silent, HasEntry, At
  <2> QED
    BY <2>1, <1>4, <1>f, LossStays DEF IInv
<1>7. Tended'
  BY <1>1, <1>f, <1>l DEF IInv, Tended, Sender
<1>8. LogInv'
  <2> SUFFICES ASSUME faults' = 0, NEW m \in msgs'
               PROVE  Logged(m)' \/ Elsewhere(m)' \/ AtHand(m)'
    BY DEF LogInv
  <2>1. faults = 0 /\ faults' = faults
    BY <1>f
  <2>2. CASE m \in msgs
    <3>1. Logged(m) \/ Elsewhere(m) \/ AtHand(m)
      BY <2>1, <2>2 DEF IInv, LogInv
    <3>2. (Logged(m) => Logged(m)') /\ (Elsewhere(m) => Elsewhere(m)')
      BY <1>1 DEF Logged, Elsewhere
    <3>3. AtHand(m) => AtHand(m)'
      BY <1>1, <1>3 DEF AtHand, At
    <3> QED
      BY <3>1, <3>2, <3>3
  <2>3. CASE m \notin msgs
    <3>1. m.draft = d /\ m.to = p /\ r.status = "sent"
      BY <2>1, <2>3, <1>m, <1>2
    <3> QED
      BY <3>1, <1>d, <1>2, <1>3 DEF AtHand, At
  <2> QED
    BY <2>2, <2>3
<1>9. Dated
  BY <1>1, <1>m DEF Dated
<1>10. TickInv' /\ RowsAreDisjoint' /\ SpacedInv'
  BY <1>1, <1>4, <1>9, <1>k, CronStill
<1> QED
  BY <1>4, <1>5, <1>6, <1>7, <1>8, <1>10 DEF IInv

LEMMA InsertSendStep ==
    ASSUME IInv, NEW h \in Requests, InsertSend(h)
    PROVE  IInv'
<1>0. TypeOK /\ SendInv
  BY DEF IInv
<1>1. /\ req[h] # None /\ req[h].pc = "loop" /\ req[h].row # None
      /\ req[h].row.to \in req[h].todo
      /\ UNCHANGED <<now, users, cron, drafts, inFlight, msgs, moves>>
  <2>1. UNCHANGED <<now, users, cron, drafts, inFlight, msgs, moves>>
    BY DEF InsertSend
  <2> QED
    BY <1>0, <2>1, InsertSendEffect
<1>d. PICK d \in DOMAIN drafts, v \in Places :
         /\ d = req[h].draft /\ v = req[h].row.to /\ v \in drafts[d].to
  BY <1>0, <1>1, ReqFacts
<1>2. PICK t \in Request :
                 /\ req' = [req EXCEPT ![h] = t]
                 /\ t.pc = "loop" /\ t.draft = req[h].draft /\ t.text = req[h].text
                 /\ t.todo = req[h].todo \ {req[h].row.to} /\ t.row = None
  BY <1>0, InsertSendEffect
<1>3. /\ req' \in [Requests -> Request \cup {None}]
      /\ req'[h] = t /\ t # None /\ \A g \in Requests \ {h} : req'[g] = req[g]
  BY <1>0, <1>2, ReqMoves, NoneAssumption
<1>l. \A g \in Requests : /\ At(g, "loop")' = At(g, "loop") /\ Sender(g)' = Sender(g)
                          /\ req[g] # None => /\ req'[g] # None /\ req'[g].draft = req[g].draft
                                              /\ req'[g].todo \subseteq req[g].todo
                          /\ req'[g] # None => req[g] # None
  BY <1>1, <1>2, <1>3 DEF At, Sender
<1> DEFINE e == [draft |-> d, to |-> v, status |-> req[h].row.status, at |-> now]
<1>c. \/ Fault /\ sends' = sends
      \/ faults' = faults /\ sends' = sends /\ HasEntry(d, v[1])
      \/ faults' = faults /\ sends' = sends \cup {e}
  BY <1>0, <1>d, InsertSendEffect
<1>e. /\ e.draft = d /\ e.to = v /\ e.status = req[h].row.status /\ e.at = now
      /\ e \in [draft : DOMAIN drafts, to : Places, status : {"sent", "blocked", "failed"},
                at : 0 .. now]
  <2>1. req[h].row.status \in {"sent", "blocked", "failed"} /\ now \in 0 .. now
    BY <1>0, <1>1, ReqFacts, NowFacts
  <2> QED
    BY <2>1
<1> HIDE DEF e
<1>f. /\ faults' \in Nat /\ moves + faults' <= MaxTrouble
      /\ faults' = 0 => /\ faults = 0
                        /\ \/ sends' = sends /\ HasEntry(d, v[1])
                           \/ sends' = sends \cup {e}
  BY <1>0, <1>c, FaultFacts DEF TypeOK
<1>k. DraftsKeep
  BY <1>1 DEF DraftsKeep
<1>4. TypeOK'
  <2>1. inFlight' = {req'[g].draft : g \in {k \in Requests : At(k, "loop")'}}
    <3>1. \A g \in Requests : At(g, "loop") => req'[g].draft = req[g].draft
      BY <1>l DEF At
    <3> QED
      BY <3>1, <1>0, <1>1, <1>3, <1>l, SlotsStay
  <2>2. \A g \in Requests : req'[g] # None => /\ req'[g].draft \in DOMAIN drafts'
                                              /\ req'[g].todo \subseteq drafts'[req'[g].draft].to
    BY <1>0, <1>1, <1>l, ReqFacts
  <2>3. /\ sends' \subseteq [draft : DOMAIN drafts, to : Places,
                             status : {"sent", "blocked", "failed"}, at : 0 .. now]
        /\ \A s \in sends' : s.to \in drafts[s.draft].to
    BY <1>0, <1>c, <1>d, <1>e DEF TypeOK
  <2> QED
    BY <2>1, <2>2, <2>3, <1>0, <1>1, <1>3, <1>f DEF TypeOK
<1>5. SendInv'
  BY <1>0, <1>4, SendLogs
<1>s. ASSUME NEW c \in DOMAIN drafts, NEW p \in Places, Silent(c, p)'
      PROVE  \/ Silent(c, p)
             \/ c = d /\ p = v
  <2>1. p \in drafts[c].to /\ ~HasEntry(c, p[1])
    BY <1>1, <1>c, <1>s DEF Silent, HasEntry
  <2>2. CASE drafts'[c].status = "sent"
    BY <1>1, <2>1, <2>2 DEF Silent
  <2>3. ASSUME NEW g \in Requests, At(g, "loop")', req'[g].draft = c, p \notin req'[g].todo
        PROVE  Silent(c, p) \/ (c = d /\ p = v)
    <3>1. At(g, "loop") /\ req[g].draft = c
      BY <2>3, <1>l DEF At
    <3>2. p \notin req[g].todo \/ (g = h /\ p = v)
      BY <2>3, <1>2, <1>3, <1>d
    <3> QED
      BY <2>1, <3>1, <3>2, <1>d DEF Silent
  <2> QED
    BY <1>s, <2>1, <2>2, <2>3 DEF Silent
<1>6. LossInv'
  <2>1. CASE Fault /\ sends' = sends
    <3>1. faults' = faults + 1
      BY <2>1 DEF Fault
    <3> QED
      BY <3>1, <1>1, <1>4, <1>s, LossOneMore DEF IInv
  <2>2. CASE /\ faults' = faults
             /\ \/ sends' = sends /\ HasEntry(d, v[1])
                \/ sends' = sends \cup {e}
    <3>1. \A c \in DOMAIN drafts', p \in Places : Silent(c, p)' => c \in DOMAIN drafts /\ Silent(c, p)
      <4>1. ASSUME NEW c \in DOMAIN drafts, NEW p \in Places, Silent(c, p)', c = d, p = v
            PROVE  FALSE
        BY <4>1, <2>2, <1>e DEF Silent, HasEntry
      <4> QED
        BY <4>1, <1>1, <1>s
    <3>2. faults' >= faults
      BY <2>2, <1>0 DEF TypeOK
    <3> QED
      BY <3>1, <3>2, <1>4, LossStays DEF IInv
  <2> QED
    BY <2>1, <2>2, <1>c
<1>7. Tended'
  BY <1>1, <1>f, <1>l DEF IInv, Tended, Sender
<1>8. LogInv'
  <2> SUFFICES ASSUME faults' = 0, NEW m \in msgs
               PROVE  Logged(m)' \/ Elsewhere(m)' \/ AtHand(m)'
    BY <1>1 DEF LogInv
  <2>1. /\ faults = 0 /\ sends \subseteq sends'
        /\ \/ sends' = sends /\ HasEntry(d, v[1])
           \/ sends' = sends \cup {e}
    BY <1>f
  <2>2. CASE Logged(m) \/ Elsewhere(m)
    BY <2>1, <2>2 DEF Logged, Elsewhere
  <2>3. ASSUME NEW g \in Requests, At(g, "loop"), req[g].draft = m.draft, req[g].row # None,
               req[g].row.to = m.to, req[g].row.status = "sent"
        PROVE  Logged(m)' \/ Elsewhere(m)' \/ AtHand(m)'
    <3>1. CASE g = h /\ sends' = sends \cup {e}
      <4>1. m.at <= now
        BY <1>0 DEF TypeOK
      <4>2. e \in sends' /\ e.draft = m.draft /\ e.to = m.to /\ e.status = "sent" /\ m.at <= e.at
        BY <2>3, <3>1, <4>1, <1>d, <1>e
      <4> QED
        BY <4>2 DEF Logged
    <3>2. CASE g = h /\ sends' = sends /\ HasEntry(d, v[1])
      <4>1. m.draft = d /\ m.to = v /\ ~LoggedFor(d, v)
        BY <2>3, <3>2, <1>0, <1>d, InsertSendEffect
      <4> QED
        BY <3>2, <4>1 DEF HasEntry, LoggedFor, Elsewhere
    <3>3. CASE g # h
      BY <2>3, <3>3, <1>3 DEF AtHand, At
    <3> QED
      BY <2>1, <3>1, <3>2, <3>3
  <2> QED
    BY <2>1, <2>2, <2>3 DEF IInv, LogInv, AtHand
<1>9. Dated
  BY <1>1, <1>c, <1>e DEF Dated
<1>10. TickInv' /\ RowsAreDisjoint' /\ SpacedInv'
  BY <1>1, <1>4, <1>9, <1>k, CronStill
<1> QED
  BY <1>4, <1>5, <1>6, <1>7, <1>8, <1>10 DEF IInv

LEMMA CrashStep ==
    ASSUME IInv, Crash
    PROVE  IInv'
<1>0. TypeOK /\ SendInv /\ TickInv /\ SpacedInv /\ now \in Nat
  BY NowFacts DEF IInv
<1>1. /\ UNCHANGED <<now, users, drafts, sends, msgs, moves>>
      /\ faults' \in Nat /\ faults' = faults + 1 /\ faults' # 0 /\ moves + faults' <= MaxTrouble
      /\ inFlight' = {}
      /\ cron' = [seg |-> 0, picked |-> None, at |-> 0, due |-> NextRun(now), moved |-> {}]
  BY <1>0, FaultFacts DEF Crash, Sleeping
<1>2. \A h \in Requests : req'[h] = None /\ ~At(h, "loop")'
  BY DEF Crash, At
<1>n. NextRun(now) \in Nat /\ NextRun(now) > now
  BY <1>0, NextRunFacts
<1>3. cron' \in Cron /\ cron'.seg = 0 /\ cron'.picked = None /\ cron'.due = NextRun(now)
  BY <1>1, <1>n, FourSegments DEF Cron
<1>4. TypeOK'
  <2>1. req' \in [Requests -> Request \cup {None}]
    BY DEF Crash
  <2>2. inFlight' = {req'[g].draft : g \in {k \in Requests : At(k, "loop")'}}
    BY <1>1, <1>2
  <2> QED
    BY <2>1, <2>2, <1>0, <1>1, <1>2, <1>3 DEF TypeOK
<1>5. SendInv'
  BY <1>0, <1>1, <1>2, <1>4, SendAside
<1>6. LossInv'
  <2>1. \A c \in DOMAIN drafts', v \in Places : Silent(c, v)' => c \in DOMAIN drafts /\ Silent(c, v)
    BY <1>1, <1>2 DEF Silent, HasEntry
  <2>2. faults' >= faults
    BY <1>0, <1>1 DEF TypeOK
  <2> QED
    BY <2>1, <2>2, <1>4, LossStays DEF IInv
<1>7. Tended' /\ LogInv'
  BY <1>1 DEF Tended, LogInv
<1>8. TickInv'
  <2>1. \A d \in DOMAIN drafts : drafts[d].tick < NextRun(now)
    BY <1>0, <1>n, DraftFacts DEF TickInv
  <2> QED
    BY <2>1, <1>0, <1>1, <1>3 DEF TickInv, ThisTick
<1>9. RowsAreDisjoint' /\ SpacedInv'
  BY <1>1, <1>3 DEF IInv, RowsAreDisjoint, SpacedInv, SpacedFrom
<1> QED
  BY <1>4, <1>5, <1>6, <1>7, <1>8, <1>9 DEF IInv

-----------------------------------------------------------------------------
(* Time, the users and the cron.                                             *)

\* Nothing about a broadcast changes but what the cron knows.
LEMMA CronFrame ==
    ASSUME IInv, TypeOK',
           UNCHANGED <<drafts, sends, req, inFlight, msgs>>, faults' >= faults
    PROVE  SendInv' /\ LossInv' /\ Tended' /\ RowsAreDisjoint' /\ LogInv'
<1>0. TypeOK /\ SendInv
  BY DEF IInv
<1>1. SendInv'
  BY <1>0, SendAside
<1>2. LossInv'
  <2>1. \A c \in DOMAIN drafts', v \in Places : Silent(c, v)' => c \in DOMAIN drafts /\ Silent(c, v)
    BY DEF Silent, HasEntry, At
  <2> QED
    BY <2>1, LossStays DEF IInv
<1>3. faults' = 0 => faults = 0
  BY DEF IInv, TypeOK
<1>4. Tended'
  BY <1>3 DEF IInv, Tended, Sender
<1>5. RowsAreDisjoint'
  BY DEF IInv, RowsAreDisjoint
<1>6. LogInv'
  BY <1>3 DEF IInv, LogInv, Logged, Elsewhere, AtHand, At
<1> QED
  BY <1>1, <1>2, <1>4, <1>5, <1>6

LEMMA MovedFacts ==
    ASSUME TypeOK, NEW us \in SUBSET Users, Moved(us)
    PROVE  /\ cron' \in Cron /\ cron'.seg = cron.seg /\ cron'.picked = cron.picked
           /\ cron'.at = cron.at /\ cron'.due = cron.due
           /\ cron.seg # 0 => cron'.moved = cron.moved \cup us
           /\ cron.seg = 0 => cron' = cron
<1>1. cron \in Cron
  BY DEF TypeOK
<1>2. CASE cron.seg = 0
  BY <1>1, <1>2 DEF Moved
<1>3. CASE cron.seg # 0
  <2> DEFINE c == [cron EXCEPT !.moved = cron.moved \cup us]
  <2>1. /\ c \in Cron /\ c.seg = cron.seg /\ c.picked = cron.picked
        /\ c.at = cron.at /\ c.due = cron.due /\ c.moved = cron.moved \cup us
    BY <1>1 DEF Cron
  <2>2. cron' = c
    BY <1>3 DEF Moved
  <2> QED
    BY <2>1, <2>2, <1>3
<1> QED
  BY <1>2, <1>3

LEMMA SubsFacts ==
    ASSUME NEW subs \in Seq(Sub), NEW s \in Sub
    PROVE  /\ Append(subs, s) \in Seq(Sub) /\ DOMAIN subs \subseteq DOMAIN Append(subs, s)
           /\ \A i \in DOMAIN subs : /\ subs[i] \in Sub
                                     /\ [subs EXCEPT ![i] = s] \in Seq(Sub)
                                     /\ DOMAIN [subs EXCEPT ![i] = s] = DOMAIN subs
<1>1. Append(subs, s) \in Seq(Sub) /\ DOMAIN subs \subseteq DOMAIN Append(subs, s)
  BY AppendProperties, LenProperties
<1>2. ASSUME NEW i \in DOMAIN subs
      PROVE  /\ subs[i] \in Sub /\ [subs EXCEPT ![i] = s] \in Seq(Sub)
             /\ DOMAIN [subs EXCEPT ![i] = s] = DOMAIN subs
  <2>1. i \in 1 .. Len(subs) /\ subs[i] \in Sub
    BY LenProperties
  <2> QED
    BY <2>1, ExceptSeq
<1> QED
  BY <1>1, <1>2

\* A user changes by himself, and none of his subscriptions goes.
LEMMA UserChanges ==
    ASSUME TypeOK, NEW u \in Users, UserMoves(u) \/ BanUser(u)
    PROVE  \E r \in User : /\ users' = [users EXCEPT ![u] = r]
                           /\ DOMAIN users[u].subs \subseteq DOMAIN r.subs
<1>1. /\ users[u] \in User /\ users[u].subs \in Seq(Sub) /\ users[u].tried \in BOOLEAN
      /\ users \in [Users -> User] /\ now \in Nat /\ PlanTime \in Nat /\ TrialTime \in Nat
  BY NowFacts, BroadcastAssumption DEF TypeOK, User
<1>2. Trial \in Sub /\ Paid \in Sub
  BY <1>1 DEF Trial, Paid, Sub
<1>w. ASSUME NEW subs \in Seq(Sub), DOMAIN users[u].subs \subseteq DOMAIN subs,
             users' = [users EXCEPT ![u].subs = subs]
      PROVE  \E r \in User : /\ users' = [users EXCEPT ![u] = r]
                             /\ DOMAIN users[u].subs \subseteq DOMAIN r.subs
  <2> DEFINE r == [users[u] EXCEPT !.subs = subs]
  <2>1. r \in User /\ r.subs = subs
    BY <1>1 DEF User
  <2>2. users' = [users EXCEPT ![u] = r]
    BY <1>w
  <2> QED
    BY <2>1, <2>2, <1>w
<1>3. CASE Buys(u)
  <2>1. CASE users' = [users EXCEPT ![u].subs = Append(users[u].subs, Paid)]
    BY <2>1, <1>1, <1>2, <1>w, SubsFacts
  <2>2. ASSUME NEW i \in DOMAIN users[u].subs, NEW till \in {users[u].subs[i].until, now},
               users' = [users EXCEPT ![u].subs =
                            [users[u].subs EXCEPT ![i] = [users[u].subs[i] EXCEPT
                                !.status = "active", !.until = PlanTime + till]]]
        PROVE  \E r \in User : /\ users' = [users EXCEPT ![u] = r]
                               /\ DOMAIN users[u].subs \subseteq DOMAIN r.subs
    <3> DEFINE s == [users[u].subs[i] EXCEPT !.status = "active", !.until = PlanTime + till]
    <3>1. users[u].subs[i] \in Sub
      BY <1>1, <1>2, SubsFacts
    <3>2. s \in Sub
      <4>1. till \in Nat /\ PlanTime + till \in Nat
        BY <3>1, <1>1 DEF Sub
      <4> QED
        BY <3>1, <4>1 DEF Sub
    <3>3. users' = [users EXCEPT ![u].subs = [users[u].subs EXCEPT ![i] = s]]
      BY <2>2
    <3> HIDE DEF s
    <3> DEFINE q == [users[u].subs EXCEPT ![i] = s]
    <3>4. q \in Seq(Sub) /\ DOMAIN users[u].subs \subseteq DOMAIN q
      BY <3>2, <1>1, SubsFacts
    <3>5. users' = [users EXCEPT ![u].subs = q]
      BY <3>3
    <3> HIDE DEF q
    <3> QED
      BY <3>4, <3>5, <1>w
  <2> QED
    BY <1>3, <2>1, <2>2 DEF Buys
<1>4. CASE StartsTrial(u)
  <2> DEFINE r == [users[u] EXCEPT !.subs = Append(users[u].subs, Trial), !.tried = TRUE]
  <2>1. r \in User /\ r.subs = Append(users[u].subs, Trial)
    BY <1>1, <1>2, SubsFacts DEF User
  <2>2. users' = [users EXCEPT ![u] = r]
    BY <1>4 DEF StartsTrial
  <2> HIDE DEF r
  <2> QED
    BY <2>1, <2>2, <1>1, <1>2, SubsFacts
<1>5. CASE SubscriptionEnds(u)
  <2>1. PICK i \in DOMAIN users[u].subs :
           users' = [users EXCEPT ![u].subs = [users[u].subs EXCEPT ![i].status = "over"]]
    BY <1>5 DEF SubscriptionEnds
  <2> DEFINE s == [users[u].subs[i] EXCEPT !.status = "over"]
  <2>2. users[u].subs[i] \in Sub
    BY <1>1, <1>2, SubsFacts
  <2>3. s \in Sub
    BY <2>2 DEF Sub
  <2>4. users' = [users EXCEPT ![u].subs = [users[u].subs EXCEPT ![i] = s]]
    BY <2>1
  <2> HIDE DEF s
  <2> DEFINE q == [users[u].subs EXCEPT ![i] = s]
  <2>5. q \in Seq(Sub) /\ DOMAIN users[u].subs \subseteq DOMAIN q
    BY <2>3, <1>1, SubsFacts
  <2>6. users' = [users EXCEPT ![u].subs = q]
    BY <2>4
  <2> HIDE DEF q
  <2> QED
    BY <2>5, <2>6, <1>w
<1>6. CASE users' = [users EXCEPT ![u].traffic = now]
  <2> DEFINE r == [users[u] EXCEPT !.traffic = now]
  <2>1. r \in User /\ r.subs = users[u].subs /\ users' = [users EXCEPT ![u] = r]
    BY <1>1, <1>6 DEF User
  <2> QED
    BY <2>1
<1>7. CASE BanUser(u)
  <2> DEFINE r == [users[u] EXCEPT !.banned = TRUE]
  <2>1. r \in User /\ r.subs = users[u].subs /\ users' = [users EXCEPT ![u] = r]
    BY <1>1, <1>7 DEF User, BanUser
  <2> QED
    BY <2>1
<1> QED
  BY <1>3, <1>4, <1>5, <1>6, <1>7 DEF UserMoves

\* A user who changes is no longer claimed to meet a condition.
LEMMA UserStep ==
    ASSUME IInv, NEW u \in Users, UserMoves(u) \/ BanUser(u)
    PROVE  IInv'
<1>0. TypeOK /\ SendInv /\ TickInv /\ SpacedInv /\ now \in Nat
  BY NowFacts DEF IInv
<1>1. /\ UNCHANGED <<now, drafts, sends, req, inFlight, msgs, faults>>
      /\ moves' \in Nat /\ moves' + faults <= MaxTrouble /\ Moved({u})
  BY <1>0, BroadcastBounds DEF UserMoves, BanUser, TypeOK
<1>2. PICK r \in User : users' = [users EXCEPT ![u] = r]
  BY <1>0, UserChanges
<1>3. users' \in [Users -> User] /\ \A v \in Users \ {u} : users'[v] = users[v]
  BY <1>0, <1>2 DEF TypeOK
<1>4. /\ cron' \in Cron /\ cron'.seg = cron.seg /\ cron'.picked = cron.picked
      /\ cron'.at = cron.at /\ cron'.due = cron.due
      /\ cron.seg # 0 => cron'.moved = cron.moved \cup {u}
  BY <1>0, <1>1, MovedFacts
<1>5. TypeOK'
  BY <1>0, <1>1, <1>3, <1>4 DEF TypeOK, At
<1>6. faults' >= faults
  BY <1>0, <1>1 DEF TypeOK
<1>7. SendInv' /\ LossInv' /\ Tended' /\ RowsAreDisjoint' /\ LogInv'
  BY <1>1, <1>5, <1>6, CronFrame
<1>8. TickInv'
  <2>1. ASSUME NEW ps \in SUBSET Places, NEW seg, StillMeets(ps, seg), cron.seg # 0
        PROVE  StillMeets(ps, seg)'
    <3>1. \A p \in ps : p[1] \notin cron'.moved => users'[p[1]] = users[p[1]]
      BY <2>1, <1>3, <1>4, PlaceFacts
    <3>2. cron.moved \subseteq cron'.moved
      BY <2>1, <1>4
    <3> QED
      BY <2>1, <3>1, <3>2, <1>1, MeetsStays DEF StillMeets
  <2>2. \A d \in DOMAIN drafts : drafts[d].to \in SUBSET Places
    BY <1>0, DraftFacts
  <2>3. cron.picked # None => cron.picked \in SUBSET Places /\ cron.seg # 0
    BY <1>0 DEF TypeOK, Cron, Recipients, TickInv
  <2>4. ASSUME NEW d \in DOMAIN drafts, ThisTick(d)'
        PROVE  drafts[d].seg < cron.seg /\ StillMeets(drafts[d].to, drafts[d].seg)'
    <3>1. ThisTick(d) /\ cron.seg # 0
      BY <2>4, <1>1, <1>4 DEF ThisTick
    <3> QED
      BY <3>1, <2>1, <2>2, <1>0, <1>1 DEF TickInv
  <2>5. cron.picked # None => StillMeets(cron.picked, cron.seg)'
    BY <2>1, <2>3, <1>0, <1>4 DEF TickInv
  <2>6. \A d \in DOMAIN drafts' : ThisTick(d)' =>
          drafts'[d].seg < cron'.seg /\ StillMeets(drafts[d].to, drafts[d].seg)'
    BY <2>4, <1>1, <1>4
  <2>7. cron'.picked # None => StillMeets(cron.picked, cron.seg)'
    BY <2>5, <1>4
  <2> QED
    BY <2>6, <2>7, <1>0, <1>1, <1>4 DEF TickInv
<1>9. SpacedInv'
  BY <1>0, <1>1, <1>4 DEF SpacedInv, SpacedFrom
<1> QED
  BY <1>5, <1>7, <1>8, <1>9 DEF IInv

\* After a while everyone may have changed.
LEMMA ClockStep ==
    ASSUME IInv, Clock
    PROVE  IInv'
<1>0. TypeOK /\ SendInv /\ TickInv /\ SpacedInv /\ now \in Nat /\ MaxNow \in Nat
  BY NowFacts, BroadcastBounds DEF IInv
<1>1. /\ now' = now + 1 /\ now' \in 0 .. MaxNow /\ (cron.seg = 0 => now < cron.due)
      /\ UNCHANGED <<users, drafts, sends, req, inFlight, msgs, moves, faults>>
  BY <1>0 DEF Clock
<1>2. /\ cron' \in Cron /\ cron'.seg = cron.seg /\ cron'.picked = cron.picked
      /\ cron'.at = cron.at /\ cron'.due = cron.due /\ cron.at \in Nat /\ cron.due \in Nat
      /\ cron.seg # 0 => cron'.moved = cron.moved \cup Users
  BY <1>0, MovedFacts DEF Clock, TypeOK, Cron
<1>3. TypeOK'
  <2>1. /\ sends' \subseteq [draft : DOMAIN drafts', to : Places,
                             status : {"sent", "blocked", "failed"}, at : 0 .. now']
        /\ msgs' \subseteq [draft : DOMAIN drafts', to : Places, at : 0 .. now', text : Nat, nr : Nat]
    <3>1. 0 .. now \subseteq 0 .. now'
      BY <1>0, <1>1
    <3> QED
      BY <3>1, <1>0, <1>1 DEF TypeOK
  <2> QED
    BY <2>1, <1>0, <1>1, <1>2 DEF TypeOK, At
<1>4. faults' >= faults
  BY <1>0, <1>1 DEF TypeOK
<1>5. SendInv' /\ LossInv' /\ Tended' /\ RowsAreDisjoint' /\ LogInv'
  BY <1>1, <1>3, <1>4, CronFrame
<1>6. TickInv'
  <2>1. \A d \in DOMAIN drafts : drafts[d].to \in SUBSET Places /\ drafts[d].tick \in Nat
    BY <1>0, DraftFacts
  <2>2. cron.picked # None => cron.picked \in SUBSET Places /\ cron.seg # 0
    BY <1>0 DEF TypeOK, Cron, Recipients, TickInv
  <2>3. \A d \in DOMAIN drafts' : drafts'[d].tick <= now'
    BY <2>1, <1>0, <1>1 DEF TickInv
  <2>4. cron'.seg # 0 => cron'.due <= now'
    BY <1>0, <1>1, <1>2 DEF TickInv
  <2>p. ASSUME NEW ps \in SUBSET Places, NEW seg, cron.seg # 0
        PROVE  StillMeets(ps, seg)'
    BY <2>p, <1>2, PlaceFacts DEF StillMeets
  <2>5. ASSUME NEW d \in DOMAIN drafts, ThisTick(d)'
        PROVE  drafts[d].seg < cron.seg /\ StillMeets(drafts[d].to, drafts[d].seg)'
    <3>1. ThisTick(d) /\ cron.seg # 0
      BY <2>5, <1>1, <1>2 DEF ThisTick
    <3> QED
      BY <3>1, <2>1, <2>p, <1>0, <1>1 DEF TickInv
  <2>6. cron.picked # None => StillMeets(cron.picked, cron.seg)'
    BY <2>2, <2>p, <1>2
  <2>7. \A d \in DOMAIN drafts' : ThisTick(d)' =>
          drafts'[d].seg < cron'.seg /\ StillMeets(drafts[d].to, drafts[d].seg)'
    BY <2>5, <1>1, <1>2
  <2>8. cron'.picked # None => StillMeets(cron.picked, cron.seg)'
    BY <2>6, <1>2
  <2> QED
    BY <2>3, <2>4, <2>7, <2>8, <1>0, <1>1, <1>2 DEF TickInv
<1>7. SpacedInv'
  <2>1. \A d \in DOMAIN drafts : drafts[d].at \in Nat
    BY <1>0, DraftFacts
  <2> QED
    BY <2>1, <1>0, <1>1, <1>2 DEF SpacedInv, SpacedFrom
<1> QED
  BY <1>3, <1>5, <1>6, <1>7 DEF IInv

\* A run begins: no draft is from it.
LEMMA TickStep ==
    ASSUME IInv, Tick
    PROVE  IInv'
<1>0. TypeOK /\ SendInv /\ TickInv /\ SpacedInv
  BY DEF IInv
<1>1. /\ cron.seg = 0 /\ now >= cron.due
      /\ UNCHANGED <<now, users, drafts, sends, req, inFlight, msgs, moves, faults>>
  BY DEF Tick
<1>2. /\ cron' \in Cron /\ cron'.seg = 1 /\ cron'.picked = cron.picked
      /\ cron'.due = cron.due /\ cron.due \in Nat
  <2>1. cron \in Cron /\ 1 \in 0 .. Len(Segments)
    BY <1>0, FourSegments DEF TypeOK
  <2> DEFINE c == [cron EXCEPT !.seg = 1, !.moved = {}]
  <2>2. c \in Cron /\ c.seg = 1 /\ c.picked = cron.picked /\ c.due = cron.due /\ cron.due \in Nat
    BY <2>1 DEF Cron
  <2>3. cron' = c
    BY DEF Tick
  <2> QED
    BY <2>2, <2>3
<1>3. TypeOK'
  BY <1>0, <1>1, <1>2 DEF TypeOK, At
<1>4. faults' >= faults
  BY <1>0, <1>1 DEF TypeOK
<1>5. SendInv' /\ LossInv' /\ Tended' /\ RowsAreDisjoint' /\ LogInv'
  BY <1>1, <1>3, <1>4, CronFrame
<1>6. TickInv'
  <2>1. \A d \in DOMAIN drafts : ~ThisTick(d)'
    BY <1>0, <1>1, <1>2, DraftFacts DEF TickInv, ThisTick
  <2> QED
    BY <2>1, <1>0, <1>1, <1>2, NowFacts DEF TickInv
<1>7. SpacedInv'
  BY <1>0, <1>1, <1>2 DEF SpacedInv, SpacedFrom, TickInv
<1> QED
  BY <1>3, <1>5, <1>6, <1>7 DEF IInv

LEMMA NextSegmentStep ==
    ASSUME IInv, TypeOK', cron.seg # 0, NextSegment, faults' >= faults,
           UNCHANGED <<now, users, drafts, sends, req, inFlight, msgs>>
    PROVE  IInv'
<1>0. TypeOK /\ SendInv /\ TickInv /\ SpacedInv /\ now \in Nat
  BY NowFacts DEF IInv
<1>2. /\ cron' \in Cron /\ cron'.picked = None
      /\ \/ cron'.seg = 0 /\ cron'.due = NextRun(now)
         \/ /\ cron'.seg = cron.seg + 1 /\ cron'.due = cron.due /\ cron'.moved = cron.moved
  BY <1>0, NextSegmentFacts
<1>5. SendInv' /\ LossInv' /\ Tended' /\ RowsAreDisjoint' /\ LogInv'
  BY CronFrame
<1>f. cron.seg \in Nat /\ \A d \in DOMAIN drafts : drafts[d].seg \in Nat /\ drafts[d].tick \in Nat
  <2>1. cron.seg \in 0 .. 4
    BY <1>0, FourSegments DEF TypeOK, Cron
  <2> QED
    BY <2>1, <1>0, DraftFacts
<1>6. TickInv'
  <2>1. CASE cron'.seg = 0 /\ cron'.due = NextRun(now)
    <3>1. \A d \in DOMAIN drafts : drafts[d].tick < NextRun(now)
      BY <1>0, <1>f, NextRunFacts DEF TickInv
    <3> QED
      BY <3>1, <2>1, <1>0, <1>2 DEF TickInv, ThisTick
  <2>2. CASE cron'.seg = cron.seg + 1 /\ cron'.due = cron.due /\ cron'.moved = cron.moved
    <3>1. \A ps, seg : StillMeets(ps, seg) => StillMeets(ps, seg)'
      BY <2>2, MeetsStays DEF StillMeets
    <3>2. \A d \in DOMAIN drafts : ThisTick(d)' =>
          drafts[d].seg < cron'.seg /\ StillMeets(drafts[d].to, drafts[d].seg)
      BY <2>2, <1>0, <1>f DEF TickInv, ThisTick
    <3>3. cron'.seg # 0 /\ cron'.due <= now'
      BY <2>2, <1>0, <1>f DEF TickInv
    <3>4. \A d \in DOMAIN drafts' : drafts'[d].tick <= now'
      BY <1>0 DEF TickInv
    <3>5. \A d \in DOMAIN drafts' : ThisTick(d)' =>
          drafts'[d].seg < cron'.seg /\ StillMeets(drafts[d].to, drafts[d].seg)'
      BY <3>1, <3>2
    <3> QED
      BY <3>3, <3>4, <3>5, <1>2 DEF TickInv
  <2> QED
    BY <2>1, <2>2, <1>2
<1>7. SpacedInv'
  BY <1>0, <1>2 DEF SpacedInv, SpacedFrom
<1> QED
  BY <1>5, <1>6, <1>7 DEF IInv

LEMMA SegmentFailsStep ==
    ASSUME IInv, SegmentFails
    PROVE  IInv'
<1>0. TypeOK
  BY DEF IInv
<1>1. /\ cron.seg # 0 /\ NextSegment /\ UNCHANGED <<now, users, drafts, sends, req, inFlight, msgs, moves>>
      /\ faults' \in Nat /\ faults' = faults + 1 /\ moves + faults' <= MaxTrouble
  BY <1>0, FaultFacts DEF SegmentFails
<1>2. cron' \in Cron
  BY <1>0, <1>1, NextSegmentFacts
<1>3. TypeOK'
  BY <1>0, <1>1, <1>2 DEF TypeOK, At
<1>4. faults' >= faults
  BY <1>0, <1>1 DEF TypeOK
<1> QED
  BY <1>1, <1>3, <1>4, NextSegmentStep

\* Who is selected meets the condition and has had no message for a day.
LEMMA SelectionFacts ==
    ASSUME TypeOK, NEW seg \in 1 .. 4, NEW picked \in Selections(seg)
    PROVE  /\ picked \in SUBSET Places
           /\ \A p \in picked : Meets(seg, p) /\ SpacedFrom(now, p[1])
<1> DEFINE all == {p \in Places : /\ Meets(seg, p)
                                 /\ ~users[p[1]].banned
                                 /\ ~RecentlySent(seg, p[1])}
<1>1. picked \subseteq all
  <2>1. picked \in (IF seg = 1 /\ Cardinality(all) > DailyCap
                   THEN {s \in SUBSET all : Cardinality(s) = DailyCap} ELSE {all})
    BY DEF Selections
  <2> HIDE DEF all
  <2> QED
    BY <2>1
<1>2. ASSUME NEW u, ~RecentlySent(seg, u) PROVE SpacedFrom(now, u)
  <2>1. now \in Nat /\ Day \in Nat /\ \A s \in sends : s.at \in Nat
    BY NowFacts, BroadcastAssumption DEF TypeOK
  <2> QED
    BY <1>2, <2>1 DEF RecentlySent, SpacedFrom
<1> QED
  BY <1>1, <1>2

LEMMA SelectStep ==
    ASSUME IInv, SelectSegment
    PROVE  IInv'
<1>0. TypeOK /\ SendInv /\ TickInv /\ SpacedInv /\ now \in Nat
  BY NowFacts DEF IInv
<1>1. /\ cron.seg # 0 /\ cron.picked = None
      /\ UNCHANGED <<now, users, drafts, sends, req, inFlight, msgs, moves, faults>>
  BY DEF SelectSegment
<1>f. cron.seg \in 1 .. 4 /\ cron \in Cron /\ faults' >= faults
  BY <1>0, <1>1, FourSegments DEF TypeOK, Cron
<1>2. CASE NextSegment
  <2>1. cron' \in Cron
    BY <1>0, <1>1, <1>2, NextSegmentFacts
  <2>2. TypeOK'
    BY <1>0, <1>1, <2>1 DEF TypeOK, At
  <2> QED
    BY <1>1, <1>2, <1>f, <2>2, NextSegmentStep
<1>3. ASSUME NEW s \in Selections(cron.seg), s # {}, cron' = [cron EXCEPT !.picked = s, !.at = now]
      PROVE  IInv'
  <2>1. /\ s \in SUBSET Places
        /\ \A p \in s : Meets(cron.seg, p) /\ SpacedFrom(now, p[1])
    BY <1>0, <1>f, SelectionFacts
  <2>2. /\ cron' \in Cron /\ cron'.picked = s /\ cron'.at = now /\ cron'.seg = cron.seg
        /\ cron'.due = cron.due /\ cron'.moved = cron.moved
    <3> DEFINE c == [cron EXCEPT !.picked = s, !.at = now]
    <3>1. s \in Recipients
      BY <2>1, <1>3 DEF Recipients
    <3>2. /\ c \in Cron /\ c.picked = s /\ c.at = now /\ c.seg = cron.seg
          /\ c.due = cron.due /\ c.moved = cron.moved
      BY <3>1, <1>0, <1>f DEF Cron
    <3> QED
      BY <3>2, <1>3
  <2>3. TypeOK'
    BY <1>0, <1>1, <2>2 DEF TypeOK, At
  <2>4. SendInv' /\ LossInv' /\ Tended' /\ RowsAreDisjoint' /\ LogInv'
    BY <1>1, <1>f, <2>3, CronFrame
  <2>5. TickInv'
    <3>1. \A ps, seg : StillMeets(ps, seg) => StillMeets(ps, seg)'
      BY <1>1, <2>2, MeetsStays DEF StillMeets
    <3>2. \A d \in DOMAIN drafts : ThisTick(d)' =>
          drafts[d].seg < cron'.seg /\ StillMeets(drafts[d].to, drafts[d].seg)
      BY <1>0, <1>1, <2>2 DEF TickInv, ThisTick
    <3>3. \A d \in DOMAIN drafts' : ThisTick(d)' =>
          drafts'[d].seg < cron'.seg /\ StillMeets(drafts[d].to, drafts[d].seg)'
      BY <3>1, <3>2, <1>1
    <3>4. StillMeets(cron.picked, cron.seg)'
      <4>1. StillMeets(s, cron.seg)
        BY <2>1 DEF StillMeets
      <4> QED
        BY <4>1, <3>1, <2>2
    <3> QED
      BY <3>3, <3>4, <1>0, <1>1, <2>2 DEF TickInv
  <2>6. SpacedInv'
    BY <1>0, <1>1, <2>1, <2>2 DEF SpacedInv, SpacedFrom
  <2> QED
    BY <2>3, <2>4, <2>5, <2>6 DEF IInv
<1> QED
  BY <1>2, <1>3 DEF SelectSegment

\* The conditions of the segments exclude each other, for one subscription.
LEMMA SegmentsExclude ==
    ASSUME NEW a \in 1 .. 4, NEW b \in 1 .. 4, a < b, now \in Nat, NEW u \in User, NEW s \in Sub,
           InSegment(a, u, s), InSegment(b, u, s)
    PROVE  FALSE
<1>1. /\ s.until \in Nat /\ u.traffic \in Nat \cup {None} /\ Day \in Nat /\ ThreeDays \in Nat
  BY BroadcastAssumption DEF User, Sub
<1>2. /\ InSegment(1, u, s) => s.status = "trial" /\ s.until > now + Day
      /\ InSegment(2, u, s) => /\ s.status = "trial" /\ s.until <= now + Day
                               /\ (u.traffic = None \/ u.traffic + Day < now)
      /\ InSegment(3, u, s) => /\ s.status = "trial" /\ s.until <= now + Day
                               /\ u.traffic # None /\ u.traffic + Day >= now
      /\ InSegment(4, u, s) => s.status = "active"
  <2>1. InSegment(1, u, s) => s.status = "trial" /\ s.until > now + Day
    BY DEF InSegment, SelectTrialNeverConnected
  <2>2. InSegment(2, u, s) => /\ s.status = "trial" /\ s.until <= now + Day
                              /\ (u.traffic = None \/ u.traffic + Day < now)
    BY DEF InSegment, SelectTrialEndingIdle, TrialEnding
  <2>3. InSegment(3, u, s) => /\ s.status = "trial" /\ s.until <= now + Day
                              /\ u.traffic # None /\ u.traffic + Day >= now
    BY DEF InSegment, SelectTrialEndingActive, TrialEnding
  <2>4. InSegment(4, u, s) => s.status = "active"
    BY DEF InSegment, SelectPaidChurnRisk
  <2> QED
    BY <2>1, <2>2, <2>3, <2>4
<1>3. CASE a = 1 /\ b \in {2, 3}
  BY <1>1, <1>2, <1>3
<1>4. CASE b = 4
  BY <1>2, <1>4
<1>5. CASE a = 2 /\ b = 3
  <2>1. u.traffic \in Nat
    BY <1>1, <1>2, <1>5
  <2> QED
    BY <2>1, <1>1, <1>2, <1>5
<1> QED
  BY <1>3, <1>4, <1>5

LEMMA InsertDraftStep ==
    ASSUME IInv, InsertBroadcastDraft
    PROVE  IInv'
<1>0. TypeOK /\ SendInv /\ TickInv /\ SpacedInv /\ RowsAreDisjoint /\ now \in Nat
  BY NowFacts DEF IInv
<1>1. /\ cron.picked # None /\ Len(drafts) < MaxDrafts
      /\ UNCHANGED <<now, users, sends, req, inFlight, msgs, moves, faults>>
  BY DEF InsertBroadcastDraft
<1>2. /\ cron.seg \in 1 .. 4 /\ cron.picked \in Recipients /\ cron.picked \in SUBSET Places
      /\ cron.at \in Nat /\ cron.due \in Nat /\ cron.moved \in SUBSET Users
  BY <1>0, <1>1, FourSegments DEF TypeOK, Cron, Recipients, TickInv
<1>3. /\ cron' \in Cron /\ cron'.picked = None
      /\ \/ cron'.seg = 0 /\ cron'.due = NextRun(now)
         \/ /\ cron'.seg = cron.seg + 1 /\ cron'.due = cron.due /\ cron'.moved = cron.moved
  BY <1>0, <1>2, NextSegmentFacts DEF InsertBroadcastDraft
<1>4. PICK r \in Draft : /\ r.seg = cron.seg /\ r.to = cron.picked /\ r.status = "draft"
                         /\ r.at = cron.at /\ r.tick = cron.due /\ r.moved = cron.moved
                         /\ drafts' = Append(drafts, r)
  <2> DEFINE r == [seg |-> cron.seg, to |-> cron.picked, status |-> "draft",
                   text |-> 0, at |-> cron.at, tick |-> cron.due, moved |-> cron.moved]
  <2>1. r \in Draft
    BY <1>2, FourSegments DEF Draft, Statuses
  <2> QED
    BY <2>1 DEF InsertBroadcastDraft
<1>n. PICK n : n = Len(drafts) + 1
  OBVIOUS
<1>5. /\ drafts' \in Seq(Draft) /\ Len(drafts') = n /\ n <= MaxDrafts
      /\ DOMAIN drafts' = DOMAIN drafts \cup {n} /\ n \notin DOMAIN drafts
      /\ drafts'[n] = r /\ \A d \in DOMAIN drafts : drafts'[d] = drafts[d] /\ d \in Nat /\ d < n
      /\ n \in Nat
  BY <1>0, <1>1, <1>4, <1>n, DraftAppended, DraftFacts, BroadcastBounds
<1>f. \A d \in DOMAIN drafts : /\ drafts[d].seg \in 1 .. 4 /\ drafts[d].tick \in Nat /\ drafts[d].at \in Nat
                               /\ drafts[d].to \in SUBSET Places
  BY <1>0, DraftFacts
<1>r. \A g \in Requests : req[g] # None => req[g].draft \in DOMAIN drafts
  BY <1>0, ReqFacts
<1>6. TypeOK'
  <2>1. \A h \in Requests : req'[h] # None => /\ req'[h].draft \in DOMAIN drafts'
                                              /\ req'[h].todo \subseteq drafts'[req'[h].draft].to
    BY <1>0, <1>1, <1>5, ReqFacts
  <2>2. /\ sends' \subseteq [draft : DOMAIN drafts', to : Places,
                             status : {"sent", "blocked", "failed"}, at : 0 .. now']
        /\ \A s \in sends' : s.to \in drafts'[s.draft].to
        /\ msgs' \subseteq [draft : DOMAIN drafts', to : Places, at : 0 .. now', text : Nat, nr : Nat]
    BY <1>0, <1>1, <1>5 DEF TypeOK
  <2>3. inFlight' = {req'[g].draft : g \in {k \in Requests : At(k, "loop")'}}
    BY <1>0, <1>1 DEF TypeOK, At
  <2> QED
    BY <2>1, <2>2, <2>3, <1>0, <1>1, <1>3, <1>5 DEF TypeOK
<1>7. SendInv'
  BY <1>0, <1>1, <1>4, <1>6, SendInserted
<1>8. LossInv'
  <2>1. \A d \in DOMAIN drafts', p \in Places : Silent(d, p)' => d \in DOMAIN drafts /\ Silent(d, p)
    <3> SUFFICES ASSUME NEW d \in DOMAIN drafts', NEW p \in Places, Silent(d, p)'
                 PROVE  d \in DOMAIN drafts /\ Silent(d, p)
      OBVIOUS
    <3>1. d # n
      BY <1>1, <1>4, <1>5, <1>r DEF Silent, At
    <3>2. d \in DOMAIN drafts /\ drafts'[d] = drafts[d]
      BY <3>1, <1>5
    <3> QED
      BY <3>2, <1>1 DEF Silent, HasEntry, At
  <2>2. faults' >= faults
    BY <1>0, <1>1 DEF TypeOK
  <2> QED
    BY <2>1, <2>2, <1>0, <1>6, LossStays DEF IInv
<1>9. Tended'
  BY <1>1, <1>4, <1>5 DEF IInv, Tended, Sender
<1>10. TickInv'
  <2>2. \A d \in DOMAIN drafts' : drafts'[d].tick <= now /\ drafts'[d].tick \in Nat
    BY <1>0, <1>2, <1>4, <1>5, <1>f DEF TickInv
  <2>3. CASE cron'.seg = 0 /\ cron'.due = NextRun(now)
    <3>1. \A d \in DOMAIN drafts' : drafts'[d].tick < NextRun(now)
      BY <2>2, <1>0, NextRunFacts
    <3> QED
      BY <2>2, <2>3, <3>1, <1>1, <1>3 DEF TickInv, ThisTick
  <2>4. CASE cron'.seg = cron.seg + 1 /\ cron'.due = cron.due /\ cron'.moved = cron.moved
    <3>1. ASSUME NEW d \in DOMAIN drafts', ThisTick(d)'
          PROVE  /\ drafts'[d].seg < cron'.seg
                 /\ StillMeets(drafts'[d].to, drafts'[d].seg)
      <4>1. CASE d = n
        BY <4>1, <2>4, <1>0, <1>1, <1>2, <1>4, <1>5 DEF TickInv
      <4>2. CASE d # n
        <5>1. d \in DOMAIN drafts /\ drafts'[d] = drafts[d] /\ ThisTick(d)
          BY <3>1, <4>2, <2>4, <1>2, <1>5 DEF ThisTick
        <5> QED
          BY <5>1, <2>4, <1>0, <1>2, <1>f DEF TickInv
      <4> QED
        BY <4>1, <4>2
    <3>m. \A ps, seg : StillMeets(ps, seg) => StillMeets(ps, seg)'
      BY <2>4, <1>1, MeetsStays DEF StillMeets
    <3>2. \A d \in DOMAIN drafts' : ThisTick(d)' =>
          drafts'[d].seg < cron'.seg /\ StillMeets(drafts[d].to, drafts[d].seg)'
      BY <3>1, <3>m
    <3>3. cron'.seg # 0 /\ cron'.due <= now'
      BY <2>4, <1>0, <1>1, <1>2 DEF TickInv
    <3> QED
      BY <2>2, <3>2, <3>3, <1>1, <1>3 DEF TickInv
  <2> QED
    BY <2>3, <2>4, <1>3
<1>11. RowsAreDisjoint'
  <2> SUFFICES ASSUME NEW c \in DOMAIN drafts', NEW d \in DOMAIN drafts', c < d,
                      drafts'[c].tick = drafts'[d].tick
               PROVE  \A p \in drafts'[c].to \cap drafts'[d].to : p[1] \in drafts'[d].moved
    BY DEF RowsAreDisjoint
  <2>1. c \in DOMAIN drafts /\ drafts'[c] = drafts[c]
    BY <1>5
  <2>2. CASE d # n
    BY <2>1, <2>2, <1>0, <1>5 DEF RowsAreDisjoint
  <2>3. CASE d = n
    <3>1. ThisTick(c) /\ drafts[c].seg \in 1 .. 4 /\ drafts[c].seg < cron.seg
      BY <2>1, <2>3, <1>0, <1>2, <1>4, <1>5, <1>f DEF ThisTick, TickInv
    <3>2. ASSUME NEW p \in drafts[c].to, p \in cron.picked, p[1] \notin cron.moved PROVE FALSE
      <4>1. Meets(drafts[c].seg, p) /\ Meets(cron.seg, p)
        BY <2>1, <3>1, <3>2, <1>0, <1>1 DEF TickInv, StillMeets
      <4>2. users[p[1]] \in User
        BY <3>2, <1>0, <1>2, PlaceFacts DEF TypeOK
      <4>3. users[p[1]].subs[p[2]] \in Sub
        BY <4>1, <4>2, SubsFacts DEF Meets, User
      <4> QED
        BY <4>1, <4>2, <4>3, <3>1, <1>0, <1>2, SegmentsExclude DEF Meets
    <3> QED
      BY <3>2, <2>1, <2>3, <1>4, <1>5
  <2> QED
    BY <2>2, <2>3
<1>12. SpacedInv'
  <2>1. \A at, u : SpacedFrom(at, u)' <=> SpacedFrom(at, u)
    BY <1>1 DEF SpacedFrom
  <2>2. \A d \in DOMAIN drafts' : /\ drafts'[d].at <= now'
                                  /\ \A p \in drafts'[d].to : SpacedFrom(drafts'[d].at, p[1])
    BY <1>0, <1>1, <1>4, <1>5 DEF SpacedInv
  <2>3. \A d \in DOMAIN drafts' : \A p \in drafts'[d].to : SpacedFrom(drafts[d].at, p[1])'
    BY <2>1, <2>2
  <2>4. \A m \in msgs' : drafts'[m.draft].at <= m.at
    <3>1. \A m \in msgs : m.draft \in DOMAIN drafts
      BY <1>0 DEF TypeOK
    <3> QED
      BY <3>1, <1>0, <1>1, <1>5 DEF SpacedInv
  <2> QED
    BY <2>2, <2>3, <2>4, <1>3 DEF SpacedInv
<1>13. LogInv'
  BY <1>1 DEF IInv, LogInv, Logged, Elsewhere, AtHand, At
<1> QED
  BY <1>6, <1>7, <1>8, <1>9, <1>10, <1>11, <1>12, <1>13 DEF IInv

-----------------------------------------------------------------------------
(* The invariant.                                                            *)

LEMMA InvInit ==
    ASSUME Init
    PROVE  IInv
<1>1. now \in 0 .. MaxNow /\ now \in Nat
  BY BroadcastAssumption, BroadcastBounds DEF Init
<1>2. drafts = <<>> /\ sends = {} /\ msgs = {} /\ inFlight = {} /\ moves = 0 /\ faults = 0
  BY DEF Init
<1>3. \A h \in Requests : req[h] = None
  BY DEF Init
<1>4. DOMAIN drafts = {} /\ Len(drafts) = 0 /\ drafts \in Seq(Draft)
  BY <1>2
<1>5. users \in [Users -> User]
  <2>1. TrialTime \in Nat /\ PlanTime \in Nat
    BY BroadcastAssumption
  <2>2. Trial \in Sub /\ Paid \in Sub
    BY <1>1, <2>1 DEF Trial, Paid, Sub
  <2>3. \A s \in Sub : Newcomer(s) \in User
    BY DEF Newcomer, User
  <2> QED
    BY <2>2, <2>3 DEF Init
<1>6. cron \in Cron /\ cron.seg = 0 /\ cron.picked = None
  BY <1>1, NextRunFacts, FourSegments DEF Init, Sleeping, Cron
<1>7. TypeOK
  <2>1. req \in [Requests -> Request \cup {None}]
    BY DEF Init
  <2>2. inFlight = {req[h].draft : h \in {g \in Requests : At(g, "loop")}}
    BY <1>2, <1>3 DEF At
  <2>3. moves + faults <= MaxTrouble /\ Len(drafts) <= MaxDrafts
    BY <1>2, <1>4, BroadcastBounds
  <2> QED
    BY <1>1, <1>2, <1>3, <1>4, <1>5, <1>6, <2>1, <2>2, <2>3 DEF TypeOK
<1>8. SendInv
  BY <1>2, <1>3, <1>4 DEF SendInv, OneSender, Sender, SenderInv, At, Untouched, MsgsOK
<1>9. LossInv
  <2>1. SilentNow = {}
    BY <1>4 DEF SilentNow
  <2> QED
    BY <2>1, <1>2, FS_EmptySet DEF LossInv
<1>10. Tended /\ TickInv /\ RowsAreDisjoint /\ SpacedInv /\ LogInv
  BY <1>2, <1>4, <1>6 DEF Tended, TickInv, RowsAreDisjoint, SpacedInv, LogInv
<1> QED
  BY <1>7, <1>8, <1>9, <1>10 DEF IInv

LEMMA InvStep ==
    ASSUME IInv, [Next]_vars
    PROVE  IInv'
<1>1. CASE UNCHANGED vars
  <2>1. /\ now' = now /\ users' = users /\ cron' = cron /\ drafts' = drafts /\ sends' = sends
        /\ req' = req /\ inFlight' = inFlight /\ msgs' = msgs /\ moves' = moves /\ faults' = faults
    BY <1>1 DEF vars
  <2>2. TypeOK'
    BY <2>1 DEF IInv, TypeOK, At
  <2>3. faults' >= faults
    BY <2>1 DEF IInv, TypeOK
  <2>4. SendInv' /\ LossInv' /\ Tended' /\ RowsAreDisjoint' /\ LogInv'
    BY <2>1, <2>2, <2>3, CronFrame
  <2>5. TickInv' /\ SpacedInv'
    BY <2>1, <2>2, CronStill DEF DraftsKeep, Dated
  <2> QED
    BY <2>2, <2>4, <2>5 DEF IInv
<1>2. CASE Clock \/ Tick \/ SelectSegment \/ InsertBroadcastDraft \/ SegmentFails \/ Crash
  BY <1>2, ClockStep, TickStep, SelectStep, InsertDraftStep, SegmentFailsStep, CrashStep
<1>3. CASE \E u \in Users : UserMoves(u) \/ BanUser(u)
  BY <1>3, UserStep
<1>4. CASE \E d \in DOMAIN drafts : \/ CancelBroadcast(d) \/ UpdateDraftFields(d)
                                    \/ \E h \in Requests : ApproveBroadcast(h, d)
  BY <1>4, EditStep, ReadStep
<1>5. CASE \E h \in Requests : \/ Approve(h) \/ Send(h) \/ InsertSend(h)
                               \/ FinishSend(h) \/ RequestFails(h)
                               \/ \E p \in Places : SendOne(h, p)
  BY <1>5, ApproveStep, SendStep, InsertSendStep, FinishStep, FailStep, SendOneStep
<1> QED
  BY <1>1, <1>2, <1>3, <1>4, <1>5 DEF Next

LEMMA Invariant == Spec => []IInv
<1>1. Init => IInv
  BY InvInit
<1>2. IInv /\ [Next]_vars => IInv'
  BY InvStep
<1> QED
  BY <1>1, <1>2, PTL DEF Spec

-----------------------------------------------------------------------------
(* The rows behind the places of a list.                                     *)

\* A place is that of a row, which stays.
RowsOf(ps) == \A p \in ps : p[2] \in DOMAIN users[p[1]].subs
Listed == /\ \A d \in DOMAIN drafts : RowsOf(drafts[d].to)
          /\ cron.picked # None => RowsOf(cron.picked)

LEMMA ListedStays ==
    ASSUME TypeOK, Listed,
           \A u \in Users : DOMAIN users[u].subs \subseteq DOMAIN users'[u].subs,
           \A d \in DOMAIN drafts' : \/ d \in DOMAIN drafts /\ drafts'[d].to = drafts[d].to
                                     \/ cron.picked # None /\ drafts'[d].to = cron.picked,
           cron'.picked # None => cron'.picked = cron.picked
    PROVE  Listed'
<1>1. \A d \in DOMAIN drafts : drafts[d].to \in SUBSET Places
  BY DraftFacts
<1>2. cron.picked # None => cron.picked \in SUBSET Places
  BY DEF TypeOK, Cron, Recipients
<1>3. \A ps \in SUBSET Places : RowsOf(ps) => RowsOf(ps)'
  BY PlaceFacts DEF RowsOf
<1>4. ASSUME NEW d \in DOMAIN drafts' PROVE RowsOf(drafts[d].to)'
  BY <1>1, <1>2, <1>3, <1>4 DEF Listed
<1>5. cron'.picked # None => RowsOf(cron.picked)'
  BY <1>2, <1>3 DEF Listed
<1> QED
  BY <1>4, <1>5 DEF Listed

LEMMA ListedStep ==
    ASSUME IInv, Listed, [Next]_vars
    PROVE  Listed'
<1>t. TypeOK /\ SendInv /\ TickInv /\ drafts \in Seq(Draft)
  BY DEF IInv, TypeOK
<1>u. ASSUME users' = users
      PROVE  \A u \in Users : DOMAIN users[u].subs \subseteq DOMAIN users'[u].subs
  BY <1>u
<1>d. ASSUME drafts' = drafts
      PROVE  \A d \in DOMAIN drafts' : d \in DOMAIN drafts /\ drafts'[d].to = drafts[d].to
  BY <1>d
<1>1. CASE Clock \/ \E u \in Users : UserMoves(u) \/ BanUser(u)
  <2>1. cron'.picked = cron.picked /\ drafts' = drafts
    BY <1>t, <1>1, MovedFacts DEF Clock, UserMoves, BanUser
  <2>2. CASE Clock
    BY <1>t, <1>u, <1>d, <2>1, <2>2, ListedStays DEF Clock
  <2>3. ASSUME NEW u \in Users, UserMoves(u) \/ BanUser(u) PROVE Listed'
    <3>1. PICK r \in User : /\ users' = [users EXCEPT ![u] = r]
                           /\ DOMAIN users[u].subs \subseteq DOMAIN r.subs
      BY <1>t, <2>3, UserChanges
    <3>2. \A v \in Users : DOMAIN users[v].subs \subseteq DOMAIN users'[v].subs
      BY <1>t, <3>1 DEF TypeOK
    <3> QED
      BY <1>t, <1>d, <2>1, <3>2, ListedStays
  <2> QED
    BY <1>1, <2>2, <2>3
<1>2. CASE Tick \/ SegmentFails \/ Crash
  <2>1. cron'.picked # None => cron'.picked = cron.picked
    <3>1. CASE Tick
      BY <1>t, <3>1 DEF Tick, TypeOK, Cron
    <3>2. CASE SegmentFails
      BY <1>t, <3>2, NextSegmentFacts DEF SegmentFails
    <3>3. CASE Crash
      BY <3>3 DEF Crash, Sleeping
    <3> QED
      BY <1>2, <3>1, <3>2, <3>3
  <2> QED
    BY <1>t, <1>u, <1>d, <1>2, <2>1, ListedStays DEF Tick, SegmentFails, Crash
<1>3. CASE SelectSegment
  <2>0. /\ cron.seg # 0 /\ cron.seg \in 1 .. 4 /\ cron \in Cron
        /\ users' = users /\ drafts' = drafts
    BY <1>t, <1>3, FourSegments DEF SelectSegment, TypeOK, Cron
  <2>1. CASE NextSegment
    BY <1>t, <1>u, <1>d, <2>0, <2>1, NextSegmentFacts, ListedStays
  <2>2. ASSUME NEW s \in Selections(cron.seg), cron' = [cron EXCEPT !.picked = s, !.at = now]
        PROVE  Listed'
    <3>1. RowsOf(s)
      BY <1>t, <2>0, SelectionFacts DEF RowsOf, Meets
    <3>2. cron'.picked = s
      BY <2>0, <2>2 DEF Cron
    <3> QED
      BY <2>0, <3>1, <3>2 DEF Listed, RowsOf
  <2> QED
    BY <1>3, <2>1, <2>2 DEF SelectSegment
<1>4. CASE InsertBroadcastDraft
  <2>1. /\ cron.seg # 0 /\ cron.picked # None /\ NextSegment /\ users' = users
    BY <1>t, <1>4 DEF InsertBroadcastDraft, TickInv
  <2>2. \A d \in DOMAIN drafts' : \/ d \in DOMAIN drafts /\ drafts'[d].to = drafts[d].to
                                  \/ drafts'[d].to = cron.picked
    BY <1>t, <1>4, AppendProperties, LenProperties DEF InsertBroadcastDraft
  <2> QED
    BY <1>t, <1>u, <2>1, <2>2, NextSegmentFacts, ListedStays
<1>5. CASE \/ \E d \in DOMAIN drafts : \/ CancelBroadcast(d) \/ UpdateDraftFields(d)
                                      \/ \E h \in Requests : ApproveBroadcast(h, d)
           \/ \E h \in Requests : \/ Approve(h) \/ Send(h) \/ InsertSend(h)
                                  \/ FinishSend(h) \/ RequestFails(h)
                                  \/ \E p \in Places : SendOne(h, p)
           \/ UNCHANGED vars
  <2>1. users' = users /\ cron' = cron
    BY <1>5 DEF CancelBroadcast, UpdateDraftFields, ApproveBroadcast, Approve, Send, InsertSend,
       FinishSend, RequestFails, SendOne, vars
  <2>2. \/ drafts' = drafts
        \/ \E d, f, g : drafts' = UpdateDraftStatus(d, f, g)
        \/ \E d : drafts' = [drafts EXCEPT ![d].text = @ + 1]
    BY <1>5 DEF CancelBroadcast, UpdateDraftFields, ApproveBroadcast, Approve, Send, InsertSend,
       FinishSend, RequestFails, SendOne, vars
  <2>3. \A d \in DOMAIN drafts' : d \in DOMAIN drafts /\ drafts'[d].to = drafts[d].to
    <3>1. \A d \in DOMAIN drafts : drafts[d] \in Draft
      BY <1>t, DraftFacts
    <3>2. CASE \E d, f, g : drafts' = UpdateDraftStatus(d, f, g)
      BY <3>1, <3>2 DEF UpdateDraftStatus, Draft
    <3>3. CASE \E d : drafts' = [drafts EXCEPT ![d].text = @ + 1]
      BY <3>1, <3>3 DEF Draft
    <3> QED
      BY <2>2, <3>2, <3>3
  <2> QED
    BY <1>t, <1>u, <2>1, <2>3, ListedStays
<1> QED
  BY <1>1, <1>2, <1>3, <1>4, <1>5 DEF Next

LEMMA RowsListed == Spec => []Listed
<1>1. Init => Listed
  <2> SUFFICES ASSUME Init PROVE Listed
    OBVIOUS
  <2>1. drafts = <<>> /\ cron.picked = None
    BY DEF Init, Sleeping
  <2> QED
    BY <2>1 DEF Listed
<1>2. IInv /\ Listed /\ [Next]_vars => Listed'
  BY ListedStep
<1> QED
  BY <1>1, <1>2, Invariant, PTL DEF Spec

\* Whoever has two places in lists has two rows.
LEMMA TwoPlaces ==
    ASSUME TypeOK, NEW p \in Places, NEW q \in Places, p # q, p[1] = q[1],
           RowsOf({p}), RowsOf({q})
    PROVE  Len(users[p[1]].subs) > 1
<1>1. p = <<p[1], p[2]>> /\ q = <<q[1], q[2]>> /\ p[1] \in Users
  BY DEF Places
<1>2. p[2] # q[2] /\ p[2] \in DOMAIN users[p[1]].subs /\ q[2] \in DOMAIN users[p[1]].subs
  BY <1>1 DEF RowsOf
<1>3. users[p[1]].subs \in Seq(Sub)
  BY <1>1 DEF TypeOK, User
<1> QED
  BY <1>2, <1>3, LenProperties

-----------------------------------------------------------------------------
(* The theorems.                                                             *)

\* Drafts, log, requests and messages are what the code keeps, an entry is only
\* of a recipient, and inFlight holds the drafts of the goroutines in the loop.
THEOREM TypeCorrect == Spec => []TypeOK
BY Invariant, PTL DEF IInv

\* BroadcastSender sends a draft once, to each place of its list once, and only
\* a draft that ApproveBroadcast has approved, from however many buttons,
\* commands and goroutines: a user gets it twice only if he has two
\* subscriptions, for each of which recipient_ids names him.
THEOREM SentOnce == Spec => []SentOnceAndApproved
<1>1. ASSUME IInv, Listed PROVE SentOnceAndApproved
  <2>1. /\ \A m \in msgs : m.nr = 1 /\ drafts[m.draft].status \in {"sending", "sent"}
        /\ \A m, n \in msgs : m.draft = n.draft /\ m.to = n.to => m = n
        /\ TextIsTheApproved
    BY <1>1 DEF IInv, SendInv, MsgsOK, Begun, TextIsTheApproved
  <2>2. ASSUME NEW m \in msgs, NEW n \in msgs, m.draft = n.draft, m.to[1] = n.to[1], m # n
        PROVE  Len(users[m.to[1]].subs) > 1
    <3>1. /\ m.to \in Places /\ n.to \in Places /\ m.to # n.to /\ m.draft \in DOMAIN drafts
          /\ m.to \in drafts[m.draft].to /\ n.to \in drafts[m.draft].to
      BY <1>1, <2>1, <2>2 DEF IInv, TypeOK, SendInv, MsgsOK
    <3>2. RowsOf({m.to}) /\ RowsOf({n.to})
      BY <1>1, <3>1 DEF Listed, RowsOf
    <3> QED
      BY <1>1, <2>2, <3>1, <3>2, TwoPlaces DEF IInv
  <2> QED
    BY <2>1, <2>2 DEF SentOnceAndApproved
<1> QED
  BY <1>1, Invariant, RowsListed, PTL

\* The text that Send read is the text that was approved: UpdateBroadcast writes
\* a draft only.
THEOREM ApprovedText == Spec => []TextIsTheApproved
<1>1. IInv => TextIsTheApproved
  BY DEF IInv, SendInv, MsgsOK, TextIsTheApproved
<1> QED
  BY <1>1, Invariant, PTL

\* The selectors keep two messages a day apart, unless the second draft was
\* selected before the first message had its entry in broadcast_sends, or the
\* entry was lost or wrong or is that of another place of the same user.
THEOREM Crowding == Spec => []CrowdingIsOldDrafts
<1>1. ASSUME IInv PROVE CrowdingIsOldDrafts
  <2> SUFFICES ASSUME NEW m \in msgs, NEW n \in msgs, m.to[1] = n.to[1], m.draft # n.draft,
                      m.at <= n.at, n.at < m.at + Day, ~(faults > 0)
               PROVE  \/ \E s \in sends : /\ s.draft = m.draft /\ s.to[1] = m.to[1]
                                          /\ \/ s.status = "sent" /\ drafts[n.draft].at <= s.at
                                             \/ s.to # m.to /\ (s.status = "sent" => s.at < m.at)
                      \/ \E h \in Requests : At(h, "loop") /\ req[h].draft = m.draft /\ req[h].row # None
    BY DEF CrowdingIsOldDrafts
  <2>0. TypeOK
    BY <1>1 DEF IInv
  <2>1. faults = 0
    BY <2>0 DEF TypeOK
  <2>2. Logged(m) \/ Elsewhere(m) \/ AtHand(m)
    BY <1>1, <2>1 DEF IInv, LogInv
  <2>3. /\ n.draft \in DOMAIN drafts /\ m.at \in Nat /\ n.at \in Nat /\ Day \in Nat
        /\ drafts[n.draft].at \in Nat /\ drafts[n.draft].at <= n.at
    <3>1. n.draft \in DOMAIN drafts /\ m.at \in Nat /\ n.at \in Nat
      BY <2>0 DEF TypeOK
    <3> QED
      BY <1>1, <2>0, <3>1, DraftFacts, BroadcastAssumption DEF IInv, SpacedInv
  <2>4. n.to \in drafts[n.draft].to
    BY <1>1 DEF IInv, SendInv, MsgsOK
  <2>5. ASSUME NEW s \in sends, s.to[1] = m.to[1], s.status = "sent", m.at <= s.at
        PROVE  drafts[n.draft].at <= s.at
    <3>1. s.at \in Nat /\ SpacedFrom(drafts[n.draft].at, n.to[1])
      BY <1>1, <2>0, <2>3, <2>4 DEF IInv, SpacedInv, TypeOK
    <3>2. s.at < drafts[n.draft].at => s.at + Day <= drafts[n.draft].at
      BY <2>5, <3>1 DEF SpacedFrom
    <3> QED
      BY <2>3, <2>5, <3>1, <3>2
  <2>6. CASE AtHand(m)
    BY <2>6 DEF AtHand
  <2>7. CASE Logged(m)
    BY <2>5, <2>7 DEF Logged
  <2>8. ASSUME NEW s \in sends, s.draft = m.draft, s.to[1] = m.to[1], s.to # m.to
        PROVE  \/ s.status = "sent" /\ drafts[n.draft].at <= s.at
               \/ s.to # m.to /\ (s.status = "sent" => s.at < m.at)
    <3>1. s.at \in Nat
      BY <2>0 DEF TypeOK
    <3> QED
      BY <2>3, <2>5, <2>8, <3>1
  <2> QED
    BY <2>2, <2>6, <2>7, <2>8 DEF Elsewhere
<1> QED
  BY <1>1, Invariant, PTL

\* A user is in two segments of one run of RetentionCron only if he changed, or
\* time passed, between the two selections, or with two subscriptions of his.
THEOREM Disjoint == Spec => []SegmentsAreDisjoint
<1>1. ASSUME IInv, Listed PROVE SegmentsAreDisjoint
  <2> SUFFICES ASSUME NEW c \in DOMAIN drafts, NEW d \in DOMAIN drafts,
                      c < d, drafts[c].tick = drafts[d].tick,
                      NEW p \in drafts[c].to, NEW q \in drafts[d].to, p[1] = q[1]
               PROVE  p[1] \in drafts[d].moved \/ (p # q /\ Len(users[p[1]].subs) > 1)
    BY DEF SegmentsAreDisjoint
  <2>1. CASE p = q
    BY <1>1, <2>1 DEF IInv, RowsAreDisjoint
  <2>2. CASE p # q
    <3>1. p \in Places /\ q \in Places
      BY <1>1, DraftFacts DEF IInv
    <3>2. RowsOf({p}) /\ RowsOf({q})
      BY <1>1 DEF Listed, RowsOf
    <3> QED
      BY <1>1, <2>2, <3>1, <3>2, TwoPlaces DEF IInv
  <2> QED
    BY <2>1, <2>2
<1> QED
  BY <1>1, Invariant, RowsListed, PTL

\* Every place that a finished broadcast passed over without an entry costs
\* a failure, and a draft approved or half sent has its goroutine unless a call
\* or the service failed.
THEOREM Losses == Spec => []LossesAreFaults
<1>1. ASSUME IInv PROVE LossesAreFaults
  <2> DEFINE stuck == {d \in DOMAIN drafts : /\ drafts[d].status \in {"approved", "sending"}
                                            /\ ~\E h \in Requests : /\ req[h] # None
                                                                    /\ req[h].draft = d
                                                                    /\ req[h].pc # "approve"}
  <2> DEFINE silent == {x \in (DOMAIN drafts) \X Places :
                         /\ drafts[x[1]].status = "sent" /\ x[2] \in drafts[x[1]].to
                         /\ ~\E s \in sends : s.draft = x[1] /\ s.to[1] = x[2][1]}
  <2>1. silent \subseteq SilentNow
    BY DEF SilentNow, Silent, HasEntry
  <2>2. Cardinality(silent) <= faults
    <3>1. IsFiniteSet(SilentNow) /\ Cardinality(SilentNow) <= faults /\ faults \in Nat
      BY <1>1 DEF IInv, LossInv, TypeOK
    <3>2. Cardinality(silent) <= Cardinality(SilentNow) /\ IsFiniteSet(silent)
      BY <2>1, <3>1, FS_Subset
    <3>3. Cardinality(silent) \in Nat /\ Cardinality(SilentNow) \in Nat
      BY <3>1, <3>2, FS_CardinalityType
    <3> QED
      BY <3>1, <3>2, <3>3
  <2>3. stuck # {} => faults > 0
    BY <1>1 DEF IInv, Tended, Sender, TypeOK, Request
  <2> QED
    BY <2>2, <2>3 DEF LossesAreFaults
<1> QED
  BY <1>1, Invariant, PTL

-----------------------------------------------------------------------------
(* The promise.                                                              *)
(*                                                                         *)
(* A step of Broadcast is a step of DraftLifecycle or none: what a request *)
(* knows of its draft is what the promise asks for, and the sender's row   *)
(* tells what became of the message it stands for.                         *)

\* The row that a sender is about to log is true.
TruthInv ==
    \A h \in Requests : At(h, "loop") /\ req[h].row # None =>
        /\ req[h].row.status = "sent" => SentTo(req[h].draft, req[h].row.to)
        /\ req[h].row.status = "blocked" => ~SentTo(req[h].draft, req[h].row.to)

\* No row to log comes up, and nobody gets a message.
LEMMA TruthStays ==
    ASSUME TruthInv, msgs' = msgs,
           \A h \in Requests : \/ req'[h] = req[h] \/ req'[h] = None
                               \/ req'[h].row = None
    PROVE  TruthInv'
BY DEF TruthInv, At, SentTo

LEMMA TruthTries ==
    ASSUME IInv, TruthInv, NEW h \in Requests, NEW p \in Places, SendOne(h, p)
    PROVE  TruthInv'
<1>t. TypeOK /\ SendInv
  BY DEF IInv
<1>d. PICK d \in DOMAIN drafts : d = req[h].draft
  BY <1>t, SendOneEffect, ReqFacts
<1>0. At(h, "loop") /\ req[h] # None /\ req[h] \in Request /\ ~SentTo(d, p)
  BY <1>t, <1>d, SendOneEffect, ReqFacts DEF At
<1>1. PICK r \in Result, arrives \in BOOLEAN :
          /\ r.to = p
          /\ r.status = "sent" => arrives
          /\ r.status = "blocked" => ~arrives
          /\ arrives => \E m : m.draft = d /\ m.to = p /\ msgs' = msgs \cup {m}
          /\ ~arrives => msgs' = msgs
          /\ req' = [req EXCEPT ![h].row = r]
  BY <1>d DEF SendOne, Outcome, Result
<1>2. /\ req'[h].row = r /\ req'[h].draft = d /\ req'[h].pc = "loop"
      /\ \A g \in Requests \ {h} : req'[g] = req[g]
  <2> DEFINE t == [req[h] EXCEPT !.row = r]
  <2>1. t \in Request /\ t.row = r /\ t.draft = d /\ t.pc = "loop"
    BY <1>0, <1>d DEF Request, At
  <2>2. req' = [req EXCEPT ![h] = t]
    BY <1>0, <1>1, <1>t DEF TypeOK
  <2> HIDE DEF t
  <2> QED
    BY <1>t, <2>1, <2>2, ReqMoves
<1>3. /\ r.status = "sent" => SentTo(d, p)'
      /\ r.status = "blocked" => ~SentTo(d, p)'
  BY <1>0, <1>1, <1>2 DEF SentTo
<1>4. ASSUME NEW g \in Requests \ {h}, At(g, "loop")
      PROVE  \A v : SentTo(req[g].draft, v)' <=> SentTo(req[g].draft, v)
  <2>1. req[g].draft # d
    BY <1>t, <1>0, <1>d, <1>4 DEF SendInv, OneSender, Sender, At
  <2> QED
    BY <2>1, <1>1, <1>2, <1>4 DEF SentTo
<1>5. ASSUME NEW g \in Requests, At(g, "loop")', req'[g].row # None
      PROVE  /\ req'[g].row.status = "sent" => SentTo(req[g].draft, req[g].row.to)'
             /\ req'[g].row.status = "blocked" => ~SentTo(req[g].draft, req[g].row.to)'
  <2>1. CASE g = h
    BY <2>1, <1>1, <1>2, <1>3 DEF SentTo
  <2>2. CASE g # h
    BY <2>2, <1>2, <1>4, <1>5 DEF TruthInv, At
  <2> QED
    BY <2>1, <2>2
<1> QED
  BY <1>5 DEF TruthInv

LEMMA TruthStep ==
    ASSUME IInv, TruthInv, [Next]_vars
    PROVE  TruthInv'
<1>t. TypeOK /\ SendInv
  BY DEF IInv
<1>1. CASE \/ Clock \/ Tick \/ SelectSegment \/ InsertBroadcastDraft \/ SegmentFails
           \/ \E u \in Users : UserMoves(u) \/ BanUser(u)
           \/ \E d \in DOMAIN drafts : CancelBroadcast(d) \/ UpdateDraftFields(d)
           \/ UNCHANGED vars
  BY <1>1, TruthStays DEF Clock, Tick, SelectSegment, InsertBroadcastDraft, SegmentFails,
     UserMoves, BanUser, CancelBroadcast, UpdateDraftFields, vars
<1>2. CASE Crash
  BY <1>2, TruthStays DEF Crash
<1>3. ASSUME NEW h \in Requests, NEW d \in DOMAIN drafts, ApproveBroadcast(h, d)
      PROVE  TruthInv'
  BY <1>t, <1>3, TruthStays DEF ApproveBroadcast, TypeOK
<1>4. ASSUME NEW h \in Requests, Approve(h) \/ Send(h)
      PROVE  TruthInv'
  <2>1. req[h] # None /\ req[h] \in Request /\ req[h].row = None
    BY <1>t, <1>4, ReqFacts DEF Approve, Send, At, SendInv, SenderInv
  <2>2. \A g \in Requests : \/ req'[g] = req[g] \/ req'[g] = None
                            \/ req'[g].row = None
    BY <1>t, <1>4, <2>1 DEF Approve, Send, Goto, Done, TypeOK, Request
  <2> QED
    BY <1>4, <2>2, TruthStays DEF Approve, Send
<1>5. ASSUME NEW h \in Requests, InsertSend(h)
      PROVE  TruthInv'
  <2>1. PICK t \in Request : req' = [req EXCEPT ![h] = t] /\ t.row = None
    BY <1>t, <1>5, InsertSendEffect
  <2> QED
    BY <1>t, <1>5, <2>1, ReqMoves, TruthStays DEF InsertSend
<1>6. ASSUME NEW h \in Requests, FinishSend(h) \/ RequestFails(h)
      PROVE  TruthInv'
  BY <1>t, <1>6, TruthStays DEF FinishSend, RequestFails, Done, TypeOK
<1>7. CASE \E h \in Requests, p \in Places : SendOne(h, p)
  BY <1>7, TruthTries
<1> QED
  BY <1>1, <1>2, <1>3, <1>4, <1>5, <1>6, <1>7 DEF Next

\* The promise and the proofs mean the same by a message and by an entry.
LEMMA SeenFacts ==
    ASSUME NEW d, NEW p
    PROVE  /\ Lifecycle!Reached(d, p) <=> SentTo(d, p)
           /\ Lifecycle!Logged(d, p) <=> LoggedFor(d, p)
BY DEF Lifecycle!Reached, Lifecycle!Logged, SentTo, LoggedFor

\* An UPDATE of the status that finds the draft in the status it expects.
LEMMA MoveRefines ==
    ASSUME NEW d, NEW from, NEW to,
           drafts' = UpdateDraftStatus(d, from, to), drafts[d].status = from,
           msgs' = msgs, sends' = sends
    PROVE  Lifecycle!Move(d, from, to)
BY DEF Lifecycle!Move, UpdateDraftStatus

LEMMA SelectRefines ==
    ASSUME TypeOK, InsertBroadcastDraft
    PROVE  Lifecycle!Select
<1> DEFINE r == [seg |-> cron.seg, to |-> cron.picked, status |-> "draft", text |-> 0,
                 at |-> cron.at, tick |-> cron.due, moved |-> cron.moved]
<1>1. cron.picked \in Recipients /\ drafts' = Append(drafts, r)
  BY DEF InsertBroadcastDraft, TypeOK, Cron
<1>2. Recipients = (SUBSET Places) \ {{}}
  BY DEF Recipients
<1>3. r.to = cron.picked /\ r.status = "draft" /\ r.text = 0
  OBVIOUS
<1>4. drafts \in Seq(Draft) /\ Len(drafts) \in Nat
  BY DEF TypeOK
<1> HIDE DEF r
<1>5. Len(drafts') = Len(drafts) + 1 /\ drafts'[Len(drafts')] = r
  BY <1>1, <1>4
<1> QED
  BY <1>1, <1>2, <1>3, <1>5 DEF Lifecycle!Select, InsertBroadcastDraft

LEMMA EditRefines ==
    ASSUME NEW d, UpdateDraftFields(d)
    PROVE  Lifecycle!Edit(d)
BY DEF UpdateDraftFields, Lifecycle!Edit

\* What the sender knows of its draft and of the recipient it has come to.
LEMMA SenderKnows ==
    ASSUME IInv, NEW h \in Requests, At(h, "loop")
    PROVE  /\ req[h].draft \in DOMAIN drafts
           /\ drafts[req[h].draft].status = "sending"
           /\ drafts[req[h].draft].text = req[h].text
           /\ \A p \in req[h].todo : /\ p \in drafts[req[h].draft].to
                                     /\ ~Lifecycle!Logged(req[h].draft, p)
<1>1. TypeOK /\ SendInv /\ SenderInv(h) /\ req[h] # None
  BY DEF IInv, SendInv, At
<1>2. req[h].draft \in DOMAIN drafts /\ req[h].todo \subseteq drafts[req[h].draft].to
  BY <1>1, ReqFacts
<1> QED
  BY <1>1, <1>2, SeenFacts DEF SenderInv

LEMMA DeliverRefines ==
    ASSUME IInv, NEW h \in Requests, NEW p \in Places, SendOne(h, p)
    PROVE  [Lifecycle!Next]_(Lifecycle!vars)
<1>t. TypeOK /\ SendInv
  BY DEF IInv
<1>1. /\ At(h, "loop") /\ p \in req[h].todo /\ ~SentTo(req[h].draft, p)
      /\ drafts' = drafts /\ sends' = sends
  <2>1. ~SentTo(req[h].draft, p)
    BY <1>t, SendOneEffect
  <2> QED
    BY <2>1 DEF SendOne
<1>2. PICK d \in DOMAIN drafts : d = req[h].draft
  BY <1>1, SenderKnows
<1>3. /\ drafts[d].status = "sending" /\ drafts[d].text = req[h].text
      /\ p \in drafts[d].to /\ ~Lifecycle!Logged(d, p) /\ ~Lifecycle!Reached(d, p)
  BY <1>1, <1>2, SenderKnows, SeenFacts
<1>4. CASE msgs' = msgs
  BY <1>1, <1>4 DEF Lifecycle!vars
<1>5. CASE msgs' = msgs \cup {[draft |-> req[h].draft, to |-> p, at |-> now,
                               text |-> req[h].text, nr |-> 1]}
  <2>1. \E m \in msgs' : /\ m.draft = d /\ m.to = p /\ m.text = drafts[d].text
                         /\ msgs' = msgs \cup {m}
    BY <1>2, <1>3, <1>5
  <2>2. Lifecycle!Deliver(d, p)
    BY <1>1, <1>3, <2>1 DEF Lifecycle!Deliver
  <2> QED
    BY <1>2, <1>3, <2>2 DEF Lifecycle!Next, Lifecycle!Sending
<1> QED
  BY <1>t, <1>4, <1>5, SendOneEffect

LEMMA RecordRefines ==
    ASSUME IInv, TruthInv, NEW h \in Requests, InsertSend(h)
    PROVE  [Lifecycle!Next]_(Lifecycle!vars)
<1>t. TypeOK /\ SendInv
  BY DEF IInv
<1>1. /\ At(h, "loop") /\ req[h].row # None /\ req[h].row.to \in req[h].todo
      /\ drafts' = drafts /\ msgs' = msgs
  BY <1>t, InsertSendEffect DEF InsertSend
<1>2. PICK d \in DOMAIN drafts, p \in Places, result \in {"sent", "blocked", "failed"} :
         d = req[h].draft /\ p = req[h].row.to /\ result = req[h].row.status
  BY <1>t, <1>1, SenderKnows, ReqFacts DEF At
<1>3. drafts[d].status = "sending" /\ p \in drafts[d].to /\ ~Lifecycle!Logged(d, p)
  BY <1>1, <1>2, SenderKnows
<1>4. CASE sends' = sends
  BY <1>1, <1>4 DEF Lifecycle!vars
<1>5. CASE /\ ~HasEntry(req[h].draft, req[h].row.to[1])
           /\ sends' = sends \cup {[draft |-> req[h].draft, to |-> req[h].row.to,
                                    status |-> req[h].row.status, at |-> now]}
  <2>1. result \in {"failed", IF Lifecycle!Reached(d, p) THEN "sent" ELSE "blocked"}
    BY <1>1, <1>2, SeenFacts DEF TruthInv
  <2>2. \E s \in sends' : /\ s.draft = d /\ s.to = p /\ s.status = result
                          /\ sends' = sends \cup {s}
    BY <1>2, <1>5
  <2>3. \A s \in sends : s.draft = d => s.to[1] # p[1]
    BY <1>2, <1>5 DEF HasEntry
  <2>4. Lifecycle!Record(d, p)
    BY <1>1, <2>1, <2>2, <2>3 DEF Lifecycle!Record
  <2> QED
    BY <1>2, <1>3, <2>4 DEF Lifecycle!Next, Lifecycle!Sending
<1> QED
  BY <1>t, <1>4, <1>5, InsertSendEffect

LEMMA StepRefines ==
    ASSUME IInv, TruthInv, [Next]_vars
    PROVE  [Lifecycle!Next]_(Lifecycle!vars)
<1>t. TypeOK /\ SendInv
  BY DEF IInv
<1>0. ASSUME drafts' = drafts, msgs' = msgs, sends' = sends
      PROVE  UNCHANGED Lifecycle!vars
  BY <1>0 DEF Lifecycle!vars
<1>m. ASSUME NEW d \in DOMAIN drafts,
             Lifecycle!Approve(d) \/ Lifecycle!Cancel(d) \/ Lifecycle!Begin(d)
               \/ Lifecycle!Finish(d) \/ Lifecycle!Edit(d)
      PROVE  Lifecycle!Next
  BY <1>m DEF Lifecycle!Next
<1>1. CASE \/ Clock \/ Tick \/ SelectSegment \/ SegmentFails \/ Crash
           \/ \E u \in Users : UserMoves(u) \/ BanUser(u)
           \/ \E d \in DOMAIN drafts, h \in Requests : ApproveBroadcast(h, d)
           \/ \E h \in Requests : RequestFails(h)
           \/ UNCHANGED vars
  BY <1>0, <1>1 DEF Clock, Tick, SelectSegment, SegmentFails, Crash, UserMoves, BanUser,
     ApproveBroadcast, RequestFails, vars
<1>2. CASE InsertBroadcastDraft
  BY <1>t, <1>2, SelectRefines DEF Lifecycle!Next
<1>3. ASSUME NEW d \in DOMAIN drafts, CancelBroadcast(d)
      PROVE  Lifecycle!Next
  <2>1. Lifecycle!Move(d, "draft", "cancelled")
    BY <1>t, <1>3, MoveRefines DEF CancelBroadcast
  <2> QED
    BY <1>m, <2>1 DEF Lifecycle!Cancel
<1>4. ASSUME NEW d \in DOMAIN drafts, UpdateDraftFields(d)
      PROVE  Lifecycle!Next
  BY <1>t, <1>m, <1>4, EditRefines
<1>5. ASSUME NEW h \in Requests, Approve(h)
      PROVE  [Lifecycle!Next]_(Lifecycle!vars)
  <2>1. PICK d \in DOMAIN drafts : d = req[h].draft
    BY <1>t, <1>5, ReqFacts DEF Approve, At
  <2>2. CASE drafts[d].status = "draft"
    <3>1. Lifecycle!Move(d, "draft", "approved")
      BY <1>t, <1>5, <2>1, <2>2, MoveRefines DEF Approve
    <3> QED
      BY <1>m, <3>1 DEF Lifecycle!Approve
  <2>3. CASE drafts[d].status # "draft"
    BY <1>0, <1>5, <2>1, <2>3 DEF Approve, UpdateDraftStatus
  <2> QED
    BY <2>2, <2>3
<1>6. ASSUME NEW h \in Requests, Send(h)
      PROVE  [Lifecycle!Next]_(Lifecycle!vars)
  <2>1. PICK d \in DOMAIN drafts : d = req[h].draft
    BY <1>t, <1>6, ReqFacts DEF Send, At
  <2>2. CASE drafts' = drafts
    BY <1>0, <1>6, <2>2 DEF Send
  <2>3. CASE drafts[d].status = "approved" /\ drafts' = UpdateDraftStatus(d, "approved", "sending")
    <3>1. Lifecycle!Move(d, "approved", "sending")
      BY <1>t, <1>6, <2>3, MoveRefines DEF Send
    <3> QED
      BY <1>m, <3>1 DEF Lifecycle!Begin
  <2> QED
    BY <1>6, <2>1, <2>2, <2>3 DEF Send
<1>7. ASSUME NEW h \in Requests, FinishSend(h)
      PROVE  [Lifecycle!Next]_(Lifecycle!vars)
  <2>1. PICK d \in DOMAIN drafts : d = req[h].draft /\ drafts[d].status = "sending"
    BY <1>t, <1>7, SenderKnows DEF FinishSend
  <2>2. Lifecycle!Move(d, "sending", "sent")
    BY <1>t, <1>7, <2>1, MoveRefines DEF FinishSend
  <2> QED
    BY <1>m, <2>2 DEF Lifecycle!Finish
<1>8. CASE \E h \in Requests, p \in Places : SendOne(h, p)
  BY <1>8, DeliverRefines
<1>9. CASE \E h \in Requests : InsertSend(h)
  BY <1>9, RecordRefines
<1> QED
  BY <1>1, <1>2, <1>3, <1>4, <1>5, <1>6, <1>7, <1>8, <1>9 DEF Next

\* However administrators, goroutines, failures and crashes interleave, a draft
\* goes its way as if one person handled it: edited until it is approved or
\* cancelled, sent once, with the approved text, to each place of its list at
\* most once; broadcast_sends has at most one entry for a user, and no entry
\* says "sent" of a message that did not arrive or "blocked" of one that did.
THEOREM Refinement == Spec => RefinesDraftLifecycle
<1>1. Init => Lifecycle!Init /\ TruthInv
  <2> SUFFICES ASSUME Init PROVE Lifecycle!Init /\ TruthInv
    OBVIOUS
  <2>1. drafts = <<>> /\ sends = {} /\ msgs = {} /\ \A h \in Requests : req[h] = None
    BY DEF Init
  <2> QED
    BY <2>1 DEF Lifecycle!Init, TruthInv, At
<1>2. IInv /\ TruthInv /\ [Next]_vars => TruthInv'
  BY TruthStep
<1>3. IInv /\ TruthInv /\ [Next]_vars => [Lifecycle!Next]_(Lifecycle!vars)
  BY StepRefines
<1> QED
  BY <1>1, <1>2, <1>3, Invariant, PTL DEF Spec, RefinesDraftLifecycle, Lifecycle!Spec

=============================================================================
