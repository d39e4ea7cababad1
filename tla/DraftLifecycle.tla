--------------------------- MODULE DraftLifecycle ---------------------------
(***************************************************************************)
(* What auth-service promises about a retention broadcast, whoever presses *)
(* which button how often: a draft may be edited until it is approved or   *)
(* cancelled; an approved one is sent once, to each place of its list at   *)
(* most once and with the approved text; and the log has one entry for a   *)
(* user, which tells the truth about one place of his.                     *)
(* Broadcast, with its requests and goroutines that run concurrently, fail *)
(* and crash, implements this specification.                               *)
(***************************************************************************)
EXTENDS Naturals, Sequences

CONSTANTS Places \* in a list: the user, and which of the times he is listed

VARIABLES letters, \* the drafts by id: recipients (to), status and version of the text
          got,     \* messages: which draft, to which place, with which text
          log      \* the log: which draft, to which place, with which result (status)
\* All three may say more, of which nothing is promised.

vars == <<letters, got, log>>

Init == letters = <<>> /\ got = {} /\ log = {}

Reached(d, p) == \E m \in got : m.draft = d /\ m.to = p
Logged(d, p) == \E s \in log : s.draft = d /\ s.to = p

\* The status moves from one value to another, and nothing else.
Move(d, from, to) == /\ letters[d].status = from
                     /\ letters' = [letters EXCEPT ![d].status = to]
                     /\ UNCHANGED <<got, log>>

\* A selection becomes a draft.
Select == /\ Len(letters') = Len(letters) + 1
          /\ LET new == letters'[Len(letters')]
             IN  /\ new.to \in (SUBSET Places) \ {{}}
                 /\ new.status = "draft" /\ new.text = 0
                 /\ letters' = Append(letters, new)
          /\ UNCHANGED <<got, log>>

Edit(d) == /\ letters[d].status = "draft"
           /\ letters' = [letters EXCEPT ![d].text = @ + 1]
           /\ UNCHANGED <<got, log>>

Approve(d) == Move(d, "draft", "approved")
Cancel(d) == Move(d, "draft", "cancelled")
Begin(d) == Move(d, "approved", "sending")
Finish(d) == Move(d, "sending", "sent")

\* The message to a place whose turn comes.
Deliver(d, p) ==
    /\ ~Reached(d, p) /\ ~Logged(d, p)
    /\ \E m \in got' : /\ m.draft = d /\ m.to = p /\ m.text = letters[d].text
                       /\ got' = got \cup {m}
    /\ UNCHANGED <<letters, log>>

\* Its entry in the log, unless its user has one: "sent" if the message arrived,
\* "blocked" only if it did not; of a "failed" one nobody knows.
Record(d, p) ==
    /\ \A s \in log : s.draft = d => s.to[1] # p[1]
    /\ \E s \in log' : /\ s.draft = d /\ s.to = p
                       /\ s.status \in {"failed", IF Reached(d, p) THEN "sent" ELSE "blocked"}
                       /\ log' = log \cup {s}
    /\ UNCHANGED <<letters, got>>

\* Messages and entries are made while the draft is sent, and at no other time.
Sending(d) == /\ letters[d].status = "sending"
              /\ \E p \in letters[d].to : Deliver(d, p) \/ Record(d, p)

Next == \/ Select
        \/ \E d \in DOMAIN letters : \/ Edit(d) \/ Approve(d) \/ Cancel(d)
                                     \/ Begin(d) \/ Sending(d) \/ Finish(d)

Spec == Init /\ [][Next]_vars
=============================================================================
