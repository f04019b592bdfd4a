---------------------------- MODULE MailDelivery ----------------------------
(***************************************************************************)
(* What the mail outbox promises to the rest of the system, without        *)
(* dispatchers, leases or time: a queued mail is handed to Resend only     *)
(* when the mails of its reservation that were created and committed       *)
(* before it are settled, it is recorded as sent only if Resend accepted   *)
(* it, and sent and failed are final.                                      *)
(*                                                                         *)
(* created_at is the start of the transaction that writes the row, and     *)
(* transactions commit in any order: of the two decisions of a race the    *)
(* one created first may appear after the other was mailed, and then       *)
(* nothing is promised about the two.                                      *)
(***************************************************************************)
CONSTANT Mails     \* <<reservation, mail type>>: at most one mail of a type

VARIABLES
  status,    \* "none", "open" (written in a transaction that has begun),
             \* "pending", "sent" or "failed"
  older,     \* order of created_at: the mails whose transaction began first
  ahead,     \* history: the mails of its reservation created and committed
             \* before it
  accepted   \* mails Resend has accepted

vars == <<status, older, ahead, accepted>>

Committed(n) == status[n] \notin {"none", "open"}

Init ==
  /\ status = [m \in Mails |-> "none"]
  /\ older = [m \in Mails |-> {}]
  /\ ahead = [m \in Mails |-> {}]
  /\ accepted = {}

\* A transaction that will write the mail begins; a transaction that rolled
\* back may be followed by another.  The "received" mail comes with the
\* reservation, and a decision is taken about a reservation that is there.
Begin(m) ==
  /\ ~Committed(m)
  /\ \A n \in Mails \ {m} : n[1] = m[1] =>
       /\ m[2] = "received" => status[n] = "none"
       /\ n[2] = "received" => status[n] # "open"
  /\ status' = [status EXCEPT ![m] = "open"]
  /\ older' = [n \in Mails |-> IF n = m THEN {k \in Mails \ {m} : status[k] # "none"}
                                        ELSE older[n] \ {m}]
  /\ UNCHANGED <<ahead, accepted>>

Queue(m) ==
  /\ status[m] = "open"
  /\ status' = [status EXCEPT ![m] = "pending"]
  /\ ahead' = [ahead EXCEPT ![m] = {n \in Mails : n[1] = m[1] /\ n \in older[m] /\ Committed(n)}]
  /\ UNCHANGED <<older, accepted>>

Accept(m) ==
  /\ status[m] = "pending"
  /\ \A n \in ahead[m] : status[n] # "pending"
  /\ accepted' = accepted \cup {m}
  /\ UNCHANGED <<status, older, ahead>>

Settle(m) ==
  /\ status[m] = "pending"
  /\ \/ m \in accepted /\ status' = [status EXCEPT ![m] = "sent"]
     \/ status' = [status EXCEPT ![m] = "failed"]
  /\ UNCHANGED <<older, ahead, accepted>>

Next == \E m \in Mails : Begin(m) \/ Queue(m) \/ Accept(m) \/ Settle(m)

Spec == Init /\ [][Next]_vars

\* No overtaking, ever: once Resend has accepted a mail, no mail created and
\* committed before it is still waiting; the mail that confirms the request is
\* settled before any decision about it is accepted, or there is none; and
\* only accepted mails are on record as sent.
NeverOvertaken ==
  /\ \A m \in accepted : \A n \in ahead[m] : status[n] # "pending"
  /\ \A m \in accepted, n \in Mails :
       n # m /\ n[1] = m[1] /\ n[2] = "received" => status[n] \in {"none", "sent", "failed"}
  /\ \A m \in Mails : status[m] = "sent" => m \in accepted
=============================================================================
