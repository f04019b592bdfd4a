----------------------------- MODULE EmailOutbox -----------------------------
(***************************************************************************)
(* The mail outbox: rows of email_outbox, and the flush requests           *)
(* (POST /internal/outbox/flush) whose Dispatcher claims a row under a     *)
(* lease, hands it to Resend outside any transaction, and records what     *)
(* came of it.  Flushes overlap, crash, and lose answers.                  *)
(*                                                                         *)
(* Time is discrete and kept as what is left of it: due[m] is the time     *)
(* until next_attempt_at, timer[w] until a flush's current timeout, left   *)
(* until the end of its time budget.  The clocks of the service (which     *)
(* writes next_attempt_at) and of PostgreSQL (NOW()) agree.                *)
(***************************************************************************)
EXTENDS Naturals, FiniteSets

CONSTANTS
  Mails,         \* <<reservation, mail type>> pairs that may be queued
  Flushes,       \* flush requests that can be served at the same time
  MaxAttempts,   \* maxAttempts
  Backoff,       \* retryBackoff, by attempt_count
  SendTimeout,   \* defaultSendTimeout
  MarkTimeout,   \* markTimeout
  Lease,         \* defaultLeaseDuration
  AuthDelay,     \* authErrorRetryDelay
  TimeBudget,    \* OUTBOX_FLUSH_TIME_BUDGET_SECONDS
  BatchSize,     \* OUTBOX_BATCH_SIZE
  MaxLost,       \* bound: results lost to crashes and database errors
  NoMail         \* a flush holds no row

MailTypes == {"received", "approved", "rejected"}
Outcomes == {"ok", "transient", "permanent", "auth"}

ASSUME OutboxAssumption ==
  /\ IsFiniteSet(Mails)
  /\ \A m \in Mails : m[2] \in MailTypes
  /\ MaxAttempts \in Nat \ {0}
  /\ Backoff \in [1 .. MaxAttempts - 1 -> Nat]
  /\ SendTimeout \in Nat \ {0}
  /\ MarkTimeout \in Nat
  /\ Lease \in Nat
  /\ AuthDelay \in Nat
  /\ TimeBudget \in Nat
  /\ BatchSize \in Nat \ {0}
  /\ MaxLost \in Nat
  /\ NoMail \notin Mails

\* NewDispatcher enforces Lease > SendTimeout; the defaults (5 min against
\* 30 s + 10 s) also leave room for recording the result.
ASSUME LeaseCoversDelivery == Lease > SendTimeout + MarkTimeout

VARIABLES
  status, attempts, due,         \* the rows; "open": in a transaction that
                                 \* has begun and not committed
  older,                         \* the order of created_at: mails created first
  ahead,                         \* history: the mails of its reservation
                                 \* created and committed before it
  accepted,                      \* mails Resend has accepted
  mode, mail, count,             \* each flush: state, claimed row, its
                                 \* attempt_count as returned by the claim
  result,                        \* what Send returned
  timer, left, room,             \* timeout, time budget, batch places left
  lost                           \* history: results that were not recorded

rows == <<status, attempts, due, older, ahead>>
flush == <<mode, mail, count, result, timer, left, room>>
vars == <<rows, accepted, flush, lost>>

Busy(w) == mode[w] \in {"sending", "marking"}

RowsTyped ==
  /\ status \in [Mails -> {"none", "open", "pending", "sent", "failed"}]
  /\ attempts \in [Mails -> Nat]
  /\ due \in [Mails -> Nat]
  /\ older \in [Mails -> SUBSET Mails]
  /\ ahead \in [Mails -> SUBSET Mails]
  /\ accepted \subseteq Mails
  /\ lost \in [Mails -> Nat]

FlushesTyped ==
  /\ mode \in [Flushes -> {"idle", "claiming", "sending", "marking"}]
  /\ mail \in [Flushes -> Mails \cup {NoMail}]
  /\ count \in [Flushes -> Nat]
  /\ result \in [Flushes -> Outcomes \cup {"none"}]
  /\ timer \in [Flushes -> Nat]
  /\ left \in [Flushes -> Nat]
  /\ room \in [Flushes -> 0 .. BatchSize]
  /\ \A w \in Flushes :
       /\ IF Busy(w) THEN mail[w] \in Mails /\ count[w] > 0 ELSE mail[w] = NoMail
       /\ IF mode[w] = "marking" THEN result[w] \in Outcomes ELSE result[w] = "none"

TypeOK == RowsTyped /\ FlushesTyped

Committed(n) == status[n] \notin {"none", "open"}

\* p.reservation_id = c.reservation_id AND p.created_at < c.created_at.
Earlier(n, m) == n[1] = m[1] /\ n \in older[m]

\* [Mutant of Claimable] no look at the earlier mails of the reservation.
ClaimableInAnyOrder(m) == status[m] = "pending" /\ due[m] = 0

\* [Mutant of Claimable] a failed mail keeps the later ones back.
ClaimableAfterSent(m) ==
  /\ status[m] = "pending"
  /\ due[m] = 0
  /\ \A n \in Mails : Earlier(n, m) /\ Committed(n) => status[n] = "sent"

\* The WHERE clause of ClaimNextPending.
Claimable(m) ==
  /\ status[m] = "pending"
  /\ due[m] = 0
  /\ \A n \in Mails : Earlier(n, m) => status[n] # "pending"

\* ORDER BY created_at FOR UPDATE SKIP LOCKED LIMIT 1: every other flush that
\* is claiming now may hold the lock of one of the rows in front.
Skippable(S, w) ==
  Cardinality(S) <= Cardinality({v \in Flushes \ {w} : mode[v] = "claiming"})

Candidate(m, w) ==
  /\ Claimable(m)
  /\ Skippable({n \in older[m] : Claimable(n)}, w)

\* [Mutant of MayClaim] the batch size compared with <=.
MayClaimOneMore(w) == TimeBudget = 0 \/ left[w] >= SendTimeout

\* The loop condition of ProcessPending: batch size and overBudget, for which
\* a time budget of zero is no limit.
MayClaim(w) == room[w] > 0 /\ (TimeBudget = 0 \/ left[w] >= SendTimeout)

\* ShouldMarkFailed.
Exhausted(n) == n >= MaxAttempts

Less(n) == IF n = 0 THEN 0 ELSE n - 1

\* [Mutant of Released] ReleaseClaim keeps the attempt of the claim.
NotRefunded(n) == n

\* GREATEST(attempt_count - 1, 0) in ReleaseClaim.
Released(n) == Less(n)

\* [Mutant of LeaseUntil] a lease that covers the sending only.
ShortLease == SendTimeout

\* What ProcessPending passes to ClaimNextPending, from now.
LeaseUntil == Lease

Init ==
  /\ status = [m \in Mails |-> "none"]
  /\ attempts = [m \in Mails |-> 0]
  /\ due = [m \in Mails |-> 0]
  /\ older = [m \in Mails |-> {}]
  /\ ahead = [m \in Mails |-> {}]
  /\ accepted = {}
  /\ mode = [w \in Flushes |-> "idle"]
  /\ mail = [w \in Flushes |-> NoMail]
  /\ count = [w \in Flushes |-> 0]
  /\ result = [w \in Flushes |-> "none"]
  /\ timer = [w \in Flushes |-> 0]
  /\ left = [w \in Flushes |-> 0]
  /\ room = [w \in Flushes |-> 0]
  /\ lost = [m \in Mails |-> 0]

-----------------------------------------------------------------------------
\* The transaction of a reservation operation begins, and with it the time
\* its row will bear (created_at DEFAULT NOW()).  The "received" mail is
\* written with the reservation itself, and a decision begins after it has
\* read the committed reservation; two decisions may be under way at a time.
\* Begun again: the one before rolled back, or another session decides alike.
Begin(m) ==
  /\ ~Committed(m)
  /\ \A n \in Mails \ {m} : n[1] = m[1] =>
       /\ m[2] = "received" => status[n] = "none"
       /\ n[2] = "received" => status[n] # "open"
  /\ status' = [status EXCEPT ![m] = "open"]
  /\ older' = [n \in Mails |-> IF n = m THEN {k \in Mails \ {m} : status[k] # "none"}
                                        ELSE older[n] \ {m}]
  /\ UNCHANGED <<attempts, due, ahead, accepted, flush, lost>>

\* Its COMMIT makes the row visible, in any order.  A second Enqueue of the
\* same mail does nothing (ON CONFLICT).
Enqueue(m) ==
  /\ status[m] = "open"
  /\ status' = [status EXCEPT ![m] = "pending"]
  /\ ahead' = [ahead EXCEPT ![m] = {n \in Mails : Earlier(n, m) /\ Committed(n)}]
  /\ UNCHANGED <<attempts, due, older, accepted, flush, lost>>

\* POST /internal/outbox/flush: ProcessPending starts.
StartFlush(w) ==
  /\ mode[w] = "idle"
  /\ mode' = [mode EXCEPT ![w] = "claiming"]
  /\ left' = [left EXCEPT ![w] = TimeBudget]
  /\ room' = [room EXCEPT ![w] = BatchSize]
  /\ UNCHANGED <<rows, accepted, mail, count, result, timer, lost>>

\* ClaimNextPending: one UPDATE, committed by itself.
Claim(w) ==
  /\ mode[w] = "claiming"
  /\ MayClaim(w)
  /\ \E m \in Mails :
       /\ Candidate(m, w)
       /\ attempts' = [attempts EXCEPT ![m] = @ + 1]
       /\ due' = [due EXCEPT ![m] = LeaseUntil]
       /\ mail' = [mail EXCEPT ![w] = m]
       /\ count' = [count EXCEPT ![w] = attempts[m] + 1]
  /\ mode' = [mode EXCEPT ![w] = "sending"]
  /\ timer' = [timer EXCEPT ![w] = SendTimeout]
  /\ room' = [room EXCEPT ![w] = @ - 1]
  /\ UNCHANGED <<status, older, ahead, accepted, result, left, lost>>

\* The flush lets go of its row.
Leave(w) ==
  /\ mail' = [mail EXCEPT ![w] = NoMail]
  /\ count' = [count EXCEPT ![w] = 0]
  /\ result' = [result EXCEPT ![w] = "none"]
  /\ timer' = [timer EXCEPT ![w] = 0]

\* It ends, or goes on to the next row.
Stop(w) ==
  /\ mode' = [mode EXCEPT ![w] = "idle"]
  /\ left' = [left EXCEPT ![w] = 0]
  /\ room' = [room EXCEPT ![w] = 0]
  /\ Leave(w)

Continue(w) ==
  /\ mode' = [mode EXCEPT ![w] = "claiming"]
  /\ Leave(w)
  /\ UNCHANGED <<left, room>>

\* Batch full, out of time budget, or no row to take.
EndFlush(w) ==
  /\ mode[w] = "claiming"
  /\ \/ ~MayClaim(w)
     \/ Skippable({m \in Mails : Claimable(m)}, w)
  /\ Stop(w)
  /\ UNCHANGED <<rows, accepted, lost>>

\* The claim fails (database down, request cancelled): the flush answers 500.
ClaimError(w) ==
  /\ mode[w] = "claiming"
  /\ MayClaim(w)
  /\ Stop(w)
  /\ UNCHANGED <<rows, accepted, lost>>

\* Resend accepts the mail; the Idempotency-Key makes a second time no news.
Accept(w) ==
  /\ mode[w] = "sending"
  /\ accepted' = accepted \cup {mail[w]}
  /\ UNCHANGED <<rows, flush, lost>>

\* Send returns.  Only an accepted mail returns ok; a timeout or a cut
\* connection is transient whether Resend accepted the mail or not.
SendReturns(w, outcome) ==
  /\ mode[w] = "sending"
  /\ outcome = "ok" => mail[w] \in accepted
  /\ mode' = [mode EXCEPT ![w] = "marking"]
  /\ result' = [result EXCEPT ![w] = outcome]
  /\ timer' = [timer EXCEPT ![w] = MarkTimeout]
  /\ UNCHANGED <<rows, accepted, mail, count, left, room, lost>>

\* MarkSent, ReleaseClaim, MarkFailed and MarkRetry, on a pending row only.
Record(m, outcome, n) ==
  \/ /\ outcome = "ok"
     /\ status' = [status EXCEPT ![m] = "sent"]
     /\ UNCHANGED <<attempts, due>>
  \/ /\ outcome = "auth"
     /\ attempts' = [attempts EXCEPT ![m] = Released(@)]
     /\ due' = [due EXCEPT ![m] = AuthDelay]
     /\ UNCHANGED status
  \/ /\ outcome = "permanent" \/ (outcome = "transient" /\ Exhausted(n))
     /\ status' = [status EXCEPT ![m] = "failed"]
     /\ UNCHANGED <<attempts, due>>
  \/ /\ outcome = "transient" /\ ~Exhausted(n)
     /\ due' = [due EXCEPT ![m] = Backoff[n]]
     /\ UNCHANGED <<status, attempts>>

\* An authentication error halts the batch; otherwise the next row follows.
Proceed(w) == IF result[w] = "auth" THEN Stop(w) ELSE Continue(w)

Mark(w) ==
  /\ mode[w] = "marking"
  /\ IF status[mail[w]] = "pending"
     THEN Record(mail[w], result[w], count[w])
     ELSE UNCHANGED <<status, attempts, due>>
  /\ Proceed(w)
  /\ UNCHANGED <<older, ahead, accepted, lost>>

\* recordMarkError: the result is lost, the row stays leased.
MarkError(w) ==
  /\ mode[w] = "marking"
  /\ lost[mail[w]] < MaxLost
  /\ lost' = [lost EXCEPT ![mail[w]] = @ + 1]
  /\ Proceed(w)
  /\ UNCHANGED <<rows, accepted>>

\* The process ends while it holds a row.
Crash(w) ==
  /\ Busy(w)
  /\ lost[mail[w]] < MaxLost
  /\ lost' = [lost EXCEPT ![mail[w]] = @ + 1]
  /\ Stop(w)
  /\ UNCHANGED <<rows, accepted>>

\* Time passes, but not past a timeout that is due.
Tick ==
  /\ \A w \in Flushes : Busy(w) => timer[w] > 0
  /\ due' = [m \in Mails |-> Less(due[m])]
  /\ timer' = [w \in Flushes |-> Less(timer[w])]
  /\ left' = [w \in Flushes |-> Less(left[w])]
  /\ UNCHANGED <<status, attempts, older, ahead, accepted, mode, mail, count,
                 result, room, lost>>

FlushStep(w) ==
  \/ StartFlush(w) \/ Claim(w) \/ EndFlush(w) \/ ClaimError(w)
  \/ Accept(w) \/ (\E outcome \in Outcomes : SendReturns(w, outcome))
  \/ Mark(w) \/ MarkError(w) \/ Crash(w)

Next ==
  \/ \E m \in Mails : Begin(m) \/ Enqueue(m)
  \/ \E w \in Flushes : FlushStep(w)
  \/ Tick

Spec == Init /\ [][Next]_vars

\* Cloud Scheduler calls the flush every minute; a flush goes on; the database
\* is not down for ever, and neither is the API key wrong for ever.
Fairness ==
  /\ WF_vars(Tick)
  /\ \A w \in Flushes :
       /\ WF_vars(StartFlush(w))
       /\ SF_vars(Claim(w))
       /\ WF_vars(EndFlush(w))
       /\ SF_vars(\E outcome \in Outcomes \ {"auth"} : SendReturns(w, outcome))
       /\ WF_vars(\E outcome \in Outcomes : SendReturns(w, outcome))
       /\ WF_vars(Mark(w))

FairSpec == Spec /\ Fairness
-----------------------------------------------------------------------------
\* A claimed row stays out of every other flush's reach, pending and with the
\* attempt_count its flush read, until that flush has recorded the result or
\* died: the lease outlives the timeouts of the delivery, so no mark ever hits
\* a row that moved on (requirePendingRowAffected never fails).
LeaseExclusive ==
  /\ \A w \in Flushes : Busy(w) =>
       /\ status[mail[w]] = "pending"
       /\ count[w] = attempts[mail[w]] /\ count[w] > 0
       /\ timer[w] + (IF mode[w] = "sending" THEN MarkTimeout ELSE 0) < due[mail[w]]
  /\ \A v, w \in Flushes : Busy(v) /\ mail[v] = mail[w] => v = w

\* No mail is tried more often than MaxAttempts, but for the attempts whose
\* result was lost; authentication errors consume none.
AttemptsAccounted ==
  /\ \A m \in Mails : attempts[m] <= MaxAttempts + lost[m]
  /\ \A m \in Mails :
       status[m] \notin {"sent", "failed"} /\ (\A w \in Flushes : mail[w] # m) =>
         attempts[m] < MaxAttempts + lost[m]

\* docs/architecture_decision_records.md:807: a poison message that crashes the
\* process is tried once per lease and fails after at most 6 attempts.  The
\* code claims without looking at attempt_count, and decides that a mail has
\* failed only after Send has returned.
AttemptsBounded == \A m \in Mails : attempts[m] <= MaxAttempts

\* While a mail is being delivered, no mail of its reservation created and
\* committed before it is pending, and a flush that got ok back holds a mail
\* Resend has accepted.
DeliveryInv ==
  /\ \A m \in Mails : \A n \in ahead[m] : Earlier(n, m) /\ Committed(n)
  /\ \A w \in Flushes : Busy(w) => \A n \in ahead[mail[w]] : status[n] # "pending"
  /\ \A w \in Flushes : result[w] = "ok" => mail[w] \in accepted

\* Order within a reservation, no "sent" without Resend's acceptance, and
\* final results: the outbox implements MailDelivery.
Delivery == INSTANCE MailDelivery
Delivered == Delivery!Spec

\* No decision is mailed before the mail that confirms the request is sent or
\* has failed, and of two decisions taken at the same time the second does not
\* go ahead of one that was created and committed before it: when Resend has
\* accepted a mail, those are settled, for good, through retries, lost answers
\* and later claims; and a row says "sent" only of a mail Resend has accepted.
\* (A decision created first and committed last may find the other one gone.)
MailsInSequence == Delivery!NeverOvertaken

\* Every queued mail is settled, sent or failed, in the end.
Settled ==
  \A m \in Mails : status[m] = "pending" ~> status[m] \in {"sent", "failed"}
=============================================================================
