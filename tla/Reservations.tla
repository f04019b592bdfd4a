---------------------------- MODULE Reservations ----------------------------
(***************************************************************************)
(* Reservations of the restaurant: POST /reservations (customers), POST    *)
(* /admin/reservations and PATCH /admin/reservations/{id}/status (owner),  *)
(* and the daily schedules they are checked against.  Every handler runs   *)
(* as several statements on PostgreSQL (READ COMMITTED); what is atomic    *)
(* here is one statement or one COMMIT, and handlers interleave between    *)
(* them.                                                                   *)
(*                                                                         *)
(* A web request and the row it inserts share one identity, and so do an   *)
(* admin entry and its row.  Committed rows are status[id] # "none"; the   *)
(* uncommitted writes of a web request's transaction are its control       *)
(* state ("inserted", "enqueued").                                         *)
(***************************************************************************)
EXTENDS Naturals, FiniteSets

CONSTANTS
  WebRequests,      \* customers' POST /reservations, past the format checks
  AdminEntries,     \* the owner's POST /admin/reservations, past the checks
  Admins,           \* browser sessions that send PATCH .../status
  Dates,            \* visit dates (all inside the booking period)
  Times,            \* visit times
  Phones,           \* phone numbers
  MaxPeople,        \* maxReservationPeople
  Schedules,        \* the schedules a date can have
  DefaultSchedule,  \* [Dates -> Schedules]: StoreCalendar.DefaultSchedule
  NoSchedule,       \* no daily_schedules row for the date
  EditedDates,      \* dates whose schedule the owner changes meanwhile
  Nobody            \* no holder of a lock, no reservation being updated

Ids == WebRequests \cup AdminEntries

ScheduleTypes ==
  {"normal", "morning", "event", "external_event", "special_menu", "closed"}

Statuses == {"pending", "approved", "rejected", "cancelled", "no_show"}
UpdateStatusTargets == {"approved", "rejected", "cancelled", "no_show"}
Active == {"pending", "approved"}
MailTypes == {"received", "approved", "rejected"}

Forms == [date : Dates, time : Times, phone : Phones, people : 1 .. MaxPeople]

ASSUME ReservationsAssumption ==
  /\ IsFiniteSet(WebRequests)
  /\ IsFiniteSet(AdminEntries)
  /\ WebRequests \cap AdminEntries = {}
  /\ MaxPeople \in Nat \ {0}
  /\ Schedules \subseteq
       [type : ScheduleTypes, capacity : Nat, window : SUBSET Times]
  /\ DefaultSchedule \in [Dates -> Schedules]
  /\ NoSchedule \notin Schedules
  /\ EditedDates \subseteq Dates
  /\ Nobody \notin Ids

VARIABLES
  form,     \* what each request asks for
  status,   \* reservations.status of the committed rows, "none" if no row
  stored,   \* daily_schedules, by date
  outbox,   \* committed email_outbox rows <<id, mail type>>
  lock,     \* pg_advisory_xact_lock(1, yyyymmdd): its holder, by date
  pc,       \* where each web request is
  seen,     \* the schedule a web request read last
  adm,      \* where each admin session is
  about,    \* the reservation an admin session is updating
  target,   \* the status it asks for
  (* History variables: no action depends on them. *)
  revived,  \* rows that a status update made active again
  offered   \* schedules in force since a web request has held its lock

dbVars == <<status, stored, outbox>>
webVars == <<lock, pc, seen, offered>>
admVars == <<adm, about, target, revived>>
vars == <<form, dbVars, webVars, admVars>>

WebStates ==
  {"new", "resolved", "checking", "checked", "locked", "reread", "admitted",
   "inserted", "enqueued", "done", "refused", "failed"}

InTransaction == {"locked", "reread", "admitted", "inserted", "enqueued"}
Ended == {"done", "refused", "failed"}

TypeOK ==
  /\ form \in [Ids -> Forms]
  /\ status \in [Ids -> Statuses \cup {"none"}]
  /\ stored \in [Dates -> Schedules \cup {NoSchedule}]
  /\ outbox \subseteq Ids \X MailTypes
  /\ lock \in [Dates -> WebRequests \cup {Nobody}]
  /\ pc \in [WebRequests -> WebStates]
  /\ seen \in [WebRequests -> Schedules \cup {NoSchedule}]
  /\ adm \in [Admins -> {"idle", "read", "updated", "enqueued"}]
  /\ about \in [Admins -> Ids \cup {Nobody}]
  /\ target \in [Admins -> UpdateStatusTargets \cup {"none"}]
  /\ \A a \in Admins : adm[a] # "idle" =>
       about[a] \in Ids /\ target[a] \in UpdateStatusTargets
  /\ \A a \in Admins :
       adm[a] \in {"updated", "enqueued"} => target[a] \in {"approved", "rejected"}
  /\ revived \subseteq Ids
  /\ offered \in [WebRequests -> SUBSET Schedules]

-----------------------------------------------------------------------------
(* What the queries return. *)

\* ScheduleResolver.ResolveForDate: the stored row, or the store's default.
Effective(d) ==
  IF stored[d] = NoSchedule THEN DefaultSchedule[d] ELSE stored[d]

\* One pair per guest: the cardinality is SUM(people) over the rows of S.
Guests(S) == {g \in S \X (1 .. MaxPeople) : g[2] <= form[g[1]].people}

ReservedRows(d) == {i \in Ids : form[i].date = d /\ status[i] \in Active}

\* SumReservedPeopleByDate.
SumReserved(d) == Cardinality(Guests(ReservedRows(d)))

IsHoliday(s) == s.type \in {"closed", "external_event"}

\* buildAvailability: what is left of the capacity, never negative.
Available(s, reserved) ==
  IF IsHoliday(s) \/ s.capacity < reserved THEN 0 ELSE s.capacity - reserved

Admissible(r) ==
  /\ ~IsHoliday(seen[r])
  /\ form[r].people <= Available(seen[r], SumReserved(form[r].date))

SameSlot(i, j) ==
  /\ form[i].date = form[j].date
  /\ form[i].time = form[j].time
  /\ form[i].phone = form[j].phone

\* [Mutant of Conflict] an index over the pending rows only.
ConflictWithPending(i) ==
  \E j \in Ids \ {i} : SameSlot(i, j) /\ status[j] = "pending"

\* The partial unique index idx_reservations_unique_active.
Conflict(i) ==
  \E j \in Ids \ {i} : SameSlot(i, j) /\ status[j] \in Active

\* [Mutant of NoPendingInsert] the slot is looked up in the committed rows.
PendingUnseen(i) == i \in Ids

\* A unique-index check waits for a transaction that inserted the same key.
NoPendingInsert(i) ==
  \A r \in WebRequests \ {i} :
    SameSlot(i, r) => pc[r] \notin {"inserted", "enqueued"}

\* [Mutant of LockFree] a lock keyed by something else than the date.
LockNotShared(d) == TRUE

\* pg_advisory_xact_lock waits while another transaction holds the key.
LockFree(d) == lock[d] = Nobody

\* [Mutant of Mailed] every status update queues a mail of its target.
MailedAlways(t) == t \in UpdateStatusTargets

\* The status update queues a mail for these two targets only.
Mailed(t) == t \in {"approved", "rejected"}

\* [Mutant of CanTransition] decisions may be revised.
RevisableDecision(from, to) ==
  /\ from \in {"pending", "approved", "rejected"}
  /\ to \in UpdateStatusTargets

\* domain.CanTransition.
CanTransition(from, to) ==
  \/ from = "pending" /\ to \in {"approved", "rejected", "cancelled"}
  \/ from = "approved" /\ to \in {"no_show", "cancelled"}

-----------------------------------------------------------------------------
Init ==
  /\ form \in [Ids -> Forms]
  /\ status = [i \in Ids |-> "none"]
  /\ stored = [d \in Dates |-> NoSchedule]
  /\ outbox = {}
  /\ lock = [d \in Dates |-> Nobody]
  /\ pc = [r \in WebRequests |-> "new"]
  /\ seen = [r \in WebRequests |-> NoSchedule]
  /\ adm = [a \in Admins |-> "idle"]
  /\ about = [a \in Admins |-> Nobody]
  /\ target = [a \in Admins |-> "none"]
  /\ revived = {}
  /\ offered = [r \in WebRequests |-> {}]

(***************************************************************************)
(* POST /reservations: CreateReservationUseCase.Execute.                   *)
(***************************************************************************)
WebGoto(r, state) == pc' = [pc EXCEPT ![r] = state]

\* [Mutant of WebEnd] a session-level lock: ROLLBACK does not give it up.
WebEndKeepsLock(r, state) ==
  /\ WebGoto(r, state)
  /\ seen' = [seen EXCEPT ![r] = NoSchedule]
  /\ offered' = [offered EXCEPT ![r] = {}]
  /\ UNCHANGED lock

\* The request ends.  With COMMIT or ROLLBACK its transaction gives up the
\* lock; what the handler had read is gone.
WebEnd(r, state) ==
  /\ WebGoto(r, state)
  /\ lock' = [d \in Dates |-> IF lock[d] = r THEN Nobody ELSE lock[d]]
  /\ seen' = [seen EXCEPT ![r] = NoSchedule]
  /\ offered' = [offered EXCEPT ![r] = {}]

\* The captcha passed; the first schedule read rejects a closed date and a
\* time outside the booking window.
WebResolve(r) ==
  /\ pc[r] = "new"
  /\ LET s == Effective(form[r].date)
     IN  IF s.type = "closed" \/ form[r].time \notin s.window
         THEN WebEnd(r, "refused")
         ELSE WebGoto(r, "resolved") /\ UNCHANGED <<lock, seen, offered>>
  /\ UNCHANGED <<form, dbVars, admVars>>

\* AvailabilityService.ResolveForDate reads the schedule again ...
WebReadSchedule(r) ==
  /\ pc[r] = "resolved"
  /\ seen' = [seen EXCEPT ![r] = Effective(form[r].date)]
  /\ WebGoto(r, "checking")
  /\ UNCHANGED <<form, dbVars, lock, offered, admVars>>

\* ... and then sums the reserved guests.
WebCheck(r) ==
  /\ pc[r] = "checking"
  /\ IF Admissible(r)
     THEN WebGoto(r, "checked") /\ UNCHANGED <<lock, seen, offered>>
     ELSE WebEnd(r, "refused")
  /\ UNCHANGED <<form, dbVars, admVars>>

\* DoInTx begins and waits for the visit-date lock.
WebLock(r) ==
  /\ pc[r] = "checked"
  /\ LockFree(form[r].date)
  /\ lock' = [lock EXCEPT ![form[r].date] = r]
  /\ offered' = [offered EXCEPT ![r] = {Effective(form[r].date)}]
  /\ WebGoto(r, "locked")
  /\ UNCHANGED <<form, dbVars, seen, admVars>>

\* [Mutant of WebReread] the check under the lock reuses the first read.
WebReuseRead(r) ==
  /\ pc[r] = "locked"
  /\ WebGoto(r, "reread")
  /\ UNCHANGED <<form, dbVars, lock, seen, offered, admVars>>

\* Under the lock the schedule is read once more (on another connection) ...
WebReread(r) ==
  /\ pc[r] = "locked"
  /\ seen' = [seen EXCEPT ![r] = Effective(form[r].date)]
  /\ WebGoto(r, "reread")
  /\ UNCHANGED <<form, dbVars, lock, offered, admVars>>

\* [Mutant of WebRecheck] the check before the transaction is taken as enough.
WebNoRecheck(r) ==
  /\ pc[r] = "reread"
  /\ WebGoto(r, "admitted")
  /\ UNCHANGED <<form, dbVars, lock, seen, offered, admVars>>

\* ... and the sum; a refusal rolls the transaction back.
WebRecheck(r) ==
  /\ pc[r] = "reread"
  /\ IF Admissible(r)
     THEN WebGoto(r, "admitted") /\ UNCHANGED <<lock, seen, offered>>
     ELSE WebEnd(r, "refused")
  /\ UNCHANGED <<form, dbVars, admVars>>

\* [Mutant of WebInsert] the INSERT on r.db instead of the transaction.
WebInsertOutsideTx(r) ==
  /\ pc[r] = "admitted"
  /\ NoPendingInsert(r)
  /\ IF Conflict(r)
     THEN WebEnd(r, "refused") /\ UNCHANGED status
     ELSE /\ status' = [status EXCEPT ![r] = "pending"]
          /\ WebGoto(r, "inserted")
          /\ UNCHANGED <<lock, seen, offered>>
  /\ UNCHANGED <<form, stored, outbox, admVars>>

\* INSERT ... status 'pending'; ErrReservationConflict rolls back.
WebInsert(r) ==
  /\ pc[r] = "admitted"
  /\ NoPendingInsert(r)
  /\ IF Conflict(r)
     THEN WebEnd(r, "refused")
     ELSE WebGoto(r, "inserted") /\ UNCHANGED <<lock, seen, offered>>
  /\ UNCHANGED <<form, dbVars, admVars>>

WebEnqueue(r) ==
  /\ pc[r] = "inserted"
  /\ WebGoto(r, "enqueued")
  /\ UNCHANGED <<form, dbVars, lock, seen, offered, admVars>>

\* COMMIT: the row and its mail become visible together.
WebCommit(r) ==
  /\ pc[r] = "enqueued"
  /\ status' = [status EXCEPT ![r] = "pending"]
  /\ outbox' = outbox \cup {<<r, "received">>}
  /\ WebEnd(r, "done")
  /\ UNCHANGED <<form, stored, admVars>>

\* A failed captcha or query, a panic, a cancelled context or the end of the
\* process, at any point before COMMIT: PostgreSQL drops the transaction.
WebFail(r) ==
  /\ pc[r] \notin Ended
  /\ WebEnd(r, "failed")
  /\ UNCHANGED <<form, dbVars, admVars>>

WebProgress(r) ==
  \/ WebResolve(r) \/ WebReadSchedule(r) \/ WebCheck(r)
  \/ WebReread(r) \/ WebRecheck(r) \/ WebInsert(r)
  \/ WebEnqueue(r) \/ WebCommit(r)

(***************************************************************************)
(* POST /admin/reservations: one autocommitted INSERT, with any status and *)
(* without lock, capacity check or mail.  On a conflict nothing changes.   *)
(***************************************************************************)
AdminCreate(e) ==
  /\ status[e] = "none"
  /\ NoPendingInsert(e)
  /\ \E s \in Statuses :
       /\ s \in Active => ~Conflict(e)
       /\ status' = [status EXCEPT ![e] = s]
  /\ UNCHANGED <<form, stored, outbox, webVars, admVars>>

(***************************************************************************)
(* PATCH /admin/reservations/{id}/status: UpdateReservationStatusUseCase.  *)
(***************************************************************************)
\* GetByID and CanTransition; a missing row or a forbidden transition ends
\* the request with nothing changed.
StatusRead(a) ==
  /\ adm[a] = "idle"
  /\ \E i \in Ids, t \in UpdateStatusTargets :
       /\ CanTransition(status[i], t)
       /\ about' = [about EXCEPT ![a] = i]
       /\ target' = [target EXCEPT ![a] = t]
  /\ adm' = [adm EXCEPT ![a] = "read"]
  /\ UNCHANGED <<form, dbVars, webVars, revived>>

StatusEnd(a) ==
  /\ adm' = [adm EXCEPT ![a] = "idle"]
  /\ about' = [about EXCEPT ![a] = Nobody]
  /\ target' = [target EXCEPT ![a] = "none"]

\* repo.UpdateStatus runs on r.db: the UPDATE commits by itself, whatever
\* becomes of the transaction around it, and it has no guard on the status.
\* Only an approval and a rejection go on to a mail.
StatusUpdate(a) ==
  LET i == about[a]
      t == target[a]
  IN  /\ adm[a] = "read"
      /\ t \in Active => NoPendingInsert(i)
      /\ IF t \in Active /\ Conflict(i)
         THEN UNCHANGED <<status, revived>> /\ StatusEnd(a)
         ELSE /\ status' = [status EXCEPT ![i] = t]
              /\ revived' = IF t \in Active /\ status[i] \notin Active
                            THEN revived \cup {i} ELSE revived
              /\ IF Mailed(t)
                 THEN /\ adm' = [adm EXCEPT ![a] = "updated"]
                      /\ UNCHANGED <<about, target>>
                 ELSE StatusEnd(a)
      /\ UNCHANGED <<form, stored, outbox, webVars>>

\* INSERT ... ON CONFLICT DO NOTHING, waiting for a transaction that is
\* inserting the same (reservation_id, mail_type).
StatusEnqueue(a) ==
  /\ adm[a] = "updated"
  /\ \A b \in Admins :
       (adm[b] = "enqueued" /\ about[b] = about[a]) => target[b] # target[a]
  /\ adm' = [adm EXCEPT ![a] = "enqueued"]
  /\ UNCHANGED <<form, dbVars, webVars, about, target, revived>>

StatusCommit(a) ==
  /\ adm[a] = "enqueued"
  /\ outbox' = outbox \cup {<<about[a], target[a]>>}
  /\ StatusEnd(a)
  /\ UNCHANGED <<form, status, stored, webVars, revived>>

\* The same failures as WebFail: the enqueued mail is dropped, the status is
\* not put back.
StatusFail(a) ==
  /\ adm[a] # "idle"
  /\ StatusEnd(a)
  /\ UNCHANGED <<form, dbVars, webVars, revived>>

StatusProgress(a) == StatusUpdate(a) \/ StatusEnqueue(a) \/ StatusCommit(a)

(***************************************************************************)
(* PUT and DELETE /admin/schedules/{date}: autocommitted, without the      *)
(* visit-date lock.                                                        *)
(***************************************************************************)
StoreSchedule(d, row) ==
  /\ stored' = [stored EXCEPT ![d] = row]
  /\ offered' = [r \in WebRequests |->
       IF lock[d] = r
       THEN offered[r] \cup {IF row = NoSchedule THEN DefaultSchedule[d] ELSE row}
       ELSE offered[r]]
  /\ UNCHANGED <<form, status, outbox, lock, pc, seen, admVars>>

SetSchedule(d) == \E s \in Schedules : StoreSchedule(d, s)

DeleteSchedule(d) == stored[d] # NoSchedule /\ StoreSchedule(d, NoSchedule)

-----------------------------------------------------------------------------
Next ==
  \/ \E r \in WebRequests : WebProgress(r) \/ WebLock(r) \/ WebFail(r)
  \/ \E e \in AdminEntries : AdminCreate(e)
  \/ \E a \in Admins : StatusRead(a) \/ StatusProgress(a) \/ StatusFail(a)
  \/ \E d \in EditedDates : SetSchedule(d) \/ DeleteSchedule(d)

Spec == Init /\ [][Next]_vars

\* A started handler goes on; PostgreSQL hands the advisory lock to waiting
\* transactions in turn.  Nothing obliges customers or the owner to act.
Fairness ==
  /\ \A r \in WebRequests : WF_vars(WebProgress(r)) /\ SF_vars(WebLock(r))
  /\ \A a \in Admins : WF_vars(StatusProgress(a))

FairSpec == Spec /\ Fairness
-----------------------------------------------------------------------------
(***************************************************************************)
(* Properties.                                                             *)
(***************************************************************************)

\* Customers' reservations that count towards the capacity and got there
\* through the check under the visit-date lock.
LockedRows(d) ==
  {r \in WebRequests :
     form[r].date = d /\ status[r] \in Active /\ r \notin revived}

\* The advisory lock: a request between BEGIN/lock and COMMIT or ROLLBACK,
\* and no other, holds the lock of its visit date.
LockInv ==
  \A r \in WebRequests :
    /\ pc[r] \in InTransaction => lock[form[r].date] = r
    /\ \A d \in Dates :
         lock[d] = r => pc[r] \in InTransaction /\ form[r].date = d

\* What the check under the lock established stays true until COMMIT, whatever
\* the owner and the other customers do meanwhile: the schedule it used was in
\* force while the lock was held, and there is still room for the guests.
Budget ==
  \A r \in WebRequests :
    /\ pc[r] \in InTransaction => Effective(form[r].date) \in offered[r]
    /\ pc[r] \in InTransaction \ {"locked"} => seen[r] \in offered[r]
    /\ pc[r] \in {"admitted", "inserted", "enqueued"} =>
         /\ ~IsHoliday(seen[r])
         /\ Cardinality(Guests(LockedRows(form[r].date))) + form[r].people
              <= seen[r].capacity

\* The two together are inductive; AdmissionFits rests on them.
CapacityInv == LockInv /\ Budget

\* A customer's reservation becomes visible only if the guests admitted under
\* the visit-date lock, itself included, fit the capacity of an open schedule
\* that was in force at some moment while the request held the lock: never the
\* schedule or the sum it had read before it (createAndEnqueue re-reads both).
AdmissionFits ==
  [][\A r \in WebRequests :
       status[r] = "none" /\ status'[r] # "none" =>
         \E s \in offered[r] :
           /\ ~IsHoliday(s)
           /\ Cardinality(Guests(LockedRows(form[r].date)))' <= s.capacity]_vars

\* No customer's reservation exists without its "received" mail queued, and no
\* mail is queued, or about to be, for a reservation that does not exist,
\* whichever handler fails at whichever statement.
ReservationAnnounced ==
  /\ \A r \in WebRequests : status[r] # "none" => <<r, "received">> \in outbox
  /\ \A m \in outbox : status[m[1]] # "none"
  /\ \A a \in Admins : adm[a] # "idle" => status[about[a]] # "none"

\* Between its INSERT and its COMMIT a customer's request has its slot to
\* itself: no active reservation and no other transaction's row has the same
\* date, time and phone, whatever the owner enters or decides meanwhile.  No row
\* is visible before its COMMIT, and a schedule counts as offered only while
\* the lock is held.
SlotHeld ==
  \A r \in WebRequests :
    /\ pc[r] \in {"inserted", "enqueued"} => ~Conflict(r) /\ NoPendingInsert(r)
    /\ pc[r] # "done" => status[r] = "none"
    /\ pc[r] \notin InTransaction => offered[r] = {}

\* Whoever holds a visit-date lock never waits for another transaction's key:
\* waiting goes from keys to locks only, so nobody waits in a circle.
HolderNeverWaits ==
  \A r \in WebRequests : pc[r] = "admitted" => NoPendingInsert(r)

\* Nobody has two active reservations for the same date and time, although
\* rows are inserted, entered, and made active again by late decisions, in
\* transactions that do not see each other.
NoDoubleBooking ==
  \A i, j \in Ids :
    i # j /\ SameSlot(i, j) => ~(status[i] \in Active /\ status[j] \in Active)

\* Mails are queued one by one, and the received mail of a reservation before
\* any other of its mails: what ClaimNextPending's order by created_at relies on.
MailsInOrder ==
  [][\E m \in Ids \X MailTypes :
       /\ outbox' = outbox \cup {m}
       /\ m[2] = "received" => \A n \in outbox : n[1] # m[1]]_outbox

\* Admitted under the lock, and active ever since.
Counted == {r \in WebRequests : status[r] \in Active /\ r \notin revived}

\* The status updates of the sessions that are in one of these states.
Updates(states) ==
  {<<about[a], target[a]>> : a \in {b \in Admins : adm[b] \in states}}

\* The handlers, with their locks, reads and transactions, add up to a ledger
\* in which a booking is one entry: its guests fit, its slot is free and its
\* mail is queued at one and the same moment.
Ledger == INSTANCE BookingLedger WITH
  offers <- offered,
  taken <- Counted,
  asked <- Updates({"read"}),
  owed <- Updates({"updated", "enqueued"})

Booked == Ledger!Spec

\* With one owner session, customers' reservations never exceed the capacity of
\* a date whose schedule is not edited, however requests interleave and the
\* owner registers and decides reservations and edits other dates.
NoOverbooking ==
  \A d \in Dates \ EditedDates :
    Cardinality(Guests({i \in ReservedRows(d) : i \in WebRequests}))
      <= Effective(d).capacity

\* The transition table of docs/api_design.md:663-671.
DocumentedTransitions ==
  ({"pending"} \X {"approved", "rejected", "cancelled"})
    \cup ({"approved"} \X {"cancelled", "no_show"})

\* With one owner session, a row is never deleted and its status changes only
\* along the documented table, however its read and its UPDATE interleave with
\* the customers' transactions.
StatusTable ==
  [][\A i \in Ids :
       status[i] # "none" /\ status'[i] # status[i] =>
         <<status[i], status'[i]>> \in DocumentedTransitions]_vars

\* With one owner session, the mails queued for a reservation agree with its
\* status: an approved mail only for one that was approved and not rejected
\* since, a rejection mail only for one that is rejected.
DecisionMailTrue ==
  \A m \in outbox :
    /\ m[2] = "approved" => status[m[1]] \in {"approved", "no_show", "cancelled"}
    /\ m[2] = "rejected" => status[m[1]] = "rejected"

\* docs/architecture_decision_records.md:801: recording the mail is a necessary
\* condition of the reservation operation (an enqueue error rolls the whole
\* operation back).  The code violates it: the UPDATE is not in the transaction.
DecisionAnnounced ==
  \A r \in WebRequests :
    (status[r] \in {"approved", "rejected"} /\ \A a \in Admins : about[a] # r)
      => <<r, status[r]>> \in outbox

\* Everybody gets an answer: no customer's request and no status update waits
\* for ever, for the lock, for another transaction's key or for anything else,
\* if handlers that started go on.
Answered ==
  /\ \A r \in WebRequests : pc[r] # "new" ~> pc[r] \in Ended
  /\ \A a \in Admins : adm[a] # "idle" ~> adm[a] = "idle"
=============================================================================
