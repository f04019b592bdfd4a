# A TLA+ project for satehits

satehits is the reservation system of a small restaurant: a Go API on Cloud Run
with PostgreSQL, a flush service for mails driven by Cloud Scheduler, and a
browser client (Astro and React) for customers and for the owner. This directory
holds TLA+ modules translated from its source, TLC configurations that check
them on small instances, and proofs for TLAPS. Paths are relative to the
repository; TLA+ names follow the names in the source.

## 1. Inventory

| Part | State | Operations | Meets | What makes it right |
|---|---|---|---|---|
| Web reservations `usecase/reservation/create_reservation.go` | `reservations` rows | `POST /reservations` | schedules (read), visit-date lock, outbox (same transaction) | capacity, no double booking, no reservation without its mail |
| Owner's entries `create_admin_reservation.go` | same rows | `POST /admin/reservations` | unique index only | no duplicate active slot |
| Status updates `update_reservation_status.go` | `reservations.status` | `PATCH .../status` | outbox | transition table, decision and mail together |
| Transactions, lock `repository/transaction.go`, `visit_date_lock.go` | open transactions, advisory locks | `DoInTx`, `Lock` | all of the above | all or nothing, lock until COMMIT |
| Availability `domain/service/` | none (reads) | `ResolveForDate`, `ResolveMonth`, defaults by holiday and weekday, booking hours | schedules, reservations | two reads that make one answer, each day with its own sum; visits within the hours of booking |
| Schedule administration `usecase/schedule/` | `daily_schedules` rows | `PUT`, `DELETE`, lists | reservations read them without a lock | hours complete and ordered, a row deleted once, edits under running requests |
| Mail outbox `infrastructure/mail/`, `repository/email_outbox.go` | `email_outbox` rows, leases | enqueue, claim, send, record | Resend, Cloud Scheduler | order, no loss, bounded attempts, exclusive lease |
| Sessions `usecase/auth/`, `pkg/jwt` | `refresh_tokens`, `login_attempts` | login, refresh, logout | browser client | rotation, reuse detection, rate limit |
| Suppliers `usecase/supplier/` | `suppliers` rows, images | create, update, delete, reorder, upload | object storage | rearranged as a whole, no dangling image, deleted for good |
| Migrations `cmd/migrate` | `schema_migrations` | apply in order | database | each applied once |
| Browser client `frontend/src/lib/` | access token in memory, shared refresh promise, month caches | fetch with retry after 401 | sessions | one refresh at a time, late answers ignored |
| Left aside | | rendering, templates, DTOs, masks, seed, captcha and storage clients | | |

Hard behaviour, the hazards of `PROJECT.json` in short: handlers interleave
between SQL statements on READ COMMITTED; schedule edits take no lock; the
status UPDATE commits outside its transaction; flushes overlap, die between
claim, send and record, and lose answers; leases depend on time; schedules and
sums are read by two statements; rearranged suppliers are locked row by row, and
their images live outside the database.

## 2. Modules

| Module | What it is |
|---|---|
| `Reservations` | the three reservation handlers and schedule edits on one database |
| `BookingLedger` | what the reservations promise: an abstract ledger with atomic bookings, without locks, reads or transactions; one theorem about it |
| `MCReservations` | instances of `Reservations` |
| `ReservationsProofs` | its theorems |
| `BookingLedgerProofs` | that `Reservations` implements `BookingLedger`, and what follows |
| `MailDelivery` | what the outbox promises: abstract, without dispatchers or time |
| `EmailOutbox` | rows, leases, overlapping flushes, time, crashes; implements `MailDelivery` |
| `MCEmailOutbox` | instances of it |
| `EmailOutboxProofs` | its theorems, the refinement included |
| `AdminSessions` | what a login session promises: abstract, without requests or rows' locks |
| `RefreshTokens` | `refresh_tokens` under concurrent logins, refreshes and logouts; implements `AdminSessions` |
| `MCRefreshTokens` | instances of it |
| `RefreshTokensProofs` | its theorems, the refinement included |
| `StoreCalendar` | default schedules, hours and booking hours: pure |
| `Schedules` | the owner's edits of daily schedules under the requests that show schedules and free seats; uses `StoreCalendar` |
| `MCSchedules` | instances of it |
| `SchedulesProofs` | its theorems |
| `Suppliers` | the owner's requests about suppliers, on the table and the bucket |
| `MCSuppliers` | instances of it |
| `SuppliersProofs` | its theorems |

### Reservations

One action is one statement or one COMMIT; handlers interleave between them.

| Code | Action |
|---|---|
| first `resolver.ResolveForDate`, closed date, booking hours | `WebResolve` |
| `availability.ResolveForDate`: schedule, then sum | `WebReadSchedule`, `WebCheck` |
| `DoInTx`, `locker.Lock` | `WebLock` |
| the same two reads under the lock | `WebReread`, `WebRecheck` |
| `repo.Create` (unique index) | `WebInsert` |
| `EnqueueReservationReceived`, COMMIT | `WebEnqueue`, `WebCommit` |
| any error, panic, cancelled context, end of the process | `WebFail` |
| `CreateAdminReservationUseCase.Execute` | `AdminCreate` |
| `GetByID` and `CanTransition`; UPDATE; enqueue; COMMIT; failure | `StatusRead`, `StatusUpdate`, `StatusEnqueue`, `StatusCommit`, `StatusFail` |
| `SetSchedule`, `DeleteSchedule` | `SetSchedule`, `DeleteSchedule` |

`status`, `stored` and `outbox` are the committed tables; what a transaction has
written and not committed is its control state, since other statements cannot see it. `lock`
is the advisory lock by date. A unique-index check waits for a transaction that
has inserted the same key (`NoPendingInsert`). A request and the row it inserts
share an identity. `SUM(people)` is the cardinality of `Guests`, one pair per
guest. `revived` and `offered` are history. `StatusUpdate` commits by itself,
because `UpdateStatus` uses `r.db` where `Create` uses `getDB(ctx)`; a
transaction then queues the mail.

Left out: formats and captcha (a request that fails them changes nothing), the
arithmetic of the booking window, names, mail bodies, `source`. The foreign-key
check of an outbox row does not block a status update and is left out. The
default calendar is the constant `DefaultSchedule`; its definition is in
`StoreCalendar`.

`BookingLedger` knows forms, entries with their status, schedules, queued mails
and three things of the requests: the schedules offered to a customer since he
is served, the decisions the owner has asked for, and the mails owed for the
decisions taken. `Book` is one step: the slot is free, an offered schedule is
open and has room for everybody who counts, the entry appears as pending and its
received mail is queued. `Decide` takes a decision asked for and owes its mail;
`Announce` queues it, `GiveUp` forgets it (the finding `lost_decision_mail` is
the code's, so the ledger allows it). `Reservations!Ledger` maps to it: `offers`
is the history `offered`, `taken` are the customers' rows active ever since they
were admitted (`Counted`), `asked` and `owed` are the updates of the sessions
that have read, and that have updated (`Updates`). Locks, the two reads, INSERT
and enqueue have no counterpart: they are stutters, and COMMIT is `Book`.

### EmailOutbox

| Code | Action |
|---|---|
| `DoInTx` begins a transaction that queues a mail; its COMMIT | `Begin`; `Enqueue` |
| `HandleFlush`, start of `ProcessPending` | `StartFlush` |
| `ClaimNextPending` and its failure | `Claim`, `ClaimError` |
| batch full, over budget, nothing to claim | `EndFlush` |
| Resend takes the mail; `Send` returns | `Accept`, `SendReturns` |
| `MarkSent`, `MarkRetry`, `MarkFailed`, `ReleaseClaim`; their failure | `Mark`, `MarkError` |
| the process ends | `Crash` |
| time | `Tick` |

Time is kept as what is left of it: `due` until `next_attempt_at`, `timer` until
a flush's timeout, `left` of its time budget. `Tick` does not go past a timeout
that is due, since `context.WithTimeout` ends the call. SKIP LOCKED lets a claim
pass over as many rows as there are other flushes claiming (`Skippable`).
`accepted` is what Resend has taken; a repeated key is no news. `lost` counts
results that were not recorded, bounded by `MaxLost`.

`created_at` is the time at which the transaction began (`DEFAULT NOW()`), and
transactions commit in any order. `Begin` therefore puts the mail behind all
that have begun before (`older`, the order by `created_at`), and `Enqueue` makes
the row visible; a row is "open" in between. A received mail is committed before
a decision of its reservation begins, which `MailsInOrder` states of the
handlers. Two owner sessions may have two decisions of one reservation open at a
time, and then the one created first may be committed after the other has been
mailed: the claim cannot know of a row it cannot see. `ahead`, a history
variable, has for each mail those of its reservation that were created and
committed before it, and the order promised is about these.

Assumed: `LeaseCoversDelivery`, the lease is longer than send and mark timeouts
together (defaults 300 s against 40 s; `NewDispatcher` itself enforces only
lease > send timeout); a process does not stall past its own timeouts; one clock;
no two mails of a reservation with the same `created_at`. A `TimeBudget` of zero
is no limit, as in `overBudget`. The manual requeue of a failed row
(docs/infrastructure.md) is left out.

`MailDelivery` says the same in four actions: begin, queue, accept only when no
mail created and committed before it is pending, settle as sent only if
accepted; sent and failed are final. `EmailOutbox!Delivery` maps to it by the
variables of the same names.

### RefreshTokens

| Code | Action |
|---|---|
| `LoginUseCase.Execute`: clock read, then `Issue`, then `DeleteExpired` | `LoginStart`, `LoginIssue`, `LoginCleanup` |
| `RefreshUseCase.Execute`: `FindByTokenHash` and its branches | `RefreshFind` |
| BEGIN, `RevokeIfActive`, ROLLBACK if it updated no row | `RefreshRevoke` |
| `Issue` in the transaction, COMMIT | `RefreshIssue`, `RefreshCommit` |
| `RevokeAllByUser`: its snapshot, its end | `SweepStart`, `SweepEnd` |
| `LogoutUseCase.Execute`: find, `Revoke` | `LogoutFind`, `LogoutRevoke` |
| any error, cancelled context, end of the process | `Fail` |
| `expires_at` passes | `Expire` |

`row` is the committed table; what a rotation has revoked and inserted and not
committed is its control state. A rotation holds the lock of its row, and every
other UPDATE or DELETE of that row waits (`RowFree`). The sweep and the cleanup
pick rows (`doomed`) from a snapshot and change them in one later step: rows
added in between are not among them. Which rows they lock first is left open,
so the model allows more orders than PostgreSQL. `parent` and `session` are
history. Unknown, deleted and expired tokens end a refresh without a change and
are no step. `FindByID` and the signing of access tokens change nothing; their
failure is `Fail`. The password and the rate limit come before `LoginIssue`; the
origin check and the cookies hold no state here.

`AdminSessions` knows for each session the token that works: opened by a login,
exchanged by a refresh only while there is one, ended for good.

### StoreCalendar and Schedules

A day is a number whose remainder by 7 is its weekday, a time its minute. An
event's name and description are kept as present or not.

| Code | Definition |
|---|---|
| `StoreCalendar.DefaultSchedule`, `defaultScheduleTypeAndCapacity` | `DefaultSchedule`, `DefaultType` |
| `ApplyDefaultBusinessHours`, `ApplyEventDefaultBusinessHours` | the same names |
| `BookingWindowMinutes`, `bookingOpenTime`, `validateVisitTimeForSchedule` | `HasBookingWindow`, `BookingOpen`, `AcceptsVisit` |
| `buildAvailability`, `toDaySchedule` | `BuildAvailability`, `Answer` |
| `handleSet`, `SetScheduleUseCase.Execute`; the statement | `Put` (`Storable`, `RowOf`); `Upsert` |
| `handleDelete`: `FindByDate`, `DeleteByDate` | `Delete`, `DeleteRow` |
| `handleGetByDate`, `handleList` | `GetSchedule`, `ListSchedules`, `ReadSchedules` |
| `HandleAvailability`, `HandlePublicSchedules`: schedules, then sums | `GetAvailability`, `PublicSchedules`, `ReadSchedules`, `ReadReserved` |
| bad paths, queries, bodies, dates; a failed statement | `HandleSchedules`, `Malformed`, `OutOfRange`, `Fail` |

Every statement commits by itself. A PUT or a DELETE whose answer is lost may
have done its work (`Upsert`, `DeleteRow` end in refusal too). `Reserve` lets
`Reservations` change the sums at will. `created`, `removed` and `touched` are
history. `VisitsServed` speaks of the schedule a request reads first, as the
code does: the visit time is not checked again under the lock. It states the
hours of booking, which are not those of the doors: on a day of morning service
bookings start at 11:30 whenever the doors open, at an event on a Sunday, be it a
holiday, at 11:30 or when the doors open later, otherwise with the doors. The
code has no rule for a morning row whose doors open after 11:30 and takes visits
before they do; the property does not ask for more. `AnswersCurrent` speaks of
the days that did not change between the two reads of an answer; of the others
`SeatsShown` says that what is shown fits the row that was read and the day's own
sum.

### Suppliers

| Code | Action |
|---|---|
| `HandleAdminSuppliers`, `handleByID` | `HandleAdminSuppliers` |
| `CreateSupplierUseCase.Execute`, `Create` | `Create` |
| `UpdateSupplierUseCase.Execute`: `GetByID`, `Update` | `ReadForEdit`, `Update` |
| `DeleteSupplierUseCase.Execute` | `Delete` |
| `ReorderSuppliersUseCase.Execute`: each UPDATE, COMMIT, `List` | `Reorder`, `ReorderRow`, `ReorderCommit`, `ListAgain` |
| PostgreSQL ends one of the transactions that wait for each other | `Deadlock` |
| `UploadImageUseCase.Execute`: `GetByID`, `Save`, `UpdateImageURL`, `Delete` | `ReadForUpload`, `Save`, `UpdateImageURL`, `DeleteReplaced` |
| bad paths and bodies, refused fields, any other failure | `Malformed`, `Invalid`, `Fail` |

`row` is the committed table; the positions a rearrangement has written are its
`list` and `at` until COMMIT, and `lock` has the rows it holds. A deletion of the
old image is best effort and may be left undone. An uploaded object has a name
of its own (a UUID), here that of its request.

Left out: name, description, link and visibility, which are read, merged and
overwritten with the rest of the row; lists and the public list, which change
nothing; the objects of deleted suppliers, which stay. `image_url` is stored as
it is sent, so a body may name any object of the bucket, another supplier's too
(a URL outside it is `NoObject`); an upload to one of two rows with one image
deletes it for both. An edit writes back every column it has read, so one that
runs beside an upload can restore an image whose object is gone, and one beside a
rearrangement an old position. The code promises nothing of images that got into
a row in these two ways: `copied`, a history variable, has them and
`ImagesServed` leaves them out.

## 3. Runs

| Run | Instance | Shows |
|---|---|---|
| `reservations` | 2 customers, 1 date, 2 phones, 2 owner sessions, schedules edited at will | `CapacityInv`, `ReservationAnnounced`, `SlotHeld`, `HolderNeverWaits`, `NoDoubleBooking`, `AdmissionFits`, `MailsInOrder`, `Booked` |
| `one_owner` | 2 customers, 1 entry, 2 dates, 2 times, 2 phones, 1 owner session, schedules fixed | `NoOverbooking`, `DecisionMailTrue`, `NoDoubleBooking`, `StatusTable`, `Booked` |
| `answered` | 2 customers of one slot, 1 owner session, fair | `Answered` |
| `outbox` | 2 flushes, a received and a decision mail, a time budget, fair | `LeaseExclusive`, `AttemptsAccounted`, `Settled` |
| `outbox_order` | 2 flushes, a received mail and two decisions of a race | `DeliveryInv`, `MailsInSequence`, `Delivered` |
| `sessions` | 3 requests, 3 tokens, 1 user | `SessionsInv`, `SessionsEnd`, `EndedStays` |
| `schedules` | 2 PUTs, 2 DELETEs, 1 reader, an ordinary Sunday and a holiday Thursday, 12 bodies | `StoredSound`, `RowsAccounted`, `AnswersCurrent`, `SeatsShown`, `VisitsServed` |
| `suppliers` | 3 requests of any kind, 2 suppliers, 6 orders, fair | `ImagesServed`, `DeletedStays`, `Rearranged`, `RequestsEnd` |
| `lost_decision_mail` | 1 customer, 1 session | a decision without mail: violated |
| `two_owners` | 1 customer, 2 sessions | a forbidden transition: violated |
| `outbox_poison` | 1 mail, 6 crashes | a seventh attempt: violated |
| `sessions_reuse` | 2 requests, 3 tokens | a session that outlives the detection of a reuse: violated |

Bounds. Two customers are enough for every race over the lock, the sum and the
unique index; capacities 1 and 2 against parties of 1 and 2 give full, exactly
full and too small; an event and a closed day give the two ways of not opening.
Two owner sessions are the least that can race; that a revival does not take a
slot twice is checked in this run, `NoDoubleBooking` for the owner's own entries
in `one_owner`. Two flushes and the three mails a reservation can have give
overlap, overtaking and skipping, and a decision that is created first and
committed last; no run has two reservations, since the mails of different ones
are related only by the order of the claims, which SKIP LOCKED relaxes, and no
property rests on it (the theorems are about any mails); lease 3 against timeouts 1 + 1 is the tightest
that satisfies the assumption, so that an off-by-one shows; `MaxAttempts` is 2,
for the last and a last-but-one attempt. Three requests are two that race and
a third that logs in, logs out or sweeps meanwhile; three tokens are a login, a
rotation and a second use of either. A second user only adds rows that sweeps do
not touch. The two days are the two exceptions of the calendar, a morning
service and a holiday on a weekday that is otherwise closed; the bodies of the
PUTs have every type, complete, partial and contradictory hours, and two that
are refused only when the missing hours are filled in. Two PUTs and two DELETEs
are enough for a row that is deleted, stored again and deleted; one person is
enough to tell one day's sum from another's, and one body has a capacity of
zero, so that more are reserved than fit. Three supplier requests are two
uploads with a third request between them, and two rearrangements in opposite
orders with a deletion, and bodies name no image or any that the three may have
uploaded; one of the orders names a supplier that does not exist.
`Booked` is checked twice because neither run has both
several owner sessions with edits and an entry made by the owner, which takes
part in the ledger too. `HolderNeverWaits` is the safety half of `Answered`: a
holder of a visit-date lock never waits for a key, so keys wait for locks and
never the other way round. The proofs lift the bounds for what they cover. Deadlock is not checked for
`Reservations`, `Schedules` and `Suppliers`: they may stop once everybody has
been served. PUTs, and DELETEs, are interchangeable in `schedules`, which checks
invariants only, and are taken as symmetric.

Fairness. `Answered`: handlers that started go on (weak), and PostgreSQL's lock
queue is first in, first out (strong, `WebLock`); nobody is obliged to start.
`Settled`: Cloud Scheduler calls every minute (`StartFlush`), timeouts end calls
(`Tick`), a claim is not unlucky for ever (strong: the database comes back), and
Resend does not answer 401 or 403 for ever (strong: somebody repairs the key).
`RequestsEnd`: a supplier request that has started goes on (weak, `Progress`),
the breaking of deadlocks included; waiting for a row needs nothing stronger,
since a request holds rows only while it can go on or waits in a cycle, and each
request comes once.

## 4. Where the code disagrees with its documents

* `lost_decision_mail`: ADR-014 (docs/architecture_decision_records.md:801)
  puts a status update and its mail in one transaction. The UPDATE commits by
  itself. `DecisionAnnounced` fails in three steps.
* `two_owners`: docs/api_design.md:669 says a rejected reservation cannot
  change. The check is made on a row read earlier, the UPDATE has no condition.
* `outbox_poison`: ADR line 807 says a poison message fails after at most six
  attempts. The claim does not look at `attempt_count`, and a mail that ends its
  process never reaches the check after `Send`. `AttemptsAccounted` says what
  does hold: the excess is the number of results that were lost.
* `sessions_reuse`: docs/api_design.md:364 says that all tokens of the user are
  revoked when a revoked one is sent again. A rotation that commits while the
  sweep waits for its row adds a token the sweep does not see.

## 5. Proofs

All for any number of requests, sessions, dates, mails and flushes, from the
assumptions named in the modules.

`ReservationsProofs`. `TypeCorrect`; then `Capacity`, the inductive invariant
`CapacityInv == LockInv /\ Budget`. `LockInv` is needed because the sum a
request read under the lock stays valid only if nobody else of its date can
commit; `Budget` carries the outcome of the check (the guests admitted plus
one's own fit the schedule read) from `WebRecheck` to `WebCommit`, and says that
the schedule read is one of those in force since the lock. Status updates of the
owner only shrink the set that counts (`LockedRows` leaves revived rows out),
and schedule edits only grow `offered`. `Admission` derives `AdmissionFits` from
it: the commit adds one row to a set that had room. The lemmas on `Guests`
do the counting. `Announced` is inductive together with the typing.
For one owner session (`OneOwner`, an assumption of the theorems), `OwnerInv`
is inductive: what the session has read is still so when it updates, so nothing
is revived, and a row appears only when its request is done. `Transitions` and
`MailsTrue` follow from it. `AdmittedFit` holds for any number of sessions: on a
date whose schedule is not edited, what was offered under a lock is what is in
force (`Unedited`, inductive with `LockInv`, since an edit of another date
reaches only the holder of that date's lock), and the room `Capacity` accounts
for is that of the date. `NeverOverbooked` adds `OneOwner`: with no row revived,
the rows admitted under the lock are all the customers' rows. `AdmissionExact`
is about the comparison itself: clamped at zero, it admits a party if and only
if everybody fits.

`BookingLedger`, `BookingLedgerProofs`. `SlotsDistinct` is the ledger's own
theorem: no two active entries share date, time and phone. `Held` makes
`SlotHeld` inductive, with the typing and `LockInv`: nobody can take a slot
between INSERT and COMMIT, because an entry and an approval wait for the open
transaction's key (`NoPendingInsert`) and another customer's insert does too,
so that `Conflict`, looked at before the INSERT, is still false at COMMIT.
`Implements` maps every step: COMMIT to `Book` by `SlotHeld` (the slot) and
`Budget` (the room in an offered schedule); the owner's entry to `Enter`; the
three steps of a status update to `Ask`, `Decide` and `Announce`, which need
`ReservationAnnounced` (the row asked about exists) and that revived rows are
no longer counted (`RevivedRows`); an edit to `Edit`, which needs `SlotHeld` and
`LockInv` to know that a customer to whom something is offered holds the lock of
his date. `NoDoubleBookings` is then `SlotsDistinct` read through the mapping:
with any number of owner sessions, although late decisions revive rows.
`QueuedInOrder` proves what `EmailOutbox!Begin` takes for granted of its
callers: one mail at a time, the received mail before any other of its
reservation. `NoWaitUnderLock` follows from `LockInv`: the row of a key a holder
would wait for has the same date, and its transaction would hold the same lock.

`EmailOutboxProofs`. `TypeCorrect`; `Exclusive`: `LeaseExclusive` is inductive;
its heart is that a flush's remaining timeouts are always less than what is left
of the lease, which `Tick` lowers together and `Claim` establishes by
`LeaseCoversDelivery`. `Accounted` builds on it: a recorded result concerns the
attempt that was claimed. `DeliveryInvariant` and `Implements`: each step of the
outbox is a step of `MailDelivery` or leaves its variables alone. `InSequence`
is proved of `MailDelivery` and carried over: which mails are ahead of one is
fixed when it is committed, settled ones stay settled, so what is checked at
acceptance lasts; and a received mail has begun and is committed before any other
mail of its reservation begins, so it is ahead of each of them.

`RefreshTokensProofs`. `TypeCorrect`; `SessionsInvariant`: `SessionsInv` is
inductive. `SingleUse` and `OneLivePerSession` need `RotationInv`: an open
rotation works on a row that is still active for all others and that nobody else
rotates, so that its commit replaces the one live row of the session; and
`FamilyInv`: a rotated row is not active, a new row has no history. Sweeps,
cleanups and logouts touch only rows without a rotation (`EndingStep`).
`SessionsImplemented` maps them to `End`, the login to `Open`, the commit to
`Rotate`. `EndedForGood` reads off `AdminSessions` that a session none of whose
tokens works never gets one that does.

`SchedulesProofs`. `TypeCorrect`. `StoredRowsSound`: a row is sound when it is
drafted and nobody changes a draft (`DraftsSound`); `RowSound` shows that what
`Storable` lets through is sound once the hours are filled in, type by type.
`VisitsCorrect` follows from it: filling the hours of a sound row once more
changes nothing (`FillHoursIdle`), and default schedules are sound rows
(`DefaultRows`), so the window of a day is the hours that are stored.
`DeletedOnce` is inductive. `AnswersCorrect` needs `SeenCurrent`: what a reader
has read of a day is in force until the day is touched. `SeatsExact`: the number
shown is the size of the largest party that may book, the counterpart of
`AdmissionExact` on the side of the calendar; `SeatsCorrect` carries it to the
answers, whose row and sum are read apart. `HoursSettled`: the hours stored
by a PUT are those that bookings go by.

`SuppliersProofs`. `TypeCorrect`; `DeletedForGood` from it. `OrderAtomic` needs
`RowsHeld`: the rows that a rearrangement has updated are there and locked by
it, so that at COMMIT all of them are. `ImagesStay`: `ImagesServed` is inductive
together with `OneHome` (an object is the image of one row only), `Unlinked` (a
name not yet written is nobody's image), `SavedThere` (a saved object is there
until it is linked) and `Superseded` (an image that an upload is about to delete
is in force nowhere), each for the objects that are not `copied`: a copy is the
only way for an object to get to a second row.

Model-checked only: the liveness properties `Answered`, `Settled` and
`RequestsEnd`, since fairness is beyond the prover, and what the runs that expect
a violation are about. With several owner sessions
`StatusTable` does not hold (`two_owners`), nor does `NoOverbooking`, since a row
may be revived; on a date that is edited it does not hold once the owner lowers
a capacity below what is reserved. `Admission` and `NoDoubleBookings` hold in any
case.

## 6. Not modelled

* The rate limit of logins (`login_rate_limit.go`, `login_attempt.go`): attempts
  are counted before the password check and recorded after it, so parallel
  attempts pass together. Neither code nor documents state a bound for that
  case, and for one attempt at a time there is only the comparison of two
  counts with two limits.
* Access tokens, cookies, the origin check, CORS, client addresses: functions of
  one request without state.
* The browser client (`src/frontend`): a promise shared by the requests of one
  page, a token in memory, caches of months. What the server must bear of it is
  in `RefreshTokens` and `Schedules`.
* The migration tool: it runs before the service does, by itself.
* The booking window of 14 days and the parsing and formatting of dates and
  times; the embedded list of holidays is the constant `NationalHolidays`.
* Mail templates, masking, the seed, reading the configuration: no state that
  another part sees. Captcha: a refused request. Object storage and Resend: as
  far as their clients' callers can tell.
* Lists of reservations and suppliers: single statements that change nothing.
* PostgreSQL's and the pooler's limits on connections: a statement that is
  refused for them fails like any other.
