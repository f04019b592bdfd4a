------------------------ MODULE BookingLedgerProofs ------------------------
(***************************************************************************)
(* The handlers of Reservations implement BookingLedger, for any number of *)
(* customers, owner sessions, dates and schedules.                         *)
(***************************************************************************)
EXTENDS ReservationsProofs

(***************************************************************************)
(* The slot of a request between its INSERT and its COMMIT.                *)
(***************************************************************************)
Inserting == {"inserted", "enqueued"}

\* A status given to a row that is not being inserted, with the unique-index
\* check of the database, disturbs nobody who is inserting.
LEMMA GiveStatusHeld ==
  ASSUME TypeOK, SlotHeld, NEW i \in Ids, NEW s \in Statuses,
         UNCHANGED <<form, pc, offered>>, status' = [status EXCEPT ![i] = s],
         s \in Active => NoPendingInsert(i),
         i \in WebRequests => pc[i] = "done"
  PROVE  SlotHeld'
<1> SUFFICES ASSUME NEW r \in WebRequests
             PROVE  /\ pc[r] \in Inserting => ~Conflict(r)' /\ NoPendingInsert(r)'
                    /\ pc[r] # "done" => status'[r] = "none"
                    /\ pc[r] \notin InTransaction => offered[r] = {}
  BY DEF SlotHeld, Inserting
<1>1. r \in Ids
  BY DEF Ids
<1>2. ASSUME pc[r] \in Inserting
      PROVE  ~Conflict(r)' /\ NoPendingInsert(r)'
  <2>1. ~Conflict(r) /\ NoPendingInsert(r)
    BY <1>2 DEF SlotHeld, Inserting
  <2>2. ASSUME NEW j \in Ids \ {r}, SameSlot(r, j)
        PROVE  status'[j] \notin Active
    <3>1. CASE j = i
      <4>1. SameSlot(i, r) /\ r # i
        BY <2>2, <3>1 DEF SameSlot
      <4>2. s \notin Active
        BY <4>1, <1>2 DEF NoPendingInsert, Inserting
      <4>3. QED
        BY <3>1, <4>2 DEF TypeOK
    <3>2. CASE j # i
      BY <2>1, <2>2, <3>2 DEF Conflict, TypeOK
    <3>3. QED
      BY <3>1, <3>2
  <2>3. QED
    BY <2>1, <2>2 DEF Conflict, NoPendingInsert, SameSlot
<1>3. pc[r] # "done" => status'[r] = "none"
  BY <1>1 DEF SlotHeld, TypeOK
<1>4. QED
  BY <1>2, <1>3 DEF SlotHeld

\* What a step of a customer's request does to the rows and the requests.
LEMMA WebStepShape ==
  ASSUME TypeOK, NEW r \in WebRequests, WebStep(r)
  PROVE  /\ UNCHANGED <<form, stored, admVars>>
         /\ pc[r] # "done"
         /\ \A q \in WebRequests \ {r} : pc'[q] = pc[q] /\ offered'[q] = offered[q]
         /\ pc'[r] \notin InTransaction =>
              offered'[r] \in (IF pc[r] \in InTransaction THEN {{}} ELSE {{}, offered[r]})
         /\ \/ UNCHANGED <<status, outbox>> /\ pc'[r] # "done"
            \/ WebCommit(r) /\ pc'[r] = "done" /\ pc[r] = "enqueued"
         /\ pc'[r] \in Inserting =>
              \/ pc[r] = "inserted"
              \/ ~Conflict(r) /\ NoPendingInsert(r)
<1>1. ASSUME NEW state, WebEnd(r, state)
      PROVE  /\ \A q \in WebRequests \ {r} : pc'[q] = pc[q] /\ offered'[q] = offered[q]
             /\ pc'[r] = state /\ offered'[r] = {}
  BY <1>1 DEF WebEnd, WebGoto, TypeOK
<1>2. ASSUME NEW state, WebGoto(r, state)
      PROVE  (\A q \in WebRequests \ {r} : pc'[q] = pc[q]) /\ pc'[r] = state
  BY <1>2 DEF WebGoto, TypeOK
<1> USE DEF dbVars, InTransaction, Inserting
<1> HIDE DEF WebEnd, WebGoto
<1>3. CASE WebResolve(r)
  BY <1>1, <1>2, <1>3 DEF WebResolve
<1>4. CASE WebReadSchedule(r)
  BY <1>2, <1>4 DEF WebReadSchedule
<1>5. CASE WebCheck(r)
  BY <1>1, <1>2, <1>5 DEF WebCheck
<1>6. CASE WebLock(r)
  <2>1. \A q \in WebRequests \ {r} : offered'[q] = offered[q]
    BY <1>6 DEF WebLock, TypeOK
  <2>2. QED
    BY <1>2, <1>6, <2>1 DEF WebLock
<1>7. CASE WebReread(r)
  BY <1>2, <1>7 DEF WebReread
<1>8. CASE WebRecheck(r)
  BY <1>1, <1>2, <1>8 DEF WebRecheck
<1>9. CASE WebInsert(r)
  BY <1>1, <1>2, <1>9 DEF WebInsert
<1>10. CASE WebEnqueue(r)
  BY <1>2, <1>10 DEF WebEnqueue
<1>11. CASE WebCommit(r)
  BY <1>1, <1>11 DEF WebCommit
<1>12. CASE WebFail(r)
  BY <1>1, <1>12 DEF WebFail, Ended
<1>13. QED
  BY <1>3, <1>4, <1>5, <1>6, <1>7, <1>8, <1>9, <1>10, <1>11, <1>12
  DEF WebStep, WebProgress

LEMMA WebStepHeld ==
  ASSUME TypeOK, SlotHeld, NEW r \in WebRequests, WebStep(r)
  PROVE  SlotHeld'
<1> DEFINE Free(q) == ~Conflict(q) /\ NoPendingInsert(q)
<1>0. /\ UNCHANGED form
      /\ pc[r] # "done"
      /\ \A q \in WebRequests \ {r} : pc'[q] = pc[q] /\ offered'[q] = offered[q]
      /\ pc'[r] \notin InTransaction =>
           offered'[r] \in (IF pc[r] \in InTransaction THEN {{}} ELSE {{}, offered[r]})
      /\ \/ UNCHANGED status /\ pc'[r] # "done"
         \/ WebCommit(r) /\ pc'[r] = "done" /\ pc[r] = "enqueued"
      /\ pc'[r] \in Inserting => pc[r] = "inserted" \/ Free(r)
  BY WebStepShape
<1>1. \A i \in Ids \ {r} : status'[i] = status[i]
  BY <1>0 DEF WebCommit, TypeOK
<1>2. pc[r] \in Inserting \/ pc'[r] \in Inserting => Free(r)
  BY <1>0 DEF SlotHeld, Inserting
<1>3. ASSUME NEW q \in WebRequests, pc'[q] \in Inserting
      PROVE  Free(q)'
  <2>1. Free(q)
    BY <1>0, <1>2, <1>3 DEF SlotHeld, Inserting
  <2>2. SameSlot(q, r) /\ q # r => pc'[r] \notin Inserting /\ pc[r] \notin Inserting
    <3>1. SUFFICES ASSUME SameSlot(q, r), q # r, pc[r] \in Inserting \/ pc'[r] \in Inserting
                   PROVE  FALSE
      OBVIOUS
    <3>2. SameSlot(r, q) /\ pc[q] \in Inserting
      BY <1>0, <1>3, <3>1 DEF SameSlot
    <3>3. QED
      BY <1>2, <3>1, <3>2 DEF NoPendingInsert, Inserting
  <2>3. NoPendingInsert(q)'
    BY <1>0, <2>1, <2>2 DEF NoPendingInsert, SameSlot, Inserting
  <2>4. ASSUME NEW j \in Ids \ {q}, SameSlot(q, j)
        PROVE  status'[j] \notin Active
    <3>1. status[j] \notin Active
      BY <2>1, <2>4 DEF Conflict
    <3>2. CASE j = r /\ WebCommit(r)
      BY <1>0, <2>2, <2>4, <3>2 DEF WebCommit, Inserting
    <3>3. CASE j # r \/ ~WebCommit(r)
      BY <1>0, <1>1, <3>1, <3>3
    <3>4. QED
      BY <3>2, <3>3
  <2>5. QED
    BY <1>0, <2>3, <2>4 DEF Conflict, SameSlot
<1>4. ASSUME NEW q \in WebRequests, pc'[q] # "done"
      PROVE  status'[q] = "none"
  BY <1>0, <1>1, <1>4 DEF SlotHeld, Ids
<1>5. ASSUME NEW q \in WebRequests, pc'[q] \notin InTransaction
      PROVE  offered'[q] = {}
  BY <1>0, <1>5 DEF SlotHeld
<1>6. QED
  BY <1>3, <1>4, <1>5 DEF SlotHeld, Inserting

LEMMA HeldStep ==
  TypeOK /\ LockInv /\ ReservationAnnounced /\ SlotHeld /\ [Next]_vars => SlotHeld'
<1> SUFFICES ASSUME TypeOK, LockInv, ReservationAnnounced, SlotHeld, [Next]_vars
             PROVE  SlotHeld'
  OBVIOUS
<1>0. ASSUME UNCHANGED <<form, status, pc, offered>>
      PROVE  SlotHeld'
  BY <1>0 DEF SlotHeld, Conflict, NoPendingInsert, SameSlot
<1>1. ASSUME NEW r \in WebRequests, WebStep(r)
      PROVE  SlotHeld'
  BY <1>1, WebStepHeld
<1>2. ASSUME NEW e \in AdminEntries, AdminCreate(e)
      PROVE  SlotHeld'
  <2>1. PICK s \in Statuses :
          (s \in Active => ~Conflict(e)) /\ status' = [status EXCEPT ![e] = s]
    BY <1>2 DEF AdminCreate
  <2>2. e \in Ids /\ e \notin WebRequests
    BY ReservationsAssumption DEF Ids
  <2>3. NoPendingInsert(e) /\ UNCHANGED <<form, pc, offered>>
    BY <1>2 DEF AdminCreate, webVars
  <2>4. QED
    BY <2>1, <2>2, <2>3, GiveStatusHeld
<1>3. ASSUME NEW a \in Admins, StatusStep(a)
      PROVE  SlotHeld'
  <2>1. UNCHANGED <<form, pc, offered>>
    BY <1>3
    DEF StatusStep, StatusProgress, StatusRead, StatusUpdate, StatusEnqueue,
        StatusCommit, StatusFail, webVars
  <2>2. CASE UNCHANGED status
    BY <1>0, <2>1, <2>2
  <2>3. CASE /\ StatusUpdate(a)
             /\ status' = [status EXCEPT ![about[a]] = target[a]]
    <3>1. about[a] \in Ids /\ target[a] \in Statuses /\ status[about[a]] # "none"
      BY <2>3
      DEF StatusUpdate, TypeOK, ReservationAnnounced, Statuses, UpdateStatusTargets
    <3>2. target[a] \in Active => NoPendingInsert(about[a])
      BY <2>3 DEF StatusUpdate
    <3>3. about[a] \in WebRequests => pc[about[a]] = "done"
      BY <3>1 DEF SlotHeld
    <3>4. QED
      BY <2>1, <2>3, <3>1, <3>2, <3>3, GiveStatusHeld
  <2>4. QED
    BY <1>3, <2>2, <2>3
    DEF StatusStep, StatusProgress, StatusRead, StatusUpdate, StatusEnqueue,
        StatusCommit, StatusFail, dbVars
<1>4. ASSUME NEW d \in Dates, ScheduleStep(d)
      PROVE  SlotHeld'
  <2>1. UNCHANGED <<form, status, pc>>
    BY <1>4 DEF ScheduleStep, SetSchedule, DeleteSchedule, StoreSchedule
  <2>2. ASSUME NEW r \in WebRequests, pc[r] \notin InTransaction
        PROVE  offered'[r] = {}
    <3>1. lock[d] # r /\ offered[r] = {}
      BY <2>2 DEF LockInv, SlotHeld
    <3>2. QED
      BY <1>4, <3>1 DEF ScheduleStep, SetSchedule, DeleteSchedule, StoreSchedule
  <2>3. QED
    BY <2>1, <2>2 DEF SlotHeld, Conflict, NoPendingInsert, SameSlot
<1>5. CASE UNCHANGED vars
  BY <1>0, <1>5 DEF vars, dbVars, webVars
<1>6. QED
  BY <1>1, <1>2, <1>3, <1>4, <1>5, ReservationsAssumption
  DEF Next, WebStep, StatusStep, ScheduleStep

\* Between INSERT and COMMIT a customer's request has its slot to itself.
THEOREM Held == Spec => []SlotHeld
<1>1. Init => SlotHeld
  BY DEF Init, SlotHeld, Ids
<1>2. CapacityInv => LockInv
  BY DEF CapacityInv
<1>3. QED
  BY <1>1, <1>2, HeldStep, TypeCorrect, Capacity, Announced, PTL DEF Spec

-----------------------------------------------------------------------------
\* Mails are queued one by one, the received mail of a reservation first: the
\* rows of email_outbox appear in the order ClaimNextPending relies on.
THEOREM QueuedInOrder == Spec => MailsInOrder
<1> DEFINE One ==
      \E m \in Ids \X MailTypes :
        /\ outbox' = outbox \cup {m}
        /\ m[2] = "received" => \A n \in outbox : n[1] # m[1]
<1>1. TypeOK /\ ReservationAnnounced /\ SlotHeld /\ [Next]_vars => [One]_outbox
  <2> SUFFICES ASSUME TypeOK, ReservationAnnounced, SlotHeld, [Next]_vars, outbox' # outbox
               PROVE  One
    OBVIOUS
  <2>1. ASSUME NEW r \in WebRequests, WebStep(r)
        PROVE  One
    <3>1. WebCommit(r) /\ pc[r] # "done"
      BY <2>1, WebStepShape
    <3>2. outbox' = outbox \cup {<<r, "received">>} /\ status[r] = "none"
      BY <3>1 DEF WebCommit, SlotHeld
    <3>3. \A n \in outbox : n[1] # r
      BY <3>2 DEF ReservationAnnounced
    <3>4. <<r, "received">> \in Ids \X MailTypes
      BY DEF Ids, MailTypes
    <3>5. QED
      BY <3>2, <3>3, <3>4
  <2>2. ASSUME NEW a \in Admins, StatusStep(a)
        PROVE  One
    <3>1. StatusCommit(a)
      BY <2>2
      DEF StatusStep, StatusProgress, StatusRead, StatusUpdate, StatusEnqueue,
          StatusFail, dbVars
    <3>2. /\ outbox' = outbox \cup {<<about[a], target[a]>>}
          /\ about[a] \in Ids /\ target[a] \in {"approved", "rejected"}
      BY <3>1 DEF StatusCommit, TypeOK
    <3>3. <<about[a], target[a]>> \in Ids \X MailTypes
      BY <3>2 DEF MailTypes
    <3>4. QED
      BY <3>2, <3>3
  <2>3. ASSUME NEW e \in AdminEntries, AdminCreate(e)
        PROVE  FALSE
    BY <2>3 DEF AdminCreate
  <2>4. ASSUME NEW d \in Dates, ScheduleStep(d)
        PROVE  FALSE
    BY <2>4 DEF ScheduleStep, SetSchedule, DeleteSchedule, StoreSchedule
  <2>5. CASE UNCHANGED vars
    BY <2>5 DEF vars, dbVars
  <2>6. QED
    BY <2>1, <2>2, <2>3, <2>4, <2>5, ReservationsAssumption
    DEF Next, WebStep, StatusStep, ScheduleStep
<1>2. QED
  BY <1>1, TypeCorrect, Announced, Held, PTL DEF Spec, MailsInOrder

-----------------------------------------------------------------------------
\* No row is ever deleted.
LEMMA RowStays ==
  ASSUME TypeOK, ReservationAnnounced, [Next]_vars, NEW i \in Ids, status[i] # "none"
  PROVE  status'[i] # "none"
<1>1. ASSUME NEW r \in WebRequests, WebStep(r)
      PROVE  status'[i] # "none"
  <2>1. UNCHANGED status \/ WebCommit(r)
    BY <1>1, WebStepShape
  <2>2. QED
    BY <2>1 DEF WebCommit, TypeOK
<1>2. ASSUME NEW e \in AdminEntries, AdminCreate(e)
      PROVE  status'[i] # "none"
  BY <1>2 DEF AdminCreate, TypeOK, Statuses
<1>3. ASSUME NEW a \in Admins, StatusStep(a)
      PROVE  status'[i] # "none"
  <2>1. UNCHANGED status \/ (adm[a] # "idle" /\ status' = [status EXCEPT ![about[a]] = target[a]])
    BY <1>3
    DEF StatusStep, StatusProgress, StatusRead, StatusUpdate, StatusEnqueue,
        StatusCommit, StatusFail, dbVars
  <2>2. QED
    BY <2>1 DEF TypeOK, UpdateStatusTargets
<1>4. ASSUME NEW d \in Dates, ScheduleStep(d)
      PROVE  status'[i] # "none"
  BY <1>4 DEF ScheduleStep, SetSchedule, DeleteSchedule, StoreSchedule
<1>5. CASE UNCHANGED vars
  BY <1>5 DEF vars, dbVars
<1>6. QED
  BY <1>1, <1>2, <1>3, <1>4, <1>5, ReservationsAssumption
  DEF Next, WebStep, StatusStep, ScheduleStep

(***************************************************************************)
(* The refinement, one lemma per handler.                                  *)
(***************************************************************************)
\* Only rows that exist are made active again.
RevivedRows == \A i \in revived : status[i] # "none"

LEMMA Revived == Spec => []RevivedRows
<1>1. Init => RevivedRows
  BY DEF Init, RevivedRows
<1>2. TypeOK /\ ReservationAnnounced /\ RevivedRows /\ [Next]_vars => RevivedRows'
  <2> SUFFICES ASSUME TypeOK, ReservationAnnounced, RevivedRows, [Next]_vars
               PROVE  RevivedRows'
    OBVIOUS
  <2>1. ASSUME NEW i \in Ids, status[i] # "none"
        PROVE  status'[i] # "none"
    BY <2>1, RowStays
  <2>2. ASSUME NEW a \in Admins, StatusUpdate(a)
        PROVE  RevivedRows'
    <3>1. about[a] \in Ids /\ status[about[a]] # "none"
      BY <2>2 DEF StatusUpdate, TypeOK, ReservationAnnounced
    <3>2. revived' \in {revived, revived \cup {about[a]}}
      BY <2>2 DEF StatusUpdate
    <3>3. QED
      BY <2>1, <3>1, <3>2 DEF RevivedRows, TypeOK
  <2>3. CASE ~\E a \in Admins : StatusUpdate(a)
    <3>1. UNCHANGED revived
      BY <2>3
      DEF Next, WebProgress, WebResolve, WebReadSchedule, WebCheck, WebLock,
          WebReread, WebRecheck, WebInsert, WebEnqueue, WebCommit, WebFail,
          AdminCreate, StatusRead, StatusProgress, StatusEnqueue, StatusCommit,
          StatusFail, SetSchedule, DeleteSchedule, StoreSchedule, admVars, vars
    <3>2. QED
      BY <2>1, <3>1 DEF RevivedRows, TypeOK
  <2>4. QED
    BY <2>2, <2>3
<1>3. QED
  BY <1>1, <1>2, TypeCorrect, Announced, PTL DEF Spec

LEMMA SameUpdates ==
  ASSUME UNCHANGED <<adm, about, target>>, NEW states
  PROVE  Updates(states)' = Updates(states)
BY DEF Updates

\* What one session adds to the updates under way.
LEMMA UpdatesOf ==
  ASSUME NEW a \in Admins, NEW states,
         \A b \in Admins \ {a} :
           adm'[b] = adm[b] /\ about'[b] = about[b] /\ target'[b] = target[b]
  PROVE  LET others == {<<about[b], target[b]>> :
                          b \in {c \in Admins \ {a} : adm[c] \in states}}
         IN  /\ Updates(states) = others \cup
                  (IF adm[a] \in states THEN {<<about[a], target[a]>>} ELSE {})
             /\ Updates(states)' = others \cup
                  (IF adm'[a] \in states THEN {<<about'[a], target'[a]>>} ELSE {})
<1> DEFINE others == {<<about[b], target[b]>> :
                        b \in {c \in Admins \ {a} : adm[c] \in states}}
<1>1. Updates(states) = others \cup
        (IF adm[a] \in states THEN {<<about[a], target[a]>>} ELSE {})
  BY DEF Updates
<1>2. Updates(states)' = others \cup
        (IF adm'[a] \in states THEN {<<about'[a], target'[a]>>} ELSE {})
  BY DEF Updates
<1>3. QED
  BY <1>1, <1>2

LEMMA SameCardinality ==
  ASSUME NEW S
  PROVE  Ledger!Cardinality(S) = Cardinality(S)
BY DEF Ledger!Cardinality, Cardinality

\* The guests who count are those admitted under the lock of their date.
LEMMA LedgerFits ==
  ASSUME TypeOK, Budget, NEW r \in WebRequests, pc[r] = "enqueued", status[r] = "none"
  PROVE  seen[r] \in offered[r] /\ Ledger!Fits(r, seen[r])
<1> DEFINE S == {q \in Counted : form[q].date = form[r].date}
<1>1. S = LockedRows(form[r].date)
  BY DEF LockedRows, Counted
<1>2. S \in SUBSET Ids /\ r \in Ids \ S
  BY DEF Counted, Ids, Active
<1>3. /\ seen[r] \in offered[r]
      /\ ~IsHoliday(seen[r])
      /\ Cardinality(Guests(LockedRows(form[r].date))) + form[r].people
           <= seen[r].capacity
  BY DEF Budget, InTransaction
<1>4. Cardinality(Guests(S \cup {r})) = Cardinality(Guests(S)) + form[r].people
  <2> HIDE DEF S
  <2> QED
    BY <1>2, GuestsAdd
<1>5. Cardinality(Guests(S \cup {r})) <= seen[r].capacity
  <2> HIDE DEF S
  <2> QED
    BY <1>1, <1>3, <1>4
<1>6. Ledger!Guests(S \cup {r}) = Guests(S \cup {r})
  BY DEF Ledger!Guests, Guests
<1>7. Ledger!Open(seen[r])
  BY <1>3 DEF Ledger!Open, IsHoliday
<1>8. QED
  BY <1>3, <1>5, <1>6, <1>7, SameCardinality DEF Ledger!Fits

LEMMA LedgerSlotFree ==
  ASSUME NEW i \in Ids, ~Conflict(i)
  PROVE  Ledger!SlotFree(i)
BY DEF Conflict, SameSlot, Ids, Active,
       Ledger!SlotFree, Ledger!SameSlot, Ledger!Ids, Ledger!Active

\* The COMMIT of a customer's request is its booking.
LEMMA CommitBooks ==
  ASSUME TypeOK, Budget, SlotHeld, RevivedRows, NEW r \in WebRequests, WebCommit(r)
  PROVE  Ledger!Book(r)
<1>1. pc[r] = "enqueued" /\ status[r] = "none" /\ ~Conflict(r) /\ r \in Ids
  BY DEF WebCommit, SlotHeld, Ids
<1>2. Ledger!SlotFree(r)
  BY <1>1, LedgerSlotFree
<1>3. \E s \in offered[r] : Ledger!Fits(r, s)
  BY <1>1, LedgerFits
<1>4. /\ status' = [status EXCEPT ![r] = "pending"]
      /\ outbox' = outbox \cup {<<r, "received">>}
      /\ offered' = [offered EXCEPT ![r] = {}]
      /\ UNCHANGED <<form, stored, adm, about, target>>
  BY DEF WebCommit, WebEnd, admVars
<1>5. r \notin revived' /\ UNCHANGED revived
  <2>1. UNCHANGED revived
    BY DEF WebCommit, admVars
  <2>2. r \notin revived
    BY <1>1 DEF RevivedRows
  <2>3. QED
    BY <2>1, <2>2
<1>6. Counted' = Counted \cup {r}
  BY <1>1, <1>4, <1>5 DEF Counted, TypeOK, Ids, Active
<1>7. UNCHANGED <<Updates({"read"}), Updates({"updated", "enqueued"})>>
  BY <1>4, SameUpdates
<1>8. QED
  BY <1>1, <1>2, <1>3, <1>4, <1>6, <1>7 DEF Ledger!Book

\* Everything else a customer's request does is seen in the ledger only when
\* it takes the lock or gives it up.
LEMMA WebStepMaps ==
  ASSUME TypeOK, Budget, SlotHeld, RevivedRows, NEW r \in WebRequests, WebStep(r)
  PROVE  Ledger!Book(r) \/ Ledger!Consider(r) \/ Ledger!Withdraw(r) \/ UNCHANGED Ledger!vars
<1>1. CASE WebCommit(r)
  BY <1>1, CommitBooks
<1>2. CASE ~WebCommit(r)
  <2>1. /\ UNCHANGED <<form, stored, status, outbox, admVars>>
        /\ pc[r] # "done"
    BY <1>2, WebStepShape
  <2>2. UNCHANGED <<Counted, Updates({"read"}), Updates({"updated", "enqueued"})>>
    BY <2>1, SameUpdates DEF Counted, admVars
  <2>3. \/ offered' = [offered EXCEPT ![r] = {}]
        \/ offered' = [offered EXCEPT ![r] = {Effective(form[r].date)}]
        \/ UNCHANGED offered
    BY <1>2
    DEF WebStep, WebProgress, WebResolve, WebReadSchedule, WebCheck, WebLock,
        WebReread, WebRecheck, WebInsert, WebEnqueue, WebFail, WebEnd
  <2>4. CASE offered' = [offered EXCEPT ![r] = {}]
    BY <2>1, <2>2, <2>4 DEF Ledger!Withdraw
  <2>5. CASE offered' = [offered EXCEPT ![r] = {Effective(form[r].date)}]
    <3>1. status[r] = "none"
      BY <2>1 DEF SlotHeld
    <3>2. QED
      BY <2>1, <2>2, <2>5, <3>1 DEF Ledger!Consider, Ledger!Effective, Effective
  <2>6. CASE UNCHANGED offered
    BY <2>1, <2>2, <2>6 DEF Ledger!vars
  <2>7. QED
    BY <2>3, <2>4, <2>5, <2>6
<1>3. QED
  BY <1>1, <1>2

LEMMA EntryMaps ==
  ASSUME TypeOK, NEW e \in AdminEntries, AdminCreate(e)
  PROVE  \E s \in Ledger!Statuses : Ledger!Enter(e, s)
<1>1. PICK s \in Statuses :
        (s \in Active => ~Conflict(e)) /\ status' = [status EXCEPT ![e] = s]
  BY DEF AdminCreate
<1>2. e \in Ids /\ e \notin WebRequests
  BY ReservationsAssumption DEF Ids
<1>3. s \in Ledger!Active => Ledger!SlotFree(e)
  BY <1>1, <1>2, LedgerSlotFree DEF Ledger!Active, Active
<1>4. UNCHANGED <<form, stored, outbox, offered, adm, about, target, revived>>
      /\ status[e] = "none"
  BY DEF AdminCreate, webVars, admVars
<1>5. UNCHANGED Counted
  BY <1>1, <1>2, <1>4 DEF Counted, TypeOK, Ids
<1>6. UNCHANGED <<Updates({"read"}), Updates({"updated", "enqueued"})>>
  BY <1>4, SameUpdates
<1>7. Ledger!Enter(e, s) /\ s \in Ledger!Statuses
  BY <1>1, <1>3, <1>4, <1>5, <1>6 DEF Ledger!Enter, Ledger!Statuses, Statuses
<1>8. QED
  BY <1>7

LEMMA StatusReadMaps ==
  ASSUME TypeOK, NEW a \in Admins, StatusRead(a)
  PROVE  \E i \in Ledger!Ids, t \in Ledger!Targets : Ledger!Ask(i, t)
<1>1. PICK i \in Ids, t \in UpdateStatusTargets :
        /\ CanTransition(status[i], t)
        /\ about' = [about EXCEPT ![a] = i]
        /\ target' = [target EXCEPT ![a] = t]
  BY DEF StatusRead
<1>2. /\ adm[a] = "idle" /\ adm' = [adm EXCEPT ![a] = "read"]
      /\ UNCHANGED <<form, status, stored, outbox, offered, revived>>
  BY DEF StatusRead, dbVars, webVars
<1>3. /\ adm'[a] = "read" /\ about'[a] = i /\ target'[a] = t
      /\ \A b \in Admins \ {a} :
           adm'[b] = adm[b] /\ about'[b] = about[b] /\ target'[b] = target[b]
  BY <1>1, <1>2 DEF TypeOK
<1>4. Updates({"read"})' = Updates({"read"}) \cup {<<i, t>>}
  BY <1>2, <1>3, UpdatesOf
<1>5. UNCHANGED Updates({"updated", "enqueued"})
  <2> DEFINE S == {"updated", "enqueued"}
  <2>1. adm[a] \notin S /\ adm'[a] \notin S
    BY <1>2, <1>3
  <2> DEFINE others == {<<about[b], target[b]>> :
                          b \in {c \in Admins \ {a} : adm[c] \in S}}
  <2> HIDE DEF S
  <2>2. Updates(S) = others /\ Updates(S)' = others
    BY <1>3, <2>1, UpdatesOf
  <2>3. QED
    BY <2>2 DEF S
<1>6. UNCHANGED Counted
  BY <1>2 DEF Counted
<1>7. Ledger!Ask(i, t)
  BY <1>1, <1>2, <1>4, <1>5, <1>6
  DEF Ledger!Ask, Ledger!Decidable, CanTransition
<1>8. i \in Ledger!Ids /\ t \in Ledger!Targets
  BY DEF Ledger!Ids, Ledger!Targets, Ids, UpdateStatusTargets
<1>9. QED
  BY <1>7, <1>8

\* A session that gives up, or commits: what it was doing is done with, unless
\* another session is doing the same.
LEMMA SessionEnds ==
  ASSUME TypeOK, NEW a \in Admins, StatusEnd(a), adm[a] # "idle"
  PROVE  LET m == <<about[a], target[a]>>
         IN  /\ Updates({"read"})' \in Ledger!Less(Updates({"read"}), m)
             /\ Updates({"updated", "enqueued"})'
                  \in Ledger!Less(Updates({"updated", "enqueued"}), m)
             /\ adm[a] = "read" => UNCHANGED Updates({"updated", "enqueued"})
             /\ adm[a] # "read" => UNCHANGED Updates({"read"})
<1>1. /\ adm'[a] = "idle"
      /\ \A b \in Admins \ {a} :
           adm'[b] = adm[b] /\ about'[b] = about[b] /\ target'[b] = target[b]
  BY DEF StatusEnd, TypeOK
<1>2. adm[a] \in {"read", "updated", "enqueued"}
  BY DEF TypeOK
<1> DEFINE m == <<about[a], target[a]>>
<1>3. ASSUME NEW states, "idle" \notin states
      PROVE  /\ Updates(states)' \in Ledger!Less(Updates(states), m)
             /\ adm[a] \notin states => UNCHANGED Updates(states)
  <2> DEFINE others == {<<about[b], target[b]>> :
                          b \in {c \in Admins \ {a} : adm[c] \in states}}
  <2>1. /\ Updates(states) = others \cup (IF adm[a] \in states THEN {m} ELSE {})
        /\ Updates(states)' = others \cup
             (IF adm'[a] \in states THEN {<<about'[a], target'[a]>>} ELSE {})
    BY <1>1, UpdatesOf
  <2>2. Updates(states)' = others
    BY <1>1, <1>3, <2>1
  <2>3. QED
    <3> HIDE DEF others, m
    <3> QED
      BY <2>1, <2>2 DEF Ledger!Less
<1>4. QED
  BY <1>2, <1>3

\* The UPDATE is the decision, whatever the status has become since it was read.
LEMMA StatusUpdateMaps ==
  ASSUME TypeOK, RevivedRows, ReservationAnnounced, NEW a \in Admins, StatusUpdate(a)
  PROVE  \/ Ledger!Decide(about[a], target[a])
         \/ Ledger!GiveUp(<<about[a], target[a]>>)
<1> DEFINE i == about[a]
           t == target[a]
           asked == Updates({"read"})
           owed == Updates({"updated", "enqueued"})
<1>1. /\ i \in Ids /\ t \in UpdateStatusTargets /\ adm[a] = "read"
      /\ status[i] # "none"
      /\ UNCHANGED <<form, stored, outbox, offered>>
  BY DEF StatusUpdate, TypeOK, ReservationAnnounced, webVars
<1>2. CASE UNCHANGED <<status, revived>> /\ StatusEnd(a)
  <2>1. /\ asked' \in Ledger!Less(asked, <<i, t>>)
        /\ owed' \in Ledger!Less(owed, <<i, t>>)
    BY <1>1, <1>2, SessionEnds
  <2>2. UNCHANGED Counted
    BY <1>2 DEF Counted
  <2>3. QED
    BY <1>1, <1>2, <2>1, <2>2 DEF Ledger!GiveUp
<1>3. CASE /\ ~(t \in Active /\ Conflict(i))
           /\ status' = [status EXCEPT ![i] = t]
           /\ revived' = IF t \in Active /\ status[i] \notin Active
                         THEN revived \cup {i} ELSE revived
           /\ IF Mailed(t)
              THEN /\ adm' = [adm EXCEPT ![a] = "updated"]
                   /\ UNCHANGED <<about, target>>
              ELSE StatusEnd(a)
  <2>1. t \in Ledger!Active => Ledger!SlotFree(i)
    BY <1>1, <1>3, LedgerSlotFree DEF Ledger!Active, Active
  <2>2. Counted' = IF t \in Active THEN Counted ELSE Counted \ {i}
    BY <1>1, <1>3 DEF Counted, TypeOK, Ids
  <2>3. <<i, t>> \in asked
    BY <1>1 DEF Updates
  <2>4. /\ asked' \in Ledger!Less(asked, <<i, t>>)
        /\ owed' = IF t \in {"approved", "rejected"} THEN owed \cup {<<i, t>>} ELSE owed
    <3>1. CASE ~Mailed(t)
      BY <1>1, <1>3, <3>1, SessionEnds DEF Mailed
    <3>2. CASE Mailed(t)
      <4>1. /\ adm'[a] = "updated" /\ about'[a] = i /\ target'[a] = t
            /\ \A b \in Admins \ {a} :
                 adm'[b] = adm[b] /\ about'[b] = about[b] /\ target'[b] = target[b]
        BY <1>1, <1>3, <3>2 DEF TypeOK
      <4> DEFINE others(S) == {<<about[b], target[b]>> :
                                 b \in {c \in Admins \ {a} : adm[c] \in S}}
      <4>2. /\ asked = others({"read"}) \cup {<<i, t>>}
            /\ asked' = others({"read"})
        BY <1>1, <4>1, UpdatesOf
      <4>3. /\ owed = others({"updated", "enqueued"})
            /\ owed' = others({"updated", "enqueued"}) \cup {<<i, t>>}
        <5> DEFINE S == {"updated", "enqueued"}
        <5>1. adm[a] \notin S /\ adm'[a] \in S
          BY <1>1, <4>1
        <5> HIDE DEF S
        <5>2. /\ Updates(S) = others(S)
              /\ Updates(S)' = others(S) \cup {<<i, t>>}
          BY <4>1, <5>1, UpdatesOf
        <5>3. QED
          BY <5>2 DEF S
      <4>4. asked' \in Ledger!Less(asked, <<i, t>>)
        <5> HIDE DEF asked, others, i, t
        <5> QED
          BY <4>2 DEF Ledger!Less
      <4>5. QED
        BY <3>2, <4>3, <4>4 DEF Mailed
    <3>3. QED
      BY <3>1, <3>2
  <2>5. QED
    BY <1>1, <1>3, <2>1, <2>2, <2>3, <2>4 DEF Ledger!Decide, Ledger!Active, Active
<1>4. QED
  BY <1>2, <1>3 DEF StatusUpdate

LEMMA StatusCommitMaps ==
  ASSUME TypeOK, NEW a \in Admins, StatusCommit(a)
  PROVE  Ledger!Announce(<<about[a], target[a]>>)
<1> DEFINE m == <<about[a], target[a]>>
<1>1. /\ adm[a] = "enqueued" /\ StatusEnd(a)
      /\ outbox' = outbox \cup {m}
      /\ UNCHANGED <<form, status, stored, offered, revived>>
  BY DEF StatusCommit, webVars
<1>2. /\ Updates({"updated", "enqueued"})'
           \in Ledger!Less(Updates({"updated", "enqueued"}), m)
      /\ UNCHANGED Updates({"read"})
  BY <1>1, SessionEnds
<1>3. m \in Updates({"updated", "enqueued"})
  BY <1>1 DEF Updates
<1>4. UNCHANGED Counted
  BY <1>1 DEF Counted
<1>5. QED
  BY <1>1, <1>2, <1>3, <1>4 DEF Ledger!Announce

LEMMA StatusStepMaps ==
  ASSUME TypeOK, RevivedRows, ReservationAnnounced, NEW a \in Admins, StatusStep(a)
  PROVE  \/ \E i \in Ledger!Ids, t \in Ledger!Targets :
              \/ Ledger!Ask(i, t) \/ Ledger!Decide(i, t)
              \/ Ledger!Announce(<<i, t>>) \/ Ledger!GiveUp(<<i, t>>)
         \/ UNCHANGED Ledger!vars
<1>1. ASSUME adm[a] # "idle"
      PROVE  about[a] \in Ledger!Ids /\ target[a] \in Ledger!Targets
  BY <1>1 DEF TypeOK, Ledger!Ids, Ledger!Targets, Ids, UpdateStatusTargets
<1>2. CASE StatusRead(a)
  BY <1>2, StatusReadMaps
<1>3. CASE StatusUpdate(a)
  <2>1. adm[a] # "idle"
    BY <1>3 DEF StatusUpdate
  <2>2. QED
    BY <1>1, <1>3, <2>1, StatusUpdateMaps
<1>4. CASE StatusEnqueue(a)
  <2>1. /\ adm[a] = "updated" /\ adm' = [adm EXCEPT ![a] = "enqueued"]
        /\ UNCHANGED <<form, status, stored, outbox, offered, about, target, revived>>
    BY <1>4 DEF StatusEnqueue, dbVars, webVars
  <2>2. \A b \in Admins :
          /\ adm'[b] = "read" <=> adm[b] = "read"
          /\ adm'[b] \in {"updated", "enqueued"} <=> adm[b] \in {"updated", "enqueued"}
    BY <2>1 DEF TypeOK
  <2>3. UNCHANGED <<Counted, Updates({"read"}), Updates({"updated", "enqueued"})>>
    BY <2>1, <2>2 DEF Counted, Updates
  <2>4. QED
    BY <2>1, <2>3 DEF Ledger!vars
<1>5. CASE StatusCommit(a)
  <2>1. adm[a] # "idle"
    BY <1>5 DEF StatusCommit
  <2>2. QED
    BY <1>1, <1>5, <2>1, StatusCommitMaps
<1>6. CASE StatusFail(a)
  <2>1. /\ adm[a] # "idle" /\ StatusEnd(a)
        /\ UNCHANGED <<form, status, stored, outbox, offered, revived>>
    BY <1>6 DEF StatusFail, dbVars, webVars
  <2>2. UNCHANGED Counted
    BY <2>1 DEF Counted
  <2>3. Ledger!GiveUp(<<about[a], target[a]>>)
    BY <2>1, <2>2, SessionEnds DEF Ledger!GiveUp
  <2>4. QED
    BY <1>1, <2>1, <2>3
<1>7. QED
  BY <1>2, <1>3, <1>4, <1>5, <1>6 DEF StatusStep, StatusProgress

\* The requests that hold the lock of a date are those the ledger considers.
LEMMA EditMaps ==
  ASSUME TypeOK, LockInv, Budget, SlotHeld, NEW d \in Dates,
         NEW row \in Schedules \cup {NoSchedule}, StoreSchedule(d, row)
  PROVE  Ledger!Edit(d, row)
<1>1. \A r \in WebRequests : lock[d] = r <=> form[r].date = d /\ offered[r] # {}
  <2> SUFFICES ASSUME NEW r \in WebRequests
               PROVE  lock[d] = r <=> form[r].date = d /\ offered[r] # {}
    OBVIOUS
  <2>1. ASSUME lock[d] = r
        PROVE  form[r].date = d /\ offered[r] # {}
    BY <2>1 DEF LockInv, Budget
  <2>2. ASSUME form[r].date = d, offered[r] # {}
        PROVE  lock[d] = r
    BY <2>2 DEF LockInv, SlotHeld
  <2>3. QED
    BY <2>1, <2>2
<1>2. /\ stored' = [stored EXCEPT ![d] = row]
      /\ UNCHANGED <<form, status, outbox, adm, about, target, revived>>
  BY DEF StoreSchedule, admVars
<1>3. offered' = [r \in WebRequests |->
        IF form[r].date = d /\ offered[r] # {}
        THEN offered[r] \cup {IF row = NoSchedule THEN DefaultSchedule[d] ELSE row}
        ELSE offered[r]]
  BY <1>1 DEF StoreSchedule
<1>4. UNCHANGED <<Counted, Updates({"read"}), Updates({"updated", "enqueued"})>>
  BY <1>2, SameUpdates DEF Counted
<1>5. QED
  BY <1>2, <1>3, <1>4 DEF Ledger!Edit

-----------------------------------------------------------------------------
\* The handlers implement the ledger: to customers and owner, a booking, its
\* guests, its slot and its mail are one entry, however requests, decisions and
\* edits interleave and wherever they fail.
THEOREM Implements == Spec => Booked
<1>1. Init => Ledger!Init
  <2> SUFFICES ASSUME Init
               PROVE  Ledger!Init
    OBVIOUS
  <2>1. Counted = {}
    BY DEF Init, Counted, Ids, Active
  <2>2. Updates({"read"}) = {} /\ Updates({"updated", "enqueued"}) = {}
    BY DEF Init, Updates
  <2>3. QED
    BY <2>1, <2>2 DEF Init, Ledger!Init, Ledger!Ids, Ids
<1>2. TypeOK /\ CapacityInv /\ ReservationAnnounced /\ SlotHeld /\ RevivedRows
        /\ [Next]_vars => [Ledger!Next]_(Ledger!vars)
  <2> SUFFICES ASSUME TypeOK, LockInv, Budget, ReservationAnnounced, SlotHeld,
                      RevivedRows, [Next]_vars
               PROVE  [Ledger!Next]_(Ledger!vars)
    BY DEF CapacityInv
  <2>1. ASSUME NEW r \in WebRequests, WebStep(r)
        PROVE  [Ledger!Next]_(Ledger!vars)
    BY <2>1, WebStepMaps DEF Ledger!Next
  <2>2. ASSUME NEW e \in AdminEntries, AdminCreate(e)
        PROVE  Ledger!Next
    BY <2>2, EntryMaps DEF Ledger!Next
  <2>3. ASSUME NEW a \in Admins, StatusStep(a)
        PROVE  [Ledger!Next]_(Ledger!vars)
    BY <2>3, StatusStepMaps DEF Ledger!Next
  <2>4. ASSUME NEW d \in EditedDates, ScheduleStep(d)
        PROVE  Ledger!Next
    <3>1. PICK row \in Schedules \cup {NoSchedule} : StoreSchedule(d, row)
      BY <2>4 DEF ScheduleStep, SetSchedule, DeleteSchedule
    <3>2. d \in Dates
      BY ReservationsAssumption
    <3>3. QED
      BY <3>1, <3>2, EditMaps DEF Ledger!Next
  <2>5. CASE UNCHANGED vars
    <3>1. UNCHANGED <<form, status, stored, outbox, offered, revived, adm, about, target>>
      BY <2>5 DEF vars, dbVars, webVars, admVars
    <3>2. UNCHANGED <<Counted, Updates({"read"}), Updates({"updated", "enqueued"})>>
      BY <3>1, SameUpdates DEF Counted
    <3>3. QED
      BY <3>1, <3>2 DEF Ledger!vars
  <2>6. QED
    BY <2>1, <2>2, <2>3, <2>4, <2>5 DEF Next, WebStep, StatusStep, ScheduleStep
<1>3. QED
  BY <1>1, <1>2, TypeCorrect, Capacity, Announced, Held, Revived, PTL
  DEF Spec, Booked, Ledger!Spec

\* No two active reservations share date, time and phone: it holds of the
\* ledger, hence of the handlers.
THEOREM NoDoubleBookings == Spec => []NoDoubleBooking
<1>1. Spec => []Ledger!OnePerSlot
  BY Implements, Ledger!SlotsDistinct DEF Booked
<1>2. Ledger!OnePerSlot <=> NoDoubleBooking
  BY DEF Ledger!OnePerSlot, NoDoubleBooking, Ledger!SameSlot, SameSlot,
         Ledger!Ids, Ids, Ledger!Active, Active
<1>3. QED
  BY <1>1, <1>2, PTL

\* No holder of a visit-date lock waits for another transaction's key: the row
\* of that key would have the same date, and its transaction the same lock.
THEOREM NoWaitUnderLock == Spec => []HolderNeverWaits
<1>1. TypeOK /\ LockInv => HolderNeverWaits
  <2> SUFFICES ASSUME TypeOK, LockInv, NEW r \in WebRequests, pc[r] = "admitted",
                      NEW q \in WebRequests \ {r}, SameSlot(r, q),
                      pc[q] \in {"inserted", "enqueued"}
               PROVE  FALSE
    BY DEF HolderNeverWaits, NoPendingInsert
  <2>1. lock[form[r].date] = r /\ lock[form[q].date] = q
    BY DEF LockInv, InTransaction
  <2>2. form[r].date = form[q].date
    BY DEF SameSlot
  <2>3. QED
    BY <2>1, <2>2
<1>2. QED
  BY <1>1, TypeCorrect, Capacity, PTL DEF CapacityInv
=============================================================================
