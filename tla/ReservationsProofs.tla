------------------------- MODULE ReservationsProofs -------------------------
(***************************************************************************)
(* Theorems about Reservations, for any number of customers, owner         *)
(* sessions, dates and schedules.                                          *)
(***************************************************************************)
EXTENDS Reservations, FiniteSetTheorems, TLAPS

(***************************************************************************)
(* The shape of a step: which handler took it.                             *)
(***************************************************************************)
WebStep(r) == WebProgress(r) \/ WebLock(r) \/ WebFail(r)
StatusStep(a) == StatusRead(a) \/ StatusProgress(a) \/ StatusFail(a)
ScheduleStep(d) == SetSchedule(d) \/ DeleteSchedule(d)

\* The schedule in force on a date is always one of Schedules.
LEMMA EffectiveType ==
  ASSUME TypeOK, NEW d \in Dates
  PROVE  Effective(d) \in Schedules
BY ReservationsAssumption DEF TypeOK, Effective

\* Every variable keeps its type: in particular email_outbox never holds a
\* mail type its CHECK constraint would refuse.
THEOREM TypeCorrect == Spec => []TypeOK
<1>1. Init => TypeOK
  BY ReservationsAssumption
  DEF Init, TypeOK, WebStates, Statuses, UpdateStatusTargets, MailTypes
<1>2. TypeOK /\ [Next]_vars => TypeOK'
  <2> SUFFICES ASSUME TypeOK, [Next]_vars
               PROVE  TypeOK'
    OBVIOUS
  <2>1. ASSUME NEW r \in WebRequests, WebProgress(r) \/ WebLock(r) \/ WebFail(r)
        PROVE  TypeOK'
    <3> r \in Ids
      BY DEF Ids
    <3>0. form[r].date \in Dates
      BY DEF TypeOK, Forms
    <3>a. Effective(form[r].date) \in Schedules
      BY <3>0, EffectiveType
    <3>b. ASSUME NEW s, WebEnd(r, s), s \in WebStates
          PROVE  /\ lock' \in [Dates -> WebRequests \cup {Nobody}]
                 /\ pc' \in [WebRequests -> WebStates]
                 /\ seen' \in [WebRequests -> Schedules \cup {NoSchedule}]
                 /\ offered' \in [WebRequests -> SUBSET Schedules]
      BY <3>b DEF WebEnd, WebGoto, TypeOK
    <3>1. CASE WebResolve(r)
      BY <3>1, <3>b DEF WebResolve, TypeOK, WebGoto, WebStates, dbVars, admVars
    <3>2. CASE WebReadSchedule(r)
      BY <3>2, <3>a DEF WebReadSchedule, TypeOK, WebGoto, WebStates, dbVars, admVars
    <3>3. CASE WebCheck(r)
      BY <3>3, <3>b DEF WebCheck, TypeOK, WebGoto, WebStates, dbVars, admVars
    <3>4. CASE WebLock(r)
      BY <3>4, <3>0, <3>a DEF WebLock, TypeOK, WebGoto, WebStates, dbVars, admVars
    <3>5. CASE WebReread(r)
      BY <3>5, <3>a DEF WebReread, TypeOK, WebGoto, WebStates, dbVars, admVars
    <3>6. CASE WebRecheck(r)
      BY <3>6, <3>b DEF WebRecheck, TypeOK, WebGoto, WebStates, dbVars, admVars
    <3>7. CASE WebInsert(r)
      BY <3>7, <3>b DEF WebInsert, TypeOK, WebGoto, WebStates, dbVars, admVars
    <3>8. CASE WebEnqueue(r)
      BY <3>8 DEF WebEnqueue, TypeOK, WebGoto, WebStates, dbVars, admVars
    <3>9. CASE WebCommit(r)
      BY <3>9, <3>b DEF WebCommit, TypeOK, WebStates, Statuses, MailTypes, admVars
    <3>10. CASE WebFail(r)
      BY <3>10, <3>b DEF WebFail, TypeOK, WebStates, dbVars, admVars
    <3>11. QED
      BY <2>1, <3>1, <3>2, <3>3, <3>4, <3>5, <3>6, <3>7, <3>8, <3>9, <3>10
      DEF WebProgress
  <2>2. ASSUME NEW e \in AdminEntries, AdminCreate(e)
        PROVE  TypeOK'
    BY <2>2 DEF AdminCreate, TypeOK, Ids, webVars, admVars
  <2>3. ASSUME NEW a \in Admins, StatusStep(a)
        PROVE  TypeOK'
    <3>1. CASE StatusRead(a)
      BY <3>1 DEF StatusRead, TypeOK, dbVars, webVars
    <3>2. CASE StatusUpdate(a)
      <4> about[a] \in Ids /\ target[a] \in UpdateStatusTargets
        BY <3>2 DEF StatusUpdate, TypeOK
      <4>1. CASE StatusEnd(a)
        BY <3>2, <4>1
        DEF StatusUpdate, StatusEnd, TypeOK, webVars, Statuses, UpdateStatusTargets
      <4>2. CASE target[a] \in {"approved", "rejected"}
                   /\ adm' = [adm EXCEPT ![a] = "updated"]
                   /\ UNCHANGED <<about, target>>
        BY <3>2, <4>2
        DEF StatusUpdate, TypeOK, webVars, Statuses, UpdateStatusTargets
      <4>3. StatusEnd(a) \/ (/\ Mailed(target[a])
                             /\ adm' = [adm EXCEPT ![a] = "updated"]
                             /\ UNCHANGED <<about, target>>)
        <5> HIDE DEF StatusEnd
        <5> QED
          BY ONLY <3>2, SMTT(30) DEF StatusUpdate
      <4>4. QED
        BY <4>1, <4>2, <4>3 DEF Mailed
    <3>3. CASE StatusEnqueue(a)
      BY <3>3 DEF StatusEnqueue, TypeOK, dbVars, webVars
    <3>4. CASE StatusCommit(a)
      BY <3>4 DEF StatusCommit, StatusEnd, TypeOK, webVars, MailTypes
    <3>5. CASE StatusFail(a)
      BY <3>5 DEF StatusFail, StatusEnd, TypeOK, dbVars, webVars
    <3>6. QED
      BY <2>3, <3>1, <3>2, <3>3, <3>4, <3>5 DEF StatusStep, StatusProgress
  <2>4. ASSUME NEW d \in Dates, ScheduleStep(d)
        PROVE  TypeOK'
    <3>1. ASSUME NEW row \in Schedules \cup {NoSchedule}, StoreSchedule(d, row)
          PROVE  TypeOK'
      <4>1. (IF row = NoSchedule THEN DefaultSchedule[d] ELSE row) \in Schedules
        BY ReservationsAssumption
      <4>2. offered' \in [WebRequests -> SUBSET Schedules]
        <5>1. ASSUME NEW r \in WebRequests
              PROVE  (IF lock[d] = r
                      THEN offered[r]
                           \cup {IF row = NoSchedule THEN DefaultSchedule[d] ELSE row}
                      ELSE offered[r]) \in SUBSET Schedules
          BY <4>1 DEF TypeOK
        <5>2. QED
          BY <3>1, <5>1 DEF StoreSchedule
      <4>3. stored' \in [Dates -> Schedules \cup {NoSchedule}]
        BY <3>1 DEF StoreSchedule, TypeOK
      <4>4. QED
        BY <3>1, <4>2, <4>3 DEF StoreSchedule, TypeOK, admVars
    <3>2. QED
      BY <2>4, <3>1 DEF ScheduleStep, SetSchedule, DeleteSchedule
  <2>5. CASE UNCHANGED vars
    BY <2>5 DEF TypeOK, vars, dbVars, webVars, admVars
  <2>6. QED
    BY <2>1, <2>2, <2>3, <2>4, <2>5, ReservationsAssumption
    DEF Next, StatusStep, ScheduleStep
<1>3. QED
  BY <1>1, <1>2, PTL DEF Spec

-----------------------------------------------------------------------------
(***************************************************************************)
(* SUM(people) as a cardinality: Guests(S) holds one pair per guest of the *)
(* rows of S.                                                              *)
(***************************************************************************)
LEMMA GuestsFinite ==
  ASSUME TypeOK, NEW S \in SUBSET Ids
  PROVE  IsFiniteSet(Guests(S)) /\ Cardinality(Guests(S)) \in Nat
<1>1. IsFiniteSet(Ids)
  BY ReservationsAssumption, FS_Union DEF Ids
<1>2. IsFiniteSet(S)
  BY <1>1, FS_Subset
<1>3. IsFiniteSet(1 .. MaxPeople)
  BY ReservationsAssumption, FS_Interval
<1>4. IsFiniteSet(S \X (1 .. MaxPeople))
  BY <1>2, <1>3, FS_Product
<1>5. IsFiniteSet(Guests(S))
  BY <1>4, FS_Subset DEF Guests
<1>6. QED
  BY <1>5, FS_CardinalityType

\* More rows, at least as many guests.
LEMMA GuestsMonotone ==
  ASSUME TypeOK, NEW T \in SUBSET Ids, NEW S \in SUBSET T
  PROVE  Cardinality(Guests(S)) <= Cardinality(Guests(T))
<1>1. IsFiniteSet(Guests(T))
  BY GuestsFinite
<1>2. Guests(S) \subseteq Guests(T)
  BY DEF Guests
<1>3. QED
  BY <1>1, <1>2, FS_Subset

\* One row has as many guests as its request says.
LEMMA GuestsOfOne ==
  ASSUME TypeOK, NEW i \in Ids
  PROVE  Cardinality(Guests({i})) = form[i].people
<1> DEFINE n == form[i].people
           f == [k \in 1 .. n |-> <<i, k>>]
<1>1. n \in 1 .. MaxPeople
  BY DEF TypeOK, Forms
<1>2. n \in Nat /\ n >= 1
  BY <1>1, ReservationsAssumption
<1>3. IsFiniteSet(1 .. n) /\ Cardinality(1 .. n) = n
  <2>1. IsFiniteSet(1 .. n) /\ Cardinality(1 .. n) = IF 1 > n THEN 0 ELSE n - 1 + 1
    <3> HIDE DEF n
    <3> QED
      BY <1>2, FS_Interval
  <2>2. QED
    <3> HIDE DEF n
    <3> QED
      BY <1>2, <2>1
<1>4. f \in Bijection(1 .. n, Guests({i}))
  <2>1. ASSUME NEW k \in 1 .. n
        PROVE  f[k] \in Guests({i})
    <3>1. k \in 1 .. MaxPeople /\ k <= n
      BY <1>1, <1>2, ReservationsAssumption
    <3>2. <<i, k>> \in {i} \X (1 .. MaxPeople)
      BY <3>1
    <3>3. QED
      BY <3>1, <3>2 DEF Guests
  <2>2. f \in [1 .. n -> Guests({i})]
    BY <2>1
  <2>3. \A a, b \in 1 .. n : f[a] = f[b] => a = b
    OBVIOUS
  <2>4. ASSUME NEW g \in Guests({i})
        PROVE  \E k \in 1 .. n : f[k] = g
    <3>1. g \in {i} \X (1 .. MaxPeople) /\ g[2] <= form[g[1]].people
      BY DEF Guests
    <3>2. g = <<i, g[2]>> /\ g[2] \in 1 .. MaxPeople /\ g[1] = i
      BY <3>1
    <3>3. g[2] \in 1 .. n
      BY <3>1, <3>2, <1>2, ReservationsAssumption
    <3>4. f[g[2]] = g
      BY <3>2, <3>3
    <3>5. QED
      BY <3>3, <3>4
  <2>5. QED
    BY <2>2, <2>3, <2>4 DEF Bijection, Injection, Surjection, IsInjective
<1>5. Cardinality(Guests({i})) = Cardinality(1 .. n)
  BY <1>3, <1>4, FS_Bijection DEF ExistsBijection
<1>6. QED
  BY <1>3, <1>5

\* A new row adds its own guests.
LEMMA GuestsAdd ==
  ASSUME TypeOK, NEW S \in SUBSET Ids, NEW i \in Ids \ S
  PROVE  Cardinality(Guests(S \cup {i})) = Cardinality(Guests(S)) + form[i].people
<1>0. S \in SUBSET Ids /\ {i} \in SUBSET Ids
  OBVIOUS
<1>1. Guests(S \cup {i}) = Guests(S) \cup Guests({i})
  BY DEF Guests
<1>2. Guests(S) \cap Guests({i}) = {}
  BY DEF Guests
<1>3. IsFiniteSet(Guests(S)) /\ IsFiniteSet(Guests({i}))
  BY <1>0, GuestsFinite
<1>4. Cardinality(Guests(S)) \in Nat /\ Cardinality(Guests({i})) \in Nat
  BY <1>0, GuestsFinite
<1>5. Cardinality(Guests(S \cup {i}))
        = Cardinality(Guests(S)) + Cardinality(Guests({i}))
  <2>1. Cardinality(Guests(S) \cup Guests({i}))
          = Cardinality(Guests(S)) + Cardinality(Guests({i}))
            - Cardinality(Guests(S) \cap Guests({i}))
    BY <1>3, FS_Union
  <2>2. Cardinality(Guests(S) \cap Guests({i})) = 0
    BY <1>2, FS_EmptySet
  <2>3. Cardinality(Guests(S \cup {i})) = Cardinality(Guests(S) \cup Guests({i}))
    BY <1>1
  <2>4. \A m, n \in Nat : m + n - 0 = m + n
    OBVIOUS
  <2>5. QED
    BY <1>4, <2>1, <2>2, <2>3, <2>4, Zenon
<1>6. QED
  BY <1>5, GuestsOfOne

-----------------------------------------------------------------------------
(***************************************************************************)
(* The visit-date lock.                                                    *)
(***************************************************************************)
\* Requests that stay on their side of BEGIN/COMMIT leave the locks alone.
LEMMA SameLock ==
  ASSUME LockInv, NEW r \in WebRequests, NEW state,
         pc \in [WebRequests -> WebStates], form' = form, lock' = lock,
         WebGoto(r, state),
         pc[r] \in InTransaction <=> state \in InTransaction
  PROVE  LockInv'
BY DEF LockInv, WebGoto

\* COMMIT and ROLLBACK give the lock back.
LEMMA Unlock ==
  ASSUME LockInv, TypeOK, NEW r \in WebRequests, NEW state, form' = form,
         WebEnd(r, state), state \in Ended
  PROVE  LockInv'
<1>1. state \notin InTransaction
  BY DEF Ended, InTransaction
<1>2. Nobody \notin WebRequests
  BY ReservationsAssumption DEF Ids
<1>3. \A q \in WebRequests : form[q].date \in Dates
  BY DEF TypeOK, Forms, Ids
<1>4. /\ pc' = [pc EXCEPT ![r] = state]
      /\ lock' = [d \in Dates |-> IF lock[d] = r THEN Nobody ELSE lock[d]]
  BY DEF WebEnd, WebGoto
<1>5. pc \in [WebRequests -> WebStates]
  BY DEF TypeOK
<1>6. QED
  BY <1>1, <1>2, <1>3, <1>4, <1>5 DEF LockInv

LEMMA LockStep == LockInv /\ TypeOK /\ [Next]_vars => LockInv'
<1> SUFFICES ASSUME LockInv, TypeOK, [Next]_vars
             PROVE  LockInv'
  OBVIOUS
<1>0. pc \in [WebRequests -> WebStates]
  BY DEF TypeOK
<1>1. ASSUME NEW r \in WebRequests, WebStep(r)
      PROVE  LockInv'
  <2>0. form' = form
    BY <1>1
    DEF WebStep, WebProgress, WebResolve, WebReadSchedule, WebCheck, WebLock,
        WebReread, WebRecheck, WebInsert, WebEnqueue, WebCommit, WebFail
  <2>1. CASE \E state \in Ended : WebEnd(r, state)
    BY <2>0, <2>1, Unlock
  <2>2. CASE WebLock(r)
    <3>1. form[r].date \in Dates /\ lock[form[r].date] = Nobody
      BY <2>2 DEF WebLock, LockFree, TypeOK, Forms, Ids
    <3>2. Nobody \notin WebRequests
      BY ReservationsAssumption DEF Ids
    <3>3. lock' = [lock EXCEPT ![form[r].date] = r] /\ pc' = [pc EXCEPT ![r] = "locked"]
      BY ONLY <2>2, SMTT(30) DEF WebLock, WebGoto
    <3>4. pc[r] \notin InTransaction
      BY <2>2 DEF WebLock, InTransaction
    <3>5. "locked" \in InTransaction
      BY DEF InTransaction
    <3>6. \A q \in WebRequests : form[q].date \in Dates
      BY DEF TypeOK, Forms, Ids
    <3>7. QED
      BY <2>0, <3>1, <3>2, <3>3, <3>4, <3>5, <3>6 DEF LockInv, TypeOK
  <2>3. CASE /\ lock' = lock
             /\ \E state \in WebStates :
                  /\ WebGoto(r, state)
                  /\ pc[r] \in InTransaction <=> state \in InTransaction
    BY <1>0, <2>0, <2>3, SameLock
  <2>4. QED
    BY <1>1, <2>1, <2>2, <2>3
    DEF WebStep, WebProgress, WebResolve, WebReadSchedule, WebCheck, WebReread,
        WebRecheck, WebInsert, WebEnqueue, WebCommit, WebFail, WebGoto,
        Ended, InTransaction, WebStates
<1>2. ASSUME UNCHANGED <<form, lock, pc>>
      PROVE  LockInv'
  BY <1>2 DEF LockInv
<1>3. ASSUME NEW e \in AdminEntries, AdminCreate(e)
      PROVE  LockInv'
  BY <1>2, <1>3 DEF AdminCreate, webVars
<1>4. ASSUME NEW a \in Admins, StatusStep(a)
      PROVE  LockInv'
  BY <1>2, <1>4
  DEF StatusStep, StatusProgress, StatusRead, StatusUpdate, StatusEnqueue,
      StatusCommit, StatusFail, webVars
<1>5. ASSUME NEW d \in Dates, ScheduleStep(d)
      PROVE  LockInv'
  BY <1>2, <1>5 DEF ScheduleStep, SetSchedule, DeleteSchedule, StoreSchedule
<1>6. CASE UNCHANGED vars
  BY <1>2, <1>6 DEF vars, webVars
<1>7. QED
  BY <1>1, <1>3, <1>4, <1>5, <1>6, ReservationsAssumption
  DEF Next, WebStep, StatusStep, ScheduleStep

-----------------------------------------------------------------------------
(***************************************************************************)
(* The reservations admitted under the lock: only the COMMIT of a web      *)
(* request adds one, its own.                                              *)
(***************************************************************************)
LEMMA LockedRowsStep ==
  ASSUME TypeOK, [Next]_vars
  PROVE  /\ form' = form
         /\ \/ \A d \in Dates : LockedRows(d)' \subseteq LockedRows(d)
            \/ \E r \in WebRequests :
                 /\ WebCommit(r)
                 /\ \A d \in Dates :
                      LockedRows(d)' \subseteq
                        LockedRows(d) \cup (IF d = form[r].date THEN {r} ELSE {})
<1>1. ASSUME UNCHANGED <<form, status, revived>>
      PROVE  form' = form /\ \A d \in Dates : LockedRows(d)' \subseteq LockedRows(d)
  BY <1>1 DEF LockedRows
<1>2. ASSUME NEW r \in WebRequests, WebStep(r), ~WebCommit(r)
      PROVE  UNCHANGED <<form, status, revived>>
  BY <1>2
  DEF WebStep, WebProgress, WebResolve, WebReadSchedule, WebCheck, WebLock,
      WebReread, WebRecheck, WebInsert, WebEnqueue, WebFail, dbVars, admVars
<1>3. ASSUME NEW r \in WebRequests, WebCommit(r)
      PROVE  /\ form' = form
             /\ \A d \in Dates :
                  LockedRows(d)' \subseteq
                    LockedRows(d) \cup (IF d = form[r].date THEN {r} ELSE {})
  BY <1>3 DEF WebCommit, LockedRows, admVars, TypeOK, Ids
<1>4. ASSUME NEW e \in AdminEntries, AdminCreate(e)
      PROVE  form' = form /\ \A d \in Dates : LockedRows(d)' \subseteq LockedRows(d)
  <2>1. e \notin WebRequests
    BY ReservationsAssumption
  <2>2. QED
    BY <1>4, <2>1 DEF AdminCreate, LockedRows, admVars, TypeOK, Ids
<1>5. ASSUME NEW a \in Admins, StatusStep(a)
      PROVE  form' = form /\ \A d \in Dates : LockedRows(d)' \subseteq LockedRows(d)
  <2>1. CASE StatusUpdate(a)
    BY <2>1 DEF StatusUpdate, LockedRows, TypeOK, Ids
  <2>2. CASE ~StatusUpdate(a)
    BY <1>1, <1>5, <2>2
    DEF StatusStep, StatusProgress, StatusRead, StatusEnqueue, StatusCommit,
        StatusFail, dbVars
  <2>3. QED
    BY <2>1, <2>2
<1>6. ASSUME NEW d \in Dates, ScheduleStep(d)
      PROVE  UNCHANGED <<form, status, revived>>
  BY <1>6 DEF ScheduleStep, SetSchedule, DeleteSchedule, StoreSchedule, admVars
<1>7. CASE UNCHANGED vars
  BY <1>1, <1>7 DEF vars, dbVars, admVars
<1>8. QED
  BY <1>1, <1>2, <1>3, <1>4, <1>5, <1>6, <1>7, ReservationsAssumption
  DEF Next, WebStep, StatusStep, ScheduleStep

\* A step's new guests, counted over a superset of the new rows.
LEMMA LockedGuestsStep ==
  ASSUME TypeOK, form' = form, NEW d \in Dates, NEW S \in SUBSET Ids,
         LockedRows(d)' \subseteq S
  PROVE  Cardinality(Guests(LockedRows(d)))' <= Cardinality(Guests(S))
<1>1. Guests(LockedRows(d))' = Guests(LockedRows(d)')
  BY DEF Guests
<1>2. QED
  BY <1>1, GuestsMonotone

\* The capacity checked under the lock, at the COMMIT that uses it.
LEMMA CommitFits ==
  ASSUME TypeOK, CapacityInv, NEW r \in WebRequests, WebCommit(r),
         [Next]_vars
  PROVE  /\ seen[r] \in offered[r]
         /\ ~IsHoliday(seen[r])
         /\ Cardinality(Guests(LockedRows(form[r].date)))' <= seen[r].capacity
<1> DEFINE d == form[r].date
<1>1. d \in Dates /\ r \in Ids /\ form[r].people \in Nat
  BY ReservationsAssumption DEF TypeOK, Forms, Ids
<1>2. /\ seen[r] \in offered[r]
      /\ ~IsHoliday(seen[r])
      /\ Cardinality(Guests(LockedRows(d))) + form[r].people <= seen[r].capacity
  BY DEF CapacityInv, Budget, WebCommit, InTransaction
<1>3. seen[r] \in Schedules /\ seen[r].capacity \in Nat
  BY <1>2, ReservationsAssumption DEF TypeOK
<1>4. LockedRows(d) \in SUBSET Ids
  BY DEF LockedRows, Ids
<1>5. Cardinality(Guests(LockedRows(d) \cup {r}))
        <= Cardinality(Guests(LockedRows(d))) + form[r].people
  <2>1. CASE r \in LockedRows(d)
    <3>0. LockedRows(d) \cup {r} = LockedRows(d)
      BY <2>1
    <3>1. Cardinality(Guests(LockedRows(d) \cup {r})) = Cardinality(Guests(LockedRows(d)))
      BY <3>0, Zenon
    <3>2. Cardinality(Guests(LockedRows(d))) \in Nat
      BY <1>4, GuestsFinite
    <3>3. QED
      BY <1>1, <3>1, <3>2
  <2>2. CASE r \notin LockedRows(d)
    <3>1. Cardinality(Guests(LockedRows(d) \cup {r}))
            = Cardinality(Guests(LockedRows(d))) + form[r].people
      BY <1>1, <1>4, <2>2, GuestsAdd
    <3>2. Cardinality(Guests(LockedRows(d))) \in Nat
      BY <1>4, GuestsFinite
    <3>3. QED
      BY <1>1, <3>1, <3>2
  <2>3. QED
    BY <2>1, <2>2
<1>6. form' = form /\ LockedRows(d)' \subseteq LockedRows(d) \cup {r}
  BY <1>1 DEF WebCommit, LockedRows, admVars, TypeOK, Ids
<1>7. Cardinality(Guests(LockedRows(d)))'
        <= Cardinality(Guests(LockedRows(d) \cup {r}))
  BY <1>1, <1>4, <1>6, LockedGuestsStep
<1>8. /\ Cardinality(Guests(LockedRows(d) \cup {r})) \in Nat
      /\ Cardinality(Guests(LockedRows(d))) \in Nat
  BY <1>1, <1>4, GuestsFinite
<1>9. Cardinality(Guests(LockedRows(d)))' \in Nat
  <2>1. Guests(LockedRows(d))' = Guests(LockedRows(d)')
    BY <1>6 DEF Guests
  <2>2. LockedRows(d)' \in SUBSET Ids
    BY DEF LockedRows, Ids
  <2>3. QED
    BY <2>1, <2>2, GuestsFinite
<1>10. QED
  BY <1>1, <1>2, <1>3, <1>5, <1>7, <1>8, <1>9

-----------------------------------------------------------------------------
(***************************************************************************)
(* The check under the lock stays true until COMMIT.                       *)
(***************************************************************************)
Reserving == {"admitted", "inserted", "enqueued"}

\* A request that does not move keeps its budget: its date is locked, so no
\* other request commits a row there, and owners only take guests away.
LEMMA BudgetKept ==
  ASSUME TypeOK, CapacityInv, [Next]_vars, NEW r \in WebRequests,
         pc'[r] \in Reserving, pc[r] \in Reserving, seen'[r] = seen[r]
  PROVE  /\ ~IsHoliday(seen'[r])
         /\ Cardinality(Guests(LockedRows(form[r].date)))' + form'[r].people
              <= seen'[r].capacity
<1> DEFINE d == form[r].date
<1>1. d \in Dates /\ form[r].people \in Nat
  BY ReservationsAssumption DEF TypeOK, Forms, Ids
<1>2. /\ seen[r] \in offered[r]
      /\ ~IsHoliday(seen[r])
      /\ Cardinality(Guests(LockedRows(d))) + form[r].people <= seen[r].capacity
  BY DEF CapacityInv, Budget, InTransaction, Reserving
<1>3. seen[r].capacity \in Nat
  BY <1>2, ReservationsAssumption DEF TypeOK
<1>4. LockedRows(d) \in SUBSET Ids
  BY DEF LockedRows, Ids
<1>5. form' = form /\ LockedRows(d)' \subseteq LockedRows(d)
  <2>1. ASSUME NEW q \in WebRequests, WebCommit(q)
        PROVE  form[q].date # d
    <3>1. pc[q] = "enqueued" /\ pc'[q] = "done"
      BY <2>1 DEF WebCommit, WebEnd, WebGoto, TypeOK
    <3>2. q # r
      BY <3>1 DEF Reserving
    <3>3. lock[form[q].date] = q /\ lock[d] = r
      BY <3>1 DEF CapacityInv, LockInv, InTransaction, Reserving
    <3>4. QED
      BY <3>2, <3>3
  <2>2. QED
    BY <1>1, <2>1, LockedRowsStep
<1>6. Cardinality(Guests(LockedRows(d)))' <= Cardinality(Guests(LockedRows(d)))
  BY <1>1, <1>4, <1>5, LockedGuestsStep
<1>7. Cardinality(Guests(LockedRows(d))) \in Nat
  BY <1>4, GuestsFinite
<1>8. Cardinality(Guests(LockedRows(d)))' \in Nat
  <2>1. Guests(LockedRows(d))' = Guests(LockedRows(d)')
    BY <1>5 DEF Guests
  <2>2. LockedRows(d)' \in SUBSET Ids
    BY DEF LockedRows, Ids
  <2>3. QED
    BY <2>1, <2>2, GuestsFinite
<1>9. Cardinality(Guests(LockedRows(d)))' + form[r].people <= seen[r].capacity
  BY <1>1, <1>2, <1>3, <1>6, <1>7, <1>8
<1>10. QED
  BY <1>2, <1>5, <1>9 DEF IsHoliday

\* The comparison with what is left of the capacity, clamped at zero, is exact:
\* it admits a party if and only if everybody fits.
THEOREM AdmissionExact ==
  ASSUME TypeOK, NEW r \in WebRequests, seen[r] \in Schedules
  PROVE  Admissible(r) <=>
           /\ ~IsHoliday(seen[r])
           /\ SumReserved(form[r].date) + form[r].people <= seen[r].capacity
<1>1. form[r].people \in Nat /\ form[r].people >= 1
  BY ReservationsAssumption DEF TypeOK, Forms, Ids
<1>2. seen[r].capacity \in Nat
  BY ReservationsAssumption
<1>3. ReservedRows(form[r].date) \in SUBSET Ids
  BY DEF ReservedRows
<1>4. SumReserved(form[r].date) \in Nat
  BY <1>3, GuestsFinite DEF SumReserved
<1>5. QED
  BY <1>1, <1>2, <1>4 DEF Admissible, Available

\* A request that passes the check has room.
LEMMA BudgetChecked ==
  ASSUME TypeOK, CapacityInv, NEW r \in WebRequests, pc[r] = "reread",
         Admissible(r)
  PROVE  /\ ~IsHoliday(seen[r])
         /\ Cardinality(Guests(LockedRows(form[r].date))) + form[r].people
              <= seen[r].capacity
<1> DEFINE d == form[r].date
<1>1. form[r].people \in Nat
  BY ReservationsAssumption DEF TypeOK, Forms, Ids
<1>2. seen[r] \in Schedules
  BY DEF CapacityInv, Budget, InTransaction, TypeOK
<1>3. seen[r].capacity \in Nat
  BY <1>2, ReservationsAssumption
<1>4. LockedRows(d) \subseteq ReservedRows(d) /\ ReservedRows(d) \in SUBSET Ids
  BY DEF LockedRows, ReservedRows, Ids
<1>5. Cardinality(Guests(LockedRows(d))) <= SumReserved(d)
  BY <1>4, GuestsMonotone DEF SumReserved
<1>6. SumReserved(d) \in Nat /\ Cardinality(Guests(LockedRows(d))) \in Nat
  BY <1>4, GuestsFinite DEF SumReserved
<1>7. ~IsHoliday(seen[r]) /\ SumReserved(d) + form[r].people <= seen[r].capacity
  BY <1>2, AdmissionExact
<1>8. QED
  BY <1>1, <1>3, <1>5, <1>6, <1>7

\* What a step does to a request that is in its transaction afterwards.
LEMMA TransactionStep ==
  ASSUME TypeOK, LockInv, [Next]_vars, NEW r \in WebRequests,
         pc'[r] \in InTransaction
  PROVE  \/ WebLock(r)
         \/ WebReread(r)
         \/ WebRecheck(r) /\ Admissible(r) /\ UNCHANGED <<seen, offered>>
         \/ /\ pc[r] \in InTransaction
            /\ pc'[r] = pc[r] \/ {pc[r], pc'[r]} \subseteq Reserving
            /\ seen'[r] = seen[r]
            /\ offered[r] \subseteq offered'[r]
            /\ Effective(form[r].date)' \in {Effective(form[r].date)} \cup offered'[r]
<1> DEFINE Stays ==
      /\ pc[r] \in InTransaction
      /\ pc'[r] = pc[r] \/ {pc[r], pc'[r]} \subseteq Reserving
      /\ seen'[r] = seen[r]
      /\ offered[r] \subseteq offered'[r]
      /\ Effective(form[r].date)' \in {Effective(form[r].date)} \cup offered'[r]
<1>0. form[r].date \in Dates
  BY DEF TypeOK, Forms, Ids
<1>a. ASSUME UNCHANGED <<form, stored, pc, seen, offered>>
      PROVE  Stays
  BY <1>a DEF Effective
<1>1. ASSUME NEW q \in WebRequests, WebStep(q), q # r
      PROVE  Stays
  <2>1. UNCHANGED <<form, stored>>
    BY <1>1
    DEF WebStep, WebProgress, WebResolve, WebReadSchedule, WebCheck, WebLock,
        WebReread, WebRecheck, WebInsert, WebEnqueue, WebCommit, WebFail, dbVars
  <2>2. pc'[r] = pc[r] /\ seen'[r] = seen[r] /\ offered'[r] = offered[r]
    BY <1>1
    DEF WebStep, WebProgress, WebResolve, WebReadSchedule, WebCheck, WebLock,
        WebReread, WebRecheck, WebInsert, WebEnqueue, WebCommit, WebFail,
        WebEnd, WebGoto, TypeOK
  <2>3. QED
    BY <2>1, <2>2 DEF Effective
<1>2. ASSUME WebStep(r)
      PROVE  \/ WebLock(r)
             \/ WebReread(r)
             \/ WebRecheck(r) /\ Admissible(r) /\ UNCHANGED <<seen, offered>>
             \/ Stays
  <2>1. ASSUME NEW state \in Ended, WebEnd(r, state)
        PROVE  FALSE
    BY <2>1 DEF WebEnd, WebGoto, TypeOK, Ended, InTransaction
  <2>2. CASE WebInsert(r) \/ WebEnqueue(r)
    <3>1. UNCHANGED <<form, stored, seen, offered>>
      BY <2>1, <2>2 DEF WebInsert, WebEnqueue, dbVars, Ended
    <3>2. {pc[r], pc'[r]} \subseteq Reserving
      BY <2>1, <2>2
      DEF WebInsert, WebEnqueue, WebGoto, TypeOK, Ended, Reserving
    <3>3. QED
      BY <3>1, <3>2 DEF Effective, Reserving, InTransaction
  <2>3. CASE WebResolve(r) \/ WebReadSchedule(r) \/ WebCheck(r)
    BY <2>1, <2>3
    DEF WebResolve, WebReadSchedule, WebCheck, WebGoto, TypeOK, Ended,
        InTransaction
  <2>4. CASE WebCommit(r) \/ WebFail(r)
    BY <2>1, <2>4 DEF WebCommit, WebFail, Ended
  <2>5. CASE WebRecheck(r)
    BY <2>1, <2>5 DEF WebRecheck, Ended
  <2>6. QED
    BY <1>2, <2>2, <2>3, <2>4, <2>5 DEF WebStep, WebProgress
<1>3. ASSUME NEW e \in AdminEntries, AdminCreate(e)
      PROVE  Stays
  BY <1>a, <1>3 DEF AdminCreate, webVars
<1>4. ASSUME NEW a \in Admins, StatusStep(a)
      PROVE  Stays
  BY <1>a, <1>4
  DEF StatusStep, StatusProgress, StatusRead, StatusUpdate, StatusEnqueue,
      StatusCommit, StatusFail, webVars, dbVars
<1>5. ASSUME NEW d \in Dates, ScheduleStep(d)
      PROVE  Stays
  <2>1. PICK row : StoreSchedule(d, row)
    BY <1>5 DEF ScheduleStep, SetSchedule, DeleteSchedule
  <2>2. UNCHANGED <<form, pc, seen>>
    BY <2>1 DEF StoreSchedule
  <2>3. offered[r] \subseteq offered'[r]
    BY <2>1 DEF StoreSchedule
  <2>4. Effective(form[r].date)' \in {Effective(form[r].date)} \cup offered'[r]
    <3>1. CASE form[r].date = d
      <4>1. lock[d] = r
        BY <2>2, <3>1 DEF LockInv
      <4>2. offered'[r] = offered[r]
              \cup {IF row = NoSchedule THEN DefaultSchedule[d] ELSE row}
        BY <2>1, <4>1 DEF StoreSchedule
      <4>3. stored'[d] = row
        BY <2>1 DEF StoreSchedule, TypeOK
      <4>4. Effective(form[r].date)'
              = IF row = NoSchedule THEN DefaultSchedule[d] ELSE row
        BY <2>2, <3>1, <4>3 DEF Effective
      <4>5. QED
        BY <4>2, <4>4
    <3>2. CASE form[r].date # d
      <4>1. stored'[form[r].date] = stored[form[r].date]
        BY <1>0, <2>1, <3>2 DEF StoreSchedule, TypeOK
      <4>2. QED
        BY <2>2, <4>1 DEF Effective
    <3>3. QED
      BY <3>1, <3>2
  <2>5. QED
    BY <2>2, <2>3, <2>4
<1>6. CASE UNCHANGED vars
  BY <1>a, <1>6 DEF vars, dbVars, webVars
<1>7. QED
  BY <1>1, <1>2, <1>3, <1>4, <1>5, <1>6, ReservationsAssumption
  DEF Next, WebStep, StatusStep, ScheduleStep

LEMMA BudgetStep == CapacityInv /\ TypeOK /\ [Next]_vars => Budget'
<1> SUFFICES ASSUME CapacityInv, TypeOK, [Next]_vars, NEW r \in WebRequests
             PROVE  /\ pc'[r] \in InTransaction =>
                         Effective(form[r].date)' \in offered'[r]
                    /\ pc'[r] \in InTransaction \ {"locked"} =>
                         seen'[r] \in offered'[r]
                    /\ pc'[r] \in Reserving =>
                         /\ ~IsHoliday(seen'[r])
                         /\ Cardinality(Guests(LockedRows(form[r].date)))'
                              + form'[r].people <= seen'[r].capacity
  BY DEF Budget, Reserving, IsHoliday
<1> SUFFICES ASSUME pc'[r] \in InTransaction
             PROVE  /\ Effective(form[r].date)' \in offered'[r]
                    /\ pc'[r] # "locked" => seen'[r] \in offered'[r]
                    /\ pc'[r] \in Reserving =>
                         /\ ~IsHoliday(seen'[r])
                         /\ Cardinality(Guests(LockedRows(form[r].date)))'
                              + form'[r].people <= seen'[r].capacity
  BY DEF Reserving, InTransaction
<1>0. LockInv
  BY DEF CapacityInv
<1>1. CASE WebLock(r)
  <2>1. UNCHANGED <<form, stored>> /\ pc'[r] = "locked"
    BY <1>1 DEF WebLock, WebGoto, dbVars, TypeOK
  <2>2. offered'[r] = {Effective(form[r].date)}
    BY <1>1 DEF WebLock, TypeOK
  <2>3. QED
    BY <2>1, <2>2 DEF Effective, Reserving
<1>2. CASE WebReread(r)
  <2>1. UNCHANGED <<form, stored, offered>> /\ pc'[r] = "reread" /\ pc[r] = "locked"
    BY <1>2 DEF WebReread, WebGoto, dbVars, TypeOK
  <2>2. seen'[r] = Effective(form[r].date)
    BY <1>2 DEF WebReread, TypeOK
  <2>3. Effective(form[r].date) \in offered[r]
    BY <2>1 DEF CapacityInv, Budget, InTransaction
  <2>4. QED
    BY <2>1, <2>2, <2>3 DEF Effective, Reserving
<1>3. CASE WebRecheck(r) /\ Admissible(r) /\ UNCHANGED <<seen, offered>>
  <2>1. UNCHANGED <<form, stored, status, revived>> /\ pc[r] = "reread"
    BY <1>3 DEF WebRecheck, dbVars, admVars
  <2>2. Effective(form[r].date) \in offered[r] /\ seen[r] \in offered[r]
    BY <2>1 DEF CapacityInv, Budget, InTransaction
  <2>3. /\ ~IsHoliday(seen[r])
        /\ Cardinality(Guests(LockedRows(form[r].date))) + form[r].people
              <= seen[r].capacity
    BY <1>3, <2>1, BudgetChecked
  <2>4. Guests(LockedRows(form[r].date))' = Guests(LockedRows(form[r].date))
    BY <2>1 DEF Guests, LockedRows
  <2>5. QED
    BY <1>3, <2>1, <2>2, <2>3, <2>4 DEF Effective, IsHoliday
<1>4. CASE /\ pc[r] \in InTransaction
           /\ pc'[r] = pc[r] \/ {pc[r], pc'[r]} \subseteq Reserving
           /\ seen'[r] = seen[r]
           /\ offered[r] \subseteq offered'[r]
           /\ Effective(form[r].date)' \in {Effective(form[r].date)} \cup offered'[r]
  <2>1. Effective(form[r].date) \in offered[r]
    BY <1>4 DEF CapacityInv, Budget
  <2>2. pc'[r] # "locked" => seen[r] \in offered[r]
    BY <1>4 DEF CapacityInv, Budget, Reserving, InTransaction
  <2>3. pc'[r] \in Reserving => pc[r] \in Reserving
    BY <1>4
  <2>4. QED
    BY <1>4, <2>1, <2>2, <2>3, BudgetKept
<1>5. QED
  BY <1>0, <1>1, <1>2, <1>3, <1>4, TransactionStep

\* The inductive invariant: at every moment the holder of a visit date's lock
\* is unique and, past the check, still has room for its guests.
THEOREM Capacity == Spec => []CapacityInv
<1>1. Init => CapacityInv
  <2> SUFFICES ASSUME Init
               PROVE  CapacityInv
    OBVIOUS
  <2>1. \A r \in WebRequests : pc[r] = "new"
    BY DEF Init
  <2>2. \A d \in Dates : lock[d] = Nobody
    BY DEF Init
  <2>3. Nobody \notin WebRequests
    BY ReservationsAssumption DEF Ids
  <2>4. QED
    BY <2>1, <2>2, <2>3 DEF CapacityInv, LockInv, Budget, InTransaction
<1>2. CapacityInv /\ TypeOK /\ [Next]_vars => CapacityInv'
  BY LockStep, BudgetStep DEF CapacityInv
<1>3. QED
  BY <1>1, <1>2, TypeCorrect, PTL DEF Spec

-----------------------------------------------------------------------------
(***************************************************************************)
(* Rows and mails.                                                         *)
(***************************************************************************)
LEMMA AnnouncedStep ==
  TypeOK /\ ReservationAnnounced /\ [Next]_vars => ReservationAnnounced'
<1> SUFFICES ASSUME TypeOK, ReservationAnnounced, [Next]_vars
             PROVE  ReservationAnnounced'
  OBVIOUS
<1>0. ASSUME UNCHANGED <<status, outbox, adm, about>>
      PROVE  ReservationAnnounced'
  BY <1>0 DEF ReservationAnnounced
<1>1. ASSUME NEW r \in WebRequests, WebStep(r)
      PROVE  ReservationAnnounced'
  <2>1. CASE WebCommit(r)
    BY <2>1 DEF WebCommit, ReservationAnnounced, TypeOK, Ids, admVars
  <2>2. CASE ~WebCommit(r)
    BY <1>0, <1>1, <2>2
    DEF WebStep, WebProgress, WebResolve, WebReadSchedule, WebCheck, WebLock,
        WebReread, WebRecheck, WebInsert, WebEnqueue, WebFail, dbVars, admVars
  <2>3. QED
    BY <2>1, <2>2
<1>2. ASSUME NEW e \in AdminEntries, AdminCreate(e)
      PROVE  ReservationAnnounced'
  <2>1. e \notin WebRequests /\ e \in Ids
    BY ReservationsAssumption DEF Ids
  <2>2. PICK s \in Statuses : status' = [status EXCEPT ![e] = s]
    BY <1>2 DEF AdminCreate
  <2>3. s # "none"
    BY DEF Statuses
  <2>4. UNCHANGED <<outbox, adm, about>>
    BY <1>2 DEF AdminCreate, admVars
  <2>5. QED
    BY <2>1, <2>2, <2>3, <2>4 DEF ReservationAnnounced, TypeOK, Ids
<1>3. ASSUME NEW a \in Admins, StatusStep(a)
      PROVE  ReservationAnnounced'
  <2>1. CASE StatusRead(a)
    <3>1. PICK i \in Ids, t \in UpdateStatusTargets :
            /\ CanTransition(status[i], t)
            /\ about' = [about EXCEPT ![a] = i]
      BY <2>1 DEF StatusRead
    <3>2. status[i] # "none"
      BY <3>1 DEF CanTransition
    <3>3. UNCHANGED <<status, outbox>> /\ adm' = [adm EXCEPT ![a] = "read"]
      BY <2>1 DEF StatusRead, dbVars
    <3>4. QED
      BY <3>1, <3>2, <3>3 DEF ReservationAnnounced, TypeOK
  <2>2. CASE StatusUpdate(a)
    <3>1. about[a] \in Ids /\ target[a] # "none" /\ status[about[a]] # "none"
      BY <2>2 DEF StatusUpdate, TypeOK, ReservationAnnounced, UpdateStatusTargets
    <3>2. \A i \in Ids : status[i] # "none" <=> status'[i] # "none"
      BY <2>2, <3>1 DEF StatusUpdate, TypeOK
    <3>3. outbox' = outbox
      BY <2>2 DEF StatusUpdate
    <3>4. \A b \in Admins : adm'[b] # "idle" => adm[b] # "idle" /\ about'[b] = about[b]
      BY <2>2 DEF StatusUpdate, StatusEnd, TypeOK
    <3>5. QED
      BY <3>2, <3>3, <3>4 DEF ReservationAnnounced, TypeOK, Ids
  <2>3. CASE StatusEnqueue(a)
    BY <2>3 DEF StatusEnqueue, ReservationAnnounced, TypeOK, dbVars
  <2>4. CASE StatusCommit(a)
    BY <2>4 DEF StatusCommit, StatusEnd, ReservationAnnounced, TypeOK
  <2>5. CASE StatusFail(a)
    BY <2>5 DEF StatusFail, StatusEnd, ReservationAnnounced, TypeOK, dbVars
  <2>6. QED
    BY <1>3, <2>1, <2>2, <2>3, <2>4, <2>5 DEF StatusStep, StatusProgress
<1>4. ASSUME NEW d \in Dates, ScheduleStep(d)
      PROVE  ReservationAnnounced'
  BY <1>0, <1>4 DEF ScheduleStep, SetSchedule, DeleteSchedule, StoreSchedule, admVars
<1>5. CASE UNCHANGED vars
  BY <1>0, <1>5 DEF vars, dbVars, admVars
<1>6. QED
  BY <1>1, <1>2, <1>3, <1>4, <1>5, ReservationsAssumption
  DEF Next, WebStep, StatusStep, ScheduleStep

\* A customer's reservation always has its "received" mail, and every mail a
\* reservation: the transaction of createAndEnqueue is enough for it.
THEOREM Announced == Spec => []ReservationAnnounced
<1>1. Init => ReservationAnnounced
  BY DEF Init, ReservationAnnounced, Ids
<1>2. QED
  BY <1>1, AnnouncedStep, TypeCorrect, PTL DEF Spec

-----------------------------------------------------------------------------
(***************************************************************************)
(* Admission.                                                              *)
(***************************************************************************)
\* A customer's row appears only by its own COMMIT.
LEMMA RowAppears ==
  ASSUME TypeOK, ReservationAnnounced, [Next]_vars, NEW r \in WebRequests,
         status[r] = "none", status'[r] # "none"
  PROVE  WebCommit(r)
<1>0. r \in Ids
  BY DEF Ids
<1>1. ASSUME NEW q \in WebRequests, WebStep(q)
      PROVE  WebCommit(r)
  BY <1>0, <1>1
  DEF WebStep, WebProgress, WebResolve, WebReadSchedule, WebCheck, WebLock,
      WebReread, WebRecheck, WebInsert, WebEnqueue, WebCommit, WebFail, dbVars,
      TypeOK
<1>2. ASSUME NEW e \in AdminEntries, AdminCreate(e)
      PROVE  FALSE
  <2>1. e # r
    BY ReservationsAssumption
  <2>2. QED
    BY <1>0, <1>2, <2>1 DEF AdminCreate, TypeOK
<1>3. ASSUME NEW a \in Admins, StatusStep(a)
      PROVE  FALSE
  <2>1. CASE StatusUpdate(a)
    <3>1. status[about[a]] # "none"
      BY <2>1 DEF StatusUpdate, ReservationAnnounced
    <3>2. QED
      BY <1>0, <2>1, <3>1 DEF StatusUpdate, TypeOK
  <2>2. CASE ~StatusUpdate(a)
    BY <1>3, <2>2
    DEF StatusStep, StatusProgress, StatusRead, StatusEnqueue, StatusCommit,
        StatusFail, dbVars
  <2>3. QED
    BY <2>1, <2>2
<1>4. ASSUME NEW d \in Dates, ScheduleStep(d)
      PROVE  FALSE
  BY <1>4 DEF ScheduleStep, SetSchedule, DeleteSchedule, StoreSchedule
<1>5. CASE UNCHANGED vars
  BY <1>5 DEF vars, dbVars
<1>6. QED
  BY <1>1, <1>2, <1>3, <1>4, <1>5, ReservationsAssumption
  DEF Next, WebStep, StatusStep, ScheduleStep

\* No interleaving of customers, owners and schedule edits lets a customer's
\* reservation in over the capacity its own locked check went by.
THEOREM Admission == Spec => AdmissionFits
<1> DEFINE Fits ==
      \A r \in WebRequests :
        status[r] = "none" /\ status'[r] # "none" =>
          \E s \in offered[r] :
            /\ ~IsHoliday(s)
            /\ Cardinality(Guests(LockedRows(form[r].date)))' <= s.capacity
<1>1. TypeOK /\ CapacityInv /\ ReservationAnnounced /\ [Next]_vars => [Fits]_vars
  <2> SUFFICES ASSUME TypeOK, CapacityInv, ReservationAnnounced, [Next]_vars,
                      NEW r \in WebRequests, status[r] = "none", status'[r] # "none"
               PROVE  \E s \in offered[r] :
                        /\ ~IsHoliday(s)
                        /\ Cardinality(Guests(LockedRows(form[r].date)))'
                             <= s.capacity
    OBVIOUS
  <2>1. WebCommit(r)
    BY RowAppears
  <2>2. QED
    BY <2>1, CommitFits
<1>2. QED
  BY <1>1, TypeCorrect, Capacity, Announced, PTL DEF Spec, AdmissionFits

-----------------------------------------------------------------------------
(***************************************************************************)
(* One owner session: nobody decides between its read and its UPDATE.      *)
(***************************************************************************)
OneOwner == \A a, b \in Admins : a = b

OwnerInv ==
  /\ \A r \in WebRequests : status[r] # "none" => pc[r] = "done"
  /\ \A a \in Admins :
       /\ adm[a] = "read" => CanTransition(status[about[a]], target[a])
       /\ adm[a] \in {"updated", "enqueued"} => status[about[a]] = target[a]
  /\ revived = {}

\* A row whose status changes has just appeared or is being decided.
LEMMA Decided ==
  ASSUME TypeOK, ReservationAnnounced, OwnerInv, [Next]_vars, NEW i \in Ids,
         status'[i] # status[i]
  PROVE  \/ status[i] = "none"
         \/ \E a \in Admins :
              /\ StatusUpdate(a) /\ about[a] = i
              /\ status'[i] = target[a]
              /\ CanTransition(status[i], target[a])
<1>1. ASSUME NEW r \in WebRequests, WebStep(r)
      PROVE  status[i] = "none"
  <2>1. CASE WebCommit(r)
    <3>1. status' = [status EXCEPT ![r] = "pending"] /\ pc[r] = "enqueued"
      BY <2>1 DEF WebCommit
    <3>2. i = r
      BY <3>1 DEF TypeOK
    <3>3. QED
      BY <3>1, <3>2 DEF OwnerInv
  <2>2. CASE ~WebCommit(r)
    BY <1>1, <2>2
    DEF WebStep, WebProgress, WebResolve, WebReadSchedule, WebCheck, WebLock,
        WebReread, WebRecheck, WebInsert, WebEnqueue, WebFail, dbVars
  <2>3. QED
    BY <2>1, <2>2
<1>2. ASSUME NEW e \in AdminEntries, AdminCreate(e)
      PROVE  status[i] = "none"
  BY <1>2 DEF AdminCreate, TypeOK, Ids
<1>3. ASSUME NEW a \in Admins, StatusStep(a)
      PROVE  /\ StatusUpdate(a) /\ about[a] = i
             /\ status'[i] = target[a]
             /\ CanTransition(status[i], target[a])
  <2>1. CASE StatusUpdate(a)
    <3>1. adm[a] = "read" /\ about[a] \in Ids
      BY <2>1 DEF StatusUpdate, TypeOK
    <3>2. status' = [status EXCEPT ![about[a]] = target[a]]
      BY <2>1 DEF StatusUpdate
    <3>3. about[a] = i /\ status'[i] = target[a]
      BY <3>1, <3>2 DEF TypeOK
    <3>4. QED
      BY <2>1, <3>1, <3>3 DEF OwnerInv
  <2>2. CASE ~StatusUpdate(a)
    BY <1>3, <2>2
    DEF StatusStep, StatusProgress, StatusRead, StatusEnqueue, StatusCommit,
        StatusFail, dbVars
  <2>3. QED
    BY <2>1, <2>2
<1>4. ASSUME NEW d \in Dates, ScheduleStep(d)
      PROVE  FALSE
  BY <1>4 DEF ScheduleStep, SetSchedule, DeleteSchedule, StoreSchedule
<1>5. CASE UNCHANGED vars
  BY <1>5 DEF vars, dbVars
<1>6. QED
  BY <1>1, <1>2, <1>3, <1>4, <1>5, ReservationsAssumption
  DEF Next, WebStep, StatusStep, ScheduleStep

LEMMA OwnerStep ==
  ASSUME OneOwner, TypeOK, ReservationAnnounced, OwnerInv, [Next]_vars
  PROVE  OwnerInv'
<1>0. ASSUME UNCHANGED <<status, pc, admVars>>
      PROVE  OwnerInv'
  BY <1>0 DEF OwnerInv, CanTransition, admVars
<1>1. ASSUME NEW r \in WebRequests, WebStep(r)
      PROVE  OwnerInv'
  <2>0. UNCHANGED admVars /\ pc[r] # "done" /\ \A q \in WebRequests \ {r} : pc'[q] = pc[q]
    BY <1>1
    DEF WebStep, WebProgress, WebResolve, WebReadSchedule, WebCheck, WebLock,
        WebReread, WebRecheck, WebInsert, WebEnqueue, WebCommit, WebFail, WebEnd,
        WebGoto, TypeOK, Ended
  <2>1. r \in Ids /\ status[r] = "none"
    BY <2>0 DEF OwnerInv, Ids
  <2>2. CASE WebCommit(r)
    <3>1. status' = [status EXCEPT ![r] = "pending"] /\ pc'[r] = "done"
      BY <2>2 DEF WebCommit, WebEnd, WebGoto, TypeOK
    <3>2. ASSUME NEW a \in Admins, adm[a] # "idle"
          PROVE  status'[about[a]] = status[about[a]]
      BY <2>1, <3>1, <3>2 DEF ReservationAnnounced, TypeOK
    <3>3. \A q \in WebRequests : status'[q] # "none" => pc'[q] = "done"
      BY <2>0, <2>1, <3>1 DEF OwnerInv, TypeOK, Ids
    <3>4. QED
      BY <2>0, <3>2, <3>3 DEF OwnerInv, CanTransition, admVars
  <2>3. CASE ~WebCommit(r)
    <3>1. status' = status
      BY <1>1, <2>3
      DEF WebStep, WebProgress, WebResolve, WebReadSchedule, WebCheck, WebLock,
          WebReread, WebRecheck, WebInsert, WebEnqueue, WebFail, dbVars
    <3>2. \A q \in WebRequests : status'[q] # "none" => pc'[q] = "done"
      BY <2>0, <2>1, <3>1 DEF OwnerInv
    <3>3. QED
      BY <2>0, <3>1, <3>2 DEF OwnerInv, CanTransition, admVars
  <2>4. QED
    BY <2>2, <2>3
<1>2. ASSUME NEW e \in AdminEntries, AdminCreate(e)
      PROVE  OwnerInv'
  <2>1. UNCHANGED <<pc, admVars>> /\ status[e] = "none"
    BY <1>2 DEF AdminCreate, webVars
  <2>2. \A i \in Ids \ {e} : status'[i] = status[i]
    BY <1>2 DEF AdminCreate, TypeOK
  <2>3. e \notin WebRequests
    BY ReservationsAssumption
  <2>4. \A a \in Admins : adm[a] # "idle" => status'[about[a]] = status[about[a]]
    BY <2>1, <2>2 DEF ReservationAnnounced, TypeOK
  <2>5. \A q \in WebRequests : status'[q] = status[q]
    BY <2>2, <2>3 DEF Ids
  <2>6. QED
    BY <2>1, <2>4, <2>5 DEF OwnerInv, CanTransition, admVars
<1>3. ASSUME NEW a \in Admins, StatusStep(a)
      PROVE  OwnerInv'
  <2>0. Admins = {a}
    BY DEF OneOwner
  <2>1. CASE StatusRead(a)
    <3>1. PICK i \in Ids, t \in UpdateStatusTargets :
            /\ CanTransition(status[i], t)
            /\ about' = [about EXCEPT ![a] = i]
            /\ target' = [target EXCEPT ![a] = t]
      BY <2>1 DEF StatusRead
    <3>2. about'[a] = i /\ target'[a] = t
      BY <3>1 DEF TypeOK
    <3>3. UNCHANGED <<status, pc, revived>> /\ adm'[a] = "read"
      BY <2>1 DEF StatusRead, TypeOK, dbVars, webVars
    <3>4. QED
      BY <2>0, <3>1, <3>2, <3>3 DEF OwnerInv, CanTransition
  <2>2. CASE StatusUpdate(a)
    <3>1. adm[a] = "read" /\ about[a] \in Ids /\ CanTransition(status[about[a]], target[a])
      BY <2>2 DEF StatusUpdate, TypeOK, OwnerInv
    <3>2. pc' = pc /\ revived' = {}
      <4>1. target[a] \in Active => status[about[a]] \in Active
        BY <3>1 DEF CanTransition, Active
      <4>2. revived' \in {revived, IF target[a] \in Active /\ status[about[a]] \notin Active
                                   THEN revived \cup {about[a]} ELSE revived}
        BY <2>2 DEF StatusUpdate
      <4>3. QED
        BY <2>2, <4>1, <4>2 DEF StatusUpdate, webVars, OwnerInv
    <3>3. \A i \in Ids : status'[i] # "none" => status[i] # "none"
      <4>1. status[about[a]] # "none"
        BY <3>1 DEF CanTransition
      <4>2. status' \in {status, [status EXCEPT ![about[a]] = target[a]]}
        BY <2>2 DEF StatusUpdate
      <4>3. QED
        BY <4>1, <4>2 DEF TypeOK
    <3>4. CASE adm'[a] = "idle"
      BY <2>0, <3>2, <3>3, <3>4 DEF OwnerInv, Ids
    <3>5. CASE adm'[a] # "idle"
      <4>1. /\ status' = [status EXCEPT ![about[a]] = target[a]]
            /\ adm'[a] = "updated" /\ UNCHANGED <<about, target>>
        BY <2>2, <3>5 DEF StatusUpdate, StatusEnd, TypeOK
      <4>2. status'[about'[a]] = target'[a]
        BY <3>1, <4>1 DEF TypeOK
      <4>3. QED
        BY <2>0, <3>2, <3>3, <4>1, <4>2 DEF OwnerInv, Ids
    <3>6. QED
      BY <3>4, <3>5
  <2>3. CASE StatusEnqueue(a)
    BY <2>0, <2>3 DEF StatusEnqueue, OwnerInv, TypeOK, dbVars, webVars
  <2>4. CASE StatusCommit(a)
    BY <2>0, <2>4 DEF StatusCommit, StatusEnd, OwnerInv, TypeOK, webVars
  <2>5. CASE StatusFail(a)
    BY <2>0, <2>5 DEF StatusFail, StatusEnd, OwnerInv, TypeOK, dbVars, webVars
  <2>6. QED
    BY <1>3, <2>1, <2>2, <2>3, <2>4, <2>5 DEF StatusStep, StatusProgress
<1>4. ASSUME NEW d \in Dates, ScheduleStep(d)
      PROVE  OwnerInv'
  BY <1>0, <1>4 DEF ScheduleStep, SetSchedule, DeleteSchedule, StoreSchedule
<1>5. CASE UNCHANGED vars
  BY <1>0, <1>5 DEF vars, dbVars, webVars
<1>6. QED
  BY <1>1, <1>2, <1>3, <1>4, <1>5, ReservationsAssumption
  DEF Next, WebStep, StatusStep, ScheduleStep

LEMMA OwnerCorrect == ASSUME OneOwner PROVE Spec => []OwnerInv
<1>1. Init => OwnerInv
  BY DEF Init, OwnerInv, Ids
<1>2. TypeOK /\ ReservationAnnounced /\ OwnerInv /\ [Next]_vars => OwnerInv'
  BY OwnerStep
<1>3. QED
  BY <1>1, <1>2, TypeCorrect, Announced, PTL DEF Spec

\* With one owner session the statuses follow the documented table, however
\* the owner's reads and UPDATEs interleave with the customers' transactions.
THEOREM Transitions == ASSUME OneOwner PROVE Spec => StatusTable
<1> DEFINE Along ==
      \A i \in Ids :
        status[i] # "none" /\ status'[i] # status[i] =>
          <<status[i], status'[i]>> \in DocumentedTransitions
<1>1. TypeOK /\ ReservationAnnounced /\ OwnerInv /\ [Next]_vars => [Along]_vars
  <2> SUFFICES ASSUME TypeOK, ReservationAnnounced, OwnerInv, [Next]_vars,
                      NEW i \in Ids, status[i] # "none", status'[i] # status[i]
               PROVE  <<status[i], status'[i]>> \in DocumentedTransitions
    OBVIOUS
  <2>1. CanTransition(status[i], status'[i])
    BY Decided
  <2>2. QED
    BY <2>1 DEF CanTransition, DocumentedTransitions
<1>2. QED
  BY <1>1, TypeCorrect, Announced, OwnerCorrect, PTL DEF Spec, StatusTable

\* With one owner session no decision mail is queued that the status of its
\* reservation belies, now or later.
THEOREM MailsTrue == ASSUME OneOwner PROVE Spec => []DecisionMailTrue
<1>1. Init => DecisionMailTrue
  BY DEF Init, DecisionMailTrue
<1>2. TypeOK /\ ReservationAnnounced /\ OwnerInv /\ DecisionMailTrue /\ [Next]_vars
        => DecisionMailTrue'
  <2> SUFFICES ASSUME TypeOK, ReservationAnnounced, OwnerInv, DecisionMailTrue,
                      [Next]_vars
               PROVE  DecisionMailTrue'
    OBVIOUS
  <2>1. ASSUME NEW m \in outbox
        PROVE  /\ m[2] = "approved" => status'[m[1]] \in {"approved", "no_show", "cancelled"}
               /\ m[2] = "rejected" => status'[m[1]] = "rejected"
    <3>1. m[1] \in Ids /\ status[m[1]] # "none"
      BY DEF TypeOK, ReservationAnnounced
    <3>2. CASE status'[m[1]] = status[m[1]]
      BY <3>2 DEF DecisionMailTrue
    <3>3. CASE status'[m[1]] # status[m[1]]
      <4>1. CanTransition(status[m[1]], status'[m[1]])
        BY <3>1, <3>3, Decided
      <4>2. QED
        BY <4>1 DEF CanTransition, DecisionMailTrue
    <3>4. QED
      BY <3>2, <3>3
  <2>2. ASSUME NEW m \in outbox', m \notin outbox, m[2] \in {"approved", "rejected"}
        PROVE  status'[m[1]] = m[2]
    <3>1. ASSUME NEW a \in Admins, StatusCommit(a)
          PROVE  status'[m[1]] = m[2]
      <4>1. m = <<about[a], target[a]>> /\ status' = status /\ adm[a] = "enqueued"
        BY <2>2, <3>1 DEF StatusCommit
      <4>2. QED
        BY <4>1 DEF OwnerInv
    <3>2. ASSUME NEW r \in WebRequests, WebStep(r)
          PROVE  FALSE
      BY <2>2, <3>2
      DEF WebStep, WebProgress, WebResolve, WebReadSchedule, WebCheck, WebLock,
          WebReread, WebRecheck, WebInsert, WebEnqueue, WebCommit, WebFail, dbVars
    <3>3. ASSUME NEW e \in AdminEntries, AdminCreate(e)
          PROVE  FALSE
      BY <2>2, <3>3 DEF AdminCreate
    <3>4. ASSUME NEW a \in Admins, StatusStep(a), ~StatusCommit(a)
          PROVE  FALSE
      BY <2>2, <3>4
      DEF StatusStep, StatusProgress, StatusRead, StatusUpdate, StatusEnqueue,
          StatusFail, dbVars
    <3>5. ASSUME NEW d \in Dates, ScheduleStep(d)
          PROVE  FALSE
      BY <2>2, <3>5 DEF ScheduleStep, SetSchedule, DeleteSchedule, StoreSchedule
    <3>6. CASE UNCHANGED vars
      BY <2>2, <3>6 DEF vars, dbVars
    <3>7. QED
      BY <3>1, <3>2, <3>3, <3>4, <3>5, <3>6, ReservationsAssumption
      DEF Next, WebStep, StatusStep, ScheduleStep
  <2>3. QED
    BY <2>1, <2>2 DEF DecisionMailTrue
<1>3. QED
  BY <1>1, <1>2, TypeCorrect, Announced, OwnerCorrect, PTL DEF Spec

-----------------------------------------------------------------------------
(***************************************************************************)
(* A date whose schedule is not edited: what was in force when a request   *)
(* held its lock is in force for good.                                     *)
(***************************************************************************)
Unedited ==
  /\ \A d \in Dates \ EditedDates : stored[d] = NoSchedule
  /\ \A r \in WebRequests :
       form[r].date \notin EditedDates =>
         offered[r] \subseteq {DefaultSchedule[form[r].date]}

\* An edit reaches the requests that hold the lock of the edited date only.
LEMMA EditElsewhere ==
  ASSUME TypeOK, LockInv, Unedited, NEW d \in EditedDates, ScheduleStep(d)
  PROVE  Unedited'
<1>1. PICK row \in Schedules \cup {NoSchedule} : StoreSchedule(d, row)
  BY DEF ScheduleStep, SetSchedule, DeleteSchedule
<1>2. form' = form
  BY <1>1 DEF StoreSchedule
<1>3. ASSUME NEW c \in Dates \ EditedDates
      PROVE  stored'[c] = NoSchedule
  BY <1>1, <1>3 DEF StoreSchedule, Unedited, TypeOK
<1>4. ASSUME NEW r \in WebRequests, form[r].date \notin EditedDates
      PROVE  offered'[r] = offered[r]
  <2>1. lock[d] # r
    BY <1>4, ReservationsAssumption DEF LockInv
  <2>2. QED
    BY <1>1, <2>1 DEF StoreSchedule
<1>5. QED
  BY <1>2, <1>3, <1>4 DEF Unedited

LEMMA UneditedCorrect == Spec => []Unedited
<1>1. Init => Unedited
  BY DEF Init, Unedited
<1>2. TypeOK /\ CapacityInv /\ Unedited /\ [Next]_vars => Unedited'
  <2> SUFFICES ASSUME TypeOK, LockInv, Unedited, [Next]_vars
               PROVE  Unedited'
    BY DEF CapacityInv
  <2>1. ASSUME UNCHANGED <<form, stored, offered>>
        PROVE  Unedited'
    BY <2>1 DEF Unedited
  <2>2. ASSUME NEW r \in WebRequests, WebStep(r)
        PROVE  Unedited'
    <3>1. UNCHANGED <<form, stored>>
      BY <2>2
      DEF WebStep, WebProgress, WebResolve, WebReadSchedule, WebCheck, WebLock,
          WebReread, WebRecheck, WebInsert, WebEnqueue, WebCommit, WebFail, dbVars
    <3>2. form[r].date \notin EditedDates =>
            Effective(form[r].date) = DefaultSchedule[form[r].date]
      BY DEF Effective, Unedited, TypeOK, Forms, Ids
    <3>3. \A q \in WebRequests :
            \/ offered'[q] \in {offered[q], {}}
            \/ (q = r /\ offered'[q] = {Effective(form[r].date)})
      BY <2>2
      DEF WebStep, WebProgress, WebResolve, WebReadSchedule, WebCheck, WebLock,
          WebReread, WebRecheck, WebInsert, WebEnqueue, WebCommit, WebFail,
          WebEnd, TypeOK
    <3>4. QED
      BY <3>1, <3>2, <3>3 DEF Unedited
  <2>3. ASSUME NEW e \in AdminEntries, AdminCreate(e)
        PROVE  Unedited'
    BY <2>1, <2>3 DEF AdminCreate, webVars
  <2>4. ASSUME NEW a \in Admins, StatusStep(a)
        PROVE  Unedited'
    BY <2>1, <2>4
    DEF StatusStep, StatusProgress, StatusRead, StatusUpdate, StatusEnqueue,
        StatusCommit, StatusFail, dbVars, webVars
  <2>5. ASSUME NEW d \in EditedDates, ScheduleStep(d)
        PROVE  Unedited'
    BY <2>5, EditElsewhere
  <2>6. CASE UNCHANGED vars
    BY <2>1, <2>6 DEF vars, dbVars, webVars
  <2>7. QED
    BY <2>2, <2>3, <2>4, <2>5, <2>6 DEF Next, WebStep, StatusStep, ScheduleStep
<1>3. QED
  BY <1>1, <1>2, TypeCorrect, Capacity, PTL DEF Spec

\* The customers admitted under the lock fit a date whose schedule stands.
LockedFit ==
  \A d \in Dates \ EditedDates :
    Cardinality(Guests(LockedRows(d))) <= DefaultSchedule[d].capacity

\* For any number of owner sessions: rows that a late decision made active
\* again are the only way to exceed the capacity of a date that is not edited.
THEOREM AdmittedFit == Spec => []LockedFit
<1>1. Init => LockedFit
  <2> SUFFICES ASSUME Init, NEW d \in Dates \ EditedDates
               PROVE  Cardinality(Guests(LockedRows(d))) <= DefaultSchedule[d].capacity
    BY DEF LockedFit
  <2>1. LockedRows(d) = {}
    BY DEF Init, LockedRows, Ids, Active
  <2>2. Guests(LockedRows(d)) = {}
    BY <2>1 DEF Guests
  <2>3. Cardinality(Guests(LockedRows(d))) = 0
    BY <2>2, FS_EmptySet
  <2>4. DefaultSchedule[d].capacity \in Nat
    BY ReservationsAssumption
  <2>5. QED
    BY <2>3, <2>4
<1>2. TypeOK /\ CapacityInv /\ Unedited /\ LockedFit /\ [Next]_vars => LockedFit'
  <2> SUFFICES ASSUME TypeOK, CapacityInv, Unedited, LockedFit, [Next]_vars,
                      NEW d \in Dates \ EditedDates
               PROVE  (Cardinality(Guests(LockedRows(d))))'
                        <= DefaultSchedule[d].capacity
    BY DEF LockedFit
  <2>1. CASE \E r \in WebRequests : WebCommit(r) /\ form[r].date = d
    <3>1. PICK r \in WebRequests : WebCommit(r) /\ form[r].date = d
      BY <2>1
    <3>2. /\ seen[r] \in offered[r]
          /\ Cardinality(Guests(LockedRows(form[r].date)))' <= seen[r].capacity
      BY <3>1, CommitFits
    <3>3. seen[r] = DefaultSchedule[d]
      BY <3>1, <3>2 DEF Unedited
    <3>4. form' = form
      BY <3>1 DEF WebCommit
    <3>5. (Cardinality(Guests(LockedRows(d))))'
            = Cardinality(Guests(LockedRows(form[r].date)))'
      BY <3>1, <3>4
    <3>6. QED
      BY <3>2, <3>3, <3>5
  <2>2. CASE ~\E r \in WebRequests : WebCommit(r) /\ form[r].date = d
    <3>1. form' = form /\ LockedRows(d)' \subseteq LockedRows(d)
      BY <2>2, LockedRowsStep
    <3>2. LockedRows(d) \in SUBSET Ids /\ LockedRows(d)' \in SUBSET Ids
      BY DEF LockedRows, Ids
    <3>3. Cardinality(Guests(LockedRows(d)))' <= Cardinality(Guests(LockedRows(d)))
      BY <3>1, <3>2, LockedGuestsStep
    <3>4. Guests(LockedRows(d))' = Guests(LockedRows(d)')
      BY <3>1 DEF Guests
    <3>5. /\ Cardinality(Guests(LockedRows(d))) \in Nat
          /\ Cardinality(Guests(LockedRows(d)))' \in Nat
      BY <3>2, <3>4, GuestsFinite
    <3>6. Cardinality(Guests(LockedRows(d))) <= DefaultSchedule[d].capacity
      BY DEF LockedFit
    <3>7. DefaultSchedule[d].capacity \in Nat
      BY ReservationsAssumption
    <3>8. QED
      BY <3>3, <3>5, <3>6, <3>7
  <2>3. QED
    BY <2>1, <2>2
<1>3. QED
  BY <1>1, <1>2, TypeCorrect, Capacity, UneditedCorrect, PTL DEF Spec

\* With one owner session no row comes back, and the customers' reservations
\* of a date that is not edited never exceed its capacity.
THEOREM NeverOverbooked == ASSUME OneOwner PROVE Spec => []NoOverbooking
<1>1. OwnerInv /\ Unedited /\ LockedFit => NoOverbooking
  <2> SUFFICES ASSUME OwnerInv, Unedited, LockedFit, NEW d \in Dates \ EditedDates
               PROVE  Cardinality(Guests({i \in ReservedRows(d) : i \in WebRequests}))
                        <= Effective(d).capacity
    BY DEF NoOverbooking
  <2>1. {i \in ReservedRows(d) : i \in WebRequests} = LockedRows(d)
    BY DEF ReservedRows, LockedRows, OwnerInv, Ids
  <2>2. Effective(d) = DefaultSchedule[d]
    BY DEF Effective, Unedited
  <2>3. QED
    BY <2>1, <2>2 DEF LockedFit
<1>2. QED
  BY <1>1, AdmittedFit, OwnerCorrect, UneditedCorrect, PTL
=============================================================================
