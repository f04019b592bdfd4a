-------------------------- MODULE SchedulesProofs --------------------------
(***************************************************************************)
(* Theorems about Schedules, for any days, requests and commands: what the *)
(* owner stores is complete and in order, a row is deleted once, the seats *)
(* shown are current and those there are to book, and visits start within  *)
(* the hours of booking.                                                   *)
(***************************************************************************)
EXTENDS Schedules, TLAPS

-----------------------------------------------------------------------------
(* The calendar. *)

LEMMA DefaultRows ==
  ASSUME NEW d \in Dates
  PROVE  /\ DefaultSchedule(d) \in Rows
         /\ SoundRow(DefaultSchedule(d))
<1>1. DefaultType(d) \in {"normal", "morning", "closed"}
  BY DEF DefaultType, WeekdayType
<1>2. CASE DefaultType(d) = "normal"
  BY <1>2 DEF DefaultSchedule, ApplyDefaultBusinessHours, FillHours, DefaultHours,
    OrElse, NoHours, NormalHours, MorningHours, Unset, Rows, ScheduleTypes, Hours, Minutes,
    SoundRow, EventTextValid, ForbidsEventText, IsHoliday, InOrder
<1>3. CASE DefaultType(d) = "morning"
  BY <1>3 DEF DefaultSchedule, ApplyDefaultBusinessHours, FillHours, DefaultHours,
    OrElse, NoHours, NormalHours, MorningHours, Unset, Rows, ScheduleTypes, Hours, Minutes,
    SoundRow, EventTextValid, ForbidsEventText, IsHoliday, InOrder
<1>4. CASE DefaultType(d) = "closed"
  BY <1>4 DEF DefaultSchedule, ApplyDefaultBusinessHours, FillHours, DefaultHours,
    OrElse, NoHours, NormalHours, MorningHours, Unset, Rows, ScheduleTypes, Hours, Minutes,
    SoundRow, EventTextValid, ForbidsEventText, IsHoliday, InOrder
<1>5. QED
  BY <1>1, <1>2, <1>3, <1>4

LEMMA DefaultHoursTyped ==
  ASSUME NEW type
  PROVE  /\ DefaultHours(type) \in Hours
         /\ type \in {"normal", "morning", "special_menu"} =>
              Unset \notin {DefaultHours(type).open, DefaultHours(type).last,
                            DefaultHours(type).close}
BY DEF DefaultHours, NoHours, NormalHours, MorningHours, Hours, Minutes, Unset

LEMMA FillHoursTyped ==
  ASSUME NEW h \in Hours, NEW default \in Hours
  PROVE  /\ FillHours(h, default) \in Hours
         /\ Unset \notin {default.open, default.last, default.close} =>
              Unset \notin {FillHours(h, default).open, FillHours(h, default).last,
                            FillHours(h, default).close}
BY DEF FillHours, OrElse, Hours, Minutes, Unset

\* Hours that are complete are not changed by filling them.
LEMMA FillHoursIdle ==
  ASSUME NEW h \in Hours, NEW default,
         Unset \notin {h.open, h.last, h.close}
  PROVE  FillHours(h, default) = h
BY DEF FillHours, OrElse, Hours

LEMMA StoredHoursTyped ==
  ASSUME NEW d \in Dates, NEW c \in CommandType, c.type \in ScheduleTypes
  PROVE  /\ StoredHours(d, c) \in Hours
         /\ IsHoliday(c) => StoredHours(d, c) = NoHours
         /\ ~IsHoliday(c) =>
              Unset \notin {StoredHours(d, c).open, StoredHours(d, c).last,
                            StoredHours(d, c).close}
<1> DEFINE h == FillHours(c.hours, DefaultHours(c.type))
           k == FillHours(h, DefaultHours(EventHoursType(d)))
<1>1. c.hours \in Hours
  BY DEF CommandType
<1>2. h \in Hours
  BY <1>1, DefaultHoursTyped, FillHoursTyped
<1>3. EventHoursType(d) \in {"normal", "morning"}
  BY DEF EventHoursType
<1>4. k \in Hours /\ Unset \notin {k.open, k.last, k.close}
  BY <1>2, <1>3, DefaultHoursTyped, FillHoursTyped
<1>5. CASE c.type = "event"
  <2>1. StoredHours(d, c) = k
    BY <1>5 DEF h, k, StoredHours, IsHoliday, ApplyDefaultBusinessHours,
      ApplyEventDefaultBusinessHours
  <2>2. ~IsHoliday(c)
    BY <1>5 DEF IsHoliday
  <2>3. QED
    BY <1>4, <2>1, <2>2
<1>6. CASE c.type \in {"closed", "external_event"}
  <2>1. StoredHours(d, c) = NoHours /\ IsHoliday(c)
    BY <1>6 DEF StoredHours, IsHoliday
  <2>2. NoHours \in Hours
    BY DEF NoHours, Hours
  <2>3. QED
    BY <2>1, <2>2
<1>7. CASE c.type \in {"normal", "morning", "special_menu"}
  <2>1. StoredHours(d, c) = h /\ ~IsHoliday(c)
    BY <1>7 DEF h, StoredHours, IsHoliday, ApplyDefaultBusinessHours
  <2>2. Unset \notin {h.open, h.last, h.close}
    BY <1>1, <1>7, DefaultHoursTyped, FillHoursTyped
  <2>3. QED
    BY <1>2, <2>1, <2>2
<1>8. QED
  BY <1>5, <1>6, <1>7 DEF ScheduleTypes

\* What a PUT stores, when it is not refused.
LEMMA RowSound ==
  ASSUME NEW d \in Dates, NEW c \in Commands, Storable(d, c)
  PROVE  RowOf(d, c) \in Rows /\ SoundRow(RowOf(d, c))
<1>1. c \in CommandType /\ c.type \in ScheduleTypes
  BY SchedulesAssumption DEF Storable, ValidCommand
<1>2. CapacityOf(c) \in Nat
  BY <1>1 DEF Storable, ValidCommand, CapacityOf, CommandType
<1>3. RowOf(d, c) \in Rows
  <2>1. c.event \in SUBSET {"name", "description"}
    BY <1>1 DEF CommandType
  <2>2. StoredHours(d, c) \in Hours
    BY <1>1, StoredHoursTyped
  <2>3. QED
    BY <1>1, <1>2, <2>1, <2>2 DEF RowOf, Rows
<1>4. IsHoliday(RowOf(d, c)) <=> IsHoliday(c)
  BY DEF RowOf, IsHoliday
<1>5. SoundRow(RowOf(d, c))
  BY <1>1, <1>4, StoredHoursTyped DEF RowOf, SoundRow, Storable, ValidCommand
<1>6. QED
  BY <1>3, <1>5

-----------------------------------------------------------------------------
(* The steps. *)

LEMMA StepCases ==
  ASSUME Next
  PROVE  \/ \E q \in Requests : Refuse(q)
         \/ \E e \in Puts, d \in Dates, c \in Commands : Draft(e, d, c)
         \/ \E e \in Puts : Upsert(e)
         \/ \E e \in Deletes, d \in Dates : Find(e, d)
         \/ \E e \in Deletes : stored[day[e]] # NoRow /\ DeleteRow(e)
         \/ \E v \in Visitors, view \in Views, days \in SUBSET Dates : Begin(v, view, days)
         \/ \E v \in Visitors : ReadSchedules(v)
         \/ \E v \in Visitors : ReadReserved(v)
         \/ \E d \in Dates : Reserve(d)
<1>1. ASSUME NEW q \in Requests, Malformed(q) \/ Fail(q) \/ OutOfRange(q)
      PROVE  Refuse(q)
  BY <1>1 DEF Malformed, Fail, OutOfRange
<1>2. ASSUME NEW v \in Visitors,
             \/ ListSchedules(v) \/ GetSchedule(v)
             \/ GetAvailability(v) \/ PublicSchedules(v)
      PROVE  \/ Refuse(v)
             \/ \E view \in Views, days \in SUBSET Dates : Begin(v, view, days)
  <2>1. Months \subseteq SUBSET Dates /\ \A d \in Dates : {d} \in SUBSET Dates
    BY SchedulesAssumption
  <2>2. /\ "schedule" \in Views /\ "schedules" \in Views /\ "availability" \in Views
        /\ "availabilities" \in Views /\ "calendar" \in Views
    BY DEF Views, OwnersViews
  <2>3. CASE ListSchedules(v)
    BY <2>1, <2>2, <2>3 DEF ListSchedules
  <2>4. CASE GetSchedule(v)
    BY <2>1, <2>2, <2>4 DEF GetSchedule
  <2>5. CASE GetAvailability(v)
    BY <2>1, <2>2, <2>5 DEF GetAvailability
  <2>6. CASE PublicSchedules(v)
    BY <2>1, <2>2, <2>6 DEF PublicSchedules
  <2>7. QED
    BY <1>2, <2>3, <2>4, <2>5, <2>6
<1>3. ASSUME NEW e \in Puts, Put(e)
      PROVE  Refuse(e) \/ \E d \in Dates, c \in Commands : Draft(e, d, c)
  BY <1>3 DEF Put
<1>4. ASSUME NEW e \in Deletes, Delete(e)
      PROVE  Refuse(e) \/ \E d \in Dates : Find(e, d)
  BY <1>4 DEF Delete
<1>5. ASSUME NEW e \in Deletes, DeleteRow(e)
      PROVE  Refuse(e) \/ stored[day[e]] # NoRow
  BY <1>5 DEF DeleteRow
<1>6. Puts \subseteq Requests /\ Deletes \subseteq Requests /\ Visitors \subseteq Requests
  BY DEF Requests, Editors
<1>7. ASSUME NEW q \in Requests, NEW path, HandleSchedules(q, path)
      PROVE  \/ Refuse(q)
             \/ q \in Visitors /\ (ListSchedules(q) \/ GetSchedule(q))
             \/ q \in Puts /\ Put(q)
             \/ q \in Deletes /\ Delete(q)
  BY <1>7 DEF HandleSchedules
<1>8. QED
  BY <1>1, <1>2, <1>3, <1>4, <1>5, <1>6, <1>7 DEF Next

-----------------------------------------------------------------------------
(* Types. *)

LEMMA EffectiveTyped ==
  ASSUME TypeOK, NEW d \in Dates
  PROVE  /\ Effective(d) \in EffectiveSchedules
         /\ Effective(d).schedule \in Rows
BY DefaultRows DEF TypeOK, Effective, EffectiveSchedules

\* The end of a request keeps its variables typed.
LEMMA LeaveTyped ==
  ASSUME TypeOK, NEW q \in Requests, NEW state \in {"done", "refused"},
         Leave(q, state)
  PROVE  /\ pc' \in [Requests -> States]
         /\ day' \in [Editors -> Dates \cup {NoRow}]
         /\ draft' \in [Editors -> Rows \cup {NoRow}]
         /\ asked' \in [Visitors -> [view : Views \cup {"none"}, days : SUBSET Dates]]
         /\ seen' = [v \in Visitors |-> seen'[v]]
         /\ \A e \in Editors :
              /\ pc'[e] = "upserting" => draft'[e] \in Rows
              /\ pc'[e] \in {"upserting", "found"} => day'[e] \in Dates
         /\ \A v \in Visitors :
              pc'[v] = "summing" => seen'[v] \in [asked'[v].days -> EffectiveSchedules]
<1>1. pc' = [pc EXCEPT ![q] = state]
  BY DEF Leave, Goto
<1>2. \A r \in Requests : pc'[r] = IF r = q THEN state ELSE pc[r]
  BY <1>1 DEF TypeOK
<1>3. pc' \in [Requests -> States]
  BY <1>1 DEF TypeOK, States
<1>4. /\ day' \in [Editors -> Dates \cup {NoRow}]
      /\ draft' \in [Editors -> Rows \cup {NoRow}]
  BY DEF TypeOK, Leave
<1>5. asked' \in [Visitors -> [view : Views \cup {"none"}, days : SUBSET Dates]]
  <2>1. NoQuestion \in [view : Views \cup {"none"}, days : SUBSET Dates]
    BY DEF NoQuestion
  <2>2. QED
    BY <2>1 DEF TypeOK, Leave
<1>6. seen' = [v \in Visitors |-> seen'[v]]
  BY DEF Leave
<1>7. \A e \in Editors :
        /\ pc'[e] = "upserting" => draft'[e] \in Rows
        /\ pc'[e] \in {"upserting", "found"} => day'[e] \in Dates
  BY <1>2 DEF TypeOK, Leave, Requests
<1>8. \A v \in Visitors :
        pc'[v] = "summing" => seen'[v] \in [asked'[v].days -> EffectiveSchedules]
  BY <1>2 DEF TypeOK, Leave, Requests
<1>9. QED
  BY <1>3, <1>4, <1>5, <1>6, <1>7, <1>8

LEMMA TouchTyped ==
  ASSUME TypeOK, NEW d \in Dates, Touch(d)
  PROVE  touched' \in [Visitors -> SUBSET Dates]
BY DEF TypeOK, Touch

LEMMA InitTyped == Init => TypeOK
<1> SUFFICES ASSUME Init
             PROVE  TypeOK
  OBVIOUS
<1>1. /\ stored \in [Dates -> Rows \cup {NoRow}]
      /\ reserved \in [Dates -> 0 .. MaxReserved]
  BY SchedulesAssumption DEF Init
<1>2. /\ pc \in [Requests -> States]
      /\ \A q \in Requests : pc[q] = "new"
  BY DEF Init, States
<1>3. /\ day \in [Editors -> Dates \cup {NoRow}]
      /\ draft \in [Editors -> Rows \cup {NoRow}]
  BY DEF Init
<1>4. /\ asked \in [Visitors -> [view : Views \cup {"none"}, days : SUBSET Dates]]
      /\ seen = [v \in Visitors |-> seen[v]]
  BY DEF Init, NoQuestion
<1>5. /\ created \in [Dates -> Nat]
      /\ removed \in [Dates -> Nat]
      /\ touched \in [Visitors -> SUBSET Dates]
  BY DEF Init
<1>6. QED
  BY <1>1, <1>2, <1>3, <1>4, <1>5 DEF TypeOK, Requests

LEMMA TypeStep == TypeOK /\ Next => TypeOK'
<1> SUFFICES ASSUME TypeOK, Next
             PROVE  TypeOK'
  OBVIOUS
<1> USE DEF Requests
<1>1. ASSUME NEW q \in Requests, Refuse(q)
      PROVE  TypeOK'
  <2>1. Leave(q, "refused") /\ UNCHANGED <<stored, reserved, created, removed, touched>>
    BY <1>1 DEF Refuse
  <2>2. QED
    BY <2>1, LeaveTyped DEF TypeOK
<1>2. ASSUME NEW e \in Puts, NEW d \in Dates, NEW c \in Commands, Draft(e, d, c)
      PROVE  TypeOK'
  <2>1. RowOf(d, c) \in Rows
    BY <1>2, RowSound DEF Draft
  <2>2. /\ pc' \in [Requests -> States]
        /\ day' \in [Editors -> Dates \cup {NoRow}]
        /\ draft' \in [Editors -> Rows \cup {NoRow}]
    BY <1>2, <2>1 DEF Draft, Goto, TypeOK, States, Editors
  <2>3. \A f \in Editors :
          /\ pc'[f] = "upserting" => draft'[f] \in Rows
          /\ pc'[f] \in {"upserting", "found"} => day'[f] \in Dates
    BY <1>2, <2>1 DEF Draft, Goto, TypeOK, Editors
  <2>4. \A v \in Visitors : pc'[v] = "summing" => pc[v] = "summing"
    BY <1>2 DEF Draft, Goto, TypeOK
  <2>5. QED
    BY <1>2, <2>2, <2>3, <2>4 DEF Draft, TypeOK, visitorVars
<1>3. ASSUME NEW e \in Puts, Upsert(e)
      PROVE  TypeOK'
  <2>1. day[e] \in Dates /\ draft[e] \in Rows
    BY <1>3 DEF Upsert, TypeOK, Editors
  <2>2. stored' \in [Dates -> Rows \cup {NoRow}]
    BY <1>3, <2>1 DEF Upsert, TypeOK
  <2>3. created' \in [Dates -> Nat]
    BY <1>3, <2>1 DEF Upsert, TypeOK
  <2>4. touched' \in [Visitors -> SUBSET Dates]
    BY <1>3, <2>1, TouchTyped DEF Upsert
  <2>5. e \in Requests /\ (Leave(e, "done") \/ Leave(e, "refused"))
    BY <1>3 DEF Upsert, Editors
  <2>6. reserved' = reserved /\ removed' = removed
    BY <1>3 DEF Upsert
  <2>7. QED
    BY <2>2, <2>3, <2>4, <2>5, <2>6, LeaveTyped DEF TypeOK
<1>4. ASSUME NEW e \in Deletes, NEW d \in Dates, Find(e, d)
      PROVE  TypeOK'
  <2>1. /\ pc' \in [Requests -> States]
        /\ day' \in [Editors -> Dates \cup {NoRow}]
    BY <1>4 DEF Find, Goto, TypeOK, States, Editors
  <2>2. \A f \in Editors :
          /\ pc'[f] = "upserting" => draft'[f] \in Rows
          /\ pc'[f] \in {"upserting", "found"} => day'[f] \in Dates
    BY <1>4 DEF Find, Goto, TypeOK, Editors
  <2>3. \A v \in Visitors : pc'[v] = "summing" => pc[v] = "summing"
    BY <1>4 DEF Find, Goto, TypeOK
  <2>4. QED
    BY <1>4, <2>1, <2>2, <2>3 DEF Find, TypeOK, visitorVars
<1>5. ASSUME NEW e \in Deletes, stored[day[e]] # NoRow, DeleteRow(e)
      PROVE  TypeOK'
  <2>1. day[e] \in Dates
    BY <1>5 DEF DeleteRow, TypeOK, Editors
  <2>2. stored' \in [Dates -> Rows \cup {NoRow}]
    BY <1>5, <2>1 DEF DeleteRow, TypeOK
  <2>3. removed' \in [Dates -> Nat]
    BY <1>5, <2>1 DEF DeleteRow, TypeOK
  <2>4. touched' \in [Visitors -> SUBSET Dates]
    BY <1>5, <2>1, TouchTyped DEF DeleteRow
  <2>5. e \in Requests /\ (Leave(e, "done") \/ Leave(e, "refused"))
    BY <1>5 DEF DeleteRow, Editors
  <2>6. reserved' = reserved /\ created' = created
    BY <1>5 DEF DeleteRow
  <2>7. QED
    BY <2>2, <2>3, <2>4, <2>5, <2>6, LeaveTyped DEF TypeOK
<1>6. ASSUME NEW v \in Visitors, NEW view \in Views, NEW days \in SUBSET Dates,
             Begin(v, view, days)
      PROVE  TypeOK'
  <2>1. /\ pc' \in [Requests -> States]
        /\ \A r \in Requests : pc'[r] = IF r = v THEN "reading" ELSE pc[r]
    BY <1>6 DEF Begin, Goto, TypeOK, States
  <2>2. asked' \in [Visitors -> [view : Views \cup {"none"}, days : SUBSET Dates]]
    BY <1>6 DEF Begin, TypeOK
  <2>3. \A w \in Visitors : w # v => asked'[w] = asked[w]
    BY <1>6 DEF Begin, TypeOK
  <2>4. QED
    BY <1>6, <2>1, <2>2, <2>3 DEF Begin, TypeOK, editorVars
<1>7. ASSUME NEW v \in Visitors, ReadSchedules(v)
      PROVE  TypeOK'
  <2>1. CASE asked[v].view \in OwnersViews
    <3>1. /\ Leave(v, "done")
          /\ touched' = [touched EXCEPT ![v] = {}]
          /\ UNCHANGED <<stored, reserved, created, removed>>
      BY <1>7, <2>1 DEF ReadSchedules
    <3>2. touched' \in [Visitors -> SUBSET Dates]
      BY <3>1 DEF TypeOK
    <3>3. QED
      BY <3>1, <3>2, LeaveTyped DEF TypeOK
  <2>2. CASE asked[v].view \notin OwnersViews
    <3>1. /\ pc' = [pc EXCEPT ![v] = "summing"]
          /\ seen' = [seen EXCEPT ![v] = EffectiveRows(asked[v].days)]
          /\ UNCHANGED <<editorVars, asked, touched, stored, reserved, created, removed>>
      BY <1>7, <2>2 DEF ReadSchedules, Goto
    <3>2. /\ pc' \in [Requests -> States]
          /\ \A r \in Requests : pc'[r] = IF r = v THEN "summing" ELSE pc[r]
      BY <3>1 DEF TypeOK, States
    <3>3. /\ seen' = [w \in Visitors |-> seen'[w]]
          /\ \A w \in Visitors :
               seen'[w] = IF w = v THEN EffectiveRows(asked[v].days) ELSE seen[w]
      BY <3>1 DEF TypeOK
    <3>4. EffectiveRows(asked[v].days) \in [asked[v].days -> EffectiveSchedules]
      <4>1. asked[v].days \subseteq Dates
        BY DEF TypeOK
      <4>2. QED
        BY <4>1, EffectiveTyped DEF EffectiveRows
    <3>5. QED
      BY <3>1, <3>2, <3>3, <3>4 DEF TypeOK, editorVars, Editors
  <2>3. QED
    BY <2>1, <2>2
<1>8. ASSUME NEW v \in Visitors, ReadReserved(v)
      PROVE  TypeOK'
  <2>1. /\ Leave(v, "done")
        /\ touched' = [touched EXCEPT ![v] = {}]
        /\ UNCHANGED <<stored, reserved, created, removed>>
    BY <1>8 DEF ReadReserved
  <2>2. touched' \in [Visitors -> SUBSET Dates]
    BY <2>1 DEF TypeOK
  <2>3. QED
    BY <2>1, <2>2, LeaveTyped DEF TypeOK
<1>9. ASSUME NEW d \in Dates, Reserve(d)
      PROVE  TypeOK'
  <2>1. reserved' \in [Dates -> 0 .. MaxReserved]
    BY <1>9 DEF Reserve, TypeOK
  <2>2. touched' \in [Visitors -> SUBSET Dates]
    BY <1>9, TouchTyped DEF Reserve
  <2>3. QED
    BY <1>9, <2>1, <2>2 DEF Reserve, TypeOK, editorVars, visitorVars
<1>10. QED
  BY <1>1, <1>2, <1>3, <1>4, <1>5, <1>6, <1>7, <1>8, <1>9, StepCases

LEMMA TypeStutter == TypeOK /\ UNCHANGED vars => TypeOK'
BY DEF TypeOK, vars, editorVars, visitorVars

\* Every reachable state of the schedules is well typed.
THEOREM TypeCorrect == Spec => []TypeOK
<1>1. Init => TypeOK
  BY InitTyped
<1>2. TypeOK /\ [Next]_vars => TypeOK'
  BY TypeStep, TypeStutter
<1>3. QED
  BY <1>1, <1>2, PTL DEF Spec

-----------------------------------------------------------------------------
(* What is stored is sound: so is what is about to be stored. *)

DraftsSound == \A e \in Editors : pc[e] = "upserting" => SoundRow(draft[e])

\* A request that ends is at no statement, and the others are where they were.
LEMMA LeaveFrame ==
  ASSUME TypeOK, NEW q \in Requests, NEW state \in {"done", "refused"},
         Leave(q, state)
  PROVE  /\ \A e \in Editors :
              pc'[e] = "upserting" => pc[e] = "upserting" /\ draft'[e] = draft[e]
         /\ \A v \in Visitors : pc'[v] = "summing" =>
              pc[v] = "summing" /\ asked'[v] = asked[v] /\ seen'[v] = seen[v]
BY DEF TypeOK, Leave, Goto, Requests

LEMMA SoundStep ==
  TypeOK /\ StoredSound /\ DraftsSound /\ Next => StoredSound' /\ DraftsSound'
<1> SUFFICES ASSUME TypeOK, StoredSound, DraftsSound, Next
             PROVE  StoredSound' /\ DraftsSound'
  OBVIOUS
<1> USE DEF Requests
<1>1. ASSUME NEW q \in Requests, Refuse(q)
      PROVE  StoredSound' /\ DraftsSound'
  BY <1>1, LeaveFrame DEF Refuse, StoredSound, DraftsSound
<1>2. ASSUME NEW e \in Puts, NEW d \in Dates, NEW c \in Commands, Draft(e, d, c)
      PROVE  StoredSound' /\ DraftsSound'
  <2>1. SoundRow(RowOf(d, c))
    BY <1>2, RowSound DEF Draft
  <2>2. DraftsSound'
    BY <1>2, <2>1 DEF Draft, Goto, TypeOK, Editors, DraftsSound
  <2>3. QED
    BY <1>2, <2>2 DEF Draft, StoredSound
<1>3. ASSUME NEW e \in Puts, Upsert(e)
      PROVE  StoredSound' /\ DraftsSound'
  <2>1. day[e] \in Dates /\ SoundRow(draft[e])
    BY <1>3 DEF Upsert, TypeOK, Editors, DraftsSound
  <2>2. StoredSound'
    BY <1>3, <2>1 DEF Upsert, TypeOK, StoredSound
  <2>3. DraftsSound'
    BY <1>3, LeaveFrame DEF Upsert, Editors, DraftsSound
  <2>4. QED
    BY <2>2, <2>3
<1>4. ASSUME NEW e \in Deletes, NEW d \in Dates, Find(e, d)
      PROVE  StoredSound' /\ DraftsSound'
  BY <1>4 DEF Find, Goto, TypeOK, Editors, StoredSound, DraftsSound
<1>5. ASSUME NEW e \in Deletes, stored[day[e]] # NoRow, DeleteRow(e)
      PROVE  StoredSound' /\ DraftsSound'
  <2>1. day[e] \in Dates
    BY <1>5 DEF DeleteRow, TypeOK, Editors
  <2>2. StoredSound'
    BY <1>5, <2>1 DEF DeleteRow, TypeOK, StoredSound
  <2>3. DraftsSound'
    BY <1>5, LeaveFrame DEF DeleteRow, Editors, DraftsSound
  <2>4. QED
    BY <2>2, <2>3
<1>6. ASSUME NEW v \in Visitors, NEW view \in Views, NEW days \in SUBSET Dates,
             Begin(v, view, days)
      PROVE  StoredSound' /\ DraftsSound'
  BY <1>6 DEF Begin, Goto, TypeOK, editorVars, StoredSound, DraftsSound
<1>7. ASSUME NEW v \in Visitors, ReadSchedules(v)
      PROVE  StoredSound' /\ DraftsSound'
  <2>1. CASE Leave(v, "done")
    BY <1>7, <2>1, LeaveFrame DEF ReadSchedules, StoredSound, DraftsSound
  <2>2. CASE Goto(v, "summing") /\ UNCHANGED editorVars
    BY <1>7, <2>2 DEF ReadSchedules, Goto, TypeOK, editorVars, StoredSound, DraftsSound
  <2>3. QED
    BY <1>7, <2>1, <2>2 DEF ReadSchedules
<1>8. ASSUME NEW v \in Visitors, ReadReserved(v)
      PROVE  StoredSound' /\ DraftsSound'
  BY <1>8, LeaveFrame DEF ReadReserved, StoredSound, DraftsSound
<1>9. ASSUME NEW d \in Dates, Reserve(d)
      PROVE  StoredSound' /\ DraftsSound'
  BY <1>9 DEF Reserve, editorVars, StoredSound, DraftsSound
<1>10. QED
  BY <1>1, <1>2, <1>3, <1>4, <1>5, <1>6, <1>7, <1>8, <1>9, StepCases

\* Whatever a PUT leaves out, the rows it stores are complete and in order.
THEOREM StoredRowsSound == Spec => []StoredSound
<1>1. Init => StoredSound /\ DraftsSound
  BY DEF Init, StoredSound, DraftsSound, Requests
<1>2. StoredSound /\ DraftsSound /\ UNCHANGED vars => StoredSound' /\ DraftsSound'
  BY DEF StoredSound, DraftsSound, vars, editorVars
<1>3. QED
  BY <1>1, <1>2, SoundStep, TypeCorrect, PTL DEF Spec

-----------------------------------------------------------------------------
(* Visits. *)

LEMMA VisitsOfSoundRows ==
  ASSUME NEW d \in Dates, NEW s \in Rows, SoundRow(s),
         NEW time \in Minutes, AcceptsVisit(d, s, time)
  PROVE  /\ time <= s.hours.last
         /\ s.type = "morning" => time >= NormalHours.open
         /\ s.type = "event" /\ IsSunday(d) => time >= NormalHours.open
         /\ s.type # "morning" => time >= s.hours.open
<1>1. ~IsHoliday(s)
  BY DEF AcceptsVisit
<1>2. s.hours \in Hours /\ Unset \notin {s.hours.open, s.hours.last, s.hours.close}
  BY <1>1 DEF SoundRow, Rows
<1>3. BookingHours(d, s) = s.hours
  BY <1>2, FillHoursIdle DEF BookingHours, ApplyDefaultBusinessHours,
    ApplyEventDefaultBusinessHours
<1>4. BookingOpen(d, s, s.hours.open) <= time /\ time <= s.hours.last
  BY <1>1, <1>2, <1>3 DEF AcceptsVisit, HasBookingWindow
<1>5. s.hours.open \in Minutes /\ s.hours.last \in Minutes
  BY <1>2 DEF Hours
<1>6. NormalHours.open = 690
  BY DEF NormalHours
<1>7. CASE s.type = "morning"
  BY <1>4, <1>5, <1>7 DEF BookingOpen
<1>8. CASE s.type # "morning"
  <2>1. \A m \in Minutes : m \in Int
    BY DEF Minutes
  <2>2. s.hours.open \in Int /\ time \in Int /\ 690 \in Int
    BY <1>5, <2>1
  <2>3. CASE s.type = "event" /\ IsSunday(d) /\ s.hours.open < NormalHours.open
    <3>1. NormalHours.open <= time
      BY <1>4, <2>3 DEF BookingOpen
    <3>2. QED
      BY <1>4, <1>6, <1>8, <2>2, <2>3, <3>1
  <2>4. CASE ~(s.type = "event" /\ IsSunday(d) /\ s.hours.open < NormalHours.open)
    <3>1. s.hours.open <= time
      BY <1>4, <1>8, <2>4 DEF BookingOpen
    <3>2. s.type = "event" /\ IsSunday(d) => NormalHours.open <= s.hours.open
      BY <1>6, <2>2, <2>4
    <3>3. QED
      BY <1>4, <1>6, <1>8, <2>2, <3>1, <3>2
  <2>5. QED
    BY <2>3, <2>4
<1>9. QED
  BY <1>7, <1>8

\* Visits start within the hours of booking, whatever the owner has stored.
THEOREM VisitsCorrect == Spec => []VisitsServed
<1>1. TypeOK /\ StoredSound => VisitsServed
  <2> SUFFICES ASSUME TypeOK, StoredSound, NEW d \in Dates, NEW time \in Visits,
                      AcceptsVisit(d, Effective(d).schedule, time)
               PROVE  LET s == Effective(d).schedule
                      IN  /\ time <= s.hours.last
                          /\ s.type = "morning" => time >= NormalHours.open
                          /\ s.type = "event" /\ IsSunday(d)
                               => time >= NormalHours.open
                          /\ s.type # "morning" => time >= s.hours.open
    BY DEF VisitsServed
  <2>1. SoundRow(Effective(d).schedule)
    BY DefaultRows DEF StoredSound, Effective
  <2>2. Effective(d).schedule \in Rows
    BY EffectiveTyped
  <2>3. time \in Minutes
    BY SchedulesAssumption
  <2>4. QED
    BY <2>1, <2>2, <2>3, VisitsOfSoundRows
<1>2. QED
  BY <1>1, TypeCorrect, StoredRowsSound, PTL

-----------------------------------------------------------------------------
(* Rows are deleted once. *)

LEMMA AccountStep == TypeOK /\ TypeOK' /\ RowsAccounted /\ Next => RowsAccounted'
<1> SUFFICES ASSUME TypeOK, TypeOK', RowsAccounted, Next
             PROVE  RowsAccounted'
  OBVIOUS
<1>1. CASE UNCHANGED <<stored, created, removed>>
  BY <1>1 DEF RowsAccounted
<1>2. ASSUME NEW e \in Puts, Upsert(e)
      PROVE  RowsAccounted'
  <2>1. day[e] \in Dates /\ draft[e] \in Rows
    BY <1>2 DEF Upsert, TypeOK, Editors
  <2>2. /\ stored' = [stored EXCEPT ![day[e]] = draft[e]]
        /\ created' = [created EXCEPT
             ![day[e]] = @ + IF stored[day[e]] = NoRow THEN 1 ELSE 0]
        /\ removed' = removed
    BY <1>2 DEF Upsert
  <2>3. draft[e] # NoRow
    BY <2>1, SchedulesAssumption
  <2>4. QED
    BY <2>1, <2>2, <2>3 DEF TypeOK, RowsAccounted
<1>3. ASSUME NEW e \in Deletes, stored[day[e]] # NoRow, DeleteRow(e)
      PROVE  RowsAccounted'
  <2>1. day[e] \in Dates
    BY <1>3 DEF DeleteRow, TypeOK, Editors
  <2>2. /\ stored' = [stored EXCEPT ![day[e]] = NoRow]
        /\ created' = created
        /\ \/ removed' = [removed EXCEPT ![day[e]] = @ + 1]
           \/ removed' = removed
    BY <1>3 DEF DeleteRow
  <2>3. QED
    BY <1>3, <2>1, <2>2 DEF TypeOK, RowsAccounted
<1>4. QED
  BY <1>1, <1>2, <1>3, StepCases
    DEF Refuse, Draft, Find, Begin, ReadSchedules, ReadReserved, Reserve

\* No row is deleted twice.
THEOREM DeletedOnce == Spec => []RowsAccounted
<1>1. Init => RowsAccounted
  <2> SUFFICES ASSUME Init, NEW d \in Dates
               PROVE  removed[d] + (IF stored[d] = NoRow THEN 0 ELSE 1) <= created[d]
    BY DEF RowsAccounted
  <2>1. removed[d] = 0 /\ stored[d] = NoRow /\ created[d] = 0
    BY DEF Init
  <2>2. QED
    BY <2>1
<1>2. RowsAccounted /\ UNCHANGED vars => RowsAccounted'
  BY DEF RowsAccounted, vars
<1>3. QED
  BY <1>1, <1>2, AccountStep, TypeCorrect, PTL DEF Spec

-----------------------------------------------------------------------------
(* What a visitor has read of a day nobody touched since is still in force. *)

SeenCurrent ==
  \A v \in Visitors : pc[v] = "summing" =>
    \A d \in asked[v].days \ touched[v] : seen[v][d] = Effective(d)

\* A change of one day marks it for whoever has begun.
LEMMA TouchedMarked ==
  ASSUME TypeOK, SeenCurrent, NEW d \in Dates, Touch(d),
         \A e \in Dates \ {d} : stored'[e] = stored[e],
         \A v \in Visitors : pc'[v] = "summing" =>
           pc[v] = "summing" /\ asked'[v] = asked[v] /\ seen'[v] = seen[v]
  PROVE  SeenCurrent'
<1> SUFFICES ASSUME NEW v \in Visitors, pc'[v] = "summing",
                    NEW e \in asked[v].days, e \notin touched'[v]
             PROVE  seen[v][e] = Effective(e)'
  BY DEF SeenCurrent
<1>1. pc[v] = "summing"
  OBVIOUS
<1>2. touched'[v] = touched[v] \cup {d}
  BY <1>1 DEF Touch
<1>3. e \in Dates \ {d} /\ seen[v][e] = Effective(e)
  BY <1>1, <1>2 DEF TypeOK, SeenCurrent
<1>4. QED
  BY <1>3 DEF Effective

LEMMA SeenStep == TypeOK /\ SeenCurrent /\ Next => SeenCurrent'
<1> SUFFICES ASSUME TypeOK, SeenCurrent, Next
             PROVE  SeenCurrent'
  OBVIOUS
<1> USE DEF Requests
<1>1. ASSUME NEW q \in Requests, Refuse(q)
      PROVE  SeenCurrent'
  BY <1>1, LeaveFrame DEF Refuse, SeenCurrent, Effective
<1>2. ASSUME NEW e \in Puts, NEW d \in Dates, NEW c \in Commands, Draft(e, d, c)
      PROVE  SeenCurrent'
  BY <1>2 DEF Draft, Goto, TypeOK, visitorVars, SeenCurrent, Effective
<1>3. ASSUME NEW e \in Puts, Upsert(e)
      PROVE  SeenCurrent'
  <2>1. day[e] \in Dates /\ Touch(day[e])
    BY <1>3 DEF Upsert, TypeOK, Editors
  <2>2. \A f \in Dates \ {day[e]} : stored'[f] = stored[f]
    BY <1>3 DEF Upsert, TypeOK
  <2>3. e \in Requests /\ (Leave(e, "done") \/ Leave(e, "refused"))
    BY <1>3 DEF Upsert, Editors
  <2>4. QED
    BY <2>1, <2>2, <2>3, LeaveFrame, TouchedMarked
<1>4. ASSUME NEW e \in Deletes, NEW d \in Dates, Find(e, d)
      PROVE  SeenCurrent'
  BY <1>4 DEF Find, Goto, TypeOK, visitorVars, SeenCurrent, Effective
<1>5. ASSUME NEW e \in Deletes, stored[day[e]] # NoRow, DeleteRow(e)
      PROVE  SeenCurrent'
  <2>1. day[e] \in Dates /\ Touch(day[e])
    BY <1>5 DEF DeleteRow, TypeOK, Editors
  <2>2. \A f \in Dates \ {day[e]} : stored'[f] = stored[f]
    BY <1>5 DEF DeleteRow, TypeOK
  <2>3. e \in Requests /\ (Leave(e, "done") \/ Leave(e, "refused"))
    BY <1>5 DEF DeleteRow, Editors
  <2>4. QED
    BY <2>1, <2>2, <2>3, LeaveFrame, TouchedMarked
<1>6. ASSUME NEW v \in Visitors, NEW view \in Views, NEW days \in SUBSET Dates,
             Begin(v, view, days)
      PROVE  SeenCurrent'
  <2>1. \A w \in Visitors : pc'[w] = "summing" =>
          pc[w] = "summing" /\ asked'[w] = asked[w]
    BY <1>6 DEF Begin, Goto, TypeOK
  <2>2. QED
    BY <1>6, <2>1 DEF Begin, SeenCurrent, Effective
<1>7. ASSUME NEW v \in Visitors, ReadSchedules(v)
      PROVE  SeenCurrent'
  <2>1. CASE asked[v].view \in OwnersViews
    <3>1. Leave(v, "done") /\ touched' = [touched EXCEPT ![v] = {}] /\ stored' = stored
      BY <1>7, <2>1 DEF ReadSchedules
    <3>2. \A w \in Visitors : pc'[w] = "summing" =>
            /\ pc[w] = "summing" /\ asked'[w] = asked[w] /\ seen'[w] = seen[w]
            /\ touched'[w] = touched[w]
      BY <3>1 DEF Leave, Goto, TypeOK
    <3>3. QED
      BY <3>1, <3>2 DEF SeenCurrent, Effective
  <2>2. CASE asked[v].view \notin OwnersViews
    <3>1. /\ pc' = [pc EXCEPT ![v] = "summing"]
          /\ seen' = [seen EXCEPT ![v] = EffectiveRows(asked[v].days)]
          /\ UNCHANGED <<asked, touched, stored>>
      BY <1>7, <2>2 DEF ReadSchedules, Goto
    <3>2. \A w \in Visitors \ {v} : pc'[w] = pc[w] /\ seen'[w] = seen[w]
      BY <3>1 DEF TypeOK
    <3>3. seen'[v] = EffectiveRows(asked[v].days)
      BY <3>1 DEF TypeOK
    <3>4. \A d \in asked[v].days : seen'[v][d] = Effective(d)
      BY <3>3 DEF EffectiveRows
    <3>5. QED
      BY <3>1, <3>2, <3>4 DEF SeenCurrent, Effective
  <2>3. QED
    BY <2>1, <2>2
<1>8. ASSUME NEW v \in Visitors, ReadReserved(v)
      PROVE  SeenCurrent'
  <2>1. Leave(v, "done") /\ touched' = [touched EXCEPT ![v] = {}] /\ stored' = stored
    BY <1>8 DEF ReadReserved
  <2>2. \A w \in Visitors : pc'[w] = "summing" =>
          /\ pc[w] = "summing" /\ asked'[w] = asked[w] /\ seen'[w] = seen[w]
          /\ touched'[w] = touched[w]
    BY <2>1 DEF Leave, Goto, TypeOK
  <2>3. QED
    BY <2>1, <2>2 DEF SeenCurrent, Effective
<1>9. ASSUME NEW d \in Dates, Reserve(d)
      PROVE  SeenCurrent'
  <2>1. Touch(d) /\ UNCHANGED <<stored, pc, asked, seen>>
    BY <1>9 DEF Reserve, visitorVars
  <2>2. QED
    BY <2>1, TouchedMarked
<1>10. QED
  BY <1>1, <1>2, <1>3, <1>4, <1>5, <1>6, <1>7, <1>8, <1>9, StepCases

\* The seats shown for a day nobody touched meanwhile are those there are.
THEOREM AnswersCorrect == Spec => []AnswersCurrent
<1>1. Init => SeenCurrent
  BY DEF Init, SeenCurrent, Requests
<1>2. SeenCurrent /\ UNCHANGED vars => SeenCurrent'
  BY DEF SeenCurrent, Effective, vars, visitorVars
<1>3. SeenCurrent => AnswersCurrent
  BY DEF SeenCurrent, AnswersCurrent, Shown, ReservedBetween
<1>4. QED
  BY <1>1, <1>2, <1>3, SeenStep, TypeCorrect, PTL DEF Spec

-----------------------------------------------------------------------------
(* The number the calendar shows. *)

\* The seats shown are the admission's: a party may book exactly if it is no
\* larger than the number shown, and that number is never negative, although
\* the owner's entries and a lowered capacity go beyond it.
THEOREM SeatsExact ==
  ASSUME NEW s \in Rows, NEW n \in Nat, NEW people \in Nat \ {0}
  PROVE  /\ BuildAvailability(s, n).available \in Nat
         /\ people <= BuildAvailability(s, n).available
              <=> ~IsHoliday(s) /\ n + people <= s.capacity
<1>1. s.capacity \in Nat
  BY DEF Rows
<1>2. CASE IsHoliday(s)
  <2>1. BuildAvailability(s, n).available = 0
    BY <1>2 DEF BuildAvailability
  <2>2. QED
    BY <1>2, <2>1
<1>3. CASE ~IsHoliday(s)
  <2>1. BuildAvailability(s, n).available
          = IF s.capacity < n THEN 0 ELSE s.capacity - n
    BY <1>3 DEF BuildAvailability
  <2>2. QED
    BY <1>1, <1>3, <2>1
<1>4. QED
  BY <1>2, <1>3

\* The seats shown are those a party may book, for any readers, months and
\* views, however the schedule and the sums change between the two reads.
THEOREM SeatsCorrect == Spec => []SeatsShown
<1>1. TypeOK => SeatsShown
  <2> SUFFICES ASSUME TypeOK, NEW v \in Visitors, pc[v] = "summing",
                      NEW d \in asked[v].days
               PROVE  LET s == seen[v][d].schedule
                      IN  /\ Shown(v)[d].available >= 0
                          /\ \A people \in Parties :
                               people <= Shown(v)[d].available
                                 <=> ~IsHoliday(s) /\ reserved[d] + people <= s.capacity
    BY DEF SeatsShown
  <2> DEFINE s == seen[v][d].schedule
  <2>1. s \in Rows
    BY DEF TypeOK, EffectiveSchedules, Requests
  <2>2. d \in Dates
    BY DEF TypeOK
  <2>3. reserved[d] \in Nat
    BY <2>2, SchedulesAssumption DEF TypeOK
  <2>4. Shown(v)[d] = Answer(asked[v].view, seen[v][d], reserved[d])
    BY DEF Shown, ReservedBetween
  <2>5. Shown(v)[d].available = BuildAvailability(s, reserved[d]).available
    BY <2>4 DEF Answer
  <2>6. Parties \subseteq Nat \ {0}
    BY DEF Parties
  <2> HIDE DEF s
  <2>7. /\ BuildAvailability(s, reserved[d]).available \in Nat
        /\ \A people \in Parties :
             people <= BuildAvailability(s, reserved[d]).available
               <=> ~IsHoliday(s) /\ reserved[d] + people <= s.capacity
    <3>1. s \in Rows /\ reserved[d] \in Nat
      BY <2>1, <2>3
    <3>2. BuildAvailability(s, reserved[d]).available \in Nat
      <4>1. 1 \in Nat \ {0}
        OBVIOUS
      <4>2. QED
        BY <3>1, <4>1, SeatsExact
    <3>3. ASSUME NEW people \in Parties
          PROVE  people <= BuildAvailability(s, reserved[d]).available
                   <=> ~IsHoliday(s) /\ reserved[d] + people <= s.capacity
      <4>1. people \in Nat \ {0}
        BY <2>6
      <4>2. QED
        BY <3>1, <4>1, SeatsExact
    <3>4. QED
      BY <3>2, <3>3
  <2>8. /\ Shown(v)[d].available >= 0
        /\ \A people \in Parties :
             people <= Shown(v)[d].available
               <=> ~IsHoliday(s) /\ reserved[d] + people <= s.capacity
    BY <2>5, <2>7
  <2>9. QED
    BY <2>8 DEF s
<1>2. QED
  BY <1>1, TypeCorrect, PTL

\* Booked as saved: the hours a PUT has stored are complete, so that filling in
\* the defaults once more for a booking gives the same hours, also for an
\* event, whose defaults depend on the weekday and the holidays.
THEOREM HoursSettled ==
  ASSUME NEW d \in Dates, NEW c \in Commands, Storable(d, c), ~IsHoliday(c)
  PROVE  BookingHours(d, RowOf(d, c)) = RowOf(d, c).hours
<1>1. RowOf(d, c) \in Rows /\ SoundRow(RowOf(d, c))
  BY RowSound
<1>2. ~IsHoliday(RowOf(d, c))
  BY DEF RowOf, IsHoliday
<1>3. /\ RowOf(d, c).hours \in Hours
      /\ Unset \notin {RowOf(d, c).hours.open, RowOf(d, c).hours.last,
                       RowOf(d, c).hours.close}
  BY <1>1, <1>2 DEF SoundRow, Rows
<1>4. QED
  BY <1>3, FillHoursIdle
  DEF BookingHours, ApplyEventDefaultBusinessHours, ApplyDefaultBusinessHours
=============================================================================
