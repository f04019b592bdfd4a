----------------------------- MODULE Schedules -----------------------------
(***************************************************************************)
(* The daily schedules: the owner's PUT and DELETE of one day's row, and   *)
(* the requests that show schedules and free seats, of one day or of a     *)
(* month, to the owner and to the public.  Every request is one or two SQL *)
(* statements without a transaction or a lock; an action is one statement. *)
(* What is decided before the first statement needs no step of its own.    *)
(***************************************************************************)
EXTENDS StoreCalendar, FiniteSets

CONSTANTS
  Puts,         \* PUT requests of the owner
  Deletes,      \* DELETE requests of the owner
  Visitors,     \* requests that read, the owner's and the public's
  Months,       \* the days of each month, a set of consecutive days
  Commands,     \* what a PUT may ask for
  Visits,       \* times at which a customer may ask to come
  Omitted,      \* a capacity left out of the body
  MaxReserved,  \* bound on the people reserved for one day
  NoRow         \* no daily_schedules row for the day

CommandType ==
  [type : ScheduleTypes \cup {"unknown"},
   capacity : Int \cup {Omitted},
   event : SUBSET {"name", "description"},
   hours : Hours]

ASSUME SchedulesAssumption ==
  /\ Months \subseteq SUBSET Dates
  /\ Commands \subseteq CommandType
  /\ Visits \subseteq Minutes
  /\ Omitted \notin Int
  /\ MaxReserved \in Nat
  /\ NoRow \notin Rows

VARIABLES
  stored,    \* daily_schedules, by day
  reserved,  \* people with a pending or approved reservation, by day
  pc,        \* where each request is
  day,       \* the day an editor is about
  draft,     \* the row a PUT is about to store
  asked,     \* what a visitor wants to see, and of which days
  seen,      \* the effective schedules a visitor has read
  (* History variables: no action depends on them. *)
  created,   \* rows inserted so far, by day
  removed,   \* DELETEs answered 204 so far, by day
  touched    \* days that changed since a visitor's request began

editorVars == <<day, draft>>
visitorVars == <<asked, seen>>
vars == <<stored, reserved, pc, editorVars, visitorVars, created, removed, touched>>

Editors == Puts \cup Deletes
Requests == Editors \cup Visitors
OwnersViews == {"schedule", "schedules"}
NoQuestion == [view |-> "none", days |-> {}]
Views == OwnersViews \cup {"availability", "availabilities", "calendar"}

\* Sizes of a party that may book online, up to maxReservationPeople.
Parties == 1 .. 7

-----------------------------------------------------------------------------
(* PUT /admin/schedules/{date}: what is stored, or that it is refused. *)

\* validateScheduleTimes: only times that are set are compared.
InOrder(h) ==
  /\ h.open # Unset /\ h.last # Unset => h.open <= h.last
  /\ h.last # Unset /\ h.close # Unset => h.last <= h.close
  /\ h.open # Unset /\ h.close # Unset => h.open <= h.close

ForbidsEventText(type) == type \in {"normal", "morning", "closed"}

EventTextValid(type, event) ==
  /\ ForbidsEventText(type) => event = {}
  /\ type \in {"event", "external_event"} => "name" \in event

CapacityOf(c) == IF c.capacity = Omitted THEN 10 ELSE c.capacity

\* [Mutant of ValidCommand] a negative capacity goes through.
AnyCapacity(c) ==
  /\ c.type \in ScheduleTypes
  /\ EventTextValid(c.type, c.event)
  /\ InOrder(c.hours)

ValidCommand(c) ==
  /\ c.type \in ScheduleTypes
  /\ CapacityOf(c) >= 0
  /\ EventTextValid(c.type, c.event)
  /\ InOrder(c.hours)

StoredHours(d, c) ==
  LET h == ApplyDefaultBusinessHours(c.type, c.hours)
  IN  IF c.type = "event" THEN ApplyEventDefaultBusinessHours(d, h)
      ELSE IF IsHoliday(c) THEN NoHours ELSE h

RowOf(d, c) ==
  [type |-> c.type,
   capacity |-> IF c.type = "external_event" THEN 0 ELSE CapacityOf(c),
   event |-> c.event,
   hours |-> StoredHours(d, c)]

\* [Mutant of Storable] the hours are not checked again once filled in.
CheckedAsSent(d, c) == ValidCommand(c)

\* The hours are checked as sent and again when the missing ones are filled in.
Storable(d, c) == ValidCommand(c) /\ InOrder(StoredHours(d, c))

-----------------------------------------------------------------------------
(* What the queries return. *)

\* ResolveForDate; ResolveMonth gives the same for each day of the month.
Effective(d) ==
  IF stored[d] = NoRow
    THEN [schedule |-> DefaultSchedule(d), isDefault |-> TRUE]
    ELSE [schedule |-> stored[d], isDefault |-> FALSE]

EffectiveSchedules == [schedule : Rows, isDefault : BOOLEAN]

\* [Mutant of ReservedBetween] the range ends before its last day.
ReservedBefore(days) ==
  [d \in days |->
     IF (\E e \in days : d < e) \/ days = {d} THEN reserved[d] ELSE 0]

\* SumReservedPeopleByDate and ..ByDateRange: a day without rows counts 0.
ReservedBetween(days) == [d \in days |-> reserved[d]]

\* What the public is told of a day with effective schedule e when n people
\* are reserved; the calendar leaves out their number.
Answer(view, e, n) ==
  LET a == BuildAvailability(e.schedule, n)
  IN  IF view = "calendar"
        THEN [capacity |-> a.capacity, available |-> a.available,
              holiday |-> a.holiday]
        ELSE a

\* The answer v gives when it reads the sums now.
Shown(v) ==
  [d \in asked[v].days |->
     Answer(asked[v].view, seen[v][d], ReservedBetween(asked[v].days)[d])]

-----------------------------------------------------------------------------
Init ==
  /\ stored = [d \in Dates |-> NoRow]
  /\ reserved = [d \in Dates |-> 0]
  /\ pc = [q \in Requests |-> "new"]
  /\ day = [e \in Editors |-> NoRow]
  /\ draft = [e \in Editors |-> NoRow]
  /\ asked = [v \in Visitors |-> NoQuestion]
  /\ seen = [v \in Visitors |-> <<>>]
  /\ created = [d \in Dates |-> 0]
  /\ removed = [d \in Dates |-> 0]
  /\ touched = [v \in Visitors |-> {}]

Goto(q, state) == pc' = [pc EXCEPT ![q] = state]

\* The request ends and its local variables with it.
Leave(q, state) ==
  /\ Goto(q, state)
  /\ day' = [e \in Editors |-> IF e = q THEN NoRow ELSE day[e]]
  /\ draft' = [e \in Editors |-> IF e = q THEN NoRow ELSE draft[e]]
  /\ asked' = [v \in Visitors |-> IF v = q THEN NoQuestion ELSE asked[v]]
  /\ seen' = [v \in Visitors |-> IF v = q THEN <<>> ELSE seen[v]]

Touch(d) ==
  touched' = [v \in Visitors |->
                IF pc[v] \in {"reading", "summing"} THEN touched[v] \cup {d}
                ELSE {}]

\* Any answer but 200 and 204.
Refuse(q) ==
  /\ Leave(q, "refused")
  /\ UNCHANGED <<stored, reserved, created, removed, touched>>

-----------------------------------------------------------------------------
(* The owner changes a day. *)

\* SetScheduleUseCase.Execute up to the statement.
Draft(e, d, c) ==
  /\ Storable(d, c)
  /\ Goto(e, "upserting")
  /\ day' = [day EXCEPT ![e] = d]
  /\ draft' = [draft EXCEPT ![e] = RowOf(d, c)]
  /\ UNCHANGED <<stored, reserved, visitorVars, created, removed, touched>>

Put(e) ==
  /\ pc[e] = "new"
  /\ \E d \in Dates, c \in Commands :
       Draft(e, d, c) \/ (~Storable(d, c) /\ Refuse(e))

\* Upsert; the statement may be done and its answer lost.
Upsert(e) ==
  LET d == day[e]
  IN  /\ pc[e] = "upserting"
      /\ stored' = [stored EXCEPT ![d] = draft[e]]
      /\ created' =
           [created EXCEPT ![d] = @ + IF stored[d] = NoRow THEN 1 ELSE 0]
      /\ Leave(e, "done") \/ Leave(e, "refused")
      /\ Touch(d)
      /\ UNCHANGED <<reserved, removed>>

\* DeleteScheduleUseCase.Execute: FindByDate.
Find(e, d) ==
  /\ stored[d] # NoRow
  /\ Goto(e, "found")
  /\ day' = [day EXCEPT ![e] = d]
  /\ UNCHANGED <<stored, reserved, draft, visitorVars, created, removed, touched>>

Delete(e) ==
  /\ pc[e] = "new"
  /\ \E d \in Dates : Find(e, d) \/ (stored[d] = NoRow /\ Refuse(e))

\* [Mutant of DeleteRow] the number of deleted rows is not looked at.
DeleteAny(e) ==
  LET d == day[e]
  IN  /\ pc[e] = "found"
      /\ Leave(e, "done")
      /\ stored' = [stored EXCEPT ![d] = NoRow]
      /\ removed' = [removed EXCEPT ![d] = @ + 1]
      /\ Touch(d)
      /\ UNCHANGED <<reserved, created>>

\* DeleteByDate: the row may be gone since; its answer may be lost.
DeleteRow(e) ==
  LET d == day[e]
  IN  /\ pc[e] = "found"
      /\ \/ stored[d] = NoRow /\ Refuse(e)
         \/ /\ stored[d] # NoRow
            /\ stored' = [stored EXCEPT ![d] = NoRow]
            /\ Touch(d)
            /\ \/ Leave(e, "done") /\ removed' = [removed EXCEPT ![d] = @ + 1]
               \/ Leave(e, "refused") /\ UNCHANGED removed
            /\ UNCHANGED <<reserved, created>>

-----------------------------------------------------------------------------
(* Somebody looks at a day or at a month. *)

Begin(v, view, days) ==
  /\ Goto(v, "reading")
  /\ asked' = [asked EXCEPT ![v] = [view |-> view, days |-> days]]
  /\ UNCHANGED <<stored, reserved, editorVars, seen, created, removed, touched>>

\* handleGetByDate, handleList.
GetSchedule(v) == \E d \in Dates : Begin(v, "schedule", {d})

ListSchedules(v) == \E month \in Months : Begin(v, "schedules", month)

\* HandleAvailability: a date, or a year and a month, and not both.
GetAvailability(v) ==
  /\ pc[v] = "new"
  /\ \E date, yearMonth \in BOOLEAN :
       \/ /\ date /\ ~yearMonth
          /\ \E d \in Dates : Begin(v, "availability", {d})
       \/ /\ ~date /\ yearMonth
          /\ \E month \in Months : Begin(v, "availabilities", month)
       \/ (date <=> yearMonth) /\ Refuse(v)

\* HandlePublicSchedules.
PublicSchedules(v) ==
  pc[v] = "new" /\ \E month \in Months : Begin(v, "calendar", month)

\* ListStoredByYearMonth, and the default where it returns no row.
EffectiveRows(days) == [d \in days |-> Effective(d)]

\* The schedules are read; the owner's views need no more.
ReadSchedules(v) ==
  /\ pc[v] = "reading"
  /\ \/ /\ asked[v].view \in OwnersViews
        /\ Leave(v, "done")
        /\ touched' = [touched EXCEPT ![v] = {}]
     \/ /\ asked[v].view \notin OwnersViews
        /\ Goto(v, "summing")
        /\ seen' = [seen EXCEPT ![v] = EffectiveRows(asked[v].days)]
        /\ UNCHANGED <<editorVars, asked, touched>>
  /\ UNCHANGED <<stored, reserved, created, removed>>

\* The sums are read, and Shown(v) is the answer.
ReadReserved(v) ==
  /\ pc[v] = "summing"
  /\ Leave(v, "done")
  /\ touched' = [touched EXCEPT ![v] = {}]
  /\ UNCHANGED <<stored, reserved, created, removed>>

-----------------------------------------------------------------------------
\* HandleSchedules: what each path does with each method, or 404 and 405.
HandleSchedules(q, path) ==
  /\ pc[q] = "new"
  /\ \/ path = "schedules" /\ q \in Visitors /\ ListSchedules(q)
     \/ path = "schedules" /\ q \notin Visitors /\ Refuse(q)
     \/ path = "schedules/date" /\ q \in Visitors /\ GetSchedule(q)
     \/ path = "schedules/date" /\ q \in Puts /\ Put(q)
     \/ path = "schedules/date" /\ q \in Deletes /\ Delete(q)
     \/ path = "elsewhere" /\ Refuse(q)

\* A date, a query or a body in no form.
Malformed(q) == pc[q] = "new" /\ Refuse(q)

\* ResolveMonth and ResolveForDate look at the dates before they read.
OutOfRange(v) == pc[v] = "reading" /\ Refuse(v)

\* A statement fails.
Fail(q) ==
  /\ pc[q] \in {"new", "upserting", "found", "reading", "summing"}
  /\ Refuse(q)

\* Reservations come and go (module Reservations).
Reserve(d) ==
  /\ \E n \in 0 .. MaxReserved : reserved' = [reserved EXCEPT ![d] = n]
  /\ Touch(d)
  /\ UNCHANGED <<stored, pc, editorVars, visitorVars, created, removed>>

Next ==
  \/ \E q \in Requests : Malformed(q) \/ Fail(q)
  \/ \E q \in Requests, path \in {"schedules", "schedules/date", "elsewhere"} :
       HandleSchedules(q, path)
  \/ \E e \in Puts : Upsert(e)
  \/ \E e \in Deletes : DeleteRow(e)
  \/ \E v \in Visitors :
       \/ GetAvailability(v) \/ PublicSchedules(v)
       \/ OutOfRange(v) \/ ReadSchedules(v) \/ ReadReserved(v)
  \/ \E d \in Dates : Reserve(d)

Spec == Init /\ [][Next]_vars

-----------------------------------------------------------------------------
(* Properties. *)

States ==
  {"new", "upserting", "found", "reading", "summing", "done", "refused"}

(* Types.  A draft is there while a PUT is about to store it, a day while an *)
(* editor is at work on it.                                                  *)
TypeOK ==
  /\ stored \in [Dates -> Rows \cup {NoRow}]
  /\ reserved \in [Dates -> 0 .. MaxReserved]
  /\ pc \in [Requests -> States]
  /\ day \in [Editors -> Dates \cup {NoRow}]
  /\ draft \in [Editors -> Rows \cup {NoRow}]
  /\ \A e \in Editors :
       /\ pc[e] = "upserting" => draft[e] \in Rows
       /\ pc[e] \in {"upserting", "found"} => day[e] \in Dates
  /\ asked \in [Visitors -> [view : Views \cup {"none"}, days : SUBSET Dates]]
  /\ seen = [v \in Visitors |-> seen[v]]
  /\ \A v \in Visitors :
       pc[v] = "summing" => seen[v] \in [asked[v].days -> EffectiveSchedules]
  /\ created \in [Dates -> Nat]
  /\ removed \in [Dates -> Nat]
  /\ touched \in [Visitors -> SUBSET Dates]

SoundRow(r) ==
  /\ EventTextValid(r.type, r.event)
  /\ r.type = "external_event" => r.capacity = 0
  /\ IF IsHoliday(r)
       THEN r.hours = NoHours
       ELSE /\ Unset \notin {r.hours.open, r.hours.last, r.hours.close}
            /\ InOrder(r.hours)

(* Whatever the owner leaves out of a PUT, the row it stores is complete and *)
(* consistent: opening, last order and closing in this order on a day with   *)
(* meals and none on a day without, texts only where an event is shown and a *)
(* name wherever one is needed (SetScheduleUseCase.Execute checks the hours  *)
(* before and after it fills in the missing ones).                           *)
StoredSound == \A d \in Dates : stored[d] # NoRow => SoundRow(stored[d])

(* A row is deleted once: as many DELETEs as were answered 204 have each     *)
(* removed a row of their own, also when two sessions delete the same day    *)
(* after both have found the row (DeleteByDate counts the rows it removed).  *)
RowsAccounted ==
  \A d \in Dates :
    removed[d] + (IF stored[d] = NoRow THEN 0 ELSE 1) <= created[d]

(* The seats shown are made of two reads: the days, of a month or a single   *)
(* one, that nobody touched since the request began are shown as the rows in *)
(* force and the people reserved for that very day make them now             *)
(* (AvailabilityService.ResolveMonth, ResolveForDate).                       *)
AnswersCurrent ==
  \A v \in Visitors : pc[v] = "summing" =>
    \A d \in asked[v].days \ touched[v] :
      Shown(v)[d] = Answer(asked[v].view, Effective(d), reserved[d])

(* The number shown is what a booking is up against, although it is made of  *)
(* two reads and the owner's entries or a lowered capacity may be beyond the *)
(* limit: it is never negative, and a party is told that it fits if and only *)
(* if meals are served in the row that was read and the party and the people *)
(* reserved for that very day are within its capacity (buildAvailability).   *)
SeatsShown ==
  \A v \in Visitors : pc[v] = "summing" =>
    \A d \in asked[v].days :
      LET s == seen[v][d].schedule
      IN  /\ Shown(v)[d].available >= 0
          /\ \A people \in Parties :
               people <= Shown(v)[d].available
                 <=> ~IsHoliday(s) /\ reserved[d] + people <= s.capacity

(* A customer's visit starts within the hours of booking, whatever rows the  *)
(* owner has stored: not after the last order; not before 11:30 where the    *)
(* morning service takes no bookings, that is on days of morning service and *)
(* at events on Sundays, holidays among them; and except on days of morning  *)
(* service not before the doors open.  Their doors are not looked at: if the *)
(* owner opens them after 11:30, bookings start before (bookingOpenTime,     *)
(* validateVisitTimeForSchedule on the effective schedule).                  *)
VisitsServed ==
  \A d \in Dates, time \in Visits :
    LET s == Effective(d).schedule
    IN  AcceptsVisit(d, s, time) =>
          /\ time <= s.hours.last
          /\ s.type = "morning" => time >= NormalHours.open
          /\ s.type = "event" /\ IsSunday(d) => time >= NormalHours.open
          /\ s.type # "morning" => time >= s.hours.open
=============================================================================
