--------------------------- MODULE StoreCalendar ---------------------------
(***************************************************************************)
(* The restaurant's calendar: the schedule a day has by default, the hours *)
(* filled in when the owner leaves them out, what a schedule leaves to     *)
(* book, and when a visit may start.  No state.                            *)
(*                                                                         *)
(* A day is the number of days since some Sunday.  A time of day is its    *)
(* minute; Unset is datetime.Time's zero value, a NULL column.  Of the     *)
(* event's texts only their presence is kept.                              *)
(***************************************************************************)
EXTENDS Integers

CONSTANTS
  Dates,             \* the days in question
  NationalHolidays   \* holiday.Set: the days of the embedded list

ASSUME CalendarAssumption ==
  /\ Dates \subseteq Nat
  /\ NationalHolidays \subseteq Dates

Unset == -1
Minutes == 0 .. 1439

ScheduleTypes ==
  {"normal", "morning", "event", "external_event", "special_menu", "closed"}

Hours == [open : Minutes \cup {Unset},
          last : Minutes \cup {Unset},
          close : Minutes \cup {Unset}]

NoHours == [open |-> Unset, last |-> Unset, close |-> Unset]
NormalHours == [open |-> 690, last |-> 810, close |-> 900]
MorningHours == [open |-> 510, last |-> 810, close |-> 900]

\* event: which of the event's name and description are not empty.
Rows == [type : ScheduleTypes, capacity : Nat,
         event : SUBSET {"name", "description"}, hours : Hours]

\* No meals are served: closed, or the staff is at an event elsewhere.
IsHoliday(s) == s.type \in {"closed", "external_event"}

-----------------------------------------------------------------------------
IsSunday(d) == d % 7 = 0
IsThursdayOrFriday(d) == d % 7 \in {4, 5}

DefaultHours(type) ==
  CASE type \in {"normal", "special_menu"} -> NormalHours
    [] type = "morning" -> MorningHours
    [] OTHER -> NoHours

OrElse(time, default) == IF time = Unset THEN default ELSE time

FillHours(h, default) ==
  [open |-> OrElse(h.open, default.open),
   last |-> OrElse(h.last, default.last),
   close |-> OrElse(h.close, default.close)]

ApplyDefaultBusinessHours(type, h) == FillHours(h, DefaultHours(type))

EventHoursType(d) ==
  IF IsSunday(d) /\ d \notin NationalHolidays THEN "morning" ELSE "normal"

ApplyEventDefaultBusinessHours(d, h) ==
  ApplyDefaultBusinessHours(EventHoursType(d), h)

WeekdayType(d) ==
  CASE IsThursdayOrFriday(d) -> "closed"
    [] IsSunday(d) -> "morning"
    [] OTHER -> "normal"

\* National holidays come first: a holiday Sunday has no morning service.
DefaultType(d) == IF d \in NationalHolidays THEN "normal" ELSE WeekdayType(d)

DefaultSchedule(d) ==
  [type |-> DefaultType(d),
   capacity |-> IF DefaultType(d) = "closed" THEN 0 ELSE 10,
   event |-> {},
   hours |-> ApplyDefaultBusinessHours(DefaultType(d), NoHours)]

-----------------------------------------------------------------------------
(* What a schedule leaves to book. *)

\* [Mutant of BuildAvailability] the rest of the capacity may be negative.
Unclamped(s, n) ==
  [capacity |-> s.capacity, reserved |-> n,
   available |-> IF IsHoliday(s) THEN 0 ELSE s.capacity - n,
   holiday |-> IsHoliday(s)]

\* buildAvailability, for n people with a pending or approved reservation.
BuildAvailability(s, n) ==
  IF IsHoliday(s)
    THEN [capacity |-> 0, reserved |-> 0, available |-> 0, holiday |-> TRUE]
    ELSE [capacity |-> s.capacity, reserved |-> n,
          available |-> IF s.capacity < n THEN 0 ELSE s.capacity - n,
          holiday |-> FALSE]

\* BookingWindowMinutes fills the hours of the row once more.
BookingHours(d, s) ==
  IF s.type = "event" THEN ApplyEventDefaultBusinessHours(d, s.hours)
  ELSE ApplyDefaultBusinessHours(s.type, s.hours)

\* [Mutant of BookingOpen] events on Sundays take bookings from the doors' opening.
EventsFromDoors(d, s, open) ==
  IF s.type = "morning" THEN NormalHours.open ELSE open

\* bookingOpenTime: in the morning service of a Sunday nobody books a table.
BookingOpen(d, s, open) ==
  IF \/ s.type = "morning"
     \/ s.type = "event" /\ IsSunday(d) /\ open < NormalHours.open
  THEN NormalHours.open
  ELSE open

HasBookingWindow(d, s) ==
  /\ ~IsHoliday(s)
  /\ BookingHours(d, s).open # Unset
  /\ BookingHours(d, s).last # Unset

\* validateVisitTimeForSchedule, and the refusal of closed days around it:
\* a day that is open and has no window takes any time.
AcceptsVisit(d, s, time) ==
  /\ ~IsHoliday(s)
  /\ HasBookingWindow(d, s) =>
       /\ BookingOpen(d, s, BookingHours(d, s).open) <= time
       /\ time <= BookingHours(d, s).last
=============================================================================
