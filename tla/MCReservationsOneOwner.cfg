\* One owner session, fixed schedules, two dates and an entry of the owner.
SPECIFICATION Spec
CONSTANTS
  r1 = r1  r2 = r2  r3 = r3  e1 = e1
  d1 = d1  d2 = d2  t1 = t1  t2 = t2  p1 = p1  p2 = p2
  WebRequests = {r1, r2}
  AdminEntries = {e1}
  Admins = {a1}
  Dates = {d1, d2}
  Times = {t1, t2}
  Phones = {p1, p2}
  MaxPeople = 2
  Schedules <- MCSchedules
  DefaultSchedule <- MCDefault
  NoSchedule = NoSchedule
  EditedDates = {}
  Nobody = Nobody
SYMMETRY MCSymmetry
INVARIANTS NoOverbooking DecisionMailTrue NoDoubleBooking
PROPERTIES StatusTable Booked
CHECK_DEADLOCK FALSE
