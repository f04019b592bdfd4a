\* Two customers racing for the meals of one date whose schedule changes
\* under them, and two owner sessions deciding the same reservations.
SPECIFICATION Spec
CONSTANTS
  r1 = r1  r2 = r2  r3 = r3  e1 = e1
  d1 = d1  d2 = d2  t1 = t1  t2 = t2  p1 = p1  p2 = p2
  WebRequests = {r1, r2}
  AdminEntries = {}
  Admins = {a1, a2}
  Dates = {d1}
  Times = {t1}
  Phones = {p1, p2}
  MaxPeople = 2
  Schedules <- MCSchedules
  DefaultSchedule <- MCDefault
  NoSchedule = NoSchedule
  EditedDates = {d1}
  Nobody = Nobody
SYMMETRY MCSymmetry
INVARIANTS TypeOK CapacityInv ReservationAnnounced SlotHeld HolderNeverWaits NoDoubleBooking
PROPERTIES AdmissionFits MailsInOrder Booked
CHECK_DEADLOCK FALSE
