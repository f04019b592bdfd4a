\* Two PUTs, two DELETEs and a visitor, an ordinary Sunday and a holiday Thursday.
SPECIFICATION Spec
CONSTANTS
  p1 = p1  p2 = p2  x1 = x1  x2 = x2  v1 = v1
  Dates = {4, 7}
  NationalHolidays = {4}
  Puts = {p1, p2}
  Deletes = {x1, x2}
  Visitors = {v1}
  Months <- MCMonths
  Commands <- MCCommands
  Visits <- MCVisits
  Omitted = Omitted
  MaxReserved = 1
  NoRow = NoRow
SYMMETRY MCInterchangeable
INVARIANTS TypeOK StoredSound RowsAccounted AnswersCurrent SeatsShown VisitsServed
CHECK_DEADLOCK FALSE
