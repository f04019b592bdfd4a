\* Three requests of any kind, two suppliers.
SPECIFICATION FairSpec
CONSTANTS
  Ids = {1, 2}
  Requests = {q1, q2, q3}
  Positions = {2}
  Lists <- MCLists
  NoRow = NoRow
  NoObject = NoObject
  Omitted = Omitted
  Nobody = Nobody
INVARIANTS TypeOK ImagesServed
PROPERTIES DeletedStays Rearranged RequestsEnd
CHECK_DEADLOCK FALSE
