CONSTANTS
  Users = {u1}
  Tokens = {t1, t2, t3}
  Requests = {r1, r2, r3}
  NoUser = NoUser
  NoToken = NoToken
SYMMETRY Interchangeable
SPECIFICATION Spec
INVARIANTS
  TypeOK
  SessionsInv
PROPERTIES
  SessionsEnd
  EndedStays
