--------------------------- MODULE MCReservations ---------------------------
(* Instances of Reservations for TLC. *)
EXTENDS Reservations, TLC

CONSTANTS r1, r2, r3, e1, d1, d2, t1, t2, p1, p2

Lunch(n) == [type |-> "normal", capacity |-> n, window |-> {t1}]
Event == [type |-> "external_event", capacity |-> 0, window |-> Times]
Closed == [type |-> "closed", capacity |-> 0, window |-> Times]

MCSchedules == {Lunch(1), Lunch(2), Event, Closed}
MCDefault == [d \in Dates |-> Lunch(2)]
MCSymmetry ==
  Permutations(WebRequests) \cup Permutations(Phones) \cup Permutations(Admins)
=============================================================================
