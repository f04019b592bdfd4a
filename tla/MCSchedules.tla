---------------------------- MODULE MCSchedules ----------------------------
(* Instances of Schedules for TLC. *)
EXTENDS Schedules, TLC

CONSTANTS p1, p2, x1, x2, v1

Ask(type, capacity, event, open, last, close) ==
  [type |-> type, capacity |-> capacity, event |-> event,
   hours |-> [open |-> open, last |-> last, close |-> close]]

\* Accepted and refused, with and without hours; the second is refused only
\* when its last order has been filled in, and so is the last on most days.
MCCommands ==
  {Ask("normal", 1, {}, Unset, Unset, Unset),
   Ask("normal", 1, {}, 840, Unset, Unset),
   Ask("normal", Omitted, {"name"}, Unset, Unset, Unset),
   Ask("morning", Omitted, {}, 720, Unset, Unset),
   Ask("special_menu", 0, {"description"}, Unset, 720, Unset),
   Ask("special_menu", -1, {}, Unset, Unset, Unset),
   Ask("closed", 1, {}, 690, 810, 900),
   Ask("external_event", 1, {"name"}, 690, Unset, Unset),
   Ask("event", 1, {}, Unset, Unset, Unset),
   Ask("event", 1, {"name"}, Unset, Unset, 840),
   Ask("event", 1, {"name"}, Unset, 600, Unset),
   Ask("unknown", 1, {}, Unset, Unset, Unset)}

MCVisits == {510, 600, 690, 720, 810, 840}
MCMonths == {Dates}
MCInterchangeable == Permutations(Puts) \cup Permutations(Deletes)
=============================================================================
