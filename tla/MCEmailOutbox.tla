---------------------------- MODULE MCEmailOutbox ----------------------------
(* Instances of EmailOutbox for TLC. *)
EXTENDS EmailOutbox, TLC

CONSTANT r1

MCOne == {<<r1, "received">>}
MCPair == {<<r1, "received">>, <<r1, "rejected">>}
MCRace == {<<r1, "received">>, <<r1, "approved">>, <<r1, "rejected">>}
MCBackoff == [n \in 1 .. MaxAttempts - 1 |-> n]
MCSymmetry == Permutations(Flushes)
=============================================================================
