---------------------------- MODULE MCSuppliers ----------------------------
(* Instances of Suppliers for TLC. *)
EXTENDS Suppliers

\* Complete, partial, with an id nobody has yet, refused.
MCLists == {<<1, 2>>, <<2, 1>>, <<2>>, <<2, 3>>, <<1, 1>>, <<>>}
=============================================================================
