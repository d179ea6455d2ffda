----------------------------- MODULE MCRelations -----------------------------
(* Relations for TLC: users keep the order of their ids, slots are            *)
(* interchangeable.                                                           *)
EXTENDS Relations, TLC

Symmetry == Permutations(Slots)

Invited == {<<1, 2>>}
InvitedBoth == {<<1, 3>>, <<2, 3>>}
=============================================================================
