----------------------------- MODULE MCEntities -----------------------------
(***************************************************************************)
(* Entities for TLC: the works of the local database are interchangeable,  *)
(* and so are the slots.                                                   *)
(***************************************************************************)
EXTENDS Entities

Symmetry == Permutations(Works) \cup Permutations(Slots)
=============================================================================
