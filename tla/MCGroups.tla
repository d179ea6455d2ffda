------------------------------- MODULE MCGroups -------------------------------
(* Groups for TLC: slots are interchangeable. *)
EXTENDS Groups, TLC

Symmetry == Permutations(Slots)

\* one membership per user, or two for one of them
OneEach == Users \X {1}
TwoForOne == OneEach \union {<<CHOOSE u \in Users : TRUE, 2>>}
=============================================================================
