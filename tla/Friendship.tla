------------------------------ MODULE Friendship ------------------------------
(***************************************************************************)
(* What friend relations promise: each user of a pair either wants the     *)
(* friendship or does not, a user only adds their own wish, and two users  *)
(* are friends exactly when both want it.  Either of them may end whatever *)
(* there is between them.                                                  *)
(***************************************************************************)
EXTENDS Integers

CONSTANT Users

VARIABLE wants        \* for each pair of users, those who want the friendship

Pairs == {p \in Users \X Users : p[1] < p[2]}
Members(p) == {p[1], p[2]}

TypeOK == wants \in [Pairs -> SUBSET Users]

Friends(p) == wants[p] = Members(p)

Init == wants = [p \in Pairs |-> {}]

Want(p, u) == wants' = [wants EXCEPT ![p] = @ \union {u}]
End(p) == wants' = [wants EXCEPT ![p] = {}]
\* an account that goes takes any of its relations with it
EndAll(ps) == wants' = [p \in Pairs |-> IF p \in ps THEN {} ELSE wants[p]]

Next ==
    \/ \E p \in Pairs : \E u \in Members(p) : Want(p, u)
    \/ \E p \in Pairs : End(p)
    \/ \E u \in Users : \E ps \in SUBSET {p \in Pairs : u \in Members(p)} : EndAll(ps)

Spec == Init /\ [][Next]_wants
=============================================================================
