------------------------------- MODULE Ownership -------------------------------
(***************************************************************************)
(* What the transactions promise of the books: each item has one owner,    *)
(* who only changes by an agreement on this very item between that owner   *)
(* and the next one.  An agreement, once both have given it, is never      *)
(* forgotten.                                                              *)
(***************************************************************************)
CONSTANTS
    Users,
    Items

VARIABLES
    owner,            \* of each item
    agreements        \* what a giver and a taker have both agreed to

Agreement == [item: Items, giver: Users, taker: Users]

Init ==
    /\ owner \in [Items -> Users]
    /\ agreements = {}

Agree(a) ==
    /\ agreements' = agreements \union {a}
    /\ UNCHANGED owner

HandOver(a) ==
    /\ owner[a.item] = a.giver
    /\ owner' = [owner EXCEPT ![a.item] = a.taker]
    /\ UNCHANGED agreements

Next ==
    \/ \E a \in Agreement : Agree(a)
    \/ \E a \in agreements : HandOver(a)

Spec == Init /\ [][Next]_<<owner, agreements>>
=============================================================================
