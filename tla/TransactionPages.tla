--------------------------- MODULE TransactionPages ---------------------------
(***************************************************************************)
(* The page of a transaction in the web client, for each of its parties:   *)
(* the buttons it offers for the state and the kind of the transaction,    *)
(* and whether it lists the transaction as archived.  The client keeps     *)
(* tables of its own, "in sync" with the server's by hand.                 *)
(***************************************************************************)
EXTENDS Transactions

Roles == {"owner", "requester"}
role(u, doc) == IF u = doc.owner THEN "owner" ELSE "requester"

\* what a party can do, or waits for, in each state
basicNextActions == [
    requested |-> [owner |-> "accept/decline",    requester |-> "waiting:accepted"],
    accepted  |-> [owner |-> "waiting:confirmed", requester |-> "confirm"],
    declined  |-> [owner |-> "null",              requester |-> "null"],
    confirmed |-> [owner |-> "null",              requester |-> "null"],
    cancelled |-> [owner |-> "null",              requester |-> "null"]]

nextActionsWithReturn ==
    [s \in States |->
        CASE s = "confirmed" -> [owner |-> "returned", requester |-> "waiting:returned"]
          [] s = "returned" -> [owner |-> "null", requester |-> "null"]
          [] OTHER -> basicNextActions[s]]

\* mutant: the return is forgotten
getBasicActionsList(name) == basicNextActions

getNextActionsList(name) ==
    IF name = "lending" THEN nextActionsWithReturn ELSE basicNextActions

findNextActions(doc, r) == getNextActionsList(doc.transaction)[doc.state][r]
isArchived(doc, r) == findNextActions(doc, r) = "null"

\* the states after which each party is offered to cancel
cancellableStates(doc, r) ==
    {s \in States : \/ s = "requested" /\ r = "requester"
                    \/ s = "accepted"
                    \/ s = "confirmed" /\ doc.transaction = "lending"}

\* the states that the buttons of the page ask for
buttons(doc, r) ==
    {s \in States :
        LET actions == findNextActions(doc, r) IN
        \/ s \in {"accepted", "declined"} /\ actions = "accept/decline"
        \/ s = "confirmed" /\ actions = "confirm"
        \/ s = "returned" /\ actions = "returned"
        \/ s = "cancelled" /\ doc.state \in cancellableStates(doc, r)}

-----------------------------------------------------------------------------
\* A page in sync with its transaction offers nothing that the server refuses to this
\* party, offers something to one of them as long as the server finds the transaction
\* active, and lists it as archived when it is not, whatever course the transaction
\* took (the comment "Keep in sync with server/models/attributes/transaction" of the
\* client's lib/transactions.js:1)
PagesFollowTheServer ==
    \A t \in Existing :
        LET doc == transactions[t] IN
        /\ \A u \in {doc.owner, doc.requester} : \A s \in buttons(doc, role(u, doc)) :
               hasRight(u, s, doc) /\ validatePossibleState(doc, s)
        /\ isActive(doc) <=> \E r \in Roles : buttons(doc, r) # {}
        /\ \A r \in Roles : isArchived(doc, r) <=> ~isActive(doc)

-----------------------------------------------------------------------------
(* What PagesFollowTheServer rests on, whatever the handlers: the two parties  *)
(* of a transaction have one role each, and only loans are returned            *)

\* nobody requests an item of their own
RequestersAreNotOwners ==
    /\ \A t \in Existing : transactions[t].owner # transactions[t].requester
    /\ \A r \in requesting : r.step # "itemIsBusy" => r.user # r.copy.owner

ReturnsAreOfLoans ==
    /\ \A t \in Existing :
          transactions[t].state = "returned" => transactions[t].transaction = "lending"
    /\ \A r \in updating :
          r.state = "returned" => transactions[r.transaction].transaction = "lending"

PagesInv == IInv /\ RequestersAreNotOwners /\ ReturnsAreOfLoans
=============================================================================
