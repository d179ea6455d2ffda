---------------------------- MODULE Transactions ----------------------------
(***************************************************************************)
(* Book transactions between users: one user requests an item of another,  *)
(* the owner accepts or declines, the requester confirms reception, and a  *)
(* lent item is returned.  Confirming a one-way transaction (giving,       *)
(* selling) moves the item to the requester's inventory, in a listener     *)
(* that the server does not wait for.                                      *)
(*                                                                         *)
(* The state is what CouchDB holds: the item documents and the transaction *)
(* documents.  An HTTP handler runs in steps separated by its awaits; what *)
(* it carries from one step to the next is a record in one of the sets     *)
(* requesting, updating, transferring and writing, so that any other       *)
(* handler may run in between.  db.update (read, apply, write, and again   *)
(* on a conflict) is one atomic step; put and post write a document    *)
(* only when nothing changed it since it was read (its rev).               *)
(*                                                                         *)
(* Left out: timestamps, the snapshot of names and pictures, messages and  *)
(* the flags of who has read them, emails.                                 *)
(***************************************************************************)
EXTENDS Naturals, Sequences, FiniteSets

CONSTANTS
    Users,
    Items,
    TransactionIds,   \* the documents that may be created in a behaviour
    Slots,            \* handlers that may be in flight at the same time
    Offers,           \* what an owner may do with an item: transactions ...
    Audiences,        \* ... and listings tried
    MaxRev,           \* bound on the revision users' edits of an item reach
    CanCrash          \* whether the server process may stop and restart

ASSUME MaxRevAssumption == MaxRev \in Nat
ASSUME InputAssumption ==
    /\ Offers \subseteq {"giving", "lending", "selling", "inventorying"}
    /\ Audiences \subseteq {"private", "network", "public"}

VARIABLES
    items,            \* the items database
    transactions,     \* the transactions database
    requesting,       \* requests of an item in flight
    updating,         \* updates of a transaction's state in flight
    transferring,     \* changes of owner about to read the item
    writing           \* item documents read, changed and about to be written

vars == <<items, transactions, requesting, updating, transferring, writing>>

-----------------------------------------------------------------------------
(* The documents *)

requestable == {"giving", "lending", "selling"}
ItemTransactions == requestable \union {"inventorying"}
Listings == {"private", "network", "public"}

HistoryEntry == [transaction: TransactionIds, previousOwner: Users]
ItemDoc == [owner: Users, transaction: ItemTransactions, listing: Listings,
            history: Seq(HistoryEntry), rev: Nat, deleted: BOOLEAN]

\* models/attributes/transaction.js: the states that may follow each state,
\* and the party who takes the transaction to a state
next == [requested |-> {"accepted", "declined", "cancelled"},
         accepted  |-> {"confirmed", "cancelled"},
         declined  |-> {},
         confirmed |-> {"returned", "cancelled"},
         returned  |-> {},
         cancelled |-> {}]
States == {"requested", "accepted", "declined", "confirmed", "returned", "cancelled"}
\* a requested state is never asked for: it has no predecessor
actor == [requested |-> "requester", accepted  |-> "owner", declined  |-> "owner",
          confirmed |-> "requester", returned  |-> "owner", cancelled |-> "both"]

TransactionDoc == [item: Items, owner: Users, requester: Users,
                   transaction: requestable, state: States, actions: Seq(States)]
Missing == [state |-> "missing"]

Existing == {t \in TransactionIds : transactions[t] # Missing}
Last(s) == s[Len(s)]

isOneWay(doc) == doc.transaction \in {"giving", "selling"}
\* the basic next actions, and those with a return
isActive(doc) ==
    \/ doc.state \in {"requested", "accepted"}
    \/ doc.state = "confirmed" /\ doc.transaction = "lending"

\* mutant: every confirmed transaction holds its item, given ones too
holdsItemOnceConfirmed(doc) == Last(doc.actions) \in {"accepted", "confirmed"}

\* the view byBusyItem, built from the last action and not from the state
holdsItem(doc) ==
    \/ Last(doc.actions) = "accepted"
    \/ Last(doc.actions) = "confirmed" /\ doc.transaction = "lending"
busyHolders(i) == {t \in Existing : transactions[t].item = i /\ holdsItem(transactions[t])}
itemIsBusy(i) == busyHolders(i) # {}

\* mutant: a transaction is only found from its owner
byOwnerAndItem(u, i) ==
    {t \in Existing : transactions[t].item = i /\ u = transactions[t].owner}

\* the view byUserAndItem: a transaction is found from both its parties
byUserAndItem(u, i) ==
    {t \in Existing : /\ transactions[t].item = i
                      /\ u \in {transactions[t].owner, transactions[t].requester}}

-----------------------------------------------------------------------------
(* The handlers in flight *)

ItemCopy == [owner: Users, transaction: ItemTransactions, listing: Listings]
Requesting == [id: Slots, user: Users, item: Items, copy: ItemCopy,
               step: {"itemIsBusy", "noExisting", "create"}]
Updating == [id: Slots, user: Users, transaction: TransactionIds,
             state: States \ {"requested"}, step: {"checkBusy", "update"}]
Transferring == [id: Slots, transaction: TransactionIds]
Writing == [id: Slots, item: Items, doc: ItemDoc]

Free(id) ==
    /\ \A r \in requesting : r.id # id
    /\ \A r \in updating : r.id # id
    /\ \A r \in transferring : r.id # id
    /\ \A r \in writing : r.id # id

TypeOK ==
    /\ items \in [Items -> ItemDoc]
    /\ transactions \in [TransactionIds -> TransactionDoc \union {Missing}]
    /\ requesting \subseteq Requesting
    /\ updating \subseteq Updating
    /\ transferring \subseteq Transferring
    /\ writing \subseteq Writing

Init ==
    /\ items \in [Items -> [owner: Users, transaction: Offers,
                            listing: Audiences, history: {<<>>}, rev: {1},
                            deleted: {FALSE}]]
    /\ transactions = [t \in TransactionIds |-> Missing]
    /\ requesting = {}
    /\ updating = {}
    /\ transferring = {}
    /\ writing = {}

-----------------------------------------------------------------------------
(* POST /api/transactions?action=request *)

itemCopy(doc) ==
    [owner |-> doc.owner, transaction |-> doc.transaction, listing |-> doc.listing]

\* the item is read once, and this copy is used until the transaction is created
RequestItem(id, u, i) ==
    /\ Free(id)
    /\ ~items[i].deleted
    /\ Cardinality(Existing) + Cardinality(requesting) < Cardinality(TransactionIds)
    /\ requesting' = requesting \union
           {[id |-> id, user |-> u, item |-> i, copy |-> itemCopy(items[i]),
             step |-> "itemIsBusy"]}
    /\ UNCHANGED <<items, transactions, updating, transferring, writing>>

\* interactions_.verifyRightToInteract, owner not allowed: on a network item it
\* returns a promise that the caller does not wait for, so that its rejection
\* stops nothing
mayInteract(u, doc) == u # doc.owner /\ doc.listing \in {"public", "network"}

Proceed(r, condition, nextStep) ==
    requesting' = (requesting \ {r}) \union
                  (IF condition THEN {[r EXCEPT !.step = nextStep]} ELSE {})

VerifyRightToRequest(r) ==
    /\ r.step = "itemIsBusy"
    /\ Proceed(r, ~itemIsBusy(r.item) /\ mayInteract(r.user, r.copy), "noExisting")
    /\ UNCHANGED <<items, transactions, updating, transferring, writing>>

VerifyNoExistingTransaction(r) ==
    /\ r.step = "noExisting"
    /\ Proceed(r, \A t \in byUserAndItem(r.user, r.item) : ~isActive(transactions[t]),
               "create")
    /\ UNCHANGED <<items, transactions, updating, transferring, writing>>

newTransaction(r) ==
    [item |-> r.item, owner |-> r.copy.owner, requester |-> r.user,
     transaction |-> r.copy.transaction, state |-> "requested",
     actions |-> <<"requested">>]

\* mutant: whatever the owner does with the item, it can be requested
CreateAnyTransaction(r, t) ==
    /\ r.step = "create"
    /\ transactions[t] = Missing
    /\ transactions' = [transactions EXCEPT ![t] = newTransaction(r)]
    /\ requesting' = requesting \ {r}
    /\ UNCHANGED <<items, updating, transferring, writing>>

CreateTransaction(r, t) ==
    /\ r.step = "create"
    /\ r.copy.transaction \in requestable
    /\ transactions[t] = Missing
    /\ transactions' = [transactions EXCEPT ![t] = newTransaction(r)]
    /\ requesting' = requesting \ {r}
    /\ UNCHANGED <<items, updating, transferring, writing>>

RejectNotRequestable(r) ==
    /\ r.step = "create"
    /\ r.copy.transaction \notin requestable
    /\ requesting' = requesting \ {r}
    /\ UNCHANGED <<items, transactions, updating, transferring, writing>>

-----------------------------------------------------------------------------
(* PUT /api/transactions?action=update-state *)

hasRight(u, state, doc) ==
    CASE actor[state] = "owner" -> u = doc.owner
      [] actor[state] = "requester" -> u = doc.requester
      [] actor[state] = "both" -> u \in {doc.owner, doc.requester}

\* mutant: any state can be cancelled
validateOrCancel(doc, state) ==
    /\ state \in next[doc.state] \union {"cancelled"}
    /\ state = "returned" => doc.transaction = "lending"

validatePossibleState(doc, state) ==
    /\ state \in next[doc.state]
    /\ state = "returned" => doc.transaction = "lending"

\* The transaction is read, and both validations apply to this copy: they are
\* not repeated by the update.  Accepting waits for the busy check in between.
StartUpdateState(id, u, t, state) ==
    /\ Free(id)
    /\ t \in Existing
    /\ hasRight(u, state, transactions[t])
    /\ validatePossibleState(transactions[t], state)
    /\ updating' = updating \union
           {[id |-> id, user |-> u, transaction |-> t, state |-> state,
             step |-> IF state = "accepted" THEN "checkBusy" ELSE "update"]}
    /\ UNCHANGED <<items, transactions, requesting, transferring, writing>>

\* mutant: nothing is checked when accepting
AcceptWithoutCheck(r) ==
    /\ r.step = "checkBusy"
    /\ updating' = (updating \ {r}) \union {[r EXCEPT !.step = "update"]}
    /\ UNCHANGED <<items, transactions, requesting, transferring, writing>>

CheckForConcurrentTransactions(r) ==
    /\ r.step = "checkBusy"
    /\ updating' = (updating \ {r}) \union
           (IF itemIsBusy(transactions[r.transaction].item) THEN {}
            ELSE {[r EXCEPT !.step = "update"]})
    /\ UNCHANGED <<items, transactions, requesting, transferring, writing>>

stateUpdater(doc, state) ==
    [doc EXCEPT !.state = state, !.actions = Append(@, state)]

\* mutant: the item moves as soon as the owner accepts
sideEffectsOnceAccepted(r, doc) ==
    IF r.state \in {"accepted", "confirmed"} /\ isOneWay(doc)
    THEN {[id |-> r.id, transaction |-> r.transaction]}
    ELSE {}

\* what the listener of 'transaction:update' starts
sideEffects(r, doc) ==
    IF r.state = "confirmed" /\ isOneWay(doc)
    THEN {[id |-> r.id, transaction |-> r.transaction]}
    ELSE {}

UpdateState(r) ==
    LET t == r.transaction IN
    /\ r.step = "update"
    /\ transactions' = [transactions EXCEPT ![t] = stateUpdater(@, r.state)]
    /\ updating' = updating \ {r}
    /\ transferring' = transferring \union sideEffects(r, transactions[t])
    /\ UNCHANGED <<items, requesting, writing>>

\* A user's account is deleted: the transactions read as active are all
\* cancelled, each by an update of its own
CancelAllActiveTransactions(id, u) ==
    LET active == {t \in Existing : /\ u \in {transactions[t].owner, transactions[t].requester}
                                    /\ isActive(transactions[t])}
    IN  /\ Free(id)
        /\ active # {}
        /\ updating' = updating \union
               {[id |-> id, user |-> u, transaction |-> t, state |-> "cancelled",
                 step |-> "update"] : t \in active}
        /\ UNCHANGED <<items, transactions, requesting, transferring, writing>>

-----------------------------------------------------------------------------
(* items_.changeOwner, started by a confirmed one-way transaction *)

changeOwner(doc, t, transac) ==
    [doc EXCEPT !.owner = transac.requester,
                !.transaction = "inventorying",
                !.listing = "private",
                !.history = Append(@, [transaction |-> t, previousOwner |-> transac.owner])]

\* mutant: the item's owner is not compared with the transaction's
ChangeAnyOwner(r) ==
    LET transac == transactions[r.transaction]
        doc == items[transac.item]
    IN  /\ transferring' = transferring \ {r}
        /\ writing' = writing \union
               {[id |-> r.id, item |-> transac.item,
                 doc |-> changeOwner(doc, r.transaction, transac)]}
        /\ UNCHANGED <<items, transactions, requesting, updating>>

\* the item is read and its owner compared with the transaction's
ChangeOwner(r) ==
    LET transac == transactions[r.transaction]
        doc == items[transac.item]
    IN  /\ transferring' = transferring \ {r}
        /\ writing' = writing \union
               (IF ~doc.deleted /\ doc.owner = transac.owner
                THEN {[id |-> r.id, item |-> transac.item,
                       doc |-> changeOwner(doc, r.transaction, transac)]}
                ELSE {})
        /\ UNCHANGED <<items, transactions, requesting, updating>>

-----------------------------------------------------------------------------
(* The owner's own operations on an item *)

\* what an owner's handler holds once the item is read and its owner verified
ReadOwnItem(id, u, i, doc) ==
    /\ Free(id)
    /\ ~items[i].deleted
    /\ items[i].rev < MaxRev
    /\ items[i].owner = u
    /\ writing' = writing \union {[id |-> id, item |-> i, doc |-> doc]}
    /\ UNCHANGED <<items, transactions, requesting, updating, transferring>>

\* items_.update, bulkUpdate and updateShelves: other attributes than these
\* two only make a new revision
UpdateItem(id, u, i, tr, l) ==
    ReadOwnItem(id, u, i, [items[i] EXCEPT !.transaction = tr, !.listing = l])

DeleteItem(id, u, i) == ReadOwnItem(id, u, i, [items[i] EXCEPT !.deleted = TRUE])

\* mutant: the last write wins
WriteAnyItem(r) ==
    /\ items' = [items EXCEPT ![r.item] = [r.doc EXCEPT !.rev = @ + 1]]
    /\ writing' = writing \ {r}
    /\ UNCHANGED <<transactions, requesting, updating, transferring>>

\* The write that ends a change of owner, an update or a deletion.  CouchDB
\* takes a document whose rev is the current one, and answers with a conflict
\* otherwise: the handler fails, and nobody retries.
WriteItem(r) ==
    /\ items' = IF r.doc.rev = items[r.item].rev
                THEN [items EXCEPT ![r.item] = [r.doc EXCEPT !.rev = @ + 1]]
                ELSE items
    /\ writing' = writing \ {r}
    /\ UNCHANGED <<transactions, requesting, updating, transferring>>

-----------------------------------------------------------------------------
\* The process stops: what was in flight is lost, the databases stay
Crash ==
    /\ CanCrash
    /\ ~ \A id \in Slots : Free(id)
    /\ requesting' = {}
    /\ updating' = {}
    /\ transferring' = {}
    /\ writing' = {}
    /\ UNCHANGED <<items, transactions>>

RequestNext ==
    \/ \E id \in Slots, u \in Users, i \in Items : RequestItem(id, u, i)
    \/ \E r \in requesting :
           \/ VerifyRightToRequest(r)
           \/ VerifyNoExistingTransaction(r)
           \/ \E t \in TransactionIds : CreateTransaction(r, t)
           \/ RejectNotRequestable(r)

UpdateNext ==
    \/ \E id \in Slots, u \in Users, t \in TransactionIds, s \in States \ {"requested"} :
           StartUpdateState(id, u, t, s)
    \/ \E r \in updating : CheckForConcurrentTransactions(r) \/ UpdateState(r)
    \/ \E id \in Slots, u \in Users : CancelAllActiveTransactions(id, u)

ItemNext ==
    \/ \E r \in transferring : ChangeOwner(r)
    \/ \E id \in Slots, u \in Users, i \in Items :
           \/ \E tr \in Offers, l \in Audiences : UpdateItem(id, u, i, tr, l)
           \/ DeleteItem(id, u, i)
    \/ \E r \in writing : WriteItem(r)

Next == RequestNext \/ UpdateNext \/ ItemNext \/ Crash

Spec == Init /\ [][Next]_vars

-----------------------------------------------------------------------------
(* What holds however the handlers interleave *)

Did(t, state) == \E n \in 1..Len(transactions[t].actions) : transactions[t].actions[n] = state

\* what justifies that transaction t moved item i
Consented(i, t) ==
    /\ t \in Existing
    /\ transactions[t].item = i
    /\ isOneWay(transactions[t])
    /\ Did(t, "accepted")
    /\ Did(t, "confirmed")

\* An item only ever moved by a giving or selling transaction on this very
\* item, which its owner accepted and its requester confirmed: neither an update
\* of the item nor another transaction's race moves it (side_effects.js:17-23)
MovedByConsent ==
    \A i \in Items : \A k \in 1..Len(items[i].history) :
        Consented(i, items[i].history[k].transaction)

\* the owner after the k-th move of a document
ownerAfter(doc, k) ==
    IF k = Len(doc.history) THEN doc.owner ELSE doc.history[k + 1].previousOwner

Chained(doc) ==
    \A k \in 1..Len(doc.history) :
        LET t == doc.history[k].transaction IN
        /\ t \in Existing
        /\ doc.history[k].previousOwner = transactions[t].owner
        /\ ownerAfter(doc, k) = transactions[t].requester

\* The history is the chain of the item's owners: each move starts from the
\* user the previous one gave the item to, and the last one gave it to its
\* present owner.  A change of owner applied to an item that its transaction's
\* owner no longer has would break it (models/item.js:67-96, items.js:133-138)
OwnershipChain == \A i \in Items : Chained(items[i])

\* A move is never undone nor forgotten: no write loses an entry of the history
HistoryOnlyGrows ==
    [][\A i \in Items : \A k \in 1..Len(items[i].history) :
           /\ k <= Len(items'[i].history)
           /\ items'[i].history[k] = items[i].history[k]]_items

\* The view byBusyItem reads the last action and isActive reads the state and
\* the next actions: whatever holds an item is active, so that its parties still
\* have an action that frees it (and an account's deletion cancels it)
HoldersAreActive ==
    \A t \in Existing : holdsItem(transactions[t]) => isActive(transactions[t])

-----------------------------------------------------------------------------
(* The promise of Ownership, which these handlers keep                         *)

\* both parties took their part in a transaction that gives the item
agreements ==
    {[item |-> transactions[t].item, giver |-> transactions[t].owner,
      taker |-> transactions[t].requester] :
        t \in {u \in Existing : Consented(transactions[u].item, u)}}

Promise == INSTANCE Ownership WITH owner <- [i \in Items |-> items[i].owner]

\* However requests, updates, edits and restarts interleave, an item only goes from
\* its present owner to the taker of an agreement between the two: a transfer
\* computed from an item that has gone elsewhere since, or whose document was
\* changed, is not written (items.js:133-138, models/item.js:67-96)
ImplementsOwnership == Promise!Spec

-----------------------------------------------------------------------------
(* What the checks of the handlers are meant to ensure: it holds as long as no *)
(* two handlers overlap (a single slot), and not otherwise                     *)

\* An item is promised or lent to one requester at a time (update_state.js:41-51)
AtMostOneHolder ==
    \A i \in Items : \A t, u \in busyHolders(i) : t = u

\* Every action of a transaction is one that the previous action allows
\* (models/transaction.js:51-59)
LegalActions ==
    \A t \in Existing : \A n \in 1..(Len(transactions[t].actions) - 1) :
        transactions[t].actions[n + 1] \in next[transactions[t].actions[n]]

\* A user has at most one active request on an item (rights_verification.js:9-21)
OneActiveRequestPerUser ==
    \A t, u \in Existing :
        (/\ t # u
         /\ isActive(transactions[t])
         /\ isActive(transactions[u])
         /\ transactions[t].item = transactions[u].item)
        => transactions[t].requester # transactions[u].requester

\* Once a one-way transaction is confirmed and no handler is at work on it, the
\* item has moved (or is deleted): the test 'should be false when the
\* transaction is confirmed and change owner' of update-state.test.js
ConfirmedHasMoved ==
    \A t \in Existing :
        (/\ transactions[t].state = "confirmed"
         /\ isOneWay(transactions[t])
         /\ ~items[transactions[t].item].deleted
         /\ transferring = {}
         /\ writing = {})
        => \E k \in 1..Len(items[transactions[t].item].history) :
               items[transactions[t].item].history[k].transaction = t

-----------------------------------------------------------------------------
(* The inductive invariant behind MovedByConsent, OwnershipChain and           *)
(* HoldersAreActive: what is in flight is as justified as what is written      *)

LastActionIsState ==
    \A t \in Existing : /\ Len(transactions[t].actions) > 0
                        /\ Last(transactions[t].actions) = transactions[t].state

UpdatesAreGrounded ==
    \A r \in updating : /\ r.transaction \in Existing
                        /\ r.state = "confirmed" => Did(r.transaction, "accepted")

TransfersAreConsented ==
    \A r \in transferring : /\ r.transaction \in Existing
                            /\ Consented(transactions[r.transaction].item, r.transaction)

WritesAreJustified ==
    \A r \in writing :
        /\ Chained(r.doc)
        /\ \A k \in 1..Len(r.doc.history) : Consented(r.item, r.doc.history[k].transaction)

\* a copy that may still be written has the history of the document it was read from
FreshWritesExtend ==
    \A r \in writing :
        /\ r.doc.rev <= items[r.item].rev
        /\ r.doc.rev = items[r.item].rev =>
               \A k \in 1..Len(items[r.item].history) :
                   /\ k <= Len(r.doc.history)
                   /\ r.doc.history[k] = items[r.item].history[k]

\* a copy that may still be written keeps the owner, or gives the item to the taker
\* of an agreement with the present one
FreshWritesKeepOrMove ==
    \A r \in writing :
        r.doc.rev = items[r.item].rev =>
            \/ r.doc.owner = items[r.item].owner
            \/ [item |-> r.item, giver |-> items[r.item].owner, taker |-> r.doc.owner]
                   \in agreements

\* Whatever is written or in flight: of its type, grounded in the transactions'
\* actions, and chaining the owners (all the handlers of this module)
IInv ==
    /\ TypeOK
    /\ LastActionIsState
    /\ UpdatesAreGrounded
    /\ TransfersAreConsented
    /\ WritesAreJustified
    /\ FreshWritesExtend
    /\ MovedByConsent
    /\ OwnershipChain
=============================================================================
