------------------------- MODULE TransactionsProofs -------------------------
(***************************************************************************)
(* Type correctness of Transactions, and its two invariants on the moves   *)
(* of items, for every set of users, items and transactions, any number of *)
(* handlers in flight and any number of restarts; then what only holds of  *)
(* handlers that do not overlap, and needs no two checks to race.          *)
(***************************************************************************)
EXTENDS TransactionPages, TLAPS

\* A document appended an element of its type is still of its type
LEMMA AppendType ==
    ASSUME NEW S, NEW s \in Seq(S), NEW e \in S
    PROVE  /\ Append(s, e) \in Seq(S)
           /\ Len(Append(s, e)) = Len(s) + 1
           /\ \A n \in 1..Len(s) : Append(s, e)[n] = s[n]
           /\ Append(s, e)[Len(s) + 1] = e
  OBVIOUS

\* An existing transaction is a whole document
LEMMA ExistingDoc ==
    ASSUME TypeOK, NEW t \in Existing
    PROVE  t \in TransactionIds /\ transactions[t] \in TransactionDoc
  BY DEF TypeOK, Existing

\* A created document is not the missing one
LEMMA DocIsNotMissing ==
    ASSUME NEW d \in TransactionDoc
    PROVE  d # Missing
  BY DEF TransactionDoc, Missing, States

\* What was done on a transaction stays done, and its parties, item and kind
\* stay the same, when documents are kept or extended
Extended(t) ==
    /\ t \in Existing'
    /\ transactions'[t].item = transactions[t].item
    /\ transactions'[t].owner = transactions[t].owner
    /\ transactions'[t].requester = transactions[t].requester
    /\ transactions'[t].transaction = transactions[t].transaction
    /\ \A s \in States : Did(t, s) => Did(t, s)'

-----------------------------------------------------------------------------
(* Type correctness *)

\* The types hold at every step of every handler, given that the transactions
\* that handlers are about to update exist
LEMMA TypeStep ==
    TypeOK /\ UpdatesAreGrounded /\ TransfersAreConsented /\ [Next]_vars => TypeOK'
<1> SUFFICES ASSUME TypeOK, UpdatesAreGrounded, TransfersAreConsented, [Next]_vars
             PROVE  TypeOK'
  OBVIOUS
<1> USE DEF TypeOK
<1>1. ASSUME NEW id \in Slots, NEW u \in Users, NEW i \in Items, RequestItem(id, u, i)
      PROVE  TypeOK'
  BY <1>1 DEF RequestItem, itemCopy, Requesting, ItemCopy, ItemDoc
<1>2. ASSUME NEW r \in requesting, VerifyRightToRequest(r)
      PROVE  TypeOK'
  BY <1>2 DEF VerifyRightToRequest, Proceed, Requesting
<1>3. ASSUME NEW r \in requesting, VerifyNoExistingTransaction(r)
      PROVE  TypeOK'
  BY <1>3 DEF VerifyNoExistingTransaction, Proceed, Requesting
<1>4. ASSUME NEW r \in requesting, NEW t \in TransactionIds, CreateTransaction(r, t)
      PROVE  TypeOK'
  <2>1. r.item \in Items /\ r.copy.owner \in Users /\ r.user \in Users
    BY DEF Requesting, ItemCopy
  <2>2. <<"requested">> \in Seq(States)
    BY DEF States
  <2>3. newTransaction(r) \in TransactionDoc
    BY <1>4, <2>1, <2>2 DEF newTransaction, CreateTransaction, TransactionDoc, States
  <2>4. QED
    BY <1>4, <2>3 DEF CreateTransaction
<1>5. ASSUME NEW r \in requesting, RejectNotRequestable(r)
      PROVE  TypeOK'
  BY <1>5 DEF RejectNotRequestable
<1>6. ASSUME NEW id \in Slots, NEW u \in Users, NEW t \in TransactionIds,
             NEW s \in States \ {"requested"}, StartUpdateState(id, u, t, s)
      PROVE  TypeOK'
  BY <1>6 DEF StartUpdateState, Updating
<1>7. ASSUME NEW r \in updating, CheckForConcurrentTransactions(r)
      PROVE  TypeOK'
  BY <1>7 DEF CheckForConcurrentTransactions, Updating
<1>8. ASSUME NEW r \in updating, UpdateState(r)
      PROVE  TypeOK'
  <2>1. r.state \in States /\ r.id \in Slots /\ r.transaction \in TransactionIds
    BY DEF Updating
  <2>2. transactions[r.transaction] \in TransactionDoc
    BY ExistingDoc DEF UpdatesAreGrounded
  <2>3. Append(transactions[r.transaction].actions, r.state) \in Seq(States)
    BY <2>1, <2>2, AppendType DEF TransactionDoc
  <2>4. stateUpdater(transactions[r.transaction], r.state) \in TransactionDoc
    BY <2>1, <2>2, <2>3 DEF stateUpdater, TransactionDoc
  <2>5. sideEffects(r, transactions[r.transaction]) \subseteq Transferring
    BY <2>1 DEF sideEffects, Transferring
  <2>6. QED
    BY <1>8, <2>1, <2>4, <2>5 DEF UpdateState
<1>9. ASSUME NEW id \in Slots, NEW u \in Users, CancelAllActiveTransactions(id, u)
      PROVE  TypeOK'
  BY <1>9 DEF CancelAllActiveTransactions, Updating, States, Existing
<1>10. ASSUME NEW r \in transferring, ChangeOwner(r)
       PROVE  TypeOK'
  <2> DEFINE transac == transactions[r.transaction]
             doc == items[transac.item]
  <2>1. /\ r.transaction \in TransactionIds /\ r.id \in Slots
        /\ transac \in TransactionDoc
    BY ExistingDoc DEF Transferring, TransfersAreConsented
  <2>2. doc \in ItemDoc /\ transac.owner \in Users /\ transac.requester \in Users
        /\ transac.item \in Items
    BY <2>1 DEF TransactionDoc
  <2>3. [transaction |-> r.transaction, previousOwner |-> transac.owner] \in HistoryEntry
    BY <2>1, <2>2 DEF HistoryEntry
  <2>4. Append(doc.history, [transaction |-> r.transaction, previousOwner |-> transac.owner])
            \in Seq(HistoryEntry)
    BY <2>2, <2>3, AppendType DEF ItemDoc
  <2>5. changeOwner(doc, r.transaction, transac) \in ItemDoc
    BY <2>2, <2>4 DEF changeOwner, ItemDoc, ItemTransactions, Listings
  <2>6. [id |-> r.id, item |-> transac.item, doc |-> changeOwner(doc, r.transaction, transac)]
            \in Writing
    BY <2>1, <2>2, <2>5 DEF Writing
  <2>7. QED
    BY <1>10, <2>6 DEF ChangeOwner
<1>11. ASSUME NEW id \in Slots, NEW u \in Users, NEW i \in Items,
              NEW tr \in Offers, NEW l \in Audiences, UpdateItem(id, u, i, tr, l)
       PROVE  TypeOK'
  <2>1. [items[i] EXCEPT !.transaction = tr, !.listing = l] \in ItemDoc
    BY InputAssumption DEF ItemDoc, ItemTransactions, requestable, Listings
  <2>2. QED
    BY <1>11, <2>1 DEF UpdateItem, ReadOwnItem, Writing
<1>12. ASSUME NEW id \in Slots, NEW u \in Users, NEW i \in Items, DeleteItem(id, u, i)
       PROVE  TypeOK'
  <2>1. [items[i] EXCEPT !.deleted = TRUE] \in ItemDoc
    BY DEF ItemDoc
  <2>2. [id |-> id, item |-> i, doc |-> [items[i] EXCEPT !.deleted = TRUE]] \in Writing
    BY <2>1 DEF Writing
  <2>3. QED
    BY <1>12, <2>2 DEF DeleteItem, ReadOwnItem
<1>13. ASSUME NEW r \in writing, WriteItem(r)
       PROVE  TypeOK'
  <2>1. r.item \in Items /\ r.doc \in ItemDoc
    BY DEF Writing
  <2>2. r.doc.rev + 1 \in Nat
    BY <2>1 DEF ItemDoc
  <2>3. [r.doc EXCEPT !.rev = r.doc.rev + 1] \in ItemDoc
    BY <2>1, <2>2 DEF ItemDoc
  <2>4. QED
    BY <1>13, <2>1, <2>3 DEF WriteItem
<1>14. CASE Crash
  BY <1>14 DEF Crash
<1>15. CASE UNCHANGED vars
  BY <1>15 DEF vars
<1>16. QED
  BY <1>1, <1>2, <1>3, <1>4, <1>5, <1>6, <1>7, <1>8, <1>9, <1>10, <1>11, <1>12,
     <1>13, <1>14, <1>15 DEF Next, RequestNext, UpdateNext, ItemNext

-----------------------------------------------------------------------------
(* What no step undoes *)

\* A state update appends to the actions of its document and keeps the rest of it
LEMMA UpdateExtends ==
    ASSUME TypeOK, NEW r \in updating, UpdateState(r), r.transaction \in Existing
    PROVE  /\ \A t \in Existing : Extended(t)
           /\ r.transaction \in Existing'
           /\ Len(transactions'[r.transaction].actions) > 0
           /\ Last(transactions'[r.transaction].actions) = r.state
           /\ transactions'[r.transaction].state = r.state
           /\ \A t \in Existing' : t # r.transaction => /\ t \in Existing
                                                        /\ transactions'[t] = transactions[t]
<1> DEFINE u == r.transaction
           old == transactions[u]
           new == stateUpdater(old, r.state)
<1>1. u \in TransactionIds /\ old \in TransactionDoc /\ r.state \in States
  BY ExistingDoc DEF TypeOK, Updating
<1>2. /\ old.actions \in Seq(States)
      /\ Append(old.actions, r.state) \in Seq(States)
      /\ Len(Append(old.actions, r.state)) = Len(old.actions) + 1
      /\ Len(old.actions) \in Nat
      /\ \A n \in 1..Len(old.actions) : Append(old.actions, r.state)[n] = old.actions[n]
      /\ Append(old.actions, r.state)[Len(old.actions) + 1] = r.state
  BY <1>1, AppendType DEF TransactionDoc
<1>3. /\ new.actions = Append(old.actions, r.state) /\ new.state = r.state
      /\ new.item = old.item /\ new.owner = old.owner /\ new.requester = old.requester
      /\ new.transaction = old.transaction
  BY <1>1 DEF stateUpdater, TransactionDoc
<1>4. new \in TransactionDoc
  BY <1>1, <1>2 DEF stateUpdater, TransactionDoc
<1>5. /\ transactions'[u] = new
      /\ \A t \in TransactionIds : t # u => transactions'[t] = transactions[t]
  BY <1>1 DEF UpdateState, TypeOK
<1>6. u \in Existing'
  BY <1>1, <1>4, <1>5, DocIsNotMissing DEF Existing
<1>7. ASSUME NEW s \in States, Did(u, s) PROVE Did(u, s)'
  <2>1. PICK n \in 1..Len(old.actions) : old.actions[n] = s
    BY <1>7 DEF Did
  <2>2. n \in 1..Len(new.actions) /\ new.actions[n] = s
    BY <1>2, <1>3, <2>1
  <2> HIDE DEF new
  <2>3. transactions'[u].actions = new.actions
    BY <1>5
  <2>4. QED
    BY <2>2, <2>3 DEF Did
<1>8. Extended(u)
  BY <1>3, <1>5, <1>6, <1>7 DEF Extended
<1>9. ASSUME NEW t \in Existing, t # u PROVE Extended(t)
  BY <1>5, <1>9 DEF Extended, Existing, Did
<1>10. Len(new.actions) > 0 /\ Last(new.actions) = r.state
  BY <1>2, <1>3 DEF Last
<1>11. QED
  BY <1>3, <1>5, <1>6, <1>8, <1>9, <1>10 DEF Existing

\* Creating a document leaves the others alone
LEMMA CreateExtends ==
    ASSUME TypeOK, NEW r \in requesting, NEW u \in TransactionIds, CreateTransaction(r, u)
    PROVE  /\ \A t \in Existing : Extended(t)
           /\ transactions'[u] = newTransaction(r)
           /\ \A t \in Existing' : t # u => /\ t \in Existing
                                            /\ transactions'[t] = transactions[t]
  BY DEF CreateTransaction, TypeOK, Existing, Extended, Did

\* No step forgets a document, or an action of one
LEMMA StepExtends ==
    ASSUME TypeOK, UpdatesAreGrounded, [Next]_vars
    PROVE  \A t \in Existing : Extended(t)
<1>1. ASSUME NEW r \in requesting, NEW t \in TransactionIds, CreateTransaction(r, t)
      PROVE  \A u \in Existing : Extended(u)
  BY <1>1, CreateExtends
<1>2. ASSUME NEW r \in updating, UpdateState(r)
      PROVE  \A u \in Existing : Extended(u)
  BY <1>2, UpdateExtends DEF UpdatesAreGrounded
<1>3. ASSUME UNCHANGED transactions
      PROVE  \A u \in Existing : Extended(u)
  BY <1>3 DEF Extended, Existing, Did
<1>4. QED
  BY <1>1, <1>2, <1>3 DEF Next, RequestNext, UpdateNext, ItemNext, vars, RequestItem,
     VerifyRightToRequest, VerifyNoExistingTransaction, RejectNotRequestable,
     StartUpdateState, CheckForConcurrentTransactions, CancelAllActiveTransactions,
     ChangeOwner, UpdateItem, DeleteItem, ReadOwnItem, WriteItem, Crash

\* Consent, once given, stays
LEMMA ConsentStays ==
    ASSUME NEW i, NEW t, Consented(i, t), Extended(t)
    PROVE  Consented(i, t)'
  BY DEF Consented, Extended, isOneWay, States

\* A chain of owners stays one
LEMMA ChainStays ==
    ASSUME NEW d, Chained(d), \A t \in Existing : Extended(t)
    PROVE  Chained(d)'
  BY DEF Chained, Extended, ownerAfter

-----------------------------------------------------------------------------
(* The inductive step, conjunct by conjunct *)

\* The last action is the state: both are written by the same updater
LEMMA LastActionStep == IInv /\ [Next]_vars => LastActionIsState'
<1> SUFFICES ASSUME IInv, [Next]_vars PROVE LastActionIsState'
  OBVIOUS
<1> USE DEF IInv
<1>1. ASSUME NEW r \in requesting, NEW t \in TransactionIds, CreateTransaction(r, t)
      PROVE  LastActionIsState'
  <2>1. /\ transactions'[t] = newTransaction(r)
        /\ \A u \in Existing' : u # t => u \in Existing /\ transactions'[u] = transactions[u]
    BY <1>1, CreateExtends
  <2>2. newTransaction(r).actions = <<"requested">> /\ newTransaction(r).state = "requested"
    BY DEF newTransaction
  <2>3. /\ Len(transactions'[t].actions) > 0
        /\ Last(transactions'[t].actions) = transactions'[t].state
    BY <2>1, <2>2 DEF Last
  <2>4. QED
    BY <2>1, <2>3 DEF LastActionIsState, Last
<1>2. ASSUME NEW r \in updating, UpdateState(r)
      PROVE  LastActionIsState'
  BY <1>2, UpdateExtends DEF LastActionIsState, UpdatesAreGrounded, Last
<1>3. ASSUME UNCHANGED transactions
      PROVE  LastActionIsState'
  BY <1>3 DEF LastActionIsState, Existing, Last
<1>4. QED
  BY <1>1, <1>2, <1>3 DEF Next, RequestNext, UpdateNext, ItemNext, vars, RequestItem,
     VerifyRightToRequest, VerifyNoExistingTransaction, RejectNotRequestable,
     StartUpdateState, CheckForConcurrentTransactions, CancelAllActiveTransactions,
     ChangeOwner, UpdateItem, DeleteItem, ReadOwnItem, WriteItem, Crash

\* A handler only confirms what it read as accepted
LEMMA UpdatesStep == IInv /\ [Next]_vars => UpdatesAreGrounded'
<1> SUFFICES ASSUME IInv, [Next]_vars, NEW r \in updating'
             PROVE  /\ r.transaction \in Existing'
                    /\ r.state = "confirmed" => Did(r.transaction, "accepted")'
  BY DEF UpdatesAreGrounded
<1> USE DEF IInv
<1> DEFINE Grounded(q) == /\ q.transaction \in Existing
                          /\ q.state = "confirmed" => Did(q.transaction, "accepted")
<1>1. ASSUME Grounded(r)
      PROVE  /\ r.transaction \in Existing'
             /\ r.state = "confirmed" => Did(r.transaction, "accepted")'
  BY <1>1, StepExtends DEF Extended, States
<1>2. CASE r \in updating
  BY <1>1, <1>2 DEF UpdatesAreGrounded
<1>3. ASSUME NEW id \in Slots, NEW u \in Users, NEW t \in TransactionIds,
             NEW s \in States \ {"requested"}, StartUpdateState(id, u, t, s), r \notin updating
      PROVE  Grounded(r)
  <2>1. r.transaction = t /\ r.state = s
    BY <1>3 DEF StartUpdateState
  <2>2. t \in Existing /\ s \in next[transactions[t].state]
    BY <1>3 DEF StartUpdateState, validatePossibleState
  <2>3. transactions[t] \in TransactionDoc
    BY <2>2, ExistingDoc
  <2>4. s = "confirmed" => transactions[t].state = "accepted"
    BY <2>2, <2>3 DEF next, TransactionDoc, States
  <2>5. Did(t, transactions[t].state)
    <3>1. transactions[t].actions \in Seq(States)
      BY <2>3 DEF TransactionDoc
    <3>2. Len(transactions[t].actions) \in 1..Len(transactions[t].actions)
      BY <2>2, <3>1 DEF LastActionIsState
    <3>3. QED
      BY <2>2, <3>2 DEF LastActionIsState, Last, Did
  <2>6. QED
    BY <2>1, <2>2, <2>4, <2>5
<1>4. ASSUME NEW q \in updating, CheckForConcurrentTransactions(q), r \notin updating
      PROVE  Grounded(r)
  <2>1. r.transaction = q.transaction /\ r.state = q.state
    BY <1>4 DEF CheckForConcurrentTransactions, TypeOK, Updating
  <2>2. QED
    BY <2>1 DEF UpdatesAreGrounded
<1>5. ASSUME NEW id \in Slots, NEW u \in Users, CancelAllActiveTransactions(id, u),
             r \notin updating
      PROVE  Grounded(r)
  BY <1>5 DEF CancelAllActiveTransactions
<1>6. ASSUME updating' \subseteq updating
      PROVE  r \in updating
  BY <1>6
<1>7. QED
  <2>1. r \in updating \/ Grounded(r)
    BY <1>3, <1>4, <1>5, <1>6 DEF Next, RequestNext, UpdateNext, ItemNext, vars, RequestItem,
       VerifyRightToRequest, VerifyNoExistingTransaction, CreateTransaction,
       RejectNotRequestable, UpdateState, ChangeOwner, UpdateItem, DeleteItem,
       ReadOwnItem, WriteItem, Crash
  <2>2. QED
    BY <2>1, <1>1, <1>2

\* A change of owner is only started by a confirmed update of a one-way
\* transaction, and an update to confirmed was grounded in an acceptance
LEMMA TransfersStep == IInv /\ [Next]_vars => TransfersAreConsented'
<1> SUFFICES ASSUME IInv, [Next]_vars, NEW r \in transferring'
             PROVE  /\ r.transaction \in Existing'
                    /\ Consented(transactions[r.transaction].item, r.transaction)'
  BY DEF TransfersAreConsented
<1> USE DEF IInv
<1>1. CASE r \in transferring
  <2>1. /\ r.transaction \in Existing
        /\ Consented(transactions[r.transaction].item, r.transaction)
    BY <1>1 DEF TransfersAreConsented
  <2>2. Extended(r.transaction)
    BY <2>1, StepExtends
  <2>3. QED
    BY <2>1, <2>2 DEF Extended, Consented, isOneWay, States
<1>2. ASSUME NEW q \in updating, UpdateState(q), r \notin transferring
      PROVE  /\ r.transaction \in Existing'
             /\ Consented(transactions[r.transaction].item, r.transaction)'
  <2> DEFINE t == q.transaction
  <2>1. t \in Existing /\ Extended(t)
    BY <1>2, UpdateExtends DEF UpdatesAreGrounded
  <2>2. r \in sideEffects(q, transactions[t])
    BY <1>2 DEF UpdateState
  <2>3. r.transaction = t /\ q.state = "confirmed" /\ isOneWay(transactions[t])
    BY <2>2 DEF sideEffects
  <2>4. Did(t, "accepted")'
    BY <2>1, <2>3 DEF UpdatesAreGrounded, Extended, States
  <2>5. Did(t, "confirmed")'
    <3>1. transactions'[t] \in TransactionDoc
      BY <2>1, TypeStep DEF TypeOK, Extended, Existing
    <3>2. Len(transactions'[t].actions) \in 1..Len(transactions'[t].actions)
      BY <1>2, <2>1, <3>1, UpdateExtends DEF TransactionDoc
    <3>3. QED
      BY <1>2, <2>1, <2>3, <3>2, UpdateExtends DEF Did, Last
  <2>6. QED
    BY <2>1, <2>3, <2>4, <2>5 DEF Extended, Consented, isOneWay
<1>3. ASSUME transferring' \subseteq transferring
      PROVE  r \in transferring
  BY <1>3
<1>4. QED
  BY <1>1, <1>2, <1>3 DEF Next, RequestNext, UpdateNext, ItemNext, vars, RequestItem,
     VerifyRightToRequest, VerifyNoExistingTransaction, CreateTransaction,
     RejectNotRequestable, StartUpdateState, CheckForConcurrentTransactions,
     CancelAllActiveTransactions, ChangeOwner, UpdateItem, DeleteItem, ReadOwnItem,
     WriteItem, Crash

\* The justification of a document is in its history and its owner
LEMMA SameHistory ==
    ASSUME NEW d, NEW e, d.history = e.history, d.owner = e.owner
    PROVE  Chained(d) <=> Chained(e)
  BY DEF Chained, ownerAfter

\* A change of owner that starts from the present owner extends the chain
LEMMA ChangeOwnerChains ==
    ASSUME TypeOK, NEW t \in Existing, NEW doc \in ItemDoc, Chained(doc),
           doc.owner = transactions[t].owner
    PROVE  LET new == changeOwner(doc, t, transactions[t]) IN
           /\ Chained(new)
           /\ Len(new.history) = Len(doc.history) + 1
           /\ \A k \in 1..Len(doc.history) : new.history[k] = doc.history[k]
           /\ new.history[Len(doc.history) + 1].transaction = t
           /\ new.rev = doc.rev
<1> DEFINE transac == transactions[t]
           entry == [transaction |-> t, previousOwner |-> transac.owner]
           new == changeOwner(doc, t, transac)
<1>1. transac \in TransactionDoc /\ t \in TransactionIds
  BY ExistingDoc
<1>2. entry \in HistoryEntry
  BY <1>1 DEF HistoryEntry, TransactionDoc
<1>3. /\ doc.history \in Seq(HistoryEntry)
      /\ Len(doc.history) \in Nat
      /\ Len(Append(doc.history, entry)) = Len(doc.history) + 1
      /\ \A k \in 1..Len(doc.history) : Append(doc.history, entry)[k] = doc.history[k]
      /\ Append(doc.history, entry)[Len(doc.history) + 1] = entry
  BY <1>2, AppendType DEF ItemDoc
<1>4. /\ new.history = Append(doc.history, entry)
      /\ new.owner = transac.requester
      /\ new.rev = doc.rev
  BY DEF changeOwner, ItemDoc
<1>5. ASSUME NEW k \in 1..Len(new.history)
      PROVE  LET u == new.history[k].transaction IN
             /\ u \in Existing
             /\ new.history[k].previousOwner = transactions[u].owner
             /\ ownerAfter(new, k) = transactions[u].requester
  <2> HIDE DEF new
  <2>1. CASE k = Len(doc.history) + 1
    BY <1>3, <1>4, <2>1 DEF ownerAfter
  <2>2. CASE k \in 1..Len(doc.history)
    <3>1. new.history[k] = doc.history[k]
      BY <1>3, <1>4, <2>2
    <3>2. ownerAfter(new, k) = ownerAfter(doc, k)
      <4>1. CASE k = Len(doc.history)
        BY <1>3, <1>4, <4>1 DEF ownerAfter
      <4>2. CASE k + 1 \in 1..Len(doc.history)
        BY <1>3, <1>4, <2>2, <4>2 DEF ownerAfter
      <4>3. QED
        BY <1>3, <2>2, <4>1, <4>2
    <3>3. QED
      BY <2>2, <3>1, <3>2 DEF Chained
  <2>3. QED
    BY <1>3, <1>4, <2>1, <2>2
<1>6. Chained(new)
  BY <1>5 DEF Chained
<1>7. QED
  BY <1>3, <1>4, <1>6

\* what a handler carries to its write, for the document it read
Carries(r, i) ==
    /\ r.item = i
    /\ r.doc.rev = items[i].rev
    /\ Chained(r.doc)
    /\ \A k \in 1..Len(r.doc.history) : Consented(i, r.doc.history[k].transaction)
    /\ \A k \in 1..Len(items[i].history) : /\ k <= Len(r.doc.history)
                                            /\ r.doc.history[k] = items[i].history[k]

\* Every handler that reads an item to write it back computes a justified document
LEMMA NewWrites ==
    ASSUME IInv, [Next]_vars, NEW r \in writing', r \notin writing
    PROVE  /\ \E i \in Items : Carries(r, i)
           /\ items' = items
<1> USE DEF IInv
<1>1. ASSUME NEW id \in Slots, NEW u \in Users, NEW i \in Items, NEW doc \in ItemDoc,
             ReadOwnItem(id, u, i, doc), doc.history = items[i].history,
             doc.owner = items[i].owner, doc.rev = items[i].rev
      PROVE  Carries(r, i) /\ items' = items
  <2>1. r.item = i /\ r.doc = doc
    BY <1>1 DEF ReadOwnItem
  <2>2. Chained(doc)
    BY <1>1, SameHistory DEF OwnershipChain
  <2>3. \A k \in 1..Len(doc.history) : Consented(i, doc.history[k].transaction)
    BY <1>1 DEF MovedByConsent
  <2>4. QED
    BY <1>1, <2>1, <2>2, <2>3 DEF Carries, ReadOwnItem
<1>2. ASSUME NEW id \in Slots, NEW u \in Users, NEW i \in Items,
             NEW tr \in Offers, NEW l \in Audiences, UpdateItem(id, u, i, tr, l)
      PROVE  Carries(r, i) /\ items' = items
  <2> DEFINE doc == [items[i] EXCEPT !.transaction = tr, !.listing = l]
  <2>1. items[i] \in ItemDoc
    BY DEF TypeOK
  <2>2. /\ doc.history = items[i].history /\ doc.owner = items[i].owner
        /\ doc.rev = items[i].rev
    BY <2>1 DEF ItemDoc
  <2>3. doc \in ItemDoc
    BY <2>1, InputAssumption DEF ItemDoc, ItemTransactions, requestable, Listings
  <2>4. ReadOwnItem(id, u, i, doc)
    BY <1>2 DEF UpdateItem
  <2> HIDE DEF doc
  <2>5. QED
    BY <1>1, <2>2, <2>3, <2>4
<1>3. ASSUME NEW id \in Slots, NEW u \in Users, NEW i \in Items, DeleteItem(id, u, i)
      PROVE  Carries(r, i) /\ items' = items
  <2> DEFINE doc == [items[i] EXCEPT !.deleted = TRUE]
  <2>1. items[i] \in ItemDoc
    BY DEF TypeOK
  <2>2. /\ doc.history = items[i].history /\ doc.owner = items[i].owner
        /\ doc.rev = items[i].rev
    BY <2>1 DEF ItemDoc
  <2>3. doc \in ItemDoc
    BY <2>1 DEF ItemDoc
  <2>4. ReadOwnItem(id, u, i, doc)
    BY <1>3 DEF DeleteItem
  <2> HIDE DEF doc
  <2>5. QED
    BY <1>1, <2>2, <2>3, <2>4
<1>4. ASSUME NEW q \in transferring, ChangeOwner(q)
      PROVE  /\ \E i \in Items : Carries(r, i)
             /\ items' = items
  <2> DEFINE t == q.transaction
             transac == transactions[t]
             i == transac.item
             new == changeOwner(items[i], t, transac)
  <2>1. t \in Existing /\ Consented(i, t) /\ transac \in TransactionDoc
    BY ExistingDoc DEF TransfersAreConsented
  <2>2. i \in Items /\ items[i] \in ItemDoc
    BY <2>1 DEF TransactionDoc, TypeOK
  <2>3. r.item = i /\ r.doc = new /\ items[i].owner = transac.owner
    BY <1>4 DEF ChangeOwner
  <2>4. Chained(items[i])
    BY <2>2 DEF OwnershipChain
  <2>5. /\ Chained(new)
        /\ Len(new.history) = Len(items[i].history) + 1
        /\ \A k \in 1..Len(items[i].history) : new.history[k] = items[i].history[k]
        /\ new.history[Len(items[i].history) + 1].transaction = t
        /\ new.rev = items[i].rev
    BY <2>1, <2>2, <2>3, <2>4, ChangeOwnerChains
  <2>6. Len(items[i].history) \in Nat
    BY <2>2 DEF ItemDoc
  <2> HIDE DEF new
  <2>7. \A k \in 1..Len(new.history) : Consented(i, new.history[k].transaction)
    <3>1. ASSUME NEW k \in 1..Len(items[i].history)
          PROVE  Consented(i, new.history[k].transaction)
      BY <2>2, <2>5 DEF MovedByConsent
    <3>2. \A k \in 1..Len(new.history) : \/ k \in 1..Len(items[i].history)
                                          \/ k = Len(items[i].history) + 1
      BY <2>5, <2>6
    <3>3. QED
      BY <2>1, <2>5, <3>1, <3>2
  <2>8. \A k \in 1..Len(items[i].history) : /\ k <= Len(new.history)
                                            /\ new.history[k] = items[i].history[k]
    BY <2>5, <2>6
  <2>9. Carries(r, i)
    <3> HIDE DEF i
    <3>1. QED
      BY <2>3, <2>5, <2>7, <2>8 DEF Carries
  <2>10. QED
    BY <1>4, <2>2, <2>9 DEF ChangeOwner
<1>5. ASSUME writing' \subseteq writing
      PROVE  FALSE
  BY <1>5
<1>6. QED
  BY <1>2, <1>3, <1>4, <1>5 DEF Next, RequestNext, UpdateNext, ItemNext, vars, RequestItem,
     VerifyRightToRequest, VerifyNoExistingTransaction, CreateTransaction,
     RejectNotRequestable, StartUpdateState, CheckForConcurrentTransactions,
     CancelAllActiveTransactions, UpdateState, WriteItem, Crash

\* The items only change by writes of a document whose rev is the current one
LEMMA ItemSteps ==
    ASSUME IInv, [Next]_vars
    PROVE  \/ items' = items
           \/ \E r \in writing :
                 /\ writing' = writing \ {r}
                 /\ r.doc.rev = items[r.item].rev
                 /\ items' = [items EXCEPT ![r.item] = [r.doc EXCEPT !.rev = r.doc.rev + 1]]
<1>1. ASSUME NEW r \in writing, WriteItem(r)
      PROVE  \/ items' = items
             \/ /\ writing' = writing \ {r}
                /\ r.doc.rev = items[r.item].rev
                /\ items' = [items EXCEPT ![r.item] = [r.doc EXCEPT !.rev = r.doc.rev + 1]]
  BY <1>1 DEF WriteItem
<1>2. ASSUME NEW r \in transferring, ChangeOwner(r) PROVE items' = items
  BY <1>2 DEF ChangeOwner
<1>3. QED
  BY <1>1, <1>2 DEF Next, RequestNext, UpdateNext, ItemNext, vars, RequestItem,
     VerifyRightToRequest, VerifyNoExistingTransaction, CreateTransaction,
     RejectNotRequestable, StartUpdateState, CheckForConcurrentTransactions,
     CancelAllActiveTransactions, UpdateState, UpdateItem, DeleteItem, ReadOwnItem, Crash

\* What the item becomes when a write is taken
LEMMA Written ==
    ASSUME TypeOK, NEW r \in writing,
           items' = [items EXCEPT ![r.item] = [r.doc EXCEPT !.rev = r.doc.rev + 1]]
    PROVE  /\ r.item \in Items /\ r.doc.rev \in Nat
           /\ items'[r.item].history = r.doc.history
           /\ items'[r.item].owner = r.doc.owner
           /\ items'[r.item].rev = r.doc.rev + 1
           /\ \A i \in Items : i # r.item => items'[i] = items[i]
<1>1. r.item \in Items /\ r.doc \in ItemDoc
  BY DEF TypeOK, Writing
<1>2. items'[r.item] = [r.doc EXCEPT !.rev = r.doc.rev + 1]
  BY <1>1 DEF TypeOK
<1>3. QED
  BY <1>1, <1>2 DEF TypeOK, ItemDoc

\* The documents about to be written stay justified, and stay the extension of the
\* item they were read from until another write makes their rev an old one
LEMMA WritesStep == IInv /\ [Next]_vars => WritesAreJustified' /\ FreshWritesExtend'
<1> SUFFICES ASSUME IInv, [Next]_vars
             PROVE  WritesAreJustified' /\ FreshWritesExtend'
  OBVIOUS
<1> USE DEF IInv
<1>1. \A t \in Existing : Extended(t)
  BY StepExtends
<1>2. ASSUME NEW r \in writing'
      PROVE  /\ Chained(r.doc)
             /\ \A k \in 1..Len(r.doc.history) : Consented(r.item, r.doc.history[k].transaction)
  <2>1. CASE r \in writing
    BY <2>1 DEF WritesAreJustified
  <2>2. CASE r \notin writing
    BY <2>2, NewWrites DEF Carries
  <2>3. QED
    BY <2>1, <2>2
<1>3. ASSUME NEW r \in writing'
      PROVE  /\ Chained(r.doc)'
             /\ \A k \in 1..Len(r.doc.history) : Consented(r.item, r.doc.history[k].transaction)'
  <2>1. Chained(r.doc)'
    BY <1>1, <1>2, ChainStays
  <2>2. ASSUME NEW k \in 1..Len(r.doc.history)
        PROVE  Consented(r.item, r.doc.history[k].transaction)'
    <3>1. Consented(r.item, r.doc.history[k].transaction)
      BY <1>2
    <3>2. r.doc.history[k].transaction \in Existing
      BY <3>1 DEF Consented
    <3>3. QED
      BY <1>1, <3>1, <3>2, ConsentStays
  <2>3. QED
    BY <2>1, <2>2
<1>4. WritesAreJustified'
  BY <1>3 DEF WritesAreJustified
<1>5. ASSUME NEW r \in writing', r \notin writing
      PROVE  /\ r.doc.rev <= items'[r.item].rev
             /\ r.doc.rev = items'[r.item].rev =>
                    \A k \in 1..Len(items'[r.item].history) :
                        /\ k <= Len(r.doc.history)
                        /\ r.doc.history[k] = items'[r.item].history[k]
  <2>1. PICK i \in Items : Carries(r, i)
    BY <1>5, NewWrites
  <2>2. items' = items /\ items[i].rev \in Nat
    BY <1>5, NewWrites DEF TypeOK, ItemDoc
  <2>3. QED
    BY <2>1, <2>2 DEF Carries
<1>6. ASSUME NEW r \in writing', r \in writing
      PROVE  /\ r.doc.rev <= items'[r.item].rev
             /\ r.doc.rev = items'[r.item].rev =>
                    \A k \in 1..Len(items'[r.item].history) :
                        /\ k <= Len(r.doc.history)
                        /\ r.doc.history[k] = items'[r.item].history[k]
  <2>1. CASE items' = items
    BY <1>6, <2>1 DEF FreshWritesExtend
  <2>2. ASSUME NEW q \in writing, q.doc.rev = items[q.item].rev,
               items' = [items EXCEPT ![q.item] = [q.doc EXCEPT !.rev = q.doc.rev + 1]]
        PROVE  /\ r.doc.rev <= items'[r.item].rev
               /\ r.doc.rev = items'[r.item].rev =>
                      \A k \in 1..Len(items'[r.item].history) :
                          /\ k <= Len(r.doc.history)
                          /\ r.doc.history[k] = items'[r.item].history[k]
    <3>1. r.item \in Items /\ r.doc.rev \in Nat
      BY <1>6 DEF TypeOK, Writing, ItemDoc
    <3>2. /\ q.doc.rev \in Nat
          /\ items'[q.item].rev = q.doc.rev + 1
          /\ \A i \in Items : i # q.item => items'[i] = items[i]
      BY <2>2, Written
    <3>3. CASE r.item = q.item
      BY <1>6, <2>2, <3>1, <3>2, <3>3 DEF FreshWritesExtend
    <3>4. CASE r.item # q.item
      BY <1>6, <3>1, <3>2, <3>4 DEF FreshWritesExtend
    <3>5. QED
      BY <3>3, <3>4
  <2>3. QED
    BY <2>1, <2>2, ItemSteps
<1>7. FreshWritesExtend'
  BY <1>5, <1>6 DEF FreshWritesExtend
<1>8. QED
  BY <1>4, <1>7

\* The items written are as justified as the documents that were about to be
LEMMA ItemsStep == IInv /\ [Next]_vars => MovedByConsent' /\ OwnershipChain'
<1> SUFFICES ASSUME IInv, [Next]_vars, NEW i \in Items
             PROVE  /\ (\A k \in 1..Len(items[i].history) :
                            Consented(i, items[i].history[k].transaction))'
                    /\ Chained(items[i])'
  BY DEF MovedByConsent, OwnershipChain
<1> USE DEF IInv
<1>1. \A t \in Existing : Extended(t)
  BY StepExtends
<1>2. PICK d : /\ d.history = items'[i].history
               /\ d.owner = items'[i].owner
               /\ Chained(d)
               /\ \A k \in 1..Len(d.history) : Consented(i, d.history[k].transaction)
  <2>1. CASE items'[i] = items[i]
    BY <2>1 DEF MovedByConsent, OwnershipChain
  <2>2. ASSUME NEW r \in writing, r.item = i,
               items' = [items EXCEPT ![r.item] = [r.doc EXCEPT !.rev = r.doc.rev + 1]]
        PROVE  /\ r.doc.history = items'[i].history
               /\ r.doc.owner = items'[i].owner
               /\ Chained(r.doc)
               /\ \A k \in 1..Len(r.doc.history) : Consented(i, r.doc.history[k].transaction)
    BY <2>2, Written DEF WritesAreJustified
  <2>3. items'[i] = items[i] \/ \E r \in writing :
            /\ r.item = i
            /\ items' = [items EXCEPT ![r.item] = [r.doc EXCEPT !.rev = r.doc.rev + 1]]
    BY ItemSteps, Written
  <2>4. QED
    BY <2>1, <2>2, <2>3
<1>3. ASSUME NEW k \in 1..Len(d.history) PROVE Consented(i, d.history[k].transaction)'
  <2>1. Consented(i, d.history[k].transaction)
    BY <1>2
  <2>2. d.history[k].transaction \in Existing
    BY <2>1 DEF Consented
  <2>3. QED
    BY <1>1, <2>1, <2>2, ConsentStays
<1>4. Chained(d)'
  BY <1>1, <1>2, ChainStays
<1>5. Chained(items[i])'
  BY <1>2, <1>4 DEF Chained, ownerAfter
<1>6. (\A k \in 1..Len(items[i].history) : Consented(i, items[i].history[k].transaction))'
  BY <1>2, <1>3 DEF Consented, Did, isOneWay
<1>7. QED
  BY <1>5, <1>6

-----------------------------------------------------------------------------
(* The theorems *)

\* Nothing has moved initially
LEMMA InitInv == Init => IInv
<1> SUFFICES ASSUME Init PROVE IInv
  OBVIOUS
<1>1. TypeOK
  <2>1. items \in [Items -> ItemDoc]
    <3>1. <<>> \in Seq(HistoryEntry)
      OBVIOUS
    <3>2. [owner: Users, transaction: Offers, listing: Audiences, history: {<<>>},
           rev: {1}, deleted: {FALSE}] \subseteq ItemDoc
      <4>1. Offers \subseteq ItemTransactions /\ Audiences \subseteq Listings
        BY InputAssumption DEF ItemTransactions, requestable, Listings
      <4>2. {<<>>} \subseteq Seq(HistoryEntry) /\ {1} \subseteq Nat /\ {FALSE} \subseteq BOOLEAN
        BY <3>1
      <4>3. QED
        BY <4>1, <4>2 DEF ItemDoc
    <3>3. QED
      BY <3>2 DEF Init
  <2>2. QED
    BY <2>1 DEF Init, TypeOK
<1>2. Existing = {} /\ \A i \in Items : items[i].history = <<>>
  BY DEF Init, Existing
<1>3. QED
  BY <1>1, <1>2 DEF Init, IInv, LastActionIsState, UpdatesAreGrounded, TransfersAreConsented,
     WritesAreJustified, FreshWritesExtend, MovedByConsent, OwnershipChain, Chained

\* Every step keeps the inductive invariant
LEMMA InvariantStep == IInv /\ [Next]_vars => IInv'
<1> SUFFICES ASSUME IInv, [Next]_vars PROVE IInv'
  OBVIOUS
<1>1. TypeOK'
  BY TypeStep DEF IInv
<1>2. QED
  BY <1>1, LastActionStep, UpdatesStep, TransfersStep, WritesStep, ItemsStep DEF IInv

\* The inductive invariant holds: what is in flight is as justified as what is
\* written, in every handler of the transactions and of the items
THEOREM Invariance == Spec => []IInv
  BY InitInv, InvariantStep, PTL DEF Spec

\* The databases and the handlers' variables keep their types
THEOREM TypeCorrectness == Spec => []TypeOK
<1>1. IInv => TypeOK
  BY DEF IInv
<1>2. QED
  BY Invariance, <1>1, PTL

\* An item only moves by a giving or selling transaction that was accepted and
\* confirmed, whatever handlers overlap and whenever the server restarts
THEOREM ItemsMoveByConsent == Spec => []MovedByConsent
<1>1. IInv => MovedByConsent
  BY DEF IInv
<1>2. QED
  BY Invariance, <1>1, PTL

\* An item's history is the chain of its owners up to the present one
THEOREM HistoryIsTheChainOfOwners == Spec => []OwnershipChain
<1>1. IInv => OwnershipChain
  BY DEF IInv
<1>2. QED
  BY Invariance, <1>1, PTL

\* A transaction that the view byBusyItem shows is one that isActive finds active
THEOREM WhatHoldsIsActive == Spec => []HoldersAreActive
<1>1. IInv => HoldersAreActive
  BY DEF IInv, LastActionIsState, HoldersAreActive, holdsItem, isActive
<1>2. QED
  BY Invariance, <1>1, PTL

\* No write, however stale the copy it was computed from, loses a move
THEOREM MovesAreNeverLost == Spec => HistoryOnlyGrows
<1>1. IInv /\ [Next]_vars =>
          [\A i \in Items : \A k \in 1..Len(items[i].history) :
               /\ k <= Len(items'[i].history)
               /\ items'[i].history[k] = items[i].history[k]]_items
  <2> SUFFICES ASSUME IInv, [Next]_vars, items' # items,
                      NEW i \in Items, NEW k \in 1..Len(items[i].history)
               PROVE  /\ k <= Len(items'[i].history)
                      /\ items'[i].history[k] = items[i].history[k]
    OBVIOUS
  <2>1. TypeOK
    BY DEF IInv
  <2>2. PICK r \in writing :
            /\ r.doc.rev = items[r.item].rev
            /\ items' = [items EXCEPT ![r.item] = [r.doc EXCEPT !.rev = r.doc.rev + 1]]
    BY ItemSteps
  <2>3. /\ items'[r.item].history = r.doc.history
        /\ \A j \in Items : j # r.item => items'[j] = items[j]
    BY <2>1, <2>2, Written
  <2>4. CASE i = r.item
    BY <2>2, <2>3, <2>4 DEF IInv, FreshWritesExtend
  <2>5. CASE i # r.item
    BY <2>1, <2>3, <2>5 DEF TypeOK, ItemDoc
  <2>6. QED
    BY <2>4, <2>5
<1>2. QED
  BY Invariance, <1>1, PTL DEF Spec, HistoryOnlyGrows

-----------------------------------------------------------------------------
(* Handlers that do not overlap: their checks still hold when they write       *)

NonOverlapping == \A a, b \in Slots : a = b

\* one request or one update is in flight, or the cancellations of a deleted account
InFlightAlone ==
    /\ \A q, r \in requesting : q = r
    /\ requesting = {} \/ updating = {}
    /\ \A q, r \in updating : q # r => /\ q.transaction # r.transaction
                                       /\ q.state = "cancelled"

\* the state it is about to write may follow the one that is written
UpdatesAreValid == \A r \in updating : r.state \in next[transactions[r.transaction].state]

\* the item about to be promised is free
AcceptsAreFree ==
    \A r \in updating : r.state = "accepted" /\ r.step = "update"
                            => ~itemIsBusy(transactions[r.transaction].item)

\* the requester has no other active transaction on the item
Pending(t, u, i) ==
    /\ isActive(transactions[t])
    /\ transactions[t].item = i
    /\ u \in {transactions[t].owner, transactions[t].requester}
RequestsAreFirst ==
    \A r \in requesting : r.step = "create" =>
        \A t \in Existing : ~Pending(t, r.user, r.item)

SequentialInv ==
    /\ IInv
    /\ InFlightAlone /\ UpdatesAreValid /\ AcceptsAreFree /\ RequestsAreFirst
    /\ AtMostOneHolder /\ LegalActions /\ OneActiveRequestPerUser

\* What the states are reached from
LEMMA Predecessors ==
    ASSUME NEW s \in States
    PROVE  /\ "accepted" \in next[s] => s = "requested"
           /\ "confirmed" \in next[s] => s = "accepted"
           /\ "requested" \notin next[s]
  BY DEF next, States

\* A handler starts when nothing is in flight
LEMMA StartsAlone ==
    ASSUME NonOverlapping, TypeOK, NEW id \in Slots, Free(id)
    PROVE  requesting = {} /\ updating = {}
  BY DEF NonOverlapping, TypeOK, Free, Requesting, Updating

\* The steps that write no transaction
LEMMA OtherSteps ==
    ASSUME [Next]_vars
    PROVE  \/ UNCHANGED transactions
           \/ \E r \in requesting, t \in TransactionIds : CreateTransaction(r, t)
           \/ \E r \in updating : UpdateState(r)
  BY DEF Next, RequestNext, UpdateNext, ItemNext, vars, RequestItem,
     VerifyRightToRequest, VerifyNoExistingTransaction, RejectNotRequestable,
     StartUpdateState, CheckForConcurrentTransactions, CancelAllActiveTransactions,
     ChangeOwner, UpdateItem, DeleteItem, ReadOwnItem, WriteItem, Crash

\* An update makes active or holding no transaction that was not active; only an
\* acceptance makes one hold its item
LEMMA UpdatesEnd ==
    ASSUME IInv, UpdatesAreValid, NEW r \in updating, UpdateState(r), NEW t \in Existing'
    PROVE  /\ t \in Existing
           /\ transactions'[t].item = transactions[t].item
           /\ transactions'[t].owner = transactions[t].owner
           /\ transactions'[t].requester = transactions[t].requester
           /\ isActive(transactions'[t]) => isActive(transactions[t])
           /\ holdsItem(transactions'[t]) => \/ holdsItem(transactions[t])
                                             \/ t = r.transaction /\ r.state = "accepted"
<1>1. TypeOK /\ r.transaction \in Existing
  BY DEF IInv, UpdatesAreGrounded
<1> DEFINE u == r.transaction
<1>2. /\ \A v \in Existing : Extended(v)
      /\ Last(transactions'[u].actions) = r.state
      /\ transactions'[u].state = r.state
      /\ t # u => t \in Existing /\ transactions'[t] = transactions[t]
  BY <1>1, UpdateExtends
<1>3. CASE t # u
  BY <1>2, <1>3
<1>4. CASE t = u
  <2>1. transactions[u] \in TransactionDoc /\ transactions[u].state \in States
    BY <1>1, ExistingDoc DEF TransactionDoc
  <2>2. r.state \in next[transactions[u].state]
    BY DEF UpdatesAreValid
  <2>3. /\ r.state = "accepted" => transactions[u].state = "requested"
        /\ r.state = "confirmed" => transactions[u].state = "accepted"
        /\ r.state # "requested"
    BY <2>1, <2>2, Predecessors
  <2>4. transactions'[u].transaction = transactions[u].transaction
    BY <1>1, <1>2 DEF Extended
  <2>5. Last(transactions[u].actions) = transactions[u].state
    BY <1>1 DEF IInv, LastActionIsState
  <2>6. isActive(transactions'[u]) => isActive(transactions[u])
    BY <1>2, <2>3, <2>4 DEF isActive
  <2>7. holdsItem(transactions'[u]) => holdsItem(transactions[u]) \/ r.state = "accepted"
    BY <1>2, <2>3, <2>5 DEF holdsItem
  <2>8. /\ transactions'[u].item = transactions[u].item
        /\ transactions'[u].owner = transactions[u].owner
        /\ transactions'[u].requester = transactions[u].requester
    BY <1>1, <1>2 DEF Extended
  <2>9. QED
    BY <1>1, <1>4, <2>6, <2>7, <2>8
<1>5. QED
  BY <1>3, <1>4

\* A new transaction is active and holds nothing
LEMMA CreatesRequested ==
    ASSUME IInv, NEW r \in requesting, NEW n \in TransactionIds, CreateTransaction(r, n)
    PROVE  /\ transactions'[n].item = r.item /\ transactions'[n].requester = r.user
           /\ transactions'[n].actions = <<"requested">>
           /\ ~holdsItem(transactions'[n])
           /\ n \notin Existing
           /\ \A t \in Existing' : t # n => /\ t \in Existing
                                            /\ transactions'[t] = transactions[t]
<1>1. /\ transactions'[n] = newTransaction(r)
      /\ \A t \in Existing' : t # n => t \in Existing /\ transactions'[t] = transactions[t]
  BY CreateExtends DEF IInv
<1>2. n \notin Existing
  BY DEF CreateTransaction, Existing
<1>3. QED
  BY <1>1, <1>2 DEF newTransaction, holdsItem, Last

\* Requests and updates stay alone
LEMMA AloneStep ==
    ASSUME NonOverlapping, SequentialInv, [Next]_vars
    PROVE  InFlightAlone'
<1> USE DEF SequentialInv, IInv
<1>1. ASSUME NEW id \in Slots, NEW u \in Users, NEW i \in Items, RequestItem(id, u, i)
      PROVE  InFlightAlone'
  <2>1. requesting = {} /\ updating = {}
    BY <1>1, StartsAlone DEF RequestItem
  <2>2. QED
    BY <1>1, <2>1 DEF RequestItem, InFlightAlone
<1>2. ASSUME NEW r \in requesting,
             \/ VerifyRightToRequest(r) \/ VerifyNoExistingTransaction(r)
             \/ RejectNotRequestable(r) \/ \E t \in TransactionIds : CreateTransaction(r, t)
      PROVE  InFlightAlone'
  <2>1. requesting = {r} /\ updating = {} /\ updating' = updating
    BY <1>2 DEF InFlightAlone, VerifyRightToRequest, VerifyNoExistingTransaction,
       RejectNotRequestable, CreateTransaction
  <2>2. \A p, q \in requesting' : p = q
    BY <1>2, <2>1 DEF VerifyRightToRequest, VerifyNoExistingTransaction,
       RejectNotRequestable, CreateTransaction, Proceed
  <2>3. QED
    BY <2>1, <2>2 DEF InFlightAlone
<1>3. ASSUME NEW id \in Slots, NEW u \in Users, NEW t \in TransactionIds,
             NEW s \in States \ {"requested"}, StartUpdateState(id, u, t, s)
      PROVE  InFlightAlone'
  <2>1. requesting = {} /\ updating = {}
    BY <1>3, StartsAlone DEF StartUpdateState
  <2>2. QED
    BY <1>3, <2>1 DEF StartUpdateState, InFlightAlone
<1>4. ASSUME NEW r \in updating, CheckForConcurrentTransactions(r)
      PROVE  InFlightAlone'
  <2>1. requesting = {} /\ requesting' = requesting
    BY <1>4 DEF InFlightAlone, CheckForConcurrentTransactions
  <2>2. updating = {r} \/ r.state = "cancelled"
    BY DEF InFlightAlone
  <2> DEFINE checked == [r EXCEPT !.step = "update"]
  <2>3. checked.state = r.state /\ checked.transaction = r.transaction
    BY DEF TypeOK, Updating
  <2> HIDE DEF checked
  <2>4. updating' = (updating \ {r})
           \union (IF itemIsBusy(transactions[r.transaction].item) THEN {} ELSE {checked})
    BY <1>4 DEF CheckForConcurrentTransactions, checked
  <2>5. QED
    BY <2>1, <2>3, <2>4 DEF InFlightAlone
<1>5. ASSUME NEW r \in updating, UpdateState(r)
      PROVE  InFlightAlone'
  BY <1>5 DEF UpdateState, InFlightAlone
<1>6. ASSUME NEW id \in Slots, NEW u \in Users, CancelAllActiveTransactions(id, u)
      PROVE  InFlightAlone'
  <2>1. requesting = {} /\ updating = {} /\ requesting' = requesting
    BY <1>6, StartsAlone DEF CancelAllActiveTransactions
  <2>2. \A q \in updating' : \E t \in Existing :
            q = [id |-> id, user |-> u, transaction |-> t, state |-> "cancelled",
                 step |-> "update"]
    BY <1>6, <2>1 DEF CancelAllActiveTransactions
  <2>3. QED
    BY <2>1, <2>2 DEF InFlightAlone
<1>7. ASSUME UNCHANGED <<requesting, updating>>
      PROVE  InFlightAlone'
  BY <1>7 DEF InFlightAlone
<1>8. CASE Crash
  BY <1>8 DEF Crash, InFlightAlone
<1>9. QED
  BY <1>1, <1>2, <1>3, <1>4, <1>5, <1>6, <1>7, <1>8 DEF Next, RequestNext, UpdateNext,
     ItemNext, vars, ChangeOwner, UpdateItem, DeleteItem, ReadOwnItem, WriteItem

\* An update that is in flight is still of a state that may follow
LEMMA ValidStep ==
    ASSUME NonOverlapping, SequentialInv, [Next]_vars
    PROVE  UpdatesAreValid'
<1> USE DEF SequentialInv, IInv
<1> SUFFICES ASSUME NEW q \in updating'
             PROVE  q.state \in next[transactions'[q.transaction].state]
  BY DEF UpdatesAreValid
<1>1. ASSUME NEW id \in Slots, NEW u \in Users, NEW t \in TransactionIds,
             NEW s \in States \ {"requested"}, StartUpdateState(id, u, t, s)
      PROVE  q.state \in next[transactions'[q.transaction].state]
  <2>1. updating = {} /\ transactions' = transactions
    BY <1>1, StartsAlone DEF StartUpdateState
  <2>2. q.transaction = t /\ q.state = s /\ s \in next[transactions[t].state]
    BY <1>1, <2>1 DEF StartUpdateState, validatePossibleState
  <2>3. QED
    BY <2>1, <2>2
<1>2. ASSUME NEW r \in updating, CheckForConcurrentTransactions(r)
      PROVE  q.state \in next[transactions'[q.transaction].state]
  <2> DEFINE checked == [r EXCEPT !.step = "update"]
  <2>1. checked.state = r.state /\ checked.transaction = r.transaction
    BY DEF TypeOK, Updating
  <2>2. q \in updating \/ q = checked
    BY <1>2 DEF CheckForConcurrentTransactions
  <2>3. transactions' = transactions
    BY <1>2 DEF CheckForConcurrentTransactions
  <2> HIDE DEF checked
  <2>4. QED
    BY <2>1, <2>2, <2>3 DEF UpdatesAreValid
<1>3. ASSUME NEW r \in updating, UpdateState(r)
      PROVE  q.state \in next[transactions'[q.transaction].state]
  <2>1. q \in updating /\ q # r
    BY <1>3 DEF UpdateState
  <2>2. q.transaction # r.transaction
    BY <2>1 DEF InFlightAlone
  <2>3. /\ q.transaction \in TransactionIds
        /\ transactions'[q.transaction] = transactions[q.transaction]
    BY <1>3, <2>1, <2>2 DEF UpdateState, TypeOK, Updating
  <2>4. QED
    BY <2>1, <2>3 DEF UpdatesAreValid
<1>4. ASSUME NEW id \in Slots, NEW u \in Users, CancelAllActiveTransactions(id, u)
      PROVE  q.state \in next[transactions'[q.transaction].state]
  <2>1. updating = {} /\ transactions' = transactions
    BY <1>4, StartsAlone DEF CancelAllActiveTransactions
  <2>2. PICK t \in Existing : /\ q.transaction = t /\ q.state = "cancelled"
                              /\ isActive(transactions[t])
    BY <1>4, <2>1 DEF CancelAllActiveTransactions
  <2>3. "cancelled" \in next[transactions[t].state]
    BY <2>2 DEF isActive, next
  <2>4. QED
    BY <2>1, <2>2, <2>3
<1>5. ASSUME NEW r \in requesting, NEW t \in TransactionIds, CreateTransaction(r, t)
      PROVE  q.state \in next[transactions'[q.transaction].state]
  BY <1>5 DEF InFlightAlone, CreateTransaction
<1>6. ASSUME updating' \subseteq updating, UNCHANGED transactions
      PROVE  q.state \in next[transactions'[q.transaction].state]
  BY <1>6 DEF UpdatesAreValid
<1>7. QED
  BY <1>1, <1>2, <1>3, <1>4, <1>5, <1>6 DEF Next, RequestNext, UpdateNext, ItemNext, vars,
     RequestItem, VerifyRightToRequest, VerifyNoExistingTransaction, RejectNotRequestable,
     ChangeOwner, UpdateItem, DeleteItem, ReadOwnItem, WriteItem, Crash

\* The item that is about to be promised is still free
LEMMA FreeStep ==
    ASSUME NonOverlapping, SequentialInv, [Next]_vars
    PROVE  AcceptsAreFree'
<1> USE DEF SequentialInv, IInv
<1> SUFFICES ASSUME NEW q \in updating', q.state = "accepted", q.step = "update"
             PROVE  ~itemIsBusy(transactions[q.transaction].item)'
  BY DEF AcceptsAreFree
<1>1. ASSUME UNCHANGED transactions, ~itemIsBusy(transactions[q.transaction].item)
      PROVE  ~itemIsBusy(transactions[q.transaction].item)'
  BY <1>1 DEF itemIsBusy, busyHolders, Existing
<1>2. ASSUME NEW id \in Slots, NEW u \in Users, NEW t \in TransactionIds,
             NEW s \in States \ {"requested"}, StartUpdateState(id, u, t, s)
      PROVE  FALSE
  <2>1. updating = {}
    BY <1>2, StartsAlone DEF StartUpdateState
  <2>2. QED
    BY <1>2, <2>1 DEF StartUpdateState
<1>3. ASSUME NEW r \in updating, CheckForConcurrentTransactions(r)
      PROVE  ~itemIsBusy(transactions[q.transaction].item)'
  <2> DEFINE checked == [r EXCEPT !.step = "update"]
  <2>1. checked.transaction = r.transaction
    BY DEF TypeOK, Updating
  <2>2. /\ q \in updating \/ (q = checked /\ ~itemIsBusy(transactions[r.transaction].item))
        /\ transactions' = transactions
    BY <1>3 DEF CheckForConcurrentTransactions
  <2> HIDE DEF checked
  <2>3. QED
    BY <1>1, <2>1, <2>2 DEF AcceptsAreFree
<1>4. ASSUME NEW r \in updating, UpdateState(r)
      PROVE  FALSE
  <2>1. q \in updating /\ q # r
    BY <1>4 DEF UpdateState
  <2>2. QED
    BY <2>1 DEF InFlightAlone
<1>5. ASSUME NEW id \in Slots, NEW u \in Users, CancelAllActiveTransactions(id, u)
      PROVE  FALSE
  <2>1. updating = {}
    BY <1>5, StartsAlone DEF CancelAllActiveTransactions
  <2>2. QED
    BY <1>5, <2>1 DEF CancelAllActiveTransactions
<1>6. ASSUME NEW r \in requesting, NEW t \in TransactionIds, CreateTransaction(r, t)
      PROVE  FALSE
  BY <1>6 DEF InFlightAlone, CreateTransaction
<1>7. ASSUME updating' \subseteq updating, UNCHANGED transactions
      PROVE  ~itemIsBusy(transactions[q.transaction].item)'
  BY <1>1, <1>7 DEF AcceptsAreFree
<1>8. QED
  BY <1>2, <1>3, <1>4, <1>5, <1>6, <1>7 DEF Next, RequestNext, UpdateNext, ItemNext, vars,
     RequestItem, VerifyRightToRequest, VerifyNoExistingTransaction, RejectNotRequestable,
     ChangeOwner, UpdateItem, DeleteItem, ReadOwnItem, WriteItem, Crash

\* The transaction about to be created is still the first one of its requester
LEMMA FirstStep ==
    ASSUME NonOverlapping, SequentialInv, [Next]_vars
    PROVE  RequestsAreFirst'
<1> USE DEF SequentialInv, IInv
<1> SUFFICES ASSUME NEW q \in requesting', q.step = "create", NEW t \in Existing'
             PROVE  ~Pending(t, q.user, q.item)'
  BY DEF RequestsAreFirst
<1>1. ASSUME UNCHANGED transactions, \A v \in Existing : ~Pending(v, q.user, q.item)
      PROVE  ~Pending(t, q.user, q.item)'
  BY <1>1 DEF Pending, Existing
<1>2. ASSUME NEW id \in Slots, NEW u \in Users, NEW i \in Items, RequestItem(id, u, i)
      PROVE  FALSE
  <2>1. requesting = {}
    BY <1>2, StartsAlone DEF RequestItem
  <2>2. QED
    BY <1>2, <2>1 DEF RequestItem
<1>3. ASSUME NEW r \in requesting, VerifyRightToRequest(r)
      PROVE  ~Pending(t, q.user, q.item)'
  <2> DEFINE checked == [r EXCEPT !.step = "noExisting"]
  <2>1. checked.step = "noExisting"
    BY DEF TypeOK, Requesting
  <2>2. q \in requesting \/ q = checked
    BY <1>3 DEF VerifyRightToRequest, Proceed
  <2> HIDE DEF checked
  <2>3. QED
    BY <1>1, <1>3, <2>1, <2>2 DEF RequestsAreFirst, VerifyRightToRequest
<1>4. ASSUME NEW r \in requesting, VerifyNoExistingTransaction(r)
      PROVE  ~Pending(t, q.user, q.item)'
  <2> DEFINE checked == [r EXCEPT !.step = "create"]
  <2>1. checked.user = r.user /\ checked.item = r.item
    BY DEF TypeOK, Requesting
  <2>2. q \in requesting \/ (q = checked /\ \A v \in byUserAndItem(r.user, r.item) :
                                                ~isActive(transactions[v]))
    BY <1>4 DEF VerifyNoExistingTransaction, Proceed
  <2>3. transactions' = transactions
    BY <1>4 DEF VerifyNoExistingTransaction
  <2> HIDE DEF checked
  <2>4. QED
    BY <1>1, <2>1, <2>2, <2>3 DEF RequestsAreFirst, byUserAndItem, Pending
<1>5. ASSUME NEW r \in requesting, NEW n \in TransactionIds, CreateTransaction(r, n)
      PROVE  FALSE
  BY <1>5 DEF InFlightAlone, CreateTransaction
<1>6. ASSUME NEW r \in updating, UpdateState(r)
      PROVE  FALSE
  BY <1>6 DEF InFlightAlone, UpdateState
<1>7. ASSUME requesting' \subseteq requesting, UNCHANGED transactions
      PROVE  ~Pending(t, q.user, q.item)'
  BY <1>1, <1>7 DEF RequestsAreFirst
<1>8. QED
  BY <1>2, <1>3, <1>4, <1>5, <1>6, <1>7 DEF Next, RequestNext, UpdateNext, ItemNext, vars,
     RejectNotRequestable, StartUpdateState, CheckForConcurrentTransactions,
     CancelAllActiveTransactions, ChangeOwner, UpdateItem, DeleteItem, ReadOwnItem,
     WriteItem, Crash

\* An item gets no second holder
LEMMA HolderStep ==
    ASSUME NonOverlapping, SequentialInv, [Next]_vars
    PROVE  AtMostOneHolder'
<1> USE DEF SequentialInv
<1>1. ASSUME NEW r \in requesting, NEW n \in TransactionIds, CreateTransaction(r, n)
      PROVE  AtMostOneHolder'
  BY <1>1, CreatesRequested DEF AtMostOneHolder, busyHolders
<1>2. ASSUME NEW r \in updating, UpdateState(r)
      PROVE  AtMostOneHolder'
  <2> SUFFICES ASSUME NEW i \in Items, NEW t \in busyHolders(i)', NEW u \in busyHolders(i)'
               PROVE  t = u
    BY DEF AtMostOneHolder
  <2>1. ASSUME NEW v \in busyHolders(i)'
        PROVE  \/ v \in busyHolders(i)
               \/ /\ v = r.transaction /\ r.state = "accepted"
                  /\ transactions[v].item = i
    BY <1>2, UpdatesEnd DEF busyHolders
  <2>2. r.state = "accepted" => busyHolders(transactions[r.transaction].item) = {}
    <3>1. r.step = "update"
      BY <1>2 DEF UpdateState
    <3>2. QED
      BY <3>1 DEF AcceptsAreFree, itemIsBusy
  <2>3. QED
    BY <2>1, <2>2 DEF AtMostOneHolder
<1>3. ASSUME UNCHANGED transactions
      PROVE  AtMostOneHolder'
  BY <1>3 DEF AtMostOneHolder, busyHolders, Existing
<1>4. QED
  BY <1>1, <1>2, <1>3, OtherSteps

\* An action is appended after one that allows it
LEMMA LegalStep ==
    ASSUME NonOverlapping, SequentialInv, [Next]_vars
    PROVE  LegalActions'
<1> USE DEF SequentialInv
<1>1. ASSUME NEW r \in requesting, NEW n \in TransactionIds, CreateTransaction(r, n)
      PROVE  LegalActions'
  <2>1. \A k \in 1..(Len(transactions'[n].actions) - 1) : FALSE
    <3>1. transactions'[n].actions = <<"requested">>
      BY <1>1, CreatesRequested
    <3>2. Len(<<"requested">>) = 1 /\ 1..(1 - 1) = {}
      OBVIOUS
    <3>3. Len(transactions'[n].actions) = 1
      BY <3>1, <3>2
    <3>4. QED
      BY <3>2, <3>3
  <2>2. \A t \in Existing' : t # n => t \in Existing /\ transactions'[t] = transactions[t]
    BY <1>1, CreatesRequested
  <2>3. QED
    BY <2>1, <2>2 DEF LegalActions
<1>2. ASSUME NEW r \in updating, UpdateState(r)
      PROVE  LegalActions'
  <2> DEFINE u == r.transaction
             old == transactions[u]
  <2>1. u \in Existing /\ old \in TransactionDoc /\ r.state \in States /\ TypeOK
    BY ExistingDoc DEF IInv, UpdatesAreGrounded, TypeOK, Updating
  <2>2. transactions'[u] = stateUpdater(old, r.state)
    BY <1>2, <2>1, ExistingDoc DEF UpdateState, TypeOK
  <2>3. transactions'[u].actions = Append(old.actions, r.state)
    BY <2>1, <2>2 DEF stateUpdater, TransactionDoc
  <2>4. old.actions \in Seq(States) /\ Len(old.actions) \in Nat /\ Len(old.actions) > 0
    BY <2>1 DEF TransactionDoc, IInv, LastActionIsState
  <2>5. r.state \in next[old.actions[Len(old.actions)]]
    BY <2>1 DEF UpdatesAreValid, IInv, LastActionIsState, Last
  <2>6. ASSUME NEW k \in 1..(Len(transactions'[u].actions) - 1)
        PROVE  transactions'[u].actions[k + 1] \in next[transactions'[u].actions[k]]
    <3> DEFINE now == Append(old.actions, r.state)
    <3>1. /\ Len(now) = Len(old.actions) + 1 /\ now[Len(old.actions) + 1] = r.state
          /\ \A j \in 1..Len(old.actions) : now[j] = old.actions[j]
      BY <2>1, <2>4, AppendType
    <3>2. k \in 1..Len(old.actions)
      BY <2>3, <2>4, <3>1
    <3> HIDE DEF now
    <3>3. CASE k = Len(old.actions)
      BY <2>3, <2>5, <3>1, <3>2, <3>3 DEF now
    <3>4. CASE k # Len(old.actions)
      <4>1. k \in 1..(Len(old.actions) - 1) /\ k + 1 \in 1..Len(old.actions)
        BY <2>4, <3>2, <3>4
      <4>2. old.actions[k + 1] \in next[old.actions[k]]
        BY <2>1, <4>1 DEF LegalActions
      <4>3. QED
        BY <2>3, <3>1, <3>2, <4>1, <4>2 DEF now
    <3>5. QED
      BY <3>3, <3>4
  <2>7. \A t \in Existing' : t # u => t \in Existing /\ transactions'[t] = transactions[t]
    BY <1>2, <2>1, UpdateExtends
  <2>8. QED
    BY <2>6, <2>7 DEF LegalActions
<1>3. ASSUME UNCHANGED transactions
      PROVE  LegalActions'
  BY <1>3 DEF LegalActions, Existing
<1>4. QED
  BY <1>1, <1>2, <1>3, OtherSteps

\* A requester gets no second active transaction on an item
LEMMA OneRequestStep ==
    ASSUME NonOverlapping, SequentialInv, [Next]_vars
    PROVE  OneActiveRequestPerUser'
<1> USE DEF SequentialInv
<1>1. ASSUME NEW r \in requesting, NEW n \in TransactionIds, CreateTransaction(r, n)
      PROVE  OneActiveRequestPerUser'
  <2>1. /\ transactions'[n].item = r.item /\ transactions'[n].requester = r.user
        /\ \A t \in Existing' : t # n => /\ t \in Existing
                                         /\ transactions'[t] = transactions[t]
    BY <1>1, CreatesRequested
  <2>2. \A t \in Existing : ~Pending(t, r.user, r.item)
    BY <1>1 DEF RequestsAreFirst, CreateTransaction
  <2>3. ASSUME NEW t \in Existing', t # n, isActive(transactions'[t]),
               transactions'[t].item = r.item
        PROVE  transactions'[t].requester # r.user
    BY <2>1, <2>2, <2>3 DEF Pending
  <2>4. ASSUME NEW t \in Existing', NEW u \in Existing', t # u,
               isActive(transactions'[t]), isActive(transactions'[u]),
               transactions'[t].item = transactions'[u].item
        PROVE  transactions'[t].requester # transactions'[u].requester
    BY <2>1, <2>3, <2>4 DEF OneActiveRequestPerUser
  <2>5. QED
    BY <2>4 DEF OneActiveRequestPerUser
<1>2. ASSUME NEW r \in updating, UpdateState(r)
      PROVE  OneActiveRequestPerUser'
  BY <1>2, UpdatesEnd DEF OneActiveRequestPerUser
<1>3. ASSUME UNCHANGED transactions
      PROVE  OneActiveRequestPerUser'
  BY <1>3 DEF OneActiveRequestPerUser, Existing
<1>4. QED
  BY <1>1, <1>2, <1>3, OtherSteps

LEMMA SequentialStart == Init => SequentialInv
  BY InitInv DEF Init, SequentialInv, InFlightAlone, UpdatesAreValid, AcceptsAreFree,
     RequestsAreFirst, AtMostOneHolder, busyHolders, LegalActions, OneActiveRequestPerUser,
     Existing

LEMMA SequentialInvariance == NonOverlapping => (Spec => []SequentialInv)
<1> SUFFICES ASSUME NonOverlapping
             PROVE  Spec => []SequentialInv
  OBVIOUS
<1>1. SequentialInv /\ [Next]_vars => SequentialInv'
  <2> SUFFICES ASSUME SequentialInv, [Next]_vars PROVE SequentialInv'
    OBVIOUS
  <2>1. IInv'
    BY InvariantStep DEF SequentialInv
  <2>2. QED
    BY <2>1, AloneStep, ValidStep, FreeStep, FirstStep, HolderStep, LegalStep, OneRequestStep
       DEF SequentialInv
<1>2. QED
  BY SequentialStart, <1>1, PTL DEF Spec

\* With handlers that do not overlap, an item is promised or lent to one requester at a
\* time, for any users, items and transactions (update_state.js:41-51)
THEOREM OneHolderAtATime == NonOverlapping => (Spec => []AtMostOneHolder)
<1> SUFFICES ASSUME NonOverlapping
             PROVE  Spec => []AtMostOneHolder
  OBVIOUS
<1>1. SequentialInv => AtMostOneHolder
  BY DEF SequentialInv
<1>2. QED
  BY SequentialInvariance, <1>1, PTL

\* ... every action of a transaction is one the previous one allows
\* (models/transaction.js:51-59)
THEOREM ActionsAreLegal == NonOverlapping => (Spec => []LegalActions)
<1> SUFFICES ASSUME NonOverlapping
             PROVE  Spec => []LegalActions
  OBVIOUS
<1>1. SequentialInv => LegalActions
  BY DEF SequentialInv
<1>2. QED
  BY SequentialInvariance, <1>1, PTL

\* ... and a user has one active request of an item at most (rights_verification.js:9-21)
THEOREM RequestsAreSingle == NonOverlapping => (Spec => []OneActiveRequestPerUser)
<1> SUFFICES ASSUME NonOverlapping
             PROVE  Spec => []OneActiveRequestPerUser
  OBVIOUS
<1>1. SequentialInv => OneActiveRequestPerUser
  BY DEF SequentialInv
<1>2. QED
  BY SequentialInvariance, <1>1, PTL

-----------------------------------------------------------------------------
(* The pages of the client *)

\* The two parties of a transaction stay two
LEMMA RequestersStep ==
    IInv /\ RequestersAreNotOwners /\ [Next]_vars => RequestersAreNotOwners'
<1> SUFFICES ASSUME IInv, RequestersAreNotOwners, [Next]_vars
             PROVE  RequestersAreNotOwners'
  OBVIOUS
<1> USE DEF RequestersAreNotOwners
<1>0. TypeOK /\ UpdatesAreGrounded
  BY DEF IInv
<1>1. ASSUME NEW r \in requesting, NEW t \in TransactionIds, CreateTransaction(r, t)
      PROVE  RequestersAreNotOwners'
  <2>1. /\ transactions'[t] = newTransaction(r)
        /\ \A u \in Existing' : u # t => u \in Existing /\ transactions'[u] = transactions[u]
    BY <1>0, <1>1, CreateExtends
  <2>2. newTransaction(r).owner # newTransaction(r).requester
    BY <1>1 DEF CreateTransaction, newTransaction
  <2>3. QED
    BY <1>1, <2>1, <2>2 DEF CreateTransaction
<1>2. ASSUME NEW r \in updating, UpdateState(r)
      PROVE  RequestersAreNotOwners'
  <2>1. /\ \A u \in Existing' : u \in Existing
        /\ \A u \in Existing : Extended(u)
    BY <1>0, <1>2, UpdateExtends DEF UpdatesAreGrounded
  <2>2. QED
    BY <1>2, <2>1 DEF UpdateState, Extended
<1>3. ASSUME NEW r \in requesting, VerifyRightToRequest(r)
      PROVE  RequestersAreNotOwners'
  BY <1>0, <1>3 DEF VerifyRightToRequest, Proceed, mayInteract, Existing, TypeOK, Requesting
<1>4. ASSUME NEW r \in requesting, VerifyNoExistingTransaction(r)
      PROVE  RequestersAreNotOwners'
  BY <1>0, <1>4 DEF VerifyNoExistingTransaction, Proceed, Existing, TypeOK, Requesting
<1>5. ASSUME UNCHANGED transactions,
             \A r \in requesting' : r \in requesting \/ r.step = "itemIsBusy"
      PROVE  RequestersAreNotOwners'
  BY <1>5 DEF Existing
<1>6. ASSUME NEW id \in Slots, NEW u \in Users, NEW i \in Items, RequestItem(id, u, i)
      PROVE  RequestersAreNotOwners'
  BY <1>5, <1>6 DEF RequestItem
<1>7. ASSUME NEW r \in requesting, RejectNotRequestable(r)
      PROVE  RequestersAreNotOwners'
  BY <1>5, <1>7 DEF RejectNotRequestable
<1> HIDE DEF RequestersAreNotOwners
<1>8. CASE RequestNext
  BY <1>1, <1>3, <1>4, <1>6, <1>7, <1>8 DEF RequestNext
<1>9. CASE UpdateNext
  BY <1>2, <1>5, <1>9 DEF UpdateNext, StartUpdateState, CheckForConcurrentTransactions,
                          CancelAllActiveTransactions
<1>10. CASE ItemNext
  BY <1>5, <1>10 DEF ItemNext, ChangeOwner, UpdateItem, DeleteItem, ReadOwnItem, WriteItem
<1>11. CASE Crash \/ UNCHANGED vars
  BY <1>5, <1>11 DEF Crash, vars
<1>12. QED
  BY <1>8, <1>9, <1>10, <1>11 DEF Next

\* Nothing but a loan is ever returned, or about to be
LEMMA ReturnsStep ==
    IInv /\ ReturnsAreOfLoans /\ [Next]_vars => ReturnsAreOfLoans'
<1> SUFFICES ASSUME IInv, ReturnsAreOfLoans, [Next]_vars
             PROVE  ReturnsAreOfLoans'
  OBVIOUS
<1> USE DEF ReturnsAreOfLoans
<1>0. /\ TypeOK /\ UpdatesAreGrounded
      /\ \A u \in Existing : Extended(u)
      /\ \A r \in updating : r.transaction \in Existing
  BY StepExtends DEF IInv, UpdatesAreGrounded
<1>1. ASSUME NEW r \in requesting, NEW t \in TransactionIds, CreateTransaction(r, t)
      PROVE  ReturnsAreOfLoans'
  <2>1. /\ transactions'[t] = newTransaction(r)
        /\ \A u \in Existing' : u # t => u \in Existing /\ transactions'[u] = transactions[u]
    BY <1>0, <1>1, CreateExtends
  <2>2. newTransaction(r).state # "returned"
    BY DEF newTransaction
  <2>3. QED
    BY <1>0, <1>1, <2>1, <2>2 DEF CreateTransaction, Extended
<1>2. ASSUME NEW r \in updating, UpdateState(r)
      PROVE  ReturnsAreOfLoans'
  <2>1. /\ r.transaction \in Existing
        /\ transactions'[r.transaction].state = r.state
        /\ \A u \in Existing' : u # r.transaction => /\ u \in Existing
                                                     /\ transactions'[u] = transactions[u]
    BY <1>0, <1>2, UpdateExtends
  <2>2. QED
    BY <1>0, <1>2, <2>1 DEF UpdateState, Extended
<1>3. ASSUME NEW id \in Slots, NEW u \in Users, NEW t \in TransactionIds,
             NEW s \in States \ {"requested"}, StartUpdateState(id, u, t, s)
      PROVE  ReturnsAreOfLoans'
  BY <1>3 DEF StartUpdateState, validatePossibleState, Existing
<1>4. ASSUME NEW r \in updating, CheckForConcurrentTransactions(r)
      PROVE  ReturnsAreOfLoans'
  BY <1>0, <1>4 DEF CheckForConcurrentTransactions, Existing, TypeOK, Updating
<1>5. ASSUME NEW id \in Slots, NEW u \in Users, CancelAllActiveTransactions(id, u)
      PROVE  ReturnsAreOfLoans'
  BY <1>5 DEF CancelAllActiveTransactions, Existing
<1>6. ASSUME UNCHANGED transactions, updating' \subseteq updating
      PROVE  ReturnsAreOfLoans'
  BY <1>6 DEF Existing
<1>7. QED
  BY <1>1, <1>2, <1>3, <1>4, <1>5, <1>6 DEF Next, RequestNext, UpdateNext, ItemNext, vars,
     RequestItem, VerifyRightToRequest, VerifyNoExistingTransaction, Proceed,
     RejectNotRequestable, ChangeOwner, UpdateItem, DeleteItem, ReadOwnItem,
     WriteItem, Crash

\* A page shows the buttons of its own party, for any document with two parties and,
\* if returned, of a loan
LEMMA PageOfDocument ==
    ASSUME NEW doc \in TransactionDoc, doc.owner # doc.requester,
           doc.state = "returned" => doc.transaction = "lending"
    PROVE  /\ \A u \in {doc.owner, doc.requester} : \A s \in buttons(doc, role(u, doc)) :
                  hasRight(u, s, doc) /\ validatePossibleState(doc, s)
           /\ isActive(doc) <=> \E r \in Roles : buttons(doc, r) # {}
           /\ \A r \in Roles : isArchived(doc, r) <=> ~isActive(doc)
<1>1. doc.state \in States /\ doc.transaction \in requestable
  BY DEF TransactionDoc
<1> DEFINE ofOwner == findNextActions(doc, "owner")
           ofRequester == findNextActions(doc, "requester")
<1>2. /\ ofOwner = CASE doc.state = "requested" -> "accept/decline"
                     [] doc.state = "accepted" -> "waiting:confirmed"
                     [] doc.state = "confirmed" /\ doc.transaction = "lending" -> "returned"
                     [] OTHER -> "null"
      /\ ofRequester = CASE doc.state = "requested" -> "waiting:accepted"
                         [] doc.state = "accepted" -> "confirm"
                         [] doc.state = "confirmed" /\ doc.transaction = "lending"
                              -> "waiting:returned"
                         [] OTHER -> "null"
  <2>1. CASE doc.state = "requested"
    BY <1>1, <2>1 DEF findNextActions, getNextActionsList, nextActionsWithReturn,
                      basicNextActions, States
  <2>2. CASE doc.state = "accepted"
    BY <1>1, <2>2 DEF findNextActions, getNextActionsList, nextActionsWithReturn,
                      basicNextActions, States
  <2>3. CASE doc.state = "confirmed"
    BY <1>1, <2>3 DEF findNextActions, getNextActionsList, nextActionsWithReturn,
                      basicNextActions, States
  <2>4. CASE doc.state \in {"declined", "cancelled", "returned"}
    BY <1>1, <2>4 DEF findNextActions, getNextActionsList, nextActionsWithReturn,
                      basicNextActions, States
  <2>5. QED
    BY <1>1, <2>1, <2>2, <2>3, <2>4 DEF States
<1>3. isActive(doc) <=> \/ doc.state \in {"requested", "accepted"}
                        \/ doc.state = "confirmed" /\ doc.transaction = "lending"
  BY DEF isActive
<1>3a. /\ \A s \in {"accepted", "declined", "returned", "cancelled"} : hasRight(doc.owner, s, doc)
       /\ \A s \in {"confirmed", "cancelled"} : hasRight(doc.requester, s, doc)
  BY DEF hasRight, actor
<1>4. \A s : /\ s \in buttons(doc, "owner") <=>
                  \/ s \in {"accepted", "declined"} /\ doc.state = "requested"
                  \/ s = "returned" /\ doc.state = "confirmed" /\ doc.transaction = "lending"
                  \/ s = "cancelled" /\ doc.state = "accepted"
                  \/ s = "cancelled" /\ doc.state = "confirmed" /\ doc.transaction = "lending"
             /\ s \in buttons(doc, "requester") <=>
                  \/ s = "confirmed" /\ doc.state = "accepted"
                  \/ s = "cancelled" /\ doc.state \in {"requested", "accepted"}
                  \/ s = "cancelled" /\ doc.state = "confirmed" /\ doc.transaction = "lending"
  <2>1. buttons(doc, "owner") =
            {s \in States :
                \/ s \in {"accepted", "declined"} /\ ofOwner = "accept/decline"
                \/ s = "confirmed" /\ ofOwner = "confirm"
                \/ s = "returned" /\ ofOwner = "returned"
                \/ s = "cancelled" /\ doc.state \in cancellableStates(doc, "owner")}
    BY DEF buttons
  <2>2. buttons(doc, "requester") =
            {s \in States :
                \/ s \in {"accepted", "declined"} /\ ofRequester = "accept/decline"
                \/ s = "confirmed" /\ ofRequester = "confirm"
                \/ s = "returned" /\ ofRequester = "returned"
                \/ s = "cancelled" /\ doc.state \in cancellableStates(doc, "requester")}
    BY DEF buttons
  <2> HIDE DEF ofOwner, ofRequester
  <2>3. QED
    BY <1>1, <1>2, <2>1, <2>2 DEF cancellableStates, States
<1>5. role(doc.owner, doc) = "owner" /\ role(doc.requester, doc) = "requester"
  BY DEF role
<1>6. \A s \in buttons(doc, "owner") :
          hasRight(doc.owner, s, doc) /\ validatePossibleState(doc, s)
  BY <1>3a, <1>4 DEF validatePossibleState, next
<1>7. \A s \in buttons(doc, "requester") :
          hasRight(doc.requester, s, doc) /\ validatePossibleState(doc, s)
  BY <1>3a, <1>4 DEF validatePossibleState, next
<1>8. isActive(doc) <=> \E r \in Roles : buttons(doc, r) # {}
  <2>1. ASSUME isActive(doc) PROVE "cancelled" \in buttons(doc, "requester")
    BY <1>3, <1>4, <2>1
  <2>2. ASSUME NEW r \in Roles, NEW s \in buttons(doc, r) PROVE isActive(doc)
    BY <1>3, <1>4, <2>2 DEF Roles
  <2>3. QED
    BY <2>1, <2>2 DEF Roles
<1>9. \A r \in Roles : isArchived(doc, r) <=> ~isActive(doc)
  BY <1>1, <1>2, <1>3 DEF isArchived, Roles, States
<1>10. QED
  BY <1>5, <1>6, <1>7, <1>8, <1>9

\* Whatever course a transaction took, handlers overlapping or not, its pages offer each
\* party what the server accepts from it, as long as the server finds it active
THEOREM PagesAreInSync == Spec => []PagesFollowTheServer
<1>1. Init => PagesInv
  <2>1. Init => IInv
    BY InitInv
  <2>2. Init => RequestersAreNotOwners /\ ReturnsAreOfLoans
    BY DEF Init, RequestersAreNotOwners, ReturnsAreOfLoans, Existing
  <2>3. QED
    BY <2>1, <2>2 DEF PagesInv
<1>2. PagesInv /\ [Next]_vars => PagesInv'
  BY InvariantStep, RequestersStep, ReturnsStep DEF PagesInv
<1>3. PagesInv => PagesFollowTheServer
  BY ExistingDoc, PageOfDocument
     DEF PagesInv, IInv, PagesFollowTheServer, RequestersAreNotOwners, ReturnsAreOfLoans
<1>4. QED
  BY <1>1, <1>2, <1>3, PTL DEF Spec
=============================================================================
