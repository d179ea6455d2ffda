---------------------------- MODULE OwnershipProofs ----------------------------
(***************************************************************************)
(* Transactions implements Ownership, for every set of users, items and    *)
(* transactions, any number of handlers in flight and of restarts.         *)
(***************************************************************************)
EXTENDS TransactionsProofs

consented == {t \in Existing : Consented(transactions[t].item, t)}
agreementOf(t) == [item |-> transactions[t].item, giver |-> transactions[t].owner,
                   taker |-> transactions[t].requester]

\* The agreements are those of the consented transactions
LEMMA AgreementsOfConsented == agreements = {agreementOf(t) : t \in consented}
  BY DEF agreements, consented, agreementOf

\* A consented transaction stays one, and stands for the same agreement
LEMMA ConsentedStays ==
    ASSUME NEW t \in consented, Extended(t)
    PROVE  t \in consented' /\ agreementOf(t)' = agreementOf(t)
<1>1. Consented(transactions[t].item, t)'
  BY ConsentStays DEF consented, Extended, Consented, isOneWay, States
<1>2. QED
  BY <1>1 DEF consented, agreementOf, Extended

\* No agreement is forgotten
LEMMA AgreementsStay ==
    ASSUME IInv, [Next]_vars
    PROVE  agreements \subseteq agreements'
<1>1. \A t \in Existing : Extended(t)
  BY StepExtends DEF IInv
<1>2. ASSUME NEW a \in agreements PROVE a \in agreements'
  <2>1. PICK t \in consented : a = agreementOf(t)
    BY AgreementsOfConsented
  <2>2. t \in Existing
    BY DEF consented
  <2>3. t \in consented' /\ agreementOf(t)' = a
    BY <1>1, <2>1, <2>2, ConsentedStays
  <2>4. agreements' = {agreementOf(u)' : u \in consented'}
    BY DEF agreements, consented, agreementOf
  <2>5. QED
    BY <2>3, <2>4
<1>3. QED
  BY <1>2

\* An agreement is between two users about an item
LEMMA AgreementType ==
    ASSUME TypeOK, NEW t \in Existing
    PROVE  agreementOf(t) \in Promise!Agreement
  BY ExistingDoc DEF agreementOf, Promise!Agreement, TransactionDoc

\* A step that touches one transaction brings its agreement at most
LEMMA OneAgreement ==
    ASSUME IInv, [Next]_vars, NEW t,
           \A u \in Existing' : u # t => u \in Existing /\ transactions'[u] = transactions[u]
    PROVE  \/ agreements' = agreements
           \/ \E a \in Promise!Agreement : agreements' = agreements \union {a}
<1>1. TypeOK'
  BY TypeStep DEF IInv
<1>2. agreements \subseteq agreements'
  BY AgreementsStay
<1>3. agreements' = {agreementOf(u)' : u \in consented'}
  BY DEF agreements, consented, agreementOf
<1>4. ASSUME NEW u \in consented', u # t
      PROVE  agreementOf(u)' \in agreements
  <2>1. u \in Existing /\ transactions'[u] = transactions[u]
    BY <1>4 DEF consented
  <2>2. u \in consented /\ agreementOf(u)' = agreementOf(u)
    BY <2>1 DEF consented, Consented, Did, isOneWay, agreementOf
  <2>3. QED
    BY <2>2, AgreementsOfConsented
<1>5. CASE t \in consented'
  <2>1. agreements' = agreements \union {agreementOf(t)'}
    BY <1>2, <1>3, <1>4, <1>5
  <2>2. t \in Existing'
    BY <1>5 DEF consented
  <2>3. transactions'[t] \in TransactionDoc
    BY <1>1, <2>2, DocIsNotMissing DEF TypeOK, Existing
  <2>4. agreementOf(t)' \in Promise!Agreement
    BY <2>3 DEF agreementOf, Promise!Agreement, TransactionDoc
  <2>5. QED
    BY <2>1, <2>4
<1>6. CASE t \notin consented'
  BY <1>2, <1>3, <1>4, <1>6
<1>7. QED
  BY <1>5, <1>6

\* Agreements come one at a time
LEMMA AgreementsStep ==
    ASSUME IInv, [Next]_vars
    PROVE  \/ agreements' = agreements
           \/ \E a \in Promise!Agreement : agreements' = agreements \union {a}
<1>1. ASSUME NEW r \in requesting, NEW t \in TransactionIds, CreateTransaction(r, t)
      PROVE  \A u \in Existing' : u # t => u \in Existing /\ transactions'[u] = transactions[u]
  BY <1>1, CreateExtends DEF IInv
<1>2. ASSUME NEW r \in updating, UpdateState(r)
      PROVE  \A u \in Existing' : u # r.transaction =>
                 u \in Existing /\ transactions'[u] = transactions[u]
  BY <1>2, UpdateExtends DEF IInv, UpdatesAreGrounded
<1>3. CASE UNCHANGED transactions
  BY <1>3 DEF agreements, Existing, Consented, Did, isOneWay
<1>4. QED
  BY <1>1, <1>2, <1>3, OneAgreement DEF Next, RequestNext, UpdateNext, ItemNext, vars,
     RequestItem, VerifyRightToRequest, VerifyNoExistingTransaction, RejectNotRequestable,
     StartUpdateState, CheckForConcurrentTransactions, CancelAllActiveTransactions,
     ChangeOwner, UpdateItem, DeleteItem, ReadOwnItem, WriteItem, Crash

\* What an item document about to be written makes of the owner
KeepsOrMoves(r) ==
    \/ r.doc.owner = items[r.item].owner
    \/ [item |-> r.item, giver |-> items[r.item].owner, taker |-> r.doc.owner] \in agreements

\* Every handler that reads an item to write it back keeps its owner, or moves it by
\* an agreement with its owner
LEMMA NewWritesKeepOrMove ==
    ASSUME IInv, [Next]_vars, NEW r \in writing', r \notin writing
    PROVE  KeepsOrMoves(r) /\ items' = items
<1> USE DEF IInv
<1>1. ASSUME NEW id \in Slots, NEW u \in Users, NEW i \in Items,
             NEW tr \in Offers, NEW l \in Audiences, UpdateItem(id, u, i, tr, l)
      PROVE  KeepsOrMoves(r)
  <2>1. r.item = i /\ r.doc = [items[i] EXCEPT !.transaction = tr, !.listing = l]
    BY <1>1 DEF UpdateItem, ReadOwnItem
  <2>2. r.doc.owner = items[i].owner
    BY <2>1 DEF TypeOK, ItemDoc
  <2>3. QED
    BY <2>1, <2>2 DEF KeepsOrMoves
<1>2. ASSUME NEW id \in Slots, NEW u \in Users, NEW i \in Items, DeleteItem(id, u, i)
      PROVE  KeepsOrMoves(r)
  <2> DEFINE doc == [items[i] EXCEPT !.deleted = TRUE]
  <2>1. doc.owner = items[i].owner
    BY DEF TypeOK, ItemDoc
  <2>2. ReadOwnItem(id, u, i, doc)
    BY <1>2 DEF DeleteItem
  <2> HIDE DEF doc
  <2>3. r.item = i /\ r.doc = doc
    BY <2>2 DEF ReadOwnItem
  <2>4. QED
    BY <2>1, <2>3 DEF KeepsOrMoves
<1>3. ASSUME NEW q \in transferring, ChangeOwner(q)
      PROVE  KeepsOrMoves(r)
  <2> DEFINE t == q.transaction
             transac == transactions[t]
             i == transac.item
  <2>1. t \in Existing /\ Consented(i, t) /\ transac \in TransactionDoc
    BY ExistingDoc DEF TransfersAreConsented
  <2>2. i \in Items /\ items[i] \in ItemDoc
    BY <2>1 DEF TransactionDoc, TypeOK
  <2>3. /\ r.item = i /\ r.doc = changeOwner(items[i], t, transac)
        /\ items[i].owner = transac.owner
    BY <1>3 DEF ChangeOwner
  <2>4. r.doc.owner = transac.requester
    BY <2>2, <2>3 DEF changeOwner, ItemDoc
  <2>5. agreementOf(t) \in agreements
    BY <2>1, AgreementsOfConsented DEF consented
  <2>6. QED
    BY <2>3, <2>4, <2>5 DEF agreementOf, KeepsOrMoves
<1>4. ASSUME writing' \subseteq writing
      PROVE  FALSE
  BY <1>4
<1>5. items' = items
  BY NewWrites
<1>6. QED
  BY <1>1, <1>2, <1>3, <1>4, <1>5 DEF Next, RequestNext, UpdateNext, ItemNext, vars,
     RequestItem, VerifyRightToRequest, VerifyNoExistingTransaction, CreateTransaction,
     RejectNotRequestable, StartUpdateState, CheckForConcurrentTransactions,
     CancelAllActiveTransactions, UpdateState, WriteItem, Crash

\* A document about to be written keeps or moves, until another write makes its rev an
\* old one
LEMMA FreshWritesStep ==
    IInv /\ FreshWritesKeepOrMove /\ [Next]_vars => FreshWritesKeepOrMove'
<1> SUFFICES ASSUME IInv, FreshWritesKeepOrMove, [Next]_vars, NEW r \in writing',
                    r.doc.rev = items'[r.item].rev
             PROVE  KeepsOrMoves(r)'
  BY DEF FreshWritesKeepOrMove, KeepsOrMoves
<1> USE DEF IInv
<1>1. ASSUME KeepsOrMoves(r), items'[r.item].owner = items[r.item].owner
      PROVE  KeepsOrMoves(r)'
  BY <1>1, AgreementsStay DEF KeepsOrMoves
<1>2. CASE r \notin writing
  BY <1>1, <1>2, NewWritesKeepOrMove
<1>3. ASSUME r \in writing, items' = items
      PROVE  KeepsOrMoves(r)
  BY <1>3 DEF FreshWritesKeepOrMove, KeepsOrMoves
<1>4. ASSUME r \in writing, NEW q \in writing, q.doc.rev = items[q.item].rev,
             items' = [items EXCEPT ![q.item] = [q.doc EXCEPT !.rev = q.doc.rev + 1]]
      PROVE  KeepsOrMoves(r) /\ items'[r.item].owner = items[r.item].owner
  <2>1. r.item \in Items /\ r.doc.rev \in Nat /\ r.doc.rev <= items[r.item].rev
    BY <1>4 DEF TypeOK, Writing, ItemDoc, FreshWritesExtend
  <2>2. /\ q.doc.rev \in Nat
        /\ items'[q.item].rev = q.doc.rev + 1
        /\ \A i \in Items : i # q.item => items'[i] = items[i]
    BY <1>4, Written
  <2>3. r.item # q.item
    BY <1>4, <2>1, <2>2
  <2>4. QED
    BY <1>4, <2>1, <2>2, <2>3 DEF FreshWritesKeepOrMove, KeepsOrMoves
<1>5. QED
  BY <1>1, <1>2, <1>3, <1>4, ItemSteps

\* Whatever an item becomes, its owner stays or is the taker of an agreement
LEMMA OwnerStep ==
    ASSUME IInv, FreshWritesKeepOrMove, [Next]_vars
    PROVE  [Promise!Next]_<<[i \in Items |-> items[i].owner], agreements>>
<1> USE DEF IInv
<1> DEFINE owner == [i \in Items |-> items[i].owner]
<1>1. CASE items' = items
  <2>1. owner' = owner
    BY <1>1
  <2>2. QED
    BY <2>1, AgreementsStep DEF Promise!Next, Promise!Agree
<1>2. ASSUME NEW r \in writing, r.doc.rev = items[r.item].rev, items' # items,
             items' = [items EXCEPT ![r.item] = [r.doc EXCEPT !.rev = r.doc.rev + 1]]
      PROVE  [Promise!Next]_<<owner, agreements>>
  <2>1. /\ r.item \in Items
        /\ items'[r.item].owner = r.doc.owner
        /\ \A i \in Items : i # r.item => items'[i] = items[i]
    BY <1>2, Written
  <2>2. owner' = [owner EXCEPT ![r.item] = r.doc.owner]
    BY <2>1
  <2>3. transactions' = transactions
    BY <1>2 DEF Next, RequestNext, UpdateNext, ItemNext, vars, RequestItem,
       VerifyRightToRequest, VerifyNoExistingTransaction, CreateTransaction,
       RejectNotRequestable, StartUpdateState, CheckForConcurrentTransactions,
       CancelAllActiveTransactions, UpdateState, ChangeOwner, UpdateItem, DeleteItem,
       ReadOwnItem, WriteItem, Crash
  <2>4. agreements' = agreements
    BY <2>3 DEF agreements, Existing, Consented, Did, isOneWay
  <2>5. CASE r.doc.owner = items[r.item].owner
    BY <2>1, <2>2, <2>4, <2>5
  <2>6. CASE [item |-> r.item, giver |-> items[r.item].owner, taker |-> r.doc.owner]
                 \in agreements
    <3>1. PICK a \in agreements :
              a = [item |-> r.item, giver |-> items[r.item].owner, taker |-> r.doc.owner]
      BY <2>6
    <3>2. a.item = r.item /\ a.giver = owner[r.item] /\ a.taker = r.doc.owner
      BY <2>1, <3>1
    <3>3. Promise!HandOver(a)
      BY <2>2, <2>4, <3>2 DEF Promise!HandOver
    <3>4. QED
      BY <3>3 DEF Promise!Next
  <2>7. QED
    BY <1>2, <2>5, <2>6 DEF FreshWritesKeepOrMove
<1>3. QED
  BY <1>1, <1>2, ItemSteps

\* Nobody has agreed to anything initially, and nothing is about to be written
LEMMA OwnershipInit == Init => FreshWritesKeepOrMove /\ Promise!Init
<1> SUFFICES ASSUME Init PROVE FreshWritesKeepOrMove /\ Promise!Init
  OBVIOUS
<1>1. \A i \in Items : items[i].owner \in Users
  BY DEF Init
<1>2. agreements = {}
  BY DEF Init, agreements, Existing
<1>3. QED
  BY <1>1, <1>2 DEF Promise!Init, FreshWritesKeepOrMove, Init

\* The transactions keep the promise of Ownership: whatever handlers overlap and
\* whenever the server restarts, an item goes from its owner to whom they agreed with
THEOREM Refinement == Spec => ImplementsOwnership
<1>1. IInv /\ FreshWritesKeepOrMove /\ [Next]_vars => FreshWritesKeepOrMove'
  BY FreshWritesStep
<1>2. Spec => [](IInv /\ FreshWritesKeepOrMove)
  BY <1>1, OwnershipInit, Invariance, PTL DEF Spec
<1>3. IInv /\ FreshWritesKeepOrMove /\ [Next]_vars =>
          [Promise!Next]_<<[i \in Items |-> items[i].owner], agreements>>
  BY OwnerStep
<1>4. QED
  BY <1>2, <1>3, OwnershipInit, PTL DEF Spec, ImplementsOwnership, Promise!Spec
=============================================================================
