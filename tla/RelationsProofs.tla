--------------------------- MODULE RelationsProofs ---------------------------
(***************************************************************************)
(* Type correctness of Relations and its consent invariants, for every set *)
(* of users, any number of handlers in flight and any restarts; and, for   *)
(* handlers that do not overlap, that relations implement Friendship.      *)
(***************************************************************************)
EXTENDS Relations, TLAPS

\* A pair of users has one document, whoever of them comes first
LEMMA DocIdPair ==
    ASSUME NEW u \in Users, NEW v \in Users, u # v
    PROVE  /\ docId(u, v) \in Pairs
           /\ docId(u, v) = docId(v, u)
           /\ Members(docId(u, v)) = {u, v}
           /\ requested(u, v) # requested(v, u)
           /\ requested(u, v) \in {"a-requested", "b-requested"}
  BY UsersAssumption DEF docId, Pairs, Members, requested

\* Two couples of users with the same document are the same couple
LEMMA DocIdInjective ==
    ASSUME NEW u \in Users, NEW v \in Users, u # v,
           NEW x \in Users, NEW y \in Users, x # y,
           docId(u, v) = docId(x, y)
    PROVE  (u = x /\ v = y) \/ (u = y /\ v = x)
  BY UsersAssumption DEF docId

\* What the solving of an intent comes to, for each effect
LEMMA SolvedFrom ==
    ASSUME NEW a, NEW s, NEW e \in solve(a, s)
    PROVE  /\ e \in Effects
           /\ e = "makeRequest" => s = "none"
           /\ e \in {"simultaneousRequest", "acceptRequest"} => s = "otherRequested"
  BY DEF solve, Effects

\* The relative status is read back as the status of the document
LEMMA RelativeStatus ==
    ASSUME NEW u \in Users, NEW v \in Users, NEW s \in Statuses
    PROVE  /\ userRelativeRequest(u, v, s) = "none" => s = "none"
           /\ userRelativeRequest(u, v, s) = "otherRequested" => s = requested(v, u)
  BY DEF userRelativeRequest, Statuses

-----------------------------------------------------------------------------
(* Type correctness *)

\* Every step of every handler keeps the types
LEMMA TypeStep == TypeOK /\ [Next]_vars => TypeOK'
<1> SUFFICES ASSUME TypeOK, [Next]_vars
             PROVE  TypeOK'
  OBVIOUS
<1> USE DEF TypeOK
<1>1. ASSUME NEW id \in Slots, NEW u \in Users, NEW v \in Users, NEW a \in Actions,
             SolveIntent(id, u, v, a)
      PROVE  TypeOK'
  <2> DEFINE status == userRelativeRequest(u, v, relations[docId(u, v)])
  <2> HIDE DEF status
  <2>1. PICK e \in solve(a, status) :
            intents' = intents \union
               {[id |-> id, user |-> u, other |-> v, effect |-> e, step |-> "put"]}
    BY <1>1 DEF SolveIntent, status
  <2>2. e \in Effects
    BY SolvedFrom
  <2>3. QED
    BY <1>1, <2>1, <2>2 DEF SolveIntent, Intent
<1>2. ASSUME NEW id \in Slots, NEW u \in Users, NEW v \in Users, ConvertInvitation(id, u, v)
      PROVE  TypeOK'
  <2>1. u # v
    BY <1>2, InvitationsAssumption DEF ConvertInvitation
  <2>2. QED
    BY <1>2, <2>1 DEF ConvertInvitation, Intent, Effects
<1>3. ASSUME NEW i \in intents, PutStatus(i)
      PROVE  TypeOK'
  <2> DEFINE p == docId(i.user, i.other)
  <2>1. /\ i.user \in Users /\ i.other \in Users /\ i.user # i.other
        /\ i.effect \in Effects /\ i.id \in Slots
    BY DEF Intent
  <2>2. p \in Pairs /\ newStatus(i) \in Statuses
    BY <2>1, DocIdPair DEF newStatus, Statuses
  <2> HIDE DEF p
  <2>3. relations' \in [Pairs -> Statuses]
    BY <1>3, <2>2 DEF PutStatus, p
  <2>4. touch(p) \subseteq Deleting
    BY DEF touch, Deleting
  <2>8. \A d \in touch(p), q \in Pairs : q \in d.fresh => d.user \in Members(q)
    BY DEF touch, Deleting
  <2>5. /\ intents' \subseteq Intent
        /\ \A j \in intents' : j.user # j.other
    BY <1>3, <2>1 DEF PutStatus, Intent
  <2>6. /\ wants' \in [Pairs -> SUBSET Users]
        /\ asked' \in [Pairs -> SUBSET Users]
    BY <1>3, <2>1 DEF PutStatus
  <2>7. QED
    BY <1>3, <2>3, <2>4, <2>5, <2>6, <2>8 DEF PutStatus, p, Members
<1>4. ASSUME NEW i \in intents, Notify(i)
      PROVE  TypeOK'
  BY <1>4 DEF Notify, accepted, Intent
<1>5. ASSUME NEW id \in Slots, NEW u \in Users, ReadUserRelations(id, u)
      PROVE  TypeOK'
  BY <1>5 DEF ReadUserRelations, Deleting, Members
<1>6. ASSUME NEW d \in deleting, BulkDelete(d)
      PROVE  TypeOK'
  <2>1. deleting' \subseteq Deleting
    BY <1>6 DEF BulkDelete, Deleting
  <2>2. \A e \in deleting', q \in Pairs : q \in e.fresh => e.user \in Members(q)
    BY <1>6 DEF BulkDelete, Deleting
  <2>3. QED
    BY <1>6, <2>1, <2>2 DEF BulkDelete, Statuses, Members
<1>7. ASSUME Crash
      PROVE  TypeOK'
  BY <1>7 DEF Crash
<1>8. ASSUME UNCHANGED vars
      PROVE  TypeOK'
  BY <1>8 DEF vars
<1>9. QED
  BY <1>1, <1>2, <1>3, <1>4, <1>5, <1>6, <1>7, <1>8 DEF Next

-----------------------------------------------------------------------------
(* Consent *)

\* What was asked stays asked when nothing is written but removals
LEMMA AskedStays ==
    ASSUME TypeOK, RequestsWereAsked, FriendsBothAsked, ToldOfTheirOwnRequests,
           asked' = asked, notified' = notified,
           \A p \in Pairs : relations'[p] \in {relations[p], "none"}
    PROVE  RequestsWereAsked' /\ FriendsBothAsked' /\ ToldOfTheirOwnRequests'
<1>1. RequestsWereAsked'
  <2>1. ASSUME NEW u \in Users, NEW v \in Users, u # v,
               relations'[docId(u, v)] = requested(u, v)
        PROVE  u \in asked'[docId(u, v)]
    <3>1. docId(u, v) \in Pairs /\ requested(u, v) # "none"
      BY <2>1, DocIdPair
    <3>2. relations[docId(u, v)] = requested(u, v)
      BY <2>1, <3>1
    <3>3. QED
      BY <2>1, <3>2 DEF RequestsWereAsked
  <2>2. QED
    BY <2>1 DEF RequestsWereAsked, docId, requested
<1>2. FriendsBothAsked'
  BY DEF FriendsBothAsked, Members, Pairs
<1>3. ToldOfTheirOwnRequests'
  BY DEF ToldOfTheirOwnRequests, docId
<1>4. QED
  BY <1>1, <1>2, <1>3

\* A new intent, justified, joins the others
LEMMA JustifiedIntent ==
    ASSUME IntentsAreJustified, asked' = asked,
           NEW id, NEW u, NEW v, NEW e,
           intents' = intents \union
              {[id |-> id, user |-> u, other |-> v, effect |-> e, step |-> "put"]},
           e \in {"simultaneousRequest", "acceptRequest"} => v \in asked[docId(u, v)]
    PROVE  IntentsAreJustified'
<1> DEFINE new == [id |-> id, user |-> u, other |-> v, effect |-> e, step |-> "put"]
<1>1. /\ new.user = u /\ new.other = v /\ new.effect = e /\ new.step = "put"
      /\ intents' = intents \union {new}
  OBVIOUS
<1> HIDE DEF new
<1>2. ASSUME NEW i \in intents'
      PROVE  /\ i.effect \in {"simultaneousRequest", "acceptRequest"}
                   => i.other \in asked'[docId(i.user, i.other)]
             /\ i.step = "notify" => i.user \in asked'[docId(i.user, i.other)]
  <2>1. CASE i \in intents
    BY <2>1 DEF IntentsAreJustified
  <2>2. CASE i = new
    BY <1>1, <2>2
  <2>3. QED
    BY <1>1, <2>1, <2>2
<1>3. QED
  BY <1>2 DEF IntentsAreJustified, docId

\* Every step keeps the consent invariants
LEMMA ConsentStep == IInv /\ [Next]_vars => IInv'
<1> SUFFICES ASSUME IInv, [Next]_vars
             PROVE  IInv'
  OBVIOUS
<1>0. TypeOK'
  BY TypeStep DEF IInv
<1> USE DEF IInv
<1>1. ASSUME NEW id \in Slots, NEW u \in Users, NEW v \in Users, NEW a \in Actions,
             SolveIntent(id, u, v, a)
      PROVE  IInv'
  <2> DEFINE status == userRelativeRequest(u, v, relations[docId(u, v)])
  <2> HIDE DEF status
  <2>1. PICK e \in solve(a, status) :
            intents' = intents \union
               {[id |-> id, user |-> u, other |-> v, effect |-> e, step |-> "put"]}
    BY <1>1 DEF SolveIntent, status
  <2>2. u # v /\ docId(u, v) \in Pairs /\ docId(u, v) = docId(v, u)
    BY <1>1, DocIdPair DEF SolveIntent
  <2>3. relations[docId(u, v)] \in Statuses
    BY <2>2 DEF TypeOK
  <2>4. e \in {"simultaneousRequest", "acceptRequest"} => v \in asked[docId(u, v)]
    <3>1. SUFFICES ASSUME e \in {"simultaneousRequest", "acceptRequest"}
                   PROVE  v \in asked[docId(u, v)]
      OBVIOUS
    <3>2. relations[docId(v, u)] = requested(v, u)
      BY <3>1, <2>2, <2>3, SolvedFrom, RelativeStatus DEF status
    <3>3. QED
      BY <3>2, <2>2 DEF RequestsWereAsked
  <2>5. IntentsAreJustified'
    BY <1>1, <2>1, <2>4, JustifiedIntent DEF SolveIntent
  <2>6. QED
    BY <1>0, <1>1, <2>5, AskedStays DEF SolveIntent
<1>2. ASSUME NEW id \in Slots, NEW u \in Users, NEW v \in Users, ConvertInvitation(id, u, v)
      PROVE  IInv'
  <2>1. IntentsAreJustified'
    BY <1>2, JustifiedIntent DEF ConvertInvitation
  <2>2. QED
    BY <1>0, <1>2, <2>1, AskedStays DEF ConvertInvitation
<1>3. ASSUME NEW i \in intents, PutStatus(i)
      PROVE  IInv'
  <2> DEFINE p == docId(i.user, i.other)
  <2>1. /\ i.user \in Users /\ i.other \in Users /\ i.user # i.other
        /\ i.effect \in Effects /\ p \in Pairs /\ Members(p) = {i.user, i.other}
        /\ p = docId(i.other, i.user)
    BY DocIdPair DEF TypeOK, Intent
  <2>2. /\ \A q \in Pairs : asked[q] \subseteq asked'[q]
        /\ \A q \in Pairs \ {p} : relations'[q] = relations[q]
        /\ relations'[p] = newStatus(i)
        /\ i.effect # "removeRelation" => i.user \in asked'[p]
        /\ i.effect \in {"simultaneousRequest", "acceptRequest"} => i.other \in asked'[p]
        /\ notified' = notified
    BY <1>3, <2>1 DEF PutStatus, IntentsAreJustified, TypeOK
  <2>3. RequestsWereAsked'
    <3>1. ASSUME NEW u \in Users, NEW v \in Users, u # v,
                 relations'[docId(u, v)] = requested(u, v)
          PROVE  u \in asked'[docId(u, v)]
      <4>1. docId(u, v) \in Pairs /\ requested(u, v) \in {"a-requested", "b-requested"}
            /\ requested(u, v) # requested(v, u)
        BY <3>1, DocIdPair
      <4>2. CASE docId(u, v) # p
        <5>1. relations[docId(u, v)] = requested(u, v)
          BY <2>2, <3>1, <4>1, <4>2
        <5>2. u \in asked[docId(u, v)]
          BY <3>1, <5>1 DEF RequestsWereAsked
        <5>3. QED
          BY <2>2, <4>1, <5>2
      <4>3. CASE docId(u, v) = p
        <5>1. newStatus(i) = requested(u, v)
          BY <2>2, <3>1, <4>3
        <5>2. i.effect = "makeRequest" /\ requested(i.user, i.other) = requested(u, v)
          BY <4>1, <5>1 DEF newStatus
        <5>3. u = i.user
          BY <2>1, <3>1, <4>1, <4>3, <5>2, DocIdInjective
        <5>4. QED
          BY <2>2, <4>3, <5>2, <5>3
      <4>4. QED
        BY <4>2, <4>3
    <3>2. QED
      BY <3>1 DEF RequestsWereAsked, docId, requested
  <2>4. FriendsBothAsked'
    <3>1. ASSUME NEW q \in Pairs, relations'[q] = "friends"
          PROVE  Members(q) \subseteq asked'[q]
      <4>1. CASE q # p
        BY <2>2, <3>1, <4>1 DEF FriendsBothAsked
      <4>2. CASE q = p
        <5>1. newStatus(i) = "friends"
          BY <2>2, <3>1, <4>2
        <5>2. i.effect \in {"simultaneousRequest", "acceptRequest"}
          BY <2>1, <5>1, DocIdPair DEF newStatus, Effects
        <5>3. QED
          BY <2>1, <2>2, <4>2, <5>2
      <4>3. QED
        BY <4>1, <4>2
    <3>2. QED
      BY <3>1 DEF FriendsBothAsked, Pairs, Members
  <2>5. ToldOfTheirOwnRequests'
    <3>1. ASSUME NEW u \in Users, NEW v \in Users, <<u, v>> \in notified
          PROVE  u # v /\ {u, v} \subseteq asked'[docId(u, v)]
      BY <2>2, <3>1, DocIdPair DEF ToldOfTheirOwnRequests
    <3>2. QED
      BY <2>2, <3>1 DEF ToldOfTheirOwnRequests, docId
  <2>6. IntentsAreJustified'
    <3>1. ASSUME NEW j \in intents'
          PROVE  /\ j.effect \in {"simultaneousRequest", "acceptRequest"}
                       => j.other \in asked'[docId(j.user, j.other)]
                 /\ j.step = "notify" => j.user \in asked'[docId(j.user, j.other)]
      <4>1. CASE j \in intents
        <5>1. docId(j.user, j.other) \in Pairs
          BY <4>1, DocIdPair DEF TypeOK, Intent
        <5>2. QED
          BY <2>2, <4>1, <5>1 DEF IntentsAreJustified
      <4>2. CASE j \notin intents
        <5>1. i.effect # "removeRelation" /\ j = [i EXCEPT !.step = "notify"]
          BY <1>3, <3>1, <4>2 DEF PutStatus
        <5>2. j.user = i.user /\ j.other = i.other /\ j.effect = i.effect
          BY <5>1 DEF TypeOK, Intent
        <5>3. QED
          BY <2>2, <5>1, <5>2
      <4>3. QED
        BY <4>1, <4>2
    <3>2. QED
      BY <3>1 DEF IntentsAreJustified, docId
  <2>7. QED
    BY <1>0, <2>3, <2>4, <2>5, <2>6
<1>4. ASSUME NEW i \in intents, Notify(i)
      PROVE  IInv'
  <2>1. /\ i.user \in Users /\ i.other \in Users /\ i.user # i.other
        /\ docId(i.user, i.other) = docId(i.other, i.user)
    BY DocIdPair DEF TypeOK, Intent
  <2>2. ASSUME NEW u \in Users, NEW v \in Users, <<u, v>> \in accepted(i)
        PROVE  u # v /\ {u, v} \subseteq asked[docId(u, v)]
    <3>1. i.effect \in {"simultaneousRequest", "acceptRequest"}
          /\ (<<u, v>> = <<i.user, i.other>> \/ <<u, v>> = <<i.other, i.user>>)
      BY <2>2 DEF accepted
    <3>2. i.user \in asked[docId(i.user, i.other)] /\ i.other \in asked[docId(i.user, i.other)]
      BY <1>4, <3>1 DEF Notify, IntentsAreJustified
    <3>3. QED
      BY <2>1, <3>1, <3>2
  <2>3. ToldOfTheirOwnRequests'
    BY <1>4, <2>2 DEF Notify, ToldOfTheirOwnRequests, docId
  <2>4. IntentsAreJustified'
    BY <1>4 DEF Notify, IntentsAreJustified, docId
  <2>5. QED
    BY <1>0, <1>4, <2>3, <2>4
       DEF Notify, RequestsWereAsked, FriendsBothAsked, docId, requested, Pairs, Members
<1>5. ASSUME NEW id \in Slots, NEW u \in Users, ReadUserRelations(id, u)
      PROVE  IInv'
  BY <1>0, <1>5, AskedStays DEF ReadUserRelations, IntentsAreJustified, docId
<1>6. ASSUME NEW d \in deleting, BulkDelete(d)
      PROVE  IInv'
  BY <1>0, <1>6, AskedStays DEF BulkDelete, IntentsAreJustified, docId
<1>7. ASSUME Crash
      PROVE  IInv'
  BY <1>0, <1>7, AskedStays DEF Crash, IntentsAreJustified, docId
<1>8. ASSUME UNCHANGED vars
      PROVE  IInv'
  BY <1>0, <1>8, AskedStays DEF vars, IntentsAreJustified, docId
<1>9. QED
  BY <1>1, <1>2, <1>3, <1>4, <1>5, <1>6, <1>7, <1>8 DEF Next

\* The inductive invariant holds at every moment
THEOREM Invariance == Spec => []IInv
<1>1. Init => IInv
  BY DocIdPair DEF Init, IInv, TypeOK, RequestsWereAsked, IntentsAreJustified,
                   FriendsBothAsked, ToldOfTheirOwnRequests, Statuses
<1>2. QED
  BY <1>1, ConsentStep, PTL DEF Spec

\* The databases and handlers keep their types
THEOREM TypeCorrectness == Spec => []TypeOK
<1>1. IInv => TypeOK
  BY DEF IInv
<1>2. QED
  BY <1>1, Invariance, PTL

\* Two users are never friends unless both asked for it or accepted it, however
\* many intents and restarts interleave
THEOREM FriendshipIsMutual == Spec => []FriendsBothAsked
<1>1. IInv => FriendsBothAsked
  BY DEF IInv
<1>2. QED
  BY <1>1, Invariance, PTL

\* A user is only told of an acceptance when both users took part
THEOREM AcceptancesAnswerRequests == Spec => []ToldOfTheirOwnRequests
<1>1. IInv => ToldOfTheirOwnRequests
  BY DEF IInv
<1>2. QED
  BY <1>1, Invariance, PTL

-----------------------------------------------------------------------------
(* Handlers that do not overlap implement Friendship *)

\* The wish of each user read from the status, for one pair
LEMMA WishesOf ==
    ASSUME NEW u \in Users, NEW v \in Users, u # v
    PROVE  LET p == docId(u, v) IN
           /\ relations[p] = requested(u, v) => wishes[p] = {u}
           /\ relations[p] = requested(v, u) => wishes[p] = {v}
           /\ relations[p] = "friends" => wishes[p] = {u, v}
           /\ relations[p] = "none" => wishes[p] = {}
<1> DEFINE p == docId(u, v)
<1>1. p \in Pairs /\ Members(p) = {u, v}
  BY DocIdPair
<1>2. /\ u < v => p = <<u, v>> /\ requested(u, v) = "a-requested"
                               /\ requested(v, u) = "b-requested"
      /\ ~(u < v) => p = <<v, u>> /\ requested(u, v) = "b-requested"
                                  /\ requested(v, u) = "a-requested"
  BY UsersAssumption DEF docId, requested
<1>3. wishes[p] = IF relations[p] = "a-requested" THEN {p[1]}
                  ELSE IF relations[p] = "b-requested" THEN {p[2]}
                  ELSE IF relations[p] = "friends" THEN Members(p)
                  ELSE {}
  BY <1>1 DEF wishes
<1> HIDE DEF p
<1>4. QED
  BY <1>1, <1>2, <1>3 DEF p

\* Every step of a handler that is alone keeps its intent current, and moves the
\* wishes as Friendship allows
LEMMA SequentialStep ==
    NonOverlapping /\ SequentialInv /\ [Next]_vars
        => SequentialInv' /\ [Abstract!Next]_wishes
<1> SUFFICES ASSUME NonOverlapping, SequentialInv, [Next]_vars
             PROVE  SequentialInv' /\ [Abstract!Next]_wishes
  OBVIOUS
<1>0. TypeOK'
  BY TypeStep DEF SequentialInv
<1> USE DEF SequentialInv
<1>1. ASSUME NEW id \in Slots, NEW u \in Users, NEW v \in Users, NEW a \in Actions,
             SolveIntent(id, u, v, a)
      PROVE  SequentialInv' /\ [Abstract!Next]_wishes
  <2> DEFINE status == userRelativeRequest(u, v, relations[docId(u, v)])
  <2> HIDE DEF status
  <2>1. PICK e \in solve(a, status) :
            intents' = intents \union
               {[id |-> id, user |-> u, other |-> v, effect |-> e, step |-> "put"]}
    BY <1>1 DEF SolveIntent, status
  <2>2. /\ u # v /\ docId(u, v) \in Pairs /\ hasAccount(u)
        /\ relations[docId(u, v)] \in Statuses
    BY <1>1, DocIdPair DEF SolveIntent, TypeOK
  <2>3. intents = {} /\ deleting = {}
    BY <1>1 DEF SolveIntent, Free, NonOverlapping, TypeOK, Intent, Deleting
  <2>4. OneAtATime'
    BY <1>1, <2>1, <2>3 DEF SolveIntent, OneAtATime
  <2>5. /\ e = "makeRequest" => relations[docId(u, v)] = "none"
        /\ e \in {"simultaneousRequest", "acceptRequest"}
             => relations[docId(u, v)] = requested(v, u)
    BY <2>2, SolvedFrom, RelativeStatus DEF status
  <2>6. IntentsAreCurrent'
    BY <1>1, <2>1, <2>3, <2>5 DEF SolveIntent, IntentsAreCurrent, docId, requested
  <2>7. InvitedDidNotAct'
    BY <1>1, <2>1, <2>2, <2>3 DEF SolveIntent, InvitedDidNotAct, hasAccount, docId, requested
  <2>8. UNCHANGED wishes
    BY <1>1 DEF SolveIntent, wishes, Pairs, Members
  <2>9. QED
    BY <1>0, <1>1, <2>4, <2>6, <2>7, <2>8 DEF SolveIntent
<1>2. ASSUME NEW id \in Slots, NEW u \in Users, NEW v \in Users, ConvertInvitation(id, u, v)
      PROVE  SequentialInv' /\ [Abstract!Next]_wishes
  <2>1. intents = {} /\ deleting = {}
    BY <1>2 DEF ConvertInvitation, Free, NonOverlapping, TypeOK, Intent, Deleting
  <2>2. OneAtATime'
    BY <1>2, <2>1 DEF ConvertInvitation, OneAtATime
  <2>3. <<u, v>> \in invited /\ \A w \in Users : <<w, u>> \notin invited
    BY <1>2, InvitationsAssumption DEF ConvertInvitation, TypeOK
  <2>4. relations[docId(u, v)] \in {"none", requested(u, v)}
    BY <2>3 DEF InvitedDidNotAct
  <2>5. IntentsAreCurrent'
    BY <1>2, <2>1, <2>4 DEF ConvertInvitation, IntentsAreCurrent, docId, requested
  <2>6. InvitedDidNotAct'
    BY <1>2, <2>1, <2>3 DEF ConvertInvitation, InvitedDidNotAct, hasAccount, docId, requested
  <2>7. UNCHANGED wishes
    BY <1>2 DEF ConvertInvitation, wishes, Pairs, Members
  <2>8. QED
    BY <1>0, <1>2, <2>2, <2>5, <2>6, <2>7 DEF ConvertInvitation
<1>3. ASSUME NEW i \in intents, PutStatus(i)
      PROVE  SequentialInv' /\ [Abstract!Next]_wishes
  <2> DEFINE p == docId(i.user, i.other)
  <2>1. /\ i.user \in Users /\ i.other \in Users /\ i.user # i.other
        /\ i.effect \in Effects /\ i.step = "put"
        /\ p \in Pairs /\ Members(p) = {i.user, i.other}
        /\ p = docId(i.other, i.user)
        /\ requested(i.user, i.other) # requested(i.other, i.user)
    BY <1>3, DocIdPair DEF TypeOK, Intent, PutStatus
  <2>2. /\ relations' = [relations EXCEPT ![p] = newStatus(i)]
        /\ relations'[p] = newStatus(i)
        /\ \A q \in Pairs \ {p} : relations'[q] = relations[q]
    BY <1>3, <2>1 DEF PutStatus, TypeOK
  <2>3. OneAtATime'
    <3>1. intents = {i} /\ deleting = {}
      BY DEF OneAtATime
    <3>2. deleting' = {}
      BY <1>3, <3>1 DEF PutStatus, touch
    <3>3. QED
      BY <1>3, <3>1, <3>2 DEF PutStatus, OneAtATime
  <2>4. \A j \in intents' : j.step = "notify" /\ j.user = i.user
    <3>1. intents = {i}
      BY DEF OneAtATime
    <3>2. QED
      BY <1>3, <3>1 DEF PutStatus, TypeOK, Intent
  <2>5. IntentsAreCurrent'
    BY <2>4 DEF IntentsAreCurrent
  <2>6. /\ i.effect = "makeRequest"
              => /\ relations[p] \in {"none", requested(i.user, i.other)}
                 /\ newStatus(i) = requested(i.user, i.other)
        /\ i.effect \in {"simultaneousRequest", "acceptRequest"}
              => relations[p] = requested(i.other, i.user) /\ newStatus(i) = "friends"
        /\ i.effect = "removeRelation" => newStatus(i) = "none"
    BY <2>1 DEF IntentsAreCurrent, newStatus
  <2>7. InvitedDidNotAct'
    <3>1. \A j \in intents' : hasAccount(j.user)'
      BY <1>3, <2>4 DEF InvitedDidNotAct, hasAccount, PutStatus
    <3>2. ASSUME NEW u \in Users, NEW v \in Users, <<u, v>> \in invited
          PROVE  relations'[docId(u, v)] \in {"none", requested(u, v)}
      <4>1. relations[docId(u, v)] \in {"none", requested(u, v)} /\ u # v
        BY <3>2, InvitationsAssumption DEF InvitedDidNotAct, TypeOK
      <4>2. v # i.user
        BY <3>2 DEF InvitedDidNotAct, hasAccount
      <4>3. CASE docId(u, v) # p
        BY <2>2, <4>1, <4>3, DocIdPair
      <4>4. CASE docId(u, v) = p
        <5>1. u = i.user /\ v = i.other
          BY <2>1, <4>1, <4>2, <4>4, DocIdInjective
        <5>2. QED
          BY <2>1, <2>2, <2>6, <4>1, <4>4, <5>1, DocIdPair DEF Effects
      <4>5. QED
        BY <4>3, <4>4
    <3>3. QED
      BY <1>3, <3>1, <3>2 DEF PutStatus, InvitedDidNotAct, docId, requested
  <2>8. wishes' = [wishes EXCEPT ![p] =
            IF i.effect = "removeRelation" THEN {} ELSE @ \union {i.user}]
    <3>1. \A q \in Pairs \ {p} : wishes'[q] = wishes[q]
      BY <2>2 DEF wishes, Members
    <3>2. wishes[p] = IF relations[p] = requested(i.user, i.other) THEN {i.user}
                      ELSE IF relations[p] = requested(i.other, i.user) THEN {i.other}
                      ELSE IF relations[p] = "friends" THEN {i.user, i.other}
                      ELSE IF relations[p] = "none" THEN {} ELSE wishes[p]
      BY <2>1, WishesOf
    <3>3. wishes'[p] = IF newStatus(i) = requested(i.user, i.other) THEN {i.user}
                       ELSE IF newStatus(i) = requested(i.other, i.user) THEN {i.other}
                       ELSE IF newStatus(i) = "friends" THEN {i.user, i.other}
                       ELSE IF newStatus(i) = "none" THEN {} ELSE wishes'[p]
      BY <2>1, <2>2, UsersAssumption DEF docId, requested, wishes, Pairs, Members
    <3>4. wishes'[p] = IF i.effect = "removeRelation" THEN {} ELSE wishes[p] \union {i.user}
      <4>1. CASE i.effect = "makeRequest"
        BY <2>1, <2>6, <3>2, <3>3, <4>1, DocIdPair
      <4>2. CASE i.effect \in {"simultaneousRequest", "acceptRequest"}
        BY <2>1, <2>6, <3>2, <3>3, <4>2, DocIdPair
      <4>3. CASE i.effect = "removeRelation"
        BY <2>1, <2>6, <3>3, <4>3, DocIdPair
      <4>4. QED
        BY <2>1, <4>1, <4>2, <4>3 DEF Effects
    <3>5. wishes \in [Pairs -> {wishes[q] : q \in Pairs}] /\ wishes' = [q \in Pairs |-> wishes'[q]]
      BY DEF wishes, Members
    <3>6. QED
      BY <2>1, <3>1, <3>4, <3>5
  <2>9. (wants = wishes)'
    BY <1>3, <2>8 DEF PutStatus
  <2>10. [Abstract!Next]_wishes
    <3>1. CASE i.effect = "removeRelation"
      <4>1. Abstract!End(p)
        BY <2>8, <3>1 DEF Abstract!End
      <4>2. QED
        BY <2>1, <4>1 DEF Abstract!Next, Abstract!Pairs, Pairs
    <3>2. CASE i.effect # "removeRelation"
      <4>1. Abstract!Want(p, i.user)
        BY <2>8, <3>2 DEF Abstract!Want
      <4>2. QED
        BY <2>1, <4>1 DEF Abstract!Next, Abstract!Pairs, Abstract!Members, Pairs, Members
    <3>3. QED
      BY <3>1, <3>2
  <2>11. QED
    BY <1>0, <2>3, <2>5, <2>7, <2>9, <2>10
<1>4. ASSUME NEW i \in intents, Notify(i)
      PROVE  SequentialInv' /\ [Abstract!Next]_wishes
  <2>1. OneAtATime' /\ IntentsAreCurrent' /\ InvitedDidNotAct'
    BY <1>4 DEF Notify, OneAtATime, IntentsAreCurrent, InvitedDidNotAct, hasAccount,
                docId, requested
  <2>2. UNCHANGED wishes
    BY <1>4 DEF Notify, wishes, Pairs, Members
  <2>3. QED
    BY <1>0, <1>4, <2>1, <2>2 DEF Notify
<1>5. ASSUME NEW id \in Slots, NEW u \in Users, ReadUserRelations(id, u)
      PROVE  SequentialInv' /\ [Abstract!Next]_wishes
  <2>1. intents = {} /\ deleting = {}
    BY <1>5 DEF ReadUserRelations, Free, NonOverlapping, TypeOK, Intent, Deleting
  <2>2. OneAtATime' /\ IntentsAreCurrent' /\ InvitedDidNotAct'
    BY <1>5, <2>1 DEF ReadUserRelations, OneAtATime, IntentsAreCurrent, InvitedDidNotAct,
                      hasAccount, docId, requested
  <2>3. UNCHANGED wishes
    BY <1>5 DEF ReadUserRelations, wishes, Pairs, Members
  <2>4. QED
    BY <1>0, <1>5, <2>2, <2>3 DEF ReadUserRelations
<1>6. ASSUME NEW d \in deleting, BulkDelete(d)
      PROVE  SequentialInv' /\ [Abstract!Next]_wishes
  <2>1. intents = {} /\ deleting = {d}
    BY DEF OneAtATime
  <2>2. OneAtATime' /\ IntentsAreCurrent'
    BY <1>6, <2>1 DEF BulkDelete, OneAtATime, IntentsAreCurrent
  <2>3. InvitedDidNotAct'
    <3>1. ASSUME NEW u \in Users, NEW v \in Users, <<u, v>> \in invited
          PROVE  relations'[docId(u, v)] \in {"none", requested(u, v)}
      <4>1. u # v
        BY <3>1, InvitationsAssumption DEF TypeOK
      <4>2. docId(u, v) \in Pairs
        BY <4>1, DocIdPair
      <4>3. QED
        BY <1>6, <3>1, <4>2 DEF BulkDelete, InvitedDidNotAct
    <3>2. QED
      BY <1>6, <2>1, <3>1 DEF BulkDelete, InvitedDidNotAct, docId, requested
  <2>4. wishes' = [p \in Pairs |-> IF p \in d.fresh THEN {} ELSE wishes[p]]
    BY <1>6 DEF BulkDelete, wishes, Pairs, Members
  <2>5. (wants = wishes)'
    BY <1>6, <2>4 DEF BulkDelete
  <2>6. [Abstract!Next]_wishes
    <3>1. d.user \in Users /\ d.fresh \in SUBSET {p \in Pairs : d.user \in Members(p)}
      BY DEF TypeOK, Deleting
    <3>2. Abstract!EndAll(d.fresh)
      BY <2>4 DEF Abstract!EndAll, Abstract!Pairs, Pairs
    <3>3. QED
      BY <3>1, <3>2 DEF Abstract!Next, Abstract!Pairs, Abstract!Members, Pairs, Members
  <2>7. QED
    BY <1>0, <2>2, <2>3, <2>5, <2>6
<1>7. ASSUME Crash
      PROVE  SequentialInv' /\ [Abstract!Next]_wishes
  <2>1. OneAtATime' /\ IntentsAreCurrent' /\ InvitedDidNotAct'
    BY <1>7 DEF Crash, OneAtATime, IntentsAreCurrent, InvitedDidNotAct, docId, requested
  <2>2. UNCHANGED wishes
    BY <1>7 DEF Crash, wishes, Pairs, Members
  <2>3. QED
    BY <1>0, <1>7, <2>1, <2>2 DEF Crash
<1>8. ASSUME UNCHANGED vars
      PROVE  SequentialInv' /\ [Abstract!Next]_wishes
  BY <1>0, <1>8 DEF vars, OneAtATime, IntentsAreCurrent, InvitedDidNotAct, hasAccount,
                    docId, requested, wishes, Pairs, Members
<1>9. QED
  BY <1>1, <1>2, <1>3, <1>4, <1>5, <1>6, <1>7, <1>8 DEF Next

\* The initial states of Relations are those of Friendship
LEMMA SequentialInit == Init => SequentialInv /\ Abstract!Init
<1> SUFFICES ASSUME Init
             PROVE  SequentialInv /\ Abstract!Init
  OBVIOUS
<1>1. TypeOK
  BY DEF Init, TypeOK, Statuses
<1>2. OneAtATime /\ IntentsAreCurrent
  BY DEF Init, OneAtATime, IntentsAreCurrent
<1>3. InvitedDidNotAct
  BY DocIdPair, InvitationsAssumption DEF Init, InvitedDidNotAct
<1>4. wishes = [p \in Pairs |-> {}]
  BY DEF Init, wishes
<1>5. QED
  BY <1>1, <1>2, <1>3, <1>4 DEF Init, SequentialInv, Abstract!Init, Abstract!Pairs, Pairs

\* With handlers that do not overlap, relations implement Friendship: a status only
\* ever moves by a user adding their own wish or by a removal
THEOREM SequentialRefinement == NonOverlapping => (Spec => ImplementsFriendship)
<1> SUFFICES ASSUME NonOverlapping
             PROVE  Spec => ImplementsFriendship
  OBVIOUS
<1>1. Init => SequentialInv /\ Abstract!Init
  BY SequentialInit
<1>2. SequentialInv /\ [Next]_vars => SequentialInv' /\ [Abstract!Next]_wishes
  BY SequentialStep
<1>3. QED
  BY <1>1, <1>2, PTL DEF Spec, ImplementsFriendship, Abstract!Spec

\* With handlers that do not overlap, friends both want it since the last removal
THEOREM SequentialFriendsBothWantIt == NonOverlapping => (Spec => []FriendsBothWantIt)
<1> SUFFICES ASSUME NonOverlapping
             PROVE  Spec => []FriendsBothWantIt
  OBVIOUS
<1>1. Init => SequentialInv
  BY SequentialInit
<1>2. SequentialInv /\ [Next]_vars => SequentialInv'
  BY SequentialStep
<1>3. SequentialInv => FriendsBothWantIt
  BY DEF SequentialInv, FriendsBothWantIt, wishes
<1>4. QED
  BY <1>1, <1>2, <1>3, PTL DEF Spec

\* With handlers that do not overlap, two users who both asked since the last removal
\* are friends: no request waits for an answer that was already given
THEOREM SequentialMutualRequests == NonOverlapping => (Spec => []MutualRequestsMakeFriends)
<1> SUFFICES ASSUME NonOverlapping
             PROVE  Spec => []MutualRequestsMakeFriends
  OBVIOUS
<1>1. Init => SequentialInv
  BY SequentialInit
<1>2. SequentialInv /\ [Next]_vars => SequentialInv'
  BY SequentialStep
<1>3. SequentialInv => MutualRequestsMakeFriends
  <2> SUFFICES ASSUME SequentialInv, NEW p \in Pairs, wishes[p] = Members(p)
               PROVE  relations[p] = "friends"
    BY DEF SequentialInv, MutualRequestsMakeFriends
  <2>1. p[1] \in Int /\ p[2] \in Int /\ p[1] < p[2]
    BY UsersAssumption DEF Pairs
  <2>2. p[1] \in wishes[p] /\ p[2] \in wishes[p] /\ p[1] # p[2]
    BY <2>1 DEF Members
  <2>3. QED
    BY <2>2 DEF wishes
<1>4. QED
  BY <1>1, <1>2, <1>3, PTL DEF Spec

\* With handlers that do not overlap, a request never puts an end to a friendship
THEOREM SequentialFriendsUntilRemoval == NonOverlapping => (Spec => FriendsUntilRemoval)
<1> SUFFICES ASSUME NonOverlapping
             PROVE  Spec => FriendsUntilRemoval
  OBVIOUS
<1> DEFINE Stay == \A p \in Pairs :
                     relations[p] = "friends" => relations'[p] \in {"friends", "none"}
<1>1. Init => SequentialInv
  BY SequentialInit
<1>2. SequentialInv /\ [Next]_vars => SequentialInv'
  BY SequentialStep
<1>3. SequentialInv /\ [Next]_vars => Stay
  <2> SUFFICES ASSUME SequentialInv, [Next]_vars, NEW p \in Pairs, relations[p] = "friends"
               PROVE  relations'[p] \in {"friends", "none"}
    OBVIOUS
  <2>1. ASSUME NEW i \in intents, PutStatus(i)
        PROVE  relations'[p] \in {"friends", "none"}
    <3>1. /\ i.user \in Users /\ i.other \in Users /\ i.user # i.other
          /\ i.effect \in Effects /\ i.step = "put"
      BY <2>1 DEF SequentialInv, TypeOK, Intent, PutStatus
    <3>2. relations' = [relations EXCEPT ![docId(i.user, i.other)] = newStatus(i)]
      BY <2>1 DEF PutStatus
    <3>3. CASE p # docId(i.user, i.other)
      BY <3>2, <3>3 DEF SequentialInv, TypeOK
    <3>4. CASE p = docId(i.user, i.other) /\ i.effect = "makeRequest"
      <4>1. relations[p] \in {"none", requested(i.user, i.other)}
        BY <3>1, <3>4 DEF SequentialInv, IntentsAreCurrent
      <4>2. QED
        BY <4>1 DEF requested
    <3>5. CASE p = docId(i.user, i.other) /\ i.effect # "makeRequest"
      BY <3>1, <3>2, <3>5 DEF newStatus, Effects, SequentialInv, TypeOK
    <3>6. QED
      BY <3>3, <3>4, <3>5
  <2>2. ASSUME NEW d \in deleting, BulkDelete(d)
        PROVE  relations'[p] \in {"friends", "none"}
    BY <2>2 DEF BulkDelete
  <2>3. CASE UNCHANGED relations
    BY <2>3
  <2>4. QED
    BY <2>1, <2>2, <2>3 DEF Next, vars, SolveIntent, ConvertInvitation, Notify,
                            ReadUserRelations, Crash
<1>4. QED
  BY <1>1, <1>2, <1>3, PTL DEF Spec, FriendsUntilRemoval

=============================================================================
