----------------------------- MODULE GroupsProofs -----------------------------
(***************************************************************************)
(* Type correctness of Groups, the mutual consent behind each membership,  *)
(* and what no step may do to admins and to memberships, for every set of  *)
(* users, any number of memberships of a user and of handlers in flight.   *)
(***************************************************************************)
EXTENDS Groups, TLAPS

\* Group d is group g where membership m is added to a list, or taken out of it;
\* or where some membership joins a list, leaves it, or goes from one to another
Same(g, d) == d \in Group /\ d.exists = g.exists /\ d.open = g.open
Added(g, d, m, l) ==
    \A x \in Lists : d.lists[x] = IF x = l THEN g.lists[x] \union {m} ELSE g.lists[x]
Removed(g, d, m, l) ==
    \A x \in Lists : d.lists[x] = IF x = l THEN g.lists[x] \ {m} ELSE g.lists[x]
Joins(g, d, l) == \E m \in Memberships : Added(g, d, m, l)
Leaves(g, d, u, l) == \E m \in Memberships : m[1] = u /\ Removed(g, d, m, l)
Moves(g, d, l, k) ==
    \E m \in g.lists[l] : \A x \in Lists :
       d.lists[x] = IF x = l THEN g.lists[x] \ {m}
                    ELSE IF x = k THEN g.lists[x] \union {m}
                    ELSE g.lists[x]

\* A membership added to a list, or taken out of it, changes that list only
LEMMA ListChange ==
    ASSUME NEW g \in Group, NEW m \in Memberships, NEW l \in Lists
    PROVE  /\ Same(g, with(g, m, l)) /\ Added(g, with(g, m, l), m, l)
           /\ Same(g, without(g, m, l)) /\ Removed(g, without(g, m, l), m, l)
<1>1. g.lists \in [Lists -> SUBSET Memberships]
  BY DEF Group
<1>2. Same(g, with(g, m, l)) /\ Added(g, with(g, m, l), m, l)
  BY <1>1 DEF with, Group, Same, Added
<1>3. Same(g, without(g, m, l)) /\ Removed(g, without(g, m, l), m, l)
  BY <1>1 DEF without, Group, Same, Removed
<1>4. QED
  BY <1>2, <1>3

\* A membership created joins its list
LEMMA CreatedLists ==
    ASSUME NEW g \in Group, NEW u \in Users, NEW l \in Lists, NEW d \in created(g, u, l)
    PROVE  Same(g, d) /\ Joins(g, d, l)
<1>1. PICK m \in Memberships : d = with(g, m, l)
  BY DEF created
<1>2. Same(g, d) /\ Added(g, d, m, l)
  BY <1>1, ListChange
<1>3. QED
  BY <1>2 DEF Joins

\* A membership destroyed leaves its list
LEMMA DestroyedLists ==
    ASSUME NEW g \in Group, NEW u \in Users, NEW l \in Lists, NEW d \in destroyed(g, u, l)
    PROVE  Same(g, d) /\ Leaves(g, d, u, l)
<1>1. PICK m \in g.lists[l] : m[1] = u /\ d = without(g, m, l)
  BY DEF destroyed
<1>2. m \in Memberships
  BY DEF Group
<1>3. Same(g, d) /\ Removed(g, d, m, l)
  BY <1>1, <1>2, ListChange
<1>4. QED
  BY <1>1, <1>2, <1>3 DEF Leaves

\* A membership moved leaves a list for another
LEMMA MovedLists ==
    ASSUME NEW g \in Group, NEW u \in Users, NEW l \in Lists, NEW k \in Lists, k # l,
           NEW d \in moved(g, u, l, k)
    PROVE  Same(g, d) /\ Moves(g, d, l, k)
<1>1. PICK m \in g.lists[l] : m[1] = u /\ d = with(without(g, m, l), m, k)
  BY DEF moved
<1>2. m \in Memberships
  BY DEF Group
<1> DEFINE e == without(g, m, l)
<1>3. Same(g, e) /\ Removed(g, e, m, l)
  BY <1>2, ListChange
<1>4. d = with(e, m, k)
  BY <1>1
<1> HIDE DEF e
<1>5. Same(e, d) /\ Added(e, d, m, k)
  BY <1>2, <1>3, <1>4, ListChange DEF Same
<1>6. Same(g, d) /\ \A x \in Lists :
        d.lists[x] = IF x = l THEN g.lists[x] \ {m}
                     ELSE IF x = k THEN g.lists[x] \union {m}
                     ELSE g.lists[x]
  BY <1>3, <1>5 DEF Same, Added, Removed
<1>7. QED
  BY <1>6 DEF Moves

\* What an action does to the lists
LEMMA OutcomeLists ==
    ASSUME TypeOK, NEW h \in handling, NEW g \in outcomes(h, group)
    PROVE  /\ Same(group, g)
           /\ \/ h.action = "invite" /\ Joins(group, g, "invited")
              \/ h.action = "accept" /\ Moves(group, g, "invited", "members")
              \/ h.action = "decline" /\ Leaves(group, g, h.user, "invited")
              \/ h.action = "request" /\ group.open /\ Joins(group, g, "members")
              \/ h.action = "request" /\ ~group.open /\ Joins(group, g, "requested")
              \/ h.action = "cancelRequest" /\ Leaves(group, g, h.user, "requested")
              \/ h.action = "acceptRequest" /\ Moves(group, g, "requested", "members")
              \/ h.action = "refuseRequest" /\ Leaves(group, g, h.target, "requested")
              \/ h.action = "makeAdmin" /\ Moves(group, g, "members", "admins")
              \/ h.action = "kick" /\ Leaves(group, g, h.target, "members")
              \/ h.action = "leave" /\ Leaves(group, g, h.user, "admins")
              \/ h.action = "leave" /\ Leaves(group, g, h.user, "members")
<1>1. group \in Group /\ h.user \in Users /\ h.target \in Users
  BY DEF TypeOK, Handling
<1>2. /\ "admins" \in Lists /\ "members" \in Lists
      /\ "invited" \in Lists /\ "requested" \in Lists
  BY DEF Lists
<1>3. CASE h.action = "invite" /\ g \in created(group, h.target, "invited")
  BY <1>1, <1>2, <1>3, CreatedLists
<1>4. CASE h.action = "accept" /\ g \in moved(group, h.user, "invited", "members")
  BY <1>1, <1>2, <1>4, MovedLists
<1>5. CASE h.action = "decline" /\ g \in destroyed(group, h.user, "invited")
  BY <1>1, <1>2, <1>5, DestroyedLists
<1>6. CASE h.action = "request" /\ group.open /\ g \in created(group, h.user, "members")
  BY <1>1, <1>2, <1>6, CreatedLists
<1>7. CASE h.action = "request" /\ ~group.open /\ g \in created(group, h.user, "requested")
  BY <1>1, <1>2, <1>7, CreatedLists
<1>8. CASE h.action = "cancelRequest" /\ g \in destroyed(group, h.user, "requested")
  BY <1>1, <1>2, <1>8, DestroyedLists
<1>9. CASE h.action = "acceptRequest" /\ g \in moved(group, h.target, "requested", "members")
  BY <1>1, <1>2, <1>9, MovedLists
<1>10. CASE h.action = "refuseRequest" /\ g \in destroyed(group, h.target, "requested")
  BY <1>1, <1>2, <1>10, DestroyedLists
<1>11. CASE h.action = "makeAdmin" /\ g \in moved(group, h.target, "members", "admins")
  BY <1>1, <1>2, <1>11, MovedLists
<1>12. CASE h.action = "kick" /\ g \in destroyed(group, h.target, "members")
  BY <1>1, <1>2, <1>12, DestroyedLists
<1>13. CASE h.action = "leave" /\ g \in destroyed(group, h.user, "admins")
  BY <1>1, <1>2, <1>13, DestroyedLists
<1>14. CASE h.action = "leave" /\ g \in destroyed(group, h.user, "members")
  BY <1>1, <1>2, <1>14, DestroyedLists
<1>15. QED
  BY <1>3, <1>4, <1>5, <1>6, <1>7, <1>8, <1>9, <1>10, <1>11, <1>12, <1>13, <1>14
     DEF outcomes

\* What removing a user leaves of a group
LEMMA RemovedLists ==
    ASSUME NEW k \in Group, NEW u \in Users, NEW g \in deleteUser(k, u)
    PROVE  /\ g \in Group /\ g.open = k.open
           /\ g.lists["admins"] \union g.lists["members"]
                \subseteq k.lists["admins"] \union k.lists["members"]
           /\ g.lists["invited"] \subseteq k.lists["invited"]
           /\ g.lists["requested"] \subseteq k.lists["requested"]
           /\ \A m \in k.lists["admins"] : m[1] # u => m \in g.lists["admins"]
<1> DEFINE kept == withoutUser(k, u)
<1>1. /\ kept \in Group /\ kept.open = k.open
      /\ kept.lists = [l \in Lists |-> {m \in k.lists[l] : m[1] # u}]
  BY DEF withoutUser, Group
<1> HIDE DEF kept
<1>2. CASE g = kept
  BY <1>1, <1>2 DEF Lists
<1>3. CASE kept.lists["admins"] = {} /\ g \in promotions(kept)
  <2>1. PICK p \in SUBSET kept.lists["members"] :
            g = [kept EXCEPT !.lists["admins"] = p, !.lists["members"] = @ \ p]
    BY <1>3 DEF promotions
  <2>2. /\ g.exists = kept.exists /\ g.open = kept.open
        /\ g.lists = [kept.lists EXCEPT !["admins"] = p, !["members"] = @ \ p]
        /\ g = [exists |-> kept.exists, open |-> kept.open, lists |-> g.lists]
    BY <1>1, <2>1 DEF Group
  <2>3. g \in Group
    BY <1>1, <2>2 DEF Group, Lists
  <2>4. QED
    BY <1>1, <1>3, <2>2, <2>3 DEF Lists
<1>4. QED
  BY <1>2, <1>3 DEF deleteUser, kept

-----------------------------------------------------------------------------
(* Type correctness *)

\* A write keeps the types of the group and of the copies
LEMMA WriteTypes ==
    ASSUME writing \subseteq Writing, NEW others \in SUBSET writing,
           NEW g \in Group, Write(g, others)
    PROVE  group' \in Group /\ writing' \subseteq Writing
<1>1. \A w \in Writing : [w EXCEPT !.current = FALSE] \in Writing
  BY DEF Writing
<1>2. QED
  BY <1>1 DEF Write

\* Every step of every handler keeps the types
LEMMA TypeStep == TypeOK /\ [Next]_vars => TypeOK'
<1> SUFFICES ASSUME TypeOK, [Next]_vars
             PROVE  TypeOK'
  OBVIOUS
<1> USE DEF TypeOK
<1>1. ASSUME NEW id \in Slots, NEW a \in Actions, NEW u \in Users, NEW v \in Users,
             StartAction(id, a, u, v)
      PROVE  TypeOK'
  <2>1. checks[a] \subseteq Checks
    BY DEF Checks
  <2>2. [id |-> id, action |-> a, user |-> u, target |-> v, checks |-> checks[a]] \in Handling
    BY <2>1 DEF Handling
  <2>3. QED
    BY <1>1, <2>2 DEF StartAction
<1>2. ASSUME NEW id \in Slots, NEW u \in Users, RemoveUser(id, u)
      PROVE  TypeOK'
  <2>1. PICK g \in deleteUser(group, u) :
            writing' = writing \union
              {[id |-> id, kind |-> "removal", user |-> u,
                doc |-> [g EXCEPT !.exists = g.lists["admins"] # {}], current |-> TRUE]}
    BY <1>2 DEF RemoveUser
  <2>2. g \in Group /\ (g.lists["admins"] # {}) \in BOOLEAN
    BY RemovedLists
  <2> DEFINE copy == [g EXCEPT !.exists = g.lists["admins"] # {}]
  <2>3. copy \in Group
    BY <2>2 DEF Group
  <2> HIDE DEF copy
  <2>4. [id |-> id, kind |-> "removal", user |-> u, doc |-> copy, current |-> TRUE] \in Writing
    BY <2>3 DEF Writing
  <2>5. writing' \subseteq Writing
    BY <2>1, <2>4 DEF copy
  <2>6. QED
    BY <1>2, <2>5 DEF RemoveUser
<1>3. ASSUME NEW h \in handling, NEW check \in h.checks, Validate(h, check)
      PROVE  TypeOK'
  <2>1. [h EXCEPT !.checks = @ \ {check}] \in Handling
    BY DEF Handling
  <2>2. QED
    BY <1>3, <2>1 DEF Validate
<1>4. ASSUME NEW h \in handling, ApplyAction(h)
      PROVE  TypeOK'
  <2>1. PICK g \in outcomes(h, group) : Write(g, writing) /\ Consent(h, g)
    BY <1>4 DEF ApplyAction
  <2>2. g \in Group
    BY OutcomeLists DEF Same
  <2>3. present(g) \subseteq Memberships
    BY <2>2 DEF present, Group
  <2>4. agreed' \subseteq Memberships /\ approved' \subseteq Memberships
    BY <2>1, <2>3 DEF Consent
  <2>5. group' \in Group /\ writing' \subseteq Writing
    BY <2>1, <2>2 DEF Write, Writing
  <2>6. checking' \subseteq Checking
    BY <1>4 DEF ApplyAction, Checking, Handling
  <2>7. QED
    BY <1>4, <2>4, <2>5, <2>6 DEF ApplyAction
<1>5. ASSUME NEW h \in handling, RejectAction(h)
      PROVE  TypeOK'
  BY <1>5 DEF RejectAction
<1>6. ASSUME NEW h \in handling, NEW value \in BOOLEAN, ReadSettings(h, value)
      PROVE  TypeOK'
  <2>1. [group EXCEPT !.open = value] \in Group /\ group.exists \in BOOLEAN
    BY DEF Group
  <2>2. QED
    BY <1>6, <2>1 DEF ReadSettings, Writing, Handling
<1>7. ASSUME NEW c \in checking, GetGroup(c)
      PROVE  TypeOK'
  BY <1>7 DEF GetGroup, Checking
<1>8. ASSUME NEW c \in checking, DeleteGroup(c)
      PROVE  TypeOK'
  <2>1. [group EXCEPT !.exists = FALSE] \in Group
    BY DEF Group
  <2>2. group' \in Group /\ writing' \subseteq Writing
    BY <1>8, <2>1, WriteTypes DEF DeleteGroup
  <2>3. QED
    BY <1>8, <2>2 DEF DeleteGroup
<1>9. ASSUME NEW w \in writing, PutCopy(w)
      PROVE  TypeOK'
  <2>1. w.doc \in Group
    BY DEF Writing
  <2>2. group' \in Group /\ writing' \subseteq Writing
    BY <1>9, <2>1, WriteTypes DEF PutCopy
  <2>3. QED
    BY <1>9, <2>2 DEF PutCopy
<1>10. ASSUME UNCHANGED vars
       PROVE  TypeOK'
  BY <1>10 DEF vars
<1>11. QED
  BY <1>1, <1>2, <1>3, <1>4, <1>5, <1>6, <1>7, <1>8, <1>9, <1>10 DEF Next, Ask, Step

-----------------------------------------------------------------------------
(* Consent *)

\* A membership in a list is present in the group
LEMMA PresentIn ==
    ASSUME NEW g \in Group, NEW l \in Lists
    PROVE  g.lists[l] \subseteq present(g)
  BY DEF present

\* Once the group is written, no copy read before can be
LEMMA CopiesStale ==
    ASSUME TypeOK, NEW others \in SUBSET writing, NEW g, Write(g, others)
    PROVE  CopiesAreFaithful'
  BY DEF Write, CopiesAreFaithful, TypeOK, Writing

\* An action keeps the consent invariants
LEMMA ApplyKeepsConsent ==
    ASSUME IInv, NEW h \in handling, NEW g \in outcomes(h, group),
           group' = g, Consent(h, g)
    PROVE  PendingIsJustified' /\ MembershipIsMutual'
<1>1. /\ Same(group, g) /\ g \in Group
      /\ "admins" \in Lists /\ "members" \in Lists
      /\ "invited" \in Lists /\ "requested" \in Lists
  BY OutcomeLists DEF IInv, Same, Lists
<1>2. /\ g.lists["admins"] \subseteq present(g) /\ g.lists["members"] \subseteq present(g)
      /\ g.lists["invited"] \subseteq present(g) /\ g.lists["requested"] \subseteq present(g)
  BY <1>1, PresentIn
<1>3. /\ agreed \intersect present(g) \subseteq agreed'
      /\ approved \intersect present(g) \subseteq approved'
  BY DEF Consent
<1>4. /\ group.lists["admins"] \union group.lists["members"] \subseteq agreed \intersect approved
      /\ group.lists["invited"] \subseteq approved
      /\ group.lists["requested"] \subseteq agreed
  BY DEF IInv, MembershipIsMutual, PendingIsJustified
<1> SUFFICES /\ g.lists["admins"] \union g.lists["members"] \subseteq agreed' \intersect approved'
             /\ g.lists["invited"] \subseteq approved'
             /\ g.lists["requested"] \subseteq agreed'
  BY DEF PendingIsJustified, MembershipIsMutual
<1>5. CASE h.action = "invite" /\ Joins(group, g, "invited")
  <2>1. PICK m \in Memberships : Added(group, g, m, "invited")
    BY <1>5 DEF Joins
  <2>2. touched(g, "invited") \intersect present(g) \subseteq approved'
    BY <1>5 DEF Consent
  <2>3. QED
    BY <1>1, <1>2, <1>3, <1>4, <2>1, <2>2 DEF Added, touched
<1>6. CASE h.action = "accept" /\ Moves(group, g, "invited", "members")
  <2>1. touched(g, "members") \intersect present(g) \subseteq agreed'
    BY <1>6 DEF Consent
  <2>2. QED
    BY <1>1, <1>2, <1>3, <1>4, <1>6, <2>1 DEF Moves, touched
<1>7. CASE h.action = "request" /\ group.open /\ Joins(group, g, "members")
  <2>1. PICK m \in Memberships : Added(group, g, m, "members")
    BY <1>7 DEF Joins
  <2>2. /\ touched(g, "members") \intersect present(g) \subseteq agreed'
        /\ touched(g, "members") \intersect present(g) \subseteq approved'
    BY <1>7 DEF Consent
  <2>3. QED
    BY <1>1, <1>2, <1>3, <1>4, <2>1, <2>2 DEF Added, touched
<1>8. CASE h.action = "request" /\ ~group.open /\ Joins(group, g, "requested")
  <2>1. PICK m \in Memberships : Added(group, g, m, "requested")
    BY <1>8 DEF Joins
  <2>2. touched(g, "requested") \intersect present(g) \subseteq agreed'
    BY <1>8 DEF Consent
  <2>3. QED
    BY <1>1, <1>2, <1>3, <1>4, <2>1, <2>2 DEF Added, touched
<1>9. CASE h.action = "acceptRequest" /\ Moves(group, g, "requested", "members")
  <2>1. touched(g, "members") \intersect present(g) \subseteq approved'
    BY <1>9 DEF Consent
  <2>2. QED
    BY <1>1, <1>2, <1>3, <1>4, <1>9, <2>1 DEF Moves, touched
<1>10. CASE h.action = "makeAdmin" /\ Moves(group, g, "members", "admins")
  BY <1>1, <1>2, <1>3, <1>4, <1>10 DEF Moves
<1>11. CASE \E u \in Users, l \in Lists : Leaves(group, g, u, l)
  <2>1. \A l \in Lists : g.lists[l] \subseteq group.lists[l]
    BY <1>11 DEF Leaves, Removed
  <2>2. QED
    BY <1>1, <1>2, <1>3, <1>4, <2>1
<1>12. h.user \in Users /\ h.target \in Users
  BY DEF IInv, TypeOK, Handling
<1>13. QED
  BY <1>1, <1>5, <1>6, <1>7, <1>8, <1>9, <1>10, <1>11, <1>12, OutcomeLists DEF IInv

\* Every step keeps the inductive invariant
LEMMA ConsentStep == IInv /\ [Next]_vars => IInv'
<1> SUFFICES ASSUME IInv, [Next]_vars
             PROVE  IInv'
  OBVIOUS
<1>0. TypeOK' /\ TypeOK
  BY TypeStep DEF IInv
<1> USE DEF IInv
<1>1. ASSUME NEW id \in Slots, NEW a \in Actions, NEW u \in Users, NEW v \in Users,
             StartAction(id, a, u, v)
      PROVE  IInv'
  BY <1>0, <1>1 DEF StartAction, PendingIsJustified, MembershipIsMutual, CopiesAreFaithful
<1>2. ASSUME NEW id \in Slots, NEW u \in Users, RemoveUser(id, u)
      PROVE  IInv'
  <2>1. PICK g \in deleteUser(group, u) :
            writing' = writing \union
              {[id |-> id, kind |-> "removal", user |-> u,
                doc |-> [g EXCEPT !.exists = g.lists["admins"] # {}], current |-> TRUE]}
    BY <1>2 DEF RemoveUser
  <2> DEFINE new == [id |-> id, kind |-> "removal", user |-> u,
                     doc |-> [g EXCEPT !.exists = g.lists["admins"] # {}], current |-> TRUE]
  <2>2. /\ g \in Group /\ g.open = group.open
        /\ g.lists["admins"] \union g.lists["members"]
             \subseteq group.lists["admins"] \union group.lists["members"]
        /\ g.lists["invited"] \subseteq group.lists["invited"]
        /\ g.lists["requested"] \subseteq group.lists["requested"]
        /\ \A m \in group.lists["admins"] : m[1] # u => m \in g.lists["admins"]
    BY <1>0, RemovedLists DEF TypeOK
  <2>3. /\ new.kind = "removal" /\ new.user = u
        /\ new.doc.open = g.open /\ new.doc.lists = g.lists
    BY <2>2 DEF Group
  <2>4. writing' = writing \union {new} /\ group' = group /\ group.exists
    BY <1>2, <2>1 DEF RemoveUser
  <2> HIDE DEF new
  <2>5. CopiesAreFaithful'
    <3>1. ASSUME NEW w \in writing', w.current
          PROVE  /\ group.exists
                 /\ w.kind = "settings" => w.doc.lists = group.lists /\ w.doc.exists
                 /\ w.kind = "removal" =>
                     /\ w.doc.open = group.open
                     /\ w.doc.lists["admins"] \union w.doc.lists["members"]
                          \subseteq group.lists["admins"] \union group.lists["members"]
                     /\ w.doc.lists["invited"] \subseteq group.lists["invited"]
                     /\ w.doc.lists["requested"] \subseteq group.lists["requested"]
                     /\ \A m \in group.lists["admins"] :
                           m[1] # w.user => m \in w.doc.lists["admins"]
      <4>1. CASE w \in writing
        BY <3>1, <4>1 DEF CopiesAreFaithful
      <4>2. CASE w = new
        BY <2>2, <2>3, <2>4, <4>2
      <4>3. QED
        BY <2>4, <4>1, <4>2
    <3>2. QED
      BY <2>4, <3>1 DEF CopiesAreFaithful
  <2>6. QED
    BY <1>0, <1>2, <2>5 DEF RemoveUser, PendingIsJustified, MembershipIsMutual
<1>3. ASSUME NEW h \in handling, NEW check \in h.checks, Validate(h, check)
      PROVE  IInv'
  BY <1>0, <1>3 DEF Validate, PendingIsJustified, MembershipIsMutual, CopiesAreFaithful
<1>4. ASSUME NEW h \in handling, ApplyAction(h)
      PROVE  IInv'
  <2>1. PICK g \in outcomes(h, group) : Write(g, writing) /\ Consent(h, g)
    BY <1>4 DEF ApplyAction
  <2>2. PendingIsJustified' /\ MembershipIsMutual'
    BY <2>1, ApplyKeepsConsent DEF Write
  <2>3. CopiesAreFaithful'
    BY <1>0, <2>1, CopiesStale
  <2>4. QED
    BY <1>0, <2>2, <2>3
<1>5. ASSUME NEW h \in handling, RejectAction(h)
      PROVE  IInv'
  BY <1>0, <1>5 DEF RejectAction, PendingIsJustified, MembershipIsMutual, CopiesAreFaithful
<1>6. ASSUME NEW h \in handling, NEW value \in BOOLEAN, ReadSettings(h, value)
      PROVE  IInv'
  <2> DEFINE new == [id |-> h.id, kind |-> "settings", user |-> h.user,
                     doc |-> [group EXCEPT !.open = value], current |-> group.exists]
  <2>1. /\ new.kind = "settings" /\ new.current = group.exists
        /\ new.doc.lists = group.lists /\ new.doc.exists = group.exists
    BY <1>0 DEF TypeOK, Group
  <2>2. writing' = writing \union {new} /\ group' = group
    BY <1>6 DEF ReadSettings
  <2> HIDE DEF new
  <2>3. CopiesAreFaithful'
    <3>1. ASSUME NEW w \in writing', w.current
          PROVE  /\ group.exists
                 /\ w.kind = "settings" => w.doc.lists = group.lists /\ w.doc.exists
                 /\ w.kind = "removal" =>
                     /\ w.doc.open = group.open
                     /\ w.doc.lists["admins"] \union w.doc.lists["members"]
                          \subseteq group.lists["admins"] \union group.lists["members"]
                     /\ w.doc.lists["invited"] \subseteq group.lists["invited"]
                     /\ w.doc.lists["requested"] \subseteq group.lists["requested"]
                     /\ \A m \in group.lists["admins"] :
                           m[1] # w.user => m \in w.doc.lists["admins"]
      <4>1. CASE w \in writing
        BY <3>1, <4>1 DEF CopiesAreFaithful
      <4>2. CASE w = new
        BY <2>1, <3>1, <4>2
      <4>3. QED
        BY <2>2, <4>1, <4>2
    <3>2. QED
      BY <2>2, <3>1 DEF CopiesAreFaithful
  <2>4. QED
    BY <1>0, <1>6, <2>3 DEF ReadSettings, PendingIsJustified, MembershipIsMutual
<1>7. ASSUME NEW c \in checking, GetGroup(c)
      PROVE  IInv'
  BY <1>0, <1>7 DEF GetGroup, PendingIsJustified, MembershipIsMutual, CopiesAreFaithful
<1>8. ASSUME NEW c \in checking, DeleteGroup(c)
      PROVE  IInv'
  <2>1. group'.lists = group.lists
    BY <1>0, <1>8 DEF DeleteGroup, Write, TypeOK, Group
  <2>2. CopiesAreFaithful'
    BY <1>0, <1>8, CopiesStale DEF DeleteGroup
  <2>3. QED
    BY <1>0, <1>8, <2>1, <2>2 DEF DeleteGroup, PendingIsJustified, MembershipIsMutual
<1>9. ASSUME NEW w \in writing, PutCopy(w)
      PROVE  IInv'
  <2>1. CASE w.current
    <3>1. /\ Write(w.doc, writing \ {w}) /\ group' = w.doc
          /\ agreed' = agreed \intersect present(w.doc)
          /\ approved' = approved \intersect present(w.doc)
      BY <1>9, <2>1 DEF PutCopy, Write
    <3>2. CopiesAreFaithful'
      BY <1>0, <3>1, CopiesStale
    <3>3. /\ w.doc \in Group /\ w.kind \in {"settings", "removal"}
          /\ "admins" \in Lists /\ "members" \in Lists
          /\ "invited" \in Lists /\ "requested" \in Lists
      BY <1>0 DEF TypeOK, Writing, Lists
    <3>4. /\ w.doc.lists["admins"] \union w.doc.lists["members"]
               \subseteq group.lists["admins"] \union group.lists["members"]
          /\ w.doc.lists["invited"] \subseteq group.lists["invited"]
          /\ w.doc.lists["requested"] \subseteq group.lists["requested"]
      BY <2>1, <3>3 DEF CopiesAreFaithful
    <3>5. /\ w.doc.lists["admins"] \subseteq present(w.doc)
          /\ w.doc.lists["members"] \subseteq present(w.doc)
          /\ w.doc.lists["invited"] \subseteq present(w.doc)
          /\ w.doc.lists["requested"] \subseteq present(w.doc)
      BY <3>3, PresentIn
    <3>6. PendingIsJustified' /\ MembershipIsMutual'
      BY <3>1, <3>4, <3>5 DEF PendingIsJustified, MembershipIsMutual
    <3>7. QED
      BY <1>0, <3>2, <3>6
  <2>2. CASE ~w.current
    BY <1>0, <1>9, <2>2 DEF PutCopy, PendingIsJustified, MembershipIsMutual, CopiesAreFaithful
  <2>3. QED
    BY <2>1, <2>2
<1>10. ASSUME UNCHANGED vars
       PROVE  IInv'
  BY <1>0, <1>10 DEF vars, PendingIsJustified, MembershipIsMutual, CopiesAreFaithful
<1>11. QED
  BY <1>1, <1>2, <1>3, <1>4, <1>5, <1>6, <1>7, <1>8, <1>9, <1>10 DEF Next, Ask, Step

\* The group that is created satisfies the inductive invariant
LEMMA ConsentInit == Init => IInv
<1> SUFFICES ASSUME Init
             PROVE  IInv
  OBVIOUS
<1>1. PICK creator \in Memberships, open \in BOOLEAN :
         /\ group = [exists |-> TRUE, open |-> open,
                     lists |-> [l \in Lists |-> IF l = "admins" THEN {creator} ELSE {}]]
         /\ handling = {} /\ writing = {} /\ checking = {}
         /\ agreed = {creator} /\ approved = {creator}
  BY DEF Init
<1>2. TypeOK
  BY <1>1 DEF TypeOK, Group, Lists
<1>3. PendingIsJustified /\ MembershipIsMutual /\ CopiesAreFaithful
  BY <1>1 DEF PendingIsJustified, MembershipIsMutual, CopiesAreFaithful, Lists
<1>4. QED
  BY <1>2, <1>3 DEF IInv

\* The inductive invariant holds at every moment
THEOREM Invariance == Spec => []IInv
  BY ConsentInit, ConsentStep, PTL DEF Spec

\* The group and the handlers keep their types
THEOREM TypeCorrectness == Spec => []TypeOK
<1>1. IInv => TypeOK
  BY DEF IInv
<1>2. QED
  BY <1>1, Invariance, PTL

\* Nobody is a member or an admin through a membership that they did not ask for or
\* accept, or that the group neither offered nor accepted
THEOREM MembershipsAreMutual == Spec => []MembershipIsMutual
<1>1. IInv => MembershipIsMutual
  BY DEF IInv
<1>2. QED
  BY <1>1, Invariance, PTL

-----------------------------------------------------------------------------
(* What no step may do *)

\* No step ends the admin's role of someone else than the one who leaves or whose
\* account is deleted, nor changes a membership along with a setting
LEMMA StepIsLawful ==
    ASSUME IInv, [Next]_vars
    PROVE  /\ \A m \in group.lists["admins"] :
                group'.exists /\ m \notin group'.lists["admins"] =>
                  \/ \E h \in handling \ handling' : h.action = "leave" /\ h.user = m[1]
                  \/ \E w \in writing \ writing' :
                        w.kind = "removal" /\ w.user = m[1] /\ group' = w.doc
           /\ group'.open # group.open => group'.lists = group.lists /\ group'.exists
<1> DEFINE Lawful ==
      /\ \A m \in group.lists["admins"] :
           group'.exists /\ m \notin group'.lists["admins"] =>
             \/ \E h \in handling \ handling' : h.action = "leave" /\ h.user = m[1]
             \/ \E w \in writing \ writing' :
                   w.kind = "removal" /\ w.user = m[1] /\ group' = w.doc
      /\ group'.open # group.open => group'.lists = group.lists /\ group'.exists
<1>0. TypeOK
  BY DEF IInv
<1>1. CASE UNCHANGED group
  BY <1>1
<1>2. ASSUME NEW h \in handling, ApplyAction(h)
      PROVE  Lawful
  <2>1. PICK g \in outcomes(h, group) : group' = g
    BY <1>2 DEF ApplyAction, Write
  <2>2. handling' = handling \ {h}
    BY <1>2 DEF ApplyAction
  <2>3. g.open = group.open /\ "admins" \in Lists
    BY <1>0, OutcomeLists DEF Same, Lists
  <2>4. ASSUME NEW m \in group.lists["admins"], m \notin g.lists["admins"]
        PROVE  h.action = "leave" /\ h.user = m[1]
    <3>1. h.action = "leave" /\ Leaves(group, g, h.user, "admins")
      BY <1>0, <2>3, <2>4, OutcomeLists DEF Joins, Added, Moves, Leaves, Removed
    <3>2. QED
      BY <2>3, <2>4, <3>1 DEF Leaves, Removed
  <2>5. QED
    BY <2>1, <2>2, <2>3, <2>4
<1>3. ASSUME NEW c \in checking, DeleteGroup(c)
      PROVE  Lawful
  BY <1>0, <1>3 DEF DeleteGroup, Write, TypeOK, Group
<1>4. ASSUME NEW w \in writing, PutCopy(w)
      PROVE  Lawful
  <2>1. CASE ~w.current
    BY <1>1, <1>4, <2>1 DEF PutCopy
  <2>2. CASE w.current
    <3>1. group' = w.doc /\ w \notin writing' /\ w.kind \in {"settings", "removal"}
      BY <1>0, <1>4, <2>2 DEF PutCopy, Write, TypeOK, Writing
    <3>2. CASE w.kind = "settings"
      BY <2>2, <3>1, <3>2 DEF IInv, CopiesAreFaithful
    <3>3. CASE w.kind = "removal"
      BY <2>2, <3>1, <3>3 DEF IInv, CopiesAreFaithful
    <3>4. QED
      BY <3>1, <3>2, <3>3
  <2>3. QED
    BY <2>1, <2>2
<1>5. QED
  BY <1>1, <1>2, <1>3, <1>4
     DEF Next, Ask, Step, StartAction, RemoveUser, Validate, RejectAction, ReadSettings,
         GetGroup, vars

\* An admin only stops being one by leaving or by deleting their account
THEOREM AdminsAreNotKicked == Spec => AdminsOnlyLeave
<1>1. IInv /\ [Next]_vars =>
        [\A m \in group.lists["admins"] :
           group'.exists /\ m \notin group'.lists["admins"] =>
             \/ \E h \in handling \ handling' : h.action = "leave" /\ h.user = m[1]
             \/ \E w \in writing \ writing' :
                   w.kind = "removal" /\ w.user = m[1] /\ group' = w.doc]_vars
  BY StepIsLawful
<1>2. QED
  BY <1>1, Invariance, PTL DEF Spec, AdminsOnlyLeave

\* A change of settings changes no membership
THEOREM SettingsAreSettings == Spec => SettingsKeepMemberships
<1>1. IInv /\ [Next]_vars =>
        [group'.open # group.open => group'.lists = group.lists /\ group'.exists]_vars
  BY StepIsLawful
<1>2. QED
  BY <1>1, Invariance, PTL DEF Spec, SettingsKeepMemberships

=============================================================================
