------------------------------ MODULE Relations ------------------------------
(***************************************************************************)
(* Friend relations.  One document per pair of users holds the status      *)
(* "none", "a-requested", "b-requested" or "friends", where a is the user  *)
(* whose id comes first.  A user's intent (request, cancel, accept,        *)
(* discard, unfriend) is solved in two steps: the status is read, then an  *)
(* action is chosen from what was read and the status it sets is written   *)
(* with db.update, whatever the status has become meanwhile.  The event    *)
(* that tells users of an acceptance is emitted once the write is done.    *)
(*                                                                         *)
(* A missing document reads as status "none" and is created by the first   *)
(* write: the two are one status here.                                     *)
(***************************************************************************)
EXTENDS Integers

CONSTANTS
    Users,            \* ordered as their ids are
    Invitations,      \* <<inviter, newUser>>: invitations to people who sign up
    Slots,            \* handlers that may be in flight at the same time
    CanCrash          \* whether the server process may stop and restart

ASSUME UsersAssumption == Users \subseteq Int
ASSUME InvitationsAssumption ==   \* those who invite have an account
    /\ Invitations \subseteq Users \X Users
    /\ \A u, v, w \in Users : <<u, v>> \in Invitations => <<w, u>> \notin Invitations

VARIABLES
    relations,        \* the status of each pair of users
    intents,          \* intents solved, about to write a status or to notify
    deleting,         \* relations of a deleted account about to be deleted
    invited,          \* invitations not yet converted into requests
    notified,         \* <<user, newFriend>>: acceptances users were told of
    wants,            \* ghost: who of a pair asked or accepted since a removal
    asked             \* ghost: who of a pair ever asked or accepted

vars == <<relations, intents, deleting, invited, notified, wants, asked>>

-----------------------------------------------------------------------------
Pairs == {p \in Users \X Users : p[1] < p[2]}
Members(p) == {p[1], p[2]}
docId(u, v) == IF u < v THEN <<u, v>> ELSE <<v, u>>

Statuses == {"none", "a-requested", "b-requested", "friends"}
requested(u, v) == IF u < v THEN "a-requested" ELSE "b-requested"

userRelativeRequest(u, v, status) ==
    IF status = requested(u, v) THEN "userRequested"
    ELSE IF status = requested(v, u) THEN "otherRequested"
    ELSE status

Effects == {"makeRequest", "simultaneousRequest", "acceptRequest", "removeRelation"}

\* mutant: accepting a request that was cancelled is taken as a request
solveLateAccept(action, status) ==
    {e \in Effects : <<action, status, e>> \in {
        <<"request",  "none",           "makeRequest">>,
        <<"accept",   "otherRequested", "acceptRequest">>,
        <<"accept",   "none",           "acceptRequest">>}}

\* mutant: a simultaneous request replaces the other one
solveWithoutSimultaneous(action, status) ==
    {e \in Effects : <<action, status, e>> \in {
        <<"request",  "none",           "makeRequest">>,
        <<"request",  "otherRequested", "makeRequest">>,
        <<"accept",   "otherRequested", "acceptRequest">>}}

\* mutant: a request is made whatever the status is
solveAnyRequest(action, status) ==
    {e \in Effects : <<action, status, e>> \in {
        <<"request",  "none",           "makeRequest">>,
        <<"request",  "friends",        "makeRequest">>,
        <<"accept",   "otherRequested", "acceptRequest">>}}

\* the action each intent comes to for a relative status; no action for the
\* others ("doing nothing is the best")
solve(action, status) ==
    {e \in Effects : <<action, status, e>> \in {
        <<"request",  "none",           "makeRequest">>,
        <<"request",  "otherRequested", "simultaneousRequest">>,
        <<"cancel",   "userRequested",  "removeRelation">>,
        <<"unfriend", "friends",        "removeRelation">>,
        <<"unfriend", "userRequested",  "removeRelation">>,
        <<"unfriend", "otherRequested", "removeRelation">>,
        <<"accept",   "otherRequested", "acceptRequest">>,
        <<"discard",  "otherRequested", "removeRelation">>}}

Actions == {"request", "cancel", "unfriend", "accept", "discard"}

Intent == [id: Slots, user: Users, other: Users, effect: Effects,
           step: {"put", "notify"}]
Deleting == [id: Slots, user: Users, fresh: SUBSET Pairs]

Free(id) ==
    /\ \A i \in intents : i.id # id
    /\ \A d \in deleting : d.id # id

TypeOK ==
    /\ relations \in [Pairs -> Statuses]
    /\ intents \subseteq Intent
    /\ \A i \in intents : i.user # i.other
    /\ deleting \subseteq Deleting
    /\ \A d \in deleting, p \in Pairs : p \in d.fresh => d.user \in Members(p)
    /\ invited \subseteq Invitations
    /\ notified \subseteq Users \X Users
    /\ wants \in [Pairs -> SUBSET Users]
    /\ asked \in [Pairs -> SUBSET Users]

Init ==
    /\ relations = [p \in Pairs |-> "none"]
    /\ intents = {}
    /\ deleting = {}
    /\ invited = Invitations
    /\ notified = {}
    /\ wants = [p \in Pairs |-> {}]
    /\ asked = [p \in Pairs |-> {}]

-----------------------------------------------------------------------------
(* The handlers *)

\* users act once their account is created, their invitations converted
hasAccount(u) == \A w \in Users : <<w, u>> \notin invited

\* the status is read and the intent solved; the action is about to write
SolveIntent(id, u, v, action) ==
    /\ Free(id)
    /\ u # v
    /\ hasAccount(u)
    /\ \E effect \in solve(action, userRelativeRequest(u, v, relations[docId(u, v)])) :
          intents' = intents \union
              {[id |-> id, user |-> u, other |-> v, effect |-> effect, step |-> "put"]}
    /\ UNCHANGED <<relations, deleting, invited, notified, wants, asked>>

\* an invitation by email becomes a request when the account is created,
\* without a read of the status
ConvertInvitation(id, u, v) ==
    /\ Free(id)
    /\ <<u, v>> \in invited
    /\ invited' = invited \ {<<u, v>>}
    /\ intents' = intents \union
           {[id |-> id, user |-> u, other |-> v, effect |-> "makeRequest", step |-> "put"]}
    /\ UNCHANGED <<relations, deleting, notified, wants, asked>>

\* mutant: the status is written as the requester sees it
newRelativeStatus(i) ==
    IF i.effect = "makeRequest" THEN "userRequested"
    ELSE IF i.effect = "removeRelation" THEN "none"
    ELSE "friends"

newStatus(i) ==
    IF i.effect = "makeRequest" THEN requested(i.user, i.other)
    ELSE IF i.effect = "removeRelation" THEN "none"
    ELSE "friends"

\* mutant: whoever requests is told that the request is accepted
acceptedToRequester(i) ==
    IF i.effect = "simultaneousRequest"
    THEN {<<i.other, i.user>>, <<i.user, i.other>>}
    ELSE IF i.effect = "acceptRequest" THEN {<<i.other, i.user>>}
    ELSE IF i.effect = "makeRequest" THEN {<<i.user, i.other>>}
    ELSE {}

\* who is told of whose acceptance
accepted(i) ==
    IF i.effect = "simultaneousRequest"
    THEN {<<i.other, i.user>>, <<i.user, i.other>>}
    ELSE IF i.effect = "acceptRequest" THEN {<<i.other, i.user>>}
    ELSE {}

\* a write gives the document a new rev: a deletion that read it is a conflict
touch(p) == {[d EXCEPT !.fresh = @ \ {p}] : d \in deleting}

PutStatus(i) ==
    LET p == docId(i.user, i.other)
    IN  /\ i.step = "put"
        /\ relations' = [relations EXCEPT ![p] = newStatus(i)]
        /\ deleting' = touch(p)
        /\ intents' = (intents \ {i}) \union
               (IF i.effect = "removeRelation" THEN {}
                ELSE {[i EXCEPT !.step = "notify"]})
        /\ wants' = [wants EXCEPT ![p] =
               IF i.effect = "removeRelation" THEN {} ELSE @ \union {i.user}]
        /\ asked' = [asked EXCEPT ![p] =
               IF i.effect = "removeRelation" THEN @ ELSE @ \union {i.user}]
        /\ UNCHANGED <<invited, notified>>

Notify(i) ==
    /\ i.step = "notify"
    /\ notified' = notified \union accepted(i)
    /\ intents' = intents \ {i}
    /\ UNCHANGED <<relations, deleting, invited, wants, asked>>

\* deleting an account reads its relations (the view byStatus has none of
\* status "none") ...
ReadUserRelations(id, u) ==
    /\ Free(id)
    /\ deleting' = deleting \union
           {[id |-> id, user |-> u,
             fresh |-> {p \in Pairs : u \in Members(p) /\ relations[p] # "none"}]}
    /\ UNCHANGED <<relations, intents, invited, notified, wants, asked>>

\* ... and deletes the documents that were not written meanwhile
BulkDelete(d) ==
    /\ relations' = [p \in Pairs |-> IF p \in d.fresh THEN "none" ELSE relations[p]]
    /\ wants' = [p \in Pairs |-> IF p \in d.fresh THEN {} ELSE wants[p]]
    /\ deleting' = {[e EXCEPT !.fresh = @ \ d.fresh] : e \in deleting \ {d}}
    /\ UNCHANGED <<intents, invited, notified, asked>>

\* the server stops and restarts: what was in flight is lost, and so are the
\* invitations of an account that was being created
Crash ==
    /\ CanCrash
    /\ intents' = {}
    /\ deleting' = {}
    /\ invited' \in SUBSET invited
    /\ UNCHANGED <<relations, notified, wants, asked>>

Next ==
    \/ \E id \in Slots, u, v \in Users, action \in Actions : SolveIntent(id, u, v, action)
    \/ \E id \in Slots, u, v \in Users : ConvertInvitation(id, u, v)
    \/ \E i \in intents : PutStatus(i) \/ Notify(i)
    \/ \E id \in Slots, u \in Users : ReadUserRelations(id, u)
    \/ \E d \in deleting : BulkDelete(d)
    \/ Crash

Spec == Init /\ [][Next]_vars

-----------------------------------------------------------------------------
(* Properties *)

\* No interleaving makes friends of two users without both having asked for it
\* or accepted it at some time (solve_intent.js:5-9, 24-31): whatever an accept
\* or a simultaneous request writes over, it was solved from a request of the
\* other user.
FriendsBothAsked ==
    \A p \in Pairs : relations[p] = "friends" => Members(p) \subseteq asked[p]

\* A user is told that a friend accepted only when both users took part
\* (actions.js:5-16), even if the relation was removed since.
ToldOfTheirOwnRequests ==
    \A u, v \in Users :
       <<u, v>> \in notified => u # v /\ {u, v} \subseteq asked[docId(u, v)]

\* Friends are two users who both want it since the last removal.  solve_intent.js:28
\* takes "accepted after being cancelled" as a case where nothing is done.
FriendsBothWantIt ==
    \A p \in Pairs : relations[p] = "friends" => wants[p] = Members(p)

\* When both users of a pair have asked since the last removal they are friends:
\* tests/unit/controllers/010-relations.js says "should simultaneousRequest on status
\* 'otherRequested'" (solve_intent.js:7).
MutualRequestsMakeFriends ==
    \A p \in Pairs : wants[p] = Members(p) => relations[p] = "friends"

\* Friends only stop being friends by a removal, never by a request: requestFriend
\* "should do nothing on status 'friends'" (solve_intent.js:8).
FriendsUntilRemoval ==
    [][\A p \in Pairs : relations[p] = "friends" => relations'[p] \in {"friends", "none"}]_vars

\* Relations implement the abstract friendship, the wish of each user read from
\* the status.
wishes == [p \in Pairs |->
    IF relations[p] = "a-requested" THEN {p[1]}
    ELSE IF relations[p] = "b-requested" THEN {p[2]}
    ELSE IF relations[p] = "friends" THEN Members(p)
    ELSE {}]
Abstract == INSTANCE Friendship WITH wants <- wishes
ImplementsFriendship == Abstract!Spec

-----------------------------------------------------------------------------
(* Inductive invariants *)

\* a request was asked by its requester; an acceptance under way was solved from
\* a request of the other user
RequestsWereAsked ==
    \A u, v \in Users :
       u # v /\ relations[docId(u, v)] = requested(u, v) => u \in asked[docId(u, v)]
IntentsAreJustified ==
    \A i \in intents :
       /\ i.effect \in {"simultaneousRequest", "acceptRequest"}
             => i.other \in asked[docId(i.user, i.other)]
       /\ i.step = "notify" => i.user \in asked[docId(i.user, i.other)]

IInv ==
    /\ TypeOK
    /\ RequestsWereAsked
    /\ IntentsAreJustified
    /\ FriendsBothAsked
    /\ ToldOfTheirOwnRequests

\* handlers that do not overlap
NonOverlapping == \A s, t \in Slots : s = t

\* with handlers that do not overlap, an intent is applied to the status it was
\* solved from, and nobody acts on a relation before its invitations are requests
OneAtATime ==
    /\ \A i, j \in intents : i = j
    /\ \A d, e \in deleting : d = e
    /\ intents = {} \/ deleting = {}
IntentsAreCurrent ==
    \A i \in intents : i.step = "put" =>
       /\ i.effect = "makeRequest"
             => relations[docId(i.user, i.other)] \in {"none", requested(i.user, i.other)}
       /\ i.effect \in {"simultaneousRequest", "acceptRequest"}
             => relations[docId(i.user, i.other)] = requested(i.other, i.user)
InvitedDidNotAct ==
    /\ \A i \in intents : hasAccount(i.user)
    /\ \A u, v \in Users : <<u, v>> \in invited =>
          relations[docId(u, v)] \in {"none", requested(u, v)}

SequentialInv ==
    /\ TypeOK
    /\ OneAtATime
    /\ IntentsAreCurrent
    /\ InvitedDidNotAct
    /\ wants = wishes

=============================================================================
