-------------------------------- MODULE Groups --------------------------------
(***************************************************************************)
(* The memberships of a group of users.  The group is one document whose   *)
(* lists (admins, members, invited, requested) hold membership objects.    *)
(* An action on a membership is validated against views of the group, read *)
(* one by one, then applied with db.update to the group as it is by then:  *)
(* the update itself only checks that the membership it moves is there.    *)
(* Settings are updated, and the memberships of deleted accounts removed,  *)
(* by changing a copy of the document and writing it back if its rev is    *)
(* current.  When a user has left, a listener deletes the group if it has  *)
(* no admins any more.                                                     *)
(*                                                                         *)
(* A user may have several memberships, which numbers distinguish.         *)
(* Left out: the list of declined invitations, which nothing reads, the    *)
(* settings other than open, the timestamps (any memberships may be the    *)
(* most senior), notifications and emails.  A restart of the server drops  *)
(* the handlers in flight: for safety, they never take another step.       *)
(***************************************************************************)
EXTENDS Naturals, FiniteSets

CONSTANTS
    Users,
    Memberships,      \* pairs of a user and the number of a membership of theirs
    Slots             \* handlers that may be in flight at the same time

ASSUME MembershipsAssumption ==
    /\ IsFiniteSet(Memberships)
    /\ \A m \in Memberships : m[1] \in Users

VARIABLES
    group,            \* the group document
    handling,         \* actions being validated, then applied
    writing,          \* copies of the document changed and about to be written
    checking,         \* listeners of a departure, deleting an empty group
    agreed,           \* ghost: memberships whose user asked or accepted
    approved          \* ghost: memberships the group invited or accepted

vars == <<group, handling, writing, checking, agreed, approved>>

-----------------------------------------------------------------------------
(* The group *)

Lists == {"admins", "members", "invited", "requested"}
Group == [exists: BOOLEAN, open: BOOLEAN, lists: [Lists -> SUBSET Memberships]]

present(g) == UNION {g.lists[l] : l \in Lists}
isIn(u, list) == \E m \in group.lists[list] : m[1] = u
userIsMember(u) == isIn(u, "admins") \/ isIn(u, "members")

\* the last admin can't leave while there are members
userCanLeave(u) ==
    \/ ~isIn(u, "admins")
    \/ Cardinality(group.lists["admins"]) # 1
    \/ group.lists["members"] = {}

\* what is read of the group to validate each action
checks == [
    invite        |-> {"userInGroup"},
    accept        |-> {"userInvited"},
    decline       |-> {"userInvited"},
    request       |-> {"userOut"},
    cancelRequest |-> {"userRequested"},
    acceptRequest |-> {"userInAdmins", "targetRequested"},
    refuseRequest |-> {"userInAdmins", "targetRequested"},
    makeAdmin     |-> {"userInAdmins"},
    kick          |-> {"userInAdmins", "targetNotAdmin"},
    leave         |-> {"userInGroup", "userCanLeave"},
    updateSettings |-> {"userInAdmins"}]
Actions == DOMAIN checks
\* the actions on another user
targeted == {"invite", "acceptRequest", "refuseRequest", "makeAdmin", "kick"}
Checks == UNION {checks[a] : a \in Actions}

passes(check, u, v) ==
    \/ check = "userInGroup" /\ userIsMember(u)
    \/ check = "userInvited" /\ isIn(u, "invited")
    \/ check = "userOut" /\ ~(\E l \in Lists : isIn(u, l))
    \/ check = "userRequested" /\ isIn(u, "requested")
    \/ check = "userInAdmins" /\ isIn(u, "admins")
    \/ check = "targetRequested" /\ isIn(v, "requested")
    \/ check = "targetNotAdmin" /\ ~isIn(v, "admins")
    \/ check = "userCanLeave" /\ userCanLeave(u)

Handling == [id: Slots, action: Actions, user: Users, target: Users,
             checks: SUBSET Checks]
Writing == [id: Slots, kind: {"settings", "removal"}, user: Users, doc: Group,
            current: BOOLEAN]
Checking == [id: Slots, step: {"get", "delete"}]

Free(id) ==
    /\ \A h \in handling : h.id # id
    /\ \A w \in writing : w.id # id
    /\ \A c \in checking : c.id # id

TypeOK ==
    /\ group \in Group
    /\ handling \subseteq Handling
    /\ writing \subseteq Writing
    /\ checking \subseteq Checking
    /\ agreed \subseteq Memberships
    /\ approved \subseteq Memberships

\* a group that a user just created
Init ==
    \E creator \in Memberships, open \in BOOLEAN :
       /\ group = [exists |-> TRUE, open |-> open,
                   lists |-> [l \in Lists |-> IF l = "admins" THEN {creator} ELSE {}]]
       /\ handling = {}
       /\ writing = {}
       /\ checking = {}
       /\ agreed = {creator}
       /\ approved = {creator}

-----------------------------------------------------------------------------
(* Actions on memberships *)

\* mutant: actions on nobody else have no target
StartWithoutTarget(id, a, u, v) ==
    /\ Free(id)
    /\ group.exists
    /\ handling' = handling \union
           {[id |-> id, action |-> a, user |-> u,
             target |-> IF a \in targeted THEN v ELSE "undefined", checks |-> checks[a]]}
    /\ UNCHANGED <<group, writing, checking, agreed, approved>>

StartAction(id, a, u, v) ==
    /\ Free(id)
    /\ group.exists
    /\ a \notin targeted => v = u
    /\ handling' = handling \union
           {[id |-> id, action |-> a, user |-> u, target |-> v, checks |-> checks[a]]}
    /\ UNCHANGED <<group, writing, checking, agreed, approved>>

\* one view of the group is read; a handler whose check fails is rejected
Validate(h, check) ==
    /\ check \in h.checks
    /\ handling' = (handling \ {h}) \union
           (IF group.exists /\ passes(check, h.user, h.target)
            THEN {[h EXCEPT !.checks = @ \ {check}]} ELSE {})
    /\ UNCHANGED <<group, writing, checking, agreed, approved>>

with(g, m, list) == [g EXCEPT !.lists[list] = @ \union {m}]
without(g, m, list) == [g EXCEPT !.lists[list] = @ \ {m}]

\* a membership of user u created in a list
created(g, u, list) ==
    {with(g, m, list) : m \in {x \in Memberships : x[1] = u} \ present(g)}
\* a membership of user u destroyed, or moved from a list to another
destroyed(g, u, from) ==
    {without(g, m, from) : m \in {x \in g.lists[from] : x[1] = u}}
moved(g, u, from, to) ==
    {with(without(g, m, from), m, to) : m \in {x \in g.lists[from] : x[1] = u}}

\* mutant: an admin can be kicked like any other
outcomesKickAny(h, g) ==
    {d \in created(g, h.target, "invited") : h.action = "invite" /\ ~isIn(h.target, "invited")}
    \union {d \in moved(g, h.user, "invited", "members") : h.action = "accept"}
    \union {d \in moved(g, h.target, "members", "admins") : h.action = "makeAdmin"}
    \union {d \in destroyed(g, h.target, "admins") : h.action = "kick"}

\* mutant: whoever is accepted by an admin becomes a member, invited users too
outcomesAcceptInvited(h, g) ==
    {d \in created(g, h.target, "invited") : h.action = "invite" /\ ~isIn(h.target, "invited")}
    \union {d \in created(g, h.user, "requested") : h.action = "request"}
    \union {d \in moved(g, h.target, "requested", "members") : h.action = "acceptRequest"}
    \union {d \in moved(g, h.target, "invited", "members") : h.action = "acceptRequest"}

\* the groups an action may result in: none when it throws
outcomes(h, g) ==
    {d \in created(g, h.target, "invited") : h.action = "invite" /\ ~isIn(h.target, "invited")}
    \union {d \in moved(g, h.user, "invited", "members") : h.action = "accept"}
    \union {d \in destroyed(g, h.user, "invited") : h.action = "decline"}
    \union {d \in created(g, h.user, "members") : h.action = "request" /\ g.open}
    \union {d \in created(g, h.user, "requested") : h.action = "request" /\ ~g.open}
    \union {d \in destroyed(g, h.user, "requested") : h.action = "cancelRequest"}
    \union {d \in moved(g, h.target, "requested", "members") : h.action = "acceptRequest"}
    \union {d \in destroyed(g, h.target, "requested") : h.action = "refuseRequest"}
    \union {d \in moved(g, h.target, "members", "admins") : h.action = "makeAdmin"}
    \union {d \in destroyed(g, h.target, "members") : h.action = "kick"}
    \union {d \in destroyed(g, h.user, IF isIn(h.user, "admins") THEN "admins" ELSE "members") :
              h.action = "leave"}

\* a write of the group makes the copies read before stale
Write(g, others) ==
    /\ group' = g
    /\ writing' = {[w EXCEPT !.current = FALSE] : w \in others}

\* the memberships that an action touches are those that enter a list or leave it
touched(g, l) == g.lists[l] \ group.lists[l]

\* the user asks (request) or accepts an invitation; the group invites, accepts a
\* request, or lets anyone in when it is open
Consent(h, g) ==
    /\ agreed' = (agreed \union
          (IF h.action \in {"request", "accept"}
           THEN touched(g, "members") \union touched(g, "requested") ELSE {}))
              \intersect present(g)
    /\ approved' = (approved \union
          (IF h.action \in {"invite", "acceptRequest"} \/ (h.action = "request" /\ group.open)
           THEN touched(g, "members") \union touched(g, "invited") ELSE {}))
              \intersect present(g)

ApplyAction(h) ==
    /\ h.checks = {}
    /\ h.action # "updateSettings"
    /\ group.exists
    /\ \E g \in outcomes(h, group) :
          /\ Write(g, writing)
          /\ Consent(h, g)
    /\ handling' = handling \ {h}
    /\ checking' = IF h.action = "leave"
                   THEN checking \union {[id |-> h.id, step |-> "get"]}
                   ELSE checking

\* the group is deleted, or the membership to move is not there
RejectAction(h) ==
    /\ h.checks = {}
    /\ h.action # "updateSettings"
    /\ ~group.exists \/ outcomes(h, group) = {}
    /\ handling' = handling \ {h}
    /\ UNCHANGED <<group, writing, checking, agreed, approved>>

-----------------------------------------------------------------------------
(* The listener of group:leave *)

\* mutant: a group with invitations pending is kept
GetUninvitedGroup(c) ==
    /\ c.step = "get"
    /\ checking' = (checking \ {c}) \union
           (IF group.exists /\ group.lists["admins"] = {} /\ group.lists["invited"] = {}
            THEN {[c EXCEPT !.step = "delete"]} ELSE {})
    /\ UNCHANGED <<group, handling, writing, agreed, approved>>

GetGroup(c) ==
    /\ c.step = "get"
    /\ checking' = (checking \ {c}) \union
           (IF group.exists /\ group.lists["admins"] = {}
            THEN {[c EXCEPT !.step = "delete"]} ELSE {})
    /\ UNCHANGED <<group, handling, writing, agreed, approved>>

DeleteGroup(c) ==
    /\ c.step = "delete"
    /\ Write([group EXCEPT !.exists = FALSE], writing)
    /\ checking' = checking \ {c}
    /\ UNCHANGED <<handling, agreed, approved>>

-----------------------------------------------------------------------------
(* Copies written back *)

\* the document is read once the right to update settings is validated
ReadSettings(h, value) ==
    /\ h.checks = {}
    /\ h.action = "updateSettings"
    /\ handling' = handling \ {h}
    /\ writing' = writing \union
           {[id |-> h.id, kind |-> "settings", user |-> h.user,
             doc |-> [group EXCEPT !.open = value], current |-> group.exists]}
    /\ UNCHANGED <<group, checking, agreed, approved>>

\* the lists without a user, and the 3 most senior members promoted when no admin
\* is left
withoutUser(g, u) ==
    [g EXCEPT !.lists = [l \in Lists |-> {m \in g.lists[l] : m[1] # u}]]
promotions(g) ==
    {[g EXCEPT !.lists["admins"] = p, !.lists["members"] = @ \ p] :
        p \in {s \in SUBSET g.lists["members"] :
                 \/ s = g.lists["members"] /\ Cardinality(s) <= 3
                 \/ Cardinality(s) = 3}}

deleteUser(g, u) ==
    LET kept == withoutUser(g, u)
    IN  IF kept.lists["admins"] = {} THEN promotions(kept) ELSE {kept}

\* the groups of a user whose account is deleted are those where they are a member
\* or an admin; a group that no admin is left for is deleted
RemoveUser(id, u) ==
    /\ Free(id)
    /\ group.exists
    /\ userIsMember(u)
    /\ \E g \in deleteUser(group, u) :
          writing' = writing \union
              {[id |-> id, kind |-> "removal", user |-> u,
                doc |-> [g EXCEPT !.exists = g.lists["admins"] # {}], current |-> TRUE]}
    /\ UNCHANGED <<group, handling, checking, agreed, approved>>

\* mutant: the copy is written whatever happened to the group meanwhile
PutAnyCopy(w) ==
    /\ Write(w.doc, writing \ {w})
    /\ agreed' = agreed \intersect present(w.doc)
    /\ approved' = approved \intersect present(w.doc)
    /\ UNCHANGED <<handling, checking>>

\* put, or delete, with the rev of the copy
PutCopy(w) ==
    /\ IF w.current
       THEN /\ Write(w.doc, writing \ {w})
            /\ agreed' = agreed \intersect present(w.doc)
            /\ approved' = approved \intersect present(w.doc)
       ELSE /\ writing' = writing \ {w}
            /\ UNCHANGED <<group, agreed, approved>>
    /\ UNCHANGED <<handling, checking>>

-----------------------------------------------------------------------------
\* what the server does, once a handler is in flight
Step(id) ==
    \/ \E h \in handling : h.id = id /\
          \/ \E check \in h.checks : Validate(h, check)
          \/ ApplyAction(h)
          \/ RejectAction(h)
          \/ \E value \in BOOLEAN : ReadSettings(h, value)
    \/ \E c \in checking : c.id = id /\ (GetGroup(c) \/ DeleteGroup(c))
    \/ \E w \in writing : w.id = id /\ PutCopy(w)

\* what users ask
Ask(id) ==
    \/ \E a \in Actions, u, v \in Users : StartAction(id, a, u, v)
    \/ \E u \in Users : RemoveUser(id, u)

Next == \E id \in Slots : Ask(id) \/ Step(id)

\* a handler in flight goes on: the database answers and the event loop runs what
\* waits for it; users may stop asking
Fairness == \A id \in Slots : WF_vars(Step(id))

Spec == Init /\ [][Next]_vars
FairSpec == Spec /\ Fairness

-----------------------------------------------------------------------------
(* Properties *)

\* Whoever is in the group, as a member or an admin, asked or accepted, and the
\* group invited or accepted them or was open, through the very membership they
\* hold (group.js:54-72), whatever validations and updates interleave.
MembershipIsMutual ==
    group.lists["admins"] \union group.lists["members"] \subseteq agreed \intersect approved

\* No one but an admin themselves, by leaving or by deleting their account, ends
\* their being an admin while the group exists: a kick validated before its target
\* was made an admin kicks nobody (membership_validations.js:96-109, group.js:80-82).
AdminsOnlyLeave ==
    [][\A m \in group.lists["admins"] :
         group'.exists /\ m \notin group'.lists["admins"] =>
            \/ \E h \in handling \ handling' : h.action = "leave" /\ h.user = m[1]
            \/ \E w \in writing \ writing' :
                  w.kind = "removal" /\ w.user = m[1] /\ group' = w.doc]_vars

\* A copy written back never undoes what happened to the memberships since it was
\* read: settings change no membership (update_settings.js:24-32).
SettingsKeepMemberships ==
    [][group'.open # group.open => group'.lists = group.lists /\ group'.exists]_vars

\* A group without admins is deleted, or has admins again
\* (membership_update_hooks.js:10-21), however departures interleave.
AdminlessGroupsEnd ==
    (group.exists /\ group.lists["admins"] = {})
        ~> (~group.exists \/ group.lists["admins"] # {})

\* membership_update_hooks.js:13-14: "An admin can't leave a group if there are still
\* members so, if there are no admins, there should be no members too".
NoAdminsNoMembers ==
    group.lists["admins"] = {} => group.lists["members"] = {}

-----------------------------------------------------------------------------
(* The inductive invariant *)

\* an invitation was made by the group, a request by its user
PendingIsJustified ==
    /\ group.lists["invited"] \subseteq approved
    /\ group.lists["requested"] \subseteq agreed

\* a copy that can still be written brings nobody in: settings keep the lists, and a
\* removal takes out no one else
CopiesAreFaithful ==
    \A w \in writing : w.current =>
       /\ group.exists
       /\ w.kind = "settings" => w.doc.lists = group.lists /\ w.doc.exists
       /\ w.kind = "removal" =>
            /\ w.doc.open = group.open
            /\ w.doc.lists["admins"] \union w.doc.lists["members"]
                  \subseteq group.lists["admins"] \union group.lists["members"]
            /\ w.doc.lists["invited"] \subseteq group.lists["invited"]
            /\ w.doc.lists["requested"] \subseteq group.lists["requested"]
            /\ \A m \in group.lists["admins"] : m[1] # w.user => m \in w.doc.lists["admins"]

IInv ==
    /\ TypeOK
    /\ PendingIsJustified
    /\ MembershipIsMutual
    /\ CopiesAreFaithful

=============================================================================
