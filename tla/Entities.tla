------------------------------ MODULE Entities ------------------------------
(***************************************************************************)
(* Entities (works and their authors), their history, and the merges of    *)
(* duplicates.  Every write of a document is checked by its revision, then *)
(* a patch (the difference between the document before and after) is       *)
(* posted to the entity's history.                                         *)
(*                                                                         *)
(* A merge moves what `to` misses from `from` to it, removes the authors   *)
(* only `from` claimed, turns `from` into a redirection, and redirects     *)
(* the claims and the items that were on it.  A revert restores the last   *)
(* version of `from` that its history has from before the redirection, and *)
(* undoes the other writes, each in turn.                                  *)
(*                                                                         *)
(* Of the content of an entity the model keeps the labels that not every   *)
(* entity has (one per language) and the authors of works, in order.       *)
(***************************************************************************)
EXTENDS Integers, FiniteSets, SequencesExt

CONSTANTS
    Works,            \* works of the local database
    Humans,           \* authors of the local database
    WdWorks,          \* works of Wikidata, which local ones may be merged into
    WdHumans,         \* authors of Wikidata
    Labels,           \* languages some entities have a label in
    Labelled,         \* bound: the entities that may have such labels
    Items,            \* items of users, each on an entity
    Slots,            \* requests that may be in flight at the same time
    NoUri,            \* an attribute that is not set
    MaxAuthors,       \* bound: authors of a work when one more is added
    MaxRequests,      \* bound: requests started, and restarts
    CanCrash          \* whether the server process may stop and restart

ASSUME EntitiesAssumption ==
    /\ Works \cap Humans = {} /\ WdWorks \cap WdHumans = {}
    /\ (Works \cup Humans) \cap (WdWorks \cup WdHumans) = {}
    /\ NoUri \notin Works \cup Humans \cup WdWorks \cup WdHumans
    /\ IsFiniteSet(Works \cup Humans) /\ MaxAuthors \in Nat /\ MaxRequests \in Nat

VARIABLES
    docs,             \* the documents of entities
    patches,          \* the history of each entity
    items,            \* the documents of items
    requests,         \* what each slot is doing
    started,          \* number of requests started, and of restarts
    past,             \* ghost: whether requests ever failed, or overlapped
    beforeMerge       \* ghost: what the last merge found, until something else starts

vars == <<docs, patches, items, requests, started, past, beforeMerge>>

-----------------------------------------------------------------------------
(* Documents                                                               *)

Ids == Works \cup Humans
Wikidata == WdWorks \cup WdHumans
Uris == Ids \cup Wikidata
Authors == Humans \cup WdHumans

create == [type |-> "entity", labels |-> {}, authors |-> <<>>, redirect |-> NoUri]

\* The document addSnapshots starts from: blank, and without a type
blank == [type |-> "none", labels |-> {}, authors |-> <<>>, redirect |-> NoUri]

\* A document of that content, which has removed no author
documentOf(c, version) ==
    [type |-> c.type, labels |-> c.labels, authors |-> c.authors, redirect |-> c.redirect,
     version |-> version, removedPlaceholdersIds |-> {}]

\* What patches follow of a document
versionned(d) ==
    [type |-> d.type, labels |-> d.labels, authors |-> d.authors, redirect |-> d.redirect]

\* mutant: only redirections to Wikidata are recognised
isWikidataRedirection(d) == d.redirect \in Wikidata

isRedirection(d) == d.redirect # NoUri

\* Entities the views byClaim and byClaimValue index
indexed(d) == d.type = "entity"

byClaimsValue(uri) == {w \in Works : indexed(docs[w]) /\ uri \in ToSet(docs[w].authors)}

\* The view has a row for each time a work claims it
rowsOf(uri) == [w \in byClaimsValue(uri) |->
    Cardinality({n \in DOMAIN docs[w].authors : docs[w].authors[n] = uri})]

\* What `to` misses; an author only where it has none, and then the first one
mergeDocs(from, to) ==
    [to EXCEPT !.labels = @ \cup from.labels,
               !.authors = IF @ = <<>> /\ from.authors # <<>> THEN <<Head(from.authors)>> ELSE @]

\* mutant: labels and claims are kept
redirectOnly(d, to, removed) == [d EXCEPT !.redirect = to, !.removedPlaceholdersIds = removed]

\* mutant: what was removed with the entity is not recorded
redirectForgetting(d, to, removed) == [d EXCEPT !.redirect = to, !.labels = {}, !.authors = <<>>]

turnIntoRedirection(d, to, removed) ==
    [d EXCEPT !.redirect = to, !.labels = {}, !.authors = <<>>, !.removedPlaceholdersIds = removed]

\* A sequence without any of the occurrences of a value
without(s, v) ==
    LET kept[n \in 0..Len(s)] == IF n = 0 THEN <<>>
                                 ELSE IF s[n] = v THEN kept[n - 1] ELSE Append(kept[n - 1], s[n])
    IN  kept[Len(s)]

indexOf(s, v) == SelectInSeq(s, LAMBDA w : w = v)

\* mutant: the claim on the other entity is added, the old one stays
addClaim(authors, from, to) ==
    IF from \notin ToSet(authors) THEN {}
    ELSE {IF to \in ToSet(authors) THEN without(authors, from) ELSE Append(authors, to)}

\* A row: the first claim is replaced, or all are removed where `to` is claimed already.
\* It throws, and the set is empty, where an earlier row has left none
redirectClaim(authors, from, to) ==
    IF from \notin ToSet(authors) THEN {}
    ELSE {IF to \in ToSet(authors) THEN without(authors, from)
          ELSE ReplaceAt(authors, indexOf(authors, from), to)}

\* The rows of a work, one after the other: the second one leaves none to a third
applyRedirections(authors, rows, from, to) ==
    CASE rows = 1 -> redirectClaim(authors, from, to)
      [] rows = 2 -> UNION {redirectClaim(a, from, to) : a \in redirectClaim(authors, from, to)}
      [] OTHER -> {}

-----------------------------------------------------------------------------
(* Patches.  A patch is a list of operations that test what they replace    *)
(* and throw when it is not there: each operator below is the set of its    *)
(* results, empty when it throws.                                           *)

None == <<"none", NoUri>>
Contexts == {None} \cup ({"mergeFrom", "redirectClaims"} \X Ids)

getDiff(d, new, context) ==
    [version |-> new.version, before |-> versionned(d), after |-> versionned(new),
     context |-> context]

add(s, i, v) == IF i \in 1..(Len(s) + 1) THEN {InsertAt(s, i, v)} ELSE {}
testRemove(s, i, v) == IF i \in 1..Len(s) /\ s[i] = v THEN {RemoveAt(s, i)} ELSE {}

\* Where two lists of authors start to differ
diffAt(b, a) == Min({i \in 1..(Len(b) + 1) : i > Len(b) \/ i > Len(a) \/ b[i] # a[i]})

\* The patch from b to a, applied to s: on b it gives a; on another list the
\* new author is added, then the one it takes the place of is removed after it
patchAuthors(b, a, s) ==
    LET i == diffAt(b, a)
        added == IF Len(a) >= Len(b) THEN add(s, i, a[i]) ELSE {s}
    IN  IF a = b THEN {s}
        ELSE IF b \in {s, <<>>} THEN {a}
        ELSE IF <<>> \in {a, s} THEN {}
        ELSE IF Len(a) > Len(b) THEN added
        ELSE UNION {testRemove(l, i + 1 + Len(a) - Len(b), b[i]) : l \in added}

\* The patch from b to a, undone on s; what it added is looked for in s
revertAuthors(b, a, s) ==
    LET i == diffAt(b, a)
        at == indexOf(s, a[i])
        added == IF Len(a) > Len(b) THEN {s} ELSE add(s, i + 1 + Len(a) - Len(b), b[i])
    IN  IF a = b THEN {s}
        ELSE IF a = <<>> THEN {IF Len(b) = 1 THEN s \o b ELSE b}
        ELSE IF s = <<>> THEN {}
        ELSE IF Len(a) < Len(b) THEN added
        ELSE UNION {testRemove(l, at, a[i]) : l \in added}

patchLabels(b, a, s) == IF b \ a \subseteq s THEN {(s \ (b \ a)) \cup (a \ b)} ELSE {}

\* An attribute that the patch sets, replaces or removes
patchValue(b, a, s, unset) == IF a = b THEN {s} ELSE IF b \in {unset, s} THEN {a} ELSE {}

content(d) == <<d.labels, d.authors, d.redirect>>

\* Becoming a redirection, or ceasing to be one, removes or adds all claims
\* and labels; on a redirection there is nothing else to patch
patchDoc(p, s) ==
    LET b == p.before
        a == p.after
        types == patchValue(b.type, a.type, s.type, "none")
    IN  IF isRedirection(a) # isRedirection(b)
        THEN {[a EXCEPT !.type = t] : t \in {x \in types : content(s) = content(b)}}
        ELSE IF isRedirection(s) /\ content(a) # content(b) THEN {}
        ELSE [type : types, labels : patchLabels(b.labels, a.labels, s.labels),
              authors : patchAuthors(b.authors, a.authors, s.authors), redirect : {s.redirect}]

\* The version of an entity after each of its patches
addSnapshots(e) ==
    LET snapshot[v \in 1..docs[e].version] ==
            LET posted == {p \in patches[e] : p.version = v}
            IN  IF v = 1 THEN {blank}
                ELSE IF posted = {} THEN snapshot[v - 1]
                ELSE UNION {patchDoc(p, s) : p \in posted, s \in snapshot[v - 1]}
    IN  snapshot

revertPatch(d, p) ==
    IF isRedirection(d) THEN {}
    ELSE {[d EXCEPT !.labels = la[1], !.authors = la[2]] :
            la \in patchLabels(p.after.labels, p.before.labels, d.labels) \X
                  revertAuthors(p.before.authors, p.after.authors, d.authors)}

-----------------------------------------------------------------------------
(* Requests.  A request goes through stages; a stage ends when the jobs it  *)
(* has started, which go on in parallel, are done.  A job that throws makes *)
(* the request fail once, and no further stage starts.                      *)

NoDoc == documentOf(create, 0)
NoJob == [step |-> "none", id |-> NoUri, doc |-> NoDoc, new |-> NoDoc,
          context |-> None, patch |-> 0]

NoRequest == [kind |-> "none", stage |-> "none", from |-> NoUri, to |-> NoUri,
              change |-> create, doc |-> NoDoc, found |-> <<>>, copies |-> <<>>,
              removed |-> {}, jobs |-> {}, failed |-> FALSE]

Job(step, id) == [NoJob EXCEPT !.step = step, !.id = id]
putUpdate(id, d, new, context) ==
    [NoJob EXCEPT !.step = "put", !.id = id, !.doc = d,
                  !.new = [new EXCEPT !.version = d.version + 1], !.context = context]

idle(s) == requests[s].kind = "none"
at(s, kind, stage) ==
    /\ requests[s].kind = kind /\ requests[s].stage = stage
    /\ requests[s].jobs = {} /\ ~requests[s].failed

\* A request reads, then changes what it is doing
goes(s, r) == requests' = [requests EXCEPT ![s] = r]
reads == UNCHANGED <<docs, patches, items, started, past, beforeMerge>>
fails(s) == goes(s, [requests[s] EXCEPT !.failed = TRUE, !.jobs = {}])

world == [docs |-> [e \in Ids |-> <<content(docs[e]), docs[e].type = "removed:placeholder">>],
          items |-> [i \in Items |-> <<items[i].entity, items[i].previousEntity>>]]
NoWorld == [from |-> NoUri, world |-> <<>>]

mayStart(s) == idle(s) /\ started < MaxRequests

\* `undo` is what the ghost beforeMerge becomes
Start(s, r, undo) ==
    /\ started' = started + 1
    /\ goes(s, r)
    /\ past' = IF \E t \in Slots : ~idle(t) THEN "overlaps" ELSE past
    /\ beforeMerge' = IF past' = "orderly" THEN undo ELSE NoWorld
    /\ UNCHANGED <<docs, patches, items>>

Finish(s) ==
    LET r == requests[s] IN
    /\ ~idle(s) /\ r.jobs = {}
    /\ r.failed \/ r.stage = "end"
    /\ goes(s, NoRequest)
    /\ past' = IF r.failed /\ past = "orderly" THEN "failures" ELSE past
    /\ UNCHANGED <<docs, patches, items, started, beforeMerge>>

-----------------------------------------------------------------------------
(* Jobs                                                                     *)

\* A job is replaced by what follows it, or throws
follows(s, j, next) == goes(s, [requests[s] EXCEPT !.jobs = (@ \ {j}) \cup next])
throws(s, j) == goes(s, [requests[s] EXCEPT !.jobs = @ \ {j}, !.failed = TRUE])

\* mutant: the revision is not checked
PutAnyway(s, j) ==
    /\ j.step = "put"
    /\ docs' = [docs EXCEPT ![j.id] = j.new]
    /\ follows(s, j, {[j EXCEPT !.step = "patch"]})
    /\ UNCHANGED <<patches, items, started, past, beforeMerge>>

\* An edit starts again when another write came first; other writes throw
PutDoc(s, j) ==
    /\ j.step = "put"
    /\ IF docs[j.id].version = j.doc.version
       THEN /\ docs' = [docs EXCEPT ![j.id] = j.new]
            /\ follows(s, j, {[j EXCEPT !.step = "patch"]})
       ELSE /\ IF requests[s].kind = "edit"
               THEN goes(s, [requests[s] EXCEPT !.jobs = {}, !.stage = "read"])
               ELSE throws(s, j)
            /\ UNCHANGED docs
    /\ UNCHANGED <<patches, items, started, past, beforeMerge>>

\* A patch without a difference is refused, once the document is written
CreatePatch(s, j) ==
    /\ j.step = "patch"
    /\ IF versionned(j.doc) = versionned(j.new)
       THEN throws(s, j) /\ UNCHANGED patches
       ELSE /\ patches' = [patches EXCEPT ![j.id] = @ \cup {getDiff(j.doc, j.new, j.context)}]
            /\ goes(s, [requests[s] EXCEPT
                 !.jobs = @ \ {j},
                 !.removed = IF requests[s].stage = "turn" THEN @ \cup {j.id} ELSE @])
    /\ UNCHANGED <<docs, items, started, past, beforeMerge>>

\* Nothing but the entity being merged claims the author: it is removed
DeleteIfIsolated(s, j) ==
    /\ j.step = "check"
    /\ follows(s, j, IF byClaimsValue(j.id) \subseteq {requests[s].from}
                     THEN {Job("remove", j.id)} ELSE {})
    /\ reads

RemovePlaceholder(s, j) ==
    /\ j.step = "remove"
    /\ LET d == docs[j.id] IN
       follows(s, j, IF isRedirection(d) THEN {}
                     ELSE {putUpdate(j.id, d, [d EXCEPT !.type = "removed:placeholder"], None)})
    /\ reads

RecoverPlaceholder(s, j) ==
    /\ j.step = "recover"
    /\ follows(s, j, {putUpdate(j.id, docs[j.id], [docs[j.id] EXCEPT !.type = "entity"], None)})
    /\ reads

RevertFromPatchDoc(s, j) ==
    /\ j.step = "revert"
    /\ LET patch == {p \in patches[j.id] : p.version = j.patch}
           reverted == UNION {revertPatch(docs[j.id], p) : p \in patch}
       IN
       IF reverted = {} THEN throws(s, j)
       ELSE \E d \in reverted :
              follows(s, j, {[putUpdate(j.id, docs[j.id], d, None) EXCEPT !.patch = j.patch]})
    /\ reads

\* Claims on the merged entity: found by the view, then read, then written
RedirectClaims(s, j) ==
    LET r == requests[s]
        updates(w) == {[docs[w] EXCEPT !.authors = a] :
                         a \in applyRedirections(docs[w].authors, r.found[w], r.from, r.to)}
    IN
    /\ \/ /\ j.step = "claims"
          /\ goes(s, [r EXCEPT !.found = rowsOf(r.from),
                               !.jobs = (@ \ {j}) \cup {Job("redirectClaims", NoUri)}])
       \/ /\ j.step = "redirectClaims"
          /\ IF \E w \in DOMAIN r.found : updates(w) = {}
             THEN throws(s, j)
             ELSE goes(s, [r EXCEPT !.found = <<>>, !.jobs = (@ \ {j}) \cup
                    UNION {{putUpdate(w, docs[w], new, <<"redirectClaims", r.from>>) :
                              new \in updates(w)} : w \in DOMAIN r.found}])
    /\ reads

\* mutant: the previous entity comes last
updateEntityPush(i, to) ==
    [i EXCEPT !.entity = to, !.previousEntity = Append(@, i.entity), !.version = @ + 1]

updateEntity(i, to) ==
    [i EXCEPT !.entity = to, !.previousEntity = <<i.entity>> \o @, !.version = @ + 1]

revertEntity(i) ==
    [i EXCEPT !.entity = Head(i.previousEntity), !.previousEntity = Tail(@), !.version = @ + 1]

copiesOf(found) == [i \in found |-> items[i]]

\* Items on the merged entity: found, then written all at once; those that
\* were written meanwhile are left as they are, and the request throws
AfterMerge(s, j) ==
    /\ j.step = "items"
    /\ LET r == requests[s] IN
       goes(s, [r EXCEPT !.copies = copiesOf({i \in Items : items[i].entity = r.from}),
                         !.jobs = (@ \ {j}) \cup {Job("bulk", NoUri)}])
    /\ reads

Bulk(s, j) ==
    LET r == requests[s]
        fresh == {i \in DOMAIN r.copies : items[i].version = r.copies[i].version}
        update(i) == IF r.kind = "merge" THEN updateEntity(i, r.to) ELSE revertEntity(i)
    IN
    /\ j.step = "bulk"
    /\ items' = [i \in Items |-> IF i \in fresh THEN update(r.copies[i]) ELSE items[i]]
    /\ goes(s, [r EXCEPT !.jobs = @ \ {j}, !.copies = <<>>,
                         !.failed = @ \/ fresh # DOMAIN r.copies])
    /\ UNCHANGED <<docs, patches, started, past, beforeMerge>>

JobStep(s) == \E j \in requests[s].jobs :
    \/ PutDoc(s, j) \/ CreatePatch(s, j)
    \/ DeleteIfIsolated(s, j) \/ RemovePlaceholder(s, j) \/ RecoverPlaceholder(s, j)
    \/ RevertFromPatchDoc(s, j)
    \/ RedirectClaims(s, j) \/ AfterMerge(s, j) \/ Bulk(s, j)

-----------------------------------------------------------------------------
(* Edits: a label, or a further author, on a document read first            *)

Changes == {[create EXCEPT !.labels = {l}] : l \in Labels} \cup
           {[create EXCEPT !.authors = <<a>>] : a \in Authors}

\* mutant: redirections are edited too
editAnything(r) ==
    LET d == docs[r.from] IN
    [r EXCEPT !.stage = "end",
              !.jobs = {putUpdate(r.from, d, [d EXCEPT !.labels = @ \cup r.change.labels,
                                                      !.authors = @ \o r.change.authors], None)}]

\* A request to edit once it has read the document
editOf(r) ==
    LET d == docs[r.from]
        new == [d EXCEPT !.labels = @ \cup r.change.labels, !.authors = @ \o r.change.authors]
    IN  IF \/ isRedirection(d)
           \/ r.change.labels \cap d.labels # {}
           \/ ToSet(r.change.authors) \cap ToSet(d.authors) # {}
        THEN [r EXCEPT !.failed = TRUE]
        ELSE [r EXCEPT !.stage = "end", !.jobs = {putUpdate(r.from, d, new, None)}]

StartEdit(s) == mayStart(s) /\ \E e \in Ids, c \in Changes :
    /\ c.labels # {} => e \in Labelled
    /\ c.authors # <<>> => e \in Works /\ Len(docs[e].authors) < MaxAuthors
    /\ Start(s, editOf([NoRequest EXCEPT !.kind = "edit", !.from = e, !.change = c]), NoWorld)

RetryOnConflict(s) ==
    /\ at(s, "edit", "read")
    /\ goes(s, editOf(requests[s]))
    /\ reads

-----------------------------------------------------------------------------
(* Merges                                                                   *)

sameType(from, to) == from \in Works <=> to \in Works \cup WdWorks

validateEntities(from, to) ==
    /\ from # to
    /\ ~isRedirection(docs[from])
    /\ to \in Ids => ~isRedirection(docs[to])

StartMerge(s) == mayStart(s) /\ \E from \in Ids, to \in Uris :
    /\ sameType(from, to)
    /\ validateEntities(from, to)
    /\ Start(s, [NoRequest EXCEPT !.kind = "merge", !.from = from, !.to = to,
                   !.stage = IF to \in Wikidata THEN "isolate" ELSE "mergeDocs"],
             [from |-> from, world |-> world])

MergeInvEntities(s) ==
    /\ at(s, "merge", "mergeDocs")
    /\ LET r == requests[s]
           from == docs[r.from]
           to == docs[r.to]
           merged == mergeDocs(from, to)
       IN  IF isRedirection(from) \/ isRedirection(to) THEN fails(s)
           ELSE goes(s, [r EXCEPT
                  !.stage = "isolate",
                  !.jobs = {putUpdate(r.to, to, new, <<"mergeFrom", r.from>>) :
                              new \in {merged} \ {to}}])
    /\ reads

\* The document to turn into a redirection is read, then the authors that
\* it may be the only one to claim are looked into
RemoveObsoletePlaceholderEntities(s) ==
    /\ at(s, "merge", "isolate")
    /\ LET r == requests[s]
           d == docs[r.from]
       IN  IF isRedirection(d) THEN fails(s)
           ELSE goes(s, [r EXCEPT !.stage = "turn", !.doc = d,
                           !.jobs = {Job("check", h) : h \in ToSet(d.authors) \cap Humans}])
    /\ reads

TurnIntoRedirection(s) ==
    /\ at(s, "merge", "turn")
    /\ LET r == requests[s] IN
       IF r.to = r.from THEN fails(s)
       ELSE LET new == turnIntoRedirection(r.doc, r.to, r.removed) IN
            goes(s, [r EXCEPT !.stage = "propagate", !.doc = NoDoc, !.removed = {},
                              !.jobs = {putUpdate(r.from, r.doc, new, None)}])
    /\ reads

PropagateRedirection(s) ==
    /\ at(s, "merge", "propagate")
    /\ goes(s, [requests[s] EXCEPT !.stage = "end",
                                   !.jobs = {Job("claims", NoUri), Job("items", NoUri)}])
    /\ reads

-----------------------------------------------------------------------------
(* Reverts of merges                                                        *)

\* The last version before the redirection, from the history
findVersionBeforeRedirect(e) ==
    LET snapshots == addSnapshots(e)
        last == docs[e].version
        before == {v \in 2..last : \E d \in snapshots[v] : ~isRedirection(d)}
    IN  IF \E d \in snapshots[last] : isRedirection(d) THEN snapshots[Max(before)] ELSE {}

StartRevert(s) == mayStart(s) /\ \E from \in Ids :
    LET versions == findVersionBeforeRedirect(from)
        r == [NoRequest EXCEPT !.kind = "revert", !.stage = "restore", !.from = from]
        undo == IF beforeMerge.from = from THEN beforeMerge ELSE NoWorld
    IN  IF versions = {} THEN Start(s, [r EXCEPT !.failed = TRUE], undo)
        ELSE \E d \in versions : Start(s, [r EXCEPT !.change = d], undo)

\* That version becomes the document, whatever it has become meanwhile
RestoreVersion(s) ==
    /\ at(s, "revert", "restore")
    /\ LET r == requests[s]
           d == docs[r.from]
           restored == documentOf(r.change, 0)
       IN  goes(s, [r EXCEPT !.stage = "items", !.change = create,
                       !.to = d.redirect, !.removed = d.removedPlaceholdersIds,
                       !.jobs = {putUpdate(r.from, d, restored, None)}])
    /\ reads

\* Items that ever were on the entity must have come from it in that merge
AfterRevert(s) ==
    /\ at(s, "revert", "items")
    /\ LET r == requests[s]
           found == {i \in Items : r.from \in ToSet(items[i].previousEntity)}
       IN  IF \E i \in found : items[i].entity # r.to \/ Head(items[i].previousEntity) # r.from
           THEN fails(s)
           ELSE goes(s, [r EXCEPT !.stage = "placeholders", !.copies = copiesOf(found),
                           !.jobs = {Job("bulk", NoUri)}])
    /\ reads

RecoverPlaceholders(s) ==
    /\ at(s, "revert", "placeholders")
    /\ goes(s, [requests[s] EXCEPT !.stage = "mergePatch", !.removed = {},
                   !.jobs = {Job("recover", h) : h \in requests[s].removed}])
    /\ reads

patchesOf(context) == {ep \in UNION {{e} \X patches[e] : e \in Ids} : ep[2].context = context}
revertJob(e, p) == [Job("revert", e) EXCEPT !.patch = p.version]

\* The first patch that merged the entity into the other one
RevertMergePatch(s) ==
    /\ at(s, "revert", "mergePatch")
    /\ LET r == requests[s]
           merges == {p \in patches[r.to] : p.context = <<"mergeFrom", r.from>>}
           first == {p \in merges : \A q \in merges : p.version <= q.version}
       IN  IF r.to = NoUri THEN fails(s)
           ELSE goes(s, [r EXCEPT !.stage = "redirections",
                  !.jobs = IF r.to \in Ids THEN {revertJob(r.to, p) : p \in first} ELSE {}])
    /\ reads

RevertClaimsRedirections(s) ==
    /\ at(s, "revert", "redirections")
    /\ LET r == requests[s] IN
       goes(s, [r EXCEPT !.stage = "end",
                  !.jobs = {revertJob(ep[1], ep[2]) :
                              ep \in patchesOf(<<"redirectClaims", r.from>>)}])
    /\ reads

-----------------------------------------------------------------------------
\* Documents and patches outlive the process, requests do not
Crash ==
    /\ CanCrash /\ started < MaxRequests
    /\ started' = started + 1
    /\ \E s \in Slots : ~idle(s)
    /\ requests' = [s \in Slots |-> NoRequest]
    /\ past' = IF past = "orderly" THEN "failures" ELSE past
    /\ beforeMerge' = NoWorld
    /\ UNCHANGED <<docs, patches, items>>

Init ==
    /\ \E labels \in [Ids -> SUBSET Labels],
          authors \in [Works -> {<<>>} \cup {<<h>> : h \in Humans}] :
         docs = [e \in Ids |-> documentOf(
                     [create EXCEPT !.labels = IF e \in Labelled THEN labels[e] ELSE {},
                                    !.authors = IF e \in Works THEN authors[e] ELSE <<>>], 2)]
    /\ patches = [e \in Ids |-> {getDiff(NoDoc, docs[e], None)}]
    /\ items \in [Items -> [entity : Works, previousEntity : {<<>>}, version : {1}]]
    /\ requests = [s \in Slots |-> NoRequest]
    /\ started = 0
    /\ past = "orderly"
    /\ beforeMerge = NoWorld

Next ==
    \/ \E s \in Slots :
         \/ StartEdit(s) \/ StartMerge(s) \/ StartRevert(s)
         \/ RetryOnConflict(s)
         \/ MergeInvEntities(s) \/ RemoveObsoletePlaceholderEntities(s) \/ TurnIntoRedirection(s)
         \/ PropagateRedirection(s)
         \/ RestoreVersion(s) \/ AfterRevert(s)
         \/ RecoverPlaceholders(s) \/ RevertMergePatch(s) \/ RevertClaimsRedirections(s)
         \/ JobStep(s)
         \/ Finish(s)
    \/ Crash

Spec == Init /\ [][Next]_vars

-----------------------------------------------------------------------------
(* Properties                                                               *)

Contents == [type : {"entity", "removed:placeholder", "none"}, labels : SUBSET Labels,
             authors : Seq(Authors), redirect : Uris \cup {NoUri}]
isDoc(d) ==
    /\ versionned(d) \in Contents
    /\ d.version \in Nat /\ d.removedPlaceholdersIds \subseteq Humans

\* Redirections have neither labels nor authors, only works have authors,
\* and items were each on the entities they remember.
TypeOK ==
    /\ \A e \in Ids :
         /\ isDoc(docs[e])
         /\ isRedirection(docs[e]) => docs[e].labels = {} /\ docs[e].authors = <<>>
         /\ e \in Humans => docs[e].authors = <<>>
         /\ isRedirection(docs[e]) => sameType(e, docs[e].redirect)
         /\ \A p \in patches[e] :
              /\ p.version \in 2..docs[e].version /\ p.context \in Contexts
              /\ {p.before, p.after} \subseteq Contents
    /\ \A i \in Items :
         /\ items[i].entity \in Works \cup WdWorks /\ items[i].previousEntity \in Seq(Works)
         /\ items[i].version \in Nat

\* The patches of an entity follow each other, up to its document, wherever
\* none is missing: parallel writes and restarts never make the history tell
\* of a change that was not made.
HistoryIsFaithful == \A e \in Ids : \A p \in patches[e] :
    /\ p.version = docs[e].version => p.after = versionned(docs[e])
    /\ \A q \in patches[e] : q.version = p.version + 1 => q.before = p.after
    /\ \A q \in patches[e] : q.version = p.version => q = p

\* A redirection is changed by nothing but the revert of its merge.
RedirectionsStand == [][\A e \in Ids :
    isRedirection(docs[e]) /\ content(docs'[e]) # content(docs[e]) =>
        \E s \in Slots : requests[s].kind = "revert" /\ requests[s].from = e]_vars

\* Unless merges overlap, following redirections always ends.
RedirectionsEnd == past # "overlaps" =>
    LET follow[n \in Nat] == [e \in Ids |->
            IF n = 0 \/ docs[e].redirect \notin Ids THEN docs[e].redirect
            ELSE follow[n - 1][docs[e].redirect]]
    IN  \A e \in Ids : follow[Cardinality(Ids)][e] \notin Ids

orderly == past = "orderly"
quiet == \A s \in Slots : idle(s)

\* Items are where the redirections from the entity they were created on
\* lead, and remember the way back, through any merges and reverts.
ItemsFollowMerges == orderly /\ quiet => \A i \in Items :
    LET path == <<items[i].entity>> \o items[i].previousEntity IN
    /\ \A n \in 2..Len(path) : docs[path[n]].redirect = path[n - 1]
    /\ items[i].entity \in Ids => ~isRedirection(docs[items[i].entity])

\* What a merge moves is all at the other entity when it is done.
MergesLeaveNothingBehind == \A s \in Slots : at(s, "merge", "end") /\ orderly =>
    LET r == requests[s] IN
    /\ docs[r.from].redirect = r.to
    /\ byClaimsValue(r.from) = {}
    /\ \A i \in Items : items[i].entity # r.from
    /\ r.to \in Ids => beforeMerge.world.docs[r.from][1][1] \subseteq docs[r.to].labels

\* An author is removed only when no other work claims it than the one being
\* merged.
OnlyObsoleteAuthorsAreRemoved == [][\A h \in Humans :
    docs[h].type # "removed:placeholder" /\ docs'[h].type = "removed:placeholder" =>
        \A w \in Works : h \in ToSet(docs[w].authors) =>
            \E s \in Slots : requests[s].kind = "merge" /\ requests[s].from = w]_vars

\* A revert right after the merge puts everything back where it was: labels,
\* authors, redirections, removed authors and items.
RevertUndoesMerge == \A s \in Slots :
    at(s, "revert", "end") /\ orderly /\ beforeMerge.from = requests[s].from =>
        world = beforeMerge.world

=============================================================================
