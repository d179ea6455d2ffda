# Inventaire: a verification development

Inventaire (https://inventaire.io) is a web service with which people list their
books, lend, give or sell them, join friends and groups, and edit together a
wiki-like database of works, editions and authors. This directory holds TLA+
specifications of the server (`src/server`), the TLC configurations that check
them on small instances, and proofs that TLAPS checks for every instance.

The server is one Node.js process over CouchDB. Nothing runs in parallel inside
it, but **every `await` lets other requests in**, and CouchDB offers no
transaction over more than one document. What can go wrong is therefore what
happens between two awaits of one handler. All the modules share one view of it:

* the state is what the databases hold, plus one record per handler in flight,
  which says at which await it is and what it carries from the previous ones;
* a step of a handler goes from one await to the next, so it is atomic;
* `db.update(id, fn)` (blue-cot: get, apply `fn`, put, and again on a conflict)
  is one atomic step, which sees the current document whatever was read before;
* `put`, `post` and `bulk` take a document read earlier; CouchDB refuses it if
  its revision is not the current one, and no caller of these retries, unless
  stated. In a `bulk` each document succeeds or fails on its own, and the call
  rejects if any failed;
* `radio.emit` runs listeners at once in production and nobody waits for what
  they started (the tests do wait, which hides these interleavings from them);
* a stop of the process loses the handlers in flight and keeps the databases.

CouchDB itself, views included, is assumed to answer from its current state.

## 1. Inventory

### Modelled

**Transactions** (`controllers/transactions`, `models/transaction.js`,
`models/item.js`). State: transaction documents (state and list of actions) and
item documents (owner, what the owner offers, audience, history of owners).
Operations: request, accept, decline, confirm, return, cancel; the change of
owner by a confirmed giving or selling; edits and deletion of items; the
cancellation of a deleted account's transactions. Interacts with items (the
change of owner runs in a listener of `transaction:update`), with the views
`byBusyItem` and `byUserAndItem`, with relations and groups (who may see an
item) and with user deletion. Hard: the validity of a new state is checked on a
copy and applied to whatever the document is by then; the item is checked free
before an await; the change of owner is asynchronous, unsupervised and not
retried; items are written from stale copies. Correct means: an item only moves
by consent of both, its history is the chain of its owners, no move is
forgotten; one transaction at a time holds an item.

**Relations** (`controllers/relations`, `models/relation.js`). State: one
document per pair of users, whose id orders them; acceptances that users are
told of. Operations: request, cancel, accept, discard, unfriend; requests made
from invitations when an account is created; deletion of an account's
relations. Hard: an intent is solved from a status read before the write; users
of a pair act simultaneously; the status is stored in the order of ids and read
relative to a user. Correct means: friends both asked, requests that cross make
friends, nobody is told of an acceptance they took no part in.

**Groups** (`controllers/groups`, `models/group.js`). State: one document with
lists of memberships (admins, members, invited, requested) and settings.
Operations: invite, accept, decline, request, cancelRequest, acceptRequest,
refuseRequest, makeAdmin, kick, leave, updateSettings; removal of deleted
accounts with promotion of senior members; deletion of a group left empty.
Hard: an action is validated against several views before the update, and the
update checks only that the membership it moves is there; settings and removals
write back a copy of the whole document; a listener deletes groups. Correct
means: membership is mutual, admins are not kicked, settings undo no change of
membership, a group without admins does not stay.

**Entities** (`models/entity.js`, `models/patch.js`, `controllers/entities`).
State: versioned documents (labels, claims, or a redirection), one patch per
version, the entity of each item and its previous ones. Operations: edits,
retried on conflict; merges (what the target misses moved to it, authors only
the source claims removed, the source turned into a redirection, the claims and
the items on it redirected); reverts of merges; and, not modelled yet, creation,
deletion, and reverts of any patch. Hard: a document and its patch are two
writes; a merge is a dozen writes without a transaction, some in parallel, none
retried; merges overlap, chain, and are reverted in any order, from a history
that may have holes; a patch is undone on a document that went on. Correct
means: the history tells what was written, redirections stand and end, claims
and items follow them, an author that is claimed is not removed, a revert undoes
its merge.

**Services of the server**, each a small state of its own beside the four above:

| Part | State, operations, what is hard, what makes it correct |
|---|---|
| **Cache** (`lib/cache.js`) and **request grouper** (`lib/request_grouper.js`) | Bodies and timestamps in LevelDB; reads, refreshes, requests of the keys asked for within a delay, failures answered with old values, writes that nobody waits for. Calls, answers and writes overlap. Correct: each call is in one request and is answered once, a refresh has a fresh answer, a get returns. |
| **Host bans** (`lib/requests_temporary_host_ban.js`, `lib/requests.js`) | A ban whose duration is multiplied at each new failure, saved by a debounced write, restored at start. Requests in progress fail together. Correct: one increase per ban that ran out. |
| **Tasks** (`controllers/tasks`) | Suggestions to merge, created by checks of entities, archived by merges and removals, brought back by reverts and recoveries, dismissed by users, deleted when Wikidata redirects, given scores. A request writes the entity and emits its event later; a listener reads a view, then documents by id, then writes them in bulk, and a conflict leaves one out. Correct: the tasks of an entity end and come back with it, no duplicate is suggested twice. |
| **Sessions keys** (`lib/auto_rotated_keys.js`) | Two keys in memory and in a file that is not waited for; timers; restarts. Correct: a session is verified for the whole life of its cookie. |
| **Accounts** (`controllers/user/lib`) | Usernames, a lock in memory that expires, signups whose check and write are apart. Correct: one account per username. |
| **Transaction messages** and **debounced emails** (`controllers/comments`, `lib/emails`) | Messages, read flags compared with a stale copy, a waiting list of emails that each message restarts and a crawler empties. Correct: a message is noticed by its addressee in the end. |
| **Changes followers** (`lib/follow.js`) and **search indexation** (`db/elasticsearch`) | The sequence of the feed, saved by a debounced write; changes being formatted, batches, posts; restarts. Correct: the index catches up with the database. |
| **Transaction pages of the web client** (`client/app/modules/transactions`) | The buttons each party is offered, from tables kept in sync with the server's by hand. Correct: they offer what the server accepts. |

### Partly modelled, as a side of the above

| Part | What is modelled, what is not |
|---|---|
| Items (`models/item.js`) | owner, history, offer, audience, deletion, stale writes (Transactions); the entity of an item and its redirections (Entities) |
| User deletion (`controllers/user/lib/delete_user_and_cleanup.js`) | its effect on each component, as an action of its module; not the whole sequence, in which a cleanup that rejects prevents the deletion of items |
| Invitations (`controllers/invitations`, `models/invited.js`) | their conversion into friend requests (Relations); not who may invite an email again |
| Notifications | who is told of an accepted request (Relations) |

### Not modelled

| Part | Why |
|---|---|
| Group slugs, shelves, login attempts | One check and one write, sets of items of one owner, a counter flushed by a timer: too little state to earn a module. |
| Entities data sources, ActivityPub, images, feeds, reports, contents of emails, scripts | Queries, parsing, rendering, deliveries by libraries: pure I/O and conversions. |
| The rest of the web client (`client/app`) | Display and forms; the server enforces every rule again. |

`PROJECT.json` lists these parts with their sources, and under "hazards" what in
them is hard to test, each at its line.

## 2. Plan

In order; what is done is marked.

1. **Transactions** and its proofs (done): the books people entrust to others.
2. **Relations**, refining **Friendship**, and its proofs (done).
3. **Groups** and its proofs (done).
4. **Entities** and its proofs (done: edits, merges, their reverts). Left:
   deletion after the check that nothing uses the entity, reverts of any patch,
   changed and removed values.
5. **Ownership**, the abstract specification that Transactions implements, and the
   proof of it (done); **TransactionPages** (done).
6. **Fetching**, **HostBans**, **Tasks**, **SessionKeys**, **Accounts**,
   **Messages**, **Indexation** (done), with proofs of the safety of Fetching,
   HostBans, Tasks, Accounts and SessionKeys (done). Left: the instances that
   follow the session keys of another one, emails and tokens of accounts, tasks
   reported by users.
7. Not started: the sequence of the deletion of a user, as a composition; the
   documents of invitations; Tasks composed with Entities.

## 3. The modules

### Transactions

| TLA+ | Code |
|---|---|
| `items`, `transactions` | the documents, with `rev` for `_rev` of an item |
| `requesting` | a request at one of the awaits of `request.js` (steps `itemIsBusy`, `noExisting`, `create`), with the copy of the item read first |
| `updating` | an update of state: accepting waits for the busy check (`checkBusy`), then `update` |
| `transferring` | the listener of `transaction:update`, about to read the item |
| `writing` | an item read and changed, about to be written |
| `RequestItem`, `VerifyRightToRequest`, `VerifyNoExistingTransaction`, `CreateTransaction`, `RejectNotRequestable` | `request.js`, `rights_verification.js`, `Transaction.create` |
| `StartUpdateState`, `CheckForConcurrentTransactions`, `UpdateState` | `update_state.js`, `transactions_.updateState` |
| `ChangeOwner`, `WriteItem` | `items_.changeOwner`; put, with its conflict |
| `UpdateItem`, `DeleteItem` | `items_.update` and `bulkUpdate`, `delete_by_ids.js` |
| `CancelAllActiveTransactions` | deletion of an account |
| `Crash` | a restart of the process |

`verifyRightToInteract` is not awaited by `verifyRightToRequest`, so that the
rejection of its promise for a network item stops nothing: the model has what
the code does, which lets anyone request a network item, and has no networks.

### Relations and Friendship

| TLA+ | Code |
|---|---|
| `relations` | the status of the document of each pair; missing and "none" are one |
| `intents` | an intent solved, about to write (`put`) or to emit (`notify`) |
| `deleting` | an account's relations read by a view, about to be bulk deleted; `fresh` has those not written since |
| `solve`, `SolveIntent`, `PutStatus`, `Notify` | `solve_intent.js`, `lib/actions.js`, `actions.js` |
| `ConvertInvitation` | `invitations.js`: makeRequest without a read of the status |
| `wants`, `asked` | ghosts: who asked or accepted since the last removal, and ever |

`Friendship` is the abstract specification: each user of a pair adds their own
wish, either ends the relation, friends are those who both wish it. Relations
implements it as long as handlers do not overlap, with the wishes read from the
status (`wishes`).

### Groups

| TLA+ | Code |
|---|---|
| `group` | one document; memberships are pairs of a user and a number, because the code can give a user two |
| `handling` | an action with the validations it still has to read |
| `writing` | a copy to write back (`settings`, `removal`), current or not |
| `checking` | the listener of `group:leave` |
| `StartAction`, `Validate`, `ApplyAction`, `RejectAction` | `members_actions.js`, `membership_validations.js`, `model_action.js`, `models/group.js` |
| `ReadSettings`, `RemoveUser`, `PutCopy` | `update_settings.js`, `leave_groups.js` |
| `GetGroup`, `DeleteGroup` | `membership_update_hooks.js` |
| `agreed`, `approved` | ghosts: memberships whose user, and whose group, consented |

### Entities

| TLA+ | Code |
|---|---|
| `docs` | the documents: type, labels and authors (claims `wdt:P50`), redirection, version, which stands for `_rev` too as every write counts it up |
| `patches` | for each version that has one, the documents it is the difference of, and its context (`mergeFrom`, `redirectClaims`) |
| `items` | entity, previous entities, revision |
| `requests` | the stage of the handler, and the jobs it has started (`step` says what each is about to do): `Promise.all` starts several, the next stage waits for all |
| `patchDoc`, `patchAuthors`, `patchLabels`, `patchValue`; `revertPatch`, `revertAuthors` | what `jiff` computes as a difference, applied or undone on a document: the set of results, empty when an operation throws |
| `PutDoc`, `CreatePatch` | `entities_.putUpdate`, two awaits |
| `StartEdit`, `RetryOnConflict` | `update_label.js`, `update_inv_claim.js`, `retry_on_conflict.js` |
| `StartMerge` ... `PropagateRedirection` | `merge.js`, `merge_entities.js`, `turn_into_redirection.js`, `propagate_redirection.js`; their jobs are `DeleteIfIsolated`, `RemovePlaceholder`, `RedirectClaims`, `AfterMerge`, `Bulk` |
| `StartRevert` ... `RevertClaimsRedirections` | `revert_merge.js`; their jobs are `Bulk`, `RecoverPlaceholder`, `RevertFromPatchDoc` |
| `past`, `beforeMerge` | ghosts: whether requests ever failed or overlapped; what the last merge found, while nothing but its revert started |

The patches are pairs of documents because what a patch does to the document it
was computed from is known; what it does to another one is the subject of
`patchDoc` (snapshots, after a hole of the history) and `revertPatch` (after
other edits). A list of authors whose value is replaced has, from `jiff`, the new
value added before the old one is tested and removed; undoing it looks up where
the value is by then (`Patch.fixOperation`).

Authors are the claims kept because they are what a merge removes and redirects.
The view of claims has a row for each time a work claims an author (`rowsOf`), and
`applyRedirections` takes the rows one after the other: the second row of a work
whose first one removed all the claims throws, as `Entity.updateClaim` does.
A snapshot written back has no type and has removed no author (`documentOf`).
Labels are those that not every entity has: each has at least one more, so that
its labels are never empty.

### Ownership and TransactionPages

`Ownership` is what Transactions promises: items have owners, a giver and a taker
agree on an item, an item goes from its owner to whom they agreed with, an
agreement is never forgotten. In Transactions the owner is that of the item's
document, the agreements are the one-way transactions that were accepted and
confirmed (`agreements`, `Promise`). `TransactionPages` extends Transactions with
the tables of the client (`basicNextActions`, `nextActionsWithReturn`,
`cancellableStates`), and compares the buttons they make with the rights and
states of the server.

### The services

| Module | State | Steps |
|---|---|---|
| Fetching | `cache`, `gets` (calls of `cache_.get`), `open` (the group that waits for the timer), `groups` (requests in flight), `puts` (cache writes); the remote source is a version number | `Get`, `Cached`, `RequestIfNeeded`, `returnOldValue` of a call; `doGroupedRequest`, `Resolve`, `Reject` of a request; `putResponseInCache`, `batchDelete`, `ServerRestarts` |
| HostBans | `requests`, `banData`, `backedUp`, `lazyBackup`, `restoring`; a ban is the number of its increases, whether it runs, and the ghost `ranOut` | `Request`, `TimesOut` (`declareHostError`), `Reset`, `Succeeds`, `Fails`; `BanExpires`, `backup`, `HostBansRestart`, `restoreNonExpiredBans` |
| Tasks | `entities` (what they redirect to, whether they are removed placeholders, and whether the version that a revert restores is one), `tasks` (`DeletedTask` is an id that is never given again), `handlers` (the kind and the await of a request or a listener, what it has read); ghosts `lapsed`, `strays` | `checkEntity`, `ReadExistingTasks`, `CreateTasks`, `automerge`; `Merge`, `RemovePlaceholder`, `RevertMerge`, `RecoverPlaceholder`, each a write, then their event, received by `archiveObsoleteEntityUriTasks`, `revertArchive`; `byIds`, then `bulk` (`tasks_.update`); `updateRelationScore`, `Dismiss`; `WikidataRedirect`, `deleteBySuggestionUri`; `HandlerFails` |
| SessionKeys | `clock`, `keys`, `file`, `savings`, `nextCheck`, a `session`; ghost `lostKeys`; a key is its time | `KeysStart`, `checkState` (`generateNewKey` or `checkLater`), `saveKeysToDisk`, `KeysStop`, `SignIn`, `Tick` |
| Accounts | `accounts`, `signups` (signups and renamings), `lockedUsernames` with their age | `SignUp` (`preventMultiAccountsCreation`), `Available`, `Create`; `AskToRename`, `Rename`; `setStableUsername`, `AccountsTick`, `removeExpiredLocks`, `AccountsRestart` |
| Messages | `read`, `messages`, `posters`, `adders` (listeners), `waiting` (keys), `sendings` (the crawler); ghosts `unnoticed`, `crossed` | `GetTransaction`, `addTransactionComment`, `UpdateRead`; `updateState`, `markAsRead`; `addToWaitingList`, `crawl`, `SendMail`, `DeleteKey` |
| Indexation | `changes` of the database, `savedSeq`, `follow`, `since`, `toSave`, `formatting`, `batch`, `posts`, `index`; ghost `excused` | `GetLastSeq`, `initFollow`, `Receive`, `setLastSeq`; `addToBatch`, `postAndReset`, `PostEnds`, `PostFails`; `IndexationRestart` |

Each of these modules stands alone: its server restarts, its timers ring and its
requests fail whenever they can. The restart of the server is, in Tasks, the failure of
each handler in progress. `MCServices` puts them in one run, with Groups
for its liveness: a behaviour is one of one of them, chosen in the initial state,
while the others stay in a state where nothing has to happen, so that the
fairness of one says nothing of the others.

What the ghosts exclude is what the code itself gives up. In Indexation a change is
`excused` where the code lets it go: a large gap, an error that is only logged,
changes of one document that overtake each other, and the changes between the
sequence that was saved and the index when the server stops. In Messages `crossed` says that another
request came in while a message was posted, whose flags were read before.

In Tasks, `lapsed` has the suspects that something happened to which the code does not
provide for: handlers that clash (`clash`: an archive and a revert; a check, or the scores
that follow one, and either; two checks), the failure of a request between its write and
its event, or of its listener, a check that merged the entity, which emits no event, and an
event that says back of an entity that is still gone (a revert that restores a removed
placeholder, the recovery of a redirection). `strays` has those that were checked while
they were merged or removed, which `check_entity.js` does not refuse: the entity is found
where the redirections lead, and a removed placeholder keeps its claims, hence its type.
Dismissals, deletions, a check during the scores of another, listeners of the same kind,
handlers of different suspects, the conflicts that these make and every other failure
excuse nothing. The run TasksAgain shows what a check of a suspect that is gone lets
through. Of the documents by id, those deleted since are errors that the driver leaves out
of `docs`, and the bulk writes those that have no conflict: both are of CouchDB and its
driver, which are external.

## 4. The runs

| Run | Bounds | What it shows |
|---|---|---|
| TransactionsConcurrent | 3 users, 1 item given or not offered, 2 transactions, 2 handlers, restarts, edits to revision 2 | MovedByConsent, OwnershipChain, HoldersAreActive, HistoryOnlyGrows, ImplementsOwnership under every interleaving |
| TransactionsSequential | 3 users, 2 transactions, 1 handler, lending too, edits to revision 3 | AtMostOneHolder, LegalActions, OneActiveRequestPerUser, PagesFollowTheServer |
| TransactionsFormerOwner | 1 handler | *violation*: a confirmed giving moves nothing once the item went to someone else |
| RelationsConcurrent | 2 users, 1 invitation, 3 handlers, restarts | FriendsBothAsked, ToldOfTheirOwnRequests under every interleaving |
| RelationsSequential | 3 users, 2 invitations, 1 handler | FriendsBothWantIt, MutualRequestsMakeFriends, FriendsUntilRemoval, ImplementsFriendship |
| GroupsConcurrent | 2 users, one with two memberships, 2 handlers | MembershipIsMutual, AdminsOnlyLeave, SettingsKeepMemberships under every interleaving |
| GroupsLastAdmins | 3 users, 2 handlers | *violation*: members without an admin |
| EntitiesMerges | 2 works, 1 author, a work and an author of Wikidata, 1 language, 1 item, 2 handlers, 3 requests or restarts, 2 authors per work | TypeOK, HistoryIsFaithful, RedirectionsStand under every interleaving; RedirectionsEnd, ItemsFollowMerges, MergesLeaveNothingBehind, RevertUndoesMerge of handlers that do not overlap |
| EntitiesAuthors | 2 works, 1 author, 1 item, 1 handler, 3 requests | *violation*: an author that is claimed is removed |
| Services | below, fair | EachWaitsInOneGroup, RefreshIsFresh, GetsEnd; BansAreEarned; TasksFollowSuspects, NoSuggestionTwice; SessionsLiveLong; OneAccountPerSpelling; MessagesAreNoticed; IndexCatchesUp; AdminlessGroupsEnd (of Groups) |
| TasksAgain | 2 suspects, 1 suggestion, 2 tasks, 1 handler | *violation*: a merge, a check and a revert leave two tasks for one suggestion |
| AccountsCase | 2 usernames that differ by their case, 2 signups, 2 accounts | *violation*: both are created |

**Why the bounds are enough.** A race of this code is between two handlers on one
document: two slots have them all, and the third slot of RelationsConcurrent
adds a deletion that overlaps two intents. A third user is needed where an item
is given to one while another waits for it, and where an account has relations
with two others. Two transactions are the fewest that compete for an item. An
item's revision is bounded in the guard of the owner's edits only (`MaxRev`), so
that changes of owner are never cut off; histories are bounded by the number of
transactions. Lending, which moves nothing, is in TransactionsSequential only, the
proofs having it under every interleaving.
Three requests (`MaxRequests`, which counts restarts too) make an edit, the merge
it prepares and the revert, a merge of a work and of its author, or a chain
of two merges and a revert. Two works have a
merge between them and a claim of each to the author; the second author is
Wikidata's, so that claims are redirected, and may be there already. Labels are
on works only (`Labelled`), a third author is added to no work (`MaxAuthors`).

In Services: two calls of one key, which join one request or follow each other, and
a source that changes once; three requests in progress, which time out together, and
three increases of a ban; a suspect and a suggestion, two tasks, the fewest that can be
duplicates or be written in one bulk of which a conflict refuses one, and two handlers, to
meet at any await (TasksAgain has a second suspect, for one to redirect to the other, and
the theorems any number of each); six units of time for keys
that live one each, hence two rotations and a third key after restarts; two
signups of the same name, a lock that lasts as long as the longest creation (the
edge of what the code assumes) and two accounts; a request and one answer, by a
message or a change of state, the least that deletes a waiting key and adds
another; three changes of one document, a gap of more than one, one restart; two
users of a group.

**Sequential runs.** "One handler" means that a request is answered before the
next one comes. The checks of the handlers are meant to ensure the properties of
these runs, and ensure them only then: with two slots TLC finds, as expected from
checks that an await separates from their write, two accepted transactions of
one item, an action after a final one, two active requests of one user, a pair
that are friends by an acceptance that raced the cancellation of the request.
These are listed as hazards. The concurrent runs check what survives them. In
Entities one run has both: the ghost `past` says whether requests have overlapped
or failed so far, and the properties that the code only keeps while they did not
say so. Merges that cross make a cycle of redirections; one that fails half way
leaves claims on a redirection. RevertUndoesMerge compares labels, authors,
redirections, items and what is removed, not the type of the restored document,
which is lost: see EntitiesAuthors.

**Symmetry** is on interchangeable model values: slots; works of Entities; users and transactions in
Transactions. Users of Relations are ordered by id, hence integers. Services, a run with liveness, has none.

**Fairness** is assumed in Services only, of what the server does by itself: the
event loop runs what waits for an answer, the database answers, timers ring, the
server starts again. In Groups it is weak fairness of the steps of a handler in
flight, per slot. In Fetching, of the two reads of a call, of the timer, and of a
request, which ends in an answer or a failure as it has a timeout of 30 seconds.
In Indexation, of each stage. In Messages, of the requests, the listeners and the
crawler, with one strong fairness: the crawler, which finds the key of an email
again and again while it can't be built, builds it in the end. Nothing is
assumed of what users ask, nor of the remote source.

**CHECK_DEADLOCK FALSE** everywhere: users may stop asking, an item may be
deleted and all transactions used.

### What the violations say

* AccountsCase: `prevent_multi_accounts_creation.js` locks the username as it is
  spelled and the view of usernames is in lower case, so that two signups of one
  username in two cases that overlap both find it available.
* TasksAgain: `check_entity.js` takes an entity for a redirection when what it leads to is
  of Wikidata; merged into another local entity, a suspect whose check was queued, or
  asked for again, gets live tasks that no event archives. The check only sees live tasks,
  the merge has archived the earlier ones, and the revert makes them live beside the new
  ones. Two checks of one suspect that overlap, which nothing excludes, do the same; that
  exception is in `clash`.
* TransactionsFormerOwner: a request stays pending when the item is given to
  another; accepted and confirmed later, the transaction is confirmed for ever, the
  change of owner throws in a listener, the requester never gets the item.
* GroupsLastAdmins: `membership_update_hooks.js` relies on "if there are no
  admins, there should be no members too"; overlapping requests leave members
  without admin, and the listener then deletes the group under them.
* EntitiesAuthors: the revert of a merge writes back a snapshot, and snapshots have
  no type. The restored work is no longer in the views of claims, so that the merge
  of another work takes an author they share for its own and removes it.

## 5. The proofs

The theorems hold for any sets of users, items, transactions, memberships, calls,
requests, accounts, and any number of handlers in flight, from the assumptions
named in the modules (users have ordered ids, inviters have an
account, memberships are of users and finitely many, a creation takes no longer than
a lock lasts, works, authors and Wikidata entities are told apart by their ids and the
local ones finitely many, bounds are natural numbers). Each module proves that its `Init`
implies its inductive invariant,
one lemma per conjunct that `[Next]_vars` keeps, and what follows. The proofs of a
component are in the module named after it (`TransactionsProofs`, which also has
TransactionPages, and so on), with these exceptions: `ServicesProofs` has those of HostBans,
SessionKeys, Tasks, Fetching and Accounts, `ServiceTypesProofs` the types of all the
services and what Messages and Indexation need for them, and what RevertsUndoMerges needs
beyond `EntitiesProofs` is in `MergeHistoryProofs`.

* **Transactions.** `IInv` adds to the properties what is in flight: a change of
  owner is only pending for an accepted and confirmed one-way transaction
  (`TransfersAreConsented`, which needs `UpdatesAreGrounded`: a confirmation is
  only in flight if an acceptance was written before); a copy to be written chains
  the owners (`WritesAreJustified`); a copy with the current revision extends the
  current history (`FreshWritesExtend`, the heart of HistoryOnlyGrows);
  the state is the last action (`LastActionIsState`, from which the view and the
  model agree). Theorems: TypeCorrectness, ItemsMoveByConsent,
  HistoryIsTheChainOfOwners, WhatHoldsIsActive, MovesAreNeverLost.
  Three more properties rest on checks that are not atomic with the writes they
  allow, and are proved of handlers that do not overlap (`NonOverlapping`: at most one
  slot, as in the run TransactionsSequential). `SequentialInv` says that one request is in
  flight at a time, the cancellations of several transactions at once excepted
  (`InFlightAlone`); that an update about to be written still follows the state of its
  transaction (`UpdatesAreValid`); that an acceptance about to be written finds its item
  free (`AcceptsAreFree`); and that the requester about to be given a transaction has no
  other active one on the item (`RequestsAreFirst`). Theorems: OneHolderAtATime,
  ActionsAreLegal, RequestsAreSingle.
  What a page shows is proved with its server: `PagesInv` adds to `IInv` that a
  requester never owns the item (`RequestersAreNotOwners`) and that only a loan is
  returned (`ReturnsAreOfLoans`), so that the state the page works out from the actions
  is the one the server derives. Theorem: PagesAreInSync.
* **Ownership.** From the `IInv` of Transactions: `FreshWritesKeepOrMove`, a document
  about to be written that can still be written has the owner the item has now, or the
  taker of an agreement with that owner. Agreements only grow, one at a time.
  Refinement: Transactions implements Ownership.
* **Relations.** `IInv` adds that requests were asked and that an acceptance in
  flight was solved from a request. Theorems: TypeCorrectness,
  FriendshipIsMutual, AcceptancesAnswerRequests. For handlers that do not overlap
  (`NonOverlapping`: at most one slot), `SequentialInv` says that an intent in
  flight still finds the status it was solved from, and SequentialRefinement that
  Relations implements Friendship; SequentialFriendsBothWantIt follows, and the two
  action properties SequentialMutualRequests (two users who asked each other are
  friends) and SequentialFriendsUntilRemoval (only a removal ends a friendship).
* **Groups.** `IInv` adds that pending memberships have one side's consent and
  that a copy that can still be written brings nobody in. Theorems:
  TypeCorrectness, MembershipsAreMutual, AdminsAreNotKicked, SettingsAreSettings.
* **Fetching.** `FetchInv` says where calls wait (`Grouping`: those that wait are
  grouped, those grouped wait, groups share no member) and when (`Dating`: the
  members of a group called before its request, which is before its answer).
  Theorems: CallsWaitInOneGroup, RefreshesAreFresh.
* **Entities.** Four invariants, each from those before.
  `EntitiesInv` is about the history: what a request read is the current version or an
  older one, the patches of what it is about to write follow those it read, so that a
  write that is accepted extends the history; and each write keeps what an entity
  redirects to, but a merge or a revert of that entity. Theorems: TypeCorrectness,
  FaithfulHistory, StandingRedirections.
  `Separate` is about redirections as long as requests do not overlap (`Alone`): every
  set of entities has one that leads out of it (`Acyclic`), and what a merge in progress
  leads to is no redirection (`Towards`). Theorem: RedirectionsAlwaysEnd.
  `TidyInv` says, of a request that nothing overlaps and of which no write failed, what
  each stage has reached: that its source redirects (`Redirected`) or no longer does
  (`Restored`); which items, claims and labels its jobs have left to rewrite (`MergeJobs`,
  `MergeItems`, `MergeClaims`, `MergeLabels`, `RevertJobs`, `RevertItems`); and that
  between two such requests nothing points to what redirects (`Settled`). Theorems:
  ItemsAreWhereMergesLead, MergesAreComplete.
  `LedgerInv` and `UndoInv`, under the same condition, are what RevertsUndoMerges needs.
  The first is about the history alone: no patch is missing (`Whole`); the patches that name
  a merge are those that a merge makes, a first author where there was none, or claims on
  the merged entity given up (`ForMerge`); and no work claims twice an entity that was never
  removed or restored (`Unrepeated`), so that such a patch can be told from its effect. An
  entity that went through a merge and its revert lost its type (see EntitiesAuthors), after
  which `findVersionBeforeRedirect` finds nothing: a revert that starts is thus of the first
  merge of its entity (`Pure`, `Unmerged`), and the patches that name it are of that merge
  only. The second relates the ghost `beforeMerge` to the rest: an entity is as the merge found
  it, or has one patch of that merge whose `before` is what it found and whose undoing gives
  it back (`Traced`, `By`, `Undoes`); the redirection's patch has what the merged entity was
  (`Gone`); authors and items are where they were or where the merge put them (`RemovedBy`,
  `KeptOrMoved`); and, stage by stage, which of it is done (`Merging`) or undone
  (`Reverting`). What patches do to lists of authors, applied or undone, is in lemmas on their
  own (PatchedContent, RevertedContent, RedirectedClaims, FirstAuthorUndone), and what a
  history tells in SnapshotsFollow and VersionBeforeMerge. Theorem: RevertsUndoMerges.
  The proof attempt found `patchAuthors` wrong for a patch of several operations on a list it
  was not made from; the definition was corrected from `lib/patches` and the runs repeated.
  `without`, `addSnapshots` and `follow` are recursive functions over sets. What the proofs
  need of them comes from two lemmas, ByInduction and ByRecursion, that state induction and
  recursion about the sets and functions of the model, from the well-foundedness
  of `Nat`; finiteness of the local entities is what bounds a chain of redirections.
  The proof of `MergeClaims` is where the rows of the view come in: a work that claims
  the merged author twice has a second row, at which the rewriting throws, so that a merge
  that did not fail rewrote each work once.
* **Accounts.** `AccountsInv` adds that a signup in progress has its lock, of its age
  (`LocksAreHeld`, where the assumption on their durations counts), that two have
  different spellings (`SignupsDiffer`), and that what was found available still is
  (`StillAvailable`). Theorem: SignupsNeverShareASpelling.
* **SessionKeys.** `KeysInv` says that what is being saved is what is in memory, and
  its last key new (`SavingsAreNew`); that no key of the file is younger than all those
  in memory (`FileIsOlder`); that a key in memory is in the file, about to be, or lost
  (`KeysAreSaved`); and, of a session that should still be read (`alive`), that its key
  is known and that the younger ones were generated after it opened (`SessionIsKnown`).
  Theorem: SessionsOutliveKeys.

* **HostBans.** BansAreEarned is inductive with the types: an increase needs a
  ban that does not run, so that it has already been counted as run out. Theorems:
  BansAreAlwaysEarned, BansTypeCorrectness.
* **Tasks.** `TasksInv` says of handlers that they have read tasks of their own suspect,
  which exist (`HandlersInv`), and of each suspect that is in neither ghost (`InOrder`):
  that its handlers do not clash (`NoClash`), and are those of an entity that is gone, or
  is there, as it is now (`Matches`); that a task which has not followed the entity yet is
  one that a listener will write (`Covered`: it has yet to read the view, or has read the
  task and nobody wrote it since); that a check about to create tasks knows the
  suggestions that are live (`Knows`); and that the tasks that are live, that may be again,
  or that a listener will make so, are for different suggestions (`Distinct`). Distinct has
  to speak of archived tasks, since reverts bring them back, and Covered is why a check
  finds none. `StaysInOrder` is what all steps have in common: one handler moves, the
  others lose the documents it writes, and tasks stay, are dismissed, or follow. That
  `"none"`, `"wikidata"` and `"deleted"` are no suspects is `TasksAssumption`. Theorems:
  TasksEndWithTheirSuspects, OneTaskPerSuggestion.

* **The types of the services.** ServicesTypeOK says that each of the eight modules that
  MCServices puts side by side keeps the shape of its state. The invariants above have the
  types of Fetching, HostBans, Tasks, Accounts and Groups; `MessagesInv` adds that
  a transaction always has an event, so that its events are the keys of the waiting list;
  the types of Indexation are inductive, since changes only get more numerous and the last
  operation of a post on a document is one of the post (`LastOperation`); `KeyTypesInv`
  adds to `KeysInv` when the next check is due and that lost keys are of the past.
  `EachPartSteps` says that a step of one part is a step or a stutter of each.
  Theorem: ServicesTypeCorrectness.

Only model-checked: GetsEnd, MessagesAreNoticed, IndexCatchesUp, AdminlessGroupsEnd:
liveness under fairness and ENABLED are out of the prover's reach. So are the library's
induction theorems, whose parameter is an operator: where a proof needs induction it is
stated about a set, as above. No module has a RECURSIVE operator.

## 6. Left out of the modules, and why

Of entities: other claims, descriptions, the kinds of entities besides works and
humans, values that an edit changes or removes, the ISBN of editions. Timestamps
(orders that matter are nondeterministic choices: which members are
most senior), names, pictures and other copies for display, messages and read
flags, emails, the list of declined invitations (nothing reads it), the positions
and pictures of groups. Deleted users whose sessions still act are in the models:
nothing checks that the user of a request still exists. A restart is `Crash`
where something survives that could be wrong; in Groups it is covered by
handlers that never take another step.

Of the services: session keys of the instances that follow another one, and a key
file torn by a crash; the reset of a follower whose database was deleted and created
again; a stop between the deletion of the waiting keys of an email and the write of
the new one; the exemption of the local host from bans, and the other hosts;
tasks reported by users, which of their scores are out of date, the states and attributes of
a task that the client never sends, the queue of checks; emails, passwords and
tokens of accounts, the deletion of accounts in Accounts; the slugs of groups; the
uniqueness of an ISBN and the checks before an entity is removed. Two
behaviours of the cache are in the model without a property against them, as the
code does not prevent them: a refresh within the millisecond of a write gets
what was written (`expired` compares with `>`), and an older answer may be
cached after a newer one, as writes of the cache are not waited for. A backup of the bans is put off by every
request that succeeds, so that nothing says it ever happens.
