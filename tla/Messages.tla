------------------------------- MODULE Messages -------------------------------
(***************************************************************************)
(* The messages of a transaction, its read flags, and the debounced emails *)
(* that tell a party about what it has not read (controllers/transactions, *)
(* lib/emails).  Each message restarts the delay of the email: the listener*)
(* of the event deletes the waiting keys of the transaction, then writes a *)
(* new one; a crawler finds the keys that waited long enough, builds the   *)
(* email of the transaction as it is by then, sends it, deletes the key.   *)
(***************************************************************************)
EXTENDS Naturals, Sequences

CONSTANTS Posters,     \* requests that post a message at once
          MaxMessages  \* bound on the events of its timeline

ASSUME MessagesAssumption == MaxMessages \in Nat \ {0}

VARIABLES
    read,         \* the read flags of the transaction
    messages,     \* the authors of its messages and changes of state, in order
    posters,      \* slot -> the request that posts a message
    adders,       \* listeners that add a key to the waiting list
    waiting,      \* keys of the waiting list, and whether they waited long enough
    sendings,     \* keys the crawler found, and the email built for them
    unnoticed,    \* messages their addressee has neither read nor been sent
    crossed       \* a request began while a message was being posted

messagesVars ==
    <<read, messages, posters, adders, waiting, sendings, unnoticed, crossed>>

Roles == {"owner", "requester"}
NoPost == [pc |-> "idle"]

\* the transaction as it was requested, which is the first event of its timeline, unread
\* by the owner, and whose listener starts
MessagesInit ==
    /\ read = [r \in Roles |-> r = "requester"]
    /\ messages = <<"requester">>
    /\ posters = [p \in Posters |-> NoPost]
    /\ adders = {[key |-> 1, listed |-> {}]}
    /\ waiting = {} /\ sendings = {}
    /\ unnoticed = {1}
    /\ crossed = FALSE

-----------------------------------------------------------------------------
(* Posting a message: messages.js *)

posting == \E p \in Posters : posters[p] # NoPost
addressedTo(role) == {m \in 1..Len(messages) : messages[m] # role}
updateReadStates(role) == [r \in Roles |-> r = role]

\* the request reads the transaction
GetTransaction(p, role) ==
    /\ posters[p] = NoPost
    /\ Len(messages) < MaxMessages
    /\ posters' = [posters EXCEPT ![p] = [pc |-> "adding", role |-> role, read |-> read]]
    /\ crossed' = (crossed \/ posting)
    /\ UNCHANGED <<read, messages, adders, waiting, sendings, unnoticed>>

\* who answers has seen what was said so far
addTransactionComment(p) ==
    /\ posters[p].pc = "adding"
    /\ Len(messages) < MaxMessages
    /\ messages' = Append(messages, posters[p].role)
    /\ unnoticed' = (unnoticed \ addressedTo(posters[p].role)) \union {Len(messages')}
    /\ posters' = [posters EXCEPT ![p].pc = "reading"]
    /\ UNCHANGED <<read, adders, waiting, sendings, crossed>>

\* mutant: the flags are left alone when the author has read everything
SkipWhenRead(p) ==
    IF posters[p].read[posters[p].role] THEN UNCHANGED read
    ELSE read' = updateReadStates(posters[p].role)

\* a write is spared when the flags that the request has read are the right ones
updateReadForNewMessage(p) ==
    IF posters[p].read = updateReadStates(posters[p].role) THEN UNCHANGED read
    ELSE read' = updateReadStates(posters[p].role)

\* the flags, then the event, whose listener is not waited for and lists the waiting keys
UpdateRead(p) ==
    /\ posters[p].pc = "reading"
    /\ updateReadForNewMessage(p)
    /\ adders' = adders \union {[key |-> Len(messages), listed |-> {w.key : w \in waiting}]}
    /\ posters' = [posters EXCEPT ![p] = NoPost]
    /\ UNCHANGED <<messages, waiting, sendings, unnoticed, crossed>>

\* a party changes the state of the transaction, which is an event of its timeline as well
\* (the state itself is not modelled here)
updateState(role) ==
    /\ Len(messages) < MaxMessages
    /\ messages' = Append(messages, role)
    /\ unnoticed' = (unnoticed \ addressedTo(role)) \union {Len(messages')}
    /\ read' = updateReadStates(role)
    /\ adders' = adders \union {[key |-> Len(messages'), listed |-> {w.key : w \in waiting}]}
    /\ crossed' = (crossed \/ posting)
    /\ UNCHANGED <<posters, waiting, sendings>>

\* the page of the transaction is displayed to one of its parties
markAsRead(role) ==
    /\ ~read[role]
    /\ read' = [read EXCEPT ![role] = TRUE]
    /\ unnoticed' = unnoticed \ addressedTo(role)
    /\ crossed' = (crossed \/ posting)
    /\ UNCHANGED <<messages, posters, adders, waiting, sendings>>

-----------------------------------------------------------------------------
(* The waiting list: debounce_emails.js *)

\* mutant: nothing is added when keys of the transaction were there
AddOnlyFirst(a) ==
    /\ waiting' = {w \in waiting : w.key \notin a.listed}
                    \union {w \in {[key |-> a.key, due |-> FALSE]} : a.listed = {}}
    /\ adders' = adders \ {a}
    /\ UNCHANGED <<read, messages, posters, sendings, unnoticed, crossed>>

\* the listed keys are deleted, the new one is written
addToWaitingList(a) ==
    /\ waiting' = {w \in waiting : w.key \notin a.listed}
                    \union {[key |-> a.key, due |-> FALSE]}
    /\ adders' = adders \ {a}
    /\ UNCHANGED <<read, messages, posters, sendings, unnoticed, crossed>>

WaitedEnough(w) ==
    /\ ~w.due
    /\ waiting' = (waiting \ {w}) \union {[w EXCEPT !.due = TRUE]}
    /\ UNCHANGED <<read, messages, posters, adders, sendings, unnoticed, crossed>>

-----------------------------------------------------------------------------
(* The crawler: debounced_emails_crawler.js, build_transaction_email.js *)

NotBuilt == "none"

\* a key that waited long enough is found; the transaction is read
crawl(w) ==
    /\ w.due
    /\ \A s \in sendings : s.key # w.key
    /\ sendings' = sendings \union {[key |-> w.key, notify |-> \E r \in Roles : ~read[r],
                                     pc |-> "building"]}
    /\ UNCHANGED <<read, messages, posters, adders, waiting, unnoticed, crossed>>

\* the last messages of the same author, told to the other party
lastSequence ==
    {m \in 1..Len(messages) : \A n \in m..Len(messages) : messages[n] = messages[Len(messages)]}

\* the messages are read and the email is sent, unless everything was read; an error of the
\* transport is only logged
SendMail(s) ==
    /\ s.pc = "building"
    /\ unnoticed' = IF s.notify THEN unnoticed \ lastSequence ELSE unnoticed
    /\ sendings' = (sendings \ {s}) \union {[s EXCEPT !.pc = "deleting"]}
    /\ UNCHANGED <<read, messages, posters, adders, waiting, crossed>>

\* the email could not be built: its key stays, for the next crawl
BuildFails(s) ==
    /\ s.pc = "building"
    /\ sendings' = sendings \ {s}
    /\ UNCHANGED <<read, messages, posters, adders, waiting, unnoticed, crossed>>

DeleteKey(s) ==
    /\ s.pc = "deleting"
    /\ waiting' = {w \in waiting : w.key # s.key}
    /\ sendings' = sendings \ {s}
    /\ UNCHANGED <<read, messages, posters, adders, unnoticed, crossed>>

MessagesNext ==
    \/ \E p \in Posters :
          \/ \E role \in Roles : GetTransaction(p, role)
          \/ addTransactionComment(p) \/ UpdateRead(p)
    \/ \E role \in Roles : updateState(role) \/ markAsRead(role)
    \/ \E a \in adders : addToWaitingList(a)
    \/ \E w \in waiting : WaitedEnough(w) \/ crawl(w)
    \/ \E s \in sendings : SendMail(s) \/ BuildFails(s) \/ DeleteKey(s)

MessagesSpec == MessagesInit /\ [][MessagesNext]_messagesVars

\* requests, listeners and the crawler end what they began; an email whose building is
\* tried again and again is built in the end
MessagesFairness ==
    /\ \A p \in Posters : WF_messagesVars(addTransactionComment(p) \/ UpdateRead(p))
    /\ WF_messagesVars(\E a \in adders : addToWaitingList(a))
    /\ \A k \in 1..MaxMessages :
          /\ WF_messagesVars(\E w \in waiting : w.key = k /\ (WaitedEnough(w) \/ crawl(w)))
          /\ SF_messagesVars(\E s \in sendings : s.key = k /\ SendMail(s))
          /\ WF_messagesVars(\E s \in sendings : s.key = k /\ DeleteKey(s))

-----------------------------------------------------------------------------
(* Properties *)

MailKeys == 1..MaxMessages
Flags == [Roles -> BOOLEAN]

MessagesTypeOK ==
    /\ read \in Flags
    /\ messages \in Seq(Roles) /\ Len(messages) <= MaxMessages
    /\ posters \in [Posters ->
          {NoPost} \union [pc : {"adding", "reading"}, role : Roles, read : Flags]]
    /\ adders \subseteq [key : MailKeys, listed : SUBSET MailKeys]
    /\ waiting \subseteq [key : MailKeys, due : BOOLEAN]
    /\ sendings \subseteq [key : MailKeys, notify : BOOLEAN, pc : {"building", "deleting"}]
    /\ unnoticed \subseteq MailKeys
    /\ crossed \in BOOLEAN

\* Each message is read, answered or sent by email to its addressee in the end, whatever
\* the listeners of the messages and the crawler do at the same time, as long as no request
\* came in while a message was posted: the flags the post compares are read before it
\* (transactions.js:55-60)
MessagesAreNoticed ==
    \A m \in 1..MaxMessages : m \in unnoticed ~> (m \notin unnoticed \/ crossed)
=============================================================================
