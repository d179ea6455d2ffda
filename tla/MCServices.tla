------------------------------ MODULE MCServices ------------------------------
(***************************************************************************)
(* Small instances of the modules that share no state with one another:    *)
(* a behaviour is one of one of them, chosen in its initial state, while   *)
(* the others stay where they are.                                         *)
(***************************************************************************)
EXTENDS Fetching, HostBans, Tasks, SessionKeys, MCAccounts, Messages, Indexation, Groups

CONSTANT alice

VARIABLE part

\* one membership per user
OneEach == Users \X {1}

allVars == <<fetchingVars, hostBansVars, tasksVars, sessionKeysVars, accountsVars,
             messagesVars, indexationVars, vars>>

Parts == {"fetching", "bans", "tasks", "keys", "accounts", "messages", "indexation",
          "groups"}

\* the server follows a database that does not change
NoChanges ==
    /\ changes = <<>> /\ savedSeq = 0 /\ since = 0 /\ toSave = 0
    /\ follow = "following"
    /\ formatting = {} /\ batch = <<>> /\ posts = {}
    /\ index = [d \in IndexedDocs |-> 0]
    /\ restarts = 0 /\ excused = {}

\* the owner has read the request and the email of it was not needed
AllRead ==
    /\ read = [r \in Roles |-> TRUE]
    /\ messages = <<"requester">>
    /\ posters = [p \in Posters |-> NoPost]
    /\ adders = {} /\ waiting = {} /\ sendings = {}
    /\ unnoticed = {} /\ crossed = FALSE

\* a group that waits for nothing
QuietGroup == Init /\ group.lists["admins"] = {<<alice, 1>>} /\ ~group.open

\* fairness makes a step of no part that was not chosen
ServicesInit ==
    /\ part \in Parts
    /\ FetchingInit /\ HostBansInit /\ TasksInit /\ SessionKeysInit /\ AccountsInit
    /\ IF part = "messages" THEN MessagesInit ELSE AllRead
    /\ IF part = "indexation" THEN IndexationInit ELSE NoChanges
    /\ IF part = "groups" THEN Init ELSE QuietGroup

ServicesNext ==
    \/ /\ part = "fetching" /\ FetchingNext
       /\ UNCHANGED <<part, hostBansVars, tasksVars, sessionKeysVars, accountsVars,
                      messagesVars, indexationVars, vars>>
    \/ /\ part = "bans" /\ HostBansNext
       /\ UNCHANGED <<part, fetchingVars, tasksVars, sessionKeysVars, accountsVars,
                      messagesVars, indexationVars, vars>>
    \/ /\ part = "tasks" /\ TasksNext
       /\ UNCHANGED <<part, fetchingVars, hostBansVars, sessionKeysVars, accountsVars,
                      messagesVars, indexationVars, vars>>
    \/ /\ part = "keys" /\ SessionKeysNext
       /\ UNCHANGED <<part, fetchingVars, hostBansVars, tasksVars, accountsVars,
                      messagesVars, indexationVars, vars>>
    \/ /\ part = "accounts" /\ AccountsNext
       /\ UNCHANGED <<part, fetchingVars, hostBansVars, tasksVars, sessionKeysVars,
                      messagesVars, indexationVars, vars>>
    \/ /\ part = "messages" /\ MessagesNext
       /\ UNCHANGED <<part, fetchingVars, hostBansVars, tasksVars, sessionKeysVars,
                      accountsVars, indexationVars, vars>>
    \/ /\ part = "indexation" /\ IndexationNext
       /\ UNCHANGED <<part, fetchingVars, hostBansVars, tasksVars, sessionKeysVars,
                      accountsVars, messagesVars, vars>>
    \/ /\ part = "groups" /\ Next
       /\ UNCHANGED <<part, fetchingVars, hostBansVars, tasksVars, sessionKeysVars,
                      accountsVars, messagesVars, indexationVars>>

ServicesSpec ==
    /\ ServicesInit /\ [][ServicesNext]_<<part, allVars>>
    /\ FetchingFairness /\ MessagesFairness /\ IndexationFairness /\ Fairness

\* The state of each of these modules keeps its shape
ServicesTypeOK ==
    /\ FetchingTypeOK /\ HostBansTypeOK /\ TasksTypeOK /\ SessionKeysTypeOK
    /\ AccountsTypeOK /\ MessagesTypeOK /\ IndexationTypeOK /\ TypeOK
=============================================================================
