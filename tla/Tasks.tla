-------------------------------- MODULE Tasks --------------------------------
(***************************************************************************)
(* The deduplication tasks (controllers/tasks): a check of a suspect       *)
(* creates one task per suggested duplicate, or merges the entity into the *)
(* only good suggestion; the listeners of entity events archive the tasks  *)
(* of an entity that is gone and bring them back with it.                  *)
(*                                                                         *)
(* Each await is a step of its own: the write of the entity, the event,    *)
(* the reading of a view, the reading of the documents by id, their        *)
(* writing in bulk, where a document written since it was read is a        *)
(* conflict and the others are written.  Any of them may fail, and nothing *)
(* is tried again.  Scores are not values here: which tasks have another   *)
(* one than they should is a choice, their writing is not.                 *)
(***************************************************************************)
EXTENDS Functions

CONSTANTS Suspects,      \* local entities of authors
          Suggestions,   \* Wikidata entities they may be duplicates of
          TaskIds,       \* bounds the tasks ever created
          Handlers       \* requests and listeners that can be in progress at once

ASSUME TasksAssumption == {"none", "wikidata", "deleted"} \intersect Suspects = {}

VARIABLES
    entities,     \* suspect -> its redirection, whether it is a removed placeholder, and
                  \* whether the version that a revert would restore is one
    tasks,        \* id -> its document
    handlers,     \* slot -> the progress of a request or a listener

    \* kept for the properties only
    lapsed,      \* suspects that the accidents named below happened to
    strays        \* suspects that were checked while they were gone

tasksVars == <<entities, tasks, handlers, lapsed, strays>>

NoTask == [suspectUri |-> "none"]
DeletedTask == [suspectUri |-> "deleted"]         \* its id is never given again
NoHandler == [kind |-> "none"]
TaskStates == {"live", "merged", "dismissed"}     \* "live" is the undefined state

TasksInit ==
    /\ entities = [s \in Suspects |->
                      [redirect |-> "none", removed |-> FALSE, restoresRemoved |-> FALSE]]
    /\ tasks = [t \in TaskIds |-> NoTask]
    /\ handlers = [h \in Handlers |-> NoHandler]
    /\ lapsed = {}
    /\ strays = {}

isRedirection(s) == entities[s].redirect # "none"
gone(s) == isRedirection(s) \/ entities[s].removed

-----------------------------------------------------------------------------
(* Views of the tasks database *)

Created == {t \in TaskIds : tasks[t].suspectUri \in Suspects}
bySuspectUriAndState(s, state) ==
    {t \in Created : tasks[t].suspectUri = s /\ tasks[t].state = state}
bySuspectUri(s) == bySuspectUriAndState(s, "live")
bySuggestionUri(p) ==
    {t \in Created : tasks[t].suggestionUri = p /\ tasks[t].state = "live"}

-----------------------------------------------------------------------------
(* Handlers: a kind, what is awaited, and what was read *)

Handler(kind, pc, s) ==
    [kind |-> kind, pc |-> pc, suspect |-> s, entity |-> "none", known |-> {}, ids |-> {}]

inProgress(h) == handlers[h].kind # "none"
isAbout(h, s) == inProgress(h) /\ handlers[h].suspect = s

\* Handlers of one suspect that undo each other when they overlap: an archive and its
\* revert; a check, which creates tasks, or the scores that follow it, whose writes are
\* conflicts for a listener that has read the tasks; two checks.
Listeners == {"archive", "revert"}
clash(a, b) == \/ a \in Listeners /\ b \in Listeners /\ a # b
               \/ a \in Listeners /\ b \in {"check", "score"}
               \/ a \in {"check", "score"} /\ b \in Listeners
               \/ a = "check" /\ b = "check"

clashing(h, handler) ==
    {s \in Suspects : /\ s = handler.suspect
                      /\ \E other \in Handlers \ {h} :
                            isAbout(other, s) /\ clash(handler.kind, handlers[other].kind)}

\* h goes on as handler; accidents are the suspects that the step itself wrongs
GoesOn(h, handler, accidents) ==
    /\ handlers' = [handlers EXCEPT ![h] = handler]
    /\ lapsed' = lapsed \union clashing(h, handler) \union accidents

Starts(h, handler, accidents) == ~inProgress(h) /\ GoesOn(h, handler, accidents)

Ends(h) ==
    /\ handlers' = [handlers EXCEPT ![h] = NoHandler]
    /\ UNCHANGED lapsed

\* a write of tasks gives them a new rev: whoever has read them before has lost
withoutWritten(handler, ids) ==
    IF handler.kind # "none" /\ handler.pc = "writing"
    THEN [handler EXCEPT !.ids = @ \ ids] ELSE handler

EndsWriting(h, ids) ==
    /\ handlers' = [g \in Handlers |->
                       IF g = h THEN NoHandler ELSE withoutWritten(handlers[g], ids)]
    /\ UNCHANGED lapsed

\* the request, the listener or the server stops there; an archive or a revert is lost
HandlerFails(h) ==
    /\ inProgress(h)
    /\ handlers' = [handlers EXCEPT ![h] = NoHandler]
    /\ lapsed' = lapsed \union {s \in Suspects : /\ s = handlers[h].suspect
                                                   /\ handlers[h].kind \in Listeners}
    /\ UNCHANGED <<entities, tasks, strays>>

-----------------------------------------------------------------------------
(* tasks_.update: the documents are read by id, changed and written in bulk *)

byIds(h) ==
    /\ inProgress(h) /\ handlers[h].pc = "updating"
    /\ GoesOn(h, [handlers[h] EXCEPT !.pc = "writing", !.ids = @ \intersect Created], {})
    /\ UNCHANGED <<entities, tasks, strays>>

newState(kind, state) ==
    CASE kind = "archive" -> "merged"
      [] kind = "revert" -> "live"
      [] kind = "dismiss" -> "dismissed"
      [] OTHER -> state

\* the state is set whatever it is by now; update.js then looks after the scores
bulk(h) ==
    /\ inProgress(h) /\ handlers[h].pc = "writing" /\ handlers[h].kind # "delete"
    /\ LET ids == handlers[h].ids IN
          /\ tasks' = [t \in TaskIds |->
                          IF t \in ids
                          THEN [tasks[t] EXCEPT !.state = newState(handlers[h].kind, @)]
                          ELSE tasks[t]]
          /\ IF handlers[h].kind = "dismiss" /\ ids # {}
             THEN LET score == Handler("score", "scoring", handlers[h].suspect) IN
                     /\ handlers' = [g \in Handlers |->
                                        IF g = h THEN score
                                        ELSE withoutWritten(handlers[g], ids)]
                     /\ lapsed' = lapsed \union clashing(h, score)
             ELSE EndsWriting(h, ids)
    /\ UNCHANGED <<entities, strays>>

\* relation_score.js: the live tasks whose score is not up to date are updated
updateRelationScore(h) ==
    /\ inProgress(h) /\ handlers[h].pc = "scoring"
    /\ \E outdated \in SUBSET bySuspectUri(handlers[h].suspect) :
          IF outdated = {} THEN Ends(h)
          ELSE GoesOn(h, [handlers[h] EXCEPT !.pc = "updating", !.ids = outdated], {})
    /\ UNCHANGED <<entities, tasks, strays>>

\* a user dismisses a task, in whatever state it is by now; dismissed is the one value of
\* one attribute that the client sends (client/app/modules/tasks/models/task.js:66-67)
Dismiss(h, t) ==
    /\ t \in Created
    /\ Starts(h, [Handler("dismiss", "updating", tasks[t].suspectUri) EXCEPT !.ids = {t}], {})
    /\ UNCHANGED <<entities, tasks, strays>>

-----------------------------------------------------------------------------
(* Checks: check_entity.js, asked for by users, by the jobs queue, and by a    *)
(* redirection of Wikidata                                                     *)

\* The entity that local redirections lead to from s, unless they lead to Wikidata; a
\* removed placeholder still has its claims, hence the type of an author
resolved(s) ==
    {e \in Suspects :
        /\ ~isRedirection(e)
        /\ \A reached \in SUBSET Suspects :
              ( /\ s \in reached
                /\ \A r \in reached : entities[r].redirect \in Suspects
                                         => entities[r].redirect \in reached )
              => e \in reached}

\* "entity is already a redirection" is thrown when the redirections lead to Wikidata
checkEntity(h, s) ==
    /\ \E e \in resolved(s) :
          Starts(h, [Handler("check", "resolved", s) EXCEPT !.entity = e], {})
    /\ strays' = strays \union {g \in {s} : gone(g)}
    /\ UNCHANGED <<entities, tasks>>

\* mutant: the tasks are looked up with another state
getDismissedTasks(s) == bySuspectUriAndState(s, "dismissed")
getExistingTasks(s) == bySuspectUri(s)

ReadExistingTasks(h) ==
    /\ inProgress(h) /\ handlers[h].pc = "resolved"
    /\ LET existing == getExistingTasks(handlers[h].suspect) IN
          GoesOn(h, [handlers[h] EXCEPT !.pc = "searching",
                                        !.known = {tasks[t].suggestionUri : t \in existing}],
                 {})
    /\ UNCHANGED <<entities, tasks, strays>>

\* one new document per suggestion
create(s, suggestions) ==
    \E new \in SUBSET {t \in TaskIds : tasks[t] = NoTask} :
    \E suggestionUri \in Bijection(new, suggestions) :
        tasks' = [t \in TaskIds |->
                     IF t \in new THEN [suspectUri |-> s, suggestionUri |-> suggestionUri[t],
                                        state |-> "live"]
                     ELSE tasks[t]]

scoreOf(h) == Handler("score", "scoring", handlers[h].suspect)

\* the suggestions of the search that have the occurrences it takes, but for the known ones
CreateTasks(h) ==
    /\ inProgress(h) /\ handlers[h].pc = "searching"
    /\ \E found \in SUBSET Suggestions :
          create(handlers[h].suspect, found \ handlers[h].known)
    /\ GoesOn(h, scoreOf(h), {})
    /\ UNCHANGED <<entities, strays>>

redirect(e, to) ==
    entities' = [entities EXCEPT ![e].redirect = to,
                                 ![e].restoresRemoved = entities[e].removed]

\* One suggestion stands out: the entity that the check has found is merged into it, by a
\* call that emits no event.  If it has become a redirection since, the check fails
automerge(h) ==
    /\ inProgress(h) /\ handlers[h].pc = "searching"
    /\ ~isRedirection(handlers[h].entity)
    /\ redirect(handlers[h].entity, "wikidata")
    /\ GoesOn(h, scoreOf(h), {handlers[h].entity})
    /\ UNCHANGED <<tasks, strays>>

-----------------------------------------------------------------------------
(* Entities end and come back.  The request writes the entity, then has more   *)
(* to do, all of which may fail, before it emits the event                     *)

\* neither of the two is a redirection: merge.js:86 and the edits of a merge refuse one
Merge(h, s, to) ==
    /\ ~isRedirection(s)
    /\ to # s /\ (to \in Suspects => ~isRedirection(to))
    /\ redirect(s, to)
    /\ Starts(h, Handler("archive", "written", s), {})
    /\ UNCHANGED <<tasks, strays>>

\* placeholders.js: a redirection is left as it is, and its removal is told anyway
RemovePlaceholder(h, s) ==
    /\ isRedirection(s) \/ ~entities[s].removed
    /\ entities' = [entities EXCEPT ![s].removed = @ \/ ~isRedirection(s)]
    /\ Starts(h, Handler("archive", "written", s), {})
    /\ UNCHANGED <<tasks, strays>>

\* The last version that is no redirection is restored.  It may be a removed placeholder:
\* the event is the same
RevertMerge(h, s) ==
    /\ isRedirection(s)
    /\ entities' = [entities EXCEPT ![s] = [redirect |-> "none",
                                            removed |-> entities[s].restoresRemoved,
                                            restoresRemoved |-> FALSE]]
    /\ Starts(h, Handler("revert", "written", s),
              {g \in {s} : entities[g].restoresRemoved})
    /\ UNCHANGED <<tasks, strays>>

\* a removed placeholder that is also a redirection stays one: the event is the same
RecoverPlaceholder(h, s) ==
    /\ entities[s].removed
    /\ entities' = [entities EXCEPT ![s].removed = FALSE]
    /\ Starts(h, Handler("revert", "written", s), {g \in {s} : isRedirection(g)})
    /\ UNCHANGED <<tasks, strays>>

-----------------------------------------------------------------------------
(* Listeners of the events: they read the tasks as they start *)

\* mutant: a removal is not listened to
obsoleteTasksOfRedirections(s) == IF isRedirection(s) THEN bySuspectUri(s) ELSE {}
obsoleteTasks(s) == bySuspectUri(s)

listens(h, ids) ==
    IF ids = {} THEN Ends(h)
    ELSE GoesOn(h, [handlers[h] EXCEPT !.pc = "updating", !.ids = ids], {})

archiveObsoleteEntityUriTasks(h) ==
    /\ inProgress(h) /\ handlers[h].kind = "archive" /\ handlers[h].pc = "written"
    /\ listens(h, obsoleteTasks(handlers[h].suspect))
    /\ UNCHANGED <<entities, tasks, strays>>

revertArchive(h) ==
    /\ inProgress(h) /\ handlers[h].kind = "revert" /\ handlers[h].pc = "written"
    /\ listens(h, bySuspectUriAndState(handlers[h].suspect, "merged"))
    /\ UNCHANGED <<entities, tasks, strays>>

\* a suggestion is redirected on Wikidata: its live tasks are deleted as they were read,
\* then their suspects are checked again, as at any other time
WikidataRedirect(h, p) ==
    /\ bySuggestionUri(p) # {}
    /\ Starts(h, [Handler("delete", "writing", "none") EXCEPT !.ids = bySuggestionUri(p)], {})
    /\ UNCHANGED <<entities, tasks, strays>>

deleteBySuggestionUri(h) ==
    /\ inProgress(h) /\ handlers[h].kind = "delete"
    /\ tasks' = [t \in TaskIds |-> IF t \in handlers[h].ids THEN DeletedTask ELSE tasks[t]]
    /\ EndsWriting(h, handlers[h].ids)
    /\ UNCHANGED <<entities, strays>>

TasksNext ==
    \/ \E h \in Handlers, s \in Suspects :
          \/ checkEntity(h, s)
          \/ \E to \in Suspects \union {"wikidata"} : Merge(h, s, to)
          \/ RemovePlaceholder(h, s) \/ RevertMerge(h, s) \/ RecoverPlaceholder(h, s)
    \/ \E h \in Handlers, p \in Suggestions : WikidataRedirect(h, p)
    \/ \E h \in Handlers, t \in TaskIds : Dismiss(h, t)
    \/ \E h \in Handlers :
          \/ ReadExistingTasks(h) \/ CreateTasks(h) \/ automerge(h)
          \/ archiveObsoleteEntityUriTasks(h) \/ revertArchive(h)
          \/ byIds(h) \/ bulk(h) \/ updateRelationScore(h) \/ deleteBySuggestionUri(h)
          \/ HandlerFails(h)

TasksSpec == TasksInit /\ [][TasksNext]_tasksVars

-----------------------------------------------------------------------------
(* Properties *)

EntityDocs == [redirect : Suspects \union {"none", "wikidata"}, removed : BOOLEAN,
               restoresRemoved : BOOLEAN]
TaskDocs == [suspectUri : Suspects, suggestionUri : Suggestions, state : TaskStates]
Progress == [kind : {"check", "score", "dismiss", "archive", "revert", "delete"},
             pc : {"resolved", "searching", "scoring", "written", "updating", "writing"},
             suspect : Suspects \union {"none"}, entity : Suspects \union {"none"},
             known : SUBSET Suggestions, ids : SUBSET TaskIds]

TasksTypeOK ==
    /\ entities \in [Suspects -> EntityDocs]
    /\ tasks \in [TaskIds -> TaskDocs \union {NoTask, DeletedTask}]
    /\ handlers \in [Handlers -> Progress \union {NoHandler}]
    /\ lapsed \subseteq Suspects
    /\ strays \subseteq Suspects

\* an archive or a revert of the tasks of s is on its way
followed(s) == \E h \in Handlers : isAbout(h, s) /\ handlers[h].kind \in Listeners

\* An entity that was merged or removed is nobody's suspect any more once its listener is
\* done (hooks.js:16-19), and one that is back has none of its tasks left archived
\* (hooks.js:37-43), whatever users dismiss, Wikidata redirects and other listeners write
\* between the steps.  Not so after what the code does not provide for: handlers that
\* clash, an archive or revert that fails, a check that merged the entity, which emits no
\* event, an event that says back of an entity that is still gone, and a check of an
\* entity that is gone
TasksFollowSuspects ==
    \A s \in Suspects \ (lapsed \union strays) :
        ~followed(s) =>
            bySuspectUriAndState(s, IF gone(s) THEN "live" ELSE "merged") = {}

suggestedTwice(s) ==
    \E t1, t2 \in bySuspectUri(s) :
        t1 # t2 /\ tasks[t1].suggestionUri = tasks[t2].suggestionUri

\* A duplicate is suggested once at a time, however often the suspect is checked, merged,
\* removed and brought back, and its tasks dismissed or deleted (check_entity.js:24,
\* get_new_tasks.js:35-38), with the exceptions above
NoSuggestionTwice == \A s \in Suspects \ (lapsed \union strays) : ~suggestedTwice(s)

\* Existing tasks are not created again: "should not re-create existing tasks"
\* (check_entities.test.js:39), nor are there tasks of a suspect that is checked while it is
\* gone: "entity is already a redirection" (check_entity.js:17)
ExistingTasksAreNotRecreated == \A s \in Suspects \ lapsed : ~suggestedTwice(s)
=============================================================================
