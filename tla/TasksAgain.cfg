SPECIFICATION TasksSpec
CONSTANTS
    Suspects = {x, y}
    Suggestions = {p}
    TaskIds = {t1, t2}
    Handlers = {h1}
CHECK_DEADLOCK FALSE
INVARIANT ExistingTasksAreNotRecreated
