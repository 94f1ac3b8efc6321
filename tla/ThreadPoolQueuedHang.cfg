\* a call of threadpool_tasks_queued() before the pool is destroyed
SPECIFICATION MCFairSpec
CONSTANTS
    w1 = w1
    c1 = c1
    t1 = t1
    None = None
    Workers = {w1}
    Clients = {c1}
    Creator = c1
    Tasks = {t1}
    ExitTasks = {}
    InitThreads = 1
    SemMax = 2
    EventMax = 2
    Ops = {"add_task", "tasks_queued", "destroy"}
    TaskOps = {}
    Faults = {}
PROPERTIES
    DestroyCompletes
CHECK_DEADLOCK FALSE
