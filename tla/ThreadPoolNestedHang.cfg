\* a task's func adds a thread while the pool is destroyed
SPECIFICATION MCFairSpec
CONSTANTS
    w1 = w1
    w2 = w2
    c1 = c1
    t1 = t1
    None = None
    Workers = {w1, w2}
    Clients = {c1}
    Creator = c1
    Tasks = {t1}
    ExitTasks = {}
    InitThreads = 1
    SemMax = 2
    EventMax = 2
    Ops = {"add_task", "destroy"}
    TaskOps = {"add_thread"}
    Faults = {}
PROPERTIES
    DestroyCompletes
CHECK_DEADLOCK FALSE
