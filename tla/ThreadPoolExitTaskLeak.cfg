\* the pool is destroyed while an exit task waits in the queue
SPECIFICATION MCSpec
CONSTANTS
    w1 = w1
    c1 = c1
    t1 = t1
    e1 = e1
    None = None
    Workers = {w1}
    Clients = {c1}
    Creator = c1
    Tasks = {t1}
    ExitTasks = {e1}
    InitThreads = 1
    SemMax = 2
    EventMax = 2
    Ops = {"add_task", "remove_thread", "destroy"}
    TaskOps = {}
    Faults = {}
INVARIANTS
    ExitTasksFreed
