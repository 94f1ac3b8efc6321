\* threads retire, tasks are added, and the pool is destroyed at any time
SPECIFICATION MCFairSpec
CONSTANTS
    w1 = w1
    w2 = w2
    c1 = c1
    c2 = c2
    t1 = t1
    e1 = e1
    e2 = e2
    None = None
    Workers = {w1, w2}
    Clients = {c1, c2}
    Creator = c1
    Tasks = {t1}
    ExitTasks = {e1, e2}
    InitThreads = 2
    SemMax = 3
    EventMax = 3
    Ops = {"add_task", "remove_thread", "destroy"}
    TaskOps = {}
    Faults = {"create", "insert"}
PROPERTIES
    DestroyCompletes
    RetireCompletes
    TaskServed
