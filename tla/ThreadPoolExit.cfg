\* threads retire, by order of clients and of tasks, while others are added and
\* while the pool is destroyed; pthread_create() and map_insert() may fail.
\* threadpool_tasks_queued() may stop the pool: deadlock is not checked
SPECIFICATION MCSpec
CONSTANTS
    w1 = w1
    w2 = w2
    c1 = c1
    t1 = t1
    t2 = t2
    t3 = t3
    e1 = e1
    None = None
    Workers = {w1, w2}
    Clients = {c1}
    Creator = c1
    Tasks = {t1, t2, t3}
    ExitTasks = {e1}
    InitThreads = 2
    SemMax = 2
    EventMax = 1
    Ops = {"add_task", "remove_thread", "add_thread", "direct_take", "tasks_queued", "destroy"}
    TaskOps = {"add_task", "remove_thread", "tasks_queued"}
    Faults = {"create", "insert"}
SYMMETRY WorkersAndTasks
INVARIANTS
    NoUseAfterFree
    HandlesValid
    ThreadsTracked
    ExitExclusive
CHECK_DEADLOCK FALSE
