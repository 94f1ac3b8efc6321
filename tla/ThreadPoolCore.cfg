\* two clients that follow the eventfd protocol, threads retiring and joining
SPECIFICATION MCSpec
CONSTANTS
    w1 = w1
    w2 = w2
    c1 = c1
    c2 = c2
    t1 = t1
    t2 = t2
    t3 = t3
    e1 = e1
    None = None
    Workers = {w1, w2}
    Clients = {c1, c2}
    Creator = c1
    Tasks = {t1, t2, t3}
    ExitTasks = {e1}
    InitThreads = 1
    SemMax = 4
    EventMax = 3
    Ops = {"add_task", "remove_thread", "add_thread", "take", "destroy"}
    TaskOps = {}
    Faults = {}
SYMMETRY WorkersAndTasks
INVARIANTS
    TypeOK
    LocksHeld
    InTokens
    OutTokens
    NoEmptyTake
    TaskInOnePlace
    CompletedExecuted
    EventBacked
PROPERTIES
    ImplementsTaskPool
